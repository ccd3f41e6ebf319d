SPECIFICATION Spec
CONSTANTS
  m1 = m1
  m2 = m2
  m3 = m3
  None = None
  Moderators = {m1, m2}
  Expiry = 2
  Interleaved = TRUE
INVARIANTS
  MutualExclusion
