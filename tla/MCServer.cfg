SPECIFICATION ServerSpec
CONSTANTS
  m1 = m1
  m2 = m2
  m3 = m3
  None = None
  Moderators = {m1, m2, m3}
  Expiry = 2
  Interleaved = FALSE
  Requests = {"q1", "q2"}
  Runs = {"w1", "w2"}
  MaxMishaps = 1
  Workers = {"w"}
  Deliveries = {"d1", "d2"}
  Limit = 2
  MaxAttempts = 3
  Overlap = FALSE
  Amount = 2
  Tax = 0
  Conns = {"c1", "c2", "c3"}
  Away = {"c3"}
  Users = {"u1", "u2"}
  Admins = {"u2"}
  Deleted = "deleted"
  MaxChecked = 0
INVARIANTS
  Types
  ServersAreCounted OneSubscription
  TriesAreCounted
  MutualExclusion
  CreditedOnce
  
  TeamsAreOwned
PROPERTIES
  EveryRedeemalEnds
  EveryDeliverySettles
  ReviewsRespectLock
  RefundRevokes
  
CHECK_DEADLOCK FALSE
