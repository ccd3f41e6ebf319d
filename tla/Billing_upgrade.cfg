SPECIFICATION Spec
CONSTANTS
  None = None
  Charges = {1, 2, 3}
  Intents = {1, 2, 3}
  Slow = {"hand"}
INVARIANTS
  NextRenewal
CONSTRAINT Undisturbed
CHECK_DEADLOCK FALSE
