SPECIFICATION Spec
CONSTANTS
  Users = {u1, u2}
  Admins = {}
  Deleted = Deleted
  None = None
  MaxChecked = 0
INVARIANTS
  OwnerMayEverything
CHECK_DEADLOCK FALSE
