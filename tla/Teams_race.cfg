SPECIFICATION RaceSpec
CONSTANTS
  Users = {u1, u2}
  Admins = {}
  Deleted = Deleted
  None = None
  MaxChecked = 2
INVARIANTS
  EveryTeamHasOwner
CHECK_DEADLOCK FALSE
