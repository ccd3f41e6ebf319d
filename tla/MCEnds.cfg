SPECIFICATION EndsSpec
CONSTANTS
  p1 = p1
  Waiters = {"w1", "w2", "w3"}
  Launches = {l1, l2}
  Profiles = {p1}
  ProfileOf <- OneProfile
  Hooked = {l1}
INVARIANTS
  HookAfterGame EntriesAreWatched
  NoLostWakeUp
PROPERTIES
  
  CallsEnd
  ImplementsLatch
  UnpaidIsReturned InTransitEnds
  SearchSettles
CHECK_DEADLOCK FALSE
