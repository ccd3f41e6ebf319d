SPECIFICATION SafetySpec
CONSTANTS
  p1 = p1
  p2 = p2
  u1 = u1
  Users = {u1}
  Payouts = {p1, p2}
  None = None
  Methods = {"paypal", "mural"}
  Amounts = {1, 2}
  Fee <- FeeOf
  MinUsd <- MinUsdOf
  MaxUsd <- MaxUsdOf
  Threshold = 2
  MaxEarned = 3
  Faults = {}
  c1 = c1
  c2 = c2
  i1 = i1
  i2 = i2
  k1 = k1
  k2 = k2
  NoCall = NoCall
  Calls = {c1, c2}
  Items = {i1, i2}
  Keys = {k1, k2}
  ItemOf <- ById
  Primary = {k1, k2}
  Spelled = {k1, k2}
  Changing = {i1}
  MaxVersion = 2
  Projects = {1, 2}
  ChunkSize = 1
  Runs = {"r"}
  Overlap = FALSE
  MaxEdits = 2
  MaxFaults = 1
  Edits = {"member", "moderator"}
  Moderators = {"moderator"}
  Statuses = {"draft", "processing", "approved", "rejected", "scheduled"}
  Requests = {"r1", "r2"}
  Chain <- BreakerOutside
  MaxFailures = 2
  MaxAttempts = 2
  MaxRetries = 2
SYMMETRY BothSymmetry
INVARIANTS
  NeverOverdrawn PaidIsDebited
  SingleFlight WaitsForFetch NothingLost
  
  ApprovedUnlessHasty 
  FailuresAreConsecutive
PROPERTIES
  UnsignedStayBelowThreshold ImplementsLedger
  
CHECK_DEADLOCK FALSE
