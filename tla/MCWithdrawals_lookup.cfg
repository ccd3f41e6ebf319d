SPECIFICATION Spec
CONSTANTS
  p1 = p1
  p2 = p2
  u1 = u1
  Users = {u1}
  Payouts = {p1}
  None = None
  Methods = {"paypal"}
  Amounts = {1, 2}
  Fee <- FeeOf
  MinUsd <- MinUsdOf
  MaxUsd <- MaxUsdOf
  Threshold = 2
  MaxEarned = 2
  Faults = {"lookup"}
INVARIANTS
  PaidIsDebited
