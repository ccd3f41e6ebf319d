SPECIFICATION Spec
CONSTANTS
  None = None
  Charges = {1, 2, 3}
  Intents = {1, 2, 3}
  Slow = {"auto"}
INVARIANTS
  ShownIsPaid
  NeverPaidTwice
  ServerFollowsRow
  NextRenewal
PROPERTIES
  CancelIsRespected
  ImplementsSubscription
CONSTRAINT Undisturbed
CHECK_DEADLOCK FALSE
