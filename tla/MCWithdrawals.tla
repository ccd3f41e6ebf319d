---------------------------- MODULE MCWithdrawals ----------------------------
(* Instances of Withdrawals small enough for TLC. *)
EXTENDS Withdrawals, TLC

CONSTANTS p1, p2, u1

\* PayPal keeps a cent, the others nothing; a Mural payout is at least 2 cents.
FeeOf    == [m \in Methods |-> IF m = "paypal" THEN 1 ELSE 0]
MinUsdOf == [m \in Methods |-> IF m = "mural" THEN 2 ELSE 0]
MaxUsdOf == [m \in Methods |-> 3]
=============================================================================
