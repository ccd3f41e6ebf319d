------------------------------- MODULE Ledger -------------------------------
(***************************************************************************)
(* What a creator's account promises, whatever the payout rails and the     *)
(* order of handlers: a withdrawal is debited only out of money that is     *)
(* there, and money that was given back is never debited again.             *)
(*                                                                          *)
(* Withdrawals.tla implements this specification.                           *)
(***************************************************************************)
EXTENDS Money

CONSTANTS
  Users,     \* accounts
  Payouts    \* identifiers of withdrawals

VARIABLES
  order,     \* order[p]: whose account withdrawal p is on, and its gross amount
  earned,    \* earned[u]: everything the user has been credited with
  account    \* account[p]: where the money of withdrawal p is

ledgerVars == <<order, earned, account>>

Debit   == {"held", "paid"}
Account == {"none", "released"} \cup Debit

Gross == [p \in Payouts |-> order[p].gross]

DebitedTo(u) == {p \in Payouts : order[p].user = u /\ account[p] \in Debit}

Balance(u) == earned[u] - Sum(Gross, DebitedTo(u))

(***************************************************************************)

LedgerInit ==
  /\ order \in [Payouts -> [user : Users, gross : Nat]]
  /\ earned \in [Users -> Nat]
  /\ account = [p \in Payouts |-> "none"]

Deposit ==
  /\ earned' \in [Users -> Nat]
  /\ \A u \in Users : earned'[u] >= earned[u]
  /\ UNCHANGED <<order, account>>

Hold(p) ==
  /\ account[p] = "none"
  /\ order[p].gross <= Balance(order[p].user)
  /\ account' = [account EXCEPT ![p] = "held"]
  /\ UNCHANGED <<order, earned>>

\* Settlement never takes money from an account: it pays out what is held, or
\* gives money back, for any number of withdrawals at once.
Settle ==
  /\ account' \in [Payouts -> Account]
  /\ \A p \in Payouts :
       \/ account'[p] = account[p]
       \/ account[p] = "held" /\ account'[p] = "paid"
       \/ account'[p] = "released"
  /\ UNCHANGED <<order, earned>>

LedgerNext == Deposit \/ Settle \/ \E p \in Payouts : Hold(p)

LedgerSpec == LedgerInit /\ [][LedgerNext]_ledgerVars

=============================================================================
