------------------------------ MODULE Refunds ------------------------------
(***************************************************************************)
(* Refunds of a charge that has been paid, and the share of it that is      *)
(* credited to an affiliate:                                                *)
(* labrinth/src/routes/internal/billing.rs (refund_charge) and              *)
(* labrinth/src/queue/payouts/affiliate.rs, run by background_task.rs       *)
(* (payouts).                                                               *)
(*                                                                          *)
(* One charge, which an affiliate brought about.  A refund reads what has   *)
(* been refunded, asks Stripe, and only then inserts a row for it.          *)
(***************************************************************************)
EXTENDS Money

CONSTANTS
  Requests,  \* requests to refund the charge
  Runs,      \* runs of the payouts job that may overlap
  Amount,    \* the amount of the charge...
  Tax        \* ...and the tax on it

RefundsAssumption ==
  /\ IsFiniteSet(Requests)
  /\ Requests \cap Runs = {}
  /\ Amount \in Nat \ {0} /\ Tax \in Nat

VARIABLES
  at,        \* at[a]: where a request or a run is
  want,      \* want[q]: the amount a request is about
  recorded,  \* the requests whose refund is a row, a charge that is the child of this one
  refunded,  \* what Stripe has refunded
  next,      \* status of the subscription's next charge
  link,      \* there is a users_subscriptions_affiliations_payouts of the charge
  pending,   \* payouts_values of the charge that are not available yet...
  issued,    \* ...and those that are
  disturbed  \* history: two requests overlapped, or a refund is not recorded

requestVars == <<want, recorded, refunded, next, disturbed>>
creditVars  == <<link, pending, issued>>
vars        == <<at, requestVars, creditVars>>

Paid == Amount + Tax

\* The type of the state.
TypeOK ==
  /\ at \in [Requests \cup Runs -> {"idle", "ask", "record", "done", "insert", "remove"}]
  /\ want \in [Requests -> Nat]
  /\ recorded \subseteq Requests
  /\ refunded \in 0..Paid
  /\ next \in {"open", "cancelled"}
  /\ link \in BOOLEAN
  /\ pending \in Nat
  /\ issued \in Nat
  /\ disturbed \in BOOLEAN

Init ==
  /\ at = [a \in Requests \cup Runs |-> "idle"]
  /\ want = [q \in Requests |-> 0]
  /\ recorded = {}
  /\ refunded = 0
  /\ next = "open"
  /\ link = FALSE
  /\ pending = 0
  /\ issued = 0
  /\ disturbed = FALSE

Goes(a, place) == at' = [at EXCEPT ![a] = place]

(***************************************************************************)
(* refund_charge                                                            *)
(***************************************************************************)

\* A refund of nothing is not a child of the charge.
Children == {q \in recorded : want[q] # 0}

\* A refund's row has a negative amount, and the tax of the charge as it is.
Refundable == Paid - Sum(want, Children) + Tax * Cardinality(Children)

InProgress(q) == at[q] \in {"ask", "record"}

\* The charge and its children are read, and the amount allowed or not.
Read(q) ==
  /\ at[q] = "idle"
  /\ \E amount \in (0..Paid) \cup {Refundable} :
       \/ /\ amount <= Refundable
          /\ Goes(q, "ask")
          /\ want' = [want EXCEPT ![q] = amount]
          /\ disturbed' = (disturbed \/ \E p \in Requests : InProgress(p))
       \/ amount > Refundable /\ Goes(q, "done") /\ UNCHANGED <<want, disturbed>>
  /\ UNCHANGED <<recorded, refunded, next, creditVars>>

\* Stripe refunds what has been paid, and no more.
Ask(q) ==
  /\ at[q] = "ask"
  /\ \/ /\ refunded + want[q] <= Paid
        /\ refunded' = refunded + want[q]
        /\ Goes(q, "record")
     \/ refunded + want[q] > Paid /\ Goes(q, "done") /\ UNCHANGED refunded
  /\ UNCHANGED <<want, recorded, next, disturbed, creditVars>>

\* The row is inserted; the subscription's next charge may be cancelled with it.
Record(q) ==
  /\ at[q] = "record"
  /\ recorded' = recorded \cup {q}
  /\ next' \in {next, "cancelled"}
  /\ Goes(q, "done")
  /\ UNCHANGED <<want, refunded, disturbed, creditVars>>

\* Stripe's answer is lost, or the process dies, or the transaction fails.
Forgotten(q) ==
  /\ at[q] = "record"
  /\ disturbed' = TRUE
  /\ Goes(q, "done")
  /\ UNCHANGED <<want, recorded, refunded, next, creditVars>>

(***************************************************************************)
(* The payouts job                                                          *)
(***************************************************************************)

\* Mutation: refunds are not looked for.
DueAnyway == ~link

\* The charges that process_affiliate_payouts selects.
Due == ~link /\ Children = {}

Select(w) ==
  /\ at[w] = "idle"
  /\ Goes(w, IF Due THEN "insert" ELSE "remove")
  /\ UNCHANGED <<requestVars, creditVars>>

\* Mutation: the charge is not unique among the payouts.
CreditAgain(w) ==
  /\ at[w] = "insert"
  /\ link' = TRUE
  /\ pending' = pending + 1
  /\ Goes(w, "remove")
  /\ UNCHANGED <<requestVars, issued>>

\* The affiliate's share, to be available in 60 days, and its link to the charge: if
\* there is one by now, the transaction fails, and the run with it.
Credit(w) ==
  /\ at[w] = "insert"
  /\ \/ /\ ~link
        /\ link' = TRUE
        /\ pending' = pending + 1
        /\ Goes(w, "remove")
     \/ link /\ Goes(w, "idle") /\ UNCHANGED <<link, pending>>
  /\ UNCHANGED <<requestVars, issued>>

\* remove_payouts_for_refunded_charges
Remove(w) ==
  /\ at[w] = "remove"
  /\ IF Children # {} /\ pending > 0
       THEN link' = FALSE /\ pending' = 0
       ELSE UNCHANGED <<link, pending>>
  /\ Goes(w, "idle")
  /\ UNCHANGED <<requestVars, issued>>

\* The run is killed, or an error ends it.
RunDies(w) ==
  /\ at[w] # "idle"
  /\ Goes(w, "idle")
  /\ UNCHANGED <<requestVars, creditVars>>

\* The 60 days are over.
Issue ==
  /\ pending > 0
  /\ pending' = 0
  /\ issued' = issued + pending
  /\ UNCHANGED <<at, requestVars, link>>

(***************************************************************************)

Request(q) == Read(q) \/ Ask(q) \/ Record(q) \/ Forgotten(q)

Next ==
  \/ \E q \in Requests : Request(q)
  \/ \E w \in Runs : Select(w) \/ Credit(w) \/ Remove(w) \/ RunDies(w)
  \/ Issue

Spec == Init /\ [][Next]_vars

\* The job is run every day: one that died is started anew, and it does not die for
\* ever where refunded charges are removed.
Fairness ==
  \A w \in Runs : /\ WF_vars(Select(w))
                  /\ WF_vars(Credit(w))
                  /\ SF_vars(Remove(w))

(***************************************************************************)
(* Properties                                                               *)
(***************************************************************************)

\* The message of billing.rs:219: "You cannot refund more than the amount of the
\* charge!"  Of requests that do not overlap, and are recorded, none is sent to
\* Stripe that asks for more than there is left.
AllowedIsLeft ==
  ~disturbed => \A q \in Requests : at[q] = "ask" => want[q] <= Paid - refunded

\* The affiliate is credited once for the charge, however runs overlap.
CreditedOnce == pending + issued <= 1 /\ (pending > 0 => link)

\* What has been credited for a charge that is refunded is taken back in the end,
\* if it has not become available before, and not credited again.
RefundRevokes == <>[](Children # {} => pending = 0)
=============================================================================
