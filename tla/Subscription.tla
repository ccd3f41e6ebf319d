---------------------------- MODULE Subscription ----------------------------
(***************************************************************************)
(* What a subscription promises, whatever the jobs, requests and webhooks   *)
(* that write its charges: the period that is outstanding is followed by    *)
(* one other when it has been paid, and not before, and upgrades are paid   *)
(* beside it.                                                               *)
(*                                                                          *)
(* Billing.tla implements this specification up to the first write that is  *)
(* based on a stale row; past that it promises only what Stray says.        *)
(***************************************************************************)
CONSTANT Charges     \* identifiers of periods and of upgrades

VARIABLES
  paid,         \* charges the user has paid for
  settled,      \* charges that are shown as paid for
  outstanding,  \* periods that are to be paid for
  astray        \* a charge was written regardless of the facts

subscriptionVars == <<paid, settled, outstanding, astray>>

SubscriptionInit == paid = {} /\ settled = {} /\ outstanding = {} /\ astray = FALSE

Pay(c) ==
  /\ c \notin paid
  /\ paid' = paid \cup {c}
  /\ UNCHANGED <<settled, outstanding>>

\* The first period is given away.
Give(n) ==
  /\ settled = {} /\ outstanding = {}
  /\ outstanding' = {n}
  /\ UNCHANGED <<paid, settled>>

Show(c) ==
  /\ c \in paid
  /\ settled' = settled \cup {c}
  /\ UNCHANGED paid

\* The period that was outstanding, or the first of all, has been paid for.
Renew(c) ==
  /\ Show(c)
  /\ outstanding = {c} \/ (outstanding = {} /\ settled = {})
  /\ \E n \in Charges : n \notin settled' /\ outstanding' = {n}

\* Something else has been paid for, and the period goes on.
Upgrade(c) ==
  /\ Show(c)
  /\ outstanding # {} /\ c \notin outstanding
  /\ UNCHANGED outstanding

Stray ==
  /\ astray'
  /\ paid \subseteq paid' /\ settled' \subseteq paid'
  /\ outstanding' \subseteq Charges

SubscriptionNext ==
  \/ /\ ~astray /\ ~astray'
     /\ \E c \in Charges : Pay(c) \/ Give(c) \/ Renew(c) \/ Upgrade(c)
  \/ Stray

SubscriptionSpec == SubscriptionInit /\ [][SubscriptionNext]_subscriptionVars
=============================================================================
