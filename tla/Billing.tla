------------------------------ MODULE Billing ------------------------------
(***************************************************************************)
(* A subscription to a hosted server, the charges for its periods, and the  *)
(* payment intents at Stripe that are to settle them:                       *)
(* labrinth/src/routes/internal/billing.rs and billing/payments.rs (the     *)
(* API and Stripe's webhook), labrinth/src/queue/billing.rs (the jobs), and *)
(* labrinth/src/database/models/charge_item.rs.                             *)
(*                                                                          *)
(* Every writer of a charge reads the row, waits for somebody else (Stripe, *)
(* Anrok, Archon), and writes the whole row back, with no lock.  What a     *)
(* handler does between two calls of another service is one step.           *)
(*                                                                          *)
(* One subscription: those of others are other rows.  Prices and taxes are  *)
(* left out.                                                                *)
(***************************************************************************)
EXTENDS Naturals

CONSTANTS
  Charges,   \* identifiers of charges
  Intents,   \* payment intents
  None,      \* no charge
  Slow       \* payments that Stripe may report as processing before they are settled:
             \* those that the job confirms ("auto"), those of the user ("hand")

ASSUME BillingAssumption ==
  /\ None \notin Charges
  /\ Slow \subseteq {"auto", "hand"}

VARIABLES
  row,       \* row[c]: the charge, or NoRow
  sub,       \* status of the subscription's row
  server,    \* the server at Archon
  intent,    \* intent[i]: what Stripe knows of it
  mail,      \* events that Stripe sends until they are acknowledged
  hooks,     \* runs of the webhook, between reading and writing
  job,       \* the run of index_billing
  unjob,     \* the run of unprovision_subscriptions
  edit,      \* the request edit_subscription that is with Stripe
  wish,      \* history: what the user has last asked for
  disturbed, \* history: charges written or paid regardless of the facts
  detached   \* history: an unprovisioning met the webhook of a payment, or a server
             \* that Archon would not suspend

rowVars == <<row, sub>>
jobVars == <<job, unjob, edit>>
history == <<wish, disturbed, detached>>
vars    == <<rowVars, server, intent, mail, hooks, jobVars, history>>

ChargeType   == {"subscription", "proration"}
ChargeStatus == {"open", "expiring", "cancelled", "processing", "failed", "succeeded"}
SubStatus    == {"none", "unprovisioned", "provisioned"}

\* due: 0 when it is to come, 1 when it has passed, 2 when by 30 days.
\* retry: the last attempt was more than two days ago.
Row   == [type : ChargeType, status : ChargeStatus \cup {"none"},
          due : 0..2, retry : BOOLEAN]

New(type, status, due) ==
  [type |-> type, status |-> status, due |-> due, retry |-> FALSE]

NoRow == New("subscription", "none", 0)

\* auto: confirmed by the server; else by the user, who was given its secret.
Intent   == [charge : Charges \cup {None}, type : ChargeType, auto : BOOLEAN,
             status : {"none", "offered", "taken", "paid", "declined"}]
NoIntent == [charge |-> None, type |-> "subscription", auto |-> FALSE, status |-> "none"]

Event == [intent : Intents, kind : {"processing", "succeeded", "failed"}]
Hook  == [event : Event, known : BOOLEAN, sub : SubStatus]

\* What a writer has read of a charge.
Copy   == [charge : Charges \cup {None}, status : ChargeStatus \cup {"none"}, retry : BOOLEAN]
NoCopy == [charge |-> None, status |-> "none", retry |-> FALSE]
CopyOf(c) == [charge |-> c, status |-> row[c].status, retry |-> row[c].retry]

JobIdle == [at |-> "idle", todo |-> {}, now |-> NoCopy, failure |-> FALSE]

\* The type of the state.
TypeOK ==
  /\ row \in [Charges -> Row]
  /\ sub \in SubStatus
  /\ server \in {"none", "running", "suspended"}
  /\ intent \in [Intents -> Intent]
  /\ mail \subseteq Event
  /\ hooks \subseteq Hook
  /\ job \in [at : {"idle", "charge", "record"}, todo : SUBSET Copy,
              now : Copy, failure : BOOLEAN]
  /\ unjob \in {"idle", "read", "suspended"}
  /\ edit \in Copy
  /\ wish \in {"renew", "stop"}
  /\ disturbed \subseteq Charges
  /\ detached \in BOOLEAN

Init ==
  /\ row = [c \in Charges |-> NoRow]
  /\ sub = "none"
  /\ server = "none"
  /\ intent = [i \in Intents |-> NoIntent]
  /\ mail = {}
  /\ hooks = {}
  /\ job = JobIdle
  /\ unjob = "idle"
  /\ edit = NoCopy
  /\ wish = "renew"
  /\ disturbed = {}
  /\ detached = FALSE

(***************************************************************************)
(* Payment intents                                                          *)
(***************************************************************************)
Unused == {i \in Intents : intent[i].status = "none"}
Spare  == {c \in Charges : row[c].status = "none" /\ \A i \in Intents : intent[i].charge # c}

FreshIntent == CHOOSE i \in Unused : TRUE
FreshCharge == CHOOSE c \in Spare : TRUE        \* generate_charge_id

\* create_or_update_payment_intent writes no row.
Create(c, type, auto, status) ==
  intent' = [intent EXCEPT ![FreshIntent] =
    [charge |-> c, type |-> type, auto |-> auto, status |-> status]]

Offer(c, type) == Unused # {} /\ Create(c, type, FALSE, "offered")

\* The event that Stripe may send of a payment it has taken but not settled.
Reports(i, who) ==
  IF who \in Slow THEN {{}, {[intent |-> i, kind |-> "processing"]}} ELSE {{}}

Pending(i) == intent[i].status \in {"taken", "paid"}
Pays(i, c) == intent[i].charge = c

\* initiate_payment for a new subscription.
Buy ==
  /\ sub = "none" /\ Unused = Intents /\ Spare # {}
  /\ Offer(FreshCharge, "subscription")
  /\ UNCHANGED <<rowVars, server, mail, hooks, jobVars, history>>

\* try_process_user_redeemal: a server for some days, for nothing.
Redeem ==
  /\ sub = "none" /\ Unused = Intents /\ Spare # {}
  /\ row' = [row EXCEPT ![FreshCharge] = New("subscription", "expiring", 0)]
  /\ sub' = "provisioned"
  /\ server' = "running"
  /\ UNCHANGED <<intent, mail, hooks, jobVars, history>>

\* initiate_payment for a charge there is.  It would do so whatever its status
\* is; a user has a reason to ask for it when the charge has failed.
PayExisting(c) ==
  /\ row[c].status = "failed"
  /\ Offer(c, row[c].type)
  /\ UNCHANGED <<rowVars, server, mail, hooks, jobVars, history>>

\* The user's client confirms the payment, again if it was declined.
Confirm(i) ==
  /\ intent[i].status \in {"offered", "declined"} /\ ~intent[i].auto
  /\ intent' = [intent EXCEPT ![i].status = "taken"]
  /\ \E R \in Reports(i, "hand") : mail' = mail \cup R
  /\ wish' = "renew"
  /\ disturbed' = disturbed \cup
       {c \in Charges : Pays(i, c) /\ \E j \in Intents \ {i} : Pays(j, c) /\ Pending(j)}
  /\ UNCHANGED <<rowVars, server, hooks, jobVars, detached>>

Settle(i) ==
  /\ intent[i].status = "taken"
  /\ \/ /\ intent' = [intent EXCEPT ![i].status = "paid"]
        /\ mail' = mail \cup {[intent |-> i, kind |-> "succeeded"]}
     \/ /\ intent' = [intent EXCEPT ![i].status = "declined"]
        /\ mail' = mail \cup {[intent |-> i, kind |-> "failed"]}
  /\ UNCHANGED <<rowVars, server, hooks, jobVars, history>>

(***************************************************************************)
(* edit_subscription                                                        *)
(***************************************************************************)

\* get_open_subscription: the earliest due of the rows that are not settled.
Unsettled(c) == row[c].status \in {"open", "expiring", "cancelled", "failed"}
\* Mutation: only of charges that are not due.
NextOfUpcoming(C) == {c \in C : Unsettled(c) /\ row[c].due = 0}

\* Mutation: whatever their status is.
NextOfAny(C) ==
  LET rows == {c \in C : row[c].status # "none"}
  IN {c \in rows : \A d \in rows : row[d].due <= row[c].due}

NextOf(C) ==
  {c \in C : Unsettled(c) /\ \A d \in C : Unsettled(d) => row[d].due <= row[c].due}

\* What is written over another status than the writer has read.
Overwritten(copy) == {copy.charge} \cap {c \in Charges : row[c].status # copy.status}

Upsert(copy, status, retry) ==
  /\ row' = [row EXCEPT ![copy.charge].status = status, ![copy.charge].retry = retry]
  /\ disturbed' = disturbed \cup Overwritten(copy)

Toggle(c, status, retry, ask) ==
  /\ sub # "none" /\ c \in NextOf(Charges)
  /\ row' = [row EXCEPT ![c].status = status, ![c].retry = retry]
  /\ wish' = ask
  /\ disturbed' = disturbed \cup
       (IF \E i \in Intents : Pays(i, c) /\ Pending(i) THEN {c} ELSE {})
  /\ UNCHANGED <<sub, server, intent, mail, hooks, jobVars, detached>>

\* Mutation: a failed charge is not cancelled.
CancelOpenOnly(c) ==
  /\ row[c].status \in {"open", "cancelled", "failed"}
  /\ Toggle(c, IF row[c].status = "failed" THEN "failed" ELSE "cancelled", row[c].retry, "stop")

Cancel(c) ==
  /\ row[c].status \in {"open", "cancelled", "failed"}
  /\ Toggle(c, "cancelled", row[c].retry, "stop")

\* Taking that back; a failed charge is tried again at once.
Uncancel(c) ==
  \/ row[c].status \in {"open", "cancelled"} /\ Toggle(c, "open", row[c].retry, "renew")
  \/ row[c].status = "failed" /\ Toggle(c, "failed", TRUE, "renew")

\* Another product: a payment is asked for, of the difference for what is left of
\* the period or, from an expiring charge, of the first period...
ChangePlan(c) ==
  /\ edit = NoCopy
  /\ sub # "none" /\ c \in NextOf(Charges)
  /\ row[c].status = "expiring" \/ row[c].due = 0
  /\ Spare # {}
  /\ Offer(FreshCharge, IF row[c].status = "expiring" THEN "subscription" ELSE "proration")
  /\ edit' = CopyOf(c)
  /\ UNCHANGED <<rowVars, server, mail, hooks, job, unjob, history>>

\* ...and then the row of the next charge is written back as it was read.
PlanChanged ==
  /\ edit # NoCopy
  /\ Upsert(edit, edit.status, edit.retry)
  /\ edit' = NoCopy
  /\ UNCHANGED <<sub, server, intent, mail, hooks, job, unjob, wish, detached>>

(***************************************************************************)
(* index_billing                                                            *)
(***************************************************************************)
Renewal(c) == row[c].type = "subscription"

\* cancel_failing_charges
Cancellable == {c \in Charges : Renewal(c) /\ row[c].status = "failed" /\ row[c].due = 2}

\* Mutation: a charge that is being processed is taken for a failed one.
ChargeableAgain ==
  {c \in Charges \ Cancellable :
     Renewal(c) /\ \/ row[c].status \in {"open", "processing"} /\ row[c].due > 0
                   \/ row[c].status = "failed" /\ row[c].retry}

\* get_chargeable
Chargeable ==
  {c \in Charges \ Cancellable :
     Renewal(c) /\ \/ row[c].status = "open" /\ row[c].due > 0
                   \/ row[c].status = "failed" /\ row[c].retry}

\* The charges to be collected are read once, for the whole run.
StartJob ==
  /\ job.at = "idle" /\ Cancellable \cup Chargeable # {}
  /\ row' = [c \in Charges |->
       IF c \in Cancellable THEN [row[c] EXCEPT !.status = "cancelled"] ELSE row[c]]
  /\ job' = [JobIdle EXCEPT !.at = "charge", !.todo = {CopyOf(c) : c \in Chargeable}]
  /\ UNCHANGED <<sub, server, intent, mail, hooks, unjob, edit, history>>

\* A payment of the charge that the user has confirmed.
PaidByHand(c) == \E i \in Intents : Pays(i, c) /\ Pending(i) /\ ~intent[i].auto

\* process_chargeable_charges.  The intent is created and confirmed at once:
\* Stripe takes it, declines it, or its answer is lost.
Collect(copy, answer, failure) ==
  /\ job.at = "charge" /\ copy \in job.todo
  /\ Unused # {} /\ Create(copy.charge, "subscription", TRUE, answer)
  /\ \E R \in IF answer = "taken" THEN Reports(FreshIntent, "auto")
                                  ELSE {{[intent |-> FreshIntent, kind |-> "failed"]}} :
       mail' = mail \cup R
  /\ job' = [job EXCEPT !.at = "record", !.todo = @ \ {copy}, !.now = copy, !.failure = failure]
  /\ disturbed' = disturbed \cup Overwritten(copy)
       \cup (IF PaidByHand(copy.charge) \/ (answer = "taken" /\ failure)
              THEN {copy.charge} ELSE {})
  /\ UNCHANGED <<rowVars, server, hooks, unjob, edit, wish, detached>>

\* There is no payment method to ask for.
CannotCollect(copy) ==
  /\ job.at = "charge" /\ copy \in job.todo
  /\ job' = [job EXCEPT !.at = "record", !.todo = @ \ {copy}, !.now = copy, !.failure = TRUE]
  /\ UNCHANGED <<rowVars, server, intent, mail, hooks, unjob, edit, history>>

Charge(copy) ==
  \/ Collect(copy, "taken", FALSE)
  \/ Collect(copy, "declined", TRUE)
  \/ Collect(copy, "taken", TRUE)
  \/ CannotCollect(copy)

\* Mutation: a payment that Stripe has taken is recorded as made.
RecordAsPaid ==
  /\ job.at = "record"
  /\ Upsert(job.now, IF job.failure THEN "failed" ELSE "succeeded", FALSE)
  /\ job' = [job EXCEPT !.at = "charge", !.now = NoCopy, !.failure = FALSE]
  /\ UNCHANGED <<sub, server, intent, mail, hooks, unjob, edit, wish, detached>>

Record ==
  /\ job.at = "record"
  /\ Upsert(job.now, IF job.failure THEN "failed" ELSE "processing", FALSE)
  /\ job' = [job EXCEPT !.at = "charge", !.now = NoCopy, !.failure = FALSE]
  /\ UNCHANGED <<sub, server, intent, mail, hooks, unjob, edit, wish, detached>>

JobEnds ==
  /\ job.at = "charge" /\ job.todo = {}
  /\ job' = JobIdle
  /\ UNCHANGED <<rowVars, server, intent, mail, hooks, unjob, edit, history>>

\* The process is killed; what it has asked of Stripe stands.
JobDies ==
  /\ job.at # "idle"
  /\ job' = JobIdle
  /\ disturbed' = disturbed \cup ({job.now.charge} \cap Charges)
  /\ UNCHANGED <<rowVars, server, intent, mail, hooks, unjob, edit, wish, detached>>

(***************************************************************************)
(* unprovision_subscriptions                                                *)
(***************************************************************************)
Lapsed(c) ==
  /\ Renewal(c)
  /\ \/ row[c].status \in {"cancelled", "expiring"} /\ row[c].due > 0
     \/ row[c].status = "failed" /\ row[c].retry

SelectLapsed ==
  /\ unjob = "idle" /\ sub = "provisioned"
  /\ \E c \in Charges : Lapsed(c)
  /\ unjob' = "read"
  /\ detached' = (detached \/ hooks # {})
  /\ UNCHANGED <<rowVars, server, intent, mail, hooks, job, edit, wish, disturbed>>

\* Only a request that is not answered at all counts as an error: one that Archon
\* refuses is taken for done.
Suspend ==
  /\ unjob = "read"
  /\ \/ server' = (IF server = "none" THEN "none" ELSE "suspended") /\ UNCHANGED detached
     \/ UNCHANGED server /\ detached' = TRUE
  /\ unjob' = "suspended"
  /\ UNCHANGED <<rowVars, intent, mail, hooks, job, edit, wish, disturbed>>

Unprovision ==
  /\ unjob = "suspended"
  /\ sub' = "unprovisioned"
  /\ unjob' = "idle"
  /\ UNCHANGED <<row, server, intent, mail, hooks, job, edit, history>>

\* Mutation: the subscription is written when Archon has not answered.
UnprovisionAnyway ==
  /\ unjob # "idle"
  /\ sub' = "unprovisioned"
  /\ unjob' = "idle"
  /\ UNCHANGED <<row, server, intent, mail, hooks, job, edit, history>>

\* Archon does not answer, or the process dies before it commits.
UnprovisionFails ==
  /\ unjob # "idle"
  /\ unjob' = "idle"
  /\ UNCHANGED <<rowVars, server, intent, mail, hooks, job, edit, history>>

(***************************************************************************)
(* The webhook                                                              *)
(***************************************************************************)

\* get_payment_intent_metadata reads the charge and the subscription...
Reading(e) == [event |-> e, sub |-> sub, known |-> row[intent[e.intent].charge].status # "none"]

\* An event that does not say how its charge stands any more.
Outdated(e) ==
  LET i == e.intent
      c == intent[i].charge
  IN /\ e.kind # "succeeded"
     /\ \/ \E j \in Intents \ {i} : Pays(j, c) /\ Pending(j)
        \/ intent[i].status # (IF e.kind = "failed" THEN "declined" ELSE "taken")
        \/ row[c].status = "cancelled"

\* ...and writes them: the charge without regard to its present status, or a new
\* one, unless it has failed at once.
Written(h) ==
  LET i == h.event.intent
      c == intent[i].charge
  IN CASE h.known -> [row EXCEPT ![c].status = h.event.kind, ![c].retry = FALSE]
       [] ~h.known /\ h.event.kind # "failed" ->
            [row EXCEPT ![c] = New(intent[i].type, h.event.kind, 1)]
       [] OTHER -> row

\* A subscription that is paid for with a charge of its own begins anew.
WrittenSub(h) ==
  CASE h.known -> h.sub
    [] ~h.known /\ h.event.kind # "failed" -> "unprovisioned"
    [] OTHER -> sub

\* Stripe may not see the answer, and send the event again.
Answer(e, disturbing) ==
  /\ mail' \in {mail, mail \ {e}}
  /\ disturbed' = disturbed \cup (IF disturbing THEN {intent[e.intent].charge} ELSE {})

\* PaymentIntentProcessing and PaymentIntentPaymentFailed.
Notice(e) ==
  /\ e \in mail /\ e.kind # "succeeded"
  /\ row' = Written(Reading(e))
  /\ sub' = WrittenSub(Reading(e))
  /\ Answer(e, Outdated(e))
  /\ UNCHANGED <<server, intent, hooks, jobVars, wish, detached>>

\* PaymentIntentSucceeded: the server is unsuspended, or created...
Provision(e) ==
  /\ e \in mail /\ e.kind = "succeeded"
  /\ \A h \in hooks : h.event # e
  /\ hooks' = hooks \cup {Reading(e)}
  /\ server' = "running"
  /\ detached' = (detached \/ unjob # "idle")
  /\ UNCHANGED <<rowVars, intent, mail, jobVars, wish, disturbed>>

\* ...and the transaction commits.  The next charge is opened, unless there is
\* one: that of a free trial is then to be paid for.  One that is being collected
\* is not seen, and when the payment was of an upgrade it is opened a second time.
Payment(h) ==
  LET c    == intent[h.event.intent].charge
      r    == Written(h)
      next == NextOf(Charges \ {c})
      due  == IF WrittenSub(h) = "provisioned" /\ r[c].due = 2 THEN 1 ELSE 0
  IN
  /\ h \in hooks
  /\ \/ \E d \in next : row' = [r EXCEPT ![d] =
          IF @.status = "expiring" THEN New("subscription", "open", 0) ELSE @]
     \/ /\ next = {} /\ Spare # {}
        /\ row' = [r EXCEPT ![FreshCharge] = New("subscription", "open", due)]
  /\ sub' = "provisioned"
  /\ hooks' = hooks \ {h}
  /\ Answer(h.event, /\ next = {}
                     /\ \/ row[c].status = "succeeded"
                        \/ \E d \in Charges \ {c} : row[d].status = "processing")
  /\ UNCHANGED <<server, intent, jobVars, wish, detached>>

\* It is rolled back, and Stripe sends the event again.
PaymentFails(h) ==
  /\ h \in hooks
  /\ hooks' = hooks \ {h}
  /\ UNCHANGED <<rowVars, server, intent, mail, jobVars, history>>

(***************************************************************************)
(* Time.  A payment is settled, and its events handled, before two days, or *)
(* what is left of a period, have passed.                                   *)
(***************************************************************************)
Quiet == mail = {} /\ hooks = {} /\ \A i \in Intents : intent[i].status # "taken"

DuePasses(c) ==
  /\ Quiet
  /\ Unsettled(c) /\ row[c].due < 2
  /\ row' = [row EXCEPT ![c].due = @ + 1]
  /\ UNCHANGED <<sub, server, intent, mail, hooks, jobVars, history>>

AttemptAges(c) ==
  /\ Quiet
  /\ row[c].status = "failed" /\ ~row[c].retry
  /\ row' = [row EXCEPT ![c].retry = TRUE]
  /\ UNCHANGED <<sub, server, intent, mail, hooks, jobVars, history>>

(***************************************************************************)

User ==
  \/ Buy \/ Redeem
  \/ \E c \in Charges : PayExisting(c) \/ Cancel(c) \/ Uncancel(c) \/ ChangePlan(c)
  \/ PlanChanged

Stripe == \E i \in Intents : Confirm(i) \/ Settle(i)

BillingJob ==
  \/ StartJob
  \/ \E copy \in job.todo : Charge(copy)
  \/ Record
  \/ JobEnds

UnprovisionJob == SelectLapsed \/ Suspend \/ Unprovision

Webhook ==
  \/ \E e \in mail : Notice(e) \/ Provision(e)
  \/ \E h \in hooks : Payment(h)

Time == \E c \in Charges : DuePasses(c) \/ AttemptAges(c)

Next ==
  \/ User \/ Stripe \/ BillingJob \/ UnprovisionJob \/ Webhook \/ Time
  \/ JobDies \/ UnprovisionFails \/ \E h \in hooks : PaymentFails(h)

Spec == Init /\ [][Next]_vars

\* What the runs explore.  The places where a writer goes by what is no longer
\* so are listed with the actions: Overwritten, Collect, Toggle, Confirm, JobDies,
\* Outdated, Payment; past one of them the rows say little about the payments.
Undisturbed == disturbed = {} /\ ~detached

(***************************************************************************)
(* Properties                                                               *)
(***************************************************************************)

\* A charge is shown as succeeded only if a payment of it has been made: however
\* the jobs, requests and events overtake each other, nothing is given for free.
ShownIsPaid ==
  \A c \in Charges : row[c].status = "succeeded" =>
    \E i \in Intents : Pays(i, c) /\ intent[i].status = "paid"

\* No charge is collected twice, by the job again or by the job and the user,
\* unless a writer of it went by what is no longer so.
NeverPaidTwice ==
  \A c \in Charges \ disturbed : \A i, j \in Intents :
    Pays(i, c) /\ Pays(j, c) /\ Pending(i) /\ Pending(j) => i = j

\* Who has cancelled is not charged again, unless the run of the job had read the
\* charge before: no other charge of the subscription is collected instead.
CancelIsRespected ==
  [][ \A i \in Intents :
        wish = "stop" /\ intent[i].status = "none" /\ intent'[i].auto =>
          disturbed' # {} ]_vars

\* When everything has been handled, no server runs whose subscription is not
\* provisioned: nobody would suspend it (get_unprovision).
ServerFollowsRow ==
  hooks = {} /\ mail = {} /\ unjob = "idle" /\ ~detached =>
    (server = "running" => sub = "provisioned")

\* A period that is to be paid for, or is being paid for.
Outstanding(c) == Renewal(c) /\ (Unsettled(c) \/ row[c].status = "processing")

\* The charges, seen as periods.
S == INSTANCE Subscription WITH
       paid        <- {c \in Charges : \E i \in Intents : Pays(i, c) /\ intent[i].status = "paid"},
       settled     <- {c \in Charges : row[c].status = "succeeded"},
       outstanding <- {c \in Charges : Outstanding(c)},
       astray      <- disturbed # {}

\* One period follows another when, and only when, it has been paid for, whichever
\* of the ways to pay it was used; an upgrade or a failed payment leaves the period
\* outstanding (stripe_webhook: the next charge is opened, updated or left).
ImplementsSubscription == S!SubscriptionSpec

\* At most one period is outstanding: the webhook opens the next one when the last
\* is paid, whichever of the ways to pay it was used, and the job collects all.
OneRenewal ==
  disturbed = {} => \A c, d \in Charges : Outstanding(c) /\ Outstanding(d) => c = d

\* At least one is, of a subscription that is provisioned: without it the server
\* would run for ever and never be paid for.
NextRenewal ==
  sub = "provisioned" /\ hooks = {} /\ disturbed = {} => \E c \in Charges : Outstanding(c)
=============================================================================
