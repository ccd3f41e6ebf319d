--------------------------- MODULE BillingProofs ---------------------------
(***************************************************************************)
(* For any number of charges and payments, Billing.tla keeps its types,     *)
(* shows as paid only what is paid, and collects no undisturbed charge      *)
(* twice.  Where payments by hand are settled at once, servers follow their *)
(* rows, exactly one period of a provisioned subscription is outstanding,   *)
(* and nobody is charged who has cancelled.                                 *)
(***************************************************************************)
EXTENDS Billing, TLAPS

(***************************************************************************)
(* The invariant                                                            *)
(***************************************************************************)

\* Who writes a charge back has read one that was not settled.
Copies ==
  /\ \A copy \in job.todo : copy.charge \in Charges /\ copy.status \in {"open", "failed"}
  /\ job.at = "record" => job.now.charge \in Charges /\ job.now.status \in {"open", "failed"}
  /\ edit # NoCopy =>
       edit.charge \in Charges /\ edit.status \in {"open", "expiring", "cancelled", "failed"}

\* A payment is of a charge, an event of a payment, and Stripe does not err.
Payments ==
  /\ \A i \in Intents : intent[i].status # "none" => intent[i].charge \in Charges
  /\ \A e \in mail : /\ intent[e.intent].status # "none"
                     /\ e.kind = "succeeded" => intent[e.intent].status = "paid"
  /\ \A h \in hooks : h.event.kind = "succeeded" /\ intent[h.event.intent].status = "paid"

\* A charge that the job has collected is out of its reach, or being recorded.
Collected ==
  \A c \in Charges \ disturbed : \A i \in Intents :
    Pays(i, c) /\ Pending(i) /\ intent[i].auto =>
      \/ row[c].status \in {"processing", "succeeded"}
      \/ job.at = "record" /\ job.now.charge = c /\ ~job.failure

IInv == TypeOK /\ Copies /\ Payments /\ ShownIsPaid /\ Collected /\ NeverPaidTwice

(***************************************************************************)
(* The parts of the model                                                   *)
(***************************************************************************)

\* The next intent is one that was not used before.
LEMMA FreshIntentIsUnused == Unused # {} => FreshIntent \in Unused
BY DEF FreshIntent

\* The next charge is one that has no row yet.
LEMMA FreshChargeIsSpare == Spare # {} => FreshCharge \in Spare
BY DEF FreshCharge

USE DEF rowVars, jobVars, history

\* Nothing is known of any payment at first.
LEMMA InitInv == Init => IInv
<1> SUFFICES ASSUME Init PROVE IInv
  OBVIOUS
<1>1. TypeOK
  <2>1. row \in [Charges -> Row]
    BY DEF Init, Row, NoRow, New, ChargeType, ChargeStatus
  <2>2. intent \in [Intents -> Intent]
    BY DEF Init, Intent, NoIntent, ChargeType
  <2>3. NoCopy \in Copy
    BY DEF Copy, NoCopy
  <2>. QED  BY <2>1, <2>2, <2>3 DEF Init, TypeOK, JobIdle, SubStatus
<1>2. Copies
  BY DEF Init, Copies, JobIdle
<1>3. Payments
  BY DEF Init, Payments, NoIntent
<1>4. ShownIsPaid
  BY DEF Init, ShownIsPaid, NoRow, New
<1>5. Collected /\ NeverPaidTwice
  BY DEF Init, Collected, NeverPaidTwice, Pending, NoIntent
<1>. QED  BY <1>1, <1>2, <1>3, <1>4, <1>5 DEF IInv

\* A new payment intent.
LEMMA CreateType ==
  ASSUME TypeOK, Unused # {},
         NEW c \in Charges, NEW type \in ChargeType, NEW auto \in BOOLEAN,
         NEW status \in {"offered", "taken", "declined"}, Create(c, type, auto, status)
  PROVE  /\ FreshIntent \in Intents
         /\ intent' \in [Intents -> Intent]
         /\ intent[FreshIntent].status = "none"
         /\ intent'[FreshIntent] = [charge |-> c, type |-> type, auto |-> auto, status |-> status]
         /\ \A i \in Intents : i # FreshIntent => intent'[i] = intent[i]
BY FreshIntentIsUnused DEF Create, Unused, TypeOK, Intent

\* A new intent is an intent.
LEMMA OfferType ==
  ASSUME TypeOK, NEW c \in Charges, NEW type \in ChargeType, Offer(c, type)
  PROVE  /\ FreshIntent \in Intents
         /\ intent' \in [Intents -> Intent]
         /\ intent[FreshIntent].status = "none"
         /\ intent'[FreshIntent] =
              [charge |-> c, type |-> type, auto |-> FALSE, status |-> "offered"]
         /\ \A i \in Intents : i # FreshIntent => intent'[i] = intent[i]
BY CreateType DEF Offer

\* The next charge is a charge.
LEMMA SpareCharge == Spare # {} => FreshCharge \in Charges
BY FreshChargeIsSpare DEF Spare

\* A copy of a row is a copy.
LEMMA CopyType ==
  ASSUME TypeOK, NEW c \in Charges
  PROVE  CopyOf(c) \in Copy
BY DEF TypeOK, CopyOf, Copy, Row

\* A written copy is a row.
LEMMA UpsertType ==
  ASSUME TypeOK, NEW copy \in Copy, NEW status \in ChargeStatus, NEW retry \in BOOLEAN,
         Upsert(copy, status, retry)
  PROVE  row' \in [Charges -> Row] /\ disturbed' \subseteq Charges
<1>1. \A c \in Charges : row'[c] =
        IF c = copy.charge THEN [row[c] EXCEPT !.status = status, !.retry = retry] ELSE row[c]
  BY DEF TypeOK, Upsert
<1>2. ASSUME NEW c \in Charges PROVE row'[c] \in Row
  <2>1. row[c] \in Row
    BY DEF TypeOK
  <2>2. [row[c] EXCEPT !.status = status, !.retry = retry] \in Row
    BY <2>1 DEF Row
  <2>. QED  BY <1>1, <2>1, <2>2
<1>3. row' \in [Charges -> Row]
  BY <1>2 DEF Upsert, TypeOK
<1>. QED  BY <1>3 DEF TypeOK, Upsert, Overwritten

\* What the webhook reads is what it keeps of an event.
LEMMA HookType ==
  ASSUME TypeOK, NEW e \in mail
  PROVE  Reading(e) \in Hook
BY DEF TypeOK, Reading, Hook

\* What the webhook writes are rows.
LEMMA WrittenType ==
  ASSUME TypeOK, NEW h \in Hook
  PROVE  Written(h) \in [Charges -> Row] /\ WrittenSub(h) \in SubStatus
<1>1. h.event \in Event /\ h.known \in BOOLEAN /\ h.sub \in SubStatus
  BY DEF Hook
<1>2. h.event.kind \in ChargeStatus /\ intent[h.event.intent].type \in ChargeType
  BY <1>1 DEF Event, TypeOK, Intent, ChargeStatus
<1> DEFINE c == intent[h.event.intent].charge
<1>3. New(intent[h.event.intent].type, h.event.kind, 1) \in Row
  BY <1>1, <1>2 DEF New, Row
<1>4. [row EXCEPT ![c].status = h.event.kind, ![c].retry = FALSE] \in [Charges -> Row]
  <2>1. row \in [Charges -> Row]
    BY DEF TypeOK
  <2>2. ASSUME NEW x \in Row
        PROVE  [[x EXCEPT !.status = h.event.kind] EXCEPT !.retry = FALSE] \in Row
    BY <1>2 DEF Row
  <2>3. [row EXCEPT ![c].status = h.event.kind] \in [Charges -> Row]
    BY <1>2, <2>1 DEF Row
  <2>. QED  BY <1>2, <2>1, <2>2, <2>3
<1>5. Written(h) \in [Charges -> Row]
  BY <1>1, <1>2, <1>3, <1>4 DEF Written, TypeOK
<1>. QED  BY <1>1, <1>5 DEF WrittenSub, TypeOK, SubStatus

(***************************************************************************)
(* Types                                                                    *)
(***************************************************************************)
LEMMA BuyType == ASSUME TypeOK, Buy PROVE TypeOK'
<1>1. intent' \in [Intents -> Intent]
  BY SpareCharge, OfferType DEF Buy, ChargeType
<1>. QED  BY <1>1 DEF Buy, TypeOK

\* The types through each request of the user.
LEMMA RedeemType == ASSUME TypeOK, Redeem PROVE TypeOK'
<1>1. New("subscription", "expiring", 0) \in Row
  BY DEF New, Row, ChargeType, ChargeStatus
<1>2. row' \in [Charges -> Row]
  BY <1>1 DEF Redeem, TypeOK
<1>. QED  BY <1>2 DEF Redeem, TypeOK, SubStatus

LEMMA PayExistingType == ASSUME TypeOK, NEW c \in Charges, PayExisting(c) PROVE TypeOK'
<1>1. row[c].type \in ChargeType
  BY DEF TypeOK, Row
<1>2. intent' \in [Intents -> Intent]
  BY <1>1, OfferType DEF PayExisting
<1>. QED  BY <1>2 DEF PayExisting, TypeOK

LEMMA ToggleType ==
  ASSUME TypeOK, NEW c \in Charges, NEW status \in ChargeStatus, NEW retry \in BOOLEAN,
         NEW ask \in {"renew", "stop"}, Toggle(c, status, retry, ask)
  PROVE  TypeOK'
<1>1. [row[c] EXCEPT !.status = status, !.retry = retry] \in Row
  BY DEF TypeOK, Row
<1>2. row' = [row EXCEPT ![c] = [row[c] EXCEPT !.status = status, !.retry = retry]]
  BY DEF Toggle, TypeOK
<1>3. row' \in [Charges -> Row]
  BY <1>1, <1>2 DEF TypeOK
<1>. QED  BY <1>3 DEF Toggle, TypeOK

LEMMA CancelType == ASSUME TypeOK, NEW c \in Charges, Cancel(c) \/ Uncancel(c) PROVE TypeOK'
<1>1. row[c].retry \in BOOLEAN
  BY DEF TypeOK, Row
<1>. QED  BY <1>1, ToggleType DEF Cancel, Uncancel, ChargeStatus

LEMMA ChangePlanType == ASSUME TypeOK, NEW c \in Charges, ChangePlan(c) PROVE TypeOK'
<1>1. intent' \in [Intents -> Intent]
  BY SpareCharge, OfferType DEF ChangePlan, ChargeType
<1>. QED  BY <1>1, CopyType DEF ChangePlan, TypeOK

LEMMA PlanChangedType == ASSUME TypeOK, Copies, PlanChanged PROVE TypeOK'
<1>1. edit \in Copy /\ edit.status \in ChargeStatus /\ edit.retry \in BOOLEAN
  BY DEF PlanChanged, Copies, TypeOK, Copy, ChargeStatus
<1>2. row' \in [Charges -> Row] /\ disturbed' \subseteq Charges
  BY <1>1, UpsertType DEF PlanChanged
<1>3. NoCopy \in Copy
  BY DEF Copy, NoCopy
<1>. QED  BY <1>2, <1>3 DEF PlanChanged, TypeOK

\* ...through the events that Stripe sends...
LEMMA ReportsType ==
  ASSUME NEW i \in Intents, NEW who, NEW R \in Reports(i, who)
  PROVE  R \subseteq Event
BY DEF Reports, Event

\* ...through what Stripe does...
LEMMA StripeType == ASSUME TypeOK, NEW i \in Intents, Confirm(i) \/ Settle(i) PROVE TypeOK'
<1>1. intent' \in [Intents -> Intent]
  <2>1. \A status \in {"taken", "paid", "declined"} : [intent[i] EXCEPT !.status = status] \in Intent
    BY DEF TypeOK, Intent
  <2>2. \E status \in {"taken", "paid", "declined"} :
          intent' = [intent EXCEPT ![i] = [intent[i] EXCEPT !.status = status]]
    BY DEF Confirm, Settle, TypeOK
  <2>. QED  BY <2>1, <2>2 DEF TypeOK
<1>2. mail' \subseteq Event
  BY ReportsType DEF Confirm, Settle, TypeOK, Event
<1>3. disturbed' \subseteq Charges
  BY DEF Confirm, Settle, TypeOK
<1>4. wish' \in {"renew", "stop"}
  BY DEF Confirm, Settle, TypeOK
<1>5. /\ row' = row /\ sub' = sub /\ server' = server /\ hooks' = hooks /\ job' = job
      /\ unjob' = unjob /\ edit' = edit
  BY DEF Confirm, Settle
<1>6. detached' \in BOOLEAN
  BY DEF Confirm, Settle, TypeOK
<1>. QED  BY <1>1, <1>2, <1>3, <1>4, <1>5, <1>6 DEF TypeOK

\* ...through the run of the job that charges...
LEMMA StartJobType == ASSUME TypeOK, StartJob PROVE TypeOK'
<1>1. row' \in [Charges -> Row]
  BY DEF StartJob, TypeOK, Row, ChargeStatus
<1>2. {CopyOf(c) : c \in Chargeable} \subseteq Copy
  BY CopyType DEF Chargeable
<1>3. job' = [at |-> "charge", todo |-> {CopyOf(c) : c \in Chargeable}, now |-> NoCopy,
              failure |-> FALSE]
  BY DEF StartJob, JobIdle
<1>4. NoCopy \in Copy
  BY DEF Copy, NoCopy
<1>5. job' \in [at : {"idle", "charge", "record"}, todo : SUBSET Copy,
                now : Copy, failure : BOOLEAN]
  BY <1>2, <1>3, <1>4
<1>. QED  BY <1>1, <1>5 DEF StartJob, TypeOK

\* The job takes an intent that was not used before, for the charge of its copy.
LEMMA CollectIntent ==
  ASSUME TypeOK, Copies, NEW copy \in job.todo, NEW answer \in {"taken", "declined"},
         NEW failure \in BOOLEAN, Collect(copy, answer, failure)
  PROVE  /\ FreshIntent \in Intents
         /\ intent' \in [Intents -> Intent]
         /\ intent[FreshIntent].status = "none"
         /\ intent'[FreshIntent] = [charge |-> copy.charge, type |-> "subscription",
                                    auto |-> TRUE, status |-> answer]
         /\ \A i \in Intents : i # FreshIntent => intent'[i] = intent[i]
<1>1. copy.charge \in Charges
  BY DEF Copies
<1>. QED  BY <1>1, CreateType DEF Collect, ChargeType

\* The types through a collection...
LEMMA CollectType ==
  ASSUME TypeOK, Copies, NEW copy \in job.todo, NEW answer \in {"taken", "declined"},
         NEW failure \in BOOLEAN, Collect(copy, answer, failure)
  PROVE  TypeOK'
<1>1. copy.charge \in Charges /\ copy \in Copy
  BY DEF Copies, TypeOK
<1>2. intent' \in [Intents -> Intent] /\ FreshIntent \in Intents
  BY CollectIntent
<1>3. mail' \subseteq Event
  BY <1>2, ReportsType DEF Collect, TypeOK, Event
<1>4. disturbed' \subseteq Charges
  BY <1>1 DEF Collect, TypeOK, Overwritten
<1>5. job' = [at |-> "record", todo |-> job.todo \ {copy}, now |-> copy, failure |-> failure]
  BY DEF Collect, TypeOK
<1>6. /\ row' = row /\ sub' = sub /\ server' = server /\ hooks' = hooks
      /\ unjob' = unjob /\ edit' = edit /\ wish' = wish
  BY DEF Collect
<1>7. detached' \in BOOLEAN
  BY DEF Collect, TypeOK
<1>8. job' \in [at : {"idle", "charge", "record"}, todo : SUBSET Copy,
                now : Copy, failure : BOOLEAN]
  BY <1>1, <1>5 DEF TypeOK
<1>. QED  BY <1>2, <1>3, <1>4, <1>6, <1>7, <1>8 DEF TypeOK

\* ...and through what else the job does.
LEMMA CannotCollectType ==
  ASSUME TypeOK, NEW copy \in job.todo, CannotCollect(copy)
  PROVE  TypeOK'
<1>1. job' = [at |-> "record", todo |-> job.todo \ {copy}, now |-> copy, failure |-> TRUE]
  BY DEF CannotCollect, TypeOK
<1>. QED  BY <1>1 DEF CannotCollect, TypeOK

LEMMA RecordType == ASSUME TypeOK, Record PROVE TypeOK'
<1>1. job.now \in Copy /\ NoCopy \in Copy
  BY DEF TypeOK, Copy, NoCopy
<1>2. row' \in [Charges -> Row] /\ disturbed' \subseteq Charges
  BY <1>1, UpsertType DEF Record, ChargeStatus
<1>3. job' = [at |-> "charge", todo |-> job.todo, now |-> NoCopy, failure |-> FALSE]
  BY DEF Record, TypeOK
<1>. QED  BY <1>1, <1>2, <1>3 DEF Record, TypeOK

LEMMA JobStopsType == ASSUME TypeOK, JobEnds \/ JobDies PROVE TypeOK'
<1>1. JobIdle \in [at : {"idle", "charge", "record"}, todo : SUBSET Copy,
                   now : Copy, failure : BOOLEAN]
  BY DEF JobIdle, Copy, NoCopy
<1>2. job' = JobIdle /\ disturbed' \subseteq Charges
  BY DEF JobEnds, JobDies, TypeOK
<1>3. /\ row' = row /\ sub' = sub /\ server' = server /\ intent' = intent /\ mail' = mail
      /\ hooks' = hooks /\ unjob' = unjob /\ edit' = edit /\ wish' = wish
  BY DEF JobEnds, JobDies
<1>4. detached' \in BOOLEAN
  BY DEF JobEnds, JobDies, TypeOK
<1>. QED  BY <1>1, <1>2, <1>3, <1>4 DEF TypeOK

\* The types through the job that unprovisions...
LEMMA UnprovisionType ==
  ASSUME TypeOK, UnprovisionJob \/ UnprovisionFails
  PROVE  TypeOK'
BY DEF UnprovisionJob, SelectLapsed, Suspend, Unprovision, UnprovisionFails, TypeOK, SubStatus

\* ...through the webhook...
LEMMA NoticeType == ASSUME TypeOK, Payments, NEW e \in mail, Notice(e) PROVE TypeOK'
<1>1. row' \in [Charges -> Row] /\ sub' \in SubStatus
  BY HookType, WrittenType DEF Notice
<1>2. mail' \subseteq Event /\ disturbed' \subseteq Charges
  <2>1. intent[e.intent].charge \in Charges
    BY DEF Payments, TypeOK, Event
  <2>. QED  BY <2>1 DEF Notice, Answer, TypeOK
<1>. QED  BY <1>1, <1>2 DEF Notice, TypeOK

LEMMA ProvisionType == ASSUME TypeOK, NEW e \in mail, Provision(e) PROVE TypeOK'
BY HookType DEF Provision, TypeOK

LEMMA PaymentType == ASSUME TypeOK, Payments, NEW h \in hooks, Payment(h) PROVE TypeOK'
<1> DEFINE r == Written(h)
<1>1. r \in [Charges -> Row] /\ h \in Hook
  BY WrittenType DEF TypeOK
<1>2. \A due \in {0, 1} : New("subscription", "open", due) \in Row
  BY DEF New, Row, ChargeType, ChargeStatus
<1>3. row' \in [Charges -> Row]
  <2>1. ASSUME NEW d \in Charges,
               row' = [r EXCEPT ![d] =
                 IF @.status = "expiring" THEN New("subscription", "open", 0) ELSE @]
        PROVE  row' \in [Charges -> Row]
    BY <1>1, <1>2, <2>1
  <2>2. ASSUME NEW due \in {0, 1}, Spare # {},
               row' = [r EXCEPT ![FreshCharge] = New("subscription", "open", due)]
        PROVE  row' \in [Charges -> Row]
    BY <1>1, <1>2, <2>2
  <2>. QED  BY <2>1, <2>2 DEF Payment, NextOf
<1>4. mail' \subseteq Event /\ disturbed' \subseteq Charges
  <2>1. intent[h.event.intent].charge \in Charges
    BY <1>1 DEF Payments, TypeOK, Hook, Event, Intent
  <2>. QED  BY <2>1 DEF Payment, Answer, TypeOK
<1>. QED  BY <1>3, <1>4 DEF Payment, TypeOK, SubStatus

\* ...and through what time does.
LEMMA TimeType ==
  ASSUME TypeOK, NEW c \in Charges, DuePasses(c) \/ AttemptAges(c)
  PROVE  TypeOK'
<1>1. CASE DuePasses(c)
  <2>1. [row[c] EXCEPT !.due = @ + 1] \in Row
    BY <1>1 DEF DuePasses, TypeOK, Row
  <2>2. row' = [row EXCEPT ![c] = [row[c] EXCEPT !.due = @ + 1]]
    BY <1>1 DEF DuePasses, TypeOK
  <2>. QED  BY <1>1, <2>1, <2>2 DEF DuePasses, TypeOK
<1>2. CASE AttemptAges(c)
  <2>1. [row[c] EXCEPT !.retry = TRUE] \in Row
    BY <1>2 DEF TypeOK, Row
  <2>2. row' = [row EXCEPT ![c] = [row[c] EXCEPT !.retry = TRUE]]
    BY <1>2 DEF AttemptAges, TypeOK
  <2>. QED  BY <1>2, <2>1, <2>2 DEF AttemptAges, TypeOK
<1>. QED  BY <1>1, <1>2

\* The types are kept.
LEMMA TypeStep == ASSUME TypeOK, Copies, Payments, [Next]_vars PROVE TypeOK'
<1>1. CASE User
  BY <1>1, BuyType, RedeemType, PayExistingType, CancelType, ChangePlanType, PlanChangedType
  DEF User
<1>2. CASE Stripe
  BY <1>2, StripeType DEF Stripe
<1>3. CASE BillingJob
  <2>1. ASSUME NEW copy \in job.todo, Charge(copy) PROVE TypeOK'
    BY <2>1, CollectType, CannotCollectType DEF Charge
  <2>. QED  BY <1>3, <2>1, StartJobType, RecordType, JobStopsType DEF BillingJob
<1>4. CASE UnprovisionJob \/ UnprovisionFails
  BY <1>4, UnprovisionType
<1>5. CASE Webhook
  BY <1>5, NoticeType, ProvisionType, PaymentType DEF Webhook
<1>6. CASE Time
  BY <1>6, TimeType DEF Time
<1>7. CASE JobDies
  BY <1>7, JobStopsType
<1>8. ASSUME NEW h \in hooks, PaymentFails(h) PROVE TypeOK'
  BY <1>8 DEF PaymentFails, TypeOK
<1>9. CASE UNCHANGED vars
  BY <1>9 DEF vars, TypeOK
<1>. QED  BY <1>1, <1>2, <1>3, <1>4, <1>5, <1>6, <1>7, <1>8, <1>9 DEF Next

(***************************************************************************)
(* What becomes of a payment                                                *)
(***************************************************************************)

\* Payments are offered, confirmed and settled, and made by the job.
LEMMA PaymentSteps ==
  ASSUME TypeOK, Next
  PROVE  \/ intent' = intent
         \/ \E c \in Charges, type \in ChargeType : Offer(c, type)
         \/ \E i \in Intents : Confirm(i) \/ Settle(i)
         \/ \E copy \in job.todo, answer \in {"taken", "declined"}, failure \in BOOLEAN :
              Collect(copy, answer, failure)
<1> DEFINE Goal == \/ intent' = intent
                   \/ \E c \in Charges, type \in ChargeType : Offer(c, type)
                   \/ \E i \in Intents : Confirm(i) \/ Settle(i)
                   \/ \E copy \in job.todo, answer \in {"taken", "declined"},
                         failure \in BOOLEAN : Collect(copy, answer, failure)
<1> SUFFICES Goal
  OBVIOUS
<1>1. CASE User
  <2>1. CASE Buy
    BY <2>1, SpareCharge DEF Buy, ChargeType
  <2>2. CASE Redeem \/ PlanChanged
    BY <2>2 DEF Redeem, PlanChanged
  <2>3. ASSUME NEW c \in Charges, PayExisting(c) PROVE Goal
    BY <2>3 DEF PayExisting, TypeOK, Row
  <2>4. ASSUME NEW c \in Charges, Cancel(c) \/ Uncancel(c) PROVE Goal
    BY <2>4 DEF Cancel, Uncancel, Toggle
  <2>5. ASSUME NEW c \in Charges, ChangePlan(c) PROVE Goal
    BY <2>5, SpareCharge DEF ChangePlan, ChargeType
  <2>. QED  BY <1>1, <2>1, <2>2, <2>3, <2>4, <2>5 DEF User
<1>2. CASE Stripe
  BY <1>2 DEF Stripe
<1>3. CASE BillingJob
  <2>1. ASSUME NEW copy \in job.todo, Charge(copy) PROVE Goal
    BY <2>1 DEF Charge, CannotCollect
  <2>. QED  BY <1>3, <2>1 DEF BillingJob, StartJob, Record, JobEnds
<1>4. CASE UnprovisionJob \/ UnprovisionFails \/ JobDies
  BY <1>4 DEF UnprovisionJob, SelectLapsed, Suspend, Unprovision, UnprovisionFails, JobDies
<1>5. CASE Webhook \/ \E h \in hooks : PaymentFails(h)
  BY <1>5 DEF Webhook, Notice, Provision, Payment, PaymentFails
<1>6. CASE Time
  BY <1>6 DEF Time, DuePasses, AttemptAges
<1>. QED  BY <1>1, <1>2, <1>3, <1>4, <1>5, <1>6 DEF Next

\* A payment keeps its charge, and stays paid.
LEMMA PaymentsLast ==
  ASSUME TypeOK, Copies, Next, NEW i \in Intents
  PROVE  /\ intent[i].status # "none" =>
              /\ intent'[i].charge = intent[i].charge
              /\ intent'[i].auto = intent[i].auto
              /\ intent'[i].status # "none"
         /\ intent[i].status = "paid" => intent'[i].status = "paid"
         /\ intent'[i].status # "none" /\ intent[i].status = "none" =>
              intent'[i].charge \in Charges
<1>1. ASSUME NEW c \in Charges, NEW type \in ChargeType, Offer(c, type)
      PROVE  \/ intent'[i] = intent[i]
             \/ intent[i].status = "none" /\ intent'[i].charge \in Charges
  <2>1. /\ intent[FreshIntent].status = "none"
        /\ intent'[FreshIntent] =
             [charge |-> c, type |-> type, auto |-> FALSE, status |-> "offered"]
        /\ i # FreshIntent => intent'[i] = intent[i]
    BY <1>1, OfferType
  <2>. QED  BY <2>1
<1>2. ASSUME NEW j \in Intents, Confirm(j) \/ Settle(j)
      PROVE  \/ intent'[i] = intent[i]
             \/ \E status \in {"taken", "paid", "declined"} :
                  /\ intent[i].status \notin {"none", "paid"}
                  /\ intent'[i] = [intent[i] EXCEPT !.status = status]
  BY <1>2 DEF Confirm, Settle, TypeOK
<1>3. ASSUME NEW copy \in job.todo, NEW answer \in {"taken", "declined"},
             NEW failure \in BOOLEAN, Collect(copy, answer, failure)
      PROVE  \/ intent'[i] = intent[i]
             \/ intent[i].status = "none" /\ intent'[i].charge \in Charges
  <2>1. /\ intent[FreshIntent].status = "none"
        /\ intent'[FreshIntent] = [charge |-> copy.charge, type |-> "subscription",
                                   auto |-> TRUE, status |-> answer]
        /\ i # FreshIntent => intent'[i] = intent[i]
    BY <1>3, CollectIntent
  <2>2. copy.charge \in Charges
    BY DEF Copies
  <2>. QED  BY <2>1, <2>2
<1>4. \/ intent'[i] = intent[i]
      \/ intent[i].status = "none" /\ intent'[i].charge \in Charges
      \/ \E status \in {"taken", "paid", "declined"} :
           /\ intent[i].status \notin {"none", "paid"}
           /\ intent'[i] = [intent[i] EXCEPT !.status = status]
  BY <1>1, <1>2, <1>3, PaymentSteps
<1>5. intent[i] \in Intent
  BY DEF TypeOK
<1>. QED  BY <1>4, <1>5 DEF Intent

\* What is disturbed remains so.
LEMMA DisturbedLast == ASSUME Next PROVE disturbed \subseteq disturbed'
<1>1. CASE User
  BY <1>1 DEF User, Buy, Redeem, PayExisting, Cancel, Uncancel, Toggle, ChangePlan,
     PlanChanged, Upsert
<1>2. CASE Stripe
  BY <1>2 DEF Stripe, Confirm, Settle
<1>3. CASE BillingJob
  BY <1>3 DEF BillingJob, StartJob, Charge, Collect, CannotCollect, Record, Upsert, JobEnds
<1>4. CASE UnprovisionJob \/ UnprovisionFails \/ JobDies
  BY <1>4 DEF UnprovisionJob, SelectLapsed, Suspend, Unprovision, UnprovisionFails, JobDies
<1>5. CASE Webhook \/ \E h \in hooks : PaymentFails(h)
  BY <1>5 DEF Webhook, Notice, Provision, Payment, PaymentFails, Answer
<1>6. CASE Time
  BY <1>6 DEF Time, DuePasses, AttemptAges
<1>. QED  BY <1>1, <1>2, <1>3, <1>4, <1>5, <1>6 DEF Next

(***************************************************************************)
(* Copies and Payments                                                      *)
(***************************************************************************)
LEMMA CopiesStep == ASSUME TypeOK, Copies, Next PROVE Copies'
<1>1. CASE User
  <2>1. ASSUME NEW c \in Charges, ChangePlan(c) PROVE Copies'
    <3>1. edit' = CopyOf(c) /\ job' = job /\ Unsettled(c)
      BY <2>1 DEF ChangePlan, NextOf
    <3>. QED  BY <3>1 DEF Copies, CopyOf, Unsettled
  <2>2. CASE PlanChanged
    BY <2>2 DEF PlanChanged, Copies
  <2>3. CASE job' = job /\ edit' = edit
    BY <2>3 DEF Copies
  <2>4. Buy \/ Redeem \/ (\E c \in Charges : PayExisting(c) \/ Cancel(c) \/ Uncancel(c)) =>
          job' = job /\ edit' = edit
    BY DEF Buy, Redeem, PayExisting, Cancel, Uncancel, Toggle
  <2>. QED  BY <1>1, <2>1, <2>2, <2>3, <2>4 DEF User
<1>2. CASE BillingJob
  <2>1. CASE StartJob
    <3>1. \A c \in Chargeable : c \in Charges /\ row[c].status \in {"open", "failed"}
      BY DEF Chargeable
    <3>2. job' = [at |-> "charge", todo |-> {CopyOf(c) : c \in Chargeable}, now |-> NoCopy,
                  failure |-> FALSE] /\ edit' = edit
      BY <2>1 DEF StartJob, JobIdle
    <3>3. \A copy \in job'.todo : copy.charge \in Charges /\ copy.status \in {"open", "failed"}
      BY <3>1, <3>2 DEF CopyOf
    <3>. QED  BY <3>2, <3>3 DEF Copies
  <2>2. ASSUME NEW copy \in job.todo, Charge(copy) PROVE Copies'
    <3>1. edit' = edit /\ job'.todo = job.todo \ {copy} /\ job'.now = copy
      BY <2>2 DEF Charge, Collect, CannotCollect, TypeOK
    <3>. QED  BY <3>1 DEF Copies
  <2>3. CASE Record
    BY <2>3 DEF Record, Copies, TypeOK
  <2>4. CASE JobEnds
    BY <2>4 DEF JobEnds, Copies, JobIdle
  <2>. QED  BY <1>2, <2>1, <2>2, <2>3, <2>4 DEF BillingJob
<1>3. CASE JobDies
  BY <1>3 DEF JobDies, JobIdle, Copies
<1>4. CASE Stripe \/ UnprovisionJob \/ UnprovisionFails \/ Time
  BY <1>4 DEF Stripe, Confirm, Settle, UnprovisionJob, SelectLapsed, Suspend, Unprovision,
     UnprovisionFails, Time, DuePasses, AttemptAges, Copies
<1>5. CASE Webhook \/ \E h \in hooks : PaymentFails(h)
  BY <1>5 DEF Webhook, Notice, Provision, Payment, PaymentFails, Copies
<1>. QED  BY <1>1, <1>2, <1>3, <1>4, <1>5 DEF Next

\* Events are of payments that are known to Stripe, and true of them when they
\* say that they have succeeded.
True(e) == intent[e.intent].status # "none" /\
             (e.kind = "succeeded" => intent[e.intent].status = "paid")

\* What an event says stays true.
LEMMA TrueLast ==
  ASSUME TypeOK, Copies, Next, NEW e \in Event, True(e)
  PROVE  True(e)'
<1>1. e.intent \in Intents
  BY DEF Event
<1>. QED  BY <1>1, PaymentsLast DEF True

\* Stripe sends events that are true.
LEMMA NewEvents ==
  ASSUME TypeOK, Copies, Next, NEW e \in mail', e \notin mail
  PROVE  e \in Event /\ True(e)'
<1>1. ASSUME NEW i \in Intents, Confirm(i) PROVE e \in Event /\ True(e)'
  <2>1. e = [intent |-> i, kind |-> "processing"]
    BY <1>1 DEF Confirm, Reports
  <2>2. intent'[i].status = "taken"
    BY <1>1 DEF Confirm, TypeOK, Intent
  <2>. QED  BY <2>1, <2>2 DEF True, Event
<1>2. ASSUME NEW i \in Intents, Settle(i) PROVE e \in Event /\ True(e)'
  <2>1. \/ e = [intent |-> i, kind |-> "succeeded"] /\ intent'[i].status = "paid"
        \/ e = [intent |-> i, kind |-> "failed"] /\ intent'[i].status = "declined"
    BY <1>2 DEF Settle, TypeOK, Intent
  <2>. QED  BY <2>1 DEF True, Event
<1>3. ASSUME NEW copy \in job.todo, NEW answer \in {"taken", "declined"},
             NEW failure \in BOOLEAN, Collect(copy, answer, failure)
      PROVE  e \in Event /\ True(e)'
  <2>1. \E kind \in {"processing", "failed"} : e = [intent |-> FreshIntent, kind |-> kind]
    BY <1>3 DEF Collect, Reports
  <2>2. intent'[FreshIntent].status # "none" /\ FreshIntent \in Intents
    <3>1. /\ FreshIntent \in Intents
          /\ intent'[FreshIntent] = [charge |-> copy.charge, type |-> "subscription",
                                     auto |-> TRUE, status |-> answer]
      BY <1>3, CollectIntent
    <3>. QED  BY <3>1
  <2>. QED  BY <2>1, <2>2 DEF True, Event
<1>4. CASE User
  BY <1>4 DEF User, Buy, Redeem, PayExisting, Cancel, Uncancel, Toggle, ChangePlan, PlanChanged
<1>5. CASE BillingJob \/ JobDies
  BY <1>3, <1>5 DEF BillingJob, StartJob, Charge, CannotCollect, Record, JobEnds, JobDies
<1>6. CASE UnprovisionJob \/ UnprovisionFails \/ Time
  BY <1>6 DEF UnprovisionJob, SelectLapsed, Suspend, Unprovision, UnprovisionFails,
     Time, DuePasses, AttemptAges
<1>7. CASE Webhook \/ \E h \in hooks : PaymentFails(h)
  BY <1>7 DEF Webhook, Notice, Provision, Payment, PaymentFails, Answer
<1>. QED  BY <1>1, <1>2, <1>4, <1>5, <1>6, <1>7 DEF Next, Stripe

\* A webhook that is to provision has an event of a payment.
LEMMA NewHooks ==
  ASSUME Next, NEW h \in hooks', h \notin hooks
  PROVE  h.event \in mail /\ h.event.kind = "succeeded"
<1>1. ASSUME NEW e \in mail, Provision(e) PROVE h.event \in mail /\ h.event.kind = "succeeded"
  BY <1>1 DEF Provision, Reading
<1>2. CASE User
  BY <1>2 DEF User, Buy, Redeem, PayExisting, Cancel, Uncancel, Toggle, ChangePlan, PlanChanged
<1>3. CASE BillingJob \/ JobDies \/ Stripe
  BY <1>3 DEF BillingJob, StartJob, Charge, Collect, CannotCollect, Record, JobEnds, JobDies,
     Stripe, Confirm, Settle
<1>4. CASE UnprovisionJob \/ UnprovisionFails \/ Time
  BY <1>4 DEF UnprovisionJob, SelectLapsed, Suspend, Unprovision, UnprovisionFails,
     Time, DuePasses, AttemptAges
<1>5. CASE Webhook \/ \E g \in hooks : PaymentFails(g)
  BY <1>1, <1>5 DEF Webhook, Notice, Payment, PaymentFails
<1>. QED  BY <1>2, <1>3, <1>4, <1>5 DEF Next

\* So the events and webhooks on their way stay true through every step.
LEMMA PaymentsStep == ASSUME TypeOK, Copies, Payments, Next PROVE Payments'
<1>1. ASSUME NEW i \in Intents, intent'[i].status # "none" PROVE intent'[i].charge \in Charges
  BY <1>1, PaymentsLast DEF Payments
<1>2. \A e \in mail : e \in Event /\ True(e)
  BY DEF Payments, TypeOK, True
<1>3. ASSUME NEW e \in mail' PROVE True(e)'
  BY <1>2, TrueLast, NewEvents
<1>4. ASSUME NEW h \in hooks'
      PROVE  h.event.kind = "succeeded" /\ intent'[h.event.intent].status = "paid"
  <2>1. h.event \in Event /\ h.event.kind = "succeeded"
                /\ intent[h.event.intent].status = "paid"
    <3>1. CASE h \in hooks
      BY <3>1 DEF TypeOK, Hook, Payments
    <3>2. CASE h \notin hooks
      BY <1>2, <3>2, NewHooks DEF True
    <3>. QED  BY <3>1, <3>2
  <2>. QED  BY <2>1, PaymentsLast DEF Event
<1>. QED  BY <1>1, <1>3, <1>4 DEF Payments, True

(***************************************************************************)
(* What is shown as paid                                                    *)
(***************************************************************************)
LEMMA UpsertRow ==
  ASSUME TypeOK, NEW copy \in Copy, NEW status, NEW retry, Upsert(copy, status, retry),
         NEW c \in Charges
  PROVE  row'[c].status = IF c = copy.charge THEN status ELSE row[c].status
BY DEF Upsert, TypeOK, Row

\* The status that a notice writes, of the charge of its intent and of no other.
LEMMA WrittenRow ==
  ASSUME TypeOK, NEW h \in Hook, NEW c \in Charges
  PROVE  Written(h)[c].status =
           IF c = intent[h.event.intent].charge /\ (h.known \/ h.event.kind # "failed")
             THEN h.event.kind ELSE row[c].status
BY DEF Written, TypeOK, Row, New, Hook

\* A payment marks its charge; another charge it leaves, moves to open, or opens anew.
LEMMA PaymentRow ==
  ASSUME TypeOK, Payments, NEW h \in hooks, Payment(h), NEW c \in Charges
  PROVE  /\ c = intent[h.event.intent].charge => row'[c].status = "succeeded"
         /\ c # intent[h.event.intent].charge =>
              \/ row'[c].status = row[c].status
              \/ Unsettled(c) /\ row'[c].status = "open"
              \/ c \in Spare /\ row'[c].status = "open"
<1> DEFINE b == intent[h.event.intent].charge
           r == Written(h)
           next == NextOf(Charges \ {b})
<1>1. h \in Hook /\ h.event.kind = "succeeded" /\ h.event.intent \in Intents
        /\ intent[h.event.intent].status = "paid"
  BY DEF Payments, TypeOK, Hook, Event
<1>2. b \in Charges
  BY <1>1 DEF Payments
<1>3. r[c].status = IF c = b THEN "succeeded" ELSE row[c].status
  BY <1>1, WrittenRow
<1>4. r \in [Charges -> Row]
  BY <1>1, WrittenType
<1>5. ASSUME NEW d \in next,
             row' = [r EXCEPT ![d] =
               IF @.status = "expiring" THEN New("subscription", "open", 0) ELSE @]
      PROVE  \/ row'[c].status = r[c].status
             \/ c # b /\ Unsettled(c) /\ row'[c].status = "open"
  <2>1. d \in Charges /\ d # b /\ Unsettled(d)
    BY DEF NextOf
  <2>. QED  BY <1>4, <1>5, <2>1 DEF New
<1>6. ASSUME NEW due, Spare # {},
             row' = [r EXCEPT ![FreshCharge] = New("subscription", "open", due)]
      PROVE  \/ row'[c].status = r[c].status
             \/ c # b /\ c \in Spare /\ row'[c].status = "open"
  <2>1. FreshCharge \in Spare /\ FreshCharge # b
    BY <1>1, <1>6, FreshChargeIsSpare DEF Spare
  <2>. QED  BY <1>4, <1>6, <2>1 DEF New
<1>7. \/ row'[c].status = r[c].status
      \/ c # b /\ Unsettled(c) /\ row'[c].status = "open"
      \/ c # b /\ c \in Spare /\ row'[c].status = "open"
  BY <1>5, <1>6 DEF Payment
<1>. QED  BY <1>3, <1>7

\* The statuses that jobs, requests and the clock write.
LEMMA NoticeRow ==
  ASSUME TypeOK, NEW e \in mail, Notice(e), NEW c \in Charges
  PROVE  /\ row'[c].status # row[c].status => row'[c].status = e.kind
         /\ c # intent[e.intent].charge => row'[c].status = row[c].status
         /\ e.kind # "failed" /\ c = intent[e.intent].charge => row'[c].status = e.kind
<1>1. Reading(e) \in Hook /\ Reading(e).event = e
  BY HookType DEF Reading
<1>2. row' = Written(Reading(e))
  BY DEF Notice
<1>. QED  BY <1>1, <1>2, WrittenRow

\* Only a payment makes a charge succeed.
LEMMA RowSteps ==
  ASSUME TypeOK, Copies, Payments, Next, NEW c \in Charges, row'[c].status = "succeeded"
  PROVE  \/ row[c].status = "succeeded"
         \/ \E h \in hooks : c = intent[h.event.intent].charge
<1>1. CASE User
  <2>1. CASE Redeem
    BY <2>1, SpareCharge DEF Redeem, New, TypeOK
  <2>2. ASSUME NEW d \in Charges, Cancel(d) \/ Uncancel(d) PROVE row[c].status = "succeeded"
    BY <2>2 DEF Cancel, Uncancel, Toggle, TypeOK, Row
  <2>3. CASE PlanChanged
    <3>1. Upsert(edit, edit.status, edit.retry) /\ edit.status # "succeeded" /\ edit \in Copy
      BY <2>3 DEF PlanChanged, Copies, TypeOK
    <3>. QED  BY <3>1, UpsertRow
  <2>. QED  BY <1>1, <2>1, <2>2, <2>3 DEF User, Buy, PayExisting, ChangePlan
<1>2. CASE BillingJob
  <2>1. CASE StartJob
    BY <2>1 DEF StartJob, TypeOK, Row
  <2>2. CASE Record
    <3>1. PICK status \in {"failed", "processing"} : Upsert(job.now, status, FALSE)
      BY <2>2 DEF Record
    <3>2. job.now \in Copy
      BY DEF TypeOK
    <3>3. row'[c].status = IF c = job.now.charge THEN status ELSE row[c].status
      BY <3>1, <3>2, UpsertRow
    <3>. QED  BY <3>1, <3>3
  <2>. QED  BY <1>2, <2>1, <2>2 DEF BillingJob, Charge, Collect, CannotCollect, JobEnds
<1>3. CASE Stripe \/ UnprovisionJob \/ UnprovisionFails \/ JobDies
  BY <1>3 DEF Stripe, Confirm, Settle, UnprovisionJob, SelectLapsed, Suspend, Unprovision,
     UnprovisionFails, JobDies
<1>4. CASE Time
  BY <1>4 DEF Time, DuePasses, AttemptAges, TypeOK, Row
<1>5. CASE Webhook \/ \E h \in hooks : PaymentFails(h)
  <2>1. ASSUME NEW e \in mail, Notice(e) PROVE row[c].status = "succeeded"
    BY <2>1, NoticeRow DEF Notice
  <2>2. ASSUME NEW h \in hooks, Payment(h)
        PROVE  row[c].status = "succeeded" \/ c = intent[h.event.intent].charge
    BY <2>2, PaymentRow
  <2>. QED  BY <1>5, <2>1, <2>2 DEF Webhook, Provision, PaymentFails
<1>. QED  BY <1>1, <1>2, <1>3, <1>4, <1>5 DEF Next

\* So what is shown as succeeded has been paid, through every step.
LEMMA ShownStep == ASSUME TypeOK, Copies, Payments, ShownIsPaid, Next PROVE ShownIsPaid'
<1> SUFFICES ASSUME NEW c \in Charges, row'[c].status = "succeeded"
             PROVE  \E i \in Intents : intent'[i].charge = c /\ intent'[i].status = "paid"
  BY DEF ShownIsPaid, Pays
<1>1. PICK i \in Intents : intent[i].charge = c /\ intent[i].status = "paid"
  <2>1. CASE row[c].status = "succeeded"
    BY <2>1 DEF ShownIsPaid, Pays
  <2>2. ASSUME NEW h \in hooks, c = intent[h.event.intent].charge
        PROVE  \E i \in Intents : intent[i].charge = c /\ intent[i].status = "paid"
    BY <2>2 DEF Payments, TypeOK, Hook, Event
  <2>. QED  BY <2>1, <2>2, RowSteps
<1>. QED  BY <1>1, PaymentsLast

(***************************************************************************)
(* What has been collected                                                  *)
(***************************************************************************)

\* The job has a payment of c with Stripe, or has made one.
Held(c) == \E i \in Intents : Pays(i, c) /\ Pending(i) /\ intent[i].auto

\* Its row or the run of the job says so.
Safe(c) == \/ row[c].status \in {"processing", "succeeded"}
           \/ job.at = "record" /\ job.now.charge = c /\ ~job.failure

\* What Collected says, of one charge.
LEMMA HeldIsSafe == Collected <=> \A c \in Charges \ disturbed : Held(c) => Safe(c)
BY DEF Collected, Held, Safe

\* Only the job collects what it did not hold.
LEMMA HeldSteps ==
  ASSUME TypeOK, Copies, Next, NEW c \in Charges, Held(c)'
  PROVE  \/ Held(c)
         \/ \E copy \in job.todo, failure \in BOOLEAN :
              copy.charge = c /\ Collect(copy, "taken", failure)
<1>1. PICK i \in Intents : intent'[i].charge = c /\ intent'[i].auto
                             /\ intent'[i].status \in {"taken", "paid"}
  BY DEF Held, Pays, Pending
<1>2. ASSUME intent'[i] = intent[i] PROVE Held(c)
  BY <1>1, <1>2 DEF Held, Pays, Pending
<1>3. ASSUME NEW d \in Charges, NEW type \in ChargeType, Offer(d, type) PROVE Held(c)
  <2>1. /\ intent'[FreshIntent] =
             [charge |-> d, type |-> type, auto |-> FALSE, status |-> "offered"]
        /\ i # FreshIntent => intent'[i] = intent[i]
    BY <1>3, OfferType
  <2>2. intent'[FreshIntent].auto = FALSE
    BY <2>1
  <2>3. i # FreshIntent
    BY <1>1, <2>2
  <2>. QED  BY <1>2, <2>1, <2>3
<1>4. ASSUME NEW j \in Intents, Confirm(j) \/ Settle(j) PROVE Held(c)
  <2>1. CASE i = j
    BY <1>1, <1>4, <2>1 DEF Confirm, Settle, TypeOK, Intent, Held, Pays, Pending
  <2>2. CASE i # j
    <3>1. \E status : intent' = [intent EXCEPT ![j].status = status]
      BY <1>4 DEF Confirm, Settle
    <3>2. intent'[i] = intent[i]
      BY <2>2, <3>1 DEF TypeOK
    <3>. QED  BY <1>2, <3>2
  <2>. QED  BY <2>1, <2>2
<1>5. ASSUME NEW copy \in job.todo, NEW answer \in {"taken", "declined"},
             NEW failure \in BOOLEAN, Collect(copy, answer, failure)
      PROVE  Held(c) \/ (copy.charge = c /\ answer = "taken")
  <2>1. /\ intent'[FreshIntent] = [charge |-> copy.charge, type |-> "subscription",
                                   auto |-> TRUE, status |-> answer]
        /\ i # FreshIntent => intent'[i] = intent[i]
    BY <1>5, CollectIntent
  <2>2. CASE i = FreshIntent
    BY <1>1, <2>1, <2>2
  <2>. QED  BY <1>2, <2>1, <2>2
<1>. QED  BY <1>2, <1>3, <1>4, <1>5, PaymentSteps

\* A step that leaves the rows' statuses and the job alone.
LEMMA SafeKept ==
  ASSUME NEW c \in Charges, Safe(c), row'[c].status = row[c].status, job' = job
  PROVE  Safe(c)'
BY DEF Safe

\* What the job holds, and nobody disturbs, stays safe.
LEMMA SafeSteps ==
  ASSUME TypeOK, Copies, Payments, Next,
         NEW c \in Charges, c \notin disturbed', Held(c), Held(c)', Safe(c)
  PROVE  Safe(c)'
<1>0. PICK i \in Intents : intent[i].charge = c /\ intent[i].status \in {"taken", "paid"}
  BY DEF Held, Pays, Pending
<1>1. c \notin Spare
  BY <1>0 DEF Spare
<1>2. CASE User
  <2>1. CASE Redeem
    <3>1. row'[c].status = row[c].status /\ job' = job
      BY <1>1, <2>1, FreshChargeIsSpare DEF Redeem, TypeOK
    <3>. QED  BY <3>1, SafeKept
  <2>2. ASSUME NEW d \in Charges, Cancel(d) \/ Uncancel(d) PROVE Safe(c)'
    <3>1. \E status, retry, ask : Toggle(d, status, retry, ask)
      BY <2>2 DEF Cancel, Uncancel
    <3>2. c # d
      BY <1>0, <3>1 DEF Toggle, Pays, Pending
    <3>3. row'[c].status = row[c].status /\ job' = job
      BY <3>1, <3>2 DEF Toggle, TypeOK
    <3>. QED  BY <3>3, SafeKept
  <2>3. CASE PlanChanged
    <3>1. /\ Upsert(edit, edit.status, edit.retry) /\ edit \in Copy /\ job' = job
          /\ edit.status \in {"open", "expiring", "cancelled", "failed"}
      BY <2>3 DEF PlanChanged, Copies, TypeOK
    <3>2. c = edit.charge => row'[c].status = row[c].status
      <4>1. c = edit.charge => row[c].status = edit.status
        BY <3>1 DEF Upsert, Overwritten
      <4>2. c = edit.charge => row'[c].status = edit.status
        BY <3>1, UpsertRow
      <4>. QED  BY <4>1, <4>2
    <3>3. row'[c].status = row[c].status
      BY <3>1, <3>2, UpsertRow
    <3>. QED  BY <3>1, <3>3, SafeKept
  <2>4. CASE row' = row /\ job' = job
    BY <2>4 DEF Safe
  <2>. QED  BY <1>2, <2>1, <2>2, <2>3, <2>4 DEF User, Buy, PayExisting, ChangePlan
<1>3. CASE BillingJob
  <2>1. CASE StartJob
    <3>1. job.at = "idle" /\ row' = [d \in Charges |->
            IF d \in Cancellable THEN [row[d] EXCEPT !.status = "cancelled"] ELSE row[d]]
      BY <2>1 DEF StartJob
    <3>2. row[c].status \in {"processing", "succeeded"}
      BY <3>1 DEF Safe
    <3>3. row'[c] = row[c]
      BY <3>1, <3>2 DEF Cancellable
    <3>. QED  BY <3>2, <3>3 DEF Safe
  <2>2. ASSUME NEW copy \in job.todo, Charge(copy) PROVE Safe(c)'
    BY <2>2 DEF Charge, Collect, CannotCollect, Safe
  <2>3. CASE Record
    <3>1. PICK status : /\ Upsert(job.now, status, FALSE)
                        /\ ~job.failure => status = "processing"
      BY <2>3 DEF Record
    <3>0. job.now \in Copy /\ job.at = "record"
      BY <2>3 DEF Record, TypeOK
    <3>2. c # job.now.charge => row'[c].status = row[c].status
      BY <3>0, <3>1, UpsertRow
    <3>3. c = job.now.charge => row'[c].status = status
      BY <3>0, <3>1, UpsertRow
    <3>4. c = job.now.charge => row[c].status \in {"open", "failed"}
      BY <3>0, <3>1 DEF Upsert, Overwritten, Copies
    <3>5. c = job.now.charge => ~job.failure
      BY <3>4 DEF Safe
    <3>. QED  BY <3>1, <3>2, <3>3, <3>5 DEF Safe
  <2>4. CASE JobEnds
    BY <2>4 DEF JobEnds, Safe
  <2>. QED  BY <1>3, <2>1, <2>2, <2>3, <2>4 DEF BillingJob
<1>4. CASE JobDies
  <2>1. c # job.now.charge /\ row' = row
    BY <1>4 DEF JobDies
  <2>. QED  BY <2>1 DEF Safe
<1>5. CASE Stripe \/ UnprovisionJob \/ UnprovisionFails
  BY <1>5 DEF Stripe, Confirm, Settle, UnprovisionJob, SelectLapsed, Suspend, Unprovision,
     UnprovisionFails, Safe
<1>6. CASE Time
  <2>1. row'[c].status = row[c].status /\ job' = job
    BY <1>6 DEF Time, DuePasses, AttemptAges, TypeOK, Row
  <2>. QED  BY <2>1, SafeKept
<1>7. CASE Webhook \/ \E h \in hooks : PaymentFails(h)
  <2>1. ASSUME NEW e \in mail, Notice(e) PROVE Safe(c)'
    <3>1. job' = job /\ e.kind \in {"processing", "failed"} /\ e.intent \in Intents
      BY <2>1 DEF Notice, TypeOK, Event
    <3>2. CASE c # intent[e.intent].charge
      BY <2>1, <3>1, <3>2, NoticeRow, SafeKept
    <3>3. CASE c = intent[e.intent].charge /\ e.kind = "processing"
      <4>1. row'[c].status = "processing"
        BY <2>1, <3>3, NoticeRow
      <4>. QED  BY <4>1 DEF Safe
    <3>4. CASE c = intent[e.intent].charge /\ e.kind = "failed"
      <4>1. ~Outdated(e)
        BY <2>1, <3>4 DEF Notice, Answer
      <4>2. /\ intent[e.intent].status = "declined"
            /\ \A j \in Intents \ {e.intent} : ~(Pays(j, c) /\ Pending(j))
        BY <3>4, <4>1 DEF Outdated
      <4>3. i = e.intent
        BY <1>0, <4>2 DEF Pays, Pending
      <4>. QED  BY <1>0, <4>2, <4>3
    <3>. QED  BY <3>1, <3>2, <3>3, <3>4
  <2>2. ASSUME NEW h \in hooks, Payment(h) PROVE Safe(c)'
    <3>1. job' = job
      BY <2>2 DEF Payment
    <3>2. \/ row'[c].status = "succeeded"
          \/ row'[c].status = row[c].status
          \/ Unsettled(c)
      BY <1>1, <2>2, PaymentRow
    <3>. QED  BY <3>1, <3>2, SafeKept DEF Safe, Unsettled
  <2>3. CASE row' = row /\ job' = job
    BY <2>3 DEF Safe
  <2>. QED  BY <1>7, <2>1, <2>2, <2>3 DEF Webhook, Provision, PaymentFails
<1>. QED  BY <1>2, <1>3, <1>4, <1>5, <1>6, <1>7 DEF Next

\* Every step keeps each charge to one collection.
LEMMA CollectedStep ==
  ASSUME TypeOK, Copies, Payments, Collected, Next
  PROVE  Collected'
<1>1. ASSUME NEW c \in Charges \ disturbed', Held(c)' PROVE Safe(c)'
  <2>1. ASSUME NEW copy \in job.todo, NEW failure \in BOOLEAN,
               copy.charge = c, Collect(copy, "taken", failure)
        PROVE  Safe(c)'
    <3>1. ~failure
      BY <1>1, <2>1 DEF Collect
    <3>2. job' = [at |-> "record", todo |-> job.todo \ {copy}, now |-> copy,
                  failure |-> failure]
      BY <2>1 DEF Collect, TypeOK
    <3>. QED  BY <2>1, <3>1, <3>2 DEF Safe
  <2>2. CASE Held(c)
    <3>1. c \notin disturbed
      BY <1>1, DisturbedLast
    <3>2. Safe(c)
      BY <2>2, <3>1, HeldIsSafe
    <3>. QED  BY <1>1, <2>2, <3>2, SafeSteps
  <2>. QED  BY <1>1, <2>1, <2>2, HeldSteps
<1>. QED  BY <1>1 DEF Collected, Held, Safe

\* Whoever makes a second payment of a charge disturbs it.
LEMMA TwiceStep ==
  ASSUME TypeOK, Copies, Payments, Collected, NeverPaidTwice, Next
  PROVE  NeverPaidTwice'
<1> SUFFICES ASSUME NEW c \in Charges, c \notin disturbed', NEW i \in Intents, NEW j \in Intents,
                    intent'[i].charge = c, intent'[i].status \in {"taken", "paid"},
                    intent'[j].charge = c, intent'[j].status \in {"taken", "paid"}
             PROVE  i = j
  BY DEF NeverPaidTwice, Pays, Pending
<1>0. c \notin disturbed
  BY DisturbedLast
<1> DEFINE Was(k) == intent[k].charge = c /\ intent[k].status \in {"taken", "paid"}
<1>1. Was(i) /\ Was(j) => i = j
  BY <1>0 DEF NeverPaidTwice, Pays, Pending
<1>2. CASE intent' = intent
  BY <1>1, <1>2
<1>3. ASSUME NEW d \in Charges, NEW type \in ChargeType, Offer(d, type) PROVE Was(i) /\ Was(j)
  <2>1. /\ intent'[FreshIntent] =
             [charge |-> d, type |-> type, auto |-> FALSE, status |-> "offered"]
        /\ \A k \in Intents : k # FreshIntent => intent'[k] = intent[k]
    BY <1>3, OfferType
  <2>. QED  BY <2>1
<1>4. ASSUME NEW k \in Intents, Settle(k) PROVE Was(i) /\ Was(j)
  BY <1>4 DEF Settle, TypeOK, Intent
<1>5. ASSUME NEW k \in Intents, Confirm(k) PROVE i = j
  <2>1. \A l \in Intents : l # k => intent'[l] = intent[l]
    BY <1>5 DEF Confirm
  <2>2. intent[k].charge = intent'[k].charge
    BY <1>5 DEF Confirm, TypeOK, Intent
  <2>3. \A l \in Intents \ {k} : Was(l) => intent[k].charge # c
    BY <1>5 DEF Confirm, Pays, Pending
  <2>. QED  BY <1>1, <2>1, <2>2, <2>3
<1>6. ASSUME NEW copy \in job.todo, NEW answer \in {"taken", "declined"},
             NEW failure \in BOOLEAN, Collect(copy, answer, failure)
      PROVE  i = j
  <2>1. /\ intent'[FreshIntent] = [charge |-> copy.charge, type |-> "subscription",
                                   auto |-> TRUE, status |-> answer]
        /\ \A k \in Intents : k # FreshIntent => intent'[k] = intent[k]
    BY <1>6, CollectIntent
  <2>2. CASE copy.charge # c
    BY <1>1, <2>1, <2>2
  <2>3. CASE copy.charge = c
    <3>1. row[c].status \in {"open", "failed"} /\ ~PaidByHand(c) /\ job.at = "charge"
      BY <1>6, <2>3 DEF Collect, Overwritten, Copies
    <3>2. ~Held(c)
      BY <1>0, <3>1, HeldIsSafe DEF Safe
    <3>3. \A k \in Intents : ~Was(k)
      BY <3>1, <3>2 DEF Held, PaidByHand, Pays, Pending
    <3>. QED  BY <2>1, <3>3
  <2>. QED  BY <2>2, <2>3
<1>. QED  BY <1>1, <1>2, <1>3, <1>4, <1>5, <1>6, PaymentSteps

(***************************************************************************)
(* The chain of periods                                                     *)
(***************************************************************************)
Known(c) == row[c].status # "none"

\* The job goes by rows that are there, and only its payments are reported as
\* processing; before anything is bought there is no row.
Facts ==
  /\ \A e \in mail : e.kind = "processing" => intent[e.intent].auto
  /\ \A i \in Intents : intent[i].auto =>
       intent[i].status # "none" /\ Known(intent[i].charge)
  /\ \A copy \in job.todo : Known(copy.charge)
  /\ job.at = "record" => Known(job.now.charge)
  /\ edit # NoCopy => Known(edit.charge)
  /\ sub = "none" /\ Unused = Intents => \A c \in Charges : ~Known(c)

\* A server that runs is that of a provisioned subscription, or of a payment whose
\* event is still there.
Followed ==
  /\ \A h \in hooks : h.event \in mail
  /\ \A g, h \in hooks : g.event = h.event => g = h
  /\ unjob = "suspended" /\ ~detached => server # "running"
  /\ unjob # "idle" => sub # "none"
  /\ ~detached /\ server = "running" =>
       sub = "provisioned" \/ \E e \in mail : e.kind = "succeeded"

\* Prorations are settled: what is not settled is of a period.
Settled == \A c \in Charges : row[c].type = "proration" => row[c].status = "succeeded"

\* Prorations are settled; one period is outstanding and no other, and there is one
\* once anything was paid for; who has cancelled has cancelled that one, and nobody
\* is paying for it.
Chain ==
  disturbed = {} =>
    /\ Settled
    /\ \A c, d \in Charges : Outstanding(c) /\ Outstanding(d) => c = d
    /\ sub = "provisioned" => \E c \in Charges : Outstanding(c)
    /\ (\E c \in Charges : row[c].status = "succeeded") => \E c \in Charges : Outstanding(c)
    /\ wish = "stop" => \E c \in Charges :
         row[c].status = "cancelled" /\ \A i \in Intents : ~(Pays(i, c) /\ Pending(i))

ChainInv == IInv /\ Facts /\ Followed /\ Chain

\* A row that is there stays there.
LEMMA KnownLast ==
  ASSUME TypeOK, Copies, Payments, Next, NEW c \in Charges, Known(c)
  PROVE  Known(c)'
<1> USE DEF Known
<1>1. CASE User
  <2>1. CASE Redeem
    BY <2>1, FreshChargeIsSpare DEF Redeem, New, TypeOK
  <2>2. ASSUME NEW d \in Charges, Cancel(d) \/ Uncancel(d) PROVE Known(c)'
    BY <2>2 DEF Cancel, Uncancel, Toggle, TypeOK, Row
  <2>3. CASE PlanChanged
    <3>1. Upsert(edit, edit.status, edit.retry) /\ edit.status # "none" /\ edit \in Copy
      BY <2>3 DEF PlanChanged, Copies, TypeOK
    <3>. QED  BY <3>1, UpsertRow
  <2>. QED  BY <1>1, <2>1, <2>2, <2>3 DEF User, Buy, PayExisting, ChangePlan
<1>2. CASE BillingJob
  <2>1. CASE StartJob
    BY <2>1 DEF StartJob, TypeOK, Row
  <2>2. CASE Record
    <3>1. PICK status \in {"failed", "processing"} : Upsert(job.now, status, FALSE)
      BY <2>2 DEF Record
    <3>2. job.now \in Copy
      BY DEF TypeOK
    <3>3. row'[c].status = IF c = job.now.charge THEN status ELSE row[c].status
      BY <3>1, <3>2, UpsertRow
    <3>. QED  BY <3>1, <3>3
  <2>. QED  BY <1>2, <2>1, <2>2 DEF BillingJob, Charge, Collect, CannotCollect, JobEnds
<1>3. CASE Stripe \/ UnprovisionJob \/ UnprovisionFails \/ JobDies
  BY <1>3 DEF Stripe, Confirm, Settle, UnprovisionJob, SelectLapsed, Suspend, Unprovision,
     UnprovisionFails, JobDies
<1>4. CASE Time
  BY <1>4 DEF Time, DuePasses, AttemptAges, TypeOK, Row
<1>5. CASE Webhook \/ \E h \in hooks : PaymentFails(h)
  <2>1. ASSUME NEW e \in mail, Notice(e) PROVE Known(c)'
    <3>1. e.kind # "none"
      BY DEF TypeOK, Event
    <3>. QED  BY <2>1, <3>1, NoticeRow
  <2>2. ASSUME NEW h \in hooks, Payment(h) PROVE Known(c)'
    BY <2>2, PaymentRow
  <2>. QED  BY <1>5, <2>1, <2>2 DEF Webhook, Provision, PaymentFails
<1>. QED  BY <1>1, <1>2, <1>3, <1>4, <1>5 DEF Next

\* Where a new report of a payment, a new payment of the job, a copy to be charged
\* and one to be written come from.
LEMMA NewProcessing ==
  ASSUME "hand" \notin Slow, TypeOK, Copies, Next,
         NEW e \in mail', e \notin mail, e.kind = "processing"
  PROVE  intent'[e.intent].auto
<1>1. ASSUME NEW i \in Intents, Confirm(i) \/ Settle(i) PROVE intent'[e.intent].auto
  BY <1>1 DEF Confirm, Settle, Reports
<1>2. ASSUME NEW copy \in job.todo, NEW answer \in {"taken", "declined"},
             NEW failure \in BOOLEAN, Collect(copy, answer, failure)
      PROVE  intent'[e.intent].auto
  <2>1. e = [intent |-> FreshIntent, kind |-> "processing"]
    BY <1>2 DEF Collect, Reports
  <2>2. intent'[FreshIntent] = [charge |-> copy.charge, type |-> "subscription",
                                auto |-> TRUE, status |-> answer]
    BY <1>2, CollectIntent
  <2>. QED  BY <2>1, <2>2
<1>3. CASE User
  BY <1>3 DEF User, Buy, Redeem, PayExisting, Cancel, Uncancel, Toggle, ChangePlan, PlanChanged
<1>4. CASE BillingJob \/ JobDies
  BY <1>2, <1>4 DEF BillingJob, StartJob, Charge, CannotCollect, Record, JobEnds, JobDies
<1>5. CASE UnprovisionJob \/ UnprovisionFails \/ Time
  BY <1>5 DEF UnprovisionJob, SelectLapsed, Suspend, Unprovision, UnprovisionFails,
     Time, DuePasses, AttemptAges
<1>6. CASE Webhook \/ \E h \in hooks : PaymentFails(h)
  BY <1>6 DEF Webhook, Notice, Provision, Payment, PaymentFails, Answer
<1>. QED  BY <1>1, <1>3, <1>4, <1>5, <1>6 DEF Next, Stripe

\* Only a collection makes an intent of the job.
LEMMA AutoIsCollected ==
  ASSUME TypeOK, Copies, Next, NEW i \in Intents,
         intent[i].status = "none", ~intent[i].auto, intent'[i].auto
  PROVE  \E copy \in job.todo, answer \in {"taken", "declined"}, failure \in BOOLEAN :
           /\ Collect(copy, answer, failure)
           /\ intent'[i].charge = copy.charge /\ intent'[i].status = answer
<1>1. ASSUME NEW c \in Charges, NEW type \in ChargeType, Offer(c, type) PROVE FALSE
  <2>1. /\ intent'[FreshIntent] =
             [charge |-> c, type |-> type, auto |-> FALSE, status |-> "offered"]
        /\ i # FreshIntent => intent'[i] = intent[i]
    BY <1>1, OfferType
  <2>2. intent'[FreshIntent].auto = FALSE
    BY <2>1
  <2>. QED  BY <2>1, <2>2
<1>2. ASSUME NEW j \in Intents, Confirm(j) \/ Settle(j) PROVE FALSE
  BY <1>2 DEF Confirm, Settle, TypeOK, Intent
<1>3. ASSUME NEW copy \in job.todo, NEW answer \in {"taken", "declined"},
             NEW failure \in BOOLEAN, Collect(copy, answer, failure)
      PROVE  intent'[i].charge = copy.charge /\ intent'[i].status = answer
  <2>1. /\ intent'[FreshIntent] = [charge |-> copy.charge, type |-> "subscription",
                                   auto |-> TRUE, status |-> answer]
        /\ i # FreshIntent => intent'[i] = intent[i]
    BY <1>3, CollectIntent
  <2>2. i = FreshIntent
    BY <2>1
  <2>. QED  BY <2>1, <2>2
<1>. QED  BY <1>1, <1>2, <1>3, PaymentSteps

\* The job and the edit take copies of what is in the database.
LEMMA NewCopies ==
  ASSUME TypeOK, Next
  PROVE  /\ \A copy \in job'.todo :
              copy \in job.todo \/ \E c \in Chargeable : copy = CopyOf(c)
         /\ job'.at = "record" =>
              job'.now \in job.todo \/ (job.at = "record" /\ job'.now = job.now)
         /\ edit' # NoCopy => edit' = edit \/ \E c \in Charges : Unsettled(c) /\ edit' = CopyOf(c)
<1> DEFINE Goal ==
      /\ \A copy \in job'.todo :
           copy \in job.todo \/ \E c \in Chargeable : copy = CopyOf(c)
      /\ job'.at = "record" =>
           job'.now \in job.todo \/ (job.at = "record" /\ job'.now = job.now)
      /\ edit' # NoCopy => edit' = edit \/ \E c \in Charges : Unsettled(c) /\ edit' = CopyOf(c)
<1>1. CASE User
  BY <1>1 DEF User, Buy, Redeem, PayExisting, Cancel, Uncancel, Toggle, ChangePlan,
     PlanChanged, NextOf
<1>2. CASE BillingJob
  <2>1. CASE StartJob
    <3>1. job' = [at |-> "charge", todo |-> {CopyOf(c) : c \in Chargeable}, now |-> NoCopy,
                  failure |-> FALSE] /\ edit' = edit
      BY <2>1 DEF StartJob, JobIdle
    <3>. QED  BY <3>1
  <2>2. ASSUME NEW copy \in job.todo, Charge(copy) PROVE Goal
    <3>1. edit' = edit /\ job'.todo = job.todo \ {copy} /\ job'.now = copy
      BY <2>2 DEF Charge, Collect, CannotCollect, TypeOK
    <3>. QED  BY <3>1
  <2>3. CASE Record
    <3>1. edit' = edit /\ job'.todo = job.todo /\ job'.at = "charge"
      BY <2>3 DEF Record, TypeOK
    <3>. QED  BY <3>1
  <2>4. CASE JobEnds
    BY <2>4 DEF JobEnds, JobIdle
  <2>. QED  BY <1>2, <2>1, <2>2, <2>3, <2>4 DEF BillingJob
<1>3. CASE JobDies
  BY <1>3 DEF JobDies, JobIdle
<1>4. CASE Stripe \/ UnprovisionJob \/ UnprovisionFails \/ Time
  BY <1>4 DEF Stripe, Confirm, Settle, UnprovisionJob, SelectLapsed, Suspend, Unprovision,
     UnprovisionFails, Time, DuePasses, AttemptAges
<1>5. CASE Webhook \/ \E h \in hooks : PaymentFails(h)
  BY <1>5 DEF Webhook, Notice, Provision, Payment, PaymentFails
<1>. QED  BY <1>1, <1>2, <1>3, <1>4, <1>5 DEF Next

\* A subscription that was never paid for or given away has no rows.
LEMMA NothingYet ==
  ASSUME TypeOK, Copies, Facts, Next, sub' = "none", Unused = Intents, mail = {}, hooks = {}
  PROVE  sub = "none" /\ row' = row
<1>1. sub = "none"
  BY DEF Next, User, Buy, Redeem, PayExisting, Cancel, Uncancel, Toggle, ChangePlan,
         PlanChanged, Stripe, Confirm, Settle, BillingJob, StartJob, Charge, Collect,
         CannotCollect, Record, JobEnds, JobDies, UnprovisionJob, SelectLapsed, Suspend,
         Unprovision, UnprovisionFails, Webhook, Time, DuePasses, AttemptAges
<1>2. \A c \in Charges : row[c].status = "none"
  BY <1>1 DEF Facts, Known
<1>3. CASE User
  <2>1. ~PlanChanged
    BY <1>2 DEF PlanChanged, Facts, Known, Copies
  <2>. QED  BY <1>1, <1>3, <2>1 DEF User, Buy, Redeem, PayExisting, Cancel, Uncancel, Toggle,
            ChangePlan
<1>4. CASE BillingJob
  <2>1. ~StartJob
    BY <1>2 DEF StartJob, Cancellable, Chargeable
  <2>2. ~Record
    BY <1>2 DEF Record, Facts, Known, Copies
  <2>. QED  BY <1>4, <2>1, <2>2 DEF BillingJob, Charge, Collect, CannotCollect, JobEnds
<1>5. CASE Stripe \/ UnprovisionJob \/ UnprovisionFails \/ JobDies
  BY <1>5 DEF Stripe, Confirm, Settle, UnprovisionJob, SelectLapsed, Suspend, Unprovision,
     UnprovisionFails, JobDies
<1>6. CASE Time
  BY <1>2, <1>6 DEF Time, DuePasses, AttemptAges, Unsettled
<1>. QED  BY <1>1, <1>3, <1>4, <1>5, <1>6 DEF Next, Webhook

\* Which rows, payments and events the job goes by.
LEMMA FactsStep ==
  ASSUME "hand" \notin Slow, TypeOK, Copies, Payments, Facts, Next
  PROVE  Facts'
<1>1. ASSUME NEW e \in mail', e.kind = "processing" PROVE intent'[e.intent].auto
  <2>1. CASE e \in mail
    <3>1. e.intent \in Intents /\ intent[e.intent].status # "none" /\ intent[e.intent].auto
      BY <1>1, <2>1 DEF Facts, Payments, TypeOK, Event
    <3>. QED  BY <3>1, PaymentsLast
  <2>2. CASE e \notin mail
    BY <1>1, <2>2, NewProcessing
  <2>. QED  BY <2>1, <2>2
<1>2. ASSUME NEW i \in Intents, intent'[i].auto
      PROVE  intent'[i].status # "none" /\ row'[intent'[i].charge].status # "none"
  <2>1. ASSUME NEW c \in Charges, Known(c), intent'[i].charge = c
        PROVE  row'[intent'[i].charge].status # "none"
    BY <2>1, KnownLast DEF Known
  <2>2. CASE intent[i].status # "none"
    <3>1. /\ intent[i].auto /\ intent'[i].charge = intent[i].charge
          /\ intent[i].charge \in Charges /\ intent'[i].status # "none"
      BY <1>2, <2>2, PaymentsLast DEF Payments
    <3>. QED  BY <2>1, <3>1 DEF Facts
  <2>3. CASE intent[i].status = "none"
    <3>1. ~intent[i].auto
      BY <2>3 DEF Facts
    <3>2. PICK copy \in job.todo : /\ intent'[i].charge = copy.charge
                                   /\ intent'[i].status \in {"taken", "declined"}
      BY <1>2, <2>3, <3>1, AutoIsCollected
    <3>3. copy.charge \in Charges /\ Known(copy.charge)
      BY DEF Facts, Copies
    <3>. QED  BY <2>1, <3>2, <3>3
  <2>. QED  BY <2>2, <2>3
<1>3. ASSUME NEW copy \in job'.todo PROVE row'[copy.charge].status # "none"
  <2>1. copy.charge \in Charges /\ Known(copy.charge)
    <3>1. CASE copy \in job.todo
      BY <3>1 DEF Facts, Copies
    <3>2. ASSUME NEW c \in Chargeable, copy = CopyOf(c)
          PROVE  copy.charge \in Charges /\ Known(copy.charge)
      BY <3>2 DEF CopyOf, Chargeable, Known
    <3>. QED  BY <3>1, <3>2, NewCopies
  <2>. QED  BY <2>1, KnownLast DEF Known
<1>5. ASSUME job'.at = "record" PROVE row'[job'.now.charge].status # "none"
  <2>1. PICK c \in Charges : c = job'.now.charge /\ Known(c)
    BY <1>5, NewCopies DEF Facts, Copies
  <2>2. Known(c)'
    BY <2>1, KnownLast
  <2>. QED  BY <2>1, <2>2 DEF Known
<1>6. ASSUME edit' # NoCopy PROVE row'[edit'.charge].status # "none"
  <2>1. PICK c \in Charges : c = edit'.charge /\ Known(c)
    <3>1. CASE edit' = edit
      BY <1>6, <3>1 DEF Facts, Copies
    <3>2. ASSUME NEW c \in Charges, Unsettled(c), edit' = CopyOf(c)
          PROVE  \E d \in Charges : d = edit'.charge /\ Known(d)
      BY <3>2 DEF CopyOf, Unsettled, Known
    <3>. QED  BY <1>6, <3>1, <3>2, NewCopies
  <2>2. Known(c)'
    BY <2>1, KnownLast
  <2>. QED  BY <2>1, <2>2 DEF Known
<1>4. ASSUME sub' = "none", Unused' = Intents, NEW c \in Charges PROVE ~Known(c)'
  <2>1. Unused = Intents
    BY <1>4, PaymentsLast DEF Unused
  <2>2. mail = {} /\ hooks = {}
    <3>1. \A e \in Event : intent[e.intent].status = "none"
      BY <2>1 DEF Unused, Event
    <3>. QED  BY <3>1 DEF Payments, TypeOK, Hook
  <2>3. sub = "none" /\ row' = row
    BY <1>4, <2>1, <2>2, NothingYet
  <2>. QED  BY <2>1, <2>3 DEF Facts, Known
<1>. QED  BY <1>1, <1>2, <1>3, <1>4, <1>5, <1>6 DEF Facts, Known

\* A step that leaves the server, the subscription and the webhook alone.
LEMMA FollowedKept ==
  ASSUME Followed, server' = server, sub' = sub, unjob' = unjob, detached' = detached,
         hooks' = hooks, mail \subseteq mail'
  PROVE  Followed'
BY DEF Followed

\* A report does not end a subscription: its charge is there.
LEMMA NoticeSub ==
  ASSUME TypeOK, Payments, Facts, NEW e \in mail, Notice(e)
  PROVE  sub' = sub
<1>1. Reading(e).event = e /\ Reading(e).sub = sub /\ sub' = WrittenSub(Reading(e))
        /\ Reading(e).known \in BOOLEAN /\ e.kind \in {"processing", "failed"}
  BY DEF Reading, Notice, TypeOK, Event
<1>2. e.kind = "processing" => Reading(e).known
  BY DEF Reading, Facts, Payments, TypeOK, Event, Known
<1>. QED  BY <1>1, <1>2 DEF WrittenSub

\* Every step keeps the servers behind their rows.
LEMMA FollowedStep == ASSUME TypeOK, Payments, Facts, Followed, Next PROVE Followed'
<1>1. CASE User
  <2>1. CASE Redeem
    <3>1. unjob = "idle"
      BY <2>1 DEF Redeem, Followed
    <3>. QED  BY <2>1, <3>1 DEF Redeem, Followed
  <2>. QED  BY <1>1, <2>1, FollowedKept DEF User, Buy, PayExisting, Cancel, Uncancel, Toggle,
            ChangePlan, PlanChanged
<1>2. CASE Stripe
  BY <1>2, FollowedKept DEF Stripe, Confirm, Settle
<1>3. CASE BillingJob \/ JobDies
  BY <1>3, FollowedKept DEF BillingJob, StartJob, Charge, Collect, CannotCollect, Record,
     JobEnds, JobDies
<1>4. CASE Time
  BY <1>4, FollowedKept DEF Time, DuePasses, AttemptAges
<1>5. CASE UnprovisionJob \/ UnprovisionFails
  <2>1. CASE SelectLapsed
    BY <2>1 DEF SelectLapsed, Followed
  <2>2. CASE Suspend
    BY <2>2 DEF Suspend, Followed
  <2>3. CASE Unprovision
    BY <2>3 DEF Unprovision, Followed
  <2>4. CASE UnprovisionFails
    BY <2>4 DEF UnprovisionFails, Followed
  <2>. QED  BY <1>5, <2>1, <2>2, <2>3, <2>4 DEF UnprovisionJob
<1>6. ASSUME NEW e \in mail, Notice(e) PROVE Followed'
  <2>1. /\ server' = server /\ unjob' = unjob /\ detached' = detached /\ hooks' = hooks
        /\ mail \ {e} \subseteq mail' /\ e.kind # "succeeded"
    BY <1>6 DEF Notice, Answer
  <2>2. \A h \in hooks : h.event # e
    BY <2>1 DEF Payments
  <2>3. sub' = sub
    BY <1>6, NoticeSub
  <2>. QED  BY <2>1, <2>2, <2>3 DEF Followed
<1>7. ASSUME NEW e \in mail, Provision(e) PROVE Followed'
  <2>1. /\ mail' = mail /\ sub' = sub /\ unjob' = unjob /\ e.kind = "succeeded"
        /\ detached' = (detached \/ unjob # "idle")
        /\ hooks' = hooks \cup {Reading(e)} /\ Reading(e).event = e
        /\ \A h \in hooks : h.event # e
    BY <1>7 DEF Provision, Reading
  <2>. QED  BY <2>1 DEF Followed
<1>8. ASSUME NEW h \in hooks, Payment(h) PROVE Followed'
  <2>1. /\ server' = server /\ unjob' = unjob /\ detached' = detached
        /\ hooks' = hooks \ {h} /\ sub' = "provisioned" /\ mail \ {h.event} \subseteq mail'
    BY <1>8 DEF Payment, Answer
  <2>. QED  BY <2>1 DEF Followed
<1>9. ASSUME NEW h \in hooks, PaymentFails(h) PROVE Followed'
  BY <1>9 DEF PaymentFails, Followed
<1>. QED  BY <1>1, <1>2, <1>3, <1>4, <1>5, <1>6, <1>7, <1>8, <1>9 DEF Next, Webhook

\* Among rows that are not settled, one is due first.
LEMMA NextOfSome ==
  ASSUME TypeOK, NEW B \in SUBSET Charges, NEW b \in B, Unsettled(b)
  PROVE  NextOf(B) # {}
<1>1. \A d \in B : row[d].due \in 0..2
  BY DEF TypeOK, Row
<1>2. \E d \in B : Unsettled(d) /\ \A e \in B : Unsettled(e) => row[e].due <= row[d].due
  <2>1. CASE \E d \in B : Unsettled(d) /\ row[d].due = 2
    BY <1>1, <2>1
  <2>2. CASE ~(\E d \in B : Unsettled(d) /\ row[d].due = 2)
    <3>1. \A e \in B : Unsettled(e) => row[e].due \in 0..1
      BY <1>1, <2>2
    <3>2. CASE \E d \in B : Unsettled(d) /\ row[d].due = 1
      BY <3>1, <3>2
    <3>3. CASE ~(\E d \in B : Unsettled(d) /\ row[d].due = 1)
      <4>1. \A e \in B : Unsettled(e) => row[e].due = 0
        BY <3>1, <3>3
      <4>. QED  BY <4>1
    <3>. QED  BY <3>2, <3>3
  <2>. QED  BY <2>1, <2>2
<1>. QED  BY <1>2 DEF NextOf

\* A row that has not succeeded is an outstanding period.
LEMMA UnsettledIsOutstanding ==
  ASSUME TypeOK, Settled, NEW c \in Charges, row[c].status \notin {"none", "succeeded"}
  PROVE  Outstanding(c)
BY DEF TypeOK, Row, ChargeType, ChargeStatus, Settled, Outstanding, Renewal, Unsettled

\* How a step that disturbs nothing writes a charge: not at all, or one of an
\* outstanding period, which stays outstanding; who takes a cancellation back says so.
Kept(c)  == row'[c].type = row[c].type /\ row'[c].status = row[c].status
Moved(c) ==
  /\ Outstanding(c)
  /\ row'[c].type = row[c].type
  /\ row'[c].status \in {"open", "expiring", "cancelled", "failed", "processing"}
  /\ row[c].status = "cancelled" => row'[c].status = "cancelled" \/ wish' = "renew"

\* A copy that is written back leaves each charge outstanding...
LEMMA UpsertMoves ==
  ASSUME TypeOK, Settled, NEW copy \in Copy, NEW status, NEW retry,
         Upsert(copy, status, retry), disturbed' = {}, NEW c \in Charges,
         copy.status \in {"open", "expiring", "cancelled", "failed"},
         status \in {"open", "expiring", "cancelled", "failed", "processing"},
         copy.status = "cancelled" => status = "cancelled"
  PROVE  Kept(c) \/ Moved(c)
<1>1. CASE c # copy.charge
  BY <1>1 DEF Upsert, TypeOK, Kept
<1>2. CASE c = copy.charge
  <2>1. row[c].status = copy.status
    BY <1>2 DEF Upsert, Overwritten
  <2>2. row'[c].type = row[c].type /\ row'[c].status = status
    BY <1>2 DEF Upsert, TypeOK, Row
  <2>3. Outstanding(c)
    BY <2>1, UnsettledIsOutstanding
  <2>. QED  BY <2>1, <2>2, <2>3 DEF Moved
<1>. QED  BY <1>1, <1>2

\* ...and so does a cancellation, and taking it back...
LEMMA ToggleMoves ==
  ASSUME TypeOK, Settled, NEW d \in Charges, NEW status, NEW retry, NEW ask,
         Toggle(d, status, retry, ask), NEW c \in Charges,
         status \in {"open", "cancelled", "failed"},
         status = "cancelled" \/ ask = "renew"
  PROVE  Kept(c) \/ Moved(c)
<1>1. CASE c # d
  BY <1>1 DEF Toggle, TypeOK, Kept
<1>2. CASE c = d
  <2>1. Unsettled(c) /\ wish' = ask
    BY <1>2 DEF Toggle, NextOf
  <2>2. row'[c].type = row[c].type /\ row'[c].status = status
    BY <1>2 DEF Toggle, TypeOK, Row
  <2>3. Outstanding(c)
    BY <2>1, UnsettledIsOutstanding DEF Unsettled
  <2>. QED  BY <2>1, <2>2, <2>3 DEF Moved
<1>. QED  BY <1>1, <1>2

\* A report that is not outdated is of a period that is being paid for.
LEMMA NoticeMoves ==
  ASSUME TypeOK, Payments, ShownIsPaid, Facts, Settled, disturbed' = {},
         NEW e \in mail, Notice(e), NEW c \in Charges
  PROVE  Kept(c) \/ Moved(c)
<1> DEFINE i == e.intent
           b == intent[i].charge
           w == Reading(e)
<1>1. i \in Intents /\ b \in Charges /\ e.kind \in {"processing", "failed"}
  BY DEF Notice, Payments, TypeOK, Event
<1>2. row' = Written(w) /\ w.event = e /\ w.known = (row[b].status # "none")
  BY DEF Notice, Reading
<1>3. e.kind = "processing" => row[b].status # "none"
  BY <1>1 DEF Facts, Known
<1>4. CASE row[b].status = "none"
  <2>1. e.kind = "failed"
    BY <1>1, <1>3, <1>4
  <2>2. row' = row
    BY <1>2, <1>4, <2>1 DEF Written
  <2>. QED  BY <2>2 DEF Kept
<1>5. CASE row[b].status # "none"
  <2>1. row' = [row EXCEPT ![b].status = e.kind, ![b].retry = FALSE]
    BY <1>2, <1>5 DEF Written
  <2>2. CASE c # b
    BY <2>1, <2>2 DEF Kept, TypeOK
  <2>3. CASE c = b
    <3>1. ~Outdated(e)
      BY DEF Notice, Answer
    <3>2. /\ \A j \in Intents \ {i} : ~(Pays(j, b) /\ Pending(j))
          /\ intent[i].status \notin {"none", "paid"} /\ row[b].status # "cancelled"
      BY <1>1, <3>1 DEF Outdated, Notice
    <3>3. row[b].status # "succeeded"
      BY <1>1, <3>2 DEF ShownIsPaid, Pending
    <3>4. Outstanding(b)
      BY <1>1, <1>5, <3>3, UnsettledIsOutstanding
    <3>5. row'[b].type = row[b].type /\ row'[b].status = e.kind
      BY <1>1, <2>1 DEF TypeOK, Row
    <3>. QED  BY <1>1, <2>3, <3>2, <3>4, <3>5 DEF Moved
  <2>. QED  BY <2>2, <2>3
<1>. QED  BY <1>4, <1>5

\* ...and every other step that disturbs nothing, but a payment and a trial.
LEMMA ChainMoves ==
  ASSUME TypeOK, Copies, Payments, ShownIsPaid, Facts, Settled, disturbed' = {}, Next,
         ~ \E h \in hooks : Payment(h), ~Redeem
  PROVE  /\ \A c \in Charges : Kept(c) \/ Moved(c)
         /\ sub' = "provisioned" => sub = "provisioned"
<1> DEFINE Goal == /\ \A c \in Charges : Kept(c) \/ Moved(c)
                   /\ sub' = "provisioned" => sub = "provisioned"
<1>0. CASE row' = row /\ (sub' = sub \/ sub' = "unprovisioned")
  BY <1>0 DEF Kept
<1>1. CASE User
  <2>1. ASSUME NEW d \in Charges, Cancel(d) PROVE Goal
    <3>1. Toggle(d, "cancelled", row[d].retry, "stop") /\ sub' = sub
      BY <2>1 DEF Cancel, Toggle
    <3>. QED  BY <3>1, ToggleMoves
  <2>2. ASSUME NEW d \in Charges, Uncancel(d) PROVE Goal
    <3>1. PICK status \in {"open", "failed"}, retry \in {row[d].retry, TRUE} :
            Toggle(d, status, retry, "renew")
      BY <2>2 DEF Uncancel
    <3>2. sub' = sub
      BY <3>1 DEF Toggle
    <3>. QED  BY <3>1, <3>2, ToggleMoves
  <2>3. CASE PlanChanged
    <3>1. /\ Upsert(edit, edit.status, edit.retry) /\ edit \in Copy /\ sub' = sub
          /\ edit.status \in {"open", "expiring", "cancelled", "failed"}
      BY <2>3 DEF PlanChanged, Copies, TypeOK
    <3>. QED  BY <3>1, UpsertMoves
  <2>. QED  BY <1>0, <1>1, <2>1, <2>2, <2>3 DEF User, Buy, PayExisting, ChangePlan
<1>2. CASE BillingJob
  <2>1. CASE StartJob
    <3>1. ASSUME NEW c \in Charges PROVE Kept(c) \/ Moved(c)
      <4>1. CASE c \in Cancellable
        <5>1. row'[c].type = row[c].type /\ row'[c].status = "cancelled"
          BY <2>1, <4>1 DEF StartJob, TypeOK, Row
        <5>2. Outstanding(c)
          BY <4>1 DEF Cancellable, Outstanding, Unsettled
        <5>. QED  BY <5>1, <5>2 DEF Moved
      <4>2. CASE c \notin Cancellable
        BY <2>1, <4>2 DEF StartJob, Kept
      <4>. QED  BY <4>1, <4>2
    <3>. QED  BY <2>1, <3>1 DEF StartJob
  <2>2. CASE Record
    <3>1. PICK status \in {"failed", "processing"} : Upsert(job.now, status, FALSE)
      BY <2>2 DEF Record
    <3>2. job.now \in Copy /\ job.now.status \in {"open", "failed"} /\ sub' = sub
      BY <2>2 DEF TypeOK, Record, Copies
    <3>. QED  BY <3>1, <3>2, UpsertMoves
  <2>. QED  BY <1>0, <1>2, <2>1, <2>2 DEF BillingJob, Charge, Collect, CannotCollect, JobEnds
<1>3. CASE Stripe \/ JobDies
  BY <1>0, <1>3 DEF Stripe, Confirm, Settle, JobDies
<1>4. CASE UnprovisionJob \/ UnprovisionFails
  BY <1>0, <1>4 DEF UnprovisionJob, SelectLapsed, Suspend, Unprovision, UnprovisionFails
<1>5. CASE Time
  <2>1. \A c \in Charges : Kept(c)
    BY <1>5 DEF Time, DuePasses, AttemptAges, TypeOK, Row, Kept
  <2>. QED  BY <1>5, <2>1 DEF Time, DuePasses, AttemptAges
<1>6. ASSUME NEW e \in mail, Notice(e) PROVE Goal
  BY <1>6, NoticeMoves, NoticeSub
<1>7. CASE (\E e \in mail : Provision(e)) \/ \E h \in hooks : PaymentFails(h)
  BY <1>0, <1>7 DEF Provision, PaymentFails
<1>. QED  BY <1>1, <1>2, <1>3, <1>4, <1>5, <1>6, <1>7 DEF Next, Webhook

\* Nobody pays for a cancelled charge without taking the cancellation back.
LEMMA CancelledIsUnpaid ==
  ASSUME TypeOK, Copies, Next, disturbed' = {}, wish' = "stop",
         NEW c \in Charges, row[c].status = "cancelled", NEW i \in Intents,
         Pays(i, c)', Pending(i)'
  PROVE  Pays(i, c) /\ Pending(i)
<1> USE DEF Pays, Pending
<1>1. CASE intent' = intent
  BY <1>1
<1>2. ASSUME NEW d \in Charges, NEW type \in ChargeType, Offer(d, type)
      PROVE  Pays(i, c) /\ Pending(i)
  <2>1. /\ intent'[FreshIntent] =
             [charge |-> d, type |-> type, auto |-> FALSE, status |-> "offered"]
        /\ i # FreshIntent => intent'[i] = intent[i]
    BY <1>2, OfferType
  <2>. QED  BY <2>1
<1>3. ASSUME NEW j \in Intents, Confirm(j) \/ Settle(j) PROVE Pays(i, c) /\ Pending(i)
  <2>1. Settle(j)
    BY <1>3 DEF Confirm
  <2>. QED  BY <2>1 DEF Settle, TypeOK, Intent
<1>4. ASSUME NEW copy \in job.todo, NEW answer \in {"taken", "declined"},
             NEW failure \in BOOLEAN, Collect(copy, answer, failure)
      PROVE  Pays(i, c) /\ Pending(i)
  <2>1. /\ intent'[FreshIntent] = [charge |-> copy.charge, type |-> "subscription",
                                   auto |-> TRUE, status |-> answer]
        /\ i # FreshIntent => intent'[i] = intent[i]
    BY <1>4, CollectIntent
  <2>2. copy.charge # c
    BY <1>4 DEF Collect, Overwritten, Copies
  <2>. QED  BY <2>1, <2>2
<1>. QED  BY <1>1, <1>2, <1>3, <1>4, PaymentSteps

\* Who asks for an end has cancelled what comes next.
LEMMA StopIsCancel ==
  ASSUME TypeOK, Next, disturbed' = {}, wish' = "stop", wish # "stop"
  PROVE  /\ intent' = intent
         /\ \E c \in Charges : /\ row'[c].status = "cancelled"
                               /\ \A i \in Intents : ~(Pays(i, c) /\ Pending(i))
<1>1. PICK c \in Charges : Cancel(c)
  BY DEF Next, User, Buy, Redeem, PayExisting, Cancel, Uncancel, Toggle, ChangePlan,
         PlanChanged, Stripe, Confirm, Settle, BillingJob, StartJob, Charge, Collect,
         CannotCollect, Record, JobEnds, JobDies, UnprovisionJob, SelectLapsed, Suspend,
         Unprovision, UnprovisionFails, Webhook, Time, DuePasses, AttemptAges, Notice,
         Provision, Payment, PaymentFails
<1>2. Toggle(c, "cancelled", row[c].retry, "stop")
  BY <1>1 DEF Cancel
<1>3. row'[c].status = "cancelled" /\ intent' = intent
  BY <1>2 DEF Toggle, TypeOK, Row
<1>4. \A i \in Intents : ~(Pays(i, c) /\ Pending(i))
  BY <1>2 DEF Toggle
<1>. QED  BY <1>3, <1>4

\* The webhook of a payment: the period that was outstanding goes on, if it was
\* another one, or there was none, and a new one begins.
LEMMA PaymentChain ==
  ASSUME TypeOK, Payments, Settled, disturbed' = {}, NEW h \in hooks, Payment(h)
  PROVE  \E b, n \in Charges :
           /\ b # n /\ row'[b].status = "succeeded"
           /\ \E i \in Intents : Pays(i, b) /\ intent[i].status = "paid"
           /\ row'[n].type = "subscription" /\ Outstanding(n)'
           /\ row[n].status # "succeeded" /\ row'[n].status # "succeeded"
           /\ \A c \in Charges \ {b, n} : row'[c] = row[c]
           /\ \/ /\ Outstanding(n)
                 /\ row[n].status = "cancelled" => row'[n].status = "cancelled"
              \/ \A c \in Charges \ {b} : ~Outstanding(c)
<1> DEFINE b == intent[h.event.intent].charge
           r == Written(h)
           next == NextOf(Charges \ {b})
<1>1. h \in Hook /\ h.event.kind = "succeeded" /\ h.event.intent \in Intents
        /\ intent[h.event.intent].status = "paid" /\ h.known \in BOOLEAN
  BY DEF Payments, TypeOK, Hook, Event
<1>2. b \in Charges
  BY <1>1 DEF Payments
<1>3. r \in [Charges -> Row] /\ r[b].status = "succeeded"
  BY <1>1, <1>2, WrittenType, WrittenRow
<1>4. \A c \in Charges \ {b} : r[c] = row[c]
  BY <1>1 DEF Written, TypeOK
<1>5. \E i \in Intents : Pays(i, b) /\ intent[i].status = "paid"
  BY <1>1 DEF Pays
<1> DEFINE Goal(n) ==
      /\ b # n /\ row'[b].status = "succeeded"
      /\ row'[n].type = "subscription" /\ Outstanding(n)'
      /\ row[n].status # "succeeded" /\ row'[n].status # "succeeded"
      /\ \A c \in Charges \ {b, n} : row'[c] = row[c]
      /\ \/ /\ Outstanding(n)
            /\ row[n].status = "cancelled" => row'[n].status = "cancelled"
         \/ \A c \in Charges \ {b} : ~Outstanding(c)
<1>6. ASSUME NEW d \in next,
             row' = [r EXCEPT ![d] =
               IF @.status = "expiring" THEN New("subscription", "open", 0) ELSE @]
      PROVE  Goal(d)
  <2>1. d \in Charges /\ d # b /\ Unsettled(d)
    BY DEF NextOf
  <2>2. Outstanding(d)
    BY <2>1, UnsettledIsOutstanding DEF Unsettled
  <2>3. row'[d] = IF row[d].status = "expiring" THEN New("subscription", "open", 0) ELSE row[d]
    BY <1>3, <1>4, <1>6, <2>1
  <2>4. row'[d].type = "subscription" /\ Unsettled(d)'
    BY <2>1, <2>2, <2>3 DEF New, Outstanding, Renewal, Unsettled
  <2>5. row[d].status = "cancelled" => row'[d].status = "cancelled"
    BY <2>3
  <2>6. row'[b].status = "succeeded" /\ \A c \in Charges \ {b, d} : row'[c] = row[c]
    BY <1>2, <1>3, <1>4, <1>6, <2>1
  <2>7. /\ row[d].status # "succeeded" /\ row'[d].status # "succeeded"
        /\ Outstanding(d)'
    BY <2>1, <2>4 DEF Outstanding, Renewal, Unsettled
  <2>. QED  BY <2>1, <2>2, <2>4, <2>5, <2>6, <2>7
<1>7. ASSUME NEW due, next = {}, Spare # {}, NEW n \in Charges, n = FreshCharge,
             row' = [r EXCEPT ![n] = New("subscription", "open", due)]
      PROVE  Goal(n)
  <2>1. n # b
    BY <1>1, <1>7, FreshChargeIsSpare DEF Spare
  <2>2. row'[n] = New("subscription", "open", due)
    BY <1>3, <1>7
  <2>3. row'[b].status = "succeeded" /\ \A c \in Charges \ {b, n} : row'[c] = row[c]
    BY <1>2, <1>3, <1>4, <1>7, <2>1
  <2>4. \A d \in Charges \ {b} : row[d].status # "processing"
    BY <1>7 DEF Payment, Answer
  <2>5. \A d \in Charges \ {b} : ~Unsettled(d)
    BY <1>7, NextOfSome
  <2>6. row'[n].type = "subscription" /\ row'[n].status = "open"
    BY <2>2 DEF New
  <2>7. row'[n].status # "succeeded" /\ Outstanding(n)'
    BY <2>6 DEF Outstanding, Renewal, Unsettled
  <2>8. row[n].status # "succeeded"
    BY <1>7, FreshChargeIsSpare DEF Spare
  <2>. QED  BY <2>1, <2>3, <2>4, <2>5, <2>6, <2>7, <2>8 DEF Outstanding
<1>8. \E n \in Charges : Goal(n)
  <2> HIDE DEF Goal
  <2>1. CASE \E d \in next : row' = [r EXCEPT ![d] =
               IF @.status = "expiring" THEN New("subscription", "open", 0) ELSE @]
    BY <1>6, <2>1 DEF NextOf
  <2>2. ASSUME NEW due, next = {}, Spare # {},
               row' = [r EXCEPT ![FreshCharge] = New("subscription", "open", due)]
        PROVE  \E n \in Charges : Goal(n)
    <3>1. PICK n \in Charges : n = FreshCharge
      BY <2>2, SpareCharge
    <3>2. Goal(n)
      BY <1>7, <2>2, <3>1
    <3>. QED  BY <3>2
  <2>. QED  BY <2>1, <2>2 DEF Payment
<1>. QED  BY <1>2, <1>5, <1>8

\* Nobody but the webhook of a payment begins a period, but the one given away.
LEMMA ChainStep ==
  ASSUME TypeOK, Copies, Payments, ShownIsPaid, Facts, Chain, Next
  PROVE  Chain'
<1> SUFFICES ASSUME disturbed' = {} PROVE Chain'
  BY DEF Chain
<1>0. /\ Settled
      /\ \A c, d \in Charges : Outstanding(c) /\ Outstanding(d) => c = d
      /\ sub = "provisioned" => \E c \in Charges : Outstanding(c)
      /\ (\E c \in Charges : row[c].status = "succeeded") => \E c \in Charges : Outstanding(c)
      /\ wish = "stop" => \E c \in Charges :
           row[c].status = "cancelled" /\ \A i \in Intents : ~(Pays(i, c) /\ Pending(i))
  BY DisturbedLast DEF Chain, Settled
<1>1. CASE Redeem
  <2>1. sub = "none" /\ Unused = Intents /\ FreshCharge \in Spare
    BY <1>1, FreshChargeIsSpare DEF Redeem
  <2>2. \A c \in Charges : row[c].status = "none"
    BY <2>1 DEF Facts, Known
  <2>3. PICK n \in Charges : n = FreshCharge
    BY <2>1 DEF Spare
  <2>4. row'[n].type = "subscription" /\ row'[n].status = "expiring"
          /\ \A c \in Charges \ {n} : row'[c] = row[c]
    BY <1>1, <2>3 DEF Redeem, New, TypeOK
  <2>5. Settled'
    BY <1>0, <2>4 DEF Settled
  <2>6. Outstanding(n)' /\ \A c \in Charges \ {n} : ~Outstanding(c)'
    BY <2>2, <2>4 DEF Outstanding, Renewal, Unsettled
  <2>7. wish' # "stop"
    BY <1>0, <1>1, <2>2 DEF Redeem
  <2>. QED  BY <2>5, <2>6, <2>7 DEF Chain, Settled
<1>2. ASSUME NEW h \in hooks, Payment(h) PROVE Chain'
  <2>1. PICK b, n \in Charges :
          /\ b # n /\ row'[b].status = "succeeded"
          /\ \E i \in Intents : Pays(i, b) /\ intent[i].status = "paid"
          /\ row'[n].type = "subscription" /\ Outstanding(n)'
          /\ row[n].status # "succeeded" /\ row'[n].status # "succeeded"
          /\ \A c \in Charges \ {b, n} : row'[c] = row[c]
          /\ \/ /\ Outstanding(n)
                /\ row[n].status = "cancelled" => row'[n].status = "cancelled"
             \/ \A c \in Charges \ {b} : ~Outstanding(c)
    BY <1>0, <1>2, PaymentChain
  <2>2. Settled'
    BY <1>0, <2>1 DEF Settled
  <2>3. \A c \in Charges : Outstanding(c)' => c = n
    <3>1. ~Outstanding(b)'
      BY <2>1 DEF Outstanding, Unsettled
    <3>2. \A c \in Charges \ {b, n} : Outstanding(c)' => Outstanding(c)
      BY <2>1 DEF Outstanding, Renewal, Unsettled
    <3>. QED  BY <1>0, <2>1, <3>1, <3>2
  <2>4. ASSUME wish' = "stop"
        PROVE  \E c \in Charges :
                 row'[c].status = "cancelled" /\ \A i \in Intents : ~(Pays(i, c)' /\ Pending(i)')
    <3>1. wish' = wish /\ intent' = intent
      BY <1>2 DEF Payment
    <3>2. PICK c \in Charges :
            row[c].status = "cancelled" /\ \A i \in Intents : ~(Pays(i, c) /\ Pending(i))
      BY <1>0, <2>4, <3>1
    <3>3. c # b /\ Outstanding(c)
      BY <1>0, <2>1, <3>2, UnsettledIsOutstanding DEF Pending
    <3>4. row'[c].status = "cancelled"
      BY <1>0, <2>1, <3>2, <3>3
    <3>5. \A i \in Intents : ~(Pays(i, c)' /\ Pending(i)')
      BY <3>1, <3>2 DEF Pays, Pending
    <3>. QED  BY <3>4, <3>5
  <2>. QED  BY <2>1, <2>2, <2>3, <2>4 DEF Chain, Settled
<1>3. CASE ~Redeem /\ ~ \E h \in hooks : Payment(h)
  <2>1. /\ \A c \in Charges : Kept(c) \/ Moved(c)
        /\ sub' = "provisioned" => sub = "provisioned"
    BY <1>0, <1>3, ChainMoves
  <2>2. Settled'
    BY <1>0, <2>1 DEF Settled, Kept, Moved, Outstanding, Renewal
  <2>3. \A c \in Charges : Outstanding(c)' <=> Outstanding(c)
    BY <2>1 DEF Kept, Moved, Outstanding, Renewal, Unsettled
  <2>4. ASSUME wish' = "stop"
        PROVE  \E c \in Charges :
                 row'[c].status = "cancelled" /\ \A i \in Intents : ~(Pays(i, c)' /\ Pending(i)')
    <3>1. CASE wish = "stop"
      <4>1. PICK c \in Charges :
              row[c].status = "cancelled" /\ \A i \in Intents : ~(Pays(i, c) /\ Pending(i))
        BY <1>0, <3>1
      <4>2. row'[c].status = "cancelled"
        BY <2>1, <2>4, <4>1 DEF Kept, Moved
      <4>3. \A i \in Intents : ~(Pays(i, c)' /\ Pending(i)')
        BY <2>4, <4>1, CancelledIsUnpaid
      <4>. QED  BY <4>2, <4>3
    <3>2. CASE wish # "stop"
      BY <2>4, <3>2, StopIsCancel DEF Pays, Pending
    <3>. QED  BY <3>1, <3>2
  <2>5. ASSUME NEW c \in Charges, row'[c].status = "succeeded"
        PROVE  \E d \in Charges : Outstanding(d)'
    <3>1. row[c].status = "succeeded"
      BY <2>1, <2>5 DEF Kept, Moved
    <3>. QED  BY <1>0, <2>3, <3>1
  <2>. QED  BY <1>0, <2>1, <2>2, <2>3, <2>4, <2>5 DEF Chain, Settled
<1>. QED  BY <1>1, <1>2, <1>3

(***************************************************************************)
(* Theorems                                                                 *)
(***************************************************************************)
LEMMA StepInv == IInv /\ [Next]_vars => IInv'
<1> SUFFICES ASSUME IInv, [Next]_vars PROVE IInv'
  OBVIOUS
<1>1. CASE Next
  BY <1>1, TypeStep, CopiesStep, PaymentsStep, ShownStep, CollectedStep, TwiceStep DEF IInv
<1>2. CASE UNCHANGED vars
  BY <1>2 DEF vars, IInv, TypeOK, Copies, Payments, ShownIsPaid, Collected, NeverPaidTwice,
     Pays, Pending
<1>. QED  BY <1>1, <1>2

\* The invariant behind the first three theorems.
LEMMA Invariant == Spec => []IInv
BY InitInv, StepInv, PTL DEF Spec

\* Every variable has its type in every reachable state.
THEOREM TypesHold == Spec => []TypeOK
BY Invariant, PTL DEF IInv

\* No charge is shown as succeeded that nobody has paid, whoever writes it.
THEOREM NothingIsForFree == Spec => []ShownIsPaid
BY Invariant, PTL DEF IInv

\* No charge is collected twice that no writer has disturbed.
THEOREM PaidOnce == Spec => []NeverPaidTwice
BY Invariant, PTL DEF IInv

\* The rows, the server and the cancellation follow, as long as only the payments
\* of the job are reported before they are settled.
LEMMA ChainInit == Init => Facts /\ Followed /\ Chain
<1> SUFFICES ASSUME Init PROVE Facts /\ Followed /\ Chain
  OBVIOUS
<1>1. Facts
  BY DEF Init, Facts, Known, NoIntent, NoRow, New, JobIdle
<1>2. Followed
  BY DEF Init, Followed
<1>3. Chain
  BY DEF Init, Chain, Settled, NoRow, New, Outstanding, Unsettled
<1>. QED  BY <1>1, <1>2, <1>3

\* Every step keeps the chain of periods.
LEMMA ChainKept ==
  ASSUME Facts, Followed, Chain, UNCHANGED vars
  PROVE  Facts' /\ Followed' /\ Chain'
<1>1. Facts'
  BY DEF vars, Facts, Known, Unused
<1>2. Followed'
  BY DEF vars, Followed
<1>3. \A c \in Charges : Outstanding(c)' <=> Outstanding(c)
  BY DEF vars, Outstanding, Renewal, Unsettled
<1>4. Chain'
  BY <1>3 DEF vars, Chain, Settled, Pays, Pending
<1>. QED  BY <1>1, <1>2, <1>4

\* The invariant behind the other theorems, in every reachable state.
LEMMA ChainInvariant == ASSUME "hand" \notin Slow PROVE Spec => []ChainInv
<1>1. Init => ChainInv
  BY InitInv, ChainInit DEF ChainInv
<1>2. ChainInv /\ [Next]_vars => ChainInv'
  <2> SUFFICES ASSUME ChainInv, [Next]_vars PROVE ChainInv'
    OBVIOUS
  <2>1. IInv'
    BY StepInv DEF ChainInv
  <2>2. CASE Next
    BY <2>1, <2>2, FactsStep, FollowedStep, ChainStep DEF ChainInv, IInv
  <2>3. CASE UNCHANGED vars
    BY <2>1, <2>3, ChainKept DEF ChainInv
  <2>. QED  BY <2>2, <2>3
<1>. QED  BY <1>1, <1>2, PTL DEF Spec

\* When everything has been handled, no server runs whose subscription is not
\* provisioned, whatever the webhook and the unprovisioning job did in between.
THEOREM ServersFollowRows ==
  ASSUME "hand" \notin Slow
  PROVE  Spec => []ServerFollowsRow
<1>1. ChainInv => ServerFollowsRow
  BY DEF ChainInv, Followed, ServerFollowsRow
<1>. QED  BY <1>1, ChainInvariant, PTL

\* At most one period is outstanding, for any number of charges.
THEOREM RenewalsAreSingle ==
  ASSUME "hand" \notin Slow
  PROVE  Spec => []OneRenewal
<1>1. ChainInv => OneRenewal
  BY DEF ChainInv, Chain, OneRenewal
<1>. QED  BY <1>1, ChainInvariant, PTL

\* At least one is, of a subscription that is provisioned.
THEOREM RenewalsGoOn ==
  ASSUME "hand" \notin Slow
  PROVE  Spec => []NextRenewal
<1>1. ChainInv => NextRenewal
  BY DEF ChainInv, Chain, NextRenewal
<1>. QED  BY <1>1, ChainInvariant, PTL

\* Who has cancelled is not charged again by a job that knew of it.
LEMMA StopIsHeard ==
  ASSUME TypeOK, Copies, Facts, Chain, Next, wish = "stop", disturbed' = {},
         NEW i \in Intents, intent[i].status = "none"
  PROVE  ~intent'[i].auto
<1> SUFFICES ASSUME intent'[i].auto PROVE FALSE
  OBVIOUS
<1>1. ~intent[i].auto
  BY DEF Facts
<1>2. PICK copy \in job.todo : row[copy.charge].status = copy.status
  <2>1. PICK copy \in job.todo, answer \in {"taken", "declined"}, failure \in BOOLEAN :
          Collect(copy, answer, failure)
    BY <1>1, AutoIsCollected
  <2>. QED  BY <2>1 DEF Collect, Overwritten, Copies
<1>3. copy.charge \in Charges /\ row[copy.charge].status \in {"open", "failed"}
  BY <1>2 DEF Copies
<1>4. disturbed = {}
  BY DisturbedLast
<1>5. PICK c \in Charges : row[c].status = "cancelled"
  BY <1>4 DEF Chain
<1>6. Settled
  BY <1>4 DEF Chain
<1>7. Outstanding(c) /\ Outstanding(copy.charge)
  BY <1>3, <1>5, <1>6, UnsettledIsOutstanding
<1>. QED  BY <1>3, <1>4, <1>5, <1>7 DEF Chain

\* Whoever has cancelled is not charged by the job, until the cancellation is taken back
\* or a charge is written regardless of the facts.
THEOREM CancelsAreRespected ==
  ASSUME "hand" \notin Slow
  PROVE  Spec => CancelIsRespected
<1>1. ChainInv /\ [Next]_vars =>
        [ \A i \in Intents :
            wish = "stop" /\ intent[i].status = "none" /\ intent'[i].auto =>
              disturbed' # {} ]_vars
  <2> SUFFICES ASSUME ChainInv, Next
               PROVE  \A i \in Intents :
                        wish = "stop" /\ intent[i].status = "none" /\ intent'[i].auto =>
                          disturbed' # {}
    OBVIOUS
  <2>. QED  BY StopIsHeard DEF ChainInv, IInv
<1>. QED  BY <1>1, ChainInvariant, PTL DEF Spec, CancelIsRespected

(***************************************************************************)
(* The refinement                                                           *)
(***************************************************************************)
Paid   == {c \in Charges : \E i \in Intents : Pays(i, c) /\ intent[i].status = "paid"}
Shown  == {c \in Charges : row[c].status = "succeeded"}
Period == {c \in Charges : Outstanding(c)}

\* A charge that was paid stays paid.
LEMMA PaidLast ==
  ASSUME TypeOK, Copies, Next
  PROVE  Paid \subseteq Paid'
<1>1. ASSUME NEW c \in Charges, NEW i \in Intents, Pays(i, c), intent[i].status = "paid"
      PROVE  Pays(i, c)' /\ intent'[i].status = "paid"
  BY <1>1, PaymentsLast DEF Pays
<1>. QED  BY <1>1 DEF Paid

\* Only Stripe makes a charge paid, one at a time.
LEMMA PaidSteps ==
  ASSUME TypeOK, Copies, Next
  PROVE  \/ Paid' = Paid
         \/ /\ \E i \in Intents : Settle(i)
            /\ \E c \in Charges : Paid' = Paid \cup {c}
<1> DEFINE Same == \A i \in Intents :
             intent'[i] = intent[i] \/ (intent[i].status # "paid" /\ intent'[i].status # "paid")
<1>0. ASSUME Same PROVE Paid' = Paid
  <2>1. \A c \in Charges, i \in Intents :
          Pays(i, c)' /\ intent'[i].status = "paid" <=> Pays(i, c) /\ intent[i].status = "paid"
    BY <1>0 DEF Pays
  <2>. QED  BY <2>1 DEF Paid
<1>1. ASSUME NEW c \in Charges, NEW type \in ChargeType, Offer(c, type) PROVE Same
  <2>1. /\ intent[FreshIntent].status = "none"
        /\ intent'[FreshIntent] =
             [charge |-> c, type |-> type, auto |-> FALSE, status |-> "offered"]
        /\ \A i \in Intents : i # FreshIntent => intent'[i] = intent[i]
    BY <1>1, OfferType
  <2>. QED  BY <2>1
<1>2. ASSUME NEW i \in Intents, Confirm(i) PROVE Same
  BY <1>2 DEF Confirm, TypeOK, Intent
<1>3. ASSUME NEW copy \in job.todo, NEW answer \in {"taken", "declined"},
             NEW failure \in BOOLEAN, Collect(copy, answer, failure)
      PROVE  Same
  <2>1. /\ intent[FreshIntent].status = "none"
        /\ intent'[FreshIntent] = [charge |-> copy.charge, type |-> "subscription",
                                   auto |-> TRUE, status |-> answer]
        /\ \A i \in Intents : i # FreshIntent => intent'[i] = intent[i]
    BY <1>3, CollectIntent
  <2>. QED  BY <2>1
<1>4. ASSUME NEW i \in Intents, Settle(i)
      PROVE  Paid' = Paid \/ \E c \in Charges : Paid' = Paid \cup {c}
  <2>1. /\ intent'[i].charge = intent[i].charge
        /\ \A j \in Intents \ {i} : intent'[j] = intent[j]
    BY <1>4 DEF Settle, TypeOK, Intent
  <2>2. \A c \in Charges : c # intent[i].charge => (c \in Paid' <=> c \in Paid)
    BY <2>1 DEF Paid, Pays
  <2>3. Paid \subseteq Paid' /\ Paid' \subseteq Charges
    BY PaidLast DEF Paid
  <2>4. CASE intent[i].charge \in Paid' /\ intent[i].charge \notin Paid
    <3>1. Paid' = Paid \cup {intent[i].charge} /\ intent[i].charge \in Charges
      BY <2>2, <2>3, <2>4
    <3>. QED  BY <3>1
  <2>5. CASE ~(intent[i].charge \in Paid' /\ intent[i].charge \notin Paid)
    BY <2>2, <2>3, <2>5
  <2>. QED  BY <2>4, <2>5
<1>5. intent' = intent => Same
  OBVIOUS
<1> HIDE DEF Same
<1>. QED  BY <1>0, <1>1, <1>2, <1>3, <1>4, <1>5, PaymentSteps

\* The webhook of a payment settles a charge that was paid: that of the period, which
\* is followed by another, or of an upgrade.
LEMMA PaymentRenews ==
  ASSUME TypeOK, Payments, Chain, disturbed = {}, disturbed' = {},
         NEW h \in hooks, Payment(h)
  PROVE  \E c, n \in Charges :
           /\ c \in Paid /\ Shown' = Shown \cup {c}
           /\ \/ Period = {c} \/ (Period = {} /\ Shown = {})
              \/ Period = {n} /\ c \notin Period
           /\ n \notin Shown' /\ Period' = {n}
<1>1. PICK b, n \in Charges :
        /\ b # n /\ row'[b].status = "succeeded"
        /\ \E i \in Intents : Pays(i, b) /\ intent[i].status = "paid"
        /\ Outstanding(n)' /\ row[n].status # "succeeded" /\ row'[n].status # "succeeded"
        /\ \A c \in Charges \ {b, n} : row'[c] = row[c]
        /\ Outstanding(n) \/ \A c \in Charges \ {b} : ~Outstanding(c)
  <2>1. Settled
    BY DEF Chain
  <2>. QED  BY <2>1, PaymentChain
<1>2. b \in Paid /\ Shown' = Shown \cup {b} /\ n \notin Shown'
  BY <1>1 DEF Paid, Shown
<1>3. Period' = {n}
  <2>1. ~Outstanding(b)'
    BY <1>1 DEF Outstanding, Unsettled
  <2>2. ASSUME NEW c \in Charges \ {b, n}, Outstanding(c)' PROVE FALSE
    <3>1. Outstanding(c)
      BY <1>1, <2>2 DEF Outstanding, Renewal, Unsettled
    <3>2. Outstanding(n)
      BY <1>1, <3>1
    <3>. QED  BY <3>1, <3>2 DEF Chain
  <2>. QED  BY <1>1, <2>1, <2>2 DEF Period
<1>4. CASE Outstanding(n)
  <2>1. Period = {n}
    BY <1>4 DEF Period, Chain
  <2>. QED  BY <1>1, <1>2, <1>3, <2>1
<1>5. CASE ~Outstanding(n)
  <2>1. \A c \in Charges \ {b} : ~Outstanding(c)
    BY <1>1, <1>5
  <2>2. CASE Outstanding(b)
    <3>1. Period = {b}
      BY <2>1, <2>2 DEF Period
    <3>. QED  BY <1>2, <1>3, <3>1
  <2>3. CASE ~Outstanding(b)
    <3>1. \A c \in Charges : ~Outstanding(c)
      BY <2>1, <2>3
    <3>2. Period = {} /\ Shown = {}
      BY <3>1 DEF Period, Shown, Chain
    <3>. QED  BY <1>2, <1>3, <3>2
  <2>. QED  BY <2>2, <2>3
<1>. QED  BY <1>4, <1>5

\* Every other step, but the gift of a first period, leaves the periods as they are.
LEMMA PeriodStays ==
  ASSUME TypeOK, Copies, Payments, ShownIsPaid, Facts, Chain, disturbed = {}, disturbed' = {},
         Next, ~ \E h \in hooks : Payment(h), ~Redeem
  PROVE  Shown' = Shown /\ Period' = Period
<1>1. \A c \in Charges : Kept(c) \/ Moved(c)
  BY ChainMoves DEF Chain
<1>2. ASSUME NEW c \in Charges
      PROVE  /\ row'[c].status = "succeeded" <=> row[c].status = "succeeded"
             /\ Outstanding(c)' <=> Outstanding(c)
  BY <1>1 DEF Kept, Moved, Outstanding, Renewal, Unsettled
<1>. QED  BY <1>2 DEF Shown, Period

\* A free trial is the first period.
LEMMA RedeemGives ==
  ASSUME TypeOK, Facts, Redeem
  PROVE  /\ intent' = intent /\ Shown' = Shown /\ Shown = {} /\ Period = {}
         /\ \E n \in Charges : Period' = {n}
<1>1. sub = "none" /\ Unused = Intents /\ FreshCharge \in Spare /\ intent' = intent
  BY FreshChargeIsSpare DEF Redeem
<1>2. \A c \in Charges : row[c].status = "none"
  BY <1>1 DEF Facts, Known
<1>3. PICK n \in Charges : n = FreshCharge
  BY <1>1 DEF Spare
<1>4. /\ row'[n].type = "subscription" /\ row'[n].status = "expiring"
      /\ \A c \in Charges \ {n} : row'[c] = row[c]
  BY <1>3 DEF Redeem, New, TypeOK
<1>5. Shown' = {} /\ Shown = {} /\ Period = {}
  BY <1>2, <1>4 DEF Shown, Period, Outstanding, Unsettled
<1>6. Outstanding(n)' /\ \A c \in Charges \ {n} : ~Outstanding(c)'
  BY <1>2, <1>4 DEF Outstanding, Renewal, Unsettled
<1>7. Period' = {n}
  BY <1>6 DEF Period
<1>. QED  BY <1>1, <1>5, <1>7

\* Every step is one of the abstract subscription, or none of its steps.
LEMMA SubscriptionStep ==
  ASSUME ChainInv, ChainInv', [Next]_vars
  PROVE  [S!SubscriptionNext]_(S!subscriptionVars)
<1> DEFINE Stutter == /\ Paid' = Paid /\ Shown' = Shown /\ Period' = Period
                      /\ (disturbed' # {}) = (disturbed # {})
<1>0. ASSUME Stutter PROVE [S!SubscriptionNext]_(S!subscriptionVars)
  BY <1>0 DEF S!subscriptionVars, Paid, Shown, Period
<1>1. CASE UNCHANGED vars
  <2>1. Stutter
    BY <1>1 DEF vars, Paid, Shown, Period, Pays, Outstanding, Renewal, Unsettled
  <2>. QED  BY <1>0, <2>1
<1>2. CASE Next /\ disturbed' # {}
  <2>1. Paid \subseteq Paid'
    BY <1>2, PaidLast DEF ChainInv, IInv
  <2>2. Shown' \subseteq Paid'
    BY DEF ChainInv, IInv, ShownIsPaid, Shown, Paid
  <2>3. Period' \subseteq Charges
    BY DEF Period
  <2>4. S!Stray
    BY <1>2, <2>1, <2>2, <2>3 DEF S!Stray, Paid, Shown, Period
  <2>. QED  BY <2>4 DEF S!SubscriptionNext
<1>3. CASE Next /\ disturbed' = {}
  <2>0. disturbed = {}
    BY <1>3, DisturbedLast
  <2>a. ASSUME NEW c \in Charges, S!Pay(c) \/ S!Give(c) \/ S!Renew(c) \/ S!Upgrade(c)
        PROVE  [S!SubscriptionNext]_(S!subscriptionVars)
    BY <1>3, <2>0, <2>a DEF S!SubscriptionNext
  <2>1. CASE Redeem
    <3>1. PICK n \in Charges : /\ intent' = intent /\ Shown' = Shown /\ Shown = {}
                               /\ Period = {} /\ Period' = {n}
      BY <2>1, RedeemGives DEF ChainInv, IInv
    <3>2. Paid' = Paid
      BY <3>1 DEF Paid, Pays
    <3>3. S!Give(n)
      BY <3>1, <3>2 DEF S!Give, Paid, Shown, Period
    <3>. QED  BY <2>a, <3>3
  <2>2. ASSUME NEW h \in hooks, Payment(h)
        PROVE  [S!SubscriptionNext]_(S!subscriptionVars)
    <3>1. PICK c, n \in Charges :
            /\ c \in Paid /\ Shown' = Shown \cup {c}
            /\ \/ Period = {c} \/ (Period = {} /\ Shown = {})
               \/ Period = {n} /\ c \notin Period
            /\ n \notin Shown' /\ Period' = {n}
      BY <1>3, <2>0, <2>2, PaymentRenews DEF ChainInv, IInv
    <3>2. Paid' = Paid
      BY <2>2 DEF Payment, Paid, Pays
    <3>3. S!Show(c)
      BY <3>1, <3>2 DEF S!Show, Paid, Shown
    <3>4. CASE Period = {c} \/ (Period = {} /\ Shown = {})
      <4>1. S!Renew(c)
        BY <3>1, <3>3, <3>4 DEF S!Renew, Shown, Period
      <4>. QED  BY <2>a, <4>1
    <3>5. CASE Period = {n} /\ c \notin Period
      <4>1. S!Upgrade(c)
        BY <3>1, <3>3, <3>5 DEF S!Upgrade, Period
      <4>. QED  BY <2>a, <4>1
    <3>. QED  BY <3>1, <3>4, <3>5
  <2>3. CASE ~Redeem /\ ~ \E h \in hooks : Payment(h)
    <3>1. Shown' = Shown /\ Period' = Period
      BY <1>3, <2>0, <2>3, PeriodStays DEF ChainInv, IInv
    <3>2. CASE Paid' = Paid
      <4>1. Stutter
        BY <1>3, <2>0, <3>1, <3>2
      <4>. QED  BY <1>0, <4>1
    <3>3. ASSUME NEW c \in Charges, Paid' = Paid \cup {c}
          PROVE  [S!SubscriptionNext]_(S!subscriptionVars)
      <4>1. CASE c \in Paid
        <5>1. Paid' = Paid
          BY <3>3, <4>1
        <5>. QED  BY <3>2, <5>1
      <4>2. CASE c \notin Paid
        <5>1. S!Pay(c)
          BY <3>1, <3>3, <4>2 DEF S!Pay, Paid, Shown, Period
        <5>. QED  BY <2>a, <5>1
      <4>. QED  BY <4>1, <4>2
    <3>. QED  BY <1>3, <3>2, <3>3, PaidSteps DEF ChainInv, IInv
  <2>. QED  BY <2>1, <2>2, <2>3
<1>. QED  BY <1>1, <1>2, <1>3

\* Before anything is bought nothing is paid, settled or outstanding.
LEMMA SubscriptionStart == Init => S!SubscriptionInit
<1> SUFFICES ASSUME Init PROVE S!SubscriptionInit
  OBVIOUS
<1>1. Paid = {} /\ Shown = {} /\ Period = {}
  BY DEF Init, Paid, Shown, Period, NoIntent, NoRow, New, Outstanding, Unsettled
<1>. QED  BY <1>1 DEF Init, S!SubscriptionInit, Paid, Shown, Period

\* The rows, payments and events of a subscription, seen as periods, are those of the
\* abstract one: one period follows another when it has been paid for, until a
\* charge is written regardless of the facts; and even then none is settled unpaid.
THEOREM SubscriptionRefinement ==
  ASSUME "hand" \notin Slow
  PROVE  Spec => ImplementsSubscription
<1>1. ChainInv /\ ChainInv' /\ [Next]_vars => [S!SubscriptionNext]_(S!subscriptionVars)
  BY SubscriptionStep
<1>. QED
  BY <1>1, ChainInvariant, SubscriptionStart, PTL
     DEF Spec, ImplementsSubscription, S!SubscriptionSpec
=============================================================================
