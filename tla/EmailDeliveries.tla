-------------------------- MODULE EmailDeliveries --------------------------
(***************************************************************************)
(* The queue of notification emails: EmailQueue::index of                   *)
(* labrinth/src/queue/email.rs, run by the background task of               *)
(* labrinth/src/background_task.rs over the rows of                         *)
(* labrinth/src/database/models/notifications_deliveries_item.rs.           *)
(*                                                                          *)
(* The rows are selected FOR UPDATE SKIP LOCKED, but on the pool and not in *)
(* a transaction: their locks end with that statement.  A worker then sends *)
(* the emails of its copies of the rows, and writes each copy back.         *)
(***************************************************************************)
EXTENDS FiniteSets, Naturals

CONSTANTS
  Workers,      \* runs of the mail task
  Deliveries,   \* rows of notifications_deliveries
  Limit,        \* rows to a batch
  MaxAttempts,  \* 3: a row attempted this often is given up
  Overlap,      \* whether a run starts while another is at work
  MaxMishaps    \* bound of the model on the workers that die, or leave early as
                \* an update fails, and on replies of the mail server that get lost

EmailAssumption ==
  /\ IsFiniteSet(Deliveries)
  /\ Limit \in Nat /\ Limit >= 1
  /\ MaxAttempts \in Nat /\ MaxAttempts >= 1
  /\ Overlap \in BOOLEAN
  /\ MaxMishaps \in Nat

VARIABLES
  row,     \* row[d]: the mutable columns of delivery d
  due,     \* deliveries whose next_attempt has come
  pc,      \* pc[w]: how far worker w is
  copy,    \* copy[w]: its copies of rows, by delivery
  batch,   \* batch[w]: the deliveries that it still has to write back
  result,  \* result[w]: what became of its emails so far
  tries,   \* history: how often each email was handed to the mail server
  sent,    \* history: how often the mail server accepted it
  mishaps  \* history: how many such mishaps there have been

workerVars == <<pc, copy, batch, result>>
history    == <<tries, sent, mishaps>>
vars       == <<row, due, workerVars, history>>

Final  == {"delivered", "skipped_preferences", "skipped_default", "permanently_failed"}
Status == {"pending"} \cup Final
Row    == [status : Status, attempts : 0..MaxAttempts]
Result == Status \cup {"none", "error"}

\* Bound of the model on the history counters.
Most == 2 * MaxAttempts + MaxMishaps
Count(n) == IF n < Most THEN n + 1 ELSE Most

TypeOK ==
  /\ row \in [Deliveries -> Row]
  /\ due \subseteq Deliveries
  /\ pc \in [Workers -> {"idle", "give up", "send", "postpone"}]
  /\ copy \in [Workers -> [Deliveries -> Row]]
  /\ batch \in [Workers -> SUBSET Deliveries]
  /\ result \in [Workers -> [Deliveries -> Result]]
  /\ tries \in [Deliveries -> 0..Most]
  /\ sent \in [Deliveries -> 0..Most]
  /\ mishaps \in 0..MaxMishaps

NoResult == [d \in Deliveries |-> "none"]

\* Rows are inserted pending and due at once.
Init ==
  /\ row = [d \in Deliveries |-> [status |-> "pending", attempts |-> 0]]
  /\ due = Deliveries
  /\ pc = [w \in Workers |-> "idle"]
  /\ copy = [w \in Workers |-> row]
  /\ batch = [w \in Workers |-> {}]
  /\ result = [w \in Workers |-> NoResult]
  /\ tries = [d \in Deliveries |-> 0]
  /\ sent = [d \in Deliveries |-> 0]
  /\ mishaps = 0

(***************************************************************************)
(* A worker                                                                 *)
(***************************************************************************)
Processable == {d \in due : row[d].status = "pending"}

\* lock_channel_processable: as many due rows as the limit allows.
Take(w) ==
  /\ pc[w] = "idle" /\ Processable # {}
  /\ Overlap \/ \A v \in Workers : pc[v] = "idle"
  /\ \E D \in SUBSET Processable :
       /\ D # {} /\ Cardinality(D) <= Limit
       /\ Cardinality(D) = Limit \/ D = Processable
       /\ batch' = [batch EXCEPT ![w] = D]
  /\ copy' = [copy EXCEPT ![w] = row]
  /\ result' = [result EXCEPT ![w] = NoResult]
  /\ pc' = [pc EXCEPT ![w] = "give up"]
  /\ UNCHANGED <<row, due, history>>

\* update writes the whole copy back, whatever the row has become.
WriteBack(w, d, r) == row' = [row EXCEPT ![d] = r]

Exhausted(w) == {d \in batch[w] : copy[w][d].attempts >= MaxAttempts}

\* Rows attempted too often are given up, one after the other.
GiveUp(w, d) ==
  /\ pc[w] = "give up" /\ d \in Exhausted(w)
  /\ WriteBack(w, d, [copy[w][d] EXCEPT !.status = "permanently_failed"])
  /\ due' = due \cup {d}
  /\ batch' = [batch EXCEPT ![w] = @ \ {d}]
  /\ UNCHANGED <<pc, copy, result, history>>

GivenUp(w) ==
  /\ pc[w] = "give up" /\ Exhausted(w) = {}
  /\ pc' = [pc EXCEPT ![w] = "send"]
  /\ UNCHANGED <<row, due, copy, batch, result, history>>

Answer(w, d, r) == result' = [result EXCEPT ![w][d] = r]

Unsent(w, d) == pc[w] = "send" /\ d \in batch[w] /\ result[w][d] = "none"

\* The user has no address, or the notification has no template.
Skip(w, d) ==
  /\ Unsent(w, d)
  /\ \E r \in {"skipped_preferences", "skipped_default"} : Answer(w, d, r)
  /\ UNCHANGED <<row, due, pc, copy, batch, history>>

BuildFails(w, d) ==
  /\ Unsent(w, d)
  /\ Answer(w, d, "error")
  /\ UNCHANGED <<row, due, pc, copy, batch, history>>

\* send_one_with_transport.  An error that is not permanent leaves the delivery
\* pending.
Send(w, d) ==
  /\ Unsent(w, d)
  /\ tries' = [tries EXCEPT ![d] = Count(@)]
  /\ \/ Answer(w, d, "delivered") /\ sent' = [sent EXCEPT ![d] = Count(@)]
     \/ Answer(w, d, "permanently_failed") /\ UNCHANGED sent
     \/ Answer(w, d, "pending") /\ UNCHANGED sent
  /\ UNCHANGED <<row, due, pc, copy, batch, mishaps>>

Mishap == mishaps < MaxMishaps /\ mishaps' = mishaps + 1

\* The mail server accepts the email, and its reply is lost.
SendUnheard(w, d) ==
  /\ Unsent(w, d)
  /\ Mishap
  /\ tries' = [tries EXCEPT ![d] = Count(@)]
  /\ sent' = [sent EXCEPT ![d] = Count(@)]
  /\ Answer(w, d, "pending")
  /\ UNCHANGED <<row, due, pc, copy, batch>>

\* Mutation: the attempt is not counted when the delivery stays pending.
RecordUncounted(w, d) ==
  /\ pc[w] = "send" /\ d \in batch[w] /\ result[w][d] \in Status
  /\ WriteBack(w, d, [status |-> result[w][d],
       attempts |-> copy[w][d].attempts + (IF result[w][d] = "pending" THEN 0 ELSE 1)])
  /\ due' \in {due, due \cup {d}}
  /\ batch' = [batch EXCEPT ![w] = @ \ {d}]
  /\ UNCHANGED <<pc, copy, result, history>>

\* The result of an email is written while others are still being sent.  A
\* pending delivery is put off by ten seconds, counted from its last due time:
\* it may be due still.
Record(w, d) ==
  /\ pc[w] = "send" /\ d \in batch[w] /\ result[w][d] \in Status
  /\ WriteBack(w, d, [status |-> result[w][d], attempts |-> copy[w][d].attempts + 1])
  /\ \/ due' = due \cup {d}
     \/ result[w][d] = "pending" /\ due' = due \ {d}
  /\ batch' = [batch EXCEPT ![w] = @ \ {d}]
  /\ UNCHANGED <<pc, copy, result, history>>

AllAnswered(w) ==
  /\ pc[w] = "send"
  /\ \A d \in batch[w] : result[w][d] = "error"
  /\ pc' = [pc EXCEPT ![w] = "postpone"]
  /\ UNCHANGED <<row, due, copy, batch, result, history>>

\* What could not be built is put off, and not counted as an attempt.
Postpone(w, d) ==
  /\ pc[w] = "postpone" /\ d \in batch[w]
  /\ WriteBack(w, d, copy[w][d])
  /\ due' = due \ {d}
  /\ batch' = [batch EXCEPT ![w] = @ \ {d}]
  /\ UNCHANGED <<pc, copy, result, history>>

Forget(w) ==
  /\ pc' = [pc EXCEPT ![w] = "idle"]
  /\ batch' = [batch EXCEPT ![w] = {}]
  /\ copy' = [copy EXCEPT ![w] = [d \in Deliveries |-> [status |-> "pending", attempts |-> 0]]]
  /\ result' = [result EXCEPT ![w] = NoResult]
  /\ UNCHANGED <<row, due, tries, sent>>

Finish(w) == pc[w] = "postpone" /\ batch[w] = {} /\ Forget(w) /\ UNCHANGED mishaps

\* The worker dies, or an update fails: emails on their way are not recorded.
Stop(w) ==
  /\ pc[w] # "idle"
  /\ Mishap
  /\ Forget(w)

(***************************************************************************)

BecomeDue(d) ==
  /\ d \notin due
  /\ due' = due \cup {d}
  /\ UNCHANGED <<row, workerVars, history>>

Work(w) ==
  \/ Take(w) \/ GivenUp(w) \/ AllAnswered(w) \/ Finish(w)
  \/ \E d \in Deliveries :
       GiveUp(w, d) \/ Skip(w, d) \/ Send(w, d) \/ Record(w, d) \/ Postpone(w, d)

Settled == \A d \in Deliveries : row[d].status \in Final

Next ==
  \/ \E w \in Workers :
       \/ Work(w)
       \/ \E d \in Deliveries : BuildFails(w, d) \/ SendUnheard(w, d)
       \/ Stop(w)
  \/ \E d \in Deliveries : BecomeDue(d)
  \/ Settled /\ (\A w \in Workers : pc[w] = "idle") /\ UNCHANGED vars

Spec == Init /\ [][Next]_vars

\* The task is run again and again, runs to its end, and time passes; an email
\* does not fail to build every time.
Fairness ==
  /\ \A w \in Workers : WF_vars(Work(w))
  /\ \A d \in Deliveries :
       WF_vars(BecomeDue(d)) /\ SF_vars(\E w \in Workers : Send(w, d))

(***************************************************************************)
(* Properties                                                               *)
(***************************************************************************)

\* email.rs:177: "We hold a FOR UPDATE lock on the rows here, so no other workers
\* are accessing them at the same time."
NoOtherWorker ==
  \A v, w \in Workers : v # w => batch[v] \cap batch[w] = {}

\* Attempts are counted, and an email is not sent again once it was accepted.
\* Each worker that stops before it records them, and each lost reply, makes for
\* at most one attempt and one acceptance more.
TriesAreCounted ==
  \A d \in Deliveries :
    tries[d] <= MaxAttempts + mishaps /\ sent[d] <= 1 + mishaps

\* Every delivery is settled in the end, and for good, though its email may fail to
\* build and workers may stop.
EveryDeliverySettles == <>[]Settled
=============================================================================
