----------------------------- MODULE Redeemals -----------------------------
(***************************************************************************)
(* An offer that a user may redeem once, for a server free of charge:       *)
(* labrinth/src/routes/internal/medal.rs (redeem),                          *)
(* labrinth/src/database/models/users_redeemals.rs, and                     *)
(* labrinth/src/queue/billing.rs (try_process_user_redeemal, and            *)
(* process_redeemals, a part of index_subscriptions).                       *)
(*                                                                          *)
(* Requests and runs of the job claim a redeemal, ask Archon for a server,  *)
(* and only then write down whose it is.  One user and one offer: a row is  *)
(* named by the request that inserts it.  That the product and its price    *)
(* exist is assumed.                                                        *)
(***************************************************************************)
EXTENDS Naturals

CONSTANTS
  Requests,   \* requests to redeem the offer, all of one user
  Runs,       \* runs of index_subscriptions that may overlap
  None,       \* no redeemal
  MaxMishaps  \* attempts that fail or are taken for stuck while they are not

RedeemalsAssumption ==
  Requests \cap Runs = {} /\ None \notin Requests /\ MaxMishaps \in Nat

VARIABLES
  status,   \* status[r]: the column of the row, or "none"
  old,      \* old[r]: the last attempt was more than five minutes ago
  at,       \* at[a]: where a request or a run is
  of,       \* of[a]: the redeemal it has claimed
  todo,     \* todo[w]: the redeemals a run has read and not tried
  servers,  \* servers[r]: how many Archon has created
  subs,     \* subs[r]: the subscriptions inserted
  rescued,  \* history, rescued[r]: how often it was taken for stuck
  hasty,    \* history, hasty[r]: once while the attempt was going on
  mishaps

rows    == <<status, old>>
control == <<at, of, todo>>
given   == <<servers, subs>>
vars    == <<rows, control, given, rescued, hasty, mishaps>>

Actors == Requests \cup Runs

\* The type of the state.
TypeOK ==
  /\ status \in [Requests -> {"none", "pending", "processing", "processed"}]
  /\ old \in [Requests -> BOOLEAN]
  /\ at \in [Actors -> {"idle", "checked", "list", "claim", "create", "commit", "done"}]
  /\ of \in [Actors -> Requests \cup {None}]
  /\ todo \in [Runs -> SUBSET Requests]
  /\ servers \in [Requests -> Nat]
  /\ subs \in [Requests -> Nat]
  /\ rescued \in [Requests -> Nat]
  /\ hasty \in [Requests -> BOOLEAN]
  /\ mishaps \in 0..MaxMishaps

Init ==
  /\ status = [r \in Requests |-> "none"]
  /\ old = [r \in Requests |-> FALSE]
  /\ at = [a \in Actors |-> "idle"]
  /\ of = [a \in Actors |-> None]
  /\ todo = [w \in Runs |-> {}]
  /\ servers = [r \in Requests |-> 0]
  /\ subs = [r \in Requests |-> 0]
  /\ rescued = [r \in Requests |-> 0]
  /\ hasty = [r \in Requests |-> FALSE]
  /\ mishaps = 0

\* The attempt is over: a run goes on with the next redeemal.
Returns(a) ==
  /\ at' = [at EXCEPT ![a] = IF a \in Runs THEN "claim" ELSE "done"]
  /\ of' = [of EXCEPT ![a] = None]

Mishap == mishaps < MaxMishaps /\ mishaps' = mishaps + 1

(***************************************************************************)
(* redeem                                                                   *)
(***************************************************************************)

\* The transaction reads whether the user has a redeemal...
Check(q) ==
  /\ at[q] = "idle"
  /\ at' = [at EXCEPT ![q] =
       IF \E r \in Requests : status[r] # "none" THEN "done" ELSE "checked"]
  /\ UNCHANGED <<rows, of, todo, given, rescued, hasty, mishaps>>

\* ...inserts one, and commits.  Nothing in the table makes it unique.
Insert(q) ==
  /\ at[q] = "checked"
  /\ status' = [status EXCEPT ![q] = "pending"]
  /\ at' = [at EXCEPT ![q] = "claim"]
  /\ UNCHANGED <<old, of, todo, given, rescued, hasty, mishaps>>

(***************************************************************************)
(* process_redeemals                                                        *)
(***************************************************************************)
Stuck == {r \in Requests : status[r] = "processing" /\ old[r]}

Attempted(r) == \E a \in Actors : of[a] = r

\* Mutation: the redeemals that are stuck are left alone.
RescueNone(w) ==
  /\ at[w] = "idle"
  /\ at' = [at EXCEPT ![w] = "list"]
  /\ UNCHANGED <<rows, of, todo, given, rescued, hasty, mishaps>>

\* Mutation: a status that nothing selects.
RescueMisspelt(w) ==
  /\ at[w] = "idle"
  /\ status' = [r \in Requests |-> IF r \in Stuck THEN "stuck" ELSE status[r]]
  /\ rescued' = [r \in Requests |-> rescued[r] + (IF r \in Stuck THEN 1 ELSE 0)]
  /\ hasty' = hasty
  /\ at' = [at EXCEPT ![w] = "list"]
  /\ UNCHANGED <<old, of, todo, given, mishaps>>

\* update_stuck_5_minutes
Rescue(w) ==
  /\ at[w] = "idle"
  /\ status' = [r \in Requests |-> IF r \in Stuck THEN "pending" ELSE status[r]]
  /\ rescued' = [r \in Requests |-> rescued[r] + (IF r \in Stuck THEN 1 ELSE 0)]
  /\ hasty' = [r \in Requests |-> hasty[r] \/ (r \in Stuck /\ Attempted(r))]
  /\ at' = [at EXCEPT ![w] = "list"]
  /\ UNCHANGED <<old, of, todo, given, mishaps>>

\* get_pending
List(w) ==
  /\ at[w] = "list"
  /\ todo' = [todo EXCEPT ![w] = {r \in Requests : status[r] = "pending"}]
  /\ at' = [at EXCEPT ![w] = "claim"]
  /\ UNCHANGED <<rows, of, given, rescued, hasty, mishaps>>

RunEnds(w) ==
  /\ at[w] = "claim" /\ todo[w] = {}
  /\ at' = [at EXCEPT ![w] = "idle"]
  /\ UNCHANGED <<rows, of, todo, given, rescued, hasty, mishaps>>

(***************************************************************************)
(* try_process_user_redeemal                                                *)
(***************************************************************************)
Tries(a, r) ==
  /\ at[a] = "claim"
  /\ IF a \in Runs THEN r \in todo[a] /\ todo' = [todo EXCEPT ![a] = @ \ {r}]
                   ELSE r = a /\ UNCHANGED todo

\* Mutation: claimed whatever its status has become.
ClaimAnyway(a, r) ==
  /\ Tries(a, r)
  /\ status' = [status EXCEPT ![r] = "processing"]
  /\ old' = [old EXCEPT ![r] = FALSE]
  /\ at' = [at EXCEPT ![a] = "create"]
  /\ of' = [of EXCEPT ![a] = r]
  /\ UNCHANGED <<given, rescued, hasty, mishaps>>

\* update_status_if_pending
Claim(a, r) ==
  /\ Tries(a, r)
  /\ \/ /\ status[r] = "pending"
        /\ status' = [status EXCEPT ![r] = "processing"]
        /\ old' = [old EXCEPT ![r] = FALSE]
        /\ at' = [at EXCEPT ![a] = "create"]
        /\ of' = [of EXCEPT ![a] = r]
     \/ status[r] # "pending" /\ Returns(a) /\ UNCHANGED rows
  /\ UNCHANGED <<given, rescued, hasty, mishaps>>

\* create_server
Create(a) ==
  /\ at[a] = "create"
  /\ servers' = [servers EXCEPT ![of[a]] = @ + 1]
  /\ at' = [at EXCEPT ![a] = "commit"]
  /\ UNCHANGED <<rows, of, todo, subs, rescued, hasty, mishaps>>

\* Mutation: the redeemal is not marked.
CommitForgets(a) ==
  /\ at[a] = "commit"
  /\ subs' = [subs EXCEPT ![of[a]] = @ + 1]
  /\ Returns(a)
  /\ UNCHANGED <<rows, todo, servers, rescued, hasty, mishaps>>

\* The whole row is written back, whatever it has become.
Commit(a) ==
  /\ at[a] = "commit"
  /\ subs' = [subs EXCEPT ![of[a]] = @ + 1]
  /\ status' = [status EXCEPT ![of[a]] = "processed"]
  /\ old' = [old EXCEPT ![of[a]] = FALSE]
  /\ Returns(a)
  /\ UNCHANGED <<todo, servers, rescued, hasty, mishaps>>

\* Archon refuses, or the transaction fails.
Fail(a) ==
  /\ of[a] # None /\ Mishap
  /\ Returns(a)
  /\ UNCHANGED <<rows, todo, given, rescued, hasty>>

\* Archon's answer is lost.
LosesAnswer(a) ==
  /\ at[a] = "create" /\ Mishap
  /\ servers' = [servers EXCEPT ![of[a]] = @ + 1]
  /\ Returns(a)
  /\ UNCHANGED <<rows, todo, subs, rescued, hasty>>

\* The process is killed.
Dies(a) ==
  /\ at[a] \notin {"idle", "done"} /\ Mishap
  /\ at' = [at EXCEPT ![a] = IF a \in Runs THEN "idle" ELSE "done"]
  /\ of' = [of EXCEPT ![a] = None]
  /\ todo' = [w \in Runs |-> IF w = a THEN {} ELSE todo[w]]
  /\ UNCHANGED <<rows, given, rescued, hasty>>

\* Five minutes pass, it may be before Archon has answered.
Ages(r) ==
  /\ status[r] = "processing" /\ ~old[r]
  /\ IF Attempted(r) THEN Mishap ELSE UNCHANGED mishaps
  /\ old' = [old EXCEPT ![r] = TRUE]
  /\ UNCHANGED <<status, control, given, rescued, hasty>>

(***************************************************************************)

Attempt(a) == (\E r \in Requests : Claim(a, r)) \/ Create(a) \/ Commit(a)

Run(w) == Rescue(w) \/ List(w) \/ Attempt(w) \/ RunEnds(w)

Next ==
  \/ \E q \in Requests : Check(q) \/ Insert(q) \/ Attempt(q)
  \/ \E w \in Runs : Run(w)
  \/ \E a \in Actors : Fail(a) \/ LosesAnswer(a) \/ Dies(a)
  \/ \E r \in Requests : Ages(r)

Spec == Init /\ [][Next]_vars

\* index_subscriptions runs again and again, an attempt goes on unless its process
\* dies, and time passes.
Fairness ==
  /\ \A w \in Runs : WF_vars(Run(w))
  /\ \A q \in Requests : WF_vars(Attempt(q))
  /\ \A r \in Requests : WF_vars(Ages(r))

(***************************************************************************)
(* Properties                                                               *)
(***************************************************************************)

\* However many requests and runs try a redeemal, it costs one server, and one
\* more each time it is taken for stuck.
ServersAreCounted == \A r \in Requests : servers[r] <= 1 + rescued[r]

\* Nobody gets two subscriptions for one redeemal, failures and retries included,
\* unless one was taken for stuck while the attempt was going on.
OneSubscription == \A r \in Requests : subs[r] <= 1 \/ hasty[r]

\* Every redeemal that has been inserted is processed in the end, and for good,
\* whoever died.
EveryRedeemalEnds == <>[](\A r \in Requests : status[r] \in {"none", "processed"})
=============================================================================
