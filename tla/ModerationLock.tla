--------------------------- MODULE ModerationLock ---------------------------
(***************************************************************************)
(* The lock a moderator takes on a project under review:                    *)
(* labrinth/src/database/models/moderation_lock_item.rs, the endpoints of   *)
(* labrinth/src/routes/internal/moderation/mod.rs, and the check that       *)
(* project_edit makes before a review is completed                          *)
(* (labrinth/src/routes/v3/projects.rs).                                    *)
(*                                                                          *)
(* The statements of a request run on the pool, one by one and outside any  *)
(* transaction.  One project: locks on different projects are independent.  *)
(***************************************************************************)
EXTENDS Naturals

CONSTANTS
  Moderators,
  None,         \* nobody: the lock's row is absent
  Expiry,       \* LOCK_EXPIRY_MINUTES, in ticks of the model's clock
  Interleaved   \* whether other requests run between a request's statements

LockAssumption ==
  /\ None \notin Moderators
  /\ Expiry \in Nat /\ Expiry >= 1
  /\ Interleaved \in BOOLEAN

VARIABLES
  owner,    \* moderator_id of the row, or None
  age,      \* how long ago the row's locked_at was
  pc,       \* pc[m]: the request of m that is between two statements
  seen,     \* seen[m]: the lock that request has read
  grant,    \* grant[m]: how long ago m was told it has the lock; Expiry: not, or
            \* no longer
  status,   \* the project's status
  away      \* moderators that have left for good

vars == <<owner, age, pc, seen, grant, status, away>>

Lock    == [owner : Moderators \cup {None}, expired : BOOLEAN]
Current == [owner |-> owner, expired |-> age >= Expiry]

TypeOK ==
  /\ owner \in Moderators \cup {None}
  /\ age \in 0..Expiry
  /\ pc \in [Moderators -> {"idle", "acquire", "decide"}]
  /\ seen \in [Moderators -> Lock]
  /\ grant \in [Moderators -> 0..Expiry]
  /\ status \in {"processing", "reviewed"}
  /\ away \subseteq Moderators

Init ==
  /\ owner = None
  /\ age = 0
  /\ pc = [m \in Moderators |-> "idle"]
  /\ seen = [m \in Moderators |-> [owner |-> None, expired |-> FALSE]]
  /\ grant = [m \in Moderators |-> Expiry]
  /\ status = "processing"
  /\ away = {}

\* Moderator m may send a request, and its next statement may run.
Ready(m, at) ==
  /\ pc[m] = at
  /\ at = "idle" => m \notin away
  /\ Interleaved \/ \A n \in Moderators \ {m} : pc[n] = "idle"

(***************************************************************************)
(* DBModerationLock::acquire                                                *)
(***************************************************************************)

\* It reads the lock, and answers at once if another moderator has it.
ReadLock(m) ==
  /\ Ready(m, "idle")
  /\ IF owner \in {None, m} \/ age >= Expiry
       THEN /\ pc' = [pc EXCEPT ![m] = "acquire"]
            /\ seen' = [seen EXCEPT ![m] = Current]
            /\ UNCHANGED grant
       ELSE /\ grant' = [grant EXCEPT ![m] = Expiry]
            /\ UNCHANGED <<pc, seen>>
  /\ UNCHANGED <<owner, age, status, away>>

\* It writes what the lock it has read calls for.  The refresh of its own lock
\* and the take-over of an expired one are UPDATEs of whatever row is there; the
\* INSERT replaces a row that has come up since.
WriteLock(m) ==
  /\ Ready(m, "acquire")
  /\ IF seen[m].owner # None /\ owner = None
       THEN UNCHANGED <<owner, age>>
       ELSE /\ owner' = IF seen[m].owner = m THEN owner ELSE m
            /\ age' = 0
  /\ grant' = [grant EXCEPT ![m] = 0]
  /\ pc' = [pc EXCEPT ![m] = "idle"]
  /\ UNCHANGED <<seen, status, away>>

Acquire(m) == ReadLock(m) \/ WriteLock(m)

(***************************************************************************)
(* release, delete_all, and cleanup_expired, which follows every release    *)
(***************************************************************************)
Delete ==
  owner' = None /\ age' = 0

\* Mutation: release deletes the lock of whoever has it.
ReleaseAny(m) ==
  /\ Ready(m, "idle")
  /\ Delete
  /\ grant' = [grant EXCEPT ![m] = Expiry]
  /\ UNCHANGED <<pc, seen, status, away>>

Release(m) ==
  /\ Ready(m, "idle")
  /\ IF owner = m \/ age >= Expiry THEN Delete ELSE UNCHANGED <<owner, age>>
  /\ grant' = [grant EXCEPT ![m] = Expiry]
  /\ UNCHANGED <<pc, seen, status, away>>

\* An administrator overrides everybody.
DeleteAll ==
  /\ Interleaved \/ \A m \in Moderators : pc[m] = "idle"
  /\ Delete
  /\ grant' = [m \in Moderators |-> Expiry]
  /\ UNCHANGED <<pc, seen, status, away>>

(***************************************************************************)
(* project_edit by a moderator: completing a review                         *)
(***************************************************************************)

\* Mutation: the check does not ask whose the lock is.
CheckNothing(m) ==
  /\ Ready(m, "idle")
  /\ status = "processing"
  /\ pc' = [pc EXCEPT ![m] = "decide"]
  /\ UNCHANGED <<owner, age, seen, grant, status, away>>

\* The lock is read when the request is checked...
CheckLock(m) ==
  /\ Ready(m, "idle")
  /\ status = "processing"
  /\ owner \in {None, m} \/ age >= Expiry
  /\ pc' = [pc EXCEPT ![m] = "decide"]
  /\ UNCHANGED <<owner, age, seen, grant, status, away>>

\* ...and the status is written later, whatever became of the lock.
Decide(m) ==
  /\ Ready(m, "decide")
  /\ status' = "reviewed"
  /\ pc' = [pc EXCEPT ![m] = "idle"]
  /\ UNCHANGED <<owner, age, seen, grant, away>>

Resubmit ==
  /\ status = "reviewed"
  /\ status' = "processing"
  /\ UNCHANGED <<owner, age, pc, seen, grant, away>>

(***************************************************************************)

Older(a) == IF a < Expiry THEN a + 1 ELSE Expiry

Tick ==
  /\ age' = IF owner = None THEN 0 ELSE Older(age)
  /\ grant' = [m \in Moderators |-> Older(grant[m])]
  /\ UNCHANGED <<owner, pc, seen, status, away>>

Leave(m) ==
  /\ pc[m] = "idle"
  /\ away' = away \cup {m}
  /\ UNCHANGED <<owner, age, pc, seen, grant, status>>

Next ==
  \/ \E m \in Moderators :
       Acquire(m) \/ Release(m) \/ CheckLock(m) \/ Decide(m) \/ Leave(m)
  \/ DeleteAll
  \/ Resubmit
  \/ Tick

Spec == Init /\ [][Next]_vars

\* Time passes, requests end, and a moderator who has not left asks for the lock
\* again and again.
Fairness ==
  /\ WF_vars(Tick)
  /\ \A m \in Moderators : /\ SF_vars(ReadLock(m))
                          /\ WF_vars(WriteLock(m)) /\ WF_vars(Decide(m))

(***************************************************************************)
(* Properties                                                               *)
(***************************************************************************)

Granted(m) == grant[m] < Expiry

\* acquire answers with the lock "if blocked by another moderator"
\* (moderation_lock_item.rs:39): no two moderators have been told, within its
\* expiry, that the lock is theirs.
MutualExclusion ==
  \A m, n \in Moderators : Granted(m) /\ Granted(n) => m = n

\* A review is completed by nobody while another moderator has the lock
\* (the check of project_edit).
ReviewsRespectLock ==
  [][ \A m \in Moderators :
        pc[m] = "decide" /\ pc'[m] = "idle" =>
          \A n \in Moderators \ {m} : ~Granted(n) ]_vars

=============================================================================
