------------------------------ MODULE Projects ------------------------------
(***************************************************************************)
(* The status of one project (routes/v3/projects.rs), which is changed by   *)
(* requests of its members and of moderators, by AutoMod, which looks at    *)
(* what is submitted (queue/moderation.rs), by the technical review         *)
(* (tech_review.rs) and by the release of scheduled projects.  Requests     *)
(* judge by the project they read first, which may come from the cache.     *)
(* Reading through the cache is one step here; CacheLock has its races.     *)
(***************************************************************************)
CONSTANTS
  Edits,        \* requests that run at a time
  Moderators,   \* those of them that are made by moderators
  Statuses      \* the statuses that occur

\* is_approved, can_be_requested
Approved    == {"approved", "archived", "unlisted", "private"} \cap Statuses
Requestable == Approved \cup ({"draft"} \cap Statuses)

ProjectsAssumption ==
  /\ Moderators \subseteq Edits
  /\ {"draft", "processing", "approved", "rejected", "scheduled"} \subseteq Statuses

VARIABLES
  status,
  cached,      \* the status of the project in the cache, or "none"
  edit,        \* edit[e]: the step of a request, the status it read (that matters of
               \* members' requests only), the one it sets
  review,      \* the transaction of the technical review: "idle", "written", "cleared"
  queue,       \* the project is in AutomatedModerationQueue
  bot,         \* the step of AutoMod, and whether it has taken the project
  word,        \* history: what those who moderate last made of the project, or
               \* "hasty": a member's request has since approved what it had not read
  owed         \* history: a submission not looked at: "no", "yes", or "lost" when it
               \* was removed from the queue unseen

history  == <<word, owed>>
vars     == <<status, cached, edit, review, queue, bot, history>>

NoEdit == [step |-> "idle", seen |-> "none", wants |-> "none"]
Idle   == [step |-> "idle", taken |-> FALSE]

\* A project is created as a draft or submitted, without AutoMod.
Init ==
  /\ status \in {"draft", "processing"}
  /\ cached = "none"
  /\ edit = [e \in Edits |-> NoEdit]
  /\ review = "idle" /\ queue = FALSE /\ bot = Idle
  /\ word = "none" /\ owed = "no"

Shown == IF cached = "none" THEN status ELSE cached

\* The technical review holds the lock of the project's row until it commits.
Free == review = "idle"

\* What a decision of those who moderate says.
WordOf(s) == IF s \in Approved \cup {"scheduled"} THEN "approved" ELSE "refused"

(***************************************************************************)
(* project_edit: the project is read, the change is checked, written and    *)
(* committed; then the cache is cleared.                                    *)
(***************************************************************************)

\* Mutation: what has not been approved may be changed like what has.
PermittedAlways(e, seen, s) ==
  \/ e \in Moderators
  \/ s = "processing"
  \/ s \in Requestable

Permitted(e, seen, s) ==
  \/ e \in Moderators
  \/ seen \notin Approved /\ s = "processing"
  \/ seen \in Approved /\ s \in Requestable

\* What is submitted is entered in the queue before it is committed.
Check(e, s) ==
  /\ edit[e].step = "idle"
  /\ Permitted(e, Shown, s)
  /\ cached' = Shown
  /\ edit' = [edit EXCEPT ![e] =
       [step |-> "write", seen |-> IF e \in Moderators THEN "none" ELSE Shown, wants |-> s]]
  /\ queue' = (queue \/ s = "processing")
  /\ owed' = IF s = "processing" THEN "yes" ELSE owed
  /\ UNCHANGED <<status, review, bot, word>>

Write(e) ==
  LET s == edit[e].wants
  IN /\ edit[e].step = "write" /\ Free
     /\ status' = s
     /\ word' = IF e \in Moderators THEN WordOf(s)
                ELSE IF s \in Approved /\ word # "approved" /\ edit[e].seen # status
                     THEN "hasty" ELSE word
     /\ edit' = [edit EXCEPT ![e].step = "clear"]
     /\ UNCHANGED <<cached, review, queue, bot, owed>>

Clear(e) ==
  /\ edit[e].step = "clear"
  /\ cached' = "none"
  /\ edit' = [edit EXCEPT ![e] = NoEdit]
  /\ UNCHANGED <<status, review, queue, bot, history>>

\* An error before the commit leaves the queue as it is, one of Redis the cache.
EditFails(e) ==
  /\ edit[e].step \in {"write", "clear"}
  /\ edit' = [edit EXCEPT ![e] = NoEdit]
  /\ UNCHANGED <<status, cached, review, queue, bot, history>>

\* A version that is added to a submitted project has it looked at again.
AddVersion ==
  /\ status = "processing"
  /\ cached' = "none"
  /\ queue' = TRUE /\ owed' = "yes"
  /\ UNCHANGED <<status, edit, review, bot, word>>

(***************************************************************************)
(* AutoMod                                                                  *)
(***************************************************************************)

\* Mutation: the queue is emptied before it is copied.
TakeNone ==
  /\ bot.step = "idle"
  /\ queue' = FALSE
  /\ bot' = [step |-> "empty", taken |-> FALSE]
  /\ UNCHANGED <<status, cached, edit, review, history>>

Take ==
  /\ bot.step = "idle"
  /\ bot' = [step |-> "empty", taken |-> queue]
  /\ UNCHANGED <<status, cached, edit, review, queue, history>>

\* What was entered after the queue was copied goes too.
Empty ==
  /\ bot.step = "empty"
  /\ queue' = FALSE
  /\ owed' = IF queue /\ ~bot.taken /\ owed = "yes" THEN "lost" ELSE owed
  /\ bot' = IF bot.taken THEN [bot EXCEPT !.step = "read"] ELSE Idle
  /\ UNCHANGED <<status, cached, edit, review, word>>

\* What it looks at need not be the version that was submitted.
Read ==
  /\ bot.step = "read"
  /\ cached' = Shown
  /\ owed' = "no"
  /\ bot' = [bot EXCEPT !.step = "judge"]
  /\ UNCHANGED <<status, edit, review, queue, word>>

\* Nothing to object to, no reason to reject, or an error.
Pass ==
  /\ bot.step \in {"read", "judge", "clear"}
  /\ bot' = Idle
  /\ owed' = "no"
  /\ UNCHANGED <<status, cached, edit, review, queue, word>>

\* Whatever the status is by now.
Reject ==
  /\ bot.step = "judge" /\ Free
  /\ status' = "rejected"
  /\ word' = "refused"
  /\ bot' = [bot EXCEPT !.step = "clear"]
  /\ UNCHANGED <<cached, edit, review, queue, owed>>

BotClears ==
  /\ bot.step = "clear"
  /\ cached' = "none"
  /\ bot' = Idle
  /\ UNCHANGED <<status, edit, review, queue, history>>

AutoMod == Take \/ Empty \/ Read \/ Pass \/ Reject \/ BotClears

(***************************************************************************)
(* The technical review finds the project unsafe.  The cache is cleared     *)
(* before the transaction is committed.                                     *)
(***************************************************************************)

ReviewWrites ==
  /\ review = "idle"
  /\ review' = "written"
  /\ UNCHANGED <<status, cached, edit, queue, bot, history>>

ReviewClears ==
  /\ review = "written"
  /\ review' = "cleared"
  /\ cached' = "none"
  /\ UNCHANGED <<status, edit, queue, bot, history>>

ReviewCommits ==
  /\ review = "cleared"
  /\ review' = "idle"
  /\ status' = "rejected"
  /\ word' = "refused"
  /\ UNCHANGED <<cached, edit, queue, bot, owed>>

ReviewFails ==
  /\ review # "idle"
  /\ review' = "idle"
  /\ UNCHANGED <<status, cached, edit, queue, bot, history>>

Review == ReviewWrites \/ ReviewClears \/ ReviewCommits \/ ReviewFails

(***************************************************************************)
(* The clock, and a process that dies                                       *)
(***************************************************************************)

\* The status that is requested may be changed at any time, and a project that was
\* not approved before is not released.  "TODO: Clear cache when these are run"
ReleaseScheduled ==
  /\ status = "scheduled" /\ Free
  /\ status' \in Requestable
  /\ UNCHANGED <<cached, edit, review, queue, bot, history>>

\* Of the cache; or another request reads the project.
Expire ==
  /\ cached' \in {"none", Shown}
  /\ UNCHANGED <<status, edit, review, queue, bot, history>>

\* The queue is kept in memory.
Dies ==
  /\ edit' = [e \in Edits |-> NoEdit]
  /\ review' = "idle" /\ queue' = FALSE /\ bot' = Idle
  /\ owed' = IF owed = "yes" THEN "lost" ELSE owed
  /\ UNCHANGED <<status, cached, word>>

Next ==
  \/ \E e \in Edits, s \in Statuses : Check(e, s)
  \/ \E e \in Edits : Write(e) \/ Clear(e) \/ EditFails(e)
  \/ AddVersion
  \/ AutoMod
  \/ Review
  \/ ReleaseScheduled \/ Expire \/ Dies

Spec == Init /\ [][Next]_vars

(***************************************************************************)
(* Properties                                                               *)
(***************************************************************************)

TypeOK ==
  /\ status \in Statuses
  /\ cached \in Statuses \cup {"none"}
  /\ edit \in [Edits -> [step : {"idle", "write", "clear"},
                         seen : Statuses \cup {"none"}, wants : Statuses \cup {"none"}]]
  /\ review \in {"idle", "written", "cleared"}
  /\ bot \in [step : {"idle", "empty", "read", "judge", "clear"}, taken : BOOLEAN]
  /\ queue \in BOOLEAN
  /\ word \in {"none", "approved", "refused", "hasty"}
  /\ owed \in {"no", "yes", "lost"}

\* "Project is "Approved" by moderators": a project with one of these statuses is
\* one of which the moderators, AutoMod and the technical review have last said so.
\* The only way around them is a member's request that read an older status.
ApprovedUnlessHasty == status \in Approved => word \in {"approved", "hasty"}

\* A submission that AutoMod has not looked at is in the queue or in its hands,
\* unless it came when the queue was being emptied, or was in the memory of a
\* process that died: those it never looks at.
SubmissionsAreKept ==
  owed = "yes" => queue \/ (bot.taken /\ bot.step \in {"empty", "read"})
=============================================================================
