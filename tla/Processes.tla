----------------------------- MODULE Processes -----------------------------
(***************************************************************************)
(* The games that the launcher runs: the ProcessManager of                  *)
(* app-lib/src/state/process.rs, and its callers in                         *)
(* app-lib/src/launcher/mod.rs and app-lib/src/api.                         *)
(*                                                                          *)
(* A launch spawns the game, then a task that watches it, and only then     *)
(* enters it in the map of processes, where that task looks for it.  The    *)
(* map is a DashMap: kill and wait_for hold the write guard of an entry     *)
(* while they wait for the game, which blocks whoever else needs it.        *)
(***************************************************************************)
EXTENDS FiniteSets

CONSTANTS
  Launches,    \* calls of launch_minecraft, one uuid each
  Profiles,
  ProfileOf,   \* the profile that a launch runs
  Hooked       \* launches with a post-exit command

ASSUME ProcessAssumption ==
  /\ ProfileOf \in [Launches -> Profiles]
  /\ Hooked \subseteq Launches

VARIABLES
  call,        \* call[l]: how far the launch is
  game,        \* game[l]: the child process
  processes,   \* the launches that are in the map
  guarded,     \* entries of the map whose write guard is held across an await
  task,        \* task[l]: how far the task is that watches the game
  verdict,     \* verdict[l]: the exit status that task goes by
  hooks,       \* launches whose post-exit command has been spawned
  missed       \* history: launches whose task looked for them in the map before
               \* they were entered

vars == <<call, game, processes, guarded, task, verdict, hooks, missed>>

Ended == {"success", "failure"}

TypeOK ==
  /\ call \in [Launches -> {"idle", "checked", "spawned", "watched", "entered",
                            "launched", "refused", "failed"}]
  /\ game \in [Launches -> {"none", "running"} \cup Ended]
  /\ processes \subseteq Launches
  /\ guarded \subseteq processes
  /\ task \in [Launches -> {"none", "loop", "remove", "report", "hook", "gone"}]
  /\ verdict \in [Launches -> {"none"} \cup Ended]
  /\ hooks \subseteq Hooked
  /\ missed \subseteq Launches

Init ==
  /\ call = [l \in Launches |-> "idle"]
  /\ game = [l \in Launches |-> "none"]
  /\ processes = {}
  /\ guarded = {}
  /\ task = [l \in Launches |-> "none"]
  /\ verdict = [l \in Launches |-> "none"]
  /\ hooks = {}
  /\ missed = {}

watchVars == <<task, verdict, hooks, missed>>

(***************************************************************************)
(* A launch                                                                 *)
(***************************************************************************)

\* get_by_profile_path walks the whole map, and waits where an entry is guarded.
Check(l) ==
  /\ call[l] = "idle"
  /\ guarded = {}
  /\ call' = [call EXCEPT ![l] =
       IF \E p \in processes : ProfileOf[p] = ProfileOf[l] THEN "refused" ELSE "checked"]
  /\ UNCHANGED <<game, processes, guarded, watchVars>>

Fail(l) == call' = [call EXCEPT ![l] = "failed"]

\* Between the check and the spawn the launch prepares files and arguments.
Spawn(l) ==
  /\ call[l] = "checked"
  /\ \/ /\ call' = [call EXCEPT ![l] = "spawned"]
        /\ game' = [game EXCEPT ![l] = "running"]
     \/ Fail(l) /\ UNCHANGED game
  /\ UNCHANGED <<processes, guarded, watchVars>>

\* post_process_init, by which the game is told to start.  If that fails the game
\* is killed; if the log file cannot be made it is let go, and runs on.
Prepare(l) ==
  /\ call[l] = "spawned"
  /\ \/ /\ call' = [call EXCEPT ![l] = "watched"]
        /\ task' = [task EXCEPT ![l] = "loop"]
        /\ UNCHANGED game
     \/ /\ Fail(l)
        /\ game' = [game EXCEPT ![l] = IF @ = "running" THEN "failure" ELSE @]
        /\ UNCHANGED task
     \/ Fail(l) /\ UNCHANGED <<game, task>>
  /\ UNCHANGED <<processes, guarded, verdict, hooks, missed>>

Enter(l) ==
  /\ call[l] = "watched"
  /\ processes' = processes \cup {l}
  /\ call' = [call EXCEPT ![l] = "entered"]
  /\ UNCHANGED <<game, guarded, watchVars>>

\* The event may fail to be emitted; the game is entered all the same.
EmitLaunched(l) ==
  /\ call[l] = "entered"
  /\ call' = [call EXCEPT ![l] = "launched"] \/ Fail(l)
  /\ UNCHANGED <<game, processes, guarded, watchVars>>

Launch(l) == Check(l) \/ Spawn(l) \/ Prepare(l) \/ Enter(l) \/ EmitLaunched(l)

(***************************************************************************)
(* sequential_process_manager                                               *)
(***************************************************************************)

\* The loop ends with the exit status of the game; or, when the map does not have
\* it, with ExitStatus::default(), which is success.
Poll(l) ==
  /\ task[l] = "loop"
  /\ l \notin guarded
  /\ l \in processes => game[l] \in Ended
  /\ verdict' = [verdict EXCEPT ![l] = IF l \in processes THEN game[l] ELSE "success"]
  /\ missed' = IF l \in processes THEN missed ELSE missed \cup {l}
  /\ task' = [task EXCEPT ![l] = "remove"]
  /\ UNCHANGED <<call, game, processes, guarded, hooks>>

\* Mutation: only a game that ended well is taken out of the map.
RemoveSuccess(l) ==
  /\ task[l] = "remove"
  /\ l \notin guarded
  /\ processes' = IF verdict[l] = "success" THEN processes \ {l} ELSE processes
  /\ task' = [task EXCEPT ![l] = "report"]
  /\ UNCHANGED <<call, game, guarded, verdict, hooks, missed>>

\* Dropping the entry does not kill the game.
Remove(l) ==
  /\ task[l] = "remove"
  /\ l \notin guarded
  /\ processes' = processes \ {l}
  /\ task' = [task EXCEPT ![l] = "report"]
  /\ UNCHANGED <<call, game, guarded, verdict, hooks, missed>>

\* The event, the exit line in the log, the statuses and the window: where an
\* error is returned the post-exit command is never run.
Report(l) ==
  /\ task[l] = "report"
  /\ \E t \in {"hook", "gone"} : task' = [task EXCEPT ![l] = t]
  /\ UNCHANGED <<call, game, processes, guarded, verdict, hooks, missed>>

\* Mutation: the post-exit command is run whatever the exit status.
RunHookAnyway(l) ==
  /\ task[l] = "hook"
  /\ hooks' = IF l \in Hooked THEN hooks \cup {l} ELSE hooks
  /\ task' = [task EXCEPT ![l] = "gone"]
  /\ UNCHANGED <<call, game, processes, guarded, verdict, missed>>

RunHook(l) ==
  /\ task[l] = "hook"
  /\ hooks' = IF l \in Hooked /\ verdict[l] = "success" THEN hooks \cup {l} ELSE hooks
  /\ task' = [task EXCEPT ![l] = "gone"]
  /\ UNCHANGED <<call, game, processes, guarded, verdict, missed>>

Watch(l) == Poll(l) \/ Remove(l) \/ Report(l) \/ RunHook(l)

(***************************************************************************)
(* The user, the game                                                       *)
(***************************************************************************)
Hold(l) ==
  /\ l \in processes \ guarded
  /\ guarded' = guarded \cup {l}

Kill(l) ==
  /\ Hold(l)
  /\ game' = [game EXCEPT ![l] = IF @ = "running" THEN "failure" ELSE @]
  /\ UNCHANGED <<call, processes, watchVars>>

WaitFor(l) == Hold(l) /\ UNCHANGED <<call, game, processes, watchVars>>

\* The game has ended, and so do kill and wait_for.
Release(l) ==
  /\ l \in guarded /\ game[l] \in Ended
  /\ guarded' = guarded \ {l}
  /\ UNCHANGED <<call, game, processes, watchVars>>

Exit(l) ==
  /\ game[l] = "running"
  /\ \E e \in Ended : game' = [game EXCEPT ![l] = e]
  /\ UNCHANGED <<call, processes, guarded, watchVars>>

(***************************************************************************)

Idle(l) == call[l] \in {"refused", "failed", "launched"} /\ task[l] \in {"none", "gone"}

Next ==
  \/ \E l \in Launches :
       Launch(l) \/ Watch(l) \/ Kill(l) \/ WaitFor(l) \/ Release(l) \/ Exit(l)
  \/ (\A l \in Launches : Idle(l)) /\ UNCHANGED vars

Spec == Init /\ [][Next]_vars

\* The tasks are polled; who waits for a guard gets it in the end, however often
\* others take it.  Games need not end.
Fairness ==
  \A l \in Launches :
    /\ WF_vars(Enter(l)) /\ WF_vars(Release(l))
    /\ SF_vars(Poll(l) \/ Remove(l))

(***************************************************************************)
(* Properties                                                               *)
(*                                                                          *)
(* The task is spawned before the process is entered in the map, and may    *)
(* run at once.  What follows then - the history variable "missed" - is the *)
(* one exception to each of them.                                           *)
(***************************************************************************)

\* "As the process ends, it spawns the follow-up process if it exists"
\* (process.rs:735): the post-exit command is not run beside the game, nor after
\* a game that failed.
HookAfterGame == \A l \in hooks : game[l] = "success" \/ l \in missed

\* An entry of the map is watched by a task that will remove it: otherwise the
\* profile counts as running, and can not be launched, until the launcher is
\* restarted.
EntriesAreWatched ==
  \A l \in processes : task[l] \in {"loop", "remove"} \/ l \in missed

\* A game that was launched stays in the map, where it is listed and can be
\* killed, for as long as it runs.
GamesAreListed ==
  \A l \in Launches :
    call[l] = "launched" /\ game[l] = "running" => l \in processes \/ l \in missed

\* A game that has ended, by itself or killed, leaves the map.
EndedGamesLeave ==
  \A l \in Launches :
    []<>(l \in processes /\ game[l] \in Ended => l \in missed)

(***************************************************************************)
(* The inductive invariant                                                  *)
(***************************************************************************)

\* The task is spawned and the entry made in the course of the launch.
CallInv(l) ==
  /\ task[l] = "none" => l \notin processes
  /\ call[l] \in {"idle", "checked", "spawned", "refused"} => task[l] = "none"
  /\ call[l] \in {"watched", "entered", "launched"} => task[l] # "none"
  /\ call[l] = "watched" => l \notin processes

\* The task stays in its loop while the map has the entry and the game runs.
TaskInv(l) ==
  /\ task[l] = "loop" => l \in processes \/ call[l] = "watched"
  /\ task[l] \in {"none", "loop"} => l \notin missed /\ l \notin hooks
  /\ task[l] \in {"remove", "report", "hook", "gone"} =>
       l \in missed \/ (game[l] \in Ended /\ verdict[l] = game[l] /\ call[l] # "watched")
  /\ task[l] \in {"report", "hook", "gone"} => l \in missed \/ l \notin processes
  /\ l \in hooks => verdict[l] = "success" /\ task[l] = "gone"

IInv == TypeOK /\ \A l \in Launches : CallInv(l) /\ TaskInv(l)
=============================================================================
