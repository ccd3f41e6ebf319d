------------------------------ MODULE EndsProofs ------------------------------
(***************************************************************************)
(* Proofs about components that MCEnds puts side by side, for any           *)
(* constants: the launcher's processes, and the flag at which the callers   *)
(* of the cache wait.                                                       *)
(***************************************************************************)
EXTENDS MCEnds, TLAPS

(***************************************************************************)
(* The launcher's processes                                                 *)
(***************************************************************************)

\* Nothing is launched, and nothing is in the map.
LEMMA InitInv == Init => IInv
BY ProcessAssumption DEF Init, IInv, TypeOK, CallInv, TaskInv, Ended

\* A launch that is not the one that takes the step is left as it is.
Same(l) ==
  /\ call'[l] = call[l] /\ game'[l] = game[l] /\ task'[l] = task[l]
  /\ verdict'[l] = verdict[l]
  /\ (l \in processes' <=> l \in processes)
  /\ (l \in hooks' <=> l \in hooks) /\ (l \in missed' <=> l \in missed)

OneOf(l) == Launch(l) \/ Watch(l) \/ Kill(l) \/ WaitFor(l) \/ Release(l) \/ Exit(l)

\* Every action of a launch touches its own part of the state.
LEMMA OwnPart ==
  ASSUME TypeOK, NEW l \in Launches, OneOf(l), NEW m \in Launches, m # l
  PROVE  Same(m)
<1>1. CASE Check(l) \/ Enter(l) \/ EmitLaunched(l)
  BY <1>1 DEF Check, Enter, EmitLaunched, Fail, Same, TypeOK, watchVars
<1>2. CASE Spawn(l) \/ Prepare(l)
  BY <1>2 DEF Spawn, Prepare, Fail, Same, TypeOK, watchVars
<1>3. CASE Watch(l)
  BY <1>3 DEF Watch, Poll, Remove, Report, RunHook, Same, TypeOK
<1>4. CASE Kill(l) \/ WaitFor(l) \/ Release(l) \/ Exit(l)
  BY <1>4 DEF Kill, WaitFor, Hold, Release, Exit, Same, TypeOK, watchVars
<1>. QED  BY <1>1, <1>2, <1>3, <1>4 DEF OneOf, Launch

\* Every action keeps the types.
LEMMA StepType ==
  ASSUME TypeOK, NEW l \in Launches, OneOf(l)
  PROVE  TypeOK'
<1> USE ProcessAssumption
<1>1. CASE Check(l) \/ Enter(l) \/ EmitLaunched(l)
  BY <1>1 DEF Check, Enter, EmitLaunched, Fail, TypeOK, watchVars
<1>2. CASE Spawn(l) \/ Prepare(l)
  BY <1>2 DEF Spawn, Prepare, Fail, TypeOK, watchVars, Ended
<1>3. CASE Watch(l)
  BY <1>3 DEF Watch, Poll, Remove, Report, RunHook, TypeOK, Ended
<1>4. CASE Kill(l) \/ WaitFor(l) \/ Release(l) \/ Exit(l)
  BY <1>4 DEF Kill, WaitFor, Hold, Release, Exit, TypeOK, watchVars, Ended
<1>. QED  BY <1>1, <1>2, <1>3, <1>4 DEF OneOf, Launch

\* Every action keeps the invariant of the launch that takes it.
LEMMA StepOwn ==
  ASSUME IInv, NEW l \in Launches, OneOf(l)
  PROVE  CallInv(l)' /\ TaskInv(l)'
<1>0. TypeOK /\ CallInv(l) /\ TaskInv(l)
  BY DEF IInv
<1> USE DEF CallInv, TaskInv, TypeOK, Ended
<1>1. CASE Check(l)
  BY <1>0, <1>1 DEF Check, watchVars
<1>2. CASE Spawn(l)
  BY <1>0, <1>2 DEF Spawn, Fail, watchVars
<1>3. CASE Prepare(l)
  BY <1>0, <1>3 DEF Prepare, Fail
<1>4. CASE Enter(l)
  BY <1>0, <1>4 DEF Enter, watchVars
<1>5. CASE EmitLaunched(l)
  BY <1>0, <1>5 DEF EmitLaunched, Fail, watchVars
<1>6. CASE Poll(l)
  BY <1>0, <1>6 DEF Poll
<1>7. CASE Remove(l)
  BY <1>0, <1>7 DEF Remove
<1>8. CASE Report(l)
  BY <1>0, <1>8 DEF Report
<1>9. CASE RunHook(l)
  BY <1>0, <1>9 DEF RunHook
<1>10. CASE Kill(l) \/ WaitFor(l) \/ Release(l)
  BY <1>0, <1>10 DEF Kill, WaitFor, Hold, Release, watchVars
<1>11. CASE Exit(l)
  BY <1>0, <1>11 DEF Exit, watchVars
<1>. QED
  BY <1>1, <1>2, <1>3, <1>4, <1>5, <1>6, <1>7, <1>8, <1>9, <1>10, <1>11
     DEF OneOf, Launch, Watch

\* The invariant is inductive.
LEMMA StepInv == IInv /\ [Next]_vars => IInv'
<1> SUFFICES ASSUME IInv, [Next]_vars PROVE IInv'
  OBVIOUS
<1>1. ASSUME NEW l \in Launches, OneOf(l)
      PROVE  IInv'
  <2>1. TypeOK'
    BY <1>1, StepType DEF IInv
  <2>2. ASSUME NEW m \in Launches
        PROVE  CallInv(m)' /\ TaskInv(m)'
    <3>1. CASE m = l
      BY <1>1, <3>1, StepOwn
    <3>2. CASE m # l
      <4>1. Same(m)
        BY <1>1, <3>2, OwnPart DEF IInv
      <4>2. CallInv(m) /\ TaskInv(m)
        BY DEF IInv
      <4>. QED  BY <4>1, <4>2 DEF Same, CallInv, TaskInv
    <3>. QED  BY <3>1, <3>2
  <2>. QED  BY <2>1, <2>2 DEF IInv
<1>2. CASE UNCHANGED vars
  BY <1>2 DEF IInv, TypeOK, CallInv, TaskInv, vars
<1>. QED  BY <1>1, <1>2 DEF Next, OneOf

\* The inductive invariant of sequential_process_manager and its callers: the
\* task, the map and the game agree.
THEOREM ProcessInvariant == Spec => []IInv
BY InitInv, StepInv, PTL DEF Spec

\* The post-exit command runs after a game that ended well.
THEOREM HooksFollowGames == Spec => []HookAfterGame
<1>1. IInv => HookAfterGame
  BY ProcessAssumption DEF IInv, TypeOK, TaskInv, HookAfterGame
<1>. QED  BY <1>1, ProcessInvariant, PTL

\* No profile is left marked as running by a task that found its game.
THEOREM NothingIsStranded == Spec => []EntriesAreWatched
<1>1. IInv => EntriesAreWatched
  BY DEF IInv, TypeOK, CallInv, TaskInv, EntriesAreWatched
<1>. QED  BY <1>1, ProcessInvariant, PTL

\* What runs can be listed and killed.
THEOREM RunningIsListed == Spec => []GamesAreListed
<1>1. IInv => GamesAreListed
  BY DEF IInv, TypeOK, CallInv, TaskInv, GamesAreListed, Ended
<1>. QED  BY <1>1, ProcessInvariant, PTL

(***************************************************************************)
(* The flag and the Notify                                                  *)
(***************************************************************************)

\* The flag tells how far the writer is, and nobody is woken or let through before.
FlagInv ==
  /\ ready <=> writer # "start"
  /\ writer # "done" => flagWoken = {}
  /\ Flag!Passed # {} => ready

\* The inductive invariant: besides the types, nobody is through before the flag is
\* set, and once the writer is done nobody is parked without a wake-up.
ReadyInv == Flag!TypeOK /\ FlagInv /\ Flag!NoLostWakeUp

\* At the start the flag is not set and nobody waits.
LEMMA FlagInit == Flag!Init => ReadyInv
BY DEF Flag!Init, ReadyInv, Flag!TypeOK, FlagInv, Flag!NoLostWakeUp, Flag!Passed,
       Flag!WaiterState

\* A waiter that goes through does so after the flag is set.
LEMMA WaitersMove ==
  ASSUME ReadyInv, NEW w \in Waiters, Flag!Wait(w) \/ Flag!TimeOut(w)
  PROVE  /\ UNCHANGED <<ready, writer, flagWoken>>
         /\ waiter' \in [Waiters -> Flag!WaiterState]
         /\ \A v \in Waiters \ {w} : waiter'[v] = waiter[v]
         /\ waiter[w] # "passed"
         /\ waiter'[w] = "passed" => ready
         /\ waiter'[w] = "parked" => ~ready
<1> USE DEF ReadyInv, Flag!TypeOK, Flag!WaiterState, Flag!Move
<1>1. CASE Flag!Load(w)
  BY <1>1 DEF Flag!Load
<1>2. CASE Flag!Register(w)
  BY <1>2 DEF Flag!Register
<1>3. CASE Flag!LoadAgain(w)
  BY <1>3 DEF Flag!LoadAgain
<1>4. CASE Flag!Wake(w)
  BY <1>4 DEF Flag!Wake, FlagInv
<1>5. CASE Flag!TimeOut(w)
  BY <1>5 DEF Flag!TimeOut
<1>. QED  BY <1>1, <1>2, <1>3, <1>4, <1>5 DEF Flag!Wait

\* The writer sets the flag before it notifies, and a waiter moves as WaitersMove says.
LEMMA FlagStep == ReadyInv /\ [Flag!Next]_flagVars => ReadyInv'
<1> SUFFICES ASSUME ReadyInv, [Flag!Next]_flagVars PROVE ReadyInv'
  OBVIOUS
<1>1. CASE Flag!Store
  BY <1>1 DEF Flag!Store, ReadyInv, Flag!TypeOK, FlagInv, Flag!NoLostWakeUp, Flag!Passed
<1>2. CASE Flag!Notify
  BY <1>2 DEF Flag!Notify, ReadyInv, Flag!TypeOK, FlagInv, Flag!NoLostWakeUp, Flag!Passed
<1>3. ASSUME NEW w \in Waiters, Flag!Wait(w) \/ Flag!TimeOut(w) PROVE ReadyInv'
  BY <1>3, WaitersMove DEF ReadyInv, Flag!TypeOK, FlagInv, Flag!NoLostWakeUp, Flag!Passed
<1>4. CASE UNCHANGED flagVars
  BY <1>4 DEF flagVars, ReadyInv, Flag!TypeOK, FlagInv, Flag!NoLostWakeUp, Flag!Passed
<1>. QED  BY <1>1, <1>2, <1>3, <1>4 DEF Flag!Next, Flag!MakeReady, Flag!vars, flagVars

\* What the other components do leaves the flag alone.
LEMMA FlagOfEnds ==
  /\ EndsInit => Flag!Init
  /\ [EndsNext]_endsVars => [Flag!Next]_flagVars
BY DEF EndsInit, EndsNext, endsVars

\* The invariant of the flag holds in every state the components reach.
THEOREM FlagInvariant == EndsSpec => []ReadyInv
BY FlagInit, FlagStep, FlagOfEnds, PTL DEF EndsSpec

\* No wake-up is lost, for any number of waiters.
THEOREM NobodyIsForgotten == EndsSpec => []NoLostWakeUp
<1>1. ReadyInv => NoLostWakeUp
  BY DEF ReadyInv, NoLostWakeUp
<1>. QED  BY FlagInvariant, <1>1, PTL

\* The latch of the flag is closed at the start.
LEMMA LatchStart == Flag!Init => Flag!L!LatchInit
BY DEF Flag!Init, Flag!L!LatchInit, Flag!Passed

\* Setting the flag opens the latch, going through is passing it, and nothing else
\* shows at the latch.
LEMMA LatchStep ==
  ASSUME ReadyInv, [Flag!Next]_flagVars
  PROVE  [Flag!L!LatchNext]_(Flag!L!latchVars)
<1>1. CASE Flag!Store
  BY <1>1 DEF Flag!Store, ReadyInv, FlagInv, Flag!Passed, Flag!L!LatchNext, Flag!L!Open
<1>2. CASE Flag!Notify \/ UNCHANGED flagVars
  BY <1>2 DEF Flag!Notify, flagVars, Flag!Passed, Flag!L!latchVars
<1>3. ASSUME NEW w \in Waiters, Flag!Wait(w) \/ Flag!TimeOut(w)
      PROVE  [Flag!L!LatchNext]_(Flag!L!latchVars)
  <2>1. ready' = ready /\ \A v \in Waiters \ {w} : waiter'[v] = waiter[v]
    BY <1>3, WaitersMove
  <2>2. waiter[w] # "passed"
    BY <1>3, WaitersMove
  <2>3. CASE waiter'[w] = "passed"
    <3>1. ready
      BY <1>3, <2>3, WaitersMove
    <3>2. Flag!Passed' = Flag!Passed \cup {w} /\ w \notin Flag!Passed
      BY <2>1, <2>2, <2>3 DEF Flag!Passed
    <3>. QED  BY <2>1, <3>1, <3>2 DEF Flag!L!LatchNext, Flag!L!Pass
  <2>4. CASE waiter'[w] # "passed"
    BY <2>1, <2>2, <2>4 DEF Flag!Passed, Flag!L!latchVars
  <2>. QED  BY <2>3, <2>4
<1>. QED  BY <1>1, <1>2, <1>3 DEF Flag!Next, Flag!MakeReady, Flag!vars, flagVars

\* The flag and the Notify behave like the latch that CacheLock uses.
THEOREM FlagIsLatch == EndsSpec => ImplementsLatch
<1>1. EndsInit => Flag!L!LatchInit
  BY LatchStart, FlagOfEnds
<1>2. ReadyInv /\ [EndsNext]_endsVars => [Flag!L!LatchNext]_(Flag!L!latchVars)
  BY LatchStep, FlagOfEnds
<1>. QED  BY <1>1, <1>2, FlagInvariant, PTL
     DEF EndsSpec, ImplementsLatch, Flag!ImplementsLatch, Flag!L!LatchSpec
=============================================================================
