----------------------------- MODULE ReadyFlag -----------------------------
(***************************************************************************)
(* How the callers that wait for a cached value are woken:                  *)
(* CacheWriter, CacheSubscriber and Shared of                               *)
(* labrinth/src/database/redis/util.rs, an atomic flag beside a             *)
(* tokio::sync::Notify.                                                     *)
(*                                                                          *)
(* Notify keeps no permit for notify_waiters: it wakes the futures that     *)
(* notified() has handed out so far, and nobody else.                       *)
(***************************************************************************)
EXTENDS Naturals

CONSTANT Waiters   \* the subscribers that wait

VARIABLES
  ready,     \* Shared.ready
  writer,    \* how far CacheWriter::write is
  waiter,    \* waiter[w]: how far CacheSubscriber::wait_timeout is
  woken      \* the waiters whose Notified future has been completed

vars == <<ready, writer, waiter, woken>>

\* "loaded": read the flag as unset; "registered": holds a Notified future;
\* "parked": read the flag as unset again and awaits the future.
WaiterState == {"start", "loaded", "registered", "parked", "passed", "timed out"}

TypeOK ==
  /\ ready \in BOOLEAN
  /\ writer \in {"start", "stored", "done"}
  /\ waiter \in [Waiters -> WaiterState]
  /\ woken \subseteq Waiters

Init ==
  /\ ready = FALSE
  /\ writer = "start"
  /\ waiter = [w \in Waiters |-> "start"]
  /\ woken = {}

(***************************************************************************)
(* make_ready                                                               *)
(***************************************************************************)
Store ==
  /\ writer = "start"
  /\ ready' = TRUE
  /\ writer' = "stored"
  /\ UNCHANGED <<waiter, woken>>

Notify ==
  /\ writer = "stored"
  /\ woken' = {w \in Waiters : waiter[w] \in {"registered", "parked"}}
  /\ writer' = "done"
  /\ UNCHANGED <<ready, waiter>>

\* Mutation: the waiters are notified before the flag is set.
NotifyFirst ==
  \/ /\ writer = "start"
     /\ woken' = {w \in Waiters : waiter[w] \in {"registered", "parked"}}
     /\ writer' = "stored"
     /\ UNCHANGED <<ready, waiter>>
  \/ /\ writer = "stored"
     /\ ready' = TRUE
     /\ writer' = "done"
     /\ UNCHANGED <<waiter, woken>>

MakeReady == Store \/ Notify

(***************************************************************************)
(* wait and wait_timeout                                                    *)
(***************************************************************************)
Move(w, from, to) ==
  /\ waiter[w] = from
  /\ waiter' = [waiter EXCEPT ![w] = to]
  /\ UNCHANGED <<ready, writer, woken>>

Load(w) == Move(w, "start", IF ready THEN "passed" ELSE "loaded")

Register(w) == Move(w, "loaded", "registered")

\* Mutation: the flag is not read again once the future exists.
NoSecondLoad(w) == Move(w, "registered", "parked")

LoadAgain(w) == Move(w, "registered", IF ready THEN "passed" ELSE "parked")

Wake(w) == w \in woken /\ Move(w, "parked", "passed")

Wait(w) == Load(w) \/ Register(w) \/ LoadAgain(w) \/ Wake(w)

\* The five seconds are over.
TimeOut(w) ==
  \/ Move(w, "loaded", "timed out")
  \/ Move(w, "registered", "timed out")
  \/ Move(w, "parked", "timed out")

AllLeft == \A w \in Waiters : waiter[w] \in {"passed", "timed out"}

Next ==
  \/ MakeReady
  \/ \E w \in Waiters : Wait(w) \/ TimeOut(w)
  \/ AllLeft /\ writer = "done" /\ UNCHANGED vars

Spec == Init /\ [][Next]_vars

\* The writer's drop runs to its end, and the runtime polls whoever can run;
\* a timeout is never needed.
Fairness == WF_vars(MakeReady) /\ \A w \in Waiters : WF_vars(Wait(w))

(***************************************************************************)
(* Properties                                                               *)
(***************************************************************************)

\* util.rs:142 says why the flag is read a second time: "Prevent race where the
\* writer set the ready bit and notified waiters between the load and
\* registering the waiter".  Once the writer is done, nobody is left parked
\* without a wake-up of its own.
NoLostWakeUp ==
  writer = "done" =>
    \A w \in Waiters : waiter[w] = "parked" => w \in woken

(***************************************************************************)
(* What CacheLock.tla uses: a latch that is opened once and that nobody     *)
(* passes before.                                                           *)
(***************************************************************************)
Passed == {w \in Waiters : waiter[w] = "passed"}

L == INSTANCE Latch WITH open <- ready, through <- Passed

\* The flag and the Notify together implement the latch.
ImplementsLatch == L!LatchSpec
=============================================================================
