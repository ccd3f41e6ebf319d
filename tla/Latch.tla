------------------------------- MODULE Latch -------------------------------
(***************************************************************************)
(* A latch: closed until its owner opens it, for good, and passed by nobody *)
(* before.  The waits of CacheLock.tla are waits for one.                   *)
(***************************************************************************)
CONSTANT Waiters

VARIABLES
  open,      \* the owner has opened the latch
  through    \* the waiters that have passed it

latchVars == <<open, through>>

LatchInit == open = FALSE /\ through = {}

Open == ~open /\ open' = TRUE /\ UNCHANGED through

Pass(w) ==
  /\ open
  /\ w \notin through
  /\ through' = through \cup {w}
  /\ UNCHANGED open

LatchNext == Open \/ \E w \in Waiters : Pass(w)

LatchSpec == LatchInit /\ [][LatchNext]_latchVars
=============================================================================
