------------------------------- MODULE MCEnds -------------------------------
(***************************************************************************)
(* Five components that share no state: the launcher's processes, and       *)
(* instances of the cache of values read by strings, of the flag its        *)
(* callers wait at, of withdrawals on rails that fail, and of the search    *)
(* index.  As in MCServer, the initial state says which takes steps.        *)
(***************************************************************************)
EXTENDS Processes, Naturals

CONSTANTS p1, Waiters

OneProfile == [l \in Launches |-> p1]

VARIABLES
  part,
  row, unclear, entry, list, open, cachePc, asked, ids, todo, stale, held, subs,
    woken, fetch, found, excuse,
  ready, writer, waiter, flagWoken,
  earned, formOk, status, linked, lock, aged, order, pc, seen, draft, cancel, hook,
    sync, rail, notices,
  listed, docs, alias, run, removal, edits, failures, promised

cacheVars == <<row, unclear, entry, list, open, cachePc, asked, ids, todo, stale, held,
               subs, woken, fetch, found, excuse>>
flagVars  == <<ready, writer, waiter, flagWoken>>
payVars   == <<earned, formOk, status, linked, lock, aged, order, pc, seen, draft,
               cancel, hook, sync, rail, notices>>
searchVars == <<listed, docs, alias, run, removal, edits, failures, promised>>
endsVars  == <<part, vars, cacheVars, flagVars, payVars, searchVars>>

\* Two calls for one item, by its id and by its slug.
Cache == INSTANCE CacheLock WITH
           Calls <- {"c1", "c2"}, Items <- {"i1"}, Keys <- {"id", "slug"},
           ItemOf <- [k \in {"id", "slug"} |-> "i1"], Primary <- {}, Spelled <- {"id"},
           NoCall <- "nobody", Changing <- {"i1"}, MaxVersion <- 1, pc <- cachePc

Flag == INSTANCE ReadyFlag WITH woken <- flagWoken

Rails == {"paypal", "tremendous", "mural"}

Pay == INSTANCE Withdrawals WITH
         Users <- {"u1"}, Payouts <- {"p1"}, None <- "nobody", Methods <- Rails,
         Amounts <- {2},
         Fee    <- [m \in Rails |-> IF m = "paypal" THEN 1 ELSE 0],
         MinUsd <- [m \in Rails |-> IF m = "mural" THEN 2 ELSE 0],
         MaxUsd <- [m \in Rails |-> 3],
         Threshold <- 2, MaxEarned <- 2,
         Faults <- {"lookup", "early", "crash", "reply"}

Index == INSTANCE Search WITH
           Projects <- {1, 2}, ChunkSize <- 1, Runs <- {"r"}, Overlap <- FALSE,
           MaxEdits <- 1, MaxFailures <- 1

ASSUME Index!SearchAssumption

EndsInit ==
  /\ part \in {"processes", "cache", "flag", "withdrawals", "search"}
  /\ Init /\ Cache!Init /\ Flag!Init /\ Pay!Init /\ Index!Init
  \* One initial state is enough of those that take no steps.
  /\ part = "cache" \/ entry["i1"].version = 0
  /\ part = "withdrawals" \/ order["p1"].method = "mural"
  /\ listed = {1, 2} \/ (part = "search" /\ listed = {1})

EndsNext ==
  /\ \/ /\ part = "processes" /\ Next
        /\ UNCHANGED <<cacheVars, flagVars, payVars, searchVars>>
     \/ /\ part = "cache" /\ Cache!Next
        /\ UNCHANGED <<vars, flagVars, payVars, searchVars>>
     \/ /\ part = "flag" /\ Flag!Next
        /\ UNCHANGED <<vars, cacheVars, payVars, searchVars>>
     \/ /\ part = "withdrawals" /\ Pay!Next
        /\ UNCHANGED <<vars, cacheVars, flagVars, searchVars>>
     \/ /\ part = "search" /\ Index!Next
        /\ UNCHANGED <<vars, cacheVars, flagVars, payVars>>
  /\ UNCHANGED part

\* Each component with its own fairness.
EndsSpec ==
  /\ EndsInit /\ [][EndsNext]_endsVars
  /\ \/ <>[](part = "processes")   /\ Fairness
     \/ <>[](part = "cache")       /\ Cache!Fairness
     \/ <>[](part = "flag")        /\ Flag!Fairness
     \/ <>[](part = "withdrawals") /\ Pay!Fairness
     \/ <>[](part = "search")      /\ Index!Fairness

(***************************************************************************)
(* The properties of the instances                                          *)
(***************************************************************************)

\* The cache, read by strings (CacheLock).
CallsEnd == Cache!CallsEnd

\* The flag (ReadyFlag).
NoLostWakeUp    == Flag!NoLostWakeUp
ImplementsLatch == Flag!ImplementsLatch

\* Withdrawals (Withdrawals).
UnpaidIsReturned == Pay!UnpaidIsReturned
InTransitEnds    == Pay!InTransitEnds

\* The search index (Search).
SearchSettles == <>[](part = "search" => Index!Current)
=============================================================================
