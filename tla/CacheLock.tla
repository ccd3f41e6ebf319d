----------------------------- MODULE CacheLock -----------------------------
(***************************************************************************)
(* The read-through cache in front of the database, and the single-flight   *)
(* locks that keep a process from fetching the same key many times at once: *)
(* RedisPool::get_cached_keys_raw_with_slug, acquire_lock and LockSentinel  *)
(* in labrinth/src/database/redis/mod.rs.                                   *)
(*                                                                          *)
(* An item is a row of some table.  A caller asks for it by a key: its id,  *)
(* or a string (the id in base 62, the slug in any spelling).  Rows carry a *)
(* version instead of a payload.                                            *)
(***************************************************************************)
EXTENDS CacheKeys

VARIABLES
  row,       \* row[i]: the committed version of item i
  unclear,   \* committed edits whose clear_cache is still to come
  entry,     \* entry[i]: what Redis holds for i; version 0 when nothing
  list,      \* cache_list: list[k] is the call whose sentinel is on k
  open,      \* open[c]: keys whose latch call c has opened (Latch.tla)
  pc,        \* pc[c]: how far call c is
  asked,     \* asked[c]: the keys it was called with
  ids,       \* ids[c]: those still to be found in the database
  todo,      \* todo[c]: those it has not yet tried to lock
  stale,     \* stale[c]: expired_values, by item
  held,      \* held[c]: cache_writers, the keys it has a sentinel on
  subs,      \* subs[c]: the latches it waits at, a key and its writer
  woken,     \* woken[c]: the keys to be read again after their wait
  fetch,     \* fetch[c]: its fetch task
  found,     \* found[c]: versions from the cache, the fetch and the second look
  excuse     \* history: excuse[c] is the items that call c, or the call it
             \* waited for, may have missed for a reason

cacheVars == <<row, unclear, entry>>
taskVars  == <<asked, ids, todo, stale, subs, woken, fetch, found>>
callVars  == <<list, open, held, pc, taskVars>>
vars      == <<cacheVars, callVars, excuse>>

Version  == 1..MaxVersion
Versions == [Items -> 0..MaxVersion]      \* 0: nothing
Nothing  == [i \in Items |-> 0]

NotFound == [cached |-> Nothing, fetched |-> Nothing, reread |-> Nothing]

NoEntry  == [version |-> 0, expired |-> FALSE]
Fresh(v) == [version |-> v, expired |-> FALSE]

ItemsOf(K) == {ItemOf[k] : k \in K}

TypeOK ==
  /\ row \in [Items -> Version]
  /\ unclear \subseteq [item : Items, version : Version]
  /\ entry \in [Items -> [version : 0..MaxVersion, expired : BOOLEAN]]
  /\ list \in [Keys -> Calls \cup {NoCall}]
  /\ open \in [Calls -> SUBSET Keys]
  /\ pc \in [Calls -> {"idle", "lock", "run", "unwind", "done", "failed"}]
  /\ asked \in [Calls -> SUBSET Keys]
  /\ ids \in [Calls -> SUBSET Keys]
  /\ todo \in [Calls -> SUBSET Keys]
  /\ stale \in [Calls -> Versions]
  /\ held \in [Calls -> SUBSET Keys]
  /\ subs \in [Calls -> SUBSET [key : Keys, writer : Calls]]
  /\ woken \in [Calls -> SUBSET Keys]
  /\ fetch \in [Calls -> {"none", "query", "store", "stored"}]
  /\ found \in [Calls -> [cached : Versions, fetched : Versions, reread : Versions]]
  /\ excuse \in [Calls -> SUBSET Items]

Init ==
  /\ row = [i \in Items |-> 1]
  /\ unclear = {}
  /\ entry \in [Items -> {NoEntry, Fresh(1)}]
  /\ list = [k \in Keys |-> NoCall]
  /\ open = [c \in Calls |-> {}]
  /\ pc = [c \in Calls |-> "idle"]
  /\ asked = [c \in Calls |-> {}]
  /\ ids = [c \in Calls |-> {}]
  /\ todo = [c \in Calls |-> {}]
  /\ stale = [c \in Calls |-> Nothing]
  /\ held = [c \in Calls |-> {}]
  /\ subs = [c \in Calls |-> {}]
  /\ woken = [c \in Calls |-> {}]
  /\ fetch = [c \in Calls |-> "none"]
  /\ found = [c \in Calls |-> NotFound]
  /\ excuse = [c \in Calls |-> {}]

(***************************************************************************)
(* Editors: a transaction commits, then clear_cache deletes the value.      *)
(***************************************************************************)

Raise(i) == row[i] < MaxVersion /\ row' = [row EXCEPT ![i] = @ + 1]

\* Mutation: an editor commits after it has cleared the cache.
CommitLate(i) == Raise(i) /\ UNCHANGED <<unclear, entry, callVars, excuse>>

Commit(i) ==
  /\ Raise(i)
  /\ unclear' = unclear \cup {[item |-> i, version |-> row'[i]]}
  /\ UNCHANGED <<entry, callVars, excuse>>

\* The value goes; calls that are under way may miss it.
Remove(i) ==
  /\ entry' = [entry EXCEPT ![i] = NoEntry]
  /\ excuse' = [c \in Calls |->
       excuse[c] \cup (IF pc[c] \in {"lock", "run", "unwind"} THEN {i} ELSE {})]
  /\ UNCHANGED <<row, callVars>>

Clear(e) ==
  /\ e \in unclear
  /\ unclear' = unclear \ {e}
  /\ Remove(e.item)

\* ACTUAL_EXPIRY, 30 minutes, has passed: the value is still there.
Expire(i) ==
  /\ entry[i].version > 0 /\ ~entry[i].expired
  /\ entry' = [entry EXCEPT ![i].expired = TRUE]
  /\ UNCHANGED <<row, unclear, callVars, excuse>>

\* DEFAULT_EXPIRY, 12 hours, has passed, or Redis needs the memory.
Evict(i) ==
  /\ entry[i].version > 0
  /\ Remove(i)
  /\ UNCHANGED unclear

(***************************************************************************)
(* A call                                                                   *)
(***************************************************************************)

\* What a read of Redis returns for the items I.
Read(I) == [i \in Items |-> IF i \in I THEN entry[i].version ELSE 0]

\* get_cached_values, then the split into values that are fresh and expired.
\* A fresh value takes its id and its alias off the list, so that a key that
\* spells the alias differently stays on it.
Lookup(c, K) ==
  LET fresh == {i \in ItemsOf(K) : entry[i].version > 0 /\ ~entry[i].expired}
      want  == {k \in K : ItemOf[k] \in fresh => k \notin Spelled}
  IN
  /\ pc[c] = "idle"
  /\ asked' = [asked EXCEPT ![c] = K]
  /\ found' = [found EXCEPT ![c].cached = Read(fresh)]
  /\ stale' = [stale EXCEPT ![c] = Read(ItemsOf(K) \ fresh)]
  /\ ids' = [ids EXCEPT ![c] = want]
  /\ todo' = [todo EXCEPT ![c] = want]
  /\ pc' = [pc EXCEPT ![c] = "lock"]
  /\ UNCHANGED <<cacheVars, list, open, held, subs, woken, fetch, excuse>>

\* Mutation: the test and the insertion are two steps, and both callers insert.
AcquireAnyway(c, k) ==
  /\ pc[c] = "lock" /\ k \in todo[c]
  /\ list' = [list EXCEPT ![k] = c]
  /\ held' = [held EXCEPT ![c] = @ \cup {k}]
  /\ todo' = [todo EXCEPT ![c] = @ \ {k}]
  /\ UNCHANGED <<cacheVars, open, pc, asked, ids, stale, subs, woken, fetch, found, excuse>>

\* acquire_lock finds the key free: this call fetches it.
Acquire(c, k) ==
  /\ pc[c] = "lock" /\ k \in todo[c]
  /\ list[k] = NoCall
  /\ list' = [list EXCEPT ![k] = c]
  /\ held' = [held EXCEPT ![c] = @ \cup {k}]
  /\ todo' = [todo EXCEPT ![c] = @ \ {k}]
  /\ UNCHANGED <<cacheVars, open, pc, asked, ids, stale, subs, woken, fetch, found, excuse>>

\* acquire_lock finds another call on it: take the expired value, if there is
\* one under this very key, rather than wait.
Servable(c, k) == k \in ids[c] /\ k \in Primary /\ stale[c][ItemOf[k]] > 0

ServeStale(c, k) ==
  LET i == ItemOf[k] IN
  /\ pc[c] = "lock" /\ k \in todo[c]
  /\ list[k] # NoCall
  /\ Servable(c, k)
  /\ found' = [found EXCEPT ![c].cached[i] = stale[c][i]]
  /\ stale' = [stale EXCEPT ![c][i] = 0]
  /\ ids' = [ids EXCEPT ![c] = @ \ ({k} \cup {l \in Spelled : ItemOf[l] = i})]
  /\ todo' = [todo EXCEPT ![c] = @ \ {k}]
  /\ UNCHANGED <<cacheVars, list, open, held, pc, asked, subs, woken, fetch, excuse>>

\* Otherwise wait for that call.
Subscribe(c, k) ==
  /\ pc[c] = "lock" /\ k \in todo[c]
  /\ list[k] # NoCall
  /\ ~Servable(c, k)
  /\ subs' = [subs EXCEPT ![c] =
       @ \cup (IF k \in ids[c] THEN {[key |-> k, writer |-> list[k]]} ELSE {})]
  /\ ids' = [ids EXCEPT ![c] = @ \ {k}]
  /\ todo' = [todo EXCEPT ![c] = @ \ {k}]
  /\ UNCHANGED <<cacheVars, list, open, held, pc, asked, stale, woken, fetch, found, excuse>>

\* Every key has been tried: the fetch and the waits run side by side.
Start(c) ==
  /\ pc[c] = "lock" /\ todo[c] = {}
  /\ pc' = [pc EXCEPT ![c] = "run"]
  /\ fetch' = [fetch EXCEPT ![c] = IF ids[c] = {} THEN "none" ELSE "query"]
  /\ stale' = [stale EXCEPT ![c] = Nothing]
  /\ UNCHANGED <<cacheVars, list, open, held, asked, ids, todo, subs, woken, found, excuse>>

(***************************************************************************)
(* The fetch task                                                           *)
(***************************************************************************)
Query(c) ==
  /\ pc[c] = "run" /\ fetch[c] = "query"
  /\ found' = [found EXCEPT ![c].fetched =
       [i \in Items |-> IF i \in ItemsOf(ids[c]) THEN row[i] ELSE 0]]
  /\ fetch' = [fetch EXCEPT ![c] = "store"]
  /\ UNCHANGED <<cacheVars, list, open, held, pc, asked, ids, todo, stale, subs, woken, excuse>>

\* The pipeline of SET EX.
Store(c) ==
  /\ pc[c] = "run" /\ fetch[c] = "store"
  /\ entry' = [i \in Items |->
       IF i \in ItemsOf(ids[c]) THEN Fresh(found[c].fetched[i]) ELSE entry[i]]
  /\ fetch' = [fetch EXCEPT ![c] = "stored"]
  /\ UNCHANGED <<row, unclear, list, open, held, pc, asked, ids, todo, stale,
                 subs, woken, found, excuse>>

\* Mutation: the sentinels are dropped while the values are being stored.
DropBeforeStore(c) ==
  \/ pc[c] = "run" /\ fetch[c] \in {"store", "stored"}
  \/ pc[c] = "unwind"

\* Sentinels are dropped one by one, after the store or when the call unwinds.
\* A call has them only on keys it fetches, so none is left for its end.
Dropping(c) ==
  \/ pc[c] = "run" /\ fetch[c] = "stored"
  \/ pc[c] = "unwind"

\* LockSentinel::drop opens the latch...
OpenLatch(c, k) ==
  /\ Dropping(c)
  /\ k \in held[c] /\ held[c] \cap open[c] = {}
  /\ open' = [open EXCEPT ![c] = @ \cup {k}]
  /\ UNCHANGED <<cacheVars, list, held, pc, taskVars, excuse>>

\* ...and takes the key off the list.
Unlist(c, k) ==
  /\ Dropping(c)
  /\ k \in held[c] \cap open[c]
  /\ list' = [list EXCEPT ![k] = NoCall]
  /\ held' = [held EXCEPT ![c] = @ \ {k}]
  /\ UNCHANGED <<cacheVars, open, pc, taskVars, excuse>>

(***************************************************************************)
(* The waits                                                                *)
(***************************************************************************)
Failed(w) == pc[w] \in {"unwind", "failed"} /\ fetch[w] # "stored"

Wake(c, s) ==
  /\ pc[c] = "run" /\ s \in subs[c]
  /\ s.key \in open[s.writer]
  /\ subs' = [subs EXCEPT ![c] = @ \ {s}]
  /\ woken' = [woken EXCEPT ![c] = @ \cup {s.key}]
  /\ excuse' = [excuse EXCEPT ![c] = @ \cup
       (IF Failed(s.writer) THEN {ItemOf[s.key]}
                            ELSE excuse[s.writer] \cap {ItemOf[s.key]})]
  /\ UNCHANGED <<cacheVars, list, open, held, pc, asked, ids, todo, stale, fetch, found>>

\* All waits are over: whatever Redis has now is taken, expired or not.
ReadAgain(c) ==
  /\ pc[c] = "run" /\ subs[c] = {} /\ woken[c] # {}
  /\ found' = [found EXCEPT ![c].reread = Read(ItemsOf(woken[c]))]
  /\ woken' = [woken EXCEPT ![c] = {}]
  /\ UNCHANGED <<cacheVars, list, open, held, pc, asked, ids, todo, stale, subs, fetch, excuse>>

(***************************************************************************)
(* The end of a call                                                        *)
(***************************************************************************)
Return(c) ==
  /\ pc[c] = "run" /\ fetch[c] \in {"none", "stored"} /\ held[c] = {}
  /\ subs[c] = {} /\ woken[c] = {}
  /\ pc' = [pc EXCEPT ![c] = "done"]
  /\ UNCHANGED <<cacheVars, list, open, held, taskVars, excuse>>

\* Mutation: the sentinels of a call that fails are not dropped.
AbortLeaks(c) ==
  /\ pc[c] = "run"
  /\ pc' = [pc EXCEPT ![c] = "failed"]
  /\ UNCHANGED <<cacheVars, list, open, held, taskVars, excuse>>

\* A task fails - the query, Redis, a wait of five seconds - or the caller goes
\* away: both tasks are dropped.
Abort(c) ==
  /\ pc[c] = "run"
  /\ pc' = [pc EXCEPT ![c] = "unwind"]
  /\ subs' = [subs EXCEPT ![c] = {}]
  /\ woken' = [woken EXCEPT ![c] = {}]
  /\ found' = [found EXCEPT ![c] = NotFound]
  /\ UNCHANGED <<cacheVars, list, open, held, asked, ids, todo, stale, fetch, excuse>>

Unwound(c) ==
  /\ pc[c] = "unwind" /\ held[c] = {}
  /\ pc' = [pc EXCEPT ![c] = "failed"]
  /\ UNCHANGED <<cacheVars, list, open, held, taskVars, excuse>>

(***************************************************************************)

Edit ==
  \/ \E i \in Changing : Commit(i) \/ Expire(i) \/ Evict(i)
  \/ \E e \in unclear : Clear(e)

Lock(c) ==
  \/ \E k \in Keys : Acquire(c, k) \/ ServeStale(c, k) \/ Subscribe(c, k)
  \/ Start(c)

FetchTask(c) == Query(c) \/ Store(c)

Drop(c) == \E k \in Keys : OpenLatch(c, k) \/ Unlist(c, k)

WaitTask(c) == (\E s \in subs[c] : Wake(c, s)) \/ ReadAgain(c)

Step(c) == Lock(c) \/ FetchTask(c) \/ Drop(c) \/ WaitTask(c) \/ Return(c) \/ Unwound(c)

Next ==
  \/ Edit
  \/ \E c \in Calls :
       \/ \E K \in SUBSET Keys : K # {} /\ Lookup(c, K)
       \/ Step(c)
       \/ Abort(c)

Spec == Init /\ [][Next]_vars

\* The tasks of a call are polled and its query ends; an expired wait is not
\* needed for a call to end.
Fairness == \A c \in Calls : WF_vars(Step(c))

(***************************************************************************)
(* Properties                                                               *)
(***************************************************************************)

Fetching(c) == fetch[c] \in {"query", "store"} /\ pc[c] = "run"

\* The stampede protection: within a process no two calls are fetching the
\* same key from the database at a time.
SingleFlight ==
  \A c, d \in Calls : c # d /\ Fetching(c) /\ Fetching(d) => ids[c] \cap ids[d] = {}

\* The waits are not circular.  A call that waits at a latch waits for one that
\* is not itself held up by a wait: it is still locking, fetches, or drops.
WaitsForFetch ==
  \A c \in Calls : \A s \in subs[c] :
    LET w == s.writer IN
      \/ s.key \in open[w]
      \/ pc[w] \in {"lock", "unwind"}
      \/ pc[w] = "run" /\ fetch[w] # "none"

(***************************************************************************)
(* The inductive invariant                                                  *)
(***************************************************************************)

\* The list and the sentinels agree.
ListInv == \A c \in Calls, k \in Keys : list[k] = c <=> k \in held[c]

\* A call fetches the keys it has sentinels on, and no others.
PhaseInv(c) ==
  /\ pc[c] \in {"idle", "lock"} => fetch[c] = "none"
  /\ pc[c] \in {"idle", "done", "failed"} => held[c] = {}
  /\ pc[c] = "lock" => ids[c] = todo[c] \cup held[c] /\ todo[c] \cap held[c] = {}
  /\ pc[c] = "run" /\ fetch[c] = "none" => held[c] = {}
  /\ Fetching(c) => ids[c] = held[c]

\* The latch a call waits at is open, or its owner still holds it.
SubInv ==
  \A c \in Calls : \A s \in subs[c] : s.key \in open[s.writer] \cup held[s.writer]

IInv == TypeOK /\ ListInv /\ (\A c \in Calls : PhaseInv(c)) /\ SubInv

\* The version of item i that call c returns, 0 for none: what was read again
\* replaces what was fetched, and that what was found first.
Result(c, i) ==
  LET f == found[c] IN
  IF f.reread[i] > 0 THEN f.reread[i]
  ELSE IF f.fetched[i] > 0 THEN f.fetched[i] ELSE f.cached[i]

\* Rows are never deleted here, and yet a call may report one as missing: after
\* a wait it takes what Redis has, and asks nobody when that is nothing.  This
\* happens only to a call that was disturbed: the value was cleared while it, or
\* the call it waited for, was under way, or the call it waited for failed.
NothingLost ==
  \A c \in Calls : pc[c] = "done" =>
    \A k \in asked[c] : Result(c, ItemOf[k]) > 0 \/ ItemOf[k] \in excuse[c]

\* The cache has a version that is not the row's, and nobody is about to clear it.
Stranded(i) ==
  /\ entry[i].version > 0 /\ entry[i].version # row[i]
  /\ \A e \in unclear : e.item # i

\* A value becomes stale for good in one way only: a call that read the row
\* before an edit stores it after the edit's clear.
StrandedByLateStore ==
  [][ \A i \in Items : Stranded(i)' /\ ~Stranded(i) =>
        \E c \in Calls : /\ fetch[c] = "store" /\ fetch'[c] = "stored"
                         /\ found[c].fetched[i] \in 1..(row[i] - 1) ]_vars

\* Every call returns or fails, though no wait is timed out for it.
CallsEnd == <>[](\A c \in Calls : pc[c] \in {"idle", "done", "failed"})
=============================================================================
