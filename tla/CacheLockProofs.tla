-------------------------- MODULE CacheLockProofs --------------------------
(***************************************************************************)
(* Proofs about the cache that MCSafety puts beside other components, for   *)
(* any number of calls, keys and items: the inductive invariant             *)
(* Cache!IInv, and from it that fetches are single-flight and that no wait  *)
(* is circular.                                                             *)
(***************************************************************************)
EXTENDS MCSafety, TLAPS

\* What an action of call c may be.
OneOf(c) ==
  \/ \E K \in SUBSET Keys : Cache!Lookup(c, K)
  \/ \E k \in Keys : Cache!Acquire(c, k) \/ Cache!ServeStale(c, k) \/ Cache!Subscribe(c, k)
  \/ Cache!Start(c) \/ Cache!Query(c) \/ Cache!Store(c)
  \/ \E k \in Keys : Cache!OpenLatch(c, k) \/ Cache!Unlist(c, k)
  \/ \E s \in subs[c] : Cache!Wake(c, s)
  \/ Cache!ReadAgain(c) \/ Cache!Return(c) \/ Cache!Abort(c) \/ Cache!Unwound(c)

\* A step is an editor's, or one of a call.
LEMMA StepKinds ==
  ASSUME Cache!Next
  PROVE  Cache!Edit \/ \E c \in Calls : OneOf(c)
BY DEF Cache!Next, OneOf, Cache!Step, Cache!Lock, Cache!FetchTask, Cache!Drop, Cache!WaitTask

\* It holds at the start.
LEMMA InitIInv ==
  ASSUME Cache!Init
  PROVE  Cache!IInv
<1> USE CacheAssumption
<1>1. Cache!TypeOK
  <2>1. /\ Cache!NoEntry \in [version : 0..MaxVersion, expired : BOOLEAN]
        /\ Cache!Fresh(1) \in [version : 0..MaxVersion, expired : BOOLEAN]
    BY DEF Cache!NoEntry, Cache!Fresh
  <2>2. entry \in [Items -> [version : 0..MaxVersion, expired : BOOLEAN]]
    BY <2>1 DEF Cache!Init
  <2>3. Cache!Nothing \in Cache!Versions
    BY DEF Cache!Nothing, Cache!Versions
  <2>4. Cache!NotFound \in [cached : Cache!Versions, fetched : Cache!Versions, reread : Cache!Versions]
    BY <2>3 DEF Cache!NotFound
  <2>5. row \in [Items -> Cache!Version]
    BY DEF Cache!Init, Cache!Version
  <2> HIDE DEF Cache!NoEntry, Cache!Fresh
  <2>. QED  BY <2>2, <2>3, <2>4, <2>5 DEF Cache!Init, Cache!TypeOK
<1>2. Cache!ListInv
  BY DEF Cache!Init, Cache!ListInv
<1>3. \A c \in Calls : Cache!PhaseInv(c)
  BY DEF Cache!Init, Cache!PhaseInv, Cache!Fetching
<1>4. Cache!SubInv
  BY DEF Cache!Init, Cache!SubInv
<1>. QED  BY <1>1, <1>2, <1>3, <1>4 DEF Cache!IInv

(***************************************************************************)
(* Types                                                                    *)
(***************************************************************************)

\* Reading Redis yields versions.
LEMMA ReadType ==
  ASSUME Cache!TypeOK, NEW I
  PROVE  Cache!Read(I) \in Cache!Versions
BY CacheAssumption DEF Cache!TypeOK, Cache!Read, Cache!Versions

\* The types through an edit...
LEMMA EditTypeOK ==
  ASSUME Cache!TypeOK, Cache!Edit
  PROVE  Cache!TypeOK'
<1> USE CacheAssumption
<1>1. ASSUME NEW i \in Items, Cache!Commit(i)
      PROVE  Cache!TypeOK'
  <2>1. row[i] \in Nat /\ row[i] + 1 \in Cache!Version
    BY <1>1 DEF Cache!TypeOK, Cache!Version, Cache!Commit, Cache!Raise
  <2>2. row' \in [Items -> Cache!Version] /\ row'[i] \in Cache!Version
    BY <1>1, <2>1 DEF Cache!TypeOK, Cache!Commit, Cache!Raise
  <2>3. unclear' \subseteq [item : Items, version : Cache!Version]
    BY <1>1, <2>2 DEF Cache!TypeOK, Cache!Commit
  <2>. QED  BY <1>1, <2>2, <2>3 DEF Cache!TypeOK, Cache!Commit, Cache!callVars, Cache!taskVars
<1>2. ASSUME NEW i \in Items, Cache!Expire(i)
      PROVE  Cache!TypeOK'
  <2>1. /\ entry[i] \in [version : 0..MaxVersion, expired : BOOLEAN]
        /\ entry' = [entry EXCEPT ![i] = [entry[i] EXCEPT !.expired = TRUE]]
    BY <1>2 DEF Cache!TypeOK, Cache!Expire
  <2>2. [entry[i] EXCEPT !.expired = TRUE]
          \in [version : 0..MaxVersion, expired : BOOLEAN]
    BY <2>1
  <2>3. entry' \in [Items -> [version : 0..MaxVersion, expired : BOOLEAN]]
    BY <2>1, <2>2 DEF Cache!TypeOK
  <2>. QED  BY <1>2, <2>3 DEF Cache!TypeOK, Cache!Expire, Cache!callVars, Cache!taskVars
<1>3. ASSUME NEW i \in Items, Cache!Remove(i), unclear' \subseteq unclear
      PROVE  Cache!TypeOK'
  <2>1. entry' \in [Items -> [version : 0..MaxVersion, expired : BOOLEAN]]
    BY <1>3 DEF Cache!TypeOK, Cache!Remove, Cache!NoEntry
  <2>2. excuse' \in [Calls -> SUBSET Items]
    BY <1>3 DEF Cache!TypeOK, Cache!Remove
  <2>. QED  BY <1>3, <2>1, <2>2 DEF Cache!TypeOK, Cache!Remove, Cache!callVars, Cache!taskVars
<1>4. ASSUME NEW i \in Items, Cache!Evict(i)
      PROVE  Cache!TypeOK'
  BY <1>3, <1>4 DEF Cache!Evict
<1>5. ASSUME NEW e \in unclear, Cache!Clear(e)
      PROVE  Cache!TypeOK'
  <2>1. e.item \in Items
    BY DEF Cache!TypeOK
  <2>. QED  BY <1>3, <1>5, <2>1 DEF Cache!Clear
<1>. QED  BY <1>1, <1>2, <1>4, <1>5 DEF Cache!Edit

\* ...and through a step of a call.
LEMMA CallTypeOK ==
  ASSUME Cache!TypeOK, NEW c \in Calls, OneOf(c)
  PROVE  Cache!TypeOK'
<1> USE CacheAssumption DEF Cache!cacheVars, Cache!taskVars
<1>1. ASSUME NEW K \in SUBSET Keys, Cache!Lookup(c, K)
      PROVE  Cache!TypeOK'
  <2> DEFINE fresh == {i \in Cache!ItemsOf(K) : entry[i].version > 0 /\ ~entry[i].expired}
             want  == {k \in K : ItemOf[k] \in fresh => k \notin Spelled}
  <2>1. want \in SUBSET Keys
    OBVIOUS
  <2>2. Cache!Read(fresh) \in Cache!Versions /\ Cache!Read(Cache!ItemsOf(K) \ fresh) \in Cache!Versions
    BY ReadType
  <2>3. /\ asked' = [asked EXCEPT ![c] = K]
        /\ found' = [found EXCEPT ![c].cached = Cache!Read(fresh)]
        /\ stale' = [stale EXCEPT ![c] = Cache!Read(Cache!ItemsOf(K) \ fresh)]
        /\ ids' = [ids EXCEPT ![c] = want]
        /\ todo' = [todo EXCEPT ![c] = want]
        /\ cachePc' = [cachePc EXCEPT ![c] = "lock"]
        /\ UNCHANGED <<Cache!cacheVars, list, open, held, subs, woken, fetch, excuse>>
    BY <1>1 DEF Cache!Lookup
  <2> HIDE DEF fresh, want
  <2>4. found' \in [Calls -> [cached : Cache!Versions, fetched : Cache!Versions, reread : Cache!Versions]]
    BY <2>2, <2>3 DEF Cache!TypeOK
  <2>5. /\ asked' \in [Calls -> SUBSET Keys]
        /\ stale' \in [Calls -> Cache!Versions]
        /\ ids' \in [Calls -> SUBSET Keys]
        /\ todo' \in [Calls -> SUBSET Keys]
    BY <2>1, <2>2, <2>3 DEF Cache!TypeOK
  <2>. QED  BY <2>3, <2>4, <2>5 DEF Cache!TypeOK
<1>2. ASSUME NEW k \in Keys, Cache!Acquire(c, k)
      PROVE  Cache!TypeOK'
  BY <1>2 DEF Cache!Acquire, Cache!TypeOK
<1>3. ASSUME NEW k \in Keys, Cache!ServeStale(c, k)
      PROVE  Cache!TypeOK'
  <2> DEFINE i == ItemOf[k]
  <2>1. i \in Items /\ stale[c] \in Cache!Versions
    BY DEF Cache!TypeOK
  <2>2. stale[c][i] \in 0..MaxVersion
    BY <2>1 DEF Cache!Versions
  <2>3. [stale[c] EXCEPT ![i] = 0] \in Cache!Versions
    BY <2>1 DEF Cache!Versions
  <2>4. stale' \in [Calls -> Cache!Versions]
    BY <1>3, <2>3 DEF Cache!ServeStale, Cache!TypeOK
  <2>5. found[c] \in [cached : Cache!Versions, fetched : Cache!Versions, reread : Cache!Versions]
    BY DEF Cache!TypeOK
  <2>6. [found[c].cached EXCEPT ![i] = stale[c][i]] \in Cache!Versions
    BY <2>1, <2>2, <2>5 DEF Cache!Versions
  <2>7. found' = [found EXCEPT ![c] =
                   [found[c] EXCEPT !.cached = [found[c].cached EXCEPT ![i] = stale[c][i]]]]
    BY <1>3 DEF Cache!ServeStale
  <2>8. found' \in [Calls -> [cached : Cache!Versions, fetched : Cache!Versions, reread : Cache!Versions]]
    BY <2>5, <2>6, <2>7 DEF Cache!TypeOK
  <2>. QED  BY <1>3, <2>4, <2>8 DEF Cache!ServeStale, Cache!TypeOK
<1>4. ASSUME NEW k \in Keys, Cache!Subscribe(c, k)
      PROVE  Cache!TypeOK'
  <2>1. list[k] \in Calls
    BY <1>4 DEF Cache!Subscribe, Cache!TypeOK
  <2>. QED  BY <1>4, <2>1 DEF Cache!Subscribe, Cache!TypeOK
<1>5. CASE Cache!Start(c)
  BY <1>5 DEF Cache!Start, Cache!TypeOK, Cache!Nothing, Cache!Versions
<1>6. CASE Cache!Query(c)
  <2> DEFINE now == [i \in Items |-> IF i \in Cache!ItemsOf(ids[c]) THEN row[i] ELSE 0]
  <2>1. now \in Cache!Versions
    BY DEF Cache!TypeOK, Cache!Versions, Cache!Version
  <2>2. /\ found' = [found EXCEPT ![c].fetched = now]
        /\ fetch' = [fetch EXCEPT ![c] = "store"]
        /\ UNCHANGED <<Cache!cacheVars, list, open, held, cachePc, asked, ids, todo, stale,
                       subs, woken, excuse>>
    BY <1>6 DEF Cache!Query
  <2> HIDE DEF now
  <2>. QED  BY <2>1, <2>2 DEF Cache!TypeOK
<1>7. CASE Cache!Store(c)
  <2>1. found[c].fetched \in [Items -> 0..MaxVersion]
    BY DEF Cache!TypeOK, Cache!Versions
  <2>2. entry' \in [Items -> [version : 0..MaxVersion, expired : BOOLEAN]]
    BY <1>7, <2>1 DEF Cache!Store, Cache!TypeOK, Cache!Fresh
  <2>. QED  BY <1>7, <2>2 DEF Cache!Store, Cache!TypeOK
<1>8. ASSUME NEW k \in Keys, Cache!OpenLatch(c, k) \/ Cache!Unlist(c, k)
      PROVE  Cache!TypeOK'
  <2>1. /\ open' \in [Calls -> SUBSET Keys]
        /\ held' \in [Calls -> SUBSET Keys]
        /\ list' \in [Keys -> Calls \cup {NoCall}]
    <3>1. CASE Cache!OpenLatch(c, k)
      BY <3>1 DEF Cache!OpenLatch, Cache!TypeOK
    <3>2. CASE Cache!Unlist(c, k)
      <4>1. list' = [list EXCEPT ![k] = NoCall] /\ held' = [held EXCEPT ![c] = @ \ {k}]
            /\ open' = open
        BY <3>2 DEF Cache!Unlist
      <4>. QED  BY <4>1 DEF Cache!TypeOK
    <3>. QED  BY <1>8, <3>1, <3>2
  <2>2. UNCHANGED <<Cache!cacheVars, cachePc, Cache!taskVars, excuse>>
    BY <1>8 DEF Cache!OpenLatch, Cache!Unlist
  <2>. QED  BY <2>1, <2>2 DEF Cache!TypeOK
<1>9. ASSUME NEW s \in subs[c], Cache!Wake(c, s)
      PROVE  Cache!TypeOK'
  <2>1. s.key \in Keys /\ ItemOf[s.key] \in Items
    BY DEF Cache!TypeOK
  <2>. QED  BY <1>9, <2>1 DEF Cache!Wake, Cache!TypeOK
<1>10. CASE Cache!ReadAgain(c)
  <2> DEFINE now == Cache!Read(Cache!ItemsOf(woken[c]))
  <2>1. now \in Cache!Versions
    BY ReadType
  <2>2. /\ found' = [found EXCEPT ![c].reread = now]
        /\ woken' = [woken EXCEPT ![c] = {}]
        /\ UNCHANGED <<Cache!cacheVars, list, open, held, cachePc, asked, ids, todo, stale,
                       subs, fetch, excuse>>
    BY <1>10 DEF Cache!ReadAgain
  <2> HIDE DEF now
  <2>3. found' \in [Calls -> [cached : Cache!Versions, fetched : Cache!Versions, reread : Cache!Versions]]
    BY <2>1, <2>2 DEF Cache!TypeOK
  <2>. QED  BY <2>2, <2>3 DEF Cache!TypeOK
<1>11. CASE Cache!Return(c) \/ Cache!Unwound(c)
  BY <1>11 DEF Cache!Return, Cache!Unwound, Cache!TypeOK
<1>12. CASE Cache!Abort(c)
  <2>1. Cache!NotFound \in [cached : Cache!Versions, fetched : Cache!Versions, reread : Cache!Versions]
    BY DEF Cache!NotFound, Cache!Nothing, Cache!Versions
  <2>2. found' \in [Calls -> [cached : Cache!Versions, fetched : Cache!Versions, reread : Cache!Versions]]
    BY <1>12, <2>1 DEF Cache!Abort, Cache!TypeOK
  <2>3. cachePc' \in [Calls -> {"idle", "lock", "run", "unwind", "done", "failed"}]
    BY <1>12 DEF Cache!Abort, Cache!TypeOK
  <2>. QED  BY <1>12, <2>2, <2>3 DEF Cache!Abort, Cache!TypeOK
<1>. QED  BY <1>1, <1>2, <1>3, <1>4, <1>5, <1>6, <1>7, <1>8, <1>9, <1>10, <1>11, <1>12
             DEF OneOf

\* So through every step.
LEMMA NextTypeOK ==
  ASSUME Cache!TypeOK, [Cache!Next]_(Cache!vars)
  PROVE  Cache!TypeOK'
<1>1. CASE Cache!Next
  BY <1>1, StepKinds, EditTypeOK, CallTypeOK
<1>2. CASE UNCHANGED Cache!vars
  BY <1>2 DEF Cache!vars, Cache!callVars, Cache!cacheVars, Cache!taskVars, Cache!TypeOK
<1>. QED  BY <1>1, <1>2

(***************************************************************************)
(* The inductive invariant                                                  *)
(***************************************************************************)

\* Editors leave the calls alone.
LEMMA EditKeeps ==
  ASSUME Cache!IInv, Cache!Edit
  PROVE  Cache!IInv'
<1>1. Cache!TypeOK'
  BY EditTypeOK DEF Cache!IInv
<1>2. UNCHANGED Cache!callVars
  BY DEF Cache!Edit, Cache!Commit, Cache!Clear, Cache!Expire, Cache!Evict, Cache!Remove
<1>. QED
  BY <1>1, <1>2
     DEF Cache!IInv, Cache!ListInv, Cache!PhaseInv, Cache!SubInv, Cache!Fetching,
         Cache!callVars, Cache!taskVars

\* A call changes its own part of the state, and no lock but those it takes.
LEMMA OwnPart ==
  ASSUME Cache!TypeOK, NEW c \in Calls, OneOf(c), NEW d \in Calls, d # c
  PROVE  /\ held'[d] = held[d] /\ open'[d] = open[d] /\ cachePc'[d] = cachePc[d]
         /\ ids'[d] = ids[d] /\ todo'[d] = todo[d]
         /\ subs'[d] = subs[d] /\ fetch'[d] = fetch[d]
<1> DEFINE Same == /\ held'[d] = held[d] /\ open'[d] = open[d] /\ cachePc'[d] = cachePc[d]
                   /\ ids'[d] = ids[d] /\ todo'[d] = todo[d]
                   /\ subs'[d] = subs[d] /\ fetch'[d] = fetch[d]
<1>1. ASSUME NEW K \in SUBSET Keys, Cache!Lookup(c, K)
      PROVE  Same
  BY <1>1 DEF Cache!Lookup, Cache!TypeOK, Cache!taskVars
<1>2. ASSUME NEW k \in Keys, Cache!Acquire(c, k)
      PROVE  Same
  BY <1>2 DEF Cache!Acquire, Cache!TypeOK, Cache!taskVars
<1>3. ASSUME NEW k \in Keys, Cache!ServeStale(c, k)
      PROVE  Same
  BY <1>3 DEF Cache!ServeStale, Cache!TypeOK, Cache!taskVars
<1>4. ASSUME NEW k \in Keys, Cache!Subscribe(c, k)
      PROVE  Same
  BY <1>4 DEF Cache!Subscribe, Cache!TypeOK, Cache!taskVars
<1>5. CASE Cache!Start(c)
  BY <1>5 DEF Cache!Start, Cache!TypeOK, Cache!taskVars
<1>6. CASE Cache!Query(c)
  BY <1>6 DEF Cache!Query, Cache!TypeOK, Cache!taskVars
<1>7. CASE Cache!Store(c)
  BY <1>7 DEF Cache!Store, Cache!TypeOK, Cache!taskVars
<1>8. ASSUME NEW k \in Keys, Cache!OpenLatch(c, k)
      PROVE  Same
  BY <1>8 DEF Cache!OpenLatch, Cache!TypeOK, Cache!taskVars
<1>9. ASSUME NEW k \in Keys, Cache!Unlist(c, k)
      PROVE  Same
  BY <1>9 DEF Cache!Unlist, Cache!TypeOK, Cache!taskVars
<1>10. ASSUME NEW s \in subs[c], Cache!Wake(c, s)
      PROVE  Same
  BY <1>10 DEF Cache!Wake, Cache!TypeOK, Cache!taskVars
<1>11. CASE Cache!ReadAgain(c)
  BY <1>11 DEF Cache!ReadAgain, Cache!TypeOK, Cache!taskVars
<1>12. CASE Cache!Return(c)
  BY <1>12 DEF Cache!Return, Cache!TypeOK, Cache!taskVars
<1>13. CASE Cache!Abort(c)
  BY <1>13 DEF Cache!Abort, Cache!TypeOK, Cache!taskVars
<1>14. CASE Cache!Unwound(c)
  BY <1>14 DEF Cache!Unwound, Cache!TypeOK, Cache!taskVars
<1>. QED  BY <1>1, <1>2, <1>3, <1>4, <1>5, <1>6, <1>7, <1>8, <1>9, <1>10, <1>11, <1>12,
             <1>13, <1>14
             DEF OneOf

\* The lock on a key is taken when it is free and given back by its holder.
LEMMA StepListInv ==
  ASSUME Cache!TypeOK, Cache!ListInv, NEW c \in Calls, OneOf(c)
  PROVE  Cache!ListInv'
<1> USE CacheAssumption
<1>1. ASSUME NEW k \in Keys, Cache!Acquire(c, k)
      PROVE  Cache!ListInv'
  BY <1>1 DEF Cache!Acquire, Cache!ListInv, Cache!TypeOK
<1>2. ASSUME NEW k \in Keys, Cache!Unlist(c, k)
      PROVE  Cache!ListInv'
  BY <1>2 DEF Cache!Unlist, Cache!ListInv, Cache!TypeOK
<1>3. CASE UNCHANGED <<list, held>>
  BY <1>3 DEF Cache!ListInv
<1>. QED
  BY <1>1, <1>2, <1>3
     DEF OneOf, Cache!Lookup, Cache!ServeStale, Cache!Subscribe, Cache!Start, Cache!Query,
         Cache!Store, Cache!OpenLatch, Cache!Wake, Cache!ReadAgain, Cache!Return,
         Cache!Abort, Cache!Unwound, Cache!taskVars

\* Taking the expired value strikes out the one key it was asked for.
LEMMA StaleKeys ==
  ASSUME NEW c \in Calls, NEW k \in Keys, Cache!ServeStale(c, k), Cache!TypeOK
  PROVE  ids'[c] = ids[c] \ {k}
<1>1. Primary = Keys /\ Spelled = Keys /\ \A l, n \in Keys : ItemOf[l] = ItemOf[n] => l = n
  BY CacheAssumption DEF Cache!ServeStale, Cache!Servable
<1>2. {k} \cup {l \in Spelled : ItemOf[l] = ItemOf[k]} = {k}
  BY <1>1
<1>. QED  BY <1>2 DEF Cache!ServeStale, Cache!TypeOK

\* A step of a call keeps what its phase says.
LEMMA StepPhaseInv ==
  ASSUME Cache!TypeOK, Cache!ListInv, \A d \in Calls : Cache!PhaseInv(d), NEW c \in Calls, OneOf(c)
  PROVE  \A d \in Calls : Cache!PhaseInv(d)'
<1>1. ASSUME NEW d \in Calls, d # c
      PROVE  Cache!PhaseInv(d)'
  BY <1>1, OwnPart DEF Cache!PhaseInv, Cache!Fetching
<1>2. Cache!PhaseInv(c)'
  <2>1. ASSUME NEW K \in SUBSET Keys, Cache!Lookup(c, K)
        PROVE  Cache!PhaseInv(c)'
    <3>1. cachePc[c] = "idle" /\ held[c] = {} /\ fetch[c] = "none"
      BY <2>1 DEF Cache!Lookup, Cache!PhaseInv
    <3>2. held'[c] = {} /\ fetch'[c] = "none" /\ cachePc'[c] = "lock" /\ ids'[c] = todo'[c]
      BY <2>1, <3>1 DEF Cache!Lookup, Cache!TypeOK
    <3>. QED  BY <3>2 DEF Cache!PhaseInv, Cache!Fetching
  <2>2. ASSUME NEW k \in Keys, Cache!Acquire(c, k)
        PROVE  Cache!PhaseInv(c)'
    BY <2>2 DEF Cache!Acquire, Cache!PhaseInv, Cache!Fetching, Cache!TypeOK
  <2>3. ASSUME NEW k \in Keys, Cache!ServeStale(c, k)
        PROVE  Cache!PhaseInv(c)'
    <3>1. ids'[c] = ids[c] \ {k}
      BY <2>3, StaleKeys
    <3>. QED  BY <2>3, <3>1 DEF Cache!ServeStale, Cache!PhaseInv, Cache!Fetching, Cache!TypeOK
  <2>4. ASSUME NEW k \in Keys, Cache!Subscribe(c, k)
        PROVE  Cache!PhaseInv(c)'
    BY <2>4 DEF Cache!Subscribe, Cache!PhaseInv, Cache!Fetching, Cache!TypeOK
  <2>5. CASE Cache!Start(c)
    <3>1. /\ cachePc[c] = "lock" /\ todo[c] = {}
          /\ cachePc'[c] = "run" /\ held'[c] = held[c] /\ ids'[c] = ids[c]
          /\ fetch'[c] = IF ids[c] = {} THEN "none" ELSE "query"
      BY <2>5 DEF Cache!Start, Cache!TypeOK
    <3>2. ids[c] = held[c]
      BY <3>1 DEF Cache!PhaseInv
    <3>. QED  BY <3>1, <3>2 DEF Cache!PhaseInv, Cache!Fetching
  <2>6. CASE Cache!Query(c) \/ Cache!Store(c)
    BY <2>6 DEF Cache!Query, Cache!Store, Cache!PhaseInv, Cache!Fetching, Cache!TypeOK
  <2>7. ASSUME NEW k \in Keys, Cache!OpenLatch(c, k)
        PROVE  Cache!PhaseInv(c)'
    BY <2>7 DEF Cache!OpenLatch, Cache!PhaseInv, Cache!Fetching, Cache!taskVars
  <2>8. ASSUME NEW k \in Keys, Cache!Unlist(c, k)
        PROVE  Cache!PhaseInv(c)'
    BY <2>8
       DEF Cache!Unlist, Cache!Dropping, Cache!PhaseInv, Cache!Fetching, Cache!TypeOK,
           Cache!taskVars
  <2>9. CASE Cache!ReadAgain(c) \/ \E s \in subs[c] : Cache!Wake(c, s)
    BY <2>9 DEF Cache!ReadAgain, Cache!Wake, Cache!PhaseInv, Cache!Fetching
  <2>10. CASE Cache!Return(c) \/ Cache!Abort(c) \/ Cache!Unwound(c)
    BY <2>10
       DEF Cache!Return, Cache!Abort, Cache!Unwound, Cache!PhaseInv, Cache!Fetching,
           Cache!TypeOK, Cache!taskVars
  <2>. QED  BY <2>1, <2>2, <2>3, <2>4, <2>5, <2>6, <2>7, <2>8, <2>9, <2>10 DEF OneOf
<1>. QED  BY <1>1, <1>2

\* A lock is given back after its latch has been opened, and a latch stays open.
LEMMA OwnersStay ==
  ASSUME Cache!TypeOK, NEW c \in Calls, OneOf(c), NEW d \in Calls
  PROVE  open[d] \cup held[d] \subseteq open'[d] \cup held'[d]
<1>1. CASE d # c
  BY <1>1, OwnPart
<1>2. CASE d = c
  <2>1. ASSUME NEW K \in SUBSET Keys, Cache!Lookup(c, K)
        PROVE  open[c] \cup held[c] \subseteq open'[c] \cup held'[c]
    BY <2>1 DEF Cache!Lookup, Cache!TypeOK, Cache!taskVars
  <2>2. ASSUME NEW k \in Keys, Cache!Acquire(c, k)
        PROVE  open[c] \cup held[c] \subseteq open'[c] \cup held'[c]
    BY <2>2 DEF Cache!Acquire, Cache!TypeOK, Cache!taskVars
  <2>3. ASSUME NEW k \in Keys, Cache!ServeStale(c, k)
        PROVE  open[c] \cup held[c] \subseteq open'[c] \cup held'[c]
    BY <2>3 DEF Cache!ServeStale, Cache!TypeOK, Cache!taskVars
  <2>4. ASSUME NEW k \in Keys, Cache!Subscribe(c, k)
        PROVE  open[c] \cup held[c] \subseteq open'[c] \cup held'[c]
    BY <2>4 DEF Cache!Subscribe, Cache!TypeOK, Cache!taskVars
  <2>5. CASE Cache!Start(c)
    BY <2>5 DEF Cache!Start, Cache!TypeOK, Cache!taskVars
  <2>6. CASE Cache!Query(c)
    BY <2>6 DEF Cache!Query, Cache!TypeOK, Cache!taskVars
  <2>7. CASE Cache!Store(c)
    BY <2>7 DEF Cache!Store, Cache!TypeOK, Cache!taskVars
  <2>8. ASSUME NEW k \in Keys, Cache!OpenLatch(c, k)
        PROVE  open[c] \cup held[c] \subseteq open'[c] \cup held'[c]
    BY <2>8 DEF Cache!OpenLatch, Cache!TypeOK, Cache!taskVars
  <2>9. ASSUME NEW k \in Keys, Cache!Unlist(c, k)
        PROVE  open[c] \cup held[c] \subseteq open'[c] \cup held'[c]
    BY <2>9 DEF Cache!Unlist, Cache!TypeOK, Cache!taskVars
  <2>10. ASSUME NEW s \in subs[c], Cache!Wake(c, s)
        PROVE  open[c] \cup held[c] \subseteq open'[c] \cup held'[c]
    BY <2>10 DEF Cache!Wake, Cache!TypeOK, Cache!taskVars
  <2>11. CASE Cache!ReadAgain(c)
    BY <2>11 DEF Cache!ReadAgain, Cache!TypeOK, Cache!taskVars
  <2>12. CASE Cache!Return(c)
    BY <2>12 DEF Cache!Return, Cache!TypeOK, Cache!taskVars
  <2>13. CASE Cache!Abort(c)
    BY <2>13 DEF Cache!Abort, Cache!TypeOK, Cache!taskVars
  <2>14. CASE Cache!Unwound(c)
    BY <2>14 DEF Cache!Unwound, Cache!TypeOK, Cache!taskVars
  <2>. QED  BY <1>2, <2>1, <2>2, <2>3, <2>4, <2>5, <2>6, <2>7, <2>8, <2>9, <2>10, <2>11,
               <2>12, <2>13, <2>14
               DEF OneOf
<1>. QED  BY <1>1, <1>2

\* A latch that is waited at is open or still held, after every step of a call.
LEMMA StepSubInv ==
  ASSUME Cache!TypeOK, Cache!ListInv, Cache!SubInv, NEW c \in Calls, OneOf(c)
  PROVE  Cache!SubInv'
<1> SUFFICES ASSUME NEW d \in Calls, NEW s \in subs'[d]
             PROVE  s.key \in open'[s.writer] \cup held'[s.writer]
  BY DEF Cache!SubInv
<1>1. CASE s \in subs[d]
  <2>1. s.writer \in Calls /\ s.key \in open[s.writer] \cup held[s.writer]
    BY <1>1 DEF Cache!SubInv, Cache!TypeOK
  <2>. QED  BY <2>1, OwnersStay
<1>2. ASSUME NEW k \in Keys, Cache!Subscribe(c, k), s \notin subs[d]
      PROVE  s.key \in open'[s.writer] \cup held'[s.writer]
  <2>1. s = [key |-> k, writer |-> list[k]]
    BY <1>2 DEF Cache!Subscribe, Cache!TypeOK
  <2>2. list[k] \in Calls
    BY <1>2 DEF Cache!Subscribe, Cache!TypeOK
  <2>3. k \in held[list[k]]
    BY <2>2 DEF Cache!ListInv
  <2>. QED  BY <2>1, <2>2, <2>3, OwnersStay
<1>3. CASE \A k \in Keys : ~Cache!Subscribe(c, k)
  <2>1. subs'[d] \subseteq subs[d]
    <3>1. CASE d # c
      BY <3>1, OwnPart
    <3>2. CASE d = c
      <4>1. ASSUME NEW K \in SUBSET Keys, Cache!Lookup(c, K)
            PROVE  subs'[c] \subseteq subs[c]
        BY <4>1 DEF Cache!Lookup, Cache!TypeOK, Cache!taskVars
      <4>2. ASSUME NEW k \in Keys, Cache!Acquire(c, k)
            PROVE  subs'[c] \subseteq subs[c]
        BY <4>2 DEF Cache!Acquire, Cache!TypeOK, Cache!taskVars
      <4>3. ASSUME NEW k \in Keys, Cache!ServeStale(c, k)
            PROVE  subs'[c] \subseteq subs[c]
        BY <4>3 DEF Cache!ServeStale, Cache!TypeOK, Cache!taskVars
      <4>4. CASE Cache!Start(c)
        BY <4>4 DEF Cache!Start, Cache!TypeOK, Cache!taskVars
      <4>5. CASE Cache!Query(c)
        BY <4>5 DEF Cache!Query, Cache!TypeOK, Cache!taskVars
      <4>6. CASE Cache!Store(c)
        BY <4>6 DEF Cache!Store, Cache!TypeOK, Cache!taskVars
      <4>7. ASSUME NEW k \in Keys, Cache!OpenLatch(c, k)
            PROVE  subs'[c] \subseteq subs[c]
        BY <4>7 DEF Cache!OpenLatch, Cache!TypeOK, Cache!taskVars
      <4>8. ASSUME NEW k \in Keys, Cache!Unlist(c, k)
            PROVE  subs'[c] \subseteq subs[c]
        BY <4>8 DEF Cache!Unlist, Cache!TypeOK, Cache!taskVars
      <4>9. ASSUME NEW t \in subs[c], Cache!Wake(c, t)
            PROVE  subs'[c] \subseteq subs[c]
        BY <4>9 DEF Cache!Wake, Cache!TypeOK, Cache!taskVars
      <4>10. CASE Cache!ReadAgain(c)
        BY <4>10 DEF Cache!ReadAgain, Cache!TypeOK, Cache!taskVars
      <4>11. CASE Cache!Return(c)
        BY <4>11 DEF Cache!Return, Cache!TypeOK, Cache!taskVars
      <4>12. CASE Cache!Abort(c)
        BY <4>12 DEF Cache!Abort, Cache!TypeOK, Cache!taskVars
      <4>13. CASE Cache!Unwound(c)
        BY <4>13 DEF Cache!Unwound, Cache!TypeOK, Cache!taskVars
      <4>. QED  BY <1>3, <3>2, <4>1, <4>2, <4>3, <4>4, <4>5, <4>6, <4>7, <4>8, <4>9, <4>10,
                   <4>11, <4>12, <4>13
                   DEF OneOf
    <3>. QED  BY <3>1, <3>2
  <2>. QED  BY <1>1, <2>1
<1>. QED  BY <1>1, <1>2, <1>3

\* Every step keeps the invariant.
LEMMA NextIInv ==
  ASSUME Cache!IInv, [Cache!Next]_(Cache!vars)
  PROVE  Cache!IInv'
<1>1. CASE Cache!Edit
  BY <1>1, EditKeeps
<1>2. ASSUME NEW c \in Calls, OneOf(c)
      PROVE  Cache!IInv'
  BY <1>2, CallTypeOK, StepListInv, StepPhaseInv, StepSubInv DEF Cache!IInv
<1>3. CASE UNCHANGED Cache!vars
  BY <1>3, NextTypeOK
     DEF Cache!IInv, Cache!vars, Cache!callVars, Cache!cacheVars, Cache!taskVars,
         Cache!ListInv, Cache!PhaseInv, Cache!SubInv, Cache!Fetching
<1>. QED  BY <1>1, <1>2, <1>3, StepKinds

\* What the other components do leaves the cache alone.
LEMMA CacheOfSafety ==
  /\ SafetyInit => Cache!Init
  /\ [SafetyNext]_allVars => [Cache!Next]_(Cache!vars)
<1>1. SafetyInit => Cache!Init
  BY DEF SafetyInit
<1>2. UNCHANGED cacheVars => UNCHANGED Cache!vars
  BY DEF cacheVars, Cache!vars, Cache!cacheVars, Cache!callVars, Cache!taskVars
<1>. QED  BY <1>1, <1>2 DEF SafetyNext, allVars

\* The list, the sentinels, the keys each call fetches and the latches it waits
\* at agree in every reachable state (acquire_lock, LockSentinel::drop).
THEOREM CacheInvariant == SafetySpec => []Cache!IInv
<1>1. Cache!Init => Cache!IInv
  BY InitIInv
<1>2. Cache!IInv /\ [Cache!Next]_(Cache!vars) => Cache!IInv'
  BY NextIInv
<1>. QED  BY <1>1, <1>2, CacheOfSafety, PTL DEF SafetySpec

\* Within a process no key is fetched by two calls at a time, however many there
\* are (acquire_lock on cache_list).
THEOREM FetchesAreSingle == SafetySpec => []SingleFlight
<1>1. Cache!IInv => SingleFlight
  <2> SUFFICES ASSUME Cache!IInv,
                      NEW c \in Calls, NEW d \in Calls, c # d, Cache!Fetching(c), Cache!Fetching(d),
                      NEW k \in ids[c] \cap ids[d]
               PROVE  FALSE
    BY DEF SingleFlight, Cache!SingleFlight
  <2>1. k \in held[c] /\ k \in held[d] /\ k \in Keys
    BY DEF Cache!IInv, Cache!PhaseInv, Cache!TypeOK
  <2>2. list[k] = c /\ list[k] = d
    BY <2>1 DEF Cache!IInv, Cache!ListInv
  <2>. QED  BY <2>2
<1>. QED  BY <1>1, CacheInvariant, PTL

\* Waits are never circular: the call that is waited for is not itself held up by
\* a wait (the fetch and the waits of try_join_all run side by side).
THEOREM WaitsAreForFetches == SafetySpec => []WaitsForFetch
<1>1. Cache!IInv => WaitsForFetch
  <2> SUFFICES ASSUME Cache!IInv, NEW c \in Calls, NEW s \in subs[c],
                      s.key \notin open[s.writer]
               PROVE  \/ cachePc[s.writer] \in {"lock", "unwind"}
                      \/ cachePc[s.writer] = "run" /\ fetch[s.writer] # "none"
    BY DEF WaitsForFetch, Cache!WaitsForFetch
  <2>1. s.writer \in Calls
    BY DEF Cache!IInv, Cache!TypeOK
  <2>2. held[s.writer] # {}
    BY <2>1 DEF Cache!IInv, Cache!SubInv
  <2>3. /\ Cache!PhaseInv(s.writer)
        /\ cachePc[s.writer] \in {"idle", "lock", "run", "unwind", "done", "failed"}
    BY <2>1 DEF Cache!IInv, Cache!TypeOK
  <2>. QED  BY <2>2, <2>3 DEF Cache!PhaseInv
<1>. QED  BY <1>1, CacheInvariant, PTL

(***************************************************************************)
(* What a call reports as missing, and what stays in the cache for good     *)
(***************************************************************************)

\* What the cache has of item i is there for call c, or c is excused.
Safe(c, i) == entry[i].version > 0 \/ i \in excuse[c]

\* No fetch has read a version that the row does not have yet.
ReadInv == \A c \in Calls, i \in Items : found[c].fetched[i] <= row[i]

\* The phases of a call: when it opens latches and waits, what it locks, and when it
\* has not looked again.
HoldInv(c) ==
  /\ open[c] # {} => fetch[c] = "stored" \/ cachePc[c] \in {"unwind", "failed"}
  /\ held[c] \subseteq ids[c]
  /\ cachePc[c] = "done" => fetch[c] \in {"none", "stored"} /\ subs[c] = {} /\ woken[c] = {}
  /\ cachePc[c] \in {"run", "done"} /\ fetch[c] = "none" => ids[c] = {}
  /\ subs[c] # {} => cachePc[c] \in {"lock", "run"}
  /\ woken[c] # {} => cachePc[c] = "run"
  /\ cachePc[c] \in {"idle", "lock"} \/ subs[c] # {} \/ woken[c] # {} =>
       found[c].reread = Cache!Nothing

\* A fetch finds the rows it asks for.
FillInv(c) ==
  fetch[c] \in {"store", "stored"} /\ cachePc[c] \in {"run", "done"} =>
    \A k \in ids[c] : found[c].fetched[ItemOf[k]] > 0

\* What was stored is there for the call and for those that wait for it, or they
\* are excused.
KeptInv(c) ==
  /\ fetch[c] = "stored" => \A k \in held[c] : Safe(c, ItemOf[k])
  /\ \A s \in subs[c] : fetch[s.writer] = "stored" =>
       Safe(c, ItemOf[s.key]) \/ Safe(s.writer, ItemOf[s.key])
  /\ \A k \in woken[c] : Safe(c, ItemOf[k])

\* A key is accounted for: it is being fetched, was found, is waited for, or there
\* is an excuse.
Accounted(c, k) ==
  \/ k \in ids[c] \/ (\E s \in subs[c] : s.key = k) \/ k \in woken[c]
  \/ found[c].cached[ItemOf[k]] > 0 \/ found[c].reread[ItemOf[k]] > 0
  \/ ItemOf[k] \in excuse[c]

AnswerInv(c) ==
  cachePc[c] \in {"lock", "run", "done"} => \A k \in asked[c] : Accounted(c, k)

LossInv ==
  /\ ReadInv
  /\ \A c \in Calls : HoldInv(c) /\ FillInv(c) /\ KeptInv(c) /\ AnswerInv(c)

\* Nothing has been asked for.
LEMMA InitLossInv ==
  ASSUME Cache!Init
  PROVE  LossInv
<1>1. \A c \in Calls : found[c].reread = Cache!Nothing /\ found[c].fetched = Cache!Nothing
  BY DEF Cache!Init, Cache!NotFound
<1>2. ReadInv
  BY <1>1 DEF Cache!Init, ReadInv, Cache!Nothing
<1>3. ASSUME NEW c \in Calls
      PROVE  HoldInv(c) /\ FillInv(c) /\ KeptInv(c) /\ AnswerInv(c)
  BY <1>1 DEF Cache!Init, HoldInv, FillInv, KeptInv, AnswerInv
<1>. QED  BY <1>2, <1>3 DEF LossInv

\* Editors give those an excuse for whom they remove a value.
Excused ==
  /\ UNCHANGED Cache!callVars
  /\ \A i \in Items : row'[i] >= row[i]
  /\ \A c \in Calls : excuse[c] \subseteq excuse'[c]
  /\ \A i \in Items : \/ entry'[i].version = entry[i].version
                      \/ \A c \in Calls : cachePc[c] \in {"lock", "run", "unwind"} =>
                                            i \in excuse'[c]

\* An edit clears only what it excuses the calls for.
LEMMA EditExcuses ==
  ASSUME Cache!TypeOK, Cache!Edit
  PROVE  Excused
<1>1. \A i \in Items : row[i] \in Nat
  BY CacheAssumption DEF Cache!TypeOK, Cache!Version
<1>2. ASSUME NEW i \in Items, Cache!Commit(i)
      PROVE  Excused
  BY <1>1, <1>2 DEF Cache!Commit, Cache!Raise, Cache!TypeOK, Excused
<1>3. ASSUME NEW i \in Items, Cache!Expire(i)
      PROVE  Excused
  <2>1. UNCHANGED <<Cache!callVars, excuse, row>>
    BY <1>3 DEF Cache!Expire
  <2>2. \A j \in Items : entry'[j].version = entry[j].version
    BY <1>3 DEF Cache!Expire, Cache!TypeOK
  <2>. QED  BY <1>1, <2>1, <2>2 DEF Excused
<1>4. ASSUME NEW i \in Items, Cache!Remove(i)
      PROVE  Excused
  <2>1. UNCHANGED <<Cache!callVars, row>>
    BY <1>4 DEF Cache!Remove
  <2>2. \A j \in Items \ {i} : entry'[j] = entry[j]
    BY <1>4 DEF Cache!Remove, Cache!TypeOK
  <2>3. \A c \in Calls : /\ excuse[c] \subseteq excuse'[c]
                         /\ cachePc[c] \in {"lock", "run", "unwind"} => i \in excuse'[c]
    BY <1>4 DEF Cache!Remove, Cache!TypeOK
  <2>. QED  BY <1>1, <2>1, <2>2, <2>3 DEF Excused
<1>5. ASSUME NEW e \in unclear, Cache!Clear(e)
      PROVE  Excused
  <2>1. e.item \in Items
    BY DEF Cache!TypeOK
  <2>. QED  BY <1>4, <1>5, <2>1 DEF Cache!Clear
<1>. QED  BY <1>2, <1>3, <1>4, <1>5, CacheAssumption DEF Cache!Edit, Cache!Evict

\* An edit keeps the account of the keys.
LEMMA EditLossInv ==
  ASSUME Cache!IInv, LossInv, Cache!Edit
  PROVE  LossInv'
<1>1. Excused /\ Cache!TypeOK
  BY EditExcuses DEF Cache!IInv
<1>2. /\ UNCHANGED <<list, open, held, cachePc, asked, ids, todo, stale, subs, woken, fetch, found>>
      /\ \A c \in Calls : excuse[c] \subseteq excuse'[c]
  BY <1>1 DEF Excused, Cache!callVars, Cache!taskVars
<1>3. ReadInv'
  <2>1. ASSUME NEW c \in Calls, NEW i \in Items
        PROVE  found[c].fetched[i] <= row'[i]
    <3>1. row'[i] >= row[i] /\ found[c].fetched[i] <= row[i]
      BY <1>1 DEF Excused, LossInv, ReadInv
    <3>2. found[c].fetched[i] \in Int /\ row[i] \in Int
      BY <1>1, CacheAssumption DEF Cache!TypeOK, Cache!Versions, Cache!Version
    <3>3. row'[i] \in Int
      BY EditTypeOK, <1>1, CacheAssumption DEF Cache!TypeOK, Cache!Version
    <3>. QED  BY <3>1, <3>2, <3>3
  <2>. QED  BY <1>2, <2>1 DEF ReadInv
<1>4. ASSUME NEW c \in Calls, NEW i \in Items, Safe(c, i), cachePc[c] \in {"lock", "run", "unwind"}
      PROVE  Safe(c, i)'
  BY <1>1, <1>4 DEF Excused, Safe
<1>5. ASSUME NEW c \in Calls
      PROVE  HoldInv(c)' /\ FillInv(c)' /\ KeptInv(c)' /\ AnswerInv(c)'
  <2>1. HoldInv(c) /\ FillInv(c) /\ KeptInv(c) /\ AnswerInv(c)
    BY DEF LossInv
  <2>2. HoldInv(c)' /\ FillInv(c)'
    BY <1>2, <2>1 DEF HoldInv, FillInv, Cache!Nothing
  <2>3. AnswerInv(c)'
    BY <1>2, <2>1 DEF AnswerInv, Accounted
  <2>4. ASSUME fetch[c] = "stored", NEW k \in held[c]
        PROVE  Safe(c, ItemOf[k])'
    <3>1. cachePc[c] \in {"lock", "run", "unwind"} /\ ItemOf[k] \in Items
      BY CacheAssumption DEF Cache!IInv, Cache!TypeOK, Cache!PhaseInv
    <3>. QED  BY <1>4, <2>1, <2>4, <3>1 DEF KeptInv
  <2>5. ASSUME NEW k \in woken[c]
        PROVE  Safe(c, ItemOf[k])'
    <3>1. cachePc[c] = "run" /\ ItemOf[k] \in Items
      BY <1>1, <2>1, CacheAssumption DEF Cache!TypeOK, HoldInv
    <3>. QED  BY <1>4, <2>1, <3>1 DEF KeptInv
  <2>6. ASSUME NEW s \in subs[c], fetch[s.writer] = "stored"
        PROVE  Safe(c, ItemOf[s.key])' \/ Safe(s.writer, ItemOf[s.key])'
    <3>1. cachePc[c] \in {"lock", "run"} /\ ItemOf[s.key] \in Items
      BY <1>1, <2>1, CacheAssumption DEF Cache!TypeOK, HoldInv
    <3>2. CASE entry'[ItemOf[s.key]].version = entry[ItemOf[s.key]].version
      <4>1. Safe(c, ItemOf[s.key]) \/ Safe(s.writer, ItemOf[s.key])
        BY <2>1, <2>6 DEF KeptInv
      <4>2. excuse[c] \subseteq excuse'[c] /\ excuse[s.writer] \subseteq excuse'[s.writer]
        BY <1>1, <1>2 DEF Cache!TypeOK
      <4>. QED  BY <3>2, <4>1, <4>2 DEF Safe
    <3>3. CASE ItemOf[s.key] \in excuse'[c]
      BY <3>3 DEF Safe
    <3>. QED  BY <1>1, <3>1, <3>2, <3>3 DEF Excused
  <2>. QED  BY <1>2, <2>2, <2>3, <2>4, <2>5, <2>6 DEF KeptInv
<1>. QED  BY <1>3, <1>5 DEF LossInv

\* A call changes its own answer and excuse, and Redis only where it stores.
LEMMA OwnAnswer ==
  ASSUME Cache!TypeOK, NEW c \in Calls, OneOf(c)
  PROVE  /\ row' = row
         /\ ~Cache!Store(c) => entry' = entry
         /\ excuse[c] \subseteq excuse'[c]
         /\ \A d \in Calls \ {c} : /\ excuse'[d] = excuse[d] /\ found'[d] = found[d]
                                   /\ woken'[d] = woken[d] /\ asked'[d] = asked[d]
<1> DEFINE Mine == \A d \in Calls \ {c} : /\ excuse'[d] = excuse[d] /\ found'[d] = found[d]
                                          /\ woken'[d] = woken[d] /\ asked'[d] = asked[d]
<1> USE DEF Cache!cacheVars, Cache!taskVars, Cache!TypeOK
<1>1. ASSUME NEW K \in SUBSET Keys, Cache!Lookup(c, K)
      PROVE  UNCHANGED <<row, entry, excuse>> /\ Mine
  BY <1>1 DEF Cache!Lookup
<1>2. ASSUME NEW k \in Keys, Cache!Acquire(c, k)
      PROVE  UNCHANGED <<row, entry, excuse>> /\ Mine
  BY <1>2 DEF Cache!Acquire
<1>3. ASSUME NEW k \in Keys, Cache!ServeStale(c, k)
      PROVE  UNCHANGED <<row, entry, excuse>> /\ Mine
  BY <1>3 DEF Cache!ServeStale
<1>4. ASSUME NEW k \in Keys, Cache!Subscribe(c, k)
      PROVE  UNCHANGED <<row, entry, excuse>> /\ Mine
  BY <1>4 DEF Cache!Subscribe
<1>5. CASE Cache!Start(c)
  BY <1>5 DEF Cache!Start
<1>6. CASE Cache!Query(c)
  BY <1>6 DEF Cache!Query
<1>7. CASE Cache!Store(c)
  BY <1>7 DEF Cache!Store
<1>8. ASSUME NEW k \in Keys, Cache!OpenLatch(c, k) \/ Cache!Unlist(c, k)
      PROVE  UNCHANGED <<row, entry, excuse>> /\ Mine
  BY <1>8 DEF Cache!OpenLatch, Cache!Unlist
<1>9. ASSUME NEW s \in subs[c], Cache!Wake(c, s)
      PROVE  UNCHANGED <<row, entry>> /\ Mine /\ excuse[c] \subseteq excuse'[c]
  BY <1>9 DEF Cache!Wake
<1>10. CASE Cache!ReadAgain(c)
  BY <1>10 DEF Cache!ReadAgain
<1>11. CASE Cache!Return(c) \/ Cache!Abort(c) \/ Cache!Unwound(c)
  BY <1>11 DEF Cache!Return, Cache!Abort, Cache!Unwound
<1>. QED  BY <1>1, <1>2, <1>3, <1>4, <1>5, <1>6, <1>7, <1>8, <1>9, <1>10, <1>11 DEF OneOf

\* A store puts what was found where the row was asked for.
LEMMA StoreFills ==
  ASSUME Cache!IInv, LossInv, NEW c \in Calls, Cache!Store(c)
  PROVE  /\ \A k \in ids[c] : entry'[ItemOf[k]].version > 0
         /\ \A i \in Items : entry[i].version > 0 => entry'[i].version > 0
<1>1. Cache!TypeOK /\ FillInv(c)
  BY DEF Cache!IInv, LossInv
<1>2. \A k \in ids[c] : ItemOf[k] \in Items /\ found[c].fetched[ItemOf[k]] > 0
  BY <1>1, CacheAssumption DEF Cache!Store, FillInv, Cache!TypeOK
<1>3. \A i \in Items : entry'[i] = IF i \in Cache!ItemsOf(ids[c]) THEN Cache!Fresh(found[c].fetched[i])
                                    ELSE entry[i]
  BY DEF Cache!Store
<1>4. \A v : Cache!Fresh(v).version = v
  BY DEF Cache!Fresh
<1>5. \A i \in Cache!ItemsOf(ids[c]) : found[c].fetched[i] > 0
  BY <1>2 DEF Cache!ItemsOf
<1>6. \A k \in ids[c] : ItemOf[k] \in Cache!ItemsOf(ids[c])
  BY DEF Cache!ItemsOf
<1>. QED  BY <1>2, <1>3, <1>4, <1>5, <1>6

\* No call takes from another what it had.
LEMMA SafeStays ==
  ASSUME Cache!IInv, LossInv, NEW c \in Calls, OneOf(c), NEW d \in Calls, NEW i \in Items, Safe(d, i)
  PROVE  Safe(d, i)'
<1>1. excuse[d] \subseteq excuse'[d]
  BY OwnAnswer DEF Cache!IInv
<1>2. CASE Cache!Store(c)
  BY <1>1, <1>2, StoreFills DEF Safe
<1>3. CASE ~Cache!Store(c)
  BY <1>1, <1>3, OwnAnswer DEF Safe, Cache!IInv
<1>. QED  BY <1>2, <1>3

\* A call reads versions that rows have.
LEMMA StepReadInv ==
  ASSUME Cache!TypeOK, ReadInv, NEW c \in Calls, OneOf(c)
  PROVE  ReadInv'
<1>1. row' = row /\ \A d \in Calls \ {c} : found'[d] = found[d]
  BY OwnAnswer
<1>2. \A i \in Items : found'[c].fetched[i] \in {found[c].fetched[i], row[i], 0}
  <2> USE DEF Cache!taskVars, Cache!TypeOK
  <2>1. ASSUME NEW K \in SUBSET Keys, Cache!Lookup(c, K)
        PROVE  found'[c].fetched = found[c].fetched
    BY <2>1 DEF Cache!Lookup
  <2>2. ASSUME NEW k \in Keys, Cache!ServeStale(c, k)
        PROVE  found'[c].fetched = found[c].fetched
    BY <2>2 DEF Cache!ServeStale
  <2>3. CASE Cache!Query(c)
    BY <2>3 DEF Cache!Query
  <2>4. CASE Cache!ReadAgain(c)
    BY <2>4 DEF Cache!ReadAgain
  <2>5. CASE Cache!Abort(c)
    BY <2>5 DEF Cache!Abort, Cache!NotFound, Cache!Nothing
  <2>6. CASE found' = found
    BY <2>6
  <2>. QED
    BY <2>1, <2>2, <2>3, <2>4, <2>5, <2>6
       DEF OneOf, Cache!Acquire, Cache!Subscribe, Cache!Start, Cache!Store, Cache!OpenLatch,
           Cache!Unlist, Cache!Wake, Cache!Return, Cache!Unwound
<1>3. \A i \in Items : row[i] \in Nat
  BY CacheAssumption DEF Cache!TypeOK, Cache!Version
<1>. QED  BY <1>1, <1>2, <1>3 DEF ReadInv

\* The phases.
LEMMA StepHoldInv ==
  ASSUME Cache!IInv, \A d \in Calls : HoldInv(d), NEW c \in Calls, OneOf(c)
  PROVE  \A d \in Calls : HoldInv(d)'
<1>0. Cache!TypeOK /\ Cache!PhaseInv(c) /\ HoldInv(c)
  BY DEF Cache!IInv
<1>1. ASSUME NEW d \in Calls, d # c
      PROVE  HoldInv(d)'
  BY <1>0, <1>1, OwnPart, OwnAnswer DEF HoldInv, Cache!Nothing
<1>2. HoldInv(c)'
  <2> USE <1>0 DEF HoldInv, Cache!PhaseInv, Cache!Fetching
  <2>1. ASSUME NEW K \in SUBSET Keys, Cache!Lookup(c, K)
        PROVE  HoldInv(c)'
    BY <2>1 DEF Cache!Lookup, Cache!TypeOK, Cache!Nothing
  <2>2. ASSUME NEW k \in Keys, Cache!Acquire(c, k)
        PROVE  HoldInv(c)'
    BY <2>2 DEF Cache!Acquire, Cache!TypeOK, Cache!Nothing
  <2>3. ASSUME NEW k \in Keys, Cache!ServeStale(c, k)
        PROVE  HoldInv(c)'
    <3>1. ids'[c] = ids[c] \ {k}
      BY <2>3, StaleKeys
    <3>2. found'[c].reread = found[c].reread
      BY <2>3 DEF Cache!ServeStale, Cache!TypeOK
    <3>. QED  BY <2>3, <3>1, <3>2 DEF Cache!ServeStale, Cache!TypeOK, Cache!Nothing
  <2>4. ASSUME NEW k \in Keys, Cache!Subscribe(c, k)
        PROVE  HoldInv(c)'
    BY <2>4 DEF Cache!Subscribe, Cache!TypeOK, Cache!Nothing
  <2>5. CASE Cache!Start(c)
    BY <2>5 DEF Cache!Start, Cache!TypeOK, Cache!Nothing
  <2>6. CASE Cache!Query(c)
    BY <2>6 DEF Cache!Query, Cache!TypeOK, Cache!Nothing
  <2>7. CASE Cache!Store(c)
    BY <2>7 DEF Cache!Store, Cache!TypeOK, Cache!Nothing
  <2>8. ASSUME NEW k \in Keys, Cache!OpenLatch(c, k)
        PROVE  HoldInv(c)'
    BY <2>8 DEF Cache!OpenLatch, Cache!Dropping, Cache!TypeOK, Cache!Nothing, Cache!taskVars
  <2>9. ASSUME NEW k \in Keys, Cache!Unlist(c, k)
        PROVE  HoldInv(c)'
    BY <2>9 DEF Cache!Unlist, Cache!TypeOK, Cache!Nothing, Cache!taskVars
  <2>10. ASSUME NEW s \in subs[c], Cache!Wake(c, s)
         PROVE  HoldInv(c)'
    BY <2>10 DEF Cache!Wake, Cache!TypeOK, Cache!Nothing
  <2>11. CASE Cache!ReadAgain(c)
    BY <2>11 DEF Cache!ReadAgain, Cache!TypeOK, Cache!Nothing
  <2>12. CASE Cache!Return(c) \/ Cache!Unwound(c)
    BY <2>12 DEF Cache!Return, Cache!Unwound, Cache!TypeOK, Cache!Nothing, Cache!taskVars
  <2>13. CASE Cache!Abort(c)
    BY <2>13 DEF Cache!Abort, Cache!TypeOK, Cache!Nothing
  <2>. QED  BY <2>1, <2>2, <2>3, <2>4, <2>5, <2>6, <2>7, <2>8, <2>9, <2>10, <2>11, <2>12,
               <2>13
               DEF OneOf
<1>. QED  BY <1>1, <1>2

\* What is fetched is kept until the call is over.
LEMMA StepFillInv ==
  ASSUME Cache!IInv, LossInv, NEW c \in Calls, OneOf(c)
  PROVE  \A d \in Calls : FillInv(d)'
<1>0. Cache!TypeOK /\ Cache!PhaseInv(c) /\ HoldInv(c) /\ FillInv(c)
  BY DEF Cache!IInv, LossInv
<1>1. ASSUME NEW d \in Calls, d # c
      PROVE  FillInv(d)'
  BY <1>0, <1>1, OwnPart, OwnAnswer DEF FillInv, LossInv
<1>2. FillInv(c)'
  <2> USE <1>0 DEF FillInv, Cache!PhaseInv
  <2>1. CASE cachePc[c] \in {"idle", "lock"}
    <3>1. fetch[c] = "none"
      BY <2>1
    <3>2. fetch'[c] \in {"none", "query"}
      BY <2>1, <3>1
         DEF OneOf, Cache!Lookup, Cache!Acquire, Cache!ServeStale, Cache!Subscribe,
             Cache!Start, Cache!Query, Cache!Store, Cache!OpenLatch, Cache!Unlist,
             Cache!Dropping, Cache!Wake, Cache!ReadAgain, Cache!Return, Cache!Abort,
             Cache!Unwound, Cache!TypeOK, Cache!taskVars
    <3>. QED  BY <3>2
  <2>2. CASE Cache!Query(c)
    <3>1. \A k \in ids[c] : ItemOf[k] \in Cache!ItemsOf(ids[c]) /\ ItemOf[k] \in Items
      BY CacheAssumption DEF Cache!ItemsOf, Cache!TypeOK
    <3>2. \A i \in Items : row[i] > 0
      BY CacheAssumption DEF Cache!TypeOK, Cache!Version
    <3>3. ids' = ids
      BY <2>2 DEF Cache!Query
    <3>4. \A i \in Items : found'[c].fetched[i] = IF i \in Cache!ItemsOf(ids[c]) THEN row[i] ELSE 0
      BY <2>2 DEF Cache!Query, Cache!TypeOK
    <3>. QED  BY <3>1, <3>2, <3>3, <3>4
  <2>3. CASE Cache!Store(c)
    BY <2>3 DEF Cache!Store, Cache!TypeOK
  <2>4. CASE Cache!Abort(c)
    BY <2>4 DEF Cache!Abort, Cache!TypeOK
  <2>5. CASE Cache!Return(c) \/ Cache!Unwound(c)
    BY <2>5 DEF Cache!Return, Cache!Unwound, Cache!TypeOK, Cache!taskVars
  <2>6. ASSUME ids'[c] = ids[c], fetch'[c] = fetch[c], found'[c].fetched = found[c].fetched,
               cachePc'[c] = cachePc[c]
        PROVE  FillInv(c)'
    BY <2>6
  <2>7. ASSUME NEW k \in Keys, Cache!OpenLatch(c, k) \/ Cache!Unlist(c, k)
        PROVE  FillInv(c)'
    BY <2>6, <2>7 DEF Cache!OpenLatch, Cache!Unlist, Cache!taskVars
  <2>8. ASSUME NEW s \in subs[c], Cache!Wake(c, s)
        PROVE  FillInv(c)'
    BY <2>6, <2>8 DEF Cache!Wake
  <2>9. CASE Cache!ReadAgain(c)
    BY <2>6, <2>9 DEF Cache!ReadAgain, Cache!TypeOK
  <2>. QED
    BY <2>1, <2>2, <2>3, <2>4, <2>5, <2>7, <2>8, <2>9
       DEF OneOf, Cache!Lookup, Cache!Acquire, Cache!ServeStale, Cache!Subscribe,
           Cache!Start
<1>. QED  BY <1>1, <1>2

\* A call that stores has opened no latch: those that wait for it are held.
LEMMA StoreHolds ==
  ASSUME Cache!IInv, LossInv, NEW c \in Calls, Cache!Store(c), NEW d \in Calls, NEW s \in subs[d],
         s.writer = c
  PROVE  s.key \in ids[c]
<1>1. open[c] = {}
  BY DEF Cache!Store, LossInv, HoldInv
<1>2. s.key \in held[c]
  BY <1>1 DEF Cache!IInv, Cache!SubInv
<1>. QED  BY <1>2 DEF LossInv, HoldInv

\* Once a call has stored, it takes no more locks.
LEMMA HeldStored ==
  ASSUME Cache!IInv, NEW c \in Calls, OneOf(c), ~Cache!Store(c), fetch'[c] = "stored"
  PROVE  fetch[c] = "stored" /\ held'[c] \subseteq held[c]
<1>0. Cache!TypeOK /\ Cache!PhaseInv(c)
  BY DEF Cache!IInv
<1>1. CASE cachePc[c] \in {"idle", "lock"}
  <2>1. fetch[c] = "none"
    BY <1>0, <1>1 DEF Cache!PhaseInv
  <2>2. fetch'[c] # "stored"
    <3> USE <1>0, <1>1, <2>1 DEF Cache!TypeOK, Cache!taskVars
    <3>1. ASSUME NEW K \in SUBSET Keys, Cache!Lookup(c, K)
          PROVE  fetch'[c] # "stored"
      BY <3>1 DEF Cache!Lookup
    <3>2. ASSUME NEW k \in Keys,
                 Cache!Acquire(c, k) \/ Cache!ServeStale(c, k) \/ Cache!Subscribe(c, k)
          PROVE  fetch'[c] # "stored"
      BY <3>2 DEF Cache!Acquire, Cache!ServeStale, Cache!Subscribe
    <3>3. CASE Cache!Start(c)
      BY <3>3 DEF Cache!Start
    <3>. QED
      BY <3>1, <3>2, <3>3
         DEF OneOf, Cache!Query, Cache!OpenLatch, Cache!Unlist, Cache!Dropping, Cache!Wake,
             Cache!ReadAgain, Cache!Return, Cache!Abort, Cache!Unwound
  <2>. QED  BY <2>2
<1>2. CASE cachePc[c] \notin {"idle", "lock"}
  <2> USE <1>0, <1>2 DEF Cache!TypeOK, Cache!taskVars
  <2>1. CASE Cache!Query(c)
    BY <2>1 DEF Cache!Query
  <2>2. ASSUME NEW k \in Keys, Cache!OpenLatch(c, k)
        PROVE  fetch[c] = "stored" /\ held'[c] \subseteq held[c]
    BY <2>2 DEF Cache!OpenLatch
  <2>3. ASSUME NEW k \in Keys, Cache!Unlist(c, k)
        PROVE  fetch[c] = "stored" /\ held'[c] \subseteq held[c]
    BY <2>3 DEF Cache!Unlist
  <2>4. ASSUME NEW s \in subs[c], Cache!Wake(c, s)
        PROVE  fetch[c] = "stored" /\ held'[c] \subseteq held[c]
    BY <2>4 DEF Cache!Wake
  <2>5. CASE Cache!ReadAgain(c) \/ Cache!Return(c) \/ Cache!Abort(c) \/ Cache!Unwound(c)
    BY <2>5 DEF Cache!ReadAgain, Cache!Return, Cache!Abort, Cache!Unwound
  <2>. QED
    BY <2>1, <2>2, <2>3, <2>4, <2>5 DEF OneOf, Cache!Lookup, Cache!Acquire, Cache!ServeStale,
       Cache!Subscribe, Cache!Start
<1>. QED  BY <1>1, <1>2

\* A wait begins where a lock is held, and ends in a second look.
LEMMA NewWaits ==
  ASSUME Cache!TypeOK, NEW c \in Calls, OneOf(c), NEW d \in Calls
  PROVE  /\ \A s \in subs'[d] \ subs[d] :
              \E k \in Keys : Cache!Subscribe(c, k) /\ d = c /\ s = [key |-> k, writer |-> list[k]]
         /\ \A k \in woken'[d] \ woken[d] :
              \E s \in subs[c] : Cache!Wake(c, s) /\ d = c /\ s.key = k
<1>1. CASE d # c
  <2>1. subs'[d] = subs[d] /\ woken'[d] = woken[d]
    BY <1>1, OwnPart, OwnAnswer
  <2>. QED  BY <2>1
<1>2. CASE d = c
  <2> DEFINE Fewer == subs'[c] \subseteq subs[c] /\ woken'[c] \subseteq woken[c]
  <2> USE DEF Cache!TypeOK, Cache!taskVars
  <2>1. ASSUME NEW K \in SUBSET Keys, Cache!Lookup(c, K)
        PROVE  Fewer
    BY <2>1 DEF Cache!Lookup
  <2>2. ASSUME NEW k \in Keys, Cache!Acquire(c, k) \/ Cache!ServeStale(c, k)
        PROVE  Fewer
    BY <2>2 DEF Cache!Acquire, Cache!ServeStale
  <2>3. CASE Cache!Start(c) \/ Cache!Query(c) \/ Cache!Store(c)
    BY <2>3 DEF Cache!Start, Cache!Query, Cache!Store
  <2>4. ASSUME NEW k \in Keys, Cache!OpenLatch(c, k) \/ Cache!Unlist(c, k)
        PROVE  Fewer
    BY <2>4 DEF Cache!OpenLatch, Cache!Unlist
  <2>5. CASE Cache!ReadAgain(c) \/ Cache!Return(c) \/ Cache!Abort(c) \/ Cache!Unwound(c)
    BY <2>5 DEF Cache!ReadAgain, Cache!Return, Cache!Abort, Cache!Unwound
  <2>6. ASSUME NEW k \in Keys, Cache!Subscribe(c, k)
        PROVE  /\ subs'[c] \subseteq subs[c] \cup {[key |-> k, writer |-> list[k]]}
               /\ woken' = woken
    BY <2>6 DEF Cache!Subscribe
  <2>7. ASSUME NEW s \in subs[c], Cache!Wake(c, s)
        PROVE  subs'[c] \subseteq subs[c] /\ woken'[c] \subseteq woken[c] \cup {s.key}
    BY <2>7 DEF Cache!Wake
  <2> HIDE DEF Cache!TypeOK
  <2>8. CASE Fewer
    BY <1>2, <2>8
  <2>9. ASSUME NEW k \in Keys, Cache!Subscribe(c, k)
        PROVE  \A s \in subs'[d] \ subs[d] :
                 \E l \in Keys : Cache!Subscribe(c, l) /\ d = c /\ s = [key |-> l, writer |-> list[l]]
    BY <1>2, <2>6, <2>9
  <2>10. ASSUME NEW s \in subs[c], Cache!Wake(c, s)
         PROVE  \A k \in woken'[d] \ woken[d] :
                  \E t \in subs[c] : Cache!Wake(c, t) /\ d = c /\ t.key = k
    BY <1>2, <2>7, <2>10
  <2>. QED  BY <1>2, <2>1, <2>2, <2>3, <2>4, <2>5, <2>6, <2>7, <2>8, <2>9, <2>10 DEF OneOf
<1>. QED  BY <1>1, <1>2

\* What was stored stays there.
LEMMA StepKeptInv ==
  ASSUME Cache!IInv, LossInv, NEW c \in Calls, OneOf(c)
  PROVE  \A d \in Calls : KeptInv(d)'
<1>0. Cache!TypeOK /\ Cache!TypeOK'
  BY CallTypeOK DEF Cache!IInv
<1>1. \A k \in Keys : ItemOf[k] \in Items
  BY CacheAssumption
<1>2. ASSUME NEW d \in Calls, fetch'[d] = "stored", NEW k \in held'[d]
      PROVE  Safe(d, ItemOf[k])'
  <2>0. k \in Keys
    BY <1>0, <1>2 DEF Cache!TypeOK
  <2>1. CASE fetch[d] = "stored" /\ k \in held[d]
    BY <1>1, <2>0, <2>1, SafeStays DEF LossInv, KeptInv
  <2>2. CASE d = c /\ Cache!Store(c)
    <3>1. k \in ids[c]
      BY <1>2, <2>2 DEF Cache!Store, LossInv, HoldInv
    <3>. QED  BY <2>2, <3>1, StoreFills DEF Safe
  <2>3. CASE ~(fetch[d] = "stored" /\ k \in held[d]) /\ ~(d = c /\ Cache!Store(c))
    <3>1. d = c
      BY <1>0, <1>2, <2>3, OwnPart
    <3>. QED  BY <1>2, <2>3, <3>1, HeldStored
  <2>. QED  BY <2>1, <2>2, <2>3
<1>3. ASSUME NEW d \in Calls, NEW s \in subs'[d], fetch'[s.writer] = "stored"
      PROVE  Safe(d, ItemOf[s.key])' \/ Safe(s.writer, ItemOf[s.key])'
  <2>0. s.key \in Keys /\ s.writer \in Calls /\ ItemOf[s.key] \in Items
    BY <1>0, <1>1 DEF Cache!TypeOK
  <2>1. CASE s \in subs[d] /\ fetch[s.writer] = "stored"
    BY <2>0, <2>1, SafeStays DEF LossInv, KeptInv
  <2>2. CASE s \in subs[d] /\ fetch[s.writer] # "stored"
    <3>1. s.writer = c
      BY <1>0, <1>3, <2>0, <2>2, OwnPart
    <3>2. Cache!Store(c)
      BY <1>3, <2>2, <3>1, HeldStored
    <3>. QED  BY <2>2, <3>1, <3>2, StoreHolds, StoreFills DEF Safe
  <2>3. CASE s \notin subs[d]
    <3>1. PICK k \in Keys : Cache!Subscribe(c, k) /\ d = c /\ s = [key |-> k, writer |-> list[k]]
      BY <1>0, <1>3, <2>3, NewWaits
    <3>2. k \in held[s.writer] /\ fetch[s.writer] = "stored"
      BY <1>0, <1>3, <2>0, <3>1 DEF Cache!Subscribe, Cache!IInv, Cache!ListInv
    <3>3. Safe(s.writer, ItemOf[k])
      BY <2>0, <3>2 DEF LossInv, KeptInv
    <3>. QED  BY <2>0, <3>1, <3>3, SafeStays
  <2>. QED  BY <2>1, <2>2, <2>3
<1>4. ASSUME NEW d \in Calls, NEW k \in woken'[d]
      PROVE  Safe(d, ItemOf[k])'
  <2>0. k \in Keys /\ ItemOf[k] \in Items
    BY <1>0, <1>1, <1>4 DEF Cache!TypeOK
  <2>1. CASE k \in woken[d]
    BY <2>0, <2>1, SafeStays DEF LossInv, KeptInv
  <2>2. CASE k \notin woken[d]
    <3>1. PICK s \in subs[c] : Cache!Wake(c, s) /\ d = c /\ s.key = k
      BY <1>0, <1>4, <2>2, NewWaits
    <3>2. s.writer \in Calls /\ open[s.writer] # {}
      BY <1>0, <3>1 DEF Cache!Wake, Cache!TypeOK
    <3>3. /\ entry' = entry
          /\ excuse'[c] = excuse[c] \cup
               (IF Cache!Failed(s.writer) THEN {ItemOf[s.key]}
                                    ELSE excuse[s.writer] \cap {ItemOf[s.key]})
      BY <1>0, <3>1 DEF Cache!Wake, Cache!TypeOK, Cache!cacheVars
    <3>4. CASE Cache!Failed(s.writer)
      BY <3>1, <3>3, <3>4 DEF Safe
    <3>5. CASE ~Cache!Failed(s.writer)
      <4>1. fetch[s.writer] = "stored"
        BY <3>2, <3>5 DEF LossInv, HoldInv, Cache!Failed
      <4>2. Safe(c, ItemOf[s.key]) \/ Safe(s.writer, ItemOf[s.key])
        BY <4>1 DEF LossInv, KeptInv
      <4>. QED  BY <3>1, <3>3, <3>5, <4>2 DEF Safe
    <3>. QED  BY <3>4, <3>5
  <2>. QED  BY <2>1, <2>2
<1>. QED  BY <1>2, <1>3, <1>4 DEF KeptInv

\* No key a call was asked for gets lost on the way.
LEMMA StepAnswerInv ==
  ASSUME Cache!IInv, LossInv, NEW c \in Calls, OneOf(c)
  PROVE  \A d \in Calls : AnswerInv(d)'
<1>0. Cache!TypeOK /\ Cache!PhaseInv(c) /\ HoldInv(c) /\ AnswerInv(c)
  BY DEF Cache!IInv, LossInv
<1>1. ASSUME NEW d \in Calls, d # c
      PROVE  AnswerInv(d)'
  BY <1>0, <1>1, OwnPart, OwnAnswer DEF AnswerInv, Accounted, LossInv
<1>2. AnswerInv(c)'
  <2>0. \A k \in Keys : ItemOf[k] \in Items
    BY CacheAssumption
  <2>1. ASSUME NEW K \in SUBSET Keys, Cache!Lookup(c, K), NEW k \in K
        PROVE  Accounted(c, k)'
    <3> DEFINE fresh == {i \in Cache!ItemsOf(K) : entry[i].version > 0 /\ ~entry[i].expired}
               want  == {l \in K : ItemOf[l] \in fresh => l \notin Spelled}
    <3>1. ids'[c] = want /\ found'[c].cached = Cache!Read(fresh)
      BY <1>0, <2>1 DEF Cache!Lookup, Cache!TypeOK
    <3>2. CASE k \in want
      BY <3>1, <3>2 DEF Accounted
    <3>3. CASE k \notin want
      <4>1. ItemOf[k] \in fresh /\ ItemOf[k] \in Items
        BY <2>0, <3>3
      <4>2. Cache!Read(fresh)[ItemOf[k]] > 0
        BY <4>1 DEF Cache!Read
      <4>. QED  BY <3>1, <4>2 DEF Accounted
    <3>. QED  BY <3>2, <3>3
  <2>2. ASSUME NEW K \in SUBSET Keys, Cache!Lookup(c, K)
        PROVE  AnswerInv(c)'
    <3>1. asked'[c] = K
      BY <1>0, <2>2 DEF Cache!Lookup, Cache!TypeOK
    <3>. QED  BY <2>1, <2>2, <3>1 DEF AnswerInv
  <2>3. ASSUME asked'[c] = asked[c],
               cachePc'[c] \in {"lock", "run", "done"} => cachePc[c] \in {"lock", "run", "done"},
               \A k \in asked[c] : Accounted(c, k) => Accounted(c, k)'
        PROVE  AnswerInv(c)'
    BY <1>0, <2>3 DEF AnswerInv
  <2>4. ASSUME NEW k \in Keys, Cache!ServeStale(c, k)
        PROVE  AnswerInv(c)'
    <3>1. /\ ids'[c] = ids[c] \ {k} /\ ItemOf[k] \in Items
          /\ asked' = asked /\ cachePc' = cachePc /\ subs' = subs /\ woken' = woken /\ excuse' = excuse
      BY <2>0, <2>4, <1>0, StaleKeys DEF Cache!ServeStale
    <3>2. /\ found'[c].reread = found[c].reread
          /\ found'[c].cached = [found[c].cached EXCEPT ![ItemOf[k]] = stale[c][ItemOf[k]]]
      BY <1>0, <2>4 DEF Cache!ServeStale, Cache!TypeOK
    <3>3. stale[c][ItemOf[k]] > 0
      BY <2>4 DEF Cache!ServeStale, Cache!Servable
    <3>4. found[c].cached \in [Items -> 0..MaxVersion]
      BY <1>0 DEF Cache!TypeOK, Cache!Versions
    <3>5. \A i \in Items : found[c].cached[i] > 0 => found'[c].cached[i] > 0
      BY <3>2, <3>3, <3>4
    <3>6. found'[c].cached[ItemOf[k]] > 0
      BY <3>1, <3>2, <3>3, <3>4
    <3>7. ASSUME NEW l \in asked[c], Accounted(c, l)
          PROVE  Accounted(c, l)'
      <4>1. ItemOf[l] \in Items
        BY <1>0, <2>0 DEF Cache!TypeOK
      <4>. QED  BY <3>1, <3>2, <3>5, <3>6, <3>7, <4>1 DEF Accounted
    <3>. QED  BY <2>3, <3>1, <3>7
  <2>5. ASSUME NEW k \in Keys, Cache!Subscribe(c, k)
        PROVE  AnswerInv(c)'
    <3>1. /\ ids'[c] = ids[c] \ {k}
          /\ asked' = asked /\ cachePc' = cachePc /\ found' = found /\ woken' = woken /\ excuse' = excuse
          /\ subs'[c] = subs[c] \cup
               (IF k \in ids[c] THEN {[key |-> k, writer |-> list[k]]} ELSE {})
      BY <1>0, <2>5 DEF Cache!Subscribe, Cache!TypeOK
    <3>2. ASSUME NEW l \in asked[c], Accounted(c, l)
          PROVE  Accounted(c, l)'
      <4>1. CASE l = k /\ k \in ids[c]
        <5>1. [key |-> k, writer |-> list[k]] \in subs'[c]
          BY <3>1, <4>1
        <5>. QED  BY <4>1, <5>1 DEF Accounted
      <4>2. CASE ~(l = k /\ k \in ids[c])
        BY <3>1, <3>2, <4>2 DEF Accounted
      <4>. QED  BY <4>1, <4>2
    <3>. QED  BY <2>3, <3>1, <3>2
  <2>6. ASSUME NEW s \in subs[c], Cache!Wake(c, s)
        PROVE  AnswerInv(c)'
    <3>1. /\ subs'[c] = subs[c] \ {s} /\ woken'[c] = woken[c] \cup {s.key}
          /\ ids' = ids /\ asked' = asked /\ cachePc' = cachePc /\ found' = found
          /\ excuse[c] \subseteq excuse'[c]
      BY <1>0, <2>6 DEF Cache!Wake, Cache!TypeOK
    <3>2. \A l \in asked[c] : Accounted(c, l) => Accounted(c, l)'
      BY <3>1 DEF Accounted
    <3>. QED  BY <2>3, <3>1, <3>2
  <2>7. CASE Cache!ReadAgain(c)
    <3>1. /\ subs[c] = {} /\ subs' = subs /\ woken'[c] = {} /\ ids' = ids /\ asked' = asked
          /\ cachePc' = cachePc /\ excuse' = excuse /\ woken[c] # {}
          /\ found'[c].cached = found[c].cached
          /\ found'[c].reread = Cache!Read(Cache!ItemsOf(woken[c]))
      BY <1>0, <2>7 DEF Cache!ReadAgain, Cache!TypeOK
    <3>2. found[c].reread = Cache!Nothing
      BY <1>0, <3>1 DEF HoldInv
    <3>3. ASSUME NEW l \in asked[c], Accounted(c, l)
          PROVE  Accounted(c, l)'
      <4>1. ItemOf[l] \in Items /\ found[c].reread[ItemOf[l]] = 0
        BY <1>0, <2>0, <3>2 DEF Cache!TypeOK, Cache!Nothing
      <4>2. CASE l \in woken[c]
        <5>1. Safe(c, ItemOf[l])
          BY <4>2 DEF LossInv, KeptInv
        <5>2. ItemOf[l] \in Cache!ItemsOf(woken[c])
          BY <4>2 DEF Cache!ItemsOf
        <5>3. Cache!Read(Cache!ItemsOf(woken[c]))[ItemOf[l]] = entry[ItemOf[l]].version
          BY <4>1, <5>2 DEF Cache!Read
        <5>. QED  BY <3>1, <5>1, <5>3 DEF Safe, Accounted
      <4>3. CASE l \notin woken[c]
        BY <3>1, <3>3, <4>1, <4>3 DEF Accounted
      <4>. QED  BY <4>2, <4>3
    <3>. QED  BY <2>3, <3>1, <3>3
  <2>8. CASE Cache!Query(c)
    <3>1. /\ UNCHANGED <<cachePc, asked, ids, subs, woken, excuse>>
          /\ found'[c].cached = found[c].cached /\ found'[c].reread = found[c].reread
      BY <1>0, <2>8 DEF Cache!Query, Cache!TypeOK
    <3>. QED  BY <2>3, <3>1 DEF Accounted
  <2>9. CASE Cache!Abort(c) \/ Cache!Unwound(c)
    BY <1>0, <2>9 DEF Cache!Abort, Cache!Unwound, AnswerInv, Cache!TypeOK
  <2>10. CASE Cache!Start(c) \/ Cache!Return(c)
    <3>1. /\ UNCHANGED <<asked, ids, subs, woken, excuse, found>>
          /\ cachePc[c] \in {"lock", "run"}
      BY <2>10 DEF Cache!Start, Cache!Return, Cache!taskVars
    <3>. QED  BY <2>3, <3>1 DEF Accounted
  <2>11. CASE UNCHANGED <<cachePc, asked, ids, subs, woken, excuse, found>>
    BY <2>3, <2>11 DEF Accounted
  <2>12. ASSUME NEW k \in Keys, Cache!Acquire(c, k) \/ Cache!OpenLatch(c, k) \/ Cache!Unlist(c, k)
         PROVE  UNCHANGED <<cachePc, asked, ids, subs, woken, excuse, found>>
    BY <2>12 DEF Cache!Acquire, Cache!OpenLatch, Cache!Unlist, Cache!taskVars
  <2>13. CASE Cache!Store(c)
    BY <2>11, <2>13 DEF Cache!Store
  <2>. QED  BY <2>2, <2>4, <2>5, <2>6, <2>7, <2>8, <2>9, <2>10, <2>11, <2>12, <2>13 DEF OneOf
<1>. QED  BY <1>1, <1>2

\* Every step keeps the account of the keys.
LEMMA NextLossInv ==
  ASSUME Cache!IInv, LossInv, [Cache!Next]_(Cache!vars)
  PROVE  LossInv'
<1>1. CASE Cache!Edit
  BY <1>1, EditLossInv
<1>2. ASSUME NEW c \in Calls, OneOf(c)
      PROVE  LossInv'
  <2>1. ReadInv' /\ \A d \in Calls : HoldInv(d)'
    BY <1>2, StepReadInv, StepHoldInv DEF Cache!IInv, LossInv
  <2>2. \A d \in Calls : FillInv(d)' /\ KeptInv(d)' /\ AnswerInv(d)'
    BY <1>2, StepFillInv, StepKeptInv, StepAnswerInv
  <2>. QED  BY <2>1, <2>2 DEF LossInv
<1>3. CASE UNCHANGED Cache!vars
  BY <1>3 DEF LossInv, ReadInv, HoldInv, FillInv, KeptInv, AnswerInv, Accounted, Safe,
     Cache!vars, Cache!callVars, Cache!cacheVars, Cache!taskVars, Cache!Nothing
<1>. QED  BY <1>1, <1>2, <1>3, StepKinds

\* What is in the cache of an item changes when it is stored or removed.
LEMMA StrandingStep ==
  ASSUME Cache!IInv, LossInv, Cache!Next, NEW i \in Items, Cache!Stranded(i)', ~Cache!Stranded(i)
  PROVE  \E c \in Calls : /\ fetch[c] = "store" /\ fetch'[c] = "stored"
                          /\ found[c].fetched[i] \in 1..(row[i] - 1)
<1>0. Cache!TypeOK
  BY DEF Cache!IInv
<1>1. ASSUME Cache!Edit PROVE FALSE
  <2>1. ASSUME NEW j \in Items, Cache!Commit(j) PROVE FALSE
    <3>1. row' = [row EXCEPT ![j] = row[j] + 1] /\ entry' = entry
          /\ unclear' = unclear \cup {[item |-> j, version |-> row'[j]]}
      BY <2>1 DEF Cache!Commit, Cache!Raise
    <3>2. i # j
      <4>1. [item |-> j, version |-> row'[j]] \in unclear'
        BY <3>1
      <4>2. [item |-> j, version |-> row'[j]].item # i
        BY <4>1 DEF Cache!Stranded
      <4>. QED  BY <4>2
    <3>3. row'[i] = row[i]
      BY <1>0, <3>1, <3>2 DEF Cache!TypeOK
    <3>. QED  BY <3>1, <3>2, <3>3 DEF Cache!Stranded
  <2>2. ASSUME NEW j \in Items, Cache!Expire(j) PROVE FALSE
    <3>1. row' = row /\ unclear' = unclear /\ entry'[i].version = entry[i].version
      BY <1>0, <2>2 DEF Cache!Expire, Cache!TypeOK
    <3>. QED  BY <3>1 DEF Cache!Stranded
  <2>3. ASSUME NEW j \in Items, Cache!Remove(j), \A e \in unclear \ unclear' : e.item = j
        PROVE  FALSE
    <3>1. row' = row /\ entry' = [entry EXCEPT ![j] = Cache!NoEntry]
      BY <2>3 DEF Cache!Remove
    <3>2. i # j
      <4>1. CASE i = j
        <5>1. entry'[i] = Cache!NoEntry
          BY <1>0, <3>1, <4>1 DEF Cache!TypeOK
        <5>2. entry'[i].version = 0
          BY <5>1 DEF Cache!NoEntry
        <5>. QED  BY <5>2 DEF Cache!Stranded
      <4>. QED  BY <4>1
    <3>3. entry'[i] = entry[i]
      BY <1>0, <3>1, <3>2 DEF Cache!TypeOK
    <3>4. \A e \in unclear : e.item # i
      BY <2>3, <3>2 DEF Cache!Stranded
    <3>. QED  BY <3>1, <3>3, <3>4 DEF Cache!Stranded
  <2>4. ASSUME NEW e \in unclear, Cache!Clear(e) PROVE FALSE
    <3>1. e.item \in Items
      BY <1>0 DEF Cache!TypeOK
    <3>. QED  BY <2>3, <2>4, <3>1 DEF Cache!Clear
  <2>5. ASSUME NEW j \in Items, Cache!Evict(j) PROVE FALSE
    BY <2>3, <2>5 DEF Cache!Evict
  <2>. QED  BY <1>1, <2>1, <2>2, <2>4, <2>5, CacheAssumption DEF Cache!Edit
<1>2. ASSUME NEW c \in Calls, OneOf(c), ~Cache!Store(c) PROVE FALSE
  <2>1. entry' = entry /\ row' = row
    BY <1>0, <1>2, OwnAnswer
  <2>2. unclear' = unclear
    BY <1>2
       DEF OneOf, Cache!Lookup, Cache!Acquire, Cache!ServeStale, Cache!Subscribe,
           Cache!Start, Cache!Query, Cache!OpenLatch, Cache!Unlist, Cache!Wake,
           Cache!ReadAgain, Cache!Return, Cache!Abort, Cache!Unwound, Cache!cacheVars
  <2>. QED  BY <2>1, <2>2 DEF Cache!Stranded
<1>3. ASSUME NEW c \in Calls, Cache!Store(c)
      PROVE  /\ fetch[c] = "store" /\ fetch'[c] = "stored"
             /\ found[c].fetched[i] \in 1..(row[i] - 1)
  <2>1. fetch[c] = "store" /\ fetch'[c] = "stored" /\ row' = row /\ unclear' = unclear
    BY <1>0, <1>3 DEF Cache!Store, Cache!TypeOK
  <2>2. entry'[i] = IF i \in Cache!ItemsOf(ids[c]) THEN Cache!Fresh(found[c].fetched[i]) ELSE entry[i]
    BY <1>3 DEF Cache!Store
  <2>3. i \in Cache!ItemsOf(ids[c])
    BY <2>1, <2>2 DEF Cache!Stranded
  <2>4. entry'[i].version = found[c].fetched[i]
    BY <2>2, <2>3 DEF Cache!Fresh
  <2>5. found[c].fetched[i] > 0 /\ found[c].fetched[i] # row[i]
    BY <2>1, <2>4 DEF Cache!Stranded
  <2>6. found[c].fetched[i] <= row[i]
    BY DEF LossInv, ReadInv
  <2>7. found[c].fetched[i] \in Int /\ row[i] \in Int
    BY <1>0, CacheAssumption DEF Cache!TypeOK, Cache!Versions, Cache!Version
  <2>. QED  BY <2>1, <2>5, <2>6, <2>7
<1>. QED  BY <1>1, <1>2, <1>3, StepKinds

\* The values that calls find, keep and wait for, in every reachable state.
THEOREM AnswersAreAccounted == SafetySpec => []LossInv
<1>1. Cache!Init => LossInv
  BY InitLossInv
<1>2. Cache!IInv /\ LossInv /\ [Cache!Next]_(Cache!vars) => LossInv'
  BY NextLossInv
<1>. QED  BY <1>1, <1>2, CacheInvariant, CacheOfSafety, PTL DEF SafetySpec

\* A call reports as missing only what was cleared or not fetched behind its back,
\* for any number of calls, keys and rows (get_cached_keys_raw_with_slug).
THEOREM LossesAreExcused == SafetySpec => []NothingLost
<1>1. Cache!IInv /\ LossInv => NothingLost
  <2> SUFFICES ASSUME Cache!IInv, LossInv, NEW c \in Calls, cachePc[c] = "done",
                      NEW k \in asked[c]
               PROVE  Cache!Result(c, ItemOf[k]) > 0 \/ ItemOf[k] \in excuse[c]
    BY DEF NothingLost, Cache!NothingLost
  <2>1. HoldInv(c) /\ FillInv(c) /\ AnswerInv(c) /\ Cache!TypeOK
    BY DEF LossInv, Cache!IInv
  <2>2. k \in Keys /\ ItemOf[k] \in Items
    BY <2>1, CacheAssumption DEF Cache!TypeOK
  <2>3. Accounted(c, k) /\ subs[c] = {} /\ woken[c] = {}
    BY <2>1 DEF AnswerInv, HoldInv
  <2>4. k \in ids[c] => found[c].fetched[ItemOf[k]] > 0
    BY <2>1 DEF HoldInv, FillInv
  <2>. QED  BY <2>3, <2>4 DEF Accounted, Cache!Result
<1>. QED  BY <1>1, CacheInvariant, AnswersAreAccounted, PTL

\* A value that is not the row's and that nobody will clear comes into the cache in
\* one way only: a fetch that read the row before an edit stores it after the clear.
THEOREM StrandingIsLate == SafetySpec => StrandedByLateStore
<1> DEFINE Late == \A i \in Items : Cache!Stranded(i)' /\ ~Cache!Stranded(i) =>
             \E c \in Calls : /\ fetch[c] = "store" /\ fetch'[c] = "stored"
                              /\ found[c].fetched[i] \in 1..(row[i] - 1)
<1>1. Cache!IInv /\ LossInv /\ Cache!Next => Late
  BY StrandingStep
<1>2. Cache!IInv /\ LossInv /\ [Cache!Next]_(Cache!vars) => [Late]_(Cache!vars)
  BY <1>1
<1>. QED  BY <1>2, CacheInvariant, AnswersAreAccounted, CacheOfSafety, PTL
     DEF SafetySpec, StrandedByLateStore, Cache!StrandedByLateStore
=============================================================================
