---------------------------- MODULE ServerProofs ----------------------------
(***************************************************************************)
(* Proofs about the components that MCServer puts side by side, for any     *)
(* constants: the moderation lock, redeemals, the notification emails,      *)
(* refunds, statuses and teams.  A step of MCServer is a step of one of     *)
(* them and leaves the others as they are.                                  *)
(***************************************************************************)
EXTENDS MCServer, MoneyProofs

(***************************************************************************)
(* The moderation lock: it excludes, if requests do not interleave          *)
(***************************************************************************)

\* Whoever has been told that the lock is theirs has the row, which is no older.
GrantInv == \A m \in Moderators : Granted(m) => owner = m /\ age <= grant[m]

\* A request that is between two statements is alone, and nobody else has the lock.
AloneInv ==
  \A m \in Moderators : pc[m] # "idle" =>
    /\ \A n \in Moderators \ {m} : pc[n] = "idle"
    /\ owner \in {None, m} \/ age >= Expiry

SeenInv == \A m \in Moderators : pc[m] = "acquire" => seen[m].owner = owner

IInv == TypeOK /\ GrantInv /\ AloneInv /\ SeenInv

Request(m) == Acquire(m) \/ Release(m) \/ CheckLock(m) \/ Decide(m) \/ Leave(m)

\* It holds at the start.
LEMMA InitInv ==
  ASSUME LockAssumption
  PROVE  Init => IInv
BY DEF LockAssumption, Init, IInv, TypeOK, GrantInv, AloneInv, SeenInv, Granted, Lock

\* Every step keeps the types, also when requests interleave.
LEMMA TypeStep ==
  ASSUME LockAssumption
  PROVE  TypeOK /\ [Next]_vars => TypeOK'
<1> SUFFICES ASSUME TypeOK, [Next]_vars PROVE TypeOK'
  OBVIOUS
<1> USE DEF LockAssumption, TypeOK, Lock
<1>1. ASSUME NEW m \in Moderators, Request(m) PROVE TypeOK'
  <2>1. CASE ReadLock(m)
    <3>1. Current \in [owner : Moderators \cup {None}, expired : BOOLEAN]
      BY DEF Current
    <3>2. seen' = [seen EXCEPT ![m] = Current] \/ seen' = seen
      BY <2>1 DEF ReadLock
    <3>3. seen' \in [Moderators -> [owner : Moderators \cup {None}, expired : BOOLEAN]]
      BY <3>1, <3>2
    <3>. QED  BY <2>1, <3>3 DEF ReadLock
  <2>2. CASE WriteLock(m)
    BY <2>2 DEF WriteLock
  <2>3. CASE Release(m)
    BY <2>3 DEF Release, Delete
  <2>4. CASE CheckLock(m) \/ Decide(m) \/ Leave(m)
    BY <2>4 DEF CheckLock, Decide, Leave
  <2>. QED  BY <1>1, <2>1, <2>2, <2>3, <2>4 DEF Request, Acquire
<1>2. CASE DeleteAll \/ Resubmit
  BY <1>2 DEF DeleteAll, Delete, Resubmit
<1>3. CASE Tick
  BY <1>3 DEF Tick, Older
<1>4. CASE UNCHANGED vars
  BY <1>4 DEF vars
<1>. QED  BY <1>1, <1>2, <1>3, <1>4 DEF Next, Request

\* Every step keeps the lock with the one who was told so.
LEMMA GrantStep ==
  ASSUME LockAssumption, ~Interleaved
  PROVE  IInv /\ [Next]_vars => GrantInv'
<1> SUFFICES ASSUME IInv, [Next]_vars PROVE GrantInv'
  OBVIOUS
<1> USE DEF LockAssumption, IInv, TypeOK, GrantInv, Granted
<1>1. ASSUME NEW m \in Moderators, ReadLock(m) PROVE GrantInv'
  BY <1>1 DEF ReadLock
<1>2. ASSUME NEW m \in Moderators, WriteLock(m) PROVE GrantInv'
  <2>1. pc[m] = "acquire" /\ seen[m].owner = owner
    BY <1>2 DEF WriteLock, Ready, SeenInv
  <2>2. owner' = m /\ age' = 0 /\ grant' = [grant EXCEPT ![m] = 0]
    BY <1>2, <2>1 DEF WriteLock
  <2>3. ASSUME NEW n \in Moderators \ {m} PROVE ~Granted(n)
    BY <2>1 DEF AloneInv
  <2>. QED  BY <2>2, <2>3
<1>3. ASSUME NEW m \in Moderators, Release(m) PROVE GrantInv'
  BY <1>3 DEF Release, Delete
<1>4. CASE DeleteAll
  BY <1>4 DEF DeleteAll, Delete
<1>5. CASE Tick
  BY <1>5 DEF Tick, Older
<1>6. ASSUME \/ \E m \in Moderators : CheckLock(m) \/ Decide(m) \/ Leave(m)
             \/ Resubmit \/ UNCHANGED vars
      PROVE  UNCHANGED <<owner, age, grant>>
  BY <1>6 DEF CheckLock, Decide, Leave, Resubmit, vars
<1>7. CASE UNCHANGED <<owner, age, grant>>
  BY <1>7
<1>. QED  BY <1>1, <1>2, <1>3, <1>4, <1>5, <1>6, <1>7 DEF Next, Acquire

\* Every step leaves a request alone that is between two statements, but for time.
LEMMA AloneStep ==
  ASSUME LockAssumption, ~Interleaved
  PROVE  IInv /\ [Next]_vars => AloneInv' /\ SeenInv'
<1> SUFFICES ASSUME IInv, [Next]_vars PROVE AloneInv' /\ SeenInv'
  OBVIOUS
<1> USE DEF LockAssumption, IInv, TypeOK, AloneInv, SeenInv
<1>1. ASSUME NEW m \in Moderators, ReadLock(m) PROVE AloneInv' /\ SeenInv'
  BY <1>1 DEF ReadLock, Ready, Current
<1>2. ASSUME NEW m \in Moderators, WriteLock(m) \/ Decide(m)
      PROVE  AloneInv' /\ SeenInv'
  BY <1>2 DEF WriteLock, Decide, Ready
<1>3. ASSUME NEW m \in Moderators, Release(m) PROVE AloneInv' /\ SeenInv'
  BY <1>3 DEF Release, Ready
<1>4. ASSUME NEW m \in Moderators, CheckLock(m) PROVE AloneInv' /\ SeenInv'
  BY <1>4 DEF CheckLock, Ready
<1>5. CASE DeleteAll
  BY <1>5 DEF DeleteAll
<1>6. CASE Tick
  BY <1>6 DEF Tick, Older
<1>7. ASSUME (\E m \in Moderators : Leave(m)) \/ Resubmit \/ UNCHANGED vars
      PROVE  UNCHANGED <<owner, age, pc, seen>>
  BY <1>7 DEF Leave, Resubmit, vars
<1>8. CASE UNCHANGED <<owner, age, pc, seen>>
  BY <1>8
<1>. QED  BY <1>1, <1>2, <1>3, <1>4, <1>5, <1>6, <1>7, <1>8 DEF Next, Acquire

\* The inductive invariant: the lock is with whoever was told so, and what a request
\* has read of it is still true, but for its age, when the request writes.
THEOREM LockInvariant ==
  ASSUME LockAssumption, ~Interleaved
  PROVE  Spec => []IInv
<1>1. IInv /\ [Next]_vars => IInv'
  BY TypeStep, GrantStep, AloneStep DEF IInv
<1>. QED  BY InitInv, <1>1, PTL DEF Spec

\* No two moderators are told, within its expiry, that the lock is theirs, if no
\* other request comes between the statements of one.
THEOREM LockExcludes ==
  ASSUME LockAssumption, ~Interleaved
  PROVE  Spec => []MutualExclusion
<1>1. IInv => MutualExclusion
  BY DEF IInv, GrantInv, MutualExclusion
<1>. QED  BY LockInvariant, <1>1, PTL

\* A review is completed by nobody while another moderator has the lock, if no
\* other request comes between the check and the write.
THEOREM ReviewsAreExclusive ==
  ASSUME LockAssumption, ~Interleaved
  PROVE  Spec => ReviewsRespectLock
<1>1. ASSUME IInv, NEW m \in Moderators, pc[m] = "decide", NEW n \in Moderators \ {m}
      PROVE  ~Granted(n)
  BY <1>1 DEF IInv, TypeOK, LockAssumption, GrantInv, AloneInv, Granted
<1>2. IInv /\ [Next]_vars =>
        [ \A m \in Moderators :
            pc[m] = "decide" /\ pc'[m] = "idle" =>
              \A n \in Moderators \ {m} : ~Granted(n) ]_vars
  BY <1>1
<1>. QED  BY LockInvariant, <1>2, PTL DEF Spec, ReviewsRespectLock

(***************************************************************************)
(* Redeemals                                                                *)
(***************************************************************************)

\* Attempts that are asking Archon for the server of r.
Asking(r) == {a \in Redeem!Actors : at[a] = "create" /\ of[a] = r}

\* A redeemal that may still be claimed costs one server more.
Open(r) == IF rowStatus[r] \in {"none", "pending"} THEN 1 ELSE 0

PlaceInv ==
  /\ \A a \in Redeem!Actors : of[a] # None <=> at[a] \in {"create", "commit"}
  /\ \A a \in Redeem!Actors, r \in Requests : of[a] = r => rowStatus[r] # "none"
  /\ \A q \in Requests : at[q] \in {"idle", "checked"} => rowStatus[q] = "none"

ServersInv ==
  \A r \in Requests : /\ IsFiniteSet(Asking(r))
                      /\ servers[r] + Cardinality(Asking(r)) + Open(r) <= 1 + rescued[r]

\* An attempt that nothing takes for stuck is alone.
AttemptInv ==
  \A r \in Requests : ~hasty[r] =>
    /\ \A a, b \in Redeem!Actors : of[a] = r /\ of[b] = r => a = b
    /\ \A a \in Redeem!Actors : of[a] = r => rowStatus[r] = "processing"
    /\ subs[r] <= (IF rowStatus[r] = "processed" THEN 1 ELSE 0)

\* The inductive invariant of the redeemals.
RedeemInv == Redeem!TypeOK /\ PlaceInv /\ ServersInv /\ AttemptInv

\* It holds at the start.
LEMMA RedeemInitInv ==
  ASSUME Redeem!RedeemalsAssumption
  PROVE  Redeem!Init => RedeemInv
<1> SUFFICES ASSUME Redeem!Init PROVE RedeemInv
  OBVIOUS
<1> USE DEF Redeem!RedeemalsAssumption, Redeem!Init, Redeem!Actors
<1>1. Redeem!TypeOK
  BY DEF Redeem!TypeOK
<1>2. PlaceInv /\ AttemptInv
  BY DEF PlaceInv, AttemptInv
<1>3. ServersInv
  <2>1. ASSUME NEW r \in Requests PROVE Asking(r) = {}
    BY DEF Asking
  <2>. QED  BY <2>1, FS_EmptySet DEF ServersInv, Open
<1>. QED  BY <1>1, <1>2, <1>3 DEF RedeemInv

\* Every step keeps the types and the places.
LEMMA RedeemTypeStep ==
  ASSUME Redeem!RedeemalsAssumption
  PROVE  RedeemInv /\ [Redeem!Next]_redeemVars => Redeem!TypeOK' /\ PlaceInv'
<1> SUFFICES ASSUME RedeemInv, [Redeem!Next]_redeemVars PROVE Redeem!TypeOK' /\ PlaceInv'
  OBVIOUS
<1> USE DEF Redeem!RedeemalsAssumption, Redeem!TypeOK, Redeem!Actors, RedeemInv, PlaceInv,
            Redeem!rows, Redeem!control, Redeem!given
<1>1. ASSUME NEW q \in Requests, Redeem!Check(q) \/ Redeem!Insert(q)
      PROVE  Redeem!TypeOK' /\ PlaceInv'
  BY <1>1 DEF Redeem!Check, Redeem!Insert
<1>2. ASSUME NEW w \in Runs, Redeem!Rescue(w)
      PROVE  Redeem!TypeOK' /\ PlaceInv'
  BY <1>2 DEF Redeem!Rescue, Redeem!Stuck
<1>3. ASSUME NEW w \in Runs, Redeem!List(w) \/ Redeem!RunEnds(w)
      PROVE  Redeem!TypeOK' /\ PlaceInv'
  BY <1>3 DEF Redeem!List, Redeem!RunEnds
<1>4. ASSUME NEW a \in Redeem!Actors, NEW r \in Requests, Redeem!Claim(a, r)
      PROVE  Redeem!TypeOK' /\ PlaceInv'
  <2>1. CASE rowStatus[r] = "pending"
    <3>1. /\ at[a] = "claim" /\ todo' \in [Runs -> SUBSET Requests]
          /\ rowStatus' = [rowStatus EXCEPT ![r] = "processing"]
          /\ old' = [old EXCEPT ![r] = FALSE]
          /\ at' = [at EXCEPT ![a] = "create"]
          /\ of' = [of EXCEPT ![a] = r]
          /\ UNCHANGED <<servers, subs, rescued, hasty, mishaps>>
      BY <1>4, <2>1 DEF Redeem!Claim, Redeem!Tries
    <3>. QED  BY <2>1, <3>1
  <2>2. CASE rowStatus[r] # "pending"
    BY <1>4, <2>2 DEF Redeem!Claim, Redeem!Tries, Redeem!Returns
  <2>. QED  BY <2>1, <2>2
<1>5. ASSUME NEW a \in Redeem!Actors, Redeem!Create(a)
      PROVE  Redeem!TypeOK' /\ PlaceInv'
  <2>1. of[a] \in Requests
    BY <1>5 DEF Redeem!Create
  <2>2. /\ at[a] = "create" /\ at' = [at EXCEPT ![a] = "commit"]
        /\ UNCHANGED <<rowStatus, old, of, todo, subs, rescued, hasty, mishaps>>
    BY <1>5 DEF Redeem!Create
  <2>3. servers' \in [Requests -> Nat]
    BY <1>5, <2>1 DEF Redeem!Create
  <2>4. Redeem!TypeOK'
    BY <2>2, <2>3
  <2>5. PlaceInv'
    BY <2>2
  <2>. QED  BY <2>4, <2>5
<1>6. ASSUME NEW a \in Redeem!Actors, Redeem!Commit(a)
      PROVE  Redeem!TypeOK' /\ PlaceInv'
  <2>1. /\ of[a] \in Requests /\ at[a] = "commit" 
        /\ at' = [at EXCEPT ![a] = IF a \in Runs THEN "claim" ELSE "done"]
        /\ of' = [of EXCEPT ![a] = None]
        /\ rowStatus' = [rowStatus EXCEPT ![of[a]] = "processed"]
        /\ UNCHANGED <<todo, servers, rescued, hasty, mishaps>>
    BY <1>6 DEF Redeem!Commit, Redeem!Returns
  <2>2. subs' \in [Requests -> Nat] /\ old' \in [Requests -> BOOLEAN]
    BY <1>6, <2>1 DEF Redeem!Commit
  <2>3. PlaceInv'
    BY <2>1
  <2>. QED  BY <2>1, <2>2, <2>3
<1>7. ASSUME NEW a \in Redeem!Actors, Redeem!Fail(a) \/ Redeem!LosesAnswer(a)
      PROVE  Redeem!TypeOK' /\ PlaceInv'
  BY <1>7 DEF Redeem!Fail, Redeem!LosesAnswer, Redeem!Mishap, Redeem!Returns
<1>8. ASSUME NEW a \in Redeem!Actors, Redeem!Dies(a)
      PROVE  Redeem!TypeOK' /\ PlaceInv'
  BY <1>8 DEF Redeem!Dies, Redeem!Mishap
<1>9. ASSUME NEW r \in Requests, Redeem!Ages(r)
      PROVE  Redeem!TypeOK' /\ PlaceInv'
  BY <1>9 DEF Redeem!Ages, Redeem!Mishap
<1>10. CASE UNCHANGED redeemVars
  BY <1>10 DEF redeemVars
<1>. QED
  BY <1>1, <1>2, <1>3, <1>4, <1>5, <1>6, <1>7, <1>8, <1>9, <1>10
     DEF Redeem!Next, Redeem!Run, Redeem!Attempt

\* Every step pays for a server with a claim, and for a second claim with a rescue.
LEMMA RedeemServersStep ==
  ASSUME Redeem!RedeemalsAssumption
  PROVE  RedeemInv /\ [Redeem!Next]_redeemVars => ServersInv'
<1> SUFFICES ASSUME RedeemInv, [Redeem!Next]_redeemVars, NEW r \in Requests
             PROVE  /\ IsFiniteSet(Asking(r)')
                    /\ servers'[r] + Cardinality(Asking(r)') + Open(r)' <= 1 + rescued'[r]
  BY DEF ServersInv
<1>0. /\ Redeem!TypeOK /\ PlaceInv /\ IsFiniteSet(Asking(r))
      /\ servers[r] + Cardinality(Asking(r)) + Open(r) <= 1 + rescued[r]
      /\ servers[r] \in Nat /\ rescued[r] \in Nat /\ Cardinality(Asking(r)) \in Nat
  BY FS_CardinalityType DEF RedeemInv, ServersInv, Redeem!TypeOK
<1> DEFINE A == Asking(r)
           B == Asking(r)'
           Holds == IsFiniteSet(B) /\ servers'[r] + Cardinality(B) + Open(r)' <= 1 + rescued'[r]
<1> USE DEF Redeem!RedeemalsAssumption, Redeem!Actors, Redeem!rows, Redeem!control,
            Redeem!given
<1>9. ASSUME NEW a, B = A \ {a}
      PROVE  /\ IsFiniteSet(B) /\ Cardinality(B) \in Nat
             /\ Cardinality(B) = Cardinality(A) - (IF a \in A THEN 1 ELSE 0)
  <2>1. /\ IsFiniteSet(A \ {a})
        /\ Cardinality(A \ {a}) = IF a \in A THEN Cardinality(A) - 1 ELSE Cardinality(A)
    BY <1>0, FS_RemoveElement
  <2>. QED  BY <1>0, <1>9, <2>1, FS_CardinalityType
<1>1. ASSUME B = A \/ \E a \in Redeem!Actors : B = A \ {a},
             servers' = servers, rescued' = rescued, Open(r)' <= Open(r)
      PROVE  Holds
  <2>1. IsFiniteSet(B) /\ Cardinality(B) <= Cardinality(A)
    BY <1>0, <1>1, <1>9
  <2>2. Cardinality(B) \in Nat /\ Open(r) \in {0, 1} /\ Open(r)' \in {0, 1}
    BY <2>1, FS_CardinalityType DEF Open
  <2> HIDE DEF A, B
  <2>. QED  BY <1>0, <1>1, <2>1, <2>2 DEF A, B
<1>2. ASSUME NEW q \in Requests, Redeem!Check(q) \/ Redeem!Insert(q)
      PROVE  Holds
  <2>1. B = A
    BY <1>0, <1>2 DEF Asking, PlaceInv, Redeem!TypeOK, Redeem!Check, Redeem!Insert
  <2>2. servers' = servers /\ rescued' = rescued /\ Open(r)' <= Open(r)
    BY <1>0, <1>2 DEF Open, PlaceInv, Redeem!TypeOK, Redeem!Check, Redeem!Insert
  <2>. QED  BY <1>1, <2>1, <2>2
<1>3. ASSUME NEW w \in Runs, Redeem!Rescue(w)
      PROVE  Holds
  <2>1. B = A
    BY <1>0, <1>3 DEF Asking, PlaceInv, Redeem!TypeOK, Redeem!Rescue
  <2>2. /\ servers' = servers
        /\ \/ rescued'[r] = rescued[r] + 1
           \/ rescued'[r] = rescued[r] /\ Open(r)' = Open(r)
    BY <1>0, <1>3 DEF Open, Redeem!TypeOK, Redeem!Rescue, Redeem!Stuck
  <2>. QED  BY <1>0, <2>1, <2>2 DEF Open
<1>4. ASSUME NEW w \in Runs, Redeem!List(w) \/ Redeem!RunEnds(w)
      PROVE  Holds
  <2>1. B = A
    BY <1>0, <1>4 DEF Asking, PlaceInv, Redeem!TypeOK, Redeem!List, Redeem!RunEnds
  <2>. QED  BY <1>1, <1>4, <2>1 DEF Open, Redeem!List, Redeem!RunEnds
<1>5. ASSUME NEW a \in Redeem!Actors, NEW p \in Requests, Redeem!Claim(a, p)
      PROVE  Holds
  <2>1. CASE p = r /\ rowStatus[p] = "pending"
    <3>1. /\ B = A \cup {a} /\ a \notin A
          /\ servers' = servers /\ rescued' = rescued
          /\ Open(r) = 1 /\ Open(r)' = 0
      BY <1>0, <1>5, <2>1 DEF Asking, Open, Redeem!TypeOK, Redeem!Claim, Redeem!Tries
    <3>2. IsFiniteSet(B) /\ Cardinality(B) = Cardinality(A) + 1
      BY <1>0, <3>1, FS_AddElement
    <3>. QED  BY <1>0, <3>1, <3>2
  <2>2. CASE ~(p = r /\ rowStatus[p] = "pending")
    <3>1. B = A
      BY <1>0, <1>5, <2>2
         DEF Asking, PlaceInv, Redeem!TypeOK, Redeem!Claim, Redeem!Tries, Redeem!Returns
    <3>2. servers' = servers /\ rescued' = rescued /\ Open(r)' <= Open(r)
      BY <1>0, <1>5, <2>2 DEF Open, Redeem!TypeOK, Redeem!Claim
    <3>. QED  BY <1>1, <3>1, <3>2
  <2>. QED  BY <2>1, <2>2
<1>6. ASSUME NEW a \in Redeem!Actors, Redeem!Create(a) \/ Redeem!LosesAnswer(a)
      PROVE  Holds
  <2>1. /\ of[a] \in Requests /\ rescued' = rescued /\ Open(r)' = Open(r)
        /\ servers' = [servers EXCEPT ![of[a]] = @ + 1]
    BY <1>0, <1>6 DEF Open, PlaceInv, Redeem!TypeOK, Redeem!Create, Redeem!LosesAnswer
  <2>2. B = A \ {a} /\ (of[a] = r => a \in A)
    BY <1>0, <1>6
       DEF Asking, PlaceInv, Redeem!TypeOK, Redeem!Create, Redeem!LosesAnswer, Redeem!Returns
  <2>3. CASE of[a] = r
    <3>1. IsFiniteSet(B) /\ Cardinality(B) = Cardinality(A) - 1
      BY <1>9, <2>2, <2>3
    <3>2. servers'[r] = servers[r] + 1
      BY <1>0, <2>1, <2>3 DEF Redeem!TypeOK
    <3>. QED  BY <1>0, <2>1, <3>1, <3>2 DEF Open
  <2>4. CASE of[a] # r
    <3>1. IsFiniteSet(B) /\ Cardinality(B) <= Cardinality(A) /\ Cardinality(B) \in Nat
      BY <1>0, <1>9, <2>2
    <3>2. servers'[r] = servers[r]
      BY <1>0, <2>1, <2>4 DEF Redeem!TypeOK
    <3>. QED  BY <1>0, <2>1, <3>1, <3>2 DEF Open
  <2>. QED  BY <2>3, <2>4
<1>7. ASSUME NEW a \in Redeem!Actors, Redeem!Commit(a) \/ Redeem!Fail(a) \/ Redeem!Dies(a)
      PROVE  Holds
  <2>1. B = A \ {a}
    BY <1>0, <1>7
       DEF Asking, PlaceInv, Redeem!TypeOK, Redeem!Commit, Redeem!Fail, Redeem!Dies,
           Redeem!Returns
  <2>2. servers' = servers /\ rescued' = rescued /\ Open(r)' <= Open(r)
    BY <1>0, <1>7
       DEF Open, PlaceInv, Redeem!TypeOK, Redeem!Commit, Redeem!Fail, Redeem!Dies
  <2>. QED  BY <1>1, <2>1, <2>2
<1>8. ASSUME (\E p \in Requests : Redeem!Ages(p)) \/ UNCHANGED redeemVars
      PROVE  Holds
  <2>1. UNCHANGED <<rowStatus, at, of, servers, rescued>>
    BY <1>8 DEF Redeem!Ages, redeemVars
  <2>2. B = A /\ Open(r)' = Open(r)
    BY <2>1 DEF Asking, Open
  <2>. QED  BY <1>1, <2>1, <2>2 DEF Open
<1>. QED
  BY <1>2, <1>3, <1>4, <1>5, <1>6, <1>7, <1>8 DEF Redeem!Next, Redeem!Run, Redeem!Attempt

\* Every step leaves a redeemal that is never taken for stuck in haste to one attempt.
LEMMA RedeemAttemptStep ==
  ASSUME Redeem!RedeemalsAssumption
  PROVE  RedeemInv /\ [Redeem!Next]_redeemVars => AttemptInv'
<1> SUFFICES ASSUME RedeemInv, [Redeem!Next]_redeemVars PROVE AttemptInv'
  OBVIOUS
<1> USE DEF Redeem!RedeemalsAssumption, Redeem!TypeOK, Redeem!Actors, RedeemInv, PlaceInv,
            Redeem!rows, Redeem!control, Redeem!given, AttemptInv
<1>1. ASSUME NEW q \in Requests, Redeem!Check(q) \/ Redeem!Insert(q)
      PROVE  AttemptInv'
  BY <1>1 DEF Redeem!Check, Redeem!Insert
<1>2. ASSUME NEW w \in Runs, Redeem!Rescue(w)
      PROVE  AttemptInv'
  BY <1>2 DEF Redeem!Rescue, Redeem!Stuck, Redeem!Attempted
<1>3. ASSUME NEW w \in Runs, Redeem!List(w) \/ Redeem!RunEnds(w)
      PROVE  AttemptInv'
  BY <1>3 DEF Redeem!List, Redeem!RunEnds
<1>4. ASSUME NEW a \in Redeem!Actors, NEW r \in Requests, Redeem!Claim(a, r)
      PROVE  AttemptInv'
  <2>1. CASE rowStatus[r] = "pending"
    BY <1>4, <2>1 DEF Redeem!Claim
  <2>2. CASE rowStatus[r] # "pending"
    BY <1>4, <2>2 DEF Redeem!Claim, Redeem!Returns
  <2>. QED  BY <2>1, <2>2
<1>5. ASSUME NEW a \in Redeem!Actors, Redeem!Commit(a)
      PROVE  AttemptInv'
  <2>1. /\ of[a] \in Requests
        /\ subs' = [subs EXCEPT ![of[a]] = @ + 1]
        /\ rowStatus' = [rowStatus EXCEPT ![of[a]] = "processed"]
        /\ of' = [of EXCEPT ![a] = None]
        /\ hasty' = hasty
    BY <1>5 DEF Redeem!Commit, Redeem!Returns
  <2>2. ASSUME NEW r \in Requests, ~hasty[r], r = of[a]
        PROVE  /\ \A b \in Redeem!Actors : of'[b] # r
               /\ subs'[r] <= 1 /\ rowStatus'[r] = "processed"
    BY <2>1, <2>2
  <2>3. ASSUME NEW r \in Requests, ~hasty[r], r # of[a]
        PROVE  /\ \A b \in Redeem!Actors : of'[b] = r => of[b] = r
               /\ subs'[r] = subs[r] /\ rowStatus'[r] = rowStatus[r]
    BY <2>1, <2>3
  <2>. QED  BY <2>1, <2>2, <2>3
<1>6. ASSUME NEW a \in Redeem!Actors,
             Redeem!Create(a) \/ Redeem!Fail(a) \/ Redeem!LosesAnswer(a) \/ Redeem!Dies(a)
      PROVE  AttemptInv'
  BY <1>6 DEF Redeem!Create, Redeem!Fail, Redeem!LosesAnswer, Redeem!Dies, Redeem!Returns
<1>7. ASSUME (\E p \in Requests : Redeem!Ages(p)) \/ UNCHANGED redeemVars
      PROVE  UNCHANGED <<rowStatus, of, subs, hasty>>
  BY <1>7 DEF Redeem!Ages, redeemVars
<1>8. CASE UNCHANGED <<rowStatus, of, subs, hasty>>
  BY <1>8
<1>. QED
  BY <1>1, <1>2, <1>3, <1>4, <1>5, <1>6, <1>7, <1>8
     DEF Redeem!Next, Redeem!Run, Redeem!Attempt

\* The redeemals' inductive invariant: who has claimed what, what it costs, and that an
\* attempt nothing takes for stuck is alone.
THEOREM RedeemInvariant ==
  ASSUME Redeem!RedeemalsAssumption
  PROVE  ServerSpec => []RedeemInv
<1>1. ServerInit => RedeemInv
  BY RedeemInitInv DEF ServerInit
<1>2. RedeemInv /\ [ServerNext]_serverVars => RedeemInv'
  <2>1. [ServerNext]_serverVars => [Redeem!Next]_redeemVars
    BY DEF ServerNext, serverVars
  <2>2. RedeemInv /\ [Redeem!Next]_redeemVars => RedeemInv'
    BY RedeemTypeStep, RedeemServersStep, RedeemAttemptStep DEF RedeemInv
  <2>. QED  BY <2>1, <2>2
<1>. QED  BY <1>1, <1>2, PTL DEF ServerSpec

\* However requests and runs overlap, fail and die, a redeemal costs one server and one
\* more each time it is taken for stuck.
THEOREM ServersAreAlwaysCounted ==
  ASSUME Redeem!RedeemalsAssumption
  PROVE  ServerSpec => []ServersAreCounted
<1>1. RedeemInv => ServersAreCounted
  <2> SUFFICES ASSUME RedeemInv, NEW r \in Requests PROVE servers[r] <= 1 + rescued[r]
    BY DEF ServersAreCounted, Redeem!ServersAreCounted
  <2>1. /\ servers[r] \in Nat /\ rescued[r] \in Nat /\ Cardinality(Asking(r)) \in Nat
        /\ servers[r] + Cardinality(Asking(r)) + Open(r) <= 1 + rescued[r]
    BY FS_CardinalityType DEF RedeemInv, ServersInv, Redeem!TypeOK
  <2>. QED  BY <2>1 DEF Open
<1>. QED  BY RedeemInvariant, <1>1, PTL

\* A redeemal gives one subscription, unless an attempt was taken for stuck in haste.
THEOREM SubscriptionsAreSingle ==
  ASSUME Redeem!RedeemalsAssumption
  PROVE  ServerSpec => []OneSubscription
<1>1. RedeemInv => OneSubscription
  BY DEF RedeemInv, AttemptInv, Redeem!TypeOK, OneSubscription, Redeem!OneSubscription
<1>. QED  BY RedeemInvariant, <1>1, PTL

(***************************************************************************)
(* The notification emails                                                  *)
(***************************************************************************)

\* One worker at a time, which has no other worker's rows.
BusyInv ==
  \A w \in Workers :
    /\ mailPc[w] # "idle" => \A v \in Workers \ {w} : mailPc[v] = "idle"
    /\ mailPc[w] = "idle" => batch[w] = {}

\* What a worker has still to write back is what it has read, and was not attempted too
\* often if its email is sent.
Copied(w, d) ==
  /\ copy[w][d] = row[d] /\ row[d].status = "pending"
  /\ mailPc[w] = "give up" => result[w][d] = "none"
  /\ mailPc[w] = "postpone" => result[w][d] = "error"
  /\ mailPc[w] # "give up" => row[d].attempts < MaxAttempts

CopyInv == \A w \in Workers, d \in Deliveries : d \in batch[w] => Copied(w, d)

\* An email of which the result is not recorded yet.
Unrecorded(d, results) == \E w \in Workers : d \in batch[w] /\ result[w][d] \in results

Attempted(d) == IF Unrecorded(d, {"delivered", "permanently_failed", "pending"}) THEN 1 ELSE 0
Accepted(d)  == IF row[d].status = "delivered" \/ Unrecorded(d, {"delivered"}) THEN 1 ELSE 0

Counted(d) == /\ tries[d] <= row[d].attempts + Attempted(d) + mailMishaps
              /\ sent[d] <= Accepted(d) + mailMishaps

CountInv == \A d \in Deliveries : Counted(d)

MailInv == Mail!TypeOK /\ BusyInv /\ CopyInv /\ CountInv

\* It holds at the start.
LEMMA MailInitInv ==
  ASSUME Mail!EmailAssumption
  PROVE  Mail!Init => MailInv
<1> SUFFICES ASSUME Mail!Init PROVE MailInv
  OBVIOUS
<1> USE DEF Mail!EmailAssumption, Mail!Init
<1>1. Mail!TypeOK
  BY DEF Mail!TypeOK, Mail!Row, Mail!Status, Mail!Result, Mail!NoResult, Mail!Most
<1>2. BusyInv /\ CopyInv
  BY DEF BusyInv, CopyInv
<1>3. CountInv
  BY DEF CountInv, Counted, Attempted, Accepted, Unrecorded
<1>. QED  BY <1>1, <1>2, <1>3 DEF MailInv

\* What answering an email, writing a row back and forgetting a batch leave of the types.
LEMMA MailParts ==
  ASSUME Mail!EmailAssumption, Mail!TypeOK, NEW w \in Workers
  PROVE  /\ \A d \in Deliveries, r \in Mail!Result :
              Mail!Answer(w, d, r) => result' \in [Workers -> [Deliveries -> Mail!Result]]
         /\ \A d \in Deliveries : \A r : Mail!Answer(w, d, r) =>
              /\ result'[w][d] = r
              /\ \A v \in Workers, e \in Deliveries :
                   v # w \/ e # d => result'[v][e] = result[v][e]
         /\ \A d \in Deliveries, r \in Mail!Row :
              Mail!WriteBack(w, d, r) => row' \in [Deliveries -> Mail!Row]
         /\ Mail!NoResult \in [Deliveries -> Mail!Result]
         /\ \A n \in 0..Mail!Most : Mail!Count(n) \in 0..Mail!Most
         /\ \A d \in Deliveries : copy[w][d] \in Mail!Row /\ copy[w][d].attempts \in Nat
         /\ Mail!Mishap => mailMishaps' \in 0..MaxMishaps
<1>1. ASSUME NEW d \in Deliveries, NEW r \in Mail!Result, Mail!Answer(w, d, r)
      PROVE  result' \in [Workers -> [Deliveries -> Mail!Result]]
  BY <1>1 DEF Mail!Answer, Mail!TypeOK
<1>2. Mail!NoResult \in [Deliveries -> Mail!Result]
  BY DEF Mail!NoResult, Mail!Result
<1>3. ASSUME NEW n \in 0..Mail!Most PROVE Mail!Count(n) \in 0..Mail!Most
  BY DEF Mail!Count, Mail!Most, Mail!EmailAssumption
<1>4. ASSUME Mail!Mishap PROVE mailMishaps' \in 0..MaxMishaps
  <2>1. mailMishaps \in 0..MaxMishaps /\ MaxMishaps \in Nat
    BY DEF Mail!TypeOK, Mail!EmailAssumption
  <2>. QED  BY <1>4, <2>1 DEF Mail!Mishap
<1>5. ASSUME NEW d \in Deliveries
      PROVE  copy[w][d] \in Mail!Row /\ copy[w][d].attempts \in Nat
  <2>1. copy[w][d] \in Mail!Row
    BY DEF Mail!TypeOK
  <2>. QED  BY <2>1 DEF Mail!Row, Mail!EmailAssumption
<1>6. ASSUME NEW d \in Deliveries, NEW r, Mail!Answer(w, d, r)
      PROVE  /\ result'[w][d] = r
             /\ \A v \in Workers, e \in Deliveries :
                  v # w \/ e # d => result'[v][e] = result[v][e]
  BY <1>6 DEF Mail!Answer, Mail!TypeOK
<1>. QED  BY <1>1, <1>2, <1>3, <1>4, <1>5, <1>6 DEF Mail!WriteBack, Mail!TypeOK

\* Every step keeps the types.
LEMMA MailTypeStep ==
  ASSUME Mail!EmailAssumption
  PROVE  MailInv /\ [Mail!Next]_mailVars => Mail!TypeOK'
<1> SUFFICES ASSUME MailInv, [Mail!Next]_mailVars PROVE Mail!TypeOK'
  OBVIOUS
<1>0. Mail!TypeOK
  BY DEF MailInv
<1> USE DEF Mail!TypeOK, Mail!history, Mail!workerVars
<1>1. ASSUME NEW w \in Workers, Mail!Take(w) PROVE Mail!TypeOK'
  <2>1. batch' \in [Workers -> SUBSET Deliveries]
    BY <1>0, <1>1 DEF Mail!Take, Mail!Processable
  <2>. QED  BY <1>0, <1>1, <2>1, MailParts DEF Mail!Take
<1>2. ASSUME NEW w \in Workers, Mail!GivenUp(w) \/ Mail!AllAnswered(w) PROVE Mail!TypeOK'
  BY <1>0, <1>2 DEF Mail!GivenUp, Mail!AllAnswered
<1>3. ASSUME NEW w \in Workers, Mail!Finish(w) \/ Mail!Stop(w) PROVE Mail!TypeOK'
  <2>1. [d \in Deliveries |-> [status |-> "pending", attempts |-> 0]] \in [Deliveries -> Mail!Row]
    BY DEF Mail!Row, Mail!Status, Mail!EmailAssumption
  <2>2. mailMishaps' \in 0..MaxMishaps
    BY <1>0, <1>3, MailParts DEF Mail!Finish, Mail!Stop
  <2>3. Mail!Forget(w)
    BY <1>3 DEF Mail!Finish, Mail!Stop
  <2>4. mailPc' \in [Workers -> {"idle", "give up", "send", "postpone"}]
    BY <1>0, <2>3 DEF Mail!Forget
  <2>5. batch' \in [Workers -> SUBSET Deliveries]
    BY <1>0, <2>3 DEF Mail!Forget
  <2>6. copy' \in [Workers -> [Deliveries -> Mail!Row]]
    BY <1>0, <2>1, <2>3 DEF Mail!Forget
  <2>7. result' \in [Workers -> [Deliveries -> Mail!Result]]
    BY <1>0, <2>3, MailParts DEF Mail!Forget
  <2>. QED  BY <1>0, <2>2, <2>3, <2>4, <2>5, <2>6, <2>7 DEF Mail!Forget
<1>4. ASSUME NEW w \in Workers, NEW d \in Deliveries, Mail!GiveUp(w, d) PROVE Mail!TypeOK'
  <2>1. [copy[w][d] EXCEPT !.status = "permanently_failed"] \in Mail!Row
    <3>1. copy[w][d] \in Mail!Row
      BY <1>0, MailParts
    <3>. QED  BY <3>1 DEF Mail!Row, Mail!Status, Mail!Final
  <2>2. row' \in [Deliveries -> Mail!Row]
    BY <1>0, <1>4, <2>1, MailParts DEF Mail!GiveUp
  <2>. QED  BY <1>0, <1>4, <2>2 DEF Mail!GiveUp
<1>5. ASSUME NEW w \in Workers, NEW d \in Deliveries, Mail!Skip(w, d) \/ Mail!BuildFails(w, d)
      PROVE  Mail!TypeOK'
  <2>1. result' \in [Workers -> [Deliveries -> Mail!Result]]
    BY <1>0, <1>5, MailParts
       DEF Mail!Skip, Mail!BuildFails, Mail!Result, Mail!Status, Mail!Final
  <2>. QED  BY <1>0, <1>5, <2>1 DEF Mail!Skip, Mail!BuildFails
<1>6. ASSUME NEW w \in Workers, NEW d \in Deliveries,
             Mail!Send(w, d) \/ Mail!SendUnheard(w, d)
      PROVE  Mail!TypeOK'
  <2>1. result' \in [Workers -> [Deliveries -> Mail!Result]]
    BY <1>0, <1>6, MailParts
       DEF Mail!Send, Mail!SendUnheard, Mail!Result, Mail!Status, Mail!Final
  <2>2. tries' \in [Deliveries -> 0..Mail!Most] /\ sent' \in [Deliveries -> 0..Mail!Most]
    <3>1. /\ tries' = [tries EXCEPT ![d] = Mail!Count(@)]
          /\ sent' = sent \/ sent' = [sent EXCEPT ![d] = Mail!Count(@)]
      BY <1>6 DEF Mail!Send, Mail!SendUnheard
    <3>2. Mail!Count(tries[d]) \in 0..Mail!Most /\ Mail!Count(sent[d]) \in 0..Mail!Most
      BY <1>0, MailParts
    <3>. QED  BY <1>0, <3>1, <3>2
  <2>3. mailMishaps' \in 0..MaxMishaps
    BY <1>0, <1>6, MailParts DEF Mail!Send, Mail!SendUnheard
  <2>. QED  BY <1>0, <1>6, <2>1, <2>2, <2>3 DEF Mail!Send, Mail!SendUnheard
<1>7. ASSUME NEW w \in Workers, NEW d \in Deliveries, Mail!Record(w, d) PROVE Mail!TypeOK'
  <2>1. copy[w][d].attempts \in Nat /\ copy[w][d].attempts < MaxAttempts
    BY <1>0, <1>7, MailParts DEF Mail!Record, MailInv, CopyInv, Copied
  <2>2. [status |-> result[w][d], attempts |-> copy[w][d].attempts + 1] \in Mail!Row
    BY <1>7, <2>1 DEF Mail!Record, Mail!Row, Mail!EmailAssumption
  <2>3. row' \in [Deliveries -> Mail!Row]
    BY <1>0, <1>7, <2>2, MailParts DEF Mail!Record
  <2>. QED  BY <1>0, <1>7, <2>3 DEF Mail!Record
<1>8. ASSUME NEW w \in Workers, NEW d \in Deliveries, Mail!Postpone(w, d) PROVE Mail!TypeOK'
  <2>1. row' \in [Deliveries -> Mail!Row]
    BY <1>0, <1>8, MailParts DEF Mail!Postpone
  <2>. QED  BY <1>0, <1>8, <2>1 DEF Mail!Postpone
<1>9. ASSUME NEW d \in Deliveries, Mail!BecomeDue(d) PROVE Mail!TypeOK'
  BY <1>0, <1>9 DEF Mail!BecomeDue
<1>10. CASE UNCHANGED mailVars
  BY <1>0, <1>10 DEF mailVars
<1>. QED
  BY <1>1, <1>2, <1>3, <1>4, <1>5, <1>6, <1>7, <1>8, <1>9, <1>10
     DEF Mail!Next, Mail!Work, Mail!vars, mailVars

\* A worker that is at work is the only one, as no run starts beside it.
LEMMA MailBusyStep ==
  ASSUME Mail!EmailAssumption, ~Overlap
  PROVE  MailInv /\ [Mail!Next]_mailVars => BusyInv'
<1> SUFFICES ASSUME MailInv, [Mail!Next]_mailVars PROVE BusyInv'
  OBVIOUS
<1>0. Mail!TypeOK /\ BusyInv
  BY DEF MailInv
<1> USE DEF Mail!TypeOK, BusyInv, Mail!history, Mail!workerVars
<1>1. ASSUME NEW w \in Workers, Mail!Take(w) PROVE BusyInv'
  <2>1. /\ \A v \in Workers : mailPc[v] = "idle"
        /\ mailPc' = [mailPc EXCEPT ![w] = "give up"]
        /\ \A v \in Workers \ {w} : batch'[v] = batch[v]
    BY <1>0, <1>1 DEF Mail!Take
  <2>. QED  BY <1>0, <2>1
<1>2. ASSUME NEW w \in Workers, Mail!GivenUp(w) \/ Mail!AllAnswered(w) PROVE BusyInv'
  BY <1>0, <1>2 DEF Mail!GivenUp, Mail!AllAnswered
<1>3. ASSUME NEW w \in Workers, Mail!Finish(w) \/ Mail!Stop(w) PROVE BusyInv'
  <2>1. Mail!Forget(w)
    BY <1>3 DEF Mail!Finish, Mail!Stop
  <2>2. /\ mailPc' = [mailPc EXCEPT ![w] = "idle"]
        /\ batch' = [batch EXCEPT ![w] = {}]
    BY <2>1 DEF Mail!Forget
  <2>. QED  BY <1>0, <2>2
<1>4. ASSUME NEW w \in Workers, NEW d \in Deliveries,
             Mail!GiveUp(w, d) \/ Mail!Record(w, d) \/ Mail!Postpone(w, d)
      PROVE  BusyInv'
  BY <1>0, <1>4 DEF Mail!GiveUp, Mail!Record, Mail!Postpone
<1>5. ASSUME \/ \E w \in Workers, d \in Deliveries :
                  Mail!Skip(w, d) \/ Mail!BuildFails(w, d) \/ Mail!Send(w, d)
                    \/ Mail!SendUnheard(w, d)
             \/ \E d \in Deliveries : Mail!BecomeDue(d)
             \/ UNCHANGED mailVars
      PROVE  UNCHANGED <<mailPc, batch>>
  BY <1>5
     DEF Mail!Skip, Mail!BuildFails, Mail!Send, Mail!SendUnheard, Mail!BecomeDue, mailVars
<1>6. CASE UNCHANGED <<mailPc, batch>>
  BY <1>0, <1>6
<1>. QED
  BY <1>1, <1>2, <1>3, <1>4, <1>5, <1>6 DEF Mail!Next, Mail!Work, Mail!vars, mailVars

\* A worker that is at work has read what the rows are, as nobody else writes them.
LEMMA MailCopyStep ==
  ASSUME Mail!EmailAssumption, ~Overlap
  PROVE  MailInv /\ [Mail!Next]_mailVars => CopyInv'
<1> SUFFICES ASSUME MailInv, [Mail!Next]_mailVars,
                    NEW v \in Workers, NEW e \in Deliveries, e \in batch'[v]
             PROVE  Copied(v, e)'
  BY DEF CopyInv
<1>0. /\ Mail!TypeOK /\ BusyInv
      /\ e \in batch[v] => Copied(v, e)
  BY DEF MailInv, CopyInv
<1> USE DEF Mail!history, Mail!workerVars
<1>1. ASSUME NEW w \in Workers, Mail!Take(w) PROVE Copied(v, e)'
  <2>1. v = w
    <3>1. v # w => batch'[v] = {}
      BY <1>0, <1>1 DEF Mail!Take, BusyInv, Mail!TypeOK
    <3>. QED  BY <3>1
  <2>2. mailPc'[w] = "give up" /\ row' = row /\ copy'[w] = row
    BY <1>0, <1>1 DEF Mail!Take, Mail!TypeOK
  <2>3. result'[w][e] = "none"
    BY <1>0, <1>1 DEF Mail!Take, Mail!NoResult, Mail!TypeOK
  <2>4. row[e].status = "pending"
    BY <1>0, <1>1, <2>1 DEF Mail!Take, Mail!Processable, Mail!TypeOK
  <2>. QED  BY <2>1, <2>2, <2>3, <2>4 DEF Copied
<1>2. ASSUME NEW w \in Workers, Mail!GivenUp(w) PROVE Copied(v, e)'
  <2>1. e \in batch[v] /\ Copied(v, e) /\ UNCHANGED <<row, copy, batch, result>>
    BY <1>0, <1>2 DEF Mail!GivenUp
  <2>2. CASE v = w
    <3>1. ~(copy[v][e].attempts >= MaxAttempts)
      BY <1>2, <2>1, <2>2 DEF Mail!GivenUp, Mail!Exhausted
    <3>2. copy[v][e].attempts \in Nat /\ MaxAttempts \in Nat
      BY <1>0, MailParts DEF Mail!EmailAssumption
    <3>5. copy[v][e] = row[e]
      BY <2>1 DEF Copied
    <3>3. row[e].attempts < MaxAttempts
      BY <3>1, <3>2, <3>5
    <3>4. mailPc'[v] = "send"
      BY <1>0, <1>2, <2>2 DEF Mail!GivenUp, Mail!TypeOK
    <3>. QED  BY <2>1, <3>3, <3>4 DEF Copied
  <2>3. CASE v # w
    <3>1. mailPc'[v] = mailPc[v]
      BY <1>0, <1>2, <2>3 DEF Mail!GivenUp, Mail!TypeOK
    <3>. QED  BY <2>1, <3>1 DEF Copied
  <2>. QED  BY <2>2, <2>3
<1>3. ASSUME NEW w \in Workers, Mail!AllAnswered(w) PROVE Copied(v, e)'
  <2>1. e \in batch[v] /\ Copied(v, e) /\ UNCHANGED <<row, copy, batch, result>>
    BY <1>0, <1>3 DEF Mail!AllAnswered
  <2>2. /\ mailPc'[v] = "give up" <=> mailPc[v] = "give up"
        /\ mailPc'[v] = "postpone" => mailPc[v] = "postpone" \/ result[v][e] = "error"
    BY <1>0, <1>3, <2>1 DEF Mail!AllAnswered, Mail!TypeOK
  <2>. QED  BY <2>1, <2>2 DEF Copied
<1>4. ASSUME NEW w \in Workers, Mail!Finish(w) \/ Mail!Stop(w) PROVE Copied(v, e)'
  <2>1. Mail!Forget(w)
    BY <1>4 DEF Mail!Finish, Mail!Stop
  <2>2. v # w
    BY <1>0, <2>1 DEF Mail!Forget, Mail!TypeOK
  <2>3. /\ row' = row /\ mailPc'[v] = mailPc[v] /\ batch'[v] = batch[v]
        /\ copy'[v] = copy[v] /\ result'[v] = result[v]
    BY <1>0, <2>1, <2>2 DEF Mail!Forget, Mail!TypeOK
  <2>. QED  BY <1>0, <2>3 DEF Copied
<1>5. ASSUME NEW w \in Workers, NEW d \in Deliveries,
             Mail!GiveUp(w, d) \/ Mail!Record(w, d) \/ Mail!Postpone(w, d)
      PROVE  Copied(v, e)'
  <2>1. /\ UNCHANGED <<mailPc, copy, result>>
        /\ batch' = [batch EXCEPT ![w] = @ \ {d}]
        /\ \E r : row' = [row EXCEPT ![d] = r]
        /\ mailPc[w] # "idle"
    BY <1>5 DEF Mail!GiveUp, Mail!Record, Mail!Postpone, Mail!WriteBack
  <2>2. v = w
    <3>1. v # w => batch'[v] = {}
      BY <1>0, <2>1 DEF BusyInv, Mail!TypeOK
    <3>. QED  BY <3>1
  <2>3. e # d /\ e \in batch[v] /\ row'[e] = row[e]
    BY <1>0, <2>1, <2>2 DEF Mail!TypeOK
  <2>. QED  BY <1>0, <2>1, <2>3 DEF Copied
<1>6. ASSUME NEW w \in Workers, NEW d \in Deliveries,
             \/ Mail!Skip(w, d) \/ Mail!BuildFails(w, d)
             \/ Mail!Send(w, d) \/ Mail!SendUnheard(w, d)
      PROVE  Copied(v, e)'
  <2>1. /\ mailPc[w] = "send" /\ UNCHANGED <<row, mailPc, copy, batch>>
        /\ \E r : result' = [result EXCEPT ![w][d] = r]
    BY <1>6
       DEF Mail!Skip, Mail!BuildFails, Mail!Send, Mail!SendUnheard, Mail!Unsent, Mail!Answer
  <2>2. v # w => result'[v] = result[v]
    BY <1>0, <2>1 DEF Mail!TypeOK
  <2>. QED  BY <1>0, <2>1, <2>2 DEF Copied
<1>7. ASSUME (\E d \in Deliveries : Mail!BecomeDue(d)) \/ UNCHANGED mailVars
      PROVE  UNCHANGED <<row, mailPc, copy, batch, result>>
  BY <1>7 DEF Mail!BecomeDue, mailVars
<1>8. CASE UNCHANGED <<row, mailPc, copy, batch, result>>
  BY <1>0, <1>8 DEF Copied
<1>. QED
  BY <1>1, <1>2, <1>3, <1>4, <1>5, <1>6, <1>7, <1>8
     DEF Mail!Next, Mail!Work, Mail!vars, mailVars

\* Every attempt and every acceptance is in a row, in a result that is not recorded yet,
\* or accounted for by a mishap.
LEMMA MailCountStep ==
  ASSUME Mail!EmailAssumption, ~Overlap
  PROVE  MailInv /\ [Mail!Next]_mailVars => CountInv'
<1> SUFFICES ASSUME MailInv, [Mail!Next]_mailVars, NEW e \in Deliveries
             PROVE  Counted(e)'
  BY DEF CountInv
<1>0. /\ Mail!TypeOK /\ BusyInv /\ CopyInv /\ Counted(e)
      /\ tries[e] \in Nat /\ sent[e] \in Nat /\ row[e].attempts \in Nat
      /\ mailMishaps \in Nat /\ Mail!Most \in Nat
  <2>1. Mail!TypeOK /\ BusyInv /\ CopyInv /\ Counted(e)
    BY DEF MailInv, CountInv
  <2>2. Mail!Most \in Nat
    BY DEF Mail!Most, Mail!EmailAssumption
  <2>3. tries[e] \in 0..Mail!Most /\ sent[e] \in 0..Mail!Most /\ mailMishaps \in 0..MaxMishaps
    BY <2>1 DEF Mail!TypeOK
  <2>4. row[e] \in Mail!Row
    BY <2>1 DEF Mail!TypeOK
  <2>5. row[e].attempts \in Nat
    BY <2>4 DEF Mail!Row, Mail!EmailAssumption
  <2>. QED  BY <2>1, <2>2, <2>3, <2>5
<1> USE DEF Mail!history, Mail!workerVars
<1>1. ASSUME row'[e] = row[e], tries'[e] = tries[e], sent'[e] = sent[e],
             \/ mailMishaps' = mailMishaps /\ Attempted(e)' >= Attempted(e)
                                           /\ Accepted(e)' >= Accepted(e)
             \/ mailMishaps' = mailMishaps + 1
      PROVE  Counted(e)'
  <2>1. /\ Attempted(e) \in {0, 1} /\ Attempted(e)' \in {0, 1}
        /\ Accepted(e) \in {0, 1} /\ Accepted(e)' \in {0, 1}
    BY DEF Attempted, Accepted
  <2>. QED  BY <1>0, <1>1, <2>1 DEF Counted
<1>2. ASSUME UNCHANGED <<row, tries, sent, mailMishaps>>,
             \A w \in Workers : e \in batch[w] /\ result[w][e] # "none" =>
                e \in batch'[w] /\ result'[w][e] = result[w][e]
      PROVE  Counted(e)'
  <2>1. Attempted(e)' >= Attempted(e) /\ Accepted(e)' >= Accepted(e)
    BY <1>2 DEF Attempted, Accepted, Unrecorded
  <2>. QED  BY <1>1, <1>2, <2>1
<1>3. ASSUME NEW w \in Workers, Mail!Take(w) PROVE Counted(e)'
  <2>1. UNCHANGED <<row, tries, sent, mailMishaps>> /\ \A v \in Workers : batch[v] = {}
    BY <1>0, <1>3 DEF Mail!Take, BusyInv
  <2>. QED  BY <1>2, <2>1
<1>4. ASSUME NEW w \in Workers, Mail!GivenUp(w) \/ Mail!AllAnswered(w) PROVE Counted(e)'
  BY <1>2, <1>4 DEF Mail!GivenUp, Mail!AllAnswered
<1>5. ASSUME NEW w \in Workers, Mail!Stop(w) PROVE Counted(e)'
  BY <1>1, <1>5 DEF Mail!Stop, Mail!Mishap, Mail!Forget
<1>6. ASSUME NEW w \in Workers, Mail!Finish(w) PROVE Counted(e)'
  <2>1. /\ UNCHANGED <<row, tries, sent, mailMishaps>> /\ batch[w] = {}
        /\ \A v \in Workers \ {w} : batch'[v] = batch[v] /\ result'[v] = result[v]
    BY <1>0, <1>6 DEF Mail!Finish, Mail!Forget, Mail!TypeOK
  <2>. QED  BY <1>2, <2>1
<1>7. ASSUME NEW w \in Workers, NEW d \in Deliveries,
             Mail!GiveUp(w, d) \/ Mail!Record(w, d) \/ Mail!Postpone(w, d), d # e
      PROVE  Counted(e)'
  <2>1. /\ UNCHANGED <<result, tries, sent, mailMishaps>>
        /\ batch' = [batch EXCEPT ![w] = @ \ {d}] /\ \E r : row' = [row EXCEPT ![d] = r]
    BY <1>7 DEF Mail!GiveUp, Mail!Record, Mail!Postpone, Mail!WriteBack
  <2>2. row'[e] = row[e] /\ \A v \in Workers : e \in batch[v] <=> e \in batch'[v]
    BY <1>0, <1>7, <2>1 DEF Mail!TypeOK
  <2>3. Attempted(e)' = Attempted(e) /\ Accepted(e)' = Accepted(e)
    BY <2>1, <2>2 DEF Attempted, Accepted, Unrecorded
  <2>. QED  BY <1>1, <2>1, <2>2, <2>3 DEF Attempted, Accepted
<1>8. ASSUME NEW w \in Workers, e \in batch[w], mailPc[w] # "idle",
             batch' = [batch EXCEPT ![w] = @ \ {e}],
             UNCHANGED <<tries, sent, mailMishaps>>,
             row'[e].attempts = row[e].attempts \/ row'[e].attempts = row[e].attempts + 1,
             Attempted(e) = 1 => row'[e].attempts = row[e].attempts + 1,
             Accepted(e) = 1 => row'[e].status = "delivered"
      PROVE  Counted(e)'
  <2>1. \A v \in Workers : e \notin batch'[v]
    BY <1>0, <1>8 DEF BusyInv, Mail!TypeOK
  <2>2. Attempted(e)' = 0 /\ Accepted(e)' >= Accepted(e)
    BY <1>8, <2>1 DEF Attempted, Accepted, Unrecorded
  <2>3. /\ Attempted(e) \in {0, 1} /\ Accepted(e) \in {0, 1} /\ Accepted(e)' \in {0, 1}
    BY DEF Attempted, Accepted
  <2>. QED  BY <1>0, <1>8, <2>2, <2>3 DEF Counted
<1>9. ASSUME NEW w \in Workers, e \in batch[w], mailPc[w] # "idle"
      PROVE  /\ Copied(w, e)
             /\ \A R : "none" \notin R => (Unrecorded(e, R) <=> result[w][e] \in R)
  <2>1. \A v \in Workers : e \in batch[v] => v = w
    BY <1>0, <1>9 DEF BusyInv
  <2>. QED  BY <1>0, <1>9, <2>1 DEF CopyInv, Unrecorded
<1>10. ASSUME NEW w \in Workers, Mail!GiveUp(w, e) PROVE Counted(e)'
  <2>1. /\ mailPc[w] = "give up" /\ e \in batch[w]
        /\ batch' = [batch EXCEPT ![w] = @ \ {e}]
        /\ UNCHANGED <<tries, sent, mailMishaps>>
    BY <1>10 DEF Mail!GiveUp, Mail!Exhausted
  <2>2. row'[e].attempts = row[e].attempts
    <3>1. row'[e] = [row[e] EXCEPT !.status = "permanently_failed"] /\ row[e] \in Mail!Row
      BY <1>0, <1>9, <1>10, <2>1 DEF Mail!GiveUp, Mail!WriteBack, Mail!TypeOK, Copied
    <3>. QED  BY <3>1 DEF Mail!Row
  <2>3. Attempted(e) = 0 /\ Accepted(e) = 0
    BY <1>9, <2>1 DEF Attempted, Accepted, Copied
  <2>4. Attempted(e) # 1 /\ Accepted(e) # 1
    BY <2>3
  <2>. QED  BY <1>8, <2>1, <2>2, <2>4
<1>11. ASSUME NEW w \in Workers, Mail!Record(w, e) PROVE Counted(e)'
  <2>1. /\ mailPc[w] = "send" /\ e \in batch[w]
        /\ batch' = [batch EXCEPT ![w] = @ \ {e}]
        /\ UNCHANGED <<tries, sent, mailMishaps>>
    BY <1>11 DEF Mail!Record
  <2>2. /\ row'[e].attempts = row[e].attempts + 1
        /\ row'[e].status = result[w][e]
    BY <1>0, <1>9, <1>11, <2>1 DEF Mail!Record, Mail!WriteBack, Mail!TypeOK, Copied
  <2>3. Accepted(e) = 1 => result[w][e] = "delivered"
    <3>1. row[e].status # "delivered"
      BY <1>9, <2>1 DEF Copied
    <3>2. Unrecorded(e, {"delivered"}) <=> result[w][e] \in {"delivered"}
      BY <1>9, <2>1
    <3>. QED  BY <3>1, <3>2 DEF Accepted
  <2>. QED  BY <1>8, <2>1, <2>2, <2>3
<1>12. ASSUME NEW w \in Workers, Mail!Postpone(w, e) PROVE Counted(e)'
  <2>1. /\ mailPc[w] = "postpone" /\ e \in batch[w]
        /\ batch' = [batch EXCEPT ![w] = @ \ {e}]
        /\ UNCHANGED <<tries, sent, mailMishaps>>
    BY <1>12 DEF Mail!Postpone
  <2>2. row'[e].attempts = row[e].attempts
    BY <1>0, <1>9, <1>12, <2>1 DEF Mail!Postpone, Mail!WriteBack, Mail!TypeOK, Copied
  <2>3. Attempted(e) = 0 /\ Accepted(e) = 0
    BY <1>9, <2>1 DEF Attempted, Accepted, Copied
  <2>4. Attempted(e) # 1 /\ Accepted(e) # 1
    BY <2>3
  <2>. QED  BY <1>8, <2>1, <2>2, <2>4
<1>13. ASSUME NEW w \in Workers, NEW d \in Deliveries,
              Mail!Skip(w, d) \/ Mail!BuildFails(w, d) \/ Mail!Send(w, d)
                \/ Mail!SendUnheard(w, d), d # e
       PROVE  Counted(e)'
  <2>1. /\ UNCHANGED <<row, batch>>
        /\ \E r : Mail!Answer(w, d, r)
        /\ mailMishaps' = mailMishaps \/ mailMishaps' = mailMishaps + 1
        /\ \E n : tries' = [tries EXCEPT ![d] = n] \/ tries' = tries
        /\ \E n : sent' = [sent EXCEPT ![d] = n] \/ sent' = sent
    BY <1>13
       DEF Mail!Skip, Mail!BuildFails, Mail!Send, Mail!SendUnheard, Mail!Mishap
  <2>2. /\ tries'[e] = tries[e] /\ sent'[e] = sent[e]
        /\ \A v \in Workers : result'[v][e] = result[v][e]
    <3>1. tries'[e] = tries[e] /\ sent'[e] = sent[e]
      BY <1>0, <1>13, <2>1 DEF Mail!TypeOK
    <3>. QED  BY <1>0, <1>13, <2>1, <3>1, MailParts
  <2>3. Attempted(e)' = Attempted(e) /\ Accepted(e)' = Accepted(e)
    BY <2>1, <2>2 DEF Attempted, Accepted, Unrecorded
  <2>. QED  BY <1>1, <2>1, <2>2, <2>3 DEF Attempted, Accepted
<1>14. ASSUME NEW w \in Workers, Mail!Skip(w, e) \/ Mail!BuildFails(w, e) PROVE Counted(e)'
  <2>1. /\ result[w][e] = "none" /\ UNCHANGED <<row, tries, sent, mailMishaps, batch>>
        /\ mailPc[w] = "send" /\ e \in batch[w]
        /\ \E r : result' = [result EXCEPT ![w][e] = r]
    BY <1>14 DEF Mail!Skip, Mail!BuildFails, Mail!Unsent, Mail!Answer
  <2>2. \A v \in Workers \ {w} : result'[v] = result[v]
    BY <1>0, <2>1 DEF Mail!TypeOK
  <2>. QED  BY <1>2, <2>1, <2>2
<1>15. ASSUME NEW n \in 0..Mail!Most PROVE Mail!Count(n) \in Nat /\ Mail!Count(n) <= n + 1
  BY <1>0 DEF Mail!Count
<1>16. ASSUME NEW w \in Workers, Mail!Send(w, e) \/ Mail!SendUnheard(w, e) PROVE Counted(e)'
  <2>1. /\ result[w][e] = "none" /\ UNCHANGED <<row, batch>>
        /\ mailPc[w] = "send" /\ e \in batch[w]
    BY <1>16 DEF Mail!Send, Mail!SendUnheard, Mail!Unsent
  <2>2. Attempted(e) = 0 /\ Accepted(e) = 0
    BY <1>9, <2>1 DEF Attempted, Accepted, Copied
  <2>3. tries'[e] <= tries[e] + 1 /\ tries'[e] \in Nat
    <3>1. tries[e] \in 0..Mail!Most /\ tries'[e] = Mail!Count(tries[e])
      BY <1>0, <1>16 DEF Mail!Send, Mail!SendUnheard, Mail!TypeOK
    <3>. QED  BY <1>15, <3>1
  <2>4. result'[w][e] \in {"delivered", "permanently_failed", "pending"}
    BY <1>0, <1>16, MailParts DEF Mail!Send, Mail!SendUnheard
  <2>5. Attempted(e)' = 1 /\ Accepted(e)' \in {0, 1}
    BY <2>1, <2>4 DEF Attempted, Accepted, Unrecorded
  <2>6. /\ sent'[e] \in Nat
        /\ \/ sent'[e] = sent[e] /\ mailMishaps' = mailMishaps
           \/ /\ sent'[e] <= sent[e] + 1 /\ mailMishaps' = mailMishaps
              /\ result'[w][e] = "delivered"
           \/ sent'[e] <= sent[e] + 1 /\ mailMishaps' = mailMishaps + 1
    <3>1. /\ sent[e] \in 0..Mail!Most
          /\ \/ sent'[e] = sent[e] /\ mailMishaps' = mailMishaps
             \/ /\ sent'[e] = Mail!Count(sent[e]) /\ mailMishaps' = mailMishaps
                /\ result'[w][e] = "delivered"
             \/ sent'[e] = Mail!Count(sent[e]) /\ mailMishaps' = mailMishaps + 1
      <4>1. sent[e] \in 0..Mail!Most
        BY <1>0 DEF Mail!TypeOK
      <4>2. ASSUME NEW n, sent' = [sent EXCEPT ![e] = n] PROVE sent'[e] = n
        BY <1>0, <4>2 DEF Mail!TypeOK
      <4>3. \A r : Mail!Answer(w, e, r) => result'[w][e] = r
        BY <1>0, MailParts
      <4>4. CASE Mail!Send(w, e)
        BY <4>1, <4>2, <4>3, <4>4 DEF Mail!Send
      <4>5. CASE Mail!SendUnheard(w, e)
        BY <4>1, <4>2, <4>5 DEF Mail!SendUnheard, Mail!Mishap
      <4>. QED  BY <1>16, <4>4, <4>5
    <3>. QED  BY <1>0, <1>15, <3>1
  <2>7. result'[w][e] = "delivered" => Accepted(e)' = 1
    BY <2>1 DEF Accepted, Unrecorded
  <2>. QED  BY <1>0, <2>1, <2>2, <2>3, <2>5, <2>6, <2>7 DEF Counted
<1>17. ASSUME (\E d \in Deliveries : Mail!BecomeDue(d)) \/ UNCHANGED mailVars
       PROVE  Counted(e)'
  BY <1>2, <1>17 DEF Mail!BecomeDue, mailVars
<1>. QED
  BY <1>3, <1>4, <1>5, <1>6, <1>7, <1>10, <1>11, <1>12, <1>13, <1>14, <1>16, <1>17
     DEF Mail!Next, Mail!Work, Mail!vars, mailVars

\* The inductive invariant of the notification emails: one worker at a time, whose copies
\* are the rows, and the counts of what is recorded and not recorded yet.
THEOREM MailInvariant ==
  ASSUME Mail!EmailAssumption, ~Overlap
  PROVE  ServerSpec => []MailInv
<1>1. ServerInit => MailInv
  BY MailInitInv DEF ServerInit
<1>2. MailInv /\ [ServerNext]_serverVars => MailInv'
  <2>1. [ServerNext]_serverVars => [Mail!Next]_mailVars
    BY DEF ServerNext, serverVars
  <2>2. MailInv /\ [Mail!Next]_mailVars => MailInv'
    BY MailTypeStep, MailBusyStep, MailCopyStep, MailCountStep DEF MailInv
  <2>. QED  BY <2>1, <2>2
<1>. QED  BY <1>1, <1>2, PTL DEF ServerSpec

\* A row that a worker has is no other worker's, although the lock on the rows is gone by
\* then, because no run starts before the last one has ended (EmailQueue::index).
THEOREM WorkersAreAlone ==
  ASSUME Mail!EmailAssumption, ~Overlap
  PROVE  ServerSpec => []Mail!NoOtherWorker
<1>1. MailInv => Mail!NoOtherWorker
  BY DEF MailInv, BusyInv, Mail!NoOtherWorker
<1>. QED  BY MailInvariant, <1>1, PTL

\* No delivery is attempted more often than it may be, nor accepted twice, but for one
\* attempt and one acceptance more for each worker that stops and each lost reply.
THEOREM TriesAreAlwaysCounted ==
  ASSUME Mail!EmailAssumption, ~Overlap
  PROVE  ServerSpec => []TriesAreCounted
<1>1. MailInv => TriesAreCounted
  <2> SUFFICES ASSUME MailInv, NEW d \in Deliveries
               PROVE  tries[d] <= MaxAttempts + mailMishaps /\ sent[d] <= 1 + mailMishaps
    BY DEF TriesAreCounted, Mail!TriesAreCounted
  <2>1. /\ tries[d] <= row[d].attempts + Attempted(d) + mailMishaps
        /\ sent[d] <= Accepted(d) + mailMishaps
    BY DEF MailInv, CountInv, Counted
  <2>2. tries[d] \in 0..Mail!Most /\ sent[d] \in 0..Mail!Most /\ mailMishaps \in 0..MaxMishaps
    BY DEF MailInv, Mail!TypeOK
  <2>3. row[d].attempts \in 0..MaxAttempts
    <3>1. row[d] \in Mail!Row
      BY DEF MailInv, Mail!TypeOK
    <3>. QED  BY <3>1 DEF Mail!Row
  <2>4. Mail!Most \in Nat /\ MaxAttempts \in Nat /\ MaxMishaps \in Nat
    BY DEF Mail!Most, Mail!EmailAssumption
  <2>5. ASSUME Unrecorded(d, {"delivered", "permanently_failed", "pending"})
        PROVE  row[d].attempts < MaxAttempts
    <3>1. PICK w \in Workers : /\ d \in batch[w]
                               /\ result[w][d] \in {"delivered", "permanently_failed", "pending"}
      BY <2>5 DEF Unrecorded
    <3>2. Copied(w, d)
      BY <3>1 DEF MailInv, CopyInv
    <3>. QED  BY <3>1, <3>2 DEF Copied
  <2>6. /\ Attempted(d) \in {0, 1} /\ Accepted(d) \in {0, 1}
        /\ Attempted(d) = 1 => row[d].attempts < MaxAttempts
    BY <2>5 DEF Attempted, Accepted
  <2>. QED  BY <2>1, <2>2, <2>3, <2>4, <2>6
<1>. QED  BY MailInvariant, <1>1, PTL

(***************************************************************************)
(* Refunds and the affiliate's credit                                       *)
(***************************************************************************)

\* The link is what keeps a second run from crediting the affiliate again.
CreditInv ==
  /\ link \in BOOLEAN /\ pending \in Nat /\ issued \in Nat
  /\ pending + issued <= 1
  /\ ~link => pending = 0 /\ issued = 0

\* Every step of a refund, of a run of the job or of time keeps the credit to one.
LEMMA CreditStep ==
  CreditInv /\ [Refund!Next]_refundVars => CreditInv'
<1> SUFFICES ASSUME CreditInv, [Refund!Next]_refundVars PROVE CreditInv'
  OBVIOUS
<1>1. ASSUME NEW w \in Runs, Refund!Credit(w) PROVE CreditInv'
  <2>1. \/ ~link /\ link' = TRUE /\ pending' = pending + 1
        \/ link' = link /\ pending' = pending
    BY <1>1 DEF Refund!Credit
  <2>2. issued' = issued
    BY <1>1 DEF Refund!Credit
  <2>3. CASE ~link /\ link' = TRUE /\ pending' = pending + 1
    <3>1. pending = 0 /\ issued = 0
      BY <2>3 DEF CreditInv
    <3>2. pending' = 1 /\ issued' = 0
      BY <2>2, <2>3, <3>1
    <3>. QED  BY <2>3, <3>2 DEF CreditInv
  <2>. QED  BY <2>1, <2>2, <2>3 DEF CreditInv
<1>2. ASSUME NEW w \in Runs, Refund!Remove(w) PROVE CreditInv'
  <2>1. \/ pending > 0 /\ link' = FALSE /\ pending' = 0
        \/ link' = link /\ pending' = pending
    BY <1>2 DEF Refund!Remove
  <2>2. issued' = issued
    BY <1>2 DEF Refund!Remove
  <2>3. pending > 0 => pending = 1 /\ issued = 0
    BY DEF CreditInv
  <2>4. CASE pending > 0 /\ link' = FALSE /\ pending' = 0
    <3>1. pending' = 0 /\ issued' = 0
      BY <2>2, <2>3, <2>4
    <3>2. pending' \in Nat /\ issued' \in Nat /\ pending' + issued' <= 1
      BY <3>1
    <3>. QED  BY <2>4, <3>1, <3>2 DEF CreditInv
  <2>5. CASE link' = link /\ pending' = pending
    BY <2>2, <2>5 DEF CreditInv
  <2>. QED  BY <2>1, <2>4, <2>5
<1>3. CASE Refund!Issue
  <2>1. pending = 1 /\ issued = 0 /\ pending' = 0 /\ issued' = issued + pending
    BY <1>3 DEF Refund!Issue, CreditInv
  <2>2. issued' = 1
    BY <2>1
  <2>3. link' = link /\ (~link => pending = 0)
    BY <1>3 DEF Refund!Issue, CreditInv
  <2>. QED  BY <2>1, <2>2, <2>3 DEF CreditInv
<1>4. ASSUME \/ \E q \in Requests : Refund!Request(q)
             \/ \E w \in Runs : Refund!Select(w) \/ Refund!RunDies(w)
             \/ UNCHANGED refundVars
      PROVE  UNCHANGED <<link, pending, issued>>
  BY <1>4
     DEF Refund!Request, Refund!Read, Refund!Ask, Refund!Record, Refund!Forgotten,
         Refund!Select, Refund!RunDies, Refund!creditVars, refundVars
<1>5. CASE UNCHANGED <<link, pending, issued>>
  BY <1>5 DEF CreditInv
<1>. QED  BY <1>1, <1>2, <1>3, <1>4, <1>5 DEF Refund!Next

\* However runs of the payouts job overlap and die, the affiliate is credited at most
\* once for a charge, and a credit that is not available yet has its link.
THEOREM CreditsAreSingle == ServerSpec => []CreditedOnce
<1>1. ServerInit => CreditInv
  <2> SUFFICES ASSUME ServerInit PROVE CreditInv
    OBVIOUS
  <2>1. pending = 0 /\ issued = 0 /\ link = FALSE
    BY DEF ServerInit, Refund!Init
  <2>2. pending + issued <= 1
    BY <2>1
  <2>. QED  BY <2>1, <2>2 DEF CreditInv
<1>2. CreditInv /\ [ServerNext]_serverVars => CreditInv'
  <2>1. [ServerNext]_serverVars => [Refund!Next]_refundVars
    BY DEF ServerNext, serverVars
  <2>. QED  BY <2>1, CreditStep
<1>3. CreditInv => CreditedOnce
  BY DEF CreditInv, CreditedOnce, Refund!CreditedOnce
<1>. QED  BY <1>1, <1>2, <1>3, PTL DEF ServerSpec

(***************************************************************************)
(* Refunds                                                                  *)
(***************************************************************************)

\* What Stripe has refunded of requests that are recorded or about to be.
Noted == recorded \cup {q \in Requests : refundAt[q] = "record"}

RefundInv ==
  /\ Refund!TypeOK
  /\ \A q \in recorded : refundAt[q] = "done"
  /\ Sum(want, Noted) <= refunded

\* What is left of the charge, and its tax once more for each refund.
LeftAndTaxes == Refund!Paid - refunded + Tax * Cardinality(Refund!Children)

AllowedIsLeftAndTaxes ==
  ~disturbed => \A q \in Requests : refundAt[q] = "ask" => want[q] <= LeftAndTaxes

\* Of requests that come one at a time, and are recorded, nothing is forgotten: what is
\* allowed is what is left and the taxes that were added back.
OneAtATimeInv ==
  /\ AllowedIsLeftAndTaxes
  /\ ~disturbed =>
       /\ Sum(want, Noted) = refunded
       /\ \A p, q \in Requests : Refund!InProgress(p) /\ Refund!InProgress(q) => p = q

\* The sums of Refunds are those of Money.
LEMMA SameSum ==
  /\ \A S : Refund!Cardinality(S) = Cardinality(S) /\ Refund!IsFiniteSet(S) = IsFiniteSet(S)
  /\ \A amount, S : Refund!Sum(amount, S) = Sum(amount, S)
<1>1. \A S : Refund!Cardinality(S) = Cardinality(S)
  BY DEF Refund!Cardinality, Cardinality
<1>2. \A S : Refund!IsFiniteSet(S) = IsFiniteSet(S)
  BY DEF Refund!IsFiniteSet, IsFiniteSet
<1>3. \A amount, S : Refund!Sum(amount, S) = Sum(amount, S)
  BY <1>1 DEF Refund!Sum, Refund!Cents, Sum, Cents
<1>. QED  BY <1>1, <1>2, <1>3

\* It holds at the start.
LEMMA RefundInitInv ==
  ASSUME Refund!RefundsAssumption
  PROVE  Refund!Init => RefundInv /\ OneAtATimeInv
<1> SUFFICES ASSUME Refund!Init PROVE RefundInv /\ OneAtATimeInv
  OBVIOUS
<1>1. Noted = {}
  BY DEF Refund!Init, Noted
<1>2. Sum(want, Noted) = 0
  BY <1>1, SumEmpty
<1>3. Refund!TypeOK /\ refunded = 0 /\ recorded = {}
  <2>1. Refund!Paid \in Nat
    BY DEF Refund!Paid, Refund!RefundsAssumption
  <2>2. refunded = 0 /\ recorded = {} /\ refunded \in 0..Refund!Paid
    <3> DEFINE n == Refund!Paid
    <3>1. n \in Nat /\ refunded = 0
      BY <2>1 DEF Refund!Init
    <3> HIDE DEF n
    <3>2. refunded \in 0..n
      BY <3>1
    <3>. QED  BY <3>2 DEF n, Refund!Init
  <2>3. /\ refundAt = [a \in Requests \cup Runs |-> "idle"] /\ want = [q \in Requests |-> 0]
        /\ next = "open" /\ link = FALSE /\ pending = 0 /\ issued = 0 /\ disturbed = FALSE
    BY DEF Refund!Init
  <2>. QED  BY <2>2, <2>3 DEF Refund!TypeOK
<1>4. \A q \in Requests : refundAt[q] = "idle"
  BY DEF Refund!Init
<1>. QED  BY <1>2, <1>3, <1>4
            DEF RefundInv, OneAtATimeInv, Refund!InProgress, AllowedIsLeftAndTaxes

\* What may still be refunded is a number of cents, and, with nothing forgotten or
\* under way, it is what Stripe would refund and the taxes.
LEMMA RefundableIsLeft ==
  ASSUME Refund!RefundsAssumption, RefundInv
  PROVE  /\ Refund!Refundable \in Nat
         /\ /\ Sum(want, Noted) = refunded
            /\ \A q \in Requests : refundAt[q] # "record"
            => Refund!Refundable = LeftAndTaxes
<1> DEFINE C == Refund!Children
<1>0. /\ Refund!TypeOK /\ recorded \subseteq Requests /\ IsFiniteSet(Requests)
      /\ Tax \in Nat /\ Refund!Paid \in Nat /\ refunded \in 0..Refund!Paid
  BY SameSum DEF RefundInv, Refund!TypeOK, Refund!RefundsAssumption, Refund!Paid
<1>1. want \in [Requests -> Nat] /\ C \subseteq recorded /\ Noted \subseteq Requests
  BY <1>0 DEF Refund!TypeOK, Refund!Children, Noted
<1>2. IsFiniteSet(recorded) /\ IsFiniteSet(C) /\ IsFiniteSet(Noted)
  BY <1>0, <1>1, FS_Subset
<1>3. Sum(want, C) = Sum(want, recorded)
  <2>1. \A q \in recorded \ C : want[q] = 0
    BY DEF Refund!Children
  <2> HIDE DEF C
  <2>. QED  BY <1>1, <2>1, SumOfSome
<1>4. Sum(want, recorded) <= Sum(want, Noted)
  <2>1. recorded \in SUBSET Noted /\ \A q \in Noted : want[q] \in Int
    BY <1>1 DEF Noted
  <2>. QED  BY <1>2, <2>1, SumMonotone
<1>5. Sum(want, recorded) \in Nat /\ Sum(want, Noted) \in Nat
  <2>1. \A q \in Requests : want[q] \in Int
    BY <1>1
  <2>. QED  BY <1>0, <1>1, <1>2, <2>1, SumType
<1>6. Cardinality(C) \in Nat /\ Tax * Cardinality(C) \in Nat
  <2>1. Cardinality(C) \in Nat
    BY <1>2, FS_CardinalityType
  <2> HIDE DEF C
  <2>. QED  BY <1>0, <2>1
<1>7. Refund!Refundable = Refund!Paid - Sum(want, recorded) + Tax * Cardinality(C)
  BY <1>3, SameSum DEF Refund!Refundable
<1>8. Sum(want, Noted) <= refunded
  BY DEF RefundInv
<1>9. Refund!Refundable \in Nat
  <2> HIDE DEF C
  <2>. QED  BY <1>0, <1>4, <1>5, <1>6, <1>7, <1>8
<1>10. ASSUME Sum(want, Noted) = refunded, \A q \in Requests : refundAt[q] # "record"
       PROVE  Refund!Refundable = LeftAndTaxes
  <2>1. Noted = recorded
    BY <1>10 DEF Noted
  <2>2. Sum(want, recorded) = refunded
    BY <1>10, <2>1
  <2>. QED  BY <1>7, <2>2 DEF LeftAndTaxes
<1>. QED  BY <1>9, <1>10

\* Every step keeps the sums.
LEMMA RefundStep ==
  ASSUME Refund!RefundsAssumption
  PROVE  RefundInv /\ [Refund!Next]_refundVars => RefundInv'
<1> SUFFICES ASSUME RefundInv, [Refund!Next]_refundVars PROVE RefundInv'
  OBVIOUS
<1>0. /\ Refund!TypeOK /\ IsFiniteSet(Requests) /\ Requests \cap Runs = {}
      /\ Refund!Paid \in Nat /\ refunded \in 0..Refund!Paid
      /\ want \in [Requests -> Nat]
      /\ recorded \subseteq Requests /\ Noted \subseteq Requests /\ IsFiniteSet(Noted)
      /\ Sum(want, Noted) <= refunded
  <2>1. Noted \subseteq Requests /\ IsFiniteSet(Requests) /\ Refund!Paid \in Nat
    BY SameSum DEF RefundInv, Refund!TypeOK, Refund!RefundsAssumption, Refund!Paid, Noted
  <2>2. IsFiniteSet(Noted)
    BY <2>1, FS_Subset
  <2>. QED  BY <2>1, <2>2 DEF RefundInv, Refund!TypeOK, Refund!RefundsAssumption
<1>1. ASSUME NEW q \in Requests, Refund!Read(q) PROVE RefundInv'
  <2>1. CASE want' = want /\ Refund!Goes(q, "done")
    <3>1. Noted' = Noted
      BY <1>0, <1>1, <2>1 DEF Noted, Refund!Read, Refund!Goes, Refund!TypeOK
    <3>. QED  BY <1>0, <1>1, <2>1, <3>1
              DEF RefundInv, Refund!TypeOK, Refund!Read, Refund!Goes, Refund!creditVars
  <2>2. CASE \E n \in (0..Refund!Paid) \cup {Refund!Refundable} :
               want' = [want EXCEPT ![q] = n] /\ Refund!Goes(q, "ask")
    <3>1. PICK n \in Nat : want' = [want EXCEPT ![q] = n] /\ Refund!Goes(q, "ask")
      <4>1. PICK n \in (0..Refund!Paid) \cup {Refund!Refundable} :
              want' = [want EXCEPT ![q] = n] /\ Refund!Goes(q, "ask")
        BY <2>2
      <4>2. n \in Nat
        BY <1>0, RefundableIsLeft
      <4>. QED  BY <4>1, <4>2
    <3>2. Noted' = Noted /\ q \notin Noted
      BY <1>0, <1>1, <3>1 DEF Noted, Refund!Read, Refund!Goes, Refund!TypeOK, RefundInv
    <3>3. \A p \in Noted : want'[p] = want[p]
      BY <1>0, <3>1, <3>2
    <3>4. Sum(want, Noted)' = Sum(want, Noted)
      BY <3>2, <3>3, SumCongruence
    <3>. QED  BY <1>0, <1>1, <3>1, <3>4
              DEF RefundInv, Refund!TypeOK, Refund!Read, Refund!Goes, Refund!creditVars
  <2>. QED  BY <1>1, <2>1, <2>2 DEF Refund!Read
<1>2. ASSUME NEW q \in Requests, Refund!Ask(q) PROVE RefundInv'
  <2>1. CASE refunded' = refunded /\ Refund!Goes(q, "done")
    <3>1. Noted' = Noted
      BY <1>0, <1>2, <2>1 DEF Noted, Refund!Ask, Refund!Goes, Refund!TypeOK
    <3>. QED  BY <1>0, <1>2, <2>1, <3>1
              DEF RefundInv, Refund!TypeOK, Refund!Ask, Refund!Goes, Refund!creditVars
  <2>2. CASE /\ refunded + want[q] <= Refund!Paid
             /\ refunded' = refunded + want[q] /\ Refund!Goes(q, "record")
    <3>1. Noted' = Noted \cup {q} /\ want' = want
      BY <1>0, <1>2, <2>2 DEF Noted, Refund!Ask, Refund!Goes, Refund!TypeOK
    <3>2. Sum(want, Noted \cup {q}) <= Sum(want, Noted) + want[q]
      <4>1. \A p \in Noted \cup {q} : want[p] \in Nat
        BY <1>0
      <4>. QED  BY <1>0, <4>1, SumAdd
    <3>3. Sum(want, Noted) \in Nat /\ Sum(want, Noted \cup {q}) \in Nat
      <4>1. \A p \in Noted \cup {q} : want[p] \in Int
        BY <1>0
      <4>2. IsFiniteSet(Noted \cup {q})
        BY <1>0, FS_AddElement
      <4>. QED  BY <1>0, <4>1, <4>2, SumType
    <3>4. Sum(want, Noted)' <= refunded'
      BY <1>0, <2>2, <3>1, <3>2, <3>3
    <3>5. refunded' \in 0..Refund!Paid
      BY <1>0, <2>2
    <3>. QED  BY <1>0, <1>2, <2>2, <3>4, <3>5
              DEF RefundInv, Refund!TypeOK, Refund!Ask, Refund!Goes, Refund!creditVars,
                  Refund!Paid
  <2>. QED  BY <1>2, <2>1, <2>2 DEF Refund!Ask
<1>3. ASSUME NEW q \in Requests, Refund!Record(q) PROVE RefundInv'
  <2>1. Noted' = Noted
    BY <1>0, <1>3 DEF Noted, Refund!Record, Refund!Goes, Refund!TypeOK
  <2>. QED  BY <1>0, <1>3, <2>1
            DEF RefundInv, Refund!TypeOK, Refund!Record, Refund!Goes, Refund!creditVars
<1>4. ASSUME NEW q \in Requests, Refund!Forgotten(q) PROVE RefundInv'
  <2>1. Noted' \in SUBSET Noted /\ want' = want
    BY <1>0, <1>4 DEF Noted, Refund!Forgotten, Refund!Goes, Refund!TypeOK
  <2>2. Sum(want, Noted)' <= Sum(want, Noted)
    <3>1. \A p \in Noted : want[p] \in Int
      BY <1>0
    <3>. QED  BY <1>0, <2>1, <3>1, SumMonotone
  <2>3. Sum(want, Noted) \in Nat /\ Sum(want, Noted)' \in Nat
    <3>1. IsFiniteSet(Noted') /\ Noted' \subseteq Requests
      BY <1>0, <2>1, FS_Subset
    <3>2. \A p \in Requests : want[p] \in Int
      BY <1>0
    <3>. QED  BY <1>0, <2>1, <3>1, <3>2, SumType
  <2>4. Sum(want, Noted)' <= refunded'
    BY <1>0, <1>4, <2>2, <2>3 DEF Refund!Forgotten
  <2>. QED  BY <1>0, <1>4, <2>4
            DEF RefundInv, Refund!TypeOK, Refund!Forgotten, Refund!Goes, Refund!creditVars
<1>5. ASSUME NEW w \in Runs,
             Refund!Select(w) \/ Refund!Credit(w) \/ Refund!Remove(w) \/ Refund!RunDies(w)
      PROVE  RefundInv'
  <2>1. /\ UNCHANGED <<want, recorded, refunded, next, disturbed>>
        /\ \E t \in {"idle", "insert", "remove"} : refundAt' = [refundAt EXCEPT ![w] = t]
    BY <1>5 DEF Refund!Select, Refund!Credit, Refund!Remove, Refund!RunDies, Refund!Goes,
                Refund!requestVars
  <2>2. /\ link' \in BOOLEAN /\ pending' \in Nat /\ issued' \in Nat
    <3>1. link \in BOOLEAN /\ pending \in Nat /\ issued \in Nat
      BY <1>0 DEF Refund!TypeOK
    <3>2. CASE Refund!Select(w) \/ Refund!RunDies(w)
      BY <3>1, <3>2 DEF Refund!Select, Refund!RunDies, Refund!creditVars
    <3>3. CASE Refund!Credit(w) \/ Refund!Remove(w)
      <4>1. /\ issued' = issued
            /\ \/ pending' = pending + 1
               \/ pending' = pending
               \/ pending' = 0
        BY <3>3 DEF Refund!Credit, Refund!Remove
      <4>2. link' = TRUE \/ link' = FALSE \/ link' = link
        BY <3>3 DEF Refund!Credit, Refund!Remove
      <4>3. pending' \in Nat /\ issued' \in Nat
        BY <3>1, <4>1
      <4>4. link' \in BOOLEAN
        BY <3>1, <4>2
      <4>. QED  BY <4>3, <4>4
    <3>. QED  BY <1>5, <3>2, <3>3
  <2>3. \A q \in Requests : refundAt'[q] = refundAt[q]
    BY <1>0, <2>1 DEF Refund!TypeOK
  <2>4. Noted' = Noted
    BY <2>1, <2>3 DEF Noted
  <2>. QED  BY <1>0, <2>1, <2>2, <2>3, <2>4 DEF RefundInv, Refund!TypeOK
<1>6. CASE Refund!Issue
  <2>1. Noted' = Noted
    BY <1>6 DEF Noted, Refund!Issue, Refund!requestVars
  <2>. QED  BY <1>0, <1>6, <2>1 DEF RefundInv, Refund!TypeOK, Refund!Issue, Refund!requestVars
<1>7. CASE UNCHANGED refundVars
  <2>1. Noted' = Noted
    BY <1>7 DEF Noted, refundVars
  <2>. QED  BY <1>0, <1>7, <2>1 DEF RefundInv, Refund!TypeOK, refundVars
<1>. QED  BY <1>1, <1>2, <1>3, <1>4, <1>5, <1>6, <1>7 DEF Refund!Next, Refund!Request

\* Every step keeps requests that come one at a time within what has been paid and the
\* taxes.
LEMMA OneAtATimeStep ==
  ASSUME Refund!RefundsAssumption
  PROVE  RefundInv /\ OneAtATimeInv /\ [Refund!Next]_refundVars => OneAtATimeInv'
<1> SUFFICES ASSUME RefundInv, OneAtATimeInv, [Refund!Next]_refundVars, ~disturbed'
             PROVE  /\ Sum(want, Noted)' = refunded'
                    /\ \A p, q \in Requests :
                         Refund!InProgress(p)' /\ Refund!InProgress(q)' => p = q
                    /\ \A q \in Requests : refundAt'[q] = "ask" => want'[q] <= LeftAndTaxes'
  BY DEF OneAtATimeInv, AllowedIsLeftAndTaxes
<1>0. /\ refundAt \in [Requests \cup Runs ->
                         {"idle", "ask", "record", "done", "insert", "remove"}]
      /\ IsFiniteSet(Requests) /\ Requests \cap Runs = {}
      /\ Refund!Paid \in Nat /\ refunded \in 0..Refund!Paid
      /\ want \in [Requests -> Nat]
      /\ recorded \subseteq Requests /\ Noted \subseteq Requests /\ IsFiniteSet(Noted)
      /\ \A q \in recorded : refundAt[q] = "done"
  <2>1. Noted \subseteq Requests /\ IsFiniteSet(Requests) /\ Refund!Paid \in Nat
    BY SameSum DEF RefundInv, Refund!TypeOK, Refund!RefundsAssumption, Refund!Paid, Noted
  <2>2. IsFiniteSet(Noted)
    BY <2>1, FS_Subset
  <2>. QED  BY <2>1, <2>2 DEF RefundInv, Refund!TypeOK, Refund!RefundsAssumption
<1>01. ~disturbed
  BY DEF Refund!Next, Refund!Request, Refund!Read, Refund!Ask, Refund!Record,
         Refund!Forgotten, Refund!Select, Refund!Credit, Refund!Remove, Refund!RunDies,
         Refund!Issue, Refund!requestVars, refundVars
<1>02. /\ Sum(want, Noted) = refunded
       /\ \A p, q \in Requests : Refund!InProgress(p) /\ Refund!InProgress(q) => p = q
       /\ \A q \in Requests : refundAt[q] = "ask" => want[q] <= LeftAndTaxes
  BY <1>01 DEF OneAtATimeInv, AllowedIsLeftAndTaxes
<1>03. ASSUME recorded' = recorded, refunded' = refunded, \A q \in recorded : want'[q] = want[q]
       PROVE  LeftAndTaxes' = LeftAndTaxes
  <2>1. Refund!Children' = Refund!Children
    BY <1>03 DEF Refund!Children
  <2>2. Refund!Paid' = Refund!Paid
    BY DEF Refund!Paid
  <2>. QED  BY <1>03, <2>1, <2>2 DEF LeftAndTaxes
<1>1. CASE UNCHANGED <<want, recorded, refunded>>
           /\ \A q \in Requests : refundAt'[q] = refundAt[q]
  <2>1. Noted' = Noted
    BY <1>1 DEF Noted
  <2>2. LeftAndTaxes' = LeftAndTaxes
    BY <1>03, <1>1
  <2>. QED  BY <1>02, <1>1, <2>1, <2>2 DEF Refund!InProgress
<1>2. ASSUME NEW q \in Requests, Refund!Read(q)
      PROVE  /\ Sum(want, Noted)' = refunded'
             /\ \A p, r \in Requests :
                  Refund!InProgress(p)' /\ Refund!InProgress(r)' => p = r
             /\ \A r \in Requests : refundAt'[r] = "ask" => want'[r] <= LeftAndTaxes'
  <2>0. recorded' = recorded /\ refunded' = refunded
    BY <1>2 DEF Refund!Read
  <2>1. CASE want' = want /\ Refund!Goes(q, "done")
    <3>1. Noted' = Noted
      BY <1>0, <1>2, <2>0, <2>1 DEF Noted, Refund!Read, Refund!Goes
    <3>2. \A p \in Requests : Refund!InProgress(p)' => Refund!InProgress(p)
      BY <1>0, <2>1 DEF Refund!Goes, Refund!InProgress
    <3>3. \A p \in Requests : refundAt'[p] = "ask" => refundAt[p] = "ask"
      BY <1>0, <2>1 DEF Refund!Goes
    <3>4. LeftAndTaxes' = LeftAndTaxes
      BY <1>03, <2>0, <2>1
    <3>. QED  BY <1>02, <2>0, <2>1, <3>1, <3>2, <3>3, <3>4
  <2>2. CASE \E n \in (0..Refund!Paid) \cup {Refund!Refundable} :
               /\ n <= Refund!Refundable
               /\ want' = [want EXCEPT ![q] = n] /\ Refund!Goes(q, "ask")
               /\ \A p \in Requests : ~Refund!InProgress(p)
    <3>1. PICK n \in (0..Refund!Paid) \cup {Refund!Refundable} :
            /\ n <= Refund!Refundable
            /\ want' = [want EXCEPT ![q] = n] /\ Refund!Goes(q, "ask")
            /\ \A p \in Requests : ~Refund!InProgress(p)
      BY <2>2
    <3>2. Noted' = Noted /\ q \notin Noted
      BY <1>0, <1>2, <2>0, <3>1 DEF Noted, Refund!Read, Refund!Goes
    <3>3. \A p \in Noted : want'[p] = want[p]
      BY <1>0, <3>1, <3>2
    <3>4. Sum(want, Noted)' = Sum(want, Noted)
      BY <3>2, <3>3, SumCongruence
    <3>5. Refund!Refundable = LeftAndTaxes
      BY <1>02, <3>1, RefundableIsLeft DEF Refund!InProgress
    <3>6. want'[q] <= LeftAndTaxes'
      <4>1. \A p \in recorded : want'[p] = want[p]
        BY <3>3 DEF Noted
      <4>2. LeftAndTaxes' = LeftAndTaxes
        BY <1>03, <2>0, <4>1
      <4>3. want'[q] = n
        BY <1>0, <3>1
      <4>. QED  BY <3>1, <3>5, <4>2, <4>3
    <3>7. \A p \in Requests : p # q => refundAt'[p] \notin {"ask", "record"}
      BY <1>0, <3>1 DEF Refund!Goes, Refund!InProgress
    <3>8. \A p \in Requests : Refund!InProgress(p)' => p = q
      BY <3>7 DEF Refund!InProgress
    <3>9. \A r \in Requests : refundAt'[r] = "ask" => r = q
      BY <3>7
    <3>. QED  BY <1>02, <2>0, <3>4, <3>6, <3>8, <3>9
  <2>. QED  BY <1>2, <2>1, <2>2 DEF Refund!Read
<1>3. ASSUME NEW q \in Requests, Refund!Ask(q)
      PROVE  /\ Sum(want, Noted)' = refunded'
             /\ \A p, r \in Requests :
                  Refund!InProgress(p)' /\ Refund!InProgress(r)' => p = r
             /\ \A r \in Requests : refundAt'[r] = "ask" => want'[r] <= LeftAndTaxes'
  <2>0. want' = want /\ recorded' = recorded /\ refundAt[q] = "ask"
    BY <1>3 DEF Refund!Ask
  <2>1. \A p \in Requests : p # q => ~Refund!InProgress(p)
    BY <1>02, <2>0 DEF Refund!InProgress
  <2>2. \E t \in {"record", "done"} : refundAt' = [refundAt EXCEPT ![q] = t]
    BY <1>3 DEF Refund!Ask, Refund!Goes
  <2>3. \A p \in Requests : p # q => refundAt'[p] = refundAt[p]
    BY <1>0, <2>2
  <2>4. \A p \in Requests : Refund!InProgress(p)' => p = q
    BY <2>1, <2>3 DEF Refund!InProgress
  <2>5. \A r \in Requests : refundAt'[r] # "ask"
    <3>1. refundAt'[q] # "ask"
      BY <1>0, <2>2
    <3>. QED  BY <2>1, <2>3, <3>1 DEF Refund!InProgress
  <2>6. CASE refunded' = refunded /\ Refund!Goes(q, "done")
    <3>1. Noted' = Noted
      BY <1>0, <2>0, <2>6 DEF Noted, Refund!Goes
    <3>. QED  BY <1>02, <2>0, <2>4, <2>5, <2>6, <3>1
  <2>7. CASE refunded' = refunded + want[q] /\ Refund!Goes(q, "record")
    <3>1. Noted' = Noted \cup {q} /\ q \notin Noted
      BY <1>0, <2>0, <2>7 DEF Noted, Refund!Goes
    <3>2. \A p \in Noted \cup {q} : want[p] \in Nat
      BY <1>0
    <3>3. Sum(want, Noted \cup {q}) = Sum(want, Noted) + want[q]
      BY <1>0, <3>1, <3>2, SumAddNew
    <3>4. Sum(want, Noted)' = refunded'
      BY <1>02, <2>0, <2>7, <3>1, <3>3
    <3>. QED  BY <2>4, <2>5, <3>4
  <2>. QED  BY <1>3, <2>6, <2>7 DEF Refund!Ask
<1>4. ASSUME NEW q \in Requests, Refund!Record(q)
      PROVE  /\ Sum(want, Noted)' = refunded'
             /\ \A p, r \in Requests :
                  Refund!InProgress(p)' /\ Refund!InProgress(r)' => p = r
             /\ \A r \in Requests : refundAt'[r] = "ask" => want'[r] <= LeftAndTaxes'
  <2>0. /\ want' = want /\ refunded' = refunded /\ recorded' = recorded \cup {q}
        /\ refundAt[q] = "record" /\ refundAt' = [refundAt EXCEPT ![q] = "done"]
    BY <1>4 DEF Refund!Record, Refund!Goes
  <2>1. Noted' = Noted
    BY <1>0, <2>0 DEF Noted
  <2>2. \A p \in Requests : Refund!InProgress(p)' => Refund!InProgress(p)
    BY <1>0, <2>0 DEF Refund!InProgress
  <2>3. \A p \in Requests : refundAt'[p] # "ask"
    <3>1. \A p \in Requests : refundAt'[p] = "ask" => p # q /\ refundAt[p] = "ask"
      BY <1>0, <2>0
    <3>. QED  BY <1>02, <2>0, <3>1 DEF Refund!InProgress
  <2>. QED  BY <1>02, <2>0, <2>1, <2>2, <2>3
<1>5. \A q \in Requests : ~Refund!Forgotten(q)
  BY DEF Refund!Forgotten
<1>6. ASSUME NEW w \in Runs,
             Refund!Select(w) \/ Refund!Credit(w) \/ Refund!Remove(w) \/ Refund!RunDies(w)
      PROVE  /\ UNCHANGED <<want, recorded, refunded>>
             /\ \A q \in Requests : refundAt'[q] = refundAt[q]
  <2>1. /\ UNCHANGED <<want, recorded, refunded>>
        /\ \E t \in {"idle", "insert", "remove"} : refundAt' = [refundAt EXCEPT ![w] = t]
    BY <1>6 DEF Refund!Select, Refund!Credit, Refund!Remove, Refund!RunDies, Refund!Goes,
                Refund!requestVars
  <2>. QED  BY <1>0, <2>1
<1>7. CASE Refund!Issue \/ UNCHANGED refundVars
  <2>1. UNCHANGED <<want, recorded, refunded, refundAt>>
    BY <1>7 DEF Refund!Issue, Refund!requestVars, refundVars
  <2>. QED  BY <1>1, <2>1
<1>. QED  BY <1>1, <1>2, <1>3, <1>4, <1>5, <1>6, <1>7 DEF Refund!Next, Refund!Request

\* The second invariant on refunds, whatever the other components do.
LEMMA OneAtATime ==
  ASSUME Refund!RefundsAssumption
  PROVE  ServerSpec => [](RefundInv /\ OneAtATimeInv)
<1>1. ServerInit => RefundInv /\ OneAtATimeInv
  BY RefundInitInv DEF ServerInit
<1>2. RefundInv /\ OneAtATimeInv /\ [ServerNext]_serverVars => (RefundInv /\ OneAtATimeInv)'
  <2>1. [ServerNext]_serverVars => [Refund!Next]_refundVars
    BY DEF ServerNext, serverVars
  <2>. QED  BY <2>1, RefundStep, OneAtATimeStep
<1>. QED  BY <1>1, <1>2, PTL DEF ServerSpec

\* How far the sign of the tax can lead: of refunds that do not overlap, and are recorded,
\* none is sent to Stripe that asks for more than there is left and the tax once more for
\* each refund that came before (refund_charge: the row's tax is positive).
THEOREM RefundsExceedByTaxes ==
  ASSUME Refund!RefundsAssumption
  PROVE  ServerSpec => []AllowedIsLeftAndTaxes
BY OneAtATime, PTL DEF OneAtATimeInv

\* A charge without tax: none is sent to Stripe that asks for more than there is left,
\* for any charge and requests.
THEOREM RefundsAreOfWhatIsLeft ==
  ASSUME Refund!RefundsAssumption, Tax = 0
  PROVE  ServerSpec => []Refund!AllowedIsLeft
<1>1. ASSUME RefundInv, OneAtATimeInv PROVE Refund!AllowedIsLeft
  <2>1. LeftAndTaxes = Refund!Paid - refunded
    <3> DEFINE n == Cardinality(Refund!Children)
    <3>1. IsFiniteSet(Refund!Children)
      <4>1. IsFiniteSet(Requests) /\ Refund!Children \subseteq Requests
        BY <1>1, SameSum DEF RefundInv, Refund!TypeOK, Refund!Children, Refund!RefundsAssumption
      <4>. QED  BY <4>1, FS_Subset
    <3>2. n \in Nat
      BY <3>1, FS_CardinalityType
    <3>3. Refund!Paid \in Nat /\ refunded \in Nat
      <4>1. Refund!Paid \in Nat
        BY DEF Refund!Paid, Refund!RefundsAssumption
      <4>2. refunded \in 0..Refund!Paid
        BY <1>1 DEF RefundInv, Refund!TypeOK
      <4>. QED  BY <4>1, <4>2
    <3>4. LeftAndTaxes = Refund!Paid - refunded + Tax * n
      BY DEF LeftAndTaxes
    <3> HIDE DEF n
    <3>. QED  BY <3>2, <3>3, <3>4
  <2>. QED  BY <1>1, <2>1 DEF OneAtATimeInv, AllowedIsLeftAndTaxes, Refund!AllowedIsLeft
<1>. QED  BY <1>1, OneAtATime, PTL

(***************************************************************************)
(* Connections and statuses                                                 *)
(***************************************************************************)

\* The status that Redis has of a connection: the one it replaces, while it is changed.
Shown(c) == IF connAt[c] = "changed" THEN was[c] ELSE name[c]

\* Unless a change was lost on its way, Redis and the index have what the places of the
\* tasks say, also while tasks are on their way.
StatusInv ==
  ~stray =>
    /\ \A c \in Conns, n \in Conn!Names :
         <<c, n>> \in stored <=>
           connAt[c] \in {"live", "changed", "closing", "removed", "unindexed"} /\ Shown(c) = n
    /\ \A c \in Conns :
         c \in index <=> connAt[c] \in {"indexed", "live", "changed", "closing", "removed"}

ConnInv == Conn!TypeOK /\ StatusInv

\* It holds at the start.
LEMMA ConnInitInv == Conn!Init => ConnInv
BY DEF Conn!Init, ConnInv, Conn!TypeOK, StatusInv, Conn!Names, Conn!Status

\* Every step of a task, of a process that is killed, and of time keeps it.
LEMMA ConnStep ==
  ASSUME Conn!StatusesAssumption
  PROVE  ConnInv /\ [Conn!Next]_connVars => ConnInv'
<1> SUFFICES ASSUME ConnInv, [Conn!Next]_connVars PROVE ConnInv'
  OBVIOUS
<1> USE DEF Conn!StatusesAssumption, ConnInv, Conn!TypeOK, StatusInv, Shown, Conn!Names,
            Conn!Status, Conn!maps, Conn!Goes
<1>1. ASSUME NEW c \in Conns, Conn!Insert(c) PROVE ConnInv'
  BY <1>1 DEF Conn!Insert
<1>2. ASSUME NEW c \in Conns, Conn!Index(c) PROVE ConnInv'
  BY <1>2 DEF Conn!Index
<1>3. ASSUME NEW c \in Conns, Conn!Open(c) PROVE ConnInv'
  BY <1>3 DEF Conn!Open
<1>4. ASSUME NEW c \in Conns, Conn!OpenFails(c) PROVE ConnInv'
  BY <1>4 DEF Conn!OpenFails
<1>5. ASSUME NEW c \in Conns, NEW p \in Conn!Names, Conn!Change(c, p) PROVE ConnInv'
  <2>1. CASE name[c] = "long"
    BY <1>5, <2>1 DEF Conn!Change
  <2>2. CASE name[c] # "long"
    <3>1. /\ connAt[c] = "live" /\ connAt' = [connAt EXCEPT ![c] = "changed"]
          /\ was' = [was EXCEPT ![c] = name[c]] /\ name' = [name EXCEPT ![c] = p]
          /\ UNCHANGED <<sockets, index, stored, stray>>
      BY <1>5, <2>2 DEF Conn!Change
    <3>2. \A d \in Conns : Shown(d)' = Shown(d)
      BY <3>1
    <3>3. StatusInv'
      BY <3>1, <3>2
    <3>. QED  BY <3>1, <3>3
  <2>. QED  BY <2>1, <2>2
<1>6. ASSUME NEW c \in Conns, Conn!Replace(c) PROVE ConnInv'
  <2>1. /\ connAt[c] = "changed" /\ connAt' = [connAt EXCEPT ![c] = "live"]
        /\ was' = [was EXCEPT ![c] = "short"]
        /\ UNCHANGED <<name, sockets, index>>
    BY <1>6 DEF Conn!Replace
  <2>2. CASE stored' = (stored \ {<<c, was[c]>>}) \cup {<<c, name[c]>>} /\ stray' = stray
    BY <2>1, <2>2
  <2>3. CASE stored' = stored /\ stray' = TRUE
    BY <2>1, <2>3
  <2>. QED  BY <1>6, <2>2, <2>3 DEF Conn!Replace
<1>7. ASSUME NEW c \in Conns, Conn!Hangs(c) PROVE ConnInv'
  BY <1>7 DEF Conn!Hangs
<1>8. ASSUME NEW c \in Conns, Conn!Remove(c) PROVE ConnInv'
  BY <1>8 DEF Conn!Remove
<1>9. ASSUME NEW c \in Conns, Conn!Unindex(c) PROVE ConnInv'
  BY <1>9 DEF Conn!Unindex
<1>10. ASSUME NEW c \in Conns, Conn!Close(c) PROVE ConnInv'
  BY <1>10 DEF Conn!Close
<1>11. ASSUME NEW C \in {Away, Conns \ Away}, Conn!Dies(C) PROVE ConnInv'
  BY <1>11 DEF Conn!Dies
<1>12. CASE Conn!Expire
  BY <1>12 DEF Conn!Expire, Conn!Begun
<1>13. CASE UNCHANGED connVars
  BY <1>13 DEF connVars
<1>. QED
  BY <1>1, <1>2, <1>3, <1>4, <1>5, <1>6, <1>7, <1>8, <1>9, <1>10, <1>11, <1>12, <1>13
     DEF Conn!Next, Conn!Task

\* The connections' inductive invariant: Redis and the index follow the tasks, but for
\* changes that are lost.
LEMMA StatusInvariant ==
  ASSUME Conn!StatusesAssumption
  PROVE  ServerSpec => []ConnInv
<1>1. ServerInit => ConnInv
  BY ConnInitInv DEF ServerInit
<1>2. ConnInv /\ [ServerNext]_serverVars => ConnInv'
  <2>1. [ServerNext]_serverVars => [Conn!Next]_connVars
    BY DEF ServerNext, serverVars
  <2>. QED  BY <2>1, ConnStep
<1>. QED  BY <1>1, <1>2, PTL DEF ServerSpec

\* At rest, and unless a change was lost, the statuses that are found are exactly those of
\* the connections there are, for any connections to two processes.
THEOREM StatusesAreCurrent ==
  ASSUME Conn!StatusesAssumption
  PROVE  ServerSpec => []KnownIsCurrent
<1>1. ConnInv => KnownIsCurrent
  <2> SUFFICES ASSUME ConnInv, ~stray,
                      \A c \in Conns : connAt[c] \in {"new", "live", "gone"}
               PROVE  /\ stored = {<<c, name[c]>> : c \in {d \in Conns : connAt[d] = "live"}}
                      /\ index = {c \in Conns : connAt[c] = "live"}
    BY DEF KnownIsCurrent, Conn!KnownIsCurrent
  <2>1. \A c \in Conns, n \in Conn!Names :
          <<c, n>> \in stored <=> connAt[c] = "live" /\ name[c] = n
    BY DEF ConnInv, StatusInv, Shown
  <2>2. stored \subseteq Conns \X Conn!Names /\ name \in [Conns -> Conn!Names]
    BY DEF ConnInv, Conn!TypeOK, Conn!Status
  <2>3. stored = {<<c, name[c]>> : c \in {d \in Conns : connAt[d] = "live"}}
    BY <2>1, <2>2
  <2>4. index = {c \in Conns : connAt[c] = "live"}
    BY DEF ConnInv, Conn!TypeOK, StatusInv
  <2>. QED  BY <2>3, <2>4
<1>. QED  BY StatusInvariant, <1>1, PTL

(***************************************************************************)
(* Teams                                                                    *)
(***************************************************************************)

Owned(R, t) == \E r \in R : r.team = t /\ r.owner

TeamInv == /\ Team!TypeOK
           /\ owned \/ Owned(members, "project")
           /\ exists => Owned(members, "organization")
           /\ owned => ~Owned(members, "project")

Updated(R, t, u, o, E) ==
  /\ E \in SUBSET Team!Row
  /\ \A x \in Team!Teams : Owned(R, x) => Owned(E, x)
  /\ \A x \in Team!Teams : o = None \/ x # t => (Owned(E, x) => Owned(R, x))
  /\ o = TRUE /\ (\E r \in R : r.team = t /\ r.user = u) => Owned(E, t)

\* An UPDATE changes neither whose a row is nor, unless it is asked to, who owns the team.
LEMMA EditedRows ==
  ASSUME Team!TeamsAssumption, NEW R \in SUBSET Team!Row, NEW t \in Team!Teams, NEW u,
         NEW p \in Team!Levels \cup {None}, NEW m \in Team!Levels \cup {None},
         NEW a \in {TRUE, None}, NEW o \in {TRUE, None}
  PROVE  Updated(R, t, u, o, Team!Edited(R, t, u, p, m, a, o))
<1> DEFINE New(r) == IF r.team = t /\ r.user = u
                     THEN [r EXCEPT !.perms    = IF p = None THEN @ ELSE p,
                                    !.manage   = IF m = None THEN @ ELSE m,
                                    !.accepted = IF a = None THEN @ ELSE a,
                                    !.owner    = IF o = None THEN @ ELSE o]
                     ELSE r
           E == Team!Edited(R, t, u, p, m, a, o)
<1>1. ASSUME NEW r \in R
      PROVE  /\ New(r) \in Team!Row /\ New(r).team = r.team
             /\ New(r).owner = IF r.team = t /\ r.user = u /\ o = TRUE THEN TRUE ELSE r.owner
  <2>1. r \in Team!Row
    OBVIOUS
  <2>2. CASE ~(r.team = t /\ r.user = u)
    BY <2>1, <2>2
  <2>3. CASE r.team = t /\ r.user = u
    <3>1. New(r) = [r EXCEPT !.perms    = IF p = None THEN @ ELSE p,
                             !.manage   = IF m = None THEN @ ELSE m,
                             !.accepted = IF a = None THEN @ ELSE a,
                             !.owner    = IF o = None THEN @ ELSE o]
      BY <2>3
    <3>2. TRUE # None
      BY DEF Team!TeamsAssumption
    <3>3. New(r) = [team |-> r.team, user |-> r.user,
                    owner    |-> IF o = None THEN r.owner ELSE o,
                    accepted |-> IF a = None THEN r.accepted ELSE a,
                    perms    |-> IF p = None THEN r.perms ELSE p,
                    manage   |-> IF m = None THEN r.manage ELSE m]
      BY <2>1, <3>1 DEF Team!Row
    <3>4. New(r) \in Team!Row
      <4>1. (IF o = None THEN r.owner ELSE o) \in BOOLEAN
        BY <2>1 DEF Team!Row
      <4>2. (IF a = None THEN r.accepted ELSE a) \in BOOLEAN
        BY <2>1 DEF Team!Row
      <4>3. (IF p = None THEN r.perms ELSE p) \in Team!Levels
        BY <2>1 DEF Team!Row
      <4>4. (IF m = None THEN r.manage ELSE m) \in Team!Levels \cup {None}
        BY <2>1 DEF Team!Row
      <4>5. r.team \in Team!Teams /\ r.user \in Users \cup {Deleted}
        BY <2>1 DEF Team!Row
      <4> HIDE DEF New
      <4>. QED  BY <3>3, <4>1, <4>2, <4>3, <4>4, <4>5 DEF Team!Row
    <3>5. New(r).team = r.team
      BY <3>3
    <3>6. New(r).owner = IF o = None THEN r.owner ELSE o
      BY <3>3
    <3>7. New(r).owner = IF o = TRUE THEN TRUE ELSE r.owner
      BY <3>2, <3>6
    <3> HIDE DEF New
    <3>. QED  BY <2>3, <3>4, <3>5, <3>7
  <2>. QED  BY <2>2, <2>3
<1>2. E = {New(r) : r \in R}
  BY DEF Team!Edited
<1> HIDE DEF New, E
<1>. QED
  <2>1. E \in SUBSET Team!Row
    BY <1>1, <1>2
  <2>2. \A x \in Team!Teams : Owned(R, x) => Owned(E, x)
    BY <1>1, <1>2 DEF Owned
  <2>3. ASSUME NEW x \in Team!Teams, o = None \/ x # t, Owned(E, x) PROVE Owned(R, x)
    <3>1. TRUE # None
      BY DEF Team!TeamsAssumption
    <3>2. PICK r \in R : New(r).team = x /\ New(r).owner
      BY <1>2, <2>3 DEF Owned
    <3>3. r.team = x /\ ~(r.team = t /\ r.user = u /\ o = TRUE)
      BY <1>1, <2>3, <3>1, <3>2
    <3>4. New(r).owner = r.owner
      BY <1>1, <3>3
    <3>. QED  BY <3>2, <3>3, <3>4 DEF Owned
  <2>4. o = TRUE /\ (\E r \in R : r.team = t /\ r.user = u) => Owned(E, t)
    BY <1>1, <1>2 DEF Owned
  <2>. QED  BY <2>1, <2>2, <2>3, <2>4 DEF E, Updated

\* What a request's transaction leaves is typed, and the teams that need one have an owner.
Fit(after) == /\ after.exists \in BOOLEAN /\ after.owned \in BOOLEAN
              /\ after.rows \in SUBSET Team!Row
              /\ after.owned \/ Owned(after.rows, "project")
              /\ after.exists => Owned(after.rows, "organization")
              /\ after.owned => ~Owned(after.rows, "project")

\* A transaction that writes members and leaves who owns which team is fit.
LEMMA Kept ==
  ASSUME Team!TeamsAssumption, TeamInv, NEW R \in SUBSET Team!Row,
         \A x \in Team!Teams : Owned(members, x) <=> Owned(R, x)
  PROVE  Fit(Team!WithRows(R))
BY DEF TeamInv, Team!TypeOK, Fit, Team!WithRows, Team!Db, Team!Teams

\* Who joins, and who is edited, changes nobody's ownership.
LEMMA EditsFit ==
  ASSUME Team!TeamsAssumption, TeamInv, NEW q \in Team!Request,
         q.kind \in {"join", "edit"}
  PROVE  Fit(Team!After(Team!Db, q))
<1>1. members \in SUBSET Team!Row
  BY DEF TeamInv, Team!TypeOK
<1>2. CASE q.kind = "join"
  <2>1. q.team \in Team!Teams
    BY <1>2 DEF Team!Request
  <2> DEFINE E == Team!Edited(members, q.team, q.by, None, None, TRUE, None)
  <2>4. Updated(members, q.team, q.by, None, E)
    BY <1>1, <2>1, EditedRows
  <2>2. E \in SUBSET Team!Row /\ \A x \in Team!Teams : Owned(members, x) <=> Owned(E, x)
    BY <2>4 DEF Updated
  <2>3. Team!After(Team!Db, q) = Team!WithRows(E)
    BY <1>2 DEF Team!After, Team!Joined
  <2>. QED  BY <2>2, <2>3, Kept
<1>3. CASE q.kind = "edit"
  <2>1. /\ q.team \in Team!Teams /\ q.perms \in Team!Levels \cup {None}
        /\ q.manage \in Team!Levels \cup {None}
    BY <1>3 DEF Team!Request
  <2> DEFINE E == Team!Edited(members, q.team, q.user, q.perms, q.manage, None, None)
  <2>4. Updated(members, q.team, q.user, None, E)
    BY <1>1, <2>1, EditedRows
  <2>2. E \in SUBSET Team!Row /\ \A x \in Team!Teams : Owned(members, x) <=> Owned(E, x)
    BY <2>4 DEF Updated
  <2>3. Team!After(Team!Db, q) = Team!WithRows(E)
    BY <1>3 DEF Team!After, Team!Changed
  <2>. QED  BY <2>2, <2>3, Kept
<1>. QED  BY <1>2, <1>3

\* Who is added to a team that has, or needs, an owner does not take it over.
LEMMA InviteFits ==
  ASSUME Team!TeamsAssumption, TeamInv, NEW q \in Team!Request, q.kind = "invite",
         Team!Allowed(Team!Db, q)
  PROVE  Fit(Team!After(Team!Db, q))
<1> DEFINE new == Team!Member(q.team, q.user, FALSE,
                    q.team = "project" /\ Team!OrgRow(Team!Db, q.user) # {}, q.perms, q.manage)
<1>1. /\ q.team \in Team!Teams /\ q.user \in Users
      /\ q.perms \in Team!Levels \cup {None} /\ q.manage \in Team!Levels \cup {None}
  BY DEF Team!Request
<1>2. q.perms \in Team!Levels
  BY <1>1 DEF Team!Allowed, Team!MayInvite
<1>3. new \in Team!Row /\ ~new.owner
  BY <1>1, <1>2 DEF Team!Member, Team!Row
<1>4. /\ members \cup {new} \in SUBSET Team!Row
      /\ \A x \in Team!Teams : Owned(members, x) <=> Owned(members \cup {new}, x)
  BY <1>3 DEF TeamInv, Team!TypeOK, Owned
<1>5. Team!After(Team!Db, q) = Team!WithRows(members \cup {new})
  BY DEF Team!After, Team!Invited
<1>. QED  BY <1>4, <1>5, Kept

\* Nobody who leaves a team, or the site, leaves it without its owner.
LEMMA LeavesFit ==
  ASSUME Team!TeamsAssumption, TeamInv, NEW q \in Team!Request,
         q.kind \in {"remove", "leave"}
  PROVE  Fit(Team!After(Team!Db, q))
<1>1. members \in SUBSET Team!Row
  BY DEF TeamInv, Team!TypeOK
<1>2. CASE q.kind = "remove"
  <2> DEFINE R == Team!Without(members, q.team, q.user)
  <2>1. R \in SUBSET Team!Row /\ \A x \in Team!Teams : Owned(members, x) <=> Owned(R, x)
    BY <1>1 DEF Team!Without, Owned
  <2>2. Team!After(Team!Db, q) = Team!WithRows(R)
    BY <1>2 DEF Team!After, Team!Removed
  <2>. QED  BY <2>1, <2>2, Kept
<1>3. CASE q.kind = "leave"
  <2> DEFINE New(r) == IF r.user = q.user THEN [r EXCEPT !.user = Deleted] ELSE r
             Stays  == {x \in members : x.user = q.user => x.owner}
             R      == {New(r) : r \in Stays}
  <2>1. ASSUME NEW r \in members
        PROVE  New(r) \in Team!Row /\ New(r).team = r.team /\ New(r).owner = r.owner
    BY <1>1 DEF Team!Row
  <2>2. Team!After(Team!Db, q) = Team!WithRows(R)
    BY <1>3 DEF Team!After, Team!Left
  <2> HIDE DEF New
  <2>3. R \in SUBSET Team!Row /\ \A x \in Team!Teams : Owned(members, x) <=> Owned(R, x)
    BY <2>1 DEF Owned
  <2>. QED  BY <2>2, <2>3, Kept
<1>. QED  BY <1>2, <1>3

\* An organisation is created with its owner; one that is deleted leaves its project to
\* the owner it had.
LEMMA OrganizationsFit ==
  ASSUME Team!TeamsAssumption, TeamInv, NEW q \in Team!Request,
         q.kind \in {"create", "delete"}, Team!Allowed(Team!Db, q)
  PROVE  Fit(Team!After(Team!Db, q))
<1>1. ASSUME NEW t \in Team!Teams, NEW u \in Users \cup {Deleted}
      PROVE  /\ Team!Owner(t, u) \in Team!Row
             /\ Team!Owner(t, u).team = t /\ Team!Owner(t, u).owner
  BY DEF Team!Owner, Team!Member, Team!Row, Team!Levels, Team!Teams
<1>2. /\ members \in SUBSET Team!Row /\ q.by \in Users
      /\ "organization" \in Team!Teams /\ "project" \in Team!Teams
  BY DEF TeamInv, Team!TypeOK, Team!Request, Team!Teams
<1>3. CASE q.kind = "create"
  <2> DEFINE new == Team!Owner("organization", q.by)
             R   == members \cup {new}
  <2>1. Team!After(Team!Db, q) = [exists |-> TRUE, owned |-> owned, rows |-> R]
    BY <1>3 DEF Team!After, Team!Created, Team!Given
  <2>2. new \in Team!Row /\ new.team = "organization" /\ new.owner
    BY <1>1, <1>2
  <2>3. /\ R \in SUBSET Team!Row /\ Owned(R, "organization")
        /\ Owned(R, "project") <=> Owned(members, "project")
    BY <1>2, <2>2 DEF Owned
  <2>. QED  BY <2>1, <2>3 DEF Fit, TeamInv, Team!TypeOK
<1>4. CASE q.kind = "delete"
  <2> DEFINE left == {r \in members : r.team # "organization"}
             os   == Team!OwnersOf(members, "organization")
             R    == IF owned THEN left \cup {Team!Owner("project", o) : o \in os} ELSE left
  <2>1. Team!After(Team!Db, q) = [exists |-> FALSE, owned |-> FALSE, rows |-> R]
    BY <1>4 DEF Team!After, Team!Dissolved, Team!Given, Team!Db
  <2>2. os \subseteq Users \cup {Deleted}
    BY <1>2 DEF Team!OwnersOf, Team!Row
  <2>3. exists
    BY <1>4 DEF Team!Allowed, Team!MayDelete, Team!Db
  <2>4. \E o : o \in os
    BY <2>3 DEF TeamInv, Owned, Team!OwnersOf
  <2> HIDE DEF os
  <2>5. R \in SUBSET Team!Row
    BY <1>1, <1>2, <2>2
  <2>6. Owned(R, "project")
    <3>1. CASE owned
      BY <1>1, <1>2, <2>2, <2>4, <3>1 DEF Owned
    <3>2. CASE ~owned
      BY <3>2 DEF TeamInv, Owned
    <3>. QED  BY <3>1, <3>2
  <2>. QED  BY <2>1, <2>5, <2>6 DEF Fit
<1>. QED  BY <1>3, <1>4

\* A team that is transferred has its new owner; the other team keeps the one it has.
LEMMA TransferFits ==
  ASSUME Team!TeamsAssumption, TeamInv, NEW q \in Team!Request,
         q.kind = "transfer", Team!Allowed(Team!Db, q)
  PROVE  Fit(Team!After(Team!Db, q))
<1> DEFINE t    == q.team
           os   == Team!OwnersOf(members, t)
           New(r) == IF r.team = t /\ r.user \in os THEN [r EXCEPT !.owner = FALSE] ELSE r
           L    == {New(r) : r \in members}
           m    == IF t = "project" THEN None ELSE "all"
           E    == Team!Edited(L, t, q.user, "all", m, None, TRUE)
           R    == IF t = "organization" /\ owned THEN Team!Without(E, "project", q.user) ELSE E
<1>1. /\ members \in SUBSET Team!Row /\ t \in Team!Teams /\ q.user \in Users
      /\ \E r \in members : r.team = t /\ r.user = q.user
      /\ t = "project" => ~owned
  BY DEF TeamInv, Team!TypeOK, Team!Request, Team!Allowed, Team!MayTransfer,
         Team!Accepted, Team!Of, Team!Db
<1>2. Team!After(Team!Db, q) = Team!WithRows(R)
  BY DEF Team!After, Team!Transferred, Team!Lowered, Team!Db
<1>3. ASSUME NEW r \in members
      PROVE  /\ New(r) \in Team!Row /\ New(r).team = r.team /\ New(r).user = r.user
             /\ r.team # t => New(r) = r
  BY <1>1 DEF Team!Row
<1> HIDE DEF New
<1>4. /\ L \in SUBSET Team!Row
      /\ \E r \in L : r.team = t /\ r.user = q.user
      /\ \A x \in Team!Teams : x # t => (Owned(members, x) <=> Owned(L, x))
  BY <1>1, <1>3 DEF Owned
<1>5. Updated(L, t, q.user, TRUE, E)
  <2>1. m \in Team!Levels \cup {None} /\ "all" \in Team!Levels \cup {None}
    BY DEF Team!Levels
  <2> HIDE DEF L, m
  <2>. QED  BY <1>1, <1>4, <2>1, EditedRows
<1>6. /\ E \in SUBSET Team!Row /\ Owned(E, t)
      /\ \A x \in Team!Teams : x # t => (Owned(members, x) <=> Owned(E, x))
  BY <1>4, <1>5 DEF Updated
<1> HIDE DEF E
<1>7. R \in SUBSET Team!Row /\ \A x : Owned(E, x) <=> Owned(R, x)
  BY <1>6 DEF Team!Without, Owned
<1> HIDE DEF R
<1>8. CASE t = "project"
  <2>1. /\ ~owned /\ Owned(R, "project")
        /\ Owned(members, "organization") <=> Owned(R, "organization")
    BY <1>1, <1>6, <1>7, <1>8 DEF Team!Teams
  <2>. QED  BY <1>2, <1>7, <2>1 DEF Fit, TeamInv, Team!TypeOK, Team!WithRows, Team!Db
<1>9. CASE t = "organization"
  <2>1. /\ Owned(R, "organization")
        /\ Owned(members, "project") <=> Owned(R, "project")
    BY <1>1, <1>6, <1>7, <1>9 DEF Team!Teams
  <2>. QED  BY <1>2, <1>7, <2>1 DEF Fit, TeamInv, Team!TypeOK, Team!WithRows, Team!Db
<1>. QED  BY <1>1, <1>8, <1>9 DEF Team!Teams

\* A project that an organisation adds loses its owner; one that it gives back gets one.
LEMMA ProjectFits ==
  ASSUME Team!TeamsAssumption, TeamInv, NEW q \in Team!Request,
         q.kind \in {"add", "release"}, Team!Allowed(Team!Db, q)
  PROVE  Fit(Team!After(Team!Db, q))
<1>1. /\ members \in SUBSET Team!Row /\ q.user \in Users
      /\ "organization" \in Team!Teams /\ "project" \in Team!Teams
      /\ exists
  BY DEF TeamInv, Team!TypeOK, Team!Request, Team!Teams, Team!Allowed, Team!MayAdd,
         Team!MayRelease, Team!Db
<1>2. Owned(members, "organization")
  BY <1>1 DEF TeamInv
<1>3. CASE q.kind = "add"
  <2> DEFINE R == {r \in members : r.team = "project" =>
                     ~r.owner /\ r.user \notin Team!OwnersOf(members, "organization")}
  <2>1. Team!After(Team!Db, q) = [exists |-> exists, owned |-> TRUE, rows |-> R]
    BY <1>3 DEF Team!After, Team!Added, Team!Given
  <2>2. /\ R \in SUBSET Team!Row /\ ~Owned(R, "project")
        /\ Owned(R, "organization")
    BY <1>1, <1>2 DEF Owned
  <2>. QED  BY <1>1, <2>1, <2>2 DEF Fit
<1>4. CASE q.kind = "release"
  <2> DEFINE new  == Team!Member("project", q.user, FALSE, TRUE, "all", None)
             with == IF Team!Of(Team!Db, "project", q.user) # {} THEN members
                     ELSE members \cup {new}
             E    == Team!Edited(with, "project", q.user, "all", None, TRUE, TRUE)
  <2>1. Team!After(Team!Db, q) = [exists |-> exists, owned |-> FALSE, rows |-> E]
    BY <1>4 DEF Team!After, Team!Released, Team!Given
  <2>2. new \in Team!Row /\ new.team = "project" /\ new.user = q.user
    BY <1>1 DEF Team!Member, Team!Row, Team!Levels
  <2>3. /\ with \in SUBSET Team!Row
        /\ \E r \in with : r.team = "project" /\ r.user = q.user
        /\ Owned(with, "organization")
    BY <1>1, <1>2, <2>2 DEF Owned, Team!Of, Team!Db
  <2>4. Updated(with, "project", q.user, TRUE, E)
    <3>1. "all" \in Team!Levels \cup {None}
      BY DEF Team!Levels
    <3> HIDE DEF with
    <3>. QED  BY <1>1, <2>3, <3>1, EditedRows
  <2>5. E \in SUBSET Team!Row /\ Owned(E, "project") /\ Owned(E, "organization")
    BY <1>1, <2>3, <2>4 DEF Updated
  <2> HIDE DEF E
  <2>. QED  BY <1>1, <2>1, <2>5 DEF Fit
<1>. QED  BY <1>3, <1>4

\* Every request leaves the teams with their owners.
LEMMA TeamStep ==
  ASSUME Team!TeamsAssumption
  PROVE  TeamInv /\ [Team!Next]_teamVars => TeamInv'
<1> SUFFICES ASSUME TeamInv, [Team!Next]_teamVars PROVE TeamInv'
  OBVIOUS
<1>1. ASSUME NEW q \in Team!Request, Team!Allowed(Team!Db, q), Team!Transaction(Team!Db, q)
      PROVE  TeamInv'
  <2>1. Fit(Team!After(Team!Db, q))
    <3>1. q.kind \in {"join", "edit", "invite", "remove", "leave", "create", "delete",
                      "transfer", "add", "release"}
      BY DEF Team!Request
    <3>. QED
      BY <1>1, <3>1, EditsFit, InviteFits, LeavesFit, OrganizationsFit, TransferFits,
         ProjectFits
  <2>2. CASE Team!Commits(Team!Db, q)
    <3>1. /\ exists' = Team!After(Team!Db, q).exists
          /\ owned' = Team!After(Team!Db, q).owned
          /\ members' = Team!After(Team!Db, q).rows
      BY <1>1, <2>2 DEF Team!Transaction
    <3>2. owned' => exists'
      BY <2>2, <3>1 DEF Team!Commits, Team!Holds
    <3>. QED  BY <2>1, <3>1, <3>2 DEF Fit, TeamInv, Team!TypeOK
  <2>3. CASE ~Team!Commits(Team!Db, q)
    BY <1>1, <2>3 DEF Team!Transaction, TeamInv, Team!TypeOK
  <2>. QED  BY <2>2, <2>3
<1>2. CASE UNCHANGED teamVars
  BY <1>2 DEF teamVars, TeamInv, Team!TypeOK
<1>. QED  BY <1>1, <1>2 DEF Team!Next, Team!Serve

\* The teams' inductive invariant.
LEMMA TeamInvariant ==
  ASSUME Team!TeamsAssumption
  PROVE  ServerSpec => []TeamInv
<1>1. ServerInit => TeamInv
  <2> SUFFICES ASSUME Team!Init PROVE TeamInv
    BY DEF ServerInit
  <2>1. PICK u \in Users, o \in BOOLEAN :
          /\ exists = o /\ owned = o
          /\ members = {Team!Owner(IF o THEN "organization" ELSE "project", u)}
    BY DEF Team!Init
  <2> DEFINE t == IF o THEN "organization" ELSE "project"
             new == Team!Owner(t, u)
  <2>2. new \in Team!Row /\ new.team = t /\ new.owner
    BY DEF Team!Owner, Team!Member, Team!Row, Team!Levels, Team!Teams
  <2> HIDE DEF new
  <2>. QED  BY <2>1, <2>2 DEF TeamInv, Team!TypeOK, Owned, new
<1>2. TeamInv /\ [ServerNext]_serverVars => TeamInv'
  <2>1. [ServerNext]_serverVars => [Team!Next]_teamVars
    BY DEF ServerNext, serverVars
  <2>. QED  BY <2>1, TeamStep
<1>. QED  BY <1>1, <1>2, PTL DEF ServerSpec

\* Whatever requests come, one at a time: a project without an organisation has an owner,
\* an organisation has one, and a project of an organisation has none.
THEOREM TeamsAreAlwaysOwned ==
  ASSUME Team!TeamsAssumption
  PROVE  ServerSpec => []TeamsAreOwned
<1>1. TeamInv => TeamsAreOwned
  BY DEF TeamInv, Owned, TeamsAreOwned, Team!EveryTeamHasOwner, Team!NoOwnerInOrganization,
         Team!OwnersOf
<1>. QED  BY TeamInvariant, <1>1, PTL

(***************************************************************************)
(* The types of all                                                         *)
(***************************************************************************)

\* Every variable of the six components keeps its type.
THEOREM TypesAreKept ==
  ASSUME LockAssumption, Redeem!RedeemalsAssumption, Mail!EmailAssumption,
         Refund!RefundsAssumption, Conn!StatusesAssumption, Team!TeamsAssumption, ~Overlap
  PROVE  ServerSpec => []Types
<1> DEFINE OtherInv == TypeOK /\ RefundInv
<1>1. ServerInit => OtherInv
  BY RefundInitInv, InitInv DEF ServerInit, IInv
<1>2. OtherInv /\ [ServerNext]_serverVars => OtherInv'
  <2>1. [ServerNext]_serverVars => [Refund!Next]_refundVars /\ [Next]_vars
    BY DEF ServerNext, serverVars
  <2>. QED  BY <2>1, RefundStep, TypeStep
<1>3. ServerSpec => []OtherInv
  BY <1>1, <1>2, PTL DEF ServerSpec
<1>4. OtherInv /\ RedeemInv /\ MailInv /\ ConnInv /\ TeamInv => Types
  BY DEF RedeemInv, MailInv, ConnInv, TeamInv, RefundInv, Types
<1>. QED  BY <1>3, <1>4, RedeemInvariant, MailInvariant, StatusInvariant, TeamInvariant, PTL
=============================================================================
