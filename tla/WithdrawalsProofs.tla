-------------------------- MODULE WithdrawalsProofs --------------------------
(***************************************************************************)
(* Withdrawals never overdraw an account and implement the ledger, for any  *)
(* users, requests, rails, amounts, fees and any of the failures.           *)
(***************************************************************************)
EXTENDS Withdrawals, MoneyProofs

------------------------------------------------------------------------------
(* Types *)

\* Every variable has its type at the start.
LEMMA InitTypeOK == Init => TypeOK
  BY ConstantsAssumption
  DEF Init, TypeOK, Status, Order, PC, Sync, NothingGot, RailState, Notice

\* Sums of withdrawals are numbers.
LEMMA SumOfGross ==
  ASSUME TypeOK, NEW S \in SUBSET Payouts
  PROVE  /\ IsFiniteSet(S)
         /\ \A p \in Payouts : GrossOf[p] = order[p].gross /\ GrossOf[p] \in Nat
         /\ Sum(GrossOf, S) \in Nat
<1>1. \A p \in Payouts : GrossOf[p] = order[p].gross /\ GrossOf[p] \in Nat
  BY ConstantsAssumption DEF TypeOK, Order, GrossOf
<1>2. IsFiniteSet(S)
  BY ConstantsAssumption, FS_Subset
<1> QED BY <1>1, <1>2, SumType

\* The parts of an order.
LEMMA OrderType ==
  ASSUME order \in [Payouts -> Order], NEW p \in Payouts
  PROVE  /\ User(p) \in Users /\ Method(p) \in Methods
         /\ order[p].gross \in Nat /\ Fee[Method(p)] \in Nat /\ Net(p) \in Int
<1>1. User(p) \in Users /\ Method(p) \in Methods /\ order[p].gross \in Amounts
  BY DEF Order, User, Method
<1>2. order[p].gross \in Nat /\ Fee[Method(p)] \in Nat
  BY <1>1, ConstantsAssumption
<1> QED BY <1>1, <1>2 DEF Net

\* A balance is a number, which may be negative.
LEMMA BalanceType ==
  ASSUME TypeOK, NEW u \in Users
  PROVE  Available(u) \in Int /\ WithdrawnYtd(u) \in Nat
<1>1. Counted(u) \in SUBSET Payouts
  BY DEF Counted
<1>2. Sum(GrossOf, Counted(u)) \in Nat /\ IsFiniteSet(Counted(u))
  BY <1>1, SumOfGross
<1>3. \A p \in Counted(u) : NetOf[p] \in Int
  BY <1>1, OrderType DEF TypeOK, NetOf
<1>4. Sum(NetOf, Counted(u)) \in Nat
  BY <1>2, <1>3, SumType
<1> QED BY <1>2, <1>4 DEF Available, WithdrawnYtd, TypeOK

\* create_payout keeps the types.
LEMMA CreateTypeOK ==
  ASSUME TypeOK, NEW p \in Payouts, CreatePayout(p)
  PROVE  TypeOK'
<1> USE ConstantsAssumption
    DEF TypeOK, dbVars, reqVars, railVars, Step, Unlock, User, Method
<1>1. CASE LockUser(p)
  <2>1. User(p) \in Users
    BY OrderType
  <2> QED BY <1>1, <2>1 DEF LockUser, PC
<1>2. CASE ReadBalance(p)
  <2>1. User(p) \in Users
    BY DEF Order
  <2>2. Available(User(p)) \in Int /\ WithdrawnYtd(User(p)) \in Nat
    BY <2>1, BalanceType
  <2> QED BY <1>2, <2>2 DEF ReadBalance, PC
<1>3. CASE Rollback(p)
  BY <1>3 DEF Rollback, PC
<1>4. CASE RequestPayout(p)
  <2>1. formOk[User(p)] \in BOOLEAN
    BY OrderType
  <2>2. seen' \in [Payouts -> [balance : Int, ytd : Nat, signed : BOOLEAN]]
    <3>1. seen' = [seen EXCEPT ![p].signed = formOk[User(p)]]
      BY <1>4 DEF RequestPayout
    <3>2. seen \in [Payouts -> [balance : Int, ytd : Nat, signed : BOOLEAN]]
      OBVIOUS
    <3> HIDE DEF TypeOK
    <3> QED BY <2>1, <3>1, <3>2
  <2>3. \E x \in RailState, found \in BOOLEAN :
          rail' = [rail EXCEPT ![p] = x] /\ linked' = [linked EXCEPT ![p] = found]
    BY <1>4 DEF RequestPayout, RailState
  <2>4. \E x \in PC : pc' = [pc EXCEPT ![p] = x]
    BY <1>4 DEF RequestPayout, PC
  <2>5. pc' \in [Payouts -> PC] /\ rail' \in [Payouts -> RailState]
        /\ linked' \in [Payouts -> BOOLEAN]
    BY <2>3, <2>4
  <2>6. draft' \in [Payouts -> {"in-transit", "failed"}]
    BY <1>4 DEF RequestPayout
  <2> QED BY <1>4, <2>2, <2>5, <2>6 DEF RequestPayout
<1>5. CASE ExecuteMural(p)
  <2>1. pc' \in [Payouts -> PC]
    BY <1>5 DEF ExecuteMural, PC
  <2>2. \E d \in {"in-transit", "failed"} : draft' = [draft EXCEPT ![p] = d]
    BY <1>5 DEF ExecuteMural
  <2>3. \E x \in RailState : rail' = [rail EXCEPT ![p] = x]
    BY <1>5 DEF ExecuteMural, RailState
  <2> QED BY <1>5, <2>1, <2>2, <2>3 DEF ExecuteMural
<1>6. CASE CommitPayout(p)
  BY <1>6 DEF CommitPayout, PC, Status
<1>7. CASE LosePayout(p)
  BY <1>7 DEF LosePayout, PC
<1> QED BY <1>1, <1>2, <1>3, <1>4, <1>5, <1>6, <1>7 DEF CreatePayout

\* So does cancel_payout.
LEMMA CancelTypeOK ==
  ASSUME TypeOK, NEW p \in Payouts, CancelPayout(p)
  PROVE  TypeOK'
<1> USE DEF TypeOK, dbVars, reqVars, railVars
<1>1. CASE CheckCancel(p)
  BY <1>1 DEF CheckCancel
<1>2. CASE RailCancels(p)
  BY <1>2 DEF RailCancels, RailState, Notice
<1>3. CASE RailRefusesCancel(p)
  BY <1>3 DEF RailRefusesCancel
<1>4. CASE RecordCancel(p)
  BY <1>4 DEF RecordCancel, Status
<1> QED BY <1>1, <1>2, <1>3, <1>4 DEF CancelPayout

\* So do the webhooks.
LEMMA WebhookTypeOK ==
  ASSUME TypeOK, NEW n \in Notice, Webhook(n)
  PROVE  TypeOK'
<1> USE DEF TypeOK, dbVars, reqVars, railVars, Acknowledge
<1>n. n.payout \in Payouts /\ n.kind \in {"success", "cancelled", "failed"}
  BY DEF Notice
<1>1. CASE FindInTransit(n)
  BY <1>1 DEF FindInTransit, Arrives
<1>2. CASE HandleFailure(n)
  BY <1>2, <1>n DEF HandleFailure, Status
<1>3. CASE HandleSuccess(n)
  BY <1>3, <1>n DEF HandleSuccess, Arrives, Status
<1> QED BY <1>1, <1>2, <1>3 DEF Webhook

\* So does the 30 days' job.
LEMMA ExpireTypeOK ==
  ASSUME TypeOK, ExpireOld
  PROVE  TypeOK'
BY DEF TypeOK, ExpireOld, reqVars, railVars, Status

\* So does the Mural synchronisation.
LEMMA SyncTypeOK ==
  ASSUME TypeOK, SyncMural
  PROVE  TypeOK'
<1> USE DEF TypeOK, dbVars, reqVars, railVars
<1>1. CASE SyncRead
  BY <1>1 DEF SyncRead, Sync, NothingGot
<1>2. ASSUME NEW p \in Payouts, SyncFetch(p) PROVE TypeOK'
  <2>1. PendingVerdict(rail[p]) \in {"none", "success", "cancelled", "failed"}
    BY DEF PendingVerdict
  <2>2. PICK verdict \in {"none", "success", "cancelled", "failed"} :
          sync' = [sync EXCEPT !.todo = @ \ {p}, !.got[p] = verdict]
    BY <1>2, <2>1 DEF SyncFetch
  <2>3. sync' = [pc |-> sync.pc, todo |-> sync.todo \ {p}, got |-> [sync.got EXCEPT ![p] = verdict]]
    BY <2>2 DEF Sync
  <2>4. sync' \in Sync
    BY <2>3 DEF Sync
  <2> QED BY <1>2, <2>4 DEF SyncFetch
<1>3. CASE SyncWrite
  BY <1>3 DEF SyncWrite, Apply, Sync, NothingGot, Status
<1>4. CASE SearchFailed
  <2>1. \A r \in RailState : FailedVerdict(r) \in {"none", "success", "cancelled", "failed"}
    BY DEF FailedVerdict
  <2>2. sync' \in Sync
    BY <1>4, <2>1 DEF SearchFailed, Sync
  <2> QED BY <1>4, <2>2 DEF SearchFailed
<1>5. CASE WriteFailed
  BY <1>5 DEF WriteFailed, Apply, Sync, NothingGot, Status
<1> QED BY <1>1, <1>2, <1>3, <1>4, <1>5 DEF SyncMural

\* So do users, rails and time.
LEMMA EnvironmentTypeOK ==
  ASSUME TypeOK, Environment
  PROVE  TypeOK'
<1> USE DEF TypeOK, dbVars, reqVars, railVars
<1>1. ASSUME NEW u \in Users, Earn(u) PROVE TypeOK'
  BY <1>1 DEF Earn
<1>2. ASSUME NEW u \in Users, ChangeForm(u) PROVE TypeOK'
  BY <1>2 DEF ChangeForm
<1>3. ASSUME NEW p \in Payouts, RailSettles(p) PROVE TypeOK'
  BY <1>3 DEF RailSettles, RailState, Notice
<1>4. ASSUME NEW p \in Payouts, RailReturns(p) PROVE TypeOK'
  BY <1>4 DEF RailReturns, RailState
<1>5. ASSUME NEW p \in Payouts, Age(p) PROVE TypeOK'
  BY <1>5 DEF Age
<1> QED BY <1>1, <1>2, <1>3, <1>4, <1>5 DEF Environment

\* The types through no step...
LEMMA StutterTypeOK == TypeOK /\ UNCHANGED vars => TypeOK'
  BY DEF TypeOK, vars, dbVars, reqVars, railVars

\* ...and through every step.
LEMMA StepTypeOK == TypeOK /\ [Next]_vars => TypeOK'
  BY CreateTypeOK, CancelTypeOK, WebhookTypeOK, ExpireTypeOK, SyncTypeOK,
     EnvironmentTypeOK, StutterTypeOK DEF Next

\* Every variable keeps its type.
THEOREM TypeCorrect == Spec => []TypeOK
  BY InitTypeOK, StepTypeOK, PTL DEF Spec

------------------------------------------------------------------------------
(* The state invariant: one lemma for each of its parts *)

\* The steps that are not a request's own.
Others ==
  \/ \E p \in Payouts : CancelPayout(p)
  \/ \E n \in Notice : Webhook(n)
  \/ ExpireOld \/ SyncMural \/ Environment
  \/ UNCHANGED vars

\* A step is one of create_payout or another.
LEMMA NextIsCreateOrOthers ==
  ASSUME [Next]_vars
  PROVE  (\E p \in Payouts : CreatePayout(p)) \/ Others
BY DEF Next, Others

\* They leave requests and row locks alone.
LEMMA OthersKeepRequests ==
  ASSUME Others
  PROVE  UNCHANGED <<reqVars, lock>>
<1> USE DEF dbVars, reqVars, railVars
<1>1. ASSUME NEW p \in Payouts, CancelPayout(p) PROVE UNCHANGED <<reqVars, lock>>
  BY <1>1 DEF CancelPayout, CheckCancel, RailCancels, RailRefusesCancel, RecordCancel
<1>2. ASSUME NEW n \in Notice, Webhook(n) PROVE UNCHANGED <<reqVars, lock>>
  BY <1>2 DEF Webhook, FindInTransit, HandleFailure, HandleSuccess
<1>3. CASE ExpireOld
  BY <1>3 DEF ExpireOld
<1>4. CASE SyncMural
  BY <1>4 DEF SyncMural, SyncRead, SyncFetch, SyncWrite, SearchFailed, WriteFailed
<1>5. CASE Environment
  BY <1>5 DEF Environment, Earn, ChangeForm, RailSettles, RailReturns, Age
<1>6. CASE UNCHANGED vars
  BY <1>6 DEF vars
<1> QED BY <1>1, <1>2, <1>3, <1>4, <1>5, <1>6 DEF Others

\* Nothing changes what a request asks for.
LEMMA StepKeepsOrder ==
  ASSUME [Next]_vars
  PROVE  order' = order
<1>1. ASSUME NEW p \in Payouts, CreatePayout(p) PROVE order' = order
  BY <1>1 DEF CreatePayout, LockUser, ReadBalance, Rollback, RequestPayout,
              ExecuteMural, CommitPayout, LosePayout
<1>2. ASSUME Others PROVE order' = order
  BY <1>2, OthersKeepRequests DEF reqVars
<1> QED BY <1>1, <1>2, NextIsCreateOrOthers

\* Every step keeps the row lock to one request.
LEMMA StepLockInv ==
  ASSUME TypeOK, LockInv, [Next]_vars
  PROVE  LockInv'
<1> USE DEF LockInv, InFlight, User, dbVars, reqVars, railVars
<1>o. order' = order
  BY StepKeepsOrder
<1>1. ASSUME NEW p \in Payouts, LockUser(p) PROVE LockInv'
  <2>1. User(p) \in Users
    BY OrderType DEF TypeOK
  <2>2. \A q \in Payouts : pc[q] \in InFlight => User(q) # User(p)
    BY <1>1, ConstantsAssumption DEF LockUser
  <2> QED BY <1>1, <1>o, <2>1, <2>2 DEF LockUser, Step, TypeOK
<1>2. ASSUME NEW p \in Payouts, ReadBalance(p) \/ RequestPayout(p) \/ ExecuteMural(p)
      PROVE  LockInv'
  <2>1. pc[p] \in InFlight /\ \A q \in Payouts \ {p} : pc'[q] = pc[q]
    BY <1>2 DEF ReadBalance, RequestPayout, ExecuteMural, Step, TypeOK
  <2>2. lock' = lock
    BY <1>2 DEF ReadBalance, RequestPayout, ExecuteMural
  <2> QED BY <1>o, <2>1, <2>2
<1>3. ASSUME NEW p \in Payouts, Rollback(p) \/ CommitPayout(p) \/ LosePayout(p)
      PROVE  LockInv'
  <2>1. /\ pc[p] \in InFlight /\ pc'[p] = "done"
        /\ \A q \in Payouts \ {p} : pc'[q] = pc[q]
    BY <1>3 DEF Rollback, CommitPayout, LosePayout, Step, TypeOK
  <2>2. \A u \in Users : u # User(p) => lock'[u] = lock[u]
    BY <1>3 DEF Rollback, CommitPayout, LosePayout, Unlock, TypeOK
  <2>3. \A q \in Payouts \ {p} : pc[q] \in InFlight => User(q) # User(p)
    BY <2>1
  <2>4. \A q \in Payouts : User(q) \in Users
    BY OrderType DEF TypeOK
  <2> QED BY <1>o, <2>1, <2>2, <2>3, <2>4
<1>4. CASE Others
  BY <1>4, OthersKeepRequests
<1> QED BY <1>1, <1>2, <1>3, <1>4, NextIsCreateOrOthers DEF CreatePayout

\* They neither insert nor delete rows.
LEMMA OthersKeepRows ==
  ASSUME TypeOK, RowInv, Others, NEW q \in Payouts
  PROVE  status'[q] = "none" <=> status[q] = "none"
<1> USE DEF TypeOK, dbVars, reqVars, railVars
<1>1. ASSUME NEW p \in Payouts, CancelPayout(p) PROVE status'[q] = "none" <=> status[q] = "none"
  BY <1>1 DEF CancelPayout, CheckCancel, RailCancels, RailRefusesCancel, RecordCancel, RowInv
<1>2. ASSUME NEW n \in Notice, Webhook(n) PROVE status'[q] = "none" <=> status[q] = "none"
  <2>1. n.payout \in Payouts /\ n.kind # "none"
    BY DEF Notice
  <2>2. CASE FindInTransit(n)
    BY <2>2 DEF FindInTransit
  <2>3. CASE HandleFailure(n)
    BY <2>1, <2>3 DEF HandleFailure, RowInv
  <2>4. CASE HandleSuccess(n)
    BY <2>1, <2>4 DEF HandleSuccess
  <2> QED BY <1>2, <2>2, <2>3, <2>4 DEF Webhook
<1>3. CASE ExpireOld
  BY <1>3 DEF ExpireOld
<1>4. CASE SyncMural
  <2>1. CASE SyncWrite \/ WriteFailed
    <3>1. status'[q] = IF sync.got[q] # "none" /\ status[q] # "none" THEN sync.got[q] ELSE status[q]
      BY <2>1 DEF SyncWrite, WriteFailed, Apply
    <3> QED BY <3>1
  <2>2. CASE SyncRead \/ (\E p \in Payouts : SyncFetch(p)) \/ SearchFailed
    BY <2>2 DEF SyncRead, SyncFetch, SearchFailed
  <2> QED BY <1>4, <2>1, <2>2 DEF SyncMural
<1>5. CASE Environment
  BY <1>5 DEF Environment, Earn, ChangeForm, RailSettles, RailReturns, Age
<1>6. CASE UNCHANGED vars
  BY <1>6 DEF vars
<1> QED BY <1>1, <1>2, <1>3, <1>4, <1>5, <1>6 DEF Others

\* A cancellation and a webhook's handler that go on have seen their row.
LEMMA OthersFollowRows ==
  ASSUME TypeOK, RowInv, Others
  PROVE  /\ \A q \in Payouts : cancel'[q] # "idle" => status[q] # "none"
         /\ \A m \in hook' : m.payout \in Payouts /\ status[m.payout] # "none"
<1> DEFINE Goal == /\ \A q \in Payouts : cancel'[q] # "idle" => status[q] # "none"
                   /\ \A m \in hook' : m.payout \in Payouts /\ status[m.payout] # "none"
<1> USE DEF RowInv, TypeOK, dbVars, reqVars, railVars
<1>0. \A m \in Notice : m.payout \in Payouts
  BY DEF Notice
<1>1. ASSUME NEW p \in Payouts, CancelPayout(p) PROVE Goal
  <2>1. hook' = hook
    BY <1>1 DEF CancelPayout, CheckCancel, RailCancels, RailRefusesCancel, RecordCancel
  <2>2. ASSUME NEW q \in Payouts, cancel'[q] # "idle" PROVE status[q] # "none"
    BY <1>1, <2>2 DEF CancelPayout, CheckCancel, RailCancels, RailRefusesCancel, RecordCancel
  <2> QED BY <1>0, <2>1, <2>2
<1>2. ASSUME NEW n \in Notice, Webhook(n) PROVE Goal
  <2>1. cancel' = cancel
    BY <1>2 DEF Webhook, FindInTransit, HandleFailure, HandleSuccess
  <2>2. \A m \in hook' : m \in hook \/ (m = n /\ status[m.payout] # "none")
    BY <1>2 DEF Webhook, FindInTransit, HandleFailure, HandleSuccess
  <2> QED BY <1>0, <2>1, <2>2
<1>3. CASE ExpireOld \/ SyncMural \/ Environment \/ UNCHANGED vars
  <2>1. UNCHANGED <<cancel, hook>>
    BY <1>3
       DEF ExpireOld, SyncMural, SyncRead, SyncFetch, SyncWrite, SearchFailed, WriteFailed,
           Environment, Earn, ChangeForm, RailSettles, RailReturns, Age, vars
  <2> QED BY <1>0, <2>1
<1> QED BY <1>1, <1>2, <1>3 DEF Others

\* Every step keeps what requests know of their rows.
LEMMA StepRowInv ==
  ASSUME TypeOK, RowInv, [Next]_vars
  PROVE  RowInv'
<1> USE DEF RowInv, TypeOK, dbVars, reqVars, railVars
<1>1. ASSUME NEW p \in Payouts, CreatePayout(p) PROVE RowInv'
  <2>1. CASE CommitPayout(p)
    BY <2>1 DEF CommitPayout, Step
  <2>2. CASE ~ CommitPayout(p)
    <3>1. UNCHANGED <<status, cancel, hook>>
      BY <1>1, <2>2 DEF CreatePayout, LockUser, ReadBalance, Rollback, RequestPayout,
                        ExecuteMural, LosePayout
    <3>2. \A q \in Payouts : pc[q] = "done" => pc'[q] = "done"
      BY <1>1, <2>2 DEF CreatePayout, LockUser, ReadBalance, Rollback, RequestPayout,
                        ExecuteMural, LosePayout, Step
    <3> QED BY <3>1, <3>2
  <2> QED BY <2>1, <2>2
<1>2. ASSUME Others PROVE RowInv'
  <2>1. pc' = pc
    BY <1>2, OthersKeepRequests
  <2>2. \A q \in Payouts : status'[q] = "none" <=> status[q] = "none"
    BY <1>2, OthersKeepRows
  <2>3. \A q \in Payouts : cancel'[q] # "idle" => status[q] # "none"
    BY <1>2, OthersFollowRows
  <2>4. \A m \in hook' : m.payout \in Payouts /\ status[m.payout] # "none"
    BY <1>2, OthersFollowRows
  <2> QED BY <2>1, <2>2, <2>3, <2>4
<1> QED BY <1>1, <1>2, NextIsCreateOrOthers

\* A request goes forward, and only Mural's has two calls to the rail.
RequestMoves(q) ==
  \/ pc'[q] = pc[q]
  \/ pc[q] = "idle" /\ pc'[q] = "locked"
  \/ pc[q] = "locked" /\ pc'[q] = "counted"
  \/ pc[q] = "counted" /\ pc'[q] = "sent" /\ rail'[q] = "created" /\ Method(q) = "mural"
  \/ pc[q] \in {"counted", "sent"} /\ pc'[q] = "ready"
  \/ pc[q] \in InFlight /\ pc'[q] = "done"

\* Every step moves a request as create_payout does.
LEMMA StepMovesRequest ==
  ASSUME TypeOK, [Next]_vars, NEW q \in Payouts
  PROVE  RequestMoves(q)
<1>1. ASSUME NEW p \in Payouts, CreatePayout(p) PROVE RequestMoves(q)
  <2> USE DEF RequestMoves, InFlight, Step, TypeOK
  <2>1. CASE LockUser(p)
    BY <2>1 DEF LockUser
  <2>2. CASE ReadBalance(p)
    BY <2>2 DEF ReadBalance
  <2>3. CASE Rollback(p)
    BY <2>3 DEF Rollback
  <2>4. CASE RequestPayout(p)
    BY <2>4 DEF RequestPayout
  <2>5. CASE ExecuteMural(p)
    BY <2>5 DEF ExecuteMural
  <2>6. CASE CommitPayout(p)
    BY <2>6 DEF CommitPayout
  <2>7. CASE LosePayout(p)
    BY <2>7 DEF LosePayout
  <2> QED BY <1>1, <2>1, <2>2, <2>3, <2>4, <2>5, <2>6, <2>7 DEF CreatePayout
<1>2. CASE Others
  BY <1>2, OthersKeepRequests DEF reqVars, RequestMoves
<1> QED BY <1>1, <1>2, NextIsCreateOrOthers

\* The ways in which a step may change what a rail did with q.
RailMoves(q) ==
  \/ rail'[q] = rail[q]
  \/ pc[q] = "counted" /\ pc'[q] \in {"sent", "ready"} /\ rail[q] = "none"
  \/ pc[q] = "sent" /\ pc'[q] = "ready" /\ rail[q] = "created"
  \/ rail[q] = "open" /\ rail'[q] \in {"paid", "cancelled", "failed"}
  \/ rail[q] = "paid" /\ rail'[q] = "returned" /\ ~ Webhooks(q)

\* Every step moves a rail as its payments do.
LEMMA StepMovesRail ==
  ASSUME TypeOK, RailInv, [Next]_vars, NEW q \in Payouts
  PROVE  RailMoves(q)
<1> USE DEF TypeOK, RailInv, RailMoves, dbVars, reqVars, railVars
<1>1. ASSUME NEW p \in Payouts, CreatePayout(p) PROVE RailMoves(q)
  BY <1>1 DEF CreatePayout, LockUser, ReadBalance, Rollback, RequestPayout,
              ExecuteMural, CommitPayout, LosePayout, Step
<1>2. ASSUME NEW p \in Payouts, CancelPayout(p) PROVE RailMoves(q)
  BY <1>2 DEF CancelPayout, CheckCancel, RailCancels, RailRefusesCancel, RecordCancel
<1>3. ASSUME NEW n \in Notice, Webhook(n) PROVE RailMoves(q)
  BY <1>3 DEF Webhook, FindInTransit, HandleFailure, HandleSuccess
<1>4. CASE ExpireOld \/ SyncMural \/ UNCHANGED vars
  BY <1>4 DEF ExpireOld, SyncMural, SyncRead, SyncFetch, SyncWrite, SearchFailed,
              WriteFailed, vars
<1>5. CASE Environment
  BY <1>5 DEF Environment, Earn, ChangeForm, RailSettles, RailReturns, Age, Webhooks
<1> QED BY <1>1, <1>2, <1>3, <1>4, <1>5 DEF Next

\* The ways in which a step may change the status of row q.
Committed(q)  == pc[q] = "ready" /\ status'[q] = draft[q]
Cancelling(q) == cancel[q] = "accepted" /\ status'[q] = "cancelling"
FailedBy(n)   == n \in hook /\ status'[n.payout] = n.kind
PaidBy(n)     == n \in notices /\ n.kind = "success" /\ status'[n.payout] = "success"
Expired(q)    == q \in aged /\ status[q] = "in-transit" /\ status'[q] = "failed"
Synced(q)     == /\ sync.got[q] # "none" /\ status'[q] = sync.got[q]
                 /\ sync'.got = NothingGot /\ (sync.pc = "fetch" => sync.todo = {})

StatusMoves(q) ==
  \/ status'[q] = status[q]
  \/ Committed(q)
  \/ /\ status[q] # "none"
     /\ \/ Cancelling(q) \/ Expired(q) \/ Synced(q)
        \/ \E n \in Notice : n.payout = q /\ (FailedBy(n) \/ PaidBy(n))

\* Every step moves the status of a row in one of the named ways.
LEMMA StepMovesStatus ==
  ASSUME TypeOK, RowInv, [Next]_vars, NEW q \in Payouts
  PROVE  StatusMoves(q)
<1> USE DEF TypeOK, StatusMoves, dbVars, reqVars, railVars
<1>1. ASSUME NEW p \in Payouts, CreatePayout(p) PROVE StatusMoves(q)
  BY <1>1 DEF CreatePayout, LockUser, ReadBalance, Rollback, RequestPayout,
              ExecuteMural, CommitPayout, LosePayout, Step, Committed
<1>2. ASSUME NEW p \in Payouts, CancelPayout(p) PROVE StatusMoves(q)
  BY <1>2 DEF CancelPayout, CheckCancel, RailCancels, RailRefusesCancel, RecordCancel,
              Cancelling, RowInv
<1>3. ASSUME NEW n \in Notice, Webhook(n) PROVE StatusMoves(q)
  <2>1. n.payout \in Payouts
    BY DEF Notice
  <2>2. CASE n.payout = q
    BY <1>3, <2>1, <2>2 DEF Webhook, FindInTransit, HandleFailure, HandleSuccess, Arrives,
                            FailedBy, PaidBy, RowInv
  <2>3. CASE n.payout # q
    BY <1>3, <2>1, <2>3 DEF Webhook, FindInTransit, HandleFailure, HandleSuccess
  <2> QED BY <2>2, <2>3
<1>4. CASE ExpireOld
  BY <1>4 DEF ExpireOld, Expired
<1>5. CASE SyncMural
  <2>1. CASE SyncWrite \/ WriteFailed
    <3>1. sync'.got = NothingGot /\ (sync.pc = "fetch" => sync.todo = {})
      BY <2>1 DEF SyncWrite, WriteFailed, Sync
    <3> QED BY <2>1, <3>1 DEF SyncWrite, WriteFailed, Apply, Synced
  <2>2. CASE ~ (SyncWrite \/ WriteFailed)
    BY <1>5, <2>2 DEF SyncMural, SyncRead, SyncFetch, SearchFailed
  <2> QED BY <2>1, <2>2
<1>6. CASE Environment
  BY <1>6 DEF Environment, Earn, ChangeForm, RailSettles, RailReturns, Age
<1>7. CASE UNCHANGED vars
  BY <1>7 DEF vars
<1> QED BY <1>1, <1>2, <1>3, <1>4, <1>5, <1>6, <1>7 DEF Next

\* A webhook about q is repeated, is being handled, or is new: then the rail
\* has just settled q.
LEMMA NoticesAreNews ==
  ASSUME TypeOK, RailInv, [Next]_vars, NEW m \in notices' \cup hook'
  PROVE  \/ m \in notices \cup hook
         \/ /\ m \in notices' /\ m.payout \in Payouts /\ Webhooks(m.payout)
            /\ rail[m.payout] = "open"
            /\ rail'[m.payout] = IF m.kind = "success" THEN "paid" ELSE m.kind
<1> DEFINE News == /\ m \in notices' /\ m.payout \in Payouts /\ Webhooks(m.payout)
                   /\ rail[m.payout] = "open"
                   /\ rail'[m.payout] = IF m.kind = "success" THEN "paid" ELSE m.kind
<1> USE DEF TypeOK, dbVars, reqVars, railVars
<1>1. ASSUME NEW p \in Payouts, CreatePayout(p) PROVE m \in notices \cup hook
  BY <1>1 DEF CreatePayout, LockUser, ReadBalance, Rollback, RequestPayout,
              ExecuteMural, CommitPayout, LosePayout
<1>2. ASSUME NEW p \in Payouts, CancelPayout(p) PROVE m \in notices \cup hook \/ News
  <2>1. CASE RailCancels(p)
    BY <2>1 DEF RailCancels
  <2>2. CASE ~ RailCancels(p)
    BY <1>2, <2>2 DEF CancelPayout, CheckCancel, RailRefusesCancel, RecordCancel
  <2> QED BY <2>1, <2>2
<1>3. ASSUME NEW n \in Notice, Webhook(n) PROVE m \in notices \cup hook
  BY <1>3 DEF Webhook, FindInTransit, HandleFailure, HandleSuccess, Acknowledge, Arrives
<1>4. CASE ExpireOld \/ SyncMural \/ UNCHANGED vars
  BY <1>4 DEF ExpireOld, SyncMural, SyncRead, SyncFetch, SyncWrite, SearchFailed,
              WriteFailed, vars
<1>5. ASSUME Environment PROVE m \in notices \cup hook \/ News
  <2>1. ASSUME NEW p \in Payouts, RailSettles(p) PROVE m \in notices \cup hook \/ News
    BY <2>1 DEF RailSettles
  <2>2. CASE ~ \E p \in Payouts : RailSettles(p)
    BY <1>5, <2>2 DEF Environment, Earn, ChangeForm, RailReturns, Age
  <2> QED BY <2>1, <2>2
<1> QED BY <1>1, <1>2, <1>3, <1>4, <1>5 DEF Next

\* The method of a request, and so how its rail is heard, never changes.
LEMMA StepKeepsMethods ==
  ASSUME [Next]_vars, NEW q
  PROVE  Webhooks(q)' = Webhooks(q) /\ User(q)' = User(q) /\ Method(q)' = Method(q)
BY StepKeepsOrder DEF Webhooks, Method, User

\* Every step keeps rows and rails together.
LEMMA StepRailInv ==
  ASSUME TypeOK, RowInv, RailInv, [Next]_vars
  PROVE  RailInv'
<1>0. TypeOK'
  BY StepTypeOK
<1>1. ASSUME NEW q \in Payouts, pc'[q] \in {"idle", "locked", "counted"}
      PROVE  rail'[q] = "none"
  <2>1. pc[q] \in {"idle", "locked", "counted"} /\ rail[q] = "none"
    BY <1>1, StepMovesRequest DEF RequestMoves, RailInv
  <2> QED BY <1>1, <2>1, StepMovesRail DEF RailMoves
<1>2. ASSUME NEW q \in Payouts, pc'[q] = "sent"
      PROVE  rail'[q] = "created" /\ Method(q) = "mural"
  <2>1. \/ pc[q] = "sent" /\ rail[q] = "created" /\ Method(q) = "mural"
        \/ rail'[q] = "created" /\ Method(q) = "mural"
    BY <1>2, StepMovesRequest DEF RequestMoves, RailInv
  <2> QED BY <1>2, <2>1, StepMovesRail DEF RailMoves
<1>3. ASSUME NEW q \in Payouts, cancel'[q] = "accepted"
      PROVE  rail'[q] = "cancelled"
  <2>1. ASSUME NEW p \in Payouts, CancelPayout(p)
        PROVE  cancel[q] = "accepted" \/ rail'[q] = "cancelled"
    BY <1>3, <2>1 DEF CancelPayout, CheckCancel, RailCancels, RailRefusesCancel, RecordCancel,
                      TypeOK
  <2>2. ASSUME ~ \E p \in Payouts : CancelPayout(p)
        PROVE  cancel' = cancel
    BY <2>2 DEF Next, CreatePayout, LockUser, ReadBalance, Rollback, RequestPayout,
         ExecuteMural, CommitPayout, LosePayout, Webhook, FindInTransit, HandleFailure,
         HandleSuccess, ExpireOld, SyncMural, SyncRead, SyncFetch, SyncWrite, SearchFailed,
         WriteFailed, Environment, Earn, ChangeForm, RailSettles, RailReturns, Age, vars
  <2>3. cancel[q] = "accepted" \/ rail'[q] = "cancelled"
    BY <1>3, <2>1, <2>2
  <2> QED BY <2>3, StepMovesRail DEF RailInv, RailMoves
<1>4. ASSUME NEW q \in Payouts, status'[q] = "cancelling"
      PROVE  rail'[q] = "cancelled"
  <2>1. rail[q] = "cancelled"
    BY <1>4, StepMovesStatus DEF StatusMoves, Committed, Cancelling, FailedBy, PaidBy, Expired,
         Synced, RailInv, TypeOK, Notice, Sync
  <2> QED BY <2>1, StepMovesRail DEF RailMoves
<1>5. ASSUME NEW m \in notices' \cup hook'
      PROVE  /\ Webhooks(m.payout)
             /\ rail'[m.payout] = IF m.kind = "success" THEN "paid" ELSE m.kind
  <2>1. m \in Notice /\ m.payout \in Payouts
    BY <1>0 DEF TypeOK, Notice
  <2>2. CASE m \in notices \cup hook
    <3>1. /\ Webhooks(m.payout)
          /\ rail[m.payout] = IF m.kind = "success" THEN "paid" ELSE m.kind
      BY <2>2 DEF RailInv
    <3> QED BY <2>1, <3>1, StepMovesRail DEF RailMoves, Notice
  <2> QED BY <2>2, NoticesAreNews
<1>6. \A m \in hook' : m.kind # "success"
  <2>1. \/ hook' \subseteq hook
        \/ \E n \in Notice : n.kind # "success" /\ hook' \subseteq hook \cup {n}
    <3>1. ASSUME NEW n \in Notice, Webhook(n)
          PROVE  hook' \subseteq hook \/ (n.kind # "success" /\ hook' \subseteq hook \cup {n})
      BY <3>1 DEF Webhook, FindInTransit, HandleFailure, HandleSuccess
    <3>2. ASSUME ~ \E n \in Notice : Webhook(n)
          PROVE  hook' = hook
      BY <3>2 DEF Next, CreatePayout, LockUser, ReadBalance, Rollback, RequestPayout,
           ExecuteMural, CommitPayout, LosePayout, CancelPayout, CheckCancel, RailCancels,
           RailRefusesCancel, RecordCancel, ExpireOld, SyncMural, SyncRead, SyncFetch,
           SyncWrite, SearchFailed, WriteFailed, Environment, Earn, ChangeForm, RailSettles,
           RailReturns, Age, vars
    <3> QED BY <3>1, <3>2
  <2> QED BY <2>1 DEF RailInv
<1> QED BY <1>1, <1>2, <1>3, <1>4, <1>5, <1>6, StepKeepsMethods DEF RailInv

\* A row stays once it is there and is never in transit again, and while there
\* is none only its own request can insert it.
LEMMA RowsStay ==
  ASSUME TypeOK, RowInv, [Next]_vars, NEW q \in Payouts
  PROVE  /\ status[q] # "none" =>
              /\ pc[q] = "done" /\ status'[q] # "none"
              /\ status'[q] = "in-transit" => status[q] = "in-transit"
         /\ status[q] = "none" => status'[q] = "none" \/ Committed(q)
<1>1. ASSUME status[q] # "none"
      PROVE  /\ pc[q] = "done" /\ status'[q] # "none"
             /\ status'[q] = "in-transit" => status[q] = "in-transit"
  <2>1. pc[q] = "done"
    BY <1>1 DEF RowInv
  <2>2. ASSUME NEW n \in Notice, FailedBy(n) \/ PaidBy(n), n.payout = q
        PROVE  status'[q] \notin {"none", "in-transit"}
    BY <2>2 DEF FailedBy, PaidBy, Notice
  <2>3. Cancelling(q) \/ Expired(q) => status'[q] \notin {"none", "in-transit"}
    BY DEF Cancelling, Expired
  <2>4. Synced(q) => status'[q] \notin {"none", "in-transit"}
    BY DEF Synced, TypeOK, Sync
  <2>5. status'[q] = status[q] \/ status'[q] \notin {"none", "in-transit"}
    BY <2>1, <2>2, <2>3, <2>4, StepMovesStatus DEF StatusMoves, Committed
  <2> QED BY <1>1, <2>1, <2>5
<1>2. status[q] = "none" => status'[q] = "none" \/ Committed(q)
  BY StepMovesStatus DEF StatusMoves
<1> QED BY <1>1, <1>2

\* Rows grow old one at a time, and never young.
LEMMA StepAges ==
  ASSUME TypeOK, [Next]_vars, NEW q \in aged'
  PROVE  q \in aged \/ Age(q)
<1> USE DEF TypeOK
<1>1. ASSUME NEW p \in Payouts, Age(p) PROVE q \in aged \/ Age(q)
  BY <1>1 DEF Age
<1>2. ASSUME ~ \E p \in Payouts : Age(p) PROVE aged' = aged
  BY <1>2 DEF Next, CreatePayout, LockUser, ReadBalance, Rollback, RequestPayout,
       ExecuteMural, CommitPayout, LosePayout, CancelPayout, CheckCancel, RailCancels,
       RailRefusesCancel, RecordCancel, Webhook, FindInTransit, HandleFailure, HandleSuccess,
       ExpireOld, SyncMural, SyncRead, SyncFetch, SyncWrite, SearchFailed, WriteFailed,
       Environment, Earn, ChangeForm, RailSettles, RailReturns, vars, dbVars
<1> QED BY <1>1, <1>2

\* Every step keeps it so that what is 30 days old has been settled by its rail.
LEMMA StepAgedInv ==
  ASSUME TypeOK, RowInv, RailInv, AgedInv, [Next]_vars
  PROVE  AgedInv'
<1>0. aged' \subseteq Payouts
  BY StepTypeOK DEF TypeOK
<1>1. ASSUME NEW q \in Payouts, q \in aged
      PROVE  /\ status'[q] # "none" /\ rail'[q] # "open"
             /\ Webhooks(q) => \A n \in notices' \cup hook' : n.payout # q
             /\ ~ Webhooks(q) /\ rail'[q] \in {"paid", "returned"} => status'[q] # "in-transit"
  <2>1. pc[q] = "done" /\ status[q] # "none" /\ rail[q] # "open"
    BY <1>1 DEF AgedInv, RowInv
  <2>2. status'[q] # "none" /\ (status'[q] = "in-transit" => status[q] = "in-transit")
    BY <2>1, RowsStay
  <2>3. rail'[q] = rail[q] \/ (rail[q] = "paid" /\ rail'[q] = "returned")
    BY <2>1, StepMovesRail DEF RailMoves
  <2>4. ASSUME Webhooks(q), NEW n \in notices' \cup hook' PROVE n.payout # q
    BY <1>1, <2>1, <2>4, NoticesAreNews DEF AgedInv
  <2>5. ASSUME ~ Webhooks(q), rail'[q] \in {"paid", "returned"} PROVE status'[q] # "in-transit"
    <3>1. rail[q] \in {"paid", "returned"}
      BY <2>3, <2>5
    <3> QED BY <1>1, <2>2, <2>5, <3>1 DEF AgedInv
  <2> QED BY <2>1, <2>2, <2>3, <2>4, <2>5
<1>2. ASSUME NEW q \in Payouts, Age(q)
      PROVE  /\ status'[q] # "none" /\ rail'[q] # "open"
             /\ Webhooks(q) => \A n \in notices' \cup hook' : n.payout # q
             /\ ~ Webhooks(q) /\ rail'[q] \in {"paid", "returned"} => status'[q] # "in-transit"
  BY <1>2 DEF Age, Heard, railVars
<1>3. \A q \in aged' : q \in Payouts /\ (q \in aged \/ Age(q))
  BY <1>0, StepAges
<1> QED BY <1>1, <1>2, <1>3, StepKeepsMethods DEF AgedInv


\* Money is given back on the word of the rail, or when the rail has no more to
\* say: not while it can still pay, and not when its success is on the way.
LEMMA ReleasedByWebhook ==
  ASSUME TypeOK, RowInv, RailInv, AgedInv, SuccessInv, [Next]_vars,
         NEW q \in Payouts, Webhooks(q), status[q] \notin Released,
         \/ rail[q] = "open"
         \/ \E n \in notices : n.payout = q /\ n.kind = "success"
  PROVE  status'[q] \notin Released
<1>1. CASE status[q] = "none"
  BY <1>1, RowsStay DEF Committed, SuccessInv, Released
<1>2. CASE status[q] # "none"
  <2>1. rail[q] \notin {"cancelled", "failed"}
    BY DEF RailInv
  <2>2. q \notin aged
    BY DEF AgedInv
  <2>3. ~ Committed(q) /\ ~ Cancelling(q) /\ ~ Expired(q) /\ ~ Synced(q)
    BY <1>2, <2>1, <2>2 DEF Committed, Cancelling, Expired, Synced, RowInv, RailInv, SuccessInv
  <2>4. \A n \in Notice : n.payout = q => ~ FailedBy(n)
    BY <2>1 DEF FailedBy, RailInv, Notice
  <2> QED BY <2>3, <2>4, StepMovesStatus DEF StatusMoves, PaidBy, Released
<1> QED BY <1>1, <1>2

\* What gives back a withdrawal in any other way is the synchronisation with Mural.
LEMMA ReleasedByMural ==
  ASSUME TypeOK, RowInv, RailInv, AgedInv, SuccessInv, [Next]_vars,
         NEW q \in Payouts, ~ Webhooks(q), status[q] \in {"in-transit", "success"},
         rail[q] \in {"open", "paid", "returned"}, status'[q] \in Released
  PROVE  Synced(q)
<1>1. ~ Committed(q) /\ ~ Cancelling(q) /\ ~ Expired(q)
  BY DEF Committed, Cancelling, Expired, RowInv, RailInv, AgedInv
<1>2. \A n \in Notice : n.payout = q => ~ FailedBy(n) /\ ~ PaidBy(n)
  BY DEF FailedBy, PaidBy, RailInv
<1> QED BY <1>1, <1>2, StepMovesStatus DEF StatusMoves, Released

\* What the Mural synchronisation does to what it knows of q.
SyncMoves(q) ==
  \/ sync'.got[q] = sync.got[q] /\ sync'.pc = sync.pc
  \/ sync'.got[q] = "none"
  \/ /\ SyncFetch(q) /\ sync'.got[q] \in {"none", PendingVerdict(rail[q])}
     /\ sync'.pc = "fetch"
  \/ Method(q) = "mural" /\ sync'.got[q] = FailedVerdict(rail[q])

\* Every step moves the synchronisation as its pass does.
LEMMA StepMovesSync ==
  ASSUME TypeOK, SuccessInv, [Next]_vars, NEW q \in Payouts
  PROVE  /\ SyncMoves(q)
         /\ q \in sync'.todo => q \in sync.todo \/ SyncRead
         /\ sync'.pc # "fetch" => sync'.todo = {}
<1> DEFINE Goal == /\ SyncMoves(q)
                   /\ q \in sync'.todo => q \in sync.todo \/ SyncRead
                   /\ sync'.pc # "fetch" => sync'.todo = {}
<1>0. sync \in Sync /\ sync = [pc |-> sync.pc, todo |-> sync.todo, got |-> sync.got]
  BY DEF TypeOK, Sync
<1>1. CASE SyncRead
  BY <1>1 DEF SyncRead, SyncMoves, NothingGot
<1>2. ASSUME NEW p \in Payouts, SyncFetch(p) PROVE Goal
  <2>1. PICK verdict \in {"none", PendingVerdict(rail[p])} :
          sync' = [sync EXCEPT !.todo = @ \ {p}, !.got[p] = verdict]
    BY <1>2 DEF SyncFetch
  <2>2. /\ sync.pc = "fetch" /\ sync'.pc = "fetch" /\ sync'.todo \subseteq sync.todo
        /\ sync'.got = [sync.got EXCEPT ![p] = verdict]
    BY <1>0, <1>2, <2>1 DEF SyncFetch
  <2>3. CASE p = q
    <3>1. sync'.got[q] = verdict
      BY <1>0, <2>2, <2>3 DEF Sync
    <3> QED BY <1>2, <2>1, <2>2, <2>3, <3>1 DEF SyncMoves
  <2>4. CASE p # q
    <3>1. sync'.got[q] = sync.got[q]
      BY <1>0, <2>2, <2>4 DEF Sync
    <3> QED BY <2>2, <3>1 DEF SyncMoves
  <2> QED BY <2>3, <2>4
<1>3. CASE SyncWrite
  <2>1. sync' = [pc |-> "search", todo |-> sync.todo, got |-> NothingGot] /\ sync.todo = {}
    BY <1>0, <1>3 DEF SyncWrite
  <2> QED BY <2>1 DEF SyncMoves, NothingGot
<1>4. CASE SearchFailed
  <2>1. /\ sync'.pc = "apply" /\ sync'.todo = sync.todo /\ sync.pc = "search"
        /\ sync'.got[q] = IF Method(q) = "mural" THEN FailedVerdict(rail[q]) ELSE "none"
    BY <1>0, <1>4 DEF SearchFailed
  <2> QED BY <2>1 DEF SyncMoves, SuccessInv
<1>5. CASE WriteFailed
  <2>1. sync' = [pc |-> "idle", todo |-> sync.todo, got |-> NothingGot] /\ sync.pc = "apply"
    BY <1>0, <1>5 DEF WriteFailed
  <2> QED BY <2>1 DEF SyncMoves, NothingGot, SuccessInv
<1>6. ASSUME ~ SyncMural PROVE Goal
  <2>1. sync' = sync
    BY <1>6 DEF Next, CreatePayout, LockUser, ReadBalance, Rollback, RequestPayout,
       ExecuteMural, CommitPayout, LosePayout, CancelPayout, CheckCancel, RailCancels,
       RailRefusesCancel, RecordCancel, Webhook, FindInTransit, HandleFailure, HandleSuccess,
       ExpireOld, Environment, Earn, ChangeForm, RailSettles, RailReturns, Age, vars
  <2> QED BY <2>1 DEF SyncMoves, SuccessInv
<1> QED BY <1>1, <1>2, <1>3, <1>4, <1>5, <1>6 DEF SyncMural

\* Only Mural's second call leaves a request with a row to insert as failed.
LEMMA StepDrafts ==
  ASSUME TypeOK, [Next]_vars, NEW q \in Payouts, pc'[q] = "ready"
  PROVE  \/ pc[q] = "ready" /\ draft'[q] = draft[q]
         \/ draft'[q] = "in-transit"
         \/ pc[q] = "sent"
<1>1. ASSUME NEW p \in Payouts, CreatePayout(p)
      PROVE  \/ pc[q] = "ready" /\ draft'[q] = draft[q]
             \/ draft'[q] = "in-transit"
             \/ pc[q] = "sent"
  BY <1>1 DEF CreatePayout, LockUser, ReadBalance, Rollback, RequestPayout,
              ExecuteMural, CommitPayout, LosePayout, Step, TypeOK
<1>2. CASE Others
  BY <1>2, OthersKeepRequests DEF reqVars
<1> QED BY <1>1, <1>2, NextIsCreateOrOthers

\* Every step keeps successes on their way from released rows.
LEMMA StepSuccessInv ==
  ASSUME TypeOK, RowInv, RailInv, AgedInv, SuccessInv, [Next]_vars
  PROVE  SuccessInv'
<1>0. TypeOK' /\ RailInv'
  BY StepTypeOK, StepRailInv
<1>1. ASSUME NEW q \in Payouts, Webhooks(q), rail'[q] = "open"
      PROVE  status'[q] \notin Released
  <2>1. CASE rail[q] = "open"
    BY <1>1, <2>1, ReleasedByWebhook DEF SuccessInv
  <2>2. CASE rail[q] # "open"
    <3>1. pc[q] \in {"counted", "sent"}
      BY <1>1, <2>2, StepMovesRail DEF RailMoves
    <3> QED BY <3>1, RowsStay DEF Committed, Released
  <2> QED BY <2>1, <2>2
<1>2. ASSUME NEW n \in notices', n.kind = "success"
      PROVE  status'[n.payout] \notin Released
  <2>1. n.payout \in Payouts /\ Webhooks(n.payout)
    BY <1>0, StepKeepsMethods DEF TypeOK, Notice, RailInv
  <2>2. CASE n \in notices
    BY <1>2, <2>1, <2>2, ReleasedByWebhook DEF SuccessInv
  <2>3. CASE n \notin notices
    <3>1. n \notin hook
      BY <1>2 DEF RailInv
    <3>2. rail[n.payout] = "open"
      BY <2>3, <3>1, NoticesAreNews
    <3> QED BY <2>1, <3>2, ReleasedByWebhook DEF SuccessInv
  <2> QED BY <2>2, <2>3
<1>3. ASSUME NEW q \in Payouts, Webhooks(q), pc'[q] = "ready"
      PROVE  draft'[q] = "in-transit"
  <2>1. pc[q] # "sent"
    BY <1>3 DEF RailInv, Webhooks
  <2> QED BY <1>3, <2>1, StepDrafts DEF SuccessInv
<1>4. ASSUME NEW q \in sync'.todo
      PROVE  /\ q \in Payouts /\ ~ Webhooks(q) /\ status'[q] # "none"
             /\ rail'[q] \in {"open", "paid", "returned"} => status'[q] \notin Released
  <2>0. q \in Payouts
    BY <1>0 DEF TypeOK, Sync
  <2>1. /\ ~ Webhooks(q) /\ status[q] # "none"
        /\ rail[q] \in {"open", "paid", "returned"} => status[q] \notin Released
    <3>1. CASE q \in sync.todo
      BY <3>1 DEF SuccessInv
    <3>2. CASE SyncRead
      <4>1. Method(q) = "mural" /\ status[q] \in {"in-transit", "cancelling"}
        BY <1>4, <3>2 DEF SyncRead
      <4> QED BY <2>0, <4>1 DEF RailInv, Webhooks, Released
    <3> QED BY <1>4, <2>0, <3>1, <3>2, StepMovesSync
  <2>2. status'[q] # "none" /\ pc[q] = "done"
    BY <2>0, <2>1, RowsStay
  <2>3. ASSUME rail'[q] \in {"open", "paid", "returned"} PROVE status'[q] \notin Released
    <3>1. rail[q] \in {"open", "paid", "returned"}
      BY <2>0, <2>2, <2>3, StepMovesRail DEF RailMoves
    <3>2. status[q] \in {"in-transit", "success"}
      BY <2>0, <2>1, <3>1 DEF TypeOK, Status, Released
    <3>3. CASE q \in sync.todo
      <4>1. ~ Synced(q)
        BY <3>3 DEF Synced, SuccessInv
      <4> QED BY <2>0, <2>1, <3>1, <3>2, <4>1, ReleasedByMural
    <3>4. CASE SyncRead
      BY <3>2, <3>4 DEF SyncRead, dbVars, Released
    <3> QED BY <1>4, <2>0, <3>3, <3>4, StepMovesSync
  <2> QED BY <2>0, <2>1, <2>2, <2>3
<1>5. ASSUME NEW q \in Payouts, sync'.got[q] = "success"
      PROVE  /\ sync'.pc = "fetch"
             /\ ~ Webhooks(q) /\ rail'[q] \in {"paid", "returned"}
             /\ status'[q] \in {"in-transit", "success"}
  <2>1. /\ sync'.pc = "fetch"
        /\ ~ Webhooks(q) /\ rail[q] \in {"paid", "returned"}
        /\ status[q] \in {"in-transit", "success"}
    <3>1. CASE sync'.got[q] = sync.got[q] /\ sync'.pc = sync.pc
      BY <1>5, <3>1 DEF SuccessInv
    <3>2. CASE /\ SyncFetch(q) /\ sync'.got[q] \in {"none", PendingVerdict(rail[q])}
               /\ sync'.pc = "fetch"
      <4>1. rail[q] \in {"paid", "returned"}
        BY <1>5, <3>2 DEF PendingVerdict
      <4>2. q \in sync.todo
        BY <3>2 DEF SyncFetch
      <4> QED BY <3>2, <4>1, <4>2 DEF SuccessInv, TypeOK, Status, Released
    <3>3. sync'.got[q] # FailedVerdict(rail[q])
      BY <1>5 DEF FailedVerdict
    <3> QED BY <1>5, <3>1, <3>2, <3>3, StepMovesSync DEF SyncMoves
  <2>2. rail'[q] \in {"paid", "returned"}
    BY <2>1, RowsStay, StepMovesRail DEF RailMoves
  <2>3. ~ Synced(q)
    BY <1>5 DEF Synced, NothingGot
  <2>4. status'[q] \notin Released /\ status'[q] # "none"
    BY <2>1, <2>3, RowsStay, ReleasedByMural
  <2> QED BY <1>0, <2>1, <2>2, <2>4 DEF TypeOK, Status, Released
<1>6. ASSUME NEW q \in Payouts, sync'.got[q] # "none"
      PROVE  ~ Webhooks(q)
  <2>1. CASE sync'.got[q] = sync.got[q]
    BY <1>6, <2>1 DEF SuccessInv
  <2>2. CASE SyncFetch(q)
    BY <2>2 DEF SyncFetch, SuccessInv
  <2>3. CASE Method(q) = "mural"
    BY <2>3 DEF Webhooks
  <2> QED BY <1>6, <2>1, <2>2, <2>3, StepMovesSync DEF SyncMoves
<1>7. sync'.pc # "fetch" => sync'.todo = {}
  <2>1. CASE Payouts = {}
    BY <1>0, <2>1 DEF TypeOK, Sync
  <2>2. CASE Payouts # {}
    BY <2>2, StepMovesSync
  <2> QED BY <2>1, <2>2
<1> QED BY <1>1, <1>2, <1>3, <1>4, <1>5, <1>6, <1>7, StepKeepsMethods DEF SuccessInv, Released

\* Every step keeps the invariant of the rows...
LEMMA StepStateInv == StateInv /\ [Next]_vars => StateInv'
  BY StepTypeOK, StepLockInv, StepRowInv, StepRailInv, StepAgedInv, StepSuccessInv DEF StateInv

\* ...which holds at the start.
LEMMA InitStateInv == Init => StateInv
<1> SUFFICES ASSUME Init PROVE StateInv
  OBVIOUS
<1>1. TypeOK
  BY InitTypeOK
<1>2. LockInv
  BY DEF Init, LockInv, InFlight
<1>3. RowInv
  BY DEF Init, RowInv
<1>4. RailInv
  BY DEF Init, RailInv
<1>5. AgedInv
  BY DEF Init, AgedInv
<1>6. SuccessInv
  BY DEF Init, SuccessInv, NothingGot, Released
<1> QED BY <1>1, <1>2, <1>3, <1>4, <1>5, <1>6 DEF StateInv

------------------------------------------------------------------------------
(* The money *)

\* Settlement gives money back or pays it out; what was given back stays so.
LEMMA OthersSettle ==
  ASSUME StateInv, Others, NEW q \in Payouts
  PROVE  \/ status'[q] = status[q]
         \/ status[q] = "in-transit" /\ status'[q] = "success"
         \/ status[q] # "none" /\ status'[q] \in Released
<1> USE DEF StateInv
<1>0. [Next]_vars /\ TypeOK'
  BY StepTypeOK DEF Others, Next
<1>1. CASE status[q] = "none"
  BY <1>1, OthersKeepRows
<1>2. CASE status[q] # "none" /\ status'[q] = "success"
  <2>1. status[q] \notin Released
    <3>1. CASE Webhooks(q)
      BY <1>0, <1>2, <3>1, StepMovesStatus
         DEF StatusMoves, Committed, Cancelling, Expired, Synced, FailedBy, PaidBy, RailInv,
             RowInv, SuccessInv, Released
    <3>2. CASE ~ Webhooks(q)
      BY <1>0, <1>2, <3>2, StepMovesStatus
         DEF StatusMoves, Committed, Cancelling, Expired, Synced, FailedBy, PaidBy, RailInv,
             RowInv, SuccessInv, Released
    <3> QED BY <3>1, <3>2
  <2> QED BY <1>2, <2>1 DEF TypeOK, Status, Released
<1>3. CASE status[q] # "none" /\ status'[q] # "success"
  <2>1. status'[q] # "none" /\ (status'[q] = "in-transit" => status[q] = "in-transit")
    BY <1>0, <1>3, RowsStay
  <2> QED BY <1>0, <1>3, <2>1 DEF TypeOK, Status, Released
<1> QED BY <1>1, <1>2, <1>3

\* Nobody's earnings shrink.
LEMMA StepEarns ==
  ASSUME TypeOK, [Next]_vars, NEW u \in Users
  PROVE  earned'[u] >= earned[u] /\ earned[u] \in Nat /\ earned'[u] \in Nat
<1> USE DEF TypeOK
<1>0. earned'[u] \in Nat /\ earned[u] \in Nat
  BY StepTypeOK
<1>1. ASSUME NEW w \in Users, Earn(w) PROVE earned'[u] >= earned[u]
  BY <1>0, <1>1 DEF Earn
<1>2. ASSUME ~ \E w \in Users : Earn(w) PROVE earned' = earned
  BY <1>2 DEF Next, CreatePayout, LockUser, ReadBalance, Rollback, RequestPayout,
       ExecuteMural, CommitPayout, LosePayout, CancelPayout, CheckCancel, RailCancels,
       RailRefusesCancel, RecordCancel, Webhook, FindInTransit, HandleFailure, HandleSuccess,
       ExpireOld, SyncMural, SyncRead, SyncFetch, SyncWrite, SearchFailed, WriteFailed,
       Environment, ChangeForm, RailSettles, RailReturns, Age, vars, dbVars
<1> QED BY <1>0, <1>1, <1>2

\* While the debited rows of a user are the same or fewer, the balance does not
\* shrink.
LEMMA FewerDebits ==
  ASSUME TypeOK, [Next]_vars, NEW u \in Users, Counted(u)' \subseteq Counted(u)
  PROVE  Available(u)' >= Available(u)
<1>1. TypeOK' /\ order' = order
  BY StepTypeOK, StepKeepsOrder
<1>2. GrossOf' = GrossOf
  BY <1>1 DEF GrossOf
<1>3. Counted(u) \in SUBSET Payouts
  BY DEF Counted
<1>4. /\ IsFiniteSet(Counted(u)) /\ Sum(GrossOf, Counted(u)) \in Nat
      /\ \A p \in Counted(u) : GrossOf[p] \in Int
  BY <1>3, SumOfGross
<1>5. Sum(GrossOf, Counted(u)') \in Nat
  BY <1>3, SumOfGross
<1>6. Sum(GrossOf, Counted(u)') <= Sum(GrossOf, Counted(u))
  BY <1>4, SumMonotone
<1>7. earned'[u] >= earned[u] /\ earned[u] \in Nat /\ earned'[u] \in Nat
  BY StepEarns
<1>8. Available(u)' = earned'[u] - Sum(GrossOf, Counted(u)')
  BY <1>2 DEF Available
<1> QED BY <1>4, <1>5, <1>6, <1>7, <1>8 DEF Available

\* What a request knows of the balance it read once, and it is enough.
LEMMA StepSees ==
  ASSUME TypeOK, [Next]_vars, NEW q \in Payouts
  PROVE  /\ pc'[q] \in {"counted", "sent", "ready"} =>
              \/ seen'[q].balance = Available(User(q)) /\ pc'[q] = "counted"
              \/ seen'[q].balance = seen[q].balance /\ pc[q] \in {"counted", "sent", "ready"}
         /\ pc'[q] \in {"sent", "ready"} =>
              \/ seen'[q].balance = seen[q].balance /\ pc[q] \in {"sent", "ready"}
              \/ order[q].gross <= seen'[q].balance
<1> DEFINE Known  == pc'[q] \in {"counted", "sent", "ready"} =>
              \/ seen'[q].balance = Available(User(q)) /\ pc'[q] = "counted"
              \/ seen'[q].balance = seen[q].balance /\ pc[q] \in {"counted", "sent", "ready"}
           Enough == pc'[q] \in {"sent", "ready"} =>
              \/ seen'[q].balance = seen[q].balance /\ pc[q] \in {"sent", "ready"}
              \/ order[q].gross <= seen'[q].balance
<1> USE DEF TypeOK, Step
<1>1. ASSUME NEW p \in Payouts, ReadBalance(p) PROVE Known /\ Enough
  BY <1>1 DEF ReadBalance
<1>2. ASSUME NEW p \in Payouts, RequestPayout(p) PROVE Known /\ Enough
  <2>1. \A r \in Payouts : seen'[r].balance = seen[r].balance
    BY <1>2 DEF RequestPayout
  <2>2. pc[p] = "counted" /\ order[p].gross <= seen[p].balance
    BY <1>2 DEF RequestPayout, Admissible
  <2>3. \A r \in Payouts \ {p} : pc'[r] = pc[r]
    BY <1>2 DEF RequestPayout
  <2> QED BY <2>1, <2>2, <2>3
<1>3. ASSUME NEW p \in Payouts,
             LockUser(p) \/ Rollback(p) \/ ExecuteMural(p) \/ CommitPayout(p) \/ LosePayout(p)
      PROVE  Known /\ Enough
  <2>1. seen' = seen
    BY <1>3 DEF LockUser, Rollback, ExecuteMural, CommitPayout, LosePayout
  <2>2. pc'[q] = pc[q] \/ pc'[q] \in {"locked", "done"} \/ (pc[q] = "sent" /\ pc'[q] = "ready")
    BY <1>3 DEF LockUser, Rollback, ExecuteMural, CommitPayout, LosePayout
  <2> QED BY <2>1, <2>2
<1>4. CASE Others
  BY <1>4, OthersKeepRequests DEF reqVars
<1> QED BY <1>1, <1>2, <1>3, <1>4, NextIsCreateOrOthers DEF CreatePayout

\* Only the commit of a request of the user's own adds to what is debited.
LEMMA StepCounts ==
  ASSUME StateInv, [Next]_vars, NEW u \in Users
  PROVE  \/ Counted(u)' \subseteq Counted(u)
         \/ \E p \in Payouts : CommitPayout(p) /\ User(p) = u
<1>1. \A p \in Payouts : User(p)' = User(p)
  BY StepKeepsMethods
<1>2. ASSUME NEW p \in Payouts, CreatePayout(p), ~ CommitPayout(p)
      PROVE  Counted(u)' \subseteq Counted(u)
  <2>1. status' = status
    BY <1>2 DEF CreatePayout, LockUser, ReadBalance, Rollback, RequestPayout, ExecuteMural,
                LosePayout, dbVars
  <2> QED BY <1>1, <2>1 DEF Counted
<1>3. ASSUME NEW p \in Payouts, CommitPayout(p), User(p) # u
      PROVE  Counted(u)' \subseteq Counted(u)
  <2>1. \A q \in Payouts \ {p} : status'[q] = status[q]
    BY <1>3 DEF CommitPayout, StateInv, TypeOK
  <2> QED BY <1>1, <1>3, <2>1 DEF Counted
<1>4. ASSUME Others PROVE Counted(u)' \subseteq Counted(u)
  <2>1. \A q \in Payouts : status'[q] \in {"success", "in-transit"}
                              => status[q] \in {"success", "in-transit"}
    BY <1>4, OthersSettle DEF Released
  <2> QED BY <1>1, <2>1 DEF Counted
<1> QED BY <1>2, <1>3, <1>4, NextIsCreateOrOthers

\* The commit of p debits the gross amount of p at most.
LEMMA CommitCosts ==
  ASSUME StateInv, NEW p \in Payouts, CommitPayout(p), NEW u \in Users, User(p) = u
  PROVE  Available(u)' >= Available(u) - order[p].gross
<1>0. TypeOK /\ [Next]_vars
  BY DEF StateInv, Next, CreatePayout
<1>1. TypeOK' /\ order' = order /\ GrossOf' = GrossOf
  BY <1>0, StepTypeOK, StepKeepsOrder DEF GrossOf
<1>2. Counted(u) \in SUBSET Payouts /\ Counted(u) \cup {p} \in SUBSET Payouts
  BY DEF Counted
<1>3. Counted(u)' \in SUBSET (Counted(u) \cup {p})
  <2>1. \A q \in Payouts \ {p} : status'[q] = status[q]
    BY <1>0 DEF CommitPayout, TypeOK
  <2>2. \A q \in Payouts : User(q)' = User(q)
    BY <1>1 DEF User
  <2> QED BY <2>1, <2>2 DEF Counted, User
<1>4. /\ \A q \in Payouts : GrossOf[q] \in Nat /\ GrossOf[q] = order[q].gross
      /\ IsFiniteSet(Counted(u)) /\ Sum(GrossOf, Counted(u)) \in Nat
      /\ IsFiniteSet(Counted(u) \cup {p}) /\ Sum(GrossOf, Counted(u) \cup {p}) \in Nat
  BY <1>0, <1>2, SumOfGross
<1>5. Sum(GrossOf, Counted(u) \cup {p}) <= Sum(GrossOf, Counted(u)) + GrossOf[p]
  <2>1. \A q \in Counted(u) \cup {p} : GrossOf[q] \in Nat
    BY <1>2, <1>4
  <2> QED BY <1>4, <2>1, SumAdd
<1>6. Counted(u)' \in SUBSET Payouts
  BY <1>2, <1>3
<1>7. Sum(GrossOf, Counted(u)') \in Nat
  BY <1>0, <1>6, SumOfGross
<1>8. Sum(GrossOf, Counted(u)') <= Sum(GrossOf, Counted(u) \cup {p})
  <2>1. \A q \in Counted(u) \cup {p} : GrossOf[q] \in Int
    BY <1>2, <1>4
  <2> QED BY <1>3, <1>4, <2>1, SumMonotone
<1>9. earned'[u] = earned[u] /\ earned[u] \in Nat
  BY <1>0 DEF CommitPayout, TypeOK
<1>10. Available(u)' = earned'[u] - Sum(GrossOf, Counted(u)')
  BY <1>1 DEF Available
<1>11. Available(u) = earned[u] - Sum(GrossOf, Counted(u))
  BY DEF Available
<1> QED BY <1>4, <1>5, <1>7, <1>8, <1>9, <1>10, <1>11

\* The balances before and after, user by user, with what they are compared to.
LEMMA BalancesTyped ==
  ASSUME TypeOK, [Next]_vars, NEW u \in Users
  PROVE  Available(u) \in Int /\ Available(u)' \in Int
<1>1. TypeOK'
  BY StepTypeOK
<1>2. Available(u) \in Int
  BY BalanceType
<1>3. Counted(u)' \in SUBSET Payouts /\ GrossOf' = GrossOf
  BY StepKeepsOrder DEF Counted, GrossOf
<1>4. Sum(GrossOf, Counted(u)') \in Nat
  BY <1>3, SumOfGross
<1>5. Available(u)' = earned'[u] - Sum(GrossOf, Counted(u)')
  BY <1>3 DEF Available
<1> QED BY <1>1, <1>2, <1>4, <1>5 DEF TypeOK

\* While a request commits, no other of its user is under way.
LEMMA CommitsAlone ==
  ASSUME StateInv, NEW p \in Payouts, CommitPayout(p),
         NEW q \in Payouts, User(q) = User(p), pc'[q] \in {"counted", "sent", "ready"}
  PROVE  FALSE
<1>0. pc[p] = "ready" /\ pc'[p] = "done"
  BY DEF CommitPayout, Step, StateInv, TypeOK
<1>1. q # p
  BY <1>0
<1>2. pc[q] \in {"counted", "sent", "ready"}
  BY <1>1 DEF CommitPayout, Step, StateInv, TypeOK
<1> QED BY <1>0, <1>1, <1>2 DEF StateInv, LockInv, InFlight

\* What a request under way has read is still there after the step.
LEMMA StepFundsInv ==
  ASSUME StateInv, FundsInv, [Next]_vars
  PROVE  FundsInv'
<1>0. TypeOK /\ TypeOK' /\ StateInv'
  BY StepStateInv DEF StateInv
<1>u. \A q \in Payouts : User(q) \in Users /\ User(q)' = User(q)
  BY <1>0, OrderType, StepKeepsMethods DEF TypeOK
<1>1. ASSUME NEW u \in Users, Counted(u)' \subseteq Counted(u)
      PROVE  /\ Available(u)' >= 0
             /\ \A q \in Payouts :
                  User(q) = u /\ pc'[q] \in {"counted", "sent", "ready"}
                    => seen'[q].balance <= Available(u)'
  <2>1. Available(u)' >= Available(u) /\ Available(u) \in Int /\ Available(u)' \in Int
    BY <1>0, <1>1, FewerDebits, BalancesTyped
  <2>2. Available(u)' >= 0
    BY <2>1 DEF FundsInv
  <2>3. ASSUME NEW q \in Payouts, User(q) = u, pc'[q] \in {"counted", "sent", "ready"}
        PROVE  seen'[q].balance <= Available(u)'
    <3>1. seen'[q].balance <= Available(u)
      BY <1>0, <2>1, <2>3, StepSees DEF FundsInv
    <3>2. seen'[q].balance \in Int
      BY <1>0 DEF TypeOK
    <3> QED BY <2>1, <3>1, <3>2
  <2> QED BY <2>2, <2>3
<1>2. ASSUME NEW u \in Users, NEW p \in Payouts, CommitPayout(p), User(p) = u
      PROVE  /\ Available(u)' >= 0
             /\ \A q \in Payouts :
                  User(q) = u => pc'[q] \notin {"counted", "sent", "ready"}
  <2>1. pc[p] = "ready" /\ pc'[p] = "done"
    BY <1>0, <1>2 DEF CommitPayout, Step, TypeOK
  <2>2. seen[p].balance <= Available(u) /\ order[p].gross <= seen[p].balance
    BY <1>2, <2>1 DEF FundsInv
  <2>3. Available(u)' >= Available(u) - order[p].gross
    BY <1>2, CommitCosts
  <2>4. /\ Available(u) \in Int /\ Available(u)' \in Int
        /\ seen[p].balance \in Int /\ order[p].gross \in Int
    BY <1>0, OrderType, BalancesTyped DEF TypeOK
  <2>5. Available(u)' >= 0
    BY <2>2, <2>3, <2>4
  <2>6. \A q \in Payouts :
          User(q) = u => pc'[q] \notin {"counted", "sent", "ready"}
    BY <1>2, CommitsAlone
  <2> QED BY <2>5, <2>6
<1>3. \A u \in Users : Available(u)' >= 0
  BY <1>0, <1>1, <1>2, StepCounts
<1>4. ASSUME NEW q \in Payouts, pc'[q] \in {"counted", "sent", "ready"}
      PROVE  seen'[q].balance <= Available(User(q))'
  <2> DEFINE u == User(q)
  <2>1. Counted(u)' \subseteq Counted(u)
    BY <1>0, <1>2, <1>4, <1>u, StepCounts
  <2>2. u \in Users
    BY <1>u
  <2> QED BY <1>1, <1>4, <1>u, <2>1, <2>2
<1>5. ASSUME NEW q \in Payouts, pc'[q] \in {"sent", "ready"}
      PROVE  order'[q].gross <= seen'[q].balance
  BY <1>0, <1>5, StepSees, StepKeepsOrder DEF FundsInv
<1> QED BY <1>3, <1>4, <1>5 DEF FundsInv

\* The invariant of the balances holds at the start.
LEMMA InitFundsInv == Init => FundsInv
<1> SUFFICES ASSUME Init PROVE FundsInv
  OBVIOUS
<1>1. \A u \in Users : Available(u) >= 0
  <2>1. \A u \in Users : Counted(u) = {} /\ earned[u] = 0
    BY DEF Init, Counted
  <2>2. Sum(GrossOf, {}) = 0
    BY SumEmpty
  <2> QED BY <2>1, <2>2 DEF Available
<1>2. \A p \in Payouts : pc[p] = "idle"
  BY DEF Init
<1> QED BY <1>1, <1>2 DEF FundsInv

\* Every step keeps the whole invariant.
LEMMA StepIInv == IInv /\ [Next]_vars => IInv'
  BY StepStateInv, StepFundsInv DEF IInv

\* The invariant behind the rest holds in every reachable state.
THEOREM InvariantHolds == Spec => []IInv
  BY InitStateInv, InitFundsInv, StepIInv, PTL DEF Spec, IInv

\* Nobody withdraws more than they earned, whatever fails (create_payout locks
\* the user, reads the balance elsewhere and inserts what it read about).
THEOREM NoOverdraft == Spec => []NeverOverdrawn
<1>1. IInv => NeverOverdrawn
  BY DEF IInv, FundsInv, NeverOverdrawn
<1> QED BY <1>1, InvariantHolds, PTL

------------------------------------------------------------------------------
(* Withdrawals implement the ledger *)

\* A row that counts is money that the ledger has debited.
LEMMA LedgerBalance ==
  ASSUME TypeOK, NEW u \in Users
  PROVE  L!Balance(u) = Available(u)
<1>1. \A p \in Payouts : AccountOf(status[p]) \in {"held", "paid"}
                          <=> status[p] \in {"success", "in-transit"}
  BY DEF AccountOf, TypeOK, Status
<1>2. L!DebitedTo(u) = Counted(u)
  BY <1>1 DEF L!DebitedTo, L!Debit, Counted
<1>3. L!Gross = GrossOf
  BY DEF L!Gross, GrossOf
<1>4. L!Sum(GrossOf, Counted(u)) = Sum(GrossOf, Counted(u))
  BY DEF L!Sum, L!Cents, Sum, Cents, L!Cardinality, Cardinality
<1> QED BY <1>2, <1>3, <1>4 DEF L!Balance, Available

\* The initial states are the ledger's.
LEMMA InitLedger == Init => L!LedgerInit
<1> SUFFICES ASSUME Init PROVE L!LedgerInit
  OBVIOUS
<1>1. \A p \in Payouts : User(p) \in Users /\ order[p].gross \in Nat
  BY InitTypeOK, OrderType DEF TypeOK
<1>2. \A p \in Payouts : AccountOf(status[p]) = "none"
  BY DEF Init, AccountOf
<1>3. earned \in [Users -> Nat]
  BY DEF Init
<1> QED BY <1>1, <1>2, <1>3 DEF L!LedgerInit

\* Earnings come in by themselves.
LEMMA EarnOnly ==
  ASSUME [Next]_vars
  PROVE  earned' = earned \/ status' = status
<1>1. ASSUME NEW w \in Users, Earn(w) PROVE status' = status
  BY <1>1 DEF Earn
<1>2. ASSUME ~ \E w \in Users : Earn(w) PROVE earned' = earned
  BY <1>2 DEF Next, CreatePayout, LockUser, ReadBalance, Rollback, RequestPayout,
       ExecuteMural, CommitPayout, LosePayout, CancelPayout, CheckCancel, RailCancels,
       RailRefusesCancel, RecordCancel, Webhook, FindInTransit, HandleFailure, HandleSuccess,
       ExpireOld, SyncMural, SyncRead, SyncFetch, SyncWrite, SearchFailed, WriteFailed,
       Environment, ChangeForm, RailSettles, RailReturns, Age, vars, dbVars
<1> QED BY <1>1, <1>2

\* Every step is a step of the ledger, or none.
LEMMA StepLedger ==
  ASSUME IInv, [Next]_vars
  PROVE  [L!LedgerNext]_(L!ledgerVars)
<1> DEFINE account == [p \in Payouts |-> AccountOf(status[p])]
           ledgerOrder == [p \in Payouts |-> [user |-> User(p), gross |-> order[p].gross]]
<1>0. TypeOK /\ TypeOK' /\ StateInv /\ order' = order /\ ledgerOrder' = ledgerOrder
  BY StepTypeOK, StepKeepsOrder DEF IInv, StateInv, User
<1>a. \A p \in Payouts : AccountOf(status'[p]) \in {"none", "released", "held", "paid"}
  BY <1>0 DEF AccountOf, TypeOK, Status
<1>1. CASE status' = status
  <2>1. \A u \in Users : earned'[u] >= earned[u]
    BY <1>0, StepEarns
  <2>2. account' = account /\ earned' \in [Users -> Nat]
    BY <1>0, <1>1 DEF TypeOK, AccountOf
  <2>3. L!Deposit
    BY <1>0, <2>1, <2>2 DEF L!Deposit
  <2> QED BY <2>3 DEF L!LedgerNext
<1>2. ASSUME NEW p \in Payouts, CommitPayout(p), draft[p] = "in-transit"
      PROVE  L!Hold(p)
  <2>1. status[p] = "none" /\ pc[p] = "ready" /\ earned' = earned
    BY <1>0, <1>2 DEF CommitPayout, Step, StateInv, RowInv
  <2>2. status' = [status EXCEPT ![p] = "in-transit"]
    BY <1>2 DEF CommitPayout
  <2>3. account[p] = "none"
    BY <2>1 DEF AccountOf
  <2>4. account' = [account EXCEPT ![p] = "held"]
    BY <1>0, <2>2 DEF AccountOf, TypeOK
  <2>5. User(p) \in Users /\ order[p].gross \in Int
    BY <1>0, OrderType DEF TypeOK
  <2>6. order[p].gross <= Available(User(p))
    <3>1. seen[p].balance <= Available(User(p)) /\ order[p].gross <= seen[p].balance
      BY <2>1 DEF IInv, FundsInv
    <3>2. seen[p].balance \in Int /\ Available(User(p)) \in Int
      BY <1>0, <2>5, BalanceType DEF TypeOK
    <3> QED BY <2>5, <3>1, <3>2
  <2>7. ledgerOrder[p].gross <= L!Balance(ledgerOrder[p].user)
    BY <1>0, <2>5, <2>6, LedgerBalance
  <2> QED BY <1>0, <2>1, <2>3, <2>4, <2>7 DEF L!Hold
<1> DEFINE Settling(q) == \/ status'[q] = status[q]
                          \/ status[q] = "in-transit" /\ status'[q] = "success"
                          \/ status'[q] \in Released
<1>3. ASSUME earned' = earned, \A q \in Payouts : Settling(q)
      PROVE  L!Settle
  <2>1. \A q \in Payouts : \/ account'[q] = account[q]
                           \/ account[q] = "held" /\ account'[q] = "paid"
                           \/ account'[q] = "released"
    BY <1>3 DEF AccountOf, Released
  <2>2. account' \in [Payouts -> {"none", "released", "held", "paid"}]
    BY <1>a
  <2> QED BY <1>0, <1>3, <2>1, <2>2 DEF L!Settle, L!Account, L!Debit
<1>4. ASSUME NEW p \in Payouts, CommitPayout(p), draft[p] # "in-transit"
      PROVE  L!Settle
  <2>1. /\ earned' = earned /\ status'[p] = "failed"
        /\ \A q \in Payouts \ {p} : status'[q] = status[q]
    BY <1>0, <1>4 DEF CommitPayout, TypeOK
  <2>2. \A q \in Payouts : Settling(q)
    BY <2>1 DEF Released
  <2> HIDE DEF Settling
  <2> QED BY <1>3, <2>1, <2>2
<1>5. ASSUME NEW p \in Payouts, CreatePayout(p), ~ CommitPayout(p)
      PROVE  status' = status
  BY <1>5 DEF CreatePayout, LockUser, ReadBalance, Rollback, RequestPayout, ExecuteMural,
              LosePayout, dbVars
<1>6. ASSUME Others, status' # status
      PROVE  L!Settle
  <2>1. earned' = earned
    BY <1>6, EarnOnly
  <2>2. \A q \in Payouts : Settling(q)
    BY <1>0, <1>6, OthersSettle
  <2> HIDE DEF Settling
  <2> QED BY <1>3, <2>1, <2>2
<1> QED BY <1>1, <1>2, <1>4, <1>5, <1>6, NextIsCreateOrOthers DEF L!LedgerNext

\* Whatever the rails, the failures and the interleaving: a withdrawal is debited
\* once, out of money that is there, and what was given back is never debited
\* again (create_payout, the webhooks, both Mural syncs, the 30 days' job).
THEOREM Refinement == Spec => ImplementsLedger
<1>1. Init => L!LedgerInit
  BY InitLedger
<1>2. IInv /\ [Next]_vars => [L!LedgerNext]_(L!ledgerVars)
  BY StepLedger
<1> QED BY <1>1, <1>2, InvariantHolds, PTL DEF Spec, ImplementsLedger, L!LedgerSpec
------------------------------------------------------------------------------
(* The tax threshold *)

\* What a request has read of the year's withdrawals is still all there is when it
\* commits, and what is counted is not negative.
YtdInv ==
  \A p \in Payouts :
    /\ pc[p] \in {"counted", "sent", "ready"} => WithdrawnYtd(User(p)) <= seen[p].ytd
    /\ pc[p] \in {"sent", "ready"} => seen[p].signed \/ seen[p].ytd + Net(p) < Threshold
    /\ pc[p] \in {"sent", "ready"} \/ status[p] # "none" => Net(p) >= 0

\* What a request knows of the year it read once, and it leaves room for it.
LEMMA StepSeesYtd ==
  ASSUME TypeOK, [Next]_vars, NEW q \in Payouts
  PROVE  /\ pc'[q] \in {"counted", "sent", "ready"} =>
              \/ seen'[q].ytd = WithdrawnYtd(User(q)) /\ pc'[q] = "counted"
              \/ seen'[q].ytd = seen[q].ytd /\ pc[q] \in {"counted", "sent", "ready"}
         /\ pc'[q] \in {"sent", "ready"} =>
              \/ seen'[q] = seen[q] /\ pc[q] \in {"sent", "ready"}
              \/ /\ Net(q) >= 0
                 /\ seen'[q].signed \/ seen'[q].ytd + Net(q) < Threshold
<1> DEFINE Known  == pc'[q] \in {"counted", "sent", "ready"} =>
              \/ seen'[q].ytd = WithdrawnYtd(User(q)) /\ pc'[q] = "counted"
              \/ seen'[q].ytd = seen[q].ytd /\ pc[q] \in {"counted", "sent", "ready"}
           Room   == pc'[q] \in {"sent", "ready"} =>
              \/ seen'[q] = seen[q] /\ pc[q] \in {"sent", "ready"}
              \/ /\ Net(q) >= 0
                 /\ seen'[q].signed \/ seen'[q].ytd + Net(q) < Threshold
<1> USE DEF TypeOK, Step
<1>1. ASSUME NEW p \in Payouts, ReadBalance(p) PROVE Known /\ Room
  BY <1>1 DEF ReadBalance
<1>2. ASSUME NEW p \in Payouts, RequestPayout(p) PROVE Known /\ Room
  <2>1. \A r \in Payouts : seen'[r].ytd = seen[r].ytd
    BY <1>2 DEF RequestPayout
  <2>2. pc[p] = "counted" /\ Net(p) >= 0
    BY <1>2 DEF RequestPayout
  <2>3. \A r \in Payouts \ {p} : pc'[r] = pc[r] /\ seen'[r] = seen[r]
    BY <1>2 DEF RequestPayout
  <2>4. seen'[p].signed = formOk[User(p)]
    BY <1>2 DEF RequestPayout
  <2>5. formOk[User(p)] \/ seen[p].ytd + Net(p) < Threshold
    BY <1>2 DEF RequestPayout, Admissible
  <2>6. seen'[p].signed \/ seen'[p].ytd + Net(p) < Threshold
    BY <2>1, <2>4, <2>5, Zenon
  <2> QED BY <2>1, <2>2, <2>3, <2>6
<1>3. ASSUME NEW p \in Payouts,
             LockUser(p) \/ Rollback(p) \/ ExecuteMural(p) \/ CommitPayout(p) \/ LosePayout(p)
      PROVE  Known /\ Room
  <2>1. seen' = seen
    BY <1>3 DEF LockUser, Rollback, ExecuteMural, CommitPayout, LosePayout
  <2>2. pc'[q] = pc[q] \/ pc'[q] \in {"locked", "done"} \/ (pc[q] = "sent" /\ pc'[q] = "ready")
    BY <1>3 DEF LockUser, Rollback, ExecuteMural, CommitPayout, LosePayout
  <2> QED BY <2>1, <2>2
<1>4. CASE Others
  BY <1>4, OthersKeepRequests DEF reqVars
<1> QED BY <1>1, <1>2, <1>3, <1>4, NextIsCreateOrOthers DEF CreatePayout

\* The year's withdrawals before and after a step, as sums of the same amounts.
LEMMA YtdTyped ==
  ASSUME TypeOK, [Next]_vars, NEW u \in Users
  PROVE  /\ WithdrawnYtd(u) = Sum(NetOf, Counted(u)) /\ WithdrawnYtd(u) \in Nat
         /\ WithdrawnYtd(u)' = Sum(NetOf, Counted(u)') /\ WithdrawnYtd(u)' \in Nat
         /\ \A p \in Payouts : NetOf[p] = Net(p) /\ Net(p) \in Int /\ Net(p)' = Net(p)
<1>1. order' = order /\ NetOf' = NetOf
  BY StepKeepsOrder DEF NetOf, Net, Method
<1>2. \A p \in Payouts : NetOf[p] = Net(p) /\ Net(p) \in Int /\ Net(p)' = Net(p)
  BY <1>1, OrderType DEF TypeOK, NetOf, Net, Method
<1>3. WithdrawnYtd(u) \in Nat
  BY BalanceType
<1>4. Counted(u)' \in SUBSET Payouts /\ IsFiniteSet(Counted(u)')
  <2>1. Counted(u)' \in SUBSET Payouts
    BY DEF Counted
  <2> QED BY <2>1, SumOfGross
<1>5. Sum(NetOf, Counted(u)') \in Nat
  BY <1>2, <1>4, SumType
<1> QED BY <1>1, <1>2, <1>3, <1>5 DEF WithdrawnYtd

\* While the debited rows of a user are the same or fewer, so is what the user
\* has withdrawn.
LEMMA FewerYtd ==
  ASSUME TypeOK, [Next]_vars, NEW u \in Users, Counted(u)' \subseteq Counted(u)
  PROVE  WithdrawnYtd(u)' <= WithdrawnYtd(u)
<1>1. Counted(u) \in SUBSET Payouts
  BY DEF Counted
<1>2. IsFiniteSet(Counted(u)) /\ \A p \in Counted(u) : NetOf[p] \in Int
  BY <1>1, SumOfGross, YtdTyped
<1>3. Sum(NetOf, Counted(u)') <= Sum(NetOf, Counted(u))
  BY <1>2, SumMonotone
<1> QED BY <1>3, YtdTyped

\* The commit of p adds the net amount of p at most.
LEMMA CommitYtd ==
  ASSUME StateInv, YtdInv, NEW p \in Payouts, CommitPayout(p), NEW u \in Users, User(p) = u
  PROVE  WithdrawnYtd(u)' <= WithdrawnYtd(u) + Net(p)
<1>0. TypeOK /\ [Next]_vars /\ pc[p] = "ready"
  BY DEF StateInv, Next, CreatePayout, CommitPayout, Step
<1>1. /\ WithdrawnYtd(u) = Sum(NetOf, Counted(u)) /\ WithdrawnYtd(u) \in Nat
      /\ WithdrawnYtd(u)' = Sum(NetOf, Counted(u)') /\ WithdrawnYtd(u)' \in Nat
      /\ \A q \in Payouts : NetOf[q] = Net(q) /\ Net(q) \in Int
  BY <1>0, YtdTyped
<1>2. Counted(u) \cup {p} \in SUBSET Payouts
  BY DEF Counted
<1>3. Counted(u)' \in SUBSET (Counted(u) \cup {p})
  <2>1. \A q \in Payouts \ {p} : status'[q] = status[q]
    BY <1>0 DEF CommitPayout, TypeOK
  <2>2. \A q \in Payouts : User(q)' = User(q)
    BY <1>0, StepKeepsMethods
  <2> QED BY <2>1, <2>2 DEF Counted
<1>4. \A q \in Counted(u) \cup {p} : NetOf[q] \in Nat
  <2>1. \A q \in Counted(u) \cup {p} : q \in Payouts /\ (q = p \/ status[q] # "none")
    BY DEF Counted
  <2>2. \A q \in Counted(u) \cup {p} : Net(q) >= 0
    BY <1>0, <2>1 DEF YtdInv
  <2> QED BY <1>1, <2>1, <2>2
<1>5. IsFiniteSet(Counted(u)) /\ IsFiniteSet(Counted(u) \cup {p})
  BY <1>0, <1>2, SumOfGross, FS_Subset
<1>6. Sum(NetOf, Counted(u) \cup {p}) <= Sum(NetOf, Counted(u)) + NetOf[p]
  BY <1>4, <1>5, SumAdd
<1>7. Sum(NetOf, Counted(u)') <= Sum(NetOf, Counted(u) \cup {p})
  <2>1. \A q \in Counted(u) \cup {p} : NetOf[q] \in Int
    BY <1>4
  <2> QED BY <1>3, <1>5, <2>1, SumMonotone
<1>8. Sum(NetOf, Counted(u) \cup {p}) \in Nat
  <2>1. \A q \in Counted(u) \cup {p} : NetOf[q] \in Int
    BY <1>4
  <2> QED BY <1>5, <2>1, SumType
<1> QED BY <1>1, <1>6, <1>7, <1>8

\* Every step keeps the sums of the year.
LEMMA StepYtdInv ==
  ASSUME StateInv, YtdInv, [Next]_vars
  PROVE  YtdInv'
<1>0. TypeOK /\ TypeOK' /\ RowInv
  BY StepStateInv DEF StateInv
<1>u. \A q \in Payouts : User(q) \in Users /\ User(q)' = User(q) /\ Net(q)' = Net(q)
                         /\ Net(q) \in Int
  <2>1. \A q \in Payouts : User(q) \in Users /\ User(q)' = User(q)
    BY <1>0, OrderType, StepKeepsMethods DEF TypeOK
  <2> QED BY <1>0, <2>1, YtdTyped
<1>1. ASSUME NEW u \in Users, NEW q \in Payouts, User(q) = u,
             pc'[q] \in {"counted", "sent", "ready"}
      PROVE  WithdrawnYtd(u)' <= seen'[q].ytd
  <2>1. Counted(u)' \subseteq Counted(u)
    <3>1. ASSUME NEW p \in Payouts, CommitPayout(p), User(p) = u PROVE FALSE
      BY <1>1, <3>1, CommitsAlone
    <3> QED BY <3>1, StepCounts
  <2>2. WithdrawnYtd(u)' <= WithdrawnYtd(u)
    BY <1>0, <2>1, FewerYtd
  <2>3. WithdrawnYtd(u) \in Nat /\ WithdrawnYtd(u)' \in Nat /\ seen'[q].ytd \in Nat
    <3>1. seen'[q].ytd \in Nat
      BY <1>0 DEF TypeOK
    <3> QED BY <1>0, <3>1, YtdTyped
  <2>4. WithdrawnYtd(u) <= seen'[q].ytd
    <3>1. \/ seen'[q].ytd = WithdrawnYtd(u)
          \/ seen'[q].ytd = seen[q].ytd /\ pc[q] \in {"counted", "sent", "ready"}
      BY <1>0, <1>1, StepSeesYtd
    <3> QED BY <1>1, <2>3, <3>1 DEF YtdInv
  <2> QED BY <2>2, <2>3, <2>4
<1>2. ASSUME NEW q \in Payouts, pc'[q] \in {"sent", "ready"}
      PROVE  seen'[q].signed \/ seen'[q].ytd + Net(q) < Threshold
  BY <1>0, <1>2, StepSeesYtd DEF YtdInv
<1>3. ASSUME NEW q \in Payouts, pc'[q] \in {"sent", "ready"} \/ status'[q] # "none"
      PROVE  Net(q) >= 0
  <2>1. CASE pc'[q] \in {"sent", "ready"}
    BY <1>0, <2>1, StepSeesYtd DEF YtdInv
  <2>2. CASE status'[q] # "none"
    <3>1. status[q] # "none" \/ pc[q] = "ready"
      BY <1>0, <2>2, RowsStay DEF Committed
    <3> QED BY <3>1 DEF YtdInv
  <2> QED BY <1>3, <2>1, <2>2
<1> QED BY <1>1, <1>2, <1>3, <1>u DEF YtdInv

\* They hold at the start.
LEMMA InitYtdInv == Init => YtdInv
  BY DEF Init, YtdInv

\* A request that is let through without a signed form is counted with the others
\* of its year, whatever the interleaving of requests, settlements and forms
\* (create_payout: withdrawn_ytd + amount_usd >= threshold is refused).
THEOREM ThresholdHolds == Spec => UnsignedStayBelowThreshold
<1> DEFINE Below ==
       \A p \in Payouts :
         (status[p] = "none" /\ status'[p] = "in-transit" /\ ~ seen[p].signed)
           => WithdrawnYtd(User(p))' < Threshold
<1>1. ASSUME StateInv, YtdInv, [Next]_vars PROVE Below
  <2> SUFFICES ASSUME NEW p \in Payouts,
                      status[p] = "none", status'[p] = "in-transit", ~ seen[p].signed
               PROVE  WithdrawnYtd(User(p))' < Threshold
    OBVIOUS
  <2>0. TypeOK /\ RowInv
    BY <1>1 DEF StateInv
  <2>1. CommitPayout(p)
    <3>1. ~ Others
      BY <2>0, OthersKeepRows
    <3>2. PICK q \in Payouts : CreatePayout(q)
      BY <1>1, <3>1, NextIsCreateOrOthers
    <3>3. CommitPayout(q)
      BY <3>2 DEF CreatePayout, LockUser, ReadBalance, Rollback, RequestPayout,
                  ExecuteMural, LosePayout, dbVars
    <3> QED BY <2>0, <3>3 DEF CommitPayout, TypeOK
  <2>2. ASSUME NEW u \in Users, User(p) = u
        PROVE  WithdrawnYtd(u)' < Threshold
    <3>1. pc[p] = "ready"
      BY <2>1 DEF CommitPayout, Step
    <3>2. WithdrawnYtd(u) <= seen[p].ytd /\ seen[p].ytd + Net(p) < Threshold
      BY <1>1, <2>2, <3>1 DEF YtdInv
    <3>3. WithdrawnYtd(u)' <= WithdrawnYtd(u) + Net(p)
      BY <1>1, <2>1, <2>2, CommitYtd
    <3>4. seen[p].ytd \in Nat /\ Threshold \in Nat
      BY <2>0, ConstantsAssumption DEF TypeOK
    <3>5. WithdrawnYtd(u) \in Nat /\ WithdrawnYtd(u)' \in Nat /\ Net(p) \in Int
      BY <1>1, <2>0, YtdTyped
    <3> QED BY <3>2, <3>3, <3>4, <3>5
  <2>3. User(p) \in Users /\ User(p)' = User(p)
    BY <1>1, <2>0, OrderType, StepKeepsMethods DEF TypeOK
  <2> QED BY <2>2, <2>3
<1>2. IInv => StateInv
  BY DEF IInv
<1>3. StateInv /\ YtdInv /\ [Next]_vars => YtdInv' /\ [Below]_vars
  BY <1>1, StepYtdInv
<1>4. Spec => []YtdInv
  BY <1>2, <1>3, InitYtdInv, InvariantHolds, PTL DEF Spec
<1> QED
  BY <1>2, <1>3, <1>4, InvariantHolds, PTL DEF Spec, UnsignedStayBelowThreshold
------------------------------------------------------------------------------
(* What is paid out is debited, unless a failure of its own rail comes between *)

\* The failures that can part a payout's row from what its rail did.
Harm(p) == IF Webhooks(p) THEN {"lookup", "early", "crash"} ELSE {"reply", "crash"}

Unharmed(p) == Faults \cap Harm(p) = {}

\* No row says that money was given back that a rail has paid out, or still may,
\* and a success that no row shows is still to come.
PaidInv ==
  /\ \A p \in Payouts : Unharmed(p) /\ pc[p] = "done" /\ rail[p] # "none" => status[p] # "none"
  /\ \A p \in Payouts : Unharmed(p) /\ Webhooks(p) /\ rail[p] # "none" => linked[p]
  /\ \A p \in Payouts : pc[p] = "sent" => draft[p] = "in-transit"
  /\ \A p \in Payouts : Unharmed(p) /\ pc[p] = "ready" /\ draft[p] = "failed" =>
       rail[p] \notin {"open", "paid"}
  /\ \A p \in Payouts : Unharmed(p) /\ rail[p] \in {"open", "paid"} => status[p] \notin Released
  /\ \A p \in Payouts : sync.got[p] \in {"cancelled", "failed"} =>
       rail[p] \in {"cancelled", "failed", "returned"}
  /\ \A p \in Payouts :
       Unharmed(p) /\ Webhooks(p) /\ rail[p] = "paid" /\ status[p] # "success" =>
         [payout |-> p, kind |-> "success"] \in notices

\* What an unharmed payout may count on.
LEMMA UnharmedMeans ==
  ASSUME NEW p, Unharmed(p)
  PROVE  /\ "crash" \notin Faults
         /\ Webhooks(p) => "lookup" \notin Faults /\ "early" \notin Faults
         /\ ~ Webhooks(p) => "reply" \notin Faults
  BY DEF Unharmed, Harm

\* A request ends with a row, or without having asked the rail.
LEMMA StepEnds ==
  ASSUME TypeOK, RailInv, "crash" \notin Faults, [Next]_vars, NEW q \in Payouts,
         pc'[q] = "done", pc[q] # "done"
  PROVE  rail'[q] = "none" \/ status'[q] # "none"
<1>1. ASSUME NEW p \in Payouts, CreatePayout(p)
      PROVE  rail'[q] = "none" \/ status'[q] # "none"
  <2>0. q = p /\ rail' = rail
    BY <1>1 DEF CreatePayout, LockUser, ReadBalance, Rollback, RequestPayout, ExecuteMural,
                CommitPayout, LosePayout, Step, TypeOK, railVars
  <2>1. CASE Rollback(p)
    BY <2>0, <2>1 DEF Rollback, RailInv
  <2>2. CASE CommitPayout(p)
    BY <2>0, <2>2 DEF CommitPayout, TypeOK
  <2>3. ~ LosePayout(p)
    BY DEF LosePayout
  <2> QED BY <1>1, <2>0, <2>1, <2>2, <2>3 DEF CreatePayout, LockUser, ReadBalance,
             RequestPayout, ExecuteMural, Step, TypeOK
<1>2. CASE Others
  BY <1>2, OthersKeepRequests DEF reqVars
<1> QED BY <1>1, <1>2, NextIsCreateOrOthers

\* The rail that takes a request on is known to the row, if it calls back.
LEMMA StepLinks ==
  ASSUME TypeOK, RailInv, "lookup" \notin Faults, [Next]_vars, NEW q \in Payouts, Webhooks(q),
         rail[q] # "none" => linked[q], rail'[q] # "none"
  PROVE  linked'[q]
<1> USE DEF TypeOK, dbVars, reqVars, railVars
<1>1. ASSUME NEW p \in Payouts, RequestPayout(p) PROVE linked'[q]
  <2>1. CASE p = q
    <3>1. Method(q) # "mural" /\ "lookup" \notin Faults
      BY DEF Webhooks
    <3>2. PICK found \in BOOLEAN : found /\ linked' = [linked EXCEPT ![q] = found]
      BY <1>1, <2>1, <3>1 DEF RequestPayout
    <3> QED BY <3>2
  <2>2. CASE p # q
    <3>1. rail'[q] = rail[q] /\ linked'[q] = linked[q]
      BY <1>1, <2>2 DEF RequestPayout
    <3> QED BY <3>1
  <2> QED BY <2>1, <2>2
<1>2. ASSUME ~ \E p \in Payouts : RequestPayout(p) PROVE linked' = linked
  BY <1>2 DEF Next, CreatePayout, LockUser, ReadBalance, Rollback,
       ExecuteMural, CommitPayout, LosePayout, CancelPayout, CheckCancel, RailCancels,
       RailRefusesCancel, RecordCancel, Webhook, FindInTransit, HandleFailure, HandleSuccess,
       ExpireOld, SyncMural, SyncRead, SyncFetch, SyncWrite, SearchFailed, WriteFailed,
       Environment, Earn, ChangeForm, RailSettles, RailReturns, Age, vars
<1>3. ASSUME ~ \E p \in Payouts : RequestPayout(p) PROVE rail[q] # "none"
  <2>1. CASE rail'[q] = rail[q]
    BY <2>1
  <2>2. CASE rail'[q] # rail[q]
    <3>1. ~ (pc[q] = "counted" /\ pc'[q] \in {"sent", "ready"})
      <4>1. ASSUME NEW p \in Payouts, CreatePayout(p), pc[q] = "counted"
            PROVE  pc'[q] \notin {"sent", "ready"}
        BY <1>3, <4>1 DEF CreatePayout, LockUser, ReadBalance, Rollback, ExecuteMural,
                          CommitPayout, LosePayout, Step
      <4>2. CASE Others
        BY <4>2, OthersKeepRequests
      <4> QED BY <4>1, <4>2, NextIsCreateOrOthers
    <3> QED BY <2>2, <3>1, StepMovesRail DEF RailMoves
  <2> QED BY <2>1, <2>2
<1> QED BY <1>1, <1>2, <1>3

\* Only a request that the rail will not carry out is drafted as failed.
LEMMA StepDraftsFailed ==
  ASSUME TypeOK, RailInv, [Next]_vars, NEW q \in Payouts,
         pc[q] = "sent" => draft[q] = "in-transit"
  PROVE  /\ pc'[q] = "sent" => draft'[q] = "in-transit"
         /\ Unharmed(q) /\ pc'[q] = "ready" /\ draft'[q] = "failed" =>
              \/ pc[q] = "ready" /\ draft[q] = "failed"
              \/ rail'[q] \in {"cancelled", "created"}
<1> DEFINE Goal == /\ pc'[q] = "sent" => draft'[q] = "in-transit"
                   /\ Unharmed(q) /\ pc'[q] = "ready" /\ draft'[q] = "failed" =>
                        \/ pc[q] = "ready" /\ draft[q] = "failed"
                        \/ rail'[q] \in {"cancelled", "created"}
<1> USE DEF TypeOK, Step
<1>1. ASSUME NEW p \in Payouts, ExecuteMural(p) PROVE Goal
  <2>1. CASE p = q
    <3>1. pc[q] = "sent" /\ pc'[q] = "ready"
      BY <1>1, <2>1 DEF ExecuteMural
    <3>2. ~ Webhooks(q)
      BY <3>1 DEF RailInv, Webhooks
    <3>3. Unharmed(q) => draft' = draft \/ rail'[q] \in {"cancelled", "created"}
      <4>1. ASSUME Unharmed(q) PROVE "reply" \notin Faults
        BY <3>2, <4>1, UnharmedMeans
      <4> QED BY <1>1, <2>1, <4>1 DEF ExecuteMural
    <3> QED BY <3>1, <3>3
  <2>2. CASE p # q
    BY <1>1, <2>2 DEF ExecuteMural
  <2> QED BY <2>1, <2>2
<1>2. ASSUME NEW p \in Payouts, CreatePayout(p), ~ ExecuteMural(p) PROVE Goal
  BY <1>2 DEF CreatePayout, LockUser, ReadBalance, Rollback, RequestPayout, CommitPayout,
              LosePayout
<1>3. CASE Others
  BY <1>3, OthersKeepRequests DEF reqVars
<1> QED BY <1>1, <1>2, <1>3, NextIsCreateOrOthers

\* What a rail pays out it took on before, and a rail that calls back says so.
LEMMA StepPaysOut ==
  ASSUME TypeOK, RailInv, [Next]_vars, NEW q \in Payouts, rail'[q] = "paid"
  PROVE  \/ rail[q] = "paid"
         \/ Webhooks(q) => [payout |-> q, kind |-> "success"] \in notices'
<1> DEFINE Goal == \/ rail[q] = "paid"
                   \/ Webhooks(q) => [payout |-> q, kind |-> "success"] \in notices'
<1> USE DEF TypeOK, dbVars, reqVars, railVars
<1>1. ASSUME NEW p \in Payouts, CreatePayout(p) PROVE Goal
  BY <1>1 DEF CreatePayout, LockUser, ReadBalance, Rollback, RequestPayout,
              ExecuteMural, CommitPayout, LosePayout
<1>2. ASSUME NEW p \in Payouts, CancelPayout(p) PROVE Goal
  BY <1>2 DEF CancelPayout, CheckCancel, RailCancels, RailRefusesCancel, RecordCancel
<1>3. ASSUME NEW n \in Notice, Webhook(n) PROVE Goal
  BY <1>3 DEF Webhook, FindInTransit, HandleFailure, HandleSuccess
<1>4. CASE ExpireOld \/ SyncMural \/ UNCHANGED vars
  BY <1>4 DEF ExpireOld, SyncMural, SyncRead, SyncFetch, SyncWrite, SearchFailed,
              WriteFailed, vars
<1>5. CASE Environment
  BY <1>5 DEF Environment, Earn, ChangeForm, RailSettles, RailReturns, Age
<1> QED BY <1>1, <1>2, <1>3, <1>4, <1>5 DEF Next

\* A success stops being repeated once its row shows it.
LEMMA StepAcknowledges ==
  ASSUME TypeOK, RailInv, "early" \notin Faults, [Next]_vars, NEW q \in Payouts,
         NEW n \in notices, n.payout = q, n.kind = "success", n \notin notices'
  PROVE  pc[q] = "done" /\ (status[q] # "none" /\ linked[q] => status'[q] = "success")
<1> USE DEF TypeOK, dbVars, reqVars, railVars
<1>1. ASSUME NEW m \in Notice, HandleSuccess(m)
      PROVE  pc[q] = "done" /\ (status[q] # "none" /\ linked[q] => status'[q] = "success")
  <2>1. m = n
    BY <1>1 DEF HandleSuccess, Acknowledge
  <2> QED BY <1>1, <2>1 DEF HandleSuccess, Arrives
<1>2. ASSUME ~ \E m \in Notice : HandleSuccess(m) PROVE n \in notices'
  <2>1. ASSUME NEW m \in Notice, FindInTransit(m) \/ HandleFailure(m) PROVE n \in notices'
    BY <2>1 DEF FindInTransit, HandleFailure, Acknowledge, Arrives, RailInv
  <2>2. ASSUME ~ \E m \in Notice : Webhook(m) PROVE n \in notices'
    BY <2>2 DEF Next, CreatePayout, LockUser, ReadBalance, Rollback, RequestPayout,
       ExecuteMural, CommitPayout, LosePayout, CancelPayout, CheckCancel, RailCancels,
       RailRefusesCancel, RecordCancel, ExpireOld, SyncMural, SyncRead, SyncFetch, SyncWrite,
       SearchFailed, WriteFailed, Environment, Earn, ChangeForm, RailSettles, RailReturns,
       Age, vars
  <2> QED BY <1>2, <2>1, <2>2 DEF Webhook
<1> QED BY <1>1, <1>2

\* A row is released only when the rail neither pays it out nor may still do so.
LEMMA StepReleases ==
  ASSUME StateInv, PaidInv, [Next]_vars, NEW q \in Payouts, Unharmed(q),
         rail'[q] \in {"open", "paid"}
  PROVE  status'[q] \notin Released
<1> USE DEF StateInv
<1>1. CASE status[q] = "none" /\ ~ Committed(q)
  BY <1>1, RowsStay DEF Released
<1>2. CASE Committed(q)
  <2>1. pc[q] = "ready"
    BY <1>2 DEF Committed
  <2>2. rail[q] \in {"open", "paid"}
    BY <2>1, StepMovesRail DEF RailMoves
  <2>3. draft[q] = "in-transit"
    BY <2>1, <2>2 DEF PaidInv, TypeOK
  <2> QED BY <1>2, <2>3 DEF Committed, Released
<1>3. CASE status[q] # "none"
  <2>1. pc[q] = "done"
    BY <1>3 DEF RowInv
  <2>2. rail[q] \in {"open", "paid"}
    BY <2>1, StepMovesRail DEF RailMoves
  <2>3. status[q] \in {"in-transit", "success"}
    BY <1>3, <2>2 DEF PaidInv, TypeOK, Status, Released
  <2>4. CASE Webhooks(q) /\ status[q] = "in-transit"
    <3>1. CASE rail[q] = "open"
      BY <2>4, <3>1, ReleasedByWebhook DEF Released
    <3>2. CASE rail[q] = "paid"
      <4> DEFINE n == [payout |-> q, kind |-> "success"]
      <4>1. n \in notices
        BY <2>4, <3>2 DEF PaidInv
      <4>2. \E m \in notices : m.payout = q /\ m.kind = "success"
        BY <4>1
      <4> QED BY <2>4, <4>2, ReleasedByWebhook DEF Released
    <3> QED BY <2>2, <3>1, <3>2
  <2>5. CASE Webhooks(q) /\ status[q] = "success"
    <3>1. ~ Committed(q) /\ ~ Cancelling(q) /\ ~ Expired(q) /\ ~ Synced(q)
      BY <2>1, <2>2, <2>5 DEF Committed, Cancelling, Expired, Synced, RailInv, SuccessInv
    <3>2. \A n \in Notice : n.payout = q => ~ FailedBy(n)
      BY <2>2 DEF FailedBy, RailInv, Notice
    <3> QED BY <2>5, <3>1, <3>2, StepMovesStatus DEF StatusMoves, PaidBy, Released
  <2>6. CASE ~ Webhooks(q)
    <3>1. ~ (Synced(q) /\ status'[q] \in Released)
      BY <2>2 DEF Synced, PaidInv, Released, TypeOK, Sync
    <3> QED BY <2>2, <2>3, <2>6, <3>1, ReleasedByMural
  <2> QED BY <2>3, <2>4, <2>5, <2>6
<1> QED BY <1>1, <1>2, <1>3

\* Every step keeps what is paid debited, if nothing fails on its rail.
LEMMA StepPaidInv ==
  ASSUME StateInv, PaidInv, [Next]_vars
  PROVE  PaidInv'
<1> USE DEF StateInv
<1>0. /\ TypeOK' /\ Released' = Released
      /\ \A p \in Payouts : Unharmed(p)' = Unharmed(p)
  BY StepTypeOK, StepKeepsMethods DEF Released, Unharmed, Harm
<1>1. ASSUME NEW q \in Payouts, Unharmed(q), pc'[q] = "done", rail'[q] # "none"
      PROVE  status'[q] # "none"
  <2>1. CASE pc[q] = "done"
    <3>1. rail[q] # "none"
      BY <1>1, <2>1, StepMovesRail DEF RailMoves
    <3>2. status[q] # "none"
      BY <1>1, <2>1, <3>1 DEF PaidInv
    <3> QED BY <3>2, RowsStay
  <2>2. CASE pc[q] # "done"
    <3>1. "crash" \notin Faults
      BY <1>1, UnharmedMeans
    <3> QED BY <1>1, <2>2, <3>1, StepEnds
  <2> QED BY <2>1, <2>2
<1>2. ASSUME NEW q \in Payouts, Unharmed(q), Webhooks(q), rail'[q] # "none"
      PROVE  linked'[q]
  <2>1. rail[q] # "none" => linked[q]
    BY <1>2 DEF PaidInv
  <2>2. "lookup" \notin Faults
    BY <1>2, UnharmedMeans
  <2> QED BY <1>2, <2>1, <2>2, StepLinks
<1>3. ASSUME NEW q \in Payouts
      PROVE  /\ pc'[q] = "sent" => draft'[q] = "in-transit"
             /\ Unharmed(q) /\ pc'[q] = "ready" /\ draft'[q] = "failed" =>
                  rail'[q] \notin {"open", "paid"}
  <2>1. /\ pc'[q] = "sent" => draft'[q] = "in-transit"
        /\ Unharmed(q) /\ pc'[q] = "ready" /\ draft'[q] = "failed" =>
             \/ pc[q] = "ready" /\ draft[q] = "failed"
             \/ rail'[q] \in {"cancelled", "created"}
    BY StepDraftsFailed DEF PaidInv
  <2>2. ASSUME Unharmed(q), pc[q] = "ready", draft[q] = "failed"
        PROVE  rail'[q] \notin {"open", "paid"}
    BY <2>2, StepMovesRail DEF RailMoves, PaidInv
  <2> QED BY <2>1, <2>2
<1>4. \A q \in Payouts :
        Unharmed(q) /\ rail'[q] \in {"open", "paid"} => status'[q] \notin Released
  BY StepReleases
<1>5. ASSUME NEW q \in Payouts, sync'.got[q] \in {"cancelled", "failed"}
      PROVE  rail'[q] \in {"cancelled", "failed", "returned"}
  <2>1. rail[q] \in {"cancelled", "failed", "returned"}
    <3>1. CASE sync'.got[q] = sync.got[q]
      BY <1>5, <3>1 DEF PaidInv
    <3>2. CASE sync'.got[q] \in {"none", PendingVerdict(rail[q])}
      BY <1>5, <3>2 DEF PendingVerdict
    <3>3. CASE sync'.got[q] = FailedVerdict(rail[q])
      BY <1>5, <3>3 DEF FailedVerdict
    <3> QED BY <1>5, <3>1, <3>2, <3>3, StepMovesSync DEF SyncMoves
  <2> QED BY <2>1, StepMovesRail DEF RailMoves
<1>6. ASSUME NEW q \in Payouts, Unharmed(q), Webhooks(q),
             rail'[q] = "paid", status'[q] # "success"
      PROVE  [payout |-> q, kind |-> "success"] \in notices'
  <2> DEFINE n == [payout |-> q, kind |-> "success"]
  <2>1. CASE rail[q] # "paid"
    BY <1>6, <2>1, StepPaysOut
  <2>2. CASE rail[q] = "paid"
    <3>1. status[q] # "success"
      <4>1. status'[q] \notin Released
        BY <1>6, <1>4
      <4>2. status'[q] \in {"none", "in-transit"}
        BY <1>0, <1>6, <4>1 DEF TypeOK, Status, Released
      <4> QED BY <4>2, RowsStay
    <3>2. n \in notices
      BY <1>6, <2>2, <3>1 DEF PaidInv
    <3>3. ASSUME n \notin notices' PROVE FALSE
      <4>0. "early" \notin Faults
        BY <1>6, UnharmedMeans
      <4>1. pc[q] = "done" /\ (status[q] # "none" /\ linked[q] => status'[q] = "success")
        BY <3>2, <3>3, <4>0, StepAcknowledges
      <4>2. status[q] # "none" /\ linked[q]
        BY <1>6, <2>2, <4>1 DEF PaidInv
      <4> QED BY <1>6, <4>1, <4>2
    <3> QED BY <3>3
  <2> QED BY <2>1, <2>2
<1> QED BY <1>0, <1>1, <1>2, <1>3, <1>4, <1>5, <1>6, StepKeepsMethods DEF PaidInv

\* It holds at the start.
LEMMA InitPaidInv == Init => PaidInv
  BY DEF Init, PaidInv, NothingGot, Released

\* Each rail's payouts stay debited whatever fails on the others.  A payout of
\* PayPal or Tremendous needs that its platform id is found, that no webhook comes
\* before its row and that no handler dies after the request; one of Mural that no
\* request is carried out whose reply is an error, and that no handler dies.  Then
\* what the rail pays out is debited, however payments, cancellations, webhooks,
\* both Mural syncs and the 30 days' job interleave.
THEOREM PaidIsDebitedUnlessHarmed ==
  Spec => [](\A p \in Payouts :
               Unharmed(p) /\ pc[p] = "done" /\ rail[p] = "paid" =>
                 status[p] \in {"in-transit", "success"})
<1> DEFINE Debited == \A p \in Payouts :
                        Unharmed(p) /\ pc[p] = "done" /\ rail[p] = "paid" =>
                          status[p] \in {"in-transit", "success"}
<1>1. StateInv /\ PaidInv => Debited
  BY DEF StateInv, TypeOK, Status, PaidInv, Released
<1>2. IInv => StateInv
  BY DEF IInv
<1>3. StateInv /\ PaidInv /\ [Next]_vars => PaidInv'
  BY StepPaidInv
<1>4. Spec => []PaidInv
  BY <1>2, <1>3, InitPaidInv, InvariantHolds, PTL DEF Spec
<1> QED BY <1>1, <1>2, <1>4, InvariantHolds, PTL

\* As long as no lookup, handler or reply fails and no webhook comes early, what
\* any rail pays out stays debited.
THEOREM PaidIsAlwaysDebited ==
  ASSUME Faults = {}
  PROVE  Spec => []PaidIsDebited
<1> DEFINE Debited == \A p \in Payouts :
                        Unharmed(p) /\ pc[p] = "done" /\ rail[p] = "paid" =>
                          status[p] \in {"in-transit", "success"}
<1>1. Debited => PaidIsDebited
  BY DEF PaidIsDebited, Unharmed
<1>2. Spec => []Debited
  BY PaidIsDebitedUnlessHarmed
<1> QED BY <1>1, <1>2, PTL
=============================================================================
