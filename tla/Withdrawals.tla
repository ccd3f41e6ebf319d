----------------------------- MODULE Withdrawals -----------------------------
(***************************************************************************)
(* Withdrawals of creators' earnings: labrinth/src/routes/v3/payouts.rs and *)
(* labrinth/src/queue/payouts.                                              *)
(*                                                                          *)
(* A request (create_payout) locks the user's row, computes the balance on  *)
(* another connection, asks a payout rail to send the money, and only then  *)
(* inserts the payout row and commits.  From there on the row is settled    *)
(* by whoever comes first: the webhooks of PayPal and Tremendous, the two   *)
(* Mural synchronisation passes, the user's cancellation, and the job that  *)
(* fails what is still in transit after 30 days.  None of those lock it.    *)
(***************************************************************************)
EXTENDS Money

CONSTANTS
  Users,       \* creators with a balance
  Payouts,     \* withdrawal requests; each is also the id of the row it inserts
  None,        \* "no request": the holder of a row lock that is free
  Methods,     \* the rails in use: a subset of AllMethods
  Amounts,     \* gross amounts a request may ask for, in cents
  Fee,         \* Fee[m]: what method m charges
  MinUsd,      \* MinUsd[m], MaxUsd[m]: bounds on the gross amount
  MaxUsd,
  Threshold,   \* net amount per year from which a signed tax form is needed
  MaxEarned,   \* bound of the model: nobody earns more than this
  Faults       \* which failures the environment produces: a subset of AllFaults

AllMethods == {"paypal", "tremendous", "mural"}   \* Venmo runs PayPal's code

AllFaults ==
  { "lookup",   \* the accepted payout's platform id is not found
    "early",    \* a webhook arrives before the row it is about is committed
    "crash",    \* the handler dies, or the insert fails, after the request
    "reply" }   \* a request was carried out although its reply is an error

ASSUME ConstantsAssumption ==
  /\ IsFiniteSet(Payouts)
  /\ None \notin Payouts
  /\ Methods \subseteq AllMethods
  /\ Amounts \subseteq Nat
  /\ Fee \in [Methods -> Nat]
  /\ MinUsd \in [Methods -> Nat] /\ MaxUsd \in [Methods -> Nat]
  /\ Threshold \in Nat /\ MaxEarned \in Nat
  /\ Faults \subseteq AllFaults

VARIABLES
  \* the database
  earned,      \* earned[u]: sum of the user's payouts_values that are available
  formOk,      \* formOk[u]: the user's tax form is signed and the TIN matched
  status,      \* status[p]: status column of row p, "none" when there is no row
  linked,      \* linked[p]: the row has a platform_id
  lock,        \* lock[u]: the request holding the row lock on user u
  aged,        \* rows created more than 30 days ago
  \* the handlers
  order,       \* order[p]: what request p asks for; it never changes
  pc,          \* pc[p]: how far request p is
  seen,        \* seen[p]: what request p has read
  draft,       \* draft[p]: the status request p is about to insert
  cancel,      \* cancel[p]: how far a cancellation of p is
  hook,        \* notices whose handler has found the row in transit
  sync,        \* the Mural synchronisation task
  \* the rails
  rail,        \* rail[p]: what became of the money on the rail
  notices      \* webhook calls about p on their way, or to be repeated

dbVars   == <<earned, formOk, status, linked, lock, aged>>
reqVars  == <<order, pc, seen, draft>>
railVars == <<rail, notices>>
vars     == <<dbVars, reqVars, cancel, hook, sync, railVars>>

Order == [user : Users, gross : Amounts, method : Methods]

Status == {"none", "in-transit", "success", "cancelling", "cancelled", "failed"}

\* A Mural request is created, then executed; its bank transfer may still fail
\* after the execution succeeded ("returned").
RailState == {"none", "created", "open", "paid", "returned", "cancelled", "failed"}

Notice == [payout : Payouts, kind : {"success", "cancelled", "failed"}]

PC == {"idle", "locked", "counted", "sent", "ready", "done"}

Sync == [pc   : {"idle", "fetch", "search", "apply"},
         todo : SUBSET Payouts,
         got  : [Payouts -> {"none", "success", "cancelled", "failed"}]]

NothingGot == [p \in Payouts |-> "none"]

User(p)   == order[p].user
Method(p) == order[p].method
Net(p)    == order[p].gross - Fee[Method(p)]
Webhooks(p) == Method(p) \in {"paypal", "tremendous"}

------------------------------------------------------------------------------
(* get_user_balance *)

\* Mutation: forgets the payouts that are still on their way.
CountedOnlySuccess(u) == {p \in Payouts : User(p) = u /\ status[p] = "success"}

\* WHERE user_id = $1 AND (status = 'success' OR status = 'in-transit')
Counted(u) == {p \in Payouts : User(p) = u /\ status[p] \in {"success", "in-transit"}}

GrossOf == [p \in Payouts |-> order[p].gross]
NetOf   == [p \in Payouts |-> Net(p)]

\* SUM(amount) and SUM(fee) of the same rows are one sum of gross amounts here.
Available(u)    == earned[u] - Sum(GrossOf, Counted(u))
WithdrawnYtd(u) == Sum(NetOf, Counted(u))

------------------------------------------------------------------------------
TypeOK ==
  /\ earned \in [Users -> Nat]
  /\ formOk \in [Users -> BOOLEAN]
  /\ status \in [Payouts -> Status]
  /\ linked \in [Payouts -> BOOLEAN]
  /\ lock \in [Users -> Payouts \cup {None}]
  /\ aged \subseteq Payouts
  /\ order \in [Payouts -> Order]
  /\ pc \in [Payouts -> PC]
  /\ seen \in [Payouts -> [balance : Int, ytd : Nat, signed : BOOLEAN]]
  /\ draft \in [Payouts -> {"in-transit", "failed"}]
  /\ cancel \in [Payouts -> {"idle", "checked", "accepted"}]
  /\ hook \subseteq Notice
  /\ sync \in Sync
  /\ rail \in [Payouts -> RailState]
  /\ notices \subseteq Notice

Init ==
  /\ earned = [u \in Users |-> 0]
  /\ formOk = [u \in Users |-> FALSE]
  /\ status = [p \in Payouts |-> "none"]
  /\ linked = [p \in Payouts |-> FALSE]
  /\ lock = [u \in Users |-> None]
  /\ aged = {}
  /\ order \in [Payouts -> Order]
  /\ pc = [p \in Payouts |-> "idle"]
  /\ seen = [p \in Payouts |-> [balance |-> 0, ytd |-> 0, signed |-> FALSE]]
  /\ draft = [p \in Payouts |-> "in-transit"]
  /\ cancel = [p \in Payouts |-> "idle"]
  /\ hook = {}
  /\ sync = [pc |-> "idle", todo |-> {}, got |-> NothingGot]
  /\ rail = [p \in Payouts |-> "none"]
  /\ notices = {}

------------------------------------------------------------------------------
(* create_payout *)

\* Step(p, from, to): request p goes on.
Step(p, from, to) == pc[p] = from /\ pc' = [pc EXCEPT ![p] = to]

Unlock(p) == lock' = [lock EXCEPT ![User(p)] = None]

\* Mutation: reads the row without FOR UPDATE.
LockUserNoWait(p) ==
  /\ Step(p, "idle", "locked")
  /\ lock' = [lock EXCEPT ![User(p)] = p]
  /\ UNCHANGED <<earned, formOk, status, linked, aged, order, seen, draft,
                 cancel, hook, sync, railVars>>

\* BEGIN; SELECT ... FROM users WHERE id = $1 FOR UPDATE
LockUser(p) ==
  /\ lock[User(p)] = None
  /\ Step(p, "idle", "locked")
  /\ lock' = [lock EXCEPT ![User(p)] = p]
  /\ UNCHANGED <<earned, formOk, status, linked, aged, order, seen, draft,
                 cancel, hook, sync, railVars>>

\* get_user_balance runs on the pool, outside the transaction.
ReadBalance(p) ==
  /\ Step(p, "locked", "counted")
  /\ seen' = [seen EXCEPT ![p] = [balance |-> Available(User(p)),
                                  ytd     |-> WithdrawnYtd(User(p)),
                                  signed  |-> FALSE]]
  /\ UNCHANGED <<dbVars, order, draft, cancel, hook, sync, railVars>>

\* Mutation: lets a withdrawal reach the threshold.
AdmissibleAtThreshold(p) ==
  /\ formOk[User(p)] \/ seen[p].ytd + Net(p) <= Threshold
  /\ order[p].gross <= seen[p].balance
  /\ MinUsd[Method(p)] <= order[p].gross /\ order[p].gross <= MaxUsd[Method(p)]

\* The tax threshold and PayoutFlow::validate: what lets the request through.
Admissible(p) ==
  LET m == Method(p)
  IN  /\ formOk[User(p)] \/ seen[p].ytd + Net(p) < Threshold
      /\ order[p].gross <= seen[p].balance
      /\ MinUsd[m] <= order[p].gross /\ order[p].gross <= MaxUsd[m]

\* An early return drops the transaction: a check fails, the rail refuses the
\* request, or anything else goes wrong before the rail was asked.
Rollback(p) ==
  /\ pc[p] \in {"locked", "counted"}
  /\ pc' = [pc EXCEPT ![p] = "done"]
  /\ Unlock(p)
  /\ UNCHANGED <<earned, formOk, status, linked, aged, order, seen, draft,
                 cancel, hook, sync, railVars>>

\* The rail accepts the request (no rail accepts a negative amount).  PayPal and
\* Tremendous have then taken the payout on; Mural has only created it.  The
\* platform id is looked up at once, and a failure to find it is ignored.
RequestPayout(p) ==
  /\ Admissible(p)
  /\ Net(p) >= 0
  /\ seen' = [seen EXCEPT ![p].signed = formOk[User(p)]]
  /\ draft' = [draft EXCEPT ![p] = "in-transit"]
  /\ \/ /\ Webhooks(p)
        /\ Step(p, "counted", "ready")
        /\ rail' = [rail EXCEPT ![p] = "open"]
        /\ \E found \in BOOLEAN :
             /\ found \/ "lookup" \in Faults
             /\ linked' = [linked EXCEPT ![p] = found]
     \/ /\ Method(p) = "mural"
        /\ Step(p, "counted", "sent")
        /\ rail' = [rail EXCEPT ![p] = "created"]
        /\ linked' = [linked EXCEPT ![p] = TRUE]
  /\ UNCHANGED <<earned, formOk, status, lock, aged, order, cancel, hook, sync,
                 notices>>

\* Mural's second call.  When it fails the row is inserted as failed and the
\* created request is cancelled, which may fail in turn and is then only logged.
ExecuteMural(p) ==
  /\ Step(p, "sent", "ready")
  /\ \/ /\ rail' = [rail EXCEPT ![p] = "open"]
        /\ draft' = draft
     \/ /\ draft' = [draft EXCEPT ![p] = "failed"]
        /\ \E r \in {"cancelled", "created", "open"} :
             /\ r # "open" \/ "reply" \in Faults
             /\ rail' = [rail EXCEPT ![p] = r]
  /\ UNCHANGED <<dbVars, order, seen, cancel, hook, sync, notices>>

\* payout.insert(...); transaction.commit()
CommitPayout(p) ==
  /\ Step(p, "ready", "done")
  /\ status' = [status EXCEPT ![p] = draft[p]]
  /\ Unlock(p)
  /\ UNCHANGED <<earned, formOk, linked, aged, order, seen, draft, cancel, hook,
                 sync, railVars>>

\* The process dies, or the insert or the commit fails, after the rail was asked.
LosePayout(p) ==
  /\ "crash" \in Faults
  /\ pc[p] \in {"sent", "ready"}
  /\ pc' = [pc EXCEPT ![p] = "done"]
  /\ Unlock(p)
  /\ UNCHANGED <<earned, formOk, status, linked, aged, order, seen, draft,
                 cancel, hook, sync, railVars>>

------------------------------------------------------------------------------
(* cancel_payout: the row is read, the rail asked, the row written, with *)
(* nothing in between that keeps others off the row.                     *)

CheckCancel(p) ==
  /\ cancel[p] = "idle"
  /\ status[p] = "in-transit" /\ linked[p]
  /\ cancel' = [cancel EXCEPT ![p] = "checked"]
  /\ UNCHANGED <<dbVars, reqVars, hook, sync, railVars>>

\* The rail cancels what it has not paid out yet.
RailCancels(p) ==
  /\ cancel[p] = "checked"
  /\ rail[p] = "open"
  /\ cancel' = [cancel EXCEPT ![p] = "accepted"]
  /\ rail' = [rail EXCEPT ![p] = "cancelled"]
  /\ notices' = notices \cup
       (IF Webhooks(p) THEN {[payout |-> p, kind |-> "cancelled"]} ELSE {})
  /\ UNCHANGED <<dbVars, reqVars, hook, sync>>

\* The rail refuses, or cannot be reached: the handler returns the error.
RailRefusesCancel(p) ==
  /\ cancel[p] = "checked"
  /\ cancel' = [cancel EXCEPT ![p] = "idle"]
  /\ UNCHANGED <<dbVars, reqVars, hook, sync, railVars>>

\* UPDATE payouts SET status = 'cancelling' WHERE platform_id = $2
RecordCancel(p) ==
  /\ cancel[p] = "accepted"
  /\ cancel' = [cancel EXCEPT ![p] = "idle"]
  /\ status' = [status EXCEPT ![p] = "cancelling"]
  /\ UNCHANGED <<earned, formOk, linked, lock, aged, reqVars, hook, sync, railVars>>

------------------------------------------------------------------------------
(* paypal_webhook, tremendous_webhook *)

\* A rail repeats a webhook until it is acknowledged, and may repeat it after.
Acknowledge(n) == notices' \in {notices, notices \ {n}}

\* The row can be seen by the handler: before the commit it cannot.
Arrives(n) ==
  /\ n \in notices
  /\ "early" \in Faults \/ pc[n.payout] = "done"

\* SELECT ... WHERE platform_id = $1 AND status = 'in-transit'
FindInTransit(n) ==
  /\ Arrives(n) /\ n.kind # "success" /\ n \notin hook
  /\ IF status[n.payout] = "in-transit" /\ linked[n.payout]
       THEN hook' = hook \cup {n} /\ UNCHANGED notices
       ELSE hook' = hook /\ Acknowledge(n)
  /\ UNCHANGED <<dbVars, reqVars, cancel, sync, rail>>

\* UPDATE payouts SET status = $1 WHERE platform_id = $2
HandleFailure(n) ==
  /\ n \in hook
  /\ hook' = hook \ {n}
  /\ status' = [status EXCEPT ![n.payout] = n.kind]
  /\ Acknowledge(n)
  /\ UNCHANGED <<earned, formOk, linked, lock, aged, reqVars, cancel, sync, rail>>

HandleSuccess(n) ==
  /\ Arrives(n) /\ n.kind = "success"
  /\ status' = IF status[n.payout] # "none" /\ linked[n.payout]
                 THEN [status EXCEPT ![n.payout] = "success"]
                 ELSE status
  /\ Acknowledge(n)
  /\ UNCHANGED <<earned, formOk, linked, lock, aged, reqVars, cancel, hook, sync, rail>>

------------------------------------------------------------------------------
(* process_payout: what is still in transit after 30 days has failed *)

\* Mutation: fails payouts whatever their age.
ExpireAnyAge ==
  /\ \E p \in Payouts : status[p] = "in-transit"
  /\ status' = [p \in Payouts |-> IF status[p] = "in-transit" THEN "failed" ELSE status[p]]
  /\ UNCHANGED <<earned, formOk, linked, lock, aged, reqVars, cancel, hook, sync, railVars>>

\* Mutation: fails only payouts that have a platform id.
ExpireOnlyLinked ==
  /\ \E p \in aged : status[p] = "in-transit" /\ linked[p]
  /\ status' = [p \in Payouts |-> IF p \in aged /\ status[p] = "in-transit" /\ linked[p]
                                    THEN "failed" ELSE status[p]]
  /\ UNCHANGED <<earned, formOk, linked, lock, aged, reqVars, cancel, hook, sync, railVars>>

ExpireOld ==
  /\ \E p \in aged : status[p] = "in-transit"
  /\ status' = [p \in Payouts |->
                  IF p \in aged /\ status[p] = "in-transit" THEN "failed" ELSE status[p]]
  /\ UNCHANGED <<earned, formOk, linked, lock, aged, reqVars, cancel, hook, sync, railVars>>

------------------------------------------------------------------------------
(* sync_pending_payouts_from_mural, then sync_failed_mural_payouts_to_labrinth *)

SyncRead ==
  /\ sync.pc = "idle"
  /\ sync' = [pc   |-> "fetch",
              todo |-> {p \in Payouts : /\ Method(p) = "mural"
                                        /\ status[p] \in {"in-transit", "cancelling"}},
              got  |-> NothingGot]
  /\ UNCHANGED <<dbVars, reqVars, cancel, hook, railVars>>

\* The status of the payout request; an executed one may have been returned.
PendingVerdict(r) ==
  CASE r \in {"paid", "returned"} -> "success"
    [] r \in {"cancelled", "failed"} -> r
    [] OTHER -> "none"

\* A fetch that fails is skipped.
SyncFetch(p) ==
  /\ sync.pc = "fetch" /\ p \in sync.todo
  /\ \E verdict \in {"none", PendingVerdict(rail[p])} :
       sync' = [sync EXCEPT !.todo = @ \ {p}, !.got[p] = verdict]
  /\ UNCHANGED <<dbVars, reqVars, cancel, hook, railVars>>

\* UPDATE payouts SET status = u.status ... WHERE payouts.id = u.id
Apply(got) ==
  status' = [p \in Payouts |->
               IF got[p] # "none" /\ status[p] # "none" THEN got[p] ELSE status[p]]

SyncWrite ==
  /\ sync.pc = "fetch" /\ sync.todo = {}
  /\ Apply(sync.got)
  /\ sync' = [sync EXCEPT !.pc = "search", !.got = NothingGot]
  /\ UNCHANGED <<earned, formOk, linked, lock, aged, reqVars, cancel, hook, railVars>>

\* Mutation: does not look at the transfers of an executed request.
FailedVerdictOfRequest(r) == IF r \in {"cancelled", "failed"} THEN r ELSE "none"

FailedVerdict(r) ==
  CASE r = "cancelled" -> "cancelled"
    [] r \in {"failed", "returned"} -> "failed"
    [] OTHER -> "none"

SearchFailed ==
  /\ sync.pc = "search"
  /\ sync' = [sync EXCEPT !.pc = "apply",
                          !.got = [p \in Payouts |-> IF Method(p) = "mural"
                                                       THEN FailedVerdict(rail[p])
                                                       ELSE "none"]]
  /\ UNCHANGED <<dbVars, reqVars, cancel, hook, railVars>>

WriteFailed ==
  /\ sync.pc = "apply"
  /\ Apply(sync.got)
  /\ sync' = [sync EXCEPT !.pc = "idle", !.got = NothingGot]
  /\ UNCHANGED <<earned, formOk, linked, lock, aged, reqVars, cancel, hook, railVars>>

------------------------------------------------------------------------------
(* The environment: users, rails and time *)

Earn(u) ==
  /\ earned[u] < MaxEarned
  /\ earned' = [earned EXCEPT ![u] = @ + 1]
  /\ UNCHANGED <<formOk, status, linked, lock, aged, reqVars, cancel, hook, sync, railVars>>

\* A form is signed, or a new one is requested and the old one no longer counts.
ChangeForm(u) ==
  /\ formOk' = [formOk EXCEPT ![u] = ~ @]
  /\ UNCHANGED <<earned, status, linked, lock, aged, reqVars, cancel, hook, sync, railVars>>

RailSettles(p) ==
  /\ rail[p] = "open"
  /\ \E r \in {"paid", "failed"} :
       /\ rail' = [rail EXCEPT ![p] = r]
       /\ notices' = notices \cup
            (IF Webhooks(p)
               THEN {[payout |-> p, kind |-> IF r = "paid" THEN "success" ELSE "failed"]}
               ELSE {})
  /\ UNCHANGED <<dbVars, reqVars, cancel, hook, sync>>

RailReturns(p) ==
  /\ rail[p] = "paid" /\ Method(p) = "mural"
  /\ rail' = [rail EXCEPT ![p] = "returned"]
  /\ UNCHANGED <<dbVars, reqVars, cancel, hook, sync, notices>>

\* What the rail had to say about p was heard.
Heard(p) ==
  IF Webhooks(p) THEN \A n \in notices \cup hook : n.payout # p
                 ELSE rail[p] \in {"paid", "returned"} => status[p] # "in-transit"

\* 30 days have passed: longer than a rail takes to settle and to tell so.
Age(p) ==
  /\ status[p] # "none" /\ p \notin aged
  /\ rail[p] # "open" /\ Heard(p)
  /\ aged' = aged \cup {p}
  /\ UNCHANGED <<earned, formOk, status, linked, lock, reqVars, cancel, hook, sync, railVars>>

------------------------------------------------------------------------------
CreatePayout(p) ==
  \/ LockUser(p) \/ ReadBalance(p) \/ Rollback(p) \/ RequestPayout(p)
  \/ ExecuteMural(p) \/ CommitPayout(p) \/ LosePayout(p)

CancelPayout(p) ==
  \/ CheckCancel(p) \/ RailCancels(p) \/ RailRefusesCancel(p) \/ RecordCancel(p)

Webhook(n) == FindInTransit(n) \/ HandleFailure(n) \/ HandleSuccess(n)

SyncMural ==
  SyncRead \/ (\E p \in Payouts : SyncFetch(p)) \/ SyncWrite \/ SearchFailed \/ WriteFailed

Environment ==
  \/ \E u \in Users : Earn(u) \/ ChangeForm(u)
  \/ \E p \in Payouts : RailSettles(p) \/ RailReturns(p) \/ Age(p)

Next ==
  \/ \E p \in Payouts : CreatePayout(p) \/ CancelPayout(p)
  \/ \E n \in Notice : Webhook(n)
  \/ ExpireOld
  \/ SyncMural
  \/ Environment

Spec == Init /\ [][Next]_vars

\* Fairness.  The task scheduler keeps running the jobs, a handler that has
\* started goes on, a rail settles what it took on, a webhook is acknowledged at
\* last, the 30 days pass, and Mural answers a fetch now and then.  Nobody has
\* to ask for a withdrawal or for its cancellation.
Fairness ==
  /\ \A p \in Payouts :
       /\ WF_vars(ReadBalance(p) \/ Rollback(p) \/ RequestPayout(p))
       /\ WF_vars(ExecuteMural(p) \/ CommitPayout(p) \/ LosePayout(p))
       /\ WF_vars(RailSettles(p))
       /\ WF_vars(RailRefusesCancel(p) \/ RailCancels(p) \/ RecordCancel(p))
       /\ WF_vars(Age(p))
       /\ SF_vars(SyncFetch(p) /\ sync.got'[p] = PendingVerdict(rail[p]))
  /\ \A n \in Notice : WF_vars(Webhook(n) /\ (n \notin notices' \/ n \in hook'))
  /\ WF_vars(ExpireOld)
  /\ WF_vars(SyncMural)

------------------------------------------------------------------------------
(* What the withdrawals are to guarantee *)

AccountOf(s) ==
  CASE s = "none"       -> "none"
    [] s = "in-transit" -> "held"
    [] s = "success"    -> "paid"
    [] OTHER            -> "released"

L == INSTANCE Ledger WITH
       order   <- [p \in Payouts |-> [user |-> User(p), gross |-> order[p].gross]],
       account <- [p \in Payouts |-> AccountOf(status[p])]

\* Nobody withdraws more than they earned, although the balance is computed
\* outside the transaction that holds the lock and rows are settled without it
\* (create_payout's FOR UPDATE, get_user_balance, the webhooks, both syncs).
NeverOverdrawn == \A u \in Users : Available(u) >= 0

\* Step by step: a row is inserted only when the balance of that moment covers
\* it, and money given back (failed, cancelled, cancelling) is never debited
\* again by a late webhook, a stale sync or a retried handler.
ImplementsLedger == L!LedgerSpec

\* A user whose form was not in order when the request was checked stays below
\* the tax threshold with it, however many requests run at a time
\* (create_payout: withdrawn_ytd + amount_usd >= threshold is refused).
UnsignedStayBelowThreshold ==
  [][\A p \in Payouts :
       (status[p] = "none" /\ status'[p] = "in-transit" /\ ~ seen[p].signed)
         => WithdrawnYtd(User(p))' < Threshold]_vars

\* What a rail has paid out is debited from the user's balance, once the request
\* that asked for it is over (queue/payouts/flow/paypal.rs: "we *must* track this
\* payout in the DB, even if the next steps fail, so that the user's balance is
\* subtracted").
PaidIsDebited ==
  \A p \in Payouts :
    pc[p] = "done" /\ rail[p] = "paid" => status[p] \in {"in-transit", "success"}

\* Money that a rail did not pay out, or that came back, returns to the balance,
\* for good.
UnpaidIsReturned ==
  <>[](\A p \in Payouts :
         pc[p] = "done" /\ rail[p] \in {"cancelled", "failed", "returned"} =>
           status[p] \notin {"in-transit", "success"})

\* No payout stays in transit for ever, with or without a platform id.
InTransitEnds ==
  \A p \in Payouts : []<>(status[p] # "in-transit")

------------------------------------------------------------------------------
(* Why: the inductive invariant behind NeverOverdrawn and ImplementsLedger *)

InFlight == {"locked", "counted", "sent", "ready"}

Released == {"cancelling", "cancelled", "failed"}

\* A request that is under way holds its user's row: two of one user exclude
\* each other.
LockInv == \A p \in Payouts : pc[p] \in InFlight => lock[User(p)] = p

\* Whoever is about to write a row has seen it, and a row once committed stays.
RowInv ==
  /\ \A p \in Payouts : status[p] # "none" => pc[p] = "done"
  /\ \A p \in Payouts : cancel[p] # "idle" => status[p] # "none"
  /\ \A n \in hook : status[n.payout] # "none"

\* The rail is asked once, and what it tells is what it did.
RailInv ==
  /\ \A p \in Payouts : pc[p] \in {"idle", "locked", "counted"} => rail[p] = "none"
  /\ \A p \in Payouts : pc[p] = "sent" => rail[p] = "created" /\ Method(p) = "mural"
  /\ \A p \in Payouts : cancel[p] = "accepted" => rail[p] = "cancelled"
  /\ \A p \in Payouts : status[p] = "cancelling" => rail[p] = "cancelled"
  /\ \A n \in notices \cup hook :
       /\ Webhooks(n.payout)
       /\ rail[n.payout] = IF n.kind = "success" THEN "paid" ELSE n.kind
  /\ \A n \in hook : n.kind # "success"

\* After 30 days the rail has nothing more to say.
AgedInv ==
  \A p \in aged :
    /\ status[p] # "none" /\ rail[p] # "open"
    /\ Webhooks(p) => \A n \in notices \cup hook : n.payout # p
    /\ ~ Webhooks(p) /\ rail[p] \in {"paid", "returned"} => status[p] # "in-transit"

\* A success that is on its way, as a webhook or as a fetched Mural status,
\* never meets a row whose money was given back.
SuccessInv ==
  /\ \A p \in Payouts : Webhooks(p) /\ rail[p] = "open" => status[p] \notin Released
  /\ \A n \in notices : n.kind = "success" => status[n.payout] \notin Released
  /\ \A p \in Payouts : Webhooks(p) /\ pc[p] = "ready" => draft[p] = "in-transit"
  /\ \A p \in sync.todo :
       /\ ~ Webhooks(p) /\ status[p] # "none"
       /\ rail[p] \in {"open", "paid", "returned"} => status[p] \notin Released
  /\ \A p \in Payouts : sync.got[p] = "success" =>
       /\ sync.pc = "fetch"
       /\ ~ Webhooks(p) /\ rail[p] \in {"paid", "returned"}
       /\ status[p] \in {"in-transit", "success"}
  /\ \A p \in Payouts : sync.got[p] # "none" => ~ Webhooks(p)
  /\ sync.pc # "fetch" => sync.todo = {}

\* What a request has read of the balance is still there when it commits.
FundsInv ==
  /\ \A u \in Users : Available(u) >= 0
  /\ \A p \in Payouts :
       /\ pc[p] \in {"counted", "sent", "ready"} => seen[p].balance <= Available(User(p))
       /\ pc[p] \in {"sent", "ready"} => order[p].gross <= seen[p].balance

StateInv == TypeOK /\ LockInv /\ RowInv /\ RailInv /\ AgedInv /\ SuccessInv

IInv == StateInv /\ FundsInv
=============================================================================
