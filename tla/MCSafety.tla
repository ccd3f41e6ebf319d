------------------------------ MODULE MCSafety ------------------------------
(***************************************************************************)
(* Five components of which only safety is claimed: withdrawals on rails    *)
(* that do not fail, the cache of values read by ids, the search index, the *)
(* status of a project, and the web client.  They share no state, and the   *)
(* initial state says which of them takes steps (part).                     *)
(***************************************************************************)
EXTENDS MCWithdrawals, CacheKeys

CONSTANTS
  c1, c2, i1, i2, k1, k2,
  Projects, ChunkSize, Runs, Overlap, MaxEdits, MaxFaults,   \* Search
  Edits, Moderators, Statuses,                               \* Projects
  Requests, Chain, MaxFailures, MaxAttempts, MaxRetries      \* ApiClient

ById == [k \in Keys |-> IF k = k1 THEN i1 ELSE i2]   \* one key to an item

\* The breaker counts what is left of a request after its retries.
BreakerOutside == <<"node", "retry", "breaker">>

VARIABLES
  part,
  row, unclear, entry, list, open, cachePc, asked, ids, todo, stale, held, subs,
    woken, fetch, found, excuse,
  listed, docs, alias, run, removal, edits, failures, promised,
  projectStatus, cached, edit, review, queue, bot, word, owed,
  phase, left, frames, got, circuit, token, refreshing, streak

cacheVars  == <<row, unclear, entry, list, open, cachePc, asked, ids, todo, stale, held,
                subs, woken, fetch, found, excuse>>
searchVars == <<listed, docs, alias, run, removal, edits, failures, promised>>
projectVars == <<projectStatus, cached, edit, review, queue, bot, word, owed>>
clientVars == <<phase, left, frames, got, circuit, token, refreshing, streak>>
allVars    == <<part, vars, cacheVars, searchVars, projectVars, clientVars>>

Cache == INSTANCE CacheLock WITH pc <- cachePc

Index == INSTANCE Search WITH MaxFailures <- MaxFaults

Project == INSTANCE Projects WITH status <- projectStatus

Client == INSTANCE ApiClient

ASSUME IndexAssumption   == Index!SearchAssumption
ASSUME ProjectAssumption == Project!ProjectsAssumption
ASSUME WebAssumption     == Client!ClientAssumption

SafetyInit ==
  /\ part \in {"withdrawals", "cache", "search", "projects", "client"}
  /\ Init /\ Cache!Init /\ Index!Init /\ Project!Init /\ Client!Init
  \* One initial state is enough of those that take no steps.
  /\ \/ part = "withdrawals"
     \/ \A p \in Payouts : order[p] = [user |-> u1, gross |-> 1, method |-> "mural"]
  /\ part = "cache" \/ \A i \in Items : entry[i].version = 0
  /\ part = "search" \/ listed = {}
  /\ part = "projects" \/ projectStatus = "draft"

SafetyNext ==
  /\ \/ /\ part = "withdrawals" /\ Next
        /\ UNCHANGED <<cacheVars, searchVars, projectVars, clientVars>>
     \/ /\ part = "cache" /\ Cache!Next
        /\ UNCHANGED <<vars, searchVars, projectVars, clientVars>>
     \/ /\ part = "search" /\ Index!Next
        /\ UNCHANGED <<vars, cacheVars, projectVars, clientVars>>
     \/ /\ part = "projects" /\ Project!Next
        /\ UNCHANGED <<vars, cacheVars, searchVars, clientVars>>
     \/ /\ part = "client" /\ Client!Next
        /\ UNCHANGED <<vars, cacheVars, searchVars, projectVars>>
  /\ UNCHANGED part

SafetySpec == SafetyInit /\ [][SafetyNext]_allVars

BothSymmetry == Permutations({p1, p2}) \cup Permutations(Calls)

\* The cache, read by ids (CacheLock).
SingleFlight        == Cache!SingleFlight
WaitsForFetch       == Cache!WaitsForFetch
NothingLost         == Cache!NothingLost
StrandedByLateStore == Cache!StrandedByLateStore

\* The search index (Search).
ServedIsComplete == Index!ServedIsComplete

\* The status of a project (Projects).
ApprovedUnlessHasty == Project!ApprovedUnlessHasty
SubmissionsAreKept  == Project!SubmissionsAreKept

\* The web client (ApiClient).
FailuresAreConsecutive == Client!FailuresAreConsecutive
=============================================================================
