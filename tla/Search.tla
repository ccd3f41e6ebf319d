------------------------------- MODULE Search -------------------------------
(***************************************************************************)
(* The search index (search/indexing.rs, search/backend/typesense/mod.rs).  *)
(* An index is rebuilt beside the one that is served: index_projects fills  *)
(* the collection that its alias does not name, points the alias to it and  *)
(* deletes the other.  There are two aliases with the same documents.  A    *)
(* project that is no longer listed is deleted from every collection by the *)
(* request that unlists it; one that is listed waits for the next rebuild.  *)
(***************************************************************************)
EXTENDS Naturals, Sequences, FiniteSets

CONSTANTS
  Projects,       \* ids; each stands for the project and its versions, of which it has one
  ChunkSize,      \* SEARCH_INDEX_CHUNK_SIZE
  Runs,           \* of index_projects
  Overlap,        \* bound of the model: they may overlap
  MaxEdits,       \* bound of the model: projects that are listed or unlisted
  MaxFailures     \* bound of the model: requests that fail, processes that die

SearchAssumption ==
  /\ Projects \subseteq Nat \ {0}
  /\ ChunkSize \in Nat \ {0}
  /\ Overlap \in BOOLEAN
  /\ MaxEdits \in Nat /\ MaxFailures \in Nat

Aliases     == {1, 2}                     \* projects, projects_filtered
Collections == {"current", "alt"}         \* of an alias
Missing     == {0}                        \* no collection, or no alias

VARIABLES
  listed,      \* the database: the projects that are searchable
  docs,        \* docs[a][c]: the documents of a collection, or Missing
  alias,       \* alias[a]: the collection that is served, or "none"
  run,         \* run[r]: a rebuild
  removal,     \* removal[p]: the collections p is still to be deleted from
  edits, failures,
  promised     \* history: projects that the served collections of a must have

vars == <<listed, docs, alias, run, removal, edits, failures, promised>>

Idle == [step |-> "idle", a |-> 1, old |-> [a \in Aliases |-> "none"],
         cursor |-> 0, chunk |-> {}, since |-> {}]

Other(c)  == IF c = "alt" THEN "current" ELSE "alt"
Served(a) == docs[a][alias[a]]

Init ==
  /\ listed \in SUBSET Projects
  /\ docs = [a \in Aliases |-> [c \in Collections |-> Missing]]
  /\ alias = [a \in Aliases |-> "none"]
  /\ run = [r \in Runs |-> Idle]
  /\ removal = [p \in Projects |-> <<>>]
  /\ edits = 0 /\ failures = 0
  /\ promised = [a \in Aliases |-> {}]

(***************************************************************************)
(* A rebuild                                                                *)
(***************************************************************************)

\* What is done to one alias is done to the other; then comes the next step.
Goes(r, changes, then) ==
  run' = [run EXCEPT ![r] = IF changes.a = 1 THEN [changes EXCEPT !.a = 2]
                            ELSE [changes EXCEPT !.a = 1, !.step = then]]

At(r, step) == run[r].step = step

\* since is what stays listed from here on.
Begin(r) ==
  /\ At(r, "idle")
  /\ Overlap \/ \A q \in Runs : At(q, "idle")
  /\ run' = [run EXCEPT ![r] = [Idle EXCEPT !.step = "ensure", !.since = listed]]
  /\ UNCHANGED <<docs, alias, promised>>

\* An alias that does not exist gets an empty collection, unless one is left.
Ensure(r) ==
  LET a == run[r].a IN
  /\ At(r, "ensure")
  /\ IF alias[a] # "none" THEN UNCHANGED <<docs, alias>>
     ELSE /\ docs' = [docs EXCEPT ![a].current = IF @ = Missing THEN {} ELSE @]
          /\ alias' = [alias EXCEPT ![a] = "current"]
  /\ Goes(r, run[r], "choose")
  /\ UNCHANGED promised

Choose(r) ==
  /\ At(r, "choose")
  /\ run' = [run EXCEPT ![r].old = alias, ![r].step = "delete"]
  /\ UNCHANGED <<docs, alias, promised>>

\* Mutation: the collection is taken for the one that is served.
NextOld(r, a) == run[r].old[a]

NextOf(r, a) == Other(run[r].old[a])

\* Mutation: what a run that failed has left is not deleted.
DeleteNextNot(r) ==
  /\ At(r, "delete")
  /\ Goes(r, run[r], "create")
  /\ UNCHANGED <<docs, alias, promised>>

DeleteNext(r) ==
  LET a == run[r].a IN
  /\ At(r, "delete")
  /\ docs' = [docs EXCEPT ![a][NextOf(r, a)] = Missing]
  /\ Goes(r, run[r], "create")
  /\ UNCHANGED <<alias, promised>>

\* A collection that exists is not created: that is an error.
CreateNext(r) ==
  LET a == run[r].a IN
  /\ At(r, "create")
  /\ IF docs[a][NextOf(r, a)] = Missing
     THEN /\ docs' = [docs EXCEPT ![a][NextOf(r, a)] = {}]
          /\ Goes(r, run[r], "fetch")
     ELSE run' = [run EXCEPT ![r] = Idle] /\ UNCHANGED docs
  /\ UNCHANGED <<alias, promised>>

Before(projects, p) == {q \in projects : q < p}

\* The first ChunkSize of the projects after the cursor.
ChunkAfter(cursor) ==
  LET later == {p \in listed : p > cursor}
  IN {p \in later : Cardinality(Before(later, p)) < ChunkSize}

Fetch(r) ==
  LET chunk == ChunkAfter(run[r].cursor) IN
  /\ At(r, "fetch")
  /\ run' = [run EXCEPT
       ![r].step   = IF chunk = {} THEN "swap" ELSE "import",
       ![r].chunk  = chunk,
       ![r].cursor = IF chunk = {} THEN @ ELSE CHOOSE p \in chunk : \A q \in chunk : q <= p]
  /\ UNCHANGED <<docs, alias, promised>>

\* Documents cannot be written to a collection that is gone.
Import(r) ==
  LET a == run[r].a IN
  /\ At(r, "import")
  /\ IF docs[a][NextOf(r, a)] = Missing
     THEN run' = [run EXCEPT ![r] = Idle] /\ UNCHANGED docs
     ELSE /\ docs' = [docs EXCEPT ![a][NextOf(r, a)] = @ \cup run[r].chunk]
          /\ Goes(r, run[r], "fetch")
  /\ UNCHANGED <<alias, promised>>

Swap(r) ==
  LET a == run[r].a IN
  /\ At(r, "swap")
  /\ alias' = [alias EXCEPT ![a] = NextOf(r, a)]
  /\ promised' = [promised EXCEPT ![a] = run[r].since]
  /\ Goes(r, run[r], "drop")
  /\ UNCHANGED docs

DropOld(r) ==
  LET a == run[r].a IN
  /\ At(r, "drop")
  /\ docs' = [docs EXCEPT ![a][run[r].old[a]] = Missing]
  /\ Goes(r, run[r], "idle")
  /\ UNCHANGED <<alias, promised>>

Rebuild(r) ==
  /\ \/ Begin(r) \/ Ensure(r) \/ Choose(r) \/ DeleteNext(r) \/ CreateNext(r)
     \/ Fetch(r) \/ Import(r) \/ Swap(r) \/ DropOld(r)
  /\ UNCHANGED <<listed, removal, edits, failures>>

\* A request fails, whether it was carried out or not, or the process dies.
RunFails(r) ==
  /\ ~At(r, "idle")
  /\ failures < MaxFailures
  /\ failures' = failures + 1
  /\ run' = [run EXCEPT ![r] = Idle]
  /\ UNCHANGED <<listed, docs, alias, removal, edits, promised>>

(***************************************************************************)
(* Projects that are listed and unlisted                                    *)
(***************************************************************************)

List(p) ==
  /\ p \notin listed /\ edits < MaxEdits
  /\ listed' = listed \cup {p}
  /\ edits' = edits + 1
  /\ UNCHANGED <<docs, alias, run, removal, failures, promised>>

\* The collections of an alias, the one that is served first.
Targets(a) ==
  LET live == IF alias[a] = "none" THEN <<>> ELSE << <<a, alias[a]>> >>
  IN live \o << <<a, "alt">>, <<a, "current">> >>

\* The alias of the second index is read when the first index is done.
Unlist(p) ==
  /\ p \in listed /\ edits < MaxEdits /\ removal[p] = <<>>
  /\ listed' = listed \ {p}
  /\ edits' = edits + 1
  /\ removal' = [removal EXCEPT ![p] = Targets(1)]
  /\ run' = [r \in Runs |-> [run[r] EXCEPT !.since = @ \ {p}]]
  /\ promised' = [a \in Aliases |-> promised[a] \ {p}]
  /\ UNCHANGED <<docs, alias, failures>>

\* A project that is listed again in the meantime is deleted all the same.
RemoveDocument(p) ==
  /\ removal[p] # <<>>
  /\ LET a == removal[p][1][1]
         c == removal[p][1][2]
     IN /\ docs' = [docs EXCEPT ![a][c] = @ \ {p}]
        /\ removal' = [removal EXCEPT ![p] =
             IF a = 1 /\ Len(@) = 1 THEN Targets(2) ELSE Tail(@)]
        /\ promised' = [promised EXCEPT ![a] = @ \ {p}]
        /\ run' = [q \in Runs |-> [run[q] EXCEPT !.since = @ \ {p}]]
  /\ UNCHANGED <<listed, alias, edits, failures>>

\* The project stays unlisted, and in the collections that are left.
RemovalFails(p) ==
  /\ removal[p] # <<>>
  /\ failures < MaxFailures
  /\ failures' = failures + 1
  /\ removal' = [removal EXCEPT ![p] = <<>>]
  /\ UNCHANGED <<listed, docs, alias, run, edits, promised>>

Next ==
  \/ \E r \in Runs : Rebuild(r)
  \/ \E r \in Runs : RunFails(r)
  \/ \E p \in Projects : List(p)
  \/ \E p \in Projects : Unlist(p)
  \/ \E p \in Projects : RemoveDocument(p)
  \/ \E p \in Projects : RemovalFails(p)

\* Rebuilds are begun every hour and do not hang.
Fairness == WF_vars(\E r \in Runs : Rebuild(r))

Spec == Init /\ [][Next]_vars /\ Fairness

(***************************************************************************)
(* Properties                                                               *)
(***************************************************************************)

TypeOK ==
  /\ listed \subseteq Projects
  /\ \A a \in Aliases, c \in Collections : docs[a][c] = Missing \/ docs[a][c] \subseteq Projects
  /\ alias \in [Aliases -> Collections \cup {"none"}]
  /\ \A r \in Runs : run[r].chunk \subseteq Projects

\* "Guarantee current aliases exist so reads keep working during re-index": an
\* alias names a collection that exists, and it has every project that has been
\* listed since the rebuild of that collection began and was not in a removal's
\* hands, wherever rebuilds died.
ServedIsComplete ==
  \A a \in Aliases : alias[a] # "none" => Served(a) # Missing /\ promised[a] \subseteq Served(a)

\* Projects that are unlisted while a rebuild has them in hand, or whose removal
\* fails, come and stay; the next rebuild must be rid of them, and have the rest.
Current == \A a \in Aliases : alias[a] # "none" /\ Served(a) = listed
=============================================================================
