------------------------------ MODULE Statuses ------------------------------
(***************************************************************************)
(* Which statuses of a user are known, while connections of the user's      *)
(* launchers to the processes of labrinth come and go:                      *)
(* labrinth/src/routes/internal/statuses.rs (ws_init, close_socket),        *)
(* labrinth/src/queue/socket.rs (ActiveSockets) and                         *)
(* labrinth/src/sync/status.rs (the set in Redis).                          *)
(*                                                                          *)
(* One user.  A process knows its own connections, Redis those of all.      *)
(* What is pushed to the friends that are connected is left out: they look  *)
(* the status up when they connect.                                         *)
(***************************************************************************)
EXTENDS Naturals

CONSTANTS
  Conns,  \* connections, each made once
  Away    \* those to another process

StatusesAssumption == Away \subseteq Conns

VARIABLES
  at,       \* at[c]: where the task of a connection is
  name,     \* name[c]: the profile in the status of its socket
  was,      \* was[c]: the one it replaces
  sockets,  \* ActiveSockets.sockets of both processes
  index,    \* ActiveSockets.sockets_by_user_id of the user, of both
  stored,   \* the set of statuses in Redis
  stray     \* history: a task ended without closing its socket, or a change did not
            \* reach Redis

maps == <<sockets, index>>
vars == <<at, name, was, maps, stored, stray>>

Names == {"short", "long"}   \* "long" is one of more than 64 bytes

\* A status says when it was made: those of two connections differ.
Status == Conns \X Names

\* The type of the state.
TypeOK ==
  /\ at \in [Conns -> {"new", "inserted", "indexed", "live", "changed", "closing",
                       "removed", "unindexed", "gone"}]
  /\ name \in [Conns -> Names]
  /\ was \in [Conns -> Names]
  /\ sockets \subseteq Conns
  /\ index \subseteq Conns
  /\ stored \subseteq Status
  /\ stray \in BOOLEAN

Init ==
  /\ at = [c \in Conns |-> "new"]
  /\ name = [c \in Conns |-> "short"]
  /\ was = [c \in Conns |-> "short"]
  /\ sockets = {}
  /\ index = {}
  /\ stored = {}
  /\ stray = FALSE

Goes(c, from, to) == at[c] = from /\ at' = [at EXCEPT ![c] = to]

(***************************************************************************)
(* ws_init                                                                  *)
(***************************************************************************)
Insert(c) ==
  /\ Goes(c, "new", "inserted")
  /\ sockets' = sockets \cup {c}
  /\ UNCHANGED <<name, was, index, stored, stray>>

Index(c) ==
  /\ Goes(c, "inserted", "indexed")
  /\ index' = index \cup {c}
  /\ UNCHANGED <<name, was, sockets, stored, stray>>

\* replace_user_status; then the tasks of the connection are started.
Open(c) ==
  /\ Goes(c, "indexed", "live")
  /\ stored' = stored \cup {<<c, name[c]>>}
  /\ UNCHANGED <<name, was, maps, stray>>

\* Redis does not answer: the request ends with an error, and no task is there that
\* would close the socket.
OpenFails(c) ==
  /\ Goes(c, "indexed", "gone")
  /\ stray' = TRUE
  /\ UNCHANGED <<name, was, maps, stored>>

(***************************************************************************)
(* The task of a connection                                                 *)
(***************************************************************************)

\* A status of the client.  The name that is measured is the one before it: past
\* one that is too long the task returns, and nothing is closed.
Change(c, profile) ==
  \/ /\ name[c] # "long"
     /\ Goes(c, "live", "changed")
     /\ was' = [was EXCEPT ![c] = name[c]]
     /\ name' = [name EXCEPT ![c] = profile]
     /\ UNCHANGED <<maps, stored, stray>>
  \/ /\ name[c] = "long"
     /\ Goes(c, "live", "gone")
     /\ stray' = TRUE
     /\ UNCHANGED <<name, was, maps, stored>>

\* Mutation: the status before is left in the set.
ReplaceNone(c) ==
  /\ Goes(c, "changed", "live")
  /\ stored' = stored \cup {<<c, name[c]>>}
  /\ UNCHANGED <<name, was, maps, stray>>

\* Redis takes the change, or does not answer.
Replace(c) ==
  /\ Goes(c, "changed", "live")
  /\ \/ stored' = (stored \ {<<c, was[c]>>}) \cup {<<c, name[c]>>} /\ UNCHANGED stray
     \/ UNCHANGED stored /\ stray' = TRUE
  /\ was' = [was EXCEPT ![c] = "short"]
  /\ UNCHANGED <<name, maps>>

\* The client closes the connection, or is silent for 30 seconds.
Hangs(c) ==
  /\ Goes(c, "live", "closing")
  /\ UNCHANGED <<name, was, maps, stored, stray>>

(***************************************************************************)
(* close_socket                                                             *)
(***************************************************************************)
Remove(c) ==
  /\ Goes(c, "closing", "removed")
  /\ sockets' = sockets \ {c}
  /\ UNCHANGED <<name, was, index, stored, stray>>

Unindex(c) ==
  /\ Goes(c, "removed", "unindexed")
  /\ index' = index \ {c}
  /\ UNCHANGED <<name, was, sockets, stored, stray>>

\* The status goes with the socket.
Close(c) ==
  /\ Goes(c, "unindexed", "gone")
  /\ \/ stored' = stored \ {<<c, name[c]>>} /\ UNCHANGED stray
     \/ UNCHANGED stored /\ stray' = TRUE
  /\ name' = [name EXCEPT ![c] = "short"]
  /\ was' = [was EXCEPT ![c] = "short"]
  /\ UNCHANGED maps

\* A process is killed.
Begun(c) == at[c] \notin {"new", "gone"}

Dies(C) ==
  /\ \E c \in C : Begun(c)
  /\ at' = [c \in Conns |-> IF c \in C THEN "gone" ELSE at[c]]
  /\ sockets' = sockets \ C
  /\ index' = index \ C
  /\ stray' = TRUE
  /\ UNCHANGED <<name, was, stored>>

\* Mutation: nothing expires.
ExpireNothing == FALSE /\ UNCHANGED vars

\* Nobody pushes back the expiry of the set: the task that does so ends with the
\* task of its connection.
Expire ==
  /\ stored # {} /\ \A c \in Conns : ~Begun(c)
  /\ stored' = {}
  /\ UNCHANGED <<at, name, was, maps, stray>>

(***************************************************************************)

Task(c) ==
  \/ Index(c) \/ Open(c)
  \/ (\E profile \in Names : Change(c, profile)) \/ Replace(c)
  \/ Hangs(c) \/ Remove(c) \/ Unindex(c) \/ Close(c)

Next ==
  \/ \E c \in Conns : Insert(c) \/ Task(c) \/ OpenFails(c)
  \/ Dies(Away) \/ Dies(Conns \ Away)
  \/ Expire

Spec == Init /\ [][Next]_vars

\* A task goes on, and the time of a set that is not pushed back ends.
Fairness == (\A c \in Conns : WF_vars(Task(c))) /\ WF_vars(Expire)

(***************************************************************************)
(* Properties                                                               *)
(***************************************************************************)

\* When the tasks are at rest, get_user_status finds exactly the statuses of the
\* connections there are, unless a change was lost on its way.
KnownIsCurrent ==
  (\A c \in Conns : at[c] \in {"new", "live", "gone"}) /\ ~stray =>
    /\ stored = {<<c, name[c]>> : c \in {d \in Conns : at[d] = "live"}}
    /\ index = {c \in Conns : at[c] = "live"}

\* Who has left is not shown by Redis for ever, whatever was lost.
GoneIsForgotten == []<>(stored # {} => \E c \in Conns : Begun(c))
=============================================================================
