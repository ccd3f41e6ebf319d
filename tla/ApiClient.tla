------------------------------ MODULE ApiClient ------------------------------
(***************************************************************************)
(* Requests of the web client (packages/api-client) to one endpoint, each   *)
(* through the chain of features: the circuit breaker, retries, and the     *)
(* token of a node, which all requests refresh together.                    *)
(*                                                                          *)
(* JavaScript runs one request until it waits: for an answer, a pause or    *)
(* the token.  The functions of a chain share the index of the feature that *)
(* is called next.                                                          *)
(***************************************************************************)
EXTENDS Naturals, Sequences

CONSTANTS
  Requests,      \* that are made at a time
  Chain,         \* the array of features that apply to them: "breaker", "retry", "node"
  MaxFailures,   \* of the circuit breaker
  MaxAttempts,   \* of the retries
  MaxRetries     \* of the node's authentication

ClientAssumption ==
  /\ Chain \in Seq({"breaker", "retry", "node"})
  /\ {MaxFailures, MaxAttempts, MaxRetries} \subseteq Nat \ {0}

VARIABLES
  phase,       \* phase[r]: what a request does or waits for
  left,        \* left[r]: the features of the chain that have not been called
  frames,      \* frames[r]: the features that wait for next(), and what they count
  got,         \* got[r]: an answer, or "error" for an exception without a status
  circuit,     \* the failures that are counted, and whether the reset is due
  token,       \* "none", "good" or "expired"
  refreshing,  \* refreshPromise is set
  streak       \* history: consecutive failed answers, up to MaxFailures

vars == <<phase, left, frames, got, circuit, token, refreshing, streak>>

Closed == [failures |-> 0, due |-> FALSE]

Init ==
  /\ phase = [r \in Requests |-> "idle"]
  /\ left = [r \in Requests |-> 0]
  /\ frames = [r \in Requests |-> <<>>]
  /\ got = [r \in Requests |-> "ok"]
  /\ circuit = Closed
  /\ token = "none" /\ refreshing = FALSE
  /\ streak = 0

Running(r) == phase[r] \in {"call", "return"}
Alone(r)   == \A q \in Requests \ {r} : ~Running(q)

Goes(r, p)  == phase' = [phase EXCEPT ![r] = p]
Top(r)      == frames[r][Len(frames[r])]
Below(r)    == SubSeq(frames[r], 1, Len(frames[r]) - 1)
Push(r, f)  == frames' = [frames EXCEPT ![r] = Append(@, [feature |-> f, count |-> 0])]
Pop(r)      == frames' = [frames EXCEPT ![r] = Below(r)]
Count(r)    == frames' = [frames EXCEPT ![r] = Append(Below(r), [Top(r) EXCEPT !.count = @ + 1])]

Upto(n) == IF n < MaxFailures THEN n ELSE MaxFailures

(***************************************************************************)
(* next(): the chain is called from its end; when no feature is left, the   *)
(* request is sent.                                                         *)
(***************************************************************************)

Begin(r) ==
  /\ phase[r] = "idle" /\ Alone(r)
  /\ Goes(r, "call")
  /\ left' = [left EXCEPT ![r] = Len(Chain)]
  /\ UNCHANGED <<frames, got, circuit, token, refreshing, streak>>

Reaches(r, f) ==
  /\ phase[r] = "call" /\ Alone(r)
  /\ left[r] > 0 /\ Chain[left[r]] = f
  /\ left' = [left EXCEPT ![r] = @ - 1]

Send(r) ==
  /\ phase[r] = "call" /\ Alone(r) /\ left[r] = 0
  /\ Goes(r, "sent")
  /\ UNCHANGED <<left, frames, got, circuit, token, refreshing, streak>>

Open == circuit.failures >= MaxFailures /\ ~circuit.due

CallBreaker(r) ==
  /\ Reaches(r, "breaker")
  /\ circuit' = IF circuit.due THEN Closed ELSE circuit
  /\ IF Open THEN /\ got' = [got EXCEPT ![r] = "unavailable"]
                  /\ Goes(r, "return")
                  /\ UNCHANGED frames
     ELSE Push(r, "breaker") /\ UNCHANGED <<got, phase>>
  /\ UNCHANGED <<token, refreshing, streak>>

CallRetry(r) ==
  /\ Reaches(r, "retry")
  /\ Push(r, "retry")
  /\ UNCHANGED <<phase, got, circuit, token, refreshing, streak>>

\* A token that is missing, or about to expire, is refreshed first.
CallNode(r) ==
  /\ Reaches(r, "node")
  /\ Push(r, "node")
  /\ IF token = "good" THEN UNCHANGED <<phase, refreshing>>
     ELSE Goes(r, "refresh") /\ refreshing' = TRUE
  /\ UNCHANGED <<got, circuit, token, streak>>

Answers == {"ok", "unavailable", "unauthorized"}

Answer(r, a) ==
  /\ phase[r] = "sent" /\ Alone(r)
  /\ got' = [got EXCEPT ![r] = a]
  /\ Goes(r, "return")
  /\ streak' = CASE a = "ok" -> 0
                 [] a = "unavailable" -> Upto(streak + 1)
                 [] OTHER -> streak
  /\ UNCHANGED <<left, frames, circuit, token, refreshing>>

(***************************************************************************)
(* The answer goes back through the features that wait.                     *)
(***************************************************************************)

Returns(r, f) ==
  /\ phase[r] = "return" /\ Alone(r)
  /\ frames[r] # <<>> /\ Top(r).feature = f

\* Mutation: every error is counted, also one without a status.
ReturnBreakerCounts(r) ==
  /\ Returns(r, "breaker")
  /\ circuit' = IF got[r] = "ok" THEN Closed
                ELSE [failures |-> Upto(circuit.failures + 1), due |-> FALSE]
  /\ Pop(r)
  /\ UNCHANGED <<phase, left, got, token, refreshing, streak>>

ReturnBreaker(r) ==
  /\ Returns(r, "breaker")
  /\ circuit' = CASE got[r] = "ok" -> Closed
                  [] got[r] = "unavailable" ->
                       [failures |-> Upto(circuit.failures + 1), due |-> FALSE]
                  [] OTHER -> circuit
  /\ Pop(r)
  /\ UNCHANGED <<phase, left, got, token, refreshing, streak>>

\* count is the number of attempts that failed before.
ReturnRetry(r) ==
  /\ Returns(r, "retry")
  /\ IF got[r] = "unavailable" /\ Top(r).count + 1 < MaxAttempts
     THEN Count(r) /\ Goes(r, "pause")
     ELSE Pop(r) /\ UNCHANGED phase
  /\ UNCHANGED <<left, got, circuit, token, refreshing, streak>>

ReturnNode(r) ==
  /\ Returns(r, "node")
  /\ IF got[r] # "unauthorized"
     THEN Pop(r) /\ UNCHANGED <<phase, got, refreshing>>
     ELSE IF Top(r).count + 1 >= MaxRetries
     THEN /\ Pop(r) /\ got' = [got EXCEPT ![r] = "error"]
          /\ UNCHANGED <<phase, refreshing>>
     ELSE /\ Count(r) /\ Goes(r, "refresh") /\ refreshing' = TRUE
          /\ UNCHANGED got
  /\ UNCHANGED <<left, circuit, token, streak>>

End(r) ==
  /\ phase[r] = "return" /\ Alone(r) /\ frames[r] = <<>>
  /\ Goes(r, "idle")
  /\ got' = [got EXCEPT ![r] = "ok"]
  /\ left' = [left EXCEPT ![r] = 0]
  /\ UNCHANGED <<frames, circuit, token, refreshing, streak>>

(***************************************************************************)
(* What requests wait for                                                   *)
(***************************************************************************)

PauseEnds(r) ==
  /\ phase[r] = "pause" /\ Alone(r)
  /\ Goes(r, "call")
  /\ UNCHANGED <<left, frames, got, circuit, token, refreshing, streak>>

\* All who wait go on, one after the other; with a token, or with an exception.
RefreshEnds(t) ==
  /\ refreshing /\ \A r \in Requests : ~Running(r)
  /\ token' = t
  /\ refreshing' = FALSE
  /\ phase' = [r \in Requests |-> IF phase[r] = "refresh" THEN "resume" ELSE phase[r]]
  /\ got' = [r \in Requests |->
       IF phase[r] = "refresh" THEN (IF t = "none" THEN "error" ELSE "ok") ELSE got[r]]
  /\ UNCHANGED <<left, frames, circuit, streak>>

Resume(r) ==
  /\ phase[r] = "resume" /\ Alone(r)
  /\ IF got[r] = "error" THEN Pop(r) /\ Goes(r, "return")
     ELSE Goes(r, "call") /\ UNCHANGED frames
  /\ UNCHANGED <<left, got, circuit, token, refreshing, streak>>

TokenExpires ==
  /\ token = "good"
  /\ token' = "expired"
  /\ UNCHANGED <<phase, left, frames, got, circuit, refreshing, streak>>

ResetIsDue ==
  /\ circuit.failures > 0
  /\ circuit' = [circuit EXCEPT !.due = TRUE]
  /\ UNCHANGED <<phase, left, frames, got, token, refreshing, streak>>

Next ==
  \/ \E r \in Requests : Begin(r) \/ Send(r) \/ End(r)
  \/ \E r \in Requests : CallBreaker(r) \/ CallRetry(r) \/ CallNode(r)
  \/ \E r \in Requests : ReturnBreaker(r) \/ ReturnRetry(r) \/ ReturnNode(r)
  \/ \E r \in Requests, a \in Answers : Answer(r, a)
  \/ \E r \in Requests : PauseEnds(r) \/ Resume(r)
  \/ \E t \in {"none", "good", "expired"} : RefreshEnds(t)
  \/ TokenExpires
  \/ ResetIsDue

Spec == Init /\ [][Next]_vars

(***************************************************************************)
(* Properties                                                               *)
(***************************************************************************)

TypeOK ==
  /\ phase \in [Requests -> {"idle", "call", "sent", "return", "pause", "refresh", "resume"}]
  /\ left \in [Requests -> 0..Len(Chain)]
  /\ got \in [Requests -> Answers \cup {"error"}]
  /\ circuit \in [failures : 0..MaxFailures, due : BOOLEAN]
  /\ token \in {"none", "good", "expired"} /\ refreshing \in BOOLEAN
  /\ streak \in 0..MaxFailures

\* "Maximum number of consecutive failures before opening circuit": what counts as
\* a failure is an answer, and one that succeeds in between starts the count anew,
\* in whichever order the answers of requests that are made together come.
FailuresAreConsecutive ==
  (\A r \in Requests : phase[r] # "return") => circuit.failures <= streak
=============================================================================
