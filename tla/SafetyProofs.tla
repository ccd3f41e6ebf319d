---------------------------- MODULE SafetyProofs ----------------------------
(***************************************************************************)
(* Proofs about two more components of MCSafety, for any constants: the web *)
(* client, and the search index.                                            *)
(***************************************************************************)
EXTENDS MCSafety, Sequences, FiniteSetTheorems, WellFoundedInduction, TLAPS

(***************************************************************************)
(* The web client                                                           *)
(***************************************************************************)

\* The circuit breaker, if the chain has one, is called first: it is the last.
BreakerLast == \A i \in 1..(Len(Chain) - 1) : Chain[i] # "breaker"

HasBreaker == Len(Chain) > 0 /\ Chain[Len(Chain)] = "breaker"

Frame == [feature : {"breaker", "retry", "node"}, count : Nat]

\* The features that wait are those that were called, the breaker below the others.
FrameInv(r) ==
  /\ frames[r] # <<>> => left[r] < Len(Chain)
  /\ phase[r] = "idle" => frames[r] = <<>>
  /\ phase[r] = "sent" => left[r] = 0
  /\ phase[r] \in {"refresh", "resume"} => frames[r] # <<>> /\ Client!Top(r).feature = "node"
  /\ \A i \in 2..Len(frames[r]) : frames[r][i].feature # "breaker"
  /\ HasBreaker =>
       /\ frames[r] # <<>> => frames[r][1].feature = "breaker"
       /\ phase[r] \in {"call", "sent", "pause"} /\ left[r] < Len(Chain) => frames[r] # <<>>
  /\ ~HasBreaker => \A i \in 1..Len(frames[r]) : frames[r][i].feature # "breaker"

\* No more is counted than has failed; an answer on its way back is not counted yet.
AnswerCounts(r) ==
  phase[r] = "return" =>
    /\ got[r] # "ok" \/ frames[r] = <<>> => circuit.failures <= streak
    /\ got[r] = "unavailable" /\ frames[r] # <<>> => Client!Upto(circuit.failures + 1) <= streak

CountInv ==
  /\ Client!FailuresAreConsecutive
  /\ \A r \in Requests : AnswerCounts(r)

ClientTypes == Client!TypeOK /\ frames \in [Requests -> Seq(Frame)]

ClientInv ==
  /\ ClientTypes
  /\ \A q, r \in Requests : Client!Running(q) /\ Client!Running(r) => q = r
  /\ \A r \in Requests : FrameInv(r)
  /\ IF HasBreaker THEN CountInv ELSE circuit.failures = 0

\* A request that is not r is left as it is.
Elsewhere(r) ==
  \A q \in Requests \ {r} : /\ phase'[q] = phase[q] /\ left'[q] = left[q]
                            /\ frames'[q] = frames[q] /\ got'[q] = got[q]

OneRequest(r) ==
  \/ Client!Begin(r) \/ Client!Send(r) \/ Client!End(r)
  \/ Client!CallBreaker(r) \/ Client!CallRetry(r) \/ Client!CallNode(r)
  \/ Client!ReturnBreaker(r) \/ Client!ReturnRetry(r) \/ Client!ReturnNode(r)
  \/ Client!PauseEnds(r) \/ Client!Resume(r)
  \/ \E a \in Client!Answers : Client!Answer(r, a)

\* What pushing, popping and counting do to the features that wait.
LEMMA FrameChanges ==
  ASSUME NEW s \in Seq(Frame), NEW f \in Frame, NEW n \in Nat
  PROVE  /\ Append(s, f) \in Seq(Frame) /\ Len(Append(s, f)) = Len(s) + 1
         /\ \A i \in 1..Len(s) : Append(s, f)[i] = s[i]
         /\ Append(s, f)[Len(s) + 1] = f
         /\ s # <<>> => /\ SubSeq(s, 1, Len(s) - 1) \in Seq(Frame)
                        /\ Len(SubSeq(s, 1, Len(s) - 1)) = Len(s) - 1
                        /\ \A i \in 1..(Len(s) - 1) : SubSeq(s, 1, Len(s) - 1)[i] = s[i]
                        /\ s[Len(s)] \in Frame
OBVIOUS

\* A feature is called.
LEMMA Pushed ==
  ASSUME ClientTypes, NEW r \in Requests, NEW f \in {"breaker", "retry", "node"}, Client!Push(r, f)
  PROVE  /\ frames' \in [Requests -> Seq(Frame)]
         /\ \A q \in Requests \ {r} : frames'[q] = frames[q]
         /\ Len(frames'[r]) = Len(frames[r]) + 1 /\ frames'[r] # <<>>
         /\ \A i \in 1..Len(frames[r]) : frames'[r][i] = frames[r][i]
         /\ frames'[r][Len(frames'[r])].feature = f
<1> DEFINE s == frames[r]
           g == [feature |-> f, count |-> 0]
<1>1. s \in Seq(Frame) /\ g \in Frame
  BY DEF ClientTypes, Frame
<1>2. frames' = [frames EXCEPT ![r] = Append(s, g)]
  BY DEF Client!Push
<1>3. frames'[r] = Append(s, g) /\ \A q \in Requests \ {r} : frames'[q] = frames[q]
  BY <1>2 DEF ClientTypes
<1>4. /\ Append(s, g) \in Seq(Frame) /\ Len(Append(s, g)) = Len(s) + 1
      /\ \A i \in 1..Len(s) : Append(s, g)[i] = s[i]
      /\ Append(s, g)[Len(s) + 1] = g
  BY <1>1, FrameChanges
<1>5. frames' \in [Requests -> Seq(Frame)]
  BY <1>2, <1>4 DEF ClientTypes
<1>6. Append(s, g) # <<>>
  BY <1>1, <1>4
<1>. QED  BY <1>3, <1>4, <1>5, <1>6

\* A feature is done.
LEMMA Popped ==
  ASSUME ClientTypes, NEW r \in Requests, frames[r] # <<>>, Client!Pop(r)
  PROVE  /\ frames' \in [Requests -> Seq(Frame)]
         /\ \A q \in Requests \ {r} : frames'[q] = frames[q]
         /\ Len(frames'[r]) = Len(frames[r]) - 1
         /\ Len(frames[r]) > 1 => frames'[r] # <<>>
         /\ \A i \in 1..(Len(frames[r]) - 1) : frames'[r][i] = frames[r][i]
<1> DEFINE s == frames[r]
<1>1. s \in Seq(Frame)
  BY DEF ClientTypes
<1>2. frames' = [frames EXCEPT ![r] = SubSeq(s, 1, Len(s) - 1)]
  BY DEF Client!Pop, Client!Below
<1>3. /\ SubSeq(s, 1, Len(s) - 1) \in Seq(Frame)
      /\ Len(SubSeq(s, 1, Len(s) - 1)) = Len(s) - 1
      /\ \A i \in 1..(Len(s) - 1) : SubSeq(s, 1, Len(s) - 1)[i] = s[i]
  BY <1>1, FrameChanges
<1>4. /\ frames'[r] = SubSeq(s, 1, Len(s) - 1)
      /\ \A q \in Requests \ {r} : frames'[q] = frames[q]
  BY <1>2 DEF ClientTypes
<1>5. frames' \in [Requests -> Seq(Frame)]
  BY <1>2, <1>3 DEF ClientTypes
<1>6. ASSUME Len(s) > 1 PROVE SubSeq(s, 1, Len(s) - 1) # <<>>
  <2> DEFINE t == SubSeq(s, 1, Len(s) - 1)
  <2>1. t \in Seq(Frame) /\ Len(t) > 0
    BY <1>1, <1>3, <1>6
  <2> HIDE DEF t
  <2>2. t # <<>>
    BY <2>1
  <2>. QED  BY <2>2 DEF t
<1>. QED  BY <1>3, <1>4, <1>5, <1>6

\* A feature tries again.
LEMMA TriedAgain ==
  ASSUME ClientTypes, NEW r \in Requests, frames[r] # <<>>, Client!Count(r)
  PROVE  /\ frames' \in [Requests -> Seq(Frame)]
         /\ \A q \in Requests \ {r} : frames'[q] = frames[q]
         /\ Len(frames'[r]) = Len(frames[r]) /\ frames'[r] # <<>>
         /\ \A i \in 1..Len(frames[r]) : frames'[r][i].feature = frames[r][i].feature
<1> DEFINE s == frames[r]
           b == SubSeq(s, 1, Len(s) - 1)
           g == [s[Len(s)] EXCEPT !.count = s[Len(s)].count + 1]
<1>1. s \in Seq(Frame) /\ s # <<>>
  BY DEF ClientTypes
<1>2. /\ b \in Seq(Frame) /\ Len(b) = Len(s) - 1
      /\ \A i \in 1..(Len(s) - 1) : b[i] = s[i]
      /\ s[Len(s)] \in Frame
  BY <1>1, FrameChanges
<1>3. g \in Frame /\ g.feature = s[Len(s)].feature
  BY <1>2 DEF Frame
<1>4. frames' = [frames EXCEPT ![r] = Append(b, g)]
  BY DEF Client!Count, Client!Below, Client!Top
<1> HIDE DEF b, g
<1>5. /\ Append(b, g) \in Seq(Frame) /\ Len(Append(b, g)) = Len(s)
      /\ \A i \in 1..Len(b) : Append(b, g)[i] = b[i]
      /\ Append(b, g)[Len(s)] = g
  BY <1>1, <1>2, <1>3, FrameChanges
<1>6. frames'[r] = Append(b, g) /\ \A q \in Requests \ {r} : frames'[q] = frames[q]
  BY <1>4 DEF ClientTypes
<1>7. frames' \in [Requests -> Seq(Frame)]
  BY <1>4, <1>5 DEF ClientTypes
<1>8. ASSUME NEW i \in 1..Len(s)
      PROVE  Append(b, g)[i].feature = s[i].feature
  <2>1. CASE i = Len(s)
    BY <1>3, <1>5, <2>1
  <2>2. CASE i # Len(s)
    BY <1>1, <1>2, <1>5, <2>2
  <2>. QED  BY <2>1, <2>2
<1>9. Append(b, g) # <<>>
  BY <1>1, <1>5
<1>. QED  BY <1>5, <1>6, <1>7, <1>8, <1>9

\* The topmost feature that waits.
LEMMA OnTop ==
  ASSUME ClientTypes, NEW r \in Requests, frames[r] # <<>>
  PROVE  /\ Len(frames[r]) \in Nat \ {0}
         /\ Client!Top(r) = frames[r][Len(frames[r])]
         /\ Client!Top(r).feature \in {"breaker", "retry", "node"}
<1>1. frames[r] \in Seq(Frame)
  BY DEF ClientTypes
<1>2. Len(frames[r]) \in Nat \ {0} /\ frames[r][Len(frames[r])] \in Frame
  BY <1>1
<1>. QED  BY <1>2 DEF Client!Top, Frame

\* What the assumption says of the chain.
LEMMA ClientFacts ==
  /\ Len(Chain) \in Nat
  /\ \A i \in 1..Len(Chain) : Chain[i] \in {"breaker", "retry", "node"}
  /\ MaxFailures \in Nat \ {0}
BY WebAssumption DEF Client!ClientAssumption

\* Where a request is in the chain.
LEMMA ChainPlace ==
  ASSUME BreakerLast, ClientTypes, NEW r \in Requests, FrameInv(r), NEW f, Client!Reaches(r, f)
  PROVE  /\ f \in {"breaker", "retry", "node"}
         /\ phase[r] = "call" /\ left[r] > 0 /\ left'[r] = left[r] - 1
         /\ left'[r] < Len(Chain) /\ left' \in [Requests -> 0..Len(Chain)]
         /\ \A q \in Requests \ {r} : left'[q] = left[q]
         /\ f = "breaker" => HasBreaker /\ frames[r] = <<>>
         /\ HasBreaker /\ f # "breaker" => frames[r] # <<>>
<1>1. /\ phase[r] = "call" /\ left[r] > 0 /\ Chain[left[r]] = f
      /\ left' = [left EXCEPT ![r] = left[r] - 1]
  BY DEF Client!Reaches
<1>2. left[r] \in 1..Len(Chain)
  BY <1>1, ClientFacts DEF ClientTypes, Client!TypeOK
<1>3. left[r] # Len(Chain) => f # "breaker"
  BY <1>1, <1>2, ClientFacts DEF BreakerLast
<1>4. /\ left'[r] = left[r] - 1 /\ left' \in [Requests -> 0..Len(Chain)]
      /\ \A q \in Requests \ {r} : left'[q] = left[q]
  BY <1>1, <1>2, ClientFacts DEF ClientTypes, Client!TypeOK
<1>5. f = "breaker" => HasBreaker /\ frames[r] = <<>>
  BY <1>1, <1>2, <1>3, ClientFacts DEF HasBreaker, FrameInv
<1>6. HasBreaker /\ f # "breaker" => frames[r] # <<>>
  BY <1>1, <1>2, <1>3, ClientFacts DEF HasBreaker, FrameInv
<1>. QED  BY <1>1, <1>2, <1>4, <1>5, <1>6, ClientFacts

\* A feature that is pushed is in order.
LEMMA PushKeeps ==
  ASSUME BreakerLast, ClientTypes, NEW r \in Requests, FrameInv(r),
         NEW f, Client!Reaches(r, f), Client!Push(r, f),
         phase'[r] = "call" \/ (phase'[r] = "refresh" /\ f = "node")
  PROVE  FrameInv(r)' /\ frames' \in [Requests -> Seq(Frame)]
<1>1. f \in {"breaker", "retry", "node"}
  BY ChainPlace
<1>2. /\ frames' \in [Requests -> Seq(Frame)]
      /\ Len(frames'[r]) = Len(frames[r]) + 1 /\ frames'[r] # <<>>
      /\ \A i \in 1..Len(frames[r]) : frames'[r][i] = frames[r][i]
      /\ frames'[r][Len(frames'[r])].feature = f
  BY <1>1, Pushed
<1>3. Len(frames[r]) \in Nat /\ (frames[r] = <<>> <=> Len(frames[r]) = 0)
  BY DEF ClientTypes
<1>4. ASSUME NEW i \in 2..Len(frames'[r])
      PROVE  frames'[r][i].feature # "breaker"
  <2>1. CASE i = Len(frames'[r])
    BY <1>2, <1>3, <1>4, <2>1, ChainPlace
  <2>2. CASE i # Len(frames'[r])
    BY <1>2, <1>3, <1>4, <2>2 DEF FrameInv
  <2>. QED  BY <2>1, <2>2
<1>5. ASSUME HasBreaker
      PROVE  frames'[r][1].feature = "breaker"
  <2>1. CASE frames[r] = <<>>
    <3>1. f = "breaker"
      BY <1>5, <2>1, ChainPlace
    <3>. QED  BY <1>2, <1>3, <2>1, <3>1
  <2>2. CASE frames[r] # <<>>
    BY <1>2, <1>3, <1>5, <2>2 DEF FrameInv
  <2>. QED  BY <2>1, <2>2
<1>6. ASSUME ~HasBreaker, NEW i \in 1..Len(frames'[r])
      PROVE  frames'[r][i].feature # "breaker"
  <2>1. CASE i = Len(frames'[r])
    BY <1>2, <1>6, <2>1, ChainPlace
  <2>2. CASE i # Len(frames'[r])
    BY <1>2, <1>3, <1>6, <2>2 DEF FrameInv
  <2>. QED  BY <2>1, <2>2
<1>7. phase'[r] \in {"refresh", "resume"} => Client!Top(r)'.feature = "node"
  BY <1>2 DEF Client!Top
<1>8. left'[r] < Len(Chain) /\ phase'[r] # "idle" /\ phase'[r] # "sent"
  BY ChainPlace
<1>9. HasBreaker' <=> HasBreaker
  BY DEF HasBreaker
<1>. QED  BY <1>2, <1>4, <1>5, <1>6, <1>7, <1>8, <1>9 DEF FrameInv

\* So are those that are left when one is done; the breaker goes last.
LEMMA PopKeeps ==
  ASSUME BreakerLast, ClientTypes, NEW r \in Requests, FrameInv(r), frames[r] # <<>>, Client!Pop(r),
         left'[r] = left[r], phase'[r] = "return"
  PROVE  /\ FrameInv(r)' /\ frames' \in [Requests -> Seq(Frame)]
         /\ HasBreaker /\ Client!Top(r).feature # "breaker" => frames'[r] # <<>>
         /\ HasBreaker /\ Client!Top(r).feature = "breaker" => frames'[r] = <<>>
<1>1. /\ frames' \in [Requests -> Seq(Frame)]
      /\ Len(frames'[r]) = Len(frames[r]) - 1
      /\ Len(frames[r]) > 1 => frames'[r] # <<>>
      /\ \A i \in 1..(Len(frames[r]) - 1) : frames'[r][i] = frames[r][i]
  BY Popped
<1>2. Len(frames[r]) \in Nat \ {0} /\ Client!Top(r) = frames[r][Len(frames[r])]
  BY OnTop
<1>3. \A i \in 2..Len(frames'[r]) : frames'[r][i].feature # "breaker"
  BY <1>1, <1>2 DEF FrameInv
<1>4. HasBreaker /\ Len(frames[r]) > 1 => frames'[r][1].feature = "breaker"
  BY <1>1, <1>2 DEF FrameInv
<1>5. ~HasBreaker => \A i \in 1..Len(frames'[r]) : frames'[r][i].feature # "breaker"
  BY <1>1, <1>2 DEF FrameInv
<1>6. ASSUME ~(Len(frames[r]) > 1) PROVE frames'[r] = <<>>
  <2>1. frames'[r] \in Seq(Frame) /\ Len(frames'[r]) < 1
    BY <1>1, <1>2, <1>6
  <2>. QED  BY <2>1
<1>7. ASSUME HasBreaker, Client!Top(r).feature = "breaker" PROVE ~(Len(frames[r]) > 1)
  <2>1. \A i \in 2..Len(frames[r]) : frames[r][i].feature # "breaker"
    BY DEF FrameInv
  <2>2. Len(frames[r]) > 1 => Len(frames[r]) \in 2..Len(frames[r])
    BY <1>2
  <2>3. Len(frames[r]) > 1 => frames[r][Len(frames[r])].feature # "breaker"
    BY <2>1, <2>2
  <2>4. frames[r][Len(frames[r])].feature = "breaker"
    BY <1>2, <1>7
  <2>. QED  BY <2>3, <2>4
<1>8. HasBreaker /\ Client!Top(r).feature # "breaker" => Len(frames[r]) > 1
  BY <1>2 DEF FrameInv
<1>9. left'[r] < Len(Chain)
  BY DEF FrameInv
<1>10. HasBreaker' <=> HasBreaker
  BY DEF HasBreaker
<1>11. FrameInv(r)'
  BY <1>1, <1>2, <1>3, <1>4, <1>5, <1>6, <1>9, <1>10 DEF FrameInv
<1>. QED  BY <1>1, <1>6, <1>7, <1>8, <1>11

\* So are those that are left when one tries again.
LEMMA CountKeeps ==
  ASSUME BreakerLast, ClientTypes, NEW r \in Requests, FrameInv(r), frames[r] # <<>>, Client!Count(r),
         left'[r] = left[r],
         phase'[r] = "pause" \/ (phase'[r] = "refresh" /\ Client!Top(r).feature = "node")
  PROVE  FrameInv(r)' /\ frames' \in [Requests -> Seq(Frame)]
<1>1. /\ frames' \in [Requests -> Seq(Frame)]
      /\ Len(frames'[r]) = Len(frames[r]) /\ frames'[r] # <<>>
      /\ \A i \in 1..Len(frames[r]) : frames'[r][i].feature = frames[r][i].feature
  BY TriedAgain
<1>2. Len(frames[r]) \in Nat \ {0} /\ Client!Top(r) = frames[r][Len(frames[r])]
  BY OnTop
<1>3. Client!Top(r)'.feature = Client!Top(r).feature
  BY <1>1, <1>2 DEF Client!Top
<1>4. HasBreaker' <=> HasBreaker
  BY DEF HasBreaker
<1>5. \A i \in 2..Len(frames'[r]) : frames'[r][i].feature # "breaker"
  BY <1>1, <1>2 DEF FrameInv
<1>6. HasBreaker => frames'[r][1].feature = "breaker"
  BY <1>1, <1>2 DEF FrameInv
<1>7. ~HasBreaker => \A i \in 1..Len(frames'[r]) : frames'[r][i].feature # "breaker"
  BY <1>1, <1>2 DEF FrameInv
<1>8. left'[r] < Len(Chain)
  BY DEF FrameInv
<1>. QED  BY <1>1, <1>3, <1>4, <1>5, <1>6, <1>7, <1>8 DEF FrameInv

\* Those that wait for the same are in order.
LEMMA MoveKeeps ==
  ASSUME ClientTypes, NEW r \in Requests, FrameInv(r), frames'[r] = frames[r],
         \/ left'[r] = left[r]
         \/ frames[r] = <<>> /\ left'[r] = 0 /\ phase'[r] = "idle"
         \/ frames[r] = <<>> /\ left'[r] = Len(Chain) /\ phase'[r] = "call",
         phase'[r] = "idle" => frames[r] = <<>>,
         phase'[r] = "sent" => left'[r] = 0,
         phase'[r] \in {"refresh", "resume"} => phase[r] = "refresh",
         phase'[r] \in {"call", "sent", "pause"} =>
           phase[r] \in {"call", "sent", "pause", "resume"} \/ left'[r] = Len(Chain)
  PROVE  FrameInv(r)'
<1>1. HasBreaker' <=> HasBreaker
  BY DEF HasBreaker
<1>2. Client!Top(r)' = Client!Top(r)
  BY DEF Client!Top
<1>. QED  BY <1>1, <1>2, ClientFacts DEF FrameInv

\* Every step keeps the types and touches one request, whose features that wait
\* are in order.
LEMMA RequestStep ==
  ASSUME BreakerLast, ClientTypes, NEW r \in Requests, FrameInv(r), OneRequest(r)
  PROVE  ClientTypes' /\ Elsewhere(r) /\ FrameInv(r)'
<1> USE ClientFacts DEF Client!Goes
<1>a. ASSUME NEW p, phase' = [phase EXCEPT ![r] = p]
      PROVE  phase'[r] = p /\ \A q \in Requests \ {r} : phase'[q] = phase[q]
  BY <1>a DEF ClientTypes, Client!TypeOK
<1>1. CASE Client!Begin(r)
  <2>1. ClientTypes' /\ Elsewhere(r)
    BY <1>1 DEF Client!Begin, ClientTypes, Client!TypeOK, Elsewhere
  <2>2. frames[r] = <<>> /\ left'[r] = Len(Chain) /\ phase'[r] = "call" /\ frames' = frames
    BY <1>1 DEF Client!Begin, FrameInv, ClientTypes, Client!TypeOK
  <2>. QED  BY <2>1, <2>2, MoveKeeps
<1>2. CASE Client!Send(r) \/ Client!PauseEnds(r)
  <2>1. ClientTypes' /\ Elsewhere(r)
    BY <1>2 DEF Client!Send, Client!PauseEnds, ClientTypes, Client!TypeOK, Elsewhere
  <2>2. /\ phase[r] \in {"call", "pause"} /\ phase'[r] \in {"call", "sent"}
        /\ phase'[r] = "sent" => left[r] = 0
        /\ frames' = frames /\ left' = left
    BY <1>2 DEF Client!Send, Client!PauseEnds, ClientTypes, Client!TypeOK
  <2>. QED  BY <2>1, <2>2, MoveKeeps
<1>3. CASE Client!End(r)
  <2>1. ClientTypes' /\ Elsewhere(r)
    BY <1>3 DEF Client!End, ClientTypes, Client!TypeOK, Elsewhere, Client!Answers
  <2>2. frames[r] = <<>> /\ left'[r] = 0 /\ phase'[r] = "idle" /\ frames' = frames
    BY <1>3 DEF Client!End, ClientTypes, Client!TypeOK
  <2>. QED  BY <2>1, <2>2, MoveKeeps
<1>4. CASE Client!CallBreaker(r)
  <2>1. Client!Reaches(r, "breaker")
    BY <1>4 DEF Client!CallBreaker
  <2>2. /\ phase[r] = "call" /\ left' \in [Requests -> 0..Len(Chain)]
        /\ left'[r] < Len(Chain) /\ \A q \in Requests \ {r} : left'[q] = left[q]
        /\ frames[r] = <<>>
    BY <2>1, ChainPlace
  <2>3. circuit' \in [failures : 0..MaxFailures, due : BOOLEAN]
    BY <1>4 DEF Client!CallBreaker, ClientTypes, Client!TypeOK, Client!Closed
  <2>4. CASE Client!Open
    <3>1. /\ got' = [got EXCEPT ![r] = "unavailable"] /\ phase' = [phase EXCEPT ![r] = "return"]
          /\ frames' = frames /\ UNCHANGED <<token, refreshing, streak>>
      BY <1>4, <2>4 DEF Client!CallBreaker
    <3>2. ClientTypes' /\ Elsewhere(r)
      BY <2>2, <2>3, <3>1 DEF ClientTypes, Client!TypeOK, Elsewhere, Client!Answers
    <3>3. phase'[r] = "return" /\ frames'[r] = <<>>
      BY <2>2, <3>1 DEF ClientTypes, Client!TypeOK
    <3>4. FrameInv(r)'
      BY <3>3 DEF FrameInv
    <3>. QED  BY <3>2, <3>4
  <2>5. CASE ~Client!Open
    <3>1. Client!Push(r, "breaker") /\ UNCHANGED <<got, phase, token, refreshing, streak>>
      BY <1>4, <2>5 DEF Client!CallBreaker
    <3>2. FrameInv(r)' /\ frames' \in [Requests -> Seq(Frame)]
      BY <2>1, <2>2, <3>1, PushKeeps
    <3>3. \A q \in Requests \ {r} : frames'[q] = frames[q]
      BY <3>1, Pushed
    <3>. QED  BY <2>2, <2>3, <3>1, <3>2, <3>3 DEF ClientTypes, Client!TypeOK, Elsewhere
  <2>. QED  BY <2>4, <2>5
<1>5. CASE Client!CallRetry(r) \/ Client!CallNode(r)
  <2>1. PICK f \in {"retry", "node"} :
          /\ Client!Reaches(r, f) /\ Client!Push(r, f)
          /\ UNCHANGED <<got, circuit, token, streak>>
          /\ UNCHANGED <<phase, refreshing>> \/ (phase' = [phase EXCEPT ![r] = "refresh"]
                                                /\ refreshing' = TRUE /\ f = "node")
    BY <1>5 DEF Client!CallRetry, Client!CallNode
  <2>2. /\ phase[r] = "call" /\ left' \in [Requests -> 0..Len(Chain)]
        /\ \A q \in Requests \ {r} : left'[q] = left[q]
    BY <2>1, ChainPlace
  <2>3. phase'[r] = "call" \/ (phase'[r] = "refresh" /\ f = "node")
    BY <2>1, <2>2, <1>a
  <2>4. FrameInv(r)' /\ frames' \in [Requests -> Seq(Frame)]
    BY <2>1, <2>3, PushKeeps
  <2>5. \A q \in Requests \ {r} : frames'[q] = frames[q]
    BY <2>1, Pushed
  <2>. QED  BY <2>1, <2>2, <2>4, <2>5 DEF ClientTypes, Client!TypeOK, Elsewhere
<1>6. CASE Client!ReturnBreaker(r)
  <2>1. /\ phase[r] = "return" /\ frames[r] # <<>> /\ Client!Pop(r)
        /\ UNCHANGED <<phase, left, got, token, refreshing, streak>>
    BY <1>6 DEF Client!ReturnBreaker, Client!Returns
  <2>2. circuit' \in [failures : 0..MaxFailures, due : BOOLEAN]
    BY <1>6 DEF Client!ReturnBreaker, ClientTypes, Client!TypeOK, Client!Closed, Client!Upto
  <2>3. FrameInv(r)' /\ frames' \in [Requests -> Seq(Frame)]
    BY <2>1, PopKeeps
  <2>4. \A q \in Requests \ {r} : frames'[q] = frames[q]
    BY <2>1, Popped
  <2>. QED  BY <2>1, <2>2, <2>3, <2>4 DEF ClientTypes, Client!TypeOK, Elsewhere
<1>7. CASE Client!ReturnRetry(r) \/ Client!ReturnNode(r)
  <2>1. /\ phase[r] = "return" /\ frames[r] # <<>>
        /\ UNCHANGED <<left, circuit, token, streak>>
    BY <1>7 DEF Client!ReturnRetry, Client!ReturnNode, Client!Returns
  <2>2. /\ got' \in [Requests -> Client!Answers \cup {"error"}] /\ refreshing' \in BOOLEAN
        /\ \A q \in Requests \ {r} : got'[q] = got[q]
    BY <1>7 DEF Client!ReturnRetry, Client!ReturnNode, ClientTypes, Client!TypeOK
  <2>3. \/ Client!Pop(r) /\ phase' = phase
        \/ Client!Count(r) /\ phase' = [phase EXCEPT ![r] = "pause"]
        \/ Client!Count(r) /\ phase' = [phase EXCEPT ![r] = "refresh"] /\ Client!Top(r).feature = "node"
    BY <1>7 DEF Client!ReturnRetry, Client!ReturnNode, Client!Returns
  <2>4. CASE Client!Pop(r) /\ phase' = phase
    <3>1. FrameInv(r)' /\ frames' \in [Requests -> Seq(Frame)]
      BY <2>1, <2>4, PopKeeps
    <3>2. \A q \in Requests \ {r} : frames'[q] = frames[q]
      BY <2>1, <2>4, Popped
    <3>. QED  BY <2>1, <2>2, <2>4, <3>1, <3>2 DEF ClientTypes, Client!TypeOK, Elsewhere
  <2>5. ASSUME Client!Count(r), NEW p \in {"pause", "refresh"}, phase' = [phase EXCEPT ![r] = p],
               p = "refresh" => Client!Top(r).feature = "node"
        PROVE  ClientTypes' /\ Elsewhere(r) /\ FrameInv(r)'
    <3>1. phase'[r] = p
      BY <2>5, <1>a
    <3>2. FrameInv(r)' /\ frames' \in [Requests -> Seq(Frame)]
      BY <2>1, <2>5, <3>1, CountKeeps
    <3>3. \A q \in Requests \ {r} : frames'[q] = frames[q]
      BY <2>1, <2>5, TriedAgain
    <3>. QED  BY <2>1, <2>2, <2>5, <3>2, <3>3 DEF ClientTypes, Client!TypeOK, Elsewhere
  <2>. QED  BY <2>3, <2>4, <2>5
<1>8. CASE Client!Resume(r)
  <2>1. /\ phase[r] = "resume" /\ frames[r] # <<>>
        /\ UNCHANGED <<left, got, circuit, token, refreshing, streak>>
    BY <1>8 DEF Client!Resume, FrameInv
  <2>2. CASE got[r] = "error"
    <3>1. Client!Pop(r) /\ phase' = [phase EXCEPT ![r] = "return"]
      BY <1>8, <2>2 DEF Client!Resume
    <3>2. phase'[r] = "return"
      BY <3>1, <1>a
    <3>3. FrameInv(r)' /\ frames' \in [Requests -> Seq(Frame)]
      BY <2>1, <3>1, <3>2, PopKeeps
    <3>4. \A q \in Requests \ {r} : frames'[q] = frames[q]
      BY <2>1, <3>1, Popped
    <3>. QED  BY <2>1, <3>1, <3>3, <3>4 DEF ClientTypes, Client!TypeOK, Elsewhere
  <2>3. CASE got[r] # "error"
    <3>1. frames' = frames /\ phase' = [phase EXCEPT ![r] = "call"]
      BY <1>8, <2>3 DEF Client!Resume
    <3>2. ClientTypes' /\ Elsewhere(r)
      BY <2>1, <3>1 DEF ClientTypes, Client!TypeOK, Elsewhere
    <3>. QED  BY <2>1, <3>1, <3>2, <1>a, MoveKeeps
  <2>. QED  BY <2>2, <2>3
<1>9. ASSUME NEW a \in Client!Answers, Client!Answer(r, a)
      PROVE  ClientTypes' /\ Elsewhere(r) /\ FrameInv(r)'
  <2>1. ClientTypes' /\ Elsewhere(r)
    <3>1. streak' \in 0..MaxFailures
      BY <1>9 DEF Client!Answer, ClientTypes, Client!TypeOK, Client!Upto, Client!Answers
    <3>. QED  BY <1>9, <3>1 DEF Client!Answer, ClientTypes, Client!TypeOK, Elsewhere
  <2>2. phase[r] = "sent" /\ phase'[r] = "return" /\ left' = left /\ frames' = frames
    BY <1>9, <1>a DEF Client!Answer
  <2>. QED  BY <2>1, <2>2, MoveKeeps
<1>. QED  BY <1>1, <1>2, <1>3, <1>4, <1>5, <1>6, <1>7, <1>8, <1>9 DEF OneRequest

\* Only one request runs at a time.
LEMMA StillAlone ==
  ASSUME ClientInv, NEW r \in Requests, OneRequest(r), Elsewhere(r)
  PROVE  /\ Client!Alone(r)
         /\ \A p, q \in Requests : Client!Running(p)' /\ Client!Running(q)' => p = q
<1>1. Client!Alone(r)
  <2>1. CASE phase[r] \in {"call", "return"}
    BY <2>1 DEF ClientInv, Client!Alone, Client!Running
  <2>2. CASE phase[r] \notin {"call", "return"}
    BY <2>2
       DEF OneRequest, Client!Begin, Client!Send, Client!End, Client!CallBreaker,
           Client!CallRetry, Client!CallNode, Client!Reaches, Client!ReturnBreaker,
           Client!ReturnRetry, Client!ReturnNode, Client!Returns, Client!PauseEnds,
           Client!Resume, Client!Answer
  <2>. QED  BY <2>1, <2>2
<1>. QED  BY <1>1 DEF Client!Alone, Client!Running, Elsewhere

\* A chain without a breaker counts nothing.
LEMMA NothingToCount ==
  ASSUME BreakerLast, ClientInv, ~HasBreaker, NEW r \in Requests, OneRequest(r)
  PROVE  circuit'.failures = 0
<1>1. circuit.failures = 0 /\ FrameInv(r) /\ ClientTypes
  BY DEF ClientInv
<1>2. ~Client!CallBreaker(r)
  BY <1>1, ChainPlace DEF Client!CallBreaker
<1>3. ~Client!ReturnBreaker(r)
  <2> SUFFICES ASSUME Client!ReturnBreaker(r) PROVE FALSE
    OBVIOUS
  <2>1. frames[r] # <<>> /\ Client!Top(r).feature = "breaker"
    BY DEF Client!ReturnBreaker, Client!Returns
  <2>2. Len(frames[r]) \in Nat \ {0} /\ frames[r][Len(frames[r])].feature = "breaker"
    BY <1>1, <2>1, OnTop
  <2>. QED  BY <1>1, <2>2 DEF FrameInv
<1>4. UNCHANGED circuit
  BY <1>2, <1>3
     DEF OneRequest, Client!Begin, Client!Send, Client!End, Client!CallRetry,
         Client!CallNode, Client!ReturnRetry, Client!ReturnNode, Client!PauseEnds,
         Client!Resume, Client!Answer
<1>. QED  BY <1>1, <1>4

\* What a failure more is to the counters.
LEMMA UptoFacts ==
  ASSUME NEW m \in 0..MaxFailures, NEW n \in 0..MaxFailures, m <= n
  PROVE  /\ Client!Upto(m + 1) <= Client!Upto(n + 1) /\ n <= Client!Upto(n + 1) /\ m <= Client!Upto(m + 1)
         /\ Client!Upto(m + 1) \in 0..MaxFailures /\ Client!Upto(n + 1) \in 0..MaxFailures
BY ClientFacts DEF Client!Upto

\* A failure is counted after it has been answered.
LEMMA CountStep ==
  ASSUME BreakerLast, ClientInv, HasBreaker, NEW r \in Requests, OneRequest(r)
  PROVE  CountInv'
<1>0. /\ ClientTypes /\ FrameInv(r) /\ CountInv
      /\ ClientTypes' /\ Elsewhere(r) /\ FrameInv(r)'
  BY RequestStep DEF ClientInv
<1>1. Client!Alone(r) /\ \A q \in Requests \ {r} : phase[q] # "return" /\ phase'[q] # "return"
  BY <1>0, StillAlone DEF Client!Alone, Client!Running, Elsewhere
<1>2. /\ circuit.failures \in 0..MaxFailures /\ streak \in 0..MaxFailures
      /\ circuit'.failures \in 0..MaxFailures /\ streak' \in 0..MaxFailures
  BY <1>0 DEF ClientTypes, Client!TypeOK
<1>3. phase[r] # "return" => circuit.failures <= streak
  BY <1>0, <1>1 DEF CountInv, Client!FailuresAreConsecutive
<1>4. SUFFICES /\ phase'[r] # "return" => circuit'.failures <= streak'
               /\ AnswerCounts(r)'
  BY <1>1 DEF CountInv, Client!FailuresAreConsecutive, AnswerCounts
<1>5. AnswerCounts(r) /\ (frames[r] = <<>> => ~Client!Returns(r, "breaker"))
  BY <1>0 DEF CountInv, Client!Returns
<1>6. CASE \/ Client!Begin(r) \/ Client!Send(r) \/ Client!PauseEnds(r)
           \/ Client!CallRetry(r) \/ Client!CallNode(r)
  <2>1. UNCHANGED <<circuit, streak>> /\ phase[r] # "return" /\ phase'[r] # "return"
    BY <1>0, <1>6
       DEF Client!Begin, Client!Send, Client!PauseEnds, Client!CallRetry, Client!CallNode,
           Client!Reaches, Client!Goes, ClientTypes, Client!TypeOK
  <2>. QED  BY <1>3, <2>1 DEF AnswerCounts
<1>7. CASE Client!End(r)
  <2>1. /\ UNCHANGED <<circuit, streak>> /\ phase[r] = "return" /\ phase'[r] = "idle"
        /\ frames[r] = <<>>
    BY <1>0, <1>7 DEF Client!End, Client!Goes, ClientTypes, Client!TypeOK
  <2>. QED  BY <1>5, <2>1 DEF AnswerCounts
<1>8. CASE Client!CallBreaker(r)
  <2>1. phase[r] = "call" /\ frames[r] = <<>> /\ streak' = streak
    BY <1>0, <1>8, ChainPlace DEF Client!CallBreaker
  <2>2. circuit'.failures <= streak
    BY <1>2, <1>3, <1>8, <2>1 DEF Client!CallBreaker, Client!Closed
  <2>3. CASE Client!Open
    <3>1. phase'[r] = "return" /\ frames'[r] = <<>>
      BY <1>0, <1>8, <2>1, <2>3 DEF Client!CallBreaker, Client!Goes, ClientTypes, Client!TypeOK
    <3>. QED  BY <2>1, <2>2, <3>1 DEF AnswerCounts
  <2>4. CASE ~Client!Open
    <3>1. phase'[r] = "call"
      BY <1>8, <2>1, <2>4 DEF Client!CallBreaker
    <3>. QED  BY <2>1, <2>2, <3>1 DEF AnswerCounts
  <2>. QED  BY <2>3, <2>4
<1>9. CASE Client!ReturnBreaker(r)
  <2>1. /\ phase[r] = "return" /\ frames[r] # <<>> /\ Client!Pop(r) /\ Client!Top(r).feature = "breaker"
        /\ UNCHANGED <<phase, left, got, streak>>
    BY <1>9 DEF Client!ReturnBreaker, Client!Returns
  <2>2. frames'[r] = <<>>
    BY <1>0, <2>1, PopKeeps
  <2>3. circuit'.failures <= streak
    <3>1. CASE got[r] = "ok"
      BY <1>2, <1>9, <3>1 DEF Client!ReturnBreaker, Client!Closed
    <3>2. CASE got[r] = "unavailable"
      <4>1. Client!Upto(circuit.failures + 1) <= streak
        BY <1>5, <2>1, <3>2 DEF AnswerCounts
      <4>. QED  BY <1>9, <3>2, <4>1 DEF Client!ReturnBreaker
    <3>3. CASE got[r] \notin {"ok", "unavailable"}
      <4>1. circuit' = circuit
        BY <1>9, <3>3 DEF Client!ReturnBreaker
      <4>. QED  BY <1>5, <2>1, <3>3, <4>1 DEF AnswerCounts
    <3>. QED  BY <3>1, <3>2, <3>3
  <2>. QED  BY <2>1, <2>2, <2>3 DEF AnswerCounts
<1>10. CASE Client!ReturnRetry(r)
  <2>1. /\ phase[r] = "return" /\ frames[r] # <<>> /\ Client!Top(r).feature = "retry"
        /\ UNCHANGED <<left, got, circuit, streak>>
    BY <1>10 DEF Client!ReturnRetry, Client!Returns
  <2>2. CASE got[r] = "unavailable" /\ Client!Top(r).count + 1 < MaxAttempts
    <3>1. phase'[r] = "pause"
      BY <1>0, <1>10, <2>2 DEF Client!ReturnRetry, Client!Goes, ClientTypes, Client!TypeOK
    <3>2. Client!Upto(circuit.failures + 1) <= streak
      BY <1>5, <2>1, <2>2 DEF AnswerCounts
    <3>3. circuit.failures <= streak
      BY <1>2, <3>2, UptoFacts
    <3>. QED  BY <2>1, <3>1, <3>3 DEF AnswerCounts
  <2>3. CASE ~(got[r] = "unavailable" /\ Client!Top(r).count + 1 < MaxAttempts)
    <3>1. Client!Pop(r) /\ phase' = phase
      BY <1>10, <2>3 DEF Client!ReturnRetry
    <3>2. frames'[r] # <<>>
      BY <1>0, <2>1, <3>1, PopKeeps
    <3>. QED  BY <1>5, <2>1, <3>1, <3>2 DEF AnswerCounts
  <2>. QED  BY <2>2, <2>3
<1>11. CASE Client!ReturnNode(r)
  <2>1. /\ phase[r] = "return" /\ frames[r] # <<>> /\ Client!Top(r).feature = "node"
        /\ UNCHANGED <<left, circuit, streak>>
    BY <1>11 DEF Client!ReturnNode, Client!Returns
  <2>2. CASE got[r] # "unauthorized"
    <3>1. Client!Pop(r) /\ phase' = phase /\ got' = got
      BY <1>11, <2>2 DEF Client!ReturnNode
    <3>2. frames'[r] # <<>>
      BY <1>0, <2>1, <3>1, PopKeeps
    <3>. QED  BY <1>5, <2>1, <3>1, <3>2 DEF AnswerCounts
  <2>3. CASE got[r] = "unauthorized"
    <3>1. circuit.failures <= streak
      BY <1>5, <2>1, <2>3 DEF AnswerCounts
    <3>2. got'[r] \in {"unauthorized", "error"}
      BY <1>0, <1>11, <2>3 DEF Client!ReturnNode, ClientTypes, Client!TypeOK
    <3>. QED  BY <2>1, <3>1, <3>2 DEF AnswerCounts
  <2>. QED  BY <2>2, <2>3
<1>12. CASE Client!Resume(r)
  <2>1. phase[r] = "resume" /\ UNCHANGED <<got, circuit, streak>>
    BY <1>12 DEF Client!Resume
  <2>2. circuit.failures <= streak
    BY <1>3, <2>1
  <2>3. got[r] # "error" => phase'[r] = "call"
    BY <1>0, <1>12 DEF Client!Resume, Client!Goes, ClientTypes, Client!TypeOK
  <2>. QED  BY <2>1, <2>2, <2>3 DEF AnswerCounts
<1>13. ASSUME NEW a \in Client!Answers, Client!Answer(r, a)
       PROVE  /\ phase'[r] # "return" => circuit'.failures <= streak'
              /\ AnswerCounts(r)'
  <2>1. /\ phase[r] = "sent" /\ phase'[r] = "return" /\ got'[r] = a
        /\ circuit' = circuit /\ frames' = frames
        /\ streak' = CASE a = "ok" -> 0
                       [] a = "unavailable" -> Client!Upto(streak + 1)
                       [] OTHER -> streak
    BY <1>0, <1>13 DEF Client!Answer, Client!Goes, ClientTypes, Client!TypeOK
  <2>2. circuit.failures <= streak
    BY <1>3, <2>1
  <2>3. frames[r] # <<>>
    BY <1>0, <2>1, ClientFacts DEF FrameInv, HasBreaker
  <2>4. CASE a = "ok"
    BY <2>1, <2>3, <2>4 DEF AnswerCounts
  <2>5. CASE a = "unavailable"
    <3>1. streak' = Client!Upto(streak + 1)
      BY <2>1, <2>5
    <3>2. /\ circuit.failures <= Client!Upto(streak + 1)
          /\ Client!Upto(circuit.failures + 1) <= Client!Upto(streak + 1)
      BY <1>2, <2>2, UptoFacts
    <3>. QED  BY <2>1, <3>1, <3>2 DEF AnswerCounts
  <2>6. CASE a = "unauthorized"
    <3>1. streak' = streak
      BY <2>1, <2>6
    <3>. QED  BY <2>1, <2>2, <2>6, <3>1 DEF AnswerCounts
  <2>. QED  BY <2>4, <2>5, <2>6 DEF Client!Answers
<1>. QED  BY <1>6, <1>7, <1>8, <1>9, <1>10, <1>11, <1>12, <1>13 DEF OneRequest

\* The token and the clock leave the requests that run, and the count, as they are.
LEMMA OutsideStep ==
  ASSUME ClientInv,
         \/ \E t \in {"none", "good", "expired"} : Client!RefreshEnds(t)
         \/ Client!TokenExpires \/ Client!ResetIsDue
         \/ UNCHANGED Client!vars
  PROVE  ClientInv'
<1>0. ClientTypes /\ HasBreaker' = HasBreaker
  BY DEF ClientInv, HasBreaker
<1>1. ASSUME NEW t \in {"none", "good", "expired"}, Client!RefreshEnds(t)
      PROVE  ClientInv'
  <2>1. /\ UNCHANGED <<left, frames, circuit, streak>>
        /\ \A r \in Requests : ~Client!Running(r)
        /\ phase' = [r \in Requests |-> IF phase[r] = "refresh" THEN "resume" ELSE phase[r]]
    BY <1>1 DEF Client!RefreshEnds
  <2>2. ClientTypes'
    BY <1>0, <1>1 DEF Client!RefreshEnds, ClientTypes, Client!TypeOK, Client!Answers
  <2>3. \A r \in Requests : phase'[r] \notin {"call", "return"} /\ phase[r] # "return"
    BY <2>1 DEF Client!Running
  <2>4. ASSUME NEW r \in Requests PROVE FrameInv(r)'
    <3>1. FrameInv(r) /\ Client!Top(r)' = Client!Top(r)
      BY <2>1 DEF ClientInv, Client!Top
    <3>2. /\ phase'[r] \in {"refresh", "resume"} => phase[r] \in {"refresh", "resume"}
          /\ phase'[r] \notin {"refresh", "resume"} => phase'[r] = phase[r]
      BY <2>1
    <3>. QED  BY <1>0, <2>1, <3>1, <3>2 DEF FrameInv
  <2>5. IF HasBreaker THEN CountInv' ELSE circuit'.failures = 0
    BY <2>1, <2>3 DEF ClientInv, CountInv, Client!FailuresAreConsecutive, AnswerCounts
  <2>. QED  BY <1>0, <2>2, <2>3, <2>4, <2>5 DEF ClientInv, Client!Running
<1>2. CASE Client!TokenExpires \/ Client!ResetIsDue \/ UNCHANGED Client!vars
  <2>1. /\ UNCHANGED <<phase, left, frames, got, streak>>
        /\ circuit' = circuit \/ circuit' = [circuit EXCEPT !.due = TRUE]
    BY <1>2 DEF Client!TokenExpires, Client!ResetIsDue, Client!vars
  <2>2. circuit'.failures = circuit.failures
    BY <1>0, <2>1 DEF ClientTypes, Client!TypeOK
  <2>3. ClientTypes'
    BY <1>0, <1>2
       DEF Client!TokenExpires, Client!ResetIsDue, Client!vars, ClientTypes, Client!TypeOK
  <2>4. \A r \in Requests : FrameInv(r)' /\ (AnswerCounts(r) => AnswerCounts(r)')
    BY <1>0, <2>1, <2>2 DEF ClientInv, FrameInv, Client!Top, AnswerCounts
  <2>5. Client!FailuresAreConsecutive => Client!FailuresAreConsecutive'
    BY <2>1, <2>2 DEF Client!FailuresAreConsecutive
  <2>. QED  BY <1>0, <2>1, <2>2, <2>3, <2>4, <2>5 DEF ClientInv, CountInv, Client!Running
<1>. QED  BY <1>1, <1>2

\* Every step of the client keeps its invariant.
LEMMA ClientStep ==
  ASSUME BreakerLast, ClientInv, [Client!Next]_(Client!vars)
  PROVE  ClientInv'
<1>1. ASSUME NEW r \in Requests, OneRequest(r)
      PROVE  ClientInv'
  <2>1. ClientTypes' /\ Elsewhere(r) /\ FrameInv(r)' /\ HasBreaker' = HasBreaker
    BY <1>1, RequestStep DEF ClientInv, HasBreaker
  <2>2. ASSUME NEW q \in Requests, q # r PROVE FrameInv(q)'
    BY <2>1, <2>2 DEF ClientInv, FrameInv, Elsewhere, Client!Top
  <2>3. \A p, q \in Requests : Client!Running(p)' /\ Client!Running(q)' => p = q
    BY <1>1, <2>1, StillAlone
  <2>4. IF HasBreaker THEN CountInv' ELSE circuit'.failures = 0
    BY <1>1, CountStep, NothingToCount
  <2>. QED  BY <2>1, <2>2, <2>3, <2>4 DEF ClientInv
<1>. QED  BY <1>1, OutsideStep DEF Client!Next, OneRequest

\* It holds at the start.
LEMMA ClientStart ==
  ASSUME Client!Init
  PROVE  ClientInv
<1>1. \A r \in Requests : frames[r] = <<>> /\ phase[r] = "idle"
  BY DEF Client!Init
<1>2. <<>> \in Seq(Frame)
  OBVIOUS
<1>3. ClientTypes
  <2>1. Client!Closed \in [failures : 0..MaxFailures, due : BOOLEAN] /\ 0 \in 0..MaxFailures
        /\ 0 \in 0..Len(Chain)
    BY ClientFacts DEF Client!Closed
  <2>2. left \in [Requests -> 0..Len(Chain)]
    BY <2>1 DEF Client!Init
  <2>3. frames \in [Requests -> Seq(Frame)]
    BY <1>2 DEF Client!Init
  <2>4. got \in [Requests -> Client!Answers \cup {"error"}]
    BY DEF Client!Init, Client!Answers
  <2>. QED  BY <2>1, <2>2, <2>3, <2>4 DEF Client!Init, ClientTypes, Client!TypeOK
<1>4. \A r \in Requests : FrameInv(r)
  BY <1>1 DEF FrameInv
<1>5. circuit.failures = 0 /\ streak = 0
  BY DEF Client!Init, Client!Closed
<1>. QED  BY <1>1, <1>3, <1>4, <1>5 DEF ClientInv, CountInv, Client!FailuresAreConsecutive,
          AnswerCounts, Client!Running

\* What the other components do leaves the client alone.
LEMMA ClientOfSafety ==
  /\ SafetyInit => Client!Init
  /\ [SafetyNext]_allVars => [Client!Next]_(Client!vars)
<1>1. UNCHANGED clientVars => UNCHANGED Client!vars
  BY DEF clientVars, Client!vars
<1>. QED  BY <1>1 DEF SafetyInit, SafetyNext, allVars

\* The inductive invariant of the client: the features that wait are those that were
\* called, with the breaker at the bottom, and the breaker counts no answer twice.
THEOREM ClientInvariant ==
  ASSUME BreakerLast
  PROVE  SafetySpec => []ClientInv
<1>1. [Client!Next]_(Client!vars) /\ ClientInv => ClientInv'
  BY ClientStep
<1>. QED  BY <1>1, ClientStart, ClientOfSafety, PTL DEF SafetySpec

\* With the circuit breaker outside of the retries, it counts consecutive failures
\* only, for any number of requests and any chain (CircuitBreakerFeature).
THEOREM BreakerCountsFailures ==
  ASSUME BreakerLast
  PROVE  SafetySpec => []FailuresAreConsecutive
<1>1. ClientInv => FailuresAreConsecutive
  <2> SUFFICES ASSUME ClientInv PROVE Client!FailuresAreConsecutive
    BY DEF FailuresAreConsecutive
  <2>1. CASE HasBreaker
    BY <2>1 DEF ClientInv, CountInv
  <2>2. CASE ~HasBreaker
    <3>1. circuit.failures = 0 /\ streak \in Nat
      BY <2>2 DEF ClientInv, ClientTypes, Client!TypeOK
    <3>. QED  BY <3>1 DEF Client!FailuresAreConsecutive
  <2>. QED  BY <2>1, <2>2
<1>. QED  BY <1>1, ClientInvariant, PTL

(***************************************************************************)
(* The search index                                                         *)
(***************************************************************************)

Steps == {"idle", "ensure", "choose", "delete", "create", "fetch", "import", "swap", "drop"}

Rebuilding == [step : Steps, a : Index!Aliases, old : [Index!Aliases -> Index!Collections \cup {"none"}],
               cursor : Nat, chunk : SUBSET Projects, since : SUBSET Projects]

SearchTypes ==
  /\ listed \subseteq Projects
  /\ docs \in [Index!Aliases -> [Index!Collections -> SUBSET Nat]]
  /\ \A a \in Index!Aliases, c \in Index!Collections :
       docs[a][c] = Index!Missing \/ docs[a][c] \subseteq Projects
  /\ alias \in [Index!Aliases -> Index!Collections \cup {"none"}]
  /\ promised \in [Index!Aliases -> SUBSET Projects]
  /\ removal \in [Projects -> Seq(Index!Aliases \X Index!Collections)]
  /\ run \in [Runs -> Rebuilding]

\* The aliases that have been pointed to their new collection, the projects that
\* have been read, and those that are yet to be written.
Swapped(r, a) == run[r].step = "drop" \/ (run[r].step = "swap" /\ a < run[r].a)
HasRead(r)    == {p \in run[r].since : p <= run[r].cursor}
InHand(r, a)  == IF run[r].step = "import" /\ a >= run[r].a THEN run[r].chunk ELSE {}

\* What a rebuild knows of the aliases and collections at each of its steps.
AliasInv(r) ==
  /\ run[r].step = "ensure" => \A a \in Index!Aliases : a < run[r].a => alias[a] # "none"
  /\ run[r].step \notin {"idle", "ensure"} => \A a \in Index!Aliases : alias[a] # "none"
  /\ run[r].step \notin {"idle", "ensure", "choose"} => \A a \in Index!Aliases :
       /\ run[r].old[a] # "none"
       /\ alias[a] = IF Swapped(r, a) THEN Index!NextOf(r, a) ELSE run[r].old[a]

FillingInv(r) ==
  /\ run[r].step \in {"choose", "fetch"} => run[r].a = 1
  /\ run[r].step \in {"ensure", "choose", "delete", "create"} => run[r].cursor = 0
  /\ run[r].step = "create" =>
       \A a \in Index!Aliases : a < run[r].a => docs[a][Index!NextOf(r, a)] # Index!Missing
  /\ run[r].step \in {"fetch", "import", "swap"} =>
       \A a \in Index!Aliases : docs[a][Index!NextOf(r, a)] # Index!Missing
  /\ run[r].step \in {"fetch", "import"} =>
       \A a \in Index!Aliases : HasRead(r) \subseteq docs[a][Index!NextOf(r, a)] \cup InHand(r, a)
  /\ run[r].step = "swap" => \A a \in Index!Aliases : run[r].since \subseteq docs[a][Index!NextOf(r, a)]

RunsAreAlone == \A q, r \in Runs : ~Index!At(q, "idle") /\ ~Index!At(r, "idle") => q = r

SearchInv ==
  /\ SearchTypes
  /\ RunsAreAlone
  /\ \A r \in Runs : run[r].since \subseteq listed /\ AliasInv(r) /\ FillingInv(r)
  /\ \A a \in Index!Aliases : alias[a] = "none" => promised[a] = {}
  /\ Index!ServedIsComplete

\* What is kept of the invariant by a step of rebuild r that keeps to its own.
RebuildKeeps(r) ==
  /\ SearchTypes'
  /\ run'[r].since \subseteq listed' /\ AliasInv(r)' /\ FillingInv(r)'
  /\ \A a \in Index!Aliases : alias'[a] = "none" => promised'[a] = {}
  /\ Index!ServedIsComplete'

\* Of a nonempty set of numbers one is the least.
LEMMA LeastOf ==
  ASSUME NEW T \in SUBSET Nat, T # {}
  PROVE  \E x \in T : \A y \in T : x <= y
<1>1. PICK x \in T : \A y \in T : ~(<<y, x>> \in OpToRel(<, Nat))
  BY WFMin, NatLessThanWellFounded
<1>2. ASSUME NEW y \in T PROVE x <= y
  <2>1. <<y, x>> \notin OpToRel(<, Nat) /\ <<y, x>> \in Nat \X Nat
    BY <1>1, <1>2
  <2>. QED  BY <2>1 DEF OpToRel
<1>. QED  BY <1>2

\* Of a nonempty finite set of numbers one is the greatest: a smallest set that
\* has none would have one without any of its elements.
LEMMA GreatestOf ==
  ASSUME NEW S \in SUBSET Nat, S # {}, IsFiniteSet(S)
  PROVE  \E m \in S : \A y \in S : y <= m
<1> DEFINE Bad(X) == X # {} /\ IsFiniteSet(X) /\ \A m \in X : \E y \in X : m < y
           sizes == {n \in Nat : \E X \in SUBSET Nat : Bad(X) /\ Cardinality(X) = n}
<1>1. ASSUME sizes # {} PROVE FALSE
  <2>1. PICK n \in sizes : \A k \in sizes : n <= k
    <3>. sizes \in SUBSET Nat
      OBVIOUS
    <3>. QED  BY <1>1, LeastOf
  <2>2. PICK X \in SUBSET Nat : Bad(X) /\ Cardinality(X) = n
    BY <2>1
  <2>3. PICK x \in X : TRUE
    BY <2>2
  <2>4. IsFiniteSet(X \ {x}) /\ Cardinality(X \ {x}) = n - 1 /\ n \in Nat
    BY <2>1, <2>2, <2>3, FS_RemoveElement
  <2>5. ~Bad(X \ {x})
    <3>1. n - 1 \in Nat
      BY <2>4, FS_CardinalityType
    <3>. QED  BY <3>1, <2>1, <2>4
  <2>6. PICK y \in X : x < y
    BY <2>2
  <2>7. PICK m \in X \ {x} : \A k \in X \ {x} : k <= m
    BY <2>4, <2>5, <2>6
  <2>8. PICK z \in X : m < z
    BY <2>2, <2>7
  <2>. QED  BY <2>6, <2>7, <2>8
<1>2. ~Bad(S)
  <2>1. Cardinality(S) \in Nat
    BY FS_CardinalityType
  <2>. QED  BY <1>1, <2>1
<1>. QED  BY <1>2

\* The instance has a Cardinality of its own.
LEMMA IndexCardinality ==
  \A S : Index!Cardinality(S) = Cardinality(S)
BY DEF Index!Cardinality, Cardinality

\* A chunk has every project up to its last, and is empty when none is left.
LEMMA ChunkIsNext ==
  ASSUME IsFiniteSet(Projects), listed \subseteq Projects, NEW n \in Nat
  PROVE  LET chunk == Index!ChunkAfter(n)
             m     == CHOOSE p \in chunk : \A q \in chunk : q <= p
         IN /\ chunk \subseteq listed
            /\ chunk = {} => \A p \in listed : p <= n
            /\ chunk # {} => m \in Nat /\ \A p \in listed : n < p /\ p <= m => p \in chunk
<1> DEFINE later == {p \in listed : p > n}
           chunk == Index!ChunkAfter(n)
           m == CHOOSE p \in chunk : \A q \in chunk : q <= p
<1>1. Projects \subseteq Nat /\ ChunkSize \in Nat \ {0}
  BY IndexAssumption DEF Index!SearchAssumption
<1>2. IsFiniteSet(later) /\ later \in SUBSET Nat
  BY <1>1, FS_Subset
<1>3. chunk = {p \in later : Cardinality(Index!Before(later, p)) < ChunkSize}
  BY IndexCardinality DEF Index!ChunkAfter
<1>4. ASSUME chunk = {}, NEW p \in listed PROVE p <= n
  <2>1. SUFFICES ASSUME later # {} PROVE FALSE
    BY <1>1, <1>4
  <2>2. PICK x \in later : \A y \in later : x <= y
    BY <1>2, <2>1, LeastOf
  <2>3. Index!Before(later, x) = {}
    BY <1>2, <2>2 DEF Index!Before
  <2>4. Cardinality(Index!Before(later, x)) < ChunkSize
    BY <1>1, <2>3, FS_EmptySet
  <2>. QED  BY <1>3, <1>4, <2>2, <2>4
<1>5. ASSUME chunk # {} PROVE m \in chunk /\ \A q \in chunk : q <= m
  <2>1. IsFiniteSet(chunk) /\ chunk \in SUBSET Nat
    BY <1>2, <1>3, FS_Subset
  <2>2. \E p \in chunk : \A q \in chunk : q <= p
    BY <1>5, <2>1, GreatestOf
  <2>. HIDE DEF chunk
  <2>. QED  BY <2>2
<1>6. ASSUME chunk # {}, NEW p \in listed, n < p, p <= m PROVE p \in chunk
  <2>1. m \in later /\ Cardinality(Index!Before(later, m)) < ChunkSize /\ p \in later
    BY <1>3, <1>5, <1>6
  <2>2. Index!Before(later, p) \in SUBSET Index!Before(later, m)
    BY <1>2, <1>6, <2>1 DEF Index!Before
  <2>3. IsFiniteSet(Index!Before(later, m)) /\ IsFiniteSet(Index!Before(later, p))
    BY <1>2, FS_Subset DEF Index!Before
  <2>4. Cardinality(Index!Before(later, p)) <= Cardinality(Index!Before(later, m))
    BY <2>2, <2>3, FS_Subset
  <2>5. Cardinality(Index!Before(later, m)) \in Nat /\ Cardinality(Index!Before(later, p)) \in Nat
    BY <2>3, FS_CardinalityType
  <2>. QED  BY <1>1, <1>3, <2>1, <2>4, <2>5
<1>7. chunk \subseteq listed
  BY <1>3
<1>8. chunk # {} => m \in Nat
  BY <1>1, <1>5, <1>7
<1>. QED  BY <1>4, <1>6, <1>7, <1>8

\* What the assumption says of projects, aliases and collections.
LEMMA SearchFacts ==
  /\ \A p \in Projects : p \in Nat /\ p > 0
  /\ Index!Aliases = {1, 2} /\ Index!Collections = {"current", "alt"} /\ Index!Missing = {0}
BY IndexAssumption DEF Index!SearchAssumption, Index!Aliases, Index!Collections, Index!Missing

\* What is done to one alias, or to both, changes the rebuild's place only.
LEMMA Onward ==
  ASSUME SearchTypes, NEW r \in Runs, NEW then \in Steps, Index!Goes(r, run[r], then)
  PROVE  /\ run' \in [Runs -> Rebuilding]
         /\ \A q \in Runs \ {r} : run'[q] = run[q]
         /\ run[r].a = 1 => run'[r].a = 2 /\ run'[r].step = run[r].step
         /\ run[r].a = 2 => run'[r].a = 1 /\ run'[r].step = then
         /\ run'[r].old = run[r].old /\ run'[r].cursor = run[r].cursor
         /\ run'[r].chunk = run[r].chunk /\ run'[r].since = run[r].since
<1>1. run[r] \in Rebuilding
  BY DEF SearchTypes
<1>2. run' = [run EXCEPT ![r] = IF run[r].a = 1 THEN [run[r] EXCEPT !.a = 2]
                                ELSE [run[r] EXCEPT !.a = 1, !.step = then]]
  BY DEF Index!Goes
<1>3. run'[r] = IF run[r].a = 1 THEN [run[r] EXCEPT !.a = 2]
                ELSE [run[r] EXCEPT !.a = 1, !.step = then]
  BY <1>2 DEF SearchTypes
<1>4. run'[r] \in Rebuilding
  <2>1. CASE run[r].a = 1
    BY <1>1, <1>3, <2>1, SearchFacts DEF Rebuilding
  <2>2. CASE run[r].a # 1
    <3>1. ASSUME NEW x \in Rebuilding PROVE [x EXCEPT !.a = 1] \in Rebuilding
      BY SearchFacts DEF Rebuilding
    <3>2. ASSUME NEW x \in Rebuilding PROVE [x EXCEPT !.step = then] \in Rebuilding
      BY DEF Rebuilding
    <3>3. run'[r] = [[run[r] EXCEPT !.a = 1] EXCEPT !.step = then]
      BY <1>3, <2>2
    <3>. QED  BY <1>1, <3>1, <3>2, <3>3
  <2>. QED  BY <2>1, <2>2
<1>5. run' \in [Runs -> Rebuilding] /\ \A q \in Runs \ {r} : run'[q] = run[q]
  BY <1>2, <1>3, <1>4 DEF SearchTypes
<1>. QED  BY <1>1, <1>3, <1>5, SearchFacts DEF Rebuilding

\* A collection is written.
Puts(a, c, X) == docs' = [docs EXCEPT ![a][c] = X]

HasPut(a, c, X) ==
  /\ docs' \in [Index!Aliases -> [Index!Collections -> SUBSET Nat]]
  /\ \A b \in Index!Aliases, d \in Index!Collections :
       docs'[b][d] = Index!Missing \/ docs'[b][d] \subseteq Projects
  /\ docs'[a][c] = X
  /\ \A b \in Index!Aliases, d \in Index!Collections : b # a \/ d # c => docs'[b][d] = docs[b][d]

\* A collection that is written has what was put, and the others what they had.
LEMMA DocsPut ==
  ASSUME SearchTypes, NEW a \in Index!Aliases, NEW c \in Index!Collections, NEW X, Puts(a, c, X),
         X = Index!Missing \/ X \subseteq Projects
  PROVE  HasPut(a, c, X)
<1>1. X \in SUBSET Nat
  BY SearchFacts
<1>2. docs \in [Index!Aliases -> [Index!Collections -> SUBSET Nat]]
  BY DEF SearchTypes
<1>3. docs' \in [Index!Aliases -> [Index!Collections -> SUBSET Nat]]
  BY <1>1, <1>2 DEF Puts
<1>4. docs'[a][c] = X
  BY <1>2 DEF Puts
<1>5. ASSUME NEW b \in Index!Aliases, NEW d \in Index!Collections, b # a \/ d # c
      PROVE  docs'[b][d] = docs[b][d]
  BY <1>2, <1>5 DEF Puts
<1>. QED  BY <1>3, <1>4, <1>5 DEF SearchTypes, HasPut

\* What a rebuild's record holds.
LEMMA RunFacts ==
  ASSUME SearchTypes, NEW r \in Runs
  PROVE  /\ run[r].step \in Steps /\ run[r].a \in Index!Aliases /\ run[r].cursor \in Nat
         /\ run[r].old \in [Index!Aliases -> Index!Collections \cup {"none"}]
         /\ run[r].chunk \subseteq Projects /\ run[r].since \subseteq Projects
         /\ \A a \in Index!Aliases : Index!NextOf(r, a) \in Index!Collections
         /\ \A a \in Index!Aliases : run[r].old[a] # "none" =>
              run[r].old[a] \in Index!Collections /\ Index!NextOf(r, a) # run[r].old[a]
<1>1. run[r] \in Rebuilding
  BY DEF SearchTypes
<1>. QED  BY <1>1, SearchFacts DEF Rebuilding, Index!NextOf, Index!Other

\* The steps of a rebuild, one by one: it begins...
LEMMA BeginKeeps ==
  ASSUME SearchInv, NEW r \in Runs, Index!Begin(r), UNCHANGED listed, UNCHANGED removal
  PROVE  RebuildKeeps(r) /\ \A q \in Runs \ {r} : run'[q] = run[q]
<1> USE DEF SearchInv
<1>1. Index!Idle \in Rebuilding
  BY SearchFacts DEF Index!Idle, Rebuilding, Steps
<1>2. run'[r] = [Index!Idle EXCEPT !.step = "ensure", !.since = listed]
  BY DEF Index!Begin, SearchTypes
<1>3. /\ run'[r] \in Rebuilding /\ run'[r].step = "ensure" /\ run'[r].since = listed
      /\ run'[r].a = 1 /\ run'[r].cursor = 0
  BY <1>1, <1>2 DEF Index!Idle, Rebuilding, Steps, SearchTypes
<1>4. SearchTypes' /\ \A q \in Runs \ {r} : run'[q] = run[q]
  BY <1>2, <1>3 DEF Index!Begin, SearchTypes
<1>5. AliasInv(r)' /\ FillingInv(r)'
  BY <1>3, SearchFacts DEF AliasInv, FillingInv
<1>6. Index!ServedIsComplete'
  BY DEF Index!ServedIsComplete, Index!Served, Index!Begin
<1>. QED  BY <1>3, <1>4, <1>5, <1>6 DEF RebuildKeeps, Index!Begin

\* ...sees to it that the aliases exist...
LEMMA EnsureKeeps ==
  ASSUME SearchInv, NEW r \in Runs, Index!Ensure(r), UNCHANGED listed, UNCHANGED removal
  PROVE  RebuildKeeps(r) /\ \A q \in Runs \ {r} : run'[q] = run[q]
<1> DEFINE a == run[r].a
<1>0. SearchTypes
  BY DEF SearchInv
<1>1. Index!Goes(r, run[r], "choose") /\ run[r].step = "ensure"
  BY DEF Index!Ensure, Index!At
<1>2. /\ run' \in [Runs -> Rebuilding]
      /\ \A q \in Runs \ {r} : run'[q] = run[q]
      /\ run[r].a = 1 => run'[r].a = 2 /\ run'[r].step = "ensure"
      /\ run[r].a = 2 => run'[r].a = 1 /\ run'[r].step = "choose"
      /\ run'[r].cursor = run[r].cursor /\ run'[r].since = run[r].since
  <2>. "choose" \in Steps
    BY DEF Steps
  <2>. QED  BY <1>0, <1>1, Onward
<1>3. a \in Index!Aliases
  BY <1>0, RunFacts
<1>4. /\ alias' \in [Index!Aliases -> Index!Collections \cup {"none"}] /\ alias'[a] # "none"
      /\ \A b \in Index!Aliases : alias[b] # "none" => alias'[b] = alias[b]
      /\ \A b \in Index!Aliases \ {a} : alias'[b] = alias[b]
  BY <1>0, <1>3, SearchFacts DEF Index!Ensure, SearchTypes
<1>5. /\ docs' \in [Index!Aliases -> [Index!Collections -> SUBSET Nat]]
      /\ \A b \in Index!Aliases, c \in Index!Collections :
           docs'[b][c] = Index!Missing \/ docs'[b][c] \subseteq Projects
      /\ \A b \in Index!Aliases, c \in Index!Collections :
           b # a \/ alias[a] # "none" => docs'[b][c] = docs[b][c]
      /\ alias[a] = "none" => docs'[a]["current"] # Index!Missing /\ alias'[a] = "current"
  <2>1. CASE alias[a] # "none"
    BY <1>0, <2>1 DEF Index!Ensure, SearchTypes
  <2>2. CASE alias[a] = "none"
    <3> DEFINE X == IF docs[a]["current"] = Index!Missing THEN {} ELSE docs[a]["current"]
    <3>1. Puts(a, "current", X) /\ alias' = [alias EXCEPT ![a] = "current"]
      BY <1>0, <1>3, <2>2, SearchFacts DEF Index!Ensure, SearchTypes, Puts
    <3>2. X # Index!Missing /\ X \subseteq Projects /\ "current" \in Index!Collections
      BY <1>0, <1>3, SearchFacts DEF SearchTypes
    <3>. HIDE DEF X
    <3>3. HasPut(a, "current", X)
      BY <1>0, <1>3, <3>1, <3>2, DocsPut
    <3>4. alias'[a] = "current"
      BY <1>0, <1>3, <3>1 DEF SearchTypes
    <3>. QED  BY <2>2, <3>2, <3>3, <3>4 DEF HasPut
  <2>. QED  BY <2>1, <2>2
<1>6. SearchTypes'
  BY <1>0, <1>2, <1>4, <1>5 DEF SearchTypes, Index!Ensure
<1>7. AliasInv(r)'
  BY <1>1, <1>2, <1>3, <1>4, SearchFacts DEF SearchInv, AliasInv
<1>8. FillingInv(r)'
  BY <1>1, <1>2, <1>3, SearchFacts DEF SearchInv, FillingInv
<1>9. \A b \in Index!Aliases : alias'[b] = "none" => promised'[b] = {}
  BY <1>4 DEF SearchInv, Index!Ensure
<1>10. Index!ServedIsComplete'
  <2> SUFFICES ASSUME NEW b \in Index!Aliases, alias'[b] # "none"
               PROVE  docs'[b][alias'[b]] # Index!Missing /\ promised[b] \subseteq docs'[b][alias'[b]]
    BY DEF Index!ServedIsComplete, Index!Served, Index!Ensure
  <2>1. CASE alias[b] = "none"
    BY <1>3, <1>4, <1>5, <2>1 DEF SearchInv
  <2>2. CASE alias[b] # "none"
    <3>1. alias[b] \in Index!Collections /\ alias'[b] = alias[b] /\ (b # a \/ alias[a] # "none")
      BY <1>0, <1>4, <2>2 DEF SearchTypes
    <3>. QED  BY <1>5, <3>1, <2>2 DEF SearchInv, Index!ServedIsComplete, Index!Served
  <2>. QED  BY <2>1, <2>2
<1>. QED  BY <1>1, <1>2, <1>6, <1>7, <1>8, <1>9, <1>10 DEF RebuildKeeps, SearchInv

\* ...chooses the collections that are not served...
LEMMA ChooseKeeps ==
  ASSUME SearchInv, NEW r \in Runs, Index!Choose(r), UNCHANGED listed, UNCHANGED removal
  PROVE  RebuildKeeps(r) /\ \A q \in Runs \ {r} : run'[q] = run[q]
<1>1. SearchTypes /\ run[r].step = "choose"
  BY DEF SearchInv, Index!Choose, Index!At
<1>2. run[r] \in Rebuilding /\ run'[r] = [run[r] EXCEPT !.old = alias, !.step = "delete"]
  BY <1>1 DEF Index!Choose, SearchTypes
<1>3. /\ run'[r].step = "delete" /\ run'[r].old = alias /\ run'[r].a = run[r].a
      /\ run'[r].cursor = run[r].cursor /\ run'[r].since = run[r].since
  BY <1>2 DEF Rebuilding
<1>4. run'[r] \in Rebuilding
  BY <1>1, <1>2 DEF Rebuilding, Steps, SearchTypes
<1>5. SearchTypes' /\ \A q \in Runs \ {r} : run'[q] = run[q]
  BY <1>1, <1>4 DEF Index!Choose, SearchTypes
<1>6. AliasInv(r)'
  BY <1>1, <1>3 DEF SearchInv, AliasInv, Swapped, Index!Choose
<1>7. FillingInv(r)'
  BY <1>1, <1>3 DEF SearchInv, FillingInv
<1>8. Index!ServedIsComplete' /\ \A b \in Index!Aliases : alias'[b] = "none" => promised'[b] = {}
  BY DEF SearchInv, Index!ServedIsComplete, Index!Served, Index!Choose
<1>. QED  BY <1>3, <1>5, <1>6, <1>7, <1>8 DEF RebuildKeeps, SearchInv

\* What a rebuild knows once it has chosen: it writes to a collection that is not
\* served, until it points the alias there.
LEMMA Chosen ==
  ASSUME SearchInv, NEW r \in Runs, run[r].step \notin {"idle", "ensure", "choose"}
  PROVE  \A b \in Index!Aliases :
           /\ alias[b] # "none" /\ run[r].old[b] \in Index!Collections
           /\ Index!NextOf(r, b) \in Index!Collections
           /\ Index!NextOf(r, b) # run[r].old[b]
           /\ alias[b] = IF Swapped(r, b) THEN Index!NextOf(r, b) ELSE run[r].old[b]
BY RunFacts DEF SearchInv, AliasInv

\* A collection that is not served is written, and no alias changes.
LEMMA ServedIsKept ==
  ASSUME SearchInv, UNCHANGED <<alias, promised>>,
         \A b \in Index!Aliases : alias[b] # "none" => docs'[b][alias[b]] = docs[b][alias[b]]
  PROVE  Index!ServedIsComplete' /\ \A b \in Index!Aliases : alias'[b] = "none" => promised'[b] = {}
BY DEF SearchInv, Index!ServedIsComplete, Index!Served

\* ...deletes them...
LEMMA DeleteKeeps ==
  ASSUME SearchInv, NEW r \in Runs, Index!DeleteNext(r), UNCHANGED listed, UNCHANGED removal
  PROVE  RebuildKeeps(r) /\ \A q \in Runs \ {r} : run'[q] = run[q]
<1> DEFINE a == run[r].a
<1>0. SearchTypes /\ "create" \in Steps
  BY DEF SearchInv, Steps
<1>1. Index!Goes(r, run[r], "create") /\ run[r].step = "delete"
  BY DEF Index!DeleteNext, Index!At
<1>2. /\ run' \in [Runs -> Rebuilding]
      /\ \A q \in Runs \ {r} : run'[q] = run[q]
      /\ run[r].a = 1 => run'[r].a = 2 /\ run'[r].step = "delete"
      /\ run[r].a = 2 => run'[r].a = 1 /\ run'[r].step = "create"
      /\ run'[r].old = run[r].old /\ run'[r].cursor = run[r].cursor /\ run'[r].since = run[r].since
  BY <1>0, <1>1, Onward
<1>3. a \in Index!Aliases /\ Index!NextOf(r, a) \in Index!Collections
  BY <1>0, RunFacts
<1>4. Puts(a, Index!NextOf(r, a), Index!Missing) /\ UNCHANGED <<alias, promised>>
  BY DEF Index!DeleteNext, Puts
<1>5. HasPut(a, Index!NextOf(r, a), Index!Missing)
  BY <1>0, <1>3, <1>4, DocsPut
<1>6. SearchTypes'
  BY <1>0, <1>2, <1>4, <1>5 DEF SearchTypes, HasPut
<1>7. \A b \in Index!Aliases : alias[b] # "none" => docs'[b][alias[b]] = docs[b][alias[b]]
  BY <1>1, <1>5, Chosen DEF Swapped, HasPut
<1>8. AliasInv(r)'
  BY <1>1, <1>2, <1>3, <1>4, SearchFacts DEF SearchInv, AliasInv, Swapped, Index!NextOf
<1>9. FillingInv(r)'
  BY <1>1, <1>2, <1>3, SearchFacts DEF SearchInv, FillingInv
<1>. QED  BY <1>2, <1>4, <1>6, <1>7, <1>8, <1>9, ServedIsKept DEF RebuildKeeps, SearchInv

\* A rebuild that gives up leaves everything where it is.
LEMMA GivesUpKeeps ==
  ASSUME SearchInv, NEW r \in Runs, run' = [run EXCEPT ![r] = Index!Idle],
         UNCHANGED <<listed, docs, alias, removal, promised>>
  PROVE  RebuildKeeps(r) /\ \A q \in Runs \ {r} : run'[q] = run[q]
<1>1. Index!Idle \in Rebuilding
  BY SearchFacts DEF Index!Idle, Rebuilding, Steps
<1>2. run'[r] = Index!Idle /\ Index!Idle.step = "idle" /\ Index!Idle.since = {}
  BY DEF Index!Idle, SearchInv, SearchTypes
<1>3. SearchTypes' /\ \A q \in Runs \ {r} : run'[q] = run[q]
  BY <1>1 DEF SearchInv, SearchTypes
<1>4. AliasInv(r)' /\ FillingInv(r)'
  BY <1>2 DEF AliasInv, FillingInv
<1>. QED  BY <1>2, <1>3, <1>4, ServedIsKept DEF RebuildKeeps

\* ...creates them...
LEMMA CreateKeeps ==
  ASSUME SearchInv, NEW r \in Runs, Index!CreateNext(r), UNCHANGED listed, UNCHANGED removal
  PROVE  RebuildKeeps(r) /\ \A q \in Runs \ {r} : run'[q] = run[q]
<1> DEFINE a == run[r].a
<1>0. SearchTypes /\ "fetch" \in Steps /\ run[r].step = "create" /\ a \in Index!Aliases
      /\ Index!NextOf(r, a) \in Index!Collections /\ UNCHANGED <<alias, promised>>
  BY RunFacts DEF SearchInv, Steps, Index!CreateNext, Index!At
<1>1. CASE docs[a][Index!NextOf(r, a)] = Index!Missing
  <2>1. Puts(a, Index!NextOf(r, a), {}) /\ Index!Goes(r, run[r], "fetch")
    BY <1>1 DEF Index!CreateNext, Puts
  <2>2. /\ run' \in [Runs -> Rebuilding]
        /\ \A q \in Runs \ {r} : run'[q] = run[q]
        /\ run[r].a = 1 => run'[r].a = 2 /\ run'[r].step = "create"
        /\ run[r].a = 2 => run'[r].a = 1 /\ run'[r].step = "fetch"
        /\ run'[r].old = run[r].old /\ run'[r].cursor = run[r].cursor /\ run'[r].since = run[r].since
    BY <1>0, <2>1, Onward
  <2>3. HasPut(a, Index!NextOf(r, a), {})
    BY <1>0, <2>1, DocsPut
  <2>4. SearchTypes'
    BY <1>0, <2>2, <2>3 DEF SearchTypes, HasPut
  <2>5. \A b \in Index!Aliases : alias[b] # "none" => docs'[b][alias[b]] = docs[b][alias[b]]
    BY <1>0, <2>3, Chosen DEF Swapped, HasPut
  <2>6. AliasInv(r)'
    BY <1>0, <2>2, SearchFacts DEF SearchInv, AliasInv, Swapped, Index!NextOf
  <2>7. FillingInv(r)'
    <3>1. \A b \in Index!Aliases : Index!NextOf(r, b)' = Index!NextOf(r, b)
      BY <2>2 DEF Index!NextOf
    <3>2. run'[r].cursor = 0 /\ HasRead(r)' = {}
      <4>1. run'[r].cursor = 0
        BY <1>0, <2>2 DEF SearchInv, FillingInv
      <4>2. run'[r].since \subseteq Projects
        BY <1>0, <2>2, RunFacts
      <4>3. ASSUME NEW p \in run'[r].since, p <= 0 PROVE FALSE
        BY <4>2, <4>3, SearchFacts
      <4>. QED  BY <4>1, <4>3 DEF HasRead
    <3>3. CASE a = 1
      <4>1. run'[r].step = "create" /\ run'[r].a = 2
        BY <2>2, <3>3
      <4>2. \A b \in Index!Aliases : b < 2 => docs'[b][Index!NextOf(r, b)] # Index!Missing
        BY <2>3, <3>3, SearchFacts DEF HasPut
      <4>. QED  BY <3>1, <3>2, <4>1, <4>2 DEF FillingInv
    <3>4. CASE a = 2
      <4>1. run'[r].step = "fetch" /\ run'[r].a = 1
        BY <2>2, <3>4
      <4>2. \A b \in Index!Aliases : b < 2 => docs[b][Index!NextOf(r, b)] # Index!Missing
        BY <1>0, <3>4 DEF SearchInv, FillingInv
      <4>3. \A b \in Index!Aliases : docs'[b][Index!NextOf(r, b)] # Index!Missing
        BY <1>0, <2>3, <3>4, <4>2, RunFacts, SearchFacts DEF HasPut
      <4>. QED  BY <3>1, <3>2, <4>1, <4>3 DEF FillingInv
    <3>. QED  BY <1>0, <3>3, <3>4, SearchFacts
  <2>. QED  BY <1>0, <2>2, <2>4, <2>5, <2>6, <2>7, ServedIsKept DEF RebuildKeeps, SearchInv
<1>2. CASE docs[a][Index!NextOf(r, a)] # Index!Missing
  BY <1>0, <1>2, GivesUpKeeps DEF Index!CreateNext
<1>. QED  BY <1>1, <1>2

\* ...fetches a chunk of projects...
LEMMA FetchKeeps ==
  ASSUME IsFiniteSet(Projects),
         SearchInv, NEW r \in Runs, Index!Fetch(r), UNCHANGED listed, UNCHANGED removal
  PROVE  RebuildKeeps(r) /\ \A q \in Runs \ {r} : run'[q] = run[q]
<1> DEFINE n == run[r].cursor
           chunk == Index!ChunkAfter(n)
           m == CHOOSE p \in chunk : \A q \in chunk : q <= p
<1>0. /\ SearchTypes /\ run[r].step = "fetch" /\ n \in Nat /\ run[r] \in Rebuilding
      /\ listed \subseteq Projects /\ run[r].since \subseteq listed
      /\ UNCHANGED <<docs, alias, promised>>
  BY RunFacts DEF SearchInv, Index!Fetch, Index!At, SearchTypes
<1>1. /\ chunk \subseteq listed
      /\ chunk = {} => \A p \in listed : p <= n
      /\ chunk # {} => m \in Nat /\ \A p \in listed : n < p /\ p <= m => p \in chunk
  BY <1>0, ChunkIsNext
<1>2. run' = [run EXCEPT ![r].step = IF chunk = {} THEN "swap" ELSE "import",
                         ![r].chunk = chunk,
                         ![r].cursor = IF chunk = {} THEN n ELSE m]
  BY DEF Index!Fetch
<1> HIDE DEF chunk, m
<1>3. /\ run'[r].step = IF chunk = {} THEN "swap" ELSE "import"
      /\ run'[r].chunk = chunk /\ run'[r].cursor = IF chunk = {} THEN n ELSE m
      /\ run'[r].a = run[r].a /\ run'[r].old = run[r].old /\ run'[r].since = run[r].since
      /\ run'[r] \in Rebuilding
      /\ \A q \in Runs \ {r} : run'[q] = run[q]
      /\ run' \in [Runs -> Rebuilding]
  <2>1. run'[r] = [run[r] EXCEPT !.step = IF chunk = {} THEN "swap" ELSE "import",
                                 !.chunk = chunk,
                                 !.cursor = IF chunk = {} THEN n ELSE m]
    BY <1>0, <1>2 DEF SearchTypes
  <2>2. run'[r] \in Rebuilding
    BY <1>0, <1>1, <2>1 DEF Rebuilding, Steps
  <2>3. run' \in [Runs -> Rebuilding] /\ \A q \in Runs \ {r} : run'[q] = run[q]
    BY <1>0, <1>2, <2>2 DEF SearchTypes
  <2>. QED  BY <1>0, <2>1, <2>2, <2>3 DEF Rebuilding
<1>4. SearchTypes'
  BY <1>0, <1>3 DEF SearchTypes
<1>5. run[r].a = 1 /\ \A b \in Index!Aliases : Index!NextOf(r, b)' = Index!NextOf(r, b)
  BY <1>0, <1>3 DEF SearchInv, FillingInv, Index!NextOf
<1>6. AliasInv(r)'
  BY <1>0, <1>3, <1>5, SearchFacts DEF SearchInv, AliasInv, Swapped
<1>7. FillingInv(r)'
  <2>1. \A b \in Index!Aliases : docs[b][Index!NextOf(r, b)] # Index!Missing
    BY <1>0 DEF SearchInv, FillingInv
  <2>2. ASSUME NEW b \in Index!Aliases, NEW p \in run[r].since, p <= n
        PROVE  p \in docs[b][Index!NextOf(r, b)]
    BY <1>0, <2>2 DEF SearchInv, FillingInv, HasRead, InHand
  <2>3. \A p \in run[r].since : p \in listed /\ p \in Nat
    BY <1>0, SearchFacts
  <2>4. CASE chunk = {}
    BY <1>0, <1>1, <1>3, <1>5, <2>1, <2>2, <2>3, <2>4 DEF FillingInv
  <2>5. CASE chunk # {}
    <3>1. run'[r].step = "import" /\ run'[r].a = 1 /\ run'[r].cursor = m
      BY <1>3, <1>5, <2>5
    <3>2. \A b \in Index!Aliases : InHand(r, b)' = chunk
      BY <1>3, <3>1, SearchFacts DEF InHand
    <3>3. ASSUME NEW b \in Index!Aliases, NEW p \in run[r].since, p <= m
          PROVE  p \in docs[b][Index!NextOf(r, b)] \cup chunk
      BY <1>0, <1>1, <2>2, <2>3, <2>5, <3>3
    <3>4. \A b \in Index!Aliases : HasRead(r)' \subseteq docs[b][Index!NextOf(r, b)] \cup chunk
      BY <1>3, <3>1, <3>3 DEF HasRead
    <3>. QED  BY <1>0, <1>5, <2>1, <3>1, <3>2, <3>4 DEF FillingInv
  <2>. QED  BY <2>4, <2>5
<1>8. \A b \in Index!Aliases : alias[b] # "none" => docs'[b][alias[b]] = docs[b][alias[b]]
  BY <1>0
<1>. QED  BY <1>0, <1>3, <1>4, <1>6, <1>7, <1>8, ServedIsKept DEF RebuildKeeps, SearchInv

\* ...imports it...
LEMMA ImportKeeps ==
  ASSUME SearchInv, NEW r \in Runs, Index!Import(r), UNCHANGED listed, UNCHANGED removal
  PROVE  RebuildKeeps(r) /\ \A q \in Runs \ {r} : run'[q] = run[q]
<1> DEFINE a == run[r].a
           new == docs[a][Index!NextOf(r, a)] \cup run[r].chunk
<1>0. /\ SearchTypes /\ "fetch" \in Steps /\ run[r].step = "import" /\ a \in Index!Aliases
      /\ Index!NextOf(r, a) \in Index!Collections /\ UNCHANGED <<alias, promised>>
      /\ run[r].chunk \subseteq Projects /\ run[r].since \subseteq Projects
  BY RunFacts DEF SearchInv, Steps, Index!Import, Index!At
<1>1. CASE docs[a][Index!NextOf(r, a)] # Index!Missing
  <2>1. Puts(a, Index!NextOf(r, a), new) /\ Index!Goes(r, run[r], "fetch")
    BY <1>1 DEF Index!Import, Puts
  <2>2. /\ run' \in [Runs -> Rebuilding]
        /\ \A q \in Runs \ {r} : run'[q] = run[q]
        /\ run[r].a = 1 => run'[r].a = 2 /\ run'[r].step = "import"
        /\ run[r].a = 2 => run'[r].a = 1 /\ run'[r].step = "fetch"
        /\ run'[r].old = run[r].old /\ run'[r].cursor = run[r].cursor
        /\ run'[r].chunk = run[r].chunk /\ run'[r].since = run[r].since
    BY <1>0, <2>1, Onward
  <2>3. new \subseteq Projects /\ new # Index!Missing
    <3>1. docs[a][Index!NextOf(r, a)] \subseteq Projects
      BY <1>0, <1>1 DEF SearchTypes
    <3>2. new \subseteq Projects
      BY <1>0, <3>1
    <3>. HIDE DEF new
    <3>. QED  BY <3>2, SearchFacts
  <2>4. HasPut(a, Index!NextOf(r, a), new)
    BY <1>0, <2>1, <2>3, DocsPut
  <2>5. SearchTypes'
    BY <1>0, <2>2, <2>4 DEF SearchTypes, HasPut
  <2>6. \A b \in Index!Aliases : alias[b] # "none" => docs'[b][alias[b]] = docs[b][alias[b]]
    BY <1>0, <2>4, Chosen DEF Swapped, HasPut
  <2>7. AliasInv(r)'
    BY <1>0, <2>2, SearchFacts DEF SearchInv, AliasInv, Swapped, Index!NextOf
  <2>8. FillingInv(r)'
    <3>1. HasRead(r)' = HasRead(r) /\ \A b \in Index!Aliases : Index!NextOf(r, b)' = Index!NextOf(r, b)
      BY <2>2 DEF HasRead, Index!NextOf
    <3>2. \A b \in Index!Aliases : /\ docs[b][Index!NextOf(r, b)] # Index!Missing
                             /\ HasRead(r) \subseteq docs[b][Index!NextOf(r, b)] \cup InHand(r, b)
      BY <1>0 DEF SearchInv, FillingInv
    <3>3. \A b \in Index!Aliases : b # a => docs'[b][Index!NextOf(r, b)] = docs[b][Index!NextOf(r, b)]
      BY <1>0, <2>4, RunFacts DEF HasPut
    <3>4. docs'[a][Index!NextOf(r, a)] = new
      BY <2>4 DEF HasPut
    <3>5. \A b \in Index!Aliases : docs'[b][Index!NextOf(r, b)] # Index!Missing
      BY <2>3, <3>2, <3>3, <3>4
    <3>6. ASSUME NEW b \in Index!Aliases
          PROVE  HasRead(r) \subseteq docs'[b][Index!NextOf(r, b)] \cup InHand(r, b)'
      <4>1. CASE b = a
        BY <3>2, <3>4, <4>1 DEF InHand
      <4>2. CASE b # a
        <5>1. HasRead(r) \subseteq docs'[b][Index!NextOf(r, b)] \cup InHand(r, b)
          BY <3>2, <3>3, <4>2
        <5>2. CASE a = 1
          <6>1. InHand(r, b)' = InHand(r, b)
            BY <1>0, <2>2, <4>2, <5>2, SearchFacts DEF InHand
          <6>. QED  BY <5>1, <6>1
        <5>3. CASE a = 2
          <6>1. InHand(r, b) = {}
            BY <1>0, <4>2, <5>3, SearchFacts DEF InHand
          <6>. QED  BY <5>1, <6>1
        <5>. QED  BY <1>0, <5>2, <5>3, SearchFacts
      <4>. QED  BY <4>1, <4>2
    <3>7. (run'[r].step = "import" /\ run'[r].a = 2) \/ (run'[r].step = "fetch" /\ run'[r].a = 1)
      BY <1>0, <2>2, SearchFacts
    <3>. QED  BY <3>1, <3>5, <3>6, <3>7 DEF FillingInv
  <2>. QED  BY <1>0, <2>2, <2>5, <2>6, <2>7, <2>8, ServedIsKept DEF RebuildKeeps, SearchInv
<1>2. CASE docs[a][Index!NextOf(r, a)] = Index!Missing
  BY <1>0, <1>2, GivesUpKeeps DEF Index!Import
<1>. QED  BY <1>1, <1>2

\* ...swaps the aliases...
LEMMA SwapKeeps ==
  ASSUME SearchInv, NEW r \in Runs, Index!Swap(r), UNCHANGED listed, UNCHANGED removal
  PROVE  RebuildKeeps(r) /\ \A q \in Runs \ {r} : run'[q] = run[q]
<1> DEFINE a == run[r].a
<1>0. /\ SearchTypes /\ "drop" \in Steps /\ run[r].step = "swap" /\ a \in Index!Aliases
      /\ Index!NextOf(r, a) \in Index!Collections /\ UNCHANGED docs /\ Index!Goes(r, run[r], "drop")
      /\ run[r].since \subseteq Projects
  BY RunFacts DEF SearchInv, Steps, Index!Swap, Index!At
<1>1. /\ run' \in [Runs -> Rebuilding]
      /\ \A q \in Runs \ {r} : run'[q] = run[q]
      /\ run[r].a = 1 => run'[r].a = 2 /\ run'[r].step = "swap"
      /\ run[r].a = 2 => run'[r].a = 1 /\ run'[r].step = "drop"
      /\ run'[r].old = run[r].old /\ run'[r].since = run[r].since
  BY <1>0, Onward
<1>2. /\ alias' \in [Index!Aliases -> Index!Collections \cup {"none"}] /\ alias'[a] = Index!NextOf(r, a)
      /\ \A b \in Index!Aliases \ {a} : alias'[b] = alias[b]
      /\ promised' \in [Index!Aliases -> SUBSET Projects] /\ promised'[a] = run[r].since
      /\ \A b \in Index!Aliases \ {a} : promised'[b] = promised[b]
  BY <1>0 DEF Index!Swap, SearchTypes
<1>3. SearchTypes'
  BY <1>0, <1>1, <1>2 DEF SearchTypes
<1>4. \A b \in Index!Aliases : Index!NextOf(r, b)' = Index!NextOf(r, b)
  BY <1>1 DEF Index!NextOf
<1>5. AliasInv(r)'
  <2>1. \A b \in Index!Aliases :
          /\ alias[b] # "none" /\ run[r].old[b] # "none" /\ Index!NextOf(r, b) # "none"
          /\ alias[b] = IF Swapped(r, b) THEN Index!NextOf(r, b) ELSE run[r].old[b]
    BY <1>0, Chosen, SearchFacts
  <2>2. CASE a = 1
    <3>1. run'[r].step = "swap" /\ Swapped(r, 1)' /\ ~Swapped(r, 2)' /\ ~Swapped(r, 2)
      BY <1>0, <1>1, <2>2 DEF Swapped
    <3>. QED  BY <1>1, <1>2, <1>4, <2>1, <2>2, <3>1, SearchFacts DEF AliasInv
  <2>3. CASE a = 2
    <3>1. run'[r].step = "drop" /\ Swapped(r, 1)' /\ Swapped(r, 2)' /\ Swapped(r, 1)
      BY <1>0, <1>1, <2>3 DEF Swapped
    <3>. QED  BY <1>1, <1>2, <1>4, <2>1, <2>3, <3>1, SearchFacts DEF AliasInv
  <2>. QED  BY <1>0, <2>2, <2>3, SearchFacts
<1>6. \A b \in Index!Aliases : /\ docs[b][Index!NextOf(r, b)] # Index!Missing
                                /\ run[r].since \subseteq docs[b][Index!NextOf(r, b)]
  BY <1>0 DEF SearchInv, FillingInv
<1>7. FillingInv(r)'
  BY <1>0, <1>1, <1>4, <1>6, SearchFacts DEF FillingInv
<1>8. Index!ServedIsComplete' /\ \A b \in Index!Aliases : alias'[b] = "none" => promised'[b] = {}
  BY <1>0, <1>2, <1>6, SearchFacts DEF SearchInv, Index!ServedIsComplete, Index!Served
<1>. QED  BY <1>1, <1>3, <1>5, <1>7, <1>8 DEF RebuildKeeps, SearchInv

\* ...and drops what was served before...
LEMMA DropKeeps ==
  ASSUME SearchInv, NEW r \in Runs, Index!DropOld(r), UNCHANGED listed, UNCHANGED removal
  PROVE  RebuildKeeps(r) /\ \A q \in Runs \ {r} : run'[q] = run[q]
<1> DEFINE a == run[r].a
<1>0. /\ SearchTypes /\ "idle" \in Steps /\ run[r].step = "drop" /\ a \in Index!Aliases
      /\ UNCHANGED <<alias, promised>> /\ Index!Goes(r, run[r], "idle")
  BY RunFacts DEF SearchInv, Steps, Index!DropOld, Index!At
<1>1. run[r].old[a] \in Index!Collections
  BY <1>0, Chosen
<1>2. /\ run' \in [Runs -> Rebuilding]
      /\ \A q \in Runs \ {r} : run'[q] = run[q]
      /\ run[r].a = 1 => run'[r].a = 2 /\ run'[r].step = "drop"
      /\ run[r].a = 2 => run'[r].a = 1 /\ run'[r].step = "idle"
      /\ run'[r].old = run[r].old /\ run'[r].since = run[r].since
  BY <1>0, Onward
<1>3. HasPut(a, run[r].old[a], Index!Missing)
  <2>1. Puts(a, run[r].old[a], Index!Missing)
    BY DEF Index!DropOld, Puts
  <2>. QED  BY <1>0, <1>1, <2>1, DocsPut
<1>4. SearchTypes'
  BY <1>0, <1>2, <1>3 DEF SearchTypes, HasPut
<1>5. \A b \in Index!Aliases : alias[b] # "none" => docs'[b][alias[b]] = docs[b][alias[b]]
  BY <1>0, <1>3, Chosen DEF Swapped, HasPut
<1>6. AliasInv(r)'
  BY <1>0, <1>2, SearchFacts DEF SearchInv, AliasInv, Swapped, Index!NextOf
<1>7. FillingInv(r)'
  BY <1>0, <1>2, SearchFacts DEF FillingInv
<1>. QED  BY <1>0, <1>2, <1>4, <1>5, <1>6, <1>7, ServedIsKept DEF RebuildKeeps, SearchInv

\* ...or fails.
LEMMA RunFailsKeeps ==
  ASSUME SearchInv, NEW r \in Runs, Index!RunFails(r)
  PROVE  RebuildKeeps(r) /\ \A q \in Runs \ {r} : run'[q] = run[q]
BY GivesUpKeeps DEF Index!RunFails

\* A rebuild, alone, changes nothing that another knows.
LEMMA RebuildStep ==
  ASSUME IsFiniteSet(Projects), ~Overlap, SearchInv,
         NEW r \in Runs, Index!Rebuild(r) \/ Index!RunFails(r)
  PROVE  SearchInv'
<1>1. RebuildKeeps(r) /\ UNCHANGED listed /\ \A q \in Runs \ {r} : run'[q] = run[q]
  BY BeginKeeps, EnsureKeeps, ChooseKeeps, DeleteKeeps, CreateKeeps, FetchKeeps, ImportKeeps,
     SwapKeeps, DropKeeps, RunFailsKeeps DEF Index!Rebuild, Index!RunFails
<1>2. \A q \in Runs \ {r} : run[q].step = "idle"
  <2>1. CASE Index!Begin(r)
    BY <2>1 DEF Index!Begin, Index!At
  <2>2. CASE ~Index!Begin(r)
    <3>1. run[r].step # "idle"
      BY <2>2
         DEF Index!Rebuild, Index!RunFails, Index!Ensure, Index!Choose, Index!DeleteNext,
             Index!CreateNext, Index!Fetch, Index!Import, Index!Swap, Index!DropOld,
             Index!At
    <3>. QED  BY <3>1 DEF SearchInv, RunsAreAlone, Index!At
  <2>. QED  BY <2>1, <2>2
<1>3. RunsAreAlone'
  BY <1>1, <1>2 DEF RunsAreAlone, Index!At
<1>4. ASSUME NEW q \in Runs \ {r}
      PROVE  run'[q].since \subseteq listed' /\ AliasInv(q)' /\ FillingInv(q)'
  BY <1>1, <1>2, <1>4 DEF SearchInv, AliasInv, FillingInv
<1>. QED  BY <1>1, <1>3, <1>4 DEF RebuildKeeps, SearchInv

\* What leaves every rebuild where it is: a project is listed, or is taken from
\* listed, from the documents, and from what rebuilds and collections owe.
SamePlace(q) ==
  /\ run'[q].step = run[q].step /\ run'[q].a = run[q].a /\ run'[q].old = run[q].old
  /\ run'[q].cursor = run[q].cursor /\ run'[q].chunk = run[q].chunk

EditKeeps(p) ==
  /\ \A q \in Runs : /\ SamePlace(q)
                     /\ run[q].since \ {p} \subseteq run'[q].since
                     /\ run'[q].since \subseteq run[q].since \cap listed'
  /\ \A a \in Index!Aliases : promised'[a] \subseteq promised[a]
  /\ \A a \in Index!Aliases, c \in Index!Collections :
       /\ docs'[a][c] = Index!Missing <=> docs[a][c] = Index!Missing
       /\ docs'[a][c] = docs[a][c] \/
            /\ docs'[a][c] = docs[a][c] \ {p}
            /\ p \notin promised'[a] /\ \A q \in Runs : p \notin run'[q].since
  /\ UNCHANGED alias

\* A step of a request that leaves rebuilds where they are keeps the invariant.
LEMMA EditStep ==
  ASSUME SearchInv, SearchTypes', NEW p \in Projects, EditKeeps(p)
  PROVE  SearchInv'
<1>1. \A q \in Runs : /\ run'[q].step = run[q].step /\ run'[q].a = run[q].a
                      /\ run'[q].old = run[q].old /\ run'[q].cursor = run[q].cursor
                      /\ run'[q].chunk = run[q].chunk
                      /\ run'[q].since \subseteq run[q].since /\ run'[q].since \subseteq listed'
  BY DEF EditKeeps, SamePlace
<1>2. RunsAreAlone'
  BY <1>1 DEF SearchInv, RunsAreAlone, Index!At
<1>3. \A q \in Runs : AliasInv(q)'
  BY <1>1 DEF SearchInv, AliasInv, EditKeeps, Swapped, Index!NextOf
<1>4. ASSUME NEW q \in Runs PROVE FillingInv(q)'
  <2>1. /\ \A b \in Index!Aliases : Index!NextOf(q, b)' = Index!NextOf(q, b) /\ InHand(q, b)' = InHand(q, b)
                              /\ Index!NextOf(q, b) \in Index!Collections
    BY <1>1, RunFacts DEF Index!NextOf, InHand, SearchInv
  <2>2. \A b \in Index!Aliases :
          docs'[b][Index!NextOf(q, b)] = Index!Missing <=> docs[b][Index!NextOf(q, b)] = Index!Missing
    BY <2>1 DEF EditKeeps
  <2>3. \A b \in Index!Aliases, x \in run'[q].since :
          x \in docs[b][Index!NextOf(q, b)] => x \in docs'[b][Index!NextOf(q, b)]
    BY <2>1 DEF EditKeeps
  <2>4. HasRead(q)' \subseteq HasRead(q) /\ HasRead(q)' \subseteq run'[q].since
    BY <1>1 DEF HasRead
  <2>5. FillingInv(q)
    BY DEF SearchInv
  <2>6. run'[q].step \in {"fetch", "import"} =>
          \A b \in Index!Aliases : HasRead(q)' \subseteq docs'[b][Index!NextOf(q, b)] \cup InHand(q, b)
    BY <1>1, <2>3, <2>4, <2>5 DEF FillingInv
  <2>7. run'[q].step = "swap" =>
          \A b \in Index!Aliases : run'[q].since \subseteq docs'[b][Index!NextOf(q, b)]
    BY <1>1, <2>3, <2>5 DEF FillingInv
  <2>. QED  BY <1>1, <2>1, <2>2, <2>5, <2>6, <2>7 DEF FillingInv
<1>5. Index!ServedIsComplete'
  <2> SUFFICES ASSUME NEW a \in Index!Aliases, alias[a] # "none"
               PROVE  docs'[a][alias[a]] # Index!Missing /\ promised'[a] \subseteq docs'[a][alias[a]]
    BY DEF Index!ServedIsComplete, Index!Served, EditKeeps
  <2>1. alias[a] \in Index!Collections
    BY DEF SearchInv, SearchTypes
  <2>2. docs[a][alias[a]] # Index!Missing /\ promised[a] \subseteq docs[a][alias[a]]
    BY DEF SearchInv, Index!ServedIsComplete, Index!Served
  <2>. QED  BY <2>1, <2>2 DEF EditKeeps
<1>6. \A a \in Index!Aliases : alias'[a] = "none" => promised'[a] = {}
  BY DEF EditKeeps, SearchInv
<1>. QED  BY <1>1, <1>2, <1>3, <1>4, <1>5, <1>6 DEF SearchInv

\* since loses a project.
LEMMA SinceShrinks ==
  ASSUME SearchTypes, NEW p \in Projects,
         run' = [q \in Runs |-> [run[q] EXCEPT !.since = run[q].since \ {p}]]
  PROVE  /\ run' \in [Runs -> Rebuilding]
         /\ \A q \in Runs : /\ SamePlace(q)
                            /\ run'[q].since = run[q].since \ {p}
<1> SUFFICES ASSUME NEW q \in Runs
             PROVE  /\ run'[q] \in Rebuilding
                    /\ SamePlace(q)
                    /\ run'[q].since = run[q].since \ {p}
  OBVIOUS
<1>1. run[q] \in Rebuilding /\ run'[q] = [run[q] EXCEPT !.since = run[q].since \ {p}]
  BY DEF SearchTypes
<1>. QED  BY <1>1 DEF Rebuilding, SamePlace

\* The collections a project is to be removed from.
LEMMA TargetsType ==
  ASSUME SearchTypes, NEW a \in Index!Aliases
  PROVE  Index!Targets(a) \in Seq(Index!Aliases \X Index!Collections)
<1>1. /\ <<a, "alt">> \in Index!Aliases \X Index!Collections
      /\ <<a, "current">> \in Index!Aliases \X Index!Collections
  BY SearchFacts
<1>2. << <<a, "alt">>, <<a, "current">> >> \in Seq(Index!Aliases \X Index!Collections)
  BY <1>1
<1>3. CASE alias[a] = "none"
  BY <1>2, <1>3 DEF Index!Targets
<1>4. CASE alias[a] # "none"
  <2>1. <<a, alias[a]>> \in Index!Aliases \X Index!Collections
    BY <1>4 DEF SearchTypes
  <2>2. << <<a, alias[a]>> >> \in Seq(Index!Aliases \X Index!Collections)
    BY <2>1
  <2>. QED  BY <1>2, <1>4, <2>2 DEF Index!Targets
<1>. QED  BY <1>3, <1>4

\* Listing and unlisting a project, and a removal that fails, keep the invariant.
LEMMA ListingStep ==
  ASSUME SearchInv, NEW p \in Projects,
         Index!List(p) \/ Index!Unlist(p) \/ Index!RemovalFails(p)
  PROVE  SearchInv'
<1>0. SearchTypes
  BY DEF SearchInv
<1>1. CASE Index!List(p) \/ Index!RemovalFails(p)
  <2>1. SearchTypes'
    <3>1. <<>> \in Seq(Index!Aliases \X Index!Collections)
      OBVIOUS
    <3>. QED  BY <1>0, <1>1, <3>1 DEF Index!List, Index!RemovalFails, SearchTypes
  <2>2. UNCHANGED <<docs, alias, run, promised>> /\ listed \subseteq listed'
    BY <1>1 DEF Index!List, Index!RemovalFails
  <2>3. EditKeeps(p)
    BY <2>2 DEF EditKeeps, SamePlace, SearchInv
  <2>. QED  BY <2>1, <2>3, EditStep
<1>2. CASE Index!Unlist(p)
  <2>1. /\ run' \in [Runs -> Rebuilding]
        /\ \A q \in Runs : /\ SamePlace(q)
                           /\ run'[q].since = run[q].since \ {p}
    BY <1>0, <1>2, SinceShrinks DEF Index!Unlist
  <2>2. /\ listed' = listed \ {p} /\ UNCHANGED <<docs, alias>>
        /\ promised' = [a \in Index!Aliases |-> promised[a] \ {p}]
        /\ removal' = [removal EXCEPT ![p] = Index!Targets(1)]
    BY <1>2 DEF Index!Unlist
  <2>3. SearchTypes'
    <3>1. Index!Targets(1) \in Seq(Index!Aliases \X Index!Collections)
      BY <1>0, TargetsType, SearchFacts
    <3>2. removal' \in [Projects -> Seq(Index!Aliases \X Index!Collections)]
      BY <1>0, <2>2, <3>1 DEF SearchTypes
    <3>3. promised' \in [Index!Aliases -> SUBSET Projects]
      BY <1>0, <2>2 DEF SearchTypes
    <3>. QED  BY <1>0, <2>1, <2>2, <3>2, <3>3 DEF SearchTypes
  <2>4. EditKeeps(p)
    BY <2>1, <2>2 DEF EditKeeps, SearchInv
  <2>. QED  BY <2>3, <2>4, EditStep
<1>. QED  BY <1>1, <1>2

\* A removal keeps the invariant: its project is not listed.
LEMMA RemovalStep ==
  ASSUME SearchInv, NEW p \in Projects, Index!RemoveDocument(p)
  PROVE  SearchInv'
<1> DEFINE a == removal[p][1][1]
           c == removal[p][1][2]
           X == docs[a][c] \ {p}
<1>0. SearchTypes /\ removal[p] \in Seq(Index!Aliases \X Index!Collections) /\ removal[p] # <<>>
  BY DEF SearchInv, SearchTypes, Index!RemoveDocument
<1>1. a \in Index!Aliases /\ c \in Index!Collections
  <2>1. removal[p][1] \in Index!Aliases \X Index!Collections
    BY <1>0
  <2>. QED  BY <2>1
<1>2. /\ Puts(a, c, X)
      /\ removal' = [removal EXCEPT ![p] = IF a = 1 /\ Len(removal[p]) = 1
                                             THEN Index!Targets(2) ELSE Tail(removal[p])]
      /\ promised' = [promised EXCEPT ![a] = promised[a] \ {p}]
      /\ run' = [q \in Runs |-> [run[q] EXCEPT !.since = run[q].since \ {p}]]
      /\ UNCHANGED <<listed, alias>>
  BY <1>0, <1>1 DEF Index!RemoveDocument, Puts, SearchTypes
<1>3. /\ run' \in [Runs -> Rebuilding]
      /\ \A q \in Runs : /\ SamePlace(q)
                         /\ run'[q].since = run[q].since \ {p}
  BY <1>0, <1>2, SinceShrinks
<1>4. /\ promised' \in [Index!Aliases -> SUBSET Projects]
      /\ promised'[a] = promised[a] \ {p} /\ \A b \in Index!Aliases \ {a} : promised'[b] = promised[b]
  BY <1>0, <1>1, <1>2 DEF SearchTypes
<1>5. removal' \in [Projects -> Seq(Index!Aliases \X Index!Collections)]
  <2>1. /\ Index!Targets(2) \in Seq(Index!Aliases \X Index!Collections)
        /\ Tail(removal[p]) \in Seq(Index!Aliases \X Index!Collections)
    BY <1>0, TargetsType, SearchFacts
  <2>. QED  BY <1>0, <1>2, <2>1 DEF SearchTypes
<1>6. /\ X = Index!Missing \/ X \subseteq Projects
      /\ X = Index!Missing <=> docs[a][c] = Index!Missing
  <2>1. docs[a][c] = Index!Missing \/ docs[a][c] \subseteq Projects
    BY <1>0, <1>1 DEF SearchTypes
  <2>2. 0 # p /\ \A x \in Projects : x # 0
    BY SearchFacts
  <2>. QED  BY <2>1, <2>2, SearchFacts
<1>. HIDE DEF X, a, c
<1>7. HasPut(a, c, X)
  BY <1>0, <1>1, <1>2, <1>6, DocsPut
<1>8. SearchTypes'
  BY <1>0, <1>2, <1>3, <1>4, <1>5, <1>7 DEF SearchTypes, HasPut
<1>9. \A b \in Index!Aliases, d \in Index!Collections :
        /\ docs'[b][d] = Index!Missing <=> docs[b][d] = Index!Missing
        /\ docs'[b][d] = docs[b][d] \/ (b = a /\ docs'[b][d] = docs[b][d] \ {p})
  BY <1>1, <1>6, <1>7 DEF HasPut, X
<1>10. EditKeeps(p)
  <2>1. /\ p \notin promised'[a] /\ \A q \in Runs : p \notin run'[q].since
        /\ \A b \in Index!Aliases : promised'[b] \subseteq promised[b]
    BY <1>3, <1>4
  <2>2. \A q \in Runs : /\ SamePlace(q)
                        /\ run[q].since \ {p} \subseteq run'[q].since
                        /\ run'[q].since \subseteq run[q].since \cap listed'
    BY <1>2, <1>3 DEF SearchInv
  <2>3. ASSUME NEW b \in Index!Aliases, NEW d \in Index!Collections
        PROVE  /\ docs'[b][d] = Index!Missing <=> docs[b][d] = Index!Missing
               /\ docs'[b][d] = docs[b][d] \/
                    /\ docs'[b][d] = docs[b][d] \ {p}
                    /\ p \notin promised'[b] /\ \A q \in Runs : p \notin run'[q].since
    <3>1. CASE b = a
      BY <1>9, <2>1, <3>1
    <3>2. CASE b # a
      BY <1>9, <3>2
    <3>. QED  BY <3>1, <3>2
  <2>4. UNCHANGED alias
    BY <1>2
  <2>. QED  BY <2>1, <2>2, <2>3, <2>4 DEF EditKeeps
<1>. QED  BY <1>8, <1>10, EditStep

\* It holds at the start.
LEMMA SearchStart ==
  ASSUME Index!Init PROVE SearchInv
<1>1. Index!Idle \in Rebuilding /\ Index!Idle.step = "idle" /\ Index!Idle.since = {}
  BY SearchFacts DEF Index!Idle, Rebuilding, Steps
<1>2. /\ docs \in [Index!Aliases -> [Index!Collections -> SUBSET Nat]]
      /\ \A a \in Index!Aliases, c \in Index!Collections : docs[a][c] = Index!Missing
  BY SearchFacts DEF Index!Init
<1>3. <<>> \in Seq(Index!Aliases \X Index!Collections)
  OBVIOUS
<1>4. SearchTypes
  BY <1>1, <1>2, <1>3 DEF Index!Init, SearchTypes
<1>5. \A r \in Runs : run[r] = Index!Idle
  BY DEF Index!Init
<1>. QED  BY <1>1, <1>4, <1>5
             DEF Index!Init, SearchInv, RunsAreAlone, Index!At, AliasInv, FillingInv,
                 Index!ServedIsComplete

\* What the other components do leaves the index alone.
LEMMA IndexOfSafety ==
  /\ SafetyInit => Index!Init
  /\ [SafetyNext]_allVars => [Index!Next]_(Index!vars)
<1>1. UNCHANGED searchVars => UNCHANGED Index!vars
  BY DEF searchVars, Index!vars
<1>. QED  BY <1>1 DEF SafetyInit, SafetyNext, allVars

\* The inductive invariant of the index: where a rebuild is, and what the
\* collections have by then of the projects that have stayed listed.
THEOREM SearchInvariant ==
  ASSUME IsFiniteSet(Projects), ~Overlap
  PROVE  SafetySpec => []SearchInv
<1>1. [Index!Next]_(Index!vars) /\ SearchInv => SearchInv'
  <2>1. UNCHANGED Index!vars /\ SearchInv => SearchInv'
    BY DEF Index!vars, SearchInv, SearchTypes, RunsAreAlone, Index!At, AliasInv, FillingInv,
           Swapped, Index!NextOf, HasRead, InHand, Index!ServedIsComplete, Index!Served
  <2>. QED  BY <2>1, RebuildStep, ListingStep, RemovalStep DEF Index!Next
<1>. QED  BY <1>1, SearchStart, IndexOfSafety, PTL DEF SafetySpec

\* The collections that are served exist and have every project that has been listed
\* since their rebuild began, wherever rebuilds and removals failed, as long as
\* rebuilds do not overlap (index_projects).
THEOREM ServedStaysComplete ==
  ASSUME IsFiniteSet(Projects), ~Overlap
  PROVE  SafetySpec => []ServedIsComplete
<1>1. SearchInv => ServedIsComplete
  BY DEF SearchInv, ServedIsComplete
<1>. QED  BY <1>1, SearchInvariant, PTL
=============================================================================
