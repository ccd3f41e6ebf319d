--------------------------- MODULE ProjectsProofs ---------------------------
(***************************************************************************)
(* Safety of the status of the project that MCSafety puts beside other      *)
(* components, for any requests, moderators and statuses.                   *)
(***************************************************************************)
EXTENDS MCSafety, TLAPS

\* ApprovedUnlessHasty is not inductive: a request that was let through, and a
\* scheduled project, are statuses to come.
PendingInv ==
  /\ \A e \in Edits : edit[e].step = "write" => edit[e].wants \in Statuses
  /\ \A e \in Edits \ Moderators : edit[e].step = "write" =>
    \/ edit[e].wants = "processing"
    \/ edit[e].seen \in Project!Approved /\ edit[e].wants \in Project!Requestable

WordInv ==
  projectStatus \in Project!Approved \cup {"scheduled"} => word \in {"approved", "hasty"}

ProjectInv == Project!TypeOK /\ PendingInv /\ WordInv /\ Project!SubmissionsAreKept

OneEdit(e) ==
  \/ \E s \in Statuses : Project!Check(e, s)
  \/ Project!Write(e) \/ Project!Clear(e) \/ Project!EditFails(e)

Others ==
  \/ Project!AddVersion \/ Project!AutoMod \/ Project!Review
  \/ Project!ReleaseScheduled \/ Project!Expire \/ Project!Dies

\* What the lists of statuses have in common.
LEMMA StatusFacts ==
  /\ Project!Approved \subseteq Project!Requestable /\ Project!Requestable \subseteq Statuses
  /\ Project!Requestable \subseteq Project!Approved \cup {"draft"}
  /\ "draft" \notin Project!Approved /\ "processing" \notin Project!Requestable
  /\ "scheduled" \notin Project!Requestable /\ "rejected" \notin Project!Requestable
  /\ {"draft", "processing", "rejected", "scheduled"} \subseteq Statuses
  /\ "none" \notin Project!Approved
BY ProjectAssumption DEF Project!ProjectsAssumption, Project!Approved, Project!Requestable

\* It holds at the start.
LEMMA ProjectInit ==
  Project!Init => ProjectInv
<1> SUFFICES ASSUME Project!Init PROVE ProjectInv
  OBVIOUS
<1> USE StatusFacts DEF Project!Init
<1>1. Project!TypeOK
  BY DEF Project!TypeOK, Project!NoEdit, Project!Idle
<1>2. PendingInv /\ Project!SubmissionsAreKept
  BY DEF PendingInv, Project!SubmissionsAreKept, Project!NoEdit
<1>3. WordInv
  BY DEF WordInv
<1>. QED  BY <1>1, <1>2, <1>3 DEF ProjectInv

\* Every step keeps the types.
LEMMA TypeStep ==
  Project!TypeOK /\ PendingInv /\ [Project!Next]_(Project!vars) => Project!TypeOK'
<1> SUFFICES ASSUME Project!TypeOK, PendingInv, [Project!Next]_(Project!vars) PROVE Project!TypeOK'
  OBVIOUS
<1> USE StatusFacts DEF Project!TypeOK
<1>1. ASSUME NEW e \in Edits, OneEdit(e) PROVE Project!TypeOK'
  <2>1. ASSUME NEW s \in Statuses, Project!Check(e, s) PROVE Project!TypeOK'
    BY <2>1 DEF Project!Check, Project!Shown
  <2>2. CASE Project!Write(e)
    BY <2>2 DEF Project!Write, Project!WordOf, PendingInv
  <2>3. CASE Project!Clear(e) \/ Project!EditFails(e)
    BY <2>3 DEF Project!Clear, Project!EditFails, Project!NoEdit, Project!history
  <2>. QED  BY <1>1, <2>1, <2>2, <2>3 DEF OneEdit
<1>2. CASE Project!AddVersion \/ Project!ReleaseScheduled \/ Project!Expire \/ Project!Dies
  <2>1. CASE Project!AddVersion
    BY <2>1 DEF Project!AddVersion
  <2>2. CASE Project!ReleaseScheduled
    BY <2>2 DEF Project!ReleaseScheduled, Project!history
  <2>3. CASE Project!Expire
    BY <2>3 DEF Project!Expire, Project!Shown, Project!history
  <2>4. CASE Project!Dies
    BY <2>4 DEF Project!Dies, Project!NoEdit, Project!Idle
  <2>. QED  BY <1>2, <2>1, <2>2, <2>3, <2>4
<1>3. CASE Project!AutoMod
  <2>1. CASE Project!Take
    BY <2>1 DEF Project!Take, Project!history
  <2>2. CASE Project!Empty
    BY <2>2 DEF Project!Empty, Project!Idle
  <2>3. CASE Project!Read
    BY <2>3 DEF Project!Read, Project!Shown
  <2>4. CASE Project!Pass
    BY <2>4 DEF Project!Pass, Project!Idle
  <2>5. CASE Project!Reject
    BY <2>5 DEF Project!Reject
  <2>6. CASE Project!BotClears
    BY <2>6 DEF Project!BotClears, Project!Idle, Project!history
  <2>. QED  BY <1>3, <2>1, <2>2, <2>3, <2>4, <2>5, <2>6 DEF Project!AutoMod
<1>4. CASE Project!Review
  BY <1>4
     DEF Project!Review, Project!ReviewWrites, Project!ReviewClears, Project!ReviewCommits,
         Project!ReviewFails, Project!history
<1>5. CASE UNCHANGED Project!vars
  BY <1>5 DEF Project!vars, Project!history
<1>. QED  BY <1>1, <1>2, <1>3, <1>4, <1>5 DEF Project!Next, OneEdit

\* A request that is about to write has passed its check, and keeps what it read.
LEMMA PendingStep ==
  Project!TypeOK /\ PendingInv /\ [Project!Next]_(Project!vars) => PendingInv'
<1> SUFFICES ASSUME Project!TypeOK, PendingInv, [Project!Next]_(Project!vars) PROVE PendingInv'
  OBVIOUS
<1>1. ASSUME NEW e \in Edits, NEW s \in Statuses, Project!Check(e, s) PROVE PendingInv'
  BY <1>1 DEF Project!Check, Project!Permitted, PendingInv, Project!TypeOK
<1>2. ASSUME NEW e \in Edits, Project!Write(e) \/ Project!Clear(e) \/ Project!EditFails(e) PROVE PendingInv'
  BY <1>2
     DEF Project!Write, Project!Clear, Project!EditFails, Project!NoEdit, PendingInv,
         Project!TypeOK
<1>3. CASE Project!Dies
  BY <1>3 DEF Project!Dies, Project!NoEdit, PendingInv
<1>4. CASE UNCHANGED edit
  BY <1>4 DEF PendingInv
<1>5. ASSUME Others \/ UNCHANGED Project!vars PROVE Project!Dies \/ UNCHANGED edit
  BY <1>5
     DEF Others, Project!AddVersion, Project!AutoMod, Project!Take, Project!Empty,
         Project!Read, Project!Pass, Project!Reject, Project!BotClears, Project!Review,
         Project!ReviewWrites, Project!ReviewClears, Project!ReviewCommits,
         Project!ReviewFails, Project!ReleaseScheduled, Project!Expire, Project!vars
<1>. QED  BY <1>1, <1>2, <1>3, <1>4, <1>5 DEF Project!Next, Others

\* A status that was approved or scheduled is written by a moderator, by a member who
\* read the one before it, by one who is hasty, or by the clock.
LEMMA WordStep ==
  ProjectInv /\ [Project!Next]_(Project!vars) => WordInv'
<1> SUFFICES ASSUME ProjectInv, [Project!Next]_(Project!vars) PROVE WordInv'
  OBVIOUS
<1> USE StatusFacts DEF ProjectInv, WordInv
<1>1. ASSUME NEW e \in Edits, Project!Write(e) PROVE WordInv'
  <2>1. CASE e \in Moderators
    BY <1>1, <2>1 DEF Project!Write, Project!WordOf
  <2>2. CASE e \notin Moderators
    <3>1. \/ projectStatus' = "processing"
          \/ edit[e].seen \in Project!Approved /\ projectStatus' \in Project!Requestable
      BY <1>1, <2>2 DEF Project!Write, PendingInv
    <3>2. CASE projectStatus' \notin Project!Approved
      BY <3>1, <3>2
    <3>3. CASE projectStatus' \in Project!Approved
      <4>1. edit[e].seen \in Project!Approved
        BY <3>1, <3>3
      <4>2. word = "approved" \/ edit[e].seen # projectStatus \/ word' = word
        BY <1>1, <2>2, <3>3 DEF Project!Write
      <4>3. CASE edit[e].seen # projectStatus /\ word # "approved"
        BY <1>1, <2>2, <3>3, <4>3 DEF Project!Write
      <4>4. CASE edit[e].seen = projectStatus \/ word = "approved"
        <5>1. word' = word
          BY <1>1, <2>2, <4>4 DEF Project!Write
        <5>. QED  BY <4>1, <4>4, <5>1
      <4>. QED  BY <4>3, <4>4
    <3>. QED  BY <3>2, <3>3
  <2>. QED  BY <2>1, <2>2
<1>2. CASE Project!ReleaseScheduled
  BY <1>2 DEF Project!ReleaseScheduled, Project!history
<1>3. CASE Project!Reject \/ Project!ReviewCommits
  BY <1>3 DEF Project!Reject, Project!ReviewCommits
<1>4. CASE UNCHANGED <<projectStatus, word>>
  BY <1>4
<1>5. ASSUME NEW e \in Edits,
             (\E s \in Statuses : Project!Check(e, s)) \/ Project!Clear(e) \/ Project!EditFails(e)
      PROVE  UNCHANGED <<projectStatus, word>>
  BY <1>5 DEF Project!Check, Project!Clear, Project!EditFails, Project!history
<1>6. ASSUME Others \/ UNCHANGED Project!vars, ~Project!Reject, ~Project!ReviewCommits,
             ~Project!ReleaseScheduled
      PROVE  UNCHANGED <<projectStatus, word>>
  BY <1>6
     DEF Others, Project!AddVersion, Project!AutoMod, Project!Take, Project!Empty,
         Project!Read, Project!Pass, Project!BotClears, Project!Review,
         Project!ReviewWrites, Project!ReviewClears, Project!ReviewFails, Project!Expire,
         Project!Dies, Project!vars, Project!history
<1>. QED  BY <1>1, <1>2, <1>3, <1>4, <1>5, <1>6 DEF Project!Next, Others

\* A submission stays in the queue until AutoMod has it in hand, or loses it.
LEMMA QueueStep ==
  Project!TypeOK /\ Project!SubmissionsAreKept /\ [Project!Next]_(Project!vars) =>
    Project!SubmissionsAreKept'
<1> SUFFICES ASSUME Project!TypeOK, Project!SubmissionsAreKept, [Project!Next]_(Project!vars)
             PROVE  Project!SubmissionsAreKept'
  OBVIOUS
<1> USE DEF Project!SubmissionsAreKept
<1>1. ASSUME NEW e \in Edits, OneEdit(e) PROVE Project!SubmissionsAreKept'
  BY <1>1
     DEF OneEdit, Project!Check, Project!Write, Project!Clear, Project!EditFails,
         Project!history
<1>2. CASE Project!Take
  BY <1>2 DEF Project!Take, Project!history, Project!TypeOK
<1>3. CASE Project!Empty
  BY <1>3 DEF Project!Empty, Project!TypeOK
<1>4. CASE Project!Read \/ Project!Pass \/ Project!Reject \/ Project!BotClears
  BY <1>4
     DEF Project!Read, Project!Pass, Project!Reject, Project!BotClears, Project!Idle,
         Project!history, Project!TypeOK
<1>5. CASE Project!Review
  BY <1>5
     DEF Project!Review, Project!ReviewWrites, Project!ReviewClears, Project!ReviewCommits,
         Project!ReviewFails, Project!history
<1>6. CASE Project!AddVersion \/ Project!ReleaseScheduled \/ Project!Expire \/ Project!Dies
  BY <1>6
     DEF Project!AddVersion, Project!ReleaseScheduled, Project!Expire, Project!Dies,
         Project!history
<1>7. CASE UNCHANGED Project!vars
  BY <1>7 DEF Project!vars, Project!history
<1>. QED  BY <1>1, <1>2, <1>3, <1>4, <1>5, <1>6, <1>7
             DEF Project!Next, OneEdit, Project!AutoMod

\* What the other components do leaves the project alone.
LEMMA ProjectOfSafety ==
  /\ SafetyInit => Project!Init
  /\ [SafetyNext]_allVars => [Project!Next]_(Project!vars)
<1>1. SafetyInit => Project!Init
  BY DEF SafetyInit
<1>2. UNCHANGED projectVars => UNCHANGED Project!vars
  BY DEF projectVars, Project!vars, Project!history
<1>. QED  BY <1>1, <1>2 DEF SafetyNext, allVars

\* The inductive invariant: what is about to be written was permitted for the status
\* that was read, what is approved or scheduled has the word of those who moderate or
\* a hasty request behind it, and no submission gets out of sight.
THEOREM ProjectInvariant == SafetySpec => []ProjectInv
<1>1. ProjectInv /\ [Project!Next]_(Project!vars) => ProjectInv'
  BY TypeStep, PendingStep, WordStep, QueueStep DEF ProjectInv
<1>. QED  BY ProjectInit, <1>1, ProjectOfSafety, PTL DEF SafetySpec

\* Nobody approves a project but those who moderate, and a member's request that
\* read another status than the one it overwrites, for any number of requests.
THEOREM NobodyElseApproves == SafetySpec => []ApprovedUnlessHasty
<1>1. ProjectInv => ApprovedUnlessHasty
  BY DEF ProjectInv, WordInv, ApprovedUnlessHasty, Project!ApprovedUnlessHasty
<1>. QED  BY ProjectInvariant, <1>1, PTL

\* A submission leaves AutoMod's queue only into its hands, or is lost in one of the
\* two ways that are known.
THEOREM QueueKeeps == SafetySpec => []SubmissionsAreKept
<1>1. ProjectInv => SubmissionsAreKept
  BY DEF ProjectInv, SubmissionsAreKept, Project!SubmissionsAreKept
<1>. QED  BY ProjectInvariant, <1>1, PTL
=============================================================================
