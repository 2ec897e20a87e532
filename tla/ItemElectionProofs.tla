-------------------------- MODULE ItemElectionProofs --------------------------
(***************************************************************************)
(* Proofs about ItemElection, for any number of nodes, clients and nodes   *)
(* that give up.                                                           *)
(***************************************************************************)
EXTENDS ItemElection, FiniteSetTheorems, TLAPS

-----------------------------------------------------------------------------
(***************************************************************************)
(* The inductive invariant.  A position may be claimed, in a record, in a  *)
(* notification or in the votes of an election under way, only by a node   *)
(* that took it, or after enough nodes took it to decide the election.     *)
(***************************************************************************)
BacksYes(n) == n \in YesSide \/ YesWon
BacksNo(n) == n \in NoSide \/ NoWon

Claims(n, side) ==
  /\ side = "yes" => BacksYes(n)
  /\ side = "no" => BacksNo(n)

RecordBacked(n) ==
  /\ rec[n] \in {"UNDEFINED", "PENDING"} \/ Claims(n, SideOf(rec[n]))
  /\ rec[n] = "UNDEFINED" => proc[n] = "NONE" \/ n \in gaveUp
  /\ rec[n] \in {"UNDEFINED", "PENDING"} => ballot[n] = "none" \/ n \in gaveUp
  /\ check[n] = "saving" => rec[n] \in {"PENDING_POSITIVE", "PENDING_NEGATIVE"}

RecordsBacked == \A n \in Node : RecordBacked(n)

NetBacked == \A m \in net : Claims(m.from, m.side)

VotesBacked ==
  \A n \in Node : proc[n] \in BeforeConsensus \cup {"NONE"} =>
    /\ \A v \in yes[n] : BacksYes(v)
    /\ \A v \in no[n] : BacksNo(v)

\* Before the consensus nothing is scheduled, after it one job that records it.
JobsBacked ==
  \A n \in Node :
    /\ "commit" \in jobs[n] => YesWon
    /\ "decline" \in jobs[n] => NoWon
    /\ ~({"commit", "decline"} \subseteq jobs[n])
    /\ proc[n] \in BeforeConsensus => jobs[n] = {}

\* Until that job has run, or failed, the record has no verdict.
NotConcluded == BeforeConsensus \cup {"GOT_CONSENSUS"}

UndecidedYet ==
  \A n \in Node : proc[n] \in NotConcluded \/ jobs[n] \cap RecordsVerdict # {} =>
    rec[n] \notin IsConsensusFound

\* A rollback meets a verdict, or a job that will record one, only after an
\* emergencyBreak that came when the verdict was due.
RollbacksMarked ==
  \A n \in Node :
    /\ "rollback" \in jobs[n]
    /\ rec[n] \in IsConsensusFound \/ jobs[n] \cap RecordsVerdict # {}
    => quit[n] = "due"

Backed ==
  /\ RecordsBacked
  /\ NetBacked
  /\ VotesBacked
  /\ JobsBacked
  /\ VerdictsAreBacked
  /\ UndecidedYet
  /\ RollbacksMarked

IInv == TypeOK /\ Backed

-----------------------------------------------------------------------------
(***************************************************************************)
(* Types.                                                                  *)
(***************************************************************************)
USE DEF BeforeConsensus, IsProcessedToConsensus, ProcessingState, IsPending,
        IsConsensusFound, ItemState, Job, RecordsVerdict, CheckState, Side,
        NotConcluded

\* Config.updateConsensus gives this network thresholds between 1 and N.
LEMMA Thresholds ==
  /\ N \in Nat \ {0}
  /\ Positive \in 1..N
  /\ Negative \in 1..N
  /\ Positive + Negative > N
<1>1. N \in Nat \ {0}
  BY NodeAssumption, FS_CardinalityType, FS_EmptySet DEF N
<1>2. QED
  BY <1>1
  DEF Positive, Negative, PositiveConsensus, NegativeConsensus, Exclusive, AtLeastOne

VoteTypes ==
  /\ proc' \in [Node -> ProcessingState]
  /\ copy' \in [Node -> BOOLEAN]
  /\ yes' \in [Node -> SUBSET Node]
  /\ no' \in [Node -> SUBSET Node]
  /\ jobs' \in [Node -> SUBSET Job]

LEMMA SideOfType ==
  ASSUME NEW state \in ItemState
  PROVE  SideOf(state) \in Side
BY DEF SideOf, IsPositive

\* close leaves a processor that sends its consensus, or none.
LEMMA CloseTypes ==
  ASSUME TypeOK, NEW n \in Node, NEW y \in SUBSET Node, NEW x \in SUBSET Node,
         Close(n, y, x)
  PROVE  /\ proc' \in [Node -> ProcessingState]
         /\ copy' \in [Node -> BOOLEAN]
         /\ yes' \in [Node -> SUBSET Node]
         /\ no' \in [Node -> SUBSET Node]
<1>1. CASE Remove(n)
  BY <1>1 DEF TypeOK, Remove
<1>2. CASE Keep(n, "SENDING_CONSENSUS", y, x)
  BY <1>2 DEF TypeOK, Keep
<1>3. QED
  BY <1>1, <1>2 DEF Close

\* vote leaves a processor in one of its states, and schedules one of its jobs.
LEMMA VoteTyped ==
  ASSUME TypeOK, NEW n \in Node, NEW s \in ProcessingState,
         NEW voter \in Node, NEW side \in Side, Vote(n, s, voter, side)
  PROVE  VoteTypes
<1>1. ASSUME NEW y \in SUBSET Node, NEW x \in SUBSET Node, Count(n, s, y, x)
      PROVE  VoteTypes
  <2>1. CASE Close(n, y, x) /\ UNCHANGED jobs
    BY <2>1, CloseTypes DEF VoteTypes, TypeOK
  <2>2. CASE /\ s \in ProcessingState
             /\ \/ Keep(n, s, y, x)
                \/ Keep(n, "GOT_CONSENSUS", y, x)
             /\ \/ UNCHANGED jobs
                \/ jobs' = [jobs EXCEPT ![n] = @ \cup {"decline"}]
                \/ jobs' = [jobs EXCEPT ![n] = @ \cup {"commit"}]
    BY <2>2 DEF VoteTypes, TypeOK, Keep
  <2>3. QED
    BY <1>1, <2>1, <2>2 DEF Count
<1>2. CASE /\ proc' = [proc EXCEPT ![n] = s]
           /\ UNCHANGED <<copy, yes, no, jobs>>
  BY <1>2 DEF VoteTypes, TypeOK
<1>3. /\ yes[n] \in SUBSET Node
      /\ no[n] \in SUBSET Node
  BY DEF TypeOK
<1>4. CASE Count(n, s, yes[n] \cup {voter}, no[n] \ {voter})
  BY <1>1, <1>3, <1>4
<1>5. CASE Count(n, s, yes[n] \ {voter}, no[n] \cup {voter})
  BY <1>1, <1>3, <1>5
<1>6. QED
  BY <1>2, <1>4, <1>5 DEF Vote

LEMMA PositionType ==
  ASSUME TypeOK, NEW n \in Node, NEW to \in Node, NEW ask \in BOOLEAN
  PROVE  Position(n, to, ask) \in Notification
BY SideOfType DEF TypeOK, Position, Notification

LEMMA SendTyped ==
  ASSUME TypeOK, NEW ms \in SUBSET Notification, Send(ms)
  PROVE  net' \in SUBSET Notification
BY DEF TypeOK, Send, Asking

LEMMA BroadcastTyped ==
  ASSUME TypeOK, NEW n \in Node, NEW reached \in SUBSET Node,
         Send({Position(n, to, TRUE) : to \in reached})
  PROVE  net' \in SUBSET Notification
<1>1. {Position(n, to, TRUE) : to \in reached} \in SUBSET Notification
  BY PositionType
<1>2. QED
  BY <1>1, SendTyped

\* A scheduled job ends with close, whatever it did to the record.
LEMMA JobTyped ==
  ASSUME TypeOK, NEW n \in Node, NEW j \in Job, StartsJob(n, j),
         EndsJob(n)
  PROVE  VoteTypes
<1>1. /\ yes[n] \in SUBSET Node
      /\ no[n] \in SUBSET Node
      /\ jobs' \in [Node -> SUBSET Job]
  BY DEF TypeOK, StartsJob
<1>2. CASE UNCHANGED processor
  BY <1>1, <1>2 DEF VoteTypes, TypeOK, processor
<1>3. CASE Close(n, yes[n], no[n])
  BY <1>1, <1>3, CloseTypes DEF VoteTypes
<1>4. QED
  BY <1>2, <1>3 DEF EndsJob

LEMMA BreakTyped ==
  ASSUME TypeOK, NEW n \in Node, NEW left \in SUBSET Job, EmergencyBreak(n, left)
  PROVE  VoteTypes /\ quit' \in [Node -> {"none", "open", "due"}]
<1>1. quit' \in [Node -> {"none", "open", "due"}]
  BY DEF TypeOK, EmergencyBreak, Quits
<1>2. jobs' \in [Node -> SUBSET Job]
  <2>1. left \cup {"rollback"} \in SUBSET Job
    OBVIOUS
  <2>2. \/ jobs' = [jobs EXCEPT ![n] = left \cup {"rollback"}]
        \/ jobs' = [jobs EXCEPT ![n] = left]
    BY DEF EmergencyBreak
  <2>3. QED
    BY <2>1, <2>2 DEF TypeOK
<1>3. /\ proc' \in [Node -> ProcessingState]
      /\ copy' \in [Node -> BOOLEAN]
      /\ yes' \in [Node -> SUBSET Node]
      /\ no' \in [Node -> SUBSET Node]
  <2>1. CASE Remove(n)
    BY <2>1 DEF TypeOK, Remove
  <2>2. CASE proc' = [proc EXCEPT ![n] = "FINISHED"] /\ UNCHANGED <<copy, yes, no>>
    BY <2>2 DEF TypeOK
  <2>3. QED
    BY <2>1, <2>2 DEF EmergencyBreak
<1>4. QED
  BY <1>1, <1>2, <1>3 DEF VoteTypes

\* Every handler leaves every variable within its type.
LEMMA TypeStep ==
  ASSUME TypeOK, [Next]_vars
  PROVE  TypeOK'
<1> USE DEF TypeOK, vars, processor, history, TakesSide, GivesUp
<1>1. ASSUME NEW n \in Node, NEW hasItem \in BOOLEAN, CreateProcessor(n, hasItem)
      PROVE  TypeOK'
  BY <1>1 DEF CreateProcessor
<1>2. ASSUME NEW n \in Node, NEW m \in net, Answer(n, m)
      PROVE  TypeOK'
  <2>1. Position(n, m.from, FALSE) \in Notification
    BY PositionType DEF Notification
  <2>2. net' \in SUBSET Notification
    BY <1>2, <2>1, SendTyped DEF Answer
  <2>3. QED
    BY <1>2, <2>2 DEF Answer
<1>3. ASSUME NEW n \in Node, NEW m \in net, Receive(n, m)
      PROVE  TypeOK'
  <2>1. m \in Notification /\ m.from \in Node /\ m.side \in Side
    BY DEF Notification
  <2>2. VoteTypes
    <3>1. CASE Vote(n, proc[n], m.from, m.side)
      BY <2>1, <3>1, VoteTyped
    <3>2. CASE UNCHANGED <<proc, copy, yes, no, jobs>>
      BY <3>2 DEF VoteTypes
    <3>3. QED
      BY <1>3, <3>1, <3>2 DEF Receive
  <2>3. \A ask \in BOOLEAN : Position(n, m.from, ask) \in Notification
    BY <2>1, PositionType
  <2>4. net' \in SUBSET Notification
    <3> DEFINE needsVote == /\ rec[n] \in IsPending
                            /\ m.from \notin Heard(n)
                            /\ m.side = "pending" \/ proc[n] = "FINISHED"
    <3>1. needsVote \in BOOLEAN
      OBVIOUS
    <3>2. Send(IF m.ask /\ rec[n] # "PENDING"
               THEN {Position(n, m.from, needsVote)} ELSE {})
      BY <1>3 DEF Receive
    <3>3. QED
      BY <2>3, <3>1, <3>2, SendTyped
  <2>5. QED
    BY <1>3, <2>2, <2>4 DEF Receive, VoteTypes
<1>4. ASSUME NEW n \in Node, Download(n)
      PROVE  TypeOK'
  BY <1>4 DEF Download
<1>5. ASSUME NEW n \in Node, NEW passed \in BOOLEAN, TakePosition(n, passed)
      PROVE  TypeOK'
  BY <1>5 DEF TakePosition
<1>6. ASSUME NEW n \in Node, PublishPosition(n)
      PROVE  TypeOK'
  <2>1. SideOf(rec[n]) \in Side
    BY SideOfType
  <2>2. VoteTypes
    <3> DEFINE s == IF proc[n] \in BeforeConsensus THEN "POLLING" ELSE proc[n]
    <3>1. s \in ProcessingState
      OBVIOUS
    <3>2. Vote(n, s, n, SideOf(rec[n]))
      BY <1>6 DEF PublishPosition
    <3>3. QED
      BY <2>1, <3>1, <3>2, VoteTyped
  <2>3. PICK reached \in SUBSET Node : Send({Position(n, to, TRUE) : to \in reached})
    BY <1>6 DEF PublishPosition
  <2>4. net' \in SUBSET Notification
    BY <2>3, BroadcastTyped
  <2>5. QED
    BY <1>6, <2>2, <2>4 DEF PublishPosition, EndsSave, VoteTypes
<1>7. ASSUME NEW n \in Node, CheckBreaks(n) \/ SaveFails(n)
      PROVE  TypeOK'
  <2>1. EmergencyBreak(n, jobs[n]) /\ jobs[n] \in SUBSET Job /\ UNCHANGED net
    BY <1>7 DEF CheckBreaks, SaveFails
  <2>2. VoteTypes /\ quit' \in [Node -> {"none", "open", "due"}]
    BY <2>1, BreakTyped
  <2>3. UNCHANGED <<rec, ballot, gaveUp>>
    BY <2>1 DEF EmergencyBreak
  <2>4. check' \in [Node -> CheckState]
    BY <1>7 DEF CheckBreaks, SaveFails, EndsCheck, EndsSave
  <2>5. QED
    BY <2>1, <2>2, <2>3, <2>4 DEF VoteTypes
<1>8. ASSUME NEW n \in Node, CheckFindsPosition(n)
      PROVE  TypeOK'
  <2>1. net' \in SUBSET Notification
    BY <1>8, BroadcastTyped DEF CheckFindsPosition
  <2>2. EmergencyBreak(n, jobs[n]) /\ jobs[n] \in SUBSET Job
    BY <1>8 DEF CheckFindsPosition
  <2>3. VoteTypes /\ quit' \in [Node -> {"none", "open", "due"}]
    BY <2>2, BreakTyped
  <2>4. UNCHANGED <<rec, ballot, gaveUp>>
    BY <2>2 DEF EmergencyBreak
  <2>5. check' \in [Node -> CheckState]
    BY <1>8 DEF CheckFindsPosition, EndsCheck
  <2>6. QED
    BY <2>1, <2>3, <2>4, <2>5 DEF VoteTypes
<1>9. ASSUME NEW n \in Node, NEW to \in Node, Poll(n, to)
      PROVE  TypeOK'
  <2>1. net' \in SUBSET Notification
    <3>1. {Position(n, to, TRUE)} \in SUBSET Notification
      <4>1. Position(n, to, TRUE) \in Notification
        BY PositionType
      <4>2. QED
        BY <4>1
    <3>2. QED
      BY <1>9, <3>1, SendTyped DEF Poll
  <2>2. QED
    BY <1>9, <2>1 DEF Poll
<1>10. ASSUME NEW n \in Node, PollingExpires(n)
       PROVE  TypeOK'
  BY <1>10 DEF PollingExpires, Quits
<1>11. ASSUME NEW n \in Node, Conclude(n)
       PROVE  TypeOK'
  <2>1. CASE CommitBreaks(n)
    <3> DEFINE left == jobs[n] \ {"commit"}
    <3>1. EmergencyBreak(n, left) /\ left \in SUBSET Job
      BY <2>1 DEF CommitBreaks
    <3>2. VoteTypes /\ quit' \in [Node -> {"none", "open", "due"}]
      <4> HIDE DEF left
      <4>1. QED
        BY <3>1, BreakTyped
    <3>3. UNCHANGED <<rec, ballot, gaveUp, check, net>>
      BY <2>1 DEF CommitBreaks, EmergencyBreak
    <3>4. QED
      BY <3>2, <3>3 DEF VoteTypes
  <2>2. CASE Commit(n) \/ CommitFails(n) \/ CommitTimesOut(n)
    <3>1. VoteTypes
      BY <2>2, JobTyped DEF Commit, CommitFails, CommitTimesOut
    <3>2. QED
      BY <2>2, <3>1 DEF Commit, CommitFails, CommitTimesOut, StartsJob, VoteTypes, Quits
  <2>3. CASE Decline(n) \/ Rollback(n) \/ RollbackFails(n)
    <3>1. VoteTypes
      BY <2>3, JobTyped DEF Decline, Rollback, RollbackFails
    <3>2. QED
      BY <2>3, <3>1 DEF Decline, Rollback, RollbackFails, StartsJob, VoteTypes
  <2>4. QED
    BY <1>11, <2>1, <2>2, <2>3 DEF Conclude
<1>12. ASSUME NEW n \in Node, NEW to \in Node, SendConsensus(n, to)
       PROVE  TypeOK'
  <2>1. CASE Send({Position(n, to, TRUE)}) /\ UNCHANGED <<processor, jobs>>
    <3>1. net' \in SUBSET Notification
      <4>1. Position(n, to, TRUE) \in Notification
        BY PositionType
      <4>2. {Position(n, to, TRUE)} \in SUBSET Notification
        BY <4>1
      <4>3. QED
        BY <2>1, <4>2, SendTyped
    <3>2. QED
      BY <1>12, <2>1, <3>1 DEF SendConsensus
  <2>2. CASE Vote(n, proc[n], n, SideOf(rec[n])) /\ UNCHANGED net
    <3>1. VoteTypes
      BY <2>2, SideOfType, VoteTyped
    <3>2. QED
      BY <1>12, <2>2, <3>1 DEF SendConsensus, VoteTypes
  <2>3. QED
    BY <1>12, <2>1, <2>2 DEF SendConsensus
<1>13. ASSUME NEW n \in Node, ConsensusReceivedExpires(n)
       PROVE  TypeOK'
  BY <1>13 DEF ConsensusReceivedExpires, Remove
<1>14. CASE UNCHANGED vars
  BY <1>14
<1>15. ASSUME NEW n \in Node, NEW m \in net, AnswerLate(n, m)
       PROVE  TypeOK'
  <2>1. /\ m.from \in Node
        /\ \A ask \in BOOLEAN : Position(n, m.from, ask) \in Notification
    BY PositionType DEF Notification
  <2>2. [Position(n, m.from, FALSE) EXCEPT !.side = "no"] \in Notification
    BY <2>1 DEF Position, Notification
  <2>3. net' \in SUBSET Notification
    BY <1>15, <2>1, <2>2, SendTyped DEF AnswerLate
  <2>4. QED
    BY <1>15, <2>3 DEF AnswerLate
<1>16. QED
  BY <1>1, <1>2, <1>3, <1>4, <1>5, <1>6, <1>7, <1>8, <1>9, <1>10, <1>11, <1>12,
     <1>13, <1>14, <1>15 DEF Next, Submit, Notified, Discover, Check

\* Every variable of every node keeps its type (ItemProcessor, StateRecord).
THEOREM TypeCorrect == Spec => []TypeOK
<1>1. Init => TypeOK
  BY DEF Init, TypeOK
<1>2. QED
  BY <1>1, TypeStep, PTL DEF Spec

-----------------------------------------------------------------------------
(***************************************************************************)
(* Votes are backed.                                                       *)
(***************************************************************************)

\* Sides are never taken back, so what backs a claim keeps backing it.
SidesGrow ==
  /\ gaveUp \subseteq gaveUp'
  /\ YesSide \subseteq YesSide'
  /\ NoSide \subseteq NoSide'
  /\ YesWon => YesWon'
  /\ NoWon => NoWon'

LEMMA SidesFinite ==
  ASSUME TypeOK
  PROVE  /\ YesSide \in SUBSET Node /\ NoSide \in SUBSET Node
         /\ IsFiniteSet(YesSide) /\ IsFiniteSet(NoSide)
         /\ Cardinality(YesSide) \in Nat /\ Cardinality(NoSide) \in Nat
<1>1. YesSide \in SUBSET Node /\ NoSide \in SUBSET Node
  BY DEF TypeOK, YesSide, NoSide
<1>2. QED
  BY <1>1, NodeAssumption, FS_Subset, FS_CardinalityType

LEMMA SidesNeverShrink ==
  ASSUME TypeOK, TypeOK',
         \/ UNCHANGED history
         \/ \E n \in Node, side \in {"yes", "no"} : TakesSide(n, side)
         \/ \E n \in Node : GivesUp(n)
  PROVE  SidesGrow
<1>1. YesSide \subseteq YesSide' /\ NoSide \subseteq NoSide'
  <2>1. CASE UNCHANGED history
    BY <2>1 DEF history, YesSide, NoSide
  <2>2. ASSUME NEW n \in Node, NEW side \in {"yes", "no"}, TakesSide(n, side)
        PROVE  YesSide \subseteq YesSide' /\ NoSide \subseteq NoSide'
    BY <2>2 DEF TakesSide, TypeOK, YesSide, NoSide
  <2>3. ASSUME NEW n \in Node, GivesUp(n)
        PROVE  YesSide \subseteq YesSide' /\ NoSide \subseteq NoSide'
    BY <2>3 DEF GivesUp, YesSide, NoSide
  <2>4. QED
    BY <2>1, <2>2, <2>3
<1>2. IsFiniteSet(YesSide') /\ IsFiniteSet(NoSide')
  <2>1. YesSide' \in SUBSET Node /\ NoSide' \in SUBSET Node
    BY DEF TypeOK, YesSide, NoSide
  <2>2. QED
    BY <2>1, NodeAssumption, FS_Subset
<1>3. /\ Cardinality(YesSide) <= Cardinality(YesSide')
      /\ Cardinality(NoSide) <= Cardinality(NoSide')
  BY <1>1, <1>2, FS_Subset
<1>4. /\ Cardinality(YesSide) \in Nat /\ Cardinality(YesSide') \in Nat
      /\ Cardinality(NoSide) \in Nat /\ Cardinality(NoSide') \in Nat
  BY SidesFinite, <1>2, FS_CardinalityType
<1>5. Positive \in Nat /\ Negative \in Nat
  BY Thresholds
<1>6. QED
  BY <1>1, <1>3, <1>4, <1>5 DEF SidesGrow, YesWon, NoWon, history, TakesSide, GivesUp

\* A quorum of backed votes decides the election for their side (vote).
LEMMA QuorumWins ==
  ASSUME TypeOK, NEW S \in SUBSET Node
  PROVE  /\ (\A v \in S : BacksYes(v)) /\ Cardinality(S) >= Positive => YesWon
         /\ (\A v \in S : BacksNo(v)) /\ Cardinality(S) >= Negative => NoWon
<1>1. /\ Positive \in Nat /\ Negative \in Nat
      /\ IsFiniteSet(S) /\ Cardinality(S) \in Nat
  BY Thresholds, NodeAssumption, FS_Subset, FS_CardinalityType
<1>2. S \subseteq YesSide => Cardinality(S) <= Cardinality(YesSide)
  BY SidesFinite, FS_Subset
<1>3. S \subseteq NoSide => Cardinality(S) <= Cardinality(NoSide)
  BY SidesFinite, FS_Subset
<1>4. QED
  BY <1>1, <1>2, <1>3, SidesFinite DEF BacksYes, BacksNo, YesWon, NoWon

\* What counting a vote does to node n, in processing state s, and to no other:
\* the election is decided only by a quorum, and never opened again.
VoteEffect(n, s) ==
  /\ \A k \in Node \ {n} : /\ proc'[k] = proc[k] /\ jobs'[k] = jobs[k]
                           /\ yes'[k] = yes[k] /\ no'[k] = no[k]
  /\ proc'[n] \in BeforeConsensus => s \in BeforeConsensus /\ jobs'[n] = jobs[n]
  /\ proc'[n] # "NONE" => s # "NONE"
  /\ proc'[n] = "GOT_CONSENSUS" => s \in NotConcluded
  /\ \/ jobs'[n] = jobs[n]
     \/ s \in BeforeConsensus /\ jobs'[n] = jobs[n] \cup {"commit"} /\ YesWon
     \/ s \in BeforeConsensus /\ jobs'[n] = jobs[n] \cup {"decline"} /\ NoWon
  /\ proc'[n] \in BeforeConsensus \cup {"NONE"} =>
       /\ \A v \in yes'[n] : BacksYes(v)
       /\ \A v \in no'[n] : BacksNo(v)

LEMMA CloseEffect ==
  ASSUME TypeOK, NEW n \in Node, NEW y \in SUBSET Node, NEW x \in SUBSET Node,
         Close(n, y, x)
  PROVE  /\ \A k \in Node \ {n} : /\ proc'[k] = proc[k]
                                  /\ yes'[k] = yes[k] /\ no'[k] = no[k]
         /\ proc'[n] \in {"NONE", "SENDING_CONSENSUS"}
         /\ proc'[n] = "NONE" => yes'[n] = {} /\ no'[n] = {}
<1>1. CASE Remove(n)
  BY <1>1 DEF TypeOK, Remove
<1>2. CASE Keep(n, "SENDING_CONSENSUS", y, x)
  BY <1>2 DEF TypeOK, Keep
<1>3. QED
  BY <1>1, <1>2 DEF Close

LEMMA CountEffect ==
  ASSUME TypeOK, NEW n \in Node, NEW s \in ProcessingState,
         NEW y \in SUBSET Node, NEW x \in SUBSET Node, Count(n, s, y, x),
         s \in BeforeConsensus => (\A v \in y : BacksYes(v)) /\ (\A v \in x : BacksNo(v))
  PROVE  VoteEffect(n, s)
<1> /\ Positive \in Nat /\ Negative \in Nat
    /\ Cardinality(y) \in Nat /\ Cardinality(x) \in Nat
  BY Thresholds, NodeAssumption, FS_Subset, FS_CardinalityType
<1>1. CASE s = "SENDING_CONSENSUS"
  BY <1>1, CloseEffect DEF Count, VoteEffect, TypeOK
<1>2. CASE s = "GOT_CONSENSUS"
  BY <1>2 DEF Count, Keep, VoteEffect, TypeOK
<1>3. CASE s \in BeforeConsensus /\ Cardinality(x) >= Negative
  <2>1. NoWon
    BY <1>3, QuorumWins
  <2>2. Keep(n, "GOT_CONSENSUS", y, x) /\ jobs' = [jobs EXCEPT ![n] = @ \cup {"decline"}]
    BY <1>3 DEF Count
  <2>3. QED
    BY <1>3, <2>1, <2>2 DEF Keep, VoteEffect, TypeOK
<1>4. CASE /\ s \in BeforeConsensus
           /\ ~(Cardinality(x) >= Negative) /\ Cardinality(y) >= Positive
  <2>1. YesWon
    BY <1>4, QuorumWins
  <2>2. Keep(n, "GOT_CONSENSUS", y, x) /\ jobs' = [jobs EXCEPT ![n] = @ \cup {"commit"}]
    BY <1>4 DEF Count
  <2>3. QED
    BY <1>4, <2>1, <2>2 DEF Keep, VoteEffect, TypeOK
<1>5. CASE /\ s \in BeforeConsensus
           /\ ~(Cardinality(x) >= Negative) /\ ~(Cardinality(y) >= Positive)
  <2>1. Keep(n, s, y, x) /\ UNCHANGED jobs
    BY <1>5 DEF Count
  <2>2. QED
    BY <1>5, <2>1 DEF Keep, VoteEffect, TypeOK
<1>6. QED
  BY <1>1, <1>2, <1>3, <1>4, <1>5 DEF Count

LEMMA VoteHasEffect ==
  ASSUME TypeOK, VotesBacked, NEW n \in Node, NEW s \in ProcessingState,
         NEW voter \in Node, NEW side \in Side, Vote(n, s, voter, side),
         s \in BeforeConsensus \cup {"NONE"} => proc[n] \in BeforeConsensus \cup {"NONE"},
         Claims(voter, side), side = "pending" => s = "SENDING_CONSENSUS"
  PROVE  VoteEffect(n, s)
<1>1. /\ yes[n] \in SUBSET Node /\ no[n] \in SUBSET Node
      /\ s \in BeforeConsensus \cup {"NONE"} => /\ \A v \in yes[n] : BacksYes(v)
                                               /\ \A v \in no[n] : BacksNo(v)
  BY DEF TypeOK, VotesBacked
<1>2. CASE proc' = [proc EXCEPT ![n] = s] /\ UNCHANGED <<copy, yes, no, jobs>>
  BY <1>1, <1>2 DEF VoteEffect, TypeOK
<1>3. CASE side = "yes" /\ Count(n, s, yes[n] \cup {voter}, no[n] \ {voter})
  <2>1. s \in BeforeConsensus => /\ \A v \in yes[n] \cup {voter} : BacksYes(v)
                                 /\ \A v \in no[n] \ {voter} : BacksNo(v)
    BY <1>1, <1>3 DEF Claims
  <2>2. QED
    BY <1>1, <1>3, <2>1, CountEffect
<1>4. CASE side # "yes" /\ Count(n, s, yes[n] \ {voter}, no[n] \cup {voter})
  <2>1. s \in BeforeConsensus => /\ \A v \in yes[n] \ {voter} : BacksYes(v)
                                 /\ \A v \in no[n] \cup {voter} : BacksNo(v)
    BY <1>1, <1>4 DEF Claims
  <2>2. QED
    BY <1>1, <1>4, <2>1, CountEffect
<1>5. QED
  BY <1>2, <1>3, <1>4 DEF Vote

-----------------------------------------------------------------------------
(***************************************************************************)
(* Every handler keeps the invariant.                                      *)
(***************************************************************************)

\* The position a processor, a record or a save gives away is a backed one.
LEMMA PositionBacked ==
  ASSUME RecordsBacked, NEW n \in Node,
         \/ proc[n] # "NONE"
         \/ check[n] = "saving"
         \/ rec[n] \notin {"UNDEFINED", "PENDING"}
  PROVE  Claims(n, SideOf(rec[n]))
<1>1. CASE rec[n] = "UNDEFINED"
  <2>1. n \in gaveUp
    BY <1>1 DEF RecordsBacked, RecordBacked
  <2>2. QED
    BY <2>1 DEF Claims, BacksYes, BacksNo, YesSide, NoSide
<1>2. CASE rec[n] = "PENDING"
  BY <1>2 DEF Claims, SideOf
<1>3. QED
  BY <1>1, <1>2 DEF RecordsBacked, RecordBacked

LEMMA BroadcastBacked ==
  ASSUME NetBacked, NEW n \in Node, NEW ms, Send(ms),
         \A m \in ms : m.from = n /\ m.side = SideOf(rec[n]),
         Claims(n, SideOf(rec[n])), UNCHANGED <<ballot, gaveUp>>
  PROVE  NetBacked'
<1>1. \A m \in net' : Claims(m.from, m.side)
  BY DEF NetBacked, Send, Asking
<1>2. QED
  BY <1>1 DEF NetBacked, Claims, BacksYes, BacksNo, YesSide, NoSide, YesWon,
     NoWon, history

\* A handler that counts a vote, and leaves the records alone.
LEMMA VoteStepBacked ==
  ASSUME IInv, NEW n \in Node, NEW s \in ProcessingState, VoteEffect(n, s),
         s \in BeforeConsensus => proc[n] \in BeforeConsensus,
         s # "NONE" => proc[n] # "NONE",
         s \in BeforeConsensus \/ s = proc[n],
         \A k \in Node : check'[k] = "saving" => check[k] = "saving",
         UNCHANGED <<rec, history>>, NetBacked'
  PROVE  Backed'
<1> USE DEF IInv, Backed, history
<1>1. /\ YesSide' = YesSide /\ NoSide' = NoSide
      /\ YesWon' = YesWon /\ NoWon' = NoWon
  BY DEF YesSide, NoSide, YesWon, NoWon
<1>2. RecordsBacked'
  BY <1>1 DEF RecordsBacked, RecordBacked, VoteEffect, Claims, BacksYes, BacksNo
<1>3. VotesBacked'
  <2>1. ASSUME NEW k \in Node, proc'[k] \in BeforeConsensus \cup {"NONE"}
        PROVE  /\ \A v \in yes'[k] : BacksYes(v)
               /\ \A v \in no'[k] : BacksNo(v)
    BY <2>1 DEF VotesBacked, VoteEffect
  <2>2. QED
    BY <1>1, <2>1 DEF VotesBacked, BacksYes, BacksNo
<1>4. JobsBacked'
  BY <1>1 DEF JobsBacked, VoteEffect
<1>5. VerdictsAreBacked'
  BY <1>1 DEF VerdictsAreBacked
<1>6. UndecidedYet'
  BY DEF UndecidedYet, VoteEffect
<1>7. RollbacksMarked'
  BY DEF RollbacksMarked, JobsBacked, VoteEffect
<1>8. QED
  BY <1>2, <1>3, <1>4, <1>5, <1>6, <1>7

\* A handler that may only move processor n on, remove it with its votes, end a
\* job or schedule a rollback.
MovesOn(n) ==
  /\ \A k \in Node \ {n} : /\ proc'[k] = proc[k] /\ jobs'[k] = jobs[k]
                           /\ yes'[k] = yes[k] /\ no'[k] = no[k]
  /\ proc'[n] \in BeforeConsensus => proc[n] \in BeforeConsensus /\ jobs'[n] = jobs[n]
  /\ proc'[n] = "GOT_CONSENSUS" => proc[n] \in NotConcluded
  /\ \/ yes'[n] = yes[n] /\ no'[n] = no[n] /\ (proc'[n] = "NONE" => proc[n] = "NONE")
     \/ yes'[n] = {} /\ no'[n] = {} /\ proc'[n] = "NONE"
  /\ proc[n] = "NONE" => proc'[n] = "NONE"
  /\ \/ jobs'[n] \subseteq jobs[n]
     \/ /\ jobs'[n] \subseteq jobs[n] \cup {"rollback"}
        /\ rec[n] \notin IsConsensusFound
        /\ jobs'[n] \cap RecordsVerdict # {} => quit'[n] = "due"
  /\ \A k \in Node : /\ quit[k] = "due" => quit'[k] = "due"
                     /\ check'[k] = "saving" => check[k] = "saving"
  /\ UNCHANGED <<rec, ballot, gaveUp>>

LEMMA QuietStepBacked ==
  ASSUME IInv, NEW n \in Node, MovesOn(n), NetBacked'
  PROVE  Backed'
<1> USE DEF IInv, Backed, MovesOn
<1>1. /\ YesSide' = YesSide /\ NoSide' = NoSide
      /\ YesWon' = YesWon /\ NoWon' = NoWon
  BY DEF YesSide, NoSide, YesWon, NoWon
<1>2. RecordsBacked'
  BY <1>1 DEF RecordsBacked, RecordBacked, Claims, BacksYes, BacksNo
<1>3. VotesBacked'
  BY <1>1 DEF VotesBacked, BacksYes, BacksNo
<1>4. JobsBacked'
  BY <1>1 DEF JobsBacked
<1>5. VerdictsAreBacked'
  BY <1>1 DEF VerdictsAreBacked
<1>6. UndecidedYet'
  BY DEF UndecidedYet
<1>7. RollbacksMarked'
  BY DEF RollbacksMarked
<1>8. QED
  BY <1>2, <1>3, <1>4, <1>5, <1>6, <1>7

LEMMA BreakMovesOn ==
  ASSUME IInv, NEW n \in Node, NEW left \in SUBSET jobs[n], EmergencyBreak(n, left),
         \A k \in Node : check'[k] = "saving" => check[k] = "saving"
  PROVE  MovesOn(n)
<1> USE DEF IInv, Backed, EmergencyBreak, Quits, TypeOK, MovesOn
<1>1. CASE proc[n] \in NotConcluded
  <2>1. /\ proc' = [proc EXCEPT ![n] = "FINISHED"]
        /\ jobs' = [jobs EXCEPT ![n] = left \cup {"rollback"}]
        /\ UNCHANGED <<yes, no, rec, ballot, gaveUp>>
        /\ quit' = [quit EXCEPT ![n] = IF left \cap RecordsVerdict # {} THEN "due"
                                        ELSE IF @ = "none" THEN "open" ELSE @]
    BY <1>1
  <2>2. rec[n] \notin IsConsensusFound
    BY <1>1 DEF UndecidedYet
  <2>3. jobs'[n] \cap RecordsVerdict # {} => quit'[n] = "due"
    BY <2>1
  <2>4. \A k \in Node : quit[k] = "due" => quit'[k] = "due"
    BY <2>1
  <2>5. jobs'[n] \subseteq jobs[n] \cup {"rollback"}
    BY <2>1
  <2>6. /\ \A k \in Node \ {n} : proc'[k] = proc[k] /\ jobs'[k] = jobs[k]
        /\ proc'[n] = "FINISHED"
    BY <2>1
  <2> HIDE DEF IInv, Backed, EmergencyBreak, Quits, TypeOK
  <2>7. QED
    BY <1>1, <2>1, <2>2, <2>3, <2>4, <2>5, <2>6
<1>2. CASE proc[n] \in {"SENDING_CONSENSUS", "FINISHED"}
  <2>1. Remove(n) /\ jobs' = [jobs EXCEPT ![n] = left] /\ UNCHANGED <<rec, ballot, gaveUp>>
    BY <1>2
  <2>2. \A k \in Node : quit[k] = "due" => quit'[k] = "due"
    BY <1>2
  <2>3. /\ \A k \in Node \ {n} : /\ proc'[k] = proc[k] /\ jobs'[k] = jobs[k]
                                 /\ yes'[k] = yes[k] /\ no'[k] = no[k]
        /\ proc'[n] = "NONE" /\ yes'[n] = {} /\ no'[n] = {} /\ jobs'[n] = left
    BY <2>1 DEF Remove
  <2> HIDE DEF IInv, Backed, EmergencyBreak, Quits, TypeOK
  <2>4. QED
    BY <1>2, <2>1, <2>2, <2>3
<1>3. QED
  BY <1>1, <1>2

\* A handler that leaves the node as it is.
LEMMA StutterBacked ==
  ASSUME IInv, UNCHANGED <<processor, rec, jobs, check, history>>, NetBacked'
  PROVE  Backed'
<1>1. PICK n \in Node : TRUE
  BY NodeAssumption
<1>2. MovesOn(n)
  BY DEF MovesOn, processor, history
<1>3. QED
  BY <1>2, QuietStepBacked

\* A job that ends in close, having left the record of n in state r.
LEMMA JobStepBacked ==
  ASSUME IInv, SidesGrow, NEW n \in Node, NEW j \in Job, NEW r \in ItemState,
         StartsJob(n, j), EndsJob(n),
         rec' = [rec EXCEPT ![n] = r],
         \A k \in Node : \/ ballot'[k] = ballot[k]
                         \/ k = n /\ r \in {"APPROVED", "DECLINED"},
         \/ r = rec[n]
         \/ r = "APPROVED" /\ j = "commit" /\ YesWon
         \/ r = "DECLINED" /\ j = "decline" /\ NoWon
         \/ r = "UNDEFINED" /\ n \in gaveUp',
         \A k \in Node : quit[k] = "due" => quit'[k] = "due"
  PROVE  Backed'
<1> USE DEF IInv, Backed
<1>1. /\ \A k \in Node \ {n} : /\ proc'[k] = proc[k]
                               /\ yes'[k] = yes[k] /\ no'[k] = no[k]
      /\ proc'[n] \in {"NONE", "SENDING_CONSENSUS"}
      /\ proc'[n] = "NONE" => /\ \A v \in yes'[n] : BacksYes(v)
                              /\ \A v \in no'[n] : BacksNo(v)
      /\ proc[n] = "NONE" => proc'[n] = "NONE"
  <2>1. yes[n] \in SUBSET Node /\ no[n] \in SUBSET Node
    BY DEF TypeOK
  <2>2. CASE proc[n] = "NONE"
    BY <2>2 DEF EndsJob, processor, VotesBacked
  <2>3. CASE proc[n] # "NONE"
    BY <2>1, <2>3, CloseEffect DEF EndsJob
  <2>4. QED
    BY <2>2, <2>3
<1>2. /\ \A k \in Node \ {n} : jobs'[k] = jobs[k] /\ rec'[k] = rec[k]
      /\ j \in jobs[n] /\ jobs'[n] = jobs[n] \ {j} /\ rec'[n] = r
      /\ check[n] # "saving"
      /\ UNCHANGED <<check, net>>
  BY DEF StartsJob, TypeOK
<1>3. \A v, side : Claims(v, side) => Claims(v, side)'
  BY DEF SidesGrow, Claims, BacksYes, BacksNo
<1>4. RecordsBacked'
  <2>1. ASSUME NEW k \in Node, k # n
        PROVE  RecordBacked(k)'
    BY <1>1, <1>2, <1>3, <2>1 DEF RecordsBacked, RecordBacked, SidesGrow
  <2>2. CASE r = rec[n]
    <3>1. \/ proc[n] # "NONE" \/ rec[n] # "UNDEFINED"
          \/ proc'[n] = "NONE" \/ n \in gaveUp'
      BY <1>1 DEF RecordsBacked, RecordBacked, SidesGrow
    <3>2. RecordBacked(n)'
      BY <1>2, <1>3, <2>2, <3>1 DEF RecordsBacked, RecordBacked, SidesGrow
    <3>3. QED
      BY <2>1, <3>2 DEF RecordsBacked, RecordBacked
  <2>3. CASE r \in {"APPROVED", "DECLINED"} /\ r # rec[n]
    <3>1. RecordBacked(n)'
      BY <1>2, <2>3 DEF SidesGrow, Claims, BacksYes, BacksNo, SideOf, IsPositive, RecordBacked
    <3>2. QED
      BY <2>1, <3>1 DEF RecordsBacked, RecordBacked
  <2>4. CASE r = "UNDEFINED" /\ n \in gaveUp'
    <3>1. RecordBacked(n)'
      BY <1>2, <2>4 DEF RecordBacked
    <3>2. QED
      BY <2>1, <3>1 DEF RecordsBacked, RecordBacked
  <2>5. QED
    BY <2>2, <2>3, <2>4
<1>5. NetBacked'
  BY <1>2, <1>3 DEF NetBacked
<1>6. VotesBacked'
  BY <1>1 DEF VotesBacked, SidesGrow, BacksYes, BacksNo
<1>7. JobsBacked'
  BY <1>1, <1>2 DEF JobsBacked, SidesGrow
<1>8. VerdictsAreBacked'
  BY <1>2 DEF VerdictsAreBacked, SidesGrow
<1>9. UndecidedYet'
  BY <1>1, <1>2 DEF UndecidedYet, JobsBacked
<1>10. RollbacksMarked'
  BY <1>2 DEF RollbacksMarked
<1>11. QED
  BY <1>4, <1>5, <1>6, <1>7, <1>8, <1>9, <1>10

\* Every handler keeps every claim backed.
LEMMA BackedStep ==
  ASSUME IInv, [Next]_vars
  PROVE  Backed'
<1> USE DEF IInv, Backed, vars, processor
<1>0. TypeOK'
  BY TypeStep
<1>1. ASSUME NEW n \in Node, NEW hasItem \in BOOLEAN, CreateProcessor(n, hasItem)
      PROVE  Backed'
  <2>1. /\ YesSide' = YesSide /\ NoSide' = NoSide
        /\ YesWon' = YesWon /\ NoWon' = NoWon
    BY <1>1 DEF CreateProcessor, history, YesSide, NoSide, YesWon, NoWon
  <2>2. /\ \A k \in Node \ {n} : proc'[k] = proc[k] /\ rec'[k] = rec[k]
        /\ proc[n] = "NONE" /\ proc'[n] \in {"CHECKING", "DOWNLOADING"}
        /\ rec[n] \notin IsConsensusFound
        /\ rec'[n] = IF rec[n] = "UNDEFINED" THEN "PENDING" ELSE rec[n]
        /\ jobs[n] = {}
        /\ \A k \in Node : check'[k] = "saving" => check[k] = "saving"
        /\ UNCHANGED <<yes, no, jobs, net, history>>
    BY <1>1 DEF CreateProcessor, TypeOK
  <2>3. RecordsBacked'
    BY <2>1, <2>2 DEF RecordsBacked, RecordBacked, Claims, BacksYes, BacksNo, history
  <2>4. NetBacked'
    BY <2>1, <2>2 DEF NetBacked, Claims, BacksYes, BacksNo
  <2>5. VotesBacked'
    BY <2>1, <2>2 DEF VotesBacked, BacksYes, BacksNo
  <2>6. JobsBacked' /\ VerdictsAreBacked' /\ UndecidedYet'
    BY <2>1, <2>2 DEF JobsBacked, VerdictsAreBacked, UndecidedYet
  <2>7. RollbacksMarked'
    BY <2>2 DEF RollbacksMarked, history
  <2>8. QED
    BY <2>3, <2>4, <2>5, <2>6, <2>7
<1>2. ASSUME NEW n \in Node, NEW m \in net, Answer(n, m)
      PROVE  Backed'
  <2>1. Send({Position(n, m.from, FALSE)}) /\ UNCHANGED history
    BY <1>2 DEF Answer
  <2>2. Claims(n, SideOf(rec[n]))
    BY <1>2, PositionBacked DEF Answer
  <2>3. NetBacked'
    BY <2>1, <2>2, BroadcastBacked DEF Position, history
  <2>4. QED
    BY <1>2, <2>3, StutterBacked DEF Answer
<1>3. ASSUME NEW n \in Node, NEW m \in net, Receive(n, m)
      PROVE  Backed'
  <2>1. /\ m.from \in Node /\ m.side \in Side /\ Claims(m.from, m.side)
        /\ proc[n] # "NONE" /\ proc[n] \in ProcessingState
    BY <1>3 DEF Receive, NetBacked, TypeOK, Notification
  <2>2. NetBacked'
    <3> DEFINE needsVote == /\ rec[n] \in IsPending
                            /\ m.from \notin Heard(n)
                            /\ m.side = "pending" \/ proc[n] = "FINISHED"
               ms == IF m.ask /\ rec[n] # "PENDING"
                     THEN {Position(n, m.from, needsVote)} ELSE {}
    <3>1. Send(ms) /\ UNCHANGED history
      BY <1>3 DEF Receive
    <3>2. \A a \in ms : a.from = n /\ a.side = SideOf(rec[n])
      BY DEF Position
    <3>3. Claims(n, SideOf(rec[n]))
      BY <2>1, PositionBacked
    <3> HIDE DEF ms
    <3>4. QED
      BY <3>1, <3>2, <3>3, BroadcastBacked DEF history
  <2>3. CASE m.side # "pending"
    <3>1. VoteEffect(n, proc[n])
      BY <1>3, <2>1, <2>3, VoteHasEffect DEF Receive
    <3>2. QED
      BY <1>3, <2>1, <2>2, <3>1, VoteStepBacked DEF Receive
  <2>4. CASE m.side = "pending"
    BY <1>3, <2>2, <2>4, StutterBacked DEF Receive
  <2>5. QED
    BY <2>3, <2>4
<1>4. ASSUME NEW n \in Node, Download(n)
      PROVE  Backed'
  <2>1. NetBacked'
    BY <1>4 DEF Download, NetBacked, Claims, BacksYes, BacksNo, YesSide, NoSide,
       YesWon, NoWon, history
  <2>2. MovesOn(n)
    BY <1>4 DEF Download, TypeOK, MovesOn, history
  <2>3. QED
    BY <2>1, <2>2, QuietStepBacked
<1>5. ASSUME NEW n \in Node, NEW passed \in BOOLEAN, TakePosition(n, passed)
      PROVE  Backed'
  <2> DEFINE side == IF passed THEN "yes" ELSE "no"
             r == IF passed THEN "PENDING_POSITIVE" ELSE "PENDING_NEGATIVE"
  <2>1. SidesGrow
    BY <1>0, <1>5, SidesNeverShrink DEF TakePosition
  <2>2. \A v, x : Claims(v, x) => Claims(v, x)'
    BY <2>1 DEF SidesGrow, Claims, BacksYes, BacksNo
  <2>3. /\ \A k \in Node \ {n} : rec'[k] = rec[k] /\ check'[k] = check[k]
        /\ rec[n] = "PENDING" /\ rec'[n] = r
        /\ UNCHANGED <<proc, yes, no, jobs, quit, net>>
    BY <1>5 DEF TakePosition, TakesSide, TypeOK
  <2>4. Claims(n, side)'
    <3>1. ballot'[n] = side \/ n \in gaveUp'
      BY <1>5, <2>1, <2>3 DEF TakePosition, TakesSide, TypeOK, RecordsBacked,
         RecordBacked, SidesGrow
    <3>2. QED
      BY <3>1 DEF Claims, BacksYes, BacksNo, YesSide, NoSide
  <2>5. RecordsBacked'
    <3>1. ASSUME NEW k \in Node, k # n
          PROVE  RecordBacked(k)'
      <4>1. ballot'[k] = ballot[k]
        BY <1>5, <3>1 DEF TakePosition, TakesSide, TypeOK
      <4>2. QED
        BY <2>1, <2>2, <2>3, <3>1, <4>1 DEF RecordsBacked, RecordBacked, SidesGrow
    <3>2. RecordBacked(n)'
      BY <2>3, <2>4 DEF RecordBacked, SideOf, IsPositive
    <3>3. QED
      BY <3>1, <3>2 DEF RecordsBacked
  <2>6. NetBacked' /\ VotesBacked' /\ JobsBacked' /\ VerdictsAreBacked' /\ UndecidedYet'
        /\ RollbacksMarked'
    BY <1>5, <2>1, <2>2, <2>3 DEF TakePosition, NetBacked, VotesBacked, JobsBacked,
       VerdictsAreBacked, UndecidedYet, RollbacksMarked, SidesGrow, BacksYes, BacksNo
  <2>7. QED
    BY <2>5, <2>6
<1>6. ASSUME NEW n \in Node, PublishPosition(n)
      PROVE  Backed'
  <2> DEFINE s == IF proc[n] \in BeforeConsensus THEN "POLLING" ELSE proc[n]
  <2>1. /\ Vote(n, s, n, SideOf(rec[n])) /\ UNCHANGED <<rec, history>>
        /\ check[n] = "saving" /\ check' = [check EXCEPT ![n] = "none"]
    BY <1>6 DEF PublishPosition, EndsSave
  <2>2. /\ Claims(n, SideOf(rec[n]))
        /\ SideOf(rec[n]) \in Side /\ SideOf(rec[n]) # "pending"
    BY <2>1, PositionBacked DEF RecordsBacked, RecordBacked, SideOf, IsPositive
  <2>3. /\ s \in ProcessingState
        /\ s \in BeforeConsensus \cup {"NONE"} => proc[n] \in BeforeConsensus \cup {"NONE"}
    BY DEF TypeOK
  <2>4. VoteEffect(n, s)
    <3> HIDE DEF s
    <3>1. QED
      BY <2>1, <2>2, <2>3, VoteHasEffect
  <2>5. PICK reached \in SUBSET Node : Send({Position(n, to, TRUE) : to \in reached})
    BY <1>6 DEF PublishPosition
  <2>6. NetBacked'
    BY <2>1, <2>2, <2>5, BroadcastBacked DEF Position, history
  <2>7. QED
    BY <2>1, <2>3, <2>4, <2>6, VoteStepBacked DEF TypeOK
<1>7. ASSUME NEW n \in Node, CheckBreaks(n) \/ SaveFails(n) \/ PollingExpires(n)
      PROVE  Backed'
  <2>1. NetBacked'
    BY <1>7 DEF CheckBreaks, SaveFails, PollingExpires, EmergencyBreak, NetBacked, Claims,
       BacksYes, BacksNo, YesSide, NoSide, YesWon, NoWon
  <2>2. MovesOn(n)
    <3>1. CASE CheckBreaks(n) \/ SaveFails(n)
      BY <3>1, BreakMovesOn DEF CheckBreaks, SaveFails, EndsCheck, EndsSave, TypeOK
    <3>2. CASE PollingExpires(n)
      BY <3>2 DEF PollingExpires, Quits, TypeOK, UndecidedYet, JobsBacked, MovesOn
    <3>3. QED
      BY <1>7, <3>1, <3>2
  <2>3. QED
    BY <2>1, <2>2, QuietStepBacked
<1>8. ASSUME NEW n \in Node, CheckFindsPosition(n)
      PROVE  Backed'
  <2>1. /\ Send({Position(n, to, TRUE) : to \in Node \ {n}})
        /\ proc[n] = "CHECKING" /\ UNCHANGED <<rec, ballot, gaveUp>>
    BY <1>8 DEF CheckFindsPosition, EmergencyBreak
  <2>2. NetBacked'
    BY <2>1, PositionBacked, BroadcastBacked DEF Position
  <2>3. MovesOn(n)
    BY <1>8, BreakMovesOn DEF CheckFindsPosition, EndsCheck, TypeOK
  <2>4. QED
    BY <2>2, <2>3, QuietStepBacked
<1>9. ASSUME NEW n \in Node, NEW to \in Node, Poll(n, to)
      PROVE  Backed'
  <2>1. Send({Position(n, to, TRUE)}) /\ proc[n] = "POLLING" /\ UNCHANGED history
    BY <1>9 DEF Poll
  <2>2. NetBacked'
    BY <2>1, PositionBacked, BroadcastBacked DEF Position, history
  <2>3. QED
    BY <1>9, <2>2, StutterBacked DEF Poll
<1>10. ASSUME NEW n \in Node, NEW to \in Node, SendConsensus(n, to)
       PROVE  Backed'
  <2>1. proc[n] = "SENDING_CONSENSUS" /\ Claims(n, SideOf(rec[n]))
    BY <1>10, PositionBacked DEF SendConsensus
  <2>2. CASE Send({Position(n, to, TRUE)}) /\ UNCHANGED <<processor, jobs>>
    <3>1. NetBacked'
      BY <1>10, <2>1, <2>2, BroadcastBacked DEF SendConsensus, Position, history
    <3>2. QED
      BY <1>10, <2>2, <3>1, StutterBacked DEF SendConsensus
  <2>3. CASE Vote(n, proc[n], n, SideOf(rec[n])) /\ UNCHANGED net
    <3>1. VoteEffect(n, proc[n])
      BY <2>1, <2>3, SideOfType, VoteHasEffect DEF TypeOK
    <3>2. NetBacked'
      BY <1>10, <2>3 DEF SendConsensus, NetBacked, Claims, BacksYes, BacksNo, YesSide,
         NoSide, YesWon, NoWon, history
    <3>3. QED
      BY <1>10, <2>1, <3>1, <3>2, VoteStepBacked DEF SendConsensus
  <2>4. QED
    BY <1>10, <2>2, <2>3 DEF SendConsensus
<1>11. ASSUME NEW n \in Node, ConsensusReceivedExpires(n)
       PROVE  Backed'
  <2>1. NetBacked'
    BY <1>11 DEF ConsensusReceivedExpires, NetBacked, Claims, BacksYes, BacksNo,
       YesSide, NoSide, YesWon, NoWon, history
  <2>2. MovesOn(n)
    BY <1>11 DEF ConsensusReceivedExpires, Remove, TypeOK, MovesOn, history
  <2>3. QED
    BY <2>1, <2>2, QuietStepBacked
<1>12. ASSUME NEW n \in Node, CommitBreaks(n)
       PROVE  Backed'
  <2>1. NetBacked'
    BY <1>12 DEF CommitBreaks, EmergencyBreak, NetBacked, Claims,
       BacksYes, BacksNo, YesSide, NoSide, YesWon, NoWon
  <2>2. MovesOn(n)
    BY <1>12, BreakMovesOn DEF CommitBreaks
  <2>3. QED
    BY <2>1, <2>2, QuietStepBacked
<1>13. ASSUME NEW n \in Node, Commit(n)
       PROVE  Backed'
  <2>1. SidesGrow
    BY <1>0, <1>13, SidesNeverShrink DEF Commit
  <2>2. YesWon
    BY <1>13 DEF Commit, StartsJob, JobsBacked
  <2>3. QED
    BY <1>13, <2>1, <2>2, JobStepBacked DEF Commit, TakesSide, TypeOK
<1>14. ASSUME NEW n \in Node, CommitFails(n) \/ RollbackFails(n)
       PROVE  Backed'
  <2>1. SidesGrow
    BY <1>0, <1>14, SidesNeverShrink DEF CommitFails, RollbackFails, history
  <2>2. rec[n] \in ItemState /\ rec' = [rec EXCEPT ![n] = rec[n]]
    BY <1>14 DEF CommitFails, RollbackFails, TypeOK
  <2>3. \E j \in Job : StartsJob(n, j) /\ EndsJob(n)
    BY <1>14 DEF CommitFails, RollbackFails
  <2>4. QED
    BY <1>14, <2>1, <2>2, <2>3, JobStepBacked DEF CommitFails, RollbackFails, history
<1>15. ASSUME NEW n \in Node, CommitTimesOut(n) \/ Rollback(n)
       PROVE  Backed'
  <2>1. SidesGrow
    BY <1>0, <1>15, SidesNeverShrink DEF CommitTimesOut, Rollback
  <2>2. n \in gaveUp'
    BY <1>15 DEF CommitTimesOut, Rollback, GivesUp
  <2>3. QED
    BY <1>15, <2>1, <2>2, JobStepBacked DEF CommitTimesOut, Rollback, GivesUp, Quits, TypeOK
<1>16. ASSUME NEW n \in Node, Decline(n)
       PROVE  Backed'
  <2>1. SidesGrow
    BY <1>0, <1>16, SidesNeverShrink DEF Decline
  <2>2. NoWon
    BY <1>16 DEF Decline, StartsJob, JobsBacked
  <2>3. QED
    BY <1>16, <2>1, <2>2, JobStepBacked DEF Decline, TakesSide, TypeOK
<1>17. CASE UNCHANGED vars
  <2>1. NetBacked'
    BY <1>17 DEF NetBacked, Claims, BacksYes, BacksNo, YesSide, NoSide, YesWon,
       NoWon, history
  <2>2. QED
    BY <1>17, <2>1, StutterBacked
<1>18. ASSUME NEW n \in Node, NEW m \in net, AnswerLate(n, m)
       PROVE  Backed'
  <2>1. NetBacked'
    <3>1. CASE /\ rec[n] \in IsPending \ {"PENDING"}
               /\ Send({Position(n, m.from, TRUE)})
      <4>1. Claims(n, SideOf(rec[n]))
        BY <3>1, PositionBacked
      <4>2. QED
        BY <1>18, <3>1, <4>1, BroadcastBacked DEF AnswerLate, Position, history
    <3>2. CASE /\ n \in gaveUp
               /\ Send({[Position(n, m.from, FALSE) EXCEPT !.side = "no"]})
      <4>1. Claims(n, "no")
        BY <3>2 DEF Claims, BacksNo, NoSide
      <4>2. \A a \in net' : Claims(a.from, a.side)
        BY <3>2, <4>1 DEF Send, Position, NetBacked
      <4>3. QED
        BY <1>18, <4>2 DEF AnswerLate, NetBacked, Claims, BacksYes, BacksNo, YesSide,
           NoSide, YesWon, NoWon, history
    <3>3. QED
      BY <1>18, <3>1, <3>2 DEF AnswerLate
  <2>2. QED
    BY <1>18, <2>1, StutterBacked DEF AnswerLate
<1>19. QED
  BY <1>1, <1>2, <1>3, <1>4, <1>5, <1>6, <1>7, <1>8, <1>9, <1>10, <1>11, <1>12,
     <1>13, <1>14, <1>15, <1>16, <1>17, <1>18 DEF Next, Submit, Notified, Discover, Check, Conclude

-----------------------------------------------------------------------------
(***************************************************************************)
(* The theorems.                                                           *)
(***************************************************************************)

\* The votes, records and notifications of an election are always backed.
THEOREM ClaimsStayBacked == Spec => []IInv
<1>1. Init => IInv
  BY DEF Init, IInv, TypeOK, Backed, RecordsBacked, RecordBacked, NetBacked,
     VotesBacked, JobsBacked, VerdictsAreBacked, UndecidedYet, RollbacksMarked
<1>2. IInv /\ [Next]_vars => IInv'
  BY TypeStep, BackedStep DEF IInv
<1>3. QED
  BY <1>1, <1>2, PTL DEF Spec

\* No node records a verdict that fewer nodes than its threshold stand behind
\* (vote, approveAndCommit, rollback).
THEOREM VerdictsHaveBacking == Spec => []VerdictsAreBacked
<1>1. IInv => VerdictsAreBacked
  BY DEF IInv, Backed
<1>2. QED
  BY <1>1, ClaimsStayBacked, PTL

\* A node is on both sides of an item only if it gave up, so both thresholds
\* can be met only when at least Spare nodes did.
LEMMA BothWonTakesSpare ==
  ASSUME TypeOK, YesWon, NoWon
  PROVE  Cardinality(gaveUp) >= Spare
<1>1. YesSide \cap NoSide \subseteq gaveUp
  BY DEF YesSide, NoSide
<1>2. /\ YesSide \cup NoSide \in SUBSET Node /\ gaveUp \in SUBSET Node
      /\ IsFiniteSet(gaveUp)
  BY SidesFinite, NodeAssumption, FS_Subset DEF TypeOK
<1>3. /\ Cardinality(YesSide \cap NoSide) <= Cardinality(gaveUp)
      /\ Cardinality(YesSide \cap NoSide) \in Nat /\ Cardinality(gaveUp) \in Nat
  BY <1>1, <1>2, FS_Subset, FS_CardinalityType
<1>4. /\ Cardinality(YesSide \cup NoSide) <= N
      /\ Cardinality(YesSide \cup NoSide) \in Nat
  BY <1>2, NodeAssumption, FS_Subset, FS_CardinalityType DEF N
<1>5. Cardinality(YesSide \cup NoSide) =
        Cardinality(YesSide) + Cardinality(NoSide) - Cardinality(YesSide \cap NoSide)
  BY SidesFinite, FS_Union
<1>6. QED
  BY <1>3, <1>4, <1>5, SidesFinite, Thresholds DEF YesWon, NoWon, Spare

\* In a network of any size the nodes never record opposite verdicts on an
\* item, while fewer than Spare nodes give up (updateConsensus, vote).
THEOREM NetworkAgrees == Spec => []Agreement
<1>1. IInv => Agreement
  <2> SUFFICES ASSUME IInv, Cardinality(gaveUp) < Spare,
                      NEW a \in Node, NEW b \in Node,
                      rec[a] = "APPROVED", rec[b] = "DECLINED"
               PROVE  FALSE
    BY DEF Agreement
  <2>1. YesWon /\ NoWon
    BY DEF IInv, Backed, VerdictsAreBacked
  <2>2. Cardinality(gaveUp) \in Nat /\ Spare \in Int
    BY NodeAssumption, FS_Subset, FS_CardinalityType, Thresholds DEF IInv, TypeOK, Spare
  <2>3. QED
    BY <2>1, <2>2, BothWonTakesSpare DEF IInv
<1>2. QED
  BY <1>1, ClaimsStayBacked, PTL

\* Only a check that ends, a job and a new processor touch the record.
LEMMA RecordSteps ==
  ASSUME [Next]_vars
  PROVE  \/ \E n \in Node, passed \in BOOLEAN : TakePosition(n, passed)
         \/ \E n \in Node, hasItem \in BOOLEAN : CreateProcessor(n, hasItem)
         \/ \E n \in Node : Conclude(n)
         \/ UNCHANGED <<rec, ballot>>
<1> USE DEF history
<1>1. ASSUME NEW n \in Node, NEW m \in net, Notified(n, m)
      PROVE  (\E hasItem \in BOOLEAN : CreateProcessor(n, hasItem)) \/ UNCHANGED <<rec, ballot>>
  BY <1>1 DEF Notified, Discover, Answer, AnswerLate, Receive
<1>2. ASSUME NEW n \in Node, Check(n)
      PROVE  (\E passed \in BOOLEAN : TakePosition(n, passed)) \/ UNCHANGED <<rec, ballot>>
  BY <1>2 DEF Check, PublishPosition, CheckBreaks, SaveFails, CheckFindsPosition,
     EmergencyBreak
<1>3. ASSUME NEW n \in Node, NEW to \in Node, Poll(n, to) \/ SendConsensus(n, to)
      PROVE  UNCHANGED <<rec, ballot>>
  BY <1>3 DEF Poll, SendConsensus
<1>4. ASSUME NEW n \in Node, Download(n) \/ PollingExpires(n) \/ ConsensusReceivedExpires(n)
      PROVE  UNCHANGED <<rec, ballot>>
  BY <1>4 DEF Download, PollingExpires, ConsensusReceivedExpires
<1>5. CASE UNCHANGED vars
  BY <1>5 DEF vars
<1>6. QED
  BY <1>1, <1>2, <1>3, <1>4, <1>5 DEF Next, Submit

\* No handler turns a verdict into another, and only one thing takes it back: the
\* rollback of an emergencyBreak that came between the consensus and the job that
\* recorded it (emergencyBreak, rollbackChanges).
THEOREM VerdictsStay == Spec => VerdictsAreFinal
<1> DEFINE Stays(n) == \/ rec'[n] = rec[n]
                       \/ rec'[n] = "UNDEFINED" /\ quit[n] = "due"
<1>1. IInv /\ [Next]_vars =>
        [\A n \in Node : rec[n] \in IsConsensusFound => Stays(n)]_vars
  <2> SUFFICES ASSUME IInv, Next, NEW n \in Node, rec[n] \in IsConsensusFound
               PROVE  Stays(n)
    BY DEF vars
  <2> USE DEF IInv, TypeOK
  <2>1. /\ jobs[n] \cap RecordsVerdict = {}
        /\ "rollback" \in jobs[n] => quit[n] = "due"
    BY DEF Backed, UndecidedYet, RollbacksMarked
  <2>2. ASSUME NEW k \in Node, Conclude(k)
        PROVE  Stays(n)
    <3>1. CASE Commit(k) \/ Decline(k)
      BY <2>1, <3>1 DEF Commit, Decline, StartsJob
    <3>2. CASE CommitTimesOut(k)
      BY <2>1, <3>2 DEF CommitTimesOut, StartsJob
    <3>3. CASE Rollback(k)
      BY <2>1, <3>3 DEF Rollback, StartsJob
    <3>4. CASE CommitFails(k) \/ CommitBreaks(k) \/ RollbackFails(k)
      BY <3>4 DEF CommitFails, CommitBreaks, RollbackFails, EmergencyBreak
    <3>5. QED
      BY <2>2, <3>1, <3>2, <3>3, <3>4 DEF Conclude
  <2>3. ASSUME NEW k \in Node, NEW hasItem \in BOOLEAN, CreateProcessor(k, hasItem)
        PROVE  Stays(n)
    BY <2>3 DEF CreateProcessor
  <2>4. ASSUME NEW k \in Node, NEW passed \in BOOLEAN, TakePosition(k, passed)
        PROVE  Stays(n)
    BY <2>4 DEF TakePosition
  <2>5. QED
    BY <2>2, <2>3, <2>4, RecordSteps
<1>2. QED
  BY <1>1, ClaimsStayBacked, PTL DEF Spec, VerdictsAreFinal

-----------------------------------------------------------------------------
(***************************************************************************)
(* The election implements the vote of ItemVerdict, if no node gives up.   *)
(***************************************************************************)

\* A node destroys its record only when a timeout or an error made it give up.
NobodyGaveUp == gaveUp = {} /\ \A n \in Node : "rollback" \notin jobs[n]

LEMMA NobodyGivesUp ==
  ASSUME Quitter = {}, IInv, NobodyGaveUp, [Next]_vars
  PROVE  NobodyGaveUp'
<1> USE DEF IInv, TypeOK, NobodyGaveUp, MayQuit, TakesSide, history
<1>1. ASSUME NEW n \in Node, NEW s \in ProcessingState, VoteEffect(n, s),
             UNCHANGED history
      PROVE  NobodyGaveUp'
  BY <1>1 DEF VoteEffect
<1>2. ASSUME NEW n \in Node, NEW m \in net, Receive(n, m)
      PROVE  NobodyGaveUp'
  <2>1. CASE m.side # "pending"
    <3>1. /\ Vote(n, proc[n], m.from, m.side)
          /\ m.from \in Node /\ m.side \in Side /\ Claims(m.from, m.side)
      BY <1>2, <2>1 DEF Receive, Notification, Backed, NetBacked
    <3>2. TypeOK /\ VotesBacked /\ proc[n] \in ProcessingState
      BY DEF Backed
    <3> HIDE DEF IInv, TypeOK, NobodyGaveUp
    <3>3. VoteEffect(n, proc[n])
      BY <2>1, <3>1, <3>2, VoteHasEffect
    <3>4. QED
      BY <1>1, <1>2, <3>2, <3>3 DEF Receive
  <2>2. QED
    BY <1>2, <2>1 DEF Receive
<1>3. ASSUME NEW n \in Node, PublishPosition(n)
      PROVE  NobodyGaveUp'
  <2> DEFINE s == IF proc[n] \in BeforeConsensus THEN "POLLING" ELSE proc[n]
  <2>1. /\ Vote(n, s, n, SideOf(rec[n])) /\ check[n] = "saving" /\ UNCHANGED history
        /\ s \in ProcessingState
        /\ s \in BeforeConsensus \cup {"NONE"} => proc[n] \in BeforeConsensus \cup {"NONE"}
    BY <1>3 DEF PublishPosition, EndsSave
  <2>2. /\ Claims(n, SideOf(rec[n]))
        /\ SideOf(rec[n]) \in Side /\ SideOf(rec[n]) # "pending"
    BY <2>1, PositionBacked DEF Backed, RecordsBacked, RecordBacked, SideOf, IsPositive
  <2> HIDE DEF s
  <2>3. VoteEffect(n, s)
    BY <2>1, <2>2, VoteHasEffect DEF Backed
  <2>4. QED
    BY <1>1, <2>1, <2>3
<1>4. ASSUME NEW n \in Node, NEW to \in Node, SendConsensus(n, to)
      PROVE  NobodyGaveUp'
  <2>1. CASE Vote(n, proc[n], n, SideOf(rec[n]))
    <3>1. VoteEffect(n, proc[n])
      BY <1>4, <2>1, SideOfType, PositionBacked, VoteHasEffect DEF SendConsensus, Backed
    <3>2. QED
      BY <1>1, <1>4, <3>1 DEF SendConsensus
  <2>2. QED
    BY <1>4, <2>1 DEF SendConsensus
<1>5. ASSUME NEW n \in Node, Conclude(n)
      PROVE  NobodyGaveUp'
  <2>1. CASE CommitBreaks(n) \/ CommitTimesOut(n) \/ Rollback(n)
    BY <2>1 DEF CommitBreaks, CommitTimesOut, Rollback, StartsJob
  <2>2. CASE Commit(n) \/ CommitFails(n)
    BY <2>2 DEF Commit, CommitFails, StartsJob
  <2>3. CASE Decline(n) \/ RollbackFails(n)
    BY <2>3 DEF Decline, RollbackFails, StartsJob
  <2>4. QED
    BY <1>5, <2>1, <2>2, <2>3 DEF Conclude
<1>6. ASSUME NEW n \in Node, NEW m \in net, Notified(n, m)
      PROVE  NobodyGaveUp'
  BY <1>2, <1>6 DEF Notified, Discover, CreateProcessor, Answer, AnswerLate
<1>7. ASSUME NEW n \in Node, Check(n)
      PROVE  NobodyGaveUp'
  BY <1>3, <1>7 DEF Check, TakePosition, CheckBreaks, SaveFails, CheckFindsPosition
<1>8. ASSUME NEW n \in Node,
             \/ Submit(n) \/ Download(n) \/ PollingExpires(n)
             \/ ConsensusReceivedExpires(n)
             \/ \E to \in Node : Poll(n, to)
      PROVE  NobodyGaveUp'
  BY <1>8 DEF Submit, CreateProcessor, Download, PollingExpires,
     ConsensusReceivedExpires, Poll
<1>9. CASE UNCHANGED vars
  BY <1>9 DEF vars
<1>10. QED
  BY <1>4, <1>5, <1>6, <1>7, <1>8, <1>9 DEF Next

\* While nobody gives up, a node takes a side by a check that ends (Cast) or
\* by recording a verdict enough nodes support (Record); nothing else shows.
LEMMA VoteStep ==
  ASSUME IInv, NobodyGaveUp, NobodyGaveUp', [Next]_vars
  PROVE  [ItemVote!Next]_(ItemVote!vars)
<1> USE DEF IInv, TypeOK, NobodyGaveUp, ItemVote!vars, Verdict
<1>1. /\ YesSide = {n \in Node : ballot[n] = "yes"}
      /\ NoSide = {n \in Node : ballot[n] = "no"}
  BY DEF YesSide, NoSide
<1>2. ASSUME NEW n \in Node, NEW passed \in BOOLEAN, TakePosition(n, passed)
      PROVE  ItemVote!Next
  <2> DEFINE side == IF passed THEN "yes" ELSE "no"
  <2>1. ballot[n] = "none" /\ ballot' = [ballot EXCEPT ![n] = side]
    BY <1>2 DEF TakePosition, TakesSide, Backed, RecordsBacked, RecordBacked
  <2>2. UNCHANGED Verdict
    BY <1>2 DEF TakePosition
  <2>3. ItemVote!Cast(n, side)
    BY <2>1, <2>2 DEF ItemVote!Cast
  <2>4. QED
    BY <2>3 DEF ItemVote!Next
<1>3. ASSUME NEW n \in Node, NEW v \in {"APPROVED", "DECLINED"},
             jobs[n] \cap RecordsVerdict # {}, rec' = [rec EXCEPT ![n] = v],
             TakesSide(n, ItemVote!SideFor(v)),
             v = "APPROVED" => YesWon, v = "DECLINED" => NoWon
      PROVE  ItemVote!Next
  <2>1. rec[n] \notin IsConsensusFound
    BY <1>3 DEF Backed, UndecidedYet
  <2>2. Verdict' = [Verdict EXCEPT ![n] = v]
    BY <1>3
  <2>3. Cardinality({m \in Node : ballot[m] = ItemVote!SideFor(v)}) >= ItemVote!Needed(v)
    <3> HIDE DEF IInv
    <3>1. CASE v = "APPROVED"
      BY <1>1, <1>3, <3>1 DEF ItemVote!SideFor, ItemVote!Needed, YesWon
    <3>2. CASE v = "DECLINED"
      BY <1>1, <1>3, <3>2 DEF ItemVote!SideFor, ItemVote!Needed, NoWon
    <3>3. QED
      BY <1>3, <3>1, <3>2
  <2>4. Verdict[n] = "none"
    BY <2>1
  <2>5. ballot' = [ballot EXCEPT ![n] = IF ballot[n] = "none" THEN ItemVote!SideFor(v)
                                        ELSE ballot[n]]
    BY <1>3 DEF TakesSide
  <2> HIDE DEF Verdict, IInv
  <2>6. ItemVote!Record(n, v)
    BY <2>2, <2>3, <2>4, <2>5 DEF ItemVote!Record, ItemVote!Cardinality, Cardinality,
       ItemVote!IsFiniteSet, IsFiniteSet
  <2>7. QED
    BY <2>6 DEF ItemVote!Next
<1>4. ASSUME NEW n \in Node, Commit(n)
      PROVE  ItemVote!Next
  <2>1. YesWon
    BY <1>4 DEF Commit, StartsJob, Backed, JobsBacked
  <2>2. QED
    BY <1>3, <1>4, <2>1 DEF Commit, StartsJob, ItemVote!SideFor
<1>5. ASSUME NEW n \in Node, Decline(n)
      PROVE  ItemVote!Next
  <2>1. NoWon
    BY <1>5 DEF Decline, StartsJob, Backed, JobsBacked
  <2>2. QED
    BY <1>3, <1>5, <2>1 DEF Decline, StartsJob, ItemVote!SideFor
<1>6. ASSUME NEW n \in Node, NEW hasItem \in BOOLEAN, CreateProcessor(n, hasItem)
      PROVE  UNCHANGED <<ballot, Verdict>>
  BY <1>6 DEF CreateProcessor, history
<1>7. ASSUME NEW n \in Node, CommitFails(n) \/ RollbackFails(n) \/ CommitBreaks(n)
      PROVE  UNCHANGED <<ballot, Verdict>>
  BY <1>7 DEF CommitFails, RollbackFails, CommitBreaks, EmergencyBreak, history
<1>8. ASSUME NEW n \in Node, CommitTimesOut(n) \/ Rollback(n)
      PROVE  FALSE
  BY <1>8 DEF CommitTimesOut, Rollback, GivesUp
<1>9. CASE \/ \E n \in Node, passed \in BOOLEAN : TakePosition(n, passed)
           \/ \E n \in Node, hasItem \in BOOLEAN : CreateProcessor(n, hasItem)
           \/ \E n \in Node : Conclude(n)
  BY <1>2, <1>4, <1>5, <1>6, <1>7, <1>8, <1>9 DEF Conclude
<1>10. CASE UNCHANGED <<rec, ballot>>
  BY <1>10
<1>11. QED
  <2> HIDE DEF IInv, NobodyGaveUp, ItemVote!vars, Verdict
  <2>1. QED
    BY <1>9, <1>10, RecordSteps

\* An election in which no node may give up is, whatever is lost, repeated or
\* late, the plain vote of ItemVerdict (ItemProcessor as its comment tells it).
THEOREM ElectionIsAVote == Quitter = {} => (Spec => ImplementsItemVerdict)
<1> SUFFICES ASSUME Quitter = {}
             PROVE  Spec => ImplementsItemVerdict
  OBVIOUS
<1>1. Init => NobodyGaveUp /\ ItemVote!Init
  BY DEF Init, NobodyGaveUp, ItemVote!Init, Verdict
<1>2. IInv /\ NobodyGaveUp /\ [Next]_vars => NobodyGaveUp'
  BY NobodyGivesUp
<1>3. IInv /\ NobodyGaveUp /\ NobodyGaveUp' /\ [Next]_vars =>
        [ItemVote!Next]_(ItemVote!vars)
  BY VoteStep
<1>4. QED
  BY <1>1, <1>2, <1>3, ClaimsStayBacked, PTL DEF Spec, ImplementsItemVerdict, ItemVote!Spec

==============================================================================
