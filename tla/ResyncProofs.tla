---------------------------- MODULE ResyncProofs ----------------------------
(***************************************************************************)
(* Proofs about Resync, for a network of any size and any roots and parts: *)
(* what is saved by force is what the network decided, if fewer nodes are  *)
(* astray than a verdict takes, and the locks are settled accordingly.     *)
(***************************************************************************)
EXTENDS Resync, FiniteSetTheorems, TLAPS

\* The nodes astray cannot make up a verdict on their own.
FewAstray == Cardinality(Astray) < Positive

-----------------------------------------------------------------------------
(***************************************************************************)
(* Types                                                                   *)
(***************************************************************************)
LEMMA PositiveIsNumber == Positive \in Nat
<1>1. Cardinality(Node) \in Nat \ {0}
  BY ResyncAssumption, FS_CardinalityType, FS_EmptySet
<1> QED
  BY <1>1 DEF Positive, PositiveConsensus, AtLeastOne

LEMMA ToldIs ==
  ASSUME TypeOK, NEW n \in Node, NEW r \in Root
  PROVE  Told(n, r) \in Answers /\ Told(n, r) \in {ledger[n][r], "UNDEFINED"}
BY DEF Told, Answers

LEMMA ResyncVoteIs ==
  ASSUME TypeOK, NEW r \in Root, NEW n \in Node, NEW s \in Answers, ResyncVote(r, n, s)
  PROVE  /\ votes' \in [Root -> [Node -> Answers \cup {"none"}]]
         /\ resyncing' \in [Root -> ResyncingState]
         /\ \A q \in Root, m \in Node :
              votes'[q][m] = IF q = r /\ m = n THEN s ELSE votes[q][m]
<1> DEFINE v == [votes[r] EXCEPT ![n] = s]
<1>1. v \in [Node -> Answers \cup {"none"}] /\ \A m \in Node : v[m] = IF m = n THEN s ELSE votes[r][m]
  BY DEF TypeOK
<1>2. /\ votes' = [votes EXCEPT ![r] = v]
      /\ resyncing' = [resyncing EXCEPT ![r] =
           IF IsResyncPollingFinished(v) THEN "PENDING_TO_COMMIT" ELSE "WAIT_FOR_VOTES"]
  BY DEF ResyncVote
<1> HIDE DEF v
<1>3. votes' \in [Root -> [Node -> Answers \cup {"none"}]] /\ \A q \in Root : votes'[q] = IF q = r THEN v ELSE votes[q]
  BY <1>1, <1>2 DEF TypeOK
<1>4. resyncing' \in [Root -> ResyncingState]
  BY <1>2 DEF TypeOK, ResyncingState
<1> QED
  BY <1>1, <1>3, <1>4

\* A resync, started or asked for again, counts at most the node's own vote.
LEMMA ResyncsIs ==
  ASSUME TypeOK, NEW r \in Root, Resyncs(r)
  PROVE  /\ votes' \in [Root -> [Node -> Answers \cup {"none"}]]
         /\ resyncing' \in [Root -> ResyncingState]
         /\ answered' \in [Root -> SUBSET Node]
         /\ \A q \in Root, m \in Node :
              votes'[q][m] \in {votes[q][m], IF m = Me THEN Told(Me, q) ELSE votes[q][m]}
<1>1. CASE ResyncVote(r, Me, Told(Me, r)) /\ UNCHANGED answered
  BY <1>1, ResyncVoteIs, ToldIs, ResyncAssumption DEF TypeOK
<1>2. CASE answered' = [answered EXCEPT ![r] = {}] /\ UNCHANGED <<resyncing, votes>>
  BY <1>2 DEF TypeOK
<1>3. CASE UNCHANGED processor
  BY <1>3 DEF TypeOK, processor
<1> QED
  BY <1>1, <1>2, <1>3 DEF Resyncs

LEMMA StopResyncIs ==
  ASSUME TypeOK, NEW r \in Root, NEW c \in Call, StopResync(r, c)
  PROVE  /\ votes' \in [Root -> [Node -> Answers \cup {"none"}]]
         /\ resyncing' \in [Root -> ResyncingState]
         /\ answered' \in [Root -> SUBSET Node]
         /\ calls' \in [Root -> SUBSET Call]
         /\ \A q \in Root, m \in Node : votes'[q][m] \in {votes[q][m], "none"}
<1>1. NoVotes \in [Node -> Answers \cup {"none"}] /\ \A m \in Node : NoVotes[m] = "none"
  BY DEF NoVotes
<1>2. /\ votes' \in [Root -> [Node -> Answers \cup {"none"}]]
      /\ \A q \in Root : votes'[q] = IF q = r THEN NoVotes ELSE votes[q]
  BY <1>1 DEF StopResync, TypeOK
<1>3. resyncing' \in [Root -> ResyncingState] /\ answered' \in [Root -> SUBSET Node]
  BY DEF StopResync, TypeOK, ResyncingState
<1>4. calls' \in [Root -> SUBSET Call]
  BY DEF StopResync, TypeOK
<1> QED
  BY <1>1, <1>2, <1>3, <1>4

\* A part that removeLocks works on: its row is what removeLocks makes of the
\* object kept of it.
LEMMA RemoveLocksIs ==
  ASSUME TypeOK, NEW r \in Root, NEW s, RemoveLocks(r, s)
  PROVE  /\ row' \in [Part -> PartState] /\ kept' \in [Part -> PartState]
         /\ toSanitate' \subseteq toSanitate /\ toSanitate \ toSanitate' \subseteq Part \cup {r}
         /\ \A p \in Part :
              \/ /\ row'[p] = row[p] /\ kept'[p] = kept[p]
                 /\ p \in toSanitate /\ Owner[p] = r => kept[p] \notin {"LOCKED", "LOCKED_FOR_CREATION"}
                 /\ p \in toSanitate => p \in toSanitate' \/ p = r
              \/ /\ p \in toSanitate /\ Owner[p] = r
                 /\ kept[p] \in {"LOCKED", "LOCKED_FOR_CREATION"}
                 /\ row'[p] = Unlocked(p, s) /\ kept'[p] = Unlocked(p, s)
<1> DEFINE mine == {p \in Part \cap toSanitate :
                      Owner[p] = r /\ kept[p] \in {"LOCKED", "LOCKED_FOR_CREATION"}}
<1>1. /\ row' = [p \in Part |-> IF p \in mine THEN Unlocked(p, s) ELSE row[p]]
      /\ kept' = [p \in Part |-> IF p \in mine THEN Unlocked(p, s) ELSE kept[p]]
      /\ toSanitate' = toSanitate \ (mine \cup {r})
  BY DEF RemoveLocks
<1>2. \A p \in Part : Unlocked(p, s) \in PartState
  BY DEF Unlocked, PartState, Locked
<1>3. row' \in [Part -> PartState] /\ kept' \in [Part -> PartState]
  BY <1>1, <1>2 DEF TypeOK
<1>4. toSanitate' \subseteq toSanitate /\ toSanitate \ toSanitate' \subseteq Part \cup {r}
  BY <1>1
<1> QED
  BY <1>1, <1>3, <1>4

LEMMA MyRecordTypes ==
  ASSUME TypeOK, NEW r \in Root, NEW s \in RecordState
  PROVE  [ledger EXCEPT ![Me][r] = s] \in [Node -> [Root -> RecordState]]
BY ResyncAssumption DEF TypeOK

LEMMA InitTypes == ASSUME Init PROVE TypeOK
<1>1. ledger \in [Node -> [Root -> RecordState]]
  <2>1. PICK wrong \in [astray -> [Root -> Answers]] :
          ledger = [n \in Node |-> [r \in Root |-> CASE n = Me -> "PENDING"
                                                     [] n \in astray -> wrong[n][r]
                                                     [] OTHER -> "UNDEFINED"]]
    BY DEF Init
  <2>2. \A n \in Node, r \in Root : (CASE n = Me -> "PENDING"
                                       [] n \in astray -> wrong[n][r]
                                       [] OTHER -> "UNDEFINED") \in RecordState
    BY DEF RecordState, Answers
  <2> QED
    BY <2>1, <2>2
<1>2. row \in [Part -> PartState] /\ kept \in [Part -> PartState]
  BY DEF Init, PartState
<1>3. toSanitate \in SUBSET (Root \cup Part)
  BY DEF Init, Unfinished
<1>4. /\ resyncing \in [Root -> ResyncingState]
      /\ votes \in [Root -> [Node -> Answers \cup {"none"}]]
  BY DEF Init, ResyncingState, NoVotes
<1> QED
  BY <1>1, <1>2, <1>3, <1>4 DEF Init, TypeOK

LEMMA ResyncTypes ==
  ASSUME TypeOK, NEW r \in Root,
         RequestResync(r) \/ ResyncAndCommit(r) \/ ResyncEnded(r) \/ ResyncExpires(r)
  PROVE  TypeOK'
<1>1. CASE RequestResync(r)
  <2>1. UNCHANGED <<world, ledger, parts, sanitation, calls, net, stops>>
    BY <1>1 DEF RequestResync
  <2>2. Resyncs(r) /\ disturbed' \in [Root -> Nat]
    BY <1>1 DEF RequestResync, TypeOK
  <2> QED
    BY <2>1, <2>2, ResyncsIs DEF TypeOK, world, parts, sanitation
<1>2. CASE ResyncAndCommit(r)
  <2>1. /\ UNCHANGED <<world, parts, sanitation, votes, answered, calls, net, counters>>
        /\ resyncing' \in [Root -> ResyncingState]
    BY <1>2 DEF ResyncAndCommit, TypeOK, ResyncingState, IsCommitFinished
  <2>2. CommittingState(votes[r]) # "UNDEFINED" => CommittingState(votes[r]) \in Verdict
    BY DEF CommittingState
  <2>3. ASSUME NEW v \in Verdict PROVE Forced(ledger[Me][r], v) \in RecordState
    <3>1. ledger[Me][r] \in RecordState /\ v \in RecordState
      BY ResyncAssumption DEF TypeOK, RecordState, Answers
    <3> QED
      BY <3>1 DEF Forced
  <2>4. \/ UNCHANGED ledger
        \/ \E s \in RecordState : ledger' = [ledger EXCEPT ![Me][r] = s]
    BY <1>2, <2>2, <2>3 DEF ResyncAndCommit
  <2>5. CASE UNCHANGED ledger
    BY <2>1, <2>5 DEF TypeOK, world, parts, sanitation, counters
  <2>6. ASSUME NEW s \in RecordState, ledger' = [ledger EXCEPT ![Me][r] = s]
        PROVE  TypeOK'
    <3>1. ledger' \in [Node -> [Root -> RecordState]]
      BY <2>6, MyRecordTypes
    <3> QED
      BY <2>1, <3>1 DEF TypeOK, world, parts, sanitation, counters
  <2> QED
    BY <2>4, <2>5, <2>6
<1>3. CASE ResyncEnded(r)
  <2>1. /\ UNCHANGED <<world, ledger, parts, sanitation, net, counters>>
        /\ StopResync(r, "failed") \/ StopResync(r, "done")
    BY <1>3 DEF ResyncEnded
  <2> QED
    BY <2>1, StopResyncIs DEF TypeOK, Call, world, parts, sanitation, counters
<1>4. CASE ResyncExpires(r)
  <2>1. /\ UNCHANGED <<world, ledger, parts, sanitation, net, stops>>
        /\ StopResync(r, "timeout") /\ disturbed' \in [Root -> Nat]
    BY <1>4 DEF ResyncExpires, TypeOK
  <2> QED
    BY <2>1, StopResyncIs DEF TypeOK, Call, world, parts, sanitation
<1> QED
  BY <1>1, <1>2, <1>3, <1>4

LEMMA AnswerTypes ==
  ASSUME TypeOK, NEW r \in Root, NEW n \in Node, AnswerResync(n, r) \/ Spread(n, r)
  PROVE  TypeOK'
<1>1. CASE AnswerResync(n, r)
  <2>1. [from |-> n, root |-> r, state |-> Told(n, r)] \in Answer
    BY ToldIs DEF Answer
  <2> QED
    BY <1>1, <2>1 DEF AnswerResync, TypeOK, world, parts, sanitation, processor, counters
<1>2. CASE Spread(n, r)
  <2>1. PICK s \in {"APPROVED", "DECLINED", "REVOKED"} : ledger' = [ledger EXCEPT ![n][r] = s]
    BY <1>2 DEF Spread
  <2>2. s \in RecordState
    BY DEF RecordState, Answers, Verdict
  <2>3. ledger' \in [Node -> [Root -> RecordState]]
    BY <2>1, <2>2 DEF TypeOK
  <2> QED
    BY <1>2, <2>3 DEF Spread, TypeOK, world, parts, sanitation, processor, counters
<1> QED
  BY <1>1, <1>2

LEMMA ObtainTypes ==
  ASSUME TypeOK, NEW a \in net, ObtainAnswer(a)
  PROVE  TypeOK'
<1>1. a.root \in Root /\ a.from \in Node /\ a.state \in Answers
  BY DEF TypeOK, Answer
<1>2. /\ UNCHANGED <<world, ledger, parts, sanitation, calls, counters>>
      /\ net' \in SUBSET Answer
  BY DEF ObtainAnswer, TypeOK
<1>3. CASE UNCHANGED processor
  BY <1>2, <1>3 DEF TypeOK, world, parts, sanitation, processor, counters
<1>4. CASE /\ answered' = [answered EXCEPT ![a.root] = @ \cup {a.from}]
           /\ ResyncVote(a.root, a.from, a.state)
  <2>1. answered' \in [Root -> SUBSET Node]
    BY <1>1, <1>4 DEF TypeOK
  <2> QED
    BY <1>1, <1>2, <1>4, <2>1, ResyncVoteIs DEF TypeOK, world, parts, sanitation, counters
<1> QED
  BY <1>3, <1>4 DEF ObtainAnswer

LEMMA SanitationTypes ==
  ASSUME TypeOK, NEW r \in Root, Sanitates(r)
  PROVE  TypeOK'
<1>1. CASE SanitateRecord(r)
  <2>1. /\ UNCHANGED <<world, ledger, parts, toSanitate, calls, net, counters>>
        /\ Resyncs(r) /\ sanitating' \in SUBSET Root
    BY <1>1 DEF SanitateRecord, TypeOK
  <2> QED
    BY <2>1, ResyncsIs DEF TypeOK, world, parts, counters
<1>2. CASE ItemSanitationTimeout(r)
  <2>1. /\ UNCHANGED <<ledger, parts, toSanitate, processor>>
        /\ UNCHANGED <<world, net, sanitating, counters>>
    BY <1>2 DEF ItemSanitationTimeout, Calls
  <2>2. calls' \in [Root -> SUBSET Call]
    <3>1. PICK more \in SUBSET {"retry"} :
            calls' = [calls EXCEPT ![r] = (@ \ {"timeout"}) \cup more]
      BY <1>2 DEF ItemSanitationTimeout
    <3>2. more \subseteq Call
      BY DEF Call
    <3> QED
      BY <3>1, <3>2 DEF TypeOK
  <2> QED
    BY <2>1, <2>2 DEF TypeOK, world, parts, processor, counters
<1>3. CASE RetrySanitation(r)
  <2>1. /\ UNCHANGED <<ledger, parts, toSanitate>> /\ Resyncs(r)
        /\ UNCHANGED <<world, net, sanitating, counters>>
    BY <1>3 DEF RetrySanitation, Calls
  <2>2. calls' \in [Root -> SUBSET Call]
    BY <1>3 DEF RetrySanitation, TypeOK
  <2> QED
    BY <2>1, <2>2, ResyncsIs DEF TypeOK, world, parts, counters
<1>4. CASE ItemSanitationDone(r)
  <2>1. /\ UNCHANGED <<ledger, processor>> /\ UNCHANGED <<world, net, sanitating, counters>>
        /\ calls' \in [Root -> SUBSET Call]
        /\ RemoveLocks(r, ledger[Me][r]) \/ UNCHANGED <<parts, toSanitate>>
    BY <1>4 DEF ItemSanitationDone, Calls, TypeOK
  <2>2. /\ {row', kept'} \subseteq [Part -> PartState]
        /\ toSanitate' \in SUBSET (Root \cup Part)
    BY <2>1, RemoveLocksIs DEF TypeOK, parts
  <2> QED
    BY <2>1, <2>2 DEF TypeOK, world, processor, counters
<1>5. CASE ItemSanitationFailed(r)
  <2>1. /\ UNCHANGED processor /\ UNCHANGED <<world, net, sanitating, counters>>
        /\ calls' \in [Root -> SUBSET Call]
        /\ \/ RemoveLocks(r, "UNDEFINED") /\ ledger' = [ledger EXCEPT ![Me][r] = "UNDEFINED"]
           \/ UNCHANGED <<parts, toSanitate, ledger>>
    BY <1>5 DEF ItemSanitationFailed, Calls, TypeOK
  <2>2. /\ {row', kept'} \subseteq [Part -> PartState]
        /\ toSanitate' \in SUBSET (Root \cup Part)
    BY <2>1, RemoveLocksIs DEF TypeOK, parts
  <2>3. ledger' \in [Node -> [Root -> RecordState]]
    <3>1. "UNDEFINED" \in RecordState
      BY DEF RecordState, Answers
    <3>2. CASE ledger' = [ledger EXCEPT ![Me][r] = "UNDEFINED"]
      BY <3>1, <3>2, MyRecordTypes
    <3>3. CASE UNCHANGED ledger
      BY <3>3 DEF TypeOK
    <3> QED
      BY <2>1, <3>2, <3>3
  <2> QED
    BY <2>1, <2>2, <2>3 DEF TypeOK, world, processor, counters
<1> QED
  BY <1>1, <1>2, <1>3, <1>4, <1>5 DEF Sanitates

LEMMA ElectTypes ==
  ASSUME TypeOK, NEW r \in Root, Elect(r)
  PROVE  TypeOK'
<1>1. UNCHANGED <<world, kept, sanitation, processor, calls, net, counters>>
  BY DEF Elect
<1>2. row' \in [Part -> PartState]
  BY DEF Elect, TypeOK, PartState
<1>3. ledger' \in [Node -> [Root -> RecordState]]
  <2>1. \/ ledger' = [ledger EXCEPT ![Me][r] = "APPROVED"]
        \/ ledger' = [ledger EXCEPT ![Me][r] = "DECLINED"]
    BY DEF Elect
  <2>2. "APPROVED" \in RecordState /\ "DECLINED" \in RecordState
    BY DEF RecordState, Answers, Verdict
  <2> QED
    BY <2>1, <2>2, MyRecordTypes
<1> QED
  BY <1>1, <1>2, <1>3 DEF TypeOK, world, sanitation, processor, counters

LEMMA StopTypes == ASSUME TypeOK, Restart \/ OnlyLockedLeft PROVE TypeOK'
<1>1. CASE Restart
  <2>1. /\ resyncing' \in [Root -> ResyncingState]
        /\ votes' \in [Root -> [Node -> Answers \cup {"none"}]]
    BY <1>1 DEF Restart, NoVotes, ResyncingState
  <2>2. toSanitate' \in SUBSET (Root \cup Part)
    BY <1>1 DEF Restart, Unfinished
  <2>3. stops' \in Nat
    BY <1>1 DEF Restart, TypeOK
  <2> QED
    BY <1>1, <2>1, <2>2, <2>3 DEF Restart, TypeOK, world
<1>2. CASE OnlyLockedLeft
  BY <1>2 DEF OnlyLockedLeft, TypeOK, world, parts, processor, counters
<1> QED
  BY <1>1, <1>2

LEMMA StepTypes == ASSUME TypeOK, [Next]_vars PROVE TypeOK'
<1>1. CASE UNCHANGED vars
  BY <1>1 DEF vars, world, parts, sanitation, processor, counters, TypeOK
<1>2. ASSUME NEW r \in Root, RequestResync(r) \/ Concludes(r) \/ ResyncExpires(r)
      PROVE  TypeOK'
  BY <1>2, ResyncTypes DEF Concludes
<1>3. ASSUME NEW r \in Root, NEW n \in Node, AnswerResync(n, r) \/ Spread(n, r)
      PROVE  TypeOK'
  BY <1>3, AnswerTypes
<1> QED
  BY <1>1, <1>2, <1>3, SanitationTypes, ElectTypes, ObtainTypes, StopTypes DEF Next

\* The types hold: verdicts, rows, the objects kept of them, and the resyncs'
\* votes, for any network.
THEOREM TypeCorrect == Spec => []TypeOK
<1>1. Init => TypeOK
  BY InitTypes
<1>2. TypeOK /\ [Next]_vars => TypeOK'
  BY StepTypes
<1> QED
  BY <1>1, <1>2, PTL DEF Spec

-----------------------------------------------------------------------------
(***************************************************************************)
(* What nodes with a right ledger say                                      *)
(***************************************************************************)
\* A state that the network's verdict on r allows
Right(r, s) ==
  /\ s = "APPROVED" => outcome[r] \in {"APPROVED", "REVOKED"}
  /\ s \in {"DECLINED", "REVOKED"} => outcome[r] = s

\* What such nodes have, what they have answered, and what was counted for them is
\* right; a node that is not astray may be late, never wrong.  This node is one of them.
HonestLedgers == \A n \in Node \ astray, r \in Root : Right(r, ledger[n][r])
HonestVotes == \A n \in Node \ astray, r \in Root : Right(r, votes[r][n])
HonestAnswers == \A a \in net : a.from \notin astray => Right(a.root, a.state)

Honest == HonestLedgers /\ HonestVotes /\ HonestAnswers

LEMMA InitHonest == ASSUME Init PROVE Honest
<1>1. HonestLedgers
  <2> SUFFICES ASSUME NEW n \in Node \ astray, NEW r \in Root PROVE Right(r, ledger[n][r])
    BY DEF HonestLedgers
  <2>1. ledger[n][r] \in {"PENDING", "UNDEFINED"}
    BY DEF Init
  <2> QED
    BY <2>1 DEF Right
<1>2. HonestVotes
  BY DEF Init, HonestVotes, NoVotes, Right
<1>3. HonestAnswers
  BY DEF Init, HonestAnswers
<1> QED
  BY <1>1, <1>2, <1>3 DEF Honest

\* Enough votes for a state have one of a node that is right among them.
LEMMA CommittedIsRight ==
  ASSUME FewAstray, TypeOK, HonestVotes, NEW r \in Root,
         CommittingState(votes[r]) # "UNDEFINED"
  PROVE  Right(r, CommittingState(votes[r]))
<1> DEFINE v == CommittingState(votes[r])
<1>1. Cardinality(Voters(votes[r], v)) >= Positive
  BY DEF CommittingState
<1> HIDE DEF v
<1>2. IsFiniteSet(Astray) /\ IsFiniteSet(astray) /\ Cardinality(astray) <= Cardinality(Astray)
  <2>1. astray \subseteq Astray /\ Astray \subseteq Node /\ IsFiniteSet(Node)
    BY ResyncAssumption DEF TypeOK
  <2>2. IsFiniteSet(Astray)
    BY <2>1, FS_Subset
  <2> QED
    BY <2>1, <2>2, FS_Subset
<1>3. PICK n \in Voters(votes[r], v) : n \notin astray
  <2> SUFFICES ASSUME Voters(votes[r], v) \subseteq astray PROVE FALSE
    OBVIOUS
  <2>1. Cardinality(Voters(votes[r], v)) <= Cardinality(astray)
    BY <1>2, FS_Subset
  <2>2. /\ Cardinality(Voters(votes[r], v)) \in Nat
        /\ Cardinality(astray) \in Nat /\ Cardinality(Astray) \in Nat
    BY <1>2, FS_Subset, FS_CardinalityType
  <2> QED
    BY <1>1, <1>2, <2>1, <2>2, PositiveIsNumber DEF FewAstray
<1>4. n \in Node \ astray /\ votes[r][n] = v
  BY <1>3 DEF Voters
<1>5. Right(r, v)
  BY <1>4 DEF HonestVotes
<1> QED
  BY <1>5 DEF v

LEMMA NoVerdictIsRight == \A r : Right(r, "UNDEFINED") /\ Right(r, "none") /\ Right(r, "PENDING")
BY DEF Right

LEMMA WorldStays == ASSUME [Next]_vars PROVE UNCHANGED world
<1>1. ASSUME NEW r \in Root, RequestResync(r) \/ Concludes(r) \/ ResyncExpires(r) \/ Elect(r)
      PROVE  UNCHANGED world
  BY <1>1 DEF RequestResync, Concludes, ResyncAndCommit, ResyncEnded, ResyncExpires, Elect
<1>2. ASSUME NEW r \in Root, Sanitates(r) PROVE UNCHANGED world
  BY <1>2 DEF Sanitates, SanitateRecord, ItemSanitationTimeout, RetrySanitation,
              ItemSanitationDone, ItemSanitationFailed, Calls
<1>3. ASSUME NEW r \in Root, NEW n \in Node, AnswerResync(n, r) \/ Spread(n, r)
      PROVE  UNCHANGED world
  BY <1>3 DEF AnswerResync, Spread
<1>4. ASSUME NEW a \in net, ObtainAnswer(a) PROVE UNCHANGED world
  BY <1>4 DEF ObtainAnswer
<1>5. CASE Restart \/ OnlyLockedLeft \/ UNCHANGED vars
  BY <1>5 DEF Restart, OnlyLockedLeft, vars
<1> QED
  BY <1>1, <1>2, <1>3, <1>4, <1>5 DEF Next

\* A record is changed by a resync, to what enough nodes said; by an election or the
\* network, to the outcome; or it is destroyed.
LEMMA LedgerMoves ==
  ASSUME TypeOK, [Next]_vars, NEW n \in Node \ astray, NEW q \in Root
  PROVE  \/ ledger'[n][q] \in {ledger[n][q], "UNDEFINED"}
         \/ ledger'[n][q] = CommittingState(votes[q]) /\ CommittingState(votes[q]) # "UNDEFINED"
         \/ Right(q, ledger'[n][q])
<1> USE ResyncAssumption
<1>1. CASE UNCHANGED ledger
  BY <1>1
<1>2. ASSUME NEW r \in Root, ResyncAndCommit(r), ledger' # ledger
      PROVE  /\ ledger'[n][q] \in {ledger[n][q], CommittingState(votes[q])}
             /\ ledger'[n][q] # ledger[n][q] => CommittingState(votes[q]) # "UNDEFINED"
  <2>1. CommittingState(votes[r]) # "UNDEFINED"
    BY <1>2 DEF ResyncAndCommit
  <2>2. PICK s : /\ s \in {ledger[Me][r], CommittingState(votes[r])}
                 /\ ledger' = [ledger EXCEPT ![Me][r] = s]
    BY <1>2 DEF ResyncAndCommit, Forced
  <2> QED
    BY <2>1, <2>2 DEF TypeOK
<1>3. ASSUME NEW r \in Root, ItemSanitationFailed(r)
      PROVE  ledger'[n][q] \in {ledger[n][q], "UNDEFINED"}
  <2>1. CASE UNCHANGED ledger
    BY <2>1
  <2>2. CASE ledger' = [ledger EXCEPT ![Me][r] = "UNDEFINED"]
    BY <2>2 DEF TypeOK
  <2> QED
    BY <1>3, <2>1, <2>2 DEF ItemSanitationFailed
<1>4. ASSUME NEW r \in Root, Elect(r)
      PROVE  ledger'[n][q] = ledger[n][q] \/ Right(q, ledger'[n][q])
  <2>1. PICK s \in {"APPROVED", "DECLINED"} :
          ledger' = [ledger EXCEPT ![Me][r] = s] /\ Right(r, s)
    BY <1>4 DEF Elect, Right
  <2>2. ledger'[n][q] = IF n = Me /\ q = r THEN s ELSE ledger[n][q]
    BY <2>1 DEF TypeOK
  <2> QED
    BY <2>1, <2>2
<1>5. ASSUME NEW r \in Root, NEW m \in Node, Spread(m, r)
      PROVE  ledger'[n][q] = ledger[n][q] \/ Right(q, ledger'[n][q])
  <2>1. outcome[r] \in Answers
    BY DEF TypeOK
  <2>2. PICK s \in Verdict :
          ledger' = [ledger EXCEPT ![m][r] = s] /\ Right(r, s)
    BY <1>5, <2>1 DEF Spread, Right, Answers, Verdict
  <2>3. ledger'[n][q] = IF n = m /\ q = r THEN s ELSE ledger[n][q]
    BY <2>2 DEF TypeOK
  <2> QED
    BY <2>2, <2>3
<1>6. ASSUME NEW r \in Root, RequestResync(r) \/ ResyncEnded(r) \/ ResyncExpires(r)
      PROVE  UNCHANGED ledger
  BY <1>6 DEF RequestResync, ResyncEnded, ResyncExpires
<1>7. ASSUME NEW r \in Root, SanitateRecord(r) \/ ItemSanitationTimeout(r)
                             \/ RetrySanitation(r) \/ ItemSanitationDone(r)
      PROVE  UNCHANGED ledger
  BY <1>7 DEF SanitateRecord, ItemSanitationTimeout, RetrySanitation, ItemSanitationDone
<1>8. ASSUME NEW r \in Root, NEW m \in Node, AnswerResync(m, r) PROVE UNCHANGED ledger
  BY <1>8 DEF AnswerResync
<1>9. ASSUME NEW a \in net, ObtainAnswer(a) PROVE UNCHANGED ledger
  BY <1>9 DEF ObtainAnswer
<1>10. CASE Restart \/ OnlyLockedLeft \/ UNCHANGED vars
  BY <1>10 DEF Restart, OnlyLockedLeft, vars
<1> QED
  BY <1>1, <1>2, <1>3, <1>4, <1>5, <1>6, <1>7, <1>8, <1>9, <1>10 DEF Next, Concludes, Sanitates

\* Whatever is counted is an answer, or this node's own.
LEMMA VoteMoves ==
  ASSUME TypeOK, [Next]_vars, NEW n \in Node, NEW q \in Root
  PROVE  \/ votes'[q][n] \in {votes[q][n], "none"}
         \/ n = Me /\ votes'[q][n] = Told(Me, q)
         \/ \E a \in net : a.from = n /\ a.root = q /\ a.state = votes'[q][n]
<1> USE ResyncAssumption
<1>1. CASE UNCHANGED votes
  BY <1>1
<1>2. ASSUME NEW r \in Root, Resyncs(r)
      PROVE  votes'[q][n] \in {votes[q][n], IF n = Me THEN Told(Me, q) ELSE votes[q][n]}
  BY <1>2, ResyncsIs
<1>3. ASSUME NEW r \in Root, ResyncEnded(r) \/ ResyncExpires(r)
      PROVE  votes'[q][n] \in {votes[q][n], "none"}
  <2>1. PICK c \in Call : StopResync(r, c)
    BY <1>3 DEF ResyncEnded, ResyncExpires, Call
  <2> QED
    BY <2>1, StopResyncIs
<1>4. ASSUME NEW a \in net, ObtainAnswer(a), votes' # votes
      PROVE  votes'[q][n] = votes[q][n] \/ (a.from = n /\ a.root = q /\ a.state = votes'[q][n])
  <2>1. ResyncVote(a.root, a.from, a.state)
    BY <1>4 DEF ObtainAnswer, processor
  <2>2. a.root \in Root /\ a.from \in Node /\ a.state \in Answers
    BY DEF TypeOK, Answer
  <2> QED
    BY <2>1, <2>2, ResyncVoteIs
<1>5. CASE Restart
  BY <1>5 DEF Restart, NoVotes
<1>6. ASSUME NEW r \in Root, RequestResync(r) \/ SanitateRecord(r) \/ RetrySanitation(r)
      PROVE  Resyncs(r)
  BY <1>6 DEF RequestResync, SanitateRecord, RetrySanitation
<1>7. ASSUME NEW r \in Root, ResyncAndCommit(r) \/ ItemSanitationTimeout(r) \/ ItemSanitationDone(r)
                             \/ ItemSanitationFailed(r) \/ Elect(r)
      PROVE  UNCHANGED votes
  BY <1>7 DEF ResyncAndCommit, ItemSanitationTimeout, ItemSanitationDone, ItemSanitationFailed,
              Elect, processor
<1>8. ASSUME NEW r \in Root, NEW m \in Node, AnswerResync(m, r) \/ Spread(m, r)
      PROVE  UNCHANGED votes
  BY <1>8 DEF AnswerResync, Spread, processor
<1>9. CASE OnlyLockedLeft \/ UNCHANGED vars
  BY <1>9 DEF OnlyLockedLeft, vars, processor
<1> QED
  BY <1>1, <1>2, <1>3, <1>4, <1>5, <1>6, <1>7, <1>8, <1>9 DEF Next, Concludes, Sanitates

LEMMA AnswerMoves ==
  ASSUME [Next]_vars, NEW a \in net'
  PROVE  a \in net \/ (a.from \in Node /\ a.root \in Root /\ a.state = Told(a.from, a.root))
<1>1. CASE UNCHANGED net
  BY <1>1
<1>2. ASSUME NEW r \in Root, NEW n \in Node, AnswerResync(n, r)
      PROVE  a \in net \/ (a.from = n /\ a.root = r /\ a.state = Told(n, r))
  BY <1>2 DEF AnswerResync
<1>3. ASSUME NEW b \in net, ObtainAnswer(b) PROVE a \in net
  BY <1>3 DEF ObtainAnswer
<1>4. ASSUME NEW r \in Root, RequestResync(r) \/ Concludes(r) \/ ResyncExpires(r) \/ Elect(r)
      PROVE  UNCHANGED net
  BY <1>4 DEF RequestResync, Concludes, ResyncAndCommit, ResyncEnded, ResyncExpires, Elect
<1>5. ASSUME NEW r \in Root, Sanitates(r) PROVE UNCHANGED net
  BY <1>5 DEF Sanitates, SanitateRecord, ItemSanitationTimeout, RetrySanitation,
              ItemSanitationDone, ItemSanitationFailed, Calls
<1>6. ASSUME NEW r \in Root, NEW n \in Node, Spread(n, r) PROVE UNCHANGED net
  BY <1>6 DEF Spread
<1>7. CASE Restart \/ OnlyLockedLeft \/ UNCHANGED vars
  BY <1>7 DEF Restart, OnlyLockedLeft, vars
<1> QED
  BY <1>1, <1>2, <1>3, <1>4, <1>5, <1>6, <1>7 DEF Next

LEMMA StepHonest == ASSUME FewAstray, TypeOK, Honest, [Next]_vars PROVE Honest'
<1>1. UNCHANGED world
  BY WorldStays
<1>2. \A n \in Node \ astray, r \in Root : Right(r, Told(n, r))
  BY NoVerdictIsRight DEF Told, Honest, HonestLedgers
<1>3. HonestLedgers'
  <2> SUFFICES ASSUME NEW n \in Node \ astray, NEW r \in Root PROVE Right(r, ledger'[n][r])
    BY <1>1 DEF HonestLedgers, world, Right
  <2> QED
    BY LedgerMoves, CommittedIsRight, NoVerdictIsRight DEF Honest, HonestLedgers
<1>4. HonestVotes'
  <2> SUFFICES ASSUME NEW n \in Node \ astray, NEW r \in Root PROVE Right(r, votes'[r][n])
    BY <1>1 DEF HonestVotes, world, Right
  <2> QED
    BY <1>2, VoteMoves, NoVerdictIsRight DEF Honest, HonestVotes, HonestAnswers
<1>5. HonestAnswers'
  <2> SUFFICES ASSUME NEW a \in net', a.from \notin astray PROVE Right(a.root, a.state)
    BY <1>1 DEF HonestAnswers, world, Right
  <2> QED
    BY <1>2, AnswerMoves DEF Honest, HonestAnswers
<1> QED
  BY <1>3, <1>4, <1>5 DEF Honest

LEMMA HonestAlways == ASSUME FewAstray PROVE Spec => [](TypeOK /\ Honest)
<1>1. Init => TypeOK /\ Honest
  BY InitTypes, InitHonest
<1>2. TypeOK /\ Honest /\ [Next]_vars => (TypeOK /\ Honest)'
  BY StepTypes, StepHonest
<1> QED
  BY <1>1, <1>2, PTL DEF Spec

\* resyncAndCommit saves by force only what the network decided, or had decided before the
\* item was revoked, whatever ledgers astray, late answers and restarted resyncs do.
THEOREM ForcedIsNetworks == ASSUME FewAstray PROVE Spec => []SavedIsNetworks
<1>1. TypeOK /\ Honest => SavedIsNetworks
  <2>1. TypeOK => Me \in Node \ astray
    BY ResyncAssumption DEF TypeOK
  <2> QED
    BY <2>1 DEF Honest, HonestLedgers, Right, SavedIsNetworks
<1> QED
  BY <1>1, HonestAlways, PTL

-----------------------------------------------------------------------------
(***************************************************************************)
(* What becomes of the locks                                               *)
(***************************************************************************)
\* removeLocks works on kept objects.  They tell the rows of what the network refused, as
\* an election of this node does not settle those ...
KeptIsRow ==
  \A p \in Part : outcome[Owner[p]] \in {"DECLINED", "UNDEFINED"} => row[p] = kept[p]

\* ... and of all locks that removeLocks has still to settle.
StillToSettle ==
  stops = 0 => \A p \in Part : row[p] \in {"LOCKED", "LOCKED_FOR_CREATION"} =>
    kept[p] = row[p] /\ p \in toSanitate /\ Owner[p] \in toSanitate

\* The steps that concern the locks
LEMMA LockSteps ==
  ASSUME [Next]_vars
  PROVE  \/ UNCHANGED <<parts, toSanitate, stops>>
         \/ \E r \in Root : /\ RemoveLocks(r, ledger[Me][r]) \/ RemoveLocks(r, "UNDEFINED")
                            /\ UNCHANGED stops
         \/ \E r \in Root : Elect(r)
         \/ Restart \/ OnlyLockedLeft
<1>1. ASSUME NEW r \in Root, RequestResync(r) \/ Concludes(r) \/ ResyncExpires(r)
      PROVE  UNCHANGED <<parts, toSanitate, stops>>
  BY <1>1 DEF RequestResync, Concludes, ResyncAndCommit, ResyncEnded, ResyncExpires,
              sanitation, counters
<1>2. ASSUME NEW r \in Root,
             SanitateRecord(r) \/ ItemSanitationTimeout(r) \/ RetrySanitation(r)
      PROVE  UNCHANGED <<parts, toSanitate, stops>>
  BY <1>2 DEF SanitateRecord, ItemSanitationTimeout, RetrySanitation, Calls, counters
<1>3. ASSUME NEW r \in Root, ItemSanitationDone(r)
      PROVE  /\ RemoveLocks(r, ledger[Me][r]) \/ UNCHANGED <<parts, toSanitate>>
             /\ UNCHANGED stops
  BY <1>3 DEF ItemSanitationDone, Calls, counters
<1>4. ASSUME NEW r \in Root, ItemSanitationFailed(r)
      PROVE  /\ RemoveLocks(r, "UNDEFINED") \/ UNCHANGED <<parts, toSanitate>>
             /\ UNCHANGED stops
  BY <1>4 DEF ItemSanitationFailed, Calls, counters
<1>5. ASSUME NEW r \in Root, NEW n \in Node, AnswerResync(n, r) \/ Spread(n, r)
      PROVE  UNCHANGED <<parts, toSanitate, stops>>
  BY <1>5 DEF AnswerResync, Spread, sanitation, counters
<1>6. ASSUME NEW a \in net, ObtainAnswer(a) PROVE UNCHANGED <<parts, toSanitate, stops>>
  BY <1>6 DEF ObtainAnswer, sanitation, counters
<1>7. CASE UNCHANGED vars
  BY <1>7 DEF vars, sanitation, counters
<1> QED
  BY <1>1, <1>2, <1>3, <1>4, <1>5, <1>6, <1>7 DEF Next, Sanitates

LEMMA ElectIs ==
  ASSUME TypeOK, NEW r \in Root, Elect(r), NEW p \in Part
  PROVE  /\ UNCHANGED <<kept, toSanitate, stops>>
         /\ \/ row'[p] = row[p]
            \/ /\ Owner[p] = r /\ outcome[r] \in {"APPROVED", "REVOKED"}
               /\ row'[p] \in {"APPROVED", "REVOKED"}
<1>1. UNCHANGED <<kept, toSanitate, stops>>
  BY DEF Elect, sanitation, counters
<1> QED
  BY <1>1 DEF Elect

LEMMA StepKept == ASSUME TypeOK, KeptIsRow, [Next]_vars PROVE KeptIsRow'
<1>1. UNCHANGED outcome
  BY WorldStays DEF world
<1>2. CASE UNCHANGED parts
  BY <1>1, <1>2 DEF KeptIsRow, parts
<1>3. ASSUME NEW r \in Root, NEW s, RemoveLocks(r, s) PROVE KeptIsRow'
  BY <1>1, <1>3, RemoveLocksIs DEF KeptIsRow
<1>4. ASSUME NEW r \in Root, Elect(r) PROVE KeptIsRow'
  BY <1>1, <1>4, ElectIs DEF KeptIsRow
<1>5. CASE Restart
  BY <1>5 DEF Restart, KeptIsRow
<1>6. CASE OnlyLockedLeft
  BY <1>2, <1>6 DEF OnlyLockedLeft
<1> QED
  BY <1>2, <1>3, <1>4, <1>5, <1>6, LockSteps

LEMMA StepSettles == ASSUME TypeOK, StillToSettle, [Next]_vars PROVE StillToSettle'
<1>1. CASE UNCHANGED <<parts, toSanitate, stops>>
  BY <1>1 DEF StillToSettle, parts
<1>2. ASSUME NEW r \in Root, NEW s, RemoveLocks(r, s), UNCHANGED stops PROVE StillToSettle'
  <2> SUFFICES ASSUME stops = 0, NEW p \in Part, row'[p] \in {"LOCKED", "LOCKED_FOR_CREATION"}
               PROVE  kept'[p] = row'[p] /\ p \in toSanitate' /\ Owner[p] \in toSanitate'
    BY <1>2 DEF StillToSettle
  <2>1. Unlocked(p, s) \notin {"LOCKED", "LOCKED_FOR_CREATION"}
    BY DEF Unlocked
  <2>2. /\ row'[p] = row[p] /\ kept'[p] = kept[p]
        /\ p \in toSanitate /\ Owner[p] = r => kept[p] \notin {"LOCKED", "LOCKED_FOR_CREATION"}
        /\ p \in toSanitate => p \in toSanitate' \/ p = r
    BY <1>2, <2>1, RemoveLocksIs
  <2>3. kept[p] = row[p] /\ p \in toSanitate /\ Owner[p] \in toSanitate
    BY <2>2 DEF StillToSettle
  <2>4. Owner[p] # r /\ Owner[p] \in Root /\ p # r /\ Owner[p] \notin Part
    BY <2>2, <2>3, ResyncAssumption
  <2>5. toSanitate \ toSanitate' \subseteq Part \cup {r}
    BY <1>2, RemoveLocksIs
  <2> QED
    BY <2>2, <2>3, <2>4, <2>5
<1>3. ASSUME NEW r \in Root, Elect(r) PROVE StillToSettle'
  BY <1>3, ElectIs DEF StillToSettle
<1>4. CASE Restart
  BY <1>4 DEF Restart, TypeOK, StillToSettle
<1>5. CASE OnlyLockedLeft
  <2>1. UNCHANGED <<row, kept, stops>> /\ toSanitate \cap Root = {}
    BY <1>5 DEF OnlyLockedLeft, parts, counters
  <2> QED
    BY <2>1, ResyncAssumption DEF StillToSettle
<1> QED
  BY <1>1, <1>2, <1>3, <1>4, <1>5, LockSteps

LEMMA InitLocks == ASSUME Init PROVE KeptIsRow /\ StillToSettle
<1>1. \A r \in Root : ledger[Me][r] = "PENDING"
  BY ResyncAssumption DEF Init
<1>2. toSanitate = Root \cup Part
  BY <1>1 DEF Init, Unfinished
<1> QED
  BY <1>2, ResyncAssumption DEF Init, KeptIsRow, StillToSettle

LEMMA LocksAlways == Spec => [](TypeOK /\ KeptIsRow /\ StillToSettle)
<1>1. Init => TypeOK /\ KeptIsRow /\ StillToSettle
  BY InitTypes, InitLocks
<1>2. TypeOK /\ KeptIsRow /\ StillToSettle /\ [Next]_vars => (TypeOK /\ KeptIsRow /\ StillToSettle)'
  BY StepTypes, StepKept, StepSettles
<1> QED
  BY <1>1, <1>2, PTL DEF Spec

\* Unless the node is stopped again, sanitation forgets no lock that removeLocks can
\* settle: a root stays to be sanitated as long as it has one, be it settled by an election meanwhile.
THEOREM SanitationSettles == Spec => []LocksAreSettled
<1>1. StillToSettle => LocksAreSettled
  BY DEF StillToSettle, LocksAreSettled
<1> QED
  BY <1>1, LocksAlways, PTL

\* What the network did not approve is undone, once and for all, however often the node
\* stops: removeLocks releases by the state of the owner, which cannot be approved.
THEOREM RefusedStaysUndone == ASSUME FewAstray PROVE Spec => RefusedIsUndone
<1> DEFINE Undoes ==
      \A p \in Part :
        outcome[Owner[p]] \in {"DECLINED", "UNDEFINED"} /\ row'[p] # row[p] =>
          \/ row[p] = "LOCKED" /\ row'[p] = "APPROVED"
          \/ row[p] = "LOCKED_FOR_CREATION" /\ row'[p] = "UNDEFINED"
<1>1. ASSUME TypeOK, Honest, KeptIsRow, [Next]_vars PROVE [Undoes]_row
  <2> SUFFICES ASSUME NEW p \in Part, outcome[Owner[p]] \in {"DECLINED", "UNDEFINED"},
                      row'[p] # row[p]
               PROVE  \/ row[p] = "LOCKED" /\ row'[p] = "APPROVED"
                      \/ row[p] = "LOCKED_FOR_CREATION" /\ row'[p] = "UNDEFINED"
    OBVIOUS
  <2>1. kept[p] = row[p]
    BY <1>1 DEF KeptIsRow
  <2>2. ASSUME NEW r \in Root, Elect(r) PROVE FALSE
    BY <1>1, <2>2, ElectIs
  <2>3. PICK r \in Root : RemoveLocks(r, ledger[Me][r]) \/ RemoveLocks(r, "UNDEFINED")
    BY <1>1, <2>2, LockSteps DEF parts, Restart, OnlyLockedLeft
  <2>4. PICK s \in {ledger[Me][r], "UNDEFINED"} : RemoveLocks(r, s)
    BY <2>3
  <2>5. /\ Owner[p] = r /\ row'[p] = Unlocked(p, s)
        /\ kept[p] \in {"LOCKED", "LOCKED_FOR_CREATION"}
    BY <1>1, <2>4, RemoveLocksIs
  <2>6. Right(r, ledger[Me][r])
    BY <1>1, ResyncAssumption DEF Honest, HonestLedgers, TypeOK
  <2>7. s \notin {"APPROVED", "REVOKED"}
    BY <2>4, <2>5, <2>6 DEF Right
  <2> QED
    BY <2>1, <2>5, <2>7 DEF Unlocked
<1>2. TypeOK /\ Honest /\ KeptIsRow /\ [Next]_vars => [Undoes]_row
  BY <1>1
<1> QED
  BY <1>2, HonestAlways, LocksAlways, PTL DEF Spec, RefusedIsUndone

=============================================================================
