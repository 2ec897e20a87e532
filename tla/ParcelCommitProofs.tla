------------------------- MODULE ParcelCommitProofs -------------------------
(***************************************************************************)
(* What ParcelCommit promises about the records it settles, whoever times  *)
(* out, gives up or fails: an expired payload is not charged, and no       *)
(* record is settled against a consensus.                                  *)
(***************************************************************************)
EXTENDS ParcelCommit, TLAPS

Typed ==
  /\ state \in [Item -> Undecided \cup IsDone \cup {"ABSENT", "GOT_CONSENSUS"}]
  /\ jobs \in [Item -> SUBSET Job] /\ holding \in [Item -> Job \cup {"none"}]
  /\ itemEvent \in [Item -> Block \cup {"unfired", "expired"}]
  /\ consensus \in [Item -> {"none", "yes", "no"}]
  /\ rec \in [Item -> {"PENDING", "APPROVED", "DECLINED", "UNDEFINED"}]

\* An item votes once: before it, nothing is scheduled.
VotesOnce ==
  \A i \in Item : state[i] \in Undecided => jobs[i] = {} /\ consensus[i] = "none"

\* What would make a record approved or declined comes from that vote; a payment is also
\* declined to be refunded.
ApprovalsVoted ==
  \A i \in Item :
    "commit" \in jobs[i] \/ itemEvent[i] = "approve" \/ rec[i] = "APPROVED"
    => consensus[i] = "yes"
DeclinesVoted ==
  \A i \in Item :
    "decline" \in jobs[i] \/ itemEvent[i] = "decline" \/ rec[i] = "DECLINED"
    => consensus[i] = "no" \/ (i = "payment" /\ refunded)

\* No commit of this item is scheduled, nor will be.
Spent(i) == state[i] \notin Undecided /\ "commit" \notin jobs[i]

\* The commit of an item hands over one block, and that of a payment has done so when its
\* payload is waited for: what comes after the refund is never an approval.
CommitsOnce ==
  /\ \A i \in Item : itemEvent[i] = "approve" => Spent(i)
  /\ stage = "payload" \/ refunded => Spent("payment")
  /\ stage = "payload" => \A i \in Item : rec[i] = "PENDING"
  /\ stage = "payment" => \A i \in Item : rec[i] = "PENDING"

RefundStands ==
  refunded => itemEvent["payment"] # "approve" /\ rec["payment"] # "APPROVED"

ParcelInv ==
  Typed /\ VotesOnce /\ ApprovalsVoted /\ DeclinesVoted /\ CommitsOnce /\ RefundStands

LEMMA ParcelInit == Init => ParcelInv
<1> SUFFICES ASSUME Init PROVE ParcelInv
  OBVIOUS
<1>1. PICK known \in SUBSET Known :
        state = [i \in Item |-> CASE i \in known -> "ABSENT"
                                  [] i \notin known /\ i = "payment" -> "CHECKING"
                                  [] i \notin known /\ i = "payload" -> "FROZEN"]
  BY DEF Init
<1>2. state \in [Item -> Undecided \cup IsDone \cup {"ABSENT", "GOT_CONSENSUS"}]
  BY <1>1 DEF Item, Undecided
<1>3. \A i \in Item : /\ rec[i] = "PENDING" /\ jobs[i] = {} /\ holding[i] = "none"
                      /\ itemEvent[i] = "unfired" /\ consensus[i] = "none"
  BY DEF Init
<1>4. Typed
  BY <1>2 DEF Init, Typed
<1>5. refunded = FALSE /\ stage = "payment"
  BY DEF Init
<1>6. QED
  BY <1>3, <1>4, <1>5
  DEF ParcelInv, VotesOnce, ApprovalsVoted, DeclinesVoted, CommitsOnce, RefundStands

\* A step that at most takes jobs away, rolls back, or leaves the undecided states, while
\* process goes on, to the payload only with the payment's block
LEMMA NothingVoted ==
  ASSUME ParcelInv, Typed', UNCHANGED <<rec, itemEvent, consensus, refunded>>,
         \A i \in Item : /\ jobs'[i] \subseteq jobs[i] \cup {"rollback"}
                         /\ state'[i] \in Undecided => state[i] \in Undecided /\ jobs'[i] = {},
         stage' \in {"payment", "payload"} =>
           stage' = stage \/ (stage = "payment" /\ itemEvent["payment"] = "approve")
  PROVE  ParcelInv'
<1> USE DEF ParcelInv
<1>1. VotesOnce'
  BY DEF VotesOnce
<1>2. ApprovalsVoted' /\ DeclinesVoted'
  BY DEF ApprovalsVoted, DeclinesVoted
<1>3. "payment" \in Item
  BY DEF Item
<1>4. \A i \in Item : Spent(i) => Spent(i)'
  BY DEF Spent
<1>5. CommitsOnce'
  BY <1>3, <1>4 DEF CommitsOnce
<1>6. RefundStands'
  BY DEF RefundStands
<1>7. QED
  BY <1>1, <1>2, <1>5, <1>6

LEMMA BreakKeeps ==
  ASSUME Typed, VotesOnce, NEW i \in Item, EmergencyBreak(i)
  PROVE  /\ state' \in [Item -> Undecided \cup IsDone \cup {"ABSENT", "GOT_CONSENSUS"}]
         /\ jobs' \in [Item -> SUBSET Job]
         /\ \A k \in Item :
              /\ jobs'[k] \subseteq jobs[k] \cup {"rollback"}
              /\ state'[k] \in Undecided => state[k] \in Undecided /\ jobs'[k] = {}
<1> USE DEF Typed, VotesOnce
<1>1. \A s \in {"NONE", "FINISHED"} : s \in IsDone /\ s \notin Undecided
  BY DEF IsDone, Undecided
<1>2. PICK s \in {"NONE", "FINISHED"} :
        /\ state' = [state EXCEPT ![i] = s]
        /\ jobs' = jobs \/ jobs' = [jobs EXCEPT ![i] = @ \cup {"rollback"}]
  BY DEF EmergencyBreak, Enter
<1>3. "rollback" \in Job
  BY DEF Job
<1>4. jobs' \in [Item -> SUBSET Job]
  BY <1>2, <1>3
<1>5. state' \in [Item -> Undecided \cup IsDone \cup {"ABSENT", "GOT_CONSENSUS"}]
  BY <1>1, <1>2
<1>6. ASSUME NEW k \in Item
      PROVE  /\ jobs'[k] \subseteq jobs[k] \cup {"rollback"}
             /\ state'[k] \in Undecided => state[k] \in Undecided /\ jobs'[k] = {}
  <2>1. CASE k = i
    BY <1>1, <1>2, <2>1
  <2>2. CASE k # i
    BY <1>2, <2>2
  <2>3. QED
    BY <2>1, <2>2
<1>7. QED
  BY <1>4, <1>5, <1>6

LEMMA ConsensusKeeps ==
  ASSUME ParcelInv, NEW i \in Item, NEW c \in {"yes", "no"}, FindConsensus(i, c)
  PROVE  ParcelInv'
<1> USE DEF ParcelInv
<1> DEFINE j == IF c = "yes" THEN "commit" ELSE "decline"
<1>1. /\ state[i] \in Undecided /\ state' = [state EXCEPT ![i] = "GOT_CONSENSUS"]
      /\ jobs' = [jobs EXCEPT ![i] = @ \cup {j}]
      /\ consensus' = [consensus EXCEPT ![i] = c]
      /\ UNCHANGED <<rec, holding, itemEvent, stage, refunded>>
  BY DEF FindConsensus, events, parcel
<1>2. jobs[i] = {} /\ consensus[i] = "none"
  BY <1>1 DEF VotesOnce
<1>3. "GOT_CONSENSUS" \notin Undecided /\ j \in Job
  BY DEF Undecided, Job
<1>4. Typed'
  BY <1>1, <1>3 DEF Typed
<1>5. /\ state'[i] = "GOT_CONSENSUS" /\ jobs'[i] = {j} /\ consensus'[i] = c
      /\ \A k \in Item \ {i} : /\ state'[k] = state[k] /\ jobs'[k] = jobs[k]
                               /\ consensus'[k] = consensus[k]
  BY <1>1, <1>2 DEF Typed
<1>6. VotesOnce'
  BY <1>3, <1>5 DEF VotesOnce
<1>7. ApprovalsVoted'
  BY <1>1, <1>2, <1>5 DEF ApprovalsVoted
<1>8. DeclinesVoted'
  BY <1>1, <1>2, <1>5 DEF DeclinesVoted
<1>9. CommitsOnce'
  <2>1. itemEvent[i] # "approve" /\ ~Spent(i)
    BY <1>1 DEF CommitsOnce, Spent
  <2>2. \A k \in Item \ {i} : Spent(k) => Spent(k)'
    BY <1>5 DEF Spent
  <2>3. "payment" \in Item
    BY DEF Item
  <2>4. QED
    BY <1>1, <2>1, <2>2, <2>3 DEF CommitsOnce
<1>10. RefundStands'
  BY <1>1 DEF RefundStands
<1>11. QED
  BY <1>4, <1>6, <1>7, <1>8, <1>9, <1>10

\* The block of a job is of its kind, and a commit starts once.
LEMMA StartKeeps ==
  ASSUME ParcelInv, NEW i \in Item, NEW j \in Job, StartJob(i, j)
  PROVE  ParcelInv'
<1> USE DEF ParcelInv
<1>1. /\ j \in jobs[i] /\ jobs' = [jobs EXCEPT ![i] = @ \ {j}]
      /\ holding' = [holding EXCEPT ![i] = j]
      /\ itemEvent' = [itemEvent EXCEPT ![i] = BlockOf(j)]
      /\ UNCHANGED <<state, rec, consensus, stage, refunded>>
  BY DEF StartJob, processing, parcel
<1>2. /\ BlockOf(j) \in Block /\ (BlockOf(j) = "approve") = (j = "commit")
      /\ (BlockOf(j) = "decline") = (j = "decline")
  BY DEF BlockOf, Block, Job
<1>3. Typed'
  BY <1>1, <1>2 DEF Typed
<1>4. /\ jobs'[i] = jobs[i] \ {j} /\ itemEvent'[i] = BlockOf(j)
      /\ \A k \in Item \ {i} : jobs'[k] = jobs[k] /\ itemEvent'[k] = itemEvent[k]
  BY <1>1 DEF Typed
<1>5. state[i] \notin Undecided
  BY <1>1 DEF VotesOnce
<1>6. VotesOnce'
  BY <1>1, <1>4 DEF VotesOnce
<1>7. ApprovalsVoted'
  BY <1>1, <1>2, <1>4 DEF ApprovalsVoted
<1>8. DeclinesVoted'
  BY <1>1, <1>2, <1>4 DEF DeclinesVoted
<1>9. "payment" \in Item
  BY DEF Item
<1>10. CommitsOnce'
  <2>1. \A k \in Item : Spent(k) => Spent(k)'
    BY <1>1, <1>4 DEF Spent
  <2>2. itemEvent'[i] = "approve" => Spent(i)'
    BY <1>1, <1>2, <1>4, <1>5 DEF Spent
  <2>3. QED
    BY <1>1, <1>4, <1>9, <2>1, <2>2 DEF CommitsOnce
<1>11. RefundStands'
  <2>1. refunded => "commit" \notin jobs["payment"]
    BY DEF CommitsOnce, Spent
  <2>2. QED
    BY <1>1, <1>2, <1>4, <1>9, <2>1 DEF RefundStands
<1>12. QED
  BY <1>3, <1>6, <1>7, <1>8, <1>10, <1>11

\* The payload's time is over: the payment's approval is forgotten, and the block to come
\* is a refusal, since its commit has had its turn.
LEMMA RefundKeeps == ParcelInv /\ PayloadExpires => ParcelInv'
<1> SUFFICES ASSUME ParcelInv, PayloadExpires PROVE ParcelInv'
  OBVIOUS
<1> USE DEF ParcelInv
<1>1. /\ stage = "payload" /\ stage' = "undo" /\ refunded' = TRUE
      /\ itemEvent' = [k \in Item |-> "unfired"]
      /\ jobs' = [jobs EXCEPT !["payment"] = @ \cup {"decline"}]
      /\ UNCHANGED <<state, rec, holding, consensus>>
  BY DEF PayloadExpires, processing
<1>2. "payment" \in Item /\ "decline" \in Job
  BY DEF Item, Job
<1>3. Typed'
  BY <1>1, <1>2 DEF Typed
<1>4. /\ jobs'["payment"] = jobs["payment"] \cup {"decline"}
      /\ \A k \in Item \ {"payment"} : jobs'[k] = jobs[k]
      /\ \A k \in Item : itemEvent'[k] = "unfired"
  BY <1>1, <1>2 DEF Typed
<1>5. Spent("payment") /\ \A k \in Item : rec[k] = "PENDING"
  BY <1>1 DEF CommitsOnce
<1>6. VotesOnce'
  BY <1>1, <1>4, <1>5 DEF VotesOnce, Spent
<1>7. ApprovalsVoted' /\ DeclinesVoted'
  BY <1>1, <1>4 DEF ApprovalsVoted, DeclinesVoted
<1>8. CommitsOnce'
  BY <1>1, <1>4, <1>5 DEF CommitsOnce, Spent
<1>9. RefundStands'
  BY <1>1, <1>2, <1>4, <1>5 DEF RefundStands
<1>10. QED
  BY <1>3, <1>6, <1>7, <1>8, <1>9


\* process comes to the common transaction with both blocks, and they are not taken back
\* once it has met them, but for the refund.
BlocksReady ==
  /\ stage \in {"payload", "break", "commit"} => Ready("payment")
  /\ stage = "commit" => Ready("payload")

LEMMA BlocksStep == Typed /\ BlocksReady /\ [Next]_vars => BlocksReady'
<1> SUFFICES ASSUME Typed, BlocksReady, [Next]_vars PROVE BlocksReady'
  OBVIOUS
<1> USE DEF BlocksReady, Ready
<1>1. ASSUME UNCHANGED <<stage, itemEvent>> PROVE BlocksReady'
  BY <1>1
<1>2. ASSUME NEW i \in Item, NEW j \in Job, StartJob(i, j) PROVE BlocksReady'
  <2>1. itemEvent' = [itemEvent EXCEPT ![i] = BlockOf(j)] /\ stage' = stage
    BY <1>2 DEF StartJob, parcel
  <2>2. BlockOf(j) \in Block
    BY DEF BlockOf, Block, Job
  <2>3. \A k \in Item : Ready(k) => Ready(k)'
    BY <2>1, <2>2 DEF Typed
  <2>4. "payment" \in Item /\ "payload" \in Item
    BY DEF Item
  <2>5. QED
    BY <2>1, <2>3, <2>4
<1>3. CASE PaymentAccepted \/ PaymentRefused
  BY <1>3 DEF PaymentAccepted, PaymentRefused, GoTo, events
<1>4. CASE PayloadReady \/ PaymentUndone \/ PayloadBroken
  BY <1>4 DEF PayloadReady, PaymentUndone, PayloadBroken, GoTo, events
<1>5. CASE MissesProcessor \/ CommitBoth \/ CommitFails
  BY <1>5 DEF MissesProcessor, CommitBoth, CommitFails, GoTo, Fails
<1>6. CASE PaymentExpires \/ PayloadExpires
  BY <1>6 DEF PaymentExpires, PayloadExpires, Fails
<1>7. CASE Finish \/ PaymentLeaves \/ PayloadLeaves
  BY <1>7 DEF Finish, PaymentLeaves, PayloadLeaves, AfterPayment, GoTo
<1>8. ASSUME NEW i \in Item, EndCheck(i) \/ EndJob(i) \/ LeaveItem(i) PROVE BlocksReady'
  BY <1>1, <1>8 DEF EndCheck, EndJob, LeaveItem, events, parcel
<1>9. ASSUME NEW i \in Item, CheckBreaks(i) \/ PollingExpires(i) PROVE BlocksReady'
  BY <1>1, <1>9 DEF CheckBreaks, PollingExpires, events, parcel
<1>10. ASSUME NEW i \in Item, NEW c \in {"yes", "no"}, FindConsensus(i, c)
       PROVE  BlocksReady'
  BY <1>1, <1>10 DEF FindConsensus, events, parcel
<1>11. CASE UNCHANGED vars
  BY <1>1, <1>11 DEF vars, events, parcel
<1>12. QED
  BY <1>2, <1>3, <1>4, <1>5, <1>6, <1>7, <1>8, <1>9, <1>10, <1>11
  DEF Next, Process, Works

\* The common transaction settles the records as the last blocks say.
LEMMA CommitKeeps ==
  ASSUME ParcelInv, BlocksReady, CommitBoth
  PROVE  ParcelInv'
<1> USE DEF ParcelInv
<1>1. /\ stage = "commit" /\ stage' = "results"
      /\ rec' = [k \in Item |-> ResultOf(itemEvent[k])]
      /\ UNCHANGED <<state, jobs, holding, consensus, itemEvent, refunded>>
  BY DEF CommitBoth, Fire, GoTo, processing
<1>2. \A k \in Item : itemEvent[k] \in Block
  BY <1>1 DEF BlocksReady, Ready, Item
<1>3. \A b \in Block : /\ ResultOf(b) \in {"APPROVED", "DECLINED", "UNDEFINED"}
                       /\ ResultOf(b) = "APPROVED" => b = "approve"
                       /\ ResultOf(b) = "DECLINED" => b = "decline"
  BY DEF ResultOf, Block
<1>4. \A k \in Item : /\ rec'[k] \in {"APPROVED", "DECLINED", "UNDEFINED"}
                      /\ rec'[k] = "APPROVED" => itemEvent[k] = "approve"
                      /\ rec'[k] = "DECLINED" => itemEvent[k] = "decline"
  BY <1>1, <1>2, <1>3
<1>5. Typed'
  BY <1>1, <1>2, <1>3 DEF Typed
<1>6. VotesOnce'
  BY <1>1 DEF VotesOnce
<1>7. ApprovalsVoted' /\ DeclinesVoted'
  BY <1>1, <1>4 DEF ApprovalsVoted, DeclinesVoted
<1>8. CommitsOnce'
  BY <1>1 DEF CommitsOnce, Spent
<1>9. RefundStands'
  BY <1>1, <1>4 DEF RefundStands, Item
<1>10. QED
  BY <1>5, <1>6, <1>7, <1>8, <1>9

\* What process does between its awaits, but for the common transaction and the payload's
\* timeout
LEMMA ProcessKeeps ==
  ASSUME ParcelInv,
         \/ MissesProcessor \/ PaymentAccepted \/ PaymentRefused \/ PayloadReady
         \/ PaymentUndone \/ PayloadBroken \/ CommitFails
         \/ Finish \/ PaymentLeaves \/ PayloadLeaves
  PROVE  ParcelInv'
<1> USE DEF ParcelInv
<1>1. ASSUME UNCHANGED <<state, jobs, holding, rec, itemEvent, consensus, refunded>>,
             stage' \notin {"payment", "payload"}
      PROVE  ParcelInv'
  <2>1. Typed'
    BY <1>1 DEF Typed
  <2>2. \A i \in Item : state'[i] \in Undecided => jobs'[i] = {}
    BY <1>1 DEF VotesOnce
  <2>3. QED
    BY <1>1, <2>1, <2>2, NothingVoted
<1>2. ASSUME EmergencyBreak("payload"), stage' # "payment",
             stage' = "payload" => stage = "payment" /\ itemEvent["payment"] = "approve",
             UNCHANGED <<holding, rec, itemEvent, consensus, refunded>>
      PROVE  ParcelInv'
  <2>1. "payload" \in Item
    BY DEF Item
  <2>2. /\ state' \in [Item -> Undecided \cup IsDone \cup {"ABSENT", "GOT_CONSENSUS"}]
        /\ jobs' \in [Item -> SUBSET Job]
        /\ \A k \in Item :
             /\ jobs'[k] \subseteq jobs[k] \cup {"rollback"}
             /\ state'[k] \in Undecided => state[k] \in Undecided /\ jobs'[k] = {}
    BY <1>2, <2>1, BreakKeeps
  <2>3. Typed'
    BY <1>2, <2>2 DEF Typed
  <2>4. QED
    BY <1>2, <2>2, <2>3, NothingVoted
<1>3. CASE PaymentAccepted
  <2>1. /\ stage = "payment" /\ itemEvent["payment"] = "approve" /\ stage' = "payload"
        /\ UNCHANGED <<holding, rec, itemEvent, consensus, refunded>>
    BY <1>3 DEF PaymentAccepted, GoTo, events
  <2>2. CASE sameOrigin
    BY <1>2, <1>3, <2>1, <2>2 DEF PaymentAccepted
  <2>3. CASE ~sameOrigin
    <3>1. /\ state' = [state EXCEPT !["payload"] = IF @ = "FROZEN" THEN "CHECKING" ELSE @]
          /\ UNCHANGED jobs
      BY <1>3, <2>3 DEF PaymentAccepted
    <3>2. {"FROZEN", "CHECKING"} \subseteq Undecided
      BY DEF Undecided
    <3>3. \A k \in Item : state'[k] = state[k] \/ state[k] \in Undecided
      BY <3>1, <3>2 DEF Typed
    <3>4. \A k \in Item : state'[k] \in Undecided => state[k] \in Undecided
      BY <3>3
    <3>5. Typed'
      BY <2>1, <3>1, <3>2 DEF Typed
    <3>6. \A k \in Item : state'[k] \in Undecided => jobs'[k] = {}
      BY <3>1, <3>4 DEF VotesOnce
    <3>7. QED
      BY <2>1, <3>1, <3>4, <3>5, <3>6, NothingVoted
  <2>4. QED
    BY <2>2, <2>3
<1>4. CASE PaymentRefused
  BY <1>2, <1>4 DEF PaymentRefused, GoTo, events
<1>5. CASE PaymentUndone
  BY <1>2, <1>5 DEF PaymentUndone, GoTo, events
<1>6. CASE MissesProcessor \/ CommitFails
  BY <1>1, <1>6
  DEF MissesProcessor, CommitFails, Fails, Fire, items, events, processing
<1>7. CASE PayloadReady \/ PayloadBroken
  BY <1>1, <1>7 DEF PayloadReady, PayloadBroken, GoTo, items, events, processing
<1>8. CASE Finish \/ PaymentLeaves \/ PayloadLeaves
  BY <1>1, <1>8
  DEF Finish, PaymentLeaves, PayloadLeaves, AfterPayment, GoTo, items, events, processing
<1>9. QED
  BY <1>3, <1>4, <1>5, <1>6, <1>7, <1>8

\* What an item's processor does on its own after a vote, or without one, and the payment's
\* timeout, after which process stops
LEMMA ItemKeeps ==
  ASSUME ParcelInv, NEW i \in Item,
         \/ EndCheck(i) \/ EndJob(i) \/ LeaveItem(i)
         \/ CheckBreaks(i) \/ PollingExpires(i)
  PROVE  ParcelInv'
<1> USE DEF ParcelInv
<1>1. UNCHANGED <<rec, itemEvent, consensus, stage, refunded>>
  BY DEF EndCheck, EndJob, LeaveItem, CheckBreaks, PollingExpires, events, parcel
<1>2. CASE EndCheck(i)
  <2>1. /\ state' = [state EXCEPT ![i] = IF @ = "CHECKING" THEN "POLLING" ELSE @]
        /\ UNCHANGED <<jobs, holding>>
    BY <1>2 DEF EndCheck
  <2>2. {"CHECKING", "POLLING"} \subseteq Undecided
    BY DEF Undecided
  <2>3. Typed'
    BY <1>1, <2>1, <2>2 DEF Typed
  <2>4. \A k \in Item : state'[k] = state[k] \/ state[k] \in Undecided
    BY <2>1, <2>2 DEF Typed
  <2>5. \A k \in Item : state'[k] \in Undecided => state[k] \in Undecided /\ jobs'[k] = {}
    BY <2>1, <2>4 DEF VotesOnce
  <2>6. QED
    BY <1>1, <2>1, <2>3, <2>5, NothingVoted
<1>3. CASE EndJob(i) \/ LeaveItem(i)
  <2>1. PICK s \in {"SENDING_CONSENSUS", "NONE"} : state' = [state EXCEPT ![i] = s]
    BY <1>3 DEF EndJob, LeaveItem, Enter
  <2>2. s \in IsDone /\ s \notin Undecided
    BY DEF IsDone, Undecided
  <2>3. jobs' = jobs /\ holding' \in {holding, [holding EXCEPT ![i] = "none"]}
    BY <1>3 DEF EndJob, LeaveItem
  <2>4. Typed'
    BY <1>1, <2>1, <2>2, <2>3 DEF Typed
  <2>5. \A k \in Item : state'[k] = state[k] \/ state'[k] \notin Undecided
    BY <2>1, <2>2 DEF Typed
  <2>6. \A k \in Item : state'[k] \in Undecided => state[k] \in Undecided /\ jobs'[k] = {}
    BY <2>3, <2>5 DEF VotesOnce
  <2>7. QED
    BY <1>1, <2>3, <2>4, <2>6, NothingVoted
<1>4. CASE CheckBreaks(i)
  <2>1. EmergencyBreak(i) /\ UNCHANGED holding
    BY <1>4 DEF CheckBreaks
  <2>2. /\ state' \in [Item -> Undecided \cup IsDone \cup {"ABSENT", "GOT_CONSENSUS"}]
        /\ jobs' \in [Item -> SUBSET Job]
        /\ \A k \in Item :
             /\ jobs'[k] \subseteq jobs[k] \cup {"rollback"}
             /\ state'[k] \in Undecided => state[k] \in Undecided /\ jobs'[k] = {}
    BY <2>1, BreakKeeps
  <2>3. Typed'
    BY <1>1, <2>1, <2>2 DEF Typed
  <2>4. QED
    BY <1>1, <2>2, <2>3, NothingVoted
<1>5. CASE PollingExpires(i)
  <2>1. /\ state' = [state EXCEPT ![i] = "GOT_CONSENSUS"] /\ UNCHANGED holding
        /\ jobs' = [jobs EXCEPT ![i] = @ \cup {"rollback"}]
    BY <1>5 DEF PollingExpires
  <2>2. "GOT_CONSENSUS" \notin Undecided /\ "rollback" \in Job
    BY DEF Undecided, Job
  <2>3. Typed'
    BY <1>1, <2>1, <2>2 DEF Typed
  <2>4. \A k \in Item : \/ state'[k] = state[k] /\ jobs'[k] = jobs[k]
                        \/ /\ state'[k] \notin Undecided
                           /\ jobs'[k] \subseteq jobs[k] \cup {"rollback"}
    BY <2>1, <2>2 DEF Typed
  <2>5. \A k \in Item :
          /\ jobs'[k] \subseteq jobs[k] \cup {"rollback"}
          /\ state'[k] \in Undecided => state[k] \in Undecided /\ jobs'[k] = {}
    BY <2>4 DEF VotesOnce
  <2>6. QED
    BY <1>1, <2>3, <2>5, NothingVoted
<1>6. QED
  BY <1>2, <1>3, <1>4, <1>5

LEMMA PaymentTimeoutKeeps ==
  ASSUME ParcelInv, PaymentExpires
  PROVE  ParcelInv'
<1> USE DEF ParcelInv
<1>1. /\ EmergencyBreak("payment") /\ stage' = "abandoned"
      /\ itemEvent' = [itemEvent EXCEPT !["payment"] = "expired"]
      /\ UNCHANGED <<holding, rec, consensus, refunded>>
  BY DEF PaymentExpires, Fails
<1>2. "payment" \in Item
  BY DEF Item
<1>3. /\ state' \in [Item -> Undecided \cup IsDone \cup {"ABSENT", "GOT_CONSENSUS"}]
      /\ jobs' \in [Item -> SUBSET Job]
      /\ \A k \in Item :
           /\ jobs'[k] \subseteq jobs[k] \cup {"rollback"}
           /\ state'[k] \in Undecided => state[k] \in Undecided /\ jobs'[k] = {}
  BY <1>1, <1>2, BreakKeeps
<1>4. Typed'
  BY <1>1, <1>3 DEF Typed
<1>5. \A k \in Item : itemEvent'[k] \in {itemEvent[k], "expired"}
  BY <1>1 DEF Typed
<1>6. VotesOnce'
  BY <1>1, <1>3 DEF VotesOnce
<1>7. ApprovalsVoted'
  BY <1>1, <1>3, <1>5 DEF ApprovalsVoted
<1>8. DeclinesVoted'
  BY <1>1, <1>3, <1>5 DEF DeclinesVoted
<1>9. CommitsOnce'
  <2>1. \A k \in Item : Spent(k) => Spent(k)'
    BY <1>3 DEF Spent
  <2>2. QED
    BY <1>1, <1>2, <1>5, <2>1 DEF CommitsOnce
<1>10. RefundStands'
  BY <1>1, <1>2, <1>5 DEF RefundStands
<1>11. QED
  BY <1>4, <1>6, <1>7, <1>8, <1>9, <1>10

LEMMA ParcelStep == ParcelInv /\ BlocksReady /\ [Next]_vars => ParcelInv'
<1> SUFFICES ASSUME ParcelInv, BlocksReady, [Next]_vars PROVE ParcelInv'
  OBVIOUS
<1>1. CASE Process
  <2>1. CASE CommitBoth
    BY <2>1, CommitKeeps
  <2>2. CASE \/ MissesProcessor \/ PaymentAccepted \/ PaymentRefused \/ PayloadReady
             \/ PaymentUndone \/ PayloadBroken \/ CommitFails
             \/ Finish \/ PaymentLeaves \/ PayloadLeaves
    BY <2>2, ProcessKeeps
  <2>3. QED
    BY <1>1, <2>1, <2>2 DEF Process
<1>2. CASE PaymentExpires
  BY <1>2, PaymentTimeoutKeeps
<1>3. CASE PayloadExpires
  BY <1>3, RefundKeeps
<1>4. ASSUME NEW i \in Item, Works(i) \/ CheckBreaks(i) \/ PollingExpires(i)
      PROVE  ParcelInv'
  <2>1. ASSUME NEW j \in Job, StartJob(i, j) PROVE ParcelInv'
    BY <2>1, StartKeeps
  <2>2. CASE EndCheck(i) \/ EndJob(i) \/ LeaveItem(i) \/ CheckBreaks(i) \/ PollingExpires(i)
    BY <2>2, ItemKeeps
  <2>3. QED
    BY <1>4, <2>1, <2>2 DEF Works
<1>5. ASSUME NEW i \in Item, NEW c \in {"yes", "no"}, FindConsensus(i, c)
      PROVE  ParcelInv'
  BY <1>5, ConsensusKeeps
<1>6. CASE UNCHANGED vars
  <2>1. UNCHANGED <<state, jobs, holding, rec, itemEvent, consensus, stage, refunded>>
    BY <1>6 DEF vars, items, processing, events, parcel
  <2>2. Typed'
    BY <2>1 DEF Typed, ParcelInv
  <2>3. \A i \in Item : state'[i] \in Undecided => jobs'[i] = {}
    BY <2>1 DEF VotesOnce, ParcelInv
  <2>4. QED
    BY <2>1, <2>2, <2>3, NothingVoted
<1>7. QED
  BY <1>1, <1>2, <1>3, <1>4, <1>5, <1>6 DEF Next

LEMMA ParcelAlways == Spec => [](ParcelInv /\ BlocksReady)
<1>1. Init => BlocksReady
  BY DEF Init, BlocksReady
<1>2. ParcelInv => Typed
  BY DEF ParcelInv
<1>3. QED
  BY <1>1, <1>2, ParcelInit, ParcelStep, BlocksStep, PTL DEF Spec

\* A payload whose time is over costs nothing: process refuses the payment's approval, and
\* no second one can come.
THEOREM ExpiredCostsNothing == Spec => []ExpiredIsNotCharged
<1>1. ParcelInv => ExpiredIsNotCharged
  BY DEF ParcelInv, RefundStands, ExpiredIsNotCharged
<1>2. QED
  BY <1>1, ParcelAlways, PTL

\* The common transaction settles no record against a consensus that vote has found, but for
\* a payment that process refunds.
THEOREM ConsensusIsSettled == Spec => []SettledAsVoted
<1>1. ParcelInv => SettledAsVoted
  BY DEF ParcelInv, ApprovalsVoted, DeclinesVoted, SettledAsVoted
<1>2. QED
  BY <1>1, ParcelAlways, PTL
=============================================================================
