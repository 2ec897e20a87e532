---------------------------- MODULE ItemElection ----------------------------
(***************************************************************************)
(* The network's vote on one item: the ItemProcessor of every node         *)
(* (jssrc/itemprocessor.js) and the handlers of Node that feed it          *)
(* (jssrc/node.js), for an item registered outside a parcel.               *)
(*                                                                         *)
(* Each node checks the item against its own ledger, makes its position    *)
(* public, counts the positions of the others, and commits or rolls back   *)
(* once a threshold is met.  The network may lose, delay, reorder and      *)
(* repeat notifications: nothing leaves net, a notification in it may be   *)
(* received any number of times or never.                                  *)
(*                                                                         *)
(* What the item contains, its sub-items and the resync they may need are  *)
(* left out here: a check ends well or badly, as the local ledger decides. *)
(***************************************************************************)
EXTENDS NetConfig, FiniteSets

CONSTANTS Node,        \* the nodes of the network
          Entry,       \* the nodes clients hand the item to
          Quitter,     \* bound: the nodes that may abandon the election, once
          Failing,     \* bound: the nodes whose transactions may fail
          Lossy        \* bound: the nodes whose broadcast may miss others

ASSUME NodeAssumption == IsFiniteSet(Node) /\ Node # {}
ASSUME RolesAssumption ==
  \A role \in {Entry, Quitter, Failing, Lossy} : role \subseteq Node

N == Cardinality(Node)
Positive == PositiveConsensus(N)
Negative == NegativeConsensus(N)

(***************************************************************************)
(* ItemProcessingState.  "NONE" is a node without a processor; a           *)
(* processor that lacks the item is "DOWNLOADING" (INIT too), one that has *)
(* it and no position yet is "CHECKING" (DOWNLOADED too).  DONE and        *)
(* EMERGENCY_BREAK are left in the same synchronous call that enters them. *)
(***************************************************************************)
BeforeConsensus == {"DOWNLOADING", "CHECKING", "POLLING"}
IsProcessedToConsensus == {"GOT_CONSENSUS", "SENDING_CONSENSUS", "FINISHED"}
ProcessingState == {"NONE"} \cup BeforeConsensus \cup IsProcessedToConsensus

(***************************************************************************)
(* ItemState, as far as an item that is voted on can have it.  A record    *)
(* that was destroyed, or never created, is UNDEFINED.                     *)
(***************************************************************************)
IsPending == {"PENDING", "PENDING_POSITIVE", "PENDING_NEGATIVE"}
IsConsensusFound == {"APPROVED", "DECLINED"}
IsPositive == {"PENDING_POSITIVE", "APPROVED"}
ItemState == {"UNDEFINED"} \cup IsPending \cup IsConsensusFound

\* What executorService has to run for a processor: downloadAndCommit, and
\* rollbackChanges with and without doDecline.  A job is scheduled once.
Job == {"commit", "decline", "rollback"}
RecordsVerdict == {"commit", "decline"}

\* checkItem: "checking" until its last await ends, then "saving" the position
CheckState == {"none", "checking", "saving"}

\* What a notification says of the item.  Only this much of the ItemState
\* counts (vote): every state that is not positive is a "no", UNDEFINED too.
Side == {"yes", "no", "pending"}
SideOf(state) == IF state = "PENDING" THEN "pending"
                 ELSE IF state \in IsPositive THEN "yes" ELSE "no"

\* An ItemNotification: the sender's result, and whether it asks for ours
Notification == [from : Node, to : Node, side : Side, ask : BOOLEAN]

VARIABLES proc,   \* proc[n]: processingState of n's ItemProcessor
          rec,    \* rec[n]: state of n's StateRecord of the item
          copy,   \* copy[n]: n's processor holds the item
          yes,    \* yes[n]: positiveNodes of n's processor
          no,     \* no[n]: negativeNodes of n's processor
          jobs,   \* jobs[n]: the jobs scheduled for n's processor
          check,  \* check[n]: how far checkItem of n's processor is
          net,    \* the notifications sent
          ballot, \* history: the first position each node took
          gaveUp, \* history: the nodes that destroyed their record
          quit    \* history: whether n's processor broke off, and with a verdict due

processor == <<proc, copy, yes, no>>
history == <<ballot, gaveUp, quit>>
vars == <<processor, rec, jobs, check, net, history>>

Init ==
  /\ proc = [n \in Node |-> "NONE"]
  /\ rec = [n \in Node |-> "UNDEFINED"]
  /\ copy = [n \in Node |-> FALSE]
  /\ yes = [n \in Node |-> {}]
  /\ no = [n \in Node |-> {}]
  /\ jobs = [n \in Node |-> {}]
  /\ check = [n \in Node |-> "none"]
  /\ net = {}
  /\ ballot = [n \in Node |-> "none"]
  /\ gaveUp = {}
  /\ quit = [n \in Node |-> "none"]

-----------------------------------------------------------------------------
\* The first position of a node stays on record; a node that destroys its
\* record may come back with another.
TakesSide(n, side) ==
  /\ ballot' = [ballot EXCEPT ![n] = IF @ = "none" THEN side ELSE @]
  /\ UNCHANGED <<gaveUp, quit>>

GivesUp(n) ==
  /\ gaveUp' = gaveUp \cup {n}
  /\ UNCHANGED ballot

\* Bound: a timeout or an error makes a processor break off once.
MayQuit(n) == n \in Quitter /\ quit[n] = "none"

\* A processor breaks off when the jobs in left are scheduled.
Quits(n, left) ==
  quit' = [quit EXCEPT ![n] = IF left \cap RecordsVerdict # {} THEN "due"
                              ELSE IF @ = "none" THEN "open" ELSE @]

Heard(n) == yes[n] \cup no[n]

Position(n, to, ask) ==
  [from |-> n, to |-> to, side |-> SideOf(rec[n]), ask |-> ask]

\* A notification that does not ask says nothing that one with the same side
\* that asks does not say: only the latter is kept.
Asking(m) == [m EXCEPT !.ask = TRUE]

Send(ms) ==
  net' = {m \in net : m.ask \/ Asking(m) \notin ms}
           \cup {m \in ms : m.ask \/ Asking(m) \notin net}

-----------------------------------------------------------------------------
(***************************************************************************)
(* The end of a processor, and its votes                                   *)
(***************************************************************************)

\* removeSelf: the processor is gone, with the votes it counted
Remove(n) ==
  /\ proc' = [proc EXCEPT ![n] = "NONE"]
  /\ copy' = [copy EXCEPT ![n] = FALSE]
  /\ yes' = [yes EXCEPT ![n] = {}]
  /\ no' = [no EXCEPT ![n] = {}]

Keep(n, state, y, x) ==
  /\ proc' = [proc EXCEPT ![n] = state]
  /\ yes' = [yes EXCEPT ![n] = y]
  /\ no' = [no EXCEPT ![n] = x]
  /\ UNCHANGED copy

\* close, when the votes are y and x: a processor that has heard from every
\* node is removed, another starts sending its consensus.
Close(n, y, x) ==
  IF N <= Cardinality(y) + Cardinality(x)
  THEN Remove(n)
  ELSE Keep(n, "SENDING_CONSENSUS", y, x)

\* Mutants: the consensus is found one vote early, or on the turnout
CountFrom(n, s, y, x, declined, approved) ==
  \/ /\ s \in IsProcessedToConsensus
     /\ IF s = "SENDING_CONSENSUS" THEN Close(n, y, x) ELSE Keep(n, s, y, x)
     /\ UNCHANGED jobs
  \/ /\ s \in BeforeConsensus
     /\ declined \/ approved
     /\ Keep(n, "GOT_CONSENSUS", y, x)
     /\ jobs' = [jobs EXCEPT ![n] = @ \cup {IF declined THEN "decline" ELSE "commit"}]
  \/ /\ s \in BeforeConsensus
     /\ ~declined /\ ~approved
     /\ Keep(n, s, y, x)
     /\ UNCHANGED jobs
DeclinesEarly(n, s, y, x) ==
  CountFrom(n, s, y, x, Cardinality(x) >= Negative - 1, Cardinality(y) >= Positive)
ApprovesEarly(n, s, y, x) ==
  CountFrom(n, s, y, x, Cardinality(x) >= Negative, Cardinality(y) >= Positive - 1)
ApprovesOnTurnout(n, s, y, x) ==
  CountFrom(n, s, y, x, Cardinality(x) >= Negative, Cardinality(y \cup x) >= Positive)

\* vote, in processing state s, once the new vote made the votes y and x
Count(n, s, y, x) ==
  \/ /\ s = "SENDING_CONSENSUS"
     /\ Close(n, y, x)
     /\ UNCHANGED jobs
  \/ /\ s = "GOT_CONSENSUS"
     /\ Keep(n, s, y, x)
     /\ UNCHANGED jobs
  \/ /\ s \in BeforeConsensus
     /\ Cardinality(x) >= Negative
     /\ Keep(n, "GOT_CONSENSUS", y, x)
     /\ jobs' = [jobs EXCEPT ![n] = @ \cup {"decline"}]
  \/ /\ s \in BeforeConsensus
     /\ Cardinality(x) < Negative
     /\ Cardinality(y) >= Positive
     /\ Keep(n, "GOT_CONSENSUS", y, x)
     /\ jobs' = [jobs EXCEPT ![n] = @ \cup {"commit"}]
  \/ /\ s \in BeforeConsensus
     /\ Cardinality(x) < Negative
     /\ Cardinality(y) < Positive
     /\ Keep(n, s, y, x)
     /\ UNCHANGED jobs

\* vote(voter, state): a node is on one side only, and may change it.  A
\* PENDING state is a "no" here; the handlers never let one through.
Vote(n, s, voter, side) ==
  \/ /\ \/ s = "FINISHED"
        \/ side = "yes" /\ voter \in yes[n]
        \/ side # "yes" /\ voter \in no[n]
     /\ proc' = [proc EXCEPT ![n] = s]
     /\ UNCHANGED <<copy, yes, no, jobs>>
  \/ /\ s # "FINISHED"
     /\ side = "yes" /\ voter \notin yes[n]
     /\ Count(n, s, yes[n] \cup {voter}, no[n] \ {voter})
  \/ /\ s # "FINISHED"
     /\ side # "yes" /\ voter \notin no[n]
     /\ Count(n, s, yes[n] \ {voter}, no[n] \cup {voter})

-----------------------------------------------------------------------------
(***************************************************************************)
(* The item and its notifications reach a node                             *)
(***************************************************************************)

\* checkItemInternal with autoStart, when the item has no processor and no
\* verdict: findOrCreate leaves a record that is already there as it is.
\* Bound: no job of an earlier processor is left.
CreateProcessor(n, hasItem) ==
  /\ proc[n] = "NONE"
  /\ jobs[n] = {}
  /\ rec[n] \notin IsConsensusFound
  /\ proc' = [proc EXCEPT ![n] = IF hasItem THEN "CHECKING" ELSE "DOWNLOADING"]
  /\ rec' = [rec EXCEPT ![n] = IF @ = "UNDEFINED" THEN "PENDING" ELSE @]
  /\ copy' = [copy EXCEPT ![n] = hasItem]
  /\ check' = [check EXCEPT ![n] = IF hasItem THEN "checking" ELSE "none"]
  /\ UNCHANGED <<yes, no, jobs, net, history>>

\* registerItem: a client hands the item to the node
Submit(n) == n \in Entry /\ CreateProcessor(n, TRUE)

\* A notification of an unknown item creates its processor.  The lock on the
\* item is released before the vote is counted: that is another step.
Discover(n, m) == m.to = n /\ CreateProcessor(n, FALSE)

\* A notification of an item that is done with is answered, if it asks.
Answer(n, m) ==
  /\ m.to = n
  /\ proc[n] = "NONE"
  /\ rec[n] \in IsConsensusFound
  /\ m.ask
  /\ Send({Position(n, m.from, FALSE)})
  /\ UNCHANGED <<processor, rec, jobs, check, history>>

\* A notification of an item under way: its vote is counted, and it is
\* answered if it asks and this node has a position.
Receive(n, m) ==
  /\ m.to = n
  /\ proc[n] # "NONE"
  /\ IF m.side # "pending"
     THEN Vote(n, proc[n], m.from, m.side)
     ELSE UNCHANGED <<processor, jobs>>
  /\ LET needsVote == /\ rec[n] \in IsPending
                      /\ m.from \notin Heard(n)
                      /\ m.side = "pending" \/ proc[n] = "FINISHED"
     IN  Send(IF m.ask /\ rec[n] # "PENDING"
              THEN {Position(n, m.from, needsVote)} ELSE {})
  /\ UNCHANGED <<rec, check, history>>

\* The processor a notification found has left before the lock on the item is
\* taken again: the vote is not counted, and the answer is the state of that
\* processor's record, which a later one shares unless it was destroyed.  It
\* asks back if that processor lacks the vote: only this is kept (Send).
AnswerLate(n, m) ==
  /\ m.to = n
  /\ m.ask
  /\ \/ /\ proc[n] = "NONE"
        /\ rec[n] \in IsPending \ {"PENDING"}
        /\ Send({Position(n, m.from, TRUE)})
     \/ /\ n \in gaveUp
        /\ Send({[Position(n, m.from, FALSE) EXCEPT !.side = "no"]})
  /\ UNCHANGED <<processor, rec, jobs, check, history>>

\* Mutant: the download is given up when the consensus comes first
DownloadsInTime(n) ==
  /\ proc[n] = "DOWNLOADING"
  /\ copy' = [copy EXCEPT ![n] = TRUE]
  /\ proc' = [proc EXCEPT ![n] = "CHECKING"]
  /\ check' = [check EXCEPT ![n] = "checking"]
  /\ UNCHANGED <<yes, no, rec, jobs, net, history>>

\* download, then itemDownloaded: the check starts, unless the network was faster
Download(n) ==
  /\ proc[n] # "NONE"
  /\ ~copy[n]
  /\ copy' = [copy EXCEPT ![n] = TRUE]
  /\ proc' = [proc EXCEPT ![n] = IF @ = "DOWNLOADING" THEN "CHECKING" ELSE @]
  /\ check' = [check EXCEPT ![n] = IF proc[n] = "DOWNLOADING" THEN "checking" ELSE @]
  /\ UNCHANGED <<yes, no, rec, jobs, net, history>>

-----------------------------------------------------------------------------
(***************************************************************************)
(* The check and the node's own position                                   *)
(***************************************************************************)

EndsCheck(n) ==
  /\ check[n] = "checking"
  /\ check' = [check EXCEPT ![n] = "none"]

\* commitCheckedAndStartPolling up to its save, whose await lets votes in.  A
\* check that ends after the consensus was found, or the processor left, changes
\* nothing: it stays as it is.
TakePosition(n, passed) ==
  /\ check[n] = "checking"
  /\ proc[n] = "CHECKING"
  /\ rec[n] = "PENDING"
  /\ rec' = [rec EXCEPT ![n] = IF passed THEN "PENDING_POSITIVE" ELSE "PENDING_NEGATIVE"]
  /\ check' = [check EXCEPT ![n] = "saving"]
  /\ TakesSide(n, IF passed THEN "yes" ELSE "no")
  /\ UNCHANGED <<processor, jobs, net>>

EndsSave(n) ==
  /\ check[n] = "saving"
  /\ check' = [check EXCEPT ![n] = "none"]

\* ... and after it: the node votes, and tells the network.  A notification that
\* is in net and never received is lost as well: Lossy adds no behaviour to the
\* nodes, but makes what they do in the end depend on Poll.
PublishPosition(n) ==
  /\ EndsSave(n)
  /\ Vote(n, IF proc[n] \in BeforeConsensus THEN "POLLING" ELSE proc[n],
          n, SideOf(rec[n]))
  /\ \E reached \in IF n \in Lossy THEN SUBSET (Node \ {n}) ELSE {Node \ {n}} :
       Send({Position(n, to, TRUE) : to \in reached})
  /\ UNCHANGED <<rec, history>>

\* emergencyBreak, when the jobs in left are scheduled.  Before the commit or
\* the rollback has closed the processor, a rollback is scheduled in addition,
\* and the processor is FINISHED, not removed, until a job has run: a commit
\* that waits will still be made.  Later the processor just leaves.
EmergencyBreak(n, left) ==
  /\ \/ /\ proc[n] \in BeforeConsensus \cup {"GOT_CONSENSUS"}
        /\ proc' = [proc EXCEPT ![n] = "FINISHED"]
        /\ jobs' = [jobs EXCEPT ![n] = left \cup {"rollback"}]
        /\ Quits(n, left)
        /\ UNCHANGED <<copy, yes, no>>
     \/ /\ proc[n] \in {"SENDING_CONSENSUS", "FINISHED"}
        /\ Remove(n)
        /\ jobs' = [jobs EXCEPT ![n] = left]
        /\ Quits(n, {})
  /\ UNCHANGED <<rec, ballot, gaveUp>>

\* The check runs out of quanta, whatever the votes have decided by then.
CheckBreaks(n) ==
  /\ MayQuit(n)
  /\ EndsCheck(n)
  /\ EmergencyBreak(n, jobs[n])
  /\ UNCHANGED net

\* The save of the position fails.
SaveFails(n) ==
  /\ MayQuit(n)
  /\ EndsSave(n)
  /\ EmergencyBreak(n, jobs[n])
  /\ UNCHANGED net

\* The check ends on a record that had a position already (a failed commit
\* left it): an emergency break, after which the old position is broadcast.
CheckFindsPosition(n) ==
  /\ n \in Quitter
  /\ EndsCheck(n)
  /\ proc[n] = "CHECKING"
  /\ rec[n] \in IsPending \ {"PENDING"}
  /\ EmergencyBreak(n, jobs[n])
  /\ Send({Position(n, to, TRUE) : to \in Node \ {n}})

-----------------------------------------------------------------------------
(***************************************************************************)
(* Polling                                                                 *)
(***************************************************************************)

\* sendStartPollingNotification asks the nodes not heard from yet ...
Poll(n, to) ==
  /\ proc[n] = "POLLING"
  /\ to \notin Heard(n)
  /\ Send({Position(n, to, TRUE)})
  /\ UNCHANGED <<processor, rec, jobs, check, history>>

\* Mutant: the poller is not stopped when the consensus is found
PollerGoesOn(n) ==
  /\ proc[n] \in {"POLLING", "SENDING_CONSENSUS"}
  /\ MayQuit(n)
  /\ Quits(n, {})
  /\ proc' = [proc EXCEPT ![n] = "GOT_CONSENSUS"]
  /\ jobs' = [jobs EXCEPT ![n] = @ \cup {"rollback"}]
  /\ UNCHANGED <<copy, yes, no, rec, check, net, ballot, gaveUp>>

\* ... until maxElectionsTime is over
PollingExpires(n) ==
  /\ proc[n] = "POLLING"
  /\ MayQuit(n)
  /\ Quits(n, {})
  /\ proc' = [proc EXCEPT ![n] = "GOT_CONSENSUS"]
  /\ jobs' = [jobs EXCEPT ![n] = @ \cup {"rollback"}]
  /\ UNCHANGED <<copy, yes, no, rec, check, net, ballot, gaveUp>>

-----------------------------------------------------------------------------
(***************************************************************************)
(* The verdict is committed.  Every job needs the mutex, which a save of   *)
(* the node's own position holds.  Two jobs of a processor, due at the     *)
(* same time, run in either order.                                         *)
(***************************************************************************)
StartsJob(n, j) ==
  /\ j \in jobs[n]
  /\ check[n] # "saving"
  /\ jobs' = [jobs EXCEPT ![n] = @ \ {j}]
  /\ UNCHANGED <<check, net>>

\* close, at the end of a job; a job may outlive the processor it was scheduled for
EndsJob(n) ==
  IF proc[n] = "NONE" THEN UNCHANGED processor ELSE Close(n, yes[n], no[n])

\* downloadAndCommit
Commit(n) ==
  /\ StartsJob(n, "commit")
  /\ copy[n] \/ proc[n] = "NONE"
  /\ rec[n] \in IsPending
  /\ rec' = [rec EXCEPT ![n] = "APPROVED"]
  /\ TakesSide(n, "yes")
  /\ EndsJob(n)

\* ... cannot revoke or approve a sub-item, or its record was destroyed: the
\* transaction is undone, the error is logged, the record keeps its state.
\* Bound: a commit misses a sub-item only where nothing has broken off yet.
CommitFails(n) ==
  /\ (n \in Failing /\ quit[n] = "none") \/ rec[n] \notin IsPending
  /\ StartsJob(n, "commit")
  /\ copy[n] \/ proc[n] = "NONE"
  /\ EndsJob(n)
  /\ UNCHANGED <<rec, history>>

\* ... meets a DatabaseError
CommitBreaks(n) ==
  /\ MayQuit(n)
  /\ "commit" \in jobs[n]
  /\ copy[n]
  /\ check[n] # "saving"
  /\ EmergencyBreak(n, jobs[n] \ {"commit"})
  /\ UNCHANGED <<check, net>>

\* ... never gets the item, and destroys the record
CommitTimesOut(n) ==
  /\ MayQuit(n)
  /\ Quits(n, {})
  /\ StartsJob(n, "commit")
  /\ ~copy[n] /\ proc[n] # "NONE"
  /\ rec' = [rec EXCEPT ![n] = "UNDEFINED"]
  /\ GivesUp(n)
  /\ EndsJob(n)

\* Mutant: a refusal is recorded as a revocation
Revokes(n) ==
  /\ StartsJob(n, "decline")
  /\ rec' = [rec EXCEPT ![n] = "REVOKED"]
  /\ TakesSide(n, "no")
  /\ EndsJob(n)

\* rollbackChanges with doDecline
Decline(n) ==
  /\ StartsJob(n, "decline")
  /\ rec[n] \in IsPending
  /\ rec' = [rec EXCEPT ![n] = "DECLINED"]
  /\ TakesSide(n, "no")
  /\ EndsJob(n)

\* rollbackChanges without it: the record is destroyed
Rollback(n) ==
  /\ StartsJob(n, "rollback")
  /\ rec' = [rec EXCEPT ![n] = "UNDEFINED"]
  /\ GivesUp(n)
  /\ EndsJob(n)
  /\ UNCHANGED quit

\* The transaction of either fails, or there is nothing left to decline: the
\* error is logged, and the processor closes.
RollbackFails(n) ==
  /\ \E j \in {"decline", "rollback"} :
       /\ n \in Failing \/ (j = "decline" /\ rec[n] \notin IsPending)
       /\ StartsJob(n, j)
  /\ EndsJob(n)
  /\ UNCHANGED <<rec, history>>

-----------------------------------------------------------------------------
(***************************************************************************)
(* Sending the consensus                                                   *)
(***************************************************************************)

\* sendNewConsensusNotification tells the nodes not heard from; a node that
\* has not heard from itself votes.  Without the item it only raises an error.
SendConsensus(n, to) ==
  /\ proc[n] = "SENDING_CONSENSUS"
  /\ copy[n]
  /\ to \notin Heard(n)
  /\ \/ /\ to # n
        /\ Send({Position(n, to, TRUE)})
        /\ UNCHANGED <<processor, jobs>>
     \/ /\ to = n
        /\ Vote(n, proc[n], n, SideOf(rec[n]))
        /\ UNCHANGED net
  /\ UNCHANGED <<rec, check, history>>

\* Mutant: the processor is FINISHED and stays in node.processors
FinishesOnly(n) ==
  /\ proc[n] = "SENDING_CONSENSUS"
  /\ proc' = [proc EXCEPT ![n] = "FINISHED"]
  /\ UNCHANGED <<copy, yes, no, rec, jobs, check, net, history>>

\* maxConsensusReceivedCheckTime is over
ConsensusReceivedExpires(n) ==
  /\ proc[n] = "SENDING_CONSENSUS"
  /\ Remove(n)
  /\ UNCHANGED <<rec, jobs, check, net, history>>

-----------------------------------------------------------------------------
\* onNotification
Notified(n, m) ==
  \/ Discover(n, m)
  \/ Answer(n, m)
  \/ Receive(n, m)
  \/ AnswerLate(n, m)

Check(n) ==
  \/ \E passed \in BOOLEAN : TakePosition(n, passed)
  \/ PublishPosition(n)
  \/ CheckBreaks(n)
  \/ SaveFails(n)
  \/ CheckFindsPosition(n)

Conclude(n) ==
  \/ Commit(n)
  \/ CommitFails(n)
  \/ CommitBreaks(n)
  \/ CommitTimesOut(n)
  \/ Decline(n)
  \/ Rollback(n)
  \/ RollbackFails(n)

Next ==
  \E n \in Node :
    \/ Submit(n)
    \/ \E m \in net : Notified(n, m)
    \/ Download(n)
    \/ Check(n)
    \/ \E to \in Node : Poll(n, to) \/ SendConsensus(n, to)
    \/ PollingExpires(n)
    \/ Conclude(n)
    \/ ConsensusReceivedExpires(n)

Spec == Init /\ [][Next]_vars

(***************************************************************************)
(* Fairness.  The poller and the consensus sender are timers that fire     *)
(* until they are cancelled, the sender until its time is over; the        *)
(* scheduled jobs and the continuations of awaits are run by the event     *)
(* loop; what was sent is delivered, since the UDP adapter retransmits and *)
(* the timers repeat it.  A client owes nothing, and polling need not      *)
(* expire.                                                                 *)
(***************************************************************************)
Fairness ==
  /\ \A m \in Notification : WF_vars(m \in net /\ Notified(m.to, m))
  /\ \A n \in Node :
       /\ WF_vars(Download(n))
       /\ WF_vars(Check(n))
       /\ \A to \in Node : WF_vars(Poll(n, to)) /\ WF_vars(SendConsensus(n, to))
       /\ WF_vars(Conclude(n))
       /\ WF_vars(ConsensusReceivedExpires(n))

FairSpec == Spec /\ Fairness

-----------------------------------------------------------------------------
TypeOK ==
  /\ proc \in [Node -> ProcessingState]
  /\ rec \in [Node -> ItemState]
  /\ copy \in [Node -> BOOLEAN]
  /\ yes \in [Node -> SUBSET Node]
  /\ no \in [Node -> SUBSET Node]
  /\ jobs \in [Node -> SUBSET Job]
  /\ check \in [Node -> CheckState]
  /\ net \in SUBSET Notification
  /\ ballot \in [Node -> {"none", "yes", "no"}]
  /\ gaveUp \in SUBSET Node
  /\ quit \in [Node -> {"none", "open", "due"}]

\* The nodes that may stand behind a verdict
YesSide == {n \in Node : ballot[n] = "yes"} \cup gaveUp
NoSide == {n \in Node : ballot[n] = "no"} \cup gaveUp

YesWon == Cardinality(YesSide) >= Positive
NoWon == Cardinality(NoSide) >= Negative

Spare == Positive + Negative - N

\* The network never approves an item on one node and declines it on another,
\* as long as fewer than Spare nodes destroyed the record they had voted with
\* (sendStartPollingNotification, emergencyBreak, downloadAndCommit): votes
\* that change sides as verdicts spread do not count twice.
Agreement ==
  Cardinality(gaveUp) < Spare =>
    ~ \E a, b \in Node : rec[a] = "APPROVED" /\ rec[b] = "DECLINED"

\* A verdict is never made of echoes: whatever was lost, repeated or delivered
\* late, enough nodes took that side of their own (or gave up) before it was
\* recorded anywhere (vote, approveAndCommit, rollback).
VerdictsAreBacked ==
  \A n \in Node :
    /\ rec[n] = "APPROVED" => YesWon
    /\ rec[n] = "DECLINED" => NoWon

\* A recorded verdict is taken back only where an emergencyBreak came between
\* the consensus and the job that records it: its rollback, scheduled besides
\* that job, destroys the record.  No other late callback does, and nothing
\* ever turns one verdict into another.
VerdictsAreFinal ==
  [][\A n \in Node : rec[n] \in IsConsensusFound =>
       \/ rec'[n] = rec[n]
       \/ rec'[n] = "UNDEFINED" /\ quit[n] = "due"]_vars

\* An item under way on a node is decided there.
ElectionsDecide ==
  \A n \in Node : proc[n] # "NONE" ~> rec[n] \in IsConsensusFound

\* No processor stays for good: each leaves node.processors, whoever it never
\* heard from (checkIfAllReceivedConsensus, isConsensusReceivedExpired).
ProcessorsLeave ==
  \A n \in Node : proc[n] # "NONE" ~> proc[n] = "NONE"

\* The node's verdict, as ItemVerdict sees it
Verdict == [n \in Node |-> IF rec[n] \in IsConsensusFound THEN rec[n] ELSE "none"]

ItemVote == INSTANCE ItemVerdict WITH verdict <- Verdict

\* With no node giving up, the election is the plain vote of ItemVerdict.
ImplementsItemVerdict == ItemVote!Spec

=============================================================================
