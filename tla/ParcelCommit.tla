---------------------------- MODULE ParcelCommit ----------------------------
(***************************************************************************)
(* A parcel on one node: the ParcelProcessor (jssrc/parcelprocessor.js)    *)
(* and the ItemProcessors of its payment and its payload, which hand each  *)
(* other the blocks of one common ledger transaction through AsyncEvents.  *)
(*                                                                         *)
(* The votes of the network are left out (ItemElection has them): a        *)
(* consensus on either item may be found at any time.  rec is what the     *)
(* ledger has committed.                                                   *)
(***************************************************************************)
EXTENDS FiniteSets

CONSTANTS Expiring,   \* bound: the items whose wait in process may time out
          GivingUp,   \* bound: the items that may end without a consensus
          Known,      \* bound: the items the ledger may have a verdict on
          TxMayFail   \* TRUE if the common transaction may fail

Item == {"payment", "payload"}

ASSUME ParcelAssumption ==
  /\ \A items \in {Expiring, GivingUp, Known} : items \subseteq Item
  /\ TxMayFail \in BOOLEAN

\* ItemProcessingState.  "FROZEN" is a DOWNLOADED payload whose check is not
\* forced yet, "ABSENT" an item that got no processor, "NONE" one removed.
Undecided == {"FROZEN", "CHECKING", "POLLING"}
IsDone == {"SENDING_CONSENSUS", "FINISHED", "NONE"}

\* The block an item hands over: what it would make of the item's record
Block == {"approve", "decline", "destroy"}
Job == {"commit", "decline", "rollback"}
BlockOf(j) == CASE j = "commit" -> "approve"
                [] j = "decline" -> "decline"
                [] j = "rollback" -> "destroy"
ResultOf(b) == CASE b = "approve" -> "APPROVED"
                 [] b = "decline" -> "DECLINED"
                 [] b = "destroy" -> "UNDEFINED"

VARIABLES stage,      \* where ParcelProcessor.process stands
          done,       \* its doneEvent was fired
          state,      \* processingState of the item processors
          removed,    \* the items whose removedEvent was fired
          checking,   \* the items whose item.check() is under way
          rec,        \* state of the items' records, "PENDING" before a verdict
          jobs,       \* downloadAndCommit and rollbackChanges, scheduled
          holding,    \* the job that holds the item's mutex, or "none"
          answer,     \* what the parcelCommitEvent that job awaits says
          itemEvent,  \* itemCommitEvent: a Block, "expired" or "unfired"
          parcelEvent,\* parcelCommitEvent: "yes", "no" or "unfired"
          consensus,  \* the network's consensus, once the node found it
          sameOrigin, \* payment and payload have the same origin
          refunded    \* history: the payload's time was over

processing == <<state, removed, checking>>
items == <<processing, rec, jobs, holding, answer, consensus>>
events == <<itemEvent, parcelEvent>>
parcel == <<stage, done, sameOrigin, refunded>>
vars == <<items, events, parcel>>

-----------------------------------------------------------------------------
\* parcelDownloaded: the items get processors, the payload's is frozen; an item
\* the ledger has a verdict on gets none.
Init ==
  /\ stage = "payment"
  /\ done = FALSE
  /\ \E known \in SUBSET Known :
       state = [i \in Item |-> CASE i \in known -> "ABSENT"
                                 [] i \notin known /\ i = "payment" -> "CHECKING"
                                 [] i \notin known /\ i = "payload" -> "FROZEN"]
  /\ removed = {}
  /\ checking = {i \in Item : state[i] = "CHECKING"}
  /\ rec = [i \in Item |-> "PENDING"]
  /\ jobs = [i \in Item |-> {}]
  /\ holding = [i \in Item |-> "none"]
  /\ answer = [i \in Item |-> "unfired"]
  /\ itemEvent = [i \in Item |-> "unfired"]
  /\ parcelEvent = [i \in Item |-> "unfired"]
  /\ consensus = [i \in Item |-> "none"]
  /\ sameOrigin \in BOOLEAN
  /\ refunded = FALSE

-----------------------------------------------------------------------------
(***************************************************************************)
(* The item processors                                                     *)
(***************************************************************************)

\* The check may outlast the election.
EndCheck(i) ==
  /\ i \in checking
  /\ checking' = checking \ {i}
  /\ state' = [state EXCEPT ![i] = IF @ = "CHECKING" THEN "POLLING" ELSE @]
  /\ UNCHANGED <<removed, rec, jobs, holding, answer, consensus, events, parcel>>

\* Mutant: vote goes on after a consensus was found
VoteGoesOn(i, c) ==
  /\ state[i] \in Undecided \cup {"GOT_CONSENSUS"}
  /\ state' = [state EXCEPT ![i] = "GOT_CONSENSUS"]
  /\ jobs' = [jobs EXCEPT ![i] = @ \cup {IF c = "yes" THEN "commit" ELSE "decline"}]
  /\ consensus' = [consensus EXCEPT ![i] = c]
  /\ UNCHANGED <<removed, checking, rec, holding, answer, events, parcel>>

\* vote finds a consensus.  The nodes that pass a payload passed its payment.
FindConsensus(i, c) ==
  /\ state[i] \in Undecided
  /\ i = "payload" /\ c = "yes" => consensus["payment"] # "no"
  /\ i = "payment" /\ c = "no" => consensus["payload"] # "yes"
  /\ state' = [state EXCEPT ![i] = "GOT_CONSENSUS"]
  /\ jobs' = [jobs EXCEPT ![i] = @ \cup {IF c = "yes" THEN "commit" ELSE "decline"}]
  /\ consensus' = [consensus EXCEPT ![i] = c]
  /\ UNCHANGED <<removed, checking, rec, holding, answer, events, parcel>>

\* An item enters processing state s; "NONE" is forceRemoveSelf.
Enter(i, s) ==
  /\ state' = [state EXCEPT ![i] = s]
  /\ removed' = IF s = "NONE" THEN removed \cup {i} ELSE removed

\* emergencyBreak: a processor that was done before is removed, another rolls
\* back, besides what it has scheduled, and counts as FINISHED meanwhile.
EmergencyBreak(i) ==
  \/ state[i] \in IsDone /\ Enter(i, "NONE") /\ UNCHANGED jobs
  \/ /\ state[i] \notin IsDone
     /\ Enter(i, "FINISHED")
     /\ jobs' = [jobs EXCEPT ![i] = @ \cup {"rollback"}]

\* The check runs out of quanta, before or after a consensus was found.
CheckBreaks(i) ==
  /\ i \in GivingUp
  /\ i \in checking
  /\ checking' = checking \ {i}
  /\ EmergencyBreak(i)
  /\ UNCHANGED <<rec, holding, answer, consensus, events, parcel>>

PollingExpires(i) ==
  /\ i \in GivingUp
  /\ state[i] = "POLLING"
  /\ state' = [state EXCEPT ![i] = "GOT_CONSENSUS"]
  /\ jobs' = [jobs EXCEPT ![i] = @ \cup {"rollback"}]
  /\ UNCHANGED <<removed, checking, rec, holding, answer, consensus, events, parcel>>

\* downloadAndCommit or rollbackChanges, in the mutex: the block is handed to
\* the parcel, and its answer awaited.
StartJob(i, j) ==
  /\ j \in jobs[i]
  /\ holding[i] = "none"
  /\ jobs' = [jobs EXCEPT ![i] = @ \ {j}]
  /\ holding' = [holding EXCEPT ![i] = j]
  /\ itemEvent' = [itemEvent EXCEPT ![i] = BlockOf(j)]
  /\ answer' = [answer EXCEPT ![i] = parcelEvent[i]]
  /\ UNCHANGED <<processing, rec, parcelEvent, consensus, parcel>>

\* ... and when it has come, whatever it is, close: the processor is removed if
\* it has heard from every node, and sends its consensus if not.
EndJob(i) ==
  /\ holding[i] # "none"
  /\ answer[i] # "unfired"
  /\ holding' = [holding EXCEPT ![i] = "none"]
  /\ \E s \in {"SENDING_CONSENSUS", "NONE"} : Enter(i, s)
  /\ UNCHANGED <<checking, rec, jobs, answer, consensus, events, parcel>>

\* Every node was heard from, or the time for it is over.
LeaveItem(i) ==
  /\ state[i] = "SENDING_CONSENSUS"
  /\ Enter(i, "NONE")
  /\ UNCHANGED <<checking, rec, jobs, holding, answer, consensus, events, parcel>>

-----------------------------------------------------------------------------
(***************************************************************************)
(* ParcelProcessor.process, from await to await                            *)
(***************************************************************************)

Ready(i) == itemEvent[i] \in Block

Processor(i) == state[i] # "ABSENT"

\* An error ends process: the waiters are told, nothing else is done.
Fails(s) ==
  /\ stage' = s
  /\ done' = TRUE
  /\ UNCHANGED <<sameOrigin, refunded>>

GoTo(s) ==
  /\ stage' = s
  /\ UNCHANGED <<done, sameOrigin, refunded>>

\* process meets an item without a processor.
MissesProcessor ==
  /\ \/ stage = "payment" /\ ~Processor("payment")
     \/ stage = "payment" /\ Ready("payment") /\ ~Processor("payload")
  /\ Fails("abandoned")
  /\ UNCHANGED <<items, events>>

\* The payment's block is there: an approval lets the payload be checked.
PaymentAccepted ==
  /\ stage = "payment"
  /\ Ready("payment") /\ itemEvent["payment"] = "approve"
  /\ Processor("payload")
  /\ IF sameOrigin
     THEN EmergencyBreak("payload") /\ UNCHANGED checking
     ELSE /\ state' = [state EXCEPT !["payload"] = IF @ = "FROZEN" THEN "CHECKING" ELSE @]
          /\ checking' = checking \cup {i \in {"payload"} : state[i] = "FROZEN"}
          /\ UNCHANGED <<removed, jobs>>
  /\ GoTo("payload")
  /\ UNCHANGED <<rec, holding, answer, consensus, events>>

PaymentRefused ==
  /\ stage = "payment"
  /\ Ready("payment") /\ itemEvent["payment"] # "approve"
  /\ Processor("payload")
  /\ EmergencyBreak("payload")
  /\ GoTo("break")
  /\ UNCHANGED <<checking, rec, holding, answer, consensus, events>>

\* maxWaitingItemOfParcel is over: the payment is broken, and the same event,
\* whose promise was just rejected, is awaited again.
PaymentExpires ==
  /\ stage = "payment"
  /\ "payment" \in Expiring
  /\ Processor("payment")
  /\ itemEvent["payment"] = "unfired"
  /\ itemEvent' = [itemEvent EXCEPT !["payment"] = "expired"]
  /\ EmergencyBreak("payment")
  /\ Fails("abandoned")
  /\ UNCHANGED <<checking, rec, holding, answer, consensus, parcelEvent>>

PayloadReady ==
  /\ stage = "payload"
  /\ Ready("payload")
  /\ GoTo("commit")
  /\ UNCHANGED <<items, events>>

\* Mutants: the payment's itemCommitEvent is not made anew, or the payment is
\* not rolled back
Expires(awaited, undo) ==
  /\ stage = "payload"
  /\ "payload" \in Expiring
  /\ itemEvent["payload"] = "unfired"
  /\ answer' = [answer EXCEPT !["payment"] = IF @ = "unfired" THEN "no" ELSE @]
  /\ itemEvent' = [itemEvent EXCEPT !["payment"] = awaited]
  /\ parcelEvent' = [parcelEvent EXCEPT !["payment"] = "unfired"]
  /\ jobs' = [jobs EXCEPT !["payment"] = @ \cup undo]
  /\ stage' = "undo"
  /\ refunded' = TRUE
  /\ UNCHANGED <<processing, rec, holding, consensus, done, sameOrigin>>
KeepsOldBlock == Expires(itemEvent["payment"], {"decline"})
ForgetsRollback == Expires("unfired", {})

\* maxWaitingItemOfParcel is over: the payment's commit is refused, the events
\* are made anew, and the payment is declined instead.
PayloadExpires ==
  /\ stage = "payload"
  /\ "payload" \in Expiring
  /\ itemEvent["payload"] = "unfired"
  /\ answer' = [answer EXCEPT !["payment"] = IF @ = "unfired" THEN "no" ELSE @]
  /\ itemEvent' = [i \in Item |-> "unfired"]
  /\ parcelEvent' = [parcelEvent EXCEPT !["payment"] = "unfired"]
  /\ jobs' = [jobs EXCEPT !["payment"] = @ \cup {"decline"}]
  /\ stage' = "undo"
  /\ refunded' = TRUE
  /\ UNCHANGED <<processing, rec, holding, consensus, done, sameOrigin>>

PaymentUndone ==
  /\ stage = "undo"
  /\ Ready("payment")
  /\ EmergencyBreak("payload")
  /\ GoTo("break")
  /\ UNCHANGED <<checking, rec, holding, answer, consensus, events>>

PayloadBroken ==
  /\ stage = "break"
  /\ Ready("payload")
  /\ GoTo("commit")
  /\ UNCHANGED <<items, events>>

\* Both parcelCommitEvents are fired: the jobs that await them hear one answer,
\* those that come later read the last one.
Fire(heard, last) ==
  /\ parcelEvent' = [i \in Item |-> last]
  /\ answer' = [i \in Item |-> IF holding[i] # "none" THEN heard ELSE answer[i]]
  /\ UNCHANGED itemEvent

CommitBoth ==
  /\ stage = "commit"
  /\ rec' = [i \in Item |-> ResultOf(itemEvent[i])]
  /\ Fire("yes", "yes")
  /\ GoTo("results")
  /\ UNCHANGED <<processing, jobs, holding, consensus>>

\* Mutant: the items are not told that the transaction failed
FailsSilently ==
  /\ stage = "commit"
  /\ TxMayFail
  /\ Fails("gone")
  /\ UNCHANGED <<items, events>>

\* A block fails; or the commit does, when the items were told already.
CommitFails ==
  /\ stage = "commit"
  /\ TxMayFail
  /\ \E heard \in {"yes", "no"} : Fire(heard, "no")
  /\ Fails("gone")
  /\ UNCHANGED <<processing, rec, jobs, holding, consensus>>

\* The removal of an item that is not FINISHED yet is awaited.
Stays(i) == state[i] \notin {"FINISHED", "NONE"}

AfterPayment == IF Stays("payload") THEN "payload leaves" ELSE "gone"

\* Both items are done: the waiters are told.
Finish ==
  /\ stage = "results"
  /\ \A i \in Item : state[i] \in IsDone
  /\ stage' = IF Stays("payment") THEN "payment leaves" ELSE AfterPayment
  /\ done' = TRUE
  /\ UNCHANGED <<sameOrigin, refunded, items, events>>

PaymentLeaves ==
  /\ stage = "payment leaves"
  /\ "payment" \in removed
  /\ GoTo(AfterPayment)
  /\ UNCHANGED <<items, events>>

PayloadLeaves ==
  /\ stage = "payload leaves"
  /\ "payload" \in removed
  /\ GoTo("gone")
  /\ UNCHANGED <<items, events>>

-----------------------------------------------------------------------------
Process ==
  \/ MissesProcessor
  \/ PaymentAccepted
  \/ PaymentRefused
  \/ PayloadReady
  \/ PaymentUndone
  \/ PayloadBroken
  \/ CommitBoth
  \/ CommitFails
  \/ Finish
  \/ PaymentLeaves
  \/ PayloadLeaves

Works(i) ==
  \/ EndCheck(i)
  \/ \E j \in Job : StartJob(i, j)
  \/ EndJob(i)
  \/ LeaveItem(i)

Next ==
  \/ Process
  \/ PaymentExpires
  \/ PayloadExpires
  \/ \E i \in Item :
       \/ Works(i)
       \/ \E c \in {"yes", "no"} : FindConsensus(i, c)
       \/ CheckBreaks(i)
       \/ PollingExpires(i)

Spec == Init /\ [][Next]_vars

(***************************************************************************)
(* Fairness.  The event loop runs every continuation and every scheduled   *)
(* job whose mutex is free; a mutex is taken by turns (the waiters of Lock *)
(* look again whenever it is released); and an election ends: with a       *)
(* consensus, or when its time is over.                                    *)
(***************************************************************************)
ElectionEnds(i) ==
  \/ \E c \in {"yes", "no"} : FindConsensus(i, c)
  \/ PollingExpires(i)

Fairness ==
  /\ WF_vars(Process)
  /\ \A i \in Item :
       /\ WF_vars(EndCheck(i))
       /\ \A j \in Job : SF_vars(StartJob(i, j))
       /\ WF_vars(EndJob(i))
       /\ WF_vars(LeaveItem(i))
       /\ WF_vars(state[i] = "POLLING" /\ ElectionEnds(i))

FairSpec == Spec /\ Fairness

-----------------------------------------------------------------------------
\* "if payment is ok, process payload" (the comment in process): no payload is
\* approved whose payment is not.
PayloadIsPaid == rec["payload"] = "APPROVED" => rec["payment"] = "APPROVED"

\* A client whose payload ran out of time is not charged, although the payment
\* was approved by the network and its block handed over (process, 164-176).
ExpiredIsNotCharged == refunded => rec["payment"] # "APPROVED"

\* No record is settled against a consensus the node itself found, except for a
\* payment that is refunded: what late jobs and second blocks leave in the
\* events never reaches the transaction in its place.
SettledAsVoted ==
  \A i \in Item :
    /\ consensus[i] = "no" => rec[i] # "APPROVED"
    /\ consensus[i] = "yes" /\ rec[i] = "DECLINED" => i = "payment" /\ refunded

\* No parcel stays for good: process never awaits an event nobody will fire.
ParcelsEnd == <>(stage \in {"gone", "abandoned"})

\* No item processor waits for good for the parcel's answer, its mutex held,
\* and none stays frozen, unless process abandoned the parcel: an item had no
\* processor, or the payment's time was over.
ItemsLeave ==
  \A i \in Item :
    <>[](stage = "abandoned" \/ (state[i] = "NONE" /\ holding[i] = "none"))

=============================================================================
