------------------------------- MODULE Resync -------------------------------
(***************************************************************************)
(* A node that was stopped asks the network what became of the items it    *)
(* left unfinished (jssrc/resyncprocessor.js), and settles the locks they  *)
(* hold in its ledger (the sanitation of jssrc/node.js).                   *)
(*                                                                         *)
(* The roots are transactions the node was voting on; the parts are the    *)
(* items it had locked for them.  The network's verdict on a root is fixed *)
(* and reaches the ledgers of the other nodes one by one.  "PENDING"       *)
(* stands for the three pending states, "APPROVED" for LOCKED too, where   *)
(* roots are concerned: resyncVote takes one for the other.                *)
(***************************************************************************)
EXTENDS NetConfig, FiniteSets

CONSTANTS Node,        \* the nodes of the network
          Me,          \* the node that was stopped
          Root,        \* the transactions it had not finished
          Part,        \* the items it had locked
          Owner,       \* Owner[p]: the root p is locked for
          Astray,      \* bound: the nodes whose ledgers may be wrong
          Electing,    \* bound: roots whose election goes on at this node
          MaxSanitating,  \* MAX_SANITATING_RECORDS
          MaxDisturbed,   \* bound: resyncs of a root that may be disturbed
          MaxStops     \* bound: further stops of the node

ASSUME ResyncAssumption ==
  /\ IsFiniteSet(Node) /\ Me \in Node
  /\ Root \cap Part = {} /\ Owner \in [Part -> Root]
  /\ Astray \subseteq Node \ {Me}
  /\ Electing \subseteq Root
  /\ MaxSanitating \in Nat \ {0} /\ MaxDisturbed \in Nat /\ MaxStops \in Nat

Positive == PositiveConsensus(Cardinality(Node))
Break == ResyncBreakConsensus(Cardinality(Node))

Verdict == {"APPROVED", "DECLINED", "REVOKED"}
Answers == Verdict \cup {"UNDEFINED"}
RecordState == Answers \cup {"PENDING"}

Locked == {"LOCKED", "LOCKED_FOR_CREATION", "LOCKED_FOR_CREATION_REVOKED"}
PartState == Locked \cup {"APPROVED", "REVOKED", "UNDEFINED"}

\* ResyncingItemProcessingState.  "PENDING_TO_COMMIT" is IS_COMMITTING too;
\* "NONE" is a root without a processor in resyncProcessors.
IsCommitFinished == {"COMMIT_SUCCESSFUL", "COMMIT_FAILED"}
ResyncingState == {"NONE", "WAIT_FOR_VOTES", "PENDING_TO_COMMIT"} \cup IsCommitFinished

\* The calls that the end of a resync schedules: itemSanitationTimeout and the
\* sanitateRecord it delays, itemSanitationFailed, itemSanitationDone
Call == {"timeout", "retry", "failed", "done"}

Answer == [from : Node, root : Root, state : Answers]

VARIABLES outcome,    \* outcome[r]: the network's verdict, or "UNDEFINED"
          astray,     \* the nodes whose ledgers are wrong, and stay so
          ledger,     \* ledger[n][r]: the state of r's record on node n
          row,        \* row[p]: the state of p's row in this node's ledger
          kept,       \* kept[p]: the one in the object of recordsToSanitate
          toSanitate, \* the ids of recordsToSanitate
          sanitating, \* sanitatingIds
          resyncing,  \* resyncing[r]: resyncingState of r's processor
          votes,      \* votes[r][n]: the set of resyncNodes n is in, or "none"
          answered,   \* answered[r]: obtainedAnswersFromNodes
          calls,      \* calls[r]: the calls scheduled
          net,        \* the answers under way
          disturbed,  \* disturbed[r]: resyncs requested, or ended too early
          stops       \* how often the node was stopped again

world == <<outcome, astray>>
parts == <<row, kept>>
sanitation == <<toSanitate, sanitating>>
processor == <<resyncing, votes, answered>>
counters == <<disturbed, stops>>
vars == <<world, ledger, parts, sanitation, processor, calls, net, counters>>

Unfinished(records, rows) ==
  {r \in Root : records[r] = "PENDING"} \cup {p \in Part : rows[p] \in Locked}

NoVotes == [n \in Node |-> "none"]

\* run: recordsToSanitate is what findUnfinished finds.  A root may have locked
\* a part to revoke it, to create it, or for both.
Init ==
  /\ outcome \in [Root -> Answers]
  /\ astray \in SUBSET Astray
  /\ \E wrong \in [astray -> [Root -> Answers]] :
       ledger = [n \in Node |-> [r \in Root |-> CASE n = Me -> "PENDING"
                                                  [] n \in astray -> wrong[n][r]
                                                  [] OTHER -> "UNDEFINED"]]
  /\ row \in [Part -> Locked]
  /\ kept = row
  /\ toSanitate = Unfinished(ledger[Me], row)
  /\ sanitating = {}
  /\ resyncing = [r \in Root |-> "NONE"]
  /\ votes = [r \in Root |-> NoVotes]
  /\ answered = [r \in Root |-> {}]
  /\ calls = [r \in Root |-> {}]
  /\ net = {}
  /\ disturbed = [r \in Root |-> 0]
  /\ stops = 0

-----------------------------------------------------------------------------
(***************************************************************************)
(* The votes of a resync                                                   *)
(***************************************************************************)
\* Mutant: a pending state is answered, too
ToldPending(n, r) == ledger[n][r]

\* The answer of a node with this record: a verdict, or none
Told(n, r) == IF ledger[n][r] \in Verdict THEN ledger[n][r] ELSE "UNDEFINED"

Voters(v, s) == {n \in Node : v[n] = s}

\* resyncVote: the answers of enough nodes end the poll.
IsResyncPollingFinished(v) ==
  \/ \E s \in Verdict : Cardinality(Voters(v, s)) >= Positive
  \/ Cardinality(Voters(v, "UNDEFINED")) >= Break

\* Mutant: a poll that breaks takes the verdict it heard
AnyVerdict(v) ==
  IF \E s \in Verdict : Voters(v, s) # {}
  THEN CHOOSE s \in Verdict : Voters(v, s) # {}
  ELSE "UNDEFINED"

\* The committingState: the thresholds leave one
CommittingState(v) ==
  IF \E s \in Verdict : Cardinality(Voters(v, s)) >= Positive
  THEN CHOOSE s \in Verdict : Cardinality(Voters(v, s)) >= Positive
  ELSE "UNDEFINED"

\* resyncVote, in a resync that waits for votes
ResyncVote(r, n, state) ==
  LET v == [votes[r] EXCEPT ![n] = state]
  IN  /\ votes' = [votes EXCEPT ![r] = v]
      /\ resyncing' = [resyncing EXCEPT ![r] =
           IF IsResyncPollingFinished(v) THEN "PENDING_TO_COMMIT" ELSE "WAIT_FOR_VOTES"]

\* Node.resync: a new processor starts with the node's own vote; one that waits
\* for votes asks every node again.
Resyncs(r) ==
  \/ /\ resyncing[r] = "NONE"
     /\ ResyncVote(r, Me, Told(Me, r))
     /\ UNCHANGED answered
  \/ /\ resyncing[r] = "WAIT_FOR_VOTES"
     /\ answered' = [answered EXCEPT ![r] = {}]
     /\ UNCHANGED <<resyncing, votes>>
  \/ /\ resyncing[r] \notin {"NONE", "WAIT_FOR_VOTES"}
     /\ UNCHANGED processor

\* An ItemProcessor or a client of the node asks for the resync.  Bound: while
\* the root is sanitated; later ones concern no locks.
RequestResync(r) ==
  /\ r \in toSanitate
  /\ disturbed[r] < MaxDisturbed
  /\ disturbed' = [disturbed EXCEPT ![r] = @ + 1]
  /\ Resyncs(r)
  /\ UNCHANGED <<world, ledger, parts, sanitation, calls, net, stops>>

\* pulseResync asks the nodes that have not answered, this one too; and
\* obtainResyncNotification answers with what the ledger says at that time.
\* Bound: one answer of a node to a resync is under way at a time.
AnswerResync(n, r) ==
  /\ resyncing[r] = "WAIT_FOR_VOTES"
  /\ n \notin answered[r]
  /\ ~ \E a \in net : a.from = n /\ a.root = r
  /\ net' = net \cup {[from |-> n, root |-> r, state |-> Told(n, r)]}
  /\ UNCHANGED <<world, ledger, parts, sanitation, processor, calls, counters>>

\* obtainAnswer: the first answer of a node is counted.  When the resync has
\* its result, or has ended, an answer changes nothing.
ObtainAnswer(a) ==
  /\ a \in net
  /\ net' = net \ {a}
  /\ IF resyncing[a.root] = "WAIT_FOR_VOTES" /\ a.from \notin answered[a.root]
     THEN /\ answered' = [answered EXCEPT ![a.root] = @ \cup {a.from}]
          /\ ResyncVote(a.root, a.from, a.state)
     ELSE UNCHANGED processor
  /\ UNCHANGED <<world, ledger, parts, sanitation, calls, counters>>

\* The record of the root that approve, decline or revoke makes, with force; a
\* state they refuse is left as it is, and the error is logged.
Forced(state, v) ==
  CASE v = "APPROVED" /\ state \in {"PENDING", "UNDEFINED"} -> v
    [] v = "DECLINED" /\ state \in {"PENDING", "UNDEFINED"} -> v
    [] v = "REVOKED" /\ state \in {"PENDING", "UNDEFINED", "APPROVED"} -> v
    [] OTHER -> state

\* resyncAndCommit, successful even where the record refused
ResyncAndCommit(r) ==
  /\ resyncing[r] = "PENDING_TO_COMMIT"
  /\ LET v == CommittingState(votes[r])
     IN  IF v = "UNDEFINED"
         THEN /\ resyncing' = [resyncing EXCEPT ![r] = "COMMIT_FAILED"]
              /\ UNCHANGED ledger
         ELSE /\ resyncing' = [resyncing EXCEPT ![r] = "COMMIT_SUCCESSFUL"]
              /\ ledger' = [ledger EXCEPT ![Me][r] = Forced(@, v)]
  /\ UNCHANGED <<world, parts, sanitation, votes, answered, calls, net, counters>>

\* finishFire and stopResync, after the call c was scheduled
StopResync(r, c) ==
  /\ resyncing' = [resyncing EXCEPT ![r] = "NONE"]
  /\ votes' = [votes EXCEPT ![r] = NoVotes]
  /\ answered' = [answered EXCEPT ![r] = {}]
  /\ calls' = [calls EXCEPT ![r] = @ \cup {c}]

ResyncEnded(r) ==
  /\ resyncing[r] \in IsCommitFinished
  /\ StopResync(r, IF resyncing[r] = "COMMIT_FAILED" THEN "failed" ELSE "done")
  /\ UNCHANGED <<world, ledger, parts, sanitation, net, counters>>

\* maxResyncTime is over: too early, or because no answer is left to come
ResyncExpires(r) ==
  /\ resyncing[r] = "WAIT_FOR_VOTES"
  /\ disturbed[r] < MaxDisturbed \/ answered[r] = Node
  /\ disturbed' = [disturbed EXCEPT ![r] = IF answered[r] = Node THEN @ ELSE @ + 1]
  /\ StopResync(r, "timeout")
  /\ UNCHANGED <<world, ledger, parts, sanitation, net, stops>>

-----------------------------------------------------------------------------
(***************************************************************************)
(* Sanitation                                                              *)
(***************************************************************************)

\* startSanitation takes the records that hold no lock, so many at a time.
SanitateRecord(r) ==
  /\ r \in toSanitate \ sanitating
  /\ Cardinality(sanitating \cap toSanitate) < MaxSanitating
  /\ sanitating' = (sanitating \cap toSanitate) \cup {r}
  /\ Resyncs(r)
  /\ UNCHANGED <<world, ledger, parts, toSanitate, calls, net, counters>>

\* ... and forgets the locks whose owners are gone: they stay.
OnlyLockedLeft ==
  /\ toSanitate # {}
  /\ toSanitate \cap Root = {}
  /\ toSanitate' = {}
  /\ sanitating' = {}
  /\ UNCHANGED <<world, ledger, parts, processor, calls, net, counters>>

\* Mutant: every root with a verdict is taken for approved
UnlockedByVerdict(p, state) ==
  CASE kept[p] = "LOCKED" -> IF state \in Verdict THEN "REVOKED" ELSE "APPROVED"
    [] OTHER -> IF state \in Verdict THEN "APPROVED" ELSE "UNDEFINED"

\* What becomes of a part when its root is in this state
Unlocked(p, state) ==
  CASE kept[p] = "LOCKED" -> IF state \in {"APPROVED", "REVOKED"} THEN "REVOKED" ELSE "APPROVED"
    [] OTHER -> IF state \in {"APPROVED", "REVOKED"} THEN "APPROVED" ELSE "UNDEFINED"

\* removeLocks works on the objects read when the node started, and knows two
\* of the three locks.
RemoveLocks(r, state) ==
  LET mine == {p \in Part \cap toSanitate :
                 Owner[p] = r /\ kept[p] \in {"LOCKED", "LOCKED_FOR_CREATION"}}
  IN  /\ row' = [p \in Part |-> IF p \in mine THEN Unlocked(p, state) ELSE row[p]]
      /\ kept' = [p \in Part |-> IF p \in mine THEN Unlocked(p, state) ELSE kept[p]]
      /\ toSanitate' = toSanitate \ (mine \cup {r})

Calls(r, c) ==
  /\ c \in calls[r]
  /\ UNCHANGED <<world, net, sanitating, counters>>

\* Mutant: nobody tries again
TimeoutForgets(r) ==
  /\ Calls(r, "timeout")
  /\ calls' = [calls EXCEPT ![r] = @ \ {"timeout"}]
  /\ UNCHANGED <<ledger, parts, toSanitate, processor>>

ItemSanitationTimeout(r) ==
  /\ Calls(r, "timeout")
  /\ calls' = [calls EXCEPT ![r] = (@ \ {"timeout"}) \cup (IF r \in toSanitate THEN {"retry"} ELSE {})]
  /\ UNCHANGED <<ledger, parts, toSanitate, processor>>

RetrySanitation(r) ==
  /\ Calls(r, "retry")
  /\ calls' = [calls EXCEPT ![r] = @ \ {"retry"}]
  /\ Resyncs(r)
  /\ UNCHANGED <<ledger, parts, toSanitate>>

ItemSanitationDone(r) ==
  /\ Calls(r, "done")
  /\ calls' = [calls EXCEPT ![r] = @ \ {"done"}]
  /\ IF r \in toSanitate
     THEN RemoveLocks(r, ledger[Me][r])
     ELSE UNCHANGED <<parts, toSanitate>>
  /\ UNCHANGED <<ledger, processor>>

\* Mutant: the locks of an item unknown to the network stay
FailsQuietly(r) ==
  /\ Calls(r, "failed")
  /\ calls' = [calls EXCEPT ![r] = @ \ {"failed"}]
  /\ toSanitate' = toSanitate \ {r}
  /\ ledger' = [ledger EXCEPT ![Me][r] = IF r \in toSanitate THEN "UNDEFINED" ELSE @]
  /\ UNCHANGED <<parts, processor>>

\* The record of an item unknown to the network is destroyed, and its vote
\* starts anew (ItemElection) if the item is stored.
ItemSanitationFailed(r) ==
  /\ Calls(r, "failed")
  /\ calls' = [calls EXCEPT ![r] = @ \ {"failed"}]
  /\ IF r \in toSanitate
     THEN /\ RemoveLocks(r, "UNDEFINED")
          /\ ledger' = [ledger EXCEPT ![Me][r] = "UNDEFINED"]
     ELSE UNCHANGED <<parts, toSanitate, ledger>>
  /\ UNCHANGED processor

-----------------------------------------------------------------------------
(***************************************************************************)
(* What happens meanwhile                                                  *)
(***************************************************************************)

\* The network's verdict reaches the ledger of another node.
Spread(n, r) ==
  /\ n \notin astray \cup {Me}
  /\ \/ /\ ledger[n][r] = "UNDEFINED"
        /\ outcome[r] # "UNDEFINED"
        /\ ledger' = [ledger EXCEPT ![n][r] =
             IF outcome[r] = "DECLINED" THEN "DECLINED" ELSE "APPROVED"]
     \/ /\ ledger[n][r] = "APPROVED"
        /\ outcome[r] = "REVOKED"
        /\ ledger' = [ledger EXCEPT ![n][r] = "REVOKED"]
  /\ UNCHANGED <<world, parts, sanitation, processor, calls, net, counters>>

\* A notification of another node made an ItemProcessor for the root, and it
\* ends its election here: a commit settles the rows, a refusal finds no locks
\* of its own (its check cannot take those of before the stop).
Elect(r) ==
  /\ r \in Electing
  /\ ledger[Me][r] = "PENDING"
  /\ LET mine == {p \in Part : Owner[p] = r}
     IN  \/ /\ outcome[r] \in {"APPROVED", "REVOKED"}
            /\ \A p \in mine : row[p] # "LOCKED_FOR_CREATION_REVOKED"
            /\ ledger' = [ledger EXCEPT ![Me][r] = "APPROVED"]
            /\ row' = [p \in Part |-> IF p \in mine
                                      THEN IF row[p] = "LOCKED" THEN "REVOKED" ELSE "APPROVED"
                                      ELSE row[p]]
         \/ /\ outcome[r] = "DECLINED"
            /\ ledger' = [ledger EXCEPT ![Me][r] = "DECLINED"]
            /\ UNCHANGED row
  /\ UNCHANGED <<world, kept, sanitation, processor, calls, net, counters>>

\* The node is stopped and started again: what was not in the ledger is lost.
Restart ==
  /\ stops < MaxStops
  /\ stops' = stops + 1
  /\ kept' = row
  /\ toSanitate' = Unfinished(ledger[Me], row)
  /\ sanitating' = {}
  /\ resyncing' = [r \in Root |-> "NONE"]
  /\ votes' = [r \in Root |-> NoVotes]
  /\ answered' = [r \in Root |-> {}]
  /\ calls' = [r \in Root |-> {}]
  /\ UNCHANGED <<world, ledger, row, net, disturbed>>

-----------------------------------------------------------------------------
Sanitates(r) ==
  \/ SanitateRecord(r)
  \/ ItemSanitationTimeout(r)
  \/ RetrySanitation(r)
  \/ ItemSanitationDone(r)
  \/ ItemSanitationFailed(r)

Concludes(r) == ResyncAndCommit(r) \/ ResyncEnded(r)

Next ==
  \/ \E r \in Root :
       \/ RequestResync(r)
       \/ \E n \in Node : AnswerResync(n, r) \/ Spread(n, r)
       \/ Concludes(r)
       \/ ResyncExpires(r)
       \/ Sanitates(r)
       \/ Elect(r)
  \/ \E a \in net : ObtainAnswer(a)
  \/ OnlyLockedLeft
  \/ Restart

Spec == Init /\ [][Next]_vars

(***************************************************************************)
(* Fairness.  The sanitator and the resyncer are timers, the rest is       *)
(* scheduled calls; the nodes of the network answer, and the verdict       *)
(* reaches them all.  Nobody need ask for a resync, and the node need not  *)
(* stop.                                                                   *)
(***************************************************************************)
Fairness ==
  /\ WF_vars(OnlyLockedLeft)
  /\ \A r \in Root :
       /\ WF_vars(Sanitates(r))
       /\ WF_vars(Concludes(r))
       /\ WF_vars(answered[r] = Node /\ ResyncExpires(r))
       /\ \A n \in Node :
            /\ WF_vars(Spread(n, r))
            /\ WF_vars(AnswerResync(n, r))
            /\ WF_vars(\E a \in net : a.from = n /\ a.root = r /\ ObtainAnswer(a))

FairSpec == Spec /\ Fairness

-----------------------------------------------------------------------------
TypeOK ==
  /\ outcome \in [Root -> Answers]
  /\ astray \in SUBSET Astray
  /\ ledger \in [Node -> [Root -> RecordState]]
  /\ {row, kept} \subseteq [Part -> PartState]
  /\ toSanitate \in SUBSET (Root \cup Part)
  /\ sanitating \in SUBSET Root
  /\ resyncing \in [Root -> ResyncingState]
  /\ votes \in [Root -> [Node -> Answers \cup {"none"}]]
  /\ answered \in [Root -> SUBSET Node]
  /\ calls \in [Root -> SUBSET Call]
  /\ net \in SUBSET Answer
  /\ disturbed \in [Root -> Nat]
  /\ stops \in Nat

\* What a resync saves by force is the network's verdict, or was it before the
\* item was revoked, whatever a node astray or late answers say (resyncVote,
\* resyncAndCommit).
SavedIsNetworks ==
  \A r \in Root :
    /\ ledger[Me][r] = "APPROVED" => outcome[r] \in {"APPROVED", "REVOKED"}
    /\ ledger[Me][r] \in {"DECLINED", "REVOKED"} => outcome[r] = ledger[Me][r]

\* What the network did not approve is undone here: an item locked for it goes
\* back to its owner, and one it was to create goes, once and for all, whoever
\* releases the lock and however often the node stops (removeLocks).
RefusedIsUndone ==
  [][\A p \in Part :
       outcome[Owner[p]] \in {"DECLINED", "UNDEFINED"} /\ row'[p] # row[p] =>
         \/ row[p] = "LOCKED" /\ row'[p] = "APPROVED"
         \/ row[p] = "LOCKED_FOR_CREATION" /\ row'[p] = "UNDEFINED"]_row

\* Unless the node is stopped again on the way, sanitation leaves no lock whose
\* owner is settled, but those for creation and revocation (removeLocks).
LocksAreSettled ==
  toSanitate = {} /\ stops = 0 =>
    \A p \in Part : row[p] \notin {"LOCKED", "LOCKED_FOR_CREATION"}

\* Sanitation ends, however the resyncs expire and the answers are mixed, when
\* the ledgers of the other nodes agree in the end.
SanitationEnds == astray = {} => <>[](toSanitate = {})

=============================================================================
