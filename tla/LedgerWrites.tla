---------------------------- MODULE LedgerWrites ----------------------------
(***************************************************************************)
(* Who waits for whom when transactions create items: the node's lock of   *)
(* an item (jslib/lock.js), the buffer in which findOrCreate gathers the   *)
(* inserts of several checks into one statement (jssrc/ledger.js), and the *)
(* database transactions of commits and rollbacks (jssrc/itemprocessor.js),*)
(* whose rows nobody else can write until they end.                        *)
(*                                                                         *)
(* ItemLocks has what the locks mean, with a findOrCreate and a database   *)
(* transaction as one step each; here each is the steps it waits between.  *)
(* Revoked items, the root's own record and the ledger's cache are left    *)
(* out, new items of new items are taken with the rest, and no statement   *)
(* fails.                                                                  *)
(***************************************************************************)
EXTENDS Integers, FiniteSets

CONSTANTS Item,     \* the items that transactions create
          Tx,       \* the transactions
          Nobody,
          News,     \* News[t]: the newItems of t
          Early     \* bound: what the network may approve before this node

ASSUME WritesAssumption ==
  /\ Nobody \notin Tx
  /\ News \in [Tx -> SUBSET Item]
  /\ Early \subseteq Tx

\* The network does not approve two transactions that create the same item.
Conflict(t, u) == t # u /\ News[t] \cap News[u] # {}

\* by is the transaction that inserted the row: a row deleted and inserted
\* anew is another one.
Row == [state : {"PENDING", "LOCKED_FOR_CREATION", "APPROVED"}, by : Tx]
NoRow == [state |-> "UNDEFINED", by |-> Nobody]
PendingFor(t) == [state |-> "PENDING", by |-> t]
LockedFor(t) == [state |-> "LOCKED_FOR_CREATION", by |-> t]

VARIABLES row,      \* row[i]: the row of i, committed or not
          written,  \* written[t]: items whose rows t's open transaction wrote
          lock,     \* lock[i]: who is in node.lock.synchronize(i), or Nobody
          buffer,   \* bufParams.findOrCreate_insert.buf: items to insert
          batches,  \* the inserts sent to the database, sets of items
          step,     \* step[t]: where t's processor is
          todo,     \* todo[t]: the items this step has still to visit
          found,    \* found[t]: the rows t's commit read
          held,     \* held[t]: lockedToCreate
          failed,   \* failed[t]: the check found errors
          verdict   \* verdict[t]: what the election came to

database == <<row, written>>
buffered == <<buffer, batches>>
processor == <<step, todo, found, held, failed>>
vars == <<database, lock, buffered, processor, verdict>>

\* The processor has a transaction open.
Open == {"commit", "approve", "rollback"}

\* "check" is between two items; "insert" in findOrCreate of one, "created" or
\* "existed" once it has answered.
Step == Open \cup {"check", "insert", "created", "existed", "done"}

Init ==
  /\ row = [i \in Item |-> NoRow]
  /\ written = [t \in Tx |-> {}]
  /\ lock = [i \in Item |-> Nobody]
  /\ buffer = {} /\ batches = {}
  /\ step = [t \in Tx |-> "check"]
  /\ todo = News
  /\ found = [t \in Tx |-> [i \in Item |-> NoRow]]
  /\ held = [t \in Tx |-> {}]
  /\ failed = [t \in Tx |-> FALSE]
  /\ verdict = [t \in Tx |-> "none"]

-----------------------------------------------------------------------------
Goto(t, s) == step' = [step EXCEPT ![t] = s]

\* Lock.synchronize: its caller awaits until the item is free, and frees it
\* when the block is through, failed or not.
Enter(t, i) ==
  /\ i \in todo[t]
  /\ lock[i] = Nobody
  /\ lock' = [lock EXCEPT ![i] = t]
  /\ todo' = [todo EXCEPT ![t] = @ \ {i}]

Leave(t, i) == lock[i] = t /\ lock' = [lock EXCEPT ![i] = Nobody]

InNone(t) == \A i \in Item : lock[i] # t

\* The database lets t write these rows: no other open transaction wrote them.
Writable(t, items) == \A u \in Tx \ {t} : written[u] \cap items = {}

-----------------------------------------------------------------------------
(***************************************************************************)
(* The check of new items.                                                 *)
(***************************************************************************)

\* checkNewsOf takes the item's lock, and findOrCreate puts it in the buffer.
CheckItem(t, i) ==
  /\ step[t] = "check"
  /\ Enter(t, i)
  /\ buffer' = buffer \cup {i}
  /\ Goto(t, "insert")
  /\ UNCHANGED <<database, batches, found, held, failed, verdict>>

\* The buffer is full or the timer fires.
SendBatch ==
  /\ buffer # {}
  /\ batches' = batches \cup {buffer}
  /\ buffer' = {}
  /\ UNCHANGED <<database, lock, processor, verdict>>

\* INSERT ... ON CONFLICT (hash) DO NOTHING of a batch: one statement, which
\* waits for every transaction that wrote one of its rows.  The select that
\* follows reads the same row: its reader has the item's lock.
InsertBatch(b) ==
  /\ b \in batches
  /\ Writable(Nobody, b)
  /\ batches' = batches \ {b}
  /\ row' = [i \in Item |-> IF i \in b /\ row[i] = NoRow THEN LockedFor(lock[i]) ELSE row[i]]
  /\ step' = [t \in Tx |->
       IF \E i \in b : lock[i] = t
       THEN IF \E i \in b : lock[i] = t /\ row[i] = NoRow THEN "created" ELSE "existed"
       ELSE step[t]]
  /\ UNCHANGED <<written, lock, buffer, todo, found, held, failed, verdict>>

\* Mutant: a row that was there is taken for a lock
HoldAny(t, i) ==
  /\ step[t] \in {"created", "existed"}
  /\ Leave(t, i)
  /\ held' = [held EXCEPT ![t] = @ \cup {i}]
  /\ Goto(t, "check")
  /\ UNCHANGED <<database, buffered, todo, found, failed, verdict>>

\* Mutant: the lock is not freed where the item is refused
HoldOrThrow(t, i) ==
  /\ step[t] \in {"created", "existed"}
  /\ lock[i] = t
  /\ Goto(t, "check")
  /\ IF step[t] = "created" /\ row[i] = LockedFor(t)
     THEN Leave(t, i) /\ held' = [held EXCEPT ![t] = @ \cup {i}] /\ UNCHANGED failed
     ELSE failed' = [failed EXCEPT ![t] = TRUE] /\ UNCHANGED <<lock, held>>
  /\ UNCHANGED <<database, buffered, todo, found, verdict>>

\* lockForCreate: only a row just created, and for t, is a lock.
HoldItem(t, i) ==
  /\ step[t] \in {"created", "existed"}
  /\ Leave(t, i)
  /\ Goto(t, "check")
  /\ IF step[t] = "created" /\ row[i] = LockedFor(t)
     THEN held' = [held EXCEPT ![t] = @ \cup {i}] /\ UNCHANGED failed
     ELSE failed' = [failed EXCEPT ![t] = TRUE] /\ UNCHANGED held
  /\ UNCHANGED <<database, buffered, todo, found, verdict>>

-----------------------------------------------------------------------------
(***************************************************************************)
(* The verdict and what follows.  A commit and a rollback run in the mutex *)
(* of the processor, which the check takes item by item: they start        *)
(* between two items, and the check ends there, for the root's record is   *)
(* PENDING no more.                                                        *)
(***************************************************************************)

\* This node votes for what it could lock, the network may approve more early.
FindVerdict(t, v) ==
  /\ verdict[t] = "none"
  /\ v = "approve" =>
       /\ t \in Early \/ (step[t] = "check" /\ todo[t] = {} /\ ~failed[t])
       /\ \A u \in Tx : Conflict(t, u) => verdict[u] # "approve"
  /\ verdict' = [verdict EXCEPT ![t] = v]
  /\ UNCHANGED <<database, lock, buffered, processor>>

StartCommit(t) ==
  /\ verdict[t] = "approve"
  /\ step[t] = "check"
  /\ Goto(t, "commit")
  /\ todo' = [todo EXCEPT ![t] = News[t]]
  /\ UNCHANGED <<database, lock, buffered, found, held, failed, verdict>>

\* arrayFindOrCreate, in the transaction, before any item's lock is taken.
FindNews(t) ==
  /\ step[t] = "commit"
  /\ Writable(t, News[t])
  /\ LET missing == {i \in News[t] : row[i] = NoRow}
         rows == [i \in Item |-> IF i \in missing THEN PendingFor(t) ELSE row[i]]
     IN  /\ row' = rows
         /\ written' = [written EXCEPT ![t] = @ \cup missing]
         /\ found' = [found EXCEPT ![t] = [i \in Item |-> IF i \in News[t] THEN rows[i] ELSE NoRow]]
  /\ Goto(t, "approve")
  /\ UNCHANGED <<lock, buffered, todo, held, failed, verdict>>

\* approve(con, ..., buffering): under the item's lock the record is approved
\* in memory, for arraySave.
EnterApproval(t, i) ==
  /\ step[t] = "approve"
  /\ InNone(t)
  /\ Enter(t, i)
  /\ UNCHANGED <<database, buffered, step, found, held, failed, verdict>>

ApproveItem(t, i) ==
  /\ step[t] = "approve"
  /\ Leave(t, i)
  /\ found' = [found EXCEPT ![t][i].state = "APPROVED"]
  /\ UNCHANGED <<database, buffered, step, todo, held, failed, verdict>>

\* arraySave updates the rows that were read, where they still are, and the
\* transaction ends.
EndCommit(t) ==
  /\ step[t] = "approve"
  /\ todo[t] = {} /\ InNone(t)
  /\ Writable(t, News[t])
  /\ row' = [i \in Item |-> IF i \in News[t] /\ row[i].by = found[t][i].by
                            THEN found[t][i] ELSE row[i]]
  /\ written' = [written EXCEPT ![t] = {}]
  /\ held' = [held EXCEPT ![t] = {}]
  /\ Goto(t, "done")
  /\ UNCHANGED <<lock, buffered, todo, found, failed, verdict>>

\* Mutant: the rollback does not take the processor's mutex
StartRollbackAnyway(t) ==
  /\ verdict[t] = "reject"
  /\ step[t] \in {"check", "insert"}
  /\ Goto(t, "rollback")
  /\ todo' = [todo EXCEPT ![t] = held[t]]
  /\ UNCHANGED <<database, lock, buffered, found, held, failed, verdict>>

StartRollback(t) ==
  /\ verdict[t] = "reject"
  /\ step[t] = "check"
  /\ Goto(t, "rollback")
  /\ todo' = [todo EXCEPT ![t] = held[t]]
  /\ UNCHANGED <<database, lock, buffered, found, held, failed, verdict>>

\* The locks of all its items are asked for at once (Promise.all).
EnterUnlock(t, i) ==
  /\ step[t] = "rollback"
  /\ Enter(t, i)
  /\ UNCHANGED <<database, buffered, step, found, held, failed, verdict>>

\* Mutant: the row is saved with the record's new state instead of deleted
UnlockedRowStays(t, i) ==
  /\ step[t] = "rollback"
  /\ Leave(t, i)
  /\ Writable(t, {i})
  /\ row' = [row EXCEPT ![i].state = "UNDEFINED"]
  /\ written' = [written EXCEPT ![t] = @ \cup {i}]
  /\ UNCHANGED <<buffered, processor, verdict>>

\* unlock of a record LOCKED_FOR_CREATION deletes its row in the transaction.
UnlockItem(t, i) ==
  /\ step[t] = "rollback"
  /\ Leave(t, i)
  /\ Writable(t, {i})
  /\ row' = [row EXCEPT ![i] = IF @.by = t THEN NoRow ELSE @]
  /\ written' = [written EXCEPT ![t] = @ \cup {i}]
  /\ UNCHANGED <<buffered, processor, verdict>>

EndRollback(t) ==
  /\ step[t] = "rollback"
  /\ todo[t] = {} /\ InNone(t)
  /\ written' = [written EXCEPT ![t] = {}]
  /\ held' = [held EXCEPT ![t] = {}]
  /\ Goto(t, "done")
  /\ UNCHANGED <<row, lock, buffered, todo, found, failed, verdict>>

-----------------------------------------------------------------------------
Visit(t, i) ==
  \/ CheckItem(t, i) \/ HoldItem(t, i)
  \/ EnterApproval(t, i) \/ ApproveItem(t, i)
  \/ EnterUnlock(t, i) \/ UnlockItem(t, i)

Job(t) ==
  \/ StartCommit(t) \/ FindNews(t) \/ EndCommit(t)
  \/ StartRollback(t) \/ EndRollback(t)

Next ==
  \/ \E t \in Tx : Job(t) \/ (\E i \in Item : Visit(t, i)) \/ (\E v \in {"approve", "reject"} : FindVerdict(t, v))
  \/ SendBatch
  \/ \E b \in batches : InsertBatch(b)

Spec == Init /\ [][Next]_vars

\* Promises resolve, executors run their jobs, the buffer's timer fires, the
\* database answers, and an election ends, by its timeout if need be.
FairSpec ==
  /\ Spec
  /\ WF_vars(SendBatch)
  /\ \A b \in SUBSET Item : WF_vars(InsertBatch(b))
  /\ \A t \in Tx :
       /\ WF_vars(Job(t))
       /\ WF_vars(\E v \in {"approve", "reject"} : FindVerdict(t, v))
       /\ \A i \in Item : WF_vars(Visit(t, i))

-----------------------------------------------------------------------------
(***************************************************************************)
(* Properties.                                                             *)
(***************************************************************************)

\* The type invariant: rows of Ledger's table, node.lock, the insert buffer and
\* what each ItemProcessor keeps.
TypeOK ==
  /\ row \in [Item -> Row \cup {NoRow}]
  /\ written \in [Tx -> SUBSET Item]
  /\ lock \in [Item -> Tx \cup {Nobody}]
  /\ buffer \subseteq Item /\ batches \subseteq SUBSET Item
  /\ step \in [Tx -> Step]
  /\ todo \in [Tx -> SUBSET Item]
  /\ found \in [Tx -> [Item -> Row \cup {NoRow}]]
  /\ held \in [Tx -> SUBSET Item]
  /\ failed \in [Tx -> BOOLEAN]
  /\ verdict \in [Tx -> {"none", "approve", "reject"}]

\* Once rollbackChanges is through, no row its transaction inserted is left, not
\* even by an insert that was waiting in the buffer when the verdict came.
NothingIsLeft ==
  \A t \in Tx : step[t] = "done" /\ verdict[t] = "reject" => \A i \in Item : row[i].by # t

\* t was approved over this node's head: before the node could lock its items
\* itself, while another transaction may create the same ones.
Overtaken(t) == t \in Early /\ \E u \in Tx : Conflict(t, u)

\* Once downloadAndCommit is through, every new item of the transaction is
\* APPROVED in the ledger.  The exception is a row that the commit found (733)
\* and another transaction had inserted, which only the commit of a transaction
\* approved over the node's head does: its approval is one of the other's
\* record, and goes with the other's rollback.
CommitIsWhole ==
  \A t \in Tx : step[t] = "done" /\ verdict[t] = "approve" =>
    \A i \in News[t] :
      \/ row[i].state = "APPROVED"
      \/ Overtaken(t) /\ found[t][i].by # t

\* Every transaction is committed or rolled back: nobody waits for good for a
\* node.lock, a batch of findOrCreate or a row of an open transaction.  Unless a
\* transaction is approved over this node's head: see ChecksReturn.
AllSettle ==
  \A t \in Tx : <>(step[t] = "done" \/ \E u \in Tx : verdict[u] = "approve" /\ Overtaken(u))

\* findOrCreate of lockForCreate returns a record, found or created.
ChecksReturn == \A t \in Tx : step[t] = "insert" ~> step[t] # "insert"
=============================================================================
