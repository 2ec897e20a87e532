------------------------- MODULE LedgerWritesProofs -------------------------
(***************************************************************************)
(* Proofs about LedgerWrites, for any number of items and transactions.    *)
(***************************************************************************)
EXTENDS LedgerWrites, TLAPS

Asking == {"insert", "created", "existed"}
Checking == Asking \cup {"check"}

-----------------------------------------------------------------------------
(***************************************************************************)
(* Types, and who waits in the insert buffer                               *)
(***************************************************************************)

\* Whatever is to be inserted has a check that waits for it under the item's
\* lock, and is to be inserted once.
Queued(i) == lock[i] \in Tx /\ step[lock[i]] = "insert"

Queue ==
  /\ \A i \in buffer : Queued(i)
  /\ \A b \in batches : b \cap buffer = {} /\ \A i \in b : Queued(i)
  /\ \A b, c \in batches : b # c => b \cap c = {}

\* An asking or approving transaction has one lock, others have none, and a
\* rollback may have them all; what is locked is a new item and visited.
Locks ==
  /\ \A t \in Tx, i, j \in Item :
       step[t] \in Asking \cup {"approve"} /\ lock[i] = t /\ lock[j] = t => i = j
  /\ \A t \in Tx, i \in Item : step[t] \in {"check", "commit", "done"} => lock[i] # t
  /\ \A t \in Tx, i \in Item : lock[i] = t => i \in News[t] /\ i \notin todo[t]
  /\ \A t \in Tx : todo[t] \subseteq News[t] /\ held[t] \subseteq News[t]

\* A commit has a record of each new item, found or inserted.
Reads == \A t \in Tx : step[t] = "approve" => \A i \in News[t] : found[t][i] \in Row

Base == TypeOK /\ Queue /\ Locks /\ Reads

LEMMA RowTypes ==
  /\ \A t \in Tx : PendingFor(t) \in Row /\ LockedFor(t) \in Row
  /\ \A t \in Tx : PendingFor(t).by = t /\ LockedFor(t).by = t
  /\ NoRow.by = Nobody /\ NoRow.state = "UNDEFINED"
  /\ \A r \in Row : r.by \in Tx /\ r # NoRow /\ r.by # Nobody
BY WritesAssumption DEF PendingFor, LockedFor, NoRow, Row

LEMMA InitBase == ASSUME Init PROVE Base
<1>1. TypeOK
  BY WritesAssumption DEF Init, TypeOK, Step
<1>2. Queue
  BY DEF Init, Queue
<1>3. Locks /\ Reads
  BY WritesAssumption DEF Init, Locks, Asking, Reads
<1> QED
  BY <1>1, <1>2, <1>3 DEF Base

\* The steps one by one: the type, then the queue, then the locks.
LEMMA CheckItemBase ==
  ASSUME Base, NEW t \in Tx, NEW i \in Item, CheckItem(t, i)
  PROVE  Base'
<1>1. /\ \A j \in Item : lock'[j] = IF j = i THEN t ELSE lock[j]
      /\ \A u \in Tx : step'[u] = IF u = t THEN "insert" ELSE step[u]
      /\ \A u \in Tx : todo'[u] = IF u = t THEN todo[t] \ {i} ELSE todo[u]
      /\ lock[i] = Nobody /\ step[t] = "check" /\ i \in todo[t]
      /\ buffer' = buffer \cup {i} /\ UNCHANGED <<batches, held>>
  BY DEF CheckItem, Enter, Goto, Base, TypeOK
<1>2. TypeOK'
  BY DEF CheckItem, Enter, Goto, Base, TypeOK, database, Step
<1>3. buffer \subseteq Item /\ batches \subseteq SUBSET Item
  BY DEF Base, TypeOK
<1>4. \A j \in Item : Queued(j) => j # i /\ Queued(j)'
  BY <1>1, WritesAssumption DEF Queued
<1>5. Queued(i)'
  BY <1>1 DEF Queued
<1>6. Queue'
  BY <1>1, <1>3, <1>4, <1>5 DEF Base, Queue
<1>7. Locks'
  BY <1>1 DEF Base, Locks, Asking
<1>8. Reads'
  BY <1>1 DEF CheckItem, Base, Reads
<1> QED
  BY <1>2, <1>6, <1>7, <1>8 DEF Base

LEMMA SendBatchBase == ASSUME Base, SendBatch PROVE Base'
<1>1. batches' = batches \cup {buffer} /\ buffer' = {} /\ UNCHANGED <<lock, step, todo, held>>
  BY DEF SendBatch, processor
<1>2. TypeOK'
  BY <1>1 DEF SendBatch, database, processor, Base, TypeOK
<1>3. \A j \in Item : Queued(j)' <=> Queued(j)
  BY <1>1 DEF Queued
<1>4. buffer \subseteq Item /\ batches \subseteq SUBSET Item
  BY DEF Base, TypeOK
<1>5. Queue'
  BY <1>1, <1>3, <1>4 DEF Base, Queue
<1>6. Locks'
  BY <1>1 DEF Base, Locks
<1>7. Reads'
  BY <1>1 DEF SendBatch, processor, Base, Reads
<1> QED
  BY <1>2, <1>5, <1>6, <1>7 DEF Base

\* What an insert does to each row and to each check
LEMMA InsertIs ==
  ASSUME Base, NEW b \in batches, InsertBatch(b)
  PROVE  /\ b \subseteq Item
         /\ \A i \in b : lock[i] \in Tx /\ step[lock[i]] = "insert"
         /\ \A i \in Item : row'[i] = IF i \in b /\ row[i] = NoRow THEN LockedFor(lock[i]) ELSE row[i]
         /\ \A t \in Tx, i \in b : lock[i] = t =>
              step'[t] = IF row[i] = NoRow THEN "created" ELSE "existed"
         /\ \A t \in Tx : (\A i \in b : lock[i] # t) => step'[t] = step[t]
<1>1. b \subseteq Item
  BY DEF Base, TypeOK
<1>2. \A i \in b : lock[i] \in Tx /\ step[lock[i]] = "insert"
  BY DEF Base, Queue, Queued
<1>3. \A i \in Item : row'[i] = IF i \in b /\ row[i] = NoRow THEN LockedFor(lock[i]) ELSE row[i]
  BY DEF InsertBatch
<1>4. ASSUME NEW t \in Tx, NEW i \in b, lock[i] = t
      PROVE  step'[t] = IF row[i] = NoRow THEN "created" ELSE "existed"
  <2>1. \A j \in b : lock[j] = t => j = i
    BY <1>1, <1>2, <1>4 DEF Base, Locks, Asking
  <2>2. step'[t] = IF \E j \in b : lock[j] = t /\ row[j] = NoRow THEN "created" ELSE "existed"
    BY <1>4 DEF InsertBatch
  <2> QED
    BY <1>4, <2>1, <2>2
<1>5. \A t \in Tx : (\A i \in b : lock[i] # t) => step'[t] = step[t]
  BY DEF InsertBatch
<1> QED
  BY <1>1, <1>2, <1>3, <1>4, <1>5

LEMMA InsertBatchBase ==
  ASSUME Base, NEW b \in batches, InsertBatch(b)
  PROVE  Base'
<1>1. b \subseteq Item /\ \A i \in b : lock[i] \in Tx /\ step[lock[i]] = "insert"
  BY InsertIs
<1>2. \A i \in Item : row'[i] = IF i \in b /\ row[i] = NoRow THEN LockedFor(lock[i]) ELSE row[i]
  BY InsertIs
<1>3. \A t \in Tx : \/ step[t] = "insert" /\ step'[t] \in Asking
                    \/ step'[t] = step[t]
  BY <1>1, InsertIs DEF Asking
<1>4. UNCHANGED <<written, lock, buffer, todo, found, held, failed, verdict>> /\ batches' = batches \ {b}
  BY DEF InsertBatch
<1>5. TypeOK'
  <2>1. row' \in [Item -> Row \cup {NoRow}]
    <3>1. \A i \in Item : row'[i] \in Row \cup {NoRow}
      BY <1>1, <1>2, RowTypes DEF Base, TypeOK
    <3>2. row' = [i \in Item |-> row'[i]]
      BY DEF InsertBatch
    <3> QED
      BY <3>1, <3>2
  <2>2. step' \in [Tx -> Step]
    <3>1. \A t \in Tx : step'[t] \in Step
      BY <1>3 DEF Base, TypeOK, Step, Asking
    <3>2. step' = [t \in Tx |-> step'[t]]
      BY DEF InsertBatch
    <3> QED
      BY <3>1, <3>2
  <2> QED
    BY <1>4, <2>1, <2>2 DEF Base, TypeOK
<1>6. Queue'
  <2>1. \A i \in Item : i \notin b /\ Queued(i) => Queued(i)'
    <3> SUFFICES ASSUME NEW i \in Item, i \notin b, Queued(i) PROVE Queued(i)'
      OBVIOUS
    <3>1. lock[i] \in Tx /\ step[lock[i]] = "insert"
      BY DEF Queued
    <3>2. \A j \in b : lock[j] # lock[i]
      BY <1>1, <3>1 DEF Base, Locks, Asking
    <3>3. step'[lock[i]] = step[lock[i]]
      BY <3>1, <3>2, InsertIs
    <3> QED
      BY <1>4, <3>1, <3>3 DEF Queued
  <2>2. buffer \subseteq Item /\ batches \subseteq SUBSET Item
    BY DEF Base, TypeOK
  <2> QED
    BY <1>4, <2>1, <2>2 DEF Base, Queue
<1>7. Locks'
  BY <1>3, <1>4 DEF Base, Locks, Asking
<1>8. Reads'
  BY <1>3, <1>4 DEF Base, Reads, Asking
<1> QED
  BY <1>5, <1>6, <1>7, <1>8 DEF Base

\* No other step touches what is to be inserted or who waits for it.
LEMMA QueueStays ==
  ASSUME Base, NEW t \in Tx, step[t] # "insert", UNCHANGED <<buffer, batches>>,
         \A u \in Tx : u # t => step'[u] = step[u],
         \A i \in Item : lock[i] \in Tx \ {t} => lock'[i] = lock[i]
  PROVE  Queue'
<1>1. \A i \in Item : Queued(i) => Queued(i)'
  BY DEF Queued
<1>2. buffer \subseteq Item /\ batches \subseteq SUBSET Item
  BY DEF Base, TypeOK
<1> QED
  BY <1>1, <1>2 DEF Base, Queue

\* Entering and leaving the lock of an item, pointwise
LEMMA EnterIs ==
  ASSUME Base, NEW t \in Tx, NEW i \in Item, Enter(t, i)
  PROVE  /\ \A j \in Item : lock'[j] = IF j = i THEN t ELSE lock[j]
         /\ \A u \in Tx : todo'[u] = IF u = t THEN todo[t] \ {i} ELSE todo[u]
         /\ lock[i] = Nobody /\ i \in todo[t]
         /\ lock' \in [Item -> Tx \cup {Nobody}] /\ todo' \in [Tx -> SUBSET Item]
BY DEF Enter, Base, TypeOK

LEMMA LeaveIs ==
  ASSUME Base, NEW t \in Tx, NEW i \in Item, Leave(t, i)
  PROVE  /\ \A j \in Item : lock'[j] = IF j = i THEN Nobody ELSE lock[j]
         /\ lock[i] = t
         /\ lock' \in [Item -> Tx \cup {Nobody}]
BY DEF Leave, Base, TypeOK

LEMMA GotoIs ==
  ASSUME Base, NEW t \in Tx, NEW s \in Step, Goto(t, s)
  PROVE  /\ \A u \in Tx : step'[u] = IF u = t THEN s ELSE step[u]
         /\ step' \in [Tx -> Step]
BY DEF Goto, Base, TypeOK

LEMMA HoldItemBase ==
  ASSUME Base, NEW t \in Tx, NEW i \in Item, HoldItem(t, i)
  PROVE  Base'
<1>1. Leave(t, i) /\ Goto(t, "check") /\ step[t] \in {"created", "existed"}
      /\ UNCHANGED <<row, written, buffer, batches, todo, found, verdict>>
  BY DEF HoldItem, database, buffered
<1>2. /\ \A j \in Item : lock'[j] = IF j = i THEN Nobody ELSE lock[j]
      /\ lock[i] = t /\ lock' \in [Item -> Tx \cup {Nobody}]
  BY <1>1, LeaveIs
<1>3. (\A u \in Tx : step'[u] = IF u = t THEN "check" ELSE step[u]) /\ step' \in [Tx -> Step]
  BY <1>1, GotoIs DEF Step
<1>4. \/ held' = [held EXCEPT ![t] = @ \cup {i}] /\ UNCHANGED failed
      \/ failed' = [failed EXCEPT ![t] = TRUE] /\ UNCHANGED held
  BY DEF HoldItem
<1>5. held' \in [Tx -> SUBSET Item] /\ failed' \in [Tx -> BOOLEAN]
  <2>1. held[t] \cup {i} \in SUBSET Item
    BY DEF Base, TypeOK
  <2>2. held' \in [Tx -> SUBSET Item]
    BY <1>4, <2>1 DEF Base, TypeOK
  <2> QED
    BY <1>4, <2>2 DEF Base, TypeOK
<1>6. \A u \in Tx : held'[u] = held[u] \/ (u = t /\ held'[u] = held[u] \cup {i})
  BY <1>4 DEF Base, TypeOK
<1>7. TypeOK'
  BY <1>1, <1>2, <1>3, <1>5 DEF Base, TypeOK
<1>8. Queue'
  BY <1>1, <1>2, <1>3, QueueStays
<1>9. \A j \in Item : j # i => lock[j] # t
  BY <1>1, <1>2 DEF Base, Locks, Asking
<1>10. Locks'
  BY <1>1, <1>2, <1>3, <1>6, <1>9, WritesAssumption DEF Base, Locks, Asking
<1>11. Reads'
  BY <1>1, <1>3 DEF Base, Reads
<1> QED
  BY <1>7, <1>8, <1>10, <1>11 DEF Base

LEMMA FindVerdictBase ==
  ASSUME Base, NEW t \in Tx, NEW v \in {"approve", "reject"}, FindVerdict(t, v)
  PROVE  Base'
<1>1. UNCHANGED <<row, written, lock, buffer, batches, step, todo, found, held, failed>>
  BY DEF FindVerdict, database, buffered, processor
<1>2. verdict' \in [Tx -> {"none", "approve", "reject"}]
  BY DEF FindVerdict, Base, TypeOK
<1>3. Queue' /\ Locks'
  BY <1>1 DEF Base, Queue, Queued, Locks
<1>4. Reads'
  BY <1>1 DEF Base, Reads
<1> QED
  BY <1>1, <1>2, <1>3, <1>4 DEF Base, TypeOK

LEMMA StartBase ==
  ASSUME Base, NEW t \in Tx, StartCommit(t) \/ StartRollback(t)
  PROVE  Base'
<1>1. /\ step[t] = "check" /\ UNCHANGED <<row, written, lock, buffer, batches, found, held, failed, verdict>>
      /\ Goto(t, "commit") \/ Goto(t, "rollback")
  BY DEF StartCommit, StartRollback, database, buffered
<1>2. \A u \in Tx : \/ u = t /\ step'[u] \in {"commit", "rollback"}
                    \/ u # t /\ step'[u] = step[u]
  BY <1>1, GotoIs DEF Step, Open
<1>3. step' \in [Tx -> Step]
  BY <1>1, GotoIs DEF Step, Open
<1>4. News[t] \subseteq Item /\ held[t] \subseteq News[t]
  BY WritesAssumption DEF Base, Locks
<1>5. /\ todo' \in [Tx -> SUBSET Item]
      /\ todo'[t] \subseteq News[t] /\ \A u \in Tx : u # t => todo'[u] = todo[u]
  BY <1>4 DEF StartCommit, StartRollback, Base, TypeOK
<1>6. TypeOK'
  BY <1>1, <1>3, <1>5 DEF Base, TypeOK
<1>7. Queue'
  BY <1>1, <1>2, QueueStays
<1>8. \A i \in Item : lock[i] # t
  BY <1>1 DEF Base, Locks
<1>9. Locks'
  BY <1>1, <1>2, <1>5, <1>8 DEF Base, Locks, Asking
<1>10. Reads'
  BY <1>1, <1>2 DEF Base, Reads
<1> QED
  BY <1>6, <1>7, <1>9, <1>10 DEF Base

\* What downloadAndCommit reads, and inserts where nothing is
LEMMA FindNewsIs ==
  ASSUME Base, NEW t \in Tx, FindNews(t)
  PROVE  /\ \A i \in Item : row'[i] = IF i \in News[t] /\ row[i] = NoRow THEN PendingFor(t) ELSE row[i]
         /\ \A u \in Tx, i \in Item :
              found'[u][i] = IF u # t THEN found[u][i] ELSE IF i \in News[t] THEN row'[i] ELSE NoRow
         /\ \A u \in Tx : step'[u] = IF u = t THEN "approve" ELSE step[u]
         /\ step[t] = "commit"
         /\ UNCHANGED <<lock, buffer, batches, todo, held, failed, verdict>>
<1>1. Goto(t, "approve") /\ step[t] = "commit" /\ UNCHANGED <<lock, buffer, batches, todo, held, failed, verdict>>
  BY DEF FindNews, buffered
<1>2. \A i \in Item : row'[i] = IF i \in News[t] /\ row[i] = NoRow THEN PendingFor(t) ELSE row[i]
  BY DEF FindNews
<1>3. \A u \in Tx, i \in Item :
        found'[u][i] = IF u # t THEN found[u][i] ELSE IF i \in News[t] THEN row'[i] ELSE NoRow
  BY <1>2 DEF FindNews, Base, TypeOK
<1>4. \A u \in Tx : step'[u] = IF u = t THEN "approve" ELSE step[u]
  BY <1>1, GotoIs DEF Step, Open
<1> QED
  BY <1>1, <1>2, <1>3, <1>4

LEMMA FindNewsBase ==
  ASSUME Base, NEW t \in Tx, FindNews(t)
  PROVE  Base'
<1>1. step[t] = "commit" /\ UNCHANGED <<lock, buffer, batches, todo, held, failed, verdict>>
  BY FindNewsIs
<1>2. \A u \in Tx : step'[u] = IF u = t THEN "approve" ELSE step[u]
  BY FindNewsIs
<1>3. \A i \in Item : row'[i] \in Row \cup {NoRow}
  BY FindNewsIs, RowTypes DEF Base, TypeOK
<1>4. row' \in [Item -> Row \cup {NoRow}]
  <2>1. row' = [i \in Item |-> row'[i]]
    BY DEF FindNews
  <2> QED
    BY <1>3, <2>1
<1>5. found' \in [Tx -> [Item -> Row \cup {NoRow}]]
  <2>1. [i \in Item |-> IF i \in News[t] THEN row'[i] ELSE NoRow] \in [Item -> Row \cup {NoRow}]
    BY <1>3
  <2>2. found' = [found EXCEPT ![t] = [i \in Item |-> IF i \in News[t] THEN row'[i] ELSE NoRow]]
    BY DEF FindNews
  <2> QED
    BY <2>1, <2>2 DEF Base, TypeOK
<1>6. written' \in [Tx -> SUBSET Item]
  BY WritesAssumption DEF FindNews, Base, TypeOK
<1>7. step' \in [Tx -> Step]
  BY GotoIs DEF FindNews, Step, Open
<1>8. TypeOK'
  BY <1>1, <1>4, <1>5, <1>6, <1>7 DEF Base, TypeOK
<1>9. Queue'
  BY <1>1, <1>2, QueueStays
<1>10. Locks'
  BY <1>1, <1>2 DEF Base, Locks, Asking
<1>11. Reads'
  <2>1. \A i \in News[t] : i \in Item /\ row'[i] \in Row
    <3>1. News[t] \subseteq Item /\ row \in [Item -> Row \cup {NoRow}]
      BY WritesAssumption DEF Base, TypeOK
    <3>2. \A i \in Item : row'[i] = IF i \in News[t] /\ row[i] = NoRow THEN PendingFor(t) ELSE row[i]
      BY FindNewsIs
    <3>3. PendingFor(t) \in Row
      BY RowTypes
    <3> QED
      BY <3>1, <3>2, <3>3
  <2>2. \A u \in Tx, i \in Item :
          found'[u][i] = IF u # t THEN found[u][i] ELSE IF i \in News[t] THEN row'[i] ELSE NoRow
    BY FindNewsIs
  <2>3. \A u \in Tx : News[u] \subseteq Item
    BY WritesAssumption
  <2> QED
    BY <1>2, <2>1, <2>2, <2>3 DEF Base, Reads
<1> QED
  BY <1>8, <1>9, <1>10, <1>11 DEF Base

LEMMA EnterApprovalBase ==
  ASSUME Base, NEW t \in Tx, NEW i \in Item, EnterApproval(t, i)
  PROVE  Base'
<1>1. /\ Enter(t, i) /\ step[t] = "approve" /\ \A j \in Item : lock[j] # t
      /\ UNCHANGED <<row, written, buffer, batches, step, found, held, failed, verdict>>
  BY DEF EnterApproval, InNone, database, buffered
<1>2. /\ \A j \in Item : lock'[j] = IF j = i THEN t ELSE lock[j]
      /\ \A u \in Tx : todo'[u] = IF u = t THEN todo[t] \ {i} ELSE todo[u]
      /\ lock[i] = Nobody /\ i \in todo[t]
      /\ lock' \in [Item -> Tx \cup {Nobody}] /\ todo' \in [Tx -> SUBSET Item]
  BY <1>1, EnterIs
<1>3. TypeOK'
  BY <1>1, <1>2 DEF Base, TypeOK
<1>4. Queue'
  BY <1>1, <1>2, WritesAssumption, QueueStays
<1>5. Locks'
  BY <1>1, <1>2 DEF Base, Locks, Asking
<1>6. Reads'
  BY <1>1 DEF Base, Reads
<1> QED
  BY <1>3, <1>4, <1>5, <1>6 DEF Base

\* A record approved in memory keeps the transaction that inserted its row.
LEMMA ApprovedRow ==
  \A r \in Row : LET a == [r EXCEPT !.state = "APPROVED"]
                 IN  a \in Row /\ a.by = r.by /\ a.state = "APPROVED"
BY DEF Row

LEMMA ApproveItemIs ==
  ASSUME Base, NEW t \in Tx, NEW i \in Item, ApproveItem(t, i)
  PROVE  /\ \A u \in Tx, j \in Item :
              /\ found'[u][j].by = found[u][j].by
              /\ u # t \/ j # i => found'[u][j] = found[u][j]
         /\ found'[t][i] \in Row /\ found'[t][i].state = "APPROVED"
         /\ found' \in [Tx -> [Item -> Row \cup {NoRow}]]
         /\ \A j \in Item : lock'[j] = IF j = i THEN Nobody ELSE lock[j]
         /\ lock[i] = t /\ step[t] = "approve"
         /\ UNCHANGED <<row, written, buffer, batches, step, todo, held, failed, verdict>>
<1> DEFINE a == [found[t][i] EXCEPT !.state = "APPROVED"]
<1>1. Leave(t, i) /\ step[t] = "approve"
      /\ UNCHANGED <<row, written, buffer, batches, step, todo, held, failed, verdict>>
  BY DEF ApproveItem, database, buffered
<1>2. (\A j \in Item : lock'[j] = IF j = i THEN Nobody ELSE lock[j]) /\ lock[i] = t
  BY <1>1, LeaveIs
<1>3. found[t][i] \in Row
  BY <1>1, <1>2 DEF Base, Locks, Reads
<1>4. a \in Row /\ a.by = found[t][i].by /\ a.state = "APPROVED"
  BY <1>3, ApprovedRow
<1>5. found' = [found EXCEPT ![t] = [found[t] EXCEPT ![i] = a]]
  BY DEF ApproveItem
<1> HIDE DEF a
<1>6. found' \in [Tx -> [Item -> Row \cup {NoRow}]]
  BY <1>4, <1>5 DEF Base, TypeOK
<1>7. \A u \in Tx, j \in Item : found'[u][j] = IF u = t /\ j = i THEN a ELSE found[u][j]
  BY <1>5 DEF Base, TypeOK
<1> QED
  BY <1>1, <1>2, <1>4, <1>6, <1>7

LEMMA ApproveItemBase ==
  ASSUME Base, NEW t \in Tx, NEW i \in Item, ApproveItem(t, i)
  PROVE  Base'
<1>1. /\ \A j \in Item : lock'[j] = IF j = i THEN Nobody ELSE lock[j]
      /\ lock[i] = t /\ step[t] = "approve"
      /\ UNCHANGED <<row, written, buffer, batches, step, todo, held, failed, verdict>>
      /\ found' \in [Tx -> [Item -> Row \cup {NoRow}]]
  BY ApproveItemIs
<1>2. lock' \in [Item -> Tx \cup {Nobody}]
  BY LeaveIs DEF ApproveItem
<1>3. TypeOK'
  BY <1>1, <1>2 DEF Base, TypeOK
<1>4. Queue'
  BY <1>1, QueueStays
<1>5. Locks'
  <2>1. \A u \in Tx, j \in Item : lock'[j] = u => lock[j] = u
    BY <1>1, WritesAssumption
  <2>2. UNCHANGED <<step, todo, held>>
    BY <1>1
  <2> QED
    BY <2>1, <2>2 DEF Base, Locks
<1>6. Reads'
  <2>1. \A u \in Tx, j \in Item : found'[u][j] \in Row \/ found'[u][j] = found[u][j]
    BY ApproveItemIs
  <2>2. \A u \in Tx : News[u] \subseteq Item
    BY WritesAssumption
  <2> QED
    BY <1>1, <2>1, <2>2 DEF Base, Reads
<1> QED
  BY <1>3, <1>4, <1>5, <1>6 DEF Base

LEMMA EnterUnlockBase ==
  ASSUME Base, NEW t \in Tx, NEW i \in Item, EnterUnlock(t, i)
  PROVE  Base'
<1>1. /\ Enter(t, i) /\ step[t] = "rollback"
      /\ UNCHANGED <<row, written, buffer, batches, step, found, held, failed, verdict>>
  BY DEF EnterUnlock, database, buffered
<1>2. /\ \A j \in Item : lock'[j] = IF j = i THEN t ELSE lock[j]
      /\ \A u \in Tx : todo'[u] = IF u = t THEN todo[t] \ {i} ELSE todo[u]
      /\ lock[i] = Nobody /\ i \in todo[t]
      /\ lock' \in [Item -> Tx \cup {Nobody}] /\ todo' \in [Tx -> SUBSET Item]
  BY <1>1, EnterIs
<1>3. TypeOK'
  BY <1>1, <1>2 DEF Base, TypeOK
<1>4. Queue'
  BY <1>1, <1>2, WritesAssumption, QueueStays
<1>5. Locks'
  BY <1>1, <1>2 DEF Base, Locks, Asking
<1>6. Reads'
  BY <1>1 DEF Base, Reads
<1> QED
  BY <1>3, <1>4, <1>5, <1>6 DEF Base

LEMMA UnlockItemIs ==
  ASSUME Base, NEW t \in Tx, NEW i \in Item, UnlockItem(t, i)
  PROVE  /\ \A j \in Item : row'[j] = IF j = i /\ row[j].by = t THEN NoRow ELSE row[j]
         /\ \A j \in Item : lock'[j] = IF j = i THEN Nobody ELSE lock[j]
         /\ lock[i] = t /\ step[t] = "rollback"
         /\ UNCHANGED <<buffer, batches, step, todo, found, held, failed, verdict>>
BY LeaveIs DEF UnlockItem, buffered, processor, Base, TypeOK

LEMMA UnlockItemBase ==
  ASSUME Base, NEW t \in Tx, NEW i \in Item, UnlockItem(t, i)
  PROVE  Base'
<1>1. /\ \A j \in Item : lock'[j] = IF j = i THEN Nobody ELSE lock[j]
      /\ lock[i] = t /\ step[t] = "rollback"
      /\ UNCHANGED <<buffer, batches, step, todo, found, held, failed, verdict>>
  BY UnlockItemIs
<1>2. lock' \in [Item -> Tx \cup {Nobody}]
  BY LeaveIs DEF UnlockItem
<1>3. row' \in [Item -> Row \cup {NoRow}] /\ written' \in [Tx -> SUBSET Item]
  BY DEF UnlockItem, Base, TypeOK
<1>4. TypeOK'
  BY <1>1, <1>2, <1>3 DEF Base, TypeOK
<1>5. Queue'
  BY <1>1, QueueStays
<1>6. Locks'
  BY <1>1, WritesAssumption DEF Base, Locks, Asking
<1>7. Reads'
  BY <1>1 DEF Base, Reads
<1> QED
  BY <1>4, <1>5, <1>6, <1>7 DEF Base

\* What the end of a commit writes
LEMMA EndCommitIs ==
  ASSUME Base, NEW t \in Tx, EndCommit(t)
  PROVE  /\ \A i \in Item : /\ row'[i].by = row[i].by
                            /\ row'[i] = IF i \in News[t] /\ row[i].by = found[t][i].by
                                         THEN found[t][i] ELSE row[i]
         /\ \A u \in Tx : step'[u] = IF u = t THEN "done" ELSE step[u]
         /\ \A u \in Tx : held'[u] = IF u = t THEN {} ELSE held[u]
         /\ step[t] = "approve" /\ todo[t] = {} /\ \A i \in Item : lock[i] # t
         /\ UNCHANGED <<lock, buffer, batches, todo, found, failed, verdict>>
<1>1. Goto(t, "done") /\ step[t] = "approve" /\ todo[t] = {} /\ (\A i \in Item : lock[i] # t)
      /\ UNCHANGED <<lock, buffer, batches, todo, found, failed, verdict>>
  BY DEF EndCommit, InNone, buffered
<1>2. \A i \in Item : row'[i] = IF i \in News[t] /\ row[i].by = found[t][i].by
                                THEN found[t][i] ELSE row[i]
  BY DEF EndCommit
<1>3. \A u \in Tx : step'[u] = IF u = t THEN "done" ELSE step[u]
  BY <1>1, GotoIs DEF Step
<1>4. \A u \in Tx : held'[u] = IF u = t THEN {} ELSE held[u]
  BY DEF EndCommit, Base, TypeOK
<1> QED
  BY <1>1, <1>2, <1>3, <1>4

LEMMA EndCommitBase ==
  ASSUME Base, NEW t \in Tx, EndCommit(t)
  PROVE  Base'
<1>1. /\ \A u \in Tx : step'[u] = IF u = t THEN "done" ELSE step[u]
      /\ \A u \in Tx : held'[u] = IF u = t THEN {} ELSE held[u]
      /\ step[t] = "approve" /\ todo[t] = {} /\ \A i \in Item : lock[i] # t
      /\ UNCHANGED <<lock, buffer, batches, todo, found, failed, verdict>>
  BY EndCommitIs
<1>2. row' \in [Item -> Row \cup {NoRow}]
  BY DEF EndCommit, Base, TypeOK
<1>3. written' \in [Tx -> SUBSET Item] /\ held' \in [Tx -> SUBSET Item] /\ step' \in [Tx -> Step]
  BY GotoIs DEF EndCommit, Base, TypeOK, Step
<1>4. TypeOK'
  BY <1>1, <1>2, <1>3 DEF Base, TypeOK
<1>5. Queue'
  BY <1>1, QueueStays
<1>6. Locks' /\ Reads'
  BY <1>1 DEF Base, Locks, Asking, Reads
<1> QED
  BY <1>4, <1>5, <1>6 DEF Base

LEMMA EndRollbackIs ==
  ASSUME Base, NEW t \in Tx, EndRollback(t)
  PROVE  /\ \A u \in Tx : step'[u] = IF u = t THEN "done" ELSE step[u]
         /\ \A u \in Tx : held'[u] = IF u = t THEN {} ELSE held[u]
         /\ step[t] = "rollback" /\ todo[t] = {} /\ \A i \in Item : lock[i] # t
         /\ UNCHANGED <<row, lock, buffer, batches, todo, found, failed, verdict>>
BY GotoIs DEF EndRollback, InNone, buffered, Base, TypeOK, Step

LEMMA EndRollbackBase ==
  ASSUME Base, NEW t \in Tx, EndRollback(t)
  PROVE  Base'
<1>1. /\ \A u \in Tx : step'[u] = IF u = t THEN "done" ELSE step[u]
      /\ \A u \in Tx : held'[u] = IF u = t THEN {} ELSE held[u]
      /\ step[t] = "rollback" /\ todo[t] = {} /\ \A i \in Item : lock[i] # t
      /\ UNCHANGED <<row, lock, buffer, batches, todo, found, failed, verdict>>
  BY EndRollbackIs
<1>2. written' \in [Tx -> SUBSET Item] /\ held' \in [Tx -> SUBSET Item] /\ step' \in [Tx -> Step]
  BY GotoIs DEF EndRollback, Base, TypeOK, Step
<1>3. TypeOK'
  BY <1>1, <1>2 DEF Base, TypeOK
<1>4. Queue'
  BY <1>1, QueueStays
<1>5. Locks' /\ Reads'
  BY <1>1 DEF Base, Locks, Asking, Reads
<1> QED
  BY <1>3, <1>4, <1>5 DEF Base

LEMMA StepBase == ASSUME Base, [Next]_vars PROVE Base'
<1>1. CASE UNCHANGED vars
  BY <1>1 DEF vars, database, buffered, processor, Base, TypeOK, Queue, Queued, Locks, Reads
<1>2. ASSUME NEW t \in Tx, Job(t) PROVE Base'
  BY <1>2, StartBase, FindNewsBase, EndCommitBase, EndRollbackBase DEF Job
<1>3. ASSUME NEW t \in Tx, NEW i \in Item, Visit(t, i) PROVE Base'
  BY <1>3, CheckItemBase, HoldItemBase, EnterApprovalBase, ApproveItemBase, EnterUnlockBase,
     UnlockItemBase DEF Visit
<1> QED
  BY <1>1, <1>2, <1>3, FindVerdictBase, SendBatchBase, InsertBatchBase DEF Next

LEMMA BaseAlways == Spec => []Base
<1>1. Init => Base
  BY InitBase
<1>2. Base /\ [Next]_vars => Base'
  BY StepBase
<1> QED
  BY <1>1, <1>2, PTL DEF Spec

\* The types hold (the rows of the table ledger, node.lock, the insert buffer);
\* that a row has an inserter needs that each insert has its check waiting.
THEOREM TypeCorrect == Spec => []TypeOK
<1>1. Base => TypeOK
  BY DEF Base
<1> QED
  BY <1>1, BaseAlways, PTL

-----------------------------------------------------------------------------
(***************************************************************************)
(* What a rollback leaves                                                  *)
(***************************************************************************)

\* Which steps of a processor go with which verdict
Course ==
  \A t \in Tx :
    /\ step[t] \in {"commit", "approve"} => verdict[t] = "approve"
    /\ step[t] = "commit" => todo[t] = News[t]
    /\ step[t] = "rollback" => verdict[t] = "reject"
    /\ step[t] = "done" => verdict[t] # "none"

\* The check of t is still to insert i,
Ahead(t, i) ==
  \/ step[t] \in Checking /\ i \in todo[t]
  \/ step[t] = "insert" /\ lock[i] = t

\* ... and does so once: until then no row of i is t's, nor was one read.
Once ==
  \A t \in Tx, i \in Item :
    /\ row[i].by = t => i \in News[t] /\ ~Ahead(t, i)
    /\ \A u \in Tx : found[u][i].by = t => ~Ahead(t, i)

\* A commit that read a row whose check still has the item's lock has not
\* approved it yet: it waits for the lock.
ReadsWait ==
  \A t, u \in Tx, i \in Item :
    step[u] = "approve" /\ found[u][i].by = t /\ lock[i] = t /\ step[t] \in Asking => i \in todo[u]

\* A row of t is a lock just created, or held, or what the network approved.
Kept ==
  \A t \in Tx, i \in Item : row[i].by = t =>
    \/ step[t] = "created" /\ lock[i] = t /\ row[i] = LockedFor(t)
    \/ i \in held[t] /\ step[t] # "done"
    \/ verdict[t] = "approve"

\* A rollback deletes the rows of what it held one by one.
Undone ==
  \A t \in Tx, i \in Item :
    step[t] = "rollback" /\ i \in held[t] /\ i \notin todo[t] /\ lock[i] # t => row[i].by # t

Left == Course /\ Once /\ ReadsWait /\ Kept /\ Undone

LEMMA InitLeft == ASSUME Init PROVE Left
<1>1. \A i \in Item : row[i] = NoRow /\ \A u \in Tx : found[u][i] = NoRow
  BY DEF Init
<1>2. \A t \in Tx : step[t] = "check"
  BY DEF Init
<1>3. Once /\ Kept /\ Undone
  BY <1>1, <1>2, RowTypes, WritesAssumption DEF Once, Kept, Undone
<1> QED
  BY <1>2, <1>3 DEF Left, Course, ReadsWait

\* Steps that leave the rows, and what was read of them
LEMMA RowsStay ==
  ASSUME Once, UNCHANGED row, \A u \in Tx, i \in Item : found'[u][i].by = found[u][i].by,
         \A u \in Tx, i \in Item : Ahead(u, i)' => Ahead(u, i)
  PROVE  Once'
BY DEF Once

LEMMA CheckItemLeft ==
  ASSUME Base, Left, NEW t \in Tx, NEW i \in Item, CheckItem(t, i)
  PROVE  Left'
<1>1. /\ \A j \in Item : lock'[j] = IF j = i THEN t ELSE lock[j]
      /\ \A u \in Tx : step'[u] = IF u = t THEN "insert" ELSE step[u]
      /\ \A u \in Tx : todo'[u] = IF u = t THEN todo[t] \ {i} ELSE todo[u]
      /\ lock[i] = Nobody /\ step[t] = "check" /\ i \in todo[t]
      /\ UNCHANGED <<row, found, held, verdict>>
  BY DEF CheckItem, Enter, Goto, Base, TypeOK, database
<1>2. Ahead(t, i)
  BY <1>1 DEF Ahead, Checking
<1>3. \A j \in Item : lock[j] # t
  BY <1>1 DEF Base, Locks
<1>4. \A u \in Tx, j \in Item : Ahead(u, j)' => Ahead(u, j)
  BY <1>1, <1>2, <1>3 DEF Ahead, Checking, Asking
<1>5. Course'
  BY <1>1 DEF Left, Course
<1>6. Once'
  BY <1>1, <1>4, RowsStay DEF Left
<1>7. ReadsWait'
  <2>1. \A u \in Tx : found[u][i].by = t => ~Ahead(t, i)
    BY DEF Left, Once
  <2>2. \A u \in Tx : found[u][i].by # t
    BY <1>2, <2>1
  <2> SUFFICES ASSUME NEW u \in Tx, NEW w \in Tx, NEW j \in Item, step'[w] = "approve",
                      found[w][j].by = u, lock'[j] = u, step'[u] \in Asking
               PROVE  j \in todo'[w]
    BY <1>1 DEF ReadsWait
  <2>3. w # t /\ step[w] = "approve"
    BY <1>1
  <2>4. j # i /\ lock[j] = u /\ u # t
    BY <1>1, <1>3, <2>2
  <2> QED
    BY <1>1, <2>3, <2>4 DEF Left, ReadsWait
<1>8. Kept' /\ Undone'
  BY <1>1, <1>3, WritesAssumption DEF Left, Kept, Undone
<1> QED
  BY <1>5, <1>6, <1>7, <1>8 DEF Left

LEMMA HoldItemLeft ==
  ASSUME Base, Left, NEW t \in Tx, NEW i \in Item, HoldItem(t, i)
  PROVE  Left'
<1>1. Leave(t, i) /\ Goto(t, "check") /\ step[t] \in {"created", "existed"}
      /\ UNCHANGED <<row, todo, found, verdict>>
  BY DEF HoldItem, database
<1>2. (\A j \in Item : lock'[j] = IF j = i THEN Nobody ELSE lock[j]) /\ lock[i] = t
  BY <1>1, LeaveIs
<1>3. \A u \in Tx : step'[u] = IF u = t THEN "check" ELSE step[u]
  BY <1>1, GotoIs DEF Step
<1>4. /\ \A u \in Tx : u # t => held'[u] = held[u]
      /\ held[t] \subseteq held'[t]
      /\ step[t] = "created" /\ row[i] = LockedFor(t) => i \in held'[t]
  BY DEF HoldItem, Base, TypeOK
<1>5. \A j \in Item : j # i => lock[j] # t
  BY <1>1, <1>2 DEF Base, Locks, Asking
<1>6. \A u \in Tx, j \in Item : Ahead(u, j)' => Ahead(u, j)
  BY <1>1, <1>2, <1>3, WritesAssumption DEF Ahead, Checking, Asking
<1>7. Course'
  BY <1>1, <1>3 DEF Left, Course
<1>8. Once'
  BY <1>1, <1>6, RowsStay DEF Left
<1>9. \A u \in Tx, j \in Item : lock'[j] = u => lock[j] = u
  BY <1>2, WritesAssumption
<1>10. ReadsWait'
  BY <1>1, <1>3, <1>9 DEF Left, ReadsWait, Asking
<1>11. Kept'
  <2> SUFFICES ASSUME NEW u \in Tx, NEW j \in Item, row[j].by = u
               PROVE  \/ step'[u] = "created" /\ lock'[j] = u /\ row[j] = LockedFor(u)
                      \/ j \in held'[u] /\ step'[u] # "done"
                      \/ verdict[u] = "approve"
    BY <1>1 DEF Kept
  <2>1. \/ step[u] = "created" /\ lock[j] = u /\ row[j] = LockedFor(u)
        \/ j \in held[u] /\ step[u] # "done"
        \/ verdict[u] = "approve"
    BY DEF Left, Kept
  <2>2. CASE u = t
    BY <1>2, <1>3, <1>4, <1>5, <2>1, <2>2
  <2>3. CASE u # t
    BY <1>2, <1>3, <1>4, <2>1, <2>3
  <2> QED
    BY <2>2, <2>3
<1>12. Undone'
  BY <1>1, <1>2, <1>3, <1>4 DEF Left, Undone
<1> QED
  BY <1>7, <1>8, <1>10, <1>11, <1>12 DEF Left

LEMMA SendBatchLeft == ASSUME Base, Left, SendBatch PROVE Left'
BY DEF SendBatch, database, processor, Left, Course, Once, Ahead, ReadsWait, Kept, Undone

LEMMA InsertBatchLeft ==
  ASSUME Base, Left, NEW b \in batches, InsertBatch(b)
  PROVE  Left'
<1>1. b \subseteq Item /\ \A i \in b : lock[i] \in Tx /\ step[lock[i]] = "insert"
  BY InsertIs
<1>2. \A i \in Item : row'[i] = IF i \in b /\ row[i] = NoRow THEN LockedFor(lock[i]) ELSE row[i]
  BY InsertIs
<1>3. \A t \in Tx, i \in b : lock[i] = t =>
        step'[t] = IF row[i] = NoRow THEN "created" ELSE "existed"
  BY InsertIs
<1>4. \A t \in Tx : (\A i \in b : lock[i] # t) => step'[t] = step[t]
  BY InsertIs
<1>5. UNCHANGED <<lock, todo, found, held, failed, verdict>>
  BY DEF InsertBatch
<1>6. \A t \in Tx : \/ step[t] = "insert" /\ step'[t] \in {"created", "existed"}
                    \/ step'[t] = step[t]
  BY <1>1, <1>3, <1>4
<1>7. \A t \in Tx, i \in Item : /\ Ahead(t, i)' => Ahead(t, i)
                                /\ i \in b /\ lock[i] = t => ~Ahead(t, i)'
  <2>1. \A t \in Tx, i \in Item : Ahead(t, i)' => Ahead(t, i)
    BY <1>5, <1>6 DEF Ahead, Checking, Asking
  <2>2. ASSUME NEW t \in Tx, NEW i \in b, lock[i] = t PROVE ~Ahead(t, i)'
    BY <1>1, <1>3, <1>5, <2>2 DEF Ahead, Checking, Base, Locks
  <2> QED
    BY <2>1, <2>2
<1>8. \A t \in Tx, i \in Item : row'[i].by = t => \/ row[i].by = t
                                                  \/ i \in b /\ lock[i] = t /\ row[i] = NoRow
                                                     /\ row'[i] = LockedFor(t)
  BY <1>1, <1>2, RowTypes
<1>9. Course'
  BY <1>5, <1>6 DEF Left, Course
<1>10. Once'
  BY <1>1, <1>5, <1>7, <1>8 DEF Left, Once, Base, Locks
<1>11. ReadsWait'
  BY <1>5, <1>6 DEF Left, ReadsWait, Asking
<1>12. Kept'
  <2> SUFFICES ASSUME NEW t \in Tx, NEW i \in Item, row'[i].by = t
               PROVE  \/ step'[t] = "created" /\ lock[i] = t /\ row'[i] = LockedFor(t)
                      \/ i \in held[t] /\ step'[t] # "done"
                      \/ verdict[t] = "approve"
    BY <1>5 DEF Kept
  <2>1. CASE row[i].by = t
    <3>1. row'[i] = row[i]
      BY <1>2, <2>1, RowTypes, WritesAssumption
    <3>2. \/ step[t] = "created" /\ lock[i] = t /\ row[i] = LockedFor(t)
          \/ i \in held[t] /\ step[t] # "done"
          \/ verdict[t] = "approve"
      BY <2>1 DEF Left, Kept
    <3> QED
      BY <1>6, <3>1, <3>2
  <2>2. CASE row[i].by # t
    BY <1>3, <1>8, <2>2
  <2> QED
    BY <2>1, <2>2
<1>13. Undone'
  <2> SUFFICES ASSUME NEW t \in Tx, NEW i \in Item, step'[t] = "rollback", i \in held[t],
                      i \notin todo[t], lock[i] # t
               PROVE  row'[i].by # t
    BY <1>5 DEF Undone
  <2>1. step[t] = "rollback"
    BY <1>6
  <2> QED
    BY <1>8, <2>1 DEF Left, Undone
<1> QED
  BY <1>9, <1>10, <1>11, <1>12, <1>13 DEF Left

LEMMA FindVerdictLeft ==
  ASSUME Base, Left, NEW t \in Tx, NEW v \in {"approve", "reject"}, FindVerdict(t, v)
  PROVE  Left'
<1>1. /\ UNCHANGED <<row, lock, step, todo, found, held, failed>>
      /\ verdict[t] = "none"
      /\ \A u \in Tx : verdict'[u] = IF u = t THEN v ELSE verdict[u]
  BY DEF FindVerdict, database, processor, Base, TypeOK
<1> QED
  BY <1>1 DEF Left, Course, Once, Ahead, ReadsWait, Kept, Undone

LEMMA StartLeft ==
  ASSUME Base, Left, NEW t \in Tx, StartCommit(t) \/ StartRollback(t)
  PROVE  Left'
<1>1. /\ step[t] = "check" /\ UNCHANGED <<row, lock, found, held, verdict>>
      /\ \A u \in Tx : u # t => step'[u] = step[u] /\ todo'[u] = todo[u]
  BY DEF StartCommit, StartRollback, Goto, database, Base, TypeOK
<1>2. \/ step'[t] = "commit" /\ verdict[t] = "approve" /\ todo'[t] = News[t]
      \/ step'[t] = "rollback" /\ verdict[t] = "reject" /\ todo'[t] = held[t]
  BY DEF StartCommit, StartRollback, Goto, Base, TypeOK
<1>3. \A u \in Tx, i \in Item : Ahead(u, i)' => Ahead(u, i)
  BY <1>1, <1>2 DEF Ahead, Checking, Asking
<1>4. Course'
  BY <1>1, <1>2 DEF Left, Course
<1>5. Once'
  BY <1>1, <1>3, RowsStay DEF Left
<1>6. ReadsWait'
  BY <1>1, <1>2 DEF Left, ReadsWait, Asking
<1>7. Kept' /\ Undone'
  BY <1>1, <1>2 DEF Left, Kept, Undone
<1> QED
  BY <1>4, <1>5, <1>6, <1>7 DEF Left

LEMMA FindNewsLeft ==
  ASSUME Base, Left, NEW t \in Tx, FindNews(t)
  PROVE  Left'
<1>1. \A i \in Item : row'[i] = IF i \in News[t] /\ row[i] = NoRow THEN PendingFor(t) ELSE row[i]
  BY FindNewsIs
<1>2. \A u \in Tx, i \in Item :
        found'[u][i] = IF u # t THEN found[u][i] ELSE IF i \in News[t] THEN row'[i] ELSE NoRow
  BY FindNewsIs
<1>3. /\ \A u \in Tx : step'[u] = IF u = t THEN "approve" ELSE step[u]
      /\ step[t] = "commit" /\ UNCHANGED <<lock, todo, held, verdict>>
  BY FindNewsIs
<1>4. verdict[t] = "approve" /\ todo[t] = News[t]
  BY <1>3 DEF Left, Course
<1>5. \A u \in Tx, i \in Item : row'[i].by = u => \/ row[i].by = u
                                                  \/ u = t /\ i \in News[t]
  BY <1>1, RowTypes
<1>6. \A u \in Tx, i \in Item : (Ahead(u, i)' => Ahead(u, i)) /\ ~Ahead(t, i)'
  BY <1>3 DEF Ahead, Checking, Asking
<1>7. Course'
  BY <1>3, <1>4 DEF Left, Course
<1>8. Once'
  <2>1. \A u \in Tx, i \in Item : row'[i].by = u => i \in News[u] /\ ~Ahead(u, i)'
    BY <1>5, <1>6 DEF Left, Once
  <2>2. \A u, w \in Tx, i \in Item : found'[w][i].by = u => found[w][i].by = u \/ row'[i].by = u
    BY <1>2, RowTypes, WritesAssumption
  <2>3. \A u, w \in Tx, i \in Item : found'[w][i].by = u => ~Ahead(u, i)'
    BY <1>6, <2>1, <2>2 DEF Left, Once
  <2> QED
    BY <2>1, <2>3 DEF Once
<1>9. ReadsWait'
  <2> SUFFICES ASSUME NEW u \in Tx, NEW w \in Tx, NEW i \in Item, step'[w] = "approve",
                      found'[w][i].by = u, lock[i] = u, step'[u] \in Asking
               PROVE  i \in todo[w]
    BY <1>3 DEF ReadsWait
  <2>1. u # t /\ step[u] \in Asking
    BY <1>3 DEF Asking
  <2>2. CASE w = t
    BY <1>2, <1>4, <2>2, RowTypes, WritesAssumption
  <2>3. CASE w # t
    BY <1>2, <1>3, <2>1, <2>3 DEF Left, ReadsWait
  <2> QED
    BY <2>2, <2>3
<1>10. Kept'
  <2> SUFFICES ASSUME NEW u \in Tx, NEW i \in Item, row'[i].by = u
               PROVE  \/ step'[u] = "created" /\ lock[i] = u /\ row'[i] = LockedFor(u)
                      \/ i \in held[u] /\ step'[u] # "done"
                      \/ verdict[u] = "approve"
    BY <1>3 DEF Kept
  <2>1. CASE u = t
    BY <1>4, <2>1
  <2>2. CASE u # t
    <3>1. row[i].by = u /\ row'[i] = row[i]
      BY <1>1, <2>2, RowTypes
    <3> QED
      BY <1>3, <2>2, <3>1 DEF Left, Kept
  <2> QED
    BY <2>1, <2>2
<1>11. Undone'
  BY <1>3, <1>5 DEF Left, Undone
<1> QED
  BY <1>7, <1>8, <1>9, <1>10, <1>11 DEF Left

LEMMA EnterLaterLeft ==
  ASSUME Base, Left, NEW t \in Tx, NEW i \in Item, EnterApproval(t, i) \/ EnterUnlock(t, i)
  PROVE  Left'
<1>1. /\ Enter(t, i) /\ step[t] \in {"approve", "rollback"}
      /\ UNCHANGED <<row, step, found, held, verdict>>
  BY DEF EnterApproval, EnterUnlock, database
<1>2. /\ \A j \in Item : lock'[j] = IF j = i THEN t ELSE lock[j]
      /\ \A u \in Tx : todo'[u] = IF u = t THEN todo[t] \ {i} ELSE todo[u]
      /\ lock[i] = Nobody /\ i \in todo[t]
  BY <1>1, EnterIs
<1>3. \A u \in Tx, j \in Item : Ahead(u, j)' => Ahead(u, j)
  BY <1>1, <1>2 DEF Ahead, Checking, Asking
<1>4. Course'
  BY <1>1, <1>2 DEF Left, Course
<1>5. Once'
  BY <1>1, <1>3, RowsStay DEF Left
<1>6. ReadsWait'
  BY <1>1, <1>2, WritesAssumption DEF Left, ReadsWait, Asking
<1>7. Kept' /\ Undone'
  BY <1>1, <1>2, WritesAssumption DEF Left, Kept, Undone
<1> QED
  BY <1>4, <1>5, <1>6, <1>7 DEF Left

LEMMA ApproveItemLeft ==
  ASSUME Base, Left, NEW t \in Tx, NEW i \in Item, ApproveItem(t, i)
  PROVE  Left'
<1>1. /\ \A u \in Tx, j \in Item : found'[u][j].by = found[u][j].by
      /\ \A j \in Item : lock'[j] = IF j = i THEN Nobody ELSE lock[j]
      /\ lock[i] = t /\ step[t] = "approve"
      /\ UNCHANGED <<row, step, todo, held, verdict>>
  BY ApproveItemIs
<1>2. \A u \in Tx, j \in Item : /\ lock'[j] = u => lock[j] = u
                                /\ u # t => (lock[j] = u => lock'[j] = u)
  BY <1>1, WritesAssumption
<1>3. \A u \in Tx, j \in Item : Ahead(u, j)' => Ahead(u, j)
  BY <1>1, <1>2 DEF Ahead
<1>4. Course'
  BY <1>1 DEF Left, Course
<1>5. Once'
  BY <1>1, <1>3, RowsStay DEF Left
<1>6. ReadsWait'
  BY <1>1, <1>2 DEF Left, ReadsWait
<1>7. Kept' /\ Undone'
  BY <1>1, <1>2 DEF Left, Kept, Undone
<1> QED
  BY <1>4, <1>5, <1>6, <1>7 DEF Left

LEMMA EndCommitLeft ==
  ASSUME Base, Left, NEW t \in Tx, EndCommit(t)
  PROVE  Left'
<1>1. \A i \in Item : /\ row'[i].by = row[i].by
                      /\ row'[i] = IF i \in News[t] /\ row[i].by = found[t][i].by
                                   THEN found[t][i] ELSE row[i]
  BY EndCommitIs
<1>2. /\ \A u \in Tx : step'[u] = IF u = t THEN "done" ELSE step[u]
      /\ \A u \in Tx : held'[u] = IF u = t THEN {} ELSE held[u]
      /\ step[t] = "approve" /\ todo[t] = {}
      /\ UNCHANGED <<lock, todo, found, verdict>>
  BY EndCommitIs
<1>3. verdict[t] = "approve"
  BY <1>2 DEF Left, Course
<1>4. \A u \in Tx, i \in Item : Ahead(u, i)' => Ahead(u, i)
  BY <1>2 DEF Ahead, Checking, Asking
<1>5. Course'
  BY <1>2, <1>3 DEF Left, Course
<1>6. Once'
  BY <1>1, <1>2, <1>4 DEF Left, Once
<1>7. ReadsWait'
  BY <1>2 DEF Left, ReadsWait, Asking
<1>8. Kept'
  <2> SUFFICES ASSUME NEW u \in Tx, NEW i \in Item, row'[i].by = u, u # t
               PROVE  \/ step'[u] = "created" /\ lock[i] = u /\ row'[i] = LockedFor(u)
                      \/ i \in held'[u] /\ step'[u] # "done"
                      \/ verdict[u] = "approve"
    BY <1>2, <1>3 DEF Kept
  <2>1. \/ step[u] = "created" /\ lock[i] = u /\ row[i] = LockedFor(u)
        \/ i \in held[u] /\ step[u] # "done"
        \/ verdict[u] = "approve"
    BY <1>1 DEF Left, Kept
  <2>2. step[u] = "created" /\ lock[i] = u => found[t][i].by # u
    BY <1>2 DEF Left, ReadsWait, Asking
  <2> QED
    BY <1>1, <1>2, <2>1, <2>2
<1>9. Undone'
  BY <1>1, <1>2 DEF Left, Undone
<1> QED
  BY <1>5, <1>6, <1>7, <1>8, <1>9 DEF Left

LEMMA UnlockItemLeft ==
  ASSUME Base, Left, NEW t \in Tx, NEW i \in Item, UnlockItem(t, i)
  PROVE  Left'
<1>1. /\ \A j \in Item : row'[j] = IF j = i /\ row[j].by = t THEN NoRow ELSE row[j]
      /\ \A j \in Item : lock'[j] = IF j = i THEN Nobody ELSE lock[j]
      /\ lock[i] = t /\ step[t] = "rollback"
      /\ UNCHANGED <<step, todo, found, held, verdict>>
  BY UnlockItemIs
<1>2. \A u \in Tx, j \in Item : row'[j].by = u => /\ row[j].by = u /\ row'[j] = row[j]
                                                  /\ u # t \/ j # i
  BY <1>1, RowTypes, WritesAssumption
<1>3. \A u \in Tx, j \in Item : /\ lock'[j] = u => lock[j] = u
                                /\ u # t \/ j # i => (lock[j] = u => lock'[j] = u)
  BY <1>1, WritesAssumption
<1>4. \A u \in Tx, j \in Item : Ahead(u, j)' => Ahead(u, j)
  BY <1>1, <1>3 DEF Ahead
<1>5. Course'
  BY <1>1 DEF Left, Course
<1>6. Once'
  BY <1>1, <1>2, <1>4 DEF Left, Once
<1>7. ReadsWait'
  BY <1>1, <1>3 DEF Left, ReadsWait
<1>8. Kept'
  BY <1>1, <1>2, <1>3 DEF Left, Kept
<1>9. Undone'
  <2> SUFFICES ASSUME NEW u \in Tx, NEW j \in Item, step[u] = "rollback", j \in held[u],
                      j \notin todo[u], lock'[j] # u, row'[j].by = u
               PROVE  FALSE
    BY <1>1 DEF Undone
  <2>1. row[j].by = u /\ (u # t \/ j # i)
    BY <1>2
  <2>2. lock[j] # u
    BY <1>3, <2>1
  <2> QED
    BY <2>1, <2>2 DEF Left, Undone
<1> QED
  BY <1>5, <1>6, <1>7, <1>8, <1>9 DEF Left

LEMMA EndRollbackLeft ==
  ASSUME Base, Left, NEW t \in Tx, EndRollback(t)
  PROVE  Left'
<1>1. /\ \A u \in Tx : step'[u] = IF u = t THEN "done" ELSE step[u]
      /\ \A u \in Tx : held'[u] = IF u = t THEN {} ELSE held[u]
      /\ step[t] = "rollback" /\ todo[t] = {} /\ \A i \in Item : lock[i] # t
      /\ UNCHANGED <<row, lock, todo, found, verdict>>
  BY EndRollbackIs
<1>2. verdict[t] = "reject"
  BY <1>1 DEF Left, Course
<1>3. \A i \in Item : row[i].by # t
  <2>1. \A i \in held[t] : i \in Item => row[i].by # t
    BY <1>1 DEF Left, Undone
  <2> QED
    BY <1>1, <1>2, <2>1 DEF Left, Kept
<1>4. \A u \in Tx, i \in Item : Ahead(u, i)' => Ahead(u, i)
  BY <1>1 DEF Ahead, Checking, Asking
<1>5. Course'
  BY <1>1, <1>2 DEF Left, Course
<1>6. Once'
  BY <1>1, <1>4, RowsStay DEF Left
<1>7. ReadsWait'
  BY <1>1 DEF Left, ReadsWait, Asking
<1>8. Kept' /\ Undone'
  BY <1>1, <1>3 DEF Left, Kept, Undone
<1> QED
  BY <1>5, <1>6, <1>7, <1>8 DEF Left

LEMMA StepLeft == ASSUME Base, Left, [Next]_vars PROVE Left'
<1>1. CASE UNCHANGED vars
  BY <1>1 DEF vars, database, processor, Left, Course, Once, Ahead, ReadsWait, Kept, Undone
<1>2. ASSUME NEW t \in Tx, Job(t) PROVE Left'
  BY <1>2, StartLeft, FindNewsLeft, EndCommitLeft, EndRollbackLeft DEF Job
<1>3. ASSUME NEW t \in Tx, NEW i \in Item, Visit(t, i) PROVE Left'
  BY <1>3, CheckItemLeft, HoldItemLeft, EnterLaterLeft, ApproveItemLeft, UnlockItemLeft DEF Visit
<1> QED
  BY <1>1, <1>2, <1>3, FindVerdictLeft, SendBatchLeft, InsertBatchLeft DEF Next

LEMMA LeftAlways == Spec => [](Base /\ Left)
<1>1. Init => Base /\ Left
  BY InitBase, InitLeft
<1>2. Base /\ Left /\ [Next]_vars => (Base /\ Left)'
  BY StepBase, StepLeft
<1> QED
  BY <1>1, <1>2, PTL DEF Spec

\* rollbackChanges leaves no row that its transaction inserted, whatever batch
\* the insert waited in and whoever commits the same items meanwhile.
THEOREM RollbackLeavesNothing == Spec => []NothingIsLeft
<1>1. Base /\ Left => NothingIsLeft
  BY DEF Left, Kept, NothingIsLeft
<1> QED
  BY <1>1, LeftAlways, PTL

-----------------------------------------------------------------------------
(***************************************************************************)
(* What a commit leaves                                                    *)
(***************************************************************************)

YesExclude ==
  \A t, u \in Tx : Conflict(t, u) => ~(verdict[t] = "approve" /\ verdict[u] = "approve")

\* What a transaction holds is its own row, until it rolls back.
HeldRows == \A t \in Tx : step[t] # "rollback" => \A i \in held[t] : row[i].by = t

\* A check without errors holds what it has visited.
Checked ==
  \A t \in Tx : step[t] \in Checking /\ ~failed[t] =>
    \A i \in News[t] \ todo[t] : i \in held[t] \/ lock[i] = t

\* The rows of what the network approved are its transaction's, or not there
\* yet, unless it was approved over this node's head.
Sure ==
  \A t \in Tx : verdict[t] = "approve" /\ ~Overtaken(t) =>
    \A i \in News[t] : row[i].by = t \/ (t \in Early /\ row[i] = NoRow)

\* What a commit of t found: a row of t is there until t is rolled back.
Found(t, i) ==
  /\ found[t][i].by = t => row[i].by = t
  /\ ~Overtaken(t) => found[t][i].by = t

\* A commit has read the rows, and approves them in memory one by one.
Approval ==
  \A t \in Tx : step[t] = "approve" => \A i \in News[t] :
    /\ Found(t, i)
    /\ i \notin todo[t] /\ lock[i] # t => found[t][i].state = "APPROVED"

\* Afterwards the rows of t are approved.
Committed ==
  \A t \in Tx : step[t] = "done" /\ verdict[t] = "approve" => \A i \in News[t] :
    Found(t, i) /\ (found[t][i].by = t => row[i].state = "APPROVED")

Whole == YesExclude /\ HeldRows /\ Checked /\ Sure /\ Approval /\ Committed

LEMMA NewsAreItems == \A t \in Tx : News[t] \subseteq Item
BY WritesAssumption

LEMMA InitWhole == ASSUME Init PROVE Whole
BY DEF Init, Whole, YesExclude, HeldRows, Checked, Sure, Approval, Committed

LEMMA CheckItemWhole ==
  ASSUME Base, Left, Whole, NEW t \in Tx, NEW i \in Item, CheckItem(t, i)
  PROVE  Whole'
<1>1. /\ \A j \in Item : lock'[j] = IF j = i THEN t ELSE lock[j]
      /\ \A u \in Tx : step'[u] = IF u = t THEN "insert" ELSE step[u]
      /\ \A u \in Tx : todo'[u] = IF u = t THEN todo[t] \ {i} ELSE todo[u]
      /\ lock[i] = Nobody /\ step[t] = "check" /\ i \in todo[t]
      /\ UNCHANGED <<row, found, held, failed, verdict>>
  BY DEF CheckItem, Enter, Goto, Base, TypeOK, database
<1>2. YesExclude' /\ Sure'
  BY <1>1 DEF Whole, YesExclude, Sure
<1>3. HeldRows' /\ Committed'
  BY <1>1 DEF Whole, HeldRows, Committed, Found
<1>4. Checked'
  BY <1>1, NewsAreItems, WritesAssumption DEF Whole, Checked, Checking
<1>5. Approval'
  BY <1>1, NewsAreItems, WritesAssumption DEF Whole, Approval, Found
<1> QED
  BY <1>2, <1>3, <1>4, <1>5 DEF Whole

LEMMA HoldItemWhole ==
  ASSUME Base, Left, Whole, NEW t \in Tx, NEW i \in Item, HoldItem(t, i)
  PROVE  Whole'
<1>1. Leave(t, i) /\ Goto(t, "check") /\ step[t] \in {"created", "existed"}
      /\ UNCHANGED <<row, todo, found, verdict>>
  BY DEF HoldItem, database
<1>2. (\A j \in Item : lock'[j] = IF j = i THEN Nobody ELSE lock[j]) /\ lock[i] = t
  BY <1>1, LeaveIs
<1>3. \A u \in Tx : step'[u] = IF u = t THEN "check" ELSE step[u]
  BY <1>1, GotoIs DEF Step
<1>4. \/ held'[t] = held[t] \cup {i} /\ row[i] = LockedFor(t) /\ failed'[t] = failed[t]
      \/ held'[t] = held[t] /\ failed'[t] = TRUE
  BY DEF HoldItem, Base, TypeOK
<1>5. \A u \in Tx : u # t => held'[u] = held[u] /\ failed'[u] = failed[u]
  BY DEF HoldItem, Base, TypeOK
<1>6. YesExclude' /\ Sure'
  BY <1>1 DEF Whole, YesExclude, Sure
<1>7. Committed'
  BY <1>1, <1>3 DEF Whole, Committed, Found
<1>8. HeldRows'
  BY <1>1, <1>3, <1>4, <1>5, RowTypes DEF Whole, HeldRows
<1>9. Checked'
  <2> SUFFICES ASSUME NEW u \in Tx, step'[u] \in Checking, ~failed'[u], NEW j \in News[u] \ todo[u]
               PROVE  j \in held'[u] \/ lock'[j] = u
    BY <1>1 DEF Checked
  <2>1. step[u] \in Checking /\ j \in Item
    BY <1>1, <1>3, NewsAreItems DEF Checking, Asking
  <2>2. ~failed[u]
    BY <1>4, <1>5
  <2>3. j \in held[u] \/ lock[j] = u
    BY <2>1, <2>2 DEF Whole, Checked
  <2> QED
    BY <1>2, <1>4, <1>5, <2>1, <2>3
<1>10. \A u \in Tx, j \in Item : step'[u] = "approve" => u # t /\ (lock'[j] # u => lock[j] # u)
  BY <1>2, <1>3
<1>11. Approval'
  BY <1>1, <1>3, <1>10, NewsAreItems DEF Whole, Approval, Found
<1> QED
  BY <1>6, <1>7, <1>8, <1>9, <1>11 DEF Whole

LEMMA SendBatchWhole == ASSUME Whole, SendBatch PROVE Whole'
BY DEF SendBatch, database, processor, Whole, YesExclude, HeldRows, Checked, Sure, Approval,
       Committed, Found

\* Only rows that were not there appear, of the check or the commit they are
\* for, so that what was sure stays so.
LEMMA SureStays ==
  ASSUME Base, Whole, UNCHANGED verdict,
         \A i \in Item : \/ row'[i].by = row[i].by /\ (row[i] = NoRow => row'[i] = NoRow)
                         \/ row[i] = NoRow /\ row'[i].by \in Tx /\ i \in News[row'[i].by]
  PROVE  Sure'
<1> SUFFICES ASSUME NEW t \in Tx, verdict[t] = "approve", ~Overtaken(t), NEW i \in News[t]
             PROVE  row'[i].by = t \/ (t \in Early /\ row'[i] = NoRow)
  BY DEF Sure, Overtaken
<1>1. i \in Item /\ (row[i].by = t \/ (t \in Early /\ row[i] = NoRow))
  BY NewsAreItems DEF Whole, Sure
<1>2. row[i] = NoRow => row[i].by # t
  BY RowTypes, WritesAssumption
<1>3. ASSUME t \in Early, row'[i].by \in Tx, i \in News[row'[i].by] PROVE row'[i].by = t
  BY <1>3 DEF Overtaken, Conflict
<1> QED
  BY <1>1, <1>2, <1>3

LEMMA InsertBatchWhole ==
  ASSUME Base, Left, Whole, NEW b \in batches, InsertBatch(b)
  PROVE  Whole'
<1>1. b \subseteq Item /\ \A i \in b : lock[i] \in Tx /\ step[lock[i]] = "insert"
  BY InsertIs
<1>2. \A i \in Item : row'[i] = IF i \in b /\ row[i] = NoRow THEN LockedFor(lock[i]) ELSE row[i]
  BY InsertIs
<1>3. \A t \in Tx : \/ step[t] = "insert" /\ step'[t] \in {"created", "existed"}
                    \/ step'[t] = step[t]
  BY <1>1, InsertIs
<1>4. UNCHANGED <<lock, todo, found, held, failed, verdict>>
  BY DEF InsertBatch
<1>5. \A t \in Tx, i \in Item : row[i].by = t => row'[i] = row[i]
  BY <1>2, RowTypes, WritesAssumption
<1>6. \A i \in Item : row[i].state = "APPROVED" => row'[i] = row[i]
  BY <1>2, RowTypes
<1>7. Sure'
  <2>1. \A i \in b : i \in News[lock[i]]
    BY <1>1 DEF Base, Locks
  <2>2. \A i \in Item : \/ row'[i].by = row[i].by /\ (row[i] = NoRow => row'[i] = NoRow)
                        \/ row[i] = NoRow /\ row'[i].by \in Tx /\ i \in News[row'[i].by]
    BY <1>1, <1>2, <2>1, RowTypes
  <2> QED
    BY <1>4, <2>2, SureStays
<1>8. HeldRows'
  <2>1. \A t \in Tx : held[t] \subseteq Item
    BY DEF Base, TypeOK
  <2> QED
    BY <1>3, <1>4, <1>5, <2>1 DEF Whole, HeldRows
<1>9. YesExclude' /\ Checked'
  BY <1>3, <1>4 DEF Whole, YesExclude, Checked, Checking, Asking
<1>10. Approval'
  BY <1>3, <1>4, <1>5, NewsAreItems DEF Whole, Approval, Found
<1>11. Committed'
  BY <1>3, <1>4, <1>6, NewsAreItems DEF Whole, Committed, Found
<1> QED
  BY <1>7, <1>8, <1>9, <1>10, <1>11 DEF Whole

LEMMA FindVerdictWhole ==
  ASSUME Base, Left, Whole, NEW t \in Tx, NEW v \in {"approve", "reject"}, FindVerdict(t, v)
  PROVE  Whole'
<1>1. /\ UNCHANGED <<row, lock, step, todo, found, held, failed>>
      /\ verdict[t] = "none"
      /\ \A u \in Tx : verdict'[u] = IF u = t THEN v ELSE verdict[u]
  BY DEF FindVerdict, database, processor, Base, TypeOK
<1>2. HeldRows' /\ Checked' /\ Approval'
  BY <1>1 DEF Whole, HeldRows, Checked, Approval, Found
<1>3. YesExclude'
  <2>1. v = "approve" => \A u \in Tx : Conflict(t, u) => verdict[u] # "approve"
    BY DEF FindVerdict
  <2>2. \A u, w \in Tx : (Conflict(u, w) => Conflict(w, u)) /\ (Conflict(u, w) => u # w)
    BY DEF Conflict
  <2> QED
    BY <1>1, <2>1, <2>2 DEF Whole, YesExclude
<1>4. Committed'
  <2>1. step[t] # "done"
    BY <1>1 DEF Left, Course
  <2> QED
    BY <1>1, <2>1 DEF Whole, Committed, Found
<1>5. v = "approve" /\ ~Overtaken(t) =>
        \A i \in News[t] : row[i].by = t \/ (t \in Early /\ row[i] = NoRow)
  <2> SUFFICES ASSUME v = "approve", ~Overtaken(t), NEW i \in News[t]
               PROVE  row[i].by = t \/ (t \in Early /\ row[i] = NoRow)
    OBVIOUS
  <2>1. i \in Item /\ row[i] \in Row \cup {NoRow}
    BY NewsAreItems DEF Base, TypeOK
  <2>2. CASE t \in Early
    <3>1. ASSUME row[i].by \in Tx PROVE row[i].by = t
      <4>1. i \in News[row[i].by]
        BY <2>1, <3>1 DEF Left, Once
      <4> QED
        BY <2>2, <3>1, <4>1 DEF Overtaken, Conflict
    <3> QED
      BY <2>1, <2>2, <3>1, RowTypes
  <2>3. CASE t \notin Early
    <3>1. step[t] = "check" /\ todo[t] = {} /\ ~failed[t]
      BY <2>3 DEF FindVerdict
    <3>2. i \in held[t]
      BY <2>1, <3>1 DEF Whole, Checked, Checking, Base, Locks
    <3> QED
      BY <3>1, <3>2 DEF Whole, HeldRows
  <2> QED
    BY <2>2, <2>3
<1>6. Sure'
  BY <1>1, <1>5 DEF Whole, Sure
<1> QED
  BY <1>2, <1>3, <1>4, <1>6 DEF Whole

LEMMA StartWhole ==
  ASSUME Base, Left, Whole, NEW t \in Tx, StartCommit(t) \/ StartRollback(t)
  PROVE  Whole'
<1>1. /\ step[t] = "check" /\ UNCHANGED <<row, lock, found, held, failed, verdict>>
      /\ \A u \in Tx : u # t => step'[u] = step[u] /\ todo'[u] = todo[u]
      /\ step'[t] \in {"commit", "rollback"}
  BY DEF StartCommit, StartRollback, Goto, database, Base, TypeOK
<1>2. YesExclude' /\ Sure'
  BY <1>1 DEF Whole, YesExclude, Sure
<1>3. HeldRows' /\ Checked' /\ Approval' /\ Committed'
  BY <1>1 DEF Whole, HeldRows, Checked, Checking, Asking, Approval, Committed, Found
<1> QED
  BY <1>2, <1>3 DEF Whole

LEMMA FindNewsWhole ==
  ASSUME Base, Left, Whole, NEW t \in Tx, FindNews(t)
  PROVE  Whole'
<1>1. \A i \in Item : row'[i] = IF i \in News[t] /\ row[i] = NoRow THEN PendingFor(t) ELSE row[i]
  BY FindNewsIs
<1>2. \A u \in Tx, i \in Item :
        found'[u][i] = IF u # t THEN found[u][i] ELSE IF i \in News[t] THEN row'[i] ELSE NoRow
  BY FindNewsIs
<1>3. /\ \A u \in Tx : step'[u] = IF u = t THEN "approve" ELSE step[u]
      /\ step[t] = "commit" /\ UNCHANGED <<lock, todo, held, failed, verdict>>
  BY FindNewsIs
<1>4. verdict[t] = "approve" /\ todo[t] = News[t]
  BY <1>3 DEF Left, Course
<1>5. \A u \in Tx, i \in Item : row[i].by = u => row'[i] = row[i]
  BY <1>1, RowTypes, WritesAssumption
<1>6. \A i \in Item : row[i].state = "APPROVED" => row'[i] = row[i]
  BY <1>1, RowTypes
<1>7. Sure'
  <2>1. \A i \in Item : \/ row'[i].by = row[i].by /\ (row[i] = NoRow => row'[i] = NoRow)
                        \/ row[i] = NoRow /\ row'[i].by \in Tx /\ i \in News[row'[i].by]
    BY <1>1, RowTypes
  <2> QED
    BY <1>3, <2>1, SureStays
<1>8. HeldRows'
  <2>1. \A u \in Tx : held[u] \subseteq Item
    BY DEF Base, TypeOK
  <2> QED
    BY <1>3, <1>5, <2>1 DEF Whole, HeldRows
<1>9. YesExclude' /\ Checked'
  BY <1>3 DEF Whole, YesExclude, Checked, Checking, Asking
<1>10. Approval'
  <2> SUFFICES ASSUME NEW u \in Tx, step'[u] = "approve", NEW i \in News[u]
               PROVE  /\ Found(u, i)'
                      /\ i \notin todo[u] /\ lock[i] # u => found'[u][i].state = "APPROVED"
    BY <1>3 DEF Approval
  <2>1. i \in Item
    BY NewsAreItems
  <2>2. CASE u = t
    <3>1. ~Overtaken(t) => row[i].by = t \/ row[i] = NoRow
      BY <1>4, <2>2 DEF Whole, Sure
    <3>2. ~Overtaken(t) => row'[i].by = t
      BY <1>1, <2>1, <2>2, <3>1, RowTypes
    <3>3. found'[u][i] = row'[i]
      BY <1>2, <2>1, <2>2
    <3> QED
      BY <1>4, <2>1, <2>2, <3>2, <3>3 DEF Found
  <2>3. CASE u # t
    <3>1. step[u] = "approve" /\ found'[u][i] = found[u][i]
      BY <1>2, <1>3, <2>1, <2>3
    <3>2. found[u][i].by = u => row[i].by = u
      BY <3>1 DEF Whole, Approval, Found
    <3> QED
      BY <1>5, <2>1, <3>1, <3>2 DEF Whole, Approval, Found
  <2> QED
    BY <2>2, <2>3
<1>11. Committed'
  <2> SUFFICES ASSUME NEW u \in Tx, step'[u] = "done", verdict[u] = "approve", NEW i \in News[u]
               PROVE  Found(u, i)' /\ (found'[u][i].by = u => row'[i].state = "APPROVED")
    BY <1>3 DEF Committed
  <2>1. i \in Item /\ u # t /\ step[u] = "done"
    BY <1>3, NewsAreItems
  <2>2. found'[u][i] = found[u][i]
    BY <1>2, <2>1
  <2>3. Found(u, i) /\ (found[u][i].by = u => row[i].state = "APPROVED")
    BY <2>1 DEF Whole, Committed
  <2> QED
    BY <1>5, <2>1, <2>2, <2>3 DEF Found
<1> QED
  BY <1>7, <1>8, <1>9, <1>10, <1>11 DEF Whole

LEMMA EnterLaterWhole ==
  ASSUME Base, Left, Whole, NEW t \in Tx, NEW i \in Item, EnterApproval(t, i) \/ EnterUnlock(t, i)
  PROVE  Whole'
<1>1. /\ Enter(t, i) /\ step[t] \in {"approve", "rollback"}
      /\ UNCHANGED <<row, step, found, held, failed, verdict>>
  BY DEF EnterApproval, EnterUnlock, database
<1>2. /\ \A j \in Item : lock'[j] = IF j = i THEN t ELSE lock[j]
      /\ \A u \in Tx : todo'[u] = IF u = t THEN todo[t] \ {i} ELSE todo[u]
      /\ lock[i] = Nobody /\ i \in todo[t]
  BY <1>1, EnterIs
<1>3. YesExclude' /\ HeldRows' /\ Sure' /\ Committed'
  BY <1>1 DEF Whole, YesExclude, HeldRows, Sure, Committed, Found
<1>4. Checked'
  BY <1>1, <1>2, NewsAreItems, WritesAssumption DEF Whole, Checked, Checking, Asking
<1>5. Approval'
  BY <1>1, <1>2, NewsAreItems, WritesAssumption DEF Whole, Approval, Found
<1> QED
  BY <1>3, <1>4, <1>5 DEF Whole

LEMMA ApproveItemWhole ==
  ASSUME Base, Left, Whole, NEW t \in Tx, NEW i \in Item, ApproveItem(t, i)
  PROVE  Whole'
<1>1. /\ \A u \in Tx, j \in Item :
           /\ found'[u][j].by = found[u][j].by
           /\ u # t \/ j # i => found'[u][j] = found[u][j]
      /\ found'[t][i].state = "APPROVED"
  BY ApproveItemIs
<1>2. /\ \A j \in Item : lock'[j] = IF j = i THEN Nobody ELSE lock[j]
      /\ lock[i] = t /\ step[t] = "approve"
      /\ UNCHANGED <<row, step, todo, held, failed, verdict>>
  BY ApproveItemIs
<1>3. YesExclude' /\ HeldRows' /\ Sure'
  BY <1>2 DEF Whole, YesExclude, HeldRows, Sure
<1>4. Committed'
  BY <1>1, <1>2, NewsAreItems DEF Whole, Committed, Found
<1>5. Checked'
  BY <1>2, NewsAreItems DEF Whole, Checked, Checking, Asking
<1>6. Approval'
  <2> SUFFICES ASSUME NEW u \in Tx, step[u] = "approve", NEW j \in News[u]
               PROVE  /\ Found(u, j)'
                      /\ j \notin todo[u] /\ lock'[j] # u => found'[u][j].state = "APPROVED"
    BY <1>2 DEF Approval
  <2>1. j \in Item
    BY NewsAreItems
  <2>2. Found(u, j)'
    BY <1>1, <1>2, <2>1 DEF Whole, Approval, Found
  <2>3. CASE u = t /\ j = i
    BY <1>1, <2>2, <2>3
  <2>4. CASE u # t \/ j # i
    BY <1>1, <1>2, <2>1, <2>2, <2>4 DEF Whole, Approval, Found
  <2> QED
    BY <2>3, <2>4
<1> QED
  BY <1>3, <1>4, <1>5, <1>6 DEF Whole

LEMMA EndCommitWhole ==
  ASSUME Base, Left, Whole, NEW t \in Tx, EndCommit(t)
  PROVE  Whole'
<1>1. \A i \in Item : /\ row'[i].by = row[i].by
                      /\ row'[i] = IF i \in News[t] /\ row[i].by = found[t][i].by
                                   THEN found[t][i] ELSE row[i]
  BY EndCommitIs
<1>2. /\ \A u \in Tx : step'[u] = IF u = t THEN "done" ELSE step[u]
      /\ \A u \in Tx : held'[u] = IF u = t THEN {} ELSE held[u]
      /\ step[t] = "approve" /\ todo[t] = {} /\ \A i \in Item : lock[i] # t
      /\ UNCHANGED <<lock, todo, found, failed, verdict>>
  BY EndCommitIs
<1>3. verdict[t] = "approve"
  BY <1>2 DEF Left, Course
<1>4. \A i \in News[t] : found[t][i].by = t => row'[i].state = "APPROVED"
  <2> SUFFICES ASSUME NEW i \in News[t], found[t][i].by = t PROVE row'[i].state = "APPROVED"
    OBVIOUS
  <2>1. i \in Item
    BY NewsAreItems
  <2>2. row[i].by = found[t][i].by /\ found[t][i].state = "APPROVED"
    BY <1>2, <2>1 DEF Whole, Approval, Found
  <2> QED
    BY <1>1, <2>1, <2>2
<1>5. Sure'
  <2>1. \A i \in Item : row[i] = NoRow => row'[i] = NoRow
    <3> SUFFICES ASSUME NEW i \in Item, row[i] = NoRow, row'[i] # NoRow PROVE FALSE
      OBVIOUS
    <3>1. i \in News[t] /\ row[i].by = found[t][i].by
      BY <1>1
    <3>2. found[t][i] \in Row
      BY <1>2, <3>1 DEF Base, Reads
    <3> QED
      BY <3>1, <3>2, RowTypes, WritesAssumption
  <2> QED
    BY <1>1, <1>2, <2>1, SureStays
<1>6. HeldRows'
  <2>1. \A u \in Tx : held[u] \subseteq Item
    BY DEF Base, TypeOK
  <2> QED
    BY <1>1, <1>2, <2>1 DEF Whole, HeldRows
<1>7. YesExclude' /\ Checked'
  BY <1>2 DEF Whole, YesExclude, Checked, Checking, Asking
<1>8. Approval'
  BY <1>1, <1>2, NewsAreItems DEF Whole, Approval, Found
<1>9. Committed'
  <2> SUFFICES ASSUME NEW u \in Tx, step'[u] = "done", verdict[u] = "approve", NEW i \in News[u]
               PROVE  Found(u, i)' /\ (found[u][i].by = u => row'[i].state = "APPROVED")
    BY <1>2 DEF Committed
  <2>1. i \in Item
    BY NewsAreItems
  <2>2. CASE u = t
    <3>1. Found(t, i)
      BY <1>2, <2>2 DEF Whole, Approval
    <3> QED
      BY <1>1, <1>2, <1>4, <2>1, <2>2, <3>1 DEF Found
  <2>3. CASE u # t
    <3>1. Found(u, i) /\ (found[u][i].by = u => row[i].state = "APPROVED")
      BY <1>2, <2>3 DEF Whole, Committed
    <3>2. i \notin News[t]
      BY <1>3, <2>3 DEF Whole, YesExclude, Conflict
    <3> QED
      BY <1>1, <1>2, <2>1, <3>1, <3>2 DEF Found
  <2> QED
    BY <2>2, <2>3
<1> QED
  BY <1>5, <1>6, <1>7, <1>8, <1>9 DEF Whole

LEMMA UnlockItemWhole ==
  ASSUME Base, Left, Whole, NEW t \in Tx, NEW i \in Item, UnlockItem(t, i)
  PROVE  Whole'
<1>1. /\ \A j \in Item : row'[j] = IF j = i /\ row[j].by = t THEN NoRow ELSE row[j]
      /\ \A j \in Item : lock'[j] = IF j = i THEN Nobody ELSE lock[j]
      /\ lock[i] = t /\ step[t] = "rollback"
      /\ UNCHANGED <<step, todo, found, held, failed, verdict>>
  BY UnlockItemIs
<1>2. \A u \in Tx, j \in Item : u # t /\ row[j].by = u => row'[j] = row[j]
  BY <1>1
<1>3. verdict[t] = "reject"
  BY <1>1 DEF Left, Course
<1>4. YesExclude' /\ Checked'
  BY <1>1, NewsAreItems DEF Whole, YesExclude, Checked, Checking, Asking
<1>5. Sure'
  <2>1. \A j \in Item : row[j] = NoRow => row'[j] = NoRow
    BY <1>1
  <2> QED
    BY <1>1, <1>2, <1>3, <2>1, NewsAreItems DEF Whole, Sure
<1>6. HeldRows'
  <2>1. \A u \in Tx : held[u] \subseteq Item
    BY DEF Base, TypeOK
  <2> QED
    BY <1>1, <1>2, <2>1 DEF Whole, HeldRows
<1>7. Approval'
  BY <1>1, <1>2, NewsAreItems DEF Whole, Approval, Found
<1>8. Committed'
  <2> SUFFICES ASSUME NEW u \in Tx, step[u] = "done", verdict[u] = "approve", NEW j \in News[u]
               PROVE  Found(u, j)' /\ (found[u][j].by = u => row'[j].state = "APPROVED")
    BY <1>1 DEF Committed
  <2>1. j \in Item /\ u # t
    BY <1>3, NewsAreItems
  <2>2. Found(u, j) /\ (found[u][j].by = u => row[j].state = "APPROVED")
    BY DEF Whole, Committed
  <2> QED
    BY <1>1, <1>2, <2>1, <2>2 DEF Found
<1> QED
  BY <1>4, <1>5, <1>6, <1>7, <1>8 DEF Whole

LEMMA EndRollbackWhole ==
  ASSUME Base, Left, Whole, NEW t \in Tx, EndRollback(t)
  PROVE  Whole'
<1>1. /\ \A u \in Tx : step'[u] = IF u = t THEN "done" ELSE step[u]
      /\ \A u \in Tx : held'[u] = IF u = t THEN {} ELSE held[u]
      /\ step[t] = "rollback" /\ UNCHANGED <<row, lock, todo, found, failed, verdict>>
  BY EndRollbackIs
<1>2. verdict[t] = "reject"
  BY <1>1 DEF Left, Course
<1>3. YesExclude' /\ Sure'
  BY <1>1 DEF Whole, YesExclude, Sure
<1>4. HeldRows' /\ Checked' /\ Approval' /\ Committed'
  BY <1>1, <1>2 DEF Whole, HeldRows, Checked, Checking, Asking, Approval, Committed, Found
<1> QED
  BY <1>3, <1>4 DEF Whole

LEMMA StepWhole == ASSUME Base, Left, Whole, [Next]_vars PROVE Whole'
<1>1. CASE UNCHANGED vars
  BY <1>1 DEF vars, database, processor, Whole, YesExclude, HeldRows, Checked, Sure, Approval,
              Committed, Found
<1>2. ASSUME NEW t \in Tx, Job(t) PROVE Whole'
  BY <1>2, StartWhole, FindNewsWhole, EndCommitWhole, EndRollbackWhole DEF Job
<1>3. ASSUME NEW t \in Tx, NEW i \in Item, Visit(t, i) PROVE Whole'
  BY <1>3, CheckItemWhole, HoldItemWhole, EnterLaterWhole, ApproveItemWhole, UnlockItemWhole
     DEF Visit
<1> QED
  BY <1>1, <1>2, <1>3, FindVerdictWhole, SendBatchWhole, InsertBatchWhole DEF Next

\* downloadAndCommit leaves every new item APPROVED, but for the rows of another
\* transaction that the network approved this one over.
THEOREM CommitLeavesAll == Spec => []CommitIsWhole
<1> DEFINE IInv == Base /\ Left /\ Whole
<1>1. Init => IInv
  BY InitBase, InitLeft, InitWhole
<1>2. IInv /\ [Next]_vars => IInv'
  BY StepBase, StepLeft, StepWhole
<1>3. IInv => CommitIsWhole
  BY DEF Whole, Committed, Found, CommitIsWhole
<1> QED
  BY <1>1, <1>2, <1>3, PTL DEF Spec

=============================================================================
