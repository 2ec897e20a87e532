--------------------------- MODULE ItemLocksProofs ---------------------------
(***************************************************************************)
(* Proofs about ItemLocks, for any number of items and transactions.       *)
(***************************************************************************)
EXTENDS ItemLocks, TLAPS

Phase == {"new", "news", "revokes", "checked"}
Verdict == {"none", "yes", "no", "expired"}
Final == {"APPROVED", "DECLINED", "UNDEFINED"}
RecState == Final \cup {"PENDING", "PENDING_POSITIVE", "PENDING_NEGATIVE"}

-----------------------------------------------------------------------------
(***************************************************************************)
(* Types                                                                   *)
(***************************************************************************)

LEMMA NoRecordType == NoRecord \in StateRecord
BY DEF NoRecord, Record, StateRecord, ItemState, Locked, Present

LEMMA RecordType ==
  ASSUME NEW s \in ItemState, NEW t \in Tx \cup {Nobody}, NEW n \in Nat
  PROVE  Record(s, t, n) \in StateRecord
BY DEF Record, StateRecord

\* What lockToRevoke makes of a record is one.
LEMMA LockedType ==
  ASSUME NEW t \in Tx, NEW r \in StateRecord, LockedState(t, r) # "none"
  PROVE  /\ Record(LockedState(t, r), t, r.recordId) \in StateRecord
         /\ LockedState(t, r) \in {"LOCKED", "LOCKED_FOR_CREATION_REVOKED"}
<1>1. LockedState(t, r) \in {"LOCKED", "LOCKED_FOR_CREATION_REVOKED"}
  BY DEF LockedState
<1>2. LockedState(t, r) \in ItemState
  BY <1>1 DEF ItemState, Locked
<1>3. r.recordId \in Nat
  BY DEF StateRecord
<1> QED
  BY <1>1, <1>2, <1>3, RecordType

LEMMA UnlockedType ==
  ASSUME NEW object \in StateRecord, NEW r \in StateRecord
  PROVE  UnlockedRow(object, r) \in StateRecord /\ UnlockedCache(object, r) \in StateRecord
<1>1. Unlocked(object) \in StateRecord
  BY RecordType, NoRecordType DEF Unlocked, StateRecord, ItemState, Present
<1> QED
  BY <1>1 DEF UnlockedRow, UnlockedCache

LEMMA FoundType ==
  ASSUME TypeOK, NEW i \in Item
  PROVE  Found(i) \in StateRecord
BY DEF TypeOK, Found

LEMMA CommittedType ==
  ASSUME TypeOK, NEW t \in Tx, NEW i \in Item
  PROVE  Committed(t, i, lastId + 1) \in StateRecord
<1>1. row[i] \in StateRecord /\ lastId + 1 \in Nat
  BY DEF TypeOK
<1>2. {"APPROVED", "REVOKED"} \subseteq ItemState
  BY DEF ItemState, Present
<1> QED
  BY <1>1, <1>2 DEF Committed, StateRecord

LEMMA InitType == ASSUME Init PROVE TypeOK
<1>1. Record("APPROVED", Nobody, 1) \in StateRecord
  BY RecordType DEF ItemState, Present
<1>2. row \in [Item -> StateRecord] /\ cache \in [Item -> StateRecord]
  BY <1>1, NoRecordType DEF Init
<1>3. NothingKept \in [Item -> StateRecord]
  BY NoRecordType DEF NothingKept
<1> QED
  BY <1>2, <1>3 DEF Init, TypeOK

LEMMA ForgetsType ==
  ASSUME TypeOK, NEW t \in Tx, Forgets(t)
  PROVE  toRevoke' \in [Tx -> [Item -> StateRecord]] /\ toCreate' \in [Tx -> [Item -> StateRecord]]
<1>1. NothingKept \in [Item -> StateRecord]
  BY NoRecordType DEF NothingKept
<1> QED
  BY <1>1 DEF Forgets, TypeOK

\* A step of the check or of the verdict that leaves the ledger alone
LEMMA EnterType ==
  ASSUME TypeOK, NEW t \in Tx, CheckNews(t) \/ CheckRevokes(t) \/ TakePosition(t)
  PROVE  TypeOK'
<1>1. UNCHANGED <<row, cache, lastId, failed, toRevoke, toCreate, verdict, early, settled>>
  BY DEF CheckNews, CheckRevokes, Enter, TakePosition, ledger, kept, outcome
<1>2. News[t] \in SUBSET Item /\ Revokes[t] \in SUBSET Item
  BY LocksAssumption
<1>3. phase' \in [Tx -> Phase]
  BY DEF CheckNews, CheckRevokes, Enter, TakePosition, TypeOK, Phase
<1>4. todo' \in [Tx -> SUBSET Item]
  BY <1>2 DEF CheckNews, CheckRevokes, Enter, TakePosition, TypeOK
<1>5. rec' \in [Tx -> RecState]
  BY DEF CheckNews, CheckRevokes, Enter, TakePosition, TypeOK, RecState, Final, outcome
<1> QED
  BY <1>1, <1>3, <1>4, <1>5 DEF TypeOK, Phase, RecState, Final

LEMMA TakesType ==
  ASSUME TypeOK, NEW t \in Tx, NEW p \in {"news", "revokes"}, NEW i \in Item, Takes(t, p, i)
  PROVE  /\ todo' \in [Tx -> SUBSET Item]
         /\ UNCHANGED <<phase, verdict, early, settled, rec>>
BY DEF Takes, TypeOK, outcome

LEMMA SkipType ==
  ASSUME TypeOK, NEW t \in Tx, NEW p \in {"news", "revokes"}, NEW i \in Item, Skip(t, p, i)
  PROVE  TypeOK'
BY TakesType DEF Skip, ledger, kept, TypeOK

LEMMA LockForCreateType ==
  ASSUME TypeOK, NEW t \in Tx, NEW i \in Item, LockForCreate(t, i)
  PROVE  TypeOK'
<1> DEFINE r == Record("LOCKED_FOR_CREATION", t, lastId + 1)
<1>1. r \in StateRecord
  BY RecordType DEF TypeOK, ItemState, Locked
<1>2. Takes(t, "news", i)
  BY DEF LockForCreate
<1>3. /\ todo' \in [Tx -> SUBSET Item]
      /\ UNCHANGED <<phase, verdict, early, settled, rec>>
  BY <1>2, TakesType
<1>4. CASE row[i] = NoRecord
  <2>1. toCreate' = [toCreate EXCEPT ![t][i] = r] /\ row' = [row EXCEPT ![i] = r] /\ lastId' = lastId + 1
    BY <1>4 DEF LockForCreate
  <2>2. UNCHANGED <<cache, failed, toRevoke>>
    BY <1>4 DEF LockForCreate
  <2> HIDE DEF r
  <2>3. row' \in [Item -> StateRecord] /\ lastId' \in Nat
    BY <1>1, <2>1 DEF TypeOK
  <2>4. toCreate' \in [Tx -> [Item -> StateRecord]]
    BY <1>1, <2>1 DEF TypeOK
  <2> QED
    BY <1>3, <2>2, <2>3, <2>4 DEF TypeOK
<1>5. CASE row[i] # NoRecord
  <2>1. Fails(t) /\ UNCHANGED <<toRevoke, toCreate, row, cache, lastId>>
    BY <1>5 DEF LockForCreate, ledger, kept
  <2> QED
    BY <1>3, <2>1 DEF Fails, TypeOK
<1> QED
  BY <1>4, <1>5

LEMMA LockToRevokeType ==
  ASSUME TypeOK, NEW t \in Tx, NEW i \in Item, LockToRevoke(t, i)
  PROVE  TypeOK'
<1> DEFINE s == LockedState(t, Found(i))
           r == Record(s, t, Found(i).recordId)
<1>1. Takes(t, "revokes", i)
  BY DEF LockToRevoke
<1>2. /\ todo' \in [Tx -> SUBSET Item]
      /\ UNCHANGED <<phase, verdict, early, settled, rec>>
  BY <1>1, TakesType
<1>3. CASE s # "none"
  <2>1. r \in StateRecord
    BY <1>3, FoundType, LockedType
  <2>2. Save(i, r) /\ toRevoke' = [toRevoke EXCEPT ![t][i] = r] /\ UNCHANGED <<failed, toCreate>>
    BY <1>3 DEF LockToRevoke
  <2>3. row' \in [Item -> StateRecord] /\ cache' \in [Item -> StateRecord] /\ lastId' = lastId
    BY <2>1, <2>2 DEF Save, Saved, TypeOK
  <2>4. toRevoke' \in [Tx -> [Item -> StateRecord]]
    BY <2>1, <2>2 DEF TypeOK
  <2> QED
    BY <1>2, <2>2, <2>3, <2>4 DEF TypeOK
<1>4. CASE s = "none"
  <2>1. Fails(t) /\ UNCHANGED <<toRevoke, toCreate, row, cache, lastId>>
    BY <1>4 DEF LockToRevoke, ledger, kept
  <2> QED
    BY <1>2, <2>1 DEF Fails, TypeOK
<1> QED
  BY <1>3, <1>4

LEMMA FindVerdictType ==
  ASSUME TypeOK, NEW t \in Tx, NEW v \in {"yes", "no", "expired"}, FindVerdict(t, v)
  PROVE  TypeOK'
<1>1. early' \in SUBSET Contrary
  BY DEF FindVerdict, TypeOK
<1>2. verdict' \in [Tx -> Verdict]
  BY DEF FindVerdict, TypeOK, Verdict
<1> QED
  BY <1>1, <1>2 DEF FindVerdict, TypeOK, ledger, check, kept, Verdict

LEMMA CommitType ==
  ASSUME TypeOK, NEW t \in Tx, Commit(t)
  PROVE  TypeOK'
<1>1. row' \in [Item -> StateRecord]
  BY CommittedType DEF Commit, TypeOK
<1>2. cache' \in [Item -> StateRecord]
  BY <1>1 DEF Commit, TypeOK
<1>3. toRevoke' \in [Tx -> [Item -> StateRecord]] /\ toCreate' \in [Tx -> [Item -> StateRecord]]
  BY ForgetsType DEF Commit
<1>4. UNCHANGED <<check, verdict, early>> /\ lastId' = lastId + 1
  BY DEF Commit, Settles
<1>5. settled' \in [Tx -> BOOLEAN] /\ rec' \in [Tx -> RecState]
  BY DEF Commit, Settles, TypeOK, RecState, Final
<1> QED
  BY <1>1, <1>2, <1>3, <1>4, <1>5 DEF TypeOK, check, RecState, Final

LEMMA CommitFailsType ==
  ASSUME TypeOK, NEW t \in Tx, CommitFails(t)
  PROVE  TypeOK'
<1>1. cache' \in [Item -> StateRecord]
  BY CommittedType DEF CommitFails, TypeOK
<1>2. rec' \in [Tx -> RecState]
  BY DEF CommitFails, Settles, TypeOK, RecState, Final
<1> QED
  BY <1>1, <1>2 DEF CommitFails, Settles, TypeOK, check, kept, RecState, Final

LEMMA RollbackType ==
  ASSUME TypeOK, NEW t \in Tx, Rollback(t)
  PROVE  TypeOK'
<1>1. \A i \in Item :
        /\ UnlockedRow(toCreate[t][i], UnlockedRow(toRevoke[t][i], row[i])) \in StateRecord
        /\ UnlockedCache(toCreate[t][i], UnlockedCache(toRevoke[t][i], cache[i])) \in StateRecord
  BY UnlockedType DEF TypeOK
<1>2. row' \in [Item -> StateRecord]
  BY <1>1 DEF Rollback
<1>3. cache' \in [Item -> StateRecord]
  BY <1>1 DEF Rollback
<1>4. toRevoke' \in [Tx -> [Item -> StateRecord]] /\ toCreate' \in [Tx -> [Item -> StateRecord]]
  BY ForgetsType DEF Rollback
<1> QED
  BY <1>2, <1>3, <1>4 DEF Rollback, Settles, TypeOK, check

LEMMA StepType == ASSUME TypeOK, [Next]_vars PROVE TypeOK'
<1>1. CASE UNCHANGED vars
  BY <1>1 DEF vars, ledger, check, kept, outcome, TypeOK
<1>2. ASSUME NEW t \in Tx, Checks(t) PROVE TypeOK'
  BY <1>2, EnterType, SkipType, LockForCreateType, LockToRevokeType DEF Checks
<1>3. ASSUME NEW t \in Tx, Concludes(t) PROVE TypeOK'
  BY <1>3, FindVerdictType, CommitType, CommitFailsType, RollbackType DEF Concludes
<1> QED
  BY <1>1, <1>2, <1>3 DEF Next

\* The state keeps its type (StateRecord's fields, ItemState; the verdicts and
\* the records of transactions).
THEOREM TypeCorrect == Spec => []TypeOK
<1>1. Init => TypeOK
  BY InitType
<1>2. TypeOK /\ [Next]_vars => TypeOK'
  BY StepType
<1> QED
  BY <1>1, <1>2, PTL DEF Spec

-----------------------------------------------------------------------------
(***************************************************************************)
(* The course of a transaction, and nothing is consumed for nothing        *)
(***************************************************************************)

\* What is settled had a verdict, a final record is a settled one, a position
\* is taken at the end of the check, which locks what the root item asks for.
Course ==
  \A t \in Tx :
    /\ settled[t] => verdict[t] # "none"
    /\ rec[t] \in Final => settled[t]
    /\ settled[t] => rec[t] \in Final \/ verdict[t] = "yes"
    /\ rec[t] \in {"PENDING_POSITIVE", "PENDING_NEGATIVE"} => phase[t] = "checked"
    /\ phase[t] = "news" => todo[t] \subseteq News[t]
    /\ phase[t] = "revokes" => todo[t] \subseteq Revokes[t]

LEMMA InitCourse == ASSUME Init PROVE Course
BY DEF Init, Course, Final

LEMMA CheckCourse ==
  ASSUME TypeOK, Course, NEW t \in Tx, Checks(t)
  PROVE  Course'
<1>1. UNCHANGED <<verdict, settled>>
  BY DEF Checks, CheckNews, CheckRevokes, Enter, LockForCreate, LockToRevoke, Skip, Takes,
         TakePosition, outcome
<1>2. CASE CheckNews(t) \/ CheckRevokes(t)
  BY <1>2 DEF CheckNews, CheckRevokes, Enter, outcome, Course, TypeOK, Final
<1>3. CASE TakePosition(t)
  <2>1. CASE verdict[t] # "none"
    BY <1>3, <2>1 DEF TakePosition, Course, TypeOK, Final
  <2>2. CASE verdict[t] = "none"
    <3>1. ~settled[t]
      BY <2>2 DEF Course
    <3> QED
      BY <1>3, <2>2, <3>1 DEF TakePosition, Course, TypeOK, Final
  <2> QED
    BY <2>1, <2>2
<1>4. ASSUME NEW p \in {"news", "revokes"}, NEW i \in Item, Takes(t, p, i)
      PROVE  Course'
  BY <1>1, <1>4 DEF Takes, outcome, Course, TypeOK, Final
<1> QED
  BY <1>2, <1>3, <1>4 DEF Checks, LockForCreate, LockToRevoke, Skip

LEMMA ConcludeCourse ==
  ASSUME TypeOK, Course, NEW t \in Tx, Concludes(t)
  PROVE  Course'
<1>1. ASSUME NEW v \in {"yes", "no", "expired"}, FindVerdict(t, v)
      PROVE  Course'
  BY <1>1 DEF FindVerdict, check, Course, TypeOK, Final
<1>2. ASSUME NEW s, Settles(t, s), verdict[t] # "none", s \in Final \/ (s = rec[t] /\ verdict[t] = "yes")
      PROVE  Course'
  BY <1>2 DEF Settles, check, Course, TypeOK, Final
<1>3. CASE Commit(t) \/ CommitFails(t) \/ Rollback(t)
  <2>1. CASE Commit(t)
    BY <1>2, <2>1 DEF Commit, Final
  <2>2. CASE CommitFails(t)
    BY <1>2, <2>2 DEF CommitFails
  <2>3. CASE Rollback(t)
    <3>1. verdict[t] # "none" /\ (Settles(t, "DECLINED") \/ Settles(t, "UNDEFINED"))
      BY <2>3 DEF Rollback
    <3> QED
      BY <1>2, <3>1 DEF Final
  <2> QED
    BY <1>3, <2>1, <2>2, <2>3
<1> QED
  BY <1>1, <1>3 DEF Concludes

LEMMA StepCourse == ASSUME TypeOK, Course, [Next]_vars PROVE Course'
<1>1. CASE UNCHANGED vars
  BY <1>1 DEF vars, check, outcome, Course
<1> QED
  BY <1>1, CheckCourse, ConcludeCourse DEF Next

\* What is settled stays as it is.
LEMMA SettledStays ==
  ASSUME TypeOK, Course, [Next]_vars, NEW t \in Tx, settled[t]
  PROVE  settled'[t] /\ verdict'[t] = verdict[t] /\ rec'[t] = rec[t]
<1>1. verdict[t] # "none"
  BY DEF Course
<1>2. CASE UNCHANGED vars
  BY <1>2 DEF vars, outcome
<1>3. ASSUME NEW u \in Tx, Checks(u)
      PROVE  settled'[t] /\ verdict'[t] = verdict[t] /\ rec'[t] = rec[t]
  <2>1. CASE TakePosition(u)
    BY <1>1, <2>1 DEF TakePosition, TypeOK
  <2>2. CASE ~TakePosition(u)
    BY <1>3, <2>2 DEF Checks, CheckNews, CheckRevokes, Enter, LockForCreate, LockToRevoke, Skip,
                      Takes, outcome
  <2> QED
    BY <2>1, <2>2
<1>4. ASSUME NEW u \in Tx, Concludes(u)
      PROVE  settled'[t] /\ verdict'[t] = verdict[t] /\ rec'[t] = rec[t]
  BY <1>1, <1>4 DEF Concludes, FindVerdict, Commit, CommitFails, Rollback, Settles, TypeOK
<1> QED
  BY <1>2, <1>3, <1>4 DEF Next

LEMMA ApprovedStays ==
  ASSUME TypeOK, Course, [Next]_vars, NEW t \in Tx, rec[t] = "APPROVED"
  PROVE  rec'[t] = "APPROVED"
BY SettledStays DEF Course, Final

LEMMA NoRecordIs == NoRecord.state = "UNDEFINED" /\ NoRecord.recordId = 0 /\ NoRecord.lockedBy = Nobody
BY DEF NoRecord, Record

\* Only a commit makes a row REVOKED, and then its transaction is approved.
LEMMA RevokedByCommit ==
  ASSUME TypeOK, [Next]_vars, NEW i \in Item, row'[i].state = "REVOKED", row[i].state # "REVOKED"
  PROVE  \E t \in Tx : rec'[t] = "APPROVED" /\ i \in Revokes[t]
<1>1. row'[i] # row[i]
  OBVIOUS
<1>2. PICK t \in Tx : Checks(t) \/ Concludes(t)
  BY <1>1 DEF Next, vars, ledger
<1>3. CASE Checks(t)
  <2>1. PICK j \in Item : LockForCreate(t, j) \/ LockToRevoke(t, j)
    BY <1>1, <1>3 DEF Checks, CheckNews, CheckRevokes, Enter, Skip, TakePosition, ledger
  <2>2. CASE LockForCreate(t, j)
    <3>1. row' = [row EXCEPT ![j] = Record("LOCKED_FOR_CREATION", t, lastId + 1)]
      BY <1>1, <2>2 DEF LockForCreate, ledger
    <3> QED
      BY <3>1 DEF Record, TypeOK
  <2>3. CASE LockToRevoke(t, j)
    <3> DEFINE r == Record(LockedState(t, Found(j)), t, Found(j).recordId)
    <3>1. row' = [row EXCEPT ![j] = Saved(j, r)] /\ LockedState(t, Found(j)) # "none"
      BY <1>1, <2>3 DEF LockToRevoke, Save, ledger
    <3>2. r.state # "REVOKED"
      BY <3>1, FoundType, LockedType DEF Record
    <3> QED
      BY <3>1, <3>2 DEF Saved, TypeOK
  <2> QED
    BY <2>1, <2>2, <2>3
<1>4. CASE Concludes(t)
  <2>1. CASE Commit(t)
    <3>1. rec'[t] = "APPROVED"
      BY <2>1 DEF Commit, Settles, TypeOK
    <3>2. i \in News[t] \cup Revokes[t] /\ row'[i] = Committed(t, i, lastId + 1)
      BY <1>1, <2>1 DEF Commit, TypeOK
    <3>3. row[i] \in StateRecord
      BY DEF TypeOK
    <3>4. i \in Revokes[t]
      BY <3>2, <3>3 DEF Committed, StateRecord
    <3> QED
      BY <3>1, <3>4
  <2>2. CASE Rollback(t)
    <3>1. row'[i] = UnlockedRow(toCreate[t][i], UnlockedRow(toRevoke[t][i], row[i]))
      BY <2>2 DEF Rollback
    <3> QED
      BY <1>1, <3>1, NoRecordIs DEF UnlockedRow, Unlocked, Record
  <2> QED
    BY <1>1, <1>4, <2>1, <2>2 DEF Concludes, FindVerdict, CommitFails, ledger
<1> QED
  BY <1>2, <1>3, <1>4

\* Nothing is consumed for nothing (downloadAndCommit, Record.revoke): whatever
\* is revoked in the ledger was revoked by a transaction this node approved.
THEOREM ConsumedOnApproval == Spec => []SpendingIsApproved
<1> DEFINE IInv == TypeOK /\ Course /\ SpendingIsApproved
<1>1. Init => IInv
  BY InitType, InitCourse, NoRecordIs DEF Init, SpendingIsApproved, Record
<1>2. IInv /\ [Next]_vars => IInv'
  <2> SUFFICES ASSUME IInv, [Next]_vars PROVE IInv'
    OBVIOUS
  <2>1. TypeOK' /\ Course'
    BY StepType, StepCourse
  <2>2. ASSUME NEW i \in Item, row'[i].state = "REVOKED"
        PROVE  \E t \in Tx : rec'[t] = "APPROVED" /\ i \in Revokes[t]
    BY <2>2, RevokedByCommit, ApprovedStays DEF SpendingIsApproved
  <2> QED
    BY <2>1, <2>2 DEF SpendingIsApproved
<1> QED
  BY <1>1, <1>2, PTL DEF Spec


-----------------------------------------------------------------------------
(***************************************************************************)
(* The objects that processors keep, and the rows that are locks           *)
(***************************************************************************)
RevokingLocks == {"LOCKED", "LOCKED_FOR_CREATION_REVOKED"}

\* A row has a number, a lock has an owner that has to do with the item.
Rows ==
  \A i \in Item : row[i] # NoRecord =>
    /\ row[i].recordId # 0
    /\ row[i].state \in Locked => row[i].lockedBy \in Tx /\ i \in Touched(row[i].lockedBy)
    /\ row[i].state = "LOCKED_FOR_CREATION" => i \in News[row[i].lockedBy]

\* lockForCreate puts nothing into the cache.
Cached ==
  \A i \in Item : cache[i] # NoRecord =>
    /\ cache[i].recordId # 0
    /\ cache[i].state \in Present \cup {"LOCKED_FOR_CREATION_REVOKED"}

Kept ==
  \A t \in Tx, i \in Item :
    /\ toRevoke[t][i] # NoRecord =>
         /\ toRevoke[t][i].state \in RevokingLocks
         /\ toRevoke[t][i].lockedBy = t /\ toRevoke[t][i].recordId # 0
         /\ i \in Revokes[t]
         /\ toRevoke[t][i].state = "LOCKED_FOR_CREATION_REVOKED" => i \in News[t]
    /\ toCreate[t][i] # NoRecord =>
         /\ toCreate[t][i].state = "LOCKED_FOR_CREATION"
         /\ toCreate[t][i].lockedBy = t /\ toCreate[t][i].recordId # 0
         /\ i \in News[t]

\* What is still to be locked is not kept yet.
Fresh ==
  \A t \in Tx :
    /\ phase[t] \in {"new", "news"} => \A i \in Item : toRevoke[t][i] = NoRecord
    /\ phase[t] = "revokes" => \A i \in todo[t] : toRevoke[t][i] = NoRecord

Objects == Rows /\ Cached /\ Kept /\ Fresh

\* A lock in the ledger is an object that its owner keeps, or its commit failed.
KeepsLock(t, i) ==
  \/ toRevoke[t][i] # NoRecord /\ toRevoke[t][i].recordId = row[i].recordId
  \/ toCreate[t][i] # NoRecord /\ toCreate[t][i].recordId = row[i].recordId

LocksKept ==
  \A t \in Tx, i \in Item : row[i].state \in Locked /\ row[i].lockedBy = t =>
    Failed(t) \/ (~settled[t] /\ KeepsLock(t, i))

\* A check without errors has locked what it went through,
ProgressOf(t) ==
  rec[t] = "PENDING" /\ ~failed[t] =>
    /\ phase[t] = "news" => \A i \in News[t] \ todo[t] : toCreate[t][i] # NoRecord
    /\ phase[t] = "revokes" => /\ \A i \in News[t] : toCreate[t][i] # NoRecord
                               /\ \A i \in Revokes[t] \ todo[t] : toRevoke[t][i] # NoRecord

\* ... and who votes for a transaction keeps the locks of all of it.
SupportOf(t) ==
  rec[t] = "PENDING_POSITIVE" =>
    /\ \A i \in News[t] : toCreate[t][i] # NoRecord
    /\ \A i \in Revokes[t] : toRevoke[t][i] # NoRecord

Progress == \A t \in Tx : ProgressOf(t)
Support == \A t \in Tx : SupportOf(t)

\* What the network approves, the node is ready for, or it is early.
Ready ==
  \A t \in Tx : verdict[t] = "yes" /\ ~settled[t] => t \in early \/ rec[t] = "PENDING_POSITIVE"

Holding == TypeOK /\ Course /\ Objects /\ LocksKept /\ Progress /\ Support /\ Ready

LEMMA InitHolding == ASSUME Init PROVE Holding
<1>1. \A i \in Item : row[i] = IF i \in Existing THEN Record("APPROVED", Nobody, 1) ELSE NoRecord
  BY DEF Init
<1>2. \A i \in Item : cache[i] = NoRecord
  BY DEF Init
<1>3. \A t \in Tx, i \in Item : toRevoke[t][i] = NoRecord /\ toCreate[t][i] = NoRecord
  BY DEF Init, NothingKept
<1>4. \A i \in Item : row[i].state \notin Locked /\ (row[i] # NoRecord => row[i].recordId # 0)
  BY <1>1, NoRecordIs DEF Record, Locked
<1>5. Objects
  BY <1>2, <1>3, <1>4 DEF Objects, Rows, Cached, Kept, Fresh, Locked, Init
<1>6. LocksKept
  BY <1>4 DEF LocksKept
<1>7. Progress /\ Support /\ Ready
  BY DEF Init, Progress, ProgressOf, Support, SupportOf, Ready
<1> QED
  BY <1>5, <1>6, <1>7, InitType, InitCourse DEF Holding

\* What lockToRevoke finds is there, and a lock for creation found is a row.
LEMMA FoundIs ==
  ASSUME TypeOK, Objects, NEW i \in Item, Found(i).state \in {"APPROVED", "LOCKED_FOR_CREATION"}
  PROVE  /\ Found(i).recordId # 0
         /\ Found(i).state = "LOCKED_FOR_CREATION" => Found(i) = row[i] /\ i \in News[row[i].lockedBy]
<1>1. \/ cache[i] # NoRecord /\ Found(i) = cache[i]
      \/ cache[i] = NoRecord /\ Found(i) = row[i]
  BY DEF Found
<1> QED
  BY <1>1, NoRecordIs DEF Objects, Rows, Cached, Present

\* What a lock does that a check takes to create an item
Creating(t, i) ==
  /\ UNCHANGED <<cache, toRevoke, failed, phase, rec, verdict, settled, early>>
  /\ rec[t] = "PENDING" /\ phase[t] = "news" /\ i \in todo[t]
  /\ row'[i] = toCreate'[t][i] /\ row'[i] # NoRecord
  /\ row'[i].state = "LOCKED_FOR_CREATION"
  /\ row'[i].lockedBy = t /\ row'[i].recordId # 0
  /\ \A j \in Item : j # i => row'[j] = row[j]
  /\ \A u \in Tx, j \in Item : u # t \/ j # i => toCreate'[u][j] = toCreate[u][j]
  /\ \A u \in Tx : todo'[u] = IF u = t THEN todo[t] \ {i} ELSE todo[u]

LEMMA CreatingLock ==
  ASSUME TypeOK, NEW t \in Tx, NEW i \in Item, LockForCreate(t, i), row[i] = NoRecord
  PROVE  Creating(t, i)
<1> DEFINE r == Record("LOCKED_FOR_CREATION", t, lastId + 1)
<1>1. toCreate' = [toCreate EXCEPT ![t][i] = r] /\ row' = [row EXCEPT ![i] = r]
  BY DEF LockForCreate
<1>2. UNCHANGED <<cache, toRevoke, failed>> /\ rec[t] = "PENDING"
  BY DEF LockForCreate
<1>3. /\ UNCHANGED <<phase, rec, verdict, settled, early>>
      /\ phase[t] = "news" /\ i \in todo[t]
      /\ \A u \in Tx : todo'[u] = IF u = t THEN todo[t] \ {i} ELSE todo[u]
  BY DEF LockForCreate, Takes, outcome, TypeOK
<1>4. r.state = "LOCKED_FOR_CREATION" /\ r.lockedBy = t /\ r.recordId # 0 /\ r # NoRecord
  BY NoRecordIs DEF Record, TypeOK
<1> HIDE DEF r
<1>5. row'[i] = r /\ \A j \in Item : j # i => row'[j] = row[j]
  BY <1>1 DEF TypeOK
<1>6. /\ toCreate'[t][i] = r
      /\ \A u \in Tx, j \in Item : u # t \/ j # i => toCreate'[u][j] = toCreate[u][j]
  BY <1>1 DEF TypeOK
<1> QED
  BY <1>2, <1>3, <1>4, <1>5, <1>6 DEF Creating

\* ... and one to revoke it
Revoking(t, i) ==
  /\ UNCHANGED <<toCreate, failed, phase, rec, verdict, settled, early>>
  /\ rec[t] = "PENDING" /\ phase[t] = "revokes" /\ i \in todo[t]
  /\ i \in Revokes[t] /\ Found(i).recordId # 0 /\ toRevoke[t][i] = NoRecord
  /\ \/ Found(i).state = "APPROVED" /\ toRevoke'[t][i].state = "LOCKED"
     \/ /\ Found(i) = row[i] /\ row[i].state = "LOCKED_FOR_CREATION" /\ row[i].lockedBy = t
        /\ i \in News[t] /\ toRevoke'[t][i].state = "LOCKED_FOR_CREATION_REVOKED"
  /\ toRevoke'[t][i].state \in RevokingLocks /\ toRevoke'[t][i] # NoRecord
  /\ toRevoke'[t][i].lockedBy = t
  /\ toRevoke'[t][i].recordId = Found(i).recordId
  /\ cache'[i] = toRevoke'[t][i]
  /\ row'[i] = IF row[i].recordId = Found(i).recordId THEN toRevoke'[t][i] ELSE row[i]
  /\ \A j \in Item : j # i => row'[j] = row[j] /\ cache'[j] = cache[j]
  /\ \A u \in Tx, j \in Item : u # t \/ j # i => toRevoke'[u][j] = toRevoke[u][j]
  /\ \A u \in Tx : todo'[u] = IF u = t THEN todo[t] \ {i} ELSE todo[u]

LEMMA RevokingLock ==
  ASSUME TypeOK, Course, Objects, NEW t \in Tx, NEW i \in Item,
         LockToRevoke(t, i), LockedState(t, Found(i)) # "none"
  PROVE  Revoking(t, i)
<1> DEFINE f == Found(i)
           s == LockedState(t, f)
           r == Record(s, t, f.recordId)
<1>1. Save(i, r) /\ toRevoke' = [toRevoke EXCEPT ![t][i] = r]
  BY DEF LockToRevoke
<1>2. UNCHANGED <<toCreate, failed>> /\ rec[t] = "PENDING"
  BY DEF LockToRevoke
<1>3. /\ UNCHANGED <<phase, rec, verdict, settled, early>>
      /\ phase[t] = "revokes" /\ i \in todo[t]
      /\ \A u \in Tx : todo'[u] = IF u = t THEN todo[t] \ {i} ELSE todo[u]
  BY DEF LockToRevoke, Takes, outcome, TypeOK
<1>4. \/ f.state = "APPROVED" /\ s = "LOCKED"
      \/ f.state = "LOCKED_FOR_CREATION" /\ f.lockedBy = t /\ s = "LOCKED_FOR_CREATION_REVOKED"
  BY DEF LockedState
<1>5. i \in Revokes[t] /\ toRevoke[t][i] = NoRecord
  BY <1>3 DEF Course, Objects, Fresh
<1>6. f.recordId # 0 /\ (f.state = "LOCKED_FOR_CREATION" => f = row[i] /\ i \in News[row[i].lockedBy])
  BY <1>4, FoundIs
<1> HIDE DEF s, f
<1>7. r.state = s /\ r.lockedBy = t /\ r.recordId = f.recordId /\ r # NoRecord
  BY <1>4, NoRecordIs DEF Record, RevokingLocks
<1> HIDE DEF r
<1>8. cache'[i] = r /\ \A j \in Item : j # i => cache'[j] = cache[j]
  BY <1>1 DEF Save, TypeOK
<1>9. /\ row'[i] = IF row[i].recordId = f.recordId THEN r ELSE row[i]
      /\ \A j \in Item : j # i => row'[j] = row[j]
  BY <1>1, <1>7 DEF Save, Saved, TypeOK
<1>10. /\ toRevoke'[t][i] = r
      /\ \A u \in Tx, j \in Item : u # t \/ j # i => toRevoke'[u][j] = toRevoke[u][j]
  BY <1>1 DEF TypeOK
<1> QED
  BY <1>2, <1>3, <1>4, <1>7, <1>8, <1>9, <1>10, <1>5, <1>6 DEF s, f, RevokingLocks, Revoking

\* The record that a commit makes of one
LEMMA CommittedIs ==
  ASSUME TypeOK, Objects, NEW t \in Tx, NEW i \in Item
  PROVE  LET c == Committed(t, i, lastId + 1)
         IN  /\ c.state = IF i \in News[t] THEN "APPROVED" ELSE "REVOKED"
             /\ c.recordId # 0 /\ c # NoRecord
             /\ row[i] # NoRecord => c.recordId = row[i].recordId
<1>1. row[i] \in StateRecord /\ lastId + 1 # 0
  BY DEF TypeOK
<1>2. row[i] # NoRecord => row[i].recordId # 0
  BY DEF Objects, Rows
<1> QED
  BY <1>1, <1>2, NoRecordIs DEF Committed, StateRecord

LEMMA ForgetsIs ==
  ASSUME TypeOK, NEW t \in Tx, Forgets(t), NEW u \in Tx, NEW i \in Item
  PROVE  /\ toRevoke'[u][i] = IF u = t THEN NoRecord ELSE toRevoke[u][i]
         /\ toCreate'[u][i] = IF u = t THEN NoRecord ELSE toCreate[u][i]
BY DEF Forgets, NothingKept, TypeOK

\* What the unlock of an object kept makes of a record
LEMMA UnlockedIs ==
  ASSUME NEW object, object # NoRecord => object.recordId # 0, NEW r
  PROVE  /\ \/ UnlockedRow(object, r) = r /\ (object = NoRecord \/ object.recordId # r.recordId)
            \/ UnlockedRow(object, r) = NoRecord
            \/ /\ UnlockedRow(object, r).state = "APPROVED" /\ UnlockedRow(object, r) # NoRecord
               /\ UnlockedRow(object, r).recordId # 0
         /\ \/ UnlockedCache(object, r) = r /\ object = NoRecord
            \/ UnlockedCache(object, r) = NoRecord
            \/ /\ UnlockedCache(object, r).state = "APPROVED" /\ UnlockedCache(object, r) # NoRecord
               /\ UnlockedCache(object, r).recordId # 0
BY NoRecordIs DEF UnlockedRow, UnlockedCache, Unlocked, Record

\* What a rollback leaves of the locks of its transaction: nothing.
LEMMA RollbackIs ==
  ASSUME TypeOK, Objects, NEW t \in Tx, Rollback(t), NEW i \in Item
  PROVE  /\ \/ row'[i] = row[i] /\ ~KeepsLock(t, i)
            \/ row'[i] = NoRecord
            \/ row'[i].state = "APPROVED" /\ row'[i] # NoRecord /\ row'[i].recordId # 0
         /\ \/ cache'[i] = cache[i] /\ toRevoke[t][i] = NoRecord /\ toCreate[t][i] = NoRecord
            \/ cache'[i] = NoRecord
            \/ cache'[i].state = "APPROVED" /\ cache'[i] # NoRecord /\ cache'[i].recordId # 0
<1> DEFINE a == toRevoke[t][i]
           b == toCreate[t][i]
<1>1. (a # NoRecord => a.recordId # 0) /\ (b # NoRecord => b.recordId # 0)
  BY DEF Objects, Kept
<1>2. /\ row'[i] = UnlockedRow(b, UnlockedRow(a, row[i]))
      /\ cache'[i] = UnlockedCache(b, UnlockedCache(a, cache[i]))
  BY DEF Rollback
<1> HIDE DEF a, b
<1>3. /\ \/ row'[i] = row[i] /\ (a = NoRecord \/ a.recordId # row[i].recordId)
                            /\ (b = NoRecord \/ b.recordId # row[i].recordId)
         \/ row'[i] = NoRecord
         \/ row'[i].state = "APPROVED" /\ row'[i] # NoRecord /\ row'[i].recordId # 0
      /\ \/ cache'[i] = cache[i] /\ a = NoRecord /\ b = NoRecord
         \/ cache'[i] = NoRecord
         \/ cache'[i].state = "APPROVED" /\ cache'[i] # NoRecord /\ cache'[i].recordId # 0
  BY <1>1, <1>2, UnlockedIs
<1> QED
  BY <1>3 DEF a, b, KeepsLock

-----------------------------------------------------------------------------
LEMMA InTouched == \A t \in Tx : News[t] \subseteq Item /\ Revokes[t] \subseteq Item /\ Touched(t) \subseteq Item
BY LocksAssumption DEF Touched

\* A step that takes or gives back no lock
Quiet ==
  /\ UNCHANGED <<row, cache, toRevoke, toCreate, settled>>
  /\ \A t \in Tx : \/ phase'[t] = phase[t] /\ todo'[t] \subseteq todo[t]
                   \/ phase[t] \in {"new", "news"}
                   \/ phase'[t] = "checked"

LEMMA QuietObjects ==
  ASSUME TypeOK, TypeOK', Course, Objects, LocksKept, [Next]_vars, Quiet
  PROVE  Objects' /\ LocksKept'
<1>1. Rows' /\ Cached' /\ Kept'
  BY DEF Quiet, Objects, Rows, Cached, Kept
<1>2. Fresh'
  BY InTouched DEF Quiet, Objects, Fresh, TypeOK
<1>3. \A t \in Tx : Failed(t) => Failed(t)'
  BY SettledStays DEF Failed
<1>4. \A t \in Tx, i \in Item : KeepsLock(t, i)' <=> KeepsLock(t, i)
  BY DEF Quiet, KeepsLock
<1>5. LocksKept'
  BY <1>3, <1>4 DEF Quiet, LocksKept
<1> QED
  BY <1>1, <1>2, <1>5 DEF Objects

LEMMA LockForCreateObjects ==
  ASSUME TypeOK, Course, Objects, LocksKept, NEW t \in Tx, NEW i \in Item,
         LockForCreate(t, i), row[i] = NoRecord
  PROVE  Objects' /\ LocksKept'
<1>0. Creating(t, i)
  BY CreatingLock
<1>1. /\ UNCHANGED <<cache, toRevoke, failed, phase, rec, verdict, settled, early>>
      /\ rec[t] = "PENDING" /\ phase[t] = "news" /\ i \in todo[t]
      /\ row'[i] = toCreate'[t][i] /\ row'[i] # NoRecord
      /\ row'[i].state = "LOCKED_FOR_CREATION"
      /\ row'[i].lockedBy = t /\ row'[i].recordId # 0
      /\ \A j \in Item : j # i => row'[j] = row[j]
      /\ \A u \in Tx, j \in Item : u # t \/ j # i => toCreate'[u][j] = toCreate[u][j]
      /\ \A u \in Tx : todo'[u] = IF u = t THEN todo[t] \ {i} ELSE todo[u]
  BY <1>0 DEF Creating
<1>2. i \in News[t]
  BY <1>1 DEF Course
<1>3. Rows'
  BY <1>1, <1>2 DEF Objects, Rows, Touched
<1>4. Cached' /\ Kept' /\ Fresh'
  BY <1>1, <1>2 DEF Objects, Cached, Kept, Fresh
<1>5. \A u \in Tx : Failed(u)' <=> Failed(u)
  BY <1>1 DEF Failed
<1>6. ~settled[t] \/ Failed(t)
  BY <1>1 DEF Course, Failed, Final
<1>7. LocksKept'
  <2> SUFFICES ASSUME NEW u \in Tx, NEW j \in Item, row'[j].state \in Locked, row'[j].lockedBy = u
               PROVE  Failed(u)' \/ (~settled'[u] /\ KeepsLock(u, j)')
    BY DEF LocksKept
  <2>1. CASE j = i
    BY <1>1, <1>5, <1>6, <2>1 DEF KeepsLock
  <2>2. CASE j # i
    <3>1. row'[j] = row[j]
      BY <1>1, <2>2
    <3>2. KeepsLock(u, j)' <=> KeepsLock(u, j)
      BY <1>1, <2>2 DEF KeepsLock
    <3> QED
      BY <1>1, <1>5, <3>1, <3>2 DEF LocksKept
  <2> QED
    BY <2>1, <2>2
<1> QED
  BY <1>3, <1>4, <1>7 DEF Objects

LEMMA LockToRevokeObjects ==
  ASSUME TypeOK, Course, Objects, LocksKept, NEW t \in Tx, NEW i \in Item,
         LockToRevoke(t, i), LockedState(t, Found(i)) # "none"
  PROVE  Objects' /\ LocksKept'
<1> DEFINE r == toRevoke'[t][i]
           id == Found(i).recordId
<1>0. Revoking(t, i)
  BY RevokingLock
<1>1. /\ UNCHANGED <<toCreate, phase, rec, verdict, settled>>
      /\ rec[t] = "PENDING" /\ phase[t] = "revokes" /\ i \in todo[t]
      /\ r.state \in RevokingLocks /\ r # NoRecord /\ r.lockedBy = t /\ r.recordId = id
      /\ cache'[i] = r /\ row'[i] = IF row[i].recordId = id THEN r ELSE row[i]
      /\ \A j \in Item : j # i => row'[j] = row[j] /\ cache'[j] = cache[j]
      /\ \A u \in Tx, j \in Item : u # t \/ j # i => toRevoke'[u][j] = toRevoke[u][j]
      /\ \A u \in Tx : todo'[u] = IF u = t THEN todo[t] \ {i} ELSE todo[u]
  BY <1>0 DEF Revoking
<1>2. /\ i \in Revokes[t] /\ id # 0 /\ toRevoke[t][i] = NoRecord
      /\ r.state = "LOCKED_FOR_CREATION_REVOKED" => i \in News[t]
  BY <1>0 DEF Revoking
<1> HIDE DEF id
<1>3. Rows'
  BY <1>1, <1>2 DEF Objects, Rows, Touched, RevokingLocks
<1>4. Cached'
  BY <1>1, <1>2 DEF Objects, Cached, RevokingLocks, Present
<1>5. Kept'
  BY <1>1, <1>2 DEF Objects, Kept
<1>6. Fresh'
  <2> SUFFICES ASSUME NEW u \in Tx
               PROVE  /\ phase'[u] \in {"new", "news"} => \A j \in Item : toRevoke'[u][j] = NoRecord
                      /\ phase'[u] = "revokes" => \A j \in todo'[u] : toRevoke'[u][j] = NoRecord
    BY DEF Fresh
  <2>1. todo'[u] \subseteq todo[u] /\ todo[u] \subseteq Item /\ (u = t => i \notin todo'[u])
    BY <1>1 DEF TypeOK
  <2>2. CASE u = t
    BY <1>1, <2>1, <2>2 DEF Objects, Fresh
  <2>3. CASE u # t
    BY <1>1, <2>1, <2>3 DEF Objects, Fresh
  <2> QED
    BY <2>2, <2>3
<1>7. \A u \in Tx : Failed(u)' <=> Failed(u)
  BY <1>1 DEF Failed
<1>8. ~settled[t] \/ Failed(t)
  BY <1>1 DEF Course, Failed, Final
<1>9. LocksKept'
  <2> SUFFICES ASSUME NEW u \in Tx, NEW j \in Item, row'[j].state \in Locked, row'[j].lockedBy = u
               PROVE  Failed(u)' \/ (~settled'[u] /\ KeepsLock(u, j)')
    BY DEF LocksKept
  <2>1. CASE j = i /\ row'[i] = r
    BY <1>1, <1>7, <1>8, <2>1 DEF KeepsLock
  <2>2. CASE row'[j] = row[j]
    <3>1. KeepsLock(u, j) => KeepsLock(u, j)'
      BY <1>1, <1>2, <2>2 DEF KeepsLock
    <3> QED
      BY <1>1, <1>7, <2>2, <3>1 DEF LocksKept
  <2> QED
    BY <1>1, <2>1, <2>2
<1> QED
  BY <1>3, <1>4, <1>5, <1>6, <1>9 DEF Objects

LEMMA CommitObjects ==
  ASSUME TypeOK, Course, Objects, LocksKept, NEW t \in Tx, Commit(t)
  PROVE  Objects' /\ LocksKept'
<1> DEFINE c(i) == Committed(t, i, lastId + 1)
<1>1. \A i \in Item : /\ row'[i] = IF i \in Touched(t) THEN c(i) ELSE row[i]
                      /\ cache'[i] = IF i \in Touched(t) THEN c(i) ELSE cache[i]
  BY DEF Commit, Touched
<1>2. \A i \in Item : c(i).state \in {"APPROVED", "REVOKED"} /\ c(i).recordId # 0 /\ c(i) # NoRecord
  BY CommittedIs
<1> HIDE DEF c
<1>3. \A u \in Tx, i \in Item : /\ toRevoke'[u][i] = IF u = t THEN NoRecord ELSE toRevoke[u][i]
                                /\ toCreate'[u][i] = IF u = t THEN NoRecord ELSE toCreate[u][i]
  BY ForgetsIs DEF Commit
<1>4. UNCHANGED <<phase, todo, verdict>> /\ \A u \in Tx : u # t => settled'[u] = settled[u] /\ rec'[u] = rec[u]
  BY DEF Commit, Settles, check, TypeOK
<1>5. Rows' /\ Cached' /\ Kept'
  BY <1>1, <1>2, <1>3 DEF Objects, Rows, Cached, Kept, Locked, Present
<1>6. Fresh'
  BY <1>3, <1>4, InTouched DEF Objects, Fresh, TypeOK
<1>7. LocksKept'
  <2> SUFFICES ASSUME NEW u \in Tx, NEW i \in Item, row'[i].state \in Locked, row'[i].lockedBy = u
               PROVE  Failed(u)' \/ (~settled'[u] /\ KeepsLock(u, i)')
    BY DEF LocksKept
  <2>1. i \notin Touched(t) /\ row'[i] = row[i]
    BY <1>1, <1>2 DEF Locked
  <2>2. u # t
    BY <2>1, NoRecordIs DEF Objects, Rows, Locked
  <2>3. (KeepsLock(u, i)' <=> KeepsLock(u, i)) /\ (Failed(u)' <=> Failed(u))
    BY <1>3, <1>4, <2>1, <2>2 DEF KeepsLock, Failed
  <2> QED
    BY <1>4, <2>1, <2>2, <2>3 DEF LocksKept
<1> QED
  BY <1>5, <1>6, <1>7 DEF Objects

LEMMA CommitFailsObjects ==
  ASSUME TypeOK, Course, Objects, LocksKept, NEW t \in Tx, CommitFails(t)
  PROVE  Objects' /\ LocksKept' /\ Failed(t)'
<1> DEFINE c(i) == Committed(t, i, lastId + 1)
<1>1. PICK saved : \A i \in Item : cache'[i] = IF i \in saved THEN c(i) ELSE cache[i]
  BY DEF CommitFails
<1>2. \A i \in Item : c(i).state \in {"APPROVED", "REVOKED"} /\ c(i).recordId # 0 /\ c(i) # NoRecord
  BY CommittedIs
<1> HIDE DEF c
<1>3. UNCHANGED <<row, toRevoke, toCreate, phase, todo, verdict, rec>> /\ verdict[t] = "yes" /\ ~settled[t]
  BY DEF CommitFails, Settles, check, kept, TypeOK
<1>4. \A u \in Tx : settled'[u] = IF u = t THEN TRUE ELSE settled[u]
  BY DEF CommitFails, Settles, TypeOK
<1>5. Rows' /\ Cached' /\ Kept' /\ Fresh'
  BY <1>1, <1>2, <1>3 DEF Objects, Rows, Cached, Kept, Fresh, Present
<1>6. rec[t] # "APPROVED"
  BY <1>3 DEF Course, Final
<1>7. Failed(t)'
  BY <1>3, <1>4, <1>6 DEF Failed
<1>8. \A u \in Tx : Failed(u) => Failed(u)'
  BY <1>3, <1>4 DEF Failed
<1>9. \A u \in Tx, i \in Item : KeepsLock(u, i)' <=> KeepsLock(u, i)
  BY <1>3 DEF KeepsLock
<1>10. LocksKept'
  BY <1>3, <1>4, <1>7, <1>8, <1>9 DEF LocksKept
<1> QED
  BY <1>5, <1>7, <1>10 DEF Objects

LEMMA RollbackObjects ==
  ASSUME TypeOK, Course, Objects, LocksKept, NEW t \in Tx, Rollback(t)
  PROVE  Objects' /\ LocksKept'
<1>1. \A i \in Item :
        /\ \/ row'[i] = row[i] /\ ~KeepsLock(t, i)
           \/ row'[i] = NoRecord
           \/ row'[i].state = "APPROVED" /\ row'[i] # NoRecord /\ row'[i].recordId # 0
        /\ \/ cache'[i] = cache[i]
           \/ cache'[i] = NoRecord
           \/ cache'[i].state = "APPROVED" /\ cache'[i] # NoRecord /\ cache'[i].recordId # 0
  BY RollbackIs
<1>2. \A u \in Tx, i \in Item : /\ toRevoke'[u][i] = IF u = t THEN NoRecord ELSE toRevoke[u][i]
                                /\ toCreate'[u][i] = IF u = t THEN NoRecord ELSE toCreate[u][i]
  BY ForgetsIs DEF Rollback
<1>3. /\ UNCHANGED <<phase, todo, verdict>>
      /\ \A u \in Tx : u # t => settled'[u] = settled[u] /\ rec'[u] = rec[u]
      /\ verdict[t] # "yes" /\ ~settled[t]
  BY DEF Rollback, Settles, check, TypeOK
<1>4. Rows' /\ Cached' /\ Kept'
  BY <1>1, <1>2, NoRecordIs DEF Objects, Rows, Cached, Kept, Locked, Present
<1>5. Fresh'
  BY <1>2, <1>3, InTouched DEF Objects, Fresh, TypeOK
<1>6. LocksKept'
  <2> SUFFICES ASSUME NEW u \in Tx, NEW i \in Item, row'[i].state \in Locked, row'[i].lockedBy = u
               PROVE  Failed(u)' \/ (~settled'[u] /\ KeepsLock(u, i)')
    BY DEF LocksKept
  <2>1. row'[i] = row[i] /\ ~KeepsLock(t, i)
    BY <1>1, NoRecordIs DEF Locked
  <2>2. u # t
    BY <1>3, <2>1 DEF LocksKept, Failed
  <2>3. (KeepsLock(u, i)' <=> KeepsLock(u, i)) /\ (Failed(u)' <=> Failed(u))
    BY <1>2, <1>3, <2>1, <2>2 DEF KeepsLock, Failed
  <2> QED
    BY <1>3, <2>1, <2>2, <2>3 DEF LocksKept
<1> QED
  BY <1>4, <1>5, <1>6 DEF Objects

-----------------------------------------------------------------------------
\* A step of another transaction leaves what belongs to this one alone.
Own(t) == <<rec[t], failed[t], phase[t], todo[t], toRevoke[t], toCreate[t], verdict[t], settled[t]>>

LEMMA OthersStay ==
  ASSUME TypeOK, NEW t \in Tx, Checks(t) \/ Concludes(t), NEW u \in Tx, u # t
  PROVE  UNCHANGED Own(u)
<1>1. ASSUME NEW v \in {"yes", "no", "expired"}, FindVerdict(t, v) PROVE UNCHANGED Own(u)
  BY <1>1 DEF FindVerdict, check, kept, Own, TypeOK
<1>2. CASE Commit(t) \/ Rollback(t)
  BY <1>2 DEF Commit, Rollback, Forgets, Settles, check, Own, TypeOK
<1>3. CASE CommitFails(t)
  BY <1>3 DEF CommitFails, Settles, check, kept, Own, TypeOK
<1>4. CASE CheckNews(t) \/ CheckRevokes(t) \/ TakePosition(t)
  BY <1>4 DEF CheckNews, CheckRevokes, Enter, TakePosition, outcome, kept, Own, TypeOK
<1>5. ASSUME NEW i \in Item, LockForCreate(t, i) \/ LockToRevoke(t, i) PROVE UNCHANGED Own(u)
  <2>1. UNCHANGED <<rec, phase, verdict, settled>> /\ UNCHANGED todo[u]
    BY <1>5 DEF LockForCreate, LockToRevoke, Takes, outcome, TypeOK
  <2>2. UNCHANGED failed[u]
    BY <1>5 DEF LockForCreate, LockToRevoke, Fails, TypeOK
  <2>3. UNCHANGED <<toRevoke[u], toCreate[u]>>
    BY <1>5 DEF LockForCreate, LockToRevoke, kept, TypeOK
  <2> QED
    BY <2>1, <2>2, <2>3 DEF Own
<1>6. ASSUME NEW i \in Item, NEW p \in {"news", "revokes"}, Skip(t, p, i) PROVE UNCHANGED Own(u)
  BY <1>6 DEF Skip, Takes, outcome, kept, Own, TypeOK
<1> QED
  BY <1>1, <1>2, <1>3, <1>4, <1>5, <1>6 DEF Checks, Concludes

\* So all that has only to be proved of the one that makes the step.
ReadyFor(t) == verdict[t] = "yes" /\ ~settled[t] => t \in early \/ rec[t] = "PENDING_POSITIVE"

LEMMA OwnProgress ==
  ASSUME TypeOK, Progress, Support, Ready, NEW t \in Tx, Checks(t) \/ Concludes(t),
         ProgressOf(t)', SupportOf(t)', ReadyFor(t)', early \subseteq early'
  PROVE  Progress' /\ Support' /\ Ready'
<1>1. ASSUME NEW u \in Tx, u # t PROVE ProgressOf(u)' /\ SupportOf(u)' /\ ReadyFor(u)'
  <2>1. UNCHANGED Own(u)
    BY <1>1, OthersStay
  <2>2. /\ rec'[u] = rec[u] /\ failed'[u] = failed[u] /\ phase'[u] = phase[u] /\ todo'[u] = todo[u]
        /\ toRevoke'[u] = toRevoke[u] /\ toCreate'[u] = toCreate[u]
        /\ verdict'[u] = verdict[u] /\ settled'[u] = settled[u]
    BY <2>1 DEF Own
  <2>3. ProgressOf(u)'
    BY <2>2 DEF Progress, ProgressOf
  <2>4. SupportOf(u)' /\ ReadyFor(u)'
    BY <2>2 DEF Support, SupportOf, Ready, ReadyFor
  <2> QED
    BY <2>3, <2>4
<1>2. \A u \in Tx : ProgressOf(u)' /\ SupportOf(u)' /\ ReadyFor(u)'
  BY <1>1
<1> QED
  BY <1>2 DEF Progress, Support, Ready, ProgressOf, SupportOf, ReadyFor

\* A lock takes the check on, and so does an error.
LEMMA LockProgress ==
  ASSUME TypeOK, Course, Objects, Progress, Support, Ready, NEW t \in Tx, NEW i \in Item,
         LockForCreate(t, i) \/ LockToRevoke(t, i)
  PROVE  ProgressOf(t)' /\ SupportOf(t)' /\ ReadyFor(t)' /\ early' = early
<1>1. rec'[t] = "PENDING" /\ rec[t] = "PENDING" /\ UNCHANGED <<verdict, settled, early>>
  BY DEF LockForCreate, LockToRevoke, Takes, outcome
<1>2. SupportOf(t)' /\ ReadyFor(t)'
  BY <1>1 DEF SupportOf, Ready, ReadyFor
<1>3. CASE Fails(t)
  <2>1. failed'[t] = TRUE
    BY <1>3 DEF Fails, TypeOK
  <2> QED
    BY <1>1, <1>2, <2>1 DEF ProgressOf
<1>4. CASE Creating(t, i)
  <2>1. /\ UNCHANGED <<toRevoke, failed, phase, rec>> /\ phase[t] = "news"
        /\ toCreate'[t][i] # NoRecord /\ todo'[t] = todo[t] \ {i}
        /\ \A j \in Item : j # i => toCreate'[t][j] = toCreate[t][j]
    BY <1>4 DEF Creating
  <2> QED
    BY <1>1, <1>2, <2>1, InTouched DEF Progress, ProgressOf
<1>5. CASE Revoking(t, i)
  <2>1. /\ UNCHANGED <<toCreate, failed, phase, rec>> /\ phase[t] = "revokes"
        /\ toRevoke'[t][i] # NoRecord /\ todo'[t] = todo[t] \ {i}
        /\ \A j \in Item : j # i => toRevoke'[t][j] = toRevoke[t][j]
    BY <1>5 DEF Revoking
  <2> QED
    BY <1>1, <1>2, <2>1, InTouched DEF Progress, ProgressOf
<1>6. Fails(t) \/ Creating(t, i) \/ Revoking(t, i)
  BY CreatingLock, RevokingLock DEF LockForCreate, LockToRevoke
<1> QED
  BY <1>1, <1>2, <1>3, <1>4, <1>5, <1>6

LEMMA CheckProgress ==
  ASSUME TypeOK, Course, Objects, Progress, Support, Ready, NEW t \in Tx, Checks(t)
  PROVE  ProgressOf(t)' /\ SupportOf(t)' /\ ReadyFor(t)' /\ early' = early
<1>1. CASE CheckNews(t) \/ CheckRevokes(t)
  <2>1. UNCHANGED <<toRevoke, toCreate, rec, failed, verdict, settled, early>>
    BY <1>1 DEF CheckNews, CheckRevokes, Enter, outcome, kept
  <2>2. SupportOf(t)' /\ ReadyFor(t)'
    BY <2>1 DEF Support, SupportOf, Ready, ReadyFor
  <2>3. ProgressOf(t)'
    BY <1>1, <2>1 DEF CheckNews, CheckRevokes, Enter, TypeOK, Progress, ProgressOf
  <2> QED
    BY <2>1, <2>2, <2>3
<1>2. CASE TakePosition(t)
  <2>1. /\ UNCHANGED <<toRevoke, toCreate, verdict, settled, early>>
        /\ phase[t] = "revokes" /\ todo[t] = {} /\ phase'[t] = "checked"
    BY <1>2 DEF TakePosition, kept, TypeOK
  <2>2. rec[t] \notin {"PENDING_POSITIVE", "PENDING_NEGATIVE"}
    BY <2>1 DEF Course
  <2>3. CASE verdict[t] # "none"
    <3>1. rec'[t] = rec[t]
      BY <1>2, <2>3 DEF TakePosition, TypeOK
    <3> QED
      BY <2>1, <2>2, <3>1 DEF ProgressOf, SupportOf, Ready, ReadyFor
  <2>4. CASE verdict[t] = "none"
    <3>1. rec[t] = "PENDING"
      BY <2>2, <2>4 DEF Course, TypeOK, Final
    <3>2. rec'[t] = IF failed[t] THEN "PENDING_NEGATIVE" ELSE "PENDING_POSITIVE"
      BY <1>2, <2>4 DEF TakePosition, TypeOK
    <3> QED
      BY <2>1, <2>4, <3>1, <3>2 DEF Progress, ProgressOf, SupportOf, ReadyFor
  <2> QED
    BY <2>1, <2>3, <2>4
<1>3. ASSUME NEW i \in Item, NEW p \in {"news", "revokes"}, Skip(t, p, i)
      PROVE  ProgressOf(t)' /\ SupportOf(t)' /\ ReadyFor(t)' /\ early' = early
  <2>1. UNCHANGED <<rec, toRevoke, toCreate, verdict, settled, early>> /\ rec[t] # "PENDING"
    BY <1>3 DEF Skip, Takes, outcome, kept
  <2> QED
    BY <2>1 DEF ProgressOf, Support, SupportOf, Ready, ReadyFor
<1> QED
  BY <1>1, <1>2, <1>3, LockProgress DEF Checks

LEMMA ConcludeProgress ==
  ASSUME TypeOK, Course, Progress, Support, Ready, NEW t \in Tx, Concludes(t)
  PROVE  ProgressOf(t)' /\ SupportOf(t)' /\ ReadyFor(t)' /\ early \subseteq early'
<1>1. ASSUME NEW v \in {"yes", "no", "expired"}, FindVerdict(t, v)
      PROVE  ProgressOf(t)' /\ SupportOf(t)' /\ ReadyFor(t)' /\ early \subseteq early'
  <2>1. UNCHANGED <<toRevoke, toCreate, rec, failed, phase, todo, settled>>
    BY <1>1 DEF FindVerdict, check, kept
  <2>2. ProgressOf(t)' /\ SupportOf(t)'
    BY <2>1 DEF ProgressOf, SupportOf, Progress, Support
  <2>3. ReadyFor(t)' /\ early \subseteq early'
    BY <1>1, <2>1 DEF FindVerdict, ReadyFor, TypeOK
  <2> QED
    BY <2>2, <2>3
<1>2. CASE CommitFails(t)
  <2>1. UNCHANGED <<toRevoke, toCreate, rec, failed, phase, todo, early>> /\ settled'[t]
    BY <1>2 DEF CommitFails, Settles, check, kept, TypeOK
  <2> QED
    BY <2>1 DEF ProgressOf, SupportOf, Progress, Support, ReadyFor
<1>3. CASE Commit(t) \/ Rollback(t)
  <2>1. rec'[t] \in Final /\ settled'[t] /\ early' = early
    BY <1>3 DEF Commit, Rollback, Settles, Final, TypeOK
  <2> QED
    BY <2>1 DEF ProgressOf, SupportOf, ReadyFor, Final
<1> QED
  BY <1>1, <1>2, <1>3 DEF Concludes

LEMMA StepProgress ==
  ASSUME TypeOK, Course, Objects, Progress, Support, Ready, [Next]_vars
  PROVE  Progress' /\ Support' /\ Ready'
<1>1. CASE UNCHANGED vars
  BY <1>1 DEF vars, check, kept, outcome, Progress, ProgressOf, Support, SupportOf, Ready
<1>2. ASSUME NEW t \in Tx, Checks(t) PROVE Progress' /\ Support' /\ Ready'
  BY <1>2, CheckProgress, OwnProgress
<1>3. ASSUME NEW t \in Tx, Concludes(t) PROVE Progress' /\ Support' /\ Ready'
  BY <1>3, ConcludeProgress, OwnProgress
<1> QED
  BY <1>1, <1>2, <1>3 DEF Next

LEMMA QuietSteps ==
  ASSUME TypeOK, NEW t \in Tx
  PROVE  /\ CheckNews(t) \/ CheckRevokes(t) \/ TakePosition(t) => Quiet
         /\ \A i \in Item, p \in {"news", "revokes"} : Skip(t, p, i) => Quiet
         /\ \A i \in Item : LockForCreate(t, i) /\ row[i] # NoRecord => Quiet
         /\ \A i \in Item : LockToRevoke(t, i) /\ LockedState(t, Found(i)) = "none" => Quiet
         /\ \A v \in {"yes", "no", "expired"} : FindVerdict(t, v) => Quiet
<1>1. CheckNews(t) \/ CheckRevokes(t) \/ TakePosition(t) => Quiet
  BY DEF CheckNews, CheckRevokes, Enter, TakePosition, Quiet, ledger, kept, outcome, TypeOK
<1>2. \A i \in Item, p \in {"news", "revokes"} : Skip(t, p, i) => Quiet
  BY DEF Skip, Takes, Quiet, ledger, kept, outcome, TypeOK
<1>3. \A i \in Item : LockForCreate(t, i) /\ row[i] # NoRecord => Quiet
  BY DEF LockForCreate, Takes, Quiet, ledger, kept, outcome, TypeOK
<1>4. \A i \in Item : LockToRevoke(t, i) /\ LockedState(t, Found(i)) = "none" => Quiet
  BY DEF LockToRevoke, Takes, Quiet, ledger, kept, outcome, TypeOK
<1>5. \A v \in {"yes", "no", "expired"} : FindVerdict(t, v) => Quiet
  BY DEF FindVerdict, Quiet, ledger, kept, check, TypeOK
<1> QED
  BY <1>1, <1>2, <1>3, <1>4, <1>5

LEMMA StepHolding == ASSUME Holding, [Next]_vars PROVE Holding'
<1>1. TypeOK /\ Course /\ Objects /\ LocksKept /\ Progress /\ Support /\ Ready
  BY DEF Holding
<1>2. TypeOK' /\ Course'
  BY <1>1, StepType, StepCourse
<1>3. Progress' /\ Support' /\ Ready'
  BY <1>1, StepProgress
<1>4. ASSUME Quiet PROVE Objects' /\ LocksKept'
  BY <1>1, <1>2, <1>4, QuietObjects
<1>5. ASSUME UNCHANGED vars PROVE Objects' /\ LocksKept'
  BY <1>4, <1>5 DEF vars, ledger, check, kept, outcome, Quiet
<1>6. ASSUME NEW t \in Tx, Checks(t) PROVE Objects' /\ LocksKept'
  <2>1. ASSUME NEW i \in Item, LockForCreate(t, i) PROVE Objects' /\ LocksKept'
    BY <1>1, <1>4, <2>1, QuietSteps, LockForCreateObjects
  <2>2. ASSUME NEW i \in Item, LockToRevoke(t, i) PROVE Objects' /\ LocksKept'
    BY <1>1, <1>4, <2>2, QuietSteps, LockToRevokeObjects
  <2>3. ASSUME NEW i \in Item, NEW p \in {"news", "revokes"}, Skip(t, p, i)
        PROVE  Objects' /\ LocksKept'
    BY <1>1, <1>4, <2>3, QuietSteps
  <2>4. CASE CheckNews(t) \/ CheckRevokes(t) \/ TakePosition(t)
    BY <1>1, <1>4, <2>4, QuietSteps
  <2> QED
    BY <1>6, <2>1, <2>2, <2>3, <2>4 DEF Checks
<1>7. ASSUME NEW t \in Tx, Concludes(t) PROVE Objects' /\ LocksKept'
  <2>1. ASSUME NEW v \in {"yes", "no", "expired"}, FindVerdict(t, v) PROVE Objects' /\ LocksKept'
    BY <1>1, <1>4, <2>1, QuietSteps
  <2>2. CASE Commit(t) \/ CommitFails(t) \/ Rollback(t)
    BY <1>1, <2>2, CommitObjects, CommitFailsObjects, RollbackObjects
  <2> QED
    BY <1>7, <2>1, <2>2 DEF Concludes
<1>8. Objects' /\ LocksKept'
  BY <1>1, <1>4, <1>5, <1>6, <1>7 DEF Next
<1> QED
  BY <1>2, <1>3, <1>8 DEF Holding

\* No item stays locked for good, but where a commit failed (rollbackChanges,
\* downloadAndCommit): every lock in the ledger is an object its transaction keeps.
THEOREM NoLockOutlives == Spec => []LocksAreReleased
<1>1. Init => Holding
  BY InitHolding
<1>2. Holding /\ [Next]_vars => Holding'
  BY StepHolding
<1>3. Holding => LocksAreReleased
  <2> SUFFICES ASSUME Holding, NEW i \in Item, row[i].state \in Locked, settled[row[i].lockedBy]
               PROVE  Failed(row[i].lockedBy)
    BY DEF LocksAreReleased
  <2>1. row[i].lockedBy \in Tx
    BY NoRecordIs DEF Holding, Objects, Rows, Locked
  <2> QED
    BY <2>1 DEF Holding, LocksKept
<1> QED
  BY <1>1, <1>2, <1>3, PTL DEF Spec

-----------------------------------------------------------------------------
(***************************************************************************)
(* Where the network was not ahead of this node                            *)
(***************************************************************************)

\* The cache has the row itself, or what a failed commit made of a row it holds.
OneObject ==
  \A i \in Item : Prompt(i) /\ cache[i] # NoRecord =>
    \/ cache[i] = row[i]
    \/ /\ cache[i].recordId = row[i].recordId
       /\ row[i].state \in Locked /\ \E t \in Tx : row[i].lockedBy = t /\ Failed(t)

\* An object kept is the row, but for the one locked a second time to be revoked.
Holds ==
  \A t \in Tx, i \in Item : Prompt(i) /\ ~settled[t] =>
    /\ toRevoke[t][i] # NoRecord => row[i] = toRevoke[t][i]
    /\ toCreate[t][i] # NoRecord =>
         \/ row[i] = toCreate[t][i]
         \/ /\ toRevoke[t][i].state = "LOCKED_FOR_CREATION_REVOKED"
            /\ toRevoke[t][i].recordId = toCreate[t][i].recordId

Clean == OneObject /\ Holds /\ PromptApprovalStands /\ ApprovedIsCommitted

LEMMA InitClean == ASSUME Init PROVE Clean
BY DEF Init, Clean, OneObject, Holds, NothingKept, PromptApprovalStands, ApprovedIsCommitted, Failed

LEMMA EarlyGrows == ASSUME [Next]_vars PROVE early \subseteq early'
BY DEF Next, Checks, Concludes, CheckNews, CheckRevokes, Enter, LockForCreate, LockToRevoke, Skip,
       Takes, TakePosition, FindVerdict, Commit, CommitFails, Rollback, Settles, vars, outcome

LEMMA PromptStays == ASSUME [Next]_vars, NEW i \in Item, Prompt(i)' PROVE Prompt(i)
BY EarlyGrows DEF Prompt

LEMMA FailedStays == ASSUME Holding, [Next]_vars, NEW t \in Tx, Failed(t) PROVE Failed(t)'
BY SettledStays DEF Holding, Failed

\* What a transaction keeps is a lock of its own in the ledger.
LEMMA KeptIsRow ==
  ASSUME Holding, Clean, NEW t \in Tx, NEW i \in Item, Prompt(i), ~settled[t],
         toRevoke[t][i] # NoRecord \/ toCreate[t][i] # NoRecord
  PROVE  /\ row[i].state \in Locked /\ row[i].lockedBy = t /\ row[i] # NoRecord
         /\ \/ toRevoke[t][i] # NoRecord /\ row[i] = toRevoke[t][i]
            \/ /\ toRevoke[t][i] = NoRecord
               /\ toCreate[t][i] # NoRecord /\ row[i] = toCreate[t][i]
<1> DEFINE a == toRevoke[t][i]
           b == toCreate[t][i]
<1>1. a # NoRecord => a.state \in RevokingLocks /\ a.lockedBy = t
  BY DEF Holding, Objects, Kept
<1>2. b # NoRecord => b.state = "LOCKED_FOR_CREATION" /\ b.lockedBy = t
  BY DEF Holding, Objects, Kept
<1>3. a # NoRecord => row[i] = a
  BY DEF Clean, Holds
<1>4. b # NoRecord => row[i] = b \/ a.state = "LOCKED_FOR_CREATION_REVOKED"
  BY DEF Clean, Holds
<1> HIDE DEF a, b
<1>5. a # NoRecord \/ b # NoRecord
  BY DEF a, b
<1>6. CASE a # NoRecord
  BY <1>1, <1>3, <1>6 DEF a, RevokingLocks, Locked
<1>7. CASE a = NoRecord
  <2>1. b # NoRecord /\ row[i] = b
    BY <1>4, <1>5, <1>7, NoRecordIs
  <2> QED
    BY <1>2, <1>7, <2>1 DEF a, b, Locked
<1> QED
  BY <1>6, <1>7

\* What a transaction voted for is locked by it.
LEMMA VotedLocks ==
  ASSUME Holding, Clean, NEW t \in Tx, rec[t] = "PENDING_POSITIVE", ~settled[t],
         NEW i \in Touched(t), Prompt(i)
  PROVE  /\ row[i].lockedBy = t /\ row[i].state \in Locked
         /\ row[i].state = CASE i \in Revokes[t] \ News[t] -> "LOCKED"
                             [] i \in News[t] \ Revokes[t] -> "LOCKED_FOR_CREATION"
                             [] OTHER -> "LOCKED_FOR_CREATION_REVOKED"
<1>1. i \in Item /\ (i \in News[t] \/ i \in Revokes[t])
  BY InTouched DEF Touched
<1>2. /\ i \in News[t] => toCreate[t][i] # NoRecord
      /\ i \in Revokes[t] => toRevoke[t][i] # NoRecord
  BY DEF Holding, Support, SupportOf
<1>3. /\ toRevoke[t][i] # NoRecord =>
           /\ toRevoke[t][i].state \in RevokingLocks /\ i \in Revokes[t]
           /\ toRevoke[t][i].state = "LOCKED_FOR_CREATION_REVOKED" => i \in News[t]
      /\ toCreate[t][i] # NoRecord => toCreate[t][i].state = "LOCKED_FOR_CREATION"
  BY <1>1 DEF Holding, Objects, Kept
<1>4. /\ row[i].lockedBy = t /\ row[i].state \in Locked
      /\ \/ toRevoke[t][i] # NoRecord /\ row[i] = toRevoke[t][i]
         \/ /\ toRevoke[t][i] = NoRecord
            /\ toCreate[t][i] # NoRecord /\ row[i] = toCreate[t][i]
  BY <1>1, <1>2, KeptIsRow
<1>5. CASE i \in Revokes[t] \ News[t]
  BY <1>2, <1>3, <1>4, <1>5 DEF RevokingLocks
<1>6. CASE i \in News[t] \ Revokes[t]
  BY <1>3, <1>4, <1>6
<1>7. CASE i \in News[t] \cap Revokes[t]
  <2>1. toCreate[t][i] # NoRecord /\ toRevoke[t][i] # NoRecord /\ row[i] = toRevoke[t][i]
    BY <1>2, <1>4, <1>7
  <2>2. row[i] = toCreate[t][i] \/ toRevoke[t][i].state = "LOCKED_FOR_CREATION_REVOKED"
    BY <1>1, <2>1 DEF Clean, Holds
  <2>3. row[i].state = "LOCKED_FOR_CREATION_REVOKED"
    BY <1>3, <2>1, <2>2 DEF RevokingLocks
  <2> QED
    BY <1>4, <1>7, <2>3
<1> QED
  BY <1>1, <1>5, <1>6, <1>7

LEMMA QuietClean == ASSUME Holding, Holding', Clean, [Next]_vars, Quiet PROVE Clean'
<1>1. UNCHANGED <<row, cache, toRevoke, toCreate, settled>>
  BY DEF Quiet
<1>2. \A t \in Tx : rec'[t] = "APPROVED" => rec[t] = "APPROVED"
  BY <1>1, SettledStays DEF Holding, Course, Final
<1>3. \A t \in Tx : Failed(t)' <=> Failed(t)
  BY <1>1, SettledStays DEF Holding, Failed
<1>4. \A i \in Item : Prompt(i)' => Prompt(i)
  BY PromptStays
<1>5. OneObject'
  BY <1>1, <1>3, <1>4 DEF Clean, OneObject
<1>6. Holds'
  BY <1>1, <1>4 DEF Clean, Holds
<1>7. PromptApprovalStands'
  BY <1>1, <1>2, <1>4, InTouched DEF Clean, PromptApprovalStands
<1>8. ApprovedIsCommitted'
  BY <1>3, EarlyGrows DEF Clean, ApprovedIsCommitted
<1> QED
  BY <1>5, <1>6, <1>7, <1>8 DEF Clean

LEMMA LockForCreateClean ==
  ASSUME Holding, Clean, NEW t \in Tx, NEW i \in Item, LockForCreate(t, i), row[i] = NoRecord
  PROVE  Clean'
<1>1. Creating(t, i)
  BY CreatingLock DEF Holding
<1>2. /\ UNCHANGED <<cache, toRevoke, rec, verdict, settled, early>>
      /\ row'[i] = toCreate'[t][i]
      /\ row'[i].state = "LOCKED_FOR_CREATION"
      /\ \A j \in Item : j # i => row'[j] = row[j]
      /\ \A u \in Tx, j \in Item : u # t \/ j # i => toCreate'[u][j] = toCreate[u][j]
  BY <1>1 DEF Creating
<1>3. \A j \in Item : Prompt(j)' <=> Prompt(j)
  BY <1>2 DEF Prompt
<1>4. \A u \in Tx : Failed(u)' <=> Failed(u)
  BY <1>2 DEF Failed
<1>5. \A u \in Tx : Prompt(i) /\ ~settled[u] => toRevoke[u][i] = NoRecord /\ toCreate[u][i] = NoRecord
  BY KeptIsRow
<1>6. Prompt(i) => cache[i] = NoRecord
  BY NoRecordIs DEF Clean, OneObject, Locked
<1>7. OneObject'
  <2> SUFFICES ASSUME NEW j \in Item, Prompt(j), cache[j] # NoRecord
               PROVE  \/ cache[j] = row'[j]
                      \/ /\ cache[j].recordId = row'[j].recordId
                         /\ row'[j].state \in Locked /\ \E u \in Tx : row'[j].lockedBy = u /\ Failed(u)
    BY <1>2, <1>3, <1>4 DEF OneObject
  <2>1. j # i /\ row'[j] = row[j]
    BY <1>2, <1>6
  <2> QED
    BY <2>1 DEF Clean, OneObject
<1>8. Holds'
  <2> SUFFICES ASSUME NEW u \in Tx, NEW j \in Item, Prompt(j), ~settled[u]
               PROVE  /\ toRevoke[u][j] # NoRecord => row'[j] = toRevoke[u][j]
                      /\ toCreate'[u][j] # NoRecord =>
                           \/ row'[j] = toCreate'[u][j]
                           \/ /\ toRevoke[u][j].state = "LOCKED_FOR_CREATION_REVOKED"
                              /\ toRevoke[u][j].recordId = toCreate'[u][j].recordId
    BY <1>2, <1>3 DEF Holds
  <2>1. CASE j = i
    BY <1>2, <1>5, <2>1
  <2>2. CASE j # i
    BY <1>2, <2>2 DEF Clean, Holds
  <2> QED
    BY <2>1, <2>2
<1>9. PromptApprovalStands'
  BY <1>2, <1>3, NoRecordIs, InTouched DEF Clean, PromptApprovalStands, Present
<1>10. ApprovedIsCommitted'
  BY <1>2, <1>4 DEF Clean, ApprovedIsCommitted
<1> QED
  BY <1>7, <1>8, <1>9, <1>10 DEF Clean

LEMMA LockToRevokeClean ==
  ASSUME Holding, Clean, NEW t \in Tx, NEW i \in Item,
         LockToRevoke(t, i), LockedState(t, Found(i)) # "none"
  PROVE  Clean'
<1> DEFINE f == Found(i)
<1>0. Revoking(t, i)
  BY RevokingLock DEF Holding
<1>1. /\ UNCHANGED <<toCreate, rec, verdict, settled, early>>
      /\ f.recordId # 0 /\ toRevoke[t][i] = NoRecord
      /\ \/ f.state = "APPROVED" /\ toRevoke'[t][i].state = "LOCKED"
         \/ /\ f = row[i] /\ row[i].state = "LOCKED_FOR_CREATION" /\ row[i].lockedBy = t
            /\ toRevoke'[t][i].state = "LOCKED_FOR_CREATION_REVOKED"
      /\ toRevoke'[t][i].recordId = f.recordId
      /\ cache'[i] = toRevoke'[t][i]
      /\ row'[i] = IF row[i].recordId = f.recordId THEN toRevoke'[t][i] ELSE row[i]
      /\ \A j \in Item : j # i => row'[j] = row[j] /\ cache'[j] = cache[j]
      /\ \A u \in Tx, j \in Item : u # t \/ j # i => toRevoke'[u][j] = toRevoke[u][j]
  BY <1>0 DEF Revoking
<1>2. Prompt(i) => \/ f = row[i]
                   \/ /\ f.recordId = row[i].recordId
                      /\ row[i].state \in Locked /\ \E u \in Tx : row[i].lockedBy = u /\ Failed(u)
  BY DEF Clean, OneObject, Found
<1> HIDE DEF f
<1>3. Prompt(i) => row'[i] = toRevoke'[t][i]
  BY <1>1, <1>2
<1>4. \A j \in Item : Prompt(j)' <=> Prompt(j)
  BY <1>1 DEF Prompt
<1>5. \A u \in Tx : Failed(u)' <=> Failed(u)
  BY <1>1 DEF Failed
<1>6. \A u \in Tx : Prompt(i) /\ ~settled[u] /\ u # t =>
        toRevoke[u][i] = NoRecord /\ toCreate[u][i] = NoRecord
  <2> SUFFICES ASSUME NEW u \in Tx, Prompt(i), ~settled[u], u # t,
                      toRevoke[u][i] # NoRecord \/ toCreate[u][i] # NoRecord
               PROVE  FALSE
    OBVIOUS
  <2>1. row[i].state \in Locked /\ row[i].lockedBy = u
    BY KeptIsRow
  <2>2. ~Failed(u)
    BY DEF Failed
  <2> QED
    BY <1>1, <1>2, <2>1, <2>2 DEF Locked
<1>7. Prompt(i) /\ ~settled[t] /\ toCreate[t][i] # NoRecord =>
        /\ toRevoke'[t][i].state = "LOCKED_FOR_CREATION_REVOKED"
        /\ toRevoke'[t][i].recordId = toCreate[t][i].recordId
  <2> SUFFICES ASSUME Prompt(i), ~settled[t], toCreate[t][i] # NoRecord
               PROVE  /\ toRevoke'[t][i].state = "LOCKED_FOR_CREATION_REVOKED"
                      /\ toRevoke'[t][i].recordId = toCreate[t][i].recordId
    OBVIOUS
  <2>1. row[i].state \in Locked /\ row[i].lockedBy = t /\ row[i] = toCreate[t][i]
    BY <1>1, KeptIsRow
  <2>2. ~Failed(t)
    BY DEF Failed
  <2> QED
    BY <1>1, <1>2, <2>1, <2>2 DEF Locked
<1>8. OneObject'
  <2> SUFFICES ASSUME NEW j \in Item, Prompt(j), cache'[j] # NoRecord
               PROVE  \/ cache'[j] = row'[j]
                      \/ /\ cache'[j].recordId = row'[j].recordId
                         /\ row'[j].state \in Locked /\ \E u \in Tx : row'[j].lockedBy = u /\ Failed(u)
    BY <1>1, <1>4, <1>5 DEF OneObject
  <2>1. CASE j = i
    BY <1>1, <1>3, <2>1
  <2>2. CASE j # i
    <3>1. row'[j] = row[j] /\ cache'[j] = cache[j]
      BY <1>1, <2>2
    <3> QED
      BY <3>1 DEF Clean, OneObject
  <2> QED
    BY <2>1, <2>2
<1>9. Holds'
  <2> SUFFICES ASSUME NEW u \in Tx, NEW j \in Item, Prompt(j), ~settled[u]
               PROVE  /\ toRevoke'[u][j] # NoRecord => row'[j] = toRevoke'[u][j]
                      /\ toCreate[u][j] # NoRecord =>
                           \/ row'[j] = toCreate[u][j]
                           \/ /\ toRevoke'[u][j].state = "LOCKED_FOR_CREATION_REVOKED"
                              /\ toRevoke'[u][j].recordId = toCreate[u][j].recordId
    BY <1>1, <1>4 DEF Holds
  <2>1. CASE j # i
    <3>1. row'[j] = row[j] /\ toRevoke'[u][j] = toRevoke[u][j]
      BY <1>1, <2>1
    <3> QED
      BY <3>1 DEF Clean, Holds
  <2>2. CASE j = i /\ u = t
    BY <1>3, <1>7, <2>2
  <2>3. CASE j = i /\ u # t
    BY <1>1, <1>6, <2>3
  <2> QED
    BY <2>1, <2>2, <2>3
<1>10. PromptApprovalStands'
  <2> SUFFICES ASSUME NEW u \in Tx, rec[u] = "APPROVED", NEW j \in Item, Prompt(j)
               PROVE  /\ j \in Revokes[u] => row'[j].state = "REVOKED"
                      /\ j \in News[u] => row'[j].state \in Present
    BY <1>1, <1>4, InTouched DEF PromptApprovalStands
  <2>1. /\ j \in Revokes[u] => row[j].state = "REVOKED"
        /\ j \in News[u] => row[j].state \in Present
    BY DEF Clean, PromptApprovalStands
  <2>2. CASE j # i
    BY <1>1, <2>1, <2>2
  <2>3. CASE j = i
    BY <1>1, <1>2, <1>3, <2>1, <2>3 DEF Locked, Present
  <2> QED
    BY <2>2, <2>3
<1>11. ApprovedIsCommitted'
  BY <1>1, <1>5 DEF Clean, ApprovedIsCommitted
<1> QED
  BY <1>8, <1>9, <1>10, <1>11 DEF Clean

\* What a commit goes through, of one that the node was ready for
LEMMA ReadyLocks ==
  ASSUME Holding, Clean, NEW t \in Tx, verdict[t] = "yes", ~settled[t],
         NEW i \in Touched(t), Prompt(i)
  PROVE  /\ row[i].lockedBy = t /\ row[i].state \in Locked
         /\ row[i].state = CASE i \in Revokes[t] \ News[t] -> "LOCKED"
                             [] i \in News[t] \ Revokes[t] -> "LOCKED_FOR_CREATION"
                             [] OTHER -> "LOCKED_FOR_CREATION_REVOKED"
<1>1. t \notin early
  BY DEF Prompt
<1>2. rec[t] = "PENDING_POSITIVE"
  BY <1>1 DEF Holding, Ready
<1> QED
  BY <1>2, VotedLocks

LEMMA CommitClean ==
  ASSUME Holding, Clean, NEW t \in Tx, Commit(t)
  PROVE  Clean'
<1> DEFINE c(i) == Committed(t, i, lastId + 1)
<1>1. verdict[t] = "yes" /\ ~settled[t] /\ CanCommit(t)
  BY DEF Commit, Settles
<1>2. \A i \in Item : /\ row'[i] = IF i \in Touched(t) THEN c(i) ELSE row[i]
                      /\ cache'[i] = IF i \in Touched(t) THEN c(i) ELSE cache[i]
  BY DEF Commit, Touched
<1>3. \A u \in Tx, i \in Item : /\ toRevoke'[u][i] = IF u = t THEN NoRecord ELSE toRevoke[u][i]
                                /\ toCreate'[u][i] = IF u = t THEN NoRecord ELSE toCreate[u][i]
  BY ForgetsIs DEF Commit, Holding
<1>4. /\ UNCHANGED <<verdict, early>> /\ rec'[t] = "APPROVED" /\ settled'[t]
      /\ \A u \in Tx : u # t => settled'[u] = settled[u] /\ rec'[u] = rec[u]
  BY DEF Commit, Settles, Holding, TypeOK
<1>5. \A i \in Item : c(i).state = IF i \in News[t] THEN "APPROVED" ELSE "REVOKED"
  BY CommittedIs DEF Holding
<1> HIDE DEF c
<1>6. \A i \in Item : Prompt(i)' <=> Prompt(i)
  BY <1>4 DEF Prompt
<1>7. \A u \in Tx : Failed(u)' <=> u # t /\ Failed(u)
  BY <1>1, <1>4 DEF Failed
<1>8. \A i \in Touched(t) : Prompt(i) => row[i].lockedBy = t /\ row[i].state \in Locked
  BY <1>1, ReadyLocks
<1>9. OneObject'
  <2> SUFFICES ASSUME NEW i \in Item, Prompt(i), cache'[i] # NoRecord
               PROVE  \/ cache'[i] = row'[i]
                      \/ /\ cache'[i].recordId = row'[i].recordId
                         /\ row'[i].state \in Locked /\ \E u \in Tx : row'[i].lockedBy = u /\ Failed(u)'
    BY <1>6 DEF OneObject
  <2>1. CASE i \in Touched(t)
    BY <1>2, <2>1
  <2>2. CASE i \notin Touched(t)
    <3>1. row'[i] = row[i] /\ cache'[i] = cache[i]
      BY <1>2, <2>2
    <3>2. CASE cache[i] = row[i]
      BY <3>1, <3>2
    <3>3. CASE /\ cache[i].recordId = row[i].recordId
               /\ row[i].state \in Locked /\ \E u \in Tx : row[i].lockedBy = u /\ Failed(u)
      BY <1>1, <1>7, <3>1, <3>3 DEF Failed
    <3> QED
      BY <3>1, <3>2, <3>3 DEF Clean, OneObject
  <2> QED
    BY <2>1, <2>2
<1>10. Holds'
  <2> SUFFICES ASSUME NEW u \in Tx, NEW i \in Item, Prompt(i), ~settled'[u]
               PROVE  /\ toRevoke'[u][i] # NoRecord => row'[i] = toRevoke'[u][i]
                      /\ toCreate'[u][i] # NoRecord =>
                           \/ row'[i] = toCreate'[u][i]
                           \/ /\ toRevoke'[u][i].state = "LOCKED_FOR_CREATION_REVOKED"
                              /\ toRevoke'[u][i].recordId = toCreate'[u][i].recordId
    BY <1>6 DEF Holds
  <2>1. u # t /\ ~settled[u] /\ toRevoke'[u][i] = toRevoke[u][i] /\ toCreate'[u][i] = toCreate[u][i]
    BY <1>3, <1>4
  <2>2. CASE toRevoke[u][i] = NoRecord /\ toCreate[u][i] = NoRecord
    BY <2>1, <2>2
  <2>3. CASE toRevoke[u][i] # NoRecord \/ toCreate[u][i] # NoRecord
    <3>1. row[i].lockedBy = u
      BY <2>1, <2>3, KeptIsRow
    <3>2. i \notin Touched(t) /\ row'[i] = row[i]
      BY <1>2, <1>8, <2>1, <3>1
    <3> QED
      BY <2>1, <3>2 DEF Clean, Holds
  <2> QED
    BY <2>2, <2>3
<1>11. PromptApprovalStands'
  <2> SUFFICES ASSUME NEW u \in Tx, rec'[u] = "APPROVED", NEW i \in Item, Prompt(i)
               PROVE  /\ i \in Revokes[u] => row'[i].state = "REVOKED"
                      /\ i \in News[u] => row'[i].state \in Present
    BY <1>6, InTouched DEF PromptApprovalStands
  <2>1. CASE u = t
    <3>1. i \in Revokes[t] => i \notin News[t]
      BY <1>1 DEF CanCommit
    <3> QED
      BY <1>2, <1>5, <2>1, <3>1 DEF Touched, Present
  <2>2. CASE u # t
    <3>1. /\ i \in Revokes[u] => row[i].state = "REVOKED"
          /\ i \in News[u] => row[i].state \in Present
      BY <1>4, <2>2 DEF Clean, PromptApprovalStands
    <3>2. CASE i \in Touched(t)
      BY <1>2, <1>5, <1>8, <3>1, <3>2 DEF Locked, Present
    <3>3. CASE i \notin Touched(t)
      BY <1>2, <3>1, <3>3
    <3> QED
      BY <3>2, <3>3
  <2> QED
    BY <2>1, <2>2
<1>12. ApprovedIsCommitted'
  BY <1>4, <1>7 DEF Clean, ApprovedIsCommitted
<1> QED
  BY <1>9, <1>10, <1>11, <1>12 DEF Clean

LEMMA CommitFailsClean ==
  ASSUME Holding, Clean, NEW t \in Tx, CommitFails(t)
  PROVE  Clean'
<1> DEFINE c(i) == Committed(t, i, lastId + 1)
<1>1. verdict[t] = "yes" /\ ~settled[t] /\ ~CanCommit(t)
  BY DEF CommitFails, Settles
<1>2. PICK saved \in SUBSET Touched(t) : \A i \in Item : cache'[i] = IF i \in saved THEN c(i) ELSE cache[i]
  BY DEF CommitFails, Touched
<1>3. UNCHANGED <<row, toRevoke, toCreate, verdict, early, rec>>
  BY DEF CommitFails, Settles, kept, Holding, TypeOK
<1>4. \A u \in Tx : settled'[u] = IF u = t THEN TRUE ELSE settled[u]
  BY DEF CommitFails, Settles, Holding, TypeOK
<1>5. \A i \in Item : row[i] # NoRecord => c(i).recordId = row[i].recordId
  BY CommittedIs DEF Holding
<1> HIDE DEF c
<1>6. \A i \in Item : Prompt(i)' <=> Prompt(i)
  BY <1>3 DEF Prompt
<1>7. Failed(t)' /\ \A u \in Tx : /\ Failed(u) => Failed(u)'
                                  /\ Failed(u)' => u = t \/ Failed(u)
  <2>1. rec[t] # "APPROVED"
    BY <1>1 DEF Holding, Course, Final
  <2> QED
    BY <1>1, <1>3, <1>4, <2>1 DEF Failed
<1>8. \A i \in Touched(t) : Prompt(i) =>
        /\ row[i].lockedBy = t /\ row[i].state \in Locked
        /\ row[i].state = CASE i \in Revokes[t] \ News[t] -> "LOCKED"
                            [] i \in News[t] \ Revokes[t] -> "LOCKED_FOR_CREATION"
                            [] OTHER -> "LOCKED_FOR_CREATION_REVOKED"
  BY <1>1, ReadyLocks
<1>9. OneObject'
  <2> SUFFICES ASSUME NEW i \in Item, Prompt(i), cache'[i] # NoRecord
               PROVE  \/ cache'[i] = row[i]
                      \/ /\ cache'[i].recordId = row[i].recordId
                         /\ row[i].state \in Locked /\ \E u \in Tx : row[i].lockedBy = u /\ Failed(u)'
    BY <1>3, <1>6 DEF OneObject
  <2>1. CASE i \in saved
    <3>1. row[i].lockedBy = t /\ row[i].state \in Locked
      BY <1>8, <2>1
    <3>2. row[i] # NoRecord
      BY <3>1, NoRecordIs DEF Locked
    <3> QED
      BY <1>2, <1>5, <1>7, <2>1, <3>1, <3>2
  <2>2. CASE i \notin saved
    <3>1. cache'[i] = cache[i]
      BY <1>2, <2>2
    <3> QED
      BY <1>7, <3>1 DEF Clean, OneObject
  <2> QED
    BY <2>1, <2>2
<1>10. Holds'
  BY <1>3, <1>4, <1>6 DEF Clean, Holds
<1>11. PromptApprovalStands'
  BY <1>3, <1>6, InTouched DEF Clean, PromptApprovalStands
<1>12. \/ News[t] \cap Revokes[t] # {}
       \/ \E u \in early : Touched(u) \cap Touched(t) # {}
  <2> SUFFICES ASSUME News[t] \cap Revokes[t] = {}, \A u \in early : Touched(u) \cap Touched(t) = {}
               PROVE  FALSE
    OBVIOUS
  <2>1. \A i \in Touched(t) : Prompt(i)
    BY DEF Prompt
  <2>2. ASSUME NEW i \in News[t] PROVE Approvable(i)
    <3>1. i \in News[t] \ Revokes[t] /\ i \notin Revokes[t] \ News[t] /\ i \in Touched(t)
      BY <2>2 DEF Touched
    <3>2. row[i].state = "LOCKED_FOR_CREATION"
      BY <1>8, <2>1, <3>1
    <3> QED
      BY <3>2 DEF Approvable
  <2>3. ASSUME NEW i \in Revokes[t] PROVE i \notin News[t] /\ Revocable(i)
    <3>1. i \in Revokes[t] \ News[t] /\ i \in Touched(t)
      BY <2>3 DEF Touched
    <3>2. row[i].state = "LOCKED"
      BY <1>8, <2>1, <3>1
    <3> QED
      BY <3>1, <3>2 DEF Revocable
  <2> QED
    BY <1>1, <2>2, <2>3 DEF CanCommit
<1>13. ApprovedIsCommitted'
  BY <1>3, <1>7, <1>12 DEF Clean, ApprovedIsCommitted
<1> QED
  BY <1>9, <1>10, <1>11, <1>13 DEF Clean

\* A rollback of one that the network was not ahead with: the cache follows the row.
LEMMA PromptRollback ==
  ASSUME Holding, Clean, NEW t \in Tx, Rollback(t), NEW i \in Item, Prompt(i)
  PROVE  \/ /\ toRevoke[t][i] = NoRecord /\ toCreate[t][i] = NoRecord
            /\ row'[i] = row[i] /\ cache'[i] = cache[i]
         \/ /\ row[i].lockedBy = t /\ row[i].state \in Locked
            /\ cache'[i] = row'[i]
            /\ row[i].state = "LOCKED" => row'[i].state = "APPROVED"
<1> DEFINE a == toRevoke[t][i]
           b == toCreate[t][i]
<1>1. /\ row'[i] = UnlockedRow(b, UnlockedRow(a, row[i]))
      /\ cache'[i] = UnlockedCache(b, UnlockedCache(a, cache[i]))
  BY DEF Rollback
<1>2. ~settled[t]
  BY DEF Rollback, Settles
<1>3. a # NoRecord => /\ a.state \in {"LOCKED", "LOCKED_FOR_CREATION_REVOKED"}
                      /\ row[i] = a /\ row[i].lockedBy = t /\ row[i].state \in Locked
  BY <1>2 DEF Holding, Objects, Kept, RevokingLocks, Clean, Holds, Locked
<1>4. b # NoRecord => /\ b.state = "LOCKED_FOR_CREATION" /\ b.recordId # 0
                      /\ row[i] = b \/ a.state = "LOCKED_FOR_CREATION_REVOKED"
                      /\ row[i].lockedBy = t /\ row[i].state \in Locked
  <2>1. b # NoRecord => row[i].lockedBy = t /\ row[i].state \in Locked
    BY <1>2, KeptIsRow
  <2> QED
    BY <1>2, <2>1 DEF Holding, Objects, Kept, Clean, Holds
<1> HIDE DEF a, b
<1>5. CASE a = NoRecord /\ b = NoRecord
  BY <1>1, <1>5 DEF UnlockedRow, UnlockedCache, a, b
<1>6. CASE a # NoRecord /\ a.state = "LOCKED"
  <2>1. b = NoRecord
    BY <1>3, <1>4, <1>6
  <2>2. /\ row'[i] = Record("APPROVED", Nobody, a.recordId)
        /\ cache'[i] = Record("APPROVED", Nobody, a.recordId)
    BY <1>1, <1>3, <1>6, <2>1 DEF UnlockedRow, UnlockedCache, Unlocked
  <2> QED
    BY <1>3, <1>6, <2>2 DEF Record
<1>7. CASE a # NoRecord /\ a.state = "LOCKED_FOR_CREATION_REVOKED"
  <2>1. UnlockedRow(a, row[i]) = NoRecord /\ UnlockedCache(a, cache[i]) = NoRecord
    BY <1>3, <1>7 DEF UnlockedRow, UnlockedCache, Unlocked
  <2>2. row'[i] = NoRecord /\ cache'[i] = NoRecord
    BY <1>1, <1>4, <2>1 DEF UnlockedRow, UnlockedCache, Unlocked
  <2> QED
    BY <1>3, <1>7, <2>2
<1>8. CASE a = NoRecord /\ b # NoRecord
  <2>1. UnlockedRow(a, row[i]) = row[i] /\ UnlockedCache(a, cache[i]) = cache[i] /\ row[i] = b
    BY <1>4, <1>8, NoRecordIs DEF UnlockedRow, UnlockedCache
  <2>2. row'[i] = NoRecord /\ cache'[i] = NoRecord
    BY <1>1, <1>4, <1>8, <2>1 DEF UnlockedRow, UnlockedCache, Unlocked
  <2> QED
    BY <1>4, <1>8, <2>1, <2>2
<1> QED
  BY <1>3, <1>5, <1>6, <1>7, <1>8

LEMMA RollbackClean ==
  ASSUME Holding, Clean, NEW t \in Tx, Rollback(t)
  PROVE  Clean'
<1>1. \A u \in Tx, i \in Item : /\ toRevoke'[u][i] = IF u = t THEN NoRecord ELSE toRevoke[u][i]
                                /\ toCreate'[u][i] = IF u = t THEN NoRecord ELSE toCreate[u][i]
  BY ForgetsIs DEF Rollback, Holding
<1>2. /\ UNCHANGED <<verdict, early>> /\ verdict[t] # "yes" /\ ~settled[t]
      /\ settled'[t] /\ rec'[t] # "APPROVED"
      /\ \A u \in Tx : u # t => settled'[u] = settled[u] /\ rec'[u] = rec[u]
  BY DEF Rollback, Settles, Holding, TypeOK
<1>3. \A i \in Item : Prompt(i)' <=> Prompt(i)
  BY <1>2 DEF Prompt
<1>4. \A u \in Tx : Failed(u)' <=> Failed(u)
  BY <1>2 DEF Failed
<1>5. \A i \in Item : Prompt(i) =>
        \/ /\ toRevoke[t][i] = NoRecord /\ toCreate[t][i] = NoRecord
           /\ row'[i] = row[i] /\ cache'[i] = cache[i]
        \/ /\ row[i].lockedBy = t /\ row[i].state \in Locked
           /\ cache'[i] = row'[i]
           /\ row[i].state = "LOCKED" => row'[i].state = "APPROVED"
  BY PromptRollback
<1>6. OneObject'
  <2> SUFFICES ASSUME NEW i \in Item, Prompt(i), cache'[i] # NoRecord
               PROVE  \/ cache'[i] = row'[i]
                      \/ /\ cache'[i].recordId = row'[i].recordId
                         /\ row'[i].state \in Locked /\ \E u \in Tx : row'[i].lockedBy = u /\ Failed(u)
    BY <1>3, <1>4 DEF OneObject
  <2>1. cache'[i] = row'[i] \/ (row'[i] = row[i] /\ cache'[i] = cache[i])
    BY <1>5
  <2> QED
    BY <2>1 DEF Clean, OneObject
<1>7. Holds'
  <2> SUFFICES ASSUME NEW u \in Tx, NEW i \in Item, Prompt(i), ~settled'[u]
               PROVE  /\ toRevoke'[u][i] # NoRecord => row'[i] = toRevoke'[u][i]
                      /\ toCreate'[u][i] # NoRecord =>
                           \/ row'[i] = toCreate'[u][i]
                           \/ /\ toRevoke'[u][i].state = "LOCKED_FOR_CREATION_REVOKED"
                              /\ toRevoke'[u][i].recordId = toCreate'[u][i].recordId
    BY <1>3 DEF Holds
  <2>1. u # t /\ ~settled[u] /\ toRevoke'[u][i] = toRevoke[u][i] /\ toCreate'[u][i] = toCreate[u][i]
    BY <1>1, <1>2
  <2>2. CASE toRevoke[u][i] = NoRecord /\ toCreate[u][i] = NoRecord
    BY <2>1, <2>2
  <2>3. CASE toRevoke[u][i] # NoRecord \/ toCreate[u][i] # NoRecord
    <3>1. row[i].lockedBy = u
      BY <2>1, <2>3, KeptIsRow
    <3>2. row'[i] = row[i]
      BY <1>5, <2>1, <3>1
    <3> QED
      BY <2>1, <3>2 DEF Clean, Holds
  <2> QED
    BY <2>2, <2>3
<1>8. PromptApprovalStands'
  <2> SUFFICES ASSUME NEW u \in Tx, rec'[u] = "APPROVED", NEW i \in Item, Prompt(i)
               PROVE  /\ i \in Revokes[u] => row'[i].state = "REVOKED"
                      /\ i \in News[u] => row'[i].state \in Present
    BY <1>3, InTouched DEF PromptApprovalStands
  <2>1. /\ i \in Revokes[u] => row[i].state = "REVOKED"
        /\ i \in News[u] => row[i].state \in Present
    BY <1>2 DEF Clean, PromptApprovalStands
  <2> QED
    BY <1>5, <2>1 DEF Locked, Present
<1>9. ApprovedIsCommitted'
  BY <1>2, <1>4 DEF Clean, ApprovedIsCommitted
<1> QED
  BY <1>6, <1>7, <1>8, <1>9 DEF Clean

LEMMA StepClean == ASSUME Holding, Clean, [Next]_vars PROVE Clean'
<1>1. Holding' /\ TypeOK
  BY StepHolding DEF Holding
<1>2. ASSUME Quiet PROVE Clean'
  BY <1>1, <1>2, QuietClean
<1>3. CASE UNCHANGED vars
  BY <1>2, <1>3 DEF vars, ledger, check, kept, outcome, Quiet
<1>4. ASSUME NEW t \in Tx, Checks(t) PROVE Clean'
  <2>1. ASSUME NEW i \in Item, LockForCreate(t, i) PROVE Clean'
    BY <1>1, <1>2, <2>1, QuietSteps, LockForCreateClean
  <2>2. ASSUME NEW i \in Item, LockToRevoke(t, i) PROVE Clean'
    BY <1>1, <1>2, <2>2, QuietSteps, LockToRevokeClean
  <2>3. ASSUME NEW i \in Item, NEW p \in {"news", "revokes"}, Skip(t, p, i) PROVE Clean'
    BY <1>1, <1>2, <2>3, QuietSteps
  <2>4. CASE CheckNews(t) \/ CheckRevokes(t) \/ TakePosition(t)
    BY <1>1, <1>2, <2>4, QuietSteps
  <2> QED
    BY <1>4, <2>1, <2>2, <2>3, <2>4 DEF Checks
<1>5. ASSUME NEW t \in Tx, Concludes(t) PROVE Clean'
  <2>1. ASSUME NEW v \in {"yes", "no", "expired"}, FindVerdict(t, v) PROVE Clean'
    BY <1>1, <1>2, <2>1, QuietSteps
  <2>2. CASE Commit(t) \/ CommitFails(t) \/ Rollback(t)
    BY <2>2, CommitClean, CommitFailsClean, RollbackClean
  <2> QED
    BY <1>5, <2>1, <2>2 DEF Concludes
<1> QED
  BY <1>3, <1>4, <1>5 DEF Next

LEMMA AlwaysClean == Spec => [](Holding /\ Clean)
<1>1. Init => Holding /\ Clean
  BY InitHolding, InitClean
<1>2. Holding /\ Clean /\ [Next]_vars => (Holding /\ Clean)'
  BY StepHolding, StepClean
<1> QED
  BY <1>1, <1>2, PTL DEF Spec

\* What an approved transaction did to the ledger stands (ItemState.REVOKED), where
\* nothing was approved before this node was ready for it.
THEOREM ApprovalsStand == Spec => []PromptApprovalStands
<1>1. Clean => PromptApprovalStands
  BY DEF Clean
<1> QED
  BY <1>1, AlwaysClean, PTL

\* What a node voted on is locked in the ledger until its commit, whatever commits failed
\* in between and left in the cache (lockToRevoke, lockForCreate, Ledger.transaction).
THEOREM VotedIsLocked == Spec => []VotesAreLocked
<1>1. Holding /\ Clean => VotesAreLocked
  <2> SUFFICES ASSUME Holding, Clean, NEW t \in Tx, rec[t] = "PENDING_POSITIVE", ~settled[t],
                      NEW i \in Touched(t), Prompt(i)
               PROVE  /\ row[i].lockedBy = t
                      /\ row[i].state = CASE i \in Revokes[t] \ News[t] -> "LOCKED"
                                          [] i \in News[t] \ Revokes[t] -> "LOCKED_FOR_CREATION"
                                          [] OTHER -> "LOCKED_FOR_CREATION_REVOKED"
    BY DEF VotesAreLocked
  <2> QED
    BY VotedLocks
<1> QED
  BY <1>1, AlwaysClean, PTL

\* What the network approved is committed here, unless it revokes what it creates, or
\* the network was ahead of this node with it or with its items (downloadAndCommit).
THEOREM ApprovedCommits == Spec => []ApprovedIsCommitted
<1>1. Clean => ApprovedIsCommitted
  BY DEF Clean
<1> QED
  BY <1>1, AlwaysClean, PTL

-----------------------------------------------------------------------------
(***************************************************************************)
(* Who may hold what, if no transaction revokes what it creates.  One that *)
(* does can lock a new item while another has an object of the item's last *)
(* row, that a failed commit left in the cache: then a node votes for two. *)
(***************************************************************************)
Separate == \A t \in Tx : Revokes[t] \cap News[t] = {}

Creates(t, i) == toCreate[t][i] # NoRecord
Consumes(t, i) == toRevoke[t][i] # NoRecord

\* The network does not approve two transactions that conflict.
YesExclude ==
  \A t, u \in Tx : Conflict(t, u) => ~(verdict[t] = "yes" /\ verdict[u] = "yes")

\* There was an item i for somebody to consume: it is there from the start, or
\* a commit was tried of a transaction that creates it.
Made(i) == i \in Existing \/ \E t \in Tx : verdict[t] = "yes" /\ settled[t] /\ i \in News[t]

\* A lock to revoke may be an object without a row, a lock for creation has one.
Grounds ==
  \A t \in Tx, i \in Item :
    /\ Consumes(t, i) => Made(i)
    /\ Creates(t, i) => i \notin Existing /\ row[i] # NoRecord
                        /\ row[i].recordId = toCreate[t][i].recordId

OneCreator == \A t, u \in Tx, i \in Item : Creates(t, i) /\ Creates(u, i) => t = u
OneConsumer == \A t, u \in Tx, i \in Item : Consumes(t, i) /\ Consumes(u, i) => t = u

\* While somebody holds an item to consume it, nobody finds it approved.
Taken ==
  \A t \in Tx, i \in Item : Consumes(t, i) => cache[i].state # "APPROVED" /\ row[i].state # "APPROVED"

\* What is approved was made, and is the same object in the cache and the row.
ApprovedOnce ==
  \A i \in Item :
    /\ cache[i].state = "APPROVED" \/ row[i].state = "APPROVED" => Made(i)
    /\ row[i].state = "APPROVED" /\ cache[i] # NoRecord => cache[i].recordId = row[i].recordId
    /\ i \in Existing => row[i].state \in Present

Tokens == Grounds /\ OneCreator /\ OneConsumer /\ Taken /\ ApprovedOnce

LEMMA InitTokens == ASSUME Init PROVE Tokens /\ YesExclude
<1>1. \A i \in Item : row[i] = IF i \in Existing THEN Record("APPROVED", Nobody, 1) ELSE NoRecord
  BY DEF Init
<1>2. \A i \in Item : cache[i] = NoRecord /\ \A t \in Tx : ~Creates(t, i) /\ ~Consumes(t, i)
  BY DEF Init, NothingKept, Creates, Consumes
<1>3. Grounds /\ OneCreator /\ OneConsumer /\ Taken
  BY <1>2 DEF Grounds, OneCreator, OneConsumer, Taken
<1>4. ApprovedOnce
  BY <1>1, <1>2, NoRecordIs DEF ApprovedOnce, Made, Record, Present
<1>5. YesExclude
  BY DEF Init, YesExclude
<1> QED
  BY <1>3, <1>4, <1>5 DEF Tokens

LEMMA MadeStays ==
  ASSUME Holding, [Next]_vars, NEW i \in Item, Made(i)
  PROVE  Made(i)'
BY SettledStays DEF Holding, Made

\* What one consumes it does not create.
LEMMA Apart ==
  ASSUME Separate, Holding, NEW t \in Tx, NEW i \in Item
  PROVE  /\ Consumes(t, i) => i \in Revokes[t] /\ toRevoke[t][i].state = "LOCKED" /\ ~Creates(t, i)
         /\ Creates(t, i) => i \in News[t] /\ toCreate[t][i].state = "LOCKED_FOR_CREATION"
BY DEF Separate, Holding, Objects, Kept, RevokingLocks, Consumes, Creates

LEMMA QuietTokens ==
  ASSUME Holding, Tokens, [Next]_vars, UNCHANGED <<row, cache, toRevoke, toCreate>>
  PROVE  Tokens'
<1>1. \A i \in Item : Made(i) => Made(i)'
  BY MadeStays
<1>2. \A t \in Tx, i \in Item : (Creates(t, i)' <=> Creates(t, i)) /\ (Consumes(t, i)' <=> Consumes(t, i))
  BY DEF Creates, Consumes
<1>3. (OneCreator /\ OneConsumer /\ Taken)'
  BY <1>2 DEF Tokens, OneCreator, OneConsumer, Taken
<1>4. Grounds'
  BY <1>1, <1>2 DEF Tokens, Grounds
<1>5. ApprovedOnce'
  BY <1>1 DEF Tokens, ApprovedOnce
<1> QED
  BY <1>3, <1>4, <1>5 DEF Tokens

LEMMA LockForCreateTokens ==
  ASSUME Holding, Tokens, NEW t \in Tx, NEW i \in Item, LockForCreate(t, i), row[i] = NoRecord
  PROVE  Tokens'
<1>0. Creating(t, i) /\ [Next]_vars
  BY CreatingLock DEF Holding, Next, Checks
<1>1. /\ UNCHANGED <<cache, toRevoke>>
      /\ row'[i] = toCreate'[t][i] /\ row'[i] # NoRecord
      /\ row'[i].state = "LOCKED_FOR_CREATION"
      /\ \A j \in Item : j # i => row'[j] = row[j]
      /\ \A u \in Tx, j \in Item : u # t \/ j # i => toCreate'[u][j] = toCreate[u][j]
  BY <1>0 DEF Creating
<1>2. i \notin Existing /\ \A u \in Tx : ~Creates(u, i)
  BY NoRecordIs DEF Tokens, ApprovedOnce, Grounds, Present
<1>3. \A j \in Item : Made(j) => Made(j)'
  BY <1>0, MadeStays
<1>4. \A u \in Tx, j \in Item : /\ Consumes(u, j)' <=> Consumes(u, j)
                                /\ Creates(u, j)' <=> Creates(u, j) \/ (u = t /\ j = i)
  BY <1>1 DEF Creates, Consumes
<1>5. Grounds'
  <2> SUFFICES ASSUME NEW u \in Tx, NEW j \in Item
               PROVE  /\ Consumes(u, j)' => Made(j)'
                      /\ Creates(u, j)' => j \notin Existing /\ row'[j] # NoRecord
                                           /\ row'[j].recordId = toCreate'[u][j].recordId
    BY DEF Grounds
  <2>1. CASE j = i
    BY <1>1, <1>2, <1>3, <1>4, <2>1 DEF Tokens, Grounds
  <2>2. CASE j # i
    BY <1>1, <1>3, <1>4, <2>2 DEF Tokens, Grounds
  <2> QED
    BY <2>1, <2>2
<1>6. OneCreator' /\ OneConsumer'
  BY <1>2, <1>4 DEF Tokens, OneCreator, OneConsumer
<1>7. Taken'
  BY <1>1, <1>4 DEF Tokens, Taken
<1>8. ApprovedOnce'
  BY <1>1, <1>2, <1>3 DEF Tokens, ApprovedOnce
<1> QED
  BY <1>5, <1>6, <1>7, <1>8 DEF Tokens

LEMMA LockToRevokeTokens ==
  ASSUME Separate, Holding, Tokens, NEW t \in Tx, NEW i \in Item,
         LockToRevoke(t, i), LockedState(t, Found(i)) # "none"
  PROVE  Tokens'
<1> DEFINE f == Found(i)
           r == toRevoke'[t][i]
<1>0. Revoking(t, i) /\ [Next]_vars
  BY RevokingLock DEF Holding, Next, Checks
<1>1. /\ UNCHANGED toCreate /\ i \in Revokes[t] /\ f.recordId # 0
      /\ \/ f.state = "APPROVED" /\ r.state = "LOCKED"
         \/ i \in News[t]
      /\ r # NoRecord /\ r.recordId = f.recordId /\ cache'[i] = r
      /\ row'[i] = IF row[i].recordId = f.recordId THEN r ELSE row[i]
      /\ \A j \in Item : j # i => row'[j] = row[j] /\ cache'[j] = cache[j]
      /\ \A u \in Tx, j \in Item : u # t \/ j # i => toRevoke'[u][j] = toRevoke[u][j]
  BY <1>0 DEF Revoking
<1>2. f.state = "APPROVED" /\ r.state = "LOCKED"
  BY <1>1 DEF Separate
<1>3. f = cache[i] \/ (cache[i] = NoRecord /\ f = row[i])
  BY DEF Found
<1>4. Made(i) /\ \A u \in Tx : ~Consumes(u, i)
  BY <1>2, <1>3 DEF Tokens, ApprovedOnce, Taken
<1>5. row[i].recordId # f.recordId => row[i].state # "APPROVED"
  BY <1>2, <1>3, NoRecordIs DEF Tokens, ApprovedOnce
<1>6. \A j \in Item : Made(j) => Made(j)'
  BY <1>0, MadeStays
<1> HIDE DEF f, r
<1>7. \A u \in Tx, j \in Item : /\ Creates(u, j)' <=> Creates(u, j)
                                /\ Consumes(u, j)' <=> Consumes(u, j) \/ (u = t /\ j = i)
  BY <1>1 DEF Creates, Consumes, r
<1>8. \A j \in Item : row[j] # NoRecord => row'[j] # NoRecord /\ row'[j].recordId = row[j].recordId
  BY <1>1
<1>9. Grounds'
  BY <1>1, <1>4, <1>6, <1>7, <1>8 DEF Tokens, Grounds
<1>10. OneCreator' /\ OneConsumer'
  BY <1>4, <1>7 DEF Tokens, OneCreator, OneConsumer
<1>11. Taken'
  BY <1>1, <1>2, <1>5, <1>7 DEF Tokens, Taken
<1>12. ApprovedOnce'
  BY <1>1, <1>2, <1>5, <1>6 DEF Tokens, ApprovedOnce, Present
<1> QED
  BY <1>9, <1>10, <1>11, <1>12 DEF Tokens

\* What a transaction that the network approves can still create was not made
\* before: its makers conflict.
LEMMA NotMadeYet ==
  ASSUME YesExclude, Tokens, NEW t \in Tx, verdict[t] = "yes", ~settled[t],
         NEW i \in News[t], i \in Item, Approvable(i)
  PROVE  ~Made(i) /\ i \notin Existing /\ \A u \in Tx : ~Consumes(u, i)
<1>1. i \notin Existing
  BY NoRecordIs DEF Approvable, Tokens, ApprovedOnce, Present
<1>2. ASSUME NEW u \in Tx, verdict[u] = "yes", settled[u], i \in News[u]
      PROVE  FALSE
  <2>1. Conflict(t, u)
    BY <1>2 DEF Conflict
  <2> QED
    BY <1>2, <2>1 DEF YesExclude
<1>3. ~Made(i)
  BY <1>1, <1>2 DEF Made
<1> QED
  BY <1>1, <1>3 DEF Tokens, Grounds

LEMMA CommitTokens ==
  ASSUME Holding, YesExclude, Tokens, NEW t \in Tx, Commit(t)
  PROVE  Tokens'
<1> DEFINE c(i) == Committed(t, i, lastId + 1)
<1>1. [Next]_vars
  BY DEF Next, Concludes
<1>2. \A i \in Item : Made(i) => Made(i)'
  BY <1>1, MadeStays
<1>3. verdict[t] = "yes" /\ ~settled[t] /\ CanCommit(t)
  BY DEF Commit, Settles
<1>4. \A i \in Item : /\ row'[i] = IF i \in Touched(t) THEN c(i) ELSE row[i]
                      /\ cache'[i] = IF i \in Touched(t) THEN c(i) ELSE cache[i]
  BY DEF Commit, Touched
<1>5. \A u \in Tx, i \in Item : /\ toRevoke'[u][i] = IF u = t THEN NoRecord ELSE toRevoke[u][i]
                                /\ toCreate'[u][i] = IF u = t THEN NoRecord ELSE toCreate[u][i]
  BY ForgetsIs DEF Commit, Holding
<1>6. \A i \in News[t] : ~Made(i) /\ i \notin Existing /\ \A u \in Tx : ~Consumes(u, i)
  BY <1>3, NotMadeYet, InTouched DEF CanCommit
<1>7. \A i \in News[t] : Made(i)'
  BY <1>3 DEF Commit, Settles, Made, Holding, TypeOK
<1>8. \A i \in Item : /\ c(i).state = IF i \in News[t] THEN "APPROVED" ELSE "REVOKED"
                      /\ c(i) # NoRecord
                      /\ row[i] # NoRecord => c(i).recordId = row[i].recordId
  BY CommittedIs DEF Holding
<1> HIDE DEF c
<1>9. \A u \in Tx, i \in Item : /\ Creates(u, i)' => u # t /\ Creates(u, i)
                                /\ Consumes(u, i)' => u # t /\ Consumes(u, i)
  BY <1>5 DEF Creates, Consumes
<1>10. Grounds'
  BY <1>2, <1>4, <1>5, <1>8, <1>9 DEF Tokens, Grounds
<1>11. OneCreator' /\ OneConsumer'
  BY <1>9 DEF Tokens, OneCreator, OneConsumer
<1>12. Taken'
  BY <1>4, <1>6, <1>8, <1>9 DEF Tokens, Taken
<1>13. ApprovedOnce'
  BY <1>2, <1>4, <1>6, <1>7, <1>8 DEF Tokens, ApprovedOnce, Present
<1> QED
  BY <1>10, <1>11, <1>12, <1>13 DEF Tokens

LEMMA CommitFailsTokens ==
  ASSUME Holding, YesExclude, Tokens, NEW t \in Tx, CommitFails(t)
  PROVE  Tokens'
<1> DEFINE c(i) == Committed(t, i, lastId + 1)
<1>1. [Next]_vars
  BY DEF Next, Concludes
<1>2. \A i \in Item : Made(i) => Made(i)'
  BY <1>1, MadeStays
<1>3. PICK saved \in SUBSET Touched(t) :
        /\ \A i \in saved : IF i \in News[t] THEN Approvable(i) ELSE Revocable(i)
        /\ cache' = [i \in Item |-> IF i \in saved THEN c(i) ELSE cache[i]]
  BY DEF CommitFails, Touched
<1>4. verdict[t] = "yes" /\ ~settled[t] /\ UNCHANGED <<row, toRevoke, toCreate>> /\ saved \subseteq Item
  BY InTouched DEF CommitFails, Settles, kept
<1>5. \A i \in saved \cap News[t] : \A u \in Tx : ~Consumes(u, i)
  BY <1>3, <1>4, NotMadeYet
<1>6. \A i \in News[t] : Made(i)'
  BY <1>4 DEF CommitFails, Settles, Made, Holding, TypeOK
<1>7. \A i \in saved : /\ c(i).state = IF i \in News[t] THEN "APPROVED" ELSE "REVOKED"
                       /\ row[i].state # "APPROVED"
  <2> SUFFICES ASSUME NEW i \in saved
               PROVE  /\ c(i).state = IF i \in News[t] THEN "APPROVED" ELSE "REVOKED"
                      /\ row[i].state # "APPROVED"
    OBVIOUS
  <2>1. row[i].state # "APPROVED"
    BY <1>3, NoRecordIs DEF Approvable, Revocable
  <2> QED
    BY <1>4, <2>1, CommittedIs DEF Holding
<1> HIDE DEF c
<1>8. \A i \in Item : cache'[i] = IF i \in saved THEN c(i) ELSE cache[i]
  BY <1>3
<1>9. \A u \in Tx, i \in Item : (Creates(u, i)' <=> Creates(u, i)) /\ (Consumes(u, i)' <=> Consumes(u, i))
  BY <1>4 DEF Creates, Consumes
<1>10. Grounds' /\ OneCreator' /\ OneConsumer'
  BY <1>2, <1>4, <1>9 DEF Tokens, Grounds, OneCreator, OneConsumer
<1>11. Taken'
  BY <1>4, <1>5, <1>7, <1>8, <1>9 DEF Tokens, Taken
<1>12. ApprovedOnce'
  BY <1>2, <1>4, <1>6, <1>7, <1>8 DEF Tokens, ApprovedOnce
<1> QED
  BY <1>10, <1>11, <1>12 DEF Tokens

\* What a rollback of t makes of each item
LEMMA RollbackOf ==
  ASSUME Separate, Holding, Tokens, NEW t \in Tx, Rollback(t), NEW i \in Item
  PROVE  /\ ~Creates(t, i) /\ ~Consumes(t, i) => row'[i] = row[i] /\ cache'[i] = cache[i]
         /\ Creates(t, i) => row'[i] = NoRecord /\ cache'[i] = NoRecord
         /\ Consumes(t, i) =>
              LET r == Record("APPROVED", Nobody, toRevoke[t][i].recordId)
              IN  /\ cache'[i] = r
                  /\ row'[i] = IF row[i].recordId = toRevoke[t][i].recordId THEN r ELSE row[i]
<1> DEFINE a == toRevoke[t][i]
           b == toCreate[t][i]
<1>1. /\ row'[i] = UnlockedRow(b, UnlockedRow(a, row[i]))
      /\ cache'[i] = UnlockedCache(b, UnlockedCache(a, cache[i]))
  BY DEF Rollback
<1>2. /\ Consumes(t, i) => a.state = "LOCKED" /\ ~Creates(t, i)
      /\ Creates(t, i) => b.state = "LOCKED_FOR_CREATION" /\ row[i].recordId = b.recordId
  BY Apart DEF Tokens, Grounds
<1>3. (Consumes(t, i) <=> a # NoRecord) /\ (Creates(t, i) <=> b # NoRecord)
  BY DEF Consumes, Creates
<1> HIDE DEF a, b
<1>4. CASE ~Creates(t, i) /\ ~Consumes(t, i)
  BY <1>1, <1>3, <1>4 DEF UnlockedRow, UnlockedCache
<1>5. CASE Creates(t, i)
  BY <1>1, <1>2, <1>3, <1>5 DEF UnlockedRow, UnlockedCache, Unlocked
<1>6. CASE Consumes(t, i) /\ ~Creates(t, i)
  BY <1>1, <1>2, <1>3, <1>6 DEF UnlockedRow, UnlockedCache, Unlocked, a
<1> QED
  BY <1>2, <1>4, <1>5, <1>6

LEMMA RollbackTokens ==
  ASSUME Separate, Holding, Tokens, NEW t \in Tx, Rollback(t)
  PROVE  Tokens'
<1> DEFINE r(i) == Record("APPROVED", Nobody, toRevoke[t][i].recordId)
<1>1. [Next]_vars
  BY DEF Next, Concludes
<1>2. \A i \in Item : Made(i) => Made(i)'
  BY <1>1, MadeStays
<1>3. \A u \in Tx, i \in Item : /\ toRevoke'[u][i] = IF u = t THEN NoRecord ELSE toRevoke[u][i]
                                /\ toCreate'[u][i] = IF u = t THEN NoRecord ELSE toCreate[u][i]
  BY ForgetsIs DEF Rollback, Holding
<1>4. \A i \in Item : ~Creates(t, i) /\ ~Consumes(t, i) => row'[i] = row[i] /\ cache'[i] = cache[i]
  BY RollbackOf
<1>5. \A i \in Item : Creates(t, i) => row'[i] = NoRecord /\ cache'[i] = NoRecord
  BY RollbackOf
<1>6. \A i \in Item : Consumes(t, i) =>
        /\ cache'[i] = r(i)
        /\ row'[i] = IF row[i].recordId = toRevoke[t][i].recordId THEN r(i) ELSE row[i]
  BY RollbackOf
<1>7. \A i \in Item : /\ r(i).state = "APPROVED" /\ r(i) # NoRecord
                      /\ r(i).recordId = toRevoke[t][i].recordId
  BY NoRecordIs DEF Record
<1> HIDE DEF r
<1>8. \A u \in Tx, i \in Item : /\ Creates(u, i)' => u # t /\ Creates(u, i) /\ toCreate'[u][i] = toCreate[u][i]
                                /\ Consumes(u, i)' => u # t /\ Consumes(u, i)
  BY <1>3 DEF Creates, Consumes
<1>9. OneCreator' /\ OneConsumer'
  BY <1>8 DEF Tokens, OneCreator, OneConsumer
<1>10. Grounds'
  <2> SUFFICES ASSUME NEW u \in Tx, NEW i \in Item
               PROVE  /\ Consumes(u, i)' => Made(i)'
                      /\ Creates(u, i)' => i \notin Existing /\ row'[i] # NoRecord
                                           /\ row'[i].recordId = toCreate'[u][i].recordId
    BY DEF Grounds
  <2>1. Consumes(u, i)' => Made(i)'
    BY <1>2, <1>8 DEF Tokens, Grounds
  <2>2. ASSUME Creates(u, i)'
        PROVE  i \notin Existing /\ row'[i] # NoRecord /\ row'[i].recordId = toCreate'[u][i].recordId
    <3>1. u # t /\ Creates(u, i) /\ ~Creates(t, i) /\ toCreate'[u][i] = toCreate[u][i]
      BY <1>8, <2>2 DEF Tokens, OneCreator
    <3>2. row[i] # NoRecord => row'[i] # NoRecord /\ row'[i].recordId = row[i].recordId
      BY <1>4, <1>6, <1>7, <3>1
    <3> QED
      BY <3>1, <3>2 DEF Tokens, Grounds
  <2> QED
    BY <2>1, <2>2
<1>11. Taken'
  <2> SUFFICES ASSUME NEW u \in Tx, NEW i \in Item, Consumes(u, i)'
               PROVE  cache'[i].state # "APPROVED" /\ row'[i].state # "APPROVED"
    BY DEF Taken
  <2>1. u # t /\ Consumes(u, i) /\ ~Consumes(t, i)
    BY <1>8 DEF Tokens, OneConsumer
  <2> QED
    BY <1>4, <1>5, <2>1, NoRecordIs DEF Tokens, Taken
<1>12. ApprovedOnce'
  <2> SUFFICES ASSUME NEW i \in Item
               PROVE  /\ cache'[i].state = "APPROVED" \/ row'[i].state = "APPROVED" => Made(i)'
                      /\ row'[i].state = "APPROVED" /\ cache'[i] # NoRecord =>
                           cache'[i].recordId = row'[i].recordId
                      /\ i \in Existing => row'[i].state \in Present
    BY DEF ApprovedOnce
  <2>1. CASE ~Creates(t, i) /\ ~Consumes(t, i)
    BY <1>2, <1>4, <2>1 DEF Tokens, ApprovedOnce
  <2>2. CASE Creates(t, i)
    BY <1>5, <2>2, NoRecordIs DEF Tokens, Grounds
  <2>3. CASE Consumes(t, i)
    <3>1. Made(i)' /\ row[i].state # "APPROVED"
      BY <1>2, <2>3 DEF Tokens, Grounds, Taken
    <3> QED
      BY <1>6, <1>7, <2>3, <3>1 DEF Tokens, ApprovedOnce, Present
  <2> QED
    BY <2>1, <2>2, <2>3
<1> QED
  BY <1>9, <1>10, <1>11, <1>12 DEF Tokens

LEMMA StepYes == ASSUME TypeOK, YesExclude, [Next]_vars PROVE YesExclude'
<1>1. ASSUME NEW t \in Tx, NEW v \in {"yes", "no", "expired"}, FindVerdict(t, v)
      PROVE  YesExclude'
  <2>1. \A u, w \in Tx : Conflict(u, w) <=> Conflict(w, u)
    BY DEF Conflict
  <2>2. \A u \in Tx : u # t => verdict'[u] = verdict[u]
    BY <1>1 DEF FindVerdict, TypeOK
  <2>3. verdict'[t] = v
    BY <1>1 DEF FindVerdict, TypeOK
  <2>4. v = "yes" => \A u \in Tx : Conflict(t, u) => verdict[u] # "yes"
    BY <1>1 DEF FindVerdict
  <2>5. \A u \in Tx : Conflict(t, u) => t # u
    BY DEF Conflict
  <2> QED
    BY <2>1, <2>2, <2>3, <2>4, <2>5 DEF YesExclude
<1>2. CASE UNCHANGED verdict
  BY <1>2 DEF YesExclude
<1>3. ASSUME NEW t \in Tx, Checks(t) PROVE UNCHANGED verdict
  BY <1>3 DEF Checks, CheckNews, CheckRevokes, Enter, LockForCreate, LockToRevoke, Skip, Takes,
              TakePosition, outcome
<1>4. ASSUME NEW t \in Tx, Commit(t) \/ CommitFails(t) \/ Rollback(t) PROVE UNCHANGED verdict
  BY <1>4 DEF Commit, CommitFails, Rollback, Settles
<1> QED
  BY <1>1, <1>2, <1>3, <1>4 DEF Next, Concludes, vars, outcome

LEMMA StepTokens ==
  ASSUME Separate, Holding, YesExclude, Tokens, [Next]_vars
  PROVE  Tokens'
<1>1. ASSUME Quiet PROVE Tokens'
  BY <1>1, QuietTokens DEF Quiet
<1>2. TypeOK
  BY DEF Holding
<1>3. CASE UNCHANGED vars
  BY <1>1, <1>3 DEF vars, ledger, check, kept, outcome, Quiet
<1>4. ASSUME NEW t \in Tx, Checks(t) PROVE Tokens'
  <2>1. ASSUME NEW i \in Item, LockForCreate(t, i) PROVE Tokens'
    BY <1>1, <1>2, <2>1, QuietSteps, LockForCreateTokens
  <2>2. ASSUME NEW i \in Item, LockToRevoke(t, i) PROVE Tokens'
    BY <1>1, <1>2, <2>2, QuietSteps, LockToRevokeTokens
  <2>3. ASSUME NEW i \in Item, NEW p \in {"news", "revokes"}, Skip(t, p, i) PROVE Tokens'
    BY <1>1, <1>2, <2>3, QuietSteps
  <2>4. CASE CheckNews(t) \/ CheckRevokes(t) \/ TakePosition(t)
    BY <1>1, <1>2, <2>4, QuietSteps
  <2> QED
    BY <1>4, <2>1, <2>2, <2>3, <2>4 DEF Checks
<1>5. ASSUME NEW t \in Tx, Concludes(t) PROVE Tokens'
  <2>1. ASSUME NEW v \in {"yes", "no", "expired"}, FindVerdict(t, v) PROVE Tokens'
    BY <1>1, <1>2, <2>1, QuietSteps
  <2>2. CASE Commit(t) \/ CommitFails(t) \/ Rollback(t)
    BY <2>2, CommitTokens, CommitFailsTokens, RollbackTokens
  <2> QED
    BY <1>5, <2>1, <2>2 DEF Concludes
<1> QED
  BY <1>3, <1>4, <1>5 DEF Next

\* A node never votes for two transactions that consume or create the same item
\* (lockToRevoke, lockForCreate), whatever it committed early or failed to; proved where
\* no transaction revokes what it creates itself.
THEOREM NoDoubleVote == ASSUME Separate PROVE Spec => []VotesExclude
<1> DEFINE IInv == Holding /\ YesExclude /\ Tokens
<1>1. Init => IInv
  BY InitHolding, InitTokens
<1>2. IInv /\ [Next]_vars => IInv'
  <2>1. Holding => TypeOK
    BY DEF Holding
  <2> QED
    BY <2>1, StepHolding, StepYes, StepTokens
<1>3. IInv => VotesExclude
  <2> SUFFICES ASSUME IInv, NEW t \in Tx, NEW u \in Tx, Conflict(t, u),
                      rec[t] = "PENDING_POSITIVE", rec[u] = "PENDING_POSITIVE"
               PROVE  FALSE
    BY DEF VotesExclude
  <2>1. t # u
    BY DEF Conflict
  <2>2. \A w \in {t, u} : /\ \A i \in News[w] : Creates(w, i)
                          /\ \A i \in Revokes[w] : Consumes(w, i)
    BY DEF Holding, Support, SupportOf, Creates, Consumes
  <2>3. CASE News[t] \cap News[u] # {}
    BY <2>1, <2>2, <2>3, InTouched DEF Tokens, OneCreator
  <2>4. CASE Revokes[t] \cap Revokes[u] # {}
    BY <2>1, <2>2, <2>4, InTouched DEF Tokens, OneConsumer
  <2> QED
    BY <2>3, <2>4 DEF Conflict
<1> QED
  BY <1>1, <1>2, <1>3, PTL DEF Spec

=============================================================================
