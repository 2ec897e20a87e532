------------------------------ MODULE ItemLocks ------------------------------
(***************************************************************************)
(* What transactions do to the items they consume and create, in the       *)
(* ledger of one node: the locks of a check, and the commit or rollback    *)
(* that follows the network's verdict (jssrc/itemprocessor.js), on         *)
(* StateRecords (jssrc/staterecord.js) that the Ledger keeps both in the   *)
(* database and in a cache of objects (jssrc/ledger.js).                   *)
(*                                                                         *)
(* A transaction is a root item with the items it revokes and its new      *)
(* items.  The election is left out (ItemElection has it): a verdict may   *)
(* come at any time.  Records do not expire here, a database transaction   *)
(* is one step, and the root's own record is rec.                          *)
(***************************************************************************)
EXTENDS Integers, FiniteSets

CONSTANTS Item,       \* the items that transactions revoke and create
          Existing,   \* the items that are in the ledger from the start
          Tx,         \* the transactions
          Nobody,     \* lockedByRecordId 0
          Revokes,    \* Revokes[t]: the revokingItems of t and its new items
          News,       \* News[t]: the newItems of t, and theirs
          Contrary,   \* bound: what the network may approve before this node
          Expiring    \* bound: whose election may expire on this node

ASSUME LocksAssumption ==
  /\ Existing \subseteq Item
  /\ Nobody \notin Tx
  /\ Revokes \in [Tx -> SUBSET Item]
  /\ News \in [Tx -> SUBSET Item]
  /\ Contrary \subseteq Tx /\ Expiring \subseteq Tx

\* Transactions the nodes of the network do not approve both: each node locks
\* what it votes for, and two approvals share a voter (NetConfigSizes).
Conflict(t, u) ==
  t # u /\ (Revokes[t] \cap Revokes[u] # {} \/ News[t] \cap News[u] # {})

Locked == {"LOCKED", "LOCKED_FOR_CREATION", "LOCKED_FOR_CREATION_REVOKED"}
Present == {"APPROVED", "LOCKED", "REVOKED"}
ItemState == Locked \cup Present \cup {"UNDEFINED"}

\* A StateRecord of an item; recordId tells the rows an item had in turn apart
StateRecord == [state : ItemState, lockedBy : Tx \cup {Nobody}, recordId : Nat]
Record(state, owner, id) == [state |-> state, lockedBy |-> owner, recordId |-> id]
NoRecord == Record("UNDEFINED", Nobody, 0)

VARIABLES row,      \* row[i]: the row of i in the table ledger, or NoRecord
          cache,    \* cache[i]: its object in cachedRecords, or NoRecord
          lastId,   \* the last recordId given
          phase,    \* phase[t]: how far t's check is
          todo,     \* todo[t]: the items this phase has still to lock
          failed,   \* failed[t]: the check found errors
          toRevoke, \* toRevoke[t][i]: the object of i in lockedToRevoke of
                    \* t's processor, or NoRecord
          toCreate, \* toCreate[t][i]: the one in its lockedToCreate
          verdict,  \* verdict[t]: what the election came to
          early,    \* history: what was approved before this node was ready
          settled,  \* settled[t]: the commit or the rollback has run
          rec       \* rec[t]: state of t's own record

ledger == <<row, cache, lastId>>
check == <<phase, todo, failed>>
kept == <<toRevoke, toCreate>>
outcome == <<verdict, early, settled, rec>>
vars == <<ledger, check, kept, outcome>>

NothingKept == [i \in Item |-> NoRecord]

Init ==
  /\ row = [i \in Item |-> IF i \in Existing THEN Record("APPROVED", Nobody, 1) ELSE NoRecord]
  /\ cache = [i \in Item |-> NoRecord]
  /\ lastId = 1
  /\ phase = [t \in Tx |-> "new"]
  /\ todo = [t \in Tx |-> {}]
  /\ failed = [t \in Tx |-> FALSE]
  /\ toRevoke = [t \in Tx |-> NothingKept]
  /\ toCreate = [t \in Tx |-> NothingKept]
  /\ verdict = [t \in Tx |-> "none"]
  /\ early = {}
  /\ settled = [t \in Tx |-> FALSE]
  /\ rec = [t \in Tx |-> "PENDING"]

-----------------------------------------------------------------------------
\* Ledger.getRecord: the object in the cache goes before the row.
Found(i) == IF cache[i] # NoRecord THEN cache[i] ELSE row[i]

\* Ledger.save: the object enters the cache, and the row of its recordId, if
\* there still is one, is updated.
Saved(i, r) == IF row[i].recordId = r.recordId THEN r ELSE row[i]

\* Mutant: the object does not enter the cache
SaveToRowOnly(i, r) ==
  /\ row' = [row EXCEPT ![i] = Saved(i, r)]
  /\ UNCHANGED <<cache, lastId>>

Save(i, r) ==
  /\ cache' = [cache EXCEPT ![i] = r]
  /\ row' = [row EXCEPT ![i] = Saved(i, r)]
  /\ UNCHANGED lastId

Fails(t) == failed' = [failed EXCEPT ![t] = TRUE]

-----------------------------------------------------------------------------
(***************************************************************************)
(* The check: checkSubItemsOf locks the new items, then the revoking ones. *)
(***************************************************************************)

\* Nothing more is checked once the election is over.
Enter(t, p, items) ==
  /\ phase' = [phase EXCEPT ![t] = IF verdict[t] = "none" THEN p ELSE "checked"]
  /\ todo' = [todo EXCEPT ![t] = IF verdict[t] = "none" THEN items ELSE {}]
  /\ UNCHANGED <<failed, ledger, kept, outcome>>

CheckNews(t) == phase[t] = "new" /\ Enter(t, "news", News[t])

CheckRevokes(t) ==
  /\ phase[t] = "news"
  /\ todo[t] = {}
  /\ Enter(t, "revokes", Revokes[t])

Takes(t, p, i) ==
  /\ phase[t] = p
  /\ i \in todo[t]
  /\ todo' = [todo EXCEPT ![t] = @ \ {i}]
  /\ UNCHANGED <<phase, outcome>>

\* A record that is not PENDING any more locks nothing: the error is logged.
Skip(t, p, i) ==
  /\ Takes(t, p, i)
  /\ rec[t] # "PENDING"
  /\ UNCHANGED <<failed, kept, ledger>>

\* Mutant: any row will do for a lock (isJustCreated is not asked for)
LockExisting(t, i) ==
  /\ Takes(t, "news", i)
  /\ rec[t] = "PENDING"
  /\ LET r == IF row[i] = NoRecord THEN Record("LOCKED_FOR_CREATION", t, lastId + 1) ELSE row[i]
     IN  row' = [row EXCEPT ![i] = r] /\ toCreate' = [toCreate EXCEPT ![t][i] = r]
  /\ lastId' = lastId + 1
  /\ UNCHANGED <<cache, toRevoke, failed>>

\* lockForCreate: only a row just created is a lock.
LockForCreate(t, i) ==
  /\ Takes(t, "news", i)
  /\ rec[t] = "PENDING"
  /\ \/ /\ row[i] = NoRecord
        /\ LET r == Record("LOCKED_FOR_CREATION", t, lastId + 1)
           IN  row' = [row EXCEPT ![i] = r] /\ toCreate' = [toCreate EXCEPT ![t][i] = r]
        /\ lastId' = lastId + 1
        /\ UNCHANGED <<cache, toRevoke, failed>>
     \/ /\ row[i] # NoRecord
        /\ Fails(t)
        /\ UNCHANGED <<kept, ledger>>

\* Mutant: what another has locked is locked once more
LockedAgain(t, r) ==
  CASE r.state \in {"APPROVED", "LOCKED"} -> "LOCKED"
    [] r.state = "LOCKED_FOR_CREATION" /\ r.lockedBy = t -> "LOCKED_FOR_CREATION_REVOKED"
    [] OTHER -> "none"

\* lockToRevoke: what is approved, or was just locked by t itself.  The object that t
\* locked stays in lockedToCreate: what is to be deleted is another one, with another key.
LockedState(t, r) ==
  CASE r.state = "APPROVED" -> "LOCKED"
    [] r.state = "LOCKED_FOR_CREATION" /\ r.lockedBy = t -> "LOCKED_FOR_CREATION_REVOKED"
    [] OTHER -> "none"

LockToRevoke(t, i) ==
  /\ Takes(t, "revokes", i)
  /\ rec[t] = "PENDING"
  /\ LET s == LockedState(t, Found(i))
         r == Record(s, t, Found(i).recordId)
     IN  \/ /\ s # "none"
            /\ Save(i, r) /\ toRevoke' = [toRevoke EXCEPT ![t][i] = r]
            /\ UNCHANGED <<toCreate, failed>>
         \/ s = "none" /\ Fails(t) /\ UNCHANGED <<kept, ledger>>

\* Mutant: the errors of the sub-items are not looked at
TakePositive(t) ==
  /\ phase[t] = "revokes"
  /\ todo[t] = {}
  /\ phase' = [phase EXCEPT ![t] = "checked"]
  /\ rec' = [rec EXCEPT ![t] = IF verdict[t] # "none" THEN @ ELSE "PENDING_POSITIVE"]
  /\ UNCHANGED <<todo, failed, kept, ledger, verdict, early, settled>>

\* commitCheckedAndStartPolling
TakePosition(t) ==
  /\ phase[t] = "revokes"
  /\ todo[t] = {}
  /\ phase' = [phase EXCEPT ![t] = "checked"]
  /\ rec' = [rec EXCEPT ![t] =
       IF verdict[t] # "none" THEN @
       ELSE IF failed[t] THEN "PENDING_NEGATIVE" ELSE "PENDING_POSITIVE"]
  /\ UNCHANGED <<todo, failed, kept, ledger, verdict, early, settled>>

-----------------------------------------------------------------------------
(***************************************************************************)
(* The verdict                                                             *)
(***************************************************************************)

\* vote, or the end of polling
FindVerdict(t, v) ==
  /\ verdict[t] = "none"
  /\ v = "yes" => /\ t \in Contrary \/ rec[t] = "PENDING_POSITIVE"
                  /\ \A u \in Tx : Conflict(t, u) => verdict[u] # "yes"
  /\ v = "expired" => t \in Expiring /\ phase[t] = "checked"
  /\ verdict' = [verdict EXCEPT ![t] = v]
  /\ early' = IF v = "yes" /\ rec[t] # "PENDING_POSITIVE" THEN early \cup {t} ELSE early
  /\ UNCHANGED <<ledger, check, kept, settled, rec>>

Settles(t, s) ==
  /\ ~settled[t]
  /\ settled' = [settled EXCEPT ![t] = TRUE]
  /\ rec' = [rec EXCEPT ![t] = s]
  /\ UNCHANGED <<check, verdict, early>>

\* The sets of the processor are cleared.
Forgets(t) ==
  /\ toRevoke' = [toRevoke EXCEPT ![t] = NothingKept]
  /\ toCreate' = [toCreate EXCEPT ![t] = NothingKept]

\* approve and revoke, of the object a commit makes of the item's row; there
\* is a row by then, inserted PENDING if need be.
Approvable(i) == row[i] = NoRecord \/ row[i].state = "LOCKED_FOR_CREATION"

Revocable(i) == row[i].state \in {"LOCKED", "LOCKED_FOR_CREATION_REVOKED"}

CanCommit(t) ==
  /\ \A i \in News[t] : Approvable(i)
  /\ \A i \in Revokes[t] : i \notin News[t] /\ Revocable(i)

Committed(t, i, id) ==
  [row[i] EXCEPT !.state = IF i \in News[t] THEN "APPROVED" ELSE "REVOKED",
                 !.recordId = IF row[i] = NoRecord THEN id ELSE @]

\* downloadAndCommit: the locks of the check are forgotten, whoever holds locks
\* on the same items keeps objects of its own.
Commit(t) ==
  /\ verdict[t] = "yes"
  /\ CanCommit(t)
  /\ Settles(t, "APPROVED")
  /\ row' = [i \in Item |-> IF i \in News[t] \cup Revokes[t]
                            THEN Committed(t, i, lastId + 1) ELSE row[i]]
  /\ cache' = [i \in Item |-> IF i \in News[t] \cup Revokes[t]
                              THEN row'[i] ELSE cache[i]]
  /\ lastId' = lastId + 1
  /\ Forgets(t)

\* Mutant: the transaction is not rolled back
CommitsInPart(t) ==
  /\ verdict[t] = "yes"
  /\ ~CanCommit(t)
  /\ Settles(t, rec[t])
  /\ row' = [i \in Item |-> IF i \in Revokes[t] /\ Revocable(i)
                            THEN Committed(t, i, 0) ELSE row[i]]
  /\ UNCHANGED <<cache, lastId, kept>>

\* ... an item cannot be approved or revoked: the database is as before, the
\* cache keeps what was saved up to there.
CommitFails(t) ==
  /\ verdict[t] = "yes"
  /\ ~CanCommit(t)
  /\ Settles(t, rec[t])
  /\ \E saved \in SUBSET (News[t] \cup Revokes[t]) :
       /\ \A i \in saved : IF i \in News[t] THEN Approvable(i) ELSE Revocable(i)
       /\ saved \subseteq News[t] \/ News[t] \subseteq saved
       /\ cache' = [i \in Item |-> IF i \in saved THEN Committed(t, i, lastId + 1) ELSE cache[i]]
  /\ lastId' = lastId + 1
  /\ UNCHANGED <<row, kept>>

\* Mutant: locks for creation stay
UnlockedOnce(r) == IF r.state = "LOCKED" THEN Record("APPROVED", Nobody, r.recordId) ELSE r

\* unlock, of an object kept: a lock for creation is destroyed, row and all.
Unlocked(r) == IF r.state = "LOCKED" THEN Record("APPROVED", Nobody, r.recordId) ELSE NoRecord

\* Mutant: the verdict is recorded for the state
RollbackTo(t) ==
  /\ verdict[t] \in {"no", "expired"}
  /\ Settles(t, verdict[t])
  /\ UNCHANGED <<ledger, kept>>

\* What the unlock of an object kept makes of a row and of a cached record
UnlockedRow(object, r) ==
  IF object # NoRecord /\ object.recordId = r.recordId THEN Unlocked(object) ELSE r

UnlockedCache(object, r) == IF object # NoRecord THEN Unlocked(object) ELSE r

\* rollbackChanges: lockedToRevoke first, then lockedToCreate
Rollback(t) ==
  /\ verdict[t] \in {"no", "expired"}
  /\ Settles(t, IF verdict[t] = "no" THEN "DECLINED" ELSE "UNDEFINED")
  /\ row' = [i \in Item |->
               UnlockedRow(toCreate[t][i], UnlockedRow(toRevoke[t][i], row[i]))]
  /\ cache' = [i \in Item |->
                 UnlockedCache(toCreate[t][i], UnlockedCache(toRevoke[t][i], cache[i]))]
  /\ Forgets(t)
  /\ UNCHANGED lastId

-----------------------------------------------------------------------------
Checks(t) ==
  \/ CheckNews(t)
  \/ CheckRevokes(t)
  \/ \E i \in Item :
       \/ LockForCreate(t, i)
       \/ LockToRevoke(t, i)
       \/ \E p \in {"news", "revokes"} : Skip(t, p, i)
  \/ TakePosition(t)

Concludes(t) ==
  \/ \E v \in {"yes", "no", "expired"} : FindVerdict(t, v)
  \/ Commit(t)
  \/ CommitFails(t)
  \/ Rollback(t)

Next == \E t \in Tx : Checks(t) \/ Concludes(t)

Spec == Init /\ [][Next]_vars

-----------------------------------------------------------------------------
TypeOK ==
  /\ {row, cache} \subseteq [Item -> StateRecord]
  /\ lastId \in Nat
  /\ phase \in [Tx -> {"new", "news", "revokes", "checked"}]
  /\ todo \in [Tx -> SUBSET Item]
  /\ failed \in [Tx -> BOOLEAN]
  /\ {toRevoke, toCreate} \subseteq [Tx -> [Item -> StateRecord]]
  /\ verdict \in [Tx -> {"none", "yes", "no", "expired"}]
  /\ early \in SUBSET Contrary
  /\ settled \in [Tx -> BOOLEAN]
  /\ rec \in [Tx -> {"PENDING", "PENDING_POSITIVE", "PENDING_NEGATIVE",
                     "APPROVED", "DECLINED", "UNDEFINED"}]

\* A node never supports two transactions that consume or create the same item
\* at a time: this is what a quorum makes "no double spending" of (lockToRevoke,
\* lockForCreate).
VotesExclude ==
  \A t, u \in Tx :
    Conflict(t, u) => ~(rec[t] = "PENDING_POSITIVE" /\ rec[u] = "PENDING_POSITIVE")

\* What an approved transaction did to the ledger stands: "the contract once
\* approved by the network is now revoked and is being kept" (ItemState.REVOKED),
\* and its new items are there.
ApprovedStands ==
  \A t \in Tx : rec[t] = "APPROVED" =>
    /\ \A i \in Revokes[t] : row[i].state = "REVOKED"
    /\ \A i \in News[t] : row[i].state \in Present

Touched(t) == Revokes[t] \cup News[t]

\* Nothing was approved of what touches i before this node was ready for it.
Prompt(i) == \A u \in early : i \notin Touched(u)

\* Only the commit of a transaction that the node was not ready for can undo what an
\* approved one did: no rollback, failed commit or late lock does, though they all work
\* on objects read earlier.
PromptApprovalStands ==
  \A t \in Tx : rec[t] = "APPROVED" =>
    /\ \A i \in Revokes[t] : Prompt(i) => row[i].state = "REVOKED"
    /\ \A i \in News[t] : Prompt(i) => row[i].state \in Present

\* The network approved t, and its commit failed (IllegalStateError of approve or revoke).
Failed(t) == verdict[t] = "yes" /\ settled[t] /\ rec[t] # "APPROVED"

\* Nothing is consumed for nothing: a revoked item was revoked by a transaction
\* this node holds approved, whatever failed or was rolled back in between.
SpendingIsApproved ==
  \A i \in Item : row[i].state = "REVOKED" =>
    \E t \in Tx : rec[t] = "APPROVED" /\ i \in Revokes[t]

\* No lock outlives its transaction, but where a commit failed: then the locks of its
\* check stay (downloadAndCommit, after the catch).  Neither a rollback nor a commit
\* leaves any, whatever the records it kept have become meanwhile.
LocksAreReleased ==
  \A i \in Item :
    row[i].state \in Locked /\ settled[row[i].lockedBy] => Failed(row[i].lockedBy)

\* The locks a node voted on are there until the commit: what it found in the cache when
\* it locked was in the ledger, though commits that failed and were rolled back "to its
\* initial state" (Ledger.transaction) leave their records in the cache.
VotesAreLocked ==
  \A t \in Tx : rec[t] = "PENDING_POSITIVE" /\ ~settled[t] =>
    \A i \in Touched(t) : Prompt(i) =>
      /\ row[i].lockedBy = t
      /\ row[i].state = CASE i \in Revokes[t] \ News[t] -> "LOCKED"
                          [] i \in News[t] \ Revokes[t] -> "LOCKED_FOR_CREATION"
                          [] OTHER -> "LOCKED_FOR_CREATION_REVOKED"

\* The commit of what the network approved fails for two reasons only: the transaction
\* revokes what it creates (approve knows no LOCKED_FOR_CREATION_REVOKED), or the
\* network was ahead of this node, with it or with another one of the same items.
ApprovedIsCommitted ==
  \A t \in Tx : Failed(t) =>
    \/ News[t] \cap Revokes[t] # {}
    \/ \E u \in early : Touched(u) \cap Touched(t) # {}

=============================================================================
