# U8 node: specifications, model checking and proofs

U8 is the Universa network node on a JavaScript engine embedded in C++. A
network of such nodes votes on *items* (contracts): every node checks an item
against its own ledger, tells the others its position, and records the item
APPROVED or DECLINED when a threshold of positions is met. This directory holds
TLA+ specifications of that core, the TLC configurations that check them on
small networks, and TLAPS proofs for networks of any size.

Paths below are relative to `src/`; line numbers are of the commit the
specifications were written from. `PROJECT.json` maps every definition to the
lines it stands for.

The system has two layers. The JavaScript of `jssrc/` and `jslib/` is the node; the
C++ of `network/`, `tools/`, `js_bindings/`, `db/` and `AsyncIO/` carries it. Most of
the models are of the node, which holds the protocol; `UdpSession`, `AutoThreadPool`
and `WorkerPools` are of the C++ under it.

## 1. The system

| Component | Source | State it keeps | Operations | Modelled in |
|---|---|---|---|---|
| Network thresholds | `jslib/config.js` | positive, negative and resync thresholds | `updateConsensus` | NetConfig, NetConfigSizes |
| Item election | `jssrc/itemprocessor.js`, `jssrc/node.js` | per item: processing state, votes, record, timers | register, notification, download, check, poll, vote, commit, rollback, emergency break, send consensus | ItemElection, ItemVerdict |
| Parcel commit | `jssrc/parcelprocessor.js` | per parcel: two item processors, commit events, blocks | `process` | ParcelCommit |
| Locks and records | `jssrc/staterecord.js`, `jssrc/ledger.js`, sub-item checks of `itemprocessor.js` | rows, record cache, locks held by checks | lockToRevoke, lockForCreate, unlock, approve, revoke, commit, rollback | ItemLocks |
| Resync | `jssrc/resyncprocessor.js` | per item: answers by state, resyncing state | start, answer, vote, forced commit, timeout | Resync |
| Sanitation | `jssrc/node.js` | recordsToSanitate, sanitatingIds | start, timeout, done, failed, removeLocks | Resync |
| Item lock and buffered findOrCreate | `jslib/lock.js`, `jssrc/ledger.js` | the lock of each item, buffers of inserts and their promises, open database transactions | synchronize, findOrCreate, flush, arrayFindOrCreate, arraySave | LedgerWrites |
| AsyncEvent, executors | `jslib/executorservice.js` | one-shot events, timers | fire, await, run | events in ParcelCommit, timers as fairness |
| UDP transport | `network/UDPAdapter*.cpp` | per peer: a Session (to send) and a SessionReader with its candidate (to receive): state, nonces, key, retransmit map, seen ids; output queue | send, the handlers of nine packet types, restart of a handshake, retransmission | UdpSession |
| Thread pool | `tools/AutoThreadPool.cpp` | task queue, threads, counts of required, active and parked ones | execute, Blocker, parking and waking | AutoThreadPool |
| Script workers | `js_bindings/worker_bindings.cpp`, `jslib/worker.js` | lists of idle and used workers; per worker: loop, source, callbacks | getWorker, farcall, terminate, release | WorkerPools |
| Connection pool | `db/PGPool.cpp` | idle and used connections | withConnection, release | not modelled, see hazards |
| UBot network | `jssrc/ubot/`, `jslib/ubot/` | pools, sessions, storages | vote for session, execute, agree on storage | planned |
| Services | `jssrc/services/`, `jssrc/contractsservice.js` | subscriptions, storages, names, environments | hooks of a commit | not modelled |
| Contracts and cryptography | `jslib/contract.js`, `jslib/roles.js`, `crypto/` … | none beyond the contract | check, sign, seal | not modelled: a check passes or fails |
| Clients' HTTP, DNS, database driver, async I/O, the rest of the script engine, fixed pools and timers, BOSS, Ethereum | see `PROJECT.json` | connections, buffers, handles | I/O | not modelled |

**How they interact.** `Node.onNotification` and `Node.registerItem` find or
create the `ItemProcessor` of an item under a lock by id. Processors talk to
each other only through notifications, sent by `Network` over UDP; within a node
they share the `Ledger` (and its cache of `StateRecord` objects). A
`ParcelProcessor` owns the processors of its payment and payload: they hand it
their database work as *blocks* through `AsyncEvent`s and wait, holding the
item's mutex, until it fires their `parcelCommitEvent`. A check takes locks in
the ledger for the sub-items it consumes and creates; the commit or rollback of
the election settles them. Statements of one database transaction wait for rows
that another open one wrote, while the node's locks of items are held. When a node is stopped in between, the sanitation of
the next start polls the network (`ResyncProcessor`) and settles them.

Below it, each `Network.broadcast` is a `UDPAdapter::send`, whose payload goes over a
session that the two nodes set up by a handshake. The packets are
handled on the thread of the socket, sent on that of `senderPool_` and repeated on that of the
timer, under one mutex, which the sending task leaves to encrypt. Long work of the
bindings runs on the default `AutoThreadPool`; scripts of UBots run in workers, each an
engine with a thread and a loop of callbacks: the main thread reaches them through the pool, and they reach it
through its loop.

**What is hard.** One node is one JavaScript thread, but every `await` is a
point where votes, timers and other processors run: state read before it is
stale after it. Notifications are lost, repeated and reordered; a node's answer
changes as verdicts spread. Timeouts (elections, waits of a parcel, resyncs)
race late answers. `StateRecord` objects outlive the rows they were read from.
In the C++ layer the threads are real: what was read under a mutex is used after it,
handshakes of the two ends overlap while old packets arrive, a reboot leaves the other end
with a key nobody has, waiting tasks take the threads that would end their waiting, and
messages to a worker outlive the session that sent them.
The hazards are listed one by one, at their lines, in `PROJECT.json`.

**What makes each part correct.**
- thresholds: no set of votes meets two of them, two approvals share a voter, a
  full turnout decides;
- election: nodes agree, verdicts are backed by positions the nodes took
  themselves, are never taken back, and come;
- parcel: nothing is settled against a consensus, an expired payload costs
  nothing, nobody waits for good;
- locks: a node supports one of two conflicting transactions at a time, what an
  approved one did stands, locks end with their transactions;
- ledger writes: nobody waits for good for a lock, a batch or a row; nothing a
  transaction inserted outlives its rollback;
- resync and sanitation: only the network's verdict is saved, what it refused
  is undone, sanitation ends;
- UDP transport: the two ends come to the same key, a payload is handed over once by a reader and
  disappears only where the code drops it, and what is given to send is sent in the end;
- thread pool: one thread is left to take the next task, whoever blocks and parks;
- script workers: a worker has one session, answers go to who asked, sessions end.

## 2. The modules

| Module | Content |
|---|---|
| `NetConfig` | the three thresholds as functions of the network size |
| `NetConfigSizes`, `MCNetConfig` | a network growing to MaxNodes; the thresholds' properties, checked and proved, with the lemmas on their arithmetic |
| `ItemVerdict` | abstract: every node takes a side once and records what enough nodes support |
| `ItemElection`, `MCItemElection` | the election on one item, all nodes |
| `ItemElectionProofs` | its inductive invariant and theorems |
| `ParcelCommit`, `MCParcelCommit` | one parcel on one node |
| `ParcelCommitProofs` | its inductive invariant and theorems |
| `ItemLocks`, `MCItemLocks` | conflicting transactions on one node's ledger |
| `ItemLocksProofs` | its inductive invariants (in any case; for items the node was ready for; without double votes) and theorems |
| `LedgerWrites`, `MCLedgerWrites` | the waits between item locks, batched inserts and database transactions of one node |
| `LedgerWritesProofs` | its types, what a rollback leaves, what a commit leaves |
| `Resync`, `MCResync` | recovery of a stopped node |
| `ResyncProofs` | what is saved by force, and what becomes of the locks |
| `UdpSession`, `MCUdpSession` | one direction of the transport between two nodes |
| `UdpSessionProofs` | its five inductive invariants and theorems |
| `AutoThreadPool` | the thread pool |
| `WorkerPools`, `MCWorkerPools` | script workers and their sessions, composed with the thread pool |
| `WorkerPoolsProofs` | the inductive invariants of the pool, alone and in that composition; a worker's one owner, a session's own answers, types |

`NetConfig` is extended by every module that counts votes, so all use the code's
thresholds. The modules overlap by assumption: ParcelCommit and ItemLocks take a
verdict as an input that may come at any time (ItemElection produces it), and
ItemLocks' default is that the network does not approve two conflicting
transactions, which follows from its own `VotesExclude` on every node and
from `ApprovalsShareANode` (NetConfigSizes). Mutated definitions, each with a
comment `Mutant:`, stand before the definition they alter; they are not part of
any specification.

### ItemElection
`proc[n]` is the processing state of n's `ItemProcessor` ("NONE": it has none),
`rec[n]` the state of the item's record, `copy[n]` whether the item was
downloaded, `yes[n]`/`no[n]` the two vote sets of the processor, `jobs[n]` the commits and
rollbacks that were scheduled and wait for the mutex, `check[n]` whether `checkItem` is
in the awaits of the check or in that of `commitCheckedAndStartPolling`, `net` all notifications ever
sent. `ballot`, `gaveUp` and `quit` are history: the first position of each node, the nodes that
destroyed a record they may have voted with, and whether a processor broke off, in
particular when the job of a verdict was due.

One action per handler: `Submit` (registerItem), `Discover`/`Answer`/`Receive`
(obtainCommonNotification when the item is new, decided, or under way), `AnswerLate`
(the same for a processor that has left meanwhile), `Download`, `TakePosition` and
`PublishPosition` (the two sides of the await in commitCheckedAndStartPolling),
`CheckBreaks`, `SaveFails`, `CheckFindsPosition`, `Poll` and `PollingExpires`, `Commit`,
`CommitFails`, `CommitBreaks`, `CommitTimesOut`, `Decline`, `Rollback`, `RollbackFails`,
`SendConsensus`, `ConsensusReceivedExpires`.

A check outlasts the election: votes are counted during its awaits, and it may break
when a consensus has been found and its job scheduled. `emergencyBreak` cancels no
job (1360–1377): its rollback comes in addition, the processor is FINISHED, and both jobs run, in either
order. A job may also outlive its processor, which the first one removes.

Bounds: a processor of a `Quitter` breaks off once; the commit of a `Failing` node misses a
sub-item only where nothing has broken off yet; no processor is created while a job of an
earlier one waits. Left out: a late job that starts the sender of a processor
removed before; what a check does in one that was removed (it changes no state).
Other abstractions: the item has no content (a check passes or not, freely); states
that count the same in `vote` are one; a notification that does not ask adds
nothing to one that asks, so only the latter is kept; resync states of the
processor are left out; the item is not part of a parcel.

### ParcelCommit
`stage` is the await `ParcelProcessor.process` stands at. Each item has its
processing state, the job holding its mutex, the block it handed over
(`itemCommitEvent`), and its `parcelCommitEvent`. Actions are the code between two
awaits of `process`, and the steps of the two processors it depends on. `checking` are the
items whose check is under way: it may outlast the consensus, and a break then adds a
rollback to the job that waits.
Abstractions: one parcel; its download and the votes delayed until its
processors exist are left out; a node that passes a payload has passed its payment.

### ItemLocks
`row` is the database, `cache` the ledger's record cache, `toRevoke[t]` and `toCreate[t]` the
`StateRecord` objects that a processor keeps from its check to its rollback, in
`lockedToRevoke` and `lockedToCreate` (objects,
not rows: `recordId` tells the rows an item had in turn apart). A transaction that revokes what it
creates has an object of the item in each: the second lock is a copy, with another key. Locks are taken
item by item, in the order of the code, so that checks interleave; a database
transaction is one step. A commit that fails leaves the database as it was, the records it had
saved in the cache (`CommitFails`), and the locks of its check. `early` is history:
what the network approved before this node was ready for it. Abstractions: the load of the cache on a read, record
expiry and the nesting of new and revoking items are left out; the root's own
record is kept apart; a commit does not meet a DatabaseError (ItemElection has
one).

### LedgerWrites
What ItemLocks takes as one step is here the steps it waits between. `lock[i]` is
the item's entry in `node.lock`, `buffer` and `batches` the inserts of
`findOrCreate` not yet sent and not yet done, `written[t]` the rows an open
transaction wrote: PostgreSQL lets nobody else write those until it ends
(`Writable`), and an `INSERT ... ON CONFLICT DO NOTHING` waits for all rows of its
batch. `found[t]` are the records a commit read before it took the locks. A check
is `CheckItem`, `SendBatch`, `InsertBatch`, `HoldItem`; a commit `StartCommit`,
`FindNews`, `EnterApproval`/`ApproveItem` for every item, `EndCommit`; a rollback
`StartRollback`, `EnterUnlock`/`UnlockItem`, `EndRollback`. Only one caller at a
time is in `findOrCreate` for an item, since each holds the item's lock.
Abstractions: the buffered select is one with the insert it follows (the caller's
lock keeps the row); revoked items, the root's own record, the nesting of new items
and statements that fail are left out.

### Resync
The network's verdict on each root is fixed (`outcome`) and reaches the
ledgers of the other nodes one by one (`Spread`); nodes astray have ledgers that are
wrong for good. `row` and `kept` are the locked items' rows and the
objects read at start, which `removeLocks` works on. `calls` are the executor's
scheduled calls (timeout, retry, failed, done). `Restart` keeps the ledger and
loses the rest. An election may end on the node meanwhile (`Elect`).
Abstractions: environments, the clustering of dates, expired records, other
transactions on the locked items, a second `resyncEnded` by the timer while a commit is
in progress, and two processors for one item are left out; an
answer of a node to one resync is under way once.

### UdpSession
`session` is the `Session` of the sender: its state, the step of its handshake, nonces, key, the parts of
a two-part packet that have come (`parts`), the ids seen, `retransmitMap` and
`outputQueue`. `reader` and `candidate` are the receiver's `SessionReader`s,
`net` the packets under way. `job` is the task that the thread of `senderPool_` is at, with the
state it has read; `pool` what waits there. `handed[p]` is
history: the keys of the readers that handed p to the node.

Each handler of a packet is one action (`OnReceiveHello` … `OnReceiveNack`), as it holds
`socketMutex_` throughout. `send` is five: `Take` reads the state, `Queue` or
`CountIn` acts on it under the mutex, `Seal` encrypts without it, `Post` enters the packet and
sends it; a handshake may restart between any two. `Tick` and `Retransmit` are the pulse of the
sender's timer without and with items due, `ReaderRetransmit` the receiver's. Times are
two flags: `expired` (a handshake may restart) and `rested` (`startHandshake` will not refuse).

Abstractions: packets stand for their ids, nonces and keys are fresh numbers,
signatures and ciphertexts are what they were made of; the two buffers of seen
ids are one set, since they hold an id for 40 s and the last copy of a packet is sent before
(29 s); the due items of one pulse are sent together; a timer goes by
while a packet of the handshake is under way only as often as `slow` allows. Left out:
the other direction (a session and a reader of its own), a reboot of the sender, closing, packets that
do not parse, sessions with more than one peer (they share nothing but the mutex).

### AutoThreadPool
Threads are counted by where they are: at `queue.get()` (`free`), in a task
(`busy`), in one inside a Blocker (`blocked`), between a task and the test for
parking (`finishing`), in `cvPark.wait` (`waiting`), or notified there and still without the mutex
(`woken`); the code's own counts are beside them. Each section under
`mxWorkers` is an action. `Unpark` may wake a thread nobody notified, as `wait` has no
predicate, and `Block` may notify when all parked threads are awake already.
Left out: a bounded queue, and the destructor.

### WorkerPools
It extends AutoThreadPool: `running` says which task each busy thread runs and how far it is, and every
step of a thread is conjoined with the pool's action for it. A task is
`Get` (JsGetWorker: block, take a worker, have its loop reset it, set the source, post
the completion) or `Message` (post a message to the worker of the handle). A worker's loop runs one
callback at a time, but a message is handled by an async function (`worker.js:163`):
`Receives` starts a handler with the functions of the source that the worker has then, and
`Answers` or `Aborts` ends it later, after whatever other messages, resets and sessions
the loop ran in between; `exec[w]` are the handlers under way, each with its `realm`. The main loop also
runs one callback at a time (`Hears`), and while the main thread waits for a worker's reset (`waits`) it does nothing else.
`stopping[w]` is V8's request to terminate: it stays until some script takes
it, not necessarily the one it was meant for. A client is one session, as
`ProcessStartExec` runs it: it gets a worker, calls it, and releases it with its answer, or, when it is out of time or
memory, terminates, flushes and releases it.
Abstractions: one access level; calls from the
worker to its session, preloaded modules and `getProcessorTime` are left out; that
the memory of a worker is low is known by the message it runs.

## 3. The runs

| Run | Question | Bounds | Size |
|---|---|---|---|
| `thresholds` | do the thresholds exclude each other and decide? | 1–400 nodes | 400 states |
| `election_giveup` | … when a node expires, breaks or fails | one of 3 may break off once and fail its transactions | 1.15 million, 2 min |
| `election_live` | do nodes agree, implement the plain vote, and does every election end? | 3 nodes, one entry node with a lossy broadcast | 15 000, 30 s |
| `parcel_settle` | is a parcel settled as voted, does it end, do its items leave? | every timeout, break, known item, failed transaction | 34 000, 20 s |
| `locks_settle` | do the node's votes exclude each other, do its votes' locks, its approvals and its commits hold, do locks end, whatever commits fail? | 4 transactions, one of which revokes what it creates, 2 items; one may be approved early, one may expire | 1.24 million, 1 min |
| `writes_settle` | does every transaction settle, and leave what it should? | 2 transactions that create the same 2 items, a third that shares their batches; the third and one of the two may be approved early | 157 000, 1 min |
| `resync` | is a stopped node's work settled, and does that end? | 3 nodes, one astray; 1 root, 1 lock; 1 disturbance, 1 more stop | 424 000, 1 min |
| `udp_session` | do keys agree, does nothing vanish or come twice, is all sent in the end? | 2 payloads with a reboot and a loss or an item given up; 1 with a reboot and an early timeout; both queues of length 1 | 296 000, 75 s |
| `worker_pools` | does a thread stay free, has a worker one session and a session its own answers, is everyone served? | 2 sessions, 1 worker, 1 core, 3 threads; 1 call each and that of a release; one session may be terminated | 189 000, 50 s |
| `parcel_unpaid`, `locks_revoked`, `writes_early` | violations, section 6 | the smallest that show them | |

**Why the bounds are enough.** Three nodes is the smallest network where a
verdict needs two others' votes to be told from one's own (two "yes" of three
approve, two "no" decline), where one vote decides either way, and where
one node's change of side could be counted twice; the proofs cover the rest.
In `thresholds` 400 includes every size at which rounding behaves differently
(the formulas have period 100) and the first at which a full turnout does
not decide: 110 nodes, where 98 "yes" and 12 "no" meet neither threshold.
Up to 9 nodes the positive threshold is n − 1: one node that has no verdict is
tolerated by a resync, two are not.
A parcel has two items by nature. The four transactions of `locks_settle` (`MCItemLocks`) make
every kind of conflict there is: revoke–revoke, create–create, revoking what
another creates, and revoking one's own new item. Commits fail in it, with part of their work done:
that of `v`, which revokes what it creates, that of `a`, approved ahead of the node, and that of `b`,
which goes on from `a`. The properties that depend on it say for which items (`Prompt`) and transactions. In
`writes_settle` two transactions take both items in every order, also when one of them is
approved over the node's head, and the third shares their batches. In `resync` one root with one lock shows every lock state and order
of calls; several roots meet only in MAX_SANITATING_RECORDS, which one root
does not reach (the constant is there for it).
In `udp_session` two payloads are needed for anything to overtake, fill a queue or wait behind
another one, and one fault with one reboot for a second handshake while the first one's packets are
under way; a third would repeat these. In `worker_pools` two sessions contend for the only
worker, so each state of a worker meets each state of the next session; the pool
goes from one thread to three, so it creates, parks and wakes them. With `Max = 1`, `Served` fails: the
getter that blocks has taken the thread that the holder's call needs. The code has
1024, and `SomeoneIsFree` names the exception.
`Quitter`, `Failing`, `Lossy`, `Expiring`, `GivingUp`, `Known`, `Contrary`, `Early`,
`Astray`, `Electing`, `MaxDisturbed`, `MaxStops`, `Scenario`, `Limited`, `MaxCalls` bound who may fail and how
often; with all of them empty or zero nothing goes wrong.

Deadlock is checked in the election runs, where finished nodes still answer
notifications. It is off where the modelled part really stops: a grown
network, an ended parcel, settled transactions, ended sanitation, sessions of workers that are over.
It is checked in `udp_session`: the timer always runs.

**Fairness.** Timers, scheduled jobs and continuations are run by the node's
event loop: weak fairness. Taking an item's mutex has strong fairness in
ParcelCommit: waiters of `Lock` look again on each release, so one that is
free again and again is taken in the end. Delivery of a notification in
ItemElection and of answers in Resync is weakly fair: the UDP adapter
retransmits, and the timers repeat what is missing. `Lossy` nodes' broadcast may
still fail. Clients, crashes, breaks and expirations owe nothing; the exception is
that a ParcelCommit election ends in one way or another, because `maxElectionsTime`
ends it, and that a resync that heard from everybody without a result expires.
The download of an item has to succeed in `election_live`: a processor created by a
notification without a copy has no other way to go on
(`itemprocessor.js:168`).
In UdpSession the threads and timers are weakly fair and so is the arrival of packets, `Lose`
being an action with a budget; retransmission and the passing of a timeout wait for the
packets under way and are strongly fair, as the clock goes on whatever else happens. In
WorkerPools every thread, loop and task is weakly fair, and a session that holds a worker
comes to release it: `ProcessStartExec` waits for the answer, for the expiry of the request and for
low memory, whichever comes first (one whose `session.close` throws does not, see hazards).

## 4. The proofs

Every invariant and action property of the passing runs, and the refinement of
ItemVerdict, is a theorem that TLAPS checks for every value of the constants. What the
modules assume of them: `MaxNodesAssumption` (a positive number), `NodeAssumption` (a finite,
non-empty set of nodes), `RolesAssumption`, `ParcelAssumption`, `LocksAssumption`,
`WritesAssumption` (items and transactions are any sets, finite or not; who may fail, expire or be
approved early is among them), `ResyncAssumption` (finitely many nodes, this one not astray;
roots and parts apart), `PoolAssumption` and `UdpAssumption` (the limits of
the pool and of the transport are numbers), `WorkerAssumption` (finitely many workers, at least one).

The hypotheses of three theorems are stronger, each for a reason that TLC shows:

- `Separate` (`NoDoubleVote`): no transaction revokes what it creates. The code lets one do so
  (`itemstate.js:56`, `itemprocessor.js:432`), and then a node may vote for two. Let a create y, b revoke y, c
  and v each create and revoke y. v is approved early, and its commit fails: it approves the row of y that a's
  check had inserted, and cannot revoke what is approved. The APPROVED record of that row stays in the
  cache. b locks that record; a is rolled back, and the row goes; c creates y anew, locks it
  to revoke it, and both b and c are PENDING_POSITIVE. The run `locks_settle` has a transaction of
  this kind, `v`: `VotesExclude` holds in that instance, where no early commit fails in this
  way, and is not proved for it. All other theorems about ItemLocks hold with such transactions.
- `FewAstray` (`ForcedIsNetworks`, `RefusedStaysUndone`): fewer nodes are astray than the positive
  threshold. As many as that make up a verdict of their own (two of three, for instance).

They are definitions beside the proofs, not assumptions of the models.

**Thresholds**

- `ThresholdsExclude`: at every size, no set of votes meets the positive and the
  negative, or the positive and the resync threshold. From linear arithmetic
  on the rounded formulas, by the correction `Exclusive`.
- `ApprovalsShareANode`: two approvals share a voter, in every network except of two nodes.
- `TurnoutIsDecisive`: below 110 nodes rounding up adds at most one vote to what the two thresholds
  share (`ThresholdsMeet`), so a full turnout meets one of them.

**ItemElection**

- `TypeCorrect`: types.
- `VerdictsHaveBacking`, `NetworkAgrees`: `VerdictsAreBacked` alone is not
  inductive, since a verdict comes from counted votes, votes from notifications,
  and notifications from records, which change with verdicts. The
  inductive invariant `IInv = TypeOK /\ Backed` says of every link of that chain
  that what it claims is a first position of its node, or the claim of a side
  that has already won: `RecordsBacked`, `NetBacked`, `VotesBacked`,
  `JobsBacked`, `VerdictsAreBacked`. A node counted on
  the other side's set was either backed itself or the side had won before
  (`QuorumWins`). Agreement follows by counting: both sides won
  needs as many nodes that gave up as the thresholds have to spare.
- `VerdictsStay`: no step changes a recorded verdict, but for the rollback of an emergency break that came
  between the consensus and the job that records it (`itemprocessor.js:328`, section 6). Until a scheduled commit or decline
  has run there is no verdict to change (`UndecidedYet`), before the consensus nothing is scheduled and after it one
  job of the two (`JobsBacked`), and a rollback that meets a verdict, or a job that will record one,
  is of such a break (`RollbacksMarked`).
- `ElectionIsAVote`: with nobody giving up, ItemElection implements
  ItemVerdict, for any network.
**ParcelCommit**

- `ExpiredCostsNothing`, `ConsensusIsSettled`: the record of an item follows the block it handed over,
  the block its scheduled job, the job the consensus (`ApprovalsVoted`, `DeclinesVoted`). The
  refund cuts that chain: that no approval comes after it needs that an item votes once
  (`VotesOnce`) and that a commit whose block was there is spent (`CommitsOnce`), so that the only
  block that can follow is the refund's (`RefundStands`). Together they are
  `ParcelInv`; `BlocksReady` (what `process` has waited for is still there) lets
  `CommitBoth` see only blocks.

**ItemLocks**

- `ConsumedOnApproval`: a revoked row has an approved transaction, from `Course` (what is
  settled had a verdict).
- `NoLockOutlives`: a lock in the ledger is an object that its transaction keeps, unless the commit failed
  (`LocksKept`). That needs the inductive invariant `Holding`, of the objects kept and the rows they are of
  (`Objects`), of what a check has locked so far (`Progress`), and of what a vote keeps (`Support`), for any early
  approvals and transactions that revoke what they create.
- `ApprovalsStand`, `VotedIsLocked`, `ApprovedCommits`: for an item of which nothing was approved early
  (`Prompt`) more holds: an object kept is the row (`Holds`), and the cache has the row too, or what a failed
  commit made of a row it holds (`OneObject`). `Clean` says so, together with `PromptApprovalStands`
  and `ApprovedIsCommitted`, and is inductive with `Holding`: commits that fail, and the records and
  locks they leave behind, are in it.
- `NoDoubleVote` (`Separate`): `VotesExclude` speaks of two records, but a vote follows from a check, the check from the
  objects it keeps, and these from what rows and cache told when they were read, which other
  transactions change. `Tokens` follows the locks as tokens: an item has
  one creator and one consumer (`OneCreator`, `OneConsumer`), and while it has a consumer neither the cache nor the
  row says APPROVED to anybody else (`Taken`, `ApprovedOnce`), although a kept object
  may no longer have a row (`Grounds`). A vote keeps all that it asks for (`Support`).

**LedgerWrites**

- `TypeCorrect`: that a row has an inserter needs that each insert in the buffer or a batch has its check waiting,
  with the item's lock (`Queue`, `Locks`), and that a commit has read what it approves (`Reads`).
- `RollbackLeavesNothing`: a row of t is a lock just created, or in `held[t]`, or approved
  (`Kept`), although a batch may insert it long after it was asked for. That nobody writes it
  back after its deletion needs that a check inserts an item once (`Once`), and that a commit of another transaction that
  read the row while its check had the lock has not approved it yet (`ReadsWait`).
- `CommitLeavesAll`: a commit has read a row of each new item and approves it (`Approval`, `Committed`). A row of
  t is there until t rolls back, so what t found of its own is what it leaves (`Found`): a transaction holds rows of its own
  (`HeldRows`), and a check without errors holds all it visited (`Checked`), so that the rows of what is approved are its own, or
  not there yet (`Sure`). Only a transaction approved over the node's head (`Overtaken`: early, and
  contested) may have found rows of another one, and the property excepts these rows and no others.

**Resync**

- `TypeCorrect`: types.
- `ForcedIsNetworks`: what a node that is not astray has, has answered, and is counted with is right
  (`HonestLedgers`, `HonestAnswers`, `HonestVotes`): it may be late, never wrong. A threshold of
  answers has one of them, by counting.
- `SanitationSettles`: while the node is not stopped again, each locked row is the object that `removeLocks`
  will work on, and its root and it are still to be sanitated (`StillToSettle`).
- `RefusedStaysUndone` (an action property): `removeLocks` goes by the saved verdict of the root, which
  `Honest` says cannot be an approval, and works on kept objects, which are still the rows of what the network refused
  (`KeptIsRow`), as no election settles those.

**Thread pool and workers**

- `CountsAlwaysAgree`, `SomeoneIsAlwaysFree`: AutoThreadPool, for any numbers of core and
  maximum threads (`PoolAssumption`: positive, the first not greater) and any tasks. Neither
  invariant is inductive alone: that the last thread does not park needs `required = Core + blocked`, that
  a task that blocks need not create a thread needs `parked = waiting + woken`. Together,
  with the types of the counts (`PoolInv`), they are; the lemma `PoolStepInv` has one step per action.
- `WorkersLeaveSomeoneFree`: every step of WorkerPools is a step of the pool or leaves it alone
  (`PoolSteps`), so both hold there too, for any sessions and workers.
- `WorkersHaveOneOwner`: a worker is idle or one session has it (`WorkerAssumption`: finitely many
  workers). A session has a worker from `GetWorker` on, long before it is told so; releasing it
  is safe only if no second request of the session is on its way. So the inductive
  invariant `OwnerInv` follows the request: it is in one of six places at a time (`OnePlace`:
  the queue of the pool, four stages on a thread, the main loop), and only while the session is
  `asked`; a reset in the loop of a worker is the one its thread waits for (`OneReset`); what sessions
  have is in use and no two have the same (`Owned`), and what is idle is not (`IdleApart`).
- `SessionsHearTheirOwn`: what a session hears is the answer to its own call, computed with its own functions, or to a
  message of a session that released its worker while that message was under way (`hasty`): in the pool, on a
  thread, in the loop, or in a handler that waited. On top of `OwnerInv`, `AnswerInv` says that any other message under way
  is of a session that has a worker, and goes to it (`MessagesHeld`), that this worker has the session's source and
  `onReceiveMain` (`WorkerPrepared`), so that its handlers have the session's functions (`RunsOwn`) and answer it
  (`AnswersOwn`, `GotOwn`), though handlers of others may be waiting on the same worker.
- `WorkersTypeCorrect`: types; that a thread has one task and a task one thread
  needs the pool's counts to be those of `running` (`TaskInv`).

**UdpSession**

- `NoReaderRepeats`: no reader hands a payload over twice, whatever the network loses, repeats
  or reorders, for any payloads and limits. In the inductive invariant `HandedInv`, what was handed over
  under the reader's key is in the reader's `seen`, and no key is higher than `minted`: so a
  candidate that takes over, with nothing seen, has a key nothing was handed over under.
- `EndsHaveOneKey`: a session that exchanges has the reader's key, if the reader has one at
  all. A request is answered with a key at once, but old answers and old requests
  go on arriving, so `KeyInv` speaks of all packets under way, kept for
  retransmission, or kept as half of a message (`Known`): a request the candidate would accept
  is later than every request ever answered (`RequestsFresh`), so an answer that fits the
  session's latest nonce has the key of the reader (`AnswersCurrent`), and the session's key came with such
  an answer (`KeyAnswered`).
- `PayloadsAreKept`: what was given to `send` is handed over, with the task or the pool,
  in the output queue, to be sent again, or counted in `gone`. In `KeptInv`, what is acknowledged or
  seen has been handed over, so an `ACK` and a `NACK` take away nothing that is needed; that queues
  and packets keep their payloads are lemmas on sequences and finite sets (`QueueMoves`,
  `EnqueueKeeps`, `PulseCarries`).

- `TransportTypeCorrect`: types and limits. The key that an end takes from a packet is one that was made because
  every packet that can still come says so (`NumbersInv`, with `KeyInv`). The retransmit map stays within its limit
  only because the thread of `senderPool_` counts a packet in before it encrypts it, and nobody else enters one
  meanwhile (`QueuesInv`, `Room`).

Only model-checked: liveness, that is `ElectionsDecide`, `ProcessorsLeave`, `ParcelsEnd`, `ItemsLeave`,
`AllSettle`, `SanitationEnds`, `Drains` and `Served`. TLAPS' backends here do neither fairness nor
ENABLED. That the integer formulas of NetConfig are what the code's arithmetic in doubles gives was
computed for every size up to a million, outside TLA+.

## 5. Not modelled

The contract layer, cryptography and encodings are functions of
their inputs; the models take their result as free. HTTP, DNS, database driver,
async I/O and the rest of the bindings are I/O: they turn calls into callbacks and
keep no state that two of them share. Services are hooks of a commit with tables of their own. What is planned is
in section 7.

Of the C++ sources, which have some 113 000 lines, more than two thirds are generated or third-party
(`u8core.u8m.c` is the packed script library, `tools/json.hpp`, `network/mongoose/`,
`crypto/gost3411-2012.*`), and most of the others are wrappers of libraries
(`AsyncIO/`, `js_bindings/`, `crypto/`, `serialization/`) and their tests. What has a
protocol of its own is the transport, the thread pool, the workers and the connection pool
(`db/PGPool.cpp`), the last of which is not modelled: its hazards are of single calls
(a callback dropped, a connection released twice) and need no interleaving to happen.

Further hazards met while reading. The first three are in the models, under
properties of other hazards; the others are of code that no module models:

- `itemprocessor.js:669`: a node that destroyed its record votes UNDEFINED, which counts
  against the item; `itemprocessor.js:850`: the network decides before the item is
  downloaded; `staterecord.js:168`: an item created and revoked by one transaction is in a state
  that no step of its commit accepts;
- `ledger.js:582`: the buffered select answers its callers row by row, and one whose row is gone is
  never answered;
- `resyncprocessor.js:126`: `saveResyncedEnvironments` is not awaited, and its promise is always
  true; `node.js:717`, `:719`: of two resyncs of one item that start together one is lost from
  the table, and the `onComplete` of a later caller is dropped;
- `parcelprocessor.js:367`: two parcels with one payment share its processor;
- `db/PGPool.cpp:467`: a closed pool drops the callback of `withConnection`; `:542`: a connection
  released twice puts a null one into the pool;
- `tools/AutoThreadPool.cpp:81`: at the maximum of threads a task that blocks gets no other in its
  place; `ProcessStartExec.js:430`: a `session.close` that throws leaves the worker in use for
  good; `worker_bindings.cpp:450`: a worker sends before the callbacks of its session are set.

## 6. Where the code departs from what it says

Three runs end in a counterexample, each against a sentence of the
source (quoted in `PROJECT.json`).

- `parcel_unpaid`: a consensus on the payload that is found while its payment is
  being refunded is committed with the refund (`parcelprocessor.js:177`).
- `locks_revoked`: a transaction that lost unlocks the record *object* it kept,
  over the row the winner revoked (`itemprocessor.js:1112`). It needs a
  network that approves the winner although this node voted for the loser.
- `writes_early`: a commit that comes before the node's own check inserts the rows of its
  new items in its open transaction and takes their locks afterwards
  (`itemprocessor.js:727`). A check that took such a lock in between waits for the
  row, the commit for the lock, and neither the node nor the database can see the
  whole circle. The same happens with a rollback, which deletes its rows one
  lock after the other (`itemprocessor.js:1124`): with rows {x, y} of a rolled
  back, b and c that check x and y can share a batch, which waits for a's x while c
  holds the lock of y that a still needs. In `writes_settle` a contested transaction may be
  approved early, but `AllSettle` excepts the behaviours in which one is; of the second it has no
  instance, as no third transaction checks one of the two contested items.

Further departures met while modelling, which the properties of the passing runs name and
except, or their bounds exclude, and which no run of its own shows:

- an approval may be destroyed: the check breaks (`itemprocessor.js:328`), or the save of its position does (`:531`),
  when votes have already found the consensus and scheduled the commit; `emergencyBreak` (`:1360`)
  schedules its rollback in addition, the commit records APPROVED, and the rollback then destroys the
  record (`:1143`). `VerdictsAreFinal` excepts this case by name;
- a payload the ledger already has a verdict on gets no processor, `process` uses it
  all the same (`parcelprocessor.js:154`), fails, and releases the waiters while
  its payment is undecided (`MissesProcessor`);
- a record that a commit read before it took the item's lock may be deleted by
  another transaction's rollback meanwhile (the TODO at `itemprocessor.js:733`): the
  approval is saved to no row. It takes a transaction approved over this node's head, and a row
  that another one had inserted: `CommitIsWhole` excepts these rows;
- a commit that is rolled back leaves the records it saved in the ledger's cache
  (`ledger.js:711`), although the ledger promises the state of before. Another check may lock such a record, of a row that
  is gone by the time it votes. `VotesAreLocked` shows that this takes an early approval of
  a transaction with the same item (`Prompt`);
- two transactions that each revoke what they create may get the node's vote at a time as the vote of a
  third is spread over such a record (`Separate` in section 4);
- a wait for the payment that times out awaits the same, rejected event again;
  the rollback then keeps the mutex (`parcelprocessor.js:129`). `ItemsLeave`
  leaves such an abandoned parcel out;
- an item locked both for creation and revocation by one transaction cannot be approved
  (`staterecord.js:168`), so its commit fails; nor does `removeLocks` settle it:
  sanitation drops it and it stays locked (`OnlyLockedLeft`; `LocksAreSettled`
  excludes that lock);
- a commit that comes before the node's own check has locked an existing item
  (`itemprocessor.js:797`) fails, though a consensus earlier than the node's own work is expected there (`:845`), and leaves its
  locks for good; a failed one may make others fail. `ApprovedIsCommitted` says that there
  is no other reason, but that of the item before this one, and `LocksAreReleased` that no other lock stays;
- the UNDEFINED answer of a node whose election expired is a "no"
  (`itemprocessor.js:659`), so an item may be declined with fewer refusals than
  the threshold: `Agreement` and `VerdictsAreBacked` count such nodes in;
- after a second stop between the save of a root's verdict and `removeLocks`, the
  root is no longer unfinished and its locks stay for good: `LocksAreSettled`
  is stated for nodes not stopped again;
- `itemSanitationFailed` destroys a record an election of the node has approved since
  the poll, and gives the items it spent back (`node.js:855`): `RefusedIsUndone`
  speaks of refused roots;
- a payload handed over under a key that a later handshake replaced, and whose packet is
  sent again, is handed over a second time: the new reader knows no ids
  (`network/UDPAdapter.cpp:305`; `UDPAdapterPrivate.h:78` promises protection from
  duplicates). `HandedOnce` is about one reader;
- the comment on `MAX_QUEUE_SIZE` (`network/UDPAdapter.h:305`) has a flag set
  when the queue overflows; there is none, the oldest payload is dropped unseen. `NothingVanishes`
  counts it in `gone`;
- a task that blocks while parked threads are already awake gets no thread in its
  place (`tools/AutoThreadPool.cpp:76`), though the Blocker promises one more
  (`AutoThreadPool.h:63`): with several cores the pool runs with fewer threads than required. One
  is left all the same (`SomeoneIsFree`);
- a session that ends by force may leave messages behind, in the pool, in the loop of the worker, or in
  handlers that wait (`worker.js:163`): they run or go on while the next session has the worker
  (`worker_bindings.cpp:257`), and their answers go, under the number of a call of theirs, to that
  session (`:449`). A session that took such an answer for its own may in turn release the worker while its message is
  under way. `OwnAnswers` says that all answers but these are one's own.

## 7. Plan

Done: NetConfig → ItemVerdict and ItemElection → ParcelCommit → ItemLocks → Resync →
LedgerWrites → UdpSession → AutoThreadPool and WorkerPools, each with the proofs of its invariants.

Next, in this order:

1. **UdpSession**: a refinement of a channel that loses and repeats payloads only across
   handshakes, to which ItemElection's delivery is reduced, and its proof step by step
   (`KeyInv` and `HandedInv` are what it needs); a reboot of the sender.
2. **ItemLocks**: a refinement of an abstract ledger, where an item is free, taken by one
   transaction, or spent; `Holding` is its invariant. The double vote that `Separate` excludes, as a run of its own.
3. **LedgerWrites**: revoked items in the same commit and rollback; the failure of
   a statement.
4. **ParcelCommit**: two parcels that share a payment.
5. **AsyncLock**: `Lock.synchronize` with its waiters: no waiter lost. It justifies
   the strong fairness used above.
6. **Resync**: split `Node.resync` at its await; two roots. A composition with ItemElection (the
   resync states of a processor).
7. **WorkerPools**: calls from a worker to its session.
8. **UBot**: session choice by quorum, pool limits, storage consensus.

## 8. Running

In this directory: `tlc -workers 2 -config MCResync.cfg MCResync` for a run (module
and configuration of each are in `PROJECT.json`), `tlapm ItemElectionProofs.tla`
for a proof.
