--------------------------- MODULE AutoThreadPool ---------------------------
(***************************************************************************)
(* The thread pool of tools/AutoThreadPool.cpp: threads take tasks from a  *)
(* queue, and a task that is about to block says so (Blocker), so that     *)
(* another thread, parked or new, takes its place.                         *)
(*                                                                         *)
(* Threads are counted by where they are.  A thread that has called        *)
(* cvPark.wait is in the wait, or it has been woken and still needs        *)
(* mxWorkers to go on.  Every action is a section under mxWorkers or under *)
(* the mutex of the queue.                                                 *)
(***************************************************************************)
EXTENDS Naturals, Sequences

CONSTANTS Task,   \* the tasks given to the pool
          Core,   \* coreThreadCount, the hardware concurrency
          Max     \* maxThreadCount

ASSUME PoolAssumption ==
  /\ Core \in Nat \ {0} /\ Max \in Nat /\ Core <= Max

VARIABLES queue,      \* the tasks that wait
          threads,    \* threads.size()
          required,   \* requiredThreadCount
          active,     \* activeThreadCount
          parked,     \* parkedThreadCount
          free,       \* the threads at queue.get()
          busy,       \* the threads that run a task
          blocked,    \* ... inside a Blocker
          finishing,  \* ... that have ended one, before the test for parking
          waiting,    \* the threads in cvPark.wait
          woken       \* the threads that have been notified there

counts == <<threads, required, active, parked>>
places == <<free, busy, blocked, finishing, waiting, woken>>
poolVars == <<queue, counts, places>>

PoolInit ==
  /\ queue = <<>>
  /\ threads = Core /\ required = Core /\ active = Core /\ parked = 0
  /\ free = Core /\ busy = 0 /\ blocked = 0 /\ finishing = 0
  /\ waiting = 0 /\ woken = 0

\* execute
Execute(task) == queue' = Append(queue, task) /\ UNCHANGED <<counts, places>>

\* A thread leaves queue.get() with a task.
TakeTask ==
  /\ free > 0 /\ queue # <<>>
  /\ queue' = Tail(queue) /\ free' = free - 1 /\ busy' = busy + 1
  /\ UNCHANGED <<counts, blocked, finishing, waiting, woken>>

\* addActiveThread has something to notify whenever a thread has not left the wait,
\* be it woken already.
WakesParked == parked > 0

\* setBlocking(true) in the outermost Blocker of a task, addActiveThread: a parked
\* thread is notified, or a new one is created if there may be one more.
Block ==
  /\ busy > 0
  /\ busy' = busy - 1 /\ blocked' = blocked + 1 /\ required' = required + 1
  /\ \/ /\ WakesParked
        /\ IF waiting > 0 THEN waiting' = waiting - 1 /\ woken' = woken + 1
           ELSE UNCHANGED <<waiting, woken>>
        /\ UNCHANGED <<threads, active, free>>
     \/ /\ ~WakesParked /\ threads < Max
        /\ threads' = threads + 1 /\ active' = active + 1 /\ free' = free + 1
        /\ UNCHANGED <<waiting, woken>>
     \/ /\ ~WakesParked /\ threads >= Max
        /\ UNCHANGED <<threads, active, free, waiting, woken>>
  /\ UNCHANGED <<queue, parked, finishing>>

\* Mutant: the count is compared with what it will be.
KeepsRequired ==
  /\ blocked > 0
  /\ blocked' = blocked - 1 /\ busy' = busy + 1
  /\ required' = IF required > Core + 1 THEN required - 1 ELSE required
  /\ UNCHANGED <<queue, threads, active, parked, free, finishing, waiting, woken>>

\* setBlocking(false) in the outermost Blocker
Unblock ==
  /\ blocked > 0
  /\ blocked' = blocked - 1 /\ busy' = busy + 1
  /\ required' = IF required > Core THEN required - 1 ELSE required
  /\ UNCHANGED <<queue, threads, active, parked, free, finishing, waiting, woken>>

\* The task returns.
Finish ==
  /\ busy > 0
  /\ busy' = busy - 1 /\ finishing' = finishing + 1
  /\ UNCHANGED <<queue, counts, free, blocked, waiting, woken>>

\* Mutant: as many as it requires
EnoughActive == active >= required

\* There are more active threads than the pool requires.
TooMany == active > required

\* The test for parking
Park ==
  /\ finishing > 0 /\ finishing' = finishing - 1
  /\ IF TooMany
     THEN /\ active' = active - 1 /\ parked' = parked + 1 /\ waiting' = waiting + 1
          /\ UNCHANGED free
     ELSE free' = free + 1 /\ UNCHANGED <<active, parked, waiting>>
  /\ UNCHANGED <<queue, threads, required, busy, blocked, woken>>

\* A woken thread goes on; cvPark.wait has no predicate, and may end by itself.
Unpark ==
  /\ \/ woken > 0 /\ woken' = woken - 1 /\ UNCHANGED waiting
     \/ waiting > 0 /\ waiting' = waiting - 1 /\ UNCHANGED woken
  /\ parked' = parked - 1 /\ active' = active + 1 /\ free' = free + 1
  /\ UNCHANGED <<queue, threads, required, busy, blocked, finishing>>

PoolNext ==
  \/ TakeTask \/ Block \/ Unblock \/ Finish \/ Park \/ Unpark
  \/ \E task \in Task : Execute(task)

PoolSpec == PoolInit /\ [][PoolNext]_poolVars

-----------------------------------------------------------------------------
\* Where the threads are agrees with the counts of the code, through wakings for nothing and
\* notifications of threads that are awake already: setBlocking decrements
\* requiredThreadCount only above coreThreadCount, and still takes back exactly what
\* addActiveThread added.
CountsAgree ==
  /\ threads = free + busy + blocked + finishing + waiting + woken
  /\ active = free + busy + blocked + finishing
  /\ parked = waiting + woken
  /\ required = Core + blocked
  /\ threads \in Core..Max

\* However many tasks block, and however the test for parking in createThread meets the
\* tests in addActiveThread, one thread is left that will take the next task, unless the
\* pool has all the threads it may have.
SomeoneIsFree == free + busy + finishing + woken > 0 \/ threads = Max
=============================================================================
