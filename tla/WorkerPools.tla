---------------------------- MODULE WorkerPools -----------------------------
(***************************************************************************)
(* The pools of script workers of js_bindings/worker_bindings.cpp, used    *)
(* through the handles of jslib/worker.js, on the threads of the default   *)
(* AutoThreadPool.                                                         *)
(*                                                                         *)
(* A worker is a script engine with a thread of its own, which runs the    *)
(* callbacks of its loop one by one; a message is handled by an async      *)
(* function, and other callbacks run while it waits.  The clients live on  *)
(* the one main thread.  A client is one session: it gets a worker, calls  *)
(* it, and releases it, at once or, when its time is over, by terminating  *)
(* what the worker runs.  One access level is modelled: the pools of the   *)
(* two are alike and apart.                                                *)
(***************************************************************************)
EXTENDS AutoThreadPool, FiniteSets

CONSTANTS Client,    \* the sessions
          Worker,    \* the workers of the pool
          MaxCalls,  \* bound: the calls of a session
          Limited    \* bound: the sessions whose time or memory may run out

None == "none"

\* A task that gets a worker for a client, or sends its message
Get(c) == [kind |-> "get", client |-> c, no |-> 0]
Message(c, n) == [kind |-> "send", client |-> c, no |-> n]
Tasks == {Get(c) : c \in Client}
         \cup {Message(c, n) : c \in Client, n \in 1..(MaxCalls + 1)}

ASSUME WorkerAssumption ==
  /\ IsFiniteSet(Worker) /\ Worker # {} /\ MaxCalls \in Nat
  /\ Limited \subseteq Client /\ Task = Tasks

VARIABLES workers,   \* workersPool_accessLevel*, the list of idle workers
          used,      \* workersPool_accessLevel*_used
          running,   \* the tasks that threads run, and how far they are
          loop,      \* loop[w]: the callbacks posted to the loop of w
          source,    \* source[w]: jsWorkerSrc
          realm,     \* realm[w]: the session whose functions w has, or None
          exec,      \* exec[w]: the handlers of messages under way, each with its realm
          stopping,  \* stopping[w]: TerminateExecution takes effect at the next script
          receiver,  \* receiver[w]: the client of onReceiveMain
          state,     \* state[c]: how far the session is
          handle,    \* handle[c]: its WorkerScripter, or None
          calls,     \* calls[c]: how many messages it has sent
          pending,   \* pending[c]: the calls in callbacksFarcall
          got,       \* got[c]: the answers they have had
          main,      \* the callbacks posted to the main loop
          waits,     \* the client for which the main thread waits in sem.wait, or None
          hasty      \* the sessions that ended while a message of theirs was under way

engines == <<loop, source, realm, exec, stopping, receiver>>
clients == <<state, handle, calls, pending, got>>
lists == <<workers, used>>
vars == <<poolVars, lists, running, engines, clients, main, waits, hasty>>

Init ==
  /\ PoolInit
  /\ workers \in {s \in [1..Cardinality(Worker) -> Worker] :
                    \A i, j \in DOMAIN s : s[i] = s[j] => i = j}
  /\ used = {} /\ running = {}
  /\ loop = [w \in Worker |-> <<>>]
  /\ source = [w \in Worker |-> None] /\ realm = [w \in Worker |-> None]
  /\ exec = [w \in Worker |-> {}] /\ stopping = [w \in Worker |-> FALSE]
  /\ receiver = [w \in Worker |-> None]
  /\ state = [c \in Client |-> "new"] /\ handle = [c \in Client |-> None]
  /\ calls = [c \in Client |-> 0] /\ pending = [c \in Client |-> {}]
  /\ got = [c \in Client |-> {}]
  /\ main = <<>> /\ waits = None /\ hasty = {}

At(task, stage) == [task |-> task, stage |-> stage]

Move(r, stage) == running' = (running \ {r}) \cup {At(r.task, stage)}

\* lockedContext of a callback of w: the onGetWorker that resets it, for a task or for
\* the main thread, or a message.
Post(w, callback) == loop' = [loop EXCEPT ![w] = Append(@, callback)]
Reset(c, by) == [kind |-> by, client |-> c, no |-> 0]

-----------------------------------------------------------------------------
(***************************************************************************)
(* The tasks on the threads of the pool                                    *)
(***************************************************************************)
Taken ==
  /\ TakeTask
  /\ running' = running \cup {At(Head(queue), "taken")}
  /\ UNCHANGED <<lists, engines, clients, main, waits, hasty>>

\* JsGetWorker: Blocking
Blocks(r) ==
  /\ r.stage = "taken" /\ r.task.kind = "get"
  /\ Block /\ Move(r, "wants")
  /\ UNCHANGED <<lists, engines, clients, main, waits, hasty>>

\* GetWorker, and the post of the onGetWorker that resets the worker
Gets(r) ==
  /\ r.stage = "wants" /\ workers # <<>>
  /\ LET w == Head(workers)
         c == r.task.client
     IN  /\ workers' = Tail(workers) /\ used' = used \cup {w}
         /\ handle' = [handle EXCEPT ![c] = w]
         /\ Post(w, Reset(c, "task"))
  /\ Move(r, "resets")
  /\ UNCHANGED <<poolVars, source, realm, exec, stopping, receiver, state, calls,
                 pending, got, main, waits, hasty>>

\* Mutant: a worker that has a source keeps it.
KeepsSource(r) ==
  /\ r.stage = "ready"
  /\ source' = [source EXCEPT ![handle[r.task.client]] = IF @ = None THEN r.task.client ELSE @]
  /\ main' = Append(main, [kind |-> "granted", client |-> r.task.client, no |-> 0,
                           of |-> None, realm |-> None])
  /\ Move(r, "granted")
  /\ UNCHANGED <<poolVars, lists, loop, realm, exec, stopping, receiver, clients, waits,
                 hasty>>

\* The worker has run the reset: its source is set, and onComplete posted.
Grants(r) ==
  /\ r.stage = "ready"
  /\ source' = [source EXCEPT ![handle[r.task.client]] = r.task.client]
  /\ main' = Append(main, [kind |-> "granted", client |-> r.task.client, no |-> 0,
                           of |-> None, realm |-> None])
  /\ Move(r, "granted")
  /\ UNCHANGED <<poolVars, lists, loop, realm, exec, stopping, receiver, clients, waits,
                 hasty>>

Unblocks(r) ==
  /\ r.stage = "granted"
  /\ Unblock /\ Move(r, "ended")
  /\ UNCHANGED <<lists, engines, clients, main, waits, hasty>>

\* The task of _send: onReceive is posted to the worker of the handle.
Sends(r) ==
  /\ r.stage = "taken" /\ r.task.kind = "send"
  /\ Post(handle[r.task.client], r.task) /\ Move(r, "ended")
  /\ UNCHANGED <<poolVars, lists, source, realm, exec, stopping, receiver, clients, main,
                 waits, hasty>>

Ends(r) ==
  /\ r.stage = "ended"
  /\ Finish /\ running' = running \ {r}
  /\ UNCHANGED <<lists, engines, clients, main, waits, hasty>>

Parks ==
  /\ Park \/ Unpark
  /\ UNCHANGED <<lists, running, engines, clients, main, waits, hasty>>

Thread(r) == Blocks(r) \/ Gets(r) \/ Grants(r) \/ Unblocks(r) \/ Sends(r) \/ Ends(r)

-----------------------------------------------------------------------------
(***************************************************************************)
(* The loop of a worker                                                    *)
(***************************************************************************)
\* onGetWorker, unless a termination that came too late hits it; whoever waits for it
\* goes on in either case.
Resets(w) ==
  /\ loop[w] # <<>> /\ Head(loop[w]).kind # "send"
  /\ LET c == Head(loop[w]).client
     IN  IF Head(loop[w]).kind = "task"
         THEN Move(At(Get(c), "resets"), "ready") /\ UNCHANGED waits
         ELSE waits' = None /\ UNCHANGED running
  /\ loop' = [loop EXCEPT ![w] = Tail(@)]
  /\ realm' = IF stopping[w] THEN realm ELSE [realm EXCEPT ![w] = None]
  /\ stopping' = [stopping EXCEPT ![w] = FALSE]
  /\ UNCHANGED <<poolVars, lists, source, exec, receiver, clients, main, hasty>>

Handler(m, by) == [client |-> m.client, no |-> m.no, realm |-> by]

\* onReceive interprets the source that the worker has now, and starts to handle the
\* message with its functions.  Handlers that wait go on later, whatever runs between.
Receives(w) ==
  /\ loop[w] # <<>> /\ Head(loop[w]).kind = "send"
  /\ loop' = [loop EXCEPT ![w] = Tail(@)]
  /\ IF stopping[w] THEN UNCHANGED <<exec, realm>>
     ELSE /\ exec' = [exec EXCEPT ![w] = @ \cup {Handler(Head(loop[w]), source[w])}]
          /\ realm' = [realm EXCEPT ![w] = source[w]]
  /\ stopping' = [stopping EXCEPT ![w] = FALSE]
  /\ UNCHANGED <<poolVars, lists, running, source, receiver, clients, main, waits, hasty>>

\* JsSendFromWorker, when a handler ends: the answer goes to the onReceiveMain of now.  A
\* termination that has been asked for may miss it, and then hits the next callback.
Answers(w, x) ==
  /\ x \in exec[w]
  /\ main' = Append(main, [kind |-> "answer", client |-> receiver[w], no |-> x.no,
                           of |-> x.client, realm |-> x.realm])
  /\ exec' = [exec EXCEPT ![w] = @ \ {x}]
  /\ UNCHANGED <<poolVars, lists, running, loop, source, realm, stopping, receiver,
                 clients, waits, hasty>>

\* TerminateExecution ends the handler that runs, not those that wait.
Aborts(w, x) ==
  /\ x \in exec[w] /\ stopping[w]
  /\ exec' = [exec EXCEPT ![w] = @ \ {x}] /\ stopping' = [stopping EXCEPT ![w] = FALSE]
  /\ UNCHANGED <<poolVars, lists, running, loop, source, realm, receiver, clients, main,
                 waits, hasty>>

Loop(w) == Resets(w) \/ Receives(w) \/ \E x \in exec[w] : Answers(w, x) \/ Aborts(w, x)

-----------------------------------------------------------------------------
(***************************************************************************)
(* The clients, on the main thread                                         *)
(***************************************************************************)
\* getWorker
Asks(c) ==
  /\ waits = None /\ state[c] = "new"
  /\ state' = [state EXCEPT ![c] = "asked"]
  /\ Execute(Get(c))
  /\ UNCHANGED <<lists, running, engines, handle, calls, pending, got, main, waits, hasty>>

\* farcall with an onComplete, and the _send of its message
Sent(c) ==
  /\ calls' = [calls EXCEPT ![c] = @ + 1]
  /\ pending' = [pending EXCEPT ![c] = @ \cup {calls[c] + 1}]
  /\ Execute(Message(c, calls[c] + 1))

Calls(c) ==
  /\ waits = None /\ state[c] = "holding" /\ calls[c] < MaxCalls
  /\ Sent(c)
  /\ UNCHANGED <<lists, running, engines, state, handle, got, main, waits, hasty>>

\* The next callback of the main loop: the completion of getWorker, with _setOnReceive,
\* or an answer, which is looked up by the number of the call.
Hears ==
  /\ waits = None /\ main # <<>> /\ main' = Tail(main)
  /\ LET e == Head(main)
         c == e.client
     IN  \/ /\ e.kind = "granted"
            /\ receiver' = [receiver EXCEPT ![handle[c]] = c]
            /\ state' = [state EXCEPT ![c] = "holding"]
            /\ UNCHANGED <<pending, got>>
         \/ /\ e.kind = "answer"
            /\ IF e.no \in pending[c]
               THEN /\ pending' = [pending EXCEPT ![c] = @ \ {e.no}]
                    /\ got' = [got EXCEPT ![c] = @ \cup {e}]
               ELSE UNCHANGED <<pending, got>>
            /\ UNCHANGED <<receiver, state>>
  /\ UNCHANGED <<poolVars, lists, running, loop, source, realm, exec, stopping, handle,
                 calls, waits, hasty>>

\* A message of c is in the queue of the pool, on a thread, in the loop of its worker, or
\* being handled there.
UnderWay(c) ==
  \/ \E i \in DOMAIN queue : queue[i].kind = "send" /\ queue[i].client = c
  \/ \E r \in running : r.task.kind = "send" /\ r.task.client = c /\ r.stage = "taken"
  \/ \E i \in DOMAIN loop[handle[c]] :
       loop[handle[c]][i].kind = "send" /\ loop[handle[c]][i].client = c
  \/ \E x \in exec[handle[c]] : x.client = c

\* Mutant: it stays in use.
StaysUsed(c) ==
  /\ IF handle[c] \in used THEN workers' = Append(workers, handle[c]) ELSE UNCHANGED workers
  /\ UNCHANGED used
  /\ state' = [state EXCEPT ![c] = "gone"]
  /\ hasty' = IF UnderWay(c) THEN hasty \cup {c} ELSE hasty

\* Mutant: nobody takes it back.
IsLost(c) ==
  /\ UNCHANGED lists
  /\ state' = [state EXCEPT ![c] = "gone"]
  /\ hasty' = IF UnderWay(c) THEN hasty \cup {c} ELSE hasty

\* ReleaseWorker: a worker that is not in use is left alone.
Release(c) ==
  /\ IF handle[c] \in used
     THEN workers' = Append(workers, handle[c]) /\ used' = used \ {handle[c]}
     ELSE UNCHANGED lists
  /\ state' = [state EXCEPT ![c] = "gone"]
  /\ hasty' = IF UnderWay(c) THEN hasty \cup {c} ELSE hasty

\* release(false) of a session that has all its answers
Releases(c) ==
  /\ waits = None /\ state[c] = "holding" /\ pending[c] = {}
  /\ Release(c)
  /\ UNCHANGED <<poolVars, running, engines, handle, calls, pending, got, main, waits>>

\* _terminate, and the first half of _release(true): the engine is told to stop, and the
\* main thread waits for the reset that it posts.
Stop(c) ==
  /\ stopping' = [stopping EXCEPT ![handle[c]] = TRUE]
  /\ Post(handle[c], Reset(c, "main"))
  /\ waits' = c
  /\ UNCHANGED <<lists, running, source, realm, exec, receiver, handle, got, main>>

\* release(true): the time of the session is over, or its memory used up.
Terminates(c) ==
  /\ c \in Limited /\ waits = None /\ state[c] = "holding"
  /\ Stop(c) /\ state' = [state EXCEPT ![c] = "terminating"]
  /\ UNCHANGED <<poolVars, calls, pending, hasty>>

\* ... a call of an unknown command
Flushes(c) ==
  /\ waits = None /\ state[c] = "terminating"
  /\ Sent(c) /\ state' = [state EXCEPT ![c] = "flushing"]
  /\ UNCHANGED <<lists, running, engines, handle, got, main, waits, hasty>>

\* ... is answered, or the worker reports that its memory is low
StopsAgain(c) ==
  /\ waits = None /\ state[c] = "flushing"
  /\ calls[c] \notin pending[c] \/ exec[handle[c]] # {}
  /\ Stop(c) /\ state' = [state EXCEPT ![c] = "releasing"]
  /\ UNCHANGED <<poolVars, calls, pending, hasty>>

\* ... and the second half of _release(true).
Lets(c) ==
  /\ waits = None /\ state[c] = "releasing"
  /\ Release(c)
  /\ UNCHANGED <<poolVars, running, engines, handle, calls, pending, got, main, waits>>

Ending(c) == Releases(c) \/ Terminates(c) \/ Flushes(c) \/ StopsAgain(c) \/ Lets(c)

Main(c) == Asks(c) \/ Calls(c) \/ Ending(c)

Next ==
  \/ Taken \/ Parks \/ Hears
  \/ \E r \in running : Thread(r)
  \/ \E w \in Worker : Loop(w)
  \/ \E c \in Client : Main(c)

Spec == Init /\ [][Next]_vars

\* Threads run, the main loop goes on, and each session ends: ProcessStartExec waits for the
\* answer, for the end of its time or for a lack of memory, and then releases the worker.
Fairness ==
  /\ WF_vars(Taken) /\ WF_vars(Parks) /\ WF_vars(Hears)
  /\ \A task \in Tasks : WF_vars(\E r \in running : r.task = task /\ Thread(r))
  /\ \A w \in Worker : WF_vars(Loop(w))
  /\ \A c \in Client : WF_vars(Ending(c))

FairSpec == Spec /\ Fairness

-----------------------------------------------------------------------------
\* The values of the variables; the counts of the pool agree with where its threads are,
\* and with the tasks that they run and how far they are.
TypeOK ==
  /\ CountsAgree
  /\ queue \in Seq(Tasks) /\ used \subseteq Worker /\ workers \in Seq(Worker)
  /\ \A r \in running : r.task \in Tasks
  /\ busy = Cardinality({r \in running : r.stage \in {"taken", "ended"}})
  /\ blocked = Cardinality({r \in running : r.stage \notin {"taken", "ended"}})
  /\ handle \in [Client -> Worker \cup {None}]
  /\ waits \in Client \cup {None} /\ hasty \subseteq Client

Held(c) == state[c] \in {"holding", "terminating", "flushing", "releasing"}

\* A worker is idle, or exactly one session has it, whichever thread of the pool took it
\* and however its session ends (GetWorker, ReleaseWorker).
OneOwner ==
  /\ \A i, j \in DOMAIN workers : workers[i] = workers[j] => i = j
  /\ \A i \in DOMAIN workers : workers[i] \notin used
  /\ \A c, d \in Client : Held(c) /\ Held(d) /\ handle[c] = handle[d] => c = d
  /\ \A c \in Client : Held(c) => handle[c] \in used

\* What a session hears is the answer to its own call, computed by its own source, on
\* whatever worker and after whatever sessions.  Only a message that its own session left
\* behind when it ended, in the pool, in the loop or in a handler that waits, can be
\* answered to another one, under the number of another call.
OwnAnswers ==
  \A c \in Client : \A e \in got[c] : (e.of = c /\ e.realm = c) \/ e.of \in hasty

\* A session that asks for a worker gets one and ends, though the others block a thread
\* each while they wait, though TerminateExecution may come too late, and though the tasks
\* of one session may overtake each other.
Served == \A c \in Client : state[c] = "asked" ~> state[c] = "gone"
=============================================================================
