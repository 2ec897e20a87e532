------------------------- MODULE WorkerPoolsProofs --------------------------
(***************************************************************************)
(* First the pool of AutoThreadPool by itself, for every coreThreadCount   *)
(* and maxThreadCount and any tasks: its counts, and the thread that it    *)
(* keeps for the next task.  Then WorkerPools, for any sessions and        *)
(* workers: under the workers the pool is that one, as each step of the    *)
(* whole is a step of it or leaves it alone; a worker never has two        *)
(* owners; a session hears its own answers; no task is on two threads.     *)
(***************************************************************************)
EXTENDS WorkerPools, TLAPS, FiniteSetTheorems

\* The counts are natural numbers.
PoolTypeOK ==
  /\ threads \in Nat /\ required \in Nat /\ active \in Nat /\ parked \in Nat
  /\ free \in Nat /\ busy \in Nat /\ blocked \in Nat /\ finishing \in Nat
  /\ waiting \in Nat /\ woken \in Nat

\* The two invariants need each other: that Park leaves a thread follows from required
\* being Core and what is blocked, and that Block need not create one from parked being
\* what waits or has been woken.
PoolInv == PoolTypeOK /\ CountsAgree /\ SomeoneIsFree

\* A step of the pool, with any task at all given to it
PoolStep ==
  \/ TakeTask \/ Block \/ Unblock \/ Finish \/ Park \/ Unpark
  \/ \E task : Execute(task)

LEMMA PoolInitInv == PoolInit => PoolInv
BY PoolAssumption DEF PoolInit, PoolInv, PoolTypeOK, CountsAgree, SomeoneIsFree

\* Every section under a mutex of the pool preserves the invariant.
LEMMA PoolStepInv == PoolInv /\ [PoolStep]_poolVars => PoolInv'
<1> SUFFICES ASSUME PoolInv, [PoolStep]_poolVars PROVE PoolInv'
  OBVIOUS
<1> USE PoolAssumption DEF PoolInv, PoolTypeOK, CountsAgree, SomeoneIsFree, counts, places
<1>1. CASE TakeTask
  BY <1>1 DEF TakeTask
<1>2. CASE Block
  <2>1. CASE WakesParked
    <3>1. CASE waiting > 0
      BY <1>2, <2>1, <3>1 DEF Block
    <3>2. CASE ~(waiting > 0)
      <4>1. woken > 0
        BY <2>1, <3>2 DEF WakesParked
      <4> QED
        BY <1>2, <2>1, <3>2, <4>1 DEF Block
    <3> QED
      BY <3>1, <3>2
  <2>2. CASE ~WakesParked /\ threads < Max
    BY <1>2, <2>2 DEF Block
  <2>3. CASE ~WakesParked /\ threads >= Max
    <3>1. parked = 0 /\ waiting = 0 /\ woken = 0
      BY <2>3 DEF WakesParked
    <3> QED
      BY <1>2, <2>3, <3>1 DEF Block, WakesParked
  <2> QED
    BY <2>1, <2>2, <2>3
<1>3. CASE Unblock
  BY <1>3 DEF Unblock
<1>4. CASE Finish
  BY <1>4 DEF Finish
<1>5. CASE Park
  <2>1. CASE TooMany
    \* A thread that parks leaves one that is not blocked: active > required >= Core.
    BY <1>5, <2>1 DEF Park, TooMany
  <2>2. CASE ~TooMany
    BY <1>5, <2>2 DEF Park
  <2> QED
    BY <2>1, <2>2
<1>6. CASE Unpark
  BY <1>6 DEF Unpark
<1>7. ASSUME NEW task, Execute(task) PROVE PoolInv'
  BY <1>7 DEF Execute
<1>8. CASE UNCHANGED poolVars
  BY <1>8 DEF poolVars
<1> QED
  BY <1>1, <1>2, <1>3, <1>4, <1>5, <1>6, <1>7, <1>8 DEF PoolStep

LEMMA PoolNextInv == PoolInv /\ [PoolNext]_poolVars => PoolInv'
BY PoolStepInv DEF PoolNext, PoolStep

\* AutoThreadPool::createThread, addActiveThread, setBlocking: the counts agree with where
\* the threads are, whatever the threads do.
THEOREM CountsAlwaysAgree == PoolSpec => []CountsAgree
<1>1. PoolInv => CountsAgree
  BY DEF PoolInv
<1> QED
  BY <1>1, PoolInitInv, PoolNextInv, PTL DEF PoolSpec

\* ... and a thread is left for the next task, unless the pool has all it may have.
THEOREM SomeoneIsAlwaysFree == PoolSpec => []SomeoneIsFree
<1>1. PoolInv => SomeoneIsFree
  BY DEF PoolInv
<1> QED
  BY <1>1, PoolInitInv, PoolNextInv, PTL DEF PoolSpec

-----------------------------------------------------------------------------
(***************************************************************************)
(* The pool under the workers                                              *)
(***************************************************************************)
\* What a task on a thread does to the pool.
LEMMA ThreadSteps == ASSUME NEW r, Thread(r) PROVE [PoolStep]_poolVars
<1>1. CASE Blocks(r)
  BY <1>1 DEF Blocks, PoolStep
<1>2. CASE Gets(r)
  BY <1>2 DEF Gets
<1>3. CASE Grants(r)
  BY <1>3 DEF Grants
<1>4. CASE Unblocks(r)
  BY <1>4 DEF Unblocks, PoolStep
<1>5. CASE Sends(r)
  BY <1>5 DEF Sends
<1>6. CASE Ends(r)
  BY <1>6 DEF Ends, PoolStep
<1> QED
  BY <1>1, <1>2, <1>3, <1>4, <1>5, <1>6 DEF Thread

\* The loops of the workers are not threads of the pool.
LEMMA LoopSteps == ASSUME NEW w, Loop(w) PROVE UNCHANGED poolVars
<1>1. CASE Resets(w)
  BY <1>1 DEF Resets
<1>2. CASE Receives(w)
  BY <1>2 DEF Receives
<1>3. ASSUME NEW x, Answers(w, x) \/ Aborts(w, x) PROVE UNCHANGED poolVars
  BY <1>3 DEF Answers, Aborts
<1> QED
  BY <1>1, <1>2, <1>3 DEF Loop

\* What the clients do gives tasks to the pool, or leaves it alone.
LEMMA MainSteps == ASSUME NEW c, Main(c) PROVE [PoolStep]_poolVars
<1>1. CASE Asks(c)
  BY <1>1 DEF Asks, PoolStep
<1>2. CASE Calls(c)
  BY <1>2 DEF Calls, Sent, PoolStep
<1>3. CASE Flushes(c)
  BY <1>3 DEF Flushes, Sent, PoolStep
<1>4. CASE Releases(c) \/ Lets(c)
  BY <1>4 DEF Releases, Lets
<1>5. CASE Terminates(c) \/ StopsAgain(c)
  BY <1>5 DEF Terminates, StopsAgain
<1> QED
  BY <1>1, <1>2, <1>3, <1>4, <1>5 DEF Main, Ending

LEMMA PoolSteps == [Next]_vars => [PoolStep]_poolVars
<1> SUFFICES ASSUME [Next]_vars PROVE [PoolStep]_poolVars
  OBVIOUS
<1>1. CASE Taken
  BY <1>1 DEF Taken, PoolStep
<1>2. CASE Parks
  BY <1>2 DEF Parks, PoolStep
<1>3. CASE Hears
  BY <1>3 DEF Hears
<1>4. ASSUME NEW r \in running, Thread(r) PROVE [PoolStep]_poolVars
  BY <1>4, ThreadSteps
<1>5. ASSUME NEW w \in Worker, Loop(w) PROVE [PoolStep]_poolVars
  BY <1>5, LoopSteps
<1>6. ASSUME NEW c \in Client, Main(c) PROVE [PoolStep]_poolVars
  BY <1>6, MainSteps
<1>7. CASE UNCHANGED vars
  BY <1>7 DEF vars
<1> QED
  BY <1>1, <1>2, <1>3, <1>4, <1>5, <1>6, <1>7 DEF Next

\* However the workers, the sessions and the main thread use the pool, the sends of a
\* session find a thread while others block one each in GetWorker, as long as the pool may
\* have one more.
THEOREM WorkersLeaveSomeoneFree == Spec => [](CountsAgree /\ SomeoneIsFree)
<1>1. Init => PoolInv
  BY PoolInitInv DEF Init
<1>2. PoolInv /\ [Next]_vars => PoolInv'
  BY PoolSteps, PoolStepInv
<1>3. PoolInv => CountsAgree /\ SomeoneIsFree
  BY DEF PoolInv
<1> QED
  BY <1>1, <1>2, <1>3, PTL DEF Spec

-----------------------------------------------------------------------------
(***************************************************************************)
(* A worker has one owner                                                  *)
(***************************************************************************)
Elements(s) == {s[i] : i \in DOMAIN s}

Once(s, e) == \A i, j \in DOMAIN s : s[i] = e /\ s[j] = e => i = j

\* The callback that completes getWorker
Granted(c) == [kind |-> "granted", client |-> c, no |-> 0, of |-> None, realm |-> None]

\* The request of a session for a worker is in one place at a time: in the queue of the
\* pool, on a thread, or posted to the main loop.
Wanting == {"taken", "wants", "resets", "ready"}
Places == Wanting \cup {"queued", "posted"}

IsAt(c, p) ==
  \/ p = "queued" /\ Get(c) \in Elements(queue)
  \/ p \in Wanting /\ At(Get(c), p) \in running
  \/ p = "posted" /\ Granted(c) \in Elements(main)

OnePlace ==
  \A c \in Client :
    /\ \A p, q \in Places : IsAt(c, p) /\ IsAt(c, q) => p = q
    /\ \A p \in Places : IsAt(c, p) => state[c] = "asked"
    /\ Once(queue, Get(c)) /\ Once(main, Granted(c))

\* The thread of a request whose reset is in the loop of a worker waits for it.
OneReset ==
  \A c \in Client : \A w \in Worker :
    /\ Once(loop[w], Reset(c, "task"))
    /\ Reset(c, "task") \in Elements(loop[w]) =>
         /\ IsAt(c, "resets")
         /\ \A v \in Worker : Reset(c, "task") \in Elements(loop[v]) => v = w

\* A session has a worker from GetWorker on.
Has(c) == Held(c) \/ \E p \in {"resets", "ready", "posted"} : IsAt(c, p)

Owned ==
  \A c \in Client :
    Has(c) => /\ handle[c] \in used
              /\ \A d \in Client : Has(d) /\ handle[d] = handle[c] => d = c

IdleApart ==
  /\ \A w \in Worker : Once(workers, w)
  /\ Elements(workers) \cap used = {}

Requests == {Get(c) : c \in Client} \cup {Message(c, n) : c \in Client, n \in Nat}
Callbacks == Requests \cup {Reset(c, by) : c \in Client, by \in {"task", "main"}}
MaybeClient == Client \cup {None}
Handlers == [client : Client, no : Nat, realm : MaybeClient]
Events ==
  {Granted(c) : c \in Client}
  \cup [kind : {"answer"}, client : MaybeClient, no : Nat, of : MaybeClient,
        realm : MaybeClient]

\* A task that a thread runs: a message has no stages.
OnThread(r) ==
  /\ r.task \in Requests /\ r = At(r.task, r.stage)
  /\ r.task.kind = "get" \/ r.stage \in {"taken", "ended"}

States == {"new", "asked", "holding", "terminating", "flushing", "releasing", "gone"}

Typed ==
  /\ workers \in Seq(Worker) /\ queue \in Seq(Requests) /\ main \in Seq(Events)
  /\ loop \in [Worker -> Seq(Callbacks)] /\ exec \in [Worker -> SUBSET Handlers]
  /\ \A f \in {source, realm, receiver} : f \in [Worker -> MaybeClient]
  /\ state \in [Client -> States] /\ handle \in [Client -> Worker \cup {None}]
  /\ calls \in [Client -> Nat] /\ used \subseteq Worker
  /\ \A r \in running : OnThread(r)

OwnerInv == Typed /\ OnePlace /\ OneReset /\ Owned /\ IdleApart

-----------------------------------------------------------------------------
\* What Head, Tail and Append do to the elements of a sequence, and to one that it has once
LEMMA HeadTaken ==
  \A S : \A s \in Seq(S) : s # <<>> =>
    /\ Head(s) \in S /\ Tail(s) \in Seq(S)
    /\ Elements(s) = {Head(s)} \cup Elements(Tail(s))
    /\ \A e : Once(s, e) => Once(Tail(s), e)
    /\ Once(s, Head(s)) => Head(s) \notin Elements(Tail(s))
<1> SUFFICES ASSUME NEW S, NEW s \in Seq(S), s # <<>>
             PROVE  /\ Head(s) \in S /\ Tail(s) \in Seq(S)
                    /\ Elements(s) = {Head(s)} \cup Elements(Tail(s))
                    /\ \A e : Once(s, e) => Once(Tail(s), e)
                    /\ Once(s, Head(s)) => Head(s) \notin Elements(Tail(s))
  OBVIOUS
<1> DEFINE rest == Tail(s)
<1>1. /\ Head(s) \in S /\ rest \in Seq(S) /\ Head(s) = s[1]
      /\ Len(s) \in Nat \ {0} /\ DOMAIN s = 1..Len(s) /\ DOMAIN rest = 1..(Len(s) - 1)
      /\ \A i \in 1..(Len(s) - 1) : rest[i] = s[i + 1]
  OBVIOUS
<1> HIDE DEF rest
<1>2. \A i \in DOMAIN rest : i + 1 \in DOMAIN s /\ rest[i] = s[i + 1] /\ i + 1 # 1
  BY <1>1
<1>3. 1 \in DOMAIN s
  BY <1>1
<1>4. \A i \in DOMAIN s : i # 1 => \E j \in DOMAIN rest : i = j + 1 /\ s[i] = rest[j]
  <2> SUFFICES ASSUME NEW i \in DOMAIN s, i # 1
               PROVE  \E j \in DOMAIN rest : i = j + 1 /\ s[i] = rest[j]
    OBVIOUS
  <2>1. i - 1 \in DOMAIN rest /\ i = (i - 1) + 1
    BY <1>1
  <2>2. QED
    BY <1>1, <2>1
<1>5. Elements(s) = {Head(s)} \cup Elements(rest)
  <2>1. ASSUME NEW i \in DOMAIN s PROVE s[i] \in {Head(s)} \cup Elements(rest)
    BY <1>1, <1>4 DEF Elements
  <2>2. ASSUME NEW e \in {Head(s)} \cup Elements(rest) PROVE e \in Elements(s)
    BY <1>1, <1>2, <1>3 DEF Elements
  <2> QED
    BY <2>1, <2>2 DEF Elements
<1>6. ASSUME NEW e, Once(s, e) PROVE Once(rest, e)
  <2> SUFFICES ASSUME NEW i \in DOMAIN rest, NEW j \in DOMAIN rest, rest[i] = e, rest[j] = e
               PROVE  i = j
    BY DEF Once
  <2>1. i + 1 = j + 1
    BY <1>2, <1>6 DEF Once
  <2>2. QED
    BY <1>1, <2>1
<1>7. ASSUME Once(s, Head(s)) PROVE Head(s) \notin Elements(rest)
  <2> SUFFICES ASSUME NEW i \in DOMAIN rest, rest[i] = Head(s) PROVE FALSE
    BY DEF Elements
  <2>1. i + 1 = 1
    BY <1>1, <1>2, <1>3, <1>7 DEF Once
  <2>2. QED
    BY <1>2, <2>1
<1>8. QED
  BY <1>1, <1>5, <1>6, <1>7 DEF rest

LEMMA Appended ==
  \A S : \A s \in Seq(S) : \A x \in S :
    /\ Append(s, x) \in Seq(S)
    /\ Elements(Append(s, x)) = Elements(s) \cup {x}
    /\ \A e : Once(s, e) /\ (e # x \/ e \notin Elements(s)) => Once(Append(s, x), e)
<1> SUFFICES ASSUME NEW S, NEW s \in Seq(S), NEW x \in S
             PROVE  /\ Append(s, x) \in Seq(S)
                    /\ Elements(Append(s, x)) = Elements(s) \cup {x}
                    /\ \A e : Once(s, e) /\ (e # x \/ e \notin Elements(s))
                                => Once(Append(s, x), e)
  OBVIOUS
<1> DEFINE all == Append(s, x)
           last == Len(s) + 1
<1>1. /\ all \in Seq(S) /\ Len(s) \in Nat /\ DOMAIN s = 1..Len(s)
      /\ DOMAIN all = 1..last
      /\ \A i \in 1..Len(s) : all[i] = s[i]
      /\ all[last] = x
  OBVIOUS
<1> HIDE DEF all
<1>2. \A i \in DOMAIN s : i \in DOMAIN all /\ all[i] = s[i] /\ i # last
  BY <1>1
<1>3. last \in DOMAIN all
  BY <1>1
<1>4. \A i \in DOMAIN all : i = last \/ i \in DOMAIN s
  BY <1>1
<1> HIDE DEF last
<1>5. Elements(all) = Elements(s) \cup {x}
  BY <1>1, <1>2, <1>3, <1>4 DEF Elements
<1>6. ASSUME NEW e, Once(s, e), e # x \/ e \notin Elements(s) PROVE Once(all, e)
  <2> SUFFICES ASSUME NEW i \in DOMAIN all, NEW j \in DOMAIN all, all[i] = e, all[j] = e
               PROVE  i = j
    BY DEF Once
  <2>1. CASE e # x
    BY <1>1, <1>2, <1>4, <1>6, <2>1 DEF Once
  <2>2. CASE e \notin Elements(s)
    BY <1>2, <1>4, <2>2 DEF Elements
  <2>3. QED
    BY <1>6, <2>1, <2>2
<1>7. QED
  BY <1>1, <1>5, <1>6 DEF all

\* Tasks, callbacks and events are told apart by what they are and whose.
LEMMA Told ==
  /\ \A c : Get(c).kind = "get" /\ Get(c).client = c
  /\ \A c, n : Message(c, n).kind = "send" /\ Message(c, n).client = c
  /\ \A c, by : Reset(c, by).kind = by /\ Reset(c, by).client = c
  /\ \A c : Granted(c).kind = "granted" /\ Granted(c).client = c
  /\ \A t, s : At(t, s).task = t /\ At(t, s).stage = s
BY DEF Get, Message, Reset, Granted, At

\* The places of the requests stay as they are, and no session gets or loses a worker.
LEMMA NobodyMoves ==
  ASSUME OwnerInv, Typed', UNCHANGED <<workers, used, handle>>,
         \A c \in Client : \A p \in Places : IsAt(c, p)' <=> IsAt(c, p),
         \A c \in Client : /\ state[c] = "asked" => state'[c] = "asked"
                           /\ Held(c)' => Held(c)
                           /\ Once(queue', Get(c)) /\ Once(main', Granted(c)),
         \A c \in Client : \A w \in Worker :
           /\ Once(loop'[w], Reset(c, "task"))
           /\ Reset(c, "task") \in Elements(loop'[w])
                => Reset(c, "task") \in Elements(loop[w])
  PROVE  OwnerInv'
<1> HIDE DEF Typed
<1>1. OnePlace'
  BY DEF OwnerInv, OnePlace
<1>2. OneReset'
  BY DEF OwnerInv, OneReset, Places, Wanting
<1>3. \A c \in Client : Has(c)' => Has(c)
  BY DEF Has, Places, Wanting
<1>4. Owned'
  BY <1>3 DEF OwnerInv, Owned
<1>5. IdleApart'
  BY DEF OwnerInv, IdleApart, Elements, Once
<1>6. QED
  BY <1>1, <1>2, <1>4, <1>5 DEF OwnerInv

\* A callback that is not the reset of a request is posted to a worker, if there is one.
LEMMA PostKeeps ==
  ASSUME Typed, OneReset, NEW w, NEW m \in Callbacks, m.kind # "task", Post(w, m)
  PROVE  /\ loop' \in [Worker -> Seq(Callbacks)]
         /\ \A c \in Client : \A v \in Worker :
              /\ Once(loop'[v], Reset(c, "task"))
              /\ Reset(c, "task") \in Elements(loop'[v])
                   => Reset(c, "task") \in Elements(loop[v])
<1>1. loop' = [loop EXCEPT ![w] = Append(loop[w], m)]
  BY DEF Post
<1>2. loop \in [Worker -> Seq(Callbacks)]
  BY DEF Typed
<1>3. \A c : Reset(c, "task") # m
  BY Told
<1>4. ASSUME NEW v \in Worker
      PROVE  /\ loop'[v] \in Seq(Callbacks)
             /\ \A c \in Client :
                  /\ Once(loop'[v], Reset(c, "task"))
                  /\ Reset(c, "task") \in Elements(loop'[v])
                       => Reset(c, "task") \in Elements(loop[v])
  <2>1. loop[v] \in Seq(Callbacks)
    BY <1>2
  <2>2. CASE v # w
    BY <1>1, <1>2, <2>1, <2>2 DEF OneReset
  <2>3. CASE v = w
    <3>1. loop'[v] = Append(loop[v], m)
      BY <1>1, <1>2, <2>3
    <3>2. /\ Append(loop[v], m) \in Seq(Callbacks)
          /\ Elements(Append(loop[v], m)) = Elements(loop[v]) \cup {m}
          /\ \A e : Once(loop[v], e) /\ (e # m \/ e \notin Elements(loop[v]))
                      => Once(Append(loop[v], m), e)
      BY <2>1, Appended
    <3>3. \A c \in Client : Once(loop[v], Reset(c, "task"))
      BY DEF OneReset
    <3>4. QED
      BY <1>3, <3>1, <3>2, <3>3
  <2>4. QED
    BY <2>2, <2>3
<1>5. QED
  BY <1>1, <1>2, <1>4

\* A worker takes the next callback of its loop.
LEMMA NextCallback ==
  ASSUME Typed, OneReset, NEW w \in Worker, loop[w] # <<>>,
         loop' = [loop EXCEPT ![w] = Tail(@)]
  PROVE  /\ Head(loop[w]) \in Callbacks
         /\ Head(loop[w]) \in Elements(loop[w])
         /\ loop' \in [Worker -> Seq(Callbacks)]
         /\ \A c \in Client : \A v \in Worker :
              /\ Once(loop'[v], Reset(c, "task"))
              /\ Reset(c, "task") \in Elements(loop'[v])
                   => /\ Reset(c, "task") \in Elements(loop[v])
                      /\ v = w => Head(loop[w]) # Reset(c, "task")
<1>1. loop \in [Worker -> Seq(Callbacks)] /\ loop[w] \in Seq(Callbacks)
  BY DEF Typed
<1>2. /\ Head(loop[w]) \in Callbacks /\ Tail(loop[w]) \in Seq(Callbacks)
      /\ Elements(loop[w]) = {Head(loop[w])} \cup Elements(Tail(loop[w]))
      /\ \A e : Once(loop[w], e) => Once(Tail(loop[w]), e)
      /\ Once(loop[w], Head(loop[w])) => Head(loop[w]) \notin Elements(Tail(loop[w]))
  BY <1>1, HeadTaken
<1>3. /\ loop'[w] = Tail(loop[w])
      /\ \A v \in Worker : v # w => loop'[v] = loop[v]
      /\ loop' \in [Worker -> Seq(Callbacks)]
  BY <1>1, <1>2
<1>4. \A c \in Client : \A v \in Worker : Once(loop[v], Reset(c, "task"))
  BY DEF OneReset
<1>5. QED
  BY <1>2, <1>3, <1>4

\* A task that goes on without being a request for a worker, or past its completion
LEMMA MoveKeeps ==
  ASSUME Typed, NEW r \in running,
         r.task.kind # "get" \/ r.stage \notin Wanting,
         NEW new \in SUBSET {At(r.task, "ended")}, running' = (running \ {r}) \cup new
  PROVE  /\ \A q \in running' : OnThread(q)
         /\ \A c \in Client : \A s \in Wanting :
              At(Get(c), s) \in running' <=> At(Get(c), s) \in running
<1>1. r.task \in Requests /\ r = At(r.task, r.stage)
  BY DEF Typed, OnThread
<1>2. \A q \in running' : OnThread(q)
  BY <1>1, Told DEF Typed, OnThread
<1>3. \A c \in Client : \A s \in Wanting : At(Get(c), s) # r /\ At(Get(c), s) \notin new
  BY Told DEF Wanting
<1>4. QED
  BY <1>2, <1>3

LEMMA Fields == \A m \in Callbacks : m.client \in Client /\ m.no \in Nat
BY DEF Callbacks, Requests, Get, Message, Reset

\* A task is added that is not a request for a worker.
LEMMA QueueKeeps ==
  ASSUME Typed, NEW t \in Requests, t.kind # "get", Execute(t)
  PROVE  /\ queue' \in Seq(Requests)
         /\ \A c \in Client : /\ Get(c) \in Elements(queue') <=> Get(c) \in Elements(queue)
                              /\ Once(queue, Get(c)) => Once(queue', Get(c))
<1>1. queue \in Seq(Requests) /\ queue' = Append(queue, t)
  BY DEF Typed, Execute
<1>2. /\ Append(queue, t) \in Seq(Requests)
      /\ Elements(Append(queue, t)) = Elements(queue) \cup {t}
      /\ \A e : Once(queue, e) /\ (e # t \/ e \notin Elements(queue))
                  => Once(Append(queue, t), e)
  BY <1>1, Appended
<1>3. \A c : Get(c) # t
  BY Told
<1>4. QED
  BY <1>1, <1>2, <1>3

\* A thread goes on with a task that is not a request, or one that is completed.
LEMMA ThreadGoesOn ==
  ASSUME OwnerInv, NEW r \in running, Unblocks(r) \/ Sends(r) \/ Ends(r)
  PROVE  OwnerInv'
<1>1. PICK new \in SUBSET {At(r.task, "ended")} : running' = (running \ {r}) \cup new
  <2>1. CASE Ends(r)
    <3>1. running' = (running \ {r}) \cup {}
      BY <2>1 DEF Ends
    <3>2. QED
      BY <3>1
  <2>2. CASE Unblocks(r) \/ Sends(r)
    <3>1. running' = (running \ {r}) \cup {At(r.task, "ended")}
      BY <2>2 DEF Unblocks, Sends, Move
    <3>2. QED
      BY <3>1
  <2>3. QED
    BY <2>1, <2>2
<1>2. r.task.kind # "get" \/ r.stage \notin Wanting
  BY DEF Unblocks, Sends, Ends, Wanting
<1>3. Typed /\ OneReset /\ OnePlace
  BY DEF OwnerInv
<1>4. /\ \A q \in running' : OnThread(q)
      /\ \A c \in Client : \A s \in Wanting :
           At(Get(c), s) \in running' <=> At(Get(c), s) \in running
  <2> HIDE DEF Typed
  <2>1. QED
    BY <1>1, <1>2, <1>3, MoveKeeps
<1>5. /\ loop' \in [Worker -> Seq(Callbacks)]
      /\ \A c \in Client : \A v \in Worker :
           /\ Once(loop'[v], Reset(c, "task"))
           /\ Reset(c, "task") \in Elements(loop'[v])
                => Reset(c, "task") \in Elements(loop[v])
  <2>1. CASE Unblocks(r) \/ Ends(r)
    BY <1>3, <2>1 DEF Unblocks, Ends, engines, Typed, OneReset
  <2>2. CASE Sends(r)
    <3>1. r.task \in Callbacks /\ r.task.kind # "task"
      BY <1>3, <2>2 DEF Typed, OnThread, Callbacks, Sends
    <3>2. Post(handle[r.task.client], r.task)
      BY <2>2 DEF Sends
    <3>3. QED
      BY <1>3, <3>1, <3>2, PostKeeps
  <2>3. QED
    BY <2>1, <2>2
<1>6. UNCHANGED <<queue, lists, source, realm, exec, receiver, clients, main>>
  BY DEF Unblocks, Unblock, Sends, Ends, Finish, engines, poolVars
<1>7. Typed'
  BY <1>3, <1>4, <1>5, <1>6 DEF Typed, lists, clients
<1>8. \A c \in Client : \A p \in Places : IsAt(c, p)' <=> IsAt(c, p)
  BY <1>4, <1>6 DEF IsAt
<1>9. \A c \in Client : Held(c)' = Held(c) /\ Once(queue', Get(c)) /\ Once(main', Granted(c))
  BY <1>3, <1>6 DEF OnePlace, Held, clients
<1>10. QED
  BY <1>5, <1>6, <1>7, <1>8, <1>9, NobodyMoves DEF lists, clients

\* A worker executes a message, answers or is stopped.
LEMMA LoopGoesOn ==
  ASSUME OwnerInv, NEW w \in Worker, NEW h,
         Receives(w) \/ Answers(w, h) \/ Aborts(w, h)
  PROVE  OwnerInv'
<1>1. Typed /\ OneReset /\ OnePlace
  BY DEF OwnerInv
<1>2. UNCHANGED <<queue, lists, running, source, receiver, clients>>
  BY DEF Receives, Answers, Aborts, poolVars
<1>3. /\ loop' \in [Worker -> Seq(Callbacks)]
      /\ \A c \in Client : \A v \in Worker :
           /\ Once(loop'[v], Reset(c, "task"))
           /\ Reset(c, "task") \in Elements(loop'[v])
                => Reset(c, "task") \in Elements(loop[v])
  <2>1. CASE Answers(w, h) \/ Aborts(w, h)
    BY <1>1, <2>1 DEF Answers, Aborts, Typed, OneReset
  <2>2. CASE Receives(w)
    <3>1. loop[w] # <<>> /\ loop' = [loop EXCEPT ![w] = Tail(@)]
      BY <2>2 DEF Receives
    <3>2. QED
      BY <1>1, <3>1, NextCallback
  <2>3. QED
    BY <2>1, <2>2
<1>4. /\ exec' \in [Worker -> SUBSET Handlers]
      /\ realm' \in [Worker -> MaybeClient]
  <2>1. CASE Answers(w, h) \/ Aborts(w, h)
    BY <1>1, <2>1 DEF Answers, Aborts, Typed
  <2>2. CASE Receives(w)
    <3>1. loop[w] # <<>> /\ loop' = [loop EXCEPT ![w] = Tail(@)]
      BY <2>2 DEF Receives
    <3> DEFINE x == Handler(Head(loop[w]), source[w])
    <3>2. Head(loop[w]) \in Callbacks
      BY <1>1, <3>1, NextCallback
    <3>3. source[w] \in MaybeClient /\ x \in Handlers
      BY <1>1, <3>2, Fields DEF Typed, Handlers, Handler
    <3>4. \/ UNCHANGED <<exec, realm>>
          \/ /\ exec' = [exec EXCEPT ![w] = @ \cup {x}]
             /\ realm' = [realm EXCEPT ![w] = source[w]]
      BY <2>2 DEF Receives
    <3> HIDE DEF x
    <3>5. /\ exec \in [Worker -> SUBSET Handlers] /\ realm \in [Worker -> MaybeClient]
          /\ exec[w] \cup {x} \in SUBSET Handlers
      BY <1>1, <3>3 DEF Typed
    <3> HIDE DEF Handlers, MaybeClient
    <3>6. CASE UNCHANGED <<exec, realm>>
      BY <3>5, <3>6
    <3>7. CASE /\ exec' = [exec EXCEPT ![w] = @ \cup {x}]
               /\ realm' = [realm EXCEPT ![w] = source[w]]
      BY <3>3, <3>5, <3>7
    <3>8. QED
      BY <3>4, <3>6, <3>7
  <2>3. QED
    BY <2>1, <2>2
<1>5. /\ main' \in Seq(Events)
      /\ \A c \in Client : /\ Granted(c) \in Elements(main') <=> Granted(c) \in Elements(main)
                           /\ Once(main', Granted(c))
  <2>1. CASE Receives(w) \/ Aborts(w, h)
    BY <1>1, <2>1 DEF Receives, Aborts, Typed, OnePlace
  <2>2. CASE Answers(w, h)
    <3> DEFINE e == [kind |-> "answer", client |-> receiver[w], no |-> h.no,
                     of |-> h.client, realm |-> h.realm]
    <3>1. h \in Handlers /\ receiver[w] \in MaybeClient
      BY <1>1, <2>2 DEF Typed, Answers
    <3>2. h.no \in Nat /\ h.client \in MaybeClient /\ h.realm \in MaybeClient
      BY <3>1 DEF Handlers, MaybeClient
    <3>3. e \in Events /\ e.kind = "answer"
      BY <3>1, <3>2 DEF Events
    <3>4. main' = Append(main, e) /\ main \in Seq(Events)
      BY <1>1, <2>2 DEF Answers, Typed
    <3> HIDE DEF e
    <3>5. /\ Append(main, e) \in Seq(Events)
          /\ Elements(Append(main, e)) = Elements(main) \cup {e}
          /\ \A g : Once(main, g) /\ (g # e \/ g \notin Elements(main))
                      => Once(Append(main, e), g)
      BY <3>3, <3>4, Appended
    <3>6. \A c : Granted(c) # e
      BY <3>3, Told
    <3>7. \A c \in Client : Once(main, Granted(c))
      BY <1>1 DEF OnePlace
    <3>8. QED
      BY <3>4, <3>5, <3>6, <3>7
  <2>3. QED
    BY <2>1, <2>2
<1>6. Typed'
  BY <1>1, <1>2, <1>3, <1>4, <1>5 DEF Typed, lists, clients
<1>7. \A c \in Client : \A p \in Places : IsAt(c, p)' <=> IsAt(c, p)
  BY <1>2, <1>5 DEF IsAt
<1>8. \A c \in Client : Held(c)' = Held(c) /\ Once(queue', Get(c))
  BY <1>1, <1>2 DEF OnePlace, Held, clients
<1>9. QED
  BY <1>2, <1>3, <1>5, <1>6, <1>7, <1>8, NobodyMoves DEF lists, clients

\* A session that has its worker calls it, or stops what it runs.
LEMMA SessionGoesOn ==
  ASSUME OwnerInv, NEW c \in Client,
         Calls(c) \/ Terminates(c) \/ Flushes(c) \/ StopsAgain(c)
  PROVE  OwnerInv'
<1>1. Typed /\ OneReset /\ OnePlace
  BY DEF OwnerInv
<1>2. UNCHANGED <<lists, running, source, realm, exec, receiver, handle, main>>
  BY DEF Calls, Terminates, Flushes, StopsAgain, Stop, engines
<1>3. /\ state' \in [Client -> States]
      /\ \A d \in Client : /\ state[d] = "asked" => state'[d] = "asked"
                           /\ Held(d)' => Held(d)
  <2>1. /\ state[c] \in {"holding", "terminating", "flushing"}
        /\ \/ state' = state
           \/ state' = [state EXCEPT ![c] = "terminating"]
           \/ state' = [state EXCEPT ![c] = "flushing"]
           \/ state' = [state EXCEPT ![c] = "releasing"]
    BY DEF Calls, Terminates, Flushes, StopsAgain
  <2>2. state \in [Client -> States]
    BY <1>1 DEF Typed
  <2>3. state' \in [Client -> States] /\ \A d \in Client : d # c => state'[d] = state[d]
    <3>1. \A to \in States :
            /\ [state EXCEPT ![c] = to] \in [Client -> States]
            /\ \A d \in Client : d # c => [state EXCEPT ![c] = to][d] = state[d]
      BY <2>2
    <3>2. {"terminating", "flushing", "releasing"} \subseteq States
      BY DEF States
    <3>3. QED
      BY <2>1, <2>2, <3>1, <3>2
  <2>4. Held(c) /\ state[c] # "asked"
    BY <2>1 DEF Held
  <2>5. QED
    BY <2>3, <2>4 DEF Held
<1>4. /\ queue' \in Seq(Requests) /\ calls' \in [Client -> Nat]
      /\ \A d \in Client : /\ Get(d) \in Elements(queue') <=> Get(d) \in Elements(queue)
                           /\ Once(queue', Get(d))
  <2>1. CASE Calls(c) \/ Flushes(c)
    <3> DEFINE t == Message(c, calls[c] + 1)
    <3>1. calls[c] + 1 \in Nat
      BY <1>1 DEF Typed
    <3>2. t \in Requests /\ t.kind # "get"
      BY <3>1, Told DEF Requests
    <3>3. Execute(t) /\ calls' = [calls EXCEPT ![c] = @ + 1]
      BY <2>1 DEF Calls, Flushes, Sent
    <3> HIDE DEF t
    <3>4. QED
      BY <1>1, <3>1, <3>2, <3>3, QueueKeeps DEF OnePlace, Typed
  <2>2. CASE Terminates(c) \/ StopsAgain(c)
    BY <1>1, <2>2 DEF Terminates, StopsAgain, poolVars, OnePlace, Typed
  <2>3. QED
    BY <2>1, <2>2
<1>5. /\ loop' \in [Worker -> Seq(Callbacks)]
      /\ \A d \in Client : \A v \in Worker :
           /\ Once(loop'[v], Reset(d, "task"))
           /\ Reset(d, "task") \in Elements(loop'[v])
                => Reset(d, "task") \in Elements(loop[v])
  <2>1. CASE Calls(c) \/ Flushes(c)
    BY <1>1, <2>1 DEF Calls, Flushes, engines, OneReset, Typed
  <2>2. CASE Terminates(c) \/ StopsAgain(c)
    <3>1. Post(handle[c], Reset(c, "main"))
      BY <2>2 DEF Terminates, StopsAgain, Stop
    <3>2. Reset(c, "main") \in Callbacks /\ Reset(c, "main").kind # "task"
      BY Told DEF Callbacks
    <3>3. QED
      BY <1>1, <3>1, <3>2, PostKeeps
  <2>3. QED
    BY <2>1, <2>2
<1>6. Typed'
  BY <1>1, <1>2, <1>3, <1>4, <1>5 DEF Typed, lists
<1>7. \A d \in Client : \A p \in Places : IsAt(d, p)' <=> IsAt(d, p)
  BY <1>2, <1>4 DEF IsAt
<1>8. \A d \in Client : Once(main', Granted(d))
  BY <1>1, <1>2 DEF OnePlace
<1>9. QED
  BY <1>2, <1>3, <1>4, <1>5, <1>6, <1>7, <1>8, NobodyMoves DEF lists

\* Threads park and go on, or nothing happens.
LEMMA NothingMoves ==
  ASSUME OwnerInv, UNCHANGED <<queue, lists, running, engines, clients, main>>
  PROVE  OwnerInv'
<1>1. Typed'
  BY DEF OwnerInv, Typed, lists, engines, clients
<1>2. \A c \in Client : \A p \in Places : IsAt(c, p)' <=> IsAt(c, p)
  BY DEF IsAt
<1>3. \A c \in Client : Held(c)' = Held(c)
  BY DEF Held, clients
<1>4. QED
  BY <1>1, <1>2, <1>3, NobodyMoves
  DEF OwnerInv, OnePlace, OneReset, lists, engines, clients

\* The request of one session goes to another place.
LEMMA RequestMoves ==
  ASSUME OnePlace, NEW c \in Client, NEW to \in Places, UNCHANGED state,
         \A p \in Places : IsAt(c, p)' => p = to, \E p \in Places : IsAt(c, p),
         \A d \in Client : \A p \in Places : d # c /\ IsAt(d, p)' => IsAt(d, p),
         \A d \in Client : Once(queue', Get(d)) /\ Once(main', Granted(d))
  PROVE  OnePlace'
BY DEF OnePlace

\* No session gets or loses a worker.
LEMMA OwnersStay ==
  ASSUME Owned, IdleApart, UNCHANGED <<workers, used, handle>>,
         \A c \in Client : Has(c)' => Has(c)
  PROVE  Owned' /\ IdleApart'
<1>1. Owned'
  BY DEF Owned
<1>2. IdleApart'
  BY DEF IdleApart, Elements, Once
<1>3. QED
  BY <1>1, <1>2

\* A thread moves a request from one stage to another.
LEMMA StageMoves ==
  ASSUME Typed, NEW c \in Client, NEW from \in Wanting, NEW to \in Wanting,
         running' = (running \ {At(Get(c), from)}) \cup {At(Get(c), to)}
  PROVE  /\ \A q \in running' : OnThread(q)
         /\ \A d \in Client : \A s \in Wanting :
              At(Get(d), s) \in running' <=>
                \/ d = c /\ s = to
                \/ At(Get(d), s) \in running /\ ~(d = c /\ s = from)
<1>1. Get(c) \in Requests
  BY DEF Requests
<1>2. \A q \in running' : OnThread(q)
  BY <1>1, Told DEF Typed, OnThread
<1>3. \A d \in Client : \A s, t \in Wanting : At(Get(d), s) = At(Get(c), t) <=> d = c /\ s = t
  BY Told
<1>4. QED
  BY <1>2, <1>3

\* ... and it is there only, if nothing else changes for the others.
LEMMA StageTaken ==
  ASSUME OwnerInv, NEW c \in Client, NEW from \in Wanting, NEW to \in Wanting,
         At(Get(c), from) \in running,
         running' = (running \ {At(Get(c), from)}) \cup {At(Get(c), to)},
         UNCHANGED <<queue, main, state>>
  PROVE  /\ \A q \in running' : OnThread(q)
         /\ \A p \in Places : IsAt(c, p)' <=> p = to
         /\ \A d \in Client : \A p \in Places : d # c => (IsAt(d, p)' <=> IsAt(d, p))
         /\ OnePlace'
<1>1. Typed /\ OnePlace
  BY DEF OwnerInv
<1>2. /\ \A q \in running' : OnThread(q)
      /\ \A d \in Client : \A s \in Wanting :
           At(Get(d), s) \in running' <=>
             \/ d = c /\ s = to
             \/ At(Get(d), s) \in running /\ ~(d = c /\ s = from)
  <2> HIDE DEF Typed
  <2>1. QED
    BY <1>1, StageMoves
<1>3. \A d \in Client : \A p \in Places : d # c => (IsAt(d, p)' <=> IsAt(d, p))
  BY <1>2 DEF IsAt
<1>4. IsAt(c, from) /\ from \in Places /\ to \in Places
  BY DEF IsAt, Places
<1>5. \A p \in Places : IsAt(c, p) => p = from
  BY <1>1, <1>4 DEF OnePlace
<1>6. \A p \in Places : IsAt(c, p)' <=> p = to
  <2>1. \A p \in Places : IsAt(c, p)' => p = to \/ (IsAt(c, p) /\ p # from)
    BY <1>2 DEF IsAt, Wanting
  <2>2. IsAt(c, to)'
    BY <1>2 DEF IsAt
  <2>3. QED
    BY <1>5, <2>1, <2>2
<1>7. \A d \in Client : Once(queue', Get(d)) /\ Once(main', Granted(d))
  BY <1>1 DEF OnePlace
<1>8. OnePlace'
  BY <1>1, <1>3, <1>4, <1>6, <1>7, RequestMoves
<1>9. QED
  BY <1>2, <1>3, <1>6, <1>8

LEMMA TakenKeeps == ASSUME OwnerInv, Taken PROVE OwnerInv'
<1> DEFINE h == Head(queue)
<1>1. /\ Typed /\ OnePlace /\ OneReset /\ Owned /\ IdleApart
  BY DEF OwnerInv
<1>2. /\ queue # <<>> /\ queue' = Tail(queue) /\ running' = running \cup {At(h, "taken")}
      /\ UNCHANGED <<lists, engines, clients, main>>
  BY DEF Taken, TakeTask
<1>3. /\ h \in Requests /\ queue' \in Seq(Requests)
      /\ Elements(queue) = {h} \cup Elements(queue')
      /\ \A e : Once(queue, e) => Once(queue', e)
      /\ Once(queue, h) => h \notin Elements(queue')
  BY <1>1, <1>2, HeadTaken DEF Typed
<1> HIDE DEF h
<1>4. \A q \in running' : OnThread(q)
  BY <1>1, <1>2, <1>3, Told DEF Typed, OnThread
<1>5. \A d \in Client : \A s \in Wanting :
        At(Get(d), s) \in running' <=>
          \/ At(Get(d), s) \in running
          \/ s = "taken" /\ h = Get(d)
  BY <1>2, Told
<1>6. Typed'
  BY <1>1, <1>2, <1>3, <1>4 DEF Typed, lists, engines, clients
<1>7. \A d \in Client : Once(queue', Get(d)) /\ Once(main', Granted(d))
  BY <1>1, <1>2, <1>3 DEF OnePlace
<1>8. \A d \in Client : \A p \in Places :
        IsAt(d, p)' => IsAt(d, p) \/ (p = "taken" /\ h = Get(d))
  BY <1>2, <1>3, <1>5 DEF IsAt
<1>9. \A d \in Client : IsAt(d, "resets")' <=> IsAt(d, "resets")
  BY <1>5 DEF IsAt, Wanting
<1>10. OnePlace'
  <2>1. CASE \A d \in Client : h # Get(d)
    BY <1>1, <1>2, <1>7, <1>8, <2>1 DEF OnePlace, clients
  <2>2. ASSUME NEW c \in Client, h = Get(c) PROVE OnePlace'
    <3>1. IsAt(c, "queued") /\ "queued" \in Places /\ "taken" \in Places
      BY <1>3, <2>2 DEF IsAt, Places, Wanting
    <3>2. \A p \in Places : IsAt(c, p) => p = "queued"
      BY <1>1, <3>1 DEF OnePlace
    <3>3. ~IsAt(c, "queued")'
      BY <1>1, <1>3, <2>2 DEF IsAt, OnePlace, Wanting
    <3>4. \A p \in Places : IsAt(c, p)' => p = "taken"
      BY <1>8, <3>2, <3>3
    <3>5. \A d \in Client : d # c => h # Get(d)
      BY <2>2, Told
    <3>6. \A d \in Client : \A p \in Places : d # c /\ IsAt(d, p)' => IsAt(d, p)
      BY <1>8, <3>5
    <3>7. UNCHANGED state
      BY <1>2 DEF clients
    <3>8. QED
      BY <1>1, <1>7, <3>1, <3>4, <3>6, <3>7, RequestMoves
  <2>3. QED
    BY <2>1, <2>2
<1>11. OneReset'
  BY <1>1, <1>2, <1>9 DEF OneReset, engines
<1>12. \A d \in Client : Has(d)' => Has(d)
  BY <1>2, <1>8 DEF Has, Held, clients, Places, Wanting
<1>13. Owned' /\ IdleApart'
  BY <1>1, <1>2, <1>12, OwnersStay DEF lists, clients
<1>14. QED
  BY <1>6, <1>10, <1>11, <1>13 DEF OwnerInv

\* A thread that a request occupies
LEMMA OfRequest ==
  ASSUME Typed, NEW r \in running, r.stage \notin {"taken", "ended"} \/ r.task.kind = "get"
  PROVE  \E c \in Client : r.task = Get(c) /\ r = At(Get(c), r.stage) /\ r.task.client = c
<1>1. r.task \in Requests /\ r = At(r.task, r.stage) /\ r.task.kind = "get"
  BY DEF Typed, OnThread
<1>2. QED
  BY <1>1, Told DEF Requests

LEMMA BlocksKeeps == ASSUME OwnerInv, NEW r \in running, Blocks(r) PROVE OwnerInv'
<1>1. /\ Typed /\ OnePlace /\ OneReset /\ Owned /\ IdleApart
  BY DEF OwnerInv
<1>2. PICK c \in Client : r.task = Get(c) /\ r = At(Get(c), r.stage)
  BY <1>1, OfRequest DEF Blocks
<1>3. /\ r = At(Get(c), "taken")
      /\ running' = (running \ {At(Get(c), "taken")}) \cup {At(Get(c), "wants")}
      /\ UNCHANGED <<queue, lists, engines, clients, main>>
  BY <1>2 DEF Blocks, Block, Move
<1>4. "taken" \in Wanting /\ "wants" \in Wanting /\ UNCHANGED <<queue, main, state>>
  BY <1>3 DEF Wanting, clients
<1>5. /\ \A q \in running' : OnThread(q)
      /\ \A p \in Places : IsAt(c, p)' <=> p = "wants"
      /\ \A d \in Client : \A p \in Places : d # c => (IsAt(d, p)' <=> IsAt(d, p))
      /\ OnePlace'
  BY <1>3, <1>4, StageTaken
<1>6. Typed'
  BY <1>1, <1>3, <1>5 DEF Typed, lists, engines, clients
<1>7. ~IsAt(c, "resets")
  BY <1>1, <1>3 DEF OnePlace, IsAt, Places, Wanting
<1>8. OneReset'
  BY <1>1, <1>3, <1>5, <1>7 DEF OneReset, engines, Places, Wanting
<1>9. \A d \in Client : Has(d)' => Has(d)
  BY <1>3, <1>5 DEF Has, Held, clients, Places, Wanting
<1>10. Owned' /\ IdleApart'
  BY <1>1, <1>3, <1>9, OwnersStay DEF lists, clients
<1>11. QED
  BY <1>5, <1>6, <1>8, <1>10 DEF OwnerInv

\* GetWorker gives a worker that nobody has.
LEMMA GetsKeeps == ASSUME OwnerInv, NEW r \in running, Gets(r) PROVE OwnerInv'
<1> DEFINE w == Head(workers)
<1>1. /\ Typed /\ OnePlace /\ OneReset /\ Owned /\ IdleApart
  BY DEF OwnerInv
<1>2. r.stage \notin {"taken", "ended"}
  BY DEF Gets
<1>3. PICK c \in Client : r.task = Get(c) /\ r = At(Get(c), r.stage) /\ r.task.client = c
  BY <1>1, <1>2, OfRequest
<1>4. /\ r = At(Get(c), "wants")
      /\ running' = (running \ {At(Get(c), "wants")}) \cup {At(Get(c), "resets")}
      /\ workers # <<>> /\ workers' = Tail(workers) /\ used' = used \cup {w}
      /\ handle' = [handle EXCEPT ![c] = w]
      /\ loop' = [loop EXCEPT ![w] = Append(loop[w], Reset(c, "task"))]
      /\ UNCHANGED <<queue, source, realm, exec, receiver, state, calls, main>>
  BY <1>3 DEF Gets, Move, Post, poolVars
<1>5. /\ w \in Worker /\ workers' \in Seq(Worker)
      /\ Elements(workers) = {w} \cup Elements(workers')
      /\ \A e : Once(workers, e) => Once(workers', e)
      /\ Once(workers, w) => w \notin Elements(workers')
  BY <1>1, <1>4, HeadTaken DEF Typed
<1> HIDE DEF w
<1>6. "wants" \in Wanting /\ "resets" \in Wanting /\ "resets" \in Places
  BY DEF Wanting, Places
<1>7. /\ \A q \in running' : OnThread(q)
      /\ \A p \in Places : IsAt(c, p)' <=> p = "resets"
      /\ \A d \in Client : \A p \in Places : d # c => (IsAt(d, p)' <=> IsAt(d, p))
      /\ OnePlace'
  BY <1>4, <1>6, StageTaken
<1>8. ~IsAt(c, "resets")
  BY <1>1, <1>4 DEF OnePlace, IsAt, Places, Wanting
<1>9. \A v \in Worker : Reset(c, "task") \notin Elements(loop[v])
  BY <1>1, <1>8 DEF OneReset
<1>10. /\ loop[w] \in Seq(Callbacks) /\ Reset(c, "task") \in Callbacks
  <2>1. loop[w] \in Seq(Callbacks)
    BY <1>1, <1>5 DEF Typed
  <2>2. Reset(c, "task") \in Callbacks
    BY DEF Callbacks
  <2>3. QED
    BY <2>1, <2>2
<1>11. /\ Append(loop[w], Reset(c, "task")) \in Seq(Callbacks)
       /\ Elements(Append(loop[w], Reset(c, "task"))) = Elements(loop[w]) \cup {Reset(c, "task")}
       /\ \A e : Once(loop[w], e) /\ (e # Reset(c, "task") \/ e \notin Elements(loop[w]))
                   => Once(Append(loop[w], Reset(c, "task")), e)
  BY <1>10, Appended
<1>12. /\ loop' \in [Worker -> Seq(Callbacks)]
       /\ loop'[w] = Append(loop[w], Reset(c, "task"))
       /\ \A v \in Worker : v # w => loop'[v] = loop[v]
  BY <1>1, <1>4, <1>5, <1>11 DEF Typed
<1>13. Typed'
  BY <1>1, <1>4, <1>5, <1>7, <1>12 DEF Typed
<1>14. \A d \in Client : d # c => Reset(d, "task") # Reset(c, "task")
  BY Told
<1>15. \A d \in Client : \A v \in Worker :
         /\ Once(loop'[v], Reset(d, "task"))
         /\ Reset(d, "task") \in Elements(loop'[v])
              <=> IF d = c THEN v = w ELSE Reset(d, "task") \in Elements(loop[v])
  <2>1. \A d \in Client : \A v \in Worker : Once(loop[v], Reset(d, "task"))
    BY <1>1 DEF OneReset
  <2>2. QED
    BY <1>5, <1>9, <1>11, <1>12, <1>14, <2>1
<1>16. OneReset'
  <2>1. \A d \in Client : d # c => (IsAt(d, "resets")' <=> IsAt(d, "resets"))
    BY <1>6, <1>7
  <2>2. IsAt(c, "resets")'
    BY <1>6, <1>7
  <2>3. QED
    BY <1>1, <1>15, <2>1, <2>2 DEF OneReset
<1>17. /\ handle'[c] = w /\ \A d \in Client : d # c => handle'[d] = handle[d]
       /\ w \notin used
  BY <1>1, <1>4, <1>5 DEF Typed, IdleApart
<1>18. \A d \in Client : d # c /\ Has(d)' => Has(d)
  BY <1>4, <1>7 DEF Has, Held, Places, Wanting
<1>19. Owned'
  BY <1>1, <1>4, <1>17, <1>18 DEF Owned
<1>20. IdleApart'
  BY <1>1, <1>4, <1>5 DEF IdleApart
<1>21. QED
  BY <1>7, <1>13, <1>16, <1>19, <1>20 DEF OwnerInv

\* The worker runs the reset of a request, or of a session that ends.
LEMMA ResetsKeeps == ASSUME OwnerInv, NEW w \in Worker, Resets(w) PROVE OwnerInv'
<1> DEFINE h == Head(loop[w])
<1>1. /\ Typed /\ OnePlace /\ OneReset /\ Owned /\ IdleApart
  BY DEF OwnerInv
<1>2. /\ loop[w] # <<>> /\ loop' = [loop EXCEPT ![w] = Tail(@)]
      /\ UNCHANGED <<queue, lists, source, exec, receiver, clients, main>>
      /\ realm' \in {realm, [realm EXCEPT ![w] = None]}
      /\ IF h.kind = "task" THEN Move(At(Get(h.client), "resets"), "ready")
         ELSE UNCHANGED running
  BY DEF Resets, poolVars
<1>3. /\ h \in Callbacks /\ h \in Elements(loop[w])
      /\ loop' \in [Worker -> Seq(Callbacks)]
      /\ \A d \in Client : \A v \in Worker :
           /\ Once(loop'[v], Reset(d, "task"))
           /\ Reset(d, "task") \in Elements(loop'[v])
                => /\ Reset(d, "task") \in Elements(loop[v])
                   /\ v = w => h # Reset(d, "task")
  BY <1>1, <1>2, NextCallback
<1>4. realm' \in [Worker -> MaybeClient]
  BY <1>1, <1>2 DEF Typed, MaybeClient
<1> HIDE DEF h
<1>5. CASE h.kind # "task"
  <2>1. UNCHANGED running
    BY <1>2, <1>5
  <2>2. Typed'
    BY <1>1, <1>2, <1>3, <1>4, <2>1 DEF Typed, lists, clients
  <2>3. \A d \in Client : \A p \in Places : IsAt(d, p)' <=> IsAt(d, p)
    BY <1>2, <2>1 DEF IsAt
  <2>4. \A d \in Client : Held(d)' = Held(d) /\ Once(queue', Get(d)) /\ Once(main', Granted(d))
    BY <1>1, <1>2 DEF OnePlace, Held, clients
  <2>5. QED
    BY <1>2, <1>3, <2>2, <2>3, <2>4, NobodyMoves DEF lists, clients
<1>6. CASE h.kind = "task"
  <2>1. PICK c \in Client : h = Reset(c, "task")
    BY <1>3, <1>6, Told DEF Callbacks, Requests
  <2>2. running' = (running \ {At(Get(c), "resets")}) \cup {At(Get(c), "ready")}
    BY <1>2, <1>6, <2>1, Told DEF Move
  <2>3. IsAt(c, "resets") /\ \A v \in Worker : Reset(c, "task") \in Elements(loop[v]) => v = w
    BY <1>1, <1>3, <2>1 DEF OneReset
  <2>4. /\ At(Get(c), "resets") \in running /\ "resets" \in Wanting /\ "ready" \in Wanting
        /\ UNCHANGED <<queue, main, state>>
    BY <1>2, <2>3 DEF IsAt, Wanting, clients
  <2>5. /\ \A q \in running' : OnThread(q)
        /\ \A p \in Places : IsAt(c, p)' <=> p = "ready"
        /\ \A d \in Client : \A p \in Places : d # c => (IsAt(d, p)' <=> IsAt(d, p))
        /\ OnePlace'
    BY <2>2, <2>4, StageTaken
  <2>6. Typed'
    BY <1>1, <1>2, <1>3, <1>4, <2>5 DEF Typed, lists, clients
  <2>7. \A v \in Worker : Reset(c, "task") \notin Elements(loop'[v])
    BY <1>3, <2>1, <2>3
  <2>8. \A d \in Client : d # c => (IsAt(d, "resets")' <=> IsAt(d, "resets"))
    BY <2>5 DEF Places, Wanting
  <2>9. OneReset'
    BY <1>1, <1>3, <2>7, <2>8 DEF OneReset
  <2>10. \A d \in Client : Has(d)' => Has(d)
    BY <1>2, <2>3, <2>5 DEF Has, Held, clients, Places, Wanting
  <2>11. Owned' /\ IdleApart'
    BY <1>1, <1>2, <2>10, OwnersStay DEF lists, clients
  <2>12. QED
    BY <2>5, <2>6, <2>9, <2>11 DEF OwnerInv
<1>7. QED
  BY <1>5, <1>6

\* The thread completes the request.
LEMMA GrantsKeeps == ASSUME OwnerInv, NEW r \in running, Grants(r) PROVE OwnerInv'
<1>1. /\ Typed /\ OnePlace /\ OneReset /\ Owned /\ IdleApart
  BY DEF OwnerInv
<1>2. r.stage \notin {"taken", "ended"}
  BY DEF Grants
<1>3. PICK c \in Client : r.task = Get(c) /\ r = At(Get(c), r.stage) /\ r.task.client = c
  BY <1>1, <1>2, OfRequest
<1>4. /\ r = At(Get(c), "ready")
      /\ running' = (running \ {At(Get(c), "ready")}) \cup {At(Get(c), "granted")}
      /\ source' = [source EXCEPT ![handle[c]] = c]
      /\ main' = Append(main, Granted(c))
      /\ UNCHANGED <<queue, lists, loop, realm, exec, receiver, clients>>
  BY <1>3 DEF Grants, Move, Granted, poolVars
<1>5. main \in Seq(Events) /\ Granted(c) \in Events
  BY <1>1 DEF Typed, Events
<1>6. /\ main' \in Seq(Events)
      /\ Elements(main') = Elements(main) \cup {Granted(c)}
      /\ \A e : Once(main, e) /\ (e # Granted(c) \/ e \notin Elements(main)) => Once(main', e)
  BY <1>4, <1>5, Appended
<1>7. \A d \in Client : \A s \in Wanting :
        At(Get(d), s) \in running' => At(Get(d), s) \in running /\ ~(d = c /\ s = "ready")
  <2>1. \A d \in Client : \A s \in Wanting :
          /\ At(Get(d), s) # At(Get(c), "granted")
          /\ At(Get(d), s) = At(Get(c), "ready") <=> d = c /\ s = "ready"
    BY Told DEF Wanting
  <2>2. QED
    BY <1>4, <2>1
<1>8. \A q \in running' : OnThread(q)
  <2>1. Get(c) \in Requests
    BY DEF Requests
  <2>2. QED
    BY <1>1, <1>4, <2>1, Told DEF Typed, OnThread
<1>9. Typed'
  <2>1. source \in [Worker -> MaybeClient] /\ c \in MaybeClient
    BY <1>1 DEF Typed, MaybeClient
  <2>2. source' \in [Worker -> MaybeClient]
    BY <1>4, <2>1
  <2>3. QED
    BY <1>1, <1>4, <1>6, <1>8, <2>2 DEF Typed, lists, clients
<1>10. IsAt(c, "ready") /\ "ready" \in Places /\ "posted" \in Places
  BY <1>4 DEF IsAt, Wanting, Places
<1>11. \A p \in Places : IsAt(c, p) => p = "ready"
  BY <1>1, <1>10 DEF OnePlace
<1>12. \A d \in Client : d # c => Granted(d) # Granted(c)
  BY Told
<1>13. \A d \in Client : \A p \in Places :
         IsAt(d, p)' => \/ d = c /\ p = "posted"
                        \/ IsAt(d, p) /\ ~(d = c /\ p = "ready")
  BY <1>4, <1>6, <1>7, <1>12 DEF IsAt, Wanting
<1>14. \A d \in Client : Once(queue', Get(d)) /\ Once(main', Granted(d))
  <2>1. Granted(c) \notin Elements(main)
    BY <1>10, <1>11 DEF IsAt
  <2>2. QED
    BY <1>1, <1>4, <1>6, <1>12, <2>1 DEF OnePlace
<1>15. \A p \in Places : IsAt(c, p)' => p = "posted"
  BY <1>11, <1>13
<1>16. OnePlace'
  <2>1. UNCHANGED state
    BY <1>4 DEF clients
  <2>2. QED
    BY <1>1, <1>10, <1>13, <1>14, <1>15, <2>1, RequestMoves
<1>17. \A d \in Client : IsAt(d, "resets") => IsAt(d, "resets")'
  BY <1>4, Told DEF IsAt, Wanting
<1>18. OneReset'
  BY <1>1, <1>4, <1>17 DEF OneReset
<1>19. \A d \in Client : Has(d)' => Has(d)
  BY <1>4, <1>10, <1>13 DEF Has, Held, clients, Places, Wanting
<1>20. Owned' /\ IdleApart'
  BY <1>1, <1>4, <1>19, OwnersStay DEF lists, clients
<1>21. QED
  BY <1>9, <1>16, <1>18, <1>20 DEF OwnerInv

LEMMA AsksKeeps == ASSUME OwnerInv, NEW c \in Client, Asks(c) PROVE OwnerInv'
<1>1. /\ Typed /\ OnePlace /\ OneReset /\ Owned /\ IdleApart
  BY DEF OwnerInv
<1>2. /\ state[c] = "new" /\ state' = [state EXCEPT ![c] = "asked"]
      /\ queue' = Append(queue, Get(c))
      /\ UNCHANGED <<lists, running, engines, handle, calls, main>>
  BY DEF Asks, Execute
<1>3. queue \in Seq(Requests) /\ Get(c) \in Requests
  BY <1>1 DEF Typed, Requests
<1>4. /\ queue' \in Seq(Requests)
      /\ Elements(queue') = Elements(queue) \cup {Get(c)}
      /\ \A e : Once(queue, e) /\ (e # Get(c) \/ e \notin Elements(queue)) => Once(queue', e)
  BY <1>2, <1>3, Appended
<1>5. /\ state' \in [Client -> States] /\ state'[c] = "asked"
      /\ \A d \in Client : d # c => state'[d] = state[d]
  BY <1>1, <1>2 DEF Typed, States
<1>6. Typed'
  BY <1>1, <1>2, <1>4, <1>5 DEF Typed, lists, engines
<1>7. \A p \in Places : ~IsAt(c, p)
  BY <1>1, <1>2 DEF OnePlace
<1>8. \A d \in Client : \A p \in Places :
        IsAt(d, p)' => IsAt(d, p) \/ (d = c /\ p = "queued")
  BY <1>2, <1>4, Told DEF IsAt
<1>9. Get(c) \notin Elements(queue) /\ \A d \in Client : d # c => Get(d) # Get(c)
  BY <1>7, Told DEF IsAt, Places
<1>10. \A d \in Client : Once(queue', Get(d)) /\ Once(main', Granted(d))
  BY <1>1, <1>2, <1>4, <1>9 DEF OnePlace
<1>11. OnePlace'
  BY <1>1, <1>5, <1>7, <1>8, <1>10 DEF OnePlace
<1>12. OneReset'
  BY <1>1, <1>2 DEF OneReset, engines, IsAt, Wanting
<1>13. \A d \in Client : Has(d)' => Has(d)
  BY <1>2, <1>5, <1>8 DEF Has, Held, Places, Wanting
<1>14. Owned' /\ IdleApart'
  BY <1>1, <1>2, <1>13, OwnersStay DEF lists
<1>15. QED
  BY <1>6, <1>11, <1>12, <1>14 DEF OwnerInv

\* The next callback of the main loop: a session learns that it has a worker, or hears an
\* answer.
LEMMA HearsKeeps == ASSUME OwnerInv, Hears PROVE OwnerInv'
<1> DEFINE e == Head(main)
<1>1. /\ Typed /\ OnePlace /\ OneReset /\ Owned /\ IdleApart
  BY DEF OwnerInv
<1>2. /\ main # <<>> /\ main' = Tail(main)
      /\ UNCHANGED <<queue, lists, running, loop, source, realm, exec, handle, calls>>
      /\ \/ /\ e.kind = "granted"
            /\ receiver' = [receiver EXCEPT ![handle[e.client]] = e.client]
            /\ state' = [state EXCEPT ![e.client] = "holding"]
         \/ e.kind = "answer" /\ UNCHANGED <<receiver, state>>
  BY DEF Hears, poolVars
<1>3. /\ e \in Events /\ main' \in Seq(Events)
      /\ Elements(main) = {e} \cup Elements(main')
      /\ \A g : Once(main, g) => Once(main', g)
      /\ Once(main, e) => e \notin Elements(main')
  BY <1>1, <1>2, HeadTaken DEF Typed
<1> HIDE DEF e
<1>4. \A d \in Client : Once(queue', Get(d)) /\ Once(main', Granted(d))
  BY <1>1, <1>2, <1>3 DEF OnePlace
<1>5. \A d \in Client : \A p \in Places : IsAt(d, p)' => IsAt(d, p)
  BY <1>2, <1>3 DEF IsAt
<1>6. OneReset'
  BY <1>1, <1>2 DEF OneReset, IsAt, Wanting
<1>7. CASE e.kind = "answer"
  <2>1. UNCHANGED <<receiver, state>>
    BY <1>2, <1>7
  <2>2. Typed'
    BY <1>1, <1>2, <1>3, <2>1 DEF Typed, lists
  <2>3. OnePlace'
    BY <1>1, <1>4, <1>5, <2>1 DEF OnePlace
  <2>4. \A d \in Client : Has(d)' => Has(d)
    BY <1>5, <2>1 DEF Has, Held, Places, Wanting
  <2>5. Owned' /\ IdleApart'
    BY <1>1, <1>2, <2>4, OwnersStay DEF lists
  <2>6. QED
    BY <1>6, <2>2, <2>3, <2>5 DEF OwnerInv
<1>8. CASE e.kind = "granted"
  <2>1. PICK c \in Client : e = Granted(c)
    BY <1>3, <1>8, Told DEF Events
  <2>2. /\ receiver' = [receiver EXCEPT ![handle[c]] = c]
        /\ state' = [state EXCEPT ![c] = "holding"]
    BY <1>2, <1>8, <2>1, Told
  <2>3. /\ state' \in [Client -> States] /\ state'[c] = "holding"
        /\ \A d \in Client : d # c => state'[d] = state[d]
    BY <1>1, <2>1, <2>2 DEF Typed, States
  <2>4. Typed'
    <3>1. receiver \in [Worker -> MaybeClient] /\ c \in MaybeClient
      BY <1>1 DEF Typed, MaybeClient
    <3>2. receiver' \in [Worker -> MaybeClient]
      BY <2>2, <3>1
    <3>3. QED
      BY <1>1, <1>2, <1>3, <2>3, <3>2 DEF Typed, lists
  <2>5. IsAt(c, "posted") /\ "posted" \in Places
    BY <1>3, <2>1 DEF IsAt, Places
  <2>6. \A p \in Places : IsAt(c, p) => p = "posted"
    BY <1>1, <2>1, <2>5 DEF OnePlace
  <2>7. ~IsAt(c, "posted")'
    BY <1>1, <1>3, <2>1 DEF IsAt, OnePlace, Wanting
  <2>8. \A p \in Places : ~IsAt(c, p)'
    BY <1>5, <2>1, <2>6, <2>7
  <2>9. OnePlace'
    BY <1>1, <1>4, <1>5, <2>3, <2>8 DEF OnePlace
  <2>10. Has(c)
    BY <2>5 DEF Has
  <2>11. \A d \in Client : Has(d)' => Has(d)
    BY <1>5, <2>3, <2>10 DEF Has, Held, Places, Wanting
  <2>12. Owned' /\ IdleApart'
    BY <1>1, <1>2, <2>11, OwnersStay DEF lists
  <2>13. QED
    BY <1>6, <2>4, <2>9, <2>12 DEF OwnerInv
<1>9. QED
  BY <1>2, <1>7, <1>8

\* ReleaseWorker: the worker of a session that ends is idle, and the session has none.
LEMMA ReleaseKeeps ==
  ASSUME OwnerInv, NEW c \in Client, Releases(c) \/ Lets(c)
  PROVE  OwnerInv'
<1> DEFINE w == handle[c]
<1>1. /\ Typed /\ OnePlace /\ OneReset /\ Owned /\ IdleApart
  BY DEF OwnerInv
<1>2. /\ state[c] \in {"holding", "releasing"} /\ state' = [state EXCEPT ![c] = "gone"]
      /\ UNCHANGED <<queue, running, engines, handle, calls, main>>
      /\ IF w \in used THEN workers' = Append(workers, w) /\ used' = used \ {w}
         ELSE UNCHANGED lists
  BY DEF Releases, Lets, Release, poolVars
<1>3. Held(c) /\ state[c] # "asked"
  BY <1>2 DEF Held
<1>4. /\ w \in used
      /\ \A d \in Client : Has(d) /\ handle[d] = w => d = c
  BY <1>1, <1>3 DEF Owned, Has
<1>5. \A p \in Places : ~IsAt(c, p)
  BY <1>1, <1>3 DEF OnePlace
<1>6. /\ state' \in [Client -> States] /\ state'[c] = "gone"
      /\ \A d \in Client : d # c => state'[d] = state[d]
  BY <1>1, <1>2 DEF Typed, States
<1>7. workers \in Seq(Worker) /\ w \in Worker
  <2>1. w \in Worker \cup {None}
    BY <1>1 DEF Typed
  <2>2. used \subseteq Worker
    BY <1>1 DEF Typed
  <2>3. QED
    BY <1>1, <1>4, <2>2 DEF Typed
<1> HIDE DEF w
<1>8. /\ workers' \in Seq(Worker)
      /\ Elements(workers') = Elements(workers) \cup {w}
      /\ \A e : Once(workers, e) /\ (e # w \/ e \notin Elements(workers)) => Once(workers', e)
      /\ used' = used \ {w}
  <2>1. /\ Append(workers, w) \in Seq(Worker)
        /\ Elements(Append(workers, w)) = Elements(workers) \cup {w}
        /\ \A e : Once(workers, e) /\ (e # w \/ e \notin Elements(workers))
                    => Once(Append(workers, w), e)
    BY <1>7, Appended
  <2>2. workers' = Append(workers, w) /\ used' = used \ {w}
    BY <1>2, <1>4
  <2>3. QED
    BY <2>1, <2>2
<1>9. Typed'
  BY <1>1, <1>2, <1>6, <1>8 DEF Typed, engines
<1>10. \A d \in Client : \A p \in Places : IsAt(d, p)' <=> IsAt(d, p)
  BY <1>2 DEF IsAt
<1>11. OnePlace'
  BY <1>1, <1>2, <1>5, <1>6, <1>10 DEF OnePlace
<1>12. OneReset'
  BY <1>1, <1>2, <1>10 DEF OneReset, engines, Places, Wanting
<1>13. ~Has(c)' /\ \A d \in Client : d # c /\ Has(d)' => Has(d)
  BY <1>5, <1>6, <1>10 DEF Has, Held, Places, Wanting
<1>14. Owned'
  BY <1>1, <1>2, <1>4, <1>8, <1>13 DEF Owned
<1>15. IdleApart'
  BY <1>1, <1>4, <1>8 DEF IdleApart
<1>16. QED
  BY <1>9, <1>11, <1>12, <1>14, <1>15 DEF OwnerInv

LEMMA OwnerInit == Init => OwnerInv
<1> SUFFICES ASSUME Init PROVE OwnerInv
  OBVIOUS
<1>1. workers \in Seq(Worker) /\ \A w \in Worker : Once(workers, w)
  <2>1. Cardinality(Worker) \in Nat
    BY WorkerAssumption, FS_CardinalityType
  <2>2. /\ workers \in [1..Cardinality(Worker) -> Worker]
        /\ \A i, j \in DOMAIN workers : workers[i] = workers[j] => i = j
    BY DEF Init
  <2>3. workers \in Seq(Worker)
    BY <2>1, <2>2
  <2>4. QED
    BY <2>2, <2>3 DEF Once
<1>2. Elements(<<>>) = {} /\ \A e : Once(<<>>, e)
  BY DEF Elements, Once
<1>3. /\ used = {} /\ running = {} /\ queue = <<>> /\ main = <<>>
      /\ loop = [w \in Worker |-> <<>>]
      /\ state = [c \in Client |-> "new"]
  BY DEF Init, PoolInit
<1>4. Typed
  BY <1>1, <1>3 DEF Init, Typed, MaybeClient, States
<1>5. \A c \in Client : \A p \in Places : ~IsAt(c, p)
  BY <1>2, <1>3 DEF IsAt
<1>6. OnePlace
  BY <1>2, <1>3, <1>5 DEF OnePlace
<1>7. OneReset
  BY <1>2, <1>3 DEF OneReset
<1>8. \A c \in Client : ~Has(c)
  BY <1>3, <1>5 DEF Has, Held, Places, Wanting
<1>9. Owned /\ IdleApart
  BY <1>1, <1>3, <1>8 DEF Owned, IdleApart
<1>10. QED
  BY <1>4, <1>6, <1>7, <1>9 DEF OwnerInv

LEMMA OwnerStep == OwnerInv /\ [Next]_vars => OwnerInv'
<1> SUFFICES ASSUME OwnerInv, [Next]_vars PROVE OwnerInv'
  OBVIOUS
<1>1. CASE Taken
  BY <1>1, TakenKeeps
<1>2. CASE Parks
  <2>1. UNCHANGED <<queue, lists, running, engines, clients, main>>
    BY <1>2 DEF Parks, Park, Unpark
  <2>2. QED
    BY <2>1, NothingMoves
<1>3. CASE Hears
  BY <1>3, HearsKeeps
<1>4. ASSUME NEW r \in running, Thread(r) PROVE OwnerInv'
  <2>1. CASE Blocks(r)
    BY <2>1, BlocksKeeps
  <2>2. CASE Gets(r)
    BY <2>2, GetsKeeps
  <2>3. CASE Grants(r)
    BY <2>3, GrantsKeeps
  <2>4. CASE Unblocks(r) \/ Sends(r) \/ Ends(r)
    BY <2>4, ThreadGoesOn
  <2>5. QED
    BY <1>4, <2>1, <2>2, <2>3, <2>4 DEF Thread
<1>5. ASSUME NEW w \in Worker, Loop(w) PROVE OwnerInv'
  <2>1. CASE Resets(w)
    BY <2>1, ResetsKeeps
  <2>2. ASSUME NEW x, Receives(w) \/ Answers(w, x) \/ Aborts(w, x) PROVE OwnerInv'
    BY <2>2, LoopGoesOn
  <2>3. QED
    BY <1>5, <2>1, <2>2 DEF Loop
<1>6. ASSUME NEW c \in Client, Main(c) PROVE OwnerInv'
  <2>1. CASE Asks(c)
    BY <2>1, AsksKeeps
  <2>2. CASE Calls(c) \/ Terminates(c) \/ Flushes(c) \/ StopsAgain(c)
    BY <2>2, SessionGoesOn
  <2>3. CASE Releases(c) \/ Lets(c)
    BY <2>3, ReleaseKeeps
  <2>4. QED
    BY <1>6, <2>1, <2>2, <2>3 DEF Main, Ending
<1>7. CASE UNCHANGED vars
  <2>1. UNCHANGED <<queue, lists, running, engines, clients, main>>
    BY <1>7 DEF vars, poolVars
  <2>2. QED
    BY <2>1, NothingMoves
<1> QED
  BY <1>1, <1>2, <1>3, <1>4, <1>5, <1>6, <1>7 DEF Next

\* GetWorker, ReleaseWorker, release: a worker is idle, or one session has it, however
\* many threads take workers, and however the sessions end.
THEOREM WorkersHaveOneOwner == Spec => []OneOwner
<1>1. OwnerInv => OneOwner
  <2> SUFFICES ASSUME OwnerInv PROVE OneOwner
    OBVIOUS
  <2>1. workers \in Seq(Worker)
    BY DEF OwnerInv, Typed
  <2>2. \A i \in DOMAIN workers : workers[i] \in Worker
    BY <2>1
  <2>3. \A i, j \in DOMAIN workers : workers[i] = workers[j] => i = j
    BY <2>2 DEF OwnerInv, IdleApart, Once
  <2>4. \A i \in DOMAIN workers : workers[i] \notin used
    BY DEF OwnerInv, IdleApart, Elements
  <2>5. \A c \in Client : Held(c) => Has(c)
    BY DEF Has
  <2>6. QED
    BY <2>3, <2>4, <2>5 DEF OwnerInv, Owned, OneOwner
<1> QED
  BY <1>1, OwnerInit, OwnerStep, PTL DEF Spec

-----------------------------------------------------------------------------
(***************************************************************************)
(* A session hears its own answers                                         *)
(***************************************************************************)
\* Messages, handlers and answers of a session that ended in haste may be anywhere.
Late(c) == c \in hasty

\* A message under way is of a session that has a worker, and goes to that one.
MessagesHeld ==
  /\ \A m \in Elements(queue) : m.kind = "send" => Held(m.client) \/ Late(m.client)
  /\ \A r \in running :
       r.task.kind = "send" /\ r.stage = "taken" => Held(r.task.client) \/ Late(r.task.client)
  /\ \A w \in Worker : \A m \in Elements(loop[w]) :
       m.kind = "send" => (Held(m.client) /\ handle[m.client] = w) \/ Late(m.client)

\* The worker of a session has its source and its onReceiveMain.
WorkerPrepared ==
  \A c \in Client :
    /\ Held(c) => source[handle[c]] = c /\ receiver[handle[c]] = c
    /\ IsAt(c, "posted") => source[handle[c]] = c

\* A message is handled with the functions of its session, while that has the worker.
RunsOwn ==
  \A w \in Worker : \A x \in exec[w] :
    \/ Held(x.client) /\ handle[x.client] = w /\ x.realm = x.client
    \/ Late(x.client)

IsOwn(e) == e.of = e.client /\ e.realm = e.client

AnswersOwn == \A e \in Elements(main) : e.kind = "answer" => IsOwn(e) \/ Late(e.of)

GotOwn ==
  /\ got \in [Client -> SUBSET Events]
  /\ \A c \in Client : \A e \in got[c] : e.client = c /\ (IsOwn(e) \/ Late(e.of))

Mine == MessagesHeld /\ WorkerPrepared /\ RunsOwn /\ AnswersOwn /\ GotOwn

AnswerInv == OwnerInv /\ Mine

-----------------------------------------------------------------------------
\* What Post adds to the loops
LEMMA Posted ==
  ASSUME Typed, NEW u, NEW x \in Callbacks, Post(u, x)
  PROVE  \A w \in Worker : \A m \in Elements(loop'[w]) :
           m \in Elements(loop[w]) \/ (m = x /\ w = u)
<1>1. loop' = [loop EXCEPT ![u] = Append(loop[u], x)]
  BY DEF Post
<1>2. loop \in [Worker -> Seq(Callbacks)]
  BY DEF Typed
<1>3. SUFFICES ASSUME NEW w \in Worker
               PROVE  \A m \in Elements(loop'[w]) : m \in Elements(loop[w]) \/ (m = x /\ w = u)
  OBVIOUS
<1>4. CASE w # u
  BY <1>1, <1>2, <1>4
<1>5. CASE w = u
  <2>1. loop'[w] = Append(loop[w], x) /\ loop[w] \in Seq(Callbacks)
    BY <1>1, <1>2, <1>5
  <2>2. Elements(Append(loop[w], x)) = Elements(loop[w]) \cup {x}
    BY <2>1, Appended
  <2>3. QED
    BY <1>5, <2>1, <2>2
<1>6. QED
  BY <1>4, <1>5

\* What a worker leaves in its loop was there.
LEMMA LoopShrinks ==
  ASSUME Typed, NEW u \in Worker, loop[u] # <<>>, loop' = [loop EXCEPT ![u] = Tail(@)]
  PROVE  \A w \in Worker : \A m \in Elements(loop'[w]) : m \in Elements(loop[w])
<1>1. loop \in [Worker -> Seq(Callbacks)] /\ loop[u] \in Seq(Callbacks)
  BY DEF Typed
<1>2. Elements(loop[u]) = {Head(loop[u])} \cup Elements(Tail(loop[u]))
  BY <1>1, HeadTaken
<1>3. loop'[u] = Tail(loop[u]) /\ \A w \in Worker : w # u => loop'[w] = loop[w]
  BY <1>1
<1>4. QED
  BY <1>2, <1>3

\* A task that is given to the pool is a request, or a message of a session that has a
\* worker.
LEMMA Given ==
  ASSUME Typed, NEW t \in Requests, Execute(t)
  PROVE  \A m \in Elements(queue') : m \in Elements(queue) \/ m = t
<1>1. queue \in Seq(Requests) /\ queue' = Append(queue, t)
  BY DEF Typed, Execute
<1>2. QED
  BY <1>1, Appended

\* No worker gets another source or receiver, no session gets or loses a worker or an
\* answer; messages of sessions that have workers, and answers to what is handled, are
\* all that is added.
LEMMA NobodyDisturbed ==
  ASSUME OwnerInv', Mine, UNCHANGED <<source, receiver, got, hasty>>,
         \A c \in Client :
           /\ Held(c)' <=> Held(c)
           /\ Held(c) => handle'[c] = handle[c]
           /\ IsAt(c, "posted")' => IsAt(c, "posted") /\ handle'[c] = handle[c],
         \A w \in Worker : exec'[w] \subseteq exec[w] /\ \A x \in exec[w] : x.client \in Client,
         \A m \in Elements(queue') :
           m.kind = "send" => m \in Elements(queue) \/ (m.client \in Client /\ Held(m.client)),
         \A r \in running' :
           r.task.kind = "send" /\ r.stage = "taken" =>
             r \in running \/ r.task \in Elements(queue),
         \A w \in Worker : \A m \in Elements(loop'[w]) :
           m.kind = "send" => \/ m \in Elements(loop[w])
                              \/ Held(m.client) /\ handle[m.client] = w
                              \/ Late(m.client),
         \A w \in Worker : \A m \in Elements(loop'[w]) : m.kind = "send" => m.client \in Client,
         \A m \in Elements(queue') : m.client \in Client,
         \A r \in running' : r.task.client \in Client,
         \A e \in Elements(main') :
           e.kind = "answer" => e \in Elements(main) \/ IsOwn(e) \/ Late(e.of)
  PROVE  Mine'
<1> USE DEF Late
<1>1. MessagesHeld'
  <2>1. \A m \in Elements(queue') : m.kind = "send" => Held(m.client)' \/ Late(m.client)'
    BY DEF Mine, MessagesHeld
  <2>2. \A r \in running' : r.task.kind = "send" /\ r.stage = "taken" =>
          Held(r.task.client)' \/ Late(r.task.client)'
    BY DEF Mine, MessagesHeld
  <2>3. \A w \in Worker : \A m \in Elements(loop'[w]) :
          m.kind = "send" =>
            (Held(m.client)' /\ handle'[m.client] = w) \/ Late(m.client)'
    BY DEF Mine, MessagesHeld
  <2>4. QED
    BY <2>1, <2>2, <2>3 DEF MessagesHeld, Elements
<1>2. WorkerPrepared'
  <2>1. \A c \in Client : IsAt(c, "posted")' => handle'[c] \in Worker
    <3>1. used' \subseteq Worker
      BY DEF OwnerInv, Typed
    <3>2. QED
      BY <3>1 DEF OwnerInv, Owned, Has
  <2>2. QED
    BY <2>1 DEF Mine, WorkerPrepared
<1>3. RunsOwn'
  BY DEF Mine, RunsOwn
<1>4. AnswersOwn'
  BY DEF Mine, AnswersOwn, IsOwn, Elements
<1>5. GotOwn'
  BY DEF Mine, GotOwn, IsOwn
<1>6. QED
  BY <1>1, <1>2, <1>3, <1>4, <1>5 DEF Mine

\* A session that waits for its worker has none yet, and the worker it will have is nobody's.
LEMMA NotYetHeld ==
  ASSUME OwnerInv, NEW c \in Client, NEW p \in Places, IsAt(c, p)
  PROVE  /\ state[c] = "asked" /\ ~Held(c)
         /\ \A q \in Places : IsAt(c, q) => q = p
         /\ p \in {"resets", "ready", "posted"}
              => \A d \in Client : Held(d) => handle[d] # handle[c]
<1>1. state[c] = "asked" /\ \A q \in Places : IsAt(c, q) => q = p
  BY DEF OwnerInv, OnePlace
<1>2. ~Held(c)
  BY <1>1 DEF Held
<1>3. ASSUME p \in {"resets", "ready", "posted"}
      PROVE  \A d \in Client : Held(d) => handle[d] # handle[c]
  <2>1. Has(c) /\ \A d \in Client : Held(d) => Has(d)
    BY <1>3 DEF Has
  <2>2. QED
    BY <1>2, <2>1 DEF OwnerInv, Owned
<1>4. QED
  BY <1>1, <1>2, <1>3

\* Whom messages, tasks and callbacks belong to
Belonging ==
  /\ \A m \in Elements(queue) : m \in Requests /\ m.client \in Client
  /\ \A r \in running : r.task \in Requests /\ r.task.client \in Client
  /\ \A w \in Worker : \A m \in Elements(loop[w]) : m \in Callbacks /\ m.client \in Client
  /\ \A w \in Worker : \A x \in exec[w] : x \in Handlers /\ x.client \in Client

LEMMA Belongs == Typed => Belonging
<1> SUFFICES ASSUME Typed PROVE Belonging
  OBVIOUS
<1>1. \A m \in Requests : m.client \in Client
  BY Fields DEF Callbacks
<1>2. \A m \in Elements(queue) : m \in Requests
  BY DEF Typed, Elements
<1>3. \A r \in running : r.task \in Requests
  BY DEF Typed, OnThread
<1>4. \A w \in Worker : \A m \in Elements(loop[w]) : m \in Callbacks
  <2>1. \A w \in Worker : loop[w] \in Seq(Callbacks)
    BY DEF Typed
  <2>2. QED
    BY <2>1 DEF Elements
<1>5. \A w \in Worker : \A x \in exec[w] : x \in Handlers /\ x.client \in Client
  BY DEF Typed, Handlers
<1>6. QED
  BY <1>1, <1>2, <1>3, <1>4, <1>5, Fields DEF Belonging

LEMMA BelongsNext == Typed' => Belonging'
BY Belongs, PTL

\* The tasks on the threads, but for the one that completes a request
LEMMA ThreadsDisturbNobody ==
  ASSUME OwnerInv, OwnerInv', Mine, NEW r \in running,
         Blocks(r) \/ Gets(r) \/ Unblocks(r) \/ Sends(r) \/ Ends(r)
  PROVE  Mine'
<1>1. Typed /\ Typed'
  BY DEF OwnerInv
<1>2. /\ UNCHANGED <<source, realm, exec, receiver, state, got, main, hasty>>
      /\ UNCHANGED queue
  BY DEF Blocks, Block, Gets, Unblocks, Unblock, Sends, Ends, Finish, engines, clients, poolVars
<1>3. \A q \in running' : q \in running \/ q.stage # "taken"
  BY Told DEF Blocks, Gets, Unblocks, Sends, Ends, Move
<1>4. \A c \in Client : Held(c)' <=> Held(c)
  BY <1>2 DEF Held
<1>5. \A c \in Client : IsAt(c, "posted")' => IsAt(c, "posted")
  BY <1>2 DEF IsAt, Elements, Wanting
<1>6. \A c \in Client :
        Held(c) \/ IsAt(c, "posted") => handle'[c] = handle[c]
  <2>1. CASE ~Gets(r)
    BY <2>1 DEF Blocks, Unblocks, Sends, Ends, clients
  <2>2. CASE Gets(r)
    <3>1. PICK d \in Client : r.task = Get(d) /\ r = At(Get(d), r.stage) /\ r.task.client = d
      BY <1>1, <2>2, OfRequest DEF Gets
    <3>2. r = At(Get(d), "wants") /\ handle' = [handle EXCEPT ![d] = Head(workers)]
      BY <2>2, <3>1 DEF Gets
    <3>3. IsAt(d, "wants") /\ {"wants", "posted"} \subseteq Places
      BY <3>2 DEF IsAt, Wanting, Places
    <3>4. ~Held(d) /\ ~IsAt(d, "posted")
      BY <3>3, NotYetHeld
    <3>5. \A c \in Client : c # d => handle'[c] = handle[c]
      BY <1>1, <3>2 DEF Typed
    <3>6. QED
      BY <3>4, <3>5
  <2>3. QED
    BY <2>1, <2>2
<1>7. \A w \in Worker : \A m \in Elements(loop'[w]) :
        m.kind = "send" => \/ m \in Elements(loop[w])
                           \/ Held(m.client) /\ handle[m.client] = w
                           \/ Late(m.client)
  <2>1. CASE Blocks(r) \/ Unblocks(r) \/ Ends(r)
    BY <2>1 DEF Blocks, Unblocks, Ends, engines
  <2>2. CASE Gets(r)
    <3>1. PICK d \in Client : r.task = Get(d) /\ r.task.client = d
      BY <1>1, <2>2, OfRequest DEF Gets
    <3>2. Post(Head(workers), Reset(d, "task"))
      BY <2>2, <3>1 DEF Gets
    <3>3. Reset(d, "task") \in Callbacks /\ Reset(d, "task").kind = "task"
      BY Told DEF Callbacks
    <3>4. QED
      BY <1>1, <3>2, <3>3, Posted
  <2>3. CASE Sends(r)
    <3>1. r.task \in Callbacks /\ r.task.kind = "send" /\ r.stage = "taken"
      BY <1>1, <2>3, Belongs DEF Sends, Callbacks, Belonging
    <3>2. Post(handle[r.task.client], r.task)
      BY <2>3 DEF Sends
    <3>3. Held(r.task.client) \/ Late(r.task.client)
      BY <3>1 DEF Mine, MessagesHeld
    <3>4. QED
      BY <1>1, <3>1, <3>2, <3>3, Posted
  <2>4. QED
    BY <2>1, <2>2, <2>3
<1>8. /\ \A m \in Elements(queue') : m.client \in Client
      /\ \A q \in running' : q.task.client \in Client
      /\ \A w \in Worker : \A m \in Elements(loop'[w]) : m.client \in Client
  BY <1>1, BelongsNext DEF Belonging, Elements
<1>9. QED
  <2>1. Elements(queue') = Elements(queue) /\ Elements(main') = Elements(main)
    BY <1>2
  <2>2. \A w \in Worker : exec'[w] \subseteq exec[w] /\ \A x \in exec[w] : x.client \in Client
    BY <1>1, <1>2, Belongs DEF Belonging
  <2>3. QED
    BY <1>2, <1>3, <1>4, <1>5, <1>6, <1>7, <1>8, <2>1, <2>2, NobodyDisturbed

\* A thread takes the next task, threads park and go on, or nothing happens.
LEMMA QueueDisturbsNobody ==
  ASSUME OwnerInv, OwnerInv', Mine, Taken \/ Parks \/ UNCHANGED vars
  PROVE  Mine'
<1>1. Typed /\ Typed'
  BY DEF OwnerInv
<1>2. UNCHANGED <<source, realm, exec, receiver, loop, clients, main, hasty>>
  BY DEF Taken, Parks, vars, engines
<1>3. /\ \A m \in Elements(queue') : m \in Elements(queue)
      /\ \A q \in running' :
           q \in running \/ (q.task \in Elements(queue) /\ q.stage = "taken")
  <2>1. CASE Taken
    <3>1. /\ queue # <<>> /\ queue' = Tail(queue)
          /\ running' = running \cup {At(Head(queue), "taken")}
      BY <2>1 DEF Taken, TakeTask
    <3>2. queue \in Seq(Requests)
      BY <1>1 DEF Typed
    <3>3. Elements(queue) = {Head(queue)} \cup Elements(Tail(queue))
      BY <3>1, <3>2, HeadTaken
    <3>4. QED
      BY <3>1, <3>3, Told
  <2>2. CASE Parks \/ UNCHANGED vars
    BY <2>2 DEF Parks, Park, Unpark, vars, poolVars
  <2>3. QED
    BY <2>1, <2>2
<1>4. \A c \in Client : (Held(c)' <=> Held(c)) /\ handle'[c] = handle[c]
  BY <1>2 DEF Held, clients
<1>5. \A c \in Client : IsAt(c, "posted")' => IsAt(c, "posted")
  BY <1>2 DEF IsAt, Elements, Wanting
<1>6. /\ \A m \in Elements(queue') : m.client \in Client
      /\ \A q \in running' : q.task.client \in Client
      /\ \A w \in Worker : \A m \in Elements(loop'[w]) : m.client \in Client
  BY <1>1, BelongsNext DEF Belonging, Elements
<1>7. UNCHANGED got /\ Elements(main') = Elements(main)
  BY <1>2 DEF clients
<1>8. \A w \in Worker : Elements(loop'[w]) = Elements(loop[w])
  BY <1>2
<1>9. \A w \in Worker : exec'[w] \subseteq exec[w] /\ \A x \in exec[w] : x.client \in Client
  BY <1>1, <1>2, Belongs DEF Belonging
<1>10. QED
  BY <1>2, <1>3, <1>4, <1>5, <1>6, <1>7, <1>8, <1>9, NobodyDisturbed

\* A handler that goes on answers the session that has the worker: its own, unless that
\* ended in haste.
LEMMA LoopDisturbsNobody ==
  ASSUME OwnerInv, OwnerInv', Mine, NEW u \in Worker, NEW h,
         Resets(u) \/ Answers(u, h) \/ Aborts(u, h)
  PROVE  Mine'
<1>1. Typed /\ Typed'
  BY DEF OwnerInv
<1>2. UNCHANGED <<queue, source, receiver, clients, hasty>>
  BY DEF Resets, Answers, Aborts, poolVars
<1>3. \A w \in Worker : \A m \in Elements(loop'[w]) : m \in Elements(loop[w])
  <2>1. CASE Resets(u)
    <3>1. loop[u] # <<>> /\ loop' = [loop EXCEPT ![u] = Tail(@)]
      BY <2>1 DEF Resets
    <3>2. QED
      BY <1>1, <3>1, LoopShrinks
  <2>2. CASE Answers(u, h) \/ Aborts(u, h)
    BY <2>2 DEF Answers, Aborts
  <2>3. QED
    BY <2>1, <2>2
<1>4. \A w \in Worker : exec'[w] \subseteq exec[w] /\ \A x \in exec[w] : x.client \in Client
  <2>1. exec' = exec \/ exec' = [exec EXCEPT ![u] = @ \ {h}]
    BY DEF Resets, Answers, Aborts
  <2>2. \A w \in Worker : exec'[w] \subseteq exec[w]
    BY <1>1, <2>1 DEF Typed
  <2>3. QED
    BY <1>1, <2>2, Belongs DEF Belonging
<1>5. \A e \in Elements(main') :
        \/ e \in Elements(main)
        \/ e.kind = "answer" /\ (IsOwn(e) \/ Late(e.of))
  <2>1. CASE Resets(u) \/ Aborts(u, h)
    BY <2>1 DEF Resets, Aborts
  <2>2. CASE Answers(u, h)
    <3> DEFINE e == [kind |-> "answer", client |-> receiver[u], no |-> h.no,
                     of |-> h.client, realm |-> h.realm]
    <3>1. h \in exec[u] /\ h.client \in Client
      BY <1>1, <2>2, Belongs DEF Answers, Belonging
    <3>2. (h.realm = h.client /\ receiver[u] = h.client) \/ Late(h.client)
      BY <3>1 DEF Mine, RunsOwn, WorkerPrepared
    <3>3. e.kind = "answer" /\ (IsOwn(e) \/ Late(e.of))
      BY <3>2 DEF IsOwn
    <3>4. main' = Append(main, e)
      BY <2>2 DEF Answers
    <3>5. main' \in Seq(Events) /\ main \in Seq(Events)
      BY <1>1 DEF Typed
    <3> HIDE DEF e
    <3>6. \A i \in DOMAIN main' : main'[i] \in Elements(main) \/ main'[i] = e
      BY <3>4, <3>5 DEF Elements
    <3>7. QED
      BY <3>3, <3>6 DEF Elements
  <2>3. QED
    BY <2>1, <2>2
<1>6. \A r \in running' : r \in running \/ r.stage = "ready"
  BY Told DEF Resets, Answers, Aborts, Move
<1>7. \A c \in Client : (Held(c)' <=> Held(c)) /\ handle'[c] = handle[c]
  BY <1>2 DEF Held, clients
<1>8. \A c \in Client : IsAt(c, "posted")' => IsAt(c, "posted")
  <2>1. \A c \in Client : Granted(c) \in Elements(main') => Granted(c) \in Elements(main)
    BY <1>5, Told
  <2>2. QED
    BY <2>1 DEF IsAt, Wanting
<1>9. /\ \A m \in Elements(queue') : m.client \in Client
      /\ \A q \in running' : q.task.client \in Client
      /\ \A w \in Worker : \A m \in Elements(loop'[w]) : m.client \in Client
  BY <1>1, BelongsNext DEF Belonging, Elements
<1>10. UNCHANGED got /\ Elements(queue') = Elements(queue)
  BY <1>2 DEF clients
<1>11. \A r \in running' : r.task.kind = "send" /\ r.stage = "taken" => r \in running
  BY <1>6
<1>12. QED
  BY <1>2, <1>3, <1>4, <1>5, <1>7, <1>8, <1>9, <1>10, <1>11, NobodyDisturbed

\* A session asks for a worker, calls it, or stops what it runs.
LEMMA SessionDisturbsNobody ==
  ASSUME OwnerInv, OwnerInv', Mine, NEW c \in Client,
         Asks(c) \/ Calls(c) \/ Terminates(c) \/ Flushes(c) \/ StopsAgain(c)
  PROVE  Mine'
<1>1. Typed /\ Typed'
  BY DEF OwnerInv
<1>2. UNCHANGED <<running, source, realm, exec, receiver, handle, got, main, hasty>>
  BY DEF Asks, Calls, Terminates, Flushes, StopsAgain, Stop, engines
<1>3. /\ \A d \in Client : Held(d)' <=> Held(d)
      /\ Asks(c) \/ Held(c)
  <2>1. /\ \/ /\ Asks(c) /\ state[c] = "new"
              /\ state' = [state EXCEPT ![c] = "asked"]
           \/ /\ Held(c)
              /\ \/ state' = state
                 \/ state' = [state EXCEPT ![c] = "terminating"]
                 \/ state' = [state EXCEPT ![c] = "flushing"]
                 \/ state' = [state EXCEPT ![c] = "releasing"]
    BY DEF Asks, Calls, Terminates, Flushes, StopsAgain, Held
  <2>2. state \in [Client -> States]
    BY <1>1 DEF Typed
  <2>3. \A d \in Client : d # c => state'[d] = state[d]
    BY <2>1, <2>2
  <2>4. state'[c] \in {"holding", "terminating", "flushing", "releasing"} <=> Held(c)
    <3>1. CASE Asks(c) /\ state[c] = "new" /\ state' = [state EXCEPT ![c] = "asked"]
      BY <2>2, <3>1 DEF Held
    <3>2. CASE Held(c) /\ state' = state
      BY <3>2 DEF Held
    <3>3. CASE Held(c) /\ state' # state
      BY <2>1, <2>2, <3>3 DEF Held
    <3>4. QED
      BY <2>1, <3>1, <3>2, <3>3
  <2>5. Asks(c) \/ Held(c)
    BY <2>1
  <2>6. QED
    BY <2>3, <2>4, <2>5 DEF Held
<1>4. \A m \in Elements(queue') :
        m.kind = "send" => m \in Elements(queue) \/ (m.client \in Client /\ Held(m.client))
  <2>1. CASE Asks(c)
    <3>1. Get(c) \in Requests /\ Execute(Get(c))
      BY <2>1 DEF Requests, Asks
    <3>2. QED
      BY <1>1, <3>1, Given, Told
  <2>2. CASE Calls(c) \/ Flushes(c)
    <3> DEFINE t == Message(c, calls[c] + 1)
    <3>1. calls[c] + 1 \in Nat
      BY <1>1 DEF Typed
    <3>2. t \in Requests /\ t.client = c /\ Execute(t)
      BY <2>2, <3>1, Told DEF Requests, Calls, Flushes, Sent
    <3>3. Held(c)
      BY <2>2 DEF Held, Calls, Flushes
    <3> HIDE DEF t
    <3>4. QED
      BY <1>1, <3>2, <3>3, Given
  <2>3. CASE Terminates(c) \/ StopsAgain(c)
    BY <2>3 DEF Terminates, StopsAgain, poolVars
  <2>4. QED
    BY <2>1, <2>2, <2>3
<1>5. \A w \in Worker : \A m \in Elements(loop'[w]) : m.kind = "send" => m \in Elements(loop[w])
  <2>1. CASE Asks(c) \/ Calls(c) \/ Flushes(c)
    BY <2>1 DEF Asks, Calls, Flushes, engines
  <2>2. CASE Terminates(c) \/ StopsAgain(c)
    <3>1. Post(handle[c], Reset(c, "main"))
      BY <2>2 DEF Terminates, StopsAgain, Stop
    <3>2. Reset(c, "main") \in Callbacks /\ Reset(c, "main").kind = "main"
      BY Told DEF Callbacks
    <3>3. QED
      BY <1>1, <3>1, <3>2, Posted
  <2>3. QED
    BY <2>1, <2>2
<1>6. \A d \in Client : IsAt(d, "posted")' => IsAt(d, "posted")
  BY <1>2 DEF IsAt, Elements, Wanting
<1>7. /\ \A m \in Elements(queue') : m.client \in Client
      /\ \A q \in running' : q.task.client \in Client
      /\ \A w \in Worker : \A m \in Elements(loop'[w]) : m.client \in Client
  BY <1>1, BelongsNext DEF Belonging, Elements
<1>8. Elements(main') = Elements(main) /\ running' = running
  BY <1>2
<1>9. \A w \in Worker : exec'[w] \subseteq exec[w] /\ \A x \in exec[w] : x.client \in Client
  BY <1>1, <1>2, Belongs DEF Belonging
<1>10. QED
  BY <1>2, <1>3, <1>4, <1>5, <1>6, <1>7, <1>8, <1>9, NobodyDisturbed

\* The source is set of a worker that no session has yet.
LEMMA GrantsOwn ==
  ASSUME OwnerInv, OwnerInv', Mine, NEW r \in running, Grants(r)
  PROVE  Mine'
<1>1. Typed /\ Typed'
  BY DEF OwnerInv
<1>2. r.stage \notin {"taken", "ended"}
  BY DEF Grants
<1>3. PICK c \in Client : r.task = Get(c) /\ r = At(Get(c), r.stage) /\ r.task.client = c
  BY <1>1, <1>2, OfRequest
<1>4. /\ r = At(Get(c), "ready")
      /\ running' = (running \ {At(Get(c), "ready")}) \cup {At(Get(c), "granted")}
      /\ source' = [source EXCEPT ![handle[c]] = c]
      /\ main' = Append(main, Granted(c))
      /\ UNCHANGED <<queue, loop, realm, exec, receiver, clients, hasty>>
  BY <1>3 DEF Grants, Move, Granted, poolVars
<1>5. IsAt(c, "ready") /\ "ready" \in Places /\ "posted" \in Places
  BY <1>4 DEF IsAt, Wanting, Places
<1>6. /\ ~Held(c) /\ \A q \in Places : IsAt(c, q) => q = "ready"
      /\ \A d \in Client : Held(d) => handle[d] # handle[c]
  BY <1>5, NotYetHeld
<1>7. handle[c] \in Worker /\ \A d \in Client : Has(d) => d = c \/ handle[d] # handle[c]
  <2>1. Has(c) /\ used \subseteq Worker
    BY <1>1, <1>5 DEF Has, Typed
  <2>2. QED
    BY <2>1 DEF OwnerInv, Owned
<1>8. source'[handle[c]] = c /\ \A w \in Worker : w # handle[c] => source'[w] = source[w]
  BY <1>1, <1>4, <1>7 DEF Typed
<1>9. \A e \in Elements(main') : e \in Elements(main) \/ e = Granted(c)
  <2>1. main \in Seq(Events) /\ main' \in Seq(Events)
    BY <1>1 DEF Typed
  <2>2. \A i \in DOMAIN main' : main'[i] \in Elements(main) \/ main'[i] = Granted(c)
    BY <1>4, <2>1 DEF Elements
  <2>3. QED
    BY <2>2 DEF Elements
<1>10. \A d \in Client : (Held(d)' <=> Held(d)) /\ (Held(d) => handle[d] \in Worker)
  <2>1. used \subseteq Worker
    BY <1>1 DEF Typed
  <2>2. \A d \in Client : Held(d) => handle[d] \in Worker
    BY <2>1 DEF Has, OwnerInv, Owned
  <2>3. QED
    BY <1>4, <2>2 DEF Held, clients
<1>11. \A d \in Client :
         IsAt(d, "posted")' => d = c \/ IsAt(d, "posted")
  <2>1. \A d \in Client : Granted(d) = Granted(c) => d = c
    BY Told
  <2>2. QED
    BY <1>9, <2>1 DEF IsAt, Wanting
<1>12. MessagesHeld'
  <2>1. \A q \in running' : q \in running \/ q.stage # "taken"
    BY <1>4, Told
  <2>2. /\ \A m \in Elements(queue) : m.client \in Client
        /\ \A q \in running : q.task.client \in Client
        /\ \A w \in Worker : \A m \in Elements(loop[w]) : m.client \in Client
    BY <1>1, Belongs DEF Belonging
  <2>3. Elements(queue') = Elements(queue) /\ handle' = handle
        /\ \A w \in Worker : Elements(loop'[w]) = Elements(loop[w])
    BY <1>4 DEF clients
  <2>4. QED
    BY <1>4, <1>10, <2>1, <2>2, <2>3 DEF Mine, MessagesHeld, Late
<1>13. WorkerPrepared'
  <2>1. handle' = handle
    BY <1>4 DEF clients
  <2>2. \A d \in Client :
          IsAt(d, "posted") => d # c /\ handle[d] # handle[c] /\ handle[d] \in Worker
    <3>1. \A d \in Client : IsAt(d, "posted") => d # c /\ Has(d)
      BY <1>5, <1>6 DEF Has
    <3>2. used \subseteq Worker
      BY <1>1 DEF Typed
    <3>3. \A d \in Client : Has(d) => handle[d] \in Worker
      BY <3>2 DEF OwnerInv, Owned
    <3>4. QED
      BY <1>7, <3>1, <3>3
  <2>3. \A d \in Client :
          Held(d) => source'[handle[d]] = d /\ receiver'[handle[d]] = d
    BY <1>4, <1>6, <1>8, <1>10 DEF Mine, WorkerPrepared
  <2>4. \A d \in Client : IsAt(d, "posted")' => source'[handle[d]] = d
    BY <1>8, <1>11, <2>2 DEF Mine, WorkerPrepared
  <2>5. QED
    BY <1>10, <2>1, <2>3, <2>4 DEF WorkerPrepared
<1>14. RunsOwn'
  <2>1. \A w \in Worker : \A x \in exec[w] : x.client \in Client
    BY <1>1, Belongs DEF Belonging
  <2>2. handle' = handle /\ exec' = exec /\ hasty' = hasty
    BY <1>4 DEF clients
  <2>3. QED
    BY <1>10, <2>1, <2>2 DEF Mine, RunsOwn, Late
<1>15. AnswersOwn'
  BY <1>4, <1>9, Told DEF Mine, AnswersOwn, IsOwn, Late
<1>16. GotOwn'
  BY <1>4 DEF Mine, GotOwn, clients, IsOwn, Late
<1>17. QED
  BY <1>12, <1>13, <1>14, <1>15, <1>16 DEF Mine

\* A worker starts to handle a message: of the session that has it, with that session's
\* source, or of one that ended in haste.
LEMMA ReceivesOwn ==
  ASSUME OwnerInv, OwnerInv', Mine, NEW u \in Worker, Receives(u)
  PROVE  Mine'
<1> DEFINE m == Head(loop[u])
           x == Handler(m, source[u])
<1>1. Typed /\ Typed'
  BY DEF OwnerInv
<1>2. /\ loop[u] # <<>> /\ loop' = [loop EXCEPT ![u] = Tail(@)]
      /\ m.kind = "send"
      /\ exec' = exec \/ exec' = [exec EXCEPT ![u] = @ \cup {x}]
      /\ UNCHANGED <<queue, running, source, receiver, clients, main, hasty>>
  BY DEF Receives, poolVars
<1>3. m \in Elements(loop[u])
  <2>1. loop[u] \in Seq(Callbacks)
    BY <1>1 DEF Typed
  <2>2. QED
    BY <1>2, <2>1, HeadTaken
<1>4. x.client = m.client /\ x.realm = source[u]
  BY DEF Handler
<1> HIDE DEF m, x
<1>5. m.client \in Client
  BY <1>1, <1>3, Belongs DEF Belonging
<1>6. (Held(m.client) /\ handle[m.client] = u /\ source[u] = m.client) \/ Late(m.client)
  BY <1>2, <1>3, <1>5 DEF Mine, MessagesHeld, WorkerPrepared
<1>7. \A c \in Client : /\ Held(c)' <=> Held(c)
                        /\ \A p \in Places : IsAt(c, p)' <=> IsAt(c, p)
  BY <1>2 DEF Held, IsAt, clients
<1>8. MessagesHeld'
  <2>1. \A w \in Worker : \A y \in Elements(loop'[w]) : y \in Elements(loop[w])
    BY <1>1, <1>2, LoopShrinks
  <2>2. /\ \A y \in Elements(queue) : y.client \in Client
        /\ \A q \in running : q.task.client \in Client
        /\ \A w \in Worker : \A y \in Elements(loop[w]) : y.client \in Client
    BY <1>1, Belongs DEF Belonging
  <2>3. Elements(queue') = Elements(queue) /\ handle' = handle /\ running' = running
        /\ hasty' = hasty
    BY <1>2 DEF clients
  <2>4. QED
    BY <1>7, <2>1, <2>2, <2>3 DEF Mine, MessagesHeld, Late
<1>9. WorkerPrepared'
  <2>1. handle' = handle /\ "posted" \in Places
    BY <1>2 DEF clients, Places
  <2>2. QED
    BY <1>2, <1>7, <2>1 DEF Mine, WorkerPrepared
<1>10. RunsOwn'
  <2>1. \A w \in Worker : \A y \in exec'[w] : y \in exec[w] \/ (y = x /\ w = u)
    BY <1>1, <1>2 DEF Typed
  <2>2. \A w \in Worker : \A y \in exec[w] : y.client \in Client
    BY <1>1, Belongs DEF Belonging
  <2>3. handle' = handle /\ hasty' = hasty
    BY <1>2 DEF clients
  <2>4. QED
    BY <1>4, <1>5, <1>6, <1>7, <2>1, <2>2, <2>3 DEF Mine, RunsOwn, Late
<1>11. AnswersOwn' /\ GotOwn'
  BY <1>2 DEF Mine, AnswersOwn, GotOwn, clients, IsOwn, Elements, Late
<1>12. QED
  BY <1>8, <1>9, <1>10, <1>11 DEF Mine

\* A session takes over the onReceiveMain of the worker it gets, or hears an answer.
LEMMA HearsOwn == ASSUME OwnerInv, OwnerInv', Mine, Hears PROVE Mine'
<1> DEFINE e == Head(main)
<1>1. Typed /\ Typed'
  BY DEF OwnerInv
<1>2. /\ main # <<>> /\ main' = Tail(main)
      /\ UNCHANGED <<queue, running, loop, source, realm, exec, handle, hasty>>
      /\ \/ /\ e.kind = "granted"
            /\ receiver' = [receiver EXCEPT ![handle[e.client]] = e.client]
            /\ state' = [state EXCEPT ![e.client] = "holding"]
            /\ UNCHANGED got
         \/ /\ e.kind = "answer" /\ UNCHANGED <<receiver, state>>
            /\ got' \in {got, [got EXCEPT ![e.client] = @ \cup {e}]}
  BY DEF Hears, poolVars
<1>3. /\ e \in Events /\ e \in Elements(main)
      /\ \A g \in Elements(main') : g \in Elements(main)
      /\ Once(main, e) => e \notin Elements(main')
  BY <1>1, <1>2, HeadTaken DEF Typed
<1> HIDE DEF e
<1>4. \A d \in Client : \A p \in Places : IsAt(d, p)' => IsAt(d, p)
  BY <1>2, <1>3 DEF IsAt
<1>5. /\ \A m \in Elements(queue) : m.client \in Client
      /\ \A q \in running : q.task.client \in Client
      /\ \A w \in Worker : \A m \in Elements(loop[w]) : m.client \in Client
      /\ \A w \in Worker : \A x \in exec[w] : x.client \in Client
  BY <1>1, Belongs DEF Belonging
<1>6. AnswersOwn'
  BY <1>2, <1>3 DEF Mine, AnswersOwn, IsOwn, Late
<1>7. RunsOwn' /\ MessagesHeld' /\ WorkerPrepared' /\ GotOwn'
  <2>1. CASE e.kind = "answer"
    <3>1. \A d \in Client : Held(d)' <=> Held(d)
      BY <1>2, <2>1 DEF Held
    <3>2. UNCHANGED <<queue, running, loop, source, realm, exec, handle, receiver, hasty>>
      BY <1>2, <2>1
    <3>3. Elements(queue') = Elements(queue)
          /\ \A w \in Worker : Elements(loop'[w]) = Elements(loop[w])
      BY <3>2
    <3>4. MessagesHeld'
      BY <1>5, <3>1, <3>2, <3>3 DEF Mine, MessagesHeld, Late
    <3>5. WorkerPrepared'
      <4>1. "posted" \in Places
        BY DEF Places
      <4>2. QED
        BY <1>4, <3>1, <3>2, <4>1 DEF Mine, WorkerPrepared
    <3>6. RunsOwn'
      BY <1>5, <3>1, <3>2 DEF Mine, RunsOwn, Late
    <3>7. GotOwn'
      <4>1. (IsOwn(e) \/ Late(e.of)) /\ got \in [Client -> SUBSET Events]
        BY <1>3, <2>1 DEF Mine, AnswersOwn, GotOwn
      <4>2. CASE got' = got
        BY <1>2, <4>2 DEF Mine, GotOwn, IsOwn, Late
      <4>3. CASE got' = [got EXCEPT ![e.client] = @ \cup {e}]
        <5>1. got' \in [Client -> SUBSET Events]
          BY <1>3, <4>1, <4>3
        <5>2. \A c \in Client : \A x \in got'[c] : x \in got[c] \/ (x = e /\ c = e.client)
          BY <4>1, <4>3
        <5>3. QED
          BY <1>2, <4>1, <5>1, <5>2 DEF Mine, GotOwn, IsOwn, Late
      <4>4. QED
        BY <1>2, <2>1, <4>2, <4>3
    <3>8. QED
      BY <3>4, <3>5, <3>6, <3>7
  <2>2. CASE e.kind = "granted"
    <3>1. PICK c \in Client : e = Granted(c)
      BY <1>3, <2>2, Told DEF Events
    <3>2. /\ receiver' = [receiver EXCEPT ![handle[c]] = c]
          /\ state' = [state EXCEPT ![c] = "holding"] /\ UNCHANGED got
      BY <1>2, <2>2, <3>1, Told
    <3>3. IsAt(c, "posted") /\ "posted" \in Places
      BY <1>3, <3>1 DEF IsAt, Places
    <3>4. /\ ~Held(c) /\ \A p \in Places : IsAt(c, p) => p = "posted"
          /\ \A d \in Client : Held(d) => handle[d] # handle[c]
          /\ source[handle[c]] = c
      BY <3>3, NotYetHeld DEF Mine, WorkerPrepared
    <3>5. \A d \in Client : Has(d) => handle[d] \in Worker
      <4>1. used \subseteq Worker
        BY <1>1 DEF Typed
      <4>2. QED
        BY <4>1 DEF OwnerInv, Owned
    <3>6. handle[c] \in Worker /\ \A d \in Client : Held(d) => handle[d] \in Worker
      BY <3>3, <3>5 DEF Has
    <3>7. /\ receiver'[handle[c]] = c
          /\ \A w \in Worker : w # handle[c] => receiver'[w] = receiver[w]
      BY <1>1, <3>2, <3>6 DEF Typed
    <3>8. \A d \in Client : Held(d)' <=> d = c \/ Held(d)
      BY <1>1, <3>2 DEF Held, Typed
    <3>9. MessagesHeld'
      <4>1. Elements(queue') = Elements(queue) /\ handle' = handle /\ running' = running
            /\ \A w \in Worker : Elements(loop'[w]) = Elements(loop[w])
        BY <1>2
      <4>2. QED
        BY <1>2, <1>5, <3>8, <4>1 DEF Mine, MessagesHeld, Late
    <3>10. WorkerPrepared'
      <4>1. \A d \in Client : Held(d)' => source'[handle'[d]] = d /\ receiver'[handle'[d]] = d
        BY <1>2, <3>4, <3>6, <3>7, <3>8 DEF Mine, WorkerPrepared
      <4>2. QED
        BY <1>2, <1>4, <3>3, <4>1 DEF Mine, WorkerPrepared
    <3>11. RunsOwn'
      BY <1>2, <1>5, <3>8 DEF Mine, RunsOwn, Late
    <3>12. GotOwn'
      BY <1>2, <3>2 DEF Mine, GotOwn, IsOwn, Late
    <3>13. QED
      BY <3>9, <3>10, <3>11, <3>12
  <2>3. QED
    BY <1>2, <2>1, <2>2
<1>8. QED
  BY <1>6, <1>7 DEF Mine

\* A session that ends with no message under way leaves none to the next; one that leaves
\* a message behind is known for it.
LEMMA ReleaseOwn ==
  ASSUME OwnerInv, Mine, NEW c \in Client, Releases(c) \/ Lets(c)
  PROVE  Mine'
<1>1. Typed
  BY DEF OwnerInv
<1>2. /\ state' = [state EXCEPT ![c] = "gone"]
      /\ UNCHANGED <<queue, running, loop, source, realm, exec, receiver, handle, got, main>>
      /\ hasty' = IF UnderWay(c) THEN hasty \cup {c} ELSE hasty
  BY DEF Releases, Lets, Release, poolVars, engines
<1>3. \A d \in Client : Held(d)' <=> d # c /\ Held(d)
  BY <1>1, <1>2 DEF Held, Typed
<1>4. \A d : Late(d) => Late(d)'
  BY <1>2 DEF Late
<1>5. \/ Late(c)'
      \/ /\ \A m \in Elements(queue) : m.kind = "send" => m.client # c
         /\ \A r \in running : r.task.kind = "send" /\ r.stage = "taken" => r.task.client # c
         /\ \A m \in Elements(loop[handle[c]]) : m.kind = "send" => m.client # c
         /\ \A x \in exec[handle[c]] : x.client # c
  <2>1. CASE UnderWay(c)
    BY <1>2, <2>1 DEF Late
  <2>2. CASE ~UnderWay(c)
    BY <2>2 DEF UnderWay, Elements
  <2>3. QED
    BY <2>1, <2>2
<1>6. /\ \A m \in Elements(queue) : m.client \in Client
      /\ \A q \in running : q.task.client \in Client
      /\ \A w \in Worker : \A m \in Elements(loop[w]) : m.client \in Client
      /\ \A w \in Worker : \A x \in exec[w] : x.client \in Client
  BY <1>1, Belongs DEF Belonging
<1>7. \A d \in Client : \A p \in Places : IsAt(d, p)' <=> IsAt(d, p)
  BY <1>2 DEF IsAt
<1>8. MessagesHeld'
  <2>1. Elements(queue') = Elements(queue) /\ handle' = handle /\ running' = running
        /\ \A w \in Worker : Elements(loop'[w]) = Elements(loop[w])
    BY <1>2
  <2>2. \A m \in Elements(queue) : m.kind = "send" => Held(m.client)' \/ Late(m.client)'
    BY <1>3, <1>4, <1>5, <1>6 DEF Mine, MessagesHeld
  <2>3. \A r \in running : r.task.kind = "send" /\ r.stage = "taken" =>
          Held(r.task.client)' \/ Late(r.task.client)'
    BY <1>3, <1>4, <1>5, <1>6 DEF Mine, MessagesHeld
  <2>4. \A w \in Worker : \A m \in Elements(loop[w]) :
          m.kind = "send" => (Held(m.client)' /\ handle[m.client] = w) \/ Late(m.client)'
    BY <1>3, <1>4, <1>5, <1>6 DEF Mine, MessagesHeld
  <2>5. QED
    BY <2>1, <2>2, <2>3, <2>4 DEF MessagesHeld
<1>9. WorkerPrepared'
  <2>1. "posted" \in Places
    BY DEF Places
  <2>2. QED
    BY <1>2, <1>3, <1>7, <2>1 DEF Mine, WorkerPrepared
<1>10. RunsOwn'
  BY <1>2, <1>3, <1>4, <1>5, <1>6 DEF Mine, RunsOwn
<1>11. AnswersOwn' /\ GotOwn'
  BY <1>2, <1>4 DEF Mine, AnswersOwn, GotOwn, IsOwn, Elements
<1>12. QED
  BY <1>8, <1>9, <1>10, <1>11 DEF Mine

LEMMA AnswerInit == Init => AnswerInv
<1> SUFFICES ASSUME Init PROVE AnswerInv
  OBVIOUS
<1>1. OwnerInv
  BY OwnerInit
<1>2. Elements(<<>>) = {}
  BY DEF Elements
<1>3. /\ running = {} /\ queue = <<>> /\ main = <<>>
      /\ loop = [w \in Worker |-> <<>>] /\ exec = [w \in Worker |-> {}]
      /\ state = [c \in Client |-> "new"] /\ got = [c \in Client |-> {}]
  BY DEF Init, PoolInit
<1>4. \A c \in Client : ~Held(c) /\ ~IsAt(c, "posted")
  BY <1>2, <1>3 DEF Held, IsAt, Wanting
<1>5. MessagesHeld /\ AnswersOwn
  BY <1>2, <1>3 DEF MessagesHeld, AnswersOwn
<1>6. WorkerPrepared /\ RunsOwn
  BY <1>3, <1>4 DEF WorkerPrepared, RunsOwn
<1>7. GotOwn
  BY <1>3 DEF GotOwn
<1>8. QED
  BY <1>1, <1>5, <1>6, <1>7 DEF AnswerInv, Mine

LEMMA AnswerStep == AnswerInv /\ [Next]_vars => AnswerInv'
<1> SUFFICES ASSUME AnswerInv, [Next]_vars PROVE AnswerInv'
  OBVIOUS
<1>1. OwnerInv /\ OwnerInv' /\ Mine
  BY OwnerStep DEF AnswerInv
<1>2. CASE Taken \/ Parks \/ UNCHANGED vars
  BY <1>1, <1>2, QueueDisturbsNobody DEF AnswerInv
<1>3. CASE Hears
  BY <1>1, <1>3, HearsOwn DEF AnswerInv
<1>4. ASSUME NEW r \in running, Thread(r) PROVE Mine'
  <2>1. CASE Grants(r)
    BY <1>1, <2>1, GrantsOwn
  <2>2. CASE Blocks(r) \/ Gets(r) \/ Unblocks(r) \/ Sends(r) \/ Ends(r)
    BY <1>1, <2>2, ThreadsDisturbNobody
  <2>3. QED
    BY <1>4, <2>1, <2>2 DEF Thread
<1>5. ASSUME NEW w \in Worker, Loop(w) PROVE Mine'
  <2>1. CASE Receives(w)
    BY <1>1, <2>1, ReceivesOwn
  <2>2. ASSUME NEW h, Resets(w) \/ Answers(w, h) \/ Aborts(w, h) PROVE Mine'
    BY <1>1, <2>2, LoopDisturbsNobody
  <2>3. QED
    BY <1>5, <2>1, <2>2 DEF Loop
<1>6. ASSUME NEW c \in Client, Main(c) PROVE Mine'
  <2>1. CASE Releases(c) \/ Lets(c)
    BY <1>1, <2>1, ReleaseOwn
  <2>2. CASE Asks(c) \/ Calls(c) \/ Terminates(c) \/ Flushes(c) \/ StopsAgain(c)
    BY <1>1, <2>2, SessionDisturbsNobody
  <2>3. QED
    BY <1>6, <2>1, <2>2 DEF Main, Ending
<1>7. QED
  BY <1>1, <1>2, <1>3, <1>4, <1>5, <1>6 DEF Next, AnswerInv

\* onReceive, JsSendFromWorker, the main loop: what a session hears is the answer to its own
\* call, computed with its own source, whatever sessions had its worker before and however
\* many threads carry the messages, or the answer to a session that left a message behind.
THEOREM SessionsHearTheirOwn == Spec => []OwnAnswers
<1>1. AnswerInv => OwnAnswers
  BY DEF AnswerInv, Mine, GotOwn, IsOwn, Late, OwnAnswers
<1> QED
  BY <1>1, AnswerInit, AnswerStep, PTL DEF Spec

-----------------------------------------------------------------------------
(***************************************************************************)
(* The values of the variables                                             *)
(***************************************************************************)
\* A session that ends by force sends one message more.
CallsBounded ==
  \A c \in Client :
    calls[c] <= IF state[c] \in {"flushing", "releasing", "gone"}
                THEN MaxCalls + 1 ELSE MaxCalls

\* No task is given to the pool twice, or kept there by a thread that has taken it.
TaskOnce ==
  /\ \A t \in Elements(queue) : Once(queue, t)
  /\ \A r, q \in running : r.task = q.task => r = q
  /\ \A r \in running : r.task \notin Elements(queue)

Asked(t) ==
  /\ t \in Tasks
  /\ t.kind = "get" => state[t.client] # "new"
  /\ t.kind = "send" => t.no <= calls[t.client]

TasksKnown ==
  /\ \A t \in Elements(queue) : Asked(t)
  /\ \A r \in running : Asked(r.task)

Works(stage) == stage \in {"taken", "ended"}
Working == {r \in running : Works(r.stage)}
Blocking == {r \in running : ~Works(r.stage)}

Counted ==
  /\ IsFiniteSet(running)
  /\ busy = Cardinality(Working) /\ blocked = Cardinality(Blocking)

TaskInv ==
  /\ CallsBounded /\ TaskOnce /\ TasksKnown /\ Counted
  /\ waits \in Client \cup {None} /\ hasty \subseteq Client

-----------------------------------------------------------------------------
\* The task of a thread goes on to another stage.
Moves(r, stage) ==
  /\ Move(r, stage) /\ r.stage # stage /\ UNCHANGED queue
  /\ \/ (Works(r.stage) <=> Works(stage)) /\ UNCHANGED <<busy, blocked>>
     \/ Works(r.stage) /\ ~Works(stage) /\ busy' = busy - 1 /\ blocked' = blocked + 1
     \/ ~Works(r.stage) /\ Works(stage) /\ busy' = busy + 1 /\ blocked' = blocked - 1

\* A session gives its request, or its next message, to the pool.
Gives(c) ==
  /\ UNCHANGED running
  /\ \/ Execute(Get(c)) /\ state[c] = "new" /\ state'[c] # "new"
     \/ /\ Execute(Message(c, calls[c] + 1)) /\ calls'[c] = calls[c] + 1
        /\ calls[c] <= MaxCalls

\* All that happens to tasks
LEMMA TaskSteps ==
  ASSUME OwnerInv, CallsBounded, [Next]_vars
  PROVE  \/ UNCHANGED <<queue, running, busy, blocked>>
         \/ \E c \in Client : Gives(c)
         \/ Taken
         \/ \E r \in running : \E stage : Moves(r, stage)
         \/ \E r \in running : Ends(r)
<1>1. CASE Taken
  BY <1>1
<1>2. CASE Parks \/ Hears \/ UNCHANGED vars
  BY <1>2 DEF Parks, Park, Unpark, Hears, vars, poolVars, places
<1>3. ASSUME NEW r \in running, Thread(r)
      PROVE  Ends(r) \/ \E stage : Moves(r, stage)
  <2>1. CASE Blocks(r)
    <3>1. Moves(r, "wants")
      BY <2>1 DEF Blocks, Block, Moves, Works
    <3>2. QED
      BY <3>1
  <2>2. CASE Gets(r)
    <3>1. Moves(r, "resets")
      BY <2>2 DEF Gets, Moves, Works, poolVars, places
    <3>2. QED
      BY <3>1
  <2>3. CASE Grants(r)
    <3>1. Moves(r, "granted")
      BY <2>3 DEF Grants, Moves, Works, poolVars, places
    <3>2. QED
      BY <3>1
  <2>4. CASE Unblocks(r)
    <3>1. Moves(r, "ended")
      BY <2>4 DEF Unblocks, Unblock, Moves, Works
    <3>2. QED
      BY <3>1
  <2>5. CASE Sends(r)
    <3>1. Moves(r, "ended")
      BY <2>5 DEF Sends, Moves, Works, poolVars, places
    <3>2. QED
      BY <3>1
  <2>6. QED
    BY <1>3, <2>1, <2>2, <2>3, <2>4, <2>5 DEF Thread
<1>4. ASSUME NEW w \in Worker, Loop(w)
      PROVE  \/ UNCHANGED <<queue, running, busy, blocked>>
             \/ \E r \in running : \E stage : Moves(r, stage)
  <2>1. CASE Resets(w) /\ Head(loop[w]).kind = "task"
    <3> DEFINE h == Head(loop[w])
    <3>1. /\ loop[w] # <<>> /\ Move(At(Get(h.client), "resets"), "ready")
          /\ UNCHANGED <<queue, busy, blocked>>
      BY <2>1 DEF Resets, poolVars, places
    <3>2. loop[w] \in Seq(Callbacks)
      BY DEF OwnerInv, Typed
    <3>3. h \in Callbacks /\ h \in Elements(loop[w])
      BY <3>1, <3>2, HeadTaken
    <3>4. PICK d \in Client : h = Reset(d, "task") /\ h.client = d
      BY <2>1, <3>3, Told DEF Callbacks, Requests
    <3>5. At(Get(d), "resets") \in running
      BY <3>3, <3>4 DEF OwnerInv, OneReset, IsAt
    <3> HIDE DEF h
    <3>6. Moves(At(Get(d), "resets"), "ready")
      BY <3>1, <3>4, Told DEF Moves, Works
    <3>7. QED
      BY <3>5, <3>6
  <2>2. CASE ~(Resets(w) /\ Head(loop[w]).kind = "task")
    BY <1>4, <2>2 DEF Loop, Resets, Receives, Answers, Aborts, poolVars, places
  <2>3. QED
    BY <2>1, <2>2
<1>5. ASSUME NEW c \in Client, Main(c)
      PROVE  UNCHANGED <<queue, running, busy, blocked>> \/ Gives(c)
  <2>1. CASE Asks(c)
    <3>1. state \in [Client -> States]
      BY DEF OwnerInv, Typed
    <3>2. QED
      BY <2>1, <3>1 DEF Asks, Gives
  <2>2. CASE Calls(c) \/ Flushes(c)
    <3>1. calls \in [Client -> Nat] /\ calls' = [calls EXCEPT ![c] = @ + 1]
      BY <2>2 DEF OwnerInv, Typed, Calls, Flushes, Sent
    <3>2. Execute(Message(c, calls[c] + 1)) /\ UNCHANGED running
      BY <2>2 DEF Calls, Flushes, Sent
    <3>3. state[c] \in {"holding", "terminating"}
      BY <2>2 DEF Calls, Flushes
    <3>4. calls[c] <= MaxCalls
      BY <3>3 DEF CallsBounded
    <3>5. QED
      BY <3>1, <3>2, <3>4 DEF Gives
  <2>3. CASE Terminates(c) \/ StopsAgain(c) \/ Releases(c) \/ Lets(c)
    BY <2>3 DEF Terminates, StopsAgain, Releases, Lets, Stop, poolVars, places
  <2>4. QED
    BY <1>5, <2>1, <2>2, <2>3 DEF Main, Ending
<1>6. QED
  BY <1>1, <1>2, <1>3, <1>4, <1>5 DEF Next

\* A session does not begin again, and its calls are numbered upwards; it sends one more
\* than it may only when it ends.
LEMMA SessionsGoOn ==
  ASSUME OwnerInv, CallsBounded, [Next]_vars
  PROVE  /\ \A c \in Client : state[c] # "new" => state'[c] # "new"
         /\ \A c \in Client : calls[c] <= calls'[c]
         /\ CallsBounded'
<1>1. /\ state \in [Client -> States] /\ calls \in [Client -> Nat]
      /\ main \in Seq(Events) /\ MaxCalls \in Nat
  BY WorkerAssumption DEF OwnerInv, Typed
<1>2. CASE UNCHANGED <<state, calls>>
  BY <1>1, <1>2 DEF CallsBounded
<1>3. CASE Taken \/ Parks \/ UNCHANGED vars
  BY <1>2, <1>3 DEF Taken, Parks, vars, clients
<1>4. ASSUME NEW r \in running, Thread(r) PROVE UNCHANGED <<state, calls>>
  BY <1>4 DEF Thread, Blocks, Gets, Grants, Unblocks, Sends, Ends, clients
<1>5. ASSUME NEW w \in Worker, Loop(w) PROVE UNCHANGED <<state, calls>>
  BY <1>5 DEF Loop, Resets, Receives, Answers, Aborts, clients
<1>6. ASSUME NEW c \in Client, NEW to \in States, to # "new",
             state' = [state EXCEPT ![c] = to], UNCHANGED calls,
             state[c] \in {"flushing", "releasing", "gone"}
               => to \in {"flushing", "releasing", "gone"}
      PROVE  /\ \A d \in Client : state[d] # "new" => state'[d] # "new"
             /\ \A d \in Client : calls[d] <= calls'[d]
             /\ CallsBounded'
  <2>1. state'[c] = to /\ \A d \in Client : d # c => state'[d] = state[d]
    BY <1>1, <1>6
  <2>2. QED
    BY <1>1, <1>6, <2>1 DEF CallsBounded
<1>7. CASE Hears
  <2>1. CASE UNCHANGED state
    BY <1>2, <1>7, <2>1 DEF Hears
  <2>2. CASE ~UNCHANGED state
    <3>1. /\ Head(main).kind = "granted" /\ main # <<>> /\ UNCHANGED calls
          /\ state' = [state EXCEPT ![Head(main).client] = "holding"]
      BY <1>7, <2>2 DEF Hears
    <3>2. Head(main) \in Events /\ Head(main) \in Elements(main)
      BY <1>1, <3>1, HeadTaken
    <3>3. PICK c \in Client : Head(main) = Granted(c) /\ Head(main).client = c
      BY <3>1, <3>2, Told DEF Events
    <3>4. IsAt(c, "posted") /\ "posted" \in Places
      BY <3>2, <3>3 DEF IsAt, Places
    <3>5. state[c] = "asked" /\ "holding" \in States
      BY <3>4, NotYetHeld DEF States
    <3>6. QED
      BY <1>6, <3>1, <3>3, <3>5
  <2>3. QED
    BY <2>1, <2>2
<1>8. ASSUME NEW c \in Client, Main(c)
      PROVE  /\ \A d \in Client : state[d] # "new" => state'[d] # "new"
             /\ \A d \in Client : calls[d] <= calls'[d]
             /\ CallsBounded'
  <2>1. {"asked", "terminating", "flushing", "releasing", "gone"} \subseteq States
    BY DEF States
  <2>2. CASE Asks(c)
    BY <1>6, <2>1, <2>2 DEF Asks
  <2>3. CASE Terminates(c)
    BY <1>6, <2>1, <2>3 DEF Terminates
  <2>4. CASE StopsAgain(c)
    BY <1>6, <2>1, <2>4 DEF StopsAgain
  <2>5. CASE Releases(c) \/ Lets(c)
    BY <1>6, <2>1, <2>5 DEF Releases, Lets, Release
  <2>6. CASE Calls(c)
    <3>1. /\ state[c] = "holding" /\ calls[c] < MaxCalls /\ UNCHANGED state
          /\ calls' = [calls EXCEPT ![c] = @ + 1]
      BY <2>6 DEF Calls, Sent
    <3>2. calls'[c] = calls[c] + 1 /\ \A d \in Client : d # c => calls'[d] = calls[d]
      BY <1>1, <3>1
    <3>3. QED
      BY <1>1, <3>1, <3>2 DEF CallsBounded
  <2>7. CASE Flushes(c)
    <3>1. /\ state[c] = "terminating" /\ state' = [state EXCEPT ![c] = "flushing"]
          /\ calls' = [calls EXCEPT ![c] = @ + 1]
      BY <2>7 DEF Flushes, Sent
    <3>2. /\ calls'[c] = calls[c] + 1 /\ state'[c] = "flushing"
          /\ \A d \in Client : d # c => calls'[d] = calls[d] /\ state'[d] = state[d]
      BY <1>1, <3>1
    <3>3. QED
      BY <1>1, <3>1, <3>2 DEF CallsBounded
  <2>8. QED
    BY <1>8, <2>2, <2>3, <2>4, <2>5, <2>6, <2>7 DEF Main, Ending
<1>9. QED
  BY <1>2, <1>3, <1>4, <1>5, <1>7, <1>8 DEF Next

\* What the tasks are does not change while sessions go on.
LEMMA AskedStays ==
  ASSUME OwnerInv, OwnerInv', NEW t, Asked(t),
         \A c \in Client : state[c] # "new" => state'[c] # "new",
         \A c \in Client : calls[c] <= calls'[c]
  PROVE  Asked(t)'
<1>1. t \in Tasks /\ t.client \in Client
  BY Told DEF Asked, Tasks
<1>2. calls[t.client] \in Nat /\ calls'[t.client] \in Nat
  BY <1>1 DEF OwnerInv, Typed
<1>3. t.kind = "send" => t.no \in Nat
  BY <1>1 DEF Tasks, Message, Get
<1>4. t.kind = "send" => t.no <= calls'[t.client]
  <2>1. calls[t.client] <= calls'[t.client]
    BY <1>1
  <2>2. QED
    BY <1>2, <1>3, <2>1 DEF Asked
<1>5. QED
  BY <1>1, <1>4 DEF Asked

\* One element more or less, and one in the place of another
LEMMA Recounted ==
  ASSUME NEW S, IsFiniteSet(S), NEW x \in S, NEW y, y \notin S
  PROVE  /\ IsFiniteSet((S \ {x}) \cup {y})
         /\ Cardinality((S \ {x}) \cup {y}) = Cardinality(S)
         /\ Cardinality(S) \in Nat /\ Cardinality(S) # 0
<1>1. /\ IsFiniteSet(S \ {x}) /\ Cardinality(S \ {x}) = Cardinality(S) - 1
      /\ Cardinality(S) \in Nat
  BY FS_RemoveElement, FS_CardinalityType
<1>2. y \notin S \ {x}
  OBVIOUS
<1>3. /\ IsFiniteSet((S \ {x}) \cup {y})
      /\ Cardinality((S \ {x}) \cup {y}) = Cardinality(S \ {x}) + 1
  BY <1>1, <1>2, FS_AddElement
<1>4. Cardinality(S) # 0
  BY FS_EmptySet
<1>5. QED
  BY <1>1, <1>3, <1>4

LEMMA PartsFinite ==
  ASSUME IsFiniteSet(running)
  PROVE  IsFiniteSet(Working) /\ IsFiniteSet(Blocking)
BY FS_Subset DEF Working, Blocking

\* A task is given to the pool: it is a new one.
LEMMA GivesKeeps ==
  ASSUME OwnerInv, OwnerInv', CallsBounded, TaskOnce, TasksKnown, Counted,
         NEW c \in Client, Gives(c),
         \A d \in Client : state[d] # "new" => state'[d] # "new",
         \A d \in Client : calls[d] <= calls'[d]
  PROVE  TaskOnce' /\ TasksKnown' /\ Counted'
<1>1. calls[c] \in Nat /\ MaxCalls \in Nat /\ queue \in Seq(Requests)
  BY WorkerAssumption DEF OwnerInv, Typed
<1>2. PICK t \in Requests : Execute(t) /\ ~Asked(t) /\ Asked(t)'
  <2>1. CASE Execute(Get(c)) /\ state[c] = "new" /\ state'[c] # "new"
    <3>1. Get(c) \in Requests /\ Get(c) \in Tasks
      BY DEF Requests, Tasks
    <3>2. ~Asked(Get(c)) /\ Asked(Get(c))'
      BY <2>1, <3>1, Told DEF Asked
    <3>3. QED
      BY <2>1, <3>1, <3>2
  <2>2. CASE /\ Execute(Message(c, calls[c] + 1)) /\ calls'[c] = calls[c] + 1
             /\ calls[c] <= MaxCalls
    <3>1. PICK n \in 1..(MaxCalls + 1) : n = calls[c] + 1
      BY <1>1, <2>2
    <3>2. Message(c, n) \in Requests /\ Message(c, n) \in Tasks
      BY <3>1 DEF Requests, Tasks
    <3>3. /\ Message(c, n).kind = "send" /\ Message(c, n).client = c /\ Message(c, n).no = n
          /\ Message(c, n).kind # "get"
      BY DEF Message
    <3>4. ~Asked(Message(c, n))
      BY <1>1, <3>1, <3>3 DEF Asked
    <3>5. Asked(Message(c, n))'
      BY <2>2, <3>1, <3>2, <3>3 DEF Asked
    <3>6. Execute(Message(c, n))
      BY <2>2, <3>1
    <3>7. QED
      BY <3>2, <3>4, <3>5, <3>6
  <2>3. QED
    BY <2>1, <2>2 DEF Gives
<1>3. /\ queue' = Append(queue, t) /\ running' = running
      /\ busy' = busy /\ blocked' = blocked
  BY <1>2 DEF Gives, Execute, places
<1>4. /\ Elements(queue') = Elements(queue) \cup {t}
      /\ \A e : Once(queue, e) /\ (e # t \/ e \notin Elements(queue)) => Once(queue', e)
  BY <1>1, <1>3, Appended
<1>5. t \notin Elements(queue) /\ \A r \in running : r.task # t
  BY <1>2 DEF TasksKnown
<1>6. TaskOnce'
  <2>1. Once(queue', t)
    <3>1. Once(queue, t)
      BY <1>5 DEF Once, Elements
    <3>2. QED
      BY <1>4, <1>5, <3>1
  <2>2. \A e \in Elements(queue') : Once(queue', e)
    BY <1>4, <1>5, <2>1 DEF TaskOnce
  <2>3. QED
    BY <1>3, <1>4, <1>5, <2>2 DEF TaskOnce
<1>7. TasksKnown'
  BY <1>2, <1>3, <1>4, AskedStays DEF TasksKnown
<1>8. Counted'
  BY <1>3 DEF Counted, Working, Blocking
<1>9. QED
  BY <1>6, <1>7, <1>8

\* A thread takes a task: no other has it.
LEMMA TakenCounts ==
  ASSUME OwnerInv, OwnerInv', TaskOnce, TasksKnown, Counted, Taken,
         \A d \in Client : state[d] # "new" => state'[d] # "new",
         \A d \in Client : calls[d] <= calls'[d]
  PROVE  TaskOnce' /\ TasksKnown' /\ Counted'
<1> DEFINE h == Head(queue)
           new == At(h, "taken")
<1>1. /\ queue # <<>> /\ queue' = Tail(queue) /\ running' = running \cup {new}
      /\ busy' = busy + 1 /\ blocked' = blocked /\ queue \in Seq(Requests)
  BY DEF Taken, TakeTask, OwnerInv, Typed
<1>2. /\ Elements(queue) = {h} \cup Elements(queue')
      /\ \A e : Once(queue, e) => Once(queue', e)
      /\ Once(queue, h) => h \notin Elements(queue')
  BY <1>1, HeadTaken
<1>3. h \in Elements(queue) /\ h \notin Elements(queue') /\ new.task = h /\ new.stage = "taken"
  BY <1>2, Told DEF TaskOnce
<1> HIDE DEF h, new
<1>4. new \notin running
  BY <1>3 DEF TaskOnce
<1>5. TaskOnce'
  BY <1>1, <1>2, <1>3 DEF TaskOnce
<1>6. TasksKnown'
  BY <1>1, <1>2, <1>3, AskedStays DEF TasksKnown
<1>7. Counted'
  <2>1. Working' = Working \cup {new} /\ Blocking' = Blocking
    BY <1>1, <1>3 DEF Working, Blocking, Works
  <2>2. new \notin Working /\ IsFiniteSet(Working)
    BY <1>4, PartsFinite DEF Working, Counted
  <2>3. Cardinality(Working \cup {new}) = Cardinality(Working) + 1
    BY <2>2, FS_AddElement
  <2>4. IsFiniteSet(running')
    BY <1>1, FS_AddElement DEF Counted
  <2>5. QED
    BY <1>1, <2>1, <2>3, <2>4 DEF Counted
<1>8. QED
  BY <1>5, <1>6, <1>7

\* A task goes on to another stage, where no task is that is the same.
LEMMA MovesKeeps ==
  ASSUME OwnerInv, OwnerInv', TaskOnce, TasksKnown, Counted,
         NEW r \in running, NEW stage, Moves(r, stage),
         \A d \in Client : state[d] # "new" => state'[d] # "new",
         \A d \in Client : calls[d] <= calls'[d]
  PROVE  TaskOnce' /\ TasksKnown' /\ Counted'
<1> DEFINE new == At(r.task, stage)
<1>1. /\ running' = (running \ {r}) \cup {new} /\ r.stage # stage /\ queue' = queue
      /\ new.task = r.task /\ new.stage = stage
  BY Told DEF Moves, Move
<1> HIDE DEF new
<1>2. new \notin running
  BY <1>1 DEF TaskOnce
<1>3. TaskOnce'
  BY <1>1 DEF TaskOnce, Elements, Once
<1>4. TasksKnown'
  BY <1>1, AskedStays DEF TasksKnown, Elements
<1>5. IsFiniteSet(running') /\ IsFiniteSet(Working) /\ IsFiniteSet(Blocking)
  BY <1>1, <1>2, Recounted, PartsFinite DEF Counted
<1>6. /\ Cardinality(Working) \in Nat /\ Cardinality(Blocking) \in Nat
      /\ new \notin Working /\ new \notin Blocking
  BY <1>2, <1>5, FS_CardinalityType DEF Working, Blocking
<1>7. Counted'
  <2>1. CASE Works(r.stage) /\ Works(stage)
    <3>1. r \in Working /\ Working' = (Working \ {r}) \cup {new} /\ Blocking' = Blocking
      BY <1>1, <2>1 DEF Working, Blocking
    <3>2. Cardinality((Working \ {r}) \cup {new}) = Cardinality(Working)
      BY <1>5, <1>6, <3>1, Recounted
    <3>3. QED
      BY <1>5, <2>1, <3>1, <3>2 DEF Counted, Moves
  <2>2. CASE ~Works(r.stage) /\ ~Works(stage)
    <3>1. r \in Blocking /\ Blocking' = (Blocking \ {r}) \cup {new} /\ Working' = Working
      BY <1>1, <2>2 DEF Working, Blocking
    <3>2. Cardinality((Blocking \ {r}) \cup {new}) = Cardinality(Blocking)
      BY <1>5, <1>6, <3>1, Recounted
    <3>3. QED
      BY <1>5, <2>2, <3>1, <3>2 DEF Counted, Moves
  <2>3. CASE Works(r.stage) /\ ~Works(stage)
    <3>1. r \in Working /\ Working' = Working \ {r} /\ Blocking' = Blocking \cup {new}
      BY <1>1, <2>3 DEF Working, Blocking
    <3>2. Cardinality(Working \ {r}) = Cardinality(Working) - 1
      BY <1>5, <3>1, FS_RemoveElement
    <3>3. Cardinality(Blocking \cup {new}) = Cardinality(Blocking) + 1
      BY <1>5, <1>6, FS_AddElement
    <3>4. QED
      BY <1>5, <2>3, <3>1, <3>2, <3>3 DEF Counted, Moves
  <2>4. CASE ~Works(r.stage) /\ Works(stage)
    <3>1. r \in Blocking /\ Blocking' = Blocking \ {r} /\ Working' = Working \cup {new}
      BY <1>1, <2>4 DEF Working, Blocking
    <3>2. Cardinality(Blocking \ {r}) = Cardinality(Blocking) - 1
      BY <1>5, <3>1, FS_RemoveElement
    <3>3. Cardinality(Working \cup {new}) = Cardinality(Working) + 1
      BY <1>5, <1>6, FS_AddElement
    <3>4. QED
      BY <1>5, <2>4, <3>1, <3>2, <3>3 DEF Counted, Moves
  <2>5. QED
    BY <2>1, <2>2, <2>3, <2>4
<1>8. QED
  BY <1>3, <1>4, <1>7

\* A task returns.
LEMMA EndsKeeps ==
  ASSUME OwnerInv, OwnerInv', TaskOnce, TasksKnown, Counted, NEW r \in running, Ends(r),
         \A d \in Client : state[d] # "new" => state'[d] # "new",
         \A d \in Client : calls[d] <= calls'[d]
  PROVE  TaskOnce' /\ TasksKnown' /\ Counted'
<1>1. /\ running' = running \ {r} /\ r.stage = "ended" /\ queue' = queue
      /\ busy' = busy - 1 /\ blocked' = blocked
  BY DEF Ends, Finish
<1>2. TaskOnce'
  BY <1>1 DEF TaskOnce, Elements, Once
<1>3. TasksKnown'
  BY <1>1, AskedStays DEF TasksKnown, Elements
<1>4. Counted'
  <2>1. r \in Working /\ Working' = Working \ {r} /\ Blocking' = Blocking
    BY <1>1 DEF Working, Blocking, Works
  <2>2. IsFiniteSet(running') /\ Cardinality(Working \ {r}) = Cardinality(Working) - 1
    BY <1>1, <2>1, PartsFinite, FS_RemoveElement DEF Counted
  <2>3. QED
    BY <1>1, <2>1, <2>2 DEF Counted
<1>5. QED
  BY <1>2, <1>3, <1>4

LEMMA TaskStep == OwnerInv /\ OwnerInv' /\ TaskInv /\ [Next]_vars => TaskInv'
<1> SUFFICES ASSUME OwnerInv, OwnerInv', TaskInv, [Next]_vars PROVE TaskInv'
  OBVIOUS
<1>1. CallsBounded /\ TaskOnce /\ TasksKnown /\ Counted
  BY DEF TaskInv
<1>2. /\ \A d \in Client : state[d] # "new" => state'[d] # "new"
      /\ \A d \in Client : calls[d] <= calls'[d]
      /\ CallsBounded'
  BY <1>1, SessionsGoOn
<1>3. TaskOnce' /\ TasksKnown' /\ Counted'
  <2>1. CASE UNCHANGED <<queue, running, busy, blocked>>
    <3>1. TasksKnown'
      BY <1>1, <1>2, <2>1, AskedStays DEF TasksKnown, Elements
    <3>2. TaskOnce' /\ Counted'
      BY <1>1, <2>1 DEF TaskOnce, Counted, Working, Blocking, Elements, Once
    <3>3. QED
      BY <3>1, <3>2
  <2>2. ASSUME NEW c \in Client, Gives(c) PROVE TaskOnce' /\ TasksKnown' /\ Counted'
    BY <1>1, <1>2, <2>2, GivesKeeps
  <2>3. CASE Taken
    BY <1>1, <1>2, <2>3, TakenCounts
  <2>4. ASSUME NEW r \in running, NEW stage, Moves(r, stage)
        PROVE  TaskOnce' /\ TasksKnown' /\ Counted'
    BY <1>1, <1>2, <2>4, MovesKeeps
  <2>5. ASSUME NEW r \in running, Ends(r) PROVE TaskOnce' /\ TasksKnown' /\ Counted'
    BY <1>1, <1>2, <2>5, EndsKeeps
  <2>6. QED
    BY <1>1, <2>1, <2>2, <2>3, <2>4, <2>5, TaskSteps
<1>4. waits' \in Client \cup {None} /\ hasty' \subseteq Client
  <2>1. waits \in Client \cup {None} /\ hasty \subseteq Client
    BY DEF TaskInv
  <2>2. CASE Taken \/ Parks \/ Hears \/ UNCHANGED vars
    BY <2>1, <2>2 DEF Taken, Parks, Hears, vars
  <2>3. ASSUME NEW r \in running, Thread(r) PROVE UNCHANGED <<waits, hasty>>
    BY <2>3 DEF Thread, Blocks, Gets, Grants, Unblocks, Sends, Ends
  <2>4. ASSUME NEW w \in Worker, Loop(w) PROVE waits' \in {waits, None} /\ hasty' = hasty
    BY <2>4 DEF Loop, Resets, Receives, Answers, Aborts
  <2>5. ASSUME NEW c \in Client, Main(c)
        PROVE  waits' \in {waits, c} /\ hasty' \subseteq hasty \cup {c}
    <3>1. CASE Releases(c) \/ Lets(c)
      BY <3>1 DEF Releases, Lets, Release
    <3>2. CASE Asks(c) \/ Calls(c) \/ Terminates(c) \/ Flushes(c) \/ StopsAgain(c)
      BY <3>2 DEF Asks, Calls, Terminates, Flushes, StopsAgain, Stop
    <3>3. QED
      BY <2>5, <3>1, <3>2 DEF Main, Ending
  <2>6. QED
    BY <2>1, <2>2, <2>3, <2>4, <2>5 DEF Next
<1>5. QED
  BY <1>2, <1>3, <1>4 DEF TaskInv

LEMMA TaskInit == Init => TaskInv
<1> SUFFICES ASSUME Init PROVE TaskInv
  OBVIOUS
<1>1. Elements(<<>>) = {}
  BY DEF Elements
<1>2. /\ queue = <<>> /\ running = {} /\ busy = 0 /\ blocked = 0
      /\ calls = [c \in Client |-> 0] /\ state = [c \in Client |-> "new"]
      /\ waits = None /\ hasty = {}
  BY DEF Init, PoolInit
<1>3. CallsBounded
  BY <1>2, WorkerAssumption DEF CallsBounded
<1>4. TaskOnce /\ TasksKnown
  BY <1>1, <1>2 DEF TaskOnce, TasksKnown
<1>5. Counted
  BY <1>2, FS_EmptySet DEF Counted, Working, Blocking
<1>6. QED
  BY <1>2, <1>3, <1>4, <1>5 DEF TaskInv

\* createThread, setBlocking, GetWorker, _send: the types, and that each thread which is
\* busy or in a Blocker has a task of its own, and no task two of them.
THEOREM WorkersTypeCorrect == Spec => []TypeOK
<1> DEFINE Inv == PoolInv /\ OwnerInv /\ TaskInv
<1>1. Init => Inv
  BY PoolInitInv, OwnerInit, TaskInit DEF Init
<1>2. Inv /\ [Next]_vars => Inv'
  BY PoolSteps, PoolStepInv, OwnerStep, TaskStep
<1>3. Inv => TypeOK
  <2> SUFFICES ASSUME PoolInv, OwnerInv, TaskInv PROVE TypeOK
    OBVIOUS
  <2>1. CountsAgree
    BY DEF PoolInv
  <2>2. /\ used \subseteq Worker /\ workers \in Seq(Worker)
        /\ handle \in [Client -> Worker \cup {None}] /\ queue \in Seq(Requests)
    BY DEF OwnerInv, Typed
  <2>3. queue \in Seq(Tasks)
    <3>1. \A i \in 1..Len(queue) : queue[i] \in Tasks
      BY <2>2 DEF TaskInv, TasksKnown, Asked, Elements
    <3>2. QED
      BY <2>2, <3>1
  <2>4. \A r \in running : r.task \in Tasks
    BY DEF TaskInv, TasksKnown, Asked
  <2>5. /\ busy = Cardinality({r \in running : r.stage \in {"taken", "ended"}})
        /\ blocked = Cardinality({r \in running : r.stage \notin {"taken", "ended"}})
    BY DEF TaskInv, Counted, Working, Blocking, Works
  <2>6. waits \in Client \cup {None} /\ hasty \subseteq Client
    BY DEF TaskInv
  <2>7. QED
    BY <2>1, <2>2, <2>3, <2>4, <2>5, <2>6 DEF TypeOK
<1> HIDE DEF Inv
<1> QED
  BY <1>1, <1>2, <1>3, PTL DEF Spec
=============================================================================
