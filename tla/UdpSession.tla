----------------------------- MODULE UdpSession -----------------------------
(***************************************************************************)
(* One direction of the UDP transport of network/UDPAdapter.cpp: the       *)
(* Session with which a node sends payloads to another one, and the        *)
(* SessionReader, and its candidate, with which that one receives them.    *)
(* The other direction has a Session and a SessionReader of its own.       *)
(*                                                                         *)
(* A packet stands for its packetId too: packets that differ have          *)
(* different ids, except for a DATA packet, which keeps its id when it is  *)
(* encrypted again (Id).  Nonces and keys are numbers that are never used  *)
(* twice; a signature or a ciphertext is what it was made from.            *)
(*                                                                         *)
(* All handlers run under socketMutex_; only the task of send (job) holds  *)
(* it for parts of its way.  Packets are lost, delayed and overtake each   *)
(* other; a retransmission may repeat one that has arrived.                *)
(***************************************************************************)
EXTENDS Integers, FiniteSets, Sequences

CONSTANTS Payload,        \* the payloads given to send
          MaxRetransmit,  \* MAX_RETRANSMIT_QUEUE_SIZE
          MaxQueue,       \* MAX_QUEUE_SIZE
          Scenario        \* bound: how often each event of Event may happen

\* A payload is given to send; a packet is lost, an item comes to
\* RETRANSMIT_MAX_ATTEMPTS, a timer outruns the packets under way, the receiving node
\* reboots.
Event == {"call", "loss", "last", "slow", "reboot"}

ASSUME UdpAssumption ==
  /\ MaxRetransmit \in Nat /\ MaxQueue \in Nat \ {0}
  /\ Scenario \subseteq [Event -> Nat]

\* No nonce, no key, an emptied payload (Packet::nullify)
None == 0

Hello(i) == [type |-> "HELLO", no |-> i]
Welcome(i, n) == [type |-> "WELCOME", no |-> i, nonce |-> n]
KeyReq1(a, n) == [type |-> "KEY_REQ_PART1", local |-> a, remote |-> n]
KeyReq2(a) == [type |-> "KEY_REQ_PART2", local |-> a]
Session1(k, a) == [type |-> "SESSION_PART1", key |-> k, nonce |-> a]
Session2(k) == [type |-> "SESSION_PART2", key |-> k]
SessionAck == [type |-> "SESSION_ACK"]
Data(p, k) == [type |-> "DATA", payload |-> p, key |-> k]
Ack(p, k) == [type |-> "ACK", payload |-> p, key |-> k]
Nack(p) == [type |-> "NACK", payload |-> p]

Id(m) == IF m.type = "DATA" THEN Data(m.payload, None) ELSE m

VARIABLES session,    \* the Session of the sending node
          job,        \* the task the thread of senderPool_ is at
          pool,       \* the tasks that wait in senderPool_
          expired,    \* handshakeExpiresAt has passed
          rested,     \* lastHandshakeRestartTime is HANDSHAKE_TIMEOUT_MILLIS ago
          reader,     \* the SessionReader of the receiving node
          candidate,  \* its SessionReader candidate
          net,        \* the packets under way
          made,       \* the HELLOs and nonces the sender has made
          minted,     \* the WELCOMEs, nonces and keys the receiver has made
          called,     \* the payloads given to send
          handed,     \* handed[p]: the keys of the readers that handed p over
          gone,       \* payloads given up, or dropped from a full queue
          left        \* left[e]: how often the event e may still happen

clocks == <<expired, rested>>
sending == <<job, pool>>
vars == <<session, job, pool, expired, rested, reader, candidate, net, made,
          minted, called, handed, gone, left>>

Idle == [stage |-> "idle", payload |-> None, key |-> None]

NewSession == [state |-> "HANDSHAKE", step |-> "INIT", localNonce |-> None,
               remoteNonce |-> None, key |-> None, parts |-> {}, seen |-> {},
               retransmitMap |-> {}, outputQueue |-> <<>>]

\* There is no reader, or the candidate that getOrCreate would create.
NewReader == [localNonce |-> None, remoteNonce |-> None, key |-> None,
              parts |-> {}, seen |-> {}, retransmitMap |-> {}]

\* The first send has created the session.
Init ==
  /\ session = NewSession /\ job = Idle /\ pool = <<>>
  /\ expired = TRUE /\ rested = FALSE
  /\ reader = NewReader /\ candidate = NewReader
  /\ net = {} /\ made = 0 /\ minted = 0
  /\ called = {} /\ handed = [p \in Payload |-> <<>>] /\ gone = {}
  /\ left \in Scenario

-----------------------------------------------------------------------------
(***************************************************************************)
(* Retransmitter and DupleProtection                                       *)
(***************************************************************************)
\* removeHandshakePacketsFromRetransmitMap
DataPackets(packets) == {m \in packets : m.type = "DATA"}

\* Mutant: a packet is looked for with its key, not by its id
SeenAsIs(r, m) == m \in r.seen

\* protectFromDuples: buffer0 and buffer1 are one set here, as clearOldestBuffer
\* forgets an id only when no copy of the packet is left.
Seen(r, m) == Id(m) \in r.seen

See(r, m) == [r EXCEPT !.seen = @ \cup {Id(m)}]

\* The part m of a message in two parts replaces the one that was kept.
Keep(parts, m) == {q \in parts : q.type # m.type} \cup {m}

\* Both parts are there, and the second is the signature of the first.
Both(parts) == \E m, n \in parts : m.type # n.type
PartOne(parts) == CHOOSE m \in parts : m.type \in {"KEY_REQ_PART1", "SESSION_PART1"}
PartTwo(parts) == CHOOSE m \in parts : m.type \in {"KEY_REQ_PART2", "SESSION_PART2"}

\* Mutant: nothing makes room in the full queue
Unbounded(queue, p) == Append(queue, p)

\* addPayloadToOutputQueue, and the payloads it drops
Enqueue(queue, p) == Append(IF Len(queue) >= MaxQueue THEN Tail(queue) ELSE queue, p)

Dropped(queue) == IF Len(queue) >= MaxQueue THEN {Head(queue)} ELSE {}

\* The packet that is sent for the due item m: a DATA packet that startHandshake
\* has emptied is encrypted with the key of the session.
Resealed(s, m) == IF m.type = "DATA" /\ m.key = None THEN Data(m.payload, s.key) ELSE m

\* pulseRetransmit of a session for its due items: DATA packets are sent while it
\* is exchanging, the others while it is not.  The items in last have been sent
\* RETRANSMIT_MAX_ATTEMPTS times; a DATA item is kept during a handshake.
Due(s) == {m \in s.retransmitMap : s.state = "HANDSHAKE" => m.type # "DATA"}
Pulsed(s, due, last) ==
  [s EXCEPT !.retransmitMap = (@ \ due) \cup {Resealed(s, m) : m \in due \ last}]
Pulse(s, due) ==
  {Resealed(s, m) : m \in {d \in due : (d.type = "DATA") = (s.state = "EXCHANGING")}}

\* The payloads whose DATA items are given up
Lost(last) == {m.payload : m \in DataPackets(last)}

\* The events in es happen once each, as the bounds allow.
Happen(es) ==
  /\ \A e \in es : left[e] > 0
  /\ left' = [e \in Event |-> IF e \in es THEN left[e] - 1 ELSE left[e]]

\* Which of the due items is at its last attempt, if one is
LastAttempts(due) == {{}} \cup {{m} : m \in due}
GiveUp(last) == IF last = {} THEN {} ELSE {"last"}

\* A timer outruns packets that are under way.
Outrun == IF net = {} THEN {} ELSE {"slow"}

-----------------------------------------------------------------------------
(***************************************************************************)
(* send: its task reads the state, then counts the packet in or queues the *)
(* payload, encrypts it without the mutex, and posts the packet.           *)
(***************************************************************************)
Call(p) ==
  /\ p \notin called
  /\ called' = called \cup {p} /\ pool' = Append(pool, p) /\ Happen({"call"})
  /\ UNCHANGED <<session, job, clocks, reader, candidate, net, made, minted, handed,
                 gone>>

Take ==
  /\ job.stage = "idle" /\ pool # <<>>
  /\ job' = [stage |-> session.state, payload |-> Head(pool), key |-> None]
  /\ pool' = Tail(pool)
  /\ UNCHANGED <<session, clocks, reader, candidate, net, made, minted, called,
                 handed, gone, left>>

Full == Cardinality(session.retransmitMap) > MaxRetransmit

Queue ==
  /\ job.stage = "HANDSHAKE" \/ (job.stage = "EXCHANGING" /\ Full)
  /\ session' = [session EXCEPT !.outputQueue = Enqueue(@, job.payload)]
  /\ gone' = gone \cup Dropped(session.outputQueue)
  /\ job' = Idle
  /\ UNCHANGED <<pool, clocks, reader, candidate, net, made, minted, called, handed,
                 left>>

CountIn ==
  /\ job.stage = "EXCHANGING" /\ ~Full
  /\ job' = [job EXCEPT !.stage = "seal"]
  /\ UNCHANGED <<session, pool, clocks, reader, candidate, net, made, minted, called,
                 handed, gone, left>>

Seal ==
  /\ job.stage = "seal"
  /\ job' = [job EXCEPT !.stage = "post", !.key = session.key]
  /\ UNCHANGED <<session, pool, clocks, reader, candidate, net, made, minted, called,
                 handed, gone, left>>

Post ==
  /\ job.stage = "post"
  /\ LET m == Data(job.payload, job.key)
     IN  /\ net' = net \cup {m}
         /\ session' = [session EXCEPT !.retransmitMap = @ \cup {m}]
  /\ job' = Idle
  /\ UNCHANGED <<pool, clocks, reader, candidate, made, minted, called, handed, gone,
                 left>>

-----------------------------------------------------------------------------
(***************************************************************************)
(* The handshake, seen by the sending node                                 *)
(***************************************************************************)
\* restartHandshakeIfNeeded and sendHello
Greeted(s) == [s EXCEPT !.step = "WAIT_FOR_WELCOME",
                        !.retransmitMap = @ \cup {Hello(made + 1)}]

\* Mutant: the restart forgets what has not been acknowledged
Emptied(s) == [s EXCEPT !.state = "HANDSHAKE", !.step = "INIT", !.retransmitMap = {}]

\* Session::startHandshake
Restarted(s) ==
  [s EXCEPT !.state = "HANDSHAKE", !.step = "INIT",
            !.retransmitMap = {Data(m.payload, None) : m \in DataPackets(@)}]

\* onReceiveWelcome and sendKeyReq
OnReceiveWelcome(m) ==
  /\ m.type = "WELCOME" /\ ~Seen(session, m)
  /\ LET s == See(session, m)
         a == made + 1
     IN  IF s.state = "HANDSHAKE" /\ s.step = "WAIT_FOR_WELCOME"
         THEN LET requests == {KeyReq1(a, m.nonce), KeyReq2(a)}
              IN  /\ session' = [s EXCEPT !.step = "WAIT_FOR_SESSION",
                                          !.localNonce = a, !.remoteNonce = m.nonce,
                                          !.parts = {},
                                          !.retransmitMap = DataPackets(@) \cup requests]
                  /\ net' = (net \ {m}) \cup requests /\ made' = a
         ELSE session' = s /\ net' = net \ {m} /\ made' = made
  /\ UNCHANGED <<sending, clocks, reader, candidate, minted, called, handed, gone,
                 left>>

\* Mutant: the key of an earlier handshake is taken
AnyKeyArrives(s) == Both(s.parts) /\ PartTwo(s.parts).key = PartOne(s.parts).key

\* onReceiveSession for the parts kept: the key is taken when they belong together
\* and answer the last KEY_REQ of this session.
KeyArrives(s) ==
  /\ Both(s.parts)
  /\ PartTwo(s.parts).key = PartOne(s.parts).key
  /\ PartOne(s.parts).nonce = s.localNonce

\* onReceiveSessionPart1 and onReceiveSessionPart2
OnReceiveSessionPart(m) ==
  /\ m.type \in {"SESSION_PART1", "SESSION_PART2"} /\ ~Seen(session, m)
  /\ LET seen == [See(session, m) EXCEPT !.retransmitMap = DataPackets(@)]
         kept == [seen EXCEPT !.parts = Keep(@, m)]
         keyed == [kept EXCEPT !.key = PartOne(kept.parts).key, !.state = "EXCHANGING"]
         waits == seen.state = "HANDSHAKE" /\ seen.step = "WAIT_FOR_SESSION"
     IN  \/ /\ waits /\ KeyArrives(kept)
            /\ \E due \in SUBSET Due(keyed) : \E last \in LastAttempts(due) :
                 /\ session' = Pulsed(keyed, due, last)
                 /\ net' = (net \ {m}) \cup {SessionAck} \cup Pulse(keyed, due)
                 /\ gone' = gone \cup Lost(last) /\ Happen(GiveUp(last))
         \/ /\ ~(waits /\ KeyArrives(kept))
            /\ session' = IF waits THEN kept ELSE seen
            /\ net' = net \ {m}
            /\ UNCHANGED <<gone, left>>
  /\ UNCHANGED <<sending, clocks, reader, candidate, made, minted, called, handed>>

OnReceiveAck(m) ==
  /\ m.type = "ACK"
  /\ net' = net \ {m}
  /\ session' = IF session.state = "EXCHANGING" /\ m.key = session.key
                THEN [session EXCEPT !.retransmitMap =
                        {q \in @ : Id(q) # Data(m.payload, None)}]
                ELSE session
  /\ UNCHANGED <<sending, clocks, reader, candidate, made, minted, called, handed,
                 gone, left>>

\* Mutant: only a packet that startHandshake has emptied counts
EmptiedOutstanding(p) == Data(p, None) \in session.retransmitMap

\* The packet with this id has not been acknowledged.
Outstanding(p) == \E q \in session.retransmitMap : Id(q) = Data(p, None)

\* onReceiveNack: within HANDSHAKE_TIMEOUT_MILLIS of the last restart, startHandshake
\* does nothing.
OnReceiveNack(m) ==
  /\ m.type = "NACK"
  /\ IF session.state = "EXCHANGING" /\ rested /\ Outstanding(m.payload)
     THEN /\ session' = Greeted(Restarted(session))
          /\ net' = (net \ {m}) \cup {Hello(made + 1)} /\ made' = made + 1
          /\ expired' = FALSE /\ rested' = FALSE
     ELSE net' = net \ {m} /\ UNCHANGED <<session, made, clocks>>
  /\ UNCHANGED <<sending, reader, candidate, minted, called, handed, gone, left>>

-----------------------------------------------------------------------------
(***************************************************************************)
(* The receiving node                                                      *)
(***************************************************************************)
\* onReceiveHello and sendWelcome: the nonce of a candidate is kept until it is
\* HANDSHAKE_TIMEOUT_MILLIS old.
OnReceiveHello(m) ==
  /\ m.type = "HELLO" /\ ~Seen(candidate, m)
  /\ \E nonce \in {minted + 1, candidate.localNonce} \ {None} :
       LET welcome == Welcome(minted + 1, nonce)
       IN  /\ candidate' = [See(candidate, m) EXCEPT !.localNonce = nonce, !.parts = {},
                                                     !.retransmitMap = {welcome}]
           /\ net' = (net \ {m}) \cup {welcome}
  /\ minted' = minted + 1
  /\ UNCHANGED <<session, sending, clocks, reader, made, called, handed, gone, left>>

\* onReceiveKeyReq for the parts kept: they belong together and answer the WELCOME
\* of this candidate.
Requested(c) ==
  /\ Both(c.parts)
  /\ PartOne(c.parts).remote = c.localNonce
  /\ PartTwo(c.parts).local = PartOne(c.parts).local

\* onReceiveKeyReqPart1 and onReceiveKeyReqPart2, acceptSessionReaderCandidate and
\* sendSessionKey
OnReceiveKeyReqPart(m) ==
  /\ m.type \in {"KEY_REQ_PART1", "KEY_REQ_PART2"} /\ ~Seen(candidate, m)
  /\ LET c == [See(candidate, m) EXCEPT !.retransmitMap = {}, !.parts = Keep(@, m)]
         k == minted + 1
     IN  IF Requested(c)
         THEN LET a == PartOne(c.parts).local
                  answer == {Session1(k, a), Session2(k)}
              IN  /\ reader' = [c EXCEPT !.remoteNonce = a, !.key = k,
                                         !.retransmitMap = answer]
                  /\ candidate' = NewReader
                  /\ net' = (net \ {m}) \cup answer /\ minted' = k
         ELSE candidate' = c /\ net' = net \ {m} /\ UNCHANGED <<reader, minted>>
  /\ UNCHANGED <<session, sending, clocks, made, called, handed, gone, left>>

\* onReceiveSessionAck: any SESSION_ACK will do.
OnReceiveSessionAck(m) ==
  /\ m.type = "SESSION_ACK"
  /\ reader' = [reader EXCEPT !.retransmitMap = {}]
  /\ net' = net \ {m}
  /\ UNCHANGED <<session, sending, clocks, candidate, made, minted, called, handed,
                 gone, left>>

\* onReceiveData: without a reader, or with another key, the packet is refused.
OnReceiveData(m) ==
  /\ m.type = "DATA"
  /\ IF reader.key # None /\ reader.key = m.key
     THEN /\ net' = (net \ {m}) \cup {Ack(m.payload, reader.key)}
          /\ reader' = See(reader, m)
          /\ handed' = IF Seen(reader, m) THEN handed
                       ELSE [handed EXCEPT ![m.payload] = Append(@, reader.key)]
     ELSE net' = (net \ {m}) \cup {Nack(m.payload)} /\ UNCHANGED <<reader, handed>>
  /\ UNCHANGED <<session, sending, clocks, candidate, made, minted, called, gone, left>>

\* A packet whose id was seen changes nothing.
OnReceiveDuplicate(m) ==
  /\ \/ m.type \in {"WELCOME", "SESSION_PART1", "SESSION_PART2"} /\ Seen(session, m)
     \/ m.type \in {"HELLO", "KEY_REQ_PART1", "KEY_REQ_PART2"} /\ Seen(candidate, m)
  /\ net' = net \ {m}
  /\ UNCHANGED <<session, sending, clocks, reader, candidate, made, minted, called,
                 handed, gone, left>>

OnReceive(m) ==
  \/ OnReceiveHello(m) \/ OnReceiveWelcome(m) \/ OnReceiveKeyReqPart(m)
  \/ OnReceiveSessionPart(m) \/ OnReceiveSessionAck(m)
  \/ OnReceiveData(m) \/ OnReceiveAck(m) \/ OnReceiveNack(m)
  \/ OnReceiveDuplicate(m)

-----------------------------------------------------------------------------
(***************************************************************************)
(* The timers, every RETRANSMIT_TIME, and what they wait for               *)
(***************************************************************************)
\* sendAllFromOutputQueue gives up to maxOutputs + 2 payloads back to send.
Outputs(s) ==
  LET maxOutputs == MaxRetransmit - Cardinality(s.retransmitMap)
      n == IF maxOutputs < 0 THEN 1 ELSE maxOutputs + 2
  IN  IF s.state = "HANDSHAKE" THEN 0
      ELSE IF n < Len(s.outputQueue) THEN n ELSE Len(s.outputQueue)

\* The pulse of the sender's timer: restartHandshakeIfNeeded, pulseRetransmit and
\* sendAllFromOutputQueue.  Either no item is due, or all of them are: their packets
\* may still arrive in any order.
Pulsing(due) ==
  \E last \in LastAttempts(due) :
    LET restart == session.state = "HANDSHAKE" /\ expired
        greeted == IF restart THEN Greeted(session) ELSE session
        pulsed == Pulsed(greeted, due, last)
        n == Outputs(pulsed)
    IN  /\ session' = [pulsed EXCEPT !.outputQueue = SubSeq(@, n + 1, Len(@))]
        /\ pool' = pool \o SubSeq(pulsed.outputQueue, 1, n)
        /\ net' = net \cup Pulse(greeted, due)
                      \cup (IF restart THEN {Hello(made + 1)} ELSE {})
        /\ made' = IF restart THEN made + 1 ELSE made
        /\ expired' = (expired /\ ~restart)
        /\ gone' = gone \cup Lost(last)
        /\ Happen(GiveUp(last) \cup (IF due = {} THEN {} ELSE Outrun))
        /\ UNCHANGED <<job, rested, reader, candidate, minted, called, handed>>

Tick == Pulsing({})
Retransmit == Due(session) # {} /\ Pulsing(Due(session))

\* The pulse of the receiver's timer: the reader and the candidate send their
\* handshake packets again.
ReaderRetransmit ==
  LET due == reader.retransmitMap \cup candidate.retransmitMap
  IN  /\ due # {}
      /\ \E last \in LastAttempts(due) :
           /\ reader' = [reader EXCEPT !.retransmitMap = @ \ last]
           /\ candidate' = [candidate EXCEPT !.retransmitMap = @ \ last]
           /\ Happen(GiveUp(last) \cup Outrun)
      /\ net' = net \cup due
      /\ UNCHANGED <<session, sending, clocks, made, minted, called, handed, gone>>

\* No packet of the handshake is on its way or has still to reach the other node.
Quiet ==
  /\ net = {}
  /\ \A m \in session.retransmitMap : m.type # "DATA" => Seen(candidate, m)
  /\ \A m \in reader.retransmitMap \cup candidate.retransmitMap : Seen(session, m)

\* HANDSHAKE_TIMEOUT_MILLIS go by.
Wait ==
  /\ IF session.state = "HANDSHAKE" THEN ~expired ELSE ~rested
  /\ expired' = TRUE /\ rested' = TRUE
  /\ Happen(IF Quiet THEN {} ELSE {"slow"})
  /\ UNCHANGED <<session, sending, reader, candidate, net, made, minted, called, handed,
                 gone>>

(***************************************************************************)
(* The environment: a packet is lost, the receiving node reboots.          *)
(***************************************************************************)
Lose(m) ==
  /\ net' = net \ {m} /\ Happen({"loss"})
  /\ UNCHANGED <<session, sending, clocks, reader, candidate, made, minted, called,
                 handed, gone>>

Reboot ==
  /\ reader' = NewReader /\ candidate' = NewReader /\ Happen({"reboot"})
  /\ UNCHANGED <<session, sending, clocks, net, made, minted, called, handed, gone>>

Send == Take \/ Queue \/ CountIn \/ Seal \/ Post

Next ==
  \/ \E p \in Payload : Call(p)
  \/ Send \/ Tick \/ Retransmit \/ ReaderRetransmit \/ Wait \/ Reboot
  \/ \E m \in net : OnReceive(m) \/ Lose(m)

Spec == Init /\ [][Next]_vars

(***************************************************************************)
(* Fairness: the threads and the timers go on, and packets arrive.  What   *)
(* is not received is sent again, and a timeout passes, in the end, though *)
(* both wait for the packets under way: hence SF.                          *)
(***************************************************************************)
Fairness ==
  /\ WF_vars(Send) /\ WF_vars(Tick) /\ WF_vars(\E m \in net : OnReceive(m))
  /\ SF_vars(Retransmit) /\ SF_vars(ReaderRetransmit) /\ SF_vars(Wait)

FairSpec == Spec /\ Fairness

-----------------------------------------------------------------------------
TypeOK ==
  /\ session.state \in {"HANDSHAKE", "EXCHANGING"}
  /\ session.step \in {"INIT", "WAIT_FOR_WELCOME", "WAIT_FOR_SESSION"}
  /\ session.localNonce \in 0..made /\ session.remoteNonce \in 0..minted
  /\ session.key \in 0..minted
  /\ session.outputQueue \in Seq(Payload) /\ pool \in Seq(Payload)
  /\ Len(session.outputQueue) <= MaxQueue
  /\ Cardinality(DataPackets(session.retransmitMap)) <= MaxRetransmit + 1
  /\ job.stage \in {"idle", "HANDSHAKE", "EXCHANGING", "seal", "post"}
  /\ job.payload \in Payload \/ job = Idle
  /\ \A r \in {reader, candidate} :
       /\ r.key \in 0..minted /\ r.localNonce \in 0..minted /\ r.remoteNonce \in 0..made
       /\ DataPackets(r.retransmitMap) = {}
  /\ called \subseteq Payload /\ gone \subseteq called
  /\ {expired, rested} \subseteq BOOLEAN

\* A node that is exchanging has the key of the reader, unless that is gone with a
\* reboot: two handshakes that overlap never leave it with an older one.
KeysAgree == session.state = "EXCHANGING" => reader.key \in {None, session.key}

InHand ==
  {pool[i] : i \in DOMAIN pool} \cup (IF job.stage = "idle" THEN {} ELSE {job.payload})
  \cup {session.outputQueue[i] : i \in DOMAIN session.outputQueue}
  \cup {m.payload : m \in DataPackets(session.retransmitMap)}

\* A payload given to send is kept until it has been handed over, whatever happens to
\* the session: only a full queue or the last attempt drop it.
NothingVanishes == \A p \in called : p \in InHand \cup gone \/ handed[p] # <<>>

\* No reader hands a payload over twice.
HandedOnce ==
  \A p \in Payload : \A i, j \in DOMAIN handed[p] : handed[p][i] = handed[p][j] => i = j

\* Once the faults end, the sender comes to have nothing left to send, nor to send
\* again.
Drains == <>[](InHand = {} /\ session.retransmitMap = {})
=============================================================================
