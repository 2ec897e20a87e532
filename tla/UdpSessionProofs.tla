-------------------------- MODULE UdpSessionProofs --------------------------
(***************************************************************************)
(* What UdpSession promises whatever is lost, repeated or reordered, and   *)
(* however often the receiver reboots: no reader hands a payload over      *)
(* twice, the two ends have one key, a payload is kept until it is handed  *)
(* over, and the sender's queues keep to their limits.  For any payloads,  *)
(* any lengths of the queues and any bounds on the faults.                 *)
(***************************************************************************)
EXTENDS UdpSession, FiniteSetTheorems, SequenceTheorems, TLAPS

\* The records have the fields they were made with.
Shaped ==
  /\ DOMAIN session = DOMAIN NewSession
  /\ DOMAIN reader = DOMAIN NewReader /\ DOMAIN candidate = DOMAIN NewReader

-----------------------------------------------------------------------------
(***************************************************************************)
(* Payloads are handed over once                                           *)
(***************************************************************************)
\* What has been handed over under the key of the reader has been seen by it, and its
\* key is a new one.
HandedInv ==
  /\ minted \in Nat /\ reader.key \in 0..minted
  /\ DOMAIN reader = DOMAIN NewReader /\ DOMAIN candidate = DOMAIN NewReader
  /\ handed \in [Payload -> Seq(Nat)]
  /\ \A p \in Payload : \A i \in DOMAIN handed[p] :
       /\ handed[p][i] \in 1..minted
       /\ handed[p][i] = reader.key => Data(p, None) \in reader.seen
  /\ HandedOnce

LEMMA HandedInit == Init => HandedInv
BY DEF Init, HandedInv, NewReader, HandedOnce, None

\* Another reader, or none, with what it has seen: only a new key or an unchanged one.
LEMMA HandedKept ==
  ASSUME HandedInv, minted' \in Nat, minted' >= minted, handed' = handed,
         DOMAIN reader' = DOMAIN NewReader, DOMAIN candidate' = DOMAIN NewReader,
         \/ reader'.key = None
         \/ reader'.key = reader.key /\ reader'.seen = reader.seen
         \/ reader'.key = minted + 1 /\ minted' = minted + 1
  PROVE  HandedInv'
BY DEF HandedInv, HandedOnce, None

LEMMA HandedStep == HandedInv /\ [Next]_vars => HandedInv'
<1> SUFFICES ASSUME HandedInv, [Next]_vars PROVE HandedInv'
  OBVIOUS
<1> USE DEF HandedInv
<1>1. CASE UNCHANGED <<reader, candidate, minted, handed>>
  BY <1>1, HandedKept
<1>2. ASSUME NEW m \in net, OnReceiveHello(m) PROVE HandedInv'
  <2>1. DOMAIN candidate' = DOMAIN NewReader
    BY <1>2 DEF OnReceiveHello, See
  <2>2. QED
    BY <1>2, <2>1, HandedKept DEF OnReceiveHello
<1>3. ASSUME NEW m \in net, OnReceiveKeyReqPart(m) PROVE HandedInv'
  <2>1. /\ DOMAIN candidate' = DOMAIN NewReader /\ DOMAIN reader' = DOMAIN NewReader
        /\ handed' = handed
        /\ \/ minted' = minted /\ UNCHANGED reader
           \/ minted' = minted + 1 /\ reader'.key = minted + 1
    BY <1>3 DEF OnReceiveKeyReqPart, See, NewReader
  <2>2. QED
    BY <2>1, HandedKept
<1>4. ASSUME NEW m \in net, OnReceiveSessionAck(m) PROVE HandedInv'
  BY <1>4, HandedKept DEF OnReceiveSessionAck, NewReader
<1>5. ASSUME NEW m \in net, OnReceiveData(m) PROVE HandedInv'
  <2> DEFINE p == m.payload
             k == reader.key
  <2>1. CASE ~(k # None /\ k = m.key)
    BY <1>5, <2>1, HandedKept DEF OnReceiveData
  <2>2. CASE k # None /\ k = m.key
    <3>1. Id(m) = Data(p, None)
      BY <1>5 DEF OnReceiveData, Id
    <3>2. /\ reader'.key = k /\ reader'.seen = reader.seen \cup {Id(m)}
          /\ DOMAIN reader' = DOMAIN NewReader
          /\ UNCHANGED <<minted, candidate>>
      BY <1>5, <2>2 DEF OnReceiveData, See, NewReader
    <3>3. CASE Seen(reader, m) \/ p \notin Payload
      <4>1. handed' = handed
        BY <1>5, <2>2, <3>3 DEF OnReceiveData
      <4>2. QED
        BY <3>2, <4>1 DEF HandedOnce
    <3>4. CASE ~Seen(reader, m) /\ p \in Payload
      <4>1. handed' = [handed EXCEPT ![p] = Append(@, k)]
        BY <1>5, <2>2, <3>4 DEF OnReceiveData
      <4>2. \A i \in DOMAIN handed[p] : handed[p][i] # k
        BY <3>1, <3>4 DEF Seen
      <4>3. k \in 1..minted
        BY <2>2 DEF None
      <4>4. handed' \in [Payload -> Seq(Nat)]
        <5>1. Append(handed[p], k) \in Seq(Nat)
          BY <3>4, <4>3
        <5>2. QED
          BY <4>1, <5>1
      <4>5. ASSUME NEW q \in Payload, q # p
            PROVE  handed'[q] = handed[q]
        BY <4>1, <4>5
      <4>6. /\ DOMAIN handed'[p] = DOMAIN handed[p] \cup {Len(handed[p]) + 1}
            /\ \A i \in DOMAIN handed[p] : handed'[p][i] = handed[p][i]
            /\ handed'[p][Len(handed[p]) + 1] = k
            /\ Len(handed[p]) + 1 \notin DOMAIN handed[p]
        BY <3>4, <4>1, <4>3
      <4>7. ASSUME NEW q \in Payload, NEW i \in DOMAIN handed'[q]
            PROVE  /\ handed'[q][i] \in 1..minted
                   /\ handed'[q][i] = k => Data(q, None) \in reader.seen \cup {Id(m)}
        BY <3>1, <4>3, <4>5, <4>6, <4>7
      <4>8. HandedOnce'
        <5>1. ASSUME NEW q \in Payload, NEW i \in DOMAIN handed'[q],
                     NEW j \in DOMAIN handed'[q], handed'[q][i] = handed'[q][j]
              PROVE  i = j
          <6>1. CASE q # p
            BY <4>5, <5>1, <6>1 DEF HandedOnce
          <6>2. CASE q = p
            <7>1. \A a, b \in DOMAIN handed[p] : handed[p][a] = handed[p][b] => a = b
              BY <3>4 DEF HandedOnce
            <7>2. CASE i \in DOMAIN handed[p] /\ j \in DOMAIN handed[p]
              BY <4>6, <5>1, <6>2, <7>1, <7>2
            <7>3. CASE i \notin DOMAIN handed[p] \/ j \notin DOMAIN handed[p]
              BY <4>2, <4>6, <5>1, <6>2, <7>3
            <7>4. QED
              BY <7>2, <7>3
          <6>3. QED
            BY <6>1, <6>2
        <5>2. QED
          BY <5>1 DEF HandedOnce
      <4>9. \A q \in Payload : \A i \in DOMAIN handed'[q] :
              /\ handed'[q][i] \in 1..minted'
              /\ handed'[q][i] = reader'.key => Data(q, None) \in reader'.seen
        BY <3>2, <4>7
      <4>10. minted' \in Nat /\ reader'.key \in 0..minted'
        BY <3>2
      <4>11. DOMAIN reader' = DOMAIN NewReader /\ DOMAIN candidate' = DOMAIN NewReader
        BY <3>2
      <4>12. QED
        BY <4>4, <4>8, <4>9, <4>10, <4>11
    <3>5. QED
      BY <3>3, <3>4
  <2>3. QED
    BY <2>1, <2>2
<1>6. CASE ReaderRetransmit
  <2>1. PICK last \in LastAttempts(reader.retransmitMap \cup candidate.retransmitMap) :
          /\ reader' = [reader EXCEPT !.retransmitMap = @ \ last]
          /\ candidate' = [candidate EXCEPT !.retransmitMap = @ \ last]
    BY <1>6 DEF ReaderRetransmit
  <2>2. UNCHANGED <<minted, handed>>
    BY <1>6 DEF ReaderRetransmit
  <2>3. QED
    BY <2>1, <2>2, HandedKept DEF NewReader
<1>7. CASE Reboot
  BY <1>7, HandedKept DEF Reboot, NewReader, None
<1>8. QED
  BY <1>1, <1>2, <1>3, <1>4, <1>5, <1>6, <1>7
  DEF Next, vars, Send, Call, Take, Queue, CountIn, Seal, Post, Tick, Retransmit,
      Pulsing, Wait, OnReceive, OnReceiveWelcome, OnReceiveSessionPart, OnReceiveAck,
      OnReceiveNack, OnReceiveDuplicate, Lose

\* A reader hands no payload over twice: protectFromDuples goes by the id, which a packet
\* keeps when it is encrypted again, and another handshake makes another key.
THEOREM NoReaderRepeats == Spec => []HandedOnce
<1>1. HandedInv => HandedOnce
  BY DEF HandedInv
<1>2. QED
  BY <1>1, HandedInit, HandedStep, PTL DEF Spec

-----------------------------------------------------------------------------
(***************************************************************************)
(* The two ends have one key                                               *)
(***************************************************************************)
\* The packets that are under way, kept to be sent again, or kept as the first part of
\* a message
Known ==
  net \cup session.parts \cup session.retransmitMap \cup reader.retransmitMap
    \cup candidate.parts \cup candidate.retransmitMap

\* A nonce that a packet tells is one that its sender has made, and the sender's
\* session is at its latest one.
NoncesMade ==
  /\ made \in Nat /\ minted \in Nat
  /\ session.localNonce \in 0..made /\ candidate.localNonce \in 0..minted
  /\ \A m \in Known :
       /\ m.type = "WELCOME" => m.nonce \in 1..minted
       /\ m.type = "KEY_REQ_PART1" =>
            m.local \in 1..session.localNonce /\ m.remote \in 1..minted
       /\ m.type = "SESSION_PART1" => m.nonce \in 1..session.localNonce

\* A request that the candidate would accept is later than every one that has been
\* answered: a candidate that has become the reader takes its nonce with it.
RequestsFresh ==
  \A m, q \in Known :
    /\ m.type = "SESSION_PART1"
    /\ q.type = "KEY_REQ_PART1" /\ q.remote = candidate.localNonce
    => q.local > m.nonce

\* The answer to the session's latest request has the key of the reader.
AnswersCurrent ==
  \A m \in Known :
    m.type = "SESSION_PART1" /\ m.nonce = session.localNonce
    => reader.key \in {None, m.key}

\* The key of a session came with the answer to its latest request.
KeyAnswered ==
  session.state = "EXCHANGING" =>
    \E m \in session.parts :
      m.type = "SESSION_PART1" /\ m.nonce = session.localNonce /\ m.key = session.key

PartsTyped ==
  /\ \A m \in session.parts : m.type \in {"SESSION_PART1", "SESSION_PART2"}
  /\ \A m \in candidate.parts : m.type \in {"KEY_REQ_PART1", "KEY_REQ_PART2"}

KeyInv ==
  /\ Shaped /\ NoncesMade /\ PartsTyped
  /\ RequestsFresh /\ AnswersCurrent /\ KeyAnswered

LEMMA KeyInit == Init => KeyInv
BY DEF Init, KeyInv, Shaped, NoncesMade, PartsTyped, RequestsFresh, AnswersCurrent,
       KeyAnswered, Known, NewSession, NewReader, None

\* The packets that tell a nonce
Told == {m \in Known : m.type \in {"WELCOME", "KEY_REQ_PART1", "SESSION_PART1"}}

\* A step that tells nothing new, and at most forgets the reader or the candidate
LEMMA NothingTold ==
  ASSUME KeyInv, Shaped', PartsTyped', Told' \subseteq Told,
         made' \in Nat, made' >= made, minted' = minted,
         session'.localNonce = session.localNonce,
         candidate'.localNonce \in {None, candidate.localNonce},
         reader'.key \in {None, reader.key},
         \/ session'.state # "EXCHANGING"
         \/ /\ session.state = "EXCHANGING" /\ session'.parts = session.parts
            /\ session'.key = session.key
  PROVE  KeyInv'
<1> USE DEF KeyInv, Told
<1>1. \A m \in Known' : m.type \in {"WELCOME", "KEY_REQ_PART1", "SESSION_PART1"} => m \in Known
  OBVIOUS
<1>2. NoncesMade'
  BY <1>1 DEF NoncesMade, None
<1>3. RequestsFresh'
  <2>1. ASSUME NEW m \in Known', NEW q \in Known', m.type = "SESSION_PART1",
               q.type = "KEY_REQ_PART1", q.remote = candidate'.localNonce
        PROVE  q.local > m.nonce
    <3>1. m \in Known /\ q \in Known
      BY <1>1, <2>1
    <3>2. candidate'.localNonce = candidate.localNonce
      BY <2>1, <3>1 DEF NoncesMade, None
    <3>3. QED
      BY <2>1, <3>1, <3>2 DEF RequestsFresh
  <2>2. QED
    BY <2>1 DEF RequestsFresh
<1>4. AnswersCurrent'
  BY <1>1 DEF AnswersCurrent, None
<1>5. KeyAnswered'
  BY DEF KeyAnswered
<1>6. QED
  BY <1>2, <1>3, <1>4, <1>5

\* A new candidate's nonce is one that no request answers yet.
LEMMA HelloKeeps ==
  ASSUME KeyInv, NEW m \in net, OnReceiveHello(m)
  PROVE  KeyInv'
<1> USE DEF KeyInv, OnReceiveHello
<1>1. PICK nonce \in {minted + 1, candidate.localNonce} \ {None} :
        /\ candidate' = [See(candidate, m) EXCEPT
                           !.localNonce = nonce, !.parts = {},
                           !.retransmitMap = {Welcome(minted + 1, nonce)}]
        /\ net' = (net \ {m}) \cup {Welcome(minted + 1, nonce)}
  OBVIOUS
<1> DEFINE w == Welcome(minted + 1, nonce)
<1>2. /\ w.type = "WELCOME" /\ w.nonce = nonce
      /\ nonce \in 1..(minted + 1) /\ minted' = minted + 1
  BY DEF Welcome, NoncesMade, None
<1>3. /\ DOMAIN candidate' = DOMAIN NewReader
      /\ candidate'.localNonce = nonce /\ candidate'.parts = {}
      /\ candidate'.retransmitMap = {w}
  BY <1>1 DEF See, Shaped, NewReader
<1>4. UNCHANGED <<session, reader, made>>
  OBVIOUS
<1>5. Known' \subseteq Known \cup {w}
  BY <1>1, <1>3, <1>4 DEF Known
<1> HIDE DEF w, OnReceiveHello
<1>6. NoncesMade'
  BY <1>2, <1>3, <1>4, <1>5 DEF NoncesMade
<1>7. RequestsFresh'
  <2>1. ASSUME NEW a \in Known', NEW q \in Known', a.type = "SESSION_PART1",
               q.type = "KEY_REQ_PART1", q.remote = candidate'.localNonce
        PROVE  q.local > a.nonce
    <3>1. a \in Known /\ q \in Known
      BY <1>2, <1>5, <2>1
    <3>2. nonce = candidate.localNonce
      BY <1>1, <1>3, <2>1, <3>1 DEF NoncesMade
    <3>3. QED
      BY <1>3, <2>1, <3>1, <3>2 DEF RequestsFresh
  <2>2. QED
    BY <2>1 DEF RequestsFresh
<1>8. AnswersCurrent'
  BY <1>2, <1>4, <1>5 DEF AnswersCurrent
<1>9. KeyAnswered' /\ Shaped' /\ PartsTyped'
  BY <1>3, <1>4 DEF KeyAnswered, Shaped, PartsTyped
<1>10. QED
  BY <1>6, <1>7, <1>8, <1>9

\* A request of a new nonce is later than every answer, and has none itself.
LEMMA WelcomeKeeps ==
  ASSUME KeyInv, NEW m \in net, OnReceiveWelcome(m)
  PROVE  KeyInv'
<1> USE DEF KeyInv
<1> DEFINE a == made + 1
           requests == {KeyReq1(a, m.nonce), KeyReq2(a)}
<1>1. m.type = "WELCOME" /\ m \in Known /\ UNCHANGED <<reader, candidate, minted>>
  BY DEF OnReceiveWelcome, Known
<1>2. CASE session.state = "HANDSHAKE" /\ session.step = "WAIT_FOR_WELCOME"
  <2>1. /\ session' = [See(session, m) EXCEPT
                         !.step = "WAIT_FOR_SESSION", !.localNonce = a,
                         !.remoteNonce = m.nonce, !.parts = {},
                         !.retransmitMap = DataPackets(@) \cup requests]
        /\ net' = (net \ {m}) \cup requests /\ made' = a
    BY <1>2 DEF OnReceiveWelcome, See, Shaped, NewSession
  <2>2. /\ DOMAIN session' = DOMAIN NewSession
        /\ session'.localNonce = a /\ session'.parts = {}
        /\ session'.state = "HANDSHAKE"
        /\ session'.retransmitMap = DataPackets(session.retransmitMap) \cup requests
    BY <1>2, <2>1 DEF See, Shaped, NewSession
  <2>3. \A q \in Known' : q \in Known \/ q \in requests
    BY <1>1, <2>1, <2>2 DEF Known, DataPackets
  <2>4. /\ m.nonce \in 1..minted
        /\ \A q \in requests :
             /\ q.type \in {"KEY_REQ_PART1", "KEY_REQ_PART2"}
             /\ q.type = "KEY_REQ_PART1" => q.local = a /\ q.remote = m.nonce
    BY <1>1 DEF KeyReq1, KeyReq2, NoncesMade
  <2> HIDE DEF requests
  <2>5. NoncesMade'
    BY <1>1, <2>1, <2>2, <2>3, <2>4 DEF NoncesMade
  <2>6. ASSUME NEW s \in Known', NEW q \in Known', s.type = "SESSION_PART1",
               q.type = "KEY_REQ_PART1", q.remote = candidate'.localNonce
        PROVE  q.local > s.nonce
    <3>1. s \in Known /\ s.nonce \in Nat /\ s.nonce <= made
      BY <2>3, <2>4, <2>6 DEF NoncesMade
    <3>2. CASE q \in Known
      BY <1>1, <2>6, <3>1, <3>2 DEF RequestsFresh
    <3>3. CASE q \in requests
      BY <2>4, <2>6, <3>1, <3>3 DEF NoncesMade
    <3>4. QED
      BY <2>3, <3>2, <3>3
  <2>7. ASSUME NEW s \in Known', s.type = "SESSION_PART1"
        PROVE  s.nonce # session'.localNonce
    BY <2>2, <2>3, <2>4, <2>7 DEF NoncesMade
  <2>8. PartsTyped' /\ Shaped' /\ KeyAnswered'
    BY <1>1, <2>2 DEF PartsTyped, Shaped, KeyAnswered
  <2>9. QED
    BY <2>5, <2>6, <2>7, <2>8 DEF RequestsFresh, AnswersCurrent
<1>3. CASE ~(session.state = "HANDSHAKE" /\ session.step = "WAIT_FOR_WELCOME")
  <2>1. session' = See(session, m) /\ net' = net \ {m} /\ made' = made
    BY <1>3 DEF OnReceiveWelcome, See, Shaped, NewSession
  <2>2. /\ DOMAIN session' = DOMAIN NewSession
        /\ session'.localNonce = session.localNonce /\ session'.parts = session.parts
        /\ session'.state = session.state /\ session'.key = session.key
        /\ session'.retransmitMap = session.retransmitMap
    BY <2>1 DEF See, Shaped, NewSession
  <2>3. Known' \subseteq Known
    BY <1>1, <2>1, <2>2 DEF Known
  <2>4. Shaped' /\ PartsTyped'
    BY <1>1, <2>2 DEF Shaped, PartsTyped
  <2>5. QED
    BY <1>1, <2>1, <2>2, <2>3, <2>4, NothingTold DEF Told, NoncesMade, KeyAnswered
<1>4. QED
  BY <1>2, <1>3

\* The candidate becomes the reader with the answer to a request that is later than every
\* one answered before: none of these is the session's latest.
LEMMA RequestKeeps ==
  ASSUME KeyInv, NEW m \in net, OnReceiveKeyReqPart(m)
  PROVE  KeyInv'
<1> USE DEF KeyInv
<1> DEFINE c == [See(candidate, m) EXCEPT !.retransmitMap = {}, !.parts = Keep(@, m)]
           k == minted + 1
           r == PartOne(c.parts)
           answer == {Session1(k, r.local), Session2(k)}
<1>1. /\ m.type \in {"KEY_REQ_PART1", "KEY_REQ_PART2"} /\ m \in Known
      /\ UNCHANGED <<session, made>>
  BY DEF OnReceiveKeyReqPart, Known
<1>2. /\ DOMAIN c = DOMAIN NewReader /\ c.localNonce = candidate.localNonce
      /\ c.retransmitMap = {} /\ c.parts = Keep(candidate.parts, m)
  BY DEF See, Shaped, NewReader
<1>3. \A q \in c.parts : q \in Known /\ q.type \in {"KEY_REQ_PART1", "KEY_REQ_PART2"}
  BY <1>1, <1>2 DEF Keep, Known, PartsTyped
<1>4. CASE Requested(c)
  <2>1. /\ reader' = [c EXCEPT !.remoteNonce = r.local, !.key = k,
                               !.retransmitMap = answer]
        /\ candidate' = NewReader /\ net' = (net \ {m}) \cup answer /\ minted' = k
    BY <1>4 DEF OnReceiveKeyReqPart
  <2>2. /\ DOMAIN reader' = DOMAIN NewReader
        /\ reader'.key = k /\ reader'.retransmitMap = answer
    BY <1>2, <2>1 DEF NewReader
  <2>3. /\ candidate'.localNonce = None /\ candidate'.parts = {}
        /\ candidate'.retransmitMap = {}
    BY <2>1 DEF NewReader
  <2>4. \A q \in Known' : q \in Known \/ q \in answer
    BY <1>1, <2>1, <2>2, <2>3 DEF Known
  <2>5. \E q \in c.parts : q.type = "KEY_REQ_PART1"
    BY <1>3, <1>4 DEF Requested, Both
  <2>6. r \in Known /\ r.type = "KEY_REQ_PART1" /\ r.remote = candidate.localNonce
    BY <1>2, <1>3, <1>4, <2>5 DEF Requested, PartOne
  <2>7. r.local \in 1..session.localNonce
    BY <2>6 DEF NoncesMade
  <2>8. \A q \in answer :
          /\ q.type \in {"SESSION_PART1", "SESSION_PART2"}
          /\ q.type = "SESSION_PART1" => q.nonce = r.local /\ q.key = k
    BY DEF Session1, Session2
  <2> HIDE DEF answer, r, c
  <2>9. NoncesMade'
    BY <1>1, <2>1, <2>3, <2>4, <2>7, <2>8 DEF NoncesMade, None
  <2>10. RequestsFresh'
    BY <2>3, <2>4, <2>8 DEF RequestsFresh, NoncesMade, None
  <2>11. ASSUME NEW s \in Known', s.type = "SESSION_PART1",
                s.nonce = session'.localNonce
         PROVE  reader'.key = s.key
    <3>1. CASE s \in Known
      BY <1>1, <2>6, <2>7, <2>11, <3>1 DEF RequestsFresh, NoncesMade
    <3>2. CASE s \in answer
      BY <2>2, <2>8, <2>11, <3>2
    <3>3. QED
      BY <2>4, <3>1, <3>2
  <2>12. KeyAnswered' /\ PartsTyped' /\ Shaped'
    BY <1>1, <2>1, <2>2, <2>3 DEF KeyAnswered, PartsTyped, Shaped
  <2>13. QED
    BY <2>9, <2>10, <2>11, <2>12 DEF AnswersCurrent
<1>5. CASE ~Requested(c)
  <2>1. candidate' = c /\ net' = net \ {m} /\ UNCHANGED <<reader, minted>>
    BY <1>5 DEF OnReceiveKeyReqPart
  <2>2. Known' \subseteq Known
    BY <1>1, <1>2, <1>3, <2>1 DEF Known
  <2> HIDE DEF c
  <2>3. Shaped' /\ PartsTyped'
    BY <1>1, <1>2, <1>3, <2>1 DEF Shaped, PartsTyped
  <2>4. QED
    BY <1>1, <1>2, <2>1, <2>2, <2>3, NothingTold DEF Told, NoncesMade, KeyAnswered
<1>6. QED
  BY <1>4, <1>5

\* What a timer sends again for a session is what it kept, or a packet of a payload, and so
\* is what it keeps.
LEMMA PulseTells ==
  ASSUME NEW s, DOMAIN s = DOMAIN NewSession, NEW due \in SUBSET s.retransmitMap, NEW last
  PROVE  /\ \A q \in Pulse(s, due) \cup Pulsed(s, due, last).retransmitMap :
              q \in s.retransmitMap \/ q.type = "DATA"
         /\ DOMAIN Pulsed(s, due, last) = DOMAIN NewSession
         /\ \A f \in {"state", "localNonce", "key", "parts"} :
              Pulsed(s, due, last)[f] = s[f]
<1>1. \A q : Resealed(s, q) = q \/ Resealed(s, q).type = "DATA"
  BY DEF Resealed, Data
<1>2. Pulsed(s, due, last).retransmitMap
        = (s.retransmitMap \ due) \cup {Resealed(s, q) : q \in due \ last}
  BY DEF Pulsed, NewSession
<1>3. /\ DOMAIN Pulsed(s, due, last) = DOMAIN NewSession
      /\ \A f \in {"state", "localNonce", "key", "parts"} :
           Pulsed(s, due, last)[f] = s[f]
  BY DEF Pulsed, NewSession
<1>4. \A q \in Pulse(s, due) : q \in s.retransmitMap \/ q.type = "DATA"
  BY <1>1 DEF Pulse
<1>5. QED
  BY <1>1, <1>2, <1>3, <1>4

\* The session takes the key of an answer to its latest request.
LEMMA AnswerKeeps ==
  ASSUME KeyInv, NEW m \in net, OnReceiveSessionPart(m)
  PROVE  KeyInv'
<1> USE DEF KeyInv
<1> DEFINE seen == [See(session, m) EXCEPT !.retransmitMap = DataPackets(@)]
           kept == [seen EXCEPT !.parts = Keep(@, m)]
           one == PartOne(kept.parts)
           keyed == [kept EXCEPT !.key = one.key, !.state = "EXCHANGING"]
           waits == seen.state = "HANDSHAKE" /\ seen.step = "WAIT_FOR_SESSION"
<1>1. /\ m.type \in {"SESSION_PART1", "SESSION_PART2"} /\ m \in Known
      /\ UNCHANGED <<reader, candidate, made, minted>>
  BY DEF OnReceiveSessionPart, Known
<1>2. /\ DOMAIN seen = DOMAIN NewSession /\ DOMAIN kept = DOMAIN NewSession
      /\ DOMAIN keyed = DOMAIN NewSession
      /\ seen.state = session.state /\ seen.key = session.key
      /\ seen.localNonce = session.localNonce /\ kept.localNonce = session.localNonce
      /\ keyed.localNonce = session.localNonce
      /\ seen.parts = session.parts /\ kept.parts = Keep(session.parts, m)
      /\ keyed.parts = kept.parts /\ kept.state = session.state
      /\ keyed.state = "EXCHANGING" /\ keyed.key = one.key
      /\ seen.retransmitMap = DataPackets(session.retransmitMap)
      /\ kept.retransmitMap = seen.retransmitMap
      /\ keyed.retransmitMap = seen.retransmitMap
  BY DEF See, Shaped, NewSession
<1>3. \A q \in kept.parts : q \in Known /\ q.type \in {"SESSION_PART1", "SESSION_PART2"}
  BY <1>1, <1>2 DEF Keep, Known, PartsTyped
<1>4. seen.retransmitMap \subseteq Known
  BY <1>2 DEF DataPackets, Known
<1>5. CASE waits /\ KeyArrives(kept)
  <2>1. PICK due \in SUBSET Due(keyed) : \E last \in LastAttempts(due) :
          /\ session' = Pulsed(keyed, due, last)
          /\ net' = (net \ {m}) \cup {SessionAck} \cup Pulse(keyed, due)
    BY <1>5 DEF OnReceiveSessionPart
  <2>2. PICK last \in LastAttempts(due) :
          /\ session' = Pulsed(keyed, due, last)
          /\ net' = (net \ {m}) \cup {SessionAck} \cup Pulse(keyed, due)
    BY <2>1
  <2>3. \E q \in kept.parts : q.type = "SESSION_PART1"
    BY <1>3, <1>5 DEF KeyArrives, Both
  <2>4. one \in kept.parts /\ one.type = "SESSION_PART1" /\ one.nonce = session.localNonce
    BY <1>2, <1>3, <1>5, <2>3 DEF KeyArrives, PartOne
  <2>5. due \in SUBSET keyed.retransmitMap
    BY DEF Due
  <2> HIDE DEF one, seen, kept, keyed
  <2>6. /\ \A q \in Pulse(keyed, due) \cup session'.retransmitMap :
             q \in keyed.retransmitMap \/ q.type = "DATA"
        /\ DOMAIN session' = DOMAIN NewSession
        /\ session'.state = "EXCHANGING" /\ session'.key = one.key
        /\ session'.localNonce = session.localNonce /\ session'.parts = kept.parts
    BY <1>2, <2>2, <2>5, PulseTells
  <2>7. SessionAck.type = "SESSION_ACK"
    BY DEF SessionAck
  <2>8. \A q \in Known' : q \in Known \/ q.type \in {"DATA", "SESSION_ACK"}
    BY <1>1, <1>2, <1>3, <1>4, <2>2, <2>6, <2>7 DEF Known
  <2>9. NoncesMade' /\ RequestsFresh' /\ AnswersCurrent'
    BY <1>1, <2>6, <2>8 DEF NoncesMade, RequestsFresh, AnswersCurrent
  <2>10. KeyAnswered'
    BY <2>4, <2>6 DEF KeyAnswered
  <2>11. Shaped' /\ PartsTyped'
    BY <1>1, <1>3, <2>6 DEF Shaped, PartsTyped
  <2>12. QED
    BY <2>9, <2>10, <2>11
<1>6. CASE ~(waits /\ KeyArrives(kept))
  <2>1. session' = (IF waits THEN kept ELSE seen) /\ net' = net \ {m}
    BY <1>6 DEF OnReceiveSessionPart
  <2>2. waits => session.state = "HANDSHAKE"
    BY <1>2
  <2> HIDE DEF seen, kept, waits
  <2>3. /\ DOMAIN session' = DOMAIN NewSession
        /\ session'.localNonce = session.localNonce /\ session'.state = session.state
        /\ session'.parts \in {session.parts, kept.parts}
        /\ session'.retransmitMap \subseteq Known
        /\ \/ session'.parts = session.parts /\ session'.key = session.key
           \/ session'.state = "HANDSHAKE"
    BY <1>2, <1>4, <2>1, <2>2
  <2>4. Known' \subseteq Known
    BY <1>1, <1>3, <2>1, <2>3 DEF Known
  <2>5. Shaped' /\ PartsTyped'
    BY <1>1, <1>3, <2>3 DEF Shaped, PartsTyped
  <2>6. QED
    BY <1>1, <2>3, <2>4, <2>5, NothingTold DEF Told, NoncesMade
<1>7. QED
  BY <1>5, <1>6

\* A step after which a session is as it was but for what it sends again and keeps waiting,
\* or in a new handshake, and that adds no packet which tells a nonce
LEMMA SessionGoesOn ==
  ASSUME KeyInv, UNCHANGED <<reader, candidate, minted>>,
         DOMAIN session' = DOMAIN NewSession,
         session'.localNonce = session.localNonce, session'.parts = session.parts,
         \/ session'.state = "HANDSHAKE"
         \/ session'.state = session.state /\ session'.key = session.key,
         made' \in {made, made + 1},
         \A q \in session'.retransmitMap \cup net' :
           q \in Known \/ q.type \notin {"WELCOME", "KEY_REQ_PART1", "SESSION_PART1"}
  PROVE  KeyInv'
<1> USE DEF KeyInv
<1>1. Told' \subseteq Told
  BY DEF Told, Known
<1>2. Shaped' /\ PartsTyped' /\ made' \in Nat /\ made' >= made
  BY DEF Shaped, PartsTyped, NoncesMade
<1>3. QED
  BY <1>1, <1>2, NothingTold

LEMMA PulsingKeeps ==
  ASSUME KeyInv, NEW due \in SUBSET Due(session), Pulsing(due)
  PROVE  KeyInv'
<1> USE DEF KeyInv
<1> DEFINE restart == session.state = "HANDSHAKE" /\ expired
           greeted == IF restart THEN Greeted(session) ELSE session
<1>1. PICK last \in LastAttempts(due) :
        LET pulsed == Pulsed(greeted, due, last)
            n == Outputs(pulsed)
        IN  /\ session' = [pulsed EXCEPT !.outputQueue = SubSeq(@, n + 1, Len(@))]
            /\ net' = net \cup Pulse(greeted, due)
                          \cup (IF restart THEN {Hello(made + 1)} ELSE {})
            /\ made' = IF restart THEN made + 1 ELSE made
  BY DEF Pulsing
<1> DEFINE pulsed == Pulsed(greeted, due, last)
<1>2. UNCHANGED <<reader, candidate, minted>>
  BY DEF Pulsing
<1>3. Hello(made + 1).type = "HELLO"
  BY DEF Hello
<1>4. /\ DOMAIN greeted = DOMAIN NewSession
      /\ greeted.state = session.state /\ greeted.localNonce = session.localNonce
      /\ greeted.key = session.key /\ greeted.parts = session.parts
      /\ session.retransmitMap \subseteq greeted.retransmitMap
      /\ \A q \in greeted.retransmitMap : q \in Known \/ q.type = "HELLO"
  BY <1>3 DEF Greeted, Shaped, NewSession, Known
<1>5. due \in SUBSET greeted.retransmitMap
  BY <1>4 DEF Due
<1> HIDE DEF greeted, restart
<1>6. /\ \A q \in Pulse(greeted, due) \cup pulsed.retransmitMap :
           q \in greeted.retransmitMap \/ q.type = "DATA"
      /\ DOMAIN pulsed = DOMAIN NewSession
      /\ pulsed.state = session.state /\ pulsed.localNonce = session.localNonce
      /\ pulsed.key = session.key /\ pulsed.parts = session.parts
  <2> HIDE DEF KeyInv, pulsed
  <2>1. DOMAIN greeted = DOMAIN NewSession /\ due \in SUBSET greeted.retransmitMap
    BY <1>4, <1>5
  <2>2. /\ \A q \in Pulse(greeted, due) \cup Pulsed(greeted, due, last).retransmitMap :
             q \in greeted.retransmitMap \/ q.type = "DATA"
        /\ DOMAIN Pulsed(greeted, due, last) = DOMAIN NewSession
        /\ \A f \in {"state", "localNonce", "key", "parts"} :
             Pulsed(greeted, due, last)[f] = greeted[f]
    BY <2>1, PulseTells
  <2>3. pulsed = Pulsed(greeted, due, last)
    BY DEF pulsed
  <2>4. QED
    BY <1>4, <2>2, <2>3
<1>7. \E n : session' = [pulsed EXCEPT !.outputQueue = SubSeq(@, n + 1, Len(@))]
  BY <1>1
<1>8. /\ DOMAIN session' = DOMAIN NewSession
      /\ session'.state = session.state /\ session'.localNonce = session.localNonce
      /\ session'.key = session.key /\ session'.parts = session.parts
      /\ session'.retransmitMap = pulsed.retransmitMap
  BY <1>6, <1>7 DEF NewSession
<1>9. \A q \in session'.retransmitMap \cup net' :
        q \in Known \/ q.type \in {"DATA", "HELLO"}
  BY <1>1, <1>3, <1>4, <1>6, <1>8 DEF Known
<1>10. made' \in {made, made + 1}
  BY <1>1
<1>11. QED
  BY <1>2, <1>8, <1>9, <1>10, SessionGoesOn

LEMMA KeyStep == KeyInv /\ [Next]_vars => KeyInv'
<1> SUFFICES ASSUME KeyInv, [Next]_vars PROVE KeyInv'
  OBVIOUS
<1> USE DEF KeyInv
<1>1. ASSUME UNCHANGED <<session, reader, candidate, made, minted>>,
             \A q \in net' : q \in net \/ q.type \in {"DATA", "ACK", "NACK"}
      PROVE  KeyInv'
  <2>1. \A q \in session'.retransmitMap \cup net' :
          q \in Known \/ q.type \in {"DATA", "ACK", "NACK"}
    BY <1>1 DEF Known
  <2>2. QED
    BY <1>1, <2>1, SessionGoesOn DEF Shaped
<1>2. ASSUME NEW p \in Payload, Call(p) PROVE KeyInv'
  BY <1>1, <1>2 DEF Call, clocks
<1>3. CASE Take
  BY <1>1, <1>3 DEF Take, clocks
<1>4. CASE Queue
  <2>1. /\ session' = [session EXCEPT !.outputQueue = Enqueue(@, job.payload)]
        /\ UNCHANGED <<reader, candidate, net, made, minted>>
    BY <1>4 DEF Queue
  <2>2. /\ DOMAIN session' = DOMAIN NewSession
        /\ session'.state = session.state /\ session'.localNonce = session.localNonce
        /\ session'.key = session.key /\ session'.parts = session.parts
        /\ session'.retransmitMap = session.retransmitMap
    BY <2>1 DEF Shaped, NewSession
  <2>3. QED
    BY <2>1, <2>2, SessionGoesOn DEF Known
<1>5. CASE CountIn
  BY <1>1, <1>5 DEF CountIn, clocks
<1>6. CASE Seal
  BY <1>1, <1>6 DEF Seal, clocks
<1>7. CASE Post
  <2> DEFINE d == Data(job.payload, job.key)
  <2>1. /\ session' = [session EXCEPT !.retransmitMap = @ \cup {d}]
        /\ net' = net \cup {d}
        /\ UNCHANGED <<reader, candidate, made, minted>>
    BY <1>7 DEF Post
  <2>2. d.type = "DATA"
    BY DEF Data
  <2> HIDE DEF d
  <2>3. /\ DOMAIN session' = DOMAIN NewSession
        /\ session'.state = session.state /\ session'.localNonce = session.localNonce
        /\ session'.key = session.key /\ session'.parts = session.parts
        /\ session'.retransmitMap = session.retransmitMap \cup {d}
    BY <2>1 DEF Shaped, NewSession
  <2>4. QED
    BY <2>1, <2>2, <2>3, SessionGoesOn DEF Known
<1>8. CASE Tick
  BY <1>8, PulsingKeeps DEF Tick
<1>9. CASE Retransmit
  BY <1>9, PulsingKeeps DEF Retransmit
<1>10. CASE ReaderRetransmit
  <2>1. PICK last \in LastAttempts(reader.retransmitMap \cup candidate.retransmitMap) :
          /\ reader' = [reader EXCEPT !.retransmitMap = @ \ last]
          /\ candidate' = [candidate EXCEPT !.retransmitMap = @ \ last]
    BY <1>10 DEF ReaderRetransmit
  <2>2. /\ net' = net \cup reader.retransmitMap \cup candidate.retransmitMap
        /\ UNCHANGED <<session, made, minted>>
    BY <1>10 DEF ReaderRetransmit
  <2>3. /\ DOMAIN reader' = DOMAIN NewReader /\ DOMAIN candidate' = DOMAIN NewReader
        /\ reader'.key = reader.key /\ candidate'.localNonce = candidate.localNonce
        /\ candidate'.parts = candidate.parts
        /\ reader'.retransmitMap \subseteq reader.retransmitMap
        /\ candidate'.retransmitMap \subseteq candidate.retransmitMap
    BY <2>1 DEF Shaped, NewReader
  <2>4. Told' \subseteq Told
    BY <2>2, <2>3 DEF Told, Known
  <2>5. Shaped' /\ PartsTyped'
    BY <2>2, <2>3 DEF Shaped, PartsTyped
  <2>6. QED
    BY <2>2, <2>3, <2>4, <2>5, NothingTold DEF NoncesMade
<1>11. CASE Wait
  BY <1>1, <1>11 DEF Wait
<1>12. CASE Reboot
  <2>1. /\ reader' = NewReader /\ candidate' = NewReader
        /\ UNCHANGED <<session, net, made, minted>>
    BY <1>12 DEF Reboot
  <2>2. /\ NewReader.parts = {} /\ NewReader.retransmitMap = {}
        /\ NewReader.key = None /\ NewReader.localNonce = None
    BY DEF NewReader
  <2>3. Told' \subseteq Told
    BY <2>1, <2>2 DEF Told, Known
  <2>4. Shaped' /\ PartsTyped'
    BY <2>1, <2>2 DEF Shaped, PartsTyped
  <2>5. QED
    BY <2>1, <2>2, <2>3, <2>4, NothingTold DEF NoncesMade
<1>13. ASSUME NEW m \in net, OnReceive(m) PROVE KeyInv'
  <2>1. CASE OnReceiveHello(m)
    BY <2>1, HelloKeeps
  <2>2. CASE OnReceiveWelcome(m)
    BY <2>2, WelcomeKeeps
  <2>3. CASE OnReceiveKeyReqPart(m)
    BY <2>3, RequestKeeps
  <2>4. CASE OnReceiveSessionPart(m)
    BY <2>4, AnswerKeeps
  <2>5. CASE OnReceiveSessionAck(m)
    <3>1. /\ reader' = [reader EXCEPT !.retransmitMap = {}] /\ net' = net \ {m}
          /\ UNCHANGED <<session, candidate, made, minted>>
      BY <2>5 DEF OnReceiveSessionAck
    <3>2. /\ DOMAIN reader' = DOMAIN NewReader /\ reader'.key = reader.key
          /\ reader'.retransmitMap = {}
      BY <3>1 DEF Shaped, NewReader
    <3>3. Told' \subseteq Told
      BY <3>1, <3>2 DEF Told, Known
    <3>4. Shaped' /\ PartsTyped'
      BY <3>1, <3>2 DEF Shaped, PartsTyped
    <3>5. QED
      BY <3>1, <3>2, <3>3, <3>4, NothingTold DEF NoncesMade
  <2>6. CASE OnReceiveData(m)
    <3>1. /\ reader' \in {reader, See(reader, m)}
          /\ net' \in {(net \ {m}) \cup {Ack(m.payload, reader.key)},
                       (net \ {m}) \cup {Nack(m.payload)}}
          /\ UNCHANGED <<session, candidate, made, minted>>
      BY <2>6 DEF OnReceiveData
    <3>2. /\ DOMAIN reader' = DOMAIN NewReader /\ reader'.key = reader.key
          /\ reader'.retransmitMap = reader.retransmitMap
      BY <3>1 DEF See, Shaped, NewReader
    <3>3. \A q \in net' : q \in net \/ q.type \in {"ACK", "NACK"}
      BY <3>1 DEF Ack, Nack
    <3>4. Told' \subseteq Told
      BY <3>1, <3>2, <3>3 DEF Told, Known
    <3>5. Shaped' /\ PartsTyped'
      BY <3>1, <3>2 DEF Shaped, PartsTyped
    <3>6. QED
      BY <3>1, <3>2, <3>4, <3>5, NothingTold DEF NoncesMade
  <2>7. CASE OnReceiveAck(m)
    <3>1. /\ net' = net \ {m} /\ UNCHANGED <<reader, candidate, made, minted>>
          /\ \/ session' = session
             \/ session' = [session EXCEPT !.retransmitMap =
                              {q \in @ : Id(q) # Data(m.payload, None)}]
      BY <2>7 DEF OnReceiveAck
    <3>2. /\ DOMAIN session' = DOMAIN NewSession
          /\ session'.state = session.state /\ session'.localNonce = session.localNonce
          /\ session'.key = session.key /\ session'.parts = session.parts
          /\ session'.retransmitMap \subseteq session.retransmitMap
      BY <3>1 DEF Shaped, NewSession
    <3>3. QED
      BY <3>1, <3>2, SessionGoesOn DEF Known
  <2>8. CASE OnReceiveNack(m)
    <3>1. UNCHANGED <<reader, candidate, minted>>
      BY <2>8 DEF OnReceiveNack
    <3>2. CASE net' = net \ {m} /\ UNCHANGED <<session, made>>
      BY <1>1, <3>1, <3>2
    <3>3. CASE ~(net' = net \ {m} /\ UNCHANGED <<session, made>>)
      <4>1. /\ session' = Greeted(Restarted(session)) /\ made' = made + 1
            /\ net' = (net \ {m}) \cup {Hello(made + 1)}
        BY <2>8, <3>3 DEF OnReceiveNack
      <4>2. Hello(made + 1).type = "HELLO" /\ \A p : Data(p, None).type = "DATA"
        BY DEF Hello, Data
      <4>3. /\ DOMAIN session' = DOMAIN NewSession
            /\ session'.localNonce = session.localNonce
            /\ session'.parts = session.parts /\ session'.state = "HANDSHAKE"
            /\ session'.retransmitMap =
                 {Data(d.payload, None) : d \in DataPackets(session.retransmitMap)}
                   \cup {Hello(made + 1)}
        BY <4>1 DEF Greeted, Restarted, Shaped, NewSession
      <4>4. \A q \in session'.retransmitMap \cup net' :
              q \in Known \/ q.type \in {"DATA", "HELLO"}
        BY <4>1, <4>2, <4>3 DEF Known
      <4>5. QED
        BY <3>1, <4>1, <4>3, <4>4, SessionGoesOn
    <3>4. QED
      BY <3>2, <3>3
  <2>9. CASE OnReceiveDuplicate(m)
    BY <1>1, <2>9 DEF OnReceiveDuplicate
  <2>10. QED
    BY <1>13, <2>1, <2>2, <2>3, <2>4, <2>5, <2>6, <2>7, <2>8, <2>9 DEF OnReceive
<1>14. ASSUME NEW m \in net, Lose(m) PROVE KeyInv'
  BY <1>1, <1>14 DEF Lose
<1>15. CASE UNCHANGED vars
  BY <1>1, <1>15 DEF vars
<1>16. QED
  BY <1>2, <1>3, <1>4, <1>5, <1>6, <1>7, <1>8, <1>9, <1>10, <1>11, <1>12, <1>13, <1>14,
     <1>15 DEF Next, Send

\* A session that is exchanging has the key of the reader: the answer it took is to its
\* latest request, and the receiver has answered no later one.
THEOREM EndsHaveOneKey == Spec => []KeysAgree
<1>1. KeyInv => KeysAgree
  BY DEF KeyInv, KeyAnswered, AnswersCurrent, KeysAgree, Known
<1>2. QED
  BY <1>1, KeyInit, KeyStep, PTL DEF Spec

-----------------------------------------------------------------------------
(***************************************************************************)
(* What is given to send is kept until it is handed over                   *)
(***************************************************************************)
HandedOver(p) == handed[p] # <<>>

\* What has been acknowledged, or is known as a duplicate, has been handed over.
KeptInv ==
  /\ Shaped /\ DOMAIN job = DOMAIN Idle
  /\ session.state \in {"HANDSHAKE", "EXCHANGING"}
  /\ pool \in Seq(Payload) /\ session.outputQueue \in Seq(Payload)
  /\ called \subseteq Payload /\ handed \in [Payload -> Seq(Nat)]
  /\ job.stage = "idle" \/ job.payload \in Payload
  /\ reader.key \in Nat /\ minted \in Nat /\ IsFiniteSet(session.retransmitMap)
  /\ \A m \in session.retransmitMap \cup reader.retransmitMap
               \cup candidate.retransmitMap : m.type # "ACK"
  /\ \A m \in net : m.type = "ACK" /\ m.payload \in Payload => HandedOver(m.payload)
  /\ \A p \in Payload :
       Data(p, None) \in reader.seen \cup candidate.seen => HandedOver(p)
  /\ NothingVanishes

LEMMA KeptInit == Init => KeptInv
BY FS_EmptySet
DEF Init, KeptInv, Shaped, NewSession, NewReader, Idle, NothingVanishes, None

\* Nothing vanishes in a step after which what was in hand is still so, or dropped, or
\* handed over.
LEMMA NothingLost ==
  ASSUME NothingVanishes, called' = called, gone \subseteq gone',
         \A p \in called : HandedOver(p) => HandedOver(p)',
         \A p \in InHand : p \in called => p \in InHand' \/ p \in gone' \/ HandedOver(p)'
  PROVE  NothingVanishes'
BY DEF NothingVanishes, HandedOver

\* The receiver's steps, which add acknowledgements of what has been handed over
LEMMA ReceiverKeeps ==
  ASSUME KeptInv,
         UNCHANGED <<session, job, pool, called, gone>>,
         DOMAIN reader' = DOMAIN NewReader, DOMAIN candidate' = DOMAIN NewReader,
         reader'.key \in Nat, minted' \in Nat, handed' \in [Payload -> Seq(Nat)],
         \A m \in reader'.retransmitMap \cup candidate'.retransmitMap :
           \/ m \in reader.retransmitMap \cup candidate.retransmitMap
           \/ m.type # "ACK",
         \A p \in Payload : HandedOver(p) => HandedOver(p)',
         \A m \in net' : m \in net \/ m.type # "ACK"
                           \/ (m.payload \in Payload => HandedOver(m.payload)'),
         \A p \in Payload : Data(p, None) \in reader'.seen \cup candidate'.seen =>
                              \/ Data(p, None) \in reader.seen \cup candidate.seen
                              \/ HandedOver(p)'
  PROVE  KeptInv'
<1> USE DEF KeptInv
<1>1. InHand' = InHand
  BY DEF InHand
<1>2. NothingVanishes'
  BY <1>1, NothingLost
<1>3. QED
  BY <1>2 DEF Shaped

\* The sender's steps, which add no acknowledgement
LEMMA SenderKeeps ==
  ASSUME KeptInv, UNCHANGED <<reader, candidate, minted, called, handed>>,
         DOMAIN session' = DOMAIN NewSession, DOMAIN job' = DOMAIN Idle,
         session'.state \in {"HANDSHAKE", "EXCHANGING"},
         pool' \in Seq(Payload), session'.outputQueue \in Seq(Payload),
         job'.stage = "idle" \/ job'.payload \in Payload,
         IsFiniteSet(session'.retransmitMap),
         \A m \in session'.retransmitMap : m.type # "ACK",
         \A m \in net' : m \in net \/ m.type # "ACK",
         gone \subseteq gone',
         \A p \in InHand : p \in called => p \in InHand' \/ p \in gone' \/ HandedOver(p)
  PROVE  KeptInv'
<1> USE DEF KeptInv
<1>1. \A p : HandedOver(p) => HandedOver(p)'
  BY DEF HandedOver
<1>2. NothingVanishes'
  BY <1>1, NothingLost
<1>3. QED
  BY <1>1, <1>2 DEF Shaped

\* The payloads that a session is to send again
Carried(s) == {m.payload : m \in DataPackets(s.retransmitMap)}

LEMMA MappedIsFinite ==
  ASSUME NEW S, IsFiniteSet(S), NEW f, DOMAIN f = S
  PROVE  IsFiniteSet({f[x] : x \in S})
<1> DEFINE T == {f[x] : x \in S}
           g == [x \in S |-> f[x]]
<1>1. g \in Surjection(S, T)
  BY DEF Surjection
<1>2. QED
  BY <1>1, FS_Surjection DEF ExistsSurjection

\* A pulse gives no payload up but those of its last attempts.
LEMMA PulseCarries ==
  ASSUME NEW s, DOMAIN s = DOMAIN NewSession, IsFiniteSet(s.retransmitMap),
         NEW due \in SUBSET s.retransmitMap, NEW last
  PROVE  /\ IsFiniteSet(Pulsed(s, due, last).retransmitMap)
         /\ \A q \in Pulse(s, due) \cup Pulsed(s, due, last).retransmitMap :
              q \in s.retransmitMap \/ q.type = "DATA"
         /\ Carried(s) \subseteq Carried(Pulsed(s, due, last)) \cup Lost(last)
         /\ DOMAIN Pulsed(s, due, last) = DOMAIN NewSession
         /\ Pulsed(s, due, last).state = s.state
         /\ Pulsed(s, due, last).outputQueue = s.outputQueue
<1>1. ASSUME NEW q, q.type = "DATA"
      PROVE  Resealed(s, q).type = "DATA" /\ Resealed(s, q).payload = q.payload
  BY <1>1 DEF Resealed, Data
<1>2. /\ Pulsed(s, due, last).retransmitMap
           = (s.retransmitMap \ due) \cup {Resealed(s, q) : q \in due \ last}
      /\ DOMAIN Pulsed(s, due, last) = DOMAIN NewSession
      /\ Pulsed(s, due, last).state = s.state
      /\ Pulsed(s, due, last).outputQueue = s.outputQueue
  BY DEF Pulsed, NewSession
<1>3. ASSUME NEW q \in s.retransmitMap, q.type = "DATA"
      PROVE  q.payload \in Carried(Pulsed(s, due, last)) \cup Lost(last)
  <2>1. CASE q \notin due
    BY <1>2, <1>3, <2>1 DEF Carried, DataPackets
  <2>2. CASE q \in due /\ q \in last
    BY <1>3, <2>2 DEF Lost, DataPackets
  <2>3. CASE q \in due /\ q \notin last
    <3>1. Resealed(s, q) \in Pulsed(s, due, last).retransmitMap
      BY <1>2, <2>3
    <3>2. QED
      BY <1>1, <1>3, <3>1 DEF Carried, DataPackets
  <2>4. QED
    BY <2>1, <2>2, <2>3
<1>4. IsFiniteSet(Pulsed(s, due, last).retransmitMap)
  <2> DEFINE sent == due \ last
             f == [q \in sent |-> Resealed(s, q)]
  <2>1. IsFiniteSet(sent)
    BY FS_Subset
  <2>2. IsFiniteSet({f[q] : q \in sent})
    <3> HIDE DEF sent
    <3>1. DOMAIN f = sent
      OBVIOUS
    <3>2. QED
      BY <2>1, <3>1, MappedIsFinite
  <2>3. {f[q] : q \in sent} = {Resealed(s, q) : q \in due \ last}
    OBVIOUS
  <2>4. IsFiniteSet(s.retransmitMap \ due)
    BY FS_Subset
  <2>5. IsFiniteSet((s.retransmitMap \ due) \cup {f[q] : q \in sent})
    <3> HIDE DEF f, sent
    <3>1. QED
      BY <2>2, <2>4, FS_Union
  <2>6. QED
    BY <1>2, <2>3, <2>5
<1>5. QED
  BY <1>2, <1>3, <1>4, PulseTells DEF Carried, DataPackets

Elements(queue) == {queue[i] : i \in DOMAIN queue}

\* What is taken from the front of one queue is at the end of the other.
LEMMA QueueMoves ==
  \A S : \A to, from \in Seq(S) : \A n \in 0..Len(from) :
    /\ SubSeq(from, n + 1, Len(from)) \in Seq(S) /\ to \o SubSeq(from, 1, n) \in Seq(S)
    /\ Elements(to) \cup Elements(from)
         \subseteq Elements(to \o SubSeq(from, 1, n))
                     \cup Elements(SubSeq(from, n + 1, Len(from)))
<1> SUFFICES ASSUME NEW S, NEW to \in Seq(S), NEW from \in Seq(S), NEW n \in 0..Len(from)
             PROVE  LET rest == SubSeq(from, n + 1, Len(from))
                        all == to \o SubSeq(from, 1, n)
                    IN  /\ rest \in Seq(S) /\ all \in Seq(S)
                        /\ Elements(to) \cup Elements(from)
                             \subseteq Elements(all) \cup Elements(rest)
  OBVIOUS
<1> DEFINE front == SubSeq(from, 1, n)
           rest == SubSeq(from, n + 1, Len(from))
           all == to \o front
<1>1. /\ front \in Seq(S) /\ Len(front) = n
      /\ \A i \in 1..n : front[i] = from[i]
  OBVIOUS
<1>2. /\ rest \in Seq(S) /\ Len(rest) = Len(from) - n
      /\ \A i \in 1..(Len(from) - n) : rest[i] = from[n + i]
  OBVIOUS
<1>3. /\ all \in Seq(S) /\ Len(all) = Len(to) + n
      /\ \A i \in 1..Len(to) : all[i] = to[i]
      /\ \A i \in 1..n : all[Len(to) + i] = front[i]
  BY <1>1
<1> HIDE DEF front, rest, all
<1>4. ASSUME NEW i \in DOMAIN from
      PROVE  from[i] \in Elements(all) \cup Elements(rest)
  <2>1. CASE i <= n
    <3>1. Len(to) + i \in DOMAIN all /\ all[Len(to) + i] = from[i]
      BY <1>1, <1>3, <2>1
    <3>2. QED
      BY <3>1 DEF Elements
  <2>2. CASE i > n
    <3>1. i - n \in 1..(Len(from) - n) /\ i = n + (i - n)
      BY <2>2
    <3>2. PICK j \in 1..(Len(from) - n) : i = n + j
      BY <3>1
    <3>3. j \in DOMAIN rest /\ rest[j] = from[i]
      BY <1>2, <3>2
    <3>4. QED
      BY <3>3 DEF Elements
  <2>3. QED
    BY <2>1, <2>2
<1>5. Elements(to) \subseteq Elements(all)
  <2>1. \A i \in DOMAIN to : i \in DOMAIN all /\ all[i] = to[i]
    BY <1>3
  <2>2. QED
    BY <2>1 DEF Elements
<1>6. Elements(from) \subseteq Elements(all) \cup Elements(rest)
  BY <1>4 DEF Elements
<1>7. QED
  BY <1>2, <1>3, <1>5, <1>6 DEF all, rest, front

LEMMA HeadAndTail ==
  \A S : \A queue \in Seq(S) : queue # <<>> =>
    /\ Head(queue) \in S /\ Tail(queue) \in Seq(S)
    /\ Elements(queue) \subseteq {Head(queue)} \cup Elements(Tail(queue))
<1> SUFFICES ASSUME NEW S, NEW queue \in Seq(S), queue # <<>>
             PROVE  /\ Head(queue) \in S /\ Tail(queue) \in Seq(S)
                    /\ Elements(queue) \subseteq {Head(queue)} \cup Elements(Tail(queue))
  OBVIOUS
<1>1. /\ Head(queue) \in S /\ Tail(queue) \in Seq(S) /\ Head(queue) = queue[1]
      /\ Len(queue) \in Nat \ {0} /\ Len(Tail(queue)) = Len(queue) - 1
      /\ \A i \in 1..(Len(queue) - 1) : Tail(queue)[i] = queue[i + 1]
  OBVIOUS
<1>2. ASSUME NEW i \in DOMAIN queue
      PROVE  queue[i] \in {Head(queue)} \cup Elements(Tail(queue))
  <2>1. CASE i = 1
    BY <1>1, <2>1
  <2>2. CASE i # 1
    <3>1. i - 1 \in 1..(Len(queue) - 1) /\ i = (i - 1) + 1
      BY <2>2
    <3>2. PICK j \in 1..(Len(queue) - 1) : i = j + 1
      BY <3>1
    <3>3. j \in DOMAIN Tail(queue) /\ Tail(queue)[j] = queue[i]
      BY <1>1, <3>2
    <3>4. QED
      BY <3>3 DEF Elements
  <2>3. QED
    BY <2>1, <2>2
<1>3. QED
  BY <1>1, <1>2 DEF Elements

LEMMA AppendAdds ==
  \A S : \A queue \in Seq(S) : \A p \in S :
    /\ Append(queue, p) \in Seq(S)
    /\ Elements(queue) \cup {p} \subseteq Elements(Append(queue, p))
<1> SUFFICES ASSUME NEW S, NEW queue \in Seq(S), NEW p \in S
             PROVE  /\ Append(queue, p) \in Seq(S)
                    /\ Elements(queue) \cup {p} \subseteq Elements(Append(queue, p))
  OBVIOUS
<1> DEFINE all == Append(queue, p)
<1>1. /\ all \in Seq(S) /\ Len(all) = Len(queue) + 1 /\ Len(queue) \in Nat
      /\ \A i \in 1..Len(queue) : all[i] = queue[i]
      /\ all[Len(queue) + 1] = p
  OBVIOUS
<1> HIDE DEF all
<1>2. \A i \in DOMAIN queue : i \in DOMAIN all /\ all[i] = queue[i]
  BY <1>1
<1>3. Len(queue) + 1 \in DOMAIN all
  BY <1>1
<1>4. Elements(queue) \subseteq Elements(all) /\ p \in Elements(all)
  BY <1>1, <1>2, <1>3 DEF Elements
<1>5. QED
  BY <1>1, <1>4 DEF all

\* A full queue drops its head, and nothing else.
LEMMA EnqueueKeeps ==
  \A queue \in Seq(Payload) : \A p \in Payload :
    /\ Enqueue(queue, p) \in Seq(Payload)
    /\ Elements(queue) \cup {p} \subseteq Elements(Enqueue(queue, p)) \cup Dropped(queue)
<1> SUFFICES ASSUME NEW queue \in Seq(Payload), NEW p \in Payload
             PROVE  /\ Enqueue(queue, p) \in Seq(Payload)
                    /\ Elements(queue) \cup {p}
                         \subseteq Elements(Enqueue(queue, p)) \cup Dropped(queue)
  OBVIOUS
<1>1. CASE Len(queue) >= MaxQueue
  <2>1. queue # <<>>
    BY <1>1, UdpAssumption
  <2>2. /\ Tail(queue) \in Seq(Payload)
        /\ Elements(queue) \subseteq {Head(queue)} \cup Elements(Tail(queue))
    BY <2>1, HeadAndTail
  <2>3. /\ Append(Tail(queue), p) \in Seq(Payload)
        /\ Elements(Tail(queue)) \cup {p} \subseteq Elements(Append(Tail(queue), p))
    BY <2>2, AppendAdds
  <2>4. Enqueue(queue, p) = Append(Tail(queue), p) /\ Dropped(queue) = {Head(queue)}
    BY <1>1 DEF Enqueue, Dropped
  <2>5. QED
    BY <2>2, <2>3, <2>4
<1>2. CASE ~(Len(queue) >= MaxQueue)
  <2>1. Enqueue(queue, p) = Append(queue, p)
    BY <1>2 DEF Enqueue
  <2>2. QED
    BY <2>1, AppendAdds
<1>3. QED
  BY <1>1, <1>2

\* The timer moves payloads from the queue of the session to that of the pool.
LEMMA PulsingCarries ==
  ASSUME KeptInv, NEW due \in SUBSET Due(session), Pulsing(due)
  PROVE  KeptInv'
<1> USE DEF KeptInv
<1> DEFINE restart == session.state = "HANDSHAKE" /\ expired
           greeted == IF restart THEN Greeted(session) ELSE session
<1>1. PICK last \in LastAttempts(due) :
        LET pulsed == Pulsed(greeted, due, last)
            n == Outputs(pulsed)
        IN  /\ session' = [pulsed EXCEPT !.outputQueue = SubSeq(@, n + 1, Len(@))]
            /\ pool' = pool \o SubSeq(pulsed.outputQueue, 1, n)
            /\ net' = net \cup Pulse(greeted, due)
                          \cup (IF restart THEN {Hello(made + 1)} ELSE {})
            /\ gone' = gone \cup Lost(last)
  BY DEF Pulsing
<1> DEFINE pulsed == Pulsed(greeted, due, last)
           n == Outputs(pulsed)
<1>2. UNCHANGED <<job, reader, candidate, minted, called, handed>>
  BY DEF Pulsing
<1>3. /\ DOMAIN greeted = DOMAIN NewSession /\ greeted.state = session.state
      /\ greeted.outputQueue = session.outputQueue
      /\ Carried(session) \subseteq Carried(greeted)
      /\ greeted.retransmitMap \in
           {session.retransmitMap, session.retransmitMap \cup {Hello(made + 1)}}
      /\ due \in SUBSET greeted.retransmitMap
  BY DEF Greeted, Shaped, NewSession, Carried, DataPackets, Hello, Due
<1>4. IsFiniteSet(greeted.retransmitMap)
  <2>1. IsFiniteSet(session.retransmitMap)
    OBVIOUS
  <2>2. IsFiniteSet(session.retransmitMap \cup {Hello(made + 1)})
    BY <2>1, FS_AddElement
  <2>3. QED
    BY <1>3, <2>1, <2>2
<1> HIDE DEF greeted
<1>5. /\ Carried(greeted) \subseteq Carried(pulsed) \cup Lost(last)
      /\ DOMAIN pulsed = DOMAIN NewSession /\ pulsed.state = session.state
      /\ pulsed.outputQueue = session.outputQueue
      /\ IsFiniteSet(pulsed.retransmitMap)
      /\ \A m \in Pulse(greeted, due) \cup pulsed.retransmitMap :
           m \in greeted.retransmitMap \/ m.type = "DATA"
  <2> HIDE DEF KeptInv, pulsed
  <2>1. /\ DOMAIN greeted = DOMAIN NewSession /\ IsFiniteSet(greeted.retransmitMap)
        /\ due \in SUBSET greeted.retransmitMap
    BY <1>3, <1>4
  <2>2. /\ IsFiniteSet(Pulsed(greeted, due, last).retransmitMap)
        /\ \A q \in Pulse(greeted, due) \cup Pulsed(greeted, due, last).retransmitMap :
             q \in greeted.retransmitMap \/ q.type = "DATA"
        /\ Carried(greeted) \subseteq Carried(Pulsed(greeted, due, last)) \cup Lost(last)
        /\ DOMAIN Pulsed(greeted, due, last) = DOMAIN NewSession
        /\ Pulsed(greeted, due, last).state = greeted.state
        /\ Pulsed(greeted, due, last).outputQueue = greeted.outputQueue
    BY <2>1, PulseCarries
  <2>3. pulsed = Pulsed(greeted, due, last)
    BY DEF pulsed
  <2>4. QED
    BY <1>3, <2>2, <2>3
<1>6. n \in 0..Len(session.outputQueue)
  <2>1. Cardinality(pulsed.retransmitMap) \in Nat
    BY <1>5, FS_CardinalityType
  <2>2. Len(session.outputQueue) \in Nat
    OBVIOUS
  <2>3. QED
    BY <1>5, <2>1, <2>2, UdpAssumption DEF Outputs
<1>7. /\ session' = [pulsed EXCEPT !.outputQueue =
                       SubSeq(session.outputQueue, n + 1, Len(session.outputQueue))]
      /\ pool' = pool \o SubSeq(session.outputQueue, 1, n)
      /\ gone' = gone \cup Lost(last)
      /\ net' = net \cup Pulse(greeted, due)
                    \cup (IF restart THEN {Hello(made + 1)} ELSE {})
  BY <1>1, <1>5
<1> HIDE DEF n, pulsed, restart
<1>8. /\ DOMAIN session' = DOMAIN NewSession /\ session'.state = session.state
      /\ session'.outputQueue =
           SubSeq(session.outputQueue, n + 1, Len(session.outputQueue))
      /\ session'.retransmitMap = pulsed.retransmitMap
  BY <1>5, <1>7 DEF NewSession
<1>9. /\ pool' \in Seq(Payload) /\ session'.outputQueue \in Seq(Payload)
      /\ Elements(pool) \cup Elements(session.outputQueue)
           \subseteq Elements(pool') \cup Elements(session'.outputQueue)
  <2>1. /\ pool \in Seq(Payload) /\ session.outputQueue \in Seq(Payload)
        /\ session'.outputQueue =
             SubSeq(session.outputQueue, n + 1, Len(session.outputQueue))
        /\ pool' = pool \o SubSeq(session.outputQueue, 1, n)
    BY <1>7, <1>8
  <2> HIDE DEF KeptInv
  <2>2. QED
    BY <1>6, <2>1, QueueMoves
<1>10. Carried(session) \subseteq Carried(session') \cup gone'
  <2>1. Carried(session') = Carried(pulsed)
    BY <1>8 DEF Carried
  <2>2. QED
    BY <1>3, <1>5, <1>7, <2>1
<1>11. \A p \in InHand : p \in InHand' \/ p \in gone'
  <2>1. InHand = Elements(pool) \cup (IF job.stage = "idle" THEN {} ELSE {job.payload})
                   \cup Elements(session.outputQueue) \cup Carried(session)
    BY DEF InHand, Elements, Carried
  <2>2. InHand' = Elements(pool') \cup (IF job.stage = "idle" THEN {} ELSE {job.payload})
                    \cup Elements(session'.outputQueue) \cup Carried(session')
    BY <1>2 DEF InHand, Elements, Carried
  <2>3. QED
    BY <1>9, <1>10, <2>1, <2>2
<1>12. /\ \A m \in greeted.retransmitMap : m.type # "ACK"
       /\ Hello(made + 1).type # "ACK"
  BY <1>3 DEF Hello
<1>13. \A m \in Pulse(greeted, due) \cup session'.retransmitMap : m.type # "ACK"
  BY <1>5, <1>8, <1>12
<1>14. \A m \in net' : m \in net \/ m.type # "ACK"
  BY <1>7, <1>12, <1>13
<1>15. QED
  BY <1>2, <1>5, <1>7, <1>8, <1>9, <1>11, <1>13, <1>14, SenderKeeps

\* A handler of the sender that keeps the payloads of its DATA items, or gives them up
LEMMA HandlerKeeps ==
  ASSUME KeptInv, UNCHANGED <<sending, reader, candidate, minted, called, handed>>,
         DOMAIN session' = DOMAIN NewSession,
         session'.state \in {"HANDSHAKE", "EXCHANGING"},
         session'.outputQueue = session.outputQueue,
         IsFiniteSet(session'.retransmitMap),
         \A m \in session'.retransmitMap : m.type # "ACK",
         \A m \in net' : m \in net \/ m.type # "ACK",
         gone \subseteq gone',
         \A p \in Carried(session) : p \in called =>
            p \in Carried(session') \/ p \in gone' \/ HandedOver(p)
  PROVE  KeptInv'
<1> USE DEF KeptInv, sending
<1>1. \A p \in InHand : p \in called => p \in InHand' \/ p \in gone' \/ HandedOver(p)
  BY DEF InHand, Carried
<1>2. QED
  BY <1>1, SenderKeeps

LEMMA WelcomeCarries ==
  ASSUME KeptInv, NEW m \in net, OnReceiveWelcome(m)
  PROVE  KeptInv'
<1> USE DEF KeptInv
<1> DEFINE requests == {KeyReq1(made + 1, m.nonce), KeyReq2(made + 1)}
<1>1. /\ UNCHANGED <<sending, reader, candidate, minted, called, handed, gone>>
      /\ net' \in {(net \ {m}) \cup requests, net \ {m}}
      /\ \/ session' = See(session, m)
         \/ session' = [See(session, m) EXCEPT
                          !.step = "WAIT_FOR_SESSION", !.localNonce = made + 1,
                          !.remoteNonce = m.nonce, !.parts = {},
                          !.retransmitMap = DataPackets(@) \cup requests]
  BY DEF OnReceiveWelcome
<1>2. /\ DOMAIN session' = DOMAIN NewSession /\ session'.state = session.state
      /\ session'.outputQueue = session.outputQueue
      /\ session'.retransmitMap \in
           {session.retransmitMap, DataPackets(session.retransmitMap) \cup requests}
  BY <1>1 DEF See, Shaped, NewSession
<1>3. \A q \in requests : q.type # "ACK"
  BY DEF KeyReq1, KeyReq2
<1>4. IsFiniteSet(requests)
  <2>1. IsFiniteSet({KeyReq1(made + 1, m.nonce)})
    BY FS_Singleton
  <2>2. IsFiniteSet({KeyReq1(made + 1, m.nonce)} \cup {KeyReq2(made + 1)})
    BY <2>1, FS_AddElement
  <2>3. requests = {KeyReq1(made + 1, m.nonce)} \cup {KeyReq2(made + 1)}
    OBVIOUS
  <2>4. QED
    BY <2>2, <2>3
<1>5. IsFiniteSet(DataPackets(session.retransmitMap))
  BY FS_Subset DEF DataPackets
<1> HIDE DEF requests
<1>6. IsFiniteSet(DataPackets(session.retransmitMap) \cup requests)
  <2> HIDE DEF KeptInv
  <2>1. QED
    BY <1>4, <1>5, FS_Union
<1>7. IsFiniteSet(session'.retransmitMap)
  <2>1. IsFiniteSet(session.retransmitMap)
    OBVIOUS
  <2>2. QED
    BY <1>2, <1>6, <2>1
<1>8. /\ \A q \in session'.retransmitMap : q.type # "ACK"
      /\ \A q \in net' : q \in net \/ q.type # "ACK"
  BY <1>1, <1>2, <1>3 DEF DataPackets
<1>9. Carried(session) \subseteq Carried(session')
  BY <1>2 DEF Carried, DataPackets
<1>10. QED
  BY <1>1, <1>2, <1>7, <1>8, <1>9, HandlerKeeps

LEMMA AnswerCarries ==
  ASSUME KeptInv, NEW m \in net, OnReceiveSessionPart(m)
  PROVE  KeptInv'
<1> USE DEF KeptInv
<1> DEFINE seen == [See(session, m) EXCEPT !.retransmitMap = DataPackets(@)]
           kept == [seen EXCEPT !.parts = Keep(@, m)]
           keyed == [kept EXCEPT !.key = PartOne(kept.parts).key, !.state = "EXCHANGING"]
           waits == seen.state = "HANDSHAKE" /\ seen.step = "WAIT_FOR_SESSION"
<1>1. UNCHANGED <<sending, reader, candidate, minted, called, handed>>
  BY DEF OnReceiveSessionPart
<1>2. \A s \in {seen, kept, keyed} :
        /\ DOMAIN s = DOMAIN NewSession /\ s.outputQueue = session.outputQueue
        /\ s.retransmitMap = DataPackets(session.retransmitMap)
        /\ s.state \in {"HANDSHAKE", "EXCHANGING"}
  BY DEF See, Shaped, NewSession
<1>3. IsFiniteSet(DataPackets(session.retransmitMap))
  BY FS_Subset DEF DataPackets
<1>4. \A s \in {seen, kept, keyed} : Carried(session) = Carried(s)
  BY <1>2 DEF Carried, DataPackets
<1>5. CASE waits /\ KeyArrives(kept)
  <2>1. PICK due \in SUBSET Due(keyed) : \E last \in LastAttempts(due) :
          /\ session' = Pulsed(keyed, due, last) /\ gone' = gone \cup Lost(last)
          /\ net' = (net \ {m}) \cup {SessionAck} \cup Pulse(keyed, due)
    BY <1>5 DEF OnReceiveSessionPart
  <2>2. PICK last \in LastAttempts(due) :
          /\ session' = Pulsed(keyed, due, last) /\ gone' = gone \cup Lost(last)
          /\ net' = (net \ {m}) \cup {SessionAck} \cup Pulse(keyed, due)
    BY <2>1
  <2>3. due \in SUBSET keyed.retransmitMap
    BY DEF Due
  <2>4. /\ DOMAIN keyed = DOMAIN NewSession /\ keyed.outputQueue = session.outputQueue
        /\ keyed.retransmitMap = DataPackets(session.retransmitMap)
        /\ keyed.state \in {"HANDSHAKE", "EXCHANGING"}
        /\ Carried(session) = Carried(keyed)
    BY <1>2, <1>4
  <2> HIDE DEF keyed, kept, seen
  <2>5. /\ IsFiniteSet(session'.retransmitMap) /\ DOMAIN session' = DOMAIN NewSession
        /\ \A q \in Pulse(keyed, due) \cup session'.retransmitMap :
             q \in keyed.retransmitMap \/ q.type = "DATA"
        /\ Carried(keyed) \subseteq Carried(session') \cup Lost(last)
        /\ session'.state = keyed.state /\ session'.outputQueue = session.outputQueue
    BY <1>3, <2>2, <2>3, <2>4, PulseCarries
  <2>6. \A q \in Pulse(keyed, due) \cup session'.retransmitMap \cup {SessionAck} :
          q.type # "ACK"
    BY <2>4, <2>5 DEF DataPackets, SessionAck
  <2>7. QED
    BY <1>1, <2>2, <2>4, <2>5, <2>6, HandlerKeeps
<1>6. CASE ~(waits /\ KeyArrives(kept))
  <2>1. session' \in {seen, kept} /\ net' = net \ {m} /\ gone' = gone
    BY <1>6 DEF OnReceiveSessionPart
  <2> HIDE DEF keyed, kept, seen
  <2>2. /\ DOMAIN session' = DOMAIN NewSession
        /\ session'.outputQueue = session.outputQueue
        /\ session'.retransmitMap = DataPackets(session.retransmitMap)
        /\ session'.state \in {"HANDSHAKE", "EXCHANGING"}
        /\ Carried(session) = Carried(session')
    BY <1>2, <1>4, <2>1
  <2>3. \A q \in session'.retransmitMap : q.type # "ACK"
    BY <2>2 DEF DataPackets
  <2>4. QED
    BY <1>1, <1>3, <2>1, <2>2, <2>3, HandlerKeeps
<1>7. QED
  BY <1>5, <1>6

\* An acknowledged payload has been handed over.
LEMMA AckCarries ==
  ASSUME KeptInv, NEW m \in net, OnReceiveAck(m)
  PROVE  KeptInv'
<1> USE DEF KeptInv
<1>1. /\ UNCHANGED <<sending, reader, candidate, minted, called, handed, gone>>
      /\ net' = net \ {m} /\ m.type = "ACK"
      /\ \/ session' = session
         \/ session' = [session EXCEPT !.retransmitMap =
                          {q \in @ : Id(q) # Data(m.payload, None)}]
  BY DEF OnReceiveAck
<1>2. /\ DOMAIN session' = DOMAIN NewSession /\ session'.state = session.state
      /\ session'.outputQueue = session.outputQueue
      /\ session'.retransmitMap \in SUBSET session.retransmitMap
      /\ \A q \in session.retransmitMap :
           q \in session'.retransmitMap \/ Id(q) = Data(m.payload, None)
  BY <1>1 DEF Shaped, NewSession
<1>3. IsFiniteSet(session'.retransmitMap)
  BY <1>2, FS_Subset
<1>4. ASSUME NEW q \in session.retransmitMap, q.type = "DATA", q.payload \in called
      PROVE  q.payload \in Carried(session') \/ HandedOver(q.payload)
  <2>1. CASE q \in session'.retransmitMap
    BY <1>4, <2>1 DEF Carried, DataPackets
  <2>2. CASE Id(q) = Data(m.payload, None)
    <3>1. q.payload = m.payload
      BY <1>4, <2>2 DEF Id, Data
    <3>2. QED
      BY <1>1, <1>4, <3>1
  <2>3. QED
    BY <1>2, <2>1, <2>2
<1>5. \A p \in Carried(session) : p \in called => p \in Carried(session') \/ HandedOver(p)
  BY <1>4 DEF Carried, DataPackets
<1>6. \A q \in session'.retransmitMap : q.type # "ACK"
  BY <1>2
<1>7. QED
  BY <1>1, <1>2, <1>3, <1>5, <1>6, HandlerKeeps

\* A new handshake empties the DATA items and keeps their payloads.
LEMMA NackCarries ==
  ASSUME KeptInv, NEW m \in net, OnReceiveNack(m)
  PROVE  KeptInv'
<1> USE DEF KeptInv
<1>1. UNCHANGED <<sending, reader, candidate, minted, called, handed, gone>>
  BY DEF OnReceiveNack
<1>2. CASE net' = net \ {m} /\ session' = session
  BY <1>1, <1>2, HandlerKeeps DEF Shaped
<1>3. CASE ~(net' = net \ {m} /\ session' = session)
  <2> DEFINE hello == Hello(made + 1)
             data == DataPackets(session.retransmitMap)
             f == [d \in data |-> Data(d.payload, None)]
             emptied == {f[d] : d \in data}
  <2>1. /\ session' = Greeted(Restarted(session)) /\ net' = (net \ {m}) \cup {hello}
    BY <1>3 DEF OnReceiveNack
  <2>2. emptied = {Data(d.payload, None) : d \in data}
    OBVIOUS
  <2>3. /\ DOMAIN session' = DOMAIN NewSession /\ session'.state = "HANDSHAKE"
        /\ session'.outputQueue = session.outputQueue
        /\ session'.retransmitMap = {Data(d.payload, None) : d \in data} \cup {hello}
    BY <2>1 DEF Greeted, Restarted, Shaped, NewSession
  <2>4. session'.retransmitMap = emptied \cup {hello}
    BY <2>2, <2>3
  <2>5. IsFiniteSet(emptied)
    <3>1. IsFiniteSet(data)
      BY FS_Subset DEF DataPackets
    <3> HIDE DEF data
    <3>2. DOMAIN f = data
      OBVIOUS
    <3> HIDE DEF f, KeptInv
    <3>3. QED
      BY <3>1, <3>2, MappedIsFinite
  <2>6. IsFiniteSet(emptied \cup {hello})
    <3> HIDE DEF KeptInv, emptied
    <3>1. QED
      BY <2>5, FS_AddElement
  <2>7. /\ \A q \in {Data(d.payload, None) : d \in data} \cup {hello} : q.type # "ACK"
        /\ hello.type # "ACK"
    BY DEF Data, Hello
  <2>8. ASSUME NEW q \in session.retransmitMap, q.type = "DATA"
        PROVE  q.payload \in Carried(session')
    <3>1. Data(q.payload, None) \in session'.retransmitMap
      BY <2>3, <2>8 DEF DataPackets
    <3>2. /\ Data(q.payload, None).type = "DATA"
          /\ Data(q.payload, None).payload = q.payload
      BY DEF Data
    <3>3. QED
      BY <3>1, <3>2 DEF Carried, DataPackets
  <2>9. Carried(session) \subseteq Carried(session')
    BY <2>8 DEF Carried, DataPackets
  <2> HIDE DEF emptied, data, hello
  <2>10. QED
    BY <1>1, <2>1, <2>2, <2>3, <2>4, <2>6, <2>7, <2>9, HandlerKeeps
<1>4. QED
  BY <1>2, <1>3

LEMMA AppendIsNotEmpty == \A s \in Seq(Nat) : \A x \in Nat : Append(s, x) # <<>>
<1> TAKE s \in Seq(Nat)
<1> TAKE x \in Nat
<1>1. Len(Append(s, x)) = Len(s) + 1 /\ Len(s) \in Nat
  OBVIOUS
<1>2. Len(<<>>) = 0
  OBVIOUS
<1>3. QED
  BY <1>1, <1>2

\* What the reader acknowledges has been handed over, now or when it was seen first.
LEMMA DataCarries ==
  ASSUME KeptInv, NEW m \in net, OnReceiveData(m)
  PROVE  KeptInv'
<1> USE DEF KeptInv
<1>1. UNCHANGED <<session, sending, candidate, minted, called, gone>>
  BY DEF OnReceiveData
<1>2. CASE ~(reader.key # None /\ reader.key = m.key)
  <2>1. UNCHANGED <<reader, handed>> /\ net' = (net \ {m}) \cup {Nack(m.payload)}
    BY <1>2 DEF OnReceiveData
  <2>2. Nack(m.payload).type # "ACK"
    BY DEF Nack
  <2>3. QED
    BY <1>1, <2>1, <2>2, ReceiverKeeps DEF HandedOver, Shaped, sending
<1>3. CASE reader.key # None /\ reader.key = m.key
  <2> DEFINE p == m.payload
             k == reader.key
             ack == Ack(p, k)
  <2>1. /\ net' = (net \ {m}) \cup {ack} /\ reader' = See(reader, m)
        /\ handed' = IF Seen(reader, m) THEN handed
                     ELSE [handed EXCEPT ![p] = Append(@, k)]
        /\ Id(m) = Data(p, None)
    BY <1>3 DEF OnReceiveData, Id
  <2>2. /\ DOMAIN reader' = DOMAIN NewReader /\ reader'.key = k
        /\ reader'.seen = reader.seen \cup {Data(p, None)}
        /\ reader'.retransmitMap = reader.retransmitMap
    BY <2>1 DEF See, Shaped, NewReader
  <2>3. ack.type = "ACK" /\ ack.payload = p
    BY DEF Ack
  <2>4. \A q \in Payload : handed[q] \in Seq(Nat) /\ Append(handed[q], k) \in Seq(Nat)
    OBVIOUS
  <2>5. \A q \in Payload : Append(handed[q], k) # <<>>
    BY AppendIsNotEmpty
  <2>6. handed' \in [Payload -> Seq(Nat)]
    BY <2>1, <2>4
  <2>7. p \in Payload => HandedOver(p)'
    <3>1. CASE Seen(reader, m)
      BY <2>1, <3>1 DEF Seen, HandedOver
    <3>2. CASE ~Seen(reader, m)
      BY <2>1, <2>5, <3>2 DEF HandedOver
    <3>3. QED
      BY <3>1, <3>2
  <2>8. \A q \in Payload : HandedOver(q) => HandedOver(q)'
    BY <2>1, <2>5 DEF HandedOver
  <2>9. \A q \in Payload : Data(q, None) = Data(p, None) => q = p
    BY DEF Data
  <2>10. \A q \in Payload : Data(q, None) \in reader'.seen \cup candidate'.seen =>
           Data(q, None) \in reader.seen \cup candidate.seen \/ HandedOver(q)'
    BY <1>1, <2>2, <2>7, <2>9
  <2>11. \A a \in net' : a \in net \/ a.type # "ACK"
                           \/ (a.payload \in Payload => HandedOver(a.payload)')
    BY <2>1, <2>3, <2>7
  <2>12. QED
    BY <1>1, <2>2, <2>6, <2>8, <2>10, <2>11, ReceiverKeeps DEF Shaped, sending
<1>4. QED
  BY <1>2, <1>3

\* The steps of send hand the payload from one place to the next.
LEMMA SendCarries == KeptInv /\ Send => KeptInv'
<1> SUFFICES ASSUME KeptInv, Send PROVE KeptInv'
  OBVIOUS
<1> USE DEF KeptInv
<1>1. UNCHANGED <<reader, candidate, minted, called, handed>>
  BY DEF Send, Take, Queue, CountIn, Seal, Post
<1>2. CASE Take
  <2>1. /\ pool # <<>> /\ pool' = Tail(pool) /\ UNCHANGED <<session, net, gone>>
        /\ job.stage = "idle"
        /\ job' = [stage |-> session.state, payload |-> Head(pool), key |-> None]
    BY <1>2 DEF Take
  <2>2. /\ Head(pool) \in Payload /\ Tail(pool) \in Seq(Payload)
        /\ Elements(pool) \subseteq {Head(pool)} \cup Elements(Tail(pool))
    BY <2>1, HeadAndTail
  <2>3. /\ DOMAIN job' = DOMAIN Idle /\ job'.stage # "idle" /\ job'.payload = Head(pool)
    BY <2>1 DEF Idle
  <2>4. /\ InHand = Elements(pool) \cup Elements(session.outputQueue) \cup Carried(session)
        /\ InHand' = Elements(Tail(pool)) \cup {Head(pool)}
                       \cup Elements(session.outputQueue) \cup Carried(session)
    BY <2>1, <2>3 DEF InHand, Elements, Carried
  <2>5. QED
    BY <1>1, <2>1, <2>2, <2>3, <2>4, SenderKeeps DEF Shaped
<1>3. CASE Queue
  <2> DEFINE queue == session.outputQueue
             p == job.payload
  <2>1. /\ session' = [session EXCEPT !.outputQueue = Enqueue(@, p)]
        /\ gone' = gone \cup Dropped(queue) /\ job' = Idle /\ UNCHANGED <<pool, net>>
        /\ job.stage # "idle" /\ p \in Payload
    BY <1>3 DEF Queue
  <2>2. /\ DOMAIN session' = DOMAIN NewSession /\ session'.state = session.state
        /\ session'.outputQueue = Enqueue(queue, p)
        /\ session'.retransmitMap = session.retransmitMap
    BY <2>1 DEF Shaped, NewSession
  <2>3. /\ Enqueue(queue, p) \in Seq(Payload)
        /\ Elements(queue) \cup {p} \subseteq Elements(Enqueue(queue, p)) \cup Dropped(queue)
    BY <2>1, EnqueueKeeps
  <2>4. DOMAIN job' = DOMAIN Idle /\ job'.stage = "idle"
    BY <2>1 DEF Idle
  <2>5. \A q \in InHand : q \in InHand' \/ q \in gone'
    BY <2>1, <2>2, <2>3 DEF InHand, Elements
  <2>6. QED
    BY <1>1, <2>1, <2>2, <2>3, <2>4, <2>5, SenderKeeps
<1>4. CASE CountIn \/ Seal
  <2>1. /\ UNCHANGED <<session, pool, net, gone>> /\ job.stage # "idle"
        /\ \/ job' = [job EXCEPT !.stage = "seal"]
           \/ job' = [job EXCEPT !.stage = "post", !.key = session.key]
    BY <1>4 DEF CountIn, Seal
  <2>2. DOMAIN job' = DOMAIN Idle /\ job'.stage # "idle" /\ job'.payload = job.payload
    BY <2>1 DEF Idle
  <2>3. \A p \in InHand : p \in InHand'
    BY <2>1, <2>2 DEF InHand
  <2>4. QED
    BY <1>1, <2>1, <2>2, <2>3, SenderKeeps DEF Shaped
<1>5. CASE Post
  <2> DEFINE d == Data(job.payload, job.key)
  <2>1. /\ session' = [session EXCEPT !.retransmitMap = @ \cup {d}]
        /\ net' = net \cup {d} /\ job' = Idle /\ UNCHANGED <<pool, gone>>
    BY <1>5 DEF Post
  <2>2. d.type = "DATA" /\ d.payload = job.payload
    BY DEF Data
  <2>3. /\ DOMAIN session' = DOMAIN NewSession /\ session'.state = session.state
        /\ session'.outputQueue = session.outputQueue
        /\ session'.retransmitMap = session.retransmitMap \cup {d}
    BY <2>1 DEF Shaped, NewSession
  <2>4. IsFiniteSet(session.retransmitMap \cup {d})
    <3>1. IsFiniteSet(session.retransmitMap)
      OBVIOUS
    <3> HIDE DEF KeptInv, d
    <3>2. QED
      BY <3>1, FS_AddElement
  <2> HIDE DEF d
  <2>5. d \in DataPackets(session'.retransmitMap)
    BY <2>2, <2>3 DEF DataPackets
  <2>6. \A p \in InHand : p \in InHand'
    BY <2>1, <2>2, <2>3, <2>5 DEF InHand, DataPackets
  <2>7. DOMAIN job' = DOMAIN Idle /\ job'.stage = "idle"
    BY <2>1 DEF Idle
  <2>8. QED
    BY <1>1, <2>1, <2>2, <2>3, <2>4, <2>6, <2>7, SenderKeeps
<1>6. QED
  BY <1>2, <1>3, <1>4, <1>5 DEF Send

LEMMA KeptStep == KeptInv /\ [Next]_vars => KeptInv'
<1> SUFFICES ASSUME KeptInv, [Next]_vars PROVE KeptInv'
  OBVIOUS
<1> USE DEF KeptInv
<1>1. ASSUME UNCHANGED <<session, sending, reader, candidate, minted, called, handed, gone>>,
             \A m \in net' : m \in net \/ m.type # "ACK"
      PROVE  KeptInv'
  BY <1>1, HandlerKeeps DEF Shaped
<1>2. ASSUME NEW p \in Payload, Call(p) PROVE KeptInv'
  <2>1. /\ UNCHANGED <<session, job, reader, candidate, minted, handed, gone, net>>
        /\ called' = called \cup {p} /\ pool' = Append(pool, p)
    BY <1>2 DEF Call
  <2>2. pool' \in Seq(Payload) /\ Elements(pool) \cup {p} \subseteq Elements(pool')
    <3>1. pool \in Seq(Payload) /\ pool' = Append(pool, p)
      BY <2>1
    <3> HIDE DEF KeptInv
    <3>2. QED
      BY <3>1, AppendAdds
  <2>3. InHand \cup {p} \subseteq InHand'
    BY <2>1, <2>2 DEF InHand, Elements
  <2>4. NothingVanishes'
    BY <2>1, <2>3 DEF NothingVanishes
  <2>5. \A q : HandedOver(q) => HandedOver(q)'
    BY <2>1 DEF HandedOver
  <2>6. called' \subseteq Payload
    BY <2>1
  <2>7. QED
    BY <2>1, <2>2, <2>4, <2>5, <2>6 DEF Shaped
<1>3. CASE Send
  BY <1>3, SendCarries
<1>4. CASE Tick
  BY <1>4, PulsingCarries DEF Tick
<1>5. CASE Retransmit
  BY <1>5, PulsingCarries DEF Retransmit
<1>6. CASE ReaderRetransmit
  <2>1. PICK last \in LastAttempts(reader.retransmitMap \cup candidate.retransmitMap) :
          /\ reader' = [reader EXCEPT !.retransmitMap = @ \ last]
          /\ candidate' = [candidate EXCEPT !.retransmitMap = @ \ last]
    BY <1>6 DEF ReaderRetransmit
  <2>2. /\ DOMAIN reader' = DOMAIN NewReader /\ DOMAIN candidate' = DOMAIN NewReader
        /\ reader'.key = reader.key /\ reader'.seen = reader.seen
        /\ candidate'.seen = candidate.seen
        /\ reader'.retransmitMap \subseteq reader.retransmitMap
        /\ candidate'.retransmitMap \subseteq candidate.retransmitMap
    BY <2>1 DEF Shaped, NewReader
  <2>3. /\ UNCHANGED <<session, sending, minted, called, handed, gone>>
        /\ net' = net \cup reader.retransmitMap \cup candidate.retransmitMap
    BY <1>6 DEF ReaderRetransmit
  <2>4. QED
    BY <2>2, <2>3, ReceiverKeeps DEF HandedOver, sending
<1>7. CASE Wait
  BY <1>1, <1>7 DEF Wait
<1>8. CASE Reboot
  <2>1. /\ reader' = NewReader /\ candidate' = NewReader
        /\ UNCHANGED <<session, sending, net, minted, called, handed, gone>>
    BY <1>8 DEF Reboot
  <2>2. NewReader.seen = {} /\ NewReader.key = 0 /\ NewReader.retransmitMap = {}
    BY DEF NewReader, None
  <2>3. QED
    BY <2>1, <2>2, ReceiverKeeps DEF HandedOver, sending
<1>9. ASSUME NEW m \in net, OnReceive(m) PROVE KeptInv'
  <2>1. CASE OnReceiveHello(m)
    <3>1. PICK nonce \in {minted + 1, candidate.localNonce} \ {None} :
            /\ candidate' = [See(candidate, m) EXCEPT
                               !.localNonce = nonce, !.parts = {},
                               !.retransmitMap = {Welcome(minted + 1, nonce)}]
            /\ net' = (net \ {m}) \cup {Welcome(minted + 1, nonce)}
      BY <2>1 DEF OnReceiveHello
    <3>2. /\ UNCHANGED <<session, sending, reader, called, handed, gone>>
          /\ minted' = minted + 1 /\ m.type = "HELLO"
      BY <2>1 DEF OnReceiveHello
    <3>3. /\ DOMAIN candidate' = DOMAIN NewReader
          /\ candidate'.seen = candidate.seen \cup {Id(m)}
          /\ candidate'.retransmitMap = {Welcome(minted + 1, nonce)}
      BY <3>1 DEF See, Shaped, NewReader
    <3>4. /\ \A p : Id(m) # Data(p, None)
          /\ Welcome(minted + 1, nonce).type # "ACK"
      BY <3>2 DEF Id, Data, Welcome
    <3>5. QED
      BY <3>1, <3>2, <3>3, <3>4, ReceiverKeeps DEF HandedOver, Shaped, sending
  <2>2. CASE OnReceiveWelcome(m)
    BY <2>2, WelcomeCarries
  <2>3. CASE OnReceiveKeyReqPart(m)
    <3> DEFINE c == [See(candidate, m) EXCEPT !.retransmitMap = {}, !.parts = Keep(@, m)]
               k == minted + 1
               answer == {Session1(k, PartOne(c.parts).local), Session2(k)}
    <3>1. /\ UNCHANGED <<session, sending, called, handed, gone>>
          /\ m.type \in {"KEY_REQ_PART1", "KEY_REQ_PART2"}
          /\ \/ /\ reader' = [c EXCEPT !.remoteNonce = PartOne(c.parts).local, !.key = k,
                                       !.retransmitMap = answer]
                /\ candidate' = NewReader /\ net' = (net \ {m}) \cup answer /\ minted' = k
             \/ candidate' = c /\ net' = net \ {m} /\ UNCHANGED <<reader, minted>>
      BY <2>3 DEF OnReceiveKeyReqPart
    <3>2. /\ DOMAIN c = DOMAIN NewReader /\ c.seen = candidate.seen \cup {Id(m)}
          /\ c.retransmitMap = {}
      BY DEF See, Shaped, NewReader
    <3>3. /\ \A p : Id(m) # Data(p, None)
          /\ \A q \in answer : q.type # "ACK"
      BY <3>1 DEF Id, Data, Session1, Session2
    <3> HIDE DEF c, answer
    <3>4. /\ DOMAIN reader' = DOMAIN NewReader /\ DOMAIN candidate' = DOMAIN NewReader
          /\ reader'.key \in Nat /\ minted' \in Nat
          /\ reader'.seen \cup candidate'.seen
               \subseteq reader.seen \cup candidate.seen \cup {Id(m)}
          /\ reader'.retransmitMap \cup candidate'.retransmitMap
               \subseteq reader.retransmitMap \cup answer
      <4>1. CASE candidate' = c /\ UNCHANGED <<reader, minted>>
        BY <3>2, <4>1 DEF Shaped
      <4>2. CASE ~(candidate' = c /\ UNCHANGED <<reader, minted>>)
        <5>1. /\ reader' = [c EXCEPT !.remoteNonce = PartOne(c.parts).local, !.key = k,
                                     !.retransmitMap = answer]
              /\ candidate' = NewReader /\ minted' = k
          BY <3>1, <4>2
        <5>2. /\ DOMAIN reader' = DOMAIN NewReader /\ reader'.key = k
              /\ reader'.seen = c.seen /\ reader'.retransmitMap = answer
          BY <3>2, <5>1 DEF NewReader
        <5>3. NewReader.seen = {} /\ NewReader.retransmitMap = {}
          BY DEF NewReader
        <5>4. QED
          BY <3>2, <5>1, <5>2, <5>3
      <4>3. QED
        BY <4>1, <4>2
    <3>5. \A q \in net' : q \in net \/ q.type # "ACK"
      BY <3>1, <3>3
    <3>6. QED
      BY <3>1, <3>3, <3>4, <3>5, ReceiverKeeps DEF HandedOver, sending
  <2>4. CASE OnReceiveSessionPart(m)
    BY <2>4, AnswerCarries
  <2>5. CASE OnReceiveSessionAck(m)
    <3>1. /\ reader' = [reader EXCEPT !.retransmitMap = {}] /\ net' = net \ {m}
          /\ UNCHANGED <<session, sending, candidate, minted, called, handed, gone>>
      BY <2>5 DEF OnReceiveSessionAck
    <3>2. /\ DOMAIN reader' = DOMAIN NewReader
          /\ reader'.key = reader.key /\ reader'.seen = reader.seen
          /\ reader'.retransmitMap = {}
      BY <3>1 DEF Shaped, NewReader
    <3>3. QED
      BY <3>1, <3>2, ReceiverKeeps DEF HandedOver, Shaped, sending
  <2>6. CASE OnReceiveData(m)
    BY <2>6, DataCarries
  <2>7. CASE OnReceiveAck(m)
    BY <2>7, AckCarries
  <2>8. CASE OnReceiveNack(m)
    BY <2>8, NackCarries
  <2>9. CASE OnReceiveDuplicate(m)
    BY <1>1, <2>9 DEF OnReceiveDuplicate
  <2>10. QED
    BY <1>9, <2>1, <2>2, <2>3, <2>4, <2>5, <2>6, <2>7, <2>8, <2>9 DEF OnReceive
<1>10. ASSUME NEW m \in net, Lose(m) PROVE KeptInv'
  BY <1>1, <1>10 DEF Lose
<1>11. CASE UNCHANGED vars
  BY <1>1, <1>11 DEF vars, sending
<1>12. QED
  BY <1>2, <1>3, <1>4, <1>5, <1>6, <1>7, <1>8, <1>9, <1>10, <1>11 DEF Next

\* A payload given to send is in hand until it has been handed over, or until the code
\* drops it: in a full queue, or at the last attempt.
THEOREM PayloadsAreKept == Spec => []NothingVanishes
<1>1. KeptInv => NothingVanishes
  BY DEF KeptInv
<1>2. QED
  BY <1>1, KeptInit, KeptStep, PTL DEF Spec

-----------------------------------------------------------------------------
(***************************************************************************)
(* The values of the variables                                             *)
(***************************************************************************)
\* The keys that are told have been minted, and so have those that the ends hold.
NumbersInv ==
  /\ session.step \in {"INIT", "WAIT_FOR_WELCOME", "WAIT_FOR_SESSION"}
  /\ expired \in BOOLEAN /\ rested \in BOOLEAN
  /\ session.remoteNonce \in 0..minted /\ session.key \in 0..minted
  /\ \A m \in Known : m.type = "SESSION_PART1" => m.key \in 1..minted
  /\ \A r \in {reader, candidate} :
       /\ r.key \in 0..minted /\ r.localNonce \in 0..minted /\ r.remoteNonce \in 0..made
       /\ DataPackets(r.retransmitMap) = {}

LEMMA NumbersInit == Init => NumbersInv
<1> SUFFICES ASSUME Init PROVE NumbersInv
  OBVIOUS
<1>1. /\ session.step = "INIT" /\ expired = TRUE /\ rested = FALSE
      /\ session.remoteNonce = 0 /\ session.key = 0 /\ made = 0 /\ minted = 0
      /\ Known = {}
  BY DEF Init, Known, NewSession, NewReader, None
<1>2. \A r \in {reader, candidate} :
        r.key = 0 /\ r.localNonce = 0 /\ r.remoteNonce = 0 /\ r.retransmitMap = {}
  BY DEF Init, NewReader, None
<1>3. DataPackets({}) = {}
  BY DEF DataPackets
<1>4. \A r \in {reader, candidate} :
        /\ r.key \in 0..minted /\ r.localNonce \in 0..minted /\ r.remoteNonce \in 0..made
        /\ DataPackets(r.retransmitMap) = {}
  <2>1. 0 \in 0..0
    OBVIOUS
  <2>2. QED
    BY <1>1, <1>2, <1>3, <2>1
<1>5. expired \in BOOLEAN /\ rested \in BOOLEAN
  BY <1>1
<1>6. /\ session.remoteNonce \in 0..minted /\ session.key \in 0..minted
      /\ session.step \in {"INIT", "WAIT_FOR_WELCOME", "WAIT_FOR_SESSION"}
      /\ \A m \in Known : m.type = "SESSION_PART1" => m.key \in 1..minted
  BY <1>1
<1>7. QED
  BY <1>4, <1>5, <1>6 DEF NumbersInv

\* The sender's steps: a key is taken from an answer that was kept.
LEMMA SenderCounts ==
  ASSUME KeyInv, KeyInv', NumbersInv, UNCHANGED <<reader, candidate, minted>>,
         made' \in {made, made + 1},
         session'.step \in {"INIT", "WAIT_FOR_WELCOME", "WAIT_FOR_SESSION"},
         expired' \in BOOLEAN, rested' \in BOOLEAN,
         session'.remoteNonce \in 0..minted,
         session'.key = session.key \/ session'.state = "EXCHANGING",
         \A m \in net' \cup session'.parts \cup session'.retransmitMap :
           m \in Known \/ m.type # "SESSION_PART1"
  PROVE  NumbersInv'
<1>1. made \in Nat /\ minted \in Nat
  BY DEF KeyInv, NoncesMade
<1>2. \A m \in Known' : m \in Known \/ m.type # "SESSION_PART1"
  BY DEF Known
<1>3. \A m \in Known' : m.type = "SESSION_PART1" => m.key \in 1..minted
  BY <1>2 DEF NumbersInv
<1>4. session'.key \in 0..minted
  <2>1. CASE session'.key = session.key
    BY <2>1 DEF NumbersInv
  <2>2. CASE session'.state = "EXCHANGING"
    <3>1. \E m \in session'.parts : m.type = "SESSION_PART1" /\ m.key = session'.key
      BY <2>2 DEF KeyInv, KeyAnswered
    <3>2. QED
      BY <1>1, <1>3, <3>1 DEF Known
  <2>3. QED
    BY <2>1, <2>2
<1>5. \A r \in {reader', candidate'} : r.remoteNonce \in 0..made'
  BY <1>1 DEF NumbersInv
<1>6. QED
  BY <1>3, <1>4, <1>5 DEF NumbersInv

\* The receiver's steps, which may mint one number
LEMMA ReceiverCounts ==
  ASSUME KeyInv, NumbersInv, UNCHANGED <<session, clocks, made>>,
         minted' \in {minted, minted + 1},
         \A m \in net' \cup reader'.retransmitMap \cup candidate'.retransmitMap
                    \cup candidate'.parts :
           m \in Known \/ m.type # "SESSION_PART1" \/ m.key \in 1..minted',
         \A r \in {reader', candidate'} :
           /\ r.key \in 0..minted' /\ r.localNonce \in 0..minted'
           /\ r.remoteNonce \in 0..made /\ DataPackets(r.retransmitMap) = {}
  PROVE  NumbersInv'
<1>1. minted \in Nat
  BY DEF KeyInv, NoncesMade
<1>2. \A m \in Known' : m \in Known \/ m.type # "SESSION_PART1" \/ m.key \in 1..minted'
  BY DEF Known
<1>3. \A m \in Known' : m.type = "SESSION_PART1" => m.key \in 1..minted'
  BY <1>1, <1>2 DEF NumbersInv
<1>4. session'.remoteNonce \in 0..minted' /\ session'.key \in 0..minted'
  BY <1>1 DEF NumbersInv
<1>5. QED
  BY <1>3, <1>4 DEF NumbersInv, clocks

LEMMA HelloCounts ==
  ASSUME KeyInv, NumbersInv, NEW m \in net, OnReceiveHello(m)
  PROVE  NumbersInv'
<1>1. PICK nonce \in {minted + 1, candidate.localNonce} \ {None} :
        /\ candidate' = [See(candidate, m) EXCEPT
                           !.localNonce = nonce, !.parts = {},
                           !.retransmitMap = {Welcome(minted + 1, nonce)}]
        /\ net' = (net \ {m}) \cup {Welcome(minted + 1, nonce)}
  BY DEF OnReceiveHello
<1> DEFINE w == Welcome(minted + 1, nonce)
<1>2. UNCHANGED <<session, clocks, reader, made>> /\ minted' = minted + 1
  BY DEF OnReceiveHello
<1>3. /\ candidate'.key = candidate.key /\ candidate'.localNonce = nonce
      /\ candidate'.remoteNonce = candidate.remoteNonce
      /\ candidate'.parts = {} /\ candidate'.retransmitMap = {w}
  BY <1>1 DEF See, KeyInv, Shaped, NewReader
<1>4. w.type = "WELCOME"
  BY DEF Welcome
<1>5. \A q \in net' \cup reader'.retransmitMap \cup candidate'.retransmitMap
                 \cup candidate'.parts : q \in Known \/ q.type # "SESSION_PART1"
  BY <1>1, <1>2, <1>3, <1>4 DEF Known
<1>6. minted \in Nat /\ candidate.localNonce \in 0..minted
  BY DEF KeyInv, NoncesMade
<1>7. DataPackets({w}) = {}
  BY <1>4 DEF DataPackets
<1> HIDE DEF w
<1>8. /\ candidate'.key \in 0..minted' /\ candidate'.localNonce \in 0..minted'
      /\ candidate'.remoteNonce \in 0..made /\ DataPackets(candidate'.retransmitMap) = {}
  <2>1. candidate.key \in 0..minted /\ candidate.remoteNonce \in 0..made
    BY DEF NumbersInv
  <2>2. nonce \in 0..(minted + 1) /\ candidate.key \in 0..(minted + 1)
    BY <1>6, <2>1
  <2>3. QED
    BY <1>2, <1>3, <1>7, <2>1, <2>2
<1>9. /\ reader'.key \in 0..minted' /\ reader'.localNonce \in 0..minted'
      /\ reader'.remoteNonce \in 0..made /\ DataPackets(reader'.retransmitMap) = {}
  BY <1>2, <1>6 DEF NumbersInv
<1>10. QED
  BY <1>2, <1>5, <1>8, <1>9, ReceiverCounts

\* The key of a new reader is the latest number.
LEMMA RequestCounts ==
  ASSUME KeyInv, NumbersInv, NEW m \in net, OnReceiveKeyReqPart(m)
  PROVE  NumbersInv'
<1> DEFINE c == [See(candidate, m) EXCEPT !.retransmitMap = {}, !.parts = Keep(@, m)]
           k == minted + 1
           r == PartOne(c.parts)
           answer == {Session1(k, r.local), Session2(k)}
<1>1. /\ m.type \in {"KEY_REQ_PART1", "KEY_REQ_PART2"} /\ m \in Known
      /\ UNCHANGED <<session, clocks, made>>
  BY DEF OnReceiveKeyReqPart, Known
<1>2. /\ DOMAIN c = DOMAIN NewReader /\ c.localNonce = candidate.localNonce
      /\ c.remoteNonce = candidate.remoteNonce /\ c.key = candidate.key
      /\ c.retransmitMap = {} /\ c.parts = Keep(candidate.parts, m)
  BY DEF See, KeyInv, Shaped, NewReader
<1>3. \A q \in c.parts : q \in Known /\ q.type \in {"KEY_REQ_PART1", "KEY_REQ_PART2"}
  BY <1>1, <1>2 DEF Keep, Known, KeyInv, PartsTyped
<1>4. made \in Nat /\ minted \in Nat /\ session.localNonce \in 0..made
  BY DEF KeyInv, NoncesMade
<1>5. CASE Requested(c)
  <2>1. /\ reader' = [c EXCEPT !.remoteNonce = r.local, !.key = k,
                               !.retransmitMap = answer]
        /\ candidate' = NewReader /\ net' = (net \ {m}) \cup answer /\ minted' = k
    BY <1>5 DEF OnReceiveKeyReqPart
  <2>2. /\ reader'.key = k /\ reader'.retransmitMap = answer
        /\ reader'.remoteNonce = r.local /\ reader'.localNonce = candidate.localNonce
    BY <1>2, <2>1 DEF NewReader
  <2>3. /\ candidate'.localNonce = 0 /\ candidate'.remoteNonce = 0 /\ candidate'.key = 0
        /\ candidate'.parts = {} /\ candidate'.retransmitMap = {}
    BY <2>1 DEF NewReader, None
  <2>4. \E q \in c.parts : q.type = "KEY_REQ_PART1"
    BY <1>3, <1>5 DEF Requested, Both
  <2>5. r \in Known /\ r.type = "KEY_REQ_PART1"
    BY <1>3, <2>4 DEF PartOne
  <2>6. r.local \in 0..made
    BY <1>4, <2>5 DEF KeyInv, NoncesMade
  <2>7. \A q \in answer : /\ q.type \in {"SESSION_PART1", "SESSION_PART2"}
                          /\ q.type = "SESSION_PART1" => q.key = k
    BY DEF Session1, Session2
  <2> HIDE DEF answer, r, c
  <2>8. \A q \in net' \cup reader'.retransmitMap \cup candidate'.retransmitMap
                   \cup candidate'.parts :
          q \in Known \/ q.type # "SESSION_PART1" \/ q.key \in 1..minted'
    BY <1>4, <2>1, <2>2, <2>3, <2>7 DEF Known
  <2>9. candidate.localNonce \in 0..minted
    BY DEF NumbersInv
  <2>10. DataPackets(answer) = {} /\ DataPackets({}) = {}
    BY <2>7 DEF DataPackets
  <2>11. /\ reader'.key \in 0..minted' /\ reader'.localNonce \in 0..minted'
         /\ reader'.remoteNonce \in 0..made /\ DataPackets(reader'.retransmitMap) = {}
    BY <1>4, <2>1, <2>2, <2>6, <2>9, <2>10
  <2>12. /\ candidate'.key \in 0..minted' /\ candidate'.localNonce \in 0..minted'
         /\ candidate'.remoteNonce \in 0..made
         /\ DataPackets(candidate'.retransmitMap) = {}
    BY <1>4, <2>1, <2>3, <2>10
  <2>13. QED
    BY <1>1, <2>1, <2>8, <2>11, <2>12, ReceiverCounts
<1>6. CASE ~Requested(c)
  <2>1. candidate' = c /\ net' = net \ {m} /\ UNCHANGED <<reader, minted>>
    BY <1>6 DEF OnReceiveKeyReqPart
  <2> HIDE DEF c
  <2>2. \A q \in net' \cup reader'.retransmitMap \cup candidate'.retransmitMap
                   \cup candidate'.parts : q \in Known
    BY <1>2, <1>3, <2>1 DEF Known
  <2>3. \A q \in {reader', candidate'} :
          /\ q.key \in 0..minted' /\ q.localNonce \in 0..minted'
          /\ q.remoteNonce \in 0..made /\ DataPackets(q.retransmitMap) = {}
    BY <1>2, <2>1 DEF NumbersInv, DataPackets
  <2>4. QED
    BY <1>1, <2>1, <2>2, <2>3, ReceiverCounts
<1>7. QED
  BY <1>5, <1>6

LEMMA WelcomeCounts ==
  ASSUME KeyInv, KeyInv', NumbersInv, NEW m \in net, OnReceiveWelcome(m)
  PROVE  NumbersInv'
<1> DEFINE requests == {KeyReq1(made + 1, m.nonce), KeyReq2(made + 1)}
<1>1. /\ UNCHANGED <<clocks, reader, candidate, minted>> /\ made' \in {made, made + 1}
      /\ net' \in {(net \ {m}) \cup requests, net \ {m}} /\ m.type = "WELCOME"
      /\ \/ session' = See(session, m)
         \/ session' = [See(session, m) EXCEPT
                          !.step = "WAIT_FOR_SESSION", !.localNonce = made + 1,
                          !.remoteNonce = m.nonce, !.parts = {},
                          !.retransmitMap = DataPackets(@) \cup requests]
  BY DEF OnReceiveWelcome
<1>2. /\ session'.key = session.key
      /\ session'.step \in {session.step, "WAIT_FOR_SESSION"}
      /\ session'.remoteNonce \in {session.remoteNonce, m.nonce}
      /\ session'.parts \in {session.parts, {}}
      /\ session'.retransmitMap \in
           {session.retransmitMap, DataPackets(session.retransmitMap) \cup requests}
  BY <1>1 DEF See, KeyInv, Shaped, NewSession
<1>3. \A q \in requests : q.type # "SESSION_PART1"
  BY DEF KeyReq1, KeyReq2
<1>4. m.nonce \in 0..minted
  BY <1>1 DEF KeyInv, NoncesMade, Known
<1> HIDE DEF requests
<1>5. \A q \in net' \cup session'.parts \cup session'.retransmitMap :
        q \in Known \/ q.type # "SESSION_PART1"
  BY <1>1, <1>2, <1>3 DEF Known, DataPackets
<1>6. QED
  BY <1>1, <1>2, <1>4, <1>5, SenderCounts DEF NumbersInv, clocks

LEMMA AnswerCounts ==
  ASSUME KeyInv, KeyInv', NumbersInv, NEW m \in net, OnReceiveSessionPart(m)
  PROVE  NumbersInv'
<1> DEFINE seen == [See(session, m) EXCEPT !.retransmitMap = DataPackets(@)]
           kept == [seen EXCEPT !.parts = Keep(@, m)]
           keyed == [kept EXCEPT !.key = PartOne(kept.parts).key, !.state = "EXCHANGING"]
           waits == seen.state = "HANDSHAKE" /\ seen.step = "WAIT_FOR_SESSION"
<1>1. UNCHANGED <<clocks, reader, candidate, made, minted>> /\ m \in Known
  BY DEF OnReceiveSessionPart, Known
<1>2. \A s \in {seen, kept, keyed} :
        /\ DOMAIN s = DOMAIN NewSession /\ s.step = session.step
        /\ s.remoteNonce = session.remoteNonce
        /\ s.retransmitMap = DataPackets(session.retransmitMap)
        /\ s.parts \in {session.parts, Keep(session.parts, m)}
        /\ s.key = session.key \/ s.state = "EXCHANGING"
  <2>1. /\ DOMAIN seen = DOMAIN NewSession /\ seen.step = session.step
        /\ seen.remoteNonce = session.remoteNonce
        /\ seen.retransmitMap = DataPackets(session.retransmitMap)
        /\ seen.parts = session.parts /\ seen.key = session.key
    BY DEF See, KeyInv, Shaped, NewSession
  <2> HIDE DEF seen
  <2>2. /\ DOMAIN kept = DOMAIN NewSession /\ kept.step = session.step
        /\ kept.remoteNonce = session.remoteNonce
        /\ kept.retransmitMap = DataPackets(session.retransmitMap)
        /\ kept.parts = Keep(session.parts, m) /\ kept.key = session.key
    BY <2>1 DEF NewSession
  <2> HIDE DEF kept
  <2>3. /\ DOMAIN keyed = DOMAIN NewSession /\ keyed.step = session.step
        /\ keyed.remoteNonce = session.remoteNonce
        /\ keyed.retransmitMap = DataPackets(session.retransmitMap)
        /\ keyed.parts = Keep(session.parts, m) /\ keyed.state = "EXCHANGING"
    BY <2>2 DEF NewSession
  <2> HIDE DEF keyed
  <2>4. QED
    BY <2>1, <2>2, <2>3
<1>3. \A q \in DataPackets(session.retransmitMap) \cup session.parts
                 \cup Keep(session.parts, m) : q \in Known
  BY <1>1 DEF DataPackets, Known, Keep
<1>4. CASE waits /\ KeyArrives(kept)
  <2>1. PICK due \in SUBSET Due(keyed) : \E last \in LastAttempts(due) :
          /\ session' = Pulsed(keyed, due, last)
          /\ net' = (net \ {m}) \cup {SessionAck} \cup Pulse(keyed, due)
    BY <1>4 DEF OnReceiveSessionPart
  <2>2. PICK last \in LastAttempts(due) :
          /\ session' = Pulsed(keyed, due, last)
          /\ net' = (net \ {m}) \cup {SessionAck} \cup Pulse(keyed, due)
    BY <2>1
  <2>3. due \in SUBSET keyed.retransmitMap
    BY DEF Due
  <2>4. keyed.state = "EXCHANGING"
    BY DEF See, KeyInv, Shaped, NewSession
  <2>5. keyed \in {seen, kept, keyed}
    OBVIOUS
  <2>6. /\ DOMAIN keyed = DOMAIN NewSession /\ keyed.step = session.step
        /\ keyed.remoteNonce = session.remoteNonce
        /\ keyed.retransmitMap = DataPackets(session.retransmitMap)
        /\ keyed.parts \in {session.parts, Keep(session.parts, m)}
    BY <1>2, <2>5
  <2> HIDE DEF keyed, kept, seen
  <2>7. /\ \A q \in Pulse(keyed, due) \cup session'.retransmitMap :
             q \in keyed.retransmitMap \/ q.type = "DATA"
        /\ session'.state = "EXCHANGING" /\ session'.parts = keyed.parts
    BY <2>2, <2>3, <2>4, <2>6, PulseTells
  <2>8. session'.step = keyed.step /\ session'.remoteNonce = keyed.remoteNonce
    BY <2>2, <2>6 DEF Pulsed, NewSession
  <2>9. SessionAck.type = "SESSION_ACK"
    BY DEF SessionAck
  <2>10. \A q \in net' \cup session'.parts \cup session'.retransmitMap :
           q \in Known \/ q.type # "SESSION_PART1"
    BY <1>3, <2>2, <2>6, <2>7, <2>9 DEF Known
  <2>11. QED
    BY <1>1, <2>6, <2>7, <2>8, <2>10, SenderCounts DEF NumbersInv, clocks
<1>5. CASE ~(waits /\ KeyArrives(kept))
  <2>1. session' = (IF waits THEN kept ELSE seen) /\ net' = net \ {m}
    BY <1>5 DEF OnReceiveSessionPart
  <2>2. seen.key = session.key /\ kept.key = session.key
    BY DEF See, KeyInv, Shaped, NewSession
  <2> HIDE DEF keyed, kept, seen, waits
  <2>3. /\ session'.step = session.step /\ session'.remoteNonce = session.remoteNonce
        /\ session'.key = session.key
        /\ session'.retransmitMap = DataPackets(session.retransmitMap)
        /\ session'.parts \in {session.parts, Keep(session.parts, m)}
    BY <1>2, <2>1, <2>2
  <2>4. \A q \in net' \cup session'.parts \cup session'.retransmitMap : q \in Known
    BY <1>3, <2>1, <2>3 DEF Known
  <2>5. QED
    BY <1>1, <2>3, <2>4, SenderCounts DEF NumbersInv, clocks
<1>6. QED
  BY <1>4, <1>5

LEMMA PulsingCounts ==
  ASSUME KeyInv, KeyInv', NumbersInv, NEW due \in SUBSET Due(session), Pulsing(due)
  PROVE  NumbersInv'
<1> DEFINE restart == session.state = "HANDSHAKE" /\ expired
           greeted == IF restart THEN Greeted(session) ELSE session
<1>1. PICK last \in LastAttempts(due) :
        LET pulsed == Pulsed(greeted, due, last)
            n == Outputs(pulsed)
        IN  /\ session' = [pulsed EXCEPT !.outputQueue = SubSeq(@, n + 1, Len(@))]
            /\ net' = net \cup Pulse(greeted, due)
                          \cup (IF restart THEN {Hello(made + 1)} ELSE {})
            /\ made' = IF restart THEN made + 1 ELSE made
            /\ expired' = (expired /\ ~restart)
  BY DEF Pulsing
<1> DEFINE pulsed == Pulsed(greeted, due, last)
<1>2. UNCHANGED <<rested, reader, candidate, minted>>
  BY DEF Pulsing
<1>3. Hello(made + 1).type = "HELLO"
  BY DEF Hello
<1>4. /\ DOMAIN greeted = DOMAIN NewSession /\ greeted.key = session.key
      /\ greeted.step \in {session.step, "WAIT_FOR_WELCOME"}
      /\ greeted.remoteNonce = session.remoteNonce /\ greeted.parts = session.parts
      /\ session.retransmitMap \subseteq greeted.retransmitMap
      /\ \A q \in greeted.retransmitMap : q \in Known \/ q.type = "HELLO"
  BY <1>3 DEF Greeted, KeyInv, Shaped, NewSession, Known
<1>5. due \in SUBSET greeted.retransmitMap
  BY <1>4 DEF Due
<1>6. expired' \in BOOLEAN
  BY <1>1
<1>7. made' \in {made, made + 1}
  BY <1>1
<1> HIDE DEF greeted, restart
<1>8. /\ \A q \in Pulse(greeted, due) \cup pulsed.retransmitMap :
           q \in greeted.retransmitMap \/ q.type = "DATA"
      /\ DOMAIN pulsed = DOMAIN NewSession
      /\ pulsed.key = greeted.key /\ pulsed.parts = greeted.parts
  <2>1. DOMAIN greeted = DOMAIN NewSession /\ due \in SUBSET greeted.retransmitMap
    BY <1>4, <1>5
  <2>2. QED
    BY <2>1, PulseTells
<1>9. pulsed.step = greeted.step /\ pulsed.remoteNonce = greeted.remoteNonce
  BY <1>4 DEF Pulsed, NewSession
<1>10. \E n : session' = [pulsed EXCEPT !.outputQueue = SubSeq(@, n + 1, Len(@))]
  BY <1>1
<1> HIDE DEF pulsed
<1>11. /\ session'.key = session.key /\ session'.parts = session.parts
       /\ session'.step \in {session.step, "WAIT_FOR_WELCOME"}
       /\ session'.remoteNonce = session.remoteNonce
       /\ session'.retransmitMap = pulsed.retransmitMap
  BY <1>4, <1>8, <1>9, <1>10 DEF NewSession
<1>12. \A q \in net' \cup session'.parts \cup session'.retransmitMap :
         q \in Known \/ q.type # "SESSION_PART1"
  BY <1>1, <1>3, <1>4, <1>8, <1>11 DEF Known
<1>13. QED
  BY <1>2, <1>6, <1>7, <1>11, <1>12, SenderCounts DEF NumbersInv

LEMMA NackCounts ==
  ASSUME KeyInv, KeyInv', NumbersInv, NEW m \in net, OnReceiveNack(m)
  PROVE  NumbersInv'
<1>1. UNCHANGED <<reader, candidate, minted>>
  BY DEF OnReceiveNack
<1>2. CASE net' = net \ {m} /\ UNCHANGED <<session, made, clocks>>
  BY <1>1, <1>2, SenderCounts DEF NumbersInv, clocks, Known
<1>3. CASE ~(net' = net \ {m} /\ UNCHANGED <<session, made, clocks>>)
  <2>1. /\ session' = Greeted(Restarted(session)) /\ made' = made + 1
        /\ net' = (net \ {m}) \cup {Hello(made + 1)}
        /\ expired' = FALSE /\ rested' = FALSE
    BY <1>3 DEF OnReceiveNack
  <2>2. Hello(made + 1).type = "HELLO" /\ \A p : Data(p, None).type = "DATA"
    BY DEF Hello, Data
  <2>3. /\ session'.key = session.key /\ session'.remoteNonce = session.remoteNonce
        /\ session'.step = "WAIT_FOR_WELCOME" /\ session'.parts = session.parts
        /\ session'.retransmitMap =
             {Data(d.payload, None) : d \in DataPackets(session.retransmitMap)}
               \cup {Hello(made + 1)}
    BY <2>1 DEF Greeted, Restarted, KeyInv, Shaped, NewSession
  <2>4. \A q \in net' \cup session'.parts \cup session'.retransmitMap :
          q \in Known \/ q.type # "SESSION_PART1"
    BY <2>1, <2>2, <2>3 DEF Known
  <2>5. expired' \in BOOLEAN /\ rested' \in BOOLEAN
    BY <2>1
  <2>6. QED
    BY <1>1, <2>1, <2>3, <2>4, <2>5, SenderCounts DEF NumbersInv
<1>4. QED
  BY <1>2, <1>3

LEMMA NumbersStep == KeyInv /\ KeyInv' /\ NumbersInv /\ [Next]_vars => NumbersInv'
<1> SUFFICES ASSUME KeyInv, KeyInv', NumbersInv, [Next]_vars PROVE NumbersInv'
  OBVIOUS
<1>1. ASSUME UNCHANGED <<reader, candidate, made, minted>>,
             expired' \in BOOLEAN, rested' \in BOOLEAN,
             session'.step = session.step, session'.remoteNonce = session.remoteNonce,
             session'.key = session.key, session'.parts = session.parts,
             \A q \in net' \cup session'.retransmitMap :
               q \in net \cup session.retransmitMap \/ q.type # "SESSION_PART1"
      PROVE  NumbersInv'
  <2>1. \A q \in net' \cup session'.parts \cup session'.retransmitMap :
          q \in Known \/ q.type # "SESSION_PART1"
    BY <1>1 DEF Known
  <2>2. QED
    BY <1>1, <2>1, SenderCounts DEF NumbersInv
<1>2. ASSUME UNCHANGED <<session, clocks, reader, candidate, made, minted>>,
             net' \subseteq net
      PROVE  NumbersInv'
  BY <1>1, <1>2 DEF clocks, NumbersInv
<1>3. ASSUME NEW p \in Payload, Call(p) PROVE NumbersInv'
  BY <1>2, <1>3 DEF Call
<1>4. CASE Take \/ CountIn \/ Seal
  BY <1>2, <1>4 DEF Take, CountIn, Seal
<1>5. CASE Queue
  <2>1. /\ session' = [session EXCEPT !.outputQueue = Enqueue(@, job.payload)]
        /\ UNCHANGED <<clocks, reader, candidate, net, made, minted>>
    BY <1>5 DEF Queue
  <2>2. /\ session'.step = session.step /\ session'.remoteNonce = session.remoteNonce
        /\ session'.key = session.key /\ session'.parts = session.parts
        /\ session'.retransmitMap = session.retransmitMap
    BY <2>1 DEF KeyInv, Shaped, NewSession
  <2>3. QED
    BY <1>1, <2>1, <2>2 DEF clocks, NumbersInv
<1>6. CASE Post
  <2> DEFINE d == Data(job.payload, job.key)
  <2>1. /\ session' = [session EXCEPT !.retransmitMap = @ \cup {d}]
        /\ net' = net \cup {d} /\ UNCHANGED <<clocks, reader, candidate, made, minted>>
    BY <1>6 DEF Post
  <2>2. d.type = "DATA"
    BY DEF Data
  <2> HIDE DEF d
  <2>3. /\ session'.step = session.step /\ session'.remoteNonce = session.remoteNonce
        /\ session'.key = session.key /\ session'.parts = session.parts
        /\ session'.retransmitMap = session.retransmitMap \cup {d}
    BY <2>1 DEF KeyInv, Shaped, NewSession
  <2>4. QED
    BY <1>1, <2>1, <2>2, <2>3 DEF clocks, NumbersInv
<1>7. CASE Tick
  BY <1>7, PulsingCounts DEF Tick
<1>8. CASE Retransmit
  BY <1>8, PulsingCounts DEF Retransmit
<1>9. CASE ReaderRetransmit
  <2>1. PICK last \in LastAttempts(reader.retransmitMap \cup candidate.retransmitMap) :
          /\ reader' = [reader EXCEPT !.retransmitMap = @ \ last]
          /\ candidate' = [candidate EXCEPT !.retransmitMap = @ \ last]
    BY <1>9 DEF ReaderRetransmit
  <2>2. /\ net' = net \cup reader.retransmitMap \cup candidate.retransmitMap
        /\ UNCHANGED <<session, clocks, made, minted>>
    BY <1>9 DEF ReaderRetransmit
  <2>3. /\ reader'.key = reader.key /\ reader'.localNonce = reader.localNonce
        /\ reader'.remoteNonce = reader.remoteNonce
        /\ candidate'.key = candidate.key /\ candidate'.localNonce = candidate.localNonce
        /\ candidate'.remoteNonce = candidate.remoteNonce
        /\ candidate'.parts = candidate.parts
        /\ reader'.retransmitMap \subseteq reader.retransmitMap
        /\ candidate'.retransmitMap \subseteq candidate.retransmitMap
    BY <2>1 DEF KeyInv, Shaped, NewReader
  <2>4. \A q \in net' \cup reader'.retransmitMap \cup candidate'.retransmitMap
                   \cup candidate'.parts : q \in Known
    BY <2>2, <2>3 DEF Known
  <2>5. /\ DataPackets(reader'.retransmitMap) = {}
        /\ DataPackets(candidate'.retransmitMap) = {}
    BY <2>3 DEF NumbersInv, DataPackets
  <2>6. QED
    BY <2>2, <2>3, <2>4, <2>5, ReceiverCounts DEF NumbersInv
<1>10. CASE Wait
  <2>1. /\ UNCHANGED <<session, reader, candidate, net, made, minted>>
        /\ expired' = TRUE /\ rested' = TRUE
    BY <1>10 DEF Wait
  <2>2. expired' \in BOOLEAN /\ rested' \in BOOLEAN
    BY <2>1
  <2>3. QED
    BY <1>1, <2>1, <2>2
<1>11. CASE Reboot
  <2>1. /\ reader' = NewReader /\ candidate' = NewReader
        /\ UNCHANGED <<session, clocks, net, made, minted>>
    BY <1>11 DEF Reboot
  <2>2. /\ NewReader.parts = {} /\ NewReader.retransmitMap = {} /\ NewReader.key = 0
        /\ NewReader.localNonce = 0 /\ NewReader.remoteNonce = 0
    BY DEF NewReader, None
  <2>3. DataPackets({}) = {} /\ 0 \in 0..minted /\ 0 \in 0..made
    BY DEF DataPackets, KeyInv, NoncesMade
  <2>4. \A q \in net' \cup reader'.retransmitMap \cup candidate'.retransmitMap
                   \cup candidate'.parts : q \in Known
    BY <2>1, <2>2 DEF Known
  <2>5. QED
    BY <2>1, <2>2, <2>3, <2>4, ReceiverCounts
<1>12. ASSUME NEW m \in net, OnReceive(m) PROVE NumbersInv'
  <2>1. CASE OnReceiveHello(m)
    BY <2>1, HelloCounts
  <2>2. CASE OnReceiveWelcome(m)
    BY <2>2, WelcomeCounts
  <2>3. CASE OnReceiveKeyReqPart(m)
    BY <2>3, RequestCounts
  <2>4. CASE OnReceiveSessionPart(m)
    BY <2>4, AnswerCounts
  <2>5. CASE OnReceiveSessionAck(m)
    <3>1. /\ reader' = [reader EXCEPT !.retransmitMap = {}] /\ net' = net \ {m}
          /\ UNCHANGED <<session, clocks, candidate, made, minted>>
      BY <2>5 DEF OnReceiveSessionAck
    <3>2. /\ reader'.key = reader.key /\ reader'.localNonce = reader.localNonce
          /\ reader'.remoteNonce = reader.remoteNonce /\ reader'.retransmitMap = {}
      BY <3>1 DEF KeyInv, Shaped, NewReader
    <3>3. DataPackets({}) = {}
      BY DEF DataPackets
    <3>4. \A q \in net' \cup reader'.retransmitMap \cup candidate'.retransmitMap
                     \cup candidate'.parts : q \in Known
      BY <3>1, <3>2 DEF Known
    <3>5. QED
      BY <3>1, <3>2, <3>3, <3>4, ReceiverCounts DEF NumbersInv
  <2>6. CASE OnReceiveData(m)
    <3>1. /\ reader' \in {reader, See(reader, m)}
          /\ net' \in {(net \ {m}) \cup {Ack(m.payload, reader.key)},
                       (net \ {m}) \cup {Nack(m.payload)}}
          /\ UNCHANGED <<session, clocks, candidate, made, minted>>
      BY <2>6 DEF OnReceiveData
    <3>2. /\ reader'.key = reader.key /\ reader'.localNonce = reader.localNonce
          /\ reader'.remoteNonce = reader.remoteNonce
          /\ reader'.retransmitMap = reader.retransmitMap
      BY <3>1 DEF See, KeyInv, Shaped, NewReader
    <3>3. \A q \in net' : q \in net \/ q.type \in {"ACK", "NACK"}
      BY <3>1 DEF Ack, Nack
    <3>4. \A q \in net' \cup reader'.retransmitMap \cup candidate'.retransmitMap
                     \cup candidate'.parts : q \in Known \/ q.type # "SESSION_PART1"
      BY <3>1, <3>2, <3>3 DEF Known
    <3>5. QED
      BY <3>1, <3>2, <3>4, ReceiverCounts DEF NumbersInv
  <2>7. CASE OnReceiveAck(m)
    <3>1. /\ net' = net \ {m} /\ UNCHANGED <<clocks, reader, candidate, made, minted>>
          /\ \/ session' = session
             \/ session' = [session EXCEPT !.retransmitMap =
                              {q \in @ : Id(q) # Data(m.payload, None)}]
      BY <2>7 DEF OnReceiveAck
    <3>2. /\ session'.step = session.step /\ session'.remoteNonce = session.remoteNonce
          /\ session'.key = session.key /\ session'.parts = session.parts
          /\ session'.retransmitMap \subseteq session.retransmitMap
      BY <3>1 DEF KeyInv, Shaped, NewSession
    <3>3. QED
      BY <1>1, <3>1, <3>2 DEF clocks, NumbersInv
  <2>8. CASE OnReceiveNack(m)
    BY <2>8, NackCounts
  <2>9. CASE OnReceiveDuplicate(m)
    BY <1>2, <2>9 DEF OnReceiveDuplicate
  <2>10. QED
    BY <1>12, <2>1, <2>2, <2>3, <2>4, <2>5, <2>6, <2>7, <2>8, <2>9 DEF OnReceive
<1>13. ASSUME NEW m \in net, Lose(m) PROVE NumbersInv'
  BY <1>2, <1>13 DEF Lose
<1>14. CASE UNCHANGED vars
  BY <1>2, <1>14 DEF vars, clocks
<1>15. QED
  BY <1>3, <1>4, <1>5, <1>6, <1>7, <1>8, <1>9, <1>10, <1>11, <1>12, <1>13, <1>14
  DEF Next, Send

\* The packet that the task has counted in is not yet in the map.
Room == IF job.stage \in {"seal", "post"} THEN MaxRetransmit ELSE MaxRetransmit + 1

\* What the sender has in hand has been given to it, and does not outgrow its limits.
QueuesInv ==
  /\ job.stage \in {"idle", "HANDSHAKE", "EXCHANGING", "seal", "post"}
  /\ job.stage = "idle" => job = Idle
  /\ Len(session.outputQueue) <= MaxQueue
  /\ Cardinality(DataPackets(session.retransmitMap)) <= Room
  /\ pool \in Seq(called) /\ session.outputQueue \in Seq(called)
  /\ job.stage # "idle" => job.payload \in called
  /\ Carried(session) \subseteq called /\ gone \subseteq called

LEMMA QueuesInit == Init => QueuesInv
<1> SUFFICES ASSUME Init PROVE QueuesInv
  OBVIOUS
<1>1. /\ session.retransmitMap = {} /\ session.outputQueue = <<>> /\ job = Idle
      /\ job.stage = "idle" /\ pool = <<>> /\ called = {} /\ gone = {}
  BY DEF Init, NewSession, Idle
<1>2. DataPackets(session.retransmitMap) = {} /\ Carried(session) = {}
  BY <1>1 DEF DataPackets, Carried
<1>3. Cardinality(DataPackets(session.retransmitMap)) = 0
  BY <1>2, FS_EmptySet
<1>4. <<>> \in Seq(called) /\ Len(<<>>) = 0
  OBVIOUS
<1>5. QED
  BY <1>1, <1>2, <1>3, <1>4, UdpAssumption DEF QueuesInv, Room

\* A handler that adds no DATA item and gives up only what it had to send again
LEMMA HandlerBounds ==
  ASSUME KeptInv, QueuesInv, UNCHANGED <<sending, called>>,
         session'.outputQueue = session.outputQueue,
         IsFiniteSet(session'.retransmitMap),
         Cardinality(DataPackets(session'.retransmitMap))
           <= Cardinality(DataPackets(session.retransmitMap)),
         Carried(session') \subseteq Carried(session),
         gone' \subseteq gone \cup Carried(session)
  PROVE  QueuesInv'
<1>1. /\ Cardinality(DataPackets(session'.retransmitMap)) \in Nat
      /\ Cardinality(DataPackets(session.retransmitMap)) \in Nat
  BY FS_Subset, FS_CardinalityType DEF KeptInv, DataPackets
<1>2. Room \in Nat /\ Room' = Room
  BY UdpAssumption DEF Room, sending
<1>3. Cardinality(DataPackets(session'.retransmitMap)) <= Room'
  BY <1>1, <1>2 DEF QueuesInv
<1>4. QED
  BY <1>3 DEF QueuesInv, sending

LEMMA MappedIsNoLarger ==
  ASSUME NEW S, IsFiniteSet(S), NEW f, DOMAIN f = S
  PROVE  Cardinality({f[x] : x \in S}) <= Cardinality(S)
<1> DEFINE T == {f[x] : x \in S}
           g == [x \in S |-> f[x]]
<1>1. g \in Surjection(S, T)
  BY DEF Surjection
<1>2. QED
  BY <1>1, FS_Surjection

\* A pulse sends items again, or gives them up: it makes none.
LEMMA PulseBounds ==
  ASSUME NEW s, DOMAIN s = DOMAIN NewSession, IsFiniteSet(s.retransmitMap),
         NEW due \in SUBSET s.retransmitMap, NEW last \in LastAttempts(due)
  PROVE  /\ Cardinality(DataPackets(Pulsed(s, due, last).retransmitMap))
              <= Cardinality(DataPackets(s.retransmitMap))
         /\ Carried(Pulsed(s, due, last)) \subseteq Carried(s)
         /\ Lost(last) \subseteq Carried(s)
<1> DEFINE map == Pulsed(s, due, last).retransmitMap
           data == DataPackets(s.retransmitMap)
           S == data \ last
           f == [q \in S |-> IF q \in due THEN Resealed(s, q) ELSE q]
<1>1. map = (s.retransmitMap \ due) \cup {Resealed(s, q) : q \in due \ last}
  BY DEF Pulsed, NewSession
<1>2. \A q : /\ (Resealed(s, q).type = "DATA") = (q.type = "DATA")
             /\ Resealed(s, q).payload = q.payload
  BY DEF Resealed, Data
<1>3. last \subseteq due
  BY DEF LastAttempts
<1>4. DataPackets(map) = {f[q] : q \in S}
  <2>1. ASSUME NEW q \in S PROVE f[q] \in DataPackets(map)
    BY <1>1, <1>2 DEF DataPackets
  <2>2. ASSUME NEW d \in DataPackets(map) PROVE d \in {f[q] : q \in S}
    <3>1. CASE d \in s.retransmitMap \ due
      <4>1. d \in S /\ f[d] = d
        BY <1>3, <2>2, <3>1 DEF DataPackets
      <4>2. QED
        BY <4>1
    <3>2. CASE d \notin s.retransmitMap \ due
      <4>1. PICK q \in due \ last : d = Resealed(s, q)
        BY <1>1, <2>2, <3>2 DEF DataPackets
      <4>2. q \in S /\ f[q] = d
        BY <1>2, <2>2, <4>1 DEF DataPackets
      <4>3. QED
        BY <4>2
    <3>3. QED
      BY <3>1, <3>2
  <2>3. QED
    BY <2>1, <2>2
<1>5. /\ IsFiniteSet(data) /\ IsFiniteSet(S) /\ Cardinality(S) <= Cardinality(data)
      /\ Cardinality(S) \in Nat /\ Cardinality(data) \in Nat
  <2>1. IsFiniteSet(data)
    BY FS_Subset DEF DataPackets
  <2>2. IsFiniteSet(S) /\ Cardinality(S) <= Cardinality(data)
    BY <2>1, FS_Subset
  <2>3. QED
    BY <2>1, <2>2, FS_CardinalityType
<1>6. Cardinality({f[q] : q \in S}) <= Cardinality(S) /\ IsFiniteSet({f[q] : q \in S})
  <2>1. DOMAIN f = S
    OBVIOUS
  <2> HIDE DEF f, S
  <2>2. QED
    BY <1>5, <2>1, MappedIsNoLarger, MappedIsFinite
<1>7. Cardinality({f[q] : q \in S}) \in Nat
  BY <1>6, FS_CardinalityType
<1>8. Cardinality(DataPackets(map)) <= Cardinality(data)
  <2> HIDE DEF f, S, data, map
  <2>1. QED
    BY <1>4, <1>5, <1>6, <1>7
<1>9. \A q \in S : f[q].payload \in Carried(s)
  BY <1>2 DEF Carried
<1>10. Carried(Pulsed(s, due, last)) \subseteq Carried(s)
  BY <1>4, <1>9 DEF Carried
<1>11. Lost(last) \subseteq Carried(s)
  BY <1>3 DEF Lost, Carried, DataPackets
<1>12. QED
  BY <1>8, <1>10, <1>11

\* A queue never gets longer than MaxQueue.
LEMMA EnqueueBounds ==
  \A S : \A queue \in Seq(S) : \A p \in S : Len(queue) <= MaxQueue =>
    /\ Enqueue(queue, p) \in Seq(S) /\ Len(Enqueue(queue, p)) <= MaxQueue
    /\ Dropped(queue) \subseteq S
<1> SUFFICES ASSUME NEW S, NEW queue \in Seq(S), NEW p \in S, Len(queue) <= MaxQueue
             PROVE  /\ Enqueue(queue, p) \in Seq(S)
                    /\ Len(Enqueue(queue, p)) <= MaxQueue /\ Dropped(queue) \subseteq S
  OBVIOUS
<1>1. Len(queue) \in Nat /\ MaxQueue \in Nat \ {0}
  BY UdpAssumption
<1>2. CASE Len(queue) >= MaxQueue
  <2>1. queue # <<>>
    BY <1>1, <1>2
  <2>2. Head(queue) \in S /\ Tail(queue) \in Seq(S) /\ Len(Tail(queue)) = Len(queue) - 1
    BY <2>1
  <2>3. /\ Append(Tail(queue), p) \in Seq(S)
        /\ Len(Append(Tail(queue), p)) = Len(Tail(queue)) + 1
    BY <2>2
  <2>4. Enqueue(queue, p) = Append(Tail(queue), p) /\ Dropped(queue) = {Head(queue)}
    BY <1>2 DEF Enqueue, Dropped
  <2>5. QED
    BY <1>1, <2>2, <2>3, <2>4
<1>3. CASE ~(Len(queue) >= MaxQueue)
  <2>1. Enqueue(queue, p) = Append(queue, p) /\ Dropped(queue) = {}
    BY <1>3 DEF Enqueue, Dropped
  <2>2. Append(queue, p) \in Seq(S) /\ Len(Append(queue, p)) = Len(queue) + 1
    OBVIOUS
  <2>3. QED
    BY <1>1, <1>3, <2>1, <2>2
<1>4. QED
  BY <1>2, <1>3

LEMMA SameData ==
  ASSUME KeptInv, QueuesInv, UNCHANGED <<sending, called>>,
         session'.outputQueue = session.outputQueue,
         DataPackets(session'.retransmitMap) \subseteq DataPackets(session.retransmitMap),
         IsFiniteSet(session'.retransmitMap), gone' = gone
  PROVE  QueuesInv'
<1>1. Carried(session') \subseteq Carried(session)
  BY DEF Carried
<1>2. IsFiniteSet(DataPackets(session.retransmitMap))
  BY FS_Subset DEF KeptInv, DataPackets
<1>3. Cardinality(DataPackets(session'.retransmitMap))
        <= Cardinality(DataPackets(session.retransmitMap))
  BY <1>2, FS_Subset
<1>4. QED
  BY <1>1, <1>3, HandlerBounds

LEMMA AnswerBounds ==
  ASSUME KeptInv, KeptInv', QueuesInv, NEW m \in net, OnReceiveSessionPart(m)
  PROVE  QueuesInv'
<1> DEFINE seen == [See(session, m) EXCEPT !.retransmitMap = DataPackets(@)]
           kept == [seen EXCEPT !.parts = Keep(@, m)]
           keyed == [kept EXCEPT !.key = PartOne(kept.parts).key, !.state = "EXCHANGING"]
           waits == seen.state = "HANDSHAKE" /\ seen.step = "WAIT_FOR_SESSION"
           data == DataPackets(session.retransmitMap)
<1>1. UNCHANGED <<sending, called>>
  BY DEF OnReceiveSessionPart
<1>2. \A s \in {seen, kept, keyed} :
        /\ DOMAIN s = DOMAIN NewSession /\ s.outputQueue = session.outputQueue
        /\ s.retransmitMap = data
  BY DEF See, KeptInv, Shaped, NewSession
<1>3. IsFiniteSet(data) /\ DataPackets(data) = data
  BY FS_Subset DEF KeptInv, DataPackets
<1>4. IsFiniteSet(session'.retransmitMap)
  BY DEF KeptInv
<1>5. CASE waits /\ KeyArrives(kept)
  <2>1. PICK due \in SUBSET Due(keyed) : \E last \in LastAttempts(due) :
          session' = Pulsed(keyed, due, last) /\ gone' = gone \cup Lost(last)
    BY <1>5 DEF OnReceiveSessionPart
  <2>2. PICK last \in LastAttempts(due) :
          session' = Pulsed(keyed, due, last) /\ gone' = gone \cup Lost(last)
    BY <2>1
  <2>3. due \in SUBSET keyed.retransmitMap
    BY DEF Due
  <2>4. /\ DOMAIN keyed = DOMAIN NewSession /\ keyed.outputQueue = session.outputQueue
        /\ keyed.retransmitMap = data
    BY <1>2
  <2> HIDE DEF keyed, kept, seen
  <2>5. Carried(keyed) = Carried(session)
    BY <1>3, <2>4 DEF Carried
  <2>6. /\ Cardinality(DataPackets(session'.retransmitMap)) <= Cardinality(data)
        /\ Carried(session') \subseteq Carried(keyed) /\ Lost(last) \subseteq Carried(keyed)
    <3> HIDE DEF data
    <3>1. QED
      BY <1>3, <2>2, <2>3, <2>4, PulseBounds
  <2>7. session'.outputQueue = session.outputQueue
    BY <2>2, <2>4 DEF Pulsed, NewSession
  <2>8. QED
    BY <1>1, <1>4, <2>2, <2>5, <2>6, <2>7, HandlerBounds
<1>6. CASE ~(waits /\ KeyArrives(kept))
  <2>1. session' \in {seen, kept} /\ gone' = gone
    BY <1>6 DEF OnReceiveSessionPart
  <2> HIDE DEF keyed, kept, seen
  <2>2. session'.outputQueue = session.outputQueue /\ session'.retransmitMap = data
    BY <1>2, <2>1
  <2>3. QED
    BY <1>1, <1>3, <1>4, <2>1, <2>2, SameData
<1>7. QED
  BY <1>5, <1>6

LEMMA NackBounds ==
  ASSUME KeptInv, KeptInv', QueuesInv, NEW m \in net, OnReceiveNack(m)
  PROVE  QueuesInv'
<1>1. UNCHANGED <<sending, called, gone>> /\ IsFiniteSet(session'.retransmitMap)
  BY DEF OnReceiveNack, KeptInv
<1>2. CASE session' = session
  BY <1>1, <1>2, SameData
<1>3. CASE session' # session
  <2> DEFINE hello == Hello(made + 1)
             data == DataPackets(session.retransmitMap)
             f == [d \in data |-> Data(d.payload, None)]
             emptied == {f[d] : d \in data}
  <2>1. session' = Greeted(Restarted(session))
    BY <1>3 DEF OnReceiveNack
  <2>2. emptied = {Data(d.payload, None) : d \in data}
    OBVIOUS
  <2>3. /\ session'.outputQueue = session.outputQueue
        /\ session'.retransmitMap = {Data(d.payload, None) : d \in data} \cup {hello}
    BY <2>1 DEF Greeted, Restarted, KeptInv, Shaped, NewSession
  <2>4. hello.type # "DATA" /\ \A p : Data(p, None).type = "DATA"
    BY DEF Hello, Data
  <2>5. DataPackets(session'.retransmitMap) = emptied
    BY <2>2, <2>3, <2>4 DEF DataPackets
  <2>6. Cardinality(emptied) <= Cardinality(data)
    <3>1. IsFiniteSet(data)
      BY FS_Subset DEF DataPackets, KeptInv
    <3> HIDE DEF data
    <3>2. DOMAIN f = data
      OBVIOUS
    <3> HIDE DEF f
    <3>3. QED
      BY <3>1, <3>2, MappedIsNoLarger
  <2>7. Carried(session') \subseteq Carried(session)
    <3>1. \A d \in data : f[d].payload = d.payload
      BY DEF Data
    <3>2. QED
      BY <2>5, <3>1 DEF Carried
  <2> HIDE DEF emptied, data, hello
  <2>8. QED
    BY <1>1, <2>3, <2>5, <2>6, <2>7, HandlerBounds DEF data
<1>4. QED
  BY <1>2, <1>3

LEMMA PulsingBounds ==
  ASSUME KeptInv, KeptInv', QueuesInv, NEW due \in SUBSET Due(session), Pulsing(due)
  PROVE  QueuesInv'
<1> DEFINE restart == session.state = "HANDSHAKE" /\ expired
           greeted == IF restart THEN Greeted(session) ELSE session
           data == DataPackets(session.retransmitMap)
<1>1. PICK last \in LastAttempts(due) :
        LET pulsed == Pulsed(greeted, due, last)
            n == Outputs(pulsed)
        IN  /\ session' = [pulsed EXCEPT !.outputQueue = SubSeq(@, n + 1, Len(@))]
            /\ pool' = pool \o SubSeq(pulsed.outputQueue, 1, n)
            /\ gone' = gone \cup Lost(last)
  BY DEF Pulsing
<1> DEFINE pulsed == Pulsed(greeted, due, last)
           n == Outputs(pulsed)
<1>2. UNCHANGED <<job, called>>
  BY DEF Pulsing
<1>3. /\ DOMAIN greeted = DOMAIN NewSession
      /\ greeted.outputQueue = session.outputQueue
      /\ greeted.retransmitMap \in
           {session.retransmitMap, session.retransmitMap \cup {Hello(made + 1)}}
      /\ due \in SUBSET greeted.retransmitMap
  BY DEF Greeted, KeptInv, Shaped, NewSession, Due
<1>4. DataPackets(greeted.retransmitMap) = data /\ Carried(greeted) = Carried(session)
  <2>1. Hello(made + 1).type # "DATA"
    BY DEF Hello
  <2> HIDE DEF greeted
  <2>2. DataPackets(greeted.retransmitMap) = data
    BY <1>3, <2>1 DEF DataPackets
  <2>3. QED
    BY <2>2 DEF Carried
<1>5. IsFiniteSet(greeted.retransmitMap)
  <2>1. IsFiniteSet(session.retransmitMap)
    BY DEF KeptInv
  <2>2. IsFiniteSet(session.retransmitMap \cup {Hello(made + 1)})
    BY <2>1, FS_AddElement
  <2>3. QED
    BY <1>3, <2>1, <2>2
<1> HIDE DEF greeted, restart
<1>6. /\ Cardinality(DataPackets(pulsed.retransmitMap)) <= Cardinality(data)
      /\ Carried(pulsed) \subseteq Carried(session) /\ Lost(last) \subseteq Carried(session)
  <2>1. /\ Cardinality(DataPackets(pulsed.retransmitMap))
             <= Cardinality(DataPackets(greeted.retransmitMap))
        /\ Carried(pulsed) \subseteq Carried(greeted) /\ Lost(last) \subseteq Carried(greeted)
    BY <1>3, <1>5, PulseBounds
  <2>2. QED
    BY <1>4, <2>1
<1>7. /\ IsFiniteSet(pulsed.retransmitMap) /\ DOMAIN pulsed = DOMAIN NewSession
      /\ pulsed.outputQueue = session.outputQueue
  BY <1>3, <1>5, PulseCarries
<1>8. n \in 0..Len(session.outputQueue)
  <2>1. Cardinality(pulsed.retransmitMap) \in Nat
    BY <1>7, FS_CardinalityType
  <2>2. Len(session.outputQueue) \in Nat
    BY DEF QueuesInv
  <2> HIDE DEF pulsed
  <2>3. QED
    BY <1>7, <2>1, <2>2, UdpAssumption DEF Outputs
<1> HIDE DEF n, pulsed
<1>9. /\ session'.outputQueue =
           SubSeq(session.outputQueue, n + 1, Len(session.outputQueue))
      /\ session'.retransmitMap = pulsed.retransmitMap
      /\ pool' = pool \o SubSeq(session.outputQueue, 1, n)
  BY <1>1, <1>7 DEF NewSession, pulsed, n
<1>10. pool \in Seq(called) /\ session.outputQueue \in Seq(called)
  BY DEF QueuesInv
<1>11. pool' \in Seq(called) /\ session'.outputQueue \in Seq(called)
  BY <1>8, <1>9, <1>10, QueueMoves
<1>12. Len(session'.outputQueue) <= MaxQueue
  <2>1. Len(session'.outputQueue) = Len(session.outputQueue) - n
    BY <1>8, <1>9, <1>10
  <2>2. Len(session.outputQueue) \in Nat /\ Len(session.outputQueue) <= MaxQueue
    BY <1>10 DEF QueuesInv
  <2>3. QED
    BY <1>8, <2>1, <2>2, UdpAssumption
<1>13. Cardinality(DataPackets(session'.retransmitMap)) <= Room'
  <2>1. IsFiniteSet(data) /\ IsFiniteSet(DataPackets(pulsed.retransmitMap))
    BY <1>7, FS_Subset DEF KeptInv, DataPackets
  <2>2. /\ Cardinality(data) \in Nat
        /\ Cardinality(DataPackets(pulsed.retransmitMap)) \in Nat
    BY <2>1, FS_CardinalityType
  <2>3. Room \in Nat /\ Room' = Room /\ Cardinality(data) <= Room
    BY <1>2, UdpAssumption DEF Room, QueuesInv
  <2> HIDE DEF data
  <2>4. QED
    BY <1>6, <1>9, <2>2, <2>3
<1>14. Carried(session') \subseteq called /\ gone' \subseteq called
  <2>1. Carried(session') = Carried(pulsed)
    BY <1>9 DEF Carried
  <2>2. gone' = gone \cup Lost(last)
    BY <1>1
  <2>3. QED
    BY <1>6, <2>1, <2>2 DEF QueuesInv
<1>15. QED
  BY <1>2, <1>11, <1>12, <1>13, <1>14 DEF QueuesInv

\* send takes a payload from the pool, puts it into the queue, or counts it in.
LEMMA SendBounds ==
  ASSUME KeptInv, KeptInv', QueuesInv, Send
  PROVE  QueuesInv'
<1>1. UNCHANGED called
  BY DEF Send, Take, Queue, CountIn, Seal, Post
<1>2. DOMAIN job = DOMAIN Idle /\ Idle.stage = "idle"
  BY DEF KeptInv, Idle
<1>3. MaxRetransmit \in Nat /\ Cardinality(DataPackets(session.retransmitMap)) \in Nat
  <2>1. IsFiniteSet(DataPackets(session.retransmitMap))
    BY FS_Subset DEF KeptInv, DataPackets
  <2>2. QED
    BY <2>1, FS_CardinalityType, UdpAssumption
<1>4. CASE Take
  <2>1. /\ pool # <<>> /\ pool' = Tail(pool) /\ UNCHANGED <<session, gone>>
        /\ job.stage = "idle"
        /\ job' = [stage |-> session.state, payload |-> Head(pool), key |-> None]
    BY <1>4 DEF Take
  <2>2. Head(pool) \in called /\ Tail(pool) \in Seq(called)
    BY <2>1, HeadAndTail DEF QueuesInv
  <2>3. job'.stage \in {"HANDSHAKE", "EXCHANGING"} /\ job'.payload = Head(pool)
    BY <2>1 DEF KeptInv
  <2>4. Room' = Room
    BY <2>1, <2>3 DEF Room
  <2>5. QED
    BY <1>1, <2>1, <2>2, <2>3, <2>4 DEF QueuesInv
<1>5. CASE Queue
  <2> DEFINE queue == session.outputQueue
             p == job.payload
  <2>1. /\ session' = [session EXCEPT !.outputQueue = Enqueue(@, p)]
        /\ gone' = gone \cup Dropped(queue) /\ job' = Idle /\ UNCHANGED pool
        /\ job.stage \in {"HANDSHAKE", "EXCHANGING"}
    BY <1>5 DEF Queue
  <2>2. /\ session'.outputQueue = Enqueue(queue, p)
        /\ session'.retransmitMap = session.retransmitMap
    BY <2>1 DEF KeptInv, Shaped, NewSession
  <2>3. p \in called /\ queue \in Seq(called) /\ Len(queue) <= MaxQueue
    BY <2>1 DEF QueuesInv
  <2>4. /\ Enqueue(queue, p) \in Seq(called) /\ Len(Enqueue(queue, p)) <= MaxQueue
        /\ Dropped(queue) \subseteq called
    BY <2>3, EnqueueBounds
  <2>5. Room' = Room
    BY <1>2, <2>1 DEF Room
  <2>6. QED
    BY <1>1, <1>2, <2>1, <2>2, <2>4, <2>5 DEF QueuesInv, Carried
<1>6. CASE CountIn
  <2>1. /\ UNCHANGED <<session, pool, gone>> /\ job.stage = "EXCHANGING" /\ ~Full
        /\ job' = [job EXCEPT !.stage = "seal"]
    BY <1>6 DEF CountIn
  <2>2. job'.stage = "seal" /\ job'.payload = job.payload
    BY <1>2, <2>1 DEF Idle
  <2>3. /\ Cardinality(DataPackets(session.retransmitMap))
             <= Cardinality(session.retransmitMap)
        /\ Cardinality(session.retransmitMap) \in Nat
    BY FS_Subset, FS_CardinalityType DEF KeptInv, DataPackets
  <2>4. Cardinality(DataPackets(session.retransmitMap)) <= MaxRetransmit
    BY <1>3, <2>1, <2>3 DEF Full
  <2>5. QED
    BY <1>1, <2>1, <2>2, <2>4 DEF QueuesInv, Room
<1>7. CASE Seal
  <2>1. /\ UNCHANGED <<session, pool, gone>> /\ job.stage = "seal"
        /\ job' = [job EXCEPT !.stage = "post", !.key = session.key]
    BY <1>7 DEF Seal
  <2>2. job'.stage = "post" /\ job'.payload = job.payload
    BY <1>2, <2>1 DEF Idle
  <2>3. Room' = Room
    BY <2>1, <2>2 DEF Room
  <2>4. QED
    BY <1>1, <2>1, <2>2, <2>3 DEF QueuesInv
<1>8. CASE Post
  <2> DEFINE d == Data(job.payload, job.key)
  <2>1. /\ session' = [session EXCEPT !.retransmitMap = @ \cup {d}]
        /\ job' = Idle /\ UNCHANGED <<pool, gone>> /\ job.stage = "post"
    BY <1>8 DEF Post
  <2>2. d.type = "DATA" /\ d.payload = job.payload
    BY DEF Data
  <2> HIDE DEF d
  <2>3. /\ session'.outputQueue = session.outputQueue
        /\ session'.retransmitMap = session.retransmitMap \cup {d}
    BY <2>1 DEF KeptInv, Shaped, NewSession
  <2>4. DataPackets(session'.retransmitMap) = DataPackets(session.retransmitMap) \cup {d}
    BY <2>2, <2>3 DEF DataPackets
  <2>5. IsFiniteSet(DataPackets(session.retransmitMap))
    BY FS_Subset DEF KeptInv, DataPackets
  <2>6. Cardinality(DataPackets(session'.retransmitMap))
          <= Cardinality(DataPackets(session.retransmitMap)) + 1
    <3> DEFINE data == DataPackets(session.retransmitMap)
    <3>1. IsFiniteSet(data) /\ Cardinality(data) \in Nat
      BY <1>3, <2>5
    <3> HIDE DEF data
    <3>2. Cardinality(data \cup {d}) \in {Cardinality(data), Cardinality(data) + 1}
      BY <3>1, FS_AddElement
    <3>3. Cardinality(data \cup {d}) <= Cardinality(data) + 1
      BY <3>1, <3>2
    <3>4. QED
      BY <2>4, <3>3 DEF data
  <2>7. Cardinality(DataPackets(session.retransmitMap)) <= MaxRetransmit
    BY <2>1 DEF QueuesInv, Room
  <2>8. Cardinality(DataPackets(session'.retransmitMap)) \in Nat
    BY <2>4, <2>5, FS_AddElement, FS_CardinalityType
  <2>9. Room' = MaxRetransmit + 1
    BY <1>2, <2>1 DEF Room
  <2>10. Cardinality(DataPackets(session'.retransmitMap)) <= Room'
    BY <1>3, <2>6, <2>7, <2>8, <2>9
  <2>11. job.payload \in called
    BY <2>1 DEF QueuesInv
  <2>12. Carried(session') \subseteq called
    BY <2>2, <2>4, <2>11 DEF QueuesInv, Carried
  <2>13. QED
    BY <1>1, <1>2, <2>1, <2>3, <2>10, <2>12 DEF QueuesInv
<1>9. QED
  BY <1>4, <1>5, <1>6, <1>7, <1>8 DEF Send

LEMMA QueuesStep == KeptInv /\ KeptInv' /\ QueuesInv /\ [Next]_vars => QueuesInv'
<1> SUFFICES ASSUME KeptInv, KeptInv', QueuesInv, [Next]_vars PROVE QueuesInv'
  OBVIOUS
<1>1. ASSUME UNCHANGED <<session, sending, called, gone>> PROVE QueuesInv'
  BY <1>1, SameData DEF KeptInv
<1>2. ASSUME NEW p \in Payload, Call(p) PROVE QueuesInv'
  <2>1. /\ UNCHANGED <<session, job, gone>>
        /\ called' = called \cup {p} /\ pool' = Append(pool, p)
    BY <1>2 DEF Call
  <2>2. pool \in Seq(called') /\ session.outputQueue \in Seq(called')
    BY <2>1 DEF QueuesInv
  <2>3. pool' \in Seq(called')
    BY <2>1, <2>2, AppendAdds
  <2>4. Room' = Room
    BY <2>1 DEF Room
  <2>5. QED
    BY <2>1, <2>2, <2>3, <2>4 DEF QueuesInv
<1>3. CASE Send
  BY <1>3, SendBounds
<1>4. CASE Tick
  BY <1>4, PulsingBounds DEF Tick
<1>5. CASE Retransmit
  BY <1>5, PulsingBounds DEF Retransmit
<1>6. CASE ReaderRetransmit
  BY <1>1, <1>6 DEF ReaderRetransmit
<1>7. CASE Wait \/ Reboot
  BY <1>1, <1>7 DEF Wait, Reboot
<1>8. ASSUME NEW m \in net, OnReceive(m) PROVE QueuesInv'
  <2>1. CASE OnReceiveHello(m)
    BY <1>1, <2>1 DEF OnReceiveHello
  <2>2. CASE OnReceiveWelcome(m)
    <3> DEFINE requests == {KeyReq1(made + 1, m.nonce), KeyReq2(made + 1)}
    <3>1. /\ UNCHANGED <<sending, called, gone>>
          /\ \/ session' = See(session, m)
             \/ session' = [See(session, m) EXCEPT
                              !.step = "WAIT_FOR_SESSION", !.localNonce = made + 1,
                              !.remoteNonce = m.nonce, !.parts = {},
                              !.retransmitMap = DataPackets(@) \cup requests]
      BY <2>2 DEF OnReceiveWelcome
    <3>2. /\ session'.outputQueue = session.outputQueue
          /\ session'.retransmitMap \in
               {session.retransmitMap, DataPackets(session.retransmitMap) \cup requests}
      BY <3>1 DEF See, KeptInv, Shaped, NewSession
    <3>3. \A q \in requests : q.type # "DATA"
      BY DEF KeyReq1, KeyReq2
    <3> HIDE DEF requests
    <3>4. DataPackets(session'.retransmitMap) \subseteq DataPackets(session.retransmitMap)
      BY <3>2, <3>3 DEF DataPackets
    <3>5. IsFiniteSet(session'.retransmitMap)
      BY DEF KeptInv
    <3>6. QED
      BY <3>1, <3>2, <3>4, <3>5, SameData
  <2>3. CASE OnReceiveKeyReqPart(m)
    BY <1>1, <2>3 DEF OnReceiveKeyReqPart
  <2>4. CASE OnReceiveSessionPart(m)
    BY <2>4, AnswerBounds
  <2>5. CASE OnReceiveSessionAck(m)
    BY <1>1, <2>5 DEF OnReceiveSessionAck
  <2>6. CASE OnReceiveData(m)
    BY <1>1, <2>6 DEF OnReceiveData
  <2>7. CASE OnReceiveAck(m)
    <3>1. /\ UNCHANGED <<sending, called, gone>>
          /\ \/ session' = session
             \/ session' = [session EXCEPT !.retransmitMap =
                              {q \in @ : Id(q) # Data(m.payload, None)}]
      BY <2>7 DEF OnReceiveAck
    <3>2. /\ session'.outputQueue = session.outputQueue
          /\ session'.retransmitMap \subseteq session.retransmitMap
      BY <3>1 DEF KeptInv, Shaped, NewSession
    <3>3. DataPackets(session'.retransmitMap) \subseteq DataPackets(session.retransmitMap)
      BY <3>2 DEF DataPackets
    <3>4. IsFiniteSet(session'.retransmitMap)
      BY DEF KeptInv
    <3>5. QED
      BY <3>1, <3>2, <3>3, <3>4, SameData
  <2>8. CASE OnReceiveNack(m)
    BY <2>8, NackBounds
  <2>9. CASE OnReceiveDuplicate(m)
    BY <1>1, <2>9 DEF OnReceiveDuplicate
  <2>10. QED
    BY <1>8, <2>1, <2>2, <2>3, <2>4, <2>5, <2>6, <2>7, <2>8, <2>9 DEF OnReceive
<1>9. ASSUME NEW m \in net, Lose(m) PROVE QueuesInv'
  BY <1>1, <1>9 DEF Lose
<1>10. CASE UNCHANGED vars
  BY <1>1, <1>10 DEF vars, sending
<1>11. QED
  BY <1>2, <1>3, <1>4, <1>5, <1>6, <1>7, <1>8, <1>9, <1>10 DEF Next

\* The types: nonces and keys are numbers that were made, the sender's queues keep to their
\* limits, also while a packet is counted in and not yet in the map, and all that they hold
\* was given to send.
THEOREM TransportTypeCorrect == Spec => []TypeOK
<1> DEFINE Typed == KeyInv /\ KeptInv /\ NumbersInv /\ QueuesInv
<1>1. Init => Typed
  BY KeyInit, KeptInit, NumbersInit, QueuesInit
<1>2. Typed /\ [Next]_vars => Typed'
  BY KeyStep, KeptStep, NumbersStep, QueuesStep
<1>3. Typed => TypeOK
  <2> SUFFICES ASSUME Typed PROVE TypeOK
    OBVIOUS
  <2>1. session.state \in {"HANDSHAKE", "EXCHANGING"} /\ called \subseteq Payload
    BY DEF KeptInv
  <2>2. session.localNonce \in 0..made
    BY DEF KeyInv, NoncesMade
  <2>3. pool \in Seq(Payload) /\ session.outputQueue \in Seq(Payload)
    BY DEF KeptInv
  <2>4. /\ session.step \in {"INIT", "WAIT_FOR_WELCOME", "WAIT_FOR_SESSION"}
        /\ session.remoteNonce \in 0..minted /\ session.key \in 0..minted
        /\ {expired, rested} \subseteq BOOLEAN
        /\ \A r \in {reader, candidate} :
             /\ r.key \in 0..minted /\ r.localNonce \in 0..minted
             /\ r.remoteNonce \in 0..made /\ DataPackets(r.retransmitMap) = {}
    BY DEF NumbersInv
  <2>5. Cardinality(DataPackets(session.retransmitMap)) <= MaxRetransmit + 1
    <3>1. Cardinality(DataPackets(session.retransmitMap)) \in Nat
      BY FS_Subset, FS_CardinalityType DEF KeptInv, DataPackets
    <3>2. QED
      BY <3>1, UdpAssumption DEF QueuesInv, Room
  <2>6. /\ Len(session.outputQueue) <= MaxQueue /\ gone \subseteq called
        /\ job.stage \in {"idle", "HANDSHAKE", "EXCHANGING", "seal", "post"}
        /\ job.payload \in Payload \/ job = Idle
    BY <2>1 DEF QueuesInv
  <2>7. QED
    BY <2>1, <2>2, <2>3, <2>4, <2>5, <2>6 DEF TypeOK
<1>4. QED
  BY <1>1, <1>2, <1>3, PTL DEF Spec
=============================================================================
