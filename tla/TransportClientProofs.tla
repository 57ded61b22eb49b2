------------------------- MODULE TransportClientProofs -------------------------
(***************************************************************************)
(* Theorems about Transport in the client, whose two threads share one     *)
(* socket: an ACK found in the buffer is the one write_socket then looks   *)
(* at (FoundAckKept), and no packet is handed to the program twice         *)
(* (NothingTwice), whatever the size of the buffer and however many        *)
(* requests, responses and notifications there are.                        *)
(***************************************************************************)
EXTENDS TransportFlowProofs

\* client_main.cpp starts one readThread and one writeThread on one socket.
OneEach ==
    /\ Handlers = {} /\ Notifiers = {}
    /\ \A t, x \in Requesters : t = x
    /\ \A t, x \in Receivers : t = x
    /\ \A s, x \in Sockets : s = x

-----------------------------------------------------------------------------
(* What is where in a sequence that has changed.                           *)

LEMMA AppendPlaces ==
    ASSUME NEW S, NEW seq \in Seq(S), NEW q \in S
    PROVE  /\ Append(seq, q) \in Seq(S)
           /\ Len(seq) \in Nat /\ DOMAIN seq = 1 .. Len(seq)
           /\ Len(Append(seq, q)) = Len(seq) + 1
           /\ DOMAIN Append(seq, q) = 1 .. Len(seq) + 1
           /\ \A i \in DOMAIN seq : Append(seq, q)[i] = seq[i]
           /\ Append(seq, q)[Len(seq) + 1] = q
  OBVIOUS

LEMMA TailPlaces ==
    ASSUME NEW S, NEW seq \in Seq(S), seq # <<>>
    PROVE  /\ Tail(seq) \in Seq(S)
           /\ Len(seq) \in Nat /\ DOMAIN seq = 1 .. Len(seq) /\ 1 \in DOMAIN seq
           /\ Head(seq) = seq[1]
           /\ Len(Tail(seq)) = Len(seq) - 1
           /\ DOMAIN Tail(seq) = 1 .. Len(seq) - 1
           /\ \A i \in DOMAIN Tail(seq) : i + 1 \in DOMAIN seq /\ Tail(seq)[i] = seq[i + 1]
  <1>1. Len(seq) \in Nat \ {0} /\ DOMAIN seq = 1 .. Len(seq)
      BY EmptySeq
  <1>2. QED
      BY <1>1

LEMMA RemovePlaces ==
    ASSUME NEW S, NEW seq \in Seq(S), NEW k \in 1 .. Len(seq)
    PROVE  /\ RemoveAt(seq, k) \in Seq(S)
           /\ Len(seq) \in Nat /\ DOMAIN seq = 1 .. Len(seq)
           /\ Len(RemoveAt(seq, k)) = Len(seq) - 1
           /\ DOMAIN RemoveAt(seq, k) = 1 .. Len(seq) - 1
           /\ \A i \in 1 .. Len(seq) - 1 :
                 RemoveAt(seq, k)[i] = IF i < k THEN seq[i] ELSE seq[i + 1]
  <1>1. PICK a : a = SubSeq(seq, 1, k - 1)
      OBVIOUS
  <1>2. PICK b : b = SubSeq(seq, k + 1, Len(seq))
      OBVIOUS
  <1>3. a \in Seq(S)
      BY <1>1
  <1>4. b \in Seq(S)
      BY <1>2
  <1>5. Len(a) = k - 1
      BY <1>1
  <1>6. \A i \in 1 .. k - 1 : a[i] = seq[i]
      BY <1>1
  <1>7. Len(b) = Len(seq) - k
      BY <1>2
  <1>8. \A i \in 1 .. Len(seq) - k : b[i] = seq[k + i]
      BY <1>2
  <1>9. a \o b \in Seq(S) /\ Len(a \o b) = Len(seq) - 1
      BY <1>3, <1>4, <1>5, <1>7
  <1>10. ASSUME NEW i \in 1 .. Len(seq) - 1, i < k
         PROVE  (a \o b)[i] = seq[i]
      BY <1>3, <1>4, <1>5, <1>6, <1>7, <1>10
  <1>11. ASSUME NEW i \in 1 .. Len(seq) - 1, i >= k
         PROVE  (a \o b)[i] = seq[i + 1]
    <2>1. PICK j \in 1 .. Len(seq) - k : i = j + (k - 1)
        BY <1>11
    <2>2. (a \o b)[i] = b[j]
        BY <1>3, <1>4, <1>5, <1>7, <2>1
    <2>3. b[j] = seq[k + j] /\ k + j = i + 1
        BY <1>8, <2>1
    <2>4. QED
        BY <2>2, <2>3
  <1>12. ASSUME NEW i \in 1 .. Len(seq) - 1
         PROVE  (a \o b)[i] = IF i < k THEN seq[i] ELSE seq[i + 1]
    <2>1. i < k \/ i >= k
        OBVIOUS
    <2>2. QED
        BY <1>10, <1>11, <2>1
  <1>13. a \o b = RemoveAt(seq, k)
      BY <1>1, <1>2 DEF RemoveAt
  <1>14. /\ RemoveAt(seq, k) \in Seq(S)
         /\ Len(RemoveAt(seq, k)) = Len(seq) - 1
         /\ \A i \in 1 .. Len(seq) - 1 :
               RemoveAt(seq, k)[i] = IF i < k THEN seq[i] ELSE seq[i + 1]
      BY <1>9, <1>12, <1>13
  <1>15. DOMAIN RemoveAt(seq, k) = 1 .. Len(seq) - 1
      BY <1>14
  <1>16. QED
      BY <1>14, <1>15

-----------------------------------------------------------------------------
(* The way of the newest packet's acknowledgement.                         *)

\* An ACK of the packet numbered last.
Current(q) == q.cmd = "ACK" /\ q.num + 1 = packetSeqNum
NoAckComing == \A s \in Sockets : \A i \in DOMAIN inbox[s] : inbox[s][i].cmd # "ACK"
Arrived ==
    \/ \E s \in Sockets : \E i \in DOMAIN inbox[s] : Current(inbox[s][i])
    \/ \E t \in Threads : pc[t] = "rkeep" /\ Current(pkt[t])
    \/ \E i \in DOMAIN bufferPkts : Current(bufferPkts[i])
NobodySends == \A t \in Threads : pc[t] # "send"

\* The newest packet is the last that was sent.
LastOut ==
    \A s \in Sockets : \A i \in DOMAIN outbox[s] :
       outbox[s][i].num + 1 = packetSeqNum => i = Len(outbox[s]) /\ NobodySends

\* When its ACK has arrived, nothing is on its way to the peer.
NothingOut == Arrived => NobodySends /\ \A s \in Sockets : outbox[s] = <<>>

\* It is the last ACK that comes, and the last that is kept; only write_socket
\* itself puts a packet behind it, and searches the buffer next.
LastIn ==
    \A s \in Sockets : \A i, j \in DOMAIN inbox[s] :
       Current(inbox[s][i]) /\ i < j => inbox[s][j].cmd # "ACK"
LastHeld == \A t \in Threads : pc[t] = "rkeep" /\ Current(pkt[t]) => NoAckComing
LastKept ==
    \A i \in DOMAIN bufferPkts : Current(bufferPkts[i]) =>
       /\ NoAckComing
       /\ \A t \in Threads : pc[t] # "rkeep"
       /\ \/ i = Len(bufferPkts)
          \/ /\ i + 1 = Len(bufferPkts)
             /\ ~ Current(bufferPkts[i + 1])
             /\ \A t \in Requesters : pc[t] \in {"scan", "scanning", "gone"}

Path == LastOut /\ NothingOut /\ LastIn /\ LastHeld /\ LastKept

\* A thread does its own kind of call.  The loop over the buffer ends with the
\* newest ACK, or has not come to it yet.
Doing(t) ==
    /\ pc[t] \in WriteSteps => t \in Requesters /\ pkt[t].num + 1 = packetSeqNum
    /\ pc[t] \in ReadSteps => t \in Receivers
    /\ pc[t] # "reply"
    /\ pc[t] \in {"send", "opt", "wstart", "wrecv"} => doTCPRead[t]
    /\ pc[t] = "scan" => ~ Found(t)
    /\ pc[t] = "scanning" =>
          /\ bufferPktlock = t
          /\ Found(t) => /\ Wanted(pkt[t], ackPkt[t])
                         /\ index[t] > Len(bufferPkts)
                         /\ \A i \in DOMAIN bufferPkts : ~ Current(bufferPkts[i])
          /\ ~ Found(t) => \A i \in DOMAIN bufferPkts : Current(bufferPkts[i]) => index[t] <= i
    /\ pc[t] = "judge" /\ ~ doTCPRead[t] => Wanted(pkt[t], ackPkt[t])

Newest == AckInv /\ Path /\ \A t \in Threads : Doing(t)

-----------------------------------------------------------------------------
(* What holds of the client's threads and packets in every such state.     *)

\* The ACK with the number of the packet a thread writes is the wanted one,
\* and no packet has a number that is not given yet.
LEMMA Ours ==
    ASSUME OneEach, AckInv
    PROVE  /\ Threads = Requesters \cup Receivers
           /\ \A q \in Heard : q.cmd = "ACK" => q.num < packetSeqNum
           /\ \A s \in Sockets : \A i \in DOMAIN outbox[s] : outbox[s][i].num < packetSeqNum
           /\ \A t \in Threads : pc[t] \in WriteSteps =>
                 \A q \in Heard : q.cmd = "ACK" /\ q.num = pkt[t].num => Wanted(pkt[t], q)
  <1>1. PICK own \in SUBSET Packet : Numbered(own)
      BY DEF AckInv
  <1>2. Handlers = {} /\ Notifiers = {} /\ Responses = {}
      BY DEF OneEach, Responses
  <1>3. Threads = Requesters \cup Receivers
      BY <1>2 DEF Threads
  <1>4. ASSUME NEW q \in Heard, q.cmd = "ACK"
        PROVE  \E r \in own : r \in Packet /\ q = AckOf(r) /\ q.num = r.num /\ q.tag = r.tag
    <2>1. PICK r \in peerAcked : q = AckOf(r)
        BY <1>4 DEF Heard
    <2>2. r \in own /\ r \in Packet
        BY <1>1, <1>2, <2>1 DEF Numbered
    <2>3. QED
        BY <2>1, <2>2 DEF AckOf, Packet
  <1>5. \A q \in Heard : q.cmd = "ACK" => q.num < packetSeqNum
      BY <1>1, <1>4 DEF Numbered
  <1>6. \A s \in Sockets : \A i \in DOMAIN outbox[s] : outbox[s][i].num < packetSeqNum
    <2>1. ASSUME NEW s \in Sockets, NEW i \in DOMAIN outbox[s] PROVE outbox[s][i] \in own
      <3>1. outbox[s] \in Seq(own)
          BY <1>1, <1>2 DEF Numbered
      <3>2. QED
          BY <3>1
    <2>2. QED
        BY <1>1, <2>1 DEF Numbered
  <1>7. ASSUME NEW t \in Threads, pc[t] \in WriteSteps,
               NEW q \in Heard, q.cmd = "ACK", q.num = pkt[t].num
        PROVE  Wanted(pkt[t], q)
    <2>1. pkt[t] \in own
        BY <1>1, <1>2, <1>7 DEF Numbered
    <2>2. PICK r \in own : q.num = r.num /\ q.tag = r.tag
        BY <1>4, <1>7
    <2>3. r = pkt[t]
        BY <1>1, <1>7, <2>1, <2>2 DEF Numbered
    <2>4. QED
        BY <1>7, <2>2, <2>3 DEF Wanted
  <1>8. QED
      BY <1>3, <1>5, <1>6, <1>7

\* One thread writes and one reads.
LEMMA Alone ==
    ASSUME OneEach, TypeOK, \A x \in Threads : Doing(x), NEW t \in Threads
    PROVE  /\ pc[t] \in WriteSteps =>
                 /\ \A x \in Threads \ {t} : pc[x] \notin WriteSteps
                 /\ \A x \in Requesters : x = t
                 /\ t \in Requesters /\ t \notin Receivers
                 /\ pkt[t].num + 1 = packetSeqNum
           /\ pc[t] \in ReadSteps =>
                 /\ \A x \in Threads \ {t} : pc[x] \notin ReadSteps
                 /\ \A x \in Receivers : x = t
                 /\ t \in Receivers /\ t \notin Requesters
  BY TransportAssumption DEF Doing, OneEach

\* A step of one thread leaves the others' variables alone.
LEMMA OthersSame ==
    ASSUME TypeOK, NEW t \in Threads, ThreadStep(t)
    PROVE  \A x \in Threads \ {t} :
              /\ pc'[x] \in {pc[x], "gone"}
              /\ pkt'[x] = pkt[x] /\ ackPkt'[x] = ackPkt[x] /\ index'[x] = index[x]
              /\ doTCPRead'[x] = doTCPRead[x] /\ readOK'[x] = readOK[x]
  <1> USE DEF TypeOK, localVars, netVars, peerVars, results, WriteReturns
  <1>1. CASE Call(t)
    <2>1. CASE NoResponse(t)
        BY <2>1 DEF NoResponse
    <2>2. CASE Request(t) \/ Respond(t) \/ \E s \in Sockets : Notify(t, s)
        BY <2>2 DEF Request, Respond, Notify, Begin
    <2>3. QED
        BY <1>1, <2>1, <2>2 DEF Call
  <1>2. CASE WriteStep(t)
    <2>1. CASE SendPacket(t) \/ SendFails(t) \/ ScanBegins(t) \/ ScanTurn(t)
        BY <2>1 DEF SendPacket, SendFails, ScanBegins, ScanTurn
    <2>2. CASE ScanEnds(t) \/ SetTimeout(t) \/ Judge(t) \/ WriteReadsNothing(t)
        BY <2>2 DEF ScanEnds, SetTimeout, Judge, WriteReadsNothing
    <2>3. QED
        BY <1>2, <2>1, <2>2 DEF WriteStep
  <1>3. ASSUME NEW code, ReadStops(t, code)
        PROVE  \A x \in Threads \ {t} : pc'[x] \in {pc[x], "gone"}
      BY <1>3, StopsThreads
  <1>4. CASE BeginRead(t)
      BY <1>4 DEF BeginRead
  <1>5. CASE ReadScan(t)
      BY <1>5 DEF ReadScan, ReadReturns
  <1>6. CASE ReadNothing(t)
      BY <1>3, <1>6 DEF ReadNothing
  <1>7. CASE KeepAck(t)
      BY <1>3, <1>7 DEF KeepAck
  <1>8. CASE SendAck(t)
      BY <1>3, <1>8 DEF SendAck, ReadReturns
  <1>9. CASE StartReceive(t)
      BY <1>9 DEF StartReceive
  <1>10. CASE Receive(t)
      BY <1>10 DEF Receive
  <1>11. QED
      BY <1>1, <1>2, <1>4, <1>5, <1>6, <1>7, <1>8, <1>9, <1>10 DEF ThreadStep, ReadStep

\* While a thread is in the loop over the buffer, nobody else changes it.
LEMMA LoopLocked ==
    ASSUME TypeOK, \A x \in Threads : Doing(x), NEW t \in Threads, ThreadStep(t),
           NEW x \in Threads \ {t}, pc[x] = "scanning"
    PROVE  UNCHANGED <<bufferPkts, bufferPktlock>>
  <1> USE DEF localVars, netVars, peerVars, results
  <1>1. bufferPktlock = x /\ bufferPktlock # Nobody /\ pc[t] # "scanning"
      BY TransportAssumption DEF Doing
  <1>2. CASE Call(t)
      BY <1>2 DEF Call, NoResponse, Request, Respond, Notify, Begin
  <1>3. CASE WriteStep(t)
      BY <1>1, <1>3 DEF WriteStep, SendPacket, SendFails, ScanBegins, ScanTurn, ScanEnds,
                  SetTimeout, Judge, WriteReadsNothing
  <1>4. CASE ReadStep(t) \/ StartReceive(t) \/ Receive(t)
      BY <1>1, <1>4 DEF ReadStep, BeginRead, ReadScan, ReadNothing, KeepAck, SendAck,
                  StartReceive, Receive
  <1>5. QED
      BY <1>2, <1>3, <1>4 DEF ThreadStep

\* The others go on with what they do.
LEMMA OthersDo ==
    ASSUME TypeOK, \A x \in Threads : Doing(x), NEW t \in Threads, ThreadStep(t),
           NEW x \in Threads \ {t}, packetSeqNum' = packetSeqNum
    PROVE  Doing(x)'
  <1>1. /\ pc'[x] \in {pc[x], "gone"}
        /\ pkt'[x] = pkt[x] /\ ackPkt'[x] = ackPkt[x] /\ index'[x] = index[x]
        /\ doTCPRead'[x] = doTCPRead[x] /\ readOK'[x] = readOK[x]
      BY OthersSame
  <1>2. CASE pc'[x] = "gone"
      BY <1>2 DEF Doing, WriteSteps, ReadSteps
  <1>3. CASE pc'[x] = pc[x] /\ pc[x] # "scanning"
      BY <1>1, <1>3 DEF Doing, Found
  <1>4. CASE pc'[x] = pc[x] /\ pc[x] = "scanning"
    <2>1. UNCHANGED <<bufferPkts, bufferPktlock>>
        BY <1>4, LoopLocked
    <2>2. QED
        BY <1>1, <1>4, <2>1 DEF Doing, Found, Current, WriteSteps
  <1>5. QED
      BY <1>1, <1>2, <1>3, <1>4

\* A step that moves no packet, sends none and ends no search but an empty one.
LEMMA PathStays ==
    ASSUME Path, UNCHANGED <<packetSeqNum, inbox, outbox, bufferPkts>>,
           \A x \in Threads : pc'[x] = "send" => pc[x] = "send",
           \A x \in Threads : pc'[x] = "rkeep" => pc[x] = "rkeep" /\ pkt'[x] = pkt[x],
           \/ \A i \in DOMAIN bufferPkts : ~ Current(bufferPkts[i])
           \/ \A x \in Requesters : pc[x] \in {"scan", "scanning", "gone"} =>
                                       pc'[x] \in {"scan", "scanning", "gone"}
    PROVE  Path'
  <1> USE DEF Path, NobodySends, NoAckComing, Current
  <1>1. LastOut'
      BY DEF LastOut
  <1>2. Arrived' => Arrived
      BY DEF Arrived
  <1>3. NothingOut'
      BY <1>2 DEF NothingOut
  <1>4. LastIn' /\ LastHeld'
      BY DEF LastIn, LastHeld
  <1>5. LastKept'
      BY DEF LastKept
  <1>6. QED
      BY <1>1, <1>3, <1>4, <1>5

-----------------------------------------------------------------------------
(* The steps of write_socket.                                              *)

\* A new packet has no ACK yet.
LEMMA RequestNewest ==
    ASSUME OneEach, Newest, NEW t \in Threads, Request(t)
    PROVE  Path' /\ \A x \in Threads : Doing(x)'
  <1> USE DEF netVars, peerVars
  <1>1. AckInv /\ Path /\ TypeOK /\ HeardRight /\ \A x \in Threads : Doing(x)
      BY DEF Newest, AckInv
  <1>2. PICK p : /\ p.num = packetSeqNum /\ Begin(t, SockOf[t], p)
                 /\ packetSeqNum' = packetSeqNum + 1
    <2>1. PICK g \in OwnTags :
             Begin(t, SockOf[t], [cmd |-> "REQ", num |-> packetSeqNum, tag |-> g,
                                  sock |-> SockOf[t], what |-> "REQ"])
        BY DEF Request
    <2>2. PICK p : p = [cmd |-> "REQ", num |-> packetSeqNum, tag |-> g,
                        sock |-> SockOf[t], what |-> "REQ"]
        OBVIOUS
    <2>3. p.num = packetSeqNum
        BY <2>2
    <2>4. QED
        BY <2>1, <2>2, <2>3 DEF Request, NewNumber
  <1>3. /\ UNCHANGED <<inbox, outbox, bufferPkts>>
        /\ pc' = [pc EXCEPT ![t] = "send"]
        /\ pkt' = [pkt EXCEPT ![t] = p]
        /\ doTCPRead' = [doTCPRead EXCEPT ![t] = TRUE]
        /\ pc[t] = "idle" /\ t \in Requesters
      BY <1>2 DEF Begin, Request
  <1>4. packetSeqNum \in Nat
      BY <1>1, TransportAssumption DEF TypeOK
  <1>5. \A x \in Threads \ {t} : pc'[x] = pc[x] /\ pkt'[x] = pkt[x] /\ pc[x] \notin WriteSteps
    <2>1. \A x \in Threads \ {t} : x \notin Requesters
        BY <1>3 DEF OneEach
    <2>2. QED
        BY <1>1, <1>3, <2>1 DEF TypeOK, Doing
  <1>6. \A q \in Heard : ~ Current(q)'
    <2>1. ASSUME NEW q \in Heard, Current(q)' PROVE FALSE
      <3>1. q.cmd = "ACK" /\ q.num + 1 = packetSeqNum + 1
          BY <1>2, <2>1 DEF Current
      <3>2. q.num < packetSeqNum
          BY <1>1, <3>1, Ours
      <3>3. q.num \in Nat
          BY <2>1 DEF Heard, Packet
      <3>4. QED
          BY <1>4, <3>1, <3>2, <3>3
    <2>2. QED
        BY <2>1
  <1>7. ~ Arrived'
    <2>1. \A s \in Sockets : \A i \in DOMAIN inbox[s] : inbox[s][i] \in Heard
      <3>1. \A s \in Sockets : inbox[s] \in Seq(Heard)
          BY <1>1 DEF HeardRight
      <3>2. QED
          BY <3>1, ElementOfSeq
    <2>2. \A i \in DOMAIN bufferPkts : bufferPkts[i] \in Heard
        BY <1>1 DEF HeardRight
    <2>3. \A x \in Threads : pc'[x] = "rkeep" => pkt'[x] \in Heard
        BY <1>1, <1>3, <1>5 DEF HeardRight, TypeOK
    <2>4. QED
        BY <1>3, <1>6, <2>1, <2>2, <2>3 DEF Arrived
  <1>8. LastOut'
    <2>1. ASSUME NEW s \in Sockets, NEW i \in DOMAIN outbox[s]
          PROVE  outbox[s][i].num + 1 # packetSeqNum + 1
      <3>1. outbox[s][i].num < packetSeqNum
          BY <1>1, Ours
      <3>2. outbox[s] \in Seq(Packet)
          BY <1>1 DEF TypeOK
      <3>3. outbox[s][i] \in Packet
          BY <3>2
      <3>4. outbox[s][i].num \in Nat
          BY <3>3 DEF Packet
      <3>5. QED
          BY <1>4, <3>1, <3>4
    <2>2. QED
        BY <1>2, <1>3, <2>1 DEF LastOut
  <1>9. Path'
      BY <1>7, <1>8 DEF Path, NothingOut, LastIn, LastHeld, LastKept, Arrived
  <1>10. Doing(t)'
      BY <1>1, <1>2, <1>3 DEF Doing, TypeOK, WriteSteps, ReadSteps
  <1>11. \A x \in Threads \ {t} : Doing(x)'
      BY <1>1, <1>5 DEF Doing, WriteSteps
  <1>12. QED
      BY <1>9, <1>10, <1>11

\* The packet sent is the newest, and the last on its way.
LEMMA SendNewest ==
    ASSUME OneEach, Newest, NEW t \in Threads, SendPacket(t)
    PROVE  Path' /\ Doing(t)'
  <1> USE DEF localVars, peerVars, results
  <1>1. AckInv /\ Path /\ TypeOK /\ \A x \in Threads : Doing(x)
      BY DEF Newest, AckInv
  <1>2. /\ UNCHANGED <<packetSeqNum, inbox, bufferPkts, pkt, ackPkt, doTCPRead, readOK>>
        /\ pc' = [pc EXCEPT ![t] = "scan"] /\ pc[t] = "send"
        /\ outbox' = [outbox EXCEPT ![sock[t]] = Append(@, pkt[t])]
      BY DEF SendPacket
  <1>3. /\ ~ NobodySends
        /\ NobodySends'
        /\ pkt[t].num + 1 = packetSeqNum
        /\ \A x \in Threads \ {t} : pc'[x] = pc[x]
    <2>1. \A x \in Threads \ {t} : pc'[x] = pc[x] /\ pc[x] \notin WriteSteps
      <3>1. pc[t] \in WriteSteps
          BY <1>2 DEF WriteSteps
      <3>2. \A x \in Threads \ {t} : pc[x] \notin WriteSteps
          BY <1>1, <3>1, Alone
      <3>3. \A x \in Threads \ {t} : pc'[x] = pc[x]
          BY <1>1, <1>2 DEF TypeOK
      <3>4. QED
          BY <3>2, <3>3
    <2>2. pc'[t] = "scan"
        BY <1>1, <1>2 DEF TypeOK
    <2>3. pkt[t].num + 1 = packetSeqNum
        BY <1>1, <1>2 DEF Doing, WriteSteps
    <2>4. ~ NobodySends
        BY <1>2 DEF NobodySends
    <2>5. NobodySends'
        BY <2>1, <2>2 DEF NobodySends, WriteSteps
    <2>6. QED
        BY <2>1, <2>3, <2>4, <2>5
  <1>4. ~ Arrived
      BY <1>1, <1>3 DEF Path, NothingOut
  <1>5. ~ Arrived'
      BY <1>1, <1>2, <1>3, <1>4 DEF Arrived, Current, TypeOK
  <1>6. LastOut'
    <2>1. ASSUME NEW s \in Sockets, NEW i \in DOMAIN outbox'[s],
                 outbox'[s][i].num + 1 = packetSeqNum
          PROVE  i = Len(outbox'[s])
      <3>1. outbox[s] \in Seq(Packet) /\ pkt[t] \in Packet
          BY <1>1 DEF TypeOK
      <3>2. CASE s = sock[t]
        <4>1. outbox'[s] = Append(outbox[s], pkt[t])
            BY <1>1, <1>2, <3>2 DEF TypeOK
        <4>2. i \in 1 .. Len(outbox[s]) + 1 /\ Len(outbox'[s]) = Len(outbox[s]) + 1
            BY <2>1, <3>1, <4>1, AppendPlaces
        <4>3. CASE i \in 1 .. Len(outbox[s])
          <5>1. outbox'[s][i] = outbox[s][i] /\ i \in DOMAIN outbox[s]
              BY <3>1, <4>1, <4>3
          <5>2. QED
              BY <1>1, <1>3, <2>1, <5>1 DEF Path, LastOut
        <4>4. QED
            BY <3>1, <4>2, <4>3
      <3>3. CASE s # sock[t]
        <4>1. outbox'[s] = outbox[s]
            BY <1>1, <1>2, <3>3 DEF TypeOK
        <4>2. QED
            BY <1>1, <1>3, <2>1, <4>1 DEF Path, LastOut
      <3>4. QED
          BY <3>2, <3>3
    <2>2. QED
        BY <1>2, <1>3, <2>1 DEF LastOut
  <1>7. Path'
      BY <1>5, <1>6 DEF Path, NothingOut, LastIn, LastHeld, LastKept, Arrived
  <1>8. Doing(t)'
      BY <1>1, <1>2 DEF Doing, Found, TypeOK, WriteSteps, ReadSteps
  <1>9. QED
      BY <1>7, <1>8

\* Steps of write_socket that move no packet and are outside the loop.
LEMMA QuietWriteNewest ==
    ASSUME OneEach, Newest, NEW t \in Threads,
           \/ SendFails(t) \/ ScanBegins(t) \/ SetTimeout(t) \/ WriteReadsNothing(t)
           \/ StartReceive(t)
    PROVE  Path' /\ Doing(t)'
  <1> USE DEF localVars, netVars, peerVars, results, WriteReturns
  <1>1. AckInv /\ Path /\ TypeOK /\ \A x \in Threads : Doing(x)
      BY DEF Newest, AckInv
  <1>2. UNCHANGED <<packetSeqNum, inbox, outbox, bufferPkts, pkt, ackPkt>>
      BY DEF SendFails, ScanBegins, SetTimeout, WriteReadsNothing, StartReceive
  <1>3. \A x \in Threads \ {t} : pc'[x] = pc[x]
      BY <1>1 DEF SendFails, ScanBegins, SetTimeout, WriteReadsNothing, StartReceive, TypeOK
  <1>4. CASE SendFails(t)
    <2>1. pc'[t] = "idle" /\ pc[t] = "send"
        BY <1>1, <1>4 DEF SendFails, TypeOK
    <2>2. ~ Arrived
        BY <1>1, <2>1 DEF Path, NothingOut, NobodySends
    <2>3. \A i \in DOMAIN bufferPkts : ~ Current(bufferPkts[i])
        BY <2>2 DEF Arrived
    <2>4. Path'
        BY <1>1, <1>2, <1>3, <2>1, <2>3, PathStays
    <2>5. Doing(t)'
        BY <2>1 DEF Doing, WriteSteps, ReadSteps
    <2>6. QED
        BY <2>4, <2>5
  <1>5. CASE ScanBegins(t)
    <2>1. /\ pc'[t] = "scanning" /\ pc[t] = "scan" /\ index'[t] = 1 /\ bufferPktlock' = t
          /\ UNCHANGED <<doTCPRead, readOK>>
        BY <1>1, <1>5 DEF ScanBegins, TypeOK
    <2>2. Path'
      <3>1. \A x \in Requesters : pc[x] \in {"scan", "scanning", "gone"} =>
                                       pc'[x] \in {"scan", "scanning", "gone"}
          BY <1>3, <2>1 DEF Threads
      <3>2. QED
          BY <1>1, <1>2, <1>3, <2>1, <3>1, PathStays
    <2>3. \A i \in DOMAIN bufferPkts : 1 <= i
      <3>1. bufferPkts \in Seq(Packet)
          BY <1>1 DEF TypeOK
      <3>2. QED
          BY <3>1
    <2>4. Doing(t)'
        BY <1>1, <1>2, <2>1, <2>3 DEF Doing, Found, WriteSteps, ReadSteps
    <2>5. QED
        BY <2>2, <2>4
  <1>6. CASE SetTimeout(t) \/ WriteReadsNothing(t) \/ (StartReceive(t) /\ pc[t] = "wstart")
    <2>1. pc[t] \in {"opt", "wrecv", "wstart"} /\ pc'[t] \in {"wstart", "idle", "scan", "wrecv"}
        BY <1>1, <1>6 DEF SetTimeout, WriteReadsNothing, StartReceive, TypeOK
    <2>2. pc'[t] \in {"wstart", "wrecv"} => doTCPRead'[t]
        BY <1>1, <1>6 DEF SetTimeout, WriteReadsNothing, StartReceive, TypeOK, Doing
    <2>3. pc'[t] = "scan" => ~ readOK'[t]
        BY <1>1, <1>6 DEF SetTimeout, WriteReadsNothing, StartReceive, TypeOK
    <2>4. \A x \in Requesters : x = t
        BY <1>1, <2>1, Alone DEF WriteSteps
    <2>5. Path'
        BY <1>1, <1>2, <1>3, <2>1, <2>4, PathStays
    <2>6. Doing(t)'
        BY <1>1, <1>2, <2>1, <2>2, <2>3 DEF Doing, Found, WriteSteps, ReadSteps
    <2>7. QED
        BY <2>5, <2>6
  <1>7. CASE StartReceive(t) /\ pc[t] = "rstart"
    <2>1. pc'[t] = "rrecv" /\ UNCHANGED doTCPRead
        BY <1>1, <1>7 DEF StartReceive, TypeOK
    <2>2. Path'
      <3>1. \A x \in Requesters : pc[x] \in {"scan", "scanning", "gone"} =>
                                       pc'[x] \in {"scan", "scanning", "gone"}
          BY <1>3, <1>7 DEF Threads
      <3>2. QED
          BY <1>1, <1>2, <1>3, <1>7, <2>1, <3>1, PathStays
    <2>3. Doing(t)'
        BY <1>1, <1>7, <2>1 DEF Doing, WriteSteps, ReadSteps
    <2>4. QED
        BY <2>2, <2>3
  <1>8. QED
      BY <1>4, <1>5, <1>6, <1>7 DEF StartReceive

\* A turn of the loop passes the newest packet's ACK only by taking it, and
\* then no turn is left.
LEMMA ScanTurnNewest ==
    ASSUME OneEach, Newest, NEW t \in Threads, ScanTurn(t)
    PROVE  Path' /\ Doing(t)'
  <1> USE DEF localVars, netVars, peerVars, results
  <1> DEFINE k == index[t]
             q == bufferPkts[k]
             n == Len(bufferPkts)
  <1>1. AckInv /\ Path /\ TypeOK /\ HeardRight /\ \A x \in Threads : Doing(x)
      BY DEF Newest, AckInv
  <1>2. bufferPkts \in Seq(Packet) /\ n \in Nat /\ DOMAIN bufferPkts = 1 .. n /\ k \in 1 .. n
    <2>1. bufferPkts \in Seq(Packet) /\ k \in Nat \ {0} /\ k <= Len(bufferPkts)
        BY <1>1 DEF ScanTurn, TypeOK
    <2>2. QED
        BY <2>1
  <1>3. /\ UNCHANGED <<packetSeqNum, inbox, outbox, pc, pkt, bufferPktlock>>
        /\ pc[t] = "scanning" /\ t \in Requesters /\ bufferPktlock = t
        /\ ackPkt'[t] = q /\ index'[t] = k + 1
      BY <1>1 DEF ScanTurn, TypeOK, Doing, WriteSteps
  <1>4. pkt[t].num + 1 = packetSeqNum /\ q \in Heard
    <2>1. pkt[t].num + 1 = packetSeqNum
        BY <1>1, <1>3 DEF Doing, WriteSteps
    <2>2. bufferPkts \in Seq(Heard)
        BY <1>1 DEF HeardRight
    <2>3. QED
        BY <1>2, <2>1, <2>2
  <1>5. ~ Found(t) /\ \A i \in 1 .. n : Current(bufferPkts[i]) => k <= i
      BY <1>1, <1>2, <1>3 DEF Doing
  <1>6. Current(q) <=> Wanted(pkt[t], q)
    <2>1. q.cmd = "ACK" /\ q.num = pkt[t].num => Wanted(pkt[t], q)
        BY <1>1, <1>3, <1>4, Ours DEF WriteSteps
    <2>2. q.num \in Nat /\ pkt[t].num \in Nat
        BY <1>1, <1>4 DEF TypeOK, Packet, Heard
    <2>3. q.num + 1 = packetSeqNum <=> q.num = pkt[t].num
        BY <1>4, <2>2
    <2>4. QED
        BY <2>1, <2>3 DEF Current, Wanted
  <1>7. CASE ~ Wanted(pkt[t], q)
    <2>1. UNCHANGED <<bufferPkts, doTCPRead, readOK>>
        BY <1>7 DEF ScanTurn
    <2>2. Path'
        BY <1>1, <1>3, <2>1, PathStays
    <2>3. \A i \in 1 .. n : Current(bufferPkts[i]) => k + 1 <= i
      <3>1. \A i \in 1 .. n : Current(bufferPkts[i]) => i # k
          BY <1>6, <1>7
      <3>2. k \in Nat
          BY <1>2
      <3> HIDE DEF k, q
      <3>3. QED
          BY <1>2, <1>5, <3>1, <3>2
    <2>4. Doing(t)'
      <3>1. ~ Found(t)'
          BY <1>5, <2>1 DEF Found
      <3>2. (\A i \in DOMAIN bufferPkts : Current(bufferPkts[i]) => index[t] <= i)'
          BY <1>2, <1>3, <2>1, <2>3 DEF Current
      <3>3. QED
          BY <1>1, <1>3, <2>1, <3>1, <3>2 DEF Doing, WriteSteps, ReadSteps
    <2>5. QED
        BY <2>2, <2>4
  <1>8. CASE Wanted(pkt[t], q)
    <2>1. /\ bufferPkts' = RemoveAt(bufferPkts, k)
          /\ ~ doTCPRead'[t] /\ readOK'[t]
        BY <1>1, <1>8 DEF ScanTurn, TypeOK
    <2>2. /\ Len(bufferPkts') = n - 1 /\ DOMAIN bufferPkts' = 1 .. n - 1
          /\ \A i \in 1 .. n - 1 :
                bufferPkts'[i] = IF i < k THEN bufferPkts[i] ELSE bufferPkts[i + 1]
        BY <1>2, <2>1, RemovePlaces
    <2>3. \A i \in 1 .. n : Current(bufferPkts[i]) =>
             \/ i = n
             \/ i + 1 = n /\ ~ Current(bufferPkts[i + 1])
        BY <1>1, <1>2 DEF Path, LastKept
    <2>4. Current(bufferPkts[k])
        BY <1>6, <1>8
    <2>5. \A i \in 1 .. n : i # k => ~ Current(bufferPkts[i])
      <3>1. k = n \/ (k + 1 = n /\ ~ Current(bufferPkts[k + 1]))
          BY <1>2, <2>3, <2>4
      <3> HIDE DEF k, n
      <3>2. ASSUME NEW i \in 1 .. n, i # k, Current(bufferPkts[i]) PROVE FALSE
        <4>1. i = n \/ (i + 1 = n /\ ~ Current(bufferPkts[i + 1]))
            BY <2>3, <3>2
        <4>2. CASE i = n
          <5>1. k + 1 = i
              BY <3>1, <3>2, <4>2
          <5>2. QED
              BY <3>1, <3>2, <4>2, <5>1
        <4>3. CASE i + 1 = n
          <5>1. k = n
              BY <1>2, <3>1, <3>2, <4>3
          <5>2. QED
              BY <2>4, <3>2, <4>1, <4>3, <5>1
        <4>4. QED
            BY <4>1, <4>2, <4>3
      <3>3. QED
          BY <3>2
    <2>6. (\A i \in DOMAIN bufferPkts : ~ Current(bufferPkts[i]))'
      <3>1. ASSUME NEW i \in 1 .. n - 1 PROVE ~ Current(bufferPkts'[i])
        <4> HIDE DEF k, n
        <4>1. CASE i < k
            BY <1>2, <2>2, <2>5, <4>1
        <4>2. CASE i >= k
          <5>1. PICK j \in 1 .. n : j = i + 1
              BY <1>2
          <5>2. bufferPkts'[i] = bufferPkts[j] /\ j # k
              BY <1>2, <2>2, <4>2, <5>1
          <5>3. QED
              BY <2>5, <5>2
        <4>3. QED
            BY <1>2, <4>1, <4>2
      <3>2. QED
          BY <1>3, <2>2, <3>1 DEF Current
    <2>7. Arrived' => Arrived
        BY <1>3, <2>6 DEF Arrived, Current
    <2>8. Path'
      <3>1. LastOut' /\ LastIn' /\ LastHeld' /\ NothingOut'
          BY <1>1, <1>3, <2>7 DEF Path, LastOut, LastIn, LastHeld, NothingOut, NobodySends,
                                  NoAckComing, Current
      <3>2. LastKept'
          BY <2>6 DEF LastKept
      <3>3. QED
          BY <3>1, <3>2 DEF Path
    <2>9. Doing(t)'
      <3>1. index'[t] > Len(bufferPkts')
        <4> HIDE DEF k, n
        <4>1. QED
            BY <1>2, <1>3, <2>2, <2>3, <2>4
      <3>2. Wanted(pkt'[t], ackPkt'[t]) /\ Found(t)'
          BY <1>3, <1>8, <2>1 DEF Found
      <3>3. QED
          BY <1>1, <1>3, <2>6, <3>1, <3>2 DEF Doing, WriteSteps, ReadSteps
    <2>10. QED
        BY <2>8, <2>9
  <1>9. QED
      BY <1>7, <1>8

\* When the loop is over, the newest packet's ACK was found, or is not there.
LEMMA ScanEndsNewest ==
    ASSUME OneEach, Newest, NEW t \in Threads, ScanEnds(t)
    PROVE  Path' /\ Doing(t)'
  <1> USE DEF localVars, netVars, peerVars, results, WriteReturns
  <1>1. AckInv /\ Path /\ TypeOK /\ \A x \in Threads : Doing(x)
      BY DEF Newest, AckInv
  <1>2. /\ UNCHANGED <<packetSeqNum, inbox, outbox, bufferPkts, pkt, ackPkt, doTCPRead, readOK>>
        /\ pc[t] = "scanning" /\ index[t] > Len(bufferPkts)
      BY DEF ScanEnds
  <1>3. /\ \A x \in Threads \ {t} : pc'[x] = pc[x]
        /\ pc'[t] \in {"opt", "judge", "idle"}
        /\ pc'[t] = "opt" => doTCPRead[t]
        /\ pc'[t] = "judge" => Found(t)
      BY <1>1 DEF ScanEnds, TypeOK, Found
  <1>4. \A i \in DOMAIN bufferPkts : ~ Current(bufferPkts[i])
    <2>1. CASE Found(t)
        BY <1>1, <1>2, <2>1 DEF Doing
    <2>2. CASE ~ Found(t)
      <3>1. ASSUME NEW i \in DOMAIN bufferPkts, index[t] <= i PROVE FALSE
        <4>1. bufferPkts \in Seq(Packet) /\ index[t] \in Nat
            BY <1>1 DEF TypeOK
        <4>2. QED
            BY <1>2, <3>1, <4>1
      <3>2. QED
          BY <1>1, <1>2, <2>2, <3>1 DEF Doing
    <2>3. QED
        BY <2>1, <2>2
  <1>5. Path'
      BY <1>1, <1>2, <1>3, <1>4, PathStays
  <1>6. Doing(t)'
      BY <1>1, <1>2, <1>3 DEF Doing, WriteSteps, ReadSteps
  <1>7. QED
      BY <1>5, <1>6

\* An unwanted packet is no ACK of the newest packet, and the search that
\* follows comes to what is before it.
LEMMA JudgeNewest ==
    ASSUME OneEach, Newest, NEW t \in Threads, Judge(t)
    PROVE  Path' /\ Doing(t)'
  <1> USE DEF localVars, netVars, peerVars, results, WriteReturns
  <1>1. AckInv /\ Path /\ TypeOK /\ HeardRight /\ \A x \in Threads : Doing(x)
      BY DEF Newest, AckInv
  <1>2. /\ UNCHANGED <<packetSeqNum, inbox, outbox, pkt, ackPkt, doTCPRead, readOK>>
        /\ pc[t] = "judge"
        /\ pc' = [pc EXCEPT ![t] = "scan"] \/ pc' = [pc EXCEPT ![t] = "idle"]
      BY DEF Judge
  <1>3. /\ \A x \in Threads \ {t} : pc'[x] = pc[x]
        /\ pc'[t] \in {"scan", "idle"}
        /\ \A x \in Requesters : x = t
      BY <1>1, <1>2, Alone DEF TypeOK, WriteSteps
  <1>4. \A i \in DOMAIN bufferPkts : Current(bufferPkts[i]) => i = Len(bufferPkts)
      BY <1>1, <1>2, <1>3, Alone DEF Path, LastKept, WriteSteps
  <1>5. CASE UNCHANGED bufferPkts /\ pc'[t] = "idle"
    <2>1. \A x \in Requesters : pc[x] \notin {"scan", "scanning", "gone"}
        BY <1>2, <1>3
    <2>2. Path'
        BY <1>1, <1>2, <1>3, <1>5, <2>1, PathStays
    <2>3. Doing(t)'
        BY <1>5 DEF Doing, WriteSteps, ReadSteps
    <2>4. QED
        BY <2>2, <2>3
  <1>6. CASE /\ ackPkt[t].cmd # "ACK" \/ ackPkt[t].num # pkt[t].num
             /\ bufferPkts' = Append(bufferPkts, ackPkt[t])
             /\ pc' = [pc EXCEPT ![t] = "scan"]
    <2> DEFINE n == Len(bufferPkts)
    <2>1. bufferPkts \in Seq(Packet) /\ ackPkt[t] \in Packet /\ n \in Nat
        BY <1>1 DEF TypeOK
    <2>2. /\ Len(bufferPkts') = n + 1 /\ DOMAIN bufferPkts' = 1 .. n + 1
          /\ DOMAIN bufferPkts = 1 .. n
          /\ \A i \in 1 .. n : bufferPkts'[i] = bufferPkts[i]
          /\ bufferPkts'[n + 1] = ackPkt[t]
        BY <1>6, <2>1, AppendPlaces
    <2>3. ~ Current(ackPkt[t])
      <3>1. pkt[t].num + 1 = packetSeqNum /\ pkt[t].num \in Nat /\ ackPkt[t].num \in Nat
          BY <1>1, <1>2, <2>1 DEF Doing, WriteSteps, TypeOK, Packet
      <3>2. QED
          BY <1>6, <3>1 DEF Current
    <2>4. doTCPRead[t]
        BY <1>1, <1>2, <1>6 DEF Doing, Wanted
    <2>5. \A i \in 1 .. n + 1 : Current(bufferPkts'[i]) =>
             i = n /\ i \in DOMAIN bufferPkts /\ Current(bufferPkts[i])
      <3> HIDE DEF n
      <3>1. ASSUME NEW i \in 1 .. n + 1, Current(bufferPkts'[i])
            PROVE  i = n /\ i \in DOMAIN bufferPkts /\ Current(bufferPkts[i])
        <4>1. i # n + 1
            BY <2>2, <2>3, <3>1
        <4>2. i \in 1 .. n
            BY <2>1, <4>1
        <4>3. QED
            BY <1>4, <2>2, <3>1, <4>2 DEF n
      <3>2. QED
          BY <3>1
    <2>6. Arrived' => Arrived
        BY <1>2, <1>3, <2>2, <2>5 DEF Arrived, Current
    <2>7. pc'[t] = "scan"
        BY <1>1, <1>6 DEF TypeOK
    <2>8. LastOut' /\ LastIn' /\ LastHeld' /\ NothingOut'
        BY <1>1, <1>2, <1>3, <2>6 DEF Path, LastOut, LastIn, LastHeld, NothingOut, NobodySends,
                                NoAckComing, Current
    <2>9. LastKept'
      <3>1. ASSUME NEW i \in 1 .. n + 1, Current(bufferPkts'[i])
            PROVE  /\ NoAckComing
                   /\ \A x \in Threads : pc[x] # "rkeep"
                   /\ i + 1 = Len(bufferPkts') /\ ~ Current(bufferPkts'[i + 1])
        <4>1. i = n /\ i \in DOMAIN bufferPkts /\ Current(bufferPkts[i])
            BY <2>5, <3>1
        <4>2. QED
            BY <1>1, <2>2, <2>3, <4>1 DEF Path, LastKept
      <3>2. QED
          BY <1>2, <1>3, <2>2, <2>7, <3>1 DEF LastKept, NoAckComing, Current, Threads
    <2>10. Doing(t)'
        BY <1>1, <1>2, <2>4, <2>7 DEF Doing, Found, WriteSteps, ReadSteps
    <2>11. QED
        BY <2>8, <2>9, <2>10 DEF Path
  <1>7. QED
    <2>1. \/ /\ ackPkt[t].cmd # "ACK" \/ ackPkt[t].num # pkt[t].num
             /\ bufferPkts' = Append(bufferPkts, ackPkt[t])
             /\ pc' = [pc EXCEPT ![t] = "scan"]
          \/ UNCHANGED bufferPkts /\ pc' = [pc EXCEPT ![t] = "idle"]
        BY DEF Judge
    <2>2. pc' = [pc EXCEPT ![t] = "idle"] => pc'[t] = "idle"
        BY <1>1 DEF TypeOK
    <2>3. QED
        BY <1>5, <1>6, <2>1, <2>2

-----------------------------------------------------------------------------
(* The steps of read_socket.                                               *)

\* A read begins or ends and no packet moves but to the program.
LEMMA QuietReadNewest ==
    ASSUME OneEach, Newest, NEW t \in Threads, BeginRead(t) \/ ReadNothing(t) \/ SendAck(t)
    PROVE  Path' /\ Doing(t)'
  <1> USE DEF localVars, netVars, peerVars, results
  <1>1. AckInv /\ Path /\ TypeOK /\ \A x \in Threads : Doing(x)
      BY DEF Newest, AckInv
  <1>2. UNCHANGED <<packetSeqNum, inbox, outbox, bufferPkts>>
      BY DEF BeginRead, ReadNothing, SendAck
  <1>3. t \notin Handlers
      BY DEF OneEach
  <1>4. /\ pc[t] \in {"idle", "rrecv", "rack"} /\ pc'[t] \in {"rscan", "idle", "gone"}
        /\ \A x \in Threads \ {t} : pc'[x] \in {pc[x], "gone"} /\ pkt'[x] = pkt[x]
    <2>1. ASSUME NEW code, ReadStops(t, code) PROVE pc'[t] \in {"idle", "gone"}
        BY <1>1, <2>1, StopsThreads
    <2>2. pc[t] \in {"idle", "rrecv", "rack"} /\ pc'[t] \in {"rscan", "idle", "gone"}
      <3>1. CASE BeginRead(t)
          BY <1>1, <3>1 DEF BeginRead, TypeOK
      <3>2. CASE ReadNothing(t)
          BY <2>1, <3>2 DEF ReadNothing
      <3>3. CASE SendAck(t)
          BY <1>1, <1>3, <2>1, <3>3 DEF SendAck, ReadReturns, TypeOK
      <3>4. QED
          BY <3>1, <3>2, <3>3
    <2>3. ThreadStep(t)
        BY DEF ThreadStep, ReadStep
    <2>4. QED
        BY <1>1, <2>2, <2>3, OthersSame
  <1>5. pc'[t] = "rscan" => t \in Receivers
    <2>1. BeginRead(t) => t \in Receivers
        BY <1>3 DEF BeginRead
    <2>2. ASSUME NEW code, ReadStops(t, code) PROVE pc'[t] # "rscan"
        BY <1>1, <2>2, StopsThreads
    <2>3. ReadNothing(t) \/ SendAck(t) => pc'[t] # "rscan"
        BY <1>1, <2>2 DEF ReadNothing, SendAck, ReadReturns, TypeOK
    <2>4. QED
        BY <2>1, <2>3
  <1>6. Path'
    <2>1. \A x \in Threads : /\ pc'[x] = "send" => pc[x] = "send"
                             /\ pc'[x] = "rkeep" => pc[x] = "rkeep" /\ pkt'[x] = pkt[x]
        BY <1>4
    <2>2. \A x \in Requesters : pc[x] \in {"scan", "scanning", "gone"} =>
                                   pc'[x] \in {"scan", "scanning", "gone"}
        BY <1>4 DEF Threads
    <2>3. QED
        BY <1>1, <1>2, <2>1, <2>2, PathStays
  <1>7. Doing(t)'
      BY <1>4, <1>5 DEF Doing, WriteSteps, ReadSteps
  <1>8. QED
      BY <1>6, <1>7

\* A packet taken out of the buffer is no ACK, and what was behind it moves up.
LEMMA ReadScanNewest ==
    ASSUME OneEach, Newest, NEW t \in Threads, ReadScan(t)
    PROVE  Path' /\ Doing(t)'
  <1> USE DEF localVars, netVars, peerVars, results
  <1>1. AckInv /\ Path /\ TypeOK /\ \A x \in Threads : Doing(x)
      BY DEF Newest, AckInv
  <1>2. /\ UNCHANGED <<packetSeqNum, inbox, outbox, bufferPktlock>>
        /\ pc[t] = "rscan" /\ t \notin Handlers
        /\ \A x \in Threads \ {t} : pc'[x] = pc[x] /\ pkt'[x] = pkt[x]
        /\ pc'[t] \in {"idle", "rstart"}
      BY <1>1 DEF ReadScan, ReadReturns, OneEach, TypeOK
  <1>3. Doing(t)'
      BY <1>1, <1>2 DEF Doing, WriteSteps, ReadSteps
  <1>4. CASE UNCHANGED bufferPkts
    <2>1. \A x \in Requesters : pc[x] \in {"scan", "scanning", "gone"} =>
                                   pc'[x] \in {"scan", "scanning", "gone"}
        BY <1>2 DEF Threads
    <2>2. QED
        BY <1>1, <1>2, <1>3, <1>4, <2>1, PathStays
  <1>5. ASSUME NEW k \in DOMAIN bufferPkts, bufferPkts[k].cmd # "ACK",
               bufferPkts' = RemoveAt(bufferPkts, k)
        PROVE  Path'
    <2> DEFINE n == Len(bufferPkts)
    <2>1. bufferPkts \in Seq(Packet) /\ n \in Nat /\ DOMAIN bufferPkts = 1 .. n /\ k \in 1 .. n
        BY <1>1, <1>5 DEF TypeOK
    <2>2. /\ Len(bufferPkts') = n - 1 /\ DOMAIN bufferPkts' = 1 .. n - 1
          /\ \A i \in 1 .. n - 1 :
                bufferPkts'[i] = IF i < k THEN bufferPkts[i] ELSE bufferPkts[i + 1]
        BY <1>5, <2>1, RemovePlaces
    <2>3. ~ Current(bufferPkts[k])
        BY <1>5 DEF Current
    <2>4. \A i \in 1 .. n : Current(bufferPkts[i]) =>
             /\ NoAckComing
             /\ \A x \in Threads : pc[x] # "rkeep"
             /\ \/ i = n
                \/ /\ i + 1 = n
                   /\ ~ Current(bufferPkts[i + 1])
                   /\ \A x \in Requesters : pc[x] \in {"scan", "scanning", "gone"}
        BY <1>1, <2>1 DEF Path, LastKept
    <2>5. ASSUME NEW i \in 1 .. n - 1, Current(bufferPkts'[i])
          PROVE  /\ NoAckComing
                 /\ \A x \in Threads : pc[x] # "rkeep"
                 /\ \/ i = n - 1
                    \/ /\ i + 1 = n - 1
                       /\ ~ Current(bufferPkts'[i + 1])
                       /\ \A x \in Requesters : pc[x] \in {"scan", "scanning", "gone"}
      <3> HIDE DEF n
      <3>1. CASE i < k
        <4>1. Current(bufferPkts[i])
            BY <2>2, <2>5, <3>1
        <4>2. i # n /\ i \in 1 .. n
            BY <2>1
        <4>3. i + 1 = n
            BY <2>4, <4>1, <4>2
        <4>4. i = n - 1
            BY <2>1, <4>3
        <4>5. QED
            BY <2>4, <4>1, <4>2, <4>4
      <3>2. CASE i >= k
        <4>1. PICK j \in 1 .. n : j = i + 1
            BY <2>1
        <4>2. Current(bufferPkts[j])
            BY <2>1, <2>2, <2>5, <3>2, <4>1
        <4>3. CASE j = n
          <5>1. i = n - 1
              BY <2>1, <4>1, <4>3
          <5>2. QED
              BY <2>4, <4>2, <5>1
        <4>4. CASE j # n
          <5>1. j + 1 = n /\ ~ Current(bufferPkts[j + 1])
              BY <2>4, <4>2, <4>4
          <5>2. i + 1 = n - 1 /\ i + 1 \in 1 .. n - 1 /\ ~ (i + 1 < k)
              BY <2>1, <3>2, <4>1, <5>1
          <5>3. bufferPkts'[i + 1] = bufferPkts[j + 1]
              BY <2>2, <4>1, <5>2
          <5>4. QED
              BY <2>4, <4>2, <4>4, <5>1, <5>2, <5>3
        <4>5. QED
            BY <4>3, <4>4
      <3>3. QED
          BY <2>1, <3>1, <3>2
    <2>6. LastKept'
      <3> HIDE DEF n
      <3>1. \A x \in Requesters : pc'[x] = pc[x] \/ pc'[x] \in {"idle", "rstart"}
          BY <1>2 DEF Threads
      <3>2. \A x \in Requesters : pc[x] \in {"scan", "scanning", "gone"} => pc'[x] = pc[x]
          BY <1>2 DEF Threads
      <3>3. \A x \in Threads : pc'[x] = "rkeep" => pc[x] = "rkeep"
          BY <1>2
      <3>4. QED
          BY <1>2, <2>2, <2>5, <3>2, <3>3 DEF LastKept, NoAckComing, Current
    <2>7. Arrived' => Arrived
      <3>1. ASSUME NEW i \in 1 .. n - 1, Current(bufferPkts'[i])
            PROVE  \E j \in DOMAIN bufferPkts : Current(bufferPkts[j])
        <4> HIDE DEF n
        <4>1. PICK j \in 1 .. n : j = i + 1
            BY <2>1
        <4>2. bufferPkts'[i] = bufferPkts[i] \/ bufferPkts'[i] = bufferPkts[j]
            BY <2>2, <4>1
        <4>3. i \in 1 .. n
            BY <2>1
        <4>4. QED
            BY <2>1, <3>1, <4>2, <4>3
      <3>2. QED
          BY <1>2, <2>2, <3>1 DEF Arrived, Current
    <2>8. LastOut' /\ LastIn' /\ LastHeld' /\ NothingOut'
        BY <1>1, <1>2, <2>7 DEF Path, LastOut, LastIn, LastHeld, NothingOut, NobodySends,
                                NoAckComing, Current
    <2>9. QED
        BY <2>6, <2>8 DEF Path
  <1>6. QED
    <2>1. \/ UNCHANGED bufferPkts
          \/ \E k \in DOMAIN bufferPkts : /\ bufferPkts[k].cmd # "ACK"
                                          /\ bufferPkts' = RemoveAt(bufferPkts, k)
        BY DEF ReadScan
    <2>2. UNCHANGED bufferPkts => Path'
        BY <1>4
    <2>3. QED
        BY <1>3, <1>5, <2>1, <2>2

\* The newest packet's ACK is kept when no other is coming.
LEMMA KeepAckNewest ==
    ASSUME OneEach, Newest, NEW t \in Threads, KeepAck(t)
    PROVE  Path' /\ Doing(t)'
  <1> USE DEF localVars, netVars, peerVars, results
  <1>1. AckInv /\ Path /\ TypeOK /\ \A x \in Threads : Doing(x)
      BY DEF Newest, AckInv
  <1>2. /\ UNCHANGED <<packetSeqNum, inbox, outbox, pkt>>
        /\ pc[t] = "rkeep"
        /\ \A x \in Threads \ {t} : pc'[x] = pc[x]
        /\ pc'[t] \in {"idle", "gone", "rstart"}
    <2>1. CASE pc' = [pc EXCEPT ![t] = "rstart"]
        BY <1>1, <2>1 DEF KeepAck, TypeOK
    <2>2. CASE ReadStops(t, "-4")
        BY <1>1, <2>2, StopsThreads DEF KeepAck
    <2>3. QED
        BY <2>1, <2>2 DEF KeepAck
  <1>3. \A x \in Threads : pc'[x] # "rkeep"
      BY <1>1, <1>2, Alone DEF ReadSteps
  <1>4. Doing(t)'
      BY <1>1, <1>2 DEF Doing, WriteSteps, ReadSteps
  <1>5. \A i \in DOMAIN bufferPkts : ~ Current(bufferPkts[i])
      BY <1>1, <1>2 DEF Path, LastKept
  <1>6. CASE UNCHANGED bufferPkts
      BY <1>1, <1>2, <1>3, <1>4, <1>5, <1>6, PathStays
  <1>7. CASE bufferPkts' = Append(bufferPkts, pkt[t])
    <2> DEFINE n == Len(bufferPkts)
    <2>1. bufferPkts \in Seq(Packet) /\ pkt[t] \in Packet /\ n \in Nat
        BY <1>1 DEF TypeOK
    <2>2. /\ Len(bufferPkts') = n + 1 /\ DOMAIN bufferPkts' = 1 .. n + 1
          /\ DOMAIN bufferPkts = 1 .. n
          /\ \A i \in 1 .. n : bufferPkts'[i] = bufferPkts[i]
          /\ bufferPkts'[n + 1] = pkt[t]
        BY <1>7, <2>1, AppendPlaces
    <2>3. \A i \in 1 .. n + 1 : Current(bufferPkts'[i]) => i = n + 1 /\ Current(pkt[t])
      <3> HIDE DEF n
      <3>1. ASSUME NEW i \in 1 .. n + 1, Current(bufferPkts'[i]) PROVE i = n + 1
        <4>1. i \notin 1 .. n
            BY <1>5, <2>2, <3>1
        <4>2. QED
            BY <2>1, <4>1
      <3>2. QED
          BY <2>2, <3>1
    <2>4. Arrived' => Arrived
        BY <1>2, <1>3, <2>2, <2>3 DEF Arrived, Current
    <2>5. LastOut' /\ LastIn' /\ LastHeld' /\ NothingOut'
        BY <1>1, <1>2, <1>3, <2>4 DEF Path, LastOut, LastIn, LastHeld, NothingOut, NobodySends,
                                      NoAckComing, Current
    <2>6. Current(pkt[t]) => NoAckComing
        BY <1>1, <1>2 DEF Path, LastHeld
    <2>7. LastKept'
        BY <1>2, <1>3, <2>2, <2>3, <2>6 DEF LastKept, NoAckComing, Current
    <2>8. QED
        BY <1>4, <2>5, <2>7 DEF Path
  <1>8. QED
    <2>1. UNCHANGED bufferPkts \/ bufferPkts' = Append(bufferPkts, pkt[t])
        BY DEF KeepAck
    <2>2. QED
        BY <1>6, <1>7, <2>1

\* When the newest packet's ACK is received, no other is left on the socket.
LEMMA ReceiveNewest ==
    ASSUME OneEach, Newest, NEW t \in Threads, Receive(t)
    PROVE  Path' /\ Doing(t)'
  <1> USE DEF localVars, peerVars, results
  <1> DEFINE u == sock[t]
             q == Head(inbox[u])
             n == Len(inbox[u])
  <1>1. AckInv /\ Path /\ TypeOK /\ \A x \in Threads : Doing(x)
      BY DEF Newest, AckInv
  <1>2. u \in Sockets /\ inbox[u] \in Seq(Packet) /\ inbox[u] # <<>>
      BY <1>1 DEF Receive, TypeOK
  <1>3. /\ n \in Nat /\ DOMAIN inbox[u] = 1 .. n /\ 1 \in 1 .. n /\ q = inbox[u][1]
        /\ DOMAIN Tail(inbox[u]) = 1 .. n - 1
        /\ \A i \in 1 .. n - 1 : i + 1 \in 1 .. n /\ Tail(inbox[u])[i] = inbox[u][i + 1]
      BY <1>2, TailPlaces
  <1>4. /\ inbox' = [inbox EXCEPT ![u] = Tail(inbox[u])]
        /\ UNCHANGED <<packetSeqNum, outbox, bufferPkts, doTCPRead>>
      BY DEF Receive
  <1> HIDE DEF q, u, n
  <1>5. /\ \A x \in Threads \ {t} : pc'[x] = pc[x] /\ pkt'[x] = pkt[x]
        /\ \/ pc[t] = "wrecv" /\ pc'[t] = "judge" /\ pkt'[t] = pkt[t]
           \/ pc[t] = "rrecv" /\ pc'[t] = "rack" /\ q.cmd # "ACK"
           \/ pc[t] = "rrecv" /\ pc'[t] = "rkeep" /\ q.cmd = "ACK" /\ pkt'[t] = q
    <2>1. \/ pc[t] = "wrecv" /\ pc' = [pc EXCEPT ![t] = "judge"] /\ pkt' = pkt
          \/ /\ pc[t] = "rrecv" /\ pkt' = [pkt EXCEPT ![t] = q]
             /\ pc' = [pc EXCEPT ![t] = IF q.cmd = "ACK" THEN "rkeep" ELSE "rack"]
        BY DEF Receive, q, u
    <2>2. QED
        BY <1>1, <2>1 DEF TypeOK
  <1>6. \A s \in Sockets : s = u
      BY <1>2 DEF OneEach
  <1>7. \A s \in Sockets : \A i \in DOMAIN inbox'[s] :
           i + 1 \in DOMAIN inbox[s] /\ i + 1 > 1 /\ inbox'[s][i] = inbox[s][i + 1]
    <2>1. inbox'[u] = Tail(inbox[u])
        BY <1>1, <1>2, <1>4 DEF TypeOK
    <2>2. \A i \in 1 .. n - 1 : i + 1 > 1
        BY <1>3
    <2>3. QED
        BY <1>3, <1>6, <2>1, <2>2
  <1>8. NoAckComing => NoAckComing'
      BY <1>7 DEF NoAckComing
  <1>9. Doing(t)'
      BY <1>1, <1>4, <1>5 DEF Doing, WriteSteps, ReadSteps
  <1>10. \A x \in Threads : pc'[x] = "send" => pc[x] = "send"
      BY <1>5
  <1>11. Arrived' => Arrived
    <2>1. ASSUME NEW s \in Sockets, NEW i \in DOMAIN inbox'[s], Current(inbox'[s][i])
          PROVE  Arrived
      <3>1. i + 1 \in DOMAIN inbox[s] /\ Current(inbox[s][i + 1])
          BY <1>7, <2>1
      <3>2. QED
          BY <3>1 DEF Arrived
    <2>2. ASSUME NEW x \in Threads, pc'[x] = "rkeep", Current(pkt'[x]) PROVE Arrived
      <3>1. CASE x = t
        <4>1. Current(inbox[u][1]) /\ 1 \in DOMAIN inbox[u]
            BY <1>3, <1>5, <2>2, <3>1
        <4>2. QED
            BY <1>2, <4>1 DEF Arrived
      <3>2. CASE x # t
          BY <1>5, <2>2, <3>2 DEF Arrived
      <3>3. QED
          BY <3>1, <3>2
    <2>3. QED
        BY <1>4, <2>1, <2>2 DEF Arrived, Current
  <1>12. LastOut' /\ NothingOut'
      BY <1>1, <1>4, <1>10, <1>11 DEF Path, LastOut, NothingOut, NobodySends
  <1>13. LastIn'
    <2>1. ASSUME NEW s \in Sockets, NEW i \in DOMAIN inbox'[s], NEW j \in DOMAIN inbox'[s],
                 Current(inbox'[s][i]), i < j
          PROVE  inbox'[s][j].cmd # "ACK"
      <3>1. /\ i + 1 \in DOMAIN inbox[s] /\ Current(inbox[s][i + 1])
            /\ j + 1 \in DOMAIN inbox[s] /\ inbox'[s][j] = inbox[s][j + 1]
          BY <1>7, <2>1
      <3>2. i + 1 < j + 1
        <4>1. inbox'[s] \in Seq(Packet)
            BY <1>2, <1>4, <1>6, <1>1 DEF TypeOK
        <4>2. i \in Nat /\ j \in Nat
            BY <4>1
        <4>3. QED
            BY <2>1, <4>2
      <3>3. QED
          BY <1>1, <3>1, <3>2 DEF Path, LastIn
    <2>2. QED
        BY <1>4, <2>1 DEF LastIn, Current
  <1>14. LastHeld'
    <2>1. ASSUME NEW x \in Threads, pc'[x] = "rkeep", Current(pkt'[x]) PROVE NoAckComing'
      <3>1. CASE x = t
        <4>1. Current(inbox[u][1]) /\ 1 \in DOMAIN inbox[u]
            BY <1>3, <1>5, <2>1, <3>1
        <4>2. ASSUME NEW s \in Sockets, NEW i \in DOMAIN inbox'[s]
              PROVE  inbox'[s][i].cmd # "ACK"
          <5>1. i + 1 \in DOMAIN inbox[s] /\ i + 1 > 1 /\ inbox'[s][i] = inbox[s][i + 1]
              BY <1>7
          <5>2. s = u
              BY <1>6
          <5>3. inbox[u][i + 1].cmd # "ACK"
              BY <1>1, <1>2, <4>1, <5>1, <5>2 DEF Path, LastIn
          <5>4. QED
              BY <5>1, <5>2, <5>3
        <4>3. QED
            BY <4>2 DEF NoAckComing
      <3>2. CASE x # t
          BY <1>1, <1>5, <1>8, <2>1, <3>2 DEF Path, LastHeld
      <3>3. QED
          BY <3>1, <3>2
    <2>2. QED
        BY <1>4, <2>1 DEF LastHeld, Current
  <1>15. LastKept'
    <2>1. ASSUME NEW i \in DOMAIN bufferPkts, Current(bufferPkts[i])
          PROVE  /\ NoAckComing'
                 /\ \A x \in Threads : pc'[x] # "rkeep"
                 /\ \/ i = Len(bufferPkts)
                    \/ /\ i + 1 = Len(bufferPkts)
                       /\ ~ Current(bufferPkts[i + 1])
                       /\ \A x \in Requesters : pc'[x] \in {"scan", "scanning", "gone"}
      <3>1. /\ NoAckComing /\ \A x \in Threads : pc[x] # "rkeep"
            /\ \/ i = Len(bufferPkts)
               \/ /\ i + 1 = Len(bufferPkts)
                  /\ ~ Current(bufferPkts[i + 1])
                  /\ \A x \in Requesters : pc[x] \in {"scan", "scanning", "gone"}
          BY <1>1, <2>1 DEF Path, LastKept
      <3>2. q.cmd # "ACK"
          BY <1>2, <1>3, <3>1 DEF NoAckComing
      <3>3. \A x \in Threads : pc'[x] # "rkeep"
          BY <1>5, <3>1, <3>2
      <3>4. \A x \in Requesters : pc[x] \in {"scan", "scanning", "gone"} => pc'[x] = pc[x]
          BY <1>5 DEF Threads
      <3>5. QED
          BY <1>8, <3>1, <3>3, <3>4
    <2>2. QED
        BY <1>4, <2>1 DEF LastKept, Current
  <1>16. QED
      BY <1>9, <1>12, <1>13, <1>14, <1>15 DEF Path

-----------------------------------------------------------------------------
(* The steps of the server, and the theorem.                               *)

\* The ACK of the newest packet is sent when no other packet is on its way, and
\* is the last that comes.
LEMMA PeerAcksNewest ==
    ASSUME OneEach, Newest, NEW s \in Sockets, PeerAcks(s) \/ PeerBuffers(s)
    PROVE  Path'
  <1> USE DEF localVars, results
  <1> DEFINE h == Head(outbox[s])
             n == Len(outbox[s])
             m == Len(inbox[s])
  <1>1. AckInv /\ Path /\ TypeOK
      BY DEF Newest, AckInv
  <1>2. /\ outbox[s] \in Seq(Packet) /\ outbox[s] # <<>>
        /\ UNCHANGED <<packetSeqNum, pc, pkt, bufferPkts>>
        /\ outbox' = [outbox EXCEPT ![s] = Tail(outbox[s])]
        /\ inbox' = inbox \/ inbox' = [inbox EXCEPT ![s] = Append(inbox[s], AckOf(h))]
      BY <1>1 DEF PeerAcks, PeerBuffers, PeerTakes, ProcessUnchanged, TypeOK
  <1>3. /\ n \in Nat /\ DOMAIN outbox[s] = 1 .. n /\ 1 \in 1 .. n /\ h = outbox[s][1]
        /\ Len(Tail(outbox[s])) = n - 1
        /\ DOMAIN Tail(outbox[s]) = 1 .. n - 1
        /\ \A i \in 1 .. n - 1 : i + 1 \in 1 .. n /\ Tail(outbox[s])[i] = outbox[s][i + 1]
      BY <1>2, TailPlaces
  <1>4. h \in Packet /\ AckOf(h) \in Packet /\ AckOf(h).num = h.num
    <2>1. h \in Packet
        BY <1>2, <1>3
    <2>2. QED
        BY <2>1, CopiesTyped DEF AckOf, Packet
  <1> HIDE DEF h, n
  <1>5. \A x \in Sockets : x = s
      BY DEF OneEach
  <1>6. outbox'[s] = Tail(outbox[s])
      BY <1>1, <1>2 DEF TypeOK
  <1>7. LastOut'
    <2>1. ASSUME NEW i \in 1 .. n - 1, outbox'[s][i].num + 1 = packetSeqNum
          PROVE  i = n - 1 /\ NobodySends
      <3>1. i + 1 \in DOMAIN outbox[s] /\ outbox[s][i + 1].num + 1 = packetSeqNum
          BY <1>3, <1>6, <2>1
      <3>2. i + 1 = n /\ NobodySends
          BY <1>1, <3>1 DEF Path, LastOut, n
      <3>3. QED
          BY <1>3, <3>2
    <2>2. QED
        BY <1>2, <1>3, <1>5, <1>6, <2>1 DEF LastOut, NobodySends
  <1>8. ~ Arrived
      BY <1>1, <1>2 DEF Path, NothingOut
  <1>9. /\ inbox[s] \in Seq(Packet) /\ m \in Nat /\ DOMAIN inbox[s] = 1 .. m
        /\ \A i \in 1 .. m : ~ Current(inbox[s][i])
      BY <1>1, <1>8 DEF Arrived, TypeOK
  <1>10. \A i \in DOMAIN inbox'[s] :
            \/ i \in 1 .. m /\ inbox'[s][i] = inbox[s][i]
            \/ i = m + 1 /\ inbox'[s][i] = AckOf(h)
    <2>1. CASE inbox' = inbox
        BY <1>9, <2>1
    <2>2. CASE inbox' = [inbox EXCEPT ![s] = Append(inbox[s], AckOf(h))]
      <3>1. inbox'[s] = Append(inbox[s], AckOf(h))
          BY <1>1, <2>2 DEF TypeOK
      <3>2. /\ DOMAIN inbox'[s] = 1 .. m + 1 /\ inbox'[s][m + 1] = AckOf(h)
            /\ \A i \in 1 .. m : inbox'[s][i] = inbox[s][i]
          BY <1>4, <1>9, <3>1, AppendPlaces
      <3>3. \A i \in 1 .. m + 1 : i \in 1 .. m \/ i = m + 1
          BY <1>9
      <3>4. QED
          BY <3>2, <3>3
    <2>3. QED
        BY <1>2, <2>1, <2>2
  <1>11. \A i \in DOMAIN inbox'[s] : Current(inbox'[s][i]) =>
            i = m + 1 /\ outbox'[s] = <<>> /\ NobodySends
    <2>1. ASSUME NEW i \in DOMAIN inbox'[s], Current(inbox'[s][i])
          PROVE  i = m + 1 /\ outbox'[s] = <<>> /\ NobodySends
      <3>1. i = m + 1 /\ h.num + 1 = packetSeqNum
          BY <1>4, <1>9, <1>10, <2>1 DEF Current
      <3>2. 1 = n /\ NobodySends
          BY <1>1, <1>3, <3>1 DEF Path, LastOut, n
      <3>3. Tail(outbox[s]) \in Seq(Packet)
          BY <1>2, TailPlaces
      <3>4. n - 1 = 0
          BY <3>2
      <3>5. Len(Tail(outbox[s])) = 0
          BY <1>3, <3>4
      <3>6. outbox'[s] = <<>>
        <4>1. Tail(outbox[s]) = <<>>
            BY <3>3, <3>5, EmptySeq
        <4>2. QED
            BY <1>6, <4>1
      <3>7. QED
          BY <3>1, <3>2, <3>6
    <2>2. QED
        BY <2>1
  <1>12. NothingOut'
    <2>1. Arrived' => \E i \in DOMAIN inbox'[s] : Current(inbox'[s][i])
        BY <1>2, <1>5, <1>8 DEF Arrived, Current
    <2>2. QED
        BY <1>2, <1>5, <1>11, <2>1 DEF NothingOut, NobodySends
  <1>13. LastIn'
    <2>1. ASSUME NEW i \in DOMAIN inbox'[s], NEW j \in DOMAIN inbox'[s],
                 Current(inbox'[s][i]), i < j
          PROVE  FALSE
      <3>1. i = m + 1
          BY <1>11, <2>1
      <3>2. j \in 1 .. m \/ j = m + 1
          BY <1>10
      <3>3. QED
          BY <1>9, <2>1, <3>1, <3>2
    <2>2. QED
        BY <1>2, <1>5, <2>1 DEF LastIn, Current
  <1>14. LastHeld' /\ LastKept'
      BY <1>2, <1>8 DEF LastHeld, LastKept, Arrived, Current
  <1>15. QED
      BY <1>7, <1>12, <1>13, <1>14 DEF Path

\* A packet of the server's own changes nothing about ACKs.
LEMMA PeerSaysNewest ==
    ASSUME OneEach, Newest, NEW q \in Packet, q.cmd # "ACK", PeerSays(q.sock, q)
    PROVE  Path'
  <1> USE DEF localVars, results
  <1> DEFINE s == q.sock
             m == Len(inbox[s])
  <1>1. AckInv /\ Path /\ TypeOK /\ s \in Sockets
      BY DEF Newest, AckInv, Packet
  <1>2. /\ UNCHANGED <<packetSeqNum, pc, pkt, bufferPkts, outbox>>
        /\ inbox' = [inbox EXCEPT ![s] = Append(inbox[s], q)]
      BY DEF PeerSays, ProcessUnchanged
  <1>3. \A x \in Sockets : x = s
      BY <1>1 DEF OneEach
  <1>4. inbox[s] \in Seq(Packet) /\ m \in Nat /\ DOMAIN inbox[s] = 1 .. m
      BY <1>1 DEF TypeOK
  <1>5. /\ DOMAIN inbox'[s] = 1 .. m + 1 /\ inbox'[s][m + 1] = q
        /\ \A i \in 1 .. m : inbox'[s][i] = inbox[s][i]
    <2>1. inbox'[s] = Append(inbox[s], q)
        BY <1>1, <1>2 DEF TypeOK
    <2>2. QED
        BY <1>4, <2>1, AppendPlaces
  <1> HIDE DEF s, m
  <1>6. \A i \in 1 .. m + 1 : inbox'[s][i].cmd = "ACK" =>
           i \in DOMAIN inbox[s] /\ inbox'[s][i] = inbox[s][i]
    <2>1. \A i \in 1 .. m + 1 : i \in 1 .. m \/ i = m + 1
        BY <1>4
    <2>2. QED
        BY <1>4, <1>5, <2>1
  <1>7. NoAckComing => NoAckComing'
      BY <1>1, <1>3, <1>5, <1>6 DEF NoAckComing
  <1>8. Arrived' => Arrived
      BY <1>1, <1>2, <1>3, <1>5, <1>6 DEF Arrived, Current
  <1>9. LastOut' /\ NothingOut'
      BY <1>1, <1>2, <1>8 DEF Path, LastOut, NothingOut, NobodySends
  <1>10. LastIn'
    <2>1. ASSUME NEW i \in 1 .. m + 1, NEW j \in 1 .. m + 1,
                 Current(inbox'[s][i]), i < j
          PROVE  inbox'[s][j].cmd # "ACK"
      <3>1. i \in DOMAIN inbox[s] /\ Current(inbox[s][i])
          BY <1>6, <2>1 DEF Current
      <3>2. QED
          BY <1>1, <1>6, <2>1, <3>1 DEF Path, LastIn
    <2>2. \A x \in Sockets : DOMAIN inbox'[x] = 1 .. m + 1 /\ inbox'[x] = inbox'[s]
        BY <1>3, <1>5
    <2>3. packetSeqNum' = packetSeqNum
        BY <1>2
    <2>4. QED
        BY <2>1, <2>2, <2>3 DEF LastIn, Current
  <1>11. LastHeld' /\ LastKept'
      BY <1>1, <1>2, <1>7 DEF Path, LastHeld, LastKept, Current
  <1>12. QED
      BY <1>9, <1>10, <1>11 DEF Path

LEMMA PeerNewest ==
    ASSUME OneEach, Newest, PeerStep
    PROVE  Path' /\ \A x \in Threads : Doing(x)'
  <1> USE DEF localVars, results
  <1>1. TypeOK /\ Path /\ \A x \in Threads : Doing(x)
      BY DEF Newest, AckInv
  <1>2. UNCHANGED <<packetSeqNum, bufferPkts, bufferPktlock, pc, localVars>>
      BY DEF PeerStep, PeerAcks, PeerBuffers, PeerSends, PeerCloses, PeerResponds,
             PeerTakes, PeerSays, ProcessUnchanged
  <1>3. \A x \in Threads : Doing(x)'
      BY <1>1, <1>2 DEF Doing, Found, Current, Wanted
  <1>4. ASSUME NEW s \in Sockets, PeerCloses(s) PROVE Path'
    <2>1. UNCHANGED <<inbox, outbox>>
        BY <1>4 DEF PeerCloses
    <2>2. \A x \in Requesters : pc'[x] = pc[x]
        BY <1>2
    <2>3. QED
        BY <1>1, <1>2, <2>1, <2>2, PathStays
  <1>5. Path'
      BY <1>1, <1>4, PeerSaysPacket, PeerAcksNewest, PeerSaysNewest
  <1>6. QED
      BY <1>3, <1>5

LEMMA NewestKept ==
    ASSUME OneEach, Newest, [Next]_vars
    PROVE  Newest'
  <1>1. AckInv /\ TypeOK /\ Path /\ \A x \in Threads : Doing(x)
      BY Ours DEF Newest, AckInv
  <1>2. AckInv'
      BY <1>1, StepAck
  <1>3. CASE UNCHANGED vars
    <2>1. UNCHANGED <<packetSeqNum, inbox, outbox, bufferPkts, bufferPktlock, pc, localVars>>
        BY <1>3 DEF vars, netVars
    <2>2. Path'
        BY <1>1, <2>1, PathStays DEF localVars
    <2>3. \A x \in Threads : Doing(x)'
        BY <1>1, <2>1 DEF Doing, Found, Current, Wanted, localVars
    <2>4. QED
        BY <1>2, <2>2, <2>3 DEF Newest
  <1>4. ASSUME NEW t \in Threads, ThreadStep(t) PROVE Path' /\ \A x \in Threads : Doing(x)'
    <2>1. ASSUME Path', Doing(t)', packetSeqNum' = packetSeqNum
          PROVE  Path' /\ \A x \in Threads : Doing(x)'
      <3>1. \A x \in Threads \ {t} : Doing(x)'
          BY <1>1, <1>4, <2>1, OthersDo
      <3>2. QED
          BY <2>1, <3>1
    <2>2. CASE Request(t)
        BY <2>2, RequestNewest
    <2>3. ~ Respond(t) /\ ~ NoResponse(t) /\ \A s \in Sockets : ~ Notify(t, s)
        BY <1>1 DEF Respond, NoResponse, Notify, OneEach, Doing
    <2>4. CASE WriteStep(t)
      <3>1. packetSeqNum' = packetSeqNum
          BY <2>4 DEF WriteStep, SendPacket, SendFails, ScanBegins, ScanTurn, ScanEnds,
                      SetTimeout, Judge, WriteReadsNothing
      <3>2. Path' /\ Doing(t)'
          BY <2>4, SendNewest, QuietWriteNewest, ScanTurnNewest, ScanEndsNewest, JudgeNewest
             DEF WriteStep
      <3>3. QED
          BY <2>1, <3>1, <3>2
    <2>5. CASE ReadStep(t) \/ StartReceive(t) \/ Receive(t)
      <3>1. packetSeqNum' = packetSeqNum
          BY <2>5 DEF ReadStep, BeginRead, ReadScan, ReadNothing, KeepAck, SendAck,
                      StartReceive, Receive
      <3>2. Path' /\ Doing(t)'
          BY <2>5, QuietReadNewest, ReadScanNewest, KeepAckNewest, QuietWriteNewest,
             ReceiveNewest DEF ReadStep
      <3>3. QED
          BY <2>1, <3>1, <3>2
    <2>6. QED
        BY <1>4, <2>2, <2>3, <2>4, <2>5 DEF ThreadStep, Call
  <1>5. CASE Next
    <2>1. Path' /\ \A x \in Threads : Doing(x)'
        BY <1>4, <1>5, PeerNewest DEF Next, ThreadStep
    <2>2. QED
        BY <1>2, <2>1 DEF Newest
  <1>6. QED
      BY <1>3, <1>5

LEMMA InitNewest == Init => Newest
  <1> SUFFICES ASSUME Init PROVE Newest
      OBVIOUS
  <1>1. AckInv
      BY InitAck
  <1>2. Path
      BY DEF Init, Path, LastOut, NothingOut, LastIn, LastHeld, LastKept, Arrived
  <1>3. \A t \in Threads : Doing(t)
      BY DEF Init, Doing, WriteSteps, ReadSteps
  <1>4. QED
      BY <1>1, <1>2, <1>3 DEF Newest

\* In the client, an ACK that write_socket finds in the buffer is still in
\* ackPkt when the loop, which goes on, is over: the ACK of the newest packet
\* is last in the buffer, or has one packet behind it that takes its place.
THEOREM KeepsFoundAck == ASSUME OneEach PROVE Spec => []FoundAckKept
  <1>1. Newest /\ [Next]_vars => Newest'
      BY NewestKept
  <1>2. Newest => FoundAckKept
      BY DEF Newest, Doing, FoundAckKept
  <1>3. QED
      BY InitNewest, <1>1, <1>2, PTL DEF Spec

-----------------------------------------------------------------------------
(* The server answers a request once, and sends no packet twice.           *)

Answers == {q \in peerSaid : q.cmd = "RSP"}

\* Responses have the numbers of requests, notifications those of the server;
\* a number is on its way in one packet, or owed, or answered.
SaidRight ==
    /\ \A q \in peerSaid : q.cmd \in {"NOTE", "RSP"}
    /\ \A q \in peerSaid : q.cmd = "NOTE" => q.num < peerSent[q.sock]
    /\ \A q \in Answers : q.num < packetSeqNum
OwedOnce ==
    /\ \A q \in owed : q.num < packetSeqNum
    /\ \A q, r \in owed : q.num = r.num => q = r
    /\ \A q \in Answers : \A r \in owed : q.num # r.num
OutOnce ==
    \A s \in Sockets : \A i \in DOMAIN outbox[s] :
       /\ \A j \in DOMAIN outbox[s] : outbox[s][j].num = outbox[s][i].num => i = j
       /\ \A q \in owed \cup Answers : q.num # outbox[s][i].num
SendsOnce ==
    \A t \in Threads : pc[t] = "send" =>
       /\ \A q \in owed \cup Answers : q.num # pkt[t].num
       /\ \A s \in Sockets : \A i \in DOMAIN outbox[s] : outbox[s][i].num # pkt[t].num
Fresh == SaidRight /\ OwedOnce /\ OutOnce /\ SendsOnce

\* Only Request and SendPacket number a packet or put one on its way.
LEMMA OthersSend ==
    ASSUME OneEach, Newest, NEW t \in Threads, ThreadStep(t), ~ Request(t), ~ SendPacket(t)
    PROVE  /\ UNCHANGED <<packetSeqNum, outbox, peerSent, owed, peerSaid>>
           /\ \A x \in Threads : pc'[x] = "send" => pc[x] = "send" /\ pkt'[x] = pkt[x]
  <1> USE DEF localVars, netVars, peerVars, results
  <1>1. TypeOK /\ Doing(t)
      BY DEF Newest, AckInv
  <1>2. ~ Respond(t) /\ ~ NoResponse(t) /\ \A s \in Sockets : ~ Notify(t, s)
      BY <1>1 DEF Respond, NoResponse, Notify, OneEach, Doing
  <1>3. CASE SendFails(t) \/ ScanBegins(t) \/ ScanTurn(t)
      BY <1>1, <1>3 DEF SendFails, ScanBegins, ScanTurn, WriteReturns, TypeOK
  <1>4. CASE ScanEnds(t) \/ SetTimeout(t) \/ Judge(t) \/ WriteReadsNothing(t)
      BY <1>1, <1>4 DEF ScanEnds, SetTimeout, Judge, WriteReadsNothing, WriteReturns, TypeOK
  <1>5. CASE BeginRead(t)
      BY <1>1, <1>5 DEF BeginRead, TypeOK
  <1>6. CASE ReadScan(t)
    <2>1. UNCHANGED <<packetSeqNum, outbox, peerSent, owed, peerSaid>> /\ pc[t] # "send"
        BY <1>6 DEF ReadScan
    <2>2. \A x \in Threads \ {t} : pc'[x] = pc[x] /\ pkt'[x] = pkt[x]
        BY <1>1, <1>6 DEF ReadScan, ReadReturns, TypeOK
    <2>3. pc'[t] # "send"
        BY <1>1, <1>6 DEF ReadScan, ReadReturns, TypeOK
    <2>4. QED
        BY <2>1, <2>2, <2>3
  <1>7. ASSUME NEW code, ReadStops(t, code), pkt' = pkt
        PROVE  \A x \in Threads : pc'[x] = "send" => pc[x] = "send" /\ pkt'[x] = pkt[x]
      BY <1>1, <1>7, StopsThreads
  <1>8. CASE ReadNothing(t)
      BY <1>7, <1>8 DEF ReadNothing
  <1>9. CASE KeepAck(t)
    <2>1. UNCHANGED <<packetSeqNum, outbox, peerSent, owed, peerSaid, pkt>>
        BY <1>9 DEF KeepAck
    <2>2. CASE pc' = [pc EXCEPT ![t] = "rstart"]
        BY <1>1, <2>1, <2>2 DEF TypeOK
    <2>3. QED
        BY <1>7, <1>9, <2>1, <2>2 DEF KeepAck
  <1>10. CASE SendAck(t)
    <2>1. UNCHANGED <<packetSeqNum, outbox, peerSent, owed, peerSaid>> /\ pc[t] # "send"
        BY <1>10 DEF SendAck
    <2>2. CASE ReadReturns(t, pkt[t])
        BY <1>1, <2>1, <2>2 DEF ReadReturns, TypeOK
    <2>3. QED
        BY <1>7, <1>10, <2>1, <2>2 DEF SendAck
  <1>11. CASE StartReceive(t)
      BY <1>1, <1>11 DEF StartReceive, TypeOK
  <1>12. CASE Receive(t)
    <2>1. /\ UNCHANGED <<packetSeqNum, outbox, peerSent, owed, peerSaid>>
          /\ \A x \in Threads \ {t} : pc'[x] = pc[x] /\ pkt'[x] = pkt[x]
          /\ pc'[t] # "send"
        BY <1>1, <1>12 DEF Receive, TypeOK
    <2>2. QED
        BY <2>1
  <1>13. QED
      BY <1>2, <1>3, <1>4, <1>5, <1>6, <1>8, <1>9, <1>10, <1>11, <1>12
         DEF ThreadStep, Call, WriteStep, ReadStep

LEMMA FreshStays ==
    ASSUME Fresh, UNCHANGED <<packetSeqNum, outbox, peerSent, owed, peerSaid>>,
           \A x \in Threads : pc'[x] = "send" => pc[x] = "send" /\ pkt'[x] = pkt[x]
    PROVE  Fresh'
  <1>1. Answers' = Answers
      BY DEF Answers
  <1>2. SaidRight' /\ OwedOnce' /\ OutOnce'
      BY <1>1 DEF Fresh, SaidRight, OwedOnce, OutOnce
  <1>3. SendsOnce'
      BY <1>1 DEF Fresh, SendsOnce
  <1>4. QED
      BY <1>2, <1>3 DEF Fresh

LEMMA FreshRequest ==
    ASSUME OneEach, Newest, Fresh, NEW t \in Threads, Request(t)
    PROVE  Fresh'
  <1> USE DEF netVars, peerVars
  <1>1. TypeOK /\ AckInv /\ \A x \in Threads : Doing(x)
      BY DEF Newest, AckInv
  <1>2. /\ UNCHANGED <<outbox, peerSent, owed, peerSaid, Answers>>
        /\ packetSeqNum' = packetSeqNum + 1
        /\ pc' = [pc EXCEPT ![t] = "send"]
        /\ t \in Requesters /\ pc[t] = "idle"
      BY DEF Request, Begin, NewNumber, Answers
  <1>3. pkt'[t].num = packetSeqNum /\ packetSeqNum \in Nat
      BY <1>1, TransportAssumption DEF Request, Begin, TypeOK
  <1>4. \A s \in Sockets : \A i \in DOMAIN outbox[s] : outbox[s][i].num < packetSeqNum
      BY <1>1, Ours
  <1>5. ASSUME NEW q \in owed \cup Answers
        PROVE  q.num < packetSeqNum /\ q.num \in Nat
    <2>1. q \in Packet
        BY <1>1 DEF Answers, TypeOK
    <2>2. QED
        BY <2>1 DEF Packet, Fresh, SaidRight, OwedOnce
  <1>6. SaidRight' /\ OwedOnce' /\ OutOnce'
    <2>1. SaidRight' /\ OwedOnce'
        BY <1>2, <1>3, <1>5 DEF Fresh, SaidRight, OwedOnce
    <2>2. OutOnce'
        BY <1>2 DEF Fresh, OutOnce
    <2>3. QED
        BY <2>1, <2>2
  <1>7. \A x \in Threads : pc'[x] = "send" => x = t
      BY <1>1, <1>2 DEF TypeOK, Doing, WriteSteps, OneEach
  <1>8. /\ \A q \in owed \cup Answers : q.num # pkt'[t].num
        /\ \A s \in Sockets : \A i \in DOMAIN outbox[s] : outbox[s][i].num # pkt'[t].num
      BY <1>3, <1>4, <1>5
  <1>9. SendsOnce'
      BY <1>2, <1>7, <1>8 DEF SendsOnce
  <1>10. QED
      BY <1>6, <1>9 DEF Fresh

LEMMA FreshSend ==
    ASSUME OneEach, Newest, Fresh, NEW t \in Threads, SendPacket(t)
    PROVE  Fresh'
  <1> USE DEF localVars, peerVars
  <1>1. TypeOK /\ \A x \in Threads : Doing(x)
      BY DEF Newest, AckInv
  <1>2. /\ UNCHANGED <<packetSeqNum, peerSent, owed, peerSaid, Answers, pkt>>
        /\ pc[t] = "send" /\ pc' = [pc EXCEPT ![t] = "scan"]
      BY DEF SendPacket, Answers
  <1>3. PICK s \in Sockets : s = sock[t]
      BY <1>1 DEF TypeOK
  <1>4. PICK p \in Packet : p = pkt[t]
      BY <1>1 DEF TypeOK
  <1>5. outbox'[s] = Append(outbox[s], p) /\ outbox[s] \in Seq(Packet)
      BY <1>1, <1>3, <1>4 DEF SendPacket, TypeOK
  <1>6. /\ Len(outbox[s]) \in Nat /\ DOMAIN outbox[s] = 1 .. Len(outbox[s])
        /\ DOMAIN outbox'[s] = 1 .. Len(outbox[s]) + 1
        /\ \A i \in DOMAIN outbox[s] : outbox'[s][i] = outbox[s][i]
        /\ outbox'[s][Len(outbox[s]) + 1] = p
      BY <1>5, AppendPlaces
  <1>7. /\ \A q \in owed \cup Answers : q.num # p.num
        /\ \A i \in DOMAIN outbox[s] : outbox[s][i].num # p.num
      BY <1>2, <1>4 DEF Fresh, SendsOnce
  <1>8. \A x \in Sockets : x = s
      BY DEF OneEach
  <1>9. SaidRight' /\ OwedOnce'
      BY <1>2 DEF Fresh, SaidRight, OwedOnce
  <1>10. OutOnce'
    <2>1. \A i \in DOMAIN outbox'[s] : i \in DOMAIN outbox[s] \/ i = Len(outbox[s]) + 1
        BY <1>6
    <2>2. ASSUME NEW i \in DOMAIN outbox'[s]
          PROVE  \A q \in owed \cup Answers : q.num # outbox'[s][i].num
      <3>1. CASE i \in DOMAIN outbox[s]
          BY <1>6, <3>1 DEF Fresh, OutOnce
      <3>2. CASE i = Len(outbox[s]) + 1
          BY <1>6, <1>7, <3>2
      <3>3. QED
          BY <2>1, <3>1, <3>2
    <2>3. ASSUME NEW i \in DOMAIN outbox'[s], NEW j \in DOMAIN outbox'[s],
                 outbox'[s][j].num = outbox'[s][i].num
          PROVE  i = j
      <3>1. CASE i \in DOMAIN outbox[s] /\ j \in DOMAIN outbox[s]
          BY <1>6, <2>3, <3>1 DEF Fresh, OutOnce
      <3>2. CASE i \in DOMAIN outbox[s] /\ j = Len(outbox[s]) + 1
          BY <1>6, <1>7, <2>3, <3>2
      <3>3. CASE j \in DOMAIN outbox[s] /\ i = Len(outbox[s]) + 1
          BY <1>6, <1>7, <2>3, <3>3
      <3>4. QED
          BY <2>1, <3>1, <3>2, <3>3
    <2>4. QED
        BY <1>2, <1>8, <2>2, <2>3 DEF OutOnce
  <1>11. SendsOnce'
      BY <1>1, <1>2 DEF SendsOnce, TypeOK, Doing, WriteSteps, OneEach
  <1>12. QED
      BY <1>9, <1>10, <1>11 DEF Fresh

\* The server takes a request, which it may then answer.
LEMMA FreshTakes ==
    ASSUME OneEach, Newest, Fresh, NEW s \in Sockets, PeerAcks(s) \/ PeerBuffers(s)
    PROVE  Fresh'
  <1> USE DEF localVars, results
  <1> DEFINE h == Head(outbox[s])
             n == Len(outbox[s])
  <1>1. TypeOK /\ AckInv
      BY DEF Newest, AckInv
  <1>2. /\ outbox[s] \in Seq(Packet) /\ outbox[s] # <<>>
        /\ UNCHANGED <<packetSeqNum, pc, pkt, peerSent, peerSaid, Answers>>
        /\ outbox' = [outbox EXCEPT ![s] = Tail(outbox[s])]
        /\ owed' = owed \/ owed' = owed \cup {h}
      BY <1>1 DEF PeerAcks, PeerBuffers, PeerTakes, ProcessUnchanged, TypeOK, Answers
  <1>3. /\ n \in Nat /\ DOMAIN outbox[s] = 1 .. n /\ 1 \in 1 .. n /\ h = outbox[s][1]
        /\ DOMAIN Tail(outbox[s]) = 1 .. n - 1
        /\ \A i \in 1 .. n - 1 : i + 1 \in 1 .. n /\ Tail(outbox[s])[i] = outbox[s][i + 1]
      BY <1>2, TailPlaces
  <1>4. h.num < packetSeqNum
      BY <1>1, <1>3, Ours
  <1> HIDE DEF h, n
  <1>5. /\ \A x \in Sockets : x = s
        /\ outbox'[s] = Tail(outbox[s])
      BY <1>1, <1>2 DEF OneEach, TypeOK
  <1>6. /\ \A q \in owed \cup Answers : q.num # h.num
        /\ \A i \in 1 .. n : outbox[s][i].num = h.num => i = 1
      BY <1>3 DEF Fresh, OutOnce
  <1>7. SaidRight'
      BY <1>2 DEF Fresh, SaidRight
  <1>8. OwedOnce'
      BY <1>2, <1>4, <1>6 DEF Fresh, OwedOnce
  <1>9. ASSUME NEW i \in 1 .. n - 1
        PROVE  /\ i + 1 \in 1 .. n /\ i + 1 # 1
               /\ outbox'[s][i] = outbox[s][i + 1]
               /\ outbox'[s][i].num # h.num
    <2>1. i + 1 \in 1 .. n /\ i + 1 # 1 /\ outbox'[s][i] = outbox[s][i + 1]
        BY <1>3, <1>5
    <2>2. QED
        BY <1>6, <2>1
  <1>10. OutOnce'
    <2>1. \A i \in 1 .. n - 1 : \A q \in owed' \cup Answers : q.num # outbox'[s][i].num
      <3>1. ASSUME NEW i \in 1 .. n - 1, NEW q \in owed \cup Answers
            PROVE  q.num # outbox'[s][i].num
        <4>1. PICK k \in DOMAIN outbox[s] : outbox'[s][i] = outbox[s][k]
            BY <1>3, <1>9
        <4>2. QED
            BY <4>1 DEF Fresh, OutOnce
      <3>2. QED
          BY <1>2, <1>9, <3>1
    <2>2. ASSUME NEW i \in 1 .. n - 1, NEW j \in 1 .. n - 1,
                 outbox'[s][j].num = outbox'[s][i].num
          PROVE  i = j
      <3>1. PICK k \in DOMAIN outbox[s] : k = i + 1 /\ outbox'[s][i] = outbox[s][k]
          BY <1>3, <1>9
      <3>2. PICK l \in DOMAIN outbox[s] : l = j + 1 /\ outbox'[s][j] = outbox[s][l]
          BY <1>3, <1>9
      <3>3. k = l
          BY <2>2, <3>1, <3>2 DEF Fresh, OutOnce
      <3>4. i + 1 = j + 1
          BY <3>1, <3>2, <3>3
      <3>5. n \in Nat
          BY <1>3
      <3>6. QED
          BY <3>4, <3>5
    <2>3. DOMAIN outbox'[s] = 1 .. n - 1 /\ Answers' = Answers
        BY <1>2, <1>3, <1>5
    <2>4. ASSUME NEW x \in Sockets, NEW i \in DOMAIN outbox'[x]
          PROVE  /\ \A j \in DOMAIN outbox'[x] : outbox'[x][j].num = outbox'[x][i].num => i = j
                 /\ \A q \in owed' \cup Answers' : q.num # outbox'[x][i].num
      <3>1. x = s
          BY <1>5
      <3>2. QED
          BY <2>1, <2>2, <2>3, <3>1
    <2>5. QED
        BY <2>4 DEF OutOnce
  <1>11. ASSUME NEW x \in Threads, pc'[x] = "send"
         PROVE  /\ \A q \in owed' \cup Answers : q.num # pkt'[x].num
                /\ \A i \in DOMAIN outbox'[s] : outbox'[s][i].num # pkt'[x].num
    <2>1. /\ \A q \in owed \cup Answers : q.num # pkt'[x].num
          /\ \A i \in 1 .. n : outbox[s][i].num # pkt'[x].num
        BY <1>2, <1>3, <1>11 DEF Fresh, SendsOnce
    <2>2. h.num # pkt'[x].num
        BY <1>3, <2>1
    <2>3. QED
        BY <1>2, <1>3, <1>5, <1>9, <2>1, <2>2
  <1>12. SendsOnce'
      BY <1>2, <1>5, <1>11 DEF SendsOnce
  <1>13. QED
      BY <1>7, <1>8, <1>10, <1>12 DEF Fresh

\* What the server says on its own account it has not said before.
LEMMA FreshSays ==
    ASSUME OneEach, Newest, Fresh,
           (\E s \in Sockets : PeerSends(s)) \/ (\E p \in owed : PeerResponds(p))
    PROVE  /\ Fresh'
           /\ \E q \in Packet : q.cmd # "ACK" /\ q \notin peerSaid /\ PeerSays(q.sock, q)
  <1> USE DEF localVars, results
  <1>1. TypeOK
      BY DEF Newest, AckInv
  <1>2. UNCHANGED <<packetSeqNum, pc, pkt, outbox>>
      BY DEF PeerSends, PeerResponds, PeerSays, ProcessUnchanged
  <1>3. ASSUME NEW s \in Sockets, PeerSends(s)
        PROVE  /\ Fresh'
               /\ \E q \in Packet : q.cmd # "ACK" /\ q \notin peerSaid /\ PeerSays(q.sock, q)
    <2>1. peerSent[s] \in Nat /\ PeerTag[s] \in Tags
      <3>1. peerSent \in [Sockets -> 0 .. MaxIn] /\ MaxIn \in Nat
          BY <1>1, TransportAssumption DEF TypeOK
      <3>2. PeerTag[s] \in Tags
          BY DEF Tags, PeerTags
      <3>3. QED
          BY <3>1, <3>2
    <2>2. PICK q \in Packet : q = [cmd |-> "NOTE", num |-> peerSent[s], tag |-> PeerTag[s],
                                   sock |-> s, what |-> "NOTE"]
        BY <2>1 DEF Packet, Kinds
    <2>3. q.sock = s /\ q.cmd = "NOTE" /\ q.num = peerSent[s]
        BY <2>2
    <2>4. PeerSays(s, q) /\ owed' = owed /\ peerSent' = [peerSent EXCEPT ![s] = @ + 1]
        BY <1>3, <2>2 DEF PeerSends, IsServer, OneEach
    <2>5. q \notin peerSaid
        BY <2>1, <2>3 DEF Fresh, SaidRight
    <2>6. peerSaid' = peerSaid \cup {q} /\ Answers' = Answers
        BY <2>3, <2>4 DEF PeerSays, Answers
    <2>7. SaidRight'
      <3>1. peerSent'[s] = peerSent[s] + 1 /\ \A x \in Sockets : x = s
          BY <1>1, <2>4 DEF TypeOK, OneEach
      <3>2. ASSUME NEW r \in peerSaid PROVE r.num \in Nat /\ r.sock = s
          BY <1>1, <3>1 DEF TypeOK, Packet
      <3>3. ASSUME NEW r \in peerSaid', r.cmd = "NOTE" PROVE r.num < peerSent'[r.sock]
        <4>1. CASE r = q
            BY <2>1, <2>3, <3>1, <4>1
        <4>2. CASE r \in peerSaid
            BY <2>1, <3>1, <3>2, <3>3, <4>2 DEF Fresh, SaidRight
        <4>3. QED
            BY <2>6, <4>1, <4>2
      <3>4. QED
          BY <1>2, <2>3, <2>6, <3>3 DEF Fresh, SaidRight
    <2>8. OwedOnce' /\ OutOnce' /\ SendsOnce'
        BY <1>2, <2>4, <2>6 DEF Fresh, OwedOnce, OutOnce, SendsOnce
    <2>9. QED
        BY <2>3, <2>4, <2>5, <2>7, <2>8 DEF Fresh
  <1>4. ASSUME NEW p \in owed, PeerResponds(p)
        PROVE  /\ Fresh'
               /\ \E q \in Packet : q.cmd # "ACK" /\ q \notin peerSaid /\ PeerSays(q.sock, q)
    <2>1. p \in Packet
        BY <1>1 DEF TypeOK
    <2>2. PICK q \in Packet : q = [p EXCEPT !.cmd = "RSP", !.what = "RSP"]
        BY <2>1, CopiesTyped
    <2>3. q.sock = p.sock /\ q.cmd = "RSP" /\ q.num = p.num
        BY <2>1, <2>2 DEF Packet
    <2>4. PeerSays(p.sock, q) /\ owed' = owed \ {p} /\ peerSent' = peerSent
        BY <1>4, <2>2 DEF PeerResponds
    <2>5. q \notin peerSaid
        BY <2>3 DEF Fresh, OwedOnce, Answers
    <2>6. peerSaid' = peerSaid \cup {q} /\ Answers' = Answers \cup {q}
        BY <2>3, <2>4 DEF PeerSays, Answers
    <2>7. SaidRight'
        BY <1>2, <2>3, <2>4, <2>6 DEF Fresh, SaidRight, OwedOnce
    <2>8. OwedOnce'
        BY <1>2, <2>3, <2>4, <2>6 DEF Fresh, OwedOnce
    <2>9. OutOnce'
        BY <1>2, <2>3, <2>4, <2>6 DEF Fresh, OutOnce
    <2>10. SendsOnce'
        BY <1>2, <2>3, <2>4, <2>6 DEF Fresh, SendsOnce
    <2>11. QED
        BY <2>3, <2>4, <2>5, <2>7, <2>8, <2>9, <2>10 DEF Fresh
  <1>5. QED
      BY <1>3, <1>4

LEMMA FreshKept ==
    ASSUME OneEach, Newest, Fresh, Next
    PROVE  Fresh'
  <1>1. ASSUME NEW t \in Threads, ThreadStep(t) PROVE Fresh'
    <2>1. CASE Request(t)
        BY <2>1, FreshRequest
    <2>2. CASE SendPacket(t)
        BY <2>2, FreshSend
    <2>3. CASE ~ Request(t) /\ ~ SendPacket(t)
        BY <1>1, <2>3, OthersSend, FreshStays
    <2>4. QED
        BY <2>1, <2>2, <2>3
  <1>2. ASSUME NEW s \in Sockets, PeerCloses(s) PROVE Fresh'
      BY <1>2, FreshStays DEF PeerCloses, ProcessUnchanged, localVars
  <1>3. QED
      BY <1>1, <1>2, FreshTakes, FreshSays DEF Next, ThreadStep, PeerStep

-----------------------------------------------------------------------------
(* No packet is handed to the program twice.                               *)

\* Nothing is in the process that the server did not say, and nothing twice;
\* what was returned again would be there twice.
Single ==
    /\ \A p \in Packet : p.cmd # "ACK" => Copies(p) <= IF p \in peerSaid THEN 1 ELSE 0
    /\ \A p \in repeated : p.cmd = "ACK"
TwiceInv == Newest /\ AcksKept /\ Fresh /\ Single

\* The acting thread doubles nothing.
LEMMA AllInPlace ==
    ASSUME OneEach, Newest, NEW t \in Threads
    PROVE  InPlace(t)
  <1>1. TypeOK /\ Doing(t)
      BY DEF Newest, AckInv
  <1>2. sock[t] \in Sockets /\ inbox[sock[t]] \in Seq(Packet)
      BY <1>1 DEF TypeOK
  <1>3. ASSUME NEW i \in DOMAIN inbox[sock[t]] PROVE inbox[sock[t]][i].sock = sock[t]
    <2>1. inbox[sock[t]][i] \in Packet
        BY <1>2
    <2>2. inbox[sock[t]][i].sock \in Sockets
        BY <2>1 DEF Packet
    <2>3. QED
        BY <1>2, <2>2 DEF OneEach
  <1>4. pc[t] = "scanning" /\ Found(t) => ackPkt[t].cmd = "ACK"
      BY <1>1 DEF Doing, Wanted
  <1>5. QED
      BY <1>3, <1>4 DEF InPlace

\* A packet that is returned again is in the process at least twice.
LEMMA RepeatsTwice ==
    ASSUME TypeOK, NEW t \in Threads, NEW p \in Packet, p \in delivered,
           \/ \E i \in DOMAIN bufferPkts : bufferPkts[i] = p
           \/ pc[t] = "rack" /\ pkt[t] = p
    PROVE  Copies(p) > 1
  <1>1. /\ OnTheWay(p) \in Nat /\ Buffered(p) \in Nat /\ InHands(p) \in Nat
        /\ Returned(p) = 1 /\ IsFiniteSet(HandsOf(p))
        /\ Copies(p) = OnTheWay(p) + Buffered(p) + InHands(p) + Returned(p)
      BY CopiesSum DEF Returned
  <1>2. CASE \E i \in DOMAIN bufferPkts : bufferPkts[i] = p
    <2>1. Buffered(p) # 0
        BY <1>2, CountIsNat DEF TypeOK, Buffered
    <2>2. QED
        BY <1>1, <2>1
  <1>3. CASE pc[t] = "rack" /\ pkt[t] = p
    <2>1. HandsOf(p) # {}
        BY <1>3 DEF HandsOf
    <2>2. InHands(p) # 0
        BY <1>1, <2>1, FS_EmptySet DEF InHands
    <2>3. QED
        BY <1>1, <2>2
  <1>4. QED
      BY <1>2, <1>3

LEMMA NoneRepeated ==
    ASSUME OneEach, Newest, Single, NEW t \in Threads, ThreadStep(t)
    PROVE  \A p \in repeated' : p.cmd = "ACK"
  <1> USE DEF localVars, netVars, peerVars, results
  <1>1. TypeOK /\ HeardRight
      BY DEF Newest, AckInv
  <1>2. ASSUME NEW p \in Packet, p.cmd # "ACK", ReadReturns(t, p),
               \/ \E i \in DOMAIN bufferPkts : bufferPkts[i] = p
               \/ pc[t] = "rack" /\ pkt[t] = p
        PROVE  repeated' = repeated
    <2>1. Copies(p) <= IF p \in peerSaid THEN 1 ELSE 0
        BY <1>2 DEF Single
    <2>2. Copies(p) \in Nat
        BY <1>1, CopiesSum
    <2>3. ~ (Copies(p) > 1)
        BY <2>1, <2>2
    <2>4. p \notin delivered
        BY <1>1, <1>2, <2>3, RepeatsTwice
    <2>5. QED
        BY <1>2, <2>4 DEF ReadReturns
  <1>3. CASE ReadScan(t)
    <2>1. CASE repeated' = repeated
        BY <2>1 DEF Single
    <2>2. CASE \E i \in DOMAIN bufferPkts :
                  bufferPkts[i].cmd # "ACK" /\ ReadReturns(t, bufferPkts[i])
      <3>1. PICK i \in DOMAIN bufferPkts :
                    bufferPkts[i].cmd # "ACK" /\ ReadReturns(t, bufferPkts[i])
          BY <2>2
      <3>2. PICK p \in Packet : p = bufferPkts[i]
          BY <1>1 DEF TypeOK
      <3>3. repeated' = repeated
          BY <1>2, <3>1, <3>2
      <3>4. QED
          BY <3>3 DEF Single
    <2>3. QED
        BY <1>3, <2>1, <2>2 DEF ReadScan
  <1>4. CASE SendAck(t)
    <2>1. PICK p \in Packet : p = pkt[t] /\ p.cmd # "ACK"
        BY <1>1, <1>4 DEF SendAck, TypeOK, HeardRight
    <2>2. repeated' = repeated
        BY <1>2, <1>4, <2>1 DEF SendAck
    <2>3. QED
        BY <2>2 DEF Single
  <1>5. CASE ~ ReadScan(t) /\ ~ SendAck(t)
    <2>1. CASE Call(t)
        BY <2>1 DEF Call, NoResponse, Request, Respond, Notify, Begin, Single
    <2>2. CASE WriteStep(t)
        BY <2>2 DEF WriteStep, SendPacket, SendFails, ScanBegins, ScanTurn, ScanEnds,
                    SetTimeout, Judge, WriteReadsNothing, Single
    <2>3. CASE ReadStep(t) \/ StartReceive(t) \/ Receive(t)
        BY <1>5, <2>3 DEF ReadStep, BeginRead, ReadNothing, KeepAck, StartReceive,
                          Receive, Single
    <2>4. QED
        BY <2>1, <2>2, <2>3 DEF ThreadStep
  <1>6. QED
      BY <1>3, <1>4, <1>5

LEMMA CopiesNatNext ==
    ASSUME TypeOK', NEW p \in Packet
    PROVE  Copies(p)' \in Nat
  <1>1. CountIn(inbox'[p.sock], p) \in Nat /\ CountIn(bufferPkts', p) \in Nat
    <2>1. inbox'[p.sock] \in Seq(Packet) /\ bufferPkts' \in Seq(Packet)
        BY DEF Packet, TypeOK
    <2>2. QED
        BY <2>1, CountIsNat
  <1>2. Cardinality(HandsOf(p)') \in Nat
      BY TransportAssumption, FS_Subset, FS_CardinalityType DEF HandsOf
  <1>3. Cardinality({p} \cap delivered') \in Nat
      BY FS_Singleton, FS_Subset, FS_CardinalityType
  <1>4. QED
      BY <1>1, <1>2, <1>3 DEF Copies

LEMMA TwiceKept ==
    ASSUME OneEach, TwiceInv, [Next]_vars
    PROVE  TwiceInv'
  <1>1. Newest /\ AcksKept /\ Fresh /\ Single /\ TypeOK
      BY DEF TwiceInv, Newest, AckInv
  <1>2. CASE UNCHANGED vars
    <2>1. UNCHANGED <<pc, pkt, packetSeqNum, outbox, peerSent, owed, peerSaid, repeated>>
        BY <1>2 DEF vars, localVars, netVars, peerVars, results
    <2>2. Newest' /\ Fresh'
        BY <1>1, <1>2, <2>1, NewestKept, FreshStays
    <2>3. AcksKept' /\ Single'
        BY <1>1, <1>2 DEF AcksKept, Single, Copies, CountIn, HandsOf, vars, localVars,
                          netVars, peerVars, results
    <2>4. QED
        BY <2>2, <2>3 DEF TwiceInv
  <1>3. CASE Next
    <2>1. Newest' /\ TypeOK' /\ AcksKept' /\ Fresh'
        BY <1>1, <1>3, NewestKept, AcksStayKept, FreshKept DEF Newest, AckInv
    <2>2. ASSUME NEW t \in Threads, ThreadStep(t) PROVE Single'
      <3>1. peerSaid' = peerSaid
          BY <2>2, ActorRuns
      <3>2. ASSUME NEW p \in Packet, p.cmd # "ACK"
            PROVE  Copies(p)' <= IF p \in peerSaid THEN 1 ELSE 0
        <4>1. Copies(p)' <= Copies(p)
            BY <1>1, <2>1, <2>2, <3>2, ThreadKept, AllInPlace DEF Kept
        <4>2. Copies(p) <= IF p \in peerSaid THEN 1 ELSE 0
            BY <1>1, <3>2 DEF Single
        <4>3. Copies(p) \in Nat /\ Copies(p)' \in Nat
          <5>1. Copies(p) \in Nat
              BY <1>1, CopiesSum
          <5>2. TypeOK' => Copies(p)' \in Nat
              BY CopiesNatNext
          <5>3. QED
              BY <2>1, <5>1, <5>2
        <4>4. QED
            BY <4>1, <4>2, <4>3
      <3>3. \A p \in repeated' : p.cmd = "ACK"
          BY <1>1, <2>2, NoneRepeated
      <3>4. QED
          BY <3>1, <3>2, <3>3 DEF Single
    <2>3. ASSUME PeerStep PROVE Single'
      <3>1. repeated' = repeated
          BY <2>3 DEF PeerStep, PeerAcks, PeerBuffers, PeerSends, PeerCloses, PeerResponds,
                      PeerTakes, PeerSays, ProcessUnchanged, results
      <3>2. ASSUME NEW s \in Sockets, PeerAcks(s) \/ PeerBuffers(s) \/ PeerCloses(s)
            PROVE  Single'
        <4>1. \A p \in Packet : p.cmd # "ACK" =>
                 peerSaid' = peerSaid /\ Copies(p)' = Copies(p)
            BY <1>1, <2>1, <3>2, QuietPeerCopies
        <4>2. QED
            BY <1>1, <3>1, <4>1 DEF Single
      <3>3. ASSUME NEW q \in Packet, q.cmd # "ACK", q \notin peerSaid, PeerSays(q.sock, q)
            PROVE  Single'
        <4>1. peerSaid' = peerSaid \cup {q}
            BY <3>3 DEF PeerSays
        <4>2. ASSUME NEW p \in Packet, p.cmd # "ACK"
              PROVE  Copies(p)' <= IF p \in peerSaid' THEN 1 ELSE 0
          <5>1. Copies(p) \in Nat /\ Copies(p)' = Copies(p) + Once(p, q)
              BY <1>1, <2>1, <3>3, SaysCopies
          <5>2. Copies(p) <= IF p \in peerSaid THEN 1 ELSE 0
              BY <1>1, <4>2 DEF Single
          <5>3. CASE p = q
              BY <3>3, <4>1, <5>1, <5>2, <5>3 DEF Once
          <5>4. CASE p # q
              BY <4>1, <5>1, <5>2, <5>4 DEF Once
          <5>5. QED
              BY <5>3, <5>4
        <4>3. QED
            BY <1>1, <3>1, <4>2 DEF Single
      <3>4. QED
          BY <1>1, <2>3, <3>2, <3>3, FreshSays DEF PeerStep
    <2>4. Single'
        BY <1>3, <2>2, <2>3 DEF Next, ThreadStep
    <2>5. QED
        BY <2>1, <2>4 DEF TwiceInv
  <1>4. QED
      BY <1>2, <1>3

LEMMA InitTwice == Init => TwiceInv
  <1> SUFFICES ASSUME Init PROVE TwiceInv
      OBVIOUS
  <1>1. Newest /\ TypeOK
      BY InitNewest DEF Newest, AckInv
  <1>2. AcksKept /\ Fresh
      BY DEF Init, AcksKept, Fresh, SaidRight, OwedOnce, OutOnce, SendsOnce, Answers
  <1>3. ASSUME NEW p \in Packet PROVE Copies(p) = 0
    <2>1. /\ IsFiniteSet(HandsOf(p))
          /\ OnTheWay(p) \in Nat /\ Buffered(p) \in Nat /\ InHands(p) \in Nat
          /\ Copies(p) = OnTheWay(p) + Buffered(p) + InHands(p) + Returned(p)
        BY <1>1, CopiesSum
    <2>2. p.sock \in Sockets
        BY DEF Packet
    <2>3. OnTheWay(p) = 0 /\ Buffered(p) = 0
      <3>1. inbox[p.sock] = <<>> /\ bufferPkts = <<>>
          BY <2>2 DEF Init
      <3>2. inbox[p.sock] \in Seq(Packet) /\ bufferPkts \in Seq(Packet)
          BY <1>1, <2>2 DEF TypeOK
      <3>3. (\A i \in DOMAIN inbox[p.sock] : inbox[p.sock][i] # p)
            /\ \A i \in DOMAIN bufferPkts : bufferPkts[i] # p
          BY <3>1
      <3>4. QED
          BY <3>2, <3>3, CountIsNat DEF OnTheWay, Buffered
    <2>4. HandsOf(p) = {} /\ Returned(p) = 0
        BY DEF Init, HandsOf, Returned
    <2>5. InHands(p) = 0
        BY <2>4, FS_EmptySet DEF InHands
    <2>6. QED
        BY <2>1, <2>3, <2>4, <2>5
  <1>4. Single
      BY <1>3 DEF Init, Single
  <1>5. QED
      BY <1>1, <1>2, <1>4 DEF TwiceInv

\* In the client, a response or a notification is handed to the program at most
\* once, although both threads read, buffer and search: the copies of a packet
\* only move, and the server says each packet once.
THEOREM HandsOnce == ASSUME OneEach PROVE Spec => []NothingTwice
  <1>1. TwiceInv /\ [Next]_vars => TwiceInv'
      BY TwiceKept
  <1>2. TwiceInv => NothingTwice
    <2> SUFFICES ASSUME TwiceInv, NEW p \in peerSaid
                 PROVE  Copies(p) <= 1 /\ p \notin repeated
        BY DEF NothingTwice
    <2>1. p \in Packet /\ p.cmd # "ACK"
        BY DEF TwiceInv, Newest, AckInv, TypeOK, Fresh, SaidRight
    <2>2. QED
        BY <2>1 DEF TwiceInv, Single
  <1>3. QED
      BY InitTwice, <1>1, <1>2, PTL DEF Spec
=============================================================================
