--------------------------- MODULE TransportProofs ---------------------------
(***************************************************************************)
(* Theorems about Transport: type correctness, the bound on bufferPkts     *)
(* included, for every process; that write_socket, in the client and in    *)
(* the server, credits no other packet's acknowledgement to a request or   *)
(* to a notification with a tag of its own; and that a handler waits for   *)
(* an ACK with a timeout, for any number of threads, sockets, packets and  *)
(* places in the buffer.                                                   *)
(***************************************************************************)
EXTENDS Transport, SequenceTheorems, TLAPS

-----------------------------------------------------------------------------
(* Sequences of packets.                                                   *)

\* Taking a packet out of the buffer leaves one place more and no new packet.
LEMMA RemoveAtProperties ==
    ASSUME NEW S, NEW s \in Seq(S), NEW i \in DOMAIN s
    PROVE  RemoveAt(s, i) \in Seq(S) /\ Len(RemoveAt(s, i)) <= Len(s)
  <1>1. i \in 1 .. Len(s) /\ Len(s) \in Nat
      OBVIOUS
  <1>2. /\ SubSeq(s, 1, i - 1) \in Seq(S)
        /\ Len(SubSeq(s, 1, i - 1)) = i - 1
      BY <1>1, SubSeqProperties
  <1>3. /\ SubSeq(s, i + 1, Len(s)) \in Seq(S)
        /\ Len(SubSeq(s, i + 1, Len(s))) = Len(s) - i
      BY <1>1, SubSeqProperties
  <1>4. QED
      BY <1>1, <1>2, <1>3, ConcatProperties DEF RemoveAt

\* A packet turned into an acknowledgement, or into a response, is a packet.
LEMMA CopiesTyped ==
    ASSUME NEW p \in Packet
    PROVE  /\ AckOf(p) \in Packet
           /\ [p EXCEPT !.cmd = "RSP", !.what = "RSP"] \in Packet
  BY DEF Packet, AckOf, Kinds

-----------------------------------------------------------------------------
(* Type correctness.                                                       *)

LEMMA InitTyped == Init => TypeOK
  <1> SUFFICES ASSUME Init PROVE TypeOK
      OBVIOUS
  <1> USE TransportAssumption
  <1>1. (CHOOSE s \in Sockets : TRUE) \in Sockets
      OBVIOUS
  <1>2. Tags # {}
      BY <1>1 DEF Tags, PeerTags
  <1>3. AnyPacket \in Packet
      BY <1>1, <1>2 DEF AnyPacket, Packet, Kinds
  <1>4. QED
      BY <1>1, <1>3 DEF Init, TypeOK, Returns

\* What a call to write_socket begins with.
LEMMA BeginTyped ==
    ASSUME TypeOK, NEW t \in Threads, NEW s \in Sockets, NEW p \in Packet, Begin(t, s, p),
           packetSeqNum' \in 0 .. MaxOut
    PROVE  TypeOK'
  BY DEF TypeOK, Begin, WriteSteps, Returns, netVars, peerVars, results

\* A call that numbers a packet keeps the number in its bound.
LEMMA NumberTyped ==
    ASSUME TypeOK, NewNumber
    PROVE  packetSeqNum' \in 0 .. MaxOut /\ packetSeqNum \in Nat
  BY TransportAssumption DEF TypeOK, NewNumber

LEMMA CallTyped ==
    ASSUME TypeOK, NEW t \in Threads, Call(t)
    PROVE  TypeOK'
  <1>1. CASE Request(t)
    <2>1. PICK g \in OwnTags :
             Begin(t, SockOf[t], [cmd |-> "REQ", num |-> packetSeqNum, tag |-> g,
                                  sock |-> SockOf[t], what |-> "REQ"])
        BY <1>1 DEF Request
    <2>2. SockOf[t] \in Sockets
        BY <1>1, TransportAssumption DEF Request
    <2>3. PICK p \in Packet : p = [cmd |-> "REQ", num |-> packetSeqNum, tag |-> g,
                                   sock |-> SockOf[t], what |-> "REQ"]
        BY <1>1, <2>2, NumberTyped DEF Request, Packet, Kinds, Tags
    <2>4. QED
        BY <1>1, <2>1, <2>2, <2>3, NumberTyped, BeginTyped DEF Request
  <1>2. CASE Respond(t)
    <2>1. SockOf[t] \in Sockets
        BY <1>2, TransportAssumption DEF Respond
    <2>2. PICK p \in Packet : p = [cmd |-> "RSP", num |-> pkt[t].num, tag |-> pkt[t].tag,
                                   sock |-> SockOf[t], what |-> "RSP"]
        BY <2>1 DEF TypeOK, Packet, Kinds
    <2>3. packetSeqNum' \in 0 .. MaxOut
        BY <1>2 DEF Respond, TypeOK
    <2>4. QED
        BY <1>2, <2>1, <2>2, <2>3, BeginTyped DEF Respond
  <1>3. ASSUME NEW s \in Sockets, Notify(t, s) PROVE TypeOK'
    <2>1. PICK g \in NoteTags :
             Begin(t, s, [cmd |-> "NOTE", num |-> packetSeqNum, tag |-> g,
                          sock |-> s, what |-> "NOTE"])
        BY <1>3 DEF Notify
    <2>2. PICK p \in Packet : p = [cmd |-> "NOTE", num |-> packetSeqNum, tag |-> g,
                                   sock |-> s, what |-> "NOTE"]
        BY <1>3, NumberTyped DEF Notify, Packet, Kinds, Tags
    <2>3. QED
        BY <1>3, <2>1, <2>2, NumberTyped, BeginTyped DEF Notify
  <1>4. CASE NoResponse(t)
      BY <1>4 DEF NoResponse, TypeOK, localVars, netVars, peerVars, results
  <1>5. QED
      BY <1>1, <1>2, <1>3, <1>4 DEF Call

LEMMA WriteTyped ==
    ASSUME TypeOK, NEW t \in Threads, WriteStep(t)
    PROVE  TypeOK'
  <1> USE DEF localVars, netVars, peerVars, results, Returns, WriteSteps, WriteReturns
  <1>1. CASE SendPacket(t)
    <2>1. Append(outbox[sock[t]], pkt[t]) \in Seq(Packet)
        BY DEF TypeOK
    <2>2. QED
        BY <1>1, <2>1 DEF SendPacket, TypeOK
  <1>2. CASE SendFails(t)
      BY <1>2 DEF SendFails, TypeOK
  <1>3. CASE ScanBegins(t)
      BY <1>3 DEF ScanBegins, TypeOK
  <1>4. CASE ScanEnds(t)
      BY <1>4 DEF ScanEnds, TypeOK
  <1>5. CASE SetTimeout(t)
      BY <1>5 DEF SetTimeout, TypeOK
  <1>6. CASE WriteReadsNothing(t)
      BY <1>6 DEF WriteReadsNothing, TypeOK
  <1>7. CASE ScanTurn(t)
    <2>1. index[t] \in DOMAIN bufferPkts
      <3>1. bufferPkts \in Seq(Packet) /\ index[t] \in Nat \ {0} /\ index[t] <= Len(bufferPkts)
          BY <1>7 DEF ScanTurn, TypeOK
      <3>2. QED
          BY <3>1
    <2>2. /\ bufferPkts[index[t]] \in Packet
          /\ RemoveAt(bufferPkts, index[t]) \in Seq(Packet)
          /\ Len(RemoveAt(bufferPkts, index[t])) <= Len(bufferPkts)
        BY <2>1, RemoveAtProperties DEF TypeOK
    <2>3. bufferPkts' \in Seq(Packet) /\ Len(bufferPkts') <= BufferSize
      <3>1. /\ bufferPkts \in Seq(Packet) /\ Len(bufferPkts) <= BufferSize
            /\ BufferSize \in Nat
          BY TransportAssumption DEF TypeOK
      <3>2. bufferPkts' \in {bufferPkts, RemoveAt(bufferPkts, index[t])}
          BY <1>7 DEF ScanTurn
      <3>3. CASE bufferPkts' = bufferPkts
          BY <3>1, <3>3
      <3>4. CASE bufferPkts' = RemoveAt(bufferPkts, index[t])
        <4>1. PICK r \in Seq(Packet) : r = bufferPkts' /\ Len(r) <= Len(bufferPkts)
            BY <2>2, <3>4
        <4>2. Len(r) \in Nat /\ Len(bufferPkts) \in Nat
            BY <3>1
        <4>3. QED
            BY <3>1, <4>1, <4>2
      <3>5. QED
          BY <3>2, <3>3, <3>4
    <2>4. /\ ackPkt' \in [Threads -> Packet]
          /\ index' \in [Threads -> Nat \ {0}]
      <3>1. ackPkt \in [Threads -> Packet] /\ index \in [Threads -> Nat \ {0}]
          BY DEF TypeOK
      <3>2. /\ ackPkt' = [ackPkt EXCEPT ![t] = bufferPkts[index[t]]]
            /\ index' = [index EXCEPT ![t] = index[t] + 1]
          BY <1>7 DEF ScanTurn
      <3>3. QED
          BY <2>2, <3>1, <3>2
    <2>5. /\ doTCPRead' \in [Threads -> BOOLEAN]
          /\ readOK' \in [Threads -> BOOLEAN]
        BY <1>7 DEF ScanTurn, TypeOK
    <2>6. QED
        BY <1>7, <2>3, <2>4, <2>5 DEF ScanTurn, TypeOK
  <1>8. CASE Judge(t)
    <2>1. bufferPkts \in Seq(Packet) /\ ackPkt[t] \in Packet /\ Len(bufferPkts) <= BufferSize
        BY DEF TypeOK
    <2>2. bufferPkts' \in Seq(Packet) /\ Len(bufferPkts') <= BufferSize
      <3>1. \/ UNCHANGED bufferPkts
            \/ Len(bufferPkts) < BufferSize /\ bufferPkts' = Append(bufferPkts, ackPkt[t])
          BY <1>8 DEF Judge
      <3>2. QED
          BY <2>1, <3>1, TransportAssumption
    <2>3. QED
        BY <1>8, <2>1, <2>2 DEF Judge, TypeOK
  <1>9. QED
      BY <1>1, <1>2, <1>3, <1>4, <1>5, <1>6, <1>7, <1>8 DEF WriteStep

\* read_socket returns a packet, or 0 or an error.
LEMMA ReturnsTyped ==
    ASSUME TypeOK, NEW t \in Threads, NEW p \in Packet, ReadReturns(t, p)
    PROVE  /\ pkt' \in [Threads -> Packet]
           /\ delivered' \subseteq Packet /\ repeated' \subseteq Packet
           /\ ret' \in [Threads -> Returns]
           /\ pc' \in [Threads -> {"idle", "reply", "gone"} \cup WriteSteps \cup ReadSteps]
  BY DEF TypeOK, ReadReturns, Returns

LEMMA StopsTyped ==
    ASSUME TypeOK, NEW t \in Threads, NEW code \in Returns, ReadStops(t, code)
    PROVE  /\ ret' \in [Threads -> Returns]
           /\ pc' \in [Threads -> {"idle", "reply", "gone"} \cup WriteSteps \cup ReadSteps]
           /\ open' \subseteq Sockets
  BY DEF TypeOK, ReadStops

LEMMA ReadTyped ==
    ASSUME TypeOK, NEW t \in Threads, ReadStep(t)
    PROVE  TypeOK'
  <1> USE DEF localVars, netVars, peerVars, results
  <1>1. CASE BeginRead(t)
    <2>1. SockOf[t] \in Sockets
        BY <1>1, TransportAssumption DEF BeginRead
    <2>2. QED
        BY <1>1, <2>1 DEF BeginRead, TypeOK, Returns, ReadSteps
  <1>2. CASE ReadScan(t)
    <2>1. bufferPkts \in Seq(Packet) /\ Len(bufferPkts) <= BufferSize /\ BufferSize \in Nat
        BY TransportAssumption DEF TypeOK
    <2>2. CASE \E i \in DOMAIN bufferPkts :
                  /\ bufferPkts' = RemoveAt(bufferPkts, i)
                  /\ ReadReturns(t, bufferPkts[i])
      <3>1. PICK i \in DOMAIN bufferPkts :
                    bufferPkts' = RemoveAt(bufferPkts, i) /\ ReadReturns(t, bufferPkts[i])
          BY <2>2
      <3>2. bufferPkts[i] \in Packet
          BY <2>1
      <3>3. bufferPkts' \in Seq(Packet) /\ Len(bufferPkts') <= BufferSize
          BY <2>1, <3>1, RemoveAtProperties
      <3>4. /\ pkt' \in [Threads -> Packet]
            /\ delivered' \subseteq Packet /\ repeated' \subseteq Packet
            /\ ret' \in [Threads -> Returns]
            /\ pc' \in [Threads -> {"idle", "reply", "gone"} \cup WriteSteps \cup ReadSteps]
          BY <3>1, <3>2, ReturnsTyped
      <3>5. QED
          BY <1>2, <3>3, <3>4 DEF ReadScan, TypeOK
    <2>3. CASE /\ pc' = [pc EXCEPT ![t] = "rstart"]
               /\ UNCHANGED <<bufferPkts, pkt, delivered, repeated, ret>>
        BY <1>2, <2>3 DEF ReadScan, TypeOK, ReadSteps
    <2>4. QED
        BY <1>2, <2>2, <2>3 DEF ReadScan
  <1>3. CASE ReadNothing(t)
    <2>1. ReadStops(t, "-9") \/ ReadStops(t, "0")
        BY <1>3 DEF ReadNothing
    <2>2. /\ ret' \in [Threads -> Returns]
          /\ pc' \in [Threads -> {"idle", "reply", "gone"} \cup WriteSteps \cup ReadSteps]
          /\ open' \subseteq Sockets
        BY <2>1, StopsTyped DEF Returns
    <2>3. QED
        BY <1>3, <2>2 DEF ReadNothing, TypeOK
  <1>4. CASE KeepAck(t)
    <2>1. bufferPkts \in Seq(Packet) /\ pkt[t] \in Packet /\ Len(bufferPkts) <= BufferSize
        BY DEF TypeOK
    <2>2. CASE /\ Len(bufferPkts) < BufferSize
               /\ bufferPkts' = Append(bufferPkts, pkt[t])
               /\ pc' = [pc EXCEPT ![t] = "rstart"]
               /\ UNCHANGED <<ret, open, dropped>>
      <3>1. bufferPkts' \in Seq(Packet) /\ Len(bufferPkts') <= BufferSize
          BY <2>1, <2>2, TransportAssumption
      <3>2. QED
          BY <1>4, <2>2, <3>1 DEF KeepAck, TypeOK, ReadSteps
    <2>3. CASE /\ ReadStops(t, "-4")
               /\ dropped' = dropped \cup {pkt[t]}
               /\ UNCHANGED bufferPkts
      <3>1. /\ ret' \in [Threads -> Returns]
            /\ pc' \in [Threads -> {"idle", "reply", "gone"} \cup WriteSteps \cup ReadSteps]
            /\ open' \subseteq Sockets
          BY <2>3, StopsTyped DEF Returns
      <3>2. QED
          BY <1>4, <2>1, <2>3, <3>1 DEF KeepAck, TypeOK
    <2>4. QED
        BY <1>4, <2>2, <2>3 DEF KeepAck
  <1>5. CASE SendAck(t)
    <2>1. pkt[t] \in Packet
        BY DEF TypeOK
    <2>2. CASE ReadReturns(t, pkt[t]) /\ UNCHANGED <<open, dropped>>
      <3>1. /\ pkt' \in [Threads -> Packet]
            /\ delivered' \subseteq Packet /\ repeated' \subseteq Packet
            /\ ret' \in [Threads -> Returns]
            /\ pc' \in [Threads -> {"idle", "reply", "gone"} \cup WriteSteps \cup ReadSteps]
          BY <2>1, <2>2, ReturnsTyped
      <3>2. QED
          BY <1>5, <2>2, <3>1 DEF SendAck, TypeOK
    <2>3. CASE /\ ReadStops(t, "-3")
               /\ dropped' = dropped \cup {pkt[t]}
               /\ UNCHANGED <<pkt, delivered, repeated>>
      <3>1. /\ ret' \in [Threads -> Returns]
            /\ pc' \in [Threads -> {"idle", "reply", "gone"} \cup WriteSteps \cup ReadSteps]
            /\ open' \subseteq Sockets
          BY <2>3, StopsTyped DEF Returns
      <3>2. QED
          BY <1>5, <2>1, <2>3, <3>1 DEF SendAck, TypeOK
    <2>4. QED
        BY <1>5, <2>2, <2>3 DEF SendAck
  <1>6. QED
      BY <1>1, <1>2, <1>3, <1>4, <1>5 DEF ReadStep

\* A read call begins, or ends with a packet.
LEMMA ReceiveTyped ==
    ASSUME TypeOK, NEW t \in Threads, StartReceive(t) \/ Receive(t)
    PROVE  TypeOK'
  <1> USE DEF localVars, netVars, peerVars, results
  <1>1. CASE StartReceive(t)
      BY <1>1 DEF StartReceive, TypeOK, WriteSteps, ReadSteps
  <1>2. CASE Receive(t)
    <2>1. inbox[sock[t]] \in Seq(Packet) /\ inbox[sock[t]] # <<>>
        BY <1>2 DEF Receive, TypeOK
    <2>2. Head(inbox[sock[t]]) \in Packet /\ Tail(inbox[sock[t]]) \in Seq(Packet)
        BY <2>1
    <2>3. inbox' \in [Sockets -> Seq(Packet)]
        BY <1>2, <2>2 DEF Receive, TypeOK
    <2>4. pkt' \in [Threads -> Packet] /\ ackPkt' \in [Threads -> Packet]
      <3>1. pkt \in [Threads -> Packet] /\ ackPkt \in [Threads -> Packet]
          BY DEF TypeOK
      <3>2. PICK p \in Packet :
               \/ ackPkt' = [ackPkt EXCEPT ![t] = p] /\ pkt' = pkt
               \/ pkt' = [pkt EXCEPT ![t] = p] /\ ackPkt' = ackPkt
          BY <1>2, <2>2 DEF Receive
      <3>3. QED
          BY <3>1, <3>2
    <2>5. readOK' \in [Threads -> BOOLEAN]
        BY <1>2 DEF Receive, TypeOK
    <2>6. pc' \in [Threads -> {"idle", "reply", "gone"} \cup WriteSteps \cup ReadSteps]
        BY <1>2 DEF Receive, TypeOK, WriteSteps, ReadSteps
    <2>7. QED
        BY <1>2, <2>3, <2>4, <2>5, <2>6 DEF Receive, TypeOK
  <1>3. QED
      BY <1>1, <1>2

LEMMA PeerTyped ==
    ASSUME TypeOK, PeerStep
    PROVE  TypeOK'
  <1> USE DEF localVars, netVars, peerVars, results, ProcessUnchanged
  <1>1. ASSUME NEW s \in Sockets, PeerTakes(s)
        PROVE  /\ Head(outbox[s]) \in Packet
               /\ outbox' \in [Sockets -> Seq(Packet)]
               /\ owed' \subseteq Packet
    <2>1. outbox[s] \in Seq(Packet) /\ outbox[s] # <<>>
        BY <1>1 DEF PeerTakes, TypeOK
    <2>2. Head(outbox[s]) \in Packet /\ Tail(outbox[s]) \in Seq(Packet)
        BY <2>1
    <2>3. QED
        BY <1>1, <2>2 DEF PeerTakes, TypeOK
  <1>2. ASSUME NEW s \in Sockets, PeerAcks(s) PROVE TypeOK'
    <2>1. PeerTakes(s)
        BY <1>2 DEF PeerAcks
    <2>2. AckOf(Head(outbox[s])) \in Packet
        BY <2>1, <1>1, CopiesTyped
    <2>3. inbox' \in [Sockets -> Seq(Packet)]
        BY <1>2, <2>2 DEF PeerAcks, TypeOK
    <2>4. peerAcked' \subseteq Packet
        BY <1>1, <1>2, <2>1 DEF PeerAcks, TypeOK
    <2>5. QED
        BY <1>1, <2>1, <2>3, <2>4 DEF PeerTakes, TypeOK
  <1>3. ASSUME NEW s \in Sockets, PeerBuffers(s) PROVE TypeOK'
      BY <1>1, <1>3 DEF PeerBuffers, PeerTakes, TypeOK
  <1>4. ASSUME NEW s \in Sockets, NEW p \in Packet, PeerSays(s, p)
        PROVE  /\ inbox' \in [Sockets -> Seq(Packet)]
               /\ peerSaid' \subseteq Packet
      BY <1>4 DEF PeerSays, TypeOK
  <1>5. ASSUME NEW p \in owed, PeerResponds(p) PROVE TypeOK'
    <2>1. p \in Packet /\ p.sock \in Sockets
        BY DEF TypeOK, Packet
    <2>2. PICK q \in Packet : q = [p EXCEPT !.cmd = "RSP", !.what = "RSP"]
        BY <2>1, CopiesTyped
    <2>3. PeerSays(p.sock, q)
        BY <1>5, <2>2 DEF PeerResponds
    <2>4. owed' \subseteq Packet /\ peerSent' = peerSent
        BY <1>5 DEF PeerResponds, TypeOK
    <2>5. QED
        BY <1>4, <2>1, <2>3, <2>4 DEF PeerSays, TypeOK
  <1>6. ASSUME NEW s \in Sockets, PeerSends(s) PROVE TypeOK'
    <2>1. PICK kind \in {"REQ", "NOTE"} :
             PeerSays(s, [cmd |-> kind, num |-> peerSent[s], tag |-> PeerTag[s],
                          sock |-> s, what |-> kind])
        BY <1>6 DEF PeerSends
    <2>2. PICK q \in Packet : q = [cmd |-> kind, num |-> peerSent[s], tag |-> PeerTag[s],
                                   sock |-> s, what |-> kind]
      <3>1. peerSent[s] \in Nat
          BY TransportAssumption DEF TypeOK
      <3>2. PeerTag[s] \in Tags
          BY DEF Tags, PeerTags
      <3>3. QED
          BY <3>1, <3>2 DEF Packet, Kinds
    <2>3. PeerSays(s, q)
        BY <2>1, <2>2
    <2>4. peerSent' \in [Sockets -> 0 .. MaxIn] /\ owed' = owed
      <3>1. peerSent \in [Sockets -> 0 .. MaxIn] /\ MaxIn \in Nat
          BY TransportAssumption DEF TypeOK
      <3>2. /\ peerSent[s] < MaxIn /\ owed' = owed
            /\ peerSent' = [peerSent EXCEPT ![s] = peerSent[s] + 1]
          BY <1>6 DEF PeerSends
      <3>3. peerSent[s] + 1 \in 0 .. MaxIn
          BY <3>1, <3>2
      <3>4. QED
          BY <3>1, <3>2, <3>3
    <2>5. QED
        BY <1>4, <2>3, <2>4 DEF PeerSays, TypeOK
  <1>7. ASSUME NEW s \in Sockets, PeerCloses(s) PROVE TypeOK'
      BY <1>7 DEF PeerCloses, TypeOK
  <1>8. QED
      BY <1>2, <1>3, <1>5, <1>6, <1>7 DEF PeerStep

\* Every step keeps the types.
LEMMA StepTyped == TypeOK /\ [Next]_vars => TypeOK'
  <1> SUFFICES ASSUME TypeOK, [Next]_vars PROVE TypeOK'
      OBVIOUS
  <1>1. CASE UNCHANGED vars
      BY <1>1 DEF vars, localVars, netVars, peerVars, results, TypeOK
  <1>2. QED
      BY <1>1, CallTyped, WriteTyped, ReadTyped, ReceiveTyped, PeerTyped DEF Next

\* Every variable keeps its type in every process, and bufferPkts, which is
\* full now and then, never has more packets than places.
THEOREM TypeCorrect == Spec => []TypeOK
  BY InitTyped, StepTyped, PTL DEF Spec

-----------------------------------------------------------------------------
(* The acknowledgement for which write_socket returns 0.                   *)

\* The threads whose packets are numbered here.
Owners == Requesters \cup Notifiers

\* What a handler writes.
Responses ==
    {p \in Packet : Handlers # {} /\ p.cmd = "RSP" /\ p.what = "RSP" /\ p.tag \in PeerTags}

\* An acknowledgement that reached the process is one a peer sent; anything
\* else has, in the server, a tag of a peer's.
Heard ==
    {p \in Packet : IF p.cmd = "ACK" THEN \E q \in peerAcked : p = AckOf(q)
                    ELSE Handlers # {} => p.tag \in PeerTags}

\* A thread that reads owns no packet, and its last result is no success.
Roles ==
    \A t \in Threads :
       pc[t] \in ReadSteps \cup {"reply"} => t \notin Owners /\ ret[t] # "ok"

\* Wherever a thread takes an acknowledgement from, a peer has sent it.
HeardRight ==
    /\ inbox \in [Sockets -> Seq(Heard)]
    /\ bufferPkts \in Seq(Heard)
    /\ \A t \in Threads :
          /\ readOK[t] => ackPkt[t] \in Heard
          /\ pc[t] = "judge" => readOK[t]
          /\ pc[t] \in {"rkeep", "rack", "reply"} => pkt[t] \in Heard
          /\ pc[t] \in {"rack", "reply"} => pkt[t].cmd # "ACK"

\* The packets in own have numbers of their own, below the next one; with the
\* responses they are all that is being written, on its way, acknowledged or
\* credited.
Numbered(own) ==
    /\ \A p \in own : p.num < packetSeqNum
    /\ \A p, q \in own : p.num = q.num => p = q
    /\ \A p \in own : Handlers # {} => p.cmd = "NOTE" /\ p.what = "NOTE"
    /\ outbox \in [Sockets -> Seq(own \cup Responses)]
    /\ peerAcked \subseteq own \cup Responses
    /\ \A t \in Threads :
          pc[t] \in WriteSteps \/ ret[t] = "ok" =>
             pkt[t] \in (IF t \in Owners THEN own ELSE Responses)
    /\ Handlers # {} => owed = {}

AckInv ==
    /\ TypeOK
    /\ Roles
    /\ HeardRight
    /\ \E own \in SUBSET Packet : Numbered(own)
    /\ AckSoundness

LEMMA InitAck == Init => AckInv
  <1> SUFFICES ASSUME Init PROVE AckInv
      OBVIOUS
  <1>1. TypeOK
      BY InitTyped
  <1>2. Roles /\ HeardRight /\ AckSoundness
      BY DEF Init, Roles, HeardRight, AckSoundness, ReadSteps
  <1>3. Numbered({})
      BY DEF Init, Numbered, WriteSteps
  <1>4. QED
      BY <1>1, <1>2, <1>3 DEF AckInv

\* A read begins with the result cleared, and ends before a result is set.
LEMMA RolesKept ==
    ASSUME TypeOK, Roles, Next
    PROVE  Roles'
  <1> USE DEF TypeOK, Roles, WriteSteps, ReadSteps
  <1>1. ASSUME NEW t \in Threads, Call(t) PROVE Roles'
    <2>1. CASE NoResponse(t)
        BY <2>1 DEF NoResponse
    <2>2. CASE Request(t) \/ Respond(t) \/ \E s \in Sockets : Notify(t, s)
      <3>1. pc' = [pc EXCEPT ![t] = "send"] /\ ret' = [ret EXCEPT ![t] = "none"]
          BY <2>2 DEF Request, Respond, Notify, Begin
      <3>2. QED
          BY <3>1
    <2>3. QED
        BY <1>1, <2>1, <2>2 DEF Call
  <1>2. ASSUME NEW t \in Threads, WriteStep(t) PROVE Roles'
    <2>1. CASE SendPacket(t) \/ SendFails(t) \/ ScanBegins(t) \/ ScanTurn(t)
        BY <2>1 DEF SendPacket, SendFails, ScanBegins, ScanTurn, WriteReturns
    <2>2. CASE ScanEnds(t) \/ SetTimeout(t) \/ Judge(t) \/ WriteReadsNothing(t)
        BY <2>2 DEF ScanEnds, SetTimeout, Judge, WriteReadsNothing, WriteReturns
    <2>3. QED
        BY <1>2, <2>1, <2>2 DEF WriteStep
  <1>3. ASSUME NEW t \in Threads, ReadStep(t) PROVE Roles'
    <2>1. t \notin Owners
        BY <1>3, TransportAssumption
           DEF ReadStep, BeginRead, ReadScan, ReadNothing, KeepAck, SendAck, Owners
    <2>2. CASE BeginRead(t)
        BY <2>1, <2>2 DEF BeginRead
    <2>3. CASE ReadScan(t)
      <3>1. \/ ret' = [ret EXCEPT ![t] = "packet"] /\ pc' \in {[pc EXCEPT ![t] = "reply"], [pc EXCEPT ![t] = "idle"]}
            \/ ret' = ret /\ pc' = [pc EXCEPT ![t] = "rstart"]
          BY <2>3 DEF ReadScan, ReadReturns
      <3>2. QED
          BY <2>1, <2>3, <3>1 DEF ReadScan
    <2>4. ASSUME NEW code \in Returns \ {"ok"}, ReadStops(t, code) PROVE Roles'
      <3>1. /\ ret' = [ret EXCEPT ![t] = code]
            /\ \A x \in Threads : pc'[x] \in {pc[x], "idle", "gone"}
          BY <2>4 DEF ReadStops
      <3>2. QED
          BY <2>1, <3>1
    <2>5. CASE ReadNothing(t)
        BY <2>4, <2>5 DEF ReadNothing, Returns
    <2>6. CASE KeepAck(t)
      <3>1. \/ pc' = [pc EXCEPT ![t] = "rstart"] /\ ret' = ret
            \/ ReadStops(t, "-4")
          BY <2>6 DEF KeepAck
      <3>2. QED
          BY <2>1, <2>4, <2>6, <3>1 DEF Returns, KeepAck
    <2>7. CASE SendAck(t)
        BY <2>1, <2>4, <2>7 DEF SendAck, ReadReturns, Returns
    <2>8. QED
        BY <1>3, <2>2, <2>3, <2>5, <2>6, <2>7 DEF ReadStep
  <1>4. ASSUME NEW t \in Threads, StartReceive(t) \/ Receive(t) PROVE Roles'
      BY <1>4 DEF StartReceive, Receive
  <1>5. CASE PeerStep
      BY <1>5 DEF PeerStep, PeerAcks, PeerBuffers, PeerSends, PeerCloses, PeerResponds,
                  PeerTakes, PeerSays, ProcessUnchanged
  <1>6. QED
      BY <1>1, <1>2, <1>3, <1>4, <1>5 DEF Next

\* What has been heard stays heard, for a sequence too.
LEMMA HeardGrows ==
    ASSUME peerAcked \subseteq peerAcked'
    PROVE  /\ Heard \subseteq Heard'
           /\ \A seq \in Seq(Heard) : seq \in Seq(Heard')
  BY DEF Heard

LEMMA AckedGrows == Next => peerAcked \subseteq peerAcked'
  <1> SUFFICES ASSUME Next PROVE peerAcked \subseteq peerAcked'
      OBVIOUS
  <1> USE DEF netVars, peerVars
  <1>1. ASSUME NEW t \in Threads, Call(t) PROVE peerAcked' = peerAcked
      BY <1>1 DEF Call, Request, Respond, Notify, NoResponse, Begin
  <1>2. ASSUME NEW t \in Threads, WriteStep(t) PROVE peerAcked' = peerAcked
      BY <1>2 DEF WriteStep, SendPacket, SendFails, ScanBegins, ScanTurn, ScanEnds,
                  SetTimeout, Judge, WriteReadsNothing
  <1>3. ASSUME NEW t \in Threads, ReadStep(t) \/ StartReceive(t) \/ Receive(t)
        PROVE  peerAcked' = peerAcked
      BY <1>3 DEF ReadStep, BeginRead, ReadScan, ReadNothing, KeepAck, SendAck,
                  StartReceive, Receive
  <1>4. CASE PeerStep
      BY <1>4 DEF PeerStep, PeerAcks, PeerBuffers, PeerSends, PeerCloses, PeerResponds,
                  PeerTakes, PeerSays
  <1>5. QED
      BY <1>1, <1>2, <1>3, <1>4 DEF Next

\* The places acknowledgements are taken from keep only those a peer sent.
LEMMA HeardKept ==
    ASSUME TypeOK, HeardRight, Handlers # {} => owed = {}, Next
    PROVE  HeardRight'
  <1> USE DEF localVars, netVars, peerVars, results, WriteReturns
  <1>1. Heard \subseteq Heard' /\ \A seq \in Seq(Heard) : seq \in Seq(Heard')
      BY AckedGrows, HeardGrows
  <1> HIDE DEF Heard
  <1>2. ASSUME UNCHANGED <<inbox, bufferPkts, readOK, ackPkt, pkt>>,
               \A t \in Threads : /\ pc'[t] = "judge" => pc[t] = "judge" \/ readOK[t]
                                  /\ pc'[t] \in {"rkeep", "rack", "reply"} => pc'[t] = pc[t]
        PROVE  HeardRight'
      BY <1>1, <1>2 DEF HeardRight
  <1>3. ASSUME NEW t \in Threads, Call(t) PROVE HeardRight'
    <2>1. CASE NoResponse(t)
        BY <1>2, <2>1 DEF NoResponse, TypeOK
    <2>2. CASE Request(t) \/ Respond(t) \/ \E s \in Sockets : Notify(t, s)
      <3>1. /\ UNCHANGED <<inbox, bufferPkts, ackPkt>>
            /\ readOK' = [readOK EXCEPT ![t] = FALSE]
            /\ pc' = [pc EXCEPT ![t] = "send"]
            /\ \A x \in Threads \ {t} : pkt'[x] = pkt[x]
          BY <2>2 DEF Request, Respond, Notify, Begin, TypeOK
      <3>2. QED
          BY <1>1, <3>1 DEF HeardRight, TypeOK
    <2>3. QED
        BY <1>3, <2>1, <2>2 DEF Call
  <1>4. ASSUME NEW t \in Threads, WriteStep(t) PROVE HeardRight'
    <2>1. CASE SendPacket(t) \/ SendFails(t) \/ ScanBegins(t) \/ SetTimeout(t)
        BY <1>2, <2>1 DEF SendPacket, SendFails, ScanBegins, SetTimeout, TypeOK
    <2>2. CASE ScanEnds(t)
        BY <1>2, <2>2 DEF ScanEnds, TypeOK
    <2>3. CASE ScanTurn(t)
      <3>1. index[t] \in DOMAIN bufferPkts
        <4>1. bufferPkts \in Seq(Packet) /\ index[t] \in Nat \ {0} /\ index[t] <= Len(bufferPkts)
            BY <2>3 DEF ScanTurn, TypeOK
        <4>2. QED
            BY <4>1
      <3>2. /\ bufferPkts[index[t]] \in Heard
            /\ RemoveAt(bufferPkts, index[t]) \in Seq(Heard)
          BY <3>1, RemoveAtProperties DEF HeardRight
      <3>3. bufferPkts' \in Seq(Heard)
          BY <2>3, <3>2 DEF ScanTurn, HeardRight
      <3>4. /\ ackPkt' = [ackPkt EXCEPT ![t] = bufferPkts[index[t]]]
            /\ UNCHANGED <<inbox, pkt, pc>>
            /\ readOK' = [readOK EXCEPT ![t] = TRUE] \/ readOK' = readOK
          BY <2>3 DEF ScanTurn
      <3>5. QED
          BY <1>1, <3>2, <3>3, <3>4 DEF HeardRight, TypeOK
    <2>4. CASE Judge(t)
      <3>1. ackPkt[t] \in Heard
          BY <2>4 DEF Judge, HeardRight
      <3>2. bufferPkts' = bufferPkts \/ bufferPkts' = Append(bufferPkts, ackPkt[t])
          BY <2>4 DEF Judge
      <3>3. bufferPkts' \in Seq(Heard)
          BY <3>1, <3>2 DEF HeardRight
      <3>4. /\ UNCHANGED <<inbox, readOK, ackPkt, pkt>>
            /\ pc' = [pc EXCEPT ![t] = "scan"] \/ pc' = [pc EXCEPT ![t] = "idle"]
          BY <2>4 DEF Judge
      <3>5. QED
          BY <1>1, <3>3, <3>4 DEF HeardRight, TypeOK
    <2>5. CASE WriteReadsNothing(t)
      <3>1. /\ UNCHANGED <<inbox, bufferPkts, ackPkt, pkt>>
            /\ readOK' = [readOK EXCEPT ![t] = FALSE]
            /\ pc' = [pc EXCEPT ![t] = "scan"]
          BY <2>5 DEF WriteReadsNothing
      <3>2. QED
          BY <1>1, <3>1 DEF HeardRight, TypeOK
    <2>6. QED
        BY <1>4, <2>1, <2>2, <2>3, <2>4, <2>5 DEF WriteStep
  <1>5. ASSUME NEW t \in Threads, ReadStep(t) PROVE HeardRight'
    <2>1. ASSUME NEW code, ReadStops(t, code)
          PROVE  \A x \in Threads : pc'[x] \in {pc[x], "gone", "idle"}
        BY <2>1 DEF ReadStops, TypeOK
    <2>2. CASE BeginRead(t)
        BY <1>2, <2>2 DEF BeginRead, TypeOK
    <2>3. CASE ReadScan(t)
      <3>1. \A i \in DOMAIN bufferPkts : RemoveAt(bufferPkts, i) \in Seq(Heard)
          BY RemoveAtProperties DEF HeardRight
      <3>2. bufferPkts' \in Seq(Heard)
          BY <2>3, <3>1 DEF ReadScan, HeardRight
      <3>3. /\ UNCHANGED <<inbox, ackPkt, readOK>>
            /\ \A x \in Threads \ {t} : pc'[x] = pc[x] /\ pkt'[x] = pkt[x]
            /\ pc'[t] \in {"reply", "idle", "rstart"}
          BY <2>3 DEF ReadScan, ReadReturns, TypeOK
      <3>4. pc'[t] = "reply" =>
               \E i \in DOMAIN bufferPkts : pkt'[t] = bufferPkts[i] /\ bufferPkts[i].cmd # "ACK"
          BY <2>3 DEF ReadScan, ReadReturns, TypeOK
      <3>5. \A i \in DOMAIN bufferPkts : bufferPkts[i] \in Heard
          BY DEF HeardRight
      <3>6. pc'[t] = "reply" => pkt'[t] \in Heard /\ pkt'[t].cmd # "ACK"
          BY <3>4, <3>5
      <3>7. QED
          BY <1>1, <3>2, <3>3, <3>6 DEF HeardRight
    <2>4. CASE ReadNothing(t)
        BY <1>2, <2>1, <2>4 DEF ReadNothing
    <2>5. CASE KeepAck(t)
      <3>1. pkt[t] \in Heard
          BY <2>5 DEF KeepAck, HeardRight
      <3>2. bufferPkts' = bufferPkts \/ bufferPkts' = Append(bufferPkts, pkt[t])
          BY <2>5 DEF KeepAck
      <3>3. bufferPkts' \in Seq(Heard)
          BY <3>1, <3>2 DEF HeardRight
      <3>4. pc' = [pc EXCEPT ![t] = "rstart"] \/ ReadStops(t, "-4")
          BY <2>5 DEF KeepAck
      <3>5. \A x \in Threads : pc'[x] \in {pc[x], "gone", "idle", "rstart"}
          BY <2>1, <3>4 DEF TypeOK
      <3>6. UNCHANGED <<inbox, readOK, ackPkt, pkt>>
          BY <2>5 DEF KeepAck
      <3>7. QED
          BY <1>1, <3>3, <3>5, <3>6 DEF HeardRight
    <2>6. CASE SendAck(t)
      <3>1. /\ UNCHANGED <<inbox, bufferPkts, readOK, ackPkt>>
            /\ \A x \in Threads : pkt'[x] = pkt[x]
          BY <2>6 DEF SendAck, ReadReturns, TypeOK
      <3>2. /\ \A x \in Threads \ {t} : pc'[x] \in {pc[x], "gone", "idle"}
            /\ pc'[t] \in {pc[t], "gone", "idle", "reply"}
        <4>1. ReadReturns(t, pkt[t]) \/ ReadStops(t, "-3")
            BY <2>6 DEF SendAck
        <4>2. ReadReturns(t, pkt[t]) =>
                 /\ \A x \in Threads \ {t} : pc'[x] = pc[x]
                 /\ pc'[t] \in {"idle", "reply"}
            BY DEF ReadReturns, TypeOK
        <4>3. QED
            BY <2>1, <4>1, <4>2
      <3>3. pkt[t] \in Heard /\ pkt[t].cmd # "ACK"
          BY <2>6 DEF SendAck, HeardRight
      <3>4. QED
          BY <1>1, <3>1, <3>2, <3>3 DEF HeardRight
    <2>7. QED
        BY <1>5, <2>2, <2>3, <2>4, <2>5, <2>6 DEF ReadStep
  <1>6. ASSUME NEW t \in Threads, StartReceive(t) \/ Receive(t) PROVE HeardRight'
    <2>1. CASE StartReceive(t)
        BY <1>2, <2>1 DEF StartReceive, TypeOK
    <2>2. CASE Receive(t)
      <3>1. inbox[sock[t]] \in Seq(Heard) /\ inbox[sock[t]] # <<>>
          BY <2>2 DEF Receive, HeardRight, TypeOK
      <3>2. Head(inbox[sock[t]]) \in Heard /\ Tail(inbox[sock[t]]) \in Seq(Heard)
          BY <3>1
      <3>3. inbox' \in [Sockets -> Seq(Heard)]
          BY <2>2, <3>2 DEF Receive, HeardRight
      <3>4. PICK p \in Heard :
               \/ /\ ackPkt' = [ackPkt EXCEPT ![t] = p]
                  /\ readOK' = [readOK EXCEPT ![t] = TRUE]
                  /\ pc' = [pc EXCEPT ![t] = "judge"]
                  /\ pkt' = pkt
               \/ /\ pkt' = [pkt EXCEPT ![t] = p]
                  /\ pc' = [pc EXCEPT ![t] = IF p.cmd = "ACK" THEN "rkeep" ELSE "rack"]
                  /\ ackPkt' = ackPkt /\ readOK' = readOK
          BY <2>2, <3>2 DEF Receive
      <3>5. UNCHANGED bufferPkts
          BY <2>2 DEF Receive
      <3>6. /\ \A x \in Threads \ {t} : pc'[x] = pc[x] /\ pkt'[x] = pkt[x]
                                       /\ ackPkt'[x] = ackPkt[x] /\ readOK'[x] = readOK[x]
            /\ \/ ackPkt'[t] = p /\ readOK'[t] /\ pc'[t] = "judge"
               \/ /\ pkt'[t] = p /\ ackPkt'[t] = ackPkt[t] /\ readOK'[t] = readOK[t]
                  /\ pc'[t] = IF p.cmd = "ACK" THEN "rkeep" ELSE "rack"
          BY <1>1, <3>4 DEF TypeOK
      <3>7. QED
          BY <1>1, <3>3, <3>5, <3>6 DEF HeardRight
    <2>3. QED
        BY <1>6, <2>1, <2>2
  <1>7. CASE PeerStep
    <2>1. UNCHANGED <<bufferPkts, readOK, ackPkt, pkt, pc>>
        BY <1>7 DEF PeerStep, PeerAcks, PeerBuffers, PeerSends, PeerCloses, PeerResponds,
                    PeerTakes, PeerSays, ProcessUnchanged
    <2>2. ASSUME NEW s \in Sockets, NEW p \in Heard',
                 inbox' = [inbox EXCEPT ![s] = Append(@, p)]
          PROVE  HeardRight'
      <3>1. inbox' \in [Sockets -> Seq(Heard')]
          BY <1>1, <2>2 DEF HeardRight
      <3>2. QED
          BY <1>1, <2>1, <3>1 DEF HeardRight
    <2>3. ASSUME UNCHANGED inbox PROVE HeardRight'
        BY <1>2, <2>1, <2>3
    <2>4. ASSUME NEW p \in Packet, p.cmd # "ACK", Handlers # {} => p.tag \in PeerTags
          PROVE  p \in Heard'
        BY <2>4 DEF Heard
    <2>5. ASSUME NEW s \in Sockets, PeerAcks(s) PROVE HeardRight'
      <3>1. Head(outbox[s]) \in Packet
          BY <2>5 DEF PeerAcks, PeerTakes, TypeOK
      <3>2. AckOf(Head(outbox[s])) \in Packet /\ AckOf(Head(outbox[s])).cmd = "ACK"
          BY <3>1, CopiesTyped DEF AckOf, Packet
      <3>3. Head(outbox[s]) \in peerAcked'
          BY <2>5 DEF PeerAcks
      <3>4. AckOf(Head(outbox[s])) \in Heard'
          BY <3>2, <3>3 DEF Heard, Packet, Kinds
      <3>5. QED
          BY <2>2, <2>5, <3>4 DEF PeerAcks
    <2>6. ASSUME NEW s \in Sockets, PeerSends(s) PROVE HeardRight'
      <3>1. PICK kind \in {"REQ", "NOTE"} :
               inbox' = [inbox EXCEPT ![s] = Append(@,
                           [cmd |-> kind, num |-> peerSent[s], tag |-> PeerTag[s],
                            sock |-> s, what |-> kind])]
          BY <2>6 DEF PeerSends, PeerSays
      <3>2. peerSent[s] \in Nat /\ PeerTag[s] \in Tags
          BY TransportAssumption DEF TypeOK, Tags, PeerTags
      <3>3. PICK q \in Packet : q = [cmd |-> kind, num |-> peerSent[s], tag |-> PeerTag[s],
                                     sock |-> s, what |-> kind]
          BY <3>2 DEF Packet, Kinds
      <3>4. q.cmd # "ACK" /\ q.tag = PeerTag[s]
          BY <3>3
      <3>5. QED
          BY <2>2, <2>4, <3>1, <3>3, <3>4 DEF PeerTags
    <2>7. ASSUME NEW p \in owed, PeerResponds(p) PROVE HeardRight'
      <3>1. p \in Packet /\ p.sock \in Sockets
          BY DEF TypeOK, Packet
      <3>2. PICK q \in Packet : q = [p EXCEPT !.cmd = "RSP", !.what = "RSP"]
          BY <3>1, CopiesTyped
      <3>3. q.cmd # "ACK" /\ Handlers = {}
          BY <3>1, <3>2 DEF Packet
      <3>4. QED
          BY <2>2, <2>4, <2>7, <3>1, <3>2, <3>3 DEF PeerResponds, PeerSays
    <2>8. QED
        BY <1>7, <2>3, <2>5, <2>6, <2>7 DEF PeerStep, PeerBuffers, PeerCloses
  <1>8. QED
      BY <1>3, <1>4, <1>5, <1>6, <1>7 DEF Next

\* A packet being sent was numbered by the call that sends it, and only that
\* call has its number, or else is a response.
LEMMA NumberedKept ==
    ASSUME TypeOK, Roles, HeardRight, NEW own \in SUBSET Packet, Numbered(own),
           Next
    PROVE  \E new \in SUBSET Packet : Numbered(new)'
  <1> USE DEF localVars, netVars, peerVars, results, WriteReturns
  <1> DEFINE Sent == own \cup Responses
             Right(x) == IF x \in Owners THEN own ELSE Responses
  <1>1. packetSeqNum \in Nat /\ \A p \in own : p.num \in Nat
      BY TransportAssumption DEF TypeOK, Packet
  <1>2. /\ \A p \in own : p.num < packetSeqNum
        /\ \A p, q \in own : p.num = q.num => p = q
        /\ \A p \in own : Handlers # {} => p.cmd = "NOTE" /\ p.what = "NOTE"
        /\ outbox \in [Sockets -> Seq(Sent)]
        /\ peerAcked \subseteq Sent
        /\ \A x \in Threads : pc[x] \in WriteSteps \/ ret[x] = "ok" => pkt[x] \in Right(x)
        /\ Handlers # {} => owed = {}
      BY DEF Numbered
  <1>3. Responses' = Responses /\ \A x : Right(x)' = Right(x)
      BY DEF Responses, Owners
  <1>4. ASSUME UNCHANGED packetSeqNum,
               outbox' \in [Sockets -> Seq(Sent)], peerAcked' \subseteq Sent,
               \A x \in Threads : pc'[x] \in WriteSteps \/ ret'[x] = "ok" => pkt'[x] \in Right(x),
               Handlers # {} => owed' = {}
        PROVE  Numbered(own)'
      BY <1>2, <1>4 DEF Numbered, Responses, Owners
  <1>5. ASSUME UNCHANGED <<packetSeqNum, outbox, peerAcked, owed>>,
               \A x \in Threads : pc'[x] \in WriteSteps \/ ret'[x] = "ok" => pkt'[x] \in Right(x)
        PROVE  Numbered(own)'
    <2> HIDE DEF Sent, Right
    <2>1. QED
        BY <1>2, <1>4, <1>5
  <1>6. ASSUME NEW t \in Owners, NEW s \in Sockets, NEW p \in Packet,
               p.num = packetSeqNum, packetSeqNum' = packetSeqNum + 1, Begin(t, s, p),
               Handlers # {} => p.cmd = "NOTE" /\ p.what = "NOTE"
        PROVE  Numbered(own \cup {p})'
    <2> DEFINE new == own \cup {p}
    <2>1. /\ UNCHANGED <<outbox, peerAcked, owed>>
          /\ pkt' = [pkt EXCEPT ![t] = p]
          /\ pc' = [pc EXCEPT ![t] = "send"]
          /\ ret' = [ret EXCEPT ![t] = "none"]
        BY <1>6 DEF Begin
    <2>2. outbox' \in [Sockets -> Seq(new \cup Responses)]
      <3> HIDE DEF Responses
      <3>1. \A seq \in Seq(own \cup Responses) : seq \in Seq(new \cup Responses)
          OBVIOUS
      <3>2. QED
          BY <1>2, <2>1, <3>1
    <2>3. \A q \in new : q.num < packetSeqNum'
        BY <1>1, <1>2, <1>6
    <2>4. \A q, r \in new : q.num = r.num => q = r
        BY <1>1, <1>2, <1>6
    <2>5. \A q \in new : Handlers # {} => q.cmd = "NOTE" /\ q.what = "NOTE"
        BY <1>2, <1>6
    <2>6. \A x \in Threads :
             pc'[x] \in WriteSteps \/ ret'[x] = "ok" =>
                pkt'[x] \in (IF x \in Owners THEN new ELSE Responses)
      <3> HIDE DEF Responses, Owners
      <3>1. \A x \in Threads \ {t} : pc'[x] = pc[x] /\ ret'[x] = ret[x] /\ pkt'[x] = pkt[x]
          BY <2>1 DEF TypeOK
      <3>2. t \in Threads => pkt'[t] = p
          BY <2>1 DEF TypeOK
      <3>3. QED
          BY <1>2, <1>6, <3>1, <3>2
    <2>7. peerAcked' \subseteq new \cup Responses
        BY <1>2, <2>1
    <2>8. Handlers # {} => owed' = {}
        BY <1>2, <2>1
    <2>9. QED
        BY <2>2, <2>3, <2>4, <2>5, <2>6, <2>7, <2>8 DEF Numbered, Responses, Owners
  <1>7. ASSUME NEW t \in Threads, Call(t) PROVE \E new \in SUBSET Packet : Numbered(new)'
    <2>1. CASE Request(t)
      <3>1. PICK g \in OwnTags :
               Begin(t, SockOf[t], [cmd |-> "REQ", num |-> packetSeqNum, tag |-> g,
                                    sock |-> SockOf[t], what |-> "REQ"])
          BY <2>1 DEF Request
      <3>2. SockOf[t] \in Sockets /\ t \in Owners /\ Handlers = {}
          BY <2>1, TransportAssumption, RolesAssumption DEF Request, Owners, Threads, IsServer
      <3>3. PICK p \in Packet : p = [cmd |-> "REQ", num |-> packetSeqNum, tag |-> g,
                                     sock |-> SockOf[t], what |-> "REQ"]
          BY <1>1, <3>2 DEF Packet, Kinds, Tags
      <3>4. p.num = packetSeqNum /\ packetSeqNum' = packetSeqNum + 1 /\ Begin(t, SockOf[t], p)
          BY <2>1, <3>1, <3>3 DEF Request, NewNumber
      <3>5. Numbered(own \cup {p})'
          BY <1>6, <3>2, <3>4
      <3>6. QED
          BY <3>5
    <2>2. ASSUME NEW s \in Sockets, Notify(t, s)
          PROVE  \E new \in SUBSET Packet : Numbered(new)'
      <3>1. PICK g \in NoteTags :
               Begin(t, s, [cmd |-> "NOTE", num |-> packetSeqNum, tag |-> g,
                            sock |-> s, what |-> "NOTE"])
          BY <2>2 DEF Notify
      <3>2. t \in Owners
          BY <2>2 DEF Notify, Owners
      <3>3. PICK p \in Packet : p = [cmd |-> "NOTE", num |-> packetSeqNum, tag |-> g,
                                     sock |-> s, what |-> "NOTE"]
          BY <1>1 DEF Packet, Kinds, Tags
      <3>4. /\ p.num = packetSeqNum /\ packetSeqNum' = packetSeqNum + 1 /\ Begin(t, s, p)
            /\ p.cmd = "NOTE" /\ p.what = "NOTE"
          BY <2>2, <3>1, <3>3 DEF Notify, NewNumber
      <3>5. Numbered(own \cup {p})'
          BY <1>6, <3>2, <3>4
      <3>6. QED
          BY <3>5
    <2>3. CASE Respond(t)
      <3>1. PICK p : /\ p = [cmd |-> "RSP", num |-> pkt[t].num, tag |-> pkt[t].tag,
                            sock |-> SockOf[t], what |-> "RSP"]
                     /\ Begin(t, SockOf[t], p)
          BY <2>3 DEF Respond
      <3>2. t \in Handlers /\ t \notin Owners /\ SockOf[t] \in Sockets
          BY <2>3, TransportAssumption DEF Respond, Owners, Threads
      <3>3. pkt[t] \in Heard /\ pkt[t].cmd # "ACK"
          BY <2>3 DEF Respond, HeardRight
      <3>4. pkt[t] \in Packet /\ pkt[t].tag \in PeerTags
          BY <3>2, <3>3 DEF Heard
      <3>5. p \in Responses
          BY <3>1, <3>2, <3>4 DEF Responses, Packet, Kinds
      <3>6. /\ UNCHANGED <<packetSeqNum, outbox, peerAcked, owed>>
            /\ pkt' = [pkt EXCEPT ![t] = p]
            /\ pc' = [pc EXCEPT ![t] = "send"]
            /\ ret' = [ret EXCEPT ![t] = "none"]
          BY <2>3, <3>1 DEF Respond, Begin
      <3>7. \A x \in Threads : pc'[x] \in WriteSteps \/ ret'[x] = "ok" => pkt'[x] \in Right(x)
        <4> HIDE DEF Responses, Owners
        <4>1. QED
            BY <1>2, <3>2, <3>5, <3>6 DEF TypeOK
      <3>8. Numbered(own)'
          BY <1>5, <3>6, <3>7
      <3>9. QED
          BY <3>8
    <2>4. CASE NoResponse(t)
      <3>1. Numbered(own)'
          BY <1>2, <1>5, <2>4 DEF NoResponse, TypeOK, WriteSteps
      <3>2. QED
          BY <3>1
    <2>5. QED
        BY <1>7, <2>1, <2>2, <2>3, <2>4 DEF Call
  <1>8. ASSUME NEW t \in Threads, WriteStep(t) PROVE Numbered(own)'
    <2>1. pc[t] \in WriteSteps
        BY <1>8 DEF WriteStep, SendPacket, SendFails, ScanBegins, ScanTurn, ScanEnds,
                    SetTimeout, Judge, WriteReadsNothing, WriteSteps
    <2>2. UNCHANGED <<packetSeqNum, peerAcked, pkt, owed>>
        BY <1>8 DEF WriteStep, SendPacket, SendFails, ScanBegins, ScanTurn, ScanEnds,
                    SetTimeout, Judge, WriteReadsNothing
    <2>3. \A x \in Threads \ {t} : pc'[x] = pc[x] /\ ret'[x] = ret[x]
      <3>1. CASE SendPacket(t) \/ SendFails(t) \/ ScanBegins(t) \/ ScanTurn(t)
          BY <3>1 DEF SendPacket, SendFails, ScanBegins, ScanTurn, TypeOK
      <3>2. CASE ScanEnds(t) \/ SetTimeout(t) \/ Judge(t) \/ WriteReadsNothing(t)
          BY <3>2 DEF ScanEnds, SetTimeout, Judge, WriteReadsNothing, TypeOK
      <3>3. QED
          BY <1>8, <3>1, <3>2 DEF WriteStep
    <2>4. \A x \in Threads : pc'[x] \in WriteSteps \/ ret'[x] = "ok" => pkt'[x] \in Right(x)
      <3> HIDE DEF Right
      <3>1. QED
          BY <1>2, <2>1, <2>2, <2>3
    <2>5. CASE UNCHANGED outbox
        BY <1>5, <2>2, <2>4, <2>5
    <2>6. CASE SendPacket(t)
      <3>1. pkt[t] \in Sent
        <4> HIDE DEF Responses, Owners
        <4>1. QED
            BY <1>2, <2>1
      <3>2. outbox[sock[t]] \in Seq(Sent) /\ sock[t] \in Sockets
          BY <1>2 DEF TypeOK
      <3>3. Append(outbox[sock[t]], pkt[t]) \in Seq(Sent)
        <4> HIDE DEF Sent
        <4>1. QED
            BY <3>1, <3>2
      <3>4. outbox' = [outbox EXCEPT ![sock[t]] = Append(@, pkt[t])]
          BY <2>6 DEF SendPacket
      <3>5. outbox' \in [Sockets -> Seq(Sent)]
        <4> HIDE DEF Sent
        <4>1. QED
            BY <1>2, <3>3, <3>4
      <3>6. QED
        <4> HIDE DEF Sent, Right
        <4>1. QED
            BY <1>2, <1>4, <2>2, <2>4, <3>5
    <2>7. QED
        BY <1>8, <2>5, <2>6 DEF WriteStep, SendFails, ScanBegins, ScanTurn, ScanEnds,
                    SetTimeout, Judge, WriteReadsNothing
  <1>9. ASSUME NEW t \in Threads, ReadStep(t) PROVE Numbered(own)'
    <2>1. UNCHANGED <<packetSeqNum, outbox, peerAcked, owed>>
        BY <1>9 DEF ReadStep, BeginRead, ReadScan, ReadNothing, KeepAck, SendAck
    <2>2. ASSUME NEW code \in Returns \ {"ok"}, ReadStops(t, code)
          PROVE  /\ \A x \in Threads \ {t} : pc'[x] \in {pc[x], "gone"} /\ ret'[x] = ret[x]
                 /\ pc'[t] \in {"idle", "gone"} /\ ret'[t] # "ok"
        BY <2>2 DEF ReadStops, TypeOK
    <2>3. ASSUME NEW p, ReadReturns(t, p)
          PROVE  /\ \A x \in Threads \ {t} :
                       pc'[x] = pc[x] /\ ret'[x] = ret[x] /\ pkt'[x] = pkt[x]
                 /\ pc'[t] \in {"idle", "reply"} /\ ret'[t] # "ok"
        BY <2>3 DEF ReadReturns, TypeOK
    <2>4. pc[t] \in ReadSteps => ret[t] # "ok"
        BY DEF Roles
    <2>5. /\ \A x \in Threads \ {t} :
                pc'[x] \in {pc[x], "gone"} /\ ret'[x] = ret[x] /\ pkt'[x] = pkt[x]
          /\ pc'[t] \in {"idle", "gone", "reply", "rscan", "rstart"} /\ ret'[t] # "ok"
      <3>1. CASE BeginRead(t)
          BY <3>1 DEF BeginRead, TypeOK
      <3>2. CASE ReadScan(t)
        <4>1. \/ \E i \in DOMAIN bufferPkts : ReadReturns(t, bufferPkts[i])
              \/ pc' = [pc EXCEPT ![t] = "rstart"] /\ pkt' = pkt /\ ret' = ret
            BY <3>2 DEF ReadScan
        <4>2. ret[t] # "ok"
            BY <2>4, <3>2 DEF ReadScan, ReadSteps
        <4>3. QED
            BY <2>3, <4>1, <4>2 DEF TypeOK
      <3>3. CASE ReadNothing(t)
        <4>1. pkt' = pkt /\ \E code \in {"-9", "0"} : ReadStops(t, code)
            BY <3>3 DEF ReadNothing
        <4>2. QED
            BY <2>2, <4>1 DEF Returns
      <3>4. CASE KeepAck(t)
        <4>1. ret[t] # "ok"
            BY <2>4, <3>4 DEF KeepAck, ReadSteps
        <4>2. /\ pkt' = pkt
              /\ \/ pc' = [pc EXCEPT ![t] = "rstart"] /\ ret' = ret
                 \/ ReadStops(t, "-4")
            BY <3>4 DEF KeepAck
        <4>3. QED
            BY <2>2, <4>1, <4>2 DEF TypeOK, Returns
      <3>5. CASE SendAck(t)
        <4>1. ReadReturns(t, pkt[t]) \/ (pkt' = pkt /\ ReadStops(t, "-3"))
            BY <3>5 DEF SendAck
        <4>2. QED
            BY <2>2, <2>3, <4>1 DEF Returns
      <3>6. QED
          BY <1>9, <3>1, <3>2, <3>3, <3>4, <3>5 DEF ReadStep
    <2>6. \A x \in Threads : pc'[x] \in WriteSteps \/ ret'[x] = "ok" => pkt'[x] \in Right(x)
      <3> HIDE DEF Right
      <3>1. QED
          BY <1>2, <2>5 DEF WriteSteps
    <2>7. QED
        BY <1>5, <2>1, <2>6
  <1>10. ASSUME NEW t \in Threads, StartReceive(t) \/ Receive(t) PROVE Numbered(own)'
    <2>1. UNCHANGED <<packetSeqNum, outbox, peerAcked, owed, ret>>
        BY <1>10 DEF StartReceive, Receive
    <2>2. \A x \in Threads : pc'[x] \in WriteSteps => pc[x] \in WriteSteps
        BY <1>10 DEF StartReceive, Receive, TypeOK, WriteSteps, ReadSteps
    <2>3. \A x \in Threads : pc'[x] \in WriteSteps \/ ret'[x] = "ok" => pkt'[x] = pkt[x]
        BY <1>10 DEF StartReceive, Receive, TypeOK, Roles, WriteSteps, ReadSteps
    <2>4. \A x \in Threads : pc'[x] \in WriteSteps \/ ret'[x] = "ok" => pkt'[x] \in Right(x)
      <3> HIDE DEF Right
      <3>1. QED
          BY <1>2, <2>1, <2>2, <2>3
    <2>5. QED
        BY <1>5, <2>1, <2>4
  <1>11. CASE PeerStep
    <2>1. UNCHANGED <<packetSeqNum, pkt, pc, ret>>
        BY <1>11 DEF PeerStep, PeerAcks, PeerBuffers, PeerSends, PeerCloses, PeerResponds,
                    PeerTakes, PeerSays, ProcessUnchanged
    <2>2. \A x \in Threads : pc'[x] \in WriteSteps \/ ret'[x] = "ok" => pkt'[x] \in Right(x)
      <3> HIDE DEF Right
      <3>1. QED
          BY <1>2, <2>1
    <2>3. CASE UNCHANGED <<outbox, peerAcked>> /\ owed' \subseteq owed
      <3> HIDE DEF Sent, Right
      <3>1. QED
          BY <1>2, <1>4, <2>1, <2>2, <2>3
    <2>4. ASSUME NEW s \in Sockets, PeerTakes(s),
                 peerAcked' \subseteq peerAcked \cup {Head(outbox[s])}
          PROVE  Numbered(own)'
      <3>1. outbox[s] \in Seq(Sent) /\ outbox[s] # <<>>
          BY <1>2, <2>4 DEF PeerTakes
      <3>2. Head(outbox[s]) \in Sent /\ Tail(outbox[s]) \in Seq(Sent)
        <4> HIDE DEF Sent
        <4>1. QED
            BY <3>1
      <3>3. outbox' \in [Sockets -> Seq(Sent)] /\ peerAcked' \subseteq Sent
        <4> HIDE DEF Sent
        <4>1. QED
            BY <1>2, <2>4, <3>2 DEF PeerTakes
      <3>4. Handlers # {} => Head(outbox[s]).cmd # "REQ"
          BY <1>2, <3>2 DEF Responses
      <3>5. Handlers # {} => owed' = {}
          BY <1>2, <2>4, <3>4 DEF PeerTakes
      <3>6. QED
        <4> HIDE DEF Sent, Right
        <4>1. QED
            BY <1>4, <2>1, <2>2, <3>3, <3>5
    <2>5. QED
        BY <1>11, <2>3, <2>4 DEF PeerStep, PeerAcks, PeerBuffers, PeerSends, PeerCloses,
                    PeerResponds, PeerSays
  <1>12. QED
      BY <1>7, <1>8, <1>9, <1>10, <1>11 DEF Next

\* A call that returns 0 has been acknowledged, and a packet stays so.
LEMMA AckKept ==
    ASSUME AckInv, Next
    PROVE  AckSoundness'
  <1> USE DEF localVars, netVars, peerVars, results, WriteReturns
  <1>1. TypeOK /\ Roles /\ HeardRight /\ AckSoundness
      BY DEF AckInv
  <1>2. PICK own \in SUBSET Packet : Numbered(own)
      BY DEF AckInv
  <1>3. peerAcked \subseteq peerAcked'
      BY AckedGrows
  <1>4. ASSUME \A t \in Threads : ret'[t] = "ok" => ret[t] = "ok" /\ pkt'[t] = pkt[t]
        PROVE  AckSoundness'
      BY <1>1, <1>3, <1>4 DEF AckSoundness
  <1>5. ASSUME NEW t \in Threads, Call(t) PROVE AckSoundness'
    <2>1. CASE NoResponse(t)
        BY <1>4, <2>1 DEF NoResponse
    <2>2. CASE Request(t) \/ Respond(t) \/ \E s \in Sockets : Notify(t, s)
      <3>1. ret' = [ret EXCEPT ![t] = "none"] /\ \E p : pkt' = [pkt EXCEPT ![t] = p]
          BY <2>2 DEF Request, Respond, Notify, Begin
      <3>2. \A x \in Threads : ret'[x] = "ok" => ret[x] = "ok" /\ pkt'[x] = pkt[x]
          BY <1>1, <3>1 DEF TypeOK
      <3>3. QED
          BY <1>4, <3>2
    <2>3. QED
        BY <1>5, <2>1, <2>2 DEF Call
  <1>6. ASSUME NEW t \in Threads, WriteStep(t) PROVE AckSoundness'
    <2>1. pkt' = pkt
        BY <1>6 DEF WriteStep, SendPacket, SendFails, ScanBegins, ScanTurn, ScanEnds,
                    SetTimeout, Judge, WriteReadsNothing
    <2>2. ASSUME NEW code \in Returns \ {"ok"}, ret' = ret \/ ret' = [ret EXCEPT ![t] = code]
          PROVE  AckSoundness'
        BY <1>1, <1>4, <2>1, <2>2 DEF TypeOK
    <2>3. CASE /\ Judge(t) /\ ackPkt[t].cmd = "ACK" /\ ackPkt[t].num = pkt[t].num
               /\ ackPkt[t].tag = pkt[t].tag
      <3>1. pc[t] \in WriteSteps /\ ackPkt[t] \in Heard
          BY <1>1, <2>3 DEF Judge, HeardRight, WriteSteps
      <3>2. pkt[t] \in own \/ pkt[t] \in Responses
          BY <1>2, <3>1 DEF Numbered
      <3>3. PICK q \in peerAcked : ackPkt[t] = AckOf(q)
          BY <2>3, <3>1 DEF Heard
      <3>4. q \in Packet /\ (q \in own \/ q \in Responses)
          BY <1>2, <3>3 DEF Numbered, Responses
      <3>5. q.num = pkt[t].num /\ q.tag = pkt[t].tag
          BY <2>3, <3>3, <3>4 DEF AckOf, Packet
      <3>6. pkt[t] \in own /\ (pkt[t].what = "NOTE" => pkt[t].tag \notin PeerTags) => q \in own
        <4>1. pkt[t] \in own /\ Handlers # {} => pkt[t].what = "NOTE"
            BY <1>2 DEF Numbered
        <4>2. QED
            BY <3>4, <3>5, <4>1 DEF Responses
      <3>7. pkt[t] \in own /\ (pkt[t].what = "NOTE" => pkt[t].tag \notin PeerTags)
            => pkt[t] \in peerAcked
        <4>1. ASSUME NEW p \in own, NEW r \in own, p.num = r.num PROVE p = r
            BY <1>2, <4>1 DEF Numbered
        <4>2. QED
            BY <3>3, <3>5, <3>6, <4>1
      <3>8. pkt[t].what # "RSP" /\ (pkt[t].what = "NOTE" => pkt[t].tag \notin PeerTags)
            => pkt[t] \in peerAcked
          BY <3>2, <3>7 DEF Responses
      <3>9. \A x \in Threads \ {t} : ret'[x] = ret[x]
          BY <1>1, <2>3 DEF Judge, TypeOK
      <3>10. QED
          BY <1>1, <1>3, <2>1, <3>8, <3>9 DEF AckSoundness
    <2>4. CASE /\ Judge(t)
               /\ ~ (ackPkt[t].cmd = "ACK" /\ ackPkt[t].num = pkt[t].num
                     /\ ackPkt[t].tag = pkt[t].tag)
      <3>1. ret' = ret \/ ret' = [ret EXCEPT ![t] = "-4"] \/ ret' = [ret EXCEPT ![t] = "-3"]
          BY <2>4 DEF Judge
      <3>2. QED
          BY <2>2, <3>1 DEF Returns
    <2>5. QED
        BY <1>6, <2>2, <2>3, <2>4 DEF WriteStep, SendPacket, SendFails, ScanBegins, ScanTurn,
                    ScanEnds, SetTimeout, WriteReadsNothing, Returns
  <1>7. ASSUME NEW t \in Threads, ReadStep(t) \/ StartReceive(t) \/ Receive(t)
        PROVE  AckSoundness'
    <2>1. \A x \in Threads \ {t} : pkt'[x] = pkt[x]
      <3>1. pkt' = pkt \/ \E p : pkt' = [pkt EXCEPT ![t] = p]
          BY <1>7 DEF ReadStep, BeginRead, ReadScan, ReadNothing, KeepAck, SendAck, ReadReturns,
                      StartReceive, Receive
      <3>2. QED
          BY <1>1, <3>1 DEF TypeOK
    <2>2. \A x \in Threads : ret'[x] = "ok" => ret[x] = "ok"
      <3>1. ret' = ret \/ \E code : code # "ok" /\ ret' = [ret EXCEPT ![t] = code]
          BY <1>7 DEF ReadStep, BeginRead, ReadScan, ReadNothing, KeepAck, SendAck, ReadReturns,
                      ReadStops, StartReceive, Receive
      <3>2. QED
          BY <1>1, <3>1 DEF TypeOK
    <2>3. ret'[t] = "ok" => pkt'[t] = pkt[t]
      <3>1. CASE BeginRead(t)
          BY <3>1 DEF BeginRead
      <3>2. CASE pc[t] \in ReadSteps
          BY <1>1, <2>2, <3>2 DEF Roles
      <3>3. CASE StartReceive(t)
          BY <3>3 DEF StartReceive
      <3>4. CASE Receive(t) /\ pc[t] = "wrecv"
          BY <3>4 DEF Receive
      <3>5. Receive(t) => pc[t] = "wrecv" \/ pc[t] \in ReadSteps
          BY DEF Receive, ReadSteps
      <3>6. ReadStep(t) => BeginRead(t) \/ pc[t] \in ReadSteps
          BY DEF ReadStep, ReadScan, ReadNothing, KeepAck, SendAck, ReadSteps
      <3>7. QED
          BY <1>7, <3>1, <3>2, <3>3, <3>4, <3>5, <3>6
    <2>4. QED
        BY <1>4, <2>1, <2>2, <2>3
  <1>8. CASE PeerStep
    <2>1. UNCHANGED <<pkt, ret>>
        BY <1>8 DEF PeerStep, PeerAcks, PeerBuffers, PeerSends, PeerCloses, PeerResponds,
                    PeerTakes, PeerSays, ProcessUnchanged
    <2>2. QED
        BY <1>4, <2>1
  <1>9. QED
      BY <1>5, <1>6, <1>7, <1>8 DEF Next

LEMMA StepAck ==
    ASSUME AckInv, [Next]_vars
    PROVE  AckInv'
  <1>1. CASE Next
    <2>1. PICK own \in SUBSET Packet : Numbered(own)
        BY DEF AckInv
    <2>2. \E new \in SUBSET Packet : Numbered(new)'
        BY <1>1, <2>1, NumberedKept DEF AckInv
    <2>3. Handlers # {} => owed = {}
        BY <2>1 DEF Numbered
    <2>4. TypeOK' /\ Roles' /\ HeardRight' /\ AckSoundness'
        BY <1>1, <2>3, StepTyped, RolesKept, HeardKept, AckKept DEF AckInv
    <2>5. QED
        BY <2>2, <2>4 DEF AckInv
  <1>2. CASE UNCHANGED vars
    <2>1. TypeOK' /\ AckSoundness' /\ Roles'
      <3>1. TypeOK'
          BY StepTyped DEF AckInv
      <3>2. UNCHANGED <<pc, ret, pkt, peerAcked>>
          BY <1>2 DEF vars, localVars, netVars, peerVars, results
      <3>3. Roles' /\ AckSoundness'
          BY <3>2 DEF AckInv, Roles, Owners, AckSoundness
      <3>4. QED
          BY <3>1, <3>3
    <2>2. Heard' = Heard
      <3>1. peerAcked' = peerAcked
          BY <1>2 DEF vars, netVars, peerVars
      <3>2. QED
          BY <3>1 DEF Heard
    <2>3. HeardRight'
        BY <1>2, <2>2 DEF vars, localVars, netVars, AckInv, HeardRight
    <2>4. PICK own \in SUBSET Packet : Numbered(own)
        BY DEF AckInv
    <2>5. Numbered(own)'
        BY <1>2, <2>4 DEF vars, localVars, netVars, peerVars, results, Numbered, Responses
    <2>6. QED
        BY <2>1, <2>3, <2>4, <2>5 DEF AckInv
  <1>3. QED
      BY <1>1, <1>2

\* In the client and in the server, whatever thread read, buffered or found the
\* acknowledgement, write_socket returns 0 for a request, or for a notification
\* whose unset sessionId is no session of a peer, only if the peer has
\* acknowledged it: neither another packet's ACK nor an old one is credited.
THEOREM AckSound == Spec => []AckSoundness
  <1>1. AckInv /\ [Next]_vars => AckInv'
      BY StepAck
  <1>2. AckInv => AckSoundness
      BY DEF AckInv
  <1>3. QED
      BY InitAck, <1>1, <1>2, PTL DEF Spec

-----------------------------------------------------------------------------
(* The timeout of a handler's socket.                                      *)

\* A handler writes to its own socket, whose timeout it has turned on before
\* it begins to read.
Timed ==
    \A t \in Handlers :
       /\ pc[t] \in WriteSteps => sock[t] = SockOf[t]
       /\ pc[t] = "wstart" => timeout[sock[t]]
       /\ pc[t] = "wrecv" => limited[t]

\* Only BeginRead turns a timeout off, and only its own thread's.
LEMMA TimedKept == TypeOK /\ Timed /\ [Next]_vars => Timed'
  <1> SUFFICES ASSUME TypeOK, Timed, [Next]_vars PROVE Timed'
      OBVIOUS
  <1>1. Handlers \subseteq Threads
      BY DEF Threads
  <1>2. ASSUME UNCHANGED <<sock, timeout, limited>>,
               \A x \in Handlers : pc'[x] = pc[x] \/ pc'[x] \notin WriteSteps
        PROVE  Timed'
      BY <1>2 DEF Timed, WriteSteps
  <1>3. ASSUME UNCHANGED <<sock, timeout, limited>>, NEW t \in Threads, NEW p,
               pc' = [pc EXCEPT ![t] = p], p \notin {"wstart", "wrecv"},
               p \in WriteSteps => pc[t] \in WriteSteps
        PROVE  Timed'
    <2>1. \A x \in Handlers \ {t} : pc'[x] = pc[x]
        BY <1>1, <1>3 DEF TypeOK
    <2>2. pc'[t] = p
        BY <1>3 DEF TypeOK
    <2>3. QED
        BY <1>3, <2>1, <2>2 DEF Timed
  <1>4. ASSUME NEW t \in Threads, Call(t) PROVE Timed'
    <2>1. CASE NoResponse(t)
        BY <1>3, <2>1 DEF NoResponse, localVars, WriteSteps
    <2>2. CASE Request(t) \/ Respond(t) \/ \E s \in Sockets : Notify(t, s)
      <3>1. PICK s \in Sockets :
               /\ t \in Handlers => s = SockOf[t]
               /\ pc' = [pc EXCEPT ![t] = "send"]
               /\ sock' = [sock EXCEPT ![t] = s]
               /\ UNCHANGED <<timeout, limited>>
          BY <2>2, TransportAssumption DEF Request, Respond, Notify, Begin, Threads
      <3>2. \A x \in Handlers \ {t} : pc'[x] = pc[x] /\ sock'[x] = sock[x]
          BY <1>1, <3>1 DEF TypeOK
      <3>3. pc'[t] = "send" /\ sock'[t] = s
          BY <3>1 DEF TypeOK
      <3>4. QED
          BY <3>1, <3>2, <3>3 DEF Timed
    <2>3. QED
        BY <1>4, <2>1, <2>2 DEF Call
  <1>5. ASSUME NEW t \in Threads, WriteStep(t) PROVE Timed'
    <2> USE DEF localVars, WriteReturns
    <2>1. CASE SendPacket(t)
        BY <1>3, <2>1 DEF SendPacket, WriteSteps
    <2>2. CASE SendFails(t)
        BY <1>3, <2>2 DEF SendFails, WriteSteps
    <2>3. CASE ScanBegins(t)
        BY <1>3, <2>3 DEF ScanBegins, WriteSteps
    <2>4. CASE ScanTurn(t)
        BY <1>2, <2>4 DEF ScanTurn
    <2>5. CASE ScanEnds(t)
      <3>1. PICK p \in {"opt", "judge", "idle"} : pc' = [pc EXCEPT ![t] = p]
        <4>1. \/ pc' = [pc EXCEPT ![t] = "opt"]
              \/ pc' = [pc EXCEPT ![t] = "judge"]
              \/ pc' = [pc EXCEPT ![t] = "idle"]
            BY <2>5 DEF ScanEnds
        <4>2. QED
            BY <4>1
      <3>2. UNCHANGED <<sock, timeout, limited>> /\ pc[t] \in WriteSteps
          BY <2>5 DEF ScanEnds, WriteSteps
      <3>3. p \notin {"wstart", "wrecv"}
          BY <3>1
      <3>4. QED
          BY <1>3, <3>1, <3>2, <3>3
    <2>6. CASE Judge(t)
      <3>1. PICK p \in {"scan", "idle"} : pc' = [pc EXCEPT ![t] = p]
          BY <2>6 DEF Judge
      <3>2. UNCHANGED <<sock, timeout, limited>> /\ pc[t] \in WriteSteps
          BY <2>6 DEF Judge, WriteSteps
      <3>3. QED
          BY <1>3, <3>1, <3>2
    <2>7. CASE WriteReadsNothing(t)
      <3>1. PICK p : p = "scan" /\ pc' = [pc EXCEPT ![t] = p]
          BY <2>7 DEF WriteReadsNothing
      <3>2. UNCHANGED <<sock, timeout, limited>> /\ pc[t] \in WriteSteps
          BY <2>7 DEF WriteReadsNothing, WriteSteps
      <3>3. p \notin {"wstart", "wrecv"}
          BY <3>1
      <3>4. QED
          BY <1>3, <3>1, <3>2, <3>3
    <2>8. CASE SetTimeout(t)
      <3>1. CASE /\ timeout' = [timeout EXCEPT ![sock[t]] = TRUE]
                 /\ pc' = [pc EXCEPT ![t] = "wstart"]
        <4>1. \A s \in Sockets : timeout[s] => timeout'[s]
            BY <3>1 DEF TypeOK
        <4>2. timeout'[sock[t]] /\ \A x \in Handlers : sock[x] \in Sockets
            BY <1>1, <3>1 DEF TypeOK
        <4>3. \A x \in Handlers \ {t} : pc'[x] = pc[x]
            BY <1>1, <3>1 DEF TypeOK
        <4>4. pc[t] = "opt" /\ pc'[t] = "wstart"
            BY <2>8, <3>1 DEF SetTimeout, TypeOK
        <4>5. UNCHANGED <<sock, limited>>
            BY <2>8 DEF SetTimeout
        <4>6. QED
            BY <4>1, <4>2, <4>3, <4>4, <4>5 DEF Timed, WriteSteps
      <3>2. CASE timeout' = timeout /\ pc' = [pc EXCEPT ![t] = "idle"]
        <4>1. UNCHANGED <<sock, timeout, limited>>
            BY <2>8, <3>2 DEF SetTimeout
        <4>2. \A x \in Handlers : pc'[x] = pc[x] \/ pc'[x] \notin WriteSteps
            BY <1>1, <3>2 DEF TypeOK, WriteSteps
        <4>3. QED
            BY <1>2, <4>1, <4>2
      <3>3. QED
          BY <2>8, <3>1, <3>2 DEF SetTimeout
    <2>9. QED
        BY <1>5, <2>1, <2>2, <2>3, <2>4, <2>5, <2>6, <2>7, <2>8 DEF WriteStep
  <1>6. ASSUME NEW t \in Threads, ReadStep(t) PROVE Timed'
    <2>1. ASSUME NEW code, ReadStops(t, code)
          PROVE  \A x \in Handlers : pc'[x] = pc[x] \/ pc'[x] \notin WriteSteps
      <3>1. \A x \in Threads : pc'[x] = pc[x] \/ pc'[x] \in {"idle", "gone"}
          BY <2>1 DEF ReadStops, TypeOK
      <3>2. QED
          BY <1>1, <3>1 DEF WriteSteps
    <2>2. ASSUME NEW p, ReadReturns(t, p)
          PROVE  \A x \in Handlers : pc'[x] = pc[x] \/ pc'[x] \notin WriteSteps
      <3>1. \A x \in Threads : pc'[x] = pc[x] \/ pc'[x] \in {"idle", "reply"}
          BY <2>2 DEF ReadReturns, TypeOK
      <3>2. QED
          BY <1>1, <3>1 DEF WriteSteps
    <2>3. ASSUME pc' = [pc EXCEPT ![t] = "rstart"]
          PROVE  \A x \in Handlers : pc'[x] = pc[x] \/ pc'[x] \notin WriteSteps
        BY <1>1, <2>3 DEF TypeOK, WriteSteps
    <2>4. CASE BeginRead(t)
      <3>1. t \in Handlers \/ Handlers = {}
          BY <2>4, RolesAssumption DEF BeginRead, IsServer
      <3>2. /\ pc' = [pc EXCEPT ![t] = "rscan"]
            /\ sock' = [sock EXCEPT ![t] = SockOf[t]]
            /\ timeout' = [timeout EXCEPT ![SockOf[t]] = FALSE]
            /\ limited' = limited
          BY <2>4 DEF BeginRead
      <3>3. pc'[t] \notin WriteSteps
          BY <3>2 DEF TypeOK, WriteSteps
      <3>4. \A x \in Handlers \ {t} : pc'[x] = pc[x] /\ sock'[x] = sock[x]
          BY <1>1, <3>2 DEF TypeOK
      <3>5. ASSUME NEW x \in Handlers \ {t}, pc[x] = "wstart"
            PROVE  timeout'[sock[x]]
        <4>1. sock[x] = SockOf[x] /\ timeout[sock[x]] /\ sock[x] \in Sockets
            BY <1>1, <3>5 DEF Timed, TypeOK, WriteSteps
        <4>2. SockOf[x] # SockOf[t]
            BY <3>1, <3>5, RolesAssumption
        <4>3. QED
            BY <3>2, <4>1, <4>2 DEF TypeOK
      <3>6. QED
          BY <3>2, <3>3, <3>4, <3>5 DEF Timed, WriteSteps
    <2>5. CASE ReadScan(t)
      <3>1. UNCHANGED <<sock, timeout, limited>>
          BY <2>5 DEF ReadScan
      <3>2. \/ \E p : ReadReturns(t, p)
            \/ pc' = [pc EXCEPT ![t] = "rstart"]
          BY <2>5 DEF ReadScan
      <3>3. QED
          BY <1>2, <2>2, <2>3, <3>1, <3>2
    <2>6. CASE ReadNothing(t)
      <3>1. UNCHANGED <<sock, timeout, limited>> /\ \E code : ReadStops(t, code)
          BY <2>6 DEF ReadNothing, localVars
      <3>2. QED
          BY <1>2, <2>1, <3>1
    <2>7. CASE KeepAck(t)
      <3>1. UNCHANGED <<sock, timeout, limited>>
          BY <2>7 DEF KeepAck, localVars
      <3>2. ReadStops(t, "-4") \/ pc' = [pc EXCEPT ![t] = "rstart"]
          BY <2>7 DEF KeepAck
      <3>3. QED
          BY <1>2, <2>1, <2>3, <3>1, <3>2
    <2>8. CASE SendAck(t)
      <3>1. UNCHANGED <<sock, timeout, limited>>
          BY <2>8 DEF SendAck
      <3>2. ReadReturns(t, pkt[t]) \/ ReadStops(t, "-3")
          BY <2>8 DEF SendAck
      <3>3. QED
          BY <1>2, <2>1, <2>2, <3>1, <3>2
    <2>9. QED
        BY <1>6, <2>4, <2>5, <2>6, <2>7, <2>8 DEF ReadStep
  <1>7. ASSUME NEW t \in Threads, StartReceive(t) PROVE Timed'
    <2>1. /\ limited' = [limited EXCEPT ![t] = timeout[sock[t]]]
          /\ UNCHANGED <<sock, timeout>>
          /\ \/ pc[t] = "wstart" /\ pc' = [pc EXCEPT ![t] = "wrecv"]
             \/ pc[t] = "rstart" /\ pc' = [pc EXCEPT ![t] = "rrecv"]
        BY <1>7 DEF StartReceive
    <2>2. \A x \in Handlers \ {t} : pc'[x] = pc[x] /\ limited'[x] = limited[x]
        BY <1>1, <2>1 DEF TypeOK
    <2>3. /\ limited'[t] = timeout[sock[t]]
          /\ pc'[t] = (IF pc[t] = "wstart" THEN "wrecv" ELSE "rrecv")
        BY <2>1 DEF TypeOK
    <2>4. QED
        BY <2>1, <2>2, <2>3 DEF Timed, WriteSteps
  <1>8. ASSUME NEW t \in Threads, Receive(t) PROVE Timed'
    <2>1. UNCHANGED <<sock, timeout, limited>>
        BY <1>8 DEF Receive
    <2>2. PICK p \in {"judge", "rkeep", "rack"} :
             pc' = [pc EXCEPT ![t] = p] /\ (p = "judge" => pc[t] = "wrecv")
        BY <1>8 DEF Receive
    <2>3. QED
        BY <1>3, <2>1, <2>2 DEF WriteSteps
  <1>9. CASE PeerStep
    <2>1. UNCHANGED <<pc, sock, timeout, limited>>
        BY <1>9 DEF PeerStep, PeerAcks, PeerBuffers, PeerSends, PeerCloses, PeerResponds,
                    PeerTakes, PeerSays, ProcessUnchanged, localVars
    <2>2. QED
        BY <1>2, <2>1
  <1>10. CASE UNCHANGED vars
      BY <1>2, <1>10 DEF vars, localVars
  <1>11. QED
      BY <1>4, <1>5, <1>6, <1>7, <1>8, <1>9, <1>10 DEF Next

\* For any number of handlers, notifiers and sockets: a handler that waits for
\* an acknowledgement waits with a timeout, so that its write_socket returns.
THEOREM HandlersInTime == Spec => []HandlersReadInTime
  <1>1. Init => Timed
      BY DEF Init, Timed, Threads, WriteSteps
  <1>2. Timed => HandlersReadInTime
      BY DEF Timed, HandlersReadInTime
  <1>3. QED
      BY <1>1, <1>2, TimedKept, TypeCorrect, PTL DEF Spec
==============================================================================
