-------------------------------- MODULE Framing --------------------------------
(***************************************************************************)
(* Packets as text on a TCP stream: write_socket_helper and                *)
(* read_socket_helper of networking.cpp, with what write_socket and        *)
(* read_socket do to the variables they read packets into.                 *)
(*                                                                         *)
(* One process and one of its sockets, as in the client: a thread that     *)
(* reads messages and a thread that sends requests and reads until their   *)
(* ACK comes, both from the same stream.  A packet states its length at    *)
(* its head.  A reader asks for 90 bytes first, which is less than the     *)
(* shortest packet, finds the length in them and asks for the rest; the    *)
(* stream may hand out less than it is asked for.                          *)
(*                                                                         *)
(* Abstracted: the text is a sequence of units, each a label with what     *)
(* stands behind it (Length, Command, End) or a piece of other text; 90    *)
(* bytes are the first two units.  User text is not looked at when it is   *)
(* sent, so that it may have labels in it.  Of the six content fields      *)
(* there are two, post before and rcvd_cnts behind the last label;         *)
(* sessionId is left out.  The mutex and the timeout option are module     *)
(* Transport's; here a look at bufferPkts is one step and any read may     *)
(* time out. A field reused of a packet is history: it was read into a     *)
(* variable that still held the contents of another one.                   *)
(***************************************************************************)
EXTENDS Naturals, Sequences, SequencesExt

CONSTANTS
    Receivers,      \* threads in read_socket
    Requesters,     \* threads in write_socket
    Texts,          \* pieces of user text that are no labels
    Requests,       \* contents of our requests: post
    Messages,       \* contents of the peer's messages: post and rcvd_cnts
    BufferSize,     \* places in bufferPkts
    MaxPacketLen,   \* units in the memory a packet is read into
    MaxSays,        \* bound: messages of the peer
    MaxShorts,      \* bound: reads that return less than they could
    MaxAsks         \* bound: requests of ours

Threads == Receivers \cup Requesters
Smaller(m, n) == IF m < n THEN m ELSE n

ASSUME FramingAssumption ==
    /\ Receivers \cap Requesters = {}
    /\ BufferSize \in Nat \ {0}
    /\ MaxPacketLen \in Nat
    /\ MaxPacketLen > 5
    /\ MaxSays \in Nat
    /\ MaxAsks \in Nat
    /\ MaxShorts \in Nat
\* A unit is a kind and a value.
Length(n) == <<"length", n>>
Command(c, n) == <<"command", <<c, n>>>>
End == <<"end", 0>>
Text(x) == <<"text", x>>

\* A packet states a length of three units at least, its labels.
Codes == {"NONE", "REQUEST", "MESSAGE", "ACK"}
Units == ({"length"} \X (Nat \ 0 .. 2)) \cup ({"command"} \X (Codes \X Nat)) \cup {End}
            \cup ({"text"} \X Texts)

\* Contents are any text.
ASSUME ContentsAssumption ==
    /\ Requests \subseteq Seq(Units)
    /\ Messages \subseteq Seq(Units) \X Seq(Units)

\* Contents, what stands between two labels, are sequences of units.
Packet == [content_len : Nat, cmd_code : Codes, req_num : Nat, post : Seq(Units),
           rcvd_cnts : Seq(Units), reused : BOOLEAN]
Bytes(p) == <<Length(p.content_len), Command(p.cmd_code, p.req_num)>> \o p.post \o <<End>>
                \o p.rcvd_cnts
Measured(p) == [p EXCEPT !.content_len = Len(Bytes(p))]
AckOf(p) == [p EXCEPT !.cmd_code = "ACK"]
HasContents(p) == p.post # <<>> \/ p.rcvd_cnts # <<>>
EmptyPacket == [content_len |-> 0, cmd_code |-> "NONE", req_num |-> 0, post |-> <<>>,
                rcvd_cnts |-> <<>>, reused |-> FALSE]

VARIABLES
    stream,         \* the peer's bytes that nobody has read
    peerOpen,       \* the peer has not closed its end
    pc,             \* where each thread is
    pkt,            \* the packet its helper fills: pkt or ackPkt
    request,        \* the packet a requester wants acknowledged
    outcome,        \* of write_socket so far: none (doTCPRead), found, failed
    buffer,         \* the bytes of a packet a thread has read so far
    memory,         \* what the memory it reads them into held before
    packetLength,   \* how many it wants
    freed,          \* the text of the packet whose memory was freed last
    bufferPkts,     \* packets that were read and not wanted
    shorts,         \* how many reads returned less than they could
    unacked,        \* our requests the peer has not acknowledged yet
    asks,           \* how many requests we have sent
    says,           \* how many messages the peer has
    wrote,          \* history: what the peer wrote, in order
    taken,          \* history: the texts the helper took for packets, in order
    delivered,      \* history: what read_socket returned
    written,        \* history: what this process wrote
    torn,           \* history: a packet was read by two threads, or in part
    shortHead       \* history: a first read got less than the head of a packet

readVars == <<buffer, memory, packetLength, freed, shorts>>
callVars == <<pkt, request, outcome>>
peerVars == <<unacked, asks, says, wrote>>
vars == <<stream, peerOpen, pc, callVars, readVars, bufferPkts, peerVars, taken, delivered,
          written, torn, shortHead>>

TypeOK ==
    /\ stream \in Seq(Units)
    /\ peerOpen \in BOOLEAN
    /\ pc \in [Threads -> {"idle", "scan", "read", "parse", "judge", "gone"}]
    /\ pkt \in [Threads -> Packet]
    /\ request \in [Threads -> Packet]
    /\ outcome \in [Threads -> {"none", "found", "failed"}]
    /\ buffer \in [Threads -> Seq(Units)]
    /\ memory \in [Threads -> Seq(Units)]
    /\ packetLength \in [Threads -> Nat \ {0, 1}]
    /\ \A t \in Threads : pc[t] = "read" => Len(buffer[t]) < packetLength[t]
    /\ freed \in Seq(Units)
    /\ bufferPkts \in Seq(Packet) /\ Len(bufferPkts) <= BufferSize
    /\ shorts \in 0 .. MaxShorts
    /\ unacked \in Seq(Packet)
    /\ asks \in 0 .. MaxAsks
    /\ says \in 0 .. MaxSays
    /\ wrote \in Seq(Packet)
    /\ taken \in Seq(Seq(Units))
    /\ delivered \subseteq Packet
    /\ written \subseteq Packet
    /\ torn \in BOOLEAN
    /\ shortHead \in BOOLEAN

Init ==
    /\ stream = <<>>
    /\ peerOpen = TRUE
    /\ pc = [t \in Threads |-> "idle"]
    /\ pkt = [t \in Threads |-> EmptyPacket]
    /\ request = [t \in Threads |-> EmptyPacket]
    /\ outcome = [t \in Threads |-> "none"]
    /\ buffer = [t \in Threads |-> <<>>]
    /\ memory = [t \in Threads |-> <<>>]
    /\ packetLength = [t \in Threads |-> 2]
    /\ freed = <<>>
    /\ shorts = 0
    /\ bufferPkts = <<>>
    /\ unacked = <<>>
    /\ asks = 0
    /\ says = 0
    /\ wrote = <<>>
    /\ taken = <<>>
    /\ delivered = {}
    /\ written = {}
    /\ torn = FALSE
    /\ shortHead = FALSE

Goto(t, step) == pc' = [pc EXCEPT ![t] = step]

-----------------------------------------------------------------------------
(* read_socket_helper.                                                     *)

\* The position of the first unit of a kind from i on; 0 if there is none.
Find(kind, s, i) == SelectInSubSeq(s, i, Len(s), LAMBDA u : u[1] = kind)

\* Wrong on purpose, for a run to reject: the first read asks for a packet of
\* any length.
StartReadingWhole(t) ==
    /\ Goto(t, "read")
    /\ buffer' = [buffer EXCEPT ![t] = <<>>]
    /\ packetLength' = [packetLength EXCEPT ![t] = MaxPacketLen]
    /\ memory' = [memory EXCEPT ![t] = <<>>]
    /\ UNCHANGED <<freed, shorts>>

\* A call allocates memory, which may be the one freed last, with its text.
StartReading(t) ==
    /\ Goto(t, "read")
    /\ buffer' = [buffer EXCEPT ![t] = <<>>]
    /\ packetLength' = [packetLength EXCEPT ![t] = 2]
    /\ \/ /\ memory' = [memory EXCEPT ![t] = <<>>]
          /\ UNCHANGED freed
       \/ /\ freed # <<>>
          /\ memory' = [memory EXCEPT ![t] = freed]
          /\ freed' = <<>>
    /\ UNCHANGED shorts

\* The string that begins at the buffer: nothing ends it behind the bytes read.
StringAt(b, m) == b \o SubSeq(m, Len(b) + 1, Len(m))

\* packetLength as it follows from what has been read.  Without both labels
\* it is the most a packet can be; with the labels in the wrong order the
\* length of the number wraps around and takes in the rest of the string.
LengthIn(S) ==
    LET i == Find("length", S, 1)
        j == Find("command", S, 1)
    IN  IF i = 0 \/ j = 0 THEN MaxPacketLen
        ELSE S[i][2] + (IF j < i THEN Len(S) - i ELSE 0)

\* Another thread has a part of a packet in hand.
Holding(t) == \E u \in Threads \ {t} : pc[u] = "read" /\ buffer[u] # <<>>

\* read() returns some of the bytes it was asked for.  If the first ones are
\* less than the head, the labels are not there, MaxPacketLen units are asked
\* for, and a packet that stands behind this one is read with it.
Available(t) == Smaller(packetLength[t] - Len(buffer[t]), Len(stream))
ReadSome(t) ==
    /\ pc[t] = "read"
    /\ \E k \in 1 .. Available(t) :
          LET b == buffer[t] \o SubSeq(stream, 1, k)
              L == LengthIn(StringAt(b, memory[t]))
          IN  /\ shorts' = IF k < Available(t) THEN shorts + 1 ELSE shorts
              /\ shorts' <= MaxShorts
              /\ stream' = SubSeq(stream, k + 1, Len(stream))
              /\ buffer' = [buffer EXCEPT ![t] = b]
              /\ packetLength' = [packetLength EXCEPT ![t] = L]
              /\ torn' = (torn \/ Holding(t))
              /\ shortHead' = (shortHead \/ Len(b) < 2)
              /\ IF L <= Len(b)
                 THEN Goto(t, "parse") /\ taken' = Append(taken, b)
                 ELSE UNCHANGED <<pc, taken>>
    /\ UNCHANGED <<peerOpen, callVars, memory, freed, bufferPkts, peerVars, delivered, written>>

\* The helper returns without a packet.  writeThread ends with its call, and
\* write_socket looks into the buffer once more.
HelperFails(t) ==
    IF t \in Receivers THEN Goto(t, "gone") /\ UNCHANGED outcome
    ELSE Goto(t, "scan") /\ outcome' = [outcome EXCEPT ![t] = "failed"]

\* The timeout that write_socket sets is the socket's, so both can run into
\* it.  What was read is lost, and the memory is not given back.
ReadTimesOut(t) ==
    /\ pc[t] = "read"
    /\ stream = <<>>
    /\ asks > 0
    /\ torn' = (torn \/ buffer[t] # <<>>)
    /\ HelperFails(t)
    /\ UNCHANGED <<stream, peerOpen, pkt, request, readVars, bufferPkts, peerVars, taken,
                   delivered, written, shortHead>>

\* The peer has closed and nothing was read: writeThread exits the client.
ReadNothing(t) ==
    /\ pc[t] = "read"
    /\ stream = <<>> /\ ~ peerOpen
    /\ buffer[t] = <<>>
    /\ IF t \in Receivers THEN pc' = [u \in Threads |-> "gone"] /\ UNCHANGED outcome
       ELSE HelperFails(t)
    /\ freed' = memory[t]
    /\ UNCHANGED <<stream, peerOpen, pkt, request, buffer, memory, packetLength, shorts, bufferPkts,
                   peerVars, taken, delivered, written, torn, shortHead>>

\* The peer has closed in the middle of a packet, which is parsed all the same.
ReadCutOff(t) ==
    /\ pc[t] = "read"
    /\ stream = <<>> /\ ~ peerOpen
    /\ buffer[t] # <<>>
    /\ torn' = TRUE
    /\ Goto(t, "parse")
    /\ packetLength' =
          [packetLength EXCEPT ![t] = LengthIn(StringAt(buffer[t], memory[t]))]
    /\ UNCHANGED <<stream, peerOpen, callVars, buffer, memory, freed, shorts, bufferPkts, peerVars,
                   taken, delivered, written, shortHead>>

\* Wrong on purpose: the last field goes on to the end of the string.
LastFieldToTheEnd(S, k, L) == SubSeq(S, k + 1, Len(S))

\* The text of S behind the last label, up to the length L it should have; a
\* length that ends before the label wraps around, and the rest is taken.
LastField(S, k, L) == SubSeq(S, k + 1, IF L < k THEN Len(S) ELSE Smaller(L, Len(S)))

\* What the text S makes of the packet p: a field is written only if there is
\* something to write.
Filled(p, S, j, k, L) ==
    LET post == SubSeq(S, j + 1, k - 1)
        cnts == LastField(S, k, L)
    IN  [content_len |-> S[Find("length", S, 1)][2],
         cmd_code    |-> S[j][2][1],
         req_num     |-> S[j][2][2],
         post        |-> IF post = <<>> THEN p.post ELSE post,
         rcvd_cnts   |-> IF cnts = <<>> THEN p.rcvd_cnts ELSE cnts,
         reused      |-> HasContents(p)]

\* The string is parsed and the memory freed.
Parse(t) ==
    /\ pc[t] = "parse"
    /\ LET S == StringAt(buffer[t], memory[t])
           i == Find("length", S, 1)
           j == Find("command", S, 1)
           k == IF j = 0 THEN 0 ELSE Find("end", S, j)
       IN  /\ freed' = S
           /\ \/ /\ i # 0 /\ k # 0
                 /\ pkt' = [pkt EXCEPT ![t] = Filled(@, S, j, k, packetLength[t])]
                 /\ Goto(t, "judge")
                 /\ UNCHANGED outcome
              \/ /\ i = 0 \/ k = 0
                 /\ HelperFails(t)
                 /\ UNCHANGED pkt
    /\ UNCHANGED <<stream, peerOpen, request, buffer, memory, packetLength, shorts, bufferPkts,
                   peerVars, taken, delivered, written, torn, shortHead>>

-----------------------------------------------------------------------------
(* read_socket, called by writeThread over and over with a cleared packet. *)

\* A buffered message is returned as it is.  Otherwise the packet holds the
\* last ACK the loop has looked at when reading begins.
ReadSocket(t) ==
    /\ t \in Receivers
    /\ pc[t] = "idle"
    /\ LET i == SelectInSeq(bufferPkts, LAMBDA p : p.cmd_code # "ACK")
       IN  \/ /\ i # 0
              /\ delivered' = delivered \cup {bufferPkts[i]}
              /\ bufferPkts' = RemoveAt(bufferPkts, i)
              /\ UNCHANGED <<pc, pkt, readVars>>
           \/ /\ i = 0
              /\ pkt' = [pkt EXCEPT ![t] = IF bufferPkts = <<>> THEN EmptyPacket
                                           ELSE Last(bufferPkts)]
              /\ StartReading(t)
              /\ UNCHANGED <<delivered, bufferPkts>>
    /\ UNCHANGED <<stream, peerOpen, request, outcome, peerVars, taken, written,
                   torn, shortHead>>

\* Wrong on purpose: whether there is room is not asked.
KeepAckUnbounded(t) ==
    /\ t \in Receivers
    /\ pc[t] = "judge"
    /\ pkt[t].cmd_code = "ACK"
    /\ bufferPkts' = Append(bufferPkts, pkt[t])
    /\ StartReading(t)
    /\ UNCHANGED <<stream, peerOpen, callVars, peerVars, taken, delivered, written,
                   torn, shortHead>>

\* An ACK is for write_socket: it is kept, and the next packet is read into
\* the same variable.
KeepAck(t) ==
    /\ t \in Receivers
    /\ pc[t] = "judge"
    /\ pkt[t].cmd_code = "ACK"
    /\ Len(bufferPkts) < BufferSize
    /\ bufferPkts' = Append(bufferPkts, pkt[t])
    /\ StartReading(t)
    /\ UNCHANGED <<stream, peerOpen, callVars, peerVars, taken, delivered, written,
                   torn, shortHead>>

\* There is no room, and writeThread ends with the error.
AckOverflows(t) ==
    /\ t \in Receivers
    /\ pc[t] = "judge"
    /\ pkt[t].cmd_code = "ACK"
    /\ Len(bufferPkts) >= BufferSize
    /\ Goto(t, "gone")
    /\ UNCHANGED <<stream, peerOpen, callVars, readVars, bufferPkts, peerVars, taken,
                   delivered, written, torn, shortHead>>

\* Wrong on purpose: the ACK leaves the contents out and keeps the length.
AckMessageBare(t) ==
    /\ t \in Receivers
    /\ pc[t] = "judge"
    /\ pkt[t].cmd_code # "ACK"
    /\ written' = written \cup {[AckOf(pkt[t]) EXCEPT !.post = <<>>, !.rcvd_cnts = <<>>]}
    /\ delivered' = delivered \cup {pkt[t]}
    /\ Goto(t, "idle")
    /\ UNCHANGED <<stream, peerOpen, callVars, readVars, bufferPkts, peerVars, taken,
                   torn, shortHead>>

\* A message is acknowledged with a copy of itself, and returned.
AckMessage(t) ==
    /\ t \in Receivers
    /\ pc[t] = "judge"
    /\ pkt[t].cmd_code # "ACK"
    /\ written' = written \cup {AckOf(pkt[t])}
    /\ delivered' = delivered \cup {pkt[t]}
    /\ Goto(t, "idle")
    /\ UNCHANGED <<stream, peerOpen, callVars, readVars, bufferPkts, peerVars, taken,
                   torn, shortHead>>

-----------------------------------------------------------------------------
(* write_socket, called by readThread.                                     *)

SendRequest(t) ==
    /\ t \in Requesters
    /\ pc[t] = "idle"
    /\ asks < MaxAsks
    /\ asks' = asks + 1
    /\ \E x \in Requests :
          LET p == Measured([EmptyPacket EXCEPT !.cmd_code = "REQUEST", !.req_num = asks + 1,
                                                !.post = x])
          IN  /\ request' = [request EXCEPT ![t] = p]
              /\ written' = written \cup {p}
              /\ unacked' = Append(unacked, p)
    /\ pkt' = [pkt EXCEPT ![t] = EmptyPacket]
    /\ outcome' = [outcome EXCEPT ![t] = "none"]
    /\ Goto(t, "scan")
    /\ UNCHANGED <<stream, peerOpen, readVars, bufferPkts, says, wrote, taken, delivered,
                   torn, shortHead>>

Answers(q, p) == q.cmd_code = "ACK" /\ q.req_num = p.req_num

\* Retry: the loop copies packet after packet to ackPkt, and on past the ACK
\* it takes out.  Without the ACK it is time to read, or to give up, or to
\* judge again what was found before.
Scan(t) ==
    /\ t \in Requesters
    /\ pc[t] = "scan"
    /\ LET i == SelectInSeq(bufferPkts, LAMBDA q :
                               Answers(q, request[t]) /\ q.content_len = request[t].content_len)
           last == IF bufferPkts = <<>> THEN pkt[t] ELSE Last(bufferPkts)
       IN  \/ /\ i # 0
              /\ bufferPkts' = RemoveAt(bufferPkts, i)
              /\ pkt' = [pkt EXCEPT ![t] = IF i + 1 < Len(bufferPkts) THEN last
                                           ELSE bufferPkts[i]]
              /\ outcome' = [outcome EXCEPT ![t] = "found"]
              /\ Goto(t, "judge")
              /\ UNCHANGED readVars
           \/ /\ i = 0
              /\ pkt' = [pkt EXCEPT ![t] = last]
              /\ \/ outcome[t] = "none" /\ StartReading(t)
                 \/ outcome[t] = "found" /\ Goto(t, "judge") /\ UNCHANGED readVars
                 \/ outcome[t] = "failed" /\ Goto(t, "idle") /\ UNCHANGED readVars
              /\ UNCHANGED <<bufferPkts, outcome>>
    /\ UNCHANGED <<stream, peerOpen, request, peerVars, taken, delivered, written,
                   torn, shortHead>>

\* The ACK ends the call; another packet is kept and the call goes on, into
\* the same variable; without room for it the call ends.
JudgeAck(t) ==
    /\ t \in Requesters
    /\ pc[t] = "judge"
    /\ \/ /\ Answers(pkt[t], request[t]) \/ Len(bufferPkts) >= BufferSize
          /\ Goto(t, "idle")
          /\ UNCHANGED bufferPkts
       \/ /\ ~ Answers(pkt[t], request[t])
          /\ Len(bufferPkts) < BufferSize
          /\ bufferPkts' = Append(bufferPkts, pkt[t])
          /\ Goto(t, "scan")
    /\ UNCHANGED <<stream, peerOpen, callVars, readVars, peerVars, taken, delivered, written,
                   torn, shortHead>>

-----------------------------------------------------------------------------
(* The peer: it runs the same code, and what it states is true.            *)

PeerWrites(p) ==
    /\ peerOpen
    /\ stream' = stream \o Bytes(p)
    /\ wrote' = Append(wrote, p)
    /\ UNCHANGED <<peerOpen, pc, callVars, readVars, bufferPkts, asks, taken, delivered,
                   written, torn, shortHead>>

PeerSays ==
    /\ says < MaxSays
    /\ says' = says + 1
    /\ \E m \in Messages :
          PeerWrites(Measured([EmptyPacket EXCEPT !.cmd_code = "MESSAGE", !.req_num = says + 1,
                                                  !.post = m[1], !.rcvd_cnts = m[2]]))
    /\ UNCHANGED unacked

PeerAcks ==
    /\ unacked # <<>>
    /\ PeerWrites(AckOf(Head(unacked)))
    /\ unacked' = SubSeq(unacked, 2, Len(unacked))
    /\ UNCHANGED says

PeerCloses ==
    /\ peerOpen
    /\ peerOpen' = FALSE
    /\ UNCHANGED <<stream, pc, callVars, readVars, bufferPkts, peerVars, taken, delivered,
                   written, torn, shortHead>>

Helper(t) == ReadSome(t) \/ ReadTimesOut(t) \/ ReadNothing(t) \/ ReadCutOff(t) \/ Parse(t)
ReceiverStep(t) == ReadSocket(t) \/ KeepAck(t) \/ AckOverflows(t) \/ AckMessage(t)
RequesterStep(t) == SendRequest(t) \/ Scan(t) \/ JudgeAck(t)
Peer == PeerSays \/ PeerAcks \/ PeerCloses

Next ==
    \/ \E t \in Threads : Helper(t)
    \/ \E t \in Receivers : ReceiverStep(t)
    \/ \E t \in Requesters : RequesterStep(t)
    \/ Peer

Spec == Init /\ [][Next]_vars

-----------------------------------------------------------------------------
(* Properties.                                                             *)

\* What TCP and the threads may do to a packet without the code losing its
\* place: it is read by one thread, to the end, and the first read() returns
\* its head.
InOneGo == ~ torn /\ ~ shortHead

\* The helpers take the stream apart exactly where the peer put it together,
\* whatever text the packets carry and whatever pieces read() hands out, as
\* long as no packet is torn between two readers, cut off by a timeout or the
\* end of the connection, and none begins with a read() shorter than its head
\* (networking.cpp 183-203 then asks for 4096 bytes and swallows what follows).
InStep ==
    InOneGo => \A i \in DOMAIN taken : i \in DOMAIN wrote /\ taken[i] = Bytes(wrote[i])

\* What read_socket returns has the bytes of a packet the peer wrote, if it was
\* read into an empty variable, directly or by way of bufferPkts: bytes left in
\* the allocated memory never get into it.  It is that packet field by field if
\* no text of it reads like a label, which nobody sees to.
Plain(p) == \A i \in DOMAIN p.post : p.post[i] # End
AsSentUnlessReused ==
    InOneGo => \A p \in delivered :
                  \/ p.reused
                  \/ \E q \in ToSet(wrote) : Bytes(p) = Bytes(q) /\ (Plain(q) => p = q)

\* The same for what this process states to its peer: a packet read into an
\* empty variable is acknowledged with its true length, whatever its text.
TruthfulUnlessReused ==
    InOneGo => \A p \in written : p.reused \/ p.content_len = Len(Bytes(p))

\* networking.h says that content_len is set for any packet, and structures.h
\* that it is the total packet length.
StatesItsLength ==
    InOneGo => \A p \in written : p.content_len = Len(Bytes(p))

=============================================================================
