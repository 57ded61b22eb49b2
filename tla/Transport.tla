------------------------------ MODULE Transport ------------------------------
(***************************************************************************)
(* write_socket and read_socket of networking.cpp inside one process: the  *)
(* sending side waits for an acknowledgement, the receiving side sends it, *)
(* and a packet a thread reads but did not want goes to bufferPkts, which  *)
(* all threads and all sockets of the process share.                       *)
(*                                                                         *)
(* The same code runs in the client (a requester and a receiver thread on  *)
(* one socket) and in the server (a handler per socket and the notifier,   *)
(* which writes to any socket); the constants choose.  The other ends of   *)
(* the sockets are the environment: they acknowledge late or never, as the *)
(* same code does when its own buffer takes the packet.                    *)
(*                                                                         *)
(* Abstracted: the text of a packet; sessionId and content_len, which are  *)
(* only compared, are one tag; a packet is read whole (reading a part of   *)
(* one is read_socket_helper's).  A field what and a field sock of a       *)
(* packet are history: what it was before it became an ACK, and the socket *)
(* it belongs to.  bufferPkts has BufferSize places, 10 in the code.       *)
(***************************************************************************)
EXTENDS Naturals, Sequences, FiniteSets, SequencesExt

CONSTANTS
    Sockets,
    Requesters,     \* client: readThread, which sends requests
    Receivers,      \* client: writeThread, which reads responses
    Handlers,       \* server: one thread for each socket
    Notifiers,      \* server: the notification thread
    SockOf,         \* the socket of each thread but the notifier's
    OwnTags,        \* client: tags of its requests
    PeerTag,        \* the tag a peer puts on its packets
    NoteTags,       \* server: what the sessionId of a notification, which is not
                    \* set, may happen to be
    BufferSize,     \* places in bufferPkts
    MaxOut,         \* bound: packets this process numbers
    MaxIn,          \* bound: packets a peer sends on its own account
    MaxCloses,      \* bound: peers that close their end
    Nobody          \* the owner of a free mutex

Threads == Requesters \cup Receivers \cup Handlers \cup Notifiers
IsServer == Handlers # {}

ASSUME TransportAssumption ==
    /\ Sockets # {}
    /\ SockOf \in [Threads \ Notifiers -> Sockets]
    /\ BufferSize \in Nat \ {0}
    /\ MaxOut \in Nat
    /\ MaxIn \in Nat
    /\ MaxCloses \in Nat
    /\ Nobody \notin Threads
    /\ Requesters \cap (Receivers \cup Handlers \cup Notifiers) = {}
    /\ Receivers \cap (Handlers \cup Notifiers) = {}
    /\ Handlers \cap Notifiers = {}
    /\ IsFiniteSet(Threads)

\* A process is a client or the server; a handler has a socket of its own.
ASSUME RolesAssumption ==
    /\ IsServer => Requesters = {} /\ Receivers = {}
    /\ \A x, y \in Handlers : SockOf[x] = SockOf[y] => x = y

PeerTags == {PeerTag[s] : s \in Sockets}
Tags == OwnTags \cup NoteTags \cup PeerTags
Kinds == {"REQ", "RSP", "NOTE"}
Packet == [cmd : Kinds \cup {"ACK"}, num : Nat, tag : Tags, sock : Sockets, what : Kinds]
AckOf(p) == [p EXCEPT !.cmd = "ACK"]

VARIABLES
    packetSeqNum,   \* number of the next packet of our own
    bufferPkts,     \* packets read and not wanted; bufferOccupied is its length
    bufferPktlock,  \* owner of the mutex on it
    pc,             \* where each thread is
    sock,           \* the socket of its call
    pkt,            \* the packet it writes, or has read
    ackPkt,         \* ackPkt of write_socket
    index,          \* the loop index of write_socket
    doTCPRead,      \* the local variable of write_socket
    readOK,         \* readError > 0
    timeout,        \* SO_RCVTIMEO of each socket: set or off
    limited,        \* the read call a thread is in has a timeout
    ret,            \* what its last call returned
    inbox,          \* packets on their way to us on each socket
    outbox,         \* packets on their way to the peer
    open,           \* sockets this process has not closed
    peers,          \* sockets the peer has not closed
    peerSent,       \* packets a peer sent on its own account
    owed,           \* requests a peer may still answer
    peerAcked,      \* history: packets of ours the peers acknowledged
    peerSaid,       \* history: what the peers sent, but for ACKs
    delivered,      \* history: packets read_socket returned
    repeated,       \* history: those it returned again
    dropped         \* history: packets given up with an error

localVars == <<sock, pkt, ackPkt, index, doTCPRead, readOK, limited>>
peerVars  == <<peers, peerSent, owed, peerAcked, peerSaid>>
netVars   == <<inbox, outbox, open, peerVars>>
results   == <<delivered, repeated, dropped>>
vars == <<packetSeqNum, bufferPkts, bufferPktlock, pc, localVars, timeout, ret,
          netVars, results>>

Returns == {"none", "ok", "-1", "-2", "-3", "-4", "-5", "0", "-9", "packet"}
WriteSteps == {"send", "scan", "scanning", "opt", "wstart", "wrecv", "judge"}
ReadSteps  == {"rscan", "rstart", "rrecv", "rkeep", "rack"}
AnyPacket == [cmd |-> "ACK", num |-> 0, tag |-> CHOOSE g \in Tags : TRUE,
              sock |-> CHOOSE s \in Sockets : TRUE, what |-> "REQ"]

TypeOK ==
    /\ packetSeqNum \in 0 .. MaxOut
    /\ bufferPkts \in Seq(Packet) /\ Len(bufferPkts) <= BufferSize
    /\ bufferPktlock \in Threads \cup {Nobody}
    /\ pc \in [Threads -> {"idle", "reply", "gone"} \cup WriteSteps \cup ReadSteps]
    /\ sock \in [Threads -> Sockets]
    /\ pkt \in [Threads -> Packet]
    /\ ackPkt \in [Threads -> Packet]
    /\ index \in [Threads -> Nat \ {0}]
    /\ doTCPRead \in [Threads -> BOOLEAN]
    /\ readOK \in [Threads -> BOOLEAN]
    /\ timeout \in [Sockets -> BOOLEAN]
    /\ limited \in [Threads -> BOOLEAN]
    /\ ret \in [Threads -> Returns]
    /\ inbox \in [Sockets -> Seq(Packet)]
    /\ outbox \in [Sockets -> Seq(Packet)]
    /\ open \subseteq Sockets
    /\ peers \subseteq Sockets
    /\ peerSent \in [Sockets -> 0 .. MaxIn]
    /\ owed \subseteq Packet
    /\ peerAcked \subseteq Packet
    /\ peerSaid \subseteq Packet
    /\ delivered \subseteq Packet
    /\ repeated \subseteq Packet
    /\ dropped \subseteq Packet

Init ==
    /\ packetSeqNum = 0
    /\ bufferPkts = <<>>
    /\ bufferPktlock = Nobody
    /\ pc = [t \in Threads |-> "idle"]
    /\ sock = [t \in Threads |-> CHOOSE s \in Sockets : TRUE]
    /\ pkt = [t \in Threads |-> AnyPacket]
    /\ ackPkt = [t \in Threads |-> AnyPacket]
    /\ index = [t \in Threads |-> 1]
    /\ doTCPRead = [t \in Threads |-> TRUE]
    /\ readOK = [t \in Threads |-> FALSE]
    /\ timeout = [s \in Sockets |-> FALSE]
    /\ limited = [t \in Threads |-> FALSE]
    /\ ret = [t \in Threads |-> "none"]
    /\ inbox = [s \in Sockets |-> <<>>]
    /\ outbox = [s \in Sockets |-> <<>>]
    /\ open = Sockets
    /\ peers = Sockets
    /\ peerSent = [s \in Sockets |-> 0]
    /\ owed = {}
    /\ peerAcked = {}
    /\ peerSaid = {}
    /\ delivered = {}
    /\ repeated = {}
    /\ dropped = {}

-----------------------------------------------------------------------------
(* write_socket.                                                           *)

\* The call, up to the numbering of a packet of our own.  A response keeps
\* the number of its request.
Begin(t, s, p) ==
    /\ pc' = [pc EXCEPT ![t] = "send"]
    /\ sock' = [sock EXCEPT ![t] = s]
    /\ pkt' = [pkt EXCEPT ![t] = p]
    /\ doTCPRead' = [doTCPRead EXCEPT ![t] = TRUE]
    /\ readOK' = [readOK EXCEPT ![t] = FALSE]
    /\ ret' = [ret EXCEPT ![t] = "none"]
    /\ UNCHANGED <<bufferPkts, bufferPktlock, ackPkt, index, timeout, limited,
                   netVars, results>>

NewNumber ==
    /\ packetSeqNum < MaxOut
    /\ packetSeqNum' = packetSeqNum + 1

\* readThread sends a request.
Request(t) ==
    /\ t \in Requesters
    /\ pc[t] = "idle"
    /\ NewNumber
    /\ \E g \in OwnTags :
          Begin(t, SockOf[t], [cmd |-> "REQ", num |-> packetSeqNum, tag |-> g,
                               sock |-> SockOf[t], what |-> "REQ"])

\* A handler answers the request it has read, on its own socket.
Respond(t) ==
    /\ t \in Handlers
    /\ pc[t] = "reply"
    /\ Begin(t, SockOf[t], [cmd |-> "RSP", num |-> pkt[t].num, tag |-> pkt[t].tag,
                            sock |-> SockOf[t], what |-> "RSP"])
    /\ UNCHANGED packetSeqNum

\* The notification thread writes to a socket it found in the database.
Notify(t, s) ==
    /\ t \in Notifiers
    /\ pc[t] = "idle"
    /\ NewNumber
    /\ \E g \in NoteTags :
          Begin(t, s, [cmd |-> "NOTE", num |-> packetSeqNum, tag |-> g,
                       sock |-> s, what |-> "NOTE"])

\* A call to write_socket returns: every caller goes on, whatever it returned.
WriteReturns(t, code) ==
    /\ pc' = [pc EXCEPT ![t] = "idle"]
    /\ ret' = [ret EXCEPT ![t] = code]

SendPacket(t) ==
    /\ pc[t] = "send"
    /\ sock[t] \in open
    /\ pc' = [pc EXCEPT ![t] = "scan"]
    /\ outbox' = [outbox EXCEPT ![sock[t]] = Append(@, pkt[t])]
    /\ UNCHANGED <<packetSeqNum, bufferPkts, bufferPktlock, localVars, timeout, ret,
                   inbox, open, peerVars, results>>

\* write() on a closed socket, or on one the peer has closed.
SendFails(t) ==
    /\ pc[t] = "send"
    /\ sock[t] \notin open \cap peers
    /\ WriteReturns(t, "-1")
    /\ UNCHANGED <<packetSeqNum, bufferPkts, bufferPktlock, localVars, timeout,
                   netVars, results>>

\* After Retry: the mutex is taken and the loop over the buffer begins.
ScanBegins(t) ==
    /\ pc[t] = "scan"
    /\ bufferPktlock = Nobody
    /\ bufferPktlock' = t
    /\ index' = [index EXCEPT ![t] = 1]
    /\ pc' = [pc EXCEPT ![t] = "scanning"]
    /\ UNCHANGED <<packetSeqNum, bufferPkts, sock, pkt, ackPkt, doTCPRead, readOK,
                   limited, timeout, ret, netVars, results>>

Wanted(p, q) == q.cmd = "ACK" /\ q.num = p.num /\ q.tag = p.tag

\* Wrong on purpose, for a run to reject: the turn does not fill ackPkt.
ScanTurnWithoutCopy(t) ==
    /\ pc[t] = "scanning"
    /\ index[t] <= Len(bufferPkts)
    /\ IF Wanted(pkt[t], bufferPkts[index[t]])
       THEN /\ bufferPkts' = RemoveAt(bufferPkts, index[t])
            /\ doTCPRead' = [doTCPRead EXCEPT ![t] = FALSE]
            /\ readOK' = [readOK EXCEPT ![t] = TRUE]
       ELSE UNCHANGED <<bufferPkts, doTCPRead, readOK>>
    /\ index' = [index EXCEPT ![t] = @ + 1]
    /\ UNCHANGED <<packetSeqNum, bufferPktlock, pc, sock, pkt, ackPkt, limited, timeout,
                   ret, netVars, results>>

\* One turn of the loop copies a packet to ackPkt.  The wanted ACK is taken
\* out, and the loop goes on all the same.
ScanTurn(t) ==
    /\ pc[t] = "scanning"
    /\ index[t] <= Len(bufferPkts)
    /\ LET q == bufferPkts[index[t]]
       IN  /\ ackPkt' = [ackPkt EXCEPT ![t] = q]
           /\ IF Wanted(pkt[t], q)
              THEN /\ bufferPkts' = RemoveAt(bufferPkts, index[t])
                   /\ doTCPRead' = [doTCPRead EXCEPT ![t] = FALSE]
                   /\ readOK' = [readOK EXCEPT ![t] = TRUE]
              ELSE UNCHANGED <<bufferPkts, doTCPRead, readOK>>
    /\ index' = [index EXCEPT ![t] = @ + 1]
    /\ UNCHANGED <<packetSeqNum, bufferPktlock, pc, sock, pkt, limited, timeout, ret,
                   netVars, results>>

\* The mutex is released: read from the socket, look at what was found, or
\* give up.
ScanEnds(t) ==
    /\ pc[t] = "scanning"
    /\ index[t] > Len(bufferPkts)
    /\ bufferPktlock' = Nobody
    /\ \/ /\ doTCPRead[t]
          /\ pc' = [pc EXCEPT ![t] = "opt"]
          /\ UNCHANGED ret
       \/ /\ ~ doTCPRead[t] /\ readOK[t]
          /\ pc' = [pc EXCEPT ![t] = "judge"]
          /\ UNCHANGED ret
       \/ /\ ~ doTCPRead[t] /\ ~ readOK[t]
          /\ WriteReturns(t, "-2")
    /\ UNCHANGED <<packetSeqNum, bufferPkts, localVars, timeout, netVars, results>>

\* Wrong on purpose: the time given is zero, which turns the timeout off.
SetTimeoutZero(t) ==
    /\ pc[t] = "opt"
    /\ \/ /\ sock[t] \in open
          /\ timeout' = [timeout EXCEPT ![sock[t]] = FALSE]
          /\ pc' = [pc EXCEPT ![t] = "wstart"]
          /\ UNCHANGED ret
       \/ /\ sock[t] \notin open
          /\ WriteReturns(t, "-5")
          /\ UNCHANGED timeout
    /\ UNCHANGED <<packetSeqNum, bufferPkts, bufferPktlock, localVars, netVars, results>>

\* setsockopt(SO_RCVTIMEO, 2 seconds), for every thread on that socket, unless
\* the socket has been closed meanwhile.
SetTimeout(t) ==
    /\ pc[t] = "opt"
    /\ \/ /\ sock[t] \in open
          /\ timeout' = [timeout EXCEPT ![sock[t]] = TRUE]
          /\ pc' = [pc EXCEPT ![t] = "wstart"]
          /\ UNCHANGED ret
       \/ /\ sock[t] \notin open
          /\ WriteReturns(t, "-5")
          /\ UNCHANGED timeout
    /\ UNCHANGED <<packetSeqNum, bufferPkts, bufferPktlock, localVars, netVars, results>>

\* Wrong on purpose: four versions of Judge.  The buffer has no end; an ACK
\* is taken for ours whatever its number, or whatever its tag; the unwanted
\* packet is forgotten.
JudgeUnbounded(t) ==
    /\ pc[t] = "judge"
    /\ bufferPktlock = Nobody
    /\ \/ /\ ackPkt[t].cmd # "ACK" \/ ackPkt[t].num # pkt[t].num
          /\ bufferPkts' = Append(bufferPkts, ackPkt[t])
          /\ pc' = [pc EXCEPT ![t] = "scan"]
          /\ UNCHANGED <<ret, dropped>>
       \/ /\ ackPkt[t].cmd = "ACK" /\ ackPkt[t].num = pkt[t].num
          /\ WriteReturns(t, IF ackPkt[t].tag = pkt[t].tag THEN "ok" ELSE "-3")
          /\ UNCHANGED <<bufferPkts, dropped>>
    /\ UNCHANGED <<packetSeqNum, bufferPktlock, localVars, timeout, netVars, delivered,
                   repeated>>
JudgeAnyNumber(t) ==
    /\ pc[t] = "judge"
    /\ bufferPktlock = Nobody
    /\ \/ /\ ackPkt[t].cmd # "ACK"
          /\ Len(bufferPkts) < BufferSize
          /\ bufferPkts' = Append(bufferPkts, ackPkt[t])
          /\ pc' = [pc EXCEPT ![t] = "scan"]
          /\ UNCHANGED <<ret, dropped>>
       \/ /\ ackPkt[t].cmd = "ACK"
          /\ WriteReturns(t, IF ackPkt[t].tag = pkt[t].tag THEN "ok" ELSE "-3")
          /\ UNCHANGED <<bufferPkts, dropped>>
    /\ UNCHANGED <<packetSeqNum, bufferPktlock, localVars, timeout, netVars, delivered,
                   repeated>>
JudgeAnyTag(t) ==
    /\ pc[t] = "judge"
    /\ bufferPktlock = Nobody
    /\ \/ /\ ackPkt[t].cmd # "ACK" \/ ackPkt[t].num # pkt[t].num
          /\ Len(bufferPkts) < BufferSize
          /\ bufferPkts' = Append(bufferPkts, ackPkt[t])
          /\ pc' = [pc EXCEPT ![t] = "scan"]
          /\ UNCHANGED <<ret, dropped>>
       \/ /\ ackPkt[t].cmd = "ACK" /\ ackPkt[t].num = pkt[t].num
          /\ WriteReturns(t, "ok")
          /\ UNCHANGED <<bufferPkts, dropped>>
    /\ UNCHANGED <<packetSeqNum, bufferPktlock, localVars, timeout, netVars, delivered,
                   repeated>>
JudgeForgets(t) ==
    /\ pc[t] = "judge"
    /\ bufferPktlock = Nobody
    /\ \/ /\ ackPkt[t].cmd # "ACK" \/ ackPkt[t].num # pkt[t].num
          /\ pc' = [pc EXCEPT ![t] = "scan"]
          /\ UNCHANGED ret
       \/ /\ ackPkt[t].cmd = "ACK" /\ ackPkt[t].num = pkt[t].num
          /\ WriteReturns(t, IF ackPkt[t].tag = pkt[t].tag THEN "ok" ELSE "-3")
    /\ UNCHANGED <<packetSeqNum, bufferPkts, bufferPktlock, localVars, timeout, netVars,
                   results>>

\* A packet that is not the ACK of this number goes to the buffer, if there
\* is room, and the search starts over; an ACK with another tag is an error.
Judge(t) ==
    /\ pc[t] = "judge"
    /\ bufferPktlock = Nobody
    /\ \/ /\ ackPkt[t].cmd # "ACK" \/ ackPkt[t].num # pkt[t].num
          /\ Len(bufferPkts) < BufferSize
          /\ bufferPkts' = Append(bufferPkts, ackPkt[t])
          /\ pc' = [pc EXCEPT ![t] = "scan"]
          /\ UNCHANGED <<ret, dropped>>
       \/ /\ ackPkt[t].cmd # "ACK" \/ ackPkt[t].num # pkt[t].num
          /\ Len(bufferPkts) = BufferSize
          /\ WriteReturns(t, "-4")
          /\ dropped' = dropped \cup {ackPkt[t]}
          /\ UNCHANGED bufferPkts
       \/ /\ ackPkt[t].cmd = "ACK" /\ ackPkt[t].num = pkt[t].num
          /\ WriteReturns(t, IF ackPkt[t].tag = pkt[t].tag THEN "ok" ELSE "-3")
          /\ UNCHANGED <<bufferPkts, dropped>>
    /\ UNCHANGED <<packetSeqNum, bufferPktlock, localVars, timeout, netVars, delivered,
                   repeated>>

-----------------------------------------------------------------------------
(* read_socket and its callers.                                            *)

\* The call turns the timeout of the socket off, for every thread on it.
BeginRead(t) ==
    /\ t \in Receivers \cup Handlers
    /\ pc[t] = "idle"
    /\ pc' = [pc EXCEPT ![t] = "rscan"]
    /\ sock' = [sock EXCEPT ![t] = SockOf[t]]
    /\ timeout' = [timeout EXCEPT ![SockOf[t]] = FALSE]
    /\ ret' = [ret EXCEPT ![t] = "none"]
    /\ UNCHANGED <<packetSeqNum, bufferPkts, bufferPktlock, pkt, ackPkt, index,
                   doTCPRead, readOK, limited, netVars, results>>

\* read_socket returns a packet.
ReadReturns(t, p) ==
    /\ pkt' = [pkt EXCEPT ![t] = p]
    /\ delivered' = delivered \cup {p}
    /\ repeated' = repeated \cup ({p} \cap delivered)
    /\ ret' = [ret EXCEPT ![t] = "packet"]
    /\ pc' = [pc EXCEPT ![t] = IF t \in Handlers THEN "reply" ELSE "idle"]

\* read_socket returns 0 or an error.  A handler ignores a timeout and ends
\* its connection otherwise, but leaves the socket open when the logout at the
\* end of a connection fails; the receiver's thread ends on every error, and
\* the client on the end of the connection.
ReadStops(t, code) ==
    /\ ret' = [ret EXCEPT ![t] = code]
    /\ \/ /\ t \in Handlers
          /\ code = "-9"
          /\ pc' = [pc EXCEPT ![t] = "idle"]
          /\ UNCHANGED open
       \/ /\ t \in Handlers
          /\ code # "-9"
          /\ pc' = [pc EXCEPT ![t] = "gone"]
          /\ open' = open \ {sock[t]} \/ (code = "0" /\ open' = open)
       \/ /\ t \in Receivers
          /\ pc' = [x \in Threads |-> IF x = t \/ code = "0" THEN "gone" ELSE pc[x]]
          /\ open' = IF code = "0" THEN open \ {sock[t]} ELSE open

\* Wrong on purpose: the packet returned stays in the buffer.
ReadScanKeeps(t) ==
    /\ pc[t] = "rscan"
    /\ bufferPktlock = Nobody
    /\ \/ \E i \in DOMAIN bufferPkts :
             /\ bufferPkts[i].cmd # "ACK"
             /\ \A j \in 1 .. i - 1 : bufferPkts[j].cmd = "ACK"
             /\ ReadReturns(t, bufferPkts[i])
       \/ /\ \A i \in DOMAIN bufferPkts : bufferPkts[i].cmd = "ACK"
          /\ pc' = [pc EXCEPT ![t] = "rstart"]
          /\ UNCHANGED <<pkt, delivered, repeated, ret>>
    /\ UNCHANGED <<packetSeqNum, bufferPkts, bufferPktlock, sock, ackPkt, index,
                   doTCPRead, readOK, limited, timeout, netVars, dropped>>

\* The first packet of the buffer that is no ACK, whatever socket it came on,
\* is returned; it was not acknowledged and will not be.
ReadScan(t) ==
    /\ pc[t] = "rscan"
    /\ bufferPktlock = Nobody
    /\ \/ \E i \in DOMAIN bufferPkts :
             /\ bufferPkts[i].cmd # "ACK"
             /\ \A j \in 1 .. i - 1 : bufferPkts[j].cmd = "ACK"
             /\ bufferPkts' = RemoveAt(bufferPkts, i)
             /\ ReadReturns(t, bufferPkts[i])
       \/ /\ \A i \in DOMAIN bufferPkts : bufferPkts[i].cmd = "ACK"
          /\ pc' = [pc EXCEPT ![t] = "rstart"]
          /\ UNCHANGED <<bufferPkts, pkt, delivered, repeated, ret>>
    /\ UNCHANGED <<packetSeqNum, bufferPktlock, sock, ackPkt, index, doTCPRead, readOK,
                   limited, timeout, netVars, dropped>>

\* A read call begins; the kernel takes the timeout the socket has now.
StartReceive(t) ==
    /\ pc[t] \in {"wstart", "rstart"}
    /\ limited' = [limited EXCEPT ![t] = timeout[sock[t]]]
    /\ pc' = [pc EXCEPT ![t] = IF pc[t] = "wstart" THEN "wrecv" ELSE "rrecv"]
    /\ UNCHANGED <<packetSeqNum, bufferPkts, bufferPktlock, sock, pkt, ackPkt, index,
                   doTCPRead, readOK, timeout, ret, netVars, results>>

\* A thread gets the next packet of the socket, wanted or not.
Receive(t) ==
    /\ pc[t] \in {"wrecv", "rrecv"}
    /\ sock[t] \in open
    /\ inbox[sock[t]] # <<>>
    /\ LET p == Head(inbox[sock[t]])
       IN  \/ /\ pc[t] = "wrecv"
              /\ ackPkt' = [ackPkt EXCEPT ![t] = p]
              /\ readOK' = [readOK EXCEPT ![t] = TRUE]
              /\ pc' = [pc EXCEPT ![t] = "judge"]
              /\ UNCHANGED pkt
           \/ /\ pc[t] = "rrecv"
              /\ pkt' = [pkt EXCEPT ![t] = p]
              /\ pc' = [pc EXCEPT ![t] = IF p.cmd = "ACK" THEN "rkeep" ELSE "rack"]
              /\ UNCHANGED <<ackPkt, readOK>>
    /\ inbox' = [inbox EXCEPT ![sock[t]] = Tail(@)]
    /\ UNCHANGED <<packetSeqNum, bufferPkts, bufferPktlock, sock, index, doTCPRead,
                   limited, timeout, ret, outbox, open, peerVars, results>>

\* The read call ends with nothing: write_socket looks at the buffer once more.
WriteReadsNothing(t) ==
    /\ pc[t] = "wrecv"
    /\ sock[t] \notin open \/ (inbox[sock[t]] = <<>> /\ (limited[t] \/ sock[t] \notin peers))
    /\ readOK' = [readOK EXCEPT ![t] = FALSE]
    /\ doTCPRead' = [doTCPRead EXCEPT ![t] = FALSE]
    /\ pc' = [pc EXCEPT ![t] = "scan"]
    /\ UNCHANGED <<packetSeqNum, bufferPkts, bufferPktlock, sock, pkt, ackPkt, index,
                   limited, timeout, ret, netVars, results>>

\* read_socket returns the timeout, or the end of the connection.
ReadNothing(t) ==
    /\ pc[t] = "rrecv"
    /\ inbox[sock[t]] = <<>>
    /\ \/ limited[t] /\ ReadStops(t, "-9")
       \/ sock[t] \notin peers /\ ReadStops(t, "0")
    /\ UNCHANGED <<packetSeqNum, bufferPkts, bufferPktlock, localVars, timeout, inbox,
                   outbox, peerVars, results>>

\* An ACK goes to the buffer, for write_socket to find, and reading goes on.
KeepAck(t) ==
    /\ pc[t] = "rkeep"
    /\ bufferPktlock = Nobody
    /\ \/ /\ Len(bufferPkts) < BufferSize
          /\ bufferPkts' = Append(bufferPkts, pkt[t])
          /\ pc' = [pc EXCEPT ![t] = "rstart"]
          /\ UNCHANGED <<ret, open, dropped>>
       \/ /\ Len(bufferPkts) = BufferSize
          /\ ReadStops(t, "-4")
          /\ dropped' = dropped \cup {pkt[t]}
          /\ UNCHANGED bufferPkts
    /\ UNCHANGED <<packetSeqNum, bufferPktlock, localVars, timeout, inbox, outbox,
                   peerVars, delivered, repeated>>

\* Any other packet is acknowledged and returned.
SendAck(t) ==
    /\ pc[t] = "rack"
    /\ \/ /\ ReadReturns(t, pkt[t])
          /\ UNCHANGED <<open, dropped>>
       \/ /\ sock[t] \notin peers
          /\ ReadStops(t, "-3")
          /\ dropped' = dropped \cup {pkt[t]}
          /\ UNCHANGED <<pkt, delivered, repeated>>
    /\ UNCHANGED <<packetSeqNum, bufferPkts, bufferPktlock, sock, ackPkt, index,
                   doTCPRead, readOK, limited, timeout, inbox, outbox, peerVars>>

\* A request that is not answered: a post that succeeded.
NoResponse(t) ==
    /\ pc[t] = "reply"
    /\ pc' = [pc EXCEPT ![t] = "idle"]
    /\ UNCHANGED <<packetSeqNum, bufferPkts, bufferPktlock, localVars, timeout, ret,
                   netVars, results>>

-----------------------------------------------------------------------------
(* The other end of each socket.                                           *)

ProcessUnchanged ==
    UNCHANGED <<packetSeqNum, bufferPkts, bufferPktlock, pc, localVars, timeout, ret,
                open, results>>

\* The peer takes our next packet.
PeerTakes(s) ==
    /\ s \in peers
    /\ outbox[s] # <<>>
    /\ outbox' = [outbox EXCEPT ![s] = Tail(@)]
    /\ owed' = IF Head(outbox[s]).cmd = "REQ" THEN owed \cup {Head(outbox[s])} ELSE owed
    /\ UNCHANGED <<peers, peerSent, peerSaid>>
    /\ ProcessUnchanged

\* Its read_socket does, and acknowledges it.
PeerAcks(s) ==
    /\ PeerTakes(s)
    /\ inbox' = [inbox EXCEPT ![s] = Append(@, AckOf(Head(outbox[s])))]
    /\ peerAcked' = peerAcked \cup {Head(outbox[s])}

\* Its write_socket does, and puts it in the peer's buffer, from which
\* read_socket takes it without an acknowledgement.
PeerBuffers(s) ==
    /\ PeerTakes(s)
    /\ UNCHANGED <<inbox, peerAcked>>

PeerSays(s, p) ==
    /\ s \in peers
    /\ inbox' = [inbox EXCEPT ![s] = Append(@, p)]
    /\ peerSaid' = peerSaid \cup {p}
    /\ UNCHANGED <<outbox, peers, peerAcked>>
    /\ ProcessUnchanged

\* The server answers a request.
PeerResponds(p) ==
    /\ p \in owed
    /\ owed' = owed \ {p}
    /\ PeerSays(p.sock, [p EXCEPT !.cmd = "RSP", !.what = "RSP"])
    /\ UNCHANGED peerSent

\* The server sends a notification, or a client a request; each numbers its own.
PeerSends(s) ==
    /\ peerSent[s] < MaxIn
    /\ peerSent' = [peerSent EXCEPT ![s] = @ + 1]
    /\ LET kind == IF IsServer THEN "REQ" ELSE "NOTE"
       IN  PeerSays(s, [cmd |-> kind, num |-> peerSent[s], tag |-> PeerTag[s],
                        sock |-> s, what |-> kind])
    /\ UNCHANGED owed

PeerCloses(s) ==
    /\ s \in peers
    /\ Cardinality(Sockets \ peers) < MaxCloses
    /\ peers' = peers \ {s}
    /\ UNCHANGED <<inbox, outbox, peerSent, owed, peerAcked, peerSaid>>
    /\ ProcessUnchanged

-----------------------------------------------------------------------------
WriteStep(t) ==
    \/ SendPacket(t) \/ SendFails(t) \/ ScanBegins(t) \/ ScanTurn(t) \/ ScanEnds(t)
    \/ SetTimeout(t) \/ Judge(t) \/ WriteReadsNothing(t)
ReadStep(t) ==
    \/ BeginRead(t) \/ ReadScan(t) \/ ReadNothing(t) \/ KeepAck(t) \/ SendAck(t)
Call(t) ==
    \/ Request(t) \/ Respond(t) \/ NoResponse(t) \/ \E s \in Sockets : Notify(t, s)
PeerStep ==
    \/ \E s \in Sockets : PeerAcks(s) \/ PeerBuffers(s) \/ PeerSends(s) \/ PeerCloses(s)
    \/ \E p \in owed : PeerResponds(p)

Next ==
    \/ \E t \in Threads : Call(t) \/ WriteStep(t) \/ ReadStep(t) \/ StartReceive(t) \/ Receive(t)
    \/ PeerStep

Spec == Init /\ [][Next]_vars

-----------------------------------------------------------------------------
(* Properties.                                                             *)

\* write_socket returns 0 for a request or a notification only if the peer has
\* acknowledged that very packet, although other threads read and buffer its
\* ACK (networking.cpp 413-436).  Two cases are left out, where only the tag
\* could tell two packets of one number apart.  A response has the number and
\* the session of its request: a request that the server's buffer holds twice
\* is answered on two sockets, and the ACK of the one is taken for that of the
\* other.  A notification has in its sessionId what the memory held; if that
\* is the session of a peer, a response may have its number too, and be the one
\* acknowledged.
AckSoundness ==
    \A t \in Threads :
       /\ ret[t] = "ok"
       /\ pkt[t].what # "RSP"
       /\ pkt[t].what = "NOTE" => pkt[t].tag \notin PeerTags
       => pkt[t] \in peerAcked

\* A handler that waits for an ACK waits with a timeout (networking.cpp 393:
\* "set timeout, the read for ACK needs to timeout"), whatever the other threads
\* do to the sockets.  The notification thread need not: the handler of the
\* socket turns its timeout off (458).
HandlersReadInTime ==
    \A t \in Handlers : pc[t] = "wrecv" => limited[t]

\* An ACK found in the buffer is the one that is then looked at
\* (networking.cpp 378: "got the wanted one").
FoundAckKept ==
    \A t \in Threads : (pc[t] = "judge" /\ ~ doTCPRead[t]) => Wanted(pkt[t], ackPkt[t])

\* Where a packet of a peer can be: on its way, in the buffer, in the hands of
\* a thread, or returned to the program.
CountIn(seq, p) == Cardinality({i \in DOMAIN seq : seq[i] = p})
HandsOf(p) == {t \in Threads :
                  \/ pc[t] = "rack" /\ pkt[t] = p
                  \/ pc[t] = "judge" /\ ackPkt[t] = p}
Copies(p) == CountIn(inbox[p.sock], p) + CountIn(bufferPkts, p) + Cardinality(HandsOf(p))
                + Cardinality({p} \cap delivered)
Running == \E t \in Threads : pc[t] # "gone"

\* No packet of a peer gets lost between the threads that read, buffer and
\* take it, unless an error gave it up.
NothingLost == Running => \A p \in peerSaid \ dropped : Copies(p) >= 1

\* Nor is one handed to the program twice.
NothingTwice == \A p \in peerSaid : Copies(p) <= 1 /\ p \notin repeated

\* read_socket reads the message from its own socket (networking.h 71).
ReadsOwnSocket == \A t \in Handlers : pc[t] = "reply" => pkt[t].sock = SockOf[t]
=============================================================================
