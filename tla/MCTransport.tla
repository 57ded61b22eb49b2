----------------------------- MODULE MCTransport -----------------------------
(* Instances of Transport: a client, and a server with two connections.    *)
EXTENDS Transport, TLC

CONSTANTS s1, s2, reader, writer, handler1, handler2, notifier, sid1, sid2, unset

None == {}

\* The client process.
OneSocket == {s1}
TheReader == {reader}
TheWriter == {writer}
ClientSock == [t \in {reader, writer} |-> s1]
ClientTags == {sid1}
ClientPeerTag == [s \in {s1} |-> unset]

\* The server process.
TwoSockets == {s1, s2}
TwoHandlers == {handler1, handler2}
TheNotifier == {notifier}
ServerSock == [t \in TwoHandlers |-> IF t = handler1 THEN s1 ELSE s2]
ServerPeerTag == [s \in {s1, s2} |-> IF s = s1 THEN sid1 ELSE sid2]
\* The memory of a NOTIFY's sessionId may hold the number of a session.
AnyMemory == {unset, sid1}

\* Local variables count only while the code can still read them: the loop
\* index inside the loop, the timeout of a read call during the call, ackPkt
\* until it is overwritten, the packet until the call's end has been judged.
Live(t) ==
    [index   |-> IF pc[t] = "scanning" THEN index[t] ELSE 0,
     limited |-> pc[t] \in {"wrecv", "rrecv"} /\ limited[t],
     reading |-> pc[t] \in WriteSteps /\ doTCPRead[t],
     readOK  |-> pc[t] \in WriteSteps /\ ~ doTCPRead[t] /\ readOK[t],
     ackPkt  |-> IF pc[t] = "judge" \/ (pc[t] \in {"scan", "scanning"} /\ ~ doTCPRead[t])
                 THEN ackPkt[t] ELSE AnyPacket,
     pkt     |-> IF pc[t] \in WriteSteps \cup {"reply", "rack", "rkeep"} \/ ret[t] = "ok"
                 THEN pkt[t] ELSE AnyPacket,
     sock    |-> IF pc[t] \in WriteSteps \cup ReadSteps THEN sock[t] ELSE SockOf]

LiveView == <<packetSeqNum, bufferPkts, bufferPktlock, pc, [t \in Threads |-> Live(t)],
              timeout, ret, netVars, results>>
=============================================================================
