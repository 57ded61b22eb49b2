------------------------------ MODULE MCFraming ------------------------------
(* An instance of Framing: the two threads of a client.                    *)
EXTENDS Framing, TLC

CONSTANTS reader, writer, text

TheReader == {reader}
TheWriter == {writer}
OnePost == {<<Text(text)>>}
\* A message without contents, one with contents, and one whose text reads like
\* the label behind it.
AllSorts == {<<<<>>, <<>>>>, <<<<>>, <<Text(text)>>>>, <<<<End>>, <<>>>>}

\* Bytes read and memory count while a helper is at work, its packet and its
\* request while the call lasts.
LiveBuffer(t) == IF pc[t] \in {"read", "parse"}
                 THEN <<buffer[t], memory[t], packetLength[t]>> ELSE <<>>
LiveCall(t) == IF pc[t] \in {"idle", "gone"} THEN <<>> ELSE <<pkt[t], request[t], outcome[t]>>

\* The properties ask for the history as long as packets are read in one go.
LiveView == <<stream, peerOpen, pc, [t \in Threads |-> <<LiveBuffer(t), LiveCall(t)>>], freed,
              bufferPkts, unacked, asks, says,
              shorts, IF ~ InOneGo THEN <<>> ELSE <<wrote, taken, delivered, written>>>>
=============================================================================
