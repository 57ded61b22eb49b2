------------------------- MODULE TransportFlowProofs -------------------------
(***************************************************************************)
(* Theorems about Transport: where packets are, and how many there are of  *)
(* each.  What a step takes from a socket, the buffer or a thread's hands  *)
(* it puts somewhere else, so no packet of a peer is lost in any process   *)
(* (NothingLost).                                                          *)
(***************************************************************************)
EXTENDS TransportProofs, FiniteSetTheorems

-----------------------------------------------------------------------------
(* How often a packet is in a sequence.                                    *)

Places(seq, p) == {i \in DOMAIN seq : seq[i] = p}

LEMMA CountIsNat ==
    ASSUME NEW S, NEW seq \in Seq(S), NEW p
    PROVE  /\ IsFiniteSet(Places(seq, p))
           /\ CountIn(seq, p) = Cardinality(Places(seq, p))
           /\ CountIn(seq, p) \in Nat
           /\ CountIn(seq, p) = 0 <=> \A i \in DOMAIN seq : seq[i] # p
  <1>1. DOMAIN seq = 1 .. Len(seq) /\ Len(seq) \in Nat
      BY LenProperties
  <1>2. IsFiniteSet(DOMAIN seq)
      BY <1>1, FS_Interval
  <1>3. IsFiniteSet(Places(seq, p))
      BY <1>2, FS_Subset DEF Places
  <1>4. CountIn(seq, p) = Cardinality(Places(seq, p))
      BY DEF CountIn, Places
  <1>5. CountIn(seq, p) \in Nat
      BY <1>3, <1>4, FS_CardinalityType
  <1>6. CountIn(seq, p) = 0 <=> Places(seq, p) = {}
      BY <1>3, <1>4, FS_EmptySet
  <1>7. QED
      BY <1>3, <1>4, <1>5, <1>6 DEF Places

LEMMA CountConcat ==
    ASSUME NEW S, NEW s \in Seq(S), NEW t \in Seq(S), NEW p
    PROVE  CountIn(s \o t, p) = CountIn(s, p) + CountIn(t, p)
  <1> DEFINE A == Places(s, p)
             B == Places(t, p)
             f == [i \in B |-> i + Len(s)]
             C == {i + Len(s) : i \in B}
  <1>1. /\ Len(s) \in Nat /\ DOMAIN s = 1 .. Len(s)
        /\ Len(t) \in Nat /\ DOMAIN t = 1 .. Len(t)
      BY LenProperties
  <1>2. /\ s \o t \in Seq(S)
        /\ Len(s \o t) = Len(s) + Len(t)
        /\ \A i \in 1 .. Len(s) + Len(t) :
              (s \o t)[i] = IF i <= Len(s) THEN s[i] ELSE t[i - Len(s)]
      BY ConcatProperties
  <1>3. DOMAIN (s \o t) = 1 .. Len(s) + Len(t)
      BY <1>2, LenProperties
  <1>4. IsFiniteSet(A) /\ IsFiniteSet(B)
      BY CountIsNat
  <1>5. f \in Bijection(B, C)
    <2>1. B \subseteq Nat
        BY <1>1 DEF Places
    <2>2. f \in [B -> C]
        OBVIOUS
    <2>3. \A i, j \in B : f[i] = f[j] => i = j
        BY <1>1, <2>1
    <2>4. \A c \in C : \E i \in B : f[i] = c
        OBVIOUS
    <2>5. QED
        BY <2>2, <2>3, <2>4 DEF Bijection, Injection, Surjection, IsInjective
  <1>6. IsFiniteSet(C) /\ Cardinality(C) = Cardinality(B)
      BY <1>4, <1>5, FS_Bijection DEF ExistsBijection
  <1>7. Places(s \o t, p) = A \cup C
    <2>1. ASSUME NEW i \in A \cup C PROVE i \in Places(s \o t, p)
        BY <1>1, <1>2, <1>3, <2>1 DEF Places
    <2>2. ASSUME NEW i \in Places(s \o t, p) PROVE i \in A \cup C
      <3>1. i \in 1 .. Len(s) + Len(t) /\ (s \o t)[i] = p
          BY <1>3, <2>2 DEF Places
      <3>2. CASE i <= Len(s)
          BY <1>1, <1>2, <3>1, <3>2 DEF Places
      <3>3. CASE i > Len(s)
        <4>1. i - Len(s) \in B /\ i = (i - Len(s)) + Len(s)
            BY <1>1, <1>2, <3>1, <3>3 DEF Places
        <4>2. QED
            BY <4>1
      <3>4. QED
          BY <1>1, <3>1, <3>2, <3>3
    <2>3. QED
        BY <2>1, <2>2
  <1>8. A \cap C = {}
      BY <1>1 DEF Places
  <1>9. Cardinality(A \cup C) = Cardinality(A) + Cardinality(C) - Cardinality({})
    <2> HIDE DEF A, C
    <2>1. Cardinality(A \cup C) = Cardinality(A) + Cardinality(C) - Cardinality(A \cap C)
        BY <1>4, <1>6, FS_Union
    <2>2. QED
        BY <1>8, <2>1
  <1>10. CountIn(s \o t, p) = Cardinality(A) + Cardinality(B)
    <2>1. CountIn(s \o t, p) = Cardinality(A \cup C)
        BY <1>2, <1>7, CountIsNat
    <2>2. Cardinality(A) \in Nat /\ Cardinality(B) \in Nat /\ Cardinality({}) = 0
        BY <1>4, FS_CardinalityType, FS_EmptySet
    <2>3. QED
        BY <1>6, <1>9, <2>1, <2>2
  <1>11. QED
      BY <1>10, CountIsNat

Once(p, q) == IF p = q THEN 1 ELSE 0

LEMMA CountSingle ==
    ASSUME NEW p, NEW q
    PROVE  CountIn(<<q>>, p) = Once(p, q)
  <1>1. Places(<<q>>, p) = IF p = q THEN {1} ELSE {}
      BY DEF Places
  <1>2. CountIn(<<q>>, p) = Cardinality(Places(<<q>>, p))
      BY DEF CountIn, Places
  <1>3. QED
      BY <1>1, <1>2, FS_Singleton, FS_EmptySet DEF Once

\* A packet put at the end is there once more, and one taken out once less.
LEMMA CountAppend ==
    ASSUME NEW S, NEW seq \in Seq(S), NEW q \in S, NEW p
    PROVE  CountIn(Append(seq, q), p) = CountIn(seq, p) + Once(p, q)
  <1>1. Append(seq, q) = seq \o <<q>> /\ <<q>> \in Seq(S)
      BY AppendIsConcat
  <1>2. CountIn(seq \o <<q>>, p) = CountIn(seq, p) + CountIn(<<q>>, p)
      BY <1>1, CountConcat
  <1>3. QED
      BY <1>1, <1>2, CountSingle

LEMMA CountTail ==
    ASSUME NEW S, NEW seq \in Seq(S), seq # <<>>, NEW p
    PROVE  CountIn(seq, p) = CountIn(Tail(seq), p) + Once(p, Head(seq))
  <1>1. /\ Head(seq) \in S /\ Tail(seq) \in Seq(S)
        /\ <<Head(seq)>> \in Seq(S)
      BY HeadTailProperties
  <1>2. seq = <<Head(seq)>> \o Tail(seq)
    <2>1. Len(seq) \in Nat \ {0}
        BY EmptySeq
    <2>2. 1 \in 1 .. Len(seq) /\ Len(seq) \in 1 .. Len(seq)
        BY <2>1
    <2>3. SubSeq(seq, 1, Len(seq)) = <<seq[1]>> \o SubSeq(seq, 1 + 1, Len(seq))
        BY <2>2, SubSeqRecursiveFirst
    <2>4. SubSeq(seq, 1, Len(seq)) = seq
        BY SubSeqFull
    <2>5. Tail(seq) = SubSeq(seq, 2, Len(seq)) /\ 1 + 1 = 2
        BY TailIsSubSeq
    <2>6. Head(seq) = seq[1]
        BY <2>1
    <2>7. QED
        BY <2>3, <2>4, <2>5, <2>6
  <1>3. CountIn(seq, p) = CountIn(<<Head(seq)>>, p) + CountIn(Tail(seq), p)
    <2>1. PICK a : a = <<Head(seq)>>
        OBVIOUS
    <2>2. PICK b : b = Tail(seq)
        OBVIOUS
    <2>3. a \in Seq(S) /\ b \in Seq(S) /\ seq = a \o b
        BY <1>1, <1>2, <2>1, <2>2
    <2>4. CountIn(a \o b, p) = CountIn(a, p) + CountIn(b, p)
        BY <2>3, CountConcat
    <2>5. QED
        BY <2>1, <2>2, <2>3, <2>4
  <1>4. CountIn(<<Head(seq)>>, p) = Once(p, Head(seq)) /\ Once(p, Head(seq)) \in Nat
      BY CountSingle DEF Once
  <1>5. CountIn(Tail(seq), p) \in Nat
      BY <1>1, CountIsNat
  <1>6. QED
      BY <1>3, <1>4, <1>5

LEMMA CountRemove ==
    ASSUME NEW S, NEW seq \in Seq(S), NEW i \in DOMAIN seq, NEW p
    PROVE  CountIn(seq, p) = CountIn(RemoveAt(seq, i), p) + Once(p, seq[i])
  <1> DEFINE a == SubSeq(seq, 1, i - 1)
             b == SubSeq(seq, i + 1, Len(seq))
  <1>1. i \in 1 .. Len(seq) /\ Len(seq) \in Nat /\ seq[i] \in S
      BY LenProperties, ElementOfSeq
  <1>2. a \in Seq(S) /\ b \in Seq(S) /\ <<seq[i]>> \in Seq(S)
      BY <1>1, SubSeqProperties, ElementOfSeq
  <1>3. seq = a \o (<<seq[i]>> \o b)
    <2>1. SubSeq(seq, i, Len(seq)) = <<seq[i]>> \o b
      <3>1. Len(seq) \in i .. Len(seq)
          BY <1>1
      <3>2. QED
          BY <1>1, <3>1, SubSeqRecursiveFirst
    <2>2. a \o SubSeq(seq, i, Len(seq)) = SubSeq(seq, 1, Len(seq))
      <3>1. PICK k \in Int : k = i - 1
          BY <1>1
      <3>2. 1 \in 1 .. Len(seq) + 1 /\ k \in 1 - 1 .. Len(seq) /\ Len(seq) \in k .. Len(seq)
          BY <1>1, <3>1
      <3>3. SubSeq(seq, 1, k) \o SubSeq(seq, k + 1, Len(seq)) = SubSeq(seq, 1, Len(seq))
          BY <3>2, ConcatAdjacentSubSeq
      <3>4. k + 1 = i
          BY <1>1, <3>1
      <3>5. QED
          BY <3>1, <3>3, <3>4
    <2>3. QED
        BY <2>1, <2>2, SubSeqFull
  <1>4. <<seq[i]>> \o b \in Seq(S)
      BY <1>2, ConcatProperties
  <1>5. CountIn(seq, p) = CountIn(a, p) + (Once(p, seq[i]) + CountIn(b, p))
    <2> HIDE DEF a, b
    <2> DEFINE c == <<seq[i]>> \o b
    <2>1. CountIn(seq, p) = CountIn(a, p) + CountIn(c, p)
      <3>1. c \in Seq(S) /\ seq = a \o c
          BY <1>3, <1>4
      <3> HIDE DEF c
      <3>2. CountIn(a \o c, p) = CountIn(a, p) + CountIn(c, p)
          BY <1>2, <3>1, CountConcat
      <3>3. QED
          BY <3>1, <3>2
    <2>2. CountIn(<<seq[i]>> \o b, p) = CountIn(<<seq[i]>>, p) + CountIn(b, p)
        BY <1>2, CountConcat
    <2>3. QED
        BY <2>1, <2>2, CountSingle
  <1>6. CountIn(RemoveAt(seq, i), p) = CountIn(a, p) + CountIn(b, p)
      BY <1>2, CountConcat DEF RemoveAt
  <1>7. CountIn(a, p) \in Nat /\ CountIn(b, p) \in Nat
      BY <1>2, CountIsNat
  <1>8. QED
      BY <1>5, <1>6, <1>7 DEF Once

-----------------------------------------------------------------------------
(* The copies of a packet: on its way, in the buffer, in hands, returned.  *)

InHand(t, p) == (pc[t] = "rack" /\ pkt[t] = p) \/ (pc[t] = "judge" /\ ackPkt[t] = p)
Held(t, p) == IF InHand(t, p) THEN 1 ELSE 0
OnTheWay(p) == CountIn(inbox[p.sock], p)
Buffered(p) == CountIn(bufferPkts, p)
InHands(p)  == Cardinality(HandsOf(p))
Returned(p) == IF p \in delivered THEN 1 ELSE 0

LEMMA CopiesSum ==
    ASSUME TypeOK, NEW p \in Packet
    PROVE  /\ OnTheWay(p) \in Nat /\ Buffered(p) \in Nat /\ InHands(p) \in Nat
           /\ Returned(p) \in Nat
           /\ IsFiniteSet(HandsOf(p))
           /\ Copies(p) = OnTheWay(p) + Buffered(p) + InHands(p) + Returned(p)
  <1>1. p.sock \in Sockets
      BY DEF Packet
  <1>2. OnTheWay(p) \in Nat /\ Buffered(p) \in Nat
      BY <1>1, CountIsNat DEF TypeOK, OnTheWay, Buffered
  <1>3. IsFiniteSet(HandsOf(p)) /\ InHands(p) \in Nat
      BY TransportAssumption, FS_Subset, FS_CardinalityType DEF HandsOf, InHands
  <1>4. Cardinality({p} \cap delivered) = Returned(p)
    <2>1. CASE p \in delivered
      <3>1. {p} \cap delivered = {p}
          BY <2>1
      <3>2. QED
          BY <2>1, <3>1, FS_Singleton DEF Returned
    <2>2. CASE p \notin delivered
      <3>1. {p} \cap delivered = {}
          BY <2>2
      <3>2. QED
          BY <2>2, <3>1, FS_EmptySet DEF Returned
    <2>3. QED
        BY <2>1, <2>2
  <1>5. QED
      BY <1>2, <1>3, <1>4 DEF Copies, OnTheWay, Buffered, InHands, Returned

\* When one thread acts, the others hold what they held.
LEMMA HandsCount ==
    ASSUME TypeOK, TypeOK', NEW p \in Packet, NEW t \in Threads,
           \A x \in Threads \ {t} : InHand(x, p)' <=> InHand(x, p)
    PROVE  InHands(p)' + Held(t, p) = InHands(p) + Held(t, p)'
  <1> DEFINE A == HandsOf(p) \ {t}
  <1>1. HandsOf(p) = {x \in Threads : InHand(x, p)}
      BY DEF HandsOf, InHand
  <1>2. HandsOf(p)' = {x \in Threads : InHand(x, p)'}
      BY DEF HandsOf, InHand
  <1>3. IsFiniteSet(HandsOf(p)) /\ IsFiniteSet(HandsOf(p)')
      BY TransportAssumption, FS_Subset, <1>1, <1>2
  <1>4. A = HandsOf(p)' \ {t}
    <2> HIDE DEF InHand
    <2>1. QED
        BY <1>1, <1>2
  <1>5. /\ t \in HandsOf(p) <=> InHand(t, p)
        /\ t \in HandsOf(p)' <=> InHand(t, p)'
      BY <1>1, <1>2
  <1>6. /\ Cardinality(A) = IF InHand(t, p) THEN InHands(p) - 1 ELSE InHands(p)
        /\ Cardinality(A) = IF InHand(t, p)' THEN InHands(p)' - 1 ELSE InHands(p)'
      BY <1>3, <1>4, <1>5, FS_RemoveElement DEF InHands
  <1>7. InHands(p) \in Nat /\ InHands(p)' \in Nat
      BY <1>3, FS_CardinalityType DEF InHands
  <1> HIDE DEF InHand, A
  <1>8. QED
      BY <1>6, <1>7 DEF Held

\* A step of one thread changes the number of copies by what it takes, puts,
\* holds and returns.
LEMMA CopiesChange ==
    ASSUME TypeOK, TypeOK', NEW p \in Packet, NEW t \in Threads,
           \A x \in Threads \ {t} : InHand(x, p)' <=> InHand(x, p)
    PROVE  /\ Copies(p) \in Nat /\ Copies(p)' \in Nat
           /\ Copies(p)' - Copies(p) =
                 (OnTheWay(p)' - OnTheWay(p)) + (Buffered(p)' - Buffered(p))
                 + (Held(t, p)' - Held(t, p)) + (Returned(p)' - Returned(p))
           /\ Copies(p)' >= Returned(p)'
  <1>1. InHands(p)' + Held(t, p) = InHands(p) + Held(t, p)'
      BY HandsCount
  <1>2. Held(t, p) \in Nat /\ Held(t, p)' \in Nat
      BY DEF Held
  <1>3. /\ OnTheWay(p) \in Nat /\ Buffered(p) \in Nat /\ InHands(p) \in Nat
        /\ Returned(p) \in Nat
        /\ Copies(p) = OnTheWay(p) + Buffered(p) + InHands(p) + Returned(p)
      BY CopiesSum
  <1>4. /\ OnTheWay(p)' \in Nat /\ Buffered(p)' \in Nat /\ InHands(p)' \in Nat
        /\ Returned(p)' \in Nat
        /\ Copies(p)' = OnTheWay(p)' + Buffered(p)' + InHands(p)' + Returned(p)'
    <2>1. p.sock \in Sockets
        BY DEF Packet
    <2>2. OnTheWay(p)' \in Nat /\ Buffered(p)' \in Nat
        BY <2>1, CountIsNat DEF TypeOK, OnTheWay, Buffered
    <2>3. InHands(p)' \in Nat
        BY TransportAssumption, FS_Subset, FS_CardinalityType DEF HandsOf, InHands
    <2>4. Cardinality({p} \cap delivered') = Returned(p)'
      <3>1. {p} \cap delivered' = IF p \in delivered' THEN {p} ELSE {}
          OBVIOUS
      <3>2. QED
          BY <3>1, FS_Singleton, FS_EmptySet DEF Returned
    <2>5. QED
        BY <2>2, <2>3, <2>4 DEF Copies, OnTheWay, Buffered, InHands, Returned
  <1>5. QED
      BY <1>1, <1>2, <1>3, <1>4

Found(t) == ~ doTCPRead[t] /\ readOK[t]

\* A step loses no packet that was there, unless an error gives it up or ends
\* the last thread.
Survives(p) == Copies(p) >= 1 => Copies(p)' >= 1 \/ p \in dropped' \/ ~ Running'

\* What a step of t must find for it to double nothing: an ACK it found is
\* still in ackPkt, and its socket has its own packets.
InPlace(t) ==
    /\ pc[t] = "scanning" /\ Found(t) => ackPkt[t].cmd = "ACK"
    /\ \A i \in DOMAIN inbox[sock[t]] : inbox[sock[t]][i].sock = sock[t]

Kept(t, p) ==
    /\ Survives(p)
    /\ InPlace(t) => Copies(p)' <= Copies(p)

\* A step in which no packet changes its place.
LEMMA CopiesStay ==
    ASSUME TypeOK, TypeOK', NEW p \in Packet, NEW t \in Threads,
           UNCHANGED <<inbox, bufferPkts, delivered>>,
           \A x \in Threads : InHand(x, p)' <=> InHand(x, p)
    PROVE  Kept(t, p)
  <1>1. /\ OnTheWay(p)' = OnTheWay(p) /\ Buffered(p)' = Buffered(p)
        /\ Returned(p)' = Returned(p)
      BY DEF OnTheWay, Buffered, Returned
  <1>2. Held(t, p)' = Held(t, p) /\ Held(t, p) \in Nat
      BY DEF Held
  <1>3. Copies(p) \in Nat /\ Copies(p)' \in Nat /\ Copies(p)' - Copies(p) = 0
    <2> HIDE DEF InHand
    <2>1. /\ Copies(p) \in Nat /\ Copies(p)' \in Nat
          /\ Copies(p)' - Copies(p) =
                 (OnTheWay(p)' - OnTheWay(p)) + (Buffered(p)' - Buffered(p))
                 + (Held(t, p)' - Held(t, p)) + (Returned(p)' - Returned(p))
        BY CopiesChange
    <2>2. OnTheWay(p) \in Nat /\ Buffered(p) \in Nat /\ Returned(p) \in Nat
        BY CopiesSum
    <2>3. QED
        BY <1>1, <1>2, <2>1, <2>2
  <1>4. QED
      BY <1>3 DEF Kept, Survives

\* The calls, and the steps of write_socket and read_socket that move no packet.
LEMMA QuietKept ==
    ASSUME TypeOK, TypeOK', NEW p \in Packet, NEW t \in Threads,
           \/ Call(t) \/ StartReceive(t) \/ BeginRead(t)
           \/ SendPacket(t) \/ SendFails(t) \/ ScanBegins(t) \/ SetTimeout(t)
           \/ WriteReadsNothing(t)
    PROVE  Kept(t, p)
  <1> USE DEF localVars, netVars, peerVars, results, WriteReturns
  <1> SUFFICES /\ UNCHANGED <<inbox, bufferPkts, delivered>>
               /\ \A x \in Threads : InHand(x, p)' <=> InHand(x, p)
      BY CopiesStay
  <1>0. DOMAIN pc = Threads /\ DOMAIN pkt = Threads
      BY DEF TypeOK
  <1>1. CASE NoResponse(t)
      BY <1>1 DEF NoResponse, InHand, TypeOK
  <1>2. CASE Request(t) \/ Respond(t) \/ \E s \in Sockets : Notify(t, s)
    <2>1. /\ UNCHANGED <<inbox, bufferPkts, delivered, ackPkt>>
          /\ pc[t] \in {"idle", "reply"}
          /\ pc' = [pc EXCEPT ![t] = "send"]
          /\ \E q : pkt' = [pkt EXCEPT ![t] = q]
      <3>1. CASE Request(t)
          BY <3>1 DEF Request, Begin
      <3>2. CASE Respond(t)
          BY <3>2 DEF Respond, Begin
      <3>3. CASE \E s \in Sockets : Notify(t, s)
          BY <3>3 DEF Notify, Begin
      <3>4. QED
          BY <1>2, <3>1, <3>2, <3>3
    <2>2. \A x \in Threads \ {t} : pc'[x] = pc[x] /\ pkt'[x] = pkt[x]
        BY <1>0, <2>1
    <2>3. pc'[t] = "send"
        BY <1>0, <2>1
    <2>4. QED
        BY <2>1, <2>2, <2>3 DEF InHand
  <1>3. CASE StartReceive(t)
      BY <1>3 DEF StartReceive, InHand, TypeOK
  <1>4. CASE BeginRead(t)
    <2>1. /\ UNCHANGED <<inbox, bufferPkts, delivered, ackPkt, pkt>>
          /\ pc[t] = "idle" /\ pc' = [pc EXCEPT ![t] = "rscan"]
        BY <1>4 DEF BeginRead
    <2>2. QED
        BY <1>0, <2>1 DEF InHand
  <1>5. CASE SendPacket(t) \/ SendFails(t)
    <2>1. /\ UNCHANGED <<inbox, bufferPkts, delivered, ackPkt, pkt>>
          /\ pc[t] = "send"
          /\ \E c \in {"scan", "idle", "gone"} : pc' = [pc EXCEPT ![t] = c]
        BY <1>5 DEF SendPacket, SendFails
    <2>2. QED
        BY <1>0, <2>1 DEF InHand
  <1>6. CASE ScanBegins(t) \/ SetTimeout(t)
    <2>1. /\ UNCHANGED <<inbox, bufferPkts, delivered, ackPkt, pkt>>
          /\ pc[t] \in {"scan", "opt", "wstart"}
          /\ \E c \in {"scanning", "opt", "wstart", "wrecv", "idle", "gone"} :
                pc' = [pc EXCEPT ![t] = c]
        BY <1>6 DEF ScanBegins, SetTimeout
    <2>2. QED
        BY <1>0, <2>1 DEF InHand
  <1>7. CASE WriteReadsNothing(t)
      BY <1>7 DEF WriteReadsNothing, InHand, TypeOK
  <1>8. QED
      BY <1>1, <1>2, <1>3, <1>4, <1>5, <1>6, <1>7 DEF Call

\* The loop of write_socket over the buffer takes out an ACK at most.
LEMMA ScanKept ==
    ASSUME TypeOK, TypeOK', NEW p \in Packet, p.cmd # "ACK", NEW t \in Threads,
           ScanTurn(t) \/ ScanEnds(t)
    PROVE  Kept(t, p)
  <1> USE DEF localVars, netVars, peerVars, results, WriteReturns
  <1>1. CASE ScanTurn(t)
    <2>1. /\ UNCHANGED <<inbox, delivered, pc, pkt>>
          /\ \A x \in Threads \ {t} : ackPkt'[x] = ackPkt[x]
          /\ pc[t] = "scanning"
        BY <1>1 DEF ScanTurn, TypeOK
    <2>2. index[t] \in DOMAIN bufferPkts
      <3>1. bufferPkts \in Seq(Packet) /\ index[t] \in Nat \ {0} /\ index[t] <= Len(bufferPkts)
          BY <1>1 DEF ScanTurn, TypeOK
      <3>2. QED
          BY <3>1
    <2>3. Buffered(p)' = Buffered(p)
      <3>1. \/ bufferPkts' = bufferPkts
            \/ bufferPkts' = RemoveAt(bufferPkts, index[t]) /\ bufferPkts[index[t]].cmd = "ACK"
          BY <1>1 DEF ScanTurn, Wanted
      <3>2. CASE bufferPkts' = bufferPkts
          BY <3>2 DEF Buffered
      <3>3. CASE bufferPkts' = RemoveAt(bufferPkts, index[t]) /\ bufferPkts[index[t]].cmd = "ACK"
        <4>1. bufferPkts \in Seq(Packet) /\ bufferPkts' \in Seq(Packet)
            BY DEF TypeOK
        <4>2. CountIn(bufferPkts, p) = CountIn(bufferPkts', p) + Once(p, bufferPkts[index[t]])
            BY <2>2, <3>3, <4>1, CountRemove
        <4>3. CountIn(bufferPkts', p) \in Nat /\ Once(p, bufferPkts[index[t]]) = 0
            BY <3>3, <4>1, CountIsNat DEF Once
        <4>4. QED
            BY <4>2, <4>3 DEF Buffered
      <3>4. QED
          BY <3>1, <3>2, <3>3
    <2>4. OnTheWay(p)' = OnTheWay(p) /\ Returned(p)' = Returned(p)
        BY <2>1 DEF OnTheWay, Returned
    <2>5. \A x \in Threads : InHand(x, p)' <=> InHand(x, p)
        BY <2>1 DEF InHand
    <2>6. Held(t, p)' = Held(t, p) /\ Held(t, p) \in Nat
        BY <2>5 DEF Held
    <2>7. QED
      <3> HIDE DEF InHand
      <3>1. OnTheWay(p) \in Nat /\ Buffered(p) \in Nat /\ Returned(p) \in Nat
          BY CopiesSum
      <3>2. QED
          BY <2>3, <2>4, <2>5, <2>6, <3>1, CopiesChange DEF Kept, Survives
  <1>2. CASE ScanEnds(t)
    <2>1. UNCHANGED <<inbox, bufferPkts, delivered, pkt, ackPkt>>
        BY <1>2 DEF ScanEnds
    <2>2. /\ pc[t] = "scanning"
          /\ \A x \in Threads \ {t} : pc'[x] = pc[x]
          /\ pc'[t] \in {"opt", "judge", "idle"}
          /\ pc'[t] = "judge" => Found(t)
        BY <1>2 DEF ScanEnds, Found, TypeOK
    <2>3. \A x \in Threads \ {t} : InHand(x, p)' <=> InHand(x, p)
        BY <2>1, <2>2 DEF InHand
    <2>4. Held(t, p) = 0 /\ Held(t, p)' \in {0, 1} /\ (InPlace(t) => Held(t, p)' = 0)
        BY <2>1, <2>2 DEF Held, InHand, InPlace
    <2>5. /\ OnTheWay(p)' = OnTheWay(p) /\ Buffered(p)' = Buffered(p)
          /\ Returned(p)' = Returned(p)
        BY <2>1 DEF OnTheWay, Buffered, Returned
    <2>6. QED
      <3>1. OnTheWay(p) \in Nat /\ Buffered(p) \in Nat /\ Returned(p) \in Nat
          BY CopiesSum
      <3>2. QED
          BY <2>3, <2>4, <2>5, <3>1, CopiesChange DEF Kept, Survives
  <1>3. QED
      BY <1>1, <1>2

\* An unwanted packet goes from ackPkt to the buffer, or is given up.
LEMMA JudgeKept ==
    ASSUME TypeOK, TypeOK', NEW p \in Packet, p.cmd # "ACK", NEW t \in Threads, Judge(t)
    PROVE  Kept(t, p)
  <1> USE DEF localVars, netVars, peerVars, results, WriteReturns
  <1>1. /\ UNCHANGED <<inbox, delivered, pkt, ackPkt>>
        /\ pc[t] = "judge"
        /\ \A x \in Threads \ {t} : pc'[x] = pc[x]
        /\ pc'[t] \in {"scan", "idle"}
      BY DEF Judge, TypeOK
  <1>2. \A x \in Threads \ {t} : InHand(x, p)' <=> InHand(x, p)
      BY <1>1 DEF InHand
  <1>3. Held(t, p) = Once(p, ackPkt[t]) /\ Held(t, p)' = 0 /\ Once(p, ackPkt[t]) \in {0, 1}
      BY <1>1 DEF Held, InHand, Once
  <1>4. OnTheWay(p)' = OnTheWay(p) /\ Returned(p)' = Returned(p)
      BY <1>1 DEF OnTheWay, Returned
  <1>5. \/ Buffered(p)' = Buffered(p) + Once(p, ackPkt[t])
        \/ Buffered(p)' = Buffered(p) /\ ackPkt[t] \in dropped'
        \/ Buffered(p)' = Buffered(p) /\ ackPkt[t].cmd = "ACK"
    <2>1. \/ bufferPkts' = Append(bufferPkts, ackPkt[t])
          \/ bufferPkts' = bufferPkts /\ ackPkt[t] \in dropped'
          \/ bufferPkts' = bufferPkts /\ ackPkt[t].cmd = "ACK"
        BY DEF Judge
    <2>2. CountIn(Append(bufferPkts, ackPkt[t]), p) = CountIn(bufferPkts, p) + Once(p, ackPkt[t])
      <3>1. bufferPkts \in Seq(Packet) /\ ackPkt[t] \in Packet
          BY DEF TypeOK
      <3>2. QED
          BY <3>1, CountAppend
    <2>3. QED
        BY <2>1, <2>2 DEF Buffered
  <1>6. \/ Buffered(p)' = Buffered(p) + Once(p, ackPkt[t])
        \/ Buffered(p)' = Buffered(p) /\ p \in dropped'
        \/ Buffered(p)' = Buffered(p) /\ Once(p, ackPkt[t]) = 0
      BY <1>5 DEF Once
  <1>7. OnTheWay(p) \in Nat /\ Buffered(p) \in Nat /\ Returned(p) \in Nat
      BY CopiesSum
  <1>8. /\ Copies(p) \in Nat /\ Copies(p)' \in Nat
        /\ Copies(p)' - Copies(p) =
               (OnTheWay(p)' - OnTheWay(p)) + (Buffered(p)' - Buffered(p))
               + (Held(t, p)' - Held(t, p)) + (Returned(p)' - Returned(p))
      BY <1>2, CopiesChange
  <1>9. \/ Copies(p)' = Copies(p)
        \/ Copies(p)' <= Copies(p) /\ p \in dropped'
    <2> HIDE DEF InHand
    <2>1. \/ Copies(p)' - Copies(p) = 0
          \/ Copies(p)' - Copies(p) = 0 - Once(p, ackPkt[t]) /\ p \in dropped'
        BY <1>3, <1>4, <1>6, <1>7, <1>8
    <2>2. QED
        BY <1>3, <1>8, <2>1
  <1>10. QED
      BY <1>8, <1>9 DEF Kept, Survives

\* The packet at the head of a socket's inbox goes to the hands of the thread
\* that reads.
LEMMA ReceiveKept ==
    ASSUME TypeOK, TypeOK', NEW p \in Packet, p.cmd # "ACK", NEW t \in Threads, Receive(t)
    PROVE  Kept(t, p)
  <1> USE DEF localVars, netVars, peerVars, results
  <1> DEFINE q == Head(inbox[sock[t]])
  <1>1. inbox[sock[t]] \in Seq(Packet) /\ inbox[sock[t]] # <<>> /\ sock[t] \in Sockets
      BY DEF Receive, TypeOK
  <1>2. q \in Packet /\ q = inbox[sock[t]][1] /\ 1 \in DOMAIN inbox[sock[t]]
    <2>1. Len(inbox[sock[t]]) \in Nat \ {0}
        BY <1>1, EmptySeq
    <2>2. QED
        BY <1>1, <2>1
  <1>3. /\ UNCHANGED <<bufferPkts, delivered>>
        /\ inbox' = [inbox EXCEPT ![sock[t]] = Tail(@)]
        /\ pc[t] \in {"wrecv", "rrecv"}
        /\ \A x \in Threads \ {t} : /\ pc'[x] = pc[x] /\ pkt'[x] = pkt[x]
                                    /\ ackPkt'[x] = ackPkt[x]
      BY DEF Receive, TypeOK
  <1>4. \/ pc'[t] = "judge" /\ ackPkt'[t] = q
        \/ pc'[t] = "rack" /\ pkt'[t] = q
        \/ pc'[t] = "rkeep" /\ q.cmd = "ACK"
    <2> HIDE DEF q
    <2>1. \/ pc' = [pc EXCEPT ![t] = "judge"] /\ ackPkt' = [ackPkt EXCEPT ![t] = q]
          \/ /\ pc' = [pc EXCEPT ![t] = IF q.cmd = "ACK" THEN "rkeep" ELSE "rack"]
             /\ pkt' = [pkt EXCEPT ![t] = q]
        BY DEF Receive, q
    <2>2. QED
        BY <2>1 DEF TypeOK
  <1> HIDE DEF q
  <1>5. \A x \in Threads \ {t} : InHand(x, p)' <=> InHand(x, p)
      BY <1>3 DEF InHand
  <1>6. Held(t, p) = 0 /\ Held(t, p)' = Once(p, q) /\ Once(p, q) \in {0, 1}
      BY <1>3, <1>4 DEF Held, InHand, Once
  <1>7. Buffered(p)' = Buffered(p) /\ Returned(p)' = Returned(p)
      BY <1>3 DEF Buffered, Returned
  <1>8. OnTheWay(p) \in Nat /\ OnTheWay(p)' \in Nat /\ Buffered(p) \in Nat /\ Returned(p) \in Nat
    <2>1. p.sock \in Sockets
        BY DEF Packet
    <2>2. QED
        BY <2>1, CopiesSum, CountIsNat DEF TypeOK, OnTheWay
  <1>9. IF p.sock = sock[t] THEN OnTheWay(p) = OnTheWay(p)' + Once(p, q)
                            ELSE OnTheWay(p)' = OnTheWay(p)
    <2>1. CASE p.sock = sock[t]
      <3>1. CountIn(inbox[sock[t]], p) = CountIn(Tail(inbox[sock[t]]), p) + Once(p, q)
          BY <1>1, CountTail DEF q
      <3>2. inbox'[sock[t]] = Tail(inbox[sock[t]])
          BY <1>1, <1>3 DEF TypeOK
      <3>3. QED
          BY <2>1, <3>1, <3>2 DEF OnTheWay
    <2>2. CASE p.sock # sock[t]
      <3>1. p.sock \in Sockets
          BY DEF Packet
      <3>2. inbox'[p.sock] = inbox[p.sock]
          BY <1>3, <2>2, <3>1 DEF TypeOK
      <3>3. QED
          BY <2>2, <3>2 DEF OnTheWay
    <2>3. QED
        BY <2>1, <2>2
  <1>10. InPlace(t) /\ p.sock # sock[t] => Once(p, q) = 0
      BY <1>2 DEF InPlace, Once
  <1>11. /\ Copies(p) \in Nat /\ Copies(p)' \in Nat
         /\ Copies(p)' - Copies(p) =
               (OnTheWay(p)' - OnTheWay(p)) + (Buffered(p)' - Buffered(p))
               + (Held(t, p)' - Held(t, p)) + (Returned(p)' - Returned(p))
      BY <1>5, CopiesChange
  <1>12. /\ Copies(p)' >= Copies(p)
         /\ Copies(p)' > Copies(p) => Once(p, q) = 1 /\ p.sock # sock[t]
    <2>1. Copies(p)' - Copies(p) = (OnTheWay(p)' - OnTheWay(p)) + Once(p, q)
        BY <1>6, <1>7, <1>8, <1>11
    <2>2. Copies(p)' - Copies(p) = IF p.sock = sock[t] THEN 0 ELSE Once(p, q)
        BY <1>6, <1>8, <1>9, <2>1
    <2>3. QED
        BY <1>6, <1>11, <2>2
  <1>13. QED
      BY <1>10, <1>11, <1>12 DEF Kept, Survives

\* read_socket stops: only the end of the client's connection ends other threads.
LEMMA StopsThreads ==
    ASSUME TypeOK, NEW t \in Threads, NEW code, ReadStops(t, code)
    PROVE  \/ /\ \A x \in Threads \ {t} : pc'[x] = pc[x]
              /\ pc'[t] \in {"idle", "gone"}
           \/ code = "0" /\ \A x \in Threads : pc'[x] = "gone"
  BY DEF ReadStops, TypeOK

\* The first packet in the buffer that is no ACK is returned.
LEMMA ReadScanKept ==
    ASSUME TypeOK, TypeOK', NEW p \in Packet, NEW t \in Threads, ReadScan(t)
    PROVE  Kept(t, p)
  <1> USE DEF localVars, netVars, peerVars, results
  <1>1. CASE /\ pc' = [pc EXCEPT ![t] = "rstart"]
             /\ UNCHANGED <<bufferPkts, pkt, delivered, repeated, ret>>
    <2>1. UNCHANGED <<inbox, bufferPkts, delivered>>
        BY <1>1 DEF ReadScan
    <2>2. \A x \in Threads : InHand(x, p)' <=> InHand(x, p)
        BY <1>1 DEF ReadScan, InHand, TypeOK
    <2>3. QED
        BY <2>1, <2>2, CopiesStay
  <1>2. ASSUME NEW i \in DOMAIN bufferPkts,
               bufferPkts' = RemoveAt(bufferPkts, i), ReadReturns(t, bufferPkts[i])
        PROVE  Kept(t, p)
    <2> DEFINE q == bufferPkts[i]
    <2>1. /\ UNCHANGED <<inbox, ackPkt>>
          /\ delivered' = delivered \cup {q}
          /\ \A x \in Threads \ {t} : pc'[x] = pc[x] /\ pkt'[x] = pkt[x]
          /\ pc[t] = "rscan"
          /\ pc'[t] \in {"reply", "idle"}
        BY <1>2 DEF ReadScan, ReadReturns, TypeOK
    <2>2. bufferPkts \in Seq(Packet)
        BY DEF TypeOK
    <2>3. CountIn(bufferPkts, p) = CountIn(RemoveAt(bufferPkts, i), p) + Once(p, bufferPkts[i])
        BY <2>2, CountRemove
    <2> HIDE DEF q
    <2>4. Buffered(p) = Buffered(p)' + Once(p, q)
        BY <1>2, <2>3 DEF Buffered, q
    <2>5. OnTheWay(p)' = OnTheWay(p)
        BY <2>1 DEF OnTheWay
    <2>6. \A x \in Threads \ {t} : InHand(x, p)' <=> InHand(x, p)
        BY <2>1 DEF InHand
    <2>7. Held(t, p) = 0 /\ Held(t, p)' = 0
        BY <2>1 DEF Held, InHand
    <2>8. /\ Once(p, q) \in {0, 1} /\ Returned(p) \in {0, 1} /\ Returned(p)' \in {0, 1}
          /\ Returned(p) <= Returned(p)'
          /\ Returned(p)' <= Returned(p) + Once(p, q)
          /\ Once(p, q) = 1 => Returned(p)' = 1
        BY <2>1 DEF Once, Returned
    <2>9. OnTheWay(p) \in Nat /\ Buffered(p) \in Nat /\ Buffered(p)' \in Nat
      <3>1. bufferPkts' \in Seq(Packet)
          BY DEF TypeOK
      <3>2. Buffered(p)' \in Nat
          BY <3>1, CountIsNat DEF Buffered
      <3>3. QED
          BY <3>2, CopiesSum
    <2> HIDE DEF InHand
    <2>10. /\ Copies(p) \in Nat /\ Copies(p)' \in Nat
           /\ Copies(p)' - Copies(p) =
                 (OnTheWay(p)' - OnTheWay(p)) + (Buffered(p)' - Buffered(p))
                 + (Held(t, p)' - Held(t, p)) + (Returned(p)' - Returned(p))
           /\ Copies(p)' >= Returned(p)'
        BY <2>6, CopiesChange
    <2>11. Copies(p)' - Copies(p) = (Returned(p)' - Returned(p)) - Once(p, q)
      <3>1. /\ Once(p, q) \in Nat /\ Returned(p) \in Nat /\ Returned(p)' \in Nat
          BY <2>8
      <3>2. Buffered(p)' - Buffered(p) = 0 - Once(p, q)
          BY <2>4, <2>9, <3>1
      <3>3. OnTheWay(p)' - OnTheWay(p) = 0
          BY <2>5, <2>9
      <3>4. Held(t, p)' - Held(t, p) = 0
          BY <2>7
      <3>5. QED
          BY <2>10, <3>1, <3>2, <3>3, <3>4
    <2>12. Copies(p)' <= Copies(p) /\ (Copies(p)' < Copies(p) => Copies(p)' >= 1)
      <3>1. CASE Once(p, q) = 0
        <4>1. Returned(p)' - Returned(p) = 0
            BY <2>8, <3>1
        <4>2. QED
            BY <2>10, <2>11, <3>1, <4>1
      <3>2. CASE Once(p, q) = 1
          BY <2>8, <2>10, <2>11, <3>2
      <3>3. QED
          BY <2>8, <3>1, <3>2
    <2>13. QED
        BY <2>10, <2>12 DEF Kept, Survives
  <1>3. QED
      BY <1>1, <1>2 DEF ReadScan

\* A packet that is no ACK is acknowledged and returned, or given up.
LEMMA SendAckKept ==
    ASSUME TypeOK, TypeOK', NEW p \in Packet, NEW t \in Threads, SendAck(t)
    PROVE  Kept(t, p)
  <1> USE DEF localVars, netVars, peerVars, results
  <1> DEFINE q == pkt[t]
  <1>1. /\ UNCHANGED <<inbox, bufferPkts, ackPkt>>
        /\ pc[t] = "rack"
        /\ \A x \in Threads \ {t} : pc'[x] = pc[x] /\ pkt'[x] = pkt[x]
        /\ pc'[t] \in {"reply", "idle", "gone"}
        /\ delivered' = delivered \cup {q} \/ (delivered' = delivered /\ q \in dropped')
    <2>1. CASE ReadReturns(t, pkt[t])
        BY <2>1 DEF SendAck, ReadReturns, TypeOK
    <2>2. CASE ReadStops(t, "-3") /\ dropped' = dropped \cup {pkt[t]}
               /\ UNCHANGED <<pkt, delivered, repeated>>
        BY <2>2, StopsThreads DEF SendAck
    <2>3. QED
        BY <2>1, <2>2 DEF SendAck
  <1> HIDE DEF q
  <1>2. OnTheWay(p)' = OnTheWay(p) /\ Buffered(p)' = Buffered(p)
      BY <1>1 DEF OnTheWay, Buffered
  <1>3. \A x \in Threads \ {t} : InHand(x, p)' <=> InHand(x, p)
      BY <1>1 DEF InHand
  <1>4. Held(t, p) = Once(p, q) /\ Held(t, p)' = 0 /\ Once(p, q) \in {0, 1}
      BY <1>1 DEF Held, InHand, Once, q
  <1>5. /\ Returned(p) \in {0, 1} /\ Returned(p)' \in {0, 1}
        /\ Returned(p) <= Returned(p)'
        /\ Returned(p)' <= Returned(p) + Once(p, q)
        /\ Once(p, q) = 1 => Returned(p)' = 1 \/ p \in dropped'
      BY <1>1 DEF Once, Returned
  <1>6. OnTheWay(p) \in Nat /\ Buffered(p) \in Nat
      BY CopiesSum
  <1>7. /\ Copies(p) \in Nat /\ Copies(p)' \in Nat
        /\ Copies(p)' - Copies(p) =
              (OnTheWay(p)' - OnTheWay(p)) + (Buffered(p)' - Buffered(p))
              + (Held(t, p)' - Held(t, p)) + (Returned(p)' - Returned(p))
        /\ Copies(p)' >= Returned(p)'
      BY <1>3, CopiesChange
  <1> HIDE DEF InHand
  <1>8. Copies(p)' - Copies(p) = (Returned(p)' - Returned(p)) - Once(p, q)
      BY <1>2, <1>4, <1>5, <1>6, <1>7
  <1>9. /\ Copies(p)' <= Copies(p)
        /\ Copies(p)' < Copies(p) => Copies(p)' >= 1 \/ p \in dropped'
    <2>1. CASE Once(p, q) = 0
      <3>1. Returned(p)' - Returned(p) = 0
          BY <1>5, <2>1
      <3>2. QED
          BY <1>7, <1>8, <2>1, <3>1
    <2>2. CASE Once(p, q) = 1
        BY <1>5, <1>7, <1>8, <2>2
    <2>3. QED
        BY <1>4, <2>1, <2>2
  <1>10. QED
      BY <1>7, <1>9 DEF Kept, Survives

\* A thread in KeepAck has an ACK.
AcksKept == \A t \in Threads : pc[t] = "rkeep" => pkt[t].cmd = "ACK"

LEMMA KeepAckKept ==
    ASSUME TypeOK, TypeOK', AcksKept, NEW p \in Packet, p.cmd # "ACK", NEW t \in Threads,
           KeepAck(t)
    PROVE  Kept(t, p)
  <1> USE DEF localVars, netVars, peerVars, results
  <1>1. /\ UNCHANGED <<inbox, delivered, pkt, ackPkt>>
        /\ pc[t] = "rkeep"
        /\ \A x \in Threads \ {t} : pc'[x] = pc[x]
        /\ pc'[t] \in {"idle", "gone", "rstart"}
    <2>1. CASE pc' = [pc EXCEPT ![t] = "rstart"]
        BY <2>1 DEF KeepAck, TypeOK
    <2>2. CASE ReadStops(t, "-4")
        BY <2>2, StopsThreads DEF KeepAck
    <2>3. QED
        BY <2>1, <2>2 DEF KeepAck
  <1>2. OnTheWay(p)' = OnTheWay(p) /\ Returned(p)' = Returned(p)
      BY <1>1 DEF OnTheWay, Returned
  <1>3. \A x \in Threads : InHand(x, p)' <=> InHand(x, p)
      BY <1>1 DEF InHand
  <1>4. Held(t, p)' = Held(t, p) /\ Held(t, p) \in Nat
      BY <1>3 DEF Held
  <1>5. Buffered(p)' = Buffered(p)
    <2>1. bufferPkts \in Seq(Packet) /\ pkt[t] \in Packet
        BY DEF TypeOK
    <2>2. CountIn(Append(bufferPkts, pkt[t]), p) = CountIn(bufferPkts, p) + Once(p, pkt[t])
        BY <2>1, CountAppend
    <2>3. Once(p, pkt[t]) = 0 /\ CountIn(bufferPkts, p) \in Nat
        BY <1>1, <2>1, CountIsNat DEF AcksKept, Once
    <2>4. CountIn(Append(bufferPkts, pkt[t]), p) = CountIn(bufferPkts, p)
        BY <2>2, <2>3
    <2>5. bufferPkts' = bufferPkts \/ bufferPkts' = Append(bufferPkts, pkt[t])
        BY DEF KeepAck
    <2>6. QED
        BY <2>4, <2>5 DEF Buffered
  <1>6. OnTheWay(p) \in Nat /\ Buffered(p) \in Nat /\ Returned(p) \in Nat
      BY CopiesSum
  <1> HIDE DEF InHand
  <1>7. Copies(p) \in Nat /\ Copies(p)' \in Nat /\ Copies(p)' - Copies(p) = 0
    <2>1. /\ Copies(p) \in Nat /\ Copies(p)' \in Nat
          /\ Copies(p)' - Copies(p) =
              (OnTheWay(p)' - OnTheWay(p)) + (Buffered(p)' - Buffered(p))
              + (Held(t, p)' - Held(t, p)) + (Returned(p)' - Returned(p))
        BY <1>3, CopiesChange
    <2>2. QED
        BY <1>2, <1>4, <1>5, <1>6, <2>1
  <1>8. QED
      BY <1>7 DEF Kept, Survives

\* A read that ends with nothing moves no packet, but the end of the client's
\* connection ends its threads, and what they hold with them.
LEMMA ReadNothingKept ==
    ASSUME TypeOK, TypeOK', NEW p \in Packet, NEW t \in Threads, ReadNothing(t)
    PROVE  Kept(t, p)
  <1> USE DEF localVars, netVars, peerVars, results
  <1>1. UNCHANGED <<inbox, bufferPkts, delivered, pkt, ackPkt>> /\ pc[t] = "rrecv"
      BY DEF ReadNothing
  <1>2. CASE /\ \A x \in Threads \ {t} : pc'[x] = pc[x]
             /\ pc'[t] \in {"idle", "gone"}
    <2>1. \A x \in Threads : InHand(x, p)' <=> InHand(x, p)
        BY <1>1, <1>2 DEF InHand
    <2>2. QED
        BY <1>1, <2>1, CopiesStay
  <1>3. CASE \A x \in Threads : pc'[x] = "gone"
    <2>1. ~ Running' /\ HandsOf(p)' = {}
        BY <1>3 DEF Running, HandsOf
    <2>2. /\ OnTheWay(p)' = OnTheWay(p) /\ Buffered(p)' = Buffered(p)
          /\ Returned(p)' = Returned(p)
        BY <1>1 DEF OnTheWay, Buffered, Returned
    <2>3. /\ OnTheWay(p) \in Nat /\ Buffered(p) \in Nat /\ InHands(p) \in Nat
          /\ Returned(p) \in Nat
          /\ Copies(p) = OnTheWay(p) + Buffered(p) + InHands(p) + Returned(p)
        BY CopiesSum
    <2>4. Copies(p)' = OnTheWay(p) + Buffered(p) + Returned(p)
      <3>1. Cardinality({p} \cap delivered) = Returned(p)
        <4>1. {p} \cap delivered = IF p \in delivered THEN {p} ELSE {}
            OBVIOUS
        <4>2. QED
            BY <4>1, FS_Singleton, FS_EmptySet DEF Returned
      <3>2. Cardinality(HandsOf(p)') = 0
          BY <2>1, FS_EmptySet
      <3>3. Copies(p)' = OnTheWay(p)' + Buffered(p)' + Cardinality(HandsOf(p)')
                            + Cardinality({p} \cap delivered')
          BY DEF Copies, OnTheWay, Buffered
      <3>4. QED
          BY <1>1, <2>2, <2>3, <3>1, <3>2, <3>3
    <2>5. QED
        BY <2>1, <2>3, <2>4 DEF Kept, Survives
  <1>4. QED
    <2>1. ReadStops(t, "-9") \/ ReadStops(t, "0")
        BY DEF ReadNothing
    <2>2. QED
        BY <1>2, <1>3, <2>1, StopsThreads

\* A step of a thread of this process, whatever it is.
ThreadStep(t) == Call(t) \/ WriteStep(t) \/ ReadStep(t) \/ StartReceive(t) \/ Receive(t)

LEMMA ThreadKept ==
    ASSUME TypeOK, TypeOK', AcksKept, NEW p \in Packet, p.cmd # "ACK", NEW t \in Threads,
           ThreadStep(t)
    PROVE  Kept(t, p)
  <1>1. CASE \/ Call(t) \/ StartReceive(t) \/ BeginRead(t)
             \/ SendPacket(t) \/ SendFails(t) \/ ScanBegins(t) \/ SetTimeout(t)
             \/ WriteReadsNothing(t)
      BY <1>1, QuietKept
  <1>2. CASE ScanTurn(t) \/ ScanEnds(t)
      BY <1>2, ScanKept
  <1>3. CASE Judge(t)
      BY <1>3, JudgeKept
  <1>4. CASE Receive(t)
      BY <1>4, ReceiveKept
  <1>5. CASE ReadScan(t)
      BY <1>5, ReadScanKept
  <1>6. CASE ReadNothing(t)
      BY <1>6, ReadNothingKept
  <1>7. CASE KeepAck(t)
      BY <1>7, KeepAckKept
  <1>8. CASE SendAck(t)
      BY <1>8, SendAckKept
  <1>9. QED
      BY <1>1, <1>2, <1>3, <1>4, <1>5, <1>6, <1>7, <1>8 DEF ThreadStep, WriteStep, ReadStep

\* A peer that sends p puts one copy of p on its way, and nothing else a peer
\* does changes the number of copies.
LEMMA PeerCopies ==
    ASSUME TypeOK, TypeOK', NEW p \in Packet, UNCHANGED <<bufferPkts, pc, pkt, ackPkt, delivered>>
    PROVE  /\ Copies(p) \in Nat /\ OnTheWay(p) \in Nat /\ OnTheWay(p)' \in Nat
           /\ Copies(p)' = Copies(p) + (OnTheWay(p)' - OnTheWay(p))
  <1>1. /\ OnTheWay(p) \in Nat /\ Buffered(p) \in Nat /\ InHands(p) \in Nat
        /\ Returned(p) \in Nat
        /\ Copies(p) = OnTheWay(p) + Buffered(p) + InHands(p) + Returned(p)
      BY CopiesSum
  <1>2. OnTheWay(p)' \in Nat
    <2>1. p.sock \in Sockets
        BY DEF Packet
    <2>2. QED
        BY <2>1, CountIsNat DEF TypeOK, OnTheWay
  <1>3. Copies(p) = OnTheWay(p) + Buffered(p) + InHands(p) + Cardinality({p} \cap delivered)
      BY DEF Copies, OnTheWay, Buffered, InHands
  <1>4. Copies(p)' = OnTheWay(p)' + Buffered(p) + InHands(p) + Cardinality({p} \cap delivered)
      BY DEF Copies, OnTheWay, Buffered, InHands, HandsOf
  <1>5. Cardinality({p} \cap delivered) \in Nat
    <2>1. {p} \cap delivered = IF p \in delivered THEN {p} ELSE {}
        OBVIOUS
    <2>2. QED
        BY <2>1, FS_Singleton, FS_EmptySet
  <1>6. QED
      BY <1>1, <1>2, <1>3, <1>4, <1>5

LEMMA SaysCopies ==
    ASSUME TypeOK, TypeOK', NEW p \in Packet, NEW q \in Packet, PeerSays(q.sock, q)
    PROVE  Copies(p) \in Nat /\ Copies(p)' = Copies(p) + Once(p, q)
  <1> USE DEF localVars, results
  <1>1. UNCHANGED <<bufferPkts, pc, pkt, ackPkt, delivered>>
      BY DEF PeerSays, ProcessUnchanged
  <1>2. OnTheWay(p)' = OnTheWay(p) + Once(p, q)
    <2>1. p.sock \in Sockets /\ q.sock \in Sockets
        BY DEF Packet
    <2>2. inbox[q.sock] \in Seq(Packet) /\ inbox[p.sock] \in Seq(Packet)
        BY <2>1 DEF TypeOK
    <2>3. CountIn(Append(inbox[q.sock], q), p) = CountIn(inbox[q.sock], p) + Once(p, q)
        BY <2>2, CountAppend
    <2>4. CountIn(inbox[p.sock], p) \in Nat
        BY <2>2, CountIsNat
    <2>5. CASE p.sock = q.sock
      <3>1. inbox'[p.sock] = Append(inbox[q.sock], q)
          BY <2>1, <2>5 DEF PeerSays, TypeOK
      <3>2. QED
          BY <2>3, <2>5, <3>1 DEF OnTheWay
    <2>6. CASE p.sock # q.sock
      <3>1. inbox'[p.sock] = inbox[p.sock]
          BY <2>1, <2>6 DEF PeerSays, TypeOK
      <3>2. Once(p, q) = 0
          BY <2>6 DEF Once
      <3>3. QED
          BY <2>4, <3>1, <3>2 DEF OnTheWay
    <2>7. QED
        BY <2>5, <2>6
  <1>3. Once(p, q) \in Nat
      BY DEF Once
  <1>4. QED
      BY <1>1, <1>2, <1>3, PeerCopies

LEMMA QuietPeerCopies ==
    ASSUME TypeOK, TypeOK', NEW p \in Packet, p.cmd # "ACK", NEW s \in Sockets,
           PeerAcks(s) \/ PeerBuffers(s) \/ PeerCloses(s)
    PROVE  UNCHANGED peerSaid /\ Copies(p)' = Copies(p)
  <1> USE DEF localVars, results
  <1>1. UNCHANGED <<bufferPkts, pc, pkt, ackPkt, delivered, peerSaid>>
      BY DEF PeerAcks, PeerBuffers, PeerCloses, PeerTakes, ProcessUnchanged
  <1>2. OnTheWay(p)' = OnTheWay(p)
    <2>1. p.sock \in Sockets
        BY DEF Packet
    <2>2. CASE PeerAcks(s)
      <3>1. PICK q \in Packet : q = AckOf(Head(outbox[s]))
        <4>1. outbox[s] \in Seq(Packet) /\ outbox[s] # <<>>
            BY <2>2 DEF PeerAcks, PeerTakes, TypeOK
        <4>2. Head(outbox[s]) \in Packet
            BY <4>1
        <4>3. QED
            BY <4>2, CopiesTyped
      <3>2. q.cmd = "ACK"
        <4>1. outbox[s] \in Seq(Packet) /\ outbox[s] # <<>>
            BY <2>2 DEF PeerAcks, PeerTakes, TypeOK
        <4>2. Head(outbox[s]) \in Packet
            BY <4>1
        <4>3. QED
            BY <3>1, <4>2 DEF AckOf, Packet
      <3>3. inbox' = [inbox EXCEPT ![s] = Append(@, q)] /\ inbox[s] \in Seq(Packet)
          BY <2>2, <3>1 DEF PeerAcks, TypeOK
      <3>4. CountIn(Append(inbox[s], q), p) = CountIn(inbox[s], p) + Once(p, q)
          BY <3>3, CountAppend
      <3>5. Once(p, q) = 0 /\ CountIn(inbox[s], p) \in Nat
          BY <3>2, <3>3, CountIsNat DEF Once
      <3>6. CountIn(Append(inbox[s], q), p) = CountIn(inbox[s], p)
          BY <3>4, <3>5
      <3>7. inbox'[p.sock] = IF p.sock = s THEN Append(inbox[s], q) ELSE inbox[p.sock]
          BY <2>1, <3>3 DEF TypeOK
      <3>8. QED
          BY <3>6, <3>7 DEF OnTheWay
    <2>3. CASE PeerBuffers(s) \/ PeerCloses(s)
        BY <2>3 DEF PeerBuffers, PeerCloses, OnTheWay
    <2>4. QED
        BY <2>2, <2>3
  <1>3. QED
      BY <1>1, <1>2, PeerCopies

-----------------------------------------------------------------------------
(* No packet of a peer is lost.                                            *)

SaidNoAck == \A p \in peerSaid : p.cmd # "ACK"
LostInv == TypeOK /\ AcksKept /\ SaidNoAck /\ NothingLost

LEMMA AcksStayKept ==
    ASSUME TypeOK, AcksKept, Next
    PROVE  AcksKept'
  <1> USE DEF TypeOK, AcksKept, localVars, netVars, peerVars, results, WriteReturns
  <1>1. ASSUME NEW t \in Threads, ThreadStep(t) PROVE AcksKept'
    <2>1. CASE Call(t)
      <3>1. CASE NoResponse(t)
          BY <3>1 DEF NoResponse
      <3>2. CASE Request(t) \/ Respond(t) \/ \E s \in Sockets : Notify(t, s)
        <4>1. pc' = [pc EXCEPT ![t] = "send"] /\ \A x \in Threads \ {t} : pkt'[x] = pkt[x]
            BY <3>2 DEF Request, Respond, Notify, Begin
        <4>2. QED
            BY <4>1
      <3>3. QED
          BY <2>1, <3>1, <3>2 DEF Call
    <2>2. CASE WriteStep(t)
      <3>1. CASE SendPacket(t) \/ SendFails(t) \/ ScanBegins(t) \/ ScanTurn(t)
          BY <3>1 DEF SendPacket, SendFails, ScanBegins, ScanTurn
      <3>2. CASE ScanEnds(t) \/ SetTimeout(t) \/ Judge(t) \/ WriteReadsNothing(t)
          BY <3>2 DEF ScanEnds, SetTimeout, Judge, WriteReadsNothing
      <3>3. QED
          BY <2>2, <3>1, <3>2 DEF WriteStep
    <2>3. ASSUME NEW code, ReadStops(t, code), pkt' = pkt PROVE AcksKept'
        BY <2>3, StopsThreads
    <2>4. CASE BeginRead(t)
        BY <2>4 DEF BeginRead
    <2>5. CASE ReadScan(t)
      <3>1. /\ \E c \in {"reply", "idle", "rstart"} : pc' = [pc EXCEPT ![t] = c]
            /\ pkt' = pkt \/ \E q : pkt' = [pkt EXCEPT ![t] = q]
          BY <2>5 DEF ReadScan, ReadReturns
      <3>2. pc'[t] # "rkeep" /\ \A x \in Threads \ {t} : pc'[x] = pc[x] /\ pkt'[x] = pkt[x]
          BY <3>1
      <3>3. QED
          BY <3>2
    <2>6. CASE ReadNothing(t)
      <3>1. pkt' = pkt /\ \E code : ReadStops(t, code)
          BY <2>6 DEF ReadNothing
      <3>2. QED
          BY <2>3, <3>1
    <2>7. CASE KeepAck(t)
        BY <2>3, <2>7 DEF KeepAck
    <2>8. CASE SendAck(t)
        BY <2>3, <2>8 DEF SendAck, ReadReturns
    <2>9. CASE StartReceive(t)
        BY <2>9 DEF StartReceive
    <2>10. CASE Receive(t)
        BY <2>10 DEF Receive
    <2>11. QED
        BY <1>1, <2>1, <2>2, <2>4, <2>5, <2>6, <2>7, <2>8, <2>9, <2>10 DEF ThreadStep, ReadStep
  <1>2. CASE PeerStep
      BY <1>2 DEF PeerStep, PeerAcks, PeerBuffers, PeerSends, PeerCloses, PeerResponds,
                  PeerTakes, PeerSays, ProcessUnchanged
  <1>3. QED
      BY <1>1, <1>2 DEF Next, ThreadStep

\* A thread that is gone takes no step, and what was given up stays so.
LEMMA ActorRuns ==
    ASSUME NEW t \in Threads, ThreadStep(t)
    PROVE  pc[t] # "gone" /\ dropped \subseteq dropped' /\ UNCHANGED peerSaid
  <1> USE DEF localVars, netVars, peerVars, results
  <1>1. CASE Call(t)
      BY <1>1 DEF Call, NoResponse, Request, Respond, Notify, Begin
  <1>2. CASE WriteStep(t)
      BY <1>2 DEF WriteStep, SendPacket, SendFails, ScanBegins, ScanTurn, ScanEnds,
                  SetTimeout, Judge, WriteReadsNothing
  <1>3. CASE ReadStep(t) \/ StartReceive(t) \/ Receive(t)
      BY <1>3 DEF ReadStep, BeginRead, ReadScan, ReadNothing, KeepAck, SendAck,
                  StartReceive, Receive
  <1>4. QED
      BY <1>1, <1>2, <1>3 DEF ThreadStep

\* What a peer says is a packet of its own on its own socket, and no ACK.
LEMMA PeerSaysPacket ==
    ASSUME TypeOK, PeerStep
    PROVE  \/ \E s \in Sockets : PeerAcks(s) \/ PeerBuffers(s) \/ PeerCloses(s)
           \/ \E q \in Packet : q.cmd # "ACK" /\ PeerSays(q.sock, q)
  <1>1. ASSUME NEW s \in Sockets, PeerSends(s)
        PROVE  \E q \in Packet : q.cmd # "ACK" /\ PeerSays(q.sock, q)
    <2>1. PICK kind \in {"REQ", "NOTE"} :
             PeerSays(s, [cmd |-> kind, num |-> peerSent[s], tag |-> PeerTag[s],
                          sock |-> s, what |-> kind])
        BY <1>1 DEF PeerSends
    <2>2. peerSent[s] \in Nat /\ PeerTag[s] \in Tags
        BY TransportAssumption DEF TypeOK, Tags, PeerTags
    <2>3. PICK q \in Packet : q = [cmd |-> kind, num |-> peerSent[s], tag |-> PeerTag[s],
                                   sock |-> s, what |-> kind]
        BY <2>2 DEF Packet, Kinds
    <2>4. q.sock = s /\ q.cmd = kind
        BY <2>3
    <2>5. QED
        BY <2>1, <2>3, <2>4
  <1>2. ASSUME NEW p \in owed, PeerResponds(p)
        PROVE  \E q \in Packet : q.cmd # "ACK" /\ PeerSays(q.sock, q)
    <2>1. p \in Packet
        BY DEF TypeOK
    <2>2. PICK q \in Packet : q = [p EXCEPT !.cmd = "RSP", !.what = "RSP"]
        BY <2>1, CopiesTyped
    <2>3. q.sock = p.sock /\ q.cmd = "RSP"
        BY <2>1, <2>2 DEF Packet
    <2>4. QED
        BY <1>2, <2>2, <2>3 DEF PeerResponds
  <1>3. QED
      BY <1>1, <1>2 DEF PeerStep

LEMMA LostKept ==
    ASSUME LostInv, [Next]_vars
    PROVE  LostInv'
  <1> USE DEF localVars, netVars, peerVars, results
  <1>1. TypeOK /\ AcksKept /\ SaidNoAck /\ NothingLost
      BY DEF LostInv
  <1>2. CASE UNCHANGED vars
      BY <1>2 DEF LostInv, TypeOK, AcksKept, SaidNoAck, NothingLost, Running, Copies, CountIn,
                  HandsOf, vars
  <1>3. CASE Next
    <2>1. TypeOK' /\ AcksKept'
        BY <1>1, <1>3, StepTyped, AcksStayKept
    <2>2. ASSUME NEW t \in Threads, ThreadStep(t) PROVE SaidNoAck' /\ NothingLost'
      <3>1. pc[t] # "gone" /\ dropped \subseteq dropped' /\ peerSaid' = peerSaid
          BY <2>2, ActorRuns
      <3>2. Running
          BY <3>1 DEF Running
      <3>3. ASSUME Running', NEW p \in peerSaid' \ dropped' PROVE Copies(p)' >= 1
        <4>1. p \in Packet /\ p.cmd # "ACK" /\ p \in peerSaid \ dropped
            BY <1>1, <3>1, <3>3 DEF TypeOK, SaidNoAck
        <4>2. Copies(p) >= 1
            BY <1>1, <3>2, <4>1 DEF NothingLost
        <4>3. Kept(t, p)
            BY <1>1, <2>1, <2>2, <4>1, ThreadKept
        <4>4. QED
            BY <3>3, <4>2, <4>3 DEF Kept, Survives
      <3>4. QED
          BY <1>1, <3>1, <3>3 DEF SaidNoAck, NothingLost
    <2>3. ASSUME PeerStep PROVE SaidNoAck' /\ NothingLost'
      <3>1. Running' = Running /\ dropped' = dropped
          BY <2>3 DEF PeerStep, PeerAcks, PeerBuffers, PeerSends, PeerCloses, PeerResponds,
                      PeerTakes, PeerSays, ProcessUnchanged, Running
      <3>2. ASSUME NEW s \in Sockets, PeerAcks(s) \/ PeerBuffers(s) \/ PeerCloses(s)
            PROVE  SaidNoAck' /\ NothingLost'
        <4>1. peerSaid' = peerSaid
            BY <3>2 DEF PeerAcks, PeerBuffers, PeerCloses, PeerTakes
        <4>2. \A p \in peerSaid : Copies(p)' = Copies(p)
            BY <1>1, <2>1, <3>2, QuietPeerCopies DEF TypeOK, SaidNoAck
        <4>3. QED
            BY <1>1, <3>1, <4>1, <4>2 DEF SaidNoAck, NothingLost
      <3>3. ASSUME NEW q \in Packet, q.cmd # "ACK", PeerSays(q.sock, q)
            PROVE  SaidNoAck' /\ NothingLost'
        <4>1. peerSaid' = peerSaid \cup {q}
            BY <3>3 DEF PeerSays
        <4>2. \A p \in peerSaid \cup {q} :
                 Copies(p) \in Nat /\ Copies(p)' = Copies(p) + Once(p, q)
            BY <1>1, <2>1, <3>3, SaysCopies DEF TypeOK
        <4>3. ASSUME Running', NEW p \in peerSaid' \ dropped' PROVE Copies(p)' >= 1
          <5>1. CASE p = q
              BY <4>1, <4>2, <4>3, <5>1 DEF Once
          <5>2. CASE p # q
            <6>1. Copies(p) >= 1
                BY <1>1, <3>1, <4>1, <4>3, <5>2 DEF NothingLost
            <6>2. QED
                BY <4>1, <4>2, <4>3, <5>2, <6>1 DEF Once
          <5>3. QED
              BY <5>1, <5>2
        <4>4. QED
            BY <1>1, <3>3, <4>1, <4>3 DEF SaidNoAck, NothingLost
      <3>4. QED
          BY <1>1, <2>3, <3>2, <3>3, PeerSaysPacket
    <2>4. QED
        BY <1>3, <2>1, <2>2, <2>3 DEF LostInv, Next, ThreadStep
  <1>4. QED
      BY <1>2, <1>3

\* In every process, for any number of threads and sockets, a packet a peer has
\* sent is somewhere between its socket and the program, or was handed to it:
\* no thread that reads another's packet, buffers it or finds the buffer full
\* loses it without returning an error.
THEOREM LosesNothing == Spec => []NothingLost
  <1>1. Init => LostInv
    <2>1. Init => TypeOK
        BY InitTyped
    <2>2. QED
        BY <2>1 DEF Init, LostInv, AcksKept, SaidNoAck, NothingLost
  <1>2. LostInv /\ [Next]_vars => LostInv'
      BY LostKept
  <1>3. LostInv => NothingLost
      BY DEF LostInv
  <1>4. QED
      BY <1>1, <1>2, <1>3, PTL DEF Spec
=============================================================================
