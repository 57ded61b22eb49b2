----------------------------- MODULE FramingProofs -----------------------------
(***************************************************************************)
(* Theorems about Framing, for any number of threads on the stream and any *)
(* texts, labels in them or not, as long as packets are read in one go:    *)
(* the helpers stay in step with the packets of the peer (InStep), what    *)
(* read_socket returns and what is acknowledged was sent so, unless a      *)
(* variable was used again.                                                *)
(***************************************************************************)
EXTENDS Framing, SequenceTheorems, WellFoundedInduction, TLAPS

-----------------------------------------------------------------------------
(* The first position of something in a sequence.                          *)

LEMMA LeastNat ==
    ASSUME NEW T, T \subseteq Nat, T # {}
    PROVE  Min(T) \in T /\ \A y \in T : Min(T) <= y
  <1> DEFINE R == OpToRel(<, Nat)
  <1>1. IsWellFoundedOn(R, Nat)
      BY NatLessThanWellFounded
  <1> HIDE DEF R
  <1>2. PICK x \in T : \A y \in T : ~ (<<y, x>> \in R)
      BY <1>1, WFMin
  <1>3. \A y \in T : <<y, x>> \in R <=> y < x
      BY DEF R, OpToRel
  <1>4. \A y \in T : y \in Nat
      OBVIOUS
  <1>5. \A y \in T : ~ (y < x)
      BY <1>2, <1>3
  <1>6. \A y \in T : x <= y
      BY <1>4, <1>5
  <1>7. QED
      BY <1>6 DEF Min

\* Find returns the first unit of the kind, if there is one.
LEMMA FindFirst ==
    ASSUME NEW kind, NEW s, NEW i \in Nat \ {0}, Len(s) \in Nat
    PROVE  LET k == Find(kind, s, i)
           IN  /\ k \in Nat
               /\ k = 0 => \A m \in i .. Len(s) : s[m][1] # kind
               /\ k # 0 => /\ k \in i .. Len(s)
                           /\ s[k][1] = kind
                           /\ \A m \in i .. Len(s) : s[m][1] = kind => k <= m
  <1> DEFINE I == {m \in i .. Len(s) : s[m][1] = kind}
  <1>1. Find(kind, s, i) = IF I # {} THEN Min(I) ELSE 0
      BY DEF Find, SelectInSubSeq
  <1>2. I \subseteq Nat
      OBVIOUS
  <1>3. CASE I = {}
      BY <1>1, <1>3
  <1>4. CASE I # {}
    <2>1. Find(kind, s, i) = Min(I)
        BY <1>1, <1>4
    <2>2. Min(I) \in I /\ \A y \in I : Min(I) <= y
        BY <1>2, <1>4, LeastNat
    <2>3. Min(I) # 0
        BY <2>2
    <2>4. QED
        BY <2>1, <2>2, <2>3
  <1>5. QED
      BY <1>3, <1>4

\* A unit that is there, with none of its kind before it, is the one found.
LEMMA FoundThere ==
    ASSUME NEW kind, NEW s, NEW i \in Nat \ {0}, Len(s) \in Nat, NEW m \in i .. Len(s),
           s[m][1] = kind, \A l \in i .. m - 1 : s[l][1] # kind
    PROVE  Find(kind, s, i) = m
  <1>1. PICK k : k = Find(kind, s, i)
      OBVIOUS
  <1>2. k \in i .. Len(s) /\ s[k][1] = kind /\ k <= m
      BY <1>1, FindFirst
  <1>3. ~ (k \in i .. m - 1)
      BY <1>2
  <1>4. k = m
      BY <1>2, <1>3
  <1>5. QED
      BY <1>1, <1>4

\* The two searches of bufferPkts return a position in it, or 0.
LEMMA FirstMessage ==
    ASSUME NEW s \in Seq(Packet)
    PROVE  LET i == SelectInSeq(s, LAMBDA p : p.cmd_code # "ACK")
           IN  i # 0 => i \in 1 .. Len(s)
  <1> DEFINE I == {m \in 1 .. Len(s) : s[m].cmd_code # "ACK"}
  <1>1. SelectInSeq(s, LAMBDA p : p.cmd_code # "ACK") = IF I # {} THEN Min(I) ELSE 0
      BY DEF SelectInSeq
  <1>2. I # {} => Min(I) \in I
    <2>1. I \subseteq Nat
        OBVIOUS
    <2>2. QED
        BY <2>1, LeastNat
  <1>3. QED
      BY <1>1, <1>2

AnswerIn(s, r) ==
    SelectInSeq(s, LAMBDA q : Answers(q, r) /\ q.content_len = r.content_len)

LEMMA FirstAnswer ==
    ASSUME NEW s \in Seq(Packet), NEW r, AnswerIn(s, r) # 0
    PROVE  AnswerIn(s, r) \in 1 .. Len(s)
  <1> DEFINE I == {m \in 1 .. Len(s) : Answers(s[m], r) /\ s[m].content_len = r.content_len}
  <1>1. AnswerIn(s, r) = IF I # {} THEN Min(I) ELSE 0
      BY DEF SelectInSeq, AnswerIn
  <1>2. I # {} => Min(I) \in I
    <2>1. I \subseteq Nat
        OBVIOUS
    <2>2. QED
        BY <2>1, LeastNat
  <1>3. QED
      BY <1>1, <1>2

-----------------------------------------------------------------------------
(* Strings and packets.                                                    *)

LEMMA ConcatPlaces ==
    ASSUME NEW S, NEW a \in Seq(S), NEW b \in Seq(S)
    PROVE  /\ a \o b \in Seq(S)
           /\ Len(a) \in Nat /\ Len(b) \in Nat /\ Len(a \o b) = Len(a) + Len(b)
           /\ \A i \in 1 .. Len(a) : (a \o b)[i] = a[i]
           /\ \A i \in 1 .. Len(b) : (a \o b)[Len(a) + i] = b[i]
  OBVIOUS

LEMMA SubTyped ==
    ASSUME NEW S, NEW s \in Seq(S), NEW m \in Nat \ {0}, NEW n \in Nat, n <= Len(s)
    PROVE  /\ SubSeq(s, m, n) \in Seq(S)
           /\ Len(SubSeq(s, m, n)) = IF m <= n THEN n - m + 1 ELSE 0
           /\ \A i \in 1 .. n - m + 1 : SubSeq(s, m, n)[i] = s[m + i - 1]
  <1>1. \A i \in m .. n : s[i] \in S
      OBVIOUS
  <1>2. m \in Int /\ n \in Int
      OBVIOUS
  <1>3. QED
      BY <1>1, <1>2, SubSeqProperties

\* What stands behind the bytes read does not change them.
LEMMA StringTyped ==
    ASSUME NEW b \in Seq(Units), NEW m \in Seq(Units)
    PROVE  /\ StringAt(b, m) \in Seq(Units)
           /\ Len(b) <= Len(StringAt(b, m))
           /\ \A i \in 1 .. Len(b) : StringAt(b, m)[i] = b[i]
  <1>1. PICK r : r = SubSeq(m, Len(b) + 1, Len(m))
      OBVIOUS
  <1>2. r \in Seq(Units)
      BY <1>1, SubTyped
  <1>3. StringAt(b, m) = b \o r
      BY <1>1 DEF StringAt
  <1>4. QED
      BY <1>2, <1>3, ConcatProperties

LEMMA UnitKinds ==
    ASSUME NEW u \in Units
    PROVE  /\ u[1] = "length" => u[2] \in Nat /\ u[2] >= 3
           /\ u[1] = "command" => u[2][1] \in Codes /\ u[2][2] \in Nat
  <1>1. CASE u \in {"length"} \X (Nat \ 0 .. 2)
      BY <1>1
  <1>2. CASE u \in {"command"} \X (Codes \X Nat)
      BY <1>2
  <1>3. CASE u = End
      BY <1>3 DEF End
  <1>4. CASE u \in {"text"} \X Texts
      BY <1>4
  <1>5. QED
      BY <1>1, <1>2, <1>3, <1>4 DEF Units

\* A helper always wants at least the two units it began with.
LEMMA LengthTyped ==
    ASSUME NEW S \in Seq(Units)
    PROVE  LengthIn(S) \in Nat /\ LengthIn(S) >= 2
  <1>1. PICK i : i = Find("length", S, 1)
      OBVIOUS
  <1>2. PICK j : j = Find("command", S, 1)
      OBVIOUS
  <1>3. LengthIn(S) = IF i = 0 \/ j = 0 THEN MaxPacketLen
                      ELSE S[i][2] + (IF j < i THEN Len(S) - i ELSE 0)
      BY <1>1, <1>2 DEF LengthIn
  <1>4. i # 0 => i \in 1 .. Len(S) /\ S[i][1] = "length"
      BY <1>1, FindFirst
  <1>5. i # 0 => S[i][2] \in Nat /\ S[i][2] >= 3 /\ Len(S) - i \in Nat
    <2>1. i # 0 => S[i] \in Units /\ Len(S) - i \in Nat
        BY <1>4
    <2>2. QED
        BY <1>4, <2>1, UnitKinds
  <1>6. QED
      BY <1>3, <1>5, FramingAssumption

\* The bytes of a packet, place by place.
LEMMA BytesPlaces ==
    ASSUME NEW p, p.post \in Seq(Units), p.rcvd_cnts \in Seq(Units)
    PROVE  /\ Len(Bytes(p)) = 3 + Len(p.post) + Len(p.rcvd_cnts)
           /\ Len(p.post) \in Nat /\ Len(p.rcvd_cnts) \in Nat
           /\ Bytes(p)[1] = Length(p.content_len)
           /\ Bytes(p)[2] = Command(p.cmd_code, p.req_num)
           /\ \A i \in 1 .. Len(p.post) : Bytes(p)[2 + i] = p.post[i]
           /\ Bytes(p)[3 + Len(p.post)] = End
           /\ \A i \in 1 .. Len(p.rcvd_cnts) : Bytes(p)[3 + Len(p.post) + i] = p.rcvd_cnts[i]
           /\ \A U : Units \subseteq U /\ Length(p.content_len) \in U
                        /\ Command(p.cmd_code, p.req_num) \in U => Bytes(p) \in Seq(U)
  <1>1. ASSUME NEW U, Units \subseteq U, Length(p.content_len) \in U,
               Command(p.cmd_code, p.req_num) \in U
        PROVE  /\ Bytes(p) \in Seq(U)
               /\ Len(Bytes(p)) = 3 + Len(p.post) + Len(p.rcvd_cnts)
               /\ Len(p.post) \in Nat /\ Len(p.rcvd_cnts) \in Nat
               /\ Bytes(p)[1] = Length(p.content_len)
               /\ Bytes(p)[2] = Command(p.cmd_code, p.req_num)
               /\ \A i \in 1 .. Len(p.post) : Bytes(p)[2 + i] = p.post[i]
               /\ Bytes(p)[3 + Len(p.post)] = End
               /\ \A i \in 1 .. Len(p.rcvd_cnts) :
                     Bytes(p)[3 + Len(p.post) + i] = p.rcvd_cnts[i]
    <2>1. PICK a : a = <<Length(p.content_len), Command(p.cmd_code, p.req_num)>>
        OBVIOUS
    <2>2. PICK e : e = <<End>>
        OBVIOUS
    <2>3. /\ a \in Seq(U) /\ Len(a) = 2
          /\ a[1] = Length(p.content_len) /\ a[2] = Command(p.cmd_code, p.req_num)
        BY <1>1, <2>1
    <2>4. e \in Seq(U) /\ Len(e) = 1 /\ e[1] = End
      <3>1. End \in U
          BY <1>1 DEF Units
      <3>2. QED
          BY <2>2, <3>1
    <2>5. PICK q : q = p.post
        OBVIOUS
    <2>6. PICK c : c = p.rcvd_cnts
        OBVIOUS
    <2>7. q \in Seq(U) /\ c \in Seq(U) /\ Len(q) \in Nat /\ Len(c) \in Nat
        BY <1>1, <2>5, <2>6, SeqMonotonic
    <2>8. PICK x : x = a \o q
        OBVIOUS
    <2>9. PICK y : y = x \o e
        OBVIOUS
    <2>10. PICK z : z = y \o c
        OBVIOUS
    <2>11. /\ x \in Seq(U) /\ Len(x) = 2 + Len(q)
           /\ x[1] = a[1] /\ x[2] = a[2]
           /\ \A i \in 1 .. Len(q) : x[2 + i] = q[i]
      <3>0. a \in Seq(U) /\ q \in Seq(U)
          BY <2>3, <2>7
      <3>1. /\ x \in Seq(U) /\ Len(x) = Len(a) + Len(q)
            /\ \A i \in 1 .. Len(a) : x[i] = a[i]
            /\ \A i \in 1 .. Len(q) : x[Len(a) + i] = q[i]
        <4>1. /\ a \o q \in Seq(U) /\ Len(a \o q) = Len(a) + Len(q)
              /\ \A i \in 1 .. Len(a) : (a \o q)[i] = a[i]
              /\ \A i \in 1 .. Len(q) : (a \o q)[Len(a) + i] = q[i]
            BY <3>0, ConcatPlaces
        <4>2. QED
            BY <4>1, <2>8
      <3>2. QED
          BY <2>3, <3>1
    <2>12. /\ y \in Seq(U) /\ Len(y) = 3 + Len(q)
           /\ \A i \in 1 .. 2 + Len(q) : y[i] = x[i]
           /\ y[3 + Len(q)] = End
      <3>0. x \in Seq(U) /\ e \in Seq(U)
          BY <2>4, <2>11
      <3>1. /\ y \in Seq(U) /\ Len(y) = Len(x) + Len(e)
            /\ \A i \in 1 .. Len(x) : y[i] = x[i]
            /\ \A i \in 1 .. Len(e) : y[Len(x) + i] = e[i]
        <4>1. /\ x \o e \in Seq(U) /\ Len(x \o e) = Len(x) + Len(e)
              /\ \A i \in 1 .. Len(x) : (x \o e)[i] = x[i]
              /\ \A i \in 1 .. Len(e) : (x \o e)[Len(x) + i] = e[i]
            BY <3>0, ConcatPlaces
        <4>2. QED
            BY <4>1, <2>9
      <3>2. y[Len(x) + 1] = End
          BY <2>4, <3>1
      <3>3. Len(x) + 1 = 3 + Len(q) /\ Len(x) + Len(e) = 3 + Len(q)
          BY <2>4, <2>7, <2>11
      <3>4. QED
          BY <2>11, <3>1, <3>2, <3>3
    <2>13. /\ z \in Seq(U) /\ Len(z) = 3 + Len(q) + Len(c)
           /\ \A i \in 1 .. 3 + Len(q) : z[i] = y[i]
           /\ \A i \in 1 .. Len(c) : z[3 + Len(q) + i] = c[i]
      <3>0. y \in Seq(U) /\ c \in Seq(U)
          BY <2>7, <2>12
      <3>1. /\ z \in Seq(U) /\ Len(z) = Len(y) + Len(c)
            /\ \A i \in 1 .. Len(y) : z[i] = y[i]
            /\ \A i \in 1 .. Len(c) : z[Len(y) + i] = c[i]
        <4>1. /\ y \o c \in Seq(U) /\ Len(y \o c) = Len(y) + Len(c)
              /\ \A i \in 1 .. Len(y) : (y \o c)[i] = y[i]
              /\ \A i \in 1 .. Len(c) : (y \o c)[Len(y) + i] = c[i]
            BY <3>0, ConcatPlaces
        <4>2. QED
            BY <4>1, <2>10
      <3>2. QED
          BY <2>12, <3>1
    <2>14. Bytes(p) = z
        BY <2>1, <2>2, <2>5, <2>6, <2>8, <2>9, <2>10 DEF Bytes
    <2>15. z[1] = a[1] /\ z[2] = a[2]
        BY <2>7, <2>11, <2>12, <2>13
    <2>16. ASSUME NEW i \in 1 .. Len(q) PROVE z[2 + i] = q[i]
      <3>1. 2 + i \in 1 .. 2 + Len(q) /\ 2 + i \in 1 .. 3 + Len(q)
          BY <2>7
      <3>2. QED
          BY <2>11, <2>12, <2>13, <3>1
    <2>17. z[3 + Len(q)] = End
        BY <2>7, <2>12, <2>13
    <2>18. \A i \in 1 .. Len(c) : z[3 + Len(q) + i] = c[i]
        BY <2>13
    <2>19. /\ z \in Seq(U)
           /\ Len(z) = 3 + Len(q) + Len(c)
           /\ z[1] = Length(p.content_len) /\ z[2] = Command(p.cmd_code, p.req_num)
        BY <2>3, <2>13, <2>15
    <2>20. QED
        BY <2>5, <2>6, <2>7, <2>14, <2>16, <2>17, <2>18, <2>19
  <1>2. PICK U : Units \subseteq U /\ Length(p.content_len) \in U
                    /\ Command(p.cmd_code, p.req_num) \in U
    <2>1. PICK U : U = Units \cup {Length(p.content_len), Command(p.cmd_code, p.req_num)}
        OBVIOUS
    <2>2. /\ Units \subseteq U /\ Length(p.content_len) \in U
          /\ Command(p.cmd_code, p.req_num) \in U
        BY <2>1
    <2>3. QED
        BY <2>2
  <1>3. \A V : Units \subseteq V /\ Length(p.content_len) \in V
                 /\ Command(p.cmd_code, p.req_num) \in V => Bytes(p) \in Seq(V)
      BY <1>1
  <1>4. /\ Len(Bytes(p)) = 3 + Len(p.post) + Len(p.rcvd_cnts)
        /\ Len(p.post) \in Nat /\ Len(p.rcvd_cnts) \in Nat
        /\ Bytes(p)[1] = Length(p.content_len)
        /\ Bytes(p)[2] = Command(p.cmd_code, p.req_num)
        /\ \A i \in 1 .. Len(p.post) : Bytes(p)[2 + i] = p.post[i]
        /\ Bytes(p)[3 + Len(p.post)] = End
        /\ \A i \in 1 .. Len(p.rcvd_cnts) : Bytes(p)[3 + Len(p.post) + i] = p.rcvd_cnts[i]
      BY <1>1, <1>2
  <1>5. QED
      BY <1>3, <1>4

\* A packet as its sender fills it: it states its length.
Honest == {p \in Packet : p.content_len = Len(Bytes(p)) /\ ~ p.reused}

LEMMA HonestBytes ==
    ASSUME NEW p \in Honest
    PROVE  /\ p \in Packet
           /\ Bytes(p) \in Seq(Units)
           /\ Len(Bytes(p)) \in Nat /\ Len(Bytes(p)) >= 3
           /\ Bytes(p)[1] = Length(Len(Bytes(p)))
           /\ Bytes(p)[2] = Command(p.cmd_code, p.req_num)
  <1>1. /\ p \in Packet /\ p.content_len = Len(Bytes(p))
        /\ p.post \in Seq(Units) /\ p.rcvd_cnts \in Seq(Units)
        /\ p.cmd_code \in Codes /\ p.req_num \in Nat
      BY DEF Honest, Packet
  <1>2. /\ Len(Bytes(p)) \in Nat /\ Len(Bytes(p)) >= 3
        /\ Bytes(p)[1] = Length(Len(Bytes(p)))
        /\ Bytes(p)[2] = Command(p.cmd_code, p.req_num)
    <2>1. /\ Len(Bytes(p)) = 3 + Len(p.post) + Len(p.rcvd_cnts)
          /\ Len(p.post) \in Nat /\ Len(p.rcvd_cnts) \in Nat
          /\ Bytes(p)[1] = Length(p.content_len)
          /\ Bytes(p)[2] = Command(p.cmd_code, p.req_num)
        BY <1>1, BytesPlaces
    <2>2. PICK a \in Nat, c \in Nat : a = Len(p.post) /\ c = Len(p.rcvd_cnts)
        BY <2>1
    <2>3. 3 + a + c \in Nat /\ 3 + a + c >= 3
        OBVIOUS
    <2>4. Len(Bytes(p)) = 3 + a + c
        BY <2>1, <2>2
    <2>5. QED
        BY <1>1, <2>1, <2>3, <2>4
  <1>3. Length(p.content_len) \in Units /\ Command(p.cmd_code, p.req_num) \in Units
      BY <1>1, <1>2 DEF Units, Length, Command
  <1>4. Bytes(p) \in Seq(Units)
      BY <1>1, <1>3, BytesPlaces
  <1>5. QED
      BY <1>1, <1>2, <1>4

\* Its first two units are enough to know its length.
LEMMA LengthOfHonest ==
    ASSUME NEW p \in Honest, NEW S \in Seq(Units), Len(S) >= 2,
           S[1] = Bytes(p)[1], S[2] = Bytes(p)[2]
    PROVE  /\ Find("length", S, 1) = 1
           /\ Find("command", S, 1) = 2
           /\ LengthIn(S) = Len(Bytes(p))
  <1>1. /\ Len(S) \in Nat /\ 1 \in 1 .. Len(S) /\ 2 \in 1 .. Len(S)
        /\ S[1] = Length(Len(Bytes(p))) /\ S[2] = Command(p.cmd_code, p.req_num)
        /\ Len(Bytes(p)) \in Nat
      BY HonestBytes
  <1>2. S[1][1] = "length" /\ S[1][2] = Len(Bytes(p)) /\ S[2][1] = "command"
      BY <1>1 DEF Length, Command
  <1>3. Find("length", S, 1) = 1
      BY <1>1, <1>2, FoundThere
  <1>4. Find("command", S, 1) = 2
    <2>1. \A l \in 1 .. 2 - 1 : S[l][1] # "command"
        BY <1>2
    <2>2. QED
        BY <1>1, <1>2, <2>1, FoundThere
  <1>5. QED
      BY <1>1, <1>2, <1>3, <1>4 DEF LengthIn

\* The packet p has the bytes of w, and is w if no text of w reads like a label.
AsSent(p, w) == Bytes(p) = Bytes(w) /\ (Plain(w) => p = w)

\* The text of a packet, whatever stands behind it in the memory, is parsed to
\* a packet of the same text, or fills a variable that had contents before.
LEMMA ParsedHonest ==
    ASSUME NEW p \in Honest, NEW m \in Seq(Units), NEW q \in Packet
    PROVE  LET S == StringAt(Bytes(p), m)
               k == Find("end", S, 2)
           IN  /\ Find("length", S, 1) = 1
               /\ Find("command", S, 1) = 2
               /\ k # 0
               /\ \/ AsSent(Filled(q, S, 2, k, Len(Bytes(p))), p)
                  \/ Filled(q, S, 2, k, Len(Bytes(p))).reused
  <1>1. PICK b : b = Bytes(p)
      OBVIOUS
  <1>2. PICK S : S = StringAt(b, m)
      OBVIOUS
  <1>3. /\ p \in Packet /\ p.content_len = Len(b) /\ ~ p.reused
        /\ p.post \in Seq(Units) /\ p.rcvd_cnts \in Seq(Units)
      BY <1>1 DEF Honest, Packet
  <1>4. b \in Seq(Units) /\ Len(b) \in Nat /\ Len(b) >= 3
      BY <1>1, HonestBytes
  <1>5. /\ S \in Seq(Units) /\ Len(S) \in Nat /\ Len(b) <= Len(S)
        /\ \A i \in 1 .. Len(b) : S[i] = b[i]
      BY <1>2, <1>4, StringTyped
  <1>6. PICK lp : lp = Len(p.post)
      OBVIOUS
  <1>7. PICK lc : lc = Len(p.rcvd_cnts)
      OBVIOUS
  <1>8. /\ lp \in Nat /\ lc \in Nat /\ Len(b) = 3 + lp + lc
        /\ b[1] = Length(Len(b)) /\ b[2] = Command(p.cmd_code, p.req_num)
        /\ \A i \in 1 .. lp : b[2 + i] = p.post[i]
        /\ b[3 + lp] = End
        /\ \A i \in 1 .. lc : b[3 + lp + i] = p.rcvd_cnts[i]
      BY <1>1, <1>3, <1>6, <1>7, BytesPlaces
  <1>9. S[1] = b[1] /\ S[2] = b[2] /\ Len(S) >= 2
      BY <1>4, <1>5
  <1>10. Find("length", S, 1) = 1 /\ Find("command", S, 1) = 2
      BY <1>1, <1>5, <1>9, LengthOfHonest
  <1>11. PICK k : k = Find("end", S, 2)
      OBVIOUS
  <1>12. k \in Nat /\ 3 <= k /\ k <= 3 + lp /\ S[k] = End
    <2>1. 3 + lp \in 2 .. Len(S) /\ 3 + lp \in 1 .. Len(b) /\ 2 \in Nat \ {0}
        BY <1>5, <1>8
    <2>2. S[3 + lp][1] = "end"
        BY <1>5, <1>8, <2>1 DEF End
    <2>3. /\ k \in Nat
          /\ k = 0 => \A l \in 2 .. Len(S) : S[l][1] # "end"
          /\ k # 0 => /\ k \in 2 .. Len(S)
                      /\ S[k][1] = "end"
                      /\ \A l \in 2 .. Len(S) : S[l][1] = "end" => k <= l
        BY <1>5, <1>11, <2>1, FindFirst
    <2>4. k # 0 /\ k \in 2 .. Len(S) /\ S[k][1] = "end" /\ k <= 3 + lp
        BY <2>1, <2>2, <2>3
    <2>5. k # 2
        BY <1>8, <1>9, <2>4 DEF Command
    <2>6. S[k] \in Units
        BY <1>5, <2>4
    <2>7. S[k] = End
        BY <2>4, <2>6 DEF Units
    <2>8. QED
        BY <2>3, <2>4, <2>5, <2>7
  <1>13. PICK x : x = SubSeq(S, 2 + 1, k - 1)
      OBVIOUS
  <1>14. PICK y : y = LastField(S, k, Len(b))
      OBVIOUS
  <1>15. x \in Seq(Units) /\ Len(x) = k - 3 /\ \A i \in 1 .. k - 3 : x[i] = S[2 + i]
    <2>1. PICK e : e = k - 1
        OBVIOUS
    <2>2. e \in Nat /\ e <= Len(S) /\ 3 \in Nat \ {0}
        BY <1>5, <1>8, <1>12, <2>1
    <2>3. /\ SubSeq(S, 3, e) \in Seq(Units)
          /\ Len(SubSeq(S, 3, e)) = IF 3 <= e THEN e - 3 + 1 ELSE 0
          /\ \A i \in 1 .. e - 3 + 1 : SubSeq(S, 3, e)[i] = S[3 + i - 1]
        BY <1>5, <2>2, SubTyped
    <2>4. x = SubSeq(S, 3, e) /\ e - 3 + 1 = k - 3 /\ (3 <= e \/ k - 3 = 0)
        BY <1>12, <1>13, <2>1
    <2>5. Len(x) = k - 3
        BY <2>3, <2>4
    <2>6. \A i \in 1 .. k - 3 : 3 + i - 1 = 2 + i
        BY <1>12
    <2>7. QED
        BY <2>3, <2>4, <2>5, <2>6
  <1>16. /\ y \in Seq(Units) /\ Len(y) = Len(b) - k
         /\ \A i \in 1 .. Len(b) - k : y[i] = S[k + i]
    <2>1. ~ (Len(b) < k) /\ Smaller(Len(b), Len(S)) = Len(b)
        BY <1>4, <1>5, <1>8, <1>12 DEF Smaller
    <2>2. y = SubSeq(S, k + 1, Len(b))
        BY <1>14, <2>1 DEF LastField
    <2>3. PICK e \in Nat \ {0}, n \in Nat : e = k + 1 /\ n = Len(b) /\ n <= Len(S)
      <3>1. k + 1 \in Nat \ {0}
          BY <1>12
      <3>2. Len(b) \in Nat /\ Len(b) <= Len(S)
          BY <1>4, <1>5
      <3>3. QED
          BY <3>1, <3>2
    <2>4. /\ SubSeq(S, e, n) \in Seq(Units)
          /\ Len(SubSeq(S, e, n)) = IF e <= n THEN n - e + 1 ELSE 0
          /\ \A i \in 1 .. n - e + 1 : SubSeq(S, e, n)[i] = S[e + i - 1]
      <3>1. S \in Seq(Units) /\ e \in Nat \ {0} /\ n \in Nat /\ n <= Len(S)
          BY <1>5, <2>3
      <3>2. QED
          BY <3>1, SubTyped
    <2>5. y = SubSeq(S, e, n) /\ n - e + 1 = Len(b) - k /\ (e <= n \/ Len(b) - k = 0)
        BY <1>4, <1>8, <1>12, <2>2, <2>3
    <2>6. Len(y) = Len(b) - k
        BY <2>4, <2>5
    <2>7. \A i \in 1 .. Len(b) - k : e + i - 1 = k + i
        BY <1>12, <2>3
    <2>8. QED
        BY <2>4, <2>5, <2>6, <2>7
  <1>17. PICK F : F = Filled(q, S, 2, k, Len(b))
      OBVIOUS
  <1>18. F = [content_len |-> p.content_len, cmd_code |-> p.cmd_code, req_num |-> p.req_num,
              post |-> IF x = <<>> THEN q.post ELSE x,
              rcvd_cnts |-> IF y = <<>> THEN q.rcvd_cnts ELSE y,
              reused |-> HasContents(q)]
    <2>1. S[1][2] = p.content_len /\ S[2][2][1] = p.cmd_code /\ S[2][2][2] = p.req_num
        BY <1>3, <1>8, <1>9 DEF Length, Command
    <2>2. QED
        BY <1>10, <1>13, <1>14, <1>17, <2>1 DEF Filled
  <1>19. CASE HasContents(q)
    <2>1. F.reused
        BY <1>18, <1>19
    <2>2. QED
        BY <1>1, <1>2, <1>10, <1>11, <1>12, <1>17, <2>1
  <1>20. CASE ~ HasContents(q)
    <2>1. F = [content_len |-> p.content_len, cmd_code |-> p.cmd_code, req_num |-> p.req_num,
               post |-> x, rcvd_cnts |-> y, reused |-> FALSE]
      <3>1. q.post = <<>> /\ q.rcvd_cnts = <<>> /\ HasContents(q) = FALSE
          BY <1>20 DEF HasContents
      <3>2. (IF x = <<>> THEN q.post ELSE x) = x /\ (IF y = <<>> THEN q.rcvd_cnts ELSE y) = y
          BY <3>1
      <3>3. QED
          BY <1>18, <3>1, <3>2
    <2>2. /\ F.content_len = p.content_len /\ F.cmd_code = p.cmd_code
          /\ F.req_num = p.req_num /\ F.post = x /\ F.rcvd_cnts = y
        BY <2>1
    <2>3. PICK B : B = Bytes(F)
        OBVIOUS
    <2>4. /\ Len(B) = 3 + Len(x) + Len(y)
          /\ B[1] = b[1] /\ B[2] = b[2]
          /\ \A i \in 1 .. Len(x) : B[2 + i] = x[i]
          /\ B[3 + Len(x)] = End
          /\ \A i \in 1 .. Len(y) : B[3 + Len(x) + i] = y[i]
          /\ B \in Seq(Units)
      <3>1. F.post \in Seq(Units) /\ F.rcvd_cnts \in Seq(Units)
          BY <1>15, <1>16, <2>2
      <3>2. Length(F.content_len) = b[1] /\ Command(F.cmd_code, F.req_num) = b[2]
          BY <1>3, <1>8, <2>2
      <3>3. b[1] \in Units /\ b[2] \in Units
          BY <1>4
      <3>4. /\ Len(Bytes(F)) = 3 + Len(F.post) + Len(F.rcvd_cnts)
            /\ Bytes(F)[1] = Length(F.content_len)
            /\ Bytes(F)[2] = Command(F.cmd_code, F.req_num)
            /\ \A i \in 1 .. Len(F.post) : Bytes(F)[2 + i] = F.post[i]
            /\ Bytes(F)[3 + Len(F.post)] = End
            /\ \A i \in 1 .. Len(F.rcvd_cnts) : Bytes(F)[3 + Len(F.post) + i] = F.rcvd_cnts[i]
            /\ \A U : Units \subseteq U /\ Length(F.content_len) \in U
                         /\ Command(F.cmd_code, F.req_num) \in U => Bytes(F) \in Seq(U)
          BY <3>1, BytesPlaces
      <3>5. Bytes(F) \in Seq(Units)
          BY <3>2, <3>3, <3>4
      <3>6. QED
          BY <2>2, <2>3, <3>2, <3>4, <3>5
    <2>5. Len(B) = Len(b)
        BY <1>8, <1>12, <1>15, <1>16, <2>4
    <2>6. ASSUME NEW i \in 1 .. Len(b) PROVE B[i] = b[i]
      <3>1. CASE i = 1 \/ i = 2
          BY <2>4, <3>1
      <3>2. CASE 3 <= i /\ i < k
        <4>1. i - 2 \in 1 .. k - 3 /\ 2 + (i - 2) = i
            BY <1>12, <3>2
        <4>2. B[i] = x[i - 2] /\ x[i - 2] = S[i]
            BY <1>15, <2>4, <4>1
        <4>3. QED
            BY <1>5, <4>2
      <3>3. CASE i = k
        <4>1. 3 + Len(x) = k
            BY <1>12, <1>15
        <4>2. QED
            BY <1>5, <1>12, <2>4, <3>3, <4>1
      <3>4. CASE k < i
        <4>1. i - k \in 1 .. Len(b) - k /\ k + (i - k) = i /\ 3 + Len(x) = k
            BY <1>8, <1>12, <1>15, <3>4
        <4>2. B[i] = y[i - k] /\ y[i - k] = S[i]
            BY <1>16, <2>4, <4>1
        <4>3. QED
            BY <1>5, <4>2
      <3>5. QED
          BY <1>8, <1>12, <3>1, <3>2, <3>3, <3>4
    <2>7. Bytes(F) = Bytes(p)
        BY <1>1, <1>4, <2>3, <2>4, <2>5, <2>6, SeqEqual
    <2>8. ASSUME Plain(p) PROVE F = p
      <3>1. k = 3 + lp
        <4>1. ASSUME k # 3 + lp PROVE FALSE
          <5>1. k - 2 \in 1 .. lp /\ 2 + (k - 2) = k /\ k \in 1 .. Len(b)
              BY <1>8, <1>12, <4>1
          <5>2. k - 2 \in DOMAIN p.post
              BY <1>3, <1>6, <5>1
          <5>3. b[k] = p.post[k - 2]
              BY <1>8, <5>1
          <5>4. S[k] = b[k]
              BY <1>5, <5>1
          <5>5. QED
              BY <1>12, <2>8, <5>2, <5>3, <5>4 DEF Plain
        <4>2. QED
            BY <4>1
      <3>2. x = p.post
        <4>1. Len(x) = lp
            BY <1>8, <1>15, <3>1
        <4>2. ASSUME NEW i \in 1 .. lp PROVE x[i] = p.post[i]
          <5>1. i \in 1 .. k - 3 /\ 2 + i \in 1 .. Len(b)
              BY <1>8, <3>1
          <5>2. QED
              BY <1>5, <1>8, <1>15, <5>1
        <4>3. QED
            BY <1>3, <1>6, <1>15, <4>1, <4>2, SeqEqual
      <3>3. y = p.rcvd_cnts
        <4>1. Len(y) = lc
            BY <1>8, <1>16, <3>1
        <4>2. ASSUME NEW i \in 1 .. lc PROVE y[i] = p.rcvd_cnts[i]
          <5>1. i \in 1 .. Len(b) - k /\ k + i \in 1 .. Len(b) /\ k + i = 3 + lp + i
              BY <1>8, <3>1
          <5>2. QED
              BY <1>5, <1>8, <1>16, <5>1
        <4>3. QED
            BY <1>3, <1>7, <1>16, <4>1, <4>2, SeqEqual
      <3>4. p = [content_len |-> p.content_len, cmd_code |-> p.cmd_code,
                 req_num |-> p.req_num, post |-> p.post, rcvd_cnts |-> p.rcvd_cnts,
                 reused |-> FALSE]
          BY <1>3 DEF Packet
      <3>5. QED
          BY <2>1, <3>2, <3>3, <3>4
    <2>9. AsSent(F, p)
        BY <2>7, <2>8 DEF AsSent
    <2>10. QED
        BY <1>1, <1>2, <1>10, <1>11, <1>12, <1>17, <2>9
  <1>21. QED
      BY <1>19, <1>20

\* Measured makes any packet an honest one, and the ACK of an
\* honest packet is honest.
LEMMA MeasuredHonest ==
    ASSUME NEW p \in Packet, ~ p.reused
    PROVE  Measured(p) \in Honest
  <1>1. PICK a \in Nat, c \in Nat : a = Len(p.post) /\ c = Len(p.rcvd_cnts)
      BY DEF Packet
  <1>2. p.post \in Seq(Units) /\ p.rcvd_cnts \in Seq(Units)
      BY DEF Packet
  <1>3. Len(Bytes(p)) = 3 + a + c
      BY <1>1, <1>2, BytesPlaces
  <1>4. Len(Bytes(p)) \in Nat
      BY <1>3
  <1>5. PICK q : q = Measured(p)
      OBVIOUS
  <1>6. /\ q \in Packet /\ q.content_len = Len(Bytes(p)) /\ ~ q.reused
        /\ q.post = p.post /\ q.rcvd_cnts = p.rcvd_cnts
      BY <1>4, <1>5 DEF Measured, Packet
  <1>7. Len(Bytes(q)) = 3 + a + c
      BY <1>1, <1>2, <1>6, BytesPlaces
  <1>8. QED
      BY <1>3, <1>5, <1>6, <1>7 DEF Honest

\* An ACK has the length of the packet it is made of.
LEMMA AckLength ==
    ASSUME NEW p \in Packet
    PROVE  /\ AckOf(p) \in Packet
           /\ AckOf(p).content_len = p.content_len /\ AckOf(p).reused = p.reused
           /\ AckOf(p).post = p.post /\ AckOf(p).rcvd_cnts = p.rcvd_cnts
           /\ Len(Bytes(AckOf(p))) = Len(Bytes(p))
  <1>1. PICK q : q = AckOf(p)
      OBVIOUS
  <1>2. /\ q \in Packet /\ q.content_len = p.content_len /\ q.reused = p.reused
        /\ q.post = p.post /\ q.rcvd_cnts = p.rcvd_cnts
      BY <1>1 DEF AckOf, Packet, Codes
  <1>3. p.post \in Seq(Units) /\ p.rcvd_cnts \in Seq(Units)
      BY DEF Packet
  <1>4. Len(Bytes(q)) = 3 + Len(q.post) + Len(q.rcvd_cnts)
      BY <1>2, <1>3, BytesPlaces
  <1>5. Len(Bytes(p)) = 3 + Len(p.post) + Len(p.rcvd_cnts)
      BY <1>3, BytesPlaces
  <1>6. QED
      BY <1>1, <1>2, <1>4, <1>5

LEMMA AckHonest ==
    ASSUME NEW p \in Honest
    PROVE  AckOf(p) \in Honest
  <1>1. p \in Packet
      BY DEF Honest
  <1>2. QED
      BY <1>1, AckLength DEF Honest

\* What the process and its peer write.
LEMMA RequestHonest ==
    ASSUME NEW x \in Requests, NEW n \in Nat
    PROVE  Measured([EmptyPacket EXCEPT !.cmd_code = "REQUEST", !.req_num = n, !.post = x])
              \in Honest
  <1>1. PICK p : p = [EmptyPacket EXCEPT !.cmd_code = "REQUEST", !.req_num = n, !.post = x]
      OBVIOUS
  <1>2. x \in Seq(Units) /\ <<>> \in Seq(Units)
      BY ContentsAssumption
  <1>3. p \in Packet /\ p.post = x /\ p.rcvd_cnts = <<>> /\ ~ p.reused
      BY <1>1, <1>2 DEF EmptyPacket, Packet, Codes
  <1>4. QED
      BY <1>1, <1>2, <1>3, MeasuredHonest

LEMMA MessageHonest ==
    ASSUME NEW m \in Messages, NEW n \in Nat
    PROVE  Measured([EmptyPacket EXCEPT !.cmd_code = "MESSAGE", !.req_num = n,
                                        !.post = m[1], !.rcvd_cnts = m[2]]) \in Honest
  <1>1. PICK p : p = [EmptyPacket EXCEPT !.cmd_code = "MESSAGE", !.req_num = n,
                                         !.post = m[1], !.rcvd_cnts = m[2]]
      OBVIOUS
  <1>2. m[1] \in Seq(Units) /\ m[2] \in Seq(Units)
      BY ContentsAssumption
  <1>3. p \in Packet /\ p.post = m[1] /\ p.rcvd_cnts = m[2] /\ ~ p.reused
      BY <1>1, <1>2 DEF EmptyPacket, Packet, Codes
  <1>4. QED
      BY <1>1, <1>3, MeasuredHonest

LEMMA EmptyTyped == EmptyPacket \in Packet /\ <<>> \in Seq(Units)
  BY DEF EmptyPacket, Packet, Codes

-----------------------------------------------------------------------------
(* The types of the variables.                                             *)

\* The peer writes honest packets, because requests and messages are.
TypeInv ==
    /\ TypeOK
    /\ unacked \in Seq(Honest)
    /\ wrote \in Seq(Honest)

LEMMA HonestPackets == Honest \subseteq Packet /\ Seq(Honest) \subseteq Seq(Packet)
  <1>1. Honest \subseteq Packet
      BY DEF Honest
  <1>2. QED
      BY <1>1, SeqMonotonic

LEMMA InitTyped == Init => TypeInv
  <1> SUFFICES ASSUME Init PROVE TypeInv
      OBVIOUS
  <1>1. <<>> \in Seq(Honest) /\ <<>> \in Seq(Packet) /\ <<>> \in Seq(Seq(Units))
      OBVIOUS
  <1>2. /\ pkt \in [Threads -> Packet] /\ request \in [Threads -> Packet]
        /\ buffer \in [Threads -> Seq(Units)] /\ memory \in [Threads -> Seq(Units)]
        /\ stream \in Seq(Units) /\ freed \in Seq(Units)
      BY EmptyTyped DEF Init
  <1>3. /\ packetLength \in [Threads -> Nat \ {0, 1}]
        /\ \A t \in Threads : pc[t] # "read"
        /\ shorts \in 0 .. MaxShorts /\ asks \in 0 .. MaxAsks /\ says \in 0 .. MaxSays
      BY FramingAssumption DEF Init
  <1>4. /\ unacked \in Seq(Packet) /\ wrote \in Seq(Packet) /\ bufferPkts \in Seq(Packet)
        /\ taken \in Seq(Seq(Units)) /\ unacked \in Seq(Honest) /\ wrote \in Seq(Honest)
      BY <1>1 DEF Init
  <1>5. Len(bufferPkts) <= BufferSize
      BY FramingAssumption DEF Init
  <1>6. QED
      BY <1>2, <1>3, <1>4, <1>5 DEF Init, TypeInv, TypeOK

\* A helper begins with an empty buffer and asks for two units.
LEMMA StartTyped ==
    ASSUME TypeOK, NEW t \in Threads, StartReading(t)
    PROVE  /\ pc' = [pc EXCEPT ![t] = "read"]
           /\ buffer' = [buffer EXCEPT ![t] = <<>>]
           /\ packetLength' = [packetLength EXCEPT ![t] = 2]
           /\ memory' \in [Threads -> Seq(Units)]
           /\ freed' \in Seq(Units)
           /\ shorts' = shorts
           /\ pc' \in [Threads -> {"idle", "scan", "read", "parse", "judge", "gone"}]
           /\ buffer' \in [Threads -> Seq(Units)]
           /\ packetLength' \in [Threads -> Nat \ {0, 1}]
           /\ \A x \in Threads : pc'[x] = "read" => Len(buffer'[x]) < packetLength'[x]
  <1>1. /\ pc' = [pc EXCEPT ![t] = "read"]
        /\ buffer' = [buffer EXCEPT ![t] = <<>>]
        /\ packetLength' = [packetLength EXCEPT ![t] = 2]
        /\ shorts' = shorts
        /\ memory' \in [Threads -> Seq(Units)]
        /\ freed' \in Seq(Units)
      BY EmptyTyped DEF StartReading, Goto, TypeOK
  <1>2. /\ pc' \in [Threads -> {"idle", "scan", "read", "parse", "judge", "gone"}]
        /\ buffer' \in [Threads -> Seq(Units)]
        /\ packetLength' \in [Threads -> Nat \ {0, 1}]
      BY <1>1, EmptyTyped DEF TypeOK
  <1>3. ASSUME NEW x \in Threads, pc'[x] = "read" PROVE Len(buffer'[x]) < packetLength'[x]
    <2>1. CASE x = t
        BY <1>1, <2>1 DEF TypeOK
    <2>2. CASE x # t
        BY <1>1, <1>3, <2>2 DEF TypeOK
    <2>3. QED
        BY <2>1, <2>2
  <1>4. QED
      BY <1>1, <1>2, <1>3

\* The bytes a read returns join those of the thread.
LEMMA ReadSomePlaces ==
    ASSUME TypeOK, NEW t \in Threads, NEW k \in 1 .. Available(t)
    PROVE  LET b == buffer[t] \o SubSeq(stream, 1, k)
           IN  /\ k \in Nat \ {0} /\ k <= Len(stream) /\ k <= packetLength[t] - Len(buffer[t])
               /\ b \in Seq(Units)
               /\ Len(b) = Len(buffer[t]) + k
               /\ \A i \in 1 .. Len(buffer[t]) : b[i] = buffer[t][i]
               /\ \A i \in 1 .. k : b[Len(buffer[t]) + i] = stream[i]
               /\ SubSeq(stream, k + 1, Len(stream)) \in Seq(Units)
               /\ Len(SubSeq(stream, k + 1, Len(stream))) = Len(stream) - k
               /\ \A i \in 1 .. Len(stream) - k :
                     SubSeq(stream, k + 1, Len(stream))[i] = stream[k + i]
  <1>1. /\ stream \in Seq(Units) /\ Len(stream) \in Nat
        /\ buffer[t] \in Seq(Units) /\ Len(buffer[t]) \in Nat
        /\ packetLength[t] \in Nat
      BY DEF TypeOK
  <1>2. k \in Nat \ {0} /\ k <= Len(stream) /\ k <= packetLength[t] - Len(buffer[t])
      BY <1>1 DEF Available, Smaller
  <1>3. PICK r : r = SubSeq(stream, 1, k)
      OBVIOUS
  <1>4. r \in Seq(Units) /\ Len(r) = k /\ \A i \in 1 .. k : r[i] = stream[i]
    <2>1. /\ SubSeq(stream, 1, k) \in Seq(Units)
          /\ Len(SubSeq(stream, 1, k)) = IF 1 <= k THEN k - 1 + 1 ELSE 0
          /\ \A i \in 1 .. k - 1 + 1 : SubSeq(stream, 1, k)[i] = stream[1 + i - 1]
        BY <1>1, <1>2, SubTyped
    <2>2. QED
        BY <1>2, <1>3, <2>1
  <1>5. /\ buffer[t] \o r \in Seq(Units)
        /\ Len(buffer[t] \o r) = Len(buffer[t]) + Len(r)
        /\ \A i \in 1 .. Len(buffer[t]) : (buffer[t] \o r)[i] = buffer[t][i]
        /\ \A i \in 1 .. Len(r) : (buffer[t] \o r)[Len(buffer[t]) + i] = r[i]
    <2>1. buffer[t] \in Seq(Units) /\ r \in Seq(Units)
        BY <1>1, <1>4
    <2>2. QED
        BY <2>1, ConcatPlaces
  <1>6. /\ SubSeq(stream, k + 1, Len(stream)) \in Seq(Units)
        /\ Len(SubSeq(stream, k + 1, Len(stream))) = Len(stream) - k
        /\ \A i \in 1 .. Len(stream) - k :
              SubSeq(stream, k + 1, Len(stream))[i] = stream[k + i]
    <2>1. PICK m \in Nat \ {0} : m = k + 1
        BY <1>2
    <2>2. /\ SubSeq(stream, m, Len(stream)) \in Seq(Units)
          /\ Len(SubSeq(stream, m, Len(stream)))
                = IF m <= Len(stream) THEN Len(stream) - m + 1 ELSE 0
          /\ \A i \in 1 .. Len(stream) - m + 1 :
                SubSeq(stream, m, Len(stream))[i] = stream[m + i - 1]
        BY <1>1, SubTyped
    <2>3. QED
        BY <1>1, <1>2, <2>1, <2>2
  <1>7. QED
      BY <1>2, <1>3, <1>4, <1>5, <1>6

\* A thread that goes on reading still wants more.
LEMMA ReadingStays ==
    ASSUME TypeOK, UNCHANGED <<buffer, packetLength>>,
           \A x \in Threads : pc'[x] = "read" => pc[x] = "read"
    PROVE  \A x \in Threads : pc'[x] = "read" => Len(buffer'[x]) < packetLength'[x]
  BY DEF TypeOK

LEMMA ReadSomeTyped ==
    ASSUME TypeInv, NEW t \in Threads, ReadSome(t)
    PROVE  TypeInv'
  <1> USE DEF callVars, peerVars
  <1>1. TypeOK /\ unacked \in Seq(Honest) /\ wrote \in Seq(Honest)
      BY DEF TypeInv
  <1>2. PICK k \in 1 .. Available(t) :
          LET b == buffer[t] \o SubSeq(stream, 1, k)
              L == LengthIn(StringAt(b, memory[t]))
          IN  /\ shorts' = IF k < Available(t) THEN shorts + 1 ELSE shorts
              /\ shorts' <= MaxShorts
              /\ stream' = SubSeq(stream, k + 1, Len(stream))
              /\ buffer' = [buffer EXCEPT ![t] = b]
              /\ packetLength' = [packetLength EXCEPT ![t] = L]
              /\ torn' = (torn \/ Holding(t)) /\ shortHead' = (shortHead \/ Len(b) < 2)
              /\ IF L <= Len(b)
                 THEN Goto(t, "parse") /\ taken' = Append(taken, b)
                 ELSE UNCHANGED <<pc, taken>>
      BY DEF ReadSome
  <1>3. PICK b : b = buffer[t] \o SubSeq(stream, 1, k)
      OBVIOUS
  <1>4. b \in Seq(Units) /\ stream' \in Seq(Units)
      BY <1>1, <1>2, <1>3, ReadSomePlaces
  <1>5. PICK L : L = LengthIn(StringAt(b, memory[t]))
      OBVIOUS
  <1>6. L \in Nat \ {0, 1}
    <2>1. memory[t] \in Seq(Units)
        BY <1>1 DEF TypeOK
    <2>2. StringAt(b, memory[t]) \in Seq(Units)
        BY <1>4, <2>1, StringTyped
    <2>3. L \in Nat /\ L >= 2
        BY <1>5, <2>2, LengthTyped
    <2>4. QED
        BY <2>3
  <1>7. shorts' \in 0 .. MaxShorts
      BY <1>1, <1>2, FramingAssumption DEF TypeOK
  <1>8. /\ buffer' = [buffer EXCEPT ![t] = b]
        /\ packetLength' = [packetLength EXCEPT ![t] = L]
        /\ torn' = (torn \/ Holding(t)) /\ shortHead' = (shortHead \/ Len(b) < 2)
        /\ IF L <= Len(b)
           THEN pc' = [pc EXCEPT ![t] = "parse"] /\ taken' = Append(taken, b)
           ELSE UNCHANGED <<pc, taken>>
      BY <1>2, <1>3, <1>5 DEF Goto
  <1>9. /\ buffer' \in [Threads -> Seq(Units)]
        /\ packetLength' \in [Threads -> Nat \ {0, 1}]
        /\ torn' \in BOOLEAN /\ shortHead' \in BOOLEAN
      BY <1>1, <1>4, <1>6, <1>8 DEF TypeOK
  <1>10. /\ pc' \in [Threads -> {"idle", "scan", "read", "parse", "judge", "gone"}]
         /\ taken' \in Seq(Seq(Units))
    <2>1. taken \in Seq(Seq(Units)) /\ Append(taken, b) \in Seq(Seq(Units))
        BY <1>1, <1>4, AppendProperties DEF TypeOK
    <2>2. /\ pc \in [Threads -> {"idle", "scan", "read", "parse", "judge", "gone"}]
          /\ pc' = pc \/ pc' = [pc EXCEPT ![t] = "parse"]
        BY <1>1, <1>8 DEF TypeOK
    <2>3. QED
        BY <1>8, <2>1, <2>2
  <1>11. ASSUME NEW x \in Threads, pc'[x] = "read" PROVE Len(buffer'[x]) < packetLength'[x]
    <2>1. CASE x = t
      <3>1. ~ (L <= Len(b))
          BY <1>1, <1>8, <1>11, <2>1 DEF TypeOK
      <3>2. Len(b) \in Nat
          BY <1>4
      <3>3. buffer'[x] = b /\ packetLength'[x] = L
          BY <1>1, <1>8, <2>1 DEF TypeOK
      <3>4. QED
          BY <1>6, <3>1, <3>2, <3>3
    <2>2. CASE x # t
      <3>1. pc[x] = "read" /\ buffer'[x] = buffer[x] /\ packetLength'[x] = packetLength[x]
          BY <1>1, <1>8, <1>11, <2>2 DEF TypeOK
      <3>2. QED
          BY <1>1, <3>1 DEF TypeOK
    <2>3. QED
        BY <2>1, <2>2
  <1>12. UNCHANGED <<peerOpen, pkt, request, outcome, memory, freed, bufferPkts, unacked, asks,
                     says, wrote, delivered, written>>
      BY DEF ReadSome
  <1>13. QED
      BY <1>1, <1>4, <1>7, <1>9, <1>10, <1>11, <1>12 DEF TypeInv, TypeOK

LEMMA QuietReadTyped ==
    ASSUME TypeInv, NEW t \in Threads, ReadTimesOut(t) \/ ReadNothing(t) \/ ReadCutOff(t)
    PROVE  TypeInv'
  <1> USE DEF readVars, callVars, peerVars
  <1>1. TypeOK /\ unacked \in Seq(Honest) /\ wrote \in Seq(Honest)
      BY DEF TypeInv
  <1>2. ASSUME HelperFails(t)
        PROVE  /\ pc' \in [Threads -> {"idle", "scan", "read", "parse", "judge", "gone"}]
               /\ outcome' \in [Threads -> {"none", "found", "failed"}]
               /\ \A x \in Threads : pc'[x] = "read" => pc[x] = "read"
      BY <1>1, <1>2 DEF HelperFails, Goto, TypeOK
  <1>3. CASE ReadTimesOut(t)
    <2>1. \A x \in Threads : pc'[x] = "read" => Len(buffer'[x]) < packetLength'[x]
        BY <1>1, <1>2, <1>3, ReadingStays DEF ReadTimesOut
    <2>2. QED
        BY <1>1, <1>2, <1>3, <2>1 DEF ReadTimesOut, TypeInv, TypeOK
  <1>4. CASE ReadNothing(t)
    <2>1. /\ pc' \in [Threads -> {"idle", "scan", "read", "parse", "judge", "gone"}]
          /\ outcome' \in [Threads -> {"none", "found", "failed"}]
          /\ \A x \in Threads : pc'[x] = "read" => pc[x] = "read"
        BY <1>1, <1>2, <1>4 DEF ReadNothing, TypeOK
    <2>2. \A x \in Threads : pc'[x] = "read" => Len(buffer'[x]) < packetLength'[x]
        BY <1>1, <1>4, <2>1, ReadingStays DEF ReadNothing
    <2>3. freed' \in Seq(Units)
        BY <1>1, <1>4 DEF ReadNothing, TypeOK
    <2>4. QED
        BY <1>1, <1>4, <2>1, <2>2, <2>3 DEF ReadNothing, TypeInv, TypeOK
  <1>5. CASE ReadCutOff(t)
    <2>1. PICK L : L = LengthIn(StringAt(buffer[t], memory[t]))
        OBVIOUS
    <2>2. L \in Nat \ {0, 1}
      <3>1. buffer[t] \in Seq(Units) /\ memory[t] \in Seq(Units)
          BY <1>1 DEF TypeOK
      <3>2. StringAt(buffer[t], memory[t]) \in Seq(Units)
          BY <3>1, StringTyped
      <3>3. L \in Nat /\ L >= 2
          BY <2>1, <3>2, LengthTyped
      <3>4. QED
          BY <3>3
    <2>3. /\ pc' = [pc EXCEPT ![t] = "parse"]
          /\ packetLength' = [packetLength EXCEPT ![t] = L]
          /\ buffer' = buffer
        BY <1>5, <2>1 DEF ReadCutOff, Goto
    <2>4. ASSUME NEW x \in Threads, pc'[x] = "read" PROVE Len(buffer'[x]) < packetLength'[x]
      <3>1. x # t /\ pc[x] = "read"
          BY <1>1, <2>3, <2>4 DEF TypeOK
      <3>2. QED
          BY <1>1, <2>3, <3>1 DEF TypeOK
    <2>5. /\ pc' \in [Threads -> {"idle", "scan", "read", "parse", "judge", "gone"}]
          /\ packetLength' \in [Threads -> Nat \ {0, 1}]
        BY <1>1, <2>2, <2>3 DEF TypeOK
    <2>6. QED
        BY <1>1, <1>5, <2>4, <2>5 DEF ReadCutOff, TypeInv, TypeOK
  <1>6. QED
      BY <1>3, <1>4, <1>5

\* Whatever the text is, a packet comes of it.
LEMMA FilledTyped ==
    ASSUME NEW p \in Packet, NEW S \in Seq(Units), NEW L \in Nat,
           Find("length", S, 1) # 0,
           NEW j, j = Find("command", S, 1),
           NEW k, k = IF j = 0 THEN 0 ELSE Find("end", S, j), k # 0
    PROVE  Filled(p, S, j, k, L) \in Packet
  <1>1. Len(S) \in Nat /\ j # 0
      OBVIOUS
  <1>2. PICK i : i = Find("length", S, 1)
      OBVIOUS
  <1>3. i \in 1 .. Len(S) /\ S[i][1] = "length"
      BY <1>1, <1>2, FindFirst
  <1>4. j \in 1 .. Len(S) /\ S[j][1] = "command"
      BY <1>1, FindFirst
  <1>5. k \in j .. Len(S) /\ S[k][1] = "end"
    <2>1. j \in Nat \ {0} /\ k = Find("end", S, j)
        BY <1>1, <1>4
    <2>2. QED
        BY <1>1, <2>1, FindFirst
  <1>6. S[i][2] \in Nat /\ S[j][2][1] \in Codes /\ S[j][2][2] \in Nat
    <2>1. S[i] \in Units /\ S[j] \in Units
        BY <1>3, <1>4
    <2>2. QED
        BY <1>3, <1>4, <2>1, UnitKinds
  <1>7. PICK a : a = SubSeq(S, j + 1, k - 1)
      OBVIOUS
  <1>8. a \in Seq(Units)
    <2>1. PICK m \in Nat \ {0}, n \in Nat : m = j + 1 /\ n = k - 1 /\ n <= Len(S)
      <3>1. j + 1 \in Nat \ {0} /\ k - 1 \in Nat /\ k - 1 <= Len(S)
          BY <1>1, <1>4, <1>5
      <3>2. QED
          BY <3>1
    <2>2. SubSeq(S, m, n) \in Seq(Units)
        BY <2>1, SubTyped
    <2>3. QED
        BY <1>7, <2>1, <2>2
  <1>9. PICK c : c = LastField(S, k, L)
      OBVIOUS
  <1>10. c \in Seq(Units)
    <2>1. PICK m \in Nat \ {0} : m = k + 1
        BY <1>4, <1>5
    <2>2. PICK n \in Nat : n = (IF L < k THEN Len(S) ELSE Smaller(L, Len(S))) /\ n <= Len(S)
      <3>1. PICK n : n = (IF L < k THEN Len(S) ELSE Smaller(L, Len(S)))
          OBVIOUS
      <3>2. n \in Nat /\ n <= Len(S)
          BY <1>1, <3>1 DEF Smaller
      <3>3. QED
          BY <3>1, <3>2
    <2>3. SubSeq(S, m, n) \in Seq(Units)
        BY <2>2, SubTyped
    <2>4. QED
        BY <1>9, <2>1, <2>2, <2>3 DEF LastField
  <1>11. Filled(p, S, j, k, L) =
            [content_len |-> S[i][2], cmd_code |-> S[j][2][1], req_num |-> S[j][2][2],
             post |-> IF a = <<>> THEN p.post ELSE a,
             rcvd_cnts |-> IF c = <<>> THEN p.rcvd_cnts ELSE c,
             reused |-> HasContents(p)]
      BY <1>2, <1>7, <1>9 DEF Filled
  <1>12. /\ (IF a = <<>> THEN p.post ELSE a) \in Seq(Units)
         /\ (IF c = <<>> THEN p.rcvd_cnts ELSE c) \in Seq(Units)
         /\ HasContents(p) \in BOOLEAN
      BY <1>8, <1>10 DEF Packet, HasContents
  <1>13. PICK x \in Seq(Units), y \in Seq(Units), r \in BOOLEAN :
            /\ x = (IF a = <<>> THEN p.post ELSE a)
            /\ y = (IF c = <<>> THEN p.rcvd_cnts ELSE c)
            /\ r = HasContents(p)
      BY <1>12
  <1>14. PICK l \in Nat, d \in Codes, e \in Nat :
            l = S[i][2] /\ d = S[j][2][1] /\ e = S[j][2][2]
      BY <1>6
  <1>15. Filled(p, S, j, k, L) = [content_len |-> l, cmd_code |-> d, req_num |-> e,
                                  post |-> x, rcvd_cnts |-> y, reused |-> r]
      BY <1>11, <1>13, <1>14
  <1>16. [content_len |-> l, cmd_code |-> d, req_num |-> e,
          post |-> x, rcvd_cnts |-> y, reused |-> r] \in Packet
      BY DEF Packet
  <1>17. QED
      BY <1>15, <1>16

LEMMA ParseTyped ==
    ASSUME TypeInv, NEW t \in Threads, Parse(t)
    PROVE  TypeInv'
  <1> USE DEF peerVars
  <1>1. TypeOK /\ unacked \in Seq(Honest) /\ wrote \in Seq(Honest)
      BY DEF TypeInv
  <1>2. PICK S : S = StringAt(buffer[t], memory[t])
      OBVIOUS
  <1>3. S \in Seq(Units)
    <2>1. buffer[t] \in Seq(Units) /\ memory[t] \in Seq(Units)
        BY <1>1 DEF TypeOK
    <2>2. QED
        BY <1>2, <2>1, StringTyped
  <1>4. PICK j : j = Find("command", S, 1)
      OBVIOUS
  <1>5. PICK k : k = IF j = 0 THEN 0 ELSE Find("end", S, j)
      OBVIOUS
  <1>6. PICK q : q = Filled(pkt[t], S, j, k, packetLength[t])
      OBVIOUS
  <1>7. /\ freed' = S
        /\ \/ /\ Find("length", S, 1) # 0 /\ k # 0
              /\ pkt' = [pkt EXCEPT ![t] = q]
              /\ pc' = [pc EXCEPT ![t] = "judge"]
              /\ UNCHANGED outcome
           \/ HelperFails(t) /\ UNCHANGED pkt
      BY <1>2, <1>4, <1>5, <1>6 DEF Parse, Goto
  <1>8. /\ pc' \in [Threads -> {"idle", "scan", "read", "parse", "judge", "gone"}]
        /\ outcome' \in [Threads -> {"none", "found", "failed"}]
        /\ \A x \in Threads : pc'[x] = "read" => pc[x] = "read"
      BY <1>1, <1>7 DEF HelperFails, Goto, TypeOK
  <1>9. pkt' \in [Threads -> Packet]
    <2>1. ASSUME Find("length", S, 1) # 0, k # 0 PROVE q \in Packet
      <3>1. pkt[t] \in Packet /\ packetLength[t] \in Nat
          BY <1>1 DEF TypeOK
      <3>2. QED
          BY <1>3, <1>4, <1>5, <1>6, <2>1, <3>1, FilledTyped
    <2>2. QED
        BY <1>1, <1>7, <2>1 DEF TypeOK
  <1>10. \A x \in Threads : pc'[x] = "read" => Len(buffer'[x]) < packetLength'[x]
      BY <1>1, <1>8, ReadingStays DEF Parse
  <1>11. UNCHANGED <<stream, peerOpen, request, buffer, memory, packetLength, shorts, bufferPkts,
                     unacked, asks, says, wrote, taken, delivered, written, torn, shortHead>>
      BY DEF Parse
  <1>12. QED
      BY <1>1, <1>3, <1>7, <1>8, <1>9, <1>10, <1>11 DEF TypeInv, TypeOK

LEMMA RemoveAtProperties ==
    ASSUME NEW S, NEW s \in Seq(S), NEW i \in 1 .. Len(s)
    PROVE  RemoveAt(s, i) \in Seq(S) /\ Len(RemoveAt(s, i)) <= Len(s)
  <1>1. Len(s) \in Nat
      OBVIOUS
  <1>2. PICK a : a = SubSeq(s, 1, i - 1)
      OBVIOUS
  <1>3. PICK c : c = SubSeq(s, i + 1, Len(s))
      OBVIOUS
  <1>4. a \in Seq(S) /\ Len(a) = i - 1
      BY <1>1, <1>2, SubSeqProperties
  <1>5. c \in Seq(S) /\ Len(c) = Len(s) - i
      BY <1>1, <1>3, SubSeqProperties
  <1>6. a \o c \in Seq(S) /\ Len(a \o c) = Len(a) + Len(c)
    <2>1. a \in Seq(S) /\ c \in Seq(S)
        BY <1>4, <1>5
    <2>2. QED
        BY <2>1, ConcatProperties
  <1>7. Len(a) + Len(c) <= Len(s)
      BY <1>1, <1>4, <1>5
  <1>8. QED
      BY <1>2, <1>3, <1>6, <1>7 DEF RemoveAt

LEMMA LastProperties ==
    ASSUME NEW S, NEW s \in Seq(S), s # <<>>
    PROVE  Last(s) \in S
  BY DEF Last

\* What a thread does with packets that are all in G - with the packets of
\* bufferPkts, and with its own when it has one to judge: it returns and keeps
\* only such packets, and has only such ones to judge.
LEMMA ReceiverKeeps ==
    ASSUME TypeOK, NEW G, G \subseteq Packet, bufferPkts \in Seq(G),
           NEW t \in Receivers, ReceiverStep(t), pc[t] = "judge" => pkt[t] \in G
    PROVE  /\ bufferPkts' \in Seq(G) /\ Len(bufferPkts') <= BufferSize
           /\ delivered' \subseteq delivered \cup G
           /\ UNCHANGED pc \/ pc'[t] # "judge"
           /\ UNCHANGED <<outcome, request, taken, wrote, unacked, torn, shortHead>>
           /\ \A x \in Threads \ {t} : pc'[x] = pc[x] /\ pkt'[x] = pkt[x]
           /\ pkt'[t] \in Packet
           /\ \/ UNCHANGED written
              \/ pc[t] = "judge" /\ written' = written \cup {AckOf(pkt[t])}
  <1> USE DEF callVars, readVars, peerVars
  <1>1. t \in Threads
      BY DEF Threads
  <1> DEFINE Steps == {"idle", "scan", "read", "parse", "judge", "gone"}
  <1>t. /\ pc \in [Threads -> Steps] /\ pkt \in [Threads -> Packet]
        /\ outcome \in [Threads -> {"none", "found", "failed"}]
        /\ Len(bufferPkts) <= BufferSize /\ Len(bufferPkts) \in Nat /\ BufferSize \in Nat
      BY FramingAssumption DEF TypeOK
  <1> HIDE DEF Steps
  <1>2. CASE ReadSocket(t)
    <2>1. PICK i : i = SelectInSeq(bufferPkts, LAMBDA p : p.cmd_code # "ACK")
        OBVIOUS
    <2>2. i # 0 => i \in 1 .. Len(bufferPkts)
      <3>1. bufferPkts \in Seq(Packet)
          BY DEF TypeOK
      <3>2. QED
          BY <2>1, <3>1, FirstMessage
    <2>3. \/ /\ i # 0
             /\ delivered' = delivered \cup {bufferPkts[i]}
             /\ bufferPkts' = RemoveAt(bufferPkts, i)
             /\ UNCHANGED <<pc, pkt>>
          \/ /\ pkt' = [pkt EXCEPT ![t] = IF bufferPkts = <<>> THEN EmptyPacket
                                          ELSE Last(bufferPkts)]
             /\ StartReading(t)
             /\ UNCHANGED <<delivered, bufferPkts>>
        BY <1>2, <2>1 DEF ReadSocket
    <2>4. UNCHANGED <<outcome, request, taken, wrote, unacked, torn, shortHead, written>>
        BY <1>2 DEF ReadSocket
    <2>5. CASE i # 0 /\ delivered' = delivered \cup {bufferPkts[i]}
                /\ bufferPkts' = RemoveAt(bufferPkts, i) /\ UNCHANGED <<pc, pkt>>
      <3>1. bufferPkts[i] \in G
          BY <2>2, <2>5
      <3>2. /\ RemoveAt(bufferPkts, i) \in Seq(G)
            /\ Len(RemoveAt(bufferPkts, i)) <= Len(bufferPkts)
          BY <2>2, <2>5, RemoveAtProperties
      <3>3. Len(bufferPkts') <= BufferSize
          BY <1>t, <2>5, <3>2
      <3>4. QED
          BY <1>t, <1>1, <2>4, <2>5, <3>1, <3>2, <3>3
    <2>6. CASE /\ pkt' = [pkt EXCEPT ![t] = IF bufferPkts = <<>> THEN EmptyPacket
                                            ELSE Last(bufferPkts)]
               /\ StartReading(t)
               /\ UNCHANGED <<delivered, bufferPkts>>
      <3>1. bufferPkts # <<>> => Last(bufferPkts) \in G
          BY LastProperties
      <3>2. pkt'[t] \in Packet
          BY <1>t, <1>1, <2>6, <3>1, EmptyTyped
      <3>3. pc' = [pc EXCEPT ![t] = "read"]
          BY <2>6 DEF StartReading, Goto
      <3>4. QED
          BY <1>t, <1>1, <2>4, <2>6, <3>2, <3>3
    <2>7. QED
        BY <2>3, <2>5, <2>6
  <1>3. CASE KeepAck(t)
    <2>1. bufferPkts' = Append(bufferPkts, pkt[t]) /\ pkt[t] \in G
        BY <1>3 DEF KeepAck
    <2>2. bufferPkts' \in Seq(G) /\ Len(bufferPkts') = Len(bufferPkts) + 1
        BY <2>1, AppendProperties
    <2>3. Len(bufferPkts') <= BufferSize
        BY <1>t, <1>3, <2>2 DEF KeepAck
    <2>4. pc' = [pc EXCEPT ![t] = "read"]
        BY <1>3 DEF KeepAck, StartReading, Goto
    <2>5. QED
        BY <1>t, <1>1, <1>3, <2>2, <2>3, <2>4 DEF KeepAck
  <1>4. CASE AckOverflows(t)
      BY <1>t, <1>1, <1>4 DEF AckOverflows, Goto
  <1>5. CASE AckMessage(t)
    <2>1. pkt[t] \in G
        BY <1>5 DEF AckMessage
    <2>2. QED
        BY <1>t, <1>1, <1>5, <2>1 DEF AckMessage, Goto
  <1>6. QED
      BY <1>2, <1>3, <1>4, <1>5 DEF ReceiverStep

LEMMA RequesterKeeps ==
    ASSUME TypeOK, NEW G, G \subseteq Packet, bufferPkts \in Seq(G),
           NEW t \in Requesters, Scan(t) \/ JudgeAck(t),
           pc[t] = "judge" \/ outcome[t] = "found" => pkt[t] \in G
    PROVE  /\ bufferPkts' \in Seq(G) /\ Len(bufferPkts') <= BufferSize
           /\ pc'[t] = "judge" \/ outcome'[t] = "found" => pkt'[t] \in G
           /\ UNCHANGED <<delivered, request, taken, wrote, unacked, torn, shortHead, written>>
           /\ \A x \in Threads \ {t} :
                 pc'[x] = pc[x] /\ pkt'[x] = pkt[x] /\ outcome'[x] = outcome[x]
           /\ pkt'[t] \in Packet
           /\ outcome' \in [Threads -> {"none", "found", "failed"}]
  <1> USE DEF callVars, readVars, peerVars
  <1>1. t \in Threads
      BY DEF Threads
  <1> DEFINE Steps == {"idle", "scan", "read", "parse", "judge", "gone"}
  <1>t. /\ pc \in [Threads -> Steps] /\ pkt \in [Threads -> Packet]
        /\ outcome \in [Threads -> {"none", "found", "failed"}]
        /\ Len(bufferPkts) <= BufferSize /\ Len(bufferPkts) \in Nat /\ BufferSize \in Nat
      BY FramingAssumption DEF TypeOK
  <1> HIDE DEF Steps
  <1>2. CASE Scan(t)
    <2>1. PICK i : i = SelectInSeq(bufferPkts, LAMBDA q :
                          Answers(q, request[t]) /\ q.content_len = request[t].content_len)
        OBVIOUS
    <2>2. i # 0 => i \in 1 .. Len(bufferPkts)
      <3>1. bufferPkts \in Seq(Packet)
          BY DEF TypeOK
      <3>2. i = AnswerIn(bufferPkts, request[t])
          BY <2>1 DEF AnswerIn
      <3>3. QED
          BY <3>1, <3>2, FirstAnswer
    <2>3. PICK last : last = IF bufferPkts = <<>> THEN pkt[t] ELSE Last(bufferPkts)
        OBVIOUS
    <2>4. /\ last \in Packet
          /\ bufferPkts # <<>> \/ outcome[t] = "found" => last \in G
      <3>1. bufferPkts # <<>> => Last(bufferPkts) \in G
          BY LastProperties
      <3>2. pkt[t] \in Packet
          BY <1>t, <1>1
      <3>3. QED
          BY <2>3, <3>1, <3>2
    <2>5. \/ /\ i # 0
             /\ bufferPkts' = RemoveAt(bufferPkts, i)
             /\ pkt' = [pkt EXCEPT ![t] = IF i + 1 < Len(bufferPkts) THEN last
                                          ELSE bufferPkts[i]]
             /\ outcome' = [outcome EXCEPT ![t] = "found"]
             /\ pc' = [pc EXCEPT ![t] = "judge"]
          \/ /\ pkt' = [pkt EXCEPT ![t] = last]
             /\ \/ outcome[t] = "none" /\ pc' = [pc EXCEPT ![t] = "read"]
                \/ outcome[t] = "found" /\ pc' = [pc EXCEPT ![t] = "judge"]
                \/ outcome[t] = "failed" /\ pc' = [pc EXCEPT ![t] = "idle"]
             /\ UNCHANGED <<bufferPkts, outcome>>
        BY <1>2, <2>1, <2>3 DEF Scan, StartReading, Goto
    <2>6. UNCHANGED <<delivered, request, taken, wrote, unacked, torn, shortHead, written>>
        BY <1>2 DEF Scan
    <2>7. CASE /\ i # 0
               /\ bufferPkts' = RemoveAt(bufferPkts, i)
               /\ pkt' = [pkt EXCEPT ![t] = IF i + 1 < Len(bufferPkts) THEN last
                                            ELSE bufferPkts[i]]
               /\ outcome' = [outcome EXCEPT ![t] = "found"]
               /\ pc' = [pc EXCEPT ![t] = "judge"]
      <3>1. bufferPkts[i] \in G /\ bufferPkts # <<>>
          BY <2>2, <2>7
      <3>2. /\ RemoveAt(bufferPkts, i) \in Seq(G)
            /\ Len(RemoveAt(bufferPkts, i)) <= Len(bufferPkts)
          BY <2>2, <2>7, RemoveAtProperties
      <3>3. Len(bufferPkts') <= BufferSize
          BY <1>t, <2>7, <3>2
      <3>4. pkt'[t] \in G
          BY <1>t, <1>1, <2>4, <2>7, <3>1
      <3>5. QED
          BY <1>t, <1>1, <2>6, <2>7, <3>2, <3>3, <3>4
    <2>8. CASE /\ pkt' = [pkt EXCEPT ![t] = last]
               /\ \/ outcome[t] = "none" /\ pc' = [pc EXCEPT ![t] = "read"]
                  \/ outcome[t] = "found" /\ pc' = [pc EXCEPT ![t] = "judge"]
                  \/ outcome[t] = "failed" /\ pc' = [pc EXCEPT ![t] = "idle"]
               /\ UNCHANGED <<bufferPkts, outcome>>
      <3>1. pkt'[t] = last
          BY <1>t, <1>1, <2>8
      <3>2. pc'[t] = "judge" => outcome[t] = "found"
          BY <1>t, <1>1, <2>8
      <3>3. QED
          BY <1>t, <1>1, <2>4, <2>6, <2>8, <3>1, <3>2
    <2>9. QED
        BY <2>5, <2>7, <2>8
  <1>3. CASE JudgeAck(t)
    <2>1. pkt[t] \in G
        BY <1>3 DEF JudgeAck
    <2>2. bufferPkts' \in Seq(G) /\ Len(bufferPkts') <= BufferSize
      <3>1. \/ UNCHANGED bufferPkts
            \/ Len(bufferPkts) < BufferSize /\ bufferPkts' = Append(bufferPkts, pkt[t])
          BY <1>3 DEF JudgeAck
      <3>2. /\ Append(bufferPkts, pkt[t]) \in Seq(G)
            /\ Len(Append(bufferPkts, pkt[t])) = Len(bufferPkts) + 1
          BY <2>1, AppendProperties
      <3>3. QED
          BY <1>t, <3>1, <3>2
    <2>3. pc' = [pc EXCEPT ![t] = "idle"] \/ pc' = [pc EXCEPT ![t] = "scan"]
        BY <1>3 DEF JudgeAck, Goto
    <2>4. QED
        BY <1>t, <1>1, <1>3, <2>1, <2>2, <2>3 DEF JudgeAck
  <1>4. QED
      BY <1>2, <1>3

\* A helper begins, or nothing of it changes and nobody begins to read.
LEMMA ReadersTyped ==
    ASSUME TypeOK, NEW t \in Threads,
           \/ StartReading(t)
           \/ /\ UNCHANGED <<buffer, memory, packetLength, freed, shorts>>
              /\ \/ UNCHANGED pc
                 \/ \E step \in {"idle", "scan", "parse", "judge", "gone"} :
                       pc' = [pc EXCEPT ![t] = step]
    PROVE  /\ pc' \in [Threads -> {"idle", "scan", "read", "parse", "judge", "gone"}]
           /\ buffer' \in [Threads -> Seq(Units)]
           /\ memory' \in [Threads -> Seq(Units)]
           /\ packetLength' \in [Threads -> Nat \ {0, 1}]
           /\ freed' \in Seq(Units)
           /\ shorts' \in 0 .. MaxShorts
           /\ \A x \in Threads : pc'[x] = "read" => Len(buffer'[x]) < packetLength'[x]
  <1>1. CASE StartReading(t)
      BY <1>1, StartTyped DEF TypeOK
  <1>2. CASE UNCHANGED <<buffer, memory, packetLength, freed, shorts, pc>>
      BY <1>2 DEF TypeOK
  <1>3. CASE /\ UNCHANGED <<buffer, memory, packetLength, freed, shorts>>
             /\ \E step \in {"idle", "scan", "parse", "judge", "gone"} :
                   pc' = [pc EXCEPT ![t] = step]
    <2>1. PICK step \in {"idle", "scan", "parse", "judge", "gone"} :
                pc' = [pc EXCEPT ![t] = step]
        BY <1>3
    <2>2. \A x \in Threads : pc'[x] = "read" => pc[x] = "read"
        BY <2>1 DEF TypeOK
    <2>3. \A x \in Threads : pc'[x] = "read" => Len(buffer'[x]) < packetLength'[x]
        BY <1>3, <2>2, ReadingStays
    <2>4. QED
        BY <1>3, <2>1, <2>3 DEF TypeOK
  <1>4. QED
      BY <1>1, <1>2, <1>3

LEMMA ReceiverTyped ==
    ASSUME TypeInv, NEW t \in Receivers, ReceiverStep(t)
    PROVE  TypeInv'
  <1> USE DEF callVars, readVars, peerVars
  <1>1. TypeOK /\ unacked \in Seq(Honest) /\ wrote \in Seq(Honest) /\ t \in Threads
      BY DEF TypeInv, Threads
  <1>2. bufferPkts \in Seq(Packet) /\ pkt[t] \in Packet
      BY <1>1 DEF TypeOK
  <1>3. /\ bufferPkts' \in Seq(Packet) /\ Len(bufferPkts') <= BufferSize
        /\ delivered' \subseteq delivered \cup Packet
        /\ UNCHANGED <<outcome, request, taken, wrote, unacked, torn, shortHead>>
        /\ pkt'[t] \in Packet
        /\ \/ UNCHANGED written
           \/ pc[t] = "judge" /\ written' = written \cup {AckOf(pkt[t])}
      BY <1>1, <1>2, ReceiverKeeps
  <1>4. /\ UNCHANGED <<stream, peerOpen, asks, says>>
        /\ UNCHANGED pkt \/ \E p : pkt' = [pkt EXCEPT ![t] = p]
      BY DEF ReceiverStep, ReadSocket, KeepAck, AckOverflows, AckMessage
  <1>5. pkt' \in [Threads -> Packet]
      BY <1>1, <1>3, <1>4 DEF TypeOK
  <1>6. \/ StartReading(t)
        \/ /\ UNCHANGED <<buffer, memory, packetLength, freed, shorts>>
           /\ \/ UNCHANGED pc
              \/ \E step \in {"idle", "scan", "parse", "judge", "gone"} :
                    pc' = [pc EXCEPT ![t] = step]
      BY DEF ReceiverStep, ReadSocket, KeepAck, AckOverflows, AckMessage, Goto
  <1>7. written' \subseteq Packet /\ delivered' \subseteq Packet
    <2>1. AckOf(pkt[t]) \in Packet
        BY <1>2, AckLength
    <2>2. QED
        BY <1>1, <1>3, <2>1 DEF TypeOK
  <1>8. /\ pc' \in [Threads -> {"idle", "scan", "read", "parse", "judge", "gone"}]
        /\ buffer' \in [Threads -> Seq(Units)]
        /\ memory' \in [Threads -> Seq(Units)]
        /\ packetLength' \in [Threads -> Nat \ {0, 1}]
        /\ freed' \in Seq(Units)
        /\ shorts' \in 0 .. MaxShorts
        /\ \A x \in Threads : pc'[x] = "read" => Len(buffer'[x]) < packetLength'[x]
      BY <1>1, <1>6, ReadersTyped
  <1>9. QED
      BY <1>1, <1>3, <1>4, <1>5, <1>7, <1>8 DEF TypeInv, TypeOK

LEMMA RequesterTyped ==
    ASSUME TypeInv, NEW t \in Requesters, RequesterStep(t)
    PROVE  TypeInv'
  <1> USE DEF callVars, readVars, peerVars
  <1>1. TypeOK /\ unacked \in Seq(Honest) /\ wrote \in Seq(Honest) /\ t \in Threads
      BY DEF TypeInv, Threads
  <1>2. bufferPkts \in Seq(Packet) /\ pkt[t] \in Packet
      BY <1>1 DEF TypeOK
  <1>3. \/ StartReading(t)
        \/ /\ UNCHANGED <<buffer, memory, packetLength, freed, shorts>>
           /\ \/ UNCHANGED pc
              \/ \E step \in {"idle", "scan", "parse", "judge", "gone"} :
                    pc' = [pc EXCEPT ![t] = step]
      BY DEF RequesterStep, SendRequest, Scan, JudgeAck, Goto
  <1>4. /\ pc' \in [Threads -> {"idle", "scan", "read", "parse", "judge", "gone"}]
        /\ buffer' \in [Threads -> Seq(Units)]
        /\ memory' \in [Threads -> Seq(Units)]
        /\ packetLength' \in [Threads -> Nat \ {0, 1}]
        /\ freed' \in Seq(Units)
        /\ shorts' \in 0 .. MaxShorts
        /\ \A x \in Threads : pc'[x] = "read" => Len(buffer'[x]) < packetLength'[x]
      BY <1>1, <1>3, ReadersTyped
  <1>5. CASE SendRequest(t)
    <2>1. PICK x \in Requests :
             LET p == Measured([EmptyPacket EXCEPT !.cmd_code = "REQUEST", !.req_num = asks + 1,
                                                   !.post = x])
             IN  /\ request' = [request EXCEPT ![t] = p]
                 /\ written' = written \cup {p}
                 /\ unacked' = Append(unacked, p)
        BY <1>5 DEF SendRequest
    <2>2. PICK p : p = Measured([EmptyPacket EXCEPT !.cmd_code = "REQUEST",
                                                    !.req_num = asks + 1, !.post = x])
        OBVIOUS
    <2>3. asks + 1 \in Nat /\ asks' \in 0 .. MaxAsks
      <3>1. asks \in 0 .. MaxAsks /\ asks < MaxAsks /\ asks' = asks + 1
          BY <1>1, <1>5 DEF SendRequest, TypeOK
      <3>2. QED
          BY <3>1, FramingAssumption
    <2>4. p \in Honest /\ p \in Packet
        BY <2>2, <2>3, RequestHonest, HonestPackets
    <2>5. unacked' \in Seq(Honest) /\ unacked' \in Seq(Packet)
        BY <1>1, <2>1, <2>2, <2>4, AppendProperties, HonestPackets
    <2>6. request' \in [Threads -> Packet] /\ written' \subseteq Packet
        BY <1>1, <2>1, <2>2, <2>4 DEF TypeOK
    <2>7. /\ pkt' \in [Threads -> Packet]
          /\ outcome' \in [Threads -> {"none", "found", "failed"}]
        BY <1>1, <1>5, EmptyTyped DEF SendRequest, TypeOK
    <2>8. UNCHANGED <<stream, peerOpen, bufferPkts, says, wrote, taken, delivered, torn, shortHead>>
        BY <1>5 DEF SendRequest
    <2>9. QED
        BY <1>1, <1>4, <2>3, <2>5, <2>6, <2>7, <2>8 DEF TypeInv, TypeOK
  <1>6. CASE Scan(t) \/ JudgeAck(t)
    <2>1. /\ bufferPkts' \in Seq(Packet) /\ Len(bufferPkts') <= BufferSize
          /\ UNCHANGED <<delivered, request, taken, wrote, unacked, torn, shortHead, written>>
          /\ pkt'[t] \in Packet
          /\ outcome' \in [Threads -> {"none", "found", "failed"}]
        BY <1>1, <1>2, <1>6, RequesterKeeps
    <2>2. /\ UNCHANGED <<stream, peerOpen, asks, says>>
          /\ UNCHANGED pkt \/ \E p : pkt' = [pkt EXCEPT ![t] = p]
        BY <1>6 DEF Scan, JudgeAck
    <2>3. pkt' \in [Threads -> Packet]
        BY <1>1, <2>1, <2>2 DEF TypeOK
    <2>4. QED
        BY <1>1, <1>4, <2>1, <2>2, <2>3 DEF TypeInv, TypeOK
  <1>7. QED
      BY <1>5, <1>6 DEF RequesterStep

LEMMA PeerWritesTyped ==
    ASSUME TypeInv, NEW p \in Honest, PeerWrites(p), unacked' \in Seq(Honest),
           says' \in 0 .. MaxSays
    PROVE  TypeInv'
  <1> USE DEF callVars, readVars
  <1>1. TypeOK /\ unacked \in Seq(Honest) /\ wrote \in Seq(Honest)
      BY DEF TypeInv
  <1>2. wrote' \in Seq(Honest)
      BY <1>1, AppendProperties DEF PeerWrites
  <1>3. wrote' \in Seq(Packet) /\ unacked' \in Seq(Packet)
      BY <1>2, HonestPackets
  <1>4. stream' \in Seq(Units)
    <2>1. stream \in Seq(Units) /\ Bytes(p) \in Seq(Units)
        BY <1>1, HonestBytes DEF TypeOK
    <2>2. stream \o Bytes(p) \in Seq(Units)
        BY <2>1, ConcatProperties
    <2>3. QED
        BY <2>2 DEF PeerWrites
  <1>5. UNCHANGED <<peerOpen, pc, pkt, request, outcome, buffer, memory, packetLength, freed,
                    shorts, bufferPkts, asks, taken, delivered, written, torn, shortHead>>
      BY DEF PeerWrites
  <1>6. QED
      BY <1>1, <1>2, <1>3, <1>4, <1>5 DEF TypeInv, TypeOK

\* What the peer writes, and what is left for it to acknowledge.
LEMMA PeerSaysHonest ==
    ASSUME TypeInv, PeerSays \/ PeerAcks
    PROVE  /\ \E p \in Honest : PeerWrites(p)
           /\ unacked' \in Seq(Honest)
           /\ says' \in 0 .. MaxSays
  <1>1. TypeOK /\ unacked \in Seq(Honest)
      BY DEF TypeInv
  <1>2. CASE PeerSays
    <2>1. PICK m \in Messages :
             PeerWrites(Measured([EmptyPacket EXCEPT !.cmd_code = "MESSAGE",
                                    !.req_num = says + 1, !.post = m[1], !.rcvd_cnts = m[2]]))
        BY <1>2 DEF PeerSays
    <2>2. says + 1 \in Nat /\ says' \in 0 .. MaxSays
      <3>1. says \in 0 .. MaxSays /\ says < MaxSays /\ says' = says + 1
          BY <1>1, <1>2 DEF PeerSays, TypeOK
      <3>2. QED
          BY <3>1, FramingAssumption
    <2>3. Measured([EmptyPacket EXCEPT !.cmd_code = "MESSAGE",
                       !.req_num = says + 1, !.post = m[1], !.rcvd_cnts = m[2]]) \in Honest
        BY <2>2, MessageHonest
    <2>4. unacked' = unacked
        BY <1>2 DEF PeerSays
    <2>5. QED
        BY <1>1, <2>1, <2>2, <2>3, <2>4
  <1>3. CASE PeerAcks
    <2>1. unacked # <<>> /\ PeerWrites(AckOf(Head(unacked)))
        BY <1>3 DEF PeerAcks
    <2>2. Head(unacked) \in Honest
        BY <1>1, <2>1
    <2>3. AckOf(Head(unacked)) \in Honest
        BY <2>2, AckHonest
    <2>4. unacked' \in Seq(Honest)
      <3>1. SubSeq(unacked, 2, Len(unacked)) \in Seq(Honest)
          BY <1>1, SubTyped
      <3>2. QED
          BY <1>3, <3>1 DEF PeerAcks
    <2>5. says' \in 0 .. MaxSays
        BY <1>1, <1>3 DEF PeerAcks, TypeOK
    <2>6. QED
        BY <2>1, <2>3, <2>4, <2>5
  <1>4. QED
      BY <1>2, <1>3

LEMMA TypeKept == TypeInv /\ [Next]_vars => TypeInv'
  <1> SUFFICES ASSUME TypeInv, [Next]_vars PROVE TypeInv'
      OBVIOUS
  <1>1. ASSUME NEW t \in Threads, Helper(t) PROVE TypeInv'
      BY <1>1, ReadSomeTyped, QuietReadTyped, ParseTyped DEF Helper
  <1>2. ASSUME NEW t \in Receivers, ReceiverStep(t) PROVE TypeInv'
      BY <1>2, ReceiverTyped
  <1>3. ASSUME NEW t \in Requesters, RequesterStep(t) PROVE TypeInv'
      BY <1>3, RequesterTyped
  <1>4. CASE PeerSays \/ PeerAcks
    <2>1. PICK p \in Honest : PeerWrites(p)
        BY <1>4, PeerSaysHonest
    <2>2. unacked' \in Seq(Honest) /\ says' \in 0 .. MaxSays
        BY <1>4, PeerSaysHonest
    <2>3. QED
        BY <2>1, <2>2, PeerWritesTyped
  <1>5. CASE PeerCloses
      BY <1>5 DEF PeerCloses, TypeInv, TypeOK, callVars, readVars, peerVars
  <1>6. CASE UNCHANGED vars
      BY <1>6 DEF vars, TypeInv, TypeOK, callVars, readVars, peerVars
  <1>7. QED
      BY <1>1, <1>2, <1>3, <1>4, <1>5, <1>6 DEF Next, Peer

LEMMA TypedAlways == Spec => []TypeInv
  BY InitTyped, TypeKept, PTL DEF Spec

\* Every variable keeps its type: whatever text stands in the memory, a parsed
\* packet has a code and a length, a helper that reads wants more than it has,
\* and bufferPkts never has more packets than places.
THEOREM TypeCorrect == Spec => []TypeOK
  <1>1. TypeInv => TypeOK
      BY DEF TypeInv
  <1>2. QED
      BY <1>1, TypedAlways, PTL

-----------------------------------------------------------------------------
(* The helpers stay in step with the peer.  The invariant lays out all      *)
(* that the peer has written: packet k of w takes the places f[k-1]+1 to    *)
(* f[k], and the stream is what stands behind the place pos = Len(all) -    *)
(* Len(stream).  As long as packets are read in one go, those up to f[n]    *)
(* have been taken, n of them, and a thread that holds bytes holds the ones *)
(* from there on and knows how long the packet is.                          *)

USE DEF InOneGo

Placed(w, all, f) ==
    /\ all \in Seq(Units)
    /\ f \in [0 .. Len(w) -> Nat]
    /\ f[0] = 0
    /\ f[Len(w)] = Len(all)
    /\ \A k \in 0 .. Len(w) : f[k] <= Len(all)
    /\ \A k \in 1 .. Len(w) :
          /\ f[k] = f[k - 1] + Len(Bytes(w[k]))
          /\ \A i \in 1 .. Len(Bytes(w[k])) : all[f[k - 1] + i] = Bytes(w[k])[i]

\* The stream is the end of it.
Unread(all) ==
    /\ Len(stream) <= Len(all)
    /\ \A i \in 1 .. Len(stream) : stream[i] = all[Len(all) - Len(stream) + i]

Holds(t) == pc[t] = "read" /\ buffer[t] # <<>>

HeldRight(t, all, f) ==
    LET n == Len(taken)
    IN  /\ n < Len(wrote)
        /\ Len(buffer[t]) >= 2
        /\ Len(all) - Len(stream) = f[n] + Len(buffer[t])
        /\ \A i \in 1 .. Len(buffer[t]) : buffer[t][i] = all[f[n] + i]
        /\ packetLength[t] = Len(Bytes(wrote[n + 1]))

TakenRight == Len(taken) <= Len(wrote) /\ \A i \in 1 .. Len(taken) : taken[i] = Bytes(wrote[i])

InPlace(all, f) ==
    /\ Placed(wrote, all, f)
    /\ Unread(all)
    /\ TakenRight
    /\ \A t \in Threads : Holds(t) => HeldRight(t, all, f)
    /\ \/ \E t \in Threads : Holds(t)
       \/ Len(all) - Len(stream) = f[Len(taken)]
       \/ \A t \in Threads : pc[t] = "gone"

\* A helper that has nothing yet asks for two units.
AsksForTwo == \A t \in Threads : pc[t] = "read" /\ buffer[t] = <<>> => packetLength[t] = 2

OneHolds == \A t, u \in Threads : Holds(t) /\ Holds(u) => t = u

StepInv == AsksForTwo /\ (InOneGo => OneHolds /\ \E all, f : InPlace(all, f))

LEMMA InitInStep == Init => StepInv
  <1> SUFFICES ASSUME Init PROVE StepInv
      OBVIOUS
  <1>1. AsksForTwo /\ OneHolds /\ \A t \in Threads : ~ Holds(t)
      BY DEF Init, AsksForTwo, OneHolds, Holds
  <1>2. PICK f : f = [k \in 0 .. 0 |-> 0]
      OBVIOUS
  <1>3. stream = <<>> /\ taken = <<>> /\ wrote = <<>>
      BY DEF Init
  <1>4. <<>> \in Seq(Units) /\ Len(<<>>) = 0 /\ f \in [0 .. 0 -> Nat] /\ f[0] = 0
      BY <1>2
  <1>5. Placed(wrote, <<>>, f)
      BY <1>3, <1>4 DEF Placed
  <1>6. Unread(<<>>) /\ TakenRight
      BY <1>3, <1>4 DEF Unread, TakenRight
  <1>7. Len(<<>>) - Len(stream) = f[Len(taken)]
      BY <1>3, <1>4
  <1>8. InPlace(<<>>, f)
      BY <1>1, <1>5, <1>6, <1>7 DEF InPlace
  <1>9. QED
      BY <1>1, <1>8 DEF StepInv

\* Steps that neither read nor write the stream and leave the holder alone.
LEMMA QuietInStep ==
    ASSUME StepInv, UNCHANGED <<stream, taken, wrote>>, InOneGo' => InOneGo,
           AsksForTwo',
           InOneGo' => \/ \A t \in Threads : pc'[t] = "gone"
                      \/ \A t \in Threads :
                            /\ (pc'[t] = "read" /\ buffer'[t] # <<>>) <=> Holds(t)
                            /\ Holds(t) => /\ buffer'[t] = buffer[t]
                                           /\ packetLength'[t] = packetLength[t]
                            /\ pc[t] = "gone" => pc'[t] = "gone"
    PROVE  StepInv'
  <1>1. CASE ~ InOneGo'
      BY <1>1 DEF StepInv
  <1>2. CASE InOneGo'
    <2>1. OneHolds /\ \E all, f : InPlace(all, f)
        BY <1>2 DEF StepInv
    <2>2. PICK all, f : InPlace(all, f)
        BY <2>1
    <2>3. /\ Placed(wrote, all, f) /\ Unread(all) /\ TakenRight
          /\ \A t \in Threads : Holds(t) => HeldRight(t, all, f)
          /\ \/ \E t \in Threads : Holds(t)
             \/ Len(all) - Len(stream) = f[Len(taken)]
             \/ \A t \in Threads : pc[t] = "gone"
        BY <2>2 DEF InPlace
    <2>4. Placed(wrote, all, f)' /\ Unread(all)' /\ TakenRight'
        BY <2>3 DEF Placed, Unread, TakenRight
    <2>5. CASE \A t \in Threads : pc'[t] = "gone"
      <3>1. \A t \in Threads : ~ Holds(t)'
          BY <2>5 DEF Holds
      <3>2. OneHolds' /\ InPlace(all, f)'
          BY <2>4, <2>5, <3>1 DEF OneHolds, InPlace
      <3>3. QED
          BY <3>2 DEF StepInv
    <2>6. CASE \A t \in Threads :
                  /\ (pc'[t] = "read" /\ buffer'[t] # <<>>) <=> Holds(t)
                  /\ Holds(t) => /\ buffer'[t] = buffer[t]
                                 /\ packetLength'[t] = packetLength[t]
                  /\ pc[t] = "gone" => pc'[t] = "gone"
      <3>1. \A t \in Threads : Holds(t)' <=> Holds(t)
          BY <2>6 DEF Holds
      <3>2. ASSUME NEW t \in Threads, Holds(t)' PROVE HeldRight(t, all, f)'
        <4>1. /\ HeldRight(t, all, f)
              /\ buffer'[t] = buffer[t] /\ packetLength'[t] = packetLength[t]
            BY <2>3, <2>6, <3>1, <3>2
        <4>2. QED
            BY <4>1 DEF HeldRight
      <3>3. \/ \E t \in Threads : Holds(t)'
            \/ (Len(all) - Len(stream) = f[Len(taken)])'
            \/ \A t \in Threads : pc'[t] = "gone"
          BY <2>3, <2>6, <3>1
      <3>4. OneHolds'
          BY <2>1, <3>1 DEF OneHolds
      <3>5. InPlace(all, f)'
          BY <2>4, <3>2, <3>3 DEF InPlace
      <3>6. QED
          BY <3>4, <3>5 DEF StepInv
    <2>7. QED
        BY <1>2, <2>5, <2>6
  <1>3. QED
      BY <1>1, <1>2

StandAt(b, all, h) == \A i \in 1 .. Len(b) : b[i] = all[h + i]

\* The bytes a thread has after a read that tears no packet are the first ones
\* of the next packet, and tell its length.
LEMMA NextBytes ==
    ASSUME TypeInv, AsksForTwo, OneHolds, NEW all, NEW f, InPlace(all, f),
           NEW t \in Threads, pc[t] = "read", ~ Holding(t), NEW k \in 1 .. Available(t),
           NEW b, b = buffer[t] \o SubSeq(stream, 1, k), Len(b) >= 2
    PROVE  /\ Len(taken) < Len(wrote)
           /\ Len(all) - Len(stream) = f[Len(taken)] + Len(buffer[t])
           /\ StandAt(b, all, f[Len(taken)])
           /\ Len(b) <= Len(Bytes(wrote[Len(taken) + 1]))
           /\ LengthIn(StringAt(b, memory[t])) = Len(Bytes(wrote[Len(taken) + 1]))
  <1>1. TypeOK /\ wrote \in Seq(Honest)
      BY DEF TypeInv
  <1>2. /\ Placed(wrote, all, f) /\ Unread(all) /\ TakenRight
        /\ Holds(t) => HeldRight(t, all, f)
        /\ \/ \E x \in Threads : Holds(x)
           \/ Len(all) - Len(stream) = f[Len(taken)]
           \/ \A x \in Threads : pc[x] = "gone"
      BY DEF InPlace
  <1>3. PICK n \in Nat : n = Len(taken)
      BY <1>1 DEF TypeOK
  <1>4. PICK w \in Nat : w = Len(wrote)
      BY <1>1
  <1>5. PICK s \in Nat : s = Len(stream)
      BY <1>1 DEF TypeOK
  <1>6. PICK a \in Nat : a = Len(all)
      BY <1>2 DEF Placed
  <1>7. PICK c \in Nat : c = Len(buffer[t])
      BY <1>1 DEF TypeOK
  <1>8. /\ k \in Nat \ {0} /\ k <= s /\ k <= packetLength[t] - c
        /\ b \in Seq(Units) /\ Len(b) = c + k
        /\ \A i \in 1 .. c : b[i] = buffer[t][i]
        /\ \A i \in 1 .. k : b[c + i] = stream[i]
    <2>1. /\ k \in Nat \ {0} /\ k <= Len(stream) /\ k <= packetLength[t] - Len(buffer[t])
          /\ b \in Seq(Units)
          /\ Len(b) = Len(buffer[t]) + k
          /\ \A i \in 1 .. Len(buffer[t]) : b[i] = buffer[t][i]
          /\ \A i \in 1 .. k : b[Len(buffer[t]) + i] = stream[i]
      <3>1. TypeOK /\ t \in Threads /\ k \in 1 .. Available(t)
          BY <1>1
      <3>2. QED
          BY <3>1, ReadSomePlaces
    <2>2. QED
        BY <1>5, <1>7, <2>1
  <1>9. f \in [0 .. w -> Nat] /\ n <= w /\ s <= a
        /\ \A i \in 1 .. s : stream[i] = all[a - s + i]
    <2>1. f \in [0 .. w -> Nat]
        BY <1>2, <1>4 DEF Placed
    <2>2. n <= w
        BY <1>2, <1>3, <1>4 DEF TakenRight
    <2>3. s <= a /\ \A i \in 1 .. s : stream[i] = all[a - s + i]
        BY <1>2, <1>5, <1>6 DEF Unread
    <2>4. QED
        BY <2>1, <2>2, <2>3
  <1>10. f[n] \in Nat
      BY <1>9
  <1>11. PICK g \in Nat : g = f[n]
      BY <1>10
  <1>12. /\ a - s = g + c
         /\ \A i \in 1 .. c : buffer[t][i] = all[g + i]
         /\ n < w
    <2>1. CASE Holds(t)
        BY <1>2, <1>3, <1>4, <1>5, <1>6, <1>7, <1>11, <2>1 DEF HeldRight
    <2>2. CASE ~ Holds(t)
      <3>1. buffer[t] = <<>> /\ c = 0
          BY <1>1, <1>7, <2>2 DEF Holds, TypeOK
      <3>2. \A x \in Threads : ~ Holds(x)
          BY <2>2 DEF Holds, Holding
      <3>3. a - s = g
          BY <1>2, <1>3, <1>5, <1>6, <1>11, <3>2
      <3>4. n # w
        <4>1. f[w] = a
            BY <1>2, <1>4, <1>6 DEF Placed
        <4>2. a > g
            BY <1>5, <1>6, <1>8, <3>3
        <4>3. QED
            BY <1>11, <4>1, <4>2
      <3>5. QED
          BY <1>9, <3>1, <3>3, <3>4
    <2>3. QED
        BY <2>1, <2>2
  <1>13. \A i \in 1 .. c + k : b[i] = all[g + i]
    <2>1. ASSUME NEW i \in 1 .. c + k PROVE b[i] = all[g + i]
      <3>1. CASE i <= c
          BY <1>8, <1>12, <3>1
      <3>2. CASE i > c
        <4>1. PICK j \in Nat : j \in 1 .. k /\ i = c + j
          <5>1. i - c \in 1 .. k /\ i = c + (i - c)
              BY <1>8, <3>2
          <5>2. QED
              BY <5>1
        <4>2. k \in Nat /\ k <= s /\ a - s = g + c
            BY <1>8, <1>12
        <4>3. b[i] = stream[j]
            BY <1>8, <4>1
        <4>4. j \in 1 .. s
            BY <4>1, <4>2
        <4>5. stream[j] = all[a - s + j]
            BY <1>9, <4>4
        <4>6. a - s + j = g + i
            BY <4>1, <4>2
        <4>7. QED
            BY <4>3, <4>5, <4>6
      <3>3. QED
          BY <1>8, <3>1, <3>2
    <2>2. QED
        BY <2>1
  <1>14. PICK p : p = wrote[n + 1]
      OBVIOUS
  <1>15. n + 1 \in 1 .. w /\ p \in Honest
    <2>1. n + 1 \in 1 .. w
        BY <1>12
    <2>2. QED
        BY <1>1, <1>4, <1>14, <2>1
  <1>16. PICK l \in Nat : l = Len(Bytes(p)) /\ l >= 3
      BY <1>15, HonestBytes
  <1>17. \A i \in 1 .. l : all[g + i] = Bytes(p)[i]
    <2>1. \A i \in 1 .. Len(Bytes(wrote[n + 1])) : all[f[(n + 1) - 1] + i] = Bytes(wrote[n + 1])[i]
        BY <1>2, <1>4, <1>15 DEF Placed
    <2>2. (n + 1) - 1 = n
        OBVIOUS
    <2>3. QED
        BY <1>11, <1>14, <1>16, <2>1, <2>2
  <1>18. b[1] = Bytes(p)[1] /\ b[2] = Bytes(p)[2]
    <2>1. 1 \in 1 .. l /\ 2 \in 1 .. l /\ 1 \in 1 .. c + k /\ 2 \in 1 .. c + k
        BY <1>8, <1>16
    <2>2. QED
        BY <1>13, <1>17, <2>1
  <1>19. LengthIn(StringAt(b, memory[t])) = l
    <2>1. PICK S : S = StringAt(b, memory[t])
        OBVIOUS
    <2>2. memory[t] \in Seq(Units)
        BY <1>1 DEF TypeOK
    <2>3. S \in Seq(Units) /\ Len(b) <= Len(S) /\ \A i \in 1 .. Len(b) : S[i] = b[i]
        BY <1>8, <2>1, <2>2, StringTyped
    <2>4. Len(S) \in Nat /\ Len(S) >= 2 /\ S[1] = b[1] /\ S[2] = b[2]
      <3>1. PICK y \in Nat, x \in Nat : y = Len(S) /\ x = Len(b)
          BY <1>8, <2>3
      <3>2. 2 <= x /\ x <= y /\ 1 \in 1 .. x /\ 2 \in 1 .. x
          BY <2>3, <3>1
      <3>3. \A i \in 1 .. x : S[i] = b[i]
          BY <2>3, <3>1
      <3>4. S[1] = b[1] /\ S[2] = b[2]
          BY <3>2, <3>3
      <3>5. Len(S) \in Nat /\ Len(S) >= 2
          BY <3>1, <3>2
      <3>6. QED
          BY <3>4, <3>5
    <2>5. QED
        BY <1>15, <1>16, <1>18, <2>1, <2>3, <2>4, LengthOfHonest
  <1>20. c + k <= l
    <2>1. packetLength[t] \in Nat
        BY <1>1 DEF TypeOK
    <2>2. CASE Holds(t)
      <3>1. packetLength[t] = l
          BY <1>2, <1>3, <1>14, <1>16, <2>2 DEF HeldRight
      <3>2. QED
          BY <1>8, <2>1, <3>1
    <2>3. CASE ~ Holds(t)
      <3>1. packetLength[t] = 2
          BY <2>3 DEF Holds, AsksForTwo
      <3>2. QED
          BY <1>8, <1>16, <3>1
    <2>4. QED
        BY <2>2, <2>3
  <1>21. StandAt(b, all, g)
      BY <1>8, <1>13 DEF StandAt
  <1>22. QED
      BY <1>3, <1>4, <1>5, <1>6, <1>7, <1>8, <1>11, <1>12, <1>14, <1>16, <1>19, <1>20, <1>21

LEMMA ReadSomeInStep ==
    ASSUME TypeInv, TypeInv', StepInv, NEW t \in Threads, ReadSome(t)
    PROVE  StepInv'
  <1> USE DEF peerVars
  <1>1. TypeOK /\ wrote \in Seq(Honest)
      BY DEF TypeInv
  <1>2. pc[t] = "read"
      BY DEF ReadSome
  <1>3. PICK k \in 1 .. Available(t) :
          LET b == buffer[t] \o SubSeq(stream, 1, k)
              L == LengthIn(StringAt(b, memory[t]))
          IN  /\ stream' = SubSeq(stream, k + 1, Len(stream))
              /\ buffer' = [buffer EXCEPT ![t] = b]
              /\ packetLength' = [packetLength EXCEPT ![t] = L]
              /\ torn' = (torn \/ Holding(t)) /\ shortHead' = (shortHead \/ Len(b) < 2)
              /\ IF L <= Len(b)
                 THEN Goto(t, "parse") /\ taken' = Append(taken, b)
                 ELSE UNCHANGED <<pc, taken>>
      BY DEF ReadSome
  <1>4. PICK b : b = buffer[t] \o SubSeq(stream, 1, k)
      OBVIOUS
  <1>5. PICK L : L = LengthIn(StringAt(b, memory[t]))
      OBVIOUS
  <1>6. /\ stream' = SubSeq(stream, k + 1, Len(stream))
        /\ buffer' = [buffer EXCEPT ![t] = b]
        /\ packetLength' = [packetLength EXCEPT ![t] = L]
        /\ torn' = (torn \/ Holding(t)) /\ shortHead' = (shortHead \/ Len(b) < 2)
        /\ IF L <= Len(b)
           THEN pc' = [pc EXCEPT ![t] = "parse"] /\ taken' = Append(taken, b)
           ELSE UNCHANGED <<pc, taken>>
      BY <1>3, <1>4, <1>5 DEF Goto
  <1>7. UNCHANGED wrote
      BY DEF ReadSome
  <1>8. /\ buffer'[t] = b /\ packetLength'[t] = L
        /\ pc'[t] = IF L <= Len(b) THEN "parse" ELSE "read"
        /\ \A x \in Threads \ {t} : pc'[x] = pc[x] /\ buffer'[x] = buffer[x]
                                       /\ packetLength'[x] = packetLength[x]
      BY <1>1, <1>2, <1>6 DEF TypeOK
  <1>9. /\ k \in Nat \ {0} /\ k <= Len(stream)
        /\ b \in Seq(Units) /\ Len(b) = Len(buffer[t]) + k
        /\ Len(stream') = Len(stream) - k
        /\ \A i \in 1 .. Len(stream) - k : stream'[i] = stream[k + i]
      BY <1>1, <1>4, <1>6, ReadSomePlaces
  <1>10. b # <<>>
    <2>1. Len(buffer[t]) \in Nat
        BY <1>1 DEF TypeOK
    <2>2. Len(b) # 0
        BY <1>9, <2>1
    <2>3. QED
        BY <2>2
  <1>11. AsksForTwo'
      BY <1>8, <1>10 DEF StepInv, AsksForTwo
  <1>12. CASE ~ InOneGo'
      BY <1>11, <1>12 DEF StepInv
  <1>13. CASE InOneGo'
    <2>1. Len(b) \in Nat
        BY <1>9
    <2>2. InOneGo /\ ~ Holding(t) /\ Len(b) >= 2
      <3>1. ~ torn /\ ~ shortHead /\ ~ Holding(t) /\ ~ (Len(b) < 2)
          BY <1>6, <1>13
      <3>2. ~ (Len(b) < 2)
          BY <3>1
      <3>3. Len(b) >= 2
          BY <2>1, <3>2
      <3>4. QED
          BY <3>1, <3>3
    <2>3. AsksForTwo /\ OneHolds /\ \E all, f : InPlace(all, f)
        BY <2>2 DEF StepInv
    <2>4. PICK all, f : InPlace(all, f)
        BY <2>3
    <2>5. PICK n \in Nat : n = Len(taken)
        BY <1>1 DEF TypeOK
    <2>6. PICK p : p = wrote[n + 1]
        OBVIOUS
    <2>7. /\ Len(taken) < Len(wrote)
          /\ Len(all) - Len(stream) = f[Len(taken)] + Len(buffer[t])
          /\ StandAt(b, all, f[Len(taken)])
          /\ Len(b) <= Len(Bytes(wrote[Len(taken) + 1]))
          /\ LengthIn(StringAt(b, memory[t])) = Len(Bytes(wrote[Len(taken) + 1]))
      <3>1. /\ AsksForTwo /\ OneHolds /\ InPlace(all, f) /\ pc[t] = "read" /\ ~ Holding(t)
            /\ b = buffer[t] \o SubSeq(stream, 1, k) /\ Len(b) >= 2
            /\ TypeInv /\ k \in 1 .. Available(t)
          BY <1>2, <1>4, <2>2, <2>3, <2>4
      <3>2. QED
          BY <3>1, NextBytes
    <2>8. /\ n < Len(wrote)
          /\ Len(all) - Len(stream) = f[n] + Len(buffer[t])
          /\ \A i \in 1 .. Len(b) : b[i] = all[f[n] + i]
          /\ Len(b) <= Len(Bytes(p)) /\ L = Len(Bytes(p))
        BY <1>5, <2>5, <2>6, <2>7 DEF StandAt
    <2>9. /\ Placed(wrote, all, f) /\ Unread(all) /\ TakenRight
        BY <2>4 DEF InPlace
    <2>10. Placed(wrote, all, f)'
        BY <1>7, <2>9
    <2>11. /\ Len(all) \in Nat /\ Len(stream) \in Nat /\ Len(wrote) \in Nat
           /\ Len(buffer[t]) \in Nat /\ f[n] \in Nat /\ p \in Honest /\ n + 1 \in 1 .. Len(wrote)
      <3>1. Len(all) \in Nat /\ Len(stream) \in Nat /\ Len(wrote) \in Nat /\ Len(buffer[t]) \in Nat
          BY <1>1, <2>9 DEF Placed, TypeOK
      <3>2. n + 1 \in 1 .. Len(wrote) /\ n \in 0 .. Len(wrote)
          BY <2>5, <2>8, <3>1
      <3>3. p \in Honest
          BY <1>1, <2>6, <3>2
      <3>4. f[n] \in Nat
          BY <2>9, <3>2 DEF Placed
      <3>5. QED
          BY <3>1, <3>2, <3>3, <3>4
    <2>12. Len(all) - Len(stream') = f[n] + Len(b)
      <3>1. PICK a \in Nat, s \in Nat, g \in Nat, c \in Nat :
               a = Len(all) /\ s = Len(stream) /\ g = f[n] /\ c = Len(buffer[t])
          BY <2>11
      <3>2. k \in Nat /\ Len(b) = c + k /\ Len(stream') = s - k /\ a - s = g + c
          BY <1>9, <2>8, <3>1
      <3>3. PICK d \in Nat : d = k
          BY <3>2
      <3>4. a - (s - d) = g + (c + d)
          BY <3>2
      <3>5. QED
          BY <3>1, <3>2, <3>3, <3>4
    <2>13. Unread(all)'
      <3>1. PICK a \in Nat, s \in Nat : a = Len(all) /\ s = Len(stream)
          BY <2>11
      <3>2. s <= a /\ \A i \in 1 .. s : stream[i] = all[a - s + i]
          BY <2>9, <3>1 DEF Unread
      <3>3. Len(stream') = s - k /\ s - k <= a
          BY <1>9, <3>1, <3>2
      <3>4. ASSUME NEW i \in 1 .. s - k PROVE stream'[i] = all[a - (s - k) + i]
        <4>1. k + i \in 1 .. s /\ a - s + (k + i) = a - (s - k) + i
            BY <1>9, <3>1
        <4>2. stream'[i] = stream[k + i]
            BY <1>9, <3>1
        <4>3. stream[k + i] = all[a - s + (k + i)]
            BY <3>2, <4>1
        <4>4. QED
            BY <4>1, <4>2, <4>3
      <3>5. QED
          BY <3>1, <3>3, <3>4 DEF Unread
    <2>14. \A x \in Threads \ {t} : ~ Holds(x) /\ ~ Holds(x)'
        BY <1>8, <2>2 DEF Holds, Holding
    <2>15. OneHolds'
        BY <2>14 DEF OneHolds
    <2>16. CASE L <= Len(b)
      <3>1. Len(b) = Len(Bytes(p))
          BY <2>1, <2>8, <2>16
      <3>2. Bytes(p) \in Seq(Units) /\ \A i \in 1 .. Len(Bytes(p)) : all[f[n] + i] = Bytes(p)[i]
        <4>1. Bytes(p) \in Seq(Units)
            BY <2>11, HonestBytes
        <4>2. \A i \in 1 .. Len(Bytes(wrote[n + 1])) :
                 all[f[(n + 1) - 1] + i] = Bytes(wrote[n + 1])[i]
            BY <2>9, <2>11 DEF Placed
        <4>3. (n + 1) - 1 = n
            OBVIOUS
        <4>4. QED
            BY <2>6, <4>1, <4>2, <4>3
      <3>3. b = Bytes(p)
          BY <1>9, <2>8, <3>1, <3>2, SeqEqual
      <3>4. taken' = Append(taken, b)
          BY <1>6, <2>16
      <3>5. Len(taken') = n + 1 /\ taken'[n + 1] = b /\ \A i \in 1 .. n : taken'[i] = taken[i]
        <4>1. taken \in Seq(Seq(Units))
            BY <1>1 DEF TypeOK
        <4>2. QED
            BY <1>9, <2>5, <3>4, <4>1, AppendProperties
      <3>6. TakenRight'
        <4>1. ASSUME NEW i \in 1 .. n + 1 PROVE taken'[i] = Bytes(wrote[i])
          <5>1. CASE i = n + 1
              BY <2>6, <3>3, <3>5, <5>1
          <5>2. CASE i # n + 1
            <6>1. i \in 1 .. n
                BY <5>2
            <6>2. QED
                BY <2>5, <2>9, <3>5, <6>1 DEF TakenRight
          <5>3. QED
              BY <5>1, <5>2
        <4>2. n + 1 <= Len(wrote)
            BY <2>11
        <4>3. QED
            BY <1>7, <3>5, <4>1, <4>2 DEF TakenRight
      <3>7. \A x \in Threads : ~ Holds(x)'
          BY <1>8, <2>14, <2>16 DEF Holds
      <3>8. (Len(all) - Len(stream) = f[Len(taken)])'
        <4>1. f[n + 1] = f[(n + 1) - 1] + Len(Bytes(wrote[n + 1]))
            BY <2>9, <2>11 DEF Placed
        <4>2. (n + 1) - 1 = n
            OBVIOUS
        <4>3. QED
            BY <2>6, <2>12, <3>1, <3>5, <4>1, <4>2
      <3>9. InPlace(all, f)'
          BY <2>10, <2>13, <3>6, <3>7, <3>8 DEF InPlace
      <3>10. QED
          BY <1>11, <2>15, <3>9 DEF StepInv
    <2>17. CASE ~ (L <= Len(b))
      <3>1. UNCHANGED <<pc, taken>>
          BY <1>6, <2>17
      <3>2. TakenRight'
          BY <1>7, <2>9, <3>1 DEF TakenRight
      <3>3. Holds(t)'
          BY <1>2, <1>8, <1>10, <3>1 DEF Holds
      <3>4. HeldRight(t, all, f)'
          BY <1>7, <1>8, <2>2, <2>5, <2>6, <2>8, <2>12, <3>1 DEF HeldRight
      <3>5. InPlace(all, f)'
          BY <2>10, <2>13, <2>14, <3>2, <3>3, <3>4 DEF InPlace
      <3>6. QED
          BY <1>11, <2>15, <3>5 DEF StepInv
    <2>18. QED
        BY <2>16, <2>17
  <1>14. QED
      BY <1>12, <1>13

\* The peer adds a packet at the end.
LEMMA PlacedMore ==
    ASSUME NEW w \in Seq(Honest), NEW all, NEW f, Placed(w, all, f), NEW p \in Honest
    PROVE  \E g : /\ Placed(Append(w, p), all \o Bytes(p), g)
                  /\ \A k \in 0 .. Len(w) : g[k] = f[k]
  <1>1. PICK m \in Nat : m = Len(w)
      OBVIOUS
  <1>2. PICK y : y = Bytes(p)
      OBVIOUS
  <1>3. y \in Seq(Units) /\ Len(y) \in Nat
      BY <1>2, HonestBytes
  <1>4. /\ all \in Seq(Units) /\ f \in [0 .. m -> Nat] /\ f[0] = 0 /\ f[m] = Len(all)
        /\ \A k \in 0 .. m : f[k] <= Len(all)
        /\ \A k \in 1 .. m :
              /\ f[k] = f[k - 1] + Len(Bytes(w[k]))
              /\ \A i \in 1 .. Len(Bytes(w[k])) : all[f[k - 1] + i] = Bytes(w[k])[i]
      BY <1>1 DEF Placed
  <1>5. PICK v : v = Append(w, p)
      OBVIOUS
  <1>6. Len(v) = m + 1 /\ v[m + 1] = p /\ \A k \in 1 .. m : v[k] = w[k]
      BY <1>1, <1>5, AppendProperties
  <1>7. PICK z : z = all \o y
      OBVIOUS
  <1>8. /\ z \in Seq(Units) /\ Len(all) \in Nat /\ Len(z) = Len(all) + Len(y)
        /\ \A i \in 1 .. Len(all) : z[i] = all[i]
        /\ \A i \in 1 .. Len(y) : z[Len(all) + i] = y[i]
    <2>1. all \in Seq(Units) /\ y \in Seq(Units)
        BY <1>3, <1>4
    <2>2. /\ all \o y \in Seq(Units) /\ Len(all) \in Nat /\ Len(all \o y) = Len(all) + Len(y)
          /\ \A i \in 1 .. Len(all) : (all \o y)[i] = all[i]
          /\ \A i \in 1 .. Len(y) : (all \o y)[Len(all) + i] = y[i]
        BY <2>1, ConcatPlaces
    <2>3. QED
        BY <1>7, <2>2
  <1>9. PICK g : g = [k \in 0 .. m + 1 |-> IF k = m + 1 THEN Len(all) + Len(y) ELSE f[k]]
      OBVIOUS
  <1>10. g \in [0 .. m + 1 -> Nat] /\ g[m + 1] = Len(all) + Len(y)
           /\ \A k \in 0 .. m : g[k] = f[k]
    <2>1. \A k \in 0 .. m + 1 : k # m + 1 => k \in 0 .. m
        OBVIOUS
    <2>2. Len(all) + Len(y) \in Nat
        BY <1>3, <1>8
    <2>3. \A k \in 0 .. m : k \in 0 .. m + 1 /\ k # m + 1
        OBVIOUS
    <2>4. m + 1 \in 0 .. m + 1
        OBVIOUS
    <2>5. \A k \in 0 .. m : g[k] = f[k]
        BY <1>9, <2>3
    <2>6. g[m + 1] = Len(all) + Len(y)
        BY <1>9, <2>4
    <2>7. \A k \in 0 .. m : f[k] \in Nat
        BY <1>4
    <2>8. g \in [0 .. m + 1 -> Nat]
        BY <1>9, <2>1, <2>2, <2>7
    <2>9. QED
        BY <2>5, <2>6, <2>8
  <1>11. ASSUME NEW k \in 1 .. m
         PROVE  /\ g[k] = g[k - 1] + Len(Bytes(v[k]))
                /\ \A i \in 1 .. Len(Bytes(v[k])) : z[g[k - 1] + i] = Bytes(v[k])[i]
    <2>1. k \in 0 .. m /\ k - 1 \in 0 .. m
        OBVIOUS
    <2>2. g[k] = f[k] /\ g[k - 1] = f[k - 1] /\ v[k] = w[k]
        BY <1>6, <1>10, <2>1
    <2>3. PICK c : c = Bytes(w[k])
        OBVIOUS
    <2>4. PICK h : h = f[k - 1]
        OBVIOUS
    <2>5. f[k] = h + Len(c) /\ \A i \in 1 .. Len(c) : all[h + i] = c[i]
        BY <1>4, <2>3, <2>4
    <2>6. h \in Nat /\ f[k] \in Nat /\ Len(c) \in Nat
      <3>1. w[k] \in Honest
          BY <1>1
      <3>2. QED
          BY <1>4, <2>1, <2>3, <2>4, <3>1, HonestBytes
    <2>7. f[k] <= Len(all)
        BY <1>4, <2>1
    <2>8. ASSUME NEW i \in 1 .. Len(c) PROVE z[h + i] = c[i]
      <3>1. h + i \in 1 .. Len(all)
          BY <1>8, <2>5, <2>6, <2>7
      <3>2. QED
          BY <1>8, <2>5, <3>1
    <2>9. QED
        BY <2>2, <2>3, <2>4, <2>5, <2>8
  <1>12. /\ g[m + 1] = g[m] + Len(y)
         /\ \A i \in 1 .. Len(y) : z[g[m] + i] = y[i]
    <2>1. g[m] = Len(all)
        BY <1>4, <1>10
    <2>2. QED
        BY <1>8, <1>10, <2>1
  <1>13. ASSUME NEW k \in 1 .. m + 1
         PROVE  /\ g[k] = g[k - 1] + Len(Bytes(v[k]))
                /\ \A i \in 1 .. Len(Bytes(v[k])) : z[g[k - 1] + i] = Bytes(v[k])[i]
    <2>1. CASE k = m + 1
      <3>1. v[k] = p /\ k - 1 = m
          BY <1>6, <2>1
      <3>2. QED
          BY <1>2, <1>12, <2>1, <3>1
    <2>2. CASE k # m + 1
      <3>1. k \in 1 .. m
          BY <2>2
      <3>2. QED
          BY <1>11, <3>1
    <2>3. QED
        BY <2>1, <2>2
  <1>14. \A k \in 0 .. m + 1 : g[k] <= Len(z)
    <2>1. ASSUME NEW k \in 0 .. m + 1 PROVE g[k] <= Len(z)
      <3>1. PICK a \in Nat, c \in Nat : a = Len(all) /\ c = Len(y)
          BY <1>3, <1>8
      <3>2. CASE k = m + 1
          BY <1>8, <1>10, <3>1, <3>2
      <3>3. CASE k # m + 1
        <4>1. k \in 0 .. m
            BY <3>3
        <4>2. f[k] \in Nat /\ f[k] <= a /\ g[k] = f[k]
            BY <1>4, <1>10, <3>1, <4>1
        <4>3. Len(z) = a + c
            BY <1>8, <3>1
        <4>4. QED
            BY <4>2, <4>3
      <3>4. QED
          BY <3>2, <3>3
    <2>2. QED
        BY <2>1
  <1>15. g[0] = 0 /\ g[m + 1] = Len(z)
      BY <1>4, <1>8, <1>10
  <1>16. Placed(v, z, g)
      BY <1>6, <1>8, <1>10, <1>13, <1>14, <1>15 DEF Placed
  <1>17. QED
      BY <1>1, <1>2, <1>5, <1>7, <1>10, <1>16

LEMMA PeerWritesInStep ==
    ASSUME TypeInv, StepInv, NEW p \in Honest, PeerWrites(p)
    PROVE  StepInv'
  <1> USE DEF readVars, callVars
  <1>1. TypeOK /\ wrote \in Seq(Honest)
      BY DEF TypeInv
  <1>2. /\ stream' = stream \o Bytes(p) /\ wrote' = Append(wrote, p)
        /\ UNCHANGED <<pc, buffer, packetLength, taken, torn, shortHead>>
      BY DEF PeerWrites
  <1>3. AsksForTwo'
      BY <1>2 DEF StepInv, AsksForTwo
  <1>4. CASE ~ InOneGo
      BY <1>2, <1>3, <1>4 DEF StepInv
  <1>5. CASE InOneGo
    <2>1. OneHolds /\ \E all, f : InPlace(all, f)
        BY <1>5 DEF StepInv
    <2>2. PICK all, f : InPlace(all, f)
        BY <2>1
    <2>3. /\ Placed(wrote, all, f) /\ Unread(all) /\ TakenRight
          /\ \A t \in Threads : Holds(t) => HeldRight(t, all, f)
          /\ \/ \E t \in Threads : Holds(t)
             \/ Len(all) - Len(stream) = f[Len(taken)]
             \/ \A t \in Threads : pc[t] = "gone"
        BY <2>2 DEF InPlace
    <2>4. PICK g : /\ Placed(Append(wrote, p), all \o Bytes(p), g)
                   /\ \A k \in 0 .. Len(wrote) : g[k] = f[k]
        BY <1>1, <2>3, PlacedMore
    <2>5. PICK y : y = Bytes(p)
        OBVIOUS
    <2>6. PICK z : z = all \o y
        OBVIOUS
    <2>7. PICK a \in Nat, s \in Nat, l \in Nat, m \in Nat, n \in Nat :
             /\ a = Len(all) /\ s = Len(stream) /\ l = Len(y)
             /\ m = Len(wrote) /\ n = Len(taken)
      <3>1. y \in Seq(Units)
          BY <2>5, HonestBytes
      <3>2. all \in Seq(Units) /\ stream \in Seq(Units) /\ taken \in Seq(Seq(Units))
          BY <1>1, <2>3 DEF Placed, TypeOK
      <3>3. /\ Len(all) \in Nat /\ Len(stream) \in Nat /\ Len(y) \in Nat
            /\ Len(wrote) \in Nat /\ Len(taken) \in Nat
          BY <1>1, <3>1, <3>2
      <3>4. QED
          BY <3>3
    <2>8. y \in Seq(Units) /\ all \in Seq(Units) /\ stream \in Seq(Units)
        BY <1>1, <2>3, <2>5, HonestBytes DEF Placed, TypeOK
    <2>9. Len(z) = a + l /\ (\A i \in 1 .. a : z[i] = all[i])
             /\ \A i \in 1 .. l : z[a + i] = y[i]
      <3>1. all \in Seq(Units) /\ y \in Seq(Units)
          BY <2>8
      <3>2. /\ Len(all \o y) = Len(all) + Len(y)
            /\ \A i \in 1 .. Len(all) : (all \o y)[i] = all[i]
            /\ \A i \in 1 .. Len(y) : (all \o y)[Len(all) + i] = y[i]
          BY <3>1, ConcatPlaces
      <3>3. QED
          BY <2>6, <2>7, <3>2
    <2>10. PICK x : x = stream \o y
        OBVIOUS
    <2>11. Len(x) = s + l /\ (\A i \in 1 .. s : x[i] = stream[i])
              /\ \A i \in 1 .. l : x[s + i] = y[i]
      <3>1. stream \in Seq(Units) /\ y \in Seq(Units)
          BY <2>8
      <3>2. /\ Len(stream \o y) = Len(stream) + Len(y)
            /\ \A i \in 1 .. Len(stream) : (stream \o y)[i] = stream[i]
            /\ \A i \in 1 .. Len(y) : (stream \o y)[Len(stream) + i] = y[i]
          BY <3>1, ConcatPlaces
      <3>3. QED
          BY <2>7, <2>10, <3>2
    <2>12. stream' = x /\ Placed(wrote, z, g)'
        BY <1>2, <2>4, <2>5, <2>6, <2>10
    <2>13. s <= a /\ \A i \in 1 .. s : stream[i] = all[a - s + i]
        BY <2>3, <2>7 DEF Unread
    <2>14. Unread(z)'
      <3>1. ASSUME NEW i \in 1 .. s + l PROVE x[i] = z[(a + l) - (s + l) + i]
        <4>1. CASE i <= s
          <5>1. i \in 1 .. s /\ a - s + i \in 1 .. a /\ (a + l) - (s + l) + i = a - s + i
              BY <2>13, <4>1
          <5>2. x[i] = stream[i] /\ stream[i] = all[a - s + i] /\ z[a - s + i] = all[a - s + i]
              BY <2>9, <2>11, <2>13, <5>1
          <5>3. QED
              BY <5>1, <5>2
        <4>2. CASE i > s
          <5>1. PICK j \in Nat : j = i - s
              BY <4>2
          <5>2. j \in 1 .. l /\ i = s + j /\ (a + l) - (s + l) + i = a + j
              BY <4>2, <5>1
          <5>3. x[i] = y[j] /\ z[a + j] = y[j]
              BY <2>9, <2>11, <5>2
          <5>4. QED
              BY <5>2, <5>3
        <4>3. QED
            BY <4>1, <4>2
      <3>2. s + l <= a + l
          BY <2>13
      <3>3. Len(x) = s + l /\ Len(z) = a + l
          BY <2>9, <2>11
      <3>4. QED
          BY <2>12, <3>1, <3>2, <3>3 DEF Unread
    <2>15. Len(wrote') = m + 1 /\ \A k \in 1 .. m : wrote'[k] = wrote[k]
        BY <1>1, <1>2, <2>7, AppendProperties
    <2>16. n <= m /\ \A i \in 1 .. n : taken[i] = Bytes(wrote[i])
        BY <2>3, <2>7 DEF TakenRight
    <2>17. TakenRight'
      <3>1. \A i \in 1 .. n : wrote'[i] = wrote[i]
          BY <2>15, <2>16
      <3>2. n <= m + 1
          BY <2>16
      <3>3. QED
          BY <1>2, <2>7, <2>15, <2>16, <3>1, <3>2 DEF TakenRight
    <2>18. \A t \in Threads : Holds(t)' <=> Holds(t)
        BY <1>2 DEF Holds
    <2>19. Len(z) - Len(stream') = a - s
      <3>1. (a + l) - (s + l) = a - s
          OBVIOUS
      <3>2. QED
          BY <2>9, <2>11, <2>12, <3>1
    <2>20. g[n] = f[n]
        BY <2>4, <2>7, <2>16
    <2>21. ASSUME NEW t \in Threads, Holds(t)' PROVE HeldRight(t, z, g)'
      <3>1. HeldRight(t, all, f)
          BY <2>3, <2>18, <2>21
      <3>2. PICK c \in Nat, h \in Nat : c = Len(buffer[t]) /\ h = f[n]
        <4>1. n \in 0 .. m /\ f \in [0 .. m -> Nat]
            BY <2>3, <2>7, <2>16 DEF Placed
        <4>2. f[n] \in Nat
            BY <4>1
        <4>3. Len(buffer[t]) \in Nat
            BY <1>1 DEF TypeOK
        <4>4. QED
            BY <4>2, <4>3
      <3>3. /\ n < m /\ c >= 2 /\ a - s = h + c
            /\ \A i \in 1 .. c : buffer[t][i] = all[h + i]
            /\ packetLength[t] = Len(Bytes(wrote[n + 1]))
        <4>1. n < m /\ c >= 2
            BY <2>7, <3>1, <3>2 DEF HeldRight
        <4>2. a - s = h + c
            BY <2>7, <3>1, <3>2 DEF HeldRight
        <4>3. \A i \in 1 .. c : buffer[t][i] = all[h + i]
            BY <2>7, <3>1, <3>2 DEF HeldRight
        <4>4. packetLength[t] = Len(Bytes(wrote[n + 1]))
            BY <2>7, <3>1 DEF HeldRight
        <4>5. QED
            BY <4>1, <4>2, <4>3, <4>4
      <3>4. ASSUME NEW i \in 1 .. c PROVE buffer[t][i] = z[h + i]
        <4>1. h + i \in 1 .. a
            BY <2>13, <3>3
        <4>2. buffer[t][i] = all[h + i]
            BY <3>3
        <4>3. z[h + i] = all[h + i]
            BY <2>9, <4>1
        <4>4. QED
            BY <4>2, <4>3
      <3>5. n + 1 \in 1 .. m /\ n < m + 1
          BY <3>3
      <3>6. wrote'[n + 1] = wrote[n + 1]
          BY <2>15, <3>5
      <3>7. QED
          BY <1>2, <2>7, <2>15, <2>19, <2>20, <3>2, <3>3, <3>4, <3>5, <3>6 DEF HeldRight
    <2>22. \/ \E t \in Threads : Holds(t)'
           \/ (Len(z) - Len(stream) = g[Len(taken)])'
           \/ \A t \in Threads : pc'[t] = "gone"
        BY <1>2, <2>3, <2>7, <2>18, <2>19, <2>20
    <2>23. InPlace(z, g)'
        BY <2>12, <2>14, <2>17, <2>21, <2>22 DEF InPlace
    <2>24. OneHolds'
        BY <2>1, <2>18 DEF OneHolds
    <2>25. QED
        BY <1>3, <2>23, <2>24 DEF StepInv
  <1>6. QED
      BY <1>4, <1>5

\* A thread that is not reading goes on, or begins to read.
LEMMA AsideInStep ==
    ASSUME TypeInv, StepInv, NEW t \in Threads, pc[t] \notin {"read", "gone"},
           UNCHANGED <<stream, taken, wrote, torn, shortHead>>,
           \/ StartReading(t)
           \/ /\ UNCHANGED <<buffer, packetLength>>
              /\ \/ UNCHANGED pc
                 \/ \E step \in {"idle", "scan", "parse", "judge", "gone"} :
                       pc' = [pc EXCEPT ![t] = step]
    PROVE  StepInv'
  <1>1. TypeOK
      BY DEF TypeInv
  <1>2. CASE StartReading(t)
    <2>1. /\ pc'[t] = "read" /\ buffer'[t] = <<>> /\ packetLength'[t] = 2
          /\ \A x \in Threads \ {t} : pc'[x] = pc[x] /\ buffer'[x] = buffer[x]
                                         /\ packetLength'[x] = packetLength[x]
        BY <1>1, <1>2 DEF StartReading, Goto, TypeOK
    <2>2. AsksForTwo'
        BY <2>1 DEF StepInv, AsksForTwo
    <2>3. \A x \in Threads :
             /\ (pc'[x] = "read" /\ buffer'[x] # <<>>) <=> Holds(x)
             /\ Holds(x) => buffer'[x] = buffer[x] /\ packetLength'[x] = packetLength[x]
             /\ pc[x] = "gone" => pc'[x] = "gone"
        BY <2>1 DEF Holds
    <2>4. QED
        BY <2>2, <2>3, QuietInStep
  <1>3. CASE /\ UNCHANGED <<buffer, packetLength>>
             /\ \/ UNCHANGED pc
                \/ \E step \in {"idle", "scan", "parse", "judge", "gone"} :
                      pc' = [pc EXCEPT ![t] = step]
    <2>1. /\ pc'[t] # "read"
          /\ \A x \in Threads \ {t} : pc'[x] = pc[x]
        BY <1>1, <1>3 DEF TypeOK
    <2>2. AsksForTwo'
        BY <1>3, <2>1 DEF StepInv, AsksForTwo
    <2>3. \A x \in Threads :
             /\ (pc'[x] = "read" /\ buffer'[x] # <<>>) <=> Holds(x)
             /\ Holds(x) => buffer'[x] = buffer[x] /\ packetLength'[x] = packetLength[x]
             /\ pc[x] = "gone" => pc'[x] = "gone"
        BY <1>3, <2>1 DEF Holds
    <2>4. QED
        BY <2>2, <2>3, QuietInStep
  <1>4. QED
      BY <1>2, <1>3

\* A read that returns nothing tears what the thread holds.
LEMMA QuietReadInStep ==
    ASSUME TypeInv, StepInv, NEW t \in Threads, ReadTimesOut(t) \/ ReadNothing(t) \/ ReadCutOff(t)
    PROVE  StepInv'
  <1> USE DEF readVars, callVars, peerVars
  <1>1. TypeOK
      BY DEF TypeInv
  <1>2. pc[t] = "read" /\ UNCHANGED <<stream, taken, wrote, buffer>>
      BY DEF ReadTimesOut, ReadNothing, ReadCutOff
  <1>3. ASSUME HelperFails(t)
        PROVE  pc'[t] \in {"gone", "scan"} /\ \A x \in Threads \ {t} : pc'[x] = pc[x]
      BY <1>1, <1>3 DEF HelperFails, Goto, TypeOK
  <1>4. CASE ReadCutOff(t)
    <2>1. torn' /\ pc'[t] = "parse"
             /\ \A x \in Threads \ {t} : pc'[x] = pc[x] /\ packetLength'[x] = packetLength[x]
        BY <1>1, <1>4 DEF ReadCutOff, Goto, TypeOK
    <2>2. AsksForTwo'
        BY <1>2, <2>1 DEF StepInv, AsksForTwo
    <2>3. QED
        BY <2>1, <2>2 DEF StepInv
  <1>5. CASE ReadTimesOut(t)
    <2>1. /\ torn' = (torn \/ buffer[t] # <<>>) /\ UNCHANGED <<packetLength, shortHead>>
          /\ pc'[t] \in {"gone", "scan"} /\ \A x \in Threads \ {t} : pc'[x] = pc[x]
        BY <1>3, <1>5 DEF ReadTimesOut
    <2>2. AsksForTwo'
        BY <1>2, <2>1 DEF StepInv, AsksForTwo
    <2>3. CASE buffer[t] # <<>>
        BY <2>1, <2>2, <2>3 DEF StepInv
    <2>4. CASE buffer[t] = <<>>
      <3>1. \A x \in Threads :
               /\ (pc'[x] = "read" /\ buffer'[x] # <<>>) <=> Holds(x)
               /\ Holds(x) => buffer'[x] = buffer[x] /\ packetLength'[x] = packetLength[x]
               /\ pc[x] = "gone" => pc'[x] = "gone"
          BY <1>2, <2>1, <2>4 DEF Holds
      <3>2. InOneGo' => InOneGo
          BY <2>1
      <3>3. QED
          BY <1>2, <2>2, <3>1, <3>2, QuietInStep
    <2>5. QED
        BY <2>3, <2>4
  <1>6. CASE ReadNothing(t)
    <2>1. UNCHANGED <<packetLength, torn, shortHead>> /\ buffer[t] = <<>>
        BY <1>6 DEF ReadNothing
    <2>2. \/ \A x \in Threads : pc'[x] = "gone"
          \/ pc'[t] \in {"gone", "scan"} /\ \A x \in Threads \ {t} : pc'[x] = pc[x]
        BY <1>3, <1>6 DEF ReadNothing
    <2>3. CASE \A x \in Threads : pc'[x] = "gone"
      <3>1. AsksForTwo'
          BY <2>3 DEF AsksForTwo
      <3>2. QED
          BY <1>2, <2>1, <2>3, <3>1, QuietInStep
    <2>4. CASE pc'[t] \in {"gone", "scan"} /\ \A x \in Threads \ {t} : pc'[x] = pc[x]
      <3>1. AsksForTwo'
          BY <1>2, <2>1, <2>4 DEF StepInv, AsksForTwo
      <3>2. \A x \in Threads :
               /\ (pc'[x] = "read" /\ buffer'[x] # <<>>) <=> Holds(x)
               /\ Holds(x) => buffer'[x] = buffer[x] /\ packetLength'[x] = packetLength[x]
               /\ pc[x] = "gone" => pc'[x] = "gone"
          BY <1>2, <2>1, <2>4 DEF Holds
      <3>3. QED
          BY <1>2, <2>1, <3>1, <3>2, QuietInStep
    <2>5. QED
        BY <2>2, <2>3, <2>4
  <1>7. QED
      BY <1>4, <1>5, <1>6

\* Every step, with the types of the state it leads to.
LEMMA InStepKept == TypeInv /\ TypeInv' /\ StepInv /\ [Next]_vars => StepInv'
  <1> SUFFICES ASSUME TypeInv, TypeInv', StepInv, [Next]_vars PROVE StepInv'
      OBVIOUS
  <1> USE DEF readVars, callVars, peerVars
  <1>1. ASSUME NEW t \in Threads, Helper(t) PROVE StepInv'
    <2>1. CASE ReadSome(t)
        BY <2>1, ReadSomeInStep
    <2>2. CASE ReadTimesOut(t) \/ ReadNothing(t) \/ ReadCutOff(t)
        BY <2>2, QuietReadInStep
    <2>3. CASE Parse(t)
      <3>1. /\ pc[t] = "parse" /\ UNCHANGED <<stream, taken, wrote, torn, shortHead, buffer, packetLength>>
            /\ \E step \in {"idle", "scan", "parse", "judge", "gone"} :
                  pc' = [pc EXCEPT ![t] = step]
          BY <2>3 DEF Parse, HelperFails, Goto
      <3>2. QED
          BY <3>1, AsideInStep
    <2>4. QED
        BY <1>1, <2>1, <2>2, <2>3 DEF Helper
  <1>2. ASSUME NEW t \in Receivers, ReceiverStep(t) PROVE StepInv'
    <2>1. t \in Threads /\ pc[t] \in {"idle", "judge"}
        BY <1>2 DEF Threads, ReceiverStep, ReadSocket, KeepAck, AckOverflows, AckMessage
    <2>2. /\ UNCHANGED <<stream, taken, wrote, torn, shortHead>>
          /\ \/ StartReading(t)
             \/ /\ UNCHANGED <<buffer, packetLength>>
                /\ \/ UNCHANGED pc
                   \/ \E step \in {"idle", "scan", "parse", "judge", "gone"} :
                         pc' = [pc EXCEPT ![t] = step]
        BY <1>2 DEF ReceiverStep, ReadSocket, KeepAck, AckOverflows, AckMessage, Goto
    <2>3. QED
        BY <2>1, <2>2, AsideInStep
  <1>3. ASSUME NEW t \in Requesters, RequesterStep(t) PROVE StepInv'
    <2>1. t \in Threads /\ pc[t] \in {"idle", "judge", "scan"}
        BY <1>3 DEF Threads, RequesterStep, SendRequest, Scan, JudgeAck
    <2>2. /\ UNCHANGED <<stream, taken, wrote, torn, shortHead>>
          /\ \/ StartReading(t)
             \/ /\ UNCHANGED <<buffer, packetLength>>
                /\ \/ UNCHANGED pc
                   \/ \E step \in {"idle", "scan", "parse", "judge", "gone"} :
                         pc' = [pc EXCEPT ![t] = step]
        BY <1>3 DEF RequesterStep, SendRequest, Scan, JudgeAck, Goto
    <2>3. QED
        BY <2>1, <2>2, AsideInStep
  <1>4. CASE PeerSays \/ PeerAcks
    <2>1. PICK p \in Honest : PeerWrites(p)
        BY <1>4, PeerSaysHonest
    <2>2. QED
        BY <2>1, PeerWritesInStep
  <1>5. CASE PeerCloses \/ UNCHANGED vars
    <2>1. UNCHANGED <<stream, taken, wrote, torn, shortHead, pc, buffer, packetLength>>
        BY <1>5 DEF PeerCloses, vars
    <2>2. AsksForTwo'
        BY <2>1 DEF StepInv, AsksForTwo
    <2>3. \A x \in Threads :
             /\ (pc'[x] = "read" /\ buffer'[x] # <<>>) <=> Holds(x)
             /\ Holds(x) => buffer'[x] = buffer[x] /\ packetLength'[x] = packetLength[x]
             /\ pc[x] = "gone" => pc'[x] = "gone"
        BY <2>1 DEF Holds
    <2>4. QED
        BY <2>1, <2>2, <2>3, QuietInStep
  <1>6. QED
      BY <1>1, <1>2, <1>3, <1>4, <1>5 DEF Next, Peer

LEMMA StepsRight == TypeInv /\ StepInv => InStep
  <1> SUFFICES ASSUME TypeInv, StepInv, InOneGo, NEW i \in DOMAIN taken
               PROVE  i \in DOMAIN wrote /\ taken[i] = Bytes(wrote[i])
      BY DEF InStep
  <1>1. TakenRight
      BY DEF StepInv, InPlace
  <1>2. i \in 1 .. Len(taken) /\ Len(taken) \in Nat /\ Len(wrote) \in Nat
           /\ DOMAIN wrote = 1 .. Len(wrote)
      BY DEF TypeInv, TypeOK
  <1>3. QED
      BY <1>1, <1>2 DEF TakenRight

\* However many threads read, whatever text the packets carry and whatever
\* pieces read() hands out from the head of each on: as long as no packet is torn
\* between threads, cut off, or begun with less than its head, the texts
\* read_socket_helper takes for packets are the packets of the peer, the first
\* to the first, and none is cut differently.
THEOREM KeepsStep == Spec => []InStep
  <1>1. Spec => []StepInv
    <2>1. Init => StepInv
        BY InitInStep
    <2>2. TypeInv /\ TypeInv' /\ StepInv /\ [Next]_vars => StepInv'
        BY InStepKept
    <2>3. QED
        BY <2>1, <2>2, TypedAlways, PTL DEF Spec
  <1>2. TypeInv /\ StepInv => InStep
      BY StepsRight
  <1>3. QED
      BY <1>1, <1>2, TypedAlways, PTL

-----------------------------------------------------------------------------
(* What is read is what was sent.  A text that stays in step is parsed to   *)
(* a packet of that text, unless the variable held another one; such a      *)
(* packet is good.  Only good packets are judged, kept, returned and        *)
(* acknowledged.                                                            *)

Good == {p \in Packet : p.reused \/ \E w \in ToSet(wrote) : AsSent(p, w)}

HasPacket(t) ==
    \E k \in DOMAIN wrote : buffer[t] = Bytes(wrote[k]) /\ packetLength[t] = Len(buffer[t])

Judges(t) == pc[t] = "judge" \/ (t \in Requesters /\ outcome[t] = "found")

Contents ==
    /\ \A t \in Threads : pc[t] = "parse" => HasPacket(t)
    /\ \A t \in Threads : Judges(t) => pkt[t] \in Good
    /\ bufferPkts \in Seq(Good)
    /\ delivered \subseteq Good
    /\ \A p \in written : p.reused \/ p.content_len = Len(Bytes(p))

ContentsInv == InOneGo => Contents

LEMMA InitContents == Init => ContentsInv
  <1> SUFFICES ASSUME Init PROVE Contents
      BY DEF ContentsInv
  <1>1. \A t \in Threads : pc[t] # "parse" /\ ~ Judges(t)
      BY DEF Init, Judges, Threads
  <1>2. bufferPkts \in Seq(Good) /\ delivered = {} /\ written = {}
      BY DEF Init
  <1>3. QED
      BY <1>1, <1>2 DEF Contents

\* A good packet that is no mixture states its length, and so does its ACK.
LEMMA GoodAck ==
    ASSUME TypeInv, NEW p \in Good
    PROVE  AckOf(p).reused \/ AckOf(p).content_len = Len(Bytes(AckOf(p)))
  <1>1. p \in Packet
      BY DEF Good
  <1>2. CASE p.reused
      BY <1>1, <1>2, AckLength
  <1>3. CASE \E w \in ToSet(wrote) : AsSent(p, w)
    <2>1. PICK w \in Honest : Bytes(p) = Bytes(w)
        BY <1>3 DEF ToSet, TypeInv, AsSent
    <2>2. p.post \in Seq(Units) /\ p.rcvd_cnts \in Seq(Units)
        BY <1>1 DEF Packet
    <2>3. Bytes(p)[1] = Length(p.content_len) /\ Bytes(w)[1] = Length(Len(Bytes(w)))
        BY <2>1, <2>2, BytesPlaces, HonestBytes
    <2>4. p.content_len = Len(Bytes(p))
        BY <2>1, <2>3 DEF Length
    <2>5. QED
        BY <1>1, <2>4, AckLength
  <1>4. QED
      BY <1>2, <1>3 DEF Good

\* Steps that touch the packets of no thread.
LEMMA QuietContents ==
    ASSUME TypeInv, ContentsInv, UNCHANGED <<wrote, bufferPkts, delivered, written>>,
           InOneGo' => /\ InOneGo
                      /\ \A x \in Threads :
                            /\ pc'[x] = "parse" => HasPacket(x)'
                            /\ Judges(x)' => Judges(x) /\ pkt'[x] = pkt[x]
    PROVE  ContentsInv'
  <1> SUFFICES ASSUME InOneGo' PROVE Contents'
      BY DEF ContentsInv
  <1>1. Contents
      BY DEF ContentsInv
  <1>2. Good' = Good
      BY DEF Good
  <1>3. QED
      BY <1>1, <1>2 DEF Contents

LEMMA ReadSomeContents ==
    ASSUME TypeInv, TypeInv', StepInv', ContentsInv, NEW t \in Threads, ReadSome(t)
    PROVE  ContentsInv'
  <1> USE DEF peerVars, callVars
  <1>1. TypeOK /\ wrote \in Seq(Honest)
      BY DEF TypeInv
  <1>2. pc[t] = "read" /\ UNCHANGED <<wrote, bufferPkts, delivered, written, pkt, outcome, memory>>
      BY DEF ReadSome
  <1>3. PICK k \in 1 .. Available(t) :
          LET b == buffer[t] \o SubSeq(stream, 1, k)
              L == LengthIn(StringAt(b, memory[t]))
          IN  /\ buffer' = [buffer EXCEPT ![t] = b]
              /\ packetLength' = [packetLength EXCEPT ![t] = L]
              /\ torn' = (torn \/ Holding(t)) /\ shortHead' = (shortHead \/ Len(b) < 2)
              /\ IF L <= Len(b)
                 THEN Goto(t, "parse") /\ taken' = Append(taken, b)
                 ELSE UNCHANGED <<pc, taken>>
      BY DEF ReadSome
  <1>4. PICK b : b = buffer[t] \o SubSeq(stream, 1, k)
      OBVIOUS
  <1>5. PICK L : L = LengthIn(StringAt(b, memory[t]))
      OBVIOUS
  <1>6. /\ buffer' = [buffer EXCEPT ![t] = b]
        /\ packetLength' = [packetLength EXCEPT ![t] = L]
        /\ torn' = (torn \/ Holding(t)) /\ shortHead' = (shortHead \/ Len(b) < 2)
        /\ IF L <= Len(b)
           THEN pc' = [pc EXCEPT ![t] = "parse"] /\ taken' = Append(taken, b)
           ELSE UNCHANGED <<pc, taken>>
      BY <1>3, <1>4, <1>5 DEF Goto
  <1>7. b \in Seq(Units)
      BY <1>1, <1>4, ReadSomePlaces
  <1>8. ASSUME InOneGo', L <= Len(b) PROVE HasPacket(t)'
    <2>1. taken' = Append(taken, b) /\ buffer'[t] = b /\ packetLength'[t] = L
        BY <1>1, <1>6, <1>8 DEF TypeOK
    <2>2. PICK n \in Nat : n = Len(taken)
        BY <1>1 DEF TypeOK
    <2>3. Len(taken') = n + 1 /\ taken'[n + 1] = b
      <3>1. taken \in Seq(Seq(Units))
          BY <1>1 DEF TypeOK
      <3>2. QED
          BY <1>7, <2>1, <2>2, <3>1, AppendProperties
    <2>4. Len(taken') <= Len(wrote') /\ \A i \in 1 .. Len(taken') : taken'[i] = Bytes(wrote'[i])
        BY <1>8 DEF StepInv, InPlace, TakenRight
    <2>5. n + 1 \in DOMAIN wrote /\ b = Bytes(wrote[n + 1])
      <3>1. Len(wrote) \in Nat /\ DOMAIN wrote = 1 .. Len(wrote) /\ n + 1 <= Len(wrote)
          BY <1>1, <1>2, <2>3, <2>4
      <3>2. n + 1 \in 1 .. Len(wrote) /\ n + 1 \in 1 .. n + 1
          BY <3>1
      <3>3. QED
          BY <1>2, <2>3, <2>4, <3>1, <3>2
    <2>6. wrote[n + 1] \in Honest
        BY <1>1, <2>5
    <2>7. L = Len(b)
      <3>1. PICK S : S = StringAt(b, memory[t])
          OBVIOUS
      <3>2. memory[t] \in Seq(Units)
          BY <1>1 DEF TypeOK
      <3>3. S \in Seq(Units) /\ Len(b) <= Len(S) /\ \A i \in 1 .. Len(b) : S[i] = b[i]
          BY <1>7, <3>1, <3>2, StringTyped
      <3>4. PICK x \in Nat, y \in Nat : x = Len(b) /\ y = Len(S)
          BY <1>7, <3>3
      <3>5. x >= 3
          BY <2>5, <2>6, <3>4, HonestBytes
      <3>6. 1 \in 1 .. x /\ 2 \in 1 .. x /\ x <= y /\ y >= 2
          BY <3>3, <3>4, <3>5
      <3>7. S[1] = b[1] /\ S[2] = b[2] /\ Len(S) >= 2
          BY <3>3, <3>4, <3>6
      <3>8. QED
          BY <1>5, <2>5, <2>6, <3>1, <3>3, <3>7, LengthOfHonest
    <2>8. QED
        BY <1>2, <2>1, <2>5, <2>7 DEF HasPacket
  <1>9. ASSUME InOneGo'
        PROVE  /\ InOneGo
               /\ \A x \in Threads :
                     /\ pc'[x] = "parse" => HasPacket(x)'
                     /\ Judges(x)' => Judges(x) /\ pkt'[x] = pkt[x]
    <2>1. InOneGo
        BY <1>6, <1>9
    <2>2. ASSUME NEW x \in Threads, pc'[x] = "parse" PROVE HasPacket(x)'
      <3>1. CASE x = t
        <4>1. L <= Len(b)
            BY <1>2, <1>6, <2>2, <3>1
        <4>2. QED
            BY <1>8, <1>9, <3>1, <4>1
      <3>2. CASE x # t
        <4>1. pc[x] = "parse" /\ buffer'[x] = buffer[x] /\ packetLength'[x] = packetLength[x]
            BY <1>1, <1>6, <2>2, <3>2 DEF TypeOK
        <4>2. HasPacket(x)
            BY <2>1, <4>1 DEF ContentsInv, Contents
        <4>3. QED
            BY <1>2, <4>1, <4>2 DEF HasPacket
      <3>3. QED
          BY <3>1, <3>2
    <2>3. ASSUME NEW x \in Threads, Judges(x)' PROVE Judges(x) /\ pkt'[x] = pkt[x]
        BY <1>1, <1>2, <1>6, <2>3 DEF Judges, TypeOK
    <2>4. QED
        BY <2>1, <2>2, <2>3
  <1>10. QED
      BY <1>2, <1>9, QuietContents

LEMMA ParseContents ==
    ASSUME TypeInv, TypeInv', ContentsInv, NEW t \in Threads, Parse(t)
    PROVE  ContentsInv'
  <1> USE DEF peerVars, callVars
  <1> SUFFICES ASSUME InOneGo' PROVE Contents'
      BY DEF ContentsInv
  <1>1. TypeOK /\ wrote \in Seq(Honest)
      BY DEF TypeInv
  <1>2. /\ pc[t] = "parse"
        /\ UNCHANGED <<torn, shortHead, wrote, buffer, packetLength, bufferPkts, delivered, written>>
      BY DEF Parse
  <1>3. Contents
      BY <1>2 DEF ContentsInv
  <1>4. PICK k \in DOMAIN wrote : buffer[t] = Bytes(wrote[k]) /\ packetLength[t] = Len(buffer[t])
      BY <1>2, <1>3 DEF Contents, HasPacket
  <1>5. PICK p \in Honest : p = wrote[k] /\ p \in ToSet(wrote)
      BY <1>1, <1>4 DEF ToSet
  <1>6. PICK S : S = StringAt(Bytes(p), memory[t])
      OBVIOUS
  <1>7. PICK e : e = Find("end", S, 2)
      OBVIOUS
  <1>8. PICK q : q = Filled(pkt[t], S, 2, e, Len(Bytes(p)))
      OBVIOUS
  <1>9. /\ Find("length", S, 1) = 1 /\ Find("command", S, 1) = 2 /\ e # 0
        /\ AsSent(q, p) \/ q.reused
    <2>1. memory[t] \in Seq(Units) /\ pkt[t] \in Packet
        BY <1>1 DEF TypeOK
    <2>2. QED
        BY <1>5, <1>6, <1>7, <1>8, <2>1, ParsedHonest
  <1>10. /\ pkt' = [pkt EXCEPT ![t] = q] /\ pc' = [pc EXCEPT ![t] = "judge"]
         /\ UNCHANGED outcome
    <2>1. S = StringAt(buffer[t], memory[t])
        BY <1>4, <1>5, <1>6
    <2>2. packetLength[t] = Len(Bytes(p))
        BY <1>4, <1>5
    <2>3. e = IF Find("command", S, 1) = 0 THEN 0 ELSE Find("end", S, Find("command", S, 1))
        BY <1>7, <1>9
    <2>4. \/ /\ pkt' = [pkt EXCEPT ![t] =
                           Filled(pkt[t], S, Find("command", S, 1), e, packetLength[t])]
             /\ pc' = [pc EXCEPT ![t] = "judge"]
             /\ UNCHANGED outcome
          \/ Find("length", S, 1) = 0 \/ e = 0
        BY <2>1, <2>3 DEF Parse, Goto
    <2>5. QED
        BY <1>8, <1>9, <2>2, <2>4
  <1>11. pkt'[t] = q /\ q \in Packet
      BY <1>1, <1>10 DEF TypeInv, TypeOK
  <1>12. Good' = Good
      BY <1>2 DEF Good
  <1>13. q \in Good
      BY <1>5, <1>9, <1>11 DEF Good
  <1>14. ASSUME NEW x \in Threads
         PROVE  /\ pc'[x] = "parse" => HasPacket(x)'
                /\ Judges(x)' => pkt'[x] \in Good'
    <2>1. CASE x = t
        BY <1>1, <1>10, <1>11, <1>12, <1>13, <2>1 DEF TypeOK
    <2>2. CASE x # t
      <3>1. pc'[x] = pc[x] /\ pkt'[x] = pkt[x] /\ outcome'[x] = outcome[x]
          BY <1>1, <1>10, <2>2 DEF TypeOK
      <3>2. pc'[x] = "parse" => HasPacket(x)'
          BY <1>2, <1>3, <3>1 DEF Contents, HasPacket
      <3>3. Judges(x)' => Judges(x)
          BY <3>1 DEF Judges
      <3>4. QED
          BY <1>3, <1>12, <3>1, <3>2, <3>3 DEF Contents
    <2>3. QED
        BY <2>1, <2>2
  <1>15. QED
      BY <1>2, <1>3, <1>12, <1>14 DEF Contents

LEMMA QuietReadContents ==
    ASSUME TypeInv, ContentsInv, NEW t \in Threads,
           ReadTimesOut(t) \/ ReadNothing(t) \/ ReadCutOff(t)
    PROVE  ContentsInv'
  <1> USE DEF readVars, callVars, peerVars
  <1>1. TypeOK
      BY DEF TypeInv
  <1>2. UNCHANGED <<wrote, bufferPkts, delivered, written, pkt, buffer>>
      BY DEF ReadTimesOut, ReadNothing, ReadCutOff
  <1>3. CASE ReadCutOff(t)
      BY <1>3 DEF ReadCutOff, ContentsInv
  <1>4. CASE ReadTimesOut(t) \/ ReadNothing(t)
    <2>1. UNCHANGED packetLength /\ (InOneGo' => InOneGo)
      <3>1. /\ UNCHANGED <<packetLength, shortHead>>
            /\ torn' = (torn \/ buffer[t] # <<>>) \/ torn' = torn
          BY <1>4 DEF ReadTimesOut, ReadNothing
      <3>2. CASE torn' = (torn \/ buffer[t] # <<>>)
          BY <3>1, <3>2
      <3>3. CASE torn' = torn
          BY <3>1, <3>3
      <3>4. QED
          BY <3>1, <3>2, <3>3
    <2>2. \A x \in Threads :
             /\ pc'[x] = pc[x] \/ pc'[x] \in {"gone", "scan"}
             /\ outcome'[x] = outcome[x] \/ outcome'[x] = "failed"
        BY <1>1, <1>4 DEF ReadTimesOut, ReadNothing, HelperFails, Goto, TypeOK
    <2>3. ASSUME NEW x \in Threads, InOneGo
          PROVE  /\ pc'[x] = "parse" => HasPacket(x)'
                 /\ Judges(x)' => Judges(x) /\ pkt'[x] = pkt[x]
      <3>1. pc'[x] = "parse" => HasPacket(x)'
          BY <1>2, <2>1, <2>2, <2>3 DEF ContentsInv, Contents, HasPacket
      <3>2. Judges(x)' => Judges(x)
          BY <2>2 DEF Judges
      <3>3. QED
          BY <1>2, <3>1, <3>2
    <2>4. QED
        BY <1>2, <2>1, <2>3, QuietContents
  <1>5. QED
      BY <1>3, <1>4

\* The threads that do nothing are not disturbed.
LEMMA OthersContents ==
    ASSUME Contents, UNCHANGED wrote, NEW t \in Threads,
           \A x \in Threads \ {t} :
              /\ pc'[x] = pc[x] /\ pkt'[x] = pkt[x] /\ outcome'[x] = outcome[x]
              /\ buffer'[x] = buffer[x] /\ packetLength'[x] = packetLength[x],
           pc'[t] # "parse" \/ HasPacket(t)',
           Judges(t)' => pkt'[t] \in Good
    PROVE  \A x \in Threads : /\ pc'[x] = "parse" => HasPacket(x)'
                              /\ Judges(x)' => pkt'[x] \in Good'
  <1>1. Good' = Good
      BY DEF Good
  <1>2. ASSUME NEW x \in Threads \ {t}
        PROVE  /\ pc'[x] = "parse" => HasPacket(x)'
               /\ Judges(x)' => pkt'[x] \in Good'
    <2>1. pc'[x] = "parse" => HasPacket(x)'
        BY DEF Contents, HasPacket
    <2>2. Judges(x)' => Judges(x)
        BY DEF Judges
    <2>3. QED
        BY <1>1, <2>1, <2>2 DEF Contents
  <1>3. QED
      BY <1>1, <1>2

LEMMA ReceiverContents ==
    ASSUME TypeInv, ContentsInv, NEW t \in Receivers, ReceiverStep(t)
    PROVE  ContentsInv'
  <1> USE DEF readVars, callVars, peerVars
  <1> SUFFICES ASSUME InOneGo' PROVE Contents'
      BY DEF ContentsInv
  <1>1. TypeOK /\ t \in Threads /\ t \notin Requesters
      BY FramingAssumption DEF TypeInv, Threads
  <1>2. UNCHANGED <<torn, shortHead>>
      BY DEF ReceiverStep, ReadSocket, KeepAck, AckOverflows, AckMessage
  <1>3. Contents
      BY <1>2 DEF ContentsInv
  <1>4. bufferPkts \in Seq(Good) /\ Good \subseteq Packet /\ (pc[t] = "judge" => pkt[t] \in Good)
      BY <1>1, <1>3 DEF Contents, Good, Judges
  <1>5. /\ bufferPkts' \in Seq(Good)
        /\ delivered' \subseteq delivered \cup Good
        /\ UNCHANGED pc \/ pc'[t] # "judge"
        /\ UNCHANGED <<outcome, wrote>>
        /\ \A x \in Threads \ {t} : pc'[x] = pc[x] /\ pkt'[x] = pkt[x]
        /\ \/ UNCHANGED written
           \/ pc[t] = "judge" /\ written' = written \cup {AckOf(pkt[t])}
      BY <1>1, <1>4, ReceiverKeeps
  <1>6. Good' = Good
      BY <1>5 DEF Good
  <1>7. ASSUME NEW x \in Threads \ {t}
        PROVE  buffer'[x] = buffer[x] /\ packetLength'[x] = packetLength[x]
    <2>1. StartReading(t) \/ UNCHANGED <<buffer, packetLength>>
        BY DEF ReceiverStep, ReadSocket, KeepAck, AckOverflows, AckMessage
    <2>2. QED
        BY <1>1, <2>1 DEF StartReading, TypeOK
  <1>8. pc'[t] \in {"idle", "read", "gone"}
      BY <1>1 DEF ReceiverStep, ReadSocket, KeepAck, AckOverflows, AckMessage, StartReading, Goto,
                  TypeOK
  <1>9. pc'[t] # "parse" /\ ~ Judges(t)'
      BY <1>1, <1>8 DEF Judges
  <1>10. \A x \in Threads : /\ pc'[x] = "parse" => HasPacket(x)'
                            /\ Judges(x)' => pkt'[x] \in Good'
    <2>1. \A x \in Threads \ {t} :
             /\ pc'[x] = pc[x] /\ pkt'[x] = pkt[x] /\ outcome'[x] = outcome[x]
             /\ buffer'[x] = buffer[x] /\ packetLength'[x] = packetLength[x]
        BY <1>5, <1>7
    <2>2. QED
        BY <1>1, <1>3, <1>5, <1>9, <2>1, OthersContents
  <1>11. \A p \in written' : p.reused \/ p.content_len = Len(Bytes(p))
    <2>1. pc[t] = "judge" => \/ AckOf(pkt[t]).reused
                             \/ AckOf(pkt[t]).content_len = Len(Bytes(AckOf(pkt[t])))
        BY <1>4, GoodAck
    <2>2. QED
        BY <1>3, <1>5, <2>1 DEF Contents
  <1>12. delivered' \subseteq Good' /\ bufferPkts' \in Seq(Good)'
      BY <1>3, <1>5, <1>6 DEF Contents
  <1>13. QED
      BY <1>10, <1>11, <1>12 DEF Contents

LEMMA RequesterContents ==
    ASSUME TypeInv, ContentsInv, NEW t \in Requesters, RequesterStep(t)
    PROVE  ContentsInv'
  <1> USE DEF readVars, callVars, peerVars
  <1> SUFFICES ASSUME InOneGo' PROVE Contents'
      BY DEF ContentsInv
  <1>1. TypeOK /\ t \in Threads
      BY DEF TypeInv, Threads
  <1>2. UNCHANGED <<torn, shortHead, wrote>>
      BY DEF RequesterStep, SendRequest, Scan, JudgeAck
  <1>3. Contents
      BY <1>2 DEF ContentsInv
  <1>4. Good' = Good /\ Good \subseteq Packet /\ bufferPkts \in Seq(Good)
      BY <1>2, <1>3 DEF Good, Contents
  <1>5. \A x \in Threads \ {t} : buffer'[x] = buffer[x] /\ packetLength'[x] = packetLength[x]
    <2>1. StartReading(t) \/ UNCHANGED <<buffer, packetLength>>
        BY DEF RequesterStep, SendRequest, Scan, JudgeAck
    <2>2. QED
        BY <1>1, <2>1 DEF StartReading, TypeOK
  <1>6. pc'[t] # "parse"
      BY <1>1 DEF RequesterStep, SendRequest, Scan, JudgeAck, StartReading, Goto, TypeOK
  <1>7. CASE SendRequest(t)
    <2>1. PICK x \in Requests :
             LET p == Measured([EmptyPacket EXCEPT !.cmd_code = "REQUEST", !.req_num = asks + 1,
                                                   !.post = x])
             IN  written' = written \cup {p}
        BY <1>7 DEF SendRequest
    <2>2. PICK p : p = Measured([EmptyPacket EXCEPT !.cmd_code = "REQUEST",
                                                    !.req_num = asks + 1, !.post = x])
        OBVIOUS
    <2>3. asks + 1 \in Nat
      <3>1. asks \in 0 .. MaxAsks
          BY <1>1 DEF TypeOK
      <3>2. QED
          BY <3>1, FramingAssumption
    <2>4. p \in Honest
        BY <2>2, <2>3, RequestHonest
    <2>5. p.content_len = Len(Bytes(p))
        BY <2>4 DEF Honest
    <2>6. \A r \in written' : r.reused \/ r.content_len = Len(Bytes(r))
        BY <1>3, <2>1, <2>2, <2>5 DEF Contents
    <2>7. /\ outcome'[t] = "none" /\ pc'[t] = "scan"
          /\ \A y \in Threads \ {t} :
                pc'[y] = pc[y] /\ pkt'[y] = pkt[y] /\ outcome'[y] = outcome[y]
          /\ UNCHANGED <<bufferPkts, delivered>>
        BY <1>1, <1>7 DEF SendRequest, Goto, TypeOK
    <2>8. ~ Judges(t)'
        BY <2>7 DEF Judges
    <2>9. \A y \in Threads : /\ pc'[y] = "parse" => HasPacket(y)'
                             /\ Judges(y)' => pkt'[y] \in Good'
      <3>1. \A y \in Threads \ {t} :
               /\ pc'[y] = pc[y] /\ pkt'[y] = pkt[y] /\ outcome'[y] = outcome[y]
               /\ buffer'[y] = buffer[y] /\ packetLength'[y] = packetLength[y]
          BY <1>5, <2>7
      <3>2. QED
          BY <1>1, <1>2, <1>3, <1>6, <2>8, <3>1, OthersContents
    <2>10. QED
        BY <1>3, <1>4, <2>6, <2>7, <2>9 DEF Contents
  <1>8. CASE Scan(t) \/ JudgeAck(t)
    <2>1. pc[t] = "judge" \/ outcome[t] = "found" => pkt[t] \in Good
        BY <1>1, <1>3 DEF Contents, Judges
    <2>2. /\ bufferPkts' \in Seq(Good)
          /\ pc'[t] = "judge" \/ outcome'[t] = "found" => pkt'[t] \in Good
          /\ UNCHANGED <<delivered, written>>
          /\ \A x \in Threads \ {t} :
                pc'[x] = pc[x] /\ pkt'[x] = pkt[x] /\ outcome'[x] = outcome[x]
        BY <1>1, <1>4, <1>8, <2>1, RequesterKeeps
    <2>3. Judges(t)' => pkt'[t] \in Good
        BY <2>2 DEF Judges
    <2>4. \A x \in Threads : /\ pc'[x] = "parse" => HasPacket(x)'
                             /\ Judges(x)' => pkt'[x] \in Good'
      <3>1. \A x \in Threads \ {t} :
               /\ pc'[x] = pc[x] /\ pkt'[x] = pkt[x] /\ outcome'[x] = outcome[x]
               /\ buffer'[x] = buffer[x] /\ packetLength'[x] = packetLength[x]
          BY <1>5, <2>2
      <3>2. QED
          BY <1>1, <1>2, <1>3, <1>6, <2>3, <3>1, OthersContents
    <2>5. QED
        BY <1>3, <1>4, <2>2, <2>4 DEF Contents
  <1>9. QED
      BY <1>7, <1>8 DEF RequesterStep

\* A packet was good before the peer wrote another one.
LEMMA PeerWritesContents ==
    ASSUME TypeInv, ContentsInv, NEW p \in Honest, PeerWrites(p)
    PROVE  ContentsInv'
  <1> USE DEF readVars, callVars
  <1> SUFFICES ASSUME InOneGo' PROVE Contents'
      BY DEF ContentsInv
  <1>1. /\ wrote' = Append(wrote, p)
        /\ UNCHANGED <<pc, pkt, outcome, buffer, packetLength, bufferPkts, delivered, written,
                       torn, shortHead>>
      BY DEF PeerWrites
  <1>2. Contents
      BY <1>1 DEF ContentsInv
  <1>3. PICK m \in Nat : m = Len(wrote) /\ wrote \in Seq(Honest)
      BY DEF TypeInv
  <1>4. DOMAIN wrote = 1 .. m /\ DOMAIN wrote' = 1 .. m + 1 /\ \A k \in 1 .. m : wrote'[k] = wrote[k]
      BY <1>1, <1>3, AppendProperties
  <1>5. \A k \in DOMAIN wrote : k \in DOMAIN wrote' /\ wrote'[k] = wrote[k]
      BY <1>4
  <1>6. ToSet(wrote) \subseteq ToSet(wrote')
      BY <1>5 DEF ToSet
  <1>7. Good \subseteq Good'
      BY <1>6 DEF Good
  <1>8. Seq(Good) \subseteq Seq(Good')
      BY <1>7, SeqMonotonic
  <1>9. ASSUME NEW x \in Threads, pc'[x] = "parse" PROVE HasPacket(x)'
    <2>1. HasPacket(x)
        BY <1>1, <1>2, <1>9 DEF Contents
    <2>2. QED
        BY <1>1, <1>5, <2>1 DEF HasPacket
  <1>10. ASSUME NEW x \in Threads, Judges(x)' PROVE pkt'[x] \in Good'
    <2>1. Judges(x)
        BY <1>1, <1>10 DEF Judges
    <2>2. QED
        BY <1>1, <1>2, <1>7, <2>1 DEF Contents
  <1>11. bufferPkts' \in Seq(Good') /\ delivered' \subseteq Good'
      BY <1>1, <1>2, <1>7, <1>8 DEF Contents
  <1>12. QED
      BY <1>1, <1>2, <1>9, <1>10, <1>11 DEF Contents

LEMMA ContentsKept ==
    TypeInv /\ TypeInv' /\ StepInv' /\ ContentsInv /\ [Next]_vars => ContentsInv'
  <1> SUFFICES ASSUME TypeInv, TypeInv', StepInv', ContentsInv, [Next]_vars PROVE ContentsInv'
      OBVIOUS
  <1> USE DEF readVars, callVars, peerVars
  <1>1. ASSUME NEW t \in Threads, Helper(t) PROVE ContentsInv'
      BY <1>1, ReadSomeContents, QuietReadContents, ParseContents DEF Helper
  <1>2. ASSUME NEW t \in Receivers, ReceiverStep(t) PROVE ContentsInv'
      BY <1>2, ReceiverContents
  <1>3. ASSUME NEW t \in Requesters, RequesterStep(t) PROVE ContentsInv'
      BY <1>3, RequesterContents
  <1>4. CASE PeerSays \/ PeerAcks
    <2>1. PICK p \in Honest : PeerWrites(p)
        BY <1>4, PeerSaysHonest
    <2>2. QED
        BY <2>1, PeerWritesContents
  <1>5. CASE PeerCloses \/ UNCHANGED vars
    <2>1. UNCHANGED <<wrote, torn, shortHead, pc, pkt, outcome, buffer, packetLength, bufferPkts, delivered,
                      written>>
        BY <1>5 DEF PeerCloses, vars
    <2>2. Good' = Good
        BY <2>1 DEF Good
    <2>3. \A x \in Threads : (HasPacket(x)' <=> HasPacket(x)) /\ (Judges(x)' <=> Judges(x))
        BY <2>1 DEF HasPacket, Judges
    <2>4. QED
        BY <2>1, <2>2, <2>3 DEF ContentsInv, Contents
  <1>6. QED
      BY <1>1, <1>2, <1>3, <1>4, <1>5 DEF Next, Peer

LEMMA ContentsAlways == Spec => []ContentsInv
  <1>1. Init => StepInv /\ ContentsInv
      BY InitInStep, InitContents
  <1>2. TypeInv /\ TypeInv' /\ StepInv /\ ContentsInv /\ [Next]_vars
           => StepInv' /\ ContentsInv'
      BY InStepKept, ContentsKept
  <1>3. Spec => [](StepInv /\ ContentsInv)
      BY <1>1, <1>2, TypedAlways, PTL DEF Spec
  <1>4. QED
      BY <1>3, PTL

\* No byte left in the memory a packet is read into, and no byte of another
\* packet, gets into what read_socket returns: it has the bytes of a packet of
\* the peer, and is that packet, field by field, if no text of it reads like a
\* label; unless packets were torn or began with a short read, or the variable
\* it was read into held another one.
THEOREM ReadsAsSent == Spec => []AsSentUnlessReused
  <1>1. ContentsInv => AsSentUnlessReused
      BY DEF ContentsInv, Contents, Good, AsSent, AsSentUnlessReused
  <1>2. QED
      BY <1>1, ContentsAlways, PTL

\* What write_socket and the ACK of read_socket put on the stream states its
\* own length, which the peer relies on to stay in step, with the same
\* exception.
THEOREM StatesTrueLength == Spec => []TruthfulUnlessReused
  <1>1. ContentsInv => TruthfulUnlessReused
      BY DEF ContentsInv, Contents, TruthfulUnlessReused
  <1>2. QED
      BY <1>1, ContentsAlways, PTL
=============================================================================
