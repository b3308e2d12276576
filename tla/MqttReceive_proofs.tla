-------------------------- MODULE MqttReceive_proofs --------------------------
(***************************************************************************)
(* Reading packets, for every set of readable packets, every size of the   *)
(* buffer that holds a header, and streams of any length: however the      *)
(* stream is cut into reads, the client acts on what the broker sent.      *)
(***************************************************************************)
EXTENDS MqttReceive, SequenceTheorems, TLAPS

\* What the theorems ask of the packets and of the buffer: it holds a fixed
\* header and what is read of a publish to learn the length of its topic.
AllReadable == \A p \in Packets : Readable(p)

HeaderFits == in_buffer_length >= 7

-----------------------------------------------------------------------------
(* The encoder.                                                            *)

LEMMA ByteIsInt == \A x \in Byte : x \in Int
BY DEF Byte

LEMMA IdentifierRange ==
    ASSUME NEW n \in Identifier
    PROVE  n \in Nat /\ n \div 256 < 256
<1>1. n \in Nat /\ n <= 256 * 256 - 1
    BY SMTT(30) DEF Identifier
<1> QED
    BY <1>1

LEMMA WordBytes ==
    ASSUME NEW n \in Nat, n \div 256 < 256
    PROVE  /\ Word(n) \in Seq(Byte) /\ Len(Word(n)) = 2
           /\ Word(n)[1] = n \div 256 /\ Word(n)[2] = n % 256
<1>1. n \div 256 \in Byte /\ n % 256 \in Byte
    BY SMT DEF Byte
<1> QED
    BY <1>1 DEF Word

LEMMA WordLen ==
    ASSUME NEW n \in Nat
    PROVE  Word(n) \in Seq(Nat) /\ Len(Word(n)) = 2
BY DEF Word

\* w is s with t behind it.
IsJoin(w, s, t) ==
    /\ Len(s) \in Nat /\ Len(t) \in Nat /\ Len(w) = Len(s) + Len(t)
    /\ \A i \in 1 .. Len(s) : w[i] = s[i]
    /\ \A i \in 1 .. Len(t) : w[Len(s) + i] = t[i]

LEMMA Joined ==
    ASSUME NEW S, NEW s \in Seq(S), NEW t \in Seq(S)
    PROVE  s \o t \in Seq(S) /\ IsJoin(s \o t, s, t)
<1>1. Len(s) \in Nat /\ Len(t) \in Nat
    BY LenProperties
<1>2. /\ s \o t \in Seq(S) /\ Len(s \o t) = Len(s) + Len(t)
      /\ \A i \in 1 .. Len(s) + Len(t) :
            (s \o t)[i] = IF i <= Len(s) THEN s[i] ELSE t[i - Len(s)]
    BY ConcatProperties
<1> QED
    BY <1>1, <1>2 DEF IsJoin

\* w is s, t, u and v behind each other.
AreJoined(w, s, t, u, v) ==
    /\ Len(s) \in Nat /\ Len(t) \in Nat /\ Len(u) \in Nat /\ Len(v) \in Nat
    /\ Len(w) = Len(s) + Len(t) + Len(u) + Len(v)
    /\ \A i \in 1 .. Len(s) : w[i] = s[i]
    /\ \A i \in 1 .. Len(t) : w[Len(s) + i] = t[i]
    /\ \A i \in 1 .. Len(u) : w[Len(s) + Len(t) + i] = u[i]
    /\ \A i \in 1 .. Len(v) : w[Len(s) + Len(t) + Len(u) + i] = v[i]

LEMMA FourJoined ==
    ASSUME NEW S, NEW s \in Seq(S), NEW t \in Seq(S), NEW u \in Seq(S), NEW v \in Seq(S)
    PROVE  /\ ((s \o t) \o u) \o v \in Seq(S)
           /\ AreJoined(((s \o t) \o u) \o v, s, t, u, v)
<1>1. PICK x \in Seq(S) : x = s \o t /\ IsJoin(x, s, t)
    BY Joined, Zenon
<1>2. PICK y \in Seq(S) : y = x \o u /\ IsJoin(y, x, u)
    BY Joined, Zenon
<1>3. PICK w \in Seq(S) : w = y \o v /\ IsJoin(w, y, v)
    BY Joined, Zenon
<1>4. AreJoined(w, s, t, u, v)
    BY <1>1, <1>2, <1>3 DEF IsJoin, AreJoined
<1> QED
    BY <1>1, <1>2, <1>3, <1>4, Zenon

LEMMA BodyCases ==
    ASSUME NEW p
    PROVE  /\ p.type = PUBLISH =>
                 Body(p) = ((Word(Len(p.topic)) \o p.topic) \o (IF p.qos > 0 THEN Word(p.id) ELSE <<>>)) \o p.data
           /\ p.type = PINGRESP => Body(p) = <<>>
           /\ p.type \notin {PUBLISH, PINGRESP} => Body(p) = Word(p.id) \o p.data
<1>1. PUBLISH # PINGRESP
    BY DEF PUBLISH, PINGRESP
<1> QED
    BY <1>1, Zenon DEF Body

\* w is the body of a publish: topic, identifier and payload.
IsLaidOut(w, topic, id, data) ==
    /\ AreJoined(w, Word(Len(topic)), topic, id, data)
    /\ Len(topic) \div 256 < 256 /\ Len(Word(Len(topic))) = 2
    /\ Word(Len(topic))[1] = Len(topic) \div 256 /\ Word(Len(topic))[2] = Len(topic) % 256

LEMMA PublishLayout ==
    ASSUME NEW topic \in Seq(Byte), NEW id \in Seq(Byte), NEW data \in Seq(Byte),
           NEW w, w = ((Word(Len(topic)) \o topic) \o id) \o data, Len(w) \div 128 < 128
    PROVE  w \in Seq(Byte) /\ IsLaidOut(w, topic, id, data)
<1>1. PICK T \in Nat : T = Len(topic)
    BY LenProperties
<1>2. PICK l \in Seq(Nat) : l = Word(T) /\ Len(l) = 2
    BY <1>1, WordLen
<1>3. topic \in Seq(Nat) /\ id \in Seq(Nat) /\ data \in Seq(Nat)
  <2>1. Byte \subseteq Nat
    BY DEF Byte
  <2> QED
    BY <2>1, SeqMonotonic, Zenon
<1>4. w = ((l \o topic) \o id) \o data
    BY <1>1, <1>2, Zenon
<1>5. AreJoined(w, l, topic, id, data)
    BY <1>2, <1>3, <1>4, FourJoined, Zenon
<1>6. T \div 256 < 256
    BY <1>1, <1>2, <1>5 DEF AreJoined
<1>7. /\ Word(T) \in Seq(Byte)
      /\ Word(T)[1] = T \div 256 /\ Word(T)[2] = T % 256
    BY <1>6, WordBytes
<1>8. w \in Seq(Byte)
    BY <1>1, <1>7, FourJoined, Zenon
<1> QED
    BY <1>1, <1>2, <1>5, <1>6, <1>7, <1>8, Zenon DEF IsLaidOut

\* b is the topic of p, T bytes long, its identifier of W bytes if it has one
\* and its payload of D.
IsPublishBody(b, p, T, W, D) ==
    /\ T \in Nat /\ D \in Nat /\ Len(b) = 2 + T + W + D
    /\ b[1] = T \div 256 /\ b[2] = T % 256
    /\ \A i \in 1 .. T : b[2 + i] = p.topic[i]
    /\ p.qos > 0 => b[2 + T + 1] = p.id \div 256 /\ b[2 + T + 2] = p.id % 256
    /\ \A i \in 1 .. D : b[2 + T + W + i] = p.data[i]

LEMMA BodyOfPublish ==
    ASSUME NEW p, WellFormed(p), p.type = PUBLISH
    PROVE  /\ Body(p) \in Seq(Byte)
           /\ IsPublishBody(Body(p), p, Len(p.topic), WithId(p), Len(p.data))
<1>1. /\ p.topic \in Seq(Byte) /\ p.data \in Seq(Byte) /\ p.id \in Identifier /\ p.qos \in 0 .. 2
      /\ Len(Body(p)) \div 128 < 128
    BY DEF WellFormed, Message
<1>2. PICK topic \in Seq(Byte), data \in Seq(Byte) : topic = p.topic /\ data = p.data
    BY <1>1
<1>3. PICK id \in Seq(Byte) :
        /\ id = IF p.qos > 0 THEN Word(p.id) ELSE <<>>
        /\ Len(id) = WithId(p)
        /\ p.qos > 0 => id[1] = p.id \div 256 /\ id[2] = p.id % 256
  <2>1. CASE p.qos > 0
    <3>1. p.id \in Nat /\ p.id \div 256 < 256
      BY <1>1, IdentifierRange
    <3>2. /\ Word(p.id) \in Seq(Byte) /\ Len(Word(p.id)) = 2
          /\ Word(p.id)[1] = p.id \div 256 /\ Word(p.id)[2] = p.id % 256
      BY <3>1, WordBytes
    <3> QED
      BY <2>1, <3>2 DEF WithId
  <2>2. CASE ~(p.qos > 0)
    <3>1. <<>> \in Seq(Byte) /\ Len(<<>>) = 0 /\ WithId(p) = 0
      BY <2>2, EmptySeq DEF WithId
    <3> QED
      BY <2>2, <3>1, Zenon
  <2> QED
    BY <2>1, <2>2, Zenon
<1>4. PICK B : B = Body(p)
    OBVIOUS
<1>5. B = ((Word(Len(topic)) \o topic) \o id) \o data /\ Len(B) \div 128 < 128
    BY <1>1, <1>2, <1>3, <1>4, BodyCases, Zenon
<1>6. B \in Seq(Byte) /\ IsLaidOut(B, topic, id, data)
    BY <1>5, PublishLayout, Zenon
<1>7. PICK T, D : T = Len(topic) /\ D = Len(data)
    OBVIOUS
<1>8. PICK l : l = Word(T)
    OBVIOUS
<1>9. /\ T \in Nat /\ D \in Nat /\ Len(id) \in Nat
      /\ Len(B) = 2 + T + Len(id) + D
      /\ \A i \in 1 .. 2 : B[i] = l[i]
      /\ \A i \in 1 .. T : B[2 + i] = topic[i]
      /\ \A i \in 1 .. Len(id) : B[2 + T + i] = id[i]
      /\ \A i \in 1 .. D : B[2 + T + Len(id) + i] = data[i]
    BY <1>6, <1>7, <1>8 DEF IsLaidOut, AreJoined
<1>10. B[1] = T \div 256 /\ B[2] = T % 256 /\ T \div 256 < 256
  <2>1. l[1] = T \div 256 /\ l[2] = T % 256 /\ T \div 256 < 256
    BY <1>6, <1>7, <1>8, Zenon DEF IsLaidOut
  <2> QED
    BY <1>9, <2>1
<1>11. p.qos > 0 => B[2 + T + 1] = p.id \div 256 /\ B[2 + T + 2] = p.id % 256
  <2>1. ASSUME Len(id) = 2
        PROVE  B[2 + T + 1] = id[1] /\ B[2 + T + 2] = id[2]
    BY <1>9, <2>1
  <2>2. p.qos > 0 => Len(id) = 2
    BY <1>3, Zenon DEF WithId
  <2> QED
    BY <1>3, <2>1, <2>2, Zenon
<1>12. /\ Len(B) = 2 + T + WithId(p) + D
       /\ \A i \in 1 .. D : B[2 + T + WithId(p) + i] = data[i]
    BY <1>3, <1>9
<1>13. IsPublishBody(B, p, T, WithId(p), D)
    BY <1>2, <1>9, <1>10, <1>11, <1>12, Zenon DEF IsPublishBody
<1> QED
    BY <1>2, <1>4, <1>6, <1>7, <1>13, Zenon

\* What the other packets are made of.
LEMMA BodyOfAnswer ==
    ASSUME NEW p, WellFormed(p), p.type # PUBLISH
    PROVE  LET B == Body(p)  D == Len(p.data)
           IN  /\ B \in Seq(Byte) /\ D \in Nat
               /\ p.type = PINGRESP => Len(B) = 0
               /\ p.type # PINGRESP =>
                    /\ Len(B) = 2 + D
                    /\ B[1] = p.id \div 256 /\ B[2] = p.id % 256
                    /\ \A i \in 1 .. D : B[2 + i] = p.data[i]
<1>1. p.data \in Seq(Byte) /\ p.id \in Identifier
    BY DEF WellFormed, Message
<1>2. PICK data \in Seq(Byte) : data = p.data
    BY <1>1
<1>3. Len(data) \in Nat
    BY LenProperties
<1>4. CASE p.type = PINGRESP
  <2>1. Body(p) = <<>>
    BY <1>4, BodyCases
  <2> QED
    BY <1>2, <1>3, <1>4, <2>1
<1>5. CASE p.type # PINGRESP
  <2>1. PICK id \in Seq(Byte) :
          id = Word(p.id) /\ Len(id) = 2 /\ id[1] = p.id \div 256 /\ id[2] = p.id % 256
    <3>1. p.id \in Nat /\ p.id \div 256 < 256
      BY <1>1, IdentifierRange
    <3> QED
      BY <3>1, WordBytes
  <2>2. PICK B \in Seq(Byte) : B = id \o data /\ IsJoin(B, id, data)
    BY Joined, Zenon
  <2>3. B = Body(p)
    BY <1>2, <1>5, <2>1, <2>2, BodyCases, Zenon
  <2>4. /\ Len(B) = 2 + Len(data)
        /\ B[1] = p.id \div 256 /\ B[2] = p.id % 256
        /\ \A i \in 1 .. Len(data) : B[2 + i] = data[i]
    BY <1>3, <2>1, <2>2 DEF IsJoin
  <2> QED
    BY <1>2, <1>3, <1>5, <2>3, <2>4, Zenon
<1> QED
    BY <1>4, <1>5

LEMMA LengthBytesShape ==
    ASSUME NEW n \in Nat, n \div 128 < 128
    PROVE  /\ LengthBytes(n) \in Seq(Byte)
           /\ n < 128 => Len(LengthBytes(n)) = 1 /\ LengthBytes(n)[1] = n
           /\ n >= 128 => /\ Len(LengthBytes(n)) = 2
                          /\ LengthBytes(n)[1] = 128 + (n % 128) /\ LengthBytes(n)[2] = n \div 128
<1>1. CASE n < 128
  <2>1. n \in Byte /\ LengthBytes(n) = <<n>>
    BY <1>1 DEF LengthBytes, Byte
  <2> QED
    BY <1>1, <2>1
<1>2. CASE n >= 128
  <2>1. 128 + (n % 128) \in Byte /\ n \div 128 \in Byte
    BY <1>2 DEF Byte
  <2>2. LengthBytes(n) = <<128 + (n % 128), n \div 128>>
    BY <1>2 DEF LengthBytes
  <2> QED
    BY <1>2, <2>1, <2>2
<1> QED
    BY <1>1, <1>2

LEMMA FirstByte ==
    ASSUME NEW p, WellFormed(p)
    PROVE  /\ 16 * p.type + Flags(p) \in Byte
           /\ (16 * p.type + Flags(p)) \div 16 = p.type
           /\ p.type = PUBLISH => (((16 * p.type + Flags(p)) % 8) \div 2) = p.qos
<1>1. p.type \in {3, 4, 5, 6, 7, 9, 11, 13} /\ p.qos \in 0 .. 2
    BY DEF WellFormed, Message, PUBLISH, PUBACK, PUBREC, PUBREL, PUBCOMP, SUBACK, UNSUBACK, PINGRESP
<1>2. Flags(p) \in {0, 2, 4} /\ (p.type = 3 => Flags(p) = 2 * p.qos)
    BY <1>1 DEF Flags, PUBREL
<1>3. PICK t \in {3, 4, 5, 6, 7, 9, 11, 13}, q \in 0 .. 2, f \in {0, 2, 4} :
            t = p.type /\ q = p.qos /\ f = Flags(p) /\ (t = 3 => f = 2 * q)
    BY <1>1, <1>2
<1>4. /\ 16 * t + f \in Byte /\ (16 * t + f) \div 16 = t
      /\ t = 3 => (((16 * t + f) % 8) \div 2) = q
    BY <1>3 DEF Byte
<1> QED
    BY <1>3, <1>4 DEF PUBLISH

LEMMA BodyTyped ==
    ASSUME NEW p, WellFormed(p)
    PROVE  Body(p) \in Seq(Byte) /\ Len(Body(p)) \in Nat /\ Len(Body(p)) \div 128 < 128
<1>1. Body(p) \in Seq(Byte)
    BY BodyOfPublish, BodyOfAnswer
<1> QED
    BY <1>1, LenProperties DEF WellFormed

\* What the bytes of a packet are.
LEMMA ShapeOfBytes ==
    ASSUME NEW p, WellFormed(p)
    PROVE  LET B == Bytes(p)  L == Len(Body(p))
           IN  /\ L \in Nat /\ L \div 128 < 128
               /\ B \in Seq(Byte) /\ Len(B) = Fixed(p) + L
               /\ B[1] = 16 * p.type + Flags(p)
               /\ L < 128 => B[2] = L
               /\ L >= 128 => B[2] = 128 + (L % 128) /\ B[3] = L \div 128
               /\ \A i \in 1 .. L : B[Fixed(p) + i] = Body(p)[i]
<1>1. PICK b \in Seq(Byte) : b = Body(p) /\ Len(b) \in Nat /\ Len(b) \div 128 < 128
    BY BodyTyped
<1>2. PICK first \in Byte : first = 16 * p.type + Flags(p)
    BY FirstByte
<1>3. PICK f \in Seq(Byte) : f = <<first>> /\ Len(f) = 1 /\ f[1] = first
  <2>1. <<first>> \in Seq(Byte) /\ Len(<<first>>) = 1 /\ <<first>>[1] = first
    OBVIOUS
  <2> QED
    BY <2>1, Zenon
<1>4. PICK n \in Nat : n = Len(b) /\ n \div 128 < 128
    BY <1>1
<1>5. PICK l \in Seq(Byte) :
        /\ l = LengthBytes(n)
        /\ n < 128 => Len(l) = 1 /\ l[1] = n
        /\ n >= 128 => Len(l) = 2 /\ l[1] = 128 + (n % 128) /\ l[2] = n \div 128
    BY <1>4, LengthBytesShape
<1>6. PICK h \in Seq(Byte) : h = f \o l /\ IsJoin(h, f, l)
    BY Joined, Zenon
<1>7. PICK B \in Seq(Byte) : B = h \o b /\ IsJoin(B, h, b)
    BY Joined, Zenon
<1>8. B = Bytes(p)
    BY <1>1, <1>2, <1>3, <1>4, <1>5, <1>6, <1>7, Zenon DEF Bytes
<1>9. Len(h) = Fixed(p)
  <2>1. Len(h) = IF n < 128 THEN 2 ELSE 3
    <3>1. Len(h) = 1 + Len(l)
      BY <1>3, <1>6 DEF IsJoin
    <3>2. Len(l) = IF n < 128 THEN 1 ELSE 2
      BY <1>4, <1>5
    <3> QED
      BY <3>1, <3>2
  <2> QED
    BY <1>1, <1>4, <2>1, Zenon DEF Fixed
<1>10. B[1] = first
    BY <1>3, <1>6, <1>7 DEF IsJoin
<1>11. Len(B) = Len(h) + n /\ \A i \in 1 .. n : B[Len(h) + i] = b[i]
    BY <1>4, <1>7 DEF IsJoin
<1>12. /\ n < 128 => B[2] = n
       /\ n >= 128 => B[2] = 128 + (n % 128) /\ B[3] = n \div 128
  <2>1. CASE n < 128
    BY <1>3, <1>5, <1>6, <1>7, <2>1 DEF IsJoin
  <2>2. CASE n >= 128
    BY <1>3, <1>5, <1>6, <1>7, <2>2 DEF IsJoin
  <2> QED
    BY <2>1, <2>2
<1> QED
    BY <1>1, <1>2, <1>4, <1>8, <1>9, <1>10, <1>11, <1>12, Zenon

-----------------------------------------------------------------------------
(* The decoders, on the first bytes of a packet.                           *)

\* b are bytes from the start of the packet.
IsStart(b, p) ==
    /\ b \in Seq(Byte) /\ Len(b) \in Nat /\ Len(b) <= Len(Bytes(p))
    /\ \A i \in 1 .. Len(b) : b[i] = Bytes(p)[i]

\* What the length bytes of a packet say.
LEMMA LengthOfBytes ==
    ASSUME NEW p, WellFormed(p)
    PROVE  LET B == Bytes(p)
           IN  /\ Len(B) \in Nat /\ B[2] \in Int
               /\ \/ /\ Fixed(p) = 2 /\ 2 <= Len(B)
                     /\ B[2] < 128 /\ Len(B) = 2 + (B[2] % 128)
                  \/ /\ Fixed(p) = 3 /\ 3 <= Len(B)
                     /\ B[2] >= 128 /\ B[3] \in Int /\ B[3] < 128
                     /\ Len(B) = 3 + (B[2] % 128) + (B[3] % 128) * 128
<1>1. PICK L \in Nat : L = Len(Body(p)) /\ L \div 128 < 128
    BY ShapeOfBytes
<1>2. PICK B : B = Bytes(p)
    OBVIOUS
<1>3. /\ Len(B) = Fixed(p) + L
      /\ L < 128 => B[2] = L
      /\ L >= 128 => B[2] = 128 + (L % 128) /\ B[3] = L \div 128
    BY <1>1, <1>2, ShapeOfBytes, Zenon
<1>4. CASE L < 128
  <2>1. Fixed(p) = 2
    BY <1>1, <1>4 DEF Fixed
  <2>2. B[2] = L /\ L % 128 = L /\ Len(B) = 2 + L
    BY <1>3, <1>4, <2>1
  <2> QED
    BY <1>2, <1>4, <2>1, <2>2
<1>5. CASE ~(L < 128)
  <2>1. Fixed(p) = 3
    BY <1>1, <1>5 DEF Fixed
  <2>2. /\ B[2] = 128 + (L % 128) /\ B[3] = L \div 128 /\ Len(B) = 3 + L
    BY <1>3, <1>5, <2>1
  <2>3. /\ (128 + (L % 128)) % 128 = L % 128 /\ (L \div 128) % 128 = L \div 128
        /\ L = (L % 128) + (L \div 128) * 128 /\ 128 + (L % 128) >= 128
        /\ L \div 128 \in Int /\ 128 + (L % 128) \in Int
    BY <1>1
  <2> QED
    BY <1>1, <1>2, <2>1, <2>2, <2>3
<1> QED
    BY <1>4, <1>5

LEMMA FirstLowByte ==
    ASSUME NEW b, NEW n \in Nat, n = Len(b), NEW f \in 2 .. n, ~More(b[f]),
           \A i \in 2 .. f - 1 : More(b[i])
    PROVE  FixedLength(b) = f
<1> DEFINE last == {i \in 2 .. Len(b) : ~More(b[i])}
<1>1. f \in last /\ \A j \in last : f <= j
    OBVIOUS
<1>2. \A i \in last : (\A j \in last : i <= j) => i = f
    BY <1>1
<1>3. (CHOOSE i \in last : \A j \in last : i <= j) = f
    BY <1>1, <1>2, Zenon
<1> QED
    BY <1>1, <1>3, Zenon DEF FixedLength

LEMMA NoSeptet ==
    ASSUME NEW b, NEW i, NEW weight, ~(i <= FixedLength(b))
    PROVE  Septet(b, i, weight) = 0
BY DEF Septet

\* The type, the qos and the lengths, as soon as the fixed header is there.
LEMMA HeaderRead ==
    ASSUME NEW p, WellFormed(p), NEW b, IsStart(b, p), Fixed(p) <= Len(b)
    PROVE  /\ FixedLength(b) = Fixed(p)
           /\ TotalLength(b) = Len(Bytes(p))
           /\ TypeOf(b) = p.type
           /\ p.type = PUBLISH => QosOf(b) = p.qos
<1>1. PICK n \in Nat : n = Len(b) /\ Fixed(p) <= n /\ \A i \in 1 .. n : b[i] = Bytes(p)[i]
    BY Zenon DEF IsStart
<1>2. /\ ~(4 <= FixedLength(b)) => Septet(b, 4, 128^2) = 0
      /\ ~(5 <= FixedLength(b)) => Septet(b, 5, 128^3) = 0
      /\ ~(6 <= FixedLength(b)) => Septet(b, 6, 128^4) = 0
    BY NoSeptet, Zenon
<1>3. FixedLength(b) = Fixed(p) /\ TotalLength(b) = Len(Bytes(p))
  <2>1. CASE /\ Fixed(p) = 2 /\ Bytes(p)[2] \in Int /\ Bytes(p)[2] < 128
             /\ Len(Bytes(p)) = 2 + (Bytes(p)[2] % 128)
    <3>1. 2 \in 2 .. n /\ b[2] = Bytes(p)[2]
      BY <1>1, <2>1
    <3>2. FixedLength(b) = 2
      BY <1>1, <2>1, <3>1, FirstLowByte DEF More
    <3>3. Septet(b, 2, 1) = Bytes(p)[2] % 128 /\ Septet(b, 3, 128) = 0
      BY <2>1, <3>1, <3>2 DEF Septet
    <3>4. Septet(b, 4, 128^2) = 0 /\ Septet(b, 5, 128^3) = 0 /\ Septet(b, 6, 128^4) = 0
      BY <1>2, <3>2
    <3>5. 2 + (Bytes(p)[2] % 128) + 0 + 0 + 0 + 0 = Len(Bytes(p))
      BY <2>1
    <3> QED
      BY <2>1, <3>2, <3>3, <3>4, <3>5, Zenon DEF TotalLength
  <2>2. CASE /\ Fixed(p) = 3 /\ Bytes(p)[2] \in Int /\ Bytes(p)[2] >= 128
             /\ Bytes(p)[3] \in Int /\ Bytes(p)[3] < 128
             /\ Len(Bytes(p)) = 3 + (Bytes(p)[2] % 128) + (Bytes(p)[3] % 128) * 128
    <3>1. 3 \in 2 .. n /\ b[2] = Bytes(p)[2] /\ b[3] = Bytes(p)[3]
      BY <1>1, <2>2
    <3>2. FixedLength(b) = 3
      <4>0. ~More(b[3]) /\ More(b[2])
        BY <2>2, <3>1 DEF More
      <4>1. ~More(b[3]) /\ \A i \in 2 .. 3 - 1 : More(b[i])
        <5>1. \A i \in 2 .. 3 - 1 : i = 2
          OBVIOUS
        <5> QED
          BY <4>0, <5>1, Zenon
      <4> QED
        BY <1>1, <3>1, <4>1, FirstLowByte
    <3>3. Septet(b, 2, 1) = Bytes(p)[2] % 128 /\ Septet(b, 3, 128) = (Bytes(p)[3] % 128) * 128
      BY <2>2, <3>1, <3>2 DEF Septet
    <3>4. Septet(b, 4, 128^2) = 0 /\ Septet(b, 5, 128^3) = 0 /\ Septet(b, 6, 128^4) = 0
      BY <1>2, <3>2
    <3>5. 3 + (Bytes(p)[2] % 128) + (Bytes(p)[3] % 128) * 128 + 0 + 0 + 0 = Len(Bytes(p))
      BY <2>2
    <3> QED
      BY <2>2, <3>2, <3>3, <3>4, <3>5, Zenon DEF TotalLength
  <2> QED
    BY <2>1, <2>2, LengthOfBytes
<1>4. b[1] = 16 * p.type + Flags(p)
  <2>1. 1 \in 1 .. n
    BY <1>1 DEF Fixed
  <2>2. b[1] = Bytes(p)[1]
    BY <1>1, <2>1, Zenon
  <2> QED
    BY <2>2, ShapeOfBytes, Zenon
<1>5. TypeOf(b) = p.type /\ (p.type = PUBLISH => QosOf(b) = p.qos)
    BY <1>4, FirstByte, Zenon DEF TypeOf, QosOf
<1> QED
    BY <1>3, <1>5, Zenon

\* The loop over the length bytes goes on inside of the fixed header only, as
\* far as the bytes behind it are low.
LEMMA OpenInHeader ==
    ASSUME NEW p, WellFormed(p), LowStart(p), NEW b, IsStart(b, p), 2 <= Len(b),
           Len(b) <= Fixed(p) \/ Len(b) < Len(Bytes(p))
    PROVE  LengthOpen(b) <=> Len(b) < Fixed(p)
<1>1. PICK n \in Nat : n = Len(b) /\ 2 <= n /\ \A i \in 1 .. n : b[i] = Bytes(p)[i]
    BY Zenon DEF IsStart
<1>2. n \in 1 .. n /\ 2 \in 1 .. n /\ b[n] = Bytes(p)[n] /\ b[2] = Bytes(p)[2]
    BY <1>1
<1>3. LengthOpen(b) <=> n < 6 /\ b[n] >= 128
    BY <1>1, Zenon DEF LengthOpen, More
<1>4. CASE n > Fixed(p)
  <2>1. Fixed(p) \in {2, 3} /\ n < Len(Bytes(p))
    BY <1>1, <1>4 DEF Fixed
  <2>2. n < 6 => n \in Fixed(p) + 1 .. 5
    BY <1>4, <2>1
  <2>3. n < 6 => Bytes(p)[n] < 128
    BY <2>1, <2>2 DEF LowStart
  <2>4. Bytes(p)[n] \in Int
    <3>1. Bytes(p) \in Seq(Byte)
      BY ShapeOfBytes
    <3>2. n \in 1 .. Len(Bytes(p))
      BY <1>1, <2>1, LengthOfBytes
    <3>3. Bytes(p)[n] \in Byte
      BY <3>1, <3>2, ElementOfSeq
    <3> QED
      BY <3>3, ByteIsInt, Zenon
  <2> QED
    BY <1>1, <1>2, <1>3, <1>4, <2>1, <2>3, <2>4
<1>5. CASE ~(n > Fixed(p))
  <2>1. CASE Fixed(p) = 2 /\ Bytes(p)[2] \in Int /\ Bytes(p)[2] < 128
    BY <1>1, <1>2, <1>3, <1>5, <2>1
  <2>2. CASE /\ Fixed(p) = 3 /\ Bytes(p)[2] \in Int /\ Bytes(p)[2] >= 128
             /\ Bytes(p)[3] \in Int /\ Bytes(p)[3] < 128
    <3>1. CASE n = 2
      BY <1>1, <1>2, <1>3, <2>2, <3>1
    <3>2. CASE n = 3
      BY <1>1, <1>2, <1>3, <2>2, <3>2
    <3> QED
      BY <1>1, <1>5, <2>2, <3>1, <3>2
  <2> QED
    BY <2>1, <2>2, LengthOfBytes
<1> QED
    BY <1>4, <1>5

\* B is the publish p: a fixed header of F bytes, then its body; its payload
\* starts behind H bytes.
IsPublish(B, p, F, T, W, D, H) ==
    /\ F \in {2, 3} /\ T \in Nat /\ D \in Nat /\ W \in {0, 2}
    /\ H = F + 2 + T + W /\ Len(B) = H + D
    /\ B[F + 1] = T \div 256 /\ B[F + 2] = T % 256
    /\ \A i \in 1 .. T : B[F + 2 + i] = p.topic[i]
    /\ p.qos > 0 => B[F + 2 + T + 1] = p.id \div 256 /\ B[F + 2 + T + 2] = p.id % 256
    /\ \A i \in 1 .. D : B[H + i] = p.data[i]

LEMMA BytesOfPublish ==
    ASSUME NEW p, WellFormed(p), p.type = PUBLISH
    PROVE  IsPublish(Bytes(p), p, Fixed(p), Len(p.topic), WithId(p), Len(p.data), Header(p))
<1>1. PICK F, T, D, W, L : /\ F = Fixed(p) /\ T = Len(p.topic) /\ D = Len(p.data)
                           /\ W = WithId(p) /\ L = Len(Body(p))
    OBVIOUS
<1>2. F \in {2, 3} /\ W \in {0, 2}
    BY <1>1 DEF Fixed, WithId
<1>3. PICK B, b : B = Bytes(p) /\ b = Body(p)
    OBVIOUS
<1>4. /\ B \in Seq(Byte) /\ L \in Nat /\ Len(B) = F + L
      /\ \A i \in 1 .. L : B[F + i] = b[i]
    BY <1>1, <1>3, ShapeOfBytes, Zenon
<1>0. IsPublishBody(b, p, T, W, D)
    BY <1>1, <1>3, BodyOfPublish, Zenon
<1>5. /\ T \in Nat /\ D \in Nat /\ L = 2 + T + W + D
      /\ b[1] = T \div 256 /\ b[2] = T % 256
      /\ \A i \in 1 .. T : b[2 + i] = p.topic[i]
      /\ p.qos > 0 => b[2 + T + 1] = p.id \div 256 /\ b[2 + T + 2] = p.id % 256
      /\ \A i \in 1 .. D : b[2 + T + W + i] = p.data[i]
    BY <1>0, <1>1, <1>3, Zenon DEF IsPublishBody
<1>6. PICK H : H = F + 2 + T + W
    OBVIOUS
<1>7. H = Header(p)
    BY <1>1, <1>6, Zenon DEF Header
<1>8. Len(B) = H + D
    BY <1>2, <1>4, <1>5, <1>6
<1>9. B[F + 1] = b[1] /\ B[F + 2] = b[2]
    BY <1>2, <1>4, <1>5
<1>10. ASSUME NEW i \in 1 .. T PROVE B[F + 2 + i] = p.topic[i]
  <2>1. 2 + i \in 1 .. L /\ F + (2 + i) = F + 2 + i
    BY <1>2, <1>5
  <2>2. B[F + (2 + i)] = b[2 + i]
    BY <1>4, <2>1
  <2> QED
    BY <1>5, <2>1, <2>2
<1>11. ASSUME p.qos > 0
       PROVE  B[F + 2 + T + 1] = p.id \div 256 /\ B[F + 2 + T + 2] = p.id % 256
  <2>1. W = 2
    BY <1>1, <1>11, Zenon DEF WithId
  <2>2. /\ 2 + T + 1 \in 1 .. L /\ F + (2 + T + 1) = F + 2 + T + 1
        /\ 2 + T + 2 \in 1 .. L /\ F + (2 + T + 2) = F + 2 + T + 2
    BY <1>2, <1>5, <2>1
  <2>3. B[F + (2 + T + 1)] = b[2 + T + 1] /\ B[F + (2 + T + 2)] = b[2 + T + 2]
    BY <1>4, <2>2
  <2> QED
    BY <1>5, <1>11, <2>2, <2>3, Zenon
<1>12. ASSUME NEW i \in 1 .. D PROVE B[H + i] = p.data[i]
  <2>1. 2 + T + W + i \in 1 .. L /\ F + (2 + T + W + i) = H + i
    BY <1>2, <1>5, <1>6
  <2>2. B[F + (2 + T + W + i)] = b[2 + T + W + i]
    BY <1>4, <2>1
  <2> QED
    BY <1>5, <2>1, <2>2
<1>13. IsPublish(B, p, F, T, W, D, H)
    BY <1>2, <1>5, <1>6, <1>8, <1>9, <1>10, <1>11, <1>12, Zenon DEF IsPublish
<1> QED
    BY <1>1, <1>3, <1>7, <1>13, Zenon

LEMMA Slice ==
    ASSUME NEW b \in Seq(Byte), NEW s \in Seq(Byte), NEW k \in Nat, NEW n \in 0 .. Len(s),
           k + n <= Len(b), \A i \in 1 .. n : b[k + i] = s[i]
    PROVE  SubSeq(b, k + 1, k + n) = SubSeq(s, 1, n)
<1>1. Len(b) \in Nat /\ Len(s) \in Nat /\ n \in Nat /\ n <= Len(s)
    BY LenProperties
<1>2. \A i \in k + 1 .. k + n : b[i] \in Byte
    BY <1>1, ElementOfSeq
<1>3. \A i \in 1 .. n : s[i] \in Byte
    BY <1>1, ElementOfSeq
<1>4. PICK x \in Seq(Byte) :
        /\ x = SubSeq(b, k + 1, k + n) /\ Len(x) = n
        /\ \A i \in 1 .. n : x[i] = b[k + i]
  <2>1. /\ SubSeq(b, k + 1, k + n) \in Seq(Byte)
        /\ Len(SubSeq(b, k + 1, k + n)) = IF k + 1 <= k + n THEN k + n - (k + 1) + 1 ELSE 0
        /\ \A i \in 1 .. k + n - (k + 1) + 1 : SubSeq(b, k + 1, k + n)[i] = b[k + 1 + i - 1]
    BY <1>1, <1>2, SubSeqProperties
  <2>2. Len(SubSeq(b, k + 1, k + n)) = n
    BY <1>1, <2>1
  <2>3. \A i \in 1 .. n : SubSeq(b, k + 1, k + n)[i] = b[k + i]
    BY <1>1, <2>1
  <2> QED
    BY <2>1, <2>2, <2>3, Zenon
<1>5. PICK y \in Seq(Byte) :
        /\ y = SubSeq(s, 1, n) /\ Len(y) = n
        /\ \A i \in 1 .. n : y[i] = s[i]
  <2>1. /\ SubSeq(s, 1, n) \in Seq(Byte)
        /\ Len(SubSeq(s, 1, n)) = IF 1 <= n THEN n - 1 + 1 ELSE 0
        /\ \A i \in 1 .. n - 1 + 1 : SubSeq(s, 1, n)[i] = s[1 + i - 1]
    BY <1>1, <1>3, SubSeqProperties
  <2>2. Len(SubSeq(s, 1, n)) = n
    BY <1>1, <2>1
  <2>3. \A i \in 1 .. n : SubSeq(s, 1, n)[i] = s[i]
    BY <1>1, <2>1
  <2> QED
    BY <2>1, <2>2, <2>3, Zenon
<1>6. x = y
    BY <1>4, <1>5, SeqEqual
<1> QED
    BY <1>4, <1>5, <1>6, Zenon

LEMMA WordRead ==
    ASSUME NEW b, NEW i, NEW n \in Nat, b[i] = n \div 256, b[i + 1] = n % 256
    PROVE  WordAt(b, i) = n
<1>1. 256 * (n \div 256) + (n % 256) = n
    OBVIOUS
<1> QED
    BY <1>1 DEF WordAt

\* The topic of a publish, and where its payload is, once the length of the
\* topic is there.
LEMMA TopicRead ==
    ASSUME NEW p, WellFormed(p), p.type = PUBLISH, NEW b, IsStart(b, p), Fixed(p) + 2 <= Len(b)
    PROVE  /\ TopicLen(b) = Len(p.topic) /\ TopicAt(b) = Fixed(p) + 2
           /\ DataAt(b) = Header(p) /\ TopicEnd(b) = Header(p) - 2
<1>1. PICK B, F, T, W, D, H, n :
        /\ B = Bytes(p) /\ F = Fixed(p) /\ T = Len(p.topic) /\ W = WithId(p)
        /\ D = Len(p.data) /\ H = Header(p) /\ n = Len(b)
    OBVIOUS
<1>2. /\ F \in {2, 3} /\ T \in Nat /\ D \in Nat /\ W \in {0, 2} /\ H = F + 2 + T + W
      /\ B[F + 1] = T \div 256 /\ B[F + 2] = T % 256
    BY <1>1, BytesOfPublish, Zenon DEF IsPublish
<1>3. n \in Nat /\ F + 2 <= n /\ \A i \in 1 .. n : b[i] = B[i]
    BY <1>1, Zenon DEF IsStart
<1>4. FixedLength(b) = F /\ QosOf(b) = p.qos
  <2>1. Fixed(p) <= Len(b)
    BY <1>1, <1>2, <1>3
  <2> QED
    BY <1>1, <2>1, HeaderRead, Zenon
<1>5. WordAt(b, F + 1) = T
  <2>1. b[F + 1] = T \div 256 /\ b[F + 1 + 1] = T % 256
    BY <1>2, <1>3
  <2> QED
    BY <1>2, <2>1, WordRead
<1>6. W = IF QosOf(b) > 0 THEN 2 ELSE 0
    BY <1>1, <1>4, Zenon DEF WithId
<1>7. TopicLen(b) = T /\ TopicAt(b) = F + 2
    BY <1>4, <1>5, Zenon DEF TopicLen, TopicAt
<1>8. DataAt(b) = F + 2 + T + W
    BY <1>6, <1>7, Zenon DEF DataAt
<1>9. TopicEnd(b) = F + T + W
    BY <1>4, <1>5, <1>6, Zenon DEF TopicEnd
<1>10. F + T + W = H - 2
    BY <1>2
<1> QED
    BY <1>1, <1>2, <1>7, <1>8, <1>9, <1>10, Zenon

\* The first n bytes of the payload of p are there.
PartOf(p, n) ==
    [type |-> p.type, qos |-> p.qos, id |-> p.id, topic |-> p.topic,
     data |-> SubSeq(p.data, 1, n)]

\* What is delivered first of a publish whose identifier is in the buffer.
LEMMA PublishRead ==
    ASSUME NEW p, WellFormed(p), p.type = PUBLISH, NEW b, IsStart(b, p), Header(p) <= Len(b)
    PROVE  Published(b) = PartOf(p, Len(b) - Header(p))
<1>1. PICK B, F, T, W, D, H, n :
        /\ B = Bytes(p) /\ F = Fixed(p) /\ T = Len(p.topic) /\ W = WithId(p)
        /\ D = Len(p.data) /\ H = Header(p) /\ n = Len(b)
    OBVIOUS
<1>2. IsPublish(B, p, F, T, W, D, H)
    BY <1>1, BytesOfPublish, Zenon
<1>3. n \in Nat /\ H <= n /\ n <= Len(B) /\ \A i \in 1 .. n : b[i] = B[i]
    BY <1>1, Zenon DEF IsStart
<1>4. F + 2 <= n /\ F <= n /\ n <= H + D
    BY <1>2, <1>3 DEF IsPublish
<1>5. TopicLen(b) = T /\ TopicAt(b) = F + 2 /\ DataAt(b) = H
    BY <1>1, <1>4, TopicRead, Zenon
<1>6. TypeOf(b) = PUBLISH /\ QosOf(b) = p.qos /\ TotalLength(b) = Len(B)
    BY <1>1, <1>4, HeaderRead, Zenon
<1>7. /\ p.topic \in Seq(Byte) /\ p.data \in Seq(Byte) /\ p.id \in Identifier /\ p.qos \in 0 .. 2
      /\ b \in Seq(Byte)
      /\ p.qos = 0 => p.id = 0
    BY DEF WellFormed, Message, IsStart
<1>8. SubSeq(b, TopicAt(b) + 1, TopicAt(b) + TopicLen(b)) = p.topic
  <2>1. PICK topic \in Seq(Byte) : topic = p.topic /\ Len(topic) = T
    BY <1>1, <1>7, Zenon
  <2>2. F + 2 \in Nat /\ T \in 0 .. Len(topic) /\ F + 2 + T <= n
    BY <1>2, <1>3, <2>1 DEF IsPublish
  <2>3. ASSUME NEW i \in 1 .. T PROVE b[F + 2 + i] = topic[i]
    <3>1. F + 2 + i \in 1 .. n
      BY <1>2, <1>3 DEF IsPublish
    <3> QED
      BY <1>2, <1>3, <2>1, <3>1, Zenon DEF IsPublish
  <2>4. SubSeq(b, F + 2 + 1, F + 2 + T) = SubSeq(topic, 1, T)
    BY <1>1, <1>7, <2>2, <2>3, Slice, Zenon
  <2>5. SubSeq(topic, 1, T) = topic
    BY <2>1, SubSeqFull, Zenon
  <2> QED
    BY <1>5, <2>1, <2>4, <2>5, Zenon
<1>9. DataOf(b) = SubSeq(p.data, 1, n - H)
  <2>1. PICK data \in Seq(Byte) : data = p.data /\ Len(data) = D
    BY <1>1, <1>7, Zenon
  <2>2. H \in Nat /\ n - H \in 0 .. Len(data) /\ H + (n - H) = n
    BY <1>2, <1>3, <1>4, <2>1 DEF IsPublish
  <2>3. ASSUME NEW i \in 1 .. n - H PROVE b[H + i] = data[i]
    <3>1. H + i \in 1 .. n /\ i \in 1 .. D
      BY <1>2, <1>3, <1>4 DEF IsPublish
    <3> QED
      BY <1>2, <1>3, <2>1, <3>1, Zenon DEF IsPublish
  <2>4. SubSeq(b, H + 1, H + (n - H)) = SubSeq(data, 1, n - H)
    <3>1. H + (n - H) <= Len(b)
      BY <1>1, <1>3, <2>2
    <3> QED
      BY <1>7, <2>2, <2>3, <3>1, Slice, Zenon
  <2>5. (IF TotalLength(b) <= Len(b) THEN TotalLength(b) ELSE Len(b)) = n
    BY <1>1, <1>2, <1>3, <1>6 DEF IsPublish
  <2> QED
    BY <1>5, <2>1, <2>2, <2>4, <2>5, Zenon DEF DataOf
<1>10. IdOf(b) = p.id
  <2>1. CASE p.qos > 0
    <3>1. F + 2 + T + 1 = H - 1 /\ F + 2 + T + 2 = H - 1 + 1 /\ H - 1 \in 1 .. n /\ H - 1 + 1 \in 1 .. n
      <4>1. W = 2
        BY <1>1, <2>1, Zenon DEF WithId
      <4> QED
        BY <1>2, <1>3, <4>1 DEF IsPublish
    <3>2. B[F + 2 + T + 1] = p.id \div 256 /\ B[F + 2 + T + 2] = p.id % 256
      BY <1>2, <2>1, Zenon DEF IsPublish
    <3>3. b[H - 1] = B[H - 1] /\ b[H - 1 + 1] = B[H - 1 + 1]
      BY <1>3, <3>1, Zenon
    <3>4. b[H - 1] = p.id \div 256 /\ b[H - 1 + 1] = p.id % 256
      BY <3>1, <3>2, <3>3, Zenon
    <3>5. PICK i \in Nat : i = p.id
      BY <1>7, IdentifierRange, Zenon
    <3>6. WordAt(b, H - 1) = p.id
      BY <3>4, <3>5, WordRead
    <3> QED
      BY <1>1, <1>3, <1>5, <1>6, <2>1, <3>6, Zenon DEF IdOf
  <2>2. CASE ~(p.qos > 0)
    <3>1. p.qos = 0
      BY <1>7, <2>2
    <3> QED
      BY <1>6, <1>7, <2>2, <3>1, Zenon DEF IdOf
  <2> QED
    BY <2>1, <2>2
<1> QED
    BY <1>1, <1>6, <1>8, <1>9, <1>10, Zenon DEF Published, PartOf

LEMMA WholePart ==
    ASSUME NEW p, WellFormed(p)
    PROVE  PartOf(p, Len(p.data)) = p
<1>1. p \in Message
    BY DEF WellFormed
<1>2. PICK data \in Seq(Byte) : data = p.data
    BY <1>1 DEF Message
<1>3. SubSeq(data, 1, Len(data)) = data
    BY SubSeqFull
<1>4. PartOf(p, Len(p.data)) =
        [type |-> p.type, qos |-> p.qos, id |-> p.id, topic |-> p.topic, data |-> p.data]
    BY <1>2, <1>3, Zenon DEF PartOf
<1> QED
    BY <1>1, <1>4 DEF Message

\* B is a packet with an identifier of two bytes and a payload of D.
IsAnswer(B, p, D) ==
    /\ D \in Nat /\ Len(B) = 4 + D /\ B[2] = 2 + D /\ 2 + D < 128
    /\ B[3] = p.id \div 256 /\ B[4] = p.id % 256
    /\ \A i \in 1 .. D : B[4 + i] = p.data[i]

LEMMA BytesOfAnswer ==
    ASSUME NEW p, WellFormed(p), p.type \notin {PUBLISH, PINGRESP}
    PROVE  IsAnswer(Bytes(p), p, Len(p.data))
<1>1. PICK B, b, D, L : B = Bytes(p) /\ b = Body(p) /\ D = Len(p.data) /\ L = Len(Body(p))
    OBVIOUS
<1>2. L < 128 /\ Fixed(p) = 2
    BY <1>1, Zenon DEF WellFormed, Fixed
<1>3. /\ L \in Nat /\ Len(B) = 2 + L /\ B[2] = L
      /\ \A i \in 1 .. L : B[2 + i] = b[i]
  <2>1. /\ L \in Nat /\ Len(B) = Fixed(p) + L
        /\ L < 128 => B[2] = L
        /\ \A i \in 1 .. L : B[Fixed(p) + i] = b[i]
    BY <1>1, ShapeOfBytes, Zenon
  <2> QED
    BY <1>2, <2>1, Zenon
<1>4. /\ D \in Nat /\ L = 2 + D
      /\ b[1] = p.id \div 256 /\ b[2] = p.id % 256
      /\ \A i \in 1 .. D : b[2 + i] = p.data[i]
  <2>1. p.type # PUBLISH /\ p.type # PINGRESP
    OBVIOUS
  <2> QED
    BY <1>1, <2>1, BodyOfAnswer
<1>5. B[3] = b[1] /\ B[4] = b[2]
  <2>1. 1 \in 1 .. L /\ 2 \in 1 .. L /\ 2 + 1 = 3 /\ 2 + 2 = 4
    BY <1>4
  <2> QED
    BY <1>3, <2>1
<1>6. ASSUME NEW i \in 1 .. D PROVE B[4 + i] = p.data[i]
  <2>1. 2 + i \in 1 .. L /\ 2 + (2 + i) = 4 + i
    BY <1>4
  <2>2. B[2 + (2 + i)] = b[2 + i]
    BY <1>3, <2>1
  <2> QED
    BY <1>4, <2>1, <2>2
<1>7. Len(B) = 4 + D /\ B[2] = 2 + D /\ 2 + D < 128
    BY <1>2, <1>3, <1>4
<1>8. IsAnswer(B, p, D)
    BY <1>4, <1>5, <1>6, <1>7, Zenon DEF IsAnswer
<1> QED
    BY <1>1, <1>8, Zenon

\* What is understood of any other packet that is there as a whole.
LEMMA AnswerRead ==
    ASSUME NEW p, WellFormed(p), p.type # PUBLISH, NEW b, IsStart(b, p),
           Len(b) = Len(Bytes(p))
    PROVE  Answer(b) = p
<1>1. PICK B, D, n : B = Bytes(p) /\ D = Len(p.data) /\ n = Len(b)
    OBVIOUS
<1>2. b \in Seq(Byte) /\ n \in Nat /\ n = Len(B) /\ \A i \in 1 .. n : b[i] = B[i]
    BY <1>1, Zenon DEF IsStart
<1>3. TypeOf(b) = p.type
  <2>1. Fixed(p) <= Len(b)
    BY LengthOfBytes
  <2> QED
    BY <2>1, HeaderRead, Zenon
<1>4. /\ p \in Message /\ p.qos = 0 /\ p.topic = <<>>
      /\ p.type # SUBACK => p.data = <<>>
      /\ p.type = PINGRESP => p.id = 0
    BY Zenon DEF WellFormed
<1>5. p.type = PINGRESP => IdOf(b) = p.id
    BY <1>3, <1>4, Zenon DEF IdOf
<1>6. ASSUME p.type # PINGRESP PROVE IsAnswer(B, p, D)
    BY <1>1, <1>6, BytesOfAnswer, Zenon
<1>7. ASSUME p.type # PINGRESP PROVE IdOf(b) = p.id
  <2>1. /\ 2 \in 1 .. n /\ 3 \in 1 .. n /\ 4 \in 1 .. n /\ n >= 4
        /\ B[2] \in Int /\ B[2] < 128 /\ B[3] = p.id \div 256 /\ B[4] = p.id % 256
    BY <1>2, <1>6, <1>7 DEF IsAnswer
  <2>2. ~More(b[2])
    BY <1>2, <2>1 DEF More
  <2>3. b[3] = p.id \div 256 /\ b[3 + 1] = p.id % 256
    BY <1>2, <2>1
  <2>4. PICK i \in Nat : i = p.id
    BY <1>4, IdentifierRange, Zenon DEF Message
  <2>5. WordAt(b, 3) = p.id
    BY <2>3, <2>4, WordRead
  <2> QED
    BY <1>1, <1>3, <1>7, <2>1, <2>2, <2>5, Zenon DEF IdOf
<1>8. ASSUME p.type = SUBACK PROVE SubSeq(b, 5, Len(b)) = p.data
  <2>1. PICK data \in Seq(Byte) : data = p.data
    BY <1>4 DEF Message
  <2>2. IsAnswer(B, p, D)
    BY <1>6, <1>8 DEF SUBACK, PINGRESP
  <2>3. D \in Nat /\ n = 4 + D /\ \A i \in 1 .. D : B[4 + i] = data[i]
    BY <1>2, <2>1, <2>2, Zenon DEF IsAnswer
  <2>4. \A i \in 1 .. D : b[4 + i] = data[i]
    BY <1>2, <2>3
  <2>5. D = Len(data) /\ D \in 0 .. Len(data) /\ 4 + D <= Len(b) /\ 4 + 1 = 5
    BY <1>1, <2>1, <2>3
  <2>6. SubSeq(b, 4 + 1, 4 + D) = SubSeq(data, 1, D)
    BY <1>2, <2>4, <2>5, Slice
  <2>7. SubSeq(data, 1, D) = data
    BY <2>5, SubSeqFull, Zenon
  <2> QED
    BY <1>1, <2>1, <2>3, <2>5, <2>6, <2>7, Zenon
<1>9. (IF TypeOf(b) = SUBACK THEN SubSeq(b, 5, Len(b)) ELSE <<>>) = p.data
    BY <1>3, <1>4, <1>8, Zenon
<1>10. Answer(b) = [type |-> p.type, qos |-> p.qos, id |-> p.id, topic |-> p.topic, data |-> p.data]
    BY <1>3, <1>4, <1>5, <1>7, <1>9, Zenon DEF Answer
<1> QED
    BY <1>4, <1>10 DEF Message

LEMMA DataLength ==
    ASSUME NEW p, WellFormed(p)
    PROVE  Len(p.data) \in Nat /\ Len(Bytes(p)) \in Nat /\ Len(p.data) <= Len(Bytes(p))
<1>1. PICK B, F, T, W, D, H :
        /\ B = Bytes(p) /\ F = Fixed(p) /\ T = Len(p.topic) /\ W = WithId(p)
        /\ D = Len(p.data) /\ H = Header(p)
    OBVIOUS
<1>2. D \in Nat /\ Len(B) \in Nat
  <2>1. p.data \in Seq(Byte)
    BY DEF WellFormed, Message
  <2> QED
    BY <1>1, <2>1, LenProperties, LengthOfBytes
<1>3. D <= Len(B)
  <2>1. CASE p.type = PUBLISH
    <3>1. IsPublish(B, p, F, T, W, D, H)
      BY <1>1, <2>1, BytesOfPublish, Zenon
    <3>2. /\ F \in {2, 3} /\ T \in Nat /\ W \in {0, 2} /\ H = F + 2 + T + W /\ Len(B) = H + D
      BY <3>1, Zenon DEF IsPublish
    <3> QED
      BY <1>2, <3>2
  <2>2. CASE p.type \notin {PUBLISH, PINGRESP}
    <3>1. Len(B) = 4 + D
      BY <1>1, <2>2, BytesOfAnswer DEF IsAnswer
    <3> QED
      BY <1>2, <3>1
  <2>3. CASE p.type = PINGRESP
    <3>1. p.data = <<>>
      BY <2>3 DEF WellFormed, PUBLISH, SUBACK, PINGRESP
    <3>2. D = 0
      BY <1>1, <3>1
    <3> QED
      BY <1>2, <3>2
  <2> QED
    BY <2>1, <2>2, <2>3
<1> QED
    BY <1>1, <1>2, <1>3

-----------------------------------------------------------------------------
(* The stream.                                                             *)

\* Where the packets of s from the nth on begin in w: before its first byte if
\* some of their bytes have been read.
Lie(begin, w, s, n) ==
    /\ begin[Len(s) + 1] = Len(w)
    /\ \A i \in n .. Len(s) :
          /\ begin[i + 1] = begin[i] + Len(Bytes(s[i]))
          /\ begin[i + 1] <= Len(w)
          /\ \A j \in 1 .. Len(Bytes(s[i])) :
                begin[i] + j > 0 => w[begin[i] + j] = Bytes(s[i])[j]

\* w is what is left of the packets of s from the nth on when r bytes of them
\* have been read.
Rest(w, s, n, r) ==
    \E begin \in [n .. Len(s) + 1 -> Int] : begin[n] + r = 0 /\ Lie(begin, w, s, n)

LEMMA RestInit ==
    Rest(<<>>, <<>>, 1, 0)
<1> DEFINE begin == [i \in 1 .. 1 |-> 0]
<1>1. Len(<<>>) = 0
    OBVIOUS
<1>2. 0 + 1 = 1 /\ 0 + 0 = 0
    OBVIOUS
<1>3. \A i \in 1 .. 0 : FALSE
    OBVIOUS
<1>4. begin \in [1 .. 1 -> Int] /\ begin[1] = 0
    OBVIOUS
<1> HIDE DEF begin
<1>5. Lie(begin, <<>>, <<>>, 1)
    BY <1>1, <1>2, <1>3, <1>4, Zenon DEF Lie
<1> QED
    BY <1>1, <1>2, <1>4, <1>5, Zenon DEF Rest

\* x are the l elements of w behind the kth.
IsSlice(x, w, k, l) == Len(x) = l /\ \A i \in 1 .. l : x[i] = w[k + i]

LEMMA Dropped ==
    ASSUME NEW S, NEW w \in Seq(S), NEW k \in 0 .. Len(w)
    PROVE  /\ SubSeq(w, k + 1, Len(w)) \in Seq(S)
           /\ IsSlice(SubSeq(w, k + 1, Len(w)), w, k, Len(w) - k)
<1>1. Len(w) \in Nat /\ k \in Nat /\ k <= Len(w)
    BY LenProperties
<1>2. \A i \in k + 1 .. Len(w) : w[i] \in S
    BY <1>1, ElementOfSeq
<1>3. /\ SubSeq(w, k + 1, Len(w)) \in Seq(S)
      /\ Len(SubSeq(w, k + 1, Len(w))) = IF k + 1 <= Len(w) THEN Len(w) - (k + 1) + 1 ELSE 0
      /\ \A i \in 1 .. Len(w) - (k + 1) + 1 : SubSeq(w, k + 1, Len(w))[i] = w[k + 1 + i - 1]
    BY <1>1, <1>2, SubSeqProperties
<1>4. Len(SubSeq(w, k + 1, Len(w))) = Len(w) - k
    BY <1>1, <1>3
<1>5. \A i \in 1 .. Len(w) - k : SubSeq(w, k + 1, Len(w))[i] = w[k + i]
    BY <1>1, <1>3
<1> QED
    BY <1>3, <1>4, <1>5, Zenon DEF IsSlice

LEMMA TakenFront ==
    ASSUME NEW S, NEW w \in Seq(S), NEW k \in 0 .. Len(w)
    PROVE  /\ SubSeq(w, 1, k) \in Seq(S) /\ Len(SubSeq(w, 1, k)) = k
           /\ \A i \in 1 .. k : SubSeq(w, 1, k)[i] = w[i]
<1>1. Len(w) \in Nat /\ k \in Nat /\ k <= Len(w)
    BY LenProperties
<1>2. \A i \in 1 .. k : w[i] \in S
    BY <1>1, ElementOfSeq
<1>3. /\ SubSeq(w, 1, k) \in Seq(S)
      /\ Len(SubSeq(w, 1, k)) = IF 1 <= k THEN k - 1 + 1 ELSE 0
      /\ \A i \in 1 .. k - 1 + 1 : SubSeq(w, 1, k)[i] = w[1 + i - 1]
    BY <1>1, <1>2, SubSeqProperties
<1>4. Len(SubSeq(w, 1, k)) = k
    BY <1>1, <1>3
<1>5. \A i \in 1 .. k : SubSeq(w, 1, k)[i] = w[i]
    BY <1>1, <1>3
<1> QED
    BY <1>3, <1>4, <1>5, Zenon

\* The length of a packet of the stream.
LEMMA SentLength ==
    ASSUME AllReadable, NEW s \in Seq(Packets), NEW i \in 1 .. Len(s)
    PROVE  Readable(s[i]) /\ WellFormed(s[i]) /\ Len(Bytes(s[i])) \in Nat
<1>1. s[i] \in Packets
    BY ElementOfSeq
<1>2. Readable(s[i]) /\ WellFormed(s[i])
    BY <1>1, Zenon DEF AllReadable, Readable
<1> QED
    BY <1>2, LengthOfBytes

\* A read takes k bytes.
LEMMA RestTaken ==
    ASSUME AllReadable, NEW w \in Seq(Byte), NEW s \in Seq(Packets), NEW n \in 1 .. Len(s) + 1,
           NEW r \in Nat, Rest(w, s, n, r), NEW k \in 0 .. Len(w)
    PROVE  Rest(SubSeq(w, k + 1, Len(w)), s, n, r + k)
<1>0. Len(w) \in Nat /\ Len(s) \in Nat
    BY LenProperties
<1>1. PICK m \in Nat, z \in Nat : m = Len(w) /\ z = Len(s) /\ k \in Nat /\ k <= m /\ n \in 1 .. z + 1
    BY <1>0
<1>2. PICK x \in Seq(Byte) :
        x = SubSeq(w, k + 1, Len(w)) /\ IsSlice(x, w, k, Len(w) - k)
    BY Dropped, Zenon
<1>3. PICK begin \in [n .. Len(s) + 1 -> Int] : begin[n] + r = 0 /\ Lie(begin, w, s, n)
    BY Zenon DEF Rest
<1> DEFINE later == [i \in n .. Len(s) + 1 |-> begin[i] - k]
<1>4. /\ later \in [n .. Len(s) + 1 -> Int] /\ later[n] + (r + k) = 0
      /\ \A i \in n .. Len(s) + 1 : begin[i] \in Int /\ later[i] = begin[i] - k
  <2>1. \A i \in n .. Len(s) + 1 : begin[i] \in Int /\ begin[i] - k \in Int
    BY <1>1
  <2>2. n \in n .. Len(s) + 1
    BY <1>1
  <2>3. begin[n] - k + (r + k) = 0
    BY <1>1, <1>3, <2>1, <2>2
  <2> QED
    BY <1>3, <2>1, <2>2, <2>3
<1> HIDE DEF later
<1>5. later[Len(s) + 1] = Len(x)
  <2>1. begin[Len(s) + 1] = m /\ Len(x) = m - k
    BY <1>1, <1>2, <1>3, Zenon DEF Lie, IsSlice
  <2>2. Len(s) + 1 \in n .. Len(s) + 1
    BY <1>1
  <2> QED
    BY <1>4, <2>1, <2>2, Zenon
<1>6. ASSUME NEW i \in n .. Len(s)
      PROVE  /\ later[i + 1] = later[i] + Len(Bytes(s[i])) /\ later[i + 1] <= Len(x)
             /\ \A j \in 1 .. Len(Bytes(s[i])) :
                   later[i] + j > 0 => x[later[i] + j] = Bytes(s[i])[j]
  <2>0. i \in 1 .. Len(s)
    BY <1>1
  <2>1. PICK l \in Nat : l = Len(Bytes(s[i]))
    BY <2>0, SentLength
  <2>2. /\ begin[i + 1] = begin[i] + l /\ begin[i + 1] <= Len(w)
        /\ \A j \in 1 .. l : begin[i] + j > 0 => w[begin[i] + j] = Bytes(s[i])[j]
    BY <1>3, <2>1, Zenon DEF Lie
  <2>3. i \in n .. Len(s) + 1 /\ i + 1 \in n .. Len(s) + 1
    BY <1>1
  <2>4. PICK f \in Int, g \in Int :
          f = begin[i] /\ g = begin[i + 1] /\ later[i] = f - k /\ later[i + 1] = g - k
    BY <1>4, <2>3, Zenon
  <2>5. later[i + 1] = later[i] + l /\ later[i + 1] <= Len(x)
    <3>1. g = f + l /\ g <= m /\ Len(x) = m - k
      BY <1>1, <1>2, <2>2, <2>4, Zenon DEF IsSlice
    <3>2. g - k = f - k + l /\ g - k <= m - k
      BY <1>1, <3>1
    <3> QED
      BY <2>4, <3>1, <3>2, Zenon
  <2>6. ASSUME NEW j \in 1 .. l, later[i] + j > 0
        PROVE  x[later[i] + j] = Bytes(s[i])[j]
    <3>0. f - k + j > 0 /\ g = f + l /\ g <= Len(w)
      BY <2>2, <2>4, <2>6, Zenon
    <3>1. f - k + j \in 1 .. Len(w) - k /\ k + (f - k + j) = f + j /\ f + j > 0
      BY <1>1, <3>0
    <3>2. x[f - k + j] = w[k + (f - k + j)]
      BY <1>2, <3>1, Zenon DEF IsSlice
    <3>3. w[f + j] = Bytes(s[i])[j]
      BY <2>2, <2>4, <3>1, Zenon
    <3> QED
      BY <2>4, <3>1, <3>2, <3>3, Zenon
  <2> QED
    BY <2>1, <2>5, <2>6, Zenon
<1>7. Lie(later, x, s, n)
    BY <1>5, <1>6, Zenon DEF Lie
<1> QED
    BY <1>2, <1>4, <1>7, Zenon DEF Rest

\* The bytes to be read first are those of the packet that comes first.
LEMMA RestHead ==
    ASSUME AllReadable, NEW w \in Seq(Byte), NEW s \in Seq(Packets), NEW n \in 1 .. Len(s),
           NEW r \in Nat, Rest(w, s, n, r)
    PROVE  \A i \in 1 .. Len(Bytes(s[n])) - r : w[i] = Bytes(s[n])[r + i]
<1>1. Len(w) \in Nat /\ Len(s) \in Nat
    BY LenProperties
<1>2. PICK begin \in [n .. Len(s) + 1 -> Int] : begin[n] + r = 0 /\ Lie(begin, w, s, n)
    BY Zenon DEF Rest
<1>3. PICK l \in Nat : l = Len(Bytes(s[n]))
    BY SentLength
<1>4. \A j \in 1 .. l : begin[n] + j > 0 => w[begin[n] + j] = Bytes(s[n])[j]
  <2>1. n \in n .. Len(s)
    BY <1>1
  <2> QED
    BY <1>2, <1>3, <2>1, Zenon DEF Lie
<1>5. ASSUME NEW i \in 1 .. l - r PROVE w[i] = Bytes(s[n])[r + i]
  <2>0. begin[n] \in Int
    BY <1>1
  <2>1. PICK f \in Int : f = begin[n] /\ f + r = 0
    BY <1>2, <2>0, Zenon
  <2>2. i \in Int /\ i > 0 /\ i <= l - r
    OBVIOUS
  <2>3. r + i \in 1 .. l /\ f + (r + i) = i
    BY <2>1, <2>2
  <2> QED
    BY <1>4, <2>1, <2>2, <2>3, Zenon
<1> QED
    BY <1>3, <1>5, Zenon

\* There is nothing left to read of no packet.
LEMMA RestNone ==
    ASSUME NEW w \in Seq(Byte), NEW s \in Seq(Packets), NEW r \in Nat,
           Rest(w, s, Len(s) + 1, r)
    PROVE  r = 0 /\ Len(w) = 0
<1>1. Len(w) \in Nat /\ Len(s) \in Nat
    BY LenProperties
<1>2. PICK begin \in [Len(s) + 1 .. Len(s) + 1 -> Int] :
        begin[Len(s) + 1] + r = 0 /\ Lie(begin, w, s, Len(s) + 1)
    BY Zenon DEF Rest
<1>3. begin[Len(s) + 1] = Len(w)
    BY <1>2, Zenon DEF Lie
<1> QED
    BY <1>1, <1>2, <1>3

\* A packet has been read to its end.
LEMMA RestNext ==
    ASSUME AllReadable, NEW w \in Seq(Byte), NEW s \in Seq(Packets), NEW n \in 1 .. Len(s),
           Rest(w, s, n, Len(Bytes(s[n])))
    PROVE  Rest(w, s, n + 1, 0)
<1>1. Len(w) \in Nat /\ Len(s) \in Nat
    BY LenProperties
<1>2. PICK r \in Nat : r = Len(Bytes(s[n]))
    BY SentLength
<1>3. PICK begin \in [n .. Len(s) + 1 -> Int] : begin[n] + r = 0 /\ Lie(begin, w, s, n)
    BY <1>2, Zenon DEF Rest
<1> DEFINE later == [i \in n + 1 .. Len(s) + 1 |-> begin[i]]
<1>4. begin[n + 1] = begin[n] + r
  <2>1. n \in n .. Len(s)
    BY <1>1
  <2> QED
    BY <1>2, <1>3, <2>1, Zenon DEF Lie
<1>5. later \in [n + 1 .. Len(s) + 1 -> Int] /\ later[n + 1] + 0 = 0
    BY <1>1, <1>3, <1>4
<1>6. /\ later[Len(s) + 1] = begin[Len(s) + 1]
      /\ \A i \in n + 1 .. Len(s) :
            later[i] = begin[i] /\ later[i + 1] = begin[i + 1] /\ i \in n .. Len(s)
    BY <1>1
<1> HIDE DEF later
<1>7. ASSUME NEW i \in n + 1 .. Len(s)
      PROVE  /\ later[i + 1] = later[i] + Len(Bytes(s[i])) /\ later[i + 1] <= Len(w)
             /\ \A j \in 1 .. Len(Bytes(s[i])) :
                   later[i] + j > 0 => w[later[i] + j] = Bytes(s[i])[j]
  <2>1. later[i] = begin[i] /\ later[i + 1] = begin[i + 1] /\ i \in n .. Len(s)
    BY <1>6
  <2>2. /\ begin[i + 1] = begin[i] + Len(Bytes(s[i])) /\ begin[i + 1] <= Len(w)
        /\ \A j \in 1 .. Len(Bytes(s[i])) :
              begin[i] + j > 0 => w[begin[i] + j] = Bytes(s[i])[j]
    BY <1>3, <2>1, Zenon DEF Lie
  <2> QED
    BY <2>1, <2>2, Zenon
<1>8. later[Len(s) + 1] = Len(w)
    BY <1>3, <1>6, Zenon DEF Lie
<1>9. Lie(later, w, s, n + 1)
    BY <1>7, <1>8, Zenon DEF Lie
<1> QED
    BY <1>5, <1>9, Zenon DEF Rest

\* The broker sends another packet.
LEMMA RestSent ==
    ASSUME AllReadable, NEW w \in Seq(Byte), NEW s \in Seq(Packets), NEW n \in 1 .. Len(s) + 1,
           NEW r \in Nat, Rest(w, s, n, r), NEW p \in Packets
    PROVE  Rest(w \o Bytes(p), Append(s, p), n, r)
<1>1. Len(w) \in Nat /\ Len(s) \in Nat
    BY LenProperties
<1>2. PICK B \in Seq(Byte) : B = Bytes(p) /\ Len(B) \in Nat
    BY ShapeOfBytes, LenProperties DEF AllReadable, Readable
<1>3. PICK x \in Seq(Byte) : x = w \o B /\ IsJoin(x, w, B)
    BY Joined, Zenon
<1>4. PICK t \in Seq(Packets) :
        /\ t = Append(s, p) /\ Len(t) = Len(s) + 1
        /\ t[Len(s) + 1] = p /\ \A i \in 1 .. Len(s) : t[i] = s[i]
  <2>1. /\ Append(s, p) \in Seq(Packets) /\ Len(Append(s, p)) = Len(s) + 1
        /\ Append(s, p)[Len(s) + 1] = p
        /\ \A i \in 1 .. Len(s) : Append(s, p)[i] = s[i]
    BY AppendProperties
  <2> QED
    BY <2>1, Zenon
<1>5. PICK begin \in [n .. Len(s) + 1 -> Int] : begin[n] + r = 0 /\ Lie(begin, w, s, n)
    BY Zenon DEF Rest
<1> DEFINE later == [i \in n .. Len(t) + 1 |-> IF i = Len(t) + 1 THEN Len(x) ELSE begin[i]]
<1>6. Len(x) = Len(w) + Len(B)
    BY <1>3, Zenon DEF IsJoin
<1>7. begin[Len(s) + 1] = Len(w)
    BY <1>5, Zenon DEF Lie
<1>8. /\ later \in [n .. Len(t) + 1 -> Int] /\ later[n] + r = 0 /\ later[Len(t) + 1] = Len(x)
      /\ \A i \in n .. Len(s) + 1 : begin[i] \in Int /\ later[i] = begin[i]
  <2>0. /\ \A i \in n .. Len(s) + 1 : i # Len(t) + 1
        /\ n \in n .. Len(s) + 1 /\ Len(x) \in Int
    BY <1>1, <1>2, <1>4, <1>6
  <2>1. /\ \A i \in n .. Len(s) + 1 : begin[i] \in Int /\ i # Len(t) + 1
        /\ n \in n .. Len(s) + 1 /\ Len(x) \in Int
    BY <2>0, Zenon
  <2>2. /\ \A i \in n .. Len(t) + 1 : i = Len(t) + 1 \/ i \in n .. Len(s) + 1
        /\ \A i \in n .. Len(s) + 1 : i \in n .. Len(t) + 1
        /\ Len(t) + 1 \in n .. Len(t) + 1
    BY <1>1, <1>4
  <2>3. \A i \in n .. Len(s) + 1 : later[i] = begin[i]
    BY <2>1, <2>2, Zenon
  <2>4. later[Len(t) + 1] = Len(x)
    BY <2>2, Zenon
  <2>5. later \in [n .. Len(t) + 1 -> Int]
    BY <2>1, <2>2, Zenon
  <2> QED
    BY <1>5, <2>1, <2>3, <2>4, <2>5, Zenon
<1> HIDE DEF later
<1>9. ASSUME NEW i \in n .. Len(t)
      PROVE  /\ later[i + 1] = later[i] + Len(Bytes(t[i])) /\ later[i + 1] <= Len(x)
             /\ \A j \in 1 .. Len(Bytes(t[i])) :
                   later[i] + j > 0 => x[later[i] + j] = Bytes(t[i])[j]
  <2>1. CASE i = Len(s) + 1
    <3>0. i \in n .. Len(s) + 1 /\ i + 1 = Len(t) + 1
      BY <1>1, <1>4, <2>1
    <3>1. later[i] = Len(w) /\ later[i + 1] = Len(x)
      BY <1>7, <1>8, <2>1, <3>0, Zenon
    <3>2. Bytes(t[i]) = B
      BY <1>2, <1>4, <2>1
    <3>3. \A j \in 1 .. Len(B) : x[Len(w) + j] = B[j]
      BY <1>3, Zenon DEF IsJoin
    <3>4. Len(x) \in Nat /\ Len(x) <= Len(x)
      BY <1>1, <1>2, <1>6
    <3> QED
      BY <1>6, <3>1, <3>2, <3>3, <3>4, Zenon
  <2>2. CASE i # Len(s) + 1
    <3>1. i \in n .. Len(s) /\ i \in 1 .. Len(s)
      BY <1>1, <1>4, <2>2
    <3>0. i \in n .. Len(s) + 1 /\ i + 1 \in n .. Len(s) + 1
      BY <1>1, <3>1
    <3>2. /\ later[i] = begin[i] /\ later[i + 1] = begin[i + 1] /\ t[i] = s[i]
          /\ begin[i] \in Int /\ begin[i + 1] \in Int
      BY <1>4, <1>8, <3>0, <3>1, Zenon
    <3>3. PICK l \in Nat : l = Len(Bytes(s[i]))
      BY <3>1, SentLength
    <3>4. /\ begin[i + 1] = begin[i] + l /\ begin[i + 1] <= Len(w)
          /\ \A j \in 1 .. l : begin[i] + j > 0 => w[begin[i] + j] = Bytes(s[i])[j]
      BY <1>5, <3>1, <3>3, Zenon DEF Lie
    <3>5. PICK f \in Int, g \in Int : f = begin[i] /\ g = begin[i + 1]
      BY <3>2, Zenon
    <3>6. g = f + l /\ g <= Len(w)
      BY <3>4, <3>5, Zenon
    <3>8. g <= Len(x)
      BY <1>1, <1>2, <1>6, <3>6
    <3>7. ASSUME NEW j \in 1 .. l, f + j > 0 PROVE x[f + j] = Bytes(s[i])[j]
      <4>1. f + j \in 1 .. Len(w)
        BY <1>1, <3>6, <3>7
      <4>2. x[f + j] = w[f + j]
        BY <1>3, <4>1, Zenon DEF IsJoin
      <4> QED
        BY <3>4, <3>5, <3>7, <4>2, Zenon
    <3> QED
      BY <3>2, <3>3, <3>5, <3>6, <3>7, <3>8, Zenon
  <2> QED
    BY <2>1, <2>2
<1>10. Lie(later, x, t, n)
    BY <1>8, <1>9, Zenon DEF Lie
<1> QED
    BY <1>2, <1>3, <1>4, <1>8, <1>10, Zenon DEF Rest

-----------------------------------------------------------------------------
(* The invariant: what has been read of the stream is what has been handled *)
(* and the start of the packet that comes next.                            *)

\* How much of the packet p, the next to be handled, has been read.
Consumed(p, a, b, q) == IF a = "data" THEN Len(Bytes(p)) - q.missing ELSE Len(b)

\* Where the task is in p.
InPacket(p, a, b, q) ==
    /\ a = "idle" => IsStart(b, p) /\ Len(b) < Len(Bytes(p))
    /\ a = "length" => IsStart(b, p) /\ 1 <= Len(b) /\ Len(b) < Fixed(p)
    /\ a = "body" => IsStart(b, p) /\ Fixed(p) <= Len(b)
    /\ a = "data" => /\ q.missing \in 1 .. Len(p.data)
                     /\ q.packet = PartOf(p, Len(p.data) - q.missing)

Shaped(w, s, h, a, b, q) ==
    /\ w \in Seq(Byte) /\ b \in Seq(Byte) /\ Len(b) <= in_buffer_length
    /\ s \in Seq(Packets) /\ h \in Seq(Packets)
    /\ a \in {"idle", "length", "body", "data"} /\ q.missing \in Nat

Framed(w, s, h, a, b, q) ==
    /\ Shaped(w, s, h, a, b, q)
    /\ Len(h) <= Len(s) /\ \A i \in 1 .. Len(h) : h[i] = s[i]
    /\ a # "idle" => Len(h) < Len(s)
    /\ Rest(w, s, Len(h) + 1, Consumed(s[Len(h) + 1], a, b, q))
    /\ Len(h) < Len(s) => InPacket(s[Len(h) + 1], a, b, q)

\* Before anything has been read of a packet.
LEMMA NothingRead ==
    ASSUME NEW p, WellFormed(p)
    PROVE  IsStart(<<>>, p) /\ Len(<<>>) < Len(Bytes(p))
<1>1. Len(<<>>) = 0 /\ <<>> \in Seq(Byte)
    OBVIOUS
<1>2. \A i \in 1 .. 0 : <<>>[i] = Bytes(p)[i]
    OBVIOUS
<1>3. Len(Bytes(p)) \in Nat /\ 0 < Len(Bytes(p)) /\ 0 \in Nat /\ 0 <= Len(Bytes(p))
    BY LengthOfBytes
<1> QED
    BY <1>1, <1>2, <1>3, Zenon DEF IsStart

LEMMA FramedInit ==
    ASSUME HeaderFits, NEW q, q.missing \in Nat
    PROVE  Framed(<<>>, <<>>, <<>>, "idle", <<>>, q)
<1>1. /\ Len(<<>>) = 0 /\ <<>> \in Seq(Byte) /\ <<>> \in Seq(Packets)
      /\ 0 <= 0 /\ ~(0 < 0) /\ 0 + 1 = 1 /\ \A i \in 1 .. 0 : FALSE
    OBVIOUS
<1>2. Len(<<>>) <= in_buffer_length
    BY <1>1, BoundsAssumption DEF HeaderFits
<1>3. Consumed(<<>>[1], "idle", <<>>, q) = 0
    BY <1>1 DEF Consumed
<1>4. Shaped(<<>>, <<>>, <<>>, "idle", <<>>, q)
    BY <1>1, <1>2, Zenon DEF Shaped
<1> QED
    BY <1>1, <1>3, <1>4, RestInit, Zenon DEF Framed

\* What a state between two packets, or inside of one, gives.
LEMMA Now ==
    ASSUME AllReadable, NEW w, NEW s, NEW h, NEW a, NEW b, NEW q, Framed(w, s, h, a, b, q),
           \/ a # "idle"
           \/ b # <<>>
           \/ w # <<>>
    PROVE  /\ Len(h) + 1 \in 1 .. Len(s) /\ Len(h) < Len(s) /\ Len(h) \in Nat
           /\ Readable(s[Len(h) + 1]) /\ WellFormed(s[Len(h) + 1])
           /\ s[Len(h) + 1] \in Packets
           /\ InPacket(s[Len(h) + 1], a, b, q)
<1>1. /\ w \in Seq(Byte) /\ b \in Seq(Byte) /\ s \in Seq(Packets) /\ h \in Seq(Packets)
      /\ Len(h) <= Len(s) /\ (a # "idle" => Len(h) < Len(s))
      /\ Rest(w, s, Len(h) + 1, Consumed(s[Len(h) + 1], a, b, q))
      /\ Len(h) < Len(s) => InPacket(s[Len(h) + 1], a, b, q)
    BY Zenon DEF Framed, Shaped
<1>2. Len(h) \in Nat /\ Len(s) \in Nat
    BY <1>1, LenProperties
<1>3. Len(h) < Len(s)
  <2>1. SUFFICES ASSUME a = "idle", ~(Len(h) < Len(s)) PROVE FALSE
    BY <1>1
  <2>2. Len(h) = Len(s)
    BY <1>1, <1>2, <2>1
  <2>3. PICK r : r = Len(b)
    OBVIOUS
  <2>4. Consumed(s[Len(h) + 1], a, b, q) = r
    BY <2>1, <2>3 DEF Consumed
  <2>5. Rest(w, s, Len(s) + 1, r)
    BY <1>1, <2>2, <2>4, Zenon
  <2>6. r \in Nat
    BY <1>1, <2>3, LenProperties
  <2>7. r = 0 /\ Len(w) = 0
    BY <1>1, <2>5, <2>6, RestNone
  <2>8. b = <<>> /\ w = <<>>
    BY <1>1, <2>3, <2>7, EmptySeq
  <2> QED
    BY <2>1, <2>8
<1>4. Len(h) + 1 \in 1 .. Len(s)
    BY <1>2, <1>3
<1>5. Readable(s[Len(h) + 1]) /\ WellFormed(s[Len(h) + 1]) /\ s[Len(h) + 1] \in Packets
    BY <1>1, <1>4, SentLength, ElementOfSeq
<1> QED
    BY <1>1, <1>2, <1>3, <1>4, <1>5, Zenon

LEMMA FramedSent ==
    ASSUME AllReadable, NEW w, NEW s, NEW h, NEW a, NEW b, NEW q, Framed(w, s, h, a, b, q),
           NEW p \in Packets
    PROVE  Framed(w \o Bytes(p), Append(s, p), h, a, b, q)
<1>1. /\ w \in Seq(Byte) /\ b \in Seq(Byte) /\ s \in Seq(Packets) /\ h \in Seq(Packets)
      /\ Shaped(w, s, h, a, b, q)
      /\ Len(h) <= Len(s) /\ (\A i \in 1 .. Len(h) : h[i] = s[i])
      /\ (a # "idle" => Len(h) < Len(s))
      /\ Rest(w, s, Len(h) + 1, Consumed(s[Len(h) + 1], a, b, q))
      /\ Len(h) < Len(s) => InPacket(s[Len(h) + 1], a, b, q)
    BY Zenon DEF Framed, Shaped
<1>2. Len(h) \in Nat /\ Len(s) \in Nat /\ Len(b) \in Nat
    BY <1>1, LenProperties
<1>3. WellFormed(p) /\ Bytes(p) \in Seq(Byte)
    BY ShapeOfBytes, Zenon DEF AllReadable, Readable
<1>4. PICK x \in Seq(Byte) : x = w \o Bytes(p)
    BY <1>1, <1>3, Joined
<1>5. PICK t \in Seq(Packets) :
        /\ t = Append(s, p) /\ Len(t) = Len(s) + 1
        /\ t[Len(s) + 1] = p /\ \A i \in 1 .. Len(s) : t[i] = s[i]
  <2>1. /\ Append(s, p) \in Seq(Packets) /\ Len(Append(s, p)) = Len(s) + 1
        /\ Append(s, p)[Len(s) + 1] = p
        /\ \A i \in 1 .. Len(s) : Append(s, p)[i] = s[i]
    BY <1>1, AppendProperties
  <2> QED
    BY <2>1, Zenon
<1>6. /\ Len(h) <= Len(t) /\ Len(h) < Len(t)
      /\ \A i \in 1 .. Len(h) : h[i] = t[i]
  <2>1. \A i \in 1 .. Len(h) : i \in 1 .. Len(s)
    BY <1>1, <1>2
  <2> QED
    BY <1>1, <1>2, <1>5, <2>1
<1>7. Shaped(x, t, h, a, b, q)
    BY <1>1, <1>4, <1>5, Zenon DEF Shaped
<1>8. PICK r : r = Consumed(s[Len(h) + 1], a, b, q)
    OBVIOUS
<1>9. CASE Len(h) < Len(s)
  <2>1. Len(h) + 1 \in 1 .. Len(s) /\ Len(h) + 1 \in 1 .. Len(s) + 1
    BY <1>2, <1>9
  <2>2. t[Len(h) + 1] = s[Len(h) + 1]
    BY <1>5, <2>1
  <2>3. PICK c : c = s[Len(h) + 1] /\ Readable(c) /\ WellFormed(c) /\ InPacket(c, a, b, q)
    BY <1>1, <1>9, <2>1, SentLength, Zenon
  <2>4. r \in Nat
    <3>1. CASE a = "data"
      <4>1. q.missing \in 1 .. Len(c.data)
        BY <2>3, <3>1, Zenon DEF InPacket
      <4>2. Len(c.data) \in Nat /\ Len(Bytes(c)) \in Nat /\ Len(c.data) <= Len(Bytes(c))
        BY <2>3, DataLength
      <4>3. r = Len(Bytes(c)) - q.missing
        BY <1>8, <2>3, <3>1 DEF Consumed
      <4> QED
        BY <4>1, <4>2, <4>3
    <3>2. CASE a # "data"
      BY <1>2, <1>8, <3>2 DEF Consumed
    <3> QED
      BY <3>1, <3>2
  <2>5. Rest(x, t, Len(h) + 1, r)
    BY <1>1, <1>4, <1>5, <1>8, <2>1, <2>4, RestSent
  <2> QED
    BY <1>6, <1>7, <1>8, <1>9, <1>4, <1>5, <2>2, <2>3, <2>5, Zenon DEF Framed
<1>10. CASE ~(Len(h) < Len(s))
  <2>1. a = "idle" /\ Len(h) = Len(s)
    BY <1>1, <1>2, <1>10
  <2>2. r = Len(b) /\ Consumed(p, a, b, q) = r
    BY <1>8, <2>1 DEF Consumed
  <2>3. Rest(w, s, Len(s) + 1, r)
    BY <1>1, <1>8, <2>1, Zenon
  <2>4. r = 0 /\ Len(w) = 0
    BY <1>1, <1>2, <2>2, <2>3, RestNone
  <2>5. b = <<>>
    BY <1>1, <2>2, <2>4, EmptySeq
  <2>6. Rest(x, t, Len(s) + 1, r)
    <3>1. Len(s) + 1 \in 1 .. Len(s) + 1 /\ r \in Nat
      BY <1>2, <2>4
    <3> QED
      BY <1>1, <1>4, <1>5, <2>3, <3>1, RestSent
  <2>7. InPacket(p, a, b, q)
    BY <1>3, <2>1, <2>5, NothingRead, Zenon DEF InPacket
  <2> QED
    BY <1>4, <1>5, <1>6, <1>7, <2>1, <2>2, <2>6, <2>7, Zenon DEF Framed
<1> QED
    BY <1>9, <1>10

\* k bytes are read into the buffer, and the packet is not over before them.
LEMMA AfterRead ==
    ASSUME AllReadable, NEW w, NEW s, NEW h, NEW a, NEW b, NEW q, Framed(w, s, h, a, b, q),
           Len(h) < Len(s), a # "data", NEW p, p = s[Len(h) + 1],
           IsStart(b, p), NEW k \in Nat, k <= Len(w), Len(b) + k <= Len(Bytes(p)),
           Len(b) + k <= in_buffer_length
    PROVE  LET c == b \o SubSeq(w, 1, k)  x == SubSeq(w, k + 1, Len(w))
           IN  /\ IsStart(c, p) /\ Len(c) = Len(b) + k
               /\ \A d \in {"idle", "length", "body"} :
                     InPacket(p, d, c, q) => Framed(x, s, h, d, c, q)
<1>1. /\ w \in Seq(Byte) /\ b \in Seq(Byte) /\ s \in Seq(Packets) /\ h \in Seq(Packets)
      /\ q.missing \in Nat
      /\ Len(h) <= Len(s) /\ (\A i \in 1 .. Len(h) : h[i] = s[i])
      /\ Rest(w, s, Len(h) + 1, Consumed(p, a, b, q))
    BY Zenon DEF Framed, Shaped
<1>2. Len(h) \in Nat /\ Len(s) \in Nat /\ Len(b) \in Nat /\ Len(w) \in Nat
    BY <1>1, LenProperties
<1>3. PICK l \in Nat : l = Len(b)
    BY <1>2
<1>4. Rest(w, s, Len(h) + 1, l)
    BY <1>1, <1>3 DEF Consumed
<1>5. Len(h) + 1 \in 1 .. Len(s) /\ Len(h) + 1 \in 1 .. Len(s) + 1 /\ k \in 0 .. Len(w)
    BY <1>2
<1>6. PICK t \in Seq(Byte) : t = SubSeq(w, 1, k) /\ Len(t) = k /\ \A i \in 1 .. k : t[i] = w[i]
  <2>1. /\ SubSeq(w, 1, k) \in Seq(Byte) /\ Len(SubSeq(w, 1, k)) = k
        /\ \A i \in 1 .. k : SubSeq(w, 1, k)[i] = w[i]
    BY <1>1, <1>5, TakenFront
  <2> QED
    BY <2>1, Zenon
<1>7. PICK c \in Seq(Byte) : c = b \o t /\ IsJoin(c, b, t)
    BY <1>1, Joined, Zenon
<1>8. PICK x \in Seq(Byte) : x = SubSeq(w, k + 1, Len(w))
    BY <1>1, <1>5, Dropped
<1>9. Len(c) = l + k /\ Len(c) \in Nat
    BY <1>3, <1>6, <1>7 DEF IsJoin
<1>10. WellFormed(p)
    BY <1>1, <1>5, SentLength
<1>11. PICK m \in Nat : m = Len(Bytes(p)) /\ l + k <= m
    BY <1>3, <1>10, LengthOfBytes
<1>12. \A i \in 1 .. m - l : w[i] = Bytes(p)[l + i]
    BY <1>1, <1>4, <1>5, <1>11, RestHead
<1>13. IsStart(c, p)
  <2>1. ASSUME NEW i \in 1 .. Len(c) PROVE c[i] = Bytes(p)[i]
    <3>1. i \in Nat /\ i >= 1 /\ i <= l + k
      BY <1>9
    <3>2. CASE i <= l
      <4>1. i \in 1 .. Len(b)
        BY <1>3, <3>1, <3>2
      <4>2. c[i] = b[i]
        BY <1>7, <4>1, Zenon DEF IsJoin
      <4>3. b[i] = Bytes(p)[i]
        BY <4>1, Zenon DEF IsStart
      <4> QED
        BY <4>2, <4>3
    <3>3. CASE ~(i <= l)
      <4>1. PICK j \in Nat : j = i - l
        BY <3>1, <3>3
      <4>2. j \in 1 .. Len(t) /\ j \in 1 .. k /\ j \in 1 .. m - l /\ l + j = i
        BY <1>6, <1>11, <3>1, <3>3, <4>1
      <4>3. c[l + j] = t[j]
        BY <1>3, <1>7, <4>2, Zenon DEF IsJoin
      <4>4. t[j] = w[j] /\ w[j] = Bytes(p)[l + j]
        BY <1>6, <1>12, <4>2, Zenon
      <4> QED
        BY <4>2, <4>3, <4>4
    <3> QED
      BY <3>2, <3>3
  <2>2. Len(c) <= Len(Bytes(p))
    BY <1>9, <1>11
  <2> QED
    BY <1>7, <1>9, <2>1, <2>2, Zenon DEF IsStart
<1>14. Rest(x, s, Len(h) + 1, Len(c))
    BY <1>1, <1>4, <1>5, <1>8, <1>9, RestTaken
<1>15. Len(c) <= in_buffer_length
    BY <1>3, <1>9
<1>16. ASSUME NEW d \in {"idle", "length", "body"}, InPacket(p, d, c, q)
       PROVE  Framed(x, s, h, d, c, q)
  <2>1. d # "data" /\ d \in {"idle", "length", "body", "data"}
    OBVIOUS
  <2>2. Consumed(p, d, c, q) = Len(c)
    BY <2>1 DEF Consumed
  <2>3. Shaped(x, s, h, d, c, q)
    BY <1>1, <1>7, <1>8, <1>15, <2>1, Zenon DEF Shaped
  <2> QED
    BY <1>1, <1>14, <1>16, <2>2, <2>3, Zenon DEF Framed
<1> QED
    BY <1>3, <1>6, <1>7, <1>8, <1>9, <1>13, <1>16, Zenon

\* The packet is handled.
LEMMA AfterPacket ==
    ASSUME AllReadable, HeaderFits, NEW w \in Seq(Byte), NEW s \in Seq(Packets), NEW h \in Seq(Packets),
           Len(h) + 1 \in 1 .. Len(s), \A i \in 1 .. Len(h) : h[i] = s[i],
           NEW p, p = s[Len(h) + 1], Rest(w, s, Len(h) + 1, Len(Bytes(p))),
           NEW q, q.missing \in Nat
    PROVE  Framed(w, s, Append(h, p), "idle", <<>>, q)
<1>1. Len(h) \in Nat /\ Len(s) \in Nat
    BY LenProperties
<1>2. p \in Packets
    BY ElementOfSeq
<1>3. PICK g \in Seq(Packets) :
        /\ g = Append(h, p) /\ Len(g) = Len(h) + 1
        /\ g[Len(h) + 1] = p /\ \A i \in 1 .. Len(h) : g[i] = h[i]
  <2>1. /\ Append(h, p) \in Seq(Packets) /\ Len(Append(h, p)) = Len(h) + 1
        /\ Append(h, p)[Len(h) + 1] = p
        /\ \A i \in 1 .. Len(h) : Append(h, p)[i] = h[i]
    BY <1>2, AppendProperties
  <2> QED
    BY <2>1, Zenon
<1>4. Len(g) <= Len(s)
    BY <1>1, <1>3
<1>5. ASSUME NEW i \in 1 .. Len(g) PROVE g[i] = s[i]
  <2>1. i = Len(h) + 1 \/ i \in 1 .. Len(h)
    BY <1>1, <1>3
  <2> QED
    BY <1>3, <2>1
<1>6. Rest(w, s, Len(g) + 1, 0)
    BY <1>3, RestNext
<1>7. Len(<<>>) = 0 /\ <<>> \in Seq(Byte) /\ 0 <= in_buffer_length
    BY BoundsAssumption DEF HeaderFits
<1>8. Shaped(w, s, g, "idle", <<>>, q)
    BY <1>7, Zenon DEF Shaped
<1>9. Consumed(s[Len(g) + 1], "idle", <<>>, q) = 0
    BY <1>7 DEF Consumed
<1>10. ASSUME Len(g) < Len(s) PROVE InPacket(s[Len(g) + 1], "idle", <<>>, q)
  <2>1. Len(g) + 1 \in 1 .. Len(s)
    BY <1>1, <1>3, <1>10
  <2>2. WellFormed(s[Len(g) + 1])
    BY <2>1, SentLength
  <2> QED
    BY <2>2, NothingRead, Zenon DEF InPacket
<1> QED
    BY <1>3, <1>4, <1>5, <1>6, <1>8, <1>9, <1>10, Zenon DEF Framed

-----------------------------------------------------------------------------
(* The steps.                                                              *)

Here  == Framed(wire, sent, handled, at, buf, part)
After == Framed(wire', sent', handled', at', buf', part')

\* The packet that is being read.
Current == sent[Len(handled) + 1]

LEMMA ReconnectStep ==
    ASSUME HeaderFits, Reconnect
    PROVE  After /\ ~stalled'
<1>1. NoPart.missing \in Nat
    BY DEF NoPart
<1>2. /\ wire' = <<>> /\ buf' = <<>> /\ at' = "idle" /\ part' = NoPart
      /\ sent' = <<>> /\ handled' = <<>> /\ stalled' = FALSE
    BY DEF Reconnect
<1> QED
    BY <1>1, <1>2, FramedInit, Zenon DEF After

LEMMA ReadsHere ==
    ASSUME AllReadable, Here,
           \/ at # "idle"
           \/ buf # <<>>
           \/ wire # <<>>
    PROVE  /\ Len(handled) + 1 \in 1 .. Len(sent) /\ Len(handled) < Len(sent)
           /\ Len(handled) \in Nat
           /\ Readable(Current) /\ WellFormed(Current) /\ Current \in Packets
           /\ InPacket(Current, at, buf, part)
           /\ wire \in Seq(Byte) /\ buf \in Seq(Byte) /\ Len(buf) <= in_buffer_length
           /\ Len(buf) \in Nat /\ Len(wire) \in Nat
           /\ handled \in Seq(Packets) /\ sent \in Seq(Packets)
           /\ part.missing \in Nat
           /\ \A i \in 1 .. Len(handled) : handled[i] = sent[i]
           /\ Rest(wire, sent, Len(handled) + 1, Consumed(Current, at, buf, part))
<1>1. /\ wire \in Seq(Byte) /\ buf \in Seq(Byte) /\ Len(buf) <= in_buffer_length
      /\ handled \in Seq(Packets) /\ sent \in Seq(Packets)
      /\ part.missing \in Nat
      /\ \A i \in 1 .. Len(handled) : handled[i] = sent[i]
      /\ Rest(wire, sent, Len(handled) + 1, Consumed(Current, at, buf, part))
    BY Zenon DEF Here, Framed, Shaped, Current
<1>2. Len(buf) \in Nat /\ Len(wire) \in Nat
    BY <1>1, LenProperties
<1>3. /\ Len(handled) + 1 \in 1 .. Len(sent) /\ Len(handled) < Len(sent)
      /\ Len(handled) \in Nat
      /\ Readable(Current) /\ WellFormed(Current) /\ Current \in Packets
      /\ InPacket(Current, at, buf, part)
    BY Now, Zenon DEF Here, Current
<1> QED
    BY <1>1, <1>2, <1>3, Zenon

\* Only the place in the packet changes.
LEMMA Elsewhere ==
    ASSUME AllReadable, Here, at # "data", at' # "data",
           \/ at # "idle"
           \/ buf # <<>>,
           UNCHANGED <<wire, buf, part, sent, handled>>,
           at' \in {"idle", "length", "body"}, InPacket(Current, at', buf, part)
    PROVE  After
<1>1. /\ Shaped(wire, sent, handled, at', buf, part)
      /\ Len(handled) <= Len(sent) /\ \A i \in 1 .. Len(handled) : handled[i] = sent[i]
    BY Zenon DEF Here, Framed, Shaped
<1>2. Len(handled) < Len(sent) /\ Rest(wire, sent, Len(handled) + 1, Consumed(Current, at, buf, part))
    BY ReadsHere, Zenon
<1>3. Consumed(Current, at', buf, part) = Consumed(Current, at, buf, part)
    BY DEF Consumed
<1>4. Framed(wire, sent, handled, at', buf, part)
    BY <1>1, <1>2, <1>3, Zenon DEF Framed, Current
<1>5. wire' = wire /\ buf' = buf /\ part' = part /\ sent' = sent /\ handled' = handled
    OBVIOUS
<1> QED
    BY <1>4, <1>5, Zenon DEF After

LEMMA ResumeStep ==
    ASSUME AllReadable, Here, Resume
    PROVE  After
<1>1. /\ at = "idle" /\ buf # <<>>
      /\ at' = (IF Len(buf) = 1 \/ LengthOpen(buf) THEN "length" ELSE "body")
      /\ UNCHANGED <<wire, buf, part, sent, handled>>
    BY DEF Resume
<1>2. PICK p : p = Current /\ Readable(p) /\ WellFormed(p) /\ InPacket(p, at, buf, part)
               /\ buf \in Seq(Byte) /\ Len(buf) \in Nat
    BY <1>1, ReadsHere, Zenon
<1>3. IsStart(buf, p) /\ Len(buf) < Len(Bytes(p))
    BY <1>1, <1>2, Zenon DEF InPacket
<1>4. Len(buf) >= 1
    BY <1>1, <1>2, EmptySeq
<1>5. Fixed(p) \in {2, 3}
    BY DEF Fixed
<1>6. CASE Len(buf) = 1
  <2>1. at' = "length" /\ Len(buf) < Fixed(p)
    BY <1>1, <1>5, <1>6
  <2>2. InPacket(p, at', buf, part)
    BY <1>3, <1>4, <2>1 DEF InPacket
  <2> QED
    BY <1>1, <1>2, <2>1, <2>2, Elsewhere
<1>7. CASE Len(buf) # 1
  <2>0. PICK n \in Nat : n = Len(buf) /\ n >= 1 /\ n # 1
    BY <1>2, <1>4, <1>7, Zenon
  <2>1. 2 <= Len(buf)
    BY <2>0
  <2>2. LengthOpen(buf) <=> Len(buf) < Fixed(p)
    BY <1>2, <1>3, <2>1, OpenInHeader, Zenon DEF Readable
  <2>3. CASE LengthOpen(buf)
    <3>1. at' = "length"
      BY <1>1, <2>3
    <3>2. InPacket(p, at', buf, part)
      BY <1>3, <1>4, <2>2, <2>3, <3>1 DEF InPacket
    <3> QED
      BY <1>1, <1>2, <3>1, <3>2, Elsewhere
  <2>4. CASE ~LengthOpen(buf)
    <3>1. at' = "body"
      BY <1>1, <1>7, <2>4
    <3>2. Fixed(p) <= Len(buf)
      BY <1>2, <1>5, <2>2, <2>4
    <3>3. InPacket(p, at', buf, part)
      BY <1>3, <3>1, <3>2 DEF InPacket
    <3> QED
      BY <1>1, <1>2, <3>1, <3>3, Elsewhere
  <2> QED
    BY <2>3, <2>4
<1> QED
    BY <1>6, <1>7

\* What a read that returns k bytes leaves.
LEMMA ReadStep ==
    ASSUME AllReadable, Here, at # "data",
           \/ at # "idle"
           \/ wire # <<>>,
           NEW k \in Nat, NEW want \in Nat, Take(k, want), buf' = Taken(k),
           UNCHANGED <<part, sent, handled>>,
           IsStart(buf, Current), Len(buf) + want <= Len(Bytes(Current)),
           Len(buf) + want <= in_buffer_length
    PROVE  /\ k \in 1 .. want /\ Len(buf') = Len(buf) + k /\ IsStart(buf', Current)
           /\ \A d \in {"idle", "length", "body"} :
                 at' = d /\ InPacket(Current, d, buf', part) => After
<1>1. PICK p : p = Current
    OBVIOUS
<1>2. /\ Len(buf) \in Nat /\ Len(wire) \in Nat /\ Len(handled) < Len(sent) /\ WellFormed(p)
    BY <1>1, ReadsHere, Zenon
<1>3. /\ k \in 1 .. (IF want <= Len(wire) THEN want ELSE Len(wire))
      /\ wire' = SubSeq(wire, k + 1, Len(wire))
      /\ buf' = buf \o SubSeq(wire, 1, k)
    BY DEF Take, Taken
<1>4. k \in 1 .. want /\ k <= Len(wire)
    BY <1>2, <1>3
<1>5. in_buffer_length \in Nat
    BY BoundsAssumption
<1>6. Len(Bytes(p)) \in Nat
    BY <1>2, LengthOfBytes
<1>7. Len(buf) + k <= Len(Bytes(p)) /\ Len(buf) + k <= in_buffer_length
    BY <1>1, <1>2, <1>4, <1>5, <1>6
<1>8. /\ IsStart(buf', p) /\ Len(buf') = Len(buf) + k
      /\ \A d \in {"idle", "length", "body"} :
            InPacket(p, d, buf', part) => Framed(wire', sent, handled, d, buf', part)
  <2>1. p = sent[Len(handled) + 1] /\ Framed(wire, sent, handled, at, buf, part)
    BY <1>1, Zenon DEF Here, Current
  <2>2. IsStart(buf, p)
    BY <1>1, Zenon
  <2>3. LET c == buf \o SubSeq(wire, 1, k)  x == SubSeq(wire, k + 1, Len(wire))
        IN  /\ IsStart(c, p) /\ Len(c) = Len(buf) + k
            /\ \A d \in {"idle", "length", "body"} :
                  InPacket(p, d, c, part) => Framed(x, sent, handled, d, c, part)
    BY <1>2, <1>4, <1>7, <2>1, <2>2, AfterRead
  <2> QED
    BY <1>3, <2>3
<1>9. part' = part /\ sent' = sent /\ handled' = handled
    OBVIOUS
<1> QED
    BY <1>1, <1>4, <1>8, <1>9, Zenon DEF After

LEMMA ReadFirstStep ==
    ASSUME AllReadable, HeaderFits, Here, ReadFirst, ValidHeader(wire[1])
    PROVE  After
<1>1. /\ at = "idle" /\ buf = <<>> /\ wire # <<>>
      /\ Take(1, 1) /\ buf' = Taken(1) /\ at' = "length"
      /\ UNCHANGED <<part, sent, handled>>
    BY DEF ReadFirst
<1>2. PICK p : p = Current /\ WellFormed(p) /\ InPacket(p, at, buf, part)
    BY <1>1, ReadsHere, Zenon
<1>3. IsStart(buf, p) /\ Len(buf) = 0
    BY <1>1, <1>2, Zenon DEF InPacket
<1>4. in_buffer_length \in Nat /\ 1 <= in_buffer_length
    BY BoundsAssumption DEF HeaderFits
<1>5. Fixed(p) \in {2, 3} /\ 1 <= Len(Bytes(p))
    BY <1>2, LengthOfBytes DEF Fixed
<1>6. /\ Len(buf') = Len(buf) + 1 /\ IsStart(buf', p)
      /\ InPacket(p, "length", buf', part) => After
  <2>1. 1 \in Nat /\ Len(buf) + 1 <= Len(Bytes(p)) /\ Len(buf) + 1 <= in_buffer_length
    BY <1>3, <1>4, <1>5
  <2> QED
    BY <1>1, <1>2, <1>3, <2>1, ReadStep
<1>7. InPacket(p, "length", buf', part)
  <2>1. 1 <= Len(buf') /\ Len(buf') < Fixed(p)
    BY <1>3, <1>5, <1>6
  <2> QED
    BY <1>6, <2>1 DEF InPacket
<1> QED
    BY <1>6, <1>7

LEMMA ReadLengthStep ==
    ASSUME AllReadable, HeaderFits, Here, ReadLength
    PROVE  After
<1>1. /\ at = "length" /\ Take(1, 1) /\ buf' = Taken(1)
      /\ at' = (IF LengthOpen(buf') THEN "length" ELSE "body")
      /\ UNCHANGED <<part, sent, handled>>
    BY DEF ReadLength
<1>2. PICK p : p = Current /\ Readable(p) /\ WellFormed(p) /\ InPacket(p, at, buf, part)
               /\ Len(buf) \in Nat
    BY <1>1, ReadsHere, Zenon
<1>3. IsStart(buf, p) /\ 1 <= Len(buf) /\ Len(buf) < Fixed(p)
    BY <1>1, <1>2, Zenon DEF InPacket
<1>4. in_buffer_length \in Nat /\ 3 <= in_buffer_length
    BY BoundsAssumption DEF HeaderFits
<1>5. Fixed(p) \in {2, 3} /\ Fixed(p) <= Len(Bytes(p)) /\ Len(Bytes(p)) \in Nat
    BY <1>2, LengthOfBytes DEF Fixed
<1>6. /\ Len(buf') = Len(buf) + 1 /\ IsStart(buf', p)
      /\ \A d \in {"idle", "length", "body"} :
            at' = d /\ InPacket(p, d, buf', part) => After
  <2>1. 1 \in Nat /\ Len(buf) + 1 <= Len(Bytes(p)) /\ Len(buf) + 1 <= in_buffer_length
    BY <1>2, <1>3, <1>4, <1>5
  <2> QED
    BY <1>1, <1>2, <1>3, <2>1, ReadStep
<1>7. 2 <= Len(buf') /\ Len(buf') <= Fixed(p) /\ Len(buf') \in Nat
    BY <1>2, <1>3, <1>5, <1>6
<1>8. LengthOpen(buf') <=> Len(buf') < Fixed(p)
    BY <1>2, <1>6, <1>7, OpenInHeader, Zenon DEF Readable
<1>9. CASE LengthOpen(buf')
  <2>1. at' = "length" /\ 1 <= Len(buf')
    BY <1>1, <1>7, <1>9
  <2>2. InPacket(p, "length", buf', part)
    BY <1>6, <1>8, <1>9, <2>1 DEF InPacket
  <2> QED
    BY <1>6, <2>1, <2>2
<1>10. CASE ~LengthOpen(buf')
  <2>1. at' = "body" /\ Fixed(p) <= Len(buf')
    BY <1>1, <1>5, <1>7, <1>8, <1>10
  <2>2. InPacket(p, "body", buf', part)
    BY <1>6, <2>1 DEF InPacket
  <2> QED
    BY <1>6, <2>1, <2>2
<1> QED
    BY <1>9, <1>10

\* What the code computes from the buffer behind the fixed header.
LEMMA BodyHere ==
    ASSUME AllReadable, Here, at = "body"
    PROVE  /\ Readable(Current) /\ WellFormed(Current) /\ IsStart(buf, Current)
           /\ Fixed(Current) \in {2, 3} /\ Fixed(Current) <= Len(buf)
           /\ Len(buf) \in Nat /\ Len(buf) <= in_buffer_length /\ in_buffer_length \in Nat
           /\ Len(Bytes(Current)) \in Nat /\ Len(buf) <= Len(Bytes(Current))
           /\ FixedLength(buf) = Fixed(Current)
           /\ TotalLength(buf) = Len(Bytes(Current))
           /\ TypeOf(buf) = Current.type
           /\ Current.type = PUBLISH => QosOf(buf) = Current.qos
<1>1. PICK p : p = Current /\ Readable(p) /\ WellFormed(p) /\ InPacket(p, at, buf, part)
               /\ Len(buf) \in Nat /\ Len(buf) <= in_buffer_length
    BY ReadsHere, Zenon
<1>2. IsStart(buf, p) /\ Fixed(p) <= Len(buf)
    BY <1>1, Zenon DEF InPacket
<1>3. /\ FixedLength(buf) = Fixed(p) /\ TotalLength(buf) = Len(Bytes(p))
      /\ TypeOf(buf) = p.type /\ (p.type = PUBLISH => QosOf(buf) = p.qos)
    BY <1>1, <1>2, HeaderRead, Zenon
<1>4. Fixed(p) \in {2, 3} /\ in_buffer_length \in Nat
    BY BoundsAssumption DEF Fixed
<1>5. Len(Bytes(p)) \in Nat
    BY <1>1, LengthOfBytes
<1>6. Len(buf) <= Len(Bytes(p))
    BY <1>2, Zenon DEF IsStart
<1> QED
    BY <1>1, <1>2, <1>3, <1>4, <1>5, <1>6, Zenon

LEMMA ReadTopicLengthStep ==
    ASSUME AllReadable, HeaderFits, Here, ReadTopicLength
    PROVE  After
<1>1. /\ at = "body" /\ NeedsTopicLength
      /\ at' = (IF Len(buf') < FixedLength(buf) + 2 THEN "idle" ELSE "body")
      /\ UNCHANGED <<part, sent, handled>>
    BY DEF ReadTopicLength
<1>2. PICK k \in Nat : Take(k, Len(buf) - FixedLength(buf) + 2) /\ buf' = Taken(k)
    BY DEF ReadTopicLength
<1>3. PICK p, n, F, l : p = Current /\ n = Len(buf) /\ F = Fixed(p) /\ l = Len(Bytes(p))
    OBVIOUS
<1>4. /\ IsStart(buf, p) /\ F \in {2, 3} /\ F <= n /\ n \in Nat /\ l \in Nat
      /\ FixedLength(buf) = F /\ TotalLength(buf) = l /\ in_buffer_length \in Nat
    BY <1>1, <1>3, BodyHere, Zenon
<1>5. in_buffer_length < l /\ n < F + 2
    BY <1>1, <1>3, <1>4, Zenon DEF NeedsTopicLength, Large
<1>6. PICK want \in Nat : want = n - F + 2
    BY <1>4
<1>7. n + want <= l /\ n + want <= in_buffer_length
    BY <1>4, <1>5, <1>6 DEF HeaderFits
<1>8. Take(k, want)
    BY <1>2, <1>3, <1>4, <1>6, Zenon
<1>9. /\ k \in 1 .. want /\ Len(buf') = n + k /\ IsStart(buf', p)
      /\ \A d \in {"idle", "length", "body"} :
            at' = d /\ InPacket(p, d, buf', part) => After
  <2>1. at # "data" /\ at # "idle"
    BY <1>1
  <2>2. UNCHANGED <<part, sent, handled>>
    BY <1>1
  <2> QED
    BY <1>2, <1>3, <1>4, <1>7, <1>8, <2>1, <2>2, ReadStep, Zenon
<1>10. CASE Len(buf') < F + 2
  <2>1. at' = "idle"
    BY <1>1, <1>4, <1>10, Zenon
  <2>2. Len(buf') < l
    BY <1>4, <1>6, <1>7, <1>9, <1>5
  <2>3. InPacket(p, "idle", buf', part)
    BY <1>3, <1>9, <2>2 DEF InPacket
  <2> QED
    BY <1>9, <2>1, <2>3
<1>11. CASE ~(Len(buf') < F + 2)
  <2>1. at' = "body"
    BY <1>1, <1>4, <1>11, Zenon
  <2>2. F <= Len(buf')
    BY <1>4, <1>9
  <2>3. InPacket(p, "body", buf', part)
    BY <1>3, <1>9, <2>2 DEF InPacket
  <2> QED
    BY <1>9, <2>1, <2>3
<1> QED
    BY <1>10, <1>11

\* How much of a packet is wanted in the buffer.
LEMMA WantedHere ==
    ASSUME AllReadable, Here, at = "body"
    PROVE  /\ Wanted(buf) \in Nat
           /\ Wanted(buf) <= in_buffer_length /\ Wanted(buf) <= Len(Bytes(Current))
           /\ ~Large(buf) => Wanted(buf) = Len(Bytes(Current))
           /\ Large(buf) => Wanted(buf) = in_buffer_length
           /\ Large(buf) <=> in_buffer_length < Len(Bytes(Current))
<1>1. PICK p, l : p = Current /\ l = Len(Bytes(p))
    OBVIOUS
<1>2. TotalLength(buf) = l /\ l \in Nat /\ in_buffer_length \in Nat
    BY <1>1, BodyHere, Zenon
<1>3. Large(buf) <=> in_buffer_length < l
    BY <1>2, Zenon DEF Large
<1>4. Wanted(buf) = IF in_buffer_length < l THEN in_buffer_length ELSE l
    BY <1>2, <1>3, Zenon DEF Wanted
<1> QED
    BY <1>1, <1>2, <1>3, <1>4

LEMMA ReadRestStep ==
    ASSUME AllReadable, Here, ReadRest
    PROVE  After
<1>1. /\ at = "body" /\ Len(buf) < Wanted(buf)
      /\ at' = (IF Len(buf') < Wanted(buf) THEN "idle" ELSE "body")
      /\ UNCHANGED <<part, sent, handled>>
    BY DEF ReadRest
<1>2. PICK k \in Nat : Take(k, Wanted(buf) - Len(buf)) /\ buf' = Taken(k)
  <2>1. \A k \in 1 .. in_buffer_length : k \in Nat
    BY BoundsAssumption
  <2> QED
    BY <2>1 DEF ReadRest
<1>3. PICK p, n, F, l, W : p = Current /\ n = Len(buf) /\ F = Fixed(p) /\ l = Len(Bytes(p))
                           /\ W = Wanted(buf)
    OBVIOUS
<1>4. /\ IsStart(buf, p) /\ F \in {2, 3} /\ F <= n /\ n \in Nat /\ l \in Nat
    BY <1>1, <1>3, BodyHere, Zenon
<1>5. W \in Nat /\ W <= in_buffer_length /\ W <= l
    BY <1>1, <1>3, WantedHere, Zenon
<1>6. PICK want \in Nat : want = W - n
    BY <1>1, <1>3, <1>4, <1>5
<1>7. n + want <= l /\ n + want <= in_buffer_length
  <2>1. n + want = W
    BY <1>4, <1>5, <1>6
  <2> QED
    BY <1>5, <2>1
<1>8. Take(k, want)
    BY <1>2, <1>3, <1>6, Zenon
<1>9. /\ k \in 1 .. want /\ Len(buf') = n + k /\ IsStart(buf', p)
      /\ \A d \in {"idle", "length", "body"} :
            at' = d /\ InPacket(p, d, buf', part) => After
  <2>1. at # "data" /\ at # "idle"
    BY <1>1
  <2>2. UNCHANGED <<part, sent, handled>>
    BY <1>1
  <2> QED
    BY <1>2, <1>3, <1>4, <1>7, <1>8, <2>1, <2>2, ReadStep, Zenon
<1>10. CASE Len(buf') < W
  <2>1. at' = "idle"
    BY <1>1, <1>3, <1>10, Zenon
  <2>2. Len(buf') < l
    BY <1>4, <1>5, <1>9, <1>10
  <2>3. InPacket(p, "idle", buf', part)
    BY <1>3, <1>9, <2>2 DEF InPacket
  <2> QED
    BY <1>9, <2>1, <2>3
<1>11. CASE ~(Len(buf') < W)
  <2>1. at' = "body"
    BY <1>1, <1>3, <1>11, Zenon
  <2>2. F <= Len(buf')
    BY <1>4, <1>9
  <2>3. InPacket(p, "body", buf', part)
    BY <1>3, <1>9, <2>2 DEF InPacket
  <2> QED
    BY <1>9, <2>1, <2>3
<1> QED
    BY <1>10, <1>11

LEMMA ReadNothingStep ==
    ASSUME AllReadable, Here, ReadNothing, Len(buf) # prev
    PROVE  After
<1>1. /\ at' = "idle" /\ UNCHANGED <<wire, buf, part, sent, handled>>
      /\ at \in {"length", "body"}
    BY DEF ReadNothing
<1>2. PICK p : p = Current /\ WellFormed(p) /\ InPacket(p, at, buf, part) /\ Len(buf) \in Nat
    BY <1>1, ReadsHere
<1>3. IsStart(buf, p) /\ Len(buf) < Len(Bytes(p))
  <2>1. CASE at = "length"
    <3>1. IsStart(buf, p) /\ Len(buf) < Fixed(p)
      BY <1>2, <2>1, Zenon DEF InPacket
    <3>2. Fixed(p) \in {2, 3} /\ Fixed(p) <= Len(Bytes(p)) /\ Len(Bytes(p)) \in Nat
      BY <1>2, LengthOfBytes DEF Fixed
    <3> QED
      BY <1>2, <3>1, <3>2
  <2>2. CASE at = "body"
    <3>1. PICK n \in Nat, l \in Nat, c \in Nat, W \in Nat :
            /\ n = Len(buf) /\ l = Len(Bytes(p)) /\ c = in_buffer_length /\ W = Wanted(buf)
            /\ n <= c /\ W <= l
      BY <1>2, <2>2, BodyHere, WantedHere, Zenon
    <3>2. IsStart(buf, p)
      BY <1>2, <2>2, BodyHere, Zenon
    <3>3. NeedsTopicLength \/ n < W
      BY <2>2, <3>1 DEF ReadNothing
    <3>4. NeedsTopicLength => c < l
      BY <1>2, <2>2, <3>1, WantedHere, Zenon DEF NeedsTopicLength
    <3>5. n < l
      BY <3>1, <3>3, <3>4
    <3> QED
      BY <3>1, <3>2, <3>5
  <2> QED
    BY <1>1, <2>1, <2>2
<1>4. InPacket(p, at', buf, part)
    BY <1>1, <1>3 DEF InPacket
<1> QED
    BY <1>1, <1>2, <1>4, Elsewhere

LEMMA HandleAnswerStep ==
    ASSUME AllReadable, HeaderFits, Here, HandleAnswer
    PROVE  After
<1>1. /\ at = "body" /\ Fits /\ Len(buf) >= Wanted(buf) /\ TypeOf(buf) # PUBLISH
      /\ handled' = Append(handled, Answer(buf)) /\ buf' = <<>> /\ at' = "idle"
      /\ wire' = wire /\ part' = part /\ sent' = sent
    BY DEF HandleAnswer, Complete
<1>2. PICK p, l : p = Current /\ l = Len(Bytes(p))
    OBVIOUS
<1>3. /\ WellFormed(p) /\ IsStart(buf, p) /\ TypeOf(buf) = p.type
      /\ Len(buf) \in Nat /\ l \in Nat /\ Len(buf) <= l
    BY <1>1, <1>2, BodyHere, Zenon
<1>4. p.type # PUBLISH /\ ~Large(buf)
    BY <1>1, <1>3, Zenon DEF Fits
<1>5. Len(buf) = l
  <2>1. Wanted(buf) = l
    BY <1>1, <1>2, <1>4, WantedHere, Zenon
  <2>2. l <= Len(buf)
    BY <1>1, <1>3, <2>1
  <2> QED
    BY <1>3, <2>2
<1>6. Answer(buf) = p
    BY <1>2, <1>3, <1>4, <1>5, AnswerRead, Zenon
<1>7. /\ wire \in Seq(Byte) /\ sent \in Seq(Packets) /\ handled \in Seq(Packets)
      /\ Len(handled) + 1 \in 1 .. Len(sent)
      /\ \A i \in 1 .. Len(handled) : handled[i] = sent[i]
      /\ part.missing \in Nat
      /\ Rest(wire, sent, Len(handled) + 1, Consumed(p, at, buf, part))
    BY <1>1, <1>2, ReadsHere, Zenon
<1>8. Consumed(p, at, buf, part) = Len(Bytes(p))
    BY <1>1, <1>2, <1>5 DEF Consumed
<1>9. p = sent[Len(handled) + 1]
    BY <1>2, Zenon DEF Current
<1>10. Rest(wire, sent, Len(handled) + 1, Len(Bytes(p)))
    BY <1>7, <1>8, Zenon
<1>11. Framed(wire, sent, Append(handled, p), "idle", <<>>, part)
    BY <1>7, <1>9, <1>10, AfterPacket
<1> QED
    BY <1>1, <1>6, <1>11, Zenon DEF After

\* A publish is delivered when its header is in the buffer as a whole.
LEMMA HeaderHere ==
    ASSUME AllReadable, Here, Complete, TypeOf(buf) = PUBLISH, HasTopic(buf)
    PROVE  Header(Current) <= Len(buf)
<1>1. at = "body" /\ Fits /\ Len(buf) >= Wanted(buf)
    BY DEF Complete
<1>2. PICK p, l, n, F, T, W, D, H :
        /\ p = Current /\ l = Len(Bytes(p)) /\ n = Len(buf)
        /\ F = Fixed(p) /\ T = Len(p.topic) /\ W = WithId(p) /\ D = Len(p.data) /\ H = Header(p)
    OBVIOUS
<1>3. /\ Readable(p) /\ WellFormed(p) /\ IsStart(buf, p) /\ p.type = PUBLISH
      /\ n \in Nat /\ l \in Nat /\ n <= l /\ n <= in_buffer_length /\ in_buffer_length \in Nat
      /\ FixedLength(buf) = F
    BY <1>1, <1>2, BodyHere, Zenon
<1>4. /\ F \in {2, 3} /\ T \in Nat /\ D \in Nat /\ W \in {0, 2}
      /\ H = F + 2 + T + W /\ l = H + D
  <2>1. IsPublish(Bytes(p), p, F, T, W, D, H)
    BY <1>2, <1>3, BytesOfPublish, Zenon
  <2> QED
    BY <1>2, <2>1, Zenon DEF IsPublish
<1>5. CASE ~Large(buf)
  <2>1. Wanted(buf) = l
    BY <1>1, <1>2, <1>5, WantedHere, Zenon
  <2>2. n >= l
    BY <1>1, <1>2, <2>1, Zenon
  <2> QED
    BY <1>2, <1>3, <1>4, <2>2
<1>6. CASE Large(buf)
  <2>1. Wanted(buf) = in_buffer_length /\ in_buffer_length < l
    BY <1>1, <1>2, <1>6, WantedHere, Zenon
  <2>2. n >= in_buffer_length
    BY <1>1, <1>2, <2>1, Zenon
  <2>3. n = in_buffer_length
    BY <1>3, <2>2
  <2>4. ~NeedsTopicLength
    BY <1>1, <1>6, Zenon DEF Fits
  <2>5. ~(n < F + 2)
    BY <1>2, <1>3, <1>6, <2>4, Zenon DEF NeedsTopicLength
  <2>6. F + 2 <= n
    BY <1>3, <1>4, <2>5
  <2>7. TopicAt(buf) = F + 2 /\ TopicLen(buf) = T
    BY <1>2, <1>3, <2>6, TopicRead, Zenon
  <2>8. F + 2 + T <= n
    BY <1>2, <2>7, Zenon DEF HasTopic
  <2>9. CASE p.qos > 0
    <3>1. W = 2
      BY <1>2, <2>9, Zenon DEF WithId
    <3>2. in_buffer_length \notin {H - 2, H - 1}
      BY <1>2, <1>3, <2>1, <2>9, Zenon DEF Readable, RoomForId
    <3>3. H <= n
      <4>1. H - 2 <= n /\ n # H - 2 /\ n # H - 1
        BY <1>4, <2>3, <2>8, <3>1, <3>2
      <4>2. H \in Int
        BY <1>4
      <4> QED
        BY <1>3, <4>1, <4>2
    <3> QED
      BY <1>2, <3>3, Zenon
  <2>10. CASE ~(p.qos > 0)
    <3>1. W = 0
      BY <1>2, <2>10, Zenon DEF WithId
    <3> QED
      BY <1>2, <1>3, <1>4, <2>8, <3>1
  <2> QED
    BY <2>9, <2>10
<1> QED
    BY <1>5, <1>6

LEMMA DeliverPublishStep ==
    ASSUME AllReadable, HeaderFits, Here, DeliverPublish
    PROVE  After
<1>1. Complete /\ at = "body" /\ TypeOf(buf) = PUBLISH /\ HasTopic(buf)
    BY DEF DeliverPublish, Complete
<1>2. PICK p, l, n, D, H :
        p = Current /\ l = Len(Bytes(p)) /\ n = Len(buf) /\ D = Len(p.data) /\ H = Header(p)
    OBVIOUS
<1>3. /\ Readable(p) /\ WellFormed(p) /\ IsStart(buf, p) /\ p.type = PUBLISH
      /\ n \in Nat /\ l \in Nat /\ n <= l /\ TotalLength(buf) = l
    BY <1>1, <1>2, BodyHere, Zenon
<1>4. D \in Nat /\ l = H + D /\ H \in Nat
  <2>1. PICK F, T, W : F = Fixed(p) /\ T = Len(p.topic) /\ W = WithId(p)
    OBVIOUS
  <2>2. IsPublish(Bytes(p), p, F, T, W, D, H)
    BY <1>2, <1>3, <2>1, BytesOfPublish, Zenon
  <2>3. /\ F \in {2, 3} /\ T \in Nat /\ W \in {0, 2}
        /\ H = F + 2 + T + W /\ l = H + D /\ D \in Nat
    BY <1>2, <2>2, Zenon DEF IsPublish
  <2> QED
    BY <2>3
<1>5. H <= n
    BY <1>1, <1>2, HeaderHere, Zenon
<1>6. Published(buf) = PartOf(p, n - H)
    BY <1>2, <1>3, <1>5, PublishRead, Zenon
<1>7. /\ wire \in Seq(Byte) /\ sent \in Seq(Packets) /\ handled \in Seq(Packets)
      /\ buf \in Seq(Byte) /\ Len(buf) <= in_buffer_length
      /\ Len(handled) + 1 \in 1 .. Len(sent) /\ Len(handled) < Len(sent)
      /\ \A i \in 1 .. Len(handled) : handled[i] = sent[i]
      /\ part.missing \in Nat
      /\ Rest(wire, sent, Len(handled) + 1, Consumed(p, at, buf, part))
      /\ Len(handled) \in Nat
    BY <1>1, <1>2, ReadsHere, Zenon
<1>8. Consumed(p, at, buf, part) = n
    BY <1>1, <1>2 DEF Consumed
<1>9. p = sent[Len(handled) + 1]
    BY <1>2, Zenon DEF Current
<1>10. CASE n < l
  <2>1. /\ at' = "data"
        /\ part' = [packet |-> Published(buf), missing |-> TotalLength(buf) - Len(buf)]
        /\ wire' = wire /\ sent' = sent /\ buf' = buf /\ handled' = handled
    BY <1>2, <1>3, <1>10 DEF DeliverPublish
  <2>2. PICK q : q = [packet |-> PartOf(p, n - H), missing |-> l - n]
    OBVIOUS
  <2>3. part' = q
    BY <1>2, <1>3, <1>6, <2>1, <2>2, Zenon
  <2>4. q.missing = l - n /\ q.packet = PartOf(p, n - H)
    BY <2>2
  <2>5. l - n \in Nat /\ l - n \in 1 .. D /\ n - H = D - (l - n) /\ l - (l - n) = n
    BY <1>3, <1>4, <1>5, <1>10
  <2>6. InPacket(p, "data", buf, q)
  <3>1. q.missing \in 1 .. Len(p.data) /\ q.packet = PartOf(p, Len(p.data) - q.missing)
    BY <1>2, <2>4, <2>5, Zenon
  <3> QED
    BY <3>1 DEF InPacket
  <2>7. Consumed(p, "data", buf, q) = n
    BY <1>2, <2>4, <2>5 DEF Consumed
  <2>8. Shaped(wire, sent, handled, "data", buf, q)
    BY <1>7, <2>4, <2>5 DEF Shaped
  <2>9. Len(handled) <= Len(sent)
    BY Zenon DEF Here, Framed
  <2>10. Framed(wire, sent, handled, "data", buf, q)
    BY <1>7, <1>8, <1>9, <2>6, <2>7, <2>8, <2>9, Zenon DEF Framed
  <2> QED
    BY <2>1, <2>3, <2>10, Zenon DEF After
<1>11. CASE ~(n < l)
  <2>1. /\ handled' = Append(handled, Published(buf)) /\ buf' = <<>> /\ at' = "idle"
        /\ part' = part /\ wire' = wire /\ sent' = sent
    BY <1>2, <1>3, <1>11 DEF DeliverPublish
  <2>2. n = l /\ n - H = D
    BY <1>3, <1>4, <1>11
  <2>3. Published(buf) = p
    BY <1>2, <1>3, <1>6, <2>2, WholePart, Zenon
  <2>4. Rest(wire, sent, Len(handled) + 1, Len(Bytes(p)))
    BY <1>2, <1>7, <1>8, <2>2, Zenon
  <2>5. Framed(wire, sent, Append(handled, p), "idle", <<>>, part)
    BY <1>7, <1>9, <2>4, AfterPacket
  <2> QED
    BY <2>1, <2>3, <2>5, Zenon DEF After
<1> QED
    BY <1>10, <1>11

\* The payload of a packet is what comes last.
LEMMA PayloadIsLast ==
    ASSUME NEW p, WellFormed(p)
    PROVE  \A i \in 1 .. Len(p.data) :
              Bytes(p)[Len(Bytes(p)) - Len(p.data) + i] = p.data[i]
<1>1. PICK B, F, T, W, D, H, l :
        /\ B = Bytes(p) /\ F = Fixed(p) /\ T = Len(p.topic) /\ W = WithId(p)
        /\ D = Len(p.data) /\ H = Header(p) /\ l = Len(B)
    OBVIOUS
<1>2. D \in Nat /\ l \in Nat
    BY <1>1, DataLength, Zenon
<1>3. CASE p.type = PUBLISH
  <2>1. IsPublish(B, p, F, T, W, D, H)
    BY <1>1, <1>3, BytesOfPublish, Zenon
  <2>2. /\ F \in {2, 3} /\ T \in Nat /\ W \in {0, 2} /\ H = F + 2 + T + W /\ l = H + D
        /\ \A i \in 1 .. D : B[H + i] = p.data[i]
    BY <1>1, <2>1, Zenon DEF IsPublish
  <2>3. l - D = H
    BY <1>2, <2>2
  <2> QED
    BY <1>1, <2>2, <2>3, Zenon
<1>4. CASE p.type \notin {PUBLISH, PINGRESP}
  <2>1. l = 4 + D /\ \A i \in 1 .. D : B[4 + i] = p.data[i]
    BY <1>1, <1>4, BytesOfAnswer DEF IsAnswer
  <2>2. l - D = 4
    BY <1>2, <2>1
  <2> QED
    BY <1>1, <2>1, <2>2, Zenon
<1>5. CASE p.type = PINGRESP
  <2>1. p.data = <<>>
    BY <1>5 DEF WellFormed, PUBLISH, SUBACK, PINGRESP
  <2> QED
    BY <2>1
<1> QED
    BY <1>3, <1>4, <1>5

\* More of the payload.
Grown(q, data) == [q EXCEPT !.data = @ \o data]

LEMMA GrownPart ==
    ASSUME NEW q \in Message, NEW d \in Seq(Byte)
    PROVE  Grown(q, d) = [type |-> q.type, qos |-> q.qos, id |-> q.id, topic |-> q.topic,
                          data |-> q.data \o d]
<1>1. PICK x \in Seq(Byte) : x = q.data \o d
  <2>1. q.data \in Seq(Byte)
    BY DEF Message
  <2> QED
    BY <2>1, Joined
<1>2. PICK r : r = [q EXCEPT !.data = x]
    OBVIOUS
<1>3. r \in Message
    BY <1>2 DEF Message
<1>4. r.type = q.type /\ r.qos = q.qos /\ r.id = q.id /\ r.topic = q.topic /\ r.data = x
    BY <1>2 DEF Message
<1>5. r = [type |-> q.type, qos |-> q.qos, id |-> q.id, topic |-> q.topic, data |-> x]
    BY <1>3, <1>4 DEF Message
<1>6. Grown(q, d) = r
    BY <1>1, <1>2 DEF Grown
<1> QED
    BY <1>1, <1>5, <1>6, Zenon

\* k more bytes of the payload.
LEMMA PartGrows ==
    ASSUME NEW p, WellFormed(p), NEW w \in Seq(Byte), NEW m \in Nat, NEW k \in Nat,
           m + k <= Len(p.data), k <= Len(w), \A i \in 1 .. k : w[i] = p.data[m + i]
    PROVE  Grown(PartOf(p, m), SubSeq(w, 1, k)) = PartOf(p, m + k)
<1>1. PICK data \in Seq(Byte) : data = p.data
    BY DEF WellFormed, Message
<1>2. Len(data) \in Nat /\ Len(w) \in Nat
    BY LenProperties
<1>3. m \in 0 .. Len(data) /\ m + k \in 0 .. Len(data) /\ k \in 0 .. Len(w)
    BY <1>1, <1>2
<1>4. PICK x \in Seq(Byte) : x = SubSeq(data, 1, m) /\ Len(x) = m /\ \A i \in 1 .. m : x[i] = data[i]
  <2>1. /\ SubSeq(data, 1, m) \in Seq(Byte) /\ Len(SubSeq(data, 1, m)) = m
        /\ \A i \in 1 .. m : SubSeq(data, 1, m)[i] = data[i]
    BY <1>3, TakenFront
  <2> QED
    BY <2>1, Zenon
<1>5. PICK t \in Seq(Byte) : t = SubSeq(w, 1, k) /\ Len(t) = k /\ \A i \in 1 .. k : t[i] = w[i]
  <2>1. /\ SubSeq(w, 1, k) \in Seq(Byte) /\ Len(SubSeq(w, 1, k)) = k
        /\ \A i \in 1 .. k : SubSeq(w, 1, k)[i] = w[i]
    BY <1>3, TakenFront
  <2> QED
    BY <2>1, Zenon
<1>6. PICK y \in Seq(Byte) : /\ y = SubSeq(data, 1, m + k) /\ Len(y) = m + k
                             /\ \A i \in 1 .. m + k : y[i] = data[i]
  <2>1. /\ SubSeq(data, 1, m + k) \in Seq(Byte) /\ Len(SubSeq(data, 1, m + k)) = m + k
        /\ \A i \in 1 .. m + k : SubSeq(data, 1, m + k)[i] = data[i]
    BY <1>3, TakenFront
  <2> QED
    BY <2>1, Zenon
<1>7. PICK z \in Seq(Byte) : z = x \o t /\ IsJoin(z, x, t)
    BY Joined, Zenon
<1>8. z = y
  <2>1. Len(z) = m + k
    BY <1>4, <1>5, <1>7, Zenon DEF IsJoin
  <2>2. ASSUME NEW i \in 1 .. m + k PROVE z[i] = y[i]
    <3>1. CASE i <= m
      <4>1. i \in 1 .. m
        BY <3>1
      <4> QED
        BY <1>4, <1>6, <1>7, <4>1, Zenon DEF IsJoin
    <3>2. CASE ~(i <= m)
      <4>1. PICK j \in Nat : j = i - m
        BY <3>2
      <4>2. j \in 1 .. k /\ m + j = i
        BY <3>2, <4>1
      <4>3. z[m + j] = t[j]
        BY <1>4, <1>5, <1>7, <4>2, Zenon DEF IsJoin
      <4>4. t[j] = data[m + j]
        BY <1>1, <1>5, <4>2, Zenon
      <4> QED
        BY <1>6, <4>2, <4>3, <4>4
    <3> QED
      BY <3>1, <3>2
  <2> QED
    BY <1>6, <2>1, <2>2, SeqEqual
<1>9. Grown(PartOf(p, m), SubSeq(w, 1, k))
        = [type |-> p.type, qos |-> p.qos, id |-> p.id, topic |-> p.topic, data |-> x \o t]
  <2>1. PartOf(p, m) =
          [type |-> p.type, qos |-> p.qos, id |-> p.id, topic |-> p.topic, data |-> x]
    BY <1>1, <1>4, Zenon DEF PartOf
  <2>2. PICK r : r = [type |-> p.type, qos |-> p.qos, id |-> p.id, topic |-> p.topic, data |-> x]
    OBVIOUS
  <2>3. /\ r.data = x
        /\ r.type = p.type /\ r.qos = p.qos /\ r.id = p.id /\ r.topic = p.topic
    BY <2>2
  <2>4. r \in Message
    <3>1. p \in Message
      BY DEF WellFormed
    <3> QED
      BY <2>2, <3>1 DEF Message
  <2>5. Grown(r, t)
          = [type |-> r.type, qos |-> r.qos, id |-> r.id, topic |-> r.topic, data |-> r.data \o t]
    BY <2>4, GrownPart, Zenon
  <2> QED
    BY <1>5, <2>1, <2>2, <2>3, <2>5, Zenon
<1> QED
    BY <1>1, <1>6, <1>7, <1>8, <1>9, Zenon DEF PartOf

LEMMA ReadDataStep ==
    ASSUME AllReadable, HeaderFits, Here, ReadData
    PROVE  After
<1>1. at = "data" /\ sent' = sent
    BY DEF ReadData
<1>2. PICK k \in Nat :
        /\ Take(k, IF part.missing > in_buffer_length THEN in_buffer_length ELSE part.missing)
        /\ LET p == Grown(part.packet, SubSeq(wire, 1, k))
           IN  IF k < part.missing
               THEN /\ part' = [packet |-> p, missing |-> part.missing - k]
                    /\ UNCHANGED <<buf, at, handled>>
               ELSE Finish(p)
  <2>1. \A k \in 1 .. in_buffer_length : k \in Nat
    BY BoundsAssumption
  <2> QED
    BY <2>1 DEF ReadData, Grown
<1>3. PICK p, l, D, m : p = Current /\ l = Len(Bytes(p)) /\ D = Len(p.data) /\ m = part.missing
    OBVIOUS
<1>4. /\ wire \in Seq(Byte) /\ sent \in Seq(Packets) /\ handled \in Seq(Packets)
      /\ buf \in Seq(Byte) /\ Len(buf) <= in_buffer_length
      /\ Len(handled) + 1 \in 1 .. Len(sent) /\ Len(handled) < Len(sent)
      /\ \A i \in 1 .. Len(handled) : handled[i] = sent[i]
      /\ Rest(wire, sent, Len(handled) + 1, Consumed(p, at, buf, part))
      /\ Len(handled) \in Nat /\ Len(wire) \in Nat
      /\ WellFormed(p) /\ InPacket(p, at, buf, part)
    BY <1>1, <1>3, ReadsHere, Zenon
<1>5. m \in 1 .. D /\ part.packet = PartOf(p, D - m)
    BY <1>1, <1>3, <1>4, Zenon DEF InPacket
<1>6. D \in Nat /\ l \in Nat /\ D <= l
    BY <1>3, <1>4, DataLength, Zenon
<1>7. PICK r \in Nat, d \in Nat : r = l - m /\ d = D - m /\ l - D + d = r
    BY <1>5, <1>6
<1>8. Rest(wire, sent, Len(handled) + 1, r)
  <2>1. Consumed(p, at, buf, part) = r
    BY <1>1, <1>3, <1>7, Zenon DEF Consumed
  <2> QED
    BY <1>4, <2>1, Zenon
<1>9. p = sent[Len(handled) + 1]
    BY <1>3, Zenon DEF Current
<1>10. /\ wire' = SubSeq(wire, k + 1, Len(wire))
       /\ k \in 1 .. Len(wire) /\ k <= m /\ k \in 0 .. Len(wire) /\ k <= Len(wire)
  <2>1. k \in 1 .. (LET want == IF m > in_buffer_length THEN in_buffer_length ELSE m
                    IN  IF want <= Len(wire) THEN want ELSE Len(wire))
        /\ wire' = SubSeq(wire, k + 1, Len(wire))
    BY <1>2, <1>3 DEF Take
  <2> QED
    BY <1>4, <1>5, <1>6, <2>1, BoundsAssumption
<1>11. Rest(wire', sent, Len(handled) + 1, r + k) /\ wire' \in Seq(Byte)
  <2>1. Len(handled) + 1 \in 1 .. Len(sent) + 1
    BY <1>4
  <2>2. Rest(wire', sent, Len(handled) + 1, r + k)
    BY <1>4, <1>8, <1>10, <2>1, RestTaken
  <2>3. wire' \in Seq(Byte)
    BY <1>4, <1>10, Dropped
  <2> QED
    BY <2>2, <2>3
<1>12. \A i \in 1 .. k : wire[i] = p.data[d + i]
  <2>1. ASSUME NEW i \in 1 .. k PROVE wire[i] = p.data[d + i]
    <3>1. i \in 1 .. l - r /\ d + i \in 1 .. D /\ l - D + (d + i) = r + i
      BY <1>5, <1>6, <1>7, <1>10
    <3>2. wire[i] = Bytes(p)[r + i]
      BY <1>3, <1>4, <1>8, <1>9, <3>1, RestHead
    <3>3. Bytes(p)[l - D + (d + i)] = p.data[d + i]
      BY <1>3, <1>4, <3>1, PayloadIsLast, Zenon
    <3> QED
      BY <3>1, <3>2, <3>3, Zenon
  <2> QED
    BY <2>1
<1>13. Grown(part.packet, SubSeq(wire, 1, k)) = PartOf(p, d + k)
  <2>0. d + k <= D
    BY <1>5, <1>6, <1>7, <1>10
  <2>1. d + k <= Len(p.data)
    BY <1>3, <2>0, Zenon
  <2>2. Grown(PartOf(p, d), SubSeq(wire, 1, k)) = PartOf(p, d + k)
    BY <1>4, <1>10, <1>12, <2>1, PartGrows
  <2>3. part.packet = PartOf(p, d)
    BY <1>5, <1>7, Zenon
  <2> QED
    BY <2>2, <2>3, Zenon
<1>14. CASE k < m
  <2>1. /\ part' = [packet |-> PartOf(p, d + k), missing |-> m - k]
        /\ at' = "data" /\ buf' = buf /\ handled' = handled
    BY <1>1, <1>2, <1>3, <1>13, <1>14, Zenon
  <2>2. PICK q : q = [packet |-> PartOf(p, d + k), missing |-> m - k]
    OBVIOUS
  <2>3. q.missing = m - k /\ q.packet = PartOf(p, d + k)
    BY <2>2
  <2>4. m - k \in Nat /\ m - k \in 1 .. D /\ d + k = D - (m - k) /\ l - (m - k) = r + k
    BY <1>5, <1>6, <1>7, <1>10, <1>14
  <2>5. InPacket(p, "data", buf, q)
    <3>1. q.missing \in 1 .. Len(p.data) /\ q.packet = PartOf(p, Len(p.data) - q.missing)
      BY <1>3, <2>3, <2>4, Zenon
    <3> QED
      BY <3>1 DEF InPacket
  <2>6. Consumed(p, "data", buf, q) = r + k
    BY <1>3, <2>3, <2>4 DEF Consumed
  <2>7. Shaped(wire', sent, handled, "data", buf, q)
    BY <1>4, <1>11, <2>3, <2>4 DEF Shaped
  <2>8. Len(handled) <= Len(sent)
    BY Zenon DEF Here, Framed
  <2>9. Framed(wire', sent, handled, "data", buf, q)
    BY <1>4, <1>9, <1>11, <2>5, <2>6, <2>7, <2>8, Zenon DEF Framed
  <2> QED
    BY <1>1, <2>1, <2>2, <2>9, Zenon DEF After
<1>15. CASE ~(k < m)
  <2>1. k = m /\ d + k = D /\ r + k = l
    BY <1>5, <1>6, <1>7, <1>10, <1>15
  <2>2. PartOf(p, d + k) = p
    BY <1>3, <1>4, <2>1, WholePart, Zenon
  <2>3. handled' = Append(handled, p) /\ buf' = <<>> /\ at' = "idle" /\ part' = NoPart
    BY <1>2, <1>3, <1>13, <1>15, <2>2, Zenon DEF Finish
  <2>4. Rest(wire', sent, Len(handled) + 1, Len(Bytes(p)))
    BY <1>3, <1>11, <2>1, Zenon
  <2>5. NoPart.missing \in Nat
    BY DEF NoPart
  <2>6. Framed(wire', sent, Append(handled, p), "idle", <<>>, NoPart)
    BY <1>4, <1>9, <1>11, <2>4, <2>5, AfterPacket
  <2> QED
    BY <1>1, <2>3, <2>6, Zenon DEF After
<1> QED
    BY <1>14, <1>15

LEMMA SendStep ==
    ASSUME AllReadable, Here, NEW p \in Packets, Send(p)
    PROVE  After
<1>1. /\ sent' = Append(sent, p) /\ wire' = wire \o Bytes(p)
      /\ buf' = buf /\ at' = at /\ part' = part /\ handled' = handled
    BY DEF Send
<1> QED
    BY <1>1, FramedSent, Zenon DEF Here, After

-----------------------------------------------------------------------------

IInv ==
    /\ stalled \in BOOLEAN
    /\ ~stalled => Here /\ prev \in 0 .. in_buffer_length

LEMMA FramingKept ==
    ASSUME AllReadable, HeaderFits, Here, prev \in 0 .. in_buffer_length, [Next]_vars, ~stalled'
    PROVE  After /\ prev' \in 0 .. in_buffer_length
<1>0. /\ Len(buf) \in 0 .. in_buffer_length /\ 0 \in 0 .. in_buffer_length
      /\ in_buffer_length \in Nat
  <2>1. in_buffer_length \in Nat
    BY BoundsAssumption
  <2>2. buf \in Seq(Byte) /\ Len(buf) <= in_buffer_length
    BY DEF Here, Framed, Shaped
  <2>3. Len(buf) \in Nat
    BY <2>2, LenProperties
  <2> QED
    BY <2>1, <2>2, <2>3
<1>r. ASSUME Reconnect PROVE After /\ prev' \in 0 .. in_buffer_length
  <2>1. prev' = 0
    BY <1>r DEF Reconnect
  <2> QED
    BY <1>0, <1>r, <2>1, ReconnectStep
<1>1. ASSUME NEW p \in Packets, Send(p)
      PROVE  After /\ prev' \in 0 .. in_buffer_length
  <2>1. prev' = prev
    BY <1>1 DEF Send
  <2> QED
    BY <1>1, <2>1, SendStep
<1>2. CASE Break
    BY <1>2, <1>r DEF Break
<1>3. CASE Resume
  <2>1. prev' = Len(buf)
    BY <1>3 DEF Resume
  <2> QED
    BY <1>0, <1>3, <2>1, ResumeStep
<1>4. CASE ReadFirst
  <2>1. CASE ValidHeader(wire[1])
    <3>1. prev' = 0
      BY <1>4, <2>1 DEF ReadFirst, Reconnect
    <3> QED
      BY <1>0, <1>4, <2>1, <3>1, ReadFirstStep
  <2>2. CASE ~ValidHeader(wire[1])
    BY <1>4, <1>r, <2>2, Zenon DEF ReadFirst
  <2> QED
    BY <2>1, <2>2
<1>5. CASE ReadLength
  <2>1. prev' = prev
    BY <1>5 DEF ReadLength
  <2> QED
    BY <1>5, <2>1, ReadLengthStep
<1>6. CASE ReadTopicLength
  <2>1. prev' = prev
    BY <1>6 DEF ReadTopicLength
  <2> QED
    BY <1>6, <2>1, ReadTopicLengthStep
<1>7. CASE TooBig
    BY <1>7, <1>r DEF TooBig
<1>8. CASE ReadRest
  <2>1. prev' = prev
    BY <1>8 DEF ReadRest
  <2> QED
    BY <1>8, <2>1, ReadRestStep
<1>9. CASE HandleAnswer
  <2>1. prev' = prev
    BY <1>9 DEF HandleAnswer
  <2> QED
    BY <1>9, <2>1, HandleAnswerStep
<1>10. CASE DeliverPublish
  <2>1. prev' = prev
    BY <1>10 DEF DeliverPublish
  <2> QED
    BY <1>10, <2>1, DeliverPublishStep
<1>11. CASE NoTopic
    BY <1>11, <1>r DEF NoTopic
<1>12. CASE ReadData
  <2>1. prev' = prev
    BY <1>12 DEF ReadData
  <2> QED
    BY <1>12, <2>1, ReadDataStep
<1>13. CASE ReadNothing
  <2>1. CASE Len(buf) = prev
    BY <1>13, <1>r, <2>1 DEF ReadNothing
  <2>2. CASE Len(buf) # prev
    <3>1. prev' = prev
      BY <1>13, <2>2 DEF ReadNothing
    <3> QED
      BY <1>13, <2>2, <3>1, ReadNothingStep
  <2> QED
    BY <2>1, <2>2
<1>14. CASE DataTimeout
    BY <1>14 DEF DataTimeout
<1>15. CASE UNCHANGED vars
    BY <1>15 DEF vars, Here, After
<1> QED
    BY <1>1, <1>2, <1>3, <1>4, <1>5, <1>6, <1>7, <1>8, <1>9, <1>10, <1>11, <1>12, <1>13, <1>14,
       <1>15, Zenon DEF Next, Read

\* Only a new connection ends a silence that was taken for success.
LEMMA StalledStays ==
    ASSUME stalled \in BOOLEAN, [Next]_vars
    PROVE  /\ stalled' \in BOOLEAN
           /\ stalled /\ ~stalled' => Reconnect
<1>1. ASSUME Reconnect PROVE stalled' \in BOOLEAN
    BY <1>1 DEF Reconnect
<1>2. ASSUME NEW p \in Packets, Send(p) PROVE stalled' = stalled
    BY <1>2 DEF Send
<1>3. ASSUME Resume \/ ReadLength \/ ReadTopicLength \/ ReadRest PROVE stalled' = stalled
    BY <1>3 DEF Resume, ReadLength, ReadTopicLength, ReadRest
<1>4. ASSUME HandleAnswer \/ DeliverPublish \/ ReadData PROVE stalled' = stalled
    BY <1>4 DEF HandleAnswer, DeliverPublish, ReadData
<1>5. ASSUME ReadFirst \/ ReadNothing PROVE Reconnect \/ stalled' = stalled
    BY <1>5 DEF ReadFirst, ReadNothing
<1>6. ASSUME Break \/ TooBig \/ NoTopic PROVE Reconnect
    BY <1>6 DEF Break, TooBig, NoTopic
<1>7. ASSUME DataTimeout PROVE stalled' = TRUE
    BY <1>7 DEF DataTimeout
<1>8. ASSUME UNCHANGED vars PROVE stalled' = stalled
    BY <1>8 DEF vars
<1>9. Reconnect \/ stalled' = stalled \/ stalled' = TRUE
    BY <1>2, <1>3, <1>4, <1>5, <1>6, <1>7, <1>8, Zenon DEF Next, Read
<1> QED
    BY <1>1, <1>9

\* The invariant holds of every state.
THEOREM Invariant ==
    ASSUME AllReadable, HeaderFits
    PROVE  Spec => []IInv
<1>1. Init => IInv
  <2>1. SUFFICES ASSUME Init PROVE IInv
    OBVIOUS
  <2>2. /\ wire = <<>> /\ buf = <<>> /\ at = "idle" /\ part = NoPart
        /\ sent = <<>> /\ handled = <<>> /\ stalled = FALSE /\ prev = 0
    BY <2>1 DEF Init
  <2>3. NoPart.missing \in Nat
    BY DEF NoPart
  <2>4. Here
    BY <2>2, <2>3, FramedInit, Zenon DEF Here
  <2>5. prev \in 0 .. in_buffer_length
    BY <2>2, BoundsAssumption
  <2> QED
    BY <2>2, <2>4, <2>5 DEF IInv
<1>2. IInv /\ [Next]_vars => IInv'
  <2>1. SUFFICES ASSUME IInv, [Next]_vars PROVE IInv'
    OBVIOUS
  <2>2. stalled' \in BOOLEAN /\ (stalled /\ ~stalled' => Reconnect)
    BY <2>1, StalledStays DEF IInv
  <2>3. ASSUME ~stalled' PROVE After /\ prev' \in 0 .. in_buffer_length
    <3>1. CASE stalled
      <4>1. Reconnect
        BY <2>2, <2>3, <3>1
      <4>2. prev' = 0
        BY <4>1 DEF Reconnect
      <4> QED
        BY <4>1, <4>2, ReconnectStep, BoundsAssumption
    <3>2. CASE ~stalled
      BY <2>1, <2>3, <3>2, FramingKept DEF IInv
    <3> QED
      BY <3>1, <3>2
  <2> QED
    BY <2>2, <2>3 DEF IInv, Here, After
<1> QED
    BY <1>1, <1>2, PTL DEF Spec

\* However the stream is cut into reads, and wherever calls time out in it, the
\* client acts on exactly the packets the broker sent, in their order
\* (mqtt_message_receive, mqtt_process_receive and deliver_publish).
THEOREM IntactPackets ==
    ASSUME AllReadable, HeaderFits
    PROVE  Spec => []PacketsIntact
<1>1. IInv => PacketsIntact
  <2>1. SUFFICES ASSUME Here PROVE IsPrefix(handled, sent)
    BY DEF IInv, PacketsIntact
  <2>2. /\ sent \in Seq(Packets) /\ handled \in Seq(Packets) /\ Len(handled) <= Len(sent)
        /\ \A i \in 1 .. Len(handled) : handled[i] = sent[i]
    BY <2>1, Zenon DEF Here, Framed, Shaped
  <2>3. Len(handled) \in Nat /\ Len(sent) \in Nat
    BY <2>2, LenProperties
  <2>4. PICK k \in 0 .. Len(sent) : k = Len(handled) /\ k \in 0 .. Len(handled)
    BY <2>2, <2>3
  <2>5. SubSeq(sent, 1, k) \in Seq(Packets) /\ IsSlice(SubSeq(sent, 1, k), sent, 0, k)
    BY <2>2, TakenFront DEF IsSlice
  <2>6. PICK x \in Seq(Packets) : x = SubSeq(sent, 1, k) /\ IsSlice(x, sent, 0, k)
    BY <2>5
  <2>7. x = handled
    <3>1. Len(x) = Len(handled) /\ \A i \in 1 .. Len(handled) : x[i] = handled[i]
      BY <2>2, <2>3, <2>4, <2>6 DEF IsSlice
    <3> QED
      BY <2>2, <3>1, SeqEqual
  <2>8. SubSeq(handled, 1, Len(handled)) = handled
    BY <2>2, SubSeqFull
  <2> QED
    BY <2>2, <2>4, <2>6, <2>7, <2>8, Zenon DEF IsPrefix
<1> QED
    BY <1>1, Invariant, PTL

\* The buffer never holds more than fits, and what is handled is typed.
THEOREM TypeCorrect ==
    ASSUME AllReadable, HeaderFits
    PROVE  Spec => [](~stalled => TypeOK)
<1>1. IInv => (~stalled => TypeOK)
  <2>1. SUFFICES ASSUME Here, prev \in 0 .. in_buffer_length, stalled \in BOOLEAN PROVE TypeOK
    BY DEF IInv
  <2>2. /\ wire \in Seq(Byte) /\ buf \in Seq(Byte) /\ Len(buf) <= in_buffer_length
        /\ handled \in Seq(Packets)
        /\ at \in {"idle", "length", "body", "data"} /\ part.missing \in Nat
    BY <2>1, Zenon DEF Here, Framed, Shaped
  <2>3. Packets \subseteq Message
    BY Zenon DEF AllReadable, Readable, WellFormed
  <2>4. Message \subseteq [type : 1 .. 15, qos : 0 .. 2, id : Identifier,
                           topic : Seq(Byte), data : Seq(Byte)]
    BY DEF Message, PUBLISH, PUBACK, PUBREC, PUBREL, PUBCOMP, SUBACK, UNSUBACK, PINGRESP
  <2>5. handled \in Seq([type : 1 .. 15, qos : 0 .. 2, id : Identifier,
                         topic : Seq(Byte), data : Seq(Byte)])
    <3>1. handled \in Seq(Message)
      BY <2>2, <2>3, SeqMonotonic, Zenon
    <3> QED
      BY <2>4, <3>1, SeqMonotonic, Zenon
  <2> QED
    BY <2>1, <2>2, <2>5, Zenon DEF TypeOK
<1> QED
    BY <1>1, Invariant, PTL
=============================================================================
