-------------------------- MODULE Mqtt5Client_proofs --------------------------
(***************************************************************************)
(* The MQTT 5 client, for every login, every set of requests, properties   *)
(* and answers, and every buffer: its flow control never waits for an      *)
(* acknowledgement that cannot come, and its events say what the broker    *)
(* meant.                                                                  *)
(***************************************************************************)
EXTENDS Mqtt5Client, SequenceTheorems, FiniteSetTheorems, NaturalsInduction,
        WellFoundedInduction, TLAPS

\* The broker keeps a list of exchanges and a table of aliases, the client
\* counts from zero on.
DataOK ==
    /\ count \in Nat
    /\ broker = [owed |-> broker.owed, aliases |-> broker.aliases]
    /\ broker.owed \in Seq(ToSet(broker.owed))

\* The window is inductive by itself: what is counted is counted with the
\* exchange that it begins, and a connection begins with neither.
IInv == DataOK /\ WindowIsHonest

-----------------------------------------------------------------------------
(* The exchanges that are not at their end.                                *)

LEMMA SeqOfItsSet ==
    ASSUME NEW T, NEW s \in Seq(T)
    PROVE  s \in Seq(ToSet(s)) /\ Len(s) \in Nat /\ DOMAIN s = 1 .. Len(s)
<1>1. Len(s) \in Nat /\ DOMAIN s = 1 .. Len(s) /\ s \in [1 .. Len(s) -> T]
    BY LenProperties
<1>2. \A i \in 1 .. Len(s) : s[i] \in ToSet(s)
    BY <1>1 DEF ToSet
<1>3. s \in [1 .. Len(s) -> ToSet(s)]
    BY <1>1, <1>2
<1> QED
    BY <1>1, <1>3, SeqDef

LEMMA UnfinishedIsFinite ==
    ASSUME NEW T, NEW s \in Seq(T)
    PROVE  IsFiniteSet(Unfinished(s)) /\ Cardinality(Unfinished(s)) \in Nat
<1>1. Unfinished(s) \in SUBSET (1 .. Len(s)) /\ Len(s) \in Nat
    BY LenProperties DEF Unfinished
<1>2. IsFiniteSet(1 .. Len(s))
    BY <1>1, FS_Interval
<1> QED
    BY <1>1, <1>2, FS_Subset, FS_CardinalityType

\* An exchange that begins is one more if it is a publish.
LEMMA UnfinishedOfAppend ==
    ASSUME NEW s, s \in Seq(ToSet(s)), NEW e
    PROVE  /\ Append(s, e) \in Seq(ToSet(Append(s, e)))
           /\ Cardinality(Unfinished(Append(s, e)))
                = Cardinality(Unfinished(s)) + (IF e.type \in {PUBLISH, "pubrel"} THEN 1 ELSE 0)
<1> DEFINE T == ToSet(s) \union {e}
           n == Len(s) + 1
           t == Append(s, e)
<1>1. s \in Seq(T) /\ Len(s) \in Nat /\ DOMAIN s = 1 .. Len(s)
  <2>1. Len(s) \in Nat /\ DOMAIN s = 1 .. Len(s) /\ s \in [1 .. Len(s) -> T]
    BY LenProperties
  <2> QED
    BY <2>1, SeqDef
<1>2. /\ t \in Seq(T) /\ Len(t) = n
      /\ \A i \in 1 .. Len(s) : t[i] = s[i]
      /\ t[n] = e
    BY <1>1, AppendProperties
<1>3. t \in Seq(ToSet(t)) /\ DOMAIN t = 1 .. n
    BY <1>2, SeqOfItsSet
<1>4. Unfinished(t) = IF e.type \in {PUBLISH, "pubrel"} THEN Unfinished(s) \union {n} ELSE Unfinished(s)
    BY <1>1, <1>2, <1>3 DEF Unfinished
<1>5. n \notin Unfinished(s) /\ IsFiniteSet(Unfinished(s)) /\ Cardinality(Unfinished(s)) \in Nat
    BY <1>1, UnfinishedIsFinite DEF Unfinished
<1>6. Cardinality(Unfinished(s) \union {n}) = Cardinality(Unfinished(s)) + 1
    BY <1>5, FS_AddElement
<1> QED
    BY <1>3, <1>4, <1>5, <1>6

\* An element goes, and those behind it move to the front.
LEMMA RemoveAtShifts ==
    ASSUME NEW T, NEW list \in Seq(T), NEW k \in 1 .. Len(list)
    PROVE  /\ RemoveAt(list, k) \in Seq(T)
           /\ Len(RemoveAt(list, k)) = Len(list) - 1
           /\ \A i \in 1 .. Len(list) - 1 :
                RemoveAt(list, k)[i] = IF i < k THEN list[i] ELSE list[i + 1]
<1>1. Len(list) \in Nat /\ \A i \in 1 .. Len(list) : list[i] \in T
    BY ElementOfSeq, LenProperties
<1>2. PICK front \in Seq(T) : /\ front = SubSeq(list, 1, k - 1) /\ Len(front) = k - 1
                              /\ \A i \in 1 .. k - 1 : front[i] = list[i]
  <2>1. /\ SubSeq(list, 1, k - 1) \in Seq(T) /\ Len(SubSeq(list, 1, k - 1)) = k - 1
        /\ \A i \in 1 .. k - 1 : SubSeq(list, 1, k - 1)[i] = list[i]
    BY <1>1, SubSeqProperties
  <2> QED
    BY Zenon, <2>1
<1>3. PICK back \in Seq(T) : /\ back = SubSeq(list, k + 1, Len(list)) /\ Len(back) = Len(list) - k
                             /\ \A i \in 1 .. Len(list) - k : back[i] = list[k + i]
  <2>1. \A i \in k + 1 .. Len(list) : list[i] \in T
    BY <1>1
  <2>2. /\ SubSeq(list, k + 1, Len(list)) \in Seq(T)
        /\ Len(SubSeq(list, k + 1, Len(list)))
             = IF k + 1 <= Len(list) THEN Len(list) - (k + 1) + 1 ELSE 0
        /\ \A i \in 1 .. Len(list) - (k + 1) + 1 :
             SubSeq(list, k + 1, Len(list))[i] = list[k + 1 + i - 1]
    BY <1>1, <2>1, SubSeqProperties
  <2>3. /\ SubSeq(list, k + 1, Len(list)) \in Seq(T)
        /\ Len(SubSeq(list, k + 1, Len(list))) = Len(list) - k
        /\ \A i \in 1 .. Len(list) - k : SubSeq(list, k + 1, Len(list))[i] = list[k + i]
    BY <1>1, <2>2
  <2> QED
    BY Zenon, <2>3
<1>3a. Len(front) = k - 1 /\ Len(back) = Len(list) - k
    BY Zenon, <1>2, <1>3
<1>4. RemoveAt(list, k) = front \o back
    BY Zenon, <1>2, <1>3 DEF RemoveAt
<1>5. front \o back \in Seq(T)
    BY ConcatProperties
<1>6. Len(front \o back) = Len(list) - 1
  <2>1. Len(front \o back) = Len(front) + Len(back)
    BY ConcatProperties
  <2> QED
    BY <1>1, <1>3a, <2>1
<1>7. ASSUME NEW i \in 1 .. Len(list) - 1
      PROVE  (front \o back)[i] = IF i < k THEN list[i] ELSE list[i + 1]
  <2>1. (front \o back)[i] = IF i <= Len(front) THEN front[i] ELSE back[i - Len(front)]
    <3>1. i \in 1 .. Len(front) + Len(back)
      BY <1>1, <1>3a
    <3> QED
      BY <3>1, ConcatProperties
  <2>2. CASE i < k
    <3>1. i <= Len(front) /\ i \in 1 .. k - 1
      BY <1>1, <1>2, <2>2
    <3> QED
      BY <1>2, <2>1, <2>2, <3>1
  <2>3. CASE ~(i < k)
    <3>1. /\ ~(i <= Len(front)) /\ i - Len(front) \in 1 .. Len(list) - k
          /\ k + (i - Len(front)) = i + 1
      BY <1>1, <1>2, <2>3
    <3>2. back[i - Len(front)] = list[k + (i - Len(front))]
      BY <1>3, <3>1
    <3> QED
      BY <2>1, <2>3, <3>1, <3>2
  <2> QED
    BY <2>2, <2>3
<1> QED
    BY <1>4, <1>5, <1>6, <1>7

\* An exchange that ends is one less, if it was of a publish.
LEMMA UnfinishedOfRemoveAt ==
    ASSUME NEW s, s \in Seq(ToSet(s)), NEW k \in DOMAIN s
    PROVE  /\ RemoveAt(s, k) \in Seq(ToSet(RemoveAt(s, k)))
           /\ Cardinality(Unfinished(RemoveAt(s, k)))
                = Cardinality(Unfinished(s)) - (IF s[k].type \in {PUBLISH, "pubrel"} THEN 1 ELSE 0)
<1> DEFINE n == Len(s)
           t == RemoveAt(s, k)
           f == [i \in Unfinished(t) |-> IF i < k THEN i ELSE i + 1]
           rest == Unfinished(s) \ {k}
<1>1. n \in Nat /\ DOMAIN s = 1 .. n /\ k \in 1 .. n
    BY SeqOfItsSet
<1>2. s \in Seq(ToSet(s)) /\ k \in 1 .. Len(s)
    BY <1>1
<1>3. /\ t \in Seq(ToSet(s)) /\ Len(t) = n - 1
      /\ \A i \in 1 .. n - 1 : t[i] = IF i < k THEN s[i] ELSE s[i + 1]
    BY <1>1, <1>2, RemoveAtShifts, Zenon
<1>4. t \in Seq(ToSet(t)) /\ DOMAIN t = 1 .. n - 1
    BY <1>3, SeqOfItsSet, Zenon
<1>5. /\ Unfinished(s) = {i \in 1 .. n : s[i].type \in {PUBLISH, "pubrel"}}
      /\ Unfinished(t) = {i \in 1 .. n - 1 : t[i].type \in {PUBLISH, "pubrel"}}
    BY <1>1, <1>4, Zenon DEF Unfinished
<1> HIDE DEF n, t
<1>6. ExistsBijection(Unfinished(t), rest)
  <2>1. f \in [Unfinished(t) -> rest]
    BY <1>1, <1>3, <1>5
  <2>2. \A i, j \in Unfinished(t) : f[i] = f[j] => i = j
    BY <1>1, <1>5
  <2>3. \A j \in rest : \E i \in Unfinished(t) : f[i] = j
    <3> SUFFICES ASSUME NEW j \in rest PROVE \E i \in Unfinished(t) : f[i] = j
      OBVIOUS
    <3> DEFINE i == IF j < k THEN j ELSE j - 1
    <3>0. n \in Nat /\ k \in 1 .. n /\ j \in 1 .. n /\ j # k /\ s[j].type \in {PUBLISH, "pubrel"}
      BY <1>1, <1>5
    <3>1. i \in 1 .. n - 1 /\ (IF i < k THEN i ELSE i + 1) = j
      <4>1. CASE j < k
        BY <3>0, <4>1
      <4>2. CASE ~(j < k)
        BY <3>0, <4>2
      <4> QED
        BY <4>1, <4>2
    <3>2. t[i] = s[j]
      BY <1>3, <3>1
    <3>3. i \in Unfinished(t)
      BY <1>5, <3>0, <3>1, <3>2
    <3> QED
      BY <3>1, <3>3
  <2> HIDE DEF f
  <2>4. f \in Bijection(Unfinished(t), rest)
    BY <2>1, <2>2, <2>3 DEF Bijection, Injection, Surjection, IsInjective
  <2> QED
    BY <2>4, Zenon DEF ExistsBijection
<1>7. /\ IsFiniteSet(Unfinished(s)) /\ Cardinality(Unfinished(s)) \in Nat
      /\ IsFiniteSet(Unfinished(t)) /\ Cardinality(Unfinished(t)) \in Nat
    BY <1>4, UnfinishedIsFinite
<1>8. Cardinality(rest) = Cardinality(Unfinished(t))
    BY <1>6, <1>7, FS_Bijection
<1>9. Cardinality(rest) = Cardinality(Unfinished(s)) - (IF k \in Unfinished(s) THEN 1 ELSE 0)
  <2>1. Cardinality(Unfinished(s) \ {k})
          = IF k \in Unfinished(s) THEN Cardinality(Unfinished(s)) - 1 ELSE Cardinality(Unfinished(s))
    BY <1>7, FS_RemoveElement, Zenon
  <2> QED
    BY <1>7, <2>1
<1>10. k \in Unfinished(s) <=> s[k].type \in {PUBLISH, "pubrel"}
    BY <1>1, <1>5
<1> QED
    BY <1>4, <1>8, <1>9, <1>10 DEF t

-----------------------------------------------------------------------------
(* The window.                                                             *)

LEMMA CountIsNatural ==
    ASSUME IInv
    PROVE  /\ count \in Nat /\ DOMAIN broker.owed = 1 .. Len(broker.owed)
           /\ Cardinality(Unfinished(broker.owed)) \in Nat
BY SeqOfItsSet, UnfinishedIsFinite DEF IInv, DataOK

\* What neither counts nor ends an exchange.
LEMMA QuietKeepsInv ==
    ASSUME IInv, UNCHANGED count, broker' = [owed |-> broker.owed, aliases |-> broker'.aliases],
           link' = "up" => link = "up"
    PROVE  IInv'
<1>1. broker'.owed = broker.owed
    BY DEF IInv
<1> QED
    BY <1>1 DEF IInv, DataOK, WindowIsHonest

LEMMA UnchangedKeepsInv ==
    ASSUME IInv, UNCHANGED <<count, broker>>, link' = "up" => link = "up"
    PROVE  IInv'
BY QuietKeepsInv DEF IInv, DataOK

\* An exchange that begins may be counted if it is of a publish.
LEMMA OwesKeepsInv ==
    ASSUME IInv, NEW type, NEW qos, NEW id, Owes(type, qos, id), link' = link,
           count' \in Nat, count' <= IF type = PUBLISH /\ qos > 0 THEN count + 1 ELSE count
    PROVE  IInv'
<1>1. count \in Nat /\ Cardinality(Unfinished(broker.owed)) \in Nat
    BY CountIsNatural
<1>2. CASE link = "up" /\ (type # PUBLISH \/ qos > 0)
  <2> DEFINE e == Exchange(type, qos, id)
  <2>1. broker' = [owed |-> Append(broker.owed, e), aliases |-> broker.aliases]
    BY <1>2 DEF Owes, IInv, DataOK
  <2>2. /\ Append(broker.owed, e) \in Seq(ToSet(Append(broker.owed, e)))
        /\ Cardinality(Unfinished(Append(broker.owed, e)))
             = Cardinality(Unfinished(broker.owed)) + (IF e.type \in {PUBLISH, "pubrel"} THEN 1 ELSE 0)
    BY UnfinishedOfAppend DEF IInv, DataOK
  <2>3. e.type = type
    BY DEF Exchange
  <2>4. count <= Cardinality(Unfinished(broker.owed))
    BY <1>2 DEF IInv, WindowIsHonest
  <2>5. count' <= Cardinality(Unfinished(Append(broker.owed, e)))
    BY <1>1, <1>2, <2>2, <2>3, <2>4
  <2> QED
    BY <2>1, <2>2, <2>5 DEF IInv, DataOK, WindowIsHonest
<1>3. CASE ~(link = "up" /\ (type # PUBLISH \/ qos > 0))
  <2>1. broker' = broker
    BY <1>3 DEF Owes
  <2>2. link = "up" => count' <= count
    BY <1>3
  <2> QED
    BY <1>1, <2>1, <2>2 DEF IInv, DataOK, WindowIsHonest
<1> QED
    BY <1>2, <1>3

\* What the counter counts is at most one more.
LEMMA IncrementedByOne ==
    ASSUME IInv, NEW byte
    PROVE  Incremented(byte) \in Nat /\ Incremented(byte) <= count + 1
<1>1. \A n \in Nat : (n + 1) % 65536 \in Nat /\ (n + 1) % 65536 <= n + 1
    OBVIOUS
<1> QED
    BY <1>1, CountIsNatural DEF Incremented

\* The list of exchanges without one of them.
LEMMA EndedIsShorter ==
    ASSUME IInv, NEW i \in DOMAIN broker.owed
    PROVE  /\ Ended(i) = [owed |-> RemoveAt(broker.owed, i), aliases |-> broker.aliases]
           /\ RemoveAt(broker.owed, i) \in Seq(ToSet(RemoveAt(broker.owed, i)))
           /\ Cardinality(Unfinished(RemoveAt(broker.owed, i)))
                = Cardinality(Unfinished(broker.owed))
                    - (IF broker.owed[i].type \in {PUBLISH, "pubrel"} THEN 1 ELSE 0)
<1>1. Ended(i) = [owed |-> RemoveAt(broker.owed, i), aliases |-> broker.aliases]
    BY DEF IInv, DataOK, Ended
<1>2. broker.owed \in Seq(ToSet(broker.owed))
    BY DEF IInv, DataOK
<1> QED
    BY <1>1, <1>2, UnfinishedOfRemoveAt, Zenon

\* An exchange that ends and is of a publish is no longer counted.
LEMMA EndKeepsInv ==
    ASSUME IInv, NEW i \in DOMAIN broker.owed, broker' = Ended(i), link' = link,
           count' = IF broker.owed[i].type \in {PUBLISH, "pubrel"} THEN Decremented ELSE count
    PROVE  IInv'
<1>1. count \in Nat /\ Cardinality(Unfinished(broker.owed)) \in Nat
    BY CountIsNatural
<1> DEFINE owed == RemoveAt(broker.owed, i)
<1>2. /\ broker' = [owed |-> owed, aliases |-> broker.aliases]
      /\ owed \in Seq(ToSet(owed))
      /\ Cardinality(Unfinished(owed))
           = Cardinality(Unfinished(broker.owed))
               - (IF broker.owed[i].type \in {PUBLISH, "pubrel"} THEN 1 ELSE 0)
    BY EndedIsShorter
<1> HIDE DEF owed
<1>3. Cardinality(Unfinished(owed)) \in Nat
    BY <1>2, UnfinishedIsFinite
<1>4. count' \in Nat
    BY <1>1 DEF Decremented
<1>5. link = "up" => count' <= Cardinality(Unfinished(owed))
    BY <1>1, <1>2, <1>3 DEF Decremented, IInv, WindowIsHonest
<1> QED
    BY <1>2, <1>4, <1>5 DEF IInv, DataOK, WindowIsHonest

-----------------------------------------------------------------------------
(* The steps.                                                              *)

LEMMA InitInv == Init => IInv
<1> SUFFICES ASSUME Init PROVE IInv
    OBVIOUS
<1>1. <<>> \in Seq(ToSet(<<>>))
    BY DEF ToSet
<1> QED
    BY <1>1 DEF Init, IInv, DataOK, WindowIsHonest

LEMMA ConnectKeepsInv ==
    ASSUME IInv, NEW c \in Connacks, Connect(c)
    PROVE  IInv'
<1>1. CASE link' = "up" /\ count' = 0 /\ broker' = [owed |-> <<>>, aliases |-> NoProperty]
  <2>1. <<>> \in Seq(ToSet(<<>>))
    BY DEF ToSet
  <2>2. Cardinality(Unfinished(<<>>)) \in Nat
    BY <2>1, UnfinishedIsFinite
  <2> QED
    BY <1>1, <2>1, <2>2 DEF IInv, DataOK, WindowIsHonest
<1>2. CASE UNCHANGED <<link, count, broker>>
    BY <1>2, UnchangedKeepsInv
<1>3. Accepted(c, mqtt5_msg_parse_connack_property(Broker!Packet(c)), 0) \/ NotAccepted
    BY DEF Connect, Connecting
<1> QED
    BY <1>1, <1>2, <1>3 DEF Accepted, NotAccepted

LEMMA PublishNowKeepsInv ==
    ASSUME IInv, NEW r \in Requests, PublishNow(r)
    PROVE  IInv'
<1>1. CASE /\ \E byte : count' = IF r.qos > 0 THEN Incremented(byte) ELSE count
           /\ Owes(PUBLISH, r.qos, r.no)
           /\ UNCHANGED link
    BY <1>1, CountIsNatural, IncrementedByOne, OwesKeepsInv
<1>2. CASE Aborted /\ UNCHANGED count
    BY <1>2, UnchangedKeepsInv DEF Aborted
<1> QED
    BY <1>1, <1>2 DEF PublishNow

LEMMA RequestedKeepsInv ==
    ASSUME IInv, NEW r \in Requests, r.type # PUBLISH, Owes(r.type, r.qos, r.no),
           UNCHANGED <<link, count>>
    PROVE  IInv'
BY CountIsNatural, OwesKeepsInv

LEMMA ResendKeepsInv ==
    ASSUME IInv, NEW req, NEW sent, NEW failed, mqtt_resend_queued(req, sent, failed)
    PROVE  IInv'
<1>1. CASE /\ count' = IF req.type = PUBLISH /\ req.qos > 0
                       THEN Incremented(req.packet.bytes[1]) ELSE count
           /\ Owes(req.type, req.qos, req.no)
           /\ UNCHANGED link
    BY <1>1, CountIsNatural, IncrementedByOne, OwesKeepsInv
<1>2. CASE Aborted /\ UNCHANGED count
    BY <1>2, UnchangedKeepsInv DEF Aborted
<1> QED
    BY <1>1, <1>2 DEF mqtt_resend_queued

\* PUBREC: one exchange gives way to the other.
LEMMA PubRecKeepsInv ==
    ASSUME IInv, NEW i, NEW p, Ends(i, PUBLISH, 2), Received(i, p)
    PROVE  IInv'
<1>1. /\ i \in DOMAIN broker.owed /\ broker.owed[i].type = PUBLISH
      /\ UNCHANGED <<link, count>>
    BY DEF Received, Ends
<1>2. PICK id : broker' = [Ended(i) EXCEPT !.owed = Append(@, Exchange("pubrel", 2, id))]
    BY DEF Received
<1> DEFINE owed == RemoveAt(broker.owed, i)
           e == Exchange("pubrel", 2, id)
<1>3. /\ Ended(i) = [owed |-> owed, aliases |-> broker.aliases]
      /\ owed \in Seq(ToSet(owed))
      /\ Cardinality(Unfinished(owed)) = Cardinality(Unfinished(broker.owed)) - 1
    BY <1>1, EndedIsShorter
<1> HIDE DEF owed
<1>4. /\ Append(owed, e) \in Seq(ToSet(Append(owed, e)))
      /\ Cardinality(Unfinished(Append(owed, e))) = Cardinality(Unfinished(owed)) + 1
    BY <1>3, UnfinishedOfAppend DEF Exchange
<1>5. broker' = [owed |-> Append(owed, e), aliases |-> broker.aliases]
  <2>1. PICK left : left = Ended(i) /\ left = [owed |-> owed, aliases |-> broker.aliases]
    BY <1>3
  <2>2. left.owed = owed
    BY <2>1
  <2>3. PICK new : new = Append(owed, e)
    OBVIOUS
  <2>4. broker' = [left EXCEPT !.owed = new]
    BY <1>2, <2>1, <2>2, <2>3, Zenon
  <2>5. broker' = [owed |-> new, aliases |-> broker.aliases]
    BY ONLY <2>1, <2>4
  <2> QED
    BY <2>3, <2>5, Zenon
<1>6. Cardinality(Unfinished(Append(owed, e))) = Cardinality(Unfinished(broker.owed))
    BY <1>3, <1>4, CountIsNatural
<1> QED
    BY <1>1, <1>4, <1>5, <1>6 DEF IInv, DataOK, WindowIsHonest

LEMMA NotReadKeepsInv ==
    ASSUME IInv, NotRead
    PROVE  IInv'
BY UnchangedKeepsInv DEF NotRead, Aborted

LEMMA ReceiveKeepsInv ==
    ASSUME IInv, Receive
    PROVE  IInv'
<1>1. ASSUME NEW i \in DOMAIN broker.owed, NEW answer \in Answers,
             ReceivePubAck(i, answer) \/ ReceivePubComp(i, answer)
      PROVE  IInv'
  <2>1. broker.owed[i].type \in {PUBLISH, "pubrel"}
    BY <1>1 DEF ReceivePubAck, ReceivePubComp, Ends
  <2>2. NotRead \/ \E p : Published(i, p)
    BY <1>1 DEF ReceivePubAck, ReceivePubComp, PublishedIfRead
  <2> QED
    BY <2>1, <2>2, EndKeepsInv, NotReadKeepsInv DEF Published
<1>2. ASSUME NEW i \in DOMAIN broker.owed, NEW answer \in Answers, ReceivePubRec(i, answer)
      PROVE  IInv'
  <2>1. Ends(i, PUBLISH, 2) /\ (NotRead \/ \E p : Received(i, p))
    BY <1>2, Zenon DEF ReceivePubRec
  <2> QED
    BY <2>1, PubRecKeepsInv, NotReadKeepsInv
<1>3. ASSUME NEW i \in DOMAIN broker.owed, NEW answer \in Answers,
             ReceiveSubAck(i, answer) \/ ReceiveUnsubAck(i, answer)
      PROVE  IInv'
  <2>1. broker.owed[i].type \notin {PUBLISH, "pubrel"}
    BY <1>3 DEF ReceiveSubAck, ReceiveUnsubAck, Ends, SUBSCRIBE, UNSUBSCRIBE, PUBLISH
  <2>2. NotRead \/ \E p, event : Suback(i, p, event)
    BY <1>3, Zenon DEF ReceiveSubAck, ReceiveUnsubAck, SubackIfRead
  <2> QED
    BY <2>1, <2>2, EndKeepsInv, NotReadKeepsInv DEF Suback
<1>4. ASSUME NEW p \in Publishes, ReceivePubRel(p)
      PROVE  IInv'
    BY <1>4, UnchangedKeepsInv DEF ReceivePubRel
<1> QED
    BY <1>1, <1>2, <1>3, <1>4 DEF Receive

\* A publish of the broker is no exchange of the client's.
LEMMA DeliverKeepsInv ==
    ASSUME IInv, Deliver
    PROVE  IInv'
<1>1. ASSUME NEW p \in Publishes, ReceivePublish(p)
      PROVE  IInv'
  <2>1. UNCHANGED count
    BY <1>1 DEF ReceivePublish
  <2>2. CASE Aborted
    BY <2>1, <2>2, UnchangedKeepsInv DEF Aborted
  <2>3. CASE GivesAlias(p) /\ UNCHANGED link
    <3>1. broker' = [owed |-> broker.owed, aliases |-> broker'.aliases]
      BY <2>3 DEF GivesAlias, IInv, DataOK
    <3> QED
      BY <2>1, <2>3, <3>1, QuietKeepsInv
  <2> QED
    BY <1>1, <2>2, <2>3 DEF ReceivePublish
<1>2. ASSUME NEW n, ReadData(n)
      PROVE  IInv'
    BY <1>2, UnchangedKeepsInv DEF ReadData
<1>3. CASE ReadTimesOut \/ ReadFails
  <2>1. UNCHANGED <<count, broker>> /\ link' # "up"
    BY <1>3 DEF ReadTimesOut, ReadFails, Aborted
  <2> QED
    BY <2>1, UnchangedKeepsInv
<1> QED
    BY <1>1, <1>2, <1>3 DEF Deliver

LEMMA ApplicationKeepsInv ==
    ASSUME IInv, Application
    PROVE  IInv'
<1>1. ASSUME NEW new, Set(new)
      PROVE  IInv'
    BY <1>1, UnchangedKeepsInv DEF Set, ConnectionKept
<1>2. ASSUME NEW p \in ConnectProperties, esp_mqtt5_client_set_connect_property(p)
      PROVE  IInv'
    BY <1>1, <1>2 DEF esp_mqtt5_client_set_connect_property
<1>3. ASSUME NEW p \in PublishProperties, esp_mqtt5_client_set_publish_property(p)
      PROVE  IInv'
    BY <1>1, <1>3 DEF esp_mqtt5_client_set_publish_property
<1>4. ASSUME NEW p \in SubscribeProperties, esp_mqtt5_client_set_subscribe_property(p)
      PROVE  IInv'
    BY <1>1, <1>4 DEF esp_mqtt5_client_set_subscribe_property
<1>5. ASSUME NEW p \in UnsubscribeProperties, esp_mqtt5_client_set_unsubscribe_property(p)
      PROVE  IInv'
    BY <1>1, <1>5 DEF esp_mqtt5_client_set_unsubscribe_property
<1>6. ASSUME NEW p \in DisconnectProperties, esp_mqtt5_client_set_disconnect_property(p)
      PROVE  IInv'
    BY <1>1, <1>6 DEF esp_mqtt5_client_set_disconnect_property
<1>7. ASSUME NEW r \in Requests, PublishRefused(r) \/ PublishLater(r) \/ \E store \in BOOLEAN : Enqueue(r, store)
      PROVE  IInv'
    BY <1>7, UnchangedKeepsInv DEF PublishRefused, PublishLater, Enqueue, ConnectionKept
<1>8. ASSUME NEW r \in Requests, Subscribe(r)
      PROVE  IInv'
  <2>1. r.type # PUBLISH /\ UNCHANGED <<link, count>>
    BY <1>8 DEF Subscribe, SUBSCRIBE, PUBLISH
  <2>2. Owes(r.type, r.qos, r.no) \/ UNCHANGED broker
    BY <1>8 DEF Subscribe, Requested
  <2> QED
    BY <2>1, <2>2, RequestedKeepsInv, UnchangedKeepsInv
<1>9. ASSUME NEW r \in Requests, Unsubscribe(r)
      PROVE  IInv'
  <2>1. r.type # PUBLISH /\ UNCHANGED <<link, count>>
    BY <1>9 DEF Unsubscribe, UNSUBSCRIBE, PUBLISH
  <2>2. Owes(r.type, r.qos, r.no) \/ UNCHANGED broker
    BY <1>9 DEF Unsubscribe, Requested
  <2> QED
    BY <2>1, <2>2, RequestedKeepsInv, UnchangedKeepsInv
<1>10. CASE Disconnect
    BY <1>10, UnchangedKeepsInv DEF Disconnect, Aborted
<1> QED
    BY <1>2, <1>3, <1>4, <1>5, <1>6, <1>7, <1>8, <1>9, <1>10, PublishNowKeepsInv DEF Application

LEMMA StepKeepsInv == IInv /\ [Next]_vars => IInv'
<1> SUFFICES ASSUME IInv, [Next]_vars PROVE IInv'
    OBVIOUS
<1>1. CASE Application
    BY <1>1, ApplicationKeepsInv
<1>2. CASE Receive \/ Deliver
    BY <1>2, ReceiveKeepsInv, DeliverKeepsInv
<1>3. CASE \E c \in Connacks : Connect(c)
    BY <1>3, ConnectKeepsInv
<1>4. CASE ConnectFails \/ Break \/ Notice \/ Expire
    BY <1>4, UnchangedKeepsInv DEF ConnectFails, Break, Notice, Expire, Aborted, ConnectionKept
<1>5. CASE ResendQueued \/ Retransmit
    BY <1>5, ResendKeepsInv DEF ResendQueued, Retransmit
<1>6. CASE UNCHANGED vars
    BY <1>6, UnchangedKeepsInv DEF vars
<1> QED
    BY <1>1, <1>2, <1>3, <1>4, <1>5, <1>6 DEF Next, Task

\* On a connection that works the client counts no publish that the broker
\* does not have to acknowledge, whatever the window, however often a
\* message is repeated, and whatever was lost before.
THEOREM WindowNeverSticks == Spec => []WindowIsHonest
<1>1. IInv => WindowIsHonest
    BY DEF IInv
<1> QED
    BY InitInv, StepKeepsInv, <1>1, PTL DEF Spec

-----------------------------------------------------------------------------
(* The outbox holds messages of requests.                                  *)

OfRequest(no, type) ==
    /\ type \in {PUBLISH, SUBSCRIBE, UNSUBSCRIBE}
    /\ \E r \in Requests : no = r.no /\ type = r.type

IsItem(item) ==
    /\ item = [req |-> item.req, pending |-> item.pending]
    /\ item.req = [no |-> item.req.no, type |-> item.req.type, qos |-> item.req.qos,
                   packet |-> item.req.packet]
    /\ OfRequest(item.req.no, item.req.type)

OutboxOK(list) == list \in Seq(ToSet(list)) /\ \A k \in 1 .. Len(list) : IsItem(list[k])

\* A set of indices that is not empty has a least one, which Min chooses.
LEMMA LeastIndex ==
    ASSUME NEW I \in SUBSET Nat, I # {}
    PROVE  Min(I) \in I
<1>1. PICK x \in I : \A y \in I : ~(<<y, x>> \in OpToRel(<, Nat))
    BY Zenon, NatLessThanWellFounded, WFMin
<1>2. \A y \in I : ~(y < x)
  <2> SUFFICES ASSUME NEW y \in I, y < x PROVE FALSE
    OBVIOUS
  <2>1. x \in Nat /\ y \in Nat
    OBVIOUS
  <2>2. <<y, x>> \in OpToRel(<, Nat)
    BY <2>1, Zenon DEF OpToRel
  <2> QED
    BY <1>1, <2>2
<1>3. \A y \in I : x <= y
    BY <1>2
<1> QED
    BY Zenon, <1>3 DEF Min

LEMMA OutboxIsOK ==
    ASSUME NEW T, NEW list \in Seq(T), \A k \in 1 .. Len(list) : IsItem(list[k])
    PROVE  OutboxOK(list)
BY SeqOfItsSet DEF OutboxOK

LEMMA EnqueueKeepsOutbox ==
    ASSUME NEW list, OutboxOK(list), NEW r \in Requests, OfRequest(r.no, r.type), NEW packet
    PROVE  OutboxOK(outbox_enqueue(list, Stored(r, packet)))
<1> DEFINE item == [req |-> Stored(r, packet), pending |-> QUEUED]
           T == ToSet(list) \union {item}
<1>1. IsItem(item)
    BY DEF IsItem, Stored
<1> HIDE DEF item
<1>2. list \in Seq(T) /\ Len(list) \in Nat
  <2>1. list \in Seq(ToSet(list)) /\ ToSet(list) \subseteq T
    BY DEF OutboxOK
  <2> QED
    BY <2>1, SeqMonotonic, LenProperties, Zenon
<1>3. item \in T
    OBVIOUS
<1> HIDE DEF T
<1>4. /\ Append(list, item) \in Seq(T) /\ Len(Append(list, item)) = Len(list) + 1
      /\ Append(list, item)[Len(list) + 1] = item
      /\ \A k \in 1 .. Len(list) : Append(list, item)[k] = list[k]
    BY <1>2, <1>3, AppendProperties
<1>5. \A k \in 1 .. Len(Append(list, item)) : k \in 1 .. Len(list) \/ k = Len(list) + 1
    BY <1>2, <1>4
<1>6. \A k \in 1 .. Len(Append(list, item)) : IsItem(Append(list, item)[k])
    BY <1>1, <1>4, <1>5, Zenon DEF OutboxOK
<1>7. outbox_enqueue(list, Stored(r, packet)) = Append(list, item)
    BY DEF outbox_enqueue, item
<1> QED
    BY <1>4, <1>6, <1>7, OutboxIsOK

\* One item takes the place of another.
LEMMA ChangeKeepsOutbox ==
    ASSUME NEW list, OutboxOK(list), NEW i, NEW item, i \in 1 .. Len(list) => IsItem(item)
    PROVE  OutboxOK([list EXCEPT ![i] = item])
<1> DEFINE T == ToSet(list) \union {item}
           new == [list EXCEPT ![i] = item]
<1>1. list \in [1 .. Len(list) -> T] /\ Len(list) \in Nat /\ DOMAIN list = 1 .. Len(list)
  <2>1. list \in Seq(ToSet(list))
    BY DEF OutboxOK
  <2>2. list \in [1 .. Len(list) -> ToSet(list)] /\ Len(list) \in Nat
    BY <2>1, LenProperties
  <2> QED
    BY <2>2
<1>2. new \in [1 .. Len(list) -> T]
    BY <1>1
<1>3. new \in Seq(T) /\ Len(new) = Len(list)
    BY <1>1, <1>2, SeqDef, LenProperties
<1>4. \A k \in 1 .. Len(list) : new[k] = IF k = i THEN item ELSE list[k]
    BY <1>1
<1> HIDE DEF new
<1>5. \A k \in 1 .. Len(new) : IsItem(new[k])
    BY <1>3, <1>4, Zenon DEF OutboxOK
<1> QED
    BY <1>3, <1>5, OutboxIsOK DEF new

LEMMA SetPendingKeepsOutbox ==
    ASSUME NEW list, OutboxOK(list), NEW id, NEW pending
    PROVE  OutboxOK(outbox_set_pending(list, id, pending))
<1> DEFINE i == outbox_get(list, id)
           item == [list[i] EXCEPT !.pending = pending]
<1>1. i \in 1 .. Len(list) => IsItem(item)
  <2> SUFFICES ASSUME i \in 1 .. Len(list) PROVE IsItem(item)
    OBVIOUS
  <2>1. IsItem(list[i])
    BY DEF OutboxOK
  <2>2. PICK old : old = list[i] /\ IsItem(old)
    BY <2>1
  <2>3. item = [req |-> old.req, pending |-> pending]
    BY <2>2 DEF IsItem
  <2> QED
    BY <2>2, <2>3 DEF IsItem
<1>2. OutboxOK([list EXCEPT ![i] = item])
    BY <1>1, ChangeKeepsOutbox
<1>3. outbox_set_pending(list, id, pending) = IF i = 0 THEN list ELSE [list EXCEPT ![i] = item]
    BY DEF outbox_set_pending
<1> QED
    BY <1>2, <1>3

LEMMA WithoutKeepsOutbox ==
    ASSUME NEW list, OutboxOK(list), NEW i, i = 0 \/ i \in 1 .. Len(list)
    PROVE  OutboxOK(Without(list, i))
<1>1. CASE i = 0
    BY <1>1 DEF Without
<1>2. CASE i # 0
  <2>1. list \in Seq(ToSet(list)) /\ Len(list) \in Nat /\ i \in 1 .. Len(list)
    BY <1>2, LenProperties DEF OutboxOK
  <2>2. PICK new \in Seq(ToSet(list)) :
          /\ new = RemoveAt(list, i) /\ Len(new) = Len(list) - 1
          /\ \A k \in 1 .. Len(list) - 1 : new[k] = IF k < i THEN list[k] ELSE list[k + 1]
    BY <2>1, RemoveAtShifts, Zenon
  <2>3. \A k \in 1 .. Len(new) : k \in 1 .. Len(list) - 1 /\ k \in 1 .. Len(list) /\ k + 1 \in 1 .. Len(list)
    BY <2>1, <2>2
  <2>4. \A k \in 1 .. Len(new) : IsItem(new[k])
    BY <2>2, <2>3, Zenon DEF OutboxOK
  <2>5. Without(list, i) = new
    BY <1>2, <2>2 DEF Without
  <2> QED
    BY <2>4, <2>5, OutboxIsOK, Zenon
<1> QED
    BY <1>1, <1>2

LEMMA DeleteKeepsOutbox ==
    ASSUME NEW list, OutboxOK(list), NEW id, NEW type
    PROVE  OutboxOK(outbox_delete(list, id, type))
<1> DEFINE I == {k \in 1 .. Len(list) : IdOf(list[k].req) = id /\ list[k].req.type = type}
<1>1. Initiator(list, id, type) = IF I # {} THEN Min(I) ELSE 0
    BY Zenon DEF Initiator, SelectInSeq
<1>2. I \in SUBSET Nat
    OBVIOUS
<1>3. I # {} => Min(I) \in I
    BY <1>2, LeastIndex
<1>4. Initiator(list, id, type) = 0 \/ Initiator(list, id, type) \in 1 .. Len(list)
    BY <1>1, <1>3
<1> QED
    BY <1>4, WithoutKeepsOutbox DEF outbox_delete

LEMMA DeleteItemKeepsOutbox ==
    ASSUME NEW list, OutboxOK(list), NEW req
    PROVE  OutboxOK(outbox_delete_item(list, req))
<1> DEFINE I == {k \in 1 .. Len(list) : list[k].req = req}
           i == SelectInSeq(list, LAMBDA item : item.req = req)
<1>1. i = IF I # {} THEN Min(I) ELSE 0
    BY Zenon DEF SelectInSeq
<1>2. I \in SUBSET Nat
    OBVIOUS
<1>3. I # {} => Min(I) \in I
    BY <1>2, LeastIndex
<1>4. i = 0 \/ i \in 1 .. Len(list)
    BY <1>1, <1>3
<1>5. OutboxOK(Without(list, i))
    BY <1>4, WithoutKeepsOutbox
<1> QED
    BY <1>5, Zenon DEF outbox_delete_item

LEMMA ExpiryKeepsOutbox ==
    ASSUME NEW list, OutboxOK(list), NEW n \in Nat
    PROVE  OutboxOK(outbox_delete_expired(list, n))
<1>1. list \in Seq(ToSet(list)) /\ Len(list) \in Nat
    BY LenProperties DEF OutboxOK
<1>2. \A k \in n + 1 .. Len(list) : list[k] \in ToSet(list)
  <2>1. \A k \in 1 .. Len(list) : list[k] \in ToSet(list)
    BY <1>1, ElementOfSeq
  <2> QED
    BY <2>1
<1>3. /\ SubSeq(list, n + 1, Len(list)) \in Seq(ToSet(list))
      /\ Len(SubSeq(list, n + 1, Len(list))) = IF n + 1 <= Len(list) THEN Len(list) - (n + 1) + 1 ELSE 0
      /\ \A k \in 1 .. Len(list) - (n + 1) + 1 :
            SubSeq(list, n + 1, Len(list))[k] = list[n + 1 + k - 1]
    BY <1>1, <1>2, SubSeqProperties
<1>4. PICK new \in Seq(ToSet(list)) :
        /\ new = SubSeq(list, n + 1, Len(list))
        /\ Len(new) = IF n + 1 <= Len(list) THEN Len(list) - (n + 1) + 1 ELSE 0
        /\ \A k \in 1 .. Len(list) - (n + 1) + 1 : new[k] = list[n + 1 + k - 1]
    BY <1>3, Zenon
<1>5. \A k \in 1 .. Len(new) : k \in 1 .. Len(list) - (n + 1) + 1 /\ n + 1 + k - 1 \in 1 .. Len(list)
    BY <1>1, <1>4
<1>6. \A k \in 1 .. Len(new) : IsItem(new[k])
    BY <1>4, <1>5, Zenon DEF OutboxOK
<1> QED
    BY <1>4, <1>6, OutboxIsOK, Zenon DEF outbox_delete_expired

\* What the task takes from the outbox is of a request.
LEMMA DequeuedIsItem ==
    ASSUME NEW list, OutboxOK(list), NEW pending, outbox_dequeue(list, pending) # 0
    PROVE  outbox_dequeue(list, pending) \in 1 .. Len(list) /\ IsItem(list[outbox_dequeue(list, pending)])
<1> DEFINE I == {k \in 1 .. Len(list) : list[k].pending = pending}
<1>1. outbox_dequeue(list, pending) = IF I # {} THEN Min(I) ELSE 0
    BY Zenon DEF outbox_dequeue, SelectInSeq
<1>2. I \in SUBSET Nat
    OBVIOUS
<1>3. I # {} => Min(I) \in I
    BY <1>2, LeastIndex
<1>4. outbox_dequeue(list, pending) \in 1 .. Len(list)
    BY <1>1, <1>3
<1> QED
    BY <1>4 DEF OutboxOK

-----------------------------------------------------------------------------
(* The exchanges are of requests, and the two sides agree on aliases.      *)

OwedOK(owed) ==
    \A i \in DOMAIN owed :
        OfRequest(owed[i].id, IF owed[i].type = "pubrel" THEN PUBLISH ELSE owed[i].type)

\* The client may know more aliases, of an earlier connection.
AliasesAgree ==
    \A a \in DOMAIN broker.aliases :
        /\ a # 0 /\ a \in DOMAIN config.peer_topic_alias
        /\ config.peer_topic_alias[a] = broker.aliases[a] /\ broker.aliases[a] # <<>>

MeantInv ==
    /\ "peer_topic_alias" \in DOMAIN config
    /\ OutboxOK(outbox) /\ OwedOK(broker.owed) /\ AliasesAgree
    /\ ToldWhatWasMeant

\* What a read is about to continue: what was told is the beginning of the
\* payload, and what is missing is the rest.
IsPart(now) ==
    /\ now = [qos |-> now.qos, id |-> now.id, total |-> now.total, offset |-> now.offset,
              len |-> now.len, missing |-> now.missing, of |-> now.of, told |-> now.told]
    /\ now.of \in Publishes /\ now.total = Len(now.of.payload)
    /\ now.told \in 0 .. Len(now.of.payload) /\ now.told = now.offset + now.len
    /\ now.missing = SubSeq(now.of.payload, now.told + 1, Len(now.of.payload))

PartInv == part = <<>> \/ \E now : part = <<now>> /\ IsPart(now)

AliasKept(c) == "peer_topic_alias" \in DOMAIN c /\ c.peer_topic_alias = config.peer_topic_alias

\* The events that a step leads to, apart from those that tell nothing.
LEMMA KeepsMeant ==
    ASSUME MeantInv, AliasKept(config'), broker'.aliases = broker.aliases,
           OutboxOK(outbox'), OwedOK(broker'.owed), ToldWhatWasMeant'
    PROVE  MeantInv'
BY DEF MeantInv, AliasKept, AliasesAgree, OutboxOK, OwedOK, IsItem, OfRequest

LEMMA NothingTold ==
    ASSUME told' = <<>>
    PROVE  ToldWhatWasMeant'
BY DEF ToldWhatWasMeant

\* What changes neither the outbox nor the exchanges.
LEMMA SettingKeepsMeant ==
    ASSUME MeantInv, AliasKept(config'), UNCHANGED broker, OutboxOK(outbox'), told' = <<>>
    PROVE  MeantInv'
<1>1. OwedOK(broker'.owed) /\ broker'.aliases = broker.aliases
    BY DEF MeantInv
<1> QED
    BY <1>1, NothingTold, KeepsMeant

\* Setting a property, or the broker's answers to CONNECT.
LEMMA OtherFields ==
    ASSUME MeantInv, NEW x, NEW y
    PROVE  /\ AliasKept(config)
           /\ AliasKept([config EXCEPT !.connect = x])
           /\ AliasKept([config EXCEPT !.connect = x, !.will = y])
           /\ AliasKept([config EXCEPT !.server = x, !.connect = y])
           /\ AliasKept([config EXCEPT !.publish = x])
           /\ AliasKept([config EXCEPT !.subscribe = x])
           /\ AliasKept([config EXCEPT !.unsubscribe = x])
           /\ AliasKept([config EXCEPT !.disconnect = x])
BY DEF MeantInv, AliasKept

LEMMA AppendKeepsOwed ==
    ASSUME NEW owed, owed \in Seq(ToSet(owed)), OwedOK(owed), NEW e,
           OfRequest(e.id, IF e.type = "pubrel" THEN PUBLISH ELSE e.type)
    PROVE  OwedOK(Append(owed, e))
<1> DEFINE T == ToSet(owed) \union {e}
<1>1. owed \in Seq(T) /\ Len(owed) \in Nat /\ DOMAIN owed = 1 .. Len(owed) /\ e \in T
  <2>1. owed \in Seq(T)
    BY SeqMonotonic, Zenon
  <2> QED
    BY <2>1, SeqOfItsSet
<1> HIDE DEF T
<1>2. /\ Append(owed, e) \in Seq(T) /\ Len(Append(owed, e)) = Len(owed) + 1
      /\ Append(owed, e)[Len(owed) + 1] = e
      /\ \A k \in 1 .. Len(owed) : Append(owed, e)[k] = owed[k]
    BY <1>1, AppendProperties
<1>3. DOMAIN Append(owed, e) = 1 .. Len(owed) + 1
    BY <1>2, SeqOfItsSet
<1>4. \A k \in 1 .. Len(owed) + 1 : k \in 1 .. Len(owed) \/ k = Len(owed) + 1
    BY <1>1
<1> QED
    BY <1>1, <1>2, <1>3, <1>4, Zenon DEF OwedOK

LEMMA RemoveKeepsOwed ==
    ASSUME NEW owed, owed \in Seq(ToSet(owed)), OwedOK(owed), NEW i \in DOMAIN owed
    PROVE  OwedOK(RemoveAt(owed, i))
<1>1. Len(owed) \in Nat /\ DOMAIN owed = 1 .. Len(owed) /\ i \in 1 .. Len(owed)
    BY SeqOfItsSet
<1>2. PICK new \in Seq(ToSet(owed)) :
        /\ new = RemoveAt(owed, i) /\ Len(new) = Len(owed) - 1
        /\ \A k \in 1 .. Len(owed) - 1 : new[k] = IF k < i THEN owed[k] ELSE owed[k + 1]
    BY <1>1, RemoveAtShifts, Zenon
<1>3. DOMAIN new = 1 .. Len(owed) - 1
    BY <1>2, SeqOfItsSet, Zenon
<1>4. \A k \in 1 .. Len(owed) - 1 : k \in 1 .. Len(owed) /\ k + 1 \in 1 .. Len(owed)
    BY <1>1
<1>5. OwedOK(new)
    BY <1>1, <1>2, <1>3, <1>4, Zenon DEF OwedOK
<1> QED
    BY <1>2, <1>5

\* An exchange begins.
LEMMA OwesKeepsMeant ==
    ASSUME IInv, MeantInv, NEW type, NEW qos, NEW id, type # "pubrel", OfRequest(id, type),
           Owes(type, qos, id)
    PROVE  OwedOK(broker'.owed) /\ broker'.aliases = broker.aliases
<1>1. /\ broker = [owed |-> broker.owed, aliases |-> broker.aliases]
      /\ broker.owed \in Seq(ToSet(broker.owed)) /\ OwedOK(broker.owed)
    BY DEF IInv, DataOK, MeantInv
<1>2. OwedOK(Append(broker.owed, Exchange(type, qos, id)))
    BY <1>1, AppendKeepsOwed DEF Exchange
<1>3. \/ broker' = broker
      \/ broker' = [broker EXCEPT !.owed = Append(broker.owed, Exchange(type, qos, id))]
    BY DEF Owes
<1>4. PICK new : new = Append(broker.owed, Exchange(type, qos, id)) /\ OwedOK(new)
    BY <1>2
<1>5. broker' = broker \/ broker' = [owed |-> new, aliases |-> broker.aliases]
    BY <1>1, <1>3, <1>4
<1>6. broker'.aliases = broker.aliases /\ (broker'.owed = broker.owed \/ broker'.owed = new)
    BY <1>5
<1> QED
    BY <1>1, <1>4, <1>6, Zenon

\* An exchange ends.
LEMMA EndedKeepsMeant ==
    ASSUME IInv, MeantInv, NEW i \in DOMAIN broker.owed
    PROVE  OwedOK(Ended(i).owed) /\ Ended(i).aliases = broker.aliases
<1>1. broker.owed \in Seq(ToSet(broker.owed)) /\ OwedOK(broker.owed)
    BY DEF IInv, DataOK, MeantInv
<1>2. OwedOK(RemoveAt(broker.owed, i))
    BY <1>1, RemoveKeepsOwed
<1>3. Ended(i) = [owed |-> RemoveAt(broker.owed, i), aliases |-> broker.aliases]
    BY EndedIsShorter
<1> QED
    BY <1>2, <1>3

-----------------------------------------------------------------------------
(* What the application does tells it nothing.                             *)

LEMMA SetKeepsMeant ==
    ASSUME MeantInv, NEW new, AliasKept(new), Set(new)
    PROVE  MeantInv'
<1>1. config' = new /\ outbox' = outbox /\ broker' = broker /\ told' = <<>> /\ OutboxOK(outbox)
    BY DEF Set, Quiet, ConnectionKept, MeantInv
<1>2. AliasKept(config') /\ OutboxOK(outbox')
    BY <1>1 DEF AliasKept
<1> QED
    BY <1>1, <1>2, SettingKeepsMeant

LEMMA StoredPublishIsOK ==
    ASSUME MeantInv, NEW r \in Requests, r.type = PUBLISH, NEW built
    PROVE  OutboxOK(StoredPublish(r, built))
<1>1. PICK packet : StoredPublish(r, built) = outbox_enqueue(outbox, Stored(r, packet))
    BY DEF StoredPublish
<1>2. OfRequest(r.no, r.type)
    BY DEF OfRequest
<1> QED
    BY <1>1, <1>2, EnqueueKeepsOutbox DEF MeantInv

LEMMA PublishLaterKeepsMeant ==
    ASSUME MeantInv, NEW r \in Requests, PublishLater(r)
    PROVE  MeantInv'
<1>1. \E built : \E n \in Nat :
        /\ outbox' = outbox_delete_expired(IF r.qos > 0 THEN StoredPublish(r, built) ELSE outbox, n)
        /\ config' = [config EXCEPT !.publish = NoProperty]
        /\ told' = <<>> /\ broker' = broker
  <2>1. Len(outbox) \in Nat
    BY LenProperties DEF MeantInv, OutboxOK
  <2>2. 0 .. Len(outbox) \subseteq Nat
    BY <2>1
  <2> QED
    BY <2>2, Zenon DEF PublishLater, Consumed, Quiet, ConnectionKept
<1>0. r.type = PUBLISH
    BY DEF PublishLater, MayPublishNew
<1>2. ASSUME NEW built
      PROVE  OutboxOK(IF r.qos > 0 THEN StoredPublish(r, built) ELSE outbox)
    BY <1>0, StoredPublishIsOK, Zenon DEF MeantInv
<1>3. OutboxOK(outbox')
    BY <1>1, <1>2, ExpiryKeepsOutbox, Zenon
<1>4. AliasKept(config')
    BY <1>1, OtherFields, Zenon
<1> QED
    BY <1>1, <1>3, <1>4, SettingKeepsMeant

LEMMA PublishNowKeepsMeant ==
    ASSUME IInv, MeantInv, NEW r \in Requests, PublishNow(r)
    PROVE  MeantInv'
<1>1. PICK built, kept :
        /\ kept = IF r.qos > 0 THEN StoredPublish(r, built) ELSE outbox
        /\ config' = [config EXCEPT !.publish = NoProperty]
        /\ \/ /\ outbox' = IF r.qos > 0 THEN outbox_set_pending(kept, r.no, TRANSMITTED) ELSE outbox
              /\ Owes(PUBLISH, r.qos, r.no)
           \/ outbox' = kept /\ broker' = broker
    BY DEF PublishNow, Consumed, Aborted
<1>2. told' = <<>> /\ r.type = PUBLISH
    BY DEF PublishNow, MayPublishNew
<1>3. OutboxOK(kept) /\ OutboxOK(outbox)
    BY <1>1, <1>2, StoredPublishIsOK, Zenon DEF MeantInv
<1>4. OutboxOK(outbox')
    BY <1>1, <1>3, SetPendingKeepsOutbox, Zenon
<1>5. AliasKept(config')
    BY <1>1, OtherFields, Zenon
<1>6. OwedOK(broker'.owed) /\ broker'.aliases = broker.aliases
  <2>1. OfRequest(r.no, PUBLISH) /\ PUBLISH # "pubrel"
    BY <1>2 DEF OfRequest, PUBLISH
  <2>2. CASE Owes(PUBLISH, r.qos, r.no)
    BY <2>1, <2>2, OwesKeepsMeant
  <2>3. CASE broker' = broker
    BY <2>3 DEF MeantInv
  <2> QED
    BY <1>1, <2>2, <2>3
<1> QED
    BY <1>2, <1>4, <1>5, <1>6, NothingTold, KeepsMeant

LEMMA EnqueueKeepsMeant ==
    ASSUME MeantInv, NEW r \in Requests, NEW store, Enqueue(r, store)
    PROVE  MeantInv'
<1>1. PICK built : /\ outbox' = StoredPublish(r, built) \/ outbox' = outbox
                   /\ config' = [config EXCEPT !.publish = NoProperty]
                   /\ told' = <<>> /\ broker' = broker
    BY DEF Enqueue, Consumed, Quiet, ConnectionKept
<1>2. OutboxOK(StoredPublish(r, built)) /\ OutboxOK(outbox)
    BY StoredPublishIsOK DEF MeantInv, Enqueue, MayPublishNew
<1>3. OutboxOK(outbox')
    BY <1>1, <1>2, Zenon
<1>4. AliasKept(config')
    BY <1>1, OtherFields, Zenon
<1> QED
    BY <1>1, <1>3, <1>4, SettingKeepsMeant

\* A subscription or its end.
LEMMA RequestedKeepsMeant ==
    ASSUME IInv, MeantInv, NEW r \in Requests, r.type \in {SUBSCRIBE, UNSUBSCRIBE},
           NEW bytes, NEW asked, Requested(r, bytes, asked), AliasKept(config'), told' = <<>>
    PROVE  MeantInv'
<1>0. OfRequest(r.no, r.type)
    BY DEF OfRequest
<1>1. PICK packet :
        /\ outbox' = outbox_set_pending(outbox_enqueue(outbox, Stored(r, packet)), r.no, TRANSMITTED)
        /\ Owes(r.type, r.qos, r.no)
    BY DEF Requested
<1>2. OutboxOK(outbox')
    BY <1>0, <1>1, EnqueueKeepsOutbox, SetPendingKeepsOutbox, Zenon DEF MeantInv
<1>3. OwedOK(broker'.owed) /\ broker'.aliases = broker.aliases
  <2>1. r.type # "pubrel"
    BY DEF SUBSCRIBE, UNSUBSCRIBE
  <2> QED
    BY <1>0, <1>1, <2>1, OwesKeepsMeant
<1> QED
    BY <1>2, <1>3, NothingTold, KeepsMeant

LEMMA SubscribeKeepsMeant ==
    ASSUME IInv, MeantInv, NEW r \in Requests, Subscribe(r) \/ Unsubscribe(r)
    PROVE  MeantInv'
<1>1. told' = <<>> /\ r.type \in {SUBSCRIBE, UNSUBSCRIBE}
    BY DEF Subscribe, Unsubscribe
<1>2. AliasKept(config')
  <2>1. \/ config' = config \/ config' = [config EXCEPT !.subscribe = NoSubscribeProperty]
        \/ config' = [config EXCEPT !.unsubscribe = NoSubscribeProperty]
    BY DEF Subscribe, Unsubscribe
  <2>2. /\ AliasKept(config) /\ AliasKept([config EXCEPT !.subscribe = NoSubscribeProperty])
        /\ AliasKept([config EXCEPT !.unsubscribe = NoSubscribeProperty])
    BY OtherFields, Zenon
  <2> QED
    BY <2>1, <2>2, Zenon
<1>3. CASE \E bytes, asked : Requested(r, bytes, asked)
    BY <1>1, <1>2, <1>3, RequestedKeepsMeant
<1>4. CASE UNCHANGED <<outbox, broker>>
  <2>1. OutboxOK(outbox') /\ broker' = broker
    BY <1>4 DEF MeantInv
  <2> QED
    BY <1>1, <1>2, <2>1, SettingKeepsMeant
<1> QED
    BY <1>3, <1>4 DEF Subscribe, Unsubscribe

LEMMA ApplicationKeepsMeant ==
    ASSUME IInv, MeantInv, Application
    PROVE  MeantInv'
<1>1. ASSUME NEW p \in ConnectProperties, esp_mqtt5_client_set_connect_property(p)
      PROVE  MeantInv'
  <2>1. PICK x, y : \/ Set([config EXCEPT !.connect = x])
                    \/ Set([config EXCEPT !.connect = x, !.will = y])
    BY <1>1 DEF esp_mqtt5_client_set_connect_property
  <2>2. /\ AliasKept([config EXCEPT !.connect = x])
        /\ AliasKept([config EXCEPT !.connect = x, !.will = y])
    BY OtherFields, Zenon
  <2> QED
    BY <2>1, <2>2, SetKeepsMeant, Zenon
<1>2. ASSUME NEW p \in PublishProperties, esp_mqtt5_client_set_publish_property(p)
      PROVE  MeantInv'
  <2>1. PICK x : Set(config) \/ Set([config EXCEPT !.publish = x])
    BY <1>2 DEF esp_mqtt5_client_set_publish_property
  <2>2. AliasKept(config) /\ AliasKept([config EXCEPT !.publish = x])
    BY OtherFields, Zenon
  <2> QED
    BY <2>1, <2>2, SetKeepsMeant, Zenon
<1>3. ASSUME NEW p \in SubscribeProperties, esp_mqtt5_client_set_subscribe_property(p)
      PROVE  MeantInv'
  <2>1. Set(config) \/ Set([config EXCEPT !.subscribe = p])
    BY <1>3 DEF esp_mqtt5_client_set_subscribe_property
  <2>2. AliasKept(config) /\ AliasKept([config EXCEPT !.subscribe = p])
    BY OtherFields, Zenon
  <2> QED
    BY <2>1, <2>2, SetKeepsMeant, Zenon
<1>4. ASSUME NEW p \in UnsubscribeProperties, esp_mqtt5_client_set_unsubscribe_property(p)
      PROVE  MeantInv'
  <2>1. Set(config) \/ Set([config EXCEPT !.unsubscribe = p])
    BY <1>4 DEF esp_mqtt5_client_set_unsubscribe_property
  <2>2. AliasKept(config) /\ AliasKept([config EXCEPT !.unsubscribe = p])
    BY OtherFields, Zenon
  <2> QED
    BY <2>1, <2>2, SetKeepsMeant, Zenon
<1>5. ASSUME NEW p \in DisconnectProperties, esp_mqtt5_client_set_disconnect_property(p)
      PROVE  MeantInv'
  <2>1. PICK x : Set([config EXCEPT !.disconnect = x])
    BY <1>5 DEF esp_mqtt5_client_set_disconnect_property
  <2>2. AliasKept([config EXCEPT !.disconnect = x])
    BY OtherFields, Zenon
  <2> QED
    BY <2>1, <2>2, SetKeepsMeant, Zenon
<1>6. ASSUME NEW r \in Requests, PublishRefused(r)
      PROVE  MeantInv'
  <2>1. config' = config /\ broker' = broker /\ outbox' = outbox /\ told' = <<>> /\ OutboxOK(outbox)
    BY <1>6 DEF PublishRefused, Quiet, ConnectionKept, MeantInv
  <2>2. AliasKept(config') /\ OutboxOK(outbox')
    BY <2>1, OtherFields, Zenon
  <2> QED
    BY <2>1, <2>2, SettingKeepsMeant
<1>7. CASE Disconnect
  <2>1. /\ broker' = broker /\ outbox' = outbox /\ told' = <<>> /\ OutboxOK(outbox)
        /\ config' = config \/ config' = [config EXCEPT !.disconnect = NoDisconnectProperty]
    BY <1>7 DEF Disconnect, Aborted, MeantInv
  <2>2. AliasKept(config) /\ AliasKept([config EXCEPT !.disconnect = NoDisconnectProperty])
    BY OtherFields, Zenon
  <2>3. AliasKept(config') /\ OutboxOK(outbox')
    BY <2>1, <2>2, Zenon
  <2> QED
    BY <2>1, <2>3, SettingKeepsMeant
<1> QED
    BY <1>1, <1>2, <1>3, <1>4, <1>5, <1>6, <1>7, PublishLaterKeepsMeant, PublishNowKeepsMeant,
       EnqueueKeepsMeant, SubscribeKeepsMeant, Zenon DEF Application

-----------------------------------------------------------------------------
(* What the task does.                                                     *)

\* A broker that refuses has been asked for an acknowledgement all the same;
\* the aliases of the client's earlier connections stay, those of the broker go.
LEMMA ConnectKeepsMeant ==
    ASSUME AllRead, MeantInv, NEW c \in Connacks, Connect(c)
    PROVE  MeantInv'
<1>1. PICK ack : /\ ack = mqtt5_msg_parse_connack_property(Broker!Packet(c))
                 /\ Applied(ack) \/ config' = config
                 /\ \/ /\ ack.ok /\ ack.reason = 0
                       /\ broker' = [owed |-> <<>>, aliases |-> NoProperty]
                       /\ told' = <<Connected(c, ack)>>
                    \/ told' = <<>> /\ broker' = broker
    BY DEF Connect, Connecting, Accepted, NotAccepted
<1>2. AliasKept(config')
  <2>1. PICK x, y : config' = config \/ config' = [config EXCEPT !.server = x, !.connect = y]
    BY <1>1 DEF Applied
  <2>2. AliasKept(config) /\ AliasKept([config EXCEPT !.server = x, !.connect = y])
    BY OtherFields, Zenon
  <2> QED
    BY <2>1, <2>2, Zenon
<1>3. OutboxOK(outbox')
  <2>1. outbox' = outbox
    BY DEF Connect, Connecting
  <2> QED
    BY <2>1 DEF MeantInv
<1>4. CASE told' = <<>> /\ broker' = broker
    BY <1>2, <1>3, <1>4, SettingKeepsMeant
<1>5. CASE /\ ack.ok /\ ack.reason = 0
           /\ broker' = [owed |-> <<>>, aliases |-> NoProperty]
           /\ told' = <<Connected(c, ack)>>
  <2>1. broker'.owed = <<>> /\ broker'.aliases = <<>>
    BY <1>5 DEF NoProperty
  <2>2. OwedOK(broker'.owed) /\ AliasesAgree'
    BY <2>1 DEF OwedOK, AliasesAgree
  <2>3. ack.ack_flag % 2 = c.session /\ UsersOfEvent(ack.user) = UserPairs(c.properties)
    BY <1>1, <1>5 DEF AllRead, ReadsConnack
  <2>4. Connected(c, ack).what = Connected(c, ack).meant
    BY <2>3 DEF Connected
  <2>5. ToldWhatWasMeant'
    <3> DEFINE e == Connected(c, ack)
    <3>1. told' = <<e>> /\ e.what = e.meant
      BY <1>5, <2>4
    <3> HIDE DEF e
    <3> QED
      BY <3>1 DEF ToldWhatWasMeant
  <2> QED
    BY <1>2, <1>3, <2>2, <2>5 DEF MeantInv, AliasKept, OwedOK, OutboxOK, IsItem, OfRequest
<1> QED
    BY <1>1, <1>4, <1>5

LEMMA ResendKeepsMeant ==
    ASSUME IInv, MeantInv, NEW req, NEW sent, NEW failed, OfRequest(req.no, req.type),
           OutboxOK(sent), OutboxOK(failed), mqtt_resend_queued(req, sent, failed)
    PROVE  MeantInv'
<1>1. told' = <<>> /\ config' = config /\ OutboxOK(outbox')
    BY DEF mqtt_resend_queued
<1>2. AliasKept(config')
    BY <1>1, OtherFields, Zenon
<1>3. OwedOK(broker'.owed) /\ broker'.aliases = broker.aliases
  <2>1. CASE Owes(req.type, req.qos, req.no)
    <3>1. req.type # "pubrel"
      BY DEF OfRequest, PUBLISH, SUBSCRIBE, UNSUBSCRIBE
    <3> QED
      BY <2>1, <3>1, OwesKeepsMeant
  <2>2. CASE broker' = broker
    BY <2>2 DEF MeantInv
  <2> QED
    BY <2>1, <2>2 DEF mqtt_resend_queued, Aborted
<1> QED
    BY <1>1, <1>2, <1>3, NothingTold, KeepsMeant

LEMMA ResendQueuedKeepsMeant ==
    ASSUME IInv, MeantInv, ResendQueued
    PROVE  MeantInv'
<1>1. PICK i, req, sent :
        /\ i = outbox_dequeue(outbox, QUEUED) /\ i # 0 /\ req = outbox[i].req
        /\ sent = outbox_set_pending(Left(outbox, req), IdOf(req), TRANSMITTED)
        /\ mqtt_resend_queued(req, sent, outbox)
    BY DEF ResendQueued
<1>2. OutboxOK(outbox)
    BY DEF MeantInv
<1>3. IsItem(outbox[i])
    BY <1>1, <1>2, DequeuedIsItem
<1>4. OfRequest(req.no, req.type)
    BY <1>1, <1>3 DEF IsItem
<1>5. OutboxOK(Left(outbox, req))
    BY <1>2, DeleteItemKeepsOutbox, Zenon DEF Left
<1>6. OutboxOK(sent)
    BY <1>1, <1>5, SetPendingKeepsOutbox
<1> QED
    BY <1>1, <1>2, <1>4, <1>6, ResendKeepsMeant

LEMMA RetransmitKeepsMeant ==
    ASSUME IInv, MeantInv, Retransmit
    PROVE  MeantInv'
<1>1. PICK i, item, req :
        /\ i = outbox_dequeue(outbox, TRANSMITTED) /\ i # 0
        /\ req = IF outbox[i].req.type = PUBLISH /\ outbox[i].req.qos > 0
                 THEN [outbox[i].req EXCEPT !.packet = Duplicate(outbox[i].req.packet)]
                 ELSE outbox[i].req
        /\ item = [outbox[i] EXCEPT !.req = req]
        /\ mqtt_resend_queued(req, Left([outbox EXCEPT ![i] = item], req), [outbox EXCEPT ![i] = item])
    BY DEF Retransmit
<1>2. OutboxOK(outbox)
    BY DEF MeantInv
<1>3. PICK old : old = outbox[i] /\ IsItem(old)
    BY <1>1, <1>2, DequeuedIsItem
<1>4. /\ req = [no |-> old.req.no, type |-> old.req.type, qos |-> old.req.qos, packet |-> req.packet]
      /\ OfRequest(req.no, req.type)
  <2>1. old.req = [no |-> old.req.no, type |-> old.req.type, qos |-> old.req.qos,
                   packet |-> old.req.packet]
    BY <1>3 DEF IsItem
  <2>2. PICK q, packet : q = old.req /\ (req = q \/ req = [q EXCEPT !.packet = packet])
    BY <1>1, <1>3
  <2>3. req = [no |-> old.req.no, type |-> old.req.type, qos |-> old.req.qos, packet |-> req.packet]
    BY <2>1, <2>2
  <2> QED
    BY <1>3, <2>3 DEF IsItem
<1>5. IsItem(item)
  <2>1. item = [req |-> req, pending |-> old.pending]
    BY <1>1, <1>3 DEF IsItem
  <2> QED
    BY <1>4, <2>1 DEF IsItem
<1>6. OutboxOK([outbox EXCEPT ![i] = item])
    BY <1>2, <1>5, ChangeKeepsOutbox
<1>7. OutboxOK(Left([outbox EXCEPT ![i] = item], req))
    BY <1>6, DeleteItemKeepsOutbox, Zenon DEF Left
<1> QED
    BY <1>1, <1>4, <1>6, <1>7, ResendKeepsMeant

\* An event of a packet that was read as it was written.
LEMMA EventKeepsMeant ==
    ASSUME IInv, MeantInv, NEW i \in DOMAIN broker.owed, broker' = Ended(i), config' = config,
           NEW type, NEW id, NEW what, NEW meant, Told(type, id, what, meant), what = meant
    PROVE  MeantInv'
<1>1. outbox' = outbox_delete(outbox, id, type)
    BY DEF Told
<1>2. OutboxOK(outbox')
    BY <1>1, DeleteKeepsOutbox DEF MeantInv
<1>3. ToldWhatWasMeant'
  <2>1. PICK e : told' = <<>> \/ (told' = <<e>> /\ e = [what |-> what, meant |-> meant])
    BY DEF Told
  <2> QED
    BY <2>1 DEF ToldWhatWasMeant
<1>4. OwedOK(broker'.owed) /\ broker'.aliases = broker.aliases
    BY EndedKeepsMeant
<1>5. AliasKept(config')
    BY OtherFields, Zenon
<1> QED
    BY <1>2, <1>3, <1>4, <1>5, KeepsMeant

\* The request of an exchange.
LEMMA AskedOf ==
    ASSUME MeantInv, NEW i \in DOMAIN broker.owed
    PROVE  \E r \in Requests :
             /\ broker.owed[i].id = r.no
             /\ r.type = IF broker.owed[i].type = "pubrel" THEN PUBLISH ELSE broker.owed[i].type
BY DEF MeantInv, OwedOK, OfRequest

LEMMA PublishedKeepsMeant ==
    ASSUME IInv, MeantInv, NEW i \in DOMAIN broker.owed, NEW p, ReadsAck(p), Published(i, p)
    PROVE  MeantInv'
<1>1. PICK bytes, ack, id :
        /\ bytes = Broker!ShortAck(p) /\ ack = mqtt5_get_puback_data(bytes) /\ id = mqtt5_get_id(bytes)
        /\ Told(PUBLISH, id,
                [event |-> "published", id |-> id, data |-> ack.data, user |-> UsersOfEvent(ack.user)],
                [event |-> "published", id |-> p.id, user |-> UserPairs(p.properties),
                 data |-> IF p.reason = 0 /\ p.properties = <<>> THEN <<>> ELSE <<p.reason>>])
    BY DEF Published
<1>2. broker' = Ended(i) /\ config' = config
    BY DEF Published
<1>3. /\ id = p.id /\ UsersOfEvent(ack.user) = UserPairs(p.properties)
      /\ ack.data = IF p.reason = 0 /\ p.properties = <<>> THEN <<>> ELSE <<p.reason>>
    BY <1>1 DEF ReadsAck, ReadsId
<1> QED
    BY <1>1, <1>2, <1>3, EventKeepsMeant

LEMMA SubackKeepsMeant ==
    ASSUME IInv, MeantInv, NEW i \in DOMAIN broker.owed, NEW p, ReadsSuback(p), NEW event,
           Suback(i, p, event)
    PROVE  MeantInv'
<1>1. PICK bytes, ack, id :
        /\ bytes = Broker!Packet(p) /\ ack = mqtt5_get_suback_data(bytes) /\ id = mqtt5_get_id(bytes)
        /\ ack.data # <<>>
        /\ Told(broker.owed[i].type, id,
                [event |-> event, id |-> id, data |-> ack.data, user |-> UsersOfEvent(ack.user)],
                [event |-> event, id |-> p.id, data |-> p.reasons, user |-> UserPairs(p.properties)])
    BY DEF Suback
<1>2. broker' = Ended(i) /\ config' = config
    BY DEF Suback
<1>3. id = p.id /\ UsersOfEvent(ack.user) = UserPairs(p.properties) /\ ack.data = p.reasons
    BY <1>1 DEF ReadsSuback
<1> QED
    BY <1>1, <1>2, <1>3, EventKeepsMeant

\* PUBREC: the next exchange is of the same message.
LEMMA PubRecKeepsMeant ==
    ASSUME AllRead, IInv, MeantInv, NEW i \in DOMAIN broker.owed, NEW answer \in Answers,
           Ends(i, PUBLISH, 2), Received(i, Answered("pubrec", broker.owed[i].id, answer))
    PROVE  MeantInv'
<1>1. PICK id :
        /\ id = mqtt5_get_id(Broker!ShortAck(Answered("pubrec", broker.owed[i].id, answer)))
        /\ outbox' = outbox_set_pending(outbox, id, ACKNOWLEDGED)
        /\ broker' = [Ended(i) EXCEPT !.owed = Append(Ended(i).owed, Exchange("pubrel", 2, id))]
    BY DEF Received
<1>2. told' = <<>> /\ config' = config /\ broker.owed[i].type = PUBLISH
    BY DEF Received, Ends
<1>3. PICK r \in Requests : broker.owed[i].id = r.no /\ r.type = PUBLISH
    BY <1>2, AskedOf DEF PUBLISH
<1>4. ReadsId(Answered("pubrec", r.no, answer))
    BY <1>3 DEF AllRead, PUBLISH, SUBSCRIBE, UNSUBSCRIBE
<1>5. id = Answered("pubrec", r.no, answer).id
    BY <1>1, <1>3, <1>4 DEF ReadsId
<1>6. Answered("pubrec", r.no, answer).id = r.no
    BY DEF Answered
<1>7. OutboxOK(outbox')
    BY <1>1, SetPendingKeepsOutbox, Zenon DEF MeantInv
<1>8. PICK owed : /\ Ended(i) = [owed |-> owed, aliases |-> broker.aliases]
                  /\ owed \in Seq(ToSet(owed)) /\ OwedOK(owed)
  <2>1. /\ Ended(i) = [owed |-> RemoveAt(broker.owed, i), aliases |-> broker.aliases]
        /\ RemoveAt(broker.owed, i) \in Seq(ToSet(RemoveAt(broker.owed, i)))
    BY EndedIsShorter
  <2>2. OwedOK(Ended(i).owed)
    BY EndedKeepsMeant
  <2> QED
    BY <2>1, <2>2
<1>9. OwedOK(Append(owed, Exchange("pubrel", 2, id)))
  <2>1. OfRequest(id, PUBLISH)
    BY <1>3, <1>5, <1>6 DEF OfRequest
  <2> QED
    BY <1>8, <2>1, AppendKeepsOwed DEF Exchange
<1>10. PICK new : new = Append(owed, Exchange("pubrel", 2, id)) /\ OwedOK(new)
    BY <1>9
<1>11. broker' = [owed |-> new, aliases |-> broker.aliases]
  <2>1. PICK left : left = Ended(i) /\ left = [owed |-> owed, aliases |-> broker.aliases]
    BY <1>8
  <2>2. Append(left.owed, Exchange("pubrel", 2, id)) = new
    BY <1>10, <2>1
  <2>3. broker' = [left EXCEPT !.owed = new]
    BY <1>1, <2>1, <2>2, Zenon
  <2> QED
    BY <2>1, <2>3
<1>12. broker'.owed = new /\ broker'.aliases = broker.aliases
    BY <1>11
<1>13. AliasKept(config')
    BY <1>2, OtherFields, Zenon
<1> QED
    BY <1>2, <1>7, <1>10, <1>12, <1>13, NothingTold, KeepsMeant

\* The part that is told is the one that is meant, and the rest is left.
LEMMA PartOfRest ==
    \A s \in Seq(Byte) : \A k \in 0 .. Len(s) :
        /\ Len(SubSeq(s, k + 1, Len(s))) = Len(s) - k
        /\ SubSeq(s, k + 1, Len(s)) = <<>> <=> k = Len(s)
        /\ \A n \in 1 .. Len(SubSeq(s, k + 1, Len(s))) :
             /\ SubSeq(SubSeq(s, k + 1, Len(s)), 1, n) = SubSeq(s, k + 1, k + n)
             /\ SubSeq(SubSeq(s, k + 1, Len(s)), n + 1, Len(SubSeq(s, k + 1, Len(s))))
                   = SubSeq(s, k + n + 1, Len(s))
<1> TAKE s \in Seq(Byte)
<1> TAKE k \in 0 .. Len(s)
<1>0. PICK rest : rest = SubSeq(s, k + 1, Len(s))
    OBVIOUS
<1>1. Len(s) \in Nat /\ k \in Nat /\ k <= Len(s) /\ \A i \in k + 1 .. Len(s) : s[i] \in Byte
    BY LenProperties, ElementOfSeq
<1>2. rest \in Seq(Byte) /\ Len(rest) = Len(s) - k
  <2>1. PICK a \in Nat : a = k + 1
    BY <1>1
  <2>2. a \in Int /\ Len(s) \in Int /\ \A i \in a .. Len(s) : s[i] \in Byte
    BY <1>1, <2>1
  <2>3. /\ SubSeq(s, a, Len(s)) \in Seq(Byte)
        /\ Len(SubSeq(s, a, Len(s))) = IF a <= Len(s) THEN Len(s) - a + 1 ELSE 0
    BY <2>2, SubSeqProperties
  <2>4. rest \in Seq(Byte) /\ Len(rest) = IF a <= Len(s) THEN Len(s) - a + 1 ELSE 0
    BY <1>0, <2>1, <2>3, Zenon
  <2> QED
    BY <1>1, <2>1, <2>4
<1>3. rest = <<>> <=> k = Len(s)
  <2>1. Len(<<>>) = 0 /\ (rest # <<>> => Len(rest) \in Nat \ {0})
    BY <1>2, EmptySeq, Zenon
  <2>2. Len(rest) = 0 <=> k = Len(s)
    BY ONLY <1>1, <1>2
  <2> QED
    BY ONLY <2>1, <2>2
<1>4. ASSUME NEW n \in 1 .. Len(rest)
      PROVE  SubSeq(rest, 1, n) = SubSeq(s, k + 1, k + n)
  <2>1. /\ k + 1 \in 1 .. Len(s) /\ Len(s) \in 1 .. Len(s)
        /\ 1 \in 1 .. Len(s) - (k + 1) + 1 /\ n \in 1 .. Len(s) - (k + 1) + 1
    BY <1>1, <1>2
  <2>2. SubSeq(rest, 1, n) = SubSeq(s, (k + 1) + 1 - 1, (k + 1) + n - 1)
    BY <1>0, <2>1, SubSeqOfSubSeq
  <2>3. (k + 1) + 1 - 1 = k + 1 /\ (k + 1) + n - 1 = k + n
    BY <1>1, <1>2
  <2> QED
    BY <1>0, <2>2, <2>3
<1>5. ASSUME NEW n \in 1 .. Len(rest)
      PROVE  SubSeq(rest, n + 1, Len(rest)) = SubSeq(s, k + n + 1, Len(s))
  <2>1. CASE n = Len(rest)
    <3>1. Len(rest) < n + 1 /\ Len(s) < k + n + 1 /\ n + 1 \in Int /\ Len(rest) \in Int
          /\ k + n + 1 \in Int /\ Len(s) \in Int
      BY <1>1, <1>2, <2>1
    <3> QED
      BY <3>1, SubSeqEmpty
  <2>2. CASE n # Len(rest)
    <3>1. /\ k + 1 \in 1 .. Len(s) /\ Len(s) \in 1 .. Len(s)
          /\ n + 1 \in 1 .. Len(s) - (k + 1) + 1 /\ Len(rest) \in 1 .. Len(s) - (k + 1) + 1
      BY <1>1, <1>2, <2>2
    <3>1a. PICK i, a, b : i = k + 1 /\ a = n + 1 /\ b = Len(rest)
      OBVIOUS
    <3>1b. i \in 1 .. Len(s) /\ a \in 1 .. Len(s) - i + 1 /\ b \in 1 .. Len(s) - i + 1
      BY <3>1, <3>1a
    <3>1c. SubSeq(SubSeq(s, i, Len(s)), a, b) = SubSeq(s, i + a - 1, i + b - 1)
      BY <3>1, <3>1b, SubSeqOfSubSeq
    <3>2. SubSeq(rest, n + 1, Len(rest)) = SubSeq(s, (k + 1) + (n + 1) - 1, (k + 1) + Len(rest) - 1)
      BY <1>0, <3>1a, <3>1c, Zenon
    <3>3. (k + 1) + (n + 1) - 1 = k + n + 1 /\ (k + 1) + Len(rest) - 1 = Len(s)
      BY ONLY <1>1, <1>2, n \in 1 .. Len(rest)
    <3> QED
      BY <3>2, <3>3
  <2> QED
    BY <2>1, <2>2
<1> QED
    BY <1>0, <1>2, <1>3, <1>4, <1>5, Zenon

\* The first event of a publish is the one that is meant, and what is to be read
\* of it is the rest.
LEMMA FirstIsMeant ==
    ASSUME AllRead, NEW p \in Publishes, NEW bytes, bytes = Broker!Packet(p), ~TopicTooBig(bytes),
           NEW read, read = mqtt5_get_publish_property_payload(InBuffer(bytes)), read.ok,
           NEW topic, topic = MeantTopic(p)
    PROVE  /\ Delivered(p, bytes, read, topic).what = Delivered(p, bytes, read, topic).meant
           /\ Missing(bytes) # <<>> => IsPart(Reading(p, bytes, read))
<1>1. PICK first, total, missing, payload :
        /\ first = Len(read.payload) /\ total = TotalData(read, bytes) /\ missing = Missing(bytes)
        /\ payload = read.payload
    OBVIOUS
<1>2. /\ read.property = Struct(p.properties) /\ UsersOfEvent(read.user) = UserPairs(p.properties)
      /\ first \in 0 .. Len(p.payload) /\ payload = SubSeq(p.payload, 1, first)
      /\ total = Len(p.payload) /\ missing = SubSeq(p.payload, first + 1, Len(p.payload))
    BY <1>1 DEF AllRead, ReadsPublish
<1>3. p.payload \in Seq(Byte) /\ Len(p.payload) \in Nat
    BY PublishesAssumption, LenProperties
<1>4. missing = <<>> <=> first = Len(p.payload)
  <2>1. PICK s : s = p.payload
    OBVIOUS
  <2>2. s \in Seq(Byte) /\ first \in 0 .. Len(s) /\ missing = SubSeq(s, first + 1, Len(s))
    BY <1>2, <1>3, <2>1, Zenon
  <2>3. missing = <<>> <=> first = Len(s)
    BY <2>2, PartOfRest, Zenon
  <2> QED
    BY <2>1, <2>3, Zenon
<1>5. 0 + 1 = 1 /\ 0 + first = first
    BY <1>2, <1>3
<1>6. Part(payload, 0, total, missing = <<>>) = MeantPart(p, 0, first)
    BY <1>2, <1>4, <1>5 DEF Part, MeantPart
<1>7. Delivered(p, bytes, read, topic).what = Delivered(p, bytes, read, topic).meant
    BY <1>1, <1>2, <1>6 DEF Delivered
<1>8. IsPart(Reading(p, bytes, read))
  <2>1. PICK id : Reading(p, bytes, read) =
          [qos |-> p.qos, id |-> id, total |-> total, offset |-> 0, len |-> first,
           missing |-> missing, of |-> p, told |-> first]
    BY <1>1 DEF Reading
  <2>2. PICK now : now = Reading(p, bytes, read)
    OBVIOUS
  <2>3. now = [qos |-> p.qos, id |-> id, total |-> total, offset |-> 0, len |-> first,
               missing |-> missing, of |-> p, told |-> first]
    BY <2>1, <2>2, Zenon
  <2>4. IsPart(now)
    BY <1>2, <1>5, <2>3 DEF IsPart
  <2> QED
    BY <2>2, <2>4, Zenon
<1> QED
    BY <1>7, <1>8

\* An alias that the broker uses or gives is the client's as well, and the topic
\* of the event is the one that the broker meant.
LEMMA ReceivePublishKeepsMeant ==
    ASSUME AllRead, IInv, MeantInv, NEW p \in Publishes, NEW bytes, bytes = Broker!Packet(p),
           ~TopicTooBig(bytes), ReceivePublish(p)
    PROVE  MeantInv' /\ (PartInv' \/ UNCHANGED part)
<1> DEFINE alias == Field(Struct(p.properties), TOPIC_ALIAS)
           known == config.peer_topic_alias
<1>1. PICK read, data :
        /\ read = mqtt5_get_publish_property_payload(InBuffer(bytes))
        /\ data = esp_mqtt5_get_publish_data(read)
        /\ config' = [config EXCEPT !.peer_topic_alias = data.aliases]
        /\ \/ data.topic = <<>> /\ told' = <<>> /\ broker' = broker /\ part' = part
           \/ data.topic # <<>> /\ DeliverFirst(p, bytes, read, data.topic) /\ GivesAlias(p)
    BY DEF ReceivePublish, Quiet, Aborted
<1>2. outbox' = outbox /\ MayPublish(p)
    BY DEF ReceivePublish
<1>3. OutboxOK(outbox') /\ OwedOK(broker.owed) /\ AliasesAgree /\ "peer_topic_alias" \in DOMAIN config
    BY <1>2 DEF MeantInv
<1>4. "peer_topic_alias" \in DOMAIN config' /\ config'.peer_topic_alias = data.aliases
    BY <1>1, <1>3
<1>5. CASE data.topic = <<>>
  <2>1. told' = <<>> /\ broker' = broker /\ part' = part
    BY <1>1, <1>5
  <2>2. data.aliases = known
    BY <1>1, <1>5 DEF esp_mqtt5_get_publish_data
  <2>3. AliasKept(config')
    BY <1>4, <2>2 DEF AliasKept
  <2> QED
    BY <1>3, <2>1, <2>3, SettingKeepsMeant
<1>6. CASE data.topic # <<>>
  <2>1. read.ok
    BY <1>1, <1>6 DEF esp_mqtt5_get_publish_data
  <2>2. read.topic = p.topic /\ read.property = Struct(p.properties)
    BY <1>1, <2>1 DEF AllRead, ReadsPublish
  <2>3. data = IF alias = 0 THEN [topic |-> p.topic, aliases |-> known]
               ELSE IF p.topic # <<>>
               THEN [topic |-> p.topic, aliases |-> WithAlias(known, alias, p.topic)]
               ELSE [topic |-> IF alias \in DOMAIN known THEN known[alias] ELSE <<>>, aliases |-> known]
    <3>1. Field(read.property, TOPIC_ALIAS) = alias
      BY <2>2
    <3> HIDE DEF alias
    <3> QED
      BY <1>1, <1>6, <2>2, <3>1 DEF esp_mqtt5_get_publish_data, update_topic_alias
  <2> HIDE DEF alias, known
  <2>4. MayPublish(p) <=> (p.topic = <<>> => alias \in DOMAIN broker.aliases)
    BY DEF MayPublish, alias
  <2>5. MeantTopic(p) = IF p.topic # <<>> THEN p.topic ELSE broker.aliases[alias]
    BY DEF MeantTopic, alias
  <2>6. p.topic = <<>> => /\ alias # 0 /\ alias \in DOMAIN known
                          /\ known[alias] = broker.aliases[alias]
    BY <1>2, <1>3, <2>4 DEF AliasesAgree, known
  <2>7. data.topic = MeantTopic(p)
    BY <2>3, <2>5, <2>6
  <2>8. ToldWhatWasMeant' /\ PartInv'
    <3>1. /\ Delivered(p, bytes, read, data.topic).what = Delivered(p, bytes, read, data.topic).meant
          /\ Missing(bytes) # <<>> => IsPart(Reading(p, bytes, read))
      BY <1>1, <2>1, <2>7, FirstIsMeant
    <3>2. PICK e : e = Delivered(p, bytes, read, data.topic) /\ e.what = e.meant
      BY <3>1
    <3>3. told' = <<e>> /\ (part' = <<>> \/ (Missing(bytes) # <<>> /\ part' = <<Reading(p, bytes, read)>>))
      BY <1>1, <1>6, <3>2 DEF DeliverFirst
    <3>4. part' = <<>> \/ \E now : part' = <<now>> /\ IsPart(now)
      BY <3>1, <3>3, Zenon
    <3> QED
      BY <3>2, <3>3, <3>4 DEF ToldWhatWasMeant, PartInv
  <2>9. broker = [owed |-> broker.owed, aliases |-> broker.aliases]
    BY DEF IInv, DataOK
  <2>9a. broker' = IF alias = 0 THEN broker
                   ELSE [broker EXCEPT !.aliases = WithAlias(broker.aliases, alias, MeantTopic(p))]
    BY <1>1, <1>6 DEF GivesAlias, alias
  <2>10. CASE alias = 0
    <3>1. broker' = broker /\ data.aliases = known
      BY <2>3, <2>9a, <2>10
    <3>2. AliasKept(config')
      BY <1>4, <3>1 DEF AliasKept, known
    <3>3. OwedOK(broker'.owed) /\ broker'.aliases = broker.aliases
      BY <1>3, <3>1
    <3> QED
      BY <1>3, <2>8, <3>2, <3>3, KeepsMeant
  <2>11. CASE alias # 0
    <3> DEFINE mine == WithAlias(broker.aliases, alias, MeantTopic(p))
    <3>1. broker' = [broker EXCEPT !.aliases = mine]
      BY <2>9a, <2>11
    <3>2. /\ DOMAIN mine = {alias} \union DOMAIN broker.aliases
          /\ \A a \in DOMAIN mine : mine[a] = IF a = alias THEN MeantTopic(p) ELSE broker.aliases[a]
      BY DEF WithAlias
    <3> HIDE DEF mine
    <3>3. broker'.owed = broker.owed /\ broker'.aliases = mine
      BY <2>9, <3>1
    <3>4. /\ {alias} \union DOMAIN known = DOMAIN data.aliases
          /\ \A a \in DOMAIN data.aliases :
                data.aliases[a] = IF a = alias THEN MeantTopic(p) ELSE known[a]
      <4>1. CASE p.topic # <<>>
        <5> DEFINE other == WithAlias(known, alias, p.topic)
        <5>1. data.aliases = other
          BY <2>3, <2>11, <4>1
        <5>2. /\ DOMAIN other = {alias} \union DOMAIN known
              /\ \A a \in DOMAIN other : other[a] = IF a = alias THEN p.topic ELSE known[a]
          BY DEF WithAlias
        <5> HIDE DEF other
        <5> QED
          BY <2>5, <4>1, <5>1, <5>2
      <4>2. CASE p.topic = <<>>
        <5>1. data.aliases = known
          BY <2>3, <2>11, <4>2
        <5> QED
          BY <2>5, <2>6, <4>2, <5>1
      <4> QED
        BY <4>1, <4>2
    <3>5. \A a \in DOMAIN broker.aliases :
            /\ a # 0 /\ a \in DOMAIN known /\ known[a] = broker.aliases[a] /\ broker.aliases[a] # <<>>
      BY <1>3 DEF AliasesAgree, known
    <3>6. \A a \in DOMAIN mine :
            /\ a # 0 /\ a \in DOMAIN data.aliases /\ data.aliases[a] = mine[a] /\ mine[a] # <<>>
      BY <1>6, <2>7, <2>11, <3>2, <3>4, <3>5
    <3>7. AliasesAgree'
      BY <1>4, <3>3, <3>6 DEF AliasesAgree
    <3>8. OwedOK(broker'.owed)
      BY <1>3, <3>3
    <3> QED
      BY <1>3, <1>4, <2>8, <3>7, <3>8 DEF MeantInv, OwedOK, OutboxOK, IsItem, OfRequest
  <2> QED
    BY <2>10, <2>11
<1> QED
    BY <1>5, <1>6

\* A later event is the one that is meant, and so is what is left then.
LEMMA ReadDataKeepsMeant ==
    ASSUME MeantInv, PartInv, NEW n, ReadData(n)
    PROVE  MeantInv' /\ PartInv'
<1>1. PICK now : part = <<now>> /\ IsPart(now)
    BY DEF PartInv, ReadData
<1>2. part[1] = now
    BY <1>1
<1> DEFINE left == SubSeq(now.missing, n + 1, Len(now.missing))
<1>2a. PICK s, k, missing : s = now.of.payload /\ k = now.told /\ missing = now.missing
    OBVIOUS
<1>3. /\ s \in Seq(Byte) /\ Len(s) \in Nat /\ k \in 0 .. Len(s) /\ k = now.offset + now.len
      /\ now.total = Len(s) /\ missing = SubSeq(s, k + 1, Len(s))
    BY <1>1, <1>2a, PublishesAssumption, LenProperties DEF IsPart
<1>4. /\ Len(missing) = Len(s) - k
      /\ \A m \in 1 .. Len(missing) :
           /\ SubSeq(missing, 1, m) = SubSeq(s, k + 1, k + m)
           /\ SubSeq(missing, m + 1, Len(missing)) = SubSeq(s, k + m + 1, Len(s))
    BY <1>3, PartOfRest, Zenon
<1>3a. Len(s) \in Nat /\ k \in 0 .. Len(s)
    BY <1>3
<1>4a. Len(missing) = Len(s) - k
    BY <1>4
<1>5. n \in 1 .. Len(missing)
  <2>1. n \in 1 .. Wanted(now)
    BY <1>2 DEF ReadData
  <2>2. Wanted(now) = IF Len(missing) > BufferLength THEN BufferLength ELSE Len(missing)
    BY <1>2a, Zenon DEF Wanted
  <2> QED
    BY <1>3a, <1>4a, <2>1, <2>2, BufferAssumption
<1>6. SubSeq(now.missing, 1, n) = SubSeq(s, k + 1, k + n) /\ left = SubSeq(s, k + n + 1, Len(s))
    BY <1>2a, <1>4, <1>5, Zenon
<1>7. k + n \in 0 .. Len(s)
    BY ONLY <1>3a, <1>4a, <1>5
<1>8. left = <<>> <=> k + n = Len(s)
  <2>1. PICK rest, j : rest = left /\ j = k + n
    OBVIOUS
  <2>2. s \in Seq(Byte) /\ j \in 0 .. Len(s) /\ rest = SubSeq(s, j + 1, Len(s))
    BY <1>3, <1>6, <1>7, <2>1, Zenon
  <2>3. rest = <<>> <=> j = Len(s)
    BY <2>2, PartOfRest, Zenon
  <2> QED
    BY <2>1, <2>3, Zenon
<1>9. ToldWhatWasMeant'
  <2>1. Part(SubSeq(now.missing, 1, n), now.offset + now.len, now.total, left = <<>>)
          = MeantPart(now.of, now.told, n)
    <3>1. MeantPart(now.of, now.told, n)
            = Part(SubSeq(s, k + 1, k + n), k, Len(s), k + n = Len(s))
      BY <1>2a, Zenon DEF MeantPart
    <3>2. now.offset + now.len = k /\ now.total = Len(s) /\ (left = <<>>) = (k + n = Len(s))
      BY <1>3, <1>8
    <3> QED
      BY <1>6, <3>1, <3>2, Zenon
  <2>2. PICK e : told' = <<e>> /\ e.what = e.meant
    BY <1>2, <2>1 DEF ReadData
  <2> QED
    BY <2>2 DEF ToldWhatWasMeant
<1>10. PartInv'
  <2>1. CASE part' = <<>>
    BY <2>1 DEF PartInv
  <2>2. CASE part' # <<>>
    <3> DEFINE next == [now EXCEPT !.offset = now.offset + now.len, !.len = n, !.missing = left, !.told = now.told + n]
    <3>1. part' = <<next>>
      BY <1>2, <2>2 DEF ReadData
    <3>2. next = [qos |-> now.qos, id |-> now.id, total |-> now.total, offset |-> k,
                  len |-> n, missing |-> left, of |-> now.of, told |-> k + n]
      <4>1. PICK qos, id, total, of, offset, len, gone, was :
                now = [qos |-> qos, id |-> id, total |-> total, offset |-> offset, len |-> len,
                       missing |-> gone, of |-> of, told |-> was]
        BY <1>1 DEF IsPart
      <4>2. PICK o, l, w : o = now.offset + now.len /\ l = left /\ w = now.told + n
        OBVIOUS
      <4>3. o = k /\ w = k + n
        BY <1>2a, <1>3, <4>2
      <4>4. [now EXCEPT !.offset = o, !.len = n, !.missing = l, !.told = w]
              = [qos |-> now.qos, id |-> now.id, total |-> now.total, offset |-> o, len |-> n,
                 missing |-> l, of |-> now.of, told |-> w]
        <5>1. PICK a : a = [now EXCEPT !.offset = o]
          OBVIOUS
        <5>2. a = [qos |-> qos, id |-> id, total |-> total, offset |-> o, len |-> len,
                   missing |-> gone, of |-> of, told |-> was]
          BY ONLY <4>1, <5>1
        <5>3. PICK b : b = [a EXCEPT !.len = n]
          OBVIOUS
        <5>4. b = [qos |-> qos, id |-> id, total |-> total, offset |-> o, len |-> n,
                   missing |-> gone, of |-> of, told |-> was]
          BY ONLY <5>2, <5>3
        <5>5. PICK c : c = [b EXCEPT !.missing = l]
          OBVIOUS
        <5>6. c = [qos |-> qos, id |-> id, total |-> total, offset |-> o, len |-> n,
                   missing |-> l, of |-> of, told |-> was]
          BY ONLY <5>4, <5>5
        <5>7. PICK d : d = [c EXCEPT !.told = w]
          OBVIOUS
        <5>8. d = [qos |-> qos, id |-> id, total |-> total, offset |-> o, len |-> n,
                   missing |-> l, of |-> of, told |-> w]
          BY ONLY <5>6, <5>7
        <5>9. now.qos = qos /\ now.id = id /\ now.total = total /\ now.of = of
          BY ONLY <4>1
        <5> QED
          BY <5>1, <5>3, <5>5, <5>7, <5>8, <5>9, Zenon
      <4>5. next = [now EXCEPT !.offset = o, !.len = n, !.missing = l, !.told = w]
        BY <4>2, Zenon
      <4>6. next = [qos |-> now.qos, id |-> now.id, total |-> now.total, offset |-> o, len |-> n,
                    missing |-> l, of |-> now.of, told |-> w]
        BY <4>4, <4>5, Zenon
      <4> HIDE DEF next, left
      <4>7. l = left
        BY <4>2
      <4> QED
        BY <4>3, <4>6, <4>7, Zenon
    <3>3. PICK new : new = next
      OBVIOUS
    <3> HIDE DEF next
    <3>4. /\ new = [qos |-> now.qos, id |-> now.id, total |-> now.total, offset |-> k,
                   len |-> n, missing |-> left, of |-> now.of, told |-> k + n]
          /\ now.of \in Publishes
      BY <1>1, <3>2, <3>3 DEF IsPart
    <3>4a. PICK rest : rest = left /\ rest = SubSeq(s, (k + n) + 1, Len(s))
      BY <1>6
    <3>4b. /\ new.offset = k /\ new.len = n /\ new.missing = rest /\ new.of = now.of /\ new.told = k + n
           /\ new.total = Len(s)
           /\ new = [qos |-> new.qos, id |-> new.id, total |-> new.total, offset |-> new.offset,
                     len |-> new.len, missing |-> new.missing, of |-> new.of, told |-> new.told]
      BY <1>3, <3>4, <3>4a
    <3>4c. new.of.payload = s
      BY <1>2a, <3>4b
    <3>5. IsPart(new)
      BY <1>7, <3>4, <3>4a, <3>4b, <3>4c, Zenon DEF IsPart
    <3> QED
      BY <3>1, <3>3, <3>5, Zenon DEF PartInv
  <2> QED
    BY <2>1, <2>2
<1>11. MeantInv'
  <2>1. config' = config /\ broker' = broker /\ outbox' = outbox
    BY DEF ReadData
  <2>2. AliasKept(config')
    BY <2>1, OtherFields, Zenon
  <2>3. OutboxOK(outbox') /\ OwedOK(broker'.owed) /\ broker'.aliases = broker.aliases
    BY <2>1 DEF MeantInv
  <2> QED
    BY <1>9, <2>2, <2>3, KeepsMeant
<1> QED
    BY <1>10, <1>11

LEMMA DeliverKeepsMeant ==
    ASSUME AllRead, IInv, MeantInv, PartInv, Deliver
    PROVE  MeantInv' /\ PartInv'
<1>1. ASSUME NEW p \in Publishes, ReceivePublish(p)
      PROVE  MeantInv' /\ (PartInv' \/ UNCHANGED part)
  <2>1. CASE TopicTooBig(Broker!Packet(p))
    <3>1. /\ told' = <<>> /\ config' = config /\ broker' = broker /\ outbox' = outbox
          /\ part' = part /\ OutboxOK(outbox)
      BY <1>1, <2>1 DEF ReceivePublish, Quiet, Aborted, MeantInv
    <3>2. AliasKept(config') /\ OutboxOK(outbox')
      BY <3>1, OtherFields, Zenon
    <3> QED
      BY <3>1, <3>2, SettingKeepsMeant
  <2>2. CASE ~TopicTooBig(Broker!Packet(p))
    BY <1>1, <2>2, ReceivePublishKeepsMeant
  <2> QED
    BY <2>1, <2>2
<1>2. CASE ReadTimesOut \/ ReadFails
  <2>1. /\ told' = <<>> /\ config' = config /\ broker' = broker /\ outbox' = outbox
        /\ part' = <<>> /\ OutboxOK(outbox)
    BY <1>2 DEF ReadTimesOut, ReadFails, Quiet, Aborted, MeantInv
  <2>2. AliasKept(config') /\ OutboxOK(outbox')
    BY <2>1, OtherFields, Zenon
  <2> QED
    BY <2>1, <2>2, SettingKeepsMeant DEF PartInv
<1>3. UNCHANGED part => PartInv'
    BY DEF PartInv, IsPart
<1>4. \/ \E p \in Publishes : ReceivePublish(p)
      \/ \E n : ReadData(n)
      \/ ReadTimesOut \/ ReadFails
    BY Zenon DEF Deliver
<1> QED
    BY <1>1, <1>2, <1>3, <1>4, ReadDataKeepsMeant, Zenon

LEMMA NotReadKeepsMeant ==
    ASSUME MeantInv, NotRead
    PROVE  MeantInv'
<1>1. told' = <<>> /\ config' = config /\ broker' = broker /\ outbox' = outbox /\ OutboxOK(outbox)
    BY DEF NotRead, Quiet, Aborted, MeantInv
<1>2. AliasKept(config') /\ OutboxOK(outbox')
    BY <1>1, OtherFields, Zenon
<1> QED
    BY <1>1, <1>2, SettingKeepsMeant

LEMMA ReceiveKeepsMeant ==
    ASSUME AllRead, IInv, MeantInv, Receive
    PROVE  MeantInv'
<1>1. ASSUME NEW i \in DOMAIN broker.owed, NEW answer \in Answers,
             ReceivePubAck(i, answer) \/ ReceivePubComp(i, answer)
      PROVE  MeantInv'
  <2>1. broker.owed[i].type \in {PUBLISH, "pubrel"}
    BY <1>1 DEF ReceivePubAck, ReceivePubComp, Ends
  <2>2. PICK r \in Requests : broker.owed[i].id = r.no /\ r.type = PUBLISH
    BY <2>1, AskedOf DEF PUBLISH
  <2>3. ReadsAck(Answered("puback", r.no, answer)) /\ ReadsAck(Answered("pubcomp", r.no, answer))
    BY <1>1, <2>2 DEF AllRead, PUBLISH, SUBSCRIBE, UNSUBSCRIBE
  <2>4. \/ Published(i, Answered("puback", r.no, answer))
        \/ Published(i, Answered("pubcomp", r.no, answer))
        \/ NotRead
    BY <1>1, <2>2 DEF ReceivePubAck, ReceivePubComp, PublishedIfRead
  <2> QED
    BY <1>1, <2>3, <2>4, PublishedKeepsMeant, NotReadKeepsMeant
<1>2. ASSUME NEW i \in DOMAIN broker.owed, NEW answer \in Answers, ReceiveSubAck(i, answer)
      PROVE  MeantInv'
  <2>1. PICK r \in Requests : broker.owed[i].id = r.no /\ r.type = SUBSCRIBE
    BY <1>2, AskedOf DEF ReceiveSubAck, Ends, SUBSCRIBE
  <2>2. ReadsSuback([type |-> "suback"] @@ Reasons(r.no, answer))
    BY <1>2, <2>1 DEF AllRead, PUBLISH, SUBSCRIBE, UNSUBSCRIBE
  <2>3. NotRead \/ Suback(i, [type |-> "suback"] @@ Reasons(r.no, answer), "subscribed")
    BY <1>2, <2>1 DEF ReceiveSubAck, SubackIfRead
  <2> QED
    BY <1>2, <2>2, <2>3, SubackKeepsMeant, NotReadKeepsMeant
<1>3. ASSUME NEW i \in DOMAIN broker.owed, NEW answer \in Answers, ReceiveUnsubAck(i, answer)
      PROVE  MeantInv'
  <2>1. PICK r \in Requests : broker.owed[i].id = r.no /\ r.type = UNSUBSCRIBE
    BY <1>3, AskedOf DEF ReceiveUnsubAck, Ends, UNSUBSCRIBE
  <2>2. ReadsSuback([type |-> "unsuback"] @@ Reasons(r.no, answer))
    BY <1>3, <2>1 DEF AllRead, PUBLISH, SUBSCRIBE, UNSUBSCRIBE
  <2>3. NotRead \/ Suback(i, [type |-> "unsuback"] @@ Reasons(r.no, answer), "unsubscribed")
    BY <1>3, <2>1 DEF ReceiveUnsubAck, SubackIfRead
  <2> QED
    BY <1>3, <2>2, <2>3, SubackKeepsMeant, NotReadKeepsMeant
<1>4. ASSUME NEW p \in Publishes, ReceivePubRel(p)
      PROVE  MeantInv'
  <2>1. told' = <<>> /\ config' = config /\ broker' = broker /\ outbox' = outbox /\ OutboxOK(outbox)
    BY <1>4 DEF ReceivePubRel, MeantInv
  <2>2. AliasKept(config') /\ OutboxOK(outbox')
    BY <2>1, OtherFields, Zenon
  <2> QED
    BY <2>1, <2>2, SettingKeepsMeant
<1>5. ASSUME NEW i \in DOMAIN broker.owed, NEW answer \in Answers, ReceivePubRec(i, answer)
      PROVE  MeantInv'
  <2>1. Ends(i, PUBLISH, 2) /\ (NotRead \/ Received(i, Answered("pubrec", broker.owed[i].id, answer)))
    BY <1>5, Zenon DEF ReceivePubRec
  <2> QED
    BY <2>1, PubRecKeepsMeant, NotReadKeepsMeant
<1> QED
    BY <1>1, <1>2, <1>3, <1>4, <1>5, Zenon DEF Receive

LEMMA InitMeant == Init => MeantInv
<1> SUFFICES ASSUME Init PROVE MeantInv
    OBVIOUS
<1>1. /\ outbox = <<>> /\ told = <<>> /\ broker = [owed |-> <<>>, aliases |-> <<>>]
      /\ config = esp_mqtt5_create_default_config
    BY DEF Init, NoProperty
<1>2. "peer_topic_alias" \in DOMAIN config
    BY <1>1 DEF esp_mqtt5_create_default_config
<1>3. OutboxOK(outbox)
    BY <1>1 DEF OutboxOK, ToSet
<1>4. broker.owed = <<>> /\ broker.aliases = <<>>
    BY <1>1
<1> QED
    BY <1>1, <1>2, <1>3, <1>4 DEF MeantInv, OwedOK, AliasesAgree, ToldWhatWasMeant

LEMMA StepKeepsMeant ==
    ASSUME AllRead, IInv, MeantInv, PartInv, [Next]_vars
    PROVE  MeantInv' /\ PartInv'
<1>1. ASSUME ConnectFails \/ Break \/ Notice \/ Expire
      PROVE  MeantInv'
  <2>1. /\ told' = <<>> /\ config' = config /\ broker' = broker
        /\ outbox' = outbox \/ \E n \in 1 .. Len(outbox) : outbox' = outbox_delete_expired(outbox, n)
    BY <1>1 DEF ConnectFails, Break, Notice, Expire, Quiet, Aborted, ConnectionKept
  <2>2. OutboxOK(outbox) /\ Len(outbox) \in Nat
    BY LenProperties DEF MeantInv, OutboxOK
  <2>3. 1 .. Len(outbox) \subseteq Nat
    BY <2>2
  <2>4. OutboxOK(outbox')
    BY <2>1, <2>2, <2>3, ExpiryKeepsOutbox, Zenon
  <2>5. AliasKept(config')
    BY <2>1, OtherFields, Zenon
  <2> QED
    BY <2>1, <2>4, <2>5, SettingKeepsMeant
<1>2. ASSUME UNCHANGED vars
      PROVE  MeantInv'
    BY <1>2 DEF vars, MeantInv, OutboxOK, OwedOK, AliasesAgree, ToldWhatWasMeant, IsItem, OfRequest
<1>3. ASSUME Task \/ Application
      PROVE  MeantInv'
    BY <1>1, <1>3, ApplicationKeepsMeant, ReceiveKeepsMeant, ConnectKeepsMeant,
       ResendQueuedKeepsMeant, RetransmitKeepsMeant, Zenon DEF Task
<1>4. UNCHANGED part => PartInv'
    BY DEF PartInv, IsPart
<1>5. Deliver \/ (UNCHANGED part /\ (Task \/ Application)) \/ UNCHANGED <<vars, part>>
    BY DEF Next, vars
<1> QED
    BY <1>2, <1>3, <1>4, <1>5, DeliverKeepsMeant

\* An event says what the broker meant, on every connection, whichever aliases
\* were given, used again or left over from an earlier one, and is about the
\* message that the broker answered: for packets that are read as they were
\* written, which is a question of their bytes only (esp_mqtt5_get_publish_data,
\* esp_mqtt5_parse_puback, mqtt_process_receive).
THEOREM EventsAreMeant ==
    ASSUME AllRead
    PROVE  Spec => []ToldWhatWasMeant
<1>1. Init => IInv /\ MeantInv /\ PartInv
    BY InitInv, InitMeant DEF Init, PartInv
<1>2. IInv /\ MeantInv /\ PartInv /\ [Next]_vars => (IInv /\ MeantInv /\ PartInv)'
  <2> SUFFICES ASSUME IInv, MeantInv, PartInv, [Next]_vars PROVE IInv' /\ MeantInv' /\ PartInv'
    OBVIOUS
  <2> QED
    BY StepKeepsInv, StepKeepsMeant
<1>3. IInv /\ MeantInv /\ PartInv => ToldWhatWasMeant
    BY DEF MeantInv
<1> QED
    BY <1>1, <1>2, <1>3, PTL DEF Spec
=============================================================================
