--------------------------- MODULE MqttClient_proofs ---------------------------
(***************************************************************************)
(* The MQTT client, for every set of requests and any number of starts,    *)
(* faults and packets in flight: no stored request gets lost or confused,  *)
(* what is reported as published was received, and a QoS 2 message is      *)
(* passed on at most once.                                                 *)
(***************************************************************************)
EXTENDS MqttClient, SequenceTheorems, FiniteSetTheorems, NaturalsInduction,
        WellFoundedInduction, TLAPS

-----------------------------------------------------------------------------
(* What the proofs say of the outbox.                                      *)

\* The requests of the items in one of some states; of all items.
InState(list, states) ==
    {list[i].req : i \in {k \in 1 .. Len(list) : list[k].pending \in states}}
Reqs(list) == {list[i].req : i \in 1 .. Len(list)}

\* No request has two items.
Distinct(list) ==
    \A i, j \in 1 .. Len(list) : list[i].req = list[j].req => i = j

-----------------------------------------------------------------------------
(* Searching in an outbox of any length.                                   *)

LEMMA LessOnNat ==
    ASSUME NEW x \in Nat, NEW y \in Nat
    PROVE  y < x => <<y, x>> \in OpToRel(<, Nat)
BY Zenon DEF OpToRel

\* A set of indices that is not empty has a least one, which Min chooses.
LEMMA LeastIndex ==
    ASSUME NEW I \in SUBSET Nat, I # {}
    PROVE  Min(I) \in I
<1>1. PICK x \in I : \A y \in I : ~(<<y, x>> \in OpToRel(<, Nat))
    BY Zenon, NatLessThanWellFounded, WFMin
<1>2. \A y \in I : ~(y < x)
    BY Zenon, <1>1, LessOnNat
<1>3. \A y \in I : x <= y
    BY <1>2
<1> QED
    BY Zenon, <1>3 DEF Min

\* outbox_get finds an item with the identifier, if there is one.
LEMMA GetFinds ==
    ASSUME NEW S, NEW list \in Seq(S), NEW id
    PROVE  \/ /\ outbox_get(list, id) = 0
              /\ \A i \in 1 .. Len(list) : IdOf(list[i].req) # id
           \/ /\ outbox_get(list, id) \in 1 .. Len(list)
              /\ IdOf(list[outbox_get(list, id)].req) = id
<1> DEFINE I == {i \in 1 .. Len(list) : IdOf(list[i].req) = id}
<1>1. outbox_get(list, id) = IF I # {} THEN Min(I) ELSE 0
    BY Zenon DEF outbox_get, SelectInSeq
<1>2. I \in SUBSET Nat
    OBVIOUS
<1>3. I # {} => Min(I) \in I
    BY <1>2, LeastIndex
<1> QED
    BY <1>1, <1>3

\* outbox_dequeue finds an item in the state, if there is one.
LEMMA DequeueFinds ==
    ASSUME NEW S, NEW list \in Seq(S), NEW pending
    PROVE  \/ /\ outbox_dequeue(list, pending) = 0
              /\ \A i \in 1 .. Len(list) : list[i].pending # pending
           \/ /\ outbox_dequeue(list, pending) \in 1 .. Len(list)
              /\ list[outbox_dequeue(list, pending)].pending = pending
<1> DEFINE I == {i \in 1 .. Len(list) : list[i].pending = pending}
<1>1. outbox_dequeue(list, pending) = IF I # {} THEN Min(I) ELSE 0
    BY Zenon DEF outbox_dequeue, SelectInSeq
<1>2. I \in SUBSET Nat
    OBVIOUS
<1>3. I # {} => Min(I) \in I
    BY <1>2, LeastIndex
<1> QED
    BY <1>1, <1>3

\* An acknowledgement finds an item of its identifier and type, if there is one.
LEMMA InitiatorFinds ==
    ASSUME NEW S, NEW list \in Seq(S), NEW id, NEW type
    PROVE  \/ /\ Initiator(list, id, type) = 0
              /\ \A i \in 1 .. Len(list) : ~(IdOf(list[i].req) = id /\ list[i].req.type = type)
           \/ /\ Initiator(list, id, type) \in 1 .. Len(list)
              /\ IdOf(list[Initiator(list, id, type)].req) = id
              /\ list[Initiator(list, id, type)].req.type = type
<1> DEFINE I == {i \in 1 .. Len(list) : IdOf(list[i].req) = id /\ list[i].req.type = type}
<1>1. Initiator(list, id, type) = IF I # {} THEN Min(I) ELSE 0
    BY Zenon DEF Initiator, SelectInSeq
<1>2. I \in SUBSET Nat
    OBVIOUS
<1>3. I # {} => Min(I) \in I
    BY <1>2, LeastIndex
<1> QED
    BY <1>1, <1>3

-----------------------------------------------------------------------------
(* Changing it.                                                            *)

LEMMA EnqueueAppends ==
    ASSUME NEW R, NEW list \in Seq(Item(R)), NEW req \in R, NEW new, new = outbox_enqueue(list, req)
    PROVE  /\ new \in Seq(Item(R))
           /\ Len(new) = Len(list) + 1
           /\ \A i \in 1 .. Len(list) : new[i] = list[i]
           /\ new[Len(list) + 1] = [req |-> req, pending |-> QUEUED]
<1>1. [req |-> req, pending |-> QUEUED] \in Item(R)
    BY DEF Item
<1> QED
    BY <1>1, AppendProperties DEF outbox_enqueue

\* The requests stay; only an item with the identifier changes its state.
LEMMA SetPendingMarks ==
    ASSUME NEW R, NEW list \in Seq(Item(R)), NEW id,
           NEW pending \in {QUEUED, TRANSMITTED, ACKNOWLEDGED},
           NEW new, new = outbox_set_pending(list, id, pending)
    PROVE  /\ new \in Seq(Item(R))
           /\ Len(new) = Len(list)
           /\ \A i \in 1 .. Len(list) : new[i].req = list[i].req
           /\ \A i \in 1 .. Len(list) :
                \/ new[i].pending = list[i].pending
                \/ IdOf(list[i].req) = id /\ new[i].pending = pending
           /\ (\E i \in 1 .. Len(list) : IdOf(list[i].req) = id) =>
                \E i \in 1 .. Len(list) : IdOf(list[i].req) = id /\ new[i].pending = pending
<1> DEFINE k == outbox_get(list, id)
<1>1. CASE k = 0
  <2>1. \A i \in 1 .. Len(list) : IdOf(list[i].req) # id
    BY <1>1, GetFinds, LenProperties
  <2>2. new = list
    BY <1>1 DEF outbox_set_pending
  <2> QED
    BY <2>1, <2>2
<1>2. CASE k # 0
  <2>1. k \in 1 .. Len(list) /\ IdOf(list[k].req) = id
    BY <1>2, GetFinds
  <2>2. list[k] \in Item(R)
    BY <2>1, ElementOfSeq
  <2> DEFINE marked == [list[k] EXCEPT !.pending = pending]
  <2>3. /\ marked \in Item(R) /\ marked.req = list[k].req /\ marked.pending = pending
    BY <2>2 DEF Item
  <2>4. new = [list EXCEPT ![k] = marked]
    BY <1>2 DEF outbox_set_pending
  <2> HIDE DEF marked, k
  <2>5. /\ new \in Seq(Item(R)) /\ Len(new) = Len(list)
        /\ \A i \in 1 .. Len(list) : new[i] = IF i = k THEN marked ELSE list[i]
    BY <2>1, <2>3, <2>4, ExceptSeq
  <2> QED
    BY <2>1, <2>3, <2>5
<1> QED
    BY <1>1, <1>2

LEMMA WithoutShifts ==
    ASSUME NEW T, NEW list \in Seq(T), NEW k \in 1 .. Len(list)
    PROVE  /\ Without(list, k) \in Seq(T)
           /\ Len(Without(list, k)) = Len(list) - 1
           /\ \A i \in 1 .. Len(list) - 1 :
                Without(list, k)[i] = IF i < k THEN list[i] ELSE list[i + 1]
<1>1. Len(list) \in Nat /\ \A i \in 1 .. Len(list) : list[i] \in T
    BY ElementOfSeq, LenProperties
<1>2. PICK front \in Seq(T) : /\ front = SubSeq(list, 1, k - 1) /\ Len(front) = k - 1
                              /\ \A i \in 1 .. k - 1 : front[i] = list[i]
  <2>1. /\ SubSeq(list, 1, k - 1) \in Seq(T) /\ Len(SubSeq(list, 1, k - 1)) = k - 1
        /\ \A i \in 1 .. k - 1 : SubSeq(list, 1, k - 1)[i] = list[i]
    BY <1>1, SubSeqProperties
  <2> QED
    BY Zenon, <2>1
<1>3. PICK back \in Seq(T) : /\ back = SubSeq(list, k + 1, Len(list)) /\ Len(back) = Len(list) - k
                             /\ \A i \in 1 .. Len(list) - k : back[i] = list[k + i]
  <2>1. \A i \in k + 1 .. Len(list) : list[i] \in T
    BY <1>1
  <2>2. /\ SubSeq(list, k + 1, Len(list)) \in Seq(T)
        /\ Len(SubSeq(list, k + 1, Len(list)))
             = IF k + 1 <= Len(list) THEN Len(list) - (k + 1) + 1 ELSE 0
        /\ \A i \in 1 .. Len(list) - (k + 1) + 1 :
             SubSeq(list, k + 1, Len(list))[i] = list[k + 1 + i - 1]
    BY <1>1, <2>1, SubSeqProperties
  <2>3. /\ SubSeq(list, k + 1, Len(list)) \in Seq(T)
        /\ Len(SubSeq(list, k + 1, Len(list))) = Len(list) - k
        /\ \A i \in 1 .. Len(list) - k : SubSeq(list, k + 1, Len(list))[i] = list[k + i]
    BY <1>1, <2>2
  <2> QED
    BY Zenon, <2>3
<1>3a. Len(front) = k - 1 /\ Len(back) = Len(list) - k
    BY Zenon, <1>2, <1>3
<1>4. Without(list, k) = front \o back
  <2>1. k # 0
    BY <1>1
  <2> QED
    BY Zenon, <1>2, <1>3, <2>1 DEF Without, RemoveAt
<1>5. front \o back \in Seq(T)
    BY ConcatProperties
<1>6. Len(front \o back) = Len(list) - 1
  <2>1. Len(front \o back) = Len(front) + Len(back)
    BY ConcatProperties
  <2> QED
    BY <1>1, <1>3a, <2>1
<1>7. ASSUME NEW i \in 1 .. Len(list) - 1
      PROVE  (front \o back)[i] = IF i < k THEN list[i] ELSE list[i + 1]
  <2>1. (front \o back)[i] = IF i <= Len(front) THEN front[i] ELSE back[i - Len(front)]
    <3>1. i \in 1 .. Len(front) + Len(back)
      BY <1>1, <1>3a
    <3> QED
      BY <3>1, ConcatProperties
  <2>2. CASE i < k
    <3>1. i <= Len(front) /\ i \in 1 .. k - 1
      BY <1>1, <1>2, <2>2
    <3> QED
      BY <1>2, <2>1, <2>2, <3>1
  <2>3. CASE ~(i < k)
    <3>1. /\ ~(i <= Len(front)) /\ i - Len(front) \in 1 .. Len(list) - k
          /\ k + (i - Len(front)) = i + 1
      BY <1>1, <1>2, <2>3
    <3>2. back[i - Len(front)] = list[k + (i - Len(front))]
      BY <1>3, <3>1
    <3> QED
      BY <2>1, <2>3, <3>1, <3>2
  <2> QED
    BY <2>2, <2>3
<1> QED
    BY <1>4, <1>5, <1>6, <1>7

LEMMA DeleteItemRemoves ==
    ASSUME NEW S, NEW list \in Seq(S), NEW req
    PROVE  \/ /\ outbox_delete_item(list, req) = list
              /\ \A i \in 1 .. Len(list) : list[i].req # req
           \/ \E k \in 1 .. Len(list) :
                 list[k].req = req /\ outbox_delete_item(list, req) = Without(list, k)
<1> DEFINE I == {i \in 1 .. Len(list) : list[i].req = req}
           k == IF I # {} THEN Min(I) ELSE 0
<1>1. outbox_delete_item(list, req) = Without(list, k)
    BY Zenon DEF outbox_delete_item, SelectInSeq
<1>2. I \in SUBSET Nat
    OBVIOUS
<1>3. I # {} => Min(I) \in I
    BY <1>2, LeastIndex
<1> QED
    BY <1>1, <1>3 DEF Without

\* The n oldest items go, the others move to the front.
LEMMA ExpiredShifts ==
    ASSUME NEW T, NEW list \in Seq(T), NEW n \in 0 .. Len(list),
           NEW new, new = outbox_delete_expired(list, n)
    PROVE  /\ new \in Seq(T)
           /\ Len(new) = Len(list) - n
           /\ \A i \in 1 .. Len(list) - n : new[i] = list[n + i]
<1>1. Len(list) \in Nat /\ \A i \in 1 .. Len(list) : list[i] \in T
    BY ElementOfSeq, LenProperties
<1>2. \A i \in n + 1 .. Len(list) : list[i] \in T
    BY <1>1
<1>3. /\ new \in Seq(T)
      /\ Len(new) = IF n + 1 <= Len(list) THEN Len(list) - (n + 1) + 1 ELSE 0
      /\ \A i \in 1 .. Len(list) - (n + 1) + 1 : new[i] = list[n + 1 + i - 1]
    BY <1>1, <1>2, SubSeqProperties DEF outbox_delete_expired
<1> QED
    BY <1>1, <1>3

-----------------------------------------------------------------------------
(* The same, of the requests.                                              *)

LEMMA StateIsOfReqs ==
    ASSUME NEW list, NEW states
    PROVE  InState(list, states) \subseteq Reqs(list)
BY DEF InState, Reqs

LEMMA ReqsAreRequests ==
    ASSUME NEW R, NEW list \in Seq(Item(R))
    PROVE  Reqs(list) \subseteq R
<1>1. \A i \in 1 .. Len(list) : list[i] \in Item(R)
    BY ElementOfSeq
<1> QED
    BY <1>1 DEF Reqs, Item

LEMMA EnqueueAddsRequest ==
    ASSUME NEW R, NEW list \in Seq(Item(R)), NEW req \in R, NEW states,
           NEW new, new = outbox_enqueue(list, req)
    PROVE  /\ new \in Seq(Item(R))
           /\ Reqs(new) = Reqs(list) \union {req}
           /\ InState(new, states) =
                InState(list, states) \union (IF QUEUED \in states THEN {req} ELSE {})
           /\ Distinct(list) /\ req \notin Reqs(list) => Distinct(new)
<1> DEFINE item == [req |-> req, pending |-> QUEUED]
<1>1. /\ new \in Seq(Item(R)) /\ Len(new) = Len(list) + 1 /\ Len(list) \in Nat
      /\ \A i \in 1 .. Len(list) : new[i] = list[i]
      /\ new[Len(list) + 1] = item
    BY EnqueueAppends, LenProperties
<1>2. item.req = req /\ item.pending = QUEUED
    OBVIOUS
<1> HIDE DEF item
<1>3. Reqs(new) = Reqs(list) \union {req}
    BY <1>1, <1>2 DEF Reqs
<1>4. InState(new, states) =
        InState(list, states) \union (IF QUEUED \in states THEN {req} ELSE {})
    BY <1>1, <1>2 DEF InState
<1>5. ASSUME Distinct(list), req \notin Reqs(list)
      PROVE  Distinct(new)
    BY <1>1, <1>2, <1>5 DEF Distinct, Reqs
<1> QED
    BY <1>1, <1>3, <1>4, <1>5

LEMMA SetPendingKeepsRequests ==
    ASSUME NEW R, NEW list \in Seq(Item(R)), NEW id, NEW states,
           NEW pending \in {QUEUED, TRANSMITTED, ACKNOWLEDGED},
           NEW new, new = outbox_set_pending(list, id, pending)
    PROVE  /\ new \in Seq(Item(R))
           /\ Reqs(new) = Reqs(list)
           /\ Distinct(list) => Distinct(new)
           /\ InState(new, states) \subseteq
                InState(list, states) \union
                    {r \in Reqs(list) : IdOf(r) = id /\ pending \in states}
<1>1. /\ new \in Seq(Item(R)) /\ Len(new) = Len(list)
      /\ \A i \in 1 .. Len(list) : new[i].req = list[i].req
      /\ \A i \in 1 .. Len(list) :
            \/ new[i].pending = list[i].pending
            \/ IdOf(list[i].req) = id /\ new[i].pending = pending
    BY SetPendingMarks
<1>2. Reqs(new) = Reqs(list)
    BY <1>1 DEF Reqs
<1>3. Distinct(list) => Distinct(new)
    BY <1>1 DEF Distinct
<1>4. ASSUME NEW r \in InState(new, states), r \notin InState(list, states)
      PROVE  r \in Reqs(list) /\ IdOf(r) = id /\ pending \in states
  <2>1. PICK i \in 1 .. Len(list) : new[i].req = r /\ new[i].pending \in states
    BY <1>1 DEF InState
  <2> QED
    BY <1>1, <1>4, <2>1 DEF InState, Reqs
<1> QED
    BY <1>1, <1>2, <1>3, <1>4

\* The only request with an identifier is out of the states it is taken from.
LEMMA SetPendingTakes ==
    ASSUME NEW R, NEW list \in Seq(Item(R)), NEW req \in Reqs(list), NEW states,
           NEW pending \in {QUEUED, TRANSMITTED, ACKNOWLEDGED} \ states,
           NEW new, new = outbox_set_pending(list, IdOf(req), pending),
           Distinct(list), \A r \in Reqs(list) : IdOf(r) = IdOf(req) => r = req
    PROVE  req \notin InState(new, states)
<1>1. /\ Len(new) = Len(list)
      /\ \A i \in 1 .. Len(list) : new[i].req = list[i].req
      /\ (\E i \in 1 .. Len(list) : IdOf(list[i].req) = IdOf(req)) =>
            \E i \in 1 .. Len(list) : IdOf(list[i].req) = IdOf(req) /\ new[i].pending = pending
    BY SetPendingMarks
<1>2. PICK i \in 1 .. Len(list) : IdOf(list[i].req) = IdOf(req) /\ new[i].pending = pending
    BY <1>1 DEF Reqs
<1>3. list[i].req = req
    BY <1>2 DEF Reqs
<1>4. \A j \in 1 .. Len(list) : list[j].req = req => j = i
    BY <1>3 DEF Distinct
<1> QED
    BY <1>1, <1>2, <1>4 DEF InState

LEMMA WithoutRemovesRequest ==
    ASSUME NEW R, NEW list \in Seq(Item(R)), NEW k \in 1 .. Len(list), NEW states,
           NEW new, new = Without(list, k), Distinct(list)
    PROVE  /\ new \in Seq(Item(R))
           /\ Reqs(new) = Reqs(list) \ {list[k].req}
           /\ Distinct(new)
           /\ InState(new, states) \subseteq InState(list, states)
<1>1. /\ new \in Seq(Item(R)) /\ Len(new) = Len(list) - 1 /\ Len(list) \in Nat
      /\ \A i \in 1 .. Len(list) - 1 : new[i] = IF i < k THEN list[i] ELSE list[i + 1]
    BY WithoutShifts, LenProperties
<1>2. ASSUME NEW i \in 1 .. Len(new)
      PROVE  \E j \in 1 .. Len(list) : j # k /\ new[i] = list[j]
    BY <1>1
<1>3. ASSUME NEW j \in 1 .. Len(list), j # k
      PROVE  \E i \in 1 .. Len(new) : new[i] = list[j]
  <2>1. CASE j < k
    BY <1>1, <2>1
  <2>2. CASE j > k
    <3>1. j - 1 \in 1 .. Len(list) - 1 /\ ~(j - 1 < k) /\ (j - 1) + 1 = j
      BY <1>1, <2>2
    <3> QED
      BY <1>1, <3>1
  <2> QED
    BY <1>1, <1>3, <2>1, <2>2
<1>4. \A j \in 1 .. Len(list) : list[j].req = list[k].req => j = k
    BY DEF Distinct
<1>5. Reqs(new) = Reqs(list) \ {list[k].req}
  <2>1. ASSUME NEW r \in Reqs(new)
        PROVE  r \in Reqs(list) /\ r # list[k].req
    BY <1>2, <1>4 DEF Reqs
  <2>2. ASSUME NEW r \in Reqs(list), r # list[k].req
        PROVE  r \in Reqs(new)
    BY <1>3, <2>2 DEF Reqs
  <2> QED
    BY <2>1, <2>2
<1>6. InState(new, states) \subseteq InState(list, states)
    BY <1>2 DEF InState
<1>7. Distinct(new)
  <2>1. ASSUME NEW i \in 1 .. Len(new), NEW j \in 1 .. Len(new), new[i].req = new[j].req
        PROVE  i = j
    <3> DEFINE Place(m) == IF m < k THEN m ELSE m + 1
    <3>1. Place(i) \in 1 .. Len(list) /\ Place(j) \in 1 .. Len(list)
      BY <1>1
    <3>2. new[i] = list[Place(i)] /\ new[j] = list[Place(j)]
      BY <1>1
    <3>3. Place(i) = Place(j)
      <4> HIDE DEF Place
      <4> QED
        BY <2>1, <3>1, <3>2 DEF Distinct
    <3> QED
      BY <1>1, <3>3
  <2> QED
    BY <2>1 DEF Distinct
<1> QED
    BY <1>1, <1>5, <1>6, <1>7

LEMMA ExpiredRemovesRequests ==
    ASSUME NEW R, NEW list \in Seq(Item(R)), NEW n \in 0 .. Len(list), NEW states,
           NEW new, new = outbox_delete_expired(list, n), Distinct(list)
    PROVE  /\ new \in Seq(Item(R))
           /\ Reqs(new) = Reqs(list) \ {list[i].req : i \in 1 .. n}
           /\ Distinct(new)
           /\ InState(new, states) \subseteq InState(list, states)
<1>1. /\ new \in Seq(Item(R)) /\ Len(new) = Len(list) - n /\ Len(list) \in Nat
      /\ \A i \in 1 .. Len(list) - n : new[i] = list[n + i]
  <2>1. Len(list) \in Nat
    BY LenProperties
  <2>2. /\ new \in Seq(Item(R)) /\ Len(new) = Len(list) - n
        /\ \A i \in 1 .. Len(list) - n : new[i] = list[n + i]
    BY ExpiredShifts
  <2> QED
    BY <2>1, <2>2
<1>2. ASSUME NEW i \in 1 .. Len(new)
      PROVE  n + i \in 1 .. Len(list) /\ n + i \notin 1 .. n /\ new[i] = list[n + i]
    BY <1>1
<1>3. ASSUME NEW j \in 1 .. Len(list), j \notin 1 .. n
      PROVE  \E i \in 1 .. Len(new) : new[i] = list[j]
  <2>1. j - n \in 1 .. Len(list) - n /\ n + (j - n) = j
    BY <1>1, <1>3
  <2> QED
    BY <1>1, <2>1
<1>4. Reqs(new) = Reqs(list) \ {list[i].req : i \in 1 .. n}
  <2>1. ASSUME NEW r \in Reqs(new)
        PROVE  r \in Reqs(list) /\ r \notin {list[i].req : i \in 1 .. n}
    <3>1. PICK i \in 1 .. Len(new) : new[i].req = r
      BY DEF Reqs
    <3>2. \A j \in 1 .. n : list[j].req # list[n + i].req
      BY <1>1, <1>2 DEF Distinct
    <3> QED
      BY <1>2, <3>1, <3>2 DEF Reqs
  <2>2. ASSUME NEW r \in Reqs(list), r \notin {list[i].req : i \in 1 .. n}
        PROVE  r \in Reqs(new)
    BY <1>3, <2>2 DEF Reqs
  <2> QED
    BY <2>1, <2>2
<1>5. InState(new, states) \subseteq InState(list, states)
    BY <1>2 DEF InState
<1>6. Distinct(new)
  <2>1. ASSUME NEW i \in 1 .. Len(new), NEW j \in 1 .. Len(new), new[i].req = new[j].req
        PROVE  i = j
    <3>1. n + i = n + j
      BY <1>2, <2>1 DEF Distinct
    <3> QED
      BY <1>1, <3>1
  <2> QED
    BY <2>1 DEF Distinct
<1> QED
    BY <1>1, <1>4, <1>5, <1>6

-----------------------------------------------------------------------------
(* The inductive invariant, next to the types.                             *)

\* A request is in the outbox, once, while its status is stored.
OutboxInv ==
    /\ Distinct(outbox)
    /\ \A r \in Requests : r \in Reqs(outbox) <=> StatusOf(r) = "stored"
    /\ At("checked") => \A r \in app.req : r.type # PUBLISH /\ StatusOf(r) = "new"

\* What was transmitted and has an identifier was written to a connection.
TriedInv == \A r \in InState(outbox, {TRANSMITTED}) : IdOf(r) # 0 => r \in tried

\* The message a packet of the handshake is about was asked for, with that qos.
Known(id, qos) ==
    \E r \in Requests :
        r.type = PUBLISH /\ r.no = id /\ r.qos = qos /\ StatusOf(r) # "new"

\* The broker waits for the release of a QoS 2 message, or has passed it on.
Arrived(id) == id \in held \/ received[id] > 0

\* Every packet in flight has its cause.
UpCaused(p) ==
    /\ p.type = PUBLISH /\ p.qos > 0 => Known(p.id, p.qos)
    /\ p.type = "pubrel" => Known(p.id, 2) /\ Arrived(p.id)

DownCaused(p) ==
    /\ p.type = "pubrec" => Known(p.id, 2) /\ Arrived(p.id)
    /\ p.type \in {"puback", "pubcomp"} =>
            (Known(p.id, 1) \/ Known(p.id, 2)) /\ received[p.id] > 0

CausedInv ==
    /\ \A p \in ToSet(up) : UpCaused(p)
    /\ \A p \in ToSet(down) : DownCaused(p)

\* Only publishes with an identifier are counted, and one that was reported
\* has been.
CountedInv ==
    \A r \in Requests :
        /\ received[r.no] > 0 => r.type = PUBLISH /\ r.qos > 0
        /\ r.type = PUBLISH /\ StatusOf(r) = "acked" => received[r.no] > 0

Publishes(p, id) == p.type = PUBLISH /\ p.id = id
Releases(p, id) == p.type = "pubrel" /\ p.id = id

\* No publish of a message follows its release.
ReleasedLast(s, id) ==
    \A i, j \in 1 .. Len(s) : i < j /\ Releases(s[i], id) => ~Publishes(s[j], id)

\* The message will not be written again.
Done(r) == StatusOf(r) # "new" /\ r \notin InState(outbox, {QUEUED, TRANSMITTED})

\* A QoS 2 message whose release was written is done, and no publish of it
\* follows the release; one that was passed on is not held, nor on its way.
OnceFor(r) ==
    /\ received[r.no] <= 1
    /\ received[r.no] = 1 \/ (\E p \in ToSet(up) : Releases(p, r.no)) => Done(r)
    /\ received[r.no] = 1 =>
          r.no \notin held /\ \A p \in ToSet(up) : ~Publishes(p, r.no)
    /\ ReleasedLast(up, r.no)

OnceInv == \A r \in Requests : r.type = PUBLISH /\ r.qos = 2 => OnceFor(r)

WireInv == CausedInv /\ CountedInv /\ OnceInv

\* The variables a packet or a request can be in.
DataOK ==
    /\ outbox \in Seq(Item(Requests))
    /\ up \in Seq(PacketsOf(ToBroker)) /\ down \in Seq(PacketsOf(ToClient))
    /\ held \subseteq Nat
    /\ received \in [{r.no : r \in Requests} -> 0 .. 2]
    /\ status \in [{r.no : r \in Requests} ->
            {"new", "stored", "sent", "acked", "expired", "purged", "lost"}]
    /\ tried \subseteq Requests
    /\ app.req \subseteq Requests

IInv == DataOK /\ OutboxInv /\ TriedInv /\ WireInv

-----------------------------------------------------------------------------
(* Requests, packets and sequences.                                        *)

LEMMA RequestFacts ==
    ASSUME NEW r \in Requests
    PROVE  /\ r.no \in Nat /\ r.no # 0 /\ r.no \in {s.no : s \in Requests}
           /\ r.type \in {PUBLISH, SUBSCRIBE, UNSUBSCRIBE} /\ r.qos \in 0 .. 2
           /\ IdOf(r) = IF r.type = PUBLISH /\ r.qos = 0 THEN 0 ELSE r.no
           /\ \A s \in Requests : s.no = r.no => s = r
BY RequestsAssumption DEF IdOf

LEMMA SameId ==
    ASSUME NEW r \in Requests, NEW s \in Requests, IdOf(r) = IdOf(s), IdOf(r) # 0
    PROVE  r = s
BY RequestFacts

LEMMA PacketTyped ==
    ASSUME NEW r \in Requests, NEW dup \in BOOLEAN
    PROVE  Packet(r, dup) \in PacketsOf(ToBroker)
BY RequestFacts DEF Packet, PacketsOf, ToBroker

LEMMA ControlTyped ==
    ASSUME NEW types, NEW type \in types, NEW id \in Nat
    PROVE  Control(type, id) \in PacketsOf(types)
BY DEF Control, PacketsOf

LEMMA ToSetOfAppend ==
    ASSUME NEW T, NEW s \in Seq(T), NEW e \in T
    PROVE  ToSet(Append(s, e)) = ToSet(s) \union {e}
<1>1. /\ Append(s, e) \in Seq(T) /\ Len(Append(s, e)) = Len(s) + 1 /\ Len(s) \in Nat
      /\ \A i \in 1 .. Len(s) : Append(s, e)[i] = s[i]
      /\ Append(s, e)[Len(s) + 1] = e
      /\ DOMAIN s = 1 .. Len(s) /\ DOMAIN Append(s, e) = 1 .. Len(Append(s, e))
    BY AppendProperties, LenProperties
<1> QED
    BY <1>1 DEF ToSet

LEMMA ToSetOfTail ==
    ASSUME NEW T, NEW s \in Seq(T), s # <<>>
    PROVE  /\ Head(s) \in ToSet(s)
           /\ ToSet(Tail(s)) \subseteq ToSet(s)
<1>1. /\ Tail(s) \in Seq(T) /\ Len(Tail(s)) = Len(s) - 1 /\ Len(s) \in Nat /\ Len(s) # 0
      /\ \A i \in 1 .. Len(Tail(s)) : Tail(s)[i] = s[i + 1]
      /\ DOMAIN s = 1 .. Len(s) /\ DOMAIN Tail(s) = 1 .. Len(Tail(s))
      /\ Head(s) = s[1]
    BY HeadTailProperties, LenProperties, EmptySeq
<1> QED
    BY <1>1 DEF ToSet

LEMMA ToSetOfPrefix ==
    ASSUME NEW T, NEW s \in Seq(T), NEW n \in 0 .. Len(s)
    PROVE  /\ SubSeq(s, 1, n) \in Seq(T)
           /\ Len(SubSeq(s, 1, n)) = n
           /\ \A i \in 1 .. n : SubSeq(s, 1, n)[i] = s[i]
           /\ ToSet(SubSeq(s, 1, n)) \subseteq ToSet(s)
<1>1. Len(s) \in Nat /\ DOMAIN s = 1 .. Len(s) /\ \A i \in 1 .. Len(s) : s[i] \in T
    BY LenProperties, ElementOfSeq
<1>2. \A i \in 1 .. n : s[i] \in T
    BY <1>1
<1>3. /\ SubSeq(s, 1, n) \in Seq(T)
      /\ Len(SubSeq(s, 1, n)) = IF 1 <= n THEN n - 1 + 1 ELSE 0
      /\ \A i \in 1 .. n - 1 + 1 : SubSeq(s, 1, n)[i] = s[1 + i - 1]
    BY <1>2, SubSeqProperties
<1>4. Len(SubSeq(s, 1, n)) = n /\ \A i \in 1 .. n : SubSeq(s, 1, n)[i] = s[i]
    BY <1>3
<1>5. DOMAIN SubSeq(s, 1, n) = 1 .. n
    BY <1>3, <1>4, LenProperties
<1> QED
    BY <1>1, <1>3, <1>4, <1>5 DEF ToSet

LEMMA ToSetOfEmpty == ToSet(<<>>) = {}
BY DEF ToSet

LEMMA ReleasedLastOps ==
    ASSUME NEW T, NEW s \in Seq(T), NEW id, ReleasedLast(s, id)
    PROVE  /\ s # <<>> => ReleasedLast(Tail(s), id)
           /\ \A n \in 0 .. Len(s) : ReleasedLast(SubSeq(s, 1, n), id)
           /\ \A e \in T : (\A p \in ToSet(s) : ~Releases(p, id)) \/ ~Publishes(e, id)
                            => ReleasedLast(Append(s, e), id)
<1>1. Len(s) \in Nat /\ DOMAIN s = 1 .. Len(s)
    BY LenProperties
<1>2. ASSUME s # <<>>
      PROVE  ReleasedLast(Tail(s), id)
  <2>1. /\ Len(Tail(s)) = Len(s) - 1 /\ \A i \in 1 .. Len(Tail(s)) : Tail(s)[i] = s[i + 1]
    BY <1>2, HeadTailProperties
  <2> QED
    BY <1>1, <2>1 DEF ReleasedLast
<1>3. ASSUME NEW n \in 0 .. Len(s)
      PROVE  ReleasedLast(SubSeq(s, 1, n), id)
    BY <1>1, ToSetOfPrefix DEF ReleasedLast
<1>4. ASSUME NEW e \in T, (\A p \in ToSet(s) : ~Releases(p, id)) \/ ~Publishes(e, id)
      PROVE  ReleasedLast(Append(s, e), id)
  <2>1. /\ Len(Append(s, e)) = Len(s) + 1
        /\ \A i \in 1 .. Len(s) : Append(s, e)[i] = s[i]
        /\ Append(s, e)[Len(s) + 1] = e
    BY AppendProperties
  <2>2. \A i \in 1 .. Len(s) : s[i] \in ToSet(s)
    BY <1>1 DEF ToSet
  <2> QED
    BY <1>1, <1>4, <2>1, <2>2 DEF ReleasedLast
<1> QED
    BY <1>2, <1>3, <1>4

LEMMA ReleasedLastOfEmpty == \A id : ReleasedLast(<<>>, id)
BY DEF ReleasedLast

-----------------------------------------------------------------------------
(* What a step may do to the wire.                                         *)

\* The client writes p, or nothing, and may take packets from the broker away.
Sends(p) ==
    /\ up' = up \/ up' = Append(up, p)
    /\ ToSet(down') \subseteq ToSet(down)
    /\ UNCHANGED <<held, received>>

\* What was asked for or done stays so, and what is reported was received.
Settled ==
    \A r \in Requests :
        /\ StatusOf(r) # "new" => StatusOf(r)' # "new"
        /\ r.type = PUBLISH /\ r.qos = 2 /\ Done(r) => Done(r)'
        /\ r.type = PUBLISH /\ StatusOf(r)' = "acked" => received[r.no] > 0

\* p may be written: it has its cause, and is no publish of what is done.
Allowed(p) ==
    /\ UpCaused(p)'
    /\ \A r \in Requests : r.type = PUBLISH /\ r.qos = 2 =>
          /\ Publishes(p, r.no) => ~Done(r)
          /\ Releases(p, r.no) => Done(r)'

LEMMA ClientKeepsWire ==
    ASSUME DataOK, WireInv, NEW p \in PacketsOf(ToBroker), Sends(p), Settled, up' = up \/ Allowed(p)
    PROVE  WireInv'
<1> USE DEF Sends
<1>1. up \in Seq(PacketsOf(ToBroker))
    BY DEF DataOK
<1>2. ToSet(up') \subseteq ToSet(up) \union {p}
  <2>1. ToSet(Append(up, p)) = ToSet(up) \union {p}
    BY <1>1, ToSetOfAppend
  <2> QED
    BY Zenon, <2>1
<1>3. \A id, qos : Known(id, qos) => Known(id, qos)'
    BY DEF Known, Settled
<1>4. \A id : Arrived(id) => Arrived(id)'
    BY DEF Arrived
<1>5. CausedInv'
  <2>1. \A q : UpCaused(q) => UpCaused(q)'
    BY <1>3, <1>4 DEF UpCaused
  <2>2. \A q : DownCaused(q) => DownCaused(q)'
    BY <1>3, <1>4 DEF DownCaused
  <2>3. \A q \in ToSet(up') : UpCaused(q)'
    BY <1>2, <2>1 DEF WireInv, CausedInv, Allowed
  <2>4. \A q \in ToSet(down') : DownCaused(q)'
    BY <2>2 DEF WireInv, CausedInv
  <2> QED
    BY <2>3, <2>4 DEF CausedInv
<1>6. CountedInv'
    BY DEF WireInv, CountedInv, Settled
<1>7. ASSUME NEW r \in Requests, r.type = PUBLISH, r.qos = 2
      PROVE  OnceFor(r)'
  <2>1. OnceFor(r)
    BY <1>7 DEF WireInv, OnceInv
  <2>2. Done(r) => Done(r)'
    BY <1>7 DEF Settled
  <2>3. up' = up \/ (up' = Append(up, p) /\ (Publishes(p, r.no) => ~Done(r))
                        /\ (Releases(p, r.no) => Done(r)'))
    BY <1>7 DEF Allowed
  <2>4. received[r.no]' = 1 \/ (\E q \in ToSet(up') : Releases(q, r.no)) => Done(r)'
    BY <1>2, <2>1, <2>2, <2>3 DEF OnceFor
  <2>5. received[r.no]' = 1 =>
            r.no \notin held' /\ \A q \in ToSet(up') : ~Publishes(q, r.no)
    BY <1>2, <2>1, <2>3 DEF OnceFor
  <2>6. ReleasedLast(up', r.no)
    <3>1. CASE up' = up
      BY <3>1, <2>1 DEF OnceFor
    <3>2. CASE up' = Append(up, p) /\ (Publishes(p, r.no) => ~Done(r))
      <4>1. (\A q \in ToSet(up) : ~Releases(q, r.no)) \/ ~Publishes(p, r.no)
        BY <2>1, <3>2 DEF OnceFor
      <4>2. ReleasedLast(Append(up, p), r.no)
        BY <1>1, <2>1, <4>1, ReleasedLastOps DEF OnceFor
      <4> QED
        BY <3>2, <4>2
    <3> QED
      BY <2>3, <3>1, <3>2
  <2> QED
    BY <2>1, <2>4, <2>5, <2>6 DEF OnceFor
<1> QED
    BY <1>5, <1>6, <1>7 DEF WireInv, OnceInv

\* With the outbox, the requests and the broker as they were, nothing but the
\* wire has to be looked at.
LEMMA SettledIfUnchanged ==
    ASSUME WireInv, UNCHANGED <<outbox, status>>
    PROVE  Settled
BY DEF Settled, Done, StatusOf, WireInv, CountedInv

LEMMA ControlIsAllowed ==
    ASSUME NEW type \in {"pingreq", "disconnect"}
    PROVE  Control(type, 0) \in PacketsOf(ToBroker) /\ Allowed(Control(type, 0))
<1>1. Control(type, 0) \in PacketsOf(ToBroker)
    BY ControlTyped DEF ToBroker
<1>2. Control(type, 0).type \notin {PUBLISH, "pubrel"}
    BY DEF Control, PUBLISH
<1> QED
    BY <1>1, <1>2 DEF Allowed, UpCaused, Publishes, Releases

\* The client writes nothing.
LEMMA SilenceKeepsWire ==
    ASSUME DataOK, WireInv, Settled, ToSet(down') \subseteq ToSet(down),
           UNCHANGED <<up, held, received>>
    PROVE  WireInv'
<1>1. Control("pingreq", 0) \in PacketsOf(ToBroker)
    BY ControlIsAllowed
<1>2. Sends(Control("pingreq", 0))
    BY DEF Sends
<1> QED
    BY <1>1, <1>2, ClientKeepsWire

-----------------------------------------------------------------------------
(* The actions that leave the outbox and the requests alone.               *)

Quiet ==
    /\ UNCHANGED <<outbox, status, tried, received, held>>
    /\ app' = app \/ (app'.req = {} /\ app'.at # "checked")
    /\ up' = up \/ \E type \in {"pingreq", "disconnect"} : up' = Append(up, Control(type, 0))
    /\ down' = down \/ down' = <<>> \/ (down # <<>> /\ down' = Tail(down))

LEMMA DownShrinks ==
    ASSUME DataOK, down' = down \/ down' = <<>> \/ (down # <<>> /\ down' = Tail(down))
    PROVE  down' \in Seq(PacketsOf(ToClient)) /\ ToSet(down') \subseteq ToSet(down)
<1>1. down \in Seq(PacketsOf(ToClient))
    BY DEF DataOK
<1>2. CASE down' = down
    BY <1>1, <1>2
<1>3. CASE down' = <<>>
    BY <1>3, ToSetOfEmpty, EmptySeq
<1>4. CASE down # <<>> /\ down' = Tail(down)
    BY <1>1, <1>4, HeadTailProperties, ToSetOfTail
<1> QED
    BY <1>2, <1>3, <1>4

LEMMA UpGrows ==
    ASSUME DataOK, NEW p \in PacketsOf(ToBroker), up' = up \/ up' = Append(up, p)
    PROVE  up' \in Seq(PacketsOf(ToBroker))
<1>1. up \in Seq(PacketsOf(ToBroker))
    BY DEF DataOK
<1>2. Append(up, p) \in Seq(PacketsOf(ToBroker))
    BY <1>1, AppendProperties
<1> QED
    BY Zenon, <1>1, <1>2

LEMMA QuietKeepsInv ==
    ASSUME IInv, Quiet
    PROVE  IInv'
<1>1. PICK type \in {"pingreq", "disconnect"} : up' = up \/ up' = Append(up, Control(type, 0))
    BY DEF Quiet
<1> DEFINE p == Control(type, 0)
<1>2. p \in PacketsOf(ToBroker) /\ Allowed(p)
    BY ControlIsAllowed
<1> HIDE DEF p
<1>3. DataOK /\ OutboxInv /\ TriedInv /\ WireInv
    BY DEF IInv
<1>4. down' \in Seq(PacketsOf(ToClient)) /\ ToSet(down') \subseteq ToSet(down)
    BY <1>3, DownShrinks DEF Quiet
<1>5. up' = up \/ up' = Append(up, p)
    BY <1>1 DEF p
<1>6. up' \in Seq(PacketsOf(ToBroker))
    BY <1>2, <1>3, <1>5, UpGrows
<1>7. DataOK'
    BY <1>3, <1>4, <1>6 DEF DataOK, Quiet
<1>8. OutboxInv' /\ TriedInv'
    BY <1>3 DEF OutboxInv, TriedInv, Quiet, At, StatusOf
<1>9. WireInv'
  <2>1. Settled
    BY <1>3, SettledIfUnchanged DEF Quiet
  <2>2. Sends(p)
    BY <1>4, <1>5 DEF Sends, Quiet
  <2> QED
    BY <1>2, <1>3, <2>1, <2>2, ClientKeepsWire
<1> QED
    BY <1>7, <1>8, <1>9 DEF IInv

\* A new connection, and a new session of the broker.
LEMMA ConnectKeepsInv ==
    ASSUME IInv, NEW t \in Tasks, Connect(t)
    PROVE  IInv'
<1> USE DEF Connect
<1>1. DataOK /\ OutboxInv /\ TriedInv /\ WireInv
    BY DEF IInv
<1>2. DataOK'
    BY <1>1, EmptySeq DEF DataOK
<1>3. OutboxInv' /\ TriedInv'
    BY <1>1 DEF OutboxInv, TriedInv, At, StatusOf
<1>4. ToSet(up') = {} /\ ToSet(down') = {}
    BY ToSetOfEmpty
<1>5. CausedInv' /\ CountedInv'
    BY <1>1, <1>4 DEF WireInv, CausedInv, CountedInv, StatusOf
<1>6. ASSUME NEW r \in Requests, r.type = PUBLISH, r.qos = 2
      PROVE  OnceFor(r)'
  <2>1. OnceFor(r) /\ (Done(r) => Done(r)')
    BY <1>1, <1>6 DEF WireInv, OnceInv, Done, StatusOf
  <2> QED
    BY <1>4, <2>1, ReleasedLastOfEmpty DEF OnceFor
<1> QED
    BY <1>2, <1>3, <1>5, <1>6 DEF IInv, WireInv, OnceInv

-----------------------------------------------------------------------------
(* The actions of the task that change the outbox.                         *)

LEMMA StatusChanges ==
    ASSUME DataOK, NEW r \in Requests, NEW what,
           status' = [status EXCEPT ![r.no] = what]
    PROVE  /\ StatusOf(r)' = what
           /\ \A s \in Requests : s # r => StatusOf(s)' = StatusOf(s)
           /\ \A s \in Requests : StatusOf(s) # "new" /\ what # "new" => StatusOf(s)' # "new"
BY RequestFacts DEF DataOK, StatusOf

LEMMA PurgeKeepsInv ==
    ASSUME IInv, NEW t \in Tasks, Purge(t)
    PROVE  IInv'
<1> USE DEF Purge, network
<1>1. DataOK /\ OutboxInv /\ TriedInv /\ WireInv
    BY DEF IInv
<1>2. Len(outbox') = 0
    OBVIOUS
<1>3. Reqs(outbox') = {} /\ Distinct(outbox') /\ \A states : InState(outbox', states) = {}
    BY <1>2 DEF Reqs, Distinct, InState
<1>4. \A r \in Requests : StatusOf(r)' = IF StatusOf(r) = "stored" THEN "purged" ELSE StatusOf(r)
    BY <1>1, RequestFacts DEF DataOK, StatusOf
<1>5. DataOK'
    BY <1>1, EmptySeq DEF DataOK
<1>6. OutboxInv' /\ TriedInv'
    BY <1>1, <1>3, <1>4 DEF OutboxInv, TriedInv, At, DataOK
<1>7. Settled
    BY <1>1, <1>3, <1>4 DEF Settled, Done, WireInv, CountedInv
<1>8. WireInv'
    BY <1>1, <1>7, SilenceKeepsWire
<1> QED
    BY <1>5, <1>6, <1>8 DEF IInv

\* An acknowledgement is taken for a stored request, and one of a publish was
\* caused by the broker passing it on.
LEMMA AcknowledgedRequest ==
    ASSUME IInv, down # <<>>, Head(down).type \in DOMAIN Acknowledged,
           NEW k, k = Initiator(outbox, Head(down).id, Acknowledged[Head(down).type]), k # 0
    PROVE  /\ k \in 1 .. Len(outbox)
           /\ \E req \in Requests :
                /\ req = outbox[k].req /\ req \in Reqs(outbox) /\ req.no = Head(down).id
                /\ req.type = PUBLISH => received[req.no] > 0
<1>1. DataOK /\ WireInv /\ outbox \in Seq(Item(Requests))
    BY DEF IInv, DataOK
<1>2. PICK p \in PacketsOf(ToClient) : p = Head(down) /\ DownCaused(p)
  <2>1. down \in Seq(PacketsOf(ToClient)) /\ down # <<>>
    BY <1>1 DEF DataOK
  <2>2. Head(down) \in PacketsOf(ToClient) /\ Head(down) \in ToSet(down)
    BY <2>1, HeadTailProperties, ToSetOfTail
  <2> QED
    BY <1>1, <2>2 DEF WireInv, CausedInv
<1>3. PICK type \in {PUBLISH, SUBSCRIBE, UNSUBSCRIBE} :
        /\ type = Acknowledged[p.type]
        /\ type = PUBLISH => p.type \in {"puback", "pubcomp"}
    BY <1>2 DEF Acknowledged, PUBLISH, SUBSCRIBE, UNSUBSCRIBE
<1>4. k = Initiator(outbox, p.id, type)
    BY <1>2, <1>3
<1>5. k \in 1 .. Len(outbox) /\ IdOf(outbox[k].req) = p.id /\ outbox[k].req.type = type
    BY ONLY <1>1, <1>4, k # 0, InitiatorFinds
<1>6. PICK req \in Requests : req = outbox[k].req /\ req \in Reqs(outbox)
    BY <1>1, <1>5, ReqsAreRequests DEF Reqs
<1>7. req.no = p.id /\ (req.type = PUBLISH => received[req.no] > 0)
  <2>1. CASE type = PUBLISH
    <3>1. received[p.id] > 0 /\ \E s \in Requests : s.no = p.id
      BY <1>2, <1>3, <2>1 DEF DownCaused, Known
    <3>2. p.id # 0
      BY <3>1, RequestFacts
    <3> QED
      BY <1>5, <1>6, <3>1, <3>2, RequestFacts
  <2>2. CASE type # PUBLISH
    BY <1>5, <1>6, <2>2, RequestFacts
  <2> QED
    BY <2>1, <2>2
<1> QED
    BY <1>2, <1>5, <1>6, <1>7

LEMMA ReceiveAckKeepsInv ==
    ASSUME IInv, NEW t \in Tasks, ReceiveAck(t)
    PROVE  IInv'
<1> USE DEF ReceiveAck
<1>1. DataOK /\ OutboxInv /\ TriedInv /\ WireInv
    BY DEF IInv
<1>2. down' \in Seq(PacketsOf(ToClient)) /\ ToSet(down') \subseteq ToSet(down)
    BY <1>1, DownShrinks
<1>3. PICK p, type : p = Head(down) /\ type = Acknowledged[p.type]
    OBVIOUS
<1>5. /\ outbox' = outbox_delete(outbox, p.id, type)
      /\ status' = IF Initiator(outbox, p.id, type) = 0 THEN status
                   ELSE [status EXCEPT ![p.id] = "acked"]
    BY <1>3 DEF Settle
<1>6. outbox \in Seq(Item(Requests))
    BY <1>1 DEF DataOK
<1>7. CASE Initiator(outbox, p.id, type) = 0
  <2>1. outbox' = outbox /\ status' = status
    BY <1>5, <1>7 DEF outbox_delete, Without
  <2>2. DataOK'
    BY <1>1, <1>2, <2>1 DEF DataOK
  <2>3. OutboxInv' /\ TriedInv'
    BY <1>1, <2>1 DEF OutboxInv, TriedInv, At, StatusOf
  <2>4. Settled
    BY <1>1, <2>1, SettledIfUnchanged
  <2>5. WireInv'
    BY <1>1, <1>2, <2>4, SilenceKeepsWire
  <2> QED
    BY <2>2, <2>3, <2>5 DEF IInv
<1>8. CASE Initiator(outbox, p.id, type) # 0
  <2>1. PICK k : k = Initiator(outbox, p.id, type)
    OBVIOUS
  <2>2. /\ k \in 1 .. Len(outbox)
        /\ \E req \in Requests :
             /\ req = outbox[k].req /\ req \in Reqs(outbox) /\ req.no = p.id
             /\ req.type = PUBLISH => received[req.no] > 0
    BY <1>3, <1>8, <2>1, AcknowledgedRequest
  <2>3. PICK req \in Requests :
             /\ req = outbox[k].req /\ req \in Reqs(outbox) /\ req.no = p.id
             /\ req.type = PUBLISH => received[req.no] > 0
    BY <2>2
  <2>4. outbox' = Without(outbox, k) /\ Distinct(outbox)
    BY <1>1, <1>5, <1>8, <2>1 DEF outbox_delete, OutboxInv
  <2>5. /\ outbox' \in Seq(Item(Requests)) /\ Reqs(outbox') = Reqs(outbox) \ {req}
        /\ Distinct(outbox')
        /\ \A states : InState(outbox', states) \subseteq InState(outbox, states)
    BY <1>6, <2>2, <2>3, <2>4, WithoutRemovesRequest
  <2>6. status' = [status EXCEPT ![req.no] = "acked"]
    BY <1>5, <1>8, <2>3
  <2>7. /\ StatusOf(req)' = "acked"
        /\ \A s \in Requests : s # req => StatusOf(s)' = StatusOf(s)
        /\ \A s \in Requests : StatusOf(s) # "new" => StatusOf(s)' # "new"
    BY <1>1, <2>6, StatusChanges
  <2>8. DataOK'
    <3>1. status' \in [{r.no : r \in Requests} ->
            {"new", "stored", "sent", "acked", "expired", "purged", "lost"}]
      BY <1>1, <2>6 DEF DataOK
    <3> QED
      BY <1>1, <1>2, <2>5, <3>1 DEF DataOK
  <2>9. OutboxInv'
    BY <1>1, <2>3, <2>5, <2>7 DEF OutboxInv, At, DataOK
  <2>10. TriedInv'
    BY <1>1, <2>5 DEF TriedInv
  <2>11. Settled
    BY <1>1, <2>3, <2>5, <2>7 DEF Settled, Done, WireInv, CountedInv
  <2>12. WireInv'
    BY <1>1, <1>2, <2>11, SilenceKeepsWire
  <2> QED
    BY <2>8, <2>9, <2>10, <2>12 DEF IInv
<1> QED
    BY <1>7, <1>8

\* The message a PUBREC is for is done: its release may be written.
LEMMA ReceiveRecKeepsInv ==
    ASSUME IInv, NEW t \in Tasks, ReceiveRec(t)
    PROVE  IInv'
<1> USE DEF ReceiveRec
<1>1. DataOK /\ OutboxInv /\ TriedInv /\ WireInv
    BY DEF IInv
<1>2. down' \in Seq(PacketsOf(ToClient)) /\ ToSet(down') \subseteq ToSet(down)
    BY <1>1, DownShrinks
<1>3. PICK id \in Nat : id = Head(down).id /\ Known(id, 2) /\ Arrived(id)
  <2>1. down \in Seq(PacketsOf(ToClient)) /\ down # <<>>
    BY <1>1 DEF DataOK
  <2>2. Head(down) \in PacketsOf(ToClient) /\ Head(down) \in ToSet(down)
    BY <2>1, HeadTailProperties, ToSetOfTail
  <2>3. Head(down).id \in Nat
    BY <2>2 DEF PacketsOf
  <2>4. DownCaused(Head(down))
    BY <1>1, <2>2 DEF WireInv, CausedInv
  <2>5. Known(Head(down).id, 2) /\ Arrived(Head(down).id)
    BY <2>4 DEF DownCaused
  <2> QED
    BY Zenon, <2>3, <2>5
<1>4. PICK req \in Requests :
        req.type = PUBLISH /\ req.no = id /\ req.qos = 2 /\ StatusOf(req) # "new"
    BY <1>3 DEF Known
<1>5. IdOf(req) = id /\ id # 0
    BY <1>4, RequestFacts
<1>6. /\ outbox \in Seq(Item(Requests)) /\ Distinct(outbox)
      /\ outbox' = outbox_set_pending(outbox, id, ACKNOWLEDGED)
      /\ ACKNOWLEDGED \notin {QUEUED, TRANSMITTED}
    BY <1>1, <1>3 DEF DataOK, OutboxInv, QUEUED, TRANSMITTED, ACKNOWLEDGED
<1>7. /\ outbox' \in Seq(Item(Requests)) /\ Reqs(outbox') = Reqs(outbox) /\ Distinct(outbox')
      /\ \A states : ACKNOWLEDGED \notin states =>
            InState(outbox', states) \subseteq InState(outbox, states)
    BY <1>6, SetPendingKeepsRequests
<1>8. req \notin InState(outbox', {QUEUED, TRANSMITTED})
  <2>1. CASE req \in Reqs(outbox)
    <3>1. \A r \in Reqs(outbox) : IdOf(r) = IdOf(req) => r = req
      BY <1>5, <1>6, ReqsAreRequests, SameId
    <3> QED
      BY <1>5, <1>6, <2>1, <3>1, SetPendingTakes
  <2>2. CASE req \notin Reqs(outbox)
    BY <1>7, <2>2, StateIsOfReqs
  <2> QED
    BY <2>1, <2>2
<1> DEFINE p == Control("pubrel", id)
<1>9. p \in PacketsOf(ToBroker) /\ p.type = "pubrel" /\ p.id = id
    BY ControlTyped DEF ToBroker, Control
<1> HIDE DEF p
<1>10. up' = up \/ up' = Append(up, p)
    BY <1>3 DEF Writes, WriteFails, p
<1>11. up' \in Seq(PacketsOf(ToBroker))
    BY <1>1, <1>9, <1>10, UpGrows
<1>12. DataOK'
    BY <1>1, <1>2, <1>7, <1>11 DEF DataOK
<1>13. OutboxInv'
    BY <1>1, <1>7 DEF OutboxInv, At, StatusOf
<1>14. TriedInv'
    BY <1>1, <1>6, <1>7 DEF TriedInv
<1>15. Settled
    BY <1>1, <1>6, <1>7 DEF Settled, Done, StatusOf, WireInv, CountedInv
<1>16. Allowed(p)
  <2>1. Known(id, 2)' /\ Arrived(id)'
    BY <1>3 DEF Known, Arrived, StatusOf
  <2>2. UpCaused(p)'
    BY <1>9, <2>1 DEF UpCaused, PUBLISH
  <2>3. Done(req)'
    BY <1>4, <1>8 DEF Done, StatusOf
  <2>4. ASSUME NEW r \in Requests
        PROVE  (Publishes(p, r.no) => ~Done(r)) /\ (Releases(p, r.no) => Done(r)')
    BY <1>4, <1>9, <2>3, RequestFacts DEF Publishes, Releases, PUBLISH
  <2> QED
    BY <2>2, <2>4 DEF Allowed
<1>17. Sends(p)
    BY <1>2, <1>10 DEF Sends
<1>18. WireInv'
    BY <1>1, <1>9, <1>15, <1>16, <1>17, ClientKeepsWire
<1> QED
    BY <1>12, <1>13, <1>14, <1>18 DEF IInv

LEMMA ExpireKeepsInv ==
    ASSUME IInv, NEW t \in Tasks, Expire(t)
    PROVE  IInv'
<1> USE DEF Expire, network
<1>1. DataOK /\ OutboxInv /\ TriedInv /\ WireInv
    BY DEF IInv
<1>2. outbox \in Seq(Item(Requests)) /\ Distinct(outbox) /\ Len(outbox) \in Nat
    BY <1>1, LenProperties DEF DataOK, OutboxInv
<1>3. PICK n \in 0 .. Len(outbox) : DeleteExpired(n)
    BY <1>2
<1> DEFINE old == {outbox[i].req : i \in 1 .. n}
<1>4. /\ outbox' \in Seq(Item(Requests)) /\ Distinct(outbox') /\ Reqs(outbox') = Reqs(outbox) \ old
      /\ \A states : InState(outbox', states) \subseteq InState(outbox, states)
    BY <1>2, <1>3, ExpiredRemovesRequests DEF DeleteExpired
<1>5. old \subseteq Reqs(outbox) /\ Reqs(outbox) \subseteq Requests
    BY <1>2, ReqsAreRequests DEF Reqs
<1>6. \A r \in Requests : StatusOf(r)' = IF r \in old THEN "expired" ELSE StatusOf(r)
  <2> SUFFICES ASSUME NEW r \in Requests
               PROVE  StatusOf(r)' = IF r \in old THEN "expired" ELSE StatusOf(r)
    OBVIOUS
  <2>1. (\E i \in 1 .. n : outbox[i].req.no = r.no) <=> r \in old
    <3>1. \A i \in 1 .. n : outbox[i].req \in Requests
      BY <1>5
    <3> QED
      BY <3>1, RequestFacts
  <2>2. StatusOf(r)' = IF \E i \in 1 .. n : outbox[i].req.no = r.no THEN "expired" ELSE StatusOf(r)
    BY <1>1, <1>3, RequestFacts DEF DataOK, StatusOf, DeleteExpired
  <2> QED
    BY <2>1, <2>2
<1>7. status' \in [{r.no : r \in Requests} ->
            {"new", "stored", "sent", "acked", "expired", "purged", "lost"}]
    BY <1>1, <1>3 DEF DataOK, DeleteExpired
<1>8. DataOK'
    BY <1>1, <1>4, <1>7 DEF DataOK
<1> HIDE DEF old
<1>9. OutboxInv'
    BY <1>1, <1>4, <1>5, <1>6 DEF OutboxInv, At, DataOK
<1>10. TriedInv'
    BY <1>1, <1>4 DEF TriedInv
<1>11. Settled
    BY <1>1, <1>4, <1>6 DEF Settled, Done, WireInv, CountedInv
<1>12. WireInv'
    BY <1>1, <1>11, SilenceKeepsWire
<1> QED
    BY <1>8, <1>9, <1>10, <1>12 DEF IInv

-----------------------------------------------------------------------------
(* The actions that write a request.                                       *)

\* req is written, and from then on not new; no other request is touched.
LEMMA RequestKeepsWire ==
    ASSUME DataOK, WireInv, Settled, NEW req \in Requests, NEW dup \in BOOLEAN,
           Sends(Packet(req, dup)),
           StatusOf(req)' # "new", ~Done(req)
    PROVE  WireInv'
<1> DEFINE p == Packet(req, dup)
<1>1. p \in PacketsOf(ToBroker) /\ p.type = req.type /\ p.id = IdOf(req) /\ p.qos = req.qos
    BY PacketTyped DEF Packet
<1> HIDE DEF p
<1>2. UpCaused(p)'
    BY <1>1, RequestFacts DEF UpCaused, Known, PUBLISH, SUBSCRIBE, UNSUBSCRIBE
<1>3. ASSUME NEW r \in Requests, r.type = PUBLISH, r.qos = 2
      PROVE  (Publishes(p, r.no) => ~Done(r)) /\ (Releases(p, r.no) => Done(r)')
  <2>1. ~Releases(p, r.no)
    BY <1>1, RequestFacts DEF Releases, PUBLISH, SUBSCRIBE, UNSUBSCRIBE
  <2>2. ASSUME Publishes(p, r.no)
        PROVE  r = req
    <3>1. req.type = PUBLISH /\ IdOf(req) = r.no /\ r.no # 0
      BY <1>1, <2>2, RequestFacts DEF Publishes
    <3> QED
      BY <3>1, RequestFacts
  <2> QED
    BY <2>1, <2>2
<1>4. Allowed(p)
    BY <1>2, <1>3 DEF Allowed
<1>5. Sends(p)
    BY DEF p
<1> QED
    BY <1>1, <1>4, <1>5, ClientKeepsWire

LEMMA LeftRequests ==
    ASSUME DataOK, Distinct(outbox), NEW req \in Requests, NEW states
    PROVE  /\ Left(req) \in Seq(Item(Requests)) /\ Distinct(Left(req))
           /\ Reqs(Left(req)) =
                IF Unacknowledged(req) THEN Reqs(outbox) \ {req} ELSE Reqs(outbox)
           /\ InState(Left(req), states) \subseteq InState(outbox, states)
<1>1. outbox \in Seq(Item(Requests))
    BY DEF DataOK
<1>2. CASE ~Unacknowledged(req)
    BY <1>1, <1>2 DEF Left
<1>3. CASE Unacknowledged(req)
  <2>1. Left(req) = outbox_delete_item(outbox, req)
    BY <1>3 DEF Left
  <2>2. CASE outbox_delete_item(outbox, req) = outbox /\ \A i \in 1 .. Len(outbox) : outbox[i].req # req
    BY <1>1, <1>3, <2>1, <2>2 DEF Reqs
  <2>3. ASSUME NEW k \in 1 .. Len(outbox), outbox[k].req = req,
               outbox_delete_item(outbox, req) = Without(outbox, k)
        PROVE  /\ Left(req) \in Seq(Item(Requests)) /\ Distinct(Left(req))
               /\ Reqs(Left(req)) = Reqs(outbox) \ {req}
               /\ InState(Left(req), states) \subseteq InState(outbox, states)
    BY <1>1, <2>1, <2>3, WithoutRemovesRequest
  <2> QED
    BY <1>1, <1>3, <2>2, <2>3, DeleteItemRemoves
<1> QED
    BY <1>2, <1>3

\* What Sent and Left leave: a stored QoS 0 message is done with.
LEMMA SentStatus ==
    ASSUME DataOK, NEW req \in Requests, Sent(req), StatusOf(req) = "stored"
    PROVE  /\ StatusOf(req)' = IF Unacknowledged(req) THEN "sent" ELSE "stored"
           /\ \A s \in Requests : s # req => StatusOf(s)' = StatusOf(s)
           /\ status' \in [{r.no : r \in Requests} ->
                {"new", "stored", "sent", "acked", "expired", "purged", "lost"}]
<1>1. CASE Unacknowledged(req)
  <2>1. status' = [status EXCEPT ![req.no] = "sent"]
    BY <1>1 DEF Sent
  <2>2. StatusOf(req)' = "sent" /\ \A s \in Requests : s # req => StatusOf(s)' = StatusOf(s)
    BY <2>1, StatusChanges
  <2> QED
    BY <1>1, <2>1, <2>2 DEF DataOK
<1>2. CASE ~Unacknowledged(req)
    BY <1>2 DEF Sent, StatusOf, DataOK
<1> QED
    BY <1>1, <1>2

\* The first queued or transmitted item: its request is stored and not done.
LEMMA DequeuedRequest ==
    ASSUME IInv, NEW pending \in {QUEUED, TRANSMITTED}, outbox_dequeue(outbox, pending) # 0
    PROVE  LET req == outbox[outbox_dequeue(outbox, pending)].req
           IN  /\ req \in Requests /\ req \in Reqs(outbox) /\ StatusOf(req) = "stored"
               /\ req \in InState(outbox, {pending}) /\ ~Done(req)
<1>1. outbox \in Seq(Item(Requests)) /\ OutboxInv
    BY DEF IInv, DataOK
<1> DEFINE k == outbox_dequeue(outbox, pending)
<1>2. k \in 1 .. Len(outbox) /\ outbox[k].pending = pending
    BY <1>1, DequeueFinds
<1> HIDE DEF k
<1>3. outbox[k].req \in Reqs(outbox) /\ outbox[k].req \in Requests
    BY <1>1, <1>2, ReqsAreRequests DEF Reqs
<1>4. StatusOf(outbox[k].req) = "stored"
    BY <1>1, <1>3 DEF OutboxInv
<1>5. outbox[k].req \in InState(outbox, {pending})
    BY <1>2 DEF InState
<1>6. ~Done(outbox[k].req)
    BY <1>2 DEF InState, Done
<1> QED
    BY <1>3, <1>4, <1>5, <1>6 DEF k

LEMMA ResendQueuedKeepsInv ==
    ASSUME IInv, NEW t \in Tasks, ResendQueued(t)
    PROVE  IInv'
<1>1. DataOK /\ OutboxInv /\ TriedInv /\ WireInv /\ Distinct(outbox)
    BY DEF IInv, OutboxInv
<1>2. PICK req \in Requests :
        /\ req = outbox[outbox_dequeue(outbox, QUEUED)].req
        /\ req \in Reqs(outbox) /\ StatusOf(req) = "stored" /\ ~Done(req)
    BY DequeuedRequest DEF ResendQueued
<1>3. /\ \/ /\ Writes(Packet(req, FALSE))
            /\ outbox' = outbox_set_pending(Left(req), IdOf(req), TRANSMITTED)
            /\ Sent(req)
            /\ Kept
         \/ WriteFails /\ Aborted /\ UNCHANGED <<outbox, status>>
      /\ tried' = tried \union {req}
      /\ UNCHANGED <<held, received, app>>
    BY <1>2 DEF ResendQueued
<1>4. Packet(req, FALSE) \in PacketsOf(ToBroker)
    BY PacketTyped
<1>5. /\ up' = up \/ up' = Append(up, Packet(req, FALSE))
      /\ down' = down \/ down' = <<>>
    BY <1>3 DEF Writes, WriteFails, Kept, Aborted
<1>6. /\ up' \in Seq(PacketsOf(ToBroker)) /\ down' \in Seq(PacketsOf(ToClient))
      /\ ToSet(down') \subseteq ToSet(down)
    BY <1>1, <1>4, <1>5, UpGrows, DownShrinks
<1>7. Sends(Packet(req, FALSE))
    BY <1>3, <1>5, <1>6 DEF Sends
<1>8. CASE outbox' = outbox_set_pending(Left(req), IdOf(req), TRANSMITTED) /\ Sent(req)
  <2>1. /\ Left(req) \in Seq(Item(Requests)) /\ Distinct(Left(req))
        /\ Reqs(Left(req)) =
                IF Unacknowledged(req) THEN Reqs(outbox) \ {req} ELSE Reqs(outbox)
        /\ \A states : InState(Left(req), states) \subseteq InState(outbox, states)
    BY <1>1, LeftRequests
  <2>2. /\ outbox' \in Seq(Item(Requests)) /\ Distinct(outbox')
        /\ Reqs(outbox') = Reqs(Left(req))
        /\ \A states : InState(outbox', states) \subseteq
                InState(Left(req), states) \union {r \in Reqs(Left(req)) : IdOf(r) = IdOf(req)}
    <3>1. PICK left \in Seq(Item(Requests)) : left = Left(req) /\ Distinct(left)
      BY Zenon, <2>1
    <3>2. outbox' = outbox_set_pending(left, IdOf(req), TRANSMITTED)
      BY <1>8, <3>1
    <3>3. ASSUME NEW states
          PROVE  /\ outbox' \in Seq(Item(Requests)) /\ Distinct(outbox')
                 /\ Reqs(outbox') = Reqs(left)
                 /\ InState(outbox', states) \subseteq
                        InState(left, states) \union
                            {r \in Reqs(left) : IdOf(r) = IdOf(req) /\ TRANSMITTED \in states}
      BY <3>1, <3>2, SetPendingKeepsRequests
    <3> QED
      BY <3>1, <3>3
  <2>3. Reqs(outbox) \subseteq Requests
    BY <1>1, ReqsAreRequests DEF DataOK
  <2>4. \A states : \A r \in Reqs(outbox) :
            r \in InState(outbox', states) /\ r # req /\ IdOf(r) # 0 => r \in InState(outbox, states)
    <3>1. \A r \in Reqs(outbox) : IdOf(r) = IdOf(req) /\ IdOf(r) # 0 => r = req
      BY <2>3, SameId
    <3> QED
      BY <2>1, <2>2, <3>1
  <2>5. \A states : InState(outbox', states) \subseteq Reqs(outbox)
    BY <2>1, <2>2, StateIsOfReqs
  <2>6. /\ StatusOf(req)' = IF Unacknowledged(req) THEN "sent" ELSE "stored"
        /\ \A s \in Requests : s # req => StatusOf(s)' = StatusOf(s)
        /\ status' \in [{r.no : r \in Requests} ->
                {"new", "stored", "sent", "acked", "expired", "purged", "lost"}]
    BY <1>1, <1>2, <1>8, SentStatus
  <2>7. DataOK'
    BY <1>1, <1>3, <1>6, <2>2, <2>6 DEF DataOK
  <2>8. OutboxInv'
    BY <1>1, <1>2, <1>3, <2>1, <2>2, <2>6 DEF OutboxInv, At, DataOK
  <2>9. TriedInv'
    BY <1>1, <1>3, <2>4, <2>5 DEF TriedInv
  <2>10. Settled
    <3> SUFFICES ASSUME NEW r \in Requests
                 PROVE  /\ StatusOf(r) # "new" => StatusOf(r)' # "new"
                        /\ r.type = PUBLISH /\ r.qos = 2 /\ Done(r) => Done(r)'
                        /\ r.type = PUBLISH /\ StatusOf(r)' = "acked" => received[r.no] > 0
      BY DEF Settled
    <3>1. StatusOf(r) # "new" => StatusOf(r)' # "new"
      BY <2>6
    <3>2. r.type = PUBLISH /\ StatusOf(r)' = "acked" => received[r.no] > 0
      BY <1>1, <1>2, <2>6 DEF WireInv, CountedInv
    <3>3. ASSUME r.type = PUBLISH, r.qos = 2, Done(r), r \in InState(outbox', {QUEUED, TRANSMITTED})
          PROVE  FALSE
      <4>1. /\ r # req /\ r \in Reqs(outbox) /\ r \notin InState(outbox, {QUEUED, TRANSMITTED})
            /\ IdOf(r) # 0
        BY <1>2, <2>5, <3>3, RequestFacts DEF Done
      <4> QED
        BY <2>4, <3>3, <4>1
    <3> QED
      BY <3>1, <3>2, <3>3 DEF Done
  <2>11. WireInv'
    BY <1>1, <1>2, <1>7, <2>6, <2>10, RequestKeepsWire
  <2> QED
    BY <2>7, <2>8, <2>9, <2>11 DEF IInv
<1>9. CASE UNCHANGED <<outbox, status>>
  <2>1. DataOK'
    BY <1>1, <1>3, <1>6, <1>9 DEF DataOK
  <2>2. OutboxInv' /\ TriedInv'
    BY <1>1, <1>3, <1>9 DEF OutboxInv, TriedInv, At, StatusOf
  <2>3. Settled
    BY <1>1, <1>9, SettledIfUnchanged
  <2>4. StatusOf(req)' # "new"
    BY <1>2, <1>9 DEF StatusOf
  <2>5. WireInv'
    BY <1>1, <1>2, <1>7, <2>3, <2>4, RequestKeepsWire
  <2> QED
    BY <2>1, <2>2, <2>5 DEF IInv
<1> QED
    BY <1>3, <1>8, <1>9

LEMMA RetransmitKeepsInv ==
    ASSUME IInv, NEW t \in Tasks, Retransmit(t)
    PROVE  IInv'
<1>1. DataOK /\ OutboxInv /\ TriedInv /\ WireInv /\ Distinct(outbox)
    BY DEF IInv, OutboxInv
<1>2. PICK req \in Requests :
        /\ req = outbox[outbox_dequeue(outbox, TRANSMITTED)].req
        /\ req \in Reqs(outbox) /\ StatusOf(req) = "stored" /\ ~Done(req)
    BY DequeuedRequest DEF Retransmit
<1>3. PICK dup \in BOOLEAN : dup = (req.type = PUBLISH /\ req.qos > 0)
    OBVIOUS
<1>4. /\ \/ Writes(Packet(req, dup)) /\ outbox' = Left(req) /\ Sent(req) /\ Kept
         \/ WriteFails /\ Aborted /\ UNCHANGED <<outbox, status>>
      /\ tried' = tried \union {req}
      /\ UNCHANGED <<held, received, app>>
    BY <1>2, <1>3 DEF Retransmit
<1>5. Packet(req, dup) \in PacketsOf(ToBroker)
    BY PacketTyped
<1>6. /\ up' = up \/ up' = Append(up, Packet(req, dup))
      /\ down' = down \/ down' = <<>>
    BY <1>4 DEF Writes, WriteFails, Kept, Aborted
<1>7. /\ up' \in Seq(PacketsOf(ToBroker)) /\ down' \in Seq(PacketsOf(ToClient))
      /\ ToSet(down') \subseteq ToSet(down)
    BY <1>1, <1>5, <1>6, UpGrows, DownShrinks
<1>8. Sends(Packet(req, dup))
    BY <1>4, <1>6, <1>7 DEF Sends
<1>9. CASE outbox' = Left(req) /\ Sent(req)
  <2>1. /\ outbox' \in Seq(Item(Requests)) /\ Distinct(outbox')
        /\ Reqs(outbox') =
                IF Unacknowledged(req) THEN Reqs(outbox) \ {req} ELSE Reqs(outbox)
        /\ \A states : InState(outbox', states) \subseteq InState(outbox, states)
    BY <1>1, <1>9, LeftRequests
  <2>2. /\ StatusOf(req)' = IF Unacknowledged(req) THEN "sent" ELSE "stored"
        /\ \A s \in Requests : s # req => StatusOf(s)' = StatusOf(s)
        /\ status' \in [{r.no : r \in Requests} ->
                {"new", "stored", "sent", "acked", "expired", "purged", "lost"}]
    BY <1>1, <1>2, <1>9, SentStatus
  <2>3. DataOK'
    BY <1>1, <1>4, <1>7, <2>1, <2>2 DEF DataOK
  <2>4. OutboxInv'
    BY <1>1, <1>2, <1>4, <2>1, <2>2 DEF OutboxInv, At, DataOK
  <2>5. TriedInv'
    BY <1>1, <1>4, <2>1 DEF TriedInv
  <2>6. Settled
    BY <1>1, <1>2, <2>1, <2>2 DEF Settled, Done, WireInv, CountedInv
  <2>7. WireInv'
    BY <1>1, <1>2, <1>8, <2>2, <2>6, RequestKeepsWire
  <2> QED
    BY <2>3, <2>4, <2>5, <2>7 DEF IInv
<1>10. CASE UNCHANGED <<outbox, status>>
  <2>1. DataOK'
    BY <1>1, <1>4, <1>7, <1>10 DEF DataOK
  <2>2. OutboxInv' /\ TriedInv'
    BY <1>1, <1>4, <1>10 DEF OutboxInv, TriedInv, At, StatusOf
  <2>3. Settled
    BY <1>1, <1>10, SettledIfUnchanged
  <2>4. StatusOf(req)' # "new"
    BY <1>2, <1>10 DEF StatusOf
  <2>5. WireInv'
    BY <1>1, <1>2, <1>8, <2>3, <2>4, RequestKeepsWire
  <2> QED
    BY <2>1, <2>2, <2>5 DEF IInv
<1> QED
    BY <1>4, <1>9, <1>10

-----------------------------------------------------------------------------
(* The actions of the application.                                         *)

\* A new request is not in the outbox, and no subscription is checked meanwhile.
LEMMA NewRequest ==
    ASSUME IInv, NEW r \in Requests, IsNew(r)
    PROVE  StatusOf(r) = "new" /\ r \notin Reqs(outbox) /\ ~Done(r)
BY DEF IsNew, IInv, OutboxInv, Done

\* Storing a request, whatever state its item is put in.
LEMMA StoreRequest ==
    ASSUME DataOK, OutboxInv, NEW r \in Requests, r \notin Reqs(outbox), NEW states
    PROVE  LET kept == outbox_enqueue(outbox, r)
           IN  /\ kept \in Seq(Item(Requests)) /\ Distinct(kept)
               /\ Reqs(kept) = Reqs(outbox) \union {r}
               /\ InState(kept, states) \subseteq InState(outbox, states) \union {r}
               /\ states = {TRANSMITTED} => InState(kept, states) = InState(outbox, states)
<1>1. outbox \in Seq(Item(Requests)) /\ Distinct(outbox)
    BY DEF DataOK, OutboxInv
<1>2. PICK kept \in Seq(Item(Requests)) :
        /\ kept = outbox_enqueue(outbox, r) /\ Distinct(kept)
        /\ Reqs(kept) = Reqs(outbox) \union {r}
        /\ InState(kept, states) =
                InState(outbox, states) \union (IF QUEUED \in states THEN {r} ELSE {})
    BY <1>1, EnqueueAddsRequest
<1> QED
    BY <1>2 DEF QUEUED, TRANSMITTED

LEMMA StoreTransmitted ==
    ASSUME DataOK, OutboxInv, NEW r \in Requests, r \notin Reqs(outbox), IdOf(r) # 0, NEW states
    PROVE  LET new == outbox_set_pending(outbox_enqueue(outbox, r), IdOf(r), TRANSMITTED)
           IN  /\ new \in Seq(Item(Requests)) /\ Distinct(new)
               /\ Reqs(new) = Reqs(outbox) \union {r}
               /\ InState(new, states) \subseteq InState(outbox, states) \union {r}
<1>1. PICK kept \in Seq(Item(Requests)) :
        /\ kept = outbox_enqueue(outbox, r) /\ Distinct(kept)
        /\ Reqs(kept) = Reqs(outbox) \union {r}
        /\ InState(kept, states) \subseteq InState(outbox, states) \union {r}
    BY StoreRequest
<1>2. PICK new \in Seq(Item(Requests)) :
        /\ new = outbox_set_pending(kept, IdOf(r), TRANSMITTED) /\ Reqs(new) = Reqs(kept)
        /\ Distinct(new)
        /\ InState(new, states) \subseteq InState(kept, states) \union
                {s \in Reqs(kept) : IdOf(s) = IdOf(r) /\ TRANSMITTED \in states}
    BY <1>1, SetPendingKeepsRequests
<1>3. {s \in Reqs(kept) : IdOf(s) = IdOf(r) /\ TRANSMITTED \in states} \subseteq {r}
    BY ReqsAreRequests, SameId
<1> QED
    BY <1>1, <1>2, <1>3

\* What is left to show once a request was stored, sent or lost: its own status
\* changed, and the items of the others are those they had, or gone.
LEMMA SettledByRequest ==
    ASSUME WireInv, NEW r \in Requests, StatusOf(r) = "new",
           StatusOf(r)' \in {"stored", "sent", "lost", "expired"},
           \A s \in Requests : s # r => StatusOf(s)' \in {StatusOf(s), "expired"},
           InState(outbox', {QUEUED, TRANSMITTED})
                \subseteq InState(outbox, {QUEUED, TRANSMITTED}) \union {r}
    PROVE  Settled
BY DEF Settled, Done, WireInv, CountedInv

LEMMA EnqueueKeepsInv ==
    ASSUME IInv, NEW r \in Requests, Enqueue(r)
    PROVE  IInv'
<1>1. DataOK /\ OutboxInv /\ TriedInv /\ WireInv
    BY DEF IInv
<1>2. StatusOf(r) = "new" /\ r \notin Reqs(outbox)
    BY NewRequest DEF Enqueue
<1>3. /\ outbox' = outbox_enqueue(outbox, r) /\ status' = [status EXCEPT ![r.no] = "stored"]
      /\ At("started") /\ UNCHANGED <<network, app, tried>>
    BY DEF Enqueue
<1>4. /\ outbox' \in Seq(Item(Requests)) /\ Distinct(outbox')
      /\ Reqs(outbox') = Reqs(outbox) \union {r}
      /\ InState(outbox', {TRANSMITTED}) = InState(outbox, {TRANSMITTED})
      /\ InState(outbox', {QUEUED, TRANSMITTED})
            \subseteq InState(outbox, {QUEUED, TRANSMITTED}) \union {r}
    BY <1>1, <1>2, <1>3, StoreRequest
<1>5. StatusOf(r)' = "stored" /\ \A s \in Requests : s # r => StatusOf(s)' = StatusOf(s)
    BY <1>1, <1>3, StatusChanges
<1>6. DataOK'
    BY <1>1, <1>3, <1>4 DEF DataOK, network
<1>7. OutboxInv' /\ TriedInv'
    BY <1>1, <1>3, <1>4, <1>5 DEF OutboxInv, TriedInv, At
<1>8. Settled
    BY <1>1, <1>2, <1>4, <1>5, SettledByRequest
<1>9. WireInv'
    BY <1>1, <1>3, <1>8, SilenceKeepsWire DEF network
<1> QED
    BY <1>6, <1>7, <1>9 DEF IInv

LEMMA PublishLaterKeepsInv ==
    ASSUME IInv, NEW r \in Requests, PublishLater(r)
    PROVE  IInv'
<1>1. DataOK /\ OutboxInv /\ TriedInv /\ WireInv
    BY DEF IInv
<1>2. StatusOf(r) = "new" /\ r \notin Reqs(outbox)
    BY NewRequest DEF PublishLater
<1>3. /\ outbox \in Seq(Item(Requests)) /\ Len(outbox) \in Nat /\ Distinct(outbox)
      /\ Reqs(outbox) \subseteq Requests
    BY <1>1, LenProperties, ReqsAreRequests DEF DataOK, OutboxInv
<1>4. PICK kept \in Seq(Item(Requests)) :
        /\ kept = IF r.qos > 0 THEN outbox_enqueue(outbox, r) ELSE outbox
        /\ Distinct(kept)
        /\ Reqs(kept) = IF r.qos > 0 THEN Reqs(outbox) \union {r} ELSE Reqs(outbox)
        /\ \A i \in 1 .. Len(outbox) : kept[i] = outbox[i]
        /\ Len(outbox) <= Len(kept) /\ Len(kept) \in Nat
        /\ InState(kept, {TRANSMITTED}) = InState(outbox, {TRANSMITTED})
        /\ InState(kept, {QUEUED, TRANSMITTED})
                \subseteq InState(outbox, {QUEUED, TRANSMITTED}) \union {r}
  <2>1. CASE r.qos > 0
    <3>1. PICK kept \in Seq(Item(Requests)) :
            /\ kept = outbox_enqueue(outbox, r) /\ Distinct(kept)
            /\ Reqs(kept) = Reqs(outbox) \union {r}
            /\ InState(kept, {TRANSMITTED}) = InState(outbox, {TRANSMITTED})
            /\ InState(kept, {QUEUED, TRANSMITTED})
                    \subseteq InState(outbox, {QUEUED, TRANSMITTED}) \union {r}
      BY <1>1, <1>2, StoreRequest
    <3>2. /\ outbox \in Seq(Item(Requests)) /\ kept = outbox_enqueue(outbox, r)
          /\ Len(outbox) \in Nat
      BY Zenon, <1>3, <3>1
    <3>3. Len(kept) = Len(outbox) + 1 /\ \A i \in 1 .. Len(outbox) : kept[i] = outbox[i]
      <4> DEFINE item == [req |-> r, pending |-> QUEUED]
      <4>1. item \in Item(Requests)
        BY DEF Item
      <4>2. kept = Append(outbox, item)
        BY <3>2 DEF outbox_enqueue
      <4> HIDE DEF item
      <4> QED
        BY <3>2, <4>1, <4>2, AppendProperties
    <3>4. Len(outbox) <= Len(kept) /\ Len(kept) \in Nat
      BY <3>2, <3>3
    <3> QED
      BY Zenon, <2>1, <3>1, <3>3, <3>4
  <2>2. CASE ~(r.qos > 0)
    BY <1>3, <2>2
  <2> QED
    BY <2>1, <2>2
<1>5. PICK n \in 0 .. Len(outbox) :
        /\ outbox' = outbox_delete_expired(kept, n)
        /\ status' = [no \in DOMAIN status |->
                    CASE no = r.no -> IF r.qos > 0 THEN "stored" ELSE "lost"
                      [] \E i \in 1 .. n : outbox[i].req.no = no -> "expired"
                      [] OTHER -> status[no]]
    BY <1>4 DEF PublishLater
<1> DEFINE old == {outbox[i].req : i \in 1 .. n}
<1>6. /\ outbox' \in Seq(Item(Requests)) /\ Distinct(outbox') /\ Reqs(outbox') = Reqs(kept) \ old
      /\ \A states : InState(outbox', states) \subseteq InState(kept, states)
  <2>1. n \in 0 .. Len(kept) /\ old = {kept[i].req : i \in 1 .. n}
    BY <1>3, <1>4
  <2> QED
    BY <1>4, <1>5, <2>1, ExpiredRemovesRequests
<1>7. old \subseteq Reqs(outbox)
    BY <1>3 DEF Reqs
<1>8. \A s \in Requests : StatusOf(s)' =
            IF s = r THEN IF r.qos > 0 THEN "stored" ELSE "lost"
            ELSE IF s \in old THEN "expired" ELSE StatusOf(s)
  <2> SUFFICES ASSUME NEW s \in Requests
               PROVE  StatusOf(s)' =
                        IF s = r THEN IF r.qos > 0 THEN "stored" ELSE "lost"
                        ELSE IF s \in old THEN "expired" ELSE StatusOf(s)
    OBVIOUS
  <2>1. (\E i \in 1 .. n : outbox[i].req.no = s.no) <=> s \in old
    <3>1. \A i \in 1 .. n : outbox[i].req \in Requests
      BY <1>3, <1>7
    <3> QED
      BY <3>1, RequestFacts
  <2>2. StatusOf(s)' =
            IF s.no = r.no THEN IF r.qos > 0 THEN "stored" ELSE "lost"
            ELSE IF \E i \in 1 .. n : outbox[i].req.no = s.no THEN "expired" ELSE StatusOf(s)
    <3>1. s.no \in DOMAIN status
      BY <1>1, RequestFacts DEF DataOK
    <3>2. status'[s.no] =
            CASE s.no = r.no -> IF r.qos > 0 THEN "stored" ELSE "lost"
              [] \E i \in 1 .. n : outbox[i].req.no = s.no -> "expired"
              [] OTHER -> status[s.no]
      BY Zenon, <1>5, <3>1
    <3>3. CASE s.no = r.no
      <4>1. ~\E i \in 1 .. n : outbox[i].req.no = s.no
        <5>1. s = r /\ s \notin old
          BY <1>2, <1>7, <3>3, RequestFacts
        <5> QED
          BY Zenon, <2>1, <5>1
      <4>2. status'[s.no] = IF r.qos > 0 THEN "stored" ELSE "lost"
        BY Zenon, <3>2, <3>3, <4>1
      <4> QED
        BY <3>3, <4>2 DEF StatusOf
    <3>4. CASE s.no # r.no /\ \E i \in 1 .. n : outbox[i].req.no = s.no
      BY Zenon, <3>2, <3>4 DEF StatusOf
    <3>5. CASE s.no # r.no /\ ~\E i \in 1 .. n : outbox[i].req.no = s.no
      BY Zenon, <3>2, <3>5 DEF StatusOf
    <3> QED
      BY Zenon, <3>3, <3>4, <3>5
  <2>3. s.no = r.no <=> s = r
    BY RequestFacts
  <2> QED
    BY <2>1, <2>2, <2>3
<1>9. status' \in [{s.no : s \in Requests} ->
            {"new", "stored", "sent", "acked", "expired", "purged", "lost"}]
    BY <1>1, <1>5 DEF DataOK
<1> HIDE DEF old
<1>10. UNCHANGED <<network, app, tried>> /\ At("started")
    BY DEF PublishLater
<1>11. DataOK'
    BY <1>1, <1>6, <1>9, <1>10 DEF DataOK, network
<1>12. OutboxInv'
  <2>1. ASSUME NEW s \in Requests
        PROVE  s \in Reqs(outbox') <=> StatusOf(s)' = "stored"
    BY <1>1, <1>2, <1>4, <1>6, <1>7, <1>8, <2>1 DEF OutboxInv
  <2> QED
    BY <1>6, <1>10, <2>1 DEF OutboxInv, At
<1>13. TriedInv'
    BY <1>1, <1>4, <1>6, <1>10 DEF TriedInv
<1>14. Settled
    BY <1>1, <1>2, <1>4, <1>6, <1>8, SettledByRequest
<1>15. WireInv'
    BY <1>1, <1>10, <1>14, SilenceKeepsWire DEF network
<1> QED
    BY <1>11, <1>12, <1>13, <1>15 DEF IInv

LEMMA PublishNowKeepsInv ==
    ASSUME IInv, NEW r \in Requests, PublishNow(r)
    PROVE  IInv'
<1>1. DataOK /\ OutboxInv /\ TriedInv /\ WireInv
    BY DEF IInv
<1>2. StatusOf(r) = "new" /\ r \notin Reqs(outbox) /\ ~Done(r) /\ r.type = PUBLISH
    BY NewRequest DEF PublishNow
<1>3. PICK ok \in BOOLEAN :
        LET kept == IF r.qos > 0 THEN outbox_enqueue(outbox, r) ELSE outbox
        IN  /\ outbox' = IF ok /\ r.qos > 0
                         THEN outbox_set_pending(kept, IdOf(r), TRANSMITTED) ELSE kept
            /\ status' = [status EXCEPT ![r.no] =
                            IF r.qos > 0 THEN "stored" ELSE IF ok THEN "sent" ELSE "lost"]
            /\ IF ok THEN Writes(Packet(r, FALSE)) /\ Kept ELSE WriteFails /\ Aborted
    BY DEF PublishNow
<1>4. UNCHANGED <<held, received, app>> /\ tried' = tried \union {r} /\ At("started")
    BY DEF PublishNow
<1>5. /\ outbox' \in Seq(Item(Requests)) /\ Distinct(outbox')
      /\ Reqs(outbox') = IF r.qos > 0 THEN Reqs(outbox) \union {r} ELSE Reqs(outbox)
      /\ \A states : InState(outbox', states) \subseteq InState(outbox, states) \union {r}
  <2>1. CASE r.qos > 0 /\ ok
    <3>1. outbox' = outbox_set_pending(outbox_enqueue(outbox, r), IdOf(r), TRANSMITTED)
      BY <1>3, <2>1
    <3>2. IdOf(r) # 0
      BY <1>2, <2>1, RequestFacts
    <3> QED
      BY <1>1, <1>2, <2>1, <3>1, <3>2, StoreTransmitted
  <2>2. CASE r.qos > 0 /\ ~ok
    <3>1. outbox' = outbox_enqueue(outbox, r)
      BY <1>3, <2>2
    <3> QED
      BY <1>1, <1>2, <2>2, <3>1, StoreRequest
  <2>3. CASE ~(r.qos > 0)
    BY <1>1, <1>3, <2>3 DEF DataOK, OutboxInv
  <2> QED
    BY <2>1, <2>2, <2>3
<1>6. PICK what \in {"stored", "sent", "lost"} :
        status' = [status EXCEPT ![r.no] = what] /\ (what = "stored" <=> r.qos > 0)
    BY <1>3
<1>7. StatusOf(r)' = what /\ \A s \in Requests : s # r => StatusOf(s)' = StatusOf(s)
    BY <1>1, <1>6, StatusChanges
<1>8. Packet(r, FALSE) \in PacketsOf(ToBroker)
    BY PacketTyped
<1>9. /\ up' = up \/ up' = Append(up, Packet(r, FALSE))
      /\ down' = down \/ down' = <<>>
    BY <1>3 DEF Writes, WriteFails, Kept, Aborted
<1>10. /\ up' \in Seq(PacketsOf(ToBroker)) /\ down' \in Seq(PacketsOf(ToClient))
       /\ ToSet(down') \subseteq ToSet(down)
    BY <1>1, <1>8, <1>9, UpGrows, DownShrinks
<1>11. status' \in [{s.no : s \in Requests} ->
            {"new", "stored", "sent", "acked", "expired", "purged", "lost"}]
    BY <1>1, <1>6 DEF DataOK
<1>12. DataOK'
    BY <1>1, <1>4, <1>5, <1>10, <1>11 DEF DataOK
<1>13. OutboxInv'
    BY <1>1, <1>2, <1>4, <1>5, <1>6, <1>7 DEF OutboxInv, At
<1>14. TriedInv'
    BY <1>1, <1>4, <1>5 DEF TriedInv
<1>15. Settled
    BY <1>1, <1>2, <1>5, <1>7, SettledByRequest
<1>16. Sends(Packet(r, FALSE))
    BY <1>4, <1>9, <1>10 DEF Sends
<1>17. WireInv'
    BY <1>1, <1>2, <1>7, <1>15, <1>16, RequestKeepsWire
<1> QED
    BY <1>12, <1>13, <1>14, <1>17 DEF IInv

LEMMA CheckConnectedKeepsInv ==
    ASSUME IInv, NEW r \in Requests, CheckConnected(r)
    PROVE  IInv'
<1>1. DataOK /\ OutboxInv /\ TriedInv /\ WireInv
    BY DEF IInv
<1>2. StatusOf(r) = "new" /\ r.type # PUBLISH /\ app'.req = {r}
    BY NewRequest DEF CheckConnected
<1>3. UNCHANGED <<outbox, network, status, tried>>
    BY DEF CheckConnected, client
<1>4. DataOK'
    BY <1>1, <1>2, <1>3 DEF DataOK, network
<1>5. OutboxInv' /\ TriedInv'
    BY <1>1, <1>2, <1>3 DEF OutboxInv, TriedInv, StatusOf
<1>6. Settled
    BY <1>1, <1>3, SettledIfUnchanged
<1>7. WireInv'
    BY <1>1, <1>3, <1>6, SilenceKeepsWire DEF network
<1> QED
    BY <1>4, <1>5, <1>7 DEF IInv

\* What was checked before the lock was taken still is when the lock is held.
LEMMA SubscribeKeepsInv ==
    ASSUME IInv, NEW r \in Requests, Subscribe(r)
    PROVE  IInv'
<1>1. DataOK /\ OutboxInv /\ TriedInv /\ WireInv
    BY DEF IInv
<1>2. StatusOf(r) = "new" /\ r.type # PUBLISH /\ r \notin Reqs(outbox) /\ ~Done(r)
    BY <1>1 DEF Subscribe, OutboxInv, Done
<1>3. /\ outbox' = outbox_set_pending(outbox_enqueue(outbox, r), IdOf(r), TRANSMITTED)
      /\ status' = [status EXCEPT ![r.no] = "stored"]
      /\ tried' = tried \union {r}
      /\ app' = [at |-> "started", req |-> {}]
      /\ UNCHANGED <<down, held, received>>
      /\ up' = up \/ up' = Append(up, Packet(r, FALSE))
    BY DEF Subscribe, GoApp, Writes, WriteFails
<1>4. IdOf(r) # 0
    BY <1>2, RequestFacts
<1>5. /\ outbox' \in Seq(Item(Requests)) /\ Distinct(outbox')
      /\ Reqs(outbox') = Reqs(outbox) \union {r}
      /\ \A states : InState(outbox', states) \subseteq InState(outbox, states) \union {r}
    BY <1>1, <1>2, <1>3, <1>4, StoreTransmitted
<1>6. StatusOf(r)' = "stored" /\ \A s \in Requests : s # r => StatusOf(s)' = StatusOf(s)
    BY <1>1, <1>3, StatusChanges
<1>7. Packet(r, FALSE) \in PacketsOf(ToBroker)
    BY PacketTyped
<1>8. up' \in Seq(PacketsOf(ToBroker))
    BY <1>1, <1>3, <1>7, UpGrows
<1>9. DataOK'
    BY <1>1, <1>3, <1>5, <1>8 DEF DataOK
<1>10. OutboxInv'
    BY <1>1, <1>3, <1>5, <1>6 DEF OutboxInv, At
<1>11. TriedInv'
    BY <1>1, <1>3, <1>5 DEF TriedInv
<1>12. Settled
    BY <1>1, <1>2, <1>5, <1>6, SettledByRequest
<1>13. Sends(Packet(r, FALSE))
    BY <1>3 DEF Sends
<1>14. WireInv'
    BY <1>1, <1>2, <1>6, <1>12, <1>13, RequestKeepsWire
<1> QED
    BY <1>9, <1>10, <1>11, <1>14 DEF IInv

-----------------------------------------------------------------------------
(* The broker and the network.                                             *)

LEMMA ReleasedHead ==
    ASSUME NEW T, NEW s \in Seq(T), s # <<>>, NEW id,
           ReleasedLast(s, id), Releases(Head(s), id)
    PROVE  \A q \in ToSet(Tail(s)) : ~Publishes(q, id)
<1>1. /\ Len(s) \in Nat /\ Len(s) # 0 /\ Head(s) = s[1]
      /\ Tail(s) \in Seq(T) /\ Len(Tail(s)) = Len(s) - 1
      /\ \A i \in 1 .. Len(Tail(s)) : Tail(s)[i] = s[i + 1]
      /\ DOMAIN Tail(s) = 1 .. Len(Tail(s))
    BY HeadTailProperties, LenProperties, EmptySeq
<1>2. ASSUME NEW i \in 1 .. Len(Tail(s))
      PROVE  ~Publishes(Tail(s)[i], id)
    BY <1>1 DEF ReleasedLast
<1> QED
    BY <1>1, <1>2 DEF ToSet

\* The broker takes a packet, and may answer with a.
LEMMA BrokerAnswers ==
    ASSUME IInv, up # <<>>, up' = Tail(up), UNCHANGED <<outbox, status, tried, app>>,
           NEW a \in PacketsOf(ToClient),
           down' = down \/ (down' = Append(down, a) /\ DownCaused(a)'),
           held' \subseteq Nat, received' \in [{r.no : r \in Requests} -> 0 .. 2],
           \A id : Arrived(id) => Arrived(id)',
           \A id : received[id] > 0 => received'[id] > 0
    PROVE  DataOK' /\ OutboxInv' /\ TriedInv' /\ CausedInv'
<1>1. DataOK /\ OutboxInv /\ TriedInv /\ WireInv
    BY DEF IInv
<1>2. up \in Seq(PacketsOf(ToBroker)) /\ down \in Seq(PacketsOf(ToClient))
    BY <1>1 DEF DataOK
<1>3. up' \in Seq(PacketsOf(ToBroker)) /\ ToSet(up') \subseteq ToSet(up)
    BY <1>2, HeadTailProperties, ToSetOfTail
<1>4. down' \in Seq(PacketsOf(ToClient))
  <2>1. Append(down, a) \in Seq(PacketsOf(ToClient))
    BY <1>2, AppendProperties
  <2> QED
    BY Zenon, <1>2, <2>1
<1>5. ASSUME NEW q \in ToSet(down')
      PROVE  q \in ToSet(down) \/ (q = a /\ DownCaused(a)')
  <2>1. ToSet(Append(down, a)) = ToSet(down) \union {a}
    BY <1>2, ToSetOfAppend
  <2> QED
    BY Zenon, <1>5, <2>1
<1>6. DataOK'
    BY <1>1, <1>3, <1>4 DEF DataOK
<1>7. OutboxInv' /\ TriedInv'
    BY <1>1 DEF OutboxInv, TriedInv, At, StatusOf
<1>8. \A id, qos : Known(id, qos) => Known(id, qos)'
    BY DEF Known, StatusOf
<1>9. \A q : (UpCaused(q) => UpCaused(q)') /\ (DownCaused(q) => DownCaused(q)')
    BY <1>8 DEF UpCaused, DownCaused
<1>10. CausedInv'
  <2>1. \A q \in ToSet(up') : UpCaused(q)'
    BY <1>1, <1>3, <1>9 DEF WireInv, CausedInv
  <2>2. \A q \in ToSet(down') : DownCaused(q)'
    BY <1>1, <1>5, <1>9 DEF WireInv, CausedInv
  <2> QED
    BY <2>1, <2>2 DEF CausedInv
<1> QED
    BY <1>6, <1>7, <1>10

LEMMA PassOnCounts ==
    ASSUME DataOK, NEW r \in Requests, PassOn(r.no)
    PROVE  /\ received' \in [{s.no : s \in Requests} -> 0 .. 2]
           /\ received'[r.no] > 0 /\ (received[r.no] = 0 => received'[r.no] = 1)
           /\ \A id : id # r.no => received'[id] = received[id]
           /\ \A id : received[id] > 0 => received'[id] > 0
<1>1. /\ r.no \in DOMAIN received /\ received[r.no] \in 0 .. 2
      /\ received \in [{s.no : s \in Requests} -> 0 .. 2]
    BY RequestFacts DEF DataOK
<1>2. received' = [received EXCEPT ![r.no] = IF @ < 2 THEN @ + 1 ELSE 2]
    BY DEF PassOn
<1>3. received'[r.no] > 0 /\ (received[r.no] = 0 => received'[r.no] = 1)
    BY <1>1, <1>2
<1>4. \A id : id # r.no => received'[id] = received[id]
    BY <1>1, <1>2
<1>5. received' \in [{s.no : s \in Requests} -> 0 .. 2]
    BY <1>1, <1>2
<1> QED
    BY <1>3, <1>4, <1>5

LEMMA BrokerKeepsInv ==
    ASSUME IInv, Broker
    PROVE  IInv'
<1>1. DataOK /\ OutboxInv /\ TriedInv /\ WireInv
    BY DEF IInv
<1>2. /\ up # <<>> /\ up' = Tail(up) /\ UNCHANGED <<outbox, status, tried, app>>
      /\ up \in Seq(PacketsOf(ToBroker)) /\ down \in Seq(PacketsOf(ToClient))
      /\ held \subseteq Nat /\ received \in [{r.no : r \in Requests} -> 0 .. 2]
    BY <1>1 DEF DataOK, Broker, client
<1>3. PICK p \in PacketsOf(ToBroker) : p = Head(up) /\ p \in ToSet(up) /\ UpCaused(p)
  <2>1. Head(up) \in PacketsOf(ToBroker) /\ Head(up) \in ToSet(up)
    BY <1>2, HeadTailProperties, ToSetOfTail
  <2> QED
    BY <1>1, <2>1 DEF WireInv, CausedInv
<1>4. p.id \in Nat
    BY DEF PacketsOf
<1>5. ToSet(up') \subseteq ToSet(up)
    BY <1>2, ToSetOfTail
<1>6. ASSUME NEW r \in Requests, r.type = PUBLISH, r.qos = 2
      PROVE  /\ OnceFor(r) /\ (Done(r) => Done(r)') /\ ReleasedLast(up', r.no)
             /\ Releases(p, r.no) => \A q \in ToSet(up') : ~Publishes(q, r.no)
  <2>1. OnceFor(r)
    BY <1>1, <1>6 DEF WireInv, OnceInv
  <2>2. Done(r) => Done(r)'
    BY <1>2 DEF Done, StatusOf
  <2>3. ReleasedLast(up', r.no)
    BY <1>2, <2>1, ReleasedLastOps DEF OnceFor
  <2>4. Releases(p, r.no) => \A q \in ToSet(up') : ~Publishes(q, r.no)
    BY <1>2, <1>3, <2>1, ReleasedHead DEF OnceFor
  <2> QED
    BY <2>1, <2>2, <2>3, <2>4
<1>7. ASSUME UNCHANGED <<received, held>>
      PROVE  CountedInv' /\ OnceInv'
  <2>1. CountedInv'
    BY <1>1, <1>2, <1>7 DEF WireInv, CountedInv, StatusOf
  <2>2. \A r \in Requests : r.type = PUBLISH /\ r.qos = 2 => OnceFor(r)'
    BY <1>5, <1>6, <1>7 DEF OnceFor
  <2> QED
    BY <2>1, <2>2 DEF OnceInv
<1>8. \/ p.type \in {"disconnect", PUBLISH} /\ UNCHANGED <<received, held, down>>
      \/ /\ p.type = PUBLISH /\ p.qos = 1
         /\ PassOn(p.id) /\ Answer(Control("puback", p.id)) /\ UNCHANGED held
      \/ /\ p.type = PUBLISH /\ p.qos = 2
         /\ held' = held \union {p.id}
         /\ Answer(Control("pubrec", p.id))
         /\ UNCHANGED received
      \/ /\ p.type = "pubrel"
         /\ IF p.id \in held THEN PassOn(p.id) ELSE UNCHANGED received
         /\ held' = held \ {p.id}
         /\ Answer(Control("pubcomp", p.id))
      \/ /\ p.type \in DOMAIN AnswerTo
         /\ Answer(Control(AnswerTo[p.type], p.id))
         /\ UNCHANGED <<received, held>>
    BY <1>3 DEF Broker
<1>9. CASE p.type \in {"disconnect", PUBLISH} /\ UNCHANGED <<received, held, down>>
  <2>1. Control("pingresp", 0) \in PacketsOf(ToClient)
    BY ControlTyped DEF ToClient
  <2>2. DataOK' /\ OutboxInv' /\ TriedInv' /\ CausedInv'
    BY <1>2, <1>9, <2>1, BrokerAnswers DEF Arrived
  <2> QED
    BY <1>7, <1>9, <2>2 DEF IInv, WireInv
<1>10. CASE /\ p.type = PUBLISH /\ p.qos = 1
            /\ PassOn(p.id) /\ Answer(Control("puback", p.id)) /\ UNCHANGED held
  <2>1. PICK s \in Requests :
            s.type = PUBLISH /\ s.no = p.id /\ s.qos = 1 /\ StatusOf(s) # "new"
    BY <1>3, <1>10 DEF UpCaused, Known
  <2>2. /\ received' \in [{r.no : r \in Requests} -> 0 .. 2]
        /\ received'[s.no] > 0
        /\ \A id : id # s.no => received'[id] = received[id]
        /\ \A id : received[id] > 0 => received'[id] > 0
    BY <1>1, <1>10, <2>1, PassOnCounts
  <2> DEFINE a == Control("puback", p.id)
  <2>3. a \in PacketsOf(ToClient) /\ a.type = "puback" /\ a.id = p.id
    BY <1>4, ControlTyped DEF ToClient, Control
  <2> HIDE DEF a
  <2>4. DownCaused(a)'
    <3>1. Known(p.id, 1)'
      BY <1>2, <2>1 DEF Known, StatusOf
    <3> QED
      BY <2>1, <2>2, <2>3, <3>1 DEF DownCaused
  <2>5. down' = down \/ down' = Append(down, a)
    BY <1>10 DEF Answer, a
  <2>6. \A id : Arrived(id) => Arrived(id)'
    BY <1>10, <2>2 DEF Arrived
  <2>7. DataOK' /\ OutboxInv' /\ TriedInv' /\ CausedInv'
    BY <1>2, <1>10, <2>2, <2>3, <2>4, <2>5, <2>6, BrokerAnswers
  <2>8. CountedInv'
    <3> SUFFICES ASSUME NEW r \in Requests
                 PROVE  /\ received'[r.no] > 0 => r.type = PUBLISH /\ r.qos > 0
                        /\ r.type = PUBLISH /\ StatusOf(r)' = "acked" => received'[r.no] > 0
      BY DEF CountedInv
    <3>1. CASE r = s
      BY <2>1, <2>2, <3>1
    <3>2. CASE r # s
      <4>1. received'[r.no] = received[r.no] /\ StatusOf(r)' = StatusOf(r)
        BY <1>2, <2>1, <2>2, <3>2, RequestFacts DEF StatusOf
      <4> QED
        BY <1>1, <4>1 DEF WireInv, CountedInv
    <3> QED
      BY <3>1, <3>2
  <2>9. ASSUME NEW r \in Requests, r.type = PUBLISH, r.qos = 2
        PROVE  OnceFor(r)'
    <3>1. received'[r.no] = received[r.no]
      BY <2>1, <2>2, <2>9, RequestFacts
    <3> QED
      BY <1>5, <1>6, <1>10, <2>9, <3>1 DEF OnceFor
  <2> QED
    BY <2>7, <2>8, <2>9 DEF IInv, WireInv, OnceInv
<1>11. CASE /\ p.type = PUBLISH /\ p.qos = 2
            /\ held' = held \union {p.id}
            /\ Answer(Control("pubrec", p.id))
            /\ UNCHANGED received
  <2>1. Known(p.id, 2) /\ Known(p.id, 2)'
    BY <1>2, <1>3, <1>11 DEF UpCaused, Known, StatusOf
  <2> DEFINE a == Control("pubrec", p.id)
  <2>2. a \in PacketsOf(ToClient) /\ a.type = "pubrec" /\ a.id = p.id
    BY <1>4, ControlTyped DEF ToClient, Control
  <2> HIDE DEF a
  <2>3. DownCaused(a)'
    BY <1>11, <2>1, <2>2 DEF DownCaused, Arrived
  <2>4. down' = down \/ down' = Append(down, a)
    BY <1>11 DEF Answer, a
  <2>5. \A id : Arrived(id) => Arrived(id)'
    BY <1>11 DEF Arrived
  <2>6. DataOK' /\ OutboxInv' /\ TriedInv' /\ CausedInv'
    BY <1>2, <1>4, <1>11, <2>2, <2>3, <2>4, <2>5, BrokerAnswers
  <2>7. CountedInv'
    BY <1>1, <1>2, <1>11 DEF WireInv, CountedInv, StatusOf
  <2>8. ASSUME NEW r \in Requests, r.type = PUBLISH, r.qos = 2
        PROVE  OnceFor(r)'
    <3>1. received[r.no] = 1 => r.no # p.id
      BY <1>3, <1>6, <1>11, <2>8 DEF OnceFor, Publishes
    <3> QED
      BY <1>5, <1>6, <1>11, <2>8, <3>1 DEF OnceFor
  <2> QED
    BY <2>6, <2>7, <2>8 DEF IInv, WireInv, OnceInv
<1>12. CASE /\ p.type = "pubrel"
            /\ IF p.id \in held THEN PassOn(p.id) ELSE UNCHANGED received
            /\ held' = held \ {p.id}
            /\ Answer(Control("pubcomp", p.id))
  <2>1. PICK s \in Requests :
            s.type = PUBLISH /\ s.no = p.id /\ s.qos = 2 /\ StatusOf(s) # "new"
    BY <1>3, <1>12 DEF UpCaused, Known
  <2>2. OnceFor(s) /\ Releases(p, s.no) /\ received[s.no] \in 0 .. 2
    BY <1>2, <1>6, <1>12, <2>1, RequestFacts DEF Releases
  <2>3. /\ received' \in [{r.no : r \in Requests} -> 0 .. 2]
        /\ received'[s.no] = 1
        /\ \A id : id # s.no => received'[id] = received[id]
        /\ \A id : received[id] > 0 => received'[id] > 0
    <3>1. CASE p.id \in held
      <4>1. received[s.no] = 0
        BY <2>1, <2>2, <3>1 DEF OnceFor
      <4> QED
        BY <1>1, <1>12, <2>1, <3>1, <4>1, PassOnCounts
    <3>2. CASE p.id \notin held
      <4>1. received[s.no] > 0
        BY <1>3, <1>12, <2>1, <3>2 DEF UpCaused, Arrived
      <4> QED
        BY <1>2, <1>12, <2>2, <3>2, <4>1 DEF OnceFor
    <3> QED
      BY <3>1, <3>2
  <2> DEFINE a == Control("pubcomp", p.id)
  <2>4. a \in PacketsOf(ToClient) /\ a.type = "pubcomp" /\ a.id = p.id
    BY <1>4, ControlTyped DEF ToClient, Control
  <2> HIDE DEF a
  <2>5. DownCaused(a)'
    <3>1. Known(p.id, 2)'
      BY <1>2, <2>1 DEF Known, StatusOf
    <3> QED
      BY <2>1, <2>3, <2>4, <3>1 DEF DownCaused
  <2>6. down' = down \/ down' = Append(down, a)
    BY <1>12 DEF Answer, a
  <2>7. \A id : Arrived(id) => Arrived(id)'
    BY <1>12, <2>1, <2>3 DEF Arrived
  <2>8. held' \subseteq Nat
    BY <1>2, <1>12
  <2>9. DataOK' /\ OutboxInv' /\ TriedInv' /\ CausedInv'
    BY <1>2, <2>3, <2>4, <2>5, <2>6, <2>7, <2>8, BrokerAnswers
  <2>10. CountedInv'
    <3> SUFFICES ASSUME NEW r \in Requests
                 PROVE  /\ received'[r.no] > 0 => r.type = PUBLISH /\ r.qos > 0
                        /\ r.type = PUBLISH /\ StatusOf(r)' = "acked" => received'[r.no] > 0
      BY DEF CountedInv
    <3>1. CASE r = s
      BY <2>1, <2>3, <3>1
    <3>2. CASE r # s
      <4>1. received'[r.no] = received[r.no] /\ StatusOf(r)' = StatusOf(r)
        BY <1>2, <2>1, <2>3, <3>2, RequestFacts DEF StatusOf
      <4> QED
        BY <1>1, <4>1 DEF WireInv, CountedInv
    <3> QED
      BY <3>1, <3>2
  <2>11. ASSUME NEW r \in Requests, r.type = PUBLISH, r.qos = 2
         PROVE  OnceFor(r)'
    <3>1. CASE r = s
      <4>1. Done(r)'
        BY <1>3, <1>6, <2>2, <2>11, <3>1 DEF OnceFor
      <4>2. \A q \in ToSet(up') : ~Publishes(q, r.no)
        BY <1>6, <2>2, <2>11, <3>1
      <4>3. r.no \notin held'
        BY <1>12, <2>1, <3>1
      <4> QED
        BY <1>6, <2>3, <2>11, <3>1, <4>1, <4>2, <4>3 DEF OnceFor
    <3>2. CASE r # s
      <4>1. received'[r.no] = received[r.no]
        BY <2>3, <3>2, RequestFacts
      <4> QED
        BY <1>5, <1>6, <1>12, <2>11, <4>1 DEF OnceFor
    <3> QED
      BY <3>1, <3>2
  <2> QED
    BY <2>9, <2>10, <2>11 DEF IInv, WireInv, OnceInv
<1>13. CASE /\ p.type \in DOMAIN AnswerTo
            /\ Answer(Control(AnswerTo[p.type], p.id))
            /\ UNCHANGED <<received, held>>
  <2>1. PICK type \in {"suback", "unsuback", "pingresp"} : type = AnswerTo[p.type]
    BY <1>13 DEF AnswerTo
  <2> DEFINE a == Control(type, p.id)
  <2>2. a \in PacketsOf(ToClient) /\ a.type = type
    BY <1>4, ControlTyped DEF ToClient, Control
  <2> HIDE DEF a
  <2>3. DownCaused(a)'
    BY <2>2 DEF DownCaused
  <2>4. down' = down \/ down' = Append(down, a)
    BY <1>13, <2>1 DEF Answer, a
  <2>5. DataOK' /\ OutboxInv' /\ TriedInv' /\ CausedInv'
    BY <1>2, <1>13, <2>2, <2>3, <2>4, BrokerAnswers DEF Arrived
  <2> QED
    BY <1>7, <1>13, <2>5 DEF IInv, WireInv
<1> QED
    BY <1>8, <1>9, <1>10, <1>11, <1>12, <1>13

LEMMA BreakKeepsInv ==
    ASSUME IInv, Break
    PROVE  IInv'
<1>1. DataOK /\ OutboxInv /\ TriedInv /\ WireInv
    BY DEF IInv
<1>2. UNCHANGED <<outbox, status, tried, app, held, received>>
    BY DEF Break, client
<1>3. PICK n \in 0 .. Len(up), m \in 0 .. Len(down) :
        up' = SubSeq(up, 1, n) /\ down' = SubSeq(down, 1, m)
    BY DEF Break
<1>4. up \in Seq(PacketsOf(ToBroker)) /\ down \in Seq(PacketsOf(ToClient))
    BY <1>1 DEF DataOK
<1>5. /\ up' \in Seq(PacketsOf(ToBroker)) /\ ToSet(up') \subseteq ToSet(up)
      /\ down' \in Seq(PacketsOf(ToClient)) /\ ToSet(down') \subseteq ToSet(down)
    BY <1>3, <1>4, ToSetOfPrefix
<1>6. DataOK'
    BY <1>1, <1>2, <1>5 DEF DataOK
<1>7. OutboxInv' /\ TriedInv'
    BY <1>1, <1>2 DEF OutboxInv, TriedInv, At, StatusOf
<1>8. CausedInv'
  <2>1. \A q : (UpCaused(q) => UpCaused(q)') /\ (DownCaused(q) => DownCaused(q)')
    BY <1>2 DEF UpCaused, DownCaused, Known, Arrived, StatusOf
  <2> QED
    BY <1>1, <1>5, <2>1 DEF WireInv, CausedInv
<1>9. CountedInv'
    BY <1>1, <1>2 DEF WireInv, CountedInv, StatusOf
<1>10. ASSUME NEW r \in Requests, r.type = PUBLISH, r.qos = 2
       PROVE  OnceFor(r)'
  <2>1. OnceFor(r) /\ (Done(r) => Done(r)')
    BY <1>1, <1>2, <1>10 DEF WireInv, OnceInv, Done, StatusOf
  <2>2. ReleasedLast(up', r.no)
    BY <1>3, <1>4, <2>1, ReleasedLastOps DEF OnceFor
  <2> QED
    BY <1>2, <1>5, <2>1, <2>2 DEF OnceFor
<1> QED
    BY <1>6, <1>7, <1>8, <1>9, <1>10 DEF IInv, WireInv, OnceInv

-----------------------------------------------------------------------------
(* All actions.                                                            *)

LEMMA QuietTask ==
    ASSUME NEW t \in Tasks,
           \/ Run(t) \/ EnterInit(t) \/ ClearStopped(t) \/ Loop(t) \/ IdlePass(t)
           \/ BeginConnect(t) \/ ConnectFails(t) \/ WaitOver(t) \/ WaitOn(t)
           \/ DisconnectAsked(t) \/ ReceiveNothing(t) \/ ReceiveFails(t) \/ ReceivePingResp(t)
           \/ ResendNothing(t) \/ Ping(t) \/ PingTimeout(t) \/ KeepaliveNothing(t)
           \/ Poll(t) \/ PollFails(t) \/ Close(t) \/ Signal(t) \/ End(t)
    PROVE  Quiet
<1> USE DEF Quiet, network, client
<1>1. CASE Run(t) \/ EnterInit(t) \/ ClearStopped(t) \/ Loop(t) \/ IdlePass(t) \/ BeginConnect(t)
    BY <1>1 DEF Run, EnterInit, ClearStopped, Loop, IdlePass, BeginConnect
<1>2. CASE ConnectFails(t) \/ WaitOver(t) \/ WaitOn(t)
    BY <1>2 DEF ConnectFails, WaitOver, WaitOn, Aborted
<1>3. CASE DisconnectAsked(t) \/ Ping(t)
    BY <1>3 DEF DisconnectAsked, Ping, Writes, WriteFails, Aborted
<1>4. CASE ReceiveNothing(t) \/ ReceiveFails(t) \/ ReceivePingResp(t)
    BY <1>4 DEF ReceiveNothing, ReceiveFails, ReceivePingResp, Aborted
<1>5. CASE ResendNothing(t) \/ PingTimeout(t) \/ KeepaliveNothing(t) \/ Poll(t) \/ PollFails(t)
    BY <1>5 DEF ResendNothing, PingTimeout, KeepaliveNothing, Poll, PollFails, Aborted
<1>6. CASE Close(t) \/ Signal(t) \/ End(t)
    BY <1>6 DEF Close, Signal, End
<1> QED
    BY <1>1, <1>2, <1>3, <1>4, <1>5, <1>6

LEMMA QuietApp ==
    ASSUME (\E t \in Tasks : Start(t)) \/ Disconnect \/ Stop \/ Stopped \/ UNCHANGED vars
    PROVE  Quiet
<1> USE DEF Quiet, network, client, GoApp
<1>1. CASE (\E t \in Tasks : Start(t)) \/ Disconnect \/ Stopped
    BY <1>1 DEF Start, Disconnect, Stopped
<1>2. CASE Stop
    BY <1>2 DEF Stop, Writes, WriteFails
<1>3. CASE UNCHANGED vars
    BY <1>3 DEF vars
<1> QED
    BY <1>1, <1>2, <1>3

LEMMA InitInv == Init => IInv
<1> SUFFICES ASSUME Init
             PROVE  IInv
    OBVIOUS
<1> USE DEF Init
<1>1. Len(outbox) = 0
    OBVIOUS
<1>2. Reqs(outbox) = {} /\ Distinct(outbox) /\ \A states : InState(outbox, states) = {}
    BY <1>1 DEF Reqs, Distinct, InState
<1>3. ToSet(up) = {} /\ ToSet(down) = {} /\ \A id : ReleasedLast(up, id)
    BY ToSetOfEmpty, ReleasedLastOfEmpty
<1>4. \A r \in Requests : StatusOf(r) = "new" /\ received[r.no] = 0
    BY RequestFacts DEF StatusOf
<1>5. DataOK
    BY EmptySeq DEF DataOK
<1>6. OutboxInv /\ TriedInv
    BY <1>2, <1>4 DEF OutboxInv, TriedInv, At
<1>7. WireInv
    BY <1>3, <1>4 DEF WireInv, CausedInv, CountedInv, OnceInv, OnceFor
<1> QED
    BY <1>5, <1>6, <1>7 DEF IInv

LEMMA StepKeepsInv == IInv /\ [Next]_vars => IInv'
<1> SUFFICES ASSUME IInv, [Next]_vars
             PROVE  IInv'
    OBVIOUS
<1>1. ASSUME NEW t \in Tasks, Task(t)
      PROVE  IInv'
  <2>1. CASE Connect(t)
    BY <2>1, ConnectKeepsInv
  <2>2. CASE ReceiveAck(t)
    BY <2>2, ReceiveAckKeepsInv
  <2>3. CASE ReceiveRec(t)
    BY <2>3, ReceiveRecKeepsInv
  <2>4. CASE Expire(t)
    BY <2>4, ExpireKeepsInv
  <2>5. CASE ResendQueued(t)
    BY <2>5, ResendQueuedKeepsInv
  <2>6. CASE Retransmit(t)
    BY <2>6, RetransmitKeepsInv
  <2>7. CASE Purge(t)
    BY <2>7, PurgeKeepsInv
  <2>8. CASE Quiet
    BY <2>8, QuietKeepsInv
  <2> QED
    BY <1>1, <2>1, <2>2, <2>3, <2>4, <2>5, <2>6, <2>7, <2>8, QuietTask DEF Task, Receive
<1>2. ASSUME App
      PROVE  IInv'
  <2>1. ASSUME NEW r \in Requests, PublishLater(r) \/ PublishNow(r) \/ Enqueue(r)
                                    \/ CheckConnected(r) \/ Subscribe(r)
        PROVE  IInv'
    BY <2>1, PublishLaterKeepsInv, PublishNowKeepsInv, EnqueueKeepsInv,
       CheckConnectedKeepsInv, SubscribeKeepsInv
  <2>2. CASE Quiet
    BY <2>2, QuietKeepsInv
  <2> QED
    BY <1>2, <2>1, <2>2, QuietApp DEF App
<1>3. CASE Broker
    BY <1>3, BrokerKeepsInv
<1>4. CASE Break
    BY <1>4, BreakKeepsInv
<1>5. CASE UNCHANGED vars
    BY <1>5, QuietApp, QuietKeepsInv
<1> QED
    BY <1>1, <1>2, <1>3, <1>4, <1>5 DEF Next

\* The invariant, of every behaviour.
THEOREM Invariant == Spec => []IInv
BY InitInv, StepKeepsInv, PTL DEF Spec

-----------------------------------------------------------------------------
(* The properties.                                                         *)

\* A request that was stored is in the outbox, once, until it is acknowledged,
\* expires or is purged (mqtt_outbox.c, remove_initiator_message).
THEOREM StoredIsAccounted == Spec => []Accounted
<1>1. IInv => Accounted
  <2> SUFFICES ASSUME IInv, NEW r \in Requests
               PROVE  Cardinality({i \in DOMAIN outbox : outbox[i].req = r})
                        = IF StatusOf(r) = "stored" THEN 1 ELSE 0
    BY DEF Accounted
  <2>1. /\ Distinct(outbox) /\ (r \in Reqs(outbox) <=> StatusOf(r) = "stored")
        /\ DOMAIN outbox = 1 .. Len(outbox)
    BY LenProperties DEF IInv, OutboxInv, DataOK
  <2> DEFINE I == {i \in 1 .. Len(outbox) : outbox[i].req = r}
  <2>2. CASE r \in Reqs(outbox)
    <3>1. PICK k \in 1 .. Len(outbox) : outbox[k].req = r
      BY <2>2 DEF Reqs
    <3>2. I = {k}
      BY <2>1, <3>1 DEF Distinct
    <3>3. Cardinality(I) = 1
      BY <3>2, FS_Singleton
    <3> QED
      BY <2>1, <2>2, <3>3
  <2>3. CASE r \notin Reqs(outbox)
    <3>1. I = {}
      BY <2>3 DEF Reqs
    <3>2. Cardinality(I) = 0
      BY <3>1, FS_EmptySet
    <3> QED
      BY <2>1, <2>3, <3>2
  <2> QED
    BY <2>2, <2>3
<1> QED
    BY <1>1, Invariant, PTL

\* What is reported as published was passed on by the broker, however often
\* it was repeated and the connection lost (MQTT_EVENT_PUBLISHED).
THEOREM PublishedIsTrue == Spec => []PublishedWasReceived
<1>1. IInv => PublishedWasReceived
    BY DEF IInv, WireInv, CountedInv, PublishedWasReceived
<1> QED
    BY <1>1, Invariant, PTL

\* The broker passes a QoS 2 message on at most once (mqtt_process_receive,
\* mqtt_resend_queued).
THEOREM QosTwoOnce == Spec => []AtMostOnce
<1>1. IInv => AtMostOnce
  <2> SUFFICES ASSUME IInv, NEW r \in Requests, r.qos = 2
               PROVE  received[r.no] <= 1
    BY DEF AtMostOnce
  <2>1. CASE r.type = PUBLISH
    BY <2>1 DEF IInv, WireInv, OnceInv, OnceFor
  <2>2. CASE r.type # PUBLISH
    <3>1. received[r.no] \in 0 .. 2
      BY RequestFacts DEF IInv, DataOK
    <3>2. ~(received[r.no] > 0)
      BY <2>2 DEF IInv, WireInv, CountedInv
    <3> QED
      BY <3>1, <3>2
  <2> QED
    BY <2>1, <2>2
<1> QED
    BY <1>1, Invariant, PTL

\* Only a message that was written before is marked as a duplicate: of all
\* packets that are added to the wire, only those of Retransmit are, and what
\* it repeats is marked as transmitted (mqtt_resend_queued).
THEOREM DuplicatesWereTried == Spec => DupWasTried
<1>1. ASSUME IInv, [Next]_vars, Len(up') > Len(up), up'[Len(up')].dup
      PROVE  \E r \in tried : r.no = up'[Len(up')].id
  <2>1. up \in Seq(PacketsOf(ToBroker)) /\ Len(up) \in Nat
    BY <1>1, LenProperties DEF IInv, DataOK
  <2>2. ASSUME NEW p \in PacketsOf(ToBroker), up' = up \/ up' = Append(up, p)
        PROVE  p.dup /\ p = up'[Len(up')]
    <3>1. up' # up
      BY <1>1, <2>1
    <3>2. up' = Append(up, p)
      BY Zenon, <2>2, <3>1
    <3>3. up'[Len(up')] = p
      BY <2>1, <3>2, AppendProperties
    <3> QED
      BY <1>1, <3>3
  <2>3. ASSUME NEW r \in Requests, up' = up \/ up' = Append(up, Packet(r, FALSE))
        PROVE  FALSE
    <3>1. Packet(r, FALSE) \in PacketsOf(ToBroker) /\ ~Packet(r, FALSE).dup
      BY PacketTyped DEF Packet
    <3> QED
      BY <2>2, <2>3, <3>1
  <2>4. ASSUME NEW type \in ToBroker, NEW id \in Nat, up' = up \/ up' = Append(up, Control(type, id))
        PROVE  FALSE
    <3>1. Control(type, id) \in PacketsOf(ToBroker) /\ ~Control(type, id).dup
      BY ControlTyped DEF Control
    <3> QED
      BY <2>2, <2>4, <3>1
  <2>5. ASSUME Quiet
        PROVE  FALSE
    BY <2>4, <2>5 DEF Quiet, ToBroker
  <2>6. ASSUME UNCHANGED up
        PROVE  FALSE
    BY <1>1, <2>1, <2>6
  <2>7. ASSUME NEW t \in Tasks, Task(t), ~Retransmit(t)
        PROVE  FALSE
    <3>1. CASE Connect(t)
      <4>1. Len(up') = 0
        BY <3>1 DEF Connect
      <4> QED
        BY <1>1, <2>1, <4>1
    <3>2. CASE ReceiveAck(t) \/ Purge(t) \/ Expire(t)
      BY <2>6, <3>2 DEF ReceiveAck, Purge, Expire, network
    <3>3. CASE ReceiveRec(t)
      <4>1. PICK p \in PacketsOf(ToClient) : p = Head(down)
        <5>1. down \in Seq(PacketsOf(ToClient)) /\ down # <<>>
          BY <1>1, <3>3 DEF IInv, DataOK, ReceiveRec
        <5> QED
          BY <5>1, HeadTailProperties
      <4>2. p.id \in Nat
        BY DEF PacketsOf
      <4>3. up' = up \/ up' = Append(up, Control("pubrel", p.id))
        BY <3>3, <4>1 DEF ReceiveRec, Writes, WriteFails
      <4> QED
        BY <2>4, <4>2, <4>3 DEF ToBroker
    <3>4. CASE ResendQueued(t)
      <4>1. PICK r \in Requests : r = outbox[outbox_dequeue(outbox, QUEUED)].req
        BY <1>1, <3>4, DequeuedRequest DEF ResendQueued
      <4>2. up' = up \/ up' = Append(up, Packet(r, FALSE))
        BY <3>4, <4>1 DEF ResendQueued, Writes, WriteFails
      <4> QED
        BY <2>3, <4>2
    <3> QED
      BY <2>5, <2>7, <3>1, <3>2, <3>3, <3>4, QuietTask DEF Task, Receive
  <2>8. ASSUME App
        PROVE  FALSE
    <3>1. ASSUME NEW r \in Requests, PublishLater(r) \/ Enqueue(r) \/ CheckConnected(r)
          PROVE  FALSE
      BY <2>6, <3>1 DEF PublishLater, Enqueue, CheckConnected, network
    <3>2. ASSUME NEW r \in Requests, PublishNow(r) \/ Subscribe(r)
          PROVE  FALSE
      <4>1. up' = up \/ up' = Append(up, Packet(r, FALSE))
        BY <3>2 DEF PublishNow, Subscribe, Writes, WriteFails
      <4> QED
        BY <2>3, <4>1
    <3> QED
      BY <2>5, <2>8, <3>1, <3>2, QuietApp DEF App
  <2>9. ASSUME Broker
        PROVE  FALSE
    <3>1. Len(up') = Len(up) - 1
      BY <2>1, <2>9, HeadTailProperties DEF Broker
    <3> QED
      BY <1>1, <2>1, <3>1
  <2>10. ASSUME Break
         PROVE  FALSE
    <3>1. PICK n \in 0 .. Len(up) : up' = SubSeq(up, 1, n)
      BY <2>10 DEF Break
    <3>2. Len(up') = n
      BY <2>1, <3>1, ToSetOfPrefix
    <3> QED
      BY <1>1, <2>1, <3>2
  <2>11. PICK t \in Tasks : Retransmit(t)
    BY <1>1, <2>5, <2>7, <2>8, <2>9, <2>10, QuietApp DEF Next
  <2>12. PICK r \in Requests :
            /\ r = outbox[outbox_dequeue(outbox, TRANSMITTED)].req
            /\ r \in InState(outbox, {TRANSMITTED})
    BY <1>1, <2>11, DequeuedRequest DEF Retransmit
  <2>13. PICK dup \in BOOLEAN : dup = (r.type = PUBLISH /\ r.qos > 0)
    OBVIOUS
  <2>14. up' = up \/ up' = Append(up, Packet(r, dup))
    BY <2>11, <2>12, <2>13 DEF Retransmit, Writes, WriteFails
  <2>15. Packet(r, dup).dup /\ Packet(r, dup) = up'[Len(up')]
    BY <2>2, <2>14, PacketTyped
  <2>16. r.type = PUBLISH /\ r.qos > 0 /\ Packet(r, dup).id = IdOf(r)
    BY <2>13, <2>15 DEF Packet
  <2>17. IdOf(r) = r.no /\ IdOf(r) # 0
    BY <2>16, RequestFacts
  <2>18. r \in tried
    BY <1>1, <2>12, <2>17 DEF IInv, TriedInv
  <2> QED
    BY <2>15, <2>16, <2>17, <2>18
<1>2. IInv /\ [Next]_vars =>
        [Len(up') > Len(up) /\ up'[Len(up')].dup => \E r \in tried : r.no = up'[Len(up')].id]_vars
    BY <1>1
<1> QED
    BY <1>2, Invariant, PTL DEF Spec, DupWasTried

-----------------------------------------------------------------------------
(* The types, and who holds the lock.                                      *)

ControlOK ==
    /\ state \in {"INIT", "DISCONNECTED", "CONNECTED", "WAIT_RECONNECT"}
    /\ run \in BOOLEAN /\ waiting \in BOOLEAN
    /\ bits \subseteq {"STOPPED", "DISCONNECT"}
    /\ task \in [Tasks -> Places]
    /\ app \in [at : {"stopped", "started", "checked", "stopping"}, req : SUBSET Requests]
    /\ link \in {"down", "up", "broken"}
    /\ faults \in Nat
    /\ \A t \in Tasks : api_lock = t <=> task[t] \in {"connect", "resend", "keepalive"}

LEMMA TasksAreNumbers == Nobody \notin Tasks
BY BoundsAssumption DEF Nobody, Tasks

LEMMA TaskKeepsControl ==
    ASSUME ControlOK, NEW t \in Tasks, Task(t)
    PROVE  ControlOK'
<1> USE TasksAreNumbers DEF ControlOK, Goto, Unlock, CanPass, Places, network, client
<1>1. CASE Run(t) \/ EnterInit(t) \/ ClearStopped(t) \/ Close(t) \/ Purge(t) \/ Signal(t) \/ End(t)
    BY <1>1 DEF Run, EnterInit, ClearStopped, Close, Purge, Signal, End
<1>2. CASE Loop(t) \/ IdlePass(t) \/ Poll(t) \/ WaitOn(t) \/ WaitOver(t)
    BY <1>2 DEF Loop, IdlePass, Poll, WaitOn, WaitOver, NextPass
<1>3. CASE BeginConnect(t)
    BY <1>3 DEF BeginConnect
<1>4. CASE Connect(t)
    BY <1>4 DEF Connect
<1>5. CASE ConnectFails(t) \/ PingTimeout(t)
  <2>1. faults' \in Nat /\ Aborted /\ Unlock(t) /\ UNCHANGED <<run, bits, app>>
    BY <1>5 DEF ConnectFails, PingTimeout
  <2>2. task[t] \in {"connect", "keepalive"}
    BY <1>5 DEF ConnectFails, PingTimeout
  <2> QED
    BY <2>1, <2>2 DEF Aborted
<1>6. CASE DisconnectAsked(t) \/ ReceiveFails(t) \/ PollFails(t)
    BY <1>6 DEF DisconnectAsked, Receiving, ReceiveFails, PollFails, Aborted, NextPass
<1>7. CASE ReceiveNothing(t) \/ ReceiveAck(t) \/ ReceiveRec(t) \/ ReceivePingResp(t)
    BY <1>7 DEF ReceiveNothing, ReceiveAck, ReceiveRec, ReceivePingResp, Receiving, Proceed
<1>8. CASE Expire(t)
    BY <1>8 DEF Expire
<1>9. CASE ResendQueued(t) \/ Retransmit(t)
    BY <1>9 DEF ResendQueued, Retransmit, Kept, Aborted
<1>10. CASE ResendNothing(t) \/ KeepaliveNothing(t)
    BY <1>10 DEF ResendNothing, KeepaliveNothing
<1>11. CASE Ping(t)
    BY <1>11 DEF Ping, Aborted
<1> QED
    BY <1>1, <1>2, <1>3, <1>4, <1>5, <1>6, <1>7, <1>8, <1>9, <1>10, <1>11 DEF Task, Receive

LEMMA OthersKeepControl ==
    ASSUME ControlOK, App \/ Broker \/ Break \/ UNCHANGED vars
    PROVE  ControlOK'
<1> USE DEF ControlOK, Goto, GoApp, network, client
<1>1. CASE \E t \in Tasks : Start(t)
    BY <1>1 DEF Start, Places
<1>2. ASSUME NEW r \in Requests, PublishLater(r) \/ PublishNow(r) \/ Enqueue(r)
                                  \/ CheckConnected(r) \/ Subscribe(r)
      PROVE  ControlOK'
  <2>1. CASE PublishLater(r) \/ Enqueue(r)
    BY <2>1 DEF PublishLater, Enqueue
  <2>2. CASE PublishNow(r)
    <3>1. /\ UNCHANGED <<run, bits, api_lock, faults, task, app>>
          /\ Kept \/ Aborted
      BY <2>2 DEF PublishNow
    <3> QED
      BY <3>1 DEF Kept, Aborted
  <2>3. CASE CheckConnected(r)
    BY <2>3 DEF CheckConnected
  <2>4. CASE Subscribe(r)
    BY <2>4 DEF Subscribe
  <2> QED
    BY <1>2, <2>1, <2>2, <2>3, <2>4
<1>3. CASE Disconnect \/ Stop \/ Stopped
  <2>1. CASE Disconnect
    BY <2>1 DEF Disconnect
  <2>2. CASE Stop
    BY <2>2 DEF Stop
  <2>3. CASE Stopped
    BY <2>3 DEF Stopped
  <2> QED
    BY <1>3, <2>1, <2>2, <2>3
<1>4. CASE Broker
    BY <1>4 DEF Broker
<1>5. CASE Break
    BY <1>5 DEF Break
<1>6. CASE UNCHANGED vars
    BY <1>6 DEF vars
<1> QED
    BY <1>1, <1>2, <1>3, <1>4, <1>5, <1>6 DEF App

\* The types; and the lock is held by a task in the middle of a pass, and by
\* no other: every way out of a pass unlocks it (esp_mqtt_task).
THEOREM TypeCorrect == Spec => []TypeOK
<1>1. Init => ControlOK
  <2> SUFFICES ASSUME Init
               PROVE  ControlOK
    OBVIOUS
  <2>1. \A t \in Tasks : task[t] = "none" /\ api_lock # t
    BY TasksAreNumbers DEF Init
  <2>2. task \in [Tasks -> Places]
    BY DEF Init, Places
  <2> QED
    BY <2>1, <2>2 DEF Init, ControlOK
<1>2. ControlOK /\ [Next]_vars => ControlOK'
    BY TaskKeepsControl, OthersKeepControl DEF Next
<1>3. Spec => []ControlOK
    BY <1>1, <1>2, PTL DEF Spec
<1>4. ControlOK /\ IInv => TypeOK
    BY DEF ControlOK, IInv, DataOK, TypeOK
<1> QED
    BY <1>3, <1>4, Invariant, PTL

-----------------------------------------------------------------------------
(* The client implements MqttDelivery.                                     *)

Delivers == [Delivery!Next]_(Delivery!vars)

LEMMA Undisturbed ==
    ASSUME UNCHANGED <<status, received>>
    PROVE  Delivers
BY DEF Delivers, Delivery!vars

\* What the definitions of MqttDelivery are here.
LEMMA DeliveryTerms ==
    ASSUME DataOK
    PROVE  /\ DOMAIN status = {r.no : r \in Requests}
           /\ Delivery!Stored = {no \in DOMAIN status : status[no] = "stored"}
           /\ \A r : Delivery!Unconfirmed(r) <=> r.type = PUBLISH /\ r.qos = 0
           /\ \A r : Delivery!Tracked(r) <=> r.type = PUBLISH /\ r.qos > 0
           /\ \A gone, what : Delivery!Given(gone, what) =
                [no \in DOMAIN status |-> IF no \in gone THEN what ELSE status[no]]
           /\ Delivery!Given({}, "expired") = status
BY DEF DataOK, Delivery!Stored, Delivery!Unconfirmed, Delivery!Tracked, Delivery!Given,
       PUBLISH, Delivery!PUBLISH

\* A request that is asked for, when no other expires.
LEMMA AskAlone ==
    ASSUME DataOK, NEW r \in Requests, StatusOf(r) = "new", UNCHANGED received,
           NEW what, what = "stored" \/ (r.type = PUBLISH /\ r.qos = 0 /\ what \in {"sent", "lost"}),
           status' = [status EXCEPT ![r.no] = what]
    PROVE  Delivers
<1>1. what \in IF Delivery!Unconfirmed(r) THEN {"stored", "sent", "lost"} ELSE {"stored"}
  BY DeliveryTerms
<1>2. status' = [Delivery!Given({}, "expired") EXCEPT ![r.no] = what]
  BY DeliveryTerms
<1>3. {} \in SUBSET Delivery!Stored
  OBVIOUS
<1>4. Delivery!Ask(r)
  BY <1>1, <1>2, <1>3 DEF Delivery!Ask, StatusOf
<1> QED
  BY <1>4 DEF Delivers, Delivery!Next

LEMMA PurgeDelivers ==
    ASSUME IInv, NEW t \in Tasks, Purge(t)
    PROVE  Delivers
<1>1. DataOK
  BY DEF IInv
<1>2. status' = Delivery!Given(Delivery!Stored, "purged")
  BY <1>1 DEF DataOK, Purge, Delivery!Given, Delivery!Stored
<1>3. Delivery!GiveUp
  BY <1>2 DEF Delivery!GiveUp, Purge, network
<1> QED
  BY <1>3 DEF Delivers, Delivery!Next

\* The n oldest items of the outbox are requests that are waited for.
LEMMA OldAreStored ==
    ASSUME IInv, NEW n \in 0 .. Len(outbox),
           NEW old, old = {outbox[i].req.no : i \in 1 .. n}
    PROVE  /\ old \in SUBSET Delivery!Stored
           /\ \A no : no \in old <=> \E i \in 1 .. n : outbox[i].req.no = no
<1>1. DataOK /\ OutboxInv /\ outbox \in Seq(Item(Requests)) /\ Len(outbox) \in Nat
  BY LenProperties DEF IInv, DataOK
<1>2. ASSUME NEW i \in 1 .. n
      PROVE  outbox[i].req.no \in Delivery!Stored
  <2>1. outbox[i].req \in Reqs(outbox) /\ outbox[i].req \in Requests
    BY <1>1, <1>2, ReqsAreRequests DEF Reqs
  <2>2. StatusOf(outbox[i].req) = "stored"
    BY <1>1, <2>1 DEF OutboxInv
  <2> QED
    BY <1>1, <2>1, <2>2, DeliveryTerms DEF StatusOf
<1> QED
  BY <1>2

LEMMA ExpireDelivers ==
    ASSUME IInv, NEW t \in Tasks, Expire(t)
    PROVE  Delivers
<1>1. DataOK /\ Len(outbox) \in Nat
  BY LenProperties DEF IInv, DataOK
<1>2. PICK n \in 0 .. Len(outbox) : DeleteExpired(n)
  BY <1>1 DEF Expire
<1>3. PICK old : old = {outbox[i].req.no : i \in 1 .. n}
  OBVIOUS
<1>4. /\ old \in SUBSET Delivery!Stored
      /\ \A no : no \in old <=> \E i \in 1 .. n : outbox[i].req.no = no
  BY <1>3, OldAreStored
<1>5. status' = Delivery!Given(old, "expired")
  BY ONLY <1>2, <1>4 DEF DeleteExpired, Delivery!Given
<1>6. Delivery!GiveUp
  BY <1>4, <1>5 DEF Delivery!GiveUp, Expire, network
<1> QED
  BY <1>6 DEF Delivers, Delivery!Next

LEMMA ReceiveAckDelivers ==
    ASSUME IInv, NEW t \in Tasks, ReceiveAck(t)
    PROVE  Delivers
<1>1. PICK p, type : p = Head(down) /\ type = Acknowledged[p.type]
  OBVIOUS
<1>2. /\ status' = IF Initiator(outbox, p.id, type) = 0 THEN status
                   ELSE [status EXCEPT ![p.id] = "acked"]
      /\ UNCHANGED received
  BY <1>1 DEF ReceiveAck, Settle
<1>3. CASE Initiator(outbox, p.id, type) = 0
  BY <1>2, <1>3, Undisturbed
<1>4. CASE Initiator(outbox, p.id, type) # 0
  <2>1. PICK req \in Requests :
            /\ req \in Reqs(outbox) /\ req.no = p.id
            /\ req.type = PUBLISH => received[req.no] > 0
    BY <1>1, <1>4, AcknowledgedRequest DEF ReceiveAck
  <2>2. StatusOf(req) = "stored" /\ DataOK
    BY <2>1 DEF IInv, OutboxInv
  <2>3. req.type = PUBLISH => Delivery!Tracked(req)
    BY <2>1, <2>2, DeliveryTerms DEF IInv, WireInv, CountedInv
  <2>4. Delivery!Confirm(req)
    BY <1>2, <1>4, <2>1, <2>2, <2>3 DEF Delivery!Confirm, StatusOf, PUBLISH, Delivery!PUBLISH
  <2> QED
    BY <2>4 DEF Delivers, Delivery!Next
<1> QED
  BY <1>3, <1>4

LEMMA SentDelivers ==
    ASSUME IInv, NEW req \in Requests, StatusOf(req) = "stored",
           Sent(req) \/ UNCHANGED status, UNCHANGED received
    PROVE  Delivers
<1>1. CASE UNCHANGED status
  BY <1>1, Undisturbed
<1>2. CASE Sent(req) /\ Unacknowledged(req)
  <2>1. Delivery!Unconfirmed(req)
    BY <1>2, DeliveryTerms DEF IInv, Unacknowledged
  <2>2. Delivery!SendOnly(req)
    BY <1>2, <2>1 DEF Delivery!SendOnly, Sent, StatusOf
  <2> QED
    BY <2>2 DEF Delivers, Delivery!Next
<1> QED
  BY <1>1, <1>2 DEF Sent

LEMMA ResendDelivers ==
    ASSUME IInv, NEW t \in Tasks, ResendQueued(t) \/ Retransmit(t)
    PROVE  Delivers
<1>1. CASE ResendQueued(t)
  <2>1. PICK req \in Requests :
          /\ req = outbox[outbox_dequeue(outbox, QUEUED)].req /\ StatusOf(req) = "stored"
    BY <1>1, DequeuedRequest DEF ResendQueued
  <2>2. (Sent(req) \/ UNCHANGED status) /\ UNCHANGED received
    BY <1>1, <2>1 DEF ResendQueued
  <2> QED
    BY <2>1, <2>2, SentDelivers
<1>2. CASE Retransmit(t)
  <2>1. PICK req \in Requests :
          /\ req = outbox[outbox_dequeue(outbox, TRANSMITTED)].req /\ StatusOf(req) = "stored"
    BY <1>2, DequeuedRequest DEF Retransmit
  <2>2. (Sent(req) \/ UNCHANGED status) /\ UNCHANGED received
    BY <1>2, <2>1 DEF Retransmit
  <2> QED
    BY <2>1, <2>2, SentDelivers
<1> QED
  BY <1>1, <1>2

LEMMA AskDelivers ==
    ASSUME IInv, NEW r \in Requests, PublishNow(r) \/ Enqueue(r) \/ Subscribe(r)
    PROVE  Delivers
<1>1. DataOK /\ OutboxInv
  BY DEF IInv
<1>2. CASE PublishNow(r)
  <2>1. PICK ok \in BOOLEAN : status' = [status EXCEPT ![r.no] =
            IF r.qos > 0 THEN "stored" ELSE IF ok THEN "sent" ELSE "lost"]
    BY <1>2 DEF PublishNow
  <2>2. r.type = PUBLISH /\ UNCHANGED received /\ StatusOf(r) = "new"
    BY <1>2 DEF PublishNow, IsNew
  <2>3. r.qos > 0 \/ r.qos = 0
    BY RequestFacts
  <2> QED
    BY <1>1, <2>1, <2>2, <2>3, AskAlone
<1>3. CASE Enqueue(r)
  <2>1. /\ status' = [status EXCEPT ![r.no] = "stored"]
        /\ UNCHANGED received /\ StatusOf(r) = "new"
    BY <1>3 DEF Enqueue, IsNew, network
  <2> QED
    BY <1>1, <2>1, AskAlone
<1>4. CASE Subscribe(r)
  <2>1. /\ status' = [status EXCEPT ![r.no] = "stored"]
        /\ UNCHANGED received /\ StatusOf(r) = "new"
    BY <1>1, <1>4 DEF Subscribe, OutboxInv
  <2> QED
    BY <1>1, <2>1, AskAlone
<1> QED
  BY <1>2, <1>3, <1>4

LEMMA PublishLaterDelivers ==
    ASSUME IInv, NEW r \in Requests, PublishLater(r)
    PROVE  Delivers
<1> DEFINE what == IF r.qos > 0 THEN "stored" ELSE "lost"
<1>1. DataOK /\ StatusOf(r) = "new" /\ r.type = PUBLISH /\ UNCHANGED received
  BY DEF IInv, PublishLater, IsNew, network
<1>2. PICK n \in 0 .. Len(outbox) : status' = [no \in DOMAIN status |->
                    CASE no = r.no -> what
                      [] \E i \in 1 .. n : outbox[i].req.no = no -> "expired"
                      [] OTHER -> status[no]]
  BY DEF PublishLater
<1>3. PICK old : old = {outbox[i].req.no : i \in 1 .. n}
  OBVIOUS
<1>4. /\ old \in SUBSET Delivery!Stored
      /\ \A no : no \in old <=> \E i \in 1 .. n : outbox[i].req.no = no
  BY <1>3, OldAreStored
<1>5. what \in IF Delivery!Unconfirmed(r) THEN {"stored", "sent", "lost"} ELSE {"stored"}
  BY <1>1, DeliveryTerms, RequestFacts
<1> HIDE DEF what
<1>6. status' = [Delivery!Given(old, "expired") EXCEPT ![r.no] = what]
  <2>1. \A no \in DOMAIN status :
            (CASE no = r.no -> what
               [] \E i \in 1 .. n : outbox[i].req.no = no -> "expired"
               [] OTHER -> status[no])
              = IF no = r.no THEN what ELSE IF no \in old THEN "expired" ELSE status[no]
    <3>1. r.no \notin old
      BY <1>1, <1>4 DEF Delivery!Stored, StatusOf
    <3> QED
      BY ONLY <1>4, <3>1
  <2>2. status' = [no \in DOMAIN status |->
            IF no = r.no THEN what ELSE IF no \in old THEN "expired" ELSE status[no]]
    BY ONLY <1>2, <2>1
  <2>3. Delivery!Given(old, "expired") =
            [no \in DOMAIN status |-> IF no \in old THEN "expired" ELSE status[no]]
    BY DEF Delivery!Given
  <2> QED
    BY ONLY <2>2, <2>3
<1>7. Delivery!Ask(r)
  BY <1>1, <1>4, <1>5, <1>6 DEF Delivery!Ask, StatusOf
<1> QED
  BY <1>7 DEF Delivers, Delivery!Next

\* The broker passes on a message that was asked for, a QoS 2 message once.
LEMMA BrokerDelivers ==
    ASSUME IInv, Broker
    PROVE  Delivers
<1>1. DataOK /\ WireInv /\ UNCHANGED status
  BY DEF IInv, Broker
<1>2. PICK p : p = Head(up) /\ UpCaused(p)
  <2>1. up \in Seq(PacketsOf(ToBroker)) /\ up # <<>>
    BY <1>1 DEF DataOK, Broker
  <2>2. Head(up) \in ToSet(up)
    BY <2>1, HeadTailProperties, ToSetOfTail
  <2> QED
    BY <1>1, <2>2 DEF WireInv, CausedInv
<1>3. \/ UNCHANGED received
      \/ p.type = PUBLISH /\ p.qos = 1 /\ PassOn(p.id)
      \/ p.type = "pubrel" /\ p.id \in held /\ PassOn(p.id)
  BY <1>2 DEF Broker
<1>4. CASE UNCHANGED received
  BY <1>1, <1>4, Undisturbed
<1>5. CASE p.type = PUBLISH /\ p.qos = 1 /\ PassOn(p.id)
  <2>1. PICK r \in Requests :
          r.type = PUBLISH /\ r.no = p.id /\ r.qos = 1 /\ StatusOf(r) # "new"
    BY <1>2, <1>5 DEF UpCaused, Known
  <2>2. Delivery!PassOn(r)
    BY <1>1, <1>5, <2>1, DeliveryTerms DEF Delivery!PassOn, PassOn, StatusOf
  <2> QED
    BY <2>2 DEF Delivers, Delivery!Next
<1>6. CASE p.type = "pubrel" /\ p.id \in held /\ PassOn(p.id)
  <2>1. PICK r \in Requests :
          r.type = PUBLISH /\ r.no = p.id /\ r.qos = 2 /\ StatusOf(r) # "new"
    BY <1>2, <1>6 DEF UpCaused, Known
  <2>2. received[r.no] = 0
    <3>1. received[r.no] \in 0 .. 2
      BY <1>1, RequestFacts DEF DataOK
    <3>2. OnceFor(r)
      BY <1>1, <2>1 DEF WireInv, OnceInv
    <3> QED
      BY <1>6, <2>1, <3>1, <3>2 DEF OnceFor
  <2>3. Delivery!PassOn(r)
    BY <1>1, <1>6, <2>1, <2>2, DeliveryTerms DEF Delivery!PassOn, PassOn, StatusOf
  <2> QED
    BY <2>3 DEF Delivers, Delivery!Next
<1> QED
  BY <1>3, <1>4, <1>5, <1>6

LEMMA StepDelivers == IInv /\ [Next]_vars => Delivers
<1> SUFFICES ASSUME IInv, [Next]_vars
             PROVE  Delivers
  OBVIOUS
<1>1. Quiet => Delivers
  BY Undisturbed DEF Quiet
<1>2. ASSUME NEW t \in Tasks, Task(t)
      PROVE  Delivers
  <2>1. CASE Connect(t) \/ ReceiveRec(t)
    BY <2>1, Undisturbed DEF Connect, ReceiveRec
  <2>2. CASE ReceiveAck(t)
    BY <2>2, ReceiveAckDelivers
  <2>3. CASE Expire(t)
    BY <2>3, ExpireDelivers
  <2>4. CASE ResendQueued(t) \/ Retransmit(t)
    BY <2>4, ResendDelivers
  <2>5. CASE Purge(t)
    BY <2>5, PurgeDelivers
  <2> QED
    BY <1>1, <1>2, <2>1, <2>2, <2>3, <2>4, <2>5, QuietTask DEF Task, Receive
<1>3. ASSUME App
      PROVE  Delivers
  <2>1. ASSUME NEW r \in Requests, PublishLater(r) \/ PublishNow(r) \/ Enqueue(r)
                                    \/ CheckConnected(r) \/ Subscribe(r)
        PROVE  Delivers
    <3>1. CASE CheckConnected(r)
      BY <3>1, Undisturbed DEF CheckConnected, network
    <3> QED
      BY <2>1, <3>1, PublishLaterDelivers, AskDelivers
  <2> QED
    BY <1>1, <1>3, <2>1, QuietApp DEF App
<1>4. CASE Broker
  BY <1>4, BrokerDelivers
<1>5. CASE Break
  BY <1>5, Undisturbed DEF Break
<1>6. CASE UNCHANGED vars
  BY <1>1, <1>6, QuietApp
<1> QED
  BY <1>2, <1>3, <1>4, <1>5, <1>6 DEF Next

\* Whatever the application asks for and the network does, each request goes
\* through the fates of MqttDelivery: kept until it is confirmed, expired or
\* purged, confirmed only after the broker passed it on, and passed on once if
\* its quality of service is 2.
THEOREM ClientImplementsDelivery == Spec => ImplementsDelivery
<1>1. Init => Delivery!Init
  BY DEF Init, Delivery!Init, Delivery!Numbers
<1>2. IInv /\ [Next]_vars => [Delivery!Next]_(Delivery!vars)
  BY StepDelivers DEF Delivers
<1> QED
  BY <1>1, <1>2, Invariant, PTL DEF Spec, ImplementsDelivery, Delivery!Spec
=============================================================================
