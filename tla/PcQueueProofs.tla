---------------------------- MODULE PcQueueProofs ----------------------------
(***************************************************************************)
(* Theorems about PcQueue with one thread on each side, for any capacity   *)
(* and any requests: what the three critical sections of a call leave open *)
(* does no harm.  With several consumers the theorems are false, see       *)
(* NothingTakenFromEmpty.                                                  *)
(***************************************************************************)
EXTENDS PcQueue, Integers, Sequences, FiniteSetTheorems, SequenceTheorems, TLAPS

(* The number of elements between tail and head, without cardinalities.    *)
Between(p, c) == (size + (IF pc[p] = "put_count" THEN 1 ELSE 0))
                    - (IF pc[c] = "take_count" THEN 1 ELSE 0)

(* A slot counted from the tail.                                           *)
SlotAt(i) == (tail + i) % Capacity

(* What a call of the producer and the consumer knows about the size       *)
(* between its critical sections: the other side can only make it better.  *)
RoomPromised(p) == pc[p] \in {"put_store", "put_count"} => size < Capacity
ElemPromised(c) == pc[c] \in {"take_read", "take_count"} => size > 0

(* Head is where the elements that began at tail end.                      *)
HeadFollows(p, c) == head = SlotAt(Between(p, c))

ElementsStored(p, c) ==
    /\ \A i \in 0 .. Between(p, c) - 1 : buffer[SlotAt(i)] \in Elem
    /\ pc[p] # "waits_for_request" => elem[p] \in Elem

(* The inductive invariant for producer p and consumer c.                  *)
QInv(p, c) == /\ TypeOK
              /\ pc[p] \in PutLabel /\ pc[c] \in TakeLabel
              /\ RoomPromised(p) /\ ElemPromised(c)
              /\ Between(p, c) \in 0 .. Capacity
              /\ HeadFollows(p, c)
              /\ ElementsStored(p, c)

(* The only threads.                                                       *)
OneEach(p, c) == Producer = {p} /\ Consumer = {c}

-------------------------------------------------------------------------------
(* Indices of the ring: at most one turn behind the first slot.            *)
LEMMA ModOfRing ==
    ASSUME NEW n \in Nat \ {0}
    PROVE  \A x \in Nat : x < n + n => x % n = IF x < n THEN x ELSE x - n
<1>1. ASSUME NEW x \in Nat, x < n
      PROVE  x % n = x
  BY <1>1
<1>2. ASSUME NEW x \in Nat, n <= x, x < n + n
      PROVE  x % n = x - n
  BY <1>2
<1>3. ASSUME NEW x \in Nat, x < n + n
      PROVE  x % n = IF x < n THEN x ELSE x - n
  <2>1. CASE x < n
    BY <1>1, <2>1
  <2>2. CASE ~(x < n)
    <3>1. n <= x
      BY <2>2
    <3> QED
      BY <1>2, <1>3, <2>2, <3>1
  <2> QED
    BY <2>1, <2>2
<1> QED
  BY <1>3

(* The slots of up to Capacity elements are as many slots, and each lies   *)
(* behind the one before it.                                               *)
LEMMA RingSlots ==
    ASSUME NEW t \in Slot
    PROVE  /\ \A i \in 0 .. Capacity : (t + i) % Capacity \in Slot
           /\ \A i \in 0 .. Capacity - 1 :
                 /\ (((t + i) % Capacity) + 1) % Capacity = (t + (i + 1)) % Capacity
                 /\ (((t + 1) % Capacity) + i) % Capacity = (t + (i + 1)) % Capacity
           /\ \A i, j \in 0 .. Capacity - 1 :
                 (t + i) % Capacity = (t + j) % Capacity => i = j
<1> DEFINE Pos(x) == x % Capacity
<1>1. Capacity \in Nat \ {0} /\ t \in Nat /\ t < Capacity
  BY PcQueueAssumption DEF Slot
<1>2. \A x \in Nat : x < Capacity + Capacity =>
          Pos(x) = IF x < Capacity THEN x ELSE x - Capacity
  BY <1>1, ModOfRing
<1> HIDE DEF Pos
<1>3. \A i \in 0 .. Capacity : Pos(t + i) \in Slot
  BY <1>1, <1>2 DEF Slot
<1>4. \A i, j \in 0 .. Capacity - 1 : Pos(t + i) = Pos(t + j) => i = j
  BY <1>1, <1>2
<1>5. \A i \in 0 .. Capacity - 1 : /\ Pos(Pos(t + i) + 1) = Pos(t + (i + 1))
                                 /\ Pos(Pos(t + 1) + i) = Pos(t + (i + 1))
  BY <1>1, <1>2
<1> QED
  BY <1>3, <1>4, <1>5 DEF Pos

(* The two threads.                                                        *)
LEMMA TwoThreads ==
    ASSUME NEW p, NEW c, OneEach(p, c)
    PROVE  p # c /\ Thread = {p, c} /\ p \notin Consumer /\ c \notin Producer
BY PcQueueAssumption DEF OneEach, Thread

(* Stored, which counts threads, is Between.                               *)
LEMMA StoredIsBetween ==
    ASSUME NEW p, NEW c, OneEach(p, c), QInv(p, c)
    PROVE  Stored = Between(p, c)
<1>1. p # c /\ Thread = {p, c} /\ pc[p] \in PutLabel /\ pc[c] \in TakeLabel
  BY TwoThreads DEF QInv
<1>2. /\ At("put_count") = IF pc[p] = "put_count" THEN {p} ELSE {}
      /\ At("take_count") = IF pc[c] = "take_count" THEN {c} ELSE {}
  BY <1>1 DEF At, PutLabel, TakeLabel
<1>3. Cardinality({p}) = 1 /\ Cardinality({c}) = 1 /\ Cardinality({}) = 0
  BY FS_Singleton, FS_EmptySet
<1> QED
  BY <1>2, <1>3 DEF Stored, Between

-------------------------------------------------------------------------------
(* Every step keeps the invariant.                                         *)

LEMMA InitInv ==
    ASSUME NEW p, NEW c, OneEach(p, c)
    PROVE  Init => QInv(p, c)
<1> SUFFICES ASSUME Init PROVE QInv(p, c)
  OBVIOUS
<1> USE PcQueueAssumption, TwoThreads DEF Init
<1>1. pc[p] = "waits_for_request" /\ pc[c] = "take_check"
  BY DEF OneEach
<1>2. 0 \in Slot /\ Capacity \in Nat \ {0}
  BY DEF Slot
<1>3. TypeOK
  BY <1>2 DEF TypeOK, PutLabel, TakeLabel
<1>4. Between(p, c) = 0
  BY <1>1 DEF Between
<1>5. 0 % Capacity = 0
  BY <1>2, ModOfRing
<1>6. HeadFollows(p, c)
  BY <1>4, <1>5 DEF HeadFollows, SlotAt
<1>7. RoomPromised(p) /\ ElemPromised(c) /\ ElementsStored(p, c)
  BY <1>1, <1>4 DEF RoomPromised, ElemPromised, ElementsStored
<1> QED
  BY <1>1, <1>2, <1>3, <1>4, <1>6, <1>7 DEF QInv, PutLabel, TakeLabel

(* Steps outside the counting and copying critical sections.               *)
LEMMA QuietStep ==
    ASSUME NEW p, NEW c, OneEach(p, c), QInv(p, c),
           UNCHANGED <<buffer, head, tail, size, ret>>,
           pc' \in [Thread -> PutLabel \cup TakeLabel],
           pc'[p] \in PutLabel, pc'[c] \in TakeLabel,
           pc'[p] = "put_count" <=> pc[p] = "put_count",
           pc'[c] = "take_count" <=> pc[c] = "take_count",
           RoomPromised(p)', ElemPromised(c)',
           elem' \in [Producer -> Elem \cup {NoElem}],
           pc'[p] # "waits_for_request" => elem'[p] \in Elem
    PROVE  QInv(p, c)' /\ Between(p, c)' = Between(p, c)
<1>1. Between(p, c)' = Between(p, c)
  BY DEF Between
<1>2. HeadFollows(p, c)'
  BY <1>1 DEF QInv, HeadFollows, SlotAt
<1>3. ElementsStored(p, c)'
  BY <1>1 DEF QInv, ElementsStored, SlotAt
<1>4. TypeOK'
  BY DEF QInv, TypeOK
<1> QED
  BY <1>1, <1>2, <1>3, <1>4 DEF QInv

LEMMA QuietStepInv ==
    ASSUME NEW p, NEW c, OneEach(p, c), QInv(p, c),
           \/ PutCall(p) \/ PutCheck(p) \/ TakeCheck(c) \/ Served(c)
           \/ \E t \in Thread : SpuriousWake(t)
           \/ UNCHANGED vars
    PROVE  QInv(p, c)' /\ Between(p, c)' = Between(p, c) /\ UNCHANGED <<buffer, tail, ret>>
<1> USE PcQueueAssumption DEF PutLabel, TakeLabel
<1>1. /\ p # c /\ Thread = {p, c} /\ Producer = {p} /\ Consumer = {c}
      /\ pc \in [Thread -> PutLabel \cup TakeLabel]
      /\ elem \in [Producer -> Elem \cup {NoElem}]
      /\ size \in 0 .. Capacity
      /\ pc[p] \in PutLabel /\ pc[c] \in TakeLabel
      /\ RoomPromised(p) /\ ElemPromised(c)
      /\ pc[p] # "waits_for_request" => elem[p] \in Elem
  BY TwoThreads DEF OneEach, QInv, TypeOK, ElementsStored
<1>2. CASE PutCall(p)
  <2>1. PICK e \in Elem :
            /\ elem' = [elem EXCEPT ![p] = e]
            /\ pc' = [pc EXCEPT ![p] = "put_check"]
            /\ pc[p] = "waits_for_request"
            /\ UNCHANGED <<buffer, head, tail, size, ret>>
    BY <1>2 DEF PutCall, Goto
  <2>2. RoomPromised(p)' /\ ElemPromised(c)'
    BY <1>1, <2>1 DEF RoomPromised, ElemPromised
  <2> QED
    BY <1>1, <2>1, <2>2, QuietStep
<1>3. CASE PutCheck(p)
  <2>1. /\ pc[p] = "put_check"
        /\ pc' = [pc EXCEPT ![p] = IF size = Capacity THEN "put_asleep" ELSE "put_store"]
        /\ UNCHANGED <<buffer, head, tail, size, elem, ret>>
    BY <1>3 DEF PutCheck, Goto
  <2>2. RoomPromised(p)' /\ ElemPromised(c)'
    BY <1>1, <2>1 DEF RoomPromised, ElemPromised
  <2> QED
    BY <1>1, <2>1, <2>2, QuietStep
<1>4. CASE TakeCheck(c)
  <2>1. /\ pc[c] = "take_check"
        /\ pc' = [pc EXCEPT ![c] = IF size = 0 THEN "take_asleep" ELSE "take_read"]
        /\ UNCHANGED <<buffer, head, tail, size, elem, ret>>
    BY <1>4 DEF TakeCheck, Goto
  <2>2. RoomPromised(p)' /\ ElemPromised(c)'
    BY <1>1, <2>1 DEF RoomPromised, ElemPromised
  <2> QED
    BY <1>1, <2>1, <2>2, QuietStep
<1>5. CASE Served(c)
  <2>1. /\ pc[c] = "serves"
        /\ pc' = [pc EXCEPT ![c] = "take_check"]
        /\ UNCHANGED <<buffer, head, tail, size, elem, ret>>
    BY <1>5 DEF Served, Goto
  <2>2. RoomPromised(p)' /\ ElemPromised(c)'
    BY <1>1, <2>1 DEF RoomPromised, ElemPromised
  <2> QED
    BY <1>1, <2>1, <2>2, QuietStep
<1>6. CASE \E t \in Thread : SpuriousWake(t)
  <2>1. PICK t \in Thread :
            /\ pc[t] \in {"put_asleep", "take_asleep"}
            /\ pc' = [pc EXCEPT ![t] = Recheck(t)]
            /\ UNCHANGED <<buffer, head, tail, size, elem, ret>>
    BY <1>6 DEF SpuriousWake, Goto
  <2>2. \/ t = p /\ pc[p] = "put_asleep" /\ Recheck(t) = "put_check"
        \/ t = c /\ pc[c] = "take_asleep" /\ Recheck(t) = "take_check"
    BY <1>1, <2>1 DEF Recheck
  <2>3. RoomPromised(p)' /\ ElemPromised(c)'
    BY <1>1, <2>1, <2>2 DEF RoomPromised, ElemPromised
  <2> QED
    BY <1>1, <2>1, <2>2, <2>3, QuietStep
<1>7. CASE UNCHANGED vars
  <2>1. RoomPromised(p)' /\ ElemPromised(c)'
    BY <1>1, <1>7 DEF RoomPromised, ElemPromised, vars
  <2> QED
    BY <1>1, <1>7, <2>1, QuietStep DEF vars
<1> QED
  BY <1>2, <1>3, <1>4, <1>5, <1>6, <1>7

(* A count moves on and may wake the other thread.                         *)
LEMMA SignalStep ==
    ASSUME NEW t \in Thread, NEW u, t # u, Thread = {t, u},
           NEW label \in PutLabel \cup TakeLabel, NEW asleep, pc[t] # asleep,
           Recheck(u) \in PutLabel \cup TakeLabel,
           pc \in [Thread -> PutLabel \cup TakeLabel],
           GotoAndSignal(t, label, asleep)
    PROVE  /\ pc' \in [Thread -> PutLabel \cup TakeLabel]
           /\ pc'[t] = label
           /\ pc'[u] = pc[u] \/ (pc[u] = asleep /\ pc'[u] = Recheck(u))
<1>1. CASE At(asleep) = {}
  <2>1. pc' = [pc EXCEPT ![t] = label]
    BY <1>1 DEF GotoAndSignal, Goto
  <2>2. pc' \in [Thread -> PutLabel \cup TakeLabel] /\ pc'[t] = label
    BY <2>1
  <2>3. pc'[u] = pc[u]
    BY <2>1
  <2> QED
    BY <2>2, <2>3
<1>2. CASE At(asleep) # {}
  <2>1. PICK s \in At(asleep) : pc' = [pc EXCEPT ![t] = label, ![s] = Recheck(s)]
    BY <1>2 DEF GotoAndSignal
  <2>2. s = u /\ pc[u] = asleep
    BY <2>1 DEF At
  <2> QED
    BY <2>1, <2>2
<1> QED
  BY <1>1, <1>2

LEMMA PutStoreInv ==
    ASSUME NEW p, NEW c, OneEach(p, c), QInv(p, c), PutStore(p)
    PROVE  /\ QInv(p, c)'
           /\ Between(p, c) < Capacity /\ Between(p, c)' = Between(p, c) + 1
           /\ UNCHANGED <<tail, ret>> /\ elem[p] \in Elem
           /\ \A i \in 0 .. Between(p, c) - 1 : buffer'[SlotAt(i)] = buffer[SlotAt(i)]
           /\ buffer'[SlotAt(Between(p, c))] = elem[p]
<1> USE PcQueueAssumption
<1> DEFINE n == Between(p, c)
<1>1. /\ p # c /\ Thread = {p, c} /\ Producer = {p} /\ Consumer = {c}
      /\ TypeOK /\ tail \in Slot /\ head \in Slot
      /\ pc \in [Thread -> PutLabel \cup TakeLabel]
      /\ buffer \in [Slot -> Elem \cup {NoElem}]
      /\ size \in 0 .. Capacity
      /\ pc[c] \in TakeLabel
      /\ RoomPromised(p) /\ ElemPromised(c)
      /\ n \in 0 .. Capacity /\ head = SlotAt(n)
      /\ ElementsStored(p, c)
  BY TwoThreads DEF OneEach, QInv, TypeOK, HeadFollows
<1>2. /\ pc[p] = "put_store"
      /\ buffer' = [buffer EXCEPT ![head] = elem[p]]
      /\ head' = (head + 1) % Capacity
      /\ pc' = [pc EXCEPT ![p] = "put_count"]
      /\ UNCHANGED <<tail, size, elem, ret>>
  BY DEF PutStore, Goto
<1>3. pc'[p] = "put_count" /\ pc'[c] = pc[c]
      /\ pc' \in [Thread -> PutLabel \cup TakeLabel]
  BY <1>1, <1>2 DEF PutLabel
<1>4. n < Capacity /\ Between(p, c)' = n + 1
  BY <1>1, <1>2, <1>3 DEF Between, RoomPromised
<1>5. elem[p] \in Elem
  BY <1>1, <1>2 DEF ElementsStored
<1>6. \A i \in 0 .. n - 1 : SlotAt(i) # head
  <2>1. n \in 0 .. Capacity - 1 /\ \A i \in 0 .. n - 1 : i \in 0 .. Capacity - 1 /\ i # n
    BY <1>1, <1>4
  <2> HIDE DEF n
  <2> QED
    BY <1>1, <2>1, RingSlots DEF SlotAt
<1>7. \A i \in 0 .. n - 1 : SlotAt(i) \in Slot /\ buffer'[SlotAt(i)] = buffer[SlotAt(i)]
  <2>1. \A i \in 0 .. n - 1 : i \in 0 .. Capacity
    BY <1>1
  <2>2. \A i \in 0 .. n - 1 : SlotAt(i) \in Slot
    BY <1>1, <2>1, RingSlots DEF SlotAt
  <2> QED
    BY <1>1, <1>2, <1>6, <2>2
<1>8. buffer'[SlotAt(n)] = elem[p]
  BY <1>1, <1>2
<1>9. HeadFollows(p, c)'
  <2>1. n \in 0 .. Capacity - 1
    BY <1>1, <1>4
  <2>2. (SlotAt(n) + 1) % Capacity = SlotAt(n + 1)
    BY <1>1, <2>1, RingSlots DEF SlotAt
  <2> QED
    BY <1>1, <1>2, <1>4, <2>2 DEF HeadFollows, SlotAt
<1>10. ElementsStored(p, c)'
  <2>1. \A i \in 0 .. (n + 1) - 1 : i = n \/ i \in 0 .. n - 1
    BY <1>1
  <2>2. \A i \in 0 .. (n + 1) - 1 : buffer'[SlotAt(i)] \in Elem
    BY <1>1, <1>5, <1>7, <1>8, <2>1 DEF ElementsStored
  <2> HIDE DEF n
  <2> QED
    BY <1>2, <1>4, <1>5, <2>2 DEF ElementsStored, SlotAt
<1>11. head' \in Slot
  <2>1. 1 \in 0 .. Capacity
    OBVIOUS
  <2> QED
    BY <1>1, <1>2, <2>1, RingSlots
<1>12. TypeOK'
  BY <1>1, <1>2, <1>3, <1>5, <1>11 DEF TypeOK
<1>13. RoomPromised(p)' /\ ElemPromised(c)'
  BY <1>1, <1>2, <1>3 DEF RoomPromised, ElemPromised
<1>14. pc'[p] \in PutLabel /\ pc'[c] \in TakeLabel /\ Between(p, c)' \in 0 .. Capacity
  BY <1>1, <1>3, <1>4 DEF PutLabel
<1>15. QInv(p, c)'
  BY <1>9, <1>10, <1>12, <1>13, <1>14 DEF QInv
<1> QED
  BY <1>2, <1>4, <1>5, <1>7, <1>8, <1>15

LEMMA TakeReadInv ==
    ASSUME NEW p, NEW c, OneEach(p, c), QInv(p, c), TakeRead(c)
    PROVE  /\ QInv(p, c)'
           /\ Between(p, c) > 0 /\ Between(p, c)' = Between(p, c) - 1
           /\ buffer' = buffer /\ ret' = [ret EXCEPT ![c] = buffer[SlotAt(0)]]
           /\ \A i \in 0 .. Between(p, c) - 2 : SlotAt(i)' = SlotAt(i + 1)
<1> USE PcQueueAssumption
<1> DEFINE n == Between(p, c)
<1>1. /\ p # c /\ Thread = {p, c} /\ Producer = {p} /\ Consumer = {c}
      /\ TypeOK /\ tail \in Slot /\ head \in Slot
      /\ pc \in [Thread -> PutLabel \cup TakeLabel]
      /\ buffer \in [Slot -> Elem \cup {NoElem}]
      /\ size \in 0 .. Capacity
      /\ pc[p] \in PutLabel
      /\ RoomPromised(p) /\ ElemPromised(c)
      /\ n \in 0 .. Capacity /\ head = SlotAt(n)
      /\ ElementsStored(p, c)
  BY TwoThreads DEF OneEach, QInv, TypeOK, HeadFollows
<1>2. /\ pc[c] = "take_read"
      /\ ret' = [ret EXCEPT ![c] = buffer[tail]]
      /\ tail' = (tail + 1) % Capacity
      /\ pc' = [pc EXCEPT ![c] = "take_count"]
      /\ UNCHANGED <<buffer, head, size, elem>>
  BY DEF TakeRead, Goto
<1>3. pc'[c] = "take_count" /\ pc'[p] = pc[p]
      /\ pc' \in [Thread -> PutLabel \cup TakeLabel]
  BY <1>1, <1>2 DEF TakeLabel
<1>4. n > 0 /\ Between(p, c)' = n - 1
  BY <1>1, <1>2, <1>3 DEF Between, ElemPromised
<1>5. \A i \in 0 .. n - 1 : SlotAt(i)' = SlotAt(i + 1)
  <2>1. \A i \in 0 .. n - 1 : i \in 0 .. Capacity - 1
    BY <1>1
  <2>2. \A i \in 0 .. Capacity - 1 : (tail' + i) % Capacity = (tail + (i + 1)) % Capacity
    BY <1>1, <1>2, RingSlots
  <2> HIDE DEF n
  <2> QED
    BY <2>1, <2>2 DEF SlotAt
<1>6. SlotAt(0) = tail
  BY <1>1, ModOfRing DEF SlotAt, Slot
<1>7. HeadFollows(p, c)'
  <2>1. n - 1 \in 0 .. n - 1 /\ (n - 1) + 1 = n
    BY <1>1, <1>4
  <2>2. ASSUME NEW k, k = n - 1
        PROVE  SlotAt(k)' = SlotAt(n) /\ Between(p, c)' = k
    BY <1>4, <1>5, <2>1, <2>2
  <2> HIDE DEF n
  <2> QED
    BY <1>1, <1>2, <2>2 DEF HeadFollows, SlotAt
<1>8. ElementsStored(p, c)'
  <2>1. ASSUME NEW i \in 0 .. (n - 1) - 1
        PROVE  buffer'[SlotAt(i)'] \in Elem
    <3>1. i \in 0 .. n - 1 /\ i + 1 \in 0 .. n - 1
      BY <1>1, <1>4
    <3>2. SlotAt(i)' = SlotAt(i + 1)
      BY <1>5, <3>1
    <3> QED
      BY <1>1, <1>2, <3>1, <3>2 DEF ElementsStored
  <2> QED
    BY <1>1, <1>2, <1>3, <1>4, <2>1 DEF ElementsStored
<1>9. buffer[tail] \in Elem \cup {NoElem} /\ tail' \in Slot
  <2>1. 1 \in 0 .. Capacity
    OBVIOUS
  <2> QED
    BY <1>1, <1>2, <2>1, RingSlots
<1>10. TypeOK'
  BY <1>1, <1>2, <1>3, <1>9 DEF TypeOK
<1>11. RoomPromised(p)' /\ ElemPromised(c)'
  BY <1>1, <1>2, <1>3 DEF RoomPromised, ElemPromised
<1>12. pc'[p] \in PutLabel /\ pc'[c] \in TakeLabel /\ Between(p, c)' \in 0 .. Capacity
  BY <1>1, <1>3, <1>4 DEF TakeLabel
<1>13. QInv(p, c)'
  BY <1>7, <1>8, <1>10, <1>11, <1>12 DEF QInv
<1>14. \A i \in 0 .. n - 2 : i \in 0 .. n - 1
  BY <1>1
<1> QED
  BY <1>2, <1>4, <1>5, <1>6, <1>13, <1>14

LEMMA CountInv ==
    ASSUME NEW p, NEW c, OneEach(p, c), QInv(p, c), PutCount(p) \/ TakeCount(c)
    PROVE  /\ QInv(p, c)' /\ Between(p, c)' = Between(p, c)
           /\ UNCHANGED <<buffer, tail, ret>>
<1> USE PcQueueAssumption
<1>1. /\ p # c /\ Thread = {p, c} /\ Producer = {p} /\ Consumer = {c}
      /\ TypeOK
      /\ pc \in [Thread -> PutLabel \cup TakeLabel]
      /\ size \in 0 .. Capacity
      /\ pc[p] \in PutLabel /\ pc[c] \in TakeLabel
      /\ RoomPromised(p) /\ ElemPromised(c)
      /\ Recheck(p) = "put_check" /\ Recheck(c) = "take_check"
  BY TwoThreads DEF OneEach, QInv, TypeOK, Recheck
<1>2. UNCHANGED <<buffer, head, tail, elem, ret>>
  BY DEF PutCount, TakeCount
<1>3. /\ size' \in 0 .. Capacity
      /\ pc' \in [Thread -> PutLabel \cup TakeLabel]
      /\ pc'[p] \in PutLabel /\ pc'[c] \in TakeLabel
      /\ pc'[p] # "waits_for_request" => pc[p] # "waits_for_request"
      /\ RoomPromised(p)' /\ ElemPromised(c)'
      /\ Between(p, c)' = Between(p, c)
  <2>1. CASE PutCount(p)
    <3>1. pc[p] = "put_count" /\ size < Capacity
          /\ GotoAndSignal(p, "waits_for_request", "take_asleep")
      BY <1>1, <2>1 DEF PutCount, RoomPromised
    <3>2. size' = size + 1
      <4>1. size' = (size + 1) % SizeMod
        BY <2>1 DEF PutCount
      <4>2. size + 1 \in Nat /\ size + 1 < SizeMod /\ SizeMod \in Nat \ {0}
        BY <1>1, <3>1
      <4> QED
        BY <4>1, <4>2, ModOfRing
    <3>3. /\ pc' \in [Thread -> PutLabel \cup TakeLabel]
          /\ pc'[p] = "waits_for_request"
          /\ pc'[c] = pc[c] \/ (pc[c] = "take_asleep" /\ pc'[c] = "take_check")
      <4>1. /\ "waits_for_request" \in PutLabel \cup TakeLabel
            /\ Recheck(c) \in PutLabel \cup TakeLabel
            /\ pc[p] # "take_asleep"
        BY <1>1, <3>1 DEF PutLabel, TakeLabel
      <4> QED
        BY <1>1, <3>1, <4>1, SignalStep
    <3> QED
      BY <1>1, <3>1, <3>2, <3>3
         DEF RoomPromised, ElemPromised, Between, PutLabel, TakeLabel
  <2>2. CASE TakeCount(c)
    <3>1. pc[c] = "take_count" /\ size > 0
          /\ GotoAndSignal(c, "serves", "put_asleep")
      BY <1>1, <2>2 DEF TakeCount, ElemPromised
    <3>2. size' = size - 1
      <4>1. size' = (size + SizeMod - 1) % SizeMod
        BY <2>2 DEF TakeCount
      <4>2. /\ size + SizeMod - 1 \in Nat /\ SizeMod \in Nat \ {0}
            /\ size + SizeMod - 1 < SizeMod + SizeMod
            /\ ~(size + SizeMod - 1 < SizeMod)
            /\ (size + SizeMod - 1) - SizeMod = size - 1
        BY <1>1, <3>1
      <4>3. (size + SizeMod - 1) % SizeMod = (size + SizeMod - 1) - SizeMod
        BY <4>2, ModOfRing
      <4> QED
        BY <4>1, <4>2, <4>3
    <3>3. /\ pc' \in [Thread -> PutLabel \cup TakeLabel]
          /\ pc'[c] = "serves"
          /\ pc'[p] = pc[p] \/ (pc[p] = "put_asleep" /\ pc'[p] = "put_check")
      <4>1. /\ "serves" \in PutLabel \cup TakeLabel
            /\ Recheck(p) \in PutLabel \cup TakeLabel
            /\ pc[c] # "put_asleep" /\ Thread = {c, p}
        BY <1>1, <3>1 DEF PutLabel, TakeLabel
      <4> QED
        BY <1>1, <3>1, <4>1, SignalStep
    <3> QED
      BY <1>1, <3>1, <3>2, <3>3
         DEF RoomPromised, ElemPromised, Between, PutLabel, TakeLabel
  <2> QED
    BY <2>1, <2>2
<1>4. HeadFollows(p, c)'
  BY <1>2, <1>3 DEF QInv, HeadFollows, SlotAt
<1>5. ElementsStored(p, c)'
  BY <1>2, <1>3 DEF QInv, ElementsStored, SlotAt
<1>6. TypeOK'
  BY <1>1, <1>2, <1>3 DEF TypeOK
<1>7. Between(p, c)' \in 0 .. Capacity
  BY <1>3 DEF QInv
<1> QED
  BY <1>2, <1>3, <1>4, <1>5, <1>6, <1>7 DEF QInv

LEMMA StepInv ==
    ASSUME NEW p, NEW c, OneEach(p, c)
    PROVE  QInv(p, c) /\ [Next]_vars => QInv(p, c)'
<1> SUFFICES ASSUME QInv(p, c), [Next]_vars PROVE QInv(p, c)'
  OBVIOUS
<1>1. Producer = {p} /\ Consumer = {c}
  BY DEF OneEach
<1> QED
  BY <1>1, QuietStepInv, PutStoreInv, TakeReadInv, CountInv DEF Next

(* The invariant holds in every reachable state.                           *)
THEOREM Invariance ==
    ASSUME NEW p, NEW c, OneEach(p, c)
    PROVE  Spec => []QInv(p, c)
BY InitInv, StepInv, PTL DEF Spec

(* With one thread on each side the indices stay in the buffer and the     *)
(* size never wraps around, although it is updated in a critical section   *)
(* other than the one that tested it.                                      *)
THEOREM TypeCorrect ==
    ASSUME NEW p, NEW c, OneEach(p, c)
    PROVE  Spec => []TypeOK
<1>1. QInv(p, c) => TypeOK
  BY DEF QInv
<1> QED
  BY <1>1, Invariance, PTL

-------------------------------------------------------------------------------
(* The queue that the buffer stands for.                                   *)
QueueOf == [i \in 1 .. Stored |-> buffer[(tail + i - 1) % Capacity]]

QueueFits(p, c) ==
    /\ QueueOf = [i \in 1 .. Between(p, c) |-> buffer[SlotAt(i - 1)]]
    /\ QueueOf \in Seq(Elem)
    /\ Len(QueueOf) = Between(p, c)

LEMMA QueueIs ==
    ASSUME NEW p, NEW c, OneEach(p, c)
    PROVE  QInv(p, c) => QueueFits(p, c)
<1> SUFFICES ASSUME QInv(p, c) PROVE QueueFits(p, c)
  OBVIOUS
<1>1. tail \in Nat /\ Between(p, c) \in Nat /\ Stored = Between(p, c)
  BY StoredIsBetween DEF QInv, TypeOK, Slot
<1>2. QueueOf = [i \in 1 .. Between(p, c) |-> buffer[SlotAt(i - 1)]]
  <2>1. \A i \in 1 .. Between(p, c) : tail + i - 1 = tail + (i - 1)
    BY <1>1
  <2> QED
    BY <1>1, <2>1 DEF QueueOf, SlotAt
<1>3. \A i \in 1 .. Between(p, c) : buffer[SlotAt(i - 1)] \in Elem
  <2>1. \A i \in 1 .. Between(p, c) : i - 1 \in 0 .. Between(p, c) - 1
    BY <1>1
  <2> QED
    BY <2>1 DEF QInv, ElementsStored
<1>4. QueueOf \in [1 .. Between(p, c) -> Elem]
  BY <1>2, <1>3
<1> QED
  BY <1>1, <1>2, <1>4 DEF QueueFits

(* The element that is stored is put at the end, when it is stored and not *)
(* when it is counted.                                                     *)
LEMMA PutStoreRefines ==
    ASSUME NEW p, NEW c, OneEach(p, c), QInv(p, c), QueueFits(p, c), QueueFits(p, c)',
           PutStore(p)
    PROVE  Fifo!Next
<1> DEFINE n == Between(p, c)
<1>1. /\ n < Capacity /\ n' = n + 1
      /\ UNCHANGED <<tail, ret>> /\ elem[p] \in Elem
      /\ \A i \in 0 .. n - 1 : buffer'[SlotAt(i)] = buffer[SlotAt(i)]
      /\ buffer'[SlotAt(n)] = elem[p]
  BY PutStoreInv
<1>2. PICK e \in Elem : e = elem[p]
  BY <1>1
<1>3. n \in Nat
  BY DEF QInv
<1>4. QueueOf' \in Seq(Elem) /\ Len(QueueOf') = n + 1
      /\ \A i \in 1 .. n + 1 : QueueOf'[i] = buffer'[SlotAt(i - 1)]
  BY <1>1 DEF QueueFits, SlotAt
<1>5. QueueOf \in Seq(Elem) /\ Len(QueueOf) = n
      /\ \A i \in 1 .. n : QueueOf[i] = buffer[SlotAt(i - 1)]
  BY DEF QueueFits
<1> HIDE DEF n
<1>6. \A i \in 1 .. n : QueueOf'[i] = QueueOf[i]
  <2>1. \A i \in 1 .. n : i - 1 \in 0 .. n - 1 /\ i \in 1 .. n + 1
    BY <1>3
  <2> QED
    BY <1>1, <1>4, <1>5, <2>1
<1>7. QueueOf'[n + 1] = e
  <2>1. (n + 1) - 1 = n /\ n + 1 \in 1 .. n + 1
    BY <1>3
  <2> QED
    BY <1>1, <1>2, <1>4, <2>1
<1>8. /\ Append(QueueOf, e) \in Seq(Elem) /\ Len(Append(QueueOf, e)) = n + 1
      /\ \A i \in 1 .. n : Append(QueueOf, e)[i] = QueueOf[i]
      /\ Append(QueueOf, e)[n + 1] = e
  BY <1>5, AppendProperties
<1>9. QueueOf' = Append(QueueOf, e)
  <2>1. \A i \in 1 .. n + 1 : i = n + 1 \/ i \in 1 .. n
    BY <1>3
  <2>2. \A i \in 1 .. n + 1 : QueueOf'[i] = Append(QueueOf, e)[i]
    BY <1>6, <1>7, <1>8, <2>1
  <2> QED
    BY <1>4, <1>8, <2>2
<1>10. Len(QueueOf) < Capacity
  BY <1>1, <1>5
<1>11. Fifo!Put(e)
  BY <1>1, <1>9, <1>10 DEF Fifo!Put, QueueOf
<1> QED
  BY <1>11 DEF Fifo!Next

(* The element that is read is the one that waited longest.                *)
LEMMA TakeReadRefines ==
    ASSUME NEW p, NEW c, OneEach(p, c), QInv(p, c), QueueFits(p, c), QueueFits(p, c)',
           TakeRead(c)
    PROVE  Fifo!Next
<1> DEFINE n == Between(p, c)
<1>1. /\ n > 0 /\ n' = n - 1
      /\ buffer' = buffer /\ ret' = [ret EXCEPT ![c] = buffer[SlotAt(0)]]
      /\ \A i \in 0 .. n - 2 : SlotAt(i)' = SlotAt(i + 1)
  BY TakeReadInv
<1>2. n \in Nat
  BY DEF QInv
<1>3. QueueOf' \in Seq(Elem) /\ Len(QueueOf') = n - 1
      /\ \A i \in 1 .. n - 1 : QueueOf'[i] = buffer'[SlotAt(i - 1)']
  BY <1>1 DEF QueueFits
<1>4. QueueOf \in Seq(Elem) /\ Len(QueueOf) = n
      /\ \A i \in 1 .. n : QueueOf[i] = buffer[SlotAt(i - 1)]
  BY DEF QueueFits
<1> HIDE DEF n
<1>5. \A i \in 1 .. n - 1 : QueueOf'[i] = QueueOf[i + 1]
  <2>1. SUFFICES ASSUME NEW i \in 1 .. n - 1
                 PROVE  QueueOf'[i] = QueueOf[i + 1]
    OBVIOUS
  <2>2. i - 1 \in 0 .. n - 2 /\ (i - 1) + 1 = (i + 1) - 1 /\ i + 1 \in 1 .. n
    BY <1>2
  <2>3. SlotAt(i - 1)' = SlotAt((i - 1) + 1)
    BY <1>1, <2>2
  <2>4. QueueOf[i + 1] = buffer[SlotAt((i + 1) - 1)]
    BY <1>4, <2>2
  <2> QED
    BY <1>1, <1>3, <2>2, <2>3, <2>4
<1>6. QueueOf # <<>>
  BY <1>1, <1>4
<1>7. Head(QueueOf) = buffer[SlotAt(0)]
  <2>1. 1 \in 1 .. n /\ 1 - 1 = 0
    BY <1>1, <1>2
  <2>2. QueueOf[1] = buffer[SlotAt(0)]
    BY <1>4, <2>1
  <2> QED
    BY <1>4, <1>6, <2>2
<1>8. /\ Tail(QueueOf) \in Seq(Elem) /\ Len(Tail(QueueOf)) = n - 1
      /\ \A i \in 1 .. n - 1 : Tail(QueueOf)[i] = QueueOf[i + 1]
  BY <1>4, <1>6, HeadTailProperties
<1>9. QueueOf' = Tail(QueueOf)
  BY <1>3, <1>5, <1>8
<1>10. c \in Consumer
  BY DEF OneEach
<1>11. Fifo!Take(c)
  BY <1>1, <1>6, <1>7, <1>9 DEF Fifo!Take, QueueOf
<1> QED
  BY <1>10, <1>11 DEF Fifo!Next

LEMMA StepRefines ==
    ASSUME NEW p, NEW c, OneEach(p, c)
    PROVE  QInv(p, c) /\ QInv(p, c)' /\ [Next]_vars => [Fifo!Next]_Fifo!vars
<1>1. QInv(p, c) => QueueFits(p, c)
  BY QueueIs
<1>2. QInv(p, c)' => QueueFits(p, c)'
  BY <1>1, PTL
<1>3. ASSUME QInv(p, c), QInv(p, c)', [Next]_vars
      PROVE  [Fifo!Next]_Fifo!vars
  <2>1. Producer = {p} /\ Consumer = {c} /\ QueueFits(p, c) /\ QueueFits(p, c)'
    BY <1>1, <1>2, <1>3 DEF OneEach
  <2>2. CASE PutStore(p)
    BY <1>3, <2>1, <2>2, PutStoreRefines
  <2>3. CASE TakeRead(c)
    BY <1>3, <2>1, <2>3, TakeReadRefines
  <2>4. CASE \/ PutCall(p) \/ PutCheck(p) \/ TakeCheck(c) \/ Served(c)
             \/ \E t \in Thread : SpuriousWake(t)
             \/ UNCHANGED vars
             \/ PutCount(p) \/ TakeCount(c)
    <3>1. Between(p, c)' = Between(p, c) /\ UNCHANGED <<buffer, tail, ret>>
      BY <1>3, <2>4, QuietStepInv, CountInv
    <3>2. QueueOf' = QueueOf
      BY <2>1, <3>1 DEF QueueFits, SlotAt
    <3> QED
      BY <3>1, <3>2 DEF Fifo!vars, QueueOf
  <2> QED
    BY <1>3, <2>1, <2>2, <2>3, <2>4 DEF Next
<1> QED
  BY <1>3

(* With one thread on each side the three critical sections of a call,     *)
(* taken one by one, are a bounded first-in first-out queue, whatever the  *)
(* capacity: nothing is overwritten, skipped or taken twice.               *)
THEOREM PcQueueRefinesFifo ==
    ASSUME NEW p, NEW c, OneEach(p, c)
    PROVE  Spec => FifoSpec
<1>1. Init => Fifo!Init
  <2> SUFFICES ASSUME Init PROVE Fifo!Init
    OBVIOUS
  <2>1. QInv(p, c) /\ pc[p] = "waits_for_request" /\ pc[c] = "take_check" /\ size = 0
    BY InitInv, TwoThreads DEF Init, OneEach
  <2>2. QueueOf \in Seq(Elem) /\ Len(QueueOf) = 0
    BY <2>1, QueueIs DEF QueueFits, Between
  <2>3. QueueOf = <<>>
    BY <2>2, EmptySeq
  <2> QED
    BY <2>3 DEF Init, Fifo!Init, QueueOf
<1> QED
  BY <1>1, StepRefines, Invariance, PTL DEF Spec, FifoSpec, Fifo!Spec
==============================================================================
