---------------------------- MODULE BoxTableProofs ----------------------------
(***************************************************************************)
(* Theorems about BoxTable for any number of boxes, names and slots: every *)
(* sequence of additions and removals keeps the array, the counters and    *)
(* the boxes together.                                                     *)
(***************************************************************************)
EXTENDS BoxTable, FiniteSetTheorems, TLAPS

(* num_elem counts the boxes in the table; why a hole is found.            *)
ElementsCounted == IsFiniteSet(Filled) /\ num_elem = Cardinality(Filled)

(* The inductive invariant.                                                *)
TInv == /\ TableTypeOK
        /\ BoxesInTable
        /\ ElementsCounted
        /\ TableFollowsPeak

(* What box_add does to the array, wherever it puts the box.               *)
Puts(i, b) ==
    /\ capacity' = NewCapacity
    /\ boxes' = [Grown EXCEPT ![i] = b]
    /\ num_elem' = num_elem + 1
    /\ peak' = IF num_elem < peak THEN peak ELSE num_elem + 1

-------------------------------------------------------------------------------
(* The slots of an array of length k.                                      *)
LEMMA SlotRange ==
    ASSUME NEW k \in Nat
    PROVE  \A i \in Nat : i \in 0 .. k - 1 <=> i < k
OBVIOUS

(* The longer array has room for one box more, and holds the same boxes.   *)
LEMMA GrownArray ==
    ASSUME TableTypeOK
    PROVE  /\ NewCapacity \in Nat \ {0}
           /\ size < NewCapacity /\ capacity <= NewCapacity
           /\ Grown \in [0 .. NewCapacity - 1 -> Box \cup {NoBox}]
           /\ \A i \in 0 .. capacity - 1 : Grown[i] = boxes[i]
           /\ \A i \in 0 .. NewCapacity - 1 : i >= capacity => Grown[i] = NoBox
<1>1. /\ capacity \in Nat \ {0}
      /\ size \in 0 .. capacity
      /\ boxes \in [0 .. capacity - 1 -> Box \cup {NoBox}]
  BY DEF TableTypeOK
<1>2. /\ NewCapacity \in Nat \ {0}
      /\ size < NewCapacity /\ capacity <= NewCapacity
  BY <1>1 DEF NewCapacity
<1>3. Grown \in [0 .. NewCapacity - 1 -> Box \cup {NoBox}]
  BY <1>1, <1>2 DEF Grown
<1>4. \A i \in 0 .. NewCapacity - 1 :
          Grown[i] = IF i < capacity THEN boxes[i] ELSE NoBox
  BY DEF Grown
<1> QED
  BY <1>1, <1>2, <1>3, <1>4

(* Where the box of a slot below size is when the array has grown.         *)
LEMMA PutSlots ==
    ASSUME TableTypeOK, BoxesInTable,
           NEW b \in Box, NEW i \in 0 .. NewCapacity - 1, Puts(i, b)
    PROVE  /\ boxes' \in [0 .. capacity' - 1 -> Box \cup {NoBox}]
           /\ boxes'[i] = b
           /\ \A j \in 0 .. capacity' - 1 :
                  j # i => boxes'[j] = IF j < size THEN boxes[j] ELSE NoBox
<1>1. /\ NewCapacity \in Nat \ {0}
      /\ size < NewCapacity /\ capacity <= NewCapacity
      /\ Grown \in [0 .. NewCapacity - 1 -> Box \cup {NoBox}]
      /\ \A j \in 0 .. capacity - 1 : Grown[j] = boxes[j]
      /\ \A j \in 0 .. NewCapacity - 1 : j >= capacity => Grown[j] = NoBox
  BY GrownArray
<1>2. capacity' = NewCapacity /\ boxes' = [Grown EXCEPT ![i] = b]
  BY DEF Puts
<1>3. /\ capacity \in Nat /\ size \in 0 .. capacity
      /\ \A j \in 0 .. capacity - 1 : j >= size => boxes[j] = NoBox
  BY DEF TableTypeOK, BoxesInTable
<1>4. \A j \in 0 .. NewCapacity - 1 : j # i => boxes'[j] = Grown[j]
  BY <1>1, <1>2
<1>5. \A j \in 0 .. NewCapacity - 1 :
          j < size => Grown[j] = boxes[j]
  BY <1>1, <1>3
<1>6. \A j \in 0 .. NewCapacity - 1 :
          ~ (j < size) => Grown[j] = NoBox
  <2>1. SUFFICES ASSUME NEW j \in 0 .. NewCapacity - 1, ~ (j < size)
                 PROVE  Grown[j] = NoBox
    OBVIOUS
  <2>2. CASE j < capacity
    BY <1>1, <1>3, <2>1, <2>2
  <2>3. CASE ~ (j < capacity)
    BY <1>1, <1>3, <2>1, <2>3
  <2> QED BY <2>2, <2>3
<1>7. boxes' \in [0 .. capacity' - 1 -> Box \cup {NoBox}] /\ boxes'[i] = b
  BY <1>1, <1>2
<1> QED
  BY <1>2, <1>4, <1>5, <1>6, <1>7

-------------------------------------------------------------------------------
(* A box put into a free slot: below size, or right behind it.             *)
LEMMA PutKeepsInv ==
    ASSUME TInv,
           NEW n \in Name, NEW b \in Box \ Allocated,
           NEW i \in 0 .. NewCapacity - 1, Puts(i, b),
           name' = [name EXCEPT ![b] = n],
           \/ i = size /\ size = num_elem /\ size' = size + 1
           \/ i \in Holes /\ size' = size
    PROVE  TInv'
<1> USE BoxTableAssumption
<1>1. /\ capacity \in Nat \ {0} /\ size \in 0 .. capacity
      /\ num_elem \in Nat /\ peak \in Nat
      /\ boxes \in [0 .. capacity - 1 -> Box \cup {NoBox}]
      /\ name \in [Box -> Name \cup {NoName}]
  BY DEF TInv, TableTypeOK
<1>2. /\ NewCapacity \in Nat \ {0}
      /\ size < NewCapacity /\ capacity <= NewCapacity
  BY GrownArray DEF TInv
<1>3. /\ boxes' \in [0 .. capacity' - 1 -> Box \cup {NoBox}]
      /\ boxes'[i] = b
      /\ \A j \in 0 .. capacity' - 1 :
             j # i => boxes'[j] = IF j < size THEN boxes[j] ELSE NoBox
  BY PutSlots DEF TInv
<1>4. /\ capacity' = NewCapacity
      /\ num_elem' = num_elem + 1
      /\ peak' = IF num_elem < peak THEN peak ELSE num_elem + 1
  BY DEF Puts
<1>5. /\ size' \in 0 .. capacity' /\ size <= size' /\ i < size'
      /\ \A j \in 0 .. size' - 1 : j # i => j < size
  BY <1>1, <1>2, <1>4 DEF Holes
<1>6. b # NoBox /\ n # NoName
  OBVIOUS
<1>7. i \notin Filled
  BY <1>1 DEF Filled, Holes
<1>8. Filled' = Filled \cup {i}
  <2>0. size \in Nat /\ size' \in Nat /\ i \in Nat
    BY <1>1, <1>2, <1>4, <1>5
  <2>1. i \in 0 .. size' - 1
    <3>1. i < size'
      BY <1>5
    <3> QED
      BY <2>0, <3>1, SlotRange
  <2>2. \A j : j \in Filled' <=> j \in Filled \/ j = i
    <3>1. ASSUME NEW j \in 0 .. size' - 1, j # i
          PROVE  j \in Filled' <=> j \in Filled
      <4>1. j < size
        BY <1>5, <3>1
      <4>2. j \in 0 .. capacity' - 1
        <5>1. j < capacity' /\ j \in Nat /\ capacity' \in Nat
          BY <1>2, <1>4, <2>0, <3>1, <4>1
        <5> QED
          BY <5>1, SlotRange
      <4>3. boxes'[j] = boxes[j]
        BY <1>3, <3>1, <4>1, <4>2
      <4>4. j \in 0 .. size - 1
        BY <3>1, <4>1
      <4> QED
        BY <3>1, <4>3, <4>4 DEF Filled
    <3>2. i \in Filled'
      BY <1>3, <1>6, <2>1 DEF Filled
    <3>3. ASSUME NEW j \in Filled
          PROVE  j \in 0 .. size' - 1
      <4>1. j \in 0 .. size - 1
        BY <3>3 DEF Filled
      <4>2. size <= size'
        BY <1>5
      <4>3. j < size' /\ j \in Nat
        BY <2>0, <4>1, <4>2
      <4> QED
        BY <2>0, <4>3, SlotRange
    <3>4. \A j : j \in Filled' => j \in 0 .. size' - 1
      BY DEF Filled
    <3> QED
      BY <3>1, <3>2, <3>3, <3>4
  <2> QED
    BY <2>2
<1>9. \A j \in Filled : boxes'[j] = boxes[j]
  BY <1>1, <1>2, <1>3, <1>4, <1>7 DEF Filled
<1>10. TableTypeOK'
  BY <1>1, <1>2, <1>3, <1>4, <1>5 DEF TableTypeOK
<1>11. BoxesInTable'
  <2>1. /\ {boxes[j] : j \in Filled} = Allocated
        /\ \A j, k \in Filled : boxes[j] = boxes[k] => j = k
    BY DEF TInv, BoxesInTable
  <2>2. Allocated' = Allocated \cup {b}
    BY <1>1, <1>6 DEF Allocated
  <2>3. {boxes'[j] : j \in Filled'} = Allocated'
    BY <1>3, <1>8, <1>9, <2>1, <2>2
  <2>4. \A j \in Filled : boxes'[j] \in Allocated
    BY <1>9, <2>1
  <2>5. \A j, k \in Filled' : boxes'[j] = boxes'[k] => j = k
    <3>1. \A j \in Filled : boxes'[j] # b
      BY <2>4
    <3> QED
      BY <1>3, <1>8, <1>9, <2>1, <3>1
  <2>6. \A j \in 0 .. capacity' - 1 : j >= size' => boxes'[j] = NoBox
    <3>1. ASSUME NEW j \in 0 .. capacity' - 1, j >= size'
          PROVE  j # i /\ ~ (j < size)
      BY <1>1, <1>2, <1>4, <1>5, <3>1
    <3> QED
      BY <1>3, <3>1
  <2> QED
    BY <2>3, <2>5, <2>6 DEF BoxesInTable
<1>12. ElementsCounted'
  <2>1. /\ IsFiniteSet(Filled \cup {i})
        /\ Cardinality(Filled \cup {i}) = Cardinality(Filled) + 1
    BY <1>7, FS_AddElement DEF TInv, ElementsCounted
  <2> QED
    BY <1>4, <1>8, <2>1 DEF TInv, ElementsCounted
<1>13. TableFollowsPeak'
  <2>1. size <= peak /\ (capacity = StartCapacity \/ capacity <= 2 * peak)
    BY DEF TInv, TableFollowsPeak
  <2>2. peak' \in Nat /\ peak <= peak' /\ num_elem + 1 <= peak'
    BY <1>1, <1>4
  <2>3. size' <= peak'
    BY <1>1, <2>1, <2>2
  <2>4. capacity' = StartCapacity \/ capacity' <= 2 * peak'
    BY <1>1, <1>4, <2>1, <2>2 DEF NewCapacity
  <2> QED
    BY <2>3, <2>4 DEF TableFollowsPeak
<1> QED
  BY <1>10, <1>11, <1>12, <1>13 DEF TInv

(* box_add, in both its forms.                                             *)
LEMMA AddKeepsInv ==
    ASSUME TInv, NEW n \in Name, BoxAdd(n)
    PROVE  TInv'
<1>1. PICK b \in Box : AddLast(n, b) \/ AddInHole(n, b)
  BY DEF BoxAdd
<1>2. /\ capacity \in Nat \ {0} /\ size \in 0 .. capacity
      /\ NewCapacity \in Nat \ {0}
      /\ size < NewCapacity
  BY GrownArray DEF TInv, TableTypeOK
<1>3. CASE AddLast(n, b)
  <2>1. size \in 0 .. NewCapacity - 1 /\ Puts(size, b)
    BY <1>2, <1>3 DEF AddLast, Puts
  <2> QED
    BY <1>3, <2>1, PutKeepsInv DEF AddLast
<1>4. CASE AddInHole(n, b)
  <2>1. PICK i \in 0 .. size - 1 :
            IsFirst(i, Holes) /\ boxes' = [Grown EXCEPT ![i] = b]
    BY <1>4 DEF AddInHole
  <2>2. i \in 0 .. NewCapacity - 1
    BY <1>2, <2>1
  <2>3. i \in Holes /\ Puts(i, b)
    BY <1>4, <2>1 DEF AddInHole, Puts, IsFirst
  <2> QED
    BY <1>4, <2>2, <2>3, PutKeepsInv DEF AddInHole
<1> QED
  BY <1>1, <1>3, <1>4

(* box_remove.                                                             *)
LEMMA RemoveKeepsInv ==
    ASSUME TInv, NEW n \in Name, BoxRemove(n)
    PROVE  TInv'
<1> USE BoxTableAssumption
<1>1. PICK i \in 0 .. size - 1 :
          /\ IsFirst(i, SlotsOf(n))
          /\ boxes' = [boxes EXCEPT ![i] = NoBox]
          /\ size' = IF size = i + 1 THEN size - 1 ELSE size
          /\ num_elem' = num_elem - 1
          /\ name' = [name EXCEPT ![boxes[i]] = NoName]
          /\ UNCHANGED <<capacity, peak>>
  BY DEF BoxRemove
<1>2. /\ capacity \in Nat \ {0} /\ size \in 0 .. capacity
      /\ num_elem \in Nat /\ peak \in Nat
      /\ boxes \in [0 .. capacity - 1 -> Box \cup {NoBox}]
      /\ name \in [Box -> Name \cup {NoName}]
  BY DEF TInv, TableTypeOK
<1>3. i \in Filled
  BY <1>1 DEF IsFirst, SlotsOf
<1>4. boxes[i] \in Box /\ i \in 0 .. capacity - 1
  BY <1>2, <1>3 DEF Filled
<1>5. /\ size' \in 0 .. capacity /\ size' <= size
      /\ \A j \in 0 .. size - 1 : j # i => j < size'
      /\ \A j \in 0 .. capacity - 1 : j >= size' => j >= size \/ j = i
  BY <1>1, <1>2
<1>6. boxes'[i] = NoBox /\ \A j \in 0 .. capacity - 1 : j # i => boxes'[j] = boxes[j]
  BY <1>1, <1>2, <1>4
<1>7. Filled' = Filled \ {i}
  <2>0. size \in Nat /\ capacity \in Nat /\ size' \in Nat
    BY <1>2, <1>5
  <2>1. ASSUME NEW j \in Filled'
        PROVE  j \in Filled /\ j # i
    <3>1. j \in 0 .. size' - 1 /\ boxes'[j] # NoBox
      BY DEF Filled
    <3>2. size' <= size /\ size <= capacity
      BY <1>2, <1>5
    <3>3. j < size /\ j < capacity /\ j \in Nat
      <4>1. j \in Nat
        BY <3>1
      <4>2. j < size'
        BY <2>0, <3>1, <4>1, SlotRange
      <4> QED
        BY <2>0, <3>2, <4>1, <4>2
    <3>4. j \in 0 .. size - 1 /\ j \in 0 .. capacity - 1
      BY <2>0, <3>3, SlotRange
    <3> QED
      BY <1>6, <3>1, <3>4 DEF Filled
  <2>2. ASSUME NEW j \in Filled, j # i
        PROVE  j \in Filled'
    <3>1. j \in 0 .. size - 1 /\ boxes[j] # NoBox
      BY DEF Filled
    <3>2. j < size'
      BY <1>5, <2>2, <3>1
    <3>3. size <= capacity
      BY <1>2
    <3>4. j < capacity /\ j \in Nat
      BY <2>0, <3>1, <3>3
    <3>5. j \in 0 .. size' - 1 /\ j \in 0 .. capacity - 1
      BY <2>0, <3>2, <3>4, SlotRange
    <3> QED
      BY <1>6, <2>2, <3>1, <3>5 DEF Filled
  <2> QED
    BY <2>1, <2>2
<1>8. \A j \in Filled' : boxes'[j] = boxes[j]
  BY <1>2, <1>6, <1>7 DEF Filled
<1>9. ElementsCounted' /\ num_elem' \in Nat
  <2>1. IsFiniteSet(Filled) /\ num_elem = Cardinality(Filled)
    BY DEF TInv, ElementsCounted
  <2>2. /\ IsFiniteSet(Filled \ {i})
        /\ Cardinality(Filled \ {i}) = Cardinality(Filled) - 1
    BY <1>3, <2>1, FS_RemoveElement
  <2>3. Cardinality(Filled \ {i}) \in Nat
    BY <2>2, FS_CardinalityType
  <2> QED
    BY <1>1, <1>7, <2>1, <2>2, <2>3 DEF ElementsCounted
<1>10. TableTypeOK'
  BY <1>1, <1>2, <1>4, <1>5, <1>9 DEF TableTypeOK
<1>11. BoxesInTable'
  <2>1. /\ {boxes[j] : j \in Filled} = Allocated
        /\ \A j, k \in Filled : boxes[j] = boxes[k] => j = k
        /\ \A j \in 0 .. capacity - 1 : j >= size => boxes[j] = NoBox
    BY DEF TInv, BoxesInTable
  <2>2. Allocated' = Allocated \ {boxes[i]}
    BY <1>1, <1>2, <1>4 DEF Allocated
  <2>3. \A j \in Filled' : j \in Filled /\ boxes[j] # boxes[i]
    BY <1>3, <1>7, <2>1
  <2>4. {boxes'[j] : j \in Filled'} = {boxes[j] : j \in Filled'}
    BY <1>8
  <2>5. {boxes[j] : j \in Filled'} = Allocated'
    BY <1>7, <2>1, <2>2, <2>3
  <2>6. \A j, k \in Filled' : boxes'[j] = boxes'[k] => j = k
    BY <1>7, <1>8, <2>1
  <2>7. \A j \in 0 .. capacity' - 1 : j >= size' => boxes'[j] = NoBox
    BY <1>1, <1>5, <1>6, <2>1
  <2> QED
    BY <2>4, <2>5, <2>6, <2>7 DEF BoxesInTable
<1>12. TableFollowsPeak'
  BY <1>1, <1>2, <1>5 DEF TInv, TableFollowsPeak
<1> QED
  BY <1>9, <1>10, <1>11, <1>12 DEF TInv

-------------------------------------------------------------------------------
LEMMA InitInv ==
    ASSUME TableInit
    PROVE  TInv
<1> USE BoxTableAssumption
<1>1. /\ boxes = [i \in 0 .. StartCapacity - 1 |-> NoBox]
      /\ size = 0 /\ num_elem = 0 /\ capacity = StartCapacity /\ peak = 0
      /\ name = [b \in Box |-> NoName]
  BY DEF TableInit
<1>2. Filled = {} /\ Allocated = {}
  BY <1>1 DEF Filled, Allocated
<1>3. TableTypeOK
  BY <1>1 DEF TableTypeOK
<1>4. BoxesInTable
  BY <1>1, <1>2 DEF BoxesInTable
<1>5. ElementsCounted
  BY <1>1, <1>2, FS_EmptySet DEF ElementsCounted
<1>6. TableFollowsPeak
  BY <1>1 DEF TableFollowsPeak
<1> QED
  BY <1>3, <1>4, <1>5, <1>6 DEF TInv

LEMMA StepInv ==
    ASSUME TInv, [TableNext]_tableVars
    PROVE  TInv'
<1>1. CASE TableNext
  BY <1>1, AddKeepsInv, RemoveKeepsInv DEF TableNext
<1>2. CASE UNCHANGED tableVars
  BY <1>2 DEF tableVars, TInv, TableTypeOK, BoxesInTable, ElementsCounted,
             TableFollowsPeak, Filled, Allocated
<1> QED
  BY <1>1, <1>2

(* In a table without a hole below size, size counts the boxes.            *)
LEMMA CountedMeansHole ==
    ASSUME TInv
    PROVE  HoleWhenCounted
<1>1. SUFFICES ASSUME Holes = {}
               PROVE  size = num_elem
  BY DEF HoleWhenCounted
<1>2. size \in Nat
  BY DEF TInv, TableTypeOK
<1>3. Filled = 0 .. size - 1
  BY <1>1 DEF Filled, Holes
<1>4. Cardinality(0 .. size - 1) = size
  <2>1. Cardinality(0 .. size - 1) = IF 0 > size - 1 THEN 0 ELSE size - 1 - 0 + 1
    BY <1>2, FS_Interval
  <2> QED
    BY <1>2, <2>1
<1> QED
  BY <1>3, <1>4 DEF TInv, ElementsCounted

(* The invariant holds of every behaviour of the table.                    *)
THEOREM TableInvariant == TableSpec => []TInv
<1>1. TableInit => TInv
  BY InitInv
<1>2. TInv /\ [TableNext]_tableVars => TInv'
  BY StepInv
<1> QED
  BY <1>1, <1>2, PTL DEF TableSpec

(* Additions and removals in any order keep the variables of the table in  *)
(* their types: no slot outside the array is written, num_elem is never    *)
(* decremented below 0.                                                    *)
THEOREM TableTypes == TableSpec => []TableTypeOK
<1>1. TInv => TableTypeOK
  BY DEF TInv
<1> QED
  BY <1>1, TableInvariant, PTL

(* No box is lost or listed twice, and no slot holds one that was freed.   *)
THEOREM TableHoldsBoxes == TableSpec => []BoxesInTable
<1>1. TInv => BoxesInTable
  BY DEF TInv
<1> QED
  BY <1>1, TableInvariant, PTL

(* box_add finds a hole whenever it looks for one.                         *)
THEOREM AddFindsHole == TableSpec => []HoleWhenCounted
<1>1. TInv => HoleWhenCounted
  BY CountedMeansHole
<1> QED
  BY <1>1, TableInvariant, PTL

(* The table is no longer than the most boxes there were at once.          *)
THEOREM TableStaysShort == TableSpec => []TableFollowsPeak
<1>1. TInv => TableFollowsPeak
  BY DEF TInv
<1> QED
  BY <1>1, TableInvariant, PTL
===============================================================================
