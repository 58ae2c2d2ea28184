------------------------------- MODULE BoxTable -------------------------------
(***************************************************************************)
(* The table of boxes of mbroker/boxes.c: an array of pointers that grows  *)
(* by doubling, with holes where boxes were removed.  Every operation runs *)
(* under box_table->mutex from beginning to end, so each is one action;    *)
(* who may call it when is up to the modules that extend this one.         *)
(*                                                                         *)
(* box_add does not look whether the name is taken: that is left to its    *)
(* caller, and two boxes of one name are a state of this module.           *)
(***************************************************************************)
EXTENDS Naturals, FiniteSets

CONSTANTS Box,            \* BOUND on the addresses malloc has for boxes
          NoBox,          \* NULL
          Name,           \* names of boxes
          NoName,         \* the name of a box that is not allocated
          StartCapacity   \* TABLE_STARTING_CAPACITY: 8

ASSUME BoxTableAssumption ==
    /\ NoBox \notin Box
    /\ NoName \notin Name
    /\ StartCapacity \in Nat \ {0}

VARIABLES boxes,      \* the array: box_table->boxes
          size,       \* all slots from size on are free
          num_elem,   \* how many boxes there are
          capacity,   \* the length of the array
          name,       \* name[b]: file_name of the box at address b
          peak        \* history: the largest num_elem so far

tableVars == <<boxes, size, num_elem, capacity, name, peak>>

(* box_table_init.                                                         *)
TableInit == /\ boxes = [i \in 0 .. StartCapacity - 1 |-> NoBox]
             /\ size = 0
             /\ num_elem = 0
             /\ capacity = StartCapacity
             /\ name = [b \in Box |-> NoName]
             /\ peak = 0

Allocated == {b \in Box : name[b] # NoName}
Filled == {i \in 0 .. size - 1 : boxes[i] # NoBox}
Holes == {i \in 0 .. size - 1 : boxes[i] = NoBox}

(* What the loops over the slots look for, from slot 0 up.                 *)
IsFirst(i, S) == i \in S /\ \A j \in S : i <= j
SlotsOf(n) == {i \in Filled : name[boxes[i]] = n}

(* Mutant: the array is never made longer.                                 *)
NewCapacity_Kept == capacity
(* expand_table, when the array is used to its end.                        *)
NewCapacity == IF size = capacity THEN 2 * capacity ELSE capacity
Grown == [i \in 0 .. NewCapacity - 1 |-> IF i < capacity THEN boxes[i] ELSE NoBox]

(* box_add behind the last slot, if there is no hole.                      *)
AddLast(n, b) ==
    /\ b \in Box \ Allocated
    /\ size = num_elem
    /\ capacity' = NewCapacity
    /\ boxes' = [Grown EXCEPT ![size] = b]
    /\ size' = size + 1
    /\ num_elem' = num_elem + 1
    /\ name' = [name EXCEPT ![b] = n]
    /\ peak' = IF num_elem < peak THEN peak ELSE num_elem + 1

(* Mutant: a box in a hole makes the table longer, too.                    *)
AddInHole_Longer(n, b) ==
    /\ b \in Box \ Allocated
    /\ size # num_elem
    /\ capacity' = NewCapacity
    /\ \E i \in 0 .. size - 1 :
          IsFirst(i, Holes) /\ boxes' = [Grown EXCEPT ![i] = b]
    /\ size' = size + 1
    /\ num_elem' = num_elem + 1
    /\ name' = [name EXCEPT ![b] = n]
    /\ peak' = IF num_elem < peak THEN peak ELSE num_elem + 1

(* Mutant: a box in a hole is not counted.                                 *)
AddInHole_Uncounted(n, b) ==
    /\ b \in Box \ Allocated
    /\ size # num_elem
    /\ capacity' = NewCapacity
    /\ \E i \in 0 .. size - 1 :
          IsFirst(i, Holes) /\ boxes' = [Grown EXCEPT ![i] = b]
    /\ name' = [name EXCEPT ![b] = n]
    /\ UNCHANGED <<size, num_elem, peak>>

(* box_add in the first hole; the array grows first if it is used to its   *)
(* end, needed or not.                                                     *)
AddInHole(n, b) ==
    /\ b \in Box \ Allocated
    /\ size # num_elem
    /\ capacity' = NewCapacity
    /\ \E i \in 0 .. size - 1 :
          IsFirst(i, Holes) /\ boxes' = [Grown EXCEPT ![i] = b]
    /\ num_elem' = num_elem + 1
    /\ name' = [name EXCEPT ![b] = n]
    /\ peak' = IF num_elem < peak THEN peak ELSE num_elem + 1
    /\ UNCHANGED size

BoxAdd(n) == \E b \in Box : AddLast(n, b) \/ AddInHole(n, b)

(* Mutant: the slot keeps the address of the box that is freed.            *)
BoxRemove_Dangling(n) ==
    \E i \in 0 .. size - 1 :
        /\ IsFirst(i, SlotsOf(n))
        /\ size' = IF size = i + 1 THEN size - 1 ELSE size
        /\ num_elem' = num_elem - 1
        /\ name' = [name EXCEPT ![boxes[i]] = NoName]
        /\ UNCHANGED <<boxes, capacity, peak>>

(* box_remove: the first box of the name is freed.  The table gets shorter *)
(* by one slot at most, also if the slot before was free already.          *)
BoxRemove(n) ==
    \E i \in 0 .. size - 1 :
        /\ IsFirst(i, SlotsOf(n))
        /\ boxes' = [boxes EXCEPT ![i] = NoBox]
        /\ size' = IF size = i + 1 THEN size - 1 ELSE size
        /\ num_elem' = num_elem - 1
        /\ name' = [name EXCEPT ![boxes[i]] = NoName]
        /\ UNCHANGED <<capacity, peak>>

TableNext == \E n \in Name : BoxAdd(n) \/ BoxRemove(n)

TableSpec == TableInit /\ [][TableNext]_tableVars

-------------------------------------------------------------------------------
(* The array has capacity slots, of which size are looked at.              *)
TableTypeOK ==
    /\ capacity \in Nat \ {0}
    /\ size \in 0 .. capacity
    /\ num_elem \in Nat
    /\ boxes \in [0 .. capacity - 1 -> Box \cup {NoBox}]
    /\ name \in [Box -> Name \cup {NoName}]
    /\ peak \in Nat

(* Every allocated box is in one slot, every other slot is free, the ones  *)
(* the loops do not look at as well: no box is lost when the array grows   *)
(* or when the table gets shorter, and none is freed that is still listed. *)
BoxesInTable ==
    /\ {boxes[i] : i \in Filled} = Allocated
    /\ \A i, j \in Filled : boxes[i] = boxes[j] => i = j
    /\ \A i \in 0 .. capacity - 1 : i >= size => boxes[i] = NoBox

(* The end of box_add, "box_add panic: unexpected behaviour.", is never    *)
(* reached: when num_elem says that there is a hole, there is one.  It     *)
(* rests on num_elem counting the boxes, over any sequence of additions,   *)
(* removals from the middle, and removals from the end.                    *)
HoleWhenCounted == size # num_elem => Holes # {}

(* However many boxes come and go, the table is as long as the largest     *)
(* number of boxes there ever were at once, and the array at most twice    *)
(* that: holes are filled before the table gets longer.                    *)
TableFollowsPeak ==
    /\ size <= peak
    /\ capacity = StartCapacity \/ capacity <= 2 * peak
===============================================================================
