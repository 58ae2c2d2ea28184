----------------------------- MODULE BrokerProofs -----------------------------
(***************************************************************************)
(* Theorems about Broker for any number of workers, boxes, names, inodes   *)
(* and handles: the requests use the table as BoxTable says, they keep     *)
(* their types and the count of the open handles, they use freed memory    *)
(* only where UsesNoFreed says, and as long as all is calm, every session  *)
(* is in its place and the broker is the directory of boxes of             *)
(* BoxDirectory.                                                           *)
(***************************************************************************)
EXTENDS Broker, BoxTableProofs

(* The types of the variables that no count is needed for.                 *)
Typed == /\ pc \in [Worker -> Label]
         /\ kind \in [Worker -> Kind]
         /\ want \in [Worker -> Name \cup {NoName}]
         /\ at \in [Worker -> Nat]
         /\ seen \in [Worker -> Nat]
         /\ \A w \in Worker : at[w] < capacity /\ seen[w] <= capacity
         /\ ptr \in [Worker -> Box \cup {NoBox}]
         /\ fd \in [Worker -> 0 .. MaxFiles]
         /\ file \in [Name -> 0 .. MaxFiles]
         /\ handles \in Nat /\ handles <= MaxOpenFiles
         /\ pub_num \in [Box -> 0 .. 1]
         /\ sub_num \in [Box -> Nat]
         /\ raced \in BOOLEAN
         /\ status \in {"running", "freed_box", "freed_array"}

(* Which request is where.                                                 *)
Proper(w) ==
    /\ pc[w] # "idle" => want[w] \in Name
    /\ pc[w] = "idle" => want[w] = NoName /\ kind[w] = "create"
    /\ pc[w] \in {"open_new", "close_new", "add"} => kind[w] = "create"
    /\ pc[w] \in {"check", "unlink", "drop"} => kind[w] = "remove"
    /\ pc[w] \in {"count", "open", "session"} => kind[w] \in {"pub", "sub"}
    /\ pc[w] = "close" => kind[w] = "pub"
Requests == \A w \in Worker : Proper(w)

(* Every request that closes a handle has one.  Those whose session ended  *)
(* without a close are counted by handles only.                            *)
Busy == {w \in Worker : pc[w] # "idle"}
Holders == {w \in Worker : pc[w] \in {"close_new", "session", "close"}}
HandlesCounted == IsFiniteSet(Busy) /\ Cardinality(Holders) <= handles

(* The bound on sub_num is kept by the subscribers on their way.           *)
Ahead == {w \in Worker : kind[w] = "sub" /\ pc[w] \in {"find", "fetch", "count"}}
SubsBounded == \A b \in Box : sub_num[b] + Cardinality(Ahead) <= MaxSubNum

(* The array stays where it is until it has been full.                     *)
ArrayKept ==
    /\ peak < StartCapacity =>
          /\ capacity = StartCapacity
          /\ \A w \in Worker : pc[w] = "fetch" => seen[w] = StartCapacity
    /\ status = "freed_array" => peak >= StartCapacity

(* What holds whether or not all is calm.                                  *)
AlwaysInv ==
    TInv /\ Typed /\ Requests /\ HandlesCounted /\ SubsBounded /\ ArrayKept

-------------------------------------------------------------------------------
(* What holds as long as all is calm.                                      *)

IsPending(w) == pc[w] \notin {"idle", "session", "close"}

(* A creation or a removal is alone with its name, but for sessions.       *)
ManagersAlone ==
    \A v, w \in Worker :
        v # w /\ IsPending(v) /\ IsPending(w) /\ want[v] = want[w]
            => kind[v] \notin Manager /\ kind[w] \notin Manager

NamesUnique == \A b, c \in Allocated : name[b] = name[c] => b = c

(* What a request has found out about its box and its file is still so.    *)
Missed(n) == \A b \in Allocated : name[b] # n
KnowsBox(w) ==
    /\ pc[w] = "fetch" => boxes[at[w]] # NoBox /\ name[boxes[at[w]]] = want[w]
    /\ pc[w] \in {"open_new", "close_new", "add"} => Missed(want[w])
    /\ pc[w] \in {"check", "count", "open", "session"} =>
          ptr[w] \in Allocated /\ name[ptr[w]] = want[w]
KnowsFile(w) ==
    /\ pc[w] \in {"close_new", "add"} => file[want[w]] # NoFile
    /\ pc[w] = "session" => fd[w] = file[want[w]]
RequestsKnow == \A w \in Worker : KnowsBox(w) /\ KnowsFile(w)

(* A removal that has looked at the counters has no session in its box.    *)
RemovalsClear ==
    \A v, w \in Worker :
        pc[v] \in {"unlink", "drop"} /\ pc[w] = "session" => want[v] # want[w]

(* Whose file is gone is about to go.                                      *)
Filed(b) == \/ file[name[b]] # NoFile
            \/ \E w \in Worker : pc[w] = "drop" /\ want[w] = name[b]
BoxesFiled == \A b \in Allocated : Filed(b)

(* A box counts its sessions, and perhaps some that are gone.              *)
In(w, k, b) == pc[w] \in {"open", "session"} /\ kind[w] = k /\ ptr[w] = b
SubsIn(b) == {w \in Worker : In(w, "sub", b)}
SessionsCounted ==
    \A b \in Box :
        /\ Cardinality(SubsIn(b)) <= sub_num[b]
        /\ \A w \in Worker : In(w, "pub", b) => pub_num[b] = 1
        /\ \A v, w \in Worker : In(v, "pub", b) /\ In(w, "pub", b) => v = w

CalmInv == /\ ManagersAlone
           /\ NamesUnique
           /\ RequestsKnow
           /\ RemovalsClear
           /\ BoxesFiled
           /\ SessionsCounted

(* The inductive invariant.                                                *)
BInv == /\ AlwaysInv
        /\ Calm => CalmInv
        /\ status = "freed_box" => raced

-------------------------------------------------------------------------------
(* The table.                                                              *)

(* Every step but box_add and box_remove leaves the table alone.           *)
LEMMA TableFrame ==
    ASSUME NEW w \in Worker, Step(w), ~ AddBox(w), ~ Drop(w)
    PROVE  UNCHANGED tableVars
<1>1. CASE \/ \E k \in Kind, n \in Name : Arrive(w, k, n)
           \/ FindHit(w) \/ FindMiss(w)
           \/ FetchNothing(w) \/ FetchTaken(w) \/ FetchBox(w)
           \/ OpenNew(w) \/ OpenNewFails(w) \/ CloseNew(w)
  BY <1>1 DEF Arrive, FindHit, FindMiss, FetchNothing, FetchTaken, FetchBox,
              OpenNew, OpenNewFails, CloseNew
<1>2. CASE \/ CheckIdle(w) \/ CheckActive(w) \/ Unlink(w) \/ RemoveFails(w)
           \/ Count(w) \/ SecondPublisher(w) \/ Open(w) \/ OpenFails(w)
           \/ LeavePub(w) \/ Close(w) \/ LeaveSub(w) \/ SessionFails(w)
  BY <1>2 DEF CheckIdle, CheckActive, Unlink, RemoveFails, Count, SecondPublisher,
              Open, OpenFails, LeavePub, Close, LeaveSub, SessionFails
<1> QED
  BY <1>1, <1>2 DEF Step

(* A request that calls box_add or box_remove has a name.                  *)
LEMMA StepsTable ==
    ASSUME Requests, NEW w \in Worker, Step(w)
    PROVE  [TableNext]_tableVars
<1>1. CASE AddBox(w)
  <2>1. PICK n \in Name : n = want[w]
    BY <1>1 DEF AddBox, Requests, Proper
  <2> QED
    BY <1>1, <2>1 DEF AddBox, TableNext
<1>2. CASE Drop(w)
  <2>1. PICK n \in Name : n = want[w]
    BY <1>2 DEF Drop, Requests, Proper
  <2> QED
    BY <1>2, <2>1 DEF Drop, TableNext
<1> QED
  BY <1>1, <1>2, TableFrame

(* box_add gives the name to a box that was free, and moves no other.      *)
LEMMA BoxAdded ==
    ASSUME TInv, NEW n \in Name, BoxAdd(n)
    PROVE  /\ capacity <= capacity'
           /\ \E b \in Box \ Allocated : name' = [name EXCEPT ![b] = n]
           /\ \A j \in 0 .. capacity - 1 : boxes[j] # NoBox => boxes'[j] = boxes[j]
<1>1. PICK b \in Box : AddLast(n, b) \/ AddInHole(n, b)
  BY DEF BoxAdd
<1>2. /\ NewCapacity \in Nat \ {0}
      /\ size < NewCapacity /\ capacity <= NewCapacity
      /\ Grown \in [0 .. NewCapacity - 1 -> Box \cup {NoBox}]
      /\ \A i \in 0 .. capacity - 1 : Grown[i] = boxes[i]
  BY GrownArray DEF TInv
<1>3. /\ capacity \in Nat \ {0} /\ size \in 0 .. capacity
      /\ \A j \in 0 .. capacity - 1 : j >= size => boxes[j] = NoBox
  BY DEF TInv, TableTypeOK, BoxesInTable
<1>4. b \in Box \ Allocated /\ name' = [name EXCEPT ![b] = n] /\ capacity' = NewCapacity
  BY <1>1 DEF AddLast, AddInHole
<1>5. PICK i \in 0 .. NewCapacity - 1 :
          boxes' = [Grown EXCEPT ![i] = b] /\ (i < capacity => boxes[i] = NoBox)
  <2>1. CASE AddLast(n, b)
    <3>1. size \in 0 .. NewCapacity - 1
      BY <1>2, <1>3
    <3>2. size < capacity => boxes[size] = NoBox
      BY <1>3
    <3> QED
      BY <2>1, <3>1, <3>2 DEF AddLast
  <2>2. CASE AddInHole(n, b)
    <3>1. PICK i \in 0 .. size - 1 :
              IsFirst(i, Holes) /\ boxes' = [Grown EXCEPT ![i] = b]
      BY <2>2 DEF AddInHole
    <3>2. i \in 0 .. NewCapacity - 1
      BY <1>2, <1>3, <3>1
    <3> QED
      BY <3>1, <3>2 DEF IsFirst, Holes
  <2> QED
    BY <1>1, <2>1, <2>2
<1>6. ASSUME NEW j \in 0 .. capacity - 1, boxes[j] # NoBox
      PROVE  boxes'[j] = boxes[j]
  <2>1. j \in 0 .. NewCapacity - 1 /\ j < capacity
    BY <1>2, <1>3
  <2>2. j # i
    BY <1>5, <1>6, <2>1
  <2> QED
    BY <1>2, <1>5, <2>1, <2>2
<1> QED
  BY <1>2, <1>4, <1>6

(* box_remove frees a box of the name, and moves no other.                 *)
LEMMA BoxRemoved ==
    ASSUME TInv, NEW n \in Name, BoxRemove(n)
    PROVE  /\ capacity' = capacity
           /\ \E b \in Allocated :
                 /\ name[b] = n
                 /\ name' = [name EXCEPT ![b] = NoName]
                 /\ \A j \in 0 .. capacity - 1 : boxes[j] # b => boxes'[j] = boxes[j]
<1>1. PICK i \in 0 .. size - 1 :
          /\ IsFirst(i, SlotsOf(n))
          /\ boxes' = [boxes EXCEPT ![i] = NoBox]
          /\ name' = [name EXCEPT ![boxes[i]] = NoName]
          /\ capacity' = capacity
  BY DEF BoxRemove
<1>2. i \in Filled /\ name[boxes[i]] = n
  BY <1>1 DEF IsFirst, SlotsOf
<1>3. boxes[i] \in Allocated
  BY <1>2 DEF TInv, BoxesInTable
<1>4. boxes \in [0 .. capacity - 1 -> Box \cup {NoBox}]
  BY DEF TInv, TableTypeOK
<1>5. \A j \in 0 .. capacity - 1 : boxes[j] # boxes[i] => boxes'[j] = boxes[j]
  BY <1>1, <1>4
<1> QED
  BY <1>1, <1>2, <1>3, <1>5

(* What box_find looks for, and what a slot holds.                         *)
LEMMA SlotsAndBoxes ==
    ASSUME TInv
    PROVE  /\ \A n : SlotsOf(n) = {} => Missed(n)
           /\ \A n : \A i \in SlotsOf(n) :
                  i \in Nat /\ i < capacity /\ boxes[i] \in Allocated /\ name[boxes[i]] = n
           /\ \A i \in Nat : i < capacity /\ boxes[i] # NoBox => boxes[i] \in Allocated
<1>1. /\ capacity \in Nat \ {0} /\ size \in 0 .. capacity
      /\ boxes \in [0 .. capacity - 1 -> Box \cup {NoBox}]
      /\ {boxes[i] : i \in Filled} = Allocated
      /\ \A i \in 0 .. capacity - 1 : i >= size => boxes[i] = NoBox
  BY DEF TInv, TableTypeOK, BoxesInTable
<1>2. ASSUME NEW n, SlotsOf(n) = {}
      PROVE  Missed(n)
  BY <1>1, <1>2 DEF SlotsOf, Missed
<1>3. ASSUME NEW n, NEW i \in SlotsOf(n)
      PROVE  i \in Nat /\ i < capacity /\ boxes[i] \in Allocated /\ name[boxes[i]] = n
  <2>1. i \in Filled /\ name[boxes[i]] = n
    BY DEF SlotsOf
  <2>2. i \in Nat /\ i < size
    BY <1>1, <2>1 DEF Filled
  <2>3. i < capacity
    BY <1>1, <2>2
  <2> QED
    BY <1>1, <2>1, <2>2, <2>3
<1>4. ASSUME NEW i \in Nat, i < capacity, boxes[i] # NoBox
      PROVE  boxes[i] \in Allocated
  <2>1. i < size
    BY <1>1, <1>4
  <2>2. i \in Filled
    BY <1>1, <1>4, <2>1 DEF Filled
  <2> QED
    BY <1>1, <2>2
<1> QED
  BY <1>2, <1>3, <1>4

-------------------------------------------------------------------------------
(* What a step leaves alone.                                               *)

(* The other workers' requests.                                            *)
Others(w) ==
    \A v \in Worker : v # w =>
        /\ pc'[v] = pc[v] /\ kind'[v] = kind[v] /\ want'[v] = want[v]
        /\ at'[v] = at[v] /\ seen'[v] = seen[v] /\ ptr'[v] = ptr[v] /\ fd'[v] = fd[v]

LEMMA OthersKept ==
    ASSUME Typed, NEW w \in Worker, Step(w)
    PROVE  Others(w)
<1> USE DEF Typed, Others, Goto
<1>1. CASE End(w)
  BY <1>1 DEF End
<1>2. CASE \E k \in Kind, n \in Name : Arrive(w, k, n)
  BY <1>2 DEF Arrive
<1>3. CASE FindHit(w) \/ FetchBox(w)
  BY <1>3 DEF FindHit, FetchBox
<1>4. CASE FindMiss(w) \/ FetchNothing(w)
  BY <1>1, <1>4 DEF FindMiss, FetchNothing, Missing
<1>5. CASE OpenNew(w) \/ CloseNew(w) \/ CheckIdle(w) \/ Unlink(w)
  BY <1>5 DEF OpenNew, CloseNew, CheckIdle, Unlink
<1>6. CASE Count(w) \/ Open(w)
  BY <1>6 DEF Count, Open
<1>7. CASE LeavePub(w)
  BY <1>1, <1>7 DEF LeavePub
<1>8. CASE \/ FetchTaken(w) \/ OpenNewFails(w) \/ AddBox(w) \/ CheckActive(w)
           \/ Drop(w) \/ RemoveFails(w) \/ SecondPublisher(w) \/ OpenFails(w)
           \/ Close(w) \/ LeaveSub(w) \/ SessionFails(w)
  BY <1>1, <1>8 DEF FetchTaken, OpenNewFails, AddBox, CheckActive, Drop, RemoveFails,
              SecondPublisher, OpenFails, Close, LeaveSub, SessionFails
<1> QED
  BY <1>2, <1>3, <1>4, <1>5, <1>6, <1>7, <1>8 DEF Step

(* The files change when a creation makes one and a removal takes one.     *)
LEMMA FileFrame ==
    ASSUME NEW w \in Worker, Step(w)
    PROVE  \/ UNCHANGED file
           \/ pc[w] = "open_new" /\ MakeFile(want[w])
           \/ Unlink(w)
<1>1. CASE \/ \E k \in Kind, n \in Name : Arrive(w, k, n)
           \/ FindHit(w) \/ FindMiss(w)
           \/ FetchNothing(w) \/ FetchTaken(w) \/ FetchBox(w)
           \/ CloseNew(w) \/ AddBox(w) \/ CheckIdle(w) \/ CheckActive(w)
           \/ Drop(w) \/ RemoveFails(w)
  BY <1>1 DEF Arrive, FindHit, FindMiss, FetchNothing, FetchTaken, FetchBox,
              CloseNew, AddBox, CheckIdle, CheckActive, Drop, RemoveFails, fileVars
<1>2. CASE \/ Count(w) \/ SecondPublisher(w) \/ Open(w) \/ OpenFails(w)
           \/ LeavePub(w) \/ Close(w) \/ LeaveSub(w) \/ SessionFails(w)
  BY <1>2 DEF Count, SecondPublisher, Open, OpenFails, LeavePub, Close, LeaveSub,
              SessionFails, fileVars
<1>3. CASE OpenNew(w) \/ OpenNewFails(w) \/ Unlink(w)
  BY <1>3 DEF OpenNew, OpenNewFails, Unlink, MakeFile
<1> QED
  BY <1>1, <1>2, <1>3 DEF Step

-------------------------------------------------------------------------------
(* Types and counts.                                                       *)

LEMMA LocalsTyped ==
    ASSUME AlwaysInv, NEW w \in Worker, Step(w)
    PROVE  /\ pc' \in [Worker -> Label]
           /\ kind' \in [Worker -> Kind]
           /\ want' \in [Worker -> Name \cup {NoName}]
           /\ ptr' \in [Worker -> Box \cup {NoBox}]
           /\ fd' \in [Worker -> 0 .. MaxFiles]
<1>1. /\ pc \in [Worker -> Label]
      /\ kind \in [Worker -> Kind]
      /\ want \in [Worker -> Name \cup {NoName}]
      /\ at \in [Worker -> Nat] /\ \A v \in Worker : at[v] < capacity
      /\ ptr \in [Worker -> Box \cup {NoBox}]
      /\ fd \in [Worker -> 0 .. MaxFiles]
      /\ file \in [Name -> 0 .. MaxFiles]
  BY DEF AlwaysInv, Typed
<1>2. MaxFiles \in Nat /\ NoFile \in 0 .. MaxFiles
  BY BrokerAssumption DEF NoFile
<1>3. CASE End(w)
  BY <1>1, <1>2, <1>3 DEF End, Goto, Label, Kind
<1>4. CASE UNCHANGED <<kind, want, ptr, fd>> /\ \E l \in Label : Goto(w, l)
  BY <1>1, <1>4 DEF Goto
<1>5. CASE \E k \in Kind, n \in Name : Arrive(w, k, n)
  BY <1>1, <1>5 DEF Arrive, Goto, Label
<1>6. CASE FindHit(w)
  BY <1>4, <1>6 DEF FindHit, Label
<1>7. CASE FindMiss(w) \/ FetchNothing(w)
  BY <1>3, <1>4, <1>7 DEF FindMiss, FetchNothing, Missing, Label
<1>8. CASE FetchBox(w)
  <2>1. boxes[at[w]] \in Box \cup {NoBox}
    <3>1. at[w] \in 0 .. capacity - 1
      BY <1>1, SlotRange DEF AlwaysInv, TInv, TableTypeOK
    <3> QED
      BY <3>1 DEF AlwaysInv, TInv, TableTypeOK
  <2> QED
    BY <1>1, <1>8, <2>1 DEF FetchBox, Goto, Label
<1>9. CASE OpenNew(w) \/ CloseNew(w) \/ CheckIdle(w) \/ Unlink(w) \/ Count(w)
  BY <1>4, <1>9 DEF OpenNew, CloseNew, CheckIdle, Unlink, Count, Label
<1>10. CASE Open(w)
  <2>1. file[want[w]] \in 0 .. MaxFiles
    BY <1>1, <1>10 DEF Open, AlwaysInv, Requests, Proper
  <2> QED
    BY <1>1, <1>10, <2>1 DEF Open, Goto, Label
<1>11. CASE LeavePub(w)
  BY <1>3, <1>4, <1>11 DEF LeavePub, Label
<1>12. CASE \/ FetchTaken(w) \/ OpenNewFails(w) \/ AddBox(w) \/ CheckActive(w)
            \/ Drop(w) \/ RemoveFails(w) \/ SecondPublisher(w) \/ OpenFails(w)
            \/ Close(w) \/ LeaveSub(w) \/ SessionFails(w)
  BY <1>3, <1>12 DEF FetchTaken, OpenNewFails, AddBox, CheckActive, Drop, RemoveFails,
              SecondPublisher, OpenFails, Close, LeaveSub, SessionFails
<1> QED
  BY <1>5, <1>6, <1>7, <1>8, <1>9, <1>10, <1>11, <1>12 DEF Step

(* No step makes the array shorter, so an index stays inside.              *)
LEMMA IndexTyped ==
    ASSUME AlwaysInv, NEW w \in Worker, Step(w)
    PROVE  /\ at' \in [Worker -> Nat] /\ seen' \in [Worker -> Nat]
           /\ \A v \in Worker : at'[v] < capacity' /\ seen'[v] <= capacity'
<1>1. /\ at \in [Worker -> Nat] /\ seen \in [Worker -> Nat]
      /\ \A v \in Worker : at[v] < capacity /\ seen[v] <= capacity
      /\ capacity \in Nat \ {0}
  BY DEF AlwaysInv, Typed, TInv, TableTypeOK
<1>2. capacity' \in Nat /\ capacity <= capacity'
  <2>1. TInv'
    BY StepsTable, StepInv DEF AlwaysInv
  <2>2. CASE AddBox(w) \/ Drop(w)
    <3>1. PICK n \in Name : n = want[w]
      BY <2>2 DEF AddBox, Drop, AlwaysInv, Requests, Proper
    <3>2. CASE AddBox(w)
      BY <2>1, <3>1, <3>2, BoxAdded DEF AddBox, AlwaysInv, TInv, TableTypeOK
    <3>3. CASE Drop(w)
      BY <1>1, <3>1, <3>3, BoxRemoved DEF Drop, AlwaysInv
    <3> QED
      BY <2>2, <3>2, <3>3
  <2>3. CASE ~ (AddBox(w) \/ Drop(w))
    BY <1>1, <2>3, TableFrame DEF tableVars
  <2> QED
    BY <2>2, <2>3
<1>3. CASE UNCHANGED <<at, seen>>
  BY <1>1, <1>2, <1>3
<1>4. CASE End(w)
  BY <1>1, <1>2, <1>4 DEF End, NoSlot
<1>5. CASE FindHit(w)
  <2>1. PICK i \in SlotsOf(want[w]) :
            /\ at' = [at EXCEPT ![w] = i]
            /\ seen' = [seen EXCEPT ![w] = capacity]
    BY <1>5 DEF FindHit
  <2>2. i \in Nat /\ i < capacity
    BY <2>1, SlotsAndBoxes DEF AlwaysInv
  <2> QED
    BY <1>1, <1>2, <2>1, <2>2
<1>6. CASE FetchBox(w)
  BY <1>1, <1>2, <1>6 DEF FetchBox, NoSlot
<1>7. CASE FindMiss(w) \/ FetchNothing(w) \/ LeavePub(w)
  BY <1>3, <1>4, <1>7 DEF FindMiss, FetchNothing, Missing, LeavePub
<1>8. CASE \/ \E k \in Kind, n \in Name : Arrive(w, k, n)
           \/ OpenNew(w) \/ CloseNew(w) \/ CheckIdle(w) \/ Unlink(w) \/ Count(w)
           \/ Open(w)
  BY <1>3, <1>8 DEF Arrive, OpenNew, CloseNew, CheckIdle, Unlink, Count, Open
<1>9. CASE \/ FetchTaken(w) \/ OpenNewFails(w) \/ AddBox(w) \/ CheckActive(w)
           \/ Drop(w) \/ RemoveFails(w) \/ SecondPublisher(w) \/ OpenFails(w)
           \/ Close(w) \/ LeaveSub(w) \/ SessionFails(w)
  BY <1>4, <1>9 DEF FetchTaken, OpenNewFails, AddBox, CheckActive, Drop, RemoveFails,
              SecondPublisher, OpenFails, Close, LeaveSub, SessionFails
<1> QED
  BY <1>5, <1>6, <1>7, <1>8, <1>9 DEF Step

LEMMA RequestsKept ==
    ASSUME AlwaysInv, NEW w \in Worker, Step(w)
    PROVE  Requests'
<1>1. Typed /\ Requests /\ Proper(w)
  BY DEF AlwaysInv, Requests
<1>2. ASSUME NEW v \in Worker, v # w
      PROVE  Proper(v)'
  <2>1. Others(w) /\ Proper(v)
    BY <1>1, OthersKept DEF Requests
  <2> QED
    BY <1>2, <2>1 DEF Others, Proper
<1>3. Proper(w)'
  <2> USE DEF Typed, Proper, Goto
  <2>1. CASE End(w)
    BY <1>1, <2>1 DEF End
  <2>2. CASE \E k \in Kind, n \in Name : Arrive(w, k, n)
    BY <1>1, <2>2 DEF Arrive
  <2>3. CASE FindHit(w)
    BY <1>1, <2>3 DEF FindHit
  <2>4. CASE FindMiss(w) \/ FetchNothing(w)
    BY <1>1, <2>1, <2>4 DEF FindMiss, FetchNothing, Missing
  <2>5. CASE FetchBox(w)
    BY <1>1, <2>5 DEF FetchBox, Kind
  <2>6. CASE OpenNew(w) \/ CloseNew(w)
    BY <1>1, <2>6 DEF OpenNew, CloseNew
  <2>7. CASE CheckIdle(w) \/ Unlink(w)
    BY <1>1, <2>7 DEF CheckIdle, Unlink
  <2>8. CASE Count(w) \/ Open(w)
    BY <1>1, <2>8 DEF Count, Open
  <2>9. CASE LeavePub(w)
    BY <1>1, <2>1, <2>9 DEF LeavePub
  <2>10. CASE \/ FetchTaken(w) \/ OpenNewFails(w) \/ AddBox(w) \/ CheckActive(w)
              \/ Drop(w) \/ RemoveFails(w) \/ SecondPublisher(w) \/ OpenFails(w)
              \/ Close(w) \/ LeaveSub(w) \/ SessionFails(w)
    BY <2>1, <2>10 DEF FetchTaken, OpenNewFails, AddBox, CheckActive, Drop,
                RemoveFails, SecondPublisher, OpenFails, Close, LeaveSub, SessionFails
  <2> QED
    BY <2>2, <2>3, <2>4, <2>5, <2>6, <2>7, <2>8, <2>9, <2>10 DEF Step
<1> QED
  BY <1>2, <1>3 DEF Requests

(* Files, handles and the rest.                                            *)
LEMMA FilesTyped ==
    ASSUME AlwaysInv, NEW w \in Worker, Step(w)
    PROVE  file' \in [Name -> 0 .. MaxFiles]
<1>1. file \in [Name -> 0 .. MaxFiles] /\ MaxFiles \in Nat /\ 0 \in 0 .. MaxFiles
  BY BrokerAssumption DEF AlwaysInv, Typed
<1>2. CASE pc[w] = "open_new" /\ MakeFile(want[w])
  BY <1>1, <1>2 DEF MakeFile, FreeInodes, Inum, IsFirst
<1>3. CASE Unlink(w)
  BY <1>1, <1>3 DEF Unlink, NoFile
<1> QED
  BY <1>1, <1>2, <1>3, FileFrame

LEMMA CountsTyped ==
    ASSUME AlwaysInv, NEW w \in Worker, Step(w)
    PROVE  /\ pub_num' \in [Box -> 0 .. 1]
           /\ sub_num' \in [Box -> Nat]
           /\ raced' \in BOOLEAN
           /\ status' \in {"running", "freed_box", "freed_array"}
<1>1. /\ pub_num \in [Box -> 0 .. 1] /\ sub_num \in [Box -> Nat]
      /\ raced \in BOOLEAN /\ status \in {"running", "freed_box", "freed_array"}
  BY DEF AlwaysInv, Typed
<1>2. CASE UNCHANGED countVars /\ Stay
  BY <1>1, <1>2 DEF countVars, Stay
<1>3. CASE \E k \in Kind, n \in Name : Arrive(w, k, n)
  BY <1>1, <1>3 DEF Arrive, countVars, Conflict
<1>4. CASE Drop(w)
  BY <1>1, <1>4 DEF Drop, Stay
<1>5. CASE Count(w)
  BY <1>1, <1>5 DEF Count, Stay, Alive, Allocated
<1>6. CASE LeavePub(w)
  BY <1>1, <1>6 DEF LeavePub, Stay, Alive, Allocated
<1>7. CASE LeaveSub(w)
  BY <1>1, <1>7 DEF LeaveSub, Stay, Alive, Allocated
<1>8. CASE \/ FindHit(w) \/ FindMiss(w)
           \/ FetchNothing(w) \/ FetchTaken(w) \/ FetchBox(w)
           \/ OpenNew(w) \/ OpenNewFails(w) \/ CloseNew(w) \/ AddBox(w)
           \/ CheckIdle(w) \/ CheckActive(w) \/ Unlink(w) \/ RemoveFails(w)
  BY <1>2, <1>8 DEF FindHit, FindMiss, FetchNothing, FetchTaken, FetchBox, OpenNew,
              OpenNewFails, CloseNew, AddBox, CheckIdle, CheckActive, Unlink, RemoveFails
<1>9. CASE SecondPublisher(w) \/ Open(w) \/ OpenFails(w) \/ Close(w) \/ SessionFails(w)
  BY <1>2, <1>9 DEF SecondPublisher, Open, OpenFails, Close, SessionFails, countVars
<1> QED
  BY <1>3, <1>4, <1>5, <1>6, <1>7, <1>8, <1>9 DEF Step

(* Whoever closes a handle holds one, so handles does not pass 0.          *)
LEMMA HandlesKept ==
    ASSUME AlwaysInv, NEW w \in Worker, Step(w)
    PROVE  handles' \in Nat /\ handles' <= MaxOpenFiles /\ HandlesCounted'
<1>1. /\ handles \in Nat /\ handles <= MaxOpenFiles /\ MaxOpenFiles \in Nat
      /\ IsFiniteSet(Busy) /\ Cardinality(Holders) <= handles
      /\ Typed /\ Others(w)
  BY OthersKept, BrokerAssumption DEF AlwaysInv, Typed, HandlesCounted
<1>2. IsFiniteSet(Busy')
  <2>1. Busy' \subseteq Busy \cup {w}
    BY <1>1 DEF Busy, Others
  <2>2. IsFiniteSet(Busy \cup {w})
    BY <1>1, FS_AddElement
  <2> QED
    BY <2>1, <2>2, FS_Subset
<1>3. IsFiniteSet(Holders) /\ Cardinality(Holders) \in Nat
  <2>1. Holders \subseteq Busy
    BY DEF Holders, Busy
  <2> QED
    BY <1>1, <2>1, FS_Subset, FS_CardinalityType
<1>4. /\ IsFiniteSet(Holders \cup {w})
      /\ Cardinality(Holders \cup {w}) <= Cardinality(Holders) + 1
      /\ IsFiniteSet(Holders \ {w})
      /\ w \in Holders => Cardinality(Holders \ {w}) = Cardinality(Holders) - 1
  BY <1>3, FS_AddElement, FS_RemoveElement
<1>5. \A v \in Worker : v # w => (v \in Holders' <=> v \in Holders)
  BY <1>1 DEF Holders, Others
<1>6. CASE handles' = handles /\ (w \in Holders' => w \in Holders)
  <2>1. Holders' \subseteq Holders
    BY <1>5, <1>6 DEF Holders
  <2>2. Cardinality(Holders') <= Cardinality(Holders) /\ Cardinality(Holders') \in Nat
    BY <1>3, <2>1, FS_Subset, FS_CardinalityType
  <2> QED
    BY <1>1, <1>2, <1>3, <1>6, <2>2 DEF HandlesCounted
<1>7. CASE handles < MaxOpenFiles /\ handles' = handles + 1 /\ w \in Holders'
  <2>1. Holders' \subseteq Holders \cup {w}
    BY <1>5, <1>7 DEF Holders
  <2>2. /\ Cardinality(Holders') <= Cardinality(Holders \cup {w})
        /\ Cardinality(Holders \cup {w}) \in Nat /\ Cardinality(Holders') \in Nat
    BY <1>4, <2>1, FS_Subset, FS_CardinalityType
  <2> QED
    BY <1>1, <1>2, <1>3, <1>4, <1>7, <2>2 DEF HandlesCounted
<1>8. CASE handles' = handles - 1 /\ w \in Holders /\ w \notin Holders'
  <2>1. Holders' = Holders \ {w}
    BY <1>5, <1>8 DEF Holders
  <2>2. Cardinality(Holders') = Cardinality(Holders) - 1 /\ Cardinality(Holders') \in Nat
    BY <1>4, <1>8, <2>1, FS_CardinalityType
  <2> QED
    BY <1>1, <1>2, <1>3, <1>8, <2>2 DEF HandlesCounted
<1> USE DEF Typed, Holders, Goto, End, fileVars
<1>9. CASE OpenNew(w) \/ Open(w)
  BY <1>1, <1>7, <1>9 DEF OpenNew, Open
<1>10. CASE CloseNew(w) \/ Close(w) \/ SessionFails(w)
  BY <1>1, <1>8, <1>10 DEF CloseNew, Close, SessionFails
<1>11. CASE LeavePub(w) \/ LeaveSub(w)
  BY <1>1, <1>6, <1>11 DEF LeavePub, LeaveSub
<1>12. CASE FindMiss(w) \/ FetchNothing(w)
  BY <1>1, <1>6, <1>12 DEF FindMiss, FetchNothing, Missing
<1>13. CASE \/ \E k \in Kind, n \in Name : Arrive(w, k, n)
            \/ FindHit(w) \/ FetchTaken(w) \/ FetchBox(w) \/ OpenNewFails(w)
            \/ AddBox(w)
  BY <1>1, <1>6, <1>13 DEF Arrive, FindHit, FetchTaken, FetchBox, OpenNewFails, AddBox
<1>14. CASE \/ CheckIdle(w) \/ CheckActive(w) \/ Unlink(w) \/ Drop(w) \/ RemoveFails(w)
            \/ Count(w) \/ SecondPublisher(w) \/ OpenFails(w)
  BY <1>1, <1>6, <1>14 DEF CheckIdle, CheckActive, Unlink, Drop, RemoveFails, Count,
              SecondPublisher, OpenFails
<1> QED
  BY <1>9, <1>10, <1>11, <1>12, <1>13, <1>14 DEF Step

(* A subscriber that is counted was on its way before.                     *)
LEMMA SubsKept ==
    ASSUME AlwaysInv, NEW w \in Worker, Step(w)
    PROVE  SubsBounded'
<1>1. /\ sub_num \in [Box -> Nat] /\ sub_num' \in [Box -> Nat] /\ MaxSubNum \in Nat
      /\ \A b \in Box : sub_num[b] + Cardinality(Ahead) <= MaxSubNum
      /\ IsFiniteSet(Busy) /\ Typed /\ Proper(w) /\ Others(w)
  BY OthersKept, CountsTyped, BrokerAssumption
  DEF AlwaysInv, Typed, SubsBounded, HandlesCounted, Requests
<1>2. IsFiniteSet(Ahead) /\ Cardinality(Ahead) \in Nat
  <2>1. Ahead \subseteq Busy
    BY DEF Ahead, Busy
  <2> QED
    BY <1>1, <2>1, FS_Subset, FS_CardinalityType
<1>3. \A v \in Worker : v # w => (v \in Ahead' <=> v \in Ahead)
  BY <1>1 DEF Ahead, Others
<1>4. CASE (w \in Ahead' => w \in Ahead) /\ \A b \in Box : sub_num'[b] <= sub_num[b]
  <2>1. Ahead' \subseteq Ahead
    BY <1>3, <1>4 DEF Ahead
  <2>2. Cardinality(Ahead') <= Cardinality(Ahead) /\ Cardinality(Ahead') \in Nat
    BY <1>2, <2>1, FS_Subset, FS_CardinalityType
  <2> QED
    BY <1>1, <1>2, <1>4, <2>2 DEF SubsBounded
<1>5. ASSUME NEW k \in Kind, NEW n \in Name, Arrive(w, k, n)
      PROVE  SubsBounded'
  <2>1. UNCHANGED sub_num
    BY <1>5 DEF Arrive, countVars
  <2>2. CASE k # "sub"
    <3>1. w \notin Ahead'
      BY <1>1, <1>5, <2>2 DEF Arrive, Typed, Ahead
    <3> QED
      BY <1>1, <1>4, <2>1, <3>1
  <2>3. CASE k = "sub"
    <3> DEFINE Onway == {v \in Worker : kind[v] = "sub" /\ pc[v] \notin {"idle", "session"}}
    <3>1. \A b \in Box : sub_num[b] + Cardinality(Onway) < MaxSubNum
      BY <1>5, <2>3 DEF Arrive, Bounded, Coming
    <3>2. Ahead \subseteq Onway /\ Onway \subseteq Busy
      BY DEF Ahead, Busy
    <3>3. IsFiniteSet(Onway) /\ Cardinality(Onway) \in Nat
      BY <1>1, <3>2, FS_Subset, FS_CardinalityType
    <3>4. Cardinality(Ahead) <= Cardinality(Onway)
      BY <3>2, <3>3, FS_Subset
    <3>5. Ahead' \subseteq Ahead \cup {w}
      BY <1>3 DEF Ahead
    <3>6. /\ IsFiniteSet(Ahead \cup {w})
          /\ Cardinality(Ahead \cup {w}) = Cardinality(Ahead) + 1
      <4>1. w \notin Ahead
        BY <1>5 DEF Arrive, Ahead
      <4> QED
        BY <1>2, <4>1, FS_AddElement
    <3>7. /\ Cardinality(Ahead') <= Cardinality(Ahead \cup {w})
          /\ Cardinality(Ahead') \in Nat /\ Cardinality(Ahead \cup {w}) \in Nat
      BY <3>5, <3>6, FS_Subset, FS_CardinalityType
    <3> HIDE DEF Onway
    <3> QED
      BY <1>1, <1>2, <2>1, <3>1, <3>3, <3>4, <3>6, <3>7 DEF SubsBounded
  <2> QED
    BY <2>2, <2>3
<1>6. CASE Count(w)
  <2>1. CASE kind[w] = "pub"
    <3>1. UNCHANGED sub_num
      BY <1>6, <2>1 DEF Count
    <3>2. w \notin Ahead'
      BY <1>1, <1>6 DEF Count, Goto, Typed, Ahead
    <3> QED
      BY <1>1, <1>4, <3>1, <3>2
  <2>2. CASE kind[w] = "sub"
    <3>1. w \in Ahead
      BY <1>6, <2>2 DEF Count, Ahead
    <3>2. Ahead' = Ahead \ {w}
      <4>1. w \notin Ahead'
        BY <1>1, <1>6 DEF Count, Goto, Typed, Ahead
      <4> QED
        BY <1>3, <4>1 DEF Ahead
    <3>3. Cardinality(Ahead') = Cardinality(Ahead) - 1
      BY <1>2, <3>1, <3>2, FS_RemoveElement
    <3>4. \A b \in Box : sub_num'[b] <= sub_num[b] + 1
      BY <1>1, <1>6, <2>2 DEF Count
    <3> QED
      BY <1>1, <1>2, <3>3, <3>4 DEF SubsBounded
  <2> QED
    BY <1>6, <2>1, <2>2 DEF Count
<1>7. ASSUME w \notin Ahead', UNCHANGED sub_num
      PROVE  SubsBounded'
  BY <1>1, <1>4, <1>7
<1> USE DEF Typed, Ahead, Goto, countVars
<1>8. CASE Drop(w)
  <2>1. \A b \in Box : sub_num'[b] <= sub_num[b]
    BY <1>1, <1>8 DEF Drop
  <2> QED
    BY <1>1, <1>4, <1>8, <2>1 DEF Drop, End
<1>9. CASE LeaveSub(w)
  <2>1. \A b \in Box : sub_num'[b] <= sub_num[b]
    BY <1>1, <1>9 DEF LeaveSub
  <2> QED
    BY <1>1, <1>4, <1>9, <2>1 DEF LeaveSub, End
<1>10. CASE FindHit(w) \/ FindMiss(w)
  BY <1>1, <1>4, <1>10 DEF FindHit, FindMiss, Missing, End
<1>11. CASE FetchNothing(w) \/ FetchTaken(w) \/ FetchBox(w)
  BY <1>1, <1>4, <1>11 DEF FetchNothing, Missing, FetchTaken, FetchBox, End
<1>12. CASE OpenNew(w) \/ OpenNewFails(w) \/ CloseNew(w) \/ AddBox(w)
  BY <1>1, <1>7, <1>12 DEF OpenNew, OpenNewFails, CloseNew, AddBox, End
<1>13. CASE CheckIdle(w) \/ CheckActive(w) \/ Unlink(w) \/ RemoveFails(w)
  BY <1>1, <1>7, <1>13 DEF CheckIdle, CheckActive, Unlink, RemoveFails, End
<1>14. CASE SecondPublisher(w) \/ Open(w) \/ OpenFails(w) \/ LeavePub(w)
  BY <1>1, <1>7, <1>14 DEF SecondPublisher, Open, OpenFails, LeavePub, End
<1>15. CASE Close(w) \/ SessionFails(w)
  BY <1>1, <1>4, <1>15 DEF Close, SessionFails, End
<1> QED
  BY <1>5, <1>6, <1>8, <1>9, <1>10, <1>11, <1>12, <1>13, <1>14, <1>15 DEF Step

(* How a request gets to where it is.                                      *)
LEMMA Entries ==
    ASSUME AlwaysInv, NEW w \in Worker, Step(w)
    PROVE  /\ pc'[w] = "fetch" => FindHit(w)
           /\ pc'[w] = "open_new" => FindMiss(w) \/ FetchNothing(w)
           /\ pc'[w] = "close_new" => OpenNew(w)
           /\ pc'[w] = "add" => CloseNew(w)
           /\ pc'[w] \in {"check", "count"} => FetchBox(w)
           /\ pc'[w] = "unlink" => CheckIdle(w)
           /\ pc'[w] = "drop" => Unlink(w)
           /\ pc'[w] = "open" => Count(w)
           /\ pc'[w] = "session" => Open(w)
           /\ pc'[w] # "idle" =>
                 \/ \E k \in Kind, n \in Name : Arrive(w, k, n)
                 \/ pc[w] # "idle" /\ kind'[w] = kind[w] /\ want'[w] = want[w]
           /\ IsPending(w)' =>
                 (\E k \in Kind, n \in Name : Arrive(w, k, n)) \/ IsPending(w)
<1>1. Typed
  BY DEF AlwaysInv
<1> USE <1>1 DEF Typed, Goto, IsPending
<1>2. CASE End(w)
  BY <1>2 DEF End
<1>3. CASE \E k \in Kind, n \in Name : Arrive(w, k, n)
  BY <1>3 DEF Arrive
<1>4. CASE FindHit(w) \/ FetchBox(w)
  BY <1>4 DEF FindHit, FetchBox
<1>5. CASE FindMiss(w) \/ FetchNothing(w)
  BY <1>2, <1>5 DEF FindMiss, FetchNothing, Missing
<1>6. CASE OpenNew(w) \/ CloseNew(w) \/ CheckIdle(w) \/ Unlink(w)
  BY <1>6 DEF OpenNew, CloseNew, CheckIdle, Unlink
<1>7. CASE Count(w) \/ Open(w)
  BY <1>7 DEF Count, Open
<1>8. CASE LeavePub(w)
  BY <1>2, <1>8 DEF LeavePub
<1>9. CASE \/ FetchTaken(w) \/ OpenNewFails(w) \/ AddBox(w) \/ CheckActive(w)
           \/ Drop(w) \/ RemoveFails(w) \/ SecondPublisher(w) \/ OpenFails(w)
           \/ Close(w) \/ LeaveSub(w) \/ SessionFails(w)
  BY <1>2, <1>9 DEF FetchTaken, OpenNewFails, AddBox, CheckActive, Drop, RemoveFails,
              SecondPublisher, OpenFails, Close, LeaveSub, SessionFails
<1> QED
  BY <1>3, <1>4, <1>5, <1>6, <1>7, <1>8, <1>9 DEF Step

(* Once two requests have met, that is not forgotten; and no step of a     *)
(* request changes status, but the uses of freed memory.                   *)
LEMMA CalmBefore ==
    ASSUME NEW w \in Worker, Step(w)
    PROVE  /\ raced => raced'
           /\ UNCHANGED status
<1>0. CASE \E k \in Kind, n \in Name : Arrive(w, k, n)
  BY <1>0 DEF Arrive
<1>1. CASE \/ FindHit(w) \/ FindMiss(w)
           \/ FetchNothing(w) \/ FetchTaken(w) \/ FetchBox(w)
           \/ OpenNew(w) \/ OpenNewFails(w) \/ CloseNew(w) \/ AddBox(w)
  BY <1>1 DEF FindHit, FindMiss, FetchNothing, FetchTaken, FetchBox,
              OpenNew, OpenNewFails, CloseNew, AddBox, Stay
<1>2. CASE \/ CheckIdle(w) \/ CheckActive(w) \/ Unlink(w) \/ Drop(w) \/ RemoveFails(w)
           \/ Count(w) \/ SecondPublisher(w) \/ Open(w) \/ OpenFails(w)
           \/ LeavePub(w) \/ Close(w) \/ LeaveSub(w) \/ SessionFails(w)
  BY <1>2 DEF CheckIdle, CheckActive, Unlink, Drop, RemoveFails, Count,
              SecondPublisher, Open, OpenFails, LeavePub, Close, LeaveSub,
              SessionFails, Stay
<1> QED
  BY <1>0, <1>1, <1>2 DEF Step

(* Whatever uses freed memory changes nothing but status.                  *)
LEMMA FaultFrame ==
    ASSUME NEW w \in Worker, UseFreed(w) \/ FetchMoved(w)
    PROVE  /\ UNCHANGED <<tableVars, requestVars, fileVars, countVars, raced>>
           /\ status' = IF UseFreed(w) THEN "freed_box" ELSE "freed_array"
BY DEF UseFreed, FetchMoved

(* The array does not grow before it is full, nor does peak go down.       *)
LEMMA ArrayGrowsFull ==
    ASSUME AlwaysInv, NEW w \in Worker, Step(w)
    PROVE  /\ peak' \in Nat /\ peak <= peak'
           /\ peak' < StartCapacity => UNCHANGED capacity
<1>1. /\ peak \in Nat /\ num_elem \in Nat
      /\ capacity \in Nat \ {0} /\ size \in 0 .. capacity
      /\ size <= peak /\ StartCapacity \in Nat
      /\ peak < StartCapacity => capacity = StartCapacity
  BY BoxTableAssumption DEF AlwaysInv, ArrayKept, TInv, TableTypeOK, TableFollowsPeak
<1>2. CASE AddBox(w)
  <2>1. /\ capacity' = NewCapacity
        /\ peak' = IF num_elem < peak THEN peak ELSE num_elem + 1
    BY <1>2 DEF AddBox, BoxAdd, AddLast, AddInHole
  <2>2. peak' \in Nat /\ peak <= peak'
    BY <1>1, <2>1
  <2>3. ASSUME peak' < StartCapacity
        PROVE  size # capacity
    BY <1>1, <2>2, <2>3
  <2> QED
    BY <2>1, <2>2, <2>3 DEF NewCapacity
<1>3. CASE Drop(w)
  BY <1>1, <1>3 DEF Drop, BoxRemove
<1>4. CASE UNCHANGED tableVars
  BY <1>1, <1>4 DEF tableVars
<1> QED
  BY <1>2, <1>3, <1>4, TableFrame

(* A reader of a table that was never full saw the array that is there.    *)
LEMMA ArrayStays ==
    ASSUME AlwaysInv, NEW w \in Worker, Step(w), UNCHANGED status
    PROVE  ArrayKept'
<1>1. /\ peak' \in Nat /\ peak <= peak' /\ peak \in Nat /\ StartCapacity \in Nat
      /\ peak' < StartCapacity => UNCHANGED capacity
  BY ArrayGrowsFull, BoxTableAssumption DEF AlwaysInv, TInv, TableTypeOK
<1>2. /\ peak < StartCapacity =>
            /\ capacity = StartCapacity
            /\ \A v \in Worker : pc[v] = "fetch" => seen[v] = StartCapacity
      /\ status = "freed_array" => peak >= StartCapacity
  BY DEF AlwaysInv, ArrayKept
<1>3. ASSUME peak' < StartCapacity, NEW v \in Worker, pc'[v] = "fetch"
      PROVE  seen'[v] = StartCapacity
  <2>1. peak < StartCapacity
    BY <1>1, <1>3
  <2>2. CASE v = w
    <3>1. FindHit(w)
      BY <1>3, <2>2, Entries
    <3> QED
      BY <1>2, <2>1, <2>2, <3>1 DEF FindHit, AlwaysInv, Typed
  <2>3. CASE v # w
    BY <1>2, <1>3, <2>1, <2>3, OthersKept DEF AlwaysInv, Others
  <2> QED
    BY <2>2, <2>3
<1>4. peak' < StartCapacity => peak < StartCapacity
  BY <1>1
<1>5. status' = "freed_array" => peak' >= StartCapacity
  BY <1>1, <1>2
<1> QED
  BY <1>1, <1>2, <1>3, <1>4, <1>5 DEF ArrayKept

-------------------------------------------------------------------------------
(* The invariant of every behaviour.                                       *)

LEMMA AlwaysInit ==
    ASSUME Init
    PROVE  AlwaysInv
<1>1. TInv
  BY InitInv DEF Init
<1>2. Typed
  <2>1. MaxFiles \in Nat /\ MaxOpenFiles \in Nat /\ StartCapacity \in Nat \ {0}
    BY BrokerAssumption, BoxTableAssumption
  <2>2. /\ at \in [Worker -> Nat] /\ seen \in [Worker -> Nat]
        /\ \A w \in Worker : at[w] < capacity /\ seen[w] <= capacity
    BY <2>1 DEF Init, TableInit, NoSlot
  <2>3. /\ pc \in [Worker -> Label] /\ kind \in [Worker -> Kind]
        /\ want \in [Worker -> Name \cup {NoName}]
        /\ ptr \in [Worker -> Box \cup {NoBox}]
    BY DEF Init, Label, Kind
  <2>4. fd \in [Worker -> 0 .. MaxFiles] /\ file \in [Name -> 0 .. MaxFiles]
    BY <2>1 DEF Init, NoFile
  <2>5. pub_num \in [Box -> 0 .. 1] /\ sub_num \in [Box -> Nat]
    BY DEF Init
  <2>6. raced \in BOOLEAN /\ status \in {"running", "freed_box", "freed_array"}
    BY DEF Init
  <2>7. handles \in Nat /\ handles <= MaxOpenFiles
    <3>1. handles = 0
      BY DEF Init
    <3> QED
      BY <2>1, <3>1
  <2> QED
    BY <2>2, <2>3, <2>4, <2>5, <2>6, <2>7 DEF Typed
<1>3. Requests
  BY DEF Init, Requests, Proper
<1>4. Busy = {} /\ Holders = {} /\ Ahead = {}
  BY DEF Init, Busy, Holders, Ahead
<1>5. HandlesCounted /\ SubsBounded
  BY <1>4, FS_EmptySet, BrokerAssumption DEF Init, HandlesCounted, SubsBounded
<1>6. ArrayKept
  BY DEF Init, TableInit, ArrayKept
<1> QED
  BY <1>1, <1>2, <1>3, <1>5, <1>6 DEF AlwaysInv

(* Nothing in it but ArrayKept depends on status.                          *)
LEMMA AlwaysFramed ==
    ASSUME AlwaysInv,
           UNCHANGED <<tableVars, requestVars, fileVars, countVars, raced>>,
           status' \in {"running", "freed_box", "freed_array"},
           status' = "freed_array" => peak >= StartCapacity
    PROVE  AlwaysInv'
<1>1. TInv'
  BY StepInv DEF AlwaysInv
<1> QED
  BY <1>1 DEF AlwaysInv, Typed, Requests, Proper, HandlesCounted, Busy, Holders,
    SubsBounded, Ahead, ArrayKept, tableVars, requestVars, fileVars, countVars

LEMMA AlwaysKept ==
    ASSUME AlwaysInv, [Next]_vars
    PROVE  AlwaysInv'
<1>1. ASSUME NEW w \in Worker, Step(w)
      PROVE  AlwaysInv'
  <2>1. TInv'
    BY <1>1, StepsTable, StepInv DEF AlwaysInv
  <2>2. Typed'
    BY <1>1, LocalsTyped, IndexTyped, FilesTyped, CountsTyped, HandlesKept DEF Typed
  <2>3. ArrayKept'
    BY <1>1, CalmBefore, ArrayStays
  <2> QED
    BY <1>1, <2>1, <2>2, <2>3, RequestsKept, HandlesKept, SubsKept DEF AlwaysInv
<1>2. ASSUME NEW w \in Worker, UseFreed(w) \/ FetchMoved(w)
      PROVE  AlwaysInv'
  <2>1. status' = "freed_array" => FetchMoved(w)
    BY <1>2, FaultFrame
  <2>2. /\ peak < StartCapacity =>
              /\ capacity = StartCapacity
              /\ \A v \in Worker : pc[v] = "fetch" => seen[v] = StartCapacity
        /\ peak \in Nat /\ StartCapacity \in Nat
    BY BoxTableAssumption DEF AlwaysInv, ArrayKept, TInv, TableTypeOK
  <2>3. FetchMoved(w) => peak >= StartCapacity
    BY <2>2 DEF FetchMoved
  <2> QED
    BY <1>2, <2>1, <2>3, FaultFrame, AlwaysFramed
<1>3. CASE UNCHANGED vars
  BY <1>3, AlwaysFramed DEF vars, AlwaysInv, Typed, ArrayKept
<1> QED
  BY <1>1, <1>2, <1>3 DEF Next, Lost

(* Whatever requests meet: a request is at a line of its handler, and the  *)
(* counts of handles and of subscribers cover those who have one.          *)
THEOREM AlwaysInvariance == Spec => []AlwaysInv
<1>1. Init => AlwaysInv
  BY AlwaysInit
<1>2. AlwaysInv /\ [Next]_vars => AlwaysInv'
  BY AlwaysKept
<1> QED
  BY <1>1, <1>2, PTL DEF Spec

(* The variables of the broker have their types, whatever the requests do  *)
(* at once: no index is outside the array, the count of open handles stays *)
(* within the table, and pub_num is a flag.                                *)
THEOREM TypeCorrect == Spec => []TypeOK
<1>1. ASSUME AlwaysInv
      PROVE  TypeOK
  <2>1. at \in [Worker -> 0 .. capacity - 1]
    BY <1>1 DEF AlwaysInv, Typed, TInv, TableTypeOK
  <2>2. handles \in 0 .. MaxOpenFiles
    BY <1>1, BrokerAssumption DEF AlwaysInv, Typed
  <2>3. sub_num \in [Box -> 0 .. MaxSubNum]
    <3>1. ASSUME NEW b \in Box
          PROVE  sub_num[b] \in 0 .. MaxSubNum
      <4>1. Cardinality(Ahead) \in Nat
        <5>1. Ahead \subseteq Busy
          BY DEF Ahead, Busy
        <5> QED
          BY <1>1, <5>1, FS_Subset, FS_CardinalityType DEF AlwaysInv, HandlesCounted
      <4> QED
        BY <1>1, <4>1, BrokerAssumption DEF AlwaysInv, Typed, SubsBounded
    <3> QED
      BY <1>1, <3>1 DEF AlwaysInv, Typed
  <2> QED
    BY <1>1, <2>1, <2>2, <2>3 DEF AlwaysInv, Typed, TInv, TypeOK
<1> QED
  BY <1>1, AlwaysInvariance, PTL

(* Requests that meet in the middle of each other use the table as one     *)
(* operation after the other: whatever holds of the table holds of it in   *)
(* the broker.                                                             *)
THEOREM BrokerKeepsTable == Spec => TableSpec
<1>1. Init => TableInit
  BY DEF Init
<1>2. AlwaysInv /\ [Next]_vars => [TableNext]_tableVars
  <2>1. ASSUME AlwaysInv, NEW w \in Worker, Step(w)
        PROVE  [TableNext]_tableVars
    BY <2>1, StepsTable DEF AlwaysInv
  <2>2. ASSUME \/ UNCHANGED vars
               \/ \E w \in Worker : UseFreed(w) \/ FetchMoved(w)
        PROVE  UNCHANGED tableVars
    BY <2>2, FaultFrame DEF vars
  <2> QED
    BY <2>1, <2>2 DEF Next, Lost
<1> QED
  BY <1>1, <1>2, AlwaysInvariance, PTL DEF Spec, TableSpec

-------------------------------------------------------------------------------
(* While all is calm.                                                      *)

(* A box that a request knows is not freed.                                *)
LEMMA NothingFreed ==
    ASSUME CalmInv, NEW w \in Worker
    PROVE  ~ UseFreed(w)
BY DEF CalmInv, RequestsKnow, KnowsBox, UseFreed, Alive

(* A creation or a removal under way shares its name with no other request *)
(* under way.                                                              *)
LEMMA NameOfManager ==
    ASSUME AlwaysInv, CalmInv, NEW v \in Worker, NEW w \in Worker, v # w,
           pc[w] \in {"open_new", "close_new", "add", "check", "unlink", "drop"},
           IsPending(v)
    PROVE  want[v] # want[w]
<1>1. kind[w] \in Manager /\ IsPending(w)
  BY DEF AlwaysInv, Requests, Proper, Manager, IsPending
<1> QED
  BY <1>1 DEF CalmInv, ManagersAlone

LEMMA AloneKept ==
    ASSUME AlwaysInv, CalmInv, NEW w \in Worker, Step(w), ~ raced'
    PROVE  ManagersAlone'
<1>1. Others(w) /\ Typed /\ ManagersAlone
  BY OthersKept DEF AlwaysInv, CalmInv
<1>2. ASSUME NEW v \in Worker, v # w, IsPending(v)', IsPending(w)', want'[v] = want'[w]
      PROVE  kind'[v] \notin Manager /\ kind'[w] \notin Manager
  <2>1. IsPending(v) /\ want'[v] = want[v] /\ kind'[v] = kind[v]
    BY <1>1, <1>2 DEF Others, IsPending
  <2>2. ASSUME NEW k \in Kind, NEW n \in Name, Arrive(w, k, n)
        PROVE  kind'[v] \notin Manager /\ kind'[w] \notin Manager
    <3>1. ~ Conflict(k, n) /\ kind'[w] = k /\ want'[w] = n
      BY <1>1, <2>2 DEF Arrive, Typed
    <3>2. v \in Pending(n)
      BY <1>2, <2>1, <3>1 DEF Pending, IsPending
    <3> QED
      BY <2>1, <3>1, <3>2 DEF Conflict
  <2>3. CASE ~ \E k \in Kind, n \in Name : Arrive(w, k, n)
    <3>1. IsPending(w) /\ want'[w] = want[w] /\ kind'[w] = kind[w]
      <4>1. pc'[w] # "idle"
        BY <1>2 DEF IsPending
      <4> QED
        BY <1>1, <1>2, <2>3, <4>1, Entries
    <3> QED
      BY <1>1, <1>2, <2>1, <3>1 DEF ManagersAlone
  <2> QED
    BY <2>2, <2>3
<1>3. ASSUME NEW u \in Worker, NEW v \in Worker, u # v, u # w, v # w,
             IsPending(u)', IsPending(v)', want'[u] = want'[v]
      PROVE  kind'[u] \notin Manager /\ kind'[v] \notin Manager
  BY <1>1, <1>3 DEF Others, IsPending, ManagersAlone
<1> QED
  BY <1>2, <1>3 DEF ManagersAlone

LEMMA UniqueKept ==
    ASSUME AlwaysInv, CalmInv, NEW w \in Worker, Step(w)
    PROVE  NamesUnique'
<1>1. /\ TInv /\ NamesUnique /\ Proper(w) /\ KnowsBox(w)
      /\ name \in [Box -> Name \cup {NoName}] /\ NoName \notin Name
  BY BoxTableAssumption
  DEF AlwaysInv, Requests, CalmInv, RequestsKnow, TInv, TableTypeOK
<1>2. CASE AddBox(w)
  <2>1. PICK n \in Name : n = want[w]
    BY <1>1, <1>2 DEF AddBox, Proper
  <2>2. PICK b \in Box \ Allocated : name' = [name EXCEPT ![b] = n]
    BY <1>1, <1>2, <2>1, BoxAdded DEF AddBox
  <2>3. Missed(n)
    BY <1>1, <1>2, <2>1 DEF AddBox, KnowsBox
  <2> QED
    BY <1>1, <2>2, <2>3 DEF NamesUnique, Missed, Allocated
<1>3. CASE Drop(w)
  <2>1. PICK n \in Name : n = want[w]
    BY <1>1, <1>3 DEF Drop, Proper
  <2>2. PICK b \in Allocated : name' = [name EXCEPT ![b] = NoName]
    BY <1>1, <1>3, <2>1, BoxRemoved DEF Drop
  <2> QED
    BY <1>1, <2>2 DEF NamesUnique, Allocated
<1>4. CASE UNCHANGED tableVars
  BY <1>1, <1>4 DEF tableVars, NamesUnique, Allocated
<1> QED
  BY <1>2, <1>3, <1>4, TableFrame

(* What box_add and box_remove for one request do to what others know.     *)
LEMMA OthersKnowBox ==
    ASSUME AlwaysInv, CalmInv, NEW w \in Worker, Step(w), NEW v \in Worker, v # w
    PROVE  KnowsBox(v)'
<1>1. /\ TInv /\ KnowsBox(v) /\ Others(w) /\ Proper(w) /\ Typed
      /\ name \in [Box -> Name \cup {NoName}] /\ NoName \notin Name
  BY BoxTableAssumption, OthersKept
  DEF AlwaysInv, Requests, CalmInv, RequestsKnow, TInv, TableTypeOK
<1>2. /\ pc'[v] = pc[v] /\ want'[v] = want[v] /\ at'[v] = at[v] /\ ptr'[v] = ptr[v]
  BY <1>1 DEF Others
<1>3. at[v] \in 0 .. capacity - 1
  BY <1>1, SlotRange DEF Typed, TInv, TableTypeOK
<1>4. boxes[at[v]] # NoBox => boxes[at[v]] \in Allocated
  BY <1>1, <1>3, SlotsAndBoxes DEF Typed
<1>5. CASE AddBox(w)
  <2>1. PICK n \in Name : n = want[w]
    BY <1>1, <1>5 DEF AddBox, Proper
  <2>2. /\ \E b \in Box \ Allocated : name' = [name EXCEPT ![b] = n]
        /\ \A j \in 0 .. capacity - 1 : boxes[j] # NoBox => boxes'[j] = boxes[j]
    BY <1>1, <1>5, <2>1, BoxAdded DEF AddBox
  <2>3. PICK b \in Box \ Allocated : name' = [name EXCEPT ![b] = n]
    BY <2>2
  <2>4. /\ \A c \in Allocated : name'[c] = name[c] /\ c \in Allocated'
        /\ Allocated' = Allocated \cup {b} /\ name'[b] = n
    BY <1>1, <2>3 DEF Allocated
  <2>5. pc[v] \in {"open_new", "close_new", "add"} => want[v] # n
    BY <1>5, <2>1, NameOfManager DEF AddBox, IsPending
  <2>6. pc[v] \in {"open_new", "close_new", "add"} => Missed(want[v])'
    BY <1>1, <1>2, <2>4, <2>5 DEF KnowsBox, Missed
  <2>7. pc[v] = "fetch" => boxes'[at[v]] # NoBox /\ name'[boxes'[at[v]]] = want[v]
    BY <1>1, <1>3, <1>4, <2>2, <2>4 DEF KnowsBox
  <2>8. pc[v] \in {"check", "count", "open", "session"} =>
            ptr[v] \in Allocated' /\ name'[ptr[v]] = want[v]
    BY <1>1, <2>4 DEF KnowsBox
  <2> QED
    BY <1>2, <2>6, <2>7, <2>8 DEF KnowsBox
<1>6. CASE Drop(w)
  <2>1. PICK n \in Name : n = want[w]
    BY <1>1, <1>6 DEF Drop, Proper
  <2>2. PICK b \in Allocated :
            /\ name[b] = n
            /\ name' = [name EXCEPT ![b] = NoName]
            /\ \A j \in 0 .. capacity - 1 : boxes[j] # b => boxes'[j] = boxes[j]
    BY <1>1, <1>6, <2>1, BoxRemoved DEF Drop
  <2>3. /\ \A c \in Allocated : c # b => name'[c] = name[c] /\ c \in Allocated'
        /\ Allocated' = Allocated \ {b}
    BY <1>1, <2>2 DEF Allocated
  <2>4. IsPending(v) \/ pc[v] = "session" => want[v] # n
    BY <1>6, <2>1, NameOfManager DEF Drop, CalmInv, RemovalsClear
  <2>5. pc[v] \in {"open_new", "close_new", "add"} => Missed(want[v])'
    BY <1>1, <1>2, <2>3 DEF KnowsBox, Missed
  <2>6. pc[v] = "fetch" => boxes'[at[v]] # NoBox /\ name'[boxes'[at[v]]] = want[v]
    BY <1>1, <1>3, <1>4, <2>2, <2>3, <2>4 DEF KnowsBox, IsPending
  <2>7. pc[v] \in {"check", "count", "open", "session"} =>
            ptr[v] \in Allocated' /\ name'[ptr[v]] = want[v]
    BY <1>1, <2>2, <2>3, <2>4 DEF KnowsBox, IsPending
  <2> QED
    BY <1>2, <2>5, <2>6, <2>7 DEF KnowsBox
<1>7. CASE UNCHANGED tableVars
  BY <1>1, <1>2, <1>7 DEF tableVars, KnowsBox, Missed, Allocated
<1> QED
  BY <1>5, <1>6, <1>7, TableFrame

(* What the request itself knows, and finds out.                           *)
LEMMA OwnBoxKnown ==
    ASSUME AlwaysInv, CalmInv, NEW w \in Worker, Step(w)
    PROVE  KnowsBox(w)'
<1>1. /\ TInv /\ KnowsBox(w) /\ Typed
  BY DEF AlwaysInv, CalmInv, RequestsKnow
<1>2. CASE pc'[w] \in {"idle", "find", "unlink", "drop", "close"}
  BY <1>2 DEF KnowsBox
<1>3. CASE pc'[w] = "fetch"
  <2>1. FindHit(w)
    BY <1>1, <1>3, Entries
  <2>2. PICK i \in SlotsOf(want[w]) : at' = [at EXCEPT ![w] = i]
    BY <2>1 DEF FindHit
  <2>3. boxes[i] \in Allocated /\ name[boxes[i]] = want[w]
    BY <1>1, <2>2, SlotsAndBoxes
  <2>4. at'[w] = i /\ UNCHANGED <<boxes, name, want>> /\ boxes[i] # NoBox
    BY <1>1, <2>1, <2>2, <2>3, BoxTableAssumption
    DEF FindHit, Typed, tableVars, Allocated
  <2> QED
    BY <1>3, <2>3, <2>4 DEF KnowsBox
<1>4. CASE pc'[w] = "open_new"
  <2>1. FindMiss(w) \/ FetchNothing(w)
    BY <1>1, <1>4, Entries
  <2>2. FindMiss(w)
    BY <1>1, <2>1 DEF FetchNothing, KnowsBox
  <2>3. Missed(want[w]) /\ UNCHANGED tableVars
    BY <1>1, <2>2, SlotsAndBoxes DEF FindMiss
  <2>4. UNCHANGED want
    BY <1>1, <1>4, <2>2 DEF FindMiss, Missing, End, Goto, Typed
  <2> QED
    BY <1>4, <2>3, <2>4 DEF KnowsBox, Missed, Allocated, tableVars
<1>5. CASE pc'[w] \in {"close_new", "add"}
  <2>1. OpenNew(w) \/ CloseNew(w)
    BY <1>1, <1>5, Entries
  <2> QED
    BY <1>1, <1>5, <2>1
    DEF OpenNew, CloseNew, KnowsBox, Missed, Allocated, tableVars
<1>6. CASE pc'[w] \in {"check", "count"}
  <2>1. FetchBox(w)
    BY <1>1, <1>6, Entries
  <2>2. boxes[at[w]] \in Allocated /\ name[boxes[at[w]]] = want[w]
    BY <1>1, <2>1, SlotsAndBoxes DEF FetchBox, KnowsBox, Typed
  <2>3. ptr'[w] = boxes[at[w]] /\ UNCHANGED <<name, want>>
    BY <1>1, <2>1 DEF FetchBox, Typed, tableVars
  <2> QED
    BY <1>6, <2>2, <2>3 DEF KnowsBox, Allocated
<1>7. CASE pc'[w] \in {"open", "session"}
  <2>1. Count(w) \/ Open(w)
    BY <1>1, <1>7, Entries
  <2> QED
    BY <1>1, <1>7, <2>1 DEF Count, Open, KnowsBox, Allocated, tableVars
<1> QED
  <2>1. pc'[w] \in Label
    BY LocalsTyped
  <2> QED
    BY <1>2, <1>3, <1>4, <1>5, <1>6, <1>7, <2>1 DEF Label

(* No file of a name is made or taken while somebody counts on it.         *)
LEMMA OthersKnowFile ==
    ASSUME AlwaysInv, CalmInv, NEW w \in Worker, Step(w), NEW v \in Worker, v # w
    PROVE  KnowsFile(v)'
<1>1. /\ KnowsBox(v) /\ KnowsFile(v) /\ KnowsBox(w) /\ Others(w)
      /\ Proper(v) /\ Proper(w) /\ file \in [Name -> 0 .. MaxFiles]
  BY OthersKept DEF AlwaysInv, Requests, CalmInv, RequestsKnow, Typed
<1>2. pc'[v] = pc[v] /\ want'[v] = want[v] /\ fd'[v] = fd[v]
  BY <1>1 DEF Others
<1>3. CASE pc[w] = "open_new" /\ MakeFile(want[w])
  <2>1. want[w] \in Name /\ Missed(want[w])
    BY <1>1, <1>3 DEF Proper, KnowsBox
  <2>2. pc[v] \in {"close_new", "add", "session"} => want[v] # want[w]
    BY <1>1, <1>3, <2>1, NameOfManager DEF KnowsBox, Missed, IsPending
  <2>3. \A n \in Name : n # want[w] => file'[n] = file[n]
    BY <1>1, <1>3 DEF MakeFile
  <2> QED
    BY <1>1, <1>2, <2>2, <2>3 DEF KnowsFile, Proper
<1>4. CASE Unlink(w)
  <2>1. pc[v] \in {"close_new", "add", "session"} => want[v] # want[w]
    BY <1>4, NameOfManager DEF Unlink, CalmInv, RemovalsClear, IsPending
  <2>2. \A n \in Name : n # want[w] => file'[n] = file[n]
    BY <1>1, <1>4 DEF Unlink
  <2> QED
    BY <1>1, <1>2, <2>1, <2>2 DEF KnowsFile, Proper
<1>5. CASE UNCHANGED file
  BY <1>1, <1>2, <1>5 DEF KnowsFile
<1> QED
  BY <1>3, <1>4, <1>5, FileFrame

LEMMA OwnFileKnown ==
    ASSUME AlwaysInv, CalmInv, NEW w \in Worker, Step(w)
    PROVE  KnowsFile(w)'
<1>1. /\ KnowsFile(w) /\ Proper(w) /\ Typed
  BY DEF AlwaysInv, Requests, CalmInv, RequestsKnow
<1>2. CASE pc'[w] = "close_new"
  <2>1. OpenNew(w)
    BY <1>1, <1>2, Entries
  <2>2. want[w] \in Name
    BY <1>1, <2>1 DEF OpenNew, Proper
  <2>3. file'[want[w]] # NoFile
    BY <1>1, <2>1, <2>2 DEF OpenNew, MakeFile, FreeInodes, Inum, IsFirst, NoFile, Typed
  <2> QED
    BY <1>2, <2>1, <2>3 DEF KnowsFile, OpenNew
<1>3. CASE pc'[w] = "add"
  <2>1. CloseNew(w)
    BY <1>1, <1>3, Entries
  <2> QED
    BY <1>1, <1>3, <2>1 DEF CloseNew, KnowsFile
<1>4. CASE pc'[w] = "session"
  <2>1. Open(w)
    BY <1>1, <1>4, Entries
  <2> QED
    BY <1>1, <1>4, <2>1 DEF Open, KnowsFile, Typed
<1> QED
  BY <1>2, <1>3, <1>4 DEF KnowsFile

(* A session in the box of a removal would have been counted.              *)
LEMMA SessionSeen ==
    ASSUME AlwaysInv, CalmInv, NEW v \in Worker, CheckIdle(v),
           NEW w \in Worker, pc[w] = "session"
    PROVE  want[v] # want[w]
<1>1. SUFFICES ASSUME want[v] = want[w]
               PROVE  FALSE
  OBVIOUS
<1>2. /\ ptr[v] \in Allocated /\ name[ptr[v]] = want[v]
      /\ ptr[w] \in Allocated /\ name[ptr[w]] = want[w]
  BY DEF CheckIdle, CalmInv, RequestsKnow, KnowsBox
<1>3. ptr[v] = ptr[w] /\ ptr[w] \in Box
  BY <1>1, <1>2 DEF CalmInv, NamesUnique, Allocated
<1>4. pub_num[ptr[w]] = 0 /\ sub_num[ptr[w]] = 0
  BY <1>3 DEF CheckIdle
<1>5. CASE kind[w] = "pub"
  <2>1. In(w, "pub", ptr[w])
    BY <1>5 DEF In
  <2> QED
    BY <1>3, <1>4, <2>1 DEF CalmInv, SessionsCounted
<1>6. CASE kind[w] = "sub"
  <2>1. w \in SubsIn(ptr[w])
    BY <1>6 DEF SubsIn, In
  <2>2. PICK b \in Box : b = ptr[w]
    BY <1>3
  <2>3. SubsIn(b) \subseteq Busy /\ IsFiniteSet(Busy)
    BY DEF SubsIn, In, Busy, AlwaysInv, HandlesCounted
  <2>4. IsFiniteSet(SubsIn(b)) /\ Cardinality(SubsIn(b)) \in Nat
    BY <2>3, FS_Subset, FS_CardinalityType
  <2>5. Cardinality(SubsIn(b)) <= 0
    BY <1>4, <2>2 DEF CalmInv, SessionsCounted
  <2>6. Cardinality(SubsIn(b)) = 0
    BY <2>4, <2>5
  <2> QED
    BY <2>1, <2>2, <2>4, <2>6, FS_EmptySet
<1> QED
  BY <1>5, <1>6 DEF AlwaysInv, Requests, Proper

LEMMA ClearKept ==
    ASSUME AlwaysInv, CalmInv, NEW w \in Worker, Step(w)
    PROVE  RemovalsClear'
<1>1. Others(w) /\ RemovalsClear /\ Typed
  BY OthersKept DEF AlwaysInv, CalmInv
<1>2. ASSUME NEW v \in Worker, v # w, pc'[v] = "session", pc'[w] \in {"unlink", "drop"}
      PROVE  want'[w] # want'[v]
  <2>1. CheckIdle(w) \/ Unlink(w)
    BY <1>1, <1>2, Entries
  <2>2. UNCHANGED want /\ pc[v] = "session"
    BY <1>1, <1>2, <2>1 DEF CheckIdle, Unlink, Others
  <2> QED
    BY <1>1, <2>1, <2>2, SessionSeen DEF Unlink, RemovalsClear
<1>3. ASSUME NEW v \in Worker, v # w, pc'[v] \in {"unlink", "drop"}, pc'[w] = "session"
      PROVE  want'[v] # want'[w]
  <2>1. Open(w)
    BY <1>1, <1>3, Entries
  <2>2. UNCHANGED want /\ pc[v] \in {"unlink", "drop"} /\ IsPending(w)
    BY <1>1, <1>3, <2>1 DEF Open, Others, IsPending
  <2> QED
    BY <1>3, <2>2, NameOfManager
<1>4. ASSUME NEW u \in Worker, NEW v \in Worker, u # w, v # w,
             pc'[u] \in {"unlink", "drop"}, pc'[v] = "session"
      PROVE  want'[u] # want'[v]
  BY <1>1, <1>4 DEF Others, RemovalsClear
<1> QED
  BY <1>2, <1>3, <1>4 DEF RemovalsClear

(* A file is taken by the removal that takes the box next.                 *)
LEMMA FiledKept ==
    ASSUME AlwaysInv, CalmInv, NEW w \in Worker, Step(w)
    PROVE  BoxesFiled'
<1>1. /\ TInv /\ Typed /\ Others(w) /\ Proper(w) /\ KnowsBox(w) /\ KnowsFile(w)
      /\ BoxesFiled /\ NamesUnique
      /\ name \in [Box -> Name \cup {NoName}] /\ NoName \notin Name
      /\ file \in [Name -> 0 .. MaxFiles]
  BY BoxTableAssumption, OthersKept
  DEF AlwaysInv, Requests, CalmInv, RequestsKnow, TInv, TableTypeOK, Typed
<1>2. CASE AddBox(w)
  <2>1. PICK n \in Name : n = want[w]
    BY <1>1, <1>2 DEF AddBox, Proper
  <2>2. PICK b \in Box \ Allocated : name' = [name EXCEPT ![b] = n]
    BY <1>1, <1>2, <2>1, BoxAdded DEF AddBox
  <2>3. UNCHANGED file /\ pc[w] = "add" /\ file[n] # NoFile
    BY <1>1, <1>2, <2>1 DEF AddBox, fileVars, KnowsFile
  <2>4. Filed(b)'
    BY <1>1, <2>2, <2>3 DEF Filed
  <2>5. ASSUME NEW c \in Allocated
        PROVE  Filed(c)'
    <3>1. c # b /\ name'[c] = name[c]
      BY <1>1, <2>2 DEF Allocated
    <3>2. Filed(c)
      BY <1>1 DEF BoxesFiled
    <3> QED
      BY <1>1, <2>3, <3>1, <3>2 DEF Filed, Others
  <2>6. Allocated' = Allocated \cup {b}
    BY <1>1, <2>2 DEF Allocated
  <2> QED
    BY <2>4, <2>5, <2>6 DEF BoxesFiled
<1>3. CASE Drop(w)
  <2>1. PICK n \in Name : n = want[w]
    BY <1>1, <1>3 DEF Drop, Proper
  <2>2. PICK b \in Allocated : name[b] = n /\ name' = [name EXCEPT ![b] = NoName]
    BY <1>1, <1>3, <2>1, BoxRemoved DEF Drop
  <2>3. UNCHANGED file
    BY <1>3 DEF Drop, fileVars
  <2>4. Allocated' = Allocated \ {b}
    BY <1>1, <2>2 DEF Allocated
  <2>5. ASSUME NEW c \in Allocated, c # b
        PROVE  Filed(c)'
    <3>1. name'[c] = name[c] /\ name[c] # n
      BY <1>1, <2>2, <2>5 DEF NamesUnique, Allocated
    <3>2. Filed(c)
      BY <1>1 DEF BoxesFiled
    <3> QED
      BY <1>1, <2>1, <2>3, <3>1, <3>2 DEF Filed, Others
  <2> QED
    BY <2>4, <2>5 DEF BoxesFiled
<1>4. CASE UNCHANGED tableVars
  <2>1. UNCHANGED <<name, Allocated>>
    BY <1>4 DEF tableVars, Allocated
  <2>2. SUFFICES ASSUME NEW b \in Allocated
                 PROVE  Filed(b)'
    BY <2>1 DEF BoxesFiled
  <2>3. Filed(b) /\ name[b] \in Name
    BY <1>1 DEF BoxesFiled, Allocated
  <2>4. CASE Unlink(w)
    <3>1. pc'[w] = "drop" /\ want'[w] = want[w] /\ pc[w] = "unlink"
      BY <1>1, <2>4 DEF Unlink, Goto, Typed
    <3>2. \A n \in Name : n # want[w] => file'[n] = file[n]
      BY <1>1, <2>4 DEF Unlink
    <3> QED
      BY <1>1, <2>1, <2>3, <3>1, <3>2 DEF Filed, Others
  <2>5. CASE pc[w] = "drop"
    <3>1. RemoveFails(w) \/ Drop(w)
      BY <1>1, <2>5 DEF Step, Arrive, FindHit, FindMiss, FetchNothing, FetchTaken,
         FetchBox, OpenNew, OpenNewFails, CloseNew, AddBox, CheckIdle, CheckActive,
         Unlink, Count, SecondPublisher, Open, OpenFails, LeavePub, Close, LeaveSub,
         SessionFails
    <3>2. UNCHANGED file
      BY <2>4, <2>5, FileFrame DEF Unlink
    <3>3. CASE Missed(want[w])
      BY <1>1, <2>1, <2>3, <3>2, <3>3 DEF Filed, Others, Missed
    <3>4. RemoveFails(w) => Missed(want[w])
      BY <1>1, <2>5, SlotsAndBoxes DEF RemoveFails
    <3>5. ~ Drop(w)
      <4>1. SUFFICES ASSUME Drop(w)
                     PROVE  FALSE
        OBVIOUS
      <4>2. PICK n \in Name : n = want[w]
        BY <1>1, <2>5 DEF Proper
      <4>3. PICK c \in Allocated : name' = [name EXCEPT ![c] = NoName]
        BY <1>1, <4>1, <4>2, BoxRemoved DEF Drop
      <4> QED
        BY <1>1, <2>1, <4>3 DEF Allocated
    <3> QED
      BY <3>1, <3>3, <3>4, <3>5
  <2>6. CASE pc[w] # "drop" /\ ~ Unlink(w)
    <3>1. file'[name[b]] = file[name[b]] \/ file'[name[b]] # NoFile
      <4>1. CASE pc[w] = "open_new" /\ MakeFile(want[w])
        <5>1. want[w] \in Name
          BY <1>1, <4>1 DEF Proper
        <5> QED
          BY <1>1, <2>3, <4>1, <5>1 DEF MakeFile, FreeInodes, Inum, IsFirst, NoFile
      <4> QED
        BY <2>6, <4>1, FileFrame
    <3> QED
      BY <1>1, <2>1, <2>3, <2>6, <3>1 DEF Filed, Others
  <2> QED
    BY <2>4, <2>5, <2>6
<1> QED
  BY <1>2, <1>3, <1>4, TableFrame

(* Only registrations and their ends, and box_remove, change the counters. *)
LEMMA CountsFrame ==
    ASSUME NEW w \in Worker, Step(w),
           ~ Count(w), ~ LeavePub(w), ~ LeaveSub(w), ~ Drop(w)
    PROVE  UNCHANGED countVars
<1>1. CASE \/ \E k \in Kind, n \in Name : Arrive(w, k, n)
           \/ FindHit(w) \/ FindMiss(w)
           \/ FetchNothing(w) \/ FetchTaken(w) \/ FetchBox(w)
           \/ OpenNew(w) \/ OpenNewFails(w) \/ CloseNew(w) \/ AddBox(w)
  BY <1>1 DEF Arrive, FindHit, FindMiss, FetchNothing, FetchTaken, FetchBox,
              OpenNew, OpenNewFails, CloseNew, AddBox
<1>2. CASE \/ CheckIdle(w) \/ CheckActive(w) \/ Unlink(w) \/ RemoveFails(w)
           \/ SecondPublisher(w) \/ Open(w) \/ OpenFails(w) \/ Close(w)
           \/ SessionFails(w)
  BY <1>2 DEF CheckIdle, CheckActive, Unlink, RemoveFails, SecondPublisher, Open,
              OpenFails, Close, SessionFails
<1> QED
  BY <1>1, <1>2 DEF Step

(* The counters follow the sessions.                                       *)
LEMMA CountedKept ==
    ASSUME AlwaysInv, CalmInv, NEW w \in Worker, Step(w)
    PROVE  SessionsCounted'
<1>1. /\ Typed /\ Others(w) /\ Proper(w) /\ KnowsBox(w)
      /\ pub_num \in [Box -> 0 .. 1] /\ sub_num \in [Box -> Nat]
  BY OthersKept DEF AlwaysInv, Requests, CalmInv, RequestsKnow, Typed
<1>2. \A b \in Box :
          /\ Cardinality(SubsIn(b)) <= sub_num[b]
          /\ \A v \in Worker : In(v, "pub", b) => pub_num[b] = 1
          /\ \A u, v \in Worker : In(u, "pub", b) /\ In(v, "pub", b) => u = v
  BY DEF CalmInv, SessionsCounted
<1>3. ASSUME NEW b \in Box
      PROVE  IsFiniteSet(SubsIn(b)) /\ Cardinality(SubsIn(b)) \in Nat
  <2>1. SubsIn(b) \subseteq Busy /\ IsFiniteSet(Busy)
    BY DEF SubsIn, In, Busy, AlwaysInv, HandlesCounted
  <2> QED
    BY <2>1, FS_Subset, FS_CardinalityType
<1>4. \A v \in Worker : v # w => \A k, b : In(v, k, b)' <=> In(v, k, b)
  BY <1>1 DEF Others, In
<1>5. ASSUME NEW b \in Box, In(w, "sub", b)' => In(w, "sub", b)
      PROVE  /\ Cardinality(SubsIn(b)') <= Cardinality(SubsIn(b))
             /\ Cardinality(SubsIn(b)') \in Nat
  <2>1. SubsIn(b)' \subseteq SubsIn(b)
    BY <1>4, <1>5 DEF SubsIn
  <2> QED
    BY <1>3, <2>1, FS_Subset, FS_CardinalityType
<1>6. ASSUME UNCHANGED countVars, \A k : \A b \in Box : In(w, k, b)' => In(w, k, b)
      PROVE  SessionsCounted'
  <2>1. ASSUME NEW b \in Box
        PROVE  Cardinality(SubsIn(b)') <= sub_num'[b]
    BY <1>1, <1>2, <1>3, <1>5, <1>6 DEF countVars
  <2>2. \A b \in Box : \A v \in Worker : In(v, "pub", b)' => In(v, "pub", b)
    BY <1>4, <1>6
  <2> QED
    BY <1>2, <1>6, <2>1, <2>2 DEF SessionsCounted, countVars
<1>7. CASE pc'[w] \notin {"open", "session"} /\ UNCHANGED countVars
  BY <1>6, <1>7 DEF In
<1>8. CASE Open(w)
  <2>1. UNCHANGED <<kind, ptr, countVars>> /\ pc[w] = "open"
    BY <1>8 DEF Open
  <2> QED
    BY <1>6, <2>1 DEF In
<1>9. CASE Count(w)
  <2>1. PICK c \in Box : c = ptr[w]
    BY <1>9 DEF Count, Alive, Allocated
  <2>2. /\ pc[w] = "count" /\ pc'[w] = "open" /\ UNCHANGED <<kind, ptr>>
        /\ kind[w] \in {"pub", "sub"}
    BY <1>1, <1>9 DEF Count, Goto, Typed, Proper
  <2>3. \A k, b : In(w, k, b)' <=> k = kind[w] /\ b = c
    BY <2>1, <2>2 DEF In
  <2>4. CASE kind[w] = "pub"
    <3>1. pub_num[c] # 1 /\ pub_num' = [pub_num EXCEPT ![c] = @ + 1] /\ UNCHANGED sub_num
      BY <1>9, <2>1, <2>4 DEF Count
    <3>2. \A v \in Worker : ~ In(v, "pub", c)
      BY <1>2, <3>1
    <3>3. pub_num'[c] = 1 /\ \A b \in Box : b # c => pub_num'[b] = pub_num[b]
      BY <1>1, <3>1
    <3>4. \A b \in Box : Cardinality(SubsIn(b)') <= sub_num'[b]
      BY <1>1, <1>2, <1>3, <1>5, <2>3, <2>4, <3>1
    <3>5. ASSUME NEW b \in Box
          PROVE  /\ \A v \in Worker : In(v, "pub", b)' => pub_num'[b] = 1
                 /\ \A u, v \in Worker : In(u, "pub", b)' /\ In(v, "pub", b)' => u = v
      <4>1. CASE b = c
        <5>1. \A v \in Worker : In(v, "pub", b)' => v = w
          BY <1>4, <3>2, <4>1
        <5> QED
          BY <3>3, <4>1, <5>1
      <4>2. CASE b # c
        <5>1. \A v \in Worker : In(v, "pub", b)' => In(v, "pub", b)
          BY <1>4, <2>3, <4>2
        <5> QED
          BY <1>2, <3>3, <4>2, <5>1
      <4> QED
        BY <4>1, <4>2
    <3> QED
      BY <3>4, <3>5 DEF SessionsCounted
  <2>5. CASE kind[w] = "sub"
    <3>1. sub_num' = [sub_num EXCEPT ![c] = @ + 1] /\ UNCHANGED pub_num
      BY <1>9, <2>1, <2>5 DEF Count
    <3>2. ASSUME NEW b \in Box
          PROVE  Cardinality(SubsIn(b)') <= sub_num'[b]
      <4>1. CASE b = c
        <5>1. SubsIn(b)' \subseteq SubsIn(b) \cup {w}
          BY <1>4 DEF SubsIn
        <5>2. w \notin SubsIn(b)
          BY <2>2 DEF SubsIn, In
        <5>3. /\ IsFiniteSet(SubsIn(b) \cup {w})
              /\ Cardinality(SubsIn(b) \cup {w}) = Cardinality(SubsIn(b)) + 1
          BY <1>3, <5>2, FS_AddElement
        <5>4. /\ Cardinality(SubsIn(b)') <= Cardinality(SubsIn(b) \cup {w})
              /\ Cardinality(SubsIn(b)') \in Nat
          BY <5>1, <5>3, FS_Subset, FS_CardinalityType
        <5>5. sub_num'[b] = sub_num[b] + 1
          BY <1>1, <3>1, <4>1
        <5> QED
          BY <1>1, <1>2, <1>3, <5>3, <5>4, <5>5
      <4>2. CASE b # c
        BY <1>1, <1>2, <1>3, <1>5, <2>3, <3>1, <4>2
      <4> QED
        BY <4>1, <4>2
    <3>3. \A b \in Box : \A v \in Worker : In(v, "pub", b)' => In(v, "pub", b)
      BY <1>4, <2>3, <2>5
    <3> QED
      BY <1>2, <3>1, <3>2, <3>3 DEF SessionsCounted
  <2> QED
    BY <2>2, <2>4, <2>5
<1>10. CASE LeavePub(w)
  <2>1. PICK c \in Box : c = ptr[w]
    BY <1>10 DEF LeavePub, Alive, Allocated
  <2>2. /\ In(w, "pub", c)
        /\ pub_num' = [pub_num EXCEPT ![c] = IF @ = 0 THEN 0 ELSE @ - 1]
        /\ UNCHANGED sub_num
    BY <1>10, <2>1 DEF LeavePub, In
  <2>3. \A k, b : ~ In(w, k, b)'
    BY <1>1, <1>10 DEF LeavePub, End, Goto, Typed, In
  <2>4. \A b \in Box : Cardinality(SubsIn(b)') <= sub_num'[b]
    BY <1>1, <1>2, <1>3, <1>5, <2>2, <2>3
  <2>5. \A b \in Box : \A v \in Worker : In(v, "pub", b)' => In(v, "pub", b) /\ v # w
    BY <1>4, <2>3
  <2>6. \A b \in Box : b # c => pub_num'[b] = pub_num[b]
    BY <1>1, <2>2
  <2>7. \A v \in Worker : ~ In(v, "pub", c)'
    BY <1>2, <2>2, <2>5
  <2> QED
    BY <1>2, <2>4, <2>5, <2>6, <2>7 DEF SessionsCounted
<1>11. CASE LeaveSub(w)
  <2>1. PICK c \in Box : c = ptr[w]
    BY <1>11 DEF LeaveSub, Alive, Allocated
  <2>2. /\ In(w, "sub", c)
        /\ sub_num' = [sub_num EXCEPT ![c] = IF @ = 0 THEN 0 ELSE @ - 1]
        /\ UNCHANGED pub_num
    BY <1>11, <2>1 DEF LeaveSub, In
  <2>3. \A k, b : ~ In(w, k, b)'
    BY <1>1, <1>11 DEF LeaveSub, End, Goto, Typed, In
  <2>4. ASSUME NEW b \in Box
        PROVE  Cardinality(SubsIn(b)') <= sub_num'[b]
    <3>1. CASE b = c
      <4>1. w \in SubsIn(b) /\ SubsIn(b)' = SubsIn(b) \ {w}
        BY <1>4, <2>2, <2>3, <3>1 DEF SubsIn
      <4>2. Cardinality(SubsIn(b)') = Cardinality(SubsIn(b)) - 1
        BY <1>3, <4>1, FS_RemoveElement
      <4>3. Cardinality(SubsIn(b)') \in Nat
        BY <1>5, <2>3
      <4> QED
        BY <1>1, <1>2, <1>3, <2>2, <3>1, <4>2, <4>3
    <3>2. CASE b # c
      BY <1>1, <1>2, <1>3, <1>5, <2>2, <2>3, <3>2
    <3> QED
      BY <3>1, <3>2
  <2>5. \A b \in Box : \A v \in Worker : In(v, "pub", b)' => In(v, "pub", b)
    BY <1>4, <2>3
  <2> QED
    BY <1>2, <2>2, <2>4, <2>5 DEF SessionsCounted
<1>12. CASE Drop(w)
  <2>1. \A k, b : ~ In(w, k, b)'
    BY <1>1, <1>12 DEF Drop, End, Goto, Typed, In
  <2>2. \A k, b : \A v \in Worker : In(v, k, b)' => In(v, k, b) /\ v # w
    BY <1>4, <2>1
  <2>3. \A v \in Worker : \A k, b : In(v, k, b)' => name'[b] # NoName
    <3>1. \A v \in Worker : KnowsBox(v)'
      BY OthersKnowBox, OwnBoxKnown
    <3> QED
      BY <3>1 DEF In, KnowsBox, Allocated
  <2>4. \A b \in Box : /\ pub_num'[b] = IF name'[b] = NoName THEN 0 ELSE pub_num[b]
                       /\ sub_num'[b] = IF name'[b] = NoName THEN 0 ELSE sub_num[b]
    BY <1>12 DEF Drop
  <2>5. ASSUME NEW b \in Box
        PROVE  Cardinality(SubsIn(b)') <= sub_num'[b]
    <3>1. CASE name'[b] = NoName
      <4>1. SubsIn(b)' = {}
        BY <2>3, <3>1 DEF SubsIn
      <4> QED
        BY <2>4, <3>1, <4>1, FS_EmptySet
    <3>2. CASE name'[b] # NoName
      BY <1>1, <1>2, <1>3, <1>5, <2>1, <2>4, <3>2
    <3> QED
      BY <3>1, <3>2
  <2> QED
    BY <1>2, <2>2, <2>3, <2>4, <2>5 DEF SessionsCounted
<1>13. CASE ~ (Count(w) \/ Open(w) \/ LeavePub(w) \/ LeaveSub(w) \/ Drop(w))
  BY <1>1, <1>7, <1>13, Entries, CountsFrame
<1> QED
  BY <1>8, <1>9, <1>10, <1>11, <1>12, <1>13

-------------------------------------------------------------------------------
LEMMA CalmInit ==
    ASSUME Init
    PROVE  CalmInv
<1>1. Allocated = {} /\ \A w \in Worker : pc[w] = "idle"
  BY DEF Init, TableInit, Allocated
<1>2. ManagersAlone /\ NamesUnique /\ RequestsKnow /\ RemovalsClear /\ BoxesFiled
  BY <1>1 DEF ManagersAlone, IsPending, NamesUnique, RequestsKnow, KnowsBox, KnowsFile,
              RemovalsClear, BoxesFiled
<1>3. SessionsCounted
  <2>1. \A b : SubsIn(b) = {}
    BY <1>1 DEF SubsIn, In
  <2> QED
    BY <1>1, <2>1, FS_EmptySet DEF Init, SessionsCounted, In
<1> QED
  BY <1>2, <1>3 DEF CalmInv

LEMMA CalmKept ==
    ASSUME AlwaysInv, CalmInv, NEW w \in Worker, Step(w), ~ raced'
    PROVE  CalmInv'
<1>1. RequestsKnow'
  BY OthersKnowBox, OwnBoxKnown, OthersKnowFile, OwnFileKnown DEF RequestsKnow
<1> QED
  BY <1>1, AloneKept, UniqueKept, ClearKept, FiledKept, CountedKept DEF CalmInv

LEMMA BrokerStepInv ==
    ASSUME BInv, [Next]_vars
    PROVE  BInv'
<1>1. AlwaysInv'
  BY AlwaysKept DEF BInv
<1>2. ASSUME NEW w \in Worker, Step(w)
      PROVE  BInv'
  <2>1. UNCHANGED status /\ (raced => raced')
    BY <1>2, CalmBefore
  <2>2. Calm' => CalmInv'
    BY <1>2, <2>1, CalmKept DEF BInv, Calm, Running
  <2> QED
    BY <1>1, <2>1, <2>2 DEF BInv
<1>3. ASSUME Running, NEW w \in Worker, UseFreed(w) \/ FetchMoved(w)
      PROVE  BInv'
  <2>1. status' = (IF UseFreed(w) THEN "freed_box" ELSE "freed_array") /\ UNCHANGED raced
    BY <1>3, FaultFrame
  <2>2. UseFreed(w) => raced
    BY <1>3, NothingFreed DEF BInv, Calm
  <2> QED
    BY <1>1, <2>1, <2>2 DEF BInv, Calm, Running
<1>4. ASSUME UNCHANGED vars
      PROVE  BInv'
  <2>1. /\ UNCHANGED <<boxes, name, pc, kind, want, at, ptr, fd, file>>
        /\ UNCHANGED <<pub_num, sub_num, status, raced>>
    BY <1>4 DEF vars, tableVars, requestVars, fileVars, countVars
  <2>2. ASSUME CalmInv
        PROVE  CalmInv'
    <3>1. ManagersAlone' /\ RemovalsClear'
      BY <2>1, <2>2 DEF CalmInv, ManagersAlone, IsPending, RemovalsClear
    <3>2. NamesUnique' /\ RequestsKnow' /\ BoxesFiled'
      BY <2>1, <2>2 DEF CalmInv, NamesUnique, RequestsKnow, KnowsBox, KnowsFile, Missed,
         BoxesFiled, Filed, Allocated
    <3>3. SessionsCounted'
      BY <2>1, <2>2 DEF CalmInv, SessionsCounted, SubsIn, In
    <3> QED
      BY <3>1, <3>2, <3>3 DEF CalmInv
  <2> QED
    BY <1>1, <2>1, <2>2 DEF BInv, Calm, Running
<1> QED
  BY <1>2, <1>3, <1>4 DEF Next, Lost

(* The inductive invariant: with AlwaysInv, while all is calm, what a      *)
(* request has found out is still so when it uses it.                      *)
THEOREM BrokerInvariance == Spec => []BInv
<1>1. Init => BInv
  <2>1. Init => status # "freed_box"
    BY DEF Init
  <2> QED
    BY <2>1, AlwaysInit, CalmInit DEF BInv
<1>2. BInv /\ [Next]_vars => BInv'
  BY BrokerStepInv
<1> QED
  BY <1>1, <1>2, PTL DEF Spec

(* A request uses a box that was freed only if two requests for one name   *)
(* have met, although none of them keeps the table locked between finding  *)
(* its box and using it; and it reads the array of the table after it was  *)
(* freed only if the table has been as full as the array was long.         *)
THEOREM OnlyKnownUsesOfFreed == Spec => []UsesNoFreed
<1>1. BInv => UsesNoFreed
  BY DEF BInv, AlwaysInv, ArrayKept, UsesNoFreed
<1> QED
  BY <1>1, BrokerInvariance, PTL

(* While all is calm every session works on the box and on the file it     *)
(* asked for, for any number of boxes and any growth of their table.       *)
THEOREM SessionsStayInPlace == Spec => []SessionsInPlace
<1>1. BInv => SessionsInPlace
  BY DEF BInv, CalmInv, RequestsKnow, KnowsBox, KnowsFile, SessionsInPlace
<1> QED
  BY <1>1, BrokerInvariance, PTL

(* While all is calm no name is in the table twice, and no box is without  *)
(* its file, except while its removal is under way.                        *)
THEOREM NamesKeepFiles == Spec => []NamesHaveFiles
<1>1. ASSUME BInv
      PROVE  NamesHaveFiles
  <2>1. SUFFICES ASSUME Calm, NEW i \in Filled
                 PROVE  /\ SlotsOf(name[boxes[i]]) = {i}
                        /\ Filed(boxes[i])
    BY DEF NamesHaveFiles, Filed
  <2>2. /\ NamesUnique /\ BoxesFiled
        /\ \A j \in Filled : boxes[j] \in Allocated
        /\ \A j, k \in Filled : boxes[j] = boxes[k] => j = k
    BY <1>1, <2>1 DEF BInv, CalmInv, AlwaysInv, TInv, BoxesInTable
  <2>3. \A j \in Filled : name[boxes[j]] = name[boxes[i]] => j = i
    BY <2>2 DEF NamesUnique
  <2>4. SlotsOf(name[boxes[i]]) = {i}
    BY <2>3 DEF SlotsOf
  <2> QED
    BY <2>2, <2>4 DEF BoxesFiled
<1> QED
  BY <1>1, BrokerInvariance, PTL

-------------------------------------------------------------------------------
(* The broker is a directory of boxes.                                     *)

(* The actions of the directory are steps of it.                           *)
LEMMA DirectorySteps ==
    /\ \A n \in Name : Directory!Create(n) => Directory!Next
    /\ \A n \in Name : Directory!Remove(n) => Directory!Next
    /\ \A w \in Worker : \A n \in Name : Directory!Join(w, n) => Directory!Next
    /\ \A w \in Worker : Directory!Leave(w) => Directory!Next
BY DEF Directory!Next

(* The names in the slots are the names of the boxes.                      *)
LEMMA ExistsAllocated ==
    /\ TInv => Exists = {name[b] : b \in Allocated}
    /\ TInv' => Exists' = {name'[b] : b \in Allocated'}
BY DEF TInv, BoxesInTable, Exists

(* Only a registration and the end of a session change who uses a box.     *)
LEMMA UsesKept ==
    ASSUME AlwaysInv, NEW w \in Worker, Step(w),
           ~ Count(w), ~ OpenFails(w), ~ LeavePub(w), ~ LeaveSub(w), ~ SessionFails(w)
    PROVE  UNCHANGED Uses
<1>1. Others(w) /\ Typed
  BY OthersKept DEF AlwaysInv
<1>2. CASE Open(w)
  BY <1>1, <1>2 DEF Open, Goto, Typed, Uses
<1>3. CASE ~ Open(w)
  <2>1. pc'[w] \notin {"open", "session"}
    BY <1>3, Entries
  <2>2. pc[w] \notin {"open", "session"}
    BY <1>3 DEF Step, Arrive, FindHit, FindMiss, FetchNothing, FetchTaken, FetchBox,
       OpenNew, OpenNewFails, CloseNew, AddBox, CheckIdle, CheckActive, Unlink, Drop,
       RemoveFails, SecondPublisher, Close
  <2> QED
    BY <1>1, <2>1, <2>2 DEF Others, Uses
<1> QED
  BY <1>2, <1>3

LEMMA CreateRefines ==
    ASSUME BInv, BInv', Calm, NEW w \in Worker, Step(w), AddBox(w)
    PROVE  Directory!Next
<1>1. /\ TInv /\ TInv' /\ Proper(w) /\ KnowsBox(w) /\ Typed
      /\ name \in [Box -> Name \cup {NoName}] /\ NoName \notin Name
  BY BoxTableAssumption DEF BInv, AlwaysInv, Requests, CalmInv, RequestsKnow, TInv,
     TableTypeOK
<1>2. PICK n \in Name : n = want[w]
  BY <1>1 DEF AddBox, Proper
<1>3. PICK b \in Box \ Allocated : name' = [name EXCEPT ![b] = n]
  BY <1>1, <1>2, BoxAdded DEF AddBox
<1>4. /\ Allocated' = Allocated \cup {b} /\ name'[b] = n
      /\ \A c \in Allocated : name'[c] = name[c]
  BY <1>1, <1>3 DEF Allocated
<1>5. Exists = {name[c] : c \in Allocated} /\ Exists' = {name'[c] : c \in Allocated'}
  BY <1>1, ExistsAllocated
<1>6. Missed(n)
  BY <1>1, <1>2 DEF AddBox, KnowsBox
<1>7. n \notin Exists
  BY <1>5, <1>6 DEF Missed
<1>8. Exists' = Exists \cup {n}
  BY <1>4, <1>5
<1>9. UNCHANGED Uses
  BY UsesKept DEF BInv, AddBox, Count, OpenFails, LeavePub, LeaveSub, SessionFails
<1> QED
  BY <1>7, <1>8, <1>9, DirectorySteps DEF Directory!Create

LEMMA RemoveRefines ==
    ASSUME BInv, BInv', Calm, NEW w \in Worker, Step(w), Drop(w)
    PROVE  Directory!Next
<1>1. /\ TInv /\ TInv' /\ Proper(w) /\ Typed /\ NamesUnique
      /\ name \in [Box -> Name \cup {NoName}] /\ NoName \notin Name
  BY BoxTableAssumption DEF BInv, AlwaysInv, Requests, CalmInv, TInv, TableTypeOK
<1>2. PICK n \in Name : n = want[w]
  BY <1>1 DEF Drop, Proper
<1>3. PICK b \in Allocated : name[b] = n /\ name' = [name EXCEPT ![b] = NoName]
  BY <1>1, <1>2, BoxRemoved DEF Drop
<1>4. /\ Allocated' = Allocated \ {b}
      /\ \A c \in Allocated : c # b => name'[c] = name[c] /\ name[c] # n
  BY <1>1, <1>3 DEF Allocated, NamesUnique
<1>5. Exists = {name[c] : c \in Allocated} /\ Exists' = {name'[c] : c \in Allocated'}
  BY <1>1, ExistsAllocated
<1>6. n \in Exists
  BY <1>3, <1>5
<1>7. Exists' = Exists \ {n}
  BY <1>3, <1>4, <1>5
<1>8. \A v \in Worker : Uses[v] # n
  <2>1. SUFFICES ASSUME NEW v \in Worker, pc[v] \in {"open", "session"}
                 PROVE  want[v] # n
    BY <1>1 DEF Uses
  <2>2. CASE pc[v] = "open"
    BY <1>2, <2>2, NameOfManager DEF BInv, Drop, IsPending
  <2>3. CASE pc[v] = "session"
    BY <1>2, <2>3 DEF BInv, CalmInv, RemovalsClear, Drop
  <2> QED
    BY <2>1, <2>2, <2>3
<1>9. UNCHANGED Uses
  BY UsesKept DEF BInv, Drop, Count, OpenFails, LeavePub, LeaveSub, SessionFails
<1> QED
  BY <1>6, <1>7, <1>8, <1>9, DirectorySteps DEF Directory!Remove

LEMMA JoinRefines ==
    ASSUME BInv, Calm, NEW w \in Worker, Step(w), Count(w)
    PROVE  Directory!Next
<1>1. TInv /\ Proper(w) /\ KnowsBox(w) /\ Typed /\ Others(w) /\ NoName \notin Name
  BY BoxTableAssumption, OthersKept
  DEF BInv, AlwaysInv, Requests, CalmInv, RequestsKnow
<1>2. PICK n \in Name : n = want[w]
  BY <1>1 DEF Count, Proper
<1>3. n \in Exists
  BY <1>1, <1>2, ExistsAllocated DEF Count, KnowsBox
<1>4. UNCHANGED Exists
  BY DEF Count, tableVars, Exists, Filled
<1>5. Uses[w] = NoName
  BY DEF Count, Uses
<1>6. Uses' = [Uses EXCEPT ![w] = n]
  BY <1>1, <1>2 DEF Count, Goto, Typed, Others, Uses
<1> QED
  BY <1>3, <1>4, <1>5, <1>6, DirectorySteps DEF Directory!Join

LEMMA LeaveRefines ==
    ASSUME BInv, NEW w \in Worker, Step(w),
           OpenFails(w) \/ LeavePub(w) \/ LeaveSub(w) \/ SessionFails(w)
    PROVE  Directory!Next
<1>1. Proper(w) /\ Typed /\ Others(w) /\ NoName \notin Name
  BY BoxTableAssumption, OthersKept DEF BInv, AlwaysInv, Requests
<1>2. UNCHANGED Exists
  BY DEF OpenFails, LeavePub, LeaveSub, SessionFails, tableVars, Exists, Filled
<1>3. pc[w] \in {"open", "session"} /\ pc'[w] \in {"idle", "close"}
  BY <1>1 DEF OpenFails, LeavePub, LeaveSub, SessionFails, End, Goto, Typed
<1>4. Uses[w] # NoName
  BY <1>1, <1>3 DEF Uses, Proper
<1>5. Uses' = [Uses EXCEPT ![w] = NoName]
  BY <1>1, <1>3 DEF Others, Uses
<1> QED
  BY <1>2, <1>4, <1>5, DirectorySteps DEF Directory!Leave

(* A box is created once, sessions join boxes that exist, and no box is    *)
(* removed while a session is in it, by any number of workers and of       *)
(* boxes, while all is calm.                                               *)
THEOREM BrokerRefinesDirectory == Spec => DirectorySpec
<1>1. Init => Directory!Init
  BY DEF Init, TableInit, Directory!Init, Exists, Filled, Uses
<1>2. BInv /\ BInv' /\ [Next]_vars
        => (Calm => Directory!Next) \/ UNCHANGED <<Exists, Uses>>
  <2>1. ASSUME BInv, BInv', Calm, NEW w \in Worker, Step(w)
        PROVE  Directory!Next \/ UNCHANGED <<Exists, Uses>>
    <3>1. CASE AddBox(w) \/ Drop(w) \/ Count(w)
      BY <2>1, <3>1, CreateRefines, RemoveRefines, JoinRefines
    <3>2. CASE OpenFails(w) \/ LeavePub(w) \/ LeaveSub(w) \/ SessionFails(w)
      BY <2>1, <3>2, LeaveRefines
    <3>3. CASE ~ (\/ AddBox(w) \/ Drop(w) \/ Count(w) \/ OpenFails(w)
                  \/ LeavePub(w) \/ LeaveSub(w) \/ SessionFails(w))
      <4>1. UNCHANGED tableVars
        BY <2>1, <3>3, TableFrame
      <4>2. UNCHANGED Uses
        BY <2>1, <3>3, UsesKept DEF BInv
      <4> QED
        BY <4>1, <4>2 DEF tableVars, Exists, Filled
    <3> QED
      BY <3>1, <3>2, <3>3
  <2>2. ASSUME \/ UNCHANGED vars
               \/ \E w \in Worker : UseFreed(w) \/ FetchMoved(w)
        PROVE  UNCHANGED <<Exists, Uses>>
    <3>1. UNCHANGED <<tableVars, requestVars>>
      BY <2>2, FaultFrame DEF vars
    <3> QED
      BY <3>1 DEF tableVars, requestVars, Exists, Filled, Uses
  <2> QED
    BY <2>1, <2>2 DEF Next, Lost
<1> QED
  BY <1>1, <1>2, BrokerInvariance, PTL DEF Spec, DirectorySpec
===============================================================================
