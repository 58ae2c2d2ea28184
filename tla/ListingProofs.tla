----------------------------- MODULE ListingProofs -----------------------------
(***************************************************************************)
(* Theorems about Listing for any number of boxes and any start sizes: the *)
(* table it reads is the one of BoxTable, the manager's array has room for *)
(* every response, and what the manager prints is the table of one moment. *)
(***************************************************************************)
EXTENDS Listing, BoxTableProofs, SequenceTheorems, RecursionLemmas

(* The broker's place in the table, and what is in the manager's pipe.     *)
PipeInv == /\ next \in 0 .. size
           /\ mutex # "listing" => next = 0
           /\ pipe \in Seq(Response)

(* The manager's array, and how far it is filled.                          *)
ArrayInv == /\ list \in Seq(Response)
            /\ list_capacity \in Nat /\ list_capacity > 1
            /\ manager \in {"idle", "waiting"} => list = <<>>
            /\ ListFits

(* The inductive invariant.                                                *)
LInv == TInv /\ PipeInv /\ ArrayInv

-------------------------------------------------------------------------------
(* Only box_add and box_remove change the table.                           *)
LEMMA ListingStepsTable ==
    ASSUME [Next]_vars
    PROVE  [TableNext]_tableVars
<1>1. CASE TableChanges
  BY <1>1 DEF TableChanges
<1>2. CASE BrokerLists
  BY <1>2 DEF BrokerLists, AnswerNoBoxes, ListBegins, ListSkips, ListWrites,
              ListWriteFails, ListEnds, SubsLeaks
<1>3. CASE \E kind \in {"list", "subs"} : ManagerAsks(kind)
  BY <1>3 DEF ManagerAsks
<1>4. CASE ManagerReads \/ ManagerStopped \/ ManagerStarts
  BY <1>4 DEF ManagerReads, ManagerStopped, ManagerStarts
<1>5. CASE UNCHANGED vars
  BY <1>5 DEF vars
<1> QED
  BY <1>1, <1>2, <1>3, <1>4, <1>5 DEF Next

(* A listing among additions and removals leaves the table to them:        *)
(* whatever holds of the table alone holds during listings.                *)
THEOREM ListingKeepsTable == Spec => TableSpec
<1>1. Init => TableInit
  BY DEF Init
<1>2. [Next]_vars => [TableNext]_tableVars
  BY ListingStepsTable
<1> QED
  BY <1>1, <1>2, PTL DEF Spec, TableSpec

(* Every box is in one slot, and no slot the listing reads holds a box     *)
(* that was freed, in every state of a listing.                            *)
THEOREM ListedBoxesInTable == Spec => []BoxesInTable
BY ListingKeepsTable, TableHoldsBoxes, PTL

-------------------------------------------------------------------------------
LEMMA ListingInitInv ==
    ASSUME Init
    PROVE  LInv
<1>1. TInv
  BY InitInv DEF Init
<1>2. PipeInv
  BY DEF Init, TableInit, PipeInv
<1>3. ArrayInv
  BY ListingAssumption DEF Init, ArrayInv, ListFits
<1> QED
  BY <1>1, <1>2, <1>3 DEF LInv

(* A response is put into the pipe.                                        *)
LEMMA PipeKept ==
    ASSUME LInv, [Next]_vars
    PROVE  PipeInv'
<1>1. /\ next \in 0 .. size /\ (mutex # "listing" => next = 0)
      /\ pipe \in Seq(Response)
      /\ size \in Nat /\ size \in 0 .. capacity /\ capacity \in Nat
      /\ boxes \in [0 .. capacity - 1 -> Box \cup {NoBox}]
      /\ name \in [Box -> Name \cup {NoName}]
  BY DEF LInv, PipeInv, TInv, TableTypeOK
<1>2. CASE TableChanges
  <2>1. size' \in Nat
    BY <1>2, ListingStepsTable, StepInv DEF LInv, TInv, TableTypeOK, Next
  <2> QED
    BY <1>1, <1>2, <2>1 DEF TableChanges, listVars, PipeInv
<1>3. CASE AnswerNoBoxes
  <2>1. NoBoxes \in Response
    BY DEF NoBoxes, Response
  <2> QED
    BY <1>1, <1>3, <2>1 DEF AnswerNoBoxes, tableVars, PipeInv
<1>4. CASE ListBegins \/ ListEnds \/ ListWriteFails \/ SubsLeaks
  BY <1>1, <1>4 DEF ListBegins, ListEnds, ListWriteFails, SubsLeaks, Served,
                    tableVars, PipeInv
<1>5. CASE ListSkips
  BY <1>1, <1>5 DEF ListSkips, tableVars, PipeInv
<1>6. CASE ListWrites
  <2>1. next \in 0 .. capacity - 1 /\ boxes[next] \in Box
    BY <1>1, <1>6 DEF ListWrites
  <2>2. Last(next) \in {0, 1}
    BY DEF Last
  <2>3. [name |-> name[boxes[next]], last |-> Last(next)] \in Response
    BY <1>1, <2>1, <2>2 DEF Response
  <2> QED
    BY <1>1, <1>6, <2>3 DEF ListWrites, tableVars, PipeInv
<1>7. CASE \E kind \in {"list", "subs"} : ManagerAsks(kind)
  BY <1>1, <1>7 DEF ManagerAsks, tableVars, PipeInv
<1>8. CASE ManagerReads
  BY <1>1, <1>8, HeadTailProperties DEF ManagerReads, tableVars, PipeInv
<1>9. CASE ManagerStopped \/ ManagerStarts
  <2>1. pipe' \in Seq(Response)
    <3>1. pipe' = pipe \/ pipe' = <<>>
      BY <1>9 DEF ManagerStopped, ManagerStarts
    <3> QED
      BY <1>1, <3>1, EmptySeq
  <2>2. UNCHANGED <<size, next, mutex>>
    BY <1>9 DEF ManagerStopped, ManagerStarts, tableVars
  <2> QED
    BY <1>1, <2>1, <2>2 DEF PipeInv
<1>10. CASE UNCHANGED vars
  BY <1>1, <1>10 DEF vars, tableVars, listVars, PipeInv
<1> QED
  BY <1>2, <1>3, <1>4, <1>5, <1>6, <1>7, <1>8, <1>9, <1>10 DEF Next, BrokerLists

(* The array grows in time: it is doubled while there is still one entry   *)
(* free, and the first turn, which does not look, finds more than one.     *)
LEMMA ArrayKept ==
    ASSUME LInv, [Next]_vars
    PROVE  ArrayInv'
<1>1. /\ list \in Seq(Response) /\ pipe \in Seq(Response)
      /\ list_capacity \in Nat /\ list_capacity > 1
      /\ manager \in {"idle", "waiting"} => list = <<>>
      /\ manager = "reading" => Len(list) < list_capacity
  BY DEF LInv, PipeInv, ArrayInv, ListFits
<1>2. CASE UNCHANGED <<list, list_capacity, manager>>
  BY <1>1, <1>2 DEF ArrayInv, ListFits
<1>3. CASE ManagerReads
  <2>1. Head(pipe) \in Response
    BY <1>1, <1>3, HeadTailProperties DEF ManagerReads
  <2>2. /\ list' \in Seq(Response)
        /\ Len(list') = Len(list) + 1
    BY <1>1, <1>3, <2>1, AppendProperties DEF ManagerReads
  <2>3. list_capacity' = NewListCapacity /\ manager' \in {"reading", "done"}
    BY <1>3 DEF ManagerReads
  <2>4. Len(list) \in Nat /\ Len(list) < list_capacity
    BY <1>1, <1>3 DEF ManagerReads
  <2>5. /\ list_capacity' \in Nat /\ list_capacity' > 1
        /\ Len(list') < list_capacity'
    <3>1. CASE list = <<>>
      BY <1>1, <2>2, <2>3, <3>1 DEF NewListCapacity
    <3>2. CASE list # <<>>
      BY <1>1, <2>2, <2>3, <2>4, <3>2 DEF NewListCapacity
    <3> QED BY <3>1, <3>2
  <2> QED
    BY <2>2, <2>3, <2>5 DEF ArrayInv, ListFits
<1>4. CASE ManagerStopped
  BY <1>1, <1>4 DEF ManagerStopped, ArrayInv, ListFits
<1>5. CASE ManagerStarts
  BY <1>5, ListingAssumption DEF ManagerStarts, ArrayInv, ListFits
<1>6. CASE \E kind \in {"list", "subs"} : ManagerAsks(kind)
  BY <1>1, <1>6 DEF ManagerAsks, ArrayInv, ListFits
<1>7. CASE TableChanges \/ BrokerLists
  BY <1>2, <1>7 DEF TableChanges, listVars, BrokerLists, AnswerNoBoxes, ListBegins,
              ListSkips, ListWrites, ListWriteFails, ListEnds, SubsLeaks
<1>8. CASE UNCHANGED vars
  BY <1>2, <1>8 DEF vars, listVars
<1> QED
  BY <1>3, <1>4, <1>5, <1>6, <1>7, <1>8 DEF Next

LEMMA ListingStepInv ==
    ASSUME LInv, [Next]_vars
    PROVE  LInv'
<1>1. TInv'
  BY ListingStepsTable, StepInv DEF LInv
<1> QED
  BY <1>1, PipeKept, ArrayKept DEF LInv

(* The manager never stores a response behind the end of its array, for    *)
(* any number of boxes and any start size above one.                       *)
THEOREM ListingFits == Spec => []ListFits
<1>1. Init => LInv
  BY ListingInitInv
<1>2. LInv /\ [Next]_vars => LInv'
  BY ListingStepInv
<1>3. LInv => ListFits
  BY DEF LInv, ArrayInv
<1> QED
  BY <1>1, <1>2, <1>3, PTL DEF Spec

-------------------------------------------------------------------------------
(* What a slot adds to the names before it.                                *)
WithSlot(s, i) == IF boxes[i] = NoBox THEN s ELSE Append(s, name[boxes[i]])

LEMMA NamesUpToSteps ==
    ASSUME TInv
    PROVE  /\ NamesUpTo(0) = <<>>
           /\ \A k \in 0 .. size : NamesUpTo(k) \in Seq(Name \cup {NoName})
           /\ \A k \in 0 .. size - 1 : NamesUpTo(k + 1) = WithSlot(NamesUpTo(k), k)
<1> DEFINE S == Seq(Name \cup {NoName})
           Rec(f) == f = [i \in 0 .. size |->
                             IF i = 0 THEN <<>>
                             ELSE IF boxes[i - 1] = NoBox THEN f[i - 1]
                             ELSE Append(f[i - 1], name[boxes[i - 1]])]
           g == CHOOSE f : Rec(f)
<1>1. /\ size \in Nat /\ capacity \in Nat /\ size <= capacity
      /\ boxes \in [0 .. capacity - 1 -> Box \cup {NoBox}]
      /\ name \in [Box -> Name \cup {NoName}]
  BY DEF TInv, TableTypeOK
<1>2. \A k : NamesUpTo(k) = g[k]
  BY DEF NamesUpTo
<1>3. <<>> \in S
  BY EmptySeq
<1>4. \A i \in 1 .. size : boxes[i - 1] # NoBox => name[boxes[i - 1]] \in Name \cup {NoName}
  <2>1. \A i \in 1 .. size : i - 1 \in 0 .. capacity - 1
    BY <1>1
  <2> QED
    BY <1>1, <2>1
<1>5. \A i \in 1 .. size, s \in S : WithSlot(s, i - 1) \in S
  BY <1>4, AppendProperties DEF WithSlot
<1> DEFINE step == [i \in 1 .. size |-> [s \in S |-> WithSlot(s, i - 1)]]
<1>6. \E f : f \in [0 .. size -> S] /\ Rec(f)
  <2>1. step \in [1 .. size -> [S -> S]]
    BY <1>5
  <2>2. \A i \in 1 .. size, s \in S : step[i][s] = WithSlot(s, i - 1)
    OBVIOUS
  <2>3. PICK f \in [0 .. size -> S] :
            f[0] = <<>> /\ \A i \in 1 .. size : f[i] = step[i][f[i - 1]]
    <3> HIDE DEF step, S, Rec, g
    <3>1. size \in Nat
      BY <1>1
    <3>2. PICK e \in S : e = <<>>
      BY <1>3
    <3>3. PICK n \in Nat : n = size
      BY <1>1
    <3>4. PICK Z : Z = S
      OBVIOUS
    <3>5. PICK st : st = step
      OBVIOUS
    <3>6. st \in [1 .. n -> [Z -> Z]] /\ e \in Z
      BY <2>1, <3>2, <3>3, <3>4, <3>5
    <3>7. PICK f : Recursive(Z, n, e, st, f)
      BY <3>3, <3>6, RecursionExists, Zenon
    <3>8. f \in [0 .. n -> Z] /\ f[0] = e /\ \A i \in 1 .. n : f[i] = st[i][f[i - 1]]
      BY <3>7 DEF Recursive
    <3> QED
      BY <3>2, <3>3, <3>4, <3>5, <3>8
  <2>4. ASSUME NEW i \in 0 .. size, i # 0
        PROVE  f[i] = WithSlot(f[i - 1], i - 1)
    <3> HIDE DEF step, S, Rec, g
    <3>1. i \in 1 .. size /\ i - 1 \in 0 .. size
      BY <1>1, <2>4
    <3>2. f[i - 1] \in S
      BY <2>3, <3>1
    <3> QED
      BY <2>2, <2>3, <3>1, <3>2
  <2>5. Rec(f)
    <3>1. f = [i \in 0 .. size |-> f[i]]
      BY <2>3
    <3> QED
      BY <2>3, <2>4, <3>1 DEF WithSlot
  <2> QED
    BY <2>5
<1>7. Rec(g)
  BY <1>6
<1>8. /\ g[0] = <<>>
      /\ \A k \in 0 .. size - 1 : g[k + 1] = WithSlot(g[k], k)
  <2>1. \A i \in 0 .. size : g[i] = IF i = 0 THEN <<>>
                             ELSE IF boxes[i - 1] = NoBox THEN g[i - 1]
                             ELSE Append(g[i - 1], name[boxes[i - 1]])
    <3> HIDE DEF g
    <3> QED
      BY <1>7
  <2> HIDE DEF g
  <2>2. ASSUME NEW k \in 0 .. size - 1
        PROVE  g[k + 1] = WithSlot(g[k], k)
    <3>1. k + 1 \in 0 .. size /\ k + 1 # 0 /\ (k + 1) - 1 = k
      BY <1>1
    <3> QED
      BY <2>1, <3>1 DEF WithSlot
  <2>3. g[0] = <<>>
    BY <1>1, <2>1
  <2> QED
    BY <2>2, <2>3
<1>9. 0 .. size \subseteq {k \in 0 .. size : g[k] \in S}
  <2> DEFINE T == {k \in 0 .. size : g[k] \in S}
  <2> HIDE DEF g, S
  <2>1. 0 \in T
    BY <1>1, <1>3, <1>8
  <2>2. ASSUME NEW k \in 0 .. size - 1, g[k] \in S
        PROVE  g[k + 1] \in S /\ k + 1 \in 0 .. size
    <3>1. k + 1 \in 1 .. size /\ (k + 1) - 1 = k /\ k + 1 \in 0 .. size
      BY <1>1
    <3>2. WithSlot(g[k], (k + 1) - 1) \in S
      BY <1>5, <2>2, <3>1
    <3> QED
      BY <1>8, <3>1, <3>2
  <2>3. \A k \in 0 .. size - 1 : k \in T => k + 1 \in T
    BY <2>2
  <2> HIDE DEF T
  <2>4. 0 .. size \subseteq T
    BY <1>1, <2>1, <2>3, IntervalInduction
  <2> QED
    BY <2>4 DEF T
<1> HIDE DEF g
<1> QED
  BY <1>2, <1>8, <1>9

-------------------------------------------------------------------------------
(* What the manager is told: the responses it has read, and the ones that  *)
(* are still in the pipe.                                                  *)
Told == NamesIn(list \o pipe)
Hearing == manager \in {"waiting", "reading"}
Marked(k) == pipe[k].last = 1

(* A manager begins with nothing, and no listing is under way.             *)
Beginning == manager = "idle" =>
                 /\ pipe = <<>> /\ list = <<>>
                 /\ mutex # "listing" /\ asked = "nothing"

(* A question is asked before anything is told.                            *)
AskedFirst == asked # "nothing" =>
                  /\ manager = "waiting"
                  /\ pipe = <<>> /\ list = <<>>
                  /\ mutex # "listing"

(* While the table is locked it is the one of the snapshot, the manager    *)
(* was told the slots before next, and none of them was the last.          *)
ToldSoFar == mutex = "listing" /\ Hearing =>
                 /\ \A k \in 0 .. size : k = size => snapshot = NamesUpTo(k)
                 /\ \A k \in 0 .. size : k = next => Told = NamesUpTo(k)
                 /\ next < size => \A j \in 1 .. Len(pipe) : ~ Marked(j)

(* Behind the mark there is nothing, and before it there is everything.    *)
MarkIsLast == Hearing => \A j \in 1 .. Len(pipe) :
                             Marked(j) => j = Len(pipe) /\ Told = snapshot

StatesInv == /\ mutex \in {"free", "listing", "leaked"}
             /\ manager \in {"idle", "waiting", "reading", "done", "gone"}
             /\ asked \in {"nothing", "list", "subs"}
             /\ snapshot \in Seq(Name \cup {NoName})

(* The inductive invariant of what a listing tells.                        *)
TellInv == /\ Beginning /\ AskedFirst
           /\ ToldSoFar /\ MarkIsLast
           /\ ListingTells

-------------------------------------------------------------------------------
LEMMA NamesAppend ==
    \A s \in Seq(Response), r \in Response :
        NamesIn(Append(s, r)) = Append(NamesIn(s), r.name)
<1> SUFFICES ASSUME NEW s \in Seq(Response), NEW r \in Response
             PROVE  NamesIn(Append(s, r)) = Append(NamesIn(s), r.name)
  OBVIOUS
<1>1. NamesIn(s) \in Seq(Name \cup {NoName}) /\ Len(NamesIn(s)) = Len(s)
  <2>1. \A k \in 1 .. Len(s) : s[k].name \in Name \cup {NoName}
    <3> SUFFICES ASSUME NEW k \in 1 .. Len(s)
                 PROVE  s[k].name \in Name \cup {NoName}
      OBVIOUS
    <3>1. s[k] \in Response
      BY ElementOfSeq
    <3> QED
      BY <3>1 DEF Response
  <2> QED
    BY <2>1 DEF NamesIn
<1>2. r.name \in Name \cup {NoName}
  BY DEF Response
<1>3. NamesIn(Append(s, r)) = [k \in 1 .. Len(s) + 1 |-> Append(s, r)[k].name]
  BY AppendProperties DEF NamesIn
<1>4. Append(NamesIn(s), r.name) =
          [k \in 1 .. Len(s) + 1 |-> IF k = Len(s) + 1 THEN r.name ELSE NamesIn(s)[k]]
  BY <1>1, <1>2
<1>5. \A k \in 1 .. Len(s) + 1 :
          Append(s, r)[k].name = IF k = Len(s) + 1 THEN r.name ELSE NamesIn(s)[k]
  BY AppendProperties DEF NamesIn
<1> QED
  BY <1>3, <1>4, <1>5

LEMMA NothingTold == <<>> \o <<>> = <<>> /\ NamesIn(<<>>) = <<>>
<1>1. NamesIn(<<>>) = [k \in 1 .. 0 |-> <<>>[k].name]
  BY EmptySeq DEF NamesIn
<1> QED
  BY <1>1

LEMMA ToldAppend ==
    \A l, p \in Seq(Response), r \in Response :
        /\ l \o p \in Seq(Response)
        /\ l \o Append(p, r) = Append(l \o p, r)
OBVIOUS

LEMMA ToldTail ==
    \A l, p \in Seq(Response) :
        p # <<>> => Append(l, Head(p)) \o Tail(p) = l \o p
OBVIOUS
LEMMA NamesKept ==
    ASSUME UNCHANGED tableVars
    PROVE  size' = size /\ \A k : NamesUpTo(k)' = NamesUpTo(k)
<1>1. boxes' = boxes /\ size' = size /\ name' = name
  BY DEF tableVars
<1> QED
  BY <1>1 DEF NamesUpTo

-------------------------------------------------------------------------------
LEMMA StatesKept ==
    ASSUME LInv, StatesInv, [Next]_vars
    PROVE  StatesInv'
<1>1. CASE TableChanges
  BY <1>1 DEF TableChanges, listVars, StatesInv
<1>2. CASE AnswerNoBoxes
  <2>1. snapshot' \in Seq(Name \cup {NoName})
    BY <1>2 DEF AnswerNoBoxes
  <2> QED
    BY <1>2, <2>1 DEF AnswerNoBoxes, StatesInv
<1>3. CASE ListBegins
  <2>1. size \in Nat
    BY DEF LInv, TInv, TableTypeOK
  <2>2. PICK n \in 0 .. size : n = size
    BY <2>1
  <2>3. NamesUpTo(n) \in Seq(Name \cup {NoName})
    BY NamesUpToSteps DEF LInv
  <2>4. snapshot' = NamesUpTo(n)
    BY <1>3, <2>2 DEF ListBegins
  <2> QED
    BY <1>3, <2>3, <2>4 DEF ListBegins, StatesInv
<1>4. CASE ListSkips \/ ListWrites \/ ListWriteFails \/ ListEnds \/ SubsLeaks
  BY <1>4 DEF ListSkips, ListWrites, ListWriteFails, ListEnds, SubsLeaks, StatesInv
<1>5. CASE \E kind \in {"list", "subs"} : ManagerAsks(kind)
  BY <1>5 DEF ManagerAsks, StatesInv
<1>6. CASE ManagerReads \/ ManagerStopped
  BY <1>6 DEF ManagerReads, ManagerStopped, StatesInv
<1>7. CASE ManagerStarts
  BY <1>7, EmptySeq DEF ManagerStarts, StatesInv
<1>8. CASE UNCHANGED vars
  BY <1>8 DEF vars, listVars, StatesInv
<1> QED
  BY <1>1, <1>2, <1>3, <1>4, <1>5, <1>6, <1>7, <1>8 DEF Next, BrokerLists

(* Nothing that was told or asked changes, and no table is locked that is  *)
(* told of: other workers, and the steps that lock or unlock the table.    *)
LEMMA TellOthers ==
    ASSUME TellInv, StatesInv,
           TableChanges \/ ListEnds \/ ListWriteFails \/ SubsLeaks \/ UNCHANGED vars
    PROVE  TellInv'
<1>1. CASE TableChanges
  BY <1>1 DEF TableChanges, listVars, TellInv, Beginning, AskedFirst, ToldSoFar,
              MarkIsLast, Marked, Hearing, Told, ListingTells
<1>2. CASE ListEnds \/ ListWriteFails \/ SubsLeaks
  <2>1. /\ UNCHANGED <<pipe, manager, list, snapshot>>
        /\ mutex' # "listing" /\ asked' \in {asked, "nothing"}
        /\ manager = "idle" => asked' = "nothing"
    BY <1>2 DEF ListEnds, ListWriteFails, SubsLeaks, TellInv, Beginning
  <2> QED
    BY <2>1 DEF TellInv, Beginning, AskedFirst, ToldSoFar,
                MarkIsLast, Marked, Hearing, Told, ListingTells
<1>3. CASE UNCHANGED vars
  <2>1. UNCHANGED tableVars /\ UNCHANGED listVars
    BY <1>3 DEF vars
  <2>2. size' = size /\ \A k : NamesUpTo(k)' = NamesUpTo(k)
    BY <2>1, NamesKept
  <2> QED
    BY <2>1, <2>2 DEF listVars, TellInv, Beginning, AskedFirst, ToldSoFar,
                      MarkIsLast, Marked, Hearing, Told, ListingTells
<1> QED
  BY <1>1, <1>2, <1>3

(* A manager that is told of an empty table is told of it all.             *)
LEMMA TellNoBoxes ==
    ASSUME LInv, TellInv, AnswerNoBoxes
    PROVE  TellInv'
<1>1. /\ manager = "waiting" /\ manager' = manager /\ mutex' = "free"
      /\ pipe' = Append(<<>>, NoBoxes) /\ list' = list /\ list = <<>>
      /\ asked' = "nothing" /\ snapshot' = <<NoName>>
  BY DEF AnswerNoBoxes, Served, TellInv, AskedFirst
<1>2. Len(pipe') = 1
  BY <1>1
<1>3. Told' = snapshot'
  <2>1. NoBoxes \in Response /\ NoBoxes.name = NoName
    BY DEF NoBoxes, Response
  <2>2. <<>> \in Seq(Response)
    BY EmptySeq
  <2>3. <<>> \o Append(<<>>, NoBoxes) = Append(<<>>, NoBoxes)
    BY <2>1, <2>2, ToldAppend, NothingTold
  <2>4. NamesIn(Append(<<>>, NoBoxes)) = Append(<<>>, NoName)
    BY <2>1, <2>2, NamesAppend, NothingTold
  <2>5. PICK q : q = Append(<<>>, NoBoxes)
    OBVIOUS
  <2> QED
    BY <1>1, <2>3, <2>4, <2>5 DEF Told
<1> QED
  BY <1>1, <1>2, <1>3 DEF TellInv, Beginning, AskedFirst, ToldSoFar, MarkIsLast,
                          Marked, Hearing, ListingTells

(* The snapshot is taken of the table that stays locked.                   *)
LEMMA TellBegins ==
    ASSUME LInv, TellInv, ListBegins
    PROVE  TellInv'
<1>1. /\ manager = "waiting" /\ manager' = manager /\ mutex' = "listing"
      /\ pipe' = pipe /\ pipe = <<>> /\ list' = list /\ list = <<>>
      /\ asked' = "nothing" /\ next' = 0 /\ snapshot' = NamesUpTo(size)
      /\ UNCHANGED tableVars
  BY DEF ListBegins, Served, TellInv, AskedFirst
<1>2. size' = size /\ \A k : NamesUpTo(k)' = NamesUpTo(k)
  BY <1>1, NamesKept
<1>3. size \in Nat /\ Len(pipe') = 0
  BY <1>1 DEF LInv, TInv, TableTypeOK
<1>4. PICK n \in 0 .. size : n = size /\ snapshot' = NamesUpTo(n)
  BY <1>1, <1>3
<1>5. Told' = NamesUpTo(0)
  BY <1>1, NothingTold, NamesUpToSteps DEF Told, LInv
<1>6. ToldSoFar'
  <2>1. \A k \in 0 .. size' : k = size' => snapshot' = NamesUpTo(k)'
    BY <1>2, <1>4
  <2>2. \A k \in 0 .. size' : k = next' => Told' = NamesUpTo(k)'
    BY <1>1, <1>2, <1>5
  <2> QED
    BY <1>3, <2>1, <2>2 DEF ToldSoFar
<1> QED
  BY <1>1, <1>3, <1>6 DEF TellInv, Beginning, AskedFirst, MarkIsLast, Hearing,
                          ListingTells

(* A hole adds nothing.                                                    *)
LEMMA TellSkips ==
    ASSUME LInv, TellInv, ListSkips
    PROVE  TellInv'
<1>1. /\ UNCHANGED <<pipe, manager, list, snapshot, asked, mutex>>
      /\ UNCHANGED tableVars
      /\ next < size /\ next' = next + 1 /\ mutex = "listing"
      /\ boxes[next] = NoBox
  BY DEF ListSkips
<1>2. size' = size /\ \A k : NamesUpTo(k)' = NamesUpTo(k)
  BY <1>1, NamesKept
<1>3. PICK k \in 0 .. size - 1 : k = next
  BY <1>1 DEF LInv, PipeInv, TInv, TableTypeOK
<1>4. NamesUpTo(k + 1) = NamesUpTo(k)
  BY <1>1, <1>3, NamesUpToSteps DEF LInv, WithSlot
<1>5. size \in Nat /\ k \in 0 .. size /\ Told' = Told
  BY <1>1 DEF LInv, TInv, TableTypeOK, Told
<1>6. ToldSoFar'
  <2> SUFFICES ASSUME Hearing'
               PROVE  /\ \A j \in 0 .. size' : j = size' => snapshot' = NamesUpTo(j)'
                      /\ \A j \in 0 .. size' : j = next' => Told' = NamesUpTo(j)'
                      /\ \A j \in 1 .. Len(pipe') : ~ Marked(j)'
    BY DEF ToldSoFar
  <2>1. mutex = "listing" /\ Hearing
    BY <1>1 DEF Hearing
  <2>2. /\ \A j \in 0 .. size : j = size => snapshot = NamesUpTo(j)
        /\ Told = NamesUpTo(k)
        /\ \A j \in 1 .. Len(pipe) : ~ Marked(j)
    BY <1>1, <1>3, <1>5, <2>1 DEF TellInv, ToldSoFar
  <2>3. \A j \in 0 .. size' : j = next' => Told' = NamesUpTo(j)'
    BY <1>1, <1>2, <1>3, <1>4, <1>5, <2>2
  <2> QED
    BY <1>1, <1>2, <2>2, <2>3 DEF Marked
<1> QED
  BY <1>1, <1>5, <1>6 DEF TellInv, Beginning, AskedFirst, MarkIsLast, Marked,
                          Hearing, ListingTells

(* A response tells its slot, and the last slot's is marked.               *)
LEMMA TellWrites ==
    ASSUME LInv, TellInv, ListWrites
    PROVE  TellInv'
<1>1. /\ UNCHANGED <<manager, list, snapshot, asked, mutex>>
      /\ UNCHANGED tableVars
      /\ next < size /\ next' = next + 1 /\ mutex = "listing"
      /\ boxes[next] # NoBox
      /\ pipe' = Append(pipe, [name |-> name[boxes[next]], last |-> Last(next)])
  BY DEF ListWrites
<1>2. size' = size /\ \A k : NamesUpTo(k)' = NamesUpTo(k)
  BY <1>1, NamesKept
<1>3. PICK k \in 0 .. size - 1 : k = next
  BY <1>1 DEF LInv, PipeInv, TInv, TableTypeOK
<1>4. PICK r : r = [name |-> name[boxes[k]], last |-> Last(k)]
  OBVIOUS
<1>5. /\ size \in Nat /\ k \in 0 .. size /\ k \in 0 .. capacity - 1
      /\ list \in Seq(Response) /\ pipe \in Seq(Response)
  BY DEF LInv, TInv, TableTypeOK, PipeInv, ArrayInv
<1>6. /\ r \in Response /\ r.name = name[boxes[k]]
      /\ r.last = 1 <=> k = size - 1
  <2>1. boxes[k] \in Box
    BY <1>1, <1>3, <1>5 DEF LInv, TInv, TableTypeOK
  <2>2. name[boxes[k]] \in Name \cup {NoName}
    BY <2>1 DEF LInv, TInv, TableTypeOK
  <2> QED
    BY <1>4, <2>2 DEF Last, Response
<1>7. pipe' = Append(pipe, r)
  BY <1>1, <1>3, <1>4
<1>8. PICK l, p \in Seq(Response) : l = list /\ p = pipe
  BY <1>5
<1>9. Told' = Append(Told, r.name)
  <2>1. l \o Append(p, r) = Append(l \o p, r) /\ l \o p \in Seq(Response)
    BY <1>6, ToldAppend
  <2>2. NamesIn(Append(l \o p, r)) = Append(NamesIn(l \o p), r.name)
    BY <1>6, <2>1, NamesAppend
  <2>3. list' = l /\ pipe' = Append(p, r)
    BY <1>1, <1>7, <1>8
  <2>4. Told' = NamesIn(l \o Append(p, r)) /\ Told = NamesIn(l \o p)
    BY <1>8, <2>3 DEF Told
  <2> QED
    BY <2>1, <2>2, <2>4
<1>10. /\ Len(pipe') = Len(pipe) + 1 /\ pipe'[Len(pipe) + 1] = r
       /\ \A j \in 1 .. Len(pipe) : pipe'[j] = pipe[j]
       /\ Len(pipe) \in Nat
  BY <1>5, <1>6, <1>7, AppendProperties
<1>11. Hearing => /\ \A j \in 0 .. size : j = size => snapshot = NamesUpTo(j)
                  /\ Told' = NamesUpTo(k + 1)
                  /\ \A j \in 1 .. Len(pipe) : ~ Marked(j)
  <2> SUFFICES ASSUME Hearing
               PROVE  /\ \A j \in 0 .. size : j = size => snapshot = NamesUpTo(j)
                      /\ Told' = NamesUpTo(k + 1)
                      /\ \A j \in 1 .. Len(pipe) : ~ Marked(j)
    OBVIOUS
  <2>1. /\ \A j \in 0 .. size : j = size => snapshot = NamesUpTo(j)
        /\ Told = NamesUpTo(k)
        /\ \A j \in 1 .. Len(pipe) : ~ Marked(j)
    BY <1>1, <1>3, <1>5 DEF TellInv, ToldSoFar
  <2>2. NamesUpTo(k + 1) = WithSlot(NamesUpTo(k), k)
    BY NamesUpToSteps DEF LInv
  <2>3. WithSlot(NamesUpTo(k), k) = Append(NamesUpTo(k), r.name)
    BY <1>1, <1>3, <1>6 DEF WithSlot
  <2> QED
    BY <1>9, <2>1, <2>2, <2>3
<1>12. ASSUME Hearing', NEW j \in 1 .. Len(pipe'), Marked(j)'
       PROVE  j = Len(pipe') /\ k = size - 1
  <2>1. Hearing
    BY <1>1, <1>12 DEF Hearing
  <2>2. j = Len(pipe) + 1
    BY <1>10, <1>11, <1>12, <2>1 DEF Marked
  <2> QED
    BY <1>6, <1>10, <1>12, <2>2 DEF Marked
<1>13. ToldSoFar'
  <2> SUFFICES ASSUME Hearing'
               PROVE  /\ \A j \in 0 .. size' : j = size' => snapshot' = NamesUpTo(j)'
                      /\ \A j \in 0 .. size' : j = next' => Told' = NamesUpTo(j)'
                      /\ next' < size' => \A j \in 1 .. Len(pipe') : ~ Marked(j)'
    BY DEF ToldSoFar
  <2>1. Hearing
    BY <1>1 DEF Hearing
  <2>2. \A j \in 0 .. size' : j = next' => Told' = NamesUpTo(j)'
    BY <1>1, <1>2, <1>3, <1>11, <2>1
  <2>3. next' < size' => \A j \in 1 .. Len(pipe') : ~ Marked(j)'
    BY <1>1, <1>2, <1>3, <1>5, <1>12
  <2> QED
    BY <1>1, <1>2, <1>11, <2>1, <2>2, <2>3
<1>14. MarkIsLast'
  <2> SUFFICES ASSUME Hearing', NEW j \in 1 .. Len(pipe'), Marked(j)'
               PROVE  j = Len(pipe') /\ Told' = snapshot'
    BY DEF MarkIsLast
  <2>1. Hearing /\ j = Len(pipe') /\ k = size - 1
    BY <1>1, <1>12 DEF Hearing
  <2>2. snapshot = NamesUpTo(k + 1)
    BY <1>5, <1>11, <2>1
  <2> QED
    BY <1>1, <1>11, <2>1, <2>2
<1> QED
  BY <1>1, <1>13, <1>14 DEF TellInv, Beginning, AskedFirst, ListingTells

(* What is read is told no less, and the mark is read last.                *)
LEMMA TellReads ==
    ASSUME LInv, StatesInv, TellInv, ManagerReads
    PROVE  TellInv'
<1>1. /\ Hearing /\ pipe # <<>>
      /\ list' = Append(list, Head(pipe)) /\ pipe' = Tail(pipe)
      /\ manager' = IF Head(pipe).last = 1 THEN "done" ELSE "reading"
      /\ UNCHANGED <<mutex, next, asked, snapshot>> /\ UNCHANGED tableVars
  BY DEF ManagerReads, Hearing
<1>2. asked = "nothing"
  BY <1>1 DEF TellInv, AskedFirst
<1>3. PICK l, p \in Seq(Response) : l = list /\ p = pipe
  BY DEF LInv, PipeInv, ArrayInv
<1>4. /\ list' = Append(l, Head(p)) /\ pipe' = Tail(p) /\ p # <<>>
  BY <1>1, <1>3
<1>5. Append(l, Head(p)) \o Tail(p) = l \o p
  BY <1>4, ToldTail
<1>6. Told' = Told
  BY <1>3, <1>4, <1>5 DEF Told
<1>7. /\ Head(p) = p[1] /\ Len(p) \in Nat \ {0} /\ Len(Tail(p)) = Len(p) - 1
      /\ \A j \in 1 .. Len(Tail(p)) : Tail(p)[j] = p[j + 1]
      /\ Head(p) \in Response /\ Tail(p) \in Seq(Response)
  BY <1>4, HeadTailProperties, EmptySeq
<1>8. \A j \in 1 .. Len(p) : p[j].last = 1 => j = Len(p) /\ Told = snapshot
  BY <1>1, <1>3 DEF TellInv, MarkIsLast, Marked
<1>9. \A j \in 1 .. Len(pipe') : Marked(j)' => j = Len(pipe') /\ Told' = snapshot'
  <2> SUFFICES ASSUME NEW j \in 1 .. Len(Tail(p)), Tail(p)[j].last = 1
               PROVE  j = Len(Tail(p)) /\ Told' = snapshot'
    BY <1>4 DEF Marked
  <2>1. j + 1 \in 1 .. Len(p) /\ p[j + 1].last = 1
    BY <1>7
  <2>2. j + 1 = Len(p) /\ Told = snapshot
    BY <1>8, <2>1
  <2>3. Told' = snapshot'
    BY <1>1, <1>6, <2>2
  <2>4. Len(Tail(p)) = Len(p) - 1 /\ Len(p) \in Nat
    BY <1>7
  <2> QED
    BY <2>2, <2>3, <2>4
<1>10. CASE Head(p).last = 1
  <2>1. manager' = "done"
    BY <1>1, <1>3, <1>10
  <2>2. 1 = Len(p) /\ Told = snapshot
    <3>1. 1 \in 1 .. Len(p) /\ p[1].last = 1
      BY <1>7, <1>10
    <3> QED
      BY <1>8, <3>1
  <2>3. Tail(p) = <<>>
    <3>1. Len(Tail(p)) = 0 /\ Tail(p) \in Seq(Response)
      BY <1>7, <2>2
    <3> QED
      BY <3>1, EmptySeq
  <2>4. PICK q : q = Append(l, Head(p))
    OBVIOUS
  <2>5. q \in Seq(Response) /\ q \o <<>> = q
    BY <1>7, <2>4, AppendProperties
  <2>6. Told' = NamesIn(q) /\ list' = q
    BY <1>4, <2>3, <2>4, <2>5 DEF Told
  <2>7. NamesIn(list)' = Told'
    BY <2>6
  <2> QED
    BY <1>1, <1>2, <1>6, <2>1, <2>2, <2>7
       DEF TellInv, Beginning, AskedFirst, ToldSoFar, MarkIsLast, Hearing, ListingTells
<1>11. CASE Head(p).last # 1
  <2>1. manager' = "reading" /\ Hearing'
    BY <1>1, <1>3, <1>11 DEF Hearing
  <2>2. size' = size /\ \A k : NamesUpTo(k)' = NamesUpTo(k)
    BY <1>1, NamesKept
  <2>3. ToldSoFar'
    <3> SUFFICES ASSUME mutex = "listing"
                 PROVE  /\ \A j \in 0 .. size' : j = size' => snapshot' = NamesUpTo(j)'
                        /\ \A j \in 0 .. size' : j = next' => Told' = NamesUpTo(j)'
                        /\ next' < size' => \A j \in 1 .. Len(pipe') : ~ Marked(j)'
      BY <1>1 DEF ToldSoFar
    <3>1. /\ \A j \in 0 .. size : j = size => snapshot = NamesUpTo(j)
          /\ \A j \in 0 .. size : j = next => Told = NamesUpTo(j)
          /\ next < size => \A j \in 1 .. Len(p) : p[j].last # 1
      BY <1>1, <1>3 DEF TellInv, ToldSoFar, Marked
    <3>2. next' < size' => \A j \in 1 .. Len(pipe') : ~ Marked(j)'
      <4> SUFFICES ASSUME next < size, NEW j \in 1 .. Len(Tail(p))
                   PROVE  Tail(p)[j].last # 1
        BY <1>1, <1>4, <2>2 DEF Marked
      <4>1. j + 1 \in 1 .. Len(p)
        BY <1>7
      <4> QED
        BY <1>7, <3>1, <4>1
    <3> QED
      BY <1>1, <1>6, <2>2, <3>1, <3>2
  <2> QED
    BY <1>1, <1>2, <1>9, <2>1, <2>3 DEF TellInv, Beginning, AskedFirst, MarkIsLast,
                                        Hearing, ListingTells
<1> QED
  BY <1>10, <1>11

(* Questions, and managers that come and go.                               *)
LEMMA TellManager ==
    ASSUME LInv, TellInv,
           \/ \E kind \in {"list", "subs"} : ManagerAsks(kind)
           \/ ManagerStopped \/ ManagerStarts
    PROVE  TellInv'
<1>1. CASE \E kind \in {"list", "subs"} : ManagerAsks(kind)
  <2>1. /\ manager = "idle" /\ manager' = "waiting"
        /\ UNCHANGED <<pipe, list, mutex>>
    BY <1>1 DEF ManagerAsks
  <2>2. /\ pipe' = <<>> /\ list' = <<>> /\ mutex' # "listing"
    BY <2>1 DEF TellInv, Beginning
  <2>3. Len(pipe') = 0
    BY <2>2
  <2> QED
    BY <2>1, <2>2, <2>3 DEF TellInv, Beginning, AskedFirst, ToldSoFar, MarkIsLast,
                            ListingTells
<1>2. CASE ManagerStopped
  BY <1>2 DEF ManagerStopped, TellInv, Beginning, AskedFirst, ToldSoFar, MarkIsLast,
              Hearing, ListingTells
<1>3. CASE ManagerStarts
  <2>1. asked = "nothing"
    BY <1>3 DEF ManagerStarts, TellInv, AskedFirst
  <2> QED
    BY <1>3, <2>1 DEF ManagerStarts, TellInv, Beginning, AskedFirst, ToldSoFar,
                      MarkIsLast, Hearing, ListingTells
<1> QED
  BY <1>1, <1>2, <1>3

LEMMA TellInitInv ==
    ASSUME Init
    PROVE  StatesInv /\ TellInv
BY EmptySeq DEF Init, StatesInv, TellInv, Beginning, AskedFirst, ToldSoFar,
                MarkIsLast, Hearing, ListingTells

(* The inductive invariant: the broker is at a slot of the table, the      *)
(* manager's array has room, and what the manager was told so far are the  *)
(* names before that slot.                                                 *)
THEOREM ListingInvariance == Spec => [](LInv /\ StatesInv /\ TellInv)
<1>1. Init => LInv /\ StatesInv /\ TellInv
  BY ListingInitInv, TellInitInv
<1>2. LInv /\ StatesInv /\ TellInv /\ [Next]_vars => (LInv /\ StatesInv /\ TellInv)'
  <2> SUFFICES ASSUME LInv, StatesInv, TellInv, [Next]_vars
               PROVE  (LInv /\ StatesInv /\ TellInv)'
    OBVIOUS
  <2>1. LInv' /\ StatesInv'
    BY ListingStepInv, StatesKept
  <2>2. TellInv'
    BY TellOthers, TellNoBoxes, TellBegins, TellSkips, TellWrites, TellReads,
       TellManager
       DEF Next, BrokerLists
  <2> QED
    BY <2>1, <2>2
<1> QED
  BY <1>1, <1>2, PTL DEF Spec

(* Every variable of a listing has its type, the snapshot as well, which   *)
(* is computed by recursion over the slots.                                *)
THEOREM ListingTypes == Spec => []TypeOK
<1>1. LInv /\ StatesInv => TypeOK
  BY DEF LInv, TInv, PipeInv, ArrayInv, StatesInv, TypeOK
<1> QED
  BY <1>1, ListingInvariance, PTL

(* What a manager prints is the table at one moment, whole and in order,   *)
(* for any number of boxes: the mark that is computed from the slots comes *)
(* behind the last name, and nothing is added or removed in between.       *)
THEOREM ListingIsSnapshot == Spec => []ListingTells
<1>1. TellInv => ListingTells
  BY DEF TellInv
<1> QED
  BY <1>1, ListingInvariance, PTL
===============================================================================
