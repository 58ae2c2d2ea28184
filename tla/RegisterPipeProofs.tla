-------------------------- MODULE RegisterPipeProofs --------------------------
(***************************************************************************)
(* Theorems about RegisterPipe for any finite set of clients and any bound *)
(* on descriptors: what a read leaves in the pipe, that every turn of the  *)
(* main loop has a cause, and that the pipe with the loop behind it is a   *)
(* channel that loses requests but does nothing else to them.              *)
(***************************************************************************)
EXTENDS RegisterPipe, SequenceTheorems, FiniteSetTheorems, RecursionLemmas

Segment == [of : Client, left : Nat \ {0}]

(* The state between two steps, as far as no count is needed: a buffer is  *)
(* held only until it is enqueued, a descriptor is left while open waits,  *)
(* and only the head of the pipe is a rest of a request.                   *)
HeldInv == /\ main # "enqueue" => buffer = Nobody
           /\ main = "waiting" => fds < MaxFds
           /\ \A k \in 2 .. Len(pipe) : IsWhole(pipe[k])

(* The clients that have closed their end.                                 *)
Done == {c \in Client : client[c] \in {"closed", "gone"}}
(* Main is about to read the end of file, if no client comes before that.  *)
AtEnd == (main = "reading" \/ (main = "waiting" /\ knock)) /\ Writers = {}
Pending == IF main = "enqueue" \/ AtEnd THEN 1 ELSE 0

(* Every turn, those that must come included, is the turn of a request or  *)
(* of a client that left: a read takes one request at least from the pipe, *)
(* and between two ends of file a client has come and gone.                *)
CauseInv == turns + Len(pipe) + Pending <= Cardinality(Sent) + Cardinality(Done)

-------------------------------------------------------------------------------
(* Lemmas about a read.                                                    *)

LEMMA LengthRange == \A c : Length(c) \in 1 .. 289
BY DEF Length

(* The bytes up to the k-th segment are the sum of their lengths.          *)
LEMMA BytesOfSums ==
    ASSUME TypeOK
    PROVE  /\ BytesOf(0) = 0
           /\ \A k \in 0 .. Len(pipe) : BytesOf(k) \in Nat
           /\ \A k \in 1 .. Len(pipe) : BytesOf(k) = BytesOf(k - 1) + pipe[k].left
<1> DEFINE Rec(k, f) == f = [i \in 0 .. k |-> IF i = 0 THEN 0 ELSE f[i - 1] + pipe[i].left]
           step == [i \in 1 .. Len(pipe) |-> [s \in Nat |-> s + pipe[i].left]]
<1>1. Len(pipe) \in Nat /\ \A i \in 1 .. Len(pipe) : pipe[i].left \in Nat
  <2>1. pipe \in Seq(Segment)
    BY DEF TypeOK, Segment
  <2>2. \A i \in 1 .. Len(pipe) : pipe[i] \in Segment
    BY <2>1, ElementOfSeq
  <2> QED
    BY <2>1, <2>2 DEF Segment
<1>2. PICK g : g \in [0 .. Len(pipe) -> Nat] /\ g[0] = 0
               /\ \A i \in 1 .. Len(pipe) : g[i] = g[i - 1] + pipe[i].left
  <2>1. PICK n \in Nat : n = Len(pipe)
    BY <1>1
  <2>2. PICK st : st = step
    OBVIOUS
  <2>3. st \in [1 .. n -> [Nat -> Nat]]
    BY <1>1, <2>1, <2>2
  <2>4. PICK z \in Nat : z = 0
    OBVIOUS
  <2>5. PICK N : N = Nat
    OBVIOUS
  <2>6. st \in [1 .. n -> [N -> N]] /\ z \in N
    BY <2>3, <2>4, <2>5
  <2>7. PICK g : Recursive(N, n, z, st, g)
    <3> HIDE DEF step
    <3> QED
      BY <2>1, <2>6, RecursionExists, Zenon
  <2>8. /\ g \in [0 .. n -> Nat] /\ g[0] = 0
        /\ \A i \in 1 .. n : g[i] = st[i][g[i - 1]]
    BY <2>4, <2>5, <2>7 DEF Recursive
  <2>9. \A i \in 1 .. n : g[i - 1] \in Nat
    BY <2>1, <2>8
  <2>10. \A i \in 1 .. n : g[i] = g[i - 1] + pipe[i].left
    BY <2>1, <2>2, <2>8, <2>9
  <2> QED
    BY <2>1, <2>8, <2>10
<1>3. ASSUME NEW k \in 0 .. Len(pipe)
      PROVE  BytesOf(k) = g[k]
  <2> DEFINE f == CHOOSE f : Rec(k, f)
             h == [i \in 0 .. k |-> g[i]]
  <2>1. BytesOf(k) = f[k]
    BY DEF BytesOf
  <2>2. Rec(k, h)
    <3>1. \A i \in 0 .. k : i # 0 => i \in 1 .. Len(pipe) /\ i - 1 \in 0 .. k
      BY <1>1
    <3>2. \A i \in 0 .. k : h[i] = IF i = 0 THEN 0 ELSE h[i - 1] + pipe[i].left
      BY <1>2, <3>1
    <3> QED
      BY <3>2
  <2>3. Rec(k, f)
    <3> HIDE DEF h, Rec
    <3> QED
      BY <2>2
  <2>4. \A i \in 0 .. k : f[i] = IF i = 0 THEN 0 ELSE f[i - 1] + pipe[i].left
    <3> HIDE DEF f
    <3> QED
      BY <2>3
  <2> DEFINE T == {i \in 0 .. k : f[i] = g[i]}
  <2> HIDE DEF f
  <2>5. 0 \in T
    BY <1>1, <1>2, <2>4
  <2>6. ASSUME NEW i \in 0 .. k - 1, i \in T
        PROVE  i + 1 \in T
    <3>1. /\ i + 1 \in 0 .. k /\ i + 1 # 0 /\ (i + 1) - 1 = i
          /\ i + 1 \in 1 .. Len(pipe)
      BY <1>1
    <3>2. f[i + 1] = f[i] + pipe[i + 1].left /\ g[i + 1] = g[i] + pipe[i + 1].left
      BY <1>2, <2>4, <3>1
    <3> QED
      BY <2>6, <3>1, <3>2
  <2>7. 0 .. k \subseteq T
    <3> HIDE DEF T
    <3>1. k \in Nat
      BY <1>1
    <3> QED
      BY <2>5, <2>6, <3>1, IntervalInduction
  <2>8. k \in 0 .. k
    BY <1>1
  <2> QED
    BY <2>1, <2>7, <2>8
<1>4. \A k \in 1 .. Len(pipe) : k \in 0 .. Len(pipe) /\ k - 1 \in 0 .. Len(pipe)
  BY <1>1
<1>5. 0 \in 0 .. Len(pipe)
  BY <1>1
<1> HIDE DEF Rec, step
<1> QED
  BY <1>2, <1>3, <1>4, <1>5

(* What a read leaves: nothing, or the end of the k-th segment, b bytes of *)
(* it, and all behind it.  One segment at least is read whole.             *)
Leaves(rest, k, b) ==
    /\ k \in 2 .. Len(pipe) /\ b \in 1 .. pipe[k].left
    /\ rest = <<[of |-> pipe[k].of, left |-> b]>> \o SubSeq(pipe, k + 1, Len(pipe))

LEMMA RestLeaves ==
    ASSUME TypeOK, pipe # <<>>
    PROVE  Rest = <<>> \/ \E k, b : Leaves(Rest, k, b)
<1>1. pipe \in Seq(Segment) /\ Len(pipe) \in Nat \ {0}
  BY EmptySeq DEF TypeOK, Segment
<1>2. \A k \in 1 .. Len(pipe) : /\ pipe[k] \in Segment
                                /\ pipe[k].left \in 1 .. 289
  <2> SUFFICES ASSUME NEW k \in 1 .. Len(pipe)
               PROVE  pipe[k] \in Segment /\ pipe[k].left \in 1 .. 289
    OBVIOUS
  <2>1. pipe[k] \in Segment /\ pipe[k].left <= Length(pipe[k].of)
    BY <1>1, ElementOfSeq DEF TypeOK
  <2>2. Length(pipe[k].of) \in 1 .. 289
    BY LengthRange
  <2>3. pipe[k].left \in Nat \ {0}
    BY <2>1 DEF Segment
  <2>4. PICK n, m : n = pipe[k].left /\ m = Length(pipe[k].of)
    OBVIOUS
  <2>5. n \in 1 .. 289
    <3>1. m \in 1 .. 289 /\ n \in Nat \ {0}
      BY <2>2, <2>3, <2>4
    <3>2. n <= m
      BY <2>1, <2>4
    <3> QED
      BY <3>1, <3>2
  <2> QED
    BY <2>1, <2>4, <2>5
<1> DEFINE over == {k \in 1 .. Len(pipe) : BytesOf(k) > MAIN_BUFFER_SIZE}
<1>3. CASE over = {}
  BY <1>3 DEF Rest
<1>4. CASE over # {}
  <2> DEFINE first == CHOOSE i \in over : \A j \in over : i <= j
  <2>0. PICK k : k = first
    OBVIOUS
  <2>1. Rest = <<[pipe[k] EXCEPT !.left = BytesOf(k) - MAIN_BUFFER_SIZE]>>
                   \o SubSeq(pipe, k + 1, Len(pipe))
    BY <1>4, <2>0 DEF Rest
  <2>2. k \in over /\ \A j \in over : k <= j
    <3>1. \E i \in over : \A j \in over : i <= j
      <4> HIDE DEF over
      <4>1. over \subseteq Nat
        BY <1>1 DEF over
      <4> QED
        BY <1>4, <4>1, LeastNatural
    <3> HIDE DEF over
    <3> QED
      BY <2>0, <3>1
  <2> HIDE DEF first
  <2>3. k \in 1 .. Len(pipe) /\ BytesOf(k) > MAIN_BUFFER_SIZE /\ k \in Nat
    BY <1>1, <2>2
  <2>4. /\ BytesOf(k) = BytesOf(k - 1) + pipe[k].left
        /\ BytesOf(k) \in Nat /\ BytesOf(k - 1) \in Nat /\ BytesOf(0) = 0
    <3>1. k \in 0 .. Len(pipe) /\ k - 1 \in 0 .. Len(pipe)
      BY <1>1, <2>3
    <3> QED
      BY <2>3, <3>1, BytesOfSums
  <2>5. k # 1
    <3> SUFFICES ASSUME k = 1 PROVE FALSE
      OBVIOUS
    <3>1. BytesOf(1) = BytesOf(0) + pipe[1].left /\ pipe[1].left \in 1 .. 289
      <4>1. 1 \in 1 .. Len(pipe) /\ 1 - 1 = 0
        BY <1>1
      <4>2. BytesOf(1) = BytesOf(1 - 1) + pipe[1].left
        BY <4>1, BytesOfSums
      <4> QED
        BY <1>2, <4>1, <4>2
    <3>2. BytesOf(1) > MAIN_BUFFER_SIZE
      BY <2>3
    <3>3. \A m \in 1 .. 289 : ~ (0 + m > 1029)
      OBVIOUS
    <3>4. BytesOf(1) = 0 + pipe[1].left
      BY <2>4, <3>1
    <3>5. ~ (BytesOf(1) > 1029)
      BY <3>1, <3>3, <3>4
    <3> QED
      BY <3>2, <3>5 DEF MAIN_BUFFER_SIZE
  <2>6. BytesOf(k - 1) <= MAIN_BUFFER_SIZE
    <3>1. k - 1 \in 1 .. Len(pipe) /\ ~ (k <= k - 1)
      BY <2>3, <2>5
    <3>2. k - 1 \notin over
      BY <2>2, <3>1
    <3> QED
      BY <2>4, <3>1, <3>2 DEF MAIN_BUFFER_SIZE
  <2> DEFINE b == BytesOf(k) - MAIN_BUFFER_SIZE
  <2>7. b \in 1 .. pipe[k].left
    <3>1. PICK m \in 1 .. 289 : m = pipe[k].left
      BY <1>2, <2>3
    <3>2. BytesOf(k) = BytesOf(k - 1) + m
      BY <2>4, <3>1
    <3> QED
      BY <2>3, <2>4, <2>6, <3>1, <3>2 DEF MAIN_BUFFER_SIZE
  <2>8. [pipe[k] EXCEPT !.left = b] = [of |-> pipe[k].of, left |-> b]
    <3>1. pipe[k] \in Segment
      BY <1>2, <2>3
    <3> QED
      BY <3>1 DEF Segment
  <2>9. Leaves(Rest, k, b)
    <3>1. k \in 2 .. Len(pipe)
      BY <2>3, <2>5
    <3> QED
      BY <2>1, <2>7, <2>8, <3>1 DEF Leaves
  <2> QED
    BY <2>9
<1> QED
  BY <1>3, <1>4

(* The rest of the pipe, segment by segment.                               *)
RestSegments(rest, k, b) ==
    /\ rest \in Seq(Segment)
    /\ Len(rest) = Len(pipe) - k + 1
    /\ rest[1] = [of |-> pipe[k].of, left |-> b]
    /\ \A j \in 2 .. Len(rest) : rest[j] = pipe[k + j - 1]
    /\ \A j \in 1 .. Len(rest) : rest[j].left <= Length(rest[j].of)

LEMMA LeavesSegments ==
    ASSUME TypeOK, NEW rest, NEW k, NEW b, Leaves(rest, k, b)
    PROVE  RestSegments(rest, k, b)
<1>1. /\ pipe \in Seq(Segment) /\ Len(pipe) \in Nat
      /\ k \in 2 .. Len(pipe) /\ b \in 1 .. pipe[k].left
      /\ rest = <<[of |-> pipe[k].of, left |-> b]>> \o SubSeq(pipe, k + 1, Len(pipe))
  BY DEF TypeOK, Leaves, Segment
<1>2. pipe[k] \in Segment /\ pipe[k].left <= Length(pipe[k].of)
  BY <1>1, ElementOfSeq DEF TypeOK
<1>3. PICK head : head = [of |-> pipe[k].of, left |-> b]
  OBVIOUS
<1>4. head \in Segment
  BY <1>1, <1>2, <1>3 DEF Segment
<1>5. PICK tail : tail = SubSeq(pipe, k + 1, Len(pipe))
  OBVIOUS
<1>6. /\ tail \in Seq(Segment) /\ Len(tail) = Len(pipe) - k
      /\ \A j \in 1 .. Len(tail) : tail[j] = pipe[k + j]
  <2>1. /\ tail = [j \in 1 .. (IF k + 1 <= Len(pipe) THEN Len(pipe) - (k + 1) + 1 ELSE 0)
                      |-> pipe[k + 1 + j - 1]]
    BY <1>1, <1>5
  <2>2. tail = [j \in 1 .. Len(pipe) - k |-> pipe[k + j]]
    <3>1. \A j \in 1 .. Len(pipe) - k : k + 1 + j - 1 = k + j
      BY <1>1
    <3>2. (IF k + 1 <= Len(pipe) THEN Len(pipe) - (k + 1) + 1 ELSE 0) = Len(pipe) - k
      BY <1>1
    <3> QED
      BY <2>1, <3>1, <3>2
  <2>3. \A j \in 1 .. Len(pipe) - k : pipe[k + j] \in Segment
    <3> SUFFICES ASSUME NEW j \in 1 .. Len(pipe) - k
                 PROVE  pipe[k + j] \in Segment
      OBVIOUS
    <3>1. k + j \in 1 .. Len(pipe)
      BY <1>1
    <3> QED
      BY <1>1, <3>1, ElementOfSeq
  <2>4. Len(pipe) - k \in Nat
    BY <1>1
  <2> QED
    BY <2>2, <2>3, <2>4
<1>7. rest = <<head>> \o tail /\ <<head>> \in Seq(Segment) /\ Len(<<head>>) = 1
  BY <1>1, <1>3, <1>4, <1>5
<1>8. /\ rest \in Seq(Segment) /\ Len(rest) = 1 + Len(tail)
      /\ rest[1] = head
      /\ \A j \in 2 .. Len(rest) : rest[j] = tail[j - 1]
  BY <1>6, <1>7, ConcatProperties
<1>9. ASSUME NEW j \in 2 .. Len(rest)
      PROVE  /\ rest[j] = pipe[k + j - 1]
             /\ rest[j].left <= Length(rest[j].of)
  <2>1. j - 1 \in 1 .. Len(tail) /\ k + (j - 1) = k + j - 1 /\ k + j - 1 \in 1 .. Len(pipe)
    BY <1>1, <1>6, <1>8
  <2>2. rest[j] = pipe[k + j - 1]
    BY <1>6, <1>8, <2>1
  <2> QED
    BY <2>1, <2>2 DEF TypeOK
<1>10. rest[1].left <= Length(rest[1].of)
  <2>1. rest[1].left = b /\ rest[1].of = pipe[k].of
    BY <1>3, <1>8
  <2>2. pipe[k].left \in Nat /\ Length(pipe[k].of) \in Nat
    BY <1>2, LengthRange DEF Segment
  <2> QED
    BY <1>1, <1>2, <2>1, <2>2
<1>11. Len(rest) = Len(pipe) - k + 1
  BY <1>1, <1>6, <1>8
<1>12. \A j \in 1 .. Len(rest) : j = 1 \/ j \in 2 .. Len(rest)
  BY <1>1, <1>11
<1> QED
  BY <1>3, <1>8, <1>9, <1>10, <1>11, <1>12 DEF RestSegments

-------------------------------------------------------------------------------
(* The types, the buffer and the head of the pipe.                         *)

LEMMA HeldStepClients ==
    ASSUME TypeOK, HeldInv,
           NEW c \in Client, Opens(c) \/ Writes(c) \/ GivesUp(c) \/ Closes(c)
    PROVE  TypeOK' /\ HeldInv'
<1>1. CASE Opens(c) \/ GivesUp(c) \/ Closes(c)
  <2>1. client' \in [Client -> {"started", "opened", "written", "closed", "gone"}]
    BY <1>1 DEF Opens, GivesUp, Closes, Becomes, TypeOK
  <2>2. knock' \in BOOLEAN
    BY <1>1 DEF Opens, GivesUp, Closes, TypeOK
  <2>3. UNCHANGED <<pipe, main, fds, buffer, served, turns, crowded>>
    BY <1>1 DEF Opens, GivesUp, Closes
  <2> QED
    BY <2>1, <2>2, <2>3 DEF TypeOK, HeldInv
<1>2. CASE Writes(c)
  <2>1. PICK s : s = [of |-> c, left |-> Length(c)]
    OBVIOUS
  <2>2. s \in Segment /\ IsWhole(s) /\ s.left <= Length(s.of)
    BY <2>1, LengthRange DEF Segment, IsWhole
  <2>3. /\ pipe' = Append(pipe, s) /\ pipe \in Seq(Segment)
        /\ client' = [client EXCEPT ![c] = "written"]
        /\ crowded' = (crowded \/ pipe # <<>>)
        /\ UNCHANGED <<main, knock, fds, buffer, served, turns>>
    BY <1>2, <2>1 DEF Writes, Becomes, TypeOK, Segment
  <2>4. /\ pipe' \in Seq(Segment) /\ Len(pipe') = Len(pipe) + 1
        /\ pipe'[Len(pipe) + 1] = s
        /\ \A k \in 1 .. Len(pipe) : pipe'[k] = pipe[k]
        /\ Len(pipe) \in Nat
    BY <2>2, <2>3, AppendProperties
  <2>5. ASSUME NEW k \in 1 .. Len(pipe')
        PROVE  /\ pipe'[k].left <= Length(pipe'[k].of)
               /\ k # 1 => IsWhole(pipe'[k])
    <3>1. CASE k = Len(pipe) + 1
      BY <2>2, <2>4, <3>1
    <3>2. CASE k # Len(pipe) + 1
      <4>1. k \in 1 .. Len(pipe) /\ pipe'[k] = pipe[k] /\ (k # 1 => k \in 2 .. Len(pipe))
        BY <2>4, <3>2
      <4> QED
        BY <4>1 DEF TypeOK, HeldInv
    <3> QED
      BY <3>1, <3>2
  <2>6. TypeOK'
    <3>1. \A k \in 1 .. Len(pipe') : pipe'[k].left <= Length(pipe'[k].of)
      BY <2>5
    <3>2. client' \in [Client -> {"started", "opened", "written", "closed", "gone"}]
      BY <2>3 DEF TypeOK
    <3>3. crowded' \in BOOLEAN
      BY <2>3 DEF TypeOK
    <3> QED
      BY <2>3, <2>4, <3>1, <3>2, <3>3 DEF TypeOK, Segment
  <2>7. HeldInv'
    <3>1. \A k \in 2 .. Len(pipe') : k \in 1 .. Len(pipe') /\ k # 1
      OBVIOUS
    <3>2. \A k \in 2 .. Len(pipe') : IsWhole(pipe'[k])
      BY <2>5, <3>1
    <3> QED
      BY <2>3, <3>2 DEF HeldInv
  <2> QED
    BY <2>6, <2>7
<1> QED
  BY <1>1, <1>2

LEMMA HeldStepReads ==
    ASSUME TypeOK, HeldInv, ReadsData
    PROVE  TypeOK' /\ HeldInv'
<1>1. /\ pipe # <<>> /\ pipe' = Rest /\ main' = "enqueue" /\ buffer' = First
      /\ UNCHANGED <<client, knock, fds, served, turns, crowded>>
      /\ pipe \in Seq(Segment)
  BY DEF ReadsData, TypeOK, Segment
<1>2. buffer' \in Client \cup {Nobody}
  <2>1. Head(pipe) \in Segment
    BY <1>1, HeadTailProperties
  <2> QED
    BY <1>1, <2>1 DEF First, Segment
<1>3. CASE Rest = <<>>
  <2>1. pipe' \in Seq(Segment) /\ Len(pipe') = 0
    BY <1>1, <1>3, EmptySeq
  <2> QED
    BY <1>1, <1>2, <2>1 DEF TypeOK, HeldInv, Segment
<1>4. CASE \E k, b : Leaves(Rest, k, b)
  <2>1. PICK r : r = Rest
    OBVIOUS
  <2>2. PICK k, b : Leaves(r, k, b)
    BY <1>4, <2>1
  <2>3. /\ pipe' = r /\ r \in Seq(Segment)
        /\ \A j \in 1 .. Len(r) : r[j].left <= Length(r[j].of)
    BY <1>1, <2>1, <2>2, LeavesSegments DEF RestSegments
  <2>4. \A j \in 2 .. Len(r) : IsWhole(r[j])
    <3> SUFFICES ASSUME NEW j \in 2 .. Len(r)
                 PROVE  IsWhole(r[j])
      OBVIOUS
    <3>1. r[j] = pipe[k + j - 1] /\ Len(r) = Len(pipe) - k + 1
      <4>1. /\ Len(r) = Len(pipe) - k + 1
            /\ \A i \in 2 .. Len(r) : r[i] = pipe[k + i - 1]
        <5>1. RestSegments(r, k, b)
          BY <2>2, LeavesSegments
        <5> QED
          BY <5>1 DEF RestSegments
      <4> QED
        BY <4>1
    <3>2. k + j - 1 \in 2 .. Len(pipe)
      <4>1. k \in 2 .. Len(pipe) /\ Len(pipe) \in Nat
        BY <1>1, <2>2 DEF Leaves
      <4> QED
        BY <3>1, <4>1
    <3> QED
      BY <3>1, <3>2 DEF HeldInv
  <2>5. TypeOK'
    BY <1>1, <1>2, <2>3 DEF TypeOK, Segment
  <2> QED
    BY <1>1, <2>3, <2>4, <2>5 DEF HeldInv
<1> QED
  BY <1>1, <1>3, <1>4, RestLeaves

LEMMA HeldStep ==
    ASSUME TypeOK, HeldInv, [Next]_vars
    PROVE  TypeOK' /\ HeldInv'
<1>1. CASE \E c \in Client : Opens(c) \/ Writes(c) \/ GivesUp(c) \/ Closes(c)
  BY <1>1, HeldStepClients
<1>2. CASE CallsOpen
  <2>1. fds \in 0 .. MaxFds /\ MaxFds \in Nat /\ fds < MaxFds
    BY <1>2, RegisterPipeAssumption DEF CallsOpen, TypeOK
  <2>2. fds' \in 0 .. MaxFds /\ (main' = "waiting" => fds' < MaxFds)
    BY <1>2, <2>1 DEF CallsOpen
  <2>3. main' \in {"reading", "waiting"} /\ buffer = Nobody
    BY <1>2 DEF CallsOpen, HeldInv
  <2>4. knock' = FALSE /\ UNCHANGED <<client, pipe, buffer, served, turns, crowded>>
    BY <1>2 DEF CallsOpen
  <2> QED
    BY <2>2, <2>3, <2>4 DEF TypeOK, HeldInv
<1>3. CASE OpenReturns
  <2>1. fds < MaxFds
    BY <1>3 DEF OpenReturns, HeldInv
  <2>2. fds \in 0 .. MaxFds /\ MaxFds \in Nat
    BY RegisterPipeAssumption DEF TypeOK
  <2>3. fds' \in 0 .. MaxFds
    BY <1>3, <2>1, <2>2 DEF OpenReturns
  <2> QED
    BY <1>3, <2>3 DEF OpenReturns, TypeOK, HeldInv
<1>4. CASE OpenFails
  BY <1>4 DEF OpenFails, TypeOK, HeldInv
<1>5. CASE ReadsData
  BY <1>5, HeldStepReads
<1>6. CASE ReadsEnd
  BY <1>6 DEF ReadsEnd, TypeOK, HeldInv
<1>7. CASE Enqueues
  <2>1. served' \in SUBSET Client
    BY <1>7 DEF Enqueues, TypeOK
  <2> QED
    BY <1>7, <2>1 DEF Enqueues, TypeOK, HeldInv
<1>8. CASE UNCHANGED vars
  BY <1>8 DEF vars, TypeOK, HeldInv
<1> QED
  BY <1>1, <1>2, <1>3, <1>4, <1>5, <1>6, <1>7, <1>8 DEF Next, MainReads

-------------------------------------------------------------------------------
(* Counting clients.                                                       *)

LEMMA ClientSets ==
    ASSUME NEW S, S \subseteq Client
    PROVE  /\ Cardinality(S) \in Nat
           /\ \A c \in Client \ S : Cardinality(S \cup {c}) = Cardinality(S) + 1
           /\ \A T : T \subseteq S => Cardinality(T) <= Cardinality(S)
<1>1. IsFiniteSet(Client)
  BY RegisterPipeAssumption
<1>2. IsFiniteSet(S)
  BY <1>1, FS_Subset
<1>3. \A c \in Client \ S : Cardinality(S \cup {c}) = Cardinality(S) + 1
  BY <1>2, FS_AddElement
<1> QED
  BY <1>2, <1>3, FS_CardinalityType, FS_Subset

(* What a client's step does to the two counts: never less, one more when  *)
(* it writes, and one more when it leaves.                                 *)
LEMMA ClientCounts ==
    ASSUME TypeOK, NEW c \in Client
    PROVE  /\ Cardinality(Sent) \in Nat /\ Cardinality(Done) \in Nat
           /\ Opens(c) => Sent' = Sent /\ Done' = Done
           /\ Writes(c) => /\ Cardinality(Sent)' = Cardinality(Sent) + 1
                           /\ Done' = Done
           /\ GivesUp(c) \/ Closes(c) => /\ Sent' = Sent
                                         /\ Cardinality(Done)' = Cardinality(Done) + 1
<1>1. PICK S, D : S = Sent /\ D = Done
  OBVIOUS
<1>2. S \subseteq Client /\ D \subseteq Client
  BY <1>1 DEF Sent, Done
<1>3. client \in [Client -> {"started", "opened", "written", "closed", "gone"}]
  BY DEF TypeOK
<1>4. Opens(c) => Sent' = S /\ Done' = D
  BY <1>1, <1>3 DEF Opens, Becomes, Sent, Done
<1>5. Writes(c) => Sent' = S \cup {c} /\ c \notin S /\ Done' = D
  BY <1>1, <1>3 DEF Writes, Becomes, Sent, Done
<1>6. GivesUp(c) \/ Closes(c) => Sent' = S /\ Done' = D \cup {c} /\ c \notin D
  BY <1>1, <1>3 DEF GivesUp, Closes, Becomes, Sent, Done
<1>7. Cardinality(S) \in Nat /\ Cardinality(D) \in Nat
  BY <1>2, ClientSets
<1>8. c \notin S => Cardinality(S \cup {c}) = Cardinality(S) + 1
  BY <1>2, ClientSets
<1>9. c \notin D => Cardinality(D \cup {c}) = Cardinality(D) + 1
  BY <1>2, ClientSets
<1> QED
  BY <1>1, <1>4, <1>5, <1>6, <1>7, <1>8, <1>9

LEMMA CauseStep ==
    ASSUME TypeOK, CauseInv, [Next]_vars
    PROVE  CauseInv'
<1>1. /\ turns \in Nat /\ Len(pipe) \in Nat /\ Pending \in {0, 1} /\ Pending' \in {0, 1}
      /\ Cardinality(Sent) \in Nat /\ Cardinality(Done) \in Nat
  <2>1. Cardinality(Sent) \in Nat /\ Cardinality(Done) \in Nat
    BY ClientSets DEF Sent, Done
  <2>2. Pending \in {0, 1} /\ Pending' \in {0, 1}
    BY DEF Pending
  <2> QED
    BY <2>1, <2>2 DEF TypeOK
<1>2. ASSUME NEW c \in Client, Opens(c)
      PROVE  CauseInv'
  <2>1. Sent' = Sent /\ Done' = Done /\ UNCHANGED <<pipe, turns, main>>
    BY <1>2, ClientCounts DEF Opens
  <2>2. c \in Writers'
    BY <1>2 DEF Opens, Becomes, Writers, TypeOK
  <2>3. Pending' <= Pending
    <3>1. ~ AtEnd'
      BY <2>2 DEF AtEnd
    <3> QED
      BY <2>1, <3>1 DEF Pending
  <2> QED
    BY <1>1, <2>1, <2>3 DEF CauseInv
<1>3. ASSUME NEW c \in Client, Writes(c)
      PROVE  CauseInv'
  <2>1. /\ Cardinality(Sent)' = Cardinality(Sent) + 1 /\ Done' = Done
        /\ UNCHANGED <<turns, main, knock>>
    BY <1>3, ClientCounts DEF Writes
  <2>2. c \in Writers'
    BY <1>3 DEF Writes, Becomes, Writers, TypeOK
  <2>3. Pending' <= Pending
    <3>1. ~ AtEnd'
      BY <2>2 DEF AtEnd
    <3> QED
      BY <2>1, <3>1 DEF Pending
  <2>4. Len(pipe') = Len(pipe) + 1
    <3>1. pipe \in Seq(Segment)
      BY DEF TypeOK, Segment
    <3>2. pipe' = Append(pipe, [of |-> c, left |-> Length(c)])
      BY <1>3 DEF Writes
    <3>3. [of |-> c, left |-> Length(c)] \in Segment
      BY LengthRange DEF Segment
    <3> QED
      BY <3>1, <3>2, <3>3, AppendProperties
  <2> QED
    BY <1>1, <2>1, <2>3, <2>4 DEF CauseInv
<1>4. ASSUME NEW c \in Client, GivesUp(c) \/ Closes(c)
      PROVE  CauseInv'
  <2>1. /\ Cardinality(Done)' = Cardinality(Done) + 1 /\ Sent' = Sent
        /\ UNCHANGED <<pipe, turns>>
    BY <1>4, ClientCounts DEF GivesUp, Closes
  <2> QED
    BY <1>1, <2>1 DEF CauseInv
<1>5. ASSUME UNCHANGED client
      PROVE  Sent' = Sent /\ Done' = Done /\ Writers' = Writers
  BY <1>5 DEF Sent, Done, Writers
<1>6. CASE CallsOpen
  <2>1. /\ main = "turn" /\ main' # "enqueue" /\ knock' = FALSE
        /\ main' = "reading" => Writers # {}
        /\ UNCHANGED <<client, pipe, turns>>
    BY <1>6 DEF CallsOpen
  <2>2. ~ AtEnd'
    BY <1>5, <2>1 DEF AtEnd
  <2>3. Pending' = 0
    BY <2>1, <2>2 DEF Pending
  <2> QED
    BY <1>1, <1>5, <2>1, <2>3 DEF CauseInv
<1>7. CASE OpenReturns
  <2>1. /\ main = "waiting" /\ knock /\ main' = "reading"
        /\ UNCHANGED <<client, pipe, turns>>
    BY <1>7 DEF OpenReturns
  <2>2. Pending' = Pending
    BY <1>5, <2>1 DEF Pending, AtEnd
  <2> QED
    BY <1>1, <1>5, <2>1, <2>2 DEF CauseInv
<1>8. CASE OpenFails
  <2>1. main' = "exit" /\ UNCHANGED <<client, pipe, turns>>
    BY <1>8 DEF OpenFails
  <2>2. Pending' = 0
    BY <2>1 DEF Pending, AtEnd
  <2> QED
    BY <1>1, <1>5, <2>1, <2>2 DEF CauseInv
<1>9. CASE ReadsData
  <2>1. pipe # <<>> /\ pipe' = Rest /\ UNCHANGED <<client, turns>>
    BY <1>9 DEF ReadsData
  <2>2. Len(pipe') <= Len(pipe) - 1 /\ Len(pipe') \in Nat
    <3>1. CASE Rest = <<>>
      <4>1. Len(pipe) # 0 /\ Len(pipe') = 0
        BY <2>1, <3>1, EmptySeq DEF TypeOK
      <4> QED
        BY <1>1, <4>1
    <3>2. CASE \E k, b : Leaves(Rest, k, b)
      <4>1. PICK r : r = Rest
        OBVIOUS
      <4>2. PICK k, b : Leaves(r, k, b)
        BY <3>2, <4>1
      <4>3. RestSegments(r, k, b)
        BY <4>2, LeavesSegments
      <4>4. Len(r) = Len(pipe) - k + 1 /\ k \in 2 .. Len(pipe)
        BY <4>2, <4>3 DEF RestSegments, Leaves
      <4> QED
        BY <1>1, <2>1, <4>1, <4>4
    <3> QED
      BY <2>1, <3>1, <3>2, RestLeaves
  <2> QED
    BY <1>1, <1>5, <2>1, <2>2 DEF CauseInv
<1>10. CASE ReadsEnd
  <2>1. main = "reading" /\ Writers = {} /\ UNCHANGED <<client, pipe, turns>>
    BY <1>10 DEF ReadsEnd
  <2>2. Pending = 1
    BY <2>1 DEF Pending, AtEnd
  <2> QED
    BY <1>1, <1>5, <2>1, <2>2 DEF CauseInv
<1>11. CASE Enqueues
  <2>1. /\ main = "enqueue" /\ main' = "turn" /\ turns' = turns + 1
        /\ UNCHANGED <<client, pipe>>
    BY <1>11 DEF Enqueues
  <2>2. Pending = 1 /\ Pending' = 0
    BY <2>1 DEF Pending, AtEnd
  <2> QED
    BY <1>1, <1>5, <2>1, <2>2 DEF CauseInv
<1>12. CASE UNCHANGED vars
  <2>1. UNCHANGED <<client, pipe, turns, main, knock>>
    BY <1>12 DEF vars
  <2>2. Pending' = Pending
    BY <1>5, <2>1 DEF Pending, AtEnd
  <2> QED
    BY <1>1, <1>5, <2>1, <2>2 DEF CauseInv
<1> QED
  BY <1>2, <1>3, <1>4, <1>6, <1>7, <1>8, <1>9, <1>10, <1>11, <1>12 DEF Next, MainReads

LEMMA PipeInitInv ==
    ASSUME Init
    PROVE  TypeOK /\ HeldInv /\ CauseInv
<1>1. TypeOK
  <2>1. pipe \in Seq([of : Client, left : Nat \ {0}]) /\ Len(pipe) = 0
    BY EmptySeq DEF Init
  <2>2. \A k \in 1 .. Len(pipe) : pipe[k].left <= Length(pipe[k].of)
    BY <2>1
  <2>3. fds \in 0 .. MaxFds
    BY RegisterPipeAssumption DEF Init
  <2> QED
    BY <2>1, <2>2, <2>3 DEF Init, TypeOK
<1>2. Len(pipe) = 0
  BY DEF Init
<1>3. HeldInv
  BY <1>2 DEF Init, HeldInv
<1>4. CauseInv
  <2>1. Pending = 0 /\ turns = 0
    BY DEF Init, Pending, AtEnd
  <2>2. Cardinality(Sent) \in Nat /\ Cardinality(Done) \in Nat
    BY ClientSets DEF Sent, Done
  <2> QED
    BY <1>2, <2>1, <2>2 DEF CauseInv
<1> QED
  BY <1>1, <1>3, <1>4

(* The inductive invariant: a rest of a request is at the head of the pipe *)
(* only, and every turn of main has a client that wrote or left behind it. *)
THEOREM PipeInvariance == Spec => [](TypeOK /\ HeldInv /\ CauseInv)
<1>1. Init => TypeOK /\ HeldInv /\ CauseInv
  BY PipeInitInv
<1>2. TypeOK /\ HeldInv /\ CauseInv /\ [Next]_vars => (TypeOK /\ HeldInv /\ CauseInv)'
  <2> SUFFICES ASSUME TypeOK, HeldInv, CauseInv, [Next]_vars
               PROVE  (TypeOK /\ HeldInv /\ CauseInv)'
    OBVIOUS
  <2> QED
    BY HeldStep, CauseStep
<1> QED
  BY <1>1, <1>2, PTL DEF Spec

(* Every variable has its type: what a read leaves of a request is not     *)
(* longer than the request, and not empty.                                 *)
THEOREM PipeTypes == Spec => []TypeOK
BY PipeInvariance, PTL

(* Main takes two turns at most for every client that opened the pipe, for *)
(* any number of clients: end of file does not keep it busy.               *)
THEOREM MainRestsBetweenClients == Spec => []TurnsAreCaused
<1>1. TypeOK /\ CauseInv => TurnsAreCaused
  <2> SUFFICES ASSUME TypeOK, CauseInv
               PROVE  TurnsAreCaused
    OBVIOUS
  <2>1. PICK T : T = Started
    OBVIOUS
  <2>2. PICK S, D : S = Sent /\ D = Done
    OBVIOUS
  <2>3. T \subseteq Client /\ S \subseteq T /\ D \subseteq T
    BY <2>1, <2>2 DEF Started, Sent, Done
  <2>4. Cardinality(T) \in Nat /\ Cardinality(S) <= Cardinality(T)
        /\ Cardinality(D) <= Cardinality(T)
    BY <2>3, ClientSets
  <2>5. Cardinality(S) \in Nat /\ Cardinality(D) \in Nat
    <3>1. S \subseteq Client /\ D \subseteq Client
      BY <2>3
    <3> QED
      BY <3>1, ClientSets
  <2>6. turns \in Nat /\ Len(pipe) \in Nat /\ Pending \in {0, 1}
    BY DEF TypeOK, Pending
  <2> QED
    BY <2>1, <2>2, <2>4, <2>5, <2>6 DEF CauseInv, TurnsAreCaused
<1> QED
  BY <1>1, PipeInvariance, PTL

-------------------------------------------------------------------------------
(* The pipe and the main loop are a channel that loses requests.           *)

(* How many segments at the head are no requests: a rest, or none.         *)
Cut(s) == IF s # <<>> /\ ~ IsWhole(s[1]) THEN 1 ELSE 0
(* The requests in a pipe, and what is in flight with them.                *)
Requests(s) == [k \in 1 .. Len(s) - Cut(s) |-> s[k + Cut(s)].of]

LEMMA CutRange == \A s \in Seq(Segment) : /\ Cut(s) \in 0 .. 1 /\ Len(s) \in Nat
                                          /\ Len(s) - Cut(s) \in Nat
<1> SUFFICES ASSUME NEW s \in Seq(Segment)
             PROVE  Cut(s) \in 0 .. 1 /\ Len(s) \in Nat /\ Len(s) - Cut(s) \in Nat
  OBVIOUS
<1>1. Len(s) \in Nat /\ (s # <<>> => Len(s) >= 1)
  BY EmptySeq
<1>2. Cut(s) \in {0, 1} /\ (Cut(s) = 1 => s # <<>>)
  BY DEF Cut
<1> QED
  BY <1>1, <1>2

FlightOf(b, p) == (IF b = Nobody THEN <<>> ELSE <<b>>) \o Requests(p)

LEMMA WholeIs ==
    ASSUME NEW p \in Seq(Segment),
           NEW w, w = IF p # <<>> /\ ~ IsWhole(Head(p)) THEN Tail(p) ELSE p
    PROVE  [k \in 1 .. Len(w) |-> w[k].of] = Requests(p)
<1>1. CASE p # <<>> /\ ~ IsWhole(Head(p))
  <2>1. w = Tail(p) /\ Cut(p) = 1
    BY <1>1, HeadTailProperties DEF Cut
  <2>2. Len(w) = Len(p) - 1 /\ \A k \in 1 .. Len(p) - 1 : w[k] = p[k + 1]
    BY <1>1, <2>1, HeadTailProperties
  <2> QED
    BY <2>1, <2>2 DEF Requests
<1>2. CASE ~ (p # <<>> /\ ~ IsWhole(Head(p)))
  <2>1. w = p /\ Cut(p) = 0
    BY <1>2, HeadTailProperties DEF Cut
  <2>2. Len(p) - 0 = Len(p) /\ \A k \in 1 .. Len(p) : k + 0 = k
    OBVIOUS
  <2> QED
    BY <2>1, <2>2 DEF Requests
<1> QED
  BY <1>1, <1>2

LEMMA FlightIs ==
    ASSUME TypeOK, TypeOK'
    PROVE  Flight = FlightOf(buffer, pipe) /\ Flight' = FlightOf(buffer', pipe')
<1>1. pipe \in Seq(Segment) /\ pipe' \in Seq(Segment)
  BY DEF TypeOK, Segment
<1>2. PICK w, v : w = Whole /\ v = Whole'
  OBVIOUS
<1>3. [k \in 1 .. Len(w) |-> w[k].of] = Requests(pipe)
  BY <1>1, <1>2, WholeIs DEF Whole
<1>4. [k \in 1 .. Len(v) |-> v[k].of] = Requests(pipe')
  BY <1>1, <1>2, WholeIs DEF Whole
<1> QED
  BY <1>2, <1>3, <1>4 DEF Flight, FlightOf

(* A pipe's requests, one by one.                                          *)
LEMMA RequestsAre ==
    \A s \in Seq(Segment) :
        /\ Requests(s) \in Seq(Client)
        /\ Len(Requests(s)) = Len(s) - Cut(s)
        /\ \A k \in 1 .. Len(s) - Cut(s) : Requests(s)[k] = s[k + Cut(s)].of
<1> SUFFICES ASSUME NEW s \in Seq(Segment)
             PROVE  /\ Requests(s) \in Seq(Client)
                    /\ Len(Requests(s)) = Len(s) - Cut(s)
                    /\ \A k \in 1 .. Len(s) - Cut(s) : Requests(s)[k] = s[k + Cut(s)].of
  OBVIOUS
<1>1. Cut(s) \in 0 .. 1 /\ Len(s) \in Nat /\ Len(s) - Cut(s) \in Nat
  BY CutRange
<1>2. ASSUME NEW k \in 1 .. Len(s) - Cut(s)
      PROVE  s[k + Cut(s)].of \in Client
  <2>1. k + Cut(s) \in 1 .. Len(s)
    BY <1>1
  <2>2. s[k + Cut(s)] \in Segment
    BY <2>1, ElementOfSeq
  <2> QED
    BY <2>2 DEF Segment
<1> QED
  BY <1>1, <1>2 DEF Requests

LEMMA RequestsAppend ==
    \A s \in Seq(Segment), r \in Segment :
        IsWhole(r) => Requests(Append(s, r)) = Append(Requests(s), r.of)
<1> SUFFICES ASSUME NEW s \in Seq(Segment), NEW r \in Segment, IsWhole(r)
             PROVE  Requests(Append(s, r)) = Append(Requests(s), r.of)
  OBVIOUS
<1>1. PICK t : t = Append(s, r)
  OBVIOUS
<1>2. /\ t \in Seq(Segment) /\ Len(t) = Len(s) + 1 /\ t[Len(s) + 1] = r
      /\ \A k \in 1 .. Len(s) : t[k] = s[k]
      /\ Len(s) \in Nat /\ t # <<>>
  BY <1>1, AppendProperties, EmptySeq
<1>3. Cut(t) = Cut(s)
  <2>1. CASE s = <<>>
    <3>1. t[1] = r
      BY <1>2, <2>1
    <3> QED
      BY <2>1, <3>1 DEF Cut
  <2>2. CASE s # <<>>
    <3>1. 1 \in 1 .. Len(s)
      BY <1>2, <2>2, EmptySeq
    <3> QED
      BY <1>2, <2>2, <3>1 DEF Cut
  <2> QED
    BY <2>1, <2>2
<1>4. PICK c, n : c = Cut(s) /\ n = Len(s)
  OBVIOUS
<1>5. c \in 0 .. 1 /\ n \in Nat /\ n - c \in Nat
  BY <1>4, CutRange
<1>6. PICK q \in Seq(Client) : q = Requests(s)
  BY RequestsAre
<1>7. Len(q) = n - c /\ \A k \in 1 .. n - c : q[k] = s[k + c].of
  BY <1>4, <1>6, RequestsAre
<1>8. Append(q, r.of) = [k \in 1 .. n - c + 1 |-> IF k = n - c + 1 THEN r.of ELSE q[k]]
  BY <1>7
<1>9. Requests(t) = [k \in 1 .. n - c + 1 |-> t[k + c].of]
  <2>1. Cut(t) = c /\ Len(t) = n + 1
    BY <1>2, <1>3, <1>4
  <2>2. n + 1 - c = n - c + 1
    BY <1>5
  <2>3. Requests(t) = [k \in 1 .. n + 1 - c |-> t[k + c].of]
    <3>1. PICK x, y : x = Len(t) - Cut(t) /\ y = Cut(t)
      OBVIOUS
    <3>2. Requests(t) = [k \in 1 .. x |-> t[k + y].of]
      BY <3>1 DEF Requests
    <3>3. x = n + 1 - c /\ y = c
      BY <1>5, <2>1, <3>1
    <3> QED
      BY <3>2, <3>3
  <2> QED
    BY <2>2, <2>3
<1>10. ASSUME NEW k \in 1 .. n - c + 1
       PROVE  t[k + c].of = IF k = n - c + 1 THEN r.of ELSE q[k]
  <2>1. CASE k = n - c + 1
    <3>1. k + c = n + 1
      BY <1>5, <2>1
    <3> QED
      BY <1>2, <1>4, <2>1, <3>1
  <2>2. CASE k # n - c + 1
    <3>1. k \in 1 .. n - c /\ k + c \in 1 .. n
      BY <1>5, <2>2
    <3> QED
      BY <1>2, <1>4, <1>7, <2>2, <3>1
  <2> QED
    BY <2>1, <2>2
<1> QED
  BY <1>1, <1>6, <1>8, <1>9, <1>10

LEMMA AppendBehind ==
    \A l, q \in Seq(Client), c \in Client : l \o Append(q, c) = Append(l \o q, c)
OBVIOUS

(* What is in flight, one by one: the request in the buffer comes first.   *)
InFlight(f, b, e, s) ==
    /\ f \in Seq(Client)
    /\ Len(f) = e + (Len(s) - Cut(s))
    /\ e = 1 => f[1] = b
    /\ \A i \in e + 1 .. Len(f) : f[i] = s[i - e + Cut(s)].of

LEMMA FlightElements ==
    ASSUME NEW b \in Client \cup {Nobody}, NEW s \in Seq(Segment),
           NEW e, e = IF b = Nobody THEN 0 ELSE 1,
           NEW f, f = FlightOf(b, s)
    PROVE  InFlight(f, b, e, s)
<1>1. PICK q \in Seq(Client) : q = Requests(s)
  BY RequestsAre
<1>2. PICK c, n : c = Cut(s) /\ n = Len(s) - c
  OBVIOUS
<1>3. n \in Nat /\ Len(q) = n /\ \A k \in 1 .. n : q[k] = s[k + c].of
  BY <1>1, <1>2, CutRange, RequestsAre
<1>4. CASE b = Nobody
  <2>1. f = <<>> \o q /\ e = 0
    BY <1>1, <1>4 DEF FlightOf
  <2>2. f = q
    BY <2>1
  <2>3. \A i \in 0 + 1 .. n : i \in 1 .. n /\ i - 0 = i
    BY <1>3
  <2> QED
    BY <1>2, <1>3, <2>1, <2>2, <2>3 DEF InFlight
<1>5. CASE b # Nobody
  <2>1. f = <<b>> \o q /\ e = 1 /\ <<b>> \in Seq(Client) /\ Len(<<b>>) = 1
    BY <1>1, <1>5 DEF FlightOf
  <2>2. /\ f \in Seq(Client) /\ Len(f) = 1 + n /\ f[1] = b
        /\ \A i \in 2 .. Len(f) : f[i] = q[i - 1]
    BY <1>3, <2>1, ConcatProperties
  <2>3. \A i \in 2 .. 1 + n : i - 1 \in 1 .. n
    BY <1>3
  <2> QED
    BY <1>2, <1>3, <2>1, <2>2, <2>3 DEF InFlight
<1> QED
  BY <1>4, <1>5

-------------------------------------------------------------------------------
(* Every step is one of the channel's.                                     *)

LEMMA WritesSends ==
    ASSUME TypeOK, TypeOK', HeldInv, NEW c \in Client, Writes(c)
    PROVE  Channel!Send(c)
<1>1. /\ client[c] = "opened" /\ client' = [client EXCEPT ![c] = "written"]
      /\ UNCHANGED <<buffer, served>>
      /\ client \in [Client -> {"started", "opened", "written", "closed", "gone"}]
  BY DEF Writes, Becomes, TypeOK
<1>2. c \notin Sent /\ Sent' = Sent \cup {c}
  BY <1>1 DEF Sent
<1>3. PICK r : r = [of |-> c, left |-> Length(c)]
  OBVIOUS
<1>4. r \in Segment /\ IsWhole(r) /\ r.of = c
  BY <1>3, LengthRange DEF Segment, IsWhole
<1>5. PICK p \in Seq(Segment) : p = pipe
  BY DEF TypeOK, Segment
<1>6. pipe' = Append(p, r)
  BY <1>3, <1>5 DEF Writes
<1>7. PICK q \in Seq(Client) : q = Requests(p)
  BY RequestsAre
<1>8. Requests(Append(p, r)) = Append(q, c)
  BY <1>4, <1>7, RequestsAppend
<1>9. PICK l : l = IF buffer = Nobody THEN <<>> ELSE <<buffer>>
  OBVIOUS
<1>10. l \in Seq(Client)
  BY <1>9 DEF TypeOK
<1>11. Flight = l \o q /\ Flight' = l \o Append(q, c)
  BY <1>1, <1>5, <1>6, <1>7, <1>8, <1>9, FlightIs DEF FlightOf
<1>12. Flight' = Append(Flight, c)
  BY <1>10, <1>11, AppendBehind
<1> QED
  BY <1>1, <1>2, <1>12 DEF Channel!Send

LEMMA EnqueuesReceives ==
    ASSUME TypeOK, TypeOK', Enqueues
    PROVE  Channel!Receive \/ UNCHANGED <<Sent, Flight, served>>
<1>1. /\ served' = IF buffer = Nobody THEN served ELSE served \cup {buffer}
      /\ buffer' = Nobody /\ UNCHANGED <<client, pipe>>
  BY DEF Enqueues
<1>2. Sent' = Sent
  BY <1>1 DEF Sent
<1>3. PICK q \in Seq(Client) : q = Requests(pipe)
  BY RequestsAre DEF TypeOK, Segment
<1>4. Flight' = <<>> \o q
  BY <1>1, <1>3, FlightIs DEF FlightOf
<1>5. CASE buffer = Nobody
  <2>1. Flight = <<>> \o q
    BY <1>3, <1>5, FlightIs DEF FlightOf
  <2> QED
    BY <1>1, <1>2, <1>4, <1>5, <2>1
<1>6. CASE buffer # Nobody
  <2>1. PICK b \in Client : b = buffer
    BY <1>6 DEF TypeOK
  <2>2. Flight = <<b>> \o q
    BY <1>3, <1>6, <2>1, FlightIs DEF FlightOf
  <2>3. /\ <<b>> \o q # <<>> /\ Head(<<b>> \o q) = b
        /\ Tail(<<b>> \o q) = <<>> \o q
    OBVIOUS
  <2>4. PICK f, g : f = Flight /\ g = Flight'
    OBVIOUS
  <2>5. f # <<>> /\ Head(f) = b /\ g = Tail(f)
    BY <1>4, <2>2, <2>3, <2>4
  <2>6. served' = served \cup {Head(f)}
    BY <1>1, <1>6, <2>1, <2>5
  <2> QED
    BY <1>2, <2>4, <2>5, <2>6 DEF Channel!Receive
<1> QED
  BY <1>5, <1>6

(* A read takes the request at the head, if there is one, and loses those  *)
(* between it and what is left in the pipe.                                *)
LEMMA ReadsLoses ==
    ASSUME TypeOK, TypeOK', HeldInv, ReadsData
    PROVE  Channel!Lose
<1>1. /\ buffer = Nobody /\ buffer' = First /\ pipe # <<>> /\ pipe' = Rest
      /\ UNCHANGED <<client, served>>
  BY DEF ReadsData, HeldInv
<1>2. PICK p \in Seq(Segment) : p = pipe
  BY DEF TypeOK, Segment
<1>3. PICK r \in Seq(Segment) : r = pipe'
  BY DEF TypeOK, Segment
<1>4. PICK b \in Client \cup {Nobody} : b = buffer'
  BY DEF TypeOK
<1>5. PICK f, g : f = Flight /\ g = Flight'
  OBVIOUS
<1>6. f = FlightOf(Nobody, p) /\ g = FlightOf(b, r)
  BY <1>1, <1>2, <1>3, <1>4, <1>5, FlightIs
<1>7. PICK h, d, e, n : /\ h = Cut(p) /\ d = Cut(r) /\ n = Len(p)
                        /\ e = IF b = Nobody THEN 0 ELSE 1
  OBVIOUS
<1>8. /\ h \in 0 .. 1 /\ d \in 0 .. 1 /\ n \in Nat /\ n >= 1 /\ n - h \in Nat
      /\ Len(r) \in Nat /\ Len(r) - d \in Nat
  BY <1>1, <1>2, <1>7, CutRange, EmptySeq
<1>9. e = 1 - h /\ (e = 1 => b = p[1].of)
  <2>1. Head(p) = p[1] /\ p[1] \in Segment
    BY <1>1, <1>2, HeadTailProperties
  <2>2. b = IF IsWhole(p[1]) THEN p[1].of ELSE Nobody
    BY <1>1, <1>2, <1>4, <2>1 DEF First, IsWhole
  <2>3. p[1].of # Nobody
    BY <2>1, RegisterPipeAssumption DEF Segment
  <2>4. h = IF IsWhole(p[1]) THEN 0 ELSE 1
    BY <1>1, <1>2, <1>7 DEF Cut
  <2> QED
    BY <1>7, <2>2, <2>3, <2>4
<1>10. /\ Len(f) = n - h
       /\ \A i \in 1 .. n - h : f[i] = p[i + h].of
  <2>1. PICK z : z = 0
    OBVIOUS
  <2>2. /\ Len(f) = z + (n - h)
        /\ \A i \in z + 1 .. Len(f) : f[i] = p[i - z + h].of
    <3>1. InFlight(f, Nobody, z, p)
      BY <1>6, <2>1, FlightElements
    <3> QED
      BY <1>7, <3>1 DEF InFlight
  <2>3. \A i \in 1 .. n - h : i - 0 = i
    BY <1>8
  <2> QED
    BY <1>8, <2>1, <2>2, <2>3
<1>11. /\ g \in Seq(Client) /\ Len(g) = e + (Len(r) - d)
       /\ e = 1 => g[1] = b
       /\ \A i \in e + 1 .. Len(g) : g[i] = r[i - e + d].of
  <2>1. InFlight(g, b, e, r)
    BY <1>6, <1>7, FlightElements
  <2> QED
    BY <1>7, <2>1 DEF InFlight
<1>12. Channel!LeftOf(f, g)
  <2>1. CASE r = <<>>
    <3>1. d = 0 /\ Len(r) = 0
      BY <1>7, <2>1, EmptySeq DEF Cut
    <3>2. Len(g) = e /\ e \in 0 .. 1
      BY <1>8, <1>9, <1>11, <3>1
    <3> DEFINE at == [i \in 1 .. Len(g) |-> 1]
    <3>3. at \in [1 .. Len(g) -> 1 .. Len(f)]
      BY <1>8, <1>9, <1>10, <3>2
    <3>4. \A i, j \in 1 .. Len(g) : i < j => at[i] < at[j]
      BY <3>2
    <3>5. \A i \in 1 .. Len(g) : g[i] = f[at[i]]
      <4> SUFFICES ASSUME NEW i \in 1 .. Len(g)
                   PROVE  g[i] = f[1]
        OBVIOUS
      <4>1. i = 1 /\ e = 1 /\ h = 0
        BY <1>8, <1>9, <3>2
      <4>2. f[1] = p[1 + 0].of
        BY <1>8, <1>10, <4>1
      <4> QED
        BY <1>9, <1>11, <4>1, <4>2
    <3> HIDE DEF at
    <3> QED
      BY <3>3, <3>4, <3>5 DEF Channel!LeftOf
  <2>2. CASE r # <<>>
    <3>1. PICK k, m : Leaves(r, k, m)
      BY <1>1, <1>3, <2>2, RestLeaves
    <3>2. RestSegments(r, k, m) /\ k \in 2 .. n
      BY <1>2, <1>7, <3>1, LeavesSegments DEF Leaves
    <3>3. /\ Len(r) = n - k + 1
          /\ r[1].of = p[k].of
          /\ \A j \in 2 .. Len(r) : r[j] = p[k + j - 1]
      BY <1>2, <1>7, <3>2 DEF RestSegments
    <3>4. \A j \in 1 .. Len(r) : r[j].of = p[k + j - 1].of
      <4> SUFFICES ASSUME NEW j \in 1 .. Len(r)
                   PROVE  r[j].of = p[k + j - 1].of
        OBVIOUS
      <4>1. CASE j = 1
        <5>1. k + 1 - 1 = k
          BY <1>8, <3>2
        <5> QED
          BY <3>3, <4>1, <5>1
      <4>2. CASE j # 1
        <5>1. j \in 2 .. Len(r)
          BY <1>8, <4>2
        <5> QED
          BY <3>3, <5>1
      <4> QED
        BY <4>1, <4>2
    <3>5. Len(g) = e + (n - k + 1 - d) /\ k \in 2 .. n /\ e \in 0 .. 1
      BY <1>8, <1>9, <1>11, <3>2, <3>3
    <3> DEFINE at == [i \in 1 .. Len(g) |-> IF i <= e THEN 1 ELSE k + (i - e + d) - 1 - h]
    <3>6. at \in [1 .. Len(g) -> 1 .. Len(f)]
      <4> SUFFICES ASSUME NEW i \in 1 .. Len(g)
                   PROVE  (IF i <= e THEN 1 ELSE k + (i - e + d) - 1 - h) \in 1 .. n - h
        BY <1>10
      <4>1. CASE i <= e
        BY <1>8, <1>9, <3>5, <4>1
      <4>2. CASE ~ (i <= e)
        BY <1>8, <1>9, <3>5, <4>2
      <4> QED
        BY <4>1, <4>2
    <3>7. \A i, j \in 1 .. Len(g) : i < j => at[i] < at[j]
      <4> SUFFICES ASSUME NEW i \in 1 .. Len(g), NEW j \in 1 .. Len(g), i < j
                   PROVE  at[i] < at[j]
        OBVIOUS
      <4>1. ~ (j <= e) /\ at[j] = k + (j - e + d) - 1 - h
        BY <3>5
      <4>2. CASE i <= e
        BY <1>8, <1>9, <3>5, <4>1, <4>2
      <4>3. CASE ~ (i <= e)
        BY <1>8, <1>9, <3>5, <4>1, <4>3
      <4> QED
        BY <4>2, <4>3
    <3>8. \A i \in 1 .. Len(g) : g[i] = f[at[i]]
      <4> SUFFICES ASSUME NEW i \in 1 .. Len(g)
                   PROVE  g[i] = f[at[i]]
        OBVIOUS
      <4>1. CASE i <= e
        <5>1. i = 1 /\ e = 1 /\ h = 0 /\ at[i] = 1
          BY <1>8, <1>9, <3>5, <4>1
        <5>2. f[1] = p[1 + 0].of
          BY <1>8, <1>10, <5>1
        <5> QED
          BY <1>9, <1>11, <5>1, <5>2
      <4>2. CASE ~ (i <= e)
        <5>1. at[i] = k + (i - e + d) - 1 - h /\ at[i] \in 1 .. n - h
          BY <1>10, <3>6, <4>2
        <5>2. i \in e + 1 .. Len(g) /\ i - e + d \in 1 .. Len(r)
          BY <1>8, <1>11, <3>3, <3>5, <4>2
        <5>3. g[i] = p[k + (i - e + d) - 1].of
          BY <1>11, <3>4, <5>2
        <5>4. f[at[i]] = p[at[i] + h].of
          BY <1>10, <5>1
        <5>5. at[i] + h = k + (i - e + d) - 1
          BY <1>8, <3>5, <5>1
        <5> QED
          BY <5>3, <5>4, <5>5
      <4> QED
        BY <4>1, <4>2
    <3> HIDE DEF at
    <3> QED
      BY <3>6, <3>7, <3>8 DEF Channel!LeftOf
  <2> QED
    BY <2>1, <2>2
<1>13. Sent' = Sent
  BY <1>1 DEF Sent
<1> QED
  BY <1>1, <1>5, <1>12, <1>13 DEF Channel!Lose

LEMMA ChannelStep ==
    ASSUME TypeOK, TypeOK', HeldInv, [Next]_vars
    PROVE  [Channel!Next]_<<Sent, Flight, served>>
<1>1. ASSUME NEW c \in Client, Writes(c)
      PROVE  Channel!Next
  BY <1>1, WritesSends DEF Channel!Next
<1>2. ASSUME NEW c \in Client, Opens(c) \/ GivesUp(c) \/ Closes(c)
      PROVE  UNCHANGED <<Sent, Flight, served>>
  <2>1. UNCHANGED <<buffer, pipe, served>>
    BY <1>2 DEF Opens, GivesUp, Closes
  <2>2. Sent' = Sent
    BY <1>2, ClientCounts
  <2>3. Flight' = Flight
    BY <2>1, FlightIs
  <2> QED
    BY <2>1, <2>2, <2>3
<1>3. ASSUME UNCHANGED <<client, buffer, pipe, served>>
      PROVE  UNCHANGED <<Sent, Flight, served>>
  <2>1. Flight' = Flight
    BY <1>3, FlightIs
  <2> QED
    BY <1>3, <2>1 DEF Sent
<1>4. CASE CallsOpen \/ OpenReturns \/ OpenFails \/ UNCHANGED vars
  BY <1>3, <1>4 DEF CallsOpen, OpenReturns, OpenFails, vars
<1>5. CASE ReadsEnd
  <2>1. buffer' = buffer /\ UNCHANGED <<client, pipe, served>>
    BY <1>5 DEF ReadsEnd, HeldInv
  <2> QED
    BY <1>3, <2>1
<1>6. CASE ReadsData
  BY <1>6, ReadsLoses DEF Channel!Next
<1>7. CASE Enqueues
  BY <1>7, EnqueuesReceives DEF Channel!Next
<1> QED
  BY <1>1, <1>2, <1>4, <1>5, <1>6, <1>7 DEF Next, MainReads

LEMMA ChannelInit ==
    ASSUME Init
    PROVE  Channel!Init
<1>1. Sent = {}
  BY DEF Init, Sent
<1>2. Whole = <<>>
  BY DEF Init, Whole
<1>3. PICK w : w = Whole
  OBVIOUS
<1>4. [k \in 1 .. Len(w) |-> w[k].of] = <<>>
  BY <1>2, <1>3
<1>5. Flight = <<>> \o <<>>
  BY <1>3, <1>4 DEF Flight, Init
<1>6. Flight = <<>>
  BY <1>5
<1> QED
  BY <1>1, <1>6 DEF Init, Channel!Init

(* The register pipe and the main loop lose requests, for any number of    *)
(* clients, but serve none twice, none out of order and none that was not  *)
(* sent.                                                                   *)
THEOREM PipeRefinesChannel == Spec => ChannelSpec
<1>1. Init => Channel!Init
  BY ChannelInit
<1>2. TypeOK /\ TypeOK' /\ HeldInv /\ [Next]_vars
          => [Channel!Next]_<<Sent, Flight, served>>
  BY ChannelStep
<1> QED
  BY <1>1, <1>2, PipeInvariance, PTL DEF Spec, ChannelSpec
===============================================================================
