--------------------------- MODULE BoxSessionProofs ---------------------------
(***************************************************************************)
(* Theorems about BoxSession for every set of workers, every capacity of   *)
(* the box and of the open file table: the types, the counters, the size   *)
(* of the box, the bound on what a sleeping subscriber misses, and that a  *)
(* box session implements BoxFeed.                                         *)
(***************************************************************************)
EXTENDS BoxSession, FiniteSetTheorems, SequenceTheorems, TLAPS

(* box->mutex is held exactly while a subscriber is between its empty read *)
(* and its sleep.                                                          *)
MutexHeld == \A w \in Worker : mutex = w <=> pc[w] = "sub_wait"

(* The handle of a publisher stands at the end of the file.                *)
Appending == {"pub_read", "pub_write", "pub_broadcast", "pub_size",
              "pub_unregister"}
WriterAtEnd == \A w \in At(Appending) : offset[w] = Len(file)

(* What the buffer of a worker holds when it is about to be used.          *)
BufferFilled ==
    /\ \A w \in At({"pub_write"}) : \E m \in Message : held[w] = <<m>>
    /\ \A w \in At({"sub_send"}) : /\ offset[w] \in 1 .. Len(file)
                                   /\ held[w] = <<file[offset[w]]>>

(* The pipe of a subscriber has received what its handle has read, less    *)
(* the message on its way; nobody else has sent anything.                  *)
FeedInStep ==
    \A w \in Worker :
        /\ pc[w] \notin Subscribed => delivered[w] = <<>>
        /\ pc[w] = "sub_open" => delivered[w] = <<>>
        /\ pc[w] \in {"sub_read", "sub_wait", "sub_asleep"} =>
               offset[w] = Len(delivered[w])
        /\ pc[w] = "sub_send" => offset[w] = Len(delivered[w]) + 1

(* A subscriber about to sleep has missed nothing, or the one message      *)
(* whose publisher it keeps from going on.                                 *)
WaiterMissesAtMostOne ==
    \A w \in At({"sub_wait"}) :
        \/ Len(file) = offset[w]
        \/ /\ Len(file) = offset[w] + 1
           /\ At({"pub_broadcast", "pub_size"}) # {}

(* The inductive invariant.                                                *)
IInv == /\ TypeOK
        /\ CountersCoverSessions
        /\ SizeCountsStored
        /\ SleeperMissesAtMostOne
        /\ MutexHeld
        /\ WriterAtEnd
        /\ BufferFilled
        /\ FeedInStep
        /\ WaiterMissesAtMostOne

-------------------------------------------------------------------------------
(* Counting the workers at a set of labels.                                *)

Sessions(f, S) == {v \in Worker : f[v] \in S}

LEMMA SessionsFinite ==
    ASSUME NEW f, NEW S
    PROVE  IsFiniteSet(Sessions(f, S)) /\ Cardinality(Sessions(f, S)) \in Nat
BY BoxSessionAssumption, FS_Subset, FS_CardinalityType DEF Sessions

(* One worker moves; it was counted before, or is counted now, or both.    *)
LEMMA SessionsMove ==
    \A f, g, S : \A w \in Worker :
        (\A v \in Worker \ {w} : g[v] = f[v]) =>
            Cardinality(Sessions(g, S)) =
                Cardinality(Sessions(f, S)) + (IF g[w] \in S THEN 1 ELSE 0)
                                            - (IF f[w] \in S THEN 1 ELSE 0)
<1> TAKE f, g, S
<1> TAKE w \in Worker
<1> HAVE \A v \in Worker \ {w} : g[v] = f[v]
<1>1. IsFiniteSet(Sessions(f, S)) /\ IsFiniteSet(Sessions(g, S))
  BY SessionsFinite
<1>2. Cardinality(Sessions(f, S)) \in Nat /\ Cardinality(Sessions(g, S)) \in Nat
  BY SessionsFinite
<1>3. CASE f[w] \in S <=> g[w] \in S
  <2>1. Sessions(g, S) = Sessions(f, S)
    BY <1>3 DEF Sessions
  <2> QED BY <2>1, <1>2, <1>3
<1>4. CASE f[w] \notin S /\ g[w] \in S
  <2>1. Sessions(g, S) = Sessions(f, S) \cup {w} /\ w \notin Sessions(f, S)
    BY <1>4 DEF Sessions
  <2> QED BY <2>1, <1>1, <1>2, <1>4, FS_AddElement
<1>5. CASE f[w] \in S /\ g[w] \notin S
  <2>1. Sessions(f, S) = Sessions(g, S) \cup {w} /\ w \notin Sessions(g, S)
    BY <1>5 DEF Sessions
  <2>2. Cardinality(Sessions(f, S)) = Cardinality(Sessions(g, S)) + 1
    BY <2>1, <1>1, FS_AddElement
  <2> QED BY <2>2, <1>2, <1>5
<1> QED BY <1>3, <1>4, <1>5

LEMMA LabelMove ==
    ASSUME NEW w \in Worker, NEW S, \A v \in Worker \ {w} : pc'[v] = pc[v]
    PROVE  /\ Cardinality(At(S)) \in Nat
           /\ Cardinality(At(S)') =
                  Cardinality(At(S)) + (IF pc'[w] \in S THEN 1 ELSE 0)
                                     - (IF pc[w] \in S THEN 1 ELSE 0)
<1>1. At(S) = Sessions(pc, S) /\ At(S)' = Sessions(pc', S)
  BY DEF At, Sessions
<1>2. Cardinality(Sessions(pc, S)) \in Nat
  BY SessionsFinite
<1>3. Cardinality(Sessions(pc', S)) =
          Cardinality(Sessions(pc, S)) + (IF pc'[w] \in S THEN 1 ELSE 0)
                                       - (IF pc[w] \in S THEN 1 ELSE 0)
  BY SessionsMove
<1> QED BY <1>1, <1>2, <1>3

LEMMA OneSession ==
    ASSUME NEW f, NEW S, Cardinality(Sessions(f, S)) <= 1,
           NEW v \in Sessions(f, S), NEW w \in Sessions(f, S)
    PROVE  v = w
<1> SUFFICES ASSUME v # w PROVE FALSE
  OBVIOUS
<1> DEFINE R == Sessions(f, S) \ {v}
<1>1. IsFiniteSet(Sessions(f, S)) /\ Cardinality(Sessions(f, S)) \in Nat
  BY SessionsFinite
<1>2. IsFiniteSet(R) /\ Cardinality(R) = Cardinality(Sessions(f, S)) - 1
  BY <1>1, FS_RemoveElement
<1>3. Cardinality(R \ {w}) = Cardinality(R) - 1 /\ IsFiniteSet(R \ {w})
  BY <1>2, FS_RemoveElement
<1>4. Cardinality(R \ {w}) \in Nat
  BY <1>3, FS_CardinalityType
<1> QED BY <1>1, <1>2, <1>3, <1>4

(* At most one session publishes into the box.                             *)
LEMMA OnePublisher ==
    ASSUME TypeOK, CountersCoverSessions,
           NEW v \in At(Publishing), NEW w \in At(Publishing)
    PROVE  v = w
<1>1. At(Publishing) = Sessions(pc, Publishing)
  BY DEF At, Sessions
<1>2. Cardinality(At(Publishing)) <= 1
  BY <1>1, SessionsFinite DEF TypeOK, CountersCoverSessions
<1> QED BY <1>1, <1>2, OneSession

(* A session that is counted has been counted.                             *)
LEMMA Counted ==
    ASSUME TypeOK, CountersCoverSessions, NEW w \in Worker
    PROVE  /\ pc[w] \in Publishing => pub_num = 1
           /\ pc[w] \in Subscribed => sub_num >= 1
           /\ pc[w] \in WithHandle => handles >= 1
<1>1. ASSUME NEW S, pc[w] \in S
      PROVE  Cardinality(At(S)) \in Nat /\ Cardinality(At(S)) >= 1
  <2>1. At(S) = Sessions(pc, S) /\ w \in Sessions(pc, S)
    BY <1>1 DEF At, Sessions
  <2>2. IsFiniteSet(Sessions(pc, S)) /\ Cardinality(Sessions(pc, S)) \in Nat
    BY SessionsFinite
  <2>3. Cardinality(Sessions(pc, S)) # 0
    BY <2>1, <2>2, FS_EmptySet
  <2> QED BY <2>1, <2>2, <2>3
<1>2. /\ pub_num \in 0 .. 1 /\ sub_num \in Nat /\ handles \in Nat
      /\ Cardinality(At(Publishing)) <= pub_num
      /\ Cardinality(At(Subscribed)) <= sub_num
      /\ Cardinality(At(WithHandle)) <= handles
  BY BoxSessionAssumption DEF TypeOK, CountersCoverSessions
<1> QED BY <1>1, <1>2

(* A step that moves worker w alone and keeps account of it.               *)
Change(w, S) == (IF pc'[w] \in S THEN 1 ELSE 0) - (IF pc[w] \in S THEN 1 ELSE 0)
Accounted(w) == /\ \A v \in Worker \ {w} : pc'[v] = pc[v]
                /\ pub_num' \in Int /\ pub_num' >= pub_num + Change(w, Publishing)
                /\ sub_num' \in Int /\ sub_num' >= sub_num + Change(w, Subscribed)
                /\ handles' \in Int /\ handles' >= handles + Change(w, WithHandle)

LEMMA AccountedStep ==
    ASSUME TypeOK, CountersCoverSessions, NEW w \in Worker, Accounted(w)
    PROVE  CountersCoverSessions'
<1>1. ASSUME NEW S
      PROVE  /\ Cardinality(At(S)) \in Nat
             /\ Cardinality(At(S)') = Cardinality(At(S)) + Change(w, S)
             /\ Change(w, S) \in Int
  BY LabelMove DEF Accounted, Change
<1>2. /\ pub_num \in Nat /\ sub_num \in Nat /\ handles \in Nat
      /\ Cardinality(At(Publishing)) <= pub_num
      /\ Cardinality(At(Subscribed)) <= sub_num
      /\ Cardinality(At(WithHandle)) <= handles
  BY BoxSessionAssumption DEF TypeOK, CountersCoverSessions
<1>3. Cardinality(At(Publishing)') <= pub_num'
  BY <1>1, <1>2 DEF Accounted
<1>4. Cardinality(At(Subscribed)') <= sub_num'
  BY <1>1, <1>2 DEF Accounted
<1>5. Cardinality(At(WithHandle)') <= handles'
  BY <1>1, <1>2 DEF Accounted
<1> QED BY <1>3, <1>4, <1>5 DEF CountersCoverSessions

-------------------------------------------------------------------------------
(* The counters.                                                           *)

LEMMA CountersNext ==
    ASSUME TypeOK, CountersCoverSessions, [Next]_vars
    PROVE  CountersCoverSessions'
<1>1. /\ pc \in [Worker -> Label] /\ pub_num \in 0 .. 1
      /\ sub_num \in Nat /\ handles \in Nat
  BY BoxSessionAssumption DEF TypeOK
<1>2. CASE UNCHANGED vars
  BY <1>2 DEF vars, CountersCoverSessions, At
<1>3. ASSUME NEW w \in Worker, PubBroadcast(w)
      PROVE  CountersCoverSessions'
  <2>1. /\ At(Publishing)' = At(Publishing)
        /\ At(Subscribed)' = At(Subscribed)
        /\ At(WithHandle)' = At(WithHandle)
    BY <1>1, <1>3 DEF PubBroadcast, At, WakeSubs, Label, Publishing, Subscribed,
                      WithHandle
  <2> QED BY <2>1, <1>3 DEF PubBroadcast, CountersCoverSessions
<1>4. ASSUME NEW w \in Worker, PubNext(w), ~PubBroadcast(w)
      PROVE  Accounted(w)
  <2> USE DEF Accounted, Change, Goto, EndSession, Label, Publishing, Subscribed,
              WithHandle
  <2>1. /\ pc[w] \in Publishing => pub_num = 1
        /\ pc[w] \in WithHandle => handles >= 1
    BY Counted
  <2>2. CASE PubRegister(w) \/ PubArrives(w)
    BY <1>1, <2>1, <2>2 DEF PubRegister, PubArrives
  <2>3. CASE PubRefused(w)
    BY <1>1, <2>1, <2>3 DEF PubRefused, vars
  <2>4. CASE PubOpen(w)
    BY <1>1, <2>1, <2>4 DEF PubOpen
  <2>5. CASE PubOpenFails(w)
    BY <1>1, <2>1, <2>5 DEF PubOpenFails
  <2>6. CASE PubRead(w)
    BY <1>1, <2>1, <2>6 DEF PubRead
  <2>7. CASE PubReadFails(w)
    BY <1>1, <2>1, <2>7 DEF PubReadFails
  <2>8. CASE PubEof(w)
    BY <1>1, <2>1, <2>8 DEF PubEof
  <2>9. CASE PubWrite(w)
    BY <1>1, <2>1, <2>9 DEF PubWrite
  <2>10. CASE PubSize(w)
    BY <1>1, <2>1, <2>10 DEF PubSize
  <2>11. CASE PubUnregister(w)
    BY <1>1, <2>1, <2>11 DEF PubUnregister
  <2>12. CASE PubClose(w)
    BY <1>1, <2>1, <2>12 DEF PubClose
  <2> QED BY <1>4, <2>2, <2>3, <2>4, <2>5, <2>6, <2>7, <2>8, <2>9, <2>10, <2>11,
             <2>12 DEF PubNext
<1>5. ASSUME NEW w \in Worker, SubNext(w)
      PROVE  Accounted(w)
  <2> USE DEF Accounted, Change, Goto, EndSession, Label, Publishing, Subscribed,
              WithHandle
  <2>1. /\ pc[w] \in Subscribed => sub_num >= 1
        /\ pc[w] \in WithHandle => handles >= 1
    BY Counted
  <2>2. CASE SubRegister(w)
    BY <1>1, <2>1, <2>2 DEF SubRegister
  <2>3. CASE SubOpen(w)
    BY <1>1, <2>1, <2>3 DEF SubOpen
  <2>4. CASE SubOpenFails(w)
    BY <1>1, <2>1, <2>4 DEF SubOpenFails
  <2>5. CASE SubRead(w)
    BY <1>1, <2>1, <2>5 DEF SubRead
  <2>6. CASE SubFindsNothing(w)
    BY <1>1, <2>1, <2>6 DEF SubFindsNothing
  <2>7. CASE SubWait(w)
    BY <1>1, <2>1, <2>7 DEF SubWait
  <2>8. CASE SpuriousWake(w)
    BY <1>1, <2>1, <2>8 DEF SpuriousWake
  <2>9. CASE SubSend(w)
    BY <1>1, <2>1, <2>9 DEF SubSend
  <2>10. CASE SubPipeBroken(w) \/ BrokerKilled(w)
    BY <1>1, <2>1, <2>10 DEF SubPipeBroken, BrokerKilled
  <2>11. CASE SubSendFails(w)
    BY <1>1, <2>1, <2>11 DEF SubSendFails
  <2>12. CASE SubUnregister(w)
    BY <1>1, <2>1, <2>12 DEF SubUnregister
  <2>13. CASE ClientLeaves(w)
    BY <1>1, <2>1, <2>13 DEF ClientLeaves
  <2> QED BY <1>5, <2>2, <2>3, <2>4, <2>5, <2>6, <2>7, <2>8, <2>9, <2>10, <2>11,
             <2>12, <2>13 DEF SubNext
<1> QED BY <1>2, <1>3, <1>4, <1>5, AccountedStep DEF Next, Gone

-------------------------------------------------------------------------------
(* The other parts of the inductive invariant.                             *)

LEMMA StoreAtEnd ==
    ASSUME NEW f \in Seq(Message), NEW m \in Message
    PROVE  StoreAt(f, Len(f) + 1, m) = Append(f, m)
<1> DEFINE t == [k \in 1 .. Len(f) + 1 |-> IF k = Len(f) + 1 THEN m ELSE f[k]]
<1>1. Len(f) \in Nat /\ \A k \in 1 .. Len(f) : f[k] \in Message
  BY ElementOfSeq, LenProperties
<1>2. StoreAt(f, Len(f) + 1, m) = t
  BY <1>1 DEF StoreAt
<1>3. t \in Seq(Message) /\ Len(t) = Len(f) + 1
  BY <1>1
<1>4. Append(f, m) \in Seq(Message) /\ Len(Append(f, m)) = Len(f) + 1
  BY <1>1
<1>5. \A k \in 1 .. Len(t) : t[k] = Append(f, m)[k]
  BY <1>1, <1>3
<1>6. t = Append(f, m)
  BY <1>3, <1>4, <1>5, SeqEqual
<1> QED BY <1>2, <1>6

(* What a write does: it appends, or it finds the box full.                *)
LEMMA WriteAppends ==
    ASSUME IInv, NEW w \in Worker, PubWrite(w)
    PROVE  \/ /\ Len(file) < BoxCapacity
              /\ \E m \in Message : file' = Append(file, m)
              /\ Len(file') = Len(file) + 1
              /\ file' \in Seq(Message)
              /\ \A i \in 1 .. Len(file) : file'[i] = file[i]
              /\ wrote' = [wrote EXCEPT ![w] = 1]
              /\ offset' = [offset EXCEPT ![w] = Len(file')]
           \/ /\ file' = file
              /\ wrote' = [wrote EXCEPT ![w] = 0]
              /\ offset' = offset
<1>1. pc[w] = "pub_write" /\ offset[w] = Len(file)
  BY DEF IInv, PubWrite, WriterAtEnd, At, Appending
<1>2. PICK m \in Message : held[w] = <<m>>
  BY <1>1 DEF IInv, BufferFilled, At
<1>3. file \in Seq(Message) /\ offset \in [Worker -> Nat] /\ Len(file) \in Nat
  BY DEF IInv, TypeOK
<1>4. CASE offset[w] < BoxCapacity
  <2>1. file' = Append(file, m)
    BY <1>1, <1>2, <1>3, <1>4, StoreAtEnd DEF PubWrite
  <2>2. Len(file') = Len(file) + 1
    BY <2>1, <1>3
  <2>3. /\ file' \in Seq(Message)
        /\ \A i \in 1 .. Len(file) : file'[i] = file[i]
    BY <2>1, <1>3
  <2>4. /\ wrote' = [wrote EXCEPT ![w] = 1]
        /\ offset' = [offset EXCEPT ![w] = Len(file')]
    BY <1>1, <1>3, <1>4, <2>2 DEF PubWrite
  <2> QED BY <1>1, <1>4, <2>1, <2>2, <2>3, <2>4
<1>5. CASE ~(offset[w] < BoxCapacity)
  <2>1. file' = file /\ wrote' = [wrote EXCEPT ![w] = 0]
    BY <1>5 DEF PubWrite
  <2>2. offset' = [offset EXCEPT ![w] = @ + 0]
    BY <1>5 DEF PubWrite
  <2>3. offset' = offset
    BY <2>2, <1>3
  <2> QED BY <2>1, <2>3
<1> QED BY <1>4, <1>5

(* Nobody else publishes while w does.                                     *)
LEMMA Alone ==
    ASSUME TypeOK, CountersCoverSessions, NEW w \in Worker, pc[w] \in Publishing
    PROVE  \A v \in Worker \ {w} : pc[v] \notin Publishing
BY OnePublisher DEF At

(* A step of worker w leaves the others alone, but for the broadcast.      *)
Others(w) ==
    \A v \in Worker \ {w} :
        /\ \/ pc'[v] = pc[v]
           \/ PubBroadcast(w) /\ pc[v] = "sub_asleep" /\ pc'[v] = "sub_read"
        /\ offset'[v] = offset[v]
        /\ held'[v] = held[v]
        /\ wrote'[v] = wrote[v]
        /\ delivered'[v] = delivered[v]

LEMMA OthersUntouched ==
    ASSUME TypeOK, NEW w \in Worker, PubNext(w) \/ SubNext(w)
    PROVE  Others(w) /\ (file' = file \/ PubWrite(w))
<1> USE DEF Others, Goto, EndSession, locals
<1>1. /\ pc \in [Worker -> Label] /\ offset \in [Worker -> Nat]
      /\ held \in [Worker -> Seq(Message)] /\ wrote \in [Worker -> {0, 1}]
      /\ delivered \in [Worker -> Seq(Message)]
  BY DEF TypeOK
<1>2. CASE PubNext(w)
  BY <1>1, <1>2 DEF PubNext, PubArrives, PubRegister, PubRefused, PubOpen,
                    PubOpenFails, PubRead, PubReadFails, PubEof, PubWrite,
                    PubBroadcast, PubSize, PubUnregister, PubClose, WakeSubs,
                    At, vars
<1>3. CASE SubNext(w)
  BY <1>1, <1>3 DEF SubNext, SubRegister, SubOpen, SubOpenFails, SubRead,
                    SubFindsNothing, SubWait, SpuriousWake, SubSend,
                    SubPipeBroken, BrokerKilled, SubSendFails, SubUnregister,
                    ClientLeaves
<1> QED BY <1>2, <1>3

LEMMA MutexHeldNext ==
    ASSUME TypeOK, MutexHeld, [Next]_vars
    PROVE  MutexHeld'
<1> USE BoxSessionAssumption DEF MutexHeld, MutexFree, Goto, EndSession
<1>1. pc \in [Worker -> Label]
  BY DEF TypeOK
<1>2. CASE UNCHANGED vars
  BY <1>2 DEF vars
<1>3. ASSUME NEW w \in Worker, PubNext(w)
      PROVE  MutexHeld'
  BY <1>1, <1>3 DEF PubNext, PubArrives, PubRegister, PubRefused, PubOpen,
                    PubOpenFails, PubRead, PubReadFails, PubEof, PubWrite,
                    PubBroadcast, PubSize, PubUnregister, PubClose, WakeSubs,
                    At, vars
<1>4. ASSUME NEW w \in Worker, SubNext(w)
      PROVE  MutexHeld'
  BY <1>1, <1>4 DEF SubNext, SubRegister, SubOpen, SubOpenFails, SubRead,
                    SubFindsNothing, SubWait, SpuriousWake, SubSend,
                    SubPipeBroken, BrokerKilled, SubSendFails, SubUnregister,
                    ClientLeaves
<1> QED BY <1>2, <1>3, <1>4 DEF Next, Gone

(* The facts the steps below start from.                                   *)
LEMMA Typed ==
    ASSUME IInv
    PROVE  /\ TypeOK /\ CountersCoverSessions
           /\ pc \in [Worker -> Label] /\ file \in Seq(Message) /\ Len(file) \in Nat
           /\ offset \in [Worker -> Nat] /\ held \in [Worker -> Seq(Message)]
           /\ wrote \in [Worker -> {0, 1}] /\ delivered \in [Worker -> Seq(Message)]
           /\ \A w \in Worker : offset[w] <= Len(file) /\ Len(delivered[w]) \in Nat
<1>1. TypeOK /\ CountersCoverSessions
  BY DEF IInv
<1>2. \A w \in Worker : Len(delivered[w]) \in Nat
  BY <1>1, LenProperties DEF TypeOK
<1> QED BY <1>1, <1>2 DEF TypeOK

LEMMA WriterAtEndNext ==
    ASSUME IInv, [Next]_vars
    PROVE  WriterAtEnd'
<1> USE Typed
<1>1. \A v \in Worker : pc[v] \in Appending => offset[v] = Len(file)
  BY DEF IInv, WriterAtEnd, At
<1>2. CASE UNCHANGED vars
  BY <1>1, <1>2 DEF vars, WriterAtEnd, At
<1>3. ASSUME NEW w \in Worker, PubNext(w) \/ SubNext(w), NEW v \in Worker,
             pc'[v] \in Appending
      PROVE  offset'[v] = Len(file')
  <2>1. Others(w) /\ (file' = file \/ PubWrite(w))
    BY <1>3, OthersUntouched
  <2>2. CASE v # w
    <3>1. pc[v] \in Appending /\ offset'[v] = offset[v]
      BY <1>3, <2>1, <2>2 DEF Others, Appending
    <3>2. ~PubWrite(w)
      BY <2>2, <3>1, Alone DEF PubWrite, Appending, Publishing
    <3> QED BY <1>1, <2>1, <3>1, <3>2
  <2>3. CASE v = w /\ PubWrite(w)
    BY <1>1, <2>3, WriteAppends DEF PubWrite, Appending
  <2>4. CASE v = w /\ PubNext(w) /\ ~PubWrite(w)
    BY <1>1, <1>3, <2>4 DEF Appending, Goto, EndSession, locals, PubNext,
                            PubArrives, PubRegister, PubRefused, PubOpen,
                            PubOpenFails, PubRead, PubReadFails, PubEof,
                            PubWrite, PubBroadcast, PubSize, PubUnregister,
                            PubClose, vars
  <2>5. CASE v = w /\ SubNext(w)
    BY <1>1, <1>3, <2>5 DEF Appending, Goto, EndSession, locals, SubNext,
                            SubRegister, SubOpen, SubOpenFails, SubRead,
                            SubFindsNothing, SubWait, SpuriousWake, SubSend,
                            SubPipeBroken, BrokerKilled, SubSendFails,
                            SubUnregister, ClientLeaves
  <2> QED BY <1>3, <2>2, <2>3, <2>4, <2>5
<1> QED BY <1>2, <1>3 DEF Next, Gone, WriterAtEnd, At

LEMMA BufferFilledNext ==
    ASSUME IInv, [Next]_vars
    PROVE  BufferFilled'
<1> USE Typed
<1> DEFINE Filled(v) ==
        /\ pc[v] = "pub_write" => \E m \in Message : held[v] = <<m>>
        /\ pc[v] = "sub_send" => /\ offset[v] \in 1 .. Len(file)
                                 /\ held[v] = <<file[offset[v]]>>
<1>1. \A v \in Worker : Filled(v)
  BY DEF IInv, BufferFilled, At
<1>2. CASE UNCHANGED vars
  BY <1>1, <1>2 DEF vars, BufferFilled, At
<1>3. ASSUME NEW w \in Worker, PubNext(w) \/ SubNext(w), NEW v \in Worker
      PROVE  Filled(v)'
  <2>1. Others(w) /\ (file' = file \/ PubWrite(w))
    BY <1>3, OthersUntouched
  <2>2. \A i \in 1 .. Len(file) : i \in 1 .. Len(file') /\ file'[i] = file[i]
    BY <2>1, WriteAppends
  <2>3. CASE v # w
    BY <1>1, <2>1, <2>2, <2>3 DEF Others
  <2>4. CASE v = w /\ PubNext(w)
    BY <2>4 DEF Goto, EndSession, locals, PubNext, PubArrives, PubRegister,
                PubRefused, PubOpen, PubOpenFails, PubRead, PubReadFails,
                PubEof, PubWrite, PubBroadcast, PubSize, PubUnregister,
                PubClose, vars
  <2>5. CASE v = w /\ SubRead(w)
    BY <1>1, <2>5 DEF Goto, SubRead
  <2>6. CASE v = w /\ (BrokerKilled(w) \/ ClientLeaves(w))
    BY <1>1, <2>6 DEF BrokerKilled, ClientLeaves, locals
  <2>7. CASE v = w /\ SubNext(w) /\ ~SubRead(w) /\ ~BrokerKilled(w)
                   /\ ~ClientLeaves(w)
    <3>1. pc'[w] \notin {"pub_write", "sub_send"}
      BY <1>1, <2>7 DEF Goto, EndSession, SubNext, SubRegister, SubOpen,
                        SubOpenFails, SubFindsNothing, SubWait, SpuriousWake,
                        SubSend, SubPipeBroken, SubSendFails, SubUnregister
    <3> QED BY <2>7, <3>1
  <2> QED BY <1>3, <2>3, <2>4, <2>5, <2>6, <2>7
<1> QED BY <1>2, <1>3 DEF Next, Gone, BufferFilled, At

LEMMA FeedInStepNext ==
    ASSUME IInv, [Next]_vars
    PROVE  FeedInStep'
<1> USE Typed DEF Subscribed
<1> DEFINE InStep(v) ==
        /\ pc[v] \notin Subscribed => delivered[v] = <<>>
        /\ pc[v] = "sub_open" => delivered[v] = <<>>
        /\ pc[v] \in {"sub_read", "sub_wait", "sub_asleep"} =>
               offset[v] = Len(delivered[v])
        /\ pc[v] = "sub_send" => offset[v] = Len(delivered[v]) + 1
<1>1. \A v \in Worker : InStep(v)
  BY DEF IInv, FeedInStep
<1>2. CASE UNCHANGED vars
  BY <1>1, <1>2 DEF vars, FeedInStep
<1>3. ASSUME NEW w \in Worker, PubNext(w) \/ SubNext(w), NEW v \in Worker
      PROVE  InStep(v)'
  <2>1. Others(w)
    BY <1>3, OthersUntouched
  <2>2. CASE v # w
    BY <1>1, <2>1, <2>2 DEF Others
  <2>3. CASE v = w /\ PubNext(w)
    <3>1. pc[w] \notin Subscribed
      BY <2>3 DEF PubNext, PubArrives, PubRegister, PubRefused, PubOpen,
                  PubOpenFails, PubRead, PubReadFails, PubEof, PubWrite,
                  PubBroadcast, PubSize, PubUnregister, PubClose, vars
    <3>4. pc'[w] \notin Subscribed
      BY <2>3, <3>1 DEF Goto, EndSession, WakeSubs, At, PubNext, PubArrives,
                        PubRegister, PubRefused, PubOpen, PubOpenFails, PubRead,
                        PubReadFails, PubEof, PubWrite, PubBroadcast, PubSize,
                        PubUnregister, PubClose, vars
    <3>2. delivered' = delivered \/ delivered' = [delivered EXCEPT ![w] = <<>>]
      BY <2>3 DEF EndSession, locals, PubNext, PubArrives, PubRegister,
                  PubRefused, PubOpen, PubOpenFails, PubRead, PubReadFails,
                  PubEof, PubWrite, PubBroadcast, PubSize, PubUnregister,
                  PubClose, vars
    <3>3. delivered'[w] = <<>>
      BY <1>1, <2>3, <3>1, <3>2
    <3> QED BY <2>3, <3>3, <3>4
  <2>4. CASE v = w /\ SubSend(w)
    <3>1. held[w] \in Seq(Message) /\ pc[w] = "sub_send"
          /\ \E i \in 1 .. Len(file) : held[w] = <<file[i]>>
      BY <2>4 DEF SubSend, IInv, BufferFilled, At
    <3>2. held[w][1] \in Message
      BY <3>1, ElementOfSeq
    <3>3. delivered'[w] = Append(delivered[w], held[w][1])
      BY <2>4 DEF SubSend
    <3>4. Len(delivered'[w]) = Len(delivered[w]) + 1
      BY <3>2, <3>3
    <3> QED BY <1>1, <2>4, <3>1, <3>4 DEF SubSend, Goto
  <2>5. CASE v = w /\ (SubOpenFails(w) \/ SubSendFails(w) \/ SubUnregister(w))
    <3>1. pc'[w] = "idle" /\ delivered'[w] = <<>>
      BY <2>5 DEF SubOpenFails, SubSendFails, SubUnregister, EndSession, Goto
    <3> QED BY <2>5, <3>1
  <2>6. CASE v = w /\ (SubRegister(w) \/ SubOpen(w))
    <3>1. delivered[w] = <<>> /\ delivered' = delivered /\ Len(<<>>) = 0
      BY <1>1, <2>6 DEF SubRegister, SubOpen
    <3>2. pc'[w] = "sub_open" \/ (pc'[w] = "sub_read" /\ offset'[w] = 0)
      BY <2>6 DEF SubRegister, SubOpen, Goto
    <3> QED BY <2>6, <3>1, <3>2
  <2>7. CASE v = w /\ (SubRead(w) \/ SubFindsNothing(w) \/ SubWait(w)
                       \/ SpuriousWake(w) \/ SubPipeBroken(w) \/ BrokerKilled(w)
                       \/ ClientLeaves(w))
    <3>1. delivered' = delivered
      BY <2>7 DEF SubRead, SubFindsNothing, SubWait, SpuriousWake,
                  SubPipeBroken, BrokerKilled, ClientLeaves, locals
    <3> QED BY <1>1, <2>7, <3>1 DEF SubRead, SubFindsNothing, SubWait,
                                    SpuriousWake, SubPipeBroken, BrokerKilled,
                                    ClientLeaves, locals, Goto
  <2> QED BY <1>3, <2>2, <2>3, <2>4, <2>5, <2>6, <2>7 DEF SubNext
<1> QED BY <1>2, <1>3 DEF Next, Gone, FeedInStep

(* The publisher announces a message between its write and the update of   *)
(* the size; only three steps have to do with that.                        *)
Announcing == {"pub_broadcast", "pub_size"}
LEMMA NoAnnouncement ==
    ASSUME TypeOK, NEW w \in Worker, PubNext(w) \/ SubNext(w),
           ~PubWrite(w), ~PubBroadcast(w), ~PubSize(w)
    PROVE  /\ file' = file /\ size' = size
           /\ \A p \in Worker :
                  /\ pc[p] \in Announcing => pc'[p] = pc[p]
                  /\ pc'[p] \in Announcing => pc'[p] = pc[p] /\ wrote'[p] = wrote[p]
<1> USE DEF Announcing, Goto, EndSession, locals
<1>1. Others(w) /\ file' = file /\ pc \in [Worker -> Label]
  BY OthersUntouched DEF TypeOK
<1>2. size' = size /\ pc'[w] \notin Announcing /\ pc[w] \notin Announcing
  <2>1. CASE PubNext(w)
    BY <1>1, <2>1 DEF PubNext, PubArrives, PubRegister, PubRefused, PubOpen,
                      PubOpenFails, PubRead, PubReadFails, PubEof, PubWrite,
                      PubBroadcast, PubSize, PubUnregister, PubClose, WakeSubs,
                      At, vars
  <2>2. CASE SubNext(w)
    <3>1. size' = size
      BY <2>2 DEF SubNext, SubRegister, SubOpen, SubOpenFails, SubRead,
                  SubFindsNothing, SubWait, SpuriousWake, SubSend,
                  SubPipeBroken, BrokerKilled, SubSendFails, SubUnregister,
                  ClientLeaves
    <3>2. pc[w] \notin Announcing
      BY <2>2 DEF SubNext, SubRegister, SubOpen, SubOpenFails, SubRead,
                  SubFindsNothing, SubWait, SpuriousWake, SubSend,
                  SubPipeBroken, BrokerKilled, SubSendFails, SubUnregister,
                  ClientLeaves, Subscribed
    <3>3. pc'[w] \notin Announcing
      BY <1>1, <2>2, <3>2 DEF SubNext, SubRegister, SubOpen, SubOpenFails,
                              SubRead, SubFindsNothing, SubWait, SpuriousWake,
                              SubSend, SubPipeBroken, BrokerKilled,
                              SubSendFails, SubUnregister, ClientLeaves,
                              Subscribed
    <3> QED BY <3>1, <3>2, <3>3
  <2> QED BY <2>1, <2>2
<1> QED BY <1>1, <1>2 DEF Others

LEMMA WaiterNext ==
    ASSUME IInv, [Next]_vars
    PROVE  WaiterMissesAtMostOne'
<1> USE Typed DEF Announcing
<1>1. \A v \in Worker : pc[v] = "sub_wait" =>
          \/ Len(file) = offset[v]
          \/ Len(file) = offset[v] + 1 /\ \E p \in Worker : pc[p] \in Announcing
  BY DEF IInv, WaiterMissesAtMostOne, At
<1>2. CASE UNCHANGED vars
  BY <1>1, <1>2 DEF vars, WaiterMissesAtMostOne, At
<1>3. ASSUME NEW w \in Worker, PubNext(w) \/ SubNext(w), NEW v \in Worker,
             pc'[v] = "sub_wait"
      PROVE  \/ Len(file') = offset'[v]
             \/ Len(file') = offset'[v] + 1 /\ \E p \in Worker : pc'[p] \in Announcing
  <2>1. Others(w)
    BY <1>3, OthersUntouched
  <2>2. CASE PubWrite(w)
    <3>1. pc'[w] = "pub_broadcast" /\ pc[w] = "pub_write"
      BY <2>2 DEF PubWrite, Goto
    <3>2. pc[v] = "sub_wait" /\ offset'[v] = offset[v]
      BY <1>3, <2>1, <3>1 DEF Others
    <3>3. \A p \in Worker : pc[p] \notin Announcing
      BY <3>1, Alone DEF Publishing
    <3>4. Len(file') = Len(file) \/ Len(file') = Len(file) + 1
      BY <2>2, WriteAppends
    <3> QED BY <1>1, <3>1, <3>2, <3>3, <3>4
  <2>3. CASE PubBroadcast(w)
    <3>1. pc'[w] = "pub_size" /\ file' = file
      BY <2>3 DEF PubBroadcast, WakeSubs, At
    <3>2. pc[v] = "sub_wait" /\ offset'[v] = offset[v]
      BY <1>3, <2>1, <3>1 DEF Others
    <3> QED BY <1>1, <3>1, <3>2
  <2>4. CASE PubSize(w)
    <3>1. pc[v] # "sub_wait"
      BY <2>4, BoxSessionAssumption DEF PubSize, MutexFree, IInv, MutexHeld
    <3>2. v # w
      BY <1>3, <2>4 DEF PubSize, Goto
    <3> QED BY <1>3, <2>1, <3>1, <3>2 DEF Others
  <2>5. CASE ~PubWrite(w) /\ ~PubBroadcast(w) /\ ~PubSize(w)
    <3>1. /\ file' = file
          /\ \A p \in Worker : pc[p] \in Announcing => pc'[p] = pc[p]
      BY <1>3, <2>5, Typed, NoAnnouncement, Zenon
    <3>2. CASE v # w
      BY <1>1, <1>3, <2>1, <3>1, <3>2 DEF Others
    <3>3. CASE v = w /\ SubFindsNothing(w)
      BY <3>1, <3>3 DEF SubFindsNothing, locals
    <3>4. CASE v = w /\ ~SubFindsNothing(w)
      <4>1. ClientLeaves(w)
        <5>1. CASE PubNext(w)
          BY <1>3, <3>4, <5>1 DEF Goto, EndSession, PubNext, PubArrives,
                                  PubRegister, PubRefused, PubOpen,
                                  PubOpenFails, PubRead, PubReadFails, PubEof,
                                  PubWrite, PubBroadcast, PubSize,
                                  PubUnregister, PubClose, WakeSubs, At, vars
        <5>2. CASE SubNext(w)
          BY <1>3, <3>4, <5>2 DEF Goto, EndSession, SubNext, SubRegister,
                                  SubOpen, SubOpenFails, SubRead,
                                  SubFindsNothing, SubWait, SpuriousWake,
                                  SubSend, SubPipeBroken, BrokerKilled,
                                  SubSendFails, SubUnregister, ClientLeaves
        <5> QED BY <1>3, <5>1, <5>2
      <4> QED BY <1>1, <1>3, <3>1, <3>4, <4>1 DEF ClientLeaves
    <3> QED BY <3>2, <3>3, <3>4
  <2> QED BY <2>2, <2>3, <2>4, <2>5
<1> QED BY <1>2, <1>3 DEF Next, Gone, WaiterMissesAtMostOne, At

LEMMA SleeperNext ==
    ASSUME IInv, [Next]_vars
    PROVE  SleeperMissesAtMostOne'
<1> USE Typed
<1>1. \A v \in Worker : pc[v] = "sub_asleep" =>
          \/ Len(file) <= offset[v] + 1
          \/ Len(file) = offset[v] + 2 /\ \E p \in Worker : pc[p] = "pub_broadcast"
  BY DEF IInv, SleeperMissesAtMostOne, WakeSubs, At
<1>2. CASE UNCHANGED vars
  BY <1>1, <1>2 DEF vars, SleeperMissesAtMostOne, WakeSubs, At
<1>3. ASSUME NEW w \in Worker, PubNext(w) \/ SubNext(w), NEW v \in Worker,
             pc'[v] = "sub_asleep"
      PROVE  \/ Len(file') <= offset'[v] + 1
             \/ /\ Len(file') = offset'[v] + 2
                /\ \E p \in Worker : pc'[p] = "pub_broadcast"
  <2>1. Others(w)
    BY <1>3, OthersUntouched
  <2>2. CASE PubWrite(w)
    <3>1. pc'[w] = "pub_broadcast" /\ pc[w] = "pub_write"
      BY <2>2 DEF PubWrite, Goto
    <3>2. pc[v] = "sub_asleep" /\ offset'[v] = offset[v]
      BY <1>3, <2>1, <3>1 DEF Others
    <3>3. \A p \in Worker : pc[p] # "pub_broadcast"
      BY <3>1, Alone DEF Publishing
    <3>4. Len(file') = Len(file) \/ Len(file') = Len(file) + 1
      BY <2>2, WriteAppends
    <3> QED BY <1>1, <3>1, <3>2, <3>3, <3>4
  <2>3. CASE PubBroadcast(w)
    BY <1>3, <2>3 DEF PubBroadcast, WakeSubs, At
  <2>4. CASE PubSize(w)
    <3>1. /\ pc[w] = "pub_size" /\ pc'[w] = "pub_read" /\ file' = file
          /\ offset' = offset
      BY <2>4 DEF PubSize, Goto, locals
    <3>2. \A p \in Worker : p # w => pc'[p] = pc[p]
      BY <2>4 DEF PubSize, Goto
    <3> QED BY <1>1, <1>3, <3>1, <3>2
  <2>5. CASE ~PubWrite(w) /\ ~PubBroadcast(w) /\ ~PubSize(w)
    <3>1. /\ file' = file
          /\ \A p \in Worker : pc[p] = "pub_broadcast" => pc'[p] = pc[p]
      <4>1. TypeOK
        BY Typed
      <4>2. /\ file' = file
            /\ \A p \in Worker : pc[p] \in Announcing => pc'[p] = pc[p]
        BY <1>3, <2>5, <4>1, NoAnnouncement, Zenon
      <4> QED BY <4>2 DEF Announcing
    <3>2. CASE v # w
      BY <1>1, <1>3, <2>1, <2>5, <3>1, <3>2 DEF Others
    <3>3. CASE v = w /\ SubWait(w)
      <4>1. pc[w] = "sub_wait" /\ offset' = offset
        BY <3>3 DEF SubWait, locals
      <4>2. Len(file) = offset[w] \/ Len(file) = offset[w] + 1
        BY <4>1 DEF IInv, WaiterMissesAtMostOne, At
      <4> QED BY <3>1, <3>3, <4>1, <4>2
    <3>4. CASE v = w /\ ~SubWait(w)
      <4>1. ClientLeaves(w)
        <5>1. CASE PubNext(w)
          BY <1>3, <3>4, <5>1 DEF Goto, EndSession, PubNext, PubArrives,
                                  PubRegister, PubRefused, PubOpen,
                                  PubOpenFails, PubRead, PubReadFails, PubEof,
                                  PubWrite, PubBroadcast, PubSize,
                                  PubUnregister, PubClose, WakeSubs, At, vars
        <5>2. CASE SubNext(w)
          BY <1>3, <3>4, <5>2 DEF Goto, EndSession, SubNext, SubRegister,
                                  SubOpen, SubOpenFails, SubRead,
                                  SubFindsNothing, SubWait, SpuriousWake,
                                  SubSend, SubPipeBroken, BrokerKilled,
                                  SubSendFails, SubUnregister, ClientLeaves
        <5> QED BY <1>3, <5>1, <5>2
      <4> QED BY <1>1, <1>3, <3>1, <3>4, <4>1 DEF ClientLeaves
    <3> QED BY <3>2, <3>3, <3>4
  <2> QED BY <2>2, <2>3, <2>4, <2>5
<1> QED BY <1>2, <1>3 DEF Next, Gone, SleeperMissesAtMostOne, WakeSubs, At

LEMMA SizeNext ==
    ASSUME IInv, [Next]_vars
    PROVE  SizeCountsStored'
<1> USE Typed DEF Announcing
<1>1. /\ Len(file) = size + (IF Uncounted THEN 1 ELSE 0) /\ size \in Nat
      /\ Uncounted <=> \E p \in Worker : pc[p] \in Announcing /\ wrote[p] = 1
      /\ Uncounted' <=> \E p \in Worker : pc'[p] \in Announcing /\ wrote'[p] = 1
  BY BoxSessionAssumption DEF IInv, TypeOK, SizeCountsStored, Uncounted, At
<1>2. CASE UNCHANGED vars
  BY <1>1, <1>2 DEF vars, SizeCountsStored
<1>3. ASSUME NEW w \in Worker, PubNext(w) \/ SubNext(w)
      PROVE  Len(file') = size' + (IF Uncounted' THEN 1 ELSE 0)
  <2>1. Others(w)
    BY <1>3, OthersUntouched
  <2>2. CASE PubWrite(w)
    <3>1. pc'[w] = "pub_broadcast" /\ pc[w] = "pub_write" /\ size' = size
      BY <2>2 DEF PubWrite, Goto
    <3>2. \A p \in Worker : pc[p] \notin Announcing
      BY <3>1, Alone DEF Publishing
    <3>3. \A p \in Worker \ {w} : pc'[p] \notin Announcing
      BY <2>1, <3>2 DEF Others
    <3>4. \/ Len(file') = Len(file) + 1 /\ wrote'[w] = 1
          \/ Len(file') = Len(file) /\ wrote'[w] = 0
      BY <2>2, WriteAppends
    <3> QED BY <1>1, <3>1, <3>2, <3>3, <3>4
  <2>3. CASE PubBroadcast(w)
    <3>1. /\ pc[w] = "pub_broadcast" /\ pc'[w] = "pub_size"
          /\ file' = file /\ size' = size /\ wrote' = wrote
      BY <2>3 DEF PubBroadcast, WakeSubs, At, locals
    <3>2. \A p \in Worker : pc'[p] \in Announcing <=> pc[p] \in Announcing
      BY <2>1, <3>1 DEF Others
    <3>3. Uncounted' <=> Uncounted
      BY <1>1, <3>1, <3>2
    <3> QED BY <1>1, <3>1, <3>3
  <2>4. CASE PubSize(w)
    <3>1. /\ pc[w] = "pub_size" /\ pc'[w] = "pub_read" /\ file' = file
          /\ size' = size + wrote[w]
      BY <2>4 DEF PubSize, Goto
    <3>2. \A p \in Worker \ {w} : pc[p] \notin Announcing
      BY <3>1, Alone DEF Publishing
    <3>3. \A p \in Worker : pc'[p] \notin Announcing
      BY <2>1, <3>1, <3>2 DEF Others
    <3>4. Uncounted <=> wrote[w] = 1
      BY <1>1, <3>1, <3>2
    <3>5. wrote[w] \in {0, 1} /\ ~Uncounted'
      BY <1>1, <3>3
    <3> QED BY <1>1, <3>1, <3>4, <3>5
  <2>5. CASE ~PubWrite(w) /\ ~PubBroadcast(w) /\ ~PubSize(w)
    <3>1. /\ file' = file /\ size' = size
          /\ \A p \in Worker :
                 /\ pc[p] \in Announcing => pc'[p] = pc[p]
                 /\ pc'[p] \in Announcing => pc'[p] = pc[p] /\ wrote'[p] = wrote[p]
      BY <1>3, <2>5, NoAnnouncement
    <3>2. Uncounted' <=> Uncounted
      BY <1>1, <3>1
    <3> QED BY <1>1, <3>1, <3>2
  <2> QED BY <2>2, <2>3, <2>4, <2>5
<1> QED BY <1>2, <1>3 DEF Next, Gone, SizeCountsStored

LEMMA TypeNext ==
    ASSUME IInv, [Next]_vars
    PROVE  TypeOK'
<1> USE BoxSessionAssumption DEF Goto, EndSession, locals, Label, MutexFree
<1>1. /\ TypeOK /\ CountersCoverSessions /\ Len(file) \in Nat
      /\ \A w \in Worker : Len(delivered[w]) \in Nat
      /\ <<>> \in Seq(Message)
  BY Typed
<1>2. CASE UNCHANGED vars
  BY <1>1, <1>2 DEF vars, TypeOK
<1>3. ASSUME NEW w \in Worker, PubNext(w)
      PROVE  TypeOK'
  <2> USE <1>1 DEF TypeOK
  <2>1. CASE PubRegister(w)
    BY <2>1 DEF PubRegister
  <2>2. CASE PubRefused(w)
    BY <2>2 DEF PubRefused, vars
  <2>3. CASE PubOpen(w)
    BY <2>3 DEF PubOpen
  <2>4. CASE PubOpenFails(w)
    BY <2>4 DEF PubOpenFails
  <2>5. CASE PubRead(w)
    <3>1. \A m \in Message : <<m>> \in Seq(Message)
      OBVIOUS
    <3> QED BY <2>5, <3>1 DEF PubRead
  <2>6. CASE PubReadFails(w)
    <3>1. handles >= 1
      BY <2>6, Counted DEF PubReadFails, WithHandle
    <3> QED BY <2>6, <3>1 DEF PubReadFails
  <2>7. CASE PubEof(w)
    BY <2>7 DEF PubEof
  <2>8. CASE PubWrite(w)
    <3>1. Len(file') \in Nat /\ Len(file') <= BoxCapacity /\ file' \in Seq(Message)
      BY <2>8, WriteAppends
    <3>2. /\ offset' = offset \/ offset' = [offset EXCEPT ![w] = Len(file')]
          /\ \E n \in {0, 1} : wrote' = [wrote EXCEPT ![w] = n]
          /\ Len(file) <= Len(file')
      BY <2>8, WriteAppends
    <3>4. wrote' \in [Worker -> {0, 1}]
      BY <3>2
    <3>5. /\ offset' \in [Worker -> Nat]
          /\ \A v \in Worker : offset'[v] <= Len(file')
      <4>1. CASE offset' = offset
        BY <3>1, <3>2, <4>1
      <4>2. CASE offset' = [offset EXCEPT ![w] = Len(file')]
        BY <3>1, <3>2, <4>2
      <4> QED BY <3>2, <4>1, <4>2
    <3>3. /\ pc' \in [Worker -> Label] /\ held' \in [Worker -> Seq(Message)]
          /\ UNCHANGED <<handles, mutex, pub_num, sub_num, size, listening,
                         delivered, sigpipe>>
      BY <2>8 DEF PubWrite
    <3> QED BY <3>1, <3>3, <3>4, <3>5
  <2>9. CASE PubBroadcast(w)
    BY <2>9 DEF PubBroadcast, WakeSubs, At
  <2>10. CASE PubSize(w)
    <3>1. pc[w] = "pub_size" /\ wrote[w] = 1 => Uncounted
      BY DEF Uncounted, At
    <3>2. Len(file) = size + (IF Uncounted THEN 1 ELSE 0)
      BY DEF IInv, SizeCountsStored
    <3>3. wrote[w] \in {0, 1}
      OBVIOUS
    <3>4. size' \in 0 .. BoxCapacity
      BY <2>10, <3>1, <3>2, <3>3 DEF PubSize
    <3> QED BY <2>10, <3>4 DEF PubSize
  <2>11. CASE PubUnregister(w)
    BY <2>11 DEF PubUnregister
  <2>12. CASE PubClose(w)
    <3>1. handles >= 1
      BY <2>12, Counted DEF PubClose, WithHandle
    <3> QED BY <2>12, <3>1 DEF PubClose
  <2>13. CASE PubArrives(w)
    BY <2>13 DEF PubArrives
  <2> QED BY <1>3, <2>1, <2>2, <2>3, <2>4, <2>5, <2>6, <2>7, <2>8, <2>9, <2>10,
             <2>11, <2>12, <2>13 DEF PubNext
<1>4. ASSUME NEW w \in Worker, SubNext(w)
      PROVE  TypeOK'
  <2> USE <1>1 DEF TypeOK
  <2>1. CASE SubRegister(w)
    BY <2>1 DEF SubRegister
  <2>2. CASE SubOpen(w)
    BY <2>2 DEF SubOpen
  <2>3. CASE SubOpenFails(w)
    BY <2>3 DEF SubOpenFails
  <2>4. CASE SubRead(w)
    <3>1. file[offset[w] + 1] \in Message
      BY <2>4, ElementOfSeq DEF SubRead
    <3>2. <<file[offset[w] + 1]>> \in Seq(Message)
      BY <3>1
    <3> QED BY <2>4, <3>2 DEF SubRead
  <2>5. CASE SubFindsNothing(w)
    BY <2>5 DEF SubFindsNothing
  <2>6. CASE SubWait(w)
    BY <2>6 DEF SubWait
  <2>7. CASE SpuriousWake(w)
    BY <2>7 DEF SpuriousWake
  <2>8. CASE SubSend(w)
    <3>1. \E i \in 1 .. Len(file) : held[w] = <<file[i]>>
      BY <2>8 DEF SubSend, IInv, BufferFilled, At
    <3>2. held[w][1] \in Message
      BY <3>1, ElementOfSeq
    <3>3. Append(delivered[w], held[w][1]) \in Seq(Message)
      BY <3>2
    <3> QED BY <2>8, <3>3 DEF SubSend
  <2>9. CASE SubPipeBroken(w) \/ BrokerKilled(w)
    BY <2>9 DEF SubPipeBroken, BrokerKilled
  <2>10. CASE SubSendFails(w)
    <3>1. handles >= 1
      BY <2>10, Counted DEF SubSendFails, WithHandle
    <3> QED BY <2>10, <3>1 DEF SubSendFails
  <2>11. CASE SubUnregister(w)
    BY <2>11 DEF SubUnregister
  <2>12. CASE ClientLeaves(w)
    BY <2>12 DEF ClientLeaves
  <2> QED BY <1>4, <2>1, <2>2, <2>3, <2>4, <2>5, <2>6, <2>7, <2>8, <2>9, <2>10,
             <2>11, <2>12 DEF SubNext
<1> QED BY <1>2, <1>3, <1>4 DEF Next, Gone

-------------------------------------------------------------------------------
(* The theorems.                                                           *)

LEMMA InitInvariant == Init => IInv
<1> SUFFICES ASSUME Init PROVE IInv
  OBVIOUS
<1> USE BoxSessionAssumption DEF Init
<1>1. \A w \in Worker : pc[w] = "idle"
  OBVIOUS
<1>2. /\ At(Publishing) = {} /\ At(Subscribed) = {} /\ At(WithHandle) = {}
      /\ At(Appending) = {} /\ At({"pub_write"}) = {} /\ At({"sub_send"}) = {}
      /\ At({"sub_wait"}) = {} /\ At({"sub_asleep"}) = {}
      /\ At({"pub_broadcast", "pub_size"}) = {}
  BY <1>1 DEF At, Publishing, Subscribed, WithHandle, Appending
<1>3. Len(file) = 0
  OBVIOUS
<1>4. TypeOK
  BY <1>3 DEF TypeOK, Label
<1>5. CountersCoverSessions
  BY <1>2, FS_EmptySet DEF CountersCoverSessions
<1>6. SizeCountsStored /\ SleeperMissesAtMostOne /\ WriterAtEnd /\ BufferFilled
      /\ WaiterMissesAtMostOne
  BY <1>2, <1>3 DEF SizeCountsStored, Uncounted, SleeperMissesAtMostOne,
                    WakeSubs, WriterAtEnd, BufferFilled, WaiterMissesAtMostOne
<1>7. MutexHeld
  BY <1>1 DEF MutexHeld
<1>8. FeedInStep
  BY <1>1 DEF FeedInStep
<1> QED BY <1>4, <1>5, <1>6, <1>7, <1>8 DEF IInv

LEMMA NextInvariant == IInv /\ [Next]_vars => IInv'
<1> SUFFICES ASSUME IInv, [Next]_vars PROVE IInv'
  OBVIOUS
<1>1. TypeOK' /\ CountersCoverSessions' /\ MutexHeld'
  BY TypeNext, CountersNext, MutexHeldNext DEF IInv
<1>2. SizeCountsStored' /\ SleeperMissesAtMostOne' /\ WaiterMissesAtMostOne'
  BY SizeNext, SleeperNext, WaiterNext
<1>3. WriterAtEnd' /\ BufferFilled' /\ FeedInStep'
  BY WriterAtEndNext, BufferFilledNext, FeedInStepNext
<1> QED BY <1>1, <1>2, <1>3 DEF IInv

(* The inductive invariant holds in every reachable state.                 *)
THEOREM Invariance == Spec => []IInv
BY InitInvariant, NextInvariant, PTL DEF Spec

(* Every variable keeps its type: no error path of a session drives a      *)
(* counter below zero, overbooks the open file table or writes past the    *)
(* block of the box.                                                       *)
THEOREM TypeCorrect == Spec => []TypeOK
<1>1. IInv => TypeOK
  BY DEF IInv
<1> QED BY <1>1, Invariance, PTL

(* A subscriber that sleeps has missed at most one announced message,      *)
(* whatever the number of workers and the capacity of the box, although    *)
(* the broadcast is made without the mutex.                                *)
THEOREM LostWakeupBounded == Spec => []SleeperMissesAtMostOne
<1>1. IInv => SleeperMissesAtMostOne
  BY DEF IInv
<1> QED BY <1>1, Invariance, PTL

(* The size a box reports is what its file holds, but for the message      *)
(* whose publisher is on its way to box->mutex.                            *)
THEOREM SizeCorrect == Spec => []SizeCountsStored
<1>1. IInv => SizeCountsStored
  BY DEF IInv
<1> QED BY <1>1, Invariance, PTL

(* The counters of publishers, subscribers and open files never count too  *)
(* few.                                                                    *)
THEOREM CountersCorrect == Spec => []CountersCoverSessions
<1>1. IInv => CountersCoverSessions
  BY DEF IInv
<1> QED BY <1>1, Invariance, PTL

(* Every step of a session is a step of the feed, or invisible to it.      *)
LEMMA StepRefines == IInv /\ [Next]_vars => [Feed!Next]_(Feed!vars)
<1> SUFFICES ASSUME IInv, [Next]_vars PROVE [Feed!Next]_(Feed!vars)
  OBVIOUS
<1> USE DEF Feed!vars
<1>1. CASE UNCHANGED vars
  BY <1>1 DEF vars
<1>2. ASSUME NEW w \in Worker, PubNext(w)
      PROVE  [Feed!Next]_(Feed!vars)
  <2>1. CASE PubWrite(w)
    <3>1. delivered' = delivered
      BY <2>1 DEF PubWrite
    <3>2. \/ file' = file
          \/ Len(file) < BoxCapacity /\ \E m \in Message : file' = Append(file, m)
      BY <2>1, WriteAppends
    <3> QED BY <3>1, <3>2 DEF Feed!Next, Feed!Publish
  <2>2. CASE PubOpenFails(w) \/ PubReadFails(w) \/ PubClose(w)
    BY <2>2 DEF PubOpenFails, PubReadFails, PubClose, EndSession, Feed!Next,
                Feed!Leave
  <2>3. CASE \/ PubArrives(w) \/ PubRegister(w) \/ PubRefused(w)
             \/ PubOpen(w) \/ PubRead(w) \/ PubEof(w) \/ PubBroadcast(w)
             \/ PubSize(w) \/ PubUnregister(w)
    BY <2>3 DEF PubArrives, PubRegister, PubRefused, PubOpen, PubRead, PubEof,
                PubBroadcast, PubSize, PubUnregister, locals, vars
  <2> QED BY <1>2, <2>1, <2>2, <2>3 DEF PubNext
<1>3. ASSUME NEW w \in Worker, SubNext(w)
      PROVE  [Feed!Next]_(Feed!vars)
  <2>1. CASE SubSend(w)
    <3>1. pc[w] = "sub_send" /\ file' = file
      BY <2>1 DEF SubSend
    <3>2. offset[w] = Len(delivered[w]) + 1
      BY <3>1 DEF IInv, FeedInStep
    <3>3. offset[w] \in 1 .. Len(file) /\ held[w] = <<file[offset[w]]>>
      BY <3>1 DEF IInv, BufferFilled, At
    <3>4. held[w][1] = file[Len(delivered[w]) + 1] /\ Len(delivered[w]) < Len(file)
      BY <3>2, <3>3, Typed
    <3>5. delivered' = [delivered EXCEPT ![w] =
                            Append(delivered[w], file[Len(delivered[w]) + 1])]
      BY <2>1, <3>4 DEF SubSend
    <3> QED BY <3>1, <3>4, <3>5 DEF Feed!Next, Feed!Deliver
  <2>2. CASE SubOpenFails(w) \/ SubSendFails(w) \/ SubUnregister(w)
    BY <2>2 DEF SubOpenFails, SubSendFails, SubUnregister, EndSession,
                Feed!Next, Feed!Leave
  <2>3. CASE \/ SubRegister(w) \/ SubOpen(w) \/ SubRead(w) \/ SubFindsNothing(w)
             \/ SubWait(w) \/ SpuriousWake(w) \/ SubPipeBroken(w) \/ BrokerKilled(w)
             \/ ClientLeaves(w)
    BY <2>3 DEF SubRegister, SubOpen, SubRead, SubFindsNothing, SubWait,
                SpuriousWake, SubPipeBroken, BrokerKilled, ClientLeaves, locals
  <2> QED BY <1>3, <2>1, <2>2, <2>3 DEF SubNext
<1> QED BY <1>1, <1>2, <1>3 DEF Next, Gone

(* The sessions of a box implement its feed: what a subscriber receives is *)
(* the log of the box from its first message, in order, without gap or     *)
(* repeat, and publishers only ever append to that log.                    *)
THEOREM SessionRefinesFeed == Spec => FeedSpec
<1>1. Init => Feed!Init
  BY DEF Init, Feed!Init
<1> QED BY <1>1, StepRefines, Invariance, PTL DEF Spec, FeedSpec, Feed!Spec
==============================================================================
