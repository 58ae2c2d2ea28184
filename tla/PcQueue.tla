------------------------------- MODULE PcQueue -------------------------------
(***************************************************************************)
(* The bounded queue between the main thread of mbroker, which enqueues    *)
(* requests, and its worker threads, which dequeue and serve them:         *)
(* producer-consumer/producer-consumer.c and the loops of main and         *)
(* handle_request around it.                                               *)
(*                                                                         *)
(* Each call locks the size, then head or tail, then the size again.  No   *)
(* thread holds two mutexes, and none of the critical sections but the     *)
(* first can block inside, so each is one step; pthread_cond_wait leaves   *)
(* the first one atomically and enters it again from its start.            *)
(***************************************************************************)
EXTENDS Naturals, FiniteSets

CONSTANTS Producer, Consumer,   \* the threads that enqueue and dequeue
          Elem,                 \* the requests
          NoElem,               \* no request: an unwritten slot
          Capacity,             \* max_sessions
          SizeMod               \* 2^64 in the program: size_t wraps around

ASSUME PcQueueAssumption ==
    /\ Producer \cap Consumer = {}
    /\ NoElem \notin Elem
    /\ Capacity \in Nat \ {0}
    /\ SizeMod \in Nat /\ SizeMod > Capacity + 1

VARIABLES pc,       \* pc[t]: what thread t does next
          buffer,   \* pcq_buffer
          head,     \* pcq_head: where the next element is put
          tail,     \* pcq_tail: where the next element is taken
          size,     \* pcq_current_size
          elem,     \* elem[p]: the argument of the pcq_enqueue of p
          ret       \* ret[c]: the result of the last pcq_dequeue of c

vars == <<pc, buffer, head, tail, size, elem, ret>>

Thread == Producer \cup Consumer
Slot == 0 .. Capacity - 1
PutLabel == {"waits_for_request", "put_check", "put_asleep", "put_store", "put_count"}
TakeLabel == {"serves", "take_check", "take_asleep", "take_read", "take_count"}

At(label) == {t \in Thread : pc[t] = label}

(* The workers start with a dequeue, the main thread with its pipe.        *)
Init == /\ pc = [t \in Thread |-> IF t \in Producer THEN "waits_for_request"
                                                    ELSE "take_check"]
        /\ buffer = [i \in Slot |-> NoElem]
        /\ head = 0
        /\ tail = 0
        /\ size = 0
        /\ elem = [p \in Producer |-> NoElem]
        /\ ret = [c \in Consumer |-> NoElem]

Goto(t, label) == pc' = [pc EXCEPT ![t] = label]

(* Mutant: an if in the place of the while around pthread_cond_wait.       *)
Recheck_If(t) == IF t \in Producer THEN "put_store" ELSE "take_read"
(* Where a thread goes on when it is woken: the while tests again.         *)
Recheck(t) == IF t \in Producer THEN "put_check" ELSE "take_check"

(* Thread t moves on to label and signals one of the threads asleep, if    *)
(* there is one.                                                           *)
GotoAndSignal(t, label, asleep) ==
    IF At(asleep) = {}
    THEN Goto(t, label)
    ELSE \E s \in At(asleep) : pc' = [pc EXCEPT ![t] = label, ![s] = Recheck(s)]

-------------------------------------------------------------------------------
(* pcq_enqueue.                                                            *)

(* main read a request from the register pipe.                             *)
PutCall(p) == /\ pc[p] = "waits_for_request"
              /\ \E e \in Elem : elem' = [elem EXCEPT ![p] = e]
              /\ Goto(p, "put_check")
              /\ UNCHANGED <<buffer, head, tail, size, ret>>

PutCheck(p) == /\ pc[p] = "put_check"
               /\ Goto(p, IF size = Capacity THEN "put_asleep" ELSE "put_store")
               /\ UNCHANGED <<buffer, head, tail, size, elem, ret>>

PutStore(p) == /\ pc[p] = "put_store"
               /\ buffer' = [buffer EXCEPT ![head] = elem[p]]
               /\ head' = (head + 1) % Capacity
               /\ Goto(p, "put_count")
               /\ UNCHANGED <<tail, size, elem, ret>>

(* Mutant: the signal goes to the condition variable of the producers.     *)
PutCount_WrongCondvar(p) ==
    /\ pc[p] = "put_count"
    /\ size' = (size + 1) % SizeMod
    /\ GotoAndSignal(p, "waits_for_request", "put_asleep")
    /\ UNCHANGED <<buffer, head, tail, elem, ret>>

PutCount(p) == /\ pc[p] = "put_count"
               /\ size' = (size + 1) % SizeMod
               /\ GotoAndSignal(p, "waits_for_request", "take_asleep")
               /\ UNCHANGED <<buffer, head, tail, elem, ret>>

-------------------------------------------------------------------------------
(* pcq_dequeue.                                                            *)

TakeCheck(c) == /\ pc[c] = "take_check"
                /\ Goto(c, IF size = 0 THEN "take_asleep" ELSE "take_read")
                /\ UNCHANGED <<buffer, head, tail, size, elem, ret>>

(* Mutant: the tail is not wrapped around.                                 *)
TakeRead_NoWrap(c) ==
    /\ pc[c] = "take_read"
    /\ ret' = [ret EXCEPT ![c] = buffer[tail]]
    /\ tail' = tail + 1
    /\ Goto(c, "take_count")
    /\ UNCHANGED <<buffer, head, size, elem>>

TakeRead(c) == /\ pc[c] = "take_read"
               /\ ret' = [ret EXCEPT ![c] = buffer[tail]]
               /\ tail' = (tail + 1) % Capacity
               /\ Goto(c, "take_count")
               /\ UNCHANGED <<buffer, head, size, elem>>

(* Mutant: the signal goes to the condition variable of the consumers.     *)
TakeCount_WrongCondvar(c) ==
    /\ pc[c] = "take_count"
    /\ size' = (size + SizeMod - 1) % SizeMod
    /\ GotoAndSignal(c, "serves", "take_asleep")
    /\ UNCHANGED <<buffer, head, tail, elem, ret>>

TakeCount(c) == /\ pc[c] = "take_count"
                /\ size' = (size + SizeMod - 1) % SizeMod
                /\ GotoAndSignal(c, "serves", "put_asleep")
                /\ UNCHANGED <<buffer, head, tail, elem, ret>>

(* The worker has served its request and comes back for another.           *)
Served(c) == /\ pc[c] = "serves"
             /\ Goto(c, "take_check")
             /\ UNCHANGED <<buffer, head, tail, size, elem, ret>>

(* A wake-up without a signal, which POSIX allows.                         *)
SpuriousWake(t) == /\ pc[t] \in {"put_asleep", "take_asleep"}
                   /\ Goto(t, Recheck(t))
                   /\ UNCHANGED <<buffer, head, tail, size, elem, ret>>

-------------------------------------------------------------------------------
Next == \/ \E p \in Producer : \/ PutCall(p) \/ PutCheck(p) \/ PutStore(p)
                               \/ PutCount(p)
        \/ \E c \in Consumer : \/ TakeCheck(c) \/ TakeRead(c) \/ TakeCount(c)
                               \/ Served(c)
        \/ \E t \in Thread : SpuriousWake(t)

Spec == Init /\ [][Next]_vars

(* A thread inside the queue goes on as long as it can.  Requests come     *)
(* when they come, and a session may last for ever: neither is fair.       *)
FairSpec ==
    /\ Spec
    /\ \A p \in Producer : WF_vars(PutCheck(p) \/ PutStore(p) \/ PutCount(p))
    /\ \A c \in Consumer : WF_vars(TakeCheck(c) \/ TakeRead(c) \/ TakeCount(c))

-------------------------------------------------------------------------------
(* The indices stay in the buffer, and the size never leaves its range:    *)
(* with one thread on each side it cannot wrap around.                     *)
TypeOK == /\ pc \in [Thread -> PutLabel \cup TakeLabel]
          /\ buffer \in [Slot -> Elem \cup {NoElem}]
          /\ head \in Slot
          /\ tail \in Slot
          /\ size \in 0 .. Capacity
          /\ elem \in [Producer -> Elem \cup {NoElem}]
          /\ ret \in [Consumer -> Elem \cup {NoElem}]

(* The elements between tail and head: those counted in size, those that   *)
(* are stored and not counted yet, less those that are read and still are. *)
Stored == (size + Cardinality(At("put_count"))) - Cardinality(At("take_count"))

(* With one producer and one consumer the three critical sections of a     *)
(* call, taken one by one, are a first-in first-out queue: nothing is      *)
(* overwritten, skipped or taken twice.                                    *)
Fifo == INSTANCE BoundedFifo WITH
            queue <- [i \in 1 .. Stored |-> buffer[(tail + i - 1) % Capacity]],
            got <- ret
FifoSpec == Fifo!Spec

(* No signal is lost: a worker that waits while a request is stored gets   *)
(* one.                                                                    *)
WaitingWorkerIsServed ==
    \A c \in Consumer :
        (pc[c] \in {"take_check", "take_asleep"} /\ Stored > 0) ~>
            pc[c] = "take_count"

(* A main thread that sleeps on a full queue goes on once a worker comes   *)
(* back for a request.                                                     *)
FullQueueReopens ==
    \A p \in Producer :
        (pc[p] = "put_asleep" /\ At("take_check") # {}) ~> pc[p] = "put_store"

(* producer-consumer.h:49 says of pcq_dequeue "If the queue is empty,      *)
(* sleep until the queue has an element": no thread takes an element       *)
(* between two others that have taken the last one.                        *)
NothingTakenFromEmpty ==
    [][\A c \in Consumer : TakeRead(c) => Stored > 0]_vars
==============================================================================
