------------------------------ MODULE BoxSession ------------------------------
(***************************************************************************)
(* The publisher and subscriber sessions of one message box, as the worker *)
(* threads of mbroker run them: publisher_register and subscriber_register *)
(* of mbroker/mbroker.c with the registration calls of mbroker/boxes.c.    *)
(*                                                                         *)
(* A worker that takes a request out of the queue runs the whole session.  *)
(* Its steps are the points where threads can interleave: every call into  *)
(* the file system is one step (fs/operations.c holds g_library_mutex from *)
(* beginning to end), every critical section of box->mutex is one step     *)
(* except the one of the subscriber, which can sleep inside it, and the    *)
(* broadcast of the publisher is a step of its own, outside any lock.      *)
(*                                                                         *)
(* The unit of the file is one message: a publisher always writes          *)
(* MESSAGE_LEN bytes, a subscriber always reads MESSAGE_LEN bytes, and the *)
(* block size of the broker is 100 * MESSAGE_LEN.  The box exists all the  *)
(* time: creating and removing boxes is not part of this module.           *)
(***************************************************************************)
EXTENDS Naturals, Sequences, FiniteSets

CONSTANTS Worker,           \* the worker threads
          NoWorker,         \* nobody: the value of a mutex that is free
          Message,          \* the contents of messages
          BoxCapacity,      \* block_size / MESSAGE_LEN: 100 in the broker
          MaxOpenFiles,     \* max_open_files_count: 16 in the broker
          MaxSubNum         \* BOUND on sub_num, which leaked registrations grow

ASSUME BoxSessionAssumption ==
    /\ NoWorker \notin Worker
    /\ IsFiniteSet(Worker)
    /\ BoxCapacity \in Nat \ {0}
    /\ MaxOpenFiles \in Nat
    /\ MaxSubNum \in Nat

VARIABLES
    pc,         \* pc[w]: what worker w does next
    file,       \* the content of the box file
    offset,     \* offset[w]: of_offset of the handle worker w holds
    handles,    \* how many entries of the open file table are taken
    mutex,      \* the worker that holds box->mutex
    pub_num,    \* box->pub_num
    sub_num,    \* box->sub_num
    size,       \* box->size, in messages
    held,       \* held[w]: the messages in the local buffer of worker w, 0 or 1
    wrote,      \* wrote[w]: what the last tfs_write of worker w returned
    listening,  \* listening[w]: the client still holds its end of the pipe
    delivered,  \* delivered[w]: what was written to the subscriber's pipe
    sigpipe     \* what SIGPIPE does, or "killed" once it has ended the process

vars == <<pc, file, offset, handles, mutex, pub_num, sub_num, size,
          held, wrote, listening, delivered, sigpipe>>

Label == {"idle",
          "pub_register", "pub_open", "pub_read", "pub_write", "pub_broadcast",
          "pub_size", "pub_unregister", "pub_close",
          "sub_open", "sub_read", "sub_wait", "sub_asleep", "sub_send",
          "sub_unregister"}

(* A worker between box_register_pub and its box_unregister_pub.           *)
Publishing == {"pub_open", "pub_read", "pub_write", "pub_broadcast",
               "pub_size", "pub_unregister"}
(* A worker between box_register_sub and its box_unregister_sub.           *)
Subscribed == {"sub_open", "sub_read", "sub_wait", "sub_asleep", "sub_send",
               "sub_unregister"}

(* A worker whose session has an entry of the open file table.             *)
WithHandle == {"pub_read", "pub_write", "pub_broadcast", "pub_size",
               "pub_unregister", "pub_close", "sub_read", "sub_wait",
               "sub_asleep", "sub_send", "sub_unregister"}

At(S) == {w \in Worker : pc[w] \in S}
Goto(w, label) == pc' = [pc EXCEPT ![w] = label]
MutexFree == mutex = NoWorker
(* The workers waiting on the condition variable box->wake_subs.           *)
WakeSubs == At({"sub_asleep"})

Init == /\ pc = [w \in Worker |-> "idle"]
        /\ file = <<>>
        /\ offset = [w \in Worker |-> 0]
        /\ handles = 0
        /\ mutex = NoWorker
        /\ pub_num = 0
        /\ sub_num = 0
        /\ size = 0
        /\ held = [w \in Worker |-> <<>>]
        /\ wrote = [w \in Worker |-> 0]
        /\ listening = [w \in Worker |-> FALSE]
        /\ delivered = [w \in Worker |-> <<>>]
        /\ sigpipe = "default"

(* The worker takes its next request: the locals of the session are gone,  *)
(* and so is the pipe to the client.                                       *)
EndSession(w) == /\ Goto(w, "idle")
                 /\ offset' = [offset EXCEPT ![w] = 0]
                 /\ held' = [held EXCEPT ![w] = <<>>]
                 /\ wrote' = [wrote EXCEPT ![w] = 0]
                 /\ listening' = [listening EXCEPT ![w] = FALSE]
                 /\ delivered' = [delivered EXCEPT ![w] = <<>>]

locals == <<offset, held, wrote, listening, delivered>>

-------------------------------------------------------------------------------
(* The publisher session.                                                  *)

(* The worker takes up the request of a publisher: signal(SIGPIPE, ...),   *)
(* then open on the pipe, which lasts until the client opens its end.      *)
PubArrives(w) ==
    /\ pc[w] = "idle"
    /\ sigpipe' = "handler"
    /\ Goto(w, "pub_register")
    /\ UNCHANGED <<file, handles, mutex, pub_num, sub_num, size, locals>>

(* Mutant: the counter of publishers is not looked at.                     *)
PubRegister_Unchecked(w) ==
    /\ pc[w] = "pub_register"
    /\ MutexFree
    /\ pub_num' = pub_num + 1
    /\ Goto(w, "pub_open")
    /\ UNCHANGED <<file, handles, mutex, sub_num, size, sigpipe, locals>>

(* box_register_pub.                                                       *)
PubRegister(w) ==
    /\ pc[w] = "pub_register"
    /\ MutexFree
    /\ pub_num # 1
    /\ pub_num' = pub_num + 1
    /\ Goto(w, "pub_open")
    /\ UNCHANGED <<file, handles, mutex, sub_num, size, sigpipe, locals>>

(* A second publisher: box_register_pub returns NULL under the mutex.      *)
PubRefused(w) ==
    /\ pc[w] = "pub_register"
    /\ MutexFree
    /\ pub_num = 1
    /\ Goto(w, "idle")
    /\ UNCHANGED <<file, handles, mutex, pub_num, sub_num, size, sigpipe,
                   locals>>

(* tfs_open(nome, TFS_O_APPEND).                                           *)
PubOpen(w) ==
    /\ pc[w] = "pub_open"
    /\ handles < MaxOpenFiles
    /\ handles' = handles + 1
    /\ offset' = [offset EXCEPT ![w] = Len(file)]
    /\ Goto(w, "pub_read")
    /\ UNCHANGED <<file, mutex, pub_num, sub_num, size, held, wrote, listening,
                   delivered, sigpipe>>

(* The open file table is full.  tfs_close(-1) fails as well, and the      *)
(* session returns without box_unregister_pub: pub_num stays.              *)
PubOpenFails(w) ==
    /\ pc[w] = "pub_open"
    /\ handles = MaxOpenFiles
    /\ EndSession(w)
    /\ UNCHANGED <<file, handles, mutex, pub_num, sub_num, size, sigpipe>>

(* A whole request of the publisher: it writes PUBLISHER_BUFFER_SIZE bytes *)
(* at a time, which is less than PIPE_BUF.                                 *)
PubRead(w) ==
    /\ pc[w] = "pub_read"
    /\ \E m \in Message : held' = [held EXCEPT ![w] = <<m>>]
    /\ Goto(w, "pub_write")
    /\ UNCHANGED <<file, offset, handles, mutex, pub_num, sub_num, size, wrote,
                   listening, delivered, sigpipe>>

(* The first byte is not 9, or read failed: the handle is closed, but the  *)
(* publisher stays registered.                                             *)
PubReadFails(w) ==
    /\ pc[w] = "pub_read"
    /\ handles' = handles - 1
    /\ EndSession(w)
    /\ UNCHANGED <<file, mutex, pub_num, sub_num, size, sigpipe>>

(* read returned 0: the publisher closed its end of the pipe.              *)
PubEof(w) ==
    /\ pc[w] = "pub_read"
    /\ Goto(w, "pub_unregister")
    /\ UNCHANGED <<file, handles, mutex, pub_num, sub_num, size, sigpipe,
                   locals>>

(* f with message m stored at position i.                                  *)
StoreAt(f, i, m) ==
    [k \in 1 .. (IF i > Len(f) THEN i ELSE Len(f)) |-> IF k = i THEN m ELSE f[k]]

(* tfs_write at the offset of the handle; a full block takes 0 bytes.      *)
PubWrite(w) ==
    LET room == offset[w] < BoxCapacity
    IN  /\ pc[w] = "pub_write"
        /\ file' = IF room THEN StoreAt(file, offset[w] + 1, held[w][1]) ELSE file
        /\ wrote' = [wrote EXCEPT ![w] = IF room THEN 1 ELSE 0]
        /\ offset' = [offset EXCEPT ![w] = @ + (IF room THEN 1 ELSE 0)]
        /\ held' = [held EXCEPT ![w] = <<>>]
        /\ Goto(w, "pub_broadcast")
        /\ UNCHANGED <<handles, mutex, pub_num, sub_num, size, listening,
                       delivered, sigpipe>>

(* Mutant: pthread_cond_signal in the place of pthread_cond_broadcast.     *)
PubBroadcast_Signal(w) ==
    /\ pc[w] = "pub_broadcast"
    /\ \/ /\ WakeSubs = {}
          /\ Goto(w, "pub_size")
       \/ \E s \in WakeSubs : pc' = [pc EXCEPT ![w] = "pub_size", ![s] = "sub_read"]
    /\ UNCHANGED <<file, handles, mutex, pub_num, sub_num, size, sigpipe,
                   locals>>

(* Mutant: the broadcast is forgotten.                                     *)
PubBroadcast_Dropped(w) ==
    /\ pc[w] = "pub_broadcast"
    /\ Goto(w, "pub_size")
    /\ UNCHANGED <<file, handles, mutex, pub_num, sub_num, size, sigpipe,
                   locals>>

(* pthread_cond_broadcast, called without box->mutex: every thread that    *)
(* sleeps now goes back to its loop, and nobody else learns of it.         *)
PubBroadcast(w) ==
    /\ pc[w] = "pub_broadcast"
    /\ pc' = [v \in Worker |-> CASE v = w -> "pub_size"
                                 [] v \in WakeSubs -> "sub_read"
                                 [] OTHER -> pc[v]]
    /\ UNCHANGED <<file, handles, mutex, pub_num, sub_num, size, sigpipe,
                   locals>>

(* Mutant: box->size grows by MESSAGE_LEN, not by what tfs_write returned. *)
PubSize_AlwaysOne(w) ==
    /\ pc[w] = "pub_size"
    /\ MutexFree
    /\ size' = size + 1
    /\ Goto(w, "pub_read")
    /\ UNCHANGED <<file, handles, mutex, pub_num, sub_num, sigpipe, locals>>

(* The size of the box is brought up to date under box->mutex.             *)
PubSize(w) ==
    /\ pc[w] = "pub_size"
    /\ MutexFree
    /\ size' = size + wrote[w]
    /\ Goto(w, "pub_read")
    /\ UNCHANGED <<file, handles, mutex, pub_num, sub_num, sigpipe, locals>>

(* box_unregister_pub; when the counter is 0 the session gives up and      *)
(* leaves its handle open.                                                 *)
PubUnregister(w) ==
    /\ pc[w] = "pub_unregister"
    /\ MutexFree
    /\ pub_num' = IF pub_num = 0 THEN 0 ELSE pub_num - 1
    /\ Goto(w, IF pub_num = 0 THEN "idle" ELSE "pub_close")
    /\ UNCHANGED <<file, handles, mutex, sub_num, size, sigpipe, locals>>

(* Mutant: the publisher is unregistered a second time.                    *)
PubClose_UnregistersTwice(w) ==
    /\ pc[w] = "pub_close"
    /\ handles' = handles - 1
    /\ pub_num' = IF pub_num = 0 THEN 0 ELSE pub_num - 1
    /\ EndSession(w)
    /\ UNCHANGED <<file, mutex, sub_num, size, sigpipe>>

(* tfs_close, after the publisher is unregistered.                         *)
PubClose(w) ==
    /\ pc[w] = "pub_close"
    /\ handles' = handles - 1
    /\ EndSession(w)
    /\ UNCHANGED <<file, mutex, pub_num, sub_num, size, sigpipe>>

-------------------------------------------------------------------------------
(* The subscriber session.                                                 *)

(* box_register_sub.  The bound stands for "not for ever".                 *)
SubRegister(w) ==
    /\ pc[w] = "idle"
    /\ MutexFree
    /\ sub_num < MaxSubNum
    /\ sub_num' = sub_num + 1
    /\ listening' = [listening EXCEPT ![w] = TRUE]
    /\ Goto(w, "sub_open")
    /\ UNCHANGED <<file, offset, handles, mutex, pub_num, size, held, wrote,
                   delivered, sigpipe>>

(* Mutant: the open file table is not checked for a free entry.            *)
SubOpen_Unchecked(w) ==
    /\ pc[w] = "sub_open"
    /\ handles' = handles + 1
    /\ Goto(w, "sub_read")
    /\ UNCHANGED <<file, mutex, pub_num, sub_num, size, sigpipe, locals>>

(* tfs_open(name, 0): the handle starts at the beginning of the file.      *)
SubOpen(w) ==
    /\ pc[w] = "sub_open"
    /\ handles < MaxOpenFiles
    /\ handles' = handles + 1
    /\ offset' = [offset EXCEPT ![w] = 0]
    /\ Goto(w, "sub_read")
    /\ UNCHANGED <<file, mutex, pub_num, sub_num, size, held, wrote, listening,
                   delivered, sigpipe>>

(* The open file table is full: sub_num stays.                             *)
SubOpenFails(w) ==
    /\ pc[w] = "sub_open"
    /\ handles = MaxOpenFiles
    /\ EndSession(w)
    /\ UNCHANGED <<file, handles, mutex, pub_num, sub_num, size, sigpipe>>

(* Lock, tfs_read of one message, unlock.                                  *)
SubRead(w) ==
    /\ pc[w] = "sub_read"
    /\ MutexFree
    /\ offset[w] < Len(file)
    /\ held' = [held EXCEPT ![w] = <<file[offset[w] + 1]>>]
    /\ offset' = [offset EXCEPT ![w] = @ + 1]
    /\ Goto(w, "sub_send")
    /\ UNCHANGED <<file, handles, mutex, pub_num, sub_num, size, wrote,
                   listening, delivered, sigpipe>>

(* Lock, tfs_read returns 0: on its way to pthread_cond_wait with the lock *)
(* taken.                                                                  *)
SubFindsNothing(w) ==
    /\ pc[w] = "sub_read"
    /\ MutexFree
    /\ offset[w] = Len(file)
    /\ mutex' = w
    /\ Goto(w, "sub_wait")
    /\ UNCHANGED <<file, handles, pub_num, sub_num, size, sigpipe, locals>>

(* Mutant: a sleep that keeps the mutex.                                   *)
SubWait_KeepsMutex(w) ==
    /\ pc[w] = "sub_wait"
    /\ Goto(w, "sub_asleep")
    /\ UNCHANGED <<file, handles, mutex, pub_num, sub_num, size, sigpipe,
                   locals>>

(* pthread_cond_wait releases the mutex and sleeps in one step.            *)
SubWait(w) ==
    /\ pc[w] = "sub_wait"
    /\ mutex' = NoWorker
    /\ Goto(w, "sub_asleep")
    /\ UNCHANGED <<file, handles, pub_num, sub_num, size, sigpipe, locals>>

(* A wake-up without a broadcast, which POSIX allows.                      *)
SpuriousWake(w) ==
    /\ pc[w] = "sub_asleep"
    /\ Goto(w, "sub_read")
    /\ UNCHANGED <<file, handles, mutex, pub_num, sub_num, size, sigpipe,
                   locals>>

SubSend(w) ==
    /\ pc[w] = "sub_send"
    /\ listening[w]
    /\ delivered' = [delivered EXCEPT ![w] = Append(@, held[w][1])]
    /\ held' = [held EXCEPT ![w] = <<>>]
    /\ Goto(w, "sub_read")
    /\ UNCHANGED <<file, offset, handles, mutex, pub_num, sub_num, size, wrote,
                   listening, sigpipe>>

(* write raises SIGPIPE and fails with EPIPE.  The build asks for strict   *)
(* POSIX, where signal() installs a handler for one delivery only.         *)
SubPipeBroken(w) ==
    /\ pc[w] = "sub_send"
    /\ ~listening[w]
    /\ sigpipe = "handler"
    /\ sigpipe' = "default"
    /\ Goto(w, "sub_unregister")
    /\ UNCHANGED <<file, handles, mutex, pub_num, sub_num, size, locals>>

(* SIGPIPE finds no handler and ends the process.                          *)
BrokerKilled(w) ==
    /\ pc[w] = "sub_send"
    /\ ~listening[w]
    /\ sigpipe = "default"
    /\ sigpipe' = "killed"
    /\ UNCHANGED <<pc, file, handles, mutex, pub_num, sub_num, size, locals>>

(* write fails with another error: the handle is closed, sub_num stays.    *)
SubSendFails(w) ==
    /\ pc[w] = "sub_send"
    /\ handles' = handles - 1
    /\ EndSession(w)
    /\ UNCHANGED <<file, mutex, pub_num, sub_num, size, sigpipe>>

(* box_unregister_sub; the handle is never closed on this path.            *)
SubUnregister(w) ==
    /\ pc[w] = "sub_unregister"
    /\ MutexFree
    /\ sub_num' = IF sub_num = 0 THEN 0 ELSE sub_num - 1
    /\ EndSession(w)
    /\ UNCHANGED <<file, handles, mutex, pub_num, size, sigpipe>>

(* The subscriber closes its end of the pipe (sigint_handler of sub.c).    *)
ClientLeaves(w) ==
    /\ pc[w] \in Subscribed
    /\ listening[w]
    /\ listening' = [listening EXCEPT ![w] = FALSE]
    /\ UNCHANGED <<pc, file, offset, handles, mutex, pub_num, sub_num, size,
                   held, wrote, delivered, sigpipe>>

-------------------------------------------------------------------------------
PubNext(w) == \/ PubArrives(w) \/ PubRegister(w) \/ PubRefused(w)
              \/ PubOpen(w) \/ PubOpenFails(w)
              \/ PubRead(w) \/ PubReadFails(w) \/ PubEof(w)
              \/ PubWrite(w) \/ PubBroadcast(w) \/ PubSize(w)
              \/ PubUnregister(w) \/ PubClose(w)

SubNext(w) == \/ SubRegister(w) \/ SubOpen(w) \/ SubOpenFails(w)
              \/ SubRead(w) \/ SubFindsNothing(w) \/ SubWait(w)
              \/ SpuriousWake(w) \/ SubSend(w) \/ SubPipeBroken(w)
              \/ BrokerKilled(w) \/ SubSendFails(w) \/ SubUnregister(w)
              \/ ClientLeaves(w)

Running == sigpipe # "killed"
(* Nothing happens in a process that is gone.                              *)
Gone == ~Running /\ UNCHANGED vars

Next == \/ /\ Running
           /\ \E w \in Worker : PubNext(w) \/ SubNext(w)
        \/ Gone

Spec == Init /\ [][Next]_vars

(* What a worker does on its own, and what it does once box->mutex is its. *)
(* Requests, messages, faults and departures are up to the clients: no     *)
(* fairness makes them happen.                                             *)
OwnStep(w) == /\ Running
              /\ \/ PubOpen(w) \/ PubOpenFails(w) \/ PubWrite(w)
                 \/ PubBroadcast(w) \/ PubClose(w)
                 \/ SubOpen(w) \/ SubOpenFails(w) \/ SubWait(w)
                 \/ SubSend(w) \/ SubPipeBroken(w) \/ BrokerKilled(w)
LockStep(w) == /\ Running
               /\ \/ PubSize(w) \/ PubUnregister(w)
                  \/ SubRead(w) \/ SubFindsNothing(w) \/ SubUnregister(w)

FairSpec == /\ Spec
            /\ \A w \in Worker : WF_vars(OwnStep(w)) /\ SF_vars(LockStep(w))

-------------------------------------------------------------------------------
(* Every variable has its type: pub_num is a flag, the open file table is  *)
(* never overbooked and no offset is past the end of the file.             *)
TypeOK ==
    /\ pc \in [Worker -> Label]
    /\ file \in Seq(Message)
    /\ Len(file) <= BoxCapacity
    /\ offset \in [Worker -> Nat]
    /\ \A w \in Worker : offset[w] <= Len(file)
    /\ handles \in 0 .. MaxOpenFiles
    /\ mutex \in Worker \cup {NoWorker}
    /\ pub_num \in 0 .. 1
    /\ sub_num \in 0 .. MaxSubNum
    /\ size \in 0 .. BoxCapacity
    /\ held \in [Worker -> Seq(Message)]
    /\ wrote \in [Worker -> {0, 1}]
    /\ listening \in [Worker -> BOOLEAN]
    /\ sigpipe \in {"default", "handler", "killed"}
    /\ delivered \in [Worker -> Seq(Message)]

(* The broadcast of mbroker.c:386 is made without box->mutex, so a         *)
(* subscriber between its empty tfs_read and its pthread_cond_wait misses  *)
(* it.  It misses one, never two: the publisher cannot reach its next      *)
(* tfs_write without box->mutex, which the subscriber holds until it       *)
(* sleeps.  A sleeper is therefore at most one message behind, and one     *)
(* more while the broadcast for that one is on its way.                    *)
SleeperMissesAtMostOne ==
    \A w \in WakeSubs :
        \/ Len(file) <= offset[w] + 1
        \/ Len(file) = offset[w] + 2 /\ At({"pub_broadcast"}) # {}

(* A message is in the file and its publisher has not counted it yet.      *)
Uncounted == \E w \in At({"pub_broadcast", "pub_size"}) : wrote[w] = 1

(* box->size is what tfs_write stored, less the message whose publisher    *)
(* has not taken box->mutex yet: what list_boxes reports is never ahead of *)
(* the file, and never behind by more than one message.                    *)
SizeCountsStored == Len(file) = size + (IF Uncounted THEN 1 ELSE 0)

(* The counters that registration, removal and listing consult never       *)
(* forget a session that is running, whatever sessions ended on whatever   *)
(* error path: they can only count too many.                               *)
CountersCoverSessions ==
    /\ Cardinality(At(Publishing)) <= pub_num
    /\ Cardinality(At(Subscribed)) <= sub_num
    /\ Cardinality(At(WithHandle)) <= handles

(* Every subscriber is handed the messages of the box from the first one,  *)
(* in order, without gap or repeat, and no stored message is ever changed. *)
Feed == INSTANCE BoxFeed WITH log <- file, feed <- delivered
FeedSpec == Feed!Spec

BroadcastStep == \E w \in Worker : PubBroadcast(w)

(* As long as somebody goes on publishing, every message of the box        *)
(* reaches every subscriber that stays: the next broadcast repairs the one *)
(* that was lost.                                                          *)
DeliveredWhilePublishing ==
    []<><<BroadcastStep>>_vars =>
        \A w \in Worker, i \in 1 .. BoxCapacity :
            (pc[w] \in Subscribed /\ Len(file) >= i) ~>
                (Len(delivered[w]) >= i \/ ~listening[w])

(* Sleeping subscribers never shut a publisher out of its box: while the   *)
(* broker lives it always gets to bring box->size up to date and to read   *)
(* the next message.                                                       *)
PublisherGetsOn ==
    \A w \in Worker :
        (Running /\ pc[w] = "pub_size") ~> (pc[w] = "pub_read" \/ ~Running)
==============================================================================
