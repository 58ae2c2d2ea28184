----------------------------- MODULE RegisterPipe -----------------------------
(***************************************************************************)
(* The register pipe: the clients of publisher/pub.c, subscriber/sub.c and *)
(* manager/manager.c each write one request into it, and the main loop of  *)
(* mbroker/mbroker.c opens it, reads from it once and enqueues what it     *)
(* read, over and over, and never closes it.                               *)
(*                                                                         *)
(* The pipe is the one of the system: open waits for the other end, a      *)
(* write below PIPE_BUF is not split, a read takes what is there up to the *)
(* size of the buffer, waits while there is nothing and a writer, and      *)
(* returns 0 when there is nothing and no writer.  It holds 64 KiB, more   *)
(* than all requests of an instance, so that no write waits.               *)
(***************************************************************************)
EXTENDS Naturals, Sequences, FiniteSets

CONSTANTS Registrar,    \* publishers, and managers that create or remove: 289 bytes
          Lister,       \* managers that list: 257 bytes
          Subscriber,   \* 289 bytes; they keep their end open
          Nobody,       \* the sender of a request that is none
          MaxFds        \* BOUND on the descriptors of the broker (RLIMIT_NOFILE)

Client == Registrar \cup Lister \cup Subscriber

ASSUME RegisterPipeAssumption ==
    /\ Nobody \notin Client /\ IsFiniteSet(Client)
    /\ Registrar \cap Lister = {} /\ Registrar \cap Subscriber = {}
    /\ Lister \cap Subscriber = {}
    /\ MaxFds \in Nat \ {0}

VARIABLES client,    \* client[c]: how far client c has come
          pipe,      \* what is in the pipe: of whom, and how many bytes are left
          main,      \* what the main loop does
          knock,     \* a client has opened the pipe since main waits for one
          fds,       \* how often main has opened the pipe, and not closed it
          buffer,    \* whose request is at the start of main's buffer
          served,    \* the clients whose requests were enqueued
          turns,     \* history: how many buffers were enqueued
          crowded    \* history: a request was written behind another

vars == <<client, pipe, main, knock, fds, buffer, served, turns, crowded>>

MAIN_BUFFER_SIZE == 1029
Length(c) == IF c \in Lister THEN 257 ELSE 289

Init == /\ client = [c \in Client |-> "started"]
        /\ pipe = <<>>
        /\ main = "turn"
        /\ knock = FALSE
        /\ fds = 0
        /\ buffer = Nobody
        /\ served = {}
        /\ turns = 0
        /\ crowded = FALSE

Writers == {c \in Client : client[c] \in {"opened", "written"}}
HasReader == main = "waiting" \/ (fds > 0 /\ main # "exit")
Becomes(c, state) == client' = [client EXCEPT ![c] = state]

-------------------------------------------------------------------------------
(* The clients.                                                            *)

Opens(c) ==
    /\ client[c] = "started"
    /\ HasReader
    /\ Becomes(c, "opened")
    /\ knock' = (knock \/ main = "waiting")
    /\ UNCHANGED <<pipe, main, fds, buffer, served, turns, crowded>>

(* Mutant: the client sends a buffer of the size of the broker's.          *)
Writes_Buffer(c) ==
    /\ client[c] = "opened"
    /\ HasReader
    /\ pipe' = Append(pipe, [of |-> c, left |-> MAIN_BUFFER_SIZE])
    /\ crowded' = (crowded \/ pipe # <<>>)
    /\ Becomes(c, "written")
    /\ UNCHANGED <<main, knock, fds, buffer, served, turns>>

Writes(c) ==
    /\ client[c] = "opened"
    /\ HasReader
    /\ pipe' = Append(pipe, [of |-> c, left |-> Length(c)])
    /\ crowded' = (crowded \/ pipe # <<>>)
    /\ Becomes(c, "written")
    /\ UNCHANGED <<main, knock, fds, buffer, served, turns>>

(* The user stops the client before it writes, or there is no reader left  *)
(* and the write fails, by SIGPIPE or with EPIPE.                          *)
GivesUp(c) ==
    /\ client[c] = "opened"
    /\ Becomes(c, "gone")
    /\ UNCHANGED <<pipe, main, knock, fds, buffer, served, turns, crowded>>

(* A subscriber does so when its own pipe is closed, or by SIGINT.         *)
Closes(c) ==
    /\ client[c] = "written"
    /\ Becomes(c, "closed")
    /\ UNCHANGED <<pipe, main, knock, fds, buffer, served, turns, crowded>>

-------------------------------------------------------------------------------
(* The main loop.                                                          *)

(* Mutant: the pipe is opened once, before the loop.                       *)
CallsOpen_Once ==
    /\ main = "turn"
    /\ fds < MaxFds
    /\ \/ /\ Writers # {} \/ fds > 0
          /\ main' = "reading" /\ fds' = IF fds > 0 THEN fds ELSE 1
       \/ /\ Writers = {} /\ fds = 0
          /\ main' = "waiting" /\ UNCHANGED fds
    /\ knock' = FALSE
    /\ UNCHANGED <<client, pipe, buffer, served, turns, crowded>>

(* open(register_pipe_name, O_RDONLY), with or without a writer.           *)
CallsOpen ==
    /\ main = "turn"
    /\ fds < MaxFds
    /\ \/ Writers # {} /\ main' = "reading" /\ fds' = fds + 1
       \/ Writers = {} /\ main' = "waiting" /\ UNCHANGED fds
    /\ knock' = FALSE
    /\ UNCHANGED <<client, pipe, buffer, served, turns, crowded>>

(* The client for which open waited may be gone again.                     *)
OpenReturns ==
    /\ main = "waiting"
    /\ knock
    /\ main' = "reading"
    /\ fds' = fds + 1
    /\ knock' = FALSE
    /\ UNCHANGED <<client, pipe, buffer, served, turns, crowded>>

(* No descriptor is left.  close_server fails at close(-1) and exits.      *)
OpenFails ==
    /\ main = "turn"
    /\ fds = MaxFds
    /\ main' = "exit"
    /\ UNCHANGED <<client, pipe, knock, fds, buffer, served, turns, crowded>>

BytesOf(k) == LET f[i \in 0 .. k] == IF i = 0 THEN 0 ELSE f[i - 1] + pipe[i].left
              IN  f[k]

(* What a read leaves in the pipe.                                         *)
Rest ==
    LET over == {k \in 1 .. Len(pipe) : BytesOf(k) > MAIN_BUFFER_SIZE}
    IN  IF over = {} THEN <<>>
        ELSE LET k == CHOOSE i \in over : \A j \in over : i <= j
             IN  <<[pipe[k] EXCEPT !.left = BytesOf(k) - MAIN_BUFFER_SIZE]>>
                     \o SubSeq(pipe, k + 1, Len(pipe))

(* Mutant: the rest of a request is taken for the request.                 *)
First_AnyHead == Head(pipe).of

(* A worker looks at one request, at the start of the buffer: what comes   *)
(* behind it is lost.  The rest of a request that was cut starts with a    *)
(* byte of a path or a name, which is taken to be no type of a request.    *)
First == IF Head(pipe).left = Length(Head(pipe).of) THEN Head(pipe).of ELSE Nobody

ReadsData ==
    /\ main = "reading"
    /\ pipe # <<>>
    /\ buffer' = First
    /\ pipe' = Rest
    /\ main' = "enqueue"
    /\ UNCHANGED <<client, knock, fds, served, turns, crowded>>

(* Mutant: end of file is taken for an error.                              *)
ReadsEnd_Exits ==
    /\ main = "reading"
    /\ pipe = <<>> /\ Writers = {}
    /\ buffer' = Nobody
    /\ main' = "exit"
    /\ UNCHANGED <<client, pipe, knock, fds, served, turns, crowded>>

(* read returns 0: the buffer holds zeroes, and is enqueued all the same.  *)
ReadsEnd ==
    /\ main = "reading"
    /\ pipe = <<>> /\ Writers = {}
    /\ buffer' = Nobody
    /\ main' = "enqueue"
    /\ UNCHANGED <<client, pipe, knock, fds, served, turns, crowded>>

(* pcq_enqueue returns, once the queue has room.                           *)
Enqueues ==
    /\ main = "enqueue"
    /\ served' = IF buffer = Nobody THEN served ELSE served \cup {buffer}
    /\ turns' = turns + 1
    /\ buffer' = Nobody
    /\ main' = "turn"
    /\ UNCHANGED <<client, pipe, knock, fds, crowded>>

-------------------------------------------------------------------------------
MainReads == ReadsData \/ ReadsEnd
Next == \/ \E c \in Client : Opens(c) \/ Writes(c) \/ GivesUp(c) \/ Closes(c)
        \/ CallsOpen \/ OpenReturns \/ OpenFails \/ MainReads \/ Enqueues

Spec == Init /\ [][Next]_vars

(* Clients and main go on, except that a subscriber keeps its end open as  *)
(* long as it likes, and that main may wait in pcq_enqueue for ever: the   *)
(* workers may all be busy with sessions.                                  *)
FairSpec ==
    /\ Spec
    /\ \A c \in Client : WF_vars(Opens(c)) /\ WF_vars(Writes(c) \/ GivesUp(c))
    /\ \A c \in Registrar \cup Lister : WF_vars(Closes(c))
    /\ WF_vars(CallsOpen \/ OpenReturns \/ OpenFails \/ MainReads)

-------------------------------------------------------------------------------
(* Every variable has its type.                                            *)
TypeOK == /\ client \in [Client -> {"started", "opened", "written", "closed", "gone"}]
          /\ pipe \in Seq([of : Client, left : Nat \ {0}])
          /\ \A k \in 1 .. Len(pipe) : pipe[k].left <= Length(pipe[k].of)
          /\ main \in {"turn", "waiting", "reading", "enqueue", "exit"}
          /\ knock \in BOOLEAN
          /\ fds \in 0 .. MaxFds
          /\ buffer \in Client \cup {Nobody}
          /\ served \in SUBSET Client
          /\ turns \in Nat
          /\ crowded \in BOOLEAN

(* The pipe and the main loop may lose requests, but they serve none twice *)
(* and none before one that was written earlier, and no rest of a request  *)
(* that did not fit into the buffer is taken for a request.  Only the head *)
(* of the pipe can be such a rest.                                         *)
IsWhole(segment) == segment.left = Length(segment.of)
Whole == IF pipe # <<>> /\ ~ IsWhole(Head(pipe)) THEN Tail(pipe) ELSE pipe
Sent == {c \in Client : client[c] \in {"written", "closed"}}
Flight == (IF buffer = Nobody THEN <<>> ELSE <<buffer>>)
              \o [k \in 1 .. Len(Whole) |-> Whole[k].of]
Channel == INSTANCE LossyChannel WITH
               Message <- Client, sent <- Sent, flight <- Flight, received <- served
ChannelSpec == Channel!Init /\ [][Channel!Next]_<<Sent, Flight, served>>

(* The loop does not run by itself: every turn goes back to a client that  *)
(* opened the pipe or to one that wrote, however the ends of the pipe are  *)
(* opened and closed in between.  It is why the end of file does not keep  *)
(* the main loop busy, and what costs descriptors.                         *)
Started == {c \in Client : client[c] # "started"}
TurnsAreCaused == turns <= 2 * Cardinality(Started)

(* As long as no two requests are in the pipe at once, every client that   *)
(* is not stopped is served, although others open the pipe and go away     *)
(* without a word, or keep it open: unless main has no descriptor left, or *)
(* waits for ever for the workers, or for a client.  The last does happen: *)
(* open waits for a writer even if a request is in the pipe, written while *)
(* main was between two turns by a client that has closed its end since.   *)
LonelyRequestIsServed ==
    \A c \in Client :
        client[c] = "started" ~> \/ c \in served \/ client[c] = "gone"
                                 \/ crowded \/ fds = MaxFds
                                 \/ [](main \in {"enqueue", "waiting"})
===============================================================================
