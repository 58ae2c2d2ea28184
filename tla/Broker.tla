-------------------------------- MODULE Broker --------------------------------
(***************************************************************************)
(* The requests of the broker that meet in the table of boxes and in the   *)
(* file system: manager_create_box, manager_remove_box and the beginning   *)
(* and end of publisher_register and subscriber_register, of               *)
(* mbroker/mbroker.c, run by concurrent workers.                           *)
(*                                                                         *)
(* A request is a sequence of calls that lock box_table.mutex, box->mutex  *)
(* or g_library_mutex one after the other; each call is one step.          *)
(* box_find is two: it reads the slot it found once more after it has      *)
(* unlocked the table.  What a session does in between, while it runs, is  *)
(* BoxSession; here it is a worker that may use its box at any time.  The  *)
(* answers to managers are the ends of the requests: CheckActive is the    *)
(* only one without.                                                       *)
(*                                                                         *)
(* A use of freed memory, a box or an array of the table, may do anything. *)
(* The model ends there: what it says of a broker holds up to that moment, *)
(* and UsesNoFreed says when it may come.                                  *)
(***************************************************************************)
EXTENDS BoxTable

CONSTANTS Worker,         \* the worker threads
          MaxFiles,       \* max_inode_count, less the root directory: 63
          MaxOpenFiles,   \* max_open_files_count: 16
          MaxSubNum       \* BOUND on sub_num, which leaked registrations grow

ASSUME BrokerAssumption ==
    /\ MaxFiles \in Nat /\ MaxOpenFiles \in Nat /\ MaxSubNum \in Nat
    /\ IsFiniteSet(Box)

VARIABLES
    pc,        \* pc[w]: what worker w does next
    kind,      \* kind[w]: its request, buffer[0]
    want,      \* want[w]: the name in it
    at,        \* at[w]: the slot in which box_find found the name
    seen,      \* seen[w]: the length of the array it searched
    ptr,       \* ptr[w]: the box box_find returned
    fd,        \* fd[w]: the inode of the handle the request holds
    file,      \* file[n]: the inode of the file of name n
    handles,   \* how many entries of the open file table are taken
    pub_num,   \* pub_num[b], sub_num[b]: the counters of box b
    sub_num,
    raced,     \* history: two requests for one name have met, see Conflict
    status     \* which freed memory was used, if any was

requestVars == <<pc, kind, want, at, seen, ptr, fd>>
fileVars == <<file, handles>>
countVars == <<pub_num, sub_num>>
vars == <<tableVars, requestVars, fileVars, countVars, raced, status>>

Kind == {"create", "remove", "pub", "sub"}
Manager == {"create", "remove"}
Label == {"idle", "find", "fetch",
          "open_new", "close_new", "add",
          "check", "unlink", "drop",
          "count", "open", "session", "close"}

NoFile == 0        \* the inode of the root, which is no file of a box
Inum == 1 .. MaxFiles
NoSlot == 0        \* the value of an index that is not in use

Init == /\ TableInit
        /\ pc = [w \in Worker |-> "idle"]
        /\ kind = [w \in Worker |-> "create"]
        /\ want = [w \in Worker |-> NoName]
        /\ at = [w \in Worker |-> NoSlot]
        /\ seen = [w \in Worker |-> NoSlot]
        /\ ptr = [w \in Worker |-> NoBox]
        /\ fd = [w \in Worker |-> NoFile]
        /\ file = [n \in Name |-> NoFile]
        /\ handles = 0
        /\ pub_num = [b \in Box |-> 0]
        /\ sub_num = [b \in Box |-> 0]
        /\ raced = FALSE
        /\ status = "running"

Goto(w, label) == pc' = [pc EXCEPT ![w] = label]
Stay == UNCHANGED <<raced, status>>

(* The worker takes its next request; its locals are gone.                 *)
End(w) == /\ Goto(w, "idle")
          /\ kind' = [kind EXCEPT ![w] = "create"]
          /\ want' = [want EXCEPT ![w] = NoName]
          /\ at' = [at EXCEPT ![w] = NoSlot]
          /\ seen' = [seen EXCEPT ![w] = NoSlot]
          /\ ptr' = [ptr EXCEPT ![w] = NoBox]
          /\ fd' = [fd EXCEPT ![w] = NoFile]

(* A request that looks its box up, registers or changes the table, as     *)
(* opposed to a session that runs.                                         *)
Pending(n) == {v \in Worker : want[v] = n /\ pc[v] \notin {"idle", "session", "close"}}
(* A request k for name n meets another for the same name, and one of them *)
(* is a creation or a removal.                                             *)
Conflict(k, n) == \E v \in Pending(n) : k \in Manager \/ kind[v] \in Manager

(* BOUND: how many sessions and boxes may come of the requests accepted.   *)
Coming(k) == Cardinality({v \in Worker : kind[v] = k /\ pc[v] \notin {"idle", "session"}})
Bounded(k) == /\ k = "sub" => \A b \in Box : sub_num[b] + Coming("sub") < MaxSubNum
              /\ k = "create" => num_elem + Coming("create") < Cardinality(Box)

Arrive(w, k, n) ==
    /\ pc[w] = "idle"
    /\ Bounded(k)
    /\ kind' = [kind EXCEPT ![w] = k]
    /\ want' = [want EXCEPT ![w] = n]
    /\ Goto(w, "find")
    /\ raced' = (raced \/ Conflict(k, n))
    /\ UNCHANGED <<tableVars, at, seen, ptr, fd, fileVars, countVars, status>>

-------------------------------------------------------------------------------
(* box_find.                                                               *)

FindHit(w) ==
    /\ pc[w] = "find"
    /\ \E i \in SlotsOf(want[w]) :
          /\ IsFirst(i, SlotsOf(want[w]))
          /\ at' = [at EXCEPT ![w] = i]
    /\ seen' = [seen EXCEPT ![w] = capacity]
    /\ Goto(w, "fetch")
    /\ Stay
    /\ UNCHANGED <<tableVars, kind, want, ptr, fd, fileVars, countVars>>

(* box_find returns NULL: good for a creation, the end of any other.       *)
Missing(w) == IF kind[w] = "create"
              THEN Goto(w, "open_new") /\ UNCHANGED <<kind, want, at, seen, ptr, fd>>
              ELSE End(w)

FindMiss(w) ==
    /\ pc[w] = "find"
    /\ SlotsOf(want[w]) = {}
    /\ Missing(w)
    /\ Stay
    /\ UNCHANGED <<tableVars, fileVars, countVars>>

(* return box_table->boxes[i], without the mutex: whatever is there now.   *)
(* If the array has moved since, this is the case in which the address of  *)
(* the new one is read, and FetchMoved the other.                          *)
FetchNothing(w) ==
    /\ pc[w] = "fetch"
    /\ boxes[at[w]] = NoBox
    /\ Missing(w)
    /\ Stay
    /\ UNCHANGED <<tableVars, fileVars, countVars>>

(* A creation is refused: there is a box of that name already.             *)
FetchTaken(w) ==
    /\ pc[w] = "fetch" /\ kind[w] = "create"
    /\ boxes[at[w]] # NoBox
    /\ End(w)
    /\ Stay
    /\ UNCHANGED <<tableVars, fileVars, countVars>>

FetchBox(w) ==
    /\ pc[w] = "fetch" /\ kind[w] # "create"
    /\ boxes[at[w]] # NoBox
    /\ ptr' = [ptr EXCEPT ![w] = boxes[at[w]]]
    /\ at' = [at EXCEPT ![w] = NoSlot]
    /\ seen' = [seen EXCEPT ![w] = NoSlot]
    /\ Goto(w, IF kind[w] = "remove" THEN "check" ELSE "count")
    /\ Stay
    /\ UNCHANGED <<tableVars, kind, want, fd, fileVars, countVars>>

(* The address of the array was read before box_add moved it: the slot is  *)
(* read from the array that realloc has freed.                             *)
FetchMoved(w) ==
    /\ pc[w] = "fetch"
    /\ seen[w] # capacity
    /\ status' = "freed_array"
    /\ UNCHANGED <<tableVars, requestVars, fileVars, countVars, raced>>

-------------------------------------------------------------------------------
(* manager_create_box, once there is no box of the name.                   *)

(* What tfs_open(name, TFS_O_CREAT) does to the files.                     *)
FreeInodes == Inum \ {file[n] : n \in Name}
MakeFile(n) ==
    \/ file[n] # NoFile /\ UNCHANGED file
    \/ /\ file[n] = NoFile
       /\ \E i \in FreeInodes : IsFirst(i, FreeInodes) /\ file' = [file EXCEPT ![n] = i]

OpenNew(w) ==
    /\ pc[w] = "open_new"
    /\ handles < MaxOpenFiles
    /\ MakeFile(want[w])
    /\ handles' = handles + 1
    /\ Goto(w, "close_new")
    /\ Stay
    /\ UNCHANGED <<tableVars, kind, want, at, seen, ptr, fd, countVars>>

(* No inode is left; or no handle, and then the file is made all the same. *)
OpenNewFails(w) ==
    /\ pc[w] = "open_new"
    /\ \/ file[want[w]] = NoFile /\ FreeInodes = {} /\ UNCHANGED file
       \/ handles = MaxOpenFiles /\ MakeFile(want[w])
    /\ End(w)
    /\ Stay
    /\ UNCHANGED <<tableVars, handles, countVars>>

CloseNew(w) ==
    /\ pc[w] = "close_new"
    /\ handles' = handles - 1
    /\ Goto(w, "add")
    /\ Stay
    /\ UNCHANGED <<tableVars, kind, want, at, seen, ptr, fd, file, countVars>>

(* box_add, and the answer to the manager.  The counters of a new box are  *)
(* 0, which is what BoxRemove below leaves for the next use of an address. *)
AddBox(w) ==
    /\ pc[w] = "add"
    /\ BoxAdd(want[w])
    /\ End(w)
    /\ Stay
    /\ UNCHANGED <<fileVars, countVars>>

-------------------------------------------------------------------------------
(* manager_remove_box, once it has the box.                                *)

Alive(b) == b \in Allocated

(* Mutant: only the publisher is looked for.                               *)
CheckIdle_PubOnly(w) ==
    /\ pc[w] = "check"
    /\ Alive(ptr[w])
    /\ pub_num[ptr[w]] = 0
    /\ Goto(w, "unlink")
    /\ Stay
    /\ UNCHANGED <<tableVars, kind, want, at, seen, ptr, fd, fileVars, countVars>>

(* The counters, under box->mutex, which is then released.                 *)
CheckIdle(w) ==
    /\ pc[w] = "check"
    /\ Alive(ptr[w])
    /\ pub_num[ptr[w]] = 0 /\ sub_num[ptr[w]] = 0
    /\ Goto(w, "unlink")
    /\ Stay
    /\ UNCHANGED <<tableVars, kind, want, at, seen, ptr, fd, fileVars, countVars>>

(* An active box is not removed; the manager gets no answer.               *)
CheckActive(w) ==
    /\ pc[w] = "check"
    /\ Alive(ptr[w])
    /\ pub_num[ptr[w]] > 0 \/ sub_num[ptr[w]] > 0
    /\ End(w)
    /\ Stay
    /\ UNCHANGED <<tableVars, fileVars, countVars>>

Unlink(w) ==
    /\ pc[w] = "unlink"
    /\ file[want[w]] # NoFile
    /\ file' = [file EXCEPT ![want[w]] = NoFile]
    /\ Goto(w, "drop")
    /\ Stay
    /\ UNCHANGED <<tableVars, kind, want, at, seen, ptr, fd, handles, countVars>>

(* Mutant: the box stays in the table without its file.                    *)
Drop_Forgotten(w) ==
    /\ pc[w] = "drop"
    /\ End(w)
    /\ Stay
    /\ UNCHANGED <<tableVars, fileVars, countVars>>

(* box_remove, by name, of whatever box has it now.                        *)
Drop(w) ==
    /\ pc[w] = "drop"
    /\ BoxRemove(want[w])
    /\ pub_num' = [b \in Box |-> IF name'[b] = NoName THEN 0 ELSE pub_num[b]]
    /\ sub_num' = [b \in Box |-> IF name'[b] = NoName THEN 0 ELSE sub_num[b]]
    /\ End(w)
    /\ Stay
    /\ UNCHANGED fileVars

(* Somebody else was faster: no such file, no such box.                    *)
RemoveFails(w) ==
    /\ \/ pc[w] = "unlink" /\ file[want[w]] = NoFile
       \/ pc[w] = "drop" /\ SlotsOf(want[w]) = {}
    /\ End(w)
    /\ Stay
    /\ UNCHANGED <<tableVars, fileVars, countVars>>

-------------------------------------------------------------------------------
(* The sessions.                                                           *)

(* Mutant: a box takes any number of publishers.                           *)
Count_AnyPublisher(w) ==
    LET b == ptr[w]
    IN  /\ pc[w] = "count"
        /\ Alive(b)
        /\ \/ kind[w] = "pub"
              /\ pub_num' = [pub_num EXCEPT ![b] = @ + 1] /\ UNCHANGED sub_num
           \/ kind[w] = "sub"
              /\ sub_num' = [sub_num EXCEPT ![b] = @ + 1] /\ UNCHANGED pub_num
        /\ Goto(w, "open")
        /\ Stay
        /\ UNCHANGED <<tableVars, kind, want, at, seen, ptr, fd, fileVars>>

(* Mutant: subscribers are not counted.                                    *)
Count_PubOnly(w) ==
    LET b == ptr[w]
    IN  /\ pc[w] = "count"
        /\ Alive(b)
        /\ \/ kind[w] = "pub" /\ pub_num[b] # 1
              /\ pub_num' = [pub_num EXCEPT ![b] = @ + 1]
           \/ kind[w] = "sub" /\ UNCHANGED pub_num
        /\ Goto(w, "open")
        /\ Stay
        /\ UNCHANGED <<tableVars, kind, want, at, seen, ptr, fd, fileVars, sub_num>>

(* The end of box_register_pub and box_register_sub.                       *)
Count(w) ==
    LET b == ptr[w]
    IN  /\ pc[w] = "count"
        /\ Alive(b)
        /\ \/ kind[w] = "pub" /\ pub_num[b] # 1
              /\ pub_num' = [pub_num EXCEPT ![b] = @ + 1] /\ UNCHANGED sub_num
           \/ kind[w] = "sub"
              /\ sub_num' = [sub_num EXCEPT ![b] = @ + 1] /\ UNCHANGED pub_num
        /\ Goto(w, "open")
        /\ Stay
        /\ UNCHANGED <<tableVars, kind, want, at, seen, ptr, fd, fileVars>>

SecondPublisher(w) ==
    /\ pc[w] = "count" /\ kind[w] = "pub"
    /\ Alive(ptr[w])
    /\ pub_num[ptr[w]] = 1
    /\ End(w)
    /\ Stay
    /\ UNCHANGED <<tableVars, fileVars, countVars>>

Open(w) ==
    /\ pc[w] = "open"
    /\ file[want[w]] # NoFile
    /\ handles < MaxOpenFiles
    /\ fd' = [fd EXCEPT ![w] = file[want[w]]]
    /\ handles' = handles + 1
    /\ Goto(w, "session")
    /\ Stay
    /\ UNCHANGED <<tableVars, kind, want, at, seen, ptr, file, countVars>>

(* The session is given up, and stays registered in its box.               *)
OpenFails(w) ==
    /\ pc[w] = "open"
    /\ file[want[w]] = NoFile \/ handles = MaxOpenFiles
    /\ End(w)
    /\ Stay
    /\ UNCHANGED <<tableVars, fileVars, countVars>>

(* box_unregister_pub; the file is closed afterwards.  If the counter is 0 *)
(* the handle stays open.                                                  *)
LeavePub(w) ==
    LET b == ptr[w]
    IN  /\ pc[w] = "session" /\ kind[w] = "pub"
        /\ Alive(b)
        /\ pub_num' = [pub_num EXCEPT ![b] = IF @ = 0 THEN 0 ELSE @ - 1]
        /\ \/ pub_num[b] = 0 /\ End(w)
           \/ /\ pub_num[b] > 0
              /\ Goto(w, "close")
              /\ UNCHANGED <<kind, want, at, seen, ptr, fd>>
        /\ Stay
        /\ UNCHANGED <<tableVars, fileVars, sub_num>>

Close(w) ==
    /\ pc[w] = "close"
    /\ handles' = handles - 1
    /\ End(w)
    /\ Stay
    /\ UNCHANGED <<tableVars, file, countVars>>

(* box_unregister_sub; the handle stays open.                              *)
LeaveSub(w) ==
    LET b == ptr[w]
    IN  /\ pc[w] = "session" /\ kind[w] = "sub"
        /\ Alive(b)
        /\ sub_num' = [sub_num EXCEPT ![b] = IF @ = 0 THEN 0 ELSE @ - 1]
        /\ End(w)
        /\ Stay
        /\ UNCHANGED <<tableVars, fileVars, pub_num>>

(* The other ends of a session close the file and leave it registered.     *)
SessionFails(w) ==
    /\ pc[w] = "session"
    /\ Alive(ptr[w])
    /\ handles' = handles - 1
    /\ End(w)
    /\ Stay
    /\ UNCHANGED <<tableVars, file, countVars>>

(* The box was freed under the request.                                    *)
UseFreed(w) ==
    /\ pc[w] \in {"check", "count", "session"}
    /\ ~Alive(ptr[w])
    /\ status' = "freed_box"
    /\ UNCHANGED <<tableVars, requestVars, fileVars, countVars, raced>>

-------------------------------------------------------------------------------
Running == status = "running"
Step(w) == \/ \E k \in Kind, n \in Name : Arrive(w, k, n)
           \/ FindHit(w) \/ FindMiss(w)
           \/ FetchNothing(w) \/ FetchTaken(w) \/ FetchBox(w)
           \/ OpenNew(w) \/ OpenNewFails(w) \/ CloseNew(w) \/ AddBox(w)
           \/ CheckIdle(w) \/ CheckActive(w) \/ Unlink(w) \/ Drop(w) \/ RemoveFails(w)
           \/ Count(w) \/ SecondPublisher(w) \/ Open(w) \/ OpenFails(w)
           \/ LeavePub(w) \/ Close(w) \/ LeaveSub(w) \/ SessionFails(w)

(* What the process does after a use of freed memory is not modelled.      *)
Lost == ~Running /\ UNCHANGED vars

Next == \/ Running /\ \E w \in Worker : Step(w) \/ UseFreed(w) \/ FetchMoved(w)
        \/ Lost

Spec == Init /\ [][Next]_vars

-------------------------------------------------------------------------------
(* Every variable has its type.                                            *)
TypeOK == /\ TableTypeOK
          /\ pc \in [Worker -> Label]
          /\ kind \in [Worker -> Kind]
          /\ want \in [Worker -> Name \cup {NoName}]
          /\ at \in [Worker -> 0 .. capacity - 1]
          /\ seen \in [Worker -> 0 .. capacity]
          /\ ptr \in [Worker -> Box \cup {NoBox}]
          /\ fd \in [Worker -> 0 .. MaxFiles]
          /\ file \in [Name -> 0 .. MaxFiles]
          /\ handles \in 0 .. MaxOpenFiles
          /\ pub_num \in [Box -> 0 .. 1]
          /\ sub_num \in [Box -> 0 .. MaxSubNum]
          /\ raced \in BOOLEAN
          /\ status \in {"running", "freed_box", "freed_array"}

(* No two requests for one name have met, and no freed memory was used.    *)
Calm == ~raced /\ Running

(* A box is used after it was freed only if two requests for one name have *)
(* met, although no request keeps the table locked from finding its box to *)
(* using it.  The array is read after it was freed only if the table was   *)
(* once as full as it is long at first: then a box_add for any name moves  *)
(* it while box_find looks at its slot a second time.                      *)
UsesNoFreed ==
    /\ status = "freed_box" => raced
    /\ status = "freed_array" => peak >= StartCapacity

(* While all is calm names are unique, and every box has its file, except  *)
(* while its removal is under way: whatever requests for other names do to *)
(* the same slots, inodes and handles, and whichever call of a request     *)
(* fails.                                                                  *)
NamesHaveFiles ==
    Calm => \A i \in Filled :
                LET n == name[boxes[i]]
                IN  /\ SlotsOf(n) = {i}
                    /\ file[n] # NoFile \/ \E w \in Worker : pc[w] = "drop" /\ want[w] = n

(* While all is calm a session works on the box and on the file of the     *)
(* name it asked for: box_find's second look at its slot, in an array that *)
(* may be a longer one by then, and the handle it opens after that, are    *)
(* not taken in by slots, addresses and inodes that are used again.        *)
SessionsInPlace ==
    Calm => \A w \in Worker :
        /\ pc[w] \in {"check", "count", "open", "session"} =>
              ptr[w] \in Allocated /\ name[ptr[w]] = want[w]
        /\ pc[w] = "session" => fd[w] = file[want[w]]

(* While all is calm the broker keeps its promise: a box is created once,  *)
(* sessions join boxes that exist, and no box is removed while a session   *)
(* is in it.                                                               *)
Exists == {name[boxes[i]] : i \in Filled}
Uses == [w \in Worker |-> IF pc[w] \in {"open", "session"} THEN want[w] ELSE NoName]
Directory == INSTANCE BoxDirectory WITH Session <- Worker, exists <- Exists, uses <- Uses
DirectorySpec == Directory!Init /\ [][Calm => Directory!Next]_<<Exists, Uses>>

(* mbroker.c:166 says of a box with publishers or subscribers: "can't      *)
(* remove active boxes."                                                   *)
RemovesOnlyIdle ==
    [][\A b \in Allocated : name'[b] = NoName => pub_num[b] = 0 /\ sub_num[b] = 0]_vars
===============================================================================
