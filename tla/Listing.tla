-------------------------------- MODULE Listing --------------------------------
(***************************************************************************)
(* The listing of boxes, from both ends of the manager's pipe:             *)
(* manager_list_box and manager_list_subs of mbroker/mbroker.c, and the    *)
(* loop of manager/manager.c that collects responses up to the one marked  *)
(* as the last.  Meanwhile other workers add and remove boxes.             *)
(*                                                                         *)
(* The broker holds box_table.mutex over the whole listing.  A response is *)
(* shorter than PIPE_BUF and is written and read whole; all of them fit in *)
(* the pipe, so that a write does not block.  The counters in a response   *)
(* are left out.  One manager lists at a time.                             *)
(***************************************************************************)
EXTENDS BoxTable, Sequences

CONSTANT ListStart   \* MANAGER_LIST_START_SIZE: 8

ASSUME ListingAssumption == ListStart \in Nat /\ ListStart > 1

VARIABLES mutex,          \* box_table.mutex
          next,           \* i: the slot the broker writes next
          pipe,           \* the responses in the manager's pipe
          manager,        \* what the manager does
          asked,          \* what it asked for
          list,           \* list[0 .. list_size-1]: the responses it has read
          list_capacity,  \* how many its array has room for
          snapshot        \* history: the names in the table when the listing began

listVars == <<mutex, next, pipe, manager, asked, list, list_capacity, snapshot>>
vars == <<tableVars, listVars>>

Response == [name : Name \cup {NoName}, last : {0, 1}]
(* The response of an empty table: an empty name, marked as the last.      *)
NoBoxes == [name |-> NoName, last |-> 1]

Init == /\ TableInit
        /\ mutex = "free"
        /\ next = 0
        /\ pipe = <<>>
        /\ manager = "idle"
        /\ asked = "nothing"
        /\ list = <<>>
        /\ list_capacity = ListStart
        /\ snapshot = <<>>

-------------------------------------------------------------------------------
(* The broker.                                                             *)

(* Other workers, with box_table.mutex.                                    *)
TableChanges == /\ mutex = "free"
                /\ TableNext
                /\ UNCHANGED listVars

(* The names in the table, slot by slot.                                   *)
NamesUpTo(k) ==
    LET f[i \in 0 .. size] ==
            IF i = 0 THEN <<>>
            ELSE IF boxes[i - 1] = NoBox THEN f[i - 1]
            ELSE Append(f[i - 1], name[boxes[i - 1]])
    IN  f[k]

Served(kind) == manager = "waiting" /\ asked = kind /\ mutex = "free"

(* An empty table is answered with a single response, to both questions.   *)
AnswerNoBoxes ==
    /\ Served("list") \/ Served("subs")
    /\ num_elem = 0
    /\ pipe' = Append(pipe, NoBoxes)
    /\ asked' = "nothing"
    /\ snapshot' = <<NoName>>
    /\ UNCHANGED <<tableVars, mutex, next, manager, list, list_capacity>>

ListBegins ==
    /\ Served("list")
    /\ num_elem # 0
    /\ mutex' = "listing"
    /\ next' = 0
    /\ asked' = "nothing"
    /\ snapshot' = NamesUpTo(size)
    /\ UNCHANGED <<tableVars, pipe, manager, list, list_capacity>>

ListSkips ==
    /\ mutex = "listing" /\ next < size
    /\ boxes[next] = NoBox
    /\ next' = next + 1
    /\ UNCHANGED <<tableVars, mutex, pipe, manager, asked, list, list_capacity,
                   snapshot>>

(* Mutant: the mark is set by the number of boxes, not by the slots.       *)
Last_ByCount(i) == IF i = num_elem - 1 THEN 1 ELSE 0
(* The mark of the response of slot i.                                     *)
Last(i) == IF i = size - 1 THEN 1 ELSE 0

ListWrites ==
    /\ mutex = "listing" /\ next < size
    /\ boxes[next] # NoBox
    /\ manager # "gone"
    /\ pipe' = Append(pipe, [name |-> name[boxes[next]], last |-> Last(next)])
    /\ next' = next + 1
    /\ UNCHANGED <<tableVars, mutex, manager, asked, list, list_capacity, snapshot>>

(* Mutant: the way out forgets box_table.mutex, as manager_list_subs does. *)
ListWriteFails_KeepsMutex ==
    /\ mutex = "listing" /\ next < size
    /\ boxes[next] # NoBox
    /\ manager = "gone"
    /\ mutex' = "leaked"
    /\ next' = 0
    /\ UNCHANGED <<tableVars, pipe, manager, asked, list, list_capacity, snapshot>>

(* Nobody reads any more: write fails (if SIGPIPE finds a handler, see     *)
(* BoxSession), and the listing is given up.                               *)
ListWriteFails ==
    /\ mutex = "listing" /\ next < size
    /\ boxes[next] # NoBox
    /\ manager = "gone"
    /\ mutex' = "free"
    /\ next' = 0
    /\ UNCHANGED <<tableVars, pipe, manager, asked, list, list_capacity, snapshot>>

(* The pipe stays open on the broker's side: the manager sees no end of    *)
(* file, whether or not a response was marked.                             *)
ListEnds ==
    /\ mutex = "listing" /\ next = size
    /\ mutex' = "free"
    /\ next' = 0
    /\ UNCHANGED <<tableVars, pipe, manager, asked, list, list_capacity, snapshot>>

(* manager_list_subs with boxes in the table: it returns without unlocking *)
(* and without an answer.                                                  *)
SubsLeaks ==
    /\ Served("subs")
    /\ num_elem # 0
    /\ mutex' = "leaked"
    /\ asked' = "nothing"
    /\ UNCHANGED <<tableVars, next, pipe, manager, list, list_capacity, snapshot>>

-------------------------------------------------------------------------------
(* The manager.                                                            *)

ManagerAsks(kind) ==
    /\ manager = "idle"
    /\ manager' = "waiting"
    /\ asked' = kind
    /\ UNCHANGED <<tableVars, mutex, next, pipe, list, list_capacity, snapshot>>

(* Mutant: the array grows when it is full, after it was written.          *)
NewListCapacity_Late ==
    IF list # <<>> /\ Len(list) = list_capacity THEN 2 * list_capacity
    ELSE list_capacity
(* The array is doubled after its last entry but one is counted, in every  *)
(* turn of the loop but the first.                                         *)
NewListCapacity ==
    IF list # <<>> /\ Len(list) = list_capacity - 1 THEN 2 * list_capacity
    ELSE list_capacity

ManagerReads ==
    /\ manager \in {"waiting", "reading"}
    /\ pipe # <<>>
    /\ list' = Append(list, Head(pipe))
    /\ list_capacity' = NewListCapacity
    /\ manager' = IF Head(pipe).last = 1 THEN "done" ELSE "reading"
    /\ pipe' = Tail(pipe)
    /\ UNCHANGED <<tableVars, mutex, next, asked, snapshot>>

(* The user stops a manager that waits.                                    *)
ManagerStopped ==
    /\ manager \in {"waiting", "reading"}
    /\ manager' = "gone"
    /\ asked' = "nothing"
    /\ UNCHANGED <<tableVars, mutex, next, pipe, list, list_capacity, snapshot>>

(* Another manager with a pipe of its own.                                 *)
ManagerStarts ==
    /\ manager \in {"done", "gone"}
    /\ mutex # "listing"
    /\ manager' = "idle"
    /\ pipe' = <<>>
    /\ list' = <<>>
    /\ list_capacity' = ListStart
    /\ snapshot' = <<>>
    /\ UNCHANGED <<tableVars, mutex, next, asked>>

-------------------------------------------------------------------------------
BrokerLists == \/ AnswerNoBoxes \/ ListBegins \/ ListSkips \/ ListWrites
               \/ ListWriteFails \/ ListEnds \/ SubsLeaks

Next == \/ TableChanges
        \/ BrokerLists
        \/ \E kind \in {"list", "subs"} : ManagerAsks(kind)
        \/ ManagerReads \/ ManagerStopped \/ ManagerStarts

Spec == Init /\ [][Next]_vars

(* A worker in the loop of the listing goes on, and a manager that is      *)
(* there reads what comes.                                                 *)
FairSpec == Spec /\ WF_vars(ListSkips \/ ListWrites \/ ListWriteFails \/ ListEnds)
                 /\ WF_vars(ManagerReads)

-------------------------------------------------------------------------------
(* Every variable has its type.                                            *)
TypeOK == /\ TableTypeOK
          /\ mutex \in {"free", "listing", "leaked"}
          /\ next \in 0 .. size
          /\ pipe \in Seq(Response)
          /\ manager \in {"idle", "waiting", "reading", "done", "gone"}
          /\ asked \in {"nothing", "list", "subs"}
          /\ list \in Seq(Response)
          /\ list_capacity \in Nat
          /\ snapshot \in Seq(Name \cup {NoName})

NamesIn(responses) == [k \in 1 .. Len(responses) |-> responses[k].name]

(* What the manager prints once it has seen the mark is what the table     *)
(* held at one moment, each box once: not a part of it, although boxes are *)
(* added and removed before and after, and although the mark is computed   *)
(* from the slots.  If the mark does not come, it prints nothing.          *)
ListingTells == manager = "done" => NamesIn(list) = snapshot

(* The manager's array has room for the response it reads next: the test   *)
(* for growth comes after an entry is stored and before it is counted, and *)
(* not at all in the first turn.                                           *)
ListFits == manager = "reading" => Len(list) < list_capacity

(* A listing of a table whose last slot is in use is read to its end, by a *)
(* manager that is not stopped.                                            *)
ListingEnds ==
    (mutex = "listing" /\ boxes[size - 1] # NoBox) ~> manager \in {"done", "gone"}

(* No listing keeps the table locked, not even if the manager goes away in *)
(* the middle of it.                                                       *)
ListingUnlocks == mutex = "listing" ~> mutex = "free"
===============================================================================
