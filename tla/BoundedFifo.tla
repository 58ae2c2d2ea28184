----------------------------- MODULE BoundedFifo -----------------------------
(* What the request queue promises: elements leave in the order in which   *)
(* they came, each once, and there are never more than Capacity of them.   *)
EXTENDS Naturals, Sequences

CONSTANTS Consumer, Elem, Capacity,
          NoElem        \* what a consumer holds that has taken nothing yet

VARIABLES queue,        \* the elements that wait
          got           \* got[c]: what consumer c took last

vars == <<queue, got>>

Init == /\ queue = <<>>
        /\ got = [c \in Consumer |-> NoElem]

Put(e) == /\ Len(queue) < Capacity
          /\ queue' = Append(queue, e)
          /\ UNCHANGED got

Take(c) == /\ queue # <<>>
           /\ got' = [got EXCEPT ![c] = Head(queue)]
           /\ queue' = Tail(queue)

Next == \/ \E e \in Elem : Put(e)
        \/ \E c \in Consumer : Take(c)

Spec == Init /\ [][Next]_vars
==============================================================================
