------------------------------ MODULE BoxDirectory ------------------------------
(***************************************************************************)
(* What the broker promises about its boxes: names that managers create    *)
(* and remove and sessions use.  A box of a name that exists is not        *)
(* created again, and a box that is in use is not removed.                 *)
(***************************************************************************)
CONSTANTS Name, Session, NoName
VARIABLES exists,   \* the names of the boxes there are
          uses      \* uses[s]: the box that session s is registered in

Init == exists = {} /\ uses = [s \in Session |-> NoName]

Create(n) == /\ n \notin exists
             /\ exists' = exists \cup {n}
             /\ UNCHANGED uses

Remove(n) == /\ n \in exists
             /\ \A s \in Session : uses[s] # n
             /\ exists' = exists \ {n}
             /\ UNCHANGED uses

Join(s, n) == /\ n \in exists
              /\ uses[s] = NoName
              /\ uses' = [uses EXCEPT ![s] = n]
              /\ UNCHANGED exists

Leave(s) == /\ uses[s] # NoName
            /\ uses' = [uses EXCEPT ![s] = NoName]
            /\ UNCHANGED exists

Next == \/ \E n \in Name : \/ Create(n) \/ Remove(n)
                           \/ \E s \in Session : Join(s, n)
        \/ \E s \in Session : Leave(s)
===============================================================================
