------------------------------- MODULE BoxFeed -------------------------------
(***************************************************************************)
(* What one message box promises: a log of messages that only grows, and   *)
(* for every subscriber session a feed that is handed the log from its     *)
(* beginning, in order, without a gap and without a repeat.  Nothing of    *)
(* locks, file offsets, handles or counters is visible here.               *)
(***************************************************************************)
EXTENDS Naturals, Sequences

CONSTANTS Worker,       \* the sessions: one per worker thread
          Message,      \* the contents of messages
          BoxCapacity   \* how many messages the box stores

VARIABLES log,          \* the messages stored in the box
          feed          \* feed[w]: what session w has been handed so far

vars == <<log, feed>>

Init == /\ log = <<>>
        /\ feed = [w \in Worker |-> <<>>]

(* A message is stored behind all the others; a full box takes no more.    *)
Publish(m) == /\ Len(log) < BoxCapacity
              /\ log' = Append(log, m)
              /\ UNCHANGED feed

(* A session is handed the first message of the log it has not had yet.    *)
Deliver(w) == /\ Len(feed[w]) < Len(log)
              /\ feed' = [feed EXCEPT ![w] = Append(@, log[Len(@) + 1])]
              /\ UNCHANGED log

(* A session ends; the next one of the same worker starts from nothing.    *)
Leave(w) == /\ feed' = [feed EXCEPT ![w] = <<>>]
            /\ UNCHANGED log

Next == \/ \E m \in Message : Publish(m)
        \/ \E w \in Worker : Deliver(w) \/ Leave(w)

Spec == Init /\ [][Next]_vars
==============================================================================
