----------------------------- MODULE LossyChannel -----------------------------
(***************************************************************************)
(* A channel that may lose messages, and neither repeats nor reorders them *)
(* nor makes any up.                                                       *)
(***************************************************************************)
EXTENDS Naturals, Sequences

CONSTANT Message
VARIABLES sent,       \* the messages sent so far
          flight,     \* those on their way
          received    \* those that have arrived

Init == sent = {} /\ flight = <<>> /\ received = {}

Send(m) == /\ m \notin sent
           /\ sent' = sent \cup {m}
           /\ flight' = Append(flight, m)
           /\ UNCHANGED received

Receive == /\ flight # <<>>
           /\ received' = received \cup {Head(flight)}
           /\ flight' = Tail(flight)
           /\ UNCHANGED sent

(* What is left of s, in its order: the at[i]-th element comes i-th.       *)
LeftOf(s, t) == \E at \in [1 .. Len(t) -> 1 .. Len(s)] :
                    /\ \A i, j \in 1 .. Len(t) : i < j => at[i] < at[j]
                    /\ \A i \in 1 .. Len(t) : t[i] = s[at[i]]

Lose == /\ LeftOf(flight, flight')
        /\ UNCHANGED <<sent, received>>

Next == \/ \E m \in Message : Send(m)
        \/ Receive
        \/ Lose
===============================================================================
