----------------------------- MODULE LossyFifo -----------------------------
(***************************************************************************)
(* What a route of drop-tail queues and pipes promises: packets leave it   *)
(* in the order they entered it, each at most once, and every packet is in *)
(* the route, lost or delivered.                                           *)
(***************************************************************************)
EXTENDS Integers, Sequences, SequencesExt

VARIABLES entered,     \* number of packets that have entered the route
          inside,      \* packets in the route, oldest first
          lost,        \* packets dropped in the route
          delivered    \* packets delivered, oldest first

vars == <<entered, inside, lost, delivered>>

Init == entered = 0 /\ inside = <<>> /\ lost = {} /\ delivered = <<>>

\* The next packet enters the route, or is dropped at its door.
Enter ==
    /\ entered' = entered + 1
    /\ \/ inside' = Append(inside, entered') /\ UNCHANGED lost
       \/ lost' = lost \cup {entered'} /\ UNCHANGED inside
    /\ UNCHANGED delivered

Drop ==
    /\ \E i \in 1 .. Len(inside) : /\ inside' = RemoveAt(inside, i)
                                   /\ lost' = lost \cup {inside[i]}
    /\ UNCHANGED <<entered, delivered>>

Deliver ==
    /\ inside # <<>>
    /\ delivered' = Append(delivered, Head(inside))
    /\ inside' = Tail(inside)
    /\ UNCHANGED <<entered, lost>>

Next == Enter \/ Drop \/ Deliver

Spec == Init /\ [][Next]_vars
=============================================================================
