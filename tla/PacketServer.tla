---------------------------- MODULE PacketServer ----------------------------
(***************************************************************************)
(* What every queueing discipline of the simulator promises, whatever its  *)
(* order of service: a packet is held, lost or served, never two of these; *)
(* the link idles only when nothing is held; and the packet being sent     *)
(* stays the one being sent until it has left.                             *)
(***************************************************************************)
EXTENDS Integers

VARIABLES
    entered,    \* number of packets that have arrived
    held,       \* packets in the buffer, the one being sent included
    serving,    \* the packet being sent; 0 when the link is idle
    lost,       \* packets dropped
    served      \* packets sent

vars == <<entered, held, serving, lost, served>>

Init ==
    /\ entered = 0 /\ serving = 0
    /\ held = {} /\ lost = {} /\ served = {}

\* An idle link takes up any packet there is.
StartNext == IF held' = {} THEN serving' = 0 ELSE serving' \in held'

\* A packet arrives; waiting packets, or the arrival itself, may be dropped.
Arrive ==
    /\ entered' = entered + 1
    /\ \E drops \in SUBSET ((held \cup {entered'}) \ {serving}) :
          /\ held' = (held \cup {entered'}) \ drops
          /\ lost' = lost \cup drops
    /\ IF serving = 0 THEN StartNext ELSE UNCHANGED serving
    /\ UNCHANGED served

Depart ==
    /\ serving # 0
    /\ held' = held \ {serving}
    /\ served' = served \cup {serving}
    /\ StartNext
    /\ UNCHANGED <<entered, lost>>

Next == Arrive \/ Depart

Spec == Init /\ [][Next]_vars
=============================================================================
