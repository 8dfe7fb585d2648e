----------------------------- MODULE MCTestbed -----------------------------
(***************************************************************************)
(* A short simulation on small networks: arrivals, finishes, samples and   *)
(* the stop event meet on the same times, and one end time comes before    *)
(* the stop event, as in the CONGA testbed.  The traces have a flow at the *)
(* stop time and one after it.                                             *)
(***************************************************************************)
EXTENDS Testbed

MCTraces ==
    {<<[at |-> 0, size |-> 1], [at |-> 1, size |-> 2], [at |-> 4, size |-> 3]>>,
     <<[at |-> 1, size |-> 2], [at |-> 3, size |-> 1], [at |-> 4, size |-> 2]>>,
     <<[at |-> 2, size |-> 2], [at |-> 2, size |-> 1], [at |-> 4, size |-> 3]>>}

MCFlowHash == [p \in Servers \X Servers |-> 3 * p[1] + p[2]]
=============================================================================
