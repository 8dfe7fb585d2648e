-------------------------------- MODULE Sums --------------------------------
(***************************************************************************)
(* Sums over the packets of a queue, as functions the provers can reason   *)
(* about.                                                                  *)
(***************************************************************************)
EXTENDS Integers, Sequences

Total(w) ==
    LET sum[i \in 0 .. Len(w)] == IF i = 0 THEN 0 ELSE sum[i - 1] + w[i]
    IN  sum[Len(w)]

\* Bytes of the packets of a queue.
SizeOf(queue) == Total([i \in 1 .. Len(queue) |-> queue[i].size])

\* Bytes of the packets that a flow has in a queue.
FlowBytes(queue, f) ==
    Total([i \in 1 .. Len(queue) |->
               IF queue[i].flow = f THEN queue[i].size ELSE 0])

\* Packets that a flow has in a queue.
FlowCount(queue, f) ==
    Total([i \in 1 .. Len(queue) |-> IF queue[i].flow = f THEN 1 ELSE 0])
=============================================================================
