----------------------------- MODULE MCScheduler -----------------------------
(***************************************************************************)
(* The sketch of the AprxFairQueue is small enough for flows to collide:   *)
(* flows 1 and 2 share a bucket of the first row, flows 2 and 3 one of the *)
(* second.                                                                 *)
(***************************************************************************)
EXTENDS Scheduler

MCHash == << [f \in AfqFlows |-> IF f = 3 THEN 1 ELSE 0],
             [f \in AfqFlows |-> IF f = 1 THEN 0 ELSE 1] >>
=============================================================================
