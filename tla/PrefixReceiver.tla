--------------------------- MODULE PrefixReceiver ---------------------------
(***************************************************************************)
(* What a cumulative receiver promises: whatever segments arrive, in any   *)
(* order and any number of times, the ack is the end of the longest prefix *)
(* of the stream that is completely received.                              *)
(***************************************************************************)
EXTENDS Integers, FiniteSetsExt

CONSTANTS Segments,   \* number of segments of the stream
          Length      \* bytes of a segment

VARIABLES got,        \* numbers of the segments received so far
          ack         \* last byte of the received prefix

vars == <<got, ack>>

PrefixEnd(s) == Length * Max({k \in 0 .. Segments : 1 .. k \subseteq s})

Init == got = {} /\ ack = 0

Receive(k) ==
    /\ got' = got \cup {k}
    /\ ack' = PrefixEnd(got')

Next == \E k \in 1 .. Segments : Receive(k)

Spec == Init /\ [][Next]_vars
=============================================================================
