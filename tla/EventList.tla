----------------------------- MODULE EventList -----------------------------
(***************************************************************************)
(* EventList (eventlist.cpp, eventlist.h): the simulator's queue of future *)
(* events, a multimap from time to event source kept as a sequence of      *)
(* [at, src] records in the order of the map.                              *)
(***************************************************************************)
EXTENDS Integers, Sequences, SequencesExt

\* multimap::insert: after the events of the same time.
Insert(pending, at, src) ==
    LET later == {i \in 1 .. Len(pending) : pending[i].at > at} IN
    InsertAt(pending, IF later = {} THEN Len(pending) + 1 ELSE Min(later),
             [at |-> at, src |-> src])

\* sourceIsPending: events after _endtime are not kept; 0 stands for no end.
SourceIsPending(pending, endtime, at, src) ==
    IF endtime = 0 \/ at <= endtime THEN Insert(pending, at, src) ELSE pending
=============================================================================
