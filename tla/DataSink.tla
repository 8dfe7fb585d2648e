------------------------------ MODULE DataSink ------------------------------
(***************************************************************************)
(* DataSink::processDataPacket (datasink.cpp): the cumulative ack of a     *)
(* receiver and its list of out-of-order segments, fed with the segments   *)
(* of a stream in any order and with duplicates.  Every data packet of the *)
(* simulator has MSS_BYTES bytes, so the list keeps first bytes only.      *)
(***************************************************************************)
EXTENDS Integers, Sequences, SequencesExt

CONSTANTS MSS,        \* MSS_BYTES
          Segments    \* segments the source may send

SinkAssumption == MSS \in Nat \ {0} /\ Segments \in Nat

VARIABLES cumulative_ack,   \* _cumulative_ack
          received          \* _received, front first

vars == <<cumulative_ack, received>>

SeqNos == {(k - 1) * MSS + 1 : k \in 1 .. Segments}

----------------------------------------------------------------------------
\* Mutant: an "if" where the code has a "while".
PopsOne(c, list, k) == k = IF list # <<>> /\ list[1] = c + 1 THEN 1 ELSE 0

\* With the ack at c, the loop pops the first k entries of the list.
Pops(c, list, k) ==
    /\ \A j \in 1 .. k : list[j] = c + (j - 1) * MSS + 1
    /\ k < Len(list) => list[k + 1] # c + k * MSS + 1

\* The place of seqno in the list is at.
Place(list, seqno, at) ==
    /\ \A j \in 1 .. at - 1 : list[j] < seqno
    /\ at <= Len(list) => list[at] >= seqno

\* The list with seqno in its place, unless it is there already.
Inserted(list, seqno, at) ==
    IF at <= Len(list) /\ list[at] = seqno THEN list ELSE InsertAt(list, at, seqno)

ProcessDataPacket(seqno) ==
    \/ /\ seqno = cumulative_ack + 1
       /\ \E k \in 0 .. Len(received) :
             /\ Pops(seqno + MSS - 1, received, k)
             /\ cumulative_ack' = seqno + MSS - 1 + k * MSS
             /\ received' = SubSeq(received, k + 1, Len(received))
    \/ /\ seqno <= cumulative_ack
       /\ UNCHANGED vars
    \/ /\ seqno > cumulative_ack + 1
       /\ \E at \in 1 .. Len(received) + 1 :
             /\ Place(received, seqno, at)
             /\ received' = Inserted(received, seqno, at)
       /\ UNCHANGED cumulative_ack

Init == cumulative_ack = 0 /\ received = <<>>

Next == \E seqno \in SeqNos : ProcessDataPacket(seqno)

Spec == Init /\ [][Next]_vars

----------------------------------------------------------------------------
\* Segments, by number, that a sink with the given ack and list holds.
HeldBy(ack, list) ==
    {s \in 1 .. Segments :
        s * MSS <= ack \/ \E i \in 1 .. Len(list) : list[i] = (s - 1) * MSS + 1}

Held == HeldBy(cumulative_ack, received)

Receiver == INSTANCE PrefixReceiver
    WITH Length <- MSS, got <- Held, ack <- cumulative_ack

\* The list implements the cumulative receiver: whatever the order of arrival,
\* no segment is lost from the list, and the ack always covers the whole
\* received prefix (datasink.cpp:22-58).
ImplementsPrefixReceiver == Receiver!Spec
=============================================================================
