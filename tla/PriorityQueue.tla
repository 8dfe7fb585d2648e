---------------------------- MODULE PriorityQueue ----------------------------
(***************************************************************************)
(* PriorityQueue (priorityqueue.cpp, .h): packets are sent in the order of *)
(* their priority and dropped from the other end when the buffer is full.  *)
(* A service in progress is a pending event, which may fall between any    *)
(* two arrivals.                                                           *)
(***************************************************************************)
EXTENDS Sums, SequencesExt

CONSTANTS
    Priorities,    \* values of Packet::_priority, the lowest is sent first
    Sizes,         \* bytes a packet may have
    MaxSize,       \* _maxsize
    ZeroedMemory,  \* the allocator hands out zeroed memory
    Packets        \* bound: packets that arrive

PriorityAssumption ==
    /\ Priorities \subseteq Nat /\ Sizes \subseteq Nat \ {0}
    /\ \A s \in Sizes : s <= MaxSize
    /\ ZeroedMemory \in BOOLEAN /\ Packets \in Nat

VARIABLES
    packets,       \* _packets, in the order of the multiset
    currentPkt,    \* _currentPkt
    pending,       \* the packet whose completion event is scheduled
    queuesize,     \* _queuesize
    arrived,       \* packets that have arrived
    lost,          \* identities of the packets dropped
    served         \* identities of the packets sent

vars == <<packets, currentPkt, pending, queuesize, arrived, lost, served>>

\* The null pointer, and what a pointer never assigned may hold instead.
Null == [id |-> 0, size |-> 0, priority |-> 0]
Garbage == [id |-> -1, size |-> 0, priority |-> 0]

\* Mutant: the most urgent packets are at the other end.
LeastUrgentFirst(queue, p) ==
    LET at == SelectInSeq(queue, LAMBDA q : q.priority < p.priority) IN
    InsertAt(queue, IF at = 0 THEN Len(queue) + 1 ELSE at, p)

\* multiset::insert: behind the packets of the same priority.
Insert(queue, p) ==
    LET at == SelectInSeq(queue, LAMBDA q : q.priority > p.priority) IN
    InsertAt(queue, IF at = 0 THEN Len(queue) + 1 ELSE at, p)

\* How many packets are left when the others have been dropped from the end.
Kept(queue, used) ==
    CHOOSE k \in 0 .. Len(queue) :
        /\ used + SizeOf(SubSeq(queue, 1, k)) <= MaxSize
        /\ \A j \in k + 1 .. Len(queue) :
               used + SizeOf(SubSeq(queue, 1, j)) > MaxSize

BeginService(queue) ==
    IF queue = <<>>
    THEN currentPkt' = Null /\ pending' = 0 /\ packets' = queue
    ELSE /\ currentPkt' = Head(queue)
         /\ pending' = Head(queue).id
         /\ packets' = Tail(queue)

CompleteService ==
    /\ pending # 0
    /\ served' = served \cup {currentPkt.id}
    /\ queuesize' = queuesize - currentPkt.size
    /\ BeginService(packets)
    /\ UNCHANGED <<arrived, lost>>

\* A packet that may arrive now.
Arriving(size, priority) ==
    [id |-> arrived + 1, size |-> size, priority |-> priority]

\* p is put in its place, packets are dropped from the end of the queue until
\* the buffer holds the rest, and an idle queue begins to serve.
Enters(p) ==
    LET queue == Insert(packets, p)
        used  == queuesize - SizeOf(packets)
        k     == Kept(queue, used)
        kept  == SubSeq(queue, 1, k)
    IN  /\ queuesize' = used + SizeOf(kept)
        /\ lost' = lost \cup {queue[i].id : i \in k + 1 .. Len(queue)}
        /\ IF currentPkt = Null /\ packets = <<>> THEN BeginService(kept)
           ELSE packets' = kept /\ UNCHANGED <<currentPkt, pending>>

ReceivePacket ==
    /\ arrived < Packets
    /\ arrived' = arrived + 1
    /\ \E size \in Sizes, priority \in Priorities : Enters(Arriving(size, priority))
    /\ UNCHANGED served

\* The constructor does not assign _currentPkt.
Init ==
    /\ packets = <<>>
    /\ currentPkt \in IF ZeroedMemory THEN {Null} ELSE {Null, Garbage}
    /\ pending = 0
    /\ queuesize = 0
    /\ arrived = 0
    /\ lost = {}
    /\ served = {}

Next == ReceivePacket \/ CompleteService

Spec == Init /\ [][Next]_vars

----------------------------------------------------------------------------
\* Of the packets waiting and the one that arrives, one is dropped only when
\* everything that keeps waiting is at least as urgent
\* (priorityqueue.cpp:73-83).
LeastUrgentGoes ==
    \A size \in Sizes, priority \in Priorities :
        LET p == Arriving(size, priority) IN
        Enters(p) =>
            \A q \in {packets[i] : i \in 1 .. Len(packets)} \cup {p} :
                q.id \in lost' => \A j \in 1 .. Len(packets') :
                                      packets'[j].priority <= q.priority

\* What the buffer holds, the packet being sent included.
Held == {packets[i].id : i \in 1 .. Len(packets)}
            \cup (IF pending = 0 THEN {} ELSE {pending})
=============================================================================
