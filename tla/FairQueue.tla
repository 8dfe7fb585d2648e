------------------------------ MODULE FairQueue ------------------------------
(***************************************************************************)
(* FairQueue (fairqueue.cpp, .h) in LAZY mode, the only mode a constructor *)
(* sets: each packet gets the round in which a byte-by-byte round robin    *)
(* would finish it, packets are sent in the order of their rounds, and     *)
(* dropped from the end of that order when the buffer is full.             *)
(***************************************************************************)
EXTENDS Sums, SequencesExt, Functions

CONSTANTS
    Flows,         \* flows through the queue
    Sizes,         \* bytes a packet may have
    MaxSize,       \* _maxsize
    ZeroedMemory,  \* the allocator hands out zeroed memory
    Packets        \* bound: packets that arrive

FairAssumption ==
    /\ Sizes \subseteq Nat \ {0}
    /\ \A s \in Sizes : s <= MaxSize
    /\ \E s \in Sizes : \A t \in Sizes : t <= s
    /\ ZeroedMemory \in BOOLEAN /\ Packets \in Nat

VARIABLES
    packets,       \* _packets, in the order of the multiset
    flowRound,     \* _flowRound, defined for the flows that have packets
    nPackets,      \* _nPackets, of every flow; 0 where the map has no entry
    nActiveFlows,  \* _nActiveFlows
    roundNumber,   \* _roundNumber
    currentPkt,    \* _currentPkt
    pending,       \* the packet whose completion event is scheduled
    queuesize,     \* _queuesize
    arrived,       \* packets that have arrived
    lost,          \* identities of the packets dropped
    served,        \* identities of the packets sent
    lead           \* history: bytes f was sent more than g while both wait

flowState == <<flowRound, nPackets, nActiveFlows, roundNumber>>
vars == <<packets, flowState, currentPkt, pending, queuesize, arrived, lost,
          served, lead>>

\* The null pointer, and what a pointer never assigned may hold instead.
Null == [id |-> 0, flow |-> 0, size |-> 0, round |-> 0]
Garbage == [Null EXCEPT !.id = -1]

\* Places for p: in the order of rounds.  Packet::id, which breaks ties, is a
\* sequence number of the flow, so packets of two flows tie either way.
Places(queue, p) ==
    {i \in 1 .. Len(queue) + 1 :
        /\ \A j \in 1 .. i - 1 : queue[j].round <= p.round
        /\ \A j \in i .. Len(queue) : queue[j].round >= p.round}

\* How many packets are left when the others have been dropped from the end.
Kept(queue, used) ==
    CHOOSE k \in 0 .. Len(queue) :
        /\ used + SizeOf(SubSeq(queue, 1, k)) <= MaxSize
        /\ \A j \in k + 1 .. Len(queue) :
               used + SizeOf(SubSeq(queue, 1, j)) > MaxSize

\* The round that finishes a packet arriving now.
FinishRound(f, size) ==
    IF f \in DOMAIN flowRound /\ flowRound[f] > roundNumber
    THEN flowRound[f] + size
    ELSE roundNumber + size

\* Mutant: the bytes of a dropped packet stay charged to its flow.
KeepsCharge(rounds, dropped) ==
    Restrict(rounds, {f \in DOMAIN rounds : nPackets'[f] > 0})

\* What is left of _flowRound when packets have been dropped.
Uncharged(rounds, dropped) ==
    [f \in {g \in DOMAIN rounds : nPackets'[g] > 0} |->
        rounds[f] - FlowBytes(dropped, f)]

BeginService(queue) ==
    IF queue = <<>>
    THEN /\ currentPkt' = Null /\ pending' = 0
         /\ packets' = queue /\ UNCHANGED roundNumber
    ELSE /\ roundNumber' = Head(queue).round
         /\ currentPkt' = Head(queue)
         /\ pending' = Head(queue).id
         /\ packets' = Tail(queue)

CompleteService ==
    /\ pending # 0
    /\ LET f == currentPkt.flow IN
       /\ nPackets' = [nPackets EXCEPT ![f] = @ - 1]
       /\ flowRound' = IF nPackets[f] = 1
                       THEN Restrict(flowRound, DOMAIN flowRound \ {f})
                       ELSE flowRound
       /\ lead' = [fg \in Flows \X Flows |->
                      IF \/ nPackets'[fg[1]] = 0 \/ nPackets'[fg[2]] = 0
                         \/ fg[1] = fg[2]
                      THEN 0
                      ELSE CASE fg[1] = f -> lead[fg] + currentPkt.size
                             [] fg[2] = f -> lead[fg] - currentPkt.size
                             [] OTHER     -> lead[fg]]
    /\ served' = served \cup {currentPkt.id}
    /\ queuesize' = queuesize - currentPkt.size
    /\ BeginService(packets)
    /\ UNCHANGED <<nActiveFlows, arrived, lost>>

ReceivePacket ==
    /\ arrived < Packets
    /\ arrived' = arrived + 1
    /\ \E f \in Flows, size \in Sizes :
          LET p == [id |-> arrived', flow |-> f, size |-> size,
                    round |-> FinishRound(f, size)] IN
          \E i \in Places(packets, p) :
             LET queue   == InsertAt(packets, i, p)
                 used    == queuesize - SizeOf(packets)
                 k       == Kept(queue, used)
                 kept    == SubSeq(queue, 1, k)
                 dropped == SubSeq(queue, k + 1, Len(queue))
                 rounds  == [g \in DOMAIN flowRound \cup {f} |->
                                IF g = f THEN p.round ELSE flowRound[g]]
             IN  /\ nPackets' = [g \in Flows |->
                        nPackets[g] + (IF g = f THEN 1 ELSE 0)
                                    - FlowCount(dropped, g)]
                 /\ flowRound' = Uncharged(rounds, dropped)
                 /\ nActiveFlows' = nActiveFlows
                        + Cardinality(DOMAIN rounds \ DOMAIN flowRound)
                        - Cardinality(DOMAIN rounds \ DOMAIN flowRound')
                 /\ queuesize' = used + SizeOf(kept)
                 /\ lost' = lost \cup {dropped[j].id : j \in 1 .. Len(dropped)}
                 /\ lead' = [fg \in Flows \X Flows |->
                        IF nPackets'[fg[1]] = 0 \/ nPackets'[fg[2]] = 0 THEN 0
                        ELSE lead[fg]]
                 /\ IF currentPkt = Null /\ packets = <<>>
                    THEN BeginService(kept)
                    ELSE /\ packets' = kept
                         /\ UNCHANGED <<currentPkt, pending, roundNumber>>
    /\ UNCHANGED served

\* The constructor does not assign _currentPkt.
Init ==
    /\ packets = <<>>
    /\ flowRound = <<>>
    /\ nPackets = [f \in Flows |-> 0]
    /\ nActiveFlows = 0
    /\ roundNumber = 0
    /\ currentPkt \in IF ZeroedMemory THEN {Null} ELSE {Null, Garbage}
    /\ pending = 0
    /\ queuesize = 0
    /\ arrived = 0
    /\ lost = {}
    /\ served = {}
    /\ lead = [fg \in Flows \X Flows |-> 0]

Next == ReceivePacket \/ CompleteService

Spec == Init /\ [][Next]_vars

----------------------------------------------------------------------------
MaxPacket == CHOOSE s \in Sizes : \A t \in Sizes : t <= s

\* The rounds of the waiting packets are not behind the round number, the
\* packets of a flow leave in the order they came, and what flow state there
\* is belongs to a flow with packets (fairqueue.cpp:93-110, 125-135).
RoundsInOrder ==
    /\ DOMAIN flowRound = {f \in Flows : nPackets[f] > 0}
    /\ \A i, j \in 1 .. Len(packets) :
          /\ roundNumber <= packets[i].round
          /\ packets[i].round <= flowRound[packets[i].flow]
          /\ i < j /\ packets[i].flow = packets[j].flow
                => packets[i].id < packets[j].id

\* Fairness: while two flows both have packets in the queue neither is sent
\* more than two packets' worth of bytes ahead of the other, whatever is
\* dropped meanwhile.
FairShare == \A fg \in Flows \X Flows : lead[fg] <= 2 * MaxPacket

\* A flow is charged for the packets it has in the queue and no others: the
\* bytes of a dropped packet do not delay the flow's next one
\* (fairqueue.cpp:127-135).
DropsAreNotCharged ==
    \A f \in DOMAIN flowRound :
        \/ flowRound[f] <= roundNumber
        \/ \E i \in 1 .. Len(packets) :
              packets[i].flow = f /\ packets[i].round = flowRound[f]

Held == {packets[i].id : i \in 1 .. Len(packets)}
            \cup (IF pending = 0 THEN {} ELSE {pending})
=============================================================================
