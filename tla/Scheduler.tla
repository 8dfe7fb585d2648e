------------------------------ MODULE Scheduler ------------------------------
(***************************************************************************)
(* The queue of a link with the discipline an experiment has chosen for it *)
(* (test_single_link.cpp:68-77): PriorityQueue, FairQueue, StocFairQueue   *)
(* or AprxFairQueue.  The disciplines share the interface of Queue, hence  *)
(* the variables; what belongs to another discipline stays None.           *)
(***************************************************************************)
EXTENDS Integers, Sequences

CONSTANTS
    Priorities, Flows, Sizes, MaxSize,   \* the traffic and the buffer
    ZeroedMemory,                        \* see PriorityQueue
    SfqQueues, Quantum,                  \* StocFairQueue
    AfqFlows, NHash, NBucket, Hash,      \* AprxFairQueue
    AfqQueues, BytesPerRound, EcnMarkRound,
    PriorityPackets, FairPackets,        \* bounds: packets that arrive
    SfqPackets, AfqPackets

VARIABLES
    discipline,
    packets, pending, queuesize, arrived, lost, served,
    currentPkt,                                        \* PriorityQueue, FairQueue
    lead,                                              \* FairQueue, StocFairQueue
    flowRound, nPackets, nActiveFlows, roundNumber,    \* FairQueue
    credits, activeQ, isActive,                        \* StocFairQueue
    sketch, currQ, nRounds, marked, roundBytes         \* AprxFairQueue

fqOnly  == <<flowRound, nPackets, nActiveFlows, roundNumber>>
sfqOnly == <<credits, activeQ, isActive>>
afqOnly == <<sketch, currQ, nRounds, marked, roundBytes>>
vars == <<discipline, packets, pending, queuesize, arrived, lost, served,
          currentPkt, lead, fqOnly, sfqOnly, afqOnly>>

PQ  == INSTANCE PriorityQueue WITH Packets <- PriorityPackets
FQ  == INSTANCE FairQueue WITH Packets <- FairPackets
SFQ == INSTANCE StocFairQueue WITH Packets <- SfqPackets, NQueue <- SfqQueues
AFQ == INSTANCE AprxFairQueue
    WITH Packets <- AfqPackets, NQueue <- AfqQueues, Flows <- AfqFlows

ASSUME SchedulerAssumption ==
    /\ PQ!PriorityAssumption
    /\ FQ!FairAssumption
    /\ SFQ!StocAssumption
    /\ AFQ!AprxAssumption

None == 0

fqUnused == /\ flowRound = None /\ nPackets = None
            /\ nActiveFlows = None /\ roundNumber = None
sfqUnused == credits = None /\ activeQ = None /\ isActive = None
afqUnused == /\ sketch = None /\ currQ = None /\ nRounds = None
             /\ marked = None /\ roundBytes = None

Init ==
    \/ /\ discipline = "priority" /\ PQ!Init
       /\ lead = None /\ fqUnused /\ sfqUnused /\ afqUnused
    \/ /\ discipline = "fq" /\ FQ!Init
       /\ sfqUnused /\ afqUnused
    \/ /\ discipline = "sfq" /\ SFQ!Init
       /\ currentPkt = None /\ fqUnused /\ afqUnused
    \/ /\ discipline = "afq" /\ AFQ!Init
       /\ currentPkt = None /\ lead = None /\ fqUnused /\ sfqUnused

PriorityStep == /\ discipline = "priority" /\ PQ!Next
                /\ UNCHANGED <<discipline, lead, fqOnly, sfqOnly, afqOnly>>
FairStep     == /\ discipline = "fq" /\ FQ!Next
                /\ UNCHANGED <<discipline, sfqOnly, afqOnly>>
StocStep     == /\ discipline = "sfq" /\ SFQ!Next
                /\ UNCHANGED <<discipline, currentPkt, fqOnly, afqOnly>>
AprxStep     == /\ discipline = "afq" /\ AFQ!Next
                /\ UNCHANGED <<discipline, currentPkt, lead, fqOnly, sfqOnly>>

Next == PriorityStep \/ FairStep \/ StocStep \/ AprxStep

Spec == Init /\ [][Next]_vars

----------------------------------------------------------------------------
\* Of a full PriorityQueue the least urgent packets go, so an urgent packet
\* never loses its place to a less urgent one (priorityqueue.cpp:73-83).
DropsTheLeastUrgent ==
    [][discipline = "priority" => PQ!LeastUrgentGoes]_vars

\* While two flows of a FairQueue, or two queues of a StocFairQueue, both have
\* packets, neither is sent more than two packets, and a quantum, ahead of
\* the other, whatever is dropped meanwhile; a round of an AprxFairQueue gives
\* a flow less than BytesPerRound bytes and one packet
\* (fairqueue.cpp:93-110, stoc-fairqueue.cpp:26-38, aprx-fairqueue.cpp:104-128).
FairShare ==
    /\ discipline = "fq"  => FQ!FairShare
    /\ discipline = "sfq" => SFQ!FairShare
    /\ discipline = "afq" => AFQ!RoundShare

\* A flow of a FairQueue is charged for the packets it has in the queue and no
\* others: the bytes of a dropped packet do not delay the flow's next one
\* (fairqueue.cpp:127-135).
DropsAreNotCharged == discipline = "fq" => FQ!DropsAreNotCharged

\* The list of active queues of a StocFairQueue names each queue that has
\* packets once and no other (stoc-fairqueue.cpp:26-38, 58-62, 104-108).
ActiveListExact == discipline = "sfq" => SFQ!ActiveListExact

\* The unsigned credit of the queue being served covers its packet, and no
\* queue saves up more than a packet and a quantum (stoc-fairqueue.cpp:29, 33,
\* 52).
CreditCoversPacket == discipline = "sfq" => SFQ!CreditCoversPacket

\* A packet of an AprxFairQueue waits in a FIFO whose round the sketch has
\* already charged to its flow, so the unsigned difference of the rounds does
\* not wrap when the packet leaves (aprx-fairqueue.cpp:64-73).
SketchCoversQueue == discipline = "afq" => AFQ!SketchCoversQueue

\* The packets of a flow leave in the order in which they came.  In a FairQueue
\* also: no waiting packet is behind the round number, and what flow state
\* there is belongs to a flow with packets (fairqueue.cpp:93-110, 125-135); in
\* an AprxFairQueue also when the calendar wraps around or flows share buckets
\* (aprx-fairqueue.cpp:110-128).
FlowsInOrder ==
    /\ discipline = "fq"  => FQ!RoundsInOrder
    /\ discipline = "afq" => AFQ!FlowsInOrder

Held == CASE discipline = "priority" -> PQ!Held
          [] discipline = "fq"       -> FQ!Held
          [] discipline = "sfq"      -> SFQ!Held
          [] discipline = "afq"      -> AFQ!Held

Server == INSTANCE PacketServer
    WITH entered <- arrived, serving <- pending, held <- Held

\* Under every discipline the queue is a packet server: no packet is forgotten
\* or sent twice, the link never idles with packets waiting, and the packet
\* whose completion is pending is still the one at the front when the event
\* comes, whatever arrived since.
ImplementsPacketServer == Server!Spec
=============================================================================
