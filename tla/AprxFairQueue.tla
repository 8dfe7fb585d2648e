---------------------------- MODULE AprxFairQueue ----------------------------
(***************************************************************************)
(* AprxFairQueue (aprx-fairqueue.cpp, .h): fair queueing approximated by a *)
(* calendar of FIFO queues, one per round of BytesPerRound bytes a flow,   *)
(* and a count-min sketch of the bytes of each flow.  The sketch is the    *)
(* code's table of rows and buckets; Hash gives the bucket of each flow in *)
(* each row, so flows may share buckets.                                   *)
(***************************************************************************)
EXTENDS Integers, Sums

CONSTANTS
    Flows,          \* flows through the queue
    NHash,          \* _cfg.nHash
    NBucket,        \* _cfg.nBucket
    Hash,           \* hashFlow: [1 .. NHash -> [Flows -> 0 .. NBucket - 1]]
    NQueue,         \* _cfg.nQueue
    BytesPerRound,  \* _cfg.bytesPerRound
    EcnMarkRound,   \* ECN_MARK_ROUND
    MaxSize,        \* _maxsize
    Sizes,          \* bytes a packet may have
    Packets         \* bound: packets that arrive

Fifos == 0 .. NQueue - 1
Rows == 1 .. NHash
Buckets == 0 .. NBucket - 1

AprxAssumption ==
    /\ {NHash, NBucket, NQueue, BytesPerRound} \subseteq Nat \ {0}
    /\ Hash \in [Rows -> [Flows -> Buckets]]
    /\ {EcnMarkRound, MaxSize, Packets} \subseteq Nat
    /\ Sizes \subseteq Nat \ {0} /\ \E s \in Sizes : \A t \in Sizes : t <= s

VARIABLES
    packets,      \* _packets, each FIFO with its oldest packet first
    sketch,       \* _sketch
    currQ,        \* _currQ
    nRounds,      \* _nRounds
    queuesize,    \* _queuesize
    pending,      \* the packet whose completion event is scheduled
    arrived,      \* packets that have arrived
    lost,         \* identities of the packets dropped
    served,       \* identities of the packets sent
    marked,       \* identities of the packets marked for their round
    roundBytes    \* history: bytes sent of each flow in the current round

vars == <<packets, sketch, currQ, nRounds, queuesize, pending, arrived, lost,
          served, marked, roundBytes>>

\* Stands for a difference of unsigned numbers that has wrapped around.
Wrapped == 1000000

Unsigned(a, b) == IF a >= b THEN a - b ELSE Wrapped

Higher(a, b) == IF a >= b THEN a ELSE b

\* The least of the flow's buckets: never less than what the flow has sent.
Bytes(f) ==
    CHOOSE b \in {sketch[i][Hash[i][f]] : i \in Rows} :
        \A i \in Rows : b <= sketch[i][Hash[i][f]]

FlowRound(f) == Bytes(f) \div BytesPerRound

----------------------------------------------------------------------------
RoundsAfter(k) == nRounds + k

\* Mutant: an "if" where the code has a "while".
LooksAtCurrentFifo(pk) ==
    /\ pending' = IF pk[currQ] = <<>> THEN 0 ELSE Head(pk[currQ]).id
    /\ UNCHANGED <<currQ, nRounds>>

BeginService(pk) ==
    IF \A q \in Fifos : pk[q] = <<>>
    THEN pending' = 0 /\ UNCHANGED <<currQ, nRounds>>
    ELSE LET k == CHOOSE k \in Fifos :
                    /\ pk[(currQ + k) % NQueue] # <<>>
                    /\ \A j \in 0 .. k - 1 : pk[(currQ + j) % NQueue] = <<>>
         IN  /\ currQ' = (currQ + k) % NQueue
             /\ nRounds' = RoundsAfter(k)
             /\ pending' = Head(pk[currQ']).id

CompleteService ==
    /\ pending # 0
    /\ LET p == Head(packets[currQ]) IN
       /\ packets' = [packets EXCEPT ![currQ] = Tail(@)]
       /\ queuesize' = queuesize - p.size
       /\ served' = served \cup {p.id}
       /\ marked' = IF Unsigned(FlowRound(p.flow), nRounds) >= EcnMarkRound
                    THEN marked \cup {p.id} ELSE marked
       /\ BeginService(packets')
       /\ roundBytes' = [f \in Flows |->
              IF nRounds' # nRounds THEN 0
              ELSE roundBytes[f] + (IF f = p.flow THEN p.size ELSE 0)]
    /\ UNCHANGED <<sketch, arrived, lost>>

\* Mutant: the calendar is taken to be one FIFO longer than it is.
AllowsWholeTurn(f) == FlowRound(f) > nRounds + NQueue

\* A flow that is a whole turn of the calendar ahead is sending too fast.
TooFarAhead(f) == FlowRound(f) >= nRounds + NQueue

\* Mutant: an idle flow may use the rounds it missed.
UsesMissedRounds(f) == Bytes(f)

\* What a flow is charged with before its packet: a flow that has not sent
\* for a while starts with the current round.
ChargedBytes(f) ==
    IF FlowRound(f) <= nRounds
    THEN Higher(nRounds * BytesPerRound, Bytes(f))
    ELSE Bytes(f)

\* The FIFO of the flow's round.
OutQ(f) ==
    IF FlowRound(f) <= nRounds THEN currQ
    ELSE (currQ + FlowRound(f) - nRounds) % NQueue

Charged(f, bytes) ==
    [i \in Rows |-> [sketch[i] EXCEPT ![Hash[i][f]] = Higher(@, bytes)]]

Drop ==
    /\ lost' = lost \cup {arrived'}
    /\ UNCHANGED <<packets, sketch, currQ, nRounds, queuesize, pending>>

Enqueue(f, size) ==
    LET p == [id |-> arrived', flow |-> f, size |-> size] IN
    /\ packets' = [packets EXCEPT ![OutQ(f)] = Append(@, p)]
    /\ queuesize' = queuesize + size
    /\ sketch' = Charged(f, ChargedBytes(f) + size)
    /\ IF \A q \in Fifos : packets[q] = <<>> THEN BeginService(packets')
       ELSE UNCHANGED <<currQ, nRounds, pending>>
    /\ UNCHANGED lost

ReceivePacket ==
    /\ arrived < Packets
    /\ arrived' = arrived + 1
    /\ \E f \in Flows, size \in Sizes :
          IF queuesize + size > MaxSize \/ TooFarAhead(f) THEN Drop
          ELSE Enqueue(f, size)
    /\ roundBytes' = IF nRounds' # nRounds THEN [f \in Flows |-> 0]
                     ELSE roundBytes
    /\ UNCHANGED <<served, marked>>

Init ==
    /\ packets = [q \in Fifos |-> <<>>]
    /\ sketch = [i \in Rows |-> [b \in Buckets |-> 0]]
    /\ currQ = 0
    /\ nRounds = 0
    /\ queuesize = 0
    /\ pending = 0
    /\ arrived = 0
    /\ lost = {}
    /\ served = {}
    /\ marked = {}
    /\ roundBytes = [f \in Flows |-> 0]

Next == ReceivePacket \/ CompleteService

Spec == Init /\ [][Next]_vars

----------------------------------------------------------------------------
MaxPacket == CHOOSE s \in Sizes : \A t \in Sizes : t <= s

\* The FIFOs from the current one on, wrapping around, and their rounds.
Ahead(k) == packets[(currQ + k) % NQueue]

\* A packet waits in a FIFO whose round the sketch has already charged to its
\* flow, so the unsigned difference _flowRound - _nRounds does not wrap when
\* the packet leaves (aprx-fairqueue.cpp:64-73).
SketchCoversQueue ==
    \A k \in Fifos : \A i \in 1 .. Len(Ahead(k)) :
        FlowRound(Ahead(k)[i].flow) >= nRounds + k

\* The packets of a flow leave in the order in which they came, also when the
\* calendar wraps around or flows share buckets.
FlowsInOrder ==
    \A k, l \in Fifos : \A i \in 1 .. Len(Ahead(k)), j \in 1 .. Len(Ahead(l)) :
        /\ Ahead(k)[i].flow = Ahead(l)[j].flow
        /\ k < l \/ (k = l /\ i < j)
        => Ahead(k)[i].id < Ahead(l)[j].id

\* A round gives a flow less than BytesPerRound bytes and one packet: that is
\* the approximation of byte-by-byte round robin.
RoundShare ==
    \A f \in Flows, k \in Fifos :
        FlowBytes(Ahead(k), f) + (IF k = 0 THEN roundBytes[f] ELSE 0)
            < BytesPerRound + MaxPacket

Held == UNION {{packets[q][i].id : i \in 1 .. Len(packets[q])} :
                   q \in Fifos}
=============================================================================
