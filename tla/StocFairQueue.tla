---------------------------- MODULE StocFairQueue ----------------------------
(***************************************************************************)
(* StocFairQueue (stoc-fairqueue.cpp, .h): flows are hashed to FIFO queues *)
(* that are served by deficit round robin.  A packet is known by the FIFO  *)
(* queue its flow hashes to.                                               *)
(***************************************************************************)
EXTENDS Sequences, FiniteSets, Functions

CONSTANTS
    NQueue,     \* _nQueue
    Quantum,    \* _quantum
    MaxSize,    \* _maxsize
    Sizes,      \* bytes a packet may have
    Packets     \* bound: packets that arrive

Queues == 0 .. NQueue - 1

StocAssumption ==
    /\ NQueue \in Nat \ {0} /\ Quantum \in Nat \ {0}
    /\ MaxSize \in Nat /\ Sizes \subseteq Nat \ {0} /\ Packets \in Nat
    /\ \E s \in Sizes : \A t \in Sizes : t <= s

VARIABLES
    packets,    \* _packets, each queue with its oldest packet first
    credits,    \* _credits
    activeQ,    \* _activeQ, front first
    isActive,   \* _isActive
    queuesize,  \* _queuesize
    pending,    \* the packet whose completion event is scheduled
    arrived,    \* packets that have arrived
    lost,       \* identities of the packets dropped
    served,     \* identities of the packets sent
    lead        \* history: bytes q was sent more than r while both wait

fifos == <<packets, credits, activeQ, isActive, queuesize>>
vars == <<fifos, pending, arrived, lost, served, lead>>

\* The state the handlers work on.
Fifos == [packets |-> packets, credits |-> credits, activeQ |-> activeQ,
          isActive |-> isActive]

Become(s) ==
    /\ packets' = s.packets /\ credits' = s.credits
    /\ activeQ' = s.activeQ /\ isActive' = s.isActive

----------------------------------------------------------------------------
Enqueue(queue, p) == Append(queue, p)

\* The k-th queue the loop of beginService looks at, counting from 0.
Looked(s, k) == s.activeQ[(k % Len(s.activeQ)) + 1]

\* Mutant: a queue that cannot send gets its quantum and keeps its turn.
KeepsTurn(s, k) == [s EXCEPT !.credits[Head(s.activeQ)] = @ + Quantum * k]

\* What the loop leaves when its first k queues could not send: each has moved
\* to the back of the list, with a quantum.
Turned(s, k) ==
    LET n == Len(s.activeQ)
        Turns(q) == {j \in 0 .. k - 1 : Looked(s, j) = q}
    IN  [s EXCEPT !.activeQ = [i \in 1 .. n |-> Looked(s, i - 1 + k)],
                  !.credits = [q \in Queues |->
                      s.credits[q] + Quantum * Cardinality(Turns(q))]]

\* Whether the front queue has the credit for its oldest packet.
Sends(s) ==
    s.credits[Head(s.activeQ)] >= Head(s.packets[Head(s.activeQ)]).size

\* The front queue has the credit at the latest when it has had a quantum for
\* every byte of its packet.
Looks(s) == 0 .. Len(s.activeQ) * Head(s.packets[Head(s.activeQ)]).size

\* Mutant: the front queue is moved before it is looked at.
MovesFirst(s) ==
    Turned(s, CHOOSE k \in Looks(s) \ {0} :
        Sends(Turned(s, k)) /\ \A j \in 1 .. k - 1 : ~Sends(Turned(s, j)))

\* The loop ends at the first queue that can send.
Rotate(s) ==
    Turned(s, CHOOSE k \in Looks(s) :
        Sends(Turned(s, k)) /\ \A j \in 0 .. k - 1 : ~Sends(Turned(s, j)))

BeginService(s) ==
    IF \A q \in Queues : s.packets[q] = <<>> THEN pending' = 0 /\ Become(s)
    ELSE /\ Become(Rotate(s))
         /\ pending' = Head(packets'[Head(activeQ')]).id

\* An empty queue leaves the list of active queues and loses its credit.
Deactivate(s, q) ==
    [s EXCEPT !.isActive[q] = FALSE, !.activeQ = Tail(@), !.credits[q] = 0]

CompleteService ==
    /\ pending # 0
    /\ LET q == Head(activeQ)
           p == Head(packets[q])
           s == [Fifos EXCEPT !.packets[q] = Tail(@), !.credits[q] = @ - p.size]
       IN  /\ queuesize' = queuesize - p.size
           /\ served' = served \cup {p.id}
           /\ lead' = [qr \in Queues \X Queues |->
                 IF \/ s.packets[qr[1]] = <<>> \/ s.packets[qr[2]] = <<>>
                    \/ qr[1] = qr[2]
                 THEN 0
                 ELSE CASE qr[1] = q -> lead[qr] + p.size
                        [] qr[2] = q -> lead[qr] - p.size
                        [] OTHER     -> lead[qr]]
           /\ BeginService(IF s.packets[q] = <<>> THEN Deactivate(s, q) ELSE s)
    /\ UNCHANGED <<arrived, lost>>

\* Mutant: a queue that is already active is listed again.
ListsAgain(s, q) ==
    [s EXCEPT !.isActive[q] = TRUE, !.activeQ = Append(@, q),
              !.credits[q] = Quantum]

Activate(s, q) ==
    IF s.isActive[q] THEN s
    ELSE [s EXCEPT !.isActive[q] = TRUE, !.activeQ = Append(@, q),
                   !.credits[q] = Quantum]

ReceivePacket ==
    /\ arrived < Packets
    /\ arrived' = arrived + 1
    /\ \E q \in Queues, size \in Sizes :
          IF queuesize + size > MaxSize
          THEN lost' = lost \cup {arrived'} /\ UNCHANGED <<fifos, pending>>
          ELSE LET p == [id |-> arrived', size |-> size]
                   s == Activate([Fifos EXCEPT !.packets[q] = Enqueue(@, p)], q)
               IN  /\ queuesize' = queuesize + size
                   /\ IF \A r \in Queues : packets[r] = <<>>
                      THEN BeginService(s)
                      ELSE Become(s) /\ UNCHANGED pending
                   /\ UNCHANGED lost
    /\ UNCHANGED <<served, lead>>

Init ==
    /\ packets = [q \in Queues |-> <<>>]
    /\ credits = [q \in Queues |-> 0]
    /\ activeQ = <<>>
    /\ isActive = [q \in Queues |-> FALSE]
    /\ queuesize = 0
    /\ pending = 0
    /\ arrived = 0
    /\ lost = {}
    /\ served = {}
    /\ lead = [qr \in Queues \X Queues |-> 0]

Next == ReceivePacket \/ CompleteService

Spec == Init /\ [][Next]_vars

----------------------------------------------------------------------------
MaxPacket == CHOOSE s \in Sizes : \A t \in Sizes : t <= s

\* The list of active queues names each queue that has packets once and no
\* other, so the front of the list can be served without a look at its length
\* (stoc-fairqueue.cpp:26-38, 58-62, 104-108).
ActiveListExact ==
    /\ Range(activeQ) = {q \in Queues : packets[q] # <<>>}
    /\ \A i, j \in 1 .. Len(activeQ) : i # j => activeQ[i] # activeQ[j]
    /\ \A q \in Queues : isActive[q] <=> packets[q] # <<>>

\* The unsigned credit of the queue being served covers its packet, so the
\* subtraction of completeService does not wrap; and no queue saves up more
\* than one packet and one quantum (stoc-fairqueue.cpp:29, 33, 52).
CreditCoversPacket ==
    /\ pending # 0 => credits[Head(activeQ)] >= Head(packets[Head(activeQ)]).size
    /\ \A q \in Queues : credits[q] \in 0 .. MaxPacket + Quantum - 1

\* Fairness: while two queues both have packets, neither is sent more than a
\* quantum and two packets ahead of the other.
FairShare ==
    \A qr \in Queues \X Queues : lead[qr] <= Quantum + 2 * MaxPacket

Held == UNION {{packets[q][i].id : i \in 1 .. Len(packets[q])} :
                   q \in Queues}
=============================================================================
