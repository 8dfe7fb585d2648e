--------------------------- MODULE SchedulerProofs ---------------------------
(***************************************************************************)
(* Proofs about Scheduler for every set of flows, priorities and packet    *)
(* sizes, every buffer, quantum, calendar and sketch, and any number of    *)
(* packets.  Each discipline has an inductive invariant of its own; from   *)
(* them follows that every discipline implements PacketServer.             *)
(***************************************************************************)
EXTENDS Scheduler, CommonLemmas, FiniteSetTheorems, SequenceTheorems

----------------------------------------------------------------------------
(* FairQueue: the line of packets *)

FqPacket == [id : Nat, flow : Flows, size : Sizes, round : Int]

\* The packet being sent and those that wait, in the order they leave.
Line == IF pending = 0 THEN packets ELSE <<currentPkt>> \o packets

Present(q, f) == \E i \in 1 .. Len(q) : q[i].flow = f

\* The rounds of a flow's packets are its base and the bytes up to each packet.
Stamped(q, base) ==
    \A i \in 1 .. Len(q) :
        q[i].round = base[q[i].flow] + FlowBytes(SubSeq(q, 1, i), q[i].flow)

Sorted(q, rn) ==
    /\ \A i \in 1 .. Len(q) : rn <= q[i].round
    /\ \A i, j \in 1 .. Len(q) : i < j => q[i].round <= q[j].round

\* No flow with packets has a base ahead of the round number.
Based(q, base, rn) == \A f \in Flows : Present(q, f) => base[f] <= rn

\* The flow state is that of the flows with packets.
Counted(q, base, fr, np) ==
    /\ np = [f \in Flows |-> FlowCount(q, f)]
    /\ fr = [f \in {g \in Flows : Present(q, g)} |-> base[f] + FlowBytes(q, f)]

\* Two flows that wait differ in what they were sent by what their bases do and
\* one packet.
Led(q, base, ld) ==
    /\ ld \in [Flows \X Flows -> Int]
    /\ \A f, g \in Flows :
          /\ Present(q, f) /\ Present(q, g) /\ f # g
             => ld[<<f, g>>] + base[g] <= base[f] + FQ!MaxPacket
          /\ ~(Present(q, f) /\ Present(q, g) /\ f # g) => ld[<<f, g>>] = 0

\* The packets are numbered as they arrived, those of a flow in this order.
Aged(q, n) ==
    /\ \A i \in 1 .. Len(q) : q[i].id \in 1 .. n
    /\ \A i, j \in 1 .. Len(q) : i < j =>
          /\ q[i].id # q[j].id
          /\ q[i].flow = q[j].flow => q[i].id < q[j].id

FairLine(q, base, rn) ==
    /\ q \in Seq(FqPacket) /\ base \in [Flows -> Int] /\ rn \in Int
    /\ Stamped(q, base) /\ Sorted(q, rn) /\ Based(q, base, rn)

\* The packet being sent is that of the current round.  A FairQueue that was
\* built with an unassigned _currentPkt never starts to send.
SendsCurrent ==
    /\ pending = 0 => \/ currentPkt = FQ!Garbage
                      \/ currentPkt = FQ!Null /\ packets = <<>>
    /\ pending # 0 => /\ pending = currentPkt.id
                      /\ roundNumber = currentPkt.round

FairInv ==
    /\ arrived \in Nat /\ packets \in Seq(FqPacket)
    /\ SendsCurrent /\ Aged(Line, arrived) /\ queuesize = SizeOf(Line)
    /\ \E base \in [Flows -> Int] :
          /\ FairLine(Line, base, roundNumber)
          /\ Counted(Line, base, flowRound, nPackets) /\ Led(Line, base, lead)

\* Sizes are positive and bounded, and what the fields of a packet range over.
LEMMA FqConstants ==
    /\ Sizes \subseteq Nat \ {0}
    /\ FQ!MaxPacket \in Sizes /\ \A size \in Sizes : size <= FQ!MaxPacket
    /\ MaxSize \in Nat /\ \A size \in Sizes : size <= MaxSize
    /\ \A p \in FqPacket : /\ p.size \in Nat \ {0} /\ p.size \in Sizes
                           /\ p.flow \in Flows /\ p.id \in Nat /\ p.round \in Int
  BY SchedulerAssumption DEF FQ!FairAssumption, FQ!MaxPacket, FqPacket,
     SFQ!StocAssumption

----------------------------------------------------------------------------
(* Sums over the packets of a FairQueue *)

\* A flow's bytes, its count and the size of a line are sums of weights.
LEMMA FqWeights ==
    ASSUME NEW f
    PROVE  \E b, c, s \in [FqPacket -> Nat] : Weigh(FqPacket, f, b, c, s)
  <1>1. \A p \in FqPacket : p.size \in Nat
    BY FqConstants
  <1>2. QED
    BY <1>1, Weights

\* These sums are naturals, and those of a flow vanish exactly when it has no
\* packet in the line.
LEMMA FqSums ==
    ASSUME NEW q \in Seq(FqPacket), NEW f
    PROVE  /\ FlowBytes(q, f) \in Nat /\ FlowCount(q, f) \in Nat /\ SizeOf(q) \in Nat
           /\ ~Present(q, f) => FlowBytes(q, f) = 0 /\ FlowCount(q, f) = 0
           /\ Present(q, f) => FlowCount(q, f) > 0
  <1>0. PICK b, c, s \in [FqPacket -> Nat] : Weigh(FqPacket, f, b, c, s)
    BY FqWeights
  <1>1. /\ \A p \in FqPacket : /\ b[p] = (IF p.flow = f THEN p.size ELSE 0)
                               /\ c[p] = (IF p.flow = f THEN 1 ELSE 0)
                               /\ s[p] = p.size
        /\ \A t \in Seq(FqPacket) : /\ FlowBytes(t, f) = Over(t, b)
                                    /\ FlowCount(t, f) = Over(t, c)
                                    /\ SizeOf(t) = Over(t, s)
    BY <1>0 DEF Weigh
  <1>2. Over(q, b) \in Nat /\ Over(q, c) \in Nat /\ Over(q, s) \in Nat
    BY OverType
  <1>3. ASSUME ~Present(q, f) PROVE Over(q, b) = 0 /\ Over(q, c) = 0
    <2>1. \A i \in 1 .. Len(q) : q[i] \in FqPacket /\ q[i].flow # f
      BY <1>3 DEF Present
    <2>2. \A i \in 1 .. Len(q) : b[q[i]] = 0 /\ c[q[i]] = 0
      BY <1>1, <2>1
    <2>3. QED
      BY <2>2, OverZero
  <1>4. ASSUME Present(q, f) PROVE Over(q, c) > 0
    <2>1. PICK i \in 1 .. Len(q) : q[i].flow = f
      BY <1>4 DEF Present
    <2>2. c[q[i]] \in Nat /\ c[q[i]] <= Over(q, c)
      BY OverHas
    <2>3. c[q[i]] = 1
      <3>1. q[i] \in FqPacket
        OBVIOUS
      <3>2. QED
        BY <1>1, <2>1, <3>1
    <2>4. QED
      BY <1>2, <2>2, <2>3
  <1>5. QED
    BY <1>1, <1>2, <1>3, <1>4

\* The sums over two lines in a row are the sums of both.
LEMMA FqConcat ==
    ASSUME NEW q \in Seq(FqPacket), NEW r \in Seq(FqPacket), NEW f
    PROVE  /\ FlowBytes(q \o r, f) = FlowBytes(q, f) + FlowBytes(r, f)
           /\ FlowCount(q \o r, f) = FlowCount(q, f) + FlowCount(r, f)
           /\ SizeOf(q \o r) = SizeOf(q) + SizeOf(r)
           /\ Present(q \o r, f) <=> Present(q, f) \/ Present(r, f)
  <1>0. PICK b, c, s \in [FqPacket -> Nat] : Weigh(FqPacket, f, b, c, s)
    BY FqWeights
  <1>1. /\ \A p \in FqPacket : /\ b[p] = (IF p.flow = f THEN p.size ELSE 0)
                               /\ c[p] = (IF p.flow = f THEN 1 ELSE 0)
                               /\ s[p] = p.size
        /\ \A t \in Seq(FqPacket) : /\ FlowBytes(t, f) = Over(t, b)
                                    /\ FlowCount(t, f) = Over(t, c)
                                    /\ SizeOf(t) = Over(t, s)
    BY <1>0 DEF Weigh
  <1>2. /\ Over(q \o r, b) = Over(q, b) + Over(r, b)
        /\ Over(q \o r, c) = Over(q, c) + Over(r, c)
        /\ Over(q \o r, s) = Over(q, s) + Over(r, s)
    BY OverConcat
  <1>3. q \o r \in Seq(FqPacket)
    OBVIOUS
  <1>4. Present(q \o r, f) <=> Present(q, f) \/ Present(r, f)
    <2>1. /\ Len(q \o r) = Len(q) + Len(r) /\ Len(q) \in Nat /\ Len(r) \in Nat
          /\ \A i \in 1 .. Len(q) + Len(r) :
                (q \o r)[i] = IF i <= Len(q) THEN q[i] ELSE r[i - Len(q)]
      OBVIOUS
    <2>2. ASSUME NEW i \in 1 .. Len(q), q[i].flow = f PROVE Present(q \o r, f)
      BY <2>1, <2>2 DEF Present
    <2>3. ASSUME NEW i \in 1 .. Len(r), r[i].flow = f PROVE Present(q \o r, f)
      <3>1. i + Len(q) \in 1 .. Len(q) + Len(r) /\ (i + Len(q)) - Len(q) = i
            /\ ~(i + Len(q) <= Len(q))
        BY <2>1
      <3>2. (q \o r)[i + Len(q)] = r[i]
        BY <2>1, <3>1
      <3>3. QED
        BY <2>1, <2>3, <3>1, <3>2 DEF Present
    <2>4. ASSUME NEW i \in 1 .. Len(q) + Len(r), (q \o r)[i].flow = f
          PROVE  Present(q, f) \/ Present(r, f)
      <3>1. CASE i <= Len(q)
        <4>1. i \in 1 .. Len(q) /\ (q \o r)[i] = q[i]
          BY <2>1, <3>1
        <4>2. QED
          BY <2>4, <4>1 DEF Present
      <3>2. CASE ~(i <= Len(q))
        <4>1. i - Len(q) \in 1 .. Len(r) /\ (q \o r)[i] = r[i - Len(q)]
          BY <2>1, <3>2
        <4>2. QED
          BY <2>4, <4>1 DEF Present
      <3>3. QED
        BY <3>1, <3>2
    <2>5. QED
      BY <2>1, <2>2, <2>3, <2>4 DEF Present
  <1>5. QED
    BY <1>1, <1>2, <1>3, <1>4

\* The sums over a line of one packet.
LEMMA FqOne ==
    ASSUME NEW p \in FqPacket, NEW f
    PROVE  /\ <<p>> \in Seq(FqPacket)
           /\ p.flow = f => FlowBytes(<<p>>, f) = p.size /\ FlowCount(<<p>>, f) = 1
           /\ p.flow # f => FlowBytes(<<p>>, f) = 0 /\ FlowCount(<<p>>, f) = 0
           /\ SizeOf(<<p>>) = p.size
           /\ Present(<<p>>, f) <=> p.flow = f
  <1>0. PICK b, c, s \in [FqPacket -> Nat] : Weigh(FqPacket, f, b, c, s)
    BY FqWeights
  <1>1. /\ \A r \in FqPacket : /\ b[r] = (IF r.flow = f THEN r.size ELSE 0)
                               /\ c[r] = (IF r.flow = f THEN 1 ELSE 0)
                               /\ s[r] = r.size
        /\ \A t \in Seq(FqPacket) : /\ FlowBytes(t, f) = Over(t, b)
                                    /\ FlowCount(t, f) = Over(t, c)
                                    /\ SizeOf(t) = Over(t, s)
    BY <1>0 DEF Weigh
  <1>2. <<p>> \in Seq(FqPacket) /\ <<p>> = Append(<<>>, p) /\ <<>> \in Seq(FqPacket)
    OBVIOUS
  <1>3. ASSUME NEW w \in [FqPacket -> Nat] PROVE Over(<<p>>, w) = w[p]
    <2>1. Over(Append(<<>>, p), w) = Over(<<>>, w) + w[p]
      BY <1>2, OverAppend, Zenon
    <2>2. Over(<<>>, w) = 0 /\ w[p] \in Nat
      BY OverEmpty
    <2>3. QED
      BY <1>2, <2>1, <2>2
  <1>4. /\ FlowBytes(<<p>>, f) = b[p] /\ FlowCount(<<p>>, f) = c[p]
        /\ SizeOf(<<p>>) = s[p]
    BY <1>1, <1>2, <1>3
  <1>5. Present(<<p>>, f) <=> p.flow = f
    BY DEF Present
  <1>6. QED
    BY <1>1, <1>2, <1>4, <1>5

\* Joining lines is associative.
LEMMA FqAssoc ==
    \A x, y, z \in Seq(FqPacket) : (x \o y) \o z = x \o (y \o z)
  <1> TAKE x \in Seq(FqPacket), y \in Seq(FqPacket), z \in Seq(FqPacket)
  <1>1. QED
    OBVIOUS

\* q is what its first m packets and the others make.
Parts(q, m, a, b) ==
    /\ a = SubSeq(q, 1, m) /\ b = SubSeq(q, m + 1, Len(q)) /\ a \o b = q
    /\ Len(a) = m /\ Len(b) = Len(q) - m
    /\ \A i \in 1 .. m : a[i] = q[i]
    /\ \A i \in 1 .. Len(q) - m : b[i] = q[m + i]
    /\ \A c \in Seq(FqPacket) : (c \o a) \o b = c \o q

\* A line can be cut at any place.
LEMMA FqSplit ==
    ASSUME NEW q \in Seq(FqPacket), NEW m \in 0 .. Len(q)
    PROVE  \E a, b \in Seq(FqPacket) : Parts(q, m, a, b)
  <1> DEFINE a == SubSeq(q, 1, m)
             b == SubSeq(q, m + 1, Len(q))
  <1>1. /\ a \in Seq(FqPacket) /\ b \in Seq(FqPacket) /\ a \o b = q
        /\ Len(a) = m /\ Len(b) = Len(q) - m
        /\ \A i \in 1 .. m : a[i] = q[i]
        /\ \A i \in 1 .. Len(q) - m : b[i] = q[m + i]
    BY Split, Zenon
  <1>2. ASSUME NEW c \in Seq(FqPacket) PROVE (c \o a) \o b = c \o q
    <2>1. (c \o a) \o b = c \o (a \o b)
      <3>1. a \in Seq(FqPacket) /\ b \in Seq(FqPacket)
        BY <1>1
      <3> HIDE DEF a, b
      <3>2. QED
        BY <3>1, FqAssoc
    <2>2. QED
      BY <1>1, <2>1, Zenon
  <1>3. Parts(q, m, a, b)
    BY <1>1, <1>2, Zenon DEF Parts
  <1>4. QED
    BY <1>1, <1>3, Zenon

JoinOf(x, y, u) ==
    u = x \o y /\ \A c \in Seq(FqPacket) : (c \o x) \o y = c \o u

\* Two lines in a row are a line, whose places are those of the first and then
\* those of the second.
LEMMA FqJoin ==
    ASSUME NEW x \in Seq(FqPacket), NEW y \in Seq(FqPacket)
    PROVE  \E u \in Seq(FqPacket) : JoinOf(x, y, u)
  <1>1. x \o y \in Seq(FqPacket)
    BY ConcatProperties
  <1>2. \A c \in Seq(FqPacket) : (c \o x) \o y = c \o (x \o y)
    BY FqAssoc
  <1>3. JoinOf(x, y, x \o y)
    BY <1>2, Zenon DEF JoinOf
  <1>4. QED
    BY <1>1, <1>3, Zenon

\* The bytes of a flow up to a place of the line are those up to the place
\* before it and, if it is the flow's, the packet there.
LEMMA UpTo ==
    ASSUME NEW q \in Seq(FqPacket), NEW i \in 1 .. Len(q)
    PROVE  /\ SubSeq(q, 1, i) \in Seq(FqPacket) /\ SubSeq(q, 1, i - 1) \in Seq(FqPacket)
           /\ q[i] \in FqPacket
           /\ \A f : FlowBytes(SubSeq(q, 1, i), f) = FlowBytes(SubSeq(q, 1, i - 1), f)
                        + (IF q[i].flow = f THEN q[i].size ELSE 0)
           /\ \A f : FlowBytes(SubSeq(q, 1, i), f) \in Nat
                     /\ FlowBytes(SubSeq(q, 1, i - 1), f) \in Nat
  <1>1. /\ i \in 0 .. Len(q) /\ i - 1 \in 0 .. Len(q) /\ i \in 1 .. i
        /\ 1 \in 1 .. Len(q) /\ i \in 1 .. Len(q) /\ q[i] \in FqPacket
    OBVIOUS
  <1>2. SubSeq(q, 1, i) \in Seq(FqPacket) /\ SubSeq(q, 1, i - 1) \in Seq(FqPacket)
    BY <1>1, Split, Zenon
  <1>3. SubSeq(q, 1, i) = SubSeq(q, 1, i - 1) \o << q[i] >>
    BY <1>1, SubSeqRecursiveSecond, Zenon
  <1> DEFINE a == SubSeq(q, 1, i - 1)
             p == q[i]
  <1> HIDE DEF a, p
  <1>4. a \in Seq(FqPacket) /\ p \in FqPacket
    BY <1>1, <1>2 DEF a, p
  <1>5. ASSUME NEW f
        PROVE  /\ FlowBytes(a \o <<p>>, f)
                      = FlowBytes(a, f) + (IF p.flow = f THEN p.size ELSE 0)
               /\ FlowBytes(a, f) \in Nat /\ FlowBytes(a \o <<p>>, f) \in Nat
    <2>1. <<p>> \in Seq(FqPacket) /\ a \o <<p>> \in Seq(FqPacket)
      BY <1>4
    <2>2. FlowBytes(a \o <<p>>, f) = FlowBytes(a, f) + FlowBytes(<<p>>, f)
      BY <1>4, <2>1, FqConcat
    <2>3. FlowBytes(<<p>>, f) = IF p.flow = f THEN p.size ELSE 0
      BY <1>4, FqOne
    <2>4. QED
      BY <1>4, <2>1, <2>2, <2>3, FqSums
  <1>6. QED
    BY <1>1, <1>2, <1>3, <1>5 DEF a, p

\* The first packet of a flow.
LEMMA FirstOf ==
    ASSUME NEW q \in Seq(FqPacket), NEW f, Present(q, f)
    PROVE  \E i \in 1 .. Len(q) :
              q[i].flow = f /\ FlowBytes(SubSeq(q, 1, i), f) = q[i].size
  <1> DEFINE D == {i \in 1 .. Len(q) : q[i].flow = f}
  <1>1. D \in SUBSET Nat /\ D # {}
    BY DEF Present
  <1>2. PICK i \in D : \A j \in D : i <= j
    <2> HIDE DEF D
    <2>1. QED
      BY <1>1, Least
  <1>3. i \in 1 .. Len(q) /\ q[i].flow = f
    OBVIOUS
  <1>4. ~Present(SubSeq(q, 1, i - 1), f)
    <2>1. i - 1 \in 0 .. Len(q)
      BY <1>3
    <2>2. /\ Len(SubSeq(q, 1, i - 1)) = i - 1
          /\ \A j \in 1 .. i - 1 : SubSeq(q, 1, i - 1)[j] = q[j]
      BY <2>1, Split
    <2>3. ASSUME NEW j \in 1 .. i - 1 PROVE q[j].flow # f
      <3>1. j \in 1 .. Len(q) /\ ~(i <= j)
        BY <1>3
      <3>2. QED
        BY <1>2, <3>1
    <2>4. QED
      BY <2>2, <2>3 DEF Present
  <1>5. FlowBytes(SubSeq(q, 1, i - 1), f) = 0
    <2>1. SubSeq(q, 1, i - 1) \in Seq(FqPacket)
      BY <1>3, UpTo
    <2>2. QED
      BY <1>4, <2>1, FqSums
  <1>6. FlowBytes(SubSeq(q, 1, i), f) = q[i].size
    <2>1. FlowBytes(SubSeq(q, 1, i), f) = FlowBytes(SubSeq(q, 1, i - 1), f)
             + (IF q[i].flow = f THEN q[i].size ELSE 0)
          /\ q[i] \in FqPacket
      BY <1>3, UpTo
    <2>2. QED
      BY <1>3, <1>5, <2>1, FqConstants
  <1>7. QED
    BY <1>3, <1>6

\* The last packet of a flow.
LEMMA LastOf ==
    ASSUME NEW q \in Seq(FqPacket), NEW f, Present(q, f)
    PROVE  \E i \in 1 .. Len(q) :
              q[i].flow = f /\ FlowBytes(SubSeq(q, 1, i), f) = FlowBytes(q, f)
  <1> DEFINE D == {k \in 0 .. Len(q) - 1 : q[Len(q) - k].flow = f}
  <1>1. D \in SUBSET Nat /\ D # {}
    <2>1. PICK i \in 1 .. Len(q) : q[i].flow = f
      BY DEF Present
    <2>2. Len(q) - i \in 0 .. Len(q) - 1 /\ Len(q) - (Len(q) - i) = i
      OBVIOUS
    <2>3. Len(q) - i \in D
      BY <2>1, <2>2
    <2>4. Len(q) \in Nat /\ \A k \in D : k \in 0 .. Len(q) - 1
      OBVIOUS
    <2> HIDE DEF D
    <2>5. \A k \in D : k \in Nat
      BY <2>4
    <2>6. QED
      BY <2>3, <2>5
  <1>2. PICK k \in D : \A j \in D : k <= j
    <2> HIDE DEF D
    <2>1. QED
      BY <1>1, Least
  <1>3. PICK i \in 1 .. Len(q) : i = Len(q) - k
    OBVIOUS
  <1>4. q[i].flow = f /\ k = Len(q) - i /\ i \in 0 .. Len(q)
    BY <1>3
  <1> DEFINE b == SubSeq(q, i + 1, Len(q))
  <1>5. /\ SubSeq(q, 1, i) \in Seq(FqPacket) /\ b \in Seq(FqPacket)
        /\ SubSeq(q, 1, i) \o b = q /\ Len(b) = k
        /\ \A j \in 1 .. k : b[j] = q[i + j]
    <2>1. /\ SubSeq(q, 1, i) \in Seq(FqPacket) /\ b \in Seq(FqPacket)
          /\ SubSeq(q, 1, i) \o b = q /\ Len(b) = Len(q) - i
          /\ \A j \in 1 .. Len(q) - i : b[j] = q[i + j]
      BY <1>4, Split, Zenon
    <2> HIDE DEF b
    <2>2. QED
      BY <1>4, <2>1
  <1> HIDE DEF b
  <1>6. ~Present(b, f)
    <2>1. ASSUME NEW j \in 1 .. k PROVE q[i + j].flow # f
      <3>1. k - j \in 0 .. Len(q) - 1 /\ ~(k <= k - j) /\ Len(q) - (k - j) = i + j
        BY <1>3, <1>4
      <3>2. QED
        BY <1>2, <3>1
    <2>2. QED
      BY <1>5, <2>1 DEF Present
  <1>7. FlowBytes(q, f) = FlowBytes(SubSeq(q, 1, i), f)
    <2>1. PICK a \in Seq(FqPacket) : a = SubSeq(q, 1, i)
      BY <1>5
    <2>2. FlowBytes(a \o b, f) = FlowBytes(a, f) + FlowBytes(b, f)
      BY <1>5, FqConcat
    <2>3. FlowBytes(b, f) = 0 /\ FlowBytes(a, f) \in Nat
      BY <1>5, <1>6, FqSums
    <2>4. a \o b = q
      BY <1>5, <2>1
    <2>5. FlowBytes(q, f) = FlowBytes(a, f)
      BY <2>2, <2>3, <2>4
    <2>6. QED
      BY <2>1, <2>5
  <1>8. QED
    BY <1>4, <1>7

\* What the bases of the flows with packets are, seen from the line.
LEMMA BasesAre ==
    ASSUME NEW q, NEW base, NEW rn, FairLine(q, base, rn), NEW f \in Flows,
           Present(q, f)
    PROVE  /\ base[f] \in Int /\ base[f] <= rn /\ rn <= base[f] + FQ!MaxPacket
           /\ \E i \in 1 .. Len(q) : q[i].flow = f
                  /\ q[i].round = base[f] + FlowBytes(q, f)
           /\ rn <= base[f] + FlowBytes(q, f)
           /\ FlowBytes(q, f) \in Nat
  <1>1. /\ q \in Seq(FqPacket) /\ base \in [Flows -> Int] /\ rn \in Int
        /\ Stamped(q, base) /\ Sorted(q, rn) /\ Based(q, base, rn)
    BY DEF FairLine
  <1>2. PICK i \in 1 .. Len(q) :
           q[i].flow = f /\ FlowBytes(SubSeq(q, 1, i), f) = q[i].size
    BY <1>1, FirstOf
  <1>3. PICK j \in 1 .. Len(q) :
           q[j].flow = f /\ FlowBytes(SubSeq(q, 1, j), f) = FlowBytes(q, f)
    BY <1>1, LastOf
  <1>4. /\ q[i].round = base[f] + q[i].size /\ rn <= q[i].round
        /\ q[j].round = base[f] + FlowBytes(q, f) /\ rn <= q[j].round
    BY <1>1, <1>2, <1>3 DEF Stamped, Sorted
  <1>5. q[i] \in FqPacket /\ base[f] \in Int /\ base[f] <= rn
    BY <1>1 DEF Based
  <1>6. q[i].size \in Nat /\ q[i].size <= FQ!MaxPacket /\ FQ!MaxPacket \in Nat
    BY <1>5, FqConstants
  <1>7. FlowBytes(q, f) \in Nat
    BY <1>1, FqSums
  <1>8. QED
    BY <1>1, <1>3, <1>4, <1>5, <1>6, <1>7

----------------------------------------------------------------------------
(* The line when a packet leaves it *)

\* A line that is not empty is its head and then its tail, and so are its sums.
LEMMA TailOf ==
    ASSUME NEW q \in Seq(FqPacket), q # <<>>
    PROVE  /\ Head(q) \in FqPacket /\ Tail(q) \in Seq(FqPacket)
           /\ q = <<Head(q)>> \o Tail(q) /\ q[1] = Head(q) /\ 1 \in 1 .. Len(q)
           /\ Len(q) = Len(Tail(q)) + 1
           /\ \A i \in 1 .. Len(Tail(q)) :
                 i + 1 \in 1 .. Len(q) /\ i + 1 > 1 /\ Tail(q)[i] = q[i + 1]
           /\ \A f : /\ FlowBytes(q, f) = FlowBytes(<<Head(q)>>, f) + FlowBytes(Tail(q), f)
                     /\ FlowCount(q, f) = FlowCount(<<Head(q)>>, f) + FlowCount(Tail(q), f)
                     /\ Present(q, f) <=> Head(q).flow = f \/ Present(Tail(q), f)
           /\ SizeOf(q) = Head(q).size + SizeOf(Tail(q))
  <1> DEFINE p == Head(q)
             t == Tail(q)
  <1>1. /\ p \in FqPacket /\ t \in Seq(FqPacket) /\ Len(t) = Len(q) - 1
        /\ \A i \in 1 .. Len(t) : t[i] = q[i + 1]
    BY HeadTailProperties
  <1>2. q = <<p>> \o t /\ q[1] = p /\ 1 \in 1 .. Len(q) /\ Len(q) \in Nat
    OBVIOUS
  <1> HIDE DEF p, t
  <1>3. /\ Len(q) = Len(t) + 1
        /\ \A i \in 1 .. Len(t) : i + 1 \in 1 .. Len(q) /\ i + 1 > 1
    BY <1>1, <1>2
  <1>4. <<p>> \in Seq(FqPacket)
    BY <1>1
  <1>5. \A f : /\ FlowBytes(<<p>> \o t, f) = FlowBytes(<<p>>, f) + FlowBytes(t, f)
               /\ FlowCount(<<p>> \o t, f) = FlowCount(<<p>>, f) + FlowCount(t, f)
               /\ Present(<<p>> \o t, f) <=> Present(<<p>>, f) \/ Present(t, f)
               /\ SizeOf(<<p>> \o t) = SizeOf(<<p>>) + SizeOf(t)
    BY <1>1, <1>4, FqConcat
  <1>6. \A f : Present(<<p>>, f) <=> p.flow = f
    BY <1>1, FqOne
  <1>7. SizeOf(<<p>>) = p.size
    BY <1>1, FqOne
  <1>8. QED
    BY <1>1, <1>2, <1>3, <1>5, <1>6, <1>7 DEF p, t

\* The bytes up to a packet, once the head of the line has left.
LEMMA UpToInTail ==
    ASSUME NEW q \in Seq(FqPacket), q # <<>>, NEW i \in 1 .. Len(Tail(q)), NEW f
    PROVE  FlowBytes(SubSeq(q, 1, i + 1), f)
               = FlowBytes(<<Head(q)>>, f) + FlowBytes(SubSeq(Tail(q), 1, i), f)
  <1> DEFINE h == <<Head(q)>>
             t == Tail(q)
  <1>1. h \in Seq(FqPacket) /\ t \in Seq(FqPacket) /\ q = h \o t /\ Len(h) = 1
    BY TailOf
  <1> HIDE DEF h, t
  <1>2. i \in 0 .. Len(t) /\ i \in Nat
    BY DEF t
  <1>3. PICK a, b \in Seq(FqPacket) : Parts(t, i, a, b)
    BY <1>1, <1>2, FqSplit
  <1>4. q = (h \o a) \o b /\ Len(a) = i /\ a = SubSeq(t, 1, i)
    BY <1>1, <1>3, Zenon DEF Parts
  <1>5. h \o a \in Seq(FqPacket) /\ Len(h \o a) = i + 1
    <2>1. h \o a \in Seq(FqPacket) /\ Len(h \o a) = Len(h) + Len(a)
      BY <1>1, ConcatProperties
    <2>2. QED
      BY <1>1, <1>2, <1>4, <2>1
  <1>6. SubSeq(q, 1, i + 1) = h \o a
    <2>1. PICK g \in Seq(FqPacket) : g = h \o a
      BY <1>5
    <2>2. SubSeq(g \o b, 1, Len(g)) = g
      BY FrontOf
    <2>3. QED
      BY <1>4, <1>5, <2>1, <2>2
  <1>7. FlowBytes(h \o a, f) = FlowBytes(h, f) + FlowBytes(a, f)
    BY <1>1, FqConcat
  <1>8. QED
    BY <1>4, <1>6, <1>7 DEF h, t

\* When the head of the line leaves (completeService), the base of its flow
\* rises by its size and the rest is a fair line at the next round.
LEMMA LineSends ==
    ASSUME NEW q, NEW base, NEW rn, FairLine(q, base, rn), q # <<>>,
           Head(q).round = rn, NEW r,
           Tail(q) = <<>> => r = rn, Tail(q) # <<>> => r = Head(Tail(q)).round
    PROVE  FairLine(Tail(q), [base EXCEPT ![Head(q).flow] = @ + Head(q).size], r)
  <1> DEFINE p == Head(q)
             t == Tail(q)
             bt == [base EXCEPT ![p.flow] = @ + p.size]
  <1>1. /\ q \in Seq(FqPacket) /\ base \in [Flows -> Int] /\ rn \in Int
        /\ Stamped(q, base) /\ Sorted(q, rn) /\ Based(q, base, rn)
    BY DEF FairLine
  <1>2. /\ p \in FqPacket /\ t \in Seq(FqPacket) /\ q[1] = p /\ 1 \in 1 .. Len(q)
        /\ \A i \in 1 .. Len(t) : i + 1 \in 1 .. Len(q) /\ i + 1 > 1 /\ t[i] = q[i + 1]
        /\ \A f : Present(q, f) <=> p.flow = f \/ Present(t, f)
    BY <1>1, TailOf
  <1>3. p.flow \in Flows /\ p.size \in Nat /\ p.round \in Int
    <2> HIDE DEF p
    <2>1. QED
      BY <1>2, FqConstants
  <1>4. bt \in [Flows -> Int] /\ bt[p.flow] = base[p.flow] + p.size
        /\ \A f \in Flows : f # p.flow => bt[f] = base[f]
    <2> HIDE DEF p
    <2>1. base[p.flow] \in Int /\ base[p.flow] + p.size \in Int
      BY <1>1, <1>3
    <2>2. QED
      BY <1>1, <1>3, <2>1
  <1>5. \A i \in 1 .. Len(t) : \A f : FlowBytes(SubSeq(q, 1, i + 1), f)
               = FlowBytes(<<p>>, f) + FlowBytes(SubSeq(t, 1, i), f)
    BY <1>1, UpToInTail
  <1>6. t = <<>> => r = rn
    OBVIOUS
  <1>7. t # <<>> => r = t[1].round /\ 1 \in 1 .. Len(t)
    BY <1>2
  <1>8. p.round = rn
    OBVIOUS
  <1> HIDE DEF p, t, bt
  <1>9. Stamped(t, bt)
    <2> SUFFICES ASSUME NEW i \in 1 .. Len(t)
                 PROVE  t[i].round = bt[t[i].flow] + FlowBytes(SubSeq(t, 1, i), t[i].flow)
      BY DEF Stamped
    <2>1. PICK f \in Flows : f = t[i].flow
      BY <1>2, FqConstants
    <2>2. t[i].round = base[f] + FlowBytes(SubSeq(q, 1, i + 1), f)
      BY <1>1, <1>2, <2>1 DEF Stamped
    <2>3. FlowBytes(SubSeq(q, 1, i + 1), f)
              = FlowBytes(<<p>>, f) + FlowBytes(SubSeq(t, 1, i), f)
      BY <1>5
    <2>4. FlowBytes(SubSeq(t, 1, i), f) \in Nat /\ base[f] \in Int
      BY <1>1, <1>2, UpTo
    <2>5. /\ p.flow = f => FlowBytes(<<p>>, f) = p.size
          /\ p.flow # f => FlowBytes(<<p>>, f) = 0
      BY <1>2, FqOne
    <2>6. t[i].round = bt[f] + FlowBytes(SubSeq(t, 1, i), f)
      BY <1>3, <1>4, <2>2, <2>3, <2>4, <2>5
    <2>7. QED
      BY <2>1, <2>6
  <1>10. r \in Int /\ rn <= r /\ \A i \in 1 .. Len(t) : r <= t[i].round
    <2>1. CASE t = <<>>
      BY <1>1, <1>6, <2>1
    <2>2. CASE t # <<>>
      <3>1. t[1] = q[2] /\ r = t[1].round /\ 1 \in 1 .. Len(t) /\ 2 \in 1 .. Len(q)
        BY <1>2, <1>7, <2>2
      <3>2. t[1] \in FqPacket
        BY <1>2, <3>1
      <3>3. r \in Int /\ rn <= r
        BY <1>1, <3>1, <3>2, FqConstants DEF Sorted
      <3>4. ASSUME NEW i \in 1 .. Len(t) PROVE r <= t[i].round
        <4>1. i = 1 \/ 2 < i + 1
          OBVIOUS
        <4>2. CASE i = 1
          BY <3>1, <3>3, <4>2
        <4>3. CASE 2 < i + 1
          <5>1. q[2].round <= q[i + 1].round
            BY <1>1, <1>2, <3>1, <4>3 DEF Sorted
          <5>2. QED
            BY <1>2, <3>1, <5>1
        <4>4. QED
          BY <4>1, <4>2, <4>3
      <3>5. QED
        BY <3>3, <3>4
    <2>3. QED
      BY <2>1, <2>2
  <1>11. Sorted(t, r)
    <2>1. ASSUME NEW i \in 1 .. Len(t), NEW j \in 1 .. Len(t), i < j
          PROVE  t[i].round <= t[j].round
      <3>1. i + 1 < j + 1 /\ i + 1 \in 1 .. Len(q) /\ j + 1 \in 1 .. Len(q)
        BY <1>2, <2>1
      <3>2. QED
        BY <1>1, <1>2, <3>1 DEF Sorted
    <2>2. QED
      BY <1>10, <2>1 DEF Sorted
  <1>12. Based(t, bt, r)
    <2> SUFFICES ASSUME NEW f \in Flows, Present(t, f) PROVE bt[f] <= r
      BY DEF Based
    <2>1. base[f] \in Int /\ base[f] <= rn
      BY <1>1, <1>2 DEF Based
    <2>2. CASE f = p.flow
      <3>1. p.round = base[f] + FlowBytes(SubSeq(q, 1, 1), f)
        BY <1>1, <1>2, <2>2 DEF Stamped
      <3>2. FlowBytes(SubSeq(q, 1, 1), f) = p.size
        <4>1. /\ FlowBytes(SubSeq(q, 1, 1), f) = FlowBytes(SubSeq(q, 1, 1 - 1), f)
                    + (IF q[1].flow = f THEN q[1].size ELSE 0)
              /\ SubSeq(q, 1, 1 - 1) \in Seq(FqPacket)
          BY <1>1, <1>2, UpTo
        <4>2. 1 - 1 = 0 /\ SubSeq(q, 1, 0) = <<>>
          BY SubSeqEmpty
        <4>3. FlowBytes(<<>>, f) = 0
          <5>1. <<>> \in Seq(FqPacket) /\ ~Present(<<>>, f)
            BY DEF Present
          <5>2. QED
            BY <5>1, FqSums
        <4>4. FlowBytes(SubSeq(q, 1, 1), f) = 0 + p.size
          <5>1. FlowBytes(SubSeq(q, 1, 1 - 1), f) = 0
            BY <4>2, <4>3
          <5>2. (IF q[1].flow = f THEN q[1].size ELSE 0) = p.size
            BY <1>2, <2>2
          <5>3. QED
            BY <4>1, <5>1, <5>2
        <4>5. QED
          BY <1>3, <4>4
      <3>3. QED
        BY <1>4, <1>8, <1>10, <2>2, <3>1, <3>2
    <2>3. CASE f # p.flow
      BY <1>1, <1>4, <1>10, <2>1, <2>3
    <2>4. QED
      BY <2>2, <2>3
  <1>13. FairLine(t, bt, r)
    BY <1>2, <1>4, <1>9, <1>10, <1>11, <1>12 DEF FairLine
  <1>14. QED
    BY <1>13 DEF p, t, bt

----------------------------------------------------------------------------
(* The line when a packet joins it *)

\* No round of a flow is beyond its base and all its bytes.
LEMMA RoundAtMost ==
    ASSUME NEW q, NEW base, NEW rn, FairLine(q, base, rn), NEW i \in 1 .. Len(q)
    PROVE  /\ q[i].round <= base[q[i].flow] + FlowBytes(q, q[i].flow)
           /\ q[i] \in FqPacket /\ base[q[i].flow] \in Int
           /\ FlowBytes(q, q[i].flow) \in Nat
  <1>1. q \in Seq(FqPacket) /\ Stamped(q, base) /\ base \in [Flows -> Int]
    BY DEF FairLine
  <1>2. PICK f \in Flows : f = q[i].flow /\ q[i] \in FqPacket
    BY <1>1, FqConstants
  <1>3. i \in 0 .. Len(q)
    BY <1>1
  <1>4. PICK a, b \in Seq(FqPacket) : a = SubSeq(q, 1, i) /\ a \o b = q
    <2>1. PICK a, b \in Seq(FqPacket) : Parts(q, i, a, b)
      BY <1>1, <1>3, FqSplit
    <2>2. QED
      BY <2>1, Zenon DEF Parts
  <1>5. FlowBytes(q, f) = FlowBytes(a, f) + FlowBytes(b, f)
    <2>1. FlowBytes(a \o b, f) = FlowBytes(a, f) + FlowBytes(b, f)
      BY FqConcat
    <2>2. QED
      BY <1>4, <2>1, Zenon
  <1>6. FlowBytes(a, f) \in Nat /\ FlowBytes(b, f) \in Nat /\ base[f] \in Int
    BY <1>1, FqSums
  <1>7. q[i].round = base[f] + FlowBytes(a, f)
    BY <1>1, <1>2, <1>4 DEF Stamped
  <1>8. QED
    BY <1>2, <1>5, <1>6, <1>7

\* Places in a line that one packet has joined.
IsJoined(a, b, p, q, t, n) ==
    /\ q \in Seq(FqPacket) /\ t \in Seq(FqPacket) /\ n \in 0 .. Len(q)
    /\ Len(t) = Len(q) + 1 /\ t[n + 1] = p
    /\ \A j \in 1 .. n : t[j] = q[j] /\ t[j] = a[j]
    /\ \A j \in n + 1 .. Len(q) :
          t[j + 1] = q[j] /\ j - n \in 1 .. Len(b) /\ q[j] = b[j - n]
    /\ \A f : Present(t, f) <=> Present(q, f) \/ p.flow = f
    /\ \A f : FlowBytes(t, f) = FlowBytes(q, f) + FlowBytes(<<p>>, f)
    /\ \A f : FlowCount(t, f) = FlowCount(q, f) + FlowCount(<<p>>, f)
    /\ SizeOf(t) = SizeOf(q) + p.size
    /\ n = Len(a) /\ Len(q) = n + Len(b)
    /\ \A f : FlowBytes(q, f) = FlowBytes(a, f) + FlowBytes(b, f)
    /\ \A f : Present(q, f) <=> Present(a, f) \/ Present(b, f)

\* A packet put between two parts of a line: where each packet of the old line
\* is in the new one.
LEMMA Joined ==
    ASSUME NEW a \in Seq(FqPacket), NEW b \in Seq(FqPacket), NEW p \in FqPacket,
           NEW q, q = a \o b, NEW t, t = (a \o <<p>>) \o b, NEW n, n = Len(a)
    PROVE  IsJoined(a, b, p, q, t, n)
  <1>1. PICK s \in Seq(FqPacket) : s = <<p>> /\ Len(s) = 1 /\ s[1] = p
    BY FqOne
  <1>2. PICK u \in Seq(FqPacket) : u = a \o s /\ t = u \o b
    <2>1. a \o s \in Seq(FqPacket)
      BY ConcatProperties
    <2>2. QED
      BY <1>1, <2>1
  <1>3. /\ Len(u) = Len(a) + Len(s)
        /\ \A i \in 1 .. Len(a) + Len(s) :
              u[i] = IF i <= Len(a) THEN a[i] ELSE s[i - Len(a)]
    BY <1>2, ConcatProperties
  <1>4. /\ t \in Seq(FqPacket) /\ Len(t) = Len(u) + Len(b)
        /\ \A i \in 1 .. Len(u) + Len(b) :
              t[i] = IF i <= Len(u) THEN u[i] ELSE b[i - Len(u)]
    <2>1. /\ u \o b \in Seq(FqPacket) /\ Len(u \o b) = Len(u) + Len(b)
          /\ \A i \in 1 .. Len(u) + Len(b) :
                (u \o b)[i] = IF i <= Len(u) THEN u[i] ELSE b[i - Len(u)]
      BY ConcatProperties
    <2>2. QED
      BY <1>2, <2>1, Zenon
  <1>5. /\ q \in Seq(FqPacket) /\ Len(q) = Len(a) + Len(b)
        /\ \A i \in 1 .. Len(a) + Len(b) :
              q[i] = IF i <= Len(a) THEN a[i] ELSE b[i - Len(a)]
    BY ConcatProperties
  <1>6. Len(a) \in Nat /\ Len(b) \in Nat /\ n \in Nat
    OBVIOUS
  <1>7. /\ n \in 0 .. Len(q) /\ Len(t) = Len(q) + 1 /\ Len(u) = n + 1
    BY <1>1, <1>3, <1>4, <1>5, <1>6
  <1>8. t[n + 1] = p
    <2>1. n + 1 \in 1 .. Len(u) + Len(b) /\ n + 1 <= Len(u) /\ n + 1 \in 1 .. Len(a) + Len(s)
          /\ ~(n + 1 <= Len(a)) /\ (n + 1) - Len(a) = 1
      BY <1>1, <1>6, <1>7
    <2>2. QED
      BY <1>1, <1>3, <1>4, <2>1
  <1>9. ASSUME NEW j \in 1 .. n PROVE t[j] = q[j] /\ t[j] = a[j]
    <2>1. j \in 1 .. Len(u) + Len(b) /\ j <= Len(u) /\ j \in 1 .. Len(a) + Len(s)
          /\ j <= Len(a) /\ j \in 1 .. Len(a) + Len(b)
      BY <1>1, <1>6, <1>7
    <2>2. QED
      BY <1>3, <1>4, <1>5, <2>1
  <1>10. ASSUME NEW j \in n + 1 .. Len(q)
         PROVE  t[j + 1] = q[j] /\ j - n \in 1 .. Len(b) /\ q[j] = b[j - n]
    <2>1. j + 1 \in 1 .. Len(u) + Len(b) /\ ~(j + 1 <= Len(u))
          /\ (j + 1) - Len(u) = j - n /\ ~(j <= Len(a)) /\ j \in 1 .. Len(a) + Len(b)
          /\ j - Len(a) = j - n /\ j - n \in 1 .. Len(b)
      BY <1>5, <1>6, <1>7
    <2>2. QED
      BY <1>4, <1>5, <2>1
  <1>11. ASSUME NEW f
         PROVE  /\ Present(t, f) <=> Present(q, f) \/ p.flow = f
                /\ FlowBytes(t, f) = FlowBytes(q, f) + FlowBytes(<<p>>, f)
                /\ FlowCount(t, f) = FlowCount(q, f) + FlowCount(<<p>>, f)
                /\ SizeOf(t) = SizeOf(q) + p.size
                /\ FlowBytes(q, f) = FlowBytes(a, f) + FlowBytes(b, f)
                /\ Present(q, f) <=> Present(a, f) \/ Present(b, f)
    <2>1. /\ FlowBytes(u, f) = FlowBytes(a, f) + FlowBytes(s, f)
          /\ FlowCount(u, f) = FlowCount(a, f) + FlowCount(s, f)
          /\ SizeOf(u) = SizeOf(a) + SizeOf(s)
          /\ Present(u, f) <=> Present(a, f) \/ Present(s, f)
      BY <1>2, FqConcat
    <2>2. /\ FlowBytes(t, f) = FlowBytes(u, f) + FlowBytes(b, f)
          /\ FlowCount(t, f) = FlowCount(u, f) + FlowCount(b, f)
          /\ SizeOf(t) = SizeOf(u) + SizeOf(b)
          /\ Present(t, f) <=> Present(u, f) \/ Present(b, f)
      <3>1. /\ FlowBytes(u \o b, f) = FlowBytes(u, f) + FlowBytes(b, f)
            /\ FlowCount(u \o b, f) = FlowCount(u, f) + FlowCount(b, f)
            /\ SizeOf(u \o b) = SizeOf(u) + SizeOf(b)
            /\ Present(u \o b, f) <=> Present(u, f) \/ Present(b, f)
        BY FqConcat
      <3>2. QED
        BY <1>2, <3>1, Zenon
    <2>3. /\ FlowBytes(q, f) = FlowBytes(a, f) + FlowBytes(b, f)
          /\ FlowCount(q, f) = FlowCount(a, f) + FlowCount(b, f)
          /\ SizeOf(q) = SizeOf(a) + SizeOf(b)
          /\ Present(q, f) <=> Present(a, f) \/ Present(b, f)
      BY FqConcat
    <2>4. SizeOf(s) = p.size /\ (Present(s, f) <=> p.flow = f)
      BY <1>1, FqOne
    <2>5. /\ FlowBytes(a, f) \in Nat /\ FlowBytes(b, f) \in Nat /\ FlowBytes(s, f) \in Nat
          /\ FlowCount(a, f) \in Nat /\ FlowCount(b, f) \in Nat /\ FlowCount(s, f) \in Nat
          /\ SizeOf(a) \in Nat /\ SizeOf(b) \in Nat /\ SizeOf(s) \in Nat
      BY FqSums
    <2>6. Present(t, f) <=> Present(q, f) \/ p.flow = f
      BY <2>1, <2>2, <2>3, <2>4, Zenon
    <2>7. FlowBytes(t, f) = FlowBytes(q, f) + FlowBytes(s, f)
      BY <2>1, <2>2, <2>3, <2>5, SMTT(30)
    <2>8. FlowCount(t, f) = FlowCount(q, f) + FlowCount(s, f)
      BY <2>1, <2>2, <2>3, <2>5, SMTT(30)
    <2>9. SizeOf(t) = SizeOf(q) + SizeOf(s)
      BY <2>1, <2>2, <2>3, <2>5, SMTT(30)
    <2>10. QED
      BY <1>1, <2>3, <2>4, <2>6, <2>7, <2>8, <2>9, Zenon
  <1>12. QED
    BY <1>4, <1>5, <1>7, <1>8, <1>9, <1>10, <1>11 DEF IsJoined

\* The bytes up to a packet of a line that one packet has joined.
JoinedBytes(a, p, q, t, n, f) ==
    /\ \A j \in 1 .. n :
          FlowBytes(SubSeq(t, 1, j), f) = FlowBytes(SubSeq(q, 1, j), f)
    /\ FlowBytes(SubSeq(t, 1, n + 1), f) = FlowBytes(a, f) + FlowBytes(<<p>>, f)
    /\ \A j \in n + 1 .. Len(q) :
          FlowBytes(SubSeq(t, 1, j + 1), f)
              = FlowBytes(SubSeq(q, 1, j), f) + FlowBytes(<<p>>, f)

\* The bytes of a flow up to each place of the new line: the packet counts for
\* its own flow, behind its place.
LEMMA UpToJoined ==
    ASSUME NEW a \in Seq(FqPacket), NEW b \in Seq(FqPacket), NEW p \in FqPacket,
           NEW q, q = a \o b, NEW t, t = (a \o <<p>>) \o b, NEW n, n = Len(a), NEW f
    PROVE  JoinedBytes(a, p, q, t, n, f)
  <1>1. PICK s \in Seq(FqPacket) : s = <<p>> /\ Len(s) = 1
    BY FqOne
  <1>2. PICK u \in Seq(FqPacket) : u = a \o s /\ t = u \o b /\ Len(u) = n + 1
    <2>1. a \o s \in Seq(FqPacket) /\ Len(a \o s) = Len(a) + Len(s)
      BY ConcatProperties
    <2>2. QED
      BY <1>1, <2>1
  <1>3. ASSUME NEW j \in 1 .. n PROVE SubSeq(t, 1, j) = SubSeq(q, 1, j)
    <2>1. 1 \in 1 .. Len(a) /\ j \in 1 .. Len(a) /\ 1 \in 1 .. Len(u) /\ j \in 1 .. Len(u)
      BY <1>2
    <2>2. SubSeq(a \o b, 1, j) = SubSeq(a, 1, j)
      BY <2>1, SubSeqOfConcat1
    <2>3. SubSeq(u \o b, 1, j) = SubSeq(u, 1, j)
      BY <2>1, SubSeqOfConcat1
    <2>4. SubSeq(a \o s, 1, j) = SubSeq(a, 1, j)
      BY <2>1, SubSeqOfConcat1
    <2>5. QED
      BY <1>2, <2>2, <2>3, <2>4
  <1>4. FlowBytes(SubSeq(t, 1, n + 1), f) = FlowBytes(a, f) + FlowBytes(<<p>>, f)
    <2>1. SubSeq(u \o b, 1, Len(u)) = u
      BY FrontOf
    <2>2. FlowBytes(a \o s, f) = FlowBytes(a, f) + FlowBytes(s, f)
      BY FqConcat
    <2>3. QED
      BY <1>1, <1>2, <2>1, <2>2
  <1>5. ASSUME NEW j \in n + 1 .. Len(q)
        PROVE  FlowBytes(SubSeq(t, 1, j + 1), f)
                   = FlowBytes(SubSeq(q, 1, j), f) + FlowBytes(<<p>>, f)
    <2>1. Len(q) = Len(a) + Len(b) /\ Len(a) \in Nat /\ Len(b) \in Nat
      BY ConcatProperties
    <2>2. PICK k \in 0 .. Len(b) : j = n + k
      <3>1. j - n \in 0 .. Len(b) /\ j = n + (j - n)
        BY <2>1
      <3>2. QED
        BY <3>1
    <2>3. PICK x, y \in Seq(FqPacket) :
             Len(x) = k /\ \A c \in Seq(FqPacket) : (c \o x) \o y = c \o b
      <3>1. PICK x, y \in Seq(FqPacket) : Parts(b, k, x, y)
        BY FqSplit
      <3>2. QED
        BY <3>1, Zenon DEF Parts
    <2>4. (a \o x) \o y = a \o b /\ (u \o x) \o y = u \o b
      BY <2>3
    <2>5. PICK c \in Seq(FqPacket), d \in Seq(FqPacket) :
             /\ c = a \o x /\ Len(c) = j /\ c \o y = q
             /\ d = u \o x /\ Len(d) = j + 1 /\ d \o y = t
      <3>1. a \o x \in Seq(FqPacket) /\ Len(a \o x) = Len(a) + Len(x)
        BY ConcatProperties
      <3>2. u \o x \in Seq(FqPacket) /\ Len(u \o x) = Len(u) + Len(x)
        BY ConcatProperties
      <3>3. Len(a) + Len(x) = j /\ Len(u) + Len(x) = j + 1
        BY <1>2, <2>1, <2>2, <2>3
      <3>4. QED
        BY <1>2, <2>4, <3>1, <3>2, <3>3
    <2>6. SubSeq(c \o y, 1, Len(c)) = c /\ SubSeq(d \o y, 1, Len(d)) = d
      BY FrontOf
    <2>7. SubSeq(q, 1, j) = c /\ SubSeq(t, 1, j + 1) = d
      BY <2>5, <2>6
    <2>8. /\ FlowBytes(a \o x, f) = FlowBytes(a, f) + FlowBytes(x, f)
          /\ FlowBytes(u \o x, f) = FlowBytes(u, f) + FlowBytes(x, f)
          /\ FlowBytes(a \o s, f) = FlowBytes(a, f) + FlowBytes(s, f)
      BY FqConcat
    <2>9. FlowBytes(a, f) \in Nat /\ FlowBytes(x, f) \in Nat /\ FlowBytes(s, f) \in Nat
      BY FqSums
    <2>10. FlowBytes(d, f) = (FlowBytes(a, f) + FlowBytes(s, f)) + FlowBytes(x, f)
           /\ FlowBytes(c, f) = FlowBytes(a, f) + FlowBytes(x, f)
      BY <1>2, <2>5, <2>8, Zenon
    <2>11. FlowBytes(d, f) = FlowBytes(c, f) + FlowBytes(s, f)
      BY <2>9, <2>10
    <2>12. QED
      BY <1>1, <2>7, <2>11, Zenon
  <1>6. QED
    BY <1>3, <1>4, <1>5, Zenon DEF JoinedBytes

\* The round a packet gets and the base of its flow from then on.
Charges(q, base, rn, p, bt) ==
    /\ Present(q, p.flow) =>
          bt = base /\ p.round = base[p.flow] + FlowBytes(q, p.flow) + p.size
    /\ ~Present(q, p.flow) =>
          bt = [base EXCEPT ![p.flow] = rn] /\ p.round = rn + p.size

\* What the base, and the bytes, of a packet's flow are once it has joined.
Taken(p, q, t, base, rn, bt) ==
    /\ bt[p.flow] + FlowBytes(t, p.flow) = p.round
    /\ \A g \in Flows : Present(q, g) \/ g # p.flow => bt[g] = base[g]
    /\ ~Present(q, p.flow) => bt[p.flow] = rn

JoinedUpTo(a, p, q, t, n) == \A g : JoinedBytes(a, p, q, t, n, g)

Between(a, b, p) ==
    /\ \A i \in 1 .. Len(a) : a[i].round <= p.round
    /\ \A i \in 1 .. Len(b) : p.round <= b[i].round

\* When a packet takes its place behind all packets of its round (the upper
\* bound of receivePacket), the line remains fair.
LEMMA LineTakes ==
    ASSUME NEW a \in Seq(FqPacket), NEW b \in Seq(FqPacket), NEW p \in FqPacket,
           NEW q, NEW t, NEW n, IsJoined(a, b, p, q, t, n),
           JoinedUpTo(a, p, q, t, n), NEW base, NEW rn, FairLine(q, base, rn),
           NEW bt, Charges(q, base, rn, p, bt), Between(a, b, p)
    PROVE  /\ FairLine(t, bt, rn) /\ ~Present(b, p.flow)
           /\ Taken(p, q, t, base, rn, bt)
  <1> DEFINE f == p.flow
  <1>1. /\ q \in Seq(FqPacket) /\ base \in [Flows -> Int] /\ rn \in Int
        /\ Stamped(q, base) /\ Sorted(q, rn) /\ Based(q, base, rn)
    BY DEF FairLine
  <1>2. /\ t \in Seq(FqPacket) /\ n \in 0 .. Len(q)
        /\ Len(t) = Len(q) + 1 /\ t[n + 1] = p
        /\ \A j \in 1 .. n : t[j] = q[j] /\ t[j] = a[j]
        /\ \A j \in n + 1 .. Len(q) :
              t[j + 1] = q[j] /\ j - n \in 1 .. Len(b) /\ q[j] = b[j - n]
        /\ \A g : Present(t, g) <=> Present(q, g) \/ f = g
        /\ \A g : FlowBytes(t, g) = FlowBytes(q, g) + FlowBytes(<<p>>, g)
    BY Zenon DEF IsJoined
  <1>3. \A g : /\ \A j \in 1 .. n :
                     FlowBytes(SubSeq(t, 1, j), g) = FlowBytes(SubSeq(q, 1, j), g)
               /\ FlowBytes(SubSeq(t, 1, n + 1), g) = FlowBytes(a, g) + FlowBytes(<<p>>, g)
               /\ \A j \in n + 1 .. Len(q) :
                     FlowBytes(SubSeq(t, 1, j + 1), g)
                         = FlowBytes(SubSeq(q, 1, j), g) + FlowBytes(<<p>>, g)
    BY Zenon DEF JoinedUpTo, JoinedBytes
  <1>4. f \in Flows /\ p.size \in Nat \ {0} /\ p.round \in Int
    BY FqConstants
  <1>5. \A g : /\ FlowBytes(q, g) \in Nat /\ FlowBytes(a, g) \in Nat
               /\ FlowBytes(b, g) \in Nat
               /\ FlowBytes(q, g) = FlowBytes(a, g) + FlowBytes(b, g)
               /\ Present(q, g) <=> Present(a, g) \/ Present(b, g)
    <2>1. \A g : /\ FlowBytes(q, g) = FlowBytes(a, g) + FlowBytes(b, g)
                 /\ Present(q, g) <=> Present(a, g) \/ Present(b, g)
      BY Zenon DEF IsJoined
    <2>2. \A g : FlowBytes(q, g) \in Nat /\ FlowBytes(a, g) \in Nat
                 /\ FlowBytes(b, g) \in Nat
      BY <1>1, FqSums
    <2>3. QED
      BY <2>1, <2>2, Zenon
  <1>6. \A g : /\ f = g => FlowBytes(<<p>>, g) = p.size
               /\ f # g => FlowBytes(<<p>>, g) = 0
    BY FqOne
  <1>7. n \in Nat /\ Len(q) \in Nat /\ Len(q) = n + Len(b) /\ Len(b) \in Nat
    BY <1>1, <1>2 DEF IsJoined
  <1>8. \A i \in 1 .. n : a[i].round <= p.round
    BY DEF IsJoined, Between
  <1>9. \A i \in 1 .. Len(b) : p.round <= b[i].round
    BY DEF Between
  <1>10. /\ Present(q, f) => bt = base /\ p.round = base[f] + FlowBytes(q, f) + p.size
         /\ ~Present(q, f) => bt = [base EXCEPT ![f] = rn] /\ p.round = rn + p.size
    BY DEF Charges
  <1> HIDE DEF f
  <1>11. bt \in [Flows -> Int] /\ bt[f] \in Int /\ base[f] \in Int
    BY <1>1, <1>4, <1>10
  <1>12. \A g \in Flows : Present(q, g) \/ g # f => bt[g] = base[g]
    BY <1>1, <1>4, <1>10
  <1>13. ~Present(q, f) => bt[f] = rn
    BY <1>1, <1>4, <1>10
  <1>14. p.round = bt[f] + FlowBytes(q, f) + p.size
    <2>1. ~Present(q, f) => FlowBytes(q, f) = 0
      BY <1>1, FqSums
    <2>2. QED
      BY <1>1, <1>4, <1>5, <1>10, <1>13, <2>1
  <1>15. rn <= p.round /\ bt[f] <= rn
    <2>1. CASE Present(q, f)
      <3>1. rn <= base[f] + FlowBytes(q, f) /\ base[f] <= rn
        BY <1>4, <2>1, BasesAre
      <3>2. QED
        BY <1>1, <1>4, <1>5, <1>10, <1>11, <2>1, <3>1
    <2>2. CASE ~Present(q, f)
      BY <1>1, <1>4, <1>10, <1>13, <2>2
    <2>3. QED
      BY <2>1, <2>2
  <1>16. ~Present(b, f)
    <2> SUFFICES ASSUME NEW i \in 1 .. Len(b), b[i].flow = f PROVE FALSE
      BY DEF Present
    <2>1. PICK k \in n + 1 .. Len(q) : k = n + i /\ k \in 1 .. Len(q) /\ k - n = i
      BY <1>7
    <2>2. q[k] = b[i]
      BY <1>2, <2>1
    <2>3. Present(q, f) /\ q[k].flow = f
      BY <2>1, <2>2 DEF Present
    <2>4. q[k].round <= base[f] + FlowBytes(q, f) /\ q[k] \in FqPacket
      BY <2>1, <2>3, RoundAtMost
    <2>5. q[k].round \in Int /\ p.round <= q[k].round
      BY <1>9, <2>2, <2>4, FqConstants
    <2>6. p.round = base[f] + FlowBytes(q, f) + p.size
      BY <1>10, <2>3
    <2>7. FlowBytes(q, f) \in Nat /\ base[f] \in Int /\ p.size \in Nat \ {0}
      BY <1>4, <1>5, <1>11
    <2>8. QED
      BY <2>4, <2>5, <2>6, <2>7
  <1>17. \A g : g = f => FlowBytes(a, g) = FlowBytes(q, g)
    <2>1. FlowBytes(b, f) = 0
      BY <1>16, FqSums
    <2>2. QED
      BY <1>5, <2>1
  <1>18. ASSUME NEW j \in 1 .. Len(t)
         PROVE  j \in 1 .. n \/ j = n + 1 \/ \E i \in n + 1 .. Len(q) : j = i + 1
    <2>1. j \in 1 .. n \/ j = n + 1 \/ (j - 1 \in n + 1 .. Len(q) /\ j = (j - 1) + 1)
      BY <1>2, <1>7
    <2>2. QED
      BY <2>1
  <1>19. Stamped(t, bt)
    <2> SUFFICES ASSUME NEW j \in 1 .. Len(t)
                 PROVE  t[j].round = bt[t[j].flow] + FlowBytes(SubSeq(t, 1, j), t[j].flow)
      BY DEF Stamped
    <2>1. CASE j \in 1 .. n
      <3>1. j \in 1 .. Len(q) /\ t[j] = q[j]
        BY <1>2, <1>7, <2>1
      <3>2. PICK g \in Flows : g = q[j].flow /\ Present(q, g)
        BY <1>1, <3>1, FqConstants DEF Present
      <3>3. q[j].round = base[g] + FlowBytes(SubSeq(q, 1, j), g)
        BY <1>1, <3>1, <3>2 DEF Stamped
      <3>4. bt[g] = base[g] /\ FlowBytes(SubSeq(t, 1, j), g) = FlowBytes(SubSeq(q, 1, j), g)
        BY <1>3, <1>12, <2>1, <3>2
      <3>5. QED
        BY <3>1, <3>2, <3>3, <3>4
    <2>2. CASE j = n + 1
      <3>1. FlowBytes(SubSeq(t, 1, n + 1), f) = FlowBytes(a, f) + FlowBytes(<<p>>, f)
        BY <1>3
      <3>2. FlowBytes(SubSeq(t, 1, n + 1), f) = FlowBytes(q, f) + p.size
        BY <1>6, <1>17, <3>1
      <3>3. p.round = bt[f] + (FlowBytes(q, f) + p.size)
        BY <1>4, <1>5, <1>11, <1>14
      <3>4. t[j] = p /\ p.flow = f
        BY <1>2, <2>2 DEF f
      <3>5. QED
        BY <2>2, <3>2, <3>3, <3>4
    <2>3. ASSUME NEW i \in n + 1 .. Len(q), j = i + 1
          PROVE  t[j].round = bt[t[j].flow] + FlowBytes(SubSeq(t, 1, j), t[j].flow)
      <3>1. t[j] = q[i] /\ i \in 1 .. Len(q) /\ i - n \in 1 .. Len(b) /\ q[i] = b[i - n]
        BY <1>2, <1>7, <2>3
      <3>0. q[i] \in FqPacket
        BY <1>1, <3>1
      <3>2. PICK g \in Flows : g = q[i].flow /\ Present(q, g) /\ Present(b, g)
        BY <3>0, <3>1, FqConstants DEF Present
      <3>3. q[i].round = base[g] + FlowBytes(SubSeq(q, 1, i), g)
        BY <1>1, <3>1, <3>2 DEF Stamped
      <3>4. bt[g] = base[g] /\ g # f
        BY <1>12, <1>16, <3>2
      <3>5. FlowBytes(SubSeq(t, 1, i + 1), g) = FlowBytes(SubSeq(q, 1, i), g) + 0
        BY <1>3, <1>6, <3>4
      <3>6. FlowBytes(SubSeq(q, 1, i), g) \in Nat
        BY <1>1, <3>1, UpTo
      <3>7. FlowBytes(SubSeq(t, 1, j), g) = FlowBytes(SubSeq(q, 1, i), g)
        BY <2>3, <3>5, <3>6
      <3>8. QED
        BY <3>1, <3>2, <3>3, <3>4, <3>7
    <2>4. QED
      BY <1>18, <2>1, <2>2, <2>3
  <1>20. Sorted(t, rn)
    <2>1. ASSUME NEW j \in 1 .. Len(t) PROVE rn <= t[j].round
      <3>1. CASE j \in 1 .. n
        <4>1. j \in 1 .. Len(q) /\ t[j] = q[j]
          BY <1>2, <1>7, <3>1
        <4>2. QED
          BY <1>1, <4>1 DEF Sorted
      <3>2. CASE j = n + 1
        BY <1>2, <1>15, <3>2
      <3>3. ASSUME NEW i \in n + 1 .. Len(q), j = i + 1 PROVE rn <= t[j].round
        <4>1. i \in 1 .. Len(q) /\ t[j] = q[i]
          BY <1>2, <1>7, <3>3
        <4>2. QED
          BY <1>1, <4>1 DEF Sorted
      <3>4. QED
        BY <1>18, <3>1, <3>2, <3>3
    <2>2. ASSUME NEW i \in 1 .. Len(t), NEW j \in 1 .. Len(t), i < j
          PROVE  t[i].round <= t[j].round
      <3>1. CASE j \in 1 .. n
        <4>1. i \in 1 .. n /\ i \in 1 .. Len(q) /\ j \in 1 .. Len(q)
          BY <1>7, <2>2, <3>1
        <4>2. t[i] = q[i] /\ t[j] = q[j]
          BY <1>2, <3>1, <4>1
        <4>3. QED
          BY <1>1, <2>2, <4>1, <4>2 DEF Sorted
      <3>2. CASE j = n + 1
        <4>1. i \in 1 .. n
          BY <1>7, <2>2, <3>2
        <4>2. QED
          BY <1>2, <1>8, <3>2, <4>1
      <3>3. ASSUME NEW k \in n + 1 .. Len(q), j = k + 1 PROVE t[i].round <= t[j].round
        <4>1. k \in 1 .. Len(q) /\ t[j] = q[k] /\ k - n \in 1 .. Len(b) /\ q[k] = b[k - n]
          BY <1>2, <1>7, <3>3
        <4>2. CASE i \in 1 .. n
          <5>1. i < k /\ i \in 1 .. Len(q) /\ t[i] = q[i]
            BY <1>2, <1>7, <4>2
          <5>2. QED
            BY <1>1, <4>1, <5>1 DEF Sorted
        <4>3. CASE i = n + 1
          BY <1>2, <1>9, <4>1, <4>3
        <4>4. ASSUME NEW l \in n + 1 .. Len(q), i = l + 1 PROVE t[i].round <= t[j].round
          <5>1. l < k /\ l \in 1 .. Len(q) /\ t[i] = q[l]
            BY <1>2, <1>7, <2>2, <3>3, <4>4
          <5>2. QED
            BY <1>1, <4>1, <5>1 DEF Sorted
        <4>5. QED
          BY <1>18, <4>2, <4>3, <4>4
      <3>4. QED
        BY <1>18, <3>1, <3>2, <3>3
    <2>3. QED
      BY <2>1, <2>2 DEF Sorted
  <1>21. Based(t, bt, rn)
    <2> SUFFICES ASSUME NEW g \in Flows, Present(t, g) PROVE bt[g] <= rn
      BY DEF Based
    <2>1. CASE g = f
      BY <1>15, <2>1
    <2>2. CASE g # f
      <3>1. Present(q, g)
        BY <1>2, <2>2
      <3>2. QED
        BY <1>1, <1>12, <3>1 DEF Based
    <2>3. QED
      BY <2>1, <2>2
  <1>22. bt[f] + FlowBytes(t, f) = p.round
    <2>1. FlowBytes(t, f) = FlowBytes(q, f) + FlowBytes(<<p>>, f)
          /\ FlowBytes(<<p>>, f) = p.size
      BY <1>2, <1>6, Zenon
    <2>2. FlowBytes(q, f) \in Nat /\ bt[f] \in Int /\ p.size \in Nat
      BY <1>4, <1>5, <1>11
    <2>3. FlowBytes(t, f) = FlowBytes(q, f) + p.size
      BY <2>1, Zenon
    <2>4. QED
      BY <1>14, <2>2, <2>3
  <1>23. FairLine(t, bt, rn)
    BY <1>1, <1>2, <1>11, <1>19, <1>20, <1>21 DEF FairLine
  <1>24. QED
    BY <1>12, <1>13, <1>16, <1>22, <1>23 DEF f, Taken

\* The flow state and the leads once a packet has joined.
CountsAdd(p, fr, np, ft, nt) ==
    /\ ft = [g \in DOMAIN fr \cup {p.flow} |->
                IF g = p.flow THEN p.round ELSE fr[g]]
    /\ nt = [g \in Flows |-> np[g] + (IF g = p.flow THEN 1 ELSE 0)]

\* The flow state after an arrival is again that of the flows with packets, and
\* the leads are kept.
LEMMA CountsTake ==
    ASSUME NEW q, NEW base, NEW rn, FairLine(q, base, rn),
           NEW p \in FqPacket, NEW t \in Seq(FqPacket), NEW bt \in [Flows -> Int],
           NEW fr, NEW np, NEW ld, Counted(q, base, fr, np), Led(q, base, ld),
           NEW a, NEW b, NEW n, IsJoined(a, b, p, q, t, n),
           Taken(p, q, t, base, rn, bt), NEW ft, NEW nt, CountsAdd(p, fr, np, ft, nt)
    PROVE  Counted(t, bt, ft, nt) /\ Led(t, bt, ld)
  <1> DEFINE f == p.flow
             M == FQ!MaxPacket
             fr1 == [g \in DOMAIN fr \cup {f} |-> IF g = f THEN p.round ELSE fr[g]]
             np1 == [g \in Flows |-> np[g] + (IF g = f THEN 1 ELSE 0)]
  <1>1. /\ q \in Seq(FqPacket) /\ base \in [Flows -> Int] /\ rn \in Int
        /\ Based(q, base, rn)
    BY DEF FairLine
  <1>2. f \in Flows /\ M \in Nat
    BY FqConstants
  <1>3. /\ \A g : Present(t, g) <=> Present(q, g) \/ f = g
        /\ \A g : FlowBytes(t, g) = FlowBytes(q, g) + FlowBytes(<<p>>, g)
        /\ \A g : FlowCount(t, g) = FlowCount(q, g) + FlowCount(<<p>>, g)
        /\ bt[f] + FlowBytes(t, f) = p.round
        /\ \A g \in Flows : Present(q, g) \/ g # f => bt[g] = base[g]
        /\ ~Present(q, f) => bt[f] = rn
    BY Zenon DEF IsJoined, Taken
  <1>4. \A g : /\ f = g => FlowCount(<<p>>, g) = 1
               /\ f # g => FlowBytes(<<p>>, g) = 0 /\ FlowCount(<<p>>, g) = 0
    BY FqOne
  <1>5. \A g : FlowBytes(q, g) \in Nat /\ FlowCount(q, g) \in Nat
    BY <1>1, FqSums
  <1> HIDE DEF f, M
  <1>6. /\ np = [g \in Flows |-> FlowCount(q, g)]
        /\ fr = [g \in {h \in Flows : Present(q, h)} |-> base[g] + FlowBytes(q, g)]
    BY DEF Counted
  <1>7. np1 = [g \in Flows |-> FlowCount(t, g)]
    <2>1. ASSUME NEW g \in Flows PROVE np1[g] = FlowCount(t, g)
      <3>1. np[g] = FlowCount(q, g) /\ FlowCount(q, g) \in Nat
        BY <1>5, <1>6
      <3>2. FlowCount(t, g) = FlowCount(q, g) + FlowCount(<<p>>, g)
        BY <1>3
      <3>3. QED
        BY <1>4, <3>1, <3>2
    <2>2. QED
      BY <2>1
  <1>8. fr1 = [g \in {h \in Flows : Present(t, h)} |-> bt[g] + FlowBytes(t, g)]
    <2>1. DOMAIN fr \cup {f} = {h \in Flows : Present(t, h)}
      BY <1>2, <1>3, <1>6
    <2>2. ASSUME NEW g \in DOMAIN fr \cup {f}
          PROVE  (IF g = f THEN p.round ELSE fr[g]) = bt[g] + FlowBytes(t, g)
      <3>1. CASE g = f
        BY <1>3, <3>1
      <3>2. CASE g # f
        <4>1. g \in Flows /\ Present(q, g) /\ fr[g] = base[g] + FlowBytes(q, g)
          BY <1>6, <3>2
        <4>2. bt[g] = base[g] /\ FlowBytes(t, g) = FlowBytes(q, g) + 0
          BY <1>3, <1>4, <3>2, <4>1
        <4>3. FlowBytes(q, g) \in Nat
          BY <1>5
        <4>4. QED
          BY <3>2, <4>1, <4>2, <4>3
      <3>3. QED
        BY <3>1, <3>2
    <2>3. QED
      BY <2>1, <2>2
  <1>9. Led(t, bt, ld)
    <2>1. ld \in [Flows \X Flows -> Int]
      BY DEF Led
    <2>2. ASSUME NEW g \in Flows, NEW h \in Flows,
                 ~(Present(t, g) /\ Present(t, h) /\ g # h)
          PROVE  ld[<<g, h>>] = 0
      BY <1>3, <2>2 DEF Led
    <2>3. ASSUME NEW g \in Flows, NEW h \in Flows,
                 Present(t, g), Present(t, h), g # h
          PROVE  ld[<<g, h>>] + bt[h] <= bt[g] + M
      <3>1. CASE Present(q, g) /\ Present(q, h)
        BY <1>3, <2>3, <3>1 DEF Led, M
      <3>2. CASE ~Present(q, g)
        <4>1. g = f /\ Present(q, h) /\ bt[g] = rn /\ bt[h] = base[h]
          BY <1>3, <2>3, <3>2
        <4>2. ld[<<g, h>>] = 0
          BY <3>2 DEF Led
        <4>3. base[h] \in Int /\ base[h] <= rn
          BY <1>1, <4>1 DEF Based
        <4>4. QED
          BY <1>1, <1>2, <4>1, <4>2, <4>3
      <3>3. CASE ~Present(q, h)
        <4>1. h = f /\ Present(q, g) /\ bt[h] = rn /\ bt[g] = base[g]
          BY <1>3, <2>3, <3>3
        <4>2. ld[<<g, h>>] = 0
          BY <3>3 DEF Led
        <4>3. base[g] \in Int /\ rn <= base[g] + M
          BY <4>1, BasesAre DEF M
        <4>4. QED
          BY <1>1, <1>2, <4>1, <4>2, <4>3
      <3>4. QED
        BY <3>1, <3>2, <3>3
    <2>4. QED
      BY <2>1, <2>2, <2>3 DEF Led, M
  <1>10. Counted(t, bt, fr1, np1)
    <2> HIDE DEF fr1, np1
    <2>1. QED
      BY <1>7, <1>8 DEF Counted
  <1>11. QED
    <2>1. ft = fr1 /\ nt = np1
      BY DEF CountsAdd, f
    <2>2. QED
      BY <1>9, <1>10, <2>1, Zenon

\* A packet that arrives is younger than all others and is put behind those of
\* its flow.
LEMMA AgedTakes ==
    ASSUME NEW a, NEW b, NEW p, NEW q, NEW t, NEW n, IsJoined(a, b, p, q, t, n),
           NEW m \in Nat, Aged(q, m), p.id = m + 1, ~Present(b, p.flow)
    PROVE  Aged(t, m + 1)
  <1>1. /\ q \in Seq(FqPacket) /\ n \in Nat /\ n <= Len(q) /\ Len(q) \in Nat
        /\ Len(t) = Len(q) + 1 /\ t[n + 1] = p
        /\ \A j \in 1 .. n : t[j] = q[j]
        /\ \A j \in n + 1 .. Len(q) :
              t[j + 1] = q[j] /\ j - n \in 1 .. Len(b) /\ q[j] = b[j - n]
    BY DEF IsJoined
  <1>2. \A j \in 1 .. Len(t) :
           \/ j \in 1 .. n /\ j \in 1 .. Len(q) /\ t[j] = q[j]
           \/ j = n + 1 /\ t[j] = p
           \/ \E i \in n + 1 .. Len(q) :
                 /\ j = i + 1 /\ i \in 1 .. Len(q) /\ t[j] = q[i]
                 /\ q[i].flow # p.flow
    <2> TAKE j \in 1 .. Len(t)
    <2>1. j \in 1 .. n \/ j = n + 1 \/ (j - 1 \in n + 1 .. Len(q) /\ j = (j - 1) + 1)
      BY <1>1
    <2>2. CASE j \in 1 .. n
      BY <1>1, <2>2
    <2>3. CASE j = n + 1
      BY <1>1, <2>3
    <2>4. CASE j - 1 \in n + 1 .. Len(q) /\ j = (j - 1) + 1
      <3>1. PICK i \in n + 1 .. Len(q) : j = i + 1
        BY <2>4
      <3>2. i \in 1 .. Len(q) /\ t[j] = q[i] /\ i - n \in 1 .. Len(b) /\ q[i] = b[i - n]
        BY <1>1, <3>1
      <3>3. q[i].flow # p.flow
        BY <3>2 DEF Present
      <3>4. QED
        BY <3>1, <3>2, <3>3
    <2>5. QED
      BY <2>1, <2>2, <2>3, <2>4
  <1>3. \A i \in 1 .. Len(q) : q[i].id \in 1 .. m
    BY DEF Aged
  <1>4. ASSUME NEW j \in 1 .. Len(t) PROVE t[j].id \in 1 .. m + 1
    BY <1>2, <1>3
  <1>5. ASSUME NEW i \in 1 .. Len(t), NEW j \in 1 .. Len(t), i < j
        PROVE  t[i].id # t[j].id /\ (t[i].flow = t[j].flow => t[i].id < t[j].id)
    <2>1. CASE t[j] = p
      <3>1. \E k \in 1 .. Len(q) : t[i] = q[k]
        <4>1. CASE j = n + 1
          BY <1>1, <1>2, <1>5, <4>1
        <4>2. CASE j # n + 1
          <5>1. \E k \in 1 .. Len(q) : t[j] = q[k]
            BY <1>2, <4>2
          <5>2. QED
            BY <1>3, <2>1, <5>1
        <4>3. QED
          BY <4>1, <4>2
      <3>2. QED
        BY <1>3, <2>1, <3>1
    <2>2. CASE i = n + 1 /\ j # n + 1
      <3>1. PICK k \in n + 1 .. Len(q) :
               j = k + 1 /\ k \in 1 .. Len(q) /\ t[j] = q[k] /\ q[k].flow # p.flow
        BY <1>1, <1>2, <1>5, <2>2
      <3>2. t[i] = p
        BY <1>1, <2>2
      <3>3. QED
        BY <1>3, <3>1, <3>2
    <2>3. CASE i # n + 1 /\ j # n + 1
      <3>1. PICK k, l \in 1 .. Len(q) : t[i] = q[k] /\ t[j] = q[l] /\ k < l
        <4>1. CASE i \in 1 .. n /\ j \in 1 .. n
          <5>1. i \in 1 .. Len(q) /\ j \in 1 .. Len(q) /\ t[i] = q[i] /\ t[j] = q[j]
            BY <1>1, <4>1
          <5>2. QED
            BY <1>5, <5>1
        <4>2. CASE i \in 1 .. n /\ ~(j \in 1 .. n)
          <5>1. PICK l \in n + 1 .. Len(q) : j = l + 1 /\ l \in 1 .. Len(q) /\ t[j] = q[l]
            BY <1>2, <2>3, <4>2
          <5>2. i \in 1 .. Len(q) /\ t[i] = q[i] /\ i < l
            BY <1>1, <4>2, <5>1
          <5>3. QED
            BY <5>1, <5>2
        <4>3. CASE ~(i \in 1 .. n)
          <5>1. PICK k \in n + 1 .. Len(q) : i = k + 1 /\ k \in 1 .. Len(q) /\ t[i] = q[k]
            BY <1>2, <2>3, <4>3
          <5>2. ~(j \in 1 .. n)
            BY <1>1, <1>5, <5>1
          <5>3. PICK l \in n + 1 .. Len(q) : j = l + 1 /\ l \in 1 .. Len(q) /\ t[j] = q[l]
            BY <1>2, <2>3, <5>2
          <5>4. QED
            BY <1>5, <5>1, <5>3
        <4>4. QED
          BY <4>1, <4>2, <4>3
      <3>2. QED
        BY <3>1 DEF Aged
    <2>4. QED
      BY <1>1, <2>1, <2>2, <2>3
  <1>6. QED
    BY <1>4, <1>5 DEF Aged

----------------------------------------------------------------------------
(* The line when its last packets are dropped *)

CountsDrop(d, fr, np, ld, ft, nt, lt) ==
    /\ nt = [g \in Flows |-> np[g] - FlowCount(d, g)]
    /\ ft = [g \in {h \in DOMAIN fr : nt[h] > 0} |-> fr[g] - FlowBytes(d, g)]
    /\ lt = [fg \in Flows \X Flows |->
                IF nt[fg[1]] = 0 \/ nt[fg[2]] = 0 THEN 0 ELSE ld[fg]]

\* When the last packets of the line are dropped, what is left is a fair line,
\* and the flow state the drops leave is that of its flows.
LEMMA LineDrops ==
    ASSUME NEW c \in Seq(FqPacket), NEW d \in Seq(FqPacket),
           NEW q, NEW base, NEW rn, NEW fr, NEW np, NEW ld, NEW m,
           c \o d = q, FairLine(q, base, rn), Counted(q, base, fr, np),
           Led(q, base, ld), Aged(q, m), NEW ft, NEW nt, NEW lt,
           CountsDrop(d, fr, np, ld, ft, nt, lt)
    PROVE  /\ FairLine(c, base, rn) /\ Aged(c, m)
           /\ Counted(c, base, ft, nt) /\ Led(c, base, lt)
  <1> DEFINE n == Len(c)
             fr1 == [g \in {h \in DOMAIN fr : nt[h] > 0} |-> fr[g] - FlowBytes(d, g)]
             ld1 == [fg \in Flows \X Flows |->
                        IF nt[fg[1]] = 0 \/ nt[fg[2]] = 0 THEN 0 ELSE ld[fg]]
  <1>1. /\ q \in Seq(FqPacket) /\ base \in [Flows -> Int] /\ rn \in Int
        /\ Stamped(q, base) /\ Sorted(q, rn) /\ Based(q, base, rn)
    BY DEF FairLine
  <1>2. /\ n \in Nat /\ Len(q) \in Nat /\ n <= Len(q)
        /\ \A i \in 1 .. n : i \in 1 .. Len(q) /\ q[i] = c[i]
    <2>1. /\ Len(c \o d) = Len(c) + Len(d) /\ Len(c) \in Nat /\ Len(d) \in Nat
          /\ \A i \in 1 .. Len(c) + Len(d) :
                (c \o d)[i] = IF i <= Len(c) THEN c[i] ELSE d[i - Len(c)]
      BY ConcatProperties
    <2>2. /\ Len(q) = Len(c) + Len(d)
          /\ \A i \in 1 .. Len(c) + Len(d) :
                q[i] = IF i <= Len(c) THEN c[i] ELSE d[i - Len(c)]
      BY <2>1, Zenon
    <2>3. QED
      BY <2>1, <2>2
  <1>3. \A i \in 1 .. n : SubSeq(q, 1, i) = SubSeq(c, 1, i)
    <2> TAKE i \in 1 .. n
    <2>1. 1 \in 1 .. Len(c) /\ i \in 1 .. Len(c)
      BY <1>2
    <2>2. SubSeq(c \o d, 1, i) = SubSeq(c, 1, i)
      BY <2>1, SubSeqOfConcat1
    <2>3. QED
      BY <2>2, Zenon
  <1>4. \A g : /\ FlowBytes(q, g) = FlowBytes(c, g) + FlowBytes(d, g)
               /\ FlowCount(q, g) = FlowCount(c, g) + FlowCount(d, g)
               /\ Present(q, g) <=> Present(c, g) \/ Present(d, g)
    <2>1. \A g : /\ FlowBytes(c \o d, g) = FlowBytes(c, g) + FlowBytes(d, g)
                 /\ FlowCount(c \o d, g) = FlowCount(c, g) + FlowCount(d, g)
                 /\ Present(c \o d, g) <=> Present(c, g) \/ Present(d, g)
      BY FqConcat
    <2>2. QED
      BY <2>1, Zenon
  <1>5. \A g : /\ FlowBytes(c, g) \in Nat /\ FlowBytes(d, g) \in Nat
               /\ FlowCount(c, g) \in Nat /\ FlowCount(d, g) \in Nat
               /\ Present(c, g) => FlowCount(c, g) > 0
               /\ ~Present(c, g) => FlowCount(c, g) = 0
    BY FqSums
  <1>6. /\ np = [g \in Flows |-> FlowCount(q, g)]
        /\ fr = [g \in {h \in Flows : Present(q, h)} |-> base[g] + FlowBytes(q, g)]
        /\ nt = [g \in Flows |-> np[g] - FlowCount(d, g)]
    BY DEF Counted, CountsDrop
  <1>7. nt = [g \in Flows |-> FlowCount(c, g)]
    <2>1. ASSUME NEW g \in Flows PROVE nt[g] = FlowCount(c, g)
      <3>1. nt[g] = FlowCount(q, g) - FlowCount(d, g)
        BY <1>6
      <3>2. QED
        BY <1>4, <1>5, <3>1
    <2>2. nt = [g \in Flows |-> nt[g]]
      BY <1>6
    <2>3. QED
      BY <2>1, <2>2, Zenon
  <1>8. FairLine(c, base, rn)
    <2>1. Stamped(c, base)
      BY <1>1, <1>2, <1>3 DEF Stamped
    <2>2. Sorted(c, rn)
      BY <1>1, <1>2 DEF Sorted
    <2>3. Based(c, base, rn)
      BY <1>1, <1>4 DEF Based
    <2>4. QED
      BY <1>1, <2>1, <2>2, <2>3 DEF FairLine
  <1>9. Aged(c, m)
    BY <1>2 DEF Aged
  <1>10. Counted(c, base, fr1, nt)
    <2>1. {h \in DOMAIN fr : nt[h] > 0} = {h \in Flows : Present(c, h)}
      BY <1>4, <1>5, <1>6, <1>7
    <2>2. ASSUME NEW g \in {h \in Flows : Present(c, h)}
          PROVE  fr[g] - FlowBytes(d, g) = base[g] + FlowBytes(c, g)
      <3>1. g \in Flows /\ Present(q, g) /\ base[g] \in Int
        BY <1>1, <1>4
      <3>2. fr[g] = base[g] + FlowBytes(q, g)
        BY <1>6, <3>1
      <3>3. QED
        BY <1>4, <1>5, <3>1, <3>2
    <2>3. fr1 = [g \in {h \in Flows : Present(c, h)} |-> base[g] + FlowBytes(c, g)]
      BY <2>1, <2>2
    <2> HIDE DEF fr1
    <2>4. QED
      BY <1>7, <2>3 DEF Counted
  <1>11. Led(c, base, ld1)
    <2>1. ld \in [Flows \X Flows -> Int] /\ ld1 \in [Flows \X Flows -> Int]
      BY DEF Led
    <2>2. ASSUME NEW g \in Flows, NEW h \in Flows
          PROVE  /\ nt[g] = 0 \/ nt[h] = 0 => ld1[<<g, h>>] = 0
                 /\ ~(nt[g] = 0 \/ nt[h] = 0) => ld1[<<g, h>>] = ld[<<g, h>>]
      OBVIOUS
    <2> HIDE DEF ld1
    <2>3. ASSUME NEW g \in Flows, NEW h \in Flows,
                 Present(c, g), Present(c, h), g # h
          PROVE  ld1[<<g, h>>] + base[h] <= base[g] + FQ!MaxPacket
      <3>1. nt[g] > 0 /\ nt[h] > 0 /\ nt[g] \in Nat /\ nt[h] \in Nat
        BY <1>5, <1>7, <2>3
      <3>2. ld1[<<g, h>>] = ld[<<g, h>>]
        BY <2>2, <3>1
      <3>3. Present(q, g) /\ Present(q, h)
        BY <1>4, <2>3
      <3>4. QED
        BY <2>3, <3>2, <3>3 DEF Led
    <2>4. ASSUME NEW g \in Flows, NEW h \in Flows,
                 ~(Present(c, g) /\ Present(c, h) /\ g # h)
          PROVE  ld1[<<g, h>>] = 0
      <3>1. CASE g = h
        <4>1. ld[<<g, h>>] = 0
          BY <3>1 DEF Led
        <4>2. QED
          BY <2>2, <4>1
      <3>2. CASE ~Present(c, g) \/ ~Present(c, h)
        <4>1. nt[g] = 0 \/ nt[h] = 0
          BY <1>5, <1>7, <3>2
        <4>2. QED
          BY <2>2, <4>1
      <3>3. QED
        BY <2>4, <3>1, <3>2
    <2>5. QED
      BY <2>1, <2>3, <2>4 DEF Led
  <1>12. QED
    <2>1. ft = fr1 /\ lt = ld1
      BY Zenon DEF CountsDrop
    <2>2. QED
      BY <1>8, <1>9, <1>10, <1>11, <2>1, Zenon

----------------------------------------------------------------------------
(* FairQueue: what the handlers do to the line *)

\* The flow state and the leads once a packet has been sent.
CountsLess(p, fr, np, ld, ft, nt, lt) ==
    /\ nt = [np EXCEPT ![p.flow] = @ - 1]
    /\ np[p.flow] = 1 => ft = [g \in DOMAIN fr \ {p.flow} |-> fr[g]]
    /\ np[p.flow] # 1 => ft = fr
    /\ lt \in [Flows \X Flows -> Int]
    /\ \A g, h \in Flows :
          /\ nt[g] = 0 \/ nt[h] = 0 \/ g = h => lt[<<g, h>>] = 0
          /\ ~(nt[g] = 0 \/ nt[h] = 0 \/ g = h) =>
                /\ g = p.flow => lt[<<g, h>>] = ld[<<g, h>>] + p.size
                /\ h = p.flow => lt[<<g, h>>] = ld[<<g, h>>] - p.size
                /\ g # p.flow /\ h # p.flow => lt[<<g, h>>] = ld[<<g, h>>]

\* The flow state after a packet has been sent is that of the flows that still
\* have packets, and their leads are within the bound.
LEMMA CountsSend ==
    ASSUME NEW q \in Seq(FqPacket), q # <<>>, NEW p, p = Head(q),
           NEW base \in [Flows -> Int], NEW m,
           NEW bt, bt = [base EXCEPT ![p.flow] = @ + p.size],
           NEW fr, NEW np, NEW ld,
           Counted(q, base, fr, np), Led(q, base, ld), Aged(q, m),
           NEW ft, NEW nt, NEW lt, CountsLess(p, fr, np, ld, ft, nt, lt)
    PROVE  Counted(Tail(q), bt, ft, nt) /\ Led(Tail(q), bt, lt) /\ Aged(Tail(q), m)
  <1>0. /\ nt = [np EXCEPT ![p.flow] = @ - 1]
        /\ np[p.flow] = 1 => ft = [g \in DOMAIN fr \ {p.flow} |-> fr[g]]
        /\ np[p.flow] # 1 => ft = fr
        /\ lt \in [Flows \X Flows -> Int]
        /\ \A g, h \in Flows :
              /\ nt[g] = 0 \/ nt[h] = 0 \/ g = h => lt[<<g, h>>] = 0
              /\ ~(nt[g] = 0 \/ nt[h] = 0 \/ g = h) =>
                    /\ g = p.flow => lt[<<g, h>>] = ld[<<g, h>>] + p.size
                    /\ h = p.flow => lt[<<g, h>>] = ld[<<g, h>>] - p.size
                    /\ g # p.flow /\ h # p.flow => lt[<<g, h>>] = ld[<<g, h>>]
    BY DEF CountsLess
  <1> DEFINE t == Tail(q)
  <1>1. /\ p \in FqPacket /\ t \in Seq(FqPacket)
        /\ \A i \in 1 .. Len(t) : i + 1 \in 1 .. Len(q) /\ t[i] = q[i + 1]
        /\ \A f : /\ FlowBytes(q, f) = FlowBytes(<<p>>, f) + FlowBytes(t, f)
                  /\ FlowCount(q, f) = FlowCount(<<p>>, f) + FlowCount(t, f)
                  /\ Present(q, f) <=> p.flow = f \/ Present(t, f)
    BY TailOf
  <1> HIDE DEF t
  <1>2. p.flow \in Flows /\ p.size \in Nat /\ FQ!MaxPacket \in Nat
    BY <1>1, FqConstants
  <1>3. \A f : /\ p.flow = f => FlowBytes(<<p>>, f) = p.size /\ FlowCount(<<p>>, f) = 1
               /\ p.flow # f => FlowBytes(<<p>>, f) = 0 /\ FlowCount(<<p>>, f) = 0
    BY <1>1, FqOne
  <1>4. \A f : /\ FlowBytes(t, f) \in Nat /\ FlowCount(t, f) \in Nat
               /\ Present(t, f) => FlowCount(t, f) > 0
               /\ ~Present(t, f) => FlowCount(t, f) = 0
    BY <1>1, FqSums
  <1>5. /\ np = [g \in Flows |-> FlowCount(q, g)]
        /\ fr = [g \in {h \in Flows : Present(q, h)} |-> base[g] + FlowBytes(q, g)]
    BY DEF Counted
  <1>6. /\ bt[p.flow] = base[p.flow] + p.size
        /\ \A f \in Flows : f # p.flow => bt[f] = base[f]
        /\ \A f \in Flows : base[f] \in Int /\ bt[f] \in Int
    BY <1>2
  <1>7. nt = [g \in Flows |-> FlowCount(t, g)]
    <2>1. ASSUME NEW g \in Flows PROVE nt[g] = FlowCount(t, g)
      <3>1. FlowCount(q, g) = FlowCount(<<p>>, g) + FlowCount(t, g) /\ FlowCount(t, g) \in Nat
        BY <1>1, <1>4
      <3>2. np[g] = FlowCount(q, g)
        BY <1>5
      <3>3. /\ g = p.flow => nt[g] = np[g] - 1
            /\ g # p.flow => nt[g] = np[g]
        BY <1>0, <1>2, <1>5
      <3>4. /\ p.flow = g => FlowCount(<<p>>, g) = 1
            /\ p.flow # g => FlowCount(<<p>>, g) = 0
        BY <1>3
      <3>5. QED
        BY <3>1, <3>2, <3>3, <3>4
    <2>2. nt = [g \in Flows |-> nt[g]]
      BY <1>0, <1>5
    <2>3. QED
      BY <2>1, <2>2, Zenon
  <1>8. np[p.flow] = 1 <=> ~Present(t, p.flow)
    <2>1. np[p.flow] = 1 + FlowCount(t, p.flow)
      BY <1>1, <1>2, <1>3, <1>5
    <2>2. QED
      BY <1>4, <2>1
  <1>9. \A g \in Flows : base[g] + FlowBytes(q, g) = bt[g] + FlowBytes(t, g)
    <2> TAKE g \in Flows
    <2>1. FlowBytes(q, g) = FlowBytes(<<p>>, g) + FlowBytes(t, g) /\ FlowBytes(t, g) \in Nat
      BY <1>1, <1>4
    <2>2. /\ p.flow = g => FlowBytes(<<p>>, g) = p.size
          /\ p.flow # g => FlowBytes(<<p>>, g) = 0
      BY <1>3
    <2>3. QED
      BY <1>2, <1>6, <2>1, <2>2
  <1>10. ft = [g \in {h \in Flows : Present(t, h)} |-> bt[g] + FlowBytes(t, g)]
    <2>1. CASE Present(t, p.flow)
      <3>1. {h \in Flows : Present(t, h)} = {h \in Flows : Present(q, h)}
        BY <1>1, <2>1
      <3>2. ft = fr
        BY <1>0, <1>8, <2>1
      <3>3. QED
        BY <1>5, <1>9, <3>1, <3>2
    <2>2. CASE ~Present(t, p.flow)
      <3>1. {h \in Flows : Present(t, h)} = {h \in Flows : Present(q, h)} \ {p.flow}
        BY <1>1, <2>2
      <3>2. ft = [g \in DOMAIN fr \ {p.flow} |-> fr[g]]
        BY <1>0, <1>8, <2>2
      <3>3. QED
        BY <1>5, <1>9, <3>1, <3>2
    <2>3. QED
      BY <2>1, <2>2
  <1>11. Led(t, bt, lt)
    <2>1. ASSUME NEW g \in Flows, NEW h \in Flows,
                 Present(t, g), Present(t, h), g # h
          PROVE  lt[<<g, h>>] + bt[h] <= bt[g] + FQ!MaxPacket
      <3>1. nt[g] # 0 /\ nt[h] # 0
        <4>1. nt[g] = FlowCount(t, g) /\ nt[h] = FlowCount(t, h)
          BY <1>7
        <4>2. /\ FlowCount(t, g) > 0 /\ FlowCount(t, h) > 0
              /\ FlowCount(t, g) \in Nat /\ FlowCount(t, h) \in Nat
          BY <1>4, <2>1
        <4>3. QED
          BY <4>1, <4>2
      <3>2. ld[<<g, h>>] + base[h] <= base[g] + FQ!MaxPacket /\ ld[<<g, h>>] \in Int
        BY <1>1, <2>1 DEF Led
      <3>3. /\ g = p.flow => lt[<<g, h>>] = ld[<<g, h>>] + p.size
            /\ h = p.flow => lt[<<g, h>>] = ld[<<g, h>>] - p.size
            /\ g # p.flow /\ h # p.flow => lt[<<g, h>>] = ld[<<g, h>>]
        BY <1>0, <2>1, <3>1
      <3>4. base[g] \in Int /\ base[h] \in Int
        BY <1>6
      <3>5. CASE g = p.flow
        <4>1. bt[g] = base[g] + p.size /\ bt[h] = base[h]
          BY <1>6, <2>1, <3>5
        <4>2. lt[<<g, h>>] = ld[<<g, h>>] + p.size
          BY <3>3, <3>5
        <4>3. QED
          BY <1>2, <3>2, <3>4, <4>1, <4>2, SMTT(30)
      <3>6. CASE h = p.flow
        <4>1. bt[h] = base[h] + p.size /\ bt[g] = base[g]
          BY <1>6, <2>1, <3>6
        <4>2. lt[<<g, h>>] = ld[<<g, h>>] - p.size
          BY <3>3, <3>6
        <4>3. lt[<<g, h>>] + bt[h] = ld[<<g, h>>] + base[h]
          BY <1>2, <3>2, <3>4, <4>1, <4>2
        <4>4. QED
          BY <3>2, <4>1, <4>3
      <3>7. CASE g # p.flow /\ h # p.flow
        <4>1. bt[h] = base[h] /\ bt[g] = base[g] /\ lt[<<g, h>>] = ld[<<g, h>>]
          BY <1>6, <3>3, <3>7
        <4>2. QED
          BY <3>2, <4>1
      <3>8. QED
        BY <3>5, <3>6, <3>7
    <2>2. ASSUME NEW g \in Flows, NEW h \in Flows,
                 ~(Present(t, g) /\ Present(t, h) /\ g # h)
          PROVE  lt[<<g, h>>] = 0
      <3>1. nt[g] = 0 \/ nt[h] = 0 \/ g = h
        BY <1>4, <1>7, <2>2
      <3>2. QED
        BY <1>0, <3>1
    <2>3. lt \in [Flows \X Flows -> Int]
      BY <1>0
    <2>4. QED
      BY <2>1, <2>2, <2>3 DEF Led
  <1>12. Aged(t, m)
    <2>1. ASSUME NEW i \in 1 .. Len(t) PROVE t[i].id \in 1 .. m
      BY <1>1 DEF Aged
    <2>2. ASSUME NEW i \in 1 .. Len(t), NEW j \in 1 .. Len(t), i < j
          PROVE  t[i].id # t[j].id /\ (t[i].flow = t[j].flow => t[i].id < t[j].id)
      <3>1. /\ i + 1 \in 1 .. Len(q) /\ j + 1 \in 1 .. Len(q) /\ i + 1 < j + 1
            /\ t[i] = q[i + 1] /\ t[j] = q[j + 1]
        BY <1>1, <2>2
      <3>2. QED
        BY <3>1 DEF Aged
    <2>3. QED
      BY <2>1, <2>2 DEF Aged
  <1>13. Counted(t, bt, ft, nt)
    BY <1>7, <1>10 DEF Counted
  <1>14. QED
    BY <1>11, <1>12, <1>13 DEF t

\* The round number moves on to the packet at the head.
LEMMA LineStarts ==
    ASSUME NEW q, NEW base, NEW rn, FairLine(q, base, rn), q # <<>>
    PROVE  FairLine(q, base, Head(q).round)
  <1>1. /\ q \in Seq(FqPacket) /\ base \in [Flows -> Int] /\ rn \in Int
        /\ Stamped(q, base) /\ Sorted(q, rn) /\ Based(q, base, rn)
    BY DEF FairLine
  <1>2. PICK r : r = Head(q).round
    OBVIOUS
  <1>3. q[1].round = r /\ 1 \in 1 .. Len(q) /\ q[1] \in FqPacket
    BY <1>1, <1>2, TailOf
  <1>4. r \in Int /\ rn <= r
    BY <1>1, <1>3, FqConstants DEF Sorted
  <1>5. Sorted(q, r)
    <2>1. ASSUME NEW i \in 1 .. Len(q) PROVE r <= q[i].round
      <3>1. i = 1 \/ 1 < i
        OBVIOUS
      <3>2. CASE i = 1
        BY <1>3, <1>4, <3>2
      <3>3. CASE 1 < i
        BY <1>1, <1>3, <3>3 DEF Sorted
      <3>4. QED
        BY <3>1, <3>2, <3>3
    <2>2. QED
      BY <1>1, <2>1 DEF Sorted
  <1>6. Based(q, base, r)
    BY <1>1, <1>4 DEF Based
  <1>7. QED
    BY <1>1, <1>2, <1>4, <1>5, <1>6 DEF FairLine

\* The sum of sizes is the same operator in FairQueue and here.
LEMMA FqSizeOf == \A q : FQ!SizeOf(q) = SizeOf(q)
  BY DEF FQ!SizeOf, SizeOf, FQ!Total, Total

\* A flow's bytes are the same operator in FairQueue and here.
LEMMA FqFlowBytes == \A q, f : FQ!FlowBytes(q, f) = FlowBytes(q, f)
  BY DEF FQ!FlowBytes, FlowBytes, FQ!Total, Total

\* A flow's count of packets is the same operator in FairQueue and here.
LEMMA FqFlowCount == \A q, f : FQ!FlowCount(q, f) = FlowCount(q, f)
  BY DEF FQ!FlowCount, FlowCount, FQ!Total, Total

\* The packets kept are the front of the queue, as many as the buffer holds.
LEMMA KeptIs ==
    ASSUME NEW S, \A p \in S : p.size \in Nat, NEW q \in Seq(S),
           NEW used \in Nat, used <= MaxSize
    PROVE  FQ!Kept(q, used) \in 0 .. Len(q)
  <1> DEFINE Fits(k) == used + SizeOf(SubSeq(q, 1, k)) <= MaxSize
             Over_(k) == used + SizeOf(SubSeq(q, 1, k)) > MaxSize
             Best(k) == Fits(k) /\ \A j \in k + 1 .. Len(q) : Over_(j)
             D == {d \in 0 .. Len(q) : Fits(Len(q) - d)}
  <1>1. Len(q) \in Nat /\ MaxSize \in Nat
    BY FqConstants
  <1>2. \A k \in 0 .. Len(q) : SizeOf(SubSeq(q, 1, k)) \in Nat
    <2> TAKE k \in 0 .. Len(q)
    <2>1. PICK t \in Seq(S) : t = SubSeq(q, 1, k)
      BY Split
    <2>2. PICK b, c, s \in [S -> Nat] : Weigh(S, 0, b, c, s)
      BY Weights
    <2>3. SizeOf(t) = Over(t, s) /\ Over(t, s) \in Nat
      BY <2>2, OverType DEF Weigh
    <2>4. QED
      BY <2>1, <2>3
  <1>3. \A k \in 0 .. Len(q) : Fits(k) \/ Over_(k)
    BY <1>1, <1>2
  <1>4. Fits(0)
    <2>1. SubSeq(q, 1, 0) = <<>>
      BY SubSeqEmpty
    <2>2. SizeOf(<<>>) = 0
      BY TotalEmpty DEF SizeOf
    <2>3. SizeOf(SubSeq(q, 1, 0)) = 0
      BY <2>1, <2>2, Zenon
    <2>4. used + 0 <= MaxSize
      OBVIOUS
    <2>5. QED
      BY <2>3, <2>4, Zenon
  <1>5. FQ!Kept(q, used) = CHOOSE k \in 0 .. Len(q) : Best(k)
    BY FqSizeOf DEF FQ!Kept
  <1> HIDE DEF Fits, Over_
  <1>6. \E k \in 0 .. Len(q) : Best(k)
    <2>1. D \in SUBSET Nat /\ D # {}
      <3>1. Len(q) \in D
        BY <1>1, <1>4
      <3>2. QED
        BY <1>1, <3>1
    <2>2. PICK d \in D : \A e \in D : d <= e
      <3> HIDE DEF D
      <3>1. QED
        BY <2>1, Least
    <2>3. PICK k \in 0 .. Len(q) : k = Len(q) - d
      BY <1>1
    <2>4. Fits(k)
      BY <2>3
    <2>5. ASSUME NEW j \in k + 1 .. Len(q) PROVE Over_(j)
      <3>1. /\ j \in 0 .. Len(q) /\ Len(q) - j \in 0 .. Len(q)
            /\ ~(d <= Len(q) - j) /\ Len(q) - (Len(q) - j) = j
        BY <1>1, <2>3
      <3>2. Len(q) - j \notin D
        <4> HIDE DEF D
        <4>1. QED
          BY <2>2, <3>1
      <3>3. ~Fits(j)
        BY <3>1, <3>2
      <3>4. QED
        BY <1>3, <3>1, <3>3
    <2>6. QED
      BY <2>4, <2>5
  <1>7. QED
    <2> HIDE DEF Best
    <2>1. QED
      BY <1>5, <1>6

\* What a packet that joins the waiting ones does to the line.
LEMMA FairTakes ==
    ASSUME NEW pre \in Seq(FqPacket), NEW pk \in Seq(FqPacket),
           NEW base, NEW rn, NEW fr, NEW np, NEW ld, NEW m \in Nat,
           FairLine(pre \o pk, base, rn), Counted(pre \o pk, base, fr, np),
           Led(pre \o pk, base, ld), Aged(pre \o pk, m),
           \A j \in 1 .. Len(pre) : pre[j].round = rn,
           NEW p \in FqPacket, p.id = m + 1, NEW i \in FQ!Places(pk, p),
           NEW bt, Charges(pre \o pk, base, rn, p, bt), NEW queue,
           queue = FQ!InsertAt(pk, i, p),
           NEW ft, NEW nt, CountsAdd(p, fr, np, ft, nt)
    PROVE  /\ queue \in Seq(FqPacket) /\ bt \in [Flows -> Int]
           /\ FairLine(pre \o queue, bt, rn) /\ Counted(pre \o queue, bt, ft, nt)
           /\ Led(pre \o queue, bt, ld) /\ Aged(pre \o queue, m + 1)
  <1>1. /\ i \in 1 .. Len(pk) + 1 /\ i - 1 \in 0 .. Len(pk)
        /\ \A j \in 1 .. i - 1 : pk[j].round <= p.round
        /\ \A j \in i .. Len(pk) : pk[j].round >= p.round
    BY DEF FQ!Places
  <1>2. PICK x, y \in Seq(FqPacket) : Parts(pk, i - 1, x, y)
    BY <1>1, FqSplit
  <1>3. /\ x = SubSeq(pk, 1, i - 1) /\ y = SubSeq(pk, i, Len(pk))
        /\ Len(x) = i - 1 /\ Len(y) = Len(pk) - (i - 1)
        /\ \A j \in 1 .. i - 1 : x[j] = pk[j]
        /\ \A j \in 1 .. Len(pk) - (i - 1) : y[j] = pk[(i - 1) + j]
        /\ (pre \o x) \o y = pre \o pk
    <2>1. (i - 1) + 1 = i
      BY <1>1
    <2>2. QED
      BY <1>2, <2>1 DEF Parts
  <1>4. PICK s \in Seq(FqPacket) : s = <<p>>
    BY FqOne
  <1>5. PICK v \in Seq(FqPacket) : JoinOf(x, s, v)
    BY FqJoin
  <1>6. PICK u \in Seq(FqPacket) : JoinOf(v, y, u)
    BY FqJoin
  <1>7. PICK a \in Seq(FqPacket) : a = pre \o x
    BY ConcatProperties
  <1>8. queue = u
    BY <1>3, <1>4, <1>5, <1>6, Zenon DEF FQ!InsertAt, JoinOf
  <1>9. PICK q, t : /\ q = pre \o pk /\ t = pre \o queue
                    /\ q = a \o y /\ t = (a \o s) \o y
    <2>1. (pre \o v) \o y = pre \o u /\ (pre \o x) \o s = pre \o v
      BY <1>5, <1>6, Zenon DEF JoinOf
    <2>2. pre \o queue = (a \o s) \o y
      BY <1>7, <1>8, <2>1, Zenon
    <2>3. pre \o pk = a \o y
      BY <1>3, <1>7, Zenon
    <2>4. QED
      BY <2>2, <2>3, Zenon
  <1>10. PICK n : n = Len(a)
    OBVIOUS
  <1>11. IsJoined(a, y, p, q, t, n)
    BY <1>4, <1>9, <1>10, Joined
  <1>12. JoinedUpTo(a, p, q, t, n)
    <2>1. \A g : JoinedBytes(a, p, q, t, n, g)
      BY <1>4, <1>9, <1>10, UpToJoined
    <2>2. QED
      BY <2>1, Zenon DEF JoinedUpTo
  <1>13. FairLine(q, base, rn) /\ Charges(q, base, rn, p, bt) /\ Aged(q, m)
         /\ Counted(q, base, fr, np) /\ Led(q, base, ld)
    BY <1>9, Zenon
  <1>14. q \in Seq(FqPacket) /\ base \in [Flows -> Int] /\ rn \in Int
    BY <1>13 DEF FairLine
  <1>15. p.flow \in Flows /\ p.size \in Nat \ {0}
    BY FqConstants
  <1>16. bt \in [Flows -> Int]
    BY <1>13, <1>14, <1>15 DEF Charges
  <1>17. rn <= p.round
    <2>1. CASE Present(q, p.flow)
      <3>1. /\ rn <= base[p.flow] + FlowBytes(q, p.flow) /\ base[p.flow] \in Int
            /\ FlowBytes(q, p.flow) \in Nat
        BY <1>13, <1>15, <2>1, BasesAre
      <3>2. p.round = base[p.flow] + FlowBytes(q, p.flow) + p.size
        BY <1>13, <2>1 DEF Charges
      <3>3. QED
        BY <1>14, <1>15, <3>1, <3>2, SMTT(30)
    <2>2. CASE ~Present(q, p.flow)
      BY <1>13, <1>14, <1>15, <2>2 DEF Charges
    <2>3. QED
      BY <2>1, <2>2
  <1>18. \A j \in 1 .. Len(a) : a[j].round <= p.round
    <2> TAKE j \in 1 .. Len(a)
    <2>1. /\ Len(a) = Len(pre) + Len(x) /\ Len(pre) \in Nat /\ Len(x) \in Nat
          /\ \A k \in 1 .. Len(pre) + Len(x) :
                a[k] = IF k <= Len(pre) THEN pre[k] ELSE x[k - Len(pre)]
      <3>1. /\ Len(pre \o x) = Len(pre) + Len(x) /\ Len(pre) \in Nat /\ Len(x) \in Nat
            /\ \A k \in 1 .. Len(pre) + Len(x) :
                  (pre \o x)[k] = IF k <= Len(pre) THEN pre[k] ELSE x[k - Len(pre)]
        BY ConcatProperties
      <3>2. QED
        BY <1>7, <3>1, Zenon
    <2>2. CASE j <= Len(pre)
      <3>1. a[j] = pre[j] /\ j \in 1 .. Len(pre)
        BY <2>1, <2>2
      <3>2. pre[j].round = rn
        BY <3>1
      <3>3. QED
        BY <1>17, <3>1, <3>2
    <2>3. CASE ~(j <= Len(pre))
      <3>1. PICK k \in 1 .. i - 1 : a[j] = x[k]
        <4>1. j \in 1 .. Len(pre) + Len(x)
          BY <2>1
        <4>2. a[j] = x[j - Len(pre)]
          BY <2>1, <2>3, <4>1
        <4>3. j - Len(pre) \in 1 .. Len(x)
          BY <2>1, <2>3, <4>1
        <4>4. QED
          BY <1>3, <4>2, <4>3, Zenon
      <3>2. QED
        BY <1>1, <1>3, <3>1
    <2>4. QED
      BY <2>2, <2>3
  <1>19. \A j \in 1 .. Len(y) : p.round <= y[j].round
    <2> TAKE j \in 1 .. Len(y)
    <2>1. PICK k : k = (i - 1) + j
      OBVIOUS
    <2>2. k \in i .. Len(pk) /\ k = (i - 1) + j /\ k \in 1 .. Len(pk)
      <3>1. i \in Nat /\ i >= 1
        BY <1>1
      <3>2. Len(pk) \in Nat
        OBVIOUS
      <3>3. j \in Nat /\ j >= 1 /\ j <= Len(y)
        OBVIOUS
      <3>4. Len(y) = Len(pk) - (i - 1)
        BY <1>3, Zenon
      <3>5. QED
        BY <2>1, <3>1, <3>2, <3>3, <3>4
    <2>3. y[j] = pk[k] /\ pk[k].round >= p.round /\ pk[k] \in FqPacket
      BY <1>1, <1>3, <2>2
    <2>4. QED
      BY <2>3, FqConstants
  <1>20. FairLine(t, bt, rn) /\ ~Present(y, p.flow) /\ Taken(p, q, t, base, rn, bt)
    <2>1. Between(a, y, p)
      BY <1>18, <1>19, Zenon DEF Between
    <2>2. QED
      BY <1>11, <1>12, <1>13, <2>1, LineTakes
  <1>21. Aged(t, m + 1)
    BY <1>11, <1>13, <1>20, AgedTakes
  <1>22. Counted(t, bt, ft, nt) /\ Led(t, bt, ld)
    <2>1. t \in Seq(FqPacket)
      BY <1>11 DEF IsJoined
    <2>2. QED
      BY <1>11, <1>13, <1>16, <1>20, <2>1, CountsTake
  <1>23. QED
    BY <1>8, <1>9, <1>16, <1>20, <1>21, <1>22, Zenon DEF Taken

\* A packet in front of a line is the head of the line it makes.
LEMMA ConsIs ==
    ASSUME NEW c, NEW s \in Seq(FqPacket), <<c>> \o s \in Seq(FqPacket)
    PROVE  /\ c \in FqPacket /\ <<c>> \o s # <<>>
           /\ Head(<<c>> \o s) = c /\ Tail(<<c>> \o s) = s
  <1> DEFINE q == <<c>> \o s
  <1>1. Len(q) = 1 + Len(s) /\ Len(s) \in Nat /\ q[1] = c /\ q # <<>>
        /\ \A i \in 1 .. Len(s) : q[i + 1] = s[i]
    OBVIOUS
  <1>2. q \in Seq(FqPacket)
    OBVIOUS
  <1> HIDE DEF q
  <1>3. c \in FqPacket /\ Head(q) = c
    BY <1>1, <1>2, TailOf
  <1>4. /\ Tail(q) \in Seq(FqPacket) /\ Len(q) = Len(Tail(q)) + 1
        /\ \A i \in 1 .. Len(Tail(q)) : Tail(q)[i] = q[i + 1]
    BY <1>1, <1>2, TailOf
  <1>5. Tail(q) = s
    <2>1. Len(Tail(q)) = Len(s)
      BY <1>1, <1>4
    <2>2. \A i \in 1 .. Len(s) : Tail(q)[i] = s[i]
      BY <1>1, <1>4, <2>1
    <2>3. QED
      BY <1>4, <2>1, <2>2, SeqEqual
  <1>6. QED
    BY <1>1, <1>3, <1>5 DEF q

\* beginService takes the head of the queue and its round, and leaves the line,
\* the packet being sent and those that wait, as it was.
LEMMA FairBegins ==
    ASSUME NEW q \in Seq(FqPacket), NEW m \in Nat, Aged(q, m), FQ!BeginService(q)
    PROVE  /\ packets' \in Seq(FqPacket) /\ Line' = q /\ SendsCurrent'
           /\ q = <<>> => roundNumber' = roundNumber
           /\ q # <<>> => roundNumber' = Head(q).round
  <1>1. CASE q = <<>>
    <2>1. /\ pending' = 0 /\ packets' = q /\ currentPkt' = FQ!Null
          /\ roundNumber' = roundNumber
      BY <1>1 DEF FQ!BeginService
    <2>2. QED
      BY <1>1, <2>1 DEF Line, SendsCurrent
  <1>2. CASE q # <<>>
    <2>1. /\ roundNumber' = Head(q).round /\ currentPkt' = Head(q)
          /\ pending' = Head(q).id /\ packets' = Tail(q)
      BY <1>2 DEF FQ!BeginService
    <2>2. /\ Tail(q) \in Seq(FqPacket) /\ <<Head(q)>> \o Tail(q) = q
          /\ q[1] = Head(q) /\ 1 \in 1 .. Len(q)
      BY <1>2, TailOf
    <2>3. Head(q).id # 0
      <3>1. q[1].id \in 1 .. m
        BY <2>2 DEF Aged
      <3>2. QED
        BY <2>2, <3>1
    <2>4. Line' = q
      BY <2>1, <2>2, <2>3, Zenon DEF Line
    <2>5. SendsCurrent'
      BY <2>1, <2>3 DEF SendsCurrent
    <2>6. QED
      BY <1>2, <2>1, <2>2, <2>4, <2>5
  <1>3. QED
    BY <1>1, <1>2

\* An empty FairQueue satisfies the invariant, whether or not _currentPkt is
\* null.
LEMMA FairInit == FQ!Init => FairInv
  <1> SUFFICES ASSUME FQ!Init PROVE FairInv
    OBVIOUS
  <1>1. /\ packets = <<>> /\ flowRound = <<>> /\ nPackets = [f \in Flows |-> 0]
        /\ roundNumber = 0 /\ currentPkt \in {FQ!Null, FQ!Garbage} /\ pending = 0
        /\ queuesize = 0 /\ arrived = 0 /\ lead = [fg \in Flows \X Flows |-> 0]
    BY DEF FQ!Init
  <1>2. Line = <<>> /\ <<>> \in Seq(FqPacket)
    BY <1>1 DEF Line
  <1>3. SendsCurrent
    BY <1>1 DEF SendsCurrent
  <1> DEFINE base == [f \in Flows |-> 0]
  <1>4. base \in [Flows -> Int]
    OBVIOUS
  <1>5. \A f : ~Present(<<>>, f) /\ FlowCount(<<>>, f) = 0
    <2>1. \A f : ~Present(<<>>, f)
      BY DEF Present
    <2>2. QED
      BY <1>2, <2>1, FqSums
  <1>6. FairLine(<<>>, base, 0)
    <2> HIDE DEF base
    <2>1. 0 \in Int /\ \A i : i \notin 1 .. Len(<<>>)
      OBVIOUS
    <2>2. QED
      BY <1>2, <1>4, <1>5, <2>1 DEF FairLine, Stamped, Sorted, Based
  <1>7. Counted(<<>>, base, flowRound, nPackets)
    <2>1. nPackets = [f \in Flows |-> FlowCount(<<>>, f)]
      BY <1>1, <1>5
    <2>2. {g \in Flows : Present(<<>>, g)} = {}
      BY <1>5
    <2>3. \A e : <<>> = [f \in {} |-> e[f]]
      OBVIOUS
    <2>4. flowRound = [f \in {g \in Flows : Present(<<>>, g)} |->
                          base[f] + FlowBytes(<<>>, f)]
      BY <1>1, <2>2
    <2>5. QED
      BY <2>1, <2>4 DEF Counted
  <1>8. Led(<<>>, base, lead)
    BY <1>1, <1>5 DEF Led
  <1>9. Aged(<<>>, 0)
    BY DEF Aged
  <1>10. SizeOf(<<>>) = 0
    BY TotalEmpty DEF SizeOf
  <1> HIDE DEF base
  <1>11. QED
    BY <1>1, <1>2, <1>3, <1>4, <1>6, <1>7, <1>8, <1>9, <1>10 DEF FairInv

\* completeService, with the service it begins, preserves the invariant.
LEMMA FairServes == FairInv /\ FQ!CompleteService => FairInv'
  <1> SUFFICES ASSUME FairInv, FQ!CompleteService PROVE FairInv'
    OBVIOUS
  <1> DEFINE p == currentPkt
             f == currentPkt.flow
  <1>1. /\ arrived \in Nat /\ packets \in Seq(FqPacket)
        /\ SendsCurrent /\ Aged(Line, arrived) /\ queuesize = SizeOf(Line)
    BY DEF FairInv
  <1>2. PICK base \in [Flows -> Int] :
              /\ FairLine(Line, base, roundNumber)
              /\ Counted(Line, base, flowRound, nPackets) /\ Led(Line, base, lead)
    BY DEF FairInv
  <1>3. /\ pending # 0 /\ arrived' = arrived /\ queuesize' = queuesize - p.size
        /\ nPackets' = [nPackets EXCEPT ![f] = @ - 1]
        /\ FQ!BeginService(packets)
    BY DEF FQ!CompleteService
  <1>4. /\ nPackets[f] = 1 => flowRound' = [g \in DOMAIN flowRound \ {f} |-> flowRound[g]]
        /\ nPackets[f] # 1 => flowRound' = flowRound
    BY DEF FQ!CompleteService, FQ!Restrict
  <1>5. lead' = [fg \in Flows \X Flows |->
                      IF \/ nPackets'[fg[1]] = 0 \/ nPackets'[fg[2]] = 0
                         \/ fg[1] = fg[2]
                      THEN 0
                      ELSE CASE fg[1] = f -> lead[fg] + p.size
                             [] fg[2] = f -> lead[fg] - p.size
                             [] OTHER     -> lead[fg]]
    BY DEF FQ!CompleteService
  <1>6. Line = <<p>> \o packets /\ roundNumber = p.round
    BY <1>1, <1>3 DEF Line, SendsCurrent
  <1> HIDE DEF p, f
  <1>7. Line \in Seq(FqPacket)
    BY <1>2 DEF FairLine
  <1>8. /\ p \in FqPacket /\ Line # <<>> /\ Head(Line) = p /\ Tail(Line) = packets
    <2>1. <<p>> \o packets \in Seq(FqPacket)
      BY <1>6, <1>7, Zenon
    <2>2. /\ p \in FqPacket /\ <<p>> \o packets # <<>>
          /\ Head(<<p>> \o packets) = p /\ Tail(<<p>> \o packets) = packets
      BY <1>1, <2>1, ConsIs
    <2>3. QED
      BY <1>6, <2>2, Zenon
  <1>9. p.flow = f /\ f \in Flows /\ p.size \in Nat
    <2>1. p.flow = f
      BY DEF p, f
    <2>2. QED
      BY <1>8, <2>1, FqConstants
  <1>10. PICK bt : bt = [base EXCEPT ![f] = @ + p.size]
    OBVIOUS
  <1>11. bt \in [Flows -> Int]
    <2>1. base[f] + p.size \in Int
      BY <1>9
    <2>2. QED
      BY <1>9, <1>10, <2>1
  <1>12. lead' \in [Flows \X Flows -> Int]
         /\ \A g, h \in Flows :
              /\ nPackets'[g] = 0 \/ nPackets'[h] = 0 \/ g = h => lead'[<<g, h>>] = 0
              /\ ~(nPackets'[g] = 0 \/ nPackets'[h] = 0 \/ g = h) =>
                    /\ g = f => lead'[<<g, h>>] = lead[<<g, h>>] + p.size
                    /\ h = f => lead'[<<g, h>>] = lead[<<g, h>>] - p.size
                    /\ g # f /\ h # f => lead'[<<g, h>>] = lead[<<g, h>>]
    <2>1. lead \in [Flows \X Flows -> Int]
      BY <1>2 DEF Led
    <2>2. \A fg \in Flows \X Flows :
             lead[fg] \in Int /\ lead[fg] + p.size \in Int /\ lead[fg] - p.size \in Int
      BY <1>9, <2>1
    <2>3. ASSUME NEW g \in Flows, NEW h \in Flows
          PROVE  /\ nPackets'[g] = 0 \/ nPackets'[h] = 0 \/ g = h => lead'[<<g, h>>] = 0
                 /\ ~(nPackets'[g] = 0 \/ nPackets'[h] = 0 \/ g = h) =>
                       /\ g = f => lead'[<<g, h>>] = lead[<<g, h>>] + p.size
                       /\ h = f => lead'[<<g, h>>] = lead[<<g, h>>] - p.size
                       /\ g # f /\ h # f => lead'[<<g, h>>] = lead[<<g, h>>]
      <3>1. lead'[<<g, h>>] = IF nPackets'[g] = 0 \/ nPackets'[h] = 0 \/ g = h THEN 0
                      ELSE CASE g = f -> lead[<<g, h>>] + p.size
                             [] h = f -> lead[<<g, h>>] - p.size
                             [] OTHER -> lead[<<g, h>>]
        BY <1>5
      <3>2. QED
        BY <3>1
    <2>4. ASSUME NEW g \in Flows, NEW h \in Flows PROVE lead'[<<g, h>>] \in Int
      <3>1. /\ lead[<<g, h>>] \in Int /\ lead[<<g, h>>] + p.size \in Int
            /\ lead[<<g, h>>] - p.size \in Int
        BY <2>2
      <3>2. QED
        BY <2>3, <3>1
    <2>5. lead' \in [Flows \X Flows -> Int]
      <3>1. \A fg \in Flows \X Flows : lead'[fg] \in Int
        BY <2>4
      <3>2. QED
        BY <1>5, <3>1
    <2>6. QED
      BY <2>3, <2>5
  <1>13. Counted(packets, bt, flowRound', nPackets') /\ Led(packets, bt, lead')
         /\ Aged(packets, arrived)
    <2>1. PICK q, nt, ft, lt : q = Line /\ nt = nPackets' /\ ft = flowRound' /\ lt = lead'
      OBVIOUS
    <2>2. /\ q \in Seq(FqPacket) /\ q # <<>> /\ p = Head(q)
          /\ bt = [base EXCEPT ![p.flow] = @ + p.size]
          /\ Counted(q, base, flowRound, nPackets) /\ Led(q, base, lead)
          /\ Aged(q, arrived)
          /\ nt = [nPackets EXCEPT ![p.flow] = @ - 1]
          /\ nPackets[p.flow] = 1 => ft = [g \in DOMAIN flowRound \ {p.flow} |-> flowRound[g]]
          /\ nPackets[p.flow] # 1 => ft = flowRound
      BY <1>1, <1>2, <1>3, <1>4, <1>7, <1>8, <1>9, <1>10, <2>1, Zenon
    <2>3. lt \in [Flows \X Flows -> Int]
         /\ \A g, h \in Flows :
              /\ nt[g] = 0 \/ nt[h] = 0 \/ g = h => lt[<<g, h>>] = 0
              /\ ~(nt[g] = 0 \/ nt[h] = 0 \/ g = h) =>
                    /\ g = p.flow => lt[<<g, h>>] = lead[<<g, h>>] + p.size
                    /\ h = p.flow => lt[<<g, h>>] = lead[<<g, h>>] - p.size
                    /\ g # p.flow /\ h # p.flow => lt[<<g, h>>] = lead[<<g, h>>]
      BY <1>9, <1>12, <2>1, Zenon
    <2>4. CountsLess(p, flowRound, nPackets, lead, ft, nt, lt)
      BY <2>2, <2>3, Zenon DEF CountsLess
    <2>5. Counted(Tail(q), bt, ft, nt) /\ Led(Tail(q), bt, lt) /\ Aged(Tail(q), arrived)
      BY <2>2, <2>4, CountsSend
    <2>6. QED
      BY <1>8, <2>1, <2>5, Zenon
  <1>14. /\ packets' \in Seq(FqPacket) /\ Line' = packets /\ SendsCurrent'
         /\ packets = <<>> => roundNumber' = roundNumber
         /\ packets # <<>> => roundNumber' = Head(packets).round
    BY <1>1, <1>3, <1>13, FairBegins
  <1>15. FairLine(packets, bt, roundNumber')
    <2>1. PICK q, r, rn : q = Line /\ r = roundNumber' /\ rn = roundNumber
      OBVIOUS
    <2>2. /\ FairLine(q, base, rn) /\ q # <<>> /\ Head(q).round = rn
          /\ Tail(q) = <<>> => r = rn
          /\ Tail(q) # <<>> => r = Head(Tail(q)).round
      BY <1>2, <1>6, <1>8, <1>14, <2>1, Zenon
    <2>3. FairLine(Tail(q), [base EXCEPT ![Head(q).flow] = @ + Head(q).size], r)
      BY <2>2, LineSends
    <2>4. QED
      BY <1>8, <1>9, <1>10, <2>1, <2>3, Zenon
  <1>16. queuesize' = SizeOf(packets)
    <2>1. SizeOf(Line) = Head(Line).size + SizeOf(Tail(Line))
      BY <1>7, <1>8, TailOf
    <2>2. SizeOf(packets) \in Nat
      BY <1>1, FqSums
    <2>3. queuesize = p.size + SizeOf(packets)
      BY <1>1, <1>8, <2>1, Zenon
    <2>4. QED
      BY <1>3, <1>9, <2>2, <2>3
  <1>17. QED
    BY <1>1, <1>3, <1>11, <1>13, <1>14, <1>15, <1>16 DEF FairInv

\* A packet joins the line, and the last ones may be dropped.
LEMMA FairJoins ==
    ASSUME NEW pre \in Seq(FqPacket), NEW pk \in Seq(FqPacket),
           NEW base, NEW rn, NEW fr, NEW np, NEW ld, NEW m \in Nat,
           FairLine(pre \o pk, base, rn), Counted(pre \o pk, base, fr, np),
           Led(pre \o pk, base, ld), Aged(pre \o pk, m),
           \A j \in 1 .. Len(pre) : pre[j].round = rn,
           NEW p \in FqPacket, p.id = m + 1, NEW i \in FQ!Places(pk, p),
           NEW bt, Charges(pre \o pk, base, rn, p, bt),
           NEW k, NEW kept \in Seq(FqPacket), NEW dropped \in Seq(FqPacket),
           Parts(FQ!InsertAt(pk, i, p), k, kept, dropped),
           NEW fr1, NEW np1, CountsAdd(p, fr, np, fr1, np1),
           NEW ft, NEW nt, NEW lt, CountsDrop(dropped, fr1, np1, ld, ft, nt, lt)
    PROVE  /\ bt \in [Flows -> Int]
           /\ FairLine(pre \o kept, bt, rn) /\ Counted(pre \o kept, bt, ft, nt)
           /\ Led(pre \o kept, bt, lt) /\ Aged(pre \o kept, m + 1)
  <1>1. PICK queue : queue = FQ!InsertAt(pk, i, p)
    OBVIOUS
  <1>2. /\ bt \in [Flows -> Int]
        /\ FairLine(pre \o queue, bt, rn) /\ Counted(pre \o queue, bt, fr1, np1)
        /\ Led(pre \o queue, bt, ld) /\ Aged(pre \o queue, m + 1)
    BY <1>1, FairTakes
  <1>3. PICK t, c : t = pre \o queue /\ c = pre \o kept
    OBVIOUS
  <1>4. c \in Seq(FqPacket) /\ c \o dropped = t
    <2>1. pre \o kept \in Seq(FqPacket)
      BY ConcatProperties
    <2>2. (pre \o kept) \o dropped = pre \o queue
      BY <1>1, Zenon DEF Parts
    <2>3. QED
      BY <1>3, <2>1, <2>2, Zenon
  <1>5. /\ FairLine(t, bt, rn) /\ Counted(t, bt, fr1, np1)
        /\ Led(t, bt, ld) /\ Aged(t, m + 1)
    BY <1>2, <1>3, Zenon
  <1>6. /\ FairLine(c, bt, rn) /\ Aged(c, m + 1)
        /\ Counted(c, bt, ft, nt) /\ Led(c, bt, lt)
    BY <1>4, <1>5, LineDrops, Zenon
  <1>7. QED
    BY <1>2, <1>3, <1>6, Zenon

\* What a FairQueue does with a packet that arrives, its packet p put at place i.
Joins(p, i, kept, dropped, rounds) ==
    /\ i \in FQ!Places(packets, p)
    /\ kept = SubSeq(FQ!InsertAt(packets, i, p), 1,
                     FQ!Kept(FQ!InsertAt(packets, i, p), queuesize - SizeOf(packets)))
    /\ dropped = SubSeq(FQ!InsertAt(packets, i, p),
                        FQ!Kept(FQ!InsertAt(packets, i, p),
                                queuesize - SizeOf(packets)) + 1,
                        Len(FQ!InsertAt(packets, i, p)))
    /\ rounds = [g \in DOMAIN flowRound \cup {p.flow} |->
                    IF g = p.flow THEN p.round ELSE flowRound[g]]
    /\ nPackets' = [g \in Flows |-> nPackets[g] + (IF g = p.flow THEN 1 ELSE 0)
                                                - FlowCount(dropped, g)]
    /\ flowRound' = [g \in {h \in DOMAIN rounds : nPackets'[h] > 0} |->
                        rounds[g] - FlowBytes(dropped, g)]
    /\ queuesize' = (queuesize - SizeOf(packets)) + SizeOf(kept)
    /\ lost' = lost \cup {dropped[j].id : j \in 1 .. Len(dropped)}
    /\ lead' = [fg \in Flows \X Flows |->
                   IF nPackets'[fg[1]] = 0 \/ nPackets'[fg[2]] = 0 THEN 0
                   ELSE lead[fg]]
    /\ IF currentPkt = FQ!Null /\ packets = <<>>
       THEN FQ!BeginService(kept)
       ELSE /\ packets' = kept
            /\ UNCHANGED <<currentPkt, pending, roundNumber>>

\* receivePacket in one form: the packet, its place in the queue, the packets
\* kept and those dropped from the end.
LEMMA FairReceives ==
    ASSUME FQ!ReceivePacket
    PROVE  /\ arrived' = arrived + 1
           /\ \E f \in Flows, size \in Sizes : \E p, i, kept, dropped, rounds :
                 /\ p = [id |-> arrived', flow |-> f, size |-> size,
                         round |-> FQ!FinishRound(f, size)]
                 /\ Joins(p, i, kept, dropped, rounds)
  <1> DEFINE P(f, size) == [id |-> arrived', flow |-> f, size |-> size,
                            round |-> FQ!FinishRound(f, size)]
             Q(p, i) == FQ!InsertAt(packets, i, p)
             used == queuesize - FQ!SizeOf(packets)
             K(p, i) == FQ!Kept(Q(p, i), used)
             Kep(p, i) == SubSeq(Q(p, i), 1, K(p, i))
             Dro(p, i) == SubSeq(Q(p, i), K(p, i) + 1, Len(Q(p, i)))
             R(f, p) == [g \in DOMAIN flowRound \cup {f} |->
                          IF g = f THEN p.round ELSE flowRound[g]]
             Body(f, p, i, kept, dropped, rounds) ==
                 /\ nPackets' = [g \in Flows |->
                        nPackets[g] + (IF g = f THEN 1 ELSE 0) - FQ!FlowCount(dropped, g)]
                 /\ flowRound' = FQ!Uncharged(rounds, dropped)
                 /\ nActiveFlows' = nActiveFlows
                        + FQ!Cardinality(DOMAIN rounds \ DOMAIN flowRound)
                        - FQ!Cardinality(DOMAIN rounds \ DOMAIN flowRound')
                 /\ queuesize' = used + FQ!SizeOf(kept)
                 /\ lost' = lost \cup {dropped[j].id : j \in 1 .. Len(dropped)}
                 /\ lead' = [fg \in Flows \X Flows |->
                        IF nPackets'[fg[1]] = 0 \/ nPackets'[fg[2]] = 0 THEN 0
                        ELSE lead[fg]]
                 /\ IF currentPkt = FQ!Null /\ packets = <<>>
                    THEN FQ!BeginService(kept)
                    ELSE /\ packets' = kept
                         /\ UNCHANGED <<currentPkt, pending, roundNumber>>
  <1>1. used = queuesize - SizeOf(packets)
    BY FqSizeOf, Zenon
  <1>2. PICK f \in Flows, size \in Sizes :
           \E i \in FQ!Places(packets, P(f, size)) :
               Body(f, P(f, size), i, Kep(P(f, size), i), Dro(P(f, size), i),
                    R(f, P(f, size)))
    BY Zenon DEF FQ!ReceivePacket
  <1>3. PICK i \in FQ!Places(packets, P(f, size)) :
           Body(f, P(f, size), i, Kep(P(f, size), i), Dro(P(f, size), i),
                R(f, P(f, size)))
    BY <1>2, Zenon
  <1>4. PICK p : p = P(f, size)
    OBVIOUS
  <1>5. p.flow = f
    BY <1>4
  <1> HIDE DEF P
  <1>6. PICK kept, dropped, rounds :
           kept = Kep(p, i) /\ dropped = Dro(p, i) /\ rounds = R(f, p)
    OBVIOUS
  <1>7. Body(f, p, i, kept, dropped, rounds) /\ i \in FQ!Places(packets, p)
    BY <1>3, <1>4, <1>6, Zenon
  <1>8. Joins(p, i, kept, dropped, rounds)
    <2>1. nPackets' = [g \in Flows |-> nPackets[g] + (IF g = p.flow THEN 1 ELSE 0)
                                                - FlowCount(dropped, g)]
      BY <1>5, <1>7, FqFlowCount
    <2>2. flowRound' = [g \in {h \in DOMAIN rounds : nPackets'[h] > 0} |->
                        rounds[g] - FlowBytes(dropped, g)]
      BY <1>7, FqFlowBytes DEF FQ!Uncharged
    <2>3. queuesize' = (queuesize - SizeOf(packets)) + SizeOf(kept)
      BY <1>7, FqSizeOf, Zenon
    <2>4. /\ lead' = [fg \in Flows \X Flows |->
                        IF nPackets'[fg[1]] = 0 \/ nPackets'[fg[2]] = 0 THEN 0
                        ELSE lead[fg]]
          /\ IF currentPkt = FQ!Null /\ packets = <<>>
             THEN FQ!BeginService(kept)
             ELSE /\ packets' = kept
                  /\ UNCHANGED <<currentPkt, pending, roundNumber>>
          /\ i \in FQ!Places(packets, p)
          /\ lost' = lost \cup {dropped[j].id : j \in 1 .. Len(dropped)}
      BY <1>7, Zenon
    <2>5. rounds = [g \in DOMAIN flowRound \cup {p.flow} |->
                     IF g = p.flow THEN p.round ELSE flowRound[g]]
      BY <1>5, <1>6, Zenon
    <2>6. /\ kept = SubSeq(Q(p, i), 1, FQ!Kept(Q(p, i), queuesize - SizeOf(packets)))
          /\ dropped = SubSeq(Q(p, i), FQ!Kept(Q(p, i), queuesize - SizeOf(packets)) + 1,
                              Len(Q(p, i)))
      BY <1>1, <1>6, Zenon
    <2>7. QED
      BY <2>1, <2>2, <2>3, <2>4, <2>5, <2>6, Zenon DEF Joins
  <1>9. arrived' = arrived + 1
    BY DEF FQ!ReceivePacket
  <1>10. QED
    BY <1>4, <1>8, <1>9, Zenon DEF P

\* The finishing round of an arriving packet charges its flow.
LEMMA FairCharges ==
    ASSUME NEW q, NEW base, NEW p \in FqPacket, NEW f \in Flows,
           p.flow = f, p.round = FQ!FinishRound(f, p.size),
           FairLine(q, base, roundNumber), Counted(q, base, flowRound, nPackets),
           NEW bt,
           bt = IF Present(q, f) THEN base ELSE [base EXCEPT ![f] = roundNumber]
    PROVE  Charges(q, base, roundNumber, p, bt)
  <1>1. p.size \in Nat /\ roundNumber \in Int
    BY FqConstants DEF FairLine
  <1>2. DOMAIN flowRound = {g \in Flows : Present(q, g)}
        /\ (Present(q, f) => flowRound[f] = base[f] + FlowBytes(q, f))
    BY DEF Counted
  <1>3. CASE Present(q, f)
    <2>1. /\ base[f] \in Int /\ FlowBytes(q, f) \in Nat
          /\ roundNumber <= base[f] + FlowBytes(q, f)
      BY <1>3, BasesAre
    <2>2. p.round = base[f] + FlowBytes(q, f) + p.size
      <3>1. PICK r : r = flowRound[f] /\ r = base[f] + FlowBytes(q, f) /\ r \in Int
        BY <1>2, <1>3, <2>1
      <3>2. \/ r > roundNumber /\ p.round = r + p.size
            \/ ~(r > roundNumber) /\ p.round = roundNumber + p.size
        BY <1>2, <1>3, <3>1, Zenon DEF FQ!FinishRound
      <3>3. r >= roundNumber
        BY <1>1, <2>1, <3>1
      <3>4. p.round = r + p.size
        BY <1>1, <3>1, <3>2, <3>3
      <3>5. QED
        BY <3>1, <3>4
    <2>3. QED
      BY <1>3, <2>2, Zenon DEF Charges
  <1>4. CASE ~Present(q, f)
    <2>1. f \notin DOMAIN flowRound
      BY <1>2, <1>4
    <2>2. p.round = roundNumber + p.size
      BY <2>1, Zenon DEF FQ!FinishRound
    <2>3. QED
      BY <1>4, <2>2, Zenon DEF Charges
  <1>5. QED
    BY <1>3, <1>4

\* receivePacket, with its drops and the service it may begin, preserves the
\* invariant.
LEMMA FairArrives == FairInv /\ FQ!ReceivePacket => FairInv'
  <1> SUFFICES ASSUME FairInv, FQ!ReceivePacket PROVE FairInv'
    OBVIOUS
  <1>1. /\ arrived \in Nat /\ packets \in Seq(FqPacket)
        /\ SendsCurrent /\ Aged(Line, arrived) /\ queuesize = SizeOf(Line)
    BY DEF FairInv
  <1>2. PICK base \in [Flows -> Int] :
              /\ FairLine(Line, base, roundNumber)
              /\ Counted(Line, base, flowRound, nPackets) /\ Led(Line, base, lead)
    BY DEF FairInv
  <1>3. PICK pre : /\ pending = 0 => pre = <<>>
                   /\ pending # 0 => pre = <<currentPkt>>
    OBVIOUS
  <1>4. /\ pre \in Seq(FqPacket) /\ Line = pre \o packets
        /\ \A j \in 1 .. Len(pre) : pre[j].round = roundNumber
        /\ SizeOf(pre) \in Nat /\ SizeOf(pre) <= MaxSize
    <2>1. CASE pending = 0
      <3>1. pre = <<>> /\ Line = packets
        BY <1>3, <2>1 DEF Line
      <3>2. <<>> \o packets = packets /\ <<>> \in Seq(FqPacket)
            /\ \A j \in 1 .. Len(<<>>) : FALSE
        BY <1>1
      <3>3. SizeOf(<<>>) = 0
        BY TotalEmpty DEF SizeOf
      <3>4. SizeOf(pre) = 0
        BY <3>1, <3>3, Zenon
      <3>5. MaxSize \in Nat
        BY FqConstants
      <3>6. SizeOf(pre) \in Nat /\ SizeOf(pre) <= MaxSize
        BY <3>4, <3>5
      <3>7. QED
        BY <3>1, <3>2, <3>6, Zenon
    <2>2. CASE pending # 0
      <3>1. pre = <<currentPkt>> /\ Line = <<currentPkt>> \o packets
        BY <1>3, <2>2 DEF Line
      <3>2. Line \in Seq(FqPacket)
        BY <1>2 DEF FairLine
      <3>3. currentPkt \in FqPacket
        BY <1>1, <3>1, <3>2, ConsIs
      <3>4. <<currentPkt>> \in Seq(FqPacket) /\ SizeOf(<<currentPkt>>) = currentPkt.size
        BY <3>3, FqOne
      <3>5. \A j \in 1 .. Len(<<currentPkt>>) : <<currentPkt>>[j].round = roundNumber
        BY <1>1, <2>2 DEF SendsCurrent
      <3>6. currentPkt.size \in Nat /\ currentPkt.size <= MaxSize
        BY <3>3, FqConstants
      <3>7. QED
        BY <3>1, <3>4, <3>5, <3>6, Zenon
    <2>3. QED
      BY <2>1, <2>2
  <1>5. arrived' = arrived + 1
    BY FairReceives
  <1>6. PICK f \in Flows, size \in Sizes : \E p, i, kept, dropped, rounds :
                 /\ p = [id |-> arrived', flow |-> f, size |-> size,
                         round |-> FQ!FinishRound(f, size)]
                 /\ Joins(p, i, kept, dropped, rounds)
    BY FairReceives
  <1>7. PICK p, i, kept, dropped, rounds :
                 /\ p = [id |-> arrived', flow |-> f, size |-> size,
                         round |-> FQ!FinishRound(f, size)]
                 /\ Joins(p, i, kept, dropped, rounds)
    BY <1>6
  <1>8. /\ p.id = arrived + 1 /\ p.flow = f /\ p.size = size
        /\ p.round = FQ!FinishRound(f, p.size)
    BY <1>5, <1>7
  <1>9. p \in FqPacket
    <2>1. roundNumber \in Int /\ arrived' \in Nat /\ size \in Nat
      BY <1>1, <1>2, <1>5, FqConstants DEF FairLine
    <2>2. FQ!FinishRound(f, size) \in Int
      <3>1. f \in DOMAIN flowRound => flowRound[f] \in Int
        <4>1. flowRound = [g \in {h \in Flows : Present(Line, h)} |->
                             base[g] + FlowBytes(Line, g)]
          BY <1>2 DEF Counted
        <4>2. Line \in Seq(FqPacket)
          BY <1>2 DEF FairLine
        <4>3. FlowBytes(Line, f) \in Nat /\ base[f] \in Int
          BY <1>2, <4>2, FqSums
        <4>4. QED
          BY <4>1, <4>3
      <3>2. QED
        BY <2>1, <3>1 DEF FQ!FinishRound
    <2>3. QED
      BY <1>7, <2>1, <2>2 DEF FqPacket
  <1>10. PICK bt : bt = IF Present(Line, f) THEN base
                        ELSE [base EXCEPT ![f] = roundNumber]
    OBVIOUS
  <1>11. Charges(Line, base, roundNumber, p, bt)
    BY <1>2, <1>8, <1>9, <1>10, FairCharges
  <1>12. PICK np1 : np1 = [g \in Flows |-> nPackets[g] + (IF g = p.flow THEN 1 ELSE 0)]
    OBVIOUS
  <1>13. CountsAdd(p, flowRound, nPackets, rounds, np1)
    BY <1>7, <1>12, Zenon DEF CountsAdd, Joins
  <1>14. i \in FQ!Places(packets, p)
    BY <1>7 DEF Joins
  <1>15. /\ FairLine(pre \o packets, base, roundNumber)
         /\ Counted(pre \o packets, base, flowRound, nPackets)
         /\ Led(pre \o packets, base, lead) /\ Aged(pre \o packets, arrived)
         /\ Charges(pre \o packets, base, roundNumber, p, bt)
    BY <1>1, <1>2, <1>4, <1>11, Zenon
  <1>b. /\ pre \in Seq(FqPacket) /\ packets \in Seq(FqPacket)
        /\ arrived \in Nat /\ p.id = arrived + 1
        /\ \A j \in 1 .. Len(pre) : pre[j].round = roundNumber
    BY <1>1, <1>4, <1>8, Zenon
  <1>16. PICK queue : queue = FQ!InsertAt(packets, i, p)
    OBVIOUS
  <1>17. queue \in Seq(FqPacket)
    BY <1>9, <1>13, <1>14, <1>15, <1>16, <1>b, FairTakes, ZenonT(40)
  <1>18. queuesize - SizeOf(packets) = SizeOf(pre)
    <2>1. SizeOf(pre \o packets) = SizeOf(pre) + SizeOf(packets)
      BY <1>1, <1>4, FqConcat
    <2>2. SizeOf(packets) \in Nat
      BY <1>1, FqSums
    <2>3. queuesize = SizeOf(pre) + SizeOf(packets)
      BY <1>1, <1>4, <2>1, Zenon
    <2>4. QED
      BY <1>4, <2>2, <2>3
  <1>19. PICK k : k = FQ!Kept(queue, SizeOf(pre))
    OBVIOUS
  <1>20. k \in 0 .. Len(queue)
    BY <1>4, <1>17, <1>19, KeptIs, FqConstants
  <1>21. /\ kept \in Seq(FqPacket) /\ dropped \in Seq(FqPacket)
         /\ Parts(queue, k, kept, dropped)
    <2>1. PICK a \in Seq(FqPacket), b \in Seq(FqPacket) : Parts(queue, k, a, b)
      BY <1>17, <1>20, FqSplit
    <2>2. a = SubSeq(queue, 1, k) /\ b = SubSeq(queue, k + 1, Len(queue))
      BY <2>1 DEF Parts
    <2>3. kept = SubSeq(queue, 1, k) /\ dropped = SubSeq(queue, k + 1, Len(queue))
      BY <1>7, <1>16, <1>18, <1>19, Zenon DEF Joins
    <2>4. kept = a /\ dropped = b
      BY <2>2, <2>3, Zenon
    <2>5. QED
      BY <2>1, <2>4, Zenon
  <1>22. CountsDrop(dropped, rounds, np1, lead, flowRound', nPackets', lead')
    <2>1. /\ nPackets' = [g \in Flows |-> nPackets[g] + (IF g = p.flow THEN 1 ELSE 0)
                                                      - FlowCount(dropped, g)]
          /\ flowRound' = [g \in {h \in DOMAIN rounds : nPackets'[h] > 0} |->
                              rounds[g] - FlowBytes(dropped, g)]
          /\ lead' = [fg \in Flows \X Flows |->
                         IF nPackets'[fg[1]] = 0 \/ nPackets'[fg[2]] = 0 THEN 0
                         ELSE lead[fg]]
      BY <1>7, Zenon DEF Joins
    <2>2. nPackets' = [g \in Flows |-> np1[g] - FlowCount(dropped, g)]
      <3>1. ASSUME NEW g \in Flows
            PROVE  nPackets'[g] = np1[g] - FlowCount(dropped, g)
        <4>1. nPackets'[g] = nPackets[g] + (IF g = p.flow THEN 1 ELSE 0)
                                         - FlowCount(dropped, g)
          BY <2>1, Zenon
        <4>2. np1[g] = nPackets[g] + (IF g = p.flow THEN 1 ELSE 0)
          BY <1>12, Zenon
        <4>3. nPackets[g] \in Int /\ FlowCount(dropped, g) \in Nat
          <5>1. nPackets[g] = FlowCount(Line, g)
            BY <1>2 DEF Counted
          <5>2. Line \in Seq(FqPacket)
            BY <1>2 DEF FairLine
          <5>3. FlowCount(Line, g) \in Nat /\ FlowCount(dropped, g) \in Nat
            BY <1>21, <5>2, FqSums
          <5>4. QED
            BY <5>1, <5>3
        <4>4. QED
          BY <4>1, <4>2, <4>3
      <3>2. nPackets' = [g \in Flows |-> nPackets'[g]]
        BY <2>1
      <3>3. QED
        BY <3>1, <3>2
    <2>3. QED
      BY <2>1, <2>2, Zenon DEF CountsDrop
  <1>23. Parts(FQ!InsertAt(packets, i, p), k, kept, dropped)
    BY <1>16, <1>21, Zenon
  <1>24. /\ bt \in [Flows -> Int]
         /\ FairLine(pre \o kept, bt, roundNumber)
         /\ Counted(pre \o kept, bt, flowRound', nPackets')
         /\ Led(pre \o kept, bt, lead') /\ Aged(pre \o kept, arrived + 1)
    BY <1>9, <1>13, <1>14, <1>15, <1>21, <1>22, <1>23, <1>b, FairJoins, ZenonT(40)
  <1>25. queuesize' = SizeOf(pre \o kept)
    <2>1. SizeOf(pre \o kept) = SizeOf(pre) + SizeOf(kept)
      BY <1>4, <1>21, FqConcat
    <2>2. queuesize' = (queuesize - SizeOf(packets)) + SizeOf(kept)
      BY <1>7, Zenon DEF Joins
    <2>3. QED
      BY <1>18, <2>1, <2>2, Zenon
  <1>26. arrived + 1 \in Nat
    BY <1>1
  <1>27. CASE currentPkt = FQ!Null /\ packets = <<>>
    <2>1. pending = 0
      BY <1>1, <1>27 DEF SendsCurrent, FQ!Null
    <2>2. <<>> \o kept = kept
      BY <1>21
    <2>3. pre \o kept = kept
      BY <1>3, <2>1, <2>2, Zenon
    <2>4. FQ!BeginService(kept)
      BY <1>7, <1>27, Zenon DEF Joins
    <2>5. Aged(kept, arrived + 1) /\ FairLine(kept, bt, roundNumber)
      BY <1>24, <2>3, Zenon
    <2>6. /\ packets' \in Seq(FqPacket) /\ Line' = kept /\ SendsCurrent'
          /\ kept = <<>> => roundNumber' = roundNumber
          /\ kept # <<>> => roundNumber' = Head(kept).round
      BY <1>21, <1>26, <2>4, <2>5, FairBegins
    <2>7. FairLine(kept, bt, roundNumber')
      BY <2>5, <2>6, LineStarts
    <2>8. /\ FairLine(Line', bt, roundNumber')
          /\ Counted(Line', bt, flowRound', nPackets')
          /\ Led(Line', bt, lead') /\ Aged(Line', arrived')
          /\ queuesize' = SizeOf(Line')
      BY <1>5, <1>24, <1>25, <2>3, <2>6, <2>7, Zenon
    <2>9. QED
      BY <1>5, <1>24, <1>26, <2>6, <2>8 DEF FairInv
  <1>28. CASE ~(currentPkt = FQ!Null /\ packets = <<>>)
    <2>1. /\ packets' = kept /\ currentPkt' = currentPkt /\ pending' = pending
          /\ roundNumber' = roundNumber
      BY <1>7, <1>28 DEF Joins
    <2>2. Line' = pre \o kept
      <3>1. CASE pending = 0
        <4>1. <<>> \o kept = kept
          BY <1>21
        <4>2. pre \o kept = kept
          BY <1>3, <3>1, <4>1, Zenon
        <4>3. Line' = kept
          BY <2>1, <3>1 DEF Line
        <4>4. QED
          BY <4>2, <4>3, Zenon
      <3>2. CASE pending # 0
        <4>1. Line' = <<currentPkt>> \o kept
          BY <2>1, <3>2 DEF Line
        <4>2. QED
          BY <1>3, <3>2, <4>1, Zenon
      <3>3. QED
        BY <3>1, <3>2
    <2>3. SendsCurrent'
      BY <1>1, <1>28, <2>1 DEF SendsCurrent
    <2>4. /\ FairLine(Line', bt, roundNumber')
          /\ Counted(Line', bt, flowRound', nPackets')
          /\ Led(Line', bt, lead') /\ Aged(Line', arrived')
          /\ queuesize' = SizeOf(Line')
      BY <1>5, <1>24, <1>25, <2>1, <2>2, Zenon
    <2>5. packets' \in Seq(FqPacket)
      BY <1>21, <2>1, Zenon
    <2>6. QED
      BY <1>5, <1>24, <1>26, <2>3, <2>4, <2>5 DEF FairInv
  <1>29. QED
    BY <1>27, <1>28

----------------------------------------------------------------------------
(* FairQueue: the invariant holds, and what follows from it *)

\* The inductive invariant of a FairQueue.
THEOREM FairQueueKeepsRounds == Spec => [](discipline = "fq" => FairInv)
  <1> DEFINE Inv == discipline = "fq" => FairInv
  <1>1. Init => Inv
    BY FairInit DEF Init
  <1>2. Inv /\ [Next]_vars => Inv'
    <2> SUFFICES ASSUME Inv, [Next]_vars, discipline' = "fq" PROVE FairInv'
      OBVIOUS
    <2>1. CASE FairStep
      <3>1. FairInv /\ FQ!Next
        BY <2>1 DEF FairStep
      <3>2. QED
        BY <3>1, FairArrives, FairServes DEF FQ!Next
    <2>2. CASE PriorityStep \/ StocStep \/ AprxStep
      BY <2>2 DEF PriorityStep, StocStep, AprxStep
    <2>3. CASE UNCHANGED vars
      <3>1. /\ discipline' = discipline /\ arrived' = arrived /\ packets' = packets
            /\ currentPkt' = currentPkt /\ pending' = pending /\ queuesize' = queuesize
            /\ roundNumber' = roundNumber /\ flowRound' = flowRound
            /\ nPackets' = nPackets /\ lead' = lead
        BY <2>3 DEF vars, fqOnly
      <3>2. FairInv
        BY <3>1
      <3>3. Line' = Line /\ (SendsCurrent <=> SendsCurrent')
        BY <3>1 DEF Line, SendsCurrent
      <3>4. QED
        BY <3>1, <3>2, <3>3 DEF FairInv
    <2>4. QED
      BY <2>1, <2>2, <2>3 DEF Next
  <1>3. QED
    BY <1>1, <1>2, PTL DEF Spec

\* Where the packets that wait are in the line.
Waits(m) ==
    /\ \A i \in 1 .. Len(packets) : i + m \in 1 .. Len(Line) /\ Line[i + m] = packets[i]
    /\ \A k \in 1 .. Len(Line) :
          \/ k - m \in 1 .. Len(packets) /\ packets[k - m] = Line[k]
          \/ pending # 0 /\ Line[k] = currentPkt

\* The packets that wait are the line or what follows its first packet.
LEMMA FairWaits ==
    ASSUME FairInv
    PROVE  \E m \in {0, 1} : Waits(m)
  <1>1. packets \in Seq(FqPacket)
    BY DEF FairInv
  <1>2. CASE pending = 0
    <2>1. Line = packets
      BY <1>2 DEF Line
    <2>2. Waits(0)
      BY <1>1, <2>1 DEF Waits
    <2>3. QED
      BY <2>2
  <1>3. CASE pending # 0
    <2>1. PICK q : q = <<currentPkt>> \o packets
      OBVIOUS
    <2>2. /\ Len(q) = Len(packets) + 1 /\ Len(packets) \in Nat /\ q[1] = currentPkt
          /\ \A i \in 1 .. Len(packets) : q[i + 1] = packets[i]
      BY <1>1, <2>1
    <2>3. Line = q
      BY <1>3, <2>1 DEF Line
    <2>4. ASSUME NEW k \in 1 .. Len(q)
          PROVE  \/ k - 1 \in 1 .. Len(packets) /\ packets[k - 1] = q[k]
                 \/ q[k] = currentPkt
      <3>1. CASE k = 1
        BY <2>2, <3>1
      <3>2. CASE k # 1
        <4>1. PICK j : j = k - 1
          OBVIOUS
        <4>2. j \in 1 .. Len(packets) /\ k = j + 1
          BY <2>2, <3>2, <4>1
        <4>3. QED
          BY <2>2, <4>1, <4>2
      <3>3. QED
        BY <3>1, <3>2
    <2>5. ASSUME NEW i \in 1 .. Len(packets)
          PROVE  i + 1 \in 1 .. Len(q) /\ q[i + 1] = packets[i]
      BY <2>2
    <2>6. Waits(1)
      BY <1>3, <2>3, <2>4, <2>5, Zenon DEF Waits
    <2>7. QED
      BY <2>6
  <1>4. QED
    BY <1>2, <1>3

\* In a state of the invariant the queue is ordered by rounds.
LEMMA FairOrder == FairInv => FQ!RoundsInOrder
  <1> SUFFICES ASSUME FairInv PROVE FQ!RoundsInOrder
    OBVIOUS
  <1>1. PICK m \in {0, 1} : Waits(m)
    BY FairWaits
  <1>2. PICK base \in [Flows -> Int] :
              /\ FairLine(Line, base, roundNumber)
              /\ Counted(Line, base, flowRound, nPackets)
    BY DEF FairInv
  <1>3. Line \in Seq(FqPacket) /\ Aged(Line, arrived) /\ Sorted(Line, roundNumber)
        /\ packets \in Seq(FqPacket)
    BY <1>2 DEF FairInv, FairLine
  <1>4. /\ nPackets = [f \in Flows |-> FlowCount(Line, f)]
        /\ flowRound = [f \in {g \in Flows : Present(Line, g)} |->
                          base[f] + FlowBytes(Line, f)]
    BY <1>2 DEF Counted
  <1>5. DOMAIN flowRound = {f \in Flows : nPackets[f] > 0}
    <2>1. \A f : Present(Line, f) <=> FlowCount(Line, f) > 0
      <3>1. \A f : /\ ~Present(Line, f) => FlowCount(Line, f) = 0
                   /\ Present(Line, f) => FlowCount(Line, f) > 0
        BY <1>3, FqSums
      <3>2. QED
        BY <3>1
    <2>2. QED
      BY <1>4, <2>1
  <1>6. ASSUME NEW i \in 1 .. Len(packets)
        PROVE  /\ roundNumber <= packets[i].round
               /\ packets[i].round <= flowRound[packets[i].flow]
    <2>1. PICK k \in 1 .. Len(Line) : Line[k] = packets[i]
      BY <1>1 DEF Waits
    <2>2. roundNumber <= Line[k].round
      BY <1>3 DEF Sorted
    <2>3. Line[k].round <= base[Line[k].flow] + FlowBytes(Line, Line[k].flow)
          /\ Line[k] \in FqPacket
      BY <1>2, RoundAtMost
    <2>4. Line[k].flow \in Flows /\ Present(Line, Line[k].flow)
      BY <2>3, FqConstants DEF Present
    <2>5. flowRound[Line[k].flow] = base[Line[k].flow] + FlowBytes(Line, Line[k].flow)
      BY <1>4, <2>4
    <2>6. Line[k].round <= flowRound[Line[k].flow]
      BY <2>3, <2>5, Zenon
    <2>7. QED
      BY <2>1, <2>2, <2>6, Zenon
  <1>7. ASSUME NEW i \in 1 .. Len(packets), NEW j \in 1 .. Len(packets),
               i < j, packets[i].flow = packets[j].flow
        PROVE  packets[i].id < packets[j].id
    <2>1. /\ i + m \in 1 .. Len(Line) /\ Line[i + m] = packets[i]
          /\ j + m \in 1 .. Len(Line) /\ Line[j + m] = packets[j]
      BY <1>1 DEF Waits
    <2>2. i + m < j + m
      BY <1>7
    <2>3. Line[i + m].flow = Line[j + m].flow => Line[i + m].id < Line[j + m].id
      BY <1>3, <2>1, <2>2 DEF Aged
    <2>4. QED
      BY <1>7, <2>1, <2>3, Zenon
  <1>8. QED
    BY <1>5, <1>6, <1>7 DEF FQ!RoundsInOrder

\* In a state of the invariant two flows that wait differ by at most a packet.
LEMMA FairLeads == FairInv => FQ!FairShare
  <1> SUFFICES ASSUME FairInv, NEW f \in Flows, NEW g \in Flows
               PROVE  lead[<<f, g>>] <= 2 * FQ!MaxPacket
    BY DEF FQ!FairShare
  <1>1. PICK base \in [Flows -> Int] :
              FairLine(Line, base, roundNumber) /\ Led(Line, base, lead)
    BY DEF FairInv
  <1>2. FQ!MaxPacket \in Nat /\ roundNumber \in Int
    BY <1>1, FqConstants DEF FairLine
  <1>3. CASE Present(Line, f) /\ Present(Line, g) /\ f # g
    <2>1. lead[<<f, g>>] + base[g] <= base[f] + FQ!MaxPacket /\ lead[<<f, g>>] \in Int
      BY <1>1, <1>3 DEF Led
    <2>2. base[f] \in Int /\ base[f] <= roundNumber
      BY <1>1, <1>3, BasesAre
    <2>3. base[g] \in Int /\ roundNumber <= base[g] + FQ!MaxPacket
      BY <1>1, <1>3, BasesAre
    <2>4. QED
      BY <1>2, <2>1, <2>2, <2>3
  <1>4. CASE ~(Present(Line, f) /\ Present(Line, g) /\ f # g)
    <2>1. lead[<<f, g>>] = 0
      BY <1>1, <1>4 DEF Led
    <2>2. QED
      BY <1>2, <2>1
  <1>5. QED
    BY <1>3, <1>4

\* In a state of the invariant a flow's last round is beyond the round number only
\* when a packet of that round waits: no dropped packet is charged.
LEMMA FairDrops == FairInv => FQ!DropsAreNotCharged
  <1> SUFFICES ASSUME FairInv, NEW f \in DOMAIN flowRound
               PROVE  \/ flowRound[f] <= roundNumber
                      \/ \E i \in 1 .. Len(packets) :
                            packets[i].flow = f /\ packets[i].round = flowRound[f]
    BY DEF FQ!DropsAreNotCharged
  <1>1. PICK base \in [Flows -> Int] :
              /\ FairLine(Line, base, roundNumber)
              /\ Counted(Line, base, flowRound, nPackets)
    BY DEF FairInv
  <1>2. f \in Flows /\ Present(Line, f)
        /\ flowRound[f] = base[f] + FlowBytes(Line, f)
    BY <1>1 DEF Counted
  <1>3. PICK k \in 1 .. Len(Line) : Line[k].flow = f /\ Line[k].round = flowRound[f]
    <2>1. \E i \in 1 .. Len(Line) : Line[i].flow = f
              /\ Line[i].round = base[f] + FlowBytes(Line, f)
      BY <1>1, <1>2, BasesAre
    <2>2. QED
      BY <1>2, <2>1, Zenon
  <1>4. PICK m \in {0, 1} : Waits(m)
    BY FairWaits
  <1>5. CASE k - m \in 1 .. Len(packets) /\ packets[k - m] = Line[k]
    BY <1>3, <1>5, Zenon
  <1>6. CASE pending # 0 /\ Line[k] = currentPkt
    <2>1. roundNumber = currentPkt.round
      BY <1>6 DEF FairInv, SendsCurrent
    <2>2. flowRound[f] = roundNumber /\ roundNumber \in Int
      BY <1>1, <1>3, <1>6, <2>1, Zenon DEF FairLine
    <2>3. QED
      BY <2>2
  <1>7. QED
    BY <1>4, <1>5, <1>6 DEF Waits

\* Whatever a FairQueue drops, the flow pays only for what it has in the line.
THEOREM DropsAreFree == Spec => []DropsAreNotCharged
  <1>1. (discipline = "fq" => FairInv) => DropsAreNotCharged
    BY FairDrops DEF DropsAreNotCharged
  <1>2. QED
    BY <1>1, FairQueueKeepsRounds, PTL

----------------------------------------------------------------------------
(* StocFairQueue: the invariant *)

Queues == 0 .. SfqQueues - 1
Largest == SFQ!MaxPacket

\* A state of the FIFO queues: what the handlers work on.
StocStates ==
    [packets : [Queues -> Seq([id : Nat, size : Sizes])],
     credits : [Queues -> Nat],
     activeQ : Seq(Queues),
     isActive : [Queues -> BOOLEAN]]

\* The list names the queues that have packets, each once.
Listed(s) ==
    /\ \A q \in Queues : s.isActive[q] <=> s.packets[q] # <<>>
    /\ \A q \in Queues :
          s.packets[q] # <<>> <=> \E i \in 1 .. Len(s.activeQ) : s.activeQ[i] = q
    /\ \A i, j \in 1 .. Len(s.activeQ) : s.activeQ[i] = s.activeQ[j] => i = j

\* No queue saves up more than a packet and a quantum; a queue that is not at
\* the front has had its quantum since it last sent.
Saved(s) ==
    /\ \A q \in Queues : s.credits[q] < Largest + Quantum
    /\ \A i \in 1 .. Len(s.activeQ) :
          i # 1 => s.credits[s.activeQ[i]] >= Quantum

\* How far a queue is ahead of another when what it may still send is counted
\* as sent: a quantum more if it is behind the other in the list.
Balanced(s, ld) ==
    /\ \A i, j \in 1 .. Len(s.activeQ) :
          LET q == s.activeQ[i]
              r == s.activeQ[j]
              ahead == ld[<<q, r>>] + s.credits[q] - s.credits[r]
          IN  /\ i < j => ahead <= Largest
              /\ j < i => ahead <= Largest + Quantum
    /\ \A q, r \in Queues :
          s.packets[q] = <<>> \/ s.packets[r] = <<>> \/ q = r => ld[<<q, r>>] = 0

Fair(s, ld) ==
    /\ s \in StocStates /\ ld \in [Queues \X Queues -> Int]
    /\ Listed(s) /\ Saved(s) /\ Balanced(s, ld)

\* A packet has an identity of its own.
Distinct(s, n) ==
    /\ \A q \in Queues : \A i \in 1 .. Len(s.packets[q]) :
          s.packets[q][i].id \in 1 .. n
    /\ \A q, r \in Queues :
          \A i \in 1 .. Len(s.packets[q]), j \in 1 .. Len(s.packets[r]) :
              s.packets[q][i].id = s.packets[r][j].id => q = r /\ i = j

\* The packet being sent is the oldest of the front queue, which can pay.
Sending(s, p) ==
    IF \A q \in Queues : s.packets[q] = <<>> THEN p = 0
    ELSE /\ p = Head(s.packets[Head(s.activeQ)]).id
         /\ s.credits[Head(s.activeQ)] >= Head(s.packets[Head(s.activeQ)]).size

StocInv ==
    /\ arrived \in Nat
    /\ Fair(SFQ!Fifos, lead)
    /\ Distinct(SFQ!Fifos, arrived)
    /\ Sending(SFQ!Fifos, pending)

----------------------------------------------------------------------------
(* StocFairQueue: the loop of beginService *)

\* The module's own Cardinality is that of FiniteSets.
LEMMA SfqCardinality == \A S : SFQ!Cardinality(S) = Cardinality(S)
  BY DEF SFQ!Cardinality, Cardinality

\* There is a queue, and sizes and the quantum are positive.
LEMMA SfqConstants ==
    /\ SfqQueues \in Nat \ {0} /\ Quantum \in Nat \ {0} /\ SFQ!Queues = Queues
    /\ Sizes \subseteq Nat \ {0}
    /\ Largest \in Sizes /\ \A size \in Sizes : size <= Largest
  BY SchedulerAssumption DEF SFQ!StocAssumption, SFQ!MaxPacket, Largest,
     SFQ!Queues, Queues

\* t has the packets of s, and its queues take turns as after k turns of s.
TurnedBy(s, t, k) ==
    LET n == Len(s.activeQ) IN
    /\ t.packets = s.packets /\ t.isActive = s.isActive
    /\ t.activeQ \in Seq(Queues) /\ Len(t.activeQ) = n
    /\ \A i \in 1 .. n : t.activeQ[i] = SFQ!Looked(s, i - 1 + k)
    /\ \A q \in Queues :
          t.credits[q] = s.credits[q]
              + Quantum * Cardinality({j \in 0 .. k - 1 : SFQ!Looked(s, j) = q})

\* What is looked at is a queue of the list.
LEMMA LookedAt ==
    ASSUME NEW s \in StocStates, s.activeQ # <<>>, NEW k \in Nat
    PROVE  /\ SFQ!Looked(s, k) \in Queues
           /\ \E i \in 1 .. Len(s.activeQ) : SFQ!Looked(s, k) = s.activeQ[i]
           /\ k < Len(s.activeQ) => SFQ!Looked(s, k) = s.activeQ[k + 1]
           /\ SFQ!Looked(s, k + Len(s.activeQ)) = SFQ!Looked(s, k)
  <1> DEFINE n == Len(s.activeQ)
  <1>1. s.activeQ \in Seq(Queues) /\ n \in Nat \ {0}
    BY DEF StocStates
  <1> HIDE DEF n
  <1>2. (k % n) \in 0 .. n - 1 /\ (k < n => k % n = k)
    BY <1>1
  <1>3. (k + n) % n = k % n
    <2>1. k + n = k + n * 1
      BY <1>1
    <2>2. 1 \in Int /\ k \in Int /\ k + n \in Int
      BY <1>1
    <2>3. QED
      BY <1>1, <2>1, <2>2, AddMultiple, Zenon
  <1>4. (k % n) + 1 \in 1 .. n
    BY <1>1, <1>2
  <1>5. \A j : SFQ!Looked(s, j) = s.activeQ[(j % n) + 1]
    BY DEF SFQ!Looked, n
  <1>6. \A i \in 1 .. n : s.activeQ[i] \in Queues
    BY <1>1 DEF n
  <1>7. SFQ!Looked(s, k) = s.activeQ[(k % n) + 1]
        /\ SFQ!Looked(s, k + n) = s.activeQ[(k % n) + 1]
    BY <1>3, <1>5
  <1>8. QED
    BY <1>2, <1>4, <1>6, <1>7 DEF n

\* The state the model computes.
LEMMA TurnedFields ==
    ASSUME NEW s \in StocStates, s.activeQ # <<>>, NEW k \in Nat
    PROVE  /\ SFQ!Turned(s, k) \in StocStates
           /\ TurnedBy(s, SFQ!Turned(s, k), k)
  <1> DEFINE n == Len(s.activeQ)
             T(q) == {j \in 0 .. k - 1 : SFQ!Looked(s, j) = q}
             a == [i \in 1 .. n |-> SFQ!Looked(s, i - 1 + k)]
             c == [q \in Queues |-> s.credits[q] + Quantum * Cardinality(T(q))]
             t == SFQ!Turned(s, k)
  <1>1. n \in Nat \ {0}
    BY DEF StocStates
  <1>2. \A q : Cardinality(T(q)) \in Nat
    <2> TAKE q
    <2>1. IsFiniteSet(0 .. k - 1)
      BY FS_Interval
    <2>2. IsFiniteSet(T(q))
      BY <2>1, FS_Subset
    <2>3. QED
      BY <2>2, FS_CardinalityType
  <1>3. a \in Seq(Queues) /\ Len(a) = n
    <2>1. \A i \in 1 .. n : SFQ!Looked(s, i - 1 + k) \in Queues
      BY <1>1, LookedAt
    <2>2. QED
      BY <1>1, <2>1
  <1>4. c \in [Queues -> Nat]
    <2>1. \A q \in Queues : s.credits[q] \in Nat
      BY DEF StocStates
    <2> HIDE DEF T
    <2>2. \A m \in Nat : Quantum * m \in Nat
      BY SfqConstants
    <2>3. QED
      BY <1>2, <2>1, <2>2
  <1>5. t = [s EXCEPT !.activeQ = a, !.credits = c]
    BY SfqConstants, SfqCardinality DEF SFQ!Turned
  <1> HIDE DEF a, c, t
  <1>6. /\ t.packets = s.packets /\ t.isActive = s.isActive
        /\ t.activeQ = a /\ t.credits = c
    BY <1>5 DEF StocStates
  <1>7. t \in StocStates
    BY <1>3, <1>4, <1>5 DEF StocStates
  <1>8. QED
    BY <1>3, <1>6, <1>7 DEF TurnedBy, a, c, t

\* One more turn: the front queue goes to the back, with a quantum.
LEMMA TurnedNext ==
    ASSUME NEW s \in StocStates, s.activeQ # <<>>, NEW k \in Nat,
           NEW t \in StocStates, TurnedBy(s, t, k),
           NEW u \in StocStates, TurnedBy(s, u, k + 1)
    PROVE  /\ Len(t.activeQ) \in Nat \ {0} /\ Len(u.activeQ) = Len(t.activeQ)
           /\ u.packets = t.packets /\ u.isActive = t.isActive
           /\ \A i \in 1 .. Len(t.activeQ) - 1 : u.activeQ[i] = t.activeQ[i + 1]
           /\ u.activeQ[Len(t.activeQ)] = t.activeQ[1]
           /\ \A q \in Queues : u.credits[q] =
                  t.credits[q] + (IF q = t.activeQ[1] THEN Quantum ELSE 0)
  <1> DEFINE n == Len(s.activeQ)
             L(j) == SFQ!Looked(s, j)
             T(q, m) == {j \in 0 .. m - 1 : L(j) = q}
  <1>1. n \in Nat \ {0} /\ Len(t.activeQ) = n /\ Len(u.activeQ) = n
        /\ u.packets = t.packets /\ u.isActive = t.isActive
    BY DEF StocStates, TurnedBy
  <1>2. /\ \A i \in 1 .. n : t.activeQ[i] = L(i - 1 + k)
        /\ \A i \in 1 .. n : u.activeQ[i] = L(i - 1 + (k + 1))
    BY DEF TurnedBy
  <1>3. L(k + n) = L(k) /\ L(k) \in Queues
    BY LookedAt
  <1>4. \A i \in 1 .. n - 1 : u.activeQ[i] = t.activeQ[i + 1]
    <2> TAKE i \in 1 .. n - 1
    <2>1. i \in 1 .. n /\ i + 1 \in 1 .. n /\ i - 1 + (k + 1) = (i + 1) - 1 + k
      BY <1>1
    <2>2. u.activeQ[i] = L(i - 1 + (k + 1)) /\ t.activeQ[i + 1] = L((i + 1) - 1 + k)
      BY <1>2, <2>1, Zenon
    <2>3. QED
      BY <2>1, <2>2, Zenon
  <1>5. t.activeQ[1] = L(k) /\ u.activeQ[n] = L(k)
    <2>1. 1 \in 1 .. n /\ n \in 1 .. n /\ 1 - 1 + k = k /\ n - 1 + (k + 1) = k + n
      <3> HIDE DEF n
      <3>1. QED
        BY <1>1
    <2>2. t.activeQ[1] = L(1 - 1 + k) /\ u.activeQ[n] = L(n - 1 + (k + 1))
      BY <1>2, <2>1, Zenon
    <2>3. QED
      BY <1>3, <2>1, <2>2, Zenon
  <1>6. ASSUME NEW q \in Queues
        PROVE  u.credits[q] = t.credits[q] + (IF q = L(k) THEN Quantum ELSE 0)
    <2>1. /\ t.credits[q] = s.credits[q] + Quantum * Cardinality(T(q, k))
          /\ u.credits[q] = s.credits[q] + Quantum * Cardinality(T(q, k + 1))
      BY DEF TurnedBy
    <2>2. IsFiniteSet(T(q, k)) /\ k \notin T(q, k)
      <3>1. IsFiniteSet(0 .. k - 1) /\ k \notin 0 .. k - 1
        BY FS_Interval
      <3>2. QED
        BY <3>1, FS_Subset
    <2>3. T(q, k + 1) = IF q = L(k) THEN T(q, k) \cup {k} ELSE T(q, k)
      <3> HIDE DEF L
      <3>1. 0 .. (k + 1) - 1 = (0 .. k - 1) \cup {k}
        OBVIOUS
      <3>2. QED
        BY <3>1
    <2> DEFINE c == Cardinality(T(q, k))
               d == Cardinality(T(q, k + 1))
    <2>4. c \in Nat /\ d = IF q = L(k) THEN c + 1 ELSE c
      BY <2>2, <2>3, FS_CardinalityType, FS_AddElement
    <2>5. s.credits[q] \in Nat
      BY DEF StocStates
    <2> HIDE DEF c, d
    <2>6. Quantum * d = Quantum * c + (IF q = L(k) THEN Quantum ELSE 0)
      BY <2>4, SfqConstants
    <2>7. Quantum * c \in Nat /\ Quantum * d \in Nat
      BY <2>4, SfqConstants
    <2>8. QED
      BY <2>1, <2>5, <2>6, <2>7, SfqConstants DEF c, d
  <1>7. QED
    BY <1>1, <1>4, <1>5, <1>6

\* States with the same fields are the same.
LEMMA SameFields ==
    ASSUME NEW s \in StocStates, NEW t \in StocStates,
           t.packets = s.packets, t.credits = s.credits,
           t.activeQ = s.activeQ, t.isActive = s.isActive
    PROVE  t = s
  <1>1. \A r \in StocStates :
           r = [packets |-> r.packets, credits |-> r.credits,
                activeQ |-> r.activeQ, isActive |-> r.isActive]
    BY DEF StocStates
  <1>2. QED
    BY <1>1, Zenon

\* At first nothing has turned.
LEMMA TurnedZero ==
    ASSUME NEW s \in StocStates, s.activeQ # <<>>,
           NEW t \in StocStates, TurnedBy(s, t, 0)
    PROVE  t = s
  <1>1. t.packets = s.packets /\ t.isActive = s.isActive
    BY DEF TurnedBy
  <1>2. t.activeQ = s.activeQ
    <2>1. \A i \in 1 .. Len(s.activeQ) : t.activeQ[i] = s.activeQ[i]
      <3> TAKE i \in 1 .. Len(s.activeQ)
      <3>1. i - 1 \in Nat /\ i - 1 < Len(s.activeQ) /\ i - 1 + 0 = i - 1
            /\ (i - 1) + 1 = i
        BY DEF StocStates
      <3>2. t.activeQ[i] = SFQ!Looked(s, i - 1)
        BY <3>1 DEF TurnedBy
      <3>3. SFQ!Looked(s, i - 1) = s.activeQ[(i - 1) + 1]
        BY <3>1, LookedAt
      <3>4. QED
        BY <3>1, <3>2, <3>3
    <2>2. QED
      BY <2>1, SeqEqual DEF StocStates, TurnedBy
  <1>3. t.credits = s.credits
    <2>1. \A q \in Queues : t.credits[q] = s.credits[q]
      <3> TAKE q \in Queues
      <3>1. {j \in 0 .. 0 - 1 : SFQ!Looked(s, j) = q} = {}
        OBVIOUS
      <3>2. Cardinality({j \in 0 .. 0 - 1 : SFQ!Looked(s, j) = q}) = 0
        BY <3>1, FS_EmptySet
      <3>3. t.credits[q] = s.credits[q] + Quantum * 0
        BY <3>2 DEF TurnedBy
      <3>4. QED
        BY <3>3, SfqConstants DEF StocStates
    <2>2. QED
      BY <2>1 DEF StocStates
  <1>4. QED
    BY <1>1, <1>2, <1>3, SameFields

\* The fields of a state of the scheduler and what they range over.
LEMMA StocFields ==
    ASSUME NEW s \in StocStates
    PROVE  /\ s.packets \in [Queues -> Seq([id : Nat, size : Sizes])]
           /\ s.credits \in [Queues -> Nat]
           /\ s.activeQ \in Seq(Queues)
           /\ s.isActive \in [Queues -> BOOLEAN]
  BY DEF StocStates

\* A turn of a queue that cannot send keeps the queues fair.
LEMMA TurnFair ==
    ASSUME NEW t \in StocStates, NEW u \in StocStates, NEW ld,
           Fair(t, ld), t.activeQ # <<>>, ~SFQ!Sends(t),
           Len(u.activeQ) = Len(t.activeQ),
           u.packets = t.packets, u.isActive = t.isActive,
           \A i \in 1 .. Len(t.activeQ) - 1 : u.activeQ[i] = t.activeQ[i + 1],
           u.activeQ[Len(t.activeQ)] = t.activeQ[1],
           \A q \in Queues : u.credits[q] =
               t.credits[q] + (IF q = t.activeQ[1] THEN Quantum ELSE 0)
    PROVE  Fair(u, ld)
  <1> DEFINE a == t.activeQ
             n == Len(a)
             b == u.activeQ
             c == t.credits
             d == u.credits
             p == t.packets
             From(i) == IF i = n THEN 1 ELSE i + 1
  <1>0. /\ \A i \in 1 .. n - 1 : b[i] = a[i + 1]
        /\ b[n] = a[1] /\ u.packets = p
        /\ \A q \in Queues : d[q] = c[q] + (IF q = a[1] THEN Quantum ELSE 0)
    OBVIOUS
  <1>1. /\ n \in Nat \ {0} /\ Len(b) = n
        /\ \A i \in 1 .. n : a[i] \in Queues
        /\ \A q \in Queues : c[q] \in Nat
        /\ a # <<>> /\ a \in Seq(Queues)
        /\ p \in [Queues -> Seq([id : Nat, size : Sizes])]
    <2>1. /\ a # <<>> /\ a \in Seq(Queues) /\ c \in [Queues -> Nat]
          /\ p \in [Queues -> Seq([id : Nat, size : Sizes])]
      BY StocFields
    <2>2. Len(b) = Len(a)
      OBVIOUS
    <2> HIDE DEF a, b, c, p
    <2>3. Len(a) \in Nat \ {0} /\ \A i \in 1 .. Len(a) : a[i] \in Queues
      BY <2>1
    <2>4. QED
      BY <2>1, <2>2, <2>3
  <1>2. /\ ld \in [Queues \X Queues -> Int]
        /\ Quantum \in Nat \ {0} /\ Largest \in Nat \ {0}
    BY SfqConstants DEF Fair
  <1>3. /\ \A i, j \in 1 .. n : a[i] = a[j] => i = j
        /\ \A q \in Queues : p[q] # <<>> <=> \E i \in 1 .. n : a[i] = q
        /\ \A q \in Queues : u.isActive[q] <=> p[q] # <<>>
    BY DEF Fair, Listed
  <1>4. /\ \A q \in Queues : c[q] < Largest + Quantum
        /\ \A i \in 1 .. n : i # 1 => c[a[i]] >= Quantum
    BY DEF Fair, Saved
  <1>5. c[a[1]] < Largest
    <2>1. ~(c[Head(a)] >= Head(p[Head(a)]).size)
      BY DEF SFQ!Sends
    <2> HIDE DEF a, p, c
    <2>3. a[1] = Head(a) /\ a[1] \in Queues /\ 1 \in 1 .. n
      BY <1>1
    <2> HIDE DEF n
    <2>4. p[a[1]] # <<>> /\ p[a[1]] \in Seq([id : Nat, size : Sizes])
      BY <1>1, <1>3, <2>3
    <2> DEFINE z == Head(p[a[1]]).size
               y == c[a[1]]
    <2>5. z \in Sizes
      <3>1. Head(p[a[1]]) \in [id : Nat, size : Sizes]
        BY <2>4, HeadTailProperties, Zenon
      <3>2. QED
        BY <3>1
    <2>6. ~(y >= z) /\ y \in Nat
      BY <1>1, <2>1, <2>3
    <2> HIDE DEF y, z
    <2>7. y < Largest
      BY <1>2, <2>5, <2>6, SfqConstants
    <2>8. QED
      BY <2>7 DEF y
  <1>6. /\ \A q, r \in Queues :
              p[q] = <<>> \/ p[r] = <<>> \/ q = r => ld[<<q, r>>] = 0
        /\ \A i, j \in 1 .. n :
              /\ i < j => ld[<<a[i], a[j]>>] + c[a[i]] - c[a[j]] <= Largest
              /\ j < i => ld[<<a[i], a[j]>>] + c[a[i]] - c[a[j]] <= Largest + Quantum
    BY DEF Fair, Balanced
  <1>7. /\ Listed(u) <=> /\ \A q \in Queues : u.isActive[q] <=> p[q] # <<>>
                         /\ \A q \in Queues :
                               p[q] # <<>> <=> \E i \in 1 .. Len(b) : b[i] = q
                         /\ \A i, j \in 1 .. Len(b) : b[i] = b[j] => i = j
        /\ Saved(u) <=> /\ \A q \in Queues : d[q] < Largest + Quantum
                        /\ \A i \in 1 .. Len(b) : i # 1 => d[b[i]] >= Quantum
    BY <1>0 DEF Listed, Saved
  <1>8. Balanced(u, ld) <=>
           /\ \A i, j \in 1 .. Len(b) :
                 /\ i < j => ld[<<b[i], b[j]>>] + d[b[i]] - d[b[j]] <= Largest
                 /\ j < i => ld[<<b[i], b[j]>>] + d[b[i]] - d[b[j]]
                                 <= Largest + Quantum
           /\ \A q, r \in Queues :
                 p[q] = <<>> \/ p[r] = <<>> \/ q = r => ld[<<q, r>>] = 0
    BY <1>0 DEF Balanced
  <1> HIDE DEF a, b, c, d, n, p
  <1>9. /\ \A i \in 1 .. n : b[i] = a[From(i)] /\ From(i) \in 1 .. n
        /\ \A i, j \in 1 .. n : From(i) = From(j) => i = j
        /\ \A j \in 1 .. n : \E i \in 1 .. n : From(i) = j
    <2>1. \A j \in 1 .. n : From(IF j = 1 THEN n ELSE j - 1) = j
                            /\ (IF j = 1 THEN n ELSE j - 1) \in 1 .. n
      BY <1>1
    <2>2. \A i \in 1 .. n : b[i] = a[From(i)] /\ From(i) \in 1 .. n
      BY <1>0, <1>1
    <2>3. \A i, j \in 1 .. n : From(i) = From(j) => i = j
      BY <1>1
    <2> HIDE DEF From
    <2>4. \A j \in 1 .. n : \E i \in 1 .. n : From(i) = j
      BY <2>1
    <2>5. QED
      BY <2>2, <2>3, <2>4
  <1>10. /\ \A i \in 1 .. n : i # n => d[b[i]] = c[a[From(i)]]
         /\ d[b[n]] = c[a[1]] + Quantum
         /\ \A q \in Queues : d[q] \in Nat
    <2>1. \A i \in 1 .. n : i # n => From(i) \in 1 .. n /\ a[From(i)] # a[1]
      BY <1>1, <1>3
    <2> HIDE DEF From
    <2>2. \A i \in 1 .. n : i # n => d[b[i]] = c[a[From(i)]]
      <3> TAKE i \in 1 .. n
      <3>1. HAVE i # n
      <3>2. b[i] = a[From(i)] /\ From(i) \in 1 .. n /\ a[From(i)] # a[1]
        BY <1>9, <2>1, <3>1
      <3>3. a[From(i)] \in Queues
        BY <1>1, <3>2
      <3>4. d[a[From(i)]] = c[a[From(i)]] /\ c[a[From(i)]] \in Nat
        BY <1>0, <1>1, <3>2, <3>3
      <3>5. QED
        BY <3>2, <3>4
    <2>3. 1 \in 1 .. n
      BY <1>1
    <2>4. d[b[n]] = c[a[1]] + Quantum
      BY <1>0, <1>1, <2>3
    <2>5. ASSUME NEW q \in Queues PROVE d[q] \in Nat
      <3>1. d[q] = c[q] + (IF q = a[1] THEN Quantum ELSE 0) /\ c[q] \in Nat
        BY <1>0, <1>1
      <3>2. QED
        BY <1>2, <3>1
    <2>6. QED
      BY <2>2, <2>4, <2>5
  <1>11. Listed(u)
    <2> HIDE DEF From
    <2>1. \A q \in Queues : p[q] # <<>> <=> \E i \in 1 .. n : b[i] = q
      <3> TAKE q \in Queues
      <3>1. ASSUME NEW i \in 1 .. n, a[i] = q PROVE \E j \in 1 .. n : b[j] = q
        <4>1. PICK j \in 1 .. n : From(j) = i
          BY <1>9
        <4>2. b[j] = q
          BY <1>9, <3>1, <4>1
        <4>3. QED
          BY <4>2
      <3>2. ASSUME NEW i \in 1 .. n, b[i] = q PROVE \E j \in 1 .. n : a[j] = q
        BY <1>9, <3>2
      <3>3. QED
        BY <1>3, <3>1, <3>2
    <2>2. ASSUME NEW i \in 1 .. n, NEW j \in 1 .. n, b[i] = b[j] PROVE i = j
      <3>1. a[From(i)] = a[From(j)] /\ From(i) \in 1 .. n /\ From(j) \in 1 .. n
        BY <1>9, <2>2
      <3>2. From(i) = From(j)
        BY <1>3, <3>1
      <3>3. QED
        BY <1>9, <3>2
    <2>3. QED
      BY <1>1, <1>3, <1>7, <2>1, <2>2
  <1>12. Saved(u)
    <2>1. \A q \in Queues : d[q] < Largest + Quantum
      <3> TAKE q \in Queues
      <3>1. /\ d[q] = c[q] + (IF q = a[1] THEN Quantum ELSE 0)
            /\ c[q] \in Nat /\ c[q] < Largest + Quantum
        BY <1>0, <1>1, <1>4
      <3>2. QED
        BY <1>2, <1>5, <3>1
    <2>2. \A i \in 1 .. n : i # 1 => d[b[i]] >= Quantum
      <3> TAKE i \in 1 .. n
      <3>1. i # n => From(i) \in 1 .. n /\ From(i) # 1
        BY <1>1
      <3>2. 1 \in 1 .. n
        BY <1>1
      <3> HIDE DEF From
      <3>3. HAVE i # 1
      <3>4. CASE i # n
        BY <1>4, <1>10, <3>1, <3>4
      <3>5. CASE i = n
        <4>1. c[a[1]] \in Nat
          BY <1>1, <3>2
        <4>2. QED
          BY <1>2, <1>10, <3>5, <4>1
      <3>6. QED
        BY <3>4, <3>5
    <2>3. QED
      BY <1>1, <1>7, <2>1, <2>2
  <1>13. Balanced(u, ld)
    <2>1. ASSUME NEW i \in 1 .. n, NEW j \in 1 .. n
          PROVE  /\ i < j => ld[<<b[i], b[j]>>] + d[b[i]] - d[b[j]] <= Largest
                 /\ j < i => ld[<<b[i], b[j]>>] + d[b[i]] - d[b[j]]
                                 <= Largest + Quantum
      <3> DEFINE k == From(i)
                 l == From(j)
                 x == ld[<<a[k], a[l]>>]
                 y == c[a[k]]
                 z == c[a[l]]
      <3>1. /\ i < j /\ j # n => k < l /\ i # n
            /\ i < j /\ j = n => l < k /\ i # n
            /\ j < i /\ i # n => l < k /\ j # n
            /\ j < i /\ i = n => k < l /\ j # n
        BY <1>1
      <3>2. /\ k \in 1 .. n /\ l \in 1 .. n /\ b[i] = a[k] /\ b[j] = a[l]
        BY <1>9
      <3> HIDE DEF From, k, l
      <3>3. a[k] \in Queues /\ a[l] \in Queues
        BY <1>1, <3>2
      <3>4. x \in Int /\ y \in Nat /\ z \in Nat
        BY <1>1, <1>2, <3>3
      <3>5. /\ k < l => x + y - z <= Largest
            /\ l < k => x + y - z <= Largest + Quantum
        BY <1>6, <3>2
      <3>6. /\ d[b[i]] = IF i = n THEN y + Quantum ELSE y
            /\ d[b[j]] = IF j = n THEN z + Quantum ELSE z
        <4>1. k = IF i = n THEN 1 ELSE i + 1
          BY DEF From, k
        <4>2. l = IF j = n THEN 1 ELSE j + 1
          BY DEF From, l
        <4>3. /\ i # n => d[b[i]] = y
              /\ j # n => d[b[j]] = z
          BY <1>10 DEF k, l
        <4>4. /\ i = n => d[b[i]] = y + Quantum
              /\ j = n => d[b[j]] = z + Quantum
          BY <1>10, <4>1, <4>2
        <4>5. QED
          BY <4>3, <4>4
      <3>7. ld[<<b[i], b[j]>>] = x
        BY <3>2
      <3> DEFINE e == d[b[i]]
                 f == d[b[j]]
      <3> HIDE DEF x, y, z, e, f
      <3>8. /\ i < j => x + e - f <= Largest
            /\ j < i => x + e - f <= Largest + Quantum
        BY <1>1, <1>2, <3>1, <3>4, <3>5, <3>6 DEF e, f
      <3>9. QED
        BY <3>7, <3>8 DEF e, f
    <2>2. QED
      BY <1>1, <1>6, <1>8, <2>1
  <1>14. QED
    BY <1>2, <1>11, <1>12, <1>13 DEF Fair

\* After m rounds of turns the front queue is at the front again and has had m
\* quanta.
LEMMA Rounds ==
    ASSUME NEW s \in StocStates, s.activeQ # <<>>
    PROVE  LET n == Len(s.activeQ)
               f == s.activeQ[1]
           IN  \A m \in Nat :
                  /\ SFQ!Looked(s, n * m) = f
                  /\ Cardinality({j \in 0 .. n * m - 1 : SFQ!Looked(s, j) = f}) >= m
  <1> DEFINE n == Len(s.activeQ)
             f == s.activeQ[1]
             L(j) == SFQ!Looked(s, j)
             T(k) == {j \in 0 .. k - 1 : L(j) = f}
             M == {m \in Nat : L(n * m) = f /\ Cardinality(T(n * m)) >= m}
  <1>1. n \in Nat \ {0}
    BY StocFields
  <1>2. \A k \in Nat : L(k + n) = L(k)
    BY LookedAt
  <1>3. L(0) = f
    <2>1. 0 \in Nat /\ 0 < n /\ 0 + 1 = 1
      BY <1>1
    <2>2. L(0) = s.activeQ[0 + 1]
      BY <2>1, LookedAt
    <2>3. QED
      BY <2>1, <2>2
  <1>4. \A k \in Nat : IsFiniteSet(T(k)) /\ Cardinality(T(k)) \in Nat
    <2> TAKE k \in Nat
    <2>1. IsFiniteSet(0 .. k - 1)
      BY FS_Interval
    <2>2. IsFiniteSet(T(k))
      BY <2>1, FS_Subset
    <2>3. QED
      BY <2>2, FS_CardinalityType
  <1> HIDE DEF n, f, L
  <1>5. 0 \in M
    <2>1. n * 0 = 0
      BY <1>1
    <2>2. L(n * 0) = f
      BY <1>3, <2>1
    <2>3. Cardinality(T(n * 0)) \in Nat
      BY <1>4, <2>1
    <2>4. QED
      BY <2>2, <2>3
  <1>6. ASSUME NEW m \in M PROVE m + 1 \in M
    <2> DEFINE k == n * m
    <2>1. /\ m \in Nat /\ L(k) = f /\ Cardinality(T(k)) >= m
          /\ k \in Nat /\ n * (m + 1) = k + n
      BY <1>1
    <2> HIDE DEF k
    <2>2. L(n * (m + 1)) = f
      BY <1>2, <2>1
    <2>3. T(k) \cup {k} \subseteq T(k + n) /\ k \notin T(k)
      BY <1>1, <2>1
    <2>0. k + n \in Nat
      BY <1>1, <2>1
    <2> HIDE DEF T
    <2>4. Cardinality(T(k) \cup {k}) <= Cardinality(T(k + n))
      BY <1>4, <2>0, <2>3, FS_Subset
    <2>5. Cardinality(T(k) \cup {k}) = Cardinality(T(k)) + 1
      BY <1>4, <2>1, <2>3, FS_AddElement
    <2>6. Cardinality(T(k + n)) \in Nat /\ Cardinality(T(k)) \in Nat
      BY <1>4, <2>0, <2>1
    <2> DEFINE c == Cardinality(T(k))
               d == Cardinality(T(k + n))
    <2>7. c \in Nat /\ d \in Nat /\ c >= m /\ c + 1 <= d
      BY <2>1, <2>4, <2>5, <2>6
    <2> HIDE DEF c, d
    <2>8. d >= m + 1
      BY <2>1, <2>7
    <2>9. QED
      BY <2>1, <2>2, <2>8 DEF d
  <1>7. M = Nat
    <2>1. M \in SUBSET Nat
      OBVIOUS
    <2> HIDE DEF M
    <2>2. QED
      BY <1>5, <1>6, <2>1, Induct
  <1>8. QED
    BY <1>7 DEF n, f, L

\* Some queue can send when each has had enough turns.
LEMMA SomeoneSends ==
    ASSUME NEW s \in StocStates, s.activeQ # <<>>, s.packets[s.activeQ[1]] # <<>>
    PROVE  \E k \in SFQ!Looks(s) : k \in Nat /\ SFQ!Sends(SFQ!Turned(s, k))
  <1> DEFINE n == Len(s.activeQ)
             f == s.activeQ[1]
             m == Head(s.packets[f]).size
             k == n * m
             T == {j \in 0 .. k - 1 : SFQ!Looked(s, j) = f}
  <1>1. n \in Nat \ {0} /\ f = Head(s.activeQ) /\ f \in Queues
    BY StocFields
  <1>2. m \in Nat \ {0}
    <2>1. s.packets[f] \in Seq([id : Nat, size : Sizes]) /\ s.packets[f] # <<>>
      BY <1>1, StocFields
    <2>2. Head(s.packets[f]) \in [id : Nat, size : Sizes]
      BY <2>1, HeadTailProperties, Zenon
    <2>3. QED
      BY <2>2, SfqConstants
  <1>3. SFQ!Looked(s, k) = f /\ Cardinality(T) >= m
    BY <1>2, Rounds
  <1>4. Cardinality(T) \in Nat
    <2>1. \A j \in Nat : IsFiniteSet(0 .. j - 1)
      BY FS_Interval
    <2>2. IsFiniteSet(0 .. k - 1)
      <3>1. k \in Nat
        BY <1>1, <1>2
      <3>2. QED
        BY <2>1, <3>1, Zenon
    <2>3. IsFiniteSet(T)
      BY <2>2, FS_Subset
    <2>4. QED
      BY <2>3, FS_CardinalityType
  <1>5. k \in Nat /\ SFQ!Looks(s) = 0 .. k
    BY <1>1, <1>2 DEF SFQ!Looks
  <1> DEFINE t == SFQ!Turned(s, k)
  <1>6. t \in StocStates /\ TurnedBy(s, t, k)
    BY <1>5, TurnedFields
  <1> HIDE DEF t
  <1>7. Head(t.activeQ) = f /\ t.packets = s.packets
    <2>1. 1 \in 1 .. n /\ 1 - 1 + k = k
      BY <1>1, <1>5
    <2>2. t.activeQ[1] = SFQ!Looked(s, 1 - 1 + k) /\ Len(t.activeQ) = n
      BY <1>6, <2>1, Zenon DEF TurnedBy
    <2>3. t.activeQ \in Seq(Queues) /\ t.packets = s.packets
      BY <1>6 DEF TurnedBy
    <2>4. QED
      BY <1>1, <1>3, <2>1, <2>2, <2>3
  <1>8. t.credits[f] >= m
    <2> DEFINE c == Cardinality(T)
    <2>1. t.credits[f] = s.credits[f] + Quantum * c
      BY <1>1, <1>6, Zenon DEF TurnedBy
    <2>2. s.credits[f] \in Nat
      BY <1>1, StocFields
    <2>3. c \in Nat /\ c >= m
      BY <1>3, <1>4
    <2> HIDE DEF c, m
    <2>4. Quantum * c >= c /\ Quantum * c \in Nat
      BY <2>3, SfqConstants
    <2>5. QED
      BY <1>2, <2>1, <2>2, <2>3, <2>4
  <1>9. SFQ!Sends(t)
    BY <1>7, <1>8 DEF SFQ!Sends
  <1>10. QED
    BY <1>5, <1>9 DEF t

\* The loop of beginService ends, at a queue that can send, and is fair.
LEMMA RotateFair ==
    ASSUME NEW s, NEW ld, Fair(s, ld), s.activeQ # <<>>
    PROVE  /\ Fair(SFQ!Rotate(s), ld)
           /\ SFQ!Sends(SFQ!Rotate(s))
           /\ SFQ!Rotate(s).packets = s.packets
  <1> DEFINE T(j) == SFQ!Turned(s, j)
             P == {j \in Nat : j \in SFQ!Looks(s) /\ SFQ!Sends(T(j))}
             First(j) == SFQ!Sends(T(j)) /\ \A i \in 0 .. j - 1 : ~SFQ!Sends(T(i))
  <1>1. /\ s \in StocStates /\ s.activeQ \in Seq(Queues)
        /\ Len(s.activeQ) \in Nat \ {0} /\ 1 \in 1 .. Len(s.activeQ)
    <2>1. s \in StocStates
      BY DEF Fair
    <2>2. s.activeQ \in Seq(Queues)
      BY <2>1, StocFields
    <2>3. QED
      BY <2>1, <2>2
  <1>2. s.packets[s.activeQ[1]] # <<>> /\ s.activeQ[1] \in Queues
    <2>1. s.activeQ[1] \in Queues
      BY <1>1
    <2>2. QED
      BY <1>1, <2>1 DEF Fair, Listed
  <1>3. \E m \in Nat : SFQ!Looks(s) = 0 .. m
    <2>1. Head(s.activeQ) = s.activeQ[1]
      BY <1>1
    <2>2. s.packets[s.activeQ[1]] \in Seq([id : Nat, size : Sizes])
      BY <1>1, <1>2, StocFields
    <2>3. Head(s.packets[s.activeQ[1]]) \in [id : Nat, size : Sizes]
      BY <1>2, <2>2, HeadTailProperties, Zenon
    <2>4. Head(s.packets[Head(s.activeQ)]).size \in Nat
      BY <2>1, <2>3, SfqConstants
    <2> DEFINE m == Len(s.activeQ) * Head(s.packets[Head(s.activeQ)]).size
    <2>5. m \in Nat /\ SFQ!Looks(s) = 0 .. m
      BY <1>1, <2>4 DEF SFQ!Looks
    <2> HIDE DEF m
    <2>6. QED
      BY <2>5
  <1>4. \E k \in SFQ!Looks(s) : First(k)
    <2>1. P # {} /\ P \in SUBSET Nat
      BY <1>1, <1>2, SomeoneSends
    <2>2. PICK k \in P : \A j \in P : k <= j
      <3> HIDE DEF P
      <3>1. QED
        BY <2>1, Least
    <2>3. k \in Nat /\ k \in SFQ!Looks(s) /\ SFQ!Sends(T(k))
      BY <2>2
    <2>4. \A i \in 0 .. k - 1 : i \in SFQ!Looks(s)
      BY <1>3, <2>3
    <2>5. \A i \in 0 .. k - 1 : ~SFQ!Sends(T(i))
      <3> HIDE DEF T
      <3>1. QED
        BY <2>2, <2>3, <2>4
    <2>6. QED
      BY <2>3, <2>5
  <1> DEFINE k == CHOOSE j \in SFQ!Looks(s) : First(j)
  <1>5. k \in SFQ!Looks(s) /\ First(k)
    <2> HIDE DEF First
    <2>1. QED
      BY <1>4
  <1>6. k \in Nat
    <2> HIDE DEF First, k
    <2>1. QED
      BY <1>5, <1>3
  <1>7. SFQ!Rotate(s) = T(k)
    BY DEF SFQ!Rotate
  <1> HIDE DEF k, P
  <1> DEFINE G == {j \in Nat : j <= k => Fair(T(j), ld)}
  <1>8. 0 \in G
    <2>1. T(0) \in StocStates /\ TurnedBy(s, T(0), 0)
      BY <1>1, TurnedFields
    <2> HIDE DEF T
    <2>2. T(0) = s
      BY <1>1, <2>1, TurnedZero
    <2>3. QED
      BY <2>2
  <1>9. ASSUME NEW j \in G PROVE j + 1 \in G
    <2>0. j \in Nat
      OBVIOUS
    <2> SUFFICES ASSUME j + 1 <= k PROVE Fair(T(j + 1), ld)
      BY <2>0
    <2>1. Fair(T(j), ld) /\ j \in 0 .. k - 1 /\ j + 1 \in Nat
      BY <1>6, <2>0
    <2>2. ~SFQ!Sends(T(j))
      BY <1>5, <2>1
    <2>3. /\ T(j) \in StocStates /\ TurnedBy(s, T(j), j)
          /\ T(j + 1) \in StocStates /\ TurnedBy(s, T(j + 1), j + 1)
      BY <1>1, <2>0, <2>1, TurnedFields
    <2> DEFINE t == T(j)
               u == T(j + 1)
    <2> HIDE DEF T, t, u
    <2>4. /\ t \in StocStates /\ TurnedBy(s, t, j) /\ Fair(t, ld)
          /\ u \in StocStates /\ TurnedBy(s, u, j + 1) /\ ~SFQ!Sends(t)
      BY <2>1, <2>2, <2>3 DEF t, u
    <2>5. /\ Len(t.activeQ) \in Nat \ {0} /\ Len(u.activeQ) = Len(t.activeQ)
          /\ u.packets = t.packets /\ u.isActive = t.isActive
          /\ \A i \in 1 .. Len(t.activeQ) - 1 : u.activeQ[i] = t.activeQ[i + 1]
          /\ u.activeQ[Len(t.activeQ)] = t.activeQ[1]
          /\ \A q \in Queues : u.credits[q] =
                 t.credits[q] + (IF q = t.activeQ[1] THEN Quantum ELSE 0)
      BY <1>1, <2>0, <2>4, TurnedNext
    <2>6. t.activeQ # <<>>
      BY <2>5
    <2>7. Fair(u, ld)
      BY <2>4, <2>5, <2>6, TurnFair
    <2>8. QED
      BY <2>7 DEF u
  <1>10. G = Nat
    <2>1. G \in SUBSET Nat
      OBVIOUS
    <2> HIDE DEF G
    <2>2. QED
      BY <1>8, <1>9, <2>1, Induct
  <1>11. Fair(T(k), ld)
    BY <1>6, <1>10
  <1>12. T(k).packets = s.packets
    BY <1>1, <1>6, TurnedFields DEF TurnedBy
  <1>13. QED
    BY <1>5, <1>7, <1>11, <1>12

\* beginService takes the state on which it works to one with a packet to send.
LEMMA StocBegins ==
    ASSUME NEW s, NEW ld, NEW n, Fair(s, ld), Distinct(s, n), SFQ!BeginService(s)
    PROVE  /\ Fair(SFQ!Fifos', ld) /\ Distinct(SFQ!Fifos', n)
           /\ Sending(SFQ!Fifos', pending')
           /\ packets' = s.packets
  <1>1. s \in StocStates /\ SFQ!Queues = Queues
    BY SfqConstants DEF Fair
  <1>2. CASE \A q \in Queues : s.packets[q] = <<>>
    <2>1. pending' = 0 /\ SFQ!Become(s)
      BY <1>1, <1>2 DEF SFQ!BeginService
    <2>2. SFQ!Fifos' = s /\ packets' = s.packets
      <3>1. SFQ!Fifos' = [packets |-> s.packets, credits |-> s.credits,
                          activeQ |-> s.activeQ, isActive |-> s.isActive]
        BY <2>1 DEF SFQ!Become, SFQ!Fifos
      <3>2. QED
        BY <1>1, <2>1, <3>1 DEF SFQ!Become, StocStates
    <2>3. Sending(s, pending')
      BY <1>2, <2>1 DEF Sending
    <2>4. QED
      BY <2>2, <2>3
  <1>3. CASE ~ \A q \in Queues : s.packets[q] = <<>>
    <2> DEFINE r == SFQ!Rotate(s)
    <2>1. s.activeQ # <<>>
      <3>1. \E q \in Queues : \E i \in 1 .. Len(s.activeQ) : s.activeQ[i] = q
        BY <1>3 DEF Fair, Listed
      <3>2. QED
        BY <3>1
    <2>2. Fair(r, ld) /\ SFQ!Sends(r) /\ r.packets = s.packets
      BY <2>1, RotateFair
    <2>3. SFQ!Become(r) /\ pending' = Head(packets'[Head(activeQ')]).id
      BY <1>1, <1>3 DEF SFQ!BeginService
    <2> HIDE DEF r
    <2>4. SFQ!Fifos' = r /\ packets' = s.packets
      <3>1. SFQ!Fifos' = [packets |-> r.packets, credits |-> r.credits,
                          activeQ |-> r.activeQ, isActive |-> r.isActive]
        BY <2>3 DEF SFQ!Become, SFQ!Fifos
      <3>2. QED
        BY <2>2, <2>3, <3>1 DEF SFQ!Become, StocStates, Fair
    <2>5. Sending(r, pending')
      <3>1. packets' = r.packets /\ activeQ' = r.activeQ
        BY <2>3 DEF SFQ!Become
      <3>2. QED
        BY <1>3, <2>2, <2>3, <3>1 DEF Sending, SFQ!Sends
    <2>6. Distinct(r, n)
      BY <2>2 DEF Distinct
    <2>7. QED
      BY <2>2, <2>4, <2>5, <2>6
  <1>4. QED
    BY <1>2, <1>3

----------------------------------------------------------------------------
(* StocFairQueue: a packet comes, a packet leaves *)

\* A packet for a queue that had none puts the queue at the back of the list,
\* with a quantum.
LEMMA EnqueueFair ==
    ASSUME NEW s, NEW ld, Fair(s, ld), NEW q \in Queues,
           NEW p \in [id : Nat, size : Sizes]
    PROVE  Fair(SFQ!Activate([s EXCEPT !.packets[q] = Append(@, p)], q), ld)
  <1> DEFINE Packet == [id : Nat, size : Sizes]
             e == [s EXCEPT !.packets[q] = Append(@, p)]
             t == SFQ!Activate(e, q)
             a == s.activeQ
             n == Len(a)
             c == s.credits
             pk == s.packets
             act == s.isActive
             pt == [pk EXCEPT ![q] = Append(@, p)]
  <1>1. /\ s \in StocStates /\ pk \in [Queues -> Seq(Packet)]
        /\ c \in [Queues -> Nat] /\ a \in Seq(Queues)
        /\ act \in [Queues -> BOOLEAN]
        /\ ld \in [Queues \X Queues -> Int]
    BY StocFields DEF Fair
  <1>2. /\ pt \in [Queues -> Seq(Packet)] /\ pt[q] # <<>>
        /\ \A r \in Queues : r # q => pt[r] = pk[r]
    <2> HIDE DEF pk, Packet
    <2>1. pk[q] \in Seq(Packet) /\ p \in Packet
      BY <1>1 DEF Packet
    <2>2. Append(pk[q], p) \in Seq(Packet) /\ Append(pk[q], p) # <<>>
      BY <2>1, AppendProperties
    <2>3. QED
      BY <1>1, <2>2
  <1>3. e = [s EXCEPT !.packets = pt]
    BY <1>1 DEF StocStates
  <1>4. /\ e.packets = pt /\ e.credits = c /\ e.activeQ = a /\ e.isActive = act
        /\ e \in StocStates
    <2> HIDE DEF e, pt
    <2>1. QED
      BY <1>1, <1>2, <1>3 DEF StocStates
  <1>5. CASE act[q]
    <2>1. t = e
      BY <1>4, <1>5 DEF SFQ!Activate
    <2>2. pk[q] # <<>>
      BY <1>5 DEF Fair, Listed
    <2>3. \A r \in Queues : pt[r] = <<>> <=> pk[r] = <<>>
      BY <1>2, <2>2
    <2>4. Listed(e)
      <3>1. /\ \A r \in Queues : act[r] <=> pk[r] # <<>>
            /\ \A r \in Queues : pk[r] # <<>> <=> \E i \in 1 .. n : a[i] = r
            /\ \A i, j \in 1 .. n : a[i] = a[j] => i = j
        BY DEF Fair, Listed
      <3> HIDE DEF e, pt, pk, act, a
      <3>2. /\ \A r \in Queues : act[r] <=> pt[r] # <<>>
            /\ \A r \in Queues : pt[r] # <<>> <=> \E i \in 1 .. n : a[i] = r
        BY <2>3, <3>1
      <3>3. QED
        BY <1>4, <3>1, <3>2 DEF Listed
    <2> HIDE DEF e, pt
    <2>5. Saved(e)
      BY <1>4 DEF Fair, Saved
    <2>6. Balanced(e, ld)
      BY <1>4, <2>3 DEF Fair, Balanced
    <2>7. QED
      BY <1>1, <1>4, <2>1, <2>4, <2>5, <2>6 DEF Fair, e
  <1>6. CASE ~act[q]
    <2> DEFINE b == Append(a, q)
               d == [c EXCEPT ![q] = Quantum]
               on == [act EXCEPT ![q] = TRUE]
    <2>1. t = [e EXCEPT !.isActive[q] = TRUE, !.activeQ = Append(@, q),
                        !.credits[q] = Quantum]
      BY <1>4, <1>6 DEF SFQ!Activate
    <2>2. t = [e EXCEPT !.isActive = on, !.activeQ = b, !.credits = d]
      <3> HIDE DEF e, t
      <3>1. QED
        BY <1>4, <2>1 DEF StocStates
    <2>3. /\ d \in [Queues -> Nat] /\ d[q] = Quantum
          /\ \A r \in Queues : r # q => d[r] = c[r]
          /\ on \in [Queues -> BOOLEAN] /\ on[q]
          /\ \A r \in Queues : r # q => (on[r] <=> act[r])
      <3> HIDE DEF c, act
      <3>1. QED
        BY <1>1, SfqConstants
    <2>4. /\ n \in Nat /\ b \in Seq(Queues) /\ Len(b) = n + 1
          /\ \A i \in 1 .. n : b[i] = a[i] /\ a[i] \in Queues
          /\ b[n + 1] = q
      <3> HIDE DEF a
      <3>1. QED
        BY <1>1, AppendProperties
    <2>5. /\ t.packets = pt /\ t.credits = d /\ t.activeQ = b /\ t.isActive = on
          /\ t \in StocStates
      <3> HIDE DEF e, t, b, d, on, pt
      <3>1. QED
        BY <1>2, <1>4, <2>2, <2>3, <2>4 DEF StocStates
    <2>6. /\ \A r \in Queues : act[r] <=> pk[r] # <<>>
          /\ \A r \in Queues : pk[r] # <<>> <=> \E i \in 1 .. n : a[i] = r
          /\ \A i, j \in 1 .. n : a[i] = a[j] => i = j
      BY DEF Fair, Listed
    <2>7. /\ \A r \in Queues : c[r] < Largest + Quantum
          /\ \A i \in 1 .. n : i # 1 => c[a[i]] >= Quantum
      BY DEF Fair, Saved
    <2>8. /\ \A r1, r2 \in Queues :
                pk[r1] = <<>> \/ pk[r2] = <<>> \/ r1 = r2 => ld[<<r1, r2>>] = 0
          /\ \A i, j \in 1 .. n :
                /\ i < j => ld[<<a[i], a[j]>>] + c[a[i]] - c[a[j]] <= Largest
                /\ j < i => ld[<<a[i], a[j]>>] + c[a[i]] - c[a[j]]
                                <= Largest + Quantum
      BY DEF Fair, Balanced
    <2>9. pk[q] = <<>> /\ \A i \in 1 .. n : a[i] # q
      BY <1>6, <2>6
    <2> HIDE DEF e, t, b, d, on, pt, a, n, c, pk, act
    <2>10. Listed(t)
      <3>1. \A r \in Queues : on[r] <=> pt[r] # <<>>
        BY <1>2, <2>3, <2>6
      <3>2. \A r \in Queues : pt[r] # <<>> <=> \E i \in 1 .. n + 1 : b[i] = r
        <4> TAKE r \in Queues
        <4>1. CASE r = q
          BY <1>2, <2>4, <4>1
        <4>2. CASE r # q
          <5>1. pt[r] # <<>> <=> \E i \in 1 .. n : a[i] = r
            BY <1>2, <2>6, <4>2
          <5>2. \A i \in 1 .. n + 1 : i \in 1 .. n \/ i = n + 1
            BY <2>4
          <5>3. \A i \in 1 .. n : i \in 1 .. n + 1
            BY <2>4
          <5>4. QED
            BY <2>4, <4>2, <5>1, <5>2, <5>3
        <4>3. QED
          BY <4>1, <4>2
      <3>3. \A i, j \in 1 .. n + 1 : b[i] = b[j] => i = j
        <4>1. \A i \in 1 .. n + 1 : i \in 1 .. n \/ i = n + 1
          BY <2>4
        <4>2. QED
          BY <2>4, <2>6, <2>9, <4>1
      <3>4. QED
        BY <2>4, <2>5, <3>1, <3>2, <3>3 DEF Listed
    <2>11. Saved(t)
      <3>1. ASSUME NEW r \in Queues PROVE d[r] < Largest + Quantum
        <4>1. CASE r = q
          BY <2>3, <4>1, SfqConstants
        <4>2. CASE r # q
          BY <2>3, <2>7, <4>2
        <4>3. QED
          BY <4>1, <4>2
      <3>2. \A i \in 1 .. n + 1 : i # 1 => d[b[i]] >= Quantum
        <4> TAKE i \in 1 .. n + 1
        <4>1. CASE i = n + 1
          BY <2>3, <2>4, <4>1, SfqConstants
        <4>2. CASE i \in 1 .. n
          BY <2>3, <2>4, <2>7, <2>9, <4>2
        <4>3. QED
          BY <2>4, <4>1, <4>2
      <3>3. QED
        BY <2>4, <2>5, <3>1, <3>2 DEF Saved
    <2>12. Balanced(t, ld)
      <3>1. \A r1, r2 \in Queues :
               pt[r1] = <<>> \/ pt[r2] = <<>> \/ r1 = r2 => ld[<<r1, r2>>] = 0
        BY <1>2, <2>8
      <3>2. ASSUME NEW i \in 1 .. n + 1, NEW j \in 1 .. n + 1
            PROVE  /\ i < j => ld[<<b[i], b[j]>>] + d[b[i]] - d[b[j]] <= Largest
                   /\ j < i => ld[<<b[i], b[j]>>] + d[b[i]] - d[b[j]]
                                   <= Largest + Quantum
        <4>1. CASE i \in 1 .. n /\ j \in 1 .. n
          <5>1. d[b[i]] = c[a[i]] /\ d[b[j]] = c[a[j]] /\ b[i] = a[i] /\ b[j] = a[j]
            BY <2>3, <2>4, <2>9, <4>1
          <5>2. QED
            BY <2>8, <4>1, <5>1
        <4>2. CASE i \in 1 .. n /\ j = n + 1
          <5>1. /\ d[b[i]] = c[a[i]] /\ d[b[j]] = Quantum /\ b[i] = a[i]
                /\ b[j] = q /\ a[i] \in Queues
            BY <2>3, <2>4, <2>9, <4>2
          <5>2. ld[<<a[i], q>>] = 0 /\ c[a[i]] < Largest + Quantum
                /\ c[a[i]] \in Nat
            BY <1>1, <2>7, <2>8, <2>9, <5>1
          <5>3. i < j /\ ~(j < i)
            BY <2>4, <4>2
          <5>4. QED
            BY <5>1, <5>2, <5>3, SfqConstants
        <4>3. CASE i = n + 1 /\ j \in 1 .. n
          <5>1. /\ d[b[j]] = c[a[j]] /\ d[b[i]] = Quantum /\ b[j] = a[j]
                /\ b[i] = q /\ a[j] \in Queues
            BY <2>3, <2>4, <2>9, <4>3
          <5>2. ld[<<q, a[j]>>] = 0 /\ c[a[j]] \in Nat
            BY <1>1, <2>8, <2>9, <5>1
          <5>3. j < i /\ ~(i < j)
            BY <2>4, <4>3
          <5>4. QED
            BY <5>1, <5>2, <5>3, SfqConstants
        <4>4. CASE i = n + 1 /\ j = n + 1
          BY <2>4, <4>4
        <4>5. QED
          BY <2>4, <4>1, <4>2, <4>3, <4>4
      <3>3. QED
        BY <2>4, <2>5, <3>1, <3>2 DEF Balanced
    <2>13. QED
      BY <1>1, <2>5, <2>10, <2>11, <2>12 DEF Fair, t, e
  <1>7. QED
    BY <1>5, <1>6

\* What a service of queue q adds to the leads.
LeadAfter(ld, pt, q, size) ==
    [qr \in Queues \X Queues |->
        IF pt[qr[1]] = <<>> \/ pt[qr[2]] = <<>> \/ qr[1] = qr[2] THEN 0
        ELSE CASE qr[1] = q -> ld[qr] + size
               [] qr[2] = q -> ld[qr] - size
               [] OTHER     -> ld[qr]]

\* The same, pair by pair.
LeadsBy(L, ld, pt, q, size) ==
    /\ L \in [Queues \X Queues -> Int]
    /\ \A r, t \in Queues :
          /\ pt[r] = <<>> \/ pt[t] = <<>> \/ r = t => L[<<r, t>>] = 0
          /\ ~(pt[r] = <<>> \/ pt[t] = <<>> \/ r = t) =>
                /\ r = q => L[<<r, t>>] = ld[<<r, t>>] + size
                /\ t = q => L[<<r, t>>] = ld[<<r, t>>] - size
                /\ r # q /\ t # q => L[<<r, t>>] = ld[<<r, t>>]

\* The leads after a packet was sent, queue by queue.
LEMMA LeadAfterIs ==
    ASSUME NEW ld \in [Queues \X Queues -> Int], NEW pt, NEW q \in Queues,
           NEW size \in Nat
    PROVE  LeadsBy(LeadAfter(ld, pt, q, size), ld, pt, q, size)
  <1> DEFINE L == LeadAfter(ld, pt, q, size)
  <1>1. ASSUME NEW r \in Queues, NEW t \in Queues
        PROVE  /\ pt[r] = <<>> \/ pt[t] = <<>> \/ r = t => L[<<r, t>>] = 0
               /\ ~(pt[r] = <<>> \/ pt[t] = <<>> \/ r = t) =>
                     /\ r = q => L[<<r, t>>] = ld[<<r, t>>] + size
                     /\ t = q => L[<<r, t>>] = ld[<<r, t>>] - size
                     /\ r # q /\ t # q => L[<<r, t>>] = ld[<<r, t>>]
    <2>1. L[<<r, t>>] =
             IF pt[r] = <<>> \/ pt[t] = <<>> \/ r = t THEN 0
             ELSE CASE r = q -> ld[<<r, t>>] + size
                    [] t = q -> ld[<<r, t>>] - size
                    [] OTHER -> ld[<<r, t>>]
      BY DEF LeadAfter
    <2> HIDE DEF L
    <2>2. QED
      BY <2>1
  <1>2. ASSUME NEW qr \in Queues \X Queues PROVE L[qr] \in Int
    <2>1. qr = <<qr[1], qr[2]>> /\ qr[1] \in Queues /\ qr[2] \in Queues
          /\ ld[qr] \in Int
      OBVIOUS
    <2> HIDE DEF L
    <2>2. QED
      BY <1>1, <2>1
  <1>3. L \in [Queues \X Queues -> Int]
    <2>1. L = [qr \in Queues \X Queues |-> L[qr]]
      BY DEF LeadAfter
    <2> HIDE DEF L
    <2>2. QED
      BY <1>2, <2>1
  <1>4. QED
    BY <1>1, <1>3 DEF LeadsBy

\* The state after a service, before the next one begins.
Served(s) ==
    LET q == Head(s.activeQ)
        e == [s EXCEPT !.packets[q] = Tail(@),
                       !.credits[q] = @ - Head(s.packets[q]).size]
    IN  IF e.packets[q] = <<>> THEN SFQ!Deactivate(e, q) ELSE e

\* The queue that sends pays for its packet; when it is empty it leaves the
\* list.
LEMMA ServedFair ==
    ASSUME NEW s, NEW ld, Fair(s, ld), s.activeQ # <<>>,
           s.credits[s.activeQ[1]] >= Head(s.packets[s.activeQ[1]]).size
    PROVE  LET q  == s.activeQ[1]
               pt == [s.packets EXCEPT ![q] = Tail(@)]
           IN  /\ Fair(Served(s), LeadAfter(ld, pt, q, Head(s.packets[q]).size))
               /\ Served(s).packets = pt
  <1> DEFINE Packet == [id : Nat, size : Sizes]
             a == s.activeQ
             n == Len(a)
             c == s.credits
             pk == s.packets
             act == s.isActive
             q == a[1]
             size == Head(pk[q]).size
             pt == [pk EXCEPT ![q] = Tail(@)]
             d == [c EXCEPT ![q] = @ - size]
             e == [s EXCEPT !.packets = pt, !.credits = d]
             lt == LeadAfter(ld, pt, q, size)
  <1>1. /\ s \in StocStates /\ pk \in [Queues -> Seq(Packet)]
        /\ c \in [Queues -> Nat] /\ a \in Seq(Queues)
        /\ act \in [Queues -> BOOLEAN]
        /\ ld \in [Queues \X Queues -> Int]
    BY StocFields DEF Fair
  <1>2. /\ \A r \in Queues : act[r] <=> pk[r] # <<>>
        /\ \A r \in Queues : pk[r] # <<>> <=> \E i \in 1 .. n : a[i] = r
        /\ \A i, j \in 1 .. n : a[i] = a[j] => i = j
    BY DEF Fair, Listed
  <1>3. /\ \A r \in Queues : c[r] < Largest + Quantum
        /\ \A i \in 1 .. n : i # 1 => c[a[i]] >= Quantum
    BY DEF Fair, Saved
  <1>4. /\ \A r1, r2 \in Queues :
              pk[r1] = <<>> \/ pk[r2] = <<>> \/ r1 = r2 => ld[<<r1, r2>>] = 0
        /\ \A i, j \in 1 .. n :
              /\ i < j => ld[<<a[i], a[j]>>] + c[a[i]] - c[a[j]] <= Largest
              /\ j < i => ld[<<a[i], a[j]>>] + c[a[i]] - c[a[j]]
                              <= Largest + Quantum
    BY DEF Fair, Balanced
  <1>5. /\ n \in Nat \ {0} /\ 1 \in 1 .. n /\ q \in Queues /\ q = Head(a)
        /\ \A i \in 1 .. n : a[i] \in Queues
        /\ c[q] >= size
    <2>1. a # <<>> /\ c[q] >= size
      OBVIOUS
    <2> HIDE DEF a, c, size
    <2>2. QED
      BY <1>1, <2>1
  <1>6. pk[q] # <<>> /\ pk[q] \in Seq(Packet) /\ size \in Sizes
    <2>1. pk[q] # <<>> /\ pk[q] \in Seq(Packet)
      <3> HIDE DEF a, pk, n, Packet
      <3>1. QED
        BY <1>1, <1>2, <1>5
    <2>2. Head(pk[q]) \in Packet
      <3> HIDE DEF pk, Packet, q
      <3>1. QED
        BY <2>1, HeadTailProperties, Zenon
    <2>3. QED
      BY <2>1, <2>2
  <1>7. /\ pt \in [Queues -> Seq(Packet)]
        /\ \A r \in Queues : r # q => pt[r] = pk[r]
    <2> HIDE DEF pk, Packet, q
    <2>1. Tail(pk[q]) \in Seq(Packet)
      BY <1>6, HeadTailProperties
    <2>2. QED
      BY <1>1, <1>5, <2>1
  <1>8. /\ d \in [Queues -> Nat] /\ d[q] = c[q] - size
        /\ \A r \in Queues : r # q => d[r] = c[r]
    <2> HIDE DEF c, size, q
    <2>1. c[q] - size \in Nat
      <3>1. c[q] \in Nat /\ size \in Nat
        BY <1>1, <1>5, <1>6, SfqConstants
      <3> HIDE DEF d
      <3>2. QED
        BY <1>5, <3>1
    <2>2. QED
      BY <1>1, <1>5, <2>1
  <1>9. /\ e.packets = pt /\ e.credits = d /\ e.activeQ = a /\ e.isActive = act
        /\ e \in StocStates
    <2> HIDE DEF pt, d
    <2>1. QED
      BY <1>1, <1>7, <1>8 DEF StocStates
  <1>10. /\ lt \in [Queues \X Queues -> Int]
         /\ \A r, t \in Queues :
               /\ pt[r] = <<>> \/ pt[t] = <<>> \/ r = t => lt[<<r, t>>] = 0
               /\ ~(pt[r] = <<>> \/ pt[t] = <<>> \/ r = t) =>
                     /\ r = q => lt[<<r, t>>] = ld[<<r, t>>] + size
                     /\ t = q => lt[<<r, t>>] = ld[<<r, t>>] - size
                     /\ r # q /\ t # q => lt[<<r, t>>] = ld[<<r, t>>]
    <2>1. size \in Nat
      BY <1>6, SfqConstants
    <2>2. q \in Queues /\ ld \in [Queues \X Queues -> Int]
      BY <1>1, <1>5
    <2> HIDE DEF pt, q, size
    <2>3. lt = LeadAfter(ld, pt, q, size)
      OBVIOUS
    <2> HIDE DEF lt
    <2>4. LeadsBy(lt, ld, pt, q, size)
      BY <2>1, <2>2, <2>3, LeadAfterIs
    <2>5. QED
      BY <2>4 DEF LeadsBy
  <1>11. Served(s) = IF pt[q] = <<>> THEN SFQ!Deactivate(e, q) ELSE e
    <2>1. [s EXCEPT !.packets[q] = Tail(@), !.credits[q] = @ - size] = e
      <3> HIDE DEF q, size
      <3>1. QED
        BY <1>1 DEF StocStates
    <2> DEFINE After(r) ==
                  LET f == [s EXCEPT !.packets[r] = Tail(@),
                                     !.credits[r] = @ - Head(s.packets[r]).size]
                  IN  IF f.packets[r] = <<>> THEN SFQ!Deactivate(f, r) ELSE f
    <2>4. Served(s) = After(q)
      <3>1. Served(s) = After(Head(a))
        BY DEF Served
      <3> HIDE DEF After, q
      <3>2. QED
        BY <1>5, <3>1
    <2>2. Served(s) = IF e.packets[q] = <<>> THEN SFQ!Deactivate(e, q) ELSE e
      BY <2>1, <2>4, Zenon
    <2>3. QED
      BY <1>9, <2>2
  \* The leads against the credits of two queues that still have packets.
  <1>12. \A i, j \in 1 .. n : pt[a[i]] # <<>> /\ pt[a[j]] # <<>> /\ i # j =>
            lt[<<a[i], a[j]>>] + d[a[i]] - d[a[j]]
                = ld[<<a[i], a[j]>>] + c[a[i]] - c[a[j]]
    <2> HIDE DEF pt, d, lt, a, c, size, n, pk
    <2> TAKE i, j \in 1 .. n
    <2>1. HAVE pt[a[i]] # <<>> /\ pt[a[j]] # <<>> /\ i # j
    <2>2. a[i] \in Queues /\ a[j] \in Queues /\ a[i] # a[j]
      BY <1>2, <1>5, <2>1
    <2>3. /\ ld[<<a[i], a[j]>>] \in Int /\ c[a[i]] \in Nat /\ c[a[j]] \in Nat
          /\ size \in Nat
      BY <1>1, <1>6, <2>2, SfqConstants
    <2>4. CASE a[i] = q
      <3>1. /\ lt[<<a[i], a[j]>>] = ld[<<a[i], a[j]>>] + size
            /\ d[a[i]] = c[a[i]] - size /\ d[a[j]] = c[a[j]]
        BY <1>8, <1>10, <2>1, <2>2, <2>4
      <3>2. QED
        BY <2>3, <3>1
    <2>5. CASE a[j] = q
      <3>1. /\ lt[<<a[i], a[j]>>] = ld[<<a[i], a[j]>>] - size
            /\ d[a[j]] = c[a[j]] - size /\ d[a[i]] = c[a[i]]
        BY <1>8, <1>10, <2>1, <2>2, <2>5
      <3>2. QED
        BY <2>3, <3>1
    <2>6. CASE a[i] # q /\ a[j] # q
      BY <1>8, <1>10, <2>1, <2>2, <2>6
    <2>7. QED
      BY <2>4, <2>5, <2>6
  <1>13. \A r \in Queues : d[r] <= c[r] /\ d[r] < Largest + Quantum
    <2> HIDE DEF pt, d, lt, a, c, size, n, pk
    <2> TAKE r \in Queues
    <2>1. c[r] \in Nat /\ c[r] < Largest + Quantum /\ size \in Nat
      BY <1>1, <1>3, <1>6, SfqConstants
    <2>2. d[r] = c[r] \/ d[r] = c[r] - size
      BY <1>8, SMTT(30)
    <2>3. QED
      BY <2>1, <2>2, SfqConstants

  <1>14. CASE pt[q] # <<>>
    <2> HIDE DEF pt, d, lt, a, c, size, n, pk, act, e
    <2>1. \A r \in Queues : pt[r] # <<>> <=> pk[r] # <<>>
      BY <1>6, <1>7, <1>14
    <2>2. Listed(e)
      BY <1>2, <1>9, <2>1 DEF Listed, n
    <2>3. Saved(e)
      <3>1. \A i \in 1 .. n : i # 1 => d[a[i]] >= Quantum
        <4> TAKE i \in 1 .. n
        <4>1. HAVE i # 1
        <4>2. a[i] # q /\ a[i] \in Queues
          BY <1>2, <1>5, <4>1
        <4>3. QED
          BY <1>3, <1>8, <4>1, <4>2
      <3>2. QED
        BY <1>9, <1>13, <3>1 DEF Saved, n
    <2>4. Balanced(e, lt)
      <3>1. ASSUME NEW i \in 1 .. n, NEW j \in 1 .. n
            PROVE  /\ i < j => lt[<<a[i], a[j]>>] + d[a[i]] - d[a[j]] <= Largest
                   /\ j < i => lt[<<a[i], a[j]>>] + d[a[i]] - d[a[j]]
                                   <= Largest + Quantum
        <4>1. pt[a[i]] # <<>> /\ pt[a[j]] # <<>>
          BY <1>2, <1>5, <2>1
        <4>2. i < j \/ j < i => i # j
          BY <1>5
        <4> DEFINE x == lt[<<a[i], a[j]>>] + d[a[i]] - d[a[j]]
                   y == ld[<<a[i], a[j]>>] + c[a[i]] - c[a[j]]
        <4>3. i # j => x = y
          BY <1>12, <4>1
        <4>4. (i < j => y <= Largest) /\ (j < i => y <= Largest + Quantum)
          BY <1>4
        <4> HIDE DEF x, y
        <4>5. (i < j => x <= Largest) /\ (j < i => x <= Largest + Quantum)
          BY <4>2, <4>3, <4>4, Zenon
        <4>6. QED
          BY <4>5 DEF x
      <3>2. QED
        BY <1>9, <1>10, <3>1 DEF Balanced, n
    <2>5. QED
      BY <1>9, <1>10, <1>11, <1>14, <2>2, <2>3, <2>4, Zenon
      DEF Fair, pt, lt, pk, a, q, size
  <1>15. CASE pt[q] = <<>>
    <2> DEFINE b == Tail(a)
               off == [act EXCEPT ![q] = FALSE]
               z == [d EXCEPT ![q] = 0]
               t == SFQ!Deactivate(e, q)
    <2>1. t = [e EXCEPT !.isActive = off, !.activeQ = b, !.credits = z]
      <3>1. t = [e EXCEPT !.isActive[q] = FALSE, !.activeQ = Tail(@),
                          !.credits[q] = 0]
        BY DEF SFQ!Deactivate
      <3> HIDE DEF e, t, d, q, a, act
      <3>2. QED
        BY <1>9, <3>1 DEF StocStates
    <2>2. /\ z \in [Queues -> Nat] /\ z[q] = 0
          /\ \A r \in Queues : r # q => z[r] = d[r]
          /\ off \in [Queues -> BOOLEAN] /\ ~off[q]
          /\ \A r \in Queues : r # q => (off[r] <=> act[r])
      <3> HIDE DEF d, act, q
      <3>1. QED
        BY <1>1, <1>5, <1>8
    <2>3. /\ b \in Seq(Queues) /\ Len(b) = n - 1
          /\ \A i \in 1 .. n - 1 : b[i] = a[i + 1] /\ i + 1 \in 1 .. n
      <3>1. a # <<>> /\ a \in Seq(Queues)
        BY <1>1
      <3> HIDE DEF a
      <3>2. QED
        BY <1>5, <3>1, HeadTailProperties
    <2>4. /\ t.packets = pt /\ t.credits = z /\ t.activeQ = b /\ t.isActive = off
          /\ t \in StocStates
      <3> HIDE DEF e, t, b, z, off, pt
      <3>1. QED
        BY <1>7, <1>9, <2>1, <2>2, <2>3 DEF StocStates
    <2> HIDE DEF pt, d, lt, a, c, size, n, pk, act, e, b, off, z, t, q
    <2>5. \A r \in Queues : pt[r] # <<>> <=> pk[r] # <<>> /\ r # q
      BY <1>7, <1>15
    <2>6. \A i \in 1 .. n - 1 : b[i] \in Queues /\ b[i] # q /\ z[b[i]] = d[b[i]]
      <3> TAKE i \in 1 .. n - 1
      <3>1. i + 1 # 1 /\ i + 1 \in 1 .. n /\ b[i] = a[i + 1]
        BY <1>5, <2>3
      <3>2. a[i + 1] # q
        BY <1>2, <1>5, <3>1 DEF q
      <3>3. QED
        BY <1>5, <2>2, <3>1, <3>2
    <2>7. Listed(t)
      <3>1. \A r \in Queues : off[r] <=> pt[r] # <<>>
        BY <1>2, <2>2, <2>5
      <3>2. ASSUME NEW r \in Queues
            PROVE  pt[r] # <<>> <=> \E i \in 1 .. n - 1 : b[i] = r
        <4>1. ASSUME pt[r] # <<>> PROVE \E i \in 1 .. n - 1 : b[i] = r
          <5>1. r # q /\ \E i \in 1 .. n : a[i] = r
            BY <1>2, <2>5, <4>1
          <5>2. PICK i \in 1 .. n : a[i] = r
            BY <5>1
          <5>3. i # 1
            BY <5>1, <5>2 DEF q
          <5>4. i - 1 \in 1 .. n - 1 /\ (i - 1) + 1 = i
            BY <1>5, <5>3
          <5>5. b[i - 1] = r
            BY <2>3, <5>2, <5>4
          <5>6. QED
            BY <5>4, <5>5
        <4>2. ASSUME NEW i \in 1 .. n - 1, b[i] = r PROVE pt[r] # <<>>
          BY <1>2, <2>3, <2>5, <2>6, <4>2
        <4>3. QED
          BY <4>1, <4>2
      <3>3. \A i, j \in 1 .. n - 1 : b[i] = b[j] => i = j
        <4> TAKE i, j \in 1 .. n - 1
        <4>1. HAVE b[i] = b[j]
        <4>2. i + 1 = j + 1
          BY <1>2, <2>3, <4>1
        <4>3. QED
          BY <1>5, <4>2
      <3>4. QED
        BY <2>3, <2>4, <3>1, <3>2, <3>3 DEF Listed
    <2>8. Saved(t)
      <3>1. ASSUME NEW r \in Queues PROVE z[r] < Largest + Quantum
        BY <1>13, <2>2, SfqConstants
      <3>2. ASSUME NEW i \in 1 .. n - 1 PROVE z[b[i]] >= Quantum
        <4>1. i + 1 # 1 /\ i + 1 \in 1 .. n /\ b[i] = a[i + 1]
          BY <1>5, <2>3
        <4>2. z[b[i]] = c[a[i + 1]]
          BY <1>8, <2>6, <4>1
        <4>3. QED
          BY <1>3, <4>1, <4>2
      <3>3. QED
        BY <2>3, <2>4, <3>1, <3>2 DEF Saved
    <2>9. Balanced(t, lt)
      <3>1. ASSUME NEW i \in 1 .. n - 1, NEW j \in 1 .. n - 1
            PROVE  /\ i < j => lt[<<b[i], b[j]>>] + z[b[i]] - z[b[j]] <= Largest
                   /\ j < i => lt[<<b[i], b[j]>>] + z[b[i]] - z[b[j]]
                                   <= Largest + Quantum
        <4> DEFINE k == i + 1
                   l == j + 1
                   x == lt[<<b[i], b[j]>>] + z[b[i]] - z[b[j]]
                   y == ld[<<a[k], a[l]>>] + c[a[k]] - c[a[l]]
        <4>1. /\ k \in 1 .. n /\ l \in 1 .. n /\ b[i] = a[k] /\ b[j] = a[l]
              /\ z[b[i]] = d[a[k]] /\ z[b[j]] = d[a[l]]
          BY <2>3, <2>6
        <4>2. pt[a[k]] # <<>> /\ pt[a[l]] # <<>>
          <5>1. pk[a[k]] # <<>> /\ pk[a[l]] # <<>> /\ a[k] # q /\ a[l] # q
            BY <1>2, <1>5, <2>6, <4>1
          <5>2. QED
            BY <1>5, <2>5, <4>1, <5>1
        <4>3. (i < j => k < l /\ k # l) /\ (j < i => l < k /\ k # l)
          BY <1>5
        <4>4. k # l => x = y
          <5> HIDE DEF k, l
          <5>1. QED
            BY <1>12, <4>1, <4>2
        <4>5. (k < l => y <= Largest) /\ (l < k => y <= Largest + Quantum)
          <5> HIDE DEF k, l
          <5>1. QED
            BY <1>4, <4>1
        <4> HIDE DEF x, y, k, l
        <4>6. (i < j => x <= Largest) /\ (j < i => x <= Largest + Quantum)
          BY <4>3, <4>4, <4>5
        <4>7. QED
          BY <4>6 DEF x
      <3>2. QED
        BY <1>10, <2>3, <2>4, <3>1 DEF Balanced
    <2>10. Served(s) = t
      BY <1>11, <1>15 DEF t
    <2>11. QED
      BY <1>10, <2>4, <2>7, <2>8, <2>9, <2>10, Zenon
      DEF Fair, pt, lt, pk, a, q, size
  <1>16. QED
    BY <1>14, <1>15

\* A new packet does not change what is being sent, and is another packet.
LEMMA EnqueueKeeps ==
    ASSUME NEW s, NEW ld, Fair(s, ld), NEW q \in Queues, NEW n \in Nat,
           NEW p \in [id : Nat, size : Sizes], p.id = n + 1, Distinct(s, n)
    PROVE  LET t == SFQ!Activate([s EXCEPT !.packets[q] = Append(@, p)], q)
           IN  /\ Distinct(t, n + 1)
               /\ t.packets = [s.packets EXCEPT ![q] = Append(@, p)]
               /\ t.packets[q] # <<>>
               /\ \A x : ~(\A r \in Queues : s.packets[r] = <<>>) /\ Sending(s, x)
                             => Sending(t, x)
  <1> DEFINE Packet == [id : Nat, size : Sizes]
             e == [s EXCEPT !.packets[q] = Append(@, p)]
             t == SFQ!Activate(e, q)
             a == s.activeQ
             c == s.credits
             pk == s.packets
             act == s.isActive
             pt == [pk EXCEPT ![q] = Append(@, p)]
  <1>1. /\ s \in StocStates /\ pk \in [Queues -> Seq(Packet)]
        /\ c \in [Queues -> Nat] /\ a \in Seq(Queues)
        /\ act \in [Queues -> BOOLEAN]
    BY StocFields DEF Fair
  <1>2. e = [s EXCEPT !.packets = pt]
    BY <1>1 DEF StocStates
  <1>3. e.packets = pt /\ e.credits = c /\ e.activeQ = a /\ e.isActive = act
    <2> HIDE DEF e, pt
    <2>1. QED
      BY <1>1, <1>2 DEF StocStates
  <1>4. /\ t.packets = pt
        /\ t.activeQ = a \/ (t.activeQ = Append(a, q) /\ ~act[q])
        /\ t.credits = c \/ (t.credits = [c EXCEPT ![q] = Quantum] /\ ~act[q])
    <2>1. CASE act[q]
      BY <1>3, <2>1 DEF SFQ!Activate
    <2>2. CASE ~act[q]
      <3>1. t = [e EXCEPT !.isActive[q] = TRUE, !.activeQ = Append(@, q),
                          !.credits[q] = Quantum]
        BY <1>3, <2>2 DEF SFQ!Activate
      <3>2. e = [packets |-> pt, credits |-> c, activeQ |-> a, isActive |-> act]
        <4>1. s = [packets |-> pk, credits |-> c, activeQ |-> a, isActive |-> act]
          BY <1>1 DEF StocStates
        <4> HIDE DEF pt, a, c, act, pk, e
        <4>2. QED
          BY <1>2, <4>1
      <3> HIDE DEF e, t, pt, a, c, act
      <3>3. QED
        BY <1>3, <2>2, <3>1, <3>2
    <2>3. QED
      BY <2>1, <2>2
  <1>5. /\ \A r \in Queues : r # q => pt[r] = pk[r]
        /\ Len(pt[q]) = Len(pk[q]) + 1 /\ Len(pk[q]) \in Nat
        /\ \A i \in 1 .. Len(pk[q]) : pt[q][i] = pk[q][i]
        /\ pt[q][Len(pk[q]) + 1] = p
        /\ pt[q] # <<>>
    <2>1. pk[q] \in Seq(Packet)
      BY <1>1
    <2> HIDE DEF pk, Packet
    <2>2. pt[q] = Append(pk[q], p) /\ p \in Packet
      BY <1>1 DEF Packet
    <2>3. \A r \in Queues : r # q => pt[r] = pk[r]
      BY <1>1
    <2> HIDE DEF pt
    <2>4. QED
      BY <2>1, <2>2, <2>3, AppendProperties
  <1>6. ASSUME NEW r \in Queues, NEW i \in 1 .. Len(pt[r])
        PROVE  \/ r = q /\ i = Len(pk[q]) + 1 /\ pt[r][i] = p
               \/ i \in 1 .. Len(pk[r]) /\ pt[r][i] = pk[r][i]
    <2> HIDE DEF pk, pt
    <2>1. CASE r # q
      BY <1>5, <2>1
    <2>2. CASE r = q
      <3>1. i \in 1 .. Len(pk[q]) \/ i = Len(pk[q]) + 1
        BY <1>5, <2>2
      <3>2. QED
        BY <1>5, <2>2, <3>1
    <2>3. QED
      BY <2>1, <2>2
  <1>7. /\ \A r \in Queues : \A i \in 1 .. Len(pk[r]) : pk[r][i].id \in 1 .. n
        /\ \A r1, r2 \in Queues :
              \A i \in 1 .. Len(pk[r1]), j \in 1 .. Len(pk[r2]) :
                  pk[r1][i].id = pk[r2][j].id => r1 = r2 /\ i = j
    BY DEF Distinct
  <1> HIDE DEF e, t, pt, pk, a, c, act
  <1>8. Distinct(t, n + 1)
    <2>1. ASSUME NEW r \in Queues, NEW i \in 1 .. Len(pt[r])
          PROVE  pt[r][i].id \in 1 .. n + 1
      <3>1. CASE pt[r][i] = p
        BY <3>1
      <3>2. CASE i \in 1 .. Len(pk[r]) /\ pt[r][i] = pk[r][i]
        <4>1. pk[r][i].id \in 1 .. n
          BY <1>7, <3>2
        <4>2. QED
          BY <3>2, <4>1
      <3>3. QED
        BY <1>6, <3>1, <3>2
    <2>2. ASSUME NEW r1 \in Queues, NEW r2 \in Queues,
                 NEW i \in 1 .. Len(pt[r1]), NEW j \in 1 .. Len(pt[r2]),
                 pt[r1][i].id = pt[r2][j].id
          PROVE  r1 = r2 /\ i = j
      <3>1. /\ \/ r1 = q /\ i = Len(pk[q]) + 1 /\ pt[r1][i] = p
               \/ i \in 1 .. Len(pk[r1]) /\ pt[r1][i] = pk[r1][i]
            /\ \/ r2 = q /\ j = Len(pk[q]) + 1 /\ pt[r2][j] = p
               \/ j \in 1 .. Len(pk[r2]) /\ pt[r2][j] = pk[r2][j]
        BY <1>6
      <3>2. /\ i \in 1 .. Len(pk[r1]) => pk[r1][i].id \in 1 .. n
            /\ j \in 1 .. Len(pk[r2]) => pk[r2][j].id \in 1 .. n
        BY <1>7
      <3>3. p.id \notin 1 .. n
        OBVIOUS
      <3>4. CASE pt[r1][i] = p /\ pt[r2][j] = p
        <4>1. r1 = q /\ i = Len(pk[q]) + 1 /\ r2 = q /\ j = Len(pk[q]) + 1
          BY <3>1, <3>2, <3>3, <3>4
        <4>2. QED
          BY <4>1
      <3>5. CASE pt[r1][i] # p /\ pt[r2][j] # p
        <4>1. /\ i \in 1 .. Len(pk[r1]) /\ j \in 1 .. Len(pk[r2])
              /\ pk[r1][i].id = pk[r2][j].id
          BY <2>2, <3>1, <3>5
        <4>2. QED
          BY <1>7, <4>1
      <3>6. pt[r1][i] = p <=> pt[r2][j] = p
        BY <2>2, <3>1, <3>2, <3>3
      <3>7. QED
        BY <3>4, <3>5, <3>6
    <2>3. QED
      BY <1>4, <2>1, <2>2 DEF Distinct
  <1>9. ASSUME NEW x, ~(\A r \in Queues : pk[r] = <<>>), Sending(s, x)
        PROVE  Sending(t, x)
    <2>1. /\ x = Head(pk[Head(a)]).id
          /\ c[Head(a)] >= Head(pk[Head(a)]).size
      BY <1>9 DEF Sending, pk, a, c
    <2>2. a # <<>> /\ Head(a) \in Queues /\ pk[Head(a)] # <<>> /\ act[Head(a)]
      <3>1. /\ \A r \in Queues : act[r] <=> pk[r] # <<>>
            /\ \A r \in Queues : pk[r] # <<>> <=> \E i \in 1 .. Len(a) : a[i] = r
        BY DEF Fair, Listed, act, pk, a
      <3>2. a # <<>>
        BY <1>9, <3>1
      <3>3. Head(a) \in Queues /\ 1 \in 1 .. Len(a) /\ Head(a) = a[1]
        BY <1>1, <3>2
      <3>4. QED
        BY <3>1, <3>2, <3>3
    <2>3. Head(t.activeQ) = Head(a)
      BY <1>1, <1>4, <2>2, HeadTailAppend
    <2>4. t.credits[Head(a)] = c[Head(a)]
      BY <1>1, <1>4, <2>2
    <2>5. Head(pt[Head(a)]) = Head(pk[Head(a)])
      <3>1. CASE Head(a) = q
        <4>1. pt[q] = Append(pk[q], p) /\ pk[q] \in Seq(Packet) /\ p \in Packet
          BY <1>1 DEF pt
        <4>2. QED
          BY <2>2, <3>1, <4>1, HeadTailAppend
      <3>2. CASE Head(a) # q
        BY <1>5, <2>2, <3>2
      <3>3. QED
        BY <3>1, <3>2
    <2>6. ~ \A r \in Queues : pt[r] = <<>>
      BY <1>5
    <2>7. QED
      BY <1>4, <2>1, <2>3, <2>4, <2>5, <2>6 DEF Sending
  <1>10. QED
    BY <1>4, <1>5, <1>8, <1>9 DEF t, e, pk, pt

\* A packet that leaves frees its identity and no other.
LEMMA ServedDistinct ==
    ASSUME NEW s, NEW t, NEW n, s \in StocStates, NEW q \in Queues,
           s.packets[q] # <<>>,
           t.packets = [s.packets EXCEPT ![q] = Tail(@)], Distinct(s, n)
    PROVE  Distinct(t, n)
  <1> DEFINE Packet == [id : Nat, size : Sizes]
             pk == s.packets
             pt == t.packets
             At(r, i) == IF r = q THEN i + 1 ELSE i
  <1>1. pk \in [Queues -> Seq(Packet)] /\ pt = [pk EXCEPT ![q] = Tail(@)]
        /\ pk[q] # <<>>
    BY StocFields
  <1>2. /\ \A r \in Queues : \A i \in 1 .. Len(pk[r]) : pk[r][i].id \in 1 .. n
        /\ \A r1, r2 \in Queues :
              \A i \in 1 .. Len(pk[r1]), j \in 1 .. Len(pk[r2]) :
                  pk[r1][i].id = pk[r2][j].id => r1 = r2 /\ i = j
    BY DEF Distinct
  <1> HIDE DEF pk, pt, Packet
  <1>3. /\ \A r \in Queues : Len(pk[r]) \in Nat
        /\ \A r \in Queues : r # q => pt[r] = pk[r]
        /\ Len(pt[q]) = Len(pk[q]) - 1
        /\ \A i \in 1 .. Len(pt[q]) : pt[q][i] = pk[q][i + 1]
    <2>1. pk[q] \in Seq(Packet) /\ pt[q] = Tail(pk[q])
      BY <1>1
    <2>2. /\ Len(pt[q]) = Len(pk[q]) - 1
          /\ \A i \in 1 .. Len(pt[q]) : pt[q][i] = pk[q][i + 1]
      BY <1>1, <2>1, HeadTailProperties
    <2>3. QED
      BY <1>1, <2>2
  <1>4. ASSUME NEW r \in Queues, NEW i \in 1 .. Len(pt[r])
        PROVE  At(r, i) \in 1 .. Len(pk[r]) /\ pt[r][i] = pk[r][At(r, i)]
    BY <1>3
  <1>5. \A r \in Queues : \A i \in 1 .. Len(pt[r]) : pt[r][i].id \in 1 .. n
    <2> HIDE DEF At
    <2>1. QED
      BY <1>2, <1>4
  <1>6. ASSUME NEW r1 \in Queues, NEW r2 \in Queues,
               NEW i \in 1 .. Len(pt[r1]), NEW j \in 1 .. Len(pt[r2]),
               pt[r1][i].id = pt[r2][j].id
        PROVE  r1 = r2 /\ i = j
    <2>1. r1 = r2 /\ At(r1, i) = At(r2, j)
      <3>1. /\ At(r1, i) \in 1 .. Len(pk[r1]) /\ At(r2, j) \in 1 .. Len(pk[r2])
            /\ pk[r1][At(r1, i)].id = pk[r2][At(r2, j)].id
        BY <1>4, <1>6
      <3> HIDE DEF At
      <3>2. QED
        BY <1>2, <3>1
    <2>2. i \in Nat /\ j \in Nat
      BY <1>3
    <2>3. QED
      BY <2>1, <2>2
  <1>7. QED
    BY <1>5, <1>6 DEF Distinct, pt

----------------------------------------------------------------------------
(* StocFairQueue: the invariant holds *)

\* An empty StocFairQueue satisfies the invariant.
LEMMA StocInit == SFQ!Init => StocInv
  <1> SUFFICES ASSUME SFQ!Init PROVE StocInv
    OBVIOUS
  <1>1. /\ packets = [q \in Queues |-> <<>>] /\ credits = [q \in Queues |-> 0]
        /\ activeQ = <<>> /\ isActive = [q \in Queues |-> FALSE]
        /\ pending = 0 /\ arrived = 0
        /\ lead = [qr \in Queues \X Queues |-> 0]
    BY SfqConstants DEF SFQ!Init
  <1>2. SFQ!Fifos \in StocStates
    BY <1>1 DEF SFQ!Fifos, StocStates
  <1>3. lead \in [Queues \X Queues -> Int]
    BY <1>1
  <1>4. Listed(SFQ!Fifos)
    BY <1>1 DEF SFQ!Fifos, Listed
  <1>5. Saved(SFQ!Fifos)
    BY <1>1, SfqConstants DEF SFQ!Fifos, Saved
  <1>6. Balanced(SFQ!Fifos, lead)
    BY <1>1 DEF SFQ!Fifos, Balanced
  <1>7. Distinct(SFQ!Fifos, arrived) /\ Sending(SFQ!Fifos, pending)
    BY <1>1 DEF SFQ!Fifos, Distinct, Sending
  <1>8. QED
    BY <1>1, <1>2, <1>3, <1>4, <1>5, <1>6, <1>7 DEF StocInv, Fair

\* What becomes of a packet that arrives: it is lost, or waits behind the others
\* of its queue.
StocTakes ==
    \/ packets' = packets /\ pending' = pending /\ lost' = lost \cup {arrived + 1}
    \/ /\ \E q \in Queues, p \in [id : Nat, size : Sizes] :
              p.id = arrived + 1 /\ packets' = [packets EXCEPT ![q] = Append(@, p)]
       /\ lost' = lost
       /\ ~(\A q \in Queues : packets[q] = <<>>) => pending' = pending

\* receivePacket, with the drop or the service it may begin, preserves the
\* invariant.
LEMMA StocArrives == StocInv /\ SFQ!ReceivePacket => StocInv' /\ StocTakes
  <1> SUFFICES ASSUME StocInv, SFQ!ReceivePacket PROVE StocInv' /\ StocTakes
    OBVIOUS
  <1>1. /\ arrived \in Nat /\ arrived' = arrived + 1 /\ lead' = lead
        /\ Fair(SFQ!Fifos, lead) /\ Distinct(SFQ!Fifos, arrived)
        /\ Sending(SFQ!Fifos, pending)
        /\ SFQ!Fifos.packets = packets
    BY DEF StocInv, SFQ!ReceivePacket, SFQ!Fifos
  <1>2. PICK q \in Queues, size \in Sizes :
           IF queuesize + size > MaxSize
           THEN lost' = lost \cup {arrived'} /\ UNCHANGED <<SFQ!fifos, pending>>
           ELSE LET p == [id |-> arrived', size |-> size]
                    s == SFQ!Activate(
                             [SFQ!Fifos EXCEPT !.packets[q] = SFQ!Enqueue(@, p)], q)
                IN  /\ queuesize' = queuesize + size
                    /\ IF \A r \in Queues : packets[r] = <<>>
                       THEN SFQ!BeginService(s)
                       ELSE SFQ!Become(s) /\ UNCHANGED pending
                    /\ UNCHANGED lost
    BY SfqConstants DEF SFQ!ReceivePacket
  <1>3. CASE queuesize + size > MaxSize
    <2>1. SFQ!Fifos' = SFQ!Fifos /\ pending' = pending
      BY <1>2, <1>3 DEF SFQ!fifos, SFQ!Fifos
    <2>2. Distinct(SFQ!Fifos, arrived')
      <3>1. \A x : x \in 1 .. arrived => x \in 1 .. arrived'
        BY <1>1
      <3>2. QED
        BY <1>1, <3>1 DEF Distinct
    <2>3. StocTakes
      BY <1>1, <1>2, <1>3 DEF SFQ!fifos, StocTakes
    <2>4. QED
      BY <1>1, <2>1, <2>2, <2>3 DEF StocInv
  <1>4. CASE ~(queuesize + size > MaxSize)
    <2> DEFINE p == [id |-> arrived', size |-> size]
               s == SFQ!Activate([SFQ!Fifos EXCEPT !.packets[q] = Append(@, p)], q)
    <2>1. /\ lost' = lost
          /\ IF \A r \in Queues : packets[r] = <<>>
             THEN SFQ!BeginService(s)
             ELSE SFQ!Become(s) /\ UNCHANGED pending
      BY <1>2, <1>4 DEF SFQ!Enqueue
    <2>2. p \in [id : Nat, size : Sizes] /\ p.id = arrived + 1
      BY <1>1
    <2> HIDE DEF p
    <2>3. /\ Fair(s, lead)
          /\ Distinct(s, arrived + 1)
          /\ s.packets = [packets EXCEPT ![q] = Append(@, p)]
          /\ ~(\A r \in Queues : SFQ!Fifos.packets[r] = <<>>)
                => Sending(s, pending)
      <3>1. PICK z : z = SFQ!Fifos /\ z.packets = packets
        BY <1>1
      <3>2. Fair(z, lead) /\ Distinct(z, arrived) /\ Sending(z, pending)
        BY <1>1, <3>1
      <3>3. PICK u : u = SFQ!Activate([z EXCEPT !.packets[q] = Append(@, p)], q)
        OBVIOUS
      <3>4. Fair(u, lead)
        BY <2>2, <3>2, <3>3, EnqueueFair
      <3>5. /\ Distinct(u, arrived + 1)
            /\ u.packets = [z.packets EXCEPT ![q] = Append(@, p)]
            /\ ~(\A r \in Queues : z.packets[r] = <<>>) => Sending(u, pending)
        <4>1. PICK n \in Nat : n = arrived
          BY <1>1
        <4>2. LET t == SFQ!Activate([z EXCEPT !.packets[q] = Append(@, p)], q)
              IN  /\ Distinct(t, n + 1)
                  /\ t.packets = [z.packets EXCEPT ![q] = Append(@, p)]
                  /\ t.packets[q] # <<>>
                  /\ \A x : ~(\A r \in Queues : z.packets[r] = <<>>) /\ Sending(z, x)
                                => Sending(t, x)
          BY <2>2, <3>2, <4>1, EnqueueKeeps
        <4>3. QED
          BY <3>2, <3>3, <4>1, <4>2, Zenon
      <3>6. QED
        BY <3>1, <3>3, <3>4, <3>5
    <2> HIDE DEF s
    <2>4. CASE \A r \in Queues : packets[r] = <<>>
      <3>1. SFQ!BeginService(s)
        BY <2>1, <2>4
      <3>2. /\ Fair(SFQ!Fifos', lead) /\ Distinct(SFQ!Fifos', arrived + 1)
            /\ Sending(SFQ!Fifos', pending') /\ packets' = s.packets
        BY <2>3, <3>1, StocBegins
      <3>3. StocTakes
        BY <2>1, <2>2, <2>3, <2>4, <3>2 DEF StocTakes
      <3>4. QED
        BY <1>1, <3>2, <3>3 DEF StocInv
    <2>5. CASE ~ \A r \in Queues : packets[r] = <<>>
      <3>1. SFQ!Become(s) /\ pending' = pending /\ s \in StocStates
        BY <2>1, <2>3, <2>5 DEF Fair
      <3>2. SFQ!Fifos' = s
        <4>1. SFQ!Fifos' = [packets |-> s.packets, credits |-> s.credits,
                            activeQ |-> s.activeQ, isActive |-> s.isActive]
          BY <3>1 DEF SFQ!Become, SFQ!Fifos
        <4>2. QED
          BY <3>1, <4>1 DEF StocStates
      <3>3. StocTakes
        <4>1. packets' = s.packets
          BY <3>1 DEF SFQ!Become
        <4>2. QED
          BY <2>1, <2>2, <2>3, <2>5, <4>1 DEF StocTakes
      <3>4. QED
        BY <1>1, <2>3, <2>5, <3>1, <3>2, <3>3 DEF StocInv
    <2>6. QED
      BY <2>4, <2>5
  <1>5. QED
    BY <1>3, <1>4

\* The packet that leaves is the oldest of the front queue.
StocGives ==
    LET q == Head(activeQ) IN
    /\ q \in Queues /\ packets[q] # <<>> /\ pending = Head(packets[q]).id
    /\ packets' = [packets EXCEPT ![q] = Tail(@)]

\* completeService, with the turns of the next beginService, preserves the
\* invariant.
LEMMA StocServes == StocInv /\ SFQ!CompleteService => StocInv' /\ StocGives
  <1> SUFFICES ASSUME StocInv, SFQ!CompleteService PROVE StocInv' /\ StocGives
    OBVIOUS
  <1> DEFINE s == SFQ!Fifos
             q == Head(activeQ)
             pt == [packets EXCEPT ![q] = Tail(@)]
  <1>1. /\ arrived \in Nat /\ arrived' = arrived /\ pending # 0
        /\ Fair(s, lead) /\ Distinct(s, arrived) /\ Sending(s, pending)
        /\ s.packets = packets /\ s.activeQ = activeQ /\ s.credits = credits
        /\ s \in StocStates
    BY DEF StocInv, SFQ!CompleteService, SFQ!Fifos, Fair
  <1>2. /\ activeQ # <<>> /\ q = activeQ[1] /\ q \in Queues /\ packets[q] # <<>>
        /\ credits[q] >= Head(packets[q]).size
    <2>1. ~ \A r \in Queues : packets[r] = <<>>
      BY <1>1 DEF Sending
    <2>2. activeQ # <<>>
      BY <1>1, <2>1 DEF Fair, Listed
    <2>3. activeQ \in Seq(Queues)
      BY <1>1, StocFields
    <2>4. q = activeQ[1] /\ q \in Queues /\ 1 \in 1 .. Len(activeQ)
      BY <2>2, <2>3
    <2>5. packets[q] # <<>>
      BY <1>1, <2>4 DEF Fair, Listed
    <2>6. credits[q] >= Head(packets[q]).size
      BY <1>1, <2>1 DEF Sending
    <2>7. QED
      BY <2>2, <2>4, <2>5, <2>6
  <1>3. Served(s) = LET e == [s EXCEPT !.packets[q] = Tail(@),
                                       !.credits[q] = @ - Head(packets[q]).size]
                    IN  IF e.packets[q] = <<>> THEN SFQ!Deactivate(e, q) ELSE e
    BY <1>1 DEF Served
  <1>4. [s EXCEPT !.packets[q] = Tail(@),
                  !.credits[q] = @ - Head(packets[q]).size].packets = pt
    BY <1>1, SMTT(30) DEF StocStates
  <1>5. /\ SFQ!BeginService(Served(s))
        /\ lead' = LeadAfter(lead, pt, q, Head(packets[q]).size)
    BY <1>3, <1>4, SfqConstants DEF SFQ!CompleteService, LeadAfter
  <1>6. Fair(Served(s), lead') /\ Served(s).packets = pt
    BY <1>1, <1>2, <1>5, ServedFair
  <1>7. Distinct(Served(s), arrived)
    <2> HIDE DEF s, q
    <2>1. s.packets[q] # <<>> /\ Served(s).packets = [s.packets EXCEPT ![q] = Tail(@)]
      BY <1>1, <1>2, <1>6
    <2>2. QED
      BY <1>1, <1>2, <2>1, ServedDistinct
  <1>8. /\ Fair(SFQ!Fifos', lead') /\ Distinct(SFQ!Fifos', arrived)
        /\ Sending(SFQ!Fifos', pending') /\ packets' = pt
    BY <1>5, <1>6, <1>7, StocBegins
  <1>9. StocGives
    <2>1. pending = Head(packets[q]).id
      BY <1>1, <1>2 DEF Sending
    <2>2. QED
      BY <1>2, <1>8, <2>1 DEF StocGives
  <1>10. QED
    BY <1>1, <1>8, <1>9 DEF StocInv

\* The inductive invariant of a StocFairQueue.
THEOREM StocFairQueueIsFair == Spec => [](discipline = "sfq" => StocInv)
  <1> DEFINE Inv == discipline = "sfq" => StocInv
  <1>1. Init => Inv
    BY StocInit DEF Init
  <1>2. Inv /\ [Next]_vars => Inv'
    <2> SUFFICES ASSUME Inv, [Next]_vars, discipline' = "sfq" PROVE StocInv'
      OBVIOUS
    <2>1. CASE StocStep
      <3>1. StocInv /\ SFQ!Next
        BY <2>1 DEF StocStep
      <3>2. QED
        BY <3>1, StocArrives, StocServes DEF SFQ!Next
    <2>2. CASE PriorityStep \/ FairStep \/ AprxStep
      BY <2>2 DEF PriorityStep, FairStep, AprxStep
    <2>3. CASE UNCHANGED vars
      <3>1. /\ discipline' = discipline /\ arrived' = arrived /\ lead' = lead
            /\ packets' = packets /\ credits' = credits /\ activeQ' = activeQ
            /\ isActive' = isActive /\ pending' = pending
        BY <2>3 DEF vars, sfqOnly
      <3>2. SFQ!Fifos' = SFQ!Fifos
        BY <3>1 DEF SFQ!Fifos
      <3>3. StocInv
        BY <3>1
      <3>4. QED
        BY <3>1, <3>2, <3>3 DEF StocInv
    <2>4. QED
      BY <2>1, <2>2, <2>3 DEF Next
  <1>3. QED
    BY <1>1, <1>2, PTL DEF Spec

\* What the invariant says in terms of the variables.
LEMMA StocFacts ==
    ASSUME StocInv
    PROVE  /\ packets \in [Queues -> Seq([id : Nat, size : Sizes])]
           /\ credits \in [Queues -> Nat] /\ activeQ \in Seq(Queues)
           /\ isActive \in [Queues -> BOOLEAN]
           /\ \A q \in Queues : isActive[q] <=> packets[q] # <<>>
           /\ \A q \in Queues :
                 packets[q] # <<>> <=> \E i \in 1 .. Len(activeQ) : activeQ[i] = q
           /\ \A i, j \in 1 .. Len(activeQ) : activeQ[i] = activeQ[j] => i = j
           /\ \A q \in Queues : credits[q] < Largest + Quantum
           /\ \A i \in 1 .. Len(activeQ) : i # 1 => credits[activeQ[i]] >= Quantum
  <1> DEFINE s == SFQ!Fifos
  <1>1. /\ s.packets = packets /\ s.credits = credits /\ s.activeQ = activeQ
        /\ s.isActive = isActive
    BY DEF SFQ!Fifos
  <1>2. s \in StocStates /\ Listed(s) /\ Saved(s)
    BY DEF StocInv, Fair
  <1> HIDE DEF s
  <1>3. /\ packets \in [Queues -> Seq([id : Nat, size : Sizes])]
        /\ credits \in [Queues -> Nat] /\ activeQ \in Seq(Queues)
        /\ isActive \in [Queues -> BOOLEAN]
    BY <1>1, <1>2, StocFields
  <1>4. QED
    BY <1>1, <1>2, <1>3 DEF Listed, Saved

\* In a state of the invariant the active list holds each queue with packets
\* once, and no other.
LEMMA StocActiveList == StocInv => SFQ!ActiveListExact
  <1> SUFFICES ASSUME StocInv PROVE SFQ!ActiveListExact
    OBVIOUS
  <1>1. {activeQ[i] : i \in 1 .. Len(activeQ)} = {q \in Queues : packets[q] # <<>>}
    <2>1. \A i \in 1 .. Len(activeQ) : activeQ[i] \in Queues
      BY StocFacts
    <2>2. \A q \in Queues :
             packets[q] # <<>> <=> \E i \in 1 .. Len(activeQ) : activeQ[i] = q
      BY StocFacts
    <2>3. QED
      BY <2>1, <2>2
  <1>2. SFQ!Range(activeQ) = {activeQ[i] : i \in DOMAIN activeQ}
        /\ DOMAIN activeQ = 1 .. Len(activeQ)
    BY StocFacts DEF SFQ!Range
  <1>3. QED
    BY <1>1, <1>2, StocFacts, SfqConstants DEF SFQ!ActiveListExact

\* The list of active queues is exact.
THEOREM ActiveListIsExact == Spec => []ActiveListExact
  <1>1. (discipline = "sfq" => StocInv) => ActiveListExact
    BY StocActiveList DEF ActiveListExact
  <1>2. QED
    BY <1>1, StocFairQueueIsFair, PTL

\* In a state of the invariant the credit of a queue covers the packet it is
\* sending.
LEMMA StocCredit == StocInv => SFQ!CreditCoversPacket
  <1> SUFFICES ASSUME StocInv PROVE SFQ!CreditCoversPacket
    OBVIOUS
  <1>1. pending # 0 => credits[Head(activeQ)] >= Head(packets[Head(activeQ)]).size
    BY DEF StocInv, Sending, SFQ!Fifos
  <1>2. \A q \in Queues : credits[q] \in 0 .. Largest + Quantum - 1
    <2>1. \A q \in Queues : credits[q] \in Nat /\ credits[q] < Largest + Quantum
      BY StocFacts
    <2>2. Largest \in Nat /\ Quantum \in Nat
      BY SfqConstants
    <2>3. QED
      BY <2>1, <2>2
  <1>3. QED
    BY <1>1, <1>2, SfqConstants DEF SFQ!CreditCoversPacket, Largest

\* The credit of the queue being served never wraps around, and is bounded.
THEOREM CreditSuffices == Spec => []CreditCoversPacket
  <1>1. (discipline = "sfq" => StocInv) => CreditCoversPacket
    BY StocCredit DEF CreditCoversPacket
  <1>2. QED
    BY <1>1, StocFairQueueIsFair, PTL

\* The list, the credits and the differences together bound how far one queue
\* gets ahead of another.
LEMMA StocShare == StocInv => SFQ!FairShare
  <1> SUFFICES ASSUME StocInv, NEW q \in Queues, NEW r \in Queues
               PROVE  lead[<<q, r>>] <= Quantum + 2 * Largest
    BY SfqConstants DEF SFQ!FairShare, Largest
  <1> DEFINE s == SFQ!Fifos
  <1>1. /\ s.packets = packets /\ s.credits = credits /\ s.activeQ = activeQ
    BY DEF SFQ!Fifos
  <1>2. Balanced(s, lead) /\ lead \in [Queues \X Queues -> Int]
    BY DEF StocInv, Fair
  <1> HIDE DEF s
  <1>3. CASE packets[q] = <<>> \/ packets[r] = <<>> \/ q = r
    <2>1. lead[<<q, r>>] = 0
      BY <1>1, <1>2, <1>3 DEF Balanced
    <2>2. Largest \in Nat /\ Quantum \in Nat
      BY SfqConstants
    <2>3. QED
      BY <2>1, <2>2
  <1>4. CASE packets[q] # <<>> /\ packets[r] # <<>> /\ q # r
    <2>1. PICK i \in 1 .. Len(activeQ) : activeQ[i] = q
      BY <1>4, StocFacts
    <2>2. PICK j \in 1 .. Len(activeQ) : activeQ[j] = r
      BY <1>4, StocFacts
    <2> DEFINE l == lead[<<q, r>>]
               c == credits[q]
               d == credits[r]
    <2>3. /\ i < j => l + c - d <= Largest
          /\ j < i => l + c - d <= Largest + Quantum
      BY <1>1, <1>2, <2>1, <2>2 DEF Balanced
    <2>4. l \in Int /\ c \in Nat /\ d \in Nat /\ d < Largest + Quantum
      BY <1>2, StocFacts
    <2>5. j < i => c >= Quantum
      <3>1. i # 1 => credits[activeQ[i]] >= Quantum
        BY StocFacts
      <3>2. QED
        BY <2>1, <3>1, StocFacts
    <2>6. i < j \/ j < i
      <3>1. i # j
        BY <1>4, <2>1, <2>2
      <3>2. i \in Int /\ j \in Int
        <4>1. \A m, n \in Int : \A k \in m .. n : k \in Int
          OBVIOUS
        <4>2. Len(activeQ) \in Int
          BY StocFacts
        <4>3. QED
          BY <4>1, <4>2
      <3>3. QED
        BY <3>1, <3>2
    <2> HIDE DEF l, c, d
    <2>7. l <= Quantum + 2 * Largest
      BY <2>3, <2>4, <2>5, <2>6, SfqConstants
    <2>8. QED
      BY <2>7 DEF l
  <1>5. QED
    BY <1>3, <1>4

----------------------------------------------------------------------------
(* AprxFairQueue: the calendar *)

Fifos == 0 .. AfqQueues - 1
Rows == 1 .. NHash
AfqPacket == [id : Nat, flow : AfqFlows, size : Sizes]
AfqLargest == AFQ!MaxPacket

\* The FIFO k rounds after the current one.
Ahead(pk, cq, k) == pk[(cq + k) % AfqQueues]

\* What a round gives a flow: what is sent, and what waits to be.
Share(pk, cq, rb, f, k) ==
    FlowBytes(Ahead(pk, cq, k), f) + (IF k = 0 THEN rb[f] ELSE 0)

Charge(sk, f, i) == sk[i][Hash[i][f]]

CalendarTypes(pk, sk, cq, nr, rb) ==
    /\ pk \in [Fifos -> Seq(AfqPacket)]
    /\ sk \in [Rows -> [AFQ!Buckets -> Nat]]
    /\ cq \in Fifos /\ nr \in Nat /\ rb \in [AfqFlows -> Nat]

\* Every bucket of a flow is charged with the rounds that have passed and with
\* what the flow gets of its latest round.
Covered(pk, sk, cq, nr, rb) ==
    \A f \in AfqFlows, k \in Fifos : Share(pk, cq, rb, f, k) > 0 =>
        \A i \in Rows :
            Charge(sk, f, i) >= (nr + k) * BytesPerRound + Share(pk, cq, rb, f, k)

\* No round gives a flow its bytes and a packet more.
Bounded(pk, cq, rb) ==
    \A f \in AfqFlows, k \in Fifos :
        Share(pk, cq, rb, f, k) < BytesPerRound + AfqLargest

\* The packets of a flow are in the order in which they came.
InOrder(pk, cq) ==
    \A k, l \in Fifos :
        \A i \in 1 .. Len(Ahead(pk, cq, k)), j \in 1 .. Len(Ahead(pk, cq, l)) :
            /\ Ahead(pk, cq, k)[i].flow = Ahead(pk, cq, l)[j].flow
            /\ k < l \/ (k = l /\ i < j)
            => Ahead(pk, cq, k)[i].id < Ahead(pk, cq, l)[j].id

Calendar(pk, sk, cq, nr, rb) ==
    /\ CalendarTypes(pk, sk, cq, nr, rb) /\ Covered(pk, sk, cq, nr, rb)
    /\ Bounded(pk, cq, rb) /\ InOrder(pk, cq)

\* Identities are numbers of arrivals.
Numbered(pk, n) ==
    \A q \in Fifos : \A i \in 1 .. Len(pk[q]) : pk[q][i].id \in 1 .. n

\* The packet being sent is the oldest of the current FIFO.
SendsOldest(pk, cq, p) ==
    IF \A q \in Fifos : pk[q] = <<>> THEN p = 0
    ELSE pk[cq] # <<>> /\ p = Head(pk[cq]).id

AprxInv ==
    /\ arrived \in Nat
    /\ Calendar(packets, sketch, currQ, nRounds, roundBytes)
    /\ Numbered(packets, arrived)
    /\ SendsOldest(packets, currQ, pending)

\* There are queues, rows and buckets, every flow has a bucket in each row, and
\* sizes are positive.
LEMMA AfqConstants ==
    /\ AfqQueues \in Nat \ {0} /\ NHash \in Nat \ {0} /\ BytesPerRound \in Nat \ {0}
    /\ NBucket \in Nat \ {0}
    /\ Hash \in [Rows -> [AfqFlows -> AFQ!Buckets]]
    /\ AFQ!Fifos = Fifos /\ AFQ!Rows = Rows
    /\ Sizes \subseteq Nat \ {0}
    /\ AfqLargest \in Sizes /\ \A size \in Sizes : size <= AfqLargest
  BY SchedulerAssumption DEF AFQ!AprxAssumption, AFQ!MaxPacket, AfqLargest,
     AFQ!Fifos, Fifos, AFQ!Rows, Rows

----------------------------------------------------------------------------
(* Places around the calendar *)

\* The remainder of a number below twice the modulus.
LEMMA Around ==
    \A w \in Nat \ {0} : \A x \in 0 .. 2 * w - 1 :
        x % w = IF x < w THEN x ELSE x - w
  <1> SUFFICES ASSUME NEW w \in Nat \ {0}, NEW x \in 0 .. 2 * w - 1
               PROVE  x % w = IF x < w THEN x ELSE x - w
    OBVIOUS
  <1>1. CASE x < w
    <2>1. x \in Int /\ 0 \in Int /\ x \in 0 .. w - 1 /\ x = w * 0 + x
      BY <1>1
    <2>2. x % w = x
      BY <2>1, Uniq
    <2>3. QED
      BY <1>1, <2>2
  <1>2. CASE ~(x < w)
    <2>1. x \in Int /\ 1 \in Int /\ x - w \in 0 .. w - 1 /\ x = w * 1 + (x - w)
      BY <1>2
    <2>2. x % w = x - w
      BY <2>1, Uniq
    <2>3. QED
      BY <1>2, <2>2
  <1>3. QED
    BY <1>1, <1>2

\* Each place is a different one, and all places are reached.
LEMMA PlacesDiffer ==
    \A w \in Nat \ {0} : \A c, j, k \in 0 .. w - 1 :
        (c + j) % w \in 0 .. w - 1 /\ ((c + j) % w = (c + k) % w => j = k)
  <1> SUFFICES ASSUME NEW w \in Nat \ {0}, NEW c \in 0 .. w - 1,
                      NEW j \in 0 .. w - 1, NEW k \in 0 .. w - 1
               PROVE  (c + j) % w \in 0 .. w - 1
                      /\ ((c + j) % w = (c + k) % w => j = k)
    OBVIOUS
  <1>1. PICK a, b \in 0 .. 2 * w - 1 : a = c + j /\ b = c + k
    OBVIOUS
  <1>2. /\ a % w = IF a < w THEN a ELSE a - w
        /\ b % w = IF b < w THEN b ELSE b - w
    BY Around
  <1> DEFINE x == a % w
             y == b % w
  <1> HIDE DEF x, y
  <1>3. x \in 0 .. w - 1 /\ (x = y => j = k)
    BY <1>1, <1>2 DEF x, y
  <1>4. QED
    BY <1>1, <1>3 DEF x, y

\* Every queue of the calendar is some number of steps ahead of the current
\* one.
LEMMA PlacesReached ==
    \A w \in Nat \ {0} : \A c, q \in 0 .. w - 1 :
        \E k \in 0 .. w - 1 : (c + k) % w = q
  <1> SUFFICES ASSUME NEW w \in Nat \ {0}, NEW c \in 0 .. w - 1, NEW q \in 0 .. w - 1
               PROVE  \E k \in 0 .. w - 1 : (c + k) % w = q
    OBVIOUS
  <1>1. PICK k \in 0 .. w - 1 : k = IF q >= c THEN q - c ELSE q - c + w
    OBVIOUS
  <1>2. PICK a \in 0 .. 2 * w - 1 : a = c + k
    OBVIOUS
  <1>3. a % w = IF a < w THEN a ELSE a - w
    BY Around
  <1>4. a % w = q
    BY <1>1, <1>2, <1>3
  <1>5. QED
    BY <1>2, <1>4

\* The places seen from the one k further on.
LEMMA PlacesFrom ==
    \A w \in Nat \ {0} : \A c, k, j \in 0 .. w - 1 :
        /\ k + j < w => (((c + k) % w) + j) % w = (c + (k + j)) % w
        /\ k + j >= w => (((c + k) % w) + j) % w = (c + (k + j - w)) % w
  <1> SUFFICES ASSUME NEW w \in Nat \ {0}, NEW c \in 0 .. w - 1,
                      NEW k \in 0 .. w - 1, NEW j \in 0 .. w - 1
               PROVE  /\ k + j < w => (((c + k) % w) + j) % w = (c + (k + j)) % w
                      /\ k + j >= w => (((c + k) % w) + j) % w = (c + (k + j - w)) % w
    OBVIOUS
  <1>1. (((c + k) % w) + j) % w = ((c + k) + j) % w
    <2>1. c + k \in Int /\ j \in Int
      OBVIOUS
    <2>2. QED
      BY <2>1, ModSub, Zenon
  <1>2. (c + k) + j = c + (k + j)
    OBVIOUS
  <1>3. (c + (k + j - w)) % w = (c + (k + j)) % w
    <2>1. c + (k + j - w) = (c + (k + j)) - w * 1
      OBVIOUS
    <2>2. c + (k + j - w) \in Int /\ c + (k + j) \in Int /\ 1 \in Int
      OBVIOUS
    <2>3. QED
      BY <2>1, <2>2, AddMultiple, Zenon
  <1>4. QED
    BY <1>1, <1>2, <1>3

----------------------------------------------------------------------------
(* Bytes of a flow, and the least of its buckets *)

\* A flow's bytes are a sum of weights of the packets.
LEMMA FlowBytesOver ==
    ASSUME NEW f
    PROVE  \E w \in [AfqPacket -> Nat] :
              /\ \A p \in AfqPacket : w[p] = IF p.flow = f THEN p.size ELSE 0
              /\ \A q \in Seq(AfqPacket) : FlowBytes(q, f) = Over(q, w)
  <1> DEFINE w == [p \in AfqPacket |-> IF p.flow = f THEN p.size ELSE 0]
  <1>1. w \in [AfqPacket -> Nat]
    BY AfqConstants DEF AfqPacket
  <1>2. \A p \in AfqPacket : w[p] = IF p.flow = f THEN p.size ELSE 0
    OBVIOUS
  <1>3. ASSUME NEW q \in Seq(AfqPacket) PROVE FlowBytes(q, f) = Over(q, w)
    <2> HIDE DEF w
    <2>1. \A i \in 1 .. Len(q) : q[i] \in AfqPacket
      OBVIOUS
    <2>2. [i \in 1 .. Len(q) |-> IF q[i].flow = f THEN q[i].size ELSE 0]
          = [i \in 1 .. Len(q) |-> w[q[i]]]
      BY <1>2, <2>1
    <2>3. QED
      BY <2>2 DEF FlowBytes, Over
  <1>4. QED
    BY <1>1, <1>2, <1>3

\* A flow's bytes are a natural, and how they change when a packet joins a
\* queue or leaves it.
LEMMA FlowBytesIs ==
    ASSUME NEW f, NEW q \in Seq(AfqPacket)
    PROVE  /\ FlowBytes(q, f) \in Nat
           /\ q = <<>> => FlowBytes(q, f) = 0
           /\ \A p \in AfqPacket : FlowBytes(Append(q, p), f) =
                  FlowBytes(q, f) + (IF p.flow = f THEN p.size ELSE 0)
           /\ q # <<>> => FlowBytes(q, f) =
                  (IF Head(q).flow = f THEN Head(q).size ELSE 0)
                      + FlowBytes(Tail(q), f)
           /\ q # <<>> => FlowBytes(Tail(q), f) \in Nat
           /\ \A i \in 1 .. Len(q) : q[i].flow = f => FlowBytes(q, f) > 0
  <1>1. PICK w \in [AfqPacket -> Nat] :
              /\ \A p \in AfqPacket : w[p] = IF p.flow = f THEN p.size ELSE 0
              /\ \A r \in Seq(AfqPacket) : FlowBytes(r, f) = Over(r, w)
    BY FlowBytesOver
  <1>2. FlowBytes(q, f) \in Nat
    BY <1>1, OverType
  <1>3. q = <<>> => FlowBytes(q, f) = 0
    BY <1>1, OverEmpty
  <1>4. \A p \in AfqPacket : FlowBytes(Append(q, p), f) =
                  FlowBytes(q, f) + (IF p.flow = f THEN p.size ELSE 0)
    <2> TAKE p \in AfqPacket
    <2>1. Append(q, p) \in Seq(AfqPacket)
      BY AppendProperties
    <2>2. Over(Append(q, p), w) = Over(q, w) + w[p]
      BY OverAppend
    <2>3. QED
      BY <1>1, <2>1, <2>2
  <1>5. ASSUME q # <<>>
        PROVE  /\ FlowBytes(q, f) = (IF Head(q).flow = f THEN Head(q).size ELSE 0)
                                        + FlowBytes(Tail(q), f)
               /\ FlowBytes(Tail(q), f) \in Nat
    <2>1. Tail(q) \in Seq(AfqPacket) /\ Head(q) \in AfqPacket
      BY <1>5, HeadTailProperties
    <2>2. Over(q, w) = w[Head(q)] + Over(Tail(q), w) /\ Over(Tail(q), w) \in Nat
      BY <1>5, OverTail
    <2>3. QED
      BY <1>1, <2>1, <2>2
  <1>6. ASSUME NEW i \in 1 .. Len(q), q[i].flow = f PROVE FlowBytes(q, f) > 0
    <2>1. q[i] \in AfqPacket
      OBVIOUS
    <2>2. w[q[i]] <= Over(q, w) /\ w[q[i]] \in Nat
      BY OverHas
    <2>3. w[q[i]] = q[i].size /\ q[i].size \in Nat \ {0}
      BY <1>1, <1>6, <2>1, AfqConstants DEF AfqPacket
    <2>4. QED
      BY <1>1, <1>2, <2>2, <2>3
  <1>7. QED
    BY <1>2, <1>3, <1>4, <1>5, <1>6

\* The least of a flow's buckets, and the round it is in.
LEMMA FlowRoundIs ==
    ASSUME sketch \in [Rows -> [AFQ!Buckets -> Nat]], NEW f \in AfqFlows
    PROVE  /\ AFQ!Bytes(f) \in Nat
           /\ \A i \in Rows : Charge(sketch, f, i) \in Nat
           /\ \A i \in Rows : AFQ!Bytes(f) <= Charge(sketch, f, i)
           /\ \E i \in Rows : AFQ!Bytes(f) = Charge(sketch, f, i)
           /\ AFQ!FlowRound(f) \in Nat
           /\ AFQ!FlowRound(f) * BytesPerRound <= AFQ!Bytes(f)
           /\ AFQ!Bytes(f) < (AFQ!FlowRound(f) + 1) * BytesPerRound
  <1> DEFINE S == {sketch[i][Hash[i][f]] : i \in Rows}
             b == AFQ!Bytes(f)
             r == AFQ!FlowRound(f)
  <1>1. ASSUME NEW i \in Rows PROVE Charge(sketch, f, i) \in Nat
    <2>1. Hash[i][f] \in AFQ!Buckets
      BY AfqConstants
    <2>2. QED
      BY <2>1 DEF Charge
  <1>2. S \in SUBSET Nat /\ S # {}
    <2>1. 1 \in Rows
      BY AfqConstants DEF Rows
    <2>2. QED
      BY <1>1, <2>1 DEF Charge
  <1>3. \E x \in S : \A y \in S : x <= y
    <2> HIDE DEF S
    <2>1. QED
      BY <1>2, Least
  <1>4. \E x \in S : \A i \in Rows : x <= sketch[i][Hash[i][f]]
    BY <1>3
  <1>5. b = CHOOSE x \in S : \A i \in Rows : x <= sketch[i][Hash[i][f]]
    BY AfqConstants DEF AFQ!Bytes
  <1>6. b \in S /\ \A i \in Rows : b <= sketch[i][Hash[i][f]]
    <2> HIDE DEF S, b
    <2>1. QED
      BY <1>4, <1>5
  <1>7. b \in Nat
    <2> HIDE DEF S, b
    <2>1. QED
      BY <1>2, <1>6
  <1>8. r \in Nat /\ r * BytesPerRound <= b /\ b < (r + 1) * BytesPerRound
    <2>1. r = b \div BytesPerRound
      BY DEF AFQ!FlowRound
    <2> HIDE DEF b, r
    <2>2. BytesPerRound \in Nat \ {0}
      BY AfqConstants
    <2>3. PICK q \in Int : \E z \in 0 .. BytesPerRound - 1 :
             b = BytesPerRound * q + z /\ b \div BytesPerRound = q
      BY <1>7, <2>2, DivMod
    <2>4. r = q /\ r \in Nat
      BY <1>7, <2>1, <2>2, <2>3, WholeNumber
    <2>5. (r + 1) * BytesPerRound = BytesPerRound * r + BytesPerRound
          /\ r * BytesPerRound = BytesPerRound * r /\ BytesPerRound * r \in Int
      BY <2>2, <2>4
    <2>6. QED
      BY <1>7, <2>2, <2>3, <2>4, <2>5
  <1>9. QED
    BY <1>1, <1>6, <1>7, <1>8 DEF Charge

----------------------------------------------------------------------------
(* What the handlers do to the calendar *)

\* The queue a number of steps ahead is a queue of the calendar, and no other
\* number of steps leads to it.
LEMMA CalendarTyped ==
    ASSUME NEW pk, NEW sk, NEW cq, NEW nr, NEW rb, CalendarTypes(pk, sk, cq, nr, rb),
           NEW k \in Fifos
    PROVE  /\ (cq + k) % AfqQueues \in Fifos
           /\ Ahead(pk, cq, k) \in Seq(AfqPacket)
           /\ \A f \in AfqFlows : Share(pk, cq, rb, f, k) \in Nat
           /\ 0 \in Fifos /\ Ahead(pk, cq, 0) = pk[cq] /\ (cq + 0) % AfqQueues = cq
           /\ \A j \in Fifos : (cq + j) % AfqQueues = (cq + k) % AfqQueues => j = k
  <1>1. AfqQueues \in Nat \ {0} /\ cq \in 0 .. AfqQueues - 1 /\ k \in 0 .. AfqQueues - 1
    BY AfqConstants DEF CalendarTypes, Fifos
  <1>2. /\ (cq + k) % AfqQueues \in 0 .. AfqQueues - 1
        /\ \A j \in 0 .. AfqQueues - 1 :
              (cq + j) % AfqQueues = (cq + k) % AfqQueues => j = k
    BY <1>1, PlacesDiffer, Zenon
  <1>3. Ahead(pk, cq, k) \in Seq(AfqPacket)
    BY <1>2 DEF Ahead, CalendarTypes, Fifos
  <1>4. ASSUME NEW f \in AfqFlows PROVE Share(pk, cq, rb, f, k) \in Nat
    <2>1. rb[f] \in Nat
      BY DEF CalendarTypes
    <2>2. FlowBytes(Ahead(pk, cq, k), f) \in Nat
      BY <1>3, FlowBytesIs
    <2>3. QED
      BY <2>1, <2>2 DEF Share
  <1>5. 0 \in Fifos /\ (cq + 0) % AfqQueues = cq
    <2>1. cq + 0 = cq /\ cq \in 0 .. 2 * AfqQueues - 1 /\ cq < AfqQueues
      BY <1>1
    <2>2. cq % AfqQueues = cq
      BY <1>1, <2>1, Around
    <2>3. QED
      BY <1>1, <2>1, <2>2 DEF Fifos
  <1>6. QED
    BY <1>2, <1>3, <1>4, <1>5 DEF Ahead, Fifos

\* The current FIFO's oldest packet leaves.
LEMMA CalendarSends ==
    ASSUME NEW pk, NEW sk, NEW cq, NEW nr, NEW rb, Calendar(pk, sk, cq, nr, rb),
           pk[cq] # <<>>, NEW p, p = Head(pk[cq]),
           NEW pt, pt = [pk EXCEPT ![cq] = Tail(@)],
           NEW rt, rt = [f \in AfqFlows |->
                             rb[f] + (IF f = p.flow THEN p.size ELSE 0)]
    PROVE  Calendar(pt, sk, cq, nr, rt)
  <1>1. CalendarTypes(pk, sk, cq, nr, rb)
    BY DEF Calendar
  <1>2. /\ pk \in [Fifos -> Seq(AfqPacket)] /\ cq \in Fifos
        /\ rb \in [AfqFlows -> Nat]
    BY <1>1 DEF CalendarTypes
  <1>3. /\ pk[cq] \in Seq(AfqPacket) /\ p \in AfqPacket /\ Tail(pk[cq]) \in Seq(AfqPacket)
        /\ Len(pk[cq]) \in Nat /\ Len(Tail(pk[cq])) = Len(pk[cq]) - 1
        /\ \A i \in 1 .. Len(Tail(pk[cq])) : Tail(pk[cq])[i] = pk[cq][i + 1]
    BY <1>2, HeadTailProperties
  <1>4. p.size \in Nat
    BY <1>3, AfqConstants DEF AfqPacket
  <1>5. CalendarTypes(pt, sk, cq, nr, rt)
    <2>1. pt \in [Fifos -> Seq(AfqPacket)]
      BY <1>2, <1>3
    <2>2. rt \in [AfqFlows -> Nat]
      BY <1>2, <1>4
    <2>3. QED
      BY <1>1, <2>1, <2>2 DEF CalendarTypes
  <1>6. ASSUME NEW k \in Fifos
        PROVE  Ahead(pt, cq, k) =
                   IF k = 0 THEN Tail(Ahead(pk, cq, k)) ELSE Ahead(pk, cq, k)
    <2>1. /\ (cq + k) % AfqQueues \in Fifos /\ (cq + 0) % AfqQueues = cq /\ 0 \in Fifos
          /\ \A j \in Fifos : (cq + j) % AfqQueues = (cq + k) % AfqQueues => j = k
      BY <1>1, CalendarTyped
    <2>2. CASE k = 0
      BY <1>2, <2>1, <2>2 DEF Ahead
    <2>3. CASE k # 0
      <3>1. (cq + k) % AfqQueues # cq
        BY <2>1, <2>3
      <3>2. QED
        BY <1>2, <2>1, <2>3, <3>1 DEF Ahead
    <2>4. QED
      BY <2>2, <2>3
  <1>7. ASSUME NEW f \in AfqFlows, NEW k \in Fifos
        PROVE  Share(pt, cq, rt, f, k) = Share(pk, cq, rb, f, k)
    <2>1. CASE k = 0
      <3>1. Ahead(pk, cq, 0) = pk[cq] /\ Ahead(pt, cq, 0) = Tail(pk[cq])
        BY <1>1, <1>6, <2>1, CalendarTyped
      <3>2. /\ FlowBytes(pk[cq], f) = (IF p.flow = f THEN p.size ELSE 0)
                                         + FlowBytes(Tail(pk[cq]), f)
            /\ FlowBytes(Tail(pk[cq]), f) \in Nat
        BY <1>3, FlowBytesIs
      <3>3. rt[f] = rb[f] + (IF f = p.flow THEN p.size ELSE 0) /\ rb[f] \in Nat
        BY <1>2
      <3>4. QED
        <4> DEFINE x == FlowBytes(pk[cq], f)
                   y == FlowBytes(Tail(pk[cq]), f)
                   z == p.size
                   r == rb[f]
        <4>1. Share(pk, cq, rb, f, k) = x + r
          BY <2>1, <3>1 DEF Share
        <4>2. Share(pt, cq, rt, f, k) = y + (r + (IF f = p.flow THEN z ELSE 0))
          BY <2>1, <3>1, <3>3 DEF Share
        <4>3. x = (IF f = p.flow THEN z ELSE 0) + y /\ y \in Nat /\ r \in Nat /\ z \in Nat
          BY <1>4, <3>2, <3>3
        <4> HIDE DEF x, y, z, r
        <4>4. QED
          BY <4>1, <4>2, <4>3
    <2>2. CASE k # 0
      BY <1>6, <2>2 DEF Share
    <2>3. QED
      BY <2>1, <2>2
  <1>8. Covered(pt, sk, cq, nr, rt) /\ Bounded(pt, cq, rt)
    BY <1>7 DEF Calendar, Covered, Bounded
  <1>9. InOrder(pt, cq)
    <2> DEFINE At(k, i) == IF k = 0 THEN i + 1 ELSE i
    <2>1. ASSUME NEW k \in Fifos, NEW i \in 1 .. Len(Ahead(pt, cq, k))
          PROVE  /\ At(k, i) \in 1 .. Len(Ahead(pk, cq, k)) /\ i \in Nat
                 /\ Ahead(pt, cq, k)[i] = Ahead(pk, cq, k)[At(k, i)]
      <3>1. CASE k = 0
        <4>1. Ahead(pk, cq, 0) = pk[cq] /\ Ahead(pt, cq, 0) = Tail(pk[cq])
          BY <1>1, <1>6, <3>1, CalendarTyped
        <4>2. i \in 1 .. Len(Tail(pk[cq])) /\ At(k, i) = i + 1
          BY <3>1, <4>1
        <4>3. i \in Nat /\ i + 1 \in 1 .. Len(pk[cq])
          BY <1>3, <4>2
        <4>4. QED
          BY <1>3, <3>1, <4>1, <4>2, <4>3
      <3>2. CASE k # 0
        <4>1. Ahead(pk, cq, k) \in Seq(AfqPacket)
          BY <1>1, CalendarTyped
        <4>2. Ahead(pt, cq, k) = Ahead(pk, cq, k) /\ At(k, i) = i
          BY <1>6, <3>2
        <4>3. i \in Nat
          BY <4>1, <4>2
        <4>4. QED
          BY <4>2, <4>3
      <3>3. QED
        BY <3>1, <3>2
    <2>2. ASSUME NEW k \in Fifos, NEW l \in Fifos,
                 NEW i \in 1 .. Len(Ahead(pt, cq, k)),
                 NEW j \in 1 .. Len(Ahead(pt, cq, l)),
                 Ahead(pt, cq, k)[i].flow = Ahead(pt, cq, l)[j].flow,
                 k < l \/ (k = l /\ i < j)
          PROVE  Ahead(pt, cq, k)[i].id < Ahead(pt, cq, l)[j].id
      <3>1. k < l \/ (k = l /\ At(k, i) < At(l, j))
        BY <2>1, <2>2
      <3> HIDE DEF At
      <3>2. /\ At(k, i) \in 1 .. Len(Ahead(pk, cq, k))
            /\ At(l, j) \in 1 .. Len(Ahead(pk, cq, l))
            /\ Ahead(pt, cq, k)[i] = Ahead(pk, cq, k)[At(k, i)]
            /\ Ahead(pt, cq, l)[j] = Ahead(pk, cq, l)[At(l, j)]
        BY <2>1
      <3>3. InOrder(pk, cq)
        BY DEF Calendar
      <3>4. Ahead(pk, cq, k)[At(k, i)].id < Ahead(pk, cq, l)[At(l, j)].id
        BY <2>2, <3>1, <3>2, <3>3 DEF InOrder
      <3>5. QED
        BY <3>2, <3>4
    <2>3. QED
      BY <2>2 DEF InOrder
  <1>10. QED
    BY <1>5, <1>8, <1>9 DEF Calendar

\* The calendar goes to the first FIFO that has packets.
LEMMA CalendarTurns ==
    ASSUME NEW pk, NEW sk, NEW cq, NEW nr, NEW rb, Calendar(pk, sk, cq, nr, rb),
           NEW k \in Fifos, \A j \in 0 .. k - 1 : Ahead(pk, cq, j) = <<>>,
           NEW rt, rt = IF k = 0 THEN rb ELSE [f \in AfqFlows |-> 0]
    PROVE  Calendar(pk, sk, (cq + k) % AfqQueues, nr + k, rt)
  <1> DEFINE c == (cq + k) % AfqQueues
  <1>1. CalendarTypes(pk, sk, cq, nr, rb)
    BY DEF Calendar
  <1>2. /\ nr \in Nat /\ cq \in Fifos /\ rb \in [AfqFlows -> Nat]
        /\ AfqQueues \in Nat \ {0} /\ c \in Fifos /\ k \in Nat
    BY <1>1, AfqConstants, CalendarTyped DEF CalendarTypes, Fifos
  <1>3. CASE k = 0
    <2>1. c = cq /\ nr + k = nr /\ rt = rb
      BY <1>1, <1>2, <1>3, CalendarTyped
    <2>2. QED
      BY <2>1
  <1>4. CASE k # 0
    <2>1. CalendarTypes(pk, sk, c, nr + k, rt)
      <3>1. nr + k \in Nat /\ rt \in [AfqFlows -> Nat]
        BY <1>2, <1>4
      <3> HIDE DEF c
      <3>2. QED
        BY <1>1, <1>2, <3>1 DEF CalendarTypes
    <2>2. ASSUME NEW j \in Fifos
          PROVE  /\ k + j < AfqQueues =>
                      k + j \in Fifos /\ Ahead(pk, c, j) = Ahead(pk, cq, k + j)
                 /\ k + j >= AfqQueues => Ahead(pk, c, j) = <<>>
      <3>1. /\ k + j < AfqQueues => (c + j) % AfqQueues = (cq + (k + j)) % AfqQueues
            /\ k + j >= AfqQueues =>
                  (c + j) % AfqQueues = (cq + (k + j - AfqQueues)) % AfqQueues
        BY <1>2, PlacesFrom, Zenon DEF Fifos
      <3> HIDE DEF c
      <3>2. k + j < AfqQueues => k + j \in Fifos
        BY <1>2 DEF Fifos
      <3>3. k + j >= AfqQueues => k + j - AfqQueues \in 0 .. k - 1
        BY <1>2 DEF Fifos
      <3>4. QED
        BY <3>1, <3>2, <3>3 DEF Ahead
    <2>3. ASSUME NEW f \in AfqFlows, NEW j \in Fifos
          PROVE  /\ k + j < AfqQueues =>
                      Share(pk, c, rt, f, j) = Share(pk, cq, rb, f, k + j)
                 /\ k + j >= AfqQueues => Share(pk, c, rt, f, j) = 0
      <3>1. rt[f] = 0
        BY <1>4
      <3>2. k + j # 0 /\ j \in Nat
        BY <1>2, <1>4 DEF Fifos
      <3>3. FlowBytes(<<>>, f) = 0
        <4>1. <<>> \in Seq(AfqPacket)
          OBVIOUS
        <4>2. QED
          BY <4>1, FlowBytesIs
      <3> HIDE DEF c
      <3>4. ASSUME k + j < AfqQueues
            PROVE  Share(pk, c, rt, f, j) = Share(pk, cq, rb, f, k + j)
        <4>1. Ahead(pk, c, j) = Ahead(pk, cq, k + j) /\ k + j \in Fifos
          BY <2>2, <3>4
        <4>2. FlowBytes(Ahead(pk, cq, k + j), f) \in Nat
          BY <1>1, <4>1, CalendarTyped, FlowBytesIs
        <4>3. Share(pk, c, rt, f, j) = FlowBytes(Ahead(pk, cq, k + j), f)
          BY <3>1, <4>1, <4>2 DEF Share
        <4>4. Share(pk, cq, rb, f, k + j) = FlowBytes(Ahead(pk, cq, k + j), f)
          BY <3>2, <4>2 DEF Share
        <4>5. QED
          BY <4>3, <4>4
      <3>5. ASSUME k + j >= AfqQueues PROVE Share(pk, c, rt, f, j) = 0
        <4>1. Ahead(pk, c, j) = <<>>
          BY <2>2, <3>5
        <4>2. QED
          BY <3>1, <3>3, <4>1 DEF Share
      <3>6. QED
        BY <3>4, <3>5, Zenon
    <2>4. Covered(pk, sk, c, nr + k, rt)
      <3> SUFFICES ASSUME NEW f \in AfqFlows, NEW j \in Fifos,
                          Share(pk, c, rt, f, j) > 0, NEW i \in Rows
                   PROVE  Charge(sk, f, i) >= (nr + k + j) * BytesPerRound
                                                  + Share(pk, c, rt, f, j)
        BY DEF Covered
      <3> HIDE DEF c
      <3>1. j \in Nat
        BY <1>2 DEF Fifos
      <3>2. k + j < AfqQueues
        BY <1>2, <2>3, <3>1
      <3>3. k + j \in Fifos /\ Share(pk, c, rt, f, j) = Share(pk, cq, rb, f, k + j)
        BY <2>2, <2>3, <3>2
      <3>4. Charge(sk, f, i) >= (nr + (k + j)) * BytesPerRound
                                    + Share(pk, cq, rb, f, k + j)
        BY <3>3 DEF Calendar, Covered
      <3>5. nr + (k + j) = nr + k + j
        BY <1>2, <3>1
      <3>6. QED
        BY <3>3, <3>4, <3>5
    <2>5. Bounded(pk, c, rt)
      <3> SUFFICES ASSUME NEW f \in AfqFlows, NEW j \in Fifos
                   PROVE  Share(pk, c, rt, f, j) < BytesPerRound + AfqLargest
        BY DEF Bounded
      <3> HIDE DEF c
      <3>1. CASE k + j < AfqQueues
        <4>1. k + j \in Fifos /\ Share(pk, c, rt, f, j) = Share(pk, cq, rb, f, k + j)
          BY <2>2, <2>3, <3>1
        <4>2. Share(pk, cq, rb, f, k + j) < BytesPerRound + AfqLargest
          BY <4>1 DEF Calendar, Bounded
        <4>3. QED
          BY <4>1, <4>2
      <3>2. CASE ~(k + j < AfqQueues)
        <4>1. j \in Nat
          BY DEF Fifos
        <4>2. Share(pk, c, rt, f, j) = 0
          BY <1>2, <2>3, <3>2, <4>1
        <4>3. QED
          BY <4>2, AfqConstants
      <3>3. QED
        BY <3>1, <3>2
    <2>6. InOrder(pk, c)
      <3> SUFFICES ASSUME NEW l \in Fifos, NEW m \in Fifos,
                          NEW i \in 1 .. Len(Ahead(pk, c, l)),
                          NEW j \in 1 .. Len(Ahead(pk, c, m)),
                          Ahead(pk, c, l)[i].flow = Ahead(pk, c, m)[j].flow,
                          l < m \/ (l = m /\ i < j)
                   PROVE  Ahead(pk, c, l)[i].id < Ahead(pk, c, m)[j].id
        BY DEF InOrder
      <3> HIDE DEF c
      <3>1. l \in Nat /\ m \in Nat
        BY <1>2 DEF Fifos
      <3>2. Ahead(pk, c, l) # <<>> /\ Ahead(pk, c, m) # <<>>
        OBVIOUS
      <3>3. k + l < AfqQueues /\ k + m < AfqQueues
        BY <1>2, <2>2, <3>1, <3>2
      <3>4. /\ k + l \in Fifos /\ Ahead(pk, c, l) = Ahead(pk, cq, k + l)
            /\ k + m \in Fifos /\ Ahead(pk, c, m) = Ahead(pk, cq, k + m)
        BY <2>2, <3>3
      <3>5. k + l < k + m \/ (k + l = k + m /\ i < j)
        BY <1>2, <3>1
      <3>6. InOrder(pk, cq)
        BY DEF Calendar
      <3>7. QED
        BY <3>4, <3>5, <3>6 DEF InOrder
    <2>7. QED
      BY <2>1, <2>4, <2>5, <2>6 DEF Calendar
  <1>5. QED
    BY <1>3, <1>4

\* The flow's buckets are charged, in st, with a packet of its round, which is
\* the k-th from now, has bytes left and is the flow's latest.
MakesRoom(pk, sk, cq, nr, rb, st, f, k, size) ==
    /\ st \in [Rows -> [AFQ!Buckets -> Nat]]
    /\ \A g \in AfqFlows, i \in Rows : Charge(st, g, i) >= Charge(sk, g, i)
    /\ Share(pk, cq, rb, f, k) < BytesPerRound
    /\ \A i \in Rows : Charge(st, f, i) >=
           (nr + k) * BytesPerRound + (Share(pk, cq, rb, f, k) + size)
    /\ \A l \in Fifos : l > k => Share(pk, cq, rb, f, l) = 0

\* A packet joins the FIFO k rounds ahead, its bytes charged to its flow.
LEMMA CalendarTakes ==
    ASSUME NEW pk, NEW sk, NEW cq, NEW nr, NEW rb, Calendar(pk, sk, cq, nr, rb),
           NEW n \in Nat, Numbered(pk, n), NEW k \in Fifos, NEW f \in AfqFlows,
           NEW p \in AfqPacket, p.flow = f, p.id = n + 1,
           NEW pt, pt = [pk EXCEPT ![(cq + k) % AfqQueues] = Append(@, p)],
           NEW st, MakesRoom(pk, sk, cq, nr, rb, st, f, k, p.size)
    PROVE  Calendar(pt, st, cq, nr, rb) /\ Numbered(pt, n + 1)
  <1> DEFINE o == (cq + k) % AfqQueues
             B == BytesPerRound
  <1>0. /\ st \in [Rows -> [AFQ!Buckets -> Nat]]
        /\ \A g \in AfqFlows, i \in Rows : Charge(st, g, i) >= Charge(sk, g, i)
        /\ Share(pk, cq, rb, f, k) < BytesPerRound
        /\ \A i \in Rows : Charge(st, f, i) >=
              (nr + k) * BytesPerRound + (Share(pk, cq, rb, f, k) + p.size)
        /\ \A l \in Fifos : l > k => Share(pk, cq, rb, f, l) = 0
    BY DEF MakesRoom
  <1>1. CalendarTypes(pk, sk, cq, nr, rb)
    BY DEF Calendar
  <1>2. /\ pk \in [Fifos -> Seq(AfqPacket)] /\ cq \in Fifos
        /\ sk \in [Rows -> [AFQ!Buckets -> Nat]] /\ nr \in Nat
        /\ o \in Fifos /\ \A l \in Fifos : (cq + l) % AfqQueues = o => l = k
    BY <1>1, CalendarTyped DEF CalendarTypes
  <1>3. p.size \in Nat \ {0} /\ p.size <= AfqLargest /\ B \in Nat \ {0} /\ AfqLargest \in Nat
    BY AfqConstants DEF AfqPacket
  <1>4. pt \in [Fifos -> Seq(AfqPacket)]
    BY <1>2, AppendProperties
  <1>5. CalendarTypes(pt, st, cq, nr, rb)
    BY <1>0, <1>1, <1>4 DEF CalendarTypes
  <1>6. ASSUME NEW l \in Fifos
        PROVE  Ahead(pt, cq, l) = IF l = k THEN Append(Ahead(pk, cq, l), p)
                                  ELSE Ahead(pk, cq, l)
    <2>1. (cq + l) % AfqQueues \in Fifos
      BY <1>1, CalendarTyped
    <2>2. CASE l = k
      BY <1>2, <2>2 DEF Ahead
    <2>3. CASE l # k
      <3>1. (cq + l) % AfqQueues # o
        BY <1>2, <2>3
      <3> HIDE DEF o
      <3>2. pt = [pk EXCEPT ![o] = Append(@, p)]
        BY DEF o
      <3>3. QED
        BY <1>2, <2>1, <2>3, <3>1, <3>2 DEF Ahead
    <2>4. QED
      BY <2>2, <2>3
  <1> HIDE DEF o
  <1>7. ASSUME NEW g \in AfqFlows, NEW l \in Fifos
        PROVE  /\ g = f /\ l = k => Share(pt, cq, rb, g, l) =
                                        Share(pk, cq, rb, g, l) + p.size
               /\ ~(g = f /\ l = k) => Share(pt, cq, rb, g, l) =
                                           Share(pk, cq, rb, g, l)
               /\ Share(pk, cq, rb, g, l) \in Nat
    <2>1. /\ Ahead(pk, cq, l) \in Seq(AfqPacket) /\ rb[g] \in Nat
          /\ Share(pk, cq, rb, g, l) \in Nat
      BY <1>1, CalendarTyped DEF CalendarTypes
    <2> DEFINE x == FlowBytes(Ahead(pk, cq, l), g)
               y == FlowBytes(Ahead(pt, cq, l), g)
               z == IF l = 0 THEN rb[g] ELSE 0
               m == p.size
               e == IF g = f /\ l = k THEN m ELSE 0
    <2>2. x \in Nat /\ y = x + e
      <3>1. /\ x \in Nat
            /\ FlowBytes(Append(Ahead(pk, cq, l), p), g) =
                   x + (IF p.flow = g THEN m ELSE 0)
        BY <2>1, FlowBytesIs
      <3>2. CASE l = k
        <4>1. e = IF p.flow = g THEN m ELSE 0
          BY <3>2
        <4>2. y = FlowBytes(Append(Ahead(pk, cq, l), p), g)
          BY <1>6, <3>2
        <4> HIDE DEF x, y, m, e
        <4>3. QED
          BY <3>1, <4>1, <4>2
      <3>3. CASE l # k
        <4>1. e = 0
          BY <3>3
        <4>2. y = x
          BY <1>6, <3>3
        <4> HIDE DEF x, y, m, e
        <4>3. QED
          BY <3>1, <4>1, <4>2
      <3>4. QED
        BY <3>2, <3>3
    <2>3. Share(pt, cq, rb, g, l) = y + z /\ Share(pk, cq, rb, g, l) = x + z
      BY DEF Share
    <2>4. z \in Nat /\ e \in Nat
      BY <1>3, <2>1
    <2> HIDE DEF x, y, z, m, e
    <2>5. Share(pt, cq, rb, g, l) = Share(pk, cq, rb, g, l) + e
      BY <2>2, <2>3, <2>4
    <2>6. (g = f /\ l = k => e = p.size) /\ (~(g = f /\ l = k) => e = 0)
      BY DEF m, e
    <2>7. QED
      BY <2>1, <2>4, <2>5, <2>6
  <1>8. Covered(pt, st, cq, nr, rb)
    <2> SUFFICES ASSUME NEW g \in AfqFlows, NEW l \in Fifos,
                        Share(pt, cq, rb, g, l) > 0, NEW i \in Rows
                 PROVE  Charge(st, g, i) >= (nr + l) * B + Share(pt, cq, rb, g, l)
      BY DEF Covered
    <2>1. CASE g = f /\ l = k
      <3>1. Share(pt, cq, rb, g, l) = Share(pk, cq, rb, f, k) + p.size
        BY <1>7, <2>1
      <3>2. QED
        BY <1>0, <2>1, <3>1
    <2>2. CASE ~(g = f /\ l = k)
      <3>1. Share(pt, cq, rb, g, l) = Share(pk, cq, rb, g, l)
        BY <1>7, <2>2
      <3>2. Charge(sk, g, i) >= (nr + l) * B + Share(pk, cq, rb, g, l)
        BY <3>1 DEF Calendar, Covered
      <3> DEFINE a == Charge(sk, g, i)
                 b == Charge(st, g, i)
                 c == (nr + l) * B + Share(pk, cq, rb, g, l)
      <3>3. a \in Int /\ b \in Int
        <4>1. Hash[i][g] \in AFQ!Buckets
          BY AfqConstants
        <4>2. QED
          BY <1>0, <1>2, <4>1 DEF Charge
      <3>4. c \in Int
        <4>1. l \in Int
          BY DEF Fifos
        <4>2. (nr + l) * B \in Int
          BY <1>2, <1>3, <4>1
        <4>3. QED
          BY <1>7, <4>2
      <3>5. b >= a /\ a >= c
        BY <1>0, <3>2
      <3> HIDE DEF a, b, c
      <3>6. b >= c
        BY <3>3, <3>4, <3>5
      <3>7. QED
        BY <3>1, <3>6 DEF b, c
    <2>3. QED
      BY <2>1, <2>2
  <1>9. Bounded(pt, cq, rb)
    <2> SUFFICES ASSUME NEW g \in AfqFlows, NEW l \in Fifos
                 PROVE  Share(pt, cq, rb, g, l) < B + AfqLargest
      BY DEF Bounded
    <2>1. CASE g = f /\ l = k
      <3> DEFINE x == Share(pk, cq, rb, f, k)
                 m == p.size
      <3>1. Share(pt, cq, rb, g, l) = x + m /\ x \in Nat /\ x < B
        BY <1>0, <1>7, <2>1
      <3>2. m \in Nat /\ m <= AfqLargest
        BY <1>3
      <3> HIDE DEF x, m, B
      <3>3. QED
        BY <1>3, <3>1, <3>2
    <2>2. CASE ~(g = f /\ l = k)
      <3>1. Share(pk, cq, rb, g, l) < B + AfqLargest
        BY DEF Calendar, Bounded
      <3>2. Share(pt, cq, rb, g, l) = Share(pk, cq, rb, g, l)
        BY <1>7, <2>2
      <3>3. QED
        BY <3>1, <3>2
    <2>3. QED
      BY <2>1, <2>2
  <1>10. ASSUME NEW l \in Fifos, NEW i \in 1 .. Len(Ahead(pt, cq, l))
         PROVE  \/ l = k /\ i = Len(Ahead(pk, cq, k)) + 1 /\ Ahead(pt, cq, l)[i] = p
                \/ /\ i \in 1 .. Len(Ahead(pk, cq, l))
                   /\ Ahead(pt, cq, l)[i] = Ahead(pk, cq, l)[i]
    <2>1. Ahead(pk, cq, l) \in Seq(AfqPacket)
      BY <1>1, CalendarTyped
    <2>2. CASE l # k
      BY <1>6, <2>2
    <2>3. CASE l = k
      <3> DEFINE q == Ahead(pk, cq, k)
      <3>1. Ahead(pt, cq, l) = Append(q, p) /\ q \in Seq(AfqPacket)
        BY <1>6, <2>1, <2>3
      <3>2. Len(q) \in Nat /\ i \in 1 .. Len(q) + 1
        BY <3>1, AppendProperties
      <3>3. /\ \A j \in 1 .. Len(q) : Append(q, p)[j] = q[j]
            /\ Append(q, p)[Len(q) + 1] = p
        BY <3>1, AppendProperties
      <3>4. i \in 1 .. Len(q) \/ i = Len(q) + 1
        <4> HIDE DEF q
        <4>1. QED
          BY <3>2
      <3>5. QED
        BY <2>3, <3>1, <3>3, <3>4
    <2>4. QED
      BY <2>2, <2>3
  <1>11. ASSUME NEW l \in Fifos, NEW i \in 1 .. Len(Ahead(pk, cq, l))
         PROVE  Ahead(pk, cq, l)[i].id \in 1 .. n
    <2>1. (cq + l) % AfqQueues \in Fifos
      BY <1>1, CalendarTyped
    <2>2. QED
      BY <2>1 DEF Numbered, Ahead
  <1>12. InOrder(pt, cq)
    <2> SUFFICES ASSUME NEW l \in Fifos, NEW m \in Fifos,
                        NEW i \in 1 .. Len(Ahead(pt, cq, l)),
                        NEW j \in 1 .. Len(Ahead(pt, cq, m)),
                        Ahead(pt, cq, l)[i].flow = Ahead(pt, cq, m)[j].flow,
                        l < m \/ (l = m /\ i < j)
                 PROVE  Ahead(pt, cq, l)[i].id < Ahead(pt, cq, m)[j].id
      BY DEF InOrder
    <2> DEFINE a == Ahead(pt, cq, l)[i]
               b == Ahead(pt, cq, m)[j]
    <2>1. /\ \/ l = k /\ i = Len(Ahead(pk, cq, k)) + 1 /\ a = p
             \/ i \in 1 .. Len(Ahead(pk, cq, l)) /\ a = Ahead(pk, cq, l)[i]
          /\ \/ m = k /\ j = Len(Ahead(pk, cq, k)) + 1 /\ b = p
             \/ j \in 1 .. Len(Ahead(pk, cq, m)) /\ b = Ahead(pk, cq, m)[j]
      BY <1>10
    <2>2. CASE /\ i \in 1 .. Len(Ahead(pk, cq, l)) /\ a = Ahead(pk, cq, l)[i]
               /\ j \in 1 .. Len(Ahead(pk, cq, m)) /\ b = Ahead(pk, cq, m)[j]
      <3>1. InOrder(pk, cq)
        BY DEF Calendar
      <3>2. QED
        BY <2>2, <3>1 DEF InOrder
    <2>3. CASE /\ i \in 1 .. Len(Ahead(pk, cq, l)) /\ a = Ahead(pk, cq, l)[i]
               /\ b = p
      <3>1. a.id \in 1 .. n
        BY <1>11, <2>3
      <3>2. QED
        BY <2>3, <3>1
    <2>4. CASE l = k /\ i = Len(Ahead(pk, cq, k)) + 1 /\ a = p
      <3>1. \/ m = k /\ j = Len(Ahead(pk, cq, k)) + 1
            \/ j \in 1 .. Len(Ahead(pk, cq, m)) /\ b = Ahead(pk, cq, m)[j]
        BY <2>1
      <3>2. Len(Ahead(pk, cq, k)) \in Nat /\ k \in Int
        <4>1. Ahead(pk, cq, k) \in Seq(AfqPacket)
          BY <1>1, CalendarTyped
        <4>2. QED
          BY <4>1 DEF Fifos
      <3>3. ~(m = k /\ j = Len(Ahead(pk, cq, k)) + 1)
        BY <2>4, <3>2
      <3>4. j \in 1 .. Len(Ahead(pk, cq, m)) /\ b = Ahead(pk, cq, m)[j] /\ b.flow = f
        BY <2>4, <3>1, <3>3
      <3>5. m > k
        <4>1. CASE m = k
          <5>1. i < j /\ j \in 1 .. Len(Ahead(pk, cq, k))
            BY <2>4, <3>2, <3>4, <4>1
          <5>2. QED
            BY <2>4, <3>2, <5>1
        <4>2. QED
          BY <2>4, <4>1 DEF Fifos
      <3>6. Share(pk, cq, rb, f, m) = 0
        BY <1>0, <3>5
      <3>7. /\ FlowBytes(Ahead(pk, cq, m), f) > 0
            /\ FlowBytes(Ahead(pk, cq, m), f) \in Nat
        <4>1. Ahead(pk, cq, m) \in Seq(AfqPacket)
          BY <1>1, CalendarTyped
        <4>2. QED
          BY <3>4, <4>1, FlowBytesIs
      <3>8. m # 0
        BY <3>5 DEF Fifos
      <3>9. Share(pk, cq, rb, f, m) = FlowBytes(Ahead(pk, cq, m), f)
        BY <3>7, <3>8 DEF Share
      <3>10. QED
        BY <3>6, <3>7, <3>9
    <2>5. QED
      BY <2>1, <2>2, <2>3, <2>4
  <1>13. Numbered(pt, n + 1)
    <2> SUFFICES ASSUME NEW q \in Fifos, NEW i \in 1 .. Len(pt[q])
                 PROVE  pt[q][i].id \in 1 .. n + 1
      BY DEF Numbered
    <2>1. PICK l \in Fifos : (cq + l) % AfqQueues = q
      BY <1>2, AfqConstants, PlacesReached, Zenon DEF Fifos
    <2>2. pt[q] = Ahead(pt, cq, l)
      BY <2>1 DEF Ahead
    <2>3. \/ Ahead(pt, cq, l)[i] = p
          \/ /\ i \in 1 .. Len(Ahead(pk, cq, l))
             /\ Ahead(pt, cq, l)[i] = Ahead(pk, cq, l)[i]
      BY <1>10, <2>2
    <2>4. CASE Ahead(pt, cq, l)[i] = p
      BY <2>2, <2>4
    <2>5. CASE /\ i \in 1 .. Len(Ahead(pk, cq, l))
               /\ Ahead(pt, cq, l)[i] = Ahead(pk, cq, l)[i]
      <3>1. Ahead(pk, cq, l)[i].id \in 1 .. n
        BY <1>11, <2>5
      <3>2. pt[q][i].id \in 1 .. n
        BY <2>2, <2>5, <3>1
      <3>3. QED
        BY <3>2
    <2>6. QED
      BY <2>3, <2>4, <2>5
  <1>14. QED
    BY <1>5, <1>8, <1>9, <1>12, <1>13 DEF Calendar

\* What receivePacket charges to a flow makes room for its packet in its FIFO.
LEMMA CalendarCharges ==
    ASSUME NEW rb, Calendar(packets, sketch, currQ, nRounds, rb),
           NEW f \in AfqFlows, NEW size \in Sizes, ~AFQ!TooFarAhead(f)
    PROVE  LET st == AFQ!Charged(f, AFQ!ChargedBytes(f) + size)
           IN  \E k \in Fifos :
                 /\ AFQ!OutQ(f) = (currQ + k) % AfqQueues
                 /\ MakesRoom(packets, sketch, currQ, nRounds, rb, st, f, k, size)
  <1> DEFINE b == AFQ!Bytes(f)
             r == AFQ!FlowRound(f)
             B == BytesPerRound
             c == AFQ!ChargedBytes(f)
             k == IF r <= nRounds THEN 0 ELSE r - nRounds
             st == AFQ!Charged(f, c + size)
             S(l) == Share(packets, currQ, rb, f, l)
  <1>1. /\ CalendarTypes(packets, sketch, currQ, nRounds, rb)
        /\ sketch \in [Rows -> [AFQ!Buckets -> Nat]] /\ nRounds \in Nat /\ currQ \in Fifos
    BY DEF Calendar, CalendarTypes
  <1>2. /\ B \in Nat \ {0} /\ AfqQueues \in Nat \ {0} /\ size \in Nat \ {0}
        /\ \A i \in Rows, g \in AfqFlows : Hash[i][g] \in AFQ!Buckets
    BY AfqConstants
  <1>3. /\ b \in Nat /\ r \in Nat /\ r * B <= b /\ b < (r + 1) * B
        /\ \A i \in Rows : Charge(sketch, f, i) \in Nat
        /\ \A i \in Rows : b <= Charge(sketch, f, i)
        /\ \E i \in Rows : b = Charge(sketch, f, i)
    BY <1>1, FlowRoundIs
  <1>4. r < nRounds + AfqQueues
    BY <1>1, <1>2, <1>3 DEF AFQ!TooFarAhead
  <1>5. k \in Fifos /\ k \in Nat /\ r <= nRounds + k /\ (k # 0 => r = nRounds + k)
    <2> HIDE DEF r
    <2>1. QED
      BY <1>1, <1>2, <1>3, <1>4 DEF Fifos
  <1>6. AFQ!OutQ(f) = (currQ + k) % AfqQueues
    <2>1. CASE r <= nRounds
      <3>1. k = 0 /\ AFQ!OutQ(f) = currQ
        BY <2>1 DEF AFQ!OutQ
      <3>2. (currQ + 0) % AfqQueues = currQ
        BY <1>1, <1>5, CalendarTyped
      <3> HIDE DEF k
      <3>3. QED
        BY <3>1, <3>2
    <2>2. CASE ~(r <= nRounds)
      <3>1. AFQ!OutQ(f) = (currQ + r - nRounds) % AfqQueues /\ k = r - nRounds
        BY <2>2 DEF AFQ!OutQ
      <3>2. currQ + r - nRounds = currQ + (r - nRounds)
        <4> HIDE DEF r
        <4>1. currQ \in Int
          BY <1>1 DEF Fifos
        <4>2. QED
          BY <1>1, <1>3, <4>1
      <3> HIDE DEF k, r
      <3>3. QED
        BY <3>1, <3>2
    <2>3. QED
      BY <2>1, <2>2
  <1>7. c \in Nat /\ c >= b /\ c >= (nRounds + k) * B
    <2>1. CASE r <= nRounds
      <3>1. c = IF nRounds * B >= b THEN nRounds * B ELSE b
        BY <2>1 DEF AFQ!ChargedBytes, AFQ!Higher
      <3>2. k = 0 /\ nRounds + 0 = nRounds /\ nRounds * B \in Nat
        BY <1>1, <1>2, <2>1
      <3> HIDE DEF c, b, k, B
      <3>3. QED
        BY <1>3, <3>1, <3>2
    <2>2. CASE ~(r <= nRounds)
      <3>1. c = b /\ k # 0
        <4>1. k = r - nRounds /\ c = b
          BY <2>2 DEF AFQ!ChargedBytes
        <4> HIDE DEF k, c, b, r
        <4>2. QED
          BY <1>1, <1>3, <2>2, <4>1
      <3>2. r = nRounds + k
        BY <1>5, <3>1
      <3>3. c >= r * B
        <4> HIDE DEF c, b, r, k
        <4>1. QED
          BY <1>3, <3>1
      <3> HIDE DEF c, b, r, k, B
      <3>4. QED
        BY <1>3, <3>1, <3>2, <3>3
    <2>3. QED
      BY <2>1, <2>2
  <1>8. ASSUME NEW l \in Fifos
        PROVE  /\ S(l) \in Nat /\ l \in Nat
               /\ S(l) > 0 => b >= (nRounds + l) * B + S(l)
    <2>1. S(l) \in Nat
      BY <1>1, CalendarTyped
    <2>2. S(l) > 0 => \A i \in Rows : Charge(sketch, f, i) >= (nRounds + l) * B + S(l)
      BY DEF Calendar, Covered
    <2> HIDE DEF b, S
    <2>3. S(l) > 0 => b >= (nRounds + l) * B + S(l)
      BY <1>3, <2>2
    <2>4. QED
      BY <2>1, <2>3 DEF Fifos
  <1> HIDE DEF S
  <1>9. S(k) < B
    <2>1. (r + 1) * B <= (nRounds + k + 1) * B
      <3>1. r + 1 <= nRounds + k + 1 /\ r + 1 \in Int /\ nRounds + k + 1 \in Int /\ B \in Nat
        <4> HIDE DEF r, k
        <4>1. QED
          BY <1>1, <1>2, <1>3, <1>5
      <3> HIDE DEF r, k, B
      <3>2. QED
        BY <3>1, Mono, Zenon
    <2>2. (nRounds + k + 1) * B = (nRounds + k) * B + B /\ (nRounds + k) * B \in Nat
      <3> HIDE DEF k
      <3>1. QED
        BY <1>1, <1>2, <1>5
    <2> DEFINE x == (nRounds + k) * B
               y == (r + 1) * B
    <2>3. b < y /\ y <= x + B /\ x \in Nat /\ y \in Int
      <3>1. y \in Int
        <4> HIDE DEF r
        <4>1. QED
          BY <1>2, <1>3
      <3>2. b < y /\ y <= (nRounds + k + 1) * B
        BY <1>3, <2>1
      <3>3. QED
        BY <2>2, <3>1, <3>2
    <2>4. S(k) \in Nat /\ (S(k) > 0 => b >= x + S(k))
      BY <1>5, <1>8
    <2> HIDE DEF x, y, b, k, B
    <2>5. QED
      BY <1>2, <1>3, <2>3, <2>4
  <1>10. ASSUME NEW l \in Fifos, l > k PROVE S(l) = 0
    <2>1. (r + 1) * B <= (nRounds + l) * B
      <3>1. r + 1 <= nRounds + l /\ r + 1 \in Int /\ nRounds + l \in Int /\ B \in Nat
        <4> HIDE DEF r, k
        <4>1. l \in Nat
          BY <1>8
        <4>2. QED
          BY <1>1, <1>2, <1>3, <1>5, <1>10, <4>1
      <3> HIDE DEF r, k, B
      <3>2. QED
        BY <3>1, Mono, Zenon
    <2> DEFINE x == (nRounds + l) * B
               y == (r + 1) * B
    <2>2. b < y /\ y <= x /\ x \in Int /\ y \in Int
      <3>1. y \in Int /\ x \in Int
        <4> HIDE DEF r
        <4>1. l \in Nat
          BY <1>8
        <4>2. QED
          BY <1>1, <1>2, <1>3, <4>1
      <3>2. QED
        BY <1>3, <2>1, <3>1
    <2>3. S(l) \in Nat /\ (S(l) > 0 => b >= x + S(l))
      BY <1>8
    <2> HIDE DEF x, y, b, k
    <2>4. QED
      BY <1>3, <2>2, <2>3
  <1>11. c >= (nRounds + k) * B + S(k)
    <2>1. S(k) \in Nat /\ (S(k) > 0 => b >= (nRounds + k) * B + S(k))
      BY <1>5, <1>8
    <2> DEFINE x == (nRounds + k) * B
    <2>2. x \in Nat
      <3> HIDE DEF k
      <3>1. QED
        BY <1>1, <1>2, <1>5
    <2> HIDE DEF x, c, b, k
    <2>3. c >= b /\ c >= x /\ (S(k) > 0 => b >= x + S(k))
      BY <1>7, <2>1 DEF x
    <2>4. c >= x + S(k)
      BY <1>3, <1>7, <2>1, <2>2, <2>3
    <2>5. QED
      BY <2>4 DEF x
  <1>12. ASSUME NEW i \in Rows, NEW g \in AfqFlows
         PROVE  /\ Charge(st, g, i) = IF Hash[i][g] = Hash[i][f]
                      THEN AFQ!Higher(Charge(sketch, g, i), c + size)
                      ELSE Charge(sketch, g, i)
                /\ Charge(sketch, g, i) \in Nat
    <2> HIDE DEF c
    <2>1. st[i] = [sketch[i] EXCEPT ![Hash[i][f]] =
                       AFQ!Higher(sketch[i][Hash[i][f]], c + size)]
      BY AfqConstants DEF AFQ!Charged
    <2> HIDE DEF st
    <2>2. sketch[i] \in [AFQ!Buckets -> Nat]
      BY <1>1
    <2>3. Hash[i][f] \in AFQ!Buckets /\ Hash[i][g] \in AFQ!Buckets
      BY <1>2
    <2>4. QED
      BY <2>1, <2>2, <2>3 DEF Charge
  <1>13. st \in [Rows -> [AFQ!Buckets -> Nat]]
    <2>1. c + size \in Nat
      <3> HIDE DEF c
      <3>1. QED
        BY <1>2, <1>7
    <2> DEFINE v == c + size
    <2> HIDE DEF v
    <2>2. ASSUME NEW i \in Rows
          PROVE  [sketch[i] EXCEPT ![Hash[i][f]] = AFQ!Higher(@, v)]
                     \in [AFQ!Buckets -> Nat]
      <3>1. sketch[i] \in [AFQ!Buckets -> Nat] /\ Hash[i][f] \in AFQ!Buckets
        BY <1>1, <1>2
      <3>2. \A x \in Nat : AFQ!Higher(x, v) \in Nat
        BY <2>1 DEF AFQ!Higher, v
      <3>3. QED
        BY <3>1, <3>2
    <2>3. st = [i \in Rows |-> [sketch[i] EXCEPT ![Hash[i][f]] = AFQ!Higher(@, v)]]
      BY AfqConstants DEF AFQ!Charged, v
    <2>4. QED
      BY <2>2, <2>3
  <1> HIDE DEF st, c
  <1>14. \A g \in AfqFlows, i \in Rows : Charge(st, g, i) >= Charge(sketch, g, i)
    BY <1>2, <1>7, <1>12 DEF AFQ!Higher
  <1>15. ASSUME NEW i \in Rows
         PROVE  Charge(st, f, i) >= (nRounds + k) * B + (S(k) + size)
    <2> DEFINE x == (nRounds + k) * B
               s == S(k)
               h == Charge(sketch, f, i)
    <2>1. Charge(st, f, i) = AFQ!Higher(h, c + size) /\ h \in Nat
      BY <1>12
    <2>2. x \in Nat /\ s \in Nat /\ c >= x + s
      <3>1. x \in Nat
        <4> HIDE DEF k
        <4>1. QED
          BY <1>1, <1>2, <1>5
      <3>2. s \in Nat
        BY <1>5, <1>8
      <3>3. QED
        BY <1>11, <3>1, <3>2
    <2> HIDE DEF x, s, h, k, B
    <2>3. AFQ!Higher(h, c + size) >= x + (s + size)
      BY <1>2, <1>7, <2>1, <2>2 DEF AFQ!Higher
    <2>4. QED
      BY <2>1, <2>3 DEF x, s
  <1>16. MakesRoom(packets, sketch, currQ, nRounds, rb, st, f, k, size)
    BY <1>9, <1>10, <1>13, <1>14, <1>15 DEF S, MakesRoom
  <1>17. QED
    BY <1>5, <1>6, <1>16 DEF st, c

\* beginService finds the first FIFO with packets.
LEMMA CalendarBegins ==
    ASSUME NEW pk, NEW sk, NEW rb, Calendar(pk, sk, currQ, nRounds, rb),
           AFQ!BeginService(pk)
    PROVE  /\ Calendar(pk, sk, currQ', nRounds',
                       IF nRounds' # nRounds THEN [f \in AfqFlows |-> 0] ELSE rb)
           /\ SendsOldest(pk, currQ', pending')
  <1>1. CalendarTypes(pk, sk, currQ, nRounds, rb) /\ currQ \in Fifos /\ nRounds \in Nat
        /\ pk \in [Fifos -> Seq(AfqPacket)] /\ AfqQueues \in Nat \ {0}
    BY AfqConstants DEF Calendar, CalendarTypes
  <1>2. CASE \A q \in Fifos : pk[q] = <<>>
    <2>1. pending' = 0 /\ currQ' = currQ /\ nRounds' = nRounds
      BY <1>2, AfqConstants DEF AFQ!BeginService
    <2>2. QED
      BY <1>2, <2>1 DEF SendsOldest
  <1>3. CASE ~ \A q \in Fifos : pk[q] = <<>>
    <2> DEFINE First(k) == /\ pk[(currQ + k) % AfqQueues] # <<>>
                           /\ \A j \in 0 .. k - 1 : pk[(currQ + j) % AfqQueues] = <<>>
               K == {k \in Fifos : pk[(currQ + k) % AfqQueues] # <<>>}
    <2>1. K \in SUBSET Nat /\ K # {}
      <3>1. PICK q \in Fifos : pk[q] # <<>>
        BY <1>3
      <3>2. \E k \in Fifos : (currQ + k) % AfqQueues = q
        BY <1>1, PlacesReached, Zenon DEF Fifos
      <3>3. K # {}
        BY <3>1, <3>2
      <3>4. Fifos \subseteq Nat
        BY <1>1 DEF Fifos
      <3>5. QED
        BY <3>3, <3>4
    <2>2. \E k \in Fifos : First(k)
      <3>1. PICK k \in K : \A j \in K : k <= j
        <4> HIDE DEF K
        <4>1. QED
          BY <2>1, Least
      <3>2. ASSUME NEW j \in 0 .. k - 1 PROVE pk[(currQ + j) % AfqQueues] = <<>>
        <4>1. j \in Fifos /\ ~(k <= j)
          BY <1>1 DEF Fifos
        <4>2. j \notin K
          <5> HIDE DEF K
          <5>1. QED
            BY <3>1, <4>1
        <4>3. QED
          BY <4>1, <4>2
      <3>3. QED
        BY <3>2
    <2> DEFINE k == CHOOSE k \in Fifos : First(k)
    <2>3. k \in Fifos /\ First(k)
      <3> HIDE DEF First
      <3>1. QED
        BY <2>2
    <2>4. /\ currQ' = (currQ + k) % AfqQueues /\ nRounds' = nRounds + k
          /\ pending' = Head(pk[currQ']).id
      BY <1>3, AfqConstants DEF AFQ!BeginService, AFQ!RoundsAfter
    <2> HIDE DEF k
    <2>5. \A j \in 0 .. k - 1 : Ahead(pk, currQ, j) = <<>>
      BY <2>3 DEF Ahead
    <2>6. nRounds' # nRounds <=> k # 0
      <3>1. k \in Nat
        BY <2>3 DEF Fifos
      <3>2. QED
        BY <1>1, <2>4, <3>1
    <2> DEFINE rt == IF k = 0 THEN rb ELSE [f \in AfqFlows |-> 0]
    <2>7. Calendar(pk, sk, (currQ + k) % AfqQueues, nRounds + k, rt)
      <3>1. PICK r : r = IF k = 0 THEN rb ELSE [f \in AfqFlows |-> 0]
        OBVIOUS
      <3>2. Calendar(pk, sk, (currQ + k) % AfqQueues, nRounds + k, r)
        BY <2>3, <2>5, <3>1, CalendarTurns
      <3>3. QED
        BY <3>1, <3>2
    <2>8. rt = IF nRounds' # nRounds THEN [f \in AfqFlows |-> 0] ELSE rb
      BY <2>6
    <2> HIDE DEF rt
    <2>9. SendsOldest(pk, currQ', pending')
      BY <1>3, <2>3, <2>4 DEF SendsOldest
    <2>10. QED
      BY <2>4, <2>7, <2>8, <2>9
  <1>4. QED
    BY <1>2, <1>3

----------------------------------------------------------------------------
(* AprxFairQueue: the invariant holds *)

\* An empty AprxFairQueue satisfies the invariant.
LEMMA AprxInit == AFQ!Init => AprxInv
  <1> SUFFICES ASSUME AFQ!Init PROVE AprxInv
    OBVIOUS
  <1>1. /\ packets = [q \in Fifos |-> <<>>] /\ currQ = 0 /\ nRounds = 0
        /\ sketch = [i \in Rows |-> [b \in AFQ!Buckets |-> 0]]
        /\ pending = 0 /\ arrived = 0 /\ roundBytes = [f \in AfqFlows |-> 0]
    BY AfqConstants DEF AFQ!Init
  <1>2. CalendarTypes(packets, sketch, currQ, nRounds, roundBytes)
    <2>1. <<>> \in Seq(AfqPacket) /\ 0 \in Fifos
      BY AfqConstants DEF Fifos
    <2>2. packets \in [Fifos -> Seq(AfqPacket)]
      BY <1>1, <2>1
    <2>3. QED
      BY <1>1, <2>1, <2>2 DEF CalendarTypes
  <1>3. \A k \in Fifos : Ahead(packets, currQ, k) = <<>>
    BY <1>1, <1>2, CalendarTyped DEF Ahead
  <1>4. \A f \in AfqFlows, k \in Fifos : Share(packets, currQ, roundBytes, f, k) = 0
    <2> TAKE f \in AfqFlows, k \in Fifos
    <2>1. FlowBytes(<<>>, f) = 0
      <3>1. <<>> \in Seq(AfqPacket)
        OBVIOUS
      <3>2. QED
        BY <3>1, FlowBytesIs
    <2>2. roundBytes[f] = 0
      BY <1>1
    <2>3. QED
      BY <1>3, <2>1, <2>2 DEF Share
  <1>5. Covered(packets, sketch, currQ, nRounds, roundBytes)
        /\ Bounded(packets, currQ, roundBytes) /\ InOrder(packets, currQ)
    <2>1. 0 < BytesPerRound + AfqLargest /\ ~(0 > 0)
      BY AfqConstants
    <2>2. QED
      BY <1>3, <1>4, <2>1 DEF Covered, Bounded, InOrder
  <1>6. Numbered(packets, arrived) /\ SendsOldest(packets, currQ, pending)
    BY <1>1 DEF Numbered, SendsOldest
  <1>7. QED
    BY <1>1, <1>2, <1>5, <1>6 DEF AprxInv, Calendar

\* receivePacket, with its drop or the service it may begin, preserves the
\* invariant.
LEMMA AprxArrives == AprxInv /\ AFQ!ReceivePacket => AprxInv'
  <1> SUFFICES ASSUME AprxInv, AFQ!ReceivePacket PROVE AprxInv'
    OBVIOUS
  <1>1. /\ arrived \in Nat /\ arrived' = arrived + 1
        /\ Calendar(packets, sketch, currQ, nRounds, roundBytes)
        /\ Numbered(packets, arrived) /\ SendsOldest(packets, currQ, pending)
    BY DEF AprxInv, AFQ!ReceivePacket
  <1>2. PICK f \in AfqFlows, size \in Sizes :
           IF queuesize + size > MaxSize \/ AFQ!TooFarAhead(f) THEN AFQ!Drop
           ELSE AFQ!Enqueue(f, size)
    BY DEF AFQ!ReceivePacket
  <1>3. roundBytes' = IF nRounds' # nRounds THEN [g \in AfqFlows |-> 0] ELSE roundBytes
    BY DEF AFQ!ReceivePacket
  <1>4. CASE AFQ!Drop
    <2>1. /\ packets' = packets /\ sketch' = sketch /\ currQ' = currQ
          /\ nRounds' = nRounds /\ pending' = pending
      BY <1>4 DEF AFQ!Drop
    <2>2. roundBytes' = roundBytes
      BY <1>3, <2>1
    <2>3. Numbered(packets, arrived')
      <3>1. \A x : x \in 1 .. arrived => x \in 1 .. arrived'
        BY <1>1
      <3>2. QED
        BY <1>1, <3>1 DEF Numbered
    <2>4. QED
      BY <1>1, <2>1, <2>2, <2>3 DEF AprxInv
  <1>5. CASE AFQ!Enqueue(f, size) /\ ~AFQ!TooFarAhead(f)
    <2> DEFINE p == [id |-> arrived', flow |-> f, size |-> size]
               pt == [packets EXCEPT ![AFQ!OutQ(f)] = Append(@, p)]
               st == AFQ!Charged(f, AFQ!ChargedBytes(f) + size)
    <2>1. /\ packets' = pt /\ sketch' = st
          /\ IF \A q \in Fifos : packets[q] = <<>> THEN AFQ!BeginService(pt)
             ELSE UNCHANGED <<currQ, nRounds, pending>>
      BY <1>5, AfqConstants DEF AFQ!Enqueue
    <2>2. PICK k \in Fifos :
                 /\ AFQ!OutQ(f) = (currQ + k) % AfqQueues
                 /\ MakesRoom(packets, sketch, currQ, nRounds, roundBytes, st,
                              f, k, size)
      BY <1>1, <1>5, CalendarCharges
    <2>3. p \in AfqPacket /\ p.flow = f /\ p.id = arrived + 1 /\ p.size = size
      BY <1>1 DEF AfqPacket
    <2> HIDE DEF p, st
    <2>4. pt = [packets EXCEPT ![(currQ + k) % AfqQueues] = Append(@, p)]
      BY <2>2
    <2> HIDE DEF pt
    <2>5. /\ Calendar(pt, st, currQ, nRounds, roundBytes)
          /\ Numbered(pt, arrived + 1)
      <3>1. MakesRoom(packets, sketch, currQ, nRounds, roundBytes, st, f, k, p.size)
        BY <2>2, <2>3
      <3>2. QED
        BY <1>1, <2>3, <2>4, <3>1, CalendarTakes
    <2>6. CASE \A q \in Fifos : packets[q] = <<>>
      <3>1. AFQ!BeginService(pt)
        BY <2>1, <2>6
      <3>2. /\ Calendar(pt, st, currQ', nRounds', roundBytes')
            /\ SendsOldest(pt, currQ', pending')
        BY <1>3, <2>5, <3>1, CalendarBegins
      <3>3. QED
        BY <1>1, <2>1, <2>5, <3>2 DEF AprxInv
    <2>7. CASE ~ \A q \in Fifos : packets[q] = <<>>
      <3>1. currQ' = currQ /\ nRounds' = nRounds /\ pending' = pending
        BY <2>1, <2>7
      <3>2. roundBytes' = roundBytes
        BY <1>3, <3>1
      <3>3. /\ packets[currQ] # <<>> /\ pending = Head(packets[currQ]).id
            /\ packets \in [Fifos -> Seq(AfqPacket)] /\ currQ \in Fifos
            /\ (currQ + k) % AfqQueues \in Fifos
        BY <1>1, <2>7, CalendarTyped DEF SendsOldest, Calendar, CalendarTypes
      <3>4. pt[currQ] # <<>> /\ Head(pt[currQ]) = Head(packets[currQ])
        <4>1. CASE currQ = (currQ + k) % AfqQueues
          <5>1. pt[currQ] = Append(packets[currQ], p)
            BY <2>4, <3>3, <4>1
          <5>2. packets[currQ] \in Seq(AfqPacket)
            BY <3>3
          <5>3. QED
            BY <2>3, <3>3, <5>1, <5>2, AppendProperties, HeadTailAppend
        <4>2. CASE currQ # (currQ + k) % AfqQueues
          BY <2>4, <3>3, <4>2
        <4>3. QED
          BY <4>1, <4>2
      <3>5. SendsOldest(pt, currQ, pending)
        BY <3>3, <3>4 DEF SendsOldest
      <3>6. QED
        BY <1>1, <2>1, <2>5, <3>1, <3>2, <3>5 DEF AprxInv
    <2>8. QED
      BY <2>6, <2>7
  <1>6. QED
    BY <1>2, <1>4, <1>5

\* completeService, with the rotation of the calendar, preserves the invariant.
LEMMA AprxServes == AprxInv /\ AFQ!CompleteService => AprxInv'
  <1> SUFFICES ASSUME AprxInv, AFQ!CompleteService PROVE AprxInv'
    OBVIOUS
  <1> DEFINE p == Head(packets[currQ])
             pt == [packets EXCEPT ![currQ] = Tail(@)]
             rt == [f \in AfqFlows |-> roundBytes[f] + (IF f = p.flow THEN p.size ELSE 0)]
  <1>1. /\ arrived \in Nat /\ arrived' = arrived /\ pending # 0 /\ sketch' = sketch
        /\ Calendar(packets, sketch, currQ, nRounds, roundBytes)
        /\ Numbered(packets, arrived) /\ SendsOldest(packets, currQ, pending)
        /\ packets' = pt /\ AFQ!BeginService(pt)
    BY DEF AprxInv, AFQ!CompleteService
  <1>2. packets[currQ] # <<>>
    BY <1>1 DEF SendsOldest
  <1>3. roundBytes' = IF nRounds' # nRounds THEN [f \in AfqFlows |-> 0] ELSE rt
    <2>1. roundBytes' = [f \in AfqFlows |->
              IF nRounds' # nRounds THEN 0
              ELSE roundBytes[f] + (IF f = p.flow THEN p.size ELSE 0)]
      BY DEF AFQ!CompleteService
    <2>2. QED
      BY <2>1
  <1>4. Calendar(pt, sketch, currQ, nRounds, rt)
    <2>1. PICK q, r, z : q = p /\ r = pt /\ z = rt
      OBVIOUS
    <2>2. Calendar(r, sketch, currQ, nRounds, z)
      BY <1>1, <1>2, <2>1, CalendarSends
    <2>3. QED
      BY <2>1, <2>2
  <1>5. Numbered(pt, arrived)
    <2> SUFFICES ASSUME NEW q \in Fifos, NEW i \in 1 .. Len(pt[q])
                 PROVE  pt[q][i].id \in 1 .. arrived
      BY DEF Numbered
    <2>1. /\ packets \in [Fifos -> Seq(AfqPacket)] /\ currQ \in Fifos
          /\ packets[q] \in Seq(AfqPacket)
      BY <1>1 DEF Calendar, CalendarTypes
    <2>2. CASE q # currQ
      BY <1>1, <2>1, <2>2 DEF Numbered
    <2>3. CASE q = currQ
      <3>1. pt[q] = Tail(packets[q]) /\ packets[q] # <<>>
        BY <1>2, <2>1, <2>3
      <3>2. /\ i + 1 \in 1 .. Len(packets[q]) /\ pt[q][i] = packets[q][i + 1]
        <4> HIDE DEF pt
        <4>1. QED
          BY <2>1, <3>1, HeadTailProperties
      <3>3. QED
        BY <1>1, <3>2 DEF Numbered
    <2>4. QED
      BY <2>2, <2>3
  <1> HIDE DEF p, pt, rt
  <1>6. /\ Calendar(pt, sketch, currQ', nRounds', roundBytes')
        /\ SendsOldest(pt, currQ', pending')
    BY <1>1, <1>3, <1>4, CalendarBegins
  <1>7. QED
    BY <1>1, <1>5, <1>6 DEF AprxInv

\* The inductive invariant of an AprxFairQueue.
THEOREM AprxFairQueueKeepsRounds == Spec => [](discipline = "afq" => AprxInv)
  <1> DEFINE Inv == discipline = "afq" => AprxInv
  <1>1. Init => Inv
    BY AprxInit DEF Init
  <1>2. Inv /\ [Next]_vars => Inv'
    <2> SUFFICES ASSUME Inv, [Next]_vars, discipline' = "afq" PROVE AprxInv'
      OBVIOUS
    <2>1. CASE AprxStep
      <3>1. AprxInv /\ AFQ!Next
        BY <2>1 DEF AprxStep
      <3>2. QED
        BY <3>1, AprxArrives, AprxServes DEF AFQ!Next
    <2>2. CASE PriorityStep \/ FairStep \/ StocStep
      BY <2>2 DEF PriorityStep, FairStep, StocStep
    <2>3. CASE UNCHANGED vars
      <3>1. /\ discipline' = discipline /\ arrived' = arrived /\ packets' = packets
            /\ sketch' = sketch /\ currQ' = currQ /\ nRounds' = nRounds
            /\ roundBytes' = roundBytes /\ pending' = pending
        BY <2>3 DEF vars, afqOnly
      <3>2. AprxInv
        BY <3>1
      <3>3. QED
        BY <3>1, <3>2 DEF AprxInv
    <2>4. QED
      BY <2>1, <2>2, <2>3 DEF Next
  <1>3. QED
    BY <1>1, <1>2, PTL DEF Spec

\* A flow's bytes are the same operator in AprxFairQueue and here.
LEMMA AprxFlowBytes == \A q, f : AFQ!FlowBytes(q, f) = FlowBytes(q, f)
  BY DEF AFQ!FlowBytes, FlowBytes, AFQ!Total, Total

\* A queue of the calendar is the same operator in AprxFairQueue and here.
LEMMA AprxAhead == \A k : AFQ!Ahead(k) = Ahead(packets, currQ, k)
  BY DEF AFQ!Ahead, Ahead

\* In a state of the invariant the sketch has charged a flow up to the round of
\* each of its packets that waits.
LEMMA AprxCovers == AprxInv => AFQ!SketchCoversQueue
  <1> SUFFICES ASSUME AprxInv, NEW k \in Fifos,
                      NEW i \in 1 .. Len(Ahead(packets, currQ, k))
               PROVE  AFQ!FlowRound(Ahead(packets, currQ, k)[i].flow) >= nRounds + k
    BY AfqConstants, AprxAhead DEF AFQ!SketchCoversQueue
  <1> DEFINE q == Ahead(packets, currQ, k)
             f == q[i].flow
             B == BytesPerRound
             r == AFQ!FlowRound(f)
             s == Share(packets, currQ, roundBytes, f, k)
             m == nRounds + k
  <1>1. /\ CalendarTypes(packets, sketch, currQ, nRounds, roundBytes)
        /\ Covered(packets, sketch, currQ, nRounds, roundBytes)
    BY DEF AprxInv, Calendar
  <1>2. q \in Seq(AfqPacket)
    BY <1>1, CalendarTyped
  <1>3. f \in AfqFlows
    <2>1. q[i] \in AfqPacket
      BY <1>2
    <2> HIDE DEF q
    <2>2. QED
      BY <2>1 DEF AfqPacket
  <1>4. s \in Nat /\ s > 0
    <2>1. FlowBytes(q, f) \in Nat /\ FlowBytes(q, f) > 0
      BY <1>2, FlowBytesIs
    <2>2. roundBytes[f] \in Nat
      BY <1>1, <1>3 DEF CalendarTypes
    <2>3. s = FlowBytes(q, f) + (IF k = 0 THEN roundBytes[f] ELSE 0)
      BY DEF Share
    <2> HIDE DEF s, q, f
    <2>4. QED
      BY <2>1, <2>2, <2>3
  <1>5. \A j \in Rows : Charge(sketch, f, j) >= m * B + s
    <2> HIDE DEF f
    <2>1. QED
      BY <1>1, <1>3, <1>4 DEF Covered
  <1>6. /\ r \in Nat /\ AFQ!Bytes(f) < (r + 1) * B /\ AFQ!Bytes(f) \in Nat
        /\ \E j \in Rows : AFQ!Bytes(f) = Charge(sketch, f, j)
    <2> HIDE DEF f
    <2>1. sketch \in [Rows -> [AFQ!Buckets -> Nat]]
      BY <1>1 DEF CalendarTypes
    <2>2. QED
      BY <1>3, <2>1, FlowRoundIs
  <1>7. m \in Int /\ B \in Nat
    BY <1>1, AfqConstants DEF CalendarTypes, Fifos
  <1> HIDE DEF f, r, s, m, B
  <1>8. AFQ!Bytes(f) >= m * B + s
    BY <1>5, <1>6
  <1>9. m * B \in Int /\ (r + 1) * B \in Int
    BY <1>6, <1>7
  <1>10. m * B < (r + 1) * B
    BY <1>4, <1>6, <1>8, <1>9
  <1>11. ~(r + 1 <= m)
    <2>1. r + 1 \in Int /\ (r + 1 <= m => (r + 1) * B <= m * B)
      BY <1>6, <1>7, Mono
    <2>2. QED
      BY <1>9, <1>10, <2>1
  <1>12. r >= m
    BY <1>6, <1>7, <1>11
  <1>13. QED
    BY <1>12 DEF r, f, m

\* The sketch has charged the round of every packet that waits.
THEOREM SketchCovers == Spec => []SketchCoversQueue
  <1>1. (discipline = "afq" => AprxInv) => SketchCoversQueue
    BY AprxCovers DEF SketchCoversQueue
  <1>2. QED
    BY <1>1, AprxFairQueueKeepsRounds, PTL

\* In a state of the invariant the packets of a flow are in the calendar in the
\* order they came.
LEMMA AprxOrder == AprxInv => AFQ!FlowsInOrder
  BY AfqConstants, AprxAhead DEF AprxInv, Calendar, InOrder, AFQ!FlowsInOrder

\* In a state of the invariant no flow has more than its share in a round.
LEMMA AprxShare == AprxInv => AFQ!RoundShare
  <1> SUFFICES ASSUME AprxInv, NEW f \in AfqFlows, NEW k \in Fifos
               PROVE  FlowBytes(Ahead(packets, currQ, k), f)
                          + (IF k = 0 THEN roundBytes[f] ELSE 0)
                      < BytesPerRound + AfqLargest
    BY AfqConstants, AprxAhead, AprxFlowBytes DEF AFQ!RoundShare, AfqLargest
  <1>1. Share(packets, currQ, roundBytes, f, k) < BytesPerRound + AfqLargest
    BY DEF AprxInv, Calendar, Bounded
  <1>2. QED
    BY <1>1 DEF Share

----------------------------------------------------------------------------
(* Every discipline *)

\* Every discipline keeps its shares: of two flows, or two queues, that wait
\* none gets ahead of the other by more than it may.
THEOREM SharesAreFair == Spec => []FairShare
  <1>1. /\ discipline = "fq" => FairInv
        /\ discipline = "sfq" => StocInv
        /\ discipline = "afq" => AprxInv
        => FairShare
    BY FairLeads, StocShare, AprxShare DEF FairShare
  <1>2. QED
    BY <1>1, FairQueueKeepsRounds, StocFairQueueIsFair,
       AprxFairQueueKeepsRounds, PTL

\* A FairQueue and an AprxFairQueue send the packets of a flow in the order in
\* which they came, also when they drop some or share buckets.
THEOREM FlowsKeepOrder == Spec => []FlowsInOrder
  <1>1. /\ discipline = "fq" => FairInv
        /\ discipline = "afq" => AprxInv
        => FlowsInOrder
    BY FairOrder, AprxOrder DEF FlowsInOrder
  <1>2. QED
    BY <1>1, FairQueueKeepsRounds, AprxFairQueueKeepsRounds, PTL

----------------------------------------------------------------------------
(* PriorityQueue *)

\* The bytes of the packets in a queue, from its head on.
LEMMA SizesAdd ==
    ASSUME NEW S, \A p \in S : p.size \in Nat, NEW q \in Seq(S)
    PROVE  /\ SizeOf(q) \in Nat
           /\ q = <<>> => SizeOf(q) = 0
           /\ q # <<>> => SizeOf(q) = Head(q).size + SizeOf(Tail(q))
  <1>1. PICK b, c, s \in [S -> Nat] : Weigh(S, 0, b, c, s)
    BY Weights
  <1>2. /\ \A p \in S : s[p] = p.size
        /\ \A t \in Seq(S) : SizeOf(t) = Over(t, s) /\ Over(t, s) \in Nat
    BY <1>1, OverType DEF Weigh
  <1>3. q = <<>> => SizeOf(q) = 0
    BY TotalEmpty DEF SizeOf
  <1>4. ASSUME q # <<>> PROVE SizeOf(q) = Head(q).size + SizeOf(Tail(q))
    <2>1. Head(q) \in S /\ Tail(q) \in Seq(S)
      BY <1>4, HeadTailProperties
    <2>2. Over(q, s) = s[Head(q)] + Over(Tail(q), s)
      BY <1>4, OverTail
    <2>3. SizeOf(q) = Over(q, s) /\ SizeOf(Tail(q)) = Over(Tail(q), s)
          /\ s[Head(q)] = Head(q).size
      BY <1>2, <2>1
    <2>4. QED
      BY <2>2, <2>3, Zenon
  <1>5. QED
    BY <1>2, <1>3, <1>4

PqPacket == [id : Nat, size : Sizes, priority : Priorities]

ByPriority(q) ==
    \A i, j \in 1 .. Len(q) : i < j => q[i].priority <= q[j].priority

\* The packet being sent is the one pending.  A queue that was built with an
\* unassigned _currentPkt never starts to send.
PqSends ==
    IF pending = 0
    THEN /\ queuesize = SizeOf(packets)
         /\ \/ currentPkt = PQ!Null /\ packets = <<>>
            \/ currentPkt = PQ!Garbage /\ ~ZeroedMemory
    ELSE /\ currentPkt \in PqPacket /\ pending = currentPkt.id
         /\ queuesize = currentPkt.size + SizeOf(packets)

PqInv ==
    /\ arrived \in Nat /\ packets \in Seq(PqPacket)
    /\ Serving(packets, pending, arrived) /\ ByPriority(packets)
    /\ lost \subseteq 1 .. arrived /\ IdsIn(packets) \cap lost = {}
    /\ PqSends

\* Sizes are positive and bounded, and what the fields of a packet range over.
LEMMA PqConstants ==
    /\ MaxSize \in Nat
    /\ \A p \in PqPacket : /\ p.size \in Nat /\ p.size <= MaxSize
                           /\ p.id \in Nat /\ p.priority \in Nat
  BY SchedulerAssumption, FqConstants DEF PQ!PriorityAssumption, PqPacket

\* multiset::insert keeps the order of priorities.
LEMMA PqInserts ==
    ASSUME NEW q \in Seq(PqPacket), ByPriority(q), NEW p \in PqPacket,
           NEW t, t = PQ!Insert(q, p)
    PROVE  /\ t \in Seq(PqPacket) /\ ByPriority(t)
           /\ \E at : Spliced(q, at, p, t)
  <1> DEFINE I == {i \in 1 .. Len(q) : q[i].priority > p.priority}
  <1>1. /\ Len(q) \in Nat /\ p.priority \in Nat
        /\ \A i \in 1 .. Len(q) : q[i].priority \in Nat
    BY PqConstants
  <1>2. PICK at \in 1 .. Len(q) + 1 :
              /\ t = InsertAt(q, at, p)
              /\ \A i \in 1 .. Len(q) : i < at => q[i].priority <= p.priority
              /\ at \in 1 .. Len(q) => p.priority < q[at].priority
    <2>1. \A r, i, e : PQ!InsertAt(r, i, e) = InsertAt(r, i, e)
      BY DEF PQ!InsertAt, InsertAt
    <2>2. PICK sel : sel = IF I # {} THEN PQ!Min(I) ELSE 0
      OBVIOUS
    <2>3. t = InsertAt(q, IF sel = 0 THEN Len(q) + 1 ELSE sel, p)
      <3>1. t = PQ!InsertAt(q, IF (IF I # {} THEN PQ!Min(I) ELSE 0) = 0
                               THEN Len(q) + 1
                               ELSE (IF I # {} THEN PQ!Min(I) ELSE 0), p)
        BY DEF PQ!Insert, PQ!SelectInSeq
      <3>2. QED
        BY <2>1, <2>2, <3>1, Zenon
    <2>4. CASE I = {}
      <3>1. t = InsertAt(q, Len(q) + 1, p)
        BY <2>2, <2>3, <2>4
      <3>2. \A i \in 1 .. Len(q) : q[i].priority <= p.priority
        BY <1>1, <2>4
      <3>3. Len(q) + 1 \in 1 .. Len(q) + 1 /\ Len(q) + 1 \notin 1 .. Len(q)
        BY <1>1
      <3>4. QED
        BY <3>1, <3>2, <3>3
    <2>5. CASE I # {}
      <3>1. I \in SUBSET Nat
        BY <1>1
      <3> HIDE DEF I
      <3>2. PICK x \in I : \A y \in I : x <= y
        BY <2>5, <3>1, Least
      <3>3. PQ!Min(I) \in I /\ \A y \in I : PQ!Min(I) <= y
        BY <3>2 DEF PQ!Min
      <3>4. sel \in I /\ \A y \in I : sel <= y
        BY <2>2, <2>5, <3>3
      <3>5. sel \in 1 .. Len(q) /\ q[sel].priority > p.priority
        BY <3>4 DEF I
      <3>6. sel # 0 /\ sel \in 1 .. Len(q) + 1 /\ p.priority < q[sel].priority
        BY <1>1, <3>5
      <3>7. t = InsertAt(q, sel, p)
        BY <2>3, <3>6
      <3>8. ASSUME NEW i \in 1 .. Len(q), i < sel
            PROVE  q[i].priority <= p.priority
        <4>1. i \notin I
          BY <3>4, <3>5, <3>8
        <4>2. QED
          BY <1>1, <4>1 DEF I
      <3>9. QED
        BY <3>6, <3>7, <3>8
    <2>6. QED
      BY <2>4, <2>5
  <1>3. t \in Seq(PqPacket) /\ Spliced(q, at, p, t)
    BY <1>2, InsertAtSplices
  <1>4. ByPriority(t)
    <2>1. /\ Len(t) = Len(q) + 1 /\ t[at] = p
          /\ \A j \in 1 .. Len(t) :
                \/ j = at
                \/ j < at /\ j \in 1 .. Len(q) /\ t[j] = q[j]
                \/ at < j /\ j - 1 \in 1 .. Len(q) /\ t[j] = q[j - 1]
      BY <1>3 DEF Spliced
    <2>2. ASSUME NEW i \in 1 .. Len(q) PROVE i < at \/ p.priority < q[i].priority
      <3>1. ~(i < at) => at \in 1 .. Len(q) /\ (at = i \/ at < i)
        BY <1>1, <1>2
      <3>2. at \in 1 .. Len(q) /\ at < i => q[at].priority <= q[i].priority
        BY DEF ByPriority
      <3>3. QED
        BY <1>1, <1>2, <3>1, <3>2
    <2>3. ASSUME NEW i \in 1 .. Len(t), NEW j \in 1 .. Len(t), i < j
          PROVE  t[i].priority <= t[j].priority
      <3>1. CASE i = at
        <4>1. j - 1 \in 1 .. Len(q) /\ t[j] = q[j - 1] /\ ~(j - 1 < at)
          BY <1>1, <2>1, <2>3, <3>1
        <4>2. p.priority < q[j - 1].priority
          BY <2>2, <4>1
        <4>3. QED
          BY <1>1, <2>1, <3>1, <4>1, <4>2
      <3>2. CASE j = at
        <4>1. i \in 1 .. Len(q) /\ t[i] = q[i]
          BY <1>1, <2>1, <2>3, <3>2
        <4>2. q[i].priority <= p.priority
          BY <1>2, <2>3, <3>2, <4>1
        <4>3. QED
          BY <2>1, <3>2, <4>1, <4>2
      <3>3. CASE i # at /\ j # at
        <4>1. PICK a \in 1 .. Len(q) : t[i] = q[a] /\ a = IF i < at THEN i ELSE i - 1
          BY <2>1, <3>3
        <4>2. PICK b \in 1 .. Len(q) : t[j] = q[b] /\ b = IF j < at THEN j ELSE j - 1
          BY <2>1, <3>3
        <4>3. i \in Nat /\ j \in Nat /\ at \in Nat
          BY <1>1
        <4>4. a < b
          BY <2>3, <3>3, <4>1, <4>2, <4>3
        <4>5. QED
          BY <4>1, <4>2, <4>4 DEF ByPriority
      <3>4. QED
        BY <3>1, <3>2, <3>3
    <2>4. QED
      BY <2>3 DEF ByPriority
  <1>5. QED
    BY <1>3, <1>4

\* What a PriorityQueue does with a packet p that arrives: the queue with it,
\* the packets kept, and the identities of those dropped.
PqAccepts(p, queue, k, kept, drops) ==
    /\ queue = PQ!Insert(packets, p)
    /\ k = PQ!Kept(queue, queuesize - SizeOf(packets))
    /\ kept = SubSeq(queue, 1, k)
    /\ Dropped(queue, k, drops)
    /\ queuesize' = (queuesize - SizeOf(packets)) + SizeOf(kept)
    /\ lost' = lost \cup drops
    /\ IF currentPkt = PQ!Null /\ packets = <<>>
       THEN PQ!BeginService(kept)
       ELSE packets' = kept /\ UNCHANGED <<currentPkt, pending>>

\* The sum of sizes is the same operator in PriorityQueue and here.
LEMMA PqSizeOf == \A q : PQ!SizeOf(q) = SizeOf(q)
  BY DEF PQ!SizeOf, SizeOf, PQ!Total, Total

\* The number of packets kept is the same operator in PriorityQueue and in
\* FairQueue.
LEMMA PqKept == \A q, used : PQ!Kept(q, used) = FQ!Kept(q, used)
  BY PqSizeOf, FqSizeOf DEF PQ!Kept, FQ!Kept

\* The entry of a packet in one form.
LEMMA PqEnters ==
    ASSUME NEW p, PQ!Enters(p)
    PROVE  \E queue, k, kept, drops : PqAccepts(p, queue, k, kept, drops)
  <1> DEFINE used == queuesize - PQ!SizeOf(packets)
             Body(queue, k, kept) ==
                 /\ queuesize' = used + PQ!SizeOf(kept)
                 /\ lost' = lost \cup {queue[i].id : i \in k + 1 .. Len(queue)}
                 /\ IF currentPkt = PQ!Null /\ packets = <<>>
                    THEN PQ!BeginService(kept)
                    ELSE packets' = kept /\ UNCHANGED <<currentPkt, pending>>
  <1>1. Body(PQ!Insert(packets, p), PQ!Kept(PQ!Insert(packets, p), used),
             SubSeq(PQ!Insert(packets, p), 1,
                    PQ!Kept(PQ!Insert(packets, p), used)))
    BY Zenon DEF PQ!Enters
  <1>2. used = queuesize - SizeOf(packets)
    BY PqSizeOf, Zenon
  <1>3. PICK queue : queue = PQ!Insert(packets, p)
    OBVIOUS
  <1>4. PICK k : k = PQ!Kept(queue, used)
    OBVIOUS
  <1>5. PICK kept, drops : /\ kept = SubSeq(queue, 1, k)
                           /\ drops = {queue[i].id : i \in k + 1 .. Len(queue)}
    OBVIOUS
  <1>6. Body(queue, k, kept)
    BY <1>1, <1>3, <1>4, <1>5, Zenon
  <1>7. PqAccepts(p, queue, k, kept, drops)
    BY <1>2, <1>3, <1>4, <1>5, <1>6, PqSizeOf, Zenon DEF PqAccepts, Dropped
  <1>8. QED
    BY <1>7, Zenon

\* What may arrive is a packet with the next number.
LEMMA PqArriving ==
    ASSUME arrived \in Nat, NEW size \in Sizes, NEW priority \in Priorities
    PROVE  /\ PQ!Arriving(size, priority) \in PqPacket
           /\ PQ!Arriving(size, priority).id = arrived + 1
  BY DEF PQ!Arriving, PqPacket

\* receivePacket is the entry of one such packet.
LEMMA PqReceives ==
    ASSUME PQ!ReceivePacket, arrived \in Nat
    PROVE  /\ arrived' = arrived + 1 /\ served' = served
           /\ \E p \in PqPacket : p.id = arrived + 1 /\ PQ!Enters(p)
  <1>1. arrived' = arrived + 1 /\ served' = served
    BY DEF PQ!ReceivePacket
  <1>2. PICK size \in Sizes, priority \in Priorities :
           PQ!Enters(PQ!Arriving(size, priority))
    BY Zenon DEF PQ!ReceivePacket
  <1>3. QED
    BY <1>1, <1>2, PqArriving, Zenon

\* Of the packets that wait and p, none is lost while a less urgent one waits.
PqSpares(p) ==
    \A q \in {packets[i] : i \in 1 .. Len(packets)} \cup {p} :
        q.id \in lost' => \A j \in 1 .. Len(packets') :
                              packets'[j].priority <= q.priority

\* beginService takes the head of the queue, with its bytes.
LEMMA PqBegins ==
    ASSUME NEW q \in Seq(PqPacket), NEW n \in Nat, Serving(q, 0, n), ByPriority(q),
           PQ!BeginService(q), queuesize' = SizeOf(q)
    PROVE  /\ Begins(q, packets', pending')
           /\ packets' \in Seq(PqPacket) /\ ByPriority(packets') /\ PqSends'
           /\ IdsIn(packets') \subseteq IdsIn(q)
  <1>1. CASE q = <<>>
    <2>1. currentPkt' = PQ!Null /\ pending' = 0 /\ packets' = q
      BY <1>1 DEF PQ!BeginService
    <2>2. QED
      BY <1>1, <2>1 DEF Begins, PqSends
  <1>2. CASE q # <<>>
    <2>1. currentPkt' = Head(q) /\ pending' = Head(q).id /\ packets' = Tail(q)
      BY <1>2 DEF PQ!BeginService
    <2>2. /\ Head(q) = q[1] /\ q[1] \in PqPacket /\ 1 \in 1 .. Len(q)
          /\ Tail(q) \in Seq(PqPacket) /\ Len(q) \in Nat
          /\ \A i \in 1 .. Len(Tail(q)) :
                Tail(q)[i] = q[i + 1] /\ i + 1 \in 1 .. Len(q)
      BY <1>2, HeadTailProperties
    <2>3. Head(q).id # 0
      BY <2>2 DEF Serving
    <2>4. ByPriority(Tail(q))
      <3>1. ASSUME NEW i \in 1 .. Len(Tail(q)), NEW j \in 1 .. Len(Tail(q)), i < j
            PROVE  Tail(q)[i].priority <= Tail(q)[j].priority
        <4>1. i + 1 < j + 1
          BY <3>1
        <4>2. QED
          BY <2>2, <4>1 DEF ByPriority
      <3>2. QED
        BY <3>1 DEF ByPriority
    <2>5. SizeOf(q) = Head(q).size + SizeOf(Tail(q))
      BY <1>2, SizesAdd, PqConstants
    <2>6. PqSends'
      <3>1. /\ currentPkt' \in PqPacket /\ pending' = currentPkt'.id /\ pending' # 0
            /\ queuesize' = currentPkt'.size + SizeOf(packets')
        BY <2>1, <2>2, <2>3, <2>5
      <3>2. QED
        BY <3>1 DEF PqSends
    <2>7. IdsIn(Tail(q)) \subseteq IdsIn(q)
      BY <2>2 DEF IdsIn
    <2>8. Begins(q, packets', pending')
      BY <1>2, <2>1 DEF Begins
    <2>9. QED
      BY <2>1, <2>2, <2>4, <2>6, <2>7, <2>8
  <1>3. QED
    BY <1>1, <1>2

\* The entry of a packet, with its drops and the service it may begin, preserves
\* the invariant, drops the least urgent packets, and is an arrival at a server.
LEMMA PqTakes ==
    ASSUME PqInv, arrived' = arrived + 1,
           NEW p \in PqPacket, p.id = arrived + 1, PQ!Enters(p)
    PROVE  /\ PqInv' /\ PqSpares(p)
           /\ ZeroedMemory => Arrives(HeldIn(packets, pending),
                                      HeldIn(packets', pending'), arrived + 1,
                                      pending, pending', lost, lost')
  <1>1. /\ arrived \in Nat /\ packets \in Seq(PqPacket)
        /\ Serving(packets, pending, arrived) /\ ByPriority(packets)
        /\ lost \subseteq 1 .. arrived /\ IdsIn(packets) \cap lost = {} /\ PqSends
    BY DEF PqInv
  <1>2. arrived' = arrived + 1
    OBVIOUS
  <1>3a. PICK queue, k, kept, drops :
                 p.id = arrived + 1 /\ PqAccepts(p, queue, k, kept, drops)
    BY PqEnters
  <1>4. PICK at : /\ queue \in Seq(PqPacket) /\ ByPriority(queue)
                  /\ Spliced(packets, at, p, queue)
    BY <1>1, <1>3a, PqInserts DEF PqAccepts
  <1>5. PICK used : used = queuesize - SizeOf(packets)
    OBVIOUS
  <1>6. used \in Nat /\ used <= MaxSize /\ (pending = 0 => used = 0)
        /\ (pending # 0 => used = currentPkt.size)
    <2>1. SizeOf(packets) \in Nat /\ MaxSize \in Nat
      BY <1>1, SizesAdd, PqConstants
    <2>2. CASE pending = 0
      BY <1>1, <1>5, <2>1, <2>2 DEF PqSends
    <2>3. CASE pending # 0
      <3>1. currentPkt.size \in Nat /\ currentPkt.size <= MaxSize
            /\ queuesize = currentPkt.size + SizeOf(packets)
        BY <1>1, <2>3, PqConstants DEF PqSends
      <3>2. QED
        BY <1>5, <2>1, <2>3, <3>1
    <2>4. QED
      BY <2>2, <2>3
  <1>7. k \in 0 .. Len(queue)
    <2>1. k = FQ!Kept(queue, used)
      BY <1>3a, <1>5, PqKept DEF PqAccepts
    <2>2. QED
      BY <1>4, <1>6, <2>1, KeptIs, PqConstants
  <1>8. /\ kept = SubSeq(queue, 1, k) /\ Dropped(queue, k, drops)
        /\ queuesize' = used + SizeOf(kept) /\ lost' = lost \cup drops
        /\ IF currentPkt = PQ!Null /\ packets = <<>>
           THEN PQ!BeginService(kept)
           ELSE packets' = kept /\ currentPkt' = currentPkt /\ pending' = pending
    BY <1>3a, <1>5 DEF PqAccepts
  <1>9. IdsIn(queue) = IdsIn(packets) \cup {arrived + 1}
        /\ Serving(queue, pending, arrived + 1)
    BY <1>1, <1>3a, <1>4, IdsSpliced
  <1>10. /\ kept \in Seq(PqPacket) /\ Serving(kept, pending, arrived + 1)
         /\ IdsIn(kept) = IdsIn(queue) \ drops /\ drops \subseteq IdsIn(queue)
    <2>1. PICK m : m = arrived + 1 /\ Serving(queue, pending, m)
      BY <1>9
    <2>2. /\ SubSeq(queue, 1, k) \in Seq(PqPacket)
          /\ Serving(SubSeq(queue, 1, k), pending, m)
          /\ IdsIn(SubSeq(queue, 1, k)) = IdsIn(queue) \ drops /\ drops \subseteq IdsIn(queue)
      BY <1>4, <1>7, <1>8, <2>1, IdsKept, Zenon
    <2>3. QED
      BY <1>8, <2>1, <2>2, Zenon
  <1>11. /\ Len(kept) = k /\ \A j \in 1 .. k : kept[j] = queue[j]
         /\ k \in Nat /\ Len(queue) \in Nat /\ k <= Len(queue)
    BY <1>4, <1>7, <1>8, Split
  <1>12. ByPriority(kept)
    BY <1>4, <1>11 DEF ByPriority
  <1>13. lost' \subseteq 1 .. arrived' /\ IdsIn(kept) \cap lost' = {}
    <2>1. drops \subseteq 1 .. arrived + 1
      BY <1>9, <1>10 DEF Serving, IdsIn
    <2>2. arrived + 1 \notin lost /\ \A x \in lost : x \in 1 .. arrived + 1
      BY <1>1
    <2>3. IdsIn(kept) \cap lost = {}
      BY <1>1, <1>9, <1>10, <2>2
    <2>4. QED
      BY <1>2, <1>8, <1>10, <2>1, <2>2, <2>3
  <1>14. currentPkt = PQ!Null /\ packets = <<>> => pending = 0
    BY <1>1 DEF PqSends, PQ!Null
  <1>15. /\ packets' \in Seq(PqPacket) /\ ByPriority(packets') /\ PqSends'
         /\ IdsIn(packets') \subseteq IdsIn(kept)
         /\ currentPkt = PQ!Null /\ packets = <<>> => Begins(kept, packets', pending')
    <2>1. CASE currentPkt = PQ!Null /\ packets = <<>>
      <3>1. PICK m \in Nat : m = arrived + 1 /\ Serving(kept, 0, m)
        BY <1>1, <1>10, <1>14, <2>1
      <3>2. queuesize' = SizeOf(kept)
        <4>1. SizeOf(kept) \in Nat
          BY <1>10, SizesAdd, PqConstants
        <4>2. QED
          BY <1>6, <1>8, <1>14, <2>1, <4>1
      <3>3. PQ!BeginService(kept)
        BY <1>8, <2>1
      <3>4. QED
        BY <1>10, <1>12, <3>1, <3>2, <3>3, PqBegins
    <2>2. CASE ~(currentPkt = PQ!Null /\ packets = <<>>)
      <3>1. packets' = kept /\ currentPkt' = currentPkt /\ pending' = pending
        BY <1>8, <2>2
      <3>2. PqSends'
        <4>1. CASE pending = 0
          <5>1. SizeOf(kept) \in Nat
            BY <1>10, SizesAdd, PqConstants
          <5>2. queuesize' = SizeOf(kept)
            BY <1>6, <1>8, <4>1, <5>1
          <5>3. currentPkt = PQ!Garbage /\ ~ZeroedMemory
            BY <1>1, <2>2, <4>1 DEF PqSends
          <5>4. QED
            BY <3>1, <4>1, <5>2, <5>3 DEF PqSends
        <4>2. CASE pending # 0
          <5>1. currentPkt \in PqPacket /\ pending = currentPkt.id
            BY <1>1, <4>2 DEF PqSends
          <5>2. queuesize' = currentPkt.size + SizeOf(kept)
            BY <1>6, <1>8, <4>2
          <5>3. QED
            BY <3>1, <4>2, <5>1, <5>2 DEF PqSends
        <4>3. QED
          BY <4>1, <4>2
      <3>3. QED
        BY <1>10, <1>12, <2>2, <3>1, <3>2
    <2>3. QED
      BY <2>1, <2>2
  <1>16. \/ /\ pending = 0 /\ packets = <<>>
            /\ Begins(SubSeq(queue, 1, k), packets', pending')
         \/ packets' = SubSeq(queue, 1, k) /\ pending' = pending
    BY <1>8, <1>14, <1>15
  <1>17. /\ Serving(packets', pending', arrived + 1)
         /\ pending # 0 \/ Begins(kept, packets', pending')
              => Arrives(HeldIn(packets, pending), HeldIn(packets', pending'),
                         arrived + 1, pending, pending', lost, lost')
    <2>1. PICK q1, c1, l, l1 : /\ q1 = packets' /\ c1 = pending'
                               /\ l = lost /\ l1 = lost' /\ l1 = l \cup drops
      BY <1>8
    <2>2. \/ pending = 0 /\ packets = <<>> /\ Begins(SubSeq(queue, 1, k), q1, c1)
          \/ q1 = SubSeq(queue, 1, k) /\ c1 = pending
      BY <1>16, <2>1, Zenon
    <2>3. /\ Serving(q1, c1, arrived + 1)
          /\ pending # 0 \/ Begins(SubSeq(queue, 1, k), q1, c1)
              => Arrives(HeldIn(packets, pending), HeldIn(q1, c1), arrived + 1,
                         pending, c1, l, l \cup drops)
      BY <1>1, <1>3a, <1>4, <1>7, <1>8, <2>2, QueueTakes
    <2>4. QED
      BY <1>8, <2>1, <2>3, Zenon
  <1>18. ZeroedMemory => pending # 0 \/ Begins(kept, packets', pending')
    BY <1>1, <1>15 DEF PqSends
  <1>19. PqInv'
    <2>1. arrived' \in Nat
      BY <1>1, <1>2
    <2>2. Serving(packets', pending', arrived')
      BY <1>2, <1>17
    <2>3. QED
      BY <1>13, <1>15, <2>1, <2>2 DEF PqInv
  <1>20. PqSpares(p)
    <2> SUFFICES ASSUME NEW q \in {packets[i] : i \in 1 .. Len(packets)} \cup {p},
                        q.id \in lost', NEW j \in 1 .. Len(packets')
                 PROVE  packets'[j].priority <= q.priority
      BY DEF PqSpares
    <2>1. PICK b \in 1 .. Len(queue) : queue[b] = q
      <3>1. /\ \A i \in 1 .. Len(packets) :
                  IF i < at THEN queue[i] = packets[i] ELSE queue[i + 1] = packets[i]
            /\ at \in 1 .. Len(packets) + 1 /\ queue[at] = p
            /\ Len(queue) = Len(packets) + 1 /\ Len(packets) \in Nat
        BY <1>1, <1>4 DEF Spliced
      <3>2. ASSUME NEW i \in 1 .. Len(packets), q = packets[i]
            PROVE  \E c \in 1 .. Len(queue) : queue[c] = q
        <4>1. i \in 1 .. Len(queue) /\ i + 1 \in 1 .. Len(queue)
          BY <3>1
        <4>2. queue[i] = q \/ queue[i + 1] = q
          BY <3>1, <3>2
        <4>3. QED
          BY <4>1, <4>2
      <3>3. QED
        BY <3>1, <3>2
    <2>2. q.id \in drops
      <3>1. q.id \notin lost
        <4>1. \A i \in 1 .. Len(packets) : packets[i].id \notin lost
          BY <1>1 DEF IdsIn
        <4>2. p.id \notin lost
          BY <1>1, <1>3a
        <4>3. QED
          BY <4>1, <4>2
      <3>2. QED
        BY <1>8, <3>1
    <2>3. PICK a \in k + 1 .. Len(queue) : queue[a].id = q.id
      BY <1>8, <2>2 DEF Dropped
    <2>4. a \in 1 .. Len(queue) /\ a = b
      <3>1. a \in 1 .. Len(queue)
        BY <1>11
      <3>2. QED
        BY <1>9, <2>1, <2>3, <3>1 DEF Serving
    <2>5. packets' = kept
      <3>1. CASE currentPkt = PQ!Null /\ packets = <<>>
        <4>1. Len(queue) = 1
          BY <1>4, <3>1 DEF Spliced
        <4>2. Len(kept) = 0 /\ kept = <<>>
          BY <1>10, <1>11, <2>3, <4>1
        <4>3. QED
          BY <1>15, <3>1, <4>2 DEF Begins
      <3>2. QED
        BY <1>8, <3>1
    <2>6. j \in 1 .. Len(queue) /\ j < a /\ packets'[j] = queue[j]
      BY <1>11, <2>3, <2>5
    <2>7. QED
      BY <1>4, <2>1, <2>4, <2>6 DEF ByPriority
  <1>21. QED
    BY <1>2, <1>17, <1>18, <1>19, <1>20

\* So does receivePacket, whatever packet it is that arrives.
LEMMA PqArrives ==
    ASSUME PqInv, PQ!ReceivePacket
    PROVE  /\ PqInv' /\ PQ!LeastUrgentGoes
           /\ arrived' = arrived + 1 /\ served' = served
           /\ ZeroedMemory => Arrives(HeldIn(packets, pending),
                                      HeldIn(packets', pending'), arrived + 1,
                                      pending, pending', lost, lost')
  <1>1. arrived \in Nat
    BY DEF PqInv
  <1>2. arrived' = arrived + 1 /\ served' = served
    BY <1>1, PqReceives
  <1>3. PICK p \in PqPacket : p.id = arrived + 1 /\ PQ!Enters(p)
    BY <1>1, PqReceives
  <1>4. PQ!LeastUrgentGoes
    <2>1. ASSUME NEW size \in Sizes, NEW priority \in Priorities,
                 NEW q, q = PQ!Arriving(size, priority), PQ!Enters(q)
          PROVE  PqSpares(q)
      <3>1. q \in PqPacket /\ q.id = arrived + 1
        BY <1>1, <2>1, PqArriving, Zenon
      <3>2. QED
        BY <1>2, <2>1, <3>1, PqTakes, Zenon
    <2>2. QED
      BY <2>1, Zenon DEF PQ!LeastUrgentGoes, PqSpares
  <1>5. QED
    BY <1>2, <1>3, <1>4, PqTakes, Zenon

\* completeService, with the service it begins, preserves the invariant and is
\* a departure from a server.
LEMMA PqServes ==
    ASSUME PqInv, PQ!CompleteService
    PROVE  /\ PqInv' /\ arrived' = arrived /\ lost' = lost
           /\ served' = served \cup {pending}
           /\ Departs(HeldIn(packets, pending), HeldIn(packets', pending'),
                      pending, pending')
  <1>1. /\ arrived \in Nat /\ packets \in Seq(PqPacket)
        /\ Serving(packets, pending, arrived) /\ ByPriority(packets)
        /\ lost \subseteq 1 .. arrived /\ IdsIn(packets) \cap lost = {} /\ PqSends
    BY DEF PqInv
  <1>2. /\ pending # 0 /\ arrived' = arrived /\ lost' = lost
        /\ served' = served \cup {currentPkt.id}
        /\ queuesize' = queuesize - currentPkt.size /\ PQ!BeginService(packets)
    BY DEF PQ!CompleteService
  <1>3. /\ pending = currentPkt.id /\ currentPkt \in PqPacket
        /\ queuesize = currentPkt.size + SizeOf(packets)
    BY <1>1, <1>2 DEF PqSends
  <1>4. Serving(packets, 0, arrived)
    <2>1. 0 \in 0 .. arrived /\ \A x \in 1 .. arrived : x # 0
      BY <1>1
    <2>2. QED
      BY <1>1, <2>1 DEF Serving
  <1>5. queuesize' = SizeOf(packets)
    <2>1. SizeOf(packets) \in Nat /\ currentPkt.size \in Nat
      BY <1>1, <1>3, SizesAdd, PqConstants
    <2>2. QED
      BY <1>2, <1>3, <2>1
  <1>6. /\ Begins(packets, packets', pending')
        /\ packets' \in Seq(PqPacket) /\ ByPriority(packets') /\ PqSends'
        /\ IdsIn(packets') \subseteq IdsIn(packets)
    BY <1>1, <1>2, <1>4, <1>5, PqBegins
  <1>7. /\ Serving(packets', pending', arrived)
        /\ Departs(HeldIn(packets, pending), HeldIn(packets', pending'),
                   pending, pending')
    <2>1. PICK q1, c1 : q1 = packets' /\ c1 = pending'
      OBVIOUS
    <2>2. /\ Serving(q1, c1, arrived)
          /\ Departs(HeldIn(packets, pending), HeldIn(q1, c1), pending, c1)
      BY <1>1, <1>2, <1>6, <2>1, QueueGives
    <2>3. QED
      BY <2>1, <2>2, Zenon
  <1>8. PqInv'
    <2>1. Serving(packets', pending', arrived') /\ arrived' \in Nat
      BY <1>1, <1>2, <1>7
    <2>2. lost' \subseteq 1 .. arrived' /\ IdsIn(packets') \cap lost' = {}
      BY <1>1, <1>2, <1>6
    <2>3. QED
      BY <1>6, <2>1, <2>2 DEF PqInv
  <1>9. QED
    BY <1>2, <1>3, <1>7, <1>8

\* An empty PriorityQueue satisfies the invariant, whether or not _currentPkt
\* is null.
LEMMA PqStarts == PQ!Init => PqInv
  <1> SUFFICES ASSUME PQ!Init PROVE PqInv
    OBVIOUS
  <1>1. /\ packets = <<>> /\ pending = 0 /\ queuesize = 0 /\ arrived = 0 /\ lost = {}
        /\ \/ currentPkt = PQ!Null
           \/ currentPkt = PQ!Garbage /\ ~ZeroedMemory
    BY DEF PQ!Init
  <1>2. <<>> \in Seq(PqPacket) /\ \A i : i \notin 1 .. Len(<<>>)
    OBVIOUS
  <1>3. Serving(packets, pending, arrived) /\ ByPriority(packets)
    BY <1>1, <1>2 DEF Serving, ByPriority
  <1>4. PqSends
    <2>1. SizeOf(<<>>) = 0
      BY <1>2, TotalEmpty DEF SizeOf
    <2>2. QED
      BY <1>1, <2>1 DEF PqSends
  <1>5. QED
    BY <1>1, <1>2, <1>3, <1>4 DEF PqInv

\* The inductive invariant of a PriorityQueue: the packets wait in the order of
\* their priorities, no two of them have a number in common, none of them is
\* lost, and the bytes of the queue are those of the packets in it.
THEOREM PriorityQueueKeepsOrder == Spec => [](discipline = "priority" => PqInv)
  <1> DEFINE Inv == discipline = "priority" => PqInv
  <1>1. Init => Inv
    BY PqStarts DEF Init
  <1>2. Inv /\ [Next]_vars => Inv'
    <2> SUFFICES ASSUME Inv, [Next]_vars, discipline' = "priority" PROVE PqInv'
      OBVIOUS
    <2>1. CASE PriorityStep
      <3>1. PqInv /\ PQ!Next
        BY <2>1 DEF PriorityStep
      <3>2. QED
        BY <3>1, PqArrives, PqServes DEF PQ!Next
    <2>2. CASE FairStep \/ StocStep \/ AprxStep
      BY <2>2 DEF FairStep, StocStep, AprxStep
    <2>3. CASE UNCHANGED vars
      <3>1. /\ discipline' = discipline /\ arrived' = arrived /\ packets' = packets
            /\ pending' = pending /\ queuesize' = queuesize /\ lost' = lost
            /\ currentPkt' = currentPkt
        BY <2>3 DEF vars
      <3>2. PqInv
        BY <3>1
      <3>3. QED
        BY <3>1, <3>2 DEF PqInv, PqSends
    <2>4. QED
      BY <2>1, <2>2, <2>3 DEF Next
  <1>3. QED
    BY <1>1, <1>2, PTL DEF Spec

\* A full PriorityQueue drops its least urgent packets, the one that arrives
\* included: whatever keeps waiting is at least as urgent as what is dropped.
THEOREM LeastUrgentIsDropped == Spec => DropsTheLeastUrgent
  <1> DEFINE Inv == discipline = "priority" => PqInv
             Drops == discipline = "priority" => PQ!LeastUrgentGoes
  <1>1. Inv /\ [Next]_vars => [Drops]_vars
    <2> SUFFICES ASSUME Inv, [Next]_vars, discipline = "priority"
                 PROVE  PQ!LeastUrgentGoes \/ UNCHANGED vars
      BY Zenon
    <2>1. CASE PriorityStep
      <3>1. PqInv /\ PQ!Next
        BY <2>1 DEF PriorityStep
      <3>2. CASE PQ!ReceivePacket
        BY <3>1, <3>2, PqArrives
      <3>3. CASE PQ!CompleteService
        <4>1. lost' = lost
          BY <3>3 DEF PQ!CompleteService
        <4>2. /\ \A i \in 1 .. Len(packets) : packets[i].id \notin lost
              /\ arrived \in Nat /\ arrived + 1 \notin lost
          BY <3>1 DEF PqInv, IdsIn
        <4>3. \A size \in Sizes, priority \in Priorities :
                 PQ!Arriving(size, priority).id \notin lost
          BY <4>2, PqArriving
        <4>4. QED
          BY <4>1, <4>2, <4>3, Zenon DEF PQ!LeastUrgentGoes
      <3>4. QED
        BY <3>1, <3>2, <3>3 DEF PQ!Next
    <2>2. CASE FairStep \/ StocStep \/ AprxStep
      BY <2>2 DEF FairStep, StocStep, AprxStep
    <2>3. QED
      BY <2>1, <2>2 DEF Next
  <1>2. QED
    BY <1>1, PriorityQueueKeepsOrder, PTL DEF Spec, DropsTheLeastUrgent

\* The constructors of PriorityQueue and FairQueue do not assign _currentPkt, and
\* nothing of the following is sent when the memory holds another value than the
\* null pointer (priorityqueue.cpp:7-10, 59, fairqueue.cpp:7-12, 77).
GarbagePointer == \/ discipline = "priority" /\ currentPkt = PQ!Garbage
                  \/ discipline = "fq" /\ currentPkt = FQ!Garbage
NothingIsSent == pending = 0 /\ served = {}

\* A QUEUE BUILT IN MEMORY THAT IS NOT ZERO NEVER SENDS A PACKET: "drains packets
\* based on their priority" (priorityqueue.h:5) holds of zeroed memory only.
THEOREM UninitialisedQueueIsSilent ==
    Spec /\ GarbagePointer => []NothingIsSent
  <1> DEFINE Inv == GarbagePointer /\ NothingIsSent
  <1>1. Init /\ GarbagePointer => Inv
    <2>1. Init => NothingIsSent \/ discipline \notin {"priority", "fq"}
      BY DEF Init, PQ!Init, FQ!Init, NothingIsSent
    <2>2. QED
      BY <2>1 DEF GarbagePointer
  <1>2. Inv /\ [Next]_vars => Inv'
    <2> SUFFICES ASSUME Inv, [Next]_vars PROVE Inv'
      OBVIOUS
    <2>1. CASE PriorityStep
      <3>1. /\ PQ!Next /\ discipline = "priority" /\ discipline' = discipline
            /\ currentPkt = PQ!Garbage /\ pending = 0
        BY <2>1 DEF PriorityStep, GarbagePointer, NothingIsSent
      <3>2. PQ!ReceivePacket
        BY <3>1 DEF PQ!Next, PQ!CompleteService
      <3>3. PQ!Garbage # PQ!Null
        BY DEF PQ!Garbage, PQ!Null
      <3>4. PICK p : PQ!Enters(p)
        BY <3>2, Zenon DEF PQ!ReceivePacket
      <3>5. currentPkt' = currentPkt /\ pending' = pending
        BY <3>1, <3>3, <3>4 DEF PQ!Enters
      <3>6. served' = served
        BY <3>2 DEF PQ!ReceivePacket
      <3>7. QED
        BY <3>1, <3>5, <3>6 DEF GarbagePointer, NothingIsSent
    <2>2. CASE FairStep
      <3>1. /\ FQ!Next /\ discipline = "fq" /\ discipline' = discipline
            /\ currentPkt = FQ!Garbage /\ pending = 0
        BY <2>2 DEF FairStep, GarbagePointer, NothingIsSent
      <3>2. FQ!ReceivePacket
        BY <3>1 DEF FQ!Next, FQ!CompleteService
      <3>3. FQ!Garbage # FQ!Null
        BY DEF FQ!Garbage, FQ!Null
      <3>4. currentPkt' = currentPkt /\ pending' = pending /\ served' = served
        BY <3>1, <3>2, <3>3 DEF FQ!ReceivePacket
      <3>5. QED
        BY <3>1, <3>4 DEF GarbagePointer, NothingIsSent
    <2>3. CASE StocStep \/ AprxStep
      BY <2>3 DEF StocStep, AprxStep, GarbagePointer
    <2>4. CASE UNCHANGED vars
      BY <2>4 DEF vars, GarbagePointer, NothingIsSent
    <2>5. QED
      BY <2>1, <2>2, <2>3, <2>4 DEF Next
  <1>3. QED
    BY <1>1, <1>2, PTL DEF Spec

----------------------------------------------------------------------------
(* FairQueue as a server *)

\* The packets of the line have numbers of their own.
LEMMA FairNumbers ==
    ASSUME FairInv
    PROVE  Serving(packets, pending, arrived) /\ pending \in Nat
  <1>1. /\ arrived \in Nat /\ packets \in Seq(FqPacket) /\ SendsCurrent
        /\ Aged(Line, arrived) /\ Line \in Seq(FqPacket)
    BY DEF FairInv, FairLine
  <1>2. \A q \in Seq(FqPacket) : Aged(q, arrived) =>
           \A i, j \in 1 .. Len(q) : q[i].id = q[j].id => i = j
    <2> SUFFICES ASSUME NEW q \in Seq(FqPacket), Aged(q, arrived),
                        NEW i \in 1 .. Len(q), NEW j \in 1 .. Len(q), i # j
                 PROVE  q[i].id # q[j].id
      OBVIOUS
    <2>1. i < j \/ j < i
      OBVIOUS
    <2>2. QED
      BY <2>1 DEF Aged
  <1>3. CASE pending = 0
    <2>1. Line = packets
      BY <1>3 DEF Line
    <2>2. \A i \in 1 .. Len(packets) : packets[i].id \in 1 .. arrived /\ packets[i].id # 0
      BY <1>1, <2>1 DEF Aged
    <2>3. QED
      BY <1>1, <1>2, <1>3, <2>1, <2>2 DEF Serving
  <1>4. CASE pending # 0
    <2>1. PICK t : t = Line
      OBVIOUS
    <2>2. /\ t \in Seq(FqPacket) /\ Aged(t, arrived) /\ t = <<currentPkt>> \o packets
      BY <1>1, <1>4, <2>1 DEF Line
    <2>3. /\ currentPkt \in FqPacket /\ Len(t) = Len(packets) + 1 /\ t[1] = currentPkt
          /\ \A i \in 1 .. Len(packets) : t[i + 1] = packets[i]
      BY <1>1, <2>2, ConsIs
    <2>4. /\ 1 \in 1 .. Len(t) /\ pending = t[1].id /\ Len(packets) \in Nat
          /\ \A i \in 1 .. Len(packets) : i + 1 \in 1 .. Len(t) /\ i + 1 # 1
      BY <1>1, <1>4, <2>3 DEF SendsCurrent
    <2>5. /\ \A i \in 1 .. Len(t) : t[i].id \in 1 .. arrived
          /\ \A i, j \in 1 .. Len(t) : t[i].id = t[j].id => i = j
      BY <1>2, <2>2 DEF Aged
    <2>6. \A i \in 1 .. Len(packets) : packets[i].id \in 1 .. arrived
                                       /\ packets[i].id # pending
      BY <2>3, <2>4, <2>5
    <2>7. ASSUME NEW i \in 1 .. Len(packets), NEW j \in 1 .. Len(packets),
                 packets[i].id = packets[j].id
          PROVE  i = j
      <3>1. i + 1 = j + 1
        BY <2>3, <2>4, <2>5, <2>7
      <3>2. QED
        BY <3>1
    <2>8. pending \in 1 .. arrived
      BY <2>4, <2>5
    <2>9. QED
      BY <1>1, <2>6, <2>7, <2>8 DEF Serving
  <1>5. QED
    BY <1>3, <1>4

\* The bytes of the packet being sent are what the byte count has more than
\* the waiting packets.
LEMMA FairUsed ==
    ASSUME FairInv
    PROVE  /\ queuesize - SizeOf(packets) \in Nat
           /\ queuesize - SizeOf(packets) <= MaxSize
  <1>1. /\ arrived \in Nat /\ packets \in Seq(FqPacket) /\ queuesize = SizeOf(Line)
        /\ Line \in Seq(FqPacket) /\ SizeOf(packets) \in Nat /\ MaxSize \in Nat
    BY FqSums, FqConstants DEF FairInv, FairLine
  <1>2. CASE pending = 0
    BY <1>1, <1>2 DEF Line
  <1>3. CASE pending # 0
    <2>1. Line = <<currentPkt>> \o packets
      BY <1>3 DEF Line
    <2>2. currentPkt \in FqPacket
      BY <1>1, <2>1, ConsIs
    <2>3. <<currentPkt>> \in Seq(FqPacket) /\ SizeOf(<<currentPkt>>) = currentPkt.size
      BY <2>2, FqOne
    <2>4. SizeOf(<<currentPkt>> \o packets) = SizeOf(<<currentPkt>>) + SizeOf(packets)
      BY <1>1, <2>3, FqConcat
    <2>5. queuesize = currentPkt.size + SizeOf(packets)
      BY <1>1, <2>1, <2>3, <2>4, Zenon
    <2>6. currentPkt.size \in Nat /\ currentPkt.size <= MaxSize
      BY <2>2, FqConstants
    <2>7. QED
      BY <1>1, <2>5, <2>6
  <1>4. QED
    BY <1>2, <1>3

\* What a FairQueue does with a packet p that arrives, as far as packets come,
\* go and wait.
FairAccepts(p, at, queue, k, drops, dropped) ==
    /\ at \in FQ!Places(packets, p) /\ queue = InsertAt(packets, at, p)
    /\ k = FQ!Kept(queue, queuesize - SizeOf(packets))
    /\ dropped = SubSeq(queue, k + 1, Len(queue))
    /\ drops = {dropped[j].id : j \in 1 .. Len(dropped)}
    /\ lost' = lost \cup drops
    /\ IF currentPkt = FQ!Null /\ packets = <<>>
       THEN FQ!BeginService(SubSeq(queue, 1, k))
       ELSE /\ packets' = SubSeq(queue, 1, k)
            /\ currentPkt' = currentPkt /\ pending' = pending

\* receivePacket in a form that says nothing of rounds and charges.
LEMMA FairTakesIn ==
    ASSUME FQ!ReceivePacket
    PROVE  /\ arrived' = arrived + 1 /\ served' = served
           /\ \E p, at, queue, k, drops, dropped :
                 /\ p.id = arrived + 1 /\ p.size \in Sizes
                 /\ FairAccepts(p, at, queue, k, drops, dropped)
  <1>1. arrived' = arrived + 1 /\ served' = served
    BY DEF FQ!ReceivePacket
  <1>2. PICK f \in Flows, size \in Sizes : \E p, i, kept, dropped, rounds :
                 /\ p = [id |-> arrived', flow |-> f, size |-> size,
                         round |-> FQ!FinishRound(f, size)]
                 /\ Joins(p, i, kept, dropped, rounds)
    BY FairReceives
  <1>3. PICK p, at, kept, dropped, rounds :
                 /\ p = [id |-> arrived', flow |-> f, size |-> size,
                         round |-> FQ!FinishRound(f, size)]
                 /\ Joins(p, at, kept, dropped, rounds)
    BY <1>2
  <1>4. p.id = arrived + 1 /\ p.size \in Sizes
    BY <1>1, <1>3
  <1>5. PICK queue : queue = InsertAt(packets, at, p) /\ queue = FQ!InsertAt(packets, at, p)
    BY DEF FQ!InsertAt, InsertAt
  <1>6. PICK k : k = FQ!Kept(queue, queuesize - SizeOf(packets))
    OBVIOUS
  <1>7. /\ at \in FQ!Places(packets, p) /\ kept = SubSeq(queue, 1, k)
        /\ dropped = SubSeq(queue, k + 1, Len(queue))
        /\ lost' = lost \cup {dropped[j].id : j \in 1 .. Len(dropped)}
        /\ IF currentPkt = FQ!Null /\ packets = <<>>
           THEN FQ!BeginService(kept)
           ELSE /\ packets' = kept
                /\ UNCHANGED <<currentPkt, pending, roundNumber>>
    BY <1>3, <1>5, <1>6, Zenon DEF Joins
  <1>8. FairAccepts(p, at, queue, k, {dropped[j].id : j \in 1 .. Len(dropped)}, dropped)
    BY <1>5, <1>6, <1>7 DEF FairAccepts
  <1>9. QED
    BY <1>1, <1>4, <1>8

\* beginService takes the head of the queue.
LEMMA FairBegun == ASSUME NEW q, FQ!BeginService(q) PROVE Begins(q, packets', pending')
  BY DEF FQ!BeginService, Begins

\* A packet that comes to a FairQueue built in zeroed memory is an arrival at a
\* server.
LEMMA FairComes ==
    ASSUME FairInv, FQ!ReceivePacket, currentPkt # FQ!Garbage
    PROVE  /\ arrived' = arrived + 1 /\ served' = served /\ pending' \in Nat
           /\ Arrives(HeldIn(packets, pending), HeldIn(packets', pending'),
                      arrived + 1, pending, pending', lost, lost')
  <1>1. arrived' = arrived + 1 /\ served' = served
    BY FairTakesIn
  <1>2. PICK p, at, queue, k, drops, dropped :
                 /\ p.id = arrived + 1 /\ p.size \in Sizes
                 /\ FairAccepts(p, at, queue, k, drops, dropped)
    BY FairTakesIn
  <1>3. /\ at \in FQ!Places(packets, p) /\ queue = InsertAt(packets, at, p)
        /\ k = FQ!Kept(queue, queuesize - SizeOf(packets))
        /\ dropped = SubSeq(queue, k + 1, Len(queue))
        /\ drops = {dropped[j].id : j \in 1 .. Len(dropped)}
        /\ lost' = lost \cup drops
        /\ IF currentPkt = FQ!Null /\ packets = <<>>
           THEN FQ!BeginService(SubSeq(queue, 1, k))
           ELSE /\ packets' = SubSeq(queue, 1, k)
                /\ currentPkt' = currentPkt /\ pending' = pending
    BY <1>2 DEF FairAccepts
  <1>4. /\ arrived \in Nat /\ packets \in Seq(FqPacket) /\ SendsCurrent
        /\ Serving(packets, pending, arrived)
    BY FairNumbers DEF FairInv
  <1>5. PICK S : S = FqPacket \cup {p}
    OBVIOUS
  <1>6. (\A e \in S : e.size \in Nat) /\ p \in S /\ packets \in Seq(S)
    <2>1. \A e \in S : e.size \in Nat
      BY <1>2, <1>5, FqConstants
    <2>2. Len(packets) \in Nat /\ \A i \in 1 .. Len(packets) : packets[i] \in S
      BY <1>4, <1>5
    <2>3. packets = [i \in 1 .. Len(packets) |-> packets[i]]
      BY <1>4
    <2>4. packets \in [1 .. Len(packets) -> S]
      BY <2>2, <2>3
    <2>5. QED
      BY <1>5, <2>1, <2>2, <2>4, SeqDef
  <1>7. queue \in Seq(S) /\ Spliced(packets, at, p, queue)
    <2>1. at \in 1 .. Len(packets) + 1
      BY <1>3 DEF FQ!Places
    <2>2. InsertAt(packets, at, p) \in Seq(S)
          /\ Spliced(packets, at, p, InsertAt(packets, at, p))
      BY <1>6, <2>1, InsertAtSplices
    <2>3. QED
      BY <1>3, <2>2, Zenon
  <1>8. k \in 0 .. Len(queue)
    <2>1. PICK used : used = queuesize - SizeOf(packets)
      OBVIOUS
    <2>2. used \in Nat /\ used <= MaxSize /\ k = FQ!Kept(queue, used)
      BY <1>3, <2>1, FairUsed, Zenon
    <2>3. QED
      BY <1>6, <1>7, <2>2, KeptIs
  <1>9. Dropped(queue, k, drops)
    <2>1. /\ Len(dropped) = Len(queue) - k /\ k \in Nat /\ Len(queue) \in Nat
          /\ \A j \in 1 .. Len(queue) - k : dropped[j] = queue[k + j]
      BY <1>3, <1>7, <1>8, Split
    <2>2. ASSUME NEW j \in 1 .. Len(dropped)
          PROVE  dropped[j].id \in {queue[i].id : i \in k + 1 .. Len(queue)}
      <3>1. k + j \in k + 1 .. Len(queue)
        BY <2>1
      <3>2. QED
        BY <2>1, <3>1
    <2>3. ASSUME NEW i \in k + 1 .. Len(queue) PROVE queue[i].id \in drops
      <3>1. PICK j \in 1 .. Len(queue) - k : j = i - k /\ k + j = i
        BY <2>1
      <3>2. dropped[j] = queue[i] /\ j \in 1 .. Len(dropped)
        BY <2>1, <3>1
      <3>3. QED
        BY <1>3, <3>2
    <2>4. drops = {queue[i].id : i \in k + 1 .. Len(queue)}
      <3>1. ASSUME NEW x \in drops
            PROVE  x \in {queue[i].id : i \in k + 1 .. Len(queue)}
        <4>1. PICK j \in 1 .. Len(dropped) : x = dropped[j].id
          BY <1>3
        <4>2. QED
          BY <2>2, <4>1
      <3>2. {queue[i].id : i \in k + 1 .. Len(queue)} \subseteq drops
        BY <2>3
      <3>3. QED
        BY <3>1, <3>2
    <2>5. QED
      BY <2>4 DEF Dropped
  <1>10. pending = 0 <=> currentPkt = FQ!Null /\ packets = <<>>
    BY <1>4 DEF SendsCurrent, FQ!Null
  <1>11. PICK q1, c1, l, l1 : /\ q1 = packets' /\ c1 = pending'
                              /\ l = lost /\ l1 = lost' /\ l1 = l \cup drops
    BY <1>3
  <1>12. /\ \/ /\ pending = 0 /\ packets = <<>>
               /\ Begins(SubSeq(queue, 1, k), q1, c1)
            \/ q1 = SubSeq(queue, 1, k) /\ c1 = pending
         /\ pending # 0 \/ Begins(SubSeq(queue, 1, k), q1, c1)
    BY <1>3, <1>10, <1>11, FairBegun
  <1>13. /\ Serving(q1, c1, arrived + 1)
         /\ Arrives(HeldIn(packets, pending), HeldIn(q1, c1), arrived + 1,
                    pending, c1, l, l \cup drops)
    BY <1>2, <1>4, <1>6, <1>7, <1>8, <1>9, <1>12, QueueTakes
  <1>14. c1 \in Nat
    BY <1>4, <1>13 DEF Serving
  <1>15. QED
    BY <1>1, <1>11, <1>13, <1>14, Zenon

\* A packet that a FairQueue has sent is a departure from a server.
LEMMA FairGoes ==
    ASSUME FairInv, FQ!CompleteService
    PROVE  /\ arrived' = arrived /\ lost' = lost
           /\ served' = served \cup {pending} /\ pending' \in Nat
           /\ Departs(HeldIn(packets, pending), HeldIn(packets', pending'),
                      pending, pending')
  <1>1. /\ arrived \in Nat /\ packets \in Seq(FqPacket) /\ SendsCurrent
        /\ Serving(packets, pending, arrived)
    BY FairNumbers DEF FairInv
  <1>2. /\ pending # 0 /\ arrived' = arrived /\ lost' = lost
        /\ served' = served \cup {currentPkt.id} /\ FQ!BeginService(packets)
    BY DEF FQ!CompleteService
  <1>3. pending = currentPkt.id
    BY <1>1, <1>2 DEF SendsCurrent
  <1>4. PICK q1, c1 : q1 = packets' /\ c1 = pending'
    OBVIOUS
  <1>5. Begins(packets, q1, c1)
    BY <1>2, <1>4, FairBegun
  <1>6. /\ Serving(q1, c1, arrived)
        /\ Departs(HeldIn(packets, pending), HeldIn(q1, c1), pending, c1)
    BY <1>1, <1>2, <1>5, QueueGives
  <1>7. c1 \in Nat
    BY <1>1, <1>6 DEF Serving
  <1>8. QED
    BY <1>2, <1>3, <1>4, <1>6, <1>7, Zenon

\* A FairQueue built in zeroed memory never has a pointer to nothing.
FairPoints == ZeroedMemory => currentPkt # FQ!Garbage

\* The pointer is null or that of a packet that has come.
LEMMA FairPointsAhead ==
    ASSUME FairInv, FairPoints, FQ!Next PROVE FairPoints'
  <1>1. \/ currentPkt' = currentPkt
        \/ currentPkt' = FQ!Null
        \/ pending' = currentPkt'.id
    <2>1. CASE FQ!ReceivePacket
      <3>1. PICK p, at, queue, k, drops, dropped :
                   FairAccepts(p, at, queue, k, drops, dropped)
        BY <2>1, FairTakesIn
      <3>2. CASE currentPkt = FQ!Null /\ packets = <<>>
        BY <3>1, <3>2 DEF FairAccepts, FQ!BeginService
      <3>3. CASE ~(currentPkt = FQ!Null /\ packets = <<>>)
        BY <3>1, <3>3 DEF FairAccepts
      <3>4. QED
        BY <3>2, <3>3
    <2>2. CASE FQ!CompleteService
      BY <2>2 DEF FQ!CompleteService, FQ!BeginService
    <2>3. QED
      BY <2>1, <2>2 DEF FQ!Next
  <1>2. ZeroedMemory => pending' \in Nat
    BY FairComes, FairGoes DEF FairPoints, FQ!Next
  <1>3. FQ!Null # FQ!Garbage /\ FQ!Garbage.id \notin Nat
    BY DEF FQ!Null, FQ!Garbage
  <1>4. QED
    BY <1>1, <1>2, <1>3 DEF FairPoints

----------------------------------------------------------------------------
(* StocFairQueue and AprxFairQueue as servers *)

\* A packet arrives at the queues of D: it is lost, or waits behind the others
\* of its queue; a packet that is being sent goes on.
TakenIn(S, D) ==
    \/ packets' = packets /\ pending' = pending /\ lost' = lost \cup {arrived + 1}
    \/ /\ \E q \in D, p \in S : p.id = arrived + 1 /\ PutIn(packets, q, p, packets')
       /\ lost' = lost
       /\ ~(\A q \in D : packets[q] = <<>>) => pending' = pending

\* That is an arrival at a server that holds what is in the queues.
LEMMA PoolComes ==
    ASSUME NEW S, NEW D, packets \in [D -> Seq(S)], arrived \in Nat,
           Unique(packets, D, arrived), Feeds(PoolIds(packets, D), pending),
           TakenIn(S, D), Feeds(PoolIds(packets', D), pending')
    PROVE  /\ Unique(packets', D, arrived + 1)
           /\ Arrives(PoolIds(packets, D), PoolIds(packets', D), arrived + 1,
                      pending, pending', lost, lost')
  <1>1. PICK n \in Nat, pk \in [D -> Seq(S)] : n = arrived /\ pk = packets
    OBVIOUS
  <1>2. PICK pt, cur1 : pt = packets' /\ cur1 = pending'
    OBVIOUS
  <1>3. /\ Unique(pk, D, n) /\ Feeds(PoolIds(pk, D), pending)
        /\ Feeds(PoolIds(pt, D), cur1)
    BY <1>1, <1>2
  <1>4. CASE packets' = packets /\ pending' = pending /\ lost' = lost \cup {n + 1}
    <2>1. 0 \notin PoolIds(pk, D) /\ n + 1 \notin PoolIds(pk, D) /\ n + 1 # 0
      BY <1>3, PoolNumbers
    <2>2. PICK h : h = PoolIds(pk, D)
      OBVIOUS
    <2>3. Arrives(h, h, n + 1, pending, pending, lost, lost \cup {n + 1})
      BY <1>3, <2>1, <2>2, PoolServes
    <2>4. \A x \in 1 .. n : x \in 1 .. n + 1
      OBVIOUS
    <2>5. Unique(pk, D, n + 1)
      BY <1>3, <2>4 DEF Unique
    <2>6. QED
      BY <1>1, <1>4, <2>2, <2>3, <2>5
  <1>5. CASE /\ \E q \in D, p \in S : p.id = n + 1 /\ PutIn(pk, q, p, pt)
             /\ lost' = lost
             /\ ~(\A q \in D : pk[q] = <<>>) => cur1 = pending
    <2>1. PICK q \in D, p \in S : p.id = n + 1 /\ PutIn(pk, q, p, pt)
      BY <1>5
    <2>2. /\ Unique(pt, D, n + 1)
          /\ Arrives(PoolIds(pk, D), PoolIds(pt, D), n + 1, pending, cur1, lost, lost)
      BY <1>3, <1>5, <2>1, PoolGrows
    <2>3. QED
      BY <1>1, <1>2, <1>5, <2>2
  <1>6. QED
    BY <1>1, <1>2, <1>4, <1>5 DEF TakenIn

\* The end of a service there is a departure.
LEMMA PoolGoes ==
    ASSUME NEW S, NEW D, packets \in [D -> Seq(S)], arrived \in Nat,
           Unique(packets, D, arrived), NEW q \in D, packets[q] # <<>>,
           pending = Head(packets[q]).id, pending # 0,
           TakenOut(packets, q, packets'), Feeds(PoolIds(packets', D), pending')
    PROVE  /\ Unique(packets', D, arrived)
           /\ Departs(PoolIds(packets, D), PoolIds(packets', D), pending, pending')
  <1>1. PICK n \in Nat, pk \in [D -> Seq(S)] : n = arrived /\ pk = packets
    OBVIOUS
  <1>2. PICK pt, cur1 : pt = packets' /\ cur1 = pending'
    OBVIOUS
  <1>3. /\ Unique(pk, D, n) /\ pk[q] # <<>> /\ Head(pk[q]).id # 0
        /\ TakenOut(pk, q, pt) /\ Feeds(PoolIds(pt, D), cur1)
    BY <1>1, <1>2
  <1>4. /\ Unique(pt, D, n)
        /\ Departs(PoolIds(pk, D), PoolIds(pt, D), Head(pk[q]).id, cur1)
    BY <1>3, PoolShrinks
  <1>5. QED
    BY <1>1, <1>2, <1>4

\* The packet being sent by the front queue is one of those held.
LEMMA SendingFeeds ==
    ASSUME NEW s, NEW ld, NEW p, Fair(s, ld), Sending(s, p)
    PROVE  Feeds(PoolIds(s.packets, Queues), p)
  <1>1. /\ s.packets \in [Queues -> Seq([id : Nat, size : Sizes])]
        /\ s.activeQ \in Seq(Queues)
    BY DEF Fair, StocStates
  <1>2. PICK pk \in [Queues -> Seq([id : Nat, size : Sizes])] : pk = s.packets
    BY <1>1
  <1>3. CASE \A q \in Queues : pk[q] = <<>>
    <2>1. p = 0
      BY <1>2, <1>3 DEF Sending
    <2>2. PoolIds(pk, Queues) = {}
      BY <1>3, PoolHeads
    <2>3. QED
      BY <1>2, <2>1, <2>2 DEF Feeds
  <1>4. CASE ~ \A q \in Queues : pk[q] = <<>>
    <2>1. /\ \E i \in 1 .. Len(s.activeQ) : TRUE
          /\ \A i \in 1 .. Len(s.activeQ) : pk[s.activeQ[i]] # <<>>
      <3>1. \A q \in Queues :
               pk[q] # <<>> <=> \E i \in 1 .. Len(s.activeQ) : s.activeQ[i] = q
        BY <1>2 DEF Fair, Listed
      <3>2. \A i \in 1 .. Len(s.activeQ) : s.activeQ[i] \in Queues
        BY <1>1
      <3>3. PICK q \in Queues : pk[q] # <<>>
        BY <1>4
      <3>4. QED
        BY <3>1, <3>2, <3>3
    <2>2. /\ Head(s.activeQ) = s.activeQ[1] /\ 1 \in 1 .. Len(s.activeQ)
          /\ Head(s.activeQ) \in Queues
      BY <1>1, <2>1
    <2>3. pk[Head(s.activeQ)] # <<>> /\ p = Head(pk[Head(s.activeQ)]).id
      BY <1>2, <1>4, <2>1, <2>2 DEF Sending
    <2>4. p \in PoolIds(pk, Queues) /\ PoolIds(pk, Queues) # {}
      BY <2>2, <2>3, PoolHeads
    <2>5. QED
      BY <1>2, <2>4 DEF Feeds
  <1>5. QED
    BY <1>3, <1>4

\* What a StocFairQueue holds, and the packet it is sending.
LEMMA StocHolds ==
    ASSUME StocInv
    PROVE  /\ arrived \in Nat
           /\ packets \in [Queues -> Seq([id : Nat, size : Sizes])]
           /\ Unique(packets, Queues, arrived)
           /\ Feeds(PoolIds(packets, Queues), pending)
  <1>1. /\ arrived \in Nat /\ Fair(SFQ!Fifos, lead) /\ Distinct(SFQ!Fifos, arrived)
        /\ Sending(SFQ!Fifos, pending) /\ SFQ!Fifos.packets = packets
    BY DEF StocInv, SFQ!Fifos
  <1>2. Feeds(PoolIds(packets, Queues), pending)
    <2>1. PICK s : s = SFQ!Fifos
      OBVIOUS
    <2>2. Feeds(PoolIds(s.packets, Queues), pending)
      BY <1>1, <2>1, SendingFeeds
    <2>3. QED
      BY <1>1, <2>1, <2>2
  <1>3. packets \in [Queues -> Seq([id : Nat, size : Sizes])]
    BY <1>1 DEF Fair, StocStates
  <1>4. Unique(packets, Queues, arrived)
    BY <1>1 DEF Distinct, Unique
  <1>5. QED
    BY <1>1, <1>2, <1>3, <1>4

\* receivePacket of a StocFairQueue is an arrival at a server.
LEMMA StocComes ==
    ASSUME StocInv, SFQ!ReceivePacket
    PROVE  /\ arrived' = arrived + 1 /\ served' = served
           /\ Arrives(PoolIds(packets, Queues), PoolIds(packets', Queues),
                      arrived + 1, pending, pending', lost, lost')
  <1>1. arrived' = arrived + 1 /\ served' = served
    BY DEF SFQ!ReceivePacket
  <1>2. StocInv' /\ StocTakes
    BY StocArrives
  <1>3. TakenIn([id : Nat, size : Sizes], Queues)
    BY <1>2 DEF StocTakes, TakenIn, PutIn
  <1>4. Feeds(PoolIds(packets', Queues), pending')
    <2>1. PICK s : s = SFQ!Fifos'
      OBVIOUS
    <2>2. Fair(s, lead') /\ Sending(s, pending') /\ s.packets = packets'
      BY <1>2, <2>1 DEF StocInv, SFQ!Fifos
    <2>3. Feeds(PoolIds(s.packets, Queues), pending')
      BY <2>2, SendingFeeds
    <2>4. QED
      BY <2>2, <2>3
  <1>5. QED
    BY <1>1, <1>3, <1>4, StocHolds, PoolComes

\* completeService of a StocFairQueue is a departure.
LEMMA StocGoes ==
    ASSUME StocInv, SFQ!CompleteService
    PROVE  /\ arrived' = arrived /\ lost' = lost
           /\ served' = served \cup {pending}
           /\ Departs(PoolIds(packets, Queues), PoolIds(packets', Queues),
                      pending, pending')
  <1>1. StocInv' /\ StocGives
    BY StocServes
  <1>2. /\ arrived' = arrived /\ lost' = lost /\ pending # 0
        /\ served' = served \cup {Head(packets[Head(activeQ)]).id}
    BY DEF SFQ!CompleteService
  <1>3. PICK q \in Queues : q = Head(activeQ)
    BY <1>1 DEF StocGives
  <1>4. /\ packets[q] # <<>> /\ pending = Head(packets[q]).id
        /\ TakenOut(packets, q, packets')
    BY <1>1, <1>3 DEF StocGives, TakenOut
  <1>5. Feeds(PoolIds(packets', Queues), pending')
    <2>1. PICK s : s = SFQ!Fifos'
      OBVIOUS
    <2>2. Fair(s, lead') /\ Sending(s, pending') /\ s.packets = packets'
      BY <1>1, <2>1 DEF StocInv, SFQ!Fifos
    <2>3. Feeds(PoolIds(s.packets, Queues), pending')
      BY <2>2, SendingFeeds
    <2>4. QED
      BY <2>2, <2>3
  <1>6. served' = served \cup {pending}
    BY <1>2, <1>3, <1>4
  <1>7. Departs(PoolIds(packets, Queues), PoolIds(packets', Queues),
                pending, pending')
    BY <1>2, <1>4, <1>5, StocHolds, PoolGoes
  <1>8. QED
    BY <1>2, <1>6, <1>7

\* The packet being sent from the current FIFO is one of those held.
LEMMA OldestFeeds ==
    ASSUME NEW pk \in [Fifos -> Seq(AfqPacket)], NEW cq \in Fifos, NEW p,
           SendsOldest(pk, cq, p)
    PROVE  Feeds(PoolIds(pk, Fifos), p)
  <1>1. CASE \A q \in Fifos : pk[q] = <<>>
    <2>1. p = 0
      BY <1>1 DEF SendsOldest
    <2>2. PoolIds(pk, Fifos) = {}
      BY <1>1, PoolHeads
    <2>3. QED
      BY <2>1, <2>2 DEF Feeds
  <1>2. CASE ~ \A q \in Fifos : pk[q] = <<>>
    <2>1. pk[cq] # <<>> /\ p = Head(pk[cq]).id
      BY <1>2 DEF SendsOldest
    <2>2. p \in PoolIds(pk, Fifos) /\ PoolIds(pk, Fifos) # {}
      BY <2>1, PoolHeads
    <2>3. QED
      BY <2>2 DEF Feeds
  <1>3. QED
    BY <1>1, <1>2

\* A packet of an AprxFairQueue has an identity of its own.
AprxHeld == Unique(packets, Fifos, arrived)

\* What an AprxFairQueue holds, and the packet it is sending.
LEMMA AprxHolds ==
    ASSUME AprxInv
    PROVE  /\ arrived \in Nat /\ packets \in [Fifos -> Seq(AfqPacket)]
           /\ currQ \in Fifos /\ Feeds(PoolIds(packets, Fifos), pending)
  <1>1. /\ arrived \in Nat /\ packets \in [Fifos -> Seq(AfqPacket)]
        /\ currQ \in Fifos /\ SendsOldest(packets, currQ, pending)
    BY DEF AprxInv, Calendar, CalendarTypes
  <1>2. QED
    BY <1>1, OldestFeeds

\* The same after a step.
LEMMA AprxHoldsThen ==
    ASSUME AprxInv' PROVE Feeds(PoolIds(packets', Fifos), pending')
  <1>1. PICK pk, cq, p : pk = packets' /\ cq = currQ' /\ p = pending'
    OBVIOUS
  <1>2. /\ pk \in [Fifos -> Seq(AfqPacket)] /\ cq \in Fifos
        /\ SendsOldest(pk, cq, p)
    BY <1>1 DEF AprxInv, Calendar, CalendarTypes
  <1>3. Feeds(PoolIds(pk, Fifos), p)
    BY <1>2, OldestFeeds
  <1>4. QED
    BY <1>1, <1>3

\* receivePacket of an AprxFairQueue is an arrival at a server.
LEMMA AprxComes ==
    ASSUME AprxInv, AprxHeld, AFQ!ReceivePacket
    PROVE  /\ arrived' = arrived + 1 /\ served' = served /\ AprxHeld'
           /\ Arrives(PoolIds(packets, Fifos), PoolIds(packets', Fifos),
                      arrived + 1, pending, pending', lost, lost')
  <1>1. arrived' = arrived + 1 /\ served' = served /\ arrived \in Nat
    BY AprxHolds DEF AFQ!ReceivePacket
  <1>2. PICK f \in AfqFlows, size \in Sizes :
           IF queuesize + size > MaxSize \/ AFQ!TooFarAhead(f) THEN AFQ!Drop
           ELSE AFQ!Enqueue(f, size)
    BY DEF AFQ!ReceivePacket
  <1>3. TakenIn(AfqPacket, Fifos)
    <2>1. CASE AFQ!Drop
      BY <1>1, <2>1 DEF AFQ!Drop, TakenIn
    <2>2. CASE AFQ!Enqueue(f, size) /\ ~AFQ!TooFarAhead(f)
      <3>1. PICK p : p = [id |-> arrived', flow |-> f, size |-> size]
        OBVIOUS
      <3>2. p \in AfqPacket /\ p.id = arrived + 1
        BY <1>1, <3>1 DEF AfqPacket
      <3>3. PICK q \in Fifos : q = AFQ!OutQ(f)
        <4>1. PICK k \in Fifos : AFQ!OutQ(f) = (currQ + k) % AfqQueues
          BY <2>2, CalendarCharges DEF AprxInv
        <4>2. (currQ + k) % AfqQueues \in Fifos
          BY AprxHolds, AfqConstants DEF Fifos
        <4>3. QED
          BY <4>1, <4>2
      <3>4. /\ PutIn(packets, q, p, packets') /\ lost' = lost
            /\ ~(\A r \in Fifos : packets[r] = <<>>) => pending' = pending
        BY <2>2, <3>1, <3>3, AfqConstants DEF AFQ!Enqueue, PutIn
      <3>5. QED
        BY <3>2, <3>4 DEF TakenIn
    <2>3. QED
      BY <1>2, <2>1, <2>2
  <1>4. Feeds(PoolIds(packets', Fifos), pending')
    BY AprxArrives, AprxHoldsThen
  <1>5. /\ Unique(packets', Fifos, arrived + 1)
        /\ Arrives(PoolIds(packets, Fifos), PoolIds(packets', Fifos),
                   arrived + 1, pending, pending', lost, lost')
    BY <1>3, <1>4, AprxHolds, PoolComes DEF AprxHeld
  <1>6. QED
    BY <1>1, <1>5 DEF AprxHeld

\* completeService of an AprxFairQueue is a departure.
LEMMA AprxGoes ==
    ASSUME AprxInv, AprxHeld, AFQ!CompleteService
    PROVE  /\ arrived' = arrived /\ lost' = lost /\ AprxHeld'
           /\ served' = served \cup {pending}
           /\ Departs(PoolIds(packets, Fifos), PoolIds(packets', Fifos),
                      pending, pending')
  <1>1. /\ arrived' = arrived /\ lost' = lost /\ pending # 0
        /\ served' = served \cup {Head(packets[currQ]).id}
        /\ TakenOut(packets, currQ, packets')
    BY DEF AFQ!CompleteService, TakenOut
  <1>2. packets[currQ] # <<>> /\ pending = Head(packets[currQ]).id
    BY <1>1 DEF AprxInv, SendsOldest
  <1>3. Feeds(PoolIds(packets', Fifos), pending')
    BY AprxServes, AprxHoldsThen
  <1>4. /\ Unique(packets', Fifos, arrived)
        /\ Departs(PoolIds(packets, Fifos), PoolIds(packets', Fifos),
                   pending, pending')
    BY <1>1, <1>2, <1>3, AprxHolds, PoolGoes DEF AprxHeld
  <1>5. QED
    BY <1>1, <1>2, <1>4 DEF AprxHeld

----------------------------------------------------------------------------
(* Every discipline as a server *)

ServerInv ==
    /\ discipline \in {"priority", "fq", "sfq", "afq"}
    /\ discipline = "priority" => PqInv
    /\ discipline = "fq" => FairInv /\ FairPoints
    /\ discipline = "sfq" => StocInv
    /\ discipline = "afq" => AprxInv /\ AprxHeld

\* What the server holds, under each discipline.
LEMMA HeldIs ==
    /\ discipline \in {"priority", "fq"} => Held = HeldIn(packets, pending)
    /\ discipline = "sfq" => Held = PoolIds(packets, Queues)
    /\ discipline = "afq" => Held = PoolIds(packets, Fifos)
  <1>1. PQ!Held = HeldIn(packets, pending)
    BY DEF PQ!Held, HeldIn, IdsIn
  <1>2. FQ!Held = HeldIn(packets, pending)
    BY DEF FQ!Held, HeldIn, IdsIn
  <1>3. SFQ!Held = PoolIds(packets, Queues)
    BY SfqConstants DEF SFQ!Held, PoolIds
  <1>4. AFQ!Held = PoolIds(packets, Fifos)
    BY AfqConstants DEF AFQ!Held, PoolIds
  <1>5. QED
    BY <1>1, <1>2, <1>3, <1>4 DEF Held

\* The same after a step.
LEMMA HeldThen ==
    /\ discipline' \in {"priority", "fq"} => Held' = HeldIn(packets', pending')
    /\ discipline' = "sfq" => Held' = PoolIds(packets', Queues)
    /\ discipline' = "afq" => Held' = PoolIds(packets', Fifos)
  <1>1. PQ!Held' = HeldIn(packets', pending')
    BY DEF PQ!Held, HeldIn, IdsIn
  <1>2. FQ!Held' = HeldIn(packets', pending')
    BY DEF FQ!Held, HeldIn, IdsIn
  <1>3. SFQ!Held' = PoolIds(packets', Queues)
    BY SfqConstants DEF SFQ!Held, PoolIds, SFQ!Queues
  <1>4. AFQ!Held' = PoolIds(packets', Fifos)
    BY AfqConstants DEF AFQ!Held, PoolIds, AFQ!Fifos
  <1>5. QED
    BY <1>1, <1>2, <1>3, <1>4 DEF Held

\* An arrival at a discipline is one at the server, an end of service there a
\* departure.
LEMMA ServerSteps ==
    /\ /\ Arrives(Held, Held', arrived + 1, pending, pending', lost, lost')
       /\ arrived' = arrived + 1 /\ served' = served
       => Server!Next
    /\ /\ Departs(Held, Held', pending, pending')
       /\ arrived' = arrived /\ lost' = lost /\ served' = served \cup {pending}
       => Server!Next
  <1>1. ASSUME Arrives(Held, Held', arrived + 1, pending, pending', lost, lost'),
               arrived' = arrived + 1, served' = served
        PROVE  Server!Arrive
    <2>1. \E drops \in SUBSET ((Held \cup {arrived'}) \ {pending}) :
             Held' = (Held \cup {arrived'}) \ drops /\ lost' = lost \cup drops
      BY <1>1 DEF Arrives
    <2>2. IF pending = 0 THEN Server!StartNext ELSE pending' = pending
      BY <1>1 DEF Arrives, Server!StartNext
    <2>3. QED
      BY <1>1, <2>1, <2>2 DEF Server!Arrive
  <1>2. ASSUME Departs(Held, Held', pending, pending'), arrived' = arrived,
               lost' = lost, served' = served \cup {pending}
        PROVE  Server!Depart
    BY <1>2 DEF Departs, Server!Depart, Server!StartNext
  <1>3. QED
    BY <1>1, <1>2 DEF Server!Next

\* What the server needs to know of a discipline is an invariant.
THEOREM ServersAreSound == Spec => []ServerInv
  <1> DEFINE Known == /\ discipline = "priority" => PqInv
                      /\ discipline = "fq" => FairInv
                      /\ discipline = "sfq" => StocInv
                      /\ discipline = "afq" => AprxInv
             More == /\ discipline \in {"priority", "fq", "sfq", "afq"}
                     /\ discipline = "fq" => FairPoints
                     /\ discipline = "afq" => AprxHeld
  <1>1. Spec => []Known
    BY PriorityQueueKeepsOrder, FairQueueKeepsRounds, StocFairQueueIsFair,
       AprxFairQueueKeepsRounds, PTL
  <1>2. Init => More
    <2>1. FQ!Init => FairPoints
      <3>1. FQ!Null # FQ!Garbage
        BY DEF FQ!Null, FQ!Garbage
      <3>2. QED
        BY <3>1 DEF FQ!Init, FairPoints
    <2>2. AFQ!Init => AprxHeld
      <3> SUFFICES ASSUME AFQ!Init PROVE AprxHeld
        OBVIOUS
      <3>1. \A q \in Fifos : packets[q] = <<>>
        BY AfqConstants DEF AFQ!Init
      <3>2. \A q \in Fifos : \A i : i \notin 1 .. Len(packets[q])
        BY <3>1
      <3>3. QED
        BY <3>2 DEF AprxHeld, Unique
    <2>3. QED
      BY <2>1, <2>2 DEF Init
  <1>3. Known /\ More /\ [Next]_vars => More'
    <2> SUFFICES ASSUME Known, More, [Next]_vars PROVE More'
      OBVIOUS
    <2>1. discipline' = discipline
      BY DEF Next, PriorityStep, FairStep, StocStep, AprxStep, vars
    <2>2. CASE FairStep
      <3>1. FairInv /\ FairPoints /\ FQ!Next /\ discipline = "fq"
        BY <2>2 DEF FairStep
      <3>2. FairPoints'
        BY <3>1, FairPointsAhead
      <3>3. QED
        BY <2>1, <3>1, <3>2
    <2>3. CASE AprxStep
      <3>1. AprxInv /\ AprxHeld /\ AFQ!Next /\ discipline = "afq"
        BY <2>3 DEF AprxStep
      <3>2. AprxHeld'
        BY <3>1, AprxComes, AprxGoes DEF AFQ!Next
      <3>3. QED
        BY <2>1, <3>1, <3>2
    <2>4. CASE PriorityStep \/ StocStep
      BY <2>1, <2>4 DEF PriorityStep, StocStep
    <2>5. CASE UNCHANGED vars
      <3>1. /\ currentPkt' = currentPkt /\ packets' = packets /\ arrived' = arrived
            /\ discipline' = discipline
        BY <2>5 DEF vars
      <3>2. QED
        BY <3>1 DEF FairPoints, AprxHeld
    <2>6. QED
      BY <2>2, <2>3, <2>4, <2>5 DEF Next
  <1>4. Known /\ More => ServerInv
    BY DEF ServerInv
  <1> HIDE DEF Known, More
  <1>5. QED
    BY <1>1, <1>2, <1>3, <1>4, PTL DEF Spec

\* Under every discipline the queue implements the packet server: no packet is
\* forgotten or sent twice, the link does not idle while packets wait, and a
\* packet being sent is not replaced.  Memory must be zeroed: a PriorityQueue or
\* a FairQueue whose _currentPkt is left unassigned may never start to send.
THEOREM DisciplinesAreServers == ZeroedMemory => (Spec => ImplementsPacketServer)
  <1> SUFFICES ASSUME ZeroedMemory PROVE Spec => Server!Spec
    BY DEF ImplementsPacketServer
  <1>1. Init => Server!Init
    <2> SUFFICES ASSUME Init PROVE Server!Init
      OBVIOUS
    <2>1. arrived = 0 /\ pending = 0 /\ lost = {} /\ served = {}
      BY DEF Init, PQ!Init, FQ!Init, SFQ!Init, AFQ!Init
    <2>2. \A i : i \notin 1 .. Len(<<>>)
      OBVIOUS
    <2>3. CASE discipline \in {"priority", "fq"}
      <3>1. packets = <<>>
        BY <2>3 DEF Init, PQ!Init, FQ!Init
      <3>2. HeldIn(packets, pending) = {}
        BY <2>1, <2>2, <3>1 DEF HeldIn, IdsIn
      <3>3. QED
        BY <2>1, <2>3, <3>2, HeldIs DEF Server!Init
    <2>4. CASE discipline = "sfq"
      <3>1. \A q \in Queues : packets[q] = <<>>
        BY <2>4, SfqConstants DEF Init, SFQ!Init
      <3>2. PoolIds(packets, Queues) = {}
        BY <2>2, <3>1 DEF PoolIds
      <3>3. QED
        BY <2>1, <2>4, <3>2, HeldIs DEF Server!Init
    <2>5. CASE discipline = "afq"
      <3>1. \A q \in Fifos : packets[q] = <<>>
        BY <2>5, AfqConstants DEF Init, AFQ!Init
      <3>2. PoolIds(packets, Fifos) = {}
        BY <2>2, <3>1 DEF PoolIds
      <3>3. QED
        BY <2>1, <2>5, <3>2, HeldIs DEF Server!Init
    <2>6. QED
      BY <2>3, <2>4, <2>5 DEF Init
  <1>2. ServerInv /\ [Next]_vars => [Server!Next]_(Server!vars)
    <2> SUFFICES ASSUME ServerInv, [Next]_vars
                 PROVE  Server!Next \/ UNCHANGED Server!vars
      BY Zenon
    <2>1. CASE PriorityStep
      <3>1. PqInv /\ PQ!Next /\ discipline = "priority" /\ discipline' = "priority"
        BY <2>1 DEF PriorityStep, ServerInv
      <3>2. Held = HeldIn(packets, pending) /\ Held' = HeldIn(packets', pending')
        BY <3>1, HeldIs, HeldThen
      <3>3. CASE PQ!ReceivePacket
        BY <3>1, <3>2, <3>3, PqArrives, ServerSteps
      <3>4. CASE PQ!CompleteService
        BY <3>1, <3>2, <3>4, PqServes, ServerSteps
      <3>5. QED
        BY <3>1, <3>3, <3>4 DEF PQ!Next
    <2>2. CASE FairStep
      <3>1. /\ FairInv /\ currentPkt # FQ!Garbage /\ FQ!Next
            /\ discipline = "fq" /\ discipline' = "fq"
        BY <2>2 DEF FairStep, ServerInv, FairPoints
      <3>2. Held = HeldIn(packets, pending) /\ Held' = HeldIn(packets', pending')
        BY <3>1, HeldIs, HeldThen
      <3>3. CASE FQ!ReceivePacket
        BY <3>1, <3>2, <3>3, FairComes, ServerSteps
      <3>4. CASE FQ!CompleteService
        BY <3>1, <3>2, <3>4, FairGoes, ServerSteps
      <3>5. QED
        BY <3>1, <3>3, <3>4 DEF FQ!Next
    <2>3. CASE StocStep
      <3>1. StocInv /\ SFQ!Next /\ discipline = "sfq" /\ discipline' = "sfq"
        BY <2>3 DEF StocStep, ServerInv
      <3>2. Held = PoolIds(packets, Queues) /\ Held' = PoolIds(packets', Queues)
        BY <3>1, HeldIs, HeldThen
      <3>3. CASE SFQ!ReceivePacket
        BY <3>1, <3>2, <3>3, StocComes, ServerSteps
      <3>4. CASE SFQ!CompleteService
        BY <3>1, <3>2, <3>4, StocGoes, ServerSteps
      <3>5. QED
        BY <3>1, <3>3, <3>4 DEF SFQ!Next
    <2>4. CASE AprxStep
      <3>1. /\ AprxInv /\ AprxHeld /\ AFQ!Next
            /\ discipline = "afq" /\ discipline' = "afq"
        BY <2>4 DEF AprxStep, ServerInv
      <3>2. Held = PoolIds(packets, Fifos) /\ Held' = PoolIds(packets', Fifos)
        BY <3>1, HeldIs, HeldThen
      <3>3. CASE AFQ!ReceivePacket
        BY <3>1, <3>2, <3>3, AprxComes, ServerSteps
      <3>4. CASE AFQ!CompleteService
        BY <3>1, <3>2, <3>4, AprxGoes, ServerSteps
      <3>5. QED
        BY <3>1, <3>3, <3>4 DEF AFQ!Next
    <2>5. CASE UNCHANGED vars
      <3>1. /\ discipline' = discipline /\ packets' = packets
            /\ pending' = pending /\ arrived' = arrived
            /\ lost' = lost /\ served' = served
        BY <2>5 DEF vars
      <3>2. Held' = Held
        BY <3>1, HeldIs, HeldThen DEF ServerInv
      <3>3. QED
        BY <3>1, <3>2 DEF Server!vars
    <2>6. QED
      BY <2>1, <2>2, <2>3, <2>4, <2>5 DEF Next
  <1>3. QED
    BY <1>1, <1>2, ServersAreSound, PTL DEF Spec, Server!Spec
=============================================================================
