------------------------- MODULE Lab1TransferProofs -------------------------
(***************************************************************************)
(* Proofs about Lab1Transfer for every number of flows, flow size, segment *)
(* size, window, modulus and bound, and for both pairs of programs.  IInv  *)
(* is the inductive invariant; it says of each ack on the link how many    *)
(* segments it covers, which 32 bits do not tell.                          *)
(***************************************************************************)
EXTENDS Lab1Transfer, CommonLemmas, FiniteSetTheorems, SequenceTheorems,
        TLAPS

----------------------------------------------------------------------------
(* The inductive invariant *)

State == [inited : BOOLEAN, client_isn : 0 .. Word - 1, base_seg : Nat,
          bytes_contig : Nat, win : [0 .. ServerWindow - 1 -> Nat]]
Segment == [flow : Flows, idx : Nat, seq : 0 .. Word - 1, bytes : Nat]
Ack == [flow : Flows, ack : 0 .. Word - 1]

TypeInv ==
    /\ version \in {"lab1", "gpt"} /\ flow_size \in Nat \ {0}
    /\ client_isn \in [Flows -> 0 .. Word - 1]
    /\ next_seg \in [Flows -> Nat] /\ base_seg \in [Flows -> Nat]
    /\ in_flight \in [Flows -> Nat]
    /\ last_ack32 \in [Flows -> 0 .. Word - 1]
    /\ ack_bytes64 \in [Flows -> Nat]
    /\ flows \in [Flows -> State]
    /\ fwd \in Seq(Segment) /\ rev \in Seq(Ack)
    /\ got \in [Flows -> SUBSET Nat]
    /\ runs \in Nat \ {0}

\* The sequence number of an ack for the first k segments.
AckNo(isn, k) == (isn + BytesOf(k)) % Word

\* The edges of the client's window, for every flow.
Edges(next, base, fl) ==
    \A f \in Flows :
        /\ next[f] <= TotalSegs /\ base[f] <= TotalSegs
        /\ next[f] - base[f] <= fl[f] /\ fl[f] <= ClientWindow
        /\ base[f] >= TotalSegs => Completable

\* No segment or state of an earlier run counts in run r.
OneRun(r) == version = "lab1" \/ r = 1

\* What the client counts for a served flow: the bytes up to its left edge, and
\* the segments between its edges.
Counts(isn, next, base, fl, a32, a64, r) ==
    \A f \in Served :
        /\ version = "lab1" => /\ a64[f] = BytesOf(base[f])
                               /\ a32[f] = AckNo(isn[f], base[f])
        /\ OneRun(r) => base[f] >= TotalSegs \/ fl[f] = next[f] - base[f]

Active(n, base) == n = Cardinality({f \in Flows : ~(base[f] >= TotalSegs)})

\* The state st is what receiving the segments in S leaves.
Books(st, S) ==
    /\ st.base_seg <= TotalSegs
    /\ st.bytes_contig = BytesOf(st.base_seg)
    /\ 0 .. st.base_seg - 1 \subseteq S /\ st.base_seg \notin S
    /\ \A s \in S : s < TotalSegs /\ s < st.base_seg + ServerWindow
    /\ \A r \in 0 .. ServerWindow - 1 :
          st.win[r] = IF st.base_seg + r \in S THEN SegBytes(st.base_seg + r) ELSE 0

\* The state is of this run, or of one with its numbers.
Current(st, isn) == st.inited /\ st.client_isn = isn

Serves(isn, next, base, st, has, r) ==
    /\ \A f \in Served :
          /\ Current(st[f], isn[f]) => /\ Books(st[f], has[f])
                                       /\ base[f] <= st[f].base_seg
          /\ ~Current(st[f], isn[f]) => /\ has[f] = {} /\ base[f] = 0
                                        /\ version = "gpt" => ~st[f].inited
          /\ OneRun(r) => \A s \in has[f] : s < next[f]
    /\ \A f \in Flows \ Served : ~st[f].inited

\* The segments on the link are those that were sent.
Carries(q, isn, next) ==
    \A i \in 1 .. Len(q) :
        /\ q[i].idx < next[q[i].flow]
        /\ q[i].seq = SeqNo(isn[q[i].flow], q[i].idx)
        /\ q[i].bytes = SegBytes(q[i].idx)

\* The i-th ack on the link covers c[i] segments; those of a served flow are
\* between the client's edge and the server's, in order.
Covers(c, q, isn, base, st) ==
    \A i \in 1 .. Len(q) :
        /\ q[i].ack = AckNo(isn[q[i].flow], c[i])
        /\ q[i].flow \in Served =>
              /\ Current(st[q[i].flow], isn[q[i].flow])
              /\ base[q[i].flow] <= c[i] /\ c[i] <= st[q[i].flow].base_seg
              /\ \A j \in i .. Len(q) : q[j].flow = q[i].flow => c[i] <= c[j]

AcksCovered(q, isn, base, st) ==
    \E c \in [1 .. Len(q) -> 0 .. TotalSegs] : Covers(c, q, isn, base, st)

IInv ==
    /\ TypeInv
    /\ Edges(next_seg, base_seg, in_flight)
    /\ Counts(client_isn, next_seg, base_seg, in_flight, last_ack32, ack_bytes64, runs)
    /\ Active(active_flows, base_seg)
    /\ Serves(client_isn, next_seg, base_seg, flows, got, runs)
    /\ Carries(fwd, client_isn, next_seg)
    /\ AcksCovered(rev, client_isn, base_seg, flows)

\* The invariant of the next state, in terms of its variables.
IInvNext ==
    /\ TypeInv'
    /\ Edges(next_seg', base_seg', in_flight')
    /\ Counts(client_isn', next_seg', base_seg', in_flight', last_ack32',
              ack_bytes64', runs')
    /\ Active(active_flows', base_seg')
    /\ Serves(client_isn', next_seg', base_seg', flows', got', runs')
    /\ Carries(fwd', client_isn', next_seg')
    /\ AcksCovered(rev', client_isn', base_seg', flows')

----------------------------------------------------------------------------
(* Arithmetic *)

\* The initial number is recovered from a sequence number and what was added.
LEMMA Recovered ==
    \A isn \in 0 .. Word - 1 : \A x \in Nat : (((isn + x) % Word) - x) % Word = isn
<1> SUFFICES ASSUME NEW isn \in 0 .. Word - 1, NEW x \in Nat
      PROVE (((isn + x) % Word) - x) % Word = isn
  OBVIOUS
<1>1. Word \in Nat \ {0} /\ isn + x \in Int /\ x \in Int
  BY LabAssumption
<1>2. (((isn + x) % Word) - x) % Word = ((isn + x) - x) % Word
  BY <1>1, ModSub, Zenon
<1>3. (isn + x) - x = isn
  OBVIOUS
<1>4. isn % Word = isn
  BY <1>1
<1> QED
  BY <1>2, <1>3, <1>4

\* The distance of two acks is that of the byte counts.
LEMMA Distance ==
    \A isn \in 0 .. Word - 1 : \A x, y \in Nat :
        /\ (((isn + y) % Word) - isn) % Word = y % Word
        /\ (((isn + y) % Word) - ((isn + x) % Word)) % Word = (y - x) % Word
<1> SUFFICES ASSUME NEW isn \in 0 .. Word - 1, NEW x \in Nat, NEW y \in Nat
      PROVE /\ (((isn + y) % Word) - isn) % Word = y % Word
            /\ (((isn + y) % Word) - ((isn + x) % Word)) % Word = (y - x) % Word
  OBVIOUS
<1>1. Word \in Nat \ {0} /\ isn + x \in Int /\ isn + y \in Int /\ isn \in Int
      /\ (isn + x) % Word \in Int
  BY LabAssumption
<1>2. (((isn + y) % Word) - isn) % Word = ((isn + y) - isn) % Word
  BY <1>1, ModSub, Zenon
<1>3. (((isn + y) % Word) - ((isn + x) % Word)) % Word
         = ((isn + y) - ((isn + x) % Word)) % Word
  BY <1>1, ModSub, Zenon
<1>4. ((isn + y) - ((isn + x) % Word)) % Word = ((isn + y) - (isn + x)) % Word
  BY <1>1, ModSub, Zenon
<1>5. (isn + y) - isn = y /\ (isn + y) - (isn + x) = y - x
  OBVIOUS
<1> QED
  BY <1>2, <1>3, <1>4, <1>5

----------------------------------------------------------------------------
(* Sizes *)

\* The sizes of a flow: its segments, their bytes and how full the last one is.
LEMMA Sizes ==
    ASSUME flow_size \in Nat \ {0}
    PROVE  /\ DataPerSeg \in Nat \ {0} /\ Mss \in Nat \ {0} /\ Mini \in Nat \ {0}
           /\ Mss = DataPerSeg + Mini
           /\ TotalSegs \in Nat \ {0} /\ GoalBytes \in Nat
           /\ GoalBytes > (TotalSegs - 1) * Mss + Mini
           /\ GoalBytes <= TotalSegs * Mss
           /\ GoalBytes = TotalSegs * Mss => flow_size = TotalSegs * DataPerSeg
<1>1. /\ DataPerSeg \in Nat \ {0} /\ Mss \in Nat \ {0} /\ Mini \in Nat \ {0}
      /\ Mss = DataPerSeg + Mini
  BY LabAssumption DEF DataPerSeg
<1>2. /\ TotalSegs \in Nat \ {0} /\ (TotalSegs - 1) * DataPerSeg < flow_size
      /\ flow_size <= TotalSegs * DataPerSeg
  BY <1>1, CeilingOf, Zenon DEF TotalSegs
<1> DEFINE t == TotalSegs
<1>3. /\ t * Mss = t * DataPerSeg + t * Mini
      /\ (t - 1) * Mss = (t - 1) * DataPerSeg + (t - 1) * Mini
      /\ (t - 1) * Mini = t * Mini - Mini
  <2> HIDE DEF t
  <2> QED
    BY <1>1, <1>2 DEF t
<1>4. t * Mini \in Nat /\ t * DataPerSeg \in Nat /\ (t - 1) * DataPerSeg \in Nat
  BY <1>1, <1>2
<1> QED
  BY <1>1, <1>2, <1>3, <1>4 DEF GoalBytes

\* What the first k segments hold grows with k, by at most Mss a segment.
LEMMA BytesFacts ==
    ASSUME flow_size \in Nat \ {0}
    PROVE  /\ BytesOf(0) = 0 /\ BytesOf(TotalSegs) = GoalBytes
           /\ \A k \in 0 .. TotalSegs :
                 /\ BytesOf(k) \in Nat /\ BytesOf(k) <= k * Mss
                 /\ BytesOf(k) >= GoalBytes => k = TotalSegs
                 /\ k < TotalSegs => BytesOf(k) = k * Mss
                 /\ \A j \in 0 .. k : /\ BytesOf(j) <= BytesOf(k)
                                      /\ BytesOf(k) - BytesOf(j) <= (k - j) * Mss
<1> DEFINE t == TotalSegs
<1>1. /\ Mss \in Nat \ {0} /\ Mini \in Nat \ {0} /\ t \in Nat \ {0}
      /\ GoalBytes \in Nat /\ GoalBytes > (t - 1) * Mss + Mini
      /\ GoalBytes <= t * Mss
  BY Sizes
<1>2. BytesOf(0) = 0 /\ BytesOf(t) = GoalBytes
  BY <1>1 DEF BytesOf
<1>3. ASSUME NEW k \in 0 .. t
      PROVE  /\ BytesOf(k) \in Nat /\ BytesOf(k) <= k * Mss
             /\ BytesOf(k) >= GoalBytes => k = t
             /\ k < t => BytesOf(k) = k * Mss
  <2>1. CASE k = t
    BY <2>1, <1>1, <1>2
  <2>2. CASE k < t
    <3>1. BytesOf(k) = k * Mss
      BY <2>2 DEF BytesOf
    <3>2. k * Mss <= (t - 1) * Mss
      BY <2>2, <1>1, Mono
    <3>3. k * Mss \in Nat /\ (t - 1) * Mss \in Nat
      BY <1>1
    <3> QED
      BY <3>1, <3>2, <3>3, <1>1, <2>2
  <2> QED
    BY <2>1, <2>2, <1>1
<1>4. ASSUME NEW k \in 0 .. t, NEW j \in 0 .. k
      PROVE  /\ BytesOf(j) <= BytesOf(k)
             /\ BytesOf(k) - BytesOf(j) <= (k - j) * Mss
  <2>1. j \in 0 .. t /\ k * Mss \in Nat /\ j * Mss \in Nat
        /\ (k - j) * Mss = k * Mss - j * Mss /\ j * Mss <= k * Mss
    BY <1>1
  <2>2. CASE k < t
    <3>0. k < t /\ j \in 0 .. t /\ j < t
      BY <2>1, <2>2, <1>1
    <3>1. BytesOf(k) = k * Mss /\ BytesOf(j) = j * Mss
      BY <3>0, <1>3, Zenon
    <3> QED
      BY <3>1, <2>1
  <2>3. CASE k = t /\ j < t
    <3>1. BytesOf(k) = GoalBytes /\ BytesOf(j) = j * Mss
      BY <2>1, <2>3, <1>3, <1>2
    <3>2. j * Mss <= (t - 1) * Mss
      BY <2>3, <1>1, Mono
    <3>3. (t - 1) * Mss \in Nat
      BY <1>1
    <3> QED
      BY <3>1, <3>2, <3>3, <2>1, <2>3, <1>1
  <2>4. CASE k = t /\ j = t
    BY <2>4, <1>1, <1>2
  <2> QED
    BY <2>2, <2>3, <2>4, <1>1
<1> QED
  BY <1>2, <1>3, <1>4

\* A segment holds something, and that is what it adds to the bytes covered.
LEMMA SegBytesFacts ==
    ASSUME flow_size \in Nat \ {0}
    PROVE  \A s \in 0 .. TotalSegs - 1 :
               /\ SegBytes(s) \in Nat \ {0}
               /\ BytesOf(s + 1) = BytesOf(s) + SegBytes(s)
<1> DEFINE t == TotalSegs
<1>1. /\ DataPerSeg \in Nat \ {0} /\ Mss \in Nat \ {0} /\ Mini \in Nat \ {0}
      /\ Mss = DataPerSeg + Mini /\ t \in Nat \ {0}
      /\ GoalBytes > (t - 1) * Mss + Mini
  BY Sizes
<1>2. ASSUME NEW s \in 0 .. t - 1
      PROVE  /\ SegBytes(s) \in Nat \ {0}
             /\ BytesOf(s + 1) = BytesOf(s) + SegBytes(s)
  <2>1. CASE s = t - 1
    <3> DEFINE a == (t - 1) * DataPerSeg
               b == (t - 1) * Mini
    <3>1. /\ SegBytes(s) = flow_size - a + Mini
          /\ BytesOf(s + 1) = GoalBytes /\ BytesOf(s) = (t - 1) * Mss
      BY <2>1, <1>1 DEF SegBytes, BytesOf
    <3>2. (t - 1) * Mss = a + b /\ t * Mini = b + Mini /\ a \in Int /\ b \in Int
      BY <1>1
    <3>3. GoalBytes = flow_size + t * Mini
      BY DEF GoalBytes
    <3> HIDE DEF t, a, b
    <3> QED
      BY <3>1, <3>2, <3>3, <1>1
  <2>2. CASE s < t - 1
    <3>1. SegBytes(s) = Mss /\ BytesOf(s + 1) = (s + 1) * Mss /\ BytesOf(s) = s * Mss
      BY <2>2, <1>1 DEF SegBytes, BytesOf
    <3>2. (s + 1) * Mss = s * Mss + Mss
      BY <1>1
    <3> QED
      BY <3>1, <3>2, <1>1
  <2> QED
    BY <2>1, <2>2, <1>1
<1> QED
  BY <1>2

\* The earlier client's count of whole segments: never more than are covered,
\* and all of them only if the last one is full.
LEMMA WholeSegs ==
    ASSUME flow_size \in Nat \ {0}
    PROVE  \A k \in 0 .. TotalSegs :
               LET m == (BytesOf(k) % Word) \div Mss
               IN  /\ m \in 0 .. k
                   /\ m >= TotalSegs => flow_size % DataPerSeg = 0
<1> SUFFICES ASSUME NEW k \in 0 .. TotalSegs
             PROVE  LET m == (BytesOf(k) % Word) \div Mss
                    IN  /\ m \in 0 .. k
                        /\ m >= TotalSegs => flow_size % DataPerSeg = 0
  OBVIOUS
<1> DEFINE t == TotalSegs
           x == BytesOf(k) % Word
           m == x \div Mss
<1>1. /\ DataPerSeg \in Nat \ {0} /\ Mss \in Nat \ {0} /\ t \in Nat \ {0}
      /\ GoalBytes \in Nat /\ GoalBytes <= t * Mss
      /\ GoalBytes = t * Mss => flow_size = t * DataPerSeg
      /\ Word \in Nat \ {0}
  BY Sizes, LabAssumption
<1>2. BytesOf(k) \in Nat /\ BytesOf(k) <= k * Mss
  BY BytesFacts
<1>3. x \in Nat /\ x <= BytesOf(k)
  <2>1. \A y \in Nat : y % Word \in Nat /\ y % Word <= y
    BY <1>1
  <2> QED
    BY <2>1, <1>2
<1>4. m \in Nat /\ m * Mss <= x
  <2>1. \A y \in Nat : y \div Mss \in Nat /\ (y \div Mss) * Mss <= y
    BY <1>1
  <2> QED
    BY <2>1, <1>3, Zenon
<1> HIDE DEF x, m
<1>5. m <= k
  <2> SUFFICES ASSUME m > k PROVE FALSE
    BY <1>4
  <2> DEFINE a == m * Mss
             b == k * Mss
  <2>1. \A i, j \in Nat : i > j => i * Mss > j * Mss
    BY <1>1
  <2>2. a > b
    BY <2>1, <1>4
  <2>3. a <= x /\ BytesOf(k) <= b /\ a \in Nat /\ b \in Nat
    BY <1>1, <1>2, <1>4
  <2> HIDE DEF a, b
  <2> QED
    BY <2>2, <2>3, <1>2, <1>3
<1>6. ASSUME m >= t PROVE flow_size % DataPerSeg = 0
  <2>1. m = t /\ k = t
    BY <1>5, <1>6, <1>4, <1>1
  <2>2. BytesOf(k) = GoalBytes
    BY <2>1, BytesFacts
  <2>3. t * Mss <= GoalBytes
    BY <2>1, <2>2, <1>2, <1>3, <1>4, <1>1
  <2>4. GoalBytes = t * Mss
    BY <2>3, <1>1
  <2>5. flow_size = t * DataPerSeg
    BY <2>4, <1>1
  <2>6. \A d \in Nat \ {0} : \A q \in Nat : (q * d) % d = 0
    OBVIOUS
  <2> QED
    BY <2>5, <2>6, <1>1
<1> QED
  BY <1>4, <1>5, <1>6 DEF x, m

\* A number that leaves no remainder is a multiple.
LEMMA Divides ==
    \A d \in Nat \ {0} : \A x \in Int : \E q \in Int : x % d = 0 => x = q * d
<1> SUFFICES ASSUME NEW d \in Nat \ {0}, NEW x \in Int
             PROVE  \E q \in Int : x % d = 0 => x = q * d
  OBVIOUS
<1>1. PICK q \in Int : \E r \in 0 .. d - 1 : x = d * q + r /\ x % d = r
  BY DivMod
<1>2. x % d = 0 => x = d * q
  BY <1>1
<1>3. d * q = q * d
  OBVIOUS
<1> QED
  BY <1>2, <1>3, Zenon

\* The only multiple of d between the last full multiple and the next.
LEMMA ExactCeiling ==
    \A n, t, d \in Nat \ {0} :
        n % d = 0 /\ (t - 1) * d < n /\ n <= t * d => n = t * d
<1> SUFFICES ASSUME NEW n \in Nat \ {0}, NEW t \in Nat \ {0}, NEW d \in Nat \ {0},
                    n % d = 0, (t - 1) * d < n, n <= t * d
             PROVE  n = t * d
  OBVIOUS
<1>1. PICK q \in Int : n % d = 0 => n = q * d
  <2>1. n \in Int
    OBVIOUS
  <2> QED
    BY <2>1, Divides, Zenon
<1>2. n = q * d
  BY <1>1, Zenon
<1>3. ~(q > t)
  <2> SUFFICES ASSUME q >= t + 1 PROVE FALSE
    OBVIOUS
  <2>1. (t + 1) * d <= q * d /\ (t + 1) * d = t * d + d /\ t * d \in Int
    BY Mono
  <2> QED
    BY <2>1, <1>2
<1>4. ~(q < t)
  <2> SUFFICES ASSUME q <= t - 1 PROVE FALSE
    OBVIOUS
  <2>1. q * d <= (t - 1) * d /\ (t - 1) * d \in Int
    BY Mono
  <2> QED
    BY <2>1, <1>2
<1>5. q = t
  BY <1>3, <1>4
<1> QED
  BY <1>2, <1>5

\* A flow whose last segment is full has whole segments only.
LEMMA FullSegs ==
    ASSUME flow_size \in Nat \ {0}, flow_size % DataPerSeg = 0
    PROVE  BytesOf(TotalSegs) = TotalSegs * Mss
<1> DEFINE d == DataPerSeg
           t == TotalSegs
<1>1. d \in Nat \ {0} /\ Mini \in Nat /\ Mss = d + Mini /\ t \in Nat \ {0}
  BY Sizes
<1>2. (t - 1) * d < flow_size /\ flow_size <= t * d
  BY <1>1, CeilingOf, Zenon DEF TotalSegs
<1>3. flow_size % d = 0
  OBVIOUS
<1> HIDE DEF d, t
<1>4. flow_size = t * d
  BY <1>1, <1>2, <1>3, ExactCeiling
<1>5. t * Mss = t * d + t * Mini
  BY <1>1
<1> QED
  BY <1>4, <1>5, BytesFacts DEF GoalBytes, t

\* The lab client counts the segments of what an ack covers exactly.
LEMMA CountsSegs ==
    ASSUME flow_size \in Nat \ {0}
    PROVE  \A k \in 0 .. TotalSegs : k < TotalSegs => BytesOf(k) \div Mss = k
<1>1. Mss \in Nat \ {0}
  BY Sizes
<1>2. \A k \in Nat : (k * Mss) \div Mss = k
  BY <1>1
<1> QED
  BY <1>2, BytesFacts, Sizes

----------------------------------------------------------------------------
(* The server's window *)

Slots == [0 .. ServerWindow - 1 -> Nat]

\* The loop stops at the first free slot, or at the end of the window.
LEMMA EatenFacts ==
    ASSUME NEW win \in Slots
    PROVE  /\ Eaten(win) \in 0 .. ServerWindow
           /\ \A r \in 0 .. Eaten(win) - 1 : win[r] > 0
           /\ Eaten(win) < ServerWindow => win[Eaten(win)] = 0
<1> DEFINE S == {k \in 0 .. ServerWindow : k = ServerWindow \/ win[k] = 0}
<1>0. ServerWindow \in Nat \ {0}
  BY LabAssumption
<1>1. S \in SUBSET Nat /\ S # {}
  BY <1>0
<1>2. PICK k \in S : \A y \in S : k <= y
  <2> HIDE DEF S
  <2> QED
    BY <1>1, Least
<1>3. ASSUME NEW r \in 0 .. k - 1 PROVE win[r] > 0
  <2>1. r \notin S /\ r \in 0 .. ServerWindow /\ r \in 0 .. ServerWindow - 1
    BY <1>2, <1>0
  <2>2. win[r] # 0 /\ win[r] \in Nat
    BY <2>1 DEF Slots
  <2> QED
    BY <2>2
<1>4. \E j \in 0 .. ServerWindow : /\ \A r \in 0 .. j - 1 : win[r] > 0
                                   /\ j < ServerWindow => win[j] = 0
  BY <1>2, <1>3
<1> QED
  BY <1>4, Zenon DEF Eaten

\* The recursive function is the running sums.
LEMMA SumsAre ==
    \A N, b \in Nat : \A w \in [0 .. N - 1 -> Nat] :
        LET c == CHOOSE g : g = [r \in 0 .. N |->
                                    IF r = 0 THEN b ELSE g[r - 1] + w[r - 1]]
        IN  c[0] = b /\ \A r \in 1 .. N : c[r] = c[r - 1] + w[r - 1]
<1> SUFFICES ASSUME NEW N \in Nat, NEW b \in Nat, NEW w \in [0 .. N - 1 -> Nat]
    PROVE  LET c == CHOOSE g : g = [r \in 0 .. N |->
                                       IF r = 0 THEN b ELSE g[r - 1] + w[r - 1]]
           IN  c[0] = b /\ \A r \in 1 .. N : c[r] = c[r - 1] + w[r - 1]
  BY Zenon
<1> DEFINE F(g) == [r \in 0 .. N |-> IF r = 0 THEN b ELSE g[r - 1] + w[r - 1]]
           c == CHOOSE g : g = F(g)
<1>1. PICK g \in [0 .. N -> Nat] :
          \A r \in 0 .. N : g[r] = IF r = 0 THEN b ELSE g[r - 1] + w[r - 1]
  BY SumsExist
<1>2. g = F(g)
  BY <1>1
<1>3. c = F(c)
  <2> HIDE DEF F
  <2> QED
    BY <1>2, Zenon
<1>4. \A r \in 0 .. N : c[r] = IF r = 0 THEN b ELSE c[r - 1] + w[r - 1]
  <2> HIDE DEF c
  <2> QED
    BY <1>3
<1> HIDE DEF c
<1>5. c[0] = b /\ \A r \in 1 .. N : c[r] = c[r - 1] + w[r - 1]
  BY <1>4
<1> QED
  BY <1>5 DEF c

\* bytes_contig grows by the slot that is eaten.
LEMMA ContigAfterIs ==
    ASSUME NEW st \in State
    PROVE  /\ ContigAfter(st)[0] = st.bytes_contig
           /\ \A r \in 1 .. ServerWindow :
                 ContigAfter(st)[r] = ContigAfter(st)[r - 1] + st.win[r - 1]
<1>1. ServerWindow \in Nat /\ st.bytes_contig \in Nat
      /\ st.win \in [0 .. ServerWindow - 1 -> Nat]
  BY LabAssumption DEF State
<1> DEFINE N == ServerWindow
           w == st.win
           b == st.bytes_contig
           c == CHOOSE g : g = [r \in 0 .. N |->
                                   IF r = 0 THEN b ELSE g[r - 1] + w[r - 1]]
<1>2. c[0] = b /\ \A r \in 1 .. N : c[r] = c[r - 1] + w[r - 1]
  <2>1. N \in Nat /\ b \in Nat /\ w \in [0 .. N - 1 -> Nat]
    BY <1>1
  <2> HIDE DEF N, w, b
  <2> QED
    BY <2>1, SumsAre, Zenon
<1>3. ContigAfter(st) = c
  BY DEF ContigAfter
<1> QED
  BY <1>2, <1>3, Zenon

\* What holds of a state whose window is marked and not yet advanced.
Marked(st, S) ==
    /\ st.base_seg <= TotalSegs
    /\ st.bytes_contig = BytesOf(st.base_seg)
    /\ 0 .. st.base_seg - 1 \subseteq S
    /\ \A s \in S : s < TotalSegs /\ s < st.base_seg + ServerWindow
    /\ \A r \in 0 .. ServerWindow - 1 :
          st.win[r] = IF st.base_seg + r \in S THEN SegBytes(st.base_seg + r) ELSE 0

\* Advancing a marked window makes the books right again.
LEMMA AdvanceBooks ==
    ASSUME flow_size \in Nat \ {0}, NEW st \in State, NEW S \in SUBSET Nat,
           Marked(st, S)
    PROVE  /\ Advance(st) \in State /\ Books(Advance(st), S)
           /\ Advance(st).inited = st.inited
           /\ Advance(st).client_isn = st.client_isn
           /\ Advance(st).base_seg >= st.base_seg
<1> DEFINE k == Eaten(st.win)
           b == st.base_seg
           t == TotalSegs
           new == Advance(st)
<1>0. /\ ServerWindow \in Nat \ {0} /\ b \in Nat /\ t \in Nat \ {0}
      /\ st.win \in Slots /\ \A r \in 0 .. ServerWindow - 1 : st.win[r] \in Nat
  BY LabAssumption, Sizes DEF State, Slots
<1>1. /\ k \in 0 .. ServerWindow
      /\ \A r \in 0 .. k - 1 : st.win[r] > 0
      /\ k < ServerWindow => st.win[k] = 0
  BY <1>0, EatenFacts
<1>2. ASSUME NEW r \in 0 .. ServerWindow - 1
      PROVE  /\ st.win[r] > 0 => b + r \in S /\ st.win[r] = SegBytes(b + r)
             /\ st.win[r] = 0 => b + r \notin S
  <2>1. st.win[r] = IF b + r \in S THEN SegBytes(b + r) ELSE 0
    BY DEF Marked
  <2>2. b + r \in S => b + r \in 0 .. t - 1
    BY <1>0 DEF Marked
  <2>3. b + r \in S => SegBytes(b + r) \in Nat \ {0}
    BY <2>2, SegBytesFacts
  <2> QED
    BY <2>1, <2>3, <1>0
<1> HIDE DEF k
<1>3. ASSUME NEW r \in 0 .. k - 1
      PROVE  b + r \in S /\ b + r \in 0 .. t - 1 /\ st.win[r] = SegBytes(b + r)
  <2>1. r \in 0 .. ServerWindow - 1 /\ st.win[r] > 0
    BY <1>1, <1>0
  <2>2. b + r \in S /\ st.win[r] = SegBytes(b + r)
    BY <2>1, <1>2
  <2> QED
    BY <2>2, <1>0 DEF Marked
<1>4. b + k <= t
  <2>1. CASE k = 0
    BY <2>1, <1>0 DEF Marked
  <2>2. CASE k > 0
    <3>1. k - 1 \in 0 .. k - 1
      BY <1>1, <2>2
    <3>2. b + (k - 1) \in 0 .. t - 1
      BY <3>1, <1>3
    <3> QED
      BY <3>2, <1>0, <1>1
  <2> QED
    BY <2>1, <2>2, <1>1
<1> DEFINE c == ContigAfter(st)
<1>5. c[k] = BytesOf(b + k)
  <2> DEFINE R == {j \in Nat : j <= k => c[j] = BytesOf(b + j)}
  <2>1. 0 \in R
    <3>1. c[0] = BytesOf(b)
      BY ContigAfterIs DEF Marked
    <3> QED
      BY <3>1, <1>0
  <2>2. ASSUME NEW j \in R PROVE j + 1 \in R
    <3> SUFFICES ASSUME j + 1 <= k PROVE c[j + 1] = BytesOf(b + (j + 1))
      OBVIOUS
    <3>1. j \in 0 .. k - 1 /\ j + 1 \in 1 .. ServerWindow /\ (j + 1) - 1 = j
      BY <1>0, <1>1
    <3>2. c[j + 1] = c[(j + 1) - 1] + st.win[(j + 1) - 1]
      BY <3>1, ContigAfterIs
    <3>6. j <= k
      BY <3>1, <1>1
    <3>7. c[j] = BytesOf(b + j)
      BY <3>6
    <3>8. st.win[j] = SegBytes(b + j)
      BY <3>1, <1>3
    <3>3. c[j + 1] = BytesOf(b + j) + SegBytes(b + j)
      BY <3>1, <3>2, <3>7, <3>8
    <3>4. BytesOf((b + j) + 1) = BytesOf(b + j) + SegBytes(b + j)
      BY <3>1, <1>3, SegBytesFacts
    <3>5. (b + j) + 1 = b + (j + 1)
      BY <1>0, <3>1
    <3> QED
      BY <3>3, <3>4, <3>5
  <2>3. R = Nat
    <3>1. R \in SUBSET Nat
      OBVIOUS
    <3> HIDE DEF R
    <3> QED
      BY <2>1, <2>2, <3>1, Induct
  <2>4. k \in R
    BY <2>3, <1>1
  <2>5. k <= k
    BY <1>1
  <2> QED
    BY <2>4, <2>5, Zenon
<1>6. /\ new.base_seg = b + k /\ new.bytes_contig = c[k]
      /\ new.inited = st.inited /\ new.client_isn = st.client_isn
      /\ new.win = [r \in 0 .. ServerWindow - 1 |->
                       IF r + k < ServerWindow THEN st.win[r + k] ELSE 0]
      /\ DOMAIN new = {"inited", "client_isn", "base_seg", "bytes_contig", "win"}
  BY DEF Advance, State, k
<1>7. BytesOf(b + k) \in Nat /\ b + k \in Nat
  BY <1>0, <1>1, <1>4, BytesFacts
<1>8. new.win \in [0 .. ServerWindow - 1 -> Nat]
  BY <1>6, <1>0, <1>1
<1>9. new \in State
  <2> DEFINE v == new.win
             x == b + k
             y == c[k]
  <2>1. new = [st EXCEPT !.base_seg = x, !.bytes_contig = y, !.win = v]
    BY <1>6 DEF Advance, k
  <2>2. x \in Nat /\ y \in Nat /\ v \in [0 .. ServerWindow - 1 -> Nat]
    BY <1>5, <1>7, <1>8
  <2> HIDE DEF new, v, x, y
  <2> QED
    BY <2>1, <2>2 DEF State
<1>10. b + k \notin S
  <2>1. CASE k < ServerWindow
    <3>1. k \in 0 .. ServerWindow - 1 /\ st.win[k] = 0
      BY <2>1, <1>1, <1>0
    <3> QED
      BY <3>1, <1>2
  <2>2. CASE k = ServerWindow
    BY <2>2, <1>0 DEF Marked
  <2> QED
    BY <2>1, <2>2, <1>1, <1>0
<1>11. \A s \in S : s < t /\ s < (b + k) + ServerWindow
  BY <1>0, <1>1 DEF Marked
<1>12. 0 .. (b + k) - 1 \subseteq S
  <2> SUFFICES ASSUME NEW s \in 0 .. (b + k) - 1 PROVE s \in S
    OBVIOUS
  <2>1. CASE s < b
    BY <2>1, <1>0 DEF Marked
  <2>2. CASE s >= b
    <3>1. s - b \in 0 .. k - 1 /\ b + (s - b) = s
      BY <2>2, <1>0, <1>1
    <3> QED
      BY <3>1, <1>3
  <2> QED
    BY <2>1, <2>2, <1>0
<1>13. ASSUME NEW r \in 0 .. ServerWindow - 1
       PROVE  new.win[r] = IF (b + k) + r \in S THEN SegBytes((b + k) + r) ELSE 0
  <2>0. (b + k) + r = b + (r + k)
    BY <1>0, <1>1
  <2>1. CASE r + k < ServerWindow
    <3>1. r + k \in 0 .. ServerWindow - 1
      BY <2>1, <1>0, <1>1
    <3>2. new.win[r] = st.win[r + k]
      BY <2>1, <1>6
    <3>3. st.win[r + k] = IF b + (r + k) \in S THEN SegBytes(b + (r + k)) ELSE 0
      BY <3>1 DEF Marked
    <3> QED
      BY <2>0, <3>2, <3>3
  <2>2. CASE ~(r + k < ServerWindow)
    <3>1. new.win[r] = 0
      BY <2>2, <1>6
    <3>2. b + (r + k) \notin S
      BY <2>2, <1>0, <1>1 DEF Marked
    <3> QED
      BY <2>0, <3>1, <3>2
  <2> QED
    BY <2>1, <2>2
<1>14. Books(new, S)
  <2> HIDE DEF new, c, b, t
  <2>1. new.base_seg <= TotalSegs /\ new.bytes_contig = BytesOf(new.base_seg)
    BY <1>4, <1>5, <1>6 DEF t
  <2>2. 0 .. new.base_seg - 1 \subseteq S /\ new.base_seg \notin S
    BY <1>6, <1>10, <1>12
  <2>3. \A s \in S : s < TotalSegs /\ s < new.base_seg + ServerWindow
    BY <1>6, <1>11 DEF t
  <2>4. \A r \in 0 .. ServerWindow - 1 :
            new.win[r] = IF new.base_seg + r \in S
                         THEN SegBytes(new.base_seg + r) ELSE 0
    BY <1>6, <1>13
  <2> QED
    BY <2>1, <2>2, <2>3, <2>4, Zenon DEF Books
<1>15. new.base_seg >= b
  BY <1>6, <1>0, <1>1
<1> QED
  BY <1>6, <1>9, <1>14, <1>15

\* A segment within reach of the window keeps the books right.
LEMMA MarkBooks ==
    ASSUME flow_size \in Nat \ {0}, NEW st \in State, NEW S \in SUBSET Nat,
           Books(st, S), NEW idx \in 0 .. TotalSegs - 1,
           idx < st.base_seg + ServerWindow
    PROVE  LET new == MarkAndAdvance(st, idx, SegBytes(idx))
           IN  /\ new \in State /\ Books(new, S \cup {idx})
               /\ new.inited = st.inited /\ new.client_isn = st.client_isn
               /\ new.base_seg >= st.base_seg
<1> DEFINE new == MarkAndAdvance(st, idx, SegBytes(idx))
           b == st.base_seg
<1>0. ServerWindow \in Nat \ {0} /\ b \in Nat
  BY LabAssumption DEF State
<1>1. CASE idx < b
  <2>1. new = st /\ S \cup {idx} = S
    BY <1>1, <1>0 DEF MarkAndAdvance, Books
  <2> QED
    BY <2>1, <1>0
<1>2. CASE idx >= b
  <2> DEFINE x == [st EXCEPT !.win[idx - b] = SegBytes(idx)]
  <2>1. new = Advance(x)
    BY <1>2, <1>0 DEF MarkAndAdvance
  <2>2. SegBytes(idx) \in Nat
    BY SegBytesFacts
  <2>3. idx - b \in 0 .. ServerWindow - 1
    BY <1>2, <1>0
  <2>4. /\ x \in State /\ x.base_seg = b /\ x.bytes_contig = st.bytes_contig
        /\ x.inited = st.inited /\ x.client_isn = st.client_isn
        /\ \A r \in 0 .. ServerWindow - 1 :
              x.win[r] = IF r = idx - b THEN SegBytes(idx) ELSE st.win[r]
    BY <2>2, <2>3 DEF State
  <2>5. ASSUME NEW r \in 0 .. ServerWindow - 1
        PROVE  x.win[r] = IF x.base_seg + r \in S \cup {idx}
                          THEN SegBytes(x.base_seg + r) ELSE 0
    <3>1. CASE r = idx - b
      <4>1. b + r = idx /\ x.win[r] = SegBytes(idx)
        BY <3>1, <2>4, <1>0
      <4> QED
        BY <4>1, <2>4
    <3>2. CASE r # idx - b
      <4>1. b + r # idx /\ x.win[r] = st.win[r]
        BY <3>2, <2>4, <1>0
      <4>2. st.win[r] = IF b + r \in S THEN SegBytes(b + r) ELSE 0
        BY DEF Books
      <4> QED
        BY <4>1, <4>2, <2>4
    <3> QED
      BY <3>1, <3>2
  <2>6. /\ x.base_seg <= TotalSegs /\ x.bytes_contig = BytesOf(x.base_seg)
        /\ 0 .. x.base_seg - 1 \subseteq S \cup {idx}
        /\ \A s \in S \cup {idx} : s < TotalSegs /\ s < x.base_seg + ServerWindow
    <3>1. idx < TotalSegs
      BY Sizes
    <3> QED
      BY <3>1, <2>4 DEF Books
  <2>7. Marked(x, S \cup {idx})
    <3> HIDE DEF x
    <3> QED
      BY <2>5, <2>6, Zenon DEF Marked
  <2>8. S \cup {idx} \in SUBSET Nat
    BY Sizes
  <2>9. /\ new \in State /\ Books(new, S \cup {idx})
        /\ new.inited = st.inited /\ new.client_isn = st.client_isn
        /\ new.base_seg >= b
    <3> HIDE DEF x, new
    <3> QED
      BY <2>1, <2>4, <2>7, <2>8, AdvanceBooks
  <2> QED
    BY <2>9
<1> QED
  BY <1>1, <1>2, <1>0

\* A state that is reset is right for no segment.
LEMMA ResetBooks ==
    ASSUME flow_size \in Nat \ {0}, NEW st, NEW isn \in 0 .. Word - 1
    PROVE  /\ Reset(st, isn) \in State /\ Books(Reset(st, isn), {})
           /\ Reset(st, isn).inited /\ Reset(st, isn).client_isn = isn
           /\ Reset(st, isn).base_seg = 0
<1>1. BytesOf(0) = 0 /\ TotalSegs \in Nat \ {0} /\ ServerWindow \in Nat \ {0}
  BY BytesFacts, Sizes, LabAssumption
<1> QED
  BY <1>1 DEF Reset, EmptyWindow, State, Books

----------------------------------------------------------------------------
(* Sequences *)

\* Where the j-th element was before the i-th was removed.
Was(i, j) == IF j < i THEN j ELSE j + 1

\* What removing an element leaves of a sequence.
LEMMA RemoveAtFacts ==
    ASSUME NEW T, NEW s \in Seq(T), NEW i \in 1 .. Len(s)
    PROVE  /\ RemoveAt(s, i) \in Seq(T)
           /\ Len(RemoveAt(s, i)) = Len(s) - 1
           /\ \A j \in 1 .. Len(s) - 1 :
                 Was(i, j) \in 1 .. Len(s) /\ RemoveAt(s, i)[j] = s[Was(i, j)]
<1> DEFINE a == SubSeq(s, 1, i - 1)
           b == SubSeq(s, i + 1, Len(s))
<1>0. Len(s) \in Nat /\ \A j \in 1 .. Len(s) : s[j] \in T
  OBVIOUS
<1>1. /\ a \in Seq(T) /\ Len(a) = i - 1
      /\ \A j \in 1 .. i - 1 : a[j] = s[j]
  BY <1>0
<1>2. /\ b \in Seq(T) /\ Len(b) = Len(s) - i
      /\ \A j \in 1 .. Len(s) - i : b[j] = s[i + j]
  BY <1>0
<1>3. RemoveAt(s, i) = a \o b
  BY DEF RemoveAt
<1> HIDE DEF a, b
<1>4. /\ a \o b \in Seq(T) /\ Len(a \o b) = Len(s) - 1
      /\ \A j \in 1 .. Len(s) - 1 :
            (a \o b)[j] = IF j <= i - 1 THEN a[j] ELSE b[j - (i - 1)]
  <2>1. /\ a \o b \in Seq(T) /\ Len(a \o b) = Len(a) + Len(b)
        /\ \A j \in 1 .. Len(a) + Len(b) :
              (a \o b)[j] = IF j <= Len(a) THEN a[j] ELSE b[j - Len(a)]
    BY <1>1, <1>2, ConcatProperties, Zenon
  <2>4. Len(a) + Len(b) = Len(s) - 1
    BY <1>0, <1>1, <1>2
  <2> QED
    BY <2>1, <2>4, <1>1
<1>5. ASSUME NEW j \in 1 .. Len(s) - 1
      PROVE  Was(i, j) \in 1 .. Len(s) /\ (a \o b)[j] = s[Was(i, j)]
  <2>1. CASE j < i
    BY <2>1, <1>0, <1>1, <1>4 DEF Was
  <2>2. CASE j >= i
    <3>1. j - (i - 1) \in 1 .. Len(s) - i /\ i + (j - (i - 1)) = j + 1
      BY <2>2, <1>0
    <3>2. b[j - (i - 1)] = s[j + 1]
      BY <3>1, <1>2
    <3>3. (a \o b)[j] = s[j + 1]
      BY <2>2, <3>2, <1>0, <1>4
    <3>4. Was(i, j) = j + 1 /\ j + 1 \in 1 .. Len(s)
      BY <2>2, <1>0 DEF Was
    <3> QED
      BY <3>3, <3>4, Zenon
  <2>3. j < i \/ j >= i
    BY <1>0
  <2> QED
    BY <2>1, <2>2, <2>3, Zenon
<1> QED
  BY <1>3, <1>4, <1>5

----------------------------------------------------------------------------
(* The steps *)

\* The invariant of the next state, when the program and the flow's size stay.
LEMMA NextForm ==
    ASSUME UNCHANGED <<version, flow_size>>, IInvNext
    PROVE  IInv'
<1>1. TotalSegs' = TotalSegs /\ GoalBytes' = GoalBytes
  BY DEF TotalSegs, GoalBytes
<1>2. Edges(next_seg, base_seg, in_flight)'
  BY <1>1 DEF IInvNext, Edges, Completable
<1>3. Counts(client_isn, next_seg, base_seg, in_flight, last_ack32,
             ack_bytes64, runs)'
  BY <1>1 DEF IInvNext, Counts, AckNo, BytesOf, OneRun
<1>4. Active(active_flows, base_seg)'
  BY <1>1 DEF IInvNext, Active
<1>5. Serves(client_isn, next_seg, base_seg, flows, got, runs)'
  BY <1>1 DEF IInvNext, Serves, Current, Books, BytesOf, SegBytes, OneRun
<1>6. Carries(fwd, client_isn, next_seg)'
  BY <1>1 DEF IInvNext, Carries, SegBytes, SeqNo
<1>7. AcksCovered(rev, client_isn, base_seg, flows)'
  BY <1>1 DEF IInvNext, AcksCovered, Covers, AckNo, BytesOf, Current
<1> QED
  BY <1>2, <1>3, <1>4, <1>5, <1>6, <1>7 DEF IInv, IInvNext

\* Sequence numbers are below the modulus.
LEMMA SeqNoType ==
    \A isn \in 0 .. Word - 1 :
        /\ \A x \in Int : (isn + x) % Word \in 0 .. Word - 1
        /\ (isn + 0) % Word = isn
<1>1. Word \in Nat
  BY LabAssumption
<1> QED
  BY <1>1

\* The initial states satisfy the invariant.
LEMMA Initially == Init => IInv
<1> SUFFICES ASSUME Init PROVE IInv
  OBVIOUS
<1> USE DEF Init
<1>1. /\ version \in {"lab1", "gpt"} /\ flow_size \in Nat \ {0}
      /\ {FlowNum, MaxFlows, ClientWindow, ServerWindow} \subseteq Nat \ {0}
      /\ Word \in Nat \ {0} /\ Isns \subseteq 0 .. Word - 1
  BY LabAssumption
<1>2. BytesOf(0) = 0 /\ TotalSegs \in Nat \ {0}
  BY <1>1, BytesFacts, Sizes
<1>3. TypeInv
  <2>1. EmptyWindow \in [0 .. ServerWindow - 1 -> Nat] /\ 0 \in 0 .. Word - 1
    BY <1>1 DEF EmptyWindow
  <2>2. flows \in [Flows -> State]
    BY <2>1 DEF State
  <2>3. fwd \in Seq(Segment) /\ rev \in Seq(Ack)
    OBVIOUS
  <2>4. client_isn \in [Flows -> 0 .. Word - 1]
    BY <1>1
  <2>5. /\ next_seg \in [Flows -> Nat] /\ base_seg \in [Flows -> Nat]
        /\ in_flight \in [Flows -> Nat] /\ ack_bytes64 \in [Flows -> Nat]
        /\ got \in [Flows -> SUBSET Nat] /\ runs \in Nat \ {0}
    OBVIOUS
  <2> QED
    BY <1>1, <2>2, <2>3, <2>4, <2>5 DEF TypeInv
<1>4. Edges(next_seg, base_seg, in_flight)
  BY <1>1, <1>2 DEF Edges
<1>5. Counts(client_isn, next_seg, base_seg, in_flight, last_ack32,
             ack_bytes64, runs)
  <2>1. \A f \in Flows : base_seg[f] = 0 /\ next_seg[f] = 0 /\ in_flight[f] = 0
                          /\ ack_bytes64[f] = 0
    OBVIOUS
  <2>2. ASSUME NEW f \in Flows
        PROVE  client_isn[f] \in 0 .. Word - 1 /\ last_ack32[f] = client_isn[f]
    BY <1>1
  <2>3. ASSUME NEW f \in Flows PROVE last_ack32[f] = AckNo(client_isn[f], base_seg[f])
    BY <1>2, <2>1, <2>2, SeqNoType DEF AckNo
  <2> QED
    BY <1>2, <2>1, <2>3 DEF Counts, Served
<1>6. Active(active_flows, base_seg)
  <2>1. {f \in Flows : ~(base_seg[f] >= TotalSegs)} = Flows
    BY <1>2
  <2>2. Cardinality(Flows) = FlowNum
    BY <1>1, FS_Interval DEF Flows
  <2> QED
    BY <2>1, <2>2 DEF Active
<1>7. Serves(client_isn, next_seg, base_seg, flows, got, runs)
  BY DEF Serves, Served, Current
<1>8. Carries(fwd, client_isn, next_seg)
  BY DEF Carries
<1>9. AcksCovered(rev, client_isn, base_seg, flows)
  <2> DEFINE c == [i \in 1 .. 0 |-> 0]
  <2>1. /\ c \in [1 .. Len(rev) -> 0 .. TotalSegs]
        /\ Covers(c, rev, client_isn, base_seg, flows)
    BY DEF Covers
  <2> QED
    BY <2>1, Zenon DEF AcksCovered
<1> QED
  BY <1>3, <1>4, <1>5, <1>6, <1>7, <1>8, <1>9 DEF IInv

\* What every step may assume of the constants and the state.
LEMMA Basics ==
    ASSUME TypeInv
    PROVE  /\ {FlowNum, MaxFlows, ClientWindow, ServerWindow, Word} \subseteq Nat \ {0}
           /\ Served \subseteq Flows /\ TotalSegs \in Nat \ {0}
           /\ flow_size \in Nat \ {0} /\ Mss \in Nat \ {0} /\ GoalBytes \in Nat
<1>1. flow_size \in Nat \ {0}
  BY DEF TypeInv
<1>2. Word \in Nat \ {0}
  <2>1. ClientWindow * Mss \in Nat
    BY LabAssumption
  <2> QED
    BY <2>1, LabAssumption
<1> QED
  BY <1>1, <1>2, LabAssumption, Sizes DEF Served

\* Sending a segment preserves the invariant.
LEMMA SendStep ==
    ASSUME IInv, NEW f \in Flows, SendSegment(f)
    PROVE  IInv'
<1> USE DEF SendSegment, WindowOpen
<1> DEFINE n == next_seg[f]
           seg == [flow |-> f, idx |-> n, seq |-> SeqNo(client_isn[f], n),
                   bytes |-> SegBytes(n)]
<1>1. /\ TypeInv /\ TotalSegs \in Nat \ {0} /\ flow_size \in Nat \ {0}
      /\ ClientWindow \in Nat /\ Served \subseteq Flows
  BY Basics DEF IInv
<1>2. /\ n \in 0 .. TotalSegs - 1 /\ n \in Nat /\ fwd \in Seq(Segment)
      /\ next_seg \in [Flows -> Nat] /\ base_seg \in [Flows -> Nat]
      /\ in_flight \in [Flows -> Nat] /\ client_isn \in [Flows -> 0 .. Word - 1]
      /\ got \in [Flows -> SUBSET Nat]
  BY <1>1 DEF TypeInv
<1>3. seg \in Segment
  <2>1. SegBytes(n) \in Nat
    BY <1>1, <1>2, SegBytesFacts
  <2>2. SeqNo(client_isn[f], n) \in 0 .. Word - 1
    <3>1. n * Mss \in Int
      BY <1>2, LabAssumption
    <3> QED
      BY <1>2, <3>1, SeqNoType DEF SeqNo
  <2> QED
    BY <1>2, <2>1, <2>2 DEF Segment
<1>4. /\ fwd' = Append(fwd, seg) /\ Len(fwd') = Len(fwd) + 1
      /\ fwd' \in Seq(Segment)
      /\ \A i \in 1 .. Len(fwd) : fwd'[i] = fwd[i] /\ fwd'[i] \in Segment
      /\ fwd'[Len(fwd) + 1] = seg
  <2> HIDE DEF seg
  <2>1. fwd' = Append(fwd, seg)
    BY DEF seg
  <2> QED
    BY <1>2, <1>3, <2>1
<1>5. \A g \in Flows : /\ next_seg'[g] = IF g = f THEN n + 1 ELSE next_seg[g]
                       /\ in_flight'[g] = in_flight[g] + IF g = f THEN 1 ELSE 0
                       /\ next_seg[g] <= next_seg'[g]
                       /\ next_seg[g] \in Nat /\ next_seg'[g] \in Nat
  BY <1>2
<1>6. TypeInv'
  <2>1. next_seg' \in [Flows -> Nat] /\ in_flight' \in [Flows -> Nat]
    BY <1>2
  <2> HIDE DEF SendSegment
  <2> QED
    BY <1>1, <1>4, <2>1 DEF TypeInv, SendSegment
<1>7. Edges(next_seg', base_seg', in_flight')
  BY <1>1, <1>2, <1>5 DEF IInv, Edges
<1>8. Counts(client_isn', next_seg', base_seg', in_flight', last_ack32',
             ack_bytes64', runs')
  <2>1. ASSUME NEW g \in Served, in_flight[g] = next_seg[g] - base_seg[g]
        PROVE  in_flight'[g] = next_seg'[g] - base_seg[g]
    BY <2>1, <1>1, <1>2, <1>5
  <2> QED
    BY <2>1 DEF IInv, Counts, OneRun
<1>9. Active(active_flows', base_seg')
  BY DEF IInv, Active
<1>10. Serves(client_isn', next_seg', base_seg', flows', got', runs')
  <2>1. ASSUME NEW g \in Served, NEW s \in got[g], s < next_seg[g]
        PROVE  s < next_seg'[g]
    <3>1. g \in Flows /\ s \in Nat
      BY <1>1, <1>2
    <3> QED
      BY <2>1, <3>1, <1>5
  <2> QED
    BY <2>1 DEF IInv, Serves
<1>11. Carries(fwd', client_isn', next_seg')
  <2> SUFFICES ASSUME NEW i \in 1 .. Len(fwd')
               PROVE  /\ fwd'[i].idx < next_seg'[fwd'[i].flow]
                      /\ fwd'[i].seq = SeqNo(client_isn[fwd'[i].flow], fwd'[i].idx)
                      /\ fwd'[i].bytes = SegBytes(fwd'[i].idx)
    BY DEF Carries
  <2>1. CASE i = Len(fwd) + 1
    BY <2>1, <1>2, <1>4, <1>5
  <2>2. CASE i \in 1 .. Len(fwd)
    <3>1. fwd'[i] = fwd[i] /\ fwd[i].flow \in Flows /\ fwd[i].idx \in Nat
      BY <2>2, <1>4 DEF Segment
    <3>2. /\ fwd[i].idx < next_seg[fwd[i].flow]
          /\ fwd[i].seq = SeqNo(client_isn[fwd[i].flow], fwd[i].idx)
          /\ fwd[i].bytes = SegBytes(fwd[i].idx)
      BY <2>2 DEF IInv, Carries
    <3> QED
      BY <3>1, <3>2, <1>5
  <2> QED
    BY <2>1, <2>2, <1>2, <1>4
<1>12. AcksCovered(rev', client_isn', base_seg', flows')
  BY DEF IInv
<1> QED
  BY <1>6, <1>7, <1>8, <1>9, <1>10, <1>11, <1>12, NextForm DEF IInvNext

\* The flow of the ack that is read next.
Acked == Head(rev).flow

\* The ack read next covers some number of segments; when the left edge is moved
\* no further than that, what is said of the other acks stays true.
LEMMA FirstAck ==
    ASSUME IInv, rev # <<>>
    PROVE  \E k \in 0 .. TotalSegs :
              /\ Head(rev).ack = AckNo(client_isn[Acked], k)
              /\ Acked \in Served =>
                    /\ Current(flows[Acked], client_isn[Acked])
                    /\ base_seg[Acked] <= k /\ k <= flows[Acked].base_seg
              /\ \A b \in Nat : (Acked \in Served => b <= k) =>
                    AcksCovered(Tail(rev), client_isn,
                                [base_seg EXCEPT ![Acked] = b], flows)
<1>1. /\ TypeInv /\ rev \in Seq(Ack) /\ base_seg \in [Flows -> Nat]
      /\ TotalSegs \in Nat \ {0}
  BY Basics DEF IInv, TypeInv
<1>2. /\ Len(rev) \in Nat \ {0} /\ Head(rev) = rev[1] /\ rev[1].flow \in Flows
      /\ Tail(rev) \in Seq(Ack) /\ Len(Tail(rev)) = Len(rev) - 1
      /\ \A i \in 1 .. Len(rev) - 1 :
            i + 1 \in 1 .. Len(rev) /\ Tail(rev)[i] = rev[i + 1]
  <2>1. /\ Len(rev) \in Nat \ {0} /\ Head(rev) = rev[1] /\ rev[1] \in Ack
        /\ Tail(rev) \in Seq(Ack) /\ Len(Tail(rev)) = Len(rev) - 1
    BY <1>1
  <2>2. \A i \in 1 .. Len(rev) - 1 : Tail(rev)[i] = rev[i + 1]
    BY <1>1, <2>1
  <2>3. rev[1].flow \in Flows
    BY <2>1 DEF Ack
  <2> QED
    BY <2>1, <2>2, <2>3
<1>3. PICK c \in [1 .. Len(rev) -> 0 .. TotalSegs] :
          Covers(c, rev, client_isn, base_seg, flows)
  BY DEF IInv, AcksCovered
<1> DEFINE k == c[1]
<1>4. k \in 0 .. TotalSegs /\ 1 \in 1 .. Len(rev)
  BY <1>2
<1>5. /\ rev[1].ack = AckNo(client_isn[Acked], k)
      /\ Acked \in Served =>
            /\ Current(flows[Acked], client_isn[Acked])
            /\ base_seg[Acked] <= k /\ k <= flows[Acked].base_seg
            /\ \A j \in 1 .. Len(rev) : rev[j].flow = Acked => k <= c[j]
  BY <1>2, <1>3, <1>4 DEF Covers, Acked
<1>6. ASSUME NEW b \in Nat, Acked \in Served => b <= k
      PROVE  AcksCovered(Tail(rev), client_isn, [base_seg EXCEPT ![Acked] = b],
                         flows)
  <2> DEFINE q == Tail(rev)
             d == [i \in 1 .. Len(q) |-> c[i + 1]]
             base == [base_seg EXCEPT ![Acked] = b]
  <2>1. d \in [1 .. Len(q) -> 0 .. TotalSegs]
    BY <1>2
  <2>2. ASSUME NEW i \in 1 .. Len(q)
        PROVE  /\ q[i].ack = AckNo(client_isn[q[i].flow], d[i])
               /\ q[i].flow \in Served =>
                     /\ Current(flows[q[i].flow], client_isn[q[i].flow])
                     /\ base[q[i].flow] <= d[i] /\ d[i] <= flows[q[i].flow].base_seg
                     /\ \A j \in i .. Len(q) :
                            q[j].flow = q[i].flow => d[i] <= d[j]
    <3>1. i + 1 \in 1 .. Len(rev) /\ q[i] = rev[i + 1] /\ d[i] = c[i + 1]
      BY <1>2
    <3>2. /\ q[i].ack = AckNo(client_isn[q[i].flow], d[i])
          /\ q[i].flow \in Served =>
                /\ Current(flows[q[i].flow], client_isn[q[i].flow])
                /\ base_seg[q[i].flow] <= d[i] /\ d[i] <= flows[q[i].flow].base_seg
                /\ \A j \in i + 1 .. Len(rev) :
                       rev[j].flow = q[i].flow => d[i] <= c[j]
      BY <3>1, <1>3 DEF Covers
    <3>3. ASSUME q[i].flow \in Served PROVE base[q[i].flow] <= d[i]
      <4>1. q[i].flow \in Flows
        BY <3>3, <1>1, Basics
      <4>2. CASE q[i].flow = Acked
        <5>1. k <= c[i + 1]
          BY <3>1, <3>3, <4>2, <1>5
        <5>2. base[q[i].flow] = b
          BY <4>1, <4>2, <1>1
        <5>3. b <= k /\ c[i + 1] \in Nat
          BY <3>1, <3>3, <4>2, <1>6
        <5> QED
          BY <5>1, <5>2, <5>3, <3>1, <1>4
      <4>3. CASE q[i].flow # Acked
        BY <4>1, <4>3, <3>2, <3>3, <1>1
      <4> QED
        BY <4>2, <4>3
    <3>4. ASSUME NEW j \in i .. Len(q), q[i].flow \in Served, q[j].flow = q[i].flow
          PROVE  d[i] <= d[j]
      <4>1. /\ j \in 1 .. Len(q) /\ j + 1 \in i + 1 .. Len(rev)
            /\ q[j] = rev[j + 1] /\ d[j] = c[j + 1]
        BY <1>2
      <4> QED
        BY <4>1, <3>2, <3>4
    <3> QED
      BY <3>2, <3>3, <3>4
  <2>3. Covers(d, q, client_isn, base, flows)
    <3> HIDE DEF d, q, base
    <3> QED
      BY <2>2, Zenon DEF Covers
  <2> QED
    BY <2>1, <2>3, Zenon DEF AcksCovered
<1> QED
  BY <1>2, <1>4, <1>5, <1>6, Zenon

\* The count of open flows is a natural.
LEMMA ActiveType ==
    ASSUME NEW base, NEW n, Active(n, base)
    PROVE  n \in Nat
<1> DEFINE S == {g \in Flows : ~(base[g] >= TotalSegs)}
<1>1. IsFiniteSet(S)
  <2>1. IsFiniteSet(Flows)
    BY FS_Interval, LabAssumption DEF Flows
  <2> QED
    BY <2>1, FS_Subset
<1> QED
  BY <1>1, FS_CardinalityType DEF Active

\* Moving one left edge closes at most its flow.
LEMMA ActiveStep ==
    ASSUME NEW base \in [Flows -> Nat], NEW n, Active(n, base),
           NEW f \in Flows, NEW b \in Nat, b >= base[f], TotalSegs \in Nat
    PROVE  LET new == [base EXCEPT ![f] = b]
           IN  /\ (base[f] >= TotalSegs \/ ~(b >= TotalSegs)) => Active(n, new)
               /\ ~(base[f] >= TotalSegs) /\ b >= TotalSegs => Active(n - 1, new)
<1> DEFINE new == [base EXCEPT ![f] = b]
           Open(x) == {g \in Flows : ~(x[g] >= TotalSegs)}
<1>1. \A g \in Flows : new[g] = IF g = f THEN b ELSE base[g]
  OBVIOUS
<1>2. ASSUME base[f] >= TotalSegs \/ ~(b >= TotalSegs) PROVE Active(n, new)
  <2>1. Open(new) = Open(base)
    <3> HIDE DEF new
    <3> QED
      BY <1>1, <1>2
  <2> QED
    BY <2>1 DEF Active
<1>3. ASSUME ~(base[f] >= TotalSegs) /\ b >= TotalSegs PROVE Active(n - 1, new)
  <2>1. Open(new) = Open(base) \ {f} /\ f \in Open(base)
    <3> HIDE DEF new
    <3> QED
      BY <1>1, <1>3
  <2>2. IsFiniteSet(Open(base))
    <3>1. IsFiniteSet(Flows)
      BY FS_Interval, LabAssumption DEF Flows
    <3> QED
      BY <3>1, FS_Subset
  <2>3. Cardinality(Open(base) \ {f}) = Cardinality(Open(base)) - 1
    BY <2>1, <2>2, FS_RemoveElement
  <2> QED
    BY <2>1, <2>3 DEF Active
<1> QED
  BY <1>2, <1>3

\* In the first run the server's edge is not beyond what the client has sent.
LEMMA EdgeWasSent ==
    ASSUME IInv, NEW f \in Served, Current(flows[f], client_isn[f]), OneRun(runs)
    PROVE  flows[f].base_seg <= next_seg[f]
<1>1. /\ TypeInv /\ f \in Flows /\ flows[f] \in State /\ next_seg[f] \in Nat
  BY Basics DEF IInv, TypeInv
<1> DEFINE b == flows[f].base_seg
<1>2. b \in Nat
  BY <1>1 DEF State
<1>3. 0 .. b - 1 \subseteq got[f] /\ \A s \in got[f] : s < next_seg[f]
  BY DEF IInv, Serves, Books
<1>4. CASE b > 0
  <2>1. b - 1 \in 0 .. b - 1
    BY <1>2, <1>4
  <2>2. b - 1 < next_seg[f]
    BY <2>1, <1>3
  <2> QED
    BY <2>2, <1>1, <1>2
<1> QED
  BY <1>1, <1>2, <1>4

\* An ack for k segments has been read and the left edge moved to b.
LEMMA EdgeMoved ==
    ASSUME IInv, rev # <<>>, rev' = Tail(rev),
           UNCHANGED <<version, flow_size, client_isn, next_seg, runs, flows,
                       fwd, got>>,
           NEW k \in 0 .. TotalSegs,
           Acked \in Served => /\ Current(flows[Acked], client_isn[Acked])
                               /\ k <= flows[Acked].base_seg,
           \A b \in Nat : (Acked \in Served => b <= k) =>
                AcksCovered(Tail(rev), client_isn,
                            [base_seg EXCEPT ![Acked] = b], flows),
           NEW b \in 0 .. TotalSegs, base_seg[Acked] <= b,
           Acked \in Served => b <= k,
           b >= TotalSegs => Completable,
           NEW x \in 0 .. ClientWindow,
           next_seg[Acked] - b <= x,
           \/ x = in_flight[Acked] /\ b = base_seg[Acked]
           \/ x = Released(in_flight[Acked], b - base_seg[Acked])
           \/ b >= TotalSegs,
           base_seg' = [base_seg EXCEPT ![Acked] = b],
           in_flight' = [in_flight EXCEPT ![Acked] = x],
           last_ack32' \in [Flows -> 0 .. Word - 1],
           ack_bytes64' \in [Flows -> Nat],
           version = "lab1" =>
               \A f \in Served : /\ ack_bytes64'[f] = BytesOf(base_seg'[f])
                                 /\ last_ack32'[f] = AckNo(client_isn[f], base_seg'[f]),
           Active(active_flows', base_seg')
    PROVE  IInv'
<1> DEFINE f == Acked
<1>1. /\ TypeInv /\ rev \in Seq(Ack) /\ TotalSegs \in Nat \ {0}
      /\ ClientWindow \in Nat /\ Served \subseteq Flows
      /\ base_seg \in [Flows -> Nat] /\ in_flight \in [Flows -> Nat]
      /\ next_seg \in [Flows -> Nat] /\ flows \in [Flows -> State]
  BY Basics DEF IInv, TypeInv
<1>2. f \in Flows /\ Tail(rev) \in Seq(Ack)
  <2>1. Head(rev) \in Ack /\ Tail(rev) \in Seq(Ack)
    BY <1>1, HeadTailProperties
  <2> QED
    BY <2>1 DEF Ack, Acked
<1>3. /\ \A g \in Flows : base_seg'[g] = IF g = f THEN b ELSE base_seg[g]
      /\ \A g \in Flows : in_flight'[g] = IF g = f THEN x ELSE in_flight[g]
      /\ base_seg' \in [Flows -> Nat] /\ in_flight' \in [Flows -> Nat]
  <2> HIDE DEF f
  <2>1. base_seg' = [base_seg EXCEPT ![f] = b] /\ in_flight' = [in_flight EXCEPT ![f] = x]
    BY DEF f
  <2>2. b \in Nat /\ x \in Nat
    BY <1>1
  <2> DEFINE Upd(h, y) == [h EXCEPT ![f] = y]
  <2>3. \A h \in [Flows -> Nat] : \A y \in Nat :
            /\ Upd(h, y) \in [Flows -> Nat]
            /\ \A g \in Flows : Upd(h, y)[g] = IF g = f THEN y ELSE h[g]
    BY <1>2
  <2>6. base_seg' = Upd(base_seg, b) /\ in_flight' = Upd(in_flight, x)
    BY <2>1
  <2> HIDE DEF Upd
  <2>4. base_seg \in [Flows -> Nat] /\ in_flight \in [Flows -> Nat]
    BY <1>1
  <2>5. Upd(base_seg, b) \in [Flows -> Nat] /\ Upd(in_flight, x) \in [Flows -> Nat]
    BY <2>2, <2>3, <2>4, Zenon
  <2>7. \A g \in Flows : Upd(base_seg, b)[g] = IF g = f THEN b ELSE base_seg[g]
    BY <2>2, <2>3, <2>4, Zenon
  <2>8. \A g \in Flows : Upd(in_flight, x)[g] = IF g = f THEN x ELSE in_flight[g]
    BY <2>2, <2>3, <2>4, Zenon
  <2> QED
    BY <2>5, <2>6, <2>7, <2>8, Zenon
<1> HIDE DEF f
<1>4. TypeInv'
  BY <1>1, <1>2, <1>3 DEF TypeInv
<1>5. Edges(next_seg', base_seg', in_flight')
  <2> SUFFICES ASSUME NEW g \in Flows
               PROVE  /\ next_seg[g] <= TotalSegs /\ base_seg'[g] <= TotalSegs
                      /\ next_seg[g] - base_seg'[g] <= in_flight'[g]
                      /\ in_flight'[g] <= ClientWindow
                      /\ base_seg'[g] >= TotalSegs => Completable
    BY DEF Edges
  <2>1. /\ next_seg[g] <= TotalSegs /\ base_seg[g] <= TotalSegs
        /\ next_seg[g] - base_seg[g] <= in_flight[g]
        /\ in_flight[g] <= ClientWindow
        /\ base_seg[g] >= TotalSegs => Completable
    BY DEF IInv, Edges
  <2>2. CASE g = f
    <3>1. base_seg'[g] = b /\ in_flight'[g] = x
      BY <2>2, <1>3
    <3> QED
      BY <2>1, <2>2, <3>1, <1>1 DEF f
  <2>3. CASE g # f
    BY <2>1, <2>3, <1>3
  <2> QED
    BY <2>2, <2>3
<1>6. ASSUME NEW g \in Served, OneRun(runs)
      PROVE  base_seg'[g] >= TotalSegs \/ in_flight'[g] = next_seg[g] - base_seg'[g]
  <2>1. g \in Flows /\ next_seg[g] \in Nat /\ base_seg[g] \in Nat /\ in_flight[g] \in Nat
    BY <1>1
  <2>2. base_seg[g] >= TotalSegs \/ in_flight[g] = next_seg[g] - base_seg[g]
    BY <1>6 DEF IInv, Counts
  <2>3. CASE g # f
    BY <2>1, <2>2, <2>3, <1>3
  <2>4. CASE g = f
    <3>1. base_seg'[g] = b /\ in_flight'[g] = x
      BY <2>1, <2>4, <1>3
    <3>2. b <= next_seg[g]
      <4>1. Current(flows[g], client_isn[g]) /\ k <= flows[g].base_seg /\ b <= k
        BY <2>4 DEF f
      <4>2. flows[g].base_seg <= next_seg[g]
        BY <4>1, <1>6, EdgeWasSent
      <4>3. flows[g].base_seg \in Nat
        BY <2>1, <1>1 DEF State
      <4> QED
        BY <4>1, <4>2, <4>3, <2>1
    <3>3. /\ base_seg[g] <= b
          /\ \/ x = in_flight[g] /\ b = base_seg[g]
             \/ x = Released(in_flight[g], b - base_seg[g])
             \/ b >= TotalSegs
      BY <2>4 DEF f
    <3> QED
      BY <2>1, <2>2, <3>1, <3>2, <3>3, <1>1 DEF Released
  <2> QED
    BY <2>3, <2>4
<1>7. Counts(client_isn', next_seg', base_seg', in_flight', last_ack32',
             ack_bytes64', runs')
  BY <1>6 DEF Counts, OneRun
<1>8. Serves(client_isn', next_seg', base_seg', flows', got', runs')
  <2>1. ASSUME NEW g \in Served, Current(flows[g], client_isn[g])
        PROVE  base_seg'[g] <= flows[g].base_seg
    <3>1. g \in Flows /\ base_seg[g] <= flows[g].base_seg /\ flows[g].base_seg \in Nat
      BY <2>1, <1>1 DEF IInv, Serves, State
    <3>2. CASE g = f
      <4>1. b <= k /\ k <= flows[g].base_seg /\ base_seg'[g] = b
        BY <3>1, <3>2, <1>3 DEF f
      <4> QED
        BY <4>1, <3>1
    <3>3. CASE g # f
      BY <3>1, <3>3, <1>3
    <3> QED
      BY <3>2, <3>3
  <2>2. ASSUME NEW g \in Served, ~Current(flows[g], client_isn[g])
        PROVE  base_seg'[g] = 0
    <3>1. g \in Flows /\ g # f /\ base_seg[g] = 0
      BY <2>2, <1>1 DEF IInv, Serves, f
    <3> QED
      BY <3>1, <1>3
  <2> QED
    BY <2>1, <2>2 DEF IInv, Serves, OneRun
<1>9. Carries(fwd', client_isn', next_seg')
  BY DEF IInv
<1>10. AcksCovered(rev', client_isn', base_seg', flows')
  <2>1. b \in Nat
    BY <1>1
  <2> QED
    BY <2>1
<1> QED
  BY <1>4, <1>5, <1>7, <1>8, <1>9, <1>10, NextForm DEF IInvNext

\* An ack opens the window by no more than what was in flight.
LEMMA ReleasedFacts ==
    \A n \in Nat : \A d \in Nat :
        /\ Released(n, d) \in 0 .. n /\ n - d <= Released(n, d)
        /\ d = 0 => Released(n, d) = n
BY DEF Released

\* What the left edge, the window and the count of open flows become.
LEMMA AckedFlow ==
    ASSUME IInv, rev # <<>>
    PROVE  /\ Acked \in Flows /\ base_seg[Acked] \in 0 .. TotalSegs
           /\ in_flight[Acked] \in 0 .. ClientWindow
           /\ next_seg[Acked] \in 0 .. TotalSegs
           /\ next_seg[Acked] - base_seg[Acked] <= in_flight[Acked]
           /\ base_seg[Acked] >= TotalSegs => Completable
<1>1. /\ TypeInv /\ rev \in Seq(Ack) /\ base_seg \in [Flows -> Nat]
      /\ in_flight \in [Flows -> Nat] /\ next_seg \in [Flows -> Nat]
      /\ TotalSegs \in Nat /\ ClientWindow \in Nat
  BY Basics DEF IInv, TypeInv
<1>2. Acked \in Flows
  <2>1. Head(rev) \in Ack
    BY <1>1, HeadTailProperties
  <2> QED
    BY <2>1 DEF Ack, Acked
<1> QED
  BY <1>1, <1>2 DEF IInv, Edges

\* Reading an ack in the earlier client preserves the invariant.
LEMMA OldAckStep ==
    ASSUME IInv, OldReceiveAck
    PROVE  IInv'
<1> USE DEF OldReceiveAck
<1>1. /\ TypeInv /\ TotalSegs \in Nat \ {0} /\ flow_size \in Nat \ {0}
      /\ base_seg \in [Flows -> Nat] /\ in_flight \in [Flows -> Nat]
      /\ client_isn \in [Flows -> 0 .. Word - 1]
  BY Basics DEF IInv, TypeInv
<1>2. rev # <<>> /\ version = "gpt"
  OBVIOUS
<1>3. /\ Acked \in Flows /\ base_seg[Acked] \in 0 .. TotalSegs
      /\ in_flight[Acked] \in 0 .. ClientWindow
      /\ next_seg[Acked] \in 0 .. TotalSegs
      /\ next_seg[Acked] - base_seg[Acked] <= in_flight[Acked]
      /\ base_seg[Acked] >= TotalSegs => Completable
  BY <1>2, AckedFlow
<1>4. PICK k \in 0 .. TotalSegs :
              /\ Head(rev).ack = AckNo(client_isn[Acked], k)
              /\ Acked \in Served =>
                    /\ Current(flows[Acked], client_isn[Acked])
                    /\ base_seg[Acked] <= k /\ k <= flows[Acked].base_seg
              /\ \A b \in Nat : (Acked \in Served => b <= k) =>
                    AcksCovered(Tail(rev), client_isn,
                                [base_seg EXCEPT ![Acked] = b], flows)
  BY <1>2, FirstAck
<1> DEFINE segs == Delta32(Head(rev).ack, client_isn[Acked]) \div Mss
<1>5. segs \in 0 .. k /\ (segs >= TotalSegs => Completable)
  <2>1. BytesOf(k) \in Nat /\ client_isn[Acked] \in 0 .. Word - 1
    BY <1>1, <1>3, BytesFacts
  <2>2. Delta32(Head(rev).ack, client_isn[Acked]) = BytesOf(k) % Word
    <3> DEFINE isn == client_isn[Acked]
               y == BytesOf(k)
    <3>1. Delta32(Head(rev).ack, isn) = (((isn + y) % Word) - isn) % Word
      BY <1>4 DEF AckNo, Delta32
    <3>2. isn \in 0 .. Word - 1 /\ y \in Nat
      BY <2>1
    <3> HIDE DEF isn, y
    <3>3. (((isn + y) % Word) - isn) % Word = y % Word
      BY <3>2, Distance
    <3> QED
      BY <3>1, <3>3 DEF isn, y
  <2> QED
    BY <2>2, <1>1, WholeSegs DEF Completable
<1>6. CASE segs > base_seg[Acked]
  <2> DEFINE x == Released(in_flight[Acked], segs - base_seg[Acked])
  <2>1. /\ base_seg' = [base_seg EXCEPT ![Acked] = segs]
        /\ in_flight' = [in_flight EXCEPT ![Acked] = x]
        /\ active_flows' = active_flows - (IF segs >= TotalSegs THEN 1 ELSE 0)
        /\ rev' = Tail(rev)
        /\ UNCHANGED <<version, flow_size, client_isn, next_seg, runs, flows,
                       fwd, got, last_ack32, ack_bytes64>>
    <3>1. ~(segs <= base_seg[Acked])
      BY <1>3, <1>5, <1>6
    <3> QED
      BY <3>1, Zenon DEF Acked
  <2> HIDE DEF segs, OldReceiveAck
  <2>2. segs \in 0 .. TotalSegs /\ base_seg[Acked] <= segs
        /\ ~(base_seg[Acked] >= TotalSegs)
    BY <1>1, <1>3, <1>5, <1>6
  <2>3. x \in 0 .. ClientWindow /\ next_seg[Acked] - segs <= x
    <3>1. segs - base_seg[Acked] \in Nat /\ in_flight[Acked] \in Nat
      BY <1>3, <2>2
    <3>2. x \in 0 .. in_flight[Acked]
          /\ in_flight[Acked] - (segs - base_seg[Acked]) <= x
      BY <3>1, ReleasedFacts
    <3> HIDE DEF x
    <3> QED
      BY <3>2, <1>3, <2>2, LabAssumption
  <2> HIDE DEF x
  <2>4. Active(active_flows', base_seg')
    <3>1. Active(active_flows, base_seg) /\ segs \in Nat
      BY <2>2 DEF IInv
    <3>2. LET new == [base_seg EXCEPT ![Acked] = segs]
          IN  /\ ~(segs >= TotalSegs) => Active(active_flows, new)
              /\ segs >= TotalSegs => Active(active_flows - 1, new)
      BY <3>1, <2>2, <1>1, <1>3, ActiveStep
    <3>3. CASE segs >= TotalSegs
      BY <3>2, <3>3, <2>1
    <3>4. CASE ~(segs >= TotalSegs)
      <4>1. active_flows' = active_flows
        BY <3>4, <2>1, <3>1, ActiveType
      <4> QED
        BY <3>2, <3>4, <4>1, <2>1
    <3> QED
      BY <3>3, <3>4
  <2>5. last_ack32' \in [Flows -> 0 .. Word - 1] /\ ack_bytes64' \in [Flows -> Nat]
    BY <1>1, <2>1 DEF TypeInv
  <2>6. version # "lab1"
    BY <1>2
  <2>7. x = Released(in_flight[Acked], segs - base_seg[Acked])
    BY DEF x
  <2>8. segs <= k
    BY <1>5
  <2> QED
    BY <1>2, <1>4, <1>5, <2>1, <2>2, <2>3, <2>4, <2>5, <2>6, <2>7, <2>8, EdgeMoved
<1>7. CASE segs <= base_seg[Acked]
  <2>1. /\ UNCHANGED <<base_seg, in_flight, active_flows>> /\ rev' = Tail(rev)
        /\ UNCHANGED <<version, flow_size, client_isn, next_seg, runs, flows,
                       fwd, got, last_ack32, ack_bytes64>>
    <3>1. base_seg[Acked] \in Nat
      BY <1>3
    <3> QED
      BY <1>5, <1>7, <3>1 DEF Acked
  <2> HIDE DEF segs, OldReceiveAck
  <2> DEFINE b == base_seg[Acked]
             x == in_flight[Acked]
  <2>2. /\ base_seg' = [base_seg EXCEPT ![Acked] = b]
        /\ in_flight' = [in_flight EXCEPT ![Acked] = x]
    BY <1>1, <2>1
  <2>3. /\ b \in 0 .. TotalSegs /\ x \in 0 .. ClientWindow
        /\ next_seg[Acked] - b <= x /\ (b >= TotalSegs => Completable)
        /\ x = in_flight[Acked] /\ b = base_seg[Acked] /\ base_seg[Acked] <= b
        /\ Acked \in Served => b <= k
    BY <1>3, <1>4
  <2>4. Active(active_flows', base_seg')
    BY <2>1 DEF IInv
  <2>5. last_ack32' \in [Flows -> 0 .. Word - 1] /\ ack_bytes64' \in [Flows -> Nat]
    BY <1>1, <2>1 DEF TypeInv
  <2> HIDE DEF b, x
  <2> QED
    BY <1>2, <1>4, <2>1, <2>2, <2>3, <2>4, <2>5, EdgeMoved
<1>8. segs > base_seg[Acked] \/ segs <= base_seg[Acked]
  <2> HIDE DEF segs, OldReceiveAck
  <2> QED
    BY <1>3, <1>5
<1> QED
  BY <1>6, <1>7, <1>8, Zenon

\* The distance of an ack from the last one read, when it covers k segments and
\* the client's left edge is b, is what the segments between hold.
LEMMA AckedBytes ==
    ASSUME IInv, version = "lab1", NEW f \in Served,
           Current(flows[f], client_isn[f]),
           NEW k \in 0 .. TotalSegs, base_seg[f] <= k, k <= flows[f].base_seg
    PROVE  ack_bytes64[f] + Delta32(AckNo(client_isn[f], k), last_ack32[f])
               = BytesOf(k)
<1> DEFINE isn == client_isn[f]
           b == base_seg[f]
           x == BytesOf(b)
           y == BytesOf(k)
<1>1. /\ TypeInv /\ f \in Flows /\ TotalSegs \in Nat \ {0} /\ flow_size \in Nat \ {0}
      /\ Word \in Nat \ {0} /\ Mss \in Nat \ {0} /\ ClientWindow \in Nat \ {0}
      /\ isn \in 0 .. Word - 1 /\ b \in Nat /\ next_seg[f] \in Nat
      /\ in_flight[f] \in Nat /\ flows[f].base_seg \in Nat
  BY Basics DEF IInv, TypeInv, State
<1>2. /\ next_seg[f] - b <= in_flight[f] /\ in_flight[f] <= ClientWindow
      /\ ack_bytes64[f] = x /\ last_ack32[f] = AckNo(isn, b)
  BY <1>1 DEF IInv, Edges, Counts
<1>3. k - b \in 0 .. ClientWindow /\ b \in 0 .. k
  <2>1. flows[f].base_seg <= next_seg[f]
    BY EdgeWasSent DEF OneRun
  <2> QED
    BY <2>1, <1>1, <1>2
<1>4. x \in Nat /\ y \in Nat /\ x <= y /\ y - x <= (k - b) * Mss
  <2>1. b \in 0 .. TotalSegs
    BY <1>1, <1>3
  <2> HIDE DEF b
  <2> QED
    BY <2>1, <1>1, <1>3, BytesFacts, Zenon
<1>5. (k - b) * Mss <= ClientWindow * Mss
  BY <1>1, <1>3, Mono
<1>6. y - x \in 0 .. Word - 1
  <2> DEFINE m == (k - b) * Mss
             n == ClientWindow * Mss
  <2>1. m \in Int /\ n \in Int /\ n < Word
    BY <1>1, <1>3, LabAssumption
  <2> HIDE DEF m, n, x, y
  <2> QED
    BY <2>1, <1>1, <1>4, <1>5 DEF m, n
<1>7. Delta32(AckNo(isn, k), AckNo(isn, b)) = (y - x) % Word
  <2>1. Delta32(AckNo(isn, k), AckNo(isn, b))
           = (((isn + y) % Word) - ((isn + x) % Word)) % Word
    BY DEF AckNo, Delta32
  <2>2. isn \in 0 .. Word - 1 /\ x \in Nat /\ y \in Nat
    BY <1>1, <1>4
  <2> HIDE DEF isn, x, y
  <2>3. (((isn + y) % Word) - ((isn + x) % Word)) % Word = (y - x) % Word
    BY <2>2, Distance
  <2> QED
    BY <2>1, <2>3, Zenon
<1>8. (y - x) % Word = y - x
  <2> HIDE DEF x, y
  <2> QED
    BY <1>1, <1>6
<1> HIDE DEF x, y
<1>9. x + (y - x) = y
  BY <1>4
<1> QED
  BY <1>2, <1>7, <1>8, <1>9 DEF x, y

\* Reading an ack preserves the invariant.
LEMMA AckStep ==
    ASSUME IInv, ReceiveAck
    PROVE  IInv'
<1> USE DEF ReceiveAck, AlreadyDone
<1>1. /\ TypeInv /\ TotalSegs \in Nat \ {0} /\ flow_size \in Nat \ {0}
      /\ base_seg \in [Flows -> Nat] /\ in_flight \in [Flows -> Nat]
      /\ client_isn \in [Flows -> 0 .. Word - 1]
      /\ last_ack32 \in [Flows -> 0 .. Word - 1]
      /\ ack_bytes64 \in [Flows -> Nat] /\ rev \in Seq(Ack)
      /\ GoalBytes \in Nat /\ Mss \in Nat \ {0} /\ Word \in Nat \ {0}
      /\ Served \subseteq Flows
  BY Basics DEF IInv, TypeInv
<1>2. rev # <<>> /\ version = "lab1"
  OBVIOUS
<1>3. /\ Acked \in Flows /\ base_seg[Acked] \in 0 .. TotalSegs
      /\ in_flight[Acked] \in 0 .. ClientWindow
      /\ next_seg[Acked] \in 0 .. TotalSegs
      /\ next_seg[Acked] - base_seg[Acked] <= in_flight[Acked]
      /\ base_seg[Acked] >= TotalSegs => Completable
  BY <1>2, AckedFlow
<1>4. PICK k \in 0 .. TotalSegs :
              /\ Head(rev).ack = AckNo(client_isn[Acked], k)
              /\ Acked \in Served =>
                    /\ Current(flows[Acked], client_isn[Acked])
                    /\ base_seg[Acked] <= k /\ k <= flows[Acked].base_seg
              /\ \A b \in Nat : (Acked \in Served => b <= k) =>
                    AcksCovered(Tail(rev), client_isn,
                                [base_seg EXCEPT ![Acked] = b], flows)
  BY <1>2, FirstAck
<1> DEFINE cur == Head(rev).ack
           bytes == ack_bytes64[Acked] + Delta32(cur, last_ack32[Acked])
           segs == bytes \div Mss
<1>5. cur \in 0 .. Word - 1 /\ bytes \in Nat /\ segs \in Nat
  <2>1. cur \in 0 .. Word - 1
    <3>1. Head(rev) \in Ack
      BY <1>1, <1>2, HeadTailProperties
    <3> QED
      BY <3>1 DEF Ack
  <2>2. ack_bytes64[Acked] \in Nat /\ last_ack32[Acked] \in 0 .. Word - 1
    BY <1>1, <1>3
  <2>3. Delta32(cur, last_ack32[Acked]) \in Nat
    <3>1. cur - last_ack32[Acked] \in Int
      BY <2>1, <2>2
    <3>2. \A y \in Int : y % Word \in Nat
      BY <1>1
    <3> QED
      BY <3>1, <3>2 DEF Delta32
  <2>4. bytes \in Nat
    BY <2>2, <2>3
  <2> HIDE DEF bytes
  <2>6. segs \in Nat
    BY <2>4, <1>1, WholeNumber, Zenon
  <2> QED
    BY <2>1, <2>4, <2>6, Zenon
<1>6. ASSUME Acked \in Served PROVE bytes = BytesOf(k)
  BY <1>2, <1>4, <1>6, AckedBytes
<1>7. /\ last_ack32' = [last_ack32 EXCEPT ![Acked] = cur]
      /\ ack_bytes64' = [ack_bytes64 EXCEPT ![Acked] = bytes]
      /\ rev' = Tail(rev)
      /\ UNCHANGED <<version, flow_size, client_isn, next_seg, runs, flows,
                     fwd, got>>
  BY DEF Acked
<1>8. Completable
  BY <1>2 DEF Completable
<1>9. \/ /\ base_seg[Acked] >= TotalSegs
         /\ UNCHANGED <<base_seg, in_flight, active_flows>>
      \/ /\ ~(base_seg[Acked] >= TotalSegs) /\ bytes >= GoalBytes
         /\ in_flight' = [in_flight EXCEPT ![Acked] = 0]
         /\ base_seg' = [base_seg EXCEPT ![Acked] = TotalSegs]
         /\ active_flows' = active_flows - 1
      \/ /\ ~(base_seg[Acked] >= TotalSegs) /\ ~(bytes >= GoalBytes)
         /\ segs > base_seg[Acked]
         /\ base_seg' = [base_seg EXCEPT ![Acked] = segs]
         /\ in_flight' = [in_flight EXCEPT ![Acked] =
                             Released(in_flight[Acked], segs - base_seg[Acked])]
         /\ UNCHANGED active_flows
      \/ /\ ~(base_seg[Acked] >= TotalSegs) /\ ~(bytes >= GoalBytes)
         /\ segs <= base_seg[Acked]
         /\ UNCHANGED <<base_seg, in_flight, active_flows>>
  BY Zenon DEF Acked, Completes
<1> HIDE DEF cur, ReceiveAck, AlreadyDone
<1>10. ASSUME NEW b \in 0 .. TotalSegs, Acked \in Served => b = k,
              base_seg' = [base_seg EXCEPT ![Acked] = b]
       PROVE  /\ last_ack32' \in [Flows -> 0 .. Word - 1]
              /\ ack_bytes64' \in [Flows -> Nat]
              /\ \A f \in Served :
                    /\ ack_bytes64'[f] = BytesOf(base_seg'[f])
                    /\ last_ack32'[f] = AckNo(client_isn[f], base_seg'[f])
  <2> HIDE DEF bytes
  <2>1. last_ack32' \in [Flows -> 0 .. Word - 1] /\ ack_bytes64' \in [Flows -> Nat]
    BY <1>1, <1>5, <1>7
  <2>2. ASSUME NEW f \in Served
        PROVE  /\ ack_bytes64'[f] = BytesOf(base_seg'[f])
               /\ last_ack32'[f] = AckNo(client_isn[f], base_seg'[f])
    <3>1. f \in Flows
      BY <1>1
    <3>2. CASE f = Acked
      <4>1. /\ ack_bytes64'[f] = bytes /\ last_ack32'[f] = cur /\ base_seg'[f] = b
        BY <3>1, <3>2, <1>1, <1>7, <1>10
      <4>2. bytes = BytesOf(k) /\ cur = AckNo(client_isn[f], k) /\ b = k
        BY <3>2, <1>4, <1>6, <1>10 DEF cur
      <4> QED
        BY <4>1, <4>2
    <3>3. CASE f # Acked
      <4>1. /\ ack_bytes64'[f] = ack_bytes64[f] /\ last_ack32'[f] = last_ack32[f]
            /\ base_seg'[f] = base_seg[f]
        BY <3>1, <3>3, <1>1, <1>7, <1>10
      <4> QED
        BY <4>1, <1>2 DEF IInv, Counts
    <3> QED
      BY <3>2, <3>3
  <2> QED
    BY <2>1, <2>2
<1>11. ASSUME NEW b \in 0 .. TotalSegs, Acked \in Served => b = k,
              base_seg[Acked] <= b,
              base_seg' = [base_seg EXCEPT ![Acked] = b],
              NEW x \in 0 .. ClientWindow, next_seg[Acked] - b <= x,
              \/ x = in_flight[Acked] /\ b = base_seg[Acked]
              \/ x = Released(in_flight[Acked], b - base_seg[Acked])
              \/ b >= TotalSegs,
              in_flight' = [in_flight EXCEPT ![Acked] = x],
              Active(active_flows', base_seg')
       PROVE  IInv'
  <2>1. /\ last_ack32' \in [Flows -> 0 .. Word - 1]
        /\ ack_bytes64' \in [Flows -> Nat]
        /\ \A f \in Served :
              /\ ack_bytes64'[f] = BytesOf(base_seg'[f])
              /\ last_ack32'[f] = AckNo(client_isn[f], base_seg'[f])
    BY <1>10, <1>11
  <2>2. Acked \in Served => b <= k
    BY <1>11
  <2> HIDE DEF bytes
  <2> QED
    BY <1>2, <1>4, <1>7, <1>8, <1>11, <2>1, <2>2, EdgeMoved
<1>12. Active(active_flows, base_seg)
  BY DEF IInv
<1>13. CASE UNCHANGED <<base_seg, in_flight, active_flows>>
            /\ (Acked \in Served => base_seg[Acked] = k)
  <2> DEFINE b == base_seg[Acked]
             x == in_flight[Acked]
  <2>1. /\ base_seg' = [base_seg EXCEPT ![Acked] = b]
        /\ in_flight' = [in_flight EXCEPT ![Acked] = x]
    BY <1>1, <1>13
  <2>2. /\ b \in 0 .. TotalSegs /\ x \in 0 .. ClientWindow
        /\ next_seg[Acked] - b <= x /\ base_seg[Acked] <= b
        /\ Acked \in Served => b = k
        /\ x = in_flight[Acked] /\ b = base_seg[Acked]
    BY <1>3, <1>13
  <2>3. Active(active_flows', base_seg')
    BY <1>12, <1>13
  <2> HIDE DEF b, x, bytes
  <2> QED
    BY <1>11, <2>1, <2>2, <2>3
<1>14. bytes >= GoalBytes /\ Acked \in Served => k = TotalSegs
  <2> HIDE DEF bytes
  <2> QED
    BY <1>1, <1>6, BytesFacts
<1>15. ~(bytes >= GoalBytes) /\ Acked \in Served => segs = k
  <2> SUFFICES ASSUME ~(bytes >= GoalBytes), Acked \in Served PROVE segs = k
    OBVIOUS
  <2>1. bytes = BytesOf(k) /\ BytesOf(TotalSegs) = GoalBytes /\ GoalBytes >= GoalBytes
    BY <1>1, <1>6, BytesFacts
  <2>2. k < TotalSegs
    <3> HIDE DEF bytes
    <3> QED
      BY <2>1, <1>1
  <2>3. BytesOf(k) \div Mss = k
    BY <2>2, <1>1, CountsSegs
  <2> QED
    BY <2>1, <2>3
<1>16. ~(bytes >= GoalBytes) => segs < TotalSegs
  <2> SUFFICES ASSUME ~(bytes >= GoalBytes), segs >= TotalSegs PROVE FALSE
    BY <1>1, <1>5
  <2> DEFINE m == TotalSegs * Mss
             n == segs * Mss
  <2>1. n <= bytes
    <3> HIDE DEF bytes
    <3>1. \A y \in Nat : (y \div Mss) * Mss <= y
      BY <1>1
    <3> QED
      BY <3>1, <1>5
  <2> HIDE DEF bytes, segs
  <2>2. m <= n
    BY <1>1, <1>5, Mono
  <2>3. GoalBytes <= m /\ m \in Int /\ n \in Int
    BY <1>1, <1>5, Sizes
  <2> HIDE DEF m, n
  <2> QED
    BY <2>1, <2>2, <2>3, <1>1, <1>5
<1> HIDE DEF bytes, segs
<1>17. CASE base_seg[Acked] >= TotalSegs
            /\ UNCHANGED <<base_seg, in_flight, active_flows>>
  <2>1. Acked \in Served => base_seg[Acked] = k
    BY <1>1, <1>3, <1>4, <1>17
  <2> QED
    BY <2>1, <1>13, <1>17
<1>18. CASE /\ ~(base_seg[Acked] >= TotalSegs) /\ bytes >= GoalBytes
            /\ in_flight' = [in_flight EXCEPT ![Acked] = 0]
            /\ base_seg' = [base_seg EXCEPT ![Acked] = TotalSegs]
            /\ active_flows' = active_flows - 1
  <2>1. Active(active_flows', base_seg')
    <3>1. TotalSegs \in Nat /\ TotalSegs >= base_seg[Acked] /\ TotalSegs >= TotalSegs
      BY <1>1, <1>3
    <3> QED
      BY <3>1, <1>1, <1>3, <1>12, <1>18, ActiveStep
  <2>2. /\ TotalSegs \in 0 .. TotalSegs /\ 0 \in 0 .. ClientWindow
        /\ next_seg[Acked] - TotalSegs <= 0 /\ base_seg[Acked] <= TotalSegs
        /\ TotalSegs >= TotalSegs
    BY <1>1, <1>3, LabAssumption
  <2> QED
    BY <1>11, <1>14, <1>18, <2>1, <2>2
<1>19. CASE /\ ~(base_seg[Acked] >= TotalSegs) /\ ~(bytes >= GoalBytes)
            /\ segs > base_seg[Acked]
            /\ base_seg' = [base_seg EXCEPT ![Acked] = segs]
            /\ in_flight' = [in_flight EXCEPT ![Acked] =
                                Released(in_flight[Acked], segs - base_seg[Acked])]
            /\ UNCHANGED active_flows
  <2> DEFINE x == Released(in_flight[Acked], segs - base_seg[Acked])
  <2>1. /\ segs \in 0 .. TotalSegs /\ base_seg[Acked] <= segs
        /\ ~(segs >= TotalSegs)
    BY <1>1, <1>3, <1>5, <1>16, <1>19
  <2>2. x \in 0 .. ClientWindow /\ next_seg[Acked] - segs <= x
    <3>1. segs - base_seg[Acked] \in Nat /\ in_flight[Acked] \in Nat
      BY <1>3, <2>1
    <3>2. x \in 0 .. in_flight[Acked]
          /\ in_flight[Acked] - (segs - base_seg[Acked]) <= x
      BY <3>1, ReleasedFacts
    <3> HIDE DEF x
    <3> QED
      BY <3>2, <1>3, <2>1, LabAssumption
  <2>3. Active(active_flows', base_seg')
    <3>1. segs \in Nat /\ segs >= base_seg[Acked]
      BY <1>3, <1>5, <2>1
    <3> QED
      BY <3>1, <2>1, <1>1, <1>3, <1>12, <1>19, ActiveStep
  <2>4. x = Released(in_flight[Acked], segs - base_seg[Acked])
        /\ in_flight' = [in_flight EXCEPT ![Acked] = x]
    BY <1>19
  <2> HIDE DEF x
  <2> QED
    BY <1>11, <1>15, <1>19, <2>1, <2>2, <2>3, <2>4
<1>20. CASE /\ ~(base_seg[Acked] >= TotalSegs) /\ ~(bytes >= GoalBytes)
            /\ segs <= base_seg[Acked]
            /\ UNCHANGED <<base_seg, in_flight, active_flows>>
  <2>1. Acked \in Served => base_seg[Acked] = k
    BY <1>3, <1>4, <1>15, <1>20
  <2> QED
    BY <2>1, <1>13, <1>20
<1> QED
  BY <1>9, <1>17, <1>18, <1>19, <1>20, Zenon

\* A run that starts on a quiet link.
LEMMA StartStep ==
    ASSUME IInv, NEW isn \in [Flows -> 0 .. Word - 1], StartRun(isn),
           fwd = <<>>, rev = <<>>,
           UNCHANGED <<version, flow_size, flows, fwd, rev>>,
           runs' = runs + 1, got' \in [Flows -> SUBSET Nat],
           Serves(isn, next_seg', base_seg', flows, got', runs')
    PROVE  IInv'
<1> USE DEF StartRun
<1>1. /\ TypeInv /\ TotalSegs \in Nat \ {0} /\ flow_size \in Nat \ {0}
      /\ {FlowNum, ClientWindow} \subseteq Nat \ {0} /\ Served \subseteq Flows
  BY Basics DEF IInv
<1>2. BytesOf(0) = 0
  BY <1>1, BytesFacts
<1>3. /\ \A f \in Flows : base_seg'[f] = 0 /\ next_seg'[f] = 0 /\ in_flight'[f] = 0
                          /\ ack_bytes64'[f] = 0
      /\ base_seg' \in [Flows -> Nat] /\ next_seg' \in [Flows -> Nat]
      /\ in_flight' \in [Flows -> Nat] /\ ack_bytes64' \in [Flows -> Nat]
  OBVIOUS
<1>4. TypeInv'
  <2>1. runs' \in Nat \ {0}
    BY <1>1 DEF TypeInv
  <2> QED
    BY <1>1, <1>3, <2>1 DEF TypeInv
<1>5. Edges(next_seg', base_seg', in_flight')
  BY <1>1, <1>3 DEF Edges
<1>6. Counts(client_isn', next_seg', base_seg', in_flight', last_ack32',
             ack_bytes64', runs')
  <2>1. ASSUME NEW f \in Flows PROVE last_ack32'[f] = AckNo(client_isn'[f], base_seg'[f])
    <3>1. isn[f] \in 0 .. Word - 1 /\ base_seg'[f] = 0 /\ last_ack32'[f] = isn[f]
          /\ client_isn'[f] = isn[f]
      BY <1>3
    <3> QED
      BY <1>2, <3>1, SeqNoType DEF AckNo
  <2> QED
    BY <1>1, <1>2, <1>3, <2>1 DEF Counts
<1>7. Active(active_flows', base_seg')
  <2>1. {f \in Flows : ~(base_seg'[f] >= TotalSegs)} = Flows
    BY <1>1, <1>3
  <2>2. Cardinality(Flows) = FlowNum
    BY <1>1, FS_Interval DEF Flows
  <2> QED
    BY <2>1, <2>2 DEF Active
<1>8. Serves(client_isn', next_seg', base_seg', flows', got', runs')
  OBVIOUS
<1>9. Carries(fwd', client_isn', next_seg')
  BY DEF Carries
<1>10. AcksCovered(rev', client_isn', base_seg', flows')
  <2> DEFINE c == [i \in 1 .. 0 |-> 0]
  <2>1. c \in [1 .. Len(rev') -> 0 .. TotalSegs]
    OBVIOUS
  <2>2. Covers(c, rev', client_isn', base_seg', flows')
    BY DEF Covers
  <2> QED
    BY <2>1, <2>2, Zenon DEF AcksCovered
<1> QED
  BY <1>4, <1>5, <1>6, <1>7, <1>8, <1>9, <1>10, NextForm DEF IInvNext

\* A new run of the client preserves the invariant.
LEMMA NewRunStep ==
    ASSUME IInv, NewRun
    PROVE  IInv'
<1>1. PICK isn \in [Flows -> Isns] :
          /\ \A f \in Flows :
                 ~(flows[f].inited /\ flows[f].client_isn = isn[f])
          /\ StartRun(isn)
  BY DEF NewRun
<1>2. /\ version = "lab1" /\ runs' = runs + 1 /\ fwd = <<>> /\ rev = <<>>
      /\ got' = [f \in Flows |-> {}]
      /\ UNCHANGED <<version, flow_size, flows, fwd, rev>>
  BY DEF NewRun
<1>3. /\ isn \in [Flows -> 0 .. Word - 1] /\ Served \subseteq Flows
      /\ \A f \in Flows : base_seg'[f] = 0
  BY <1>1, LabAssumption, Basics DEF StartRun, IInv
<1>4. Serves(isn, next_seg', base_seg', flows, got', runs')
  <2>1. \A f \in Served : /\ ~Current(flows[f], isn[f]) /\ got'[f] = {}
                          /\ base_seg'[f] = 0
    BY <1>1, <1>2, <1>3 DEF Current
  <2>2. \A f \in Flows \ Served : ~flows[f].inited
    BY DEF IInv, Serves
  <2> QED
    BY <1>2, <2>1, <2>2 DEF Serves
<1>5. got' \in [Flows -> SUBSET Nat]
  BY <1>2
<1> QED
  BY <1>1, <1>2, <1>3, <1>4, <1>5, StartStep

\* A new run of the earlier client, with the same numbers, preserves it.
LEMMA OldNewRunStep ==
    ASSUME IInv, OldNewRun
    PROVE  IInv'
<1>1. /\ version = "gpt" /\ runs' = runs + 1 /\ fwd = <<>> /\ rev = <<>>
      /\ StartRun(client_isn) /\ got' = got
      /\ UNCHANGED <<version, flow_size, flows, fwd, rev>>
  BY DEF OldNewRun
<1>2. /\ client_isn \in [Flows -> 0 .. Word - 1] /\ got' \in [Flows -> SUBSET Nat]
      /\ Served \subseteq Flows /\ runs \in Nat \ {0} /\ flows \in [Flows -> State]
      /\ \A f \in Flows : base_seg'[f] = 0
  BY <1>1, Basics DEF IInv, TypeInv, StartRun
<1>3. Serves(client_isn, next_seg', base_seg', flows, got', runs')
  <2>1. ~OneRun(runs')
    BY <1>1, <1>2 DEF OneRun
  <2>2. ASSUME NEW f \in Served
        PROVE  base_seg'[f] = 0 /\ base_seg'[f] <= flows[f].base_seg
    BY <1>2 DEF State
  <2> QED
    BY <1>1, <2>1, <2>2 DEF IInv, Serves
<1> QED
  BY <1>1, <1>2, <1>3, StartStep

\* Removing a segment leaves the others sound.
LEMMA FewerSegments ==
    ASSUME NEW q \in Seq(Segment), NEW isn, NEW next, Carries(q, isn, next),
           NEW i \in 1 .. Len(q)
    PROVE  Carries(RemoveAt(q, i), isn, next)
<1> DEFINE r == RemoveAt(q, i)
<1>1. /\ Len(r) = Len(q) - 1
      /\ \A j \in 1 .. Len(q) - 1 : Was(i, j) \in 1 .. Len(q) /\ r[j] = q[Was(i, j)]
  BY RemoveAtFacts
<1> HIDE DEF r
<1>2. ASSUME NEW j \in 1 .. Len(r)
      PROVE  /\ r[j].idx < next[r[j].flow]
             /\ r[j].seq = SeqNo(isn[r[j].flow], r[j].idx)
             /\ r[j].bytes = SegBytes(r[j].idx)
  <2>1. Was(i, j) \in 1 .. Len(q) /\ r[j] = q[Was(i, j)]
    BY <1>1
  <2> QED
    BY <2>1 DEF Carries
<1> QED
  BY <1>2 DEF Carries, r

\* Removing an ack leaves what the others cover in order.
LEMMA FewerAcks ==
    ASSUME NEW q \in Seq(Ack), NEW isn, NEW base, NEW st,
           AcksCovered(q, isn, base, st), NEW i \in 1 .. Len(q)
    PROVE  AcksCovered(RemoveAt(q, i), isn, base, st)
<1> DEFINE r == RemoveAt(q, i)
           w(j) == Was(i, j)
<1>1. /\ Len(r) = Len(q) - 1 /\ Len(q) \in Nat
      /\ \A j \in 1 .. Len(q) - 1 : Was(i, j) \in 1 .. Len(q) /\ r[j] = q[Was(i, j)]
  BY RemoveAtFacts
<1>2. \A j, l \in Int : j <= l => Was(i, j) <= Was(i, l)
  BY DEF Was
<1>3. PICK c \in [1 .. Len(q) -> 0 .. TotalSegs] : Covers(c, q, isn, base, st)
  BY DEF AcksCovered
<1> HIDE DEF r
<1> DEFINE d == [j \in 1 .. Len(r) |-> c[Was(i, j)]]
<1>4. d \in [1 .. Len(r) -> 0 .. TotalSegs]
  BY <1>1
<1>5. ASSUME NEW j \in 1 .. Len(r)
      PROVE  /\ r[j].ack = AckNo(isn[r[j].flow], d[j])
             /\ r[j].flow \in Served =>
                   /\ Current(st[r[j].flow], isn[r[j].flow])
                   /\ base[r[j].flow] <= d[j] /\ d[j] <= st[r[j].flow].base_seg
                   /\ \A l \in j .. Len(r) : r[l].flow = r[j].flow => d[j] <= d[l]
  <2>1. Was(i, j) \in 1 .. Len(q) /\ r[j] = q[Was(i, j)] /\ d[j] = c[Was(i, j)]
    BY <1>1
  <2>2. /\ r[j].ack = AckNo(isn[r[j].flow], d[j])
        /\ r[j].flow \in Served =>
              /\ Current(st[r[j].flow], isn[r[j].flow])
              /\ base[r[j].flow] <= d[j] /\ d[j] <= st[r[j].flow].base_seg
              /\ \A l \in Was(i, j) .. Len(q) :
                     q[l].flow = r[j].flow => d[j] <= c[l]
    BY <2>1, <1>3 DEF Covers
  <2>3. ASSUME NEW l \in j .. Len(r), r[j].flow \in Served, r[l].flow = r[j].flow
        PROVE  d[j] <= d[l]
    <3>1. l \in 1 .. Len(r) /\ j <= l /\ l \in Int /\ j \in Int
      BY <1>1
    <3>2. Was(i, l) \in 1 .. Len(q) /\ r[l] = q[Was(i, l)] /\ d[l] = c[Was(i, l)]
      BY <3>1, <1>1
    <3>3. Was(i, j) <= Was(i, l)
      BY <3>1, <1>2
    <3>4. Was(i, l) \in Was(i, j) .. Len(q)
      BY <3>2, <3>3, <2>1
    <3> QED
      BY <3>2, <3>4, <2>2, <2>3
  <2> QED
    BY <2>2, <2>3
<1>6. Covers(d, r, isn, base, st)
  <2> HIDE DEF d
  <2> QED
    BY <1>5, Zenon DEF Covers
<1> QED
  BY <1>4, <1>6, Zenon DEF AcksCovered, r

\* Losing a packet preserves the invariant.
LEMMA LoseStep ==
    ASSUME IInv, Lose
    PROVE  IInv'
<1>1. /\ UNCHANGED <<version, flow_size, client_isn, next_seg, base_seg, in_flight,
                     last_ack32, ack_bytes64, active_flows, runs, flows, got>>
      /\ \/ /\ \E i \in 1 .. Len(fwd) : fwd' = RemoveAt(fwd, i)
            /\ UNCHANGED rev
         \/ /\ \E i \in 1 .. Len(rev) : rev' = RemoveAt(rev, i)
            /\ UNCHANGED fwd
  BY DEF Lose, client
<1>2. TypeInv /\ fwd \in Seq(Segment) /\ rev \in Seq(Ack)
  BY DEF IInv, TypeInv
<1>3. /\ fwd' \in Seq(Segment) /\ rev' \in Seq(Ack)
      /\ Carries(fwd', client_isn, next_seg)
      /\ AcksCovered(rev', client_isn, base_seg, flows)
  BY <1>1, <1>2, RemoveAtFacts, FewerSegments, FewerAcks DEF IInv
<1>4. TypeInv'
  BY <1>1, <1>2, <1>3 DEF TypeInv
<1>5. /\ Edges(next_seg', base_seg', in_flight')
      /\ Counts(client_isn', next_seg', base_seg', in_flight', last_ack32',
                ack_bytes64', runs')
      /\ Active(active_flows', base_seg')
      /\ Serves(client_isn', next_seg', base_seg', flows', got', runs')
  BY <1>1 DEF IInv, Counts, Serves, OneRun
<1> QED
  BY <1>1, <1>3, <1>4, <1>5, NextForm DEF IInvNext

\* An ack for k segments put behind the others.
LEMMA MoreAcks ==
    ASSUME NEW q \in Seq(Ack), NEW isn, NEW base, NEW st,
           AcksCovered(q, isn, base, st), NEW a \in Ack, NEW k \in 0 .. TotalSegs,
           a.ack = AckNo(isn[a.flow], k),
           a.flow \in Served => /\ Current(st[a.flow], isn[a.flow])
                                /\ base[a.flow] <= k /\ k = st[a.flow].base_seg
    PROVE  AcksCovered(Append(q, a), isn, base, st)
<1> DEFINE r == Append(q, a)
           n == Len(q)
<1>1. /\ Len(r) = n + 1 /\ n \in Nat /\ r[n + 1] = a
      /\ \A j \in 1 .. n : r[j] = q[j]
  BY AppendProperties
<1>2. PICK c \in [1 .. n -> 0 .. TotalSegs] : Covers(c, q, isn, base, st)
  BY DEF AcksCovered
<1> HIDE DEF r, n
<1> DEFINE d == [j \in 1 .. Len(r) |-> IF j = n + 1 THEN k ELSE c[j]]
<1>3. d \in [1 .. Len(r) -> 0 .. TotalSegs]
  BY <1>1
<1>4. d[n + 1] = k /\ n + 1 \in 1 .. Len(r) /\ \A j \in 1 .. n : d[j] = c[j]
  BY <1>1
<1> HIDE DEF d
<1>5. ASSUME NEW j \in 1 .. Len(r)
      PROVE  /\ r[j].ack = AckNo(isn[r[j].flow], d[j])
             /\ r[j].flow \in Served =>
                   /\ Current(st[r[j].flow], isn[r[j].flow])
                   /\ base[r[j].flow] <= d[j] /\ d[j] <= st[r[j].flow].base_seg
                   /\ \A l \in j .. Len(r) : r[l].flow = r[j].flow => d[j] <= d[l]
  <2>1. CASE j = n + 1
    <3>1. r[j] = a /\ d[j] = k
      BY <2>1, <1>1, <1>4
    <3>2. \A l \in j .. Len(r) : l = j
      BY <2>1, <1>1
    <3>3. k <= k /\ k \in Nat
      OBVIOUS
    <3> QED
      BY <3>1, <3>2, <3>3
  <2>2. CASE j \in 1 .. n
    <3>1. r[j] = q[j] /\ d[j] = c[j]
      BY <2>2, <1>1, <1>4
    <3>2. /\ r[j].ack = AckNo(isn[r[j].flow], d[j])
          /\ r[j].flow \in Served =>
                /\ Current(st[r[j].flow], isn[r[j].flow])
                /\ base[r[j].flow] <= d[j] /\ d[j] <= st[r[j].flow].base_seg
                /\ \A l \in j .. n : q[l].flow = r[j].flow => d[j] <= c[l]
      BY <2>2, <3>1, <1>2 DEF Covers, n
    <3>3. ASSUME NEW l \in j .. Len(r), r[j].flow \in Served, r[l].flow = r[j].flow
          PROVE  d[j] <= d[l]
      <4>1. CASE l = n + 1
        <5>1. r[l] = a /\ d[l] = k
          BY <4>1, <1>1, <1>4
        <5> QED
          BY <5>1, <3>2, <3>3
      <4>2. CASE l # n + 1
        <5>1. l \in j .. n /\ l \in 1 .. n
          BY <4>2, <2>2, <1>1
        <5> QED
          BY <5>1, <3>2, <3>3, <1>1, <1>4
      <4> QED
        BY <4>1, <4>2
    <3> QED
      BY <3>2, <3>3
  <2> QED
    BY <2>1, <2>2, <1>1
<1>6. Covers(d, r, isn, base, st)
  BY <1>5, Zenon DEF Covers
<1> QED
  BY <1>3, <1>6, Zenon DEF AcksCovered, r

\* The segment is counted in a state that is right for the segments before it.
LEMMA AnswerStep ==
    ASSUME IInv, NEW i \in 1 .. Len(fwd), NEW known, Answer(i, known),
           fwd[i].flow \in Served =>
               /\ known \in State /\ Books(known, got[fwd[i].flow])
               /\ Current(known, client_isn[fwd[i].flow])
               /\ base_seg[fwd[i].flow] <= known.base_seg
               /\ Current(flows[fwd[i].flow], client_isn[fwd[i].flow]) =>
                      known = flows[fwd[i].flow]
    PROVE  IInv'
<1> DEFINE p == fwd[i]
           f == p.flow
           st == IF f \in Served THEN MarkAndAdvance(known, p.idx, p.bytes)
                 ELSE flows[f]
           ack == IF st.inited THEN (st.client_isn + st.bytes_contig) % Word
                  ELSE p.seq
           t == TotalSegs
<1>1. /\ fwd' = RemoveAt(fwd, i)
      /\ flows' = [flows EXCEPT ![f] = st]
      /\ got' = [got EXCEPT ![f] = @ \cup {p.idx}]
      /\ \/ rev' = Append(rev, [flow |-> f, ack |-> ack])
         \/ rev' = rev
      /\ UNCHANGED <<version, flow_size, client_isn, next_seg, base_seg, in_flight,
                     last_ack32, ack_bytes64, active_flows, runs>>
  BY Zenon DEF Answer, client
<1>2. /\ TypeInv /\ t \in Nat \ {0} /\ flow_size \in Nat \ {0}
      /\ {ServerWindow, ClientWindow, Word, Mss} \subseteq Nat \ {0}
      /\ Served \subseteq Flows
      /\ fwd \in Seq(Segment) /\ rev \in Seq(Ack) /\ flows \in [Flows -> State]
      /\ got \in [Flows -> SUBSET Nat] /\ client_isn \in [Flows -> 0 .. Word - 1]
      /\ base_seg \in [Flows -> Nat] /\ next_seg \in [Flows -> Nat]
      /\ in_flight \in [Flows -> Nat]
  BY Basics DEF IInv, TypeInv
<1>3. p \in Segment /\ f \in Flows /\ p.idx \in Nat /\ p.seq \in 0 .. Word - 1
  <2>1. p \in Segment
    BY <1>2
  <2> HIDE DEF p
  <2> QED
    BY <2>1 DEF Segment
<1>4. /\ p.idx < next_seg[f] /\ p.seq = SeqNo(client_isn[f], p.idx)
      /\ p.bytes = SegBytes(p.idx)
  BY DEF IInv, Carries
<1>5. /\ next_seg[f] <= t /\ base_seg[f] <= t
      /\ next_seg[f] - base_seg[f] <= in_flight[f]
      /\ in_flight[f] <= ClientWindow /\ ClientWindow <= ServerWindow
      /\ next_seg[f] \in Nat /\ base_seg[f] \in Nat /\ in_flight[f] \in Nat
      /\ got[f] \in SUBSET Nat /\ client_isn[f] \in 0 .. Word - 1
      /\ flows[f] \in State
  BY <1>2, <1>3, LabAssumption DEF IInv, Edges
<1>6. p.idx \in 0 .. t - 1
  <2> HIDE DEF p, f
  <2> QED
    BY <1>2, <1>3, <1>4, <1>5
<1> HIDE DEF p
<1>7. ASSUME f \in Served
      PROVE  /\ known \in State /\ Books(known, got[f]) /\ known.base_seg \in Nat
             /\ Current(known, client_isn[f]) /\ base_seg[f] <= known.base_seg
             /\ Current(flows[f], client_isn[f]) => known = flows[f]
  BY <1>7 DEF p, State
<1> HIDE DEF f
<1>8. ASSUME f \in Served
      PROVE  /\ st \in State /\ Books(st, got[f] \cup {p.idx})
             /\ Current(st, client_isn[f])
             /\ st.base_seg \in Nat /\ st.base_seg >= known.base_seg
             /\ base_seg[f] <= st.base_seg
  <2> DEFINE new == MarkAndAdvance(known, p.idx, SegBytes(p.idx))
  <2>1. st = new
    BY <1>4, <1>8 DEF f
  <2>2. p.idx < known.base_seg + ServerWindow
    <3>1. known.base_seg \in Nat /\ base_seg[f] <= known.base_seg
      BY <1>7, <1>8
    <3> HIDE DEF st, new
    <3>2. p.idx < base_seg[f] + ServerWindow
      BY <1>2, <1>3, <1>4, <1>5
    <3> DEFINE u == base_seg[f]
               v == known.base_seg
               n == p.idx
    <3>3. u \in Nat /\ v \in Nat /\ n \in Nat /\ ServerWindow \in Nat
          /\ u <= v /\ n < u + ServerWindow
      BY <3>1, <3>2, <1>2, <1>3, <1>5
    <3> HIDE DEF u, v, n
    <3>4. n < v + ServerWindow
      BY <3>3
    <3> QED
      BY <3>4 DEF v, n
  <2>3. /\ new \in State /\ Books(new, got[f] \cup {p.idx})
        /\ new.inited = known.inited /\ new.client_isn = known.client_isn
        /\ new.base_seg >= known.base_seg
    BY <2>2, <1>2, <1>5, <1>6, <1>7, <1>8, MarkBooks
  <2> HIDE DEF st, new
  <2>4. st \in State /\ st.base_seg \in Nat
    BY <2>1, <2>3 DEF State
  <2>5. Current(st, client_isn[f])
    BY <2>1, <2>3, <1>7, <1>8 DEF Current
  <2> QED
    BY <2>1, <2>3, <2>4, <2>5, <1>5, <1>7, <1>8
<1>9. ASSUME f \notin Served PROVE st = flows[f] /\ ~st.inited
  <2>1. st = flows[f]
    BY <1>9 DEF f
  <2> QED
    BY <2>1, <1>3, <1>9 DEF IInv, Serves
<1>10. \E k \in 0 .. t : ack = AckNo(client_isn[f], k)
                          /\ (f \in Served => k = st.base_seg)
  <2>1. CASE f \in Served
    <3>1. /\ st.inited /\ st.client_isn = client_isn[f]
          /\ st.base_seg \in 0 .. t /\ st.bytes_contig = BytesOf(st.base_seg)
      BY <2>1, <1>2, <1>8 DEF Current, Books
    <3> HIDE DEF st
    <3>2. ack = AckNo(client_isn[f], st.base_seg)
      BY <3>1 DEF AckNo
    <3> QED
      BY <3>1, <3>2
  <2>2. CASE f \notin Served
    <3>1. ~st.inited
      BY <2>2, <1>9
    <3> HIDE DEF st
    <3>2. BytesOf(p.idx) = p.idx * Mss
      BY <1>2, <1>6 DEF BytesOf
    <3>3. ack = AckNo(client_isn[f], p.idx)
      BY <3>1, <3>2, <1>4 DEF AckNo, SeqNo, f
    <3> QED
      BY <3>3, <2>2, <1>2, <1>6
  <2> QED
    BY <2>1, <2>2
<1>11. PICK k \in 0 .. t : ack = AckNo(client_isn[f], k)
                           /\ (f \in Served => k = st.base_seg)
  BY <1>10
<1>12. st \in State
  BY <1>5, <1>8, <1>9
<1> HIDE DEF st
<1>13. /\ \A g \in Flows : flows'[g] = IF g = f THEN st ELSE flows[g]
       /\ \A g \in Flows : got'[g] = IF g = f THEN got[f] \cup {p.idx} ELSE got[g]
       /\ flows' \in [Flows -> State] /\ got' \in [Flows -> SUBSET Nat]
  BY <1>1, <1>2, <1>3, <1>12 DEF f
<1>14. fwd' \in Seq(Segment) /\ Carries(fwd', client_isn, next_seg)
  BY <1>1, <1>2, RemoveAtFacts, FewerSegments DEF IInv
<1>15. Serves(client_isn', next_seg', base_seg', flows', got', runs')
  <2>1. ASSUME NEW g \in Served
        PROVE  /\ Current(flows'[g], client_isn[g]) =>
                     /\ Books(flows'[g], got'[g])
                     /\ base_seg[g] <= flows'[g].base_seg
               /\ ~Current(flows'[g], client_isn[g]) =>
                     /\ got'[g] = {} /\ base_seg[g] = 0
                     /\ version = "gpt" => ~flows'[g].inited
               /\ OneRun(runs) => \A s \in got'[g] : s < next_seg[g]
    <3>1. g \in Flows
      BY <1>2
    <3>2. /\ Current(flows[g], client_isn[g]) =>
                /\ Books(flows[g], got[g]) /\ base_seg[g] <= flows[g].base_seg
          /\ ~Current(flows[g], client_isn[g]) =>
                /\ got[g] = {} /\ base_seg[g] = 0
                /\ version = "gpt" => ~flows[g].inited
          /\ OneRun(runs) => \A s \in got[g] : s < next_seg[g]
      BY DEF IInv, Serves
    <3>3. CASE g = f
      <4>1. flows'[g] = st /\ got'[g] = got[g] \cup {p.idx}
        BY <3>1, <3>3, <1>13
      <4>2. p.idx < next_seg[g]
        BY <3>3, <1>4 DEF f
      <4> QED
        BY <4>1, <4>2, <3>2, <3>3, <1>8
    <3>4. CASE g # f
      BY <3>1, <3>2, <3>4, <1>13
    <3> QED
      BY <3>3, <3>4
  <2>2. ASSUME NEW g \in Flows \ Served PROVE ~flows'[g].inited
    <3>1. ~flows[g].inited
      BY DEF IInv, Serves
    <3> QED
      BY <3>1, <1>9, <1>13
  <2>3. Serves(client_isn, next_seg, base_seg, flows', got', runs)
    BY <2>1, <2>2, Zenon DEF Serves
  <2> QED
    BY <2>3, <1>1
<1>16. AcksCovered(rev, client_isn, base_seg, flows')
  <2>1. PICK c \in [1 .. Len(rev) -> 0 .. t] :
            Covers(c, rev, client_isn, base_seg, flows)
    BY DEF IInv, AcksCovered
  <2>2. ASSUME NEW j \in 1 .. Len(rev), rev[j].flow \in Served
        PROVE  /\ Current(flows'[rev[j].flow], client_isn[rev[j].flow])
               /\ c[j] <= flows'[rev[j].flow].base_seg
    <3>1. /\ Current(flows[rev[j].flow], client_isn[rev[j].flow])
          /\ c[j] <= flows[rev[j].flow].base_seg
          /\ rev[j].flow \in Flows
      BY <2>1, <2>2, <1>2 DEF Covers
    <3>2. CASE rev[j].flow = f
      <4>1. /\ known = flows[f] /\ Current(st, client_isn[f])
            /\ st.base_seg \in Nat /\ st.base_seg >= known.base_seg
            /\ known.base_seg \in Nat
        BY <2>2, <3>1, <3>2, <1>7, <1>8
      <4>2. flows'[rev[j].flow] = st
        BY <3>1, <3>2, <1>13
      <4> QED
        BY <4>1, <4>2, <3>1, <3>2
    <3>3. CASE rev[j].flow # f
      BY <3>1, <3>3, <1>13
    <3> QED
      BY <3>2, <3>3
  <2>3. Covers(c, rev, client_isn, base_seg, flows')
    BY <2>1, <2>2 DEF Covers
  <2> QED
    BY <2>1, <2>3 DEF AcksCovered
<1>17. rev' \in Seq(Ack) /\ AcksCovered(rev', client_isn, base_seg, flows')
  <2>1. CASE rev' = rev
    BY <2>1, <1>2, <1>16
  <2>2. CASE rev' = Append(rev, [flow |-> f, ack |-> ack])
    <3> DEFINE a == [flow |-> f, ack |-> ack]
    <3>1. ack \in 0 .. Word - 1
      <4>1. BytesOf(k) \in Nat
        BY <1>2, BytesFacts
      <4>2. (client_isn[f] + BytesOf(k)) % Word \in 0 .. Word - 1
        BY <4>1, <1>5, SeqNoType
      <4> HIDE DEF ack
      <4> QED
        BY <4>2, <1>11 DEF AckNo
    <3> HIDE DEF ack
    <3>2. a \in Ack /\ a.flow = f /\ a.ack = ack
      BY <3>1, <1>3 DEF Ack, f
    <3>3. f \in Served => /\ Current(flows'[f], client_isn[f])
                          /\ base_seg[f] <= k /\ k = flows'[f].base_seg
      BY <1>3, <1>8, <1>11, <1>13 DEF f
    <3> HIDE DEF a
    <3>4. AcksCovered(Append(rev, a), client_isn, base_seg, flows')
      BY <3>2, <3>3, <1>2, <1>11, <1>16, MoreAcks
    <3>5. Append(rev, a) \in Seq(Ack)
      BY <3>2, <1>2
    <3> QED
      BY <2>2, <3>4, <3>5 DEF a
  <2> QED
    BY <2>1, <2>2, <1>1
<1>18. TypeInv'
  BY <1>1, <1>2, <1>13, <1>14, <1>17 DEF TypeInv
<1>19. /\ Edges(next_seg', base_seg', in_flight')
       /\ Counts(client_isn', next_seg', base_seg', in_flight', last_ack32',
                 ack_bytes64', runs')
       /\ Active(active_flows', base_seg')
  BY <1>1 DEF IInv, Counts, OneRun
<1> QED
  BY <1>1, <1>14, <1>15, <1>17, <1>18, <1>19, NextForm DEF IInvNext

\* The segment at place i is sound, and so is the state of its flow.
LEMMA ArrivingSegment ==
    ASSUME IInv, NEW i \in 1 .. Len(fwd)
    PROVE  LET f == fwd[i].flow
           IN  /\ f \in Flows /\ InferredIsn(fwd[i]) = client_isn[f]
               /\ client_isn[f] \in 0 .. Word - 1
               /\ flow_size \in Nat \ {0} /\ flows[f] \in State
               /\ f \in Served =>
                     \/ /\ Current(flows[f], client_isn[f])
                        /\ Books(flows[f], got[f])
                        /\ base_seg[f] <= flows[f].base_seg
                     \/ /\ ~Current(flows[f], client_isn[f])
                        /\ got[f] = {} /\ base_seg[f] = 0
                        /\ version = "gpt" => ~flows[f].inited
<1> DEFINE p == fwd[i]
           f == p.flow
<1>1. /\ TypeInv /\ fwd \in Seq(Segment) /\ flow_size \in Nat \ {0}
      /\ flows \in [Flows -> State] /\ Mss \in Nat
      /\ client_isn \in [Flows -> 0 .. Word - 1]
  BY Basics DEF IInv, TypeInv
<1>2. f \in Flows /\ p.idx \in Nat
  <2>1. p \in Segment
    BY <1>1
  <2> HIDE DEF p
  <2> QED
    BY <2>1 DEF Segment
<1>3. p.seq = SeqNo(client_isn[f], p.idx)
  BY DEF IInv, Carries
<1>4. client_isn[f] \in 0 .. Word - 1 /\ flows[f] \in State
  BY <1>1, <1>2
<1>5. InferredIsn(p) = client_isn[f]
  <2> DEFINE x == p.idx * Mss
             isn == client_isn[f]
  <2>1. InferredIsn(p) = (((isn + x) % Word) - x) % Word
    BY <1>3 DEF InferredIsn, SeqNo
  <2>2. isn \in 0 .. Word - 1 /\ x \in Nat
    BY <1>1, <1>2, <1>4
  <2> HIDE DEF isn, x
  <2>3. (((isn + x) % Word) - x) % Word = isn
    BY <2>2, Recovered
  <2> QED
    BY <2>1, <2>3 DEF isn
<1>6. ASSUME f \in Served
      PROVE  \/ /\ Current(flows[f], client_isn[f])
                /\ Books(flows[f], got[f])
                /\ base_seg[f] <= flows[f].base_seg
             \/ /\ ~Current(flows[f], client_isn[f])
                /\ got[f] = {} /\ base_seg[f] = 0
                /\ version = "gpt" => ~flows[f].inited
  BY <1>6 DEF IInv, Serves
<1> QED
  BY <1>1, <1>2, <1>4, <1>5, <1>6

\* Either server's handler preserves the invariant.
LEMMA SegmentStep ==
    ASSUME IInv, ReceiveSegment \/ OldReceiveSegment
    PROVE  IInv'
<1> DEFINE Known(j) ==
             IF version = "lab1"
             THEN StateFor(flows[fwd[j].flow], InferredIsn(fwd[j]))
             ELSE OldStateFor(flows[fwd[j].flow], InferredIsn(fwd[j]))
<1>0. PICK i \in 1 .. Len(fwd) :
          /\ Answer(i, Known(i))
          /\ version = "lab1" \/ version = "gpt"
  BY DEF ReceiveSegment, OldReceiveSegment, Deliverable
<1> DEFINE known == Known(i)
<1>1. /\ Answer(i, known)
      /\ \/ /\ version = "lab1"
            /\ known = StateFor(flows[fwd[i].flow], InferredIsn(fwd[i]))
         \/ /\ version = "gpt"
            /\ known = OldStateFor(flows[fwd[i].flow], InferredIsn(fwd[i]))
  BY <1>0
<1> HIDE DEF known
<1> DEFINE f == fwd[i].flow
<1>2. /\ f \in Flows /\ InferredIsn(fwd[i]) = client_isn[f]
      /\ client_isn[f] \in 0 .. Word - 1
      /\ flow_size \in Nat \ {0} /\ flows[f] \in State
      /\ f \in Served =>
            \/ /\ Current(flows[f], client_isn[f])
               /\ Books(flows[f], got[f])
               /\ base_seg[f] <= flows[f].base_seg
            \/ /\ ~Current(flows[f], client_isn[f])
               /\ got[f] = {} /\ base_seg[f] = 0
               /\ version = "gpt" => ~flows[f].inited
  BY ArrivingSegment
<1>3. ASSUME f \in Served
      PROVE  /\ known \in State /\ Books(known, got[f])
             /\ Current(known, client_isn[f])
             /\ base_seg[f] <= known.base_seg
             /\ Current(flows[f], client_isn[f]) => known = flows[f]
  <2> HIDE DEF f
  <2>1. CASE Current(flows[f], client_isn[f])
    <3>1. known = flows[f]
      BY <2>1, <1>1, <1>2 DEF Current, StateFor, OldStateFor, f
    <3> QED
      BY <3>1, <2>1, <1>2, <1>3
  <2>2. CASE ~Current(flows[f], client_isn[f])
    <3>1. known = Reset(flows[f], client_isn[f])
      BY <2>2, <1>1, <1>2, <1>3 DEF Current, StateFor, OldStateFor, f
    <3>2. got[f] = {} /\ base_seg[f] = 0
      BY <2>2, <1>2, <1>3
    <3>3. /\ known \in State /\ Books(known, {}) /\ known.inited
          /\ known.client_isn = client_isn[f] /\ known.base_seg = 0
      BY <3>1, <1>2, ResetBooks
    <3> QED
      BY <2>2, <3>2, <3>3 DEF Current
  <2> QED
    BY <2>1, <2>2
<1> QED
  BY <1>1, <1>3, AnswerStep

----------------------------------------------------------------------------
(* The theorems *)

\* IInv holds in every state, for both pairs of programs.
THEOREM InvariantHolds == Spec => []IInv
<1>1. Init => IInv
  BY Initially
<1>2. IInv /\ [Next]_vars => IInv'
  <2> SUFFICES ASSUME IInv, [Next]_vars PROVE IInv'
    OBVIOUS
  <2>1. ASSUME NEW f \in Flows, SendSegment(f) PROVE IInv'
    BY <2>1, SendStep
  <2>2. CASE ReceiveAck
    BY <2>2, AckStep
  <2>3. CASE OldReceiveAck
    BY <2>3, OldAckStep
  <2>4. CASE NewRun
    BY <2>4, NewRunStep
  <2>5. CASE OldNewRun
    BY <2>5, OldNewRunStep
  <2>6. CASE ReceiveSegment \/ OldReceiveSegment
    BY <2>6, SegmentStep
  <2>7. CASE Lose
    BY <2>7, LoseStep
  <2>8. CASE UNCHANGED vars
    <3>1. UNCHANGED <<version, flow_size, client_isn, next_seg, base_seg, in_flight,
                      last_ack32, ack_bytes64, active_flows, runs, flows, fwd,
                      rev, got>>
      BY <2>8 DEF vars, client
    <3>2. TypeInv'
      BY <3>1 DEF IInv, TypeInv
    <3>3. IInvNext
      BY <3>1, <3>2 DEF IInv, IInvNext, Counts, Serves, OneRun
    <3> QED
      BY <3>1, <3>3, NextForm
  <2> QED
    BY <2>1, <2>2, <2>3, <2>4, <2>5, <2>6, <2>7, <2>8 DEF Next
<1> QED
  BY <1>1, <1>2, PTL DEF Spec

\* The segments that have arrived without a gap are those the server counts.
LEMMA PrefixIs ==
    ASSUME IInv, NEW f \in Served
    PROVE  /\ Prefix(f) \in 0 .. TotalSegs
           /\ Current(flows[f], client_isn[f]) => Prefix(f) = flows[f].base_seg
           /\ ~Current(flows[f], client_isn[f]) => Prefix(f) = 0
<1>1. /\ f \in Flows /\ flows[f] \in State /\ TotalSegs \in Nat
      /\ got[f] \in SUBSET Nat
  BY Basics DEF IInv, TypeInv
<1> DEFINE b == IF Current(flows[f], client_isn[f]) THEN flows[f].base_seg ELSE 0
<1>2. b \in 0 .. TotalSegs /\ 0 .. b - 1 \subseteq got[f] /\ b \notin got[f]
  <2>1. CASE Current(flows[f], client_isn[f])
    <3>1. b = flows[f].base_seg /\ b \in Nat
      BY <2>1, <1>1 DEF State
    <3>2. Books(flows[f], got[f])
      BY <2>1 DEF IInv, Serves
    <3> HIDE DEF b
    <3> QED
      BY <3>1, <3>2, <1>1 DEF Books
  <2>2. CASE ~Current(flows[f], client_isn[f])
    <3>1. b = 0 /\ got[f] = {}
      BY <2>2 DEF IInv, Serves
    <3> HIDE DEF b
    <3> QED
      BY <3>1, <1>1
  <2> QED
    BY <2>1, <2>2
<1> HIDE DEF b
<1>3. ASSUME NEW k \in 0 .. TotalSegs, 0 .. k - 1 \subseteq got[f], k \notin got[f]
      PROVE  k = b
  <2>1. ~(k < b)
    BY <1>2, <1>3
  <2>2. ~(b < k)
    BY <1>2, <1>3
  <2> QED
    BY <2>1, <2>2, <1>2
<1>4. Prefix(f) = b
  BY <1>2, <1>3, Zenon DEF Prefix
<1> QED
  BY <1>2, <1>4 DEF b

\* What the invariant says of a served flow, in the terms of the properties.
LEMMA FlowFacts ==
    ASSUME IInv, NEW f \in Served
    PROVE  /\ f \in Flows /\ TotalSegs \in Nat \ {0} /\ flow_size \in Nat \ {0}
           /\ base_seg[f] \in 0 .. TotalSegs /\ next_seg[f] \in 0 .. TotalSegs
           /\ in_flight[f] \in 0 .. ClientWindow
           /\ next_seg[f] - base_seg[f] <= in_flight[f]
           /\ base_seg[f] >= TotalSegs => Completable
           /\ Prefix(f) \in 0 .. TotalSegs /\ base_seg[f] <= Prefix(f)
           /\ got[f] # {} => Current(flows[f], client_isn[f])
           /\ Current(flows[f], client_isn[f]) =>
                 Books(flows[f], got[f]) /\ Prefix(f) = flows[f].base_seg
<1>1. /\ f \in Flows /\ TotalSegs \in Nat \ {0} /\ flow_size \in Nat \ {0}
      /\ base_seg[f] \in Nat /\ next_seg[f] \in Nat /\ in_flight[f] \in Nat
      /\ ClientWindow \in Nat
  BY Basics DEF IInv, TypeInv
<1>2. /\ next_seg[f] <= TotalSegs /\ base_seg[f] <= TotalSegs
      /\ next_seg[f] - base_seg[f] <= in_flight[f] /\ in_flight[f] <= ClientWindow
      /\ base_seg[f] >= TotalSegs => Completable
  BY <1>1 DEF IInv, Edges
<1>3. /\ Prefix(f) \in 0 .. TotalSegs
      /\ Current(flows[f], client_isn[f]) => Prefix(f) = flows[f].base_seg
      /\ ~Current(flows[f], client_isn[f]) => Prefix(f) = 0
  BY PrefixIs
<1>4. /\ Current(flows[f], client_isn[f]) =>
            Books(flows[f], got[f]) /\ base_seg[f] <= flows[f].base_seg
      /\ ~Current(flows[f], client_isn[f]) => got[f] = {} /\ base_seg[f] = 0
  BY DEF IInv, Serves
<1>5. base_seg[f] <= Prefix(f)
  BY <1>1, <1>3, <1>4
<1> QED
  BY <1>1, <1>2, <1>3, <1>4, <1>5

\* A flow is reported done only when the server has all of it, and counted once
\* (lab1-client.c:402-422, client-gpt.c:353-364).
THEOREM DoneMeansDelivered == Spec => []DoneIsDelivered
<1>1. ASSUME IInv PROVE DoneIsDelivered
  <2>1. ASSUME NEW f \in Served, Done(f)
        PROVE  Completable /\ got[f] = 0 .. TotalSegs - 1
    <3>1. base_seg[f] = TotalSegs /\ Completable /\ TotalSegs \in Nat \ {0}
      BY <1>1, <2>1, FlowFacts DEF Done
    <3>2. Prefix(f) = TotalSegs
      BY <1>1, <3>1, FlowFacts
    <3>3. Current(flows[f], client_isn[f])
      BY <1>1, <3>1, <3>2, PrefixIs
    <3>4. Books(flows[f], got[f]) /\ flows[f].base_seg = TotalSegs
      BY <1>1, <3>2, <3>3, FlowFacts
    <3>5. got[f] \in SUBSET Nat
      BY <1>1, FlowFacts DEF IInv, TypeInv
    <3>6. 0 .. TotalSegs - 1 \subseteq got[f] /\ \A s \in got[f] : s < TotalSegs
      BY <3>4 DEF Books
    <3>7. \A s \in got[f] : s \in 0 .. TotalSegs - 1
      BY <3>1, <3>5, <3>6
    <3> QED
      BY <3>1, <3>6, <3>7, Zenon
  <2>2. active_flows = Cardinality({f \in Flows : ~Done(f)})
    BY <1>1 DEF IInv, Active, Done
  <2> QED
    BY <2>1, <2>2 DEF DoneIsDelivered
<1> QED
  BY <1>1, InvariantHolds, PTL

\* The server's count and left edge are those of the segments it has without a
\* gap (lab1-server.c:85-105, 432-438, server-gpt.c:85-105).
THEOREM PrefixIsCounted == Spec => []CountsThePrefix
<1>1. ASSUME IInv PROVE CountsThePrefix
  BY <1>1, FlowFacts DEF CountsThePrefix, Current, Books
<1> QED
  BY <1>1, InvariantHolds, PTL

\* The client's counts, unwrapped from 32-bit acks, never exceed what the server
\* has (lab1-client.c:377-388, client-gpt.c:353-357).
THEOREM AckedBytesArrived == Spec => []AckBytesAreReal
<1>1. ASSUME IInv PROVE AckBytesAreReal
  <2> SUFFICES ASSUME NEW f \in Served
               PROVE  IF version = "gpt" THEN base_seg[f] * Mss <= BytesOf(Prefix(f))
                      ELSE /\ ack_bytes64[f] <= BytesOf(Prefix(f))
                           /\ last_ack32[f] = (client_isn[f] + ack_bytes64[f]) % Word
    BY DEF AckBytesAreReal
  <2> DEFINE b == base_seg[f]
             k == Prefix(f)
  <2>1. /\ b \in 0 .. TotalSegs /\ k \in 0 .. TotalSegs /\ b <= k
        /\ flow_size \in Nat \ {0} /\ TotalSegs \in Nat \ {0}
        /\ b >= TotalSegs => Completable
    BY <1>1, FlowFacts
  <2>2. version \in {"lab1", "gpt"}
    BY <1>1 DEF IInv, TypeInv
  <2>3. BytesOf(b) <= BytesOf(k) /\ BytesOf(b) \in Nat /\ BytesOf(k) \in Nat
    <3>1. b \in 0 .. k
      BY <2>1
    <3> HIDE DEF b, k
    <3> QED
      BY <2>1, <3>1, BytesFacts
  <2>4. CASE version = "lab1"
    <3>1. ack_bytes64[f] = BytesOf(b) /\ last_ack32[f] = AckNo(client_isn[f], b)
      BY <1>1, <2>4 DEF IInv, Counts
    <3> QED
      BY <2>3, <2>4, <3>1 DEF AckNo
  <2>5. CASE version = "gpt"
    <3>1. CASE b < TotalSegs
      <4>1. BytesOf(b) = b * Mss
        BY <2>1, <3>1 DEF BytesOf
      <4> QED
        BY <2>3, <2>5, <4>1
    <3>2. CASE b = TotalSegs
      <4>1. flow_size % DataPerSeg = 0
        BY <2>1, <2>5, <3>2 DEF Completable
      <4>2. BytesOf(b) = TotalSegs * Mss
        BY <2>1, <3>2, <4>1, FullSegs
      <4> QED
        BY <2>3, <2>5, <3>2, <4>2
    <3> QED
      BY <2>1, <3>1, <3>2
  <2> QED
    BY <2>2, <2>4, <2>5
<1> QED
  BY <1>1, InvariantHolds, PTL

\* in_flight counts the segments between the client's edges (lab1-client.c:348-362,
\* 425-430, client-gpt.c:333-358).
THEOREM InFlightIsExact == Spec => []InFlightExact
<1>1. ASSUME IInv PROVE InFlightExact
  <2> SUFFICES ASSUME NEW f \in Served, ~Done(f), version = "lab1" \/ runs = 1
               PROVE  /\ in_flight[f] = next_seg[f] - base_seg[f]
                      /\ base_seg[f] <= next_seg[f] /\ next_seg[f] <= TotalSegs
    BY DEF InFlightExact
  <2>1. in_flight[f] = next_seg[f] - base_seg[f]
    BY <1>1 DEF IInv, Counts, OneRun, Done
  <2>2. /\ base_seg[f] \in Nat /\ next_seg[f] \in Nat /\ in_flight[f] \in Nat
        /\ next_seg[f] <= TotalSegs
    BY <1>1, FlowFacts
  <2> QED
    BY <2>1, <2>2
<1> QED
  BY <1>1, InvariantHolds, PTL

\* Nothing sent lies beyond the server's window, which the client's assures only
\* because it is no wider and its left edge no further (lab1-server.c:88-90).
THEOREM WindowHoldsAll == Spec => []NothingBeyondWindow
<1>1. ASSUME IInv PROVE NothingBeyondWindow
  <2> SUFFICES ASSUME NEW i \in 1 .. Len(fwd), fwd[i].flow \in Served
               PROVE  fwd[i].idx < Prefix(fwd[i].flow) + ServerWindow
    BY DEF NothingBeyondWindow
  <2> DEFINE f == fwd[i].flow
             n == fwd[i].idx
             b == base_seg[f]
             k == Prefix(f)
  <2>1. n < next_seg[f]
    BY <1>1 DEF IInv, Carries
  <2>2. n \in Nat
    <3>1. fwd[i] \in Segment
      BY <1>1 DEF IInv, TypeInv
    <3> QED
      BY <3>1 DEF Segment
  <2>3. /\ next_seg[f] \in Nat /\ b \in Nat /\ k \in Nat /\ b <= k
        /\ next_seg[f] - b <= in_flight[f] /\ in_flight[f] \in 0 .. ClientWindow
    BY <1>1, FlowFacts
  <2>4. ClientWindow \in Nat /\ ServerWindow \in Nat /\ ClientWindow <= ServerWindow
    BY LabAssumption
  <2> HIDE DEF n, b, k, f
  <2>5. n < k + ServerWindow
    BY <2>1, <2>2, <2>3, <2>4
  <2> QED
    BY <2>5 DEF n, k, f
<1> QED
  BY <1>1, InvariantHolds, PTL
=============================================================================
