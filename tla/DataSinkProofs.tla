--------------------------- MODULE DataSinkProofs ---------------------------
(***************************************************************************)
(* DataSink implements PrefixReceiver, for every segment size and every    *)
(* length of the stream.  What makes it so is the order of the list: it is *)
(* strictly increasing and lies beyond the first gap.                      *)
(***************************************************************************)
EXTENDS DataSink, SequenceTheorems, TLAPS

\* What holds of the ack and the list between two packets: the ack is at the
\* end of a segment, and the list holds first bytes of segments, in increasing
\* order, all behind the segment that the ack waits for.
Sound(ack, list) ==
    /\ \E n \in 0 .. Segments : ack = n * MSS
    /\ list \in Seq(SeqNos)
    /\ \A i, j \in 1 .. Len(list) : i < j => list[i] < list[j]
    /\ \A i \in 1 .. Len(list) : list[i] > ack + 1

SinkInv == Sound(cumulative_ack, received)

\* seqno is the first byte of segment s.
Starts(s, seqno) == seqno = (s - 1) * MSS + 1

----------------------------------------------------------------------------
(* Sequence numbers *)

\* Ends of different segments are a segment apart.
LEMMA Spacing ==
    ASSUME SinkAssumption, NEW a \in Int, NEW b \in Int
    PROVE  /\ a * MSS \in Int
           /\ a < b => a * MSS + MSS <= b * MSS
           /\ a <= b => a * MSS <= b * MSS
           /\ (a + 1) * MSS = a * MSS + MSS
           /\ (a - 1) * MSS = a * MSS - MSS
           /\ (a + b) * MSS = a * MSS + b * MSS
  <1>1. MSS \in Nat /\ MSS > 0
    BY DEF SinkAssumption
  <1>2. ASSUME NEW n \in Nat PROVE n * MSS \in Nat
    BY <1>1, SMT
  <1>3. (b - a) * MSS = b * MSS - a * MSS
    BY <1>1, SMT
  <1>4. (b - a - 1) * MSS = b * MSS - a * MSS - MSS
    BY <1>1, SMT
  <1>5. a < b => a * MSS + MSS <= b * MSS
    <2> SUFFICES ASSUME a < b PROVE a * MSS + MSS <= b * MSS
      OBVIOUS
    <2>1. (b - a - 1) * MSS \in Nat
      BY <1>2
    <2>2. a * MSS \in Int /\ b * MSS \in Int
      BY <1>1
    <2>3. QED
      BY <1>1, <1>4, <2>1, <2>2
  <1>6. QED
    BY <1>1, <1>5, SMT

\* A list entry is the first byte of a segment.
LEMMA EntryOf ==
    ASSUME SinkAssumption, NEW list \in Seq(SeqNos), NEW i \in 1 .. Len(list)
    PROVE  \E s \in 1 .. Segments :
              /\ list[i] = (s - 1) * MSS + 1
              /\ list[i] = s * MSS - MSS + 1
              /\ list[i] \in Int
  <1>1. list[i] \in SeqNos
    BY ElementOfSeq
  <1>2. PICK s \in 1 .. Segments : list[i] = (s - 1) * MSS + 1
    BY <1>1 DEF SeqNos
  <1>3. s \in Int /\ MSS \in Int
    BY DEF SinkAssumption
  <1>4. QED
    BY <1>2, <1>3, Spacing

----------------------------------------------------------------------------
(* The prefix *)

\* A set with the segments up to c and not the next one has a prefix of c.
LEMMA PrefixIs ==
    ASSUME SinkAssumption, NEW S, NEW c \in 0 .. Segments,
           1 .. c \subseteq S, (c + 1) \notin S
    PROVE  Receiver!PrefixEnd(S) = c * MSS
  <1> DEFINE T == {k \in 0 .. Segments : 1 .. k \subseteq S}
  <1>1. c \in T
    OBVIOUS
  <1>2. ASSUME NEW k \in T PROVE k <= c
    <2>1. k > c => (c + 1) \in 1 .. k
      BY DEF SinkAssumption
    <2>2. QED
      BY <2>1 DEF SinkAssumption
  <1>3. ASSUME NEW x \in T, \A y \in T : x >= y PROVE x = c
    BY <1>1, <1>2, <1>3 DEF SinkAssumption
  <1>4. (CHOOSE x \in T : \A y \in T : x >= y) = c
    <2>1. \A y \in T : c >= y
      BY <1>2 DEF SinkAssumption
    <2>2. QED
      BY <1>1, <1>3, <2>1
  <1>5. Receiver!PrefixEnd(S) = MSS * c
    BY <1>4 DEF Receiver!PrefixEnd, Receiver!Max
  <1>6. QED
    BY <1>5 DEF SinkAssumption

\* The ack of a sound sink covers exactly the prefix it holds.
LEMMA AckIsPrefix ==
    ASSUME SinkAssumption, NEW ack, NEW list, Sound(ack, list)
    PROVE  Receiver!PrefixEnd(HeldBy(ack, list)) = ack
  <1>1. PICK n \in 0 .. Segments : ack = n * MSS
    BY DEF Sound
  <1>2. n \in Int /\ Segments \in Nat /\ MSS \in Nat /\ MSS > 0
    BY DEF SinkAssumption
  <1>3. 1 .. n \subseteq HeldBy(ack, list)
    <2> SUFFICES ASSUME NEW s \in 1 .. n PROVE s \in HeldBy(ack, list)
      OBVIOUS
    <2>1. s * MSS <= n * MSS
      BY <1>2, Spacing
    <2>2. QED
      BY <1>1, <1>2, <2>1 DEF HeldBy
  <1>4. (n + 1) \notin HeldBy(ack, list)
    <2>1. ~ ((n + 1) * MSS <= ack)
      BY <1>1, <1>2, Spacing
    <2>2. ~ \E i \in 1 .. Len(list) : list[i] = ((n + 1) - 1) * MSS + 1
      BY <1>1, <1>2, Spacing DEF Sound
    <2>3. QED
      BY <2>1, <2>2 DEF HeldBy
  <1>5. QED
    BY <1>1, <1>3, <1>4, PrefixIs

----------------------------------------------------------------------------
(* The two ways in which the list changes *)

\* The packet that was waited for: the loop pops what has become contiguous,
\* what stays in the list does not extend the prefix, and nothing held is lost.
LEMMA PopStep ==
    ASSUME SinkAssumption, NEW ack, NEW list, Sound(ack, list),
           NEW s \in 1 .. Segments, (s - 1) * MSS + 1 = ack + 1,
           NEW k \in 0 .. Len(list), Pops(ack + MSS, list, k)
    PROVE  LET ack2 == ack + MSS + k * MSS
               list2 == SubSeq(list, k + 1, Len(list))
           IN  /\ Sound(ack2, list2)
               /\ HeldBy(ack2, list2) = HeldBy(ack, list) \cup {s}
  <1> DEFINE n == Len(list)
             ack2 == ack + MSS + k * MSS
             list2 == SubSeq(list, k + 1, n)
  <1>1. /\ MSS \in Nat /\ MSS > 0 /\ Segments \in Nat /\ s \in Int /\ k \in Int
        /\ list \in Seq(SeqNos) /\ n \in Nat /\ s * MSS \in Int
        /\ ack = s * MSS - MSS /\ k * MSS \in Int
    <2>1. list \in Seq(SeqNos)
      BY DEF Sound
    <2>2. n \in Nat
      BY <2>1, LenProperties
    <2>3. MSS \in Nat /\ MSS > 0 /\ Segments \in Nat
      BY DEF SinkAssumption
    <2>4. s \in Int /\ k \in Int
      BY <2>2, <2>3
    <2>5. s * MSS \in Int /\ k * MSS \in Int /\ (s - 1) * MSS = s * MSS - MSS
      BY <2>4, Spacing
    <2>6. ack \in Int
      <3>1. PICK m \in 0 .. Segments : ack = m * MSS
        BY DEF Sound
      <3>2. QED
        BY <3>1, <2>3, Spacing
    <2>7. QED
      BY <2>1, <2>2, <2>3, <2>4, <2>5, <2>6
  <1>2. ack2 = (s + k) * MSS /\ ack2 = s * MSS + k * MSS
    BY <1>1, Spacing
  <1>3. ASSUME NEW j \in 1 .. k
        PROVE  j \in 1 .. n /\ list[j] = (s + j) * MSS - MSS + 1
               /\ list[j] = s * MSS + j * MSS - MSS + 1
    <2>1. list[j] = ack + MSS + (j - 1) * MSS + 1
      BY DEF Pops
    <2>2. j \in Int
      BY <1>1
    <2>3. (j - 1) * MSS = j * MSS - MSS /\ (s + j) * MSS = s * MSS + j * MSS
          /\ j * MSS \in Int
      BY <1>1, <2>2, Spacing
    <2>4. j \in 1 .. n
      BY <1>1
    <2>5. QED
      BY <1>1, <2>1, <2>2, <2>3, <2>4
  <1>4. s + k \in 0 .. Segments
    <2>1. CASE k = 0
      BY <1>1, <2>1
    <2>2. CASE k # 0
      <3>1. k \in 1 .. k
        BY <1>1, <2>2
      <3>2. k \in 1 .. n /\ list[k] = (s + k) * MSS - MSS + 1
        BY <1>3, <3>1
      <3>3. PICK t \in 1 .. Segments : list[k] = t * MSS - MSS + 1
        BY <1>1, <3>2, EntryOf
      <3>4. t \in Int /\ s + k \in Int
        BY <1>1
      <3>5. t * MSS \in Int /\ (s + k) * MSS \in Int
        BY <3>4, Spacing
      <3>6. t * MSS = (s + k) * MSS
        BY <1>1, <3>2, <3>3, <3>5
      <3>7. t = s + k
        BY <1>1, <3>4, <3>5, <3>6, Spacing
      <3>8. QED
        BY <3>7, <1>1
    <2>3. QED
      BY <2>1, <2>2
  <1>5. /\ list2 \in Seq(SeqNos)
        /\ Len(list2) = n - k
        /\ \A i \in 1 .. n - k : list2[i] = list[k + i]
    <2>1. \A i \in k + 1 .. n : list[i] \in SeqNos
      BY <1>1, ElementOfSeq
    <2>2. /\ list2 \in Seq(SeqNos)
          /\ Len(list2) = IF k + 1 <= n THEN n - (k + 1) + 1 ELSE 0
          /\ \A i \in 1 .. n - (k + 1) + 1 : list2[i] = list[(k + 1) + i - 1]
      BY <1>1, <2>1, SubSeqProperties
    <2>3. Len(list2) = n - k
      BY <1>1, <2>2
    <2>4. ASSUME NEW i \in 1 .. n - k PROVE list2[i] = list[k + i]
      <3>1. i \in 1 .. n - (k + 1) + 1 /\ (k + 1) + i - 1 = k + i
        BY <1>1
      <3>2. list2[i] = list[(k + 1) + i - 1]
        BY <2>2, <3>1
      <3>3. QED
        BY <3>1, <3>2
    <2>5. QED
      BY <2>2, <2>3, <2>4
  <1>6. \A i, j \in 1 .. Len(list2) : i < j => list2[i] < list2[j]
    BY <1>1, <1>5 DEF Sound
  <1>7. ASSUME NEW i \in k + 1 .. n
        PROVE  i \in 1 .. n /\ list[i] > ack2 + 1
    <2>1. i \in 1 .. n /\ k + 1 \in 1 .. n /\ k < n
      BY <1>1
    <2>2. list[k + 1] # ack + MSS + k * MSS + 1
      BY <2>1 DEF Pops
    <2>3. PICK t \in 1 .. Segments : list[k + 1] = t * MSS - MSS + 1
      BY <1>1, <2>1, EntryOf
    <2>4. t \in Int /\ t * MSS \in Int
      BY <1>1, Spacing
    <2>5. t * MSS > (s + k) * MSS
      <3>1. CASE k = 0
        <4>1. list[k + 1] > ack + 1
          BY <2>1 DEF Sound
        <4>2. k * MSS = 0
          BY <3>1, <1>1
        <4>3. QED
          BY <4>1, <4>2, <1>1, <1>2, <2>3, <2>4
      <3>2. CASE k # 0
        <4>1. k \in 1 .. k /\ k \in 1 .. n /\ k < k + 1
          BY <1>1, <3>2
        <4>2. list[k] = s * MSS + k * MSS - MSS + 1
          BY <1>3, <4>1
        <4>3. list[k] < list[k + 1]
          BY <4>1, <2>1 DEF Sound
        <4>4. QED
          BY <4>2, <4>3, <1>1, <1>2, <2>3, <2>4
      <3>3. QED
        BY <3>1, <3>2
    <2>6. t * MSS # (s + k) * MSS + MSS
      BY <1>1, <1>2, <2>2, <2>3, <2>4
    <2>7. s + k < t /\ s + k + 1 # t
      <3>1. s + k \in Int
        BY <1>1
      <3>2. ~ (t <= s + k)
        BY <2>4, <2>5, <3>1, <1>1, Spacing
      <3>3. (s + k + 1) * MSS = (s + k) * MSS + MSS
        BY <3>1, Spacing
      <3>4. QED
        BY <2>4, <2>6, <3>1, <3>2, <3>3
    <2>8. (s + k + 1) * MSS + MSS <= t * MSS
      <3>1. s + k + 1 \in Int /\ s + k + 1 < t
        BY <1>1, <2>4, <2>7
      <3>2. QED
        BY <3>1, <2>4, Spacing
    <2>9. list[k + 1] > ack2 + 1
      <3>1. (s + k + 1) * MSS = s * MSS + k * MSS + MSS
        <4>1. s + k \in Int
          BY <1>1
        <4>2. QED
          BY <1>1, <4>1, Spacing
      <3>2. QED
        BY <1>1, <1>2, <2>3, <2>4, <2>8, <3>1
    <2>10. CASE i = k + 1
      BY <2>1, <2>9, <2>10
    <2>11. CASE i # k + 1
      <3>1. k + 1 < i
        BY <1>1, <2>11
      <3>2. list[k + 1] < list[i]
        BY <2>1, <3>1 DEF Sound
      <3>3. list[i] \in Int
        BY <2>1, <1>1, EntryOf
      <3>4. QED
        BY <2>1, <2>3, <2>4, <2>9, <3>2, <3>3, <1>1
    <2>12. QED
      BY <2>10, <2>11
  <1>8. Sound(ack2, list2)
    <2>1. \A i \in 1 .. Len(list2) : list2[i] > ack2 + 1
      <3> SUFFICES ASSUME NEW i \in 1 .. Len(list2) PROVE list2[i] > ack2 + 1
        OBVIOUS
      <3>1. i \in 1 .. n - k
        BY <1>5
      <3>2. k + i \in k + 1 .. n
        BY <1>1, <3>1
      <3>3. list2[i] = list[k + i]
        BY <1>5, <3>1
      <3>4. QED
        BY <1>7, <3>2, <3>3
    <2>2. QED
      BY <1>2, <1>4, <1>5, <1>6, <2>1 DEF Sound
  <1>9. HeldBy(ack2, list2) = HeldBy(ack, list) \cup {s}
    <2>1. ASSUME NEW t \in HeldBy(ack, list) \cup {s} PROVE t \in HeldBy(ack2, list2)
      <3>1. t \in 1 .. Segments /\ t \in Int /\ t * MSS \in Int
            /\ (t - 1) * MSS = t * MSS - MSS
        BY <1>1, Spacing DEF HeldBy
      <3>2. 0 <= k * MSS
        <4>1. 0 * MSS <= k * MSS
          BY <1>1, Spacing
        <4>2. QED
          BY <4>1, <1>1
      <3>3. CASE t * MSS <= ack \/ t = s
        BY <1>1, <1>2, <3>1, <3>2, <3>3 DEF HeldBy
      <3>4. ASSUME NEW i \in 1 .. n, list[i] = (t - 1) * MSS + 1
            PROVE  t \in HeldBy(ack2, list2)
        <4>1. CASE i <= k
          <5>1. i \in 1 .. k /\ i \in Int
            BY <1>1, <4>1
          <5>2. list[i] = s * MSS + i * MSS - MSS + 1
            BY <1>3, <5>1
          <5>3. i * MSS <= k * MSS /\ i * MSS \in Int
            BY <5>1, <1>1, <4>1, Spacing
          <5>4. t * MSS <= ack2
            BY <1>1, <1>2, <3>1, <3>4, <5>2, <5>3
          <5>5. QED
            BY <3>1, <5>4 DEF HeldBy
        <4>2. CASE i > k
          <5>1. i - k \in 1 .. n - k /\ k + (i - k) = i
            BY <1>1, <4>2
          <5>2. list2[i - k] = (t - 1) * MSS + 1 /\ i - k \in 1 .. Len(list2)
            BY <1>5, <3>4, <5>1
          <5>3. QED
            BY <3>1, <5>2 DEF HeldBy
        <4>3. QED
          BY <4>1, <4>2, <1>1
      <3>5. QED
        BY <3>3, <3>4 DEF HeldBy
    <2>2. ASSUME NEW t \in HeldBy(ack2, list2) PROVE t \in HeldBy(ack, list) \cup {s}
      <3>1. t \in 1 .. Segments /\ t \in Int /\ t * MSS \in Int
            /\ (t - 1) * MSS = t * MSS - MSS
        BY <1>1, Spacing DEF HeldBy
      <3>2. CASE t * MSS <= ack2
        <4>1. t <= s + k
          <5>1. s + k \in Int
            BY <1>1
          <5>2. s + k < t => (s + k) * MSS + MSS <= t * MSS
            BY <5>1, <3>1, Spacing
          <5>3. QED
            BY <5>1, <5>2, <3>1, <3>2, <1>1, <1>2
        <4>2. CASE t < s
          <5>1. t * MSS + MSS <= s * MSS
            BY <1>1, <3>1, <4>2, Spacing
          <5>2. t * MSS <= ack
            BY <1>1, <3>1, <5>1
          <5>3. QED
            BY <3>1, <5>2 DEF HeldBy
        <4>3. CASE t > s
          <5>1. t - s \in 1 .. k /\ t - s \in Int
            BY <1>1, <3>1, <4>1, <4>3
          <5>2. list[t - s] = (s + (t - s)) * MSS - MSS + 1 /\ t - s \in 1 .. n
            BY <1>3, <5>1
          <5>3. s + (t - s) = t
            BY <1>1, <3>1
          <5>4. list[t - s] = (t - 1) * MSS + 1
            BY <5>2, <5>3, <3>1, <1>1
          <5>5. QED
            BY <3>1, <5>2, <5>4 DEF HeldBy
        <4>4. QED
          BY <4>2, <4>3, <3>1, <1>1
      <3>3. ASSUME NEW i \in 1 .. Len(list2), list2[i] = (t - 1) * MSS + 1
            PROVE  t \in HeldBy(ack, list) \cup {s}
        <4>1. k + i \in 1 .. n /\ list[k + i] = (t - 1) * MSS + 1
          BY <1>1, <1>5, <3>3
        <4>2. QED
          BY <3>1, <4>1 DEF HeldBy
      <3>4. QED
        BY <3>2, <3>3 DEF HeldBy
    <2>3. QED
      BY <2>1, <2>2
  <1>10. QED
    BY <1>8, <1>9

\* A list with one more entry.
LEMMA InsertedEntries ==
    ASSUME NEW S, NEW list \in Seq(S), NEW e \in S, NEW at \in 1 .. Len(list) + 1
    PROVE  /\ InsertAt(list, at, e) \in Seq(S)
           /\ Len(InsertAt(list, at, e)) = Len(list) + 1
           /\ \A i \in 1 .. at - 1 : InsertAt(list, at, e)[i] = list[i]
           /\ InsertAt(list, at, e)[at] = e
           /\ \A i \in at + 1 .. Len(list) + 1 :
                 InsertAt(list, at, e)[i] = list[i - 1]
  <1> DEFINE n == Len(list)
             k == at - 1
             a == SubSeq(list, 1, k)
             b == SubSeq(list, k + 1, n)
             m == a \o <<e>>
             list2 == m \o b
  <1>0. InsertAt(list, at, e) = list2
    <2>1. k + 1 = at
      OBVIOUS
    <2>2. QED
      BY <2>1, Zenon DEF InsertAt
  <1>1. n \in Nat /\ k \in Nat /\ k <= n /\ k + 1 = at
    BY LenProperties
  <1>2. a \in Seq(S) /\ Len(a) = k /\ \A i \in 1 .. k : a[i] = list[i]
    <2>1. \A i \in 1 .. k : list[i] \in S
      BY <1>1, ElementOfSeq
    <2>2. /\ a \in Seq(S)
          /\ Len(a) = IF 1 <= k THEN k - 1 + 1 ELSE 0
          /\ \A i \in 1 .. k - 1 + 1 : a[i] = list[1 + i - 1]
      BY <1>1, <2>1, SubSeqProperties
    <2>3. ASSUME NEW i \in 1 .. k PROVE a[i] = list[i]
      <3>1. i \in 1 .. k - 1 + 1 /\ 1 + i - 1 = i
        BY <1>1
      <3>2. QED
        BY <2>2, <3>1
    <2>4. QED
      BY <1>1, <2>2, <2>3
  <1>3. b \in Seq(S) /\ Len(b) = n - k /\ \A i \in 1 .. n - k : b[i] = list[k + i]
    <2>1. \A i \in k + 1 .. n : list[i] \in S
      BY <1>1, ElementOfSeq
    <2>2. /\ b \in Seq(S)
          /\ Len(b) = IF k + 1 <= n THEN n - (k + 1) + 1 ELSE 0
          /\ \A i \in 1 .. n - (k + 1) + 1 : b[i] = list[(k + 1) + i - 1]
      BY <1>1, <2>1, SubSeqProperties
    <2>3. ASSUME NEW i \in 1 .. n - k PROVE b[i] = list[k + i]
      <3>1. i \in 1 .. n - (k + 1) + 1 /\ (k + 1) + i - 1 = k + i
        BY <1>1
      <3>2. b[i] = list[(k + 1) + i - 1]
        BY <2>2, <3>1
      <3>3. QED
        BY <3>1, <3>2
    <2>4. Len(b) = n - k
      BY <1>1, <2>2
    <2>5. QED
      BY <2>2, <2>3, <2>4
  <1>4. /\ <<e>> \in Seq(S) /\ Len(<<e>>) = 1 /\ <<e>>[1] = e
    OBVIOUS
  <1>5. /\ m \in Seq(S) /\ Len(m) = k + 1
        /\ \A i \in 1 .. k + 1 : m[i] = IF i <= k THEN a[i] ELSE <<e>>[i - k]
    BY <1>2, <1>4, ConcatProperties
  <1>6. \A i \in 1 .. k : m[i] = list[i]
    BY <1>1, <1>2, <1>5
  <1>7. m[k + 1] = e
    <2>1. k + 1 \in 1 .. k + 1 /\ ~(k + 1 <= k) /\ (k + 1) - k = 1
      BY <1>1
    <2>2. m[k + 1] = <<e>>[(k + 1) - k]
      BY <1>5, <2>1
    <2>3. QED
      BY <1>4, <2>1, <2>2
  <1> HIDE DEF n, a, b, m
  <1>8. /\ list2 \in Seq(S) /\ Len(list2) = (k + 1) + (n - k)
        /\ \A i \in 1 .. (k + 1) + (n - k) :
              list2[i] = IF i <= k + 1 THEN m[i] ELSE b[i - (k + 1)]
    <2>1. /\ list2 \in Seq(S) /\ Len(list2) = Len(m) + Len(b)
          /\ \A i \in 1 .. Len(m) + Len(b) :
                list2[i] = IF i <= Len(m) THEN m[i] ELSE b[i - Len(m)]
      BY <1>3, <1>5, ConcatProperties, Zenon
    <2>2. QED
      BY <1>3, <1>5, <2>1, Zenon
  <1>9. Len(list2) = n + 1
    BY <1>1, <1>8
  <1>10. ASSUME NEW i \in 1 .. k PROVE list2[i] = list[i]
    BY <1>1, <1>6, <1>8
  <1>11. list2[k + 1] = e
    BY <1>1, <1>7, <1>8
  <1>12. ASSUME NEW i \in k + 2 .. n + 1 PROVE list2[i] = list[i - 1]
    <2>1. i \in 1 .. (k + 1) + (n - k) /\ ~(i <= k + 1)
          /\ i - (k + 1) \in 1 .. n - k /\ k + (i - (k + 1)) = i - 1
      BY <1>1
    <2>2. list2[i] = b[i - (k + 1)]
      BY <1>8, <2>1
    <2>3. b[i - (k + 1)] = list[k + (i - (k + 1))]
      BY <1>3, <2>1
    <2>4. QED
      BY <2>1, <2>2, <2>3
  <1> HIDE DEF list2
  <1> QED
    BY <1>0, <1>8, <1>9, <1>10, <1>11, <1>12 DEF n

\* A packet ahead of the gap: it takes its place among the others, unless it is
\* there already.
LEMMA InsertStep ==
    ASSUME SinkAssumption, NEW ack, NEW list, Sound(ack, list),
           NEW s \in 1 .. Segments, NEW seqno, Starts(s, seqno),
           seqno > ack + 1, NEW at \in 1 .. Len(list) + 1, Place(list, seqno, at)
    PROVE  /\ Sound(ack, Inserted(list, seqno, at))
           /\ HeldBy(ack, Inserted(list, seqno, at)) = HeldBy(ack, list) \cup {s}
  <1> DEFINE n == Len(list)
             list2 == Inserted(list, seqno, at)
  <1>1. /\ MSS \in Nat /\ MSS > 0 /\ Segments \in Nat /\ s \in Int /\ at \in Int
        /\ list \in Seq(SeqNos) /\ n \in Nat /\ s * MSS \in Int
        /\ seqno \in SeqNos /\ seqno \in Int /\ seqno = s * MSS - MSS + 1
    <2>1. MSS \in Nat /\ MSS > 0 /\ Segments \in Nat
      BY DEF SinkAssumption
    <2>2. list \in Seq(SeqNos) /\ n \in Nat
      BY LenProperties DEF Sound
    <2>3. s \in Int /\ at \in Int
      BY <2>1, <2>2
    <2>4. s * MSS \in Int /\ (s - 1) * MSS = s * MSS - MSS
      BY <2>3, Spacing
    <2>5. seqno \in SeqNos /\ seqno = (s - 1) * MSS + 1
      BY DEF SeqNos, Starts
    <2>6. QED
      BY <2>1, <2>2, <2>3, <2>4, <2>5
  <1>2. CASE at <= n /\ list[at] = seqno
    <2>1. Inserted(list, seqno, at) = list
      BY <1>2 DEF Inserted
    <2>2. at \in 1 .. Len(list)
      BY <1>1, <1>2
    <2>3. s \in HeldBy(ack, list)
      BY <1>2, <2>2 DEF HeldBy, Starts
    <2>4. QED
      BY <2>1, <2>3
  <1>3. CASE ~(at <= n /\ list[at] = seqno)
    <2>1. list2 = InsertAt(list, at, seqno)
      BY <1>3 DEF Inserted
    <2> HIDE DEF list2
    <2>2. /\ list2 \in Seq(SeqNos)
          /\ Len(list2) = n + 1
          /\ \A i \in 1 .. at - 1 : list2[i] = list[i]
          /\ list2[at] = seqno
          /\ \A i \in at + 1 .. n + 1 : list2[i] = list[i - 1]
      <3>1. list \in Seq(SeqNos) /\ seqno \in SeqNos /\ at \in 1 .. Len(list) + 1
        BY <1>1
      <3>2. /\ InsertAt(list, at, seqno) \in Seq(SeqNos)
            /\ Len(InsertAt(list, at, seqno)) = Len(list) + 1
            /\ \A i \in 1 .. at - 1 : InsertAt(list, at, seqno)[i] = list[i]
            /\ InsertAt(list, at, seqno)[at] = seqno
            /\ \A i \in at + 1 .. Len(list) + 1 :
                  InsertAt(list, at, seqno)[i] = list[i - 1]
        <4>1. ASSUME NEW e \in SeqNos
              PROVE  /\ InsertAt(list, at, e) \in Seq(SeqNos)
                     /\ Len(InsertAt(list, at, e)) = Len(list) + 1
                     /\ \A i \in 1 .. at - 1 : InsertAt(list, at, e)[i] = list[i]
                     /\ InsertAt(list, at, e)[at] = e
                     /\ \A i \in at + 1 .. Len(list) + 1 :
                           InsertAt(list, at, e)[i] = list[i - 1]
          BY <3>1, InsertedEntries
        <4>2. QED
          BY <3>1, <4>1, Zenon
      <3>3. QED
        BY <2>1, <3>2
    <2>3. \A i \in 1 .. n : list[i] \in Int
      BY <1>1, EntryOf
    <2>4. \A i \in at .. n : list[i] > seqno
      <3> SUFFICES ASSUME NEW i \in at .. n PROVE list[i] > seqno
        OBVIOUS
      <3>1. i \in 1 .. n /\ at \in 1 .. n /\ at <= n
        BY <1>1
      <3>2. list[at] >= seqno /\ list[at] # seqno
        BY <1>3, <3>1 DEF Place
      <3>3. list[at] > seqno
        BY <1>1, <2>3, <3>1, <3>2
      <3>4. CASE i = at
        BY <3>3, <3>4
      <3>5. CASE i # at
        <4>1. list[at] < list[i]
          BY <1>1, <3>1, <3>5 DEF Sound
        <4>2. QED
          BY <1>1, <2>3, <3>1, <3>3, <4>1
      <3>6. QED
        BY <3>4, <3>5
    <2>5. \A i \in 1 .. at - 1 : list[i] < seqno
      BY DEF Place
    <2>6. ASSUME NEW i \in 1 .. n + 1, NEW j \in 1 .. n + 1, i < j
          PROVE  list2[i] < list2[j]
      <3>1. CASE j <= at - 1
        <4>1. list2[i] = list[i] /\ list2[j] = list[j]
          BY <1>1, <2>2, <2>6, <3>1
        <4>2. list[i] < list[j]
          BY <1>1, <2>6, <3>1 DEF Sound
        <4>3. QED
          BY <4>1, <4>2
      <3>2. CASE j = at
        BY <1>1, <2>2, <2>5, <2>6, <3>2
      <3>3. CASE j > at
        <4>1. j \in at + 1 .. n + 1 /\ j - 1 \in 1 .. n /\ j - 1 \in at .. n
          BY <1>1, <3>3
        <4>2. list2[j] = list[j - 1] /\ list[j - 1] > seqno /\ list[j - 1] \in Int
          BY <2>2, <2>3, <2>4, <4>1
        <4>3. CASE i <= at - 1
          <5>1. list2[i] = list[i] /\ list[i] < seqno /\ list[i] \in Int
            BY <1>1, <2>2, <2>3, <2>5, <4>3
          <5>2. QED
            BY <1>1, <4>2, <5>1
        <4>4. CASE i = at
          BY <1>1, <2>2, <4>2, <4>4
        <4>5. CASE i > at
          <5>1. i \in at + 1 .. n + 1 /\ i - 1 \in 1 .. n /\ i - 1 < j - 1
            BY <1>1, <2>6, <4>5
          <5>2. list2[i] = list[i - 1]
            BY <2>2, <5>1
          <5>3. list[i - 1] < list[j - 1]
            BY <4>1, <5>1 DEF Sound
          <5>4. QED
            BY <4>2, <5>2, <5>3
        <4>6. QED
          BY <4>3, <4>4, <4>5, <1>1
      <3>4. QED
        BY <3>1, <3>2, <3>3, <1>1
    <2>7. ASSUME NEW i \in 1 .. n + 1 PROVE list2[i] > ack + 1
      <3>1. CASE i <= at - 1
        BY <1>1, <2>2, <3>1 DEF Sound
      <3>2. CASE i = at
        BY <2>2, <3>2
      <3>3. CASE i > at
        <4>1. i \in at + 1 .. n + 1 /\ i - 1 \in 1 .. n
          BY <1>1, <3>3
        <4>2. QED
          BY <2>2, <4>1 DEF Sound
      <3>4. QED
        BY <3>1, <3>2, <3>3, <1>1
    <2>8. Sound(ack, list2)
      BY <2>2, <2>6, <2>7 DEF Sound
    <2>9. ASSUME NEW x
          PROVE  (\E i \in 1 .. Len(list2) : list2[i] = x)
                 <=> (x = seqno \/ \E i \in 1 .. n : list[i] = x)
      <3>1. ASSUME NEW i \in 1 .. n, list[i] = x
            PROVE  \E j \in 1 .. n + 1 : list2[j] = x
        <4>1. CASE i <= at - 1
          BY <1>1, <2>2, <3>1, <4>1
        <4>2. CASE i > at - 1
          <5>1. i + 1 \in at + 1 .. n + 1 /\ i + 1 \in 1 .. n + 1 /\ (i + 1) - 1 = i
            BY <1>1, <4>2
          <5>2. list2[i + 1] = list[(i + 1) - 1]
            BY <2>2, <5>1
          <5>3. QED
            BY <3>1, <5>1, <5>2
        <4>3. QED
          BY <4>1, <4>2, <1>1
      <3>2. at \in 1 .. n + 1
        BY <1>1
      <3>3. ASSUME NEW i \in 1 .. n + 1, list2[i] = x
            PROVE  x = seqno \/ \E j \in 1 .. n : list[j] = x
        <4>1. CASE i <= at - 1
          BY <1>1, <2>2, <3>3, <4>1
        <4>2. CASE i = at
          BY <2>2, <3>3, <4>2
        <4>3. CASE i > at
          <5>1. i \in at + 1 .. n + 1 /\ i - 1 \in 1 .. n
            BY <1>1, <4>3
          <5>2. QED
            BY <2>2, <3>3, <5>1
        <4>4. QED
          BY <4>1, <4>2, <4>3, <1>1
      <3>4. QED
        BY <2>2, <3>1, <3>2, <3>3
    <2>10. ASSUME NEW t \in 1 .. Segments, (t - 1) * MSS + 1 = seqno PROVE t = s
      <3>1. t \in Int
        BY <1>1
      <3>2. t * MSS \in Int /\ (t - 1) * MSS = t * MSS - MSS
        BY <3>1, Spacing
      <3>3. t * MSS = s * MSS
        BY <1>1, <2>10, <3>2
      <3>4. QED
        BY <1>1, <3>1, <3>3, Spacing
    <2>11. HeldBy(ack, list2) = HeldBy(ack, list) \cup {s}
      <3>1. ASSUME NEW t
            PROVE  t \in HeldBy(ack, list2) <=> t \in HeldBy(ack, list) \cup {s}
        <4>1. (\E i \in 1 .. Len(list2) : list2[i] = (t - 1) * MSS + 1)
              <=> ((t - 1) * MSS + 1 = seqno
                   \/ \E i \in 1 .. n : list[i] = (t - 1) * MSS + 1)
          BY <2>9
        <4>2. QED
          BY <4>1, <2>10 DEF HeldBy, Starts
      <3>2. QED
        BY <3>1
    <2>12. QED
      BY <2>8, <2>11 DEF list2
  <1>4. QED
    BY <1>2, <1>3

----------------------------------------------------------------------------
(* The theorem *)

\* A sink begins with an empty list and an ack of 0, which is sound and is how
\* PrefixReceiver begins.
LEMMA InitSound == SinkAssumption /\ Init => SinkInv /\ Receiver!Init
  <1> SUFFICES ASSUME SinkAssumption, Init PROVE SinkInv /\ Receiver!Init
    OBVIOUS
  <1>1. cumulative_ack = 0 * MSS /\ 0 \in 0 .. Segments
    BY DEF Init, SinkAssumption
  <1>2. received \in Seq(SeqNos) /\ Len(received) = 0
    BY EmptySeq DEF Init
  <1>3. SinkInv
    BY <1>1, <1>2 DEF SinkInv, Sound
  <1>4. Held = {}
    <2> SUFFICES ASSUME NEW t \in Held PROVE FALSE
      OBVIOUS
    <2>1. t \in 1 .. Segments /\ t * MSS <= 0
      BY <1>2 DEF Held, HeldBy, Init
    <2>2. t \in Int /\ 0 < t
      BY <2>1, SinkAssumption DEF SinkAssumption
    <2>3. 0 * MSS + MSS <= t * MSS /\ t * MSS \in Int
      BY <2>2, Spacing
    <2>4. QED
      BY <2>1, <2>3 DEF SinkAssumption
  <1>5. QED
    BY <1>3, <1>4 DEF Receiver!Init, Init

\* Every packet is a step of the cumulative receiver, which receives the
\* packet's segment; the ack never falls back.
LEMMA PacketStep ==
    ASSUME SinkAssumption, SinkInv, NEW seqno \in SeqNos,
           ProcessDataPacket(seqno)
    PROVE  /\ SinkInv' /\ Receiver!Next
           /\ \E s \in 1 .. Segments : Starts(s, seqno) /\ Held' = Held \cup {s}
           /\ cumulative_ack <= cumulative_ack'
  <1>1. PICK s \in 1 .. Segments : seqno = (s - 1) * MSS + 1
    BY DEF SeqNos
  <1>2. /\ MSS \in Int /\ MSS > 0 /\ s \in Int /\ seqno \in Int
        /\ s * MSS \in Int /\ seqno = s * MSS - MSS + 1
    <2>1. s \in Int /\ MSS \in Int /\ MSS > 0
      BY DEF SinkAssumption
    <2>2. QED
      BY <1>1, <2>1, Spacing
  <1>3. cumulative_ack \in Int
    <2>1. PICK m \in 0 .. Segments : cumulative_ack = m * MSS
      BY DEF SinkInv, Sound
    <2>2. QED
      BY <2>1, Spacing DEF SinkAssumption
  <1>4. Starts(s, seqno)
    BY <1>1 DEF Starts
  <1>5. /\ Sound(cumulative_ack', received')
        /\ HeldBy(cumulative_ack', received')
             = HeldBy(cumulative_ack, received) \cup {s}
    <2>1. CASE seqno = cumulative_ack + 1
      <3>1. PICK k \in 0 .. Len(received) :
               /\ Pops(seqno + MSS - 1, received, k)
               /\ cumulative_ack' = seqno + MSS - 1 + k * MSS
               /\ received' = SubSeq(received, k + 1, Len(received))
        BY <1>2, <1>3, <2>1 DEF ProcessDataPacket
      <3>2. seqno + MSS - 1 = cumulative_ack + MSS
        BY <1>2, <1>3, <2>1
      <3>3. Pops(cumulative_ack + MSS, received, k)
            /\ cumulative_ack' = cumulative_ack + MSS + k * MSS
        BY <3>1, <3>2
      <3>5. (s - 1) * MSS + 1 = cumulative_ack + 1
        BY <1>1, <2>1
      <3>6. Sound(cumulative_ack, received)
        BY DEF SinkInv
      <3>7. /\ Sound(cumulative_ack + MSS + k * MSS,
                     SubSeq(received, k + 1, Len(received)))
            /\ HeldBy(cumulative_ack + MSS + k * MSS,
                      SubSeq(received, k + 1, Len(received)))
                 = HeldBy(cumulative_ack, received) \cup {s}
        BY <3>3, <3>5, <3>6, PopStep
      <3>8. QED
        BY <3>1, <3>3, <3>7
    <2>2. CASE seqno <= cumulative_ack
      <3>1. cumulative_ack' = cumulative_ack /\ received' = received
        BY <1>2, <1>3, <2>2 DEF ProcessDataPacket, vars
      <3>2. s * MSS <= cumulative_ack
        <4>1. PICK m \in 0 .. Segments : cumulative_ack = m * MSS
          BY DEF SinkInv, Sound
        <4>2. m \in Int
          BY DEF SinkAssumption
        <4>3. m < s => m * MSS + MSS <= s * MSS
          BY <1>2, <4>2, Spacing
        <4>4. m >= s => s * MSS <= m * MSS
          BY <1>2, <4>2, Spacing
        <4>5. QED
          BY <1>2, <1>3, <2>2, <4>1, <4>2, <4>3, <4>4
      <3>3. s \in HeldBy(cumulative_ack, received)
        BY <3>2 DEF HeldBy
      <3>4. QED
        BY <3>1, <3>3 DEF SinkInv
    <2>3. CASE seqno > cumulative_ack + 1
      <3>1. PICK at \in 1 .. Len(received) + 1 :
               /\ Place(received, seqno, at)
               /\ received' = Inserted(received, seqno, at)
               /\ cumulative_ack' = cumulative_ack
        BY <1>2, <1>3, <2>3 DEF ProcessDataPacket
      <3>2. Sound(cumulative_ack, received)
        BY DEF SinkInv
      <3>3. /\ Sound(cumulative_ack, Inserted(received, seqno, at))
            /\ HeldBy(cumulative_ack, Inserted(received, seqno, at))
                 = HeldBy(cumulative_ack, received) \cup {s}
        BY <1>4, <2>3, <3>1, <3>2, InsertStep
      <3>4. QED
        BY <3>1, <3>3
    <2>4. \/ seqno = cumulative_ack + 1
          \/ seqno <= cumulative_ack
          \/ seqno > cumulative_ack + 1
      BY <1>2, <1>3
    <2>5. QED
      BY <2>1, <2>2, <2>3, <2>4, Zenon
  <1>6. Held' = Held \cup {s}
    BY <1>5 DEF Held
  <1>7. cumulative_ack' = Receiver!PrefixEnd(Held')
    BY <1>5, AckIsPrefix DEF Held
  <1>8. Receiver!Next
    BY <1>6, <1>7 DEF Receiver!Next, Receiver!Receive
  <1>9. cumulative_ack <= cumulative_ack'
    <2>1. CASE seqno = cumulative_ack + 1
      <3>1. PICK k \in 0 .. Len(received) : cumulative_ack' = seqno + MSS - 1 + k * MSS
        BY <1>2, <1>3, <2>1 DEF ProcessDataPacket
      <3>2. k * MSS \in Nat
        BY <1>2, Spacing DEF SinkAssumption
      <3>3. QED
        BY <1>2, <1>3, <2>1, <3>1, <3>2
    <2>2. CASE seqno # cumulative_ack + 1
      BY <1>2, <1>3, <2>2 DEF ProcessDataPacket, vars
    <2>3. QED
      BY <2>1, <2>2
  <1>10. QED
    BY <1>4, <1>5, <1>6, <1>8, <1>9 DEF SinkInv

\* The cumulative receiver is what DataSink::processDataPacket implements
\* (datasink.cpp:17-59), for every segment size and length of the stream.
THEOREM SinkIsCumulative == SinkAssumption /\ Spec => ImplementsPrefixReceiver
  <1>1. SinkAssumption /\ Init => SinkInv /\ Receiver!Init
    BY InitSound
  <1>2. SinkAssumption /\ SinkInv /\ [Next]_vars
        => SinkInv' /\ [Receiver!Next]_(Receiver!vars)
    <2> SUFFICES ASSUME SinkAssumption, SinkInv, [Next]_vars
                 PROVE  SinkInv' /\ [Receiver!Next]_(Receiver!vars)
      OBVIOUS
    <2>1. CASE Next
      BY <2>1, PacketStep DEF Next
    <2>2. CASE UNCHANGED vars
      BY <2>2 DEF vars, SinkInv, Receiver!vars, Held
    <2>3. QED
      BY <2>1, <2>2
  <1>3. SinkAssumption => []SinkAssumption
    <2>1. SinkAssumption /\ [TRUE]_vars => SinkAssumption'
      BY DEF SinkAssumption
    <2>2. QED
      BY <2>1, PTL
  <1>4. QED
    BY <1>1, <1>2, <1>3, PTL DEF Spec, ImplementsPrefixReceiver, Receiver!Spec
=============================================================================
