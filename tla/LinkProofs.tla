----------------------------- MODULE LinkProofs -----------------------------
(***************************************************************************)
(* Proofs about a route of queues and pipes.  The inductive invariant Held *)
(* says, with departure times d for the packets of every queue, that a     *)
(* queue's byte count is right, that its packets leave one drain time      *)
(* apart, that what a pipe holds is due in order and not overdue, and that *)
(* every server which holds something has the one event it needs, unless   *)
(* that event falls after the end of the simulation.                       *)
(*                                                                         *)
(* Every event is one of the steps Steps(d, d2): a packet is sent, the     *)
(* logger looks, a queue serves, or a pipe hands on.  The theorems follow  *)
(* from what each step does: ServersAreScheduled, RouteIsFifo (the route   *)
(* implements LossyFifo), TheBooksAddUp and SeenOrUnchanged (the logger of *)
(* one queue), and, with the times at which the packets in the route will  *)
(* leave it, TransitIsBounded and LonePacketsAreUnmarked.                  *)
(***************************************************************************)
EXTENDS Link, CommonLemmas, FiniteSetTheorems

----------------------------------------------------------------------------
(* Sequences put together. *)

\* g is what FlattenSeq has put together of c, block by block.
Flattens(c, g, n) ==
    /\ g[1] = c[1]
    /\ \A i \in 2 .. n : g[i] = g[i - 1] \o c[i]

Built(S, n, c, g) ==
    /\ n \in Nat \ {0} /\ c \in [1 .. n -> Seq(S)] /\ g \in [1 .. n -> Seq(S)]
    /\ Flattens(c, g, n)

\* c and d have the same blocks from lo to hi.
Same(c, d, lo, hi) == \A i \in lo .. hi : d[i] = c[i]

\* g and h go on alike from k to n.
Alike(S, g, h, k, n) == \E b \in Seq(S) : g[n] = g[k] \o b /\ h[n] = h[k] \o b

\* What FlattenSeq computes, as a prefix-by-prefix concatenation.
LEMMA FlatIs ==
    ASSUME NEW S, NEW n \in Nat \ {0}, NEW c \in [1 .. n -> Seq(S)]
    PROVE  \E g : Built(S, n, c, g) /\ FlattenSeq(c) = g[n]
<1> DEFINE F(h) == [i \in 1 .. n |-> IF i = 1 THEN c[i] ELSE h[i - 1] \o c[i]]
           w == CHOOSE h : h = F(h)
<1>1. \A x, y \in Seq(S) : x \o y \in Seq(S)
  OBVIOUS
<1>2. \E g \in [1 .. n -> Seq(S)] : Flattens(c, g, n)
  <2> DEFINE I == {k \in Nat : k < n => \E g \in [1 .. k + 1 -> Seq(S)] :
                                           Flattens(c, g, k + 1)}
  <2>1. 0 \in I
    <3>1. PICK g : g = [i \in 1 .. 1 |-> c[i]]
      OBVIOUS
    <3>2. g \in [1 .. 1 -> Seq(S)] /\ g[1] = c[1]
      BY <3>1
    <3>3. Flattens(c, g, 1)
      BY <3>2 DEF Flattens
    <3>4. 0 + 1 = 1 /\ 0 \in Nat
      OBVIOUS
    <3> QED
      BY <3>2, <3>3, <3>4
  <2>2. ASSUME NEW k \in I PROVE k + 1 \in I
    <3>1. k \in Nat /\ k + 1 \in Nat /\ (k + 1 < n => k < n)
      OBVIOUS
    <3>2. SUFFICES ASSUME k + 1 < n
                   PROVE  \E h \in [1 .. k + 1 + 1 -> Seq(S)] : Flattens(c, h, k + 1 + 1)
      BY <3>1, Zenon
    <3>3. PICK g \in [1 .. k + 1 -> Seq(S)] : Flattens(c, g, k + 1)
      BY <3>1, <3>2
    <3>4. PICK m \in Nat : m = k + 1 /\ m > 0
      BY <3>1
    <3>5. PICK h : h = [i \in 1 .. m + 1 |-> IF i = m + 1 THEN g[m] \o c[i] ELSE g[i]]
      OBVIOUS
    <3> HIDE DEF I
    <3>6. m + 1 \in 1 .. n /\ c[m + 1] \in Seq(S) /\ g[m] \in Seq(S)
      BY <3>2, <3>3, <3>4
    <3>7. g[m] \o c[m + 1] \in Seq(S)
      BY <1>1, <3>6, Zenon
    <3>8. h \in [1 .. m + 1 -> Seq(S)]
      BY <3>3, <3>4, <3>5, <3>7
    <3>9. /\ h[m + 1] = g[m] \o c[m + 1]
          /\ \A i \in 1 .. m : h[i] = g[i]
      <4>1. m + 1 \in 1 .. m + 1 /\ \A i \in 1 .. m : i \in 1 .. m + 1 /\ i # m + 1
        BY <3>4
      <4> QED
        BY <3>5, <4>1, Zenon
    <3>10. h[1] = c[1]
      <4>1. 1 \in 1 .. m
        BY <3>4
      <4> QED
        BY <3>3, <3>9, <4>1 DEF Flattens
    <3>11. ASSUME NEW i \in 2 .. m + 1 PROVE h[i] = h[i - 1] \o c[i]
      <4>1. CASE i = m + 1
        <5>1. m \in 1 .. m /\ i - 1 = m
          BY <3>4, <4>1
        <5> QED
          BY <3>9, <4>1, <5>1, Zenon
      <4>2. CASE i # m + 1
        <5>1. i \in 1 .. m /\ i - 1 \in 1 .. m /\ i \in 2 .. m
          BY <3>4, <4>2
        <5>2. g[i] = g[i - 1] \o c[i]
          BY <3>3, <3>4, <5>1, Zenon DEF Flattens
        <5> QED
          BY <3>9, <5>1, <5>2, Zenon
      <4> QED
        BY <4>1, <4>2
    <3>12. Flattens(c, h, m + 1)
      BY <3>10, <3>11, Zenon DEF Flattens
    <3> QED
      BY <3>4, <3>8, <3>12
  <2>3. I = Nat
    <3>1. I \in SUBSET Nat
      OBVIOUS
    <3> HIDE DEF I
    <3> QED
      BY <2>1, <2>2, <3>1, Induct
  <2>4. n - 1 \in Nat /\ n - 1 < n /\ n - 1 + 1 = n
    OBVIOUS
  <2>5. n - 1 \in I
    BY <2>3, <2>4, Zenon
  <2>6. \E g \in [1 .. n - 1 + 1 -> Seq(S)] : Flattens(c, g, n - 1 + 1)
    BY <2>4, <2>5, Zenon
  <2> QED
    BY <2>4, <2>6
<1>3. PICK g \in [1 .. n -> Seq(S)] : Flattens(c, g, n)
  BY <1>2
<1>4. g = F(g)
  <2>1. ASSUME NEW i \in 1 .. n
        PROVE  g[i] = IF i = 1 THEN c[i] ELSE g[i - 1] \o c[i]
    <3>1. i = 1 \/ i \in 2 .. n
      OBVIOUS
    <3> QED
      BY <1>3, <3>1, Zenon DEF Flattens
  <2> QED
    BY <2>1
<1>5. w = F(w)
  <2> HIDE DEF F
  <2> QED
    BY <1>4, Zenon
<1>6. \A i \in 1 .. n : w[i] = IF i = 1 THEN c[i] ELSE w[i - 1] \o c[i]
  <2> HIDE DEF w
  <2> QED
    BY <1>5
<1>7. FlattenSeq(c) = w[n]
  <2>1. Len(c) = n /\ n # 0
    OBVIOUS
  <2> QED
    BY <2>1 DEF FlattenSeq
<1> HIDE DEF w, F
<1>8. \A i \in 1 .. n : w[i] = g[i]
  <2> DEFINE I == {k \in Nat : k < n => w[k + 1] = g[k + 1]}
  <2>1. 0 \in I
    <3>1. 1 \in 1 .. n /\ 0 + 1 = 1 /\ 0 \in Nat
      OBVIOUS
    <3>2. w[1] = g[1]
      BY <1>3, <1>6, <3>1, Zenon DEF Flattens
    <3> QED
      BY <3>1, <3>2
  <2>2. ASSUME NEW k \in I PROVE k + 1 \in I
    <3>1. k \in Nat /\ k + 1 \in Nat
      OBVIOUS
    <3>2. SUFFICES ASSUME k + 1 < n PROVE w[k + 1 + 1] = g[k + 1 + 1]
      BY <3>1, Zenon
    <3>3. PICK j \in 2 .. n : j = k + 1 + 1 /\ j - 1 = k + 1 /\ j # 1 /\ j \in 1 .. n
      BY <3>1, <3>2
    <3>4. w[j - 1] = g[j - 1]
      BY <3>1, <3>2, <3>3
    <3> HIDE DEF I
    <3>5. g[j] = g[j - 1] \o c[j]
      BY <1>3, Zenon DEF Flattens
    <3>6. w[j] = w[j - 1] \o c[j]
      BY <1>6, <3>3, Zenon
    <3> QED
      BY <3>3, <3>4, <3>5, <3>6, Zenon
  <2>3. I = Nat
    <3>1. I \in SUBSET Nat
      OBVIOUS
    <3> HIDE DEF I
    <3> QED
      BY <2>1, <2>2, <3>1, Induct
  <2>4. ASSUME NEW i \in 1 .. n PROVE w[i] = g[i]
    <3>1. i - 1 \in Nat /\ i - 1 < n /\ i - 1 + 1 = i
      OBVIOUS
    <3>2. i - 1 \in I
      BY <2>3, <3>1, Zenon
    <3>3. w[i - 1 + 1] = g[i - 1 + 1]
      BY <3>1, <3>2, Zenon
    <3> QED
      BY <3>1, <3>3
  <2> QED
    BY <2>4
<1>9. n \in 1 .. n
  OBVIOUS
<1> QED
  BY <1>3, <1>7, <1>8, <1>9 DEF Built

\* Sequences are put together in any order.
Assoc(a, b, c) == (a \o b) \o c = a \o (b \o c)
\* Concatenation is associative.
LEMMA AnyOrder ==
    \A S : \A a, b, c \in Seq(S) : Assoc(a, b, c)
<1> SUFFICES ASSUME NEW S, NEW a \in Seq(S), NEW b \in Seq(S), NEW c \in Seq(S)
             PROVE  (a \o b) \o c = a \o (b \o c)
  BY DEF Assoc
<1> QED
  OBVIOUS

\* What is put together up to k does not depend on what comes after.
LEMMA FlatUpto ==
    ASSUME NEW S, NEW n, NEW c, NEW d, NEW g, NEW h,
           Built(S, n, c, g), Built(S, n, d, h),
           NEW k \in 1 .. n, Same(c, d, 1, k)
    PROVE  h[k] = g[k]
<1> USE DEF Built, Same
<1> DEFINE I == {j \in Nat : j < k => h[j + 1] = g[j + 1]}
<1>1. 0 \in I
  <2>1. 1 \in 1 .. k /\ 0 + 1 = 1 /\ 0 \in Nat
    OBVIOUS
  <2>2. h[1] = g[1]
    BY <2>1, Zenon DEF Flattens
  <2> QED
    BY <2>1, <2>2
<1>2. ASSUME NEW j \in I PROVE j + 1 \in I
  <2>1. j \in Nat /\ j + 1 \in Nat
    OBVIOUS
  <2>2. SUFFICES ASSUME j + 1 < k PROVE h[j + 1 + 1] = g[j + 1 + 1]
    BY <2>1, Zenon
  <2>3. PICK m \in 2 .. n : m = j + 1 + 1 /\ m - 1 = j + 1 /\ m \in 1 .. k
    BY <2>1, <2>2
  <2>4. h[m - 1] = g[m - 1]
    BY <2>1, <2>2, <2>3
  <2> HIDE DEF I
  <2>5. g[m] = g[m - 1] \o c[m] /\ h[m] = h[m - 1] \o d[m] /\ d[m] = c[m]
    BY <2>3, Zenon DEF Flattens
  <2> QED
    BY <2>3, <2>4, <2>5, Zenon
<1>3. I = Nat
  <2>1. I \in SUBSET Nat
    OBVIOUS
  <2> HIDE DEF I
  <2> QED
    BY <1>1, <1>2, <2>1, Induct
<1>4. k - 1 \in Nat /\ k - 1 < k /\ k - 1 + 1 = k
  OBVIOUS
<1>5. k - 1 \in I
  BY <1>3, <1>4, Zenon
<1>6. h[k - 1 + 1] = g[k - 1 + 1]
  BY <1>4, <1>5, Zenon
<1> QED
  BY <1>4, <1>6

\* What follows k is put behind it, whatever comes before.
LEMMA FlatFrom ==
    ASSUME NEW S, NEW n, NEW c, NEW d, NEW g, NEW h,
           Built(S, n, c, g), Built(S, n, d, h),
           NEW k \in 1 .. n, Same(c, d, k + 1, n)
    PROVE  Alike(S, g, h, k, n)
<1> USE DEF Built, Same
<1> DEFINE I == {j \in Nat : k + j <= n =>
                    \E b \in Seq(S) : g[k + j] = g[k] \o b /\ h[k + j] = h[k] \o b}
<1>1. 0 \in I
  <2>1. g[k] \o <<>> = g[k] /\ h[k] \o <<>> = h[k] /\ <<>> \in Seq(S)
    OBVIOUS
  <2>2. k + 0 = k /\ 0 \in Nat
    OBVIOUS
  <2> QED
    BY <2>1, <2>2
<1>2. ASSUME NEW j \in I PROVE j + 1 \in I
  <2>1. j \in Nat /\ j + 1 \in Nat /\ (k + (j + 1) <= n => k + j <= n)
    OBVIOUS
  <2>2. SUFFICES ASSUME k + (j + 1) <= n
                 PROVE  \E b \in Seq(S) : /\ g[k + (j + 1)] = g[k] \o b
                                          /\ h[k + (j + 1)] = h[k] \o b
    BY <2>1, Zenon
  <2>3. PICK b \in Seq(S) : g[k + j] = g[k] \o b /\ h[k + j] = h[k] \o b
    BY <2>1, <2>2
  <2> HIDE DEF I
  <2>4. PICK m \in 2 .. n : m = k + (j + 1) /\ m - 1 = k + j /\ m \in k + 1 .. n
    BY <2>1, <2>2
  <2>5. g[m] = g[m - 1] \o c[m] /\ h[m] = h[m - 1] \o d[m] /\ d[m] = c[m]
    BY <2>4, Zenon DEF Flattens
  <2>6. g[m] = (g[k] \o b) \o c[m] /\ h[m] = (h[k] \o b) \o c[m]
    BY <2>3, <2>4, <2>5, Zenon
  <2>7. g[k] \in Seq(S) /\ h[k] \in Seq(S) /\ c[m] \in Seq(S) /\ b \o c[m] \in Seq(S)
    <3>1. m \in 1 .. n
      BY <2>4
    <3>2. g[k] \in Seq(S) /\ h[k] \in Seq(S) /\ c[m] \in Seq(S)
      BY <3>1
    <3> QED
      BY <3>2
  <2>8. g[m] = g[k] \o (b \o c[m]) /\ h[m] = h[k] \o (b \o c[m])
    <3>1. PICK x \in Seq(S), y \in Seq(S), z \in Seq(S) : x = g[k] /\ y = h[k] /\ z = c[m]
      BY <2>7
    <3> HIDE DEF Built, Same
    <3>2. (x \o b) \o z = x \o (b \o z) /\ (y \o b) \o z = y \o (b \o z)
      <4>1. Assoc(x, b, z) /\ Assoc(y, b, z)
        BY AnyOrder, Zenon
      <4> QED
        BY <4>1, Zenon DEF Assoc
    <3> QED
      BY <2>6, <3>1, <3>2, Zenon
  <2> QED
    BY <2>4, <2>7, <2>8
<1>3. I = Nat
  <2>1. I \in SUBSET Nat
    OBVIOUS
  <2> HIDE DEF I
  <2> QED
    BY <1>1, <1>2, <2>1, Induct
<1>4. n - k \in Nat /\ k + (n - k) <= n /\ k + (n - k) = n
  OBVIOUS
<1>5. n - k \in I
  BY <1>3, <1>4, Zenon
<1>6. \E b \in Seq(S) : g[k + (n - k)] = g[k] \o b /\ h[k + (n - k)] = h[k] \o b
  BY <1>4, <1>5, Zenon
<1> QED
  BY <1>4, <1>6 DEF Alike

\* What is put together when block k, or k and m, is put in its place.
OneIn(S, n, c, d, k) ==
    \E a, b \in Seq(S) : /\ FlattenSeq(c) = (a \o c[k]) \o b
                         /\ FlattenSeq(d) = (a \o d[k]) \o b
                         /\ (k = 1 => a = <<>>) /\ (k = n => b = <<>>)
TwoIn(S, c, d, k, m) ==
    \E a, b \in Seq(S) : /\ FlattenSeq(c) = (a \o (c[k] \o c[m])) \o b
                         /\ FlattenSeq(d) = (a \o (d[k] \o d[m])) \o b

\* A block in its place: only block k differs.
LEMMA FlatOne ==
    ASSUME NEW S, NEW n \in Nat \ {0}, NEW c \in [1 .. n -> Seq(S)],
           NEW d \in [1 .. n -> Seq(S)],
           NEW k \in 1 .. n, \A i \in 1 .. n : i # k => d[i] = c[i]
    PROVE  OneIn(S, n, c, d, k)
<1> SUFFICES \E a, b \in Seq(S) : /\ FlattenSeq(c) = (a \o c[k]) \o b
                                  /\ FlattenSeq(d) = (a \o d[k]) \o b
                                  /\ (k = 1 => a = <<>>) /\ (k = n => b = <<>>)
  BY Zenon DEF OneIn
<1>1. PICK g : Built(S, n, c, g) /\ FlattenSeq(c) = g[n]
  BY FlatIs, Zenon
<1>2. PICK h : Built(S, n, d, h) /\ FlattenSeq(d) = h[n]
  BY FlatIs, Zenon
<1>3. Same(c, d, k + 1, n)
  BY DEF Same
<1>4. PICK b \in Seq(S) : g[n] = g[k] \o b /\ h[n] = h[k] \o b
  <2>1. Alike(S, g, h, k, n)
    BY <1>1, <1>2, <1>3, FlatFrom
  <2> QED
    BY <2>1, Zenon DEF Alike
<1>5. PICK a \in Seq(S) : g[k] = a \o c[k] /\ h[k] = a \o d[k] /\ (k = 1 => a = <<>>)
  <2>1. CASE k = 1
    <3>1. g[1] = c[1] /\ h[1] = d[1]
      BY <1>1, <1>2, Zenon DEF Built, Flattens
    <3>2. c[1] \in Seq(S) /\ d[1] \in Seq(S) /\ <<>> \in Seq(S)
      OBVIOUS
    <3>3. <<>> \o c[1] = c[1] /\ <<>> \o d[1] = d[1]
      BY <3>2
    <3> QED
      BY <2>1, <3>1, <3>2, <3>3, Zenon
  <2>2. CASE k # 1
    <3>1. PICK m \in 1 .. n : m = k - 1
      BY <2>2
    <3>2. k \in 2 .. n /\ Same(c, d, 1, m)
      BY <2>2, <3>1 DEF Same
    <3>3. h[m] = g[m]
      BY <1>1, <1>2, <3>2, FlatUpto
    <3>4. g[k] = g[k - 1] \o c[k] /\ h[k] = h[k - 1] \o d[k]
      BY <1>1, <1>2, <3>2, Zenon DEF Built, Flattens
    <3>5. g[m] \in Seq(S)
      BY <1>1 DEF Built
    <3> QED
      BY <2>2, <3>1, <3>3, <3>4, <3>5, Zenon
  <2> QED
    BY <2>1, <2>2
<1>6. CASE k = n
  <2>1. PICK z : z = <<>>
    OBVIOUS
  <2>2. z \in Seq(S) /\ g[k] \o z = g[k] /\ h[k] \o z = h[k]
    BY <2>1
  <2>3. FlattenSeq(c) = (a \o c[k]) \o z /\ FlattenSeq(d) = (a \o d[k]) \o z
    BY <1>1, <1>2, <1>5, <1>6, <2>2, Zenon
  <2> QED
    BY <1>5, <2>1, <2>2, <2>3, Zenon
<1>7. CASE k # n
  <2>1. FlattenSeq(c) = (a \o c[k]) \o b /\ FlattenSeq(d) = (a \o d[k]) \o b
    BY <1>1, <1>2, <1>4, <1>5, Zenon
  <2> QED
    BY <1>5, <1>7, <2>1, Zenon
<1> QED
  BY <1>6, <1>7

\* Two neighbours: only blocks k and k + 1 differ.
LEMMA FlatTwo ==
    ASSUME NEW S, NEW n \in Nat \ {0}, NEW c \in [1 .. n -> Seq(S)],
           NEW d \in [1 .. n -> Seq(S)],
           NEW k \in 1 .. n, NEW m \in 1 .. n, m = k + 1,
           \A i \in 1 .. n : i # k /\ i # m => d[i] = c[i]
    PROVE  TwoIn(S, c, d, k, m)
<1> SUFFICES \E a, b \in Seq(S) : /\ FlattenSeq(c) = (a \o (c[k] \o c[m])) \o b
                                  /\ FlattenSeq(d) = (a \o (d[k] \o d[m])) \o b
  BY Zenon DEF TwoIn
<1>1. PICK g : Built(S, n, c, g) /\ FlattenSeq(c) = g[n]
  BY FlatIs, Zenon
<1>2. PICK h : Built(S, n, d, h) /\ FlattenSeq(d) = h[n]
  BY FlatIs, Zenon
<1>3. Same(c, d, m + 1, n)
  BY DEF Same
<1>4. PICK b \in Seq(S) : g[n] = g[m] \o b /\ h[n] = h[m] \o b
  <2>1. Alike(S, g, h, m, n)
    BY <1>1, <1>2, <1>3, FlatFrom
  <2> QED
    BY <2>1, Zenon DEF Alike
<1>5. PICK a \in Seq(S) : g[k] = a \o c[k] /\ h[k] = a \o d[k]
  <2>1. CASE k = 1
    <3>1. g[1] = c[1] /\ h[1] = d[1]
      BY <1>1, <1>2, Zenon DEF Built, Flattens
    <3>2. c[1] \in Seq(S) /\ d[1] \in Seq(S) /\ <<>> \in Seq(S)
      OBVIOUS
    <3>3. <<>> \o c[1] = c[1] /\ <<>> \o d[1] = d[1]
      BY <3>2
    <3> QED
      BY <2>1, <3>1, <3>2, <3>3, Zenon
  <2>2. CASE k # 1
    <3>1. PICK j \in 1 .. n : j = k - 1
      BY <2>2
    <3>2. k \in 2 .. n /\ Same(c, d, 1, j)
      BY <2>2, <3>1 DEF Same
    <3>3. h[j] = g[j]
      BY <1>1, <1>2, <3>2, FlatUpto
    <3>4. g[k] = g[k - 1] \o c[k] /\ h[k] = h[k - 1] \o d[k]
      BY <1>1, <1>2, <3>2, Zenon DEF Built, Flattens
    <3>5. g[j] \in Seq(S)
      BY <1>1 DEF Built
    <3> QED
      BY <2>2, <3>1, <3>3, <3>4, <3>5, Zenon
  <2> QED
    BY <2>1, <2>2
<1>6. m \in 2 .. n /\ m - 1 = k
  OBVIOUS
<1>7. g[m] = g[m - 1] \o c[m] /\ h[m] = h[m - 1] \o d[m]
  BY <1>1, <1>2, <1>6, Zenon DEF Built, Flattens
<1>8. g[m] = (a \o c[k]) \o c[m] /\ h[m] = (a \o d[k]) \o d[m]
  BY <1>5, <1>6, <1>7, Zenon
<1>9. /\ c[k] \in Seq(S) /\ c[m] \in Seq(S) /\ d[k] \in Seq(S) /\ d[m] \in Seq(S)
  OBVIOUS
<1>10. g[m] = a \o (c[k] \o c[m]) /\ h[m] = a \o (d[k] \o d[m])
  <2>1. PICK x \in Seq(S), y \in Seq(S) : x = c[k] /\ y = c[m]
    BY <1>9
  <2>2. PICK z \in Seq(S), w \in Seq(S) : z = d[k] /\ w = d[m]
    BY <1>9
  <2>3. Assoc(a, x, y) /\ Assoc(a, z, w)
    BY AnyOrder, Zenon
  <2> QED
    BY <1>8, <2>1, <2>2, <2>3, Zenon DEF Assoc
<1> QED
  BY <1>1, <1>2, <1>4, <1>10, Zenon

----------------------------------------------------------------------------
(* The event list. *)

\* The sources of events, the events, and the packets.
Servers == {Queue(h) : h \in HopSet} \cup {Pipe(h) : h \in HopSet}
Sources == {Source, Logger} \cup Servers
Event == [at : Nat, src : Sources]
Packet == [id : Nat, size : Sizes, ecn : BOOLEAN]
Slot == [due : Nat, pkt : Packet]

\* A source has no event pending, or one, at time a.
NoneFor(q, src) == \A i \in 1 .. Len(q) : q[i].src # src
OneFor(q, src, a) ==
    \E i \in 1 .. Len(q) : /\ q[i].src = src /\ q[i].at = a
                           /\ \A j \in 1 .. Len(q) : q[j].src = src => j = i

\* The list of events is in order, from time t to the end of the simulation.
Kept(q, t) ==
    /\ q \in Seq(Event)
    /\ \A i \in 1 .. Len(q) : q[i].at >= t /\ (endtime # 0 => q[i].at <= endtime)
    /\ \A i, j \in 1 .. Len(q) : i < j => q[i].at <= q[j].at

\* A source and the time it is due at: its event is pending, or falls after
\* the end of the simulation.
Due(q, src, at) ==
    \/ OneFor(q, src, at)
    \/ NoneFor(q, src) /\ endtime # 0 /\ at > endtime

\* Scheduling a source (EventList::sourceIsPending) keeps the list in order
\* and disturbs no event of another source.
LEMMA EventAdded ==
    ASSUME NEW q, NEW t \in Nat, Kept(q, t), endtime \in Nat,
           NEW at \in Nat, t <= at, NEW src \in Sources,
           NEW r, r = SourceIsPending(q, endtime, at, src)
    PROVE  /\ Kept(r, t)
           /\ NoneFor(q, src) => Due(r, src, at)
           /\ \A o : o # src => /\ NoneFor(q, o) => NoneFor(r, o)
                                /\ \A a : OneFor(q, o, a) => OneFor(r, o, a)
<1>1. CASE endtime = 0 \/ at <= endtime
  <2> DEFINE e == [at |-> at, src |-> src]
  <2>1. r = Insert(q, at, src)
    BY <1>1 DEF SourceIsPending
  <2>2. /\ e \in Event /\ e.at = at /\ e.src = src
        /\ \A x \in Event : x.at \in Nat
        /\ q \in Seq(Event)
    BY DEF Event, Kept
  <2>3. /\ r \in Seq(Event)
        /\ \E n \in 1 .. Len(q) + 1 :
              /\ Spliced(q, n, e, r)
              /\ \A i \in 1 .. n - 1 : q[i].at <= at
              /\ n \in 1 .. Len(q) => at < q[n].at
    <3>1. [at |-> at, src |-> src] \in Event
      BY <2>2
    <3>2. /\ Insert(q, at, src) \in Seq(Event)
          /\ \E n \in 1 .. Len(q) + 1 :
                /\ Spliced(q, n, [at |-> at, src |-> src], Insert(q, at, src))
                /\ \A i \in 1 .. n - 1 : q[i].at <= at
                /\ n \in 1 .. Len(q) => at < q[n].at
      BY <2>2, <3>1, InsertSplices
    <3> QED
      BY <2>1, <3>2, Zenon
  <2>4. PICK n \in 1 .. Len(q) + 1 :
           /\ Spliced(q, n, e, r)
           /\ \A i \in 1 .. n - 1 : q[i].at <= at
           /\ n \in 1 .. Len(q) => at < q[n].at
    BY <2>3
  <2> HIDE DEF e
  <2>5. /\ Len(q) \in Nat /\ Len(r) = Len(q) + 1 /\ r[n] = e
        /\ n \in 1 .. Len(r)
        /\ \A i \in 1 .. Len(q) : i < n => r[i] = q[i] /\ i \in 1 .. Len(r)
        /\ \A i \in 1 .. Len(q) : ~(i < n) => r[i + 1] = q[i] /\ i + 1 \in 1 .. Len(r)
        /\ \A j \in 1 .. Len(r) :
              \/ j = n
              \/ j # n /\ j < n /\ j \in 1 .. Len(q) /\ r[j] = q[j]
              \/ j # n /\ n < j /\ j - 1 \in 1 .. Len(q) /\ r[j] = q[j - 1]
    <3>1. /\ n \in 1 .. Len(q) + 1 /\ Len(r) = Len(q) + 1 /\ r[n] = e
          /\ \A i \in 1 .. Len(q) : IF i < n THEN r[i] = q[i] ELSE r[i + 1] = q[i]
          /\ \A j \in 1 .. Len(r) :
                \/ j = n
                \/ j < n /\ j \in 1 .. Len(q) /\ r[j] = q[j]
                \/ n < j /\ j - 1 \in 1 .. Len(q) /\ r[j] = q[j - 1]
      BY <2>4, Zenon DEF Spliced
    <3>2. Len(q) \in Nat
      BY <2>2
    <3>3. Len(r) = Len(q) + 1 /\ r[n] = e /\ n \in 1 .. Len(r)
      BY <3>1, <3>2
    <3>4. \A i \in 1 .. Len(q) : i < n => r[i] = q[i] /\ i \in 1 .. Len(r)
      BY <3>1, <3>2
    <3>5. \A i \in 1 .. Len(q) : ~(i < n) => r[i + 1] = q[i] /\ i + 1 \in 1 .. Len(r)
      BY <3>1, <3>2
    <3>6. \A j \in 1 .. Len(r) : j # n \/ j = n
      OBVIOUS
    <3>7. \A j \in 1 .. Len(r) : n < j \/ j < n => j # n
      BY <3>1, <3>2
    <3> QED
      BY <3>1, <3>2, <3>3, <3>4, <3>5, <3>7, Zenon
  <2>6. \A i \in 1 .. Len(q) :
           /\ q[i].at \in Nat /\ q[i].at >= t
           /\ (endtime # 0 => q[i].at <= endtime)
    <3> SUFFICES ASSUME NEW i \in 1 .. Len(q)
                 PROVE  /\ q[i].at \in Nat /\ q[i].at >= t
                        /\ (endtime # 0 => q[i].at <= endtime)
      OBVIOUS
    <3>1. q[i] \in Event
      BY <2>2
    <3>2. q[i].at \in Nat
      BY <2>2, <3>1, Zenon
    <3>3. q[i].at >= t /\ (endtime # 0 => q[i].at <= endtime)
      BY Zenon DEF Kept
    <3> QED
      BY <3>2, <3>3
  <2>7. \A j \in 1 .. Len(r) : r[j].at >= t /\ (endtime # 0 => r[j].at <= endtime)
    <3> SUFFICES ASSUME NEW j \in 1 .. Len(r)
                 PROVE  r[j].at >= t /\ (endtime # 0 => r[j].at <= endtime)
      OBVIOUS
    <3>1. CASE r[j] = e
      BY <1>1, <2>2, <3>1
    <3>2. ASSUME NEW i \in 1 .. Len(q), r[j] = q[i]
          PROVE  r[j].at >= t /\ (endtime # 0 => r[j].at <= endtime)
      BY <2>6, <3>2
    <3>3. r[j] = e \/ \E i \in 1 .. Len(q) : r[j] = q[i]
      BY <2>5, Zenon
    <3> QED
      BY <3>1, <3>2, <3>3
  <2>8. \A i, j \in 1 .. Len(r) : i < j => r[i].at <= r[j].at
    <3> SUFFICES ASSUME NEW i \in 1 .. Len(r), NEW j \in 1 .. Len(r), i < j
                 PROVE  r[i].at <= r[j].at
      OBVIOUS
    <3>1. \A a, b \in 1 .. Len(q) : a < b => q[a].at <= q[b].at
      BY DEF Kept
    <3>2. \A a \in 1 .. Len(q) : a < n => q[a].at <= at
      BY <2>4, <2>5
    <3>3. \A b \in 1 .. Len(q) : n <= b => at <= q[b].at
      <4> SUFFICES ASSUME NEW b \in 1 .. Len(q), n <= b PROVE at <= q[b].at
        OBVIOUS
      <4>1. n \in 1 .. Len(q)
        BY <2>5
      <4>2. at < q[n].at /\ q[n].at \in Nat /\ q[b].at \in Nat
        BY <2>4, <2>6, <4>1
      <4>3. CASE n = b
        BY <4>2, <4>3
      <4>4. CASE n < b
        <5>1. q[n].at <= q[b].at
          BY <3>1, <4>1, <4>4
        <5> QED
          BY <4>2, <5>1
      <4> QED
        BY <4>3, <4>4
    <3>4. CASE i = n
      <4>1. j - 1 \in 1 .. Len(q) /\ r[j] = q[j - 1] /\ n <= j - 1
        BY <2>5, <3>4
      <4>2. at <= q[j - 1].at
        BY <3>3, <4>1
      <4> QED
        BY <2>2, <2>5, <3>4, <4>1, <4>2
    <3>5. CASE i < n
      <4>1. i \in 1 .. Len(q) /\ r[i] = q[i]
        BY <2>5, <3>5
      <4>2. CASE j = n
        <5>1. q[i].at <= at
          BY <3>2, <3>5, <4>1
        <5> QED
          BY <2>2, <2>5, <4>1, <4>2, <5>1
      <4>3. CASE j < n
        <5>1. j \in 1 .. Len(q) /\ r[j] = q[j]
          BY <2>5, <4>3
        <5> QED
          BY <3>1, <4>1, <5>1
      <4>4. CASE n < j
        <5>1. j - 1 \in 1 .. Len(q) /\ r[j] = q[j - 1] /\ i < j - 1
          BY <2>5, <3>5, <4>4
        <5>2. q[i].at <= q[j - 1].at
          BY <3>1, <4>1, <5>1
        <5> QED
          BY <4>1, <5>1, <5>2
      <4> QED
        BY <4>2, <4>3, <4>4
    <3>6. CASE n < i
      <4>1. /\ i - 1 \in 1 .. Len(q) /\ r[i] = q[i - 1]
            /\ j - 1 \in 1 .. Len(q) /\ r[j] = q[j - 1] /\ i - 1 < j - 1
        BY <2>5, <3>6
      <4>2. q[i - 1].at <= q[j - 1].at
        BY <3>1, <4>1
      <4> QED
        BY <4>1, <4>2
    <3> QED
      BY <3>4, <3>5, <3>6
  <2>9. Kept(r, t)
    BY <2>3, <2>7, <2>8, Zenon DEF Kept
  <2>10. ASSUME NoneFor(q, src) PROVE Due(r, src, at)
    <3>1. ASSUME NEW j \in 1 .. Len(r), r[j].src = src PROVE j = n
      <4>1. \A i \in 1 .. Len(q) : r[j] # q[i]
        BY <2>10, <3>1, Zenon DEF NoneFor
      <4> QED
        BY <2>5, <4>1, Zenon
    <3>2. r[n].src = src /\ r[n].at = at /\ n \in 1 .. Len(r)
      BY <2>2, <2>5
    <3>3. OneFor(r, src, at)
      BY <3>1, <3>2, Zenon DEF OneFor
    <3> QED
      BY <3>3 DEF Due
  <2>11. ASSUME NEW o, o # src
         PROVE  /\ NoneFor(q, o) => NoneFor(r, o)
                /\ \A a : OneFor(q, o, a) => OneFor(r, o, a)
    <3>1. ASSUME NoneFor(q, o) PROVE NoneFor(r, o)
      <4> SUFFICES ASSUME NEW j \in 1 .. Len(r), r[j].src = o PROVE FALSE
        BY DEF NoneFor
      <4>1. j # n
        BY <2>2, <2>5, <2>11
      <4> QED
        BY <2>5, <3>1, <4>1, Zenon DEF NoneFor
    <3>2. ASSUME NEW a, OneFor(q, o, a) PROVE OneFor(r, o, a)
      <4>1. PICK i \in 1 .. Len(q) :
               /\ q[i].src = o /\ q[i].at = a
               /\ \A j \in 1 .. Len(q) : q[j].src = o => j = i
        BY <3>2 DEF OneFor
      <4>2. PICK k \in 1 .. Len(r) : /\ r[k] = q[i]
                                     /\ (k = i /\ i < n) \/ (k = i + 1 /\ ~(i < n))
        BY <2>5, Zenon
      <4>3. ASSUME NEW j \in 1 .. Len(r), r[j].src = o PROVE j = k
        <5>1. j # n
          BY <2>2, <2>5, <2>11, <4>3
        <5>2. CASE j < n /\ j \in 1 .. Len(q) /\ r[j] = q[j]
          <6>1. j = i
            BY <4>1, <4>3, <5>2, Zenon
          <6> QED
            BY <4>2, <5>2, <6>1
        <5>3. CASE n < j /\ j - 1 \in 1 .. Len(q) /\ r[j] = q[j - 1]
          <6>1. j - 1 = i
            BY <4>1, <4>3, <5>3, Zenon
          <6>2. ~(i < n) /\ j = i + 1
            BY <5>3, <6>1
          <6> QED
            BY <4>2, <6>2
        <5> QED
          BY <2>5, <5>1, <5>2, <5>3, Zenon
      <4>4. r[k].src = o /\ r[k].at = a
        BY <4>1, <4>2
      <4> QED
        BY <4>3, <4>4, Zenon DEF OneFor
    <3> QED
      BY <3>1, <3>2
  <2> QED
    BY <2>9, <2>10, <2>11
<1>2. CASE ~(endtime = 0 \/ at <= endtime)
  <2>1. r = q /\ endtime # 0 /\ at > endtime
    BY <1>2 DEF SourceIsPending
  <2> QED
    BY <2>1 DEF Due
<1> QED
  BY <1>1, <1>2

\* Taking the event at the head of the list leaves it in order, and is the
\* earliest that any source has.
LEMMA EventTaken ==
    ASSUME NEW q, NEW t \in Nat, Kept(q, t), q # <<>>
    PROVE  /\ Head(q) \in Event /\ Head(q).at \in Nat /\ t <= Head(q).at
           /\ endtime # 0 => Head(q).at <= endtime
           /\ Kept(Tail(q), Head(q).at)
           /\ \A o : /\ NoneFor(q, o) => NoneFor(Tail(q), o) /\ Head(q).src # o
                     /\ \A a : OneFor(q, o, a) /\ Head(q).src # o
                                  => OneFor(Tail(q), o, a) /\ Head(q).at <= a
                     /\ \A a : OneFor(q, o, a) /\ Head(q).src = o
                                  => NoneFor(Tail(q), o) /\ Head(q).at = a
<1>1. PICK r : r = Tail(q)
  OBVIOUS
<1>2. PICK e : e = Head(q)
  OBVIOUS
<1>3. q \in Seq(Event)
  BY DEF Kept
<1>4. /\ e \in Event /\ r \in Seq(Event) /\ Len(q) \in Nat \ {0}
      /\ e = q[1] /\ Len(r) = Len(q) - 1 /\ 1 \in 1 .. Len(q)
      /\ \A i \in 1 .. Len(r) : r[i] = q[i + 1]
  BY <1>1, <1>2, <1>3, HeadTailProperties
<1>5. \A i \in 1 .. Len(r) : i + 1 \in 1 .. Len(q) /\ i + 1 # 1 /\ 1 < i + 1
  BY <1>4
<1>6. \A i \in 1 .. Len(q) : i # 1 => \E k \in 1 .. Len(r) : i = k + 1
  <2> SUFFICES ASSUME NEW i \in 1 .. Len(q), i # 1
               PROVE  \E k \in 1 .. Len(r) : i = k + 1
    OBVIOUS
  <2>1. i - 1 \in 1 .. Len(r) /\ i = i - 1 + 1
    BY <1>4
  <2> QED
    BY <2>1
<1>7. e.at \in Nat /\ t <= e.at /\ (endtime # 0 => e.at <= endtime)
  BY <1>4 DEF Kept, Event
<1>8. \A i \in 1 .. Len(q) : e.at <= q[i].at
  <2> SUFFICES ASSUME NEW i \in 1 .. Len(q) PROVE e.at <= q[i].at
    OBVIOUS
  <2>1. CASE i = 1
    BY <1>4, <1>7, <2>1
  <2>2. CASE i # 1
    <3>1. 1 < i
      BY <2>2
    <3> QED
      BY <1>4, <3>1 DEF Kept
  <2> QED
    BY <2>1, <2>2
<1>9. Kept(r, e.at)
  <2>1. \A i \in 1 .. Len(r) : r[i].at >= e.at /\ (endtime # 0 => r[i].at <= endtime)
    <3> SUFFICES ASSUME NEW i \in 1 .. Len(r)
                 PROVE  r[i].at >= e.at /\ (endtime # 0 => r[i].at <= endtime)
      OBVIOUS
    <3>1. r[i] = q[i + 1] /\ i + 1 \in 1 .. Len(q)
      BY <1>4, <1>5
    <3>2. e.at <= q[i + 1].at /\ q[i + 1].at \in Nat
      <4>1. q[i + 1] \in Event
        BY <1>3, <3>1
      <4> QED
        BY <1>8, <3>1, <4>1 DEF Event
    <3>3. endtime # 0 => q[i + 1].at <= endtime
      BY <3>1 DEF Kept
    <3> QED
      BY <1>7, <3>1, <3>2, <3>3
  <2>2. \A i, j \in 1 .. Len(r) : i < j => r[i].at <= r[j].at
    <3> SUFFICES ASSUME NEW i \in 1 .. Len(r), NEW j \in 1 .. Len(r), i < j
                 PROVE  r[i].at <= r[j].at
      OBVIOUS
    <3>1. /\ r[i] = q[i + 1] /\ i + 1 \in 1 .. Len(q)
          /\ r[j] = q[j + 1] /\ j + 1 \in 1 .. Len(q) /\ i + 1 < j + 1
      BY <1>4, <1>5
    <3>2. q[i + 1].at <= q[j + 1].at
      BY <3>1 DEF Kept
    <3> QED
      BY <3>1, <3>2
  <2> QED
    BY <1>4, <2>1, <2>2 DEF Kept
<1>10. ASSUME NEW o, NoneFor(q, o) PROVE NoneFor(r, o) /\ e.src # o
  BY <1>4, <1>5, <1>10 DEF NoneFor
<1>11. ASSUME NEW o, NEW a, OneFor(q, o, a), e.src # o
       PROVE  OneFor(r, o, a) /\ e.at <= a
  <2>1. PICK i \in 1 .. Len(q) : /\ q[i].src = o /\ q[i].at = a
                                 /\ \A j \in 1 .. Len(q) : q[j].src = o => j = i
    BY <1>11 DEF OneFor
  <2>2. i # 1
    BY <1>4, <1>11, <2>1
  <2>3. PICK k \in 1 .. Len(r) : i = k + 1
    BY <1>6, <2>2
  <2>4. r[k].src = o /\ r[k].at = a
    BY <1>4, <2>1, <2>3
  <2>5. ASSUME NEW j \in 1 .. Len(r), r[j].src = o PROVE j = k
    <3>1. q[j + 1].src = o /\ j + 1 \in 1 .. Len(q)
      BY <1>4, <1>5, <2>5
    <3>2. j + 1 = i
      BY <2>1, <3>1, Zenon
    <3> QED
      BY <2>3, <3>2
  <2>6. e.at <= a
    BY <1>8, <2>1
  <2> QED
    BY <2>4, <2>5, <2>6, Zenon DEF OneFor
<1>12. ASSUME NEW o, NEW a, OneFor(q, o, a), e.src = o
       PROVE  NoneFor(r, o) /\ e.at = a
  <2>1. PICK i \in 1 .. Len(q) : /\ q[i].src = o /\ q[i].at = a
                                 /\ \A j \in 1 .. Len(q) : q[j].src = o => j = i
    BY <1>12 DEF OneFor
  <2>2. i = 1
    BY <1>4, <1>12, <2>1
  <2>3. ASSUME NEW j \in 1 .. Len(r), r[j].src = o PROVE FALSE
    <3>1. q[j + 1].src = o /\ j + 1 \in 1 .. Len(q) /\ j + 1 # 1
      BY <1>4, <1>5, <2>3
    <3> QED
      BY <2>1, <2>2, <3>1, Zenon
  <2>4. e.at = a
    BY <1>4, <2>1, <2>2
  <2> QED
    BY <2>3, <2>4 DEF NoneFor
<1> QED
  BY <1>1, <1>2, <1>4, <1>7, <1>9, <1>10, <1>11, <1>12, Zenon

----------------------------------------------------------------------------
(* What the handlers do to the record they work on. *)

\* The record that the handlers work on.
St(p, e, q, i, l, d, v) ==
    [pending |-> p, enqueued |-> e, queuesize |-> q, inflight |-> i, log |-> l,
     dropped |-> d, delivered |-> v]

Fields == {"pending", "enqueued", "queuesize", "inflight", "log", "dropped",
           "delivered"}

\* What a call of the logger makes of its books.
Told(l, h, ev, n, x, t) ==
    IF HasLogger(h) THEN LogQueue(l, ev, n, x.size, DrainTime(h, x), t) ELSE l

Rejects(n, h, x, early) ==
    \/ Overflows(n, h, x)
    \/ early /\ h \in EarlyDrop /\ n + x.size > DropThreshold

\* The record the handlers start from.
LEMMA NowIs ==
    /\ Now = St(pending, enqueued, queuesize, inflight, log, dropped, delivered)
    /\ Rest = St(Tail(pending), enqueued, queuesize, inflight, log, dropped, delivered)
<1>1. PICK n : n = Now
  OBVIOUS
<1>2. n = St(pending, enqueued, queuesize, inflight, log, dropped, delivered)
  BY <1>1 DEF Now, St
<1>3. PICK m : m = Tail(pending)
  OBVIOUS
<1>4. [n EXCEPT !.pending = m] =
          St(m, enqueued, queuesize, inflight, log, dropped, delivered)
  BY <1>2 DEF St
<1>5. n.pending = pending
  BY <1>2 DEF St
<1> QED
  BY <1>1, <1>2, <1>3, <1>4, <1>5, Zenon DEF Rest

\* The variables after the handlers are done.
LEMMA BecomeIs ==
    ASSUME NEW p, NEW e, NEW q, NEW i, NEW l, NEW d, NEW v,
           Become(St(p, e, q, i, l, d, v))
    PROVE  /\ pending' = p /\ enqueued' = e /\ queuesize' = q /\ inflight' = i
           /\ log' = l /\ dropped' = d /\ delivered' = v
BY DEF Become, St

\* Scheduling changes nothing but the pending events.
LEMMA ScheduleIs ==
    ASSUME NEW p, NEW e, NEW q, NEW i, NEW l, NEW d, NEW v, NEW at, NEW src
    PROVE  Schedule(St(p, e, q, i, l, d, v), at, src) =
               St(SourceIsPending(p, endtime, at, src), e, q, i, l, d, v)
BY DEF Schedule, St

\* A call of the logger changes nothing but its books.
LEMMA LogsIs ==
    ASSUME NEW p, NEW e, NEW q, NEW i, NEW l, NEW d, NEW v,
           NEW h, NEW ev, NEW x, NEW t
    PROVE  Logs(St(p, e, q, i, l, d, v), h, ev, x, t) =
               St(p, e, q, i, Told(l, h, ev, q[h], x, t), d, v)
<1>1. PICK s : s = St(p, e, q, i, l, d, v)
  OBVIOUS
<1>2. s.queuesize = q /\ s.log = l
  BY <1>1 DEF St
<1>3. PICK m : m = LogQueue(l, ev, q[h], x.size, DrainTime(h, x), t)
  OBVIOUS
<1>4. [s EXCEPT !.log = m] = St(p, e, q, i, m, d, v)
  BY <1>1 DEF St
<1>5. Logs(s, h, ev, x, t) = IF HasLogger(h) THEN [s EXCEPT !.log = m] ELSE s
  BY <1>2, <1>3, Zenon DEF Logs
<1> QED
  BY <1>1, <1>3, <1>4, <1>5, Zenon DEF Told

RejectedAs(p, e, q, i, l, d, v, h, x, t, early) ==
    QueueReceive(St(p, e, q, i, l, d, v), h, x, t, early) =
        St(p, e, q, i, Told(l, h, "PKT_DROP", q[h], x, t), d \cup {x.id}, v)

\* Queue::receivePacket of a packet that is dropped.
LEMMA ReceiveRejects ==
    ASSUME NEW p, NEW e, NEW q, NEW i, NEW l, NEW d, NEW v,
           NEW h, NEW x, NEW t, NEW early, Rejects(q[h], h, x, early)
    PROVE  RejectedAs(p, e, q, i, l, d, v, h, x, t, early)
<1>1. PICK s : s = St(p, e, q, i, l, d, v)
  OBVIOUS
<1>2. s.queuesize = q
  BY <1>1 DEF St
<1>3. PICK m : m = Told(l, h, "PKT_DROP", q[h], x, t)
  OBVIOUS
<1>4. Logs(s, h, "PKT_DROP", x, t) = St(p, e, q, i, m, d, v)
  BY <1>1, <1>3, LogsIs
<1>5. QueueReceive(s, h, x, t, early) =
          [St(p, e, q, i, m, d, v) EXCEPT !.dropped = @ \cup {x.id}]
  BY <1>2, <1>4, Zenon DEF QueueReceive, Rejects
<1>6. [St(p, e, q, i, m, d, v) EXCEPT !.dropped = @ \cup {x.id}] =
          St(p, e, q, i, m, d \cup {x.id}, v)
  BY DEF St
<1> QED
  BY <1>1, <1>3, <1>5, <1>6, Zenon DEF RejectedAs

\* What a queue makes of the events, its packets, their bytes and the books.
Accepted(p, e, q, l, h, x, t, p2, e2, q2, l2) ==
    /\ e2 = [e EXCEPT ![h] = Append(@, x)]
    /\ q2 = [q EXCEPT ![h] = @ + x.size]
    /\ l2 = IF h \in LogsArrivals
            THEN Told(l, h, "PKT_ENQUEUE", q[h] + x.size, x, t) ELSE l
    /\ e[h] # <<>> => p2 = p
    /\ e[h] = <<>> =>
          p2 = SourceIsPending(p, endtime, t + DrainTime(h, Head(e2[h])), Queue(h))

AcceptedAs(p, e, q, i, l, d, v, h, x, t, early) ==
    \E p2, e2, q2, l2 :
       /\ QueueReceive(St(p, e, q, i, l, d, v), h, x, t, early) =
             St(p2, e2, q2, i, l2, d, v)
       /\ Accepted(p, e, q, l, h, x, t, p2, e2, q2, l2)

\* Queue::receivePacket of a packet that is queued.
LEMMA ReceiveAccepts ==
    ASSUME NEW p, NEW e, NEW q, NEW i, NEW l, NEW d, NEW v,
           NEW h, h \in DOMAIN e, NEW x, NEW t, NEW early,
           h \in DOMAIN q, ~Rejects(q[h], h, x, early)
    PROVE  AcceptedAs(p, e, q, i, l, d, v, h, x, t, early)
<1>1. PICK s : s = St(p, e, q, i, l, d, v)
  OBVIOUS
<1>2. s.queuesize = q /\ s.enqueued = e
  BY <1>1 DEF St
<1>3. PICK e2, q2 : /\ e2 = [e EXCEPT ![h] = Append(@, x)]
                    /\ q2 = [q EXCEPT ![h] = @ + x.size]
  OBVIOUS
<1>4. PICK a : a = Joins(s, h, x)
  OBVIOUS
<1>5. a = St(p, e2, q2, i, l, d, v)
  <2>1. a = [z \in Fields |-> a[z]]
    BY <1>1, <1>4 DEF Joins, St, Fields
  <2>2. /\ a.pending = p /\ a.inflight = i /\ a.log = l /\ a.dropped = d
        /\ a.delivered = v
    BY <1>1, <1>4 DEF Joins, St
  <2>3. a.enqueued = e2
    BY <1>1, <1>3, <1>4 DEF Joins, St, Enqueue
  <2>4. a.queuesize = q2
    BY <1>1, <1>3, <1>4 DEF Joins, St
  <2> QED
    BY <2>1, <2>2, <2>3, <2>4 DEF St, Fields
<1>6. PICK l2 : l2 = IF h \in LogsArrivals
                     THEN Told(l, h, "PKT_ENQUEUE", q[h] + x.size, x, t) ELSE l
  OBVIOUS
<1>7. PICK b : b = IF h \in LogsArrivals THEN Logs(a, h, "PKT_ENQUEUE", x, t) ELSE a
  OBVIOUS
<1>8. b = St(p, e2, q2, i, l2, d, v)
  <2>1. q2[h] = q[h] + x.size
    BY <1>3
  <2>2. Logs(a, h, "PKT_ENQUEUE", x, t) =
            St(p, e2, q2, i, Told(l, h, "PKT_ENQUEUE", q2[h], x, t), d, v)
    BY <1>5, LogsIs
  <2> QED
    BY <1>5, <1>6, <1>7, <2>1, <2>2, Zenon
<1>9. QueueReceive(s, h, x, t, early) =
          IF e[h] = <<>> THEN BeginService(b, h, t) ELSE b
  <2>1. ~Rejects(s.queuesize[h], h, x, early)
    BY <1>2
  <2>2. QueueReceive(s, h, x, t, early) =
            IF s.enqueued[h] = <<>> THEN BeginService(b, h, t) ELSE b
    BY <1>4, <1>7, <2>1, Zenon DEF QueueReceive, Rejects
  <2> QED
    BY <1>2, <2>2, Zenon
<1>10. BeginService(b, h, t) =
           St(SourceIsPending(p, endtime, t + DrainTime(h, Head(e2[h])), Queue(h)),
              e2, q2, i, l2, d, v)
  <2>1. b.enqueued = e2
    BY <1>8 DEF St
  <2>2. BeginService(b, h, t) = Schedule(b, t + DrainTime(h, Head(e2[h])), Queue(h))
    BY <2>1, Zenon DEF BeginService
  <2> QED
    BY <1>8, <2>2, ScheduleIs
<1>11. PICK p2 :
           /\ e[h] # <<>> => p2 = p
           /\ e[h] = <<>> =>
                 p2 = SourceIsPending(p, endtime, t + DrainTime(h, Head(e2[h])), Queue(h))
  OBVIOUS
<1>12. QueueReceive(s, h, x, t, early) = St(p2, e2, q2, i, l2, d, v)
  <2>1. CASE e[h] = <<>>
    BY <1>9, <1>10, <1>11, <2>1, Zenon
  <2>2. CASE e[h] # <<>>
    BY <1>8, <1>9, <1>11, <2>2, Zenon
  <2> QED
    BY <2>1, <2>2
<1>13. Accepted(p, e, q, l, h, x, t, p2, e2, q2, l2)
  BY <1>3, <1>6, <1>11, Zenon DEF Accepted
<1> QED
  BY <1>1, <1>12, <1>13, Zenon DEF AcceptedAs

\* What a pipe makes of the events and of the packets in flight.
Piped(p, i, h, x, t, p2, i2) ==
    /\ i2 = [i EXCEPT ![h] = Append(@, [due |-> t + Delay[h], pkt |-> x])]
    /\ i[h] # <<>> => p2 = p
    /\ i[h] = <<>> => p2 = SourceIsPending(p, endtime, t + Delay[h], Pipe(h))

\* Pipe::receivePacket changes the pipe and the events only.
LEMMA PipeReceiveIs ==
    ASSUME NEW p, NEW e, NEW q, NEW i, NEW l, NEW d, NEW v,
           NEW h, h \in DOMAIN i, NEW x, NEW t
    PROVE  \E p2, i2 :
              /\ PipeReceive(St(p, e, q, i, l, d, v), h, x, t) =
                    St(p2, e, q, i2, l, d, v)
              /\ Piped(p, i, h, x, t, p2, i2)
<1>1. PICK s : s = St(p, e, q, i, l, d, v)
  OBVIOUS
<1>2. s.inflight = i
  BY <1>1 DEF St
<1>3. PICK y : y = [due |-> t + Delay[h], pkt |-> x]
  OBVIOUS
<1>4. PICK i2 : i2 = [i EXCEPT ![h] = Append(@, y)]
  OBVIOUS
<1>5. ASSUME NEW p2
      PROVE  [St(p2, e, q, i, l, d, v) EXCEPT !.inflight[h] = Append(@, y)] =
                 St(p2, e, q, i2, l, d, v)
  <2>1. PICK a : a = [St(p2, e, q, i, l, d, v) EXCEPT !.inflight[h] = Append(@, y)]
    OBVIOUS
  <2>2. a = [z \in Fields |-> a[z]]
    BY <2>1 DEF St, Fields
  <2>3. /\ a.pending = p2 /\ a.enqueued = e /\ a.queuesize = q /\ a.log = l
        /\ a.dropped = d /\ a.delivered = v
    BY <2>1 DEF St
  <2>4. a.inflight = i2
    BY <1>4, <2>1 DEF St
  <2>5. a = St(p2, e, q, i2, l, d, v)
    BY <2>2, <2>3, <2>4 DEF St, Fields
  <2> QED
    BY <2>1, <2>5
<1>6. PICK f : f = IF i[h] = <<>> THEN Schedule(s, t + Delay[h], Pipe(h)) ELSE s
  OBVIOUS
<1>7. PipeReceive(s, h, x, t) = [f EXCEPT !.inflight[h] = Append(@, y)]
  BY <1>2, <1>3, <1>6, Zenon DEF PipeReceive
<1>8. PICK p2 : /\ i[h] # <<>> => p2 = p
                /\ i[h] = <<>> => p2 = SourceIsPending(p, endtime, t + Delay[h], Pipe(h))
  OBVIOUS
<1>9. f = St(p2, e, q, i, l, d, v)
  <2>1. CASE i[h] = <<>>
    BY <1>1, <1>6, <1>8, <2>1, ScheduleIs
  <2>2. CASE i[h] # <<>>
    BY <1>1, <1>6, <1>8, <2>2, Zenon
  <2> QED
    BY <2>1, <2>2
<1>10. PipeReceive(St(p, e, q, i, l, d, v), h, x, t) = St(p2, e, q, i2, l, d, v)
  <2>1. [St(p2, e, q, i, l, d, v) EXCEPT !.inflight[h] = Append(@, y)] =
            St(p2, e, q, i2, l, d, v)
    BY <1>5
  <2> QED
    BY <1>1, <1>7, <1>9, <2>1, Zenon
<1>11. i2 = [i EXCEPT ![h] = Append(@, [due |-> t + Delay[h], pkt |-> x])]
  BY <1>3, <1>4, Zenon
<1>12. Piped(p, i, h, x, t, p2, i2)
  BY <1>8, <1>11, Zenon DEF Piped
<1> QED
  BY <1>10, <1>12, Zenon

ServedAs(p, e, q, i, l, d, v, h, t) ==
    \E x, y, p2, p3, e2, q2, i2 :
       /\ CompleteService(St(p, e, q, i, l, d, v), h, t) =
             St(p3, e2, q2, i2, Told(l, h, "PKT_SERVICE", q2[h], x, t), d, v)
       /\ x = Head(e[h])
       /\ y = IF q2[h] > EcnThreshold[h] THEN [x EXCEPT !.ecn = TRUE] ELSE x
       /\ e2 = [e EXCEPT ![h] = Tail(@)]
       /\ q2 = [q EXCEPT ![h] = @ - x.size]
       /\ Piped(p, i, h, y, t, p2, i2)
       /\ e2[h] = <<>> => p3 = p2
       /\ e2[h] # <<>> =>
             p3 = SourceIsPending(p2, endtime, t + DrainTime(h, Head(e2[h])), Queue(h))

\* Queue::completeService: the packet goes into the pipe, and the next one
\* is announced.
LEMMA ServiceIs ==
    ASSUME NEW p, NEW e, NEW q, NEW i, NEW l, NEW d, NEW v,
           NEW h, h \in DOMAIN e, h \in DOMAIN q, h \in DOMAIN i, NEW t
    PROVE  ServedAs(p, e, q, i, l, d, v, h, t)
<1>1. PICK s : s = St(p, e, q, i, l, d, v)
  OBVIOUS
<1>2. s.enqueued = e
  BY <1>1 DEF St
<1>3. PICK x : x = Head(e[h])
  OBVIOUS
<1>4. PICK e2, q2 : /\ e2 = [e EXCEPT ![h] = Tail(@)]
                    /\ q2 = [q EXCEPT ![h] = @ - x.size]
  OBVIOUS
<1>5. PICK a : a = Leaves(s, h, x)
  OBVIOUS
<1>6. a = St(p, e2, q2, i, l, d, v)
  <2>1. a = [z \in Fields |-> a[z]]
    BY <1>1, <1>5 DEF Leaves, St, Fields
  <2>2. /\ a.pending = p /\ a.inflight = i /\ a.log = l /\ a.dropped = d
        /\ a.delivered = v
    BY <1>1, <1>5 DEF Leaves, St
  <2>3. a.enqueued = e2
    BY <1>1, <1>4, <1>5 DEF Leaves, St
  <2>4. a.queuesize = q2
    BY <1>1, <1>4, <1>5 DEF Leaves, St
  <2> QED
    BY <2>1, <2>2, <2>3, <2>4 DEF St, Fields
<1>7. PICK l2 : l2 = Told(l, h, "PKT_SERVICE", q2[h], x, t)
  OBVIOUS
<1>8. Logs(a, h, "PKT_SERVICE", x, t) = St(p, e2, q2, i, l2, d, v)
  BY <1>6, <1>7, LogsIs
<1>9. PICK y : y = IF q2[h] > EcnThreshold[h] THEN [x EXCEPT !.ecn = TRUE] ELSE x
  OBVIOUS
<1>10. EcnMark(a, h, x) = y
  <2>1. a.queuesize = q2
    BY <1>6 DEF St
  <2> QED
    BY <1>9, <2>1, Zenon DEF EcnMark
<1>11. PICK p2, i2 :
          /\ PipeReceive(St(p, e2, q2, i, l2, d, v), h, y, t) =
                St(p2, e2, q2, i2, l2, d, v)
          /\ Piped(p, i, h, y, t, p2, i2)
  <2>1. PICK w : w = PipeReceive(St(p, e2, q2, i, l2, d, v), h, y, t)
    OBVIOUS
  <2>2. \E p2, i2 : w = St(p2, e2, q2, i2, l2, d, v) /\ Piped(p, i, h, y, t, p2, i2)
    BY <2>1, PipeReceiveIs
  <2> QED
    BY <2>1, <2>2, Zenon
<1>12. PICK f : f = PipeReceive(Logs(a, h, "PKT_SERVICE", x, t), h, EcnMark(a, h, x), t)
  OBVIOUS
<1>13. f = St(p2, e2, q2, i2, l2, d, v)
  BY <1>8, <1>10, <1>11, <1>12, Zenon
<1>14. CompleteService(s, h, t) =
           IF f.enqueued[h] # <<>> THEN BeginService(f, h, t) ELSE f
  <2>1. x = Head(s.enqueued[h])
    BY <1>2, <1>3
  <2> QED
    BY <1>5, <1>12, <2>1, Zenon DEF CompleteService
<1>15. f.enqueued = e2
  BY <1>13 DEF St
<1>16. PICK p3 :
           /\ e2[h] = <<>> => p3 = p2
           /\ e2[h] # <<>> =>
                 p3 = SourceIsPending(p2, endtime, t + DrainTime(h, Head(e2[h])), Queue(h))
  OBVIOUS
<1>17. CompleteService(s, h, t) = St(p3, e2, q2, i2, l2, d, v)
  <2>1. CASE e2[h] = <<>>
    BY <1>13, <1>14, <1>15, <1>16, <2>1, Zenon
  <2>2. CASE e2[h] # <<>>
    <3>1. BeginService(f, h, t) = Schedule(f, t + DrainTime(h, Head(e2[h])), Queue(h))
      BY <1>15, Zenon DEF BeginService
    <3>2. BeginService(f, h, t) = St(p3, e2, q2, i2, l2, d, v)
      BY <1>13, <1>16, <2>2, <3>1, ScheduleIs
    <3> QED
      BY <1>14, <1>15, <2>2, <3>2, Zenon
  <2> QED
    BY <2>1, <2>2
<1>18. CompleteService(St(p, e, q, i, l, d, v), h, t) =
           St(p3, e2, q2, i2, Told(l, h, "PKT_SERVICE", q2[h], x, t), d, v)
  BY <1>1, <1>7, <1>17, Zenon
<1> QED
  BY <1>3, <1>4, <1>9, <1>11, <1>16, <1>18, Zenon DEF ServedAs

\* What is left of a pipe and of the events when a packet has left it.
Resumed(p, i, h, i2, p2) ==
    /\ i2 = [i EXCEPT ![h] = Tail(@)]
    /\ i2[h] = <<>> => p2 = p
    /\ i2[h] # <<>> => p2 = SourceIsPending(p, endtime, Head(i2[h]).due, Pipe(h))

ResumedAs(p, e, q, i, l, d, v, h, t, early, i2, p1, e2, q2, l2, d2, v2) ==
    \E p2 : /\ PipeEvent(St(p, e, q, i, l, d, v), h, t, early) =
                   St(p2, e2, q2, i2, l2, d2, v2)
            /\ Resumed(p1, i, h, i2, p2)

\* Pipe::doNextEvent, given what the next queue made of the packet.
LEMMA PipeEventIs ==
    ASSUME NEW p, NEW e, NEW q, NEW i, NEW l, NEW d, NEW v,
           NEW h, h \in DOMAIN i, i[h] # <<>>, NEW t, NEW early,
           NEW i2, i2 = [i EXCEPT ![h] = Tail(@)],
           NEW p1, NEW e2, NEW q2, NEW l2, NEW d2, NEW v2,
           SendOn(St(p, e, q, i2, l, d, v), h, Head(i[h]).pkt, t, early) =
               St(p1, e2, q2, i2, l2, d2, v2)
    PROVE  ResumedAs(p, e, q, i, l, d, v, h, t, early, i2, p1, e2, q2, l2, d2, v2)
<1>1. PICK s : s = St(p, e, q, i, l, d, v)
  OBVIOUS
<1>2. s.inflight = i
  BY <1>1 DEF St
<1>3. PICK a : a = [s EXCEPT !.inflight[h] = Tail(@)]
  OBVIOUS
<1>4. a = St(p, e, q, i2, l, d, v)
  <2>1. a = [z \in Fields |-> a[z]]
    BY <1>1, <1>3 DEF St, Fields
  <2>2. /\ a.pending = p /\ a.enqueued = e /\ a.queuesize = q /\ a.log = l
        /\ a.dropped = d /\ a.delivered = v
    BY <1>1, <1>3 DEF St
  <2>3. a.inflight = i2
    BY <1>1, <1>3 DEF St
  <2> QED
    BY <2>1, <2>2, <2>3 DEF St, Fields
<1>5. PICK f : f = SendOn(a, h, Head(s.inflight[h]).pkt, t, early)
  OBVIOUS
<1>6. f = St(p1, e2, q2, i2, l2, d2, v2)
  BY <1>2, <1>4, <1>5, Zenon
<1>7. f.inflight = i2
  BY <1>6 DEF St
<1>8. PipeEvent(s, h, t, early) =
          IF f.inflight[h] = <<>> THEN f ELSE Schedule(f, NextDue(f, h, t), Pipe(h))
  <2>1. s.inflight[h] # <<>>
    BY <1>2
  <2> QED
    BY <1>3, <1>5, <2>1, Zenon DEF PipeEvent
<1>9. PICK p2 : /\ i2[h] = <<>> => p2 = p1
                /\ i2[h] # <<>> =>
                      p2 = SourceIsPending(p1, endtime, Head(i2[h]).due, Pipe(h))
  OBVIOUS
<1>10. PipeEvent(s, h, t, early) = St(p2, e2, q2, i2, l2, d2, v2)
  <2>1. CASE i2[h] = <<>>
    BY <1>6, <1>7, <1>8, <1>9, <2>1, Zenon
  <2>2. CASE i2[h] # <<>>
    <3>1. NextDue(f, h, t) = Head(i2[h]).due
      BY <1>7, Zenon DEF NextDue
    <3>2. Schedule(f, Head(i2[h]).due, Pipe(h)) = St(p2, e2, q2, i2, l2, d2, v2)
      BY <1>6, <1>9, <2>2, ScheduleIs
    <3> QED
      BY <1>7, <1>8, <2>2, <3>1, <3>2, Zenon
  <2> QED
    BY <2>1, <2>2
<1>11. Resumed(p1, i, h, i2, p2)
  BY <1>9, Zenon DEF Resumed
<1> QED
  BY <1>1, <1>10, <1>11, Zenon DEF ResumedAs

----------------------------------------------------------------------------
(* What a queue and a pipe hold, and when it leaves. *)

\* Every packet has bytes.
LEMMA PacketSize == \A x \in Packet : x.size \in Nat /\ x.size > 0
<1> SUFFICES ASSUME NEW x \in Packet PROVE x.size \in Nat /\ x.size > 0
  OBVIOUS
<1>1. x.size \in Sizes
  BY DEF Packet
<1>2. Sizes \subseteq Nat \ {0}
  BY LinkAssumption
<1>3. x.size \in Nat \ {0}
  BY <1>1, <1>2, Zenon
<1>4. \A n \in Nat \ {0} : n \in Nat /\ n > 0
  OBVIOUS
<1> QED
  BY <1>3, <1>4, Zenon

\* Multiplication from the right distributes, too.
LEMMA Scale ==
    \A a, b, m \in Nat : /\ (a + b) * m = a * m + b * m
                         /\ (a - b) * m = a * m - b * m
                         /\ a * m \in Nat
                         /\ a <= b => a * m <= b * m
<1> SUFFICES ASSUME NEW a \in Nat, NEW b \in Nat, NEW m \in Nat
             PROVE  /\ (a + b) * m = a * m + b * m
                    /\ (a - b) * m = a * m - b * m
                    /\ a * m \in Nat
                    /\ a <= b => a * m <= b * m
  OBVIOUS
<1>1. a <= b => a * m <= b * m
  BY Mono
<1> QED
  BY <1>1, Z3

\* Bytes in a queue, as packets join and leave it.
LEMMA SizeIs ==
    ASSUME NEW e \in Seq(Packet)
    PROVE  /\ SizeOf(e) \in Nat
           /\ e = <<>> <=> SizeOf(e) = 0
           /\ \A x \in Packet : SizeOf(Append(e, x)) = SizeOf(e) + x.size
           /\ e # <<>> => /\ SizeOf(Tail(e)) \in Nat
                          /\ SizeOf(e) = Head(e).size + SizeOf(Tail(e))
<1>1. \A x \in Packet : x.size \in Nat /\ x.size > 0
  BY PacketSize
<1>2. \E b, c, s \in [Packet -> Nat] : Weigh(Packet, 0, b, c, s)
  BY <1>1, Weights
<1>3. PICK s \in [Packet -> Nat] : /\ \A x \in Packet : s[x] = x.size
                                   /\ \A q \in Seq(Packet) : SizeOf(q) = Over(q, s)
  BY <1>2 DEF Weigh
<1>4. SizeOf(e) = Over(e, s) /\ Over(e, s) \in Nat
  BY <1>3, OverType
<1>5. ASSUME e = <<>> PROVE SizeOf(e) = 0
  BY <1>4, <1>5, OverEmpty, Zenon
<1>6. ASSUME e # <<>>
      PROVE  /\ SizeOf(e) # 0 /\ SizeOf(Tail(e)) \in Nat
             /\ SizeOf(e) = Head(e).size + SizeOf(Tail(e))
  <2>1. Head(e) \in Packet /\ Tail(e) \in Seq(Packet)
    BY <1>6, HeadTailProperties
  <2>2. /\ Over(e, s) = s[Head(e)] + Over(Tail(e), s)
        /\ s[Head(e)] \in Nat /\ Over(Tail(e), s) \in Nat
    BY <1>6, OverTail
  <2>3. s[Head(e)] = Head(e).size /\ SizeOf(Tail(e)) = Over(Tail(e), s)
    BY <1>3, <2>1, Zenon
  <2>4. Head(e).size > 0
    BY <1>1, <2>1
  <2> QED
    BY <1>4, <2>2, <2>3, <2>4
<1>7. ASSUME NEW x \in Packet PROVE SizeOf(Append(e, x)) = SizeOf(e) + x.size
  <2>1. Over(Append(e, x), s) = Over(e, s) + s[x] /\ Append(e, x) \in Seq(Packet)
    BY OverAppend
  <2>2. SizeOf(Append(e, x)) = Over(Append(e, x), s) /\ s[x] = x.size
    BY <1>3, <2>1, Zenon
  <2> QED
    BY <1>4, <2>1, <2>2
<1> QED
  BY <1>4, <1>5, <1>6, <1>7

\* The packets e of a queue that takes m for a byte, n bytes in all, and the
\* times d at which each will have been sent, seen at time t.
Line(m, e, n, d, t) ==
    /\ e \in Seq(Packet) /\ d \in Seq(Nat) /\ Len(d) = Len(e)
    /\ n = SizeOf(e)
    /\ \A j, k \in 1 .. Len(e) : k = j + 1 => d[k] = d[j] + e[k].size * m
    /\ e # <<>> => /\ d[Len(e)] + e[1].size * m = d[1] + n * m
                   /\ t <= d[1] /\ d[1] <= t + e[1].size * m

\* When a packet that joins the queue at time t will have been sent.
LastOf(d, t) == IF d = <<>> THEN t ELSE d[Len(d)]

\* An empty queue counts no bytes.
LEMMA LineEmpty ==
    ASSUME NEW m, NEW n, NEW d, NEW t, Line(m, <<>>, n, d, t)
    PROVE  d = <<>> /\ n = 0
<1>1. <<>> \in Seq(Packet)
  OBVIOUS
<1>2. SizeOf(<<>>) = 0
  BY <1>1, SizeIs
<1>3. n = SizeOf(<<>>) /\ d \in Seq(Nat) /\ Len(d) = Len(<<>>)
  BY DEF Line
<1> QED
  BY <1>2, <1>3

\* The departure times stay right while none is over.
LEMMA LineAges ==
    ASSUME NEW m \in Nat, NEW e, NEW n, NEW d, NEW t \in Nat, NEW u \in Nat,
           Line(m, e, n, d, t), t <= u, e # <<>> => u <= d[1]
    PROVE  Line(m, e, n, d, u)
<1>1. CASE e = <<>>
  BY <1>1 DEF Line
<1>2. CASE e # <<>>
  <2>1. 1 \in 1 .. Len(e) /\ e[1] \in Packet /\ d[1] \in Nat
    BY <1>2 DEF Line
  <2>2. e[1].size \in Nat /\ e[1].size * m \in Nat
    BY <2>1, PacketSize
  <2>3. PICK w \in Nat : w = e[1].size * m
    BY <2>2
  <2>4. t <= d[1] /\ d[1] <= t + w
    BY <1>2, <2>3 DEF Line
  <2>5. u <= d[1] /\ d[1] <= u + w
    BY <1>2, <2>1, <2>4
  <2> QED
    BY <2>3, <2>5 DEF Line
<1> QED
  BY <1>1, <1>2

\* A packet that joins the queue leaves a drain time after the last one,
\* within the time that all bytes of the queue take.
LEMMA LineJoins ==
    ASSUME NEW m \in Nat, NEW e, NEW n, NEW d, NEW t \in Nat, Line(m, e, n, d, t),
           NEW x \in Packet, NEW last, last = LastOf(d, t) + x.size * m
    PROVE  /\ Line(m, Append(e, x), n + x.size, Append(d, last), t)
           /\ last \in Nat /\ t + x.size * m <= last
           /\ n \in Nat /\ last <= t + (n + x.size) * m
           /\ e # <<>> => Append(d, last)[1] = d[1] /\ Append(e, x)[1] = e[1]
           /\ e = <<>> => Append(d, last)[1] = t + x.size * m /\ Append(e, x)[1] = x
<1>1. PICK k \in Nat : k = Len(e)
  BY DEF Line
<1>2. /\ e \in Seq(Packet) /\ d \in Seq(Nat) /\ Len(d) = k
      /\ n = SizeOf(e) /\ n \in Nat /\ (e = <<>> <=> k = 0) /\ (d = <<>> <=> k = 0)
      /\ \A j \in 1 .. k : d[j] \in Nat /\ e[j] \in Packet
  BY <1>1, SizeIs DEF Line
<1>3. x.size \in Nat /\ \A y \in Packet : y.size \in Nat
  BY PacketSize
<1>4. PICK w \in Nat : w = x.size * m
  BY <1>3
<1>5. PICK v \in Nat : v = n * m
  BY <1>2
<1>6. (n + x.size) * m = v + w
  BY <1>2, <1>3, <1>4, <1>5, Scale
<1>7. ASSUME k # 0
      PROVE  \E f \in Nat : /\ d[k] \in Nat /\ t <= d[k] /\ d[k] <= t + v
                            /\ d[1] \in Nat /\ f = e[1].size * m
                            /\ d[k] + f = d[1] + v
                            /\ t <= d[1] /\ d[1] <= t + f
  <2>1. 1 \in 1 .. k /\ k \in 1 .. k
    BY <1>7
  <2>2. e[1].size \in Nat /\ d[1] \in Nat /\ d[k] \in Nat
    BY <1>2, <1>3, <2>1
  <2>3. PICK c \in Nat : c = e[1].size
    BY <2>2
  <2>4. PICK f \in Nat : f = c * m
    OBVIOUS
  <2>5. f = e[1].size * m
    BY <2>3, <2>4
  <2>6. d[k] + f = d[1] + v /\ t <= d[1] /\ d[1] <= t + f
    BY <1>1, <1>2, <1>5, <1>7, <2>5 DEF Line
  <2>7. c <= n
    <3>1. e[1] = Head(e)
      BY <1>2, <1>7
    <3>2. SizeOf(e) = Head(e).size + SizeOf(Tail(e)) /\ SizeOf(Tail(e)) \in Nat
      BY <1>2, <1>7, SizeIs
    <3> QED
      BY <1>2, <2>3, <3>1, <3>2
  <2>8. f <= v
    <3>1. c <= n => c * m <= n * m
      BY <1>2, Scale
    <3> QED
      BY <1>5, <2>4, <2>7, <3>1
  <2> QED
    BY <2>2, <2>5, <2>6, <2>8
<1>8. /\ last \in Nat /\ t + w <= last /\ last <= t + v + w
      /\ k # 0 => last = d[k] + w
      /\ k = 0 => last = t + w
  <2>1. CASE k = 0
    BY <1>2, <1>4, <2>1 DEF LastOf
  <2>2. CASE k # 0
    <3>1. d[k] \in Nat /\ t <= d[k] /\ d[k] <= t + v
      BY <1>7, <2>2
    <3>2. last = d[k] + w
      BY <1>2, <1>4, <2>2 DEF LastOf
    <3> QED
      BY <2>2, <3>1, <3>2
  <2> QED
    BY <2>1, <2>2
<1>9. PICK e2 : e2 = Append(e, x)
  OBVIOUS
<1>10. PICK d2 : d2 = Append(d, last)
  OBVIOUS
<1>11. /\ e2 \in Seq(Packet) /\ Len(e2) = k + 1 /\ e2[k + 1] = x /\ e2 # <<>>
       /\ \A j \in 1 .. k : e2[j] = e[j]
  <2>1. e \in Seq(Packet) /\ Len(e) = k
    BY <1>1, <1>2
  <2>2. /\ Append(e, x) \in Seq(Packet) /\ Len(Append(e, x)) = Len(e) + 1
        /\ Append(e, x)[Len(e) + 1] = x
        /\ \A j \in 1 .. Len(e) : Append(e, x)[j] = e[j]
    BY <2>1, AppendProperties
  <2>3. /\ e2 \in Seq(Packet) /\ Len(e2) = k + 1 /\ e2[k + 1] = x
        /\ \A j \in 1 .. k : e2[j] = e[j]
    BY <1>9, <2>1, <2>2, Zenon
  <2> QED
    BY <2>3
<1>12. /\ d2 \in Seq(Nat) /\ Len(d2) = k + 1 /\ d2[k + 1] = last
       /\ \A j \in 1 .. k : d2[j] = d[j]
  BY <1>2, <1>8, <1>10, AppendProperties
<1>13. n + x.size = SizeOf(e2)
  BY <1>2, <1>9, SizeIs
<1>14. ASSUME NEW i \in 1 .. k + 1, NEW j \in 1 .. k + 1, j = i + 1
       PROVE  d2[j] = d2[i] + e2[j].size * m
  <2>1. i \in 1 .. k
    BY <1>14
  <2>2. CASE j = k + 1
    <3>1. i = k /\ k # 0
      BY <1>14, <2>1, <2>2
    <3> QED
      BY <1>4, <1>8, <1>11, <1>12, <2>1, <2>2, <3>1, Zenon
  <2>3. CASE j # k + 1
    <3>1. j \in 1 .. k
      BY <1>14, <2>3
    <3>2. d[j] = d[i] + e[j].size * m
      BY <1>1, <1>14, <2>1, <3>1 DEF Line
    <3> QED
      BY <1>11, <1>12, <2>1, <3>1, <3>2, Zenon
  <2> QED
    BY <2>2, <2>3
<1>15. PICK nw \in Nat : nw = n + x.size /\ nw * m = v + w
  BY <1>2, <1>3, <1>6
<1>16. ASSUME \E f \in Nat : /\ f = e2[1].size * m /\ d2[k + 1] + f = d2[1] + (v + w)
                             /\ t <= d2[1] /\ d2[1] <= t + f
       PROVE  Line(m, e2, nw, d2, t)
  <2>1. d2[Len(e2)] + e2[1].size * m = d2[1] + nw * m
    BY <1>11, <1>15, <1>16
  <2>2. t <= d2[1] /\ d2[1] <= t + e2[1].size * m
    BY <1>16
  <2>3. nw = SizeOf(e2)
    BY <1>13, <1>15
  <2> QED
    BY <1>11, <1>12, <1>14, <2>1, <2>2, <2>3 DEF Line
<1>17. /\ Line(m, e2, nw, d2, t)
       /\ e # <<>> => d2[1] = d[1] /\ e2[1] = e[1]
       /\ e = <<>> => d2[1] = t + w /\ e2[1] = x
  <2>1. CASE k = 0
    <3>1. e2[1] = x /\ d2[1] = last /\ last = t + w /\ d2[k + 1] = last
      BY <1>8, <1>11, <1>12, <2>1
    <3>2. v = 0
      <4>1. n = 0
        BY <1>2, <2>1, SizeIs
      <4>2. 0 * m = 0
        OBVIOUS
      <4> QED
        BY <1>5, <4>1, <4>2
    <3>3. w = e2[1].size * m /\ d2[k + 1] + w = d2[1] + (v + w)
      BY <1>4, <1>8, <3>1, <3>2
    <3>4. t <= d2[1] /\ d2[1] <= t + w
      BY <3>1
    <3> QED
      BY <1>2, <1>16, <2>1, <3>1, <3>3, <3>4
  <2>2. CASE k # 0
    <3>1. 1 \in 1 .. k /\ e2[1] = e[1] /\ d2[1] = d[1] /\ d2[k + 1] = d[k] + w
      BY <1>8, <1>11, <1>12, <2>2
    <3>2. PICK f \in Nat : /\ f = e[1].size * m /\ d[k] + f = d[1] + v
                           /\ t <= d[1] /\ d[1] <= t + f
                           /\ d[k] \in Nat /\ d[1] \in Nat
      BY <1>7, <2>2
    <3>3. d2[k + 1] + f = d2[1] + (v + w) /\ t <= d2[1] /\ d2[1] <= t + f
      BY <3>1, <3>2
    <3>4. f = e2[1].size * m
      BY <3>1, <3>2
    <3> QED
      BY <1>2, <1>16, <2>2, <3>1, <3>3, <3>4
  <2> QED
    BY <2>1, <2>2
<1>18. last <= t + nw * m
  BY <1>8, <1>15
<1> QED
  BY <1>2, <1>4, <1>8, <1>9, <1>10, <1>15, <1>17, <1>18

\* The first packet leaves at its time; the next one starts its drain time
\* then, and the byte count is zero only when the queue is empty.
LEMMA LineLeaves ==
    ASSUME NEW m \in Nat, NEW e, NEW n, NEW d, NEW t \in Nat, Line(m, e, n, d, t),
           e # <<>>, t = d[1]
    PROVE  /\ Line(m, Tail(e), n - Head(e).size, Tail(d), t)
           /\ n - Head(e).size \in Nat
           /\ Head(e) \in Packet
           /\ Tail(e) # <<>> => Tail(d)[1] = t + Head(Tail(e)).size * m
           /\ Tail(e) = <<>> <=> n - Head(e).size = 0
<1>1. PICK k \in Nat : k = Len(e)
  BY DEF Line
<1>2. /\ e \in Seq(Packet) /\ d \in Seq(Nat) /\ Len(d) = k /\ d # <<>>
      /\ n = SizeOf(e) /\ n \in Nat /\ k # 0
      /\ \A j \in 1 .. k : d[j] \in Nat /\ e[j] \in Packet
  BY <1>1, SizeIs DEF Line
<1>3. PICK x : x = Head(e)
  OBVIOUS
<1>4. PICK e2, d2 : e2 = Tail(e) /\ d2 = Tail(d)
  OBVIOUS
<1>5. /\ x \in Packet /\ x = e[1] /\ e2 \in Seq(Packet) /\ Len(e2) = k - 1
      /\ \A j \in 1 .. k - 1 : e2[j] = e[j + 1]
  BY <1>1, <1>2, <1>3, <1>4, HeadTailProperties
<1>6. /\ d2 \in Seq(Nat) /\ Len(d2) = k - 1
      /\ \A j \in 1 .. k - 1 : d2[j] = d[j + 1]
  BY <1>2, <1>4, HeadTailProperties
<1>7. n - x.size = SizeOf(e2) /\ SizeOf(e2) \in Nat /\ x.size \in Nat
  <2>1. SizeOf(e) = x.size + SizeOf(e2) /\ SizeOf(e2) \in Nat
    BY <1>2, <1>3, <1>4, SizeIs
  <2>2. x.size \in Nat
    BY <1>5, PacketSize
  <2> QED
    BY <1>2, <2>1, <2>2
<1>8. e2 = <<>> <=> SizeOf(e2) = 0
  BY <1>5, SizeIs
<1>9. ASSUME NEW i \in 1 .. k - 1, NEW j \in 1 .. k - 1, j = i + 1
      PROVE  d2[j] = d2[i] + e2[j].size * m
  <2>1. /\ i + 1 \in 1 .. k /\ j + 1 \in 1 .. k /\ j + 1 = (i + 1) + 1
    BY <1>9
  <2>2. d[j + 1] = d[i + 1] + e[j + 1].size * m
    BY <1>1, <2>1 DEF Line
  <2> QED
    BY <1>5, <1>6, <2>2, Zenon
<1>10. ASSUME e2 # <<>>
       PROVE  \E w \in Nat : /\ w = e2[1].size * m
                             /\ d2[k - 1] + w = d2[1] + (n - x.size) * m
                             /\ d2[1] = t + w /\ t <= d2[1]
                             /\ e2[1] = Head(e2)
  <2>1. 1 \in 1 .. k - 1 /\ k - 1 \in 1 .. k - 1 /\ 1 \in 1 .. k /\ 2 \in 1 .. k
        /\ k \in 1 .. k
    BY <1>2, <1>5, <1>10
  <2>2. e2[1] = e[2] /\ d2[1] = d[2] /\ d2[k - 1] = d[k]
    <3>1. 1 + 1 = 2 /\ k - 1 + 1 = k
      OBVIOUS
    <3> QED
      BY <1>5, <1>6, <2>1, <3>1
  <2>3. PICK c \in Nat : c = e2[1].size
    BY <1>2, <2>1, <2>2, PacketSize
  <2>4. PICK w \in Nat : w = c * m
    OBVIOUS
  <2>5. d[2] = d[1] + w
    BY <1>1, <2>1, <2>2, <2>3, <2>4 DEF Line
  <2>6. PICK n2 \in Nat : n2 = n - x.size
    BY <1>7
  <2>7. PICK b \in Nat : b = x.size
    BY <1>7
  <2>8. n * m = n2 * m + b * m /\ b * m \in Nat /\ n2 * m \in Nat
    <3>1. (n2 + b) * m = n2 * m + b * m /\ b * m \in Nat /\ n2 * m \in Nat
      BY Scale
    <3>2. n2 + b = n
      BY <1>2, <2>6, <2>7
    <3> QED
      BY <3>1, <3>2
  <2>9. PICK y \in Nat, z \in Nat : y = b * m /\ z = n2 * m
    BY <2>8
  <2>10. d[k] + y = d[1] + (z + y)
    <3>1. d[Len(e)] + e[1].size * m = d[1] + n * m
      BY <1>2 DEF Line
    <3>2. e[1].size * m = y /\ n * m = z + y
      BY <1>5, <2>7, <2>8, <2>9
    <3> QED
      BY <1>1, <3>1, <3>2
  <2>11. d[1] \in Nat /\ d[2] \in Nat /\ d[k] \in Nat
    BY <1>2, <2>1
  <2>12. d[k] + w = d[2] + z
    <3>1. PICK a \in Nat, b1 \in Nat, b2 \in Nat : a = d[1] /\ b1 = d[2] /\ b2 = d[k]
      BY <2>11
    <3>2. b1 = a + w /\ b2 + y = a + (z + y)
      BY <2>5, <2>10, <3>1
    <3>3. b2 + w = b1 + z
      BY <3>2
    <3> QED
      BY <3>1, <3>3
  <2>13. e2[1] = Head(e2)
    BY <1>5, <1>10
  <2>14. w = e2[1].size * m
    BY <2>3, <2>4
  <2>15. d2[k - 1] + w = d2[1] + (n - x.size) * m
    BY <2>2, <2>6, <2>9, <2>12
  <2>16. d2[1] = t + w /\ t <= d2[1]
    BY <2>2, <2>5, <2>11
  <2> QED
    BY <2>13, <2>14, <2>15, <2>16
<1>11. Line(m, e2, n - x.size, d2, t)
  <2>1. e2 # <<>> => /\ d2[Len(e2)] + e2[1].size * m = d2[1] + (n - x.size) * m
                     /\ t <= d2[1] /\ d2[1] <= t + e2[1].size * m
    <3> SUFFICES ASSUME e2 # <<>>
                 PROVE  /\ d2[k - 1] + e2[1].size * m = d2[1] + (n - x.size) * m
                        /\ t <= d2[1] /\ d2[1] <= t + e2[1].size * m
      BY <1>5
    <3>1. d2[1] \in Nat
      BY <1>5, <1>6
    <3> QED
      BY <1>10, <3>1
  <2> QED
    BY <1>5, <1>6, <1>7, <1>9, <2>1 DEF Line
<1> QED
  BY <1>3, <1>4, <1>5, <1>7, <1>8, <1>10, <1>11

\* The packets of a pipe are due in order, within its delay.
Flight(m, i, t) ==
    /\ i \in Seq(Slot)
    /\ \A j \in 1 .. Len(i) : t <= i[j].due /\ i[j].due <= t + m
    /\ \A j, k \in 1 .. Len(i) : j < k => i[j].due <= i[k].due

\* The due times of a pipe stay right while none is over.
LEMMA FlightAges ==
    ASSUME NEW m \in Nat, NEW i, NEW t \in Nat, NEW u \in Nat,
           Flight(m, i, t), t <= u, i # <<>> => u <= i[1].due
    PROVE  Flight(m, i, u)
<1>1. ASSUME NEW j \in 1 .. Len(i) PROVE u <= i[j].due /\ i[j].due <= u + m
  <2>1. i \in Seq(Slot) /\ i # <<>> /\ 1 \in 1 .. Len(i)
    BY DEF Flight
  <2>2. i[j].due \in Nat /\ i[1].due \in Nat
    <3>1. i[j] \in Slot /\ i[1] \in Slot
      BY <2>1
    <3>2. \A y \in Slot : y.due \in Nat
      BY DEF Slot
    <3> QED
      BY <3>1, <3>2
  <2>3. i[1].due <= i[j].due
    <3>1. CASE j = 1
      BY <2>2, <3>1
    <3>2. CASE j # 1
      <4>1. 1 < j
        BY <3>2
      <4> QED
        BY <2>1, <4>1 DEF Flight
    <3> QED
      BY <3>1, <3>2
  <2>4. t <= i[j].due /\ i[j].due <= t + m
    BY DEF Flight
  <2> QED
    BY <2>1, <2>2, <2>3, <2>4
<1> QED
  BY <1>1 DEF Flight

\* A packet that enters a pipe is due last, a delay from now.
LEMMA FlightJoins ==
    ASSUME NEW m \in Nat, NEW i, NEW t \in Nat, Flight(m, i, t), NEW x \in Packet
    PROVE  /\ Flight(m, Append(i, [due |-> t + m, pkt |-> x]), t)
           /\ i # <<>> => Append(i, [due |-> t + m, pkt |-> x])[1] = i[1]
           /\ i = <<>> => Append(i, [due |-> t + m, pkt |-> x])[1].due = t + m
<1>1. PICK y : y = [due |-> t + m, pkt |-> x]
  OBVIOUS
<1>2. y \in Slot /\ y.due = t + m /\ t + m \in Nat
  BY <1>1 DEF Slot
<1>3. PICK i2 : i2 = Append(i, y)
  OBVIOUS
<1>4. PICK k \in Nat : k = Len(i)
  BY DEF Flight
<1>5. /\ i \in Seq(Slot) /\ i2 \in Seq(Slot) /\ Len(i2) = k + 1 /\ i2[k + 1] = y
      /\ \A j \in 1 .. k : i2[j] = i[j] /\ i[j] \in Slot
  BY <1>2, <1>3, <1>4, AppendProperties DEF Flight
<1>6. ASSUME NEW j \in 1 .. k
      PROVE  t <= i[j].due /\ i[j].due <= t + m /\ i[j].due \in Nat
  BY <1>4, <1>5 DEF Flight, Slot
<1>7. ASSUME NEW j \in 1 .. k + 1
      PROVE  t <= i2[j].due /\ i2[j].due <= t + m /\ i2[j].due \in Nat
  <2>1. CASE j = k + 1
    BY <1>2, <1>5, <2>1
  <2>2. CASE j # k + 1
    <3>1. j \in 1 .. k
      BY <2>2
    <3>2. i2[j] = i[j]
      BY <1>5, <3>1
    <3>3. t <= i[j].due /\ i[j].due <= t + m /\ i[j].due \in Nat
      BY <1>6, <3>1
    <3> QED
      BY <3>2, <3>3
  <2> QED
    BY <2>1, <2>2
<1>8. ASSUME NEW j \in 1 .. k + 1, NEW l \in 1 .. k + 1, j < l
      PROVE  i2[j].due <= i2[l].due
  <2>1. j \in 1 .. k
    BY <1>8
  <2>2. CASE l = k + 1
    <3>1. i2[l].due = t + m
      BY <1>2, <1>5, <2>2
    <3>2. i2[j].due <= t + m
      BY <1>7
    <3> QED
      BY <3>1, <3>2
  <2>3. CASE l # k + 1
    <3>1. l \in 1 .. k
      BY <2>3
    <3>2. i[j].due <= i[l].due
      BY <1>4, <1>8, <2>1, <3>1 DEF Flight
    <3> QED
      BY <1>5, <2>1, <3>1, <3>2, Zenon
  <2> QED
    BY <2>2, <2>3
<1>9. Flight(m, i2, t)
  BY <1>5, <1>7, <1>8 DEF Flight
<1>10. i # <<>> => i2[1] = i[1]
  BY <1>4, <1>5
<1>11. i = <<>> => i2[1].due = t + m
  <2> SUFFICES ASSUME i = <<>> PROVE i2[1].due = t + m
    OBVIOUS
  <2>1. k = 0 /\ k + 1 = 1
    BY <1>4
  <2> QED
    BY <1>2, <1>5, <2>1
<1> QED
  BY <1>1, <1>3, <1>9, <1>10, <1>11

\* When the first packet leaves the pipe the next one is not overdue.
LEMMA FlightLeaves ==
    ASSUME NEW m \in Nat, NEW i, NEW t \in Nat, Flight(m, i, t), i # <<>>
    PROVE  /\ Flight(m, Tail(i), t)
           /\ Head(i) \in Slot /\ Head(i) = i[1]
           /\ Tail(i) # <<>> => /\ Head(Tail(i)) = Tail(i)[1]
                                /\ Tail(i)[1].due \in Nat /\ t <= Tail(i)[1].due
<1>1. PICK k \in Nat : k = Len(i)
  BY DEF Flight
<1>2. PICK i2 : i2 = Tail(i)
  OBVIOUS
<1>3. /\ i \in Seq(Slot) /\ i2 \in Seq(Slot) /\ Len(i2) = k - 1 /\ k # 0
      /\ Head(i) \in Slot /\ Head(i) = i[1]
      /\ \A j \in 1 .. k - 1 : i2[j] = i[j + 1]
  BY <1>1, <1>2, HeadTailProperties DEF Flight
<1>4. \A j \in 1 .. k - 1 : j + 1 \in 1 .. k
  BY <1>3
<1>5. ASSUME NEW j \in 1 .. k - 1
      PROVE  t <= i2[j].due /\ i2[j].due <= t + m /\ i2[j].due \in Nat
  <2>1. j + 1 \in 1 .. k /\ i2[j] = i[j + 1] /\ i2[j] \in Slot
    BY <1>3, <1>4
  <2>2. t <= i[j + 1].due /\ i[j + 1].due <= t + m
    BY <1>1, <2>1 DEF Flight
  <2> QED
    BY <2>1, <2>2 DEF Slot
<1>6. ASSUME NEW j \in 1 .. k - 1, NEW l \in 1 .. k - 1, j < l
      PROVE  i2[j].due <= i2[l].due
  <2>1. j + 1 \in 1 .. k /\ l + 1 \in 1 .. k /\ j + 1 < l + 1
    BY <1>4, <1>6
  <2>2. i[j + 1].due <= i[l + 1].due
    BY <1>1, <2>1 DEF Flight
  <2> QED
    BY <1>3, <2>2, Zenon
<1>7. Flight(m, i2, t)
  BY <1>3, <1>5, <1>6 DEF Flight
<1>8. ASSUME i2 # <<>>
      PROVE  /\ Head(i2) = i2[1] /\ i2[1].due \in Nat /\ t <= i2[1].due
  <2>1. 1 \in 1 .. k - 1
    BY <1>3, <1>8
  <2> QED
    BY <1>3, <1>5, <1>8, <2>1
<1> QED
  BY <1>2, <1>3, <1>7, <1>8

----------------------------------------------------------------------------
(* The route in order. *)

\* Hop h at time t: what its queue and its pipe hold, and their events.
QueueOk(p, h, e, n, d, t) ==
    /\ Line(PsPerByte[h], e, n, d, t)
    /\ IF e = <<>> THEN NoneFor(p, Queue(h)) ELSE Due(p, Queue(h), d[1])
PipeOk(p, h, i, t) ==
    /\ Flight(Delay[h], i, t)
    /\ IF i = <<>> THEN NoneFor(p, Pipe(h)) ELSE Due(p, Pipe(h), i[1].due)

\* The route at time t, but for the server whose event is being handled.
HeldBut(p, e, q, i, d, t, src) ==
    /\ t \in Nat /\ endtime \in Nat /\ Kept(p, t)
    /\ e \in [HopSet -> Seq(Packet)] /\ q \in [HopSet -> Nat]
    /\ i \in [HopSet -> Seq(Slot)] /\ d \in [HopSet -> Seq(Nat)]
    /\ \A h \in HopSet : Queue(h) # src => QueueOk(p, h, e[h], q[h], d[h], t)
    /\ \A h \in HopSet : Pipe(h) # src => PipeOk(p, h, i[h], t)

Held(d) == HeldBut(pending, enqueued, queuesize, inflight, d, now, Source)

\* The events of r are those of p, but for source src.
Spares(p, r, src) ==
    \A o : o # src => /\ NoneFor(p, o) => NoneFor(r, o)
                      /\ \A a : OneFor(p, o, a) => OneFor(r, o, a)

\* Servers are told apart by their names.
LEMMA Names ==
    \A g, h \in HopSet :
        /\ Queue(g) # Pipe(h) /\ Queue(g) # Source /\ Pipe(g) # Source
        /\ Queue(g) # Logger /\ Pipe(g) # Logger
        /\ Queue(g) = Queue(h) => g = h
        /\ Pipe(g) = Pipe(h) => g = h
        /\ Queue(g) \in Sources /\ Pipe(g) \in Sources
        /\ Source \in Sources /\ Logger \in Sources
BY DEF Queue, Pipe, Source, Logger, Sources, Servers

\* The rates, delays and buffers of the hops are numbers.
LEMMA Rates ==
    \A h \in HopSet : PsPerByte[h] \in Nat /\ Delay[h] \in Nat /\ MaxSize[h] \in Nat
BY LinkAssumption

\* Scheduling a source keeps the list in order, spares the events of the
\* other sources, and gives the source its event unless it is too late.
LEMMA Scheduled ==
    ASSUME NEW p, NEW t \in Nat, Kept(p, t), endtime \in Nat,
           NEW at \in Nat, t <= at, NEW src \in Sources,
           NEW r, r = SourceIsPending(p, endtime, at, src)
    PROVE  /\ Kept(r, t) /\ Spares(p, r, src)
           /\ NoneFor(p, src) => Due(r, src, at)
BY EventAdded DEF Spares

\* What another source's event does to a server's: nothing.
LEMMA StillDue ==
    ASSUME NEW p, NEW r, NEW src, Spares(p, r, src), NEW o, o # src
    PROVE  /\ NoneFor(p, o) => NoneFor(r, o)
           /\ \A a : Due(p, o, a) => Due(r, o, a)
BY DEF Spares, Due

\* Another source's event leaves a queue's bookkeeping right.
LEMMA QueueSpared ==
    ASSUME NEW p, NEW r, NEW src, Spares(p, r, src), NEW h, Queue(h) # src,
           NEW e, NEW n, NEW d, NEW t, QueueOk(p, h, e, n, d, t)
    PROVE  QueueOk(r, h, e, n, d, t)
BY StillDue, Zenon DEF QueueOk

\* Another source's event leaves a pipe's bookkeeping right.
LEMMA PipeSpared ==
    ASSUME NEW p, NEW r, NEW src, Spares(p, r, src), NEW h, Pipe(h) # src,
           NEW i, NEW t, PipeOk(p, h, i, t)
    PROVE  PipeOk(r, h, i, t)
<1>1. CASE i = <<>>
  BY <1>1, StillDue, Zenon DEF PipeOk
<1>2. CASE i # <<>>
  <2>1. PICK a : a = i[1].due
    OBVIOUS
  <2>2. Due(p, Pipe(h), a)
    BY <1>2, <2>1, Zenon DEF PipeOk
  <2>3. Due(r, Pipe(h), a)
    BY <2>2, StillDue, Zenon
  <2> QED
    BY <1>2, <2>1, <2>3, Zenon DEF PipeOk
<1> QED
  BY <1>1, <1>2, Zenon

\* An event of the source or of the logger leaves the route alone.
LEMMA OtherAdded ==
    ASSUME NEW p, NEW e, NEW q, NEW i, NEW d, NEW t, NEW src,
           HeldBut(p, e, q, i, d, t, src),
           NEW r, Kept(r, t), NEW o \in {Source, Logger}, Spares(p, r, o)
    PROVE  HeldBut(r, e, q, i, d, t, src)
<1>1. ASSUME NEW h \in HopSet, Queue(h) # src PROVE QueueOk(r, h, e[h], q[h], d[h], t)
  <2>1. QueueOk(p, h, e[h], q[h], d[h], t)
    BY <1>1 DEF HeldBut
  <2>2. Queue(h) # o
    BY Names
  <2> QED
    BY <2>1, <2>2, QueueSpared, Zenon
<1>2. ASSUME NEW h \in HopSet, Pipe(h) # src PROVE PipeOk(r, h, i[h], t)
  <2>1. PipeOk(p, h, i[h], t)
    BY <1>2 DEF HeldBut
  <2>2. Pipe(h) # o
    BY Names
  <2> QED
    BY <2>1, <2>2, PipeSpared, Zenon
<1> QED
  BY <1>1, <1>2, Zenon DEF HeldBut

\* The next event comes when the others are not late.
LEMMA EventComes ==
    ASSUME NEW p, NEW e, NEW q, NEW i, NEW d, NEW t,
           HeldBut(p, e, q, i, d, t, Source), p # <<>>,
           NEW src, src = Head(p).src, NEW u, u = Head(p).at
    PROVE  /\ u \in Nat /\ t <= u /\ (endtime # 0 => u <= endtime)
           /\ HeldBut(Tail(p), e, q, i, d, u, src)
           /\ \A h \in HopSet : src = Queue(h) =>
                 /\ e[h] # <<>> /\ d[h][1] = u /\ NoneFor(Tail(p), Queue(h))
                 /\ Line(PsPerByte[h], e[h], q[h], d[h], u)
           /\ \A h \in HopSet : src = Pipe(h) =>
                 /\ i[h] # <<>> /\ i[h][1].due = u /\ NoneFor(Tail(p), Pipe(h))
                 /\ Flight(Delay[h], i[h], u)
<1>1. t \in Nat /\ endtime \in Nat /\ Kept(p, t)
  BY DEF HeldBut
<1>2. PICK r : r = Tail(p)
  OBVIOUS
<1>3. /\ u \in Nat /\ t <= u /\ (endtime # 0 => u <= endtime) /\ Kept(r, u)
      /\ \A o : /\ NoneFor(p, o) => NoneFor(r, o) /\ src # o
                /\ \A a : OneFor(p, o, a) /\ src # o => OneFor(r, o, a) /\ u <= a
                /\ \A a : OneFor(p, o, a) /\ src = o => NoneFor(r, o) /\ u = a
  BY <1>1, <1>2, EventTaken, Zenon
<1>4. ASSUME NEW o, NEW a \in Nat, Due(p, o, a)
      PROVE  /\ u <= a
             /\ src # o => Due(r, o, a)
             /\ src = o => NoneFor(r, o) /\ u = a
  <2>1. CASE OneFor(p, o, a)
    <3>1. /\ src # o => OneFor(r, o, a) /\ u <= a
          /\ src = o => NoneFor(r, o) /\ u = a
      BY <1>3, <2>1, Zenon
    <3> QED
      BY <1>3, <3>1 DEF Due
  <2>2. CASE NoneFor(p, o) /\ endtime # 0 /\ a > endtime
    <3>1. NoneFor(r, o) /\ src # o
      BY <1>3, <2>2, Zenon
    <3>2. u <= a
      BY <1>1, <1>3, <2>2
    <3> QED
      BY <2>2, <3>1, <3>2 DEF Due
  <2> QED
    BY <1>4, <2>1, <2>2 DEF Due
<1>5. \A h \in HopSet : Queue(h) # Source /\ Pipe(h) # Source
  BY Names
<1>6. ASSUME NEW h \in HopSet
      PROVE  /\ Queue(h) # src => QueueOk(r, h, e[h], q[h], d[h], u)
             /\ Queue(h) = src => /\ e[h] # <<>> /\ d[h][1] = u /\ NoneFor(r, Queue(h))
                                  /\ Line(PsPerByte[h], e[h], q[h], d[h], u)
  <2>1. QueueOk(p, h, e[h], q[h], d[h], t)
    BY <1>5 DEF HeldBut
  <2>2. PsPerByte[h] \in Nat
    BY Rates
  <2>3. PICK m, f, c, n : m \in Nat /\ m = PsPerByte[h] /\ f = e[h] /\ c = d[h] /\ n = q[h]
    BY <2>2
  <2>4. Line(m, f, n, c, t)
    BY <2>1, <2>3 DEF QueueOk
  <2>5. CASE f = <<>>
    <3>1. NoneFor(p, Queue(h))
      BY <2>1, <2>3, <2>5 DEF QueueOk
    <3>2. NoneFor(r, Queue(h)) /\ src # Queue(h)
      BY <1>3, <3>1, Zenon
    <3>3. Line(m, f, n, c, u)
      BY <1>1, <1>3, <2>3, <2>4, <2>5, LineAges
    <3> QED
      BY <2>3, <2>5, <3>2, <3>3 DEF QueueOk
  <2>6. CASE f # <<>>
    <3>1. Due(p, Queue(h), c[1])
      BY <2>1, <2>3, <2>6 DEF QueueOk
    <3>2. c[1] \in Nat
      <4>1. c \in Seq(Nat) /\ Len(c) = Len(f) /\ f \in Seq(Packet)
        BY <2>4 DEF Line
      <4> QED
        BY <2>6, <4>1
    <3>3. /\ u <= c[1]
          /\ src # Queue(h) => Due(r, Queue(h), c[1])
          /\ src = Queue(h) => NoneFor(r, Queue(h)) /\ u = c[1]
      BY <1>4, <3>1, <3>2, Zenon
    <3>4. Line(m, f, n, c, u)
      BY <1>1, <1>3, <2>3, <2>4, <3>3, LineAges
    <3> QED
      BY <2>3, <2>6, <3>3, <3>4, Zenon DEF QueueOk
  <2> QED
    BY <2>5, <2>6
<1>7. ASSUME NEW h \in HopSet
      PROVE  /\ Pipe(h) # src => PipeOk(r, h, i[h], u)
             /\ Pipe(h) = src => /\ i[h] # <<>> /\ i[h][1].due = u /\ NoneFor(r, Pipe(h))
                                 /\ Flight(Delay[h], i[h], u)
  <2>1. PipeOk(p, h, i[h], t)
    BY <1>5 DEF HeldBut
  <2>2. Delay[h] \in Nat
    BY Rates
  <2>3. PICK m, f : m \in Nat /\ m = Delay[h] /\ f = i[h]
    BY <2>2
  <2>4. Flight(m, f, t)
    BY <2>1, <2>3 DEF PipeOk
  <2>5. CASE f = <<>>
    <3>1. NoneFor(p, Pipe(h))
      BY <2>1, <2>3, <2>5 DEF PipeOk
    <3>2. NoneFor(r, Pipe(h)) /\ src # Pipe(h)
      BY <1>3, <3>1, Zenon
    <3>3. Flight(m, f, u)
      BY <1>1, <1>3, <2>3, <2>4, <2>5, FlightAges
    <3> QED
      BY <2>3, <2>5, <3>2, <3>3 DEF PipeOk
  <2>6. CASE f # <<>>
    <3>1. Due(p, Pipe(h), f[1].due)
      BY <2>1, <2>3, <2>6 DEF PipeOk
    <3>2. f[1].due \in Nat
      <4>1. f \in Seq(Slot)
        BY <2>4 DEF Flight
      <4>2. f[1] \in Slot
        BY <2>6, <4>1
      <4> QED
        BY <4>2 DEF Slot
    <3>3. /\ u <= f[1].due
          /\ src # Pipe(h) => Due(r, Pipe(h), f[1].due)
          /\ src = Pipe(h) => NoneFor(r, Pipe(h)) /\ u = f[1].due
      BY <1>4, <3>1, <3>2, Zenon
    <3>4. Flight(m, f, u)
      BY <1>1, <1>3, <2>3, <2>4, <3>3, FlightAges
    <3> QED
      BY <2>3, <2>6, <3>3, <3>4, Zenon DEF PipeOk
  <2> QED
    BY <2>5, <2>6
<1>8. HeldBut(r, e, q, i, d, u, src)
  BY <1>1, <1>3, <1>6, <1>7, Zenon DEF HeldBut
<1> QED
  BY <1>2, <1>3, <1>6, <1>7, <1>8, Zenon

\* A packet that queue h accepts at time t.
AcceptsOk(p, e, q, i, d, t, src, h, x, l, p2, e2, q2, l2, d2) ==
    /\ HeldBut(p2, e2, q2, i, d2, t, src)
    /\ NoneFor(p, src) => NoneFor(p2, src)

\* A queue that accepts a packet keeps its count, its departures and its one
\* event right, and so do the other hops.
LEMMA QueueAccepts ==
    ASSUME NEW p, NEW e, NEW q, NEW i, NEW d, NEW t, NEW src,
           HeldBut(p, e, q, i, d, t, src),
           NEW h \in HopSet, Queue(h) # src, NEW x \in Packet,
           NEW l, NEW p2, NEW e2, NEW q2, NEW l2,
           Accepted(p, e, q, l, h, x, t, p2, e2, q2, l2),
           NEW d2,
           d2 = [d EXCEPT ![h] = Append(@, LastOf(d[h], t) + x.size * PsPerByte[h])]
    PROVE  AcceptsOk(p, e, q, i, d, t, src, h, x, l, p2, e2, q2, l2, d2)
<1>1. /\ t \in Nat /\ endtime \in Nat /\ Kept(p, t)
      /\ e \in [HopSet -> Seq(Packet)] /\ q \in [HopSet -> Nat]
      /\ i \in [HopSet -> Seq(Slot)] /\ d \in [HopSet -> Seq(Nat)]
      /\ QueueOk(p, h, e[h], q[h], d[h], t)
  BY DEF HeldBut
<1>2. PICK m \in Nat : m = PsPerByte[h]
  BY Rates
<1>3. PICK f, c, n : f = e[h] /\ c = d[h] /\ n = q[h]
  OBVIOUS
<1>4. PICK last : last = LastOf(c, t) + x.size * m
  OBVIOUS
<1>5. Line(m, f, n, c, t)
  BY <1>1, <1>2, <1>3 DEF QueueOk
<1>6. /\ Line(m, Append(f, x), n + x.size, Append(c, last), t)
      /\ last \in Nat /\ n \in Nat
      /\ f # <<>> => Append(c, last)[1] = c[1]
      /\ f = <<>> => Append(c, last)[1] = t + x.size * m /\ Append(f, x)[1] = x
  BY <1>1, <1>4, <1>5, LineJoins
<1>7. PICK f2, c2, n2 : f2 = Append(f, x) /\ c2 = Append(c, last) /\ n2 = n + x.size
  OBVIOUS
<1>8. /\ e2 = [e EXCEPT ![h] = f2] /\ q2 = [q EXCEPT ![h] = n2]
      /\ d2 = [d EXCEPT ![h] = c2]
  <2>1. /\ e2 = [e EXCEPT ![h] = Append(e[h], x)]
        /\ q2 = [q EXCEPT ![h] = q[h] + x.size]
    BY Zenon DEF Accepted
  <2> QED
    BY <1>2, <1>3, <1>4, <1>7, <2>1
<1>9. f2 \in Seq(Packet) /\ c2 \in Seq(Nat) /\ n2 \in Nat /\ f2 # <<>>
  <2>1. f \in Seq(Packet) /\ c \in Seq(Nat) /\ x.size \in Nat
    BY <1>5, PacketSize DEF Line
  <2> QED
    BY <1>6, <1>7, <2>1
<1>10. /\ e2 \in [HopSet -> Seq(Packet)] /\ q2 \in [HopSet -> Nat]
       /\ d2 \in [HopSet -> Seq(Nat)]
       /\ e2[h] = f2 /\ q2[h] = n2 /\ d2[h] = c2
       /\ \A g \in HopSet : g # h => e2[g] = e[g] /\ q2[g] = q[g] /\ d2[g] = d[g]
  BY <1>1, <1>8, <1>9
<1>11. Kept(p2, t) /\ Spares(p, p2, Queue(h)) /\ Due(p2, Queue(h), c2[1])
  <2>1. CASE f = <<>>
    <3>1. PICK at \in Nat : at = t + x.size * m /\ t <= at
      <4>1. x.size \in Nat /\ x.size * m \in Nat
        BY PacketSize
      <4>2. PICK drain \in Nat : drain = x.size * m
        BY <4>1
      <4>3. t + drain \in Nat /\ t <= t + drain
        BY <1>1, <4>2
      <4> QED
        BY <4>2, <4>3
    <3>2. t <= at
      BY <3>1
    <3>3. Head(f2) = x
      <4>1. Head(f2) = f2[1]
        BY <1>9
      <4> QED
        BY <1>6, <1>7, <2>1, <4>1
    <3>4. p2 = SourceIsPending(p, endtime, at, Queue(h))
      <4>1. p2 = SourceIsPending(p, endtime, t + DrainTime(h, Head(e2[h])), Queue(h))
        BY <1>3, <2>1, Zenon DEF Accepted
      <4> QED
        BY <1>2, <1>10, <3>1, <3>3, <4>1 DEF DrainTime
    <3>5. Queue(h) \in Sources
      BY Names
    <3>6. NoneFor(p, Queue(h))
      BY <1>1, <1>3, <2>1 DEF QueueOk
    <3>7. Kept(p2, t) /\ Spares(p, p2, Queue(h)) /\ Due(p2, Queue(h), at)
      BY <1>1, <3>2, <3>4, <3>5, <3>6, Scheduled
    <3> QED
      BY <1>6, <1>7, <2>1, <3>1, <3>7
  <2>2. CASE f # <<>>
    <3>1. p2 = p
      BY <1>3, <2>2, Zenon DEF Accepted
    <3>2. Due(p, Queue(h), c[1])
      BY <1>1, <1>3, <2>2 DEF QueueOk
    <3>3. c2[1] = c[1]
      BY <1>6, <1>7, <2>2
    <3> QED
      BY <1>1, <3>1, <3>2, <3>3 DEF Spares
  <2> QED
    BY <2>1, <2>2
<1>12. ASSUME NEW g \in HopSet, Queue(g) # src
       PROVE  QueueOk(p2, g, e2[g], q2[g], d2[g], t)
  <2>1. CASE g = h
    BY <1>2, <1>6, <1>7, <1>9, <1>10, <1>11, <2>1 DEF QueueOk
  <2>2. CASE g # h
    <3>1. QueueOk(p, g, e[g], q[g], d[g], t)
      BY <1>12 DEF HeldBut
    <3>2. Queue(g) # Queue(h)
      BY <2>2, Names
    <3>3. QueueOk(p2, g, e[g], q[g], d[g], t)
      BY <1>11, <3>1, <3>2, QueueSpared, Zenon
    <3> QED
      BY <1>10, <2>2, <3>3
  <2> QED
    BY <2>1, <2>2
<1>13. ASSUME NEW g \in HopSet, Pipe(g) # src PROVE PipeOk(p2, g, i[g], t)
  <2>1. PipeOk(p, g, i[g], t)
    BY <1>13 DEF HeldBut
  <2>2. Pipe(g) # Queue(h)
    BY Names
  <2> QED
    BY <1>11, <2>1, <2>2, PipeSpared, Zenon
<1>14. NoneFor(p, src) => NoneFor(p2, src)
  BY <1>11, Zenon DEF Spares
<1> QED
  BY <1>1, <1>10, <1>11, <1>12, <1>13, <1>14, Zenon DEF HeldBut, AcceptsOk

\* A pipe that has announced its next packet.
LEMMA PipeResumes ==
    ASSUME NEW p, NEW e, NEW q, NEW i, NEW d, NEW t, NEW h \in HopSet,
           HeldBut(p, e, q, i, d, t, Pipe(h)), NoneFor(p, Pipe(h)),
           Flight(Delay[h], i[h], t), i[h] # <<>>,
           NEW p2, NEW i2, Resumed(p, i, h, i2, p2)
    PROVE  HeldBut(p2, e, q, i2, d, t, Source)
<1>1. /\ t \in Nat /\ endtime \in Nat /\ Kept(p, t)
      /\ e \in [HopSet -> Seq(Packet)] /\ q \in [HopSet -> Nat]
      /\ i \in [HopSet -> Seq(Slot)] /\ d \in [HopSet -> Seq(Nat)]
  BY DEF HeldBut
<1>2. PICK m \in Nat : m = Delay[h]
  BY Rates
<1>3. PICK f, f2 : f = i[h] /\ f2 = Tail(f)
  OBVIOUS
<1>4. /\ Flight(m, f2, t)
      /\ f2 # <<>> => Head(f2) = f2[1] /\ f2[1].due \in Nat /\ t <= f2[1].due
  BY <1>1, <1>2, <1>3, FlightLeaves
<1>5. i2 = [i EXCEPT ![h] = f2] /\ f2 \in Seq(Slot)
  BY <1>3, <1>4, Zenon DEF Resumed, Flight
<1>6. /\ i2 \in [HopSet -> Seq(Slot)] /\ i2[h] = f2
      /\ \A g \in HopSet : g # h => i2[g] = i[g]
  BY <1>1, <1>5
<1>7. /\ Kept(p2, t) /\ Spares(p, p2, Pipe(h))
      /\ IF f2 = <<>> THEN NoneFor(p2, Pipe(h)) ELSE Due(p2, Pipe(h), f2[1].due)
  <2>1. CASE f2 = <<>>
    <3>1. p2 = p
      BY <1>6, <2>1, Zenon DEF Resumed
    <3> QED
      BY <1>1, <2>1, <3>1 DEF Spares
  <2>2. CASE f2 # <<>>
    <3>1. PICK at \in Nat : at = f2[1].due /\ at = Head(f2).due /\ t <= at
      BY <1>4, <2>2
    <3>2. p2 = SourceIsPending(p, endtime, at, Pipe(h))
      BY <1>6, <2>2, <3>1, Zenon DEF Resumed
    <3>3. Pipe(h) \in Sources
      BY Names
    <3>4. Kept(p2, t) /\ Spares(p, p2, Pipe(h)) /\ Due(p2, Pipe(h), at)
      BY <1>1, <3>1, <3>2, <3>3, Scheduled
    <3> QED
      BY <2>2, <3>1, <3>4
  <2> QED
    BY <2>1, <2>2
<1>8. ASSUME NEW g \in HopSet PROVE QueueOk(p2, g, e[g], q[g], d[g], t)
  <2>1. Queue(g) # Pipe(h)
    BY Names
  <2>2. QueueOk(p, g, e[g], q[g], d[g], t)
    BY <2>1 DEF HeldBut
  <2> QED
    BY <1>7, <2>1, <2>2, QueueSpared, Zenon
<1>9. ASSUME NEW g \in HopSet PROVE PipeOk(p2, g, i2[g], t)
  <2>1. CASE g = h
    BY <1>2, <1>4, <1>6, <1>7, <2>1 DEF PipeOk
  <2>2. CASE g # h
    <3>1. Pipe(g) # Pipe(h)
      BY <2>2, Names
    <3>2. PipeOk(p, g, i[g], t)
      BY <3>1 DEF HeldBut
    <3>3. PipeOk(p2, g, i[g], t)
      BY <1>7, <3>1, <3>2, PipeSpared, Zenon
    <3> QED
      BY <1>6, <2>2, <3>3
  <2> QED
    BY <2>1, <2>2
<1> QED
  BY <1>1, <1>6, <1>7, <1>8, <1>9, Zenon DEF HeldBut

\* A pipe that takes a packet.
LEMMA PipeTakes ==
    ASSUME NEW p, NEW e, NEW q, NEW i, NEW d, NEW t, NEW src,
           HeldBut(p, e, q, i, d, t, src),
           NEW h \in HopSet, Pipe(h) # src, NEW x \in Packet,
           NEW p2, NEW i2, Piped(p, i, h, x, t, p2, i2)
    PROVE  /\ HeldBut(p2, e, q, i2, d, t, src)
           /\ NoneFor(p, src) => NoneFor(p2, src)
<1>1. /\ t \in Nat /\ endtime \in Nat /\ Kept(p, t)
      /\ e \in [HopSet -> Seq(Packet)] /\ q \in [HopSet -> Nat]
      /\ i \in [HopSet -> Seq(Slot)] /\ d \in [HopSet -> Seq(Nat)]
      /\ PipeOk(p, h, i[h], t)
  BY DEF HeldBut
<1>2. PICK m \in Nat : m = Delay[h]
  BY Rates
<1>3. PICK f, f2 : f = i[h] /\ f2 = Append(f, [due |-> t + m, pkt |-> x])
  OBVIOUS
<1>4. /\ Flight(m, f2, t)
      /\ f # <<>> => f2[1] = f[1]
      /\ f = <<>> => f2[1].due = t + m
  <2>1. Flight(m, f, t)
    BY <1>1, <1>2, <1>3 DEF PipeOk
  <2> QED
    BY <1>1, <1>3, <2>1, FlightJoins
<1>5. i2 = [i EXCEPT ![h] = f2] /\ f2 \in Seq(Slot) /\ f2 # <<>>
  <2>1. i2 = [i EXCEPT ![h] = Append(i[h], [due |-> t + Delay[h], pkt |-> x])]
    BY Zenon DEF Piped
  <2>2. f2 \in Seq(Slot)
    BY <1>4, Zenon DEF Flight
  <2>3. f \in Seq(Slot)
    BY <1>1, <1>3
  <2>4. f2 # <<>>
    BY <1>3, <2>3
  <2> QED
    BY <1>2, <1>3, <2>1, <2>2, <2>4
<1>6. /\ i2 \in [HopSet -> Seq(Slot)] /\ i2[h] = f2
      /\ \A g \in HopSet : g # h => i2[g] = i[g]
  BY <1>1, <1>5
<1>7. /\ Kept(p2, t) /\ Spares(p, p2, Pipe(h)) /\ Due(p2, Pipe(h), f2[1].due)
  <2>1. CASE f = <<>>
    <3>1. PICK at \in Nat : at = t + m /\ at = f2[1].due /\ t <= at
      BY <1>1, <1>4, <2>1
    <3>2. p2 = SourceIsPending(p, endtime, at, Pipe(h))
      BY <1>2, <1>3, <2>1, <3>1, Zenon DEF Piped
    <3>3. Pipe(h) \in Sources
      BY Names
    <3>4. NoneFor(p, Pipe(h))
      BY <1>1, <1>3, <2>1 DEF PipeOk
    <3>5. Kept(p2, t) /\ Spares(p, p2, Pipe(h)) /\ Due(p2, Pipe(h), at)
      BY <1>1, <3>1, <3>2, <3>3, <3>4, Scheduled
    <3> QED
      BY <3>1, <3>5
  <2>2. CASE f # <<>>
    <3>1. p2 = p
      BY <1>3, <2>2, Zenon DEF Piped
    <3>2. Due(p, Pipe(h), f[1].due)
      BY <1>1, <1>3, <2>2 DEF PipeOk
    <3> QED
      BY <1>1, <1>4, <2>2, <3>1, <3>2 DEF Spares
  <2> QED
    BY <2>1, <2>2
<1>8. ASSUME NEW g \in HopSet, Queue(g) # src PROVE QueueOk(p2, g, e[g], q[g], d[g], t)
  <2>1. Queue(g) # Pipe(h)
    BY Names
  <2>2. QueueOk(p, g, e[g], q[g], d[g], t)
    BY <1>8, <2>1 DEF HeldBut
  <2> QED
    BY <1>7, <2>1, <2>2, QueueSpared, Zenon
<1>9. ASSUME NEW g \in HopSet, Pipe(g) # src PROVE PipeOk(p2, g, i2[g], t)
  <2>1. CASE g = h
    BY <1>2, <1>4, <1>5, <1>6, <1>7, <2>1 DEF PipeOk
  <2>2. CASE g # h
    <3>1. Pipe(g) # Pipe(h)
      BY <2>2, Names
    <3>2. PipeOk(p, g, i[g], t)
      BY <1>9, <3>1 DEF HeldBut
    <3>3. PipeOk(p2, g, i[g], t)
      BY <1>7, <3>1, <3>2, PipeSpared, Zenon
    <3> QED
      BY <1>6, <2>2, <3>3
  <2> QED
    BY <2>1, <2>2
<1>10. NoneFor(p, src) => NoneFor(p2, src)
  BY <1>7, Zenon DEF Spares
<1> QED
  BY <1>1, <1>6, <1>7, <1>8, <1>9, <1>10, Zenon DEF HeldBut

----------------------------------------------------------------------------
(* The steps of the route. *)

\* The packet as it leaves queue h, marked when more than the threshold is
\* behind it.
Marked(h, n, x) == IF n > EcnThreshold[h] THEN [x EXCEPT !.ecn = TRUE] ELSE x

\* Marking changes nothing but the mark.
LEMMA MarkedIs ==
    ASSUME NEW h, NEW n, NEW x \in Packet
    PROVE  /\ Marked(h, n, x) \in Packet
           /\ Marked(h, n, x).id = x.id /\ Marked(h, n, x).size = x.size
           /\ Marked(h, n, x).ecn => x.ecn \/ n > EcnThreshold[h]
BY DEF Marked, Packet

\* A queue that serves its next packet at the time that was due.
LEMMA QueueServes ==
    ASSUME NEW p, NEW e, NEW q, NEW i, NEW d, NEW t, NEW h \in HopSet,
           HeldBut(p, e, q, i, d, t, Queue(h)), NoneFor(p, Queue(h)),
           Line(PsPerByte[h], e[h], q[h], d[h], t), e[h] # <<>>, d[h][1] = t,
           NEW x, x = Head(e[h]), NEW y \in Packet,
           NEW p2, NEW p3, NEW e2, NEW q2, NEW i2,
           e2 = [e EXCEPT ![h] = Tail(@)], q2 = [q EXCEPT ![h] = @ - x.size],
           Piped(p, i, h, y, t, p2, i2),
           e2[h] = <<>> => p3 = p2,
           e2[h] # <<>> =>
               p3 = SourceIsPending(p2, endtime, t + DrainTime(h, Head(e2[h])), Queue(h)),
           NEW d2, d2 = [d EXCEPT ![h] = Tail(@)]
    PROVE  HeldBut(p3, e2, q2, i2, d2, t, Source) /\ x \in Packet
<1>1. /\ t \in Nat /\ endtime \in Nat /\ Kept(p, t)
      /\ e \in [HopSet -> Seq(Packet)] /\ q \in [HopSet -> Nat]
      /\ i \in [HopSet -> Seq(Slot)] /\ d \in [HopSet -> Seq(Nat)]
  BY DEF HeldBut
<1>2. PICK m \in Nat : m = PsPerByte[h]
  BY Rates
<1>3. PICK f, c, n : f = e[h] /\ c = d[h] /\ n = q[h]
  OBVIOUS
<1>4. PICK f2, c2, n2 : f2 = Tail(f) /\ c2 = Tail(c) /\ n2 = n - x.size
  OBVIOUS
<1>5. /\ Line(m, f2, n2, c2, t) /\ n2 \in Nat /\ x \in Packet
      /\ f2 # <<>> => c2[1] = t + Head(f2).size * m
  <2>1. Line(m, f, n, c, t) /\ f # <<>> /\ t = c[1] /\ x = Head(f)
    BY <1>2, <1>3
  <2>2. /\ Line(m, Tail(f), n - Head(f).size, Tail(c), t)
        /\ n - Head(f).size \in Nat /\ Head(f) \in Packet
        /\ Tail(f) # <<>> => Tail(c)[1] = t + Head(Tail(f)).size * m
    BY <1>1, <2>1, LineLeaves
  <2> QED
    BY <1>4, <2>1, <2>2
<1>6. f2 \in Seq(Packet) /\ c2 \in Seq(Nat)
  BY <1>5, Zenon DEF Line
<1>7. e2 = [e EXCEPT ![h] = f2] /\ q2 = [q EXCEPT ![h] = n2] /\ d2 = [d EXCEPT ![h] = c2]
  BY <1>3, <1>4
<1>8. /\ e2 \in [HopSet -> Seq(Packet)] /\ q2 \in [HopSet -> Nat]
      /\ d2 \in [HopSet -> Seq(Nat)]
      /\ e2[h] = f2 /\ q2[h] = n2 /\ d2[h] = c2
       /\ \A g \in HopSet : g # h => e2[g] = e[g] /\ q2[g] = q[g] /\ d2[g] = d[g]
  <2>1. /\ e2 \in [HopSet -> Seq(Packet)] /\ e2[h] = f2
        /\ \A g \in HopSet : g # h => e2[g] = e[g]
    BY <1>1, <1>6, <1>7
  <2>2. /\ q2 \in [HopSet -> Nat] /\ q2[h] = n2
        /\ \A g \in HopSet : g # h => q2[g] = q[g]
    BY <1>1, <1>5, <1>7
  <2>3. /\ d2 \in [HopSet -> Seq(Nat)] /\ d2[h] = c2
        /\ \A g \in HopSet : g # h => d2[g] = d[g]
    BY <1>1, <1>6, <1>7
  <2> QED
    BY <2>1, <2>2, <2>3
<1>9. /\ HeldBut(p2, e, q, i2, d, t, Queue(h)) /\ NoneFor(p2, Queue(h))
  <2>1. Pipe(h) # Queue(h)
    BY Names
  <2> QED
    BY <2>1, PipeTakes
<1>10. Kept(p2, t) /\ i2 \in [HopSet -> Seq(Slot)]
  BY <1>9 DEF HeldBut
<1>11. /\ Kept(p3, t) /\ Spares(p2, p3, Queue(h))
       /\ IF f2 = <<>> THEN NoneFor(p3, Queue(h)) ELSE Due(p3, Queue(h), c2[1])
  <2>1. CASE f2 = <<>>
    <3>1. p3 = p2
      BY <1>8, <2>1
    <3> QED
      BY <1>9, <1>10, <2>1, <3>1 DEF Spares
  <2>2. CASE f2 # <<>>
    <3>1. PICK at \in Nat : at = t + Head(f2).size * m
      <4>1. Head(f2) \in Packet
        BY <1>6, <2>2
      <4>2. PICK s \in Nat : s = Head(f2).size
        BY <4>1, PacketSize
      <4>3. t + s * m \in Nat
        <5>1. s * m \in Nat
          BY Scale
        <5>2. \A w \in Nat : t + w \in Nat
          BY <1>1
        <5> QED
          BY <5>1, <5>2, Zenon
      <4> QED
        BY <4>2, <4>3
    <3>2. t <= at
      <4>1. 1 \in 1 .. Len(f2) /\ c2[1] \in Nat /\ t <= c2[1]
        <5>1. /\ Len(c2) = Len(f2)
              /\ t <= c2[1]
          BY <1>5, <2>2 DEF Line
        <5>2. 1 \in 1 .. Len(f2)
          BY <1>6, <2>2
        <5> QED
          BY <1>6, <5>1, <5>2
      <4> QED
        BY <1>5, <2>2, <3>1, <4>1
    <3>3. p3 = SourceIsPending(p2, endtime, at, Queue(h))
      BY <1>2, <1>8, <2>2, <3>1 DEF DrainTime
    <3>4. Queue(h) \in Sources
      BY Names
    <3>5. Kept(p3, t) /\ Spares(p2, p3, Queue(h)) /\ Due(p3, Queue(h), at)
      BY <1>1, <1>9, <1>10, <3>2, <3>3, <3>4, Scheduled
    <3> QED
      BY <1>5, <2>2, <3>1, <3>5
  <2> QED
    BY <2>1, <2>2
<1>12. ASSUME NEW g \in HopSet PROVE QueueOk(p3, g, e2[g], q2[g], d2[g], t)
  <2>1. CASE g = h
    BY <1>2, <1>5, <1>8, <1>11, <2>1 DEF QueueOk
  <2>2. CASE g # h
    <3>1. Queue(g) # Queue(h)
      BY <2>2, Names
    <3>2. QueueOk(p2, g, e[g], q[g], d[g], t)
      BY <1>9, <3>1 DEF HeldBut
    <3>3. QueueOk(p3, g, e[g], q[g], d[g], t)
      BY <1>11, <3>1, <3>2, QueueSpared, Zenon
    <3> QED
      BY <1>8, <2>2, <3>3
  <2> QED
    BY <2>1, <2>2
<1>13. ASSUME NEW g \in HopSet PROVE PipeOk(p3, g, i2[g], t)
  <2>1. Pipe(g) # Queue(h)
    BY Names
  <2>2. PipeOk(p2, g, i2[g], t)
    BY <1>9, <2>1 DEF HeldBut
  <2> QED
    BY <1>11, <2>1, <2>2, PipeSpared, Zenon
<1> QED
  BY <1>1, <1>5, <1>8, <1>10, <1>11, <1>12, <1>13, Zenon DEF HeldBut

----------------------------------------------------------------------------
(* What the steps are *)

\* A queue serves packet x, which leaves it as y.
Serves(h, x, y, d, d2) ==
    /\ enqueued[h] # <<>> /\ x = Head(enqueued[h]) /\ d[h][1] = now'
    /\ y = Marked(h, queuesize'[h], x)
    /\ enqueued' = [enqueued EXCEPT ![h] = Tail(@)]
    /\ queuesize' = [queuesize EXCEPT ![h] = @ - x.size]
    /\ inflight' = [inflight EXCEPT ![h] = Append(@, [due |-> now' + Delay[h], pkt |-> y])]
    /\ log' = Told(log, h, "PKT_SERVICE", queuesize'[h], x, now')
    /\ UNCHANGED <<dropped, delivered, sampled, sent>>
    /\ d2 = [d EXCEPT ![h] = Tail(@)]

\* A queue is given packet x, and accepts it or drops it.
Accepts(h, x, d, d2) ==
    /\ ~Overflows(queuesize[h], h, x)
    /\ enqueued' = [enqueued EXCEPT ![h] = Append(@, x)]
    /\ queuesize' = [queuesize EXCEPT ![h] = @ + x.size]
    /\ log' = IF h \in LogsArrivals
              THEN Told(log, h, "PKT_ENQUEUE", queuesize[h] + x.size, x, now') ELSE log
    /\ UNCHANGED dropped
    /\ d2 = [d EXCEPT ![h] = Append(@, LastOf(d[h], now') + x.size * PsPerByte[h])]
Drops(h, x, d, d2) ==
    /\ UNCHANGED <<enqueued, queuesize>>
    /\ log' = Told(log, h, "PKT_DROP", queuesize[h], x, now')
    /\ dropped' = dropped \cup {x.id}
    /\ d2 = d
    /\ \E early \in BOOLEAN : Rejects(queuesize[h], h, x, early)

\* The source sends x; the pipe of hop h hands x on.
Sends(x, d, d2) ==
    /\ x.id = Len(sent) + 1 /\ x.ecn = FALSE
    /\ sent' = Append(sent, [size |-> x.size, at |-> now'])
    /\ Accepts(1, x, d, d2) \/ Drops(1, x, d, d2)
    /\ UNCHANGED <<inflight, delivered, sampled>>
HandsOn(h, x, d, d2) ==
    /\ inflight[h] # <<>> /\ x = Head(inflight[h]).pkt /\ inflight[h][1].due = now'
    /\ inflight' = [inflight EXCEPT ![h] = Tail(@)]
    /\ \/ /\ h < Hops /\ (Accepts(h + 1, x, d, d2) \/ Drops(h + 1, x, d, d2))
          /\ UNCHANGED delivered
       \/ /\ h = Hops /\ UNCHANGED <<enqueued, queuesize, log, dropped>>
          /\ delivered' = Append(delivered, [pkt |-> x, at |-> now'])
          /\ d2 = d
    /\ UNCHANGED <<sampled, sent>>
Looks(d, d2) ==
    /\ log' = Sample(log, queuesize[Logged], now')
    /\ sampled' = queuesize[Logged]
    /\ UNCHANGED <<enqueued, queuesize, inflight, dropped, delivered, sent>>
    /\ d2 = d

\* A step from d to d2 at a time that does not run back.
Steps(d, d2) ==
    /\ UNCHANGED endtime
    /\ now \in Nat /\ now' \in Nat /\ now <= now' /\ (endtime # 0 => now' <= endtime)
    /\ HeldBut(pending', enqueued', queuesize', inflight', d2, now', Source)
    /\ \/ \E x \in Packet : Sends(x, d, d2)
       \/ Looks(d, d2)
       \/ \E h \in HopSet, x, y \in Packet : Serves(h, x, y, d, d2)
       \/ \E h \in HopSet, x \in Packet : HandsOn(h, x, d, d2)

----------------------------------------------------------------------------
(* Every action of the model is one of them *)

\* The values of the state before a step.
LEMMA Values ==
    ASSUME NEW d, Held(d)
    PROVE  \E p, e, q, i, l, dr, v, t :
              /\ p = pending /\ e = enqueued /\ q = queuesize /\ i = inflight
              /\ l = log /\ dr = dropped /\ v = delivered /\ t = now
              /\ HeldBut(p, e, q, i, d, t, Source)
              /\ Rest = St(Tail(p), e, q, i, l, dr, v)
<1>1. Rest = St(Tail(pending), enqueued, queuesize, inflight, log, dropped, delivered)
  BY NowIs
<1> QED
  BY <1>1, Zenon DEF Held

\* An event of a queue is a step of the route: it serves one packet.
LEMMA QueueStep ==
    ASSUME NEW d, Held(d), NEW h \in HopSet, QueueEvent(h)
    PROVE  \E d2 : Steps(d, d2)
<1>1. PICK p, e, q, i, l, dr, v, t :
         /\ p = pending /\ e = enqueued /\ q = queuesize /\ i = inflight
         /\ l = log /\ dr = dropped /\ v = delivered /\ t = now
         /\ HeldBut(p, e, q, i, d, t, Source)
         /\ Rest = St(Tail(p), e, q, i, l, dr, v)
  BY Values, Zenon
<1>2. PICK u : u = now'
  OBVIOUS
<1>3. /\ p # <<>> /\ Head(p).src = Queue(h) /\ Head(p).at = u /\ endtime' = endtime
      /\ sampled' = sampled /\ sent' = sent
      /\ Become(CompleteService(Rest, h, u))
  BY <1>1, <1>2 DEF QueueEvent, Take
<1>4. PICK r : r = Tail(p)
  OBVIOUS
<1>5. /\ u \in Nat /\ t <= u /\ (endtime # 0 => u <= endtime)
      /\ HeldBut(r, e, q, i, d, u, Queue(h))
      /\ e[h] # <<>> /\ d[h][1] = u /\ NoneFor(r, Queue(h))
      /\ Line(PsPerByte[h], e[h], q[h], d[h], u)
  BY <1>1, <1>3, <1>4, EventComes
<1>6. /\ h \in DOMAIN e /\ h \in DOMAIN q /\ h \in DOMAIN i
      /\ e \in [HopSet -> Seq(Packet)] /\ t \in Nat
  BY <1>1 DEF HeldBut
<1>7. PICK x, y, p2, p3, e2, q2, i2 :
         /\ CompleteService(St(r, e, q, i, l, dr, v), h, u) =
               St(p3, e2, q2, i2, Told(l, h, "PKT_SERVICE", q2[h], x, u), dr, v)
         /\ x = Head(e[h])
         /\ y = IF q2[h] > EcnThreshold[h] THEN [x EXCEPT !.ecn = TRUE] ELSE x
         /\ e2 = [e EXCEPT ![h] = Tail(@)]
         /\ q2 = [q EXCEPT ![h] = @ - x.size]
         /\ Piped(r, i, h, y, u, p2, i2)
         /\ e2[h] = <<>> => p3 = p2
         /\ e2[h] # <<>> =>
               p3 = SourceIsPending(p2, endtime, u + DrainTime(h, Head(e2[h])), Queue(h))
  <2>1. ServedAs(r, e, q, i, l, dr, v, h, u)
    BY <1>6, ServiceIs, Zenon
  <2> QED
    BY <2>1, Zenon DEF ServedAs
<1>8. /\ pending' = p3 /\ enqueued' = e2 /\ queuesize' = q2 /\ inflight' = i2
      /\ log' = Told(l, h, "PKT_SERVICE", q2[h], x, u) /\ dropped' = dr /\ delivered' = v
  <2>1. Become(St(p3, e2, q2, i2, Told(l, h, "PKT_SERVICE", q2[h], x, u), dr, v))
    BY <1>1, <1>3, <1>4, <1>7, Zenon
  <2> QED
    BY <2>1, BecomeIs, Zenon
<1>9. x \in Packet /\ y \in Packet /\ y = Marked(h, q2[h], x)
  <2>1. x \in Packet
    <3>1. e[h] \in Seq(Packet)
      BY <1>6
    <3> QED
      BY <1>5, <1>7, <3>1, HeadTailProperties
  <2>2. y = Marked(h, q2[h], x)
    BY <1>7 DEF Marked
  <2> QED
    BY <2>1, <2>2, MarkedIs
<1>10. PICK d2 : d2 = [d EXCEPT ![h] = Tail(@)]
  OBVIOUS
<1>11. HeldBut(p3, e2, q2, i2, d2, u, Source)
  BY <1>5, <1>7, <1>9, <1>10, QueueServes
<1>12. inflight' = [inflight EXCEPT ![h] = Append(@, [due |-> u + Delay[h], pkt |-> y])]
  BY <1>1, <1>7, <1>8, Zenon DEF Piped
<1>13. Serves(h, x, y, d, d2)
  BY <1>1, <1>2, <1>3, <1>5, <1>7, <1>8, <1>9, <1>10, <1>12, Zenon DEF Serves
<1> QED
  BY <1>1, <1>2, <1>3, <1>5, <1>6, <1>8, <1>9, <1>11, <1>13, Zenon DEF Steps

\* What a queue makes of a packet, with the event of source src being handled.
ReceivedAs(p, e, q, i, l, dr, d, t, src, h, x, early, j, w) ==
    \E p2, e2, q2, l2, dr2, d2 :
       /\ QueueReceive(St(p, e, q, j, l, dr, w), h, x, t, early) =
             St(p2, e2, q2, j, l2, dr2, w)
       /\ HeldBut(p2, e2, q2, i, d2, t, src)
       /\ NoneFor(p, src) => NoneFor(p2, src)
       /\ \/ /\ Accepted(p, e, q, l, h, x, t, p2, e2, q2, l2) /\ dr2 = dr
             /\ ~Rejects(q[h], h, x, early)
             /\ d2 = [d EXCEPT ![h] = Append(@, LastOf(d[h], t) + x.size * PsPerByte[h])]
          \/ /\ p2 = p /\ e2 = e /\ q2 = q /\ l2 = Told(l, h, "PKT_DROP", q[h], x, t)
             /\ dr2 = dr \cup {x.id} /\ d2 = d /\ Rejects(q[h], h, x, early)

\* A packet that arrives at a queue is accepted or dropped, and the route is
\* in order after either.
LEMMA Received ==
    ASSUME NEW p, NEW e, NEW q, NEW i, NEW l, NEW dr, NEW d, NEW t, NEW src,
           HeldBut(p, e, q, i, d, t, src),
           NEW h \in HopSet, Queue(h) # src, NEW x \in Packet, NEW early \in BOOLEAN,
           NEW j, NEW w
    PROVE  ReceivedAs(p, e, q, i, l, dr, d, t, src, h, x, early, j, w)
<1>1. h \in DOMAIN e /\ h \in DOMAIN q
  BY DEF HeldBut
<1>2. CASE Rejects(q[h], h, x, early)
  <2>1. QueueReceive(St(p, e, q, j, l, dr, w), h, x, t, early) =
            St(p, e, q, j, Told(l, h, "PKT_DROP", q[h], x, t), dr \cup {x.id}, w)
    <3>1. RejectedAs(p, e, q, j, l, dr, w, h, x, t, early)
      BY <1>2, ReceiveRejects, Zenon
    <3> QED
      BY <3>1, Zenon DEF RejectedAs
  <2> QED
    BY <1>2, <2>1, Zenon DEF ReceivedAs
<1>3. CASE ~Rejects(q[h], h, x, early)
  <2>1. PICK p2, e2, q2, l2 :
           /\ QueueReceive(St(p, e, q, j, l, dr, w), h, x, t, early) =
                 St(p2, e2, q2, j, l2, dr, w)
           /\ Accepted(p, e, q, l, h, x, t, p2, e2, q2, l2)
    <3>1. AcceptedAs(p, e, q, j, l, dr, w, h, x, t, early)
      BY <1>1, <1>3, ReceiveAccepts, Zenon
    <3> QED
      BY <3>1, Zenon DEF AcceptedAs
  <2>2. PICK d2 : d2 = [d EXCEPT ![h] = Append(@, LastOf(d[h], t) + x.size * PsPerByte[h])]
    OBVIOUS
  <2>3. HeldBut(p2, e2, q2, i, d2, t, src) /\ (NoneFor(p, src) => NoneFor(p2, src))
    <3>1. AcceptsOk(p, e, q, i, d, t, src, h, x, l, p2, e2, q2, l2, d2)
      BY <2>1, <2>2, QueueAccepts, Zenon
    <3> QED
      BY <3>1, Zenon DEF AcceptsOk
  <2> QED
    BY <1>3, <2>1, <2>2, <2>3, Zenon DEF ReceivedAs
<1> QED
  BY <1>2, <1>3

\* The source's packet is offered to the first queue.
LEMMA SourceStep ==
    ASSUME NEW d, Held(d), SourceEvent, sent \in Seq([size : Sizes, at : Nat])
    PROVE  \E d2 : Steps(d, d2)
<1>1. PICK p, e, q, i, l, dr, v, t :
         /\ p = pending /\ e = enqueued /\ q = queuesize /\ i = inflight
         /\ l = log /\ dr = dropped /\ v = delivered /\ t = now
         /\ HeldBut(p, e, q, i, d, t, Source)
         /\ Rest = St(Tail(p), e, q, i, l, dr, v)
  BY Values, Zenon
<1>2. PICK u : u = now'
  OBVIOUS
<1>3. /\ p # <<>> /\ Head(p).src = Source /\ Head(p).at = u /\ endtime' = endtime
      /\ sampled' = sampled
  BY <1>1, <1>2 DEF SourceEvent, Take
<1>4. PICK size \in Sizes, gap \in Gaps, early \in BOOLEAN :
         LET x == [id |-> Len(sent) + 1, size |-> size, ecn |-> FALSE]
             f == QueueReceive(Rest, 1, x, now', early)
         IN  /\ sent' = Append(sent, [size |-> size, at |-> now'])
             /\ Become(IF x.id < Packets THEN Schedule(f, now' + gap, Source) ELSE f)
  BY DEF SourceEvent
<1>5. PICK x : x = [id |-> Len(sent) + 1, size |-> size, ecn |-> FALSE]
  OBVIOUS
<1>6. /\ x \in Packet /\ x.id = Len(sent) + 1 /\ x.size = size /\ x.ecn = FALSE
  <2>1. Len(sent) + 1 \in Nat
    OBVIOUS
  <2> QED
    BY <1>5, <2>1 DEF Packet
<1>7. PICK f : f = QueueReceive(Rest, 1, x, u, early)
  OBVIOUS
<1>8. /\ sent' = Append(sent, [size |-> x.size, at |-> u])
      /\ Become(IF x.id < Packets THEN Schedule(f, u + gap, Source) ELSE f)
  BY <1>2, <1>4, <1>5, <1>6, <1>7, Zenon
<1>9. PICK r : r = Tail(p)
  OBVIOUS
<1>10. /\ u \in Nat /\ t <= u /\ (endtime # 0 => u <= endtime) /\ t \in Nat
       /\ HeldBut(r, e, q, i, d, u, Source)
  <2>1. t \in Nat
    BY <1>1 DEF HeldBut
  <2> QED
    BY <1>1, <1>3, <1>9, <2>1, EventComes
<1>11. 1 \in HopSet /\ Queue(1) # Logger /\ Queue(1) # Source
  <2>1. 1 \in HopSet
    BY LinkAssumption DEF HopSet
  <2> QED
    BY <2>1, Names
<1>12. ReceivedAs(r, e, q, i, l, dr, d, u, Source, 1, x, early, i, v)
  BY <1>6, <1>10, <1>11, Received, Zenon
<1>13. PICK p2, e2, q2, l2, dr2, d2 :
          /\ QueueReceive(St(r, e, q, i, l, dr, v), 1, x, u, early) =
                St(p2, e2, q2, i, l2, dr2, v)
          /\ HeldBut(p2, e2, q2, i, d2, u, Source)
          /\ NoneFor(r, Source) => NoneFor(p2, Source)
          /\ \/ /\ Accepted(r, e, q, l, 1, x, u, p2, e2, q2, l2) /\ dr2 = dr
                /\ ~Rejects(q[1], 1, x, early)
                /\ d2 = [d EXCEPT ![1] = Append(@, LastOf(d[1], u) + x.size * PsPerByte[1])]
             \/ /\ p2 = r /\ e2 = e /\ q2 = q /\ l2 = Told(l, 1, "PKT_DROP", q[1], x, u)
                /\ dr2 = dr \cup {x.id} /\ d2 = d /\ Rejects(q[1], 1, x, early)
  BY <1>12, Zenon DEF ReceivedAs
<1>21. f = St(p2, e2, q2, i, l2, dr2, v)
  BY <1>1, <1>7, <1>9, <1>13
<1>14. PICK at \in Nat : at = u + gap /\ u <= at
  <2>1. gap \in Nat
    BY LinkAssumption
  <2> QED
    BY <1>10, <2>1
<1>15. PICK p3 : IF x.id < Packets THEN p3 = SourceIsPending(p2, endtime, at, Source) ELSE p3 = p2
  OBVIOUS
<1>16. Become(St(p3, e2, q2, i, l2, dr2, v))
  <2>1. CASE x.id < Packets
    <3>1. Schedule(f, at, Source) = St(p3, e2, q2, i, l2, dr2, v)
      BY <1>15, <1>21, <2>1, ScheduleIs
    <3> QED
      BY <1>8, <1>14, <2>1, <3>1
  <2>2. CASE ~(x.id < Packets)
    BY <1>8, <1>15, <1>21, <2>2
  <2> QED
    BY <2>1, <2>2
<1>17. /\ pending' = p3 /\ enqueued' = e2 /\ queuesize' = q2 /\ inflight' = i
       /\ log' = l2 /\ dropped' = dr2 /\ delivered' = v
  BY <1>16, BecomeIs, Zenon
<1>18. HeldBut(p3, e2, q2, i, d2, u, Source)
  <2>1. CASE x.id < Packets
    <3>1. Kept(p2, u) /\ endtime \in Nat
      BY <1>13 DEF HeldBut
    <3>2. Source \in Sources
      BY DEF Sources
    <3>3. Kept(p3, u) /\ Spares(p2, p3, Source)
      BY <1>10, <1>14, <1>15, <2>1, <3>1, <3>2, Scheduled
    <3> QED
      BY <1>13, <3>3, OtherAdded
  <2>2. CASE ~(x.id < Packets)
    BY <1>13, <1>15, <2>2
  <2> QED
    BY <2>1, <2>2
<1>19. Accepts(1, x, d, d2) \/ Drops(1, x, d, d2)
  <2>1. CASE Rejects(q[1], 1, x, early)
    <3>1. Drops(1, x, d, d2)
      BY <1>1, <1>2, <1>13, <1>17, <2>1, Zenon DEF Drops
    <3> QED
      BY <3>1
  <2>2. CASE ~Rejects(q[1], 1, x, early)
    <3>1. /\ Accepted(r, e, q, l, 1, x, u, p2, e2, q2, l2) /\ dr2 = dr
          /\ d2 = [d EXCEPT ![1] = Append(@, LastOf(d[1], u) + x.size * PsPerByte[1])]
      BY <1>13, <2>2, Zenon
    <3>2. ~Overflows(q[1], 1, x)
      BY <2>2, Zenon DEF Rejects
    <3>3. Accepts(1, x, d, d2)
      BY <1>1, <1>2, <1>17, <3>1, <3>2, Zenon DEF Accepts, Accepted
    <3> QED
      BY <3>3
  <2> QED
    BY <2>1, <2>2
<1>20. Sends(x, d, d2)
  BY <1>1, <1>2, <1>3, <1>6, <1>8, <1>17, <1>19, Zenon DEF Sends
<1> QED
  BY <1>1, <1>2, <1>3, <1>6, <1>10, <1>17, <1>18, <1>20, Zenon DEF Steps

\* The logger looks at its queue.
LEMMA LoggerStep ==
    ASSUME NEW d, Held(d), LoggerEvent
    PROVE  \E d2 : Steps(d, d2)
<1>1. PICK p, e, q, i, l, dr, v, t :
         /\ p = pending /\ e = enqueued /\ q = queuesize /\ i = inflight
         /\ l = log /\ dr = dropped /\ v = delivered /\ t = now
         /\ HeldBut(p, e, q, i, d, t, Source)
         /\ Rest = St(Tail(p), e, q, i, l, dr, v)
  BY Values, Zenon
<1>2. PICK u : u = now'
  OBVIOUS
<1>3. /\ p # <<>> /\ Head(p).src = Logger /\ Head(p).at = u /\ endtime' = endtime
      /\ sampled' = q[Logged] /\ sent' = sent
      /\ Become([Schedule(Rest, u + LogPeriod, Logger) EXCEPT
                    !.log = Sample(@, q[Logged], u)])
  BY <1>1, <1>2 DEF LoggerEvent, Take
<1>4. PICK r : r = Tail(p)
  OBVIOUS
<1>5. /\ u \in Nat /\ t <= u /\ (endtime # 0 => u <= endtime) /\ t \in Nat
      /\ HeldBut(r, e, q, i, d, u, Logger)
  <2>1. t \in Nat
    BY <1>1 DEF HeldBut
  <2> QED
    BY <1>1, <1>3, <1>4, <2>1, EventComes
<1>6. HeldBut(r, e, q, i, d, u, Source)
  <2>1. \A h \in HopSet : /\ Queue(h) # Logger /\ Queue(h) # Source
                          /\ Pipe(h) # Logger /\ Pipe(h) # Source
    BY Names
  <2> QED
    BY <1>5, <2>1, Zenon DEF HeldBut
<1>7. PICK at \in Nat : at = u + LogPeriod /\ u <= at
  <2>1. LogPeriod \in Nat
    BY LinkAssumption
  <2> QED
    BY <1>5, <2>1
<1>8. PICK p2 : p2 = SourceIsPending(r, endtime, at, Logger)
  OBVIOUS
<1>9. HeldBut(p2, e, q, i, d, u, Source)
  <2>1. Kept(r, u) /\ endtime \in Nat
    BY <1>6 DEF HeldBut
  <2>2. Logger \in Sources
    BY DEF Sources
  <2>3. Kept(p2, u) /\ Spares(r, p2, Logger)
    BY <1>5, <1>7, <1>8, <2>1, <2>2, Scheduled
  <2> QED
    BY <1>6, <2>3, OtherAdded
<1>10. PICK l2 : l2 = Sample(l, q[Logged], u)
  OBVIOUS
<1>11. Become(St(p2, e, q, i, l2, dr, v))
  <2>1. Schedule(Rest, at, Logger) = St(p2, e, q, i, l, dr, v)
    BY <1>1, <1>4, <1>8, ScheduleIs
  <2>2. [St(p2, e, q, i, l, dr, v) EXCEPT !.log = Sample(@, q[Logged], u)] =
            St(p2, e, q, i, l2, dr, v)
    BY <1>10 DEF St
  <2> QED
    BY <1>3, <1>7, <2>1, <2>2
<1>12. /\ pending' = p2 /\ enqueued' = e /\ queuesize' = q /\ inflight' = i
       /\ log' = l2 /\ dropped' = dr /\ delivered' = v
  BY <1>11, BecomeIs, Zenon
<1>13. Looks(d, d)
  BY <1>1, <1>2, <1>3, <1>10, <1>12, Zenon DEF Looks
<1> QED
  BY <1>1, <1>2, <1>3, <1>5, <1>9, <1>12, <1>13, Zenon DEF Steps

\* A pipe hands its first packet on.
LEMMA PipeStep ==
    ASSUME NEW d, Held(d), NEW h \in HopSet, PipeDelivers(h)
    PROVE  \E d2 : Steps(d, d2)
<1>1. PICK p, e, q, i, l, dr, v, t :
         /\ p = pending /\ e = enqueued /\ q = queuesize /\ i = inflight
         /\ l = log /\ dr = dropped /\ v = delivered /\ t = now
         /\ HeldBut(p, e, q, i, d, t, Source)
         /\ Rest = St(Tail(p), e, q, i, l, dr, v)
  BY Values, Zenon
<1>2. PICK u : u = now'
  OBVIOUS
<1>3. /\ p # <<>> /\ Head(p).src = Pipe(h) /\ Head(p).at = u /\ endtime' = endtime
      /\ sampled' = sampled /\ sent' = sent
      /\ \E early \in BOOLEAN : Become(PipeEvent(Rest, h, u, early))
  BY <1>1, <1>2 DEF PipeDelivers, Take
<1>4. PICK r : r = Tail(p)
  OBVIOUS
<1>5. PICK early \in BOOLEAN : Become(PipeEvent(St(r, e, q, i, l, dr, v), h, u, early))
  BY <1>1, <1>3, <1>4, Zenon
<1>6. /\ u \in Nat /\ t <= u /\ (endtime # 0 => u <= endtime) /\ t \in Nat
      /\ HeldBut(r, e, q, i, d, u, Pipe(h))
      /\ i[h] # <<>> /\ i[h][1].due = u /\ NoneFor(r, Pipe(h))
      /\ Flight(Delay[h], i[h], u)
  <2>1. t \in Nat
    BY <1>1 DEF HeldBut
  <2> QED
    BY <1>1, <1>3, <1>4, <2>1, EventComes
<1>7. h \in DOMAIN i /\ i[h] \in Seq(Slot) /\ i \in [HopSet -> Seq(Slot)]
  BY <1>1 DEF HeldBut
<1>8. PICK x : x = Head(i[h]).pkt
  OBVIOUS
<1>9. x \in Packet
  <2>1. Head(i[h]) \in Slot
    BY <1>6, <1>7, HeadTailProperties
  <2> QED
    BY <1>8, <2>1 DEF Slot
<1>10. PICK i2 : i2 = [i EXCEPT ![h] = Tail(@)]
  OBVIOUS
<1>11. ASSUME NEW p1, NEW e2, NEW q2, NEW l2, NEW dr2, NEW v2, NEW d2,
              SendOn(St(r, e, q, i2, l, dr, v), h, Head(i[h]).pkt, u, early) =
                  St(p1, e2, q2, i2, l2, dr2, v2),
              HeldBut(p1, e2, q2, i, d2, u, Pipe(h)), NoneFor(p1, Pipe(h))
       PROVE  /\ enqueued' = e2 /\ queuesize' = q2 /\ inflight' = i2
              /\ log' = l2 /\ dropped' = dr2 /\ delivered' = v2
              /\ HeldBut(pending', e2, q2, i2, d2, u, Source)
  <2>1. ResumedAs(r, e, q, i, l, dr, v, h, u, early, i2, p1, e2, q2, l2, dr2, v2)
    BY <1>6, <1>7, <1>10, <1>11, PipeEventIs, Zenon
  <2>2. PICK p2 : /\ PipeEvent(St(r, e, q, i, l, dr, v), h, u, early) =
                        St(p2, e2, q2, i2, l2, dr2, v2)
                  /\ Resumed(p1, i, h, i2, p2)
    BY <2>1, Zenon DEF ResumedAs
  <2>3. /\ pending' = p2 /\ enqueued' = e2 /\ queuesize' = q2 /\ inflight' = i2
        /\ log' = l2 /\ dropped' = dr2 /\ delivered' = v2
    <3>1. Become(St(p2, e2, q2, i2, l2, dr2, v2))
      BY <1>5, <2>2, Zenon
    <3> QED
      BY <3>1, BecomeIs, Zenon
  <2>4. HeldBut(p2, e2, q2, i2, d2, u, Source)
    BY <1>6, <1>11, <2>2, PipeResumes
  <2> QED
    BY <2>3, <2>4
<1>12. inflight[h] # <<>> /\ x = Head(inflight[h]).pkt /\ inflight[h][1].due = u
  BY <1>1, <1>6, <1>8
<1>13. CASE h < Hops
  <2>1. h + 1 \in HopSet
    BY <1>13, LinkAssumption DEF HopSet
  <2>4. PICK g \in HopSet : g = h + 1
    BY <2>1
  <2>2. Queue(g) # Pipe(h)
    BY Names
  <2>3. ReceivedAs(r, e, q, i, l, dr, d, u, Pipe(h), g, x, early, i2, v)
    BY <1>6, <1>9, <2>2, Received, Zenon
  <2>5. PICK p1, e2, q2, l2, dr2, d2 :
           /\ QueueReceive(St(r, e, q, i2, l, dr, v), g, x, u, early) =
                 St(p1, e2, q2, i2, l2, dr2, v)
           /\ HeldBut(p1, e2, q2, i, d2, u, Pipe(h))
           /\ NoneFor(r, Pipe(h)) => NoneFor(p1, Pipe(h))
           /\ \/ /\ Accepted(r, e, q, l, g, x, u, p1, e2, q2, l2) /\ dr2 = dr
                 /\ ~Rejects(q[g], g, x, early)
                 /\ d2 = [d EXCEPT ![g] = Append(@, LastOf(d[g], u) + x.size * PsPerByte[g])]
              \/ /\ p1 = r /\ e2 = e /\ q2 = q /\ l2 = Told(l, g, "PKT_DROP", q[g], x, u)
                 /\ dr2 = dr \cup {x.id} /\ d2 = d /\ Rejects(q[g], g, x, early)
    BY <2>3, Zenon DEF ReceivedAs
  <2>6. SendOn(St(r, e, q, i2, l, dr, v), h, Head(i[h]).pkt, u, early) =
            St(p1, e2, q2, i2, l2, dr2, v)
    BY <1>8, <1>13, <2>4, <2>5, Zenon DEF SendOn
  <2>7. /\ enqueued' = e2 /\ queuesize' = q2 /\ inflight' = i2
        /\ log' = l2 /\ dropped' = dr2 /\ delivered' = v
        /\ HeldBut(pending', e2, q2, i2, d2, u, Source)
    BY <1>6, <1>11, <2>5, <2>6, Zenon
  <2>8. Accepts(g, x, d, d2) \/ Drops(g, x, d, d2)
    <3>1. CASE Rejects(q[g], g, x, early)
      <4>1. Drops(g, x, d, d2)
        BY <1>1, <1>2, <2>5, <2>7, <3>1, Zenon DEF Drops
      <4> QED
        BY <4>1
    <3>2. CASE ~Rejects(q[g], g, x, early)
      <4>1. /\ Accepted(r, e, q, l, g, x, u, p1, e2, q2, l2) /\ dr2 = dr
            /\ d2 = [d EXCEPT ![g] = Append(@, LastOf(d[g], u) + x.size * PsPerByte[g])]
        BY <2>5, <3>2, Zenon
      <4>2. ~Overflows(q[g], g, x)
        BY <3>2, Zenon DEF Rejects
      <4>3. Accepts(g, x, d, d2)
        BY <1>1, <1>2, <2>7, <4>1, <4>2, Zenon DEF Accepts, Accepted
      <4> QED
        BY <4>3
    <3> QED
      BY <3>1, <3>2
  <2>9. HandsOn(h, x, d, d2)
    BY <1>1, <1>2, <1>3, <1>10, <1>12, <1>13, <2>4, <2>7, <2>8, Zenon DEF HandsOn
  <2> QED
    BY <1>1, <1>2, <1>3, <1>6, <1>9, <2>7, <2>9, Zenon DEF Steps
<1>14. CASE ~(h < Hops)
  <2>1. h = Hops
    BY <1>14, LinkAssumption DEF HopSet
  <2>2. PICK v2 : v2 = Append(v, [pkt |-> x, at |-> u])
    OBVIOUS
  <2>3. SendOn(St(r, e, q, i2, l, dr, v), h, Head(i[h]).pkt, u, early) =
            St(r, e, q, i2, l, dr, v2)
    <3>1. SendOn(St(r, e, q, i2, l, dr, v), h, Head(i[h]).pkt, u, early) =
              [St(r, e, q, i2, l, dr, v) EXCEPT !.delivered = Append(@, [pkt |-> x, at |-> u])]
      BY <1>8, <1>14, Zenon DEF SendOn
    <3>2. [St(r, e, q, i2, l, dr, v) EXCEPT !.delivered = Append(@, [pkt |-> x, at |-> u])] =
              St(r, e, q, i2, l, dr, v2)
      <4>1. PICK z : z = [pkt |-> x, at |-> u]
        OBVIOUS
      <4>2. v2 = Append(v, z)
        BY <2>2, <4>1
      <4>3. [St(r, e, q, i2, l, dr, v) EXCEPT !.delivered = Append(@, z)] =
                St(r, e, q, i2, l, dr, v2)
        <5>1. St(r, e, q, i2, l, dr, v).delivered = v
          BY DEF St
        <5>2. [St(r, e, q, i2, l, dr, v) EXCEPT !.delivered = v2] =
                  St(r, e, q, i2, l, dr, v2)
          BY DEF St
        <5> QED
          BY <4>2, <5>1, <5>2
      <4> QED
        BY <4>1, <4>3
    <3> QED
      BY <3>1, <3>2, Zenon
  <2>4. /\ enqueued' = e /\ queuesize' = q /\ inflight' = i2
        /\ log' = l /\ dropped' = dr /\ delivered' = v2
        /\ HeldBut(pending', e, q, i2, d, u, Source)
    BY <1>6, <1>11, <2>3, Zenon
  <2>5. HandsOn(h, x, d, d)
    BY <1>1, <1>2, <1>3, <1>10, <1>12, <2>1, <2>2, <2>4, Zenon DEF HandsOn
  <2> QED
    BY <1>1, <1>2, <1>3, <1>6, <1>9, <2>4, <2>5, Zenon DEF Steps
<1> QED
  BY <1>13, <1>14

\* Every event is a step of the route.
LEMMA StepIs ==
    ASSUME NEW d, Held(d), Next, sent \in Seq([size : Sizes, at : Nat])
    PROVE  \E d2 : Steps(d, d2)
BY QueueStep, PipeStep, LoggerStep, SourceStep DEF Next

----------------------------------------------------------------------------
(* The schedule is an invariant. *)

\* What the source has sent, and when.
SentOk == /\ sent \in Seq([size : Sizes, at : Nat])
          /\ \A k \in 1 .. Len(sent) : sent[k].at <= now

\* What the record of the packets sent says of one of them.
LEMMA SentIs ==
    ASSUME SentOk, NEW k \in 1 .. Len(sent)
    PROVE  sent[k].at \in Nat /\ sent[k].at <= now
<1>1. sent \in Seq([size : Sizes, at : Nat]) /\ sent[k].at <= now
  BY DEF SentOk
<1>2. PICK T : T = [size : Sizes, at : Nat]
  OBVIOUS
<1>3. sent[k] \in T
  <2>1. sent \in Seq(T)
    BY <1>1, <1>2
  <2> QED
    BY <2>1
<1> QED
  BY <1>1, <1>2, <1>3

\* The record of the packets sent stays right.
LEMMA SentGrows ==
    ASSUME SentOk, NEW d, NEW d2, Steps(d, d2)
    PROVE  SentOk'
<1>1. now \in Nat /\ now' \in Nat /\ now <= now'
  BY DEF Steps
<1>2. CASE sent' = sent
  <2>1. ASSUME NEW k \in 1 .. Len(sent) PROVE sent[k].at <= now'
    <3>1. sent[k].at \in Nat /\ sent[k].at <= now
      BY SentIs
    <3> QED
      BY <1>1, <3>1
  <2> QED
    BY <1>2, <2>1 DEF SentOk
<1>3. ASSUME NEW x \in Packet, Sends(x, d, d2) PROVE SentOk'
  <2>1. PICK r : r = [size |-> x.size, at |-> now']
    OBVIOUS
  <2>2. sent' = Append(sent, r)
    BY <1>3, <2>1, Zenon DEF Sends
  <2>3. r \in [size : Sizes, at : Nat] /\ r.at = now'
    BY <1>1, <2>1 DEF Packet
  <2>4. PICK k \in Nat : k = Len(sent)
    BY DEF SentOk
  <2>5. /\ sent' \in Seq([size : Sizes, at : Nat]) /\ Len(sent') = k + 1
        /\ sent'[k + 1] = r /\ \A j \in 1 .. k : sent'[j] = sent[j]
    BY <2>2, <2>3, <2>4, AppendProperties DEF SentOk
  <2>6. ASSUME NEW j \in 1 .. k + 1 PROVE sent'[j].at <= now'
    <3>1. CASE j = k + 1
      BY <1>1, <2>3, <2>5, <3>1
    <3>2. CASE j # k + 1
      <4>1. j \in 1 .. k
        BY <3>2
      <4>2. sent[j].at \in Nat /\ sent[j].at <= now
        BY <2>4, <4>1, SentIs
      <4> QED
        BY <1>1, <2>5, <4>1, <4>2
    <3> QED
      BY <3>1, <3>2
  <2> QED
    BY <2>5, <2>6 DEF SentOk
<1> QED
  BY <1>2, <1>3 DEF Steps, Looks, Serves, HandsOn

\* A step leaves the route in order.
LEMMA HeldNext ==
    ASSUME NEW d, NEW d2, Steps(d, d2)
    PROVE  Held(d2)'
BY DEF Steps, Held, HeldBut, QueueOk, PipeOk, Kept, Due

\* The route is in order at the start.
LEMMA HeldInit ==
    ASSUME Init
    PROVE  SentOk /\ \E d : Held(d) /\ d = [h \in HopSet |-> <<>>]
<1>1. PICK d : d = [h \in HopSet |-> <<>>]
  OBVIOUS
<1>2. /\ now = 0 /\ endtime \in Nat /\ sent = <<>>
      /\ enqueued = [h \in HopSet |-> <<>>] /\ queuesize = [h \in HopSet |-> 0]
      /\ inflight = [h \in HopSet |-> <<>>]
  BY LinkAssumption DEF Init
<1>3. PICK a, b : a = [at |-> 0, src |-> Logger] /\ b = [at |-> 0, src |-> Source]
  OBVIOUS
<1>4. /\ pending \in Seq(Event)
      /\ \A k \in 1 .. Len(pending) : pending[k] \in {a, b}
  <2>1. a \in Event /\ b \in Event
    BY <1>3, Names DEF Event, Sources
  <2>2. pending = (IF endtime # 0 THEN <<a>> ELSE <<>>) \o <<b>>
    BY <1>3 DEF Init
  <2>3. pending = <<a, b>> \/ pending = <<b>>
    <3>1. CASE endtime # 0
      <4>1. pending = <<a>> \o <<b>>
        BY <2>2, <3>1
      <4>2. <<a>> \o <<b>> = <<a, b>>
        <5>1. PICK x, y, z : x = <<a>> /\ y = <<b>> /\ z = <<a, b>>
          OBVIOUS
        <5>2. /\ x \in Seq(Event) /\ y \in Seq(Event) /\ z \in Seq(Event)
              /\ Len(x) = 1 /\ Len(y) = 1 /\ Len(z) = 2
              /\ x[1] = a /\ y[1] = b /\ z[1] = a /\ z[2] = b
          BY <2>1, <5>1
        <5>3. /\ x \o y \in Seq(Event) /\ Len(x \o y) = 2
              /\ \A k \in 1 .. 2 : (x \o y)[k] = IF k <= 1 THEN x[k] ELSE y[k - 1]
          BY <5>2, ConcatProperties
        <5>4. \A k \in 1 .. 2 : (x \o y)[k] = z[k]
          <6>1. (x \o y)[1] = a
            BY <5>2, <5>3
          <6>2. (x \o y)[2] = b
            BY <5>2, <5>3
          <6>3. (x \o y)[1] = z[1] /\ (x \o y)[2] = z[2]
            BY <5>2, <6>1, <6>2
          <6>4. \A k \in 1 .. 2 : k = 1 \/ k = 2
            OBVIOUS
          <6> QED
            BY <6>3, <6>4, Zenon
        <5>5. x \o y = z
          BY <5>2, <5>3, <5>4, SeqEqual
        <5> QED
          BY <5>1, <5>5
      <4> QED
        BY <4>1, <4>2, Zenon
    <3>2. CASE endtime = 0
      <4>1. pending = <<>> \o <<b>>
        BY <2>2, <3>2
      <4>2. <<>> \o <<b>> = <<b>>
        OBVIOUS
      <4> QED
        BY <4>1, <4>2, Zenon
    <3> QED
      BY <3>1, <3>2
  <2>4. CASE pending = <<a, b>>
    <3>1. <<a, b>> \in Seq(Event) /\ Len(<<a, b>>) = 2
      BY <2>1
    <3>2. \A k \in 1 .. 2 : <<a, b>>[k] \in {a, b}
      OBVIOUS
    <3> QED
      BY <2>4, <3>1, <3>2, Zenon
  <2>5. CASE pending = <<b>>
    <3>1. <<b>> \in Seq(Event) /\ Len(<<b>>) = 1
      BY <2>1
    <3>2. \A k \in 1 .. 1 : <<b>>[k] \in {a, b}
      OBVIOUS
    <3> QED
      BY <2>5, <3>1, <3>2, Zenon
  <2> QED
    BY <2>3, <2>4, <2>5
<1>5. ASSUME NEW k \in 1 .. Len(pending)
      PROVE  pending[k].at = 0 /\ pending[k].src \in {Source, Logger}
  BY <1>3, <1>4
<1>6. Kept(pending, 0)
  <2>1. \A k \in 1 .. Len(pending) : pending[k].at >= 0 /\ (endtime # 0 => pending[k].at <= endtime)
    BY <1>2, <1>5
  <2>2. \A j, k \in 1 .. Len(pending) : j < k => pending[j].at <= pending[k].at
    BY <1>5
  <2> QED
    BY <1>4, <2>1, <2>2, Zenon DEF Kept
<1>7. ASSUME NEW h \in HopSet
      PROVE  NoneFor(pending, Queue(h)) /\ NoneFor(pending, Pipe(h))
  <2>1. /\ Queue(h) # Source /\ Queue(h) # Logger
        /\ Pipe(h) # Source /\ Pipe(h) # Logger
    BY Names
  <2> QED
    BY <1>5, <2>1 DEF NoneFor
<1>8. ASSUME NEW h \in HopSet
      PROVE  /\ QueueOk(pending, h, enqueued[h], queuesize[h], d[h], 0)
             /\ PipeOk(pending, h, inflight[h], 0)
  <2>1. enqueued[h] = <<>> /\ queuesize[h] = 0 /\ d[h] = <<>> /\ inflight[h] = <<>>
    BY <1>1, <1>2
  <2>2. Line(PsPerByte[h], <<>>, 0, <<>>, 0)
    <3>1. <<>> \in Seq(Packet)
      OBVIOUS
    <3>2. SizeOf(<<>>) = 0
      BY <3>1, SizeIs
    <3>3. <<>> \in Seq(Nat)
      OBVIOUS
    <3>4. \A j, k \in 1 .. Len(<<>>) : FALSE
      OBVIOUS
    <3> QED
      BY <3>1, <3>2, <3>3, <3>4 DEF Line
  <2>3. Flight(Delay[h], <<>>, 0)
    BY DEF Flight
  <2> QED
    BY <1>7, <2>1, <2>2, <2>3 DEF QueueOk, PipeOk
<1>9. /\ enqueued \in [HopSet -> Seq(Packet)] /\ queuesize \in [HopSet -> Nat]
      /\ inflight \in [HopSet -> Seq(Slot)] /\ d \in [HopSet -> Seq(Nat)]
  BY <1>1, <1>2
<1>10. Held(d)
  BY <1>2, <1>6, <1>8, <1>9, Zenon DEF Held, HeldBut
<1>11. SentOk
  BY <1>2 DEF SentOk
<1> QED
  BY <1>1, <1>10, <1>11

----------------------------------------------------------------------------

ScheduleInv == SentOk /\ \E d : Held(d)

\* The schedule is an invariant.
LEMMA ScheduleNext == ScheduleInv /\ [Next]_vars => ScheduleInv'
<1> SUFFICES ASSUME ScheduleInv, [Next]_vars PROVE ScheduleInv'
  OBVIOUS
<1>1. PICK d : Held(d)
  BY DEF ScheduleInv
<1>2. CASE Next
  <2>1. PICK d2 : Steps(d, d2)
    BY <1>1, <1>2, StepIs DEF ScheduleInv, SentOk
  <2>2. Held(d2)' /\ SentOk'
    BY <2>1, HeldNext, SentGrows DEF ScheduleInv
  <2> QED
    BY <2>2 DEF ScheduleInv
<1>3. CASE UNCHANGED vars
  <2>1. Held(d)'
    BY <1>1, <1>3 DEF vars, Held, HeldBut, QueueOk, PipeOk, Kept, Due
  <2>2. SentOk'
    BY <1>3 DEF vars, ScheduleInv, SentOk
  <2> QED
    BY <2>1, <2>2 DEF ScheduleInv
<1> QED
  BY <1>2, <1>3

\* A source whose event is pending is in the list once.
LEMMA OnceIn ==
    ASSUME NEW src, NEW a, OneFor(pending, src, a)
    PROVE  \E k \in EventsOf(src) : EventsOf(src) = {k} /\ pending[k].at = a
BY DEF OneFor, EventsOf

\* A source that the list does not name has no events.
LEMMA NotIn ==
    ASSUME NEW src, NoneFor(pending, src)
    PROVE  EventsOf(src) = {}
BY DEF NoneFor, EventsOf

\* The schedule gives every server its one event.
LEMMA OneEvent == ScheduleInv => OneEventPerServer
<1> SUFFICES ASSUME ScheduleInv PROVE OneEventPerServer
  OBVIOUS
<1>1. PICK d : Held(d)
  BY DEF ScheduleInv
<1>2. ASSUME NEW h \in HopSet
      PROVE  IF enqueued[h] = <<>> THEN EventsOf(Queue(h)) = {}
             ELSE \/ Cardinality(EventsOf(Queue(h))) = 1
                  \/ /\ EventsOf(Queue(h)) = {} /\ endtime # 0
                     /\ now + DrainTime(h, Head(enqueued[h])) > endtime
  <2>1. QueueOk(pending, h, enqueued[h], queuesize[h], d[h], now) /\ now \in Nat /\ endtime \in Nat
    BY <1>1, Names DEF Held, HeldBut
  <2>2. CASE enqueued[h] = <<>>
    BY <2>1, <2>2, NotIn DEF QueueOk
  <2>3. CASE enqueued[h] # <<>>
    <3>1. Due(pending, Queue(h), d[h][1])
      BY <2>1, <2>3 DEF QueueOk
    <3>2. CASE OneFor(pending, Queue(h), d[h][1])
      <4>1. \E k \in EventsOf(Queue(h)) : EventsOf(Queue(h)) = {k}
        BY <3>2, OnceIn
      <4>2. Cardinality(EventsOf(Queue(h))) = 1
        BY <4>1, FS_Singleton
      <4> QED
        BY <2>3, <4>2
    <3>3. CASE ~OneFor(pending, Queue(h), d[h][1])
      <4>1. NoneFor(pending, Queue(h)) /\ endtime # 0 /\ d[h][1] > endtime
        BY <3>1, <3>3 DEF Due
      <4>2. EventsOf(Queue(h)) = {}
        BY <4>1, NotIn
      <4>3. /\ Line(PsPerByte[h], enqueued[h], queuesize[h], d[h], now)
        BY <2>1 DEF QueueOk
      <4>4. /\ d[h] \in Seq(Nat) /\ Len(d[h]) = Len(enqueued[h])
            /\ enqueued[h] \in Seq(Packet)
            /\ d[h][1] <= now + enqueued[h][1].size * PsPerByte[h]
        BY <2>3, <4>3 DEF Line
      <4>5. Head(enqueued[h]) = enqueued[h][1] /\ enqueued[h][1] \in Packet /\ d[h][1] \in Nat
        BY <2>3, <4>4
      <4>6. PICK w \in Nat : w = enqueued[h][1].size * PsPerByte[h]
        <5>1. enqueued[h][1].size \in Nat /\ PsPerByte[h] \in Nat
          BY <4>5, PacketSize, Rates
        <5> QED
          BY <5>1, Scale
      <4>7. now + w > endtime
        BY <2>1, <4>1, <4>4, <4>5, <4>6
      <4> QED
        BY <2>3, <4>1, <4>2, <4>5, <4>6, <4>7 DEF DrainTime
    <3> QED
      BY <3>2, <3>3
  <2> QED
    BY <2>2, <2>3
<1>3. ASSUME NEW h \in HopSet
      PROVE  IF inflight[h] = <<>> THEN EventsOf(Pipe(h)) = {}
             ELSE \/ \E i \in EventsOf(Pipe(h)) :
                        /\ EventsOf(Pipe(h)) = {i}
                        /\ pending[i].at = Head(inflight[h]).due
                  \/ /\ EventsOf(Pipe(h)) = {} /\ endtime # 0
                     /\ Head(inflight[h]).due > endtime
  <2>1. PipeOk(pending, h, inflight[h], now)
    BY <1>1, Names DEF Held, HeldBut
  <2>2. CASE inflight[h] = <<>>
    BY <2>1, <2>2, NotIn DEF PipeOk
  <2>3. CASE inflight[h] # <<>>
    <3>1. Due(pending, Pipe(h), inflight[h][1].due)
      BY <2>1, <2>3 DEF PipeOk
    <3>2. Head(inflight[h]) = inflight[h][1]
      BY <2>1, <2>3 DEF PipeOk, Flight
    <3>3. CASE OneFor(pending, Pipe(h), inflight[h][1].due)
      BY <2>3, <3>2, <3>3, OnceIn
    <3>4. CASE ~OneFor(pending, Pipe(h), inflight[h][1].due)
      BY <2>3, <3>1, <3>2, <3>4, NotIn DEF Due
    <3> QED
      BY <3>3, <3>4
  <2> QED
    BY <2>2, <2>3
<1> QED
  BY <1>2, <1>3, Zenon DEF OneEventPerServer

\* A queue or a pipe that holds packets has exactly one event pending, at the
\* time its first packet leaves, and an empty one has none; the event is
\* missing only when it falls after the end of the simulation
\* (queue.cpp:46-48, 79-82, pipe.cpp:14-18, 35-39, eventlist.cpp:79).
THEOREM ServersAreScheduled == Spec => []OneEventPerServer
<1>1. Init => ScheduleInv
  BY HeldInit DEF ScheduleInv
<1>2. ScheduleInv /\ [Next]_vars => ScheduleInv'
  BY ScheduleNext
<1>3. ScheduleInv => OneEventPerServer
  BY OneEvent
<1> QED
  BY <1>1, <1>2, <1>3, PTL DEF Spec

----------------------------------------------------------------------------
(* Identities. *)

\* A sequence of numbers that begins with x, and what is behind it.
LEMMA Parts ==
    ASSUME NEW S, NEW s \in Seq(S), s # <<>>
    PROVE  /\ Head(s) \in S /\ Tail(s) \in Seq(S) /\ Head(s) = s[1] /\ 1 \in 1 .. Len(s)
           /\ s = <<Head(s)>> \o Tail(s)
<1>1. PICK x, r, k : x = Head(s) /\ r = Tail(s) /\ k = Len(s)
  OBVIOUS
<1>2. /\ x \in S /\ r \in Seq(S) /\ k \in Nat /\ k # 0 /\ Len(r) = k - 1 /\ x = s[1]
      /\ \A j \in 1 .. k - 1 : r[j] = s[j + 1]
  BY <1>1, HeadTailProperties
<1>3. PICK t : t = <<x>>
  OBVIOUS
<1>4. t \in Seq(S) /\ Len(t) = 1 /\ t[1] = x
  BY <1>2, <1>3
<1>5. PICK u : u = t \o r
  OBVIOUS
<1>6. /\ u \in Seq(S) /\ Len(u) = k
      /\ \A j \in 1 .. k : u[j] = IF j <= 1 THEN t[j] ELSE r[j - 1]
  <2>1. t \in Seq(S) /\ r \in Seq(S)
    BY <1>2, <1>4
  <2>2. /\ t \o r \in Seq(S) /\ Len(t \o r) = Len(t) + Len(r)
        /\ \A j \in 1 .. Len(t) + Len(r) :
              (t \o r)[j] = IF j <= Len(t) THEN t[j] ELSE r[j - Len(t)]
    BY <2>1, ConcatProperties
  <2>3. Len(t) + Len(r) = k
    BY <1>2, <1>4
  <2> QED
    BY <1>4, <1>5, <2>2, <2>3, Zenon
<1>7. ASSUME NEW j \in 1 .. k PROVE u[j] = s[j]
  <2>1. CASE j = 1
    BY <1>2, <1>4, <1>6, <2>1
  <2>2. CASE j # 1
    <3>1. j - 1 \in 1 .. k - 1 /\ (j - 1) + 1 = j /\ ~(j <= 1)
      BY <1>2, <2>2
    <3> QED
      BY <1>2, <1>6, <3>1
  <2> QED
    BY <2>1, <2>2
<1>8. u = s
  BY <1>1, <1>6, <1>7, SeqEqual
<1> QED
  BY <1>1, <1>2, <1>3, <1>5, <1>8

\* The numbers of the packets of a queue.
LEMMA IdsOf ==
    ASSUME NEW e \in Seq(Packet)
    PROVE  /\ Ids(e) \in Seq(Nat) /\ Len(Ids(e)) = Len(e)
           /\ \A j \in 1 .. Len(e) : Ids(e)[j] = e[j].id
<1>1. \A j \in 1 .. Len(e) : e[j].id \in Nat
  <2>1. \A x \in Packet : x.id \in Nat
    BY DEF Packet
  <2> QED
    BY <2>1
<1>2. PICK k \in Nat : k = Len(e)
  OBVIOUS
<1>3. [j \in 1 .. k |-> e[j].id] \in Seq(Nat)
  BY <1>1, <1>2
<1> QED
  BY <1>2, <1>3 DEF Ids

\* The identities in a queue that a packet joins.
LEMMA IdsJoin ==
    ASSUME NEW e \in Seq(Packet), NEW x \in Packet
    PROVE  Ids(Append(e, x)) = Append(Ids(e), x.id)
<1>1. PICK f, k : f = Append(e, x) /\ k = Len(e)
  OBVIOUS
<1>2. f \in Seq(Packet) /\ Len(f) = k + 1 /\ k \in Nat /\ f[k + 1] = x
      /\ \A j \in 1 .. k : f[j] = e[j]
  BY <1>1, AppendProperties
<1>3. PICK a, b, c : a = Ids(f) /\ b = Ids(e) /\ c = Append(b, x.id)
  OBVIOUS
<1>4. a \in Seq(Nat) /\ Len(a) = k + 1 /\ \A j \in 1 .. k + 1 : a[j] = f[j].id
  BY <1>2, <1>3, IdsOf
<1>5. b \in Seq(Nat) /\ Len(b) = k /\ \A j \in 1 .. k : b[j] = e[j].id
  BY <1>1, <1>3, IdsOf
<1>6. x.id \in Nat
  BY DEF Packet
<1>7. c \in Seq(Nat) /\ Len(c) = k + 1 /\ c[k + 1] = x.id /\ \A j \in 1 .. k : c[j] = b[j]
  BY <1>3, <1>5, <1>6, AppendProperties
<1>8. ASSUME NEW j \in 1 .. k + 1 PROVE a[j] = c[j]
  <2>1. CASE j = k + 1
    BY <1>2, <1>4, <1>7, <2>1
  <2>2. CASE j # k + 1
    <3>1. j \in 1 .. k
      BY <1>2, <2>2
    <3> QED
      BY <1>2, <1>4, <1>5, <1>7, <3>1
  <2> QED
    BY <2>1, <2>2
<1>9. a = c
  BY <1>4, <1>7, <1>8, SeqEqual
<1> QED
  BY <1>1, <1>3, <1>9

\* The identities in a queue whose first packet leaves.
LEMMA IdsLeave ==
    ASSUME NEW e \in Seq(Packet), e # <<>>
    PROVE  /\ Ids(Tail(e)) = Tail(Ids(e)) /\ Head(Ids(e)) = Head(e).id
           /\ Ids(e) # <<>> /\ Ids(e) \in Seq(Nat)
<1>1. PICK f, k : f = Tail(e) /\ k = Len(e)
  OBVIOUS
<1>2. /\ f \in Seq(Packet) /\ k \in Nat /\ k # 0 /\ Len(f) = k - 1 /\ Head(e) = e[1]
      /\ \A j \in 1 .. k - 1 : f[j] = e[j + 1]
  BY <1>1, HeadTailProperties
<1>3. PICK a, b, c : a = Ids(f) /\ b = Ids(e) /\ c = Tail(b)
  OBVIOUS
<1>4. a \in Seq(Nat) /\ Len(a) = k - 1 /\ \A j \in 1 .. k - 1 : a[j] = f[j].id
  BY <1>2, <1>3, IdsOf
<1>5. b \in Seq(Nat) /\ Len(b) = k /\ b # <<>> /\ \A j \in 1 .. k : b[j] = e[j].id
  BY <1>1, <1>2, <1>3, IdsOf
<1>6. c \in Seq(Nat) /\ Len(c) = k - 1 /\ Head(b) = b[1]
      /\ \A j \in 1 .. k - 1 : c[j] = b[j + 1]
  BY <1>3, <1>5, HeadTailProperties
<1>7. ASSUME NEW j \in 1 .. k - 1 PROVE a[j] = c[j]
  <2>1. j + 1 \in 1 .. k
    BY <1>2
  <2> QED
    BY <1>2, <1>4, <1>5, <1>6, <2>1
<1>8. a = c
  BY <1>4, <1>6, <1>7, SeqEqual
<1>9. Head(b) = Head(e).id
  <2>1. 1 \in 1 .. k
    BY <1>2
  <2> QED
    BY <1>2, <1>5, <1>6, <2>1
<1> QED
  BY <1>1, <1>3, <1>5, <1>8, <1>9

\* The packets of a pipe have identities.
LEMMA SlotIds == \A x \in Slot : x.pkt.id \in Nat
BY DEF Slot, Packet

\* The numbers of the packets of a pipe.
LEMMA PipeIdsOf ==
    ASSUME NEW S, \A x \in S : x.pkt.id \in Nat, NEW e \in Seq(S)
    PROVE  /\ PipeIds(e) \in Seq(Nat) /\ Len(PipeIds(e)) = Len(e)
           /\ \A j \in 1 .. Len(e) : PipeIds(e)[j] = e[j].pkt.id
<1>1. \A j \in 1 .. Len(e) : e[j].pkt.id \in Nat
  <2>1. \A j \in 1 .. Len(e) : e[j] \in S
    OBVIOUS
  <2> QED
    BY <2>1
<1>2. PICK k \in Nat : k = Len(e)
  OBVIOUS
<1>3. [j \in 1 .. k |-> e[j].pkt.id] \in Seq(Nat)
  BY <1>1, <1>2
<1> QED
  BY <1>2, <1>3 DEF PipeIds

\* The identities in a pipe, or at the destination, that a packet joins.
LEMMA PipeIdsJoin ==
    ASSUME NEW S, \A x \in S : x.pkt.id \in Nat, NEW e \in Seq(S), NEW x \in S
    PROVE  PipeIds(Append(e, x)) = Append(PipeIds(e), x.pkt.id)
<1>1. PICK f, k : f = Append(e, x) /\ k = Len(e)
  OBVIOUS
<1>2. f \in Seq(S) /\ Len(f) = k + 1 /\ k \in Nat /\ f[k + 1] = x
      /\ \A j \in 1 .. k : f[j] = e[j]
  BY <1>1, AppendProperties
<1>3. PICK a, b, c : a = PipeIds(f) /\ b = PipeIds(e) /\ c = Append(b, x.pkt.id)
  OBVIOUS
<1>4. a \in Seq(Nat) /\ Len(a) = k + 1 /\ \A j \in 1 .. k + 1 : a[j] = f[j].pkt.id
  BY <1>2, <1>3, PipeIdsOf
<1>5. b \in Seq(Nat) /\ Len(b) = k /\ \A j \in 1 .. k : b[j] = e[j].pkt.id
  BY <1>1, <1>3, PipeIdsOf
<1>6. x.pkt.id \in Nat
  OBVIOUS
<1>7. c \in Seq(Nat) /\ Len(c) = k + 1 /\ c[k + 1] = x.pkt.id /\ \A j \in 1 .. k : c[j] = b[j]
  BY <1>3, <1>5, <1>6, AppendProperties
<1>8. ASSUME NEW j \in 1 .. k + 1 PROVE a[j] = c[j]
  <2>1. CASE j = k + 1
    BY <1>2, <1>4, <1>7, <2>1
  <2>2. CASE j # k + 1
    <3>1. j \in 1 .. k
      BY <1>2, <2>2
    <3>2. a[j] = f[j].pkt.id /\ f[j] = e[j] /\ b[j] = e[j].pkt.id /\ c[j] = b[j]
      <4>1. a[j] = f[j].pkt.id
        BY <1>4
      <4>2. f[j] = e[j]
        BY <1>2, <3>1
      <4>3. b[j] = e[j].pkt.id
        BY <1>5, <3>1
      <4>4. c[j] = b[j]
        BY <1>7, <3>1
      <4> QED
        BY <4>1, <4>2, <4>3, <4>4
    <3> QED
      BY <3>2, Zenon
  <2> QED
    BY <2>1, <2>2
<1>9. a = c
  BY <1>4, <1>7, <1>8, SeqEqual
<1> QED
  BY <1>1, <1>3, <1>9

\* The identities in a pipe whose first packet leaves.
LEMMA PipeIdsLeave ==
    ASSUME NEW e \in Seq(Slot), e # <<>>
    PROVE  /\ PipeIds(Tail(e)) = Tail(PipeIds(e)) /\ Head(PipeIds(e)) = Head(e).pkt.id
           /\ PipeIds(e) # <<>> /\ PipeIds(e) \in Seq(Nat)
<1>1. PICK f, k : f = Tail(e) /\ k = Len(e)
  OBVIOUS
<1>2. /\ f \in Seq(Slot) /\ k \in Nat /\ k # 0 /\ Len(f) = k - 1 /\ Head(e) = e[1]
      /\ \A j \in 1 .. k - 1 : f[j] = e[j + 1]
  BY <1>1, HeadTailProperties
<1>3. PICK a, b, c : a = PipeIds(f) /\ b = PipeIds(e) /\ c = Tail(b)
  OBVIOUS
<1>4. a \in Seq(Nat) /\ Len(a) = k - 1 /\ \A j \in 1 .. k - 1 : a[j] = f[j].pkt.id
  BY <1>2, <1>3, PipeIdsOf, SlotIds
<1>5. b \in Seq(Nat) /\ Len(b) = k /\ b # <<>> /\ \A j \in 1 .. k : b[j] = e[j].pkt.id
  BY <1>1, <1>2, <1>3, PipeIdsOf, SlotIds
<1>6. c \in Seq(Nat) /\ Len(c) = k - 1 /\ Head(b) = b[1]
      /\ \A j \in 1 .. k - 1 : c[j] = b[j + 1]
  BY <1>3, <1>5, HeadTailProperties
<1>7. ASSUME NEW j \in 1 .. k - 1 PROVE a[j] = c[j]
  <2>1. j + 1 \in 1 .. k
    BY <1>2
  <2> QED
    BY <1>2, <1>4, <1>5, <1>6, <2>1
<1>8. a = c
  BY <1>4, <1>6, <1>7, SeqEqual
<1>9. Head(b) = Head(e).pkt.id
  <2>1. 1 \in 1 .. k
    BY <1>2
  <2> QED
    BY <1>2, <1>5, <1>6, <2>1
<1> QED
  BY <1>1, <1>3, <1>5, <1>8, <1>9

----------------------------------------------------------------------------
(* What a hop holds, oldest first *)

Block(e, i) == PipeIds(i) \o Ids(e)

\* What a hop holds is a sequence of identities.
LEMMA BlockType ==
    ASSUME NEW e \in Seq(Packet), NEW i \in Seq(Slot)
    PROVE  Block(e, i) \in Seq(Nat)
BY IdsOf, PipeIdsOf, SlotIds, ConcatProperties DEF Block

\* A packet that joins the queue is the last of its hop.
LEMMA BlockJoins ==
    ASSUME NEW e \in Seq(Packet), NEW i \in Seq(Slot), NEW x \in Packet
    PROVE  Block(Append(e, x), i) = Append(Block(e, i), x.id)
<1>1. PICK a, b, c : a = PipeIds(i) /\ b = Ids(e) /\ c = <<x.id>>
  OBVIOUS
<1>2. a \in Seq(Nat) /\ b \in Seq(Nat) /\ x.id \in Nat /\ c \in Seq(Nat)
  <2>1. x.id \in Nat
    BY DEF Packet
  <2> QED
    BY <1>1, <2>1, IdsOf, PipeIdsOf, SlotIds
<1>3. Ids(Append(e, x)) = b \o c
  BY <1>1, <1>2, IdsJoin, AppendIsConcat
<1>4. a \o b \in Seq(Nat)
  BY <1>2
<1>5. Append(a \o b, x.id) = (a \o b) \o c
  BY <1>1, <1>2, <1>4, AppendIsConcat
<1>6. Assoc(a, b, c)
  BY <1>2, AnyOrder, Zenon
<1>7. (a \o b) \o c = a \o (b \o c)
  BY <1>6, Zenon DEF Assoc
<1> QED
  BY <1>1, <1>3, <1>5, <1>7, Zenon DEF Block

\* A packet that is served stays where it is in its hop.
LEMMA BlockServes ==
    ASSUME NEW e \in Seq(Packet), e # <<>>, NEW i \in Seq(Slot), NEW y \in Slot,
           y.pkt.id = Head(e).id
    PROVE  Block(Tail(e), Append(i, y)) = Block(e, i)
<1>1. PICK a, b, c, n : a = PipeIds(i) /\ b = Tail(Ids(e)) /\ n = Head(e).id /\ c = <<n>>
  OBVIOUS
<1>2. /\ Ids(Tail(e)) = b /\ Head(Ids(e)) = n
      /\ Ids(e) # <<>> /\ Ids(e) \in Seq(Nat)
  BY <1>1, IdsLeave
<1>3. n \in Nat /\ b \in Seq(Nat) /\ Ids(e) = c \o b
  BY <1>1, <1>2, Parts
<1>4. a \in Seq(Nat) /\ c \in Seq(Nat)
  <2>1. PipeIds(i) \in Seq(Nat)
    BY PipeIdsOf, SlotIds
  <2> QED
    BY <1>1, <1>3, <2>1
<1>5. PipeIds(Append(i, y)) = a \o c
  <2>1. PipeIds(Append(i, y)) = Append(a, n)
    BY <1>1, PipeIdsJoin, SlotIds
  <2> QED
    BY <1>1, <1>3, <1>4, <2>1, AppendIsConcat
<1>6. Assoc(a, c, b)
  BY <1>3, <1>4, AnyOrder, Zenon
<1>7. (a \o c) \o b = a \o (c \o b)
  BY <1>6, Zenon DEF Assoc
<1> QED
  BY <1>1, <1>2, <1>3, <1>5, <1>7, Zenon DEF Block

\* What is in front leaves first.
LEMMA FrontLeaves ==
    ASSUME NEW a \in Seq(Nat), a # <<>>, NEW b \in Seq(Nat)
    PROVE  a \o b # <<>> /\ Head(a \o b) = Head(a) /\ Tail(a \o b) = Tail(a) \o b
<1>1. PICK n, r : n = Head(a) /\ r = Tail(a)
  OBVIOUS
<1>3. n \in Nat /\ r \in Seq(Nat) /\ Head(a) = n
  BY <1>1, HeadTailProperties
<1>2. r = Tail(a)
  BY <1>1
<1>4. a \o b # <<>> /\ Head(a \o b) = n /\ Tail(a \o b) = r \o b
  <2>1. PICK k, l, s : k = Len(a) /\ l = Len(b) /\ s = a \o b
    OBVIOUS
  <2>2. /\ k \in Nat /\ k # 0 /\ l \in Nat /\ s \in Seq(Nat) /\ Len(s) = k + l
        /\ \A j \in 1 .. k + l : s[j] = IF j <= k THEN a[j] ELSE b[j - k]
    BY <1>3, <2>1, ConcatProperties
  <2>3. s # <<>> /\ Head(s) = s[1] /\ Head(a) = a[1] /\ 1 \in 1 .. k + l /\ 1 <= k
    BY <1>3, <2>1, <2>2
  <2>4. PICK t : t = Tail(s)
    OBVIOUS
  <2>5. /\ t \in Seq(Nat) /\ Len(t) = (k + l) - 1
        /\ \A j \in 1 .. (k + l) - 1 : t[j] = s[j + 1]
    BY <2>2, <2>3, <2>4, HeadTailProperties
  <2>6. /\ Len(r) = k - 1 /\ \A j \in 1 .. k - 1 : r[j] = a[j + 1]
    BY <1>2, <1>3, <2>1, HeadTailProperties
  <2>7. PICK u : u = r \o b
    OBVIOUS
  <2>8. /\ u \in Seq(Nat) /\ Len(u) = (k - 1) + l
        /\ \A j \in 1 .. (k - 1) + l : u[j] = IF j <= k - 1 THEN r[j] ELSE b[j - (k - 1)]
    <3>1. /\ r \o b \in Seq(Nat) /\ Len(r \o b) = Len(r) + Len(b)
          /\ \A j \in 1 .. Len(r) + Len(b) :
                (r \o b)[j] = IF j <= Len(r) THEN r[j] ELSE b[j - Len(r)]
      BY <1>3, ConcatProperties
    <3>2. Len(r) = k - 1 /\ Len(b) = l
      BY <2>1, <2>6
    <3> QED
      BY <2>7, <3>1, <3>2, Zenon
  <2>9. (k - 1) + l = (k + l) - 1
    BY <2>2
  <2>10. ASSUME NEW j \in 1 .. (k + l) - 1 PROVE t[j] = u[j]
    <3>1. j + 1 \in 1 .. k + l /\ j \in 1 .. (k - 1) + l
      BY <2>2
    <3>2. t[j] = s[j + 1]
      BY <2>5
    <3>3. CASE j <= k - 1
      <4>1. j + 1 <= k /\ j \in 1 .. k - 1
        BY <2>2, <3>3
      <4> QED
        BY <2>2, <2>6, <2>8, <3>1, <3>2, <3>3, <4>1
    <3>4. CASE ~(j <= k - 1)
      <4>1. ~(j + 1 <= k) /\ (j + 1) - k = j - (k - 1)
        BY <2>2, <3>4
      <4> QED
        BY <2>2, <2>8, <3>1, <3>2, <3>4, <4>1
    <3> QED
      BY <3>3, <3>4
  <2>11. t = u
    BY <2>5, <2>8, <2>9, <2>10, SeqEqual
  <2>12. Head(s) = n
    BY <1>3, <2>2, <2>3
  <2> QED
    BY <2>1, <2>3, <2>4, <2>7, <2>11, <2>12
<1> QED
  BY <1>1, <1>4

\* A packet that leaves the pipe is the first of its hop.
LEMMA BlockLeaves ==
    ASSUME NEW e \in Seq(Packet), NEW i \in Seq(Slot), i # <<>>
    PROVE  /\ Block(e, i) # <<>> /\ Head(Block(e, i)) = Head(i).pkt.id
           /\ Block(e, Tail(i)) = Tail(Block(e, i))
<1>1. PICK a, b, n : a = PipeIds(i) /\ b = Ids(e) /\ n = Head(i).pkt.id
  OBVIOUS
<1>2. PICK r : r = Tail(a)
  OBVIOUS
<1>3. /\ PipeIds(Tail(i)) = r /\ Head(a) = n /\ a # <<>> /\ a \in Seq(Nat)
      /\ b \in Seq(Nat) /\ n \in Nat /\ r \in Seq(Nat)
  BY <1>1, <1>2, PipeIdsLeave, IdsOf, HeadTailProperties
<1>4. a \o b # <<>> /\ Head(a \o b) = n /\ Tail(a \o b) = r \o b
  BY <1>2, <1>3, FrontLeaves, Zenon
<1> QED
  BY <1>1, <1>3, <1>4 DEF Block

----------------------------------------------------------------------------
(* The route as one sequence. *)

\* The hops of a route, each a sequence of numbers, oldest first, put together
\* from the last to the first.
Reversed(c) == [k \in HopSet |-> c[Hops + 1 - k]]
Chained(c) == FlattenSeq(Reversed(c))

\* The chain when hop h is s instead, or hop h is s and its neighbour g is u.
HopIn(c, h, s, c2) ==
    \E a, b \in Seq(Nat) : /\ Chained(c) = (a \o c[h]) \o b
                           /\ Chained(c2) = (a \o s) \o b
                           /\ (h = Hops => a = <<>>)
                           /\ (h = 1 => b = <<>>)
PairIn(c, h, g, s, u, c2) ==
    \E a, b \in Seq(Nat) : /\ Chained(c) = (a \o (c[g] \o c[h])) \o b
                           /\ Chained(c2) = (a \o (u \o s)) \o b

\* One hop of the chain changes.
LEMMA ChainOne ==
    ASSUME NEW c \in [HopSet -> Seq(Nat)], NEW h \in HopSet, NEW s \in Seq(Nat),
           NEW c2, c2 = [c EXCEPT ![h] = s]
    PROVE  HopIn(c, h, s, c2)
<1>1. PICK n \in Nat \ {0} : n = Hops
  BY LinkAssumption
<1>2. HopSet = 1 .. n
  BY <1>1 DEF HopSet
<1>3. PICK k \in 1 .. n : /\ k = (n + 1) - h /\ (n + 1) - k = h
                          /\ (k = 1 <=> h = n) /\ (k = n <=> h = 1)
  BY <1>2
<1>4. PICK r, r2 : r = Reversed(c) /\ r2 = Reversed(c2)
  OBVIOUS
<1>5. ASSUME NEW m \in 1 .. n
      PROVE  (n + 1) - m \in HopSet /\ (m # k => (n + 1) - m # h)
  BY <1>2, <1>3
<1>6. /\ r = [m \in 1 .. n |-> c[(n + 1) - m]] /\ r2 = [m \in 1 .. n |-> c2[(n + 1) - m]]
  <2>1. \A m \in 1 .. n : Hops + 1 - m = (n + 1) - m
    BY <1>1
  <2> QED
    BY <1>1, <1>2, <1>4, <2>1 DEF Reversed
<1>7. c2 \in [HopSet -> Seq(Nat)] /\ c2[h] = s /\ \A g \in HopSet : g # h => c2[g] = c[g]
  OBVIOUS
<1>8. r \in [1 .. n -> Seq(Nat)] /\ r2 \in [1 .. n -> Seq(Nat)]
  BY <1>5, <1>6, <1>7
<1>9. r[k] = c[h] /\ r2[k] = s
  BY <1>3, <1>6, <1>7
<1>10. \A m \in 1 .. n : m # k => r2[m] = r[m]
  BY <1>5, <1>6, <1>7
<1>11. OneIn(Nat, n, r, r2, k)
  BY <1>8, <1>10, FlatOne, Zenon
<1>12. PICK a \in Seq(Nat), b \in Seq(Nat) :
          /\ FlattenSeq(r) = (a \o r[k]) \o b
          /\ FlattenSeq(r2) = (a \o r2[k]) \o b
          /\ (k = 1 => a = <<>>) /\ (k = n => b = <<>>)
  BY <1>11, Zenon DEF OneIn
<1>13. (h = Hops => k = 1) /\ (h = 1 => k = n)
  BY <1>1, <1>3, Zenon
<1> QED
  BY <1>4, <1>9, <1>12, <1>13, Zenon DEF Chained, HopIn

\* Two neighbours of the chain change.
LEMMA ChainTwo ==
    ASSUME NEW c \in [HopSet -> Seq(Nat)], NEW h \in HopSet, NEW g \in HopSet, g = h + 1,
           NEW s \in Seq(Nat), NEW u \in Seq(Nat),
           NEW c2, c2 = [c EXCEPT ![h] = s, ![g] = u]
    PROVE  PairIn(c, h, g, s, u, c2)
<1>1. PICK n \in Nat \ {0} : n = Hops
  BY LinkAssumption
<1>2. HopSet = 1 .. n
  BY <1>1 DEF HopSet
<1>3. PICK k, l : /\ k \in 1 .. n /\ l \in 1 .. n /\ l = k + 1
                  /\ k = (n + 1) - g /\ (n + 1) - k = g
                  /\ l = (n + 1) - h /\ (n + 1) - l = h
  <2>1. (n + 1) - g \in 1 .. n /\ (n + 1) - h \in 1 .. n
        /\ (n + 1) - h = ((n + 1) - g) + 1
        /\ (n + 1) - ((n + 1) - g) = g /\ (n + 1) - ((n + 1) - h) = h
    BY <1>2
  <2> QED
    BY <2>1, Zenon
<1>4. PICK r, r2 : r = Reversed(c) /\ r2 = Reversed(c2)
  OBVIOUS
<1>5. ASSUME NEW m \in 1 .. n
      PROVE  (n + 1) - m \in HopSet /\ (m # k => (n + 1) - m # g) /\ (m # l => (n + 1) - m # h)
  BY <1>2, <1>3
<1>6. /\ r = [m \in 1 .. n |-> c[(n + 1) - m]] /\ r2 = [m \in 1 .. n |-> c2[(n + 1) - m]]
  <2>1. \A m \in 1 .. n : Hops + 1 - m = (n + 1) - m
    BY <1>1
  <2> QED
    BY <1>1, <1>2, <1>4, <2>1 DEF Reversed
<1>7. /\ c2 \in [HopSet -> Seq(Nat)] /\ c2[h] = s /\ c2[g] = u
      /\ \A j \in HopSet : j # h /\ j # g => c2[j] = c[j]
  <2>1. h # g
    BY <1>2
  <2> QED
    BY <2>1
<1>8. r \in [1 .. n -> Seq(Nat)] /\ r2 \in [1 .. n -> Seq(Nat)]
  BY <1>5, <1>6, <1>7
<1>9. r[k] = c[g] /\ r2[k] = u /\ r[l] = c[h] /\ r2[l] = s
  BY <1>3, <1>6, <1>7
<1>10. \A m \in 1 .. n : m # k /\ m # l => r2[m] = r[m]
  BY <1>5, <1>6, <1>7
<1>11. TwoIn(Nat, r, r2, k, l)
  <2>1. k \in 1 .. n /\ l \in 1 .. n /\ l = k + 1
    BY <1>3
  <2> QED
    BY <1>8, <1>10, <2>1, FlatTwo, Zenon
<1>12. PICK a \in Seq(Nat), b \in Seq(Nat) :
          /\ FlattenSeq(r) = (a \o (r[k] \o r[l])) \o b
          /\ FlattenSeq(r2) = (a \o (r2[k] \o r2[l])) \o b
  BY <1>11, Zenon DEF TwoIn
<1> QED
  BY <1>4, <1>9, <1>12, Zenon DEF Chained, PairIn

\* What the route holds is a sequence of identities.
LEMMA ChainType ==
    ASSUME NEW c \in [HopSet -> Seq(Nat)]
    PROVE  Chained(c) \in Seq(Nat)
<1>1. 1 \in HopSet
  BY LinkAssumption DEF HopSet
<1>2. PICK s \in Seq(Nat) : s = c[1]
  BY <1>1
<1>3. PICK c2 : c2 = [c EXCEPT ![1] = s]
  OBVIOUS
<1>4. HopIn(c, 1, s, c2)
  BY <1>1, <1>3, ChainOne
<1>5. PICK a \in Seq(Nat), b \in Seq(Nat) : Chained(c) = (a \o s) \o b
  BY <1>2, <1>4, Zenon DEF HopIn
<1>6. (a \o s) \o b \in Seq(Nat)
  OBVIOUS
<1> QED
  BY <1>5, <1>6

\* What a step makes of the chain c of hops, of the n packets sent, and of the
\* lists l and v of packets lost and delivered.
Enters(c, n, l, v, c2, n2, l2, v2) ==
    /\ n2 = n + 1 /\ c2 = [c EXCEPT ![1] = Append(@, n + 1)] /\ l2 = l /\ v2 = v
Refused(c, n, l, v, c2, n2, l2, v2) ==
    /\ n2 = n + 1 /\ c2 = c /\ l2 = l \cup {n + 1} /\ v2 = v
Passes(c, n, l, v, c2, n2, l2, v2) ==
    \E h, g \in HopSet :
       /\ g = h + 1 /\ c[h] # <<>>
       /\ c2 = [c EXCEPT ![h] = Tail(@), ![g] = Append(@, Head(c[h]))]
       /\ n2 = n /\ l2 = l /\ v2 = v
Loses(c, n, l, v, c2, n2, l2, v2) ==
    \E h \in HopSet :
       /\ c[h] # <<>> /\ c2 = [c EXCEPT ![h] = Tail(@)]
       /\ n2 = n /\ l2 = l \cup {Head(c[h])} /\ v2 = v
Leaving(c, n, l, v, c2, n2, l2, v2) ==
    /\ c[Hops] # <<>> /\ c2 = [c EXCEPT ![Hops] = Tail(@)]
    /\ n2 = n /\ l2 = l /\ v2 = Append(v, Head(c[Hops]))
Rests(c, n, l, v, c2, n2, l2, v2) ==
    c2 = c /\ n2 = n /\ l2 = l /\ v2 = v
ChainStep(c, n, l, v, c2, n2, l2, v2) ==
    \/ Enters(c, n, l, v, c2, n2, l2, v2) \/ Refused(c, n, l, v, c2, n2, l2, v2)
    \/ Passes(c, n, l, v, c2, n2, l2, v2) \/ Loses(c, n, l, v, c2, n2, l2, v2)
    \/ Leaving(c, n, l, v, c2, n2, l2, v2) \/ Rests(c, n, l, v, c2, n2, l2, v2)

\* What joins the first hop is the newest in the route.
LEMMA EntersLast ==
    ASSUME NEW c \in [HopSet -> Seq(Nat)], NEW x \in Nat,
           NEW c2, c2 = [c EXCEPT ![1] = Append(@, x)]
    PROVE  Chained(c2) = Append(Chained(c), x) /\ c2 \in [HopSet -> Seq(Nat)]
<1>1. 1 \in HopSet
  BY LinkAssumption DEF HopSet
<1>2. PICK s, p, t : s = c[1] /\ p = <<x>> /\ t = s \o p
  OBVIOUS
<1>3. s \in Seq(Nat) /\ p \in Seq(Nat) /\ t \in Seq(Nat) /\ Append(s, x) = t
  <2>1. s \in Seq(Nat)
    BY <1>1, <1>2
  <2> QED
    BY <1>2, <2>1, AppendIsConcat
<1>4. c2 = [c EXCEPT ![1] = t]
  BY <1>2, <1>3
<1>5. HopIn(c, 1, t, c2)
  BY <1>1, <1>3, <1>4, ChainOne
<1>6. PICK a \in Seq(Nat), b \in Seq(Nat) :
         /\ Chained(c) = (a \o s) \o b /\ Chained(c2) = (a \o t) \o b /\ b = <<>>
  BY <1>2, <1>5, Zenon DEF HopIn
<1>7. a \o s \in Seq(Nat) /\ a \o t \in Seq(Nat)
  BY <1>3
<1>8. Chained(c) = a \o s /\ Chained(c2) = a \o t
  BY <1>6, <1>7, ConcatEmptySeq
<1>9. Assoc(a, s, p)
  BY <1>3, AnyOrder, Zenon
<1>10. a \o t = (a \o s) \o p
  BY <1>2, <1>9, Zenon DEF Assoc
<1>11. Append(a \o s, x) = (a \o s) \o p
  BY <1>2, <1>7, AppendIsConcat
<1>12. c2 \in [HopSet -> Seq(Nat)]
  BY <1>3, <1>4
<1> QED
  BY <1>8, <1>10, <1>11, <1>12, Zenon

PassesAs(c, c2) == Chained(c2) = Chained(c) /\ c2 \in [HopSet -> Seq(Nat)]

\* The first of a hop becomes the last of the next: the route holds the same,
\* in the same order.
LEMMA PassesUnseen ==
    ASSUME NEW c \in [HopSet -> Seq(Nat)], NEW h \in HopSet, NEW g \in HopSet, g = h + 1,
           c[h] # <<>>,
           NEW c2, c2 = [c EXCEPT ![h] = Tail(@), ![g] = Append(@, Head(c[h]))]
    PROVE  PassesAs(c, c2)
<1>1. PICK r, s, x, p : r = c[g] /\ s = Tail(c[h]) /\ x = Head(c[h]) /\ p = <<x>>
  OBVIOUS
<1>2. c[h] \in Seq(Nat) /\ r \in Seq(Nat)
  BY <1>1
<1>3. s \in Seq(Nat) /\ x \in Nat /\ p \in Seq(Nat) /\ c[h] = p \o s
  BY <1>1, <1>2, Parts
<1>4. PICK t : t = r \o p
  OBVIOUS
<1>5. t \in Seq(Nat) /\ Append(r, x) = t
  BY <1>1, <1>2, <1>3, <1>4, AppendIsConcat
<1>6. c2 = [c EXCEPT ![h] = s, ![g] = t]
  <2>1. h # g
    BY DEF HopSet
  <2> QED
    BY <1>1, <1>5, <2>1
<1>7. PairIn(c, h, g, s, t, c2)
  BY <1>3, <1>5, <1>6, ChainTwo
<1>8. Assoc(r, p, s)
  BY <1>2, <1>3, AnyOrder, Zenon
<1>9. t \o s = c[g] \o c[h]
  BY <1>1, <1>3, <1>4, <1>8, Zenon DEF Assoc
<1>10. Chained(c2) = Chained(c)
  BY <1>7, <1>9, Zenon DEF PairIn
<1>11. c2 \in [HopSet -> Seq(Nat)]
  BY <1>3, <1>5, <1>6
<1> QED
  BY <1>10, <1>11, Zenon DEF PassesAs

\* u is a, of length m, followed by b, of length n.
Joined(a, m, b, n, u) ==
    /\ u \in Seq(Nat) /\ Len(u) = m + n
    /\ \A j \in 1 .. m + n : u[j] = IF j <= m THEN a[j] ELSE b[j - m]
\* u is what w has from k on, n of it.
Sliced(w, k, n, u) ==
    /\ u \in Seq(Nat) /\ Len(u) = n /\ \A j \in 1 .. n : u[j] = w[(k + j) - 1]

\* A concatenation, element by element.
LEMMA JoinedIs ==
    ASSUME NEW a \in Seq(Nat), NEW b \in Seq(Nat), NEW m \in Nat, NEW n \in Nat,
           m = Len(a), n = Len(b)
    PROVE  Joined(a, m, b, n, a \o b)
<1>1. /\ a \o b \in Seq(Nat)
      /\ Len(a \o b) = Len(a) + Len(b)
      /\ \A j \in 1 .. Len(a) + Len(b) :
            (a \o b)[j] = IF j <= Len(a) THEN a[j] ELSE b[j - Len(a)]
  BY ConcatProperties
<1> QED
  BY <1>1, Zenon DEF Joined

\* A part of a sequence, element by element.
LEMMA SlicedIs ==
    ASSUME NEW w \in Seq(Nat), NEW k \in Nat \ {0}, NEW n \in Nat, NEW l \in Nat,
           l = (k + n) - 1, l <= Len(w)
    PROVE  Sliced(w, k, n, SubSeq(w, k, l))
<1>1. k \in Int /\ l \in Int /\ \A j \in k .. l : w[j] \in Nat
  OBVIOUS
<1>2. /\ SubSeq(w, k, l) \in Seq(Nat)
      /\ Len(SubSeq(w, k, l)) = IF k <= l THEN l - k + 1 ELSE 0
      /\ \A j \in 1 .. l - k + 1 : SubSeq(w, k, l)[j] = w[k + j - 1]
  BY <1>1, SubSeqProperties
<1>3. (IF k <= l THEN l - k + 1 ELSE 0) = n /\ l - k + 1 = n
  OBVIOUS
<1> QED
  BY <1>2, <1>3 DEF Sliced

\* w2 is w without one of its elements, x.
Removes(w, w2, x) == \E k \in 1 .. Len(w) : w[k] = x /\ w2 = RemoveAt(w, k)

\* One packet is taken out from between others.
LEMMA Removal ==
    ASSUME NEW a \in Seq(Nat), NEW s \in Seq(Nat), s # <<>>, NEW b \in Seq(Nat)
    PROVE  Removes((a \o s) \o b, (a \o Tail(s)) \o b, Head(s))
<1>1. PICK la, ls, lb, r : la = Len(a) /\ ls = Len(s) /\ lb = Len(b) /\ r = Tail(s)
  OBVIOUS
<1>2. /\ la \in Nat /\ ls \in Nat /\ ls # 0 /\ lb \in Nat
      /\ r \in Seq(Nat) /\ Len(r) = ls - 1 /\ Head(s) = s[1] /\ ls - 1 \in Nat
      /\ \A j \in 1 .. ls - 1 : r[j] = s[j + 1]
  BY <1>1, HeadTailProperties
<1>3. PICK u : u = a \o s
  OBVIOUS
<1>4. Joined(a, la, s, ls, u)
  <2>1. Joined(a, la, s, ls, a \o s)
    BY <1>1, <1>2, JoinedIs
  <2> QED
    BY <1>3, <2>1, Zenon
<1>5. PICK w : w = u \o b
  OBVIOUS
<1>6. Joined(u, la + ls, b, lb, w)
  <2>1. u \in Seq(Nat) /\ la + ls = Len(u) /\ la + ls \in Nat
    BY <1>2, <1>4 DEF Joined
  <2>2. Joined(u, la + ls, b, lb, u \o b)
    BY <1>1, <1>2, <2>1, JoinedIs
  <2> QED
    BY <1>5, <2>2, Zenon
<1>7. PICK v : v = a \o r
  OBVIOUS
<1>8. Joined(a, la, r, ls - 1, v)
  <2>1. Joined(a, la, r, ls - 1, a \o r)
    BY <1>1, <1>2, JoinedIs
  <2> QED
    BY <1>7, <2>1, Zenon
<1>9. PICK z : z = v \o b
  OBVIOUS
<1>10. Joined(v, la + (ls - 1), b, lb, z)
  <2>1. v \in Seq(Nat) /\ la + (ls - 1) = Len(v) /\ la + (ls - 1) \in Nat
    BY <1>2, <1>8 DEF Joined
  <2>2. Joined(v, la + (ls - 1), b, lb, v \o b)
    BY <1>1, <1>2, <2>1, JoinedIs
  <2> QED
    BY <1>9, <2>2, Zenon
<1>11. PICK f, g : f = SubSeq(w, 1, la) /\ g = SubSeq(w, la + 2, (la + ls) + lb)
  OBVIOUS
<1>12. Sliced(w, 1, la, f)
  <2>1. w \in Seq(Nat) /\ 1 \in Nat \ {0} /\ la = (1 + la) - 1 /\ la <= Len(w)
    BY <1>2, <1>6 DEF Joined
  <2>2. Sliced(w, 1, la, SubSeq(w, 1, la))
    BY <1>2, <2>1, SlicedIs
  <2> QED
    BY <1>11, <2>2, Zenon
<1>13. Sliced(w, la + 2, (ls - 1) + lb, g)
  <2>1. PICK l : l = (la + ls) + lb
    OBVIOUS
  <2>2. /\ w \in Seq(Nat) /\ la + 2 \in Nat \ {0} /\ (ls - 1) + lb \in Nat /\ l \in Nat
        /\ l = ((la + 2) + ((ls - 1) + lb)) - 1 /\ l <= Len(w)
    BY <1>2, <1>6, <2>1 DEF Joined
  <2>3. Sliced(w, la + 2, (ls - 1) + lb, SubSeq(w, la + 2, l))
    BY <2>2, SlicedIs
  <2> QED
    BY <1>11, <2>1, <2>3, Zenon
<1>14. PICK q : q = f \o g
  OBVIOUS
<1>141. Joined(f, la, g, (ls - 1) + lb, q)
  <2>1. /\ f \in Seq(Nat) /\ g \in Seq(Nat) /\ la = Len(f) /\ (ls - 1) + lb = Len(g)
        /\ (ls - 1) + lb \in Nat
    BY <1>2, <1>12, <1>13 DEF Sliced
  <2>2. Joined(f, la, g, (ls - 1) + lb, f \o g)
    BY <1>2, <2>1, JoinedIs
  <2> QED
    BY <1>14, <2>2, Zenon
<1>15. ASSUME NEW j \in 1 .. la + ((ls - 1) + lb)
       PROVE  q[j] = z[j]
  <2>1. CASE j <= la
    <3>1. /\ j \in 1 .. la /\ j \in 1 .. la + ls /\ j \in 1 .. (la + ls) + lb
          /\ j <= la + ls /\ (1 + j) - 1 = j
          /\ j \in 1 .. la + (ls - 1) /\ j <= la + (ls - 1)
          /\ j \in 1 .. (la + (ls - 1)) + lb
      BY <1>2, <2>1
    <3>2. q[j] = f[j]
      BY <1>141, <2>1, Zenon DEF Joined
    <3>3. f[j] = w[j]
      BY <1>12, <3>1, Zenon DEF Sliced
    <3>4. w[j] = u[j]
      BY <1>6, <3>1, Zenon DEF Joined
    <3>5. u[j] = a[j]
      BY <1>4, <2>1, <3>1, Zenon DEF Joined
    <3>6. z[j] = v[j]
      BY <1>10, <3>1, Zenon DEF Joined
    <3>7. v[j] = a[j]
      BY <1>8, <2>1, <3>1, Zenon DEF Joined
    <3> QED
      BY <3>2, <3>3, <3>4, <3>5, <3>6, <3>7, Zenon
  <2>2. CASE ~(j <= la)
    <3>1. q[j] = w[j + 1]
      <4>1. j - la \in 1 .. (ls - 1) + lb /\ ((la + 2) + (j - la)) - 1 = j + 1
        BY <1>2, <2>2
      <4>2. q[j] = g[j - la]
        BY <1>141, <2>2, Zenon DEF Joined
      <4>3. g[j - la] = w[((la + 2) + (j - la)) - 1]
        BY <1>13, <4>1, Zenon DEF Sliced
      <4> QED
        BY <4>1, <4>2, <4>3, Zenon
    <3>2. CASE j + 1 <= la + ls
      <4>1. /\ j - la \in 1 .. ls - 1 /\ (j + 1) - la = (j - la) + 1
            /\ j + 1 \in 1 .. la + ls /\ ~(j + 1 <= la) /\ j + 1 \in 1 .. (la + ls) + lb
            /\ j <= la + (ls - 1) /\ j \in 1 .. la + (ls - 1)
            /\ j \in 1 .. (la + (ls - 1)) + lb
        BY <1>2, <2>2, <3>2
      <4>2. w[j + 1] = u[j + 1]
        BY <1>6, <3>2, <4>1, Zenon DEF Joined
      <4>3. u[j + 1] = s[(j + 1) - la]
        BY <1>4, <4>1, Zenon DEF Joined
      <4>4. z[j] = v[j]
        BY <1>10, <4>1, Zenon DEF Joined
      <4>5. v[j] = r[j - la]
        BY <1>8, <2>2, <4>1, Zenon DEF Joined
      <4>6. r[j - la] = s[(j - la) + 1]
        BY <1>2, <4>1, Zenon
      <4> QED
        BY <3>1, <4>1, <4>2, <4>3, <4>4, <4>5, <4>6, Zenon
    <3>3. CASE ~(j + 1 <= la + ls)
      <4>1. /\ (j + 1) - (la + ls) = j - (la + (ls - 1))
            /\ j + 1 \in 1 .. (la + ls) + lb /\ ~(j <= la + (ls - 1))
            /\ j \in 1 .. (la + (ls - 1)) + lb
        BY <1>2, <2>2, <3>3
      <4>2. w[j + 1] = b[(j + 1) - (la + ls)]
        BY <1>6, <3>3, <4>1, Zenon DEF Joined
      <4>3. z[j] = b[j - (la + (ls - 1))]
        BY <1>10, <4>1, Zenon DEF Joined
      <4> QED
        BY <3>1, <4>1, <4>2, <4>3, Zenon
    <3> QED
      BY <3>2, <3>3
  <2> QED
    BY <2>1, <2>2
<1>16. q = z
  <2>1. (la + (ls - 1)) + lb = la + ((ls - 1) + lb)
    BY <1>2
  <2>2. q \in Seq(Nat) /\ z \in Seq(Nat) /\ Len(q) = la + ((ls - 1) + lb)
        /\ Len(z) = la + ((ls - 1) + lb)
    BY <1>10, <1>141, <2>1, Zenon DEF Joined
  <2> QED
    BY <1>15, <2>2, SeqEqual
<1>17. PICK k : k = la + 1
  OBVIOUS
<1>18. k \in 1 .. Len(w) /\ k - 1 = la /\ k + 1 = la + 2 /\ Len(w) = (la + ls) + lb
  <2>1. Len(w) = (la + ls) + lb
    BY <1>6 DEF Joined
  <2> QED
    BY <1>2, <1>17, <2>1
<1>19. RemoveAt(w, k) = q
  BY <1>11, <1>14, <1>18, Zenon DEF RemoveAt
<1>20. w[k] = Head(s)
  <2>1. k \in 1 .. la + ls /\ ~(k <= la) /\ k - la = 1 /\ k <= la + ls
        /\ k \in 1 .. (la + ls) + lb
    BY <1>2, <1>17
  <2>2. w[k] = u[k]
    BY <1>6, <2>1, Zenon DEF Joined
  <2>3. u[k] = s[k - la]
    BY <1>4, <2>1, Zenon DEF Joined
  <2> QED
    BY <1>2, <2>1, <2>2, <2>3, Zenon
<1> QED
  BY <1>1, <1>3, <1>5, <1>7, <1>9, <1>16, <1>18, <1>19, <1>20, Zenon DEF Removes

\* The first of a hop is dropped: one element of the route is removed.
LEMMA LosesOne ==
    ASSUME NEW c \in [HopSet -> Seq(Nat)], NEW h \in HopSet, c[h] # <<>>,
           NEW c2, c2 = [c EXCEPT ![h] = Tail(@)]
    PROVE  Removes(Chained(c), Chained(c2), Head(c[h])) /\ c2 \in [HopSet -> Seq(Nat)]
<1>1. PICK s \in Seq(Nat) : s = c[h]
  OBVIOUS
<1>2. PICK r \in Seq(Nat) : r = Tail(s)
  BY <1>1, HeadTailProperties
<1>3. c2 = [c EXCEPT ![h] = r] /\ c2 \in [HopSet -> Seq(Nat)]
  BY <1>1, <1>2
<1>4. HopIn(c, h, r, c2)
  BY <1>3, ChainOne
<1>5. PICK a \in Seq(Nat), b \in Seq(Nat) :
         /\ Chained(c) = (a \o s) \o b /\ Chained(c2) = (a \o r) \o b
  BY <1>1, <1>4, Zenon DEF HopIn
<1>6. s # <<>>
  BY <1>1
<1>7. Removes((a \o s) \o b, (a \o Tail(s)) \o b, Head(s))
  BY <1>6, Removal, Zenon
<1> QED
  BY <1>1, <1>2, <1>3, <1>5, <1>7, Zenon

\* The first of the last hop is the oldest in the route.
LEMMA LeavesFirst ==
    ASSUME NEW c \in [HopSet -> Seq(Nat)], c[Hops] # <<>>,
           NEW c2, c2 = [c EXCEPT ![Hops] = Tail(@)]
    PROVE  /\ Chained(c) # <<>> /\ Head(Chained(c)) = Head(c[Hops])
           /\ Chained(c2) = Tail(Chained(c)) /\ c2 \in [HopSet -> Seq(Nat)]
<1>1. Hops \in HopSet
  BY LinkAssumption DEF HopSet
<1>2. PICK s \in Seq(Nat) : s = c[Hops]
  BY <1>1
<1>3. PICK r \in Seq(Nat) : r = Tail(s)
  BY <1>2, HeadTailProperties
<1>4. c2 = [c EXCEPT ![Hops] = r] /\ c2 \in [HopSet -> Seq(Nat)]
  BY <1>1, <1>2, <1>3
<1>5. HopIn(c, Hops, r, c2)
  BY <1>1, <1>4, ChainOne
<1>6. PICK a \in Seq(Nat), b \in Seq(Nat) :
         /\ Chained(c) = (a \o s) \o b /\ Chained(c2) = (a \o r) \o b /\ a = <<>>
  BY <1>2, <1>5, Zenon DEF HopIn
<1>7. a \o s = s /\ a \o r = r
  BY <1>6, ConcatEmptySeq
<1>8. s \o b # <<>> /\ Head(s \o b) = Head(s) /\ Tail(s \o b) = r \o b
  BY <1>2, <1>3, FrontLeaves, Zenon
<1> QED
  BY <1>2, <1>4, <1>6, <1>7, <1>8, Zenon

----------------------------------------------------------------------------
(* The route is a lossy channel. *)

\* What the hops hold.
Blocks(e, i) == [h \in HopSet |-> Block(e[h], i[h])]
Chain == Blocks(enqueued, inflight)

\* What has come out of the route.
Final == [pkt : Packet, at : Nat]
DeliveredOk == delivered \in Seq(Final)

\* The packets at the destination have identities.
LEMMA FinalIds == \A x \in Final : x.pkt.id \in Nat
BY DEF Final, Packet

\* What the hops hold.
LEMMA BlocksType ==
    ASSUME NEW e \in [HopSet -> Seq(Packet)], NEW i \in [HopSet -> Seq(Slot)]
    PROVE  /\ Blocks(e, i) \in [HopSet -> Seq(Nat)]
           /\ \A h \in HopSet : Blocks(e, i)[h] = Block(e[h], i[h])
BY BlockType DEF Blocks

\* What the route holds, hop by hop from the last.
LEMMA InsideIs == Inside = Chained(Chain)
<1>1. PICK c : c = Chain
  OBVIOUS
<1>2. \A k \in HopSet : Hops + 1 - k \in HopSet
  BY LinkAssumption DEF HopSet
<1>3. \A k \in HopSet :
         c[Hops + 1 - k] = PipeIds(inflight[Hops + 1 - k]) \o Ids(enqueued[Hops + 1 - k])
  BY <1>1, <1>2 DEF Chain, Blocks, Block
<1>4. Reversed(c) = [k \in HopSet |-> LET h == Hops + 1 - k IN
                                      PipeIds(inflight[h]) \o Ids(enqueued[h])]
  BY <1>3, Zenon DEF Reversed
<1> QED
  BY <1>1, <1>4, Zenon DEF Inside, Chained

\* A packet joins a hop, is served in it, and leaves it.
JoinsAs(e, i, h, x, e2) ==
    Blocks(e2, i) = [Blocks(e, i) EXCEPT ![h] = Append(@, x.id)]
ServesAs(e, i, e2, i2) == Blocks(e2, i2) = Blocks(e, i)
LeavesAs(e, i, h, i2) ==
    /\ Blocks(e, i2) = [Blocks(e, i) EXCEPT ![h] = Tail(@)]
    /\ Blocks(e, i)[h] # <<>> /\ Head(Blocks(e, i)[h]) = Head(i[h]).pkt.id
    /\ i2 \in [HopSet -> Seq(Slot)]

\* A packet that joins a queue is the last of its hop.
LEMMA ChainJoins ==
    ASSUME NEW e \in [HopSet -> Seq(Packet)], NEW i \in [HopSet -> Seq(Slot)],
           NEW h \in HopSet, NEW x \in Packet, NEW e2, e2 = [e EXCEPT ![h] = Append(@, x)]
    PROVE  JoinsAs(e, i, h, x, e2)
<1>1. PICK f \in Seq(Packet), j \in Seq(Slot) : f = e[h] /\ j = i[h]
  OBVIOUS
<1>2. PICK b, b2 : b = Block(f, j) /\ b2 = Append(b, x.id)
  OBVIOUS
<1>3. Block(Append(f, x), j) = b2
  BY <1>2, BlockJoins, Zenon
<1>4. PICK f2 : f2 = Append(f, x)
  OBVIOUS
<1>5. e2 = [e EXCEPT ![h] = f2]
  BY <1>1, <1>4
<1>6. \A g \in HopSet : Block(e2[g], i[g]) = IF g = h THEN b2 ELSE Block(e[g], i[g])
  BY <1>1, <1>3, <1>4, <1>5
<1>7. [Blocks(e, i) EXCEPT ![h] = Append(@, x.id)] = [Blocks(e, i) EXCEPT ![h] = b2]
  BY <1>1, <1>2 DEF Blocks
<1>8. Blocks(e2, i) = [Blocks(e, i) EXCEPT ![h] = b2]
  BY <1>6 DEF Blocks
<1> QED
  BY <1>7, <1>8, Zenon DEF JoinsAs

\* A packet that goes from a queue into its pipe keeps its place.
LEMMA ChainServes ==
    ASSUME NEW e \in [HopSet -> Seq(Packet)], NEW i \in [HopSet -> Seq(Slot)],
           NEW h \in HopSet, e[h] # <<>>, NEW y \in Slot, y.pkt.id = Head(e[h]).id,
           NEW e2, e2 = [e EXCEPT ![h] = Tail(@)],
           NEW i2, i2 = [i EXCEPT ![h] = Append(@, y)]
    PROVE  ServesAs(e, i, e2, i2)
<1>1. PICK f \in Seq(Packet), j \in Seq(Slot) : f = e[h] /\ j = i[h]
  OBVIOUS
<1>2. f # <<>> /\ y.pkt.id = Head(f).id
  BY <1>1
<1>3. Block(Tail(f), Append(j, y)) = Block(f, j)
  BY <1>2, BlockServes, Zenon
<1>4. PICK f2, j2 : f2 = Tail(f) /\ j2 = Append(j, y)
  OBVIOUS
<1>5. e2 = [e EXCEPT ![h] = f2] /\ i2 = [i EXCEPT ![h] = j2]
  BY <1>1, <1>4
<1>6. \A g \in HopSet : Block(e2[g], i2[g]) = Block(e[g], i[g])
  BY <1>1, <1>3, <1>4, <1>5
<1>7. Blocks(e2, i2) = Blocks(e, i)
  BY <1>6 DEF Blocks
<1> QED
  BY <1>7, Zenon DEF ServesAs

\* A packet that leaves a pipe is the first of its hop.
LEMMA ChainLeaves ==
    ASSUME NEW e \in [HopSet -> Seq(Packet)], NEW i \in [HopSet -> Seq(Slot)],
           NEW h \in HopSet, i[h] # <<>>,
           NEW i2, i2 = [i EXCEPT ![h] = Tail(@)]
    PROVE  LeavesAs(e, i, h, i2)
<1>1. PICK f \in Seq(Packet), j \in Seq(Slot) : f = e[h] /\ j = i[h]
  OBVIOUS
<1>2. j # <<>>
  BY <1>1
<1>3. PICK b, b2 : b = Block(f, j) /\ b2 = Tail(b)
  OBVIOUS
<1>4. b # <<>> /\ Head(b) = Head(j).pkt.id /\ Block(f, Tail(j)) = b2
  BY <1>2, <1>3, BlockLeaves, Zenon
<1>5. PICK j2 : j2 = Tail(j)
  OBVIOUS
<1>6. i2 = [i EXCEPT ![h] = j2] /\ j2 \in Seq(Slot)
  BY <1>1, <1>2, <1>5, HeadTailProperties
<1>7. \A g \in HopSet : Block(e[g], i2[g]) = IF g = h THEN b2 ELSE Block(e[g], i[g])
  BY <1>1, <1>4, <1>5, <1>6
<1>8. [Blocks(e, i) EXCEPT ![h] = Tail(@)] = [Blocks(e, i) EXCEPT ![h] = b2]
  BY <1>1, <1>3 DEF Blocks
<1>9. Blocks(e, i2) = [Blocks(e, i) EXCEPT ![h] = b2]
  BY <1>7 DEF Blocks
<1>10. Blocks(e, i)[h] = b
  BY <1>1, <1>3 DEF Blocks
<1> QED
  BY <1>1, <1>4, <1>6, <1>8, <1>9, <1>10, Zenon DEF LeavesAs

\* What a step makes of the chain, the number of packets sent, and the packets
\* lost and delivered.
Moves == ChainStep(Chain, Len(sent), dropped, PipeIds(delivered),
                   Chain', Len(sent'), dropped', PipeIds(delivered'))

\* The types of what the route holds.
LEMMA Typed ==
    ASSUME NEW d, Held(d)
    PROVE  /\ enqueued \in [HopSet -> Seq(Packet)] /\ inflight \in [HopSet -> Seq(Slot)]
           /\ Chain \in [HopSet -> Seq(Nat)]
BY BlocksType DEF Held, HeldBut, Chain

\* The source enters a packet into the route, or loses it.
LEMMA MovesSending ==
    ASSUME NEW d, NEW d2, Held(d), SentOk, NEW x \in Packet, Sends(x, d, d2)
    PROVE  Moves
<1>1. /\ enqueued \in [HopSet -> Seq(Packet)] /\ inflight \in [HopSet -> Seq(Slot)]
  BY Typed
<1>2. x.id = Len(sent) + 1 /\ inflight' = inflight /\ delivered' = delivered
  BY DEF Sends
<1>3. Len(sent') = Len(sent) + 1
  <2>1. PICK r : r = [size |-> x.size, at |-> now']
    OBVIOUS
  <2>2. sent' = Append(sent, r)
    BY <2>1, Zenon DEF Sends
  <2>3. PICK S : sent \in Seq(S)
    BY DEF SentOk
  <2> QED
    BY <2>2, <2>3
<1>4. 1 \in HopSet
  BY LinkAssumption DEF HopSet
<1>5. CASE Accepts(1, x, d, d2)
  <2>1. enqueued' = [enqueued EXCEPT ![1] = Append(@, x)] /\ dropped' = dropped
    BY <1>5 DEF Accepts
  <2>2. Blocks(enqueued', inflight) = [Chain EXCEPT ![1] = Append(@, x.id)]
    <3>1. JoinsAs(enqueued, inflight, 1, x, enqueued')
      BY <1>1, <1>4, <2>1, ChainJoins, Zenon
    <3> QED
      BY <3>1, Zenon DEF Chain, JoinsAs
  <2>3. Chain' = [Chain EXCEPT ![1] = Append(@, Len(sent) + 1)]
    BY <1>2, <2>2, Zenon DEF Chain
  <2> QED
    BY <1>2, <1>3, <2>1, <2>3, Zenon DEF Moves, ChainStep, Enters
<1>6. CASE Drops(1, x, d, d2)
  <2>1. enqueued' = enqueued /\ dropped' = dropped \cup {x.id}
    BY <1>6 DEF Drops
  <2>2. Chain' = Chain
    BY <1>2, <2>1, Zenon DEF Chain
  <2> QED
    BY <1>2, <1>3, <2>1, <2>2, Zenon DEF Moves, ChainStep, Refused
<1> QED
  BY <1>5, <1>6 DEF Sends

\* A departure from a queue moves nothing in the route.
LEMMA MovesServing ==
    ASSUME NEW d, NEW d2, Held(d), NEW h \in HopSet, NEW x \in Packet, NEW y \in Packet,
           Serves(h, x, y, d, d2), now' \in Nat
    PROVE  Moves
<1>1. /\ enqueued \in [HopSet -> Seq(Packet)] /\ inflight \in [HopSet -> Seq(Slot)]
  BY Typed
<1>2. PICK z : z = [due |-> now' + Delay[h], pkt |-> y]
  OBVIOUS
<1>3. /\ enqueued[h] # <<>> /\ x = Head(enqueued[h]) /\ y = Marked(h, queuesize'[h], x)
      /\ enqueued' = [enqueued EXCEPT ![h] = Tail(@)]
      /\ inflight' = [inflight EXCEPT ![h] = Append(@, z)]
      /\ dropped' = dropped /\ delivered' = delivered /\ sent' = sent
  BY <1>2, Zenon DEF Serves
<1>4. z \in Slot /\ z.pkt.id = Head(enqueued[h]).id
  <2>1. y.id = x.id
    BY <1>3 DEF Marked, Packet
  <2>2. now' + Delay[h] \in Nat
    BY Rates
  <2> QED
    BY <1>2, <1>3, <2>1, <2>2 DEF Slot
<1>5. Blocks(enqueued', inflight') = Blocks(enqueued, inflight)
  <2>1. ServesAs(enqueued, inflight, enqueued', inflight')
    BY <1>1, <1>3, <1>4, ChainServes, Zenon
  <2> QED
    BY <2>1, Zenon DEF ServesAs
<1> QED
  BY <1>3, <1>5, Zenon DEF Moves, ChainStep, Rests, Chain

\* A packet at the end of a pipe goes on, is lost, or is delivered.
LEMMA MovesHanding ==
    ASSUME NEW d, NEW d2, Held(d), DeliveredOk, NEW h \in HopSet, NEW x \in Packet,
           HandsOn(h, x, d, d2), now' \in Nat
    PROVE  Moves
<1>1. /\ enqueued \in [HopSet -> Seq(Packet)] /\ inflight \in [HopSet -> Seq(Slot)]
  BY Typed
<1>2. /\ inflight[h] # <<>> /\ x = Head(inflight[h]).pkt /\ sent' = sent
      /\ inflight' = [inflight EXCEPT ![h] = Tail(@)]
  BY DEF HandsOn
<1>3. /\ Blocks(enqueued, inflight') = [Chain EXCEPT ![h] = Tail(@)]
      /\ Chain[h] # <<>> /\ Head(Chain[h]) = x.id
      /\ inflight' \in [HopSet -> Seq(Slot)]
  <2>1. LeavesAs(enqueued, inflight, h, inflight')
    BY <1>1, <1>2, ChainLeaves, Zenon
  <2> QED
    BY <1>2, <2>1, Zenon DEF Chain, LeavesAs
<1>4. CASE h < Hops /\ Accepts(h + 1, x, d, d2) /\ delivered' = delivered
  <2>1. PICK g \in HopSet : g = h + 1 /\ g # h
    BY <1>4, LinkAssumption DEF HopSet
  <2>2. enqueued' = [enqueued EXCEPT ![g] = Append(@, x)] /\ dropped' = dropped
    BY <1>4, <2>1 DEF Accepts
  <2>3. Blocks(enqueued', inflight') = [Blocks(enqueued, inflight') EXCEPT ![g] = Append(@, x.id)]
    <3>1. JoinsAs(enqueued, inflight', g, x, enqueued')
      BY <1>1, <1>3, <2>2, ChainJoins, Zenon
    <3> QED
      BY <3>1, Zenon DEF JoinsAs
  <2>4. Chain \in [HopSet -> Seq(Nat)]
    BY Typed
  <2>5. Chain' = [Chain EXCEPT ![h] = Tail(@), ![g] = Append(@, Head(Chain[h]))]
    <3>1. PICK c, s, n : c = Chain /\ s = Tail(Chain[h]) /\ n = x.id
      OBVIOUS
    <3>2. Chain' = [[c EXCEPT ![h] = s] EXCEPT ![g] = Append(@, n)]
      <4>1. Blocks(enqueued, inflight') = [c EXCEPT ![h] = s]
        BY <1>3, <3>1
      <4> QED
        BY <2>3, <3>1, <4>1, Zenon DEF Chain
    <3>3. c \in [HopSet -> Seq(Nat)] /\ Head(c[h]) = n
      BY <1>3, <2>4, <3>1
    <3>4. [[c EXCEPT ![h] = s] EXCEPT ![g] = Append(@, n)] =
              [c EXCEPT ![h] = s, ![g] = Append(@, Head(c[h]))]
      BY <2>1, <3>3
    <3>5. [c EXCEPT ![h] = Tail(@), ![g] = Append(@, Head(c[h]))] =
              [c EXCEPT ![h] = s, ![g] = Append(@, Head(c[h]))]
      BY <3>1, <3>3
    <3> QED
      BY <3>1, <3>2, <3>4, <3>5, Zenon
  <2>6. Passes(Chain, Len(sent), dropped, PipeIds(delivered),
               Chain', Len(sent'), dropped', PipeIds(delivered'))
    BY <1>2, <1>3, <1>4, <2>1, <2>2, <2>5, Zenon DEF Passes
  <2> QED
    BY <2>6, Zenon DEF Moves, ChainStep
<1>5. CASE h < Hops /\ Drops(h + 1, x, d, d2) /\ delivered' = delivered
  <2>1. enqueued' = enqueued /\ dropped' = dropped \cup {x.id}
    BY <1>5 DEF Drops
  <2>2. Chain' = [Chain EXCEPT ![h] = Tail(@)]
    BY <1>3, <2>1, Zenon DEF Chain
  <2>3. Loses(Chain, Len(sent), dropped, PipeIds(delivered),
              Chain', Len(sent'), dropped', PipeIds(delivered'))
    BY <1>2, <1>3, <1>5, <2>1, <2>2, Zenon DEF Loses
  <2> QED
    BY <2>3, Zenon DEF Moves, ChainStep
<1>6. CASE h = Hops /\ enqueued' = enqueued /\ dropped' = dropped
           /\ delivered' = Append(delivered, [pkt |-> x, at |-> now'])
  <2>1. PICK z : z = [pkt |-> x, at |-> now']
    OBVIOUS
  <2>2. z \in Final /\ z.pkt.id = x.id
    BY <2>1 DEF Final
  <2>3. delivered' = Append(delivered, z)
    BY <1>6, <2>1, Zenon
  <2>4. PipeIds(Append(delivered, z)) = Append(PipeIds(delivered), z.pkt.id)
    BY <2>2, FinalIds, PipeIdsJoin DEF DeliveredOk
  <2>5. PipeIds(delivered') = Append(PipeIds(delivered), Head(Chain[Hops]))
    BY <1>3, <1>6, <2>2, <2>3, <2>4, Zenon
  <2>6. Chain' = [Chain EXCEPT ![Hops] = Tail(@)]
    BY <1>3, <1>6, Zenon DEF Chain
  <2> QED
    BY <1>2, <1>3, <1>6, <2>5, <2>6, Zenon DEF Moves, ChainStep, Leaving
<1> QED
  BY <1>4, <1>5, <1>6 DEF HandsOn

\* Every step enters, loses or delivers one packet, or moves nothing.
LEMMA StepMoves ==
    ASSUME NEW d, NEW d2, Held(d), SentOk, DeliveredOk, Steps(d, d2)
    PROVE  Moves /\ DeliveredOk'
<1>1. now' \in Nat
  BY DEF Steps
<1>2. ASSUME NEW x \in Packet, Sends(x, d, d2) PROVE Moves /\ DeliveredOk'
  <2>1. delivered' = delivered
    BY <1>2 DEF Sends
  <2> QED
    BY <1>2, <2>1, MovesSending DEF DeliveredOk
<1>3. ASSUME Looks(d, d2) PROVE Moves /\ DeliveredOk'
  <2>1. /\ enqueued' = enqueued /\ inflight' = inflight /\ dropped' = dropped
        /\ delivered' = delivered /\ sent' = sent
    BY <1>3 DEF Looks
  <2>2. Chain' = Chain
    BY <2>1, Zenon DEF Chain
  <2> QED
    BY <2>1, <2>2, Zenon DEF Moves, ChainStep, Rests, DeliveredOk
<1>4. ASSUME NEW h \in HopSet, NEW x \in Packet, NEW y \in Packet, Serves(h, x, y, d, d2)
      PROVE  Moves /\ DeliveredOk'
  <2>1. delivered' = delivered
    BY <1>4 DEF Serves
  <2> QED
    BY <1>1, <1>4, <2>1, MovesServing DEF DeliveredOk
<1>5. ASSUME NEW h \in HopSet, NEW x \in Packet, HandsOn(h, x, d, d2)
      PROVE  Moves /\ DeliveredOk'
  <2>1. Moves
    BY <1>1, <1>5, MovesHanding
  <2>2. delivered' = delivered \/ delivered' = Append(delivered, [pkt |-> x, at |-> now'])
    BY <1>5 DEF HandsOn
  <2>3. [pkt |-> x, at |-> now'] \in Final
    BY <1>1 DEF Final
  <2> QED
    BY <2>1, <2>2, <2>3 DEF DeliveredOk
<1> QED
  BY <1>2, <1>3, <1>4, <1>5 DEF Steps

\* Nothing is in a route whose hops are empty.
LEMMA NothingIn ==
    ASSUME NEW c, c = [h \in HopSet |-> <<>>]
    PROVE  Chained(c) = <<>>
<1>1. PICK n \in Nat \ {0} : n = Hops
  BY LinkAssumption
<1>2. HopSet = 1 .. n
  BY <1>1 DEF HopSet
<1>3. PICK r : r = Reversed(c)
  OBVIOUS
<1>4. r = [k \in 1 .. n |-> <<>>]
  <2>1. \A k \in 1 .. n : Hops + 1 - k \in HopSet
    BY <1>1, <1>2
  <2>2. \A k \in 1 .. n : c[Hops + 1 - k] = <<>>
    BY <2>1
  <2> QED
    BY <1>2, <1>3, <2>2 DEF Reversed
<1>5. r \in [1 .. n -> Seq(Nat)] /\ \A k \in 1 .. n : r[k] = <<>>
  BY <1>4
<1>6. PICK g : Built(Nat, n, r, g) /\ FlattenSeq(r) = g[n]
  BY <1>5, FlatIs, Zenon
<1> DEFINE I == {j \in Nat : j < n => g[j + 1] = <<>>}
<1>7. 0 \in I
  <2>1. g[1] = r[1] /\ 1 \in 1 .. n /\ 0 + 1 = 1 /\ 0 \in Nat
    BY <1>6 DEF Built, Flattens
  <2> QED
    BY <1>5, <2>1
<1>8. ASSUME NEW j \in I PROVE j + 1 \in I
  <2>1. j \in Nat /\ j + 1 \in Nat
    OBVIOUS
  <2>2. SUFFICES ASSUME j + 1 < n PROVE g[j + 1 + 1] = <<>>
    BY <2>1, Zenon
  <2>3. PICK m \in 2 .. n : m = j + 1 + 1 /\ m - 1 = j + 1 /\ m \in 1 .. n
    BY <2>1, <2>2
  <2>4. g[m - 1] = <<>>
    BY <2>1, <2>2, <2>3
  <2> HIDE DEF I
  <2>5. g[m] = g[m - 1] \o r[m]
    BY <1>6, <2>3, Zenon DEF Built, Flattens
  <2>6. <<>> \o <<>> = <<>>
    OBVIOUS
  <2> QED
    BY <1>5, <2>3, <2>4, <2>5, <2>6, Zenon
<1>9. I = Nat
  <2>1. I \in SUBSET Nat
    OBVIOUS
  <2> HIDE DEF I
  <2> QED
    BY <1>7, <1>8, <2>1, Induct
<1>10. n - 1 \in Nat /\ n - 1 < n /\ n - 1 + 1 = n
  OBVIOUS
<1>11. n - 1 \in I
  BY <1>9, <1>10, Zenon
<1>12. g[n - 1 + 1] = <<>>
  BY <1>10, <1>11, Zenon
<1> QED
  BY <1>3, <1>6, <1>10, <1>12, Zenon DEF Chained

\* The route starts empty.
LEMMA InitRefines == Init => Route!Init
<1> SUFFICES ASSUME Init PROVE Route!Init
  OBVIOUS
<1>1. /\ sent = <<>> /\ dropped = {} /\ delivered = <<>>
      /\ enqueued = [h \in HopSet |-> <<>>] /\ inflight = [h \in HopSet |-> <<>>]
  BY DEF Init
<1>2. PipeIds(delivered) = <<>>
  BY <1>1 DEF PipeIds
<1>3. Chain = [h \in HopSet |-> <<>>]
  <2>1. Block(<<>>, <<>>) = <<>>
    <3>1. PipeIds(<<>>) = <<>> /\ Ids(<<>>) = <<>>
      BY DEF PipeIds, Ids
    <3>2. <<>> \o <<>> = <<>>
      OBVIOUS
    <3> QED
      BY <3>1, <3>2, Zenon DEF Block
  <2> QED
    BY <1>1, <2>1 DEF Chain, Blocks
<1>4. Inside = <<>>
  BY <1>3, InsideIs, NothingIn, Zenon
<1>5. Len(sent) = 0
  BY <1>1
<1> QED
  BY <1>1, <1>2, <1>4, <1>5, Zenon DEF Route!Init

\* What moves in the route is a step of the lossy channel, or a stutter.
LEMMA StepRefines ==
    ASSUME NEW d, Held(d), NEW d2, Held(d2)', SentOk, DeliveredOk, Moves
    PROVE  [Route!Next]_(Route!vars)
<1>1. Chain \in [HopSet -> Seq(Nat)]
  BY Typed
<1>2. Inside = Chained(Chain) /\ Inside' = Chained(Chain')
  <2>1. Inside = Chained(Chain)
    BY InsideIs
  <2>2. (Inside = Chained(Chain))'
    BY InsideIs, PTL
  <2>3. Chained(Chain)' = Chained(Chain')
    BY DEF Chained, Reversed, HopSet
  <2> QED
    BY <2>1, <2>2, <2>3, Zenon
<1>3. PICK c, n, l, v, c2, n2, l2, v2 :
         /\ c = Chain /\ n = Len(sent) /\ l = dropped /\ v = PipeIds(delivered)
         /\ c2 = Chain' /\ n2 = Len(sent') /\ l2 = dropped' /\ v2 = PipeIds(delivered')
  OBVIOUS
<1>4. ChainStep(c, n, l, v, c2, n2, l2, v2) /\ c \in [HopSet -> Seq(Nat)]
  BY <1>1, <1>3, Zenon DEF Moves
<1>5. PICK w, w2 : /\ w = Chained(c) /\ w2 = Chained(c2) /\ w = Inside /\ w2 = Inside'
  BY <1>2, <1>3, Zenon
<1>6. n \in Nat
  BY <1>3 DEF SentOk
<1>7. CASE Enters(c, n, l, v, c2, n2, l2, v2)
  <2>1. n2 = n + 1 /\ l2 = l /\ v2 = v /\ c2 = [c EXCEPT ![1] = Append(@, n + 1)]
    BY <1>7 DEF Enters
  <2>2. w2 = Append(w, n2)
    <3>1. n + 1 \in Nat
      BY <1>6
    <3> QED
      BY <1>4, <1>5, <2>1, <3>1, EntersLast
  <2>3. Route!Enter
    BY <1>3, <1>5, <2>1, <2>2, Zenon DEF Route!Enter
  <2> QED
    BY <2>3, Zenon DEF Route!Next
<1>8. CASE Refused(c, n, l, v, c2, n2, l2, v2)
  <2>1. n2 = n + 1 /\ l2 = l \cup {n2} /\ v2 = v /\ c2 = c
    BY <1>8 DEF Refused
  <2>2. w2 = w
    BY <1>5, <2>1, Zenon
  <2>3. Route!Enter
    BY <1>3, <1>5, <2>1, <2>2, Zenon DEF Route!Enter
  <2> QED
    BY <2>3, Zenon DEF Route!Next
<1>9. CASE Passes(c, n, l, v, c2, n2, l2, v2)
  <2>1. n2 = n /\ l2 = l /\ v2 = v
    BY <1>9 DEF Passes
  <2>2. PICK h \in HopSet, g \in HopSet :
           /\ g = h + 1 /\ c[h] # <<>>
           /\ c2 = [c EXCEPT ![h] = Tail(@), ![g] = Append(@, Head(c[h]))]
    BY <1>9 DEF Passes
  <2>3. w2 = w
    <3>1. PassesAs(c, c2)
      BY <1>4, <2>2, PassesUnseen, Zenon
    <3> QED
      BY <1>5, <3>1, Zenon DEF PassesAs
  <2> QED
    BY <1>3, <1>5, <2>1, <2>3, Zenon DEF Route!vars
<1>10. CASE Loses(c, n, l, v, c2, n2, l2, v2)
  <2>1. PICK h \in HopSet :
           /\ c[h] # <<>> /\ c2 = [c EXCEPT ![h] = Tail(@)]
           /\ n2 = n /\ l2 = l \cup {Head(c[h])} /\ v2 = v
    BY <1>10 DEF Loses
  <2>2. Removes(Chained(c), Chained(c2), Head(c[h]))
    BY <1>4, <2>1, LosesOne
  <2>3. PICK k \in 1 .. Len(w) : w[k] = Head(c[h]) /\ w2 = RemoveAt(w, k)
    BY <1>5, <2>2, Zenon DEF Removes
  <2>4. k \in 1 .. Len(Inside) /\ Inside' = RemoveAt(Inside, k)
        /\ dropped' = dropped \cup {Inside[k]}
    BY <1>3, <1>5, <2>1, <2>3, Zenon
  <2>5. Len(sent') = Len(sent) /\ PipeIds(delivered') = PipeIds(delivered)
    BY <1>3, <2>1, Zenon
  <2>6. Route!Drop
    <3>1. Route!RemoveAt(Inside, k) = RemoveAt(Inside, k)
      BY Zenon DEF Route!RemoveAt, RemoveAt
    <3> QED
      BY <2>4, <2>5, <3>1, Zenon DEF Route!Drop
  <2> QED
    BY <2>6, Zenon DEF Route!Next
<1>11. CASE Leaving(c, n, l, v, c2, n2, l2, v2)
  <2>1. /\ c[Hops] # <<>> /\ c2 = [c EXCEPT ![Hops] = Tail(@)]
        /\ n2 = n /\ l2 = l /\ v2 = Append(v, Head(c[Hops]))
    BY <1>11 DEF Leaving
  <2>2. w # <<>> /\ Head(w) = Head(c[Hops]) /\ w2 = Tail(w)
    BY <1>4, <1>5, <2>1, LeavesFirst
  <2>3. Route!Deliver
    BY <1>3, <1>5, <2>1, <2>2, Zenon DEF Route!Deliver
  <2> QED
    BY <2>3, Zenon DEF Route!Next
<1>12. CASE Rests(c, n, l, v, c2, n2, l2, v2)
  <2>1. n2 = n /\ l2 = l /\ v2 = v /\ w2 = w
    BY <1>5, <1>12 DEF Rests
  <2> QED
    BY <1>3, <1>5, <2>1, Zenon DEF Route!vars
<1> QED
  BY <1>4, <1>7, <1>8, <1>9, <1>10, <1>11, <1>12 DEF ChainStep

FifoInv == ScheduleInv /\ DeliveredOk

\* The route is a lossy first-in first-out channel: nothing is duplicated,
\* reordered or forgotten, whatever events fall on the same time
\* (queue.cpp:54-83, pipe.cpp:8-45, eventlist.cpp:44-90).
THEOREM RouteIsFifo == Spec => ImplementsLossyFifo
<1>1. Init => FifoInv /\ Route!Init
  BY HeldInit, InitRefines DEF FifoInv, ScheduleInv, DeliveredOk, Init
<1>2. FifoInv /\ [Next]_vars => FifoInv' /\ [Route!Next]_(Route!vars)
  <2> SUFFICES ASSUME FifoInv, [Next]_vars
               PROVE  FifoInv' /\ [Route!Next]_(Route!vars)
    OBVIOUS
  <2>1. ScheduleInv'
    BY ScheduleNext DEF FifoInv
  <2>2. CASE Next
    <3>1. PICK d : Held(d)
      BY DEF FifoInv, ScheduleInv
    <3>2. PICK d2 : Steps(d, d2)
      BY <2>2, <3>1, StepIs DEF FifoInv, ScheduleInv, SentOk
    <3>3. Moves /\ DeliveredOk'
      BY <3>1, <3>2, StepMoves DEF FifoInv, ScheduleInv
    <3>4. Held(d2)'
      BY <3>2, HeldNext
    <3>5. [Route!Next]_(Route!vars)
      BY <3>1, <3>3, <3>4, StepRefines DEF FifoInv, ScheduleInv
    <3> QED
      BY <2>1, <3>3, <3>5 DEF FifoInv
  <2>3. CASE UNCHANGED vars
    <3>1. DeliveredOk'
      BY <2>3 DEF vars, FifoInv, DeliveredOk
    <3>2. UNCHANGED Route!vars
      <4>1. /\ sent' = sent /\ dropped' = dropped /\ delivered' = delivered
            /\ enqueued' = enqueued /\ inflight' = inflight
        BY <2>3 DEF vars
      <4>2. Inside' = Inside
        BY <4>1, Zenon DEF Inside, HopSet, PipeIds, Ids
      <4>3. PipeIds(delivered)' = PipeIds(delivered)
        BY <4>1, Zenon DEF PipeIds
      <4> QED
        BY <4>1, <4>2, <4>3, Zenon DEF Route!vars
    <3> QED
      BY <2>1, <3>1, <3>2 DEF FifoInv
  <2> QED
    BY <2>2, <2>3
<1> QED
  BY <1>1, <1>2, PTL DEF Spec, ImplementsLossyFifo, Route!Spec

----------------------------------------------------------------------------
(* The logger's books. *)

\* The queue with the logger logs what it accepts, and has room for any packet
\* when it is empty.
LoggedFits ==
    /\ Logged \in LogsArrivals
    /\ \A s \in Sizes : /\ s <= MaxSize[Logged]
                        /\ Logged \in EarlyDrop => s <= DropThreshold

LogType == [attached : BOOLEAN, seen : BOOLEAN, lastq : Nat, lastlook : Nat,
            cumidle : Nat, cumarr : Nat, cumdrop : Nat]

\* The books l of a queue whose packets are due to leave at the times of s.
BooksOk(l, s, t) ==
    /\ l \in LogType /\ l.lastlook <= t
    /\ endtime = 0 => ~l.attached
    /\ endtime # 0 => l.cumidle + l.cumarr = l.cumdrop + LastOf(s, l.lastlook)

\* What the logger makes of a departure, an arrival, a drop, and its own event.
DepartedAs(l, n, t, r) ==
    /\ r \in LogType /\ r.attached /\ r.seen /\ r.lastq = n /\ r.lastlook = t
    /\ r.cumidle = l.cumidle /\ r.cumarr = l.cumarr /\ r.cumdrop = l.cumdrop
ArrivedAs(l, n, b, w, t, r) ==
    /\ r \in LogType /\ r.attached /\ r.seen /\ r.lastq = n /\ r.lastlook = t
    /\ r.cumidle = l.cumidle + (IF n <= b THEN t - l.lastlook ELSE 0)
    /\ r.cumarr = l.cumarr + w /\ r.cumdrop = l.cumdrop
DroppedAs(l, n, w, t, r) ==
    /\ r \in LogType /\ r.attached /\ r.seen /\ r.lastq = n /\ r.lastlook = t
    /\ r.cumidle = l.cumidle /\ r.cumarr = l.cumarr + w
    /\ r.cumdrop = l.cumdrop + w
LookedAs(l, n, t, r) ==
    /\ ~l.attached => r = l
    /\ l.attached =>
          /\ r \in LogType /\ r.attached /\ ~r.seen /\ r.lastq = l.lastq
          /\ r.lastlook = t
          /\ r.cumidle = l.cumidle + (IF n = 0 THEN t - l.lastlook ELSE 0)
          /\ r.cumarr = l.cumarr /\ r.cumdrop = l.cumdrop

\* What the logger makes of a departure (loggers.cpp:96-120).
LEMMA DepartureLogged ==
    ASSUME NEW l \in LogType, NEW n \in Nat, NEW b \in Nat, NEW w \in Nat, NEW t \in Nat,
           NEW r, r = LogQueue(l, "PKT_SERVICE", n, b, w, t)
    PROVE  DepartedAs(l, n, t, r)
<1>1. r = [l EXCEPT !.attached = TRUE, !.seen = TRUE, !.lastq = n, !.lastlook = t]
  BY DEF LogQueue
<1> QED
  BY <1>1 DEF LogType, DepartedAs

\* What the logger makes of an arrival.
LEMMA ArrivalLogged ==
    ASSUME NEW l \in LogType, NEW n \in Nat, NEW b \in Nat, NEW w \in Nat, NEW t \in Nat,
           l.lastlook <= t, NEW r, r = LogQueue(l, "PKT_ENQUEUE", n, b, w, t)
    PROVE  ArrivedAs(l, n, b, w, t, r)
<1>1. PICK m : m = [l EXCEPT !.attached = TRUE, !.seen = TRUE, !.lastq = n, !.lastlook = t]
  OBVIOUS
<1>2. /\ m \in LogType /\ m.attached /\ m.seen /\ m.lastq = n /\ m.lastlook = t
      /\ m.cumidle = l.cumidle /\ m.cumarr = l.cumarr /\ m.cumdrop = l.cumdrop
  BY <1>1 DEF LogType
<1>3. PICK i \in Nat : i = IF n <= b THEN t - l.lastlook ELSE 0
  BY DEF LogType
<1>4. r = [m EXCEPT !.cumarr = @ + w, !.cumidle = @ + i]
  BY <1>1, <1>3 DEF LogQueue, EndsIdling
<1>5. l.cumidle \in Nat /\ l.cumarr \in Nat
  BY DEF LogType
<1>6. PICK a \in Nat, c \in Nat : a = m.cumarr + w /\ c = m.cumidle + i
  BY <1>2, <1>5
<1>7. r = [m EXCEPT !.cumarr = a, !.cumidle = c]
  BY <1>4, <1>6
<1> QED
  BY <1>2, <1>3, <1>6, <1>7 DEF LogType, ArrivedAs

\* What the logger makes of a drop.
LEMMA DropLogged ==
    ASSUME NEW l \in LogType, NEW n \in Nat, NEW b \in Nat, NEW w \in Nat, NEW t \in Nat,
           NEW r, r = LogQueue(l, "PKT_DROP", n, b, w, t)
    PROVE  DroppedAs(l, n, w, t, r)
<1>1. PICK m : m = [l EXCEPT !.attached = TRUE, !.seen = TRUE, !.lastq = n, !.lastlook = t]
  OBVIOUS
<1>2. /\ m \in LogType /\ m.attached /\ m.seen /\ m.lastq = n /\ m.lastlook = t
      /\ m.cumidle = l.cumidle /\ m.cumarr = l.cumarr /\ m.cumdrop = l.cumdrop
  BY <1>1 DEF LogType
<1>3. r = [m EXCEPT !.cumarr = @ + w, !.cumdrop = @ + w]
  BY <1>1 DEF LogQueue
<1>4. l.cumdrop \in Nat /\ l.cumarr \in Nat
  BY DEF LogType
<1>5. PICK a \in Nat, c \in Nat : a = m.cumarr + w /\ c = m.cumdrop + w
  BY <1>2, <1>4
<1>6. r = [m EXCEPT !.cumarr = a, !.cumdrop = c]
  BY <1>3, <1>5
<1> QED
  BY <1>2, <1>5, <1>6 DEF LogType, DroppedAs

\* What the logger makes of its own event.
LEMMA LookLogged ==
    ASSUME NEW l \in LogType, NEW n \in Nat, NEW t \in Nat, l.lastlook <= t,
           NEW r, r = Sample(l, n, t)
    PROVE  LookedAs(l, n, t, r)
<1>1. ASSUME ~l.attached PROVE r = l
  BY <1>1 DEF Sample
<1>2. ASSUME l.attached
      PROVE  /\ r \in LogType /\ r.attached /\ ~r.seen /\ r.lastq = l.lastq
             /\ r.lastlook = t
             /\ r.cumidle = l.cumidle + (IF n = 0 THEN t - l.lastlook ELSE 0)
             /\ r.cumarr = l.cumarr /\ r.cumdrop = l.cumdrop
  <2>1. PICK i \in Nat : i = IF n = 0 THEN t - l.lastlook ELSE 0
    BY DEF LogType
  <2>2. l.cumidle \in Nat
    BY DEF LogType
  <2>3. PICK c \in Nat : c = l.cumidle + i
    BY <2>1, <2>2
  <2>4. r = [l EXCEPT !.seen = FALSE, !.lastlook = t, !.cumidle = c]
    BY <1>2, <2>1, <2>3 DEF Sample
  <2> QED
    BY <1>2, <2>1, <2>3, <2>4 DEF LogType
<1> QED
  BY <1>1, <1>2 DEF LookedAs

\* The time at which the last packet of a queue is due to leave.
LEMMA LastIs ==
    ASSUME NEW s \in Seq(Nat)
    PROVE  /\ \A t : LastOf(<<>>, t) = t
           /\ s # <<>> => \A t, u : LastOf(s, t) = LastOf(s, u)
           /\ \A t \in Nat : LastOf(s, t) \in Nat
           /\ s # <<>> => \A t : LastOf(Tail(s), s[1]) = LastOf(s, t)
<1>1. \A t : LastOf(<<>>, t) = t
  BY DEF LastOf
<1>2. s # <<>> => \A t, u : LastOf(s, t) = LastOf(s, u)
  BY DEF LastOf
<1>3. PICK k \in Nat : k = Len(s)
  OBVIOUS
<1>4. s # <<>> => k \in 1 .. k
  BY <1>3
<1>5. \A t \in Nat : LastOf(s, t) \in Nat
  BY <1>3, <1>4 DEF LastOf
<1>7. ASSUME s # <<>>, NEW t PROVE LastOf(Tail(s), s[1]) = LastOf(s, t)
  <2>1. PICK u : u = Tail(s)
    OBVIOUS
  <2>2. /\ u \in Seq(Nat) /\ Len(u) = k - 1 /\ k # 0
        /\ \A j \in 1 .. k - 1 : u[j] = s[j + 1]
    BY <1>3, <1>7, <2>1, HeadTailProperties
  <2>3. LastOf(s, t) = s[k]
    BY <1>3, <1>7 DEF LastOf
  <2>4. CASE k = 1
    <3>1. u = <<>>
      BY <2>2, <2>4
    <3> QED
      BY <2>1, <2>3, <2>4, <3>1 DEF LastOf
  <2>5. CASE k # 1
    <3>1. u # <<>> /\ k - 1 \in 1 .. k - 1 /\ (k - 1) + 1 = k
      BY <1>3, <2>2, <2>5
    <3>2. LastOf(u, s[1]) = u[k - 1]
      BY <2>2, <3>1 DEF LastOf
    <3>3. u[k - 1] = s[(k - 1) + 1]
      BY <2>2, <3>1, Zenon
    <3> QED
      BY <2>1, <2>3, <3>1, <3>2, <3>3, Zenon
  <2> QED
    BY <2>4, <2>5
<1> QED
  BY <1>1, <1>2, <1>5, <1>7

\* The last departure is that of the packet that joined last.
LEMMA LastJoins ==
    ASSUME NEW s \in Seq(Nat), NEW x \in Nat, NEW t
    PROVE  LastOf(Append(s, x), t) = x
<1>1. PICK u, k : u = Append(s, x) /\ k = Len(s)
  OBVIOUS
<1>2. u \in Seq(Nat) /\ k \in Nat /\ Len(u) = k + 1 /\ u[k + 1] = x
  BY <1>1, AppendProperties
<1>3. u # <<>>
  BY <1>2
<1> QED
  BY <1>1, <1>2, <1>3 DEF LastOf

\* The books stay right while nothing happens.
LEMMA BooksAge ==
    ASSUME NEW l, NEW s, NEW t \in Nat, BooksOk(l, s, t), NEW u \in Nat, t <= u
    PROVE  BooksOk(l, s, u)
<1>1. l.lastlook \in Nat
  BY DEF BooksOk, LogType
<1> QED
  BY <1>1 DEF BooksOk

\* The books stay right when a packet departs.
LEMMA BooksServe ==
    ASSUME NEW l, NEW s \in Seq(Nat), NEW t \in Nat, BooksOk(l, s, t), endtime # 0,
           s # <<>>, NEW n \in Nat, NEW u \in Nat, u = s[1],
           NEW r, DepartedAs(l, n, u, r)
    PROVE  BooksOk(r, Tail(s), u)
<1>1. l \in LogType /\ l.cumidle + l.cumarr = l.cumdrop + LastOf(s, l.lastlook)
  BY DEF BooksOk
<1>2. /\ r \in LogType /\ r.lastlook = u
      /\ r.cumidle = l.cumidle /\ r.cumarr = l.cumarr /\ r.cumdrop = l.cumdrop
  BY DEF DepartedAs
<1>3. LastOf(Tail(s), u) = LastOf(s, l.lastlook)
  BY LastIs
<1> QED
  BY <1>1, <1>2, <1>3 DEF BooksOk

\* The books stay right when a packet joins the queue.
LEMMA BooksAccept ==
    ASSUME NEW l, NEW s \in Seq(Nat), NEW t \in Nat, BooksOk(l, s, t), endtime # 0,
           NEW n \in Nat, (n = 0 <=> s = <<>>), NEW b \in Nat, NEW w \in Nat,
           NEW u \in Nat, t <= u,
           NEW r, ArrivedAs(l, n + b, b, w, u, r)
    PROVE  BooksOk(r, Append(s, LastOf(s, u) + w), u)
<1>1. /\ l \in LogType /\ l.cumidle + l.cumarr = l.cumdrop + LastOf(s, l.lastlook)
      /\ l.lastlook <= t
  BY DEF BooksOk
<1>2. /\ l.lastlook \in Nat /\ l.cumidle \in Nat /\ l.cumarr \in Nat /\ l.cumdrop \in Nat
  BY <1>1 DEF LogType
<1>3. l.lastlook <= u /\ n + b \in Nat
  BY <1>1, <1>2
<1>4. /\ r \in LogType /\ r.lastlook = u
      /\ r.cumidle = l.cumidle + (IF n + b <= b THEN u - l.lastlook ELSE 0)
      /\ r.cumarr = l.cumarr + w /\ r.cumdrop = l.cumdrop
  BY DEF ArrivedAs
<1>5. PICK y \in Nat : y = LastOf(s, u)
  BY LastIs
<1>6. LastOf(Append(s, y + w), u) = y + w
  <2>1. PICK z \in Nat : z = y + w
    OBVIOUS
  <2>2. LastOf(Append(s, z), u) = z
    BY LastJoins
  <2> QED
    BY <2>1, <2>2, Zenon
<1>61. PICK i \in Nat, a \in Nat, c \in Nat, o \in Nat :
          i = l.cumidle /\ a = l.cumarr /\ c = l.cumdrop /\ o = l.lastlook
  BY <1>2
<1>7. r.cumidle + r.cumarr = r.cumdrop + (y + w)
  <2>1. CASE s = <<>>
    <3>1. y = u /\ LastOf(s, l.lastlook) = l.lastlook /\ n = 0
      BY <1>5, <2>1, LastIs
    <3>2. i + a = c + o
      BY <1>1, <1>61, <3>1, Zenon
    <3>3. r.cumidle = i + (u - o) /\ r.cumarr = a + w /\ r.cumdrop = c
      <4>1. n + b <= b
        BY <3>1
      <4> QED
        BY <1>4, <1>61, <4>1, Zenon
    <3>4. (i + (u - o)) + (a + w) = c + (u + w)
      BY <3>2
    <3> QED
      BY <3>1, <3>3, <3>4, Zenon
  <2>2. CASE s # <<>>
    <3>1. y = LastOf(s, l.lastlook) /\ ~(n + b <= b)
      BY <1>5, <2>2, LastIs
    <3>2. i + a = c + y
      BY <1>1, <1>61, <3>1, Zenon
    <3>3. r.cumidle = i + 0 /\ r.cumarr = a + w /\ r.cumdrop = c
      BY <1>4, <1>61, <3>1, Zenon
    <3>4. (i + 0) + (a + w) = c + (y + w)
      BY <3>2
    <3> QED
      BY <3>3, <3>4, Zenon
  <2> QED
    BY <2>1, <2>2
<1>8. BooksOk(r, Append(s, y + w), u)
  BY <1>4, <1>6, <1>7 DEF BooksOk
<1> QED
  BY <1>5, <1>8

\* The books stay right when a packet finds a queue that is not empty full.
LEMMA BooksDrop ==
    ASSUME NEW l, NEW s \in Seq(Nat), NEW t \in Nat, BooksOk(l, s, t), endtime # 0,
           s # <<>>, NEW n \in Nat, NEW w \in Nat, NEW u \in Nat,
           NEW r, DroppedAs(l, n, w, u, r)
    PROVE  BooksOk(r, s, u)
<1>1. l \in LogType /\ l.cumidle + l.cumarr = l.cumdrop + LastOf(s, l.lastlook)
  BY DEF BooksOk
<1>2. /\ r \in LogType /\ r.lastlook = u
      /\ r.cumidle = l.cumidle /\ r.cumarr = l.cumarr + w /\ r.cumdrop = l.cumdrop + w
  BY DEF DroppedAs
<1>3. PICK y \in Nat : y = LastOf(s, l.lastlook) /\ y = LastOf(s, u)
  <2>1. l.lastlook \in Nat
    BY <1>1 DEF LogType
  <2> QED
    BY <2>1, LastIs
<1>4. /\ l.cumidle \in Nat /\ l.cumarr \in Nat /\ l.cumdrop \in Nat
  BY <1>1 DEF LogType
<1>5. r.cumidle + r.cumarr = r.cumdrop + y
  <2>1. PICK i \in Nat, a \in Nat, c \in Nat :
           i = l.cumidle /\ a = l.cumarr /\ c = l.cumdrop
    BY <1>4
  <2>2. i + a = c + y
    BY <1>1, <1>3, <2>1, Zenon
  <2>3. i + (a + w) = (c + w) + y
    BY <2>2
  <2> QED
    BY <1>2, <2>1, <2>3, Zenon
<1> QED
  BY <1>2, <1>3, <1>5 DEF BooksOk

\* The books stay right when the logger looks at the queue's size.
LEMMA BooksLook ==
    ASSUME NEW l, NEW s \in Seq(Nat), NEW t \in Nat, BooksOk(l, s, t),
           NEW n \in Nat, (n = 0 <=> s = <<>>), NEW u \in Nat, t <= u,
           NEW r, LookedAs(l, n, u, r)
    PROVE  BooksOk(r, s, u)
<1>1. /\ l \in LogType /\ l.lastlook <= t /\ l.lastlook \in Nat
      /\ l.cumidle \in Nat /\ l.cumarr \in Nat /\ l.cumdrop \in Nat
  BY DEF BooksOk, LogType
<1>2. l.lastlook <= u
  BY <1>1
<1>3. CASE ~l.attached
  <2>1. r = l
    BY <1>3 DEF LookedAs
  <2> QED
    BY <2>1, BooksAge
<1>4. CASE l.attached
  <2>1. endtime # 0 /\ l.cumidle + l.cumarr = l.cumdrop + LastOf(s, l.lastlook)
    BY <1>4 DEF BooksOk
  <2>2. /\ r \in LogType /\ r.lastlook = u
        /\ r.cumidle = l.cumidle + (IF n = 0 THEN u - l.lastlook ELSE 0)
        /\ r.cumarr = l.cumarr /\ r.cumdrop = l.cumdrop
    BY <1>4 DEF LookedAs
  <2>21. PICK i \in Nat, a \in Nat, c \in Nat, o \in Nat :
            i = l.cumidle /\ a = l.cumarr /\ c = l.cumdrop /\ o = l.lastlook
    BY <1>1
  <2>3. r.cumidle + r.cumarr = r.cumdrop + LastOf(s, u)
    <3>1. CASE s = <<>>
      <4>1. LastOf(s, l.lastlook) = l.lastlook /\ LastOf(s, u) = u /\ n = 0
        BY <3>1, LastIs
      <4>2. i + a = c + o /\ r.cumidle = i + (u - o)
        BY <2>1, <2>2, <2>21, <4>1, Zenon
      <4>3. (i + (u - o)) + a = c + u
        BY <4>2
      <4> QED
        BY <2>2, <2>21, <4>1, <4>2, <4>3, Zenon
    <3>2. CASE s # <<>>
      <4>1. PICK y \in Nat : y = LastOf(s, l.lastlook) /\ y = LastOf(s, u) /\ n # 0
        BY <1>1, <3>2, LastIs
      <4>2. i + a = c + y /\ r.cumidle = i + 0
        BY <2>1, <2>2, <2>21, <4>1, Zenon
      <4>3. (i + 0) + a = c + y
        BY <4>2
      <4> QED
        BY <2>2, <2>21, <4>1, <4>2, <4>3, Zenon
    <3> QED
      BY <3>1, <3>2
  <2> QED
    BY <2>1, <2>2, <2>3 DEF BooksOk
<1> QED
  BY <1>3, <1>4

----------------------------------------------------------------------------
(* What a step does to the books *)

LogOk == /\ log \in LogType /\ log.lastlook <= now
         /\ endtime = 0 => ~log.attached

LogRests(d, d2) ==
    /\ log' = log /\ sampled' = sampled
    /\ endtime = 0 \/ (queuesize'[Logged] = queuesize[Logged] /\ d2[Logged] = d[Logged])
LogDeparts(d, d2) ==
    /\ endtime # 0 /\ sampled' = sampled
    /\ DepartedAs(log, queuesize'[Logged], now', log')
    /\ d[Logged] # <<>> /\ d[Logged][1] = now' /\ d2[Logged] = Tail(d[Logged])
LogArrives(d, d2) ==
    /\ endtime # 0 /\ sampled' = sampled
    /\ \E b, w \in Nat :
          /\ queuesize'[Logged] = queuesize[Logged] + b
          /\ ArrivedAs(log, queuesize[Logged] + b, b, w, now', log')
          /\ d2[Logged] = Append(d[Logged], LastOf(d[Logged], now') + w)
LogDrops(d, d2) ==
    /\ endtime # 0 /\ sampled' = sampled
    /\ \E w \in Nat : DroppedAs(log, queuesize[Logged], w, now', log')
    /\ queuesize'[Logged] = queuesize[Logged] /\ d2[Logged] = d[Logged]
    /\ LoggedFits => d[Logged] # <<>>
LogLooks(d, d2) ==
    /\ sampled' = queuesize[Logged]
    /\ LookedAs(log, queuesize[Logged], now', log')
    /\ queuesize'[Logged] = queuesize[Logged] /\ d2[Logged] = d[Logged]
LogMoves(d, d2) ==
    \/ LogRests(d, d2) \/ LogDeparts(d, d2) \/ LogArrives(d, d2)
    \/ LogDrops(d, d2) \/ LogLooks(d, d2)

\* The queue with the logger.
LEMMA LoggedIs ==
    ASSUME NEW d, Held(d)
    PROVE  /\ Logged \in HopSet /\ queuesize[Logged] \in Nat
           /\ d \in [HopSet -> Seq(Nat)] /\ queuesize \in [HopSet -> Nat]
           /\ enqueued \in [HopSet -> Seq(Packet)]
           /\ d[Logged] \in Seq(Nat) /\ now \in Nat
           /\ (queuesize[Logged] = 0 <=> d[Logged] = <<>>)
           /\ (enqueued[Logged] = <<>> <=> d[Logged] = <<>>)
<1>1. Logged \in HopSet
  BY LinkAssumption
<1>2. /\ d \in [HopSet -> Seq(Nat)] /\ queuesize \in [HopSet -> Nat] /\ now \in Nat
      /\ enqueued \in [HopSet -> Seq(Packet)]
  BY DEF Held, HeldBut
<1>3. QueueOk(pending, Logged, enqueued[Logged], queuesize[Logged], d[Logged], now)
  BY <1>1, Names DEF Held, HeldBut
<1>4. PICK e, n, s : e = enqueued[Logged] /\ n = queuesize[Logged] /\ s = d[Logged]
  OBVIOUS
<1>5. Line(PsPerByte[Logged], e, n, s, now)
  BY <1>3, <1>4 DEF QueueOk
<1>6. /\ e \in Seq(Packet) /\ s \in Seq(Nat) /\ Len(s) = Len(e) /\ n = SizeOf(e)
  BY <1>5 DEF Line
<1>7. e = <<>> <=> n = 0
  BY <1>6, SizeIs
<1>8. s = <<>> <=> e = <<>>
  BY <1>6
<1> QED
  BY <1>1, <1>2, <1>4, <1>7, <1>8

\* The drain time of a packet.
LEMMA Drains ==
    ASSUME NEW h \in HopSet, NEW x \in Packet
    PROVE  DrainTime(h, x) \in Nat /\ DrainTime(h, x) = x.size * PsPerByte[h] /\ x.size \in Nat
<1>1. x.size \in Nat /\ PsPerByte[h] \in Nat
  BY PacketSize, Rates
<1>2. x.size * PsPerByte[h] \in Nat
  BY <1>1, Scale
<1> QED
  BY <1>1, <1>2 DEF DrainTime

\* What a departure from a queue writes in the books.
LEMMA LogServing ==
    ASSUME NEW d, NEW d2, Held(d), LogOk, NEW h \in HopSet, NEW x \in Packet, NEW y,
           Serves(h, x, y, d, d2), now' \in Nat, queuesize' \in [HopSet -> Nat]
    PROVE  LogMoves(d, d2)
<1>1. /\ enqueued[h] # <<>> /\ d[h][1] = now' /\ sampled' = sampled
      /\ queuesize' = [queuesize EXCEPT ![h] = @ - x.size]
      /\ log' = Told(log, h, "PKT_SERVICE", queuesize'[h], x, now')
      /\ d2 = [d EXCEPT ![h] = Tail(@)]
  BY DEF Serves
<1>2. CASE h = Logged /\ endtime # 0
  <2>1. log' = LogQueue(log, "PKT_SERVICE", queuesize'[h], x.size, DrainTime(h, x), now')
    BY <1>1, <1>2, Zenon DEF Told, HasLogger
  <2>2. log \in LogType /\ queuesize'[h] \in Nat /\ x.size \in Nat /\ DrainTime(h, x) \in Nat
    BY Drains DEF LogOk
  <2>3. DepartedAs(log, queuesize'[h], now', log')
    BY <2>1, <2>2, DepartureLogged, Zenon
  <2>4. d2[h] = Tail(d[h]) /\ d[h] # <<>>
    BY <1>1, <1>2, LoggedIs
  <2> QED
    BY <1>1, <1>2, <2>3, <2>4, Zenon DEF LogMoves, LogDeparts
<1>3. CASE ~(h = Logged /\ endtime # 0)
  <2>1. log' = log
    BY <1>1, <1>3, Zenon DEF Told, HasLogger
  <2>2. h # Logged => queuesize'[Logged] = queuesize[Logged] /\ d2[Logged] = d[Logged]
    BY <1>1, LoggedIs
  <2> QED
    BY <1>1, <1>3, <2>1, <2>2, Zenon DEF LogMoves, LogRests
<1> QED
  BY <1>2, <1>3

\* What an accepted packet writes in the books.
LEMMA LogAccepting ==
    ASSUME NEW d, NEW d2, Held(d), LogOk, Logged \in LogsArrivals,
           NEW h \in HopSet, NEW x \in Packet, Accepts(h, x, d, d2),
           now' \in Nat, now <= now', sampled' = sampled
    PROVE  LogMoves(d, d2)
<1>1. /\ queuesize' = [queuesize EXCEPT ![h] = @ + x.size]
      /\ log' = IF h \in LogsArrivals
                THEN Told(log, h, "PKT_ENQUEUE", queuesize[h] + x.size, x, now') ELSE log
      /\ d2 = [d EXCEPT ![h] = Append(@, LastOf(d[h], now') + x.size * PsPerByte[h])]
  BY DEF Accepts
<1>2. CASE h = Logged /\ endtime # 0
  <2>1. log' = LogQueue(log, "PKT_ENQUEUE", queuesize[h] + x.size, x.size, DrainTime(h, x), now')
    <3>1. log' = Told(log, h, "PKT_ENQUEUE", queuesize[h] + x.size, x, now')
      BY <1>1, <1>2, Zenon
    <3> QED
      BY <1>2, <3>1, Zenon DEF Told, HasLogger
  <2>2. /\ x.size \in Nat /\ DrainTime(h, x) \in Nat
        /\ DrainTime(h, x) = x.size * PsPerByte[h]
    BY Drains
  <2>3. /\ log \in LogType /\ log.lastlook <= now' /\ queuesize[h] + x.size \in Nat
    <3>1. log.lastlook \in Nat /\ log.lastlook <= now /\ now \in Nat /\ queuesize[h] \in Nat
      BY LoggedIs, <1>2 DEF LogOk, LogType
    <3> QED
      BY <2>2, <3>1 DEF LogOk
  <2>4. ArrivedAs(log, queuesize[h] + x.size, x.size, DrainTime(h, x), now', log')
    BY <2>1, <2>2, <2>3, ArrivalLogged, Zenon
  <2>5. queuesize'[h] = queuesize[h] + x.size
    BY <1>1, LoggedIs
  <2>6. d2[h] = Append(d[h], LastOf(d[h], now') + DrainTime(h, x))
    BY <1>1, <2>2, LoggedIs
  <2> QED
    BY <1>2, <2>2, <2>4, <2>5, <2>6, Zenon DEF LogMoves, LogArrives
<1>3. CASE ~(h = Logged /\ endtime # 0)
  <2>1. log' = log
    BY <1>1, <1>3, Zenon DEF Told, HasLogger
  <2>2. h # Logged => queuesize'[Logged] = queuesize[Logged] /\ d2[Logged] = d[Logged]
    BY <1>1, LoggedIs
  <2> QED
    BY <1>3, <2>1, <2>2, Zenon DEF LogMoves, LogRests
<1> QED
  BY <1>2, <1>3

\* What a dropped packet writes in the books.
LEMMA LogDropping ==
    ASSUME NEW d, NEW d2, Held(d), LogOk,
           NEW h \in HopSet, NEW x \in Packet, Drops(h, x, d, d2),
           now' \in Nat, sampled' = sampled
    PROVE  LogMoves(d, d2)
<1>1. /\ queuesize' = queuesize /\ d2 = d
      /\ log' = Told(log, h, "PKT_DROP", queuesize[h], x, now')
  BY DEF Drops
<1>2. PICK early \in BOOLEAN : Rejects(queuesize[h], h, x, early)
  BY DEF Drops
<1>3. CASE h = Logged /\ endtime # 0
  <2>1. log' = LogQueue(log, "PKT_DROP", queuesize[h], x.size, DrainTime(h, x), now')
    BY <1>1, <1>3, Zenon DEF Told, HasLogger
  <2>2. /\ x.size \in Nat /\ DrainTime(h, x) \in Nat /\ log \in LogType
        /\ queuesize[h] \in Nat
    BY <1>3, Drains, LoggedIs DEF LogOk
  <2>3. DroppedAs(log, queuesize[h], DrainTime(h, x), now', log')
    BY <2>1, <2>2, DropLogged, Zenon
  <2>4. ASSUME LoggedFits, d[Logged] = <<>> PROVE FALSE
    <3>1. queuesize[h] = 0
      BY <1>3, <2>4, LoggedIs
    <3>2. x.size \in Sizes
      BY DEF Packet
    <3>3. x.size <= MaxSize[h] /\ (h \in EarlyDrop => x.size <= DropThreshold)
      BY <1>3, <2>4, <3>2 DEF LoggedFits
    <3>4. MaxSize[h] \in Nat /\ DropThreshold \in Nat
      BY Rates, LinkAssumption
    <3> QED
      BY <1>2, <2>2, <3>1, <3>3, <3>4 DEF Rejects, Overflows
  <2> QED
    BY <1>1, <1>3, <2>2, <2>3, <2>4, Zenon DEF LogMoves, LogDrops
<1>4. CASE ~(h = Logged /\ endtime # 0)
  <2>1. log' = log
    BY <1>1, <1>4, Zenon DEF Told, HasLogger
  <2> QED
    BY <1>1, <2>1, Zenon DEF LogMoves, LogRests
<1> QED
  BY <1>3, <1>4

\* What a step writes in the books.
LEMMA LogStep ==
    ASSUME NEW d, NEW d2, Held(d), LogOk, Logged \in LogsArrivals, Steps(d, d2)
    PROVE  LogMoves(d, d2)
<1>1. now' \in Nat /\ now <= now' /\ queuesize' \in [HopSet -> Nat]
  BY DEF Steps, HeldBut
<1>2. 1 \in HopSet
  BY LinkAssumption DEF HopSet
<1>3. ASSUME NEW x \in Packet, Sends(x, d, d2) PROVE LogMoves(d, d2)
  BY <1>1, <1>2, <1>3, LogAccepting, LogDropping DEF Sends
<1>4. ASSUME Looks(d, d2) PROVE LogMoves(d, d2)
  <2>1. /\ log' = Sample(log, queuesize[Logged], now') /\ sampled' = queuesize[Logged]
        /\ queuesize' = queuesize /\ d2 = d
    BY <1>4 DEF Looks
  <2>2. log \in LogType /\ queuesize[Logged] \in Nat /\ log.lastlook <= now'
    <3>1. log.lastlook \in Nat /\ log.lastlook <= now /\ now \in Nat
      BY LoggedIs DEF LogOk, LogType
    <3> QED
      BY <1>1, <3>1, LoggedIs DEF LogOk
  <2>3. LookedAs(log, queuesize[Logged], now', log')
    BY <1>1, <2>1, <2>2, LookLogged, Zenon
  <2> QED
    BY <2>1, <2>3, Zenon DEF LogMoves, LogLooks
<1>5. ASSUME NEW h \in HopSet, NEW x \in Packet, NEW y \in Packet, Serves(h, x, y, d, d2)
      PROVE  LogMoves(d, d2)
  BY <1>1, <1>5, LogServing
<1>6. ASSUME NEW h \in HopSet, NEW x \in Packet, HandsOn(h, x, d, d2)
      PROVE  LogMoves(d, d2)
  <2>1. sampled' = sampled
    BY <1>6 DEF HandsOn
  <2>2. CASE h < Hops
    <3>1. h + 1 \in HopSet
      BY <2>2, LinkAssumption DEF HopSet
    <3>2. Accepts(h + 1, x, d, d2) \/ Drops(h + 1, x, d, d2)
      BY <1>6, <2>2, LinkAssumption DEF HandsOn
    <3> QED
      BY <1>1, <2>1, <3>1, <3>2, LogAccepting, LogDropping
  <2>3. CASE h = Hops
    <3>1. queuesize' = queuesize /\ log' = log /\ d2 = d
      BY <1>6, <2>3, LinkAssumption DEF HandsOn
    <3> QED
      BY <2>1, <3>1, Zenon DEF LogMoves, LogRests
  <2> QED
    BY <1>6, <2>2, <2>3 DEF HandsOn
<1> QED
  BY <1>3, <1>4, <1>5, <1>6 DEF Steps

\* The books are right after a step.
LEMMA BooksStep ==
    ASSUME NEW d, NEW d2, Held(d), LoggedFits, Steps(d, d2),
           BooksOk(log, d[Logged], now)
    PROVE  BooksOk(log, d2[Logged], now)'
<1>0. PICK r, m : r = log' /\ m = log
  OBVIOUS
<1>1. PICK s \in Seq(Nat), n \in Nat, t \in Nat, u \in Nat :
         /\ s = d[Logged] /\ n = queuesize[Logged] /\ t = now /\ u = now' /\ r = log'
         /\ m = log /\ t <= u /\ (n = 0 <=> s = <<>>) /\ endtime' = endtime
  <2>1. now' \in Nat /\ now <= now' /\ endtime' = endtime
    BY DEF Steps
  <2> QED
    BY <1>0, <2>1, LoggedIs
<1>2. BooksOk(m, s, t)
  BY <1>1
<1>3. LogMoves(d, d2)
  <2>1. LogOk /\ Logged \in LogsArrivals
    BY DEF BooksOk, LogOk, LoggedFits
  <2> QED
    BY <2>1, LogStep
<1>4. BooksOk(r, d2[Logged], u)
  <2>1. CASE LogRests(d, d2)
    <3>1. BooksOk(m, s, u)
      BY <1>1, <1>2, BooksAge
    <3>2. r = m
      BY <1>1, <2>1, Zenon DEF LogRests
    <3>3. CASE endtime = 0
      BY <3>1, <3>2, <3>3 DEF BooksOk
    <3>4. CASE endtime # 0
      <4>1. d2[Logged] = s
        BY <1>1, <2>1, <3>4, Zenon DEF LogRests
      <4> QED
        BY <3>1, <3>2, <4>1, Zenon
    <3> QED
      BY <3>3, <3>4
  <2>2. CASE LogDeparts(d, d2)
    <3>1. PICK n2 \in Nat : n2 = queuesize'[Logged]
      <4>1. queuesize' \in [HopSet -> Nat] /\ Logged \in HopSet
        BY LoggedIs DEF Steps, HeldBut
      <4> QED
        BY <4>1
    <3>2. /\ endtime # 0 /\ DepartedAs(m, n2, u, r) /\ s # <<>> /\ u = s[1]
          /\ d2[Logged] = Tail(s)
      BY <1>1, <2>2, <3>1, Zenon DEF LogDeparts
    <3> QED
      BY <1>2, <3>2, BooksServe
  <2>3. CASE LogArrives(d, d2)
    <3>1. PICK b \in Nat, w \in Nat :
             /\ endtime # 0 /\ ArrivedAs(m, n + b, b, w, u, r)
             /\ d2[Logged] = Append(s, LastOf(s, u) + w)
      BY <1>1, <2>3, Zenon DEF LogArrives
    <3>2. BooksOk(r, Append(s, LastOf(s, u) + w), u)
      BY <1>1, <1>2, <3>1, BooksAccept
    <3> QED
      BY <3>1, <3>2
  <2>4. CASE LogDrops(d, d2)
    <3>1. PICK w \in Nat : endtime # 0 /\ DroppedAs(m, n, w, u, r) /\ s # <<>> /\ d2[Logged] = s
      BY <1>1, <2>4, Zenon DEF LogDrops
    <3> QED
      BY <1>2, <3>1, BooksDrop
  <2>5. CASE LogLooks(d, d2)
    <3>1. LookedAs(m, n, u, r) /\ d2[Logged] = s
      BY <1>1, <2>5, Zenon DEF LogLooks
    <3> QED
      BY <1>1, <1>2, <3>1, BooksLook
  <2> QED
    BY <1>3, <2>1, <2>2, <2>3, <2>4, <2>5 DEF LogMoves
<1> QED
  BY <1>1, <1>4 DEF BooksOk

\* What the logger has seen of the queue's size.
SizeSeen ==
    /\ LogOk
    /\ log.attached => log.lastq = queuesize[Logged]
    /\ log.attached /\ ~log.seen => queuesize[Logged] = sampled

\* The sizes that the logger knows are right after a step.
LEMMA SeenStep ==
    ASSUME NEW d, NEW d2, Held(d), Logged \in LogsArrivals, Steps(d, d2), SizeSeen
    PROVE  SizeSeen'
<1>1. /\ now' \in Nat /\ now <= now' /\ endtime' = endtime
  BY DEF Steps
<1>2. LogMoves(d, d2)
  BY LogStep DEF SizeSeen
<1>3. /\ log \in LogType /\ log.lastlook <= now /\ log.lastlook \in Nat /\ now \in Nat
      /\ endtime = 0 => ~log.attached
  BY LoggedIs DEF SizeSeen, LogOk, LogType
<1>4. log.lastlook <= now'
  BY <1>1, <1>3
<1>5. CASE LogRests(d, d2)
  <2>1. log' = log /\ sampled' = sampled
    BY <1>5 DEF LogRests
  <2>2. endtime # 0 => queuesize'[Logged] = queuesize[Logged]
    BY <1>5 DEF LogRests
  <2> QED
    BY <1>1, <1>3, <1>4, <2>1, <2>2 DEF SizeSeen, LogOk
<1>6. ASSUME endtime # 0, log' \in LogType, log'.lastlook = now', log'.seen,
             log'.lastq = queuesize'[Logged]
      PROVE  SizeSeen'
  BY <1>1, <1>6 DEF SizeSeen, LogOk
<1>7. CASE LogDeparts(d, d2)
  BY <1>6, <1>7 DEF LogDeparts, DepartedAs
<1>8. CASE LogArrives(d, d2)
  BY <1>6, <1>8 DEF LogArrives, ArrivedAs
<1>9. CASE LogDrops(d, d2)
  BY <1>6, <1>9 DEF LogDrops, DroppedAs
<1>10. CASE LogLooks(d, d2)
  <2>1. /\ LookedAs(log, queuesize[Logged], now', log') /\ sampled' = queuesize[Logged]
        /\ queuesize'[Logged] = queuesize[Logged]
    BY <1>10 DEF LogLooks
  <2>2. CASE ~log.attached
    <3>1. log' = log
      BY <2>1, <2>2 DEF LookedAs
    <3> QED
      BY <1>1, <1>3, <1>4, <2>2, <3>1 DEF SizeSeen, LogOk
  <2>3. CASE log.attached
    <3>1. log' \in LogType /\ log'.lastlook = now' /\ log'.lastq = log.lastq
      BY <2>1, <2>3 DEF LookedAs
    <3>2. log.lastq = queuesize[Logged]
      BY <2>3 DEF SizeSeen
    <3> QED
      BY <1>1, <1>3, <2>1, <2>3, <3>1, <3>2 DEF SizeSeen, LogOk
  <2> QED
    BY <2>2, <2>3
<1> QED
  BY <1>2, <1>5, <1>7, <1>8, <1>9, <1>10 DEF LogMoves

\* Books that are right add up.
LEMMA BooksAreRight ==
    ASSUME NEW d, Held(d), BooksOk(log, d[Logged], now)
    PROVE  BooksAddUp
<1>1. PICK e, n, s, m : /\ e = enqueued[Logged] /\ n = queuesize[Logged]
                        /\ s = d[Logged] /\ m = PsPerByte[Logged]
  OBVIOUS
<1>2. /\ m \in Nat /\ s \in Seq(Nat) /\ e \in Seq(Packet) /\ n \in Nat
      /\ (e = <<>> <=> s = <<>>)
  BY <1>1, LoggedIs, Rates
<1>3. Line(m, e, n, s, now) /\ (e # <<>> => Due(pending, Queue(Logged), s[1]))
  BY <1>1, LoggedIs, Names DEF Held, HeldBut, QueueOk
<1>4. SUFFICES ASSUME log.attached
               PROVE  LET booked == log.cumidle + log.cumarr - log.cumdrop IN
                      IF enqueued[Logged] = <<>> THEN booked = log.lastlook
                      ELSE \A i \in QueueEvents :
                              booked = pending[i].at
                                       + PsPerByte[Logged] * SizeOf(Tail(enqueued[Logged]))
  BY Zenon DEF BooksAddUp
<1>5. /\ log \in LogType
      /\ log.cumidle + log.cumarr = log.cumdrop + LastOf(s, log.lastlook)
  BY <1>1, <1>4 DEF BooksOk
<1>6. PICK i \in Nat, a \in Nat, c \in Nat, o \in Nat :
         i = log.cumidle /\ a = log.cumarr /\ c = log.cumdrop /\ o = log.lastlook
  BY <1>5 DEF LogType
<1>7. CASE e = <<>>
  <2>1. LastOf(s, o) = o
    BY <1>2, <1>7, LastIs
  <2>2. i + a = c + o
    BY <1>5, <1>6, <2>1, Zenon
  <2>3. i + a - c = o
    BY <2>2
  <2> QED
    BY <1>1, <1>6, <1>7, <2>3, Zenon
<1>8. CASE e # <<>>
  <2>1. PICK z \in Nat, w \in Nat : /\ z = SizeOf(Tail(e))
                                    /\ w = Head(e).size /\ n = w + z
    <3>1. SizeOf(e) = Head(e).size + SizeOf(Tail(e)) /\ SizeOf(Tail(e)) \in Nat
      BY <1>2, <1>8, SizeIs
    <3>2. Head(e) \in Packet
      BY <1>2, <1>8, HeadTailProperties
    <3>3. n = SizeOf(e)
      BY <1>3 DEF Line
    <3> QED
      BY <3>1, <3>2, <3>3, PacketSize
  <2>2. PICK x \in Nat, y \in Nat : x = z * m /\ y = w * m /\ n * m = y + x
    <3>1. /\ z * m \in Nat /\ w * m \in Nat /\ (w + z) * m = w * m + z * m
      <4>1. m \in Nat /\ w \in Nat /\ z \in Nat
        BY <1>2, <2>1
      <4>2. \A p, q, r \in Nat : /\ q * r \in Nat /\ p * r \in Nat
                                 /\ (p + q) * r = p * r + q * r
        BY Scale
      <4>3. z * m \in Nat /\ w * m \in Nat
        BY <4>1, <4>2
      <4>4. (w + z) * m = w * m + z * m
        BY <4>1, <4>2
      <4> QED
        BY <4>3, <4>4
    <3>2. n = w + z
      BY <2>1
    <3> QED
      BY <3>1, <3>2, Zenon
  <2>3. PICK k \in Nat, b \in Nat, f \in Nat :
           /\ k = Len(s) /\ f = s[1] /\ b = s[k] /\ s # <<>>
    <3>1. s # <<>> /\ Len(s) \in Nat
      BY <1>2, <1>8
    <3>2. 1 \in 1 .. Len(s) /\ Len(s) \in 1 .. Len(s)
      BY <1>2, <3>1
    <3> QED
      BY <1>2, <3>1, <3>2
  <2>4. b + y = f + (y + x)
    <3>1. s[Len(e)] + e[1].size * m = s[1] + n * m /\ Len(s) = Len(e)
      BY <1>3, <1>8 DEF Line
    <3>2. e[1] = Head(e)
      BY <1>2, <1>8
    <3> QED
      BY <2>1, <2>2, <2>3, <3>1, <3>2, Zenon
  <2>5. b = f + x
    BY <2>4
  <2>6. LastOf(s, o) = b
    BY <2>3 DEF LastOf
  <2>7. i + a = c + b
    BY <1>5, <1>6, <2>6, Zenon
  <2>8. i + a - c = f + x
    BY <2>5, <2>7
  <2>9. x = m * z
    BY <1>2, <2>1, <2>2
  <2>10. ASSUME NEW j \in QueueEvents PROVE pending[j].at = f
    <3>1. OneFor(pending, Queue(Logged), f)
      BY <1>3, <1>8, <2>3 DEF Due, QueueEvents, EventsOf, NoneFor
    <3> QED
      BY <3>1 DEF OneFor, QueueEvents, EventsOf
  <2>11. ASSUME NEW j \in QueueEvents
         PROVE  log.cumidle + log.cumarr - log.cumdrop =
                    pending[j].at + PsPerByte[Logged] * SizeOf(Tail(enqueued[Logged]))
    BY <1>1, <1>6, <2>1, <2>8, <2>9, <2>10, Zenon
  <2> QED
    BY <1>1, <1>8, <2>11, Zenon
<1> QED
  BY <1>7, <1>8

\* The books are right at the start, when nothing is written in them.
LEMMA BooksInit ==
    ASSUME Init, NEW d, d = [h \in HopSet |-> <<>>]
    PROVE  BooksOk(log, d[Logged], now) /\ SizeSeen
<1>1. log = NoLog /\ now = 0 /\ d[Logged] = <<>>
  BY LinkAssumption DEF Init
<1>2. /\ NoLog \in LogType /\ ~NoLog.attached /\ NoLog.lastlook = 0
      /\ NoLog.cumidle = 0 /\ NoLog.cumarr = 0 /\ NoLog.cumdrop = 0
  BY DEF NoLog, LogType
<1>3. LastOf(<<>>, 0) = 0
  BY DEF LastOf
<1> QED
  BY <1>1, <1>2, <1>3 DEF BooksOk, SizeSeen, LogOk

BooksInv == SentOk /\ \E d : Held(d) /\ BooksOk(log, d[Logged], now)

\* The logger's books account for the whole time, at a queue that logs the
\* packets it accepts and has room for any packet when it is empty
\* (loggers.cpp:54-57, 96-120).
THEOREM TheBooksAddUp ==
    ASSUME LoggedFits
    PROVE  Spec => []BooksAddUp
<1>1. Init => BooksInv
  <2> SUFFICES ASSUME Init PROVE BooksInv
    OBVIOUS
  <2>1. PICK d : Held(d) /\ d = [h \in HopSet |-> <<>>]
    BY HeldInit
  <2> QED
    BY <2>1, HeldInit, BooksInit DEF BooksInv
<1>2. BooksInv /\ [Next]_vars => BooksInv'
  <2> SUFFICES ASSUME BooksInv, [Next]_vars PROVE BooksInv'
    OBVIOUS
  <2>1. PICK d : Held(d) /\ BooksOk(log, d[Logged], now)
    BY DEF BooksInv
  <2>2. CASE Next
    <3>1. PICK d2 : Steps(d, d2)
      BY <2>1, <2>2, StepIs DEF BooksInv, SentOk
    <3>2. Held(d2)' /\ SentOk'
      BY <3>1, HeldNext, SentGrows DEF BooksInv
    <3>3. BooksOk(log, d2[Logged], now)'
      BY <2>1, <3>1, BooksStep
    <3> QED
      BY <3>2, <3>3 DEF BooksInv
  <2>3. CASE UNCHANGED vars
    <3>1. Held(d)' /\ BooksOk(log, d[Logged], now)'
      BY <2>1, <2>3 DEF vars, Held, HeldBut, QueueOk, PipeOk, Kept, Due, BooksOk
    <3>2. SentOk'
      BY <2>3 DEF vars, BooksInv, SentOk
    <3> QED
      BY <3>1, <3>2 DEF BooksInv
  <2> QED
    BY <2>2, <2>3
<1>3. BooksInv => BooksAddUp
  BY BooksAreRight DEF BooksInv
<1> QED
  BY <1>1, <1>2, <1>3, PTL DEF Spec

SeenInv == ScheduleInv /\ SizeSeen

\* The comment of loggers.cpp:34 holds at a queue that logs the packets it
\* accepts: when the logger has seen nothing since its last look, the size it
\* records is the queue's size, and has not changed.
THEOREM SeenOrUnchanged ==
    ASSUME Logged \in LogsArrivals
    PROVE  Spec => []UnseenMeansUnchanged
<1>1. Init => SeenInv
  BY HeldInit, BooksInit DEF SeenInv, ScheduleInv
<1>2. SeenInv /\ [Next]_vars => SeenInv'
  <2> SUFFICES ASSUME SeenInv, [Next]_vars PROVE SeenInv'
    OBVIOUS
  <2>1. ScheduleInv'
    BY ScheduleNext DEF SeenInv
  <2>2. CASE Next
    <3>1. PICK d : Held(d)
      BY DEF SeenInv, ScheduleInv
    <3>2. PICK d2 : Steps(d, d2)
      BY <2>2, <3>1, StepIs DEF SeenInv, ScheduleInv, SentOk
    <3> QED
      BY <2>1, <3>1, <3>2, SeenStep DEF SeenInv
  <2>3. CASE UNCHANGED vars
    BY <2>1, <2>3 DEF vars, SeenInv, SizeSeen, LogOk
  <2> QED
    BY <2>2, <2>3
<1>3. SeenInv => UnseenMeansUnchanged
  BY DEF SeenInv, SizeSeen, UnseenMeansUnchanged
<1> QED
  BY <1>1, <1>2, <1>3, PTL DEF Spec

----------------------------------------------------------------------------
(* The times of the packets. *)

\* The sum of one more number of a sequence.
LEMMA OneMore ==
    ASSUME NEW n \in Nat, NEW w \in [1 .. n -> Nat], NEW h \in 1 .. n
    PROVE  /\ Total([g \in 1 .. h - 1 |-> w[g]]) \in Nat
           /\ Total([g \in 1 .. h |-> w[g]]) = Total([g \in 1 .. h - 1 |-> w[g]]) + w[h]
<1>1. PICK a, b, x : /\ a = [g \in 1 .. h - 1 |-> w[g]]
                     /\ b = [g \in 1 .. h |-> w[g]] /\ x = w[h]
  OBVIOUS
<1>2. a \in Seq(Nat) /\ Len(a) = h - 1 /\ x \in Nat
  BY <1>1
<1>3. b = Append(a, x)
  <2>1. /\ Append(a, x) \in Seq(Nat) /\ Len(Append(a, x)) = h
        /\ Append(a, x)[h] = x /\ \A g \in 1 .. h - 1 : Append(a, x)[g] = a[g]
    BY <1>2, AppendProperties
  <2>2. b \in Seq(Nat) /\ Len(b) = h /\ \A g \in 1 .. h : b[g] = w[g]
    BY <1>1
  <2>3. PICK u : u = Append(a, x)
    OBVIOUS
  <2>4. \A g \in 1 .. h : u[g] = b[g]
    BY <1>1, <2>1, <2>2, <2>3
  <2>5. u = b
    BY <2>1, <2>2, <2>3, <2>4
  <2> QED
    BY <2>3, <2>5
<1>4. Total(a) \in Nat /\ Total(Append(a, x)) = Total(a) + x
  BY <1>2, TotalAppend
<1> QED
  BY <1>1, <1>3, <1>4, Zenon

\* The least and the most time that a packet of s bytes takes over h hops.
Shortest(h, s) == Total([g \in 1 .. h |-> s * PsPerByte[g] + Delay[g]])
Longest(h) == Total([g \in 1 .. h |-> MaxSize[g] * PsPerByte[g] + Delay[g]])

\* What a hop adds to the least time.
LEMMA ShortestGrows ==
    ASSUME NEW h \in HopSet, NEW s \in Nat
    PROVE  /\ Shortest(h - 1, s) \in Nat
           /\ Shortest(h, s) = Shortest(h - 1, s) + (s * PsPerByte[h] + Delay[h])
<1>1. PICK w : w = [g \in HopSet |-> s * PsPerByte[g] + Delay[g]]
  OBVIOUS
<1>2. \A g \in HopSet : s * PsPerByte[g] + Delay[g] \in Nat
  <2> TAKE g \in HopSet
  <2>1. PICK m \in Nat, n \in Nat : m = PsPerByte[g] /\ n = Delay[g]
    BY Rates
  <2> QED
    BY <2>1
<1>3. PICK n \in Nat : n = Hops /\ HopSet = 1 .. n
  BY LinkAssumption DEF HopSet
<1>4. w \in [1 .. n -> Nat] /\ h \in 1 .. n
  BY <1>1, <1>2, <1>3
<1>5. /\ [g \in 1 .. h - 1 |-> w[g]] = [g \in 1 .. h - 1 |-> s * PsPerByte[g] + Delay[g]]
      /\ [g \in 1 .. h |-> w[g]] = [g \in 1 .. h |-> s * PsPerByte[g] + Delay[g]]
      /\ w[h] = s * PsPerByte[h] + Delay[h]
  BY <1>1, <1>3, <1>4
<1>6. /\ Total([g \in 1 .. h - 1 |-> w[g]]) \in Nat
      /\ Total([g \in 1 .. h |-> w[g]]) = Total([g \in 1 .. h - 1 |-> w[g]]) + w[h]
  BY <1>4, OneMore
<1> QED
  BY <1>5, <1>6, Zenon DEF Shortest

\* What a hop adds to the most time.
LEMMA LongestGrows ==
    ASSUME NEW h \in HopSet
    PROVE  /\ Longest(h - 1) \in Nat
           /\ Longest(h) = Longest(h - 1) + (MaxSize[h] * PsPerByte[h] + Delay[h])
<1>1. PICK w : w = [g \in HopSet |-> MaxSize[g] * PsPerByte[g] + Delay[g]]
  OBVIOUS
<1>2. \A g \in HopSet : MaxSize[g] * PsPerByte[g] + Delay[g] \in Nat
  <2> TAKE g \in HopSet
  <2>1. PICK m \in Nat, n \in Nat, x \in Nat : m = PsPerByte[g] /\ n = Delay[g] /\ x = MaxSize[g]
    BY Rates
  <2> QED
    BY <2>1
<1>3. PICK n \in Nat : n = Hops /\ HopSet = 1 .. n
  BY LinkAssumption DEF HopSet
<1>4. w \in [1 .. n -> Nat] /\ h \in 1 .. n
  BY <1>1, <1>2, <1>3
<1>5. /\ [g \in 1 .. h - 1 |-> w[g]] = [g \in 1 .. h - 1 |-> MaxSize[g] * PsPerByte[g] + Delay[g]]
      /\ [g \in 1 .. h |-> w[g]] = [g \in 1 .. h |-> MaxSize[g] * PsPerByte[g] + Delay[g]]
      /\ w[h] = MaxSize[h] * PsPerByte[h] + Delay[h]
  BY <1>1, <1>3, <1>4
<1>6. /\ Total([g \in 1 .. h - 1 |-> w[g]]) \in Nat
      /\ Total([g \in 1 .. h |-> w[g]]) = Total([g \in 1 .. h - 1 |-> w[g]]) + w[h]
  BY <1>4, OneMore
<1> QED
  BY <1>5, <1>6, Zenon DEF Longest

\* Packet x of the sequence s of packets sent was sent at time a, and is
\* somewhere at time t, between lo and hi after that.
SentAt(s, x, a) == x.id \in 1 .. Len(s) /\ s[x.id].size = x.size /\ s[x.id].at = a
Took(s, x, t, lo, hi) == \E a \in Nat : SentAt(s, x, a) /\ a + lo <= t /\ t <= a + hi

\* A packet behind x was sent by time t, or before it.
Company(s, x, t) == \E k \in 1 .. Len(s) : x.id < k /\ s[k].at <= t
Before(s, x, t) == \E k \in 1 .. Len(s) : x.id < k /\ s[k].at < t

\* What is known of a packet that leaves queue h, or pipe h, at time t.
InQueue(s, h, x, t) ==
    /\ Took(s, x, t, Shortest(h - 1, x.size) + x.size * PsPerByte[h],
            Longest(h - 1) + MaxSize[h] * PsPerByte[h])
    /\ x.ecn => Company(s, x, t)
InPipe(s, h, x, t) ==
    /\ Took(s, x, t, Shortest(h, x.size), Longest(h))
    /\ x.ecn => IF Delay[Hops] > 0 /\ h = Hops THEN Before(s, x, t) ELSE Company(s, x, t)

\* It stays known when more packets are sent.
LEMMA StaysKnown ==
    ASSUME NEW S, NEW s \in Seq(S), NEW r \in S, NEW h, NEW x, NEW t
    PROVE  /\ InQueue(s, h, x, t) => InQueue(Append(s, r), h, x, t)
           /\ InPipe(s, h, x, t) => InPipe(Append(s, r), h, x, t)
<1>1. PICK n \in Nat : n = Len(s)
  OBVIOUS
<1>2. PICK u : u = Append(s, r)
  OBVIOUS
<1>3. Len(u) = n + 1 /\ \A k \in 1 .. n : u[k] = s[k]
  BY <1>1, <1>2, AppendProperties
<1>4. \A k \in 1 .. n : k \in 1 .. Len(u) /\ u[k] = s[k]
  BY <1>3
<1>5. \A a : SentAt(s, x, a) => SentAt(u, x, a)
  BY <1>1, <1>4 DEF SentAt
<1>6. \A lo, hi : Took(s, x, t, lo, hi) => Took(u, x, t, lo, hi)
  BY <1>5, Zenon DEF Took
<1>7. /\ Company(s, x, t) => Company(u, x, t)
      /\ Before(s, x, t) => Before(u, x, t)
  BY <1>1, <1>4 DEF Company, Before
<1> QED
  BY <1>2, <1>6, <1>7, Zenon DEF InQueue, InPipe

SentType == [size : Sizes, at : Nat]

\* Every packet was sent at some time.
LEMMA SentWhen ==
    ASSUME NEW s \in Seq(SentType)
    PROVE  \A k \in 1 .. Len(s) : s[k].at \in Nat
<1>1. \A y \in SentType : y.at \in Nat
  BY DEF SentType
<1>2. \A k \in 1 .. Len(s) : s[k] \in SentType
  OBVIOUS
<1> QED
  BY <1>1, <1>2

\* A packet just sent is queued for its drain time at least, and at most for
\* that of a full buffer.
LEMMA EntersInTime ==
    ASSUME NEW s \in Seq(SentType), NEW x \in Packet, x.id = Len(s) + 1, x.ecn = FALSE,
           NEW t \in Nat, NEW last \in Nat,
           t + x.size * PsPerByte[1] <= last, last <= t + MaxSize[1] * PsPerByte[1],
           NEW s2, s2 = Append(s, [size |-> x.size, at |-> t])
    PROVE  InQueue(s2, 1, x, last)
<1>1. 1 \in HopSet /\ x.size \in Nat /\ x.size \in Sizes
  BY LinkAssumption, PacketSize DEF HopSet, Packet
<1>2. Shortest(0, x.size) = 0 /\ Longest(0) = 0
  <2>1. \A w : [g \in 1 .. 0 |-> w] = <<>>
    OBVIOUS
  <2>2. /\ [g \in 1 .. 0 |-> x.size * PsPerByte[g] + Delay[g]] = <<>>
        /\ [g \in 1 .. 0 |-> MaxSize[g] * PsPerByte[g] + Delay[g]] = <<>>
    OBVIOUS
  <2> QED
    BY <2>2, TotalEmpty DEF Shortest, Longest
<1>3. PICK lo \in Nat, hi \in Nat : lo = x.size * PsPerByte[1] /\ hi = MaxSize[1] * PsPerByte[1]
  BY <1>1, Rates
<1>4. PICK n \in Nat, r \in SentType : n = Len(s) /\ r = [size |-> x.size, at |-> t]
  BY <1>1 DEF SentType
<1>5. Len(s2) = n + 1 /\ s2[n + 1] = r
  BY <1>4, AppendProperties
<1>6. SentAt(s2, x, t)
  <2>1. n + 1 \in 1 .. Len(s2) /\ s2[n + 1].size = x.size /\ s2[n + 1].at = t
    BY <1>4, <1>5
  <2> QED
    BY <1>4, <2>1 DEF SentAt
<1>7. t + (0 + lo) <= last /\ last <= t + (0 + hi)
  BY <1>3
<1>8. Took(s2, x, last, 0 + lo, 0 + hi)
  BY <1>6, <1>7 DEF Took
<1>9. 1 - 1 = 0
  OBVIOUS
<1> QED
  BY <1>2, <1>3, <1>8, <1>9, Zenon DEF InQueue

\* A packet that enters the next queue.
LEMMA PassesInTime ==
    ASSUME NEW s \in Seq(SentType), NEW x \in Packet, NEW h \in HopSet, NEW g \in HopSet,
           g = h + 1, NEW t \in Nat, NEW last \in Nat, InPipe(s, h, x, t),
           t + x.size * PsPerByte[g] <= last, last <= t + MaxSize[g] * PsPerByte[g]
    PROVE  InQueue(s, g, x, last)
<1>1. x.size \in Nat /\ g - 1 = h
  BY PacketSize DEF HopSet
<1>2. PICK lo \in Nat, hi \in Nat : lo = x.size * PsPerByte[g] /\ hi = MaxSize[g] * PsPerByte[g]
  BY <1>1, Rates
<1>3. PICK v \in Nat, w \in Nat : v = Shortest(h, x.size) /\ w = Longest(h)
  <2>1. Shortest(g - 1, x.size) \in Nat /\ Longest(g - 1) \in Nat
    BY <1>1, ShortestGrows, LongestGrows
  <2> QED
    BY <1>1, <2>1
<1>4. PICK a \in Nat : SentAt(s, x, a) /\ a + v <= t /\ t <= a + w
  BY <1>3, Zenon DEF InPipe, Took
<1>5. t + lo <= last /\ last <= t + hi /\ t <= last
  BY <1>2
<1>6. a + (v + lo) <= last /\ last <= a + (w + hi)
  BY <1>4, <1>5
<1>7. Took(s, x, last, v + lo, w + hi)
  BY <1>4, <1>6, Zenon DEF Took
<1>8. x.ecn => Company(s, x, last)
  <2>1. \A k \in 1 .. Len(s) : s[k].at \in Nat
    BY SentWhen
  <2> QED
    BY <1>5, <2>1 DEF InPipe, Company, Before
<1> QED
  BY <1>1, <1>2, <1>3, <1>7, <1>8, Zenon DEF InQueue

\* A packet that is served, marked when it was or has company.
LEMMA ServesInTime ==
    ASSUME NEW s \in Seq(SentType), NEW x \in Packet, NEW h \in HopSet, NEW t \in Nat,
           InQueue(s, h, x, t), NEW y \in Packet, y.id = x.id, y.size = x.size,
           y.ecn => x.ecn \/ Company(s, x, t)
    PROVE  InPipe(s, h, y, t + Delay[h])
<1>1. x.size \in Nat
  BY PacketSize
<1>2. PICK lo \in Nat, hi \in Nat, m \in Nat :
         lo = x.size * PsPerByte[h] /\ hi = MaxSize[h] * PsPerByte[h] /\ m = Delay[h]
  <2>1. \E lo \in Nat, hi \in Nat : lo = x.size * PsPerByte[h] /\ hi = MaxSize[h] * PsPerByte[h]
    BY <1>1, Rates
  <2>2. Delay[h] \in Nat
    BY Rates
  <2> QED
    BY <2>1, <2>2, Zenon
<1>3. PICK v \in Nat, w \in Nat : v = Shortest(h - 1, x.size) /\ w = Longest(h - 1)
  BY <1>1, ShortestGrows, LongestGrows
<1>4. Shortest(h, x.size) = v + (lo + m) /\ Longest(h) = w + (hi + m)
  BY <1>1, <1>2, <1>3, ShortestGrows, LongestGrows, Zenon
<1>5. PICK a \in Nat : SentAt(s, x, a) /\ a + (v + lo) <= t /\ t <= a + (w + hi)
  BY <1>2, <1>3, Zenon DEF InQueue, Took
<1>6. a + (v + (lo + m)) <= t + m /\ t + m <= a + (w + (hi + m))
  BY <1>5
<1>7. SentAt(s, y, a)
  BY <1>5 DEF SentAt
<1>8. Took(s, y, t + m, v + (lo + m), w + (hi + m))
  BY <1>6, <1>7, Zenon DEF Took
<1>9. Company(s, x, t) => /\ Company(s, y, t + m)
                          /\ m > 0 => Before(s, y, t + m)
  <2>1. \A k \in 1 .. Len(s) : s[k].at \in Nat
    BY SentWhen
  <2>2. \A b \in Nat : b <= t => b <= t + m /\ (m > 0 => b < t + m)
    OBVIOUS
  <2> QED
    BY <2>1, <2>2 DEF Company, Before
<1>10. y.ecn => IF Delay[Hops] > 0 /\ h = Hops THEN Before(s, y, t + m)
                ELSE Company(s, y, t + m)
  <2>1. y.ecn => Company(s, x, t)
    BY DEF InQueue
  <2> QED
    BY <1>2, <1>9, <2>1
<1> QED
  BY <1>2, <1>4, <1>8, <1>10, Zenon DEF InPipe

----------------------------------------------------------------------------
(* Packets are in the route in the order in which they were sent *)

Increasing(w) == \A j, k \in 1 .. Len(w) : j < k => w[j] < w[k]
Ordered(w, n) == Increasing(w) /\ \A j \in 1 .. Len(w) : w[j] <= n

\* The next packet sent is the newest.
LEMMA OrderedJoins ==
    ASSUME NEW w \in Seq(Nat), NEW n \in Nat, Ordered(w, n)
    PROVE  Ordered(w, n + 1) /\ Ordered(Append(w, n + 1), n + 1)
<1>1. PICK m \in Nat : m = Len(w)
  OBVIOUS
<1>2. \A j \in 1 .. m : w[j] \in Nat /\ w[j] <= n
  BY <1>1 DEF Ordered
<1>3. PICK u : u = Append(w, n + 1)
  OBVIOUS
<1>4. Len(u) = m + 1 /\ u[m + 1] = n + 1 /\ \A j \in 1 .. m : u[j] = w[j]
  BY <1>1, <1>3, AppendProperties
<1>5. Ordered(w, n + 1)
  BY <1>1, <1>2 DEF Ordered
<1>6. ASSUME NEW j \in 1 .. m + 1, NEW k \in 1 .. m + 1, j < k PROVE u[j] < u[k]
  <2>1. j \in 1 .. m /\ u[j] = w[j] /\ w[j] \in Nat /\ w[j] <= n
    BY <1>2, <1>4, <1>6
  <2>2. CASE k = m + 1
    BY <1>4, <2>1, <2>2
  <2>3. CASE k # m + 1
    <3>1. k \in 1 .. m /\ u[k] = w[k]
      BY <1>4, <2>3
    <3> QED
      BY <1>1, <1>6, <2>1, <3>1 DEF Ordered, Increasing
  <2> QED
    BY <2>2, <2>3
<1>7. ASSUME NEW j \in 1 .. m + 1 PROVE u[j] <= n + 1
  <2>1. CASE j = m + 1
    BY <1>4, <2>1
  <2>2. CASE j # m + 1
    <3>1. j \in 1 .. m
      BY <2>2
    <3> QED
      BY <1>2, <1>4, <3>1
  <2> QED
    BY <2>1, <2>2
<1>8. Ordered(u, n + 1)
  BY <1>4, <1>6, <1>7 DEF Ordered, Increasing
<1> QED
  BY <1>3, <1>5, <1>8

\* A packet that is taken out leaves the others in order.
LEMMA OrderedLoses ==
    ASSUME NEW w \in Seq(Nat), NEW n \in Nat, Ordered(w, n), NEW i \in 1 .. Len(w)
    PROVE  Ordered(RemoveAt(w, i), n)
<1>1. PICK m \in Nat, b \in Nat : m = Len(w) /\ i = b + 1 /\ m # 0
  BY DEF Ordered
<1>2. PICK c \in Nat : m = (b + 1) + c
  <2>1. b + 1 \in 1 .. m
    BY <1>1
  <2>2. m - (b + 1) \in Nat /\ m = (b + 1) + (m - (b + 1))
    BY <2>1
  <2> QED
    BY <2>2
<1>3. PICK u, v, r : /\ u = SubSeq(w, 1, i - 1) /\ v = SubSeq(w, i + 1, Len(w))
                     /\ r = RemoveAt(w, i)
  OBVIOUS
<1>4. Sliced(w, 1, b, u)
  <2>1. i - 1 = (1 + b) - 1 /\ i - 1 <= Len(w) /\ i - 1 \in Nat
    BY <1>1
  <2> QED
    BY <1>3, <2>1, SlicedIs
<1>5. Sliced(w, b + 2, c, v)
  <2>1. i + 1 = b + 2 /\ m = ((b + 2) + c) - 1 /\ b + 2 \in Nat \ {0} /\ m <= Len(w)
    BY <1>1, <1>2
  <2> QED
    BY <1>1, <1>3, <2>1, SlicedIs
<1>6. Joined(u, b, v, c, r)
  <2>1. u \in Seq(Nat) /\ v \in Seq(Nat) /\ b = Len(u) /\ c = Len(v)
    BY <1>4, <1>5 DEF Sliced
  <2>2. r = u \o v
    BY <1>3, Zenon DEF RemoveAt
  <2> QED
    BY <2>1, <2>2, JoinedIs
<1>7. Len(r) = b + c
  BY <1>6 DEF Joined
<1>8. ASSUME NEW j \in 1 .. b + c
      PROVE  \E k \in 1 .. m : r[j] = w[k] /\ k = IF j <= b THEN j ELSE j + 1
  <2>1. CASE j <= b
    <3>1. r[j] = u[j] /\ j \in 1 .. b
      BY <1>6, <2>1 DEF Joined
    <3>2. u[j] = w[(1 + j) - 1] /\ (1 + j) - 1 = j
      BY <1>4, <3>1 DEF Sliced
    <3>3. j \in 1 .. m /\ r[j] = w[j]
      BY <1>2, <3>1, <3>2
    <3> QED
      BY <2>1, <3>3
  <2>2. CASE ~(j <= b)
    <3>1. r[j] = v[j - b] /\ j - b \in 1 .. c
      BY <1>6, <2>2 DEF Joined
    <3>2. v[j - b] = w[((b + 2) + (j - b)) - 1] /\ ((b + 2) + (j - b)) - 1 = j + 1
      BY <1>5, <3>1 DEF Sliced
    <3>3. j + 1 \in 1 .. m /\ r[j] = w[j + 1]
      BY <1>2, <3>1, <3>2
    <3> QED
      BY <2>2, <3>3
  <2> QED
    BY <2>1, <2>2
<1>9. ASSUME NEW j \in 1 .. b + c, NEW k \in 1 .. b + c, j < k PROVE r[j] < r[k]
  <2>1. PICK p \in 1 .. m : r[j] = w[p] /\ p = IF j <= b THEN j ELSE j + 1
    BY <1>8
  <2>2. PICK q \in 1 .. m : r[k] = w[q] /\ q = IF k <= b THEN k ELSE k + 1
    BY <1>8
  <2>3. p < q
    BY <1>9, <2>1, <2>2
  <2> QED
    BY <1>1, <2>1, <2>2, <2>3 DEF Ordered, Increasing
<1>10. ASSUME NEW j \in 1 .. b + c PROVE r[j] <= n
  BY <1>1, <1>8, <1>10 DEF Ordered
<1> QED
  BY <1>3, <1>7, <1>9, <1>10 DEF Ordered, Increasing

\* The oldest packet leaves the others in order.
LEMMA OrderedLeaves ==
    ASSUME NEW w \in Seq(Nat), NEW n \in Nat, Ordered(w, n), w # <<>>
    PROVE  Ordered(Tail(w), n)
<1>1. PICK m \in Nat : m = Len(w)
  OBVIOUS
<1>2. PICK u : u = Tail(w)
  OBVIOUS
<1>3. Len(u) = m - 1 /\ \A j \in 1 .. m - 1 : u[j] = w[j + 1] /\ j + 1 \in 1 .. m
  BY <1>1, <1>2, HeadTailProperties
<1>4. ASSUME NEW j \in 1 .. m - 1, NEW k \in 1 .. m - 1, j < k PROVE u[j] < u[k]
  BY <1>1, <1>3, <1>4 DEF Ordered, Increasing
<1>5. ASSUME NEW j \in 1 .. m - 1 PROVE u[j] <= n
  BY <1>1, <1>3 DEF Ordered
<1> QED
  BY <1>2, <1>3, <1>4, <1>5 DEF Ordered, Increasing

\* Both parts of an increasing sequence are increasing.
LEMMA PartsIncrease ==
    ASSUME NEW a \in Seq(Nat), NEW b \in Seq(Nat), Increasing(a \o b)
    PROVE  Increasing(a) /\ Increasing(b)
<1>0. PICK u : u = a \o b
  OBVIOUS
<1>1. PICK m \in Nat, n \in Nat : m = Len(a) /\ n = Len(b) /\ u = a \o b
  BY <1>0
<1>2. Joined(a, m, b, n, u)
  BY <1>1, JoinedIs
<1>3. \A j, k \in 1 .. m + n : j < k => u[j] < u[k]
  BY <1>1, <1>2 DEF Joined, Increasing
<1>4. \A j \in 1 .. m : j \in 1 .. m + n /\ u[j] = a[j]
  BY <1>2 DEF Joined
<1>5. \A j \in 1 .. n : m + j \in 1 .. m + n /\ u[m + j] = b[j]
  <2> TAKE j \in 1 .. n
  <2>1. m + j \in 1 .. m + n /\ ~(m + j <= m) /\ (m + j) - m = j
    OBVIOUS
  <2> QED
    BY <1>2, <2>1 DEF Joined
<1>6. ASSUME NEW j \in 1 .. m, NEW k \in 1 .. m, j < k PROVE a[j] < a[k]
  BY <1>3, <1>4, <1>6
<1>7. ASSUME NEW j \in 1 .. n, NEW k \in 1 .. n, j < k PROVE b[j] < b[k]
  <2>1. m + j < m + k
    BY <1>7
  <2> QED
    BY <1>3, <1>5, <2>1
<1> QED
  BY <1>1, <1>6, <1>7 DEF Increasing

\* The packets of a queue were sent in the order in which they are in it.
LEMMA QueueOrdered ==
    ASSUME NEW d, Held(d), Increasing(Inside), NEW h \in HopSet
    PROVE  \A j, k \in 1 .. Len(enqueued[h]) : j < k => enqueued[h][j].id < enqueued[h][k].id
<1>1. PICK c, e, i : c = Chain /\ e = enqueued[h] /\ i = inflight[h]
  OBVIOUS
<1>2. e \in Seq(Packet) /\ i \in Seq(Slot) /\ c \in [HopSet -> Seq(Nat)]
  BY <1>1, Typed
<1>3. c[h] = Block(e, i)
  BY <1>1 DEF Chain, Blocks
<1>4. Ids(e) \in Seq(Nat) /\ PipeIds(i) \in Seq(Nat) /\ Block(e, i) \in Seq(Nat)
  BY <1>2, IdsOf, PipeIdsOf, SlotIds, BlockType
<1>5. HopIn(c, h, c[h], [c EXCEPT ![h] = c[h]])
  <2>1. c[h] \in Seq(Nat)
    BY <1>3, <1>4
  <2> QED
    BY <1>2, <2>1, ChainOne, Zenon
<1>6. PICK a \in Seq(Nat), b \in Seq(Nat) : Chained(c) = (a \o c[h]) \o b
  BY <1>5, Zenon DEF HopIn
<1>7. Increasing((a \o Block(e, i)) \o b)
  BY <1>1, <1>3, <1>6, InsideIs, Zenon
<1>8. Increasing(a \o Block(e, i))
  <2>1. a \o Block(e, i) \in Seq(Nat)
    BY <1>4, ConcatProperties
  <2> QED
    BY <1>7, <2>1, PartsIncrease
<1>9. Increasing(PipeIds(i) \o Ids(e))
  <2>1. Increasing(Block(e, i))
    BY <1>4, <1>8, PartsIncrease
  <2> QED
    BY <2>1, Zenon DEF Block
<1>10. Increasing(Ids(e))
  BY <1>4, <1>9, PartsIncrease
<1>11. Len(Ids(e)) = Len(e) /\ \A j \in 1 .. Len(e) : Ids(e)[j] = e[j].id
  BY <1>2 DEF Ids
<1> QED
  BY <1>1, <1>10, <1>11 DEF Increasing

\* What the route holds stays in order.
LEMMA OrderStep ==
    ASSUME NEW d, Held(d), SentOk, Ordered(Inside, Len(sent)),
           [Route!Next]_(Route!vars)
    PROVE  Ordered(Inside, Len(sent))'
<1>1. PICK w, w2, n, n2 : w = Inside /\ w2 = Inside' /\ n = Len(sent) /\ n2 = Len(sent')
  OBVIOUS
<1>2. w \in Seq(Nat) /\ n \in Nat /\ Ordered(w, n)
  <2>1. Inside \in Seq(Nat)
    BY Typed, InsideIs, ChainType
  <2>2. Len(sent) \in Nat
    BY DEF SentOk
  <2> QED
    BY <1>1, <2>1, <2>2
<1>3. CASE Route!Enter
  <2>1. n2 = n + 1 /\ (w2 = Append(w, n2) \/ w2 = w)
    BY <1>1, <1>3, Zenon DEF Route!Enter
  <2>2. Ordered(w, n + 1) /\ Ordered(Append(w, n + 1), n + 1)
    BY <1>2, OrderedJoins
  <2>3. Ordered(w2, n2)
    BY <2>1, <2>2, Zenon
  <2> QED
    BY <1>1, <2>3, Zenon
<1>4. CASE Route!Drop
  <2>1. PICK i \in 1 .. Len(w) : n2 = n /\ w2 = Route!RemoveAt(w, i)
    BY <1>1, <1>4, Zenon DEF Route!Drop
  <2>2. Route!RemoveAt(w, i) = RemoveAt(w, i)
    BY Zenon DEF Route!RemoveAt, RemoveAt
  <2>3. Ordered(RemoveAt(w, i), n)
    BY <1>2, OrderedLoses
  <2>4. Ordered(w2, n2)
    BY <2>1, <2>2, <2>3, Zenon
  <2> QED
    BY <1>1, <2>4, Zenon
<1>5. CASE Route!Deliver
  <2>1. w # <<>> /\ n2 = n /\ w2 = Tail(w)
    BY <1>1, <1>5, Zenon DEF Route!Deliver
  <2>2. Ordered(Tail(w), n)
    BY <1>2, <2>1, OrderedLeaves
  <2>3. Ordered(w2, n2)
    BY <2>1, <2>2, Zenon
  <2> QED
    BY <1>1, <2>3, Zenon
<1>6. CASE UNCHANGED Route!vars
  <2>1. n2 = n /\ w2 = w
    BY <1>1, <1>6, Zenon DEF Route!vars
  <2>2. Ordered(w2, n2)
    BY <1>2, <2>1, Zenon
  <2> QED
    BY <1>1, <2>2, Zenon
<1> QED
  BY <1>3, <1>4, <1>5, <1>6, Zenon DEF Route!Next

----------------------------------------------------------------------------
(* The times are an invariant *)

\* Everything in the route, and everything that came out of it, is in time.
QueueTimely(s, h, e, d) == \A j \in 1 .. Len(e) : InQueue(s, h, e[j], d[j])
PipeTimely(s, h, i) == \A j \in 1 .. Len(i) : InPipe(s, h, i[j].pkt, i[j].due)
EndTimely(s, v) == \A j \in 1 .. Len(v) : InPipe(s, Hops, v[j].pkt, v[j].at)
Timely(s, e, i, v, d) ==
    /\ \A h \in HopSet : QueueTimely(s, h, e[h], d[h]) /\ PipeTimely(s, h, i[h])
    /\ EndTimely(s, v)

\* A packet that joins a queue.
LEMMA QueueStaysTimely ==
    ASSUME NEW s, NEW h, NEW e \in Seq(Packet), NEW d \in Seq(Nat), Len(d) = Len(e),
           QueueTimely(s, h, e, d), NEW x \in Packet, NEW t \in Nat, InQueue(s, h, x, t)
    PROVE  QueueTimely(s, h, Append(e, x), Append(d, t))
<1>1. PICK n \in Nat : n = Len(e) /\ n = Len(d)
  OBVIOUS
<1>2. PICK u, v : u = Append(e, x) /\ v = Append(d, t)
  OBVIOUS
<1>3. /\ Len(u) = n + 1 /\ u[n + 1] = x /\ v[n + 1] = t
      /\ \A j \in 1 .. n : u[j] = e[j] /\ v[j] = d[j]
  BY <1>1, <1>2, AppendProperties
<1>4. ASSUME NEW j \in 1 .. n + 1 PROVE InQueue(s, h, u[j], v[j])
  <2>1. CASE j = n + 1
    BY <1>3, <2>1
  <2>2. CASE j # n + 1
    <3>1. j \in 1 .. n
      BY <2>2
    <3>2. InQueue(s, h, e[j], d[j])
      BY <1>1, <3>1 DEF QueueTimely
    <3> QED
      BY <1>3, <3>1, <3>2
  <2> QED
    BY <2>1, <2>2
<1> QED
  BY <1>2, <1>3, <1>4 DEF QueueTimely

\* A packet that joins a pipe.
LEMMA PipeStaysTimely ==
    ASSUME NEW s, NEW h, NEW i \in Seq(Slot), PipeTimely(s, h, i), NEW y \in Slot,
           InPipe(s, h, y.pkt, y.due)
    PROVE  PipeTimely(s, h, Append(i, y))
<1>1. PICK n \in Nat : n = Len(i)
  OBVIOUS
<1>2. PICK u : u = Append(i, y)
  OBVIOUS
<1>3. Len(u) = n + 1 /\ u[n + 1] = y /\ \A j \in 1 .. n : u[j] = i[j]
  BY <1>1, <1>2, AppendProperties
<1>4. ASSUME NEW j \in 1 .. n + 1 PROVE InPipe(s, h, u[j].pkt, u[j].due)
  <2>1. CASE j = n + 1
    BY <1>3, <2>1
  <2>2. CASE j # n + 1
    <3>1. j \in 1 .. n
      BY <2>2
    <3>2. InPipe(s, h, i[j].pkt, i[j].due)
      BY <1>1, <3>1 DEF PipeTimely
    <3> QED
      BY <1>3, <3>1, <3>2
  <2> QED
    BY <2>1, <2>2
<1> QED
  BY <1>2, <1>3, <1>4 DEF PipeTimely

\* A packet that comes out of the route.
LEMMA EndStaysTimely ==
    ASSUME NEW s, NEW v \in Seq(Final), EndTimely(s, v), NEW y \in Final,
           InPipe(s, Hops, y.pkt, y.at)
    PROVE  EndTimely(s, Append(v, y))
<1>1. PICK n \in Nat : n = Len(v)
  OBVIOUS
<1>2. PICK u : u = Append(v, y)
  OBVIOUS
<1>3. Len(u) = n + 1 /\ u[n + 1] = y /\ \A j \in 1 .. n : u[j] = v[j]
  BY <1>1, <1>2, AppendProperties
<1>4. ASSUME NEW j \in 1 .. n + 1 PROVE InPipe(s, Hops, u[j].pkt, u[j].at)
  <2>1. CASE j = n + 1
    BY <1>3, <2>1
  <2>2. CASE j # n + 1
    <3>1. j \in 1 .. n
      BY <2>2
    <3>2. InPipe(s, Hops, v[j].pkt, v[j].at)
      BY <1>1, <3>1 DEF EndTimely
    <3> QED
      BY <1>3, <3>1, <3>2
  <2> QED
    BY <2>1, <2>2
<1> QED
  BY <1>2, <1>3, <1>4 DEF EndTimely

\* The first packet leaves a queue or a pipe.
LEMMA FirstLeaves ==
    ASSUME NEW s, NEW h
    PROVE  /\ \A e \in Seq(Packet), d \in Seq(Nat) :
                 Len(d) = Len(e) /\ e # <<>> /\ QueueTimely(s, h, e, d)
                    => QueueTimely(s, h, Tail(e), Tail(d)) /\ InQueue(s, h, Head(e), d[1])
           /\ \A i \in Seq(Slot) :
                 i # <<>> /\ PipeTimely(s, h, i)
                    => PipeTimely(s, h, Tail(i)) /\ InPipe(s, h, Head(i).pkt, i[1].due)
<1>1. ASSUME NEW e \in Seq(Packet), NEW d \in Seq(Nat), Len(d) = Len(e), e # <<>>,
             QueueTimely(s, h, e, d)
      PROVE  QueueTimely(s, h, Tail(e), Tail(d)) /\ InQueue(s, h, Head(e), d[1])
  <2>1. PICK n \in Nat : n = Len(e) /\ n = Len(d) /\ n # 0
    BY <1>1
  <2>2. PICK u, v : u = Tail(e) /\ v = Tail(d)
    OBVIOUS
  <2>3. /\ Len(u) = n - 1 /\ d # <<>> /\ Head(e) = e[1]
        /\ \A j \in 1 .. n - 1 : u[j] = e[j + 1] /\ v[j] = d[j + 1]
    BY <1>1, <2>1, <2>2, HeadTailProperties
  <2>4. \A j \in 1 .. n : InQueue(s, h, e[j], d[j])
    BY <1>1, <2>1 DEF QueueTimely
  <2>5. ASSUME NEW j \in 1 .. n - 1 PROVE InQueue(s, h, u[j], v[j])
    <3>1. j + 1 \in 1 .. n
      BY <2>1
    <3> QED
      BY <2>3, <2>4, <3>1
  <2>6. 1 \in 1 .. n
    BY <2>1
  <2> QED
    BY <2>2, <2>3, <2>4, <2>5, <2>6 DEF QueueTimely
<1>2. ASSUME NEW i \in Seq(Slot), i # <<>>, PipeTimely(s, h, i)
      PROVE  PipeTimely(s, h, Tail(i)) /\ InPipe(s, h, Head(i).pkt, i[1].due)
  <2>1. PICK n \in Nat : n = Len(i) /\ n # 0
    BY <1>2
  <2>2. PICK u : u = Tail(i)
    OBVIOUS
  <2>3. Len(u) = n - 1 /\ Head(i) = i[1] /\ \A j \in 1 .. n - 1 : u[j] = i[j + 1]
    BY <1>2, <2>1, <2>2, HeadTailProperties
  <2>4. \A j \in 1 .. n : InPipe(s, h, i[j].pkt, i[j].due)
    BY <1>2, <2>1 DEF PipeTimely
  <2>5. ASSUME NEW j \in 1 .. n - 1 PROVE InPipe(s, h, u[j].pkt, u[j].due)
    <3>1. j + 1 \in 1 .. n
      BY <2>1
    <3> QED
      BY <2>3, <2>4, <3>1
  <2>6. 1 \in 1 .. n
    BY <2>1
  <2> QED
    BY <2>2, <2>3, <2>4, <2>5, <2>6 DEF PipeTimely
<1> QED
  BY <1>1, <1>2

\* A packet that a queue accepts leaves it after its drain time at least, and
\* at most after that of a full buffer.
LEMMA AcceptedInTime ==
    ASSUME NEW d, NEW d2, Held(d), Steps(d, d2), NEW h \in HopSet, NEW x \in Packet,
           Accepts(h, x, d, d2)
    PROVE  \E last \in Nat :
              /\ d2 = [d EXCEPT ![h] = Append(@, last)]
              /\ now' + x.size * PsPerByte[h] <= last
              /\ last <= now' + MaxSize[h] * PsPerByte[h]
<1>1. PICK m \in Nat, z \in Nat, b \in Nat : m = PsPerByte[h] /\ z = MaxSize[h] /\ b = x.size
  <2>1. PsPerByte[h] \in Nat /\ MaxSize[h] \in Nat /\ x.size \in Nat
    BY Rates, PacketSize
  <2> QED
    BY <2>1
<1>2. PICK e, n, c, t, u, last :
         /\ e = enqueued[h] /\ n = queuesize[h] /\ c = d[h] /\ t = now /\ u = now'
         /\ last = LastOf(c, u) + x.size * m
  OBVIOUS
<1>3. /\ Line(m, e, n, c, t) /\ t \in Nat /\ u \in Nat /\ t <= u
      /\ e \in Seq(Packet) /\ c \in Seq(Nat) /\ d \in [HopSet -> Seq(Nat)]
      /\ enqueued \in [HopSet -> Seq(Packet)] /\ queuesize \in [HopSet -> Nat]
  <2>1. now' \in Nat /\ now <= now'
    BY Zenon DEF Steps
  <2> QED
    BY <1>1, <1>2, <2>1, Names DEF Held, HeldBut, QueueOk
<1>4. /\ enqueued'[h] = Append(e, x) /\ d2 = [d EXCEPT ![h] = Append(@, last)]
      /\ d2[h] = Append(c, last) /\ n + x.size <= z
  <2>1. /\ d2 = [d EXCEPT ![h] = Append(@, LastOf(d[h], now') + x.size * PsPerByte[h])]
        /\ enqueued' = [enqueued EXCEPT ![h] = Append(@, x)]
        /\ ~Overflows(queuesize[h], h, x)
    BY DEF Accepts
  <2>2. n \in Nat /\ n + x.size <= z
    BY <1>1, <1>2, <1>3, <2>1 DEF Overflows
  <2>3. d2 = [d EXCEPT ![h] = Append(@, last)]
    BY <1>1, <1>2, <2>1
  <2> QED
    BY <1>2, <1>3, <2>1, <2>2, <2>3
<1>5. Line(m, Append(e, x), queuesize'[h], Append(c, last), u)
  <2>1. QueueOk(pending', h, enqueued'[h], queuesize'[h], d2[h], now')
    <3>1. HeldBut(pending', enqueued', queuesize', inflight', d2, now', Source)
      BY Zenon DEF Steps
    <3>2. Queue(h) # Source
      BY Names
    <3> QED
      BY <3>1, <3>2, Zenon DEF HeldBut
  <2> QED
    BY <1>1, <1>2, <1>4, <2>1, Zenon DEF QueueOk
<1>6. e # <<>> => u <= c[1]
  <2> SUFFICES ASSUME e # <<>> PROVE u <= c[1]
    OBVIOUS
  <2>1. 1 \in 1 .. Len(c)
    BY <1>3 DEF Line
  <2>2. Append(c, last)[1] = c[1]
    BY <1>3, <2>1
  <2>3. Append(e, x) # <<>>
    <3> e \in Seq(Packet)
      BY <1>3
    <3> QED
      BY AppendProperties
  <2>4. u <= Append(c, last)[1]
    BY <1>5, <2>3 DEF Line
  <2> QED
    BY <2>2, <2>4
<1>7. Line(m, e, n, c, u)
  BY <1>3, <1>6, LineAges
<1>8. /\ last \in Nat /\ u + x.size * m <= last /\ n \in Nat
      /\ last <= u + (n + x.size) * m
  <2>1. last = LastOf(c, u) + x.size * m /\ u \in Nat
    BY <1>2, <1>3
  <2> QED
    BY <1>7, <2>1, LineJoins
<1>9. (n + x.size) * m <= z * m
  <2>1. n + x.size \in Nat
    BY <1>1, <1>8
  <2> QED
    BY <1>4, <2>1, Scale
<1>10. last <= u + z * m
  <2>1. PICK v \in Nat, w \in Nat : v = (n + x.size) * m /\ w = z * m
    BY <1>1, <1>8
  <2> QED
    BY <1>3, <1>8, <1>9, <2>1
<1> QED
  BY <1>1, <1>2, <1>4, <1>8, <1>10

\* What was known before more packets were sent.
LEMMA TimelyRemembers ==
    ASSUME NEW S, NEW s \in Seq(S), NEW r \in S, NEW e, NEW i, NEW v, NEW d,
           Timely(s, e, i, v, d)
    PROVE  Timely(Append(s, r), e, i, v, d)
<1>1. PICK u : u = Append(s, r)
  OBVIOUS
<1>2. \A h, x, t : /\ InQueue(s, h, x, t) => InQueue(u, h, x, t)
                   /\ InPipe(s, h, x, t) => InPipe(u, h, x, t)
  BY <1>1, StaysKnown
<1>3. \A h \in HopSet : QueueTimely(u, h, e[h], d[h]) /\ PipeTimely(u, h, i[h])
  BY <1>2, Zenon DEF Timely, QueueTimely, PipeTimely
<1>4. EndTimely(u, v)
  BY <1>2, Zenon DEF Timely, EndTimely
<1> QED
  BY <1>1, <1>3, <1>4, Zenon DEF Timely

\* A packet joins the queue of a hop.
LEMMA TimelyJoins ==
    ASSUME NEW s, NEW e \in [HopSet -> Seq(Packet)], NEW i, NEW v,
           NEW d \in [HopSet -> Seq(Nat)], Timely(s, e, i, v, d),
           NEW h \in HopSet, Len(d[h]) = Len(e[h]), NEW x \in Packet, NEW t \in Nat,
           InQueue(s, h, x, t),
           NEW e2, e2 = [e EXCEPT ![h] = Append(@, x)],
           NEW d2, d2 = [d EXCEPT ![h] = Append(@, t)]
    PROVE  Timely(s, e2, i, v, d2)
<1>1. PICK f \in Seq(Packet), c \in Seq(Nat) : f = e[h] /\ c = d[h] /\ Len(c) = Len(f)
  OBVIOUS
<1>2. PICK f2, c2 : f2 = Append(f, x) /\ c2 = Append(c, t)
  OBVIOUS
<1>3. QueueTimely(s, h, f2, c2)
  <2>1. QueueTimely(s, h, f, c)
    BY <1>1, Zenon DEF Timely
  <2> QED
    BY <1>1, <1>2, <2>1, QueueStaysTimely
<1>4. \A g \in HopSet : /\ e2[g] = IF g = h THEN f2 ELSE e[g]
                        /\ d2[g] = IF g = h THEN c2 ELSE d[g]
  BY <1>1, <1>2
<1>5. \A g \in HopSet : QueueTimely(s, g, e2[g], d2[g])
  BY <1>3, <1>4, Zenon DEF Timely
<1> QED
  BY <1>5, Zenon DEF Timely

\* A packet leaves the pipe of a hop.
LEMMA TimelyLeaves ==
    ASSUME NEW s, NEW e, NEW i \in [HopSet -> Seq(Slot)], NEW v, NEW d,
           Timely(s, e, i, v, d), NEW h \in HopSet, i[h] # <<>>,
           NEW i2, i2 = [i EXCEPT ![h] = Tail(@)]
    PROVE  /\ Timely(s, e, i2, v, d)
           /\ InPipe(s, h, Head(i[h]).pkt, i[h][1].due)
<1>1. PICK f \in Seq(Slot) : f = i[h] /\ f # <<>>
  OBVIOUS
<1>2. PICK f2 : f2 = Tail(f)
  OBVIOUS
<1>3. PipeTimely(s, h, f2) /\ InPipe(s, h, Head(f).pkt, f[1].due)
  <2>1. PipeTimely(s, h, f)
    BY <1>1, Zenon DEF Timely
  <2> QED
    BY <1>1, <1>2, <2>1, FirstLeaves, Zenon
<1>4. \A g \in HopSet : i2[g] = IF g = h THEN f2 ELSE i[g]
  BY <1>1, <1>2
<1>5. \A g \in HopSet : PipeTimely(s, g, i2[g])
  BY <1>3, <1>4, Zenon DEF Timely
<1> QED
  BY <1>1, <1>3, <1>5, Zenon DEF Timely

\* A packet goes from a queue into its pipe.
LEMMA TimelyServes ==
    ASSUME NEW s, NEW e \in [HopSet -> Seq(Packet)], NEW i \in [HopSet -> Seq(Slot)],
           NEW v, NEW d \in [HopSet -> Seq(Nat)], Timely(s, e, i, v, d),
           NEW h \in HopSet, Len(d[h]) = Len(e[h]), e[h] # <<>>,
           NEW y \in Slot, InPipe(s, h, y.pkt, y.due),
           NEW e2, e2 = [e EXCEPT ![h] = Tail(@)],
           NEW i2, i2 = [i EXCEPT ![h] = Append(@, y)],
           NEW d2, d2 = [d EXCEPT ![h] = Tail(@)]
    PROVE  Timely(s, e2, i2, v, d2)
<1>1. PICK f \in Seq(Packet), c \in Seq(Nat), j \in Seq(Slot) :
         f = e[h] /\ c = d[h] /\ j = i[h] /\ Len(c) = Len(f) /\ f # <<>>
  OBVIOUS
<1>2. PICK f2, c2, j2 : f2 = Tail(f) /\ c2 = Tail(c) /\ j2 = Append(j, y)
  OBVIOUS
<1>3. QueueTimely(s, h, f2, c2)
  <2>1. QueueTimely(s, h, f, c)
    BY <1>1, Zenon DEF Timely
  <2> QED
    BY <1>1, <1>2, <2>1, FirstLeaves, Zenon
<1>4. PipeTimely(s, h, j2)
  <2>1. PipeTimely(s, h, j)
    BY <1>1, Zenon DEF Timely
  <2> QED
    BY <1>1, <1>2, <2>1, PipeStaysTimely
<1>5. \A g \in HopSet : /\ e2[g] = IF g = h THEN f2 ELSE e[g]
                        /\ d2[g] = IF g = h THEN c2 ELSE d[g]
                        /\ i2[g] = IF g = h THEN j2 ELSE i[g]
  BY <1>1, <1>2
<1>6. \A g \in HopSet : QueueTimely(s, g, e2[g], d2[g]) /\ PipeTimely(s, g, i2[g])
  BY <1>3, <1>4, <1>5, Zenon DEF Timely
<1> QED
  BY <1>6, Zenon DEF Timely

\* The times of the route.
TimesOk(d) == Timely(sent, enqueued, inflight, delivered, d)

\* The types of what the times are about.
LEMMA RouteIs ==
    ASSUME NEW d, Held(d), SentOk
    PROVE  /\ sent \in Seq(SentType)
           /\ enqueued \in [HopSet -> Seq(Packet)] /\ inflight \in [HopSet -> Seq(Slot)]
           /\ d \in [HopSet -> Seq(Nat)]
           /\ \A h \in HopSet : Len(d[h]) = Len(enqueued[h])
<1>1. \A h \in HopSet : QueueOk(pending, h, enqueued[h], queuesize[h], d[h], now)
  BY Names DEF Held, HeldBut
<1>2. \A h \in HopSet : Len(d[h]) = Len(enqueued[h])
  BY <1>1 DEF QueueOk, Line
<1> QED
  BY <1>2 DEF Held, HeldBut, SentOk, SentType

\* A packet is sent.
LEMMA TimelySending ==
    ASSUME NEW d, NEW d2, Held(d), SentOk, TimesOk(d), Steps(d, d2),
           NEW x \in Packet, Sends(x, d, d2)
    PROVE  Timely(sent', enqueued', inflight', delivered', d2)
<1>1. PICK s, e, i, v, s2, e2, t, r :
         /\ s = sent /\ e = enqueued /\ i = inflight /\ v = delivered
         /\ s2 = sent' /\ e2 = enqueued' /\ t = now' /\ r = [size |-> x.size, at |-> now']
  OBVIOUS
<1>2. /\ s \in Seq(SentType) /\ e \in [HopSet -> Seq(Packet)] /\ i \in [HopSet -> Seq(Slot)]
      /\ d \in [HopSet -> Seq(Nat)] /\ \A h \in HopSet : Len(d[h]) = Len(e[h])
  BY <1>1, RouteIs, Zenon
<1>3. /\ x.id = Len(s) + 1 /\ x.ecn = FALSE /\ s2 = Append(s, r)
      /\ inflight' = i /\ delivered' = v
  BY <1>1, Zenon DEF Sends
<1>4. t \in Nat /\ r \in SentType /\ r = [size |-> x.size, at |-> t] /\ 1 \in HopSet
  <2>1. now' \in Nat
    BY Zenon DEF Steps
  <2>2. x.size \in Sizes
    BY DEF Packet
  <2> QED
    BY <1>1, <2>1, <2>2, LinkAssumption DEF SentType, HopSet
<1>5. Timely(s2, e, i, v, d)
  <2>1. Timely(s, e, i, v, d)
    BY <1>1, Zenon DEF TimesOk
  <2> QED
    BY <1>2, <1>3, <1>4, <2>1, TimelyRemembers
<1>6. CASE Accepts(1, x, d, d2)
  <2>1. PICK last \in Nat :
           /\ d2 = [d EXCEPT ![1] = Append(@, last)]
           /\ t + x.size * PsPerByte[1] <= last
           /\ last <= t + MaxSize[1] * PsPerByte[1]
    BY <1>1, <1>4, <1>6, AcceptedInTime, Zenon
  <2>2. InQueue(s2, 1, x, last)
    <3>1. s2 = Append(s, [size |-> x.size, at |-> t])
      BY <1>3, <1>4, Zenon
    <3>2. s \in Seq(SentType) /\ x.id = Len(s) + 1 /\ x.ecn = FALSE /\ t \in Nat
      BY <1>2, <1>3, <1>4, Zenon
    <3> QED
      BY <2>1, <3>1, <3>2, EntersInTime, Zenon
  <2>3. e2 = [e EXCEPT ![1] = Append(@, x)]
    BY <1>1, <1>6, Zenon DEF Accepts
  <2>4. Timely(s2, e2, i, v, d2)
    BY <1>2, <1>4, <1>5, <2>1, <2>2, <2>3, TimelyJoins, Zenon
  <2> QED
    BY <1>1, <1>3, <2>4, Zenon
<1>7. CASE Drops(1, x, d, d2)
  <2>1. e2 = e /\ d2 = d
    BY <1>1, <1>7, Zenon DEF Drops
  <2> QED
    BY <1>1, <1>3, <1>5, <2>1, Zenon
<1> QED
  BY <1>6, <1>7, Zenon DEF Sends

\* A packet that is marked had company, or it has some behind it.
LEMMA MarksHaveCompany ==
    ASSUME NEW d, NEW d2, Held(d), SentOk, TimesOk(d), Steps(d, d2), Increasing(Inside),
           NEW h \in HopSet, NEW x \in Packet, NEW y \in Packet, Serves(h, x, y, d, d2)
    PROVE  y.ecn => x.ecn \/ Company(sent, x, now')
<1> SUFFICES ASSUME y.ecn, ~x.ecn PROVE Company(sent, x, now')
  OBVIOUS
<1>1. PICK e \in Seq(Packet), n \in Nat : e = enqueued[h] /\ n = queuesize'[h]
  <2>1. queuesize' \in [HopSet -> Nat] /\ enqueued \in [HopSet -> Seq(Packet)]
    BY DEF Steps, HeldBut, Held
  <2> QED
    BY <2>1
<1>2. /\ e # <<>> /\ x = Head(e) /\ y = Marked(h, n, x) /\ enqueued' = [enqueued EXCEPT ![h] = Tail(e)]
  BY <1>1 DEF Serves
<1>3. n > 0
  <2>1. EcnThreshold[h] \in Nat
    BY LinkAssumption
  <2>2. n > EcnThreshold[h]
    BY <1>2, MarkedIs
  <2> QED
    BY <2>1, <2>2
<1>4. Tail(e) # <<>>
  <2>1. QueueOk(pending', h, enqueued'[h], queuesize'[h], d2[h], now')
    <3>1. HeldBut(pending', enqueued', queuesize', inflight', d2, now', Source)
      BY Zenon DEF Steps
    <3>2. Queue(h) # Source
      BY Names
    <3> QED
      BY <3>1, <3>2, Zenon DEF HeldBut
  <2>2. enqueued'[h] = Tail(e)
    <3>1. enqueued \in [HopSet -> Seq(Packet)]
      BY Typed
    <3> QED
      BY <1>2, <3>1
  <2>3. Line(PsPerByte[h], Tail(e), n, d2[h], now')
    BY <1>1, <2>1, <2>2, Zenon DEF QueueOk
  <2>4. ASSUME Tail(e) = <<>> PROVE FALSE
    <3>1. Line(PsPerByte[h], <<>>, n, d2[h], now')
      BY <2>3, <2>4, Zenon
    <3>2. n = 0
      BY <3>1, LineEmpty
    <3> QED
      BY <1>3, <3>2
  <2> QED
    BY <2>4
<1>5. x = e[1] /\ 1 \in 1 .. Len(e) /\ 2 \in 1 .. Len(e)
  <2>1. Len(Tail(e)) = Len(e) - 1 /\ Tail(e) \in Seq(Packet)
    BY <1>2, HeadTailProperties
  <2> QED
    BY <1>2, <1>4, <2>1
<1>6. x.id < e[2].id
  BY <1>1, <1>5, QueueOrdered
<1>7. e[2].id \in 1 .. Len(sent)
  <2>1. InQueue(sent, h, e[2], d[h][2])
    <3>1. QueueTimely(sent, h, e, d[h])
      BY <1>1, Zenon DEF TimesOk, Timely
    <3> QED
      BY <1>5, <3>1, Zenon DEF QueueTimely
  <2> QED
    BY <2>1, Zenon DEF InQueue, Took, SentAt
<1>8. sent[e[2].id].at \in Nat /\ sent[e[2].id].at <= now'
  <2>1. sent[e[2].id].at \in Nat /\ sent[e[2].id].at <= now
    BY <1>7, SentIs
  <2>2. now \in Nat /\ now' \in Nat /\ now <= now'
    BY Zenon DEF Steps
  <2> QED
    BY <2>1, <2>2
<1> QED
  BY <1>6, <1>7, <1>8 DEF Company

\* A packet is served.
LEMMA TimelyServing ==
    ASSUME NEW d, NEW d2, Held(d), SentOk, TimesOk(d), Steps(d, d2), Increasing(Inside),
           NEW h \in HopSet, NEW x \in Packet, NEW y \in Packet, Serves(h, x, y, d, d2)
    PROVE  Timely(sent', enqueued', inflight', delivered', d2)
<1>1. PICK s, e, i, v, e2, i2, t, z :
         /\ s = sent /\ e = enqueued /\ i = inflight /\ v = delivered
         /\ e2 = enqueued' /\ i2 = inflight' /\ t = now'
         /\ z = [due |-> t + Delay[h], pkt |-> y]
  OBVIOUS
<1>2. /\ s \in Seq(SentType) /\ e \in [HopSet -> Seq(Packet)] /\ i \in [HopSet -> Seq(Slot)]
      /\ d \in [HopSet -> Seq(Nat)] /\ \A g \in HopSet : Len(d[g]) = Len(e[g])
  BY <1>1, RouteIs, Zenon
<1>3. /\ e[h] # <<>> /\ x = Head(e[h]) /\ d[h][1] = t
      /\ e2 = [e EXCEPT ![h] = Tail(@)] /\ d2 = [d EXCEPT ![h] = Tail(@)]
      /\ i2 = [i EXCEPT ![h] = Append(@, z)] /\ sent' = s /\ delivered' = v
  BY <1>1, Zenon DEF Serves
<1>4. Timely(s, e, i, v, d) /\ t \in Nat
  <2>1. now' \in Nat
    BY Zenon DEF Steps
  <2> QED
    BY <1>1, <2>1, Zenon DEF TimesOk
<1>5. InQueue(s, h, x, t)
  <2>1. QueueTimely(s, h, e[h], d[h])
    BY <1>4, Zenon DEF Timely
  <2>2. e[h] \in Seq(Packet) /\ d[h] \in Seq(Nat) /\ Len(d[h]) = Len(e[h])
    BY <1>2
  <2> QED
    BY <1>3, <2>1, <2>2, FirstLeaves, Zenon
<1>6. y.id = x.id /\ y.size = x.size /\ (y.ecn => x.ecn \/ Company(s, x, t))
  <2>1. y = Marked(h, queuesize'[h], x)
    BY DEF Serves
  <2>2. y.id = x.id /\ y.size = x.size
    BY <2>1, MarkedIs
  <2> QED
    BY <1>1, <2>2, MarksHaveCompany, Zenon
<1>7. InPipe(s, h, y, t + Delay[h])
  BY <1>2, <1>4, <1>5, <1>6, ServesInTime
<1>8. z \in Slot /\ z.pkt = y /\ z.due = t + Delay[h]
  <2>1. t + Delay[h] \in Nat
    BY <1>4, Rates
  <2> QED
    BY <1>1, <2>1 DEF Slot
<1>9. InPipe(s, h, z.pkt, z.due)
  BY <1>7, <1>8, Zenon
<1>10. Timely(s, e2, i2, v, d2)
  BY <1>2, <1>3, <1>4, <1>8, <1>9, TimelyServes, Zenon
<1> QED
  BY <1>1, <1>3, <1>10, Zenon

\* A packet is handed on.
LEMMA TimelyHanding ==
    ASSUME NEW d, NEW d2, Held(d), SentOk, DeliveredOk, TimesOk(d), Steps(d, d2),
           NEW h \in HopSet, NEW x \in Packet, HandsOn(h, x, d, d2)
    PROVE  Timely(sent', enqueued', inflight', delivered', d2)
<1>1. PICK s, e, i, v, e2, i2, t :
         /\ s = sent /\ e = enqueued /\ i = inflight /\ v = delivered
         /\ e2 = enqueued' /\ i2 = inflight' /\ t = now'
  OBVIOUS
<1>2. /\ s \in Seq(SentType) /\ e \in [HopSet -> Seq(Packet)] /\ i \in [HopSet -> Seq(Slot)]
      /\ d \in [HopSet -> Seq(Nat)] /\ \A g \in HopSet : Len(d[g]) = Len(e[g])
  BY <1>1, RouteIs, Zenon
<1>3. /\ i[h] # <<>> /\ x = Head(i[h]).pkt /\ i[h][1].due = t
      /\ i2 = [i EXCEPT ![h] = Tail(@)] /\ sent' = s
  BY <1>1, Zenon DEF HandsOn
<1>4. t \in Nat
  BY <1>1, Zenon DEF Steps
<1>5. Timely(s, e, i2, v, d) /\ InPipe(s, h, x, t)
  <2>1. Timely(s, e, i, v, d)
    BY <1>1, Zenon DEF TimesOk
  <2> QED
    BY <1>2, <1>3, <2>1, TimelyLeaves, Zenon
<1>6. CASE h < Hops /\ Accepts(h + 1, x, d, d2) /\ delivered' = delivered
  <2>1. PICK g \in HopSet : g = h + 1
    BY <1>6, LinkAssumption DEF HopSet
  <2>2. Accepts(g, x, d, d2)
    BY <1>6, <2>1, Zenon
  <2>3. PICK last \in Nat :
           /\ d2 = [d EXCEPT ![g] = Append(@, last)]
           /\ t + x.size * PsPerByte[g] <= last
           /\ last <= t + MaxSize[g] * PsPerByte[g]
    BY <1>1, <2>2, AcceptedInTime, Zenon
  <2>4. InQueue(s, g, x, last)
    BY <1>2, <1>4, <1>5, <2>1, <2>3, PassesInTime, Zenon
  <2>5. e2 = [e EXCEPT ![g] = Append(@, x)]
    BY <1>1, <2>2, Zenon DEF Accepts
  <2>6. Timely(s, e2, i2, v, d2)
    BY <1>2, <1>5, <2>3, <2>4, <2>5, TimelyJoins, Zenon
  <2> QED
    BY <1>1, <1>3, <1>6, <2>6, Zenon
<1>7. CASE h < Hops /\ Drops(h + 1, x, d, d2) /\ delivered' = delivered
  <2>1. e2 = e /\ d2 = d
    BY <1>1, <1>7, Zenon DEF Drops
  <2> QED
    BY <1>1, <1>3, <1>5, <1>7, <2>1, Zenon
<1>8. CASE h = Hops /\ enqueued' = enqueued /\ d2 = d
           /\ delivered' = Append(delivered, [pkt |-> x, at |-> now'])
  <2>1. PICK z : z = [pkt |-> x, at |-> t]
    OBVIOUS
  <2>2. z \in Final /\ z.pkt = x /\ z.at = t /\ v \in Seq(Final)
    BY <1>1, <1>4, <2>1 DEF Final, DeliveredOk
  <2>3. delivered' = Append(v, z) /\ e2 = e
    BY <1>1, <1>8, <2>1, Zenon
  <2>4. EndTimely(s, Append(v, z))
    <3>1. EndTimely(s, v)
      BY <1>5, Zenon DEF Timely
    <3>2. InPipe(s, Hops, z.pkt, z.at)
      BY <1>5, <1>8, <2>2, Zenon
    <3> QED
      BY <2>2, <3>1, <3>2, EndStaysTimely
  <2>5. Timely(s, e, i2, Append(v, z), d)
    BY <1>5, <2>4, Zenon DEF Timely
  <2> QED
    BY <1>1, <1>3, <1>8, <2>3, <2>5, Zenon
<1> QED
  BY <1>6, <1>7, <1>8, Zenon DEF HandsOn

\* The times are right after a step.
LEMMA TimesStep ==
    ASSUME NEW d, NEW d2, Held(d), SentOk, DeliveredOk, TimesOk(d), Steps(d, d2),
           Increasing(Inside)
    PROVE  TimesOk(d2)'
<1>1. ASSUME NEW x \in Packet, Sends(x, d, d2) PROVE TimesOk(d2)'
  BY <1>1, TimelySending DEF TimesOk
<1>2. ASSUME Looks(d, d2) PROVE TimesOk(d2)'
  <2>1. /\ enqueued' = enqueued /\ inflight' = inflight
        /\ delivered' = delivered /\ sent' = sent /\ d2 = d
    BY <1>2 DEF Looks
  <2> QED
    BY <2>1 DEF TimesOk
<1>3. ASSUME NEW h \in HopSet, NEW x \in Packet, NEW y \in Packet, Serves(h, x, y, d, d2)
      PROVE  TimesOk(d2)'
  BY <1>3, TimelyServing DEF TimesOk
<1>4. ASSUME NEW h \in HopSet, NEW x \in Packet, HandsOn(h, x, d, d2)
      PROVE  TimesOk(d2)'
  BY <1>4, TimelyHanding DEF TimesOk
<1> QED
  BY <1>1, <1>2, <1>3, <1>4, Zenon DEF Steps

TimesInv == /\ SentOk /\ DeliveredOk /\ Ordered(Inside, Len(sent))
            /\ \E d : Held(d) /\ TimesOk(d)

\* The times are right at the start.
LEMMA TimesInit == Init => TimesInv
<1> SUFFICES ASSUME Init PROVE TimesInv
  OBVIOUS
<1>1. PICK d : Held(d) /\ d = [h \in HopSet |-> <<>>] /\ SentOk
  BY HeldInit
<1>2. sent = <<>> /\ delivered = <<>> /\ \A h \in HopSet : enqueued[h] = <<>> /\ inflight[h] = <<>>
  BY DEF Init
<1>3. TimesOk(d)
  BY <1>2 DEF TimesOk, Timely, QueueTimely, PipeTimely, EndTimely
<1>4. Ordered(Inside, Len(sent))
  <2>1. Inside = <<>>
    BY InitRefines, Zenon DEF Route!Init
  <2>2. Ordered(<<>>, Len(sent))
    BY DEF Ordered, Increasing
  <2> QED
    BY <2>1, <2>2, Zenon
<1>5. DeliveredOk
  BY <1>2 DEF DeliveredOk
<1> QED
  BY <1>1, <1>3, <1>4, <1>5 DEF TimesInv

\* The times are right after every step.
LEMMA TimesNext == TimesInv /\ [Next]_vars => TimesInv'
<1> SUFFICES ASSUME TimesInv, [Next]_vars PROVE TimesInv'
  OBVIOUS
<1>1. PICK d : Held(d) /\ TimesOk(d)
  BY DEF TimesInv
<1>2. SentOk /\ DeliveredOk /\ Ordered(Inside, Len(sent)) /\ Increasing(Inside)
  BY DEF TimesInv, Ordered
<1>3. CASE Next
  <2>1. PICK d2 : Steps(d, d2)
    BY <1>1, <1>2, <1>3, StepIs DEF SentOk
  <2>2. Held(d2)' /\ SentOk'
    BY <1>2, <2>1, HeldNext, SentGrows
  <2>3. Moves /\ DeliveredOk'
    BY <1>1, <1>2, <2>1, StepMoves
  <2>4. Ordered(Inside, Len(sent))'
    <3>1. [Route!Next]_(Route!vars)
      BY <1>1, <1>2, <2>2, <2>3, StepRefines
    <3> QED
      BY <1>1, <1>2, <3>1, OrderStep
  <2>5. TimesOk(d2)'
    BY <1>1, <1>2, <2>1, TimesStep
  <2> QED
    BY <2>2, <2>3, <2>4, <2>5 DEF TimesInv
<1>4. CASE UNCHANGED vars
  <2>1. /\ sent' = sent /\ delivered' = delivered /\ enqueued' = enqueued
        /\ inflight' = inflight /\ now' = now
    BY <1>4 DEF vars
  <2>2. Held(d)'
    BY <1>1, <1>4 DEF vars, Held, HeldBut, QueueOk, PipeOk, Kept, Due
  <2>3. TimesOk(d)'
    BY <1>1, <2>1 DEF TimesOk
  <2>4. SentOk' /\ DeliveredOk'
    BY <1>2, <2>1 DEF SentOk, DeliveredOk
  <2>5. Ordered(Inside, Len(sent))'
    <3>1. Inside' = Inside
      BY <2>1, Zenon DEF Inside, HopSet, PipeIds, Ids
    <3> QED
      BY <1>2, <2>1, <3>1, Zenon
  <2> QED
    BY <2>2, <2>3, <2>4, <2>5 DEF TimesInv
<1> QED
  BY <1>3, <1>4

\* Packets that came out in time.
LEMMA InTime == TimesInv => TransitTimeBounded
<1> SUFFICES ASSUME TimesInv, NEW k \in 1 .. Len(delivered)
             PROVE  LET p    == delivered[k].pkt
                        took == delivered[k].at - sent[p.id].at
                    IN  /\ took >= Total([h \in HopSet |-> DrainTime(h, p) + Delay[h]])
                        /\ took <= Total([h \in HopSet |-> MaxSize[h] * PsPerByte[h] + Delay[h]])
  BY Zenon DEF TransitTimeBounded
<1>1. PICK p, t : p = delivered[k].pkt /\ t = delivered[k].at
  OBVIOUS
<1>2. InPipe(sent, Hops, p, t)
  BY <1>1, Zenon DEF TimesInv, TimesOk, Timely, EndTimely
<1>3. p \in Packet /\ t \in Nat /\ p.size \in Nat /\ Hops \in HopSet
  <2>1. delivered[k] \in Final
    BY DEF TimesInv, DeliveredOk
  <2> QED
    BY <1>1, <2>1, PacketSize, LinkAssumption DEF Final, HopSet
<1>4. /\ Shortest(Hops, p.size) = Total([h \in HopSet |-> DrainTime(h, p) + Delay[h]])
      /\ Longest(Hops) = Total([h \in HopSet |-> MaxSize[h] * PsPerByte[h] + Delay[h]])
  BY Zenon DEF Shortest, Longest, HopSet, DrainTime
<1>5. PICK lo \in Nat, hi \in Nat : lo = Shortest(Hops, p.size) /\ hi = Longest(Hops)
  <2>1. PICK m \in Nat, n \in Nat : m = PsPerByte[Hops] /\ n = Delay[Hops]
    BY <1>3, Rates
  <2>2. PICK z \in Nat, b \in Nat : z = MaxSize[Hops] /\ b = p.size
    BY <1>3, Rates
  <2>3. PICK v \in Nat, w \in Nat : v = b * m + n /\ w = z * m + n
    <3>1. b * m + n \in Nat /\ z * m + n \in Nat
      OBVIOUS
    <3> QED
      BY <3>1
  <2>4. PICK x \in Nat, y \in Nat : x = Shortest(Hops - 1, p.size) /\ y = Longest(Hops - 1)
    BY <1>3, ShortestGrows, LongestGrows
  <2>5. Shortest(Hops, p.size) = x + v /\ Longest(Hops) = y + w
    BY <1>3, <2>1, <2>2, <2>3, <2>4, ShortestGrows, LongestGrows, Zenon
  <2>6. x + v \in Nat /\ y + w \in Nat
    OBVIOUS
  <2> QED
    BY <2>5, <2>6, Zenon
<1>6. PICK a \in Nat : a = sent[p.id].at /\ a + lo <= t /\ t <= a + hi
  BY <1>2, <1>5, Zenon DEF InPipe, Took, SentAt
<1>7. t - a >= lo /\ t - a <= hi
  BY <1>3, <1>6
<1> QED
  BY <1>1, <1>4, <1>5, <1>6, <1>7, Zenon

\* A packet takes at least its transmission and propagation times over the
\* route, and at most the time to drain a full buffer at every hop
\* (queue.cpp:35-92, pipe.cpp:8-45).
THEOREM TransitIsBounded == Spec => []TransitTimeBounded
<1> QED
  BY TimesInit, TimesNext, InTime, PTL DEF Spec

\* A packet that never had another behind it arrives unmarked, when the last
\* pipe takes time (queue.cpp:85-91).
THEOREM LonePacketsAreUnmarked ==
    ASSUME Delay[Hops] > 0
    PROVE  Spec => []LonePacketIsUnmarked
<1>1. TimesInv => LonePacketIsUnmarked
  <2> SUFFICES ASSUME TimesInv, NEW k \in 1 .. Len(delivered), delivered[k].pkt.ecn
               PROVE  \E q \in 1 .. Len(sent) : /\ q > delivered[k].pkt.id
                                                /\ sent[q].at < delivered[k].at
    BY DEF LonePacketIsUnmarked
  <2>1. InPipe(sent, Hops, delivered[k].pkt, delivered[k].at)
    BY Zenon DEF TimesInv, TimesOk, Timely, EndTimely
  <2>2. Before(sent, delivered[k].pkt, delivered[k].at)
    BY <2>1, Zenon DEF InPipe
  <2>3. delivered[k].pkt.id \in Nat
    <3>1. delivered[k] \in Final
      BY DEF TimesInv, DeliveredOk
    <3> QED
      BY <3>1, FinalIds
  <2> QED
    BY <2>2, <2>3 DEF Before
<1> QED
  BY <1>1, TimesInit, TimesNext, PTL DEF Spec
=============================================================================
