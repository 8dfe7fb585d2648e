---------------------------- MODULE CommonLemmas ----------------------------
(***************************************************************************)
(* Facts about quotients and remainders, induction over the naturals, sums *)
(* over sequences, the event list, and what a queue or a set of queues     *)
(* holds, which the proofs about the components share.                     *)
(***************************************************************************)
EXTENDS Sums, EventList, SequenceTheorems, WellFoundedInduction, TLAPS

----------------------------------------------------------------------------
(* Quotients and remainders *)

\* Every number has a quotient and a remainder.
LEMMA DivMod ==
    \A w \in Nat \ {0} : \A x \in Int : \E q \in Int : \E r \in 0 .. w - 1 :
        x = w * q + r /\ x % w = r /\ x \div w = q
OBVIOUS

\* They are the only ones.
LEMMA Uniq ==
    \A w \in Nat \ {0} : \A x, q \in Int : \A r \in 0 .. w - 1 :
        x = w * q + r => x % w = r /\ x \div w = q
OBVIOUS

\* Multiplication distributes over sums and differences.
LEMMA Distr ==
    \A w, q, z \in Int :
        w * (q + z) = w * q + w * z /\ w * (q - z) = w * q - w * z
OBVIOUS

\* Adding a multiple of the modulus changes nothing.
LEMMA AddMultiple ==
    \A w \in Nat \ {0} : \A x, y, q \in Int :
        y = x + w * q \/ y = x - w * q => y % w = x % w
<1> SUFFICES ASSUME NEW w \in Nat \ {0}, NEW x \in Int, NEW y \in Int,
                    NEW q \in Int, y = x + w * q \/ y = x - w * q
             PROVE  y % w = x % w
  OBVIOUS
<1>1. PICK z \in Int : \E r \in 0 .. w - 1 : x = w * z + r /\ x % w = r
  BY DivMod
<1>2. PICK r \in 0 .. w - 1 : x = w * z + r /\ x % w = r
  BY <1>1
<1>3. w * (z + q) = w * z + w * q /\ w * (z - q) = w * z - w * q
  BY Distr
<1>4. CASE y = x + w * q
  <2>1. y = w * (z + q) + r
    BY <1>4, <1>3, <1>2
  <2>2. z + q \in Int
    OBVIOUS
  <2> QED
    BY <2>1, <2>2, <1>2, Uniq
<1>5. CASE y = x - w * q
  <2>1. y = w * (z - q) + r
    BY <1>5, <1>3, <1>2
  <2>2. z - q \in Int
    OBVIOUS
  <2> QED
    BY <2>1, <2>2, <1>2, Uniq
<1> QED
  BY <1>4, <1>5

\* What x leaves when divided by w differs from x by a multiple of w.
LEMMA ModDiffers ==
    \A w \in Nat \ {0} : \A x \in Int : \E q \in Int :
        x % w \in 0 .. w - 1 /\ x % w = x - w * q
<1> SUFFICES ASSUME NEW w \in Nat \ {0}, NEW x \in Int
             PROVE  \E q \in Int : x % w \in 0 .. w - 1 /\ x % w = x - w * q
  OBVIOUS
<1>1. PICK q \in Int : \E r \in 0 .. w - 1 : x = w * q + r /\ x % w = r
  BY DivMod
<1>2. PICK r \in 0 .. w - 1 : x = w * q + r /\ x % w = r
  BY <1>1
<1>3. r = x - w * q
  BY <1>2
<1> QED
  BY <1>2, <1>3, Zenon

\* A remainder may stand for its number under another remainder.
LEMMA ModSub ==
    \A w \in Nat \ {0} : \A x, y \in Int :
        /\ ((x % w) - y) % w = (x - y) % w
        /\ (x - (y % w)) % w = (x - y) % w
        /\ ((x % w) + y) % w = (x + y) % w
<1> SUFFICES ASSUME NEW w \in Nat \ {0}, NEW x \in Int, NEW y \in Int
             PROVE  /\ ((x % w) - y) % w = (x - y) % w
                    /\ (x - (y % w)) % w = (x - y) % w
                    /\ ((x % w) + y) % w = (x + y) % w
  OBVIOUS
<1> DEFINE r == x % w
           s == y % w
<1>1. PICK q \in Int : r \in 0 .. w - 1 /\ r = x - w * q
  BY ModDiffers
<1>2. PICK p \in Int : s \in 0 .. w - 1 /\ s = y - w * p
  BY ModDiffers
<1> HIDE DEF r, s
<1>3. w * q \in Int /\ w * p \in Int
  OBVIOUS
<1>4. r - y = (x - y) - w * q
  BY <1>1, <1>3
<1>5. x - s = (x - y) + w * p
  BY <1>2, <1>3
<1>6. r + y = (x + y) - w * q
  BY <1>1, <1>3
<1>7. r - y \in Int /\ x - s \in Int /\ r + y \in Int /\ x - y \in Int /\ x + y \in Int
  BY <1>1, <1>2
<1>8. (r - y) % w = (x - y) % w /\ (x - s) % w = (x - y) % w /\ (r + y) % w = (x + y) % w
  <2>1. (r - y) % w = (x - y) % w
    BY <1>4, <1>7, AddMultiple, Zenon
  <2>2. (x - s) % w = (x - y) % w
    BY <1>5, <1>7, AddMultiple, Zenon
  <2>3. (r + y) % w = (x + y) % w
    BY <1>6, <1>7, AddMultiple, Zenon
  <2> QED
    BY <2>1, <2>2, <2>3, Zenon
<1> QED
  BY <1>8, Zenon DEF r, s

\* n divided by d, rounded up.
LEMMA CeilingOf ==
    \A n, d \in Nat \ {0} :
        LET t == (n + d - 1) \div d
        IN  t \in Nat \ {0} /\ (t - 1) * d < n /\ n <= t * d
OBVIOUS

\* Multiplying by a natural keeps the order.
LEMMA Mono == \A a, b \in Int : \A c \in Nat : a <= b => a * c <= b * c
OBVIOUS

\* The quotient of naturals is a natural.
LEMMA WholeNumber == \A y \in Nat : \A d \in Nat \ {0} : y \div d \in Nat
OBVIOUS

----------------------------------------------------------------------------
(* Induction over the naturals, from the library's theorem on minimal elements *)

\* A set of naturals that is not empty has a least element.
LEMMA Least ==
    ASSUME NEW S \in SUBSET Nat, S # {}
    PROVE  \E x \in S : \A y \in S : x <= y
<1>1. IsWellFoundedOn(OpToRel(<, Nat), Nat)
  BY NatLessThanWellFounded
<1>2. PICK x \in S : \A y \in S : ~(<<y, x>> \in OpToRel(<, Nat))
  BY <1>1, WFMin
<1>3. \A y \in S : ~(y < x)
  BY <1>2 DEF OpToRel
<1> QED
  BY <1>3

\* A set with 0 and with the successor of each of its members has them all.
LEMMA Induct ==
    ASSUME NEW S \in SUBSET Nat, 0 \in S, \A n \in S : n + 1 \in S
    PROVE  S = Nat
<1> DEFINE R == Nat \ S
<1> SUFFICES ASSUME R # {} PROVE FALSE
  OBVIOUS
<1>1. PICK x \in R : \A y \in R : x <= y
  <2>1. R \in SUBSET Nat
    OBVIOUS
  <2> HIDE DEF R
  <2> QED
    BY <2>1, Least
<1>2. x \in Nat /\ x # 0
  BY <1>1
<1>3. x - 1 \in Nat /\ x - 1 \notin R
  BY <1>1, <1>2
<1>4. x - 1 \in S
  BY <1>3
<1> QED
  BY <1>4, <1>1

----------------------------------------------------------------------------
(* Sums over sequences *)

\* Running sums exist, so that a recursive function is what it says.
RunsUp(g, N, b, w) ==
    \A r \in 0 .. N : g[r] = IF r = 0 THEN b ELSE g[r - 1] + w[r - 1]

\* Over a domain that is closed under addition, every finite list of amounts
\* has its running sums, from any start.
LEMMA RunningSums ==
    ASSUME NEW D, \A x, y \in D : x + y \in D,
           NEW N \in Nat, NEW b \in D, NEW w \in [0 .. N - 1 -> D]
    PROVE  \E g \in [0 .. N -> D] : RunsUp(g, N, b, w)
<1> DEFINE Sum(n, g) ==
              \A r \in 0 .. n : g[r] = IF r = 0 THEN b ELSE g[r - 1] + w[r - 1]
           S == {n \in Nat : n <= N => \E g \in [0 .. n -> D] : Sum(n, g)}
<1>1. 0 \in S
  <2> DEFINE g == [r \in 0 .. 0 |-> b]
  <2>1. g \in [0 .. 0 -> D] /\ Sum(0, g)
    OBVIOUS
  <2> QED
    BY <2>1
<1>2. ASSUME NEW n \in S PROVE n + 1 \in S
  <2> SUFFICES ASSUME n + 1 <= N
               PROVE  \E h \in [0 .. n + 1 -> D] : Sum(n + 1, h)
    <3>1. n + 1 \in Nat
      OBVIOUS
    <3> QED
      BY <3>1, Zenon
  <2>1. PICK g \in [0 .. n -> D] : Sum(n, g)
    <3>1. n <= N
      OBVIOUS
    <3> HIDE DEF Sum
    <3> QED
      BY <3>1
  <2>2. /\ n \in Nat /\ n \in 0 .. N - 1 /\ w[n] \in D /\ g[n] \in D
        /\ g[n] + w[n] \in D
    <3>1. n \in Nat /\ n \in 0 .. N - 1 /\ n \in 0 .. n
      OBVIOUS
    <3>2. w[n] \in D /\ g[n] \in D
      BY <3>1
    <3> QED
      BY <3>1, <3>2
  <2> DEFINE h == [r \in 0 .. n + 1 |-> IF r = n + 1 THEN g[n] + w[n] ELSE g[r]]
  <2>3. h \in [0 .. n + 1 -> D]
    BY <2>2
  <2>4. ASSUME NEW r \in 0 .. n + 1
        PROVE  h[r] = IF r = 0 THEN b ELSE h[r - 1] + w[r - 1]
    <3>1. CASE r = n + 1
      BY <3>1, <2>2
    <3>2. CASE r \in 0 .. n
      BY <3>2, <2>1, <2>2
    <3> QED
      BY <3>1, <3>2, <2>2
  <2> QED
    BY <2>3, <2>4
<1>3. S = Nat
  <2>1. S \in SUBSET Nat
    OBVIOUS
  <2> HIDE DEF S
  <2> QED
    BY <1>1, <1>2, <2>1, Induct
<1>4. N \in S
  BY <1>3
<1>5. N <= N
  OBVIOUS
<1>6. PICK g \in [0 .. N -> D] : Sum(N, g)
  BY <1>4, <1>5, Zenon
<1>7. RunsUp(g, N, b, w)
  BY <1>6, Zenon DEF RunsUp
<1> QED
  BY <1>7, Zenon

\* The same for naturals, in the form the sums over a prefix are used.
LEMMA SumsExist ==
    \A N, b \in Nat : \A w \in [0 .. N - 1 -> Nat] :
        \E g \in [0 .. N -> Nat] :
            \A r \in 0 .. N : g[r] = IF r = 0 THEN b ELSE g[r - 1] + w[r - 1]
<1> TAKE N, b \in Nat
<1> TAKE w \in [0 .. N - 1 -> Nat]
<1>1. \A x, y \in Nat : x + y \in Nat
  OBVIOUS
<1>2. PICK g \in [0 .. N -> Nat] : RunsUp(g, N, b, w)
  BY <1>1, RunningSums
<1> QED
  BY <1>2, Zenon DEF RunsUp

\* The sum of a sequence, from the left.
LEMMA TotalIs ==
    ASSUME NEW D \in {Nat, Int}, NEW w \in Seq(D)
    PROVE  \E g \in [0 .. Len(w) -> D] :
              /\ g[0] = 0 /\ \A i \in 1 .. Len(w) : g[i] = g[i - 1] + w[i]
              /\ Total(w) = g[Len(w)]
<1> DEFINE n == Len(w)
           F(h) == [i \in 0 .. n |-> IF i = 0 THEN 0 ELSE h[i - 1] + w[i]]
           v == [i \in 0 .. n - 1 |-> w[i + 1]]
           c == CHOOSE h : h = F(h)
<1>1. n \in Nat /\ v \in [0 .. n - 1 -> D]
  OBVIOUS
<1>2. PICK g \in [0 .. n -> D] :
          \A i \in 0 .. n : g[i] = IF i = 0 THEN 0 ELSE g[i - 1] + v[i - 1]
  <2>1. 0 \in D /\ \A x, y \in D : x + y \in D
    OBVIOUS
  <2> HIDE DEF n, v
  <2> QED
    <3>1. PICK g \in [0 .. n -> D] : RunsUp(g, n, 0, v)
      BY <1>1, <2>1, RunningSums
    <3> QED
      BY <3>1, Zenon DEF RunsUp
<1>3. \A i \in 1 .. n : v[i - 1] = w[i]
  BY <1>1
<1>4. g = F(g)
  <2> HIDE DEF v
  <2>1. \A i \in 0 .. n : g[i] = IF i = 0 THEN 0 ELSE g[i - 1] + w[i]
    BY <1>1, <1>2, <1>3
  <2> QED
    BY <2>1
<1>5. c = F(c)
  <2> HIDE DEF F
  <2> QED
    BY <1>4, Zenon
<1>6. \A i \in 0 .. n : c[i] = IF i = 0 THEN 0 ELSE c[i - 1] + w[i]
  <2> HIDE DEF c
  <2> QED
    BY <1>5
<1>7. Total(w) = c[n]
  BY DEF Total
<1> HIDE DEF c, v, F
<1>8. \A i \in 0 .. n : c[i] = g[i]
  <2> DEFINE S == {i \in Nat : i <= n => c[i] = g[i]}
  <2>1. 0 \in S
    BY <1>1, <1>2, <1>6
  <2>2. ASSUME NEW i \in S PROVE i + 1 \in S
    BY <1>1, <1>2, <1>3, <1>6
  <2>3. S = Nat
    <3>1. S \in SUBSET Nat
      OBVIOUS
    <3> HIDE DEF S
    <3> QED
      BY <2>1, <2>2, <3>1, Induct
  <2> QED
    BY <1>1, <2>3
<1>9. g[0] = 0 /\ \A i \in 1 .. n : g[i] = g[i - 1] + w[i]
  <2> HIDE DEF n
  <2> QED
    BY <1>1, <1>2, <1>3
<1>10. Total(w) = g[n]
  BY <1>1, <1>7, <1>8
<1> QED
  BY <1>2, <1>9, <1>10, Zenon DEF n

\* The empty sequence sums to 0.
LEMMA TotalEmpty == Total(<<>>) = 0
<1>1. <<>> \in Seq(Nat) /\ Len(<<>>) = 0
  OBVIOUS
<1> QED
  BY <1>1, TotalIs

\* One more number at the end.
LEMMA TotalAppend ==
    ASSUME NEW D \in {Nat, Int}, NEW w \in Seq(D), NEW x \in D
    PROVE  Total(w) \in D /\ Total(Append(w, x)) = Total(w) + x
<1> DEFINE n == Len(w)
           u == Append(w, x)
<1>1. /\ n \in Nat /\ u \in Seq(D) /\ Len(u) = n + 1 /\ u[n + 1] = x
      /\ \A i \in 1 .. n : u[i] = w[i]
  BY AppendProperties
<1>2. PICK g \in [0 .. n -> D] :
          /\ g[0] = 0 /\ \A i \in 1 .. n : g[i] = g[i - 1] + w[i]
          /\ Total(w) = g[n]
  BY TotalIs
<1>3. PICK h \in [0 .. n + 1 -> D] :
          /\ h[0] = 0 /\ \A i \in 1 .. n + 1 : h[i] = h[i - 1] + u[i]
          /\ Total(u) = h[n + 1]
  BY <1>1, TotalIs
<1> HIDE DEF n, u
<1>4. \A i \in 0 .. n : g[i] = h[i]
  <2> DEFINE S == {i \in Nat : i <= n => g[i] = h[i]}
  <2>1. 0 \in S
    BY <1>2, <1>3
  <2>2. ASSUME NEW i \in S PROVE i + 1 \in S
    <3>1. SUFFICES ASSUME i + 1 <= n PROVE g[i + 1] = h[i + 1]
      OBVIOUS
    <3>2. /\ i + 1 \in 1 .. n /\ i + 1 \in 1 .. n + 1 /\ i + 1 - 1 = i
          /\ g[i] = h[i]
      BY <1>1, <3>1
    <3>3. PICK j \in 1 .. n : j = i + 1 /\ j - 1 = i /\ j \in 1 .. n + 1
      BY <3>2
    <3> HIDE DEF S
    <3>4. g[j] = g[j - 1] + w[j]
      BY <1>2
    <3>5. h[j] = h[j - 1] + u[j]
      BY <1>3, <3>3
    <3>6. u[j] = w[j]
      BY <1>1
    <3> QED
      BY <3>2, <3>3, <3>4, <3>5, <3>6
  <2>3. S = Nat
    <3>1. S \in SUBSET Nat
      OBVIOUS
    <3> HIDE DEF S
    <3> QED
      BY <2>1, <2>2, <3>1, Induct
  <2>4. \A i \in 0 .. n : i \in S /\ i <= n
    <3> HIDE DEF S
    <3> QED
      BY <1>1, <2>3
  <2> QED
    BY <2>4
<1>5. h[n + 1] = h[n] + x /\ h[n] = g[n] /\ g[n] \in D
  <2>1. n + 1 \in 1 .. n + 1 /\ n + 1 - 1 = n /\ n \in 0 .. n
    BY <1>1
  <2> QED
    BY <1>1, <1>2, <1>3, <1>4, <2>1
<1> QED
  BY <1>2, <1>3, <1>5 DEF u

\* One number changes.
LEMMA TotalChange ==
    ASSUME NEW w \in Seq(Int), NEW v \in Seq(Int), Len(v) = Len(w),
           NEW j \in 1 .. Len(w), \A i \in 1 .. Len(w) : i # j => v[i] = w[i]
    PROVE  /\ Total(w) \in Int /\ w[j] \in Int /\ v[j] \in Int
           /\ Total(v) = Total(w) + (v[j] - w[j])
<1>1. PICK n \in Nat : n = Len(w)
  OBVIOUS
<1>2. PICK g \in [0 .. n -> Int] :
          /\ g[0] = 0 /\ \A i \in 1 .. n : g[i] = g[i - 1] + w[i]
          /\ Total(w) = g[n]
  BY <1>1, TotalIs
<1>3. PICK h \in [0 .. n -> Int] :
          /\ h[0] = 0 /\ \A i \in 1 .. n : h[i] = h[i - 1] + v[i]
          /\ Total(v) = h[n]
  BY <1>1, TotalIs
<1>4. PICK x \in Int, y \in Int, d \in Int :
          x = v[j] /\ y = w[j] /\ d = x - y /\ x = y + d
  <2>1. v[j] \in Int /\ w[j] \in Int
    BY <1>1
  <2>2. PICK x \in Int, y \in Int : x = v[j] /\ y = w[j]
    BY <2>1
  <2>3. x - y \in Int /\ x = y + (x - y)
    OBVIOUS
  <2> QED
    BY <2>2, <2>3, Zenon
<1>5. /\ j \in 1 .. n
      /\ \A i \in 1 .. n : w[i] \in Int /\ v[i] \in Int /\ (i # j => v[i] = w[i])
  BY <1>1
<1> DEFINE S == {i \in Nat : i <= n => /\ i < j => h[i] = g[i]
                                       /\ j <= i => h[i] = g[i] + d}
<1>6. 0 \in S
  BY <1>2, <1>3, <1>5
<1>7. ASSUME NEW i \in S PROVE i + 1 \in S
  <2>1. SUFFICES ASSUME i + 1 <= n
                 PROVE  /\ i + 1 < j => h[i + 1] = g[i + 1]
                        /\ j <= i + 1 => h[i + 1] = g[i + 1] + d
    OBVIOUS
  <2>2. i \in Nat /\ i <= n /\ (i < j => h[i] = g[i]) /\ (j <= i => h[i] = g[i] + d)
    BY <2>1
  <2> HIDE DEF S
  <2>3. PICK k \in 1 .. n : k = i + 1 /\ k - 1 = i /\ i \in 0 .. n
    BY <2>1, <2>2
  <2>4. g[k] = g[i] + w[k] /\ h[k] = h[i] + v[k]
    BY <1>2, <1>3, <2>3, Zenon
  <2>5. PICK a \in Int, b \in Int, x1 \in Int, y1 \in Int :
            a = g[i] /\ b = h[i] /\ x1 = v[k] /\ y1 = w[k]
    BY <1>5, <2>3
  <2>6. g[k] = a + y1 /\ h[k] = b + x1
    BY <2>4, <2>5
  <2>7. k < j => h[k] = g[k]
    <3>1. k < j => i < j /\ x1 = y1
      BY <1>5, <2>3, <2>5
    <3> QED
      BY <2>2, <2>5, <2>6, <3>1
  <2>8. j <= k => h[k] = g[k] + d
    <3>1. CASE k = j
      <4>1. i < j /\ x1 = x /\ y1 = y
        <5>1. x1 = x /\ y1 = y
          BY <1>4, <2>5, <3>1, Zenon
        <5> QED
          BY <1>5, <2>2, <2>3, <3>1, <5>1
      <4>2. b = a
        BY <2>2, <2>5, <4>1
      <4> QED
        <5>1. x = y + d /\ d \in Int /\ y \in Int
          BY <1>4
        <5>2. b + x1 = (a + y1) + d
          BY <2>5, <4>1, <4>2, <5>1
        <5> QED
          BY <2>6, <5>2, Zenon
    <3>2. CASE j < k
      <4>1. j <= i /\ x1 = y1
        BY <1>5, <2>3, <2>5, <3>2
      <4>2. b = a + d
        BY <2>2, <2>5, <4>1
      <4> QED
        <5>1. \A p, q, r \in Int : (p + r) + q = (p + q) + r
          OBVIOUS
        <5>2. a \in Int /\ d \in Int /\ y1 \in Int
          OBVIOUS
        <5>3. (a + d) + y1 = (a + y1) + d
          BY <5>1, <5>2, Zenon
        <5> QED
          BY <2>6, <4>1, <4>2, <5>3, Zenon
    <3>3. j <= k => k = j \/ j < k
      BY <1>1, <1>5, <2>3
    <3> QED
      BY <3>1, <3>2, <3>3, Zenon
  <2> QED
    BY <2>3, <2>7, <2>8, Zenon
<1>8. S = Nat
  <2>1. S \in SUBSET Nat
    OBVIOUS
  <2> HIDE DEF S
  <2> QED
    BY <1>6, <1>7, <2>1, Induct
<1>9. h[n] = g[n] + d
  <2>1. n \in S /\ n <= n /\ j <= n
    BY <1>1, <1>5, <1>8
  <2> QED
    BY <2>1
<1>10. g[n] \in Int
  BY <1>2
<1>11. Total(w) \in Int /\ Total(v) = Total(w) + d
  BY <1>2, <1>3, <1>9, <1>10, Zenon
<1>12. w[j] \in Int /\ v[j] \in Int /\ d = (v[j] - w[j])
  BY <1>4, Zenon
<1> QED
  BY <1>11, <1>12, Zenon

\* The sum of what w gives each element of a sequence.
Over(q, w) == Total([i \in 1 .. Len(q) |-> w[q[i]]])

\* No members weigh nothing.
LEMMA OverEmpty == \A w : Over(<<>>, w) = 0
<1> TAKE w
<1>1. [i \in 1 .. Len(<<>>) |-> w[<<>>[i]]] = <<>>
  OBVIOUS
<1> QED
  BY <1>1, TotalEmpty DEF Over

\* A member appended adds its weight.
LEMMA OverAppend ==
    ASSUME NEW S, NEW w \in [S -> Nat], NEW q \in Seq(S), NEW p \in S
    PROVE  Over(q, w) \in Nat /\ Over(Append(q, p), w) = Over(q, w) + w[p]
<1> DEFINE n == Len(q)
           a == [i \in 1 .. n |-> w[q[i]]]
           b == [i \in 1 .. Len(Append(q, p)) |-> w[Append(q, p)[i]]]
<1>1. n \in Nat /\ a \in Seq(Nat) /\ Len(a) = n
  OBVIOUS
<1>2. /\ Len(Append(q, p)) = n + 1 /\ Append(q, p)[n + 1] = p
      /\ \A i \in 1 .. n : Append(q, p)[i] = q[i]
  BY AppendProperties
<1>3. /\ b \in Seq(Nat) /\ Len(b) = n + 1 /\ b[n + 1] = w[p]
      /\ \A i \in 1 .. n : b[i] = a[i]
  <2>1. ASSUME NEW i \in 1 .. n + 1 PROVE w[Append(q, p)[i]] \in Nat
    BY <1>1, <1>2
  <2>2. b = [i \in 1 .. n + 1 |-> w[Append(q, p)[i]]]
    BY <1>2
  <2> QED
    BY <1>1, <1>2, <2>1, <2>2
<1>4. w[p] \in Nat
  OBVIOUS
<1>5. /\ Append(a, w[p]) \in Seq(Nat) /\ Len(Append(a, w[p])) = n + 1
      /\ Append(a, w[p])[n + 1] = w[p]
      /\ \A i \in 1 .. n : Append(a, w[p])[i] = a[i]
  <2> HIDE DEF a
  <2> QED
    BY <1>1, <1>4, AppendProperties
<1>6. b = Append(a, w[p])
  <2>1. ASSUME NEW i \in 1 .. Len(b) PROVE b[i] = Append(a, w[p])[i]
    <3> HIDE DEF a, b
    <3> QED
      BY <1>1, <1>3, <1>5
  <2> HIDE DEF a, b
  <2> QED
    BY <1>3, <1>5, <2>1, SeqEqual
<1> QED
  <2>1. Over(q, w) = Total(a) /\ Over(Append(q, p), w) = Total(b)
    BY DEF Over
  <2> HIDE DEF a, b
  <2> QED
    BY <1>1, <1>4, <1>6, <2>1, TotalAppend

\* Appending to the second sequence appends to the concatenation.
LEMMA ConcatAppend ==
    ASSUME NEW S, NEW q \in Seq(S), NEW u \in Seq(S), NEW p \in S
    PROVE  q \o u \in Seq(S) /\ q \o Append(u, p) = Append(q \o u, p)
<1> DEFINE a == q \o Append(u, p)
           b == Append(q \o u, p)
<1>1. Append(u, p) \in Seq(S) /\ q \o u \in Seq(S)
  OBVIOUS
<1>2. a \in Seq(S) /\ b \in Seq(S) /\ Len(a) = Len(b)
  OBVIOUS
<1>3. \A i \in 1 .. Len(a) : a[i] = b[i]
  OBVIOUS
<1> HIDE DEF a, b
<1>4. a = b
  BY <1>2, <1>3, SeqEqual
<1> QED
  BY <1>1, <1>4 DEF a, b

\* The sum over a concatenation.
LEMMA OverConcat ==
    ASSUME NEW S, NEW w \in [S -> Nat], NEW q \in Seq(S), NEW r \in Seq(S)
    PROVE  Over(q \o r, w) = Over(q, w) + Over(r, w)
<1> DEFINE G == {n \in Nat : \A t \in Seq(S) : Len(t) = n =>
                    Over(q \o t, w) = Over(q, w) + Over(t, w)}
<1>1. 0 \in G
  <2>1. ASSUME NEW t \in Seq(S), Len(t) = 0
        PROVE  Over(q \o t, w) = Over(q, w) + Over(t, w)
    <3>1. t = <<>> /\ q \o <<>> = q
      BY <2>1, ConcatEmptySeq, EmptySeq
    <3>2. Over(<<>>, w) = 0 /\ Over(q, w) + 0 = Over(q, w)
      <4>1. Over(q, w) \in Nat
        <5>1. CASE S = {}
          <6>1. q = <<>>
            BY <5>1
          <6> QED
            BY <6>1, OverEmpty
        <5>2. CASE S # {}
          BY <5>2, OverAppend
        <5> QED
          BY <5>1, <5>2
      <4> QED
        BY <4>1, OverEmpty
    <3> QED
      BY <3>1, <3>2
  <2> QED
    BY <2>1
<1>2. ASSUME NEW n \in G PROVE n + 1 \in G
  <2> SUFFICES ASSUME NEW t \in Seq(S), Len(t) = n + 1
               PROVE  Over(q \o t, w) = Over(q, w) + Over(t, w)
    OBVIOUS
  <2>1. t # <<>>
    OBVIOUS
  <2>2. PICK u \in Seq(S), p \in S : t = Append(u, p)
    BY <2>1, SequenceEmptyOrAppend
  <2>3. Len(u) = n
    BY <2>2, AppendProperties
  <2>4. Over(q \o u, w) = Over(q, w) + Over(u, w)
    BY <2>3
  <2>5. q \o u \in Seq(S) /\ q \o t = Append(q \o u, p)
    <3> HIDE DEF G
    <3> QED
      BY <2>2, ConcatAppend
  <2>6. /\ Over(q \o t, w) = Over(q \o u, w) + w[p]
        /\ Over(t, w) = Over(u, w) + w[p]
        /\ Over(q, w) \in Nat /\ Over(u, w) \in Nat /\ w[p] \in Nat
    BY <2>2, <2>5, OverAppend
  <2> QED
    BY <2>4, <2>6
<1>3. G = Nat
  <2>1. G \in SUBSET Nat
    OBVIOUS
  <2> HIDE DEF G
  <2> QED
    BY <1>1, <1>2, <2>1, Induct
<1>4. Len(r) \in G
  <2>1. Len(r) \in Nat
    OBVIOUS
  <2> QED
    BY <1>3, <2>1
<1> QED
  BY <1>4

\* Weights in naturals sum to a natural.
LEMMA OverType ==
    ASSUME NEW S, NEW w \in [S -> Nat], NEW q \in Seq(S)
    PROVE  Over(q, w) \in Nat
<1>1. CASE S = {}
  <2>1. q = <<>>
    BY <1>1
  <2> QED
    BY <2>1, OverEmpty
<1>2. CASE S # {}
  BY <1>2, OverAppend
<1> QED
  BY <1>1, <1>2

\* One more element in front.
LEMMA OverTail ==
    ASSUME NEW S, NEW w \in [S -> Nat], NEW q \in Seq(S), q # <<>>
    PROVE  /\ Over(q, w) = w[Head(q)] + Over(Tail(q), w)
           /\ w[Head(q)] \in Nat /\ Over(Tail(q), w) \in Nat
<1>1. Head(q) \in S /\ Tail(q) \in Seq(S) /\ <<Head(q)>> \in Seq(S)
  BY HeadTailProperties
<1>2. q = <<Head(q)>> \o Tail(q)
  OBVIOUS
<1>3. Over(<<Head(q)>>, w) = w[Head(q)]
  <2>1. <<>> \in Seq(S) /\ <<Head(q)>> = Append(<<>>, Head(q))
    OBVIOUS
  <2>2. w[Head(q)] \in Nat
    BY <1>1
  <2>3. Over(Append(<<>>, Head(q)), w) = Over(<<>>, w) + w[Head(q)]
    BY <1>1, <2>1, OverAppend, Zenon
  <2>4. Over(<<>>, w) = 0
    BY OverEmpty
  <2> QED
    BY <2>1, <2>2, <2>3, <2>4
<1> QED
  BY <1>1, <1>2, <1>3, OverConcat, OverType

\* No element has more than the sum.
LEMMA OverHas ==
    ASSUME NEW S, NEW w \in [S -> Nat], NEW q \in Seq(S), NEW i \in 1 .. Len(q)
    PROVE  w[q[i]] \in Nat /\ w[q[i]] <= Over(q, w)
<1> DEFINE a == SubSeq(q, 1, i - 1)
           b == SubSeq(q, i, Len(q))
<1>1. i \in Nat /\ Len(q) \in Nat /\ q[i] \in S
  OBVIOUS
<1>2. a \in Seq(S) /\ b \in Seq(S) /\ a \o b = q
  <2>1. 1 \in 1 .. Len(q) + 1 /\ i - 1 \in 1 - 1 .. Len(q)
        /\ Len(q) \in i - 1 .. Len(q) /\ (i - 1) + 1 = i
    BY <1>1
  <2>2. SubSeq(q, 1, i - 1) \o SubSeq(q, (i - 1) + 1, Len(q)) = SubSeq(q, 1, Len(q))
    BY <2>1, ConcatAdjacentSubSeq
  <2>3. a \in Seq(S)
    <3>1. \A j \in 1 .. i - 1 : q[j] \in S
      BY <1>1
    <3> QED
      BY <1>1, <3>1, SubSeqProperties
  <2>4. b \in Seq(S)
    <3>1. \A j \in i .. Len(q) : q[j] \in S
      BY <1>1
    <3> QED
      BY <1>1, <3>1, SubSeqProperties
  <2> QED
    BY <2>1, <2>2, <2>3, <2>4, SubSeqFull
<1>3. b # <<>> /\ Head(b) = q[i]
  <2>1. i \in 1 .. Len(q) /\ Len(q) \in i .. Len(q)
    BY <1>1
  <2>2. Head(b) = q[i]
    BY <2>1, HeadTailOfSubSeq
  <2>3. Len(b) # 0
    <3>1. \A j \in i .. Len(q) : q[j] \in S
      BY <1>1
    <3>2. Len(b) = IF i <= Len(q) THEN Len(q) - i + 1 ELSE 0
      BY <1>1, <3>1, SubSeqProperties
    <3> HIDE DEF b
    <3> QED
      BY <1>1, <3>2
  <2>4. b # <<>>
    <3> HIDE DEF b
    <3>1. b = <<>> => Len(b) = 0
      OBVIOUS
    <3> QED
      BY <2>3, <3>1
  <2> QED
    BY <2>2, <2>4
<1> HIDE DEF a, b
<1>4. Over(q, w) = Over(a, w) + Over(b, w) /\ Over(a, w) \in Nat
  BY <1>2, OverConcat, OverType
<1>5. Over(b, w) = w[q[i]] + Over(Tail(b), w) /\ Over(Tail(b), w) \in Nat
      /\ w[q[i]] \in Nat
  BY <1>2, <1>3, OverTail
<1> QED
  BY <1>4, <1>5

\* A sequence is what its first m elements and the others make.
LEMMA Split ==
    ASSUME NEW S, NEW q \in Seq(S), NEW m \in 0 .. Len(q)
    PROVE  /\ SubSeq(q, 1, m) \in Seq(S) /\ Len(SubSeq(q, 1, m)) = m
           /\ \A i \in 1 .. m : SubSeq(q, 1, m)[i] = q[i]
           /\ SubSeq(q, m + 1, Len(q)) \in Seq(S)
           /\ Len(SubSeq(q, m + 1, Len(q))) = Len(q) - m
           /\ \A i \in 1 .. Len(q) - m : SubSeq(q, m + 1, Len(q))[i] = q[m + i]
           /\ SubSeq(q, 1, m) \o SubSeq(q, m + 1, Len(q)) = q
<1>1. Len(q) \in Nat /\ m \in Nat /\ m <= Len(q) /\ \A i \in 1 .. Len(q) : q[i] \in S
  OBVIOUS
<1>2. /\ SubSeq(q, 1, m) \in Seq(S)
      /\ Len(SubSeq(q, 1, m)) = IF 1 <= m THEN m - 1 + 1 ELSE 0
      /\ \A i \in 1 .. m - 1 + 1 : SubSeq(q, 1, m)[i] = q[1 + i - 1]
  <2>1. \A i \in 1 .. m : q[i] \in S
    BY <1>1
  <2> QED
    BY <1>1, <2>1, SubSeqProperties
<1>3. /\ SubSeq(q, m + 1, Len(q)) \in Seq(S)
      /\ Len(SubSeq(q, m + 1, Len(q))) =
             IF m + 1 <= Len(q) THEN Len(q) - (m + 1) + 1 ELSE 0
      /\ \A i \in 1 .. Len(q) - (m + 1) + 1 :
             SubSeq(q, m + 1, Len(q))[i] = q[(m + 1) + i - 1]
  <2>1. (\A i \in m + 1 .. Len(q) : q[i] \in S) /\ m + 1 \in Int /\ Len(q) \in Int
    BY <1>1
  <2> QED
    BY <2>1, SubSeqProperties
<1>4. SubSeq(q, 1, m) \o SubSeq(q, m + 1, Len(q)) = SubSeq(q, 1, Len(q))
  <2>1. 1 \in 1 .. Len(q) + 1 /\ m \in 1 - 1 .. Len(q) /\ Len(q) \in m .. Len(q)
    BY <1>1
  <2> QED
    BY <2>1, ConcatAdjacentSubSeq
<1>5. SubSeq(q, 1, Len(q)) = q
  BY SubSeqFull
<1>6. \A i \in 1 .. m : 1 + i - 1 = i /\ i \in 1 .. m - 1 + 1
  BY <1>1
<1>7. \A i \in 1 .. Len(q) - m :
         (m + 1) + i - 1 = m + i /\ i \in 1 .. Len(q) - (m + 1) + 1
  BY <1>1
<1>8. Len(SubSeq(q, 1, m)) = m /\ Len(SubSeq(q, m + 1, Len(q))) = Len(q) - m
  BY <1>1, <1>2, <1>3
<1>9. \A i \in 1 .. m : SubSeq(q, 1, m)[i] = q[i]
  BY <1>2, <1>6
<1>10. \A i \in 1 .. Len(q) - m : SubSeq(q, m + 1, Len(q))[i] = q[m + i]
  BY <1>3, <1>7
<1> QED
  BY <1>2, <1>3, <1>4, <1>5, <1>8, <1>9, <1>10

\* The sum over its first m elements and the sum over the others.
LEMMA OverSplit ==
    ASSUME NEW S, NEW w \in [S -> Nat], NEW q \in Seq(S), NEW m \in 0 .. Len(q)
    PROVE  /\ Over(q, w) = Over(SubSeq(q, 1, m), w) + Over(SubSeq(q, m + 1, Len(q)), w)
           /\ Over(SubSeq(q, 1, m), w) \in Nat
           /\ Over(SubSeq(q, m + 1, Len(q)), w) \in Nat
<1>0. /\ SubSeq(q, 1, m) \in Seq(S) /\ SubSeq(q, m + 1, Len(q)) \in Seq(S)
      /\ SubSeq(q, 1, m) \o SubSeq(q, m + 1, Len(q)) = q
  BY Split, Zenon
<1>1. PICK a \in Seq(S), b \in Seq(S) :
         a = SubSeq(q, 1, m) /\ b = SubSeq(q, m + 1, Len(q)) /\ a \o b = q
  BY <1>0, Zenon
<1>2. Over(a \o b, w) = Over(a, w) + Over(b, w) /\ Over(a, w) \in Nat
      /\ Over(b, w) \in Nat
  BY OverConcat, OverType
<1> QED
  BY <1>1, <1>2

\* Nothing adds up to nothing.
LEMMA OverZero ==
    ASSUME NEW S, NEW w \in [S -> Nat], NEW q \in Seq(S),
           \A i \in 1 .. Len(q) : w[q[i]] = 0
    PROVE  Over(q, w) = 0
<1> DEFINE Zero(t) == \A i \in 1 .. Len(t) : w[t[i]] = 0
           G == {n \in Nat : \A t \in Seq(S) : Len(t) = n /\ Zero(t) => Over(t, w) = 0}
<1>1. 0 \in G
  <2>1. ASSUME NEW t \in Seq(S), Len(t) = 0 PROVE Over(t, w) = 0
    <3>1. t = <<>>
      BY <2>1, EmptySeq
    <3> QED
      BY <3>1, OverEmpty
  <2> QED
    BY <2>1
<1>2. ASSUME NEW n \in G PROVE n + 1 \in G
  <2> SUFFICES ASSUME NEW t \in Seq(S), Len(t) = n + 1, Zero(t) PROVE Over(t, w) = 0
    OBVIOUS
  <2>1. t # <<>> /\ n \in Nat
    OBVIOUS
  <2>2. Head(t) = t[1] /\ 1 \in 1 .. Len(t)
    BY <2>1
  <2>3. /\ Tail(t) \in Seq(S) /\ Len(Tail(t)) = n
        /\ \A i \in 1 .. Len(Tail(t)) : Tail(t)[i] = t[i + 1]
    BY <2>1, HeadTailProperties
  <2>4. Zero(Tail(t))
    <3>1. \A i \in 1 .. Len(Tail(t)) : i + 1 \in 1 .. Len(t)
      BY <2>1, <2>3
    <3> QED
      BY <2>3, <3>1
  <2>5. Over(Tail(t), w) = 0
    BY <2>3, <2>4
  <2>6. Over(t, w) = w[Head(t)] + Over(Tail(t), w)
    BY <2>1, OverTail
  <2> QED
    BY <2>2, <2>5, <2>6
<1>3. G = Nat
  <2>1. G \in SUBSET Nat
    OBVIOUS
  <2> HIDE DEF G
  <2> QED
    BY <1>1, <1>2, <2>1, Induct
<1>4. Len(q) \in G
  <2>1. Len(q) \in Nat
    OBVIOUS
  <2> QED
    BY <1>3, <2>1
<1>5. Zero(q)
  OBVIOUS
<1> QED
  BY <1>4, <1>5

\* What a flow has in a queue, and all there is in it, as sums over the packets.
Weigh(S, f, b, c, s) ==
    /\ \A p \in S : /\ b[p] = (IF p.flow = f THEN p.size ELSE 0)
                    /\ c[p] = (IF p.flow = f THEN 1 ELSE 0)
                    /\ s[p] = p.size
    /\ \A q \in Seq(S) : /\ FlowBytes(q, f) = Over(q, b)
                         /\ FlowCount(q, f) = Over(q, c)
                         /\ SizeOf(q) = Over(q, s)

\* The sums of a flow's bytes, of its packets and of all bytes are sums of
\* weights of the packets.
LEMMA Weights ==
    ASSUME NEW S, NEW f, \A p \in S : p.size \in Nat
    PROVE  \E b, c, s \in [S -> Nat] : Weigh(S, f, b, c, s)
<1> DEFINE b == [p \in S |-> IF p.flow = f THEN p.size ELSE 0]
           c == [p \in S |-> IF p.flow = f THEN 1 ELSE 0]
           s == [p \in S |-> p.size]
<1>1. b \in [S -> Nat] /\ c \in [S -> Nat] /\ s \in [S -> Nat]
  OBVIOUS
<1>2. \A p \in S : b[p] = (IF p.flow = f THEN p.size ELSE 0)
  OBVIOUS
<1>3. \A p \in S : c[p] = (IF p.flow = f THEN 1 ELSE 0)
  OBVIOUS
<1>4. \A p \in S : s[p] = p.size
  OBVIOUS
<1>5. ASSUME NEW q \in Seq(S)
      PROVE  FlowBytes(q, f) = Over(q, b) /\ FlowCount(q, f) = Over(q, c)
             /\ SizeOf(q) = Over(q, s)
  <2> HIDE DEF b, c, s
  <2>1. \A i \in 1 .. Len(q) : q[i] \in S
    OBVIOUS
  <2>2. [i \in 1 .. Len(q) |-> IF q[i].flow = f THEN q[i].size ELSE 0]
        = [i \in 1 .. Len(q) |-> b[q[i]]]
    BY <1>2, <2>1
  <2>3. [i \in 1 .. Len(q) |-> IF q[i].flow = f THEN 1 ELSE 0]
        = [i \in 1 .. Len(q) |-> c[q[i]]]
    BY <1>3, <2>1
  <2>4. [i \in 1 .. Len(q) |-> q[i].size] = [i \in 1 .. Len(q) |-> s[q[i]]]
    BY <1>4, <2>1
  <2> QED
    BY <2>2, <2>3, <2>4 DEF FlowBytes, FlowCount, SizeOf, Over
<1> HIDE DEF b, c, s
<1>6. \A p \in S : /\ b[p] = (IF p.flow = f THEN p.size ELSE 0)
                   /\ c[p] = (IF p.flow = f THEN 1 ELSE 0)
                   /\ s[p] = p.size
  BY <1>2, <1>3, <1>4, Zenon
<1>7. \A q \in Seq(S) : /\ FlowBytes(q, f) = Over(q, b)
                        /\ FlowCount(q, f) = Over(q, c)
                        /\ SizeOf(q) = Over(q, s)
  BY <1>5, Zenon
<1>8. Weigh(S, f, b, c, s)
  BY <1>6, <1>7, Zenon DEF Weigh
<1> QED
  BY <1>1, <1>8, Zenon

\* The front of a concatenation is its first part.
LEMMA FrontOf ==
    ASSUME NEW S, NEW a \in Seq(S), NEW b \in Seq(S)
    PROVE  /\ a \o b \in Seq(S) /\ Len(a \o b) = Len(a) + Len(b)
           /\ SubSeq(a \o b, 1, Len(a)) = a
<1> DEFINE q == a \o b
<1>1. /\ q \in Seq(S) /\ Len(q) = Len(a) + Len(b)
      /\ \A i \in 1 .. Len(a) + Len(b) : q[i] = IF i <= Len(a) THEN a[i] ELSE b[i - Len(a)]
  BY ConcatProperties
<1> HIDE DEF q
<1>2. Len(a) \in Nat /\ Len(b) \in Nat /\ Len(a) \in 0 .. Len(q)
  BY <1>1
<1>3. /\ SubSeq(q, 1, Len(a)) \in Seq(S) /\ Len(SubSeq(q, 1, Len(a))) = Len(a)
      /\ \A i \in 1 .. Len(a) : SubSeq(q, 1, Len(a))[i] = q[i]
  BY <1>1, <1>2, Split
<1>4. \A i \in 1 .. Len(a) : q[i] = a[i]
  BY <1>1, <1>2
<1>5. SubSeq(q, 1, Len(a)) = a
  BY <1>3, <1>4, SeqEqual
<1> QED
  BY <1>1, <1>5 DEF q

----------------------------------------------------------------------------
(* The event list *)

\* t is q with e put in at place n.
Spliced(q, n, e, t) ==
    /\ n \in 1 .. Len(q) + 1 /\ Len(t) = Len(q) + 1 /\ t[n] = e
    /\ \A i \in 1 .. Len(q) : IF i < n THEN t[i] = q[i] ELSE t[i + 1] = q[i]
    /\ \A j \in 1 .. Len(t) :
          \/ j = n
          \/ j < n /\ j \in 1 .. Len(q) /\ t[j] = q[j]
          \/ n < j /\ j - 1 \in 1 .. Len(q) /\ t[j] = q[j - 1]

\* InsertAt of the community modules splits the sequence at the place and puts
\* the element between the parts.
LEMMA InsertAtSplices ==
    ASSUME NEW S, NEW q \in Seq(S), NEW e \in S, NEW n \in 1 .. Len(q) + 1
    PROVE  InsertAt(q, n, e) \in Seq(S) /\ Spliced(q, n, e, InsertAt(q, n, e))
  <1>1. Len(q) \in Nat /\ n \in Nat /\ n - 1 \in 0 .. Len(q) /\ (n - 1) + 1 = n
    OBVIOUS
  <1>2. PICK a, b : a = SubSeq(q, 1, n - 1) /\ b = SubSeq(q, n, Len(q))
    OBVIOUS
  <1>3. /\ a \in Seq(S) /\ Len(a) = n - 1 /\ \A i \in 1 .. n - 1 : a[i] = q[i]
        /\ b \in Seq(S) /\ Len(b) = Len(q) - (n - 1)
        /\ \A i \in 1 .. Len(q) - (n - 1) : b[i] = q[(n - 1) + i]
    <2>1. PICK m \in 0 .. Len(q) : m = n - 1 /\ m + 1 = n
      BY <1>1
    <2>2. /\ SubSeq(q, 1, m) \in Seq(S) /\ Len(SubSeq(q, 1, m)) = m
          /\ \A i \in 1 .. m : SubSeq(q, 1, m)[i] = q[i]
          /\ SubSeq(q, m + 1, Len(q)) \in Seq(S)
          /\ Len(SubSeq(q, m + 1, Len(q))) = Len(q) - m
          /\ \A i \in 1 .. Len(q) - m : SubSeq(q, m + 1, Len(q))[i] = q[m + i]
      BY Split
    <2>3. QED
      BY <1>2, <2>1, <2>2, Zenon
  <1>4. PICK t : t = (a \o <<e>>) \o b
    OBVIOUS
  <1>5. /\ t \in Seq(S) /\ Len(t) = Len(q) + 1 /\ t[n] = e
        /\ \A i \in 1 .. n - 1 : t[i] = a[i]
        /\ \A i \in 1 .. Len(b) : t[n + i] = b[i]
    <2>1. PICK c \in Seq(S) : c = <<e>> /\ Len(c) = 1 /\ c[1] = e
      <3>1. <<e>> \in Seq(S) /\ Len(<<e>>) = 1 /\ <<e>>[1] = e
        OBVIOUS
      <3>2. QED
        BY <3>1, Zenon
    <2>2. PICK u \in Seq(S) : u = a \o c
      BY <1>3, ConcatProperties
    <2>3. Len(u) = n /\ u[n] = e /\ \A i \in 1 .. n - 1 : u[i] = a[i]
      <3>1. /\ Len(a \o c) = Len(a) + Len(c)
            /\ \A i \in 1 .. Len(a) + Len(c) :
                  (a \o c)[i] = IF i <= Len(a) THEN a[i] ELSE c[i - Len(a)]
        BY <1>3, ConcatProperties
      <3>2. /\ Len(u) = Len(a) + Len(c)
            /\ \A i \in 1 .. Len(a) + Len(c) :
                  u[i] = IF i <= Len(a) THEN a[i] ELSE c[i - Len(a)]
        BY <2>2, <3>1, Zenon
      <3>3. n - Len(a) = 1 /\ n \in 1 .. Len(a) + Len(c) /\ ~(n <= Len(a))
        BY <1>1, <1>3, <2>1
      <3>4. u[n] = e
        BY <2>1, <3>2, <3>3, Zenon
      <3>5. QED
        BY <1>1, <1>3, <2>1, <3>2, <3>4
    <2>4. t = u \o b
      BY <1>4, <2>1, <2>2, Zenon
    <2>5. /\ u \o b \in Seq(S) /\ Len(u \o b) = Len(u) + Len(b)
          /\ \A i \in 1 .. Len(u) + Len(b) :
                (u \o b)[i] = IF i <= Len(u) THEN u[i] ELSE b[i - Len(u)]
      BY <1>3, ConcatProperties
    <2>6. /\ t \in Seq(S) /\ Len(t) = Len(u) + Len(b)
          /\ \A i \in 1 .. Len(u) + Len(b) :
                t[i] = IF i <= Len(u) THEN u[i] ELSE b[i - Len(u)]
      BY <2>4, <2>5, Zenon
    <2>7. \A i \in 1 .. n : t[i] = u[i]
      BY <1>1, <1>3, <2>3, <2>6
    <2>8. ASSUME NEW i \in 1 .. Len(b) PROVE t[n + i] = b[i]
      <3>1. PICK k : k = n + i
        OBVIOUS
      <3>2. k \in 1 .. Len(u) + Len(b) /\ ~(k <= Len(u)) /\ k - Len(u) = i
        BY <1>1, <1>3, <2>3, <3>1
      <3>3. t[k] = b[k - Len(u)]
        BY <2>6, <3>2
      <3>4. QED
        BY <3>1, <3>2, <3>3, Zenon
    <2>9. Len(t) = Len(q) + 1
      BY <1>1, <1>3, <2>3, <2>6
    <2>10. t[n] = e
      BY <1>1, <2>3, <2>7
    <2>11. \A i \in 1 .. n - 1 : t[i] = a[i]
      <3>1. \A i \in 1 .. n - 1 : i \in 1 .. n
        BY <1>1
      <3>2. QED
        BY <2>3, <2>7, <3>1
    <2>12. QED
      BY <2>6, <2>8, <2>9, <2>10, <2>11, Zenon
  <1>6. \A i \in 1 .. Len(q) : IF i < n THEN t[i] = q[i] ELSE t[i + 1] = q[i]
    <2> TAKE i \in 1 .. Len(q)
    <2>1. CASE i < n
      BY <1>1, <1>3, <1>5, <2>1
    <2>2. CASE ~(i < n)
      <3>1. PICK k : k = i - (n - 1)
        OBVIOUS
      <3>2. k \in 1 .. Len(b) /\ (n - 1) + k = i /\ n + k = i + 1
        BY <1>1, <1>3, <2>2, <3>1
      <3>3. t[n + k] = b[k] /\ b[k] = q[(n - 1) + k]
        BY <1>3, <1>5, <3>2
      <3>4. QED
        BY <2>2, <3>2, <3>3, Zenon
    <2>3. QED
      BY <2>1, <2>2
  <1>7. \A j \in 1 .. Len(t) :
           \/ j = n
           \/ j < n /\ j \in 1 .. Len(q) /\ t[j] = q[j]
           \/ n < j /\ j - 1 \in 1 .. Len(q) /\ t[j] = q[j - 1]
    <2> TAKE j \in 1 .. Len(t)
    <2>1. CASE j < n
      BY <1>1, <1>5, <1>6, <2>1
    <2>2. CASE n < j
      <3>1. PICK i \in 1 .. Len(q) : i = j - 1 /\ i + 1 = j /\ ~(i < n)
        BY <1>1, <1>5, <2>2
      <3>2. t[i + 1] = q[i]
        BY <1>6, <3>1, Zenon
      <3>3. QED
        BY <2>2, <3>1, <3>2, Zenon
    <2>3. QED
      BY <1>1, <1>5, <2>1, <2>2
  <1>8. InsertAt(q, n, e) = t
    BY <1>2, <1>4, Zenon DEF InsertAt
  <1>9. QED
    BY <1>5, <1>6, <1>7, <1>8, Zenon DEF Spliced

\* An event goes behind those of its time.
LEMMA InsertSplices ==
    ASSUME NEW S, \A e \in S : e.at \in Nat, NEW q \in Seq(S),
           NEW at \in Nat, NEW src, [at |-> at, src |-> src] \in S
    PROVE  /\ Insert(q, at, src) \in Seq(S)
           /\ \E n \in 1 .. Len(q) + 1 :
                 /\ Spliced(q, n, [at |-> at, src |-> src], Insert(q, at, src))
                 /\ \A i \in 1 .. n - 1 : q[i].at <= at
                 /\ n \in 1 .. Len(q) => at < q[n].at
  <1> DEFINE later == {i \in 1 .. Len(q) : q[i].at > at}
             n == IF later = {} THEN Len(q) + 1 ELSE Min(later)
             e == [at |-> at, src |-> src]
  <1>1. \A i \in 1 .. Len(q) : q[i] \in S /\ q[i].at \in Nat
    OBVIOUS
  <1>2. /\ n \in 1 .. Len(q) + 1 /\ \A i \in 1 .. n - 1 : q[i].at <= at
        /\ n \in 1 .. Len(q) => at < q[n].at
    <2>1. CASE later = {}
      <3>1. n = Len(q) + 1
        BY <2>1
      <3>2. \A i \in 1 .. Len(q) : q[i].at <= at
        BY <1>1, <2>1
      <3> HIDE DEF n
      <3>3. QED
        BY <3>1, <3>2
    <2>2. CASE later # {}
      <3>1. later \in SUBSET Nat
        OBVIOUS
      <3>2. \E x \in later : \A y \in later : x <= y
        BY <2>2, <3>1, Least
      <3>3. Min(later) \in later /\ \A y \in later : Min(later) <= y
        BY <3>2 DEF Min
      <3>4. n = Min(later)
        BY <2>2
      <3>5. n \in later /\ \A y \in later : n <= y
        BY <3>3, <3>4, Zenon
      <3> HIDE DEF n
      <3>6. n \in 1 .. Len(q) /\ at < q[n].at
        BY <1>1, <3>5
      <3>7. ASSUME NEW i \in 1 .. n - 1 PROVE q[i].at <= at
        <4>1. i \in 1 .. Len(q) /\ ~(n <= i)
          BY <3>6
        <4>2. i \notin later
          BY <3>5, <4>1
        <4>3. QED
          BY <1>1, <4>1, <4>2
      <3>8. QED
        BY <3>6, <3>7
    <2>3. QED
      BY <2>1, <2>2
  <1>3. Insert(q, at, src) = InsertAt(q, n, e)
    BY Zenon DEF Insert
  <1> HIDE DEF n, e
  <1>4. InsertAt(q, n, e) \in Seq(S) /\ Spliced(q, n, e, InsertAt(q, n, e))
    <2>1. e \in S
      BY DEF e
    <2>2. QED
      BY <1>2, <2>1, InsertAtSplices
  <1>5. QED
    BY <1>2, <1>3, <1>4, Zenon DEF e

----------------------------------------------------------------------------
(* What a step does to the identities in a queue *)

\* A packet arrives at a server that holds h and sends cur, as number n: all
\* that leaves h is lost, and cur is not lost.
Arrives(h, h1, n, cur, cur1, l, l1) ==
    /\ \E drops \in SUBSET ((h \cup {n}) \ {cur}) :
          h1 = (h \cup {n}) \ drops /\ l1 = l \cup drops
    /\ IF cur = 0 THEN IF h1 = {} THEN cur1 = 0 ELSE cur1 \in h1
       ELSE cur1 = cur

\* The server that holds h has sent cur, and goes on with a packet it holds.
Departs(h, h1, cur, cur1) ==
    /\ cur # 0 /\ h1 = h \ {cur}
    /\ IF h1 = {} THEN cur1 = 0 ELSE cur1 \in h1

IdsIn(q) == {q[i].id : i \in 1 .. Len(q)}

\* The waiting packets, and the one being sent, are numbered as they arrived
\* and no two of them have a number in common.
Serving(q, cur, n) ==
    /\ \A i \in 1 .. Len(q) : q[i].id \in 1 .. n /\ q[i].id # cur
    /\ \A i, j \in 1 .. Len(q) : q[i].id = q[j].id => i = j
    /\ cur \in 0 .. n

\* The identities of the packets behind the first k.
Dropped(q, k, drops) == drops = {q[i].id : i \in k + 1 .. Len(q)}

HeldIn(q, cur) == IdsIn(q) \cup (IF cur = 0 THEN {} ELSE {cur})

\* beginService, with the packets in q.
Begins(q, q1, cur1) ==
    IF q = <<>> THEN cur1 = 0 /\ q1 = q
    ELSE cur1 = Head(q).id /\ q1 = Tail(q)

\* A packet put into the queue is there, behind or ahead of the others.
LEMMA IdsSpliced ==
    ASSUME NEW S, NEW q \in Seq(S), NEW cur, NEW n \in Nat, Serving(q, cur, n),
           NEW p, p.id = n + 1, NEW at, NEW t \in Seq(S), Spliced(q, at, p, t)
    PROVE  IdsIn(t) = IdsIn(q) \cup {n + 1} /\ Serving(t, cur, n + 1)
  <1>1. /\ at \in 1 .. Len(q) + 1 /\ Len(t) = Len(q) + 1 /\ t[at] = p
        /\ \A i \in 1 .. Len(q) : IF i < at THEN t[i] = q[i] ELSE t[i + 1] = q[i]
        /\ \A j \in 1 .. Len(t) : \/ j = at
                                  \/ j < at /\ j \in 1 .. Len(q) /\ t[j] = q[j]
                                  \/ at < j /\ j - 1 \in 1 .. Len(q) /\ t[j] = q[j - 1]
    BY DEF Spliced
  <1>2. Len(q) \in Nat /\ at \in Nat /\ at \in 1 .. Len(t) /\ t[at].id = n + 1
    BY <1>1
  <1>3. /\ \A i \in 1 .. Len(q) : q[i].id \in 1 .. n /\ q[i].id # cur
        /\ \A i, j \in 1 .. Len(q) : q[i].id = q[j].id => i = j
        /\ cur \in 0 .. n
    BY DEF Serving
  <1>4. ASSUME NEW j \in 1 .. Len(t), j # at
        PROVE  \E i \in 1 .. Len(q) : t[j] = q[i] /\ i = IF j < at THEN j ELSE j - 1
    <2>1. \/ j < at /\ j \in 1 .. Len(q) /\ t[j] = q[j]
          \/ at < j /\ j - 1 \in 1 .. Len(q) /\ t[j] = q[j - 1]
      BY <1>1, <1>4
    <2>2. QED
      BY <1>2, <2>1
  <1>5. IdsIn(t) \subseteq IdsIn(q) \cup {n + 1}
    <2> SUFFICES ASSUME NEW j \in 1 .. Len(t)
                 PROVE  t[j].id \in IdsIn(q) \cup {n + 1}
      BY DEF IdsIn
    <2>1. CASE j = at
      BY <1>2, <2>1
    <2>2. CASE j # at
      <3>1. PICK i \in 1 .. Len(q) : t[j] = q[i]
        BY <1>4, <2>2
      <3>2. QED
        BY <3>1 DEF IdsIn
    <2>3. QED
      BY <2>1, <2>2
  <1>6. ASSUME NEW i \in 1 .. Len(q) PROVE \E j \in 1 .. Len(t) : t[j] = q[i]
    <2>1. i \in 1 .. Len(t) /\ i + 1 \in 1 .. Len(t)
      BY <1>1, <1>2
    <2>2. t[i] = q[i] \/ t[i + 1] = q[i]
      BY <1>1
    <2>3. QED
      BY <2>1, <2>2
  <1>7. IdsIn(q) \cup {n + 1} \subseteq IdsIn(t)
    BY <1>2, <1>6 DEF IdsIn
  <1>8. ASSUME NEW j \in 1 .. Len(t) PROVE t[j].id \in 1 .. n + 1 /\ t[j].id # cur
    <2>1. CASE j = at
      BY <1>2, <1>3, <2>1
    <2>2. CASE j # at
      BY <1>3, <1>4, <2>2
    <2>3. QED
      BY <2>1, <2>2
  <1>9. ASSUME NEW j \in 1 .. Len(t), NEW k \in 1 .. Len(t), t[j].id = t[k].id
        PROVE  j = k
    <2>1. ASSUME NEW a \in 1 .. Len(t), a # at PROVE t[a].id # n + 1
      BY <1>3, <1>4, <2>1
    <2>2. CASE j = at \/ k = at
      BY <1>2, <1>9, <2>1, <2>2
    <2>3. CASE j # at /\ k # at
      <3>1. PICK a \in 1 .. Len(q) : t[j] = q[a] /\ a = IF j < at THEN j ELSE j - 1
        BY <1>4, <2>3
      <3>2. PICK b \in 1 .. Len(q) : t[k] = q[b] /\ b = IF k < at THEN k ELSE k - 1
        BY <1>4, <2>3
      <3>3. a = b
        BY <1>3, <1>9, <3>1, <3>2
      <3>4. j \in Nat /\ k \in Nat
        BY <1>2
      <3>5. QED
        BY <1>2, <2>3, <3>1, <3>2, <3>3, <3>4
    <2>4. QED
      BY <2>2, <2>3
  <1>10. cur \in 0 .. n + 1
    BY <1>3
  <1>11. QED
    BY <1>5, <1>7, <1>8, <1>9, <1>10 DEF Serving

\* The identities of the packets kept are those of the queue without those of
\* the packets dropped from its end.
LEMMA IdsKept ==
    ASSUME NEW S, NEW t \in Seq(S), NEW cur, NEW n, Serving(t, cur, n),
           NEW k \in 0 .. Len(t), NEW drops, Dropped(t, k, drops)
    PROVE  /\ SubSeq(t, 1, k) \in Seq(S) /\ Serving(SubSeq(t, 1, k), cur, n)
           /\ IdsIn(SubSeq(t, 1, k)) = IdsIn(t) \ drops
           /\ drops \subseteq IdsIn(t)
  <1>1. PICK c \in Seq(S) : /\ c = SubSeq(t, 1, k) /\ Len(c) = k
                            /\ \A i \in 1 .. k : c[i] = t[i]
    <2>1. /\ SubSeq(t, 1, k) \in Seq(S) /\ Len(SubSeq(t, 1, k)) = k
          /\ \A i \in 1 .. k : SubSeq(t, 1, k)[i] = t[i]
      BY Split
    <2>2. QED
      BY <2>1, Zenon
  <1>2. /\ \A i \in 1 .. Len(t) : t[i].id \in 1 .. n /\ t[i].id # cur
        /\ \A i, j \in 1 .. Len(t) : t[i].id = t[j].id => i = j
        /\ cur \in 0 .. n /\ Len(t) \in Nat /\ k \in Nat
    BY DEF Serving
  <1>3. \A i \in 1 .. k : i \in 1 .. Len(t)
    BY <1>2
  <1>4. \A i \in k + 1 .. Len(t) : i \in 1 .. Len(t) /\ i \notin 1 .. k
    BY <1>2
  <1>5. \A i \in 1 .. Len(t) : i \in 1 .. k \/ i \in k + 1 .. Len(t)
    BY <1>2
  <1>6. drops \subseteq IdsIn(t)
    BY <1>4 DEF IdsIn, Dropped
  <1>7. IdsIn(c) \subseteq IdsIn(t) \ drops
    <2> SUFFICES ASSUME NEW i \in 1 .. k PROVE t[i].id \in IdsIn(t) /\ t[i].id \notin drops
      BY <1>1 DEF IdsIn
    <2>1. QED
      BY <1>2, <1>3, <1>4 DEF IdsIn, Dropped
  <1>8. IdsIn(t) \ drops \subseteq IdsIn(c)
    <2> SUFFICES ASSUME NEW i \in 1 .. Len(t), t[i].id \notin drops
                 PROVE  t[i].id \in IdsIn(c)
      BY DEF IdsIn
    <2>1. i \in 1 .. k
      BY <1>5 DEF Dropped
    <2>2. QED
      BY <1>1, <2>1 DEF IdsIn
  <1>9. Serving(c, cur, n)
    BY <1>1, <1>2, <1>3 DEF Serving
  <1>10. QED
    BY <1>1, <1>6, <1>7, <1>8, <1>9

\* The packet at the head begins to be sent; what is held stays the same.
LEMMA IdsBegun ==
    ASSUME NEW S, NEW q \in Seq(S), NEW cur, NEW n \in Nat, Serving(q, cur, n),
           NEW q1, NEW cur1, Begins(q, q1, cur1)
    PROVE  /\ q1 \in Seq(S) /\ Serving(q1, cur1, n) /\ HeldIn(q1, cur1) = IdsIn(q)
           /\ IF IdsIn(q) = {} THEN cur1 = 0 ELSE cur1 \in IdsIn(q)
  <1>1. CASE q = <<>>
    BY <1>1 DEF Begins, Serving, HeldIn, IdsIn
  <1>2. CASE q # <<>>
    <2>1. /\ q1 = Tail(q) /\ cur1 = q[1].id /\ 1 \in 1 .. Len(q)
          /\ q1 \in Seq(S) /\ Len(q1) = Len(q) - 1 /\ Len(q) \in Nat
          /\ \A i \in 1 .. Len(q1) : q1[i] = q[i + 1]
      BY <1>2, HeadTailProperties DEF Begins
    <2>2. /\ \A i \in 1 .. Len(q) : q[i].id \in 1 .. n
          /\ \A i, j \in 1 .. Len(q) : q[i].id = q[j].id => i = j
      BY DEF Serving
    <2>3. \A i \in 1 .. Len(q1) : i + 1 \in 1 .. Len(q) /\ i + 1 # 1
      BY <2>1
    <2>4. cur1 \in 1 .. n
      BY <2>1, <2>2
    <2>5. \A i \in 1 .. Len(q1) : q1[i].id \in 1 .. n /\ q1[i].id # cur1
      BY <2>1, <2>2, <2>3
    <2>6. ASSUME NEW i \in 1 .. Len(q1), NEW j \in 1 .. Len(q1), q1[i].id = q1[j].id
          PROVE  i = j
      <3>1. i + 1 = j + 1
        BY <2>1, <2>2, <2>3, <2>6
      <3>2. QED
        BY <3>1
    <2>7. Serving(q1, cur1, n)
      BY <2>4, <2>5, <2>6 DEF Serving
    <2>8. IdsIn(q) = IdsIn(q1) \cup {cur1}
      <3>1. ASSUME NEW i \in 1 .. Len(q) PROVE q[i].id \in IdsIn(q1) \cup {cur1}
        <4>1. i = 1 \/ (i - 1 \in 1 .. Len(q1) /\ (i - 1) + 1 = i)
          BY <2>1
        <4>2. i # 1 => q1[i - 1] = q[i]
          BY <2>1, <4>1
        <4>3. QED
          BY <2>1, <4>1, <4>2 DEF IdsIn
      <3>2. \A i \in 1 .. Len(q1) : q1[i].id \in IdsIn(q)
        BY <2>1, <2>3 DEF IdsIn
      <3>3. cur1 \in IdsIn(q)
        BY <2>1 DEF IdsIn
      <3>4. QED
        BY <3>1, <3>2, <3>3 DEF IdsIn
    <2>9. cur1 # 0
      BY <2>4
    <2>10. QED
      BY <2>1, <2>7, <2>8, <2>9 DEF HeldIn
  <1>3. QED
    BY <1>1, <1>2

\* A packet put into the queue, drops from its end, and the service that may
\* begin, are an arrival at a server.
LEMMA QueueTakes ==
    ASSUME NEW S, NEW q \in Seq(S), NEW cur, NEW n \in Nat, Serving(q, cur, n),
           NEW p, p.id = n + 1, NEW at, NEW t \in Seq(S), Spliced(q, at, p, t),
           NEW k \in 0 .. Len(t), NEW drops, Dropped(t, k, drops),
           NEW q1, NEW cur1,
           \/ cur = 0 /\ q = <<>> /\ Begins(SubSeq(t, 1, k), q1, cur1)
           \/ q1 = SubSeq(t, 1, k) /\ cur1 = cur,
           NEW l
    PROVE  /\ q1 \in Seq(S) /\ Serving(q1, cur1, n + 1)
           /\ cur # 0 \/ Begins(SubSeq(t, 1, k), q1, cur1)
              => Arrives(HeldIn(q, cur), HeldIn(q1, cur1), n + 1, cur, cur1,
                         l, l \cup drops)
  <1>1. IdsIn(t) = IdsIn(q) \cup {n + 1} /\ Serving(t, cur, n + 1) /\ n + 1 \in Nat
    BY IdsSpliced
  <1>2. PICK c : c = SubSeq(t, 1, k)
    OBVIOUS
  <1>3. /\ c \in Seq(S) /\ Serving(c, cur, n + 1)
        /\ IdsIn(c) = IdsIn(t) \ drops /\ drops \subseteq IdsIn(t)
    <2>1. PICK m : m = n + 1 /\ Serving(t, cur, m)
      BY <1>1
    <2>2. /\ SubSeq(t, 1, k) \in Seq(S) /\ Serving(SubSeq(t, 1, k), cur, m)
          /\ IdsIn(SubSeq(t, 1, k)) = IdsIn(t) \ drops /\ drops \subseteq IdsIn(t)
      BY <2>1, IdsKept, Zenon
    <2>3. QED
      BY <1>2, <2>1, <2>2, Zenon
  <1>4. cur \notin IdsIn(t)
    BY <1>1 DEF Serving, IdsIn
  <1>5. Begins(c, q1, cur1)
           => /\ q1 \in Seq(S) /\ Serving(q1, cur1, n + 1) /\ HeldIn(q1, cur1) = IdsIn(c)
              /\ IF IdsIn(c) = {} THEN cur1 = 0 ELSE cur1 \in IdsIn(c)
    BY <1>1, <1>3, IdsBegun, Zenon
  <1>6. \/ cur = 0 /\ q = <<>> /\ Begins(c, q1, cur1)
        \/ q1 = c /\ cur1 = cur
    BY <1>2, Zenon
  <1>7. q1 \in Seq(S) /\ Serving(q1, cur1, n + 1)
    BY <1>3, <1>5, <1>6
  <1>8. CASE cur = 0 /\ Begins(c, q1, cur1)
    <2>1. HeldIn(q, cur) = IdsIn(q)
      BY <1>8 DEF HeldIn
    <2>2. drops \subseteq (IdsIn(q) \cup {n + 1}) \ {cur}
      BY <1>1, <1>3, <1>4
    <2>3. IdsIn(c) = (IdsIn(q) \cup {n + 1}) \ drops
      BY <1>1, <1>3
    <2>4. Arrives(IdsIn(q), IdsIn(c), n + 1, cur, cur1, l, l \cup drops)
      BY <1>5, <1>8, <2>2, <2>3 DEF Arrives
    <2>5. QED
      BY <1>5, <1>7, <1>8, <2>1, <2>4, Zenon
  <1>9. CASE cur # 0
    <2>1. q1 = c /\ cur1 = cur
      BY <1>6, <1>9
    <2>2. HeldIn(q, cur) = IdsIn(q) \cup {cur} /\ HeldIn(q1, cur1) = IdsIn(c) \cup {cur}
      BY <1>9, <2>1 DEF HeldIn
    <2>3. drops \subseteq ((IdsIn(q) \cup {cur}) \cup {n + 1}) \ {cur}
      BY <1>1, <1>3, <1>4
    <2>4. IdsIn(c) \cup {cur} = ((IdsIn(q) \cup {cur}) \cup {n + 1}) \ drops
      BY <1>1, <1>3, <1>4
    <2>5. Arrives(IdsIn(q) \cup {cur}, IdsIn(c) \cup {cur}, n + 1, cur, cur1,
                  l, l \cup drops)
      BY <1>9, <2>1, <2>3, <2>4 DEF Arrives
    <2>6. QED
      BY <1>7, <2>2, <2>5, Zenon
  <1>10. QED
    BY <1>2, <1>7, <1>8, <1>9

\* The end of a service, with the one that begins, is a departure from a server.
LEMMA QueueGives ==
    ASSUME NEW S, NEW q \in Seq(S), NEW cur, NEW n \in Nat, Serving(q, cur, n),
           cur # 0, NEW q1, NEW cur1, Begins(q, q1, cur1)
    PROVE  /\ q1 \in Seq(S) /\ Serving(q1, cur1, n)
           /\ Departs(HeldIn(q, cur), HeldIn(q1, cur1), cur, cur1)
  <1>1. /\ q1 \in Seq(S) /\ Serving(q1, cur1, n) /\ HeldIn(q1, cur1) = IdsIn(q)
        /\ IF IdsIn(q) = {} THEN cur1 = 0 ELSE cur1 \in IdsIn(q)
    BY IdsBegun, Zenon
  <1>2. cur \notin IdsIn(q)
    BY DEF Serving, IdsIn
  <1>3. HeldIn(q, cur) \ {cur} = IdsIn(q)
    BY <1>2 DEF HeldIn
  <1>4. QED
    BY <1>1, <1>3 DEF Departs

----------------------------------------------------------------------------
(* Queues of first-in first-out as a server *)

\* The identities of all that waits in the queues of D.
PoolIds(pk, D) == UNION {{pk[q][i].id : i \in 1 .. Len(pk[q])} : q \in D}

Unique(pk, D, n) ==
    /\ \A q \in D : \A i \in 1 .. Len(pk[q]) : pk[q][i].id \in 1 .. n
    /\ \A q, r \in D : \A i \in 1 .. Len(pk[q]), j \in 1 .. Len(pk[r]) :
          pk[q][i].id = pk[r][j].id => q = r /\ i = j

\* A server sends a packet that it holds, when it holds any.
Feeds(h, cur) == IF h = {} THEN cur = 0 ELSE cur \in h

\* A packet with identity x waits in one of the queues of D.
InPool(pk, D, x) == \E q \in D : \E i \in 1 .. Len(pk[q]) : x = pk[q][i].id

\* What is in the pool of some queues.
LEMMA PoolHas ==
    ASSUME NEW pk, NEW D, NEW x
    PROVE  x \in PoolIds(pk, D) <=> InPool(pk, D, x)
  BY DEF PoolIds, InPool

\* Every packet of the queues is in the pool.
LEMMA PoolOf ==
    ASSUME NEW pk, NEW D, NEW q \in D, NEW i \in 1 .. Len(pk[q])
    PROVE  pk[q][i].id \in PoolIds(pk, D)
  BY DEF PoolIds

\* The pool is empty when the queues are, and has the oldest packet of each.
LEMMA PoolHeads ==
    ASSUME NEW S, NEW D, NEW pk \in [D -> Seq(S)]
    PROVE  /\ PoolIds(pk, D) = {} <=> \A q \in D : pk[q] = <<>>
           /\ \A q \in D : pk[q] # <<>> => Head(pk[q]).id \in PoolIds(pk, D)
  <1>1. \A q \in D : pk[q] \in Seq(S)
    OBVIOUS
  <1>2. ASSUME NEW q \in D, pk[q] # <<>> PROVE Head(pk[q]).id \in PoolIds(pk, D)
    <2>1. Head(pk[q]) = pk[q][1] /\ 1 \in 1 .. Len(pk[q])
      BY <1>1, <1>2
    <2>2. QED
      BY <2>1, PoolOf
  <1>3. ASSUME \A q \in D : pk[q] = <<>> PROVE PoolIds(pk, D) = {}
    <2>1. \A q \in D : \A i : i \notin 1 .. Len(pk[q])
      BY <1>3
    <2>2. \A x : ~InPool(pk, D, x)
      BY <2>1 DEF InPool
    <2>3. QED
      BY <2>2, PoolHas
  <1>4. QED
    BY <1>2, <1>3

\* A packet is put behind the others of queue d, or the oldest is taken.
PutIn(pk, d, p, pt) == pt = [pk EXCEPT ![d] = Append(pk[d], p)]

TakenOut(pk, d, pt) == pt = [pk EXCEPT ![d] = Tail(pk[d])]

\* A packet at the end of a queue.
LEMMA PoolAdds ==
    ASSUME NEW S, NEW D, NEW pk \in [D -> Seq(S)], NEW n \in Nat, Unique(pk, D, n),
           NEW d \in D, NEW p \in S, p.id = n + 1,
           NEW pt, PutIn(pk, d, p, pt)
    PROVE  /\ pt \in [D -> Seq(S)] /\ Unique(pt, D, n + 1)
           /\ PoolIds(pt, D) = PoolIds(pk, D) \cup {n + 1}
  <1>1. pk[d] \in Seq(S) /\ Len(pk[d]) \in Nat
    OBVIOUS
  <1>2. PICK z : z = Append(pk[d], p)
    OBVIOUS
  <1>3. /\ z \in Seq(S) /\ Len(z) = Len(pk[d]) + 1
        /\ z[Len(pk[d]) + 1] = p
        /\ \A i \in 1 .. Len(pk[d]) : z[i] = pk[d][i]
    BY <1>1, <1>2
  <1>4. pt = [pk EXCEPT ![d] = z]
    BY <1>2 DEF PutIn
  <1>5. pt \in [D -> Seq(S)] /\ pt[d] = z /\ \A q \in D : q # d => pt[q] = pk[q]
    BY <1>3, <1>4
  <1>6. ASSUME NEW q \in D, NEW i \in 1 .. Len(pt[q])
        PROVE  \/ q = d /\ i = Len(pk[d]) + 1 /\ pt[q][i].id = n + 1
               \/ i \in 1 .. Len(pk[q]) /\ pt[q][i] = pk[q][i]
    <2>1. CASE q = d
      <3>1. i \in 1 .. Len(pk[d]) \/ i = Len(pk[d]) + 1
        BY <1>1, <1>3, <1>5, <2>1
      <3>2. QED
        BY <1>3, <1>5, <2>1, <3>1
    <2>2. QED
      BY <1>5, <2>1
  <1>7. ASSUME NEW q \in D, NEW i \in 1 .. Len(pk[q])
        PROVE  i \in 1 .. Len(pt[q]) /\ pt[q][i] = pk[q][i]
    <2>1. CASE q = d
      BY <1>1, <1>3, <1>5, <2>1
    <2>2. QED
      BY <1>5, <2>1
  <1>8. Len(pk[d]) + 1 \in 1 .. Len(pt[d]) /\ pt[d][Len(pk[d]) + 1].id = n + 1
    BY <1>1, <1>3, <1>5
  <1>9. PoolIds(pt, D) = PoolIds(pk, D) \cup {n + 1}
    <2>1. ASSUME NEW x \in PoolIds(pt, D) PROVE x \in PoolIds(pk, D) \cup {n + 1}
      <3>1. PICK q \in D : \E i \in 1 .. Len(pt[q]) : x = pt[q][i].id
        <4>1. InPool(pt, D, x)
          BY <2>1, PoolHas
        <4>2. QED
          BY <4>1, Zenon DEF InPool
      <3>2. PICK i \in 1 .. Len(pt[q]) : x = pt[q][i].id
        BY <3>1
      <3>3. QED
        BY <1>6, <3>2, PoolOf
    <2>2. ASSUME NEW x \in PoolIds(pk, D) PROVE x \in PoolIds(pt, D)
      <3>1. PICK q \in D : \E i \in 1 .. Len(pk[q]) : x = pk[q][i].id
        <4>1. InPool(pk, D, x)
          BY <2>2, PoolHas
        <4>2. QED
          BY <4>1, Zenon DEF InPool
      <3>2. PICK i \in 1 .. Len(pk[q]) : x = pk[q][i].id
        BY <3>1
      <3>3. QED
        BY <1>7, <3>2, PoolOf
    <2>3. n + 1 \in PoolIds(pt, D)
      <3>1. InPool(pt, D, n + 1)
        BY <1>8 DEF InPool
      <3>2. QED
        BY <3>1, PoolHas
    <2>4. QED
      BY <2>1, <2>2, <2>3
  <1>10. \A q \in D : \A i \in 1 .. Len(pk[q]) :
           pk[q][i].id \in 1 .. n /\ pk[q][i].id # n + 1 /\ pk[q][i].id \in 1 .. n + 1
    <2>1. \A x \in 1 .. n : x # n + 1 /\ x \in 1 .. n + 1
      OBVIOUS
    <2>2. QED
      BY <2>1 DEF Unique
  <1>11. \A q \in D : \A i \in 1 .. Len(pt[q]) : pt[q][i].id \in 1 .. n + 1
    <2>1. n + 1 \in 1 .. n + 1
      OBVIOUS
    <2>2. QED
      BY <1>6, <1>10, <2>1
  <1>12. ASSUME NEW q \in D, NEW r \in D, NEW i \in 1 .. Len(pt[q]),
                NEW j \in 1 .. Len(pt[r]), pt[q][i].id = pt[r][j].id
         PROVE  q = r /\ i = j
    <2>1. \/ q = d /\ i = Len(pk[d]) + 1 /\ pt[q][i].id = n + 1
          \/ i \in 1 .. Len(pk[q]) /\ pt[q][i] = pk[q][i]
      BY <1>6
    <2>2. \/ r = d /\ j = Len(pk[d]) + 1 /\ pt[r][j].id = n + 1
          \/ j \in 1 .. Len(pk[r]) /\ pt[r][j] = pk[r][j]
      BY <1>6
    <2>3. CASE pt[q][i].id = n + 1
      BY <1>10, <1>12, <2>1, <2>2, <2>3
    <2>4. CASE pt[q][i].id # n + 1
      <3>1. /\ i \in 1 .. Len(pk[q]) /\ j \in 1 .. Len(pk[r])
            /\ pk[q][i].id = pk[r][j].id
        BY <1>12, <2>1, <2>2, <2>4
      <3>2. QED
        BY <3>1 DEF Unique
    <2>5. QED
      BY <2>3, <2>4
  <1>13. QED
    BY <1>5, <1>9, <1>11, <1>12 DEF Unique

\* The oldest packet of a queue leaves.
LEMMA PoolRemoves ==
    ASSUME NEW S, NEW D, NEW pk \in [D -> Seq(S)], NEW n, Unique(pk, D, n),
           NEW d \in D, pk[d] # <<>>, NEW pt, TakenOut(pk, d, pt)
    PROVE  /\ pt \in [D -> Seq(S)] /\ Unique(pt, D, n)
           /\ PoolIds(pt, D) = PoolIds(pk, D) \ {Head(pk[d]).id}
  <1>1. pk[d] \in Seq(S) /\ Len(pk[d]) \in Nat
    OBVIOUS
  <1>2. PICK z \in Seq(S) : /\ z = Tail(pk[d]) /\ Len(z) = Len(pk[d]) - 1
                            /\ \A i \in 1 .. Len(z) : z[i] = pk[d][i + 1]
    BY <1>1, HeadTailProperties
  <1>3. Head(pk[d]) = pk[d][1] /\ 1 \in 1 .. Len(pk[d])
    BY <1>1
  <1>4. pt = [pk EXCEPT ![d] = z]
    BY <1>2 DEF TakenOut
  <1>5. pt \in [D -> Seq(S)] /\ pt[d] = z /\ \A q \in D : q # d => pt[q] = pk[q]
    BY <1>4
  <1>6. ASSUME NEW q \in D, NEW i \in 1 .. Len(pt[q])
        PROVE  \E j \in 1 .. Len(pk[q]) : /\ pt[q][i] = pk[q][j]
                                          /\ j = (IF q = d THEN i + 1 ELSE i)
    <2>1. CASE q = d
      <3>1. i \in 1 .. Len(z) /\ i + 1 \in 1 .. Len(pk[d])
        BY <1>1, <1>2, <1>5, <2>1
      <3>2. QED
        BY <1>2, <1>5, <2>1, <3>1
    <2>2. QED
      BY <1>5, <2>1
  <1>7. /\ \A q \in D : \A i \in 1 .. Len(pk[q]) : pk[q][i].id \in 1 .. n
        /\ \A q, r \in D : \A i \in 1 .. Len(pk[q]), j \in 1 .. Len(pk[r]) :
              pk[q][i].id = pk[r][j].id => q = r /\ i = j
    BY DEF Unique
  <1>8. Unique(pt, D, n)
    <2>1. ASSUME NEW q \in D, NEW i \in 1 .. Len(pt[q]) PROVE pt[q][i].id \in 1 .. n
      <3>1. PICK j \in 1 .. Len(pk[q]) : pt[q][i] = pk[q][j]
        BY <1>6
      <3>2. pk[q][j].id \in 1 .. n
        BY <1>7
      <3>3. QED
        BY <3>1, <3>2
    <2>2. ASSUME NEW q \in D, NEW r \in D, NEW i \in 1 .. Len(pt[q]),
                 NEW j \in 1 .. Len(pt[r]), pt[q][i].id = pt[r][j].id
          PROVE  q = r /\ i = j
      <3>1. PICK a \in 1 .. Len(pk[q]) : /\ pt[q][i] = pk[q][a]
                                         /\ a = (IF q = d THEN i + 1 ELSE i)
        BY <1>6
      <3>2. PICK b \in 1 .. Len(pk[r]) : /\ pt[r][j] = pk[r][b]
                                         /\ b = (IF r = d THEN j + 1 ELSE j)
        BY <1>6
      <3>3. q = r /\ a = b
        BY <1>7, <2>2, <3>1, <3>2
      <3>4. i \in Int /\ j \in Int
        OBVIOUS
      <3>5. QED
        BY <3>1, <3>2, <3>3, <3>4
    <2>3. QED
      BY <2>1, <2>2 DEF Unique
  <1>9. ASSUME NEW x \in PoolIds(pt, D)
        PROVE  x \in PoolIds(pk, D) /\ x # Head(pk[d]).id
    <2>1. PICK q \in D : \E i \in 1 .. Len(pt[q]) : x = pt[q][i].id
      <3>1. InPool(pt, D, x)
        BY <1>9, PoolHas
      <3>2. QED
        BY <3>1, Zenon DEF InPool
    <2>2. PICK i \in 1 .. Len(pt[q]) : x = pt[q][i].id
      BY <2>1
    <2>3. PICK a \in 1 .. Len(pk[q]) : /\ pt[q][i] = pk[q][a]
                                       /\ a = (IF q = d THEN i + 1 ELSE i)
      BY <1>6
    <2>4. q = d => a # 1
      BY <2>3
    <2>5. x # Head(pk[d]).id
      BY <1>3, <1>7, <2>2, <2>3, <2>4
    <2>6. QED
      BY <2>2, <2>3, <2>5, PoolOf
  <1>10. ASSUME NEW x \in PoolIds(pk, D), x # Head(pk[d]).id
         PROVE  x \in PoolIds(pt, D)
    <2>1. PICK q \in D : \E i \in 1 .. Len(pk[q]) : x = pk[q][i].id
      <3>1. InPool(pk, D, x)
        BY <1>10, PoolHas
      <3>2. QED
        BY <3>1, Zenon DEF InPool
    <2>2. PICK i \in 1 .. Len(pk[q]) : x = pk[q][i].id
      BY <2>1
    <2>3. CASE q = d
      <3>1. i # 1
        BY <1>3, <1>10, <2>2, <2>3
      <3>2. i - 1 \in 1 .. Len(z) /\ (i - 1) + 1 = i
        BY <1>1, <1>2, <2>3, <3>1
      <3>3. z[i - 1] = pk[d][i]
        BY <1>2, <3>2
      <3>4. QED
        BY <1>5, <2>2, <2>3, <3>2, <3>3, PoolOf
    <2>4. CASE q # d
      BY <1>5, <2>2, <2>4, PoolOf
    <2>5. QED
      BY <2>3, <2>4
  <1>11. QED
    BY <1>5, <1>8, <1>9, <1>10

\* Identities of a pool are those of packets that have arrived.
LEMMA PoolNumbers ==
    ASSUME NEW pk, NEW D, NEW n \in Nat, Unique(pk, D, n)
    PROVE  0 \notin PoolIds(pk, D) /\ n + 1 \notin PoolIds(pk, D)
  <1>1. \A x \in PoolIds(pk, D) : x \in 1 .. n
    BY PoolHas DEF Unique, InPool
  <1>2. QED
    BY <1>1

\* A packet that waits, or one that is dropped, is an arrival at a server; the
\* end of a service is a departure.
LEMMA PoolServes ==
    ASSUME NEW h, NEW n, NEW cur, NEW cur1, NEW l, 0 \notin h, n \notin h, n # 0,
           Feeds(h, cur)
    PROVE  /\ Arrives(h, h, n, cur, cur, l, l \cup {n})
           /\ Feeds(h \cup {n}, cur1) /\ (h # {} => cur1 = cur)
                 => Arrives(h, h \cup {n}, n, cur, cur1, l, l)
           /\ cur # 0 /\ Feeds(h \ {cur}, cur1) => Departs(h, h \ {cur}, cur, cur1)
  <1>1. Arrives(h, h, n, cur, cur, l, l \cup {n})
    <2>1. {n} \subseteq (h \cup {n}) \ {cur}
      BY DEF Feeds
    <2>2. h = (h \cup {n}) \ {n}
      OBVIOUS
    <2>3. IF cur = 0 THEN IF h = {} THEN cur = 0 ELSE cur \in h ELSE cur = cur
      BY DEF Feeds
    <2>4. QED
      BY <2>1, <2>2, <2>3 DEF Arrives
  <1>2. ASSUME Feeds(h \cup {n}, cur1), h # {} => cur1 = cur
        PROVE  Arrives(h, h \cup {n}, n, cur, cur1, l, l)
    <2>1. {} \subseteq (h \cup {n}) \ {cur}
      OBVIOUS
    <2>2. h \cup {n} = (h \cup {n}) \ {} /\ l = l \cup {}
      OBVIOUS
    <2>3. IF cur = 0 THEN IF h \cup {n} = {} THEN cur1 = 0 ELSE cur1 \in h \cup {n}
          ELSE cur1 = cur
      BY <1>2 DEF Feeds
    <2>4. QED
      BY <2>1, <2>2, <2>3 DEF Arrives
  <1>3. cur # 0 /\ Feeds(h \ {cur}, cur1) => Departs(h, h \ {cur}, cur, cur1)
    BY DEF Departs, Feeds
  <1>4. QED
    BY <1>1, <1>2, <1>3

\* A packet that waits is an arrival, whatever queue it waits in.
LEMMA PoolGrows ==
    ASSUME NEW S, NEW D, NEW pk \in [D -> Seq(S)], NEW n \in Nat, Unique(pk, D, n),
           NEW cur, NEW cur1, NEW l, NEW q \in D, NEW p \in S, p.id = n + 1,
           NEW pt, PutIn(pk, q, p, pt), Feeds(PoolIds(pk, D), cur),
           Feeds(PoolIds(pt, D), cur1), ~(\A r \in D : pk[r] = <<>>) => cur1 = cur
    PROVE  /\ Unique(pt, D, n + 1)
           /\ Arrives(PoolIds(pk, D), PoolIds(pt, D), n + 1, cur, cur1, l, l)
  <1>1. Unique(pt, D, n + 1) /\ PoolIds(pt, D) = PoolIds(pk, D) \cup {n + 1}
    BY PoolAdds
  <1>2. PoolIds(pk, D) # {} => cur1 = cur
    BY PoolHeads
  <1>3. 0 \notin PoolIds(pk, D) /\ n + 1 \notin PoolIds(pk, D) /\ n + 1 # 0
    BY PoolNumbers
  <1>4. PICK h : h = PoolIds(pk, D)
    OBVIOUS
  <1>5. Arrives(h, h \cup {n + 1}, n + 1, cur, cur1, l, l)
    BY <1>1, <1>2, <1>3, <1>4, PoolServes
  <1>6. QED
    BY <1>1, <1>4, <1>5

\* The oldest packet of a queue that leaves, sent, is a departure.
LEMMA PoolShrinks ==
    ASSUME NEW S, NEW D, NEW pk \in [D -> Seq(S)], NEW n \in Nat, Unique(pk, D, n),
           NEW cur1, NEW q \in D, pk[q] # <<>>, Head(pk[q]).id # 0,
           NEW pt, TakenOut(pk, q, pt), Feeds(PoolIds(pt, D), cur1)
    PROVE  /\ Unique(pt, D, n)
           /\ Departs(PoolIds(pk, D), PoolIds(pt, D), Head(pk[q]).id, cur1)
  <1>1. Unique(pt, D, n) /\ PoolIds(pt, D) = PoolIds(pk, D) \ {Head(pk[q]).id}
    BY PoolRemoves
  <1>2. QED
    BY <1>1 DEF Departs, Feeds
=============================================================================
