--------------------------- MODULE TestbedProofs ---------------------------
(***************************************************************************)
(* What holds of the flow generator and of the testbeds for every workload,*)
(* every number of flows and every size of the network.  The generator     *)
(* keeps books: the table of flows, the set of live ones, the counters of  *)
(* the summary and the arrivals still to come agree.  The routes that the  *)
(* testbeds build connect their ends, and CONGA always takes one core.     *)
(***************************************************************************)
EXTENDS Testbed, CommonLemmas, FiniteSetTheorems

----------------------------------------------------------------------------
(* The books of the generator *)

\* The sources of events, the events, and the entries of the table of flows.
Sources == {Generator, Sampler} \cup {Flow(id) : id \in Nat}
Event == [at : Nat, src : Sources]
Entry == [size : Nat, start : Nat, end : Nat, finished : BOOLEAN]
\* A flow is live until it finishes.
Live == {"waiting", "running"}
Done == {"finished", "deleted"}

\* The finished flows of a table, the small ones among them, and the
\* completion time of each flow, 0 while it runs.
FinishedOf(m) == {id \in 1 .. Len(m) : m[id].finished}
SmallOf(m) == {id \in FinishedOf(m) : m[id].size < SMALL_TH}
TimesOf(m) == [id \in 1 .. Len(m) |->
                  IF m[id].finished THEN m[id].end - m[id].start ELSE 0]

\* The table, the states and the live set of the flows agree.
Listed(m, f, l) ==
    /\ m \in Seq(Entry) /\ f \in Seq(Live \cup Done) /\ Len(f) = Len(m)
    /\ \A id \in 1 .. Len(m) : m[id].finished <=> f[id] \in Done
    /\ l = {id \in 1 .. Len(m) : f[id] \in Live}

\* The counters and the sum of the summary are those of the table.
Counted(m, n, sum, small, large) ==
    /\ n = Cardinality(FinishedOf(m)) /\ n \in Nat
    /\ small = Cardinality(SmallOf(m)) /\ small \in Nat
    /\ large = n - small
    /\ sum = Total(TimesOf(m))

\* What the counts are taken over is finite: the flows of a table are its places.
LEMMA FiniteBooks ==
    ASSUME NEW m \in Seq(Entry)
    PROVE  /\ IsFiniteSet(FinishedOf(m)) /\ Cardinality(FinishedOf(m)) \in Nat
           /\ IsFiniteSet(SmallOf(m)) /\ Cardinality(SmallOf(m)) \in Nat
           /\ TimesOf(m) \in Seq(Int) /\ Len(TimesOf(m)) = Len(m)
<1>1. Len(m) \in Nat /\ IsFiniteSet(1 .. Len(m))
  BY FS_Interval
<1>2. FinishedOf(m) \in SUBSET (1 .. Len(m)) /\ SmallOf(m) \in SUBSET (1 .. Len(m))
  BY DEF FinishedOf, SmallOf
<1>3. \A id \in 1 .. Len(m) : m[id] \in Entry
  OBVIOUS
<1>4. \A id \in 1 .. Len(m) : m[id].end \in Int /\ m[id].start \in Int
  BY <1>3 DEF Entry
<1>5. \A id \in 1 .. Len(m) :
         (IF m[id].finished THEN m[id].end - m[id].start ELSE 0) \in Int
  BY <1>4
<1>6. TimesOf(m) \in Seq(Int) /\ Len(TimesOf(m)) = Len(m)
  BY <1>1, <1>5 DEF TimesOf
<1> QED
  BY <1>1, <1>2, <1>6, FS_Subset, FS_CardinalityType

\* The generator starts with an empty table and counters of 0.
LEMMA CountedEmpty == Counted(<<>>, 0, 0, 0, 0)
<1>1. FinishedOf(<<>>) = {} /\ SmallOf(<<>>) = {}
  BY DEF FinishedOf, SmallOf
<1>2. TimesOf(<<>>) = <<>>
  BY DEF TimesOf
<1> QED
  <2>1. Cardinality({}) = 0 /\ 0 \in Nat /\ 0 = 0 - 0
    BY FS_EmptySet
  <2> QED
    BY <1>1, <1>2, <2>1, TotalEmpty, Zenon DEF Counted

\* createFlow enters a new flow in the table, the states and the live set.
LEMMA ListedCreate ==
    ASSUME NEW m, NEW f, NEW l, Listed(m, f, l),
           NEW e \in Entry, e.finished = FALSE
    PROVE  /\ Listed(Append(m, e), Append(f, "waiting"), l \cup {Len(m) + 1})
           /\ Len(m) + 1 \notin l
<1> DEFINE n == Len(m)
           m2 == Append(m, e)
           f2 == Append(f, "waiting")
<1>1. /\ m \in Seq(Entry) /\ f \in Seq(Live \cup Done) /\ Len(f) = n /\ n \in Nat
      /\ \A id \in 1 .. n : m[id].finished <=> f[id] \in Done
      /\ l = {id \in 1 .. n : f[id] \in Live}
  BY DEF Listed
<1>2. /\ m2 \in Seq(Entry) /\ Len(m2) = n + 1 /\ m2[n + 1] = e
      /\ \A id \in 1 .. n : m2[id] = m[id]
  BY <1>1, AppendProperties
<1>3. /\ f2 \in Seq(Live \cup Done) /\ Len(f2) = n + 1 /\ f2[n + 1] = "waiting"
      /\ \A id \in 1 .. n : f2[id] = f[id]
  <2>1. "waiting" \in Live \cup Done
    BY DEF Live
  <2> QED
    BY <1>1, <2>1, AppendProperties
<1>4. "waiting" \in Live /\ "waiting" \notin Done
  BY DEF Live, Done
<1> HIDE DEF n, m2, f2
<1>5. \A id \in 1 .. n + 1 : id = n + 1 \/ id \in 1 .. n
  BY <1>1
<1>6. \A id \in 1 .. n + 1 : m2[id].finished <=> f2[id] \in Done
  <2> TAKE id \in 1 .. n + 1
  <2>1. CASE id = n + 1
    BY <1>2, <1>3, <1>4, <2>1
  <2>2. CASE id \in 1 .. n
    <3>1. m2[id] = m[id] /\ f2[id] = f[id] /\ (m[id].finished <=> f[id] \in Done)
      BY <1>1, <1>2, <1>3, <2>2
    <3> QED
      BY <3>1, Zenon
  <2> QED
    BY <1>5, <2>1, <2>2
<1>7. l \cup {n + 1} = {id \in 1 .. n + 1 : f2[id] \in Live}
  <2>1. \A id \in 1 .. n : id \in 1 .. n + 1
    BY <1>1
  <2>2. n + 1 \in 1 .. n + 1
    BY <1>1
  <2> QED
    BY <1>1, <1>3, <1>4, <1>5, <2>1, <2>2
<1>8. n + 1 \notin l
  BY <1>1
<1> QED
  BY <1>2, <1>3, <1>6, <1>7, <1>8 DEF Listed, n, m2, f2

\* A flow that is entered as running changes no counter.
LEMMA CountedCreate ==
    ASSUME NEW m \in Seq(Entry), NEW c, NEW s, NEW a, NEW b,
           Counted(m, c, s, a, b), NEW e \in Entry, e.finished = FALSE
    PROVE  Counted(Append(m, e), c, s, a, b)
<1> DEFINE n == Len(m)
           m2 == Append(m, e)
<1>1. /\ m2 \in Seq(Entry) /\ Len(m2) = n + 1 /\ m2[n + 1] = e /\ n \in Nat
      /\ \A id \in 1 .. n : m2[id] = m[id]
  BY AppendProperties
<1> HIDE DEF n, m2
<1>2. \A id \in 1 .. n + 1 : id = n + 1 \/ id \in 1 .. n
  BY <1>1
<1>3. \A id \in 1 .. n : id \in 1 .. n + 1
  BY <1>1
<1>4. FinishedOf(m2) = FinishedOf(m) /\ SmallOf(m2) = SmallOf(m)
  BY <1>1, <1>2, <1>3 DEF FinishedOf, SmallOf, n
<1>5. TimesOf(m) \in Seq(Int) /\ Len(TimesOf(m)) = n
  BY FiniteBooks DEF n
<1>6. TimesOf(m2) \in Seq(Int) /\ Len(TimesOf(m2)) = n + 1
  BY <1>1, FiniteBooks
<1>7. Total(TimesOf(m)) \in Int /\ Total(Append(TimesOf(m), 0)) = Total(TimesOf(m)) + 0
  BY <1>5, TotalAppend
<1>8. TimesOf(m2) = Append(TimesOf(m), 0)
  <2> DEFINE w == TimesOf(m)
             v == TimesOf(m2)
  <2>1. \A id \in 1 .. n : v[id] = w[id]
    BY <1>1, <1>3 DEF TimesOf, n
  <2>2. v[n + 1] = 0
    <3>1. n + 1 \in 1 .. n + 1 /\ m2[n + 1].finished = FALSE
      BY <1>1
    <3> QED
      BY <1>1, <3>1 DEF TimesOf
  <2> HIDE DEF w, v
  <2>3. /\ Append(w, 0) \in Seq(Int) /\ Len(Append(w, 0)) = n + 1
        /\ Append(w, 0)[n + 1] = 0
        /\ \A id \in 1 .. n : Append(w, 0)[id] = w[id]
    BY <1>5, AppendProperties DEF w
  <2>4. \A id \in 1 .. n + 1 : v[id] = Append(w, 0)[id]
    BY <1>2, <2>1, <2>2, <2>3
  <2>5. v \in Seq(Int) /\ Len(v) = n + 1
    BY <1>6 DEF v
  <2>6. v = Append(w, 0)
    BY <2>3, <2>4, <2>5, SeqEqual
  <2> QED
    BY <2>6 DEF v, w
<1>9. Total(TimesOf(m2)) = Total(TimesOf(m))
  BY <1>7, <1>8
<1> QED
  BY <1>4, <1>9 DEF Counted, m2

\* A flow goes from one state to another, on the same side of its finish.
LEMMA ListedMove ==
    ASSUME NEW m, NEW f, NEW l, Listed(m, f, l), NEW id \in 1 .. Len(m),
           NEW x \in Live \cup Done, x \in Live <=> f[id] \in Live
    PROVE  Listed(m, [f EXCEPT ![id] = x], l)
<1> DEFINE n == Len(m)
           f2 == [f EXCEPT ![id] = x]
<1>1. /\ m \in Seq(Entry) /\ f \in Seq(Live \cup Done) /\ Len(f) = n /\ n \in Nat
      /\ \A i \in 1 .. n : m[i].finished <=> f[i] \in Done
      /\ l = {i \in 1 .. n : f[i] \in Live}
  BY DEF Listed
<1>2. /\ f2 \in Seq(Live \cup Done) /\ Len(f2) = n
      /\ \A i \in 1 .. n : f2[i] = IF i = id THEN x ELSE f[i]
  BY <1>1
<1>3. /\ \A y \in Live \cup Done : y \in Done <=> y \notin Live
      /\ f[id] \in Live \cup Done
  BY <1>1 DEF Live, Done
<1> HIDE DEF f2, n
<1>4. \A i \in 1 .. n : (f2[i] \in Live <=> f[i] \in Live) /\ (f2[i] \in Done <=> f[i] \in Done)
  BY <1>2, <1>3
<1>5. \A i \in 1 .. n : m[i].finished <=> f2[i] \in Done
  BY <1>1, <1>4, Zenon
<1>6. l = {i \in 1 .. n : f2[i] \in Live}
  BY <1>1, <1>4
<1> QED
  BY <1>1, <1>2, <1>5, <1>6 DEF Listed, n, f2

\* An entry that is entered as finished keeps its size and its start.
LEMMA EndedIs ==
    ASSUME NEW e \in Entry, NEW t \in Nat
    PROVE  /\ Ended(e, t) \in Entry
           /\ Ended(e, t).size = e.size /\ Ended(e, t).start = e.start
           /\ Ended(e, t).end = t /\ Ended(e, t).finished = TRUE
<1>1. PICK x : x = Ended(e, t)
  OBVIOUS
<1>2. x = [z \in {"size", "start", "end", "finished"} |-> x[z]]
  BY <1>1 DEF Entry, Ended
<1>3. x.size = e.size
  BY <1>1 DEF Entry, Ended
<1>4. x.start = e.start
  BY <1>1 DEF Entry, Ended
<1>5. x.end = t
  BY <1>1 DEF Entry, Ended
<1>6. x.finished = TRUE
  BY <1>1 DEF Entry, Ended
<1>7. x = [size |-> e.size, start |-> e.start, end |-> t, finished |-> TRUE]
  BY <1>2, <1>3, <1>4, <1>5, <1>6
<1>8. x \in Entry
  BY <1>7 DEF Entry
<1> QED
  BY <1>1, <1>3, <1>4, <1>5, <1>6, <1>8, Zenon

\* finishFlow ends one live flow, in the table, the states and the live set.
LEMMA ListedFinish ==
    ASSUME NEW m, NEW f, NEW l, Listed(m, f, l), NEW id \in 1 .. Len(m),
           f[id] \in Live, NEW t \in Nat
    PROVE  /\ Listed([m EXCEPT ![id] = Ended(@, t)],
                     [f EXCEPT ![id] = "finished"], l \ {id})
           /\ id \in l
<1> DEFINE n == Len(m)
           m2 == [m EXCEPT ![id] = Ended(@, t)]
           f2 == [f EXCEPT ![id] = "finished"]
<1>1. /\ m \in Seq(Entry) /\ f \in Seq(Live \cup Done) /\ Len(f) = n /\ n \in Nat
      /\ \A i \in 1 .. n : m[i].finished <=> f[i] \in Done
      /\ l = {i \in 1 .. n : f[i] \in Live}
  BY DEF Listed
<1>2. Ended(m[id], t) \in Entry /\ Ended(m[id], t).finished = TRUE
  <2>1. m[id] \in Entry
    BY <1>1
  <2> QED
    BY <2>1, EndedIs
<1>3. "finished" \in Done /\ "finished" \notin Live /\ "finished" \in Live \cup Done
  BY DEF Live, Done
<1>4. /\ f2 \in Seq(Live \cup Done) /\ Len(f2) = n
      /\ \A i \in 1 .. n : f2[i] = IF i = id THEN "finished" ELSE f[i]
  BY <1>1, <1>3
<1>5. /\ m2 \in Seq(Entry) /\ Len(m2) = n
      /\ \A i \in 1 .. n : m2[i] = IF i = id THEN Ended(m[id], t) ELSE m[i]
  BY <1>1, <1>2
<1> HIDE DEF n, m2, f2
<1>6. \A i \in 1 .. n : m2[i].finished <=> f2[i] \in Done
  <2> TAKE i \in 1 .. n
  <2>1. CASE i = id
    BY <1>2, <1>3, <1>4, <1>5, <2>1
  <2>2. CASE i # id
    BY <1>1, <1>4, <1>5, <2>2
  <2> QED
    BY <2>1, <2>2
<1>7. l \ {id} = {i \in 1 .. n : f2[i] \in Live}
  BY <1>1, <1>3, <1>4
<1>8. id \in l
  BY <1>1 DEF n
<1> QED
  BY <1>4, <1>5, <1>6, <1>7, <1>8 DEF Listed, n, m2, f2

\* finishFlow adds one completion, its time, and one small or large flow.
LEMMA CountedFinish ==
    ASSUME NEW m \in Seq(Entry), NEW c, NEW s, NEW a, NEW b,
           Counted(m, c, s, a, b), NEW id \in 1 .. Len(m), ~m[id].finished,
           NEW t \in Nat
    PROVE  Counted([m EXCEPT ![id] = Ended(@, t)], c + 1, s + (t - m[id].start),
                   a + (IF IsSmall(m[id].size) THEN 1 ELSE 0),
                   b + (IF IsSmall(m[id].size) THEN 0 ELSE 1))
<1> DEFINE n == Len(m)
           e == Ended(m[id], t)
           m2 == [m EXCEPT ![id] = Ended(@, t)]
           small == IsSmall(m[id].size)
<1>1. /\ m[id] \in Entry /\ e \in Entry /\ n \in Nat
      /\ e.finished = TRUE /\ e.size = m[id].size
      /\ e.start = m[id].start /\ e.end = t
  <2>1. m[id] \in Entry /\ n \in Nat
    OBVIOUS
  <2> QED
    BY <2>1, EndedIs, Zenon
<1>2. /\ m2 \in Seq(Entry) /\ Len(m2) = n
      /\ \A i \in 1 .. n : m2[i] = IF i = id THEN e ELSE m[i]
  BY <1>1
<1> HIDE DEF n, m2, e, small
<1>3. FinishedOf(m2) = FinishedOf(m) \cup {id} /\ id \notin FinishedOf(m)
  BY <1>1, <1>2 DEF FinishedOf, n
<1>4. /\ small => SmallOf(m2) = SmallOf(m) \cup {id}
      /\ ~small => SmallOf(m2) = SmallOf(m)
      /\ id \notin SmallOf(m)
  <2>1. small <=> e.size < SMALL_TH
    BY <1>1 DEF small, IsSmall
  <2>2. SmallOf(m2) = {i \in FinishedOf(m) \cup {id} : m2[i].size < SMALL_TH}
    BY <1>3 DEF SmallOf
  <2>3. \A i \in FinishedOf(m) : m2[i] = m[i]
    BY <1>2, <1>3 DEF FinishedOf, n
  <2>4. m2[id] = e
    BY <1>2 DEF n
  <2> QED
    BY <1>3, <2>1, <2>2, <2>3, <2>4 DEF SmallOf
<1>5. /\ IsFiniteSet(FinishedOf(m)) /\ Cardinality(FinishedOf(m)) \in Nat
      /\ IsFiniteSet(SmallOf(m)) /\ Cardinality(SmallOf(m)) \in Nat
      /\ TimesOf(m) \in Seq(Int) /\ Len(TimesOf(m)) = n
      /\ TimesOf(m2) \in Seq(Int) /\ Len(TimesOf(m2)) = n
  BY <1>2, FiniteBooks DEF n
<1>6. Cardinality(FinishedOf(m2)) = c + 1 /\ c \in Nat
  <2>1. Cardinality(FinishedOf(m) \cup {id}) = Cardinality(FinishedOf(m)) + 1
    BY <1>3, <1>5, FS_AddElement
  <2> QED
    BY <1>3, <2>1 DEF Counted
<1>7. /\ small => Cardinality(SmallOf(m2)) = a + 1
      /\ ~small => Cardinality(SmallOf(m2)) = a
      /\ a \in Nat
  <2>1. Cardinality(SmallOf(m) \cup {id}) = Cardinality(SmallOf(m)) + 1
    BY <1>4, <1>5, FS_AddElement
  <2>2. Cardinality(SmallOf(m)) = a /\ a \in Nat
    BY Zenon DEF Counted
  <2> QED
    BY <1>4, <2>1, <2>2
<1>8. b = c - a
  BY DEF Counted
<1>9. Total(TimesOf(m2)) = s + (t - m[id].start)
  <2> DEFINE w == TimesOf(m)
             v == TimesOf(m2)
  <2>1. w[id] = 0
    BY <1>1 DEF TimesOf, n
  <2>2. v[id] = t - m[id].start
    <3>1. m2[id] = e /\ id \in 1 .. Len(m2)
      BY <1>2 DEF n
    <3>2. v[id] = IF m2[id].finished THEN m2[id].end - m2[id].start ELSE 0
      BY <3>1 DEF TimesOf
    <3> QED
      BY <1>1, <3>1, <3>2
  <2>3. \A i \in 1 .. n : id # i => v[i] = w[i]
    BY <1>2 DEF TimesOf, n
  <2> HIDE DEF w, v
  <2>4. /\ w \in Seq(Int) /\ v \in Seq(Int) /\ Len(w) = n /\ Len(v) = n
        /\ id \in 1 .. Len(w)
    BY <1>5 DEF w, v, n
  <2>5. Total(w) \in Int /\ Total(v) = Total(w) + (v[id] - w[id]) /\ v[id] \in Int
    BY <2>3, <2>4, TotalChange
  <2>6. \A x, y \in Int : x + (y - 0) = x + y
    OBVIOUS
  <2>7. Total(v) = Total(w) + v[id]
    BY <2>1, <2>5, <2>6, Zenon
  <2>8. Total(w) = s
    BY Zenon DEF Counted, w
  <2> QED
    BY <2>2, <2>7, <2>8, Zenon DEF v
<1>10. CASE small
  <2>1. /\ a + (IF small THEN 1 ELSE 0) = a + 1 /\ a + 1 \in Nat /\ c + 1 \in Nat
        /\ b + (IF small THEN 0 ELSE 1) = (c + 1) - (a + 1)
    BY <1>6, <1>7, <1>8, <1>10
  <2>2. Counted(m2, c + 1, s + (t - m[id].start), a + 1, (c + 1) - (a + 1))
    BY <1>6, <1>7, <1>9, <1>10, <2>1, Zenon DEF Counted
  <2> QED
    BY <2>1, <2>2, Zenon DEF m2, small
<1>11. CASE ~small
  <2>1. /\ a + (IF small THEN 1 ELSE 0) = a /\ c + 1 \in Nat
        /\ b + (IF small THEN 0 ELSE 1) = (c + 1) - a
    BY <1>6, <1>7, <1>8, <1>11
  <2>2. Counted(m2, c + 1, s + (t - m[id].start), a, (c + 1) - a)
    BY <1>6, <1>7, <1>9, <1>11, <2>1, Zenon DEF Counted
  <2> QED
    BY <2>1, <2>2, Zenon DEF m2, small
<1> QED
  BY <1>10, <1>11

----------------------------------------------------------------------------
(* What a handler does to them *)

Books(p, l, m, f) == [pending |-> p, live |-> l, meta |-> m, flow |-> f]

\* Scheduling an event changes the list of events and nothing else.
LEMMA ScheduleIs ==
    ASSUME NEW p, NEW l, NEW m, NEW f, NEW at, NEW src
    PROVE  Schedule(Books(p, l, m, f), at, src) =
               Books(SourceIsPending(p, endtime, at, src), l, m, f)
BY DEF Schedule, Books

NewEntry(size, t) == [size |-> size, start |-> t, end |-> 0, finished |-> FALSE]

\* createFlow adds the new flow everywhere and schedules its start.
LEMMA CreateFlowIs ==
    ASSUME NEW p, NEW l, NEW m, NEW f, NEW size, NEW delay, NEW t
    PROVE  CreateFlow(Books(p, l, m, f), size, delay, t) =
               Books(SourceIsPending(p, endtime, t + delay, Flow(Len(m) + 1)),
                     l \cup {Len(m) + 1}, Append(m, NewEntry(size, t)),
                     Append(f, "waiting"))
<1> DEFINE q == SourceIsPending(p, endtime, t + delay, Flow(Len(m) + 1))
           s == Books(q, l, m, f)
<1>1. Books(p, l, m, f).meta = m
  BY DEF Books
<1>2. Schedule(Books(p, l, m, f), t + delay, Flow(Len(m) + 1)) = s
  BY ScheduleIs
<1>3. CreateFlow(Books(p, l, m, f), size, delay, t) =
          [s EXCEPT !.meta = Append(@, NewEntry(size, t)),
                    !.live = @ \cup {Len(m) + 1},
                    !.flow = Append(@, "waiting")]
  BY <1>1, <1>2, Zenon DEF CreateFlow, NewEntry
<1> HIDE DEF q
<1>4. [s EXCEPT !.meta = Append(@, NewEntry(size, t)),
                    !.live = @ \cup {Len(m) + 1},
                    !.flow = Append(@, "waiting")] =
        Books(q, l \cup {Len(m) + 1}, Append(m, NewEntry(size, t)), Append(f, "waiting"))
  <2>1. PICK x : x = [s EXCEPT !.meta = Append(@, NewEntry(size, t)),
                               !.live = @ \cup {Len(m) + 1},
                               !.flow = Append(@, "waiting")]
    OBVIOUS
  <2>2. x = [z \in {"pending", "live", "meta", "flow"} |-> x[z]]
    BY <2>1 DEF Books
  <2>3. x.pending = q
    BY <2>1 DEF Books
  <2>4. x.live = l \cup {Len(m) + 1}
    BY <2>1 DEF Books
  <2>5. x.meta = Append(m, NewEntry(size, t))
    BY <2>1 DEF Books
  <2>6. x.flow = Append(f, "waiting")
    BY <2>1 DEF Books
  <2>7. x = Books(q, l \cup {Len(m) + 1}, Append(m, NewEntry(size, t)),
                  Append(f, "waiting"))
    BY <2>2, <2>3, <2>4, <2>5, <2>6 DEF Books
  <2> QED
    BY <2>1, <2>7
<1> QED
  BY <1>3, <1>4, Zenon DEF q

\* A handler sets the four variables it collects.
LEMMA BecomeIs ==
    ASSUME NEW p, NEW l, NEW m, NEW f, Become(Books(p, l, m, f))
    PROVE  pending' = p /\ liveFlows' = l /\ meta' = m /\ flow' = f
BY DEF Become, Books

\* What a handler starts from: the list without the event it handles.
LEMMA RestIs == Rest = Books(Tail(pending), liveFlows, meta, flow)
BY DEF Rest, Books

----------------------------------------------------------------------------
(* The steps of the generator *)

\* An event of the generator other than the stop event.
Due(at, src) == src = Generator /\ at # StopTime
Lone(q) == \A i, j \in 1 .. Len(q) :
              Due(q[i].at, q[i].src) /\ Due(q[j].at, q[j].src) => i = j
None(q) == \A i \in 1 .. Len(q) : ~Due(q[i].at, q[i].src)

\* Sums of naturals are naturals.
LEMMA NatSum == 1 \in Nat /\ \A x, y \in Nat : x + y \in Nat
OBVIOUS

\* Scheduling an event that is no arrival adds no arrival; scheduling an
\* arrival when none is pending leaves one.
LEMMA EventPending ==
    ASSUME NEW q \in Seq(Event), NEW at \in Nat, NEW src \in Sources
    PROVE  /\ SourceIsPending(q, endtime, at, src) \in Seq(Event)
           /\ ~Due(at, src) /\ Lone(q) => Lone(SourceIsPending(q, endtime, at, src))
           /\ ~Due(at, src) /\ None(q) => None(SourceIsPending(q, endtime, at, src))
           /\ None(q) => Lone(SourceIsPending(q, endtime, at, src))
<1> DEFINE e == [at |-> at, src |-> src]
<1>1. /\ e \in Event /\ e.at = at /\ e.src = src
      /\ \A x \in Event : x.at \in Nat
  BY DEF Event
<1>2. PICK t, n : /\ t = Insert(q, at, src) /\ t \in Seq(Event)
                  /\ Spliced(q, n, e, t)
  <2>1. /\ Insert(q, at, src) \in Seq(Event)
        /\ \E n \in 1 .. Len(q) + 1 : Spliced(q, n, e, Insert(q, at, src))
    <3>1. [at |-> at, src |-> src] \in Event
      BY <1>1
    <3>2. /\ Insert(q, at, src) \in Seq(Event)
          /\ \E n \in 1 .. Len(q) + 1 :
                /\ Spliced(q, n, [at |-> at, src |-> src], Insert(q, at, src))
                /\ \A i \in 1 .. n - 1 : q[i].at <= at
                /\ n \in 1 .. Len(q) => at < q[n].at
      BY <1>1, <3>1, InsertSplices
    <3> QED
      BY <3>2, Zenon
  <2> QED
    BY <2>1, Zenon
<1> HIDE DEF e
<1>3. /\ n \in 1 .. Len(q) + 1 /\ Len(q) \in Nat
      /\ \A j \in 1 .. Len(t) :
            \/ j = n /\ t[j] = e
            \/ j # n /\ j < n /\ j \in 1 .. Len(q) /\ t[j] = q[j]
            \/ j # n /\ n < j /\ j - 1 \in 1 .. Len(q) /\ t[j] = q[j - 1]
  <2>1. /\ n \in 1 .. Len(q) + 1 /\ t[n] = e
        /\ \A j \in 1 .. Len(t) :
              \/ j = n
              \/ j < n /\ j \in 1 .. Len(q) /\ t[j] = q[j]
              \/ n < j /\ j - 1 \in 1 .. Len(q) /\ t[j] = q[j - 1]
    BY <1>2 DEF Spliced
  <2>2. n \in Int /\ \A j \in 1 .. Len(t) : j \in Int
    BY <2>1
  <2> QED
    BY <2>1, <2>2
<1>4. ASSUME ~Due(at, src), Lone(q) PROVE Lone(t)
  <2>1. SUFFICES ASSUME NEW i \in 1 .. Len(t), NEW j \in 1 .. Len(t),
                        Due(t[i].at, t[i].src), Due(t[j].at, t[j].src)
                 PROVE  i = j
    BY DEF Lone
  <2>2. t[i] # e /\ t[j] # e
    BY <1>1, <1>4, <2>1, Zenon
  <2>3. \/ i < n /\ i \in 1 .. Len(q) /\ t[i] = q[i]
        \/ n < i /\ i - 1 \in 1 .. Len(q) /\ t[i] = q[i - 1]
    BY <1>3, <2>2, Zenon
  <2>4. \/ j < n /\ j \in 1 .. Len(q) /\ t[j] = q[j]
        \/ n < j /\ j - 1 \in 1 .. Len(q) /\ t[j] = q[j - 1]
    BY <1>3, <2>2, Zenon
  <2>5. \A k, m \in 1 .. Len(q) :
           Due(q[k].at, q[k].src) /\ Due(q[m].at, q[m].src) => k = m
    BY <1>4, Zenon DEF Lone
  <2>6. CASE i < n /\ i \in 1 .. Len(q) /\ t[i] = q[i]
    <3>1. j < n /\ j \in 1 .. Len(q) /\ t[j] = q[j] => i = j
      BY <2>1, <2>5, <2>6, Zenon
    <3>2. ~(n < j /\ j - 1 \in 1 .. Len(q) /\ t[j] = q[j - 1])
      <4>1. SUFFICES ASSUME n < j, j - 1 \in 1 .. Len(q), t[j] = q[j - 1] PROVE FALSE
        OBVIOUS
      <4>2. i = j - 1
        BY <2>1, <2>5, <2>6, <4>1, Zenon
      <4> QED
        BY <1>3, <2>6, <4>1, <4>2
    <3> QED
      BY <2>4, <3>1, <3>2
  <2>7. CASE n < i /\ i - 1 \in 1 .. Len(q) /\ t[i] = q[i - 1]
    <3>1. ~(j < n /\ j \in 1 .. Len(q) /\ t[j] = q[j])
      <4>1. SUFFICES ASSUME j < n, j \in 1 .. Len(q), t[j] = q[j] PROVE FALSE
        OBVIOUS
      <4>2. i - 1 = j
        BY <2>1, <2>5, <2>7, <4>1, Zenon
      <4> QED
        BY <1>3, <2>7, <4>1, <4>2
    <3>2. n < j /\ j - 1 \in 1 .. Len(q) /\ t[j] = q[j - 1] => i = j
      <4>1. SUFFICES ASSUME n < j, j - 1 \in 1 .. Len(q), t[j] = q[j - 1] PROVE i = j
        OBVIOUS
      <4>2. i - 1 = j - 1
        BY <2>1, <2>5, <2>7, <4>1, Zenon
      <4> QED
        BY <4>2
    <3> QED
      BY <2>4, <3>1, <3>2
  <2> QED
    BY <2>3, <2>6, <2>7
<1>5. ASSUME ~Due(at, src), None(q) PROVE None(t)
  <2>1. SUFFICES ASSUME NEW i \in 1 .. Len(t), Due(t[i].at, t[i].src) PROVE FALSE
    BY DEF None
  <2>2. t[i] # e
    BY <1>1, <1>5, <2>1, Zenon
  <2> QED
    BY <1>3, <1>5, <2>1, <2>2, Zenon DEF None
<1>6. ASSUME None(q) PROVE Lone(t)
  <2>1. SUFFICES ASSUME NEW i \in 1 .. Len(t), NEW j \in 1 .. Len(t),
                        Due(t[i].at, t[i].src), Due(t[j].at, t[j].src)
                 PROVE  i = j
    BY DEF Lone
  <2>2. i = n /\ j = n
    BY <1>3, <1>6, <2>1, Zenon DEF None
  <2> QED
    BY <2>2
<1>7. None(q) => Lone(q)
  BY DEF None, Lone
<1>8. \/ SourceIsPending(q, endtime, at, src) = t
      \/ SourceIsPending(q, endtime, at, src) = q
  BY <1>2, Zenon DEF SourceIsPending
<1> QED
  BY <1>2, <1>4, <1>5, <1>6, <1>7, <1>8, Zenon

\* Taking the first event adds no arrival; taking the pending arrival leaves none.
LEMMA EventTaken ==
    ASSUME NEW q \in Seq(Event), q # <<>>
    PROVE  /\ Head(q) \in Event /\ Tail(q) \in Seq(Event)
           /\ Lone(q) => Lone(Tail(q))
           /\ None(q) => None(Tail(q))
           /\ Lone(q) /\ Due(Head(q).at, Head(q).src) => None(Tail(q)) /\ ~None(q)
<1>1. PICK t : t = Tail(q)
  OBVIOUS
<1>2. /\ Head(q) \in Event /\ t \in Seq(Event) /\ Len(q) \in Nat \ {0}
      /\ Head(q) = q[1] /\ Len(t) = Len(q) - 1 /\ 1 \in 1 .. Len(q)
      /\ \A i \in 1 .. Len(t) : t[i] = q[i + 1]
  BY <1>1, HeadTailProperties
<1>3. \A i \in 1 .. Len(t) : i + 1 \in 1 .. Len(q) /\ i + 1 # 1
  BY <1>2
<1>4. ASSUME Lone(q) PROVE Lone(t)
  <2>1. SUFFICES ASSUME NEW i \in 1 .. Len(t), NEW j \in 1 .. Len(t),
                        Due(t[i].at, t[i].src), Due(t[j].at, t[j].src)
                 PROVE  i = j
    BY DEF Lone
  <2>2. Due(q[i + 1].at, q[i + 1].src) /\ Due(q[j + 1].at, q[j + 1].src)
    BY <1>2, <2>1
  <2>3. i + 1 = j + 1
    BY <1>3, <1>4, <2>2, Zenon DEF Lone
  <2> QED
    BY <2>3
<1>5. None(q) => None(t)
  BY <1>2, <1>3 DEF None
<1>6. ASSUME Lone(q), Due(Head(q).at, Head(q).src) PROVE None(t) /\ ~None(q)
  <2>1. ~None(q)
    BY <1>2, <1>6 DEF None
  <2>2. SUFFICES ASSUME NEW i \in 1 .. Len(t), Due(t[i].at, t[i].src) PROVE FALSE
    BY <2>1 DEF None
  <2>3. Due(q[i + 1].at, q[i + 1].src) /\ Due(q[1].at, q[1].src)
    BY <1>2, <1>6, <2>2
  <2>4. i + 1 = 1
    BY <1>2, <1>3, <1>6, <2>3, Zenon DEF Lone
  <2> QED
    BY <1>3, <2>4
<1> QED
  BY <1>1, <1>2, <1>4, <1>5, <1>6, Zenon

\* The list holds an event of src at a time, and only events of the simulation.
Awaited(q, at, src) == \E i \in 1 .. Len(q) : q[i].at = at /\ q[i].src = src
InTime(q) == endtime # 0 => \A i \in 1 .. Len(q) : q[i].at <= endtime

\* What scheduling makes of a list of events.
Grown(q, t) ==
    /\ t \in Seq(Event)
    /\ InTime(q) => InTime(t)
    /\ \A at, src : Awaited(q, at, src) => Awaited(t, at, src)

\* Scheduling keeps what there is and adds an event unless it is too late.
LEMMA GrownIs ==
    ASSUME NEW q \in Seq(Event), NEW at \in Nat, NEW src \in Sources,
           NEW t, t = SourceIsPending(q, endtime, at, src)
    PROVE  /\ Grown(q, t)
           /\ at <= endtime => Awaited(t, at, src)
<1>1. PICK e : e = [at |-> at, src |-> src]
  OBVIOUS
<1>2. /\ e \in Event /\ e.at = at /\ e.src = src
      /\ \A x \in Event : x.at \in Nat
  BY <1>1 DEF Event
<1>3. PICK r : r = Insert(q, at, src)
  OBVIOUS
<1>4. PICK n : r \in Seq(Event) /\ Spliced(q, n, e, r)
  <2>1. [at |-> at, src |-> src] \in Event
    BY <1>1, <1>2
  <2>2. /\ Insert(q, at, src) \in Seq(Event)
        /\ \E n \in 1 .. Len(q) + 1 :
              /\ Spliced(q, n, [at |-> at, src |-> src], Insert(q, at, src))
              /\ \A i \in 1 .. n - 1 : q[i].at <= at
              /\ n \in 1 .. Len(q) => at < q[n].at
    BY <1>2, <2>1, InsertSplices
  <2> QED
    BY <1>1, <1>3, <2>2, Zenon
<1>5. /\ n \in 1 .. Len(r) /\ r[n] = e
      /\ \A i \in 1 .. Len(q) : \E j \in 1 .. Len(r) : r[j] = q[i]
      /\ \A j \in 1 .. Len(r) : j = n \/ \E i \in 1 .. Len(q) : r[j] = q[i]
  <2>1. /\ n \in 1 .. Len(q) + 1 /\ Len(r) = Len(q) + 1 /\ r[n] = e
        /\ Len(q) \in Nat
        /\ \A i \in 1 .. Len(q) : IF i < n THEN r[i] = q[i] ELSE r[i + 1] = q[i]
        /\ \A j \in 1 .. Len(r) : \/ j = n
                                  \/ j < n /\ j \in 1 .. Len(q) /\ r[j] = q[j]
                                  \/ n < j /\ j - 1 \in 1 .. Len(q) /\ r[j] = q[j - 1]
    BY <1>4 DEF Spliced
  <2>2. ASSUME NEW i \in 1 .. Len(q) PROVE \E j \in 1 .. Len(r) : r[j] = q[i]
    <3>1. i \in 1 .. Len(r) /\ i + 1 \in 1 .. Len(r)
      BY <2>1
    <3> QED
      BY <2>1, <3>1
  <2>3. \A j \in 1 .. Len(r) : j = n \/ \E i \in 1 .. Len(q) : r[j] = q[i]
    BY <2>1, Zenon
  <2> QED
    BY <2>1, <2>2, <2>3
<1>6. CASE endtime = 0 \/ at <= endtime
  <2>1. t = r
    BY <1>3, <1>6 DEF SourceIsPending
  <2>2. Awaited(r, at, src)
    BY <1>2, <1>5, Zenon DEF Awaited
  <2>3. \A a, s : Awaited(q, a, s) => Awaited(r, a, s)
    BY <1>5, Zenon DEF Awaited
  <2>4. InTime(q) => InTime(r)
    BY <1>2, <1>5, <1>6, Zenon DEF InTime
  <2> QED
    BY <1>4, <2>1, <2>2, <2>3, <2>4, Zenon DEF Grown
<1>7. CASE ~(endtime = 0 \/ at <= endtime)
  BY <1>7 DEF SourceIsPending, Grown
<1> QED
  BY <1>6, <1>7

\* Scheduling twice, or not at all, is also that.
LEMMA GrownChain ==
    /\ \A q \in Seq(Event) : Grown(q, q)
    /\ \A q, r, t : Grown(q, r) /\ Grown(r, t) => Grown(q, t)
BY DEF Grown

\* All that is awaited besides the first event is so after it.
LEMMA AwaitedTaken ==
    ASSUME NEW q \in Seq(Event), q # <<>>
    PROVE  /\ InTime(q) => InTime(Tail(q)) /\ (endtime # 0 => Head(q).at <= endtime)
           /\ \A at, src : Awaited(q, at, src) =>
                 \/ at = Head(q).at /\ src = Head(q).src
                 \/ Awaited(Tail(q), at, src)
<1>1. PICK t : t = Tail(q)
  OBVIOUS
<1>2. /\ Len(q) \in Nat \ {0} /\ Head(q) = q[1] /\ Len(t) = Len(q) - 1
      /\ 1 \in 1 .. Len(q) /\ \A i \in 1 .. Len(t) : t[i] = q[i + 1]
  BY <1>1, HeadTailProperties
<1>3. /\ \A i \in 1 .. Len(t) : i + 1 \in 1 .. Len(q)
      /\ \A i \in 1 .. Len(q) : i = 1 \/ (i - 1 \in 1 .. Len(t) /\ (i - 1) + 1 = i)
  BY <1>2
<1>4. InTime(q) => InTime(t) /\ (endtime # 0 => Head(q).at <= endtime)
  BY <1>2, <1>3 DEF InTime
<1>5. \A i \in 1 .. Len(q) : i = 1 \/ \E j \in 1 .. Len(t) : t[j] = q[i]
  <2>1. SUFFICES ASSUME NEW i \in 1 .. Len(q), i # 1
                 PROVE  \E j \in 1 .. Len(t) : t[j] = q[i]
    OBVIOUS
  <2>2. i - 1 \in 1 .. Len(t) /\ t[i - 1] = q[i]
    <3>1. i - 1 \in 1 .. Len(t) /\ (i - 1) + 1 = i
      BY <1>3, <2>1
    <3>2. t[i - 1] = q[(i - 1) + 1]
      BY <1>2, <3>1
    <3> QED
      BY <3>1, <3>2
  <2> QED
    BY <2>2
<1>6. \A at, src : Awaited(q, at, src) =>
         (at = Head(q).at /\ src = Head(q).src) \/ Awaited(t, at, src)
  BY <1>2, <1>5, Zenon DEF Awaited
<1> QED
  BY <1>1, <1>4, <1>6, Zenon

TraceInv(ft) == mode = "trace" => ft \in Seq([at : Nat, size : Nat \ {0}])

\* At most one arrival is to come, and none when the loop is closed or the
\* trace is at its end.
LoadInv(p, l, c, ft) ==
    /\ c \in Nat /\ Lone(p)
    /\ ~None(p) => /\ mode = "closed" => c < MaxFlows
                   /\ mode = "trace" => ft # <<>>
    /\ mode = "closed" => Cardinality(l) = c /\ c <= MaxFlows

SummaryInv(p, ss, done, c) ==
    /\ ss \in Seq(Nat)
    /\ done \in BOOLEAN
    /\ done => p = <<>> /\ ss # <<>> /\ ss[Len(ss)] = c

BooksInv ==
    /\ pending \in Seq(Event)
    /\ Listed(meta, flow, liveFlows)
    /\ Counted(meta, completed, sum_fct, cnt_small, cnt_large)
    /\ TraceInv(flowTrace)
    /\ LoadInv(pending, liveFlows, concurrentFlows, flowTrace)
    /\ SummaryInv(pending, summaries, flushed, completed)

\* What an event finds: it is the first of the list, and the run is not over.
LEMMA TakeIs ==
    ASSUME BooksInv, NEW src, Take(src)
    PROVE  /\ pending # <<>> /\ pending \in Seq(Event)
           /\ Head(pending).src = src /\ Head(pending).at = now' /\ now' \in Nat
           /\ src \in Sources
           /\ Tail(pending) \in Seq(Event)
           /\ mode' = mode /\ endtime' = endtime /\ flushed' = flushed
           /\ flushed = FALSE
<1>1. /\ pending # <<>> /\ Head(pending).src = src /\ now' = Head(pending).at
      /\ mode' = mode /\ endtime' = endtime /\ flushed' = flushed
  BY DEF Take
<1>2. pending \in Seq(Event) /\ SummaryInv(pending, summaries, flushed, completed)
  BY DEF BooksInv
<1>3. Head(pending) \in Event /\ Tail(pending) \in Seq(Event)
  BY <1>1, <1>2, EventTaken
<1>4. \A e \in Event : e.at \in Nat /\ e.src \in Sources
  BY DEF Event
<1>5. flushed = FALSE
  BY <1>1, <1>2 DEF SummaryInv
<1> QED
  BY <1>1, <1>2, <1>3, <1>4, <1>5, Zenon

\* The summaries of a step that is an event, with or without a new one.
LEMMA SummaryKept ==
    ASSUME BooksInv, flushed = FALSE, flushed' = flushed,
           \/ summaries' = summaries
           \/ \E x \in Nat : summaries' = Append(summaries, x)
    PROVE  SummaryInv(pending', summaries', flushed', completed')
<1>1. summaries \in Seq(Nat)
  BY DEF BooksInv, SummaryInv
<1>2. summaries' \in Seq(Nat)
  BY <1>1, AppendProperties
<1>3. flushed' = FALSE
  OBVIOUS
<1> QED
  BY <1>2, <1>3 DEF SummaryInv

\* The parts make the whole, in the state that a step leads to.
LEMMA BooksHold ==
    ASSUME pending' \in Seq(Event), Listed(meta', flow', liveFlows'),
           Counted(meta', completed', sum_fct', cnt_small', cnt_large'),
           mode' = mode,
           TraceInv(flowTrace'),
           LoadInv(pending', liveFlows', concurrentFlows', flowTrace'),
           SummaryInv(pending', summaries', flushed', completed')
    PROVE  BooksInv'
BY DEF BooksInv, Listed, Counted, TraceInv, LoadInv, SummaryInv, Lone, None, Due, FinishedOf, SmallOf, TimesOf

\* The stop event of the generator keeps the books.
LEMMA StopStep ==
    ASSUME BooksInv, StopEvent
    PROVE  BooksInv' /\ Grown(Tail(pending), pending')
<1>1. Take(Generator)
  BY DEF StopEvent
<1>2. /\ pending # <<>> /\ pending \in Seq(Event)
      /\ Tail(pending) \in Seq(Event)
      /\ mode' = mode /\ endtime' = endtime /\ flushed' = flushed
      /\ flushed = FALSE
  BY <1>1, TakeIs, Zenon
<1>3. /\ Become(Rest) /\ summaries' = Append(summaries, completed)
      /\ UNCHANGED <<flowTrace, concurrentFlows, stats>>
  BY DEF StopEvent
<1>4. /\ pending' = Tail(pending) /\ liveFlows' = liveFlows /\ meta' = meta
      /\ flow' = flow
  BY <1>3, RestIs, BecomeIs, Zenon
<1>5. /\ flowTrace' = flowTrace /\ concurrentFlows' = concurrentFlows
      /\ completed' = completed /\ sum_fct' = sum_fct
      /\ cnt_small' = cnt_small /\ cnt_large' = cnt_large
  BY <1>3 DEF stats
<1>6. /\ Listed(meta, flow, liveFlows) /\ TraceInv(flowTrace)
      /\ Counted(meta, completed, sum_fct, cnt_small, cnt_large)
      /\ LoadInv(pending, liveFlows, concurrentFlows, flowTrace)
  BY DEF BooksInv
<1>7. LoadInv(Tail(pending), liveFlows, concurrentFlows, flowTrace)
  <2>1. (Lone(pending) => Lone(Tail(pending))) /\ (None(pending) => None(Tail(pending)))
    BY <1>2, EventTaken, Zenon
  <2> QED
    BY <1>6, <2>1, Zenon DEF LoadInv
<1>8. SummaryInv(pending', summaries', flushed', completed')
  <2>1. completed \in Nat
    BY <1>6 DEF Counted
  <2> QED
    BY <1>2, <1>3, <2>1, SummaryKept, Zenon
<1>9. Grown(Tail(pending), pending')
  BY <1>2, <1>4, GrownChain, Zenon
<1> QED
  BY <1>2, <1>4, <1>5, <1>6, <1>7, <1>8, <1>9, BooksHold, Zenon

\* The parameters that are read as numbers.
LEMMA Given ==
    /\ \A x \in Sizes : x \in Nat
    /\ \A x \in Durations : x \in Nat
    /\ \A x \in Gaps : x \in Nat
    /\ \A x \in Jitters : x \in Nat
    /\ \A x \in Sleeps : x \in Nat
    /\ MaxFlows \in Nat \ {0} /\ StopTime \in Nat
    /\ \A t \in Traces : t # <<>> /\ t \in Seq([at : Nat, size : Nat \ {0}])
<1>1. /\ Sizes \subseteq Nat \ {0} /\ Durations \subseteq Nat \ {0}
      /\ Gaps \subseteq Nat \ {0} /\ Jitters \subseteq Nat /\ Sleeps \subseteq Nat
      /\ MaxFlows \in Nat \ {0} /\ StopTime \in Nat
      /\ \A t \in Traces : t # <<>> /\ t \in Seq([at : Nat, size : Nat \ {0}])
  BY GeneratorAssumption
<1> QED
  BY <1>1

\* The last summary, when the list is empty, keeps the books.
LEMMA FlushStep ==
    ASSUME BooksInv, FlushAllSummaries
    PROVE  BooksInv'
<1>1. /\ pending = <<>> /\ flushed' = TRUE
      /\ summaries' = Append(summaries, completed)
      /\ pending' = pending /\ liveFlows' = liveFlows /\ meta' = meta
      /\ flow' = flow /\ mode' = mode
      /\ flowTrace' = flowTrace /\ concurrentFlows' = concurrentFlows
      /\ completed' = completed /\ sum_fct' = sum_fct
      /\ cnt_small' = cnt_small /\ cnt_large' = cnt_large
  BY DEF FlushAllSummaries, stats
<1>2. /\ pending \in Seq(Event)
      /\ Listed(meta, flow, liveFlows) /\ TraceInv(flowTrace)
      /\ Counted(meta, completed, sum_fct, cnt_small, cnt_large)
      /\ LoadInv(pending, liveFlows, concurrentFlows, flowTrace)
      /\ summaries \in Seq(Nat) /\ completed \in Nat
  BY DEF BooksInv, SummaryInv, Counted
<1>3. SummaryInv(pending', summaries', flushed', completed')
  <2>1. /\ summaries' \in Seq(Nat) /\ Len(summaries') = Len(summaries) + 1
        /\ summaries'[Len(summaries) + 1] = completed
        /\ Len(summaries) \in Nat
    BY <1>1, <1>2, AppendProperties
  <2>2. summaries' # <<>>
    BY <2>1
  <2> QED
    BY <1>1, <2>1, <2>2 DEF SummaryInv
<1> QED
  BY <1>1, <1>2, <1>3, BooksHold, Zenon

\* A flow moves without a finish, and its next event is scheduled or not.
LEMMA MoveKeeps ==
    ASSUME BooksInv, NEW id \in Flows, Take(Flow(id)),
           NEW x \in Live \cup Done, x \in Live <=> flow[id] \in Live,
           \/ pending' = Tail(pending)
           \/ \E at \in Nat :
                 pending' = SourceIsPending(Tail(pending), endtime, at, Flow(id)),
           flow' = [flow EXCEPT ![id] = x], meta' = meta, liveFlows' = liveFlows,
           UNCHANGED <<flowTrace, concurrentFlows, stats, summaries>>
    PROVE  BooksInv' /\ Grown(Tail(pending), pending')
<1>1. /\ pending # <<>> /\ pending \in Seq(Event)
      /\ Tail(pending) \in Seq(Event)
      /\ mode' = mode /\ endtime' = endtime /\ flushed' = flushed
      /\ flushed = FALSE /\ Flow(id) \in Sources
  BY TakeIs, Zenon
<1>2. /\ flowTrace' = flowTrace /\ concurrentFlows' = concurrentFlows
      /\ completed' = completed /\ sum_fct' = sum_fct
      /\ cnt_small' = cnt_small /\ cnt_large' = cnt_large /\ summaries' = summaries
  BY DEF stats
<1>3. /\ Listed(meta, flow, liveFlows) /\ TraceInv(flowTrace)
      /\ Counted(meta, completed, sum_fct, cnt_small, cnt_large)
      /\ LoadInv(pending, liveFlows, concurrentFlows, flowTrace)
  BY DEF BooksInv
<1>4. Listed(meta, flow', liveFlows)
  <2>1. id \in 1 .. Len(meta)
    BY DEF Flows
  <2> QED
    BY <1>3, <2>1, ListedMove, Zenon
<1>5. /\ Lone(pending) => Lone(Tail(pending))
      /\ None(pending) => None(Tail(pending))
  BY <1>1, EventTaken, Zenon
<1>6. pending' \in Seq(Event) /\ (Lone(pending) => Lone(pending')) /\ (None(pending) => None(pending'))
  <2>1. CASE pending' = Tail(pending)
    BY <1>1, <1>5, <2>1, Zenon
  <2>2. ASSUME NEW at \in Nat,
               pending' = SourceIsPending(Tail(pending), endtime, at, Flow(id))
        PROVE  pending' \in Seq(Event) /\ (Lone(pending) => Lone(pending'))
               /\ (None(pending) => None(pending'))
    <3>1. ~Due(at, Flow(id))
      BY DEF Due, Flow, Generator
    <3> QED
      BY <1>1, <1>5, <2>2, <3>1, EventPending, Zenon
  <2> QED
    BY <2>1, <2>2
<1>7. LoadInv(pending', liveFlows, concurrentFlows, flowTrace)
  BY <1>3, <1>6, Zenon DEF LoadInv
<1>8. SummaryInv(pending', summaries', flushed', completed')
  BY <1>1, <1>2, SummaryKept, Zenon
<1>9. Grown(Tail(pending), pending')
  <2>1. CASE pending' = Tail(pending)
    BY <1>1, <2>1, GrownChain, Zenon
  <2>2. ASSUME NEW at \in Nat,
               pending' = SourceIsPending(Tail(pending), endtime, at, Flow(id))
        PROVE  Grown(Tail(pending), pending')
    BY <1>1, <2>2, GrownIs, Zenon
  <2> QED
    BY <2>1, <2>2
<1> QED
  BY <1>1, <1>2, <1>3, <1>4, <1>6, <1>7, <1>8, <1>9, BooksHold, Zenon

Moved(id, x) == [Rest EXCEPT !.flow[id] = x]

\* A step of one flow changes its state and takes the event.
LEMMA MoveIs ==
    ASSUME NEW id, NEW x
    PROVE  Moved(id, x) = Books(Tail(pending), liveFlows, meta, [flow EXCEPT ![id] = x])
<1>1. PICK s : s = Moved(id, x)
  OBVIOUS
<1>2. s = [z \in {"pending", "live", "meta", "flow"} |-> s[z]]
  BY <1>1 DEF Rest, Moved
<1>3. s.pending = Tail(pending) /\ s.live = liveFlows /\ s.meta = meta
  BY <1>1 DEF Rest, Moved
<1>4. s.flow = [flow EXCEPT ![id] = x]
  BY <1>1 DEF Rest, Moved
<1>5. s = Books(Tail(pending), liveFlows, meta, [flow EXCEPT ![id] = x])
  BY <1>2, <1>3, <1>4 DEF Books
<1> QED
  BY <1>1, <1>5

\* The start of a flow keeps the books.
LEMMA StartStep ==
    ASSUME BooksInv, NEW id \in Flows, StartEvent(id)
    PROVE  BooksInv' /\ Grown(Tail(pending), pending')
<1>1. Take(Flow(id)) /\ flow[id] = "waiting"
      /\ UNCHANGED <<flowTrace, concurrentFlows, stats, summaries>>
  BY DEF StartEvent
<1>2. PICK d \in Durations :
         Become(Schedule(Moved(id, "running"), now' + d, Flow(id)))
  BY Zenon DEF StartEvent, Moved
<1>3. PICK f : f = [flow EXCEPT ![id] = "running"]
  OBVIOUS
<1>4. Moved(id, "running") = Books(Tail(pending), liveFlows, meta, f)
  BY <1>3, MoveIs, Zenon
<1>5. PICK at, p : at = now' + d /\ p = SourceIsPending(Tail(pending), endtime, at, Flow(id))
  OBVIOUS
<1>6. Become(Books(p, liveFlows, meta, f))
  <2>1. Schedule(Books(Tail(pending), liveFlows, meta, f), at, Flow(id)) =
            Books(p, liveFlows, meta, f)
    BY <1>5, ScheduleIs
  <2> QED
    BY <1>2, <1>4, <1>5, <2>1, Zenon
<1>7. pending' = p /\ liveFlows' = liveFlows /\ meta' = meta /\ flow' = f
  BY <1>6, BecomeIs, Zenon
<1>8. now' + d \in Nat
  <2>1. now' \in Nat
    BY <1>1, TakeIs, Zenon
  <2>2. d \in Nat
    BY Given, Zenon
  <2> QED
    BY <2>1, <2>2, NatSum, Zenon
<1>9. "running" \in Live \cup Done /\ ("running" \in Live <=> flow[id] \in Live)
  BY <1>1 DEF Live, Done
<1> QED
  BY <1>1, <1>3, <1>5, <1>7, <1>8, <1>9, MoveKeeps, Zenon

\* The deletion of a flow keeps the books.
LEMMA DeleteStep ==
    ASSUME BooksInv, NEW id \in Flows, DeleteEvent(id)
    PROVE  BooksInv' /\ Grown(Tail(pending), pending')
<1>1. /\ Take(Flow(id)) /\ flow[id] = "finished"
      /\ UNCHANGED <<flowTrace, concurrentFlows, stats, summaries>>
      /\ Become(Moved(id, "deleted"))
  BY Zenon DEF DeleteEvent, Moved
<1>2. PICK f : f = [flow EXCEPT ![id] = "deleted"]
  OBVIOUS
<1>3. Moved(id, "deleted") = Books(Tail(pending), liveFlows, meta, f)
  BY <1>2, MoveIs, Zenon
<1>4. pending' = Tail(pending) /\ liveFlows' = liveFlows /\ meta' = meta /\ flow' = f
  BY <1>1, <1>3, BecomeIs, Zenon
<1>5. "deleted" \in Live \cup Done /\ ("deleted" \in Live <=> flow[id] \in Live)
  BY <1>1 DEF Live, Done
<1> QED
  BY <1>1, <1>2, <1>4, <1>5, MoveKeeps, Zenon

\* What the two kinds of arrival share: one more flow, one more arrival
\* counted, and perhaps the next arrival scheduled.
LEMMA ArrivalKeeps ==
    ASSUME BooksInv, Take(Generator), now' # StopTime,
           NEW size \in Nat, NEW delay \in Nat,
           NEW p, p = SourceIsPending(Tail(pending), endtime, now' + delay,
                                      Flow(Len(meta) + 1)),
           NEW more \in BOOLEAN,
           ~more => pending' = p,
           more => \E at \in Nat : pending' = SourceIsPending(p, endtime, at, Generator),
           liveFlows' = liveFlows \cup {Len(meta) + 1},
           meta' = Append(meta, NewEntry(size, now')),
           flow' = Append(flow, "waiting"),
           concurrentFlows' = concurrentFlows + 1,
           mode = "closed" /\ more => concurrentFlows' < MaxFlows,
           mode = "trace" /\ more => flowTrace' # <<>>,
           TraceInv(flowTrace'),
           UNCHANGED <<stats, summaries>>
    PROVE  BooksInv' /\ Grown(Tail(pending), pending')
<1>1. /\ pending # <<>> /\ pending \in Seq(Event)
      /\ Head(pending).src = Generator /\ Head(pending).at = now' /\ now' \in Nat
      /\ Tail(pending) \in Seq(Event) /\ Generator \in Sources
      /\ mode' = mode /\ endtime' = endtime /\ flushed' = flushed
      /\ flushed = FALSE
  BY TakeIs, Zenon
<1>2. /\ completed' = completed /\ sum_fct' = sum_fct
      /\ cnt_small' = cnt_small /\ cnt_large' = cnt_large /\ summaries' = summaries
  BY DEF stats
<1>3. /\ Listed(meta, flow, liveFlows)
      /\ Counted(meta, completed, sum_fct, cnt_small, cnt_large)
      /\ LoadInv(pending, liveFlows, concurrentFlows, flowTrace)
  BY DEF BooksInv
<1>4. /\ meta \in Seq(Entry) /\ Len(meta) \in Nat
      /\ NewEntry(size, now') \in Entry
      /\ NewEntry(size, now').finished = FALSE
  BY <1>1, <1>3 DEF Listed, Entry, NewEntry
<1>5. /\ Listed(meta', flow', liveFlows') /\ Len(meta) + 1 \notin liveFlows
      /\ Counted(meta', completed', sum_fct', cnt_small', cnt_large')
  BY <1>2, <1>3, <1>4, ListedCreate, CountedCreate, Zenon
<1>6. /\ Lone(pending) /\ ~None(pending) /\ None(Tail(pending))
  <2>1. Due(Head(pending).at, Head(pending).src)
    BY <1>1 DEF Due
  <2> QED
    BY <1>1, <1>3, <2>1, EventTaken, Zenon DEF LoadInv
<1>7. p \in Seq(Event) /\ None(p) /\ Grown(Tail(pending), p)
  <2>1. /\ ~Due(now' + delay, Flow(Len(meta) + 1))
        /\ Flow(Len(meta) + 1) \in Sources
    BY <1>4 DEF Due, Flow, Generator, Sources
  <2>2. PICK at \in Nat : at = now' + delay
    BY <1>1, NatSum, Zenon
  <2> QED
    BY <1>1, <1>6, <2>1, <2>2, EventPending, GrownIs, Zenon
<1>8. /\ pending' \in Seq(Event)
      /\ Lone(pending')
      /\ ~None(pending') => more
  <2>1. CASE more
    <3>1. PICK at \in Nat : pending' = SourceIsPending(p, endtime, at, Generator)
      BY <2>1
    <3> QED
      BY <1>1, <1>7, <2>1, <3>1, EventPending, Zenon
  <2>2. CASE ~more
    <3>1. Lone(p)
      BY <1>7 DEF None, Lone
    <3> QED
      BY <1>7, <2>2, <3>1, Zenon
  <2> QED
    BY <2>1, <2>2
<1>9. LoadInv(pending', liveFlows', concurrentFlows', flowTrace')
  <2>1. /\ concurrentFlows \in Nat
        /\ mode = "closed" => /\ concurrentFlows < MaxFlows
                              /\ Cardinality(liveFlows) = concurrentFlows
    BY <1>3, <1>6, Zenon DEF LoadInv
  <2>2. Cardinality(liveFlows') = Cardinality(liveFlows) + 1
    <3>1. IsFiniteSet(liveFlows)
      <4>1. IsFiniteSet(1 .. Len(meta)) /\ liveFlows \in SUBSET (1 .. Len(meta))
        BY <1>3, <1>4, FS_Interval DEF Listed
      <4> QED
        BY <4>1, FS_Subset
    <3> QED
      BY <1>5, <3>1, FS_AddElement
  <2>3. /\ concurrentFlows' \in Nat
        /\ mode = "closed" => Cardinality(liveFlows') = concurrentFlows'
                              /\ concurrentFlows' <= MaxFlows
    BY <2>1, <2>2, Given
  <2> QED
    BY <1>8, <2>3, Zenon DEF LoadInv
<1>10. SummaryInv(pending', summaries', flushed', completed')
  BY <1>1, <1>2, SummaryKept, Zenon
<1>11. Grown(Tail(pending), pending')
  BY <1>1, <1>7, GrownIs, GrownChain, Zenon
<1> QED
  BY <1>1, <1>5, <1>8, <1>9, <1>10, <1>11, BooksHold, Zenon

\* An arrival of the open or the closed loop keeps the books.
LEMMA ArrivalStep ==
    ASSUME BooksInv, ArrivalEvent
    PROVE  BooksInv' /\ Grown(Tail(pending), pending')
<1>1. /\ Take(Generator) /\ now' # StopTime /\ mode # "trace"
      /\ concurrentFlows' = concurrentFlows + 1
      /\ UNCHANGED <<flowTrace, stats, summaries>>
  BY DEF ArrivalEvent, AtEnd
<1>2. PICK size \in Sizes, jitter \in Jitters, gap \in Gaps :
         Become(IF MoreArrivals(concurrentFlows')
                THEN Schedule(CreateFlow(Rest, size, jitter, now'), now' + gap, Generator)
                ELSE CreateFlow(Rest, size, jitter, now'))
  BY Zenon DEF ArrivalEvent
<1>3. now' \in Nat /\ size \in Nat /\ jitter \in Nat /\ gap \in Nat
  BY <1>1, TakeIs, Given, Zenon
<1>4. PICK t, p, l, m, f :
         /\ t \in Nat /\ t = now'
         /\ p = SourceIsPending(Tail(pending), endtime, t + jitter, Flow(Len(meta) + 1))
         /\ l = liveFlows \cup {Len(meta) + 1}
         /\ m = Append(meta, NewEntry(size, t))
         /\ f = Append(flow, "waiting")
  BY <1>3
<1>5. CreateFlow(Rest, size, jitter, t) = Books(p, l, m, f)
  BY <1>4, RestIs, CreateFlowIs
<1>6. PICK at, p2 : at \in Nat /\ at = t + gap /\ p2 = SourceIsPending(p, endtime, at, Generator)
  <2>1. t + gap \in Nat
    BY <1>3, <1>4, NatSum, Zenon
  <2> QED
    BY <2>1
<1>7. Schedule(Books(p, l, m, f), at, Generator) = Books(p2, l, m, f)
  BY <1>6, ScheduleIs
<1>8. TraceInv(flowTrace') /\ flowTrace' = flowTrace
  BY <1>1 DEF BooksInv, TraceInv
<1>9. CASE MoreArrivals(concurrentFlows')
  <2>1. Become(Books(p2, l, m, f))
    BY <1>2, <1>4, <1>5, <1>6, <1>7, <1>9, Zenon
  <2>2. pending' = p2 /\ liveFlows' = l /\ meta' = m /\ flow' = f
    BY <2>1, BecomeIs, Zenon
  <2>3. mode = "closed" => concurrentFlows' < MaxFlows
    BY <1>9, Zenon DEF MoreArrivals
  <2>4. \E x \in Nat : pending' = SourceIsPending(p, endtime, x, Generator)
    BY <1>6, <2>2, Zenon
  <2>5. /\ p = SourceIsPending(Tail(pending), endtime, now' + jitter, Flow(Len(meta) + 1))
        /\ liveFlows' = liveFlows \cup {Len(meta) + 1}
        /\ meta' = Append(meta, NewEntry(size, now'))
        /\ flow' = Append(flow, "waiting")
    BY <1>4, <2>2, Zenon
  <2>6. UNCHANGED <<stats, summaries>>
    BY <1>1
  <2> QED
    BY <1>1, <1>3, <1>8, <2>3, <2>4, <2>5, <2>6, ArrivalKeeps, Zenon
<1>10. CASE ~MoreArrivals(concurrentFlows')
  <2>1. Become(Books(p, l, m, f))
    BY <1>2, <1>4, <1>5, <1>10, Zenon
  <2>2. pending' = p /\ liveFlows' = l /\ meta' = m /\ flow' = f
    BY <2>1, BecomeIs, Zenon
  <2>3. /\ p = SourceIsPending(Tail(pending), endtime, now' + jitter, Flow(Len(meta) + 1))
        /\ liveFlows' = liveFlows \cup {Len(meta) + 1}
        /\ meta' = Append(meta, NewEntry(size, now'))
        /\ flow' = Append(flow, "waiting")
    BY <1>4, <2>2, Zenon
  <2>4. UNCHANGED <<stats, summaries>>
    BY <1>1
  <2> QED
    BY <1>1, <1>3, <1>8, <2>2, <2>3, <2>4, ArrivalKeeps, Zenon
<1> QED
  BY <1>9, <1>10

\* An arrival of a trace keeps the books.
LEMMA TraceStep ==
    ASSUME BooksInv, TraceEvent
    PROVE  /\ BooksInv' /\ Grown(Tail(pending), pending')
           /\ flowTrace' # <<>> /\ Head(flowTrace').at <= endtime
                 => Awaited(pending', Head(flowTrace').at, Generator)
<1>1. /\ Take(Generator) /\ now' # StopTime /\ mode = "trace"
      /\ concurrentFlows' = concurrentFlows + 1
      /\ flowTrace' = Tail(flowTrace)
      /\ UNCHANGED <<stats, summaries>>
  BY DEF TraceEvent, AtEnd
<1>2. PICK jitter \in Jitters :
         Become(IF flowTrace' = <<>> THEN CreateFlow(Rest, Head(flowTrace).size, jitter, now')
                ELSE Schedule(CreateFlow(Rest, Head(flowTrace).size, jitter, now'),
                              Head(flowTrace').at, Generator))
  BY Zenon DEF TraceEvent
<1>3. /\ now' \in Nat /\ jitter \in Nat
      /\ Head(pending).src = Generator /\ Head(pending).at = now'
      /\ pending # <<>> /\ pending \in Seq(Event)
  BY <1>1, TakeIs, Given, Zenon
<1>4. flowTrace # <<>> /\ flowTrace \in Seq([at : Nat, size : Nat \ {0}])
  <2>1. /\ LoadInv(pending, liveFlows, concurrentFlows, flowTrace)
        /\ TraceInv(flowTrace)
    BY DEF BooksInv
  <2>2. ~None(pending)
    <3>1. Due(Head(pending).at, Head(pending).src)
      BY <1>1, <1>3 DEF Due
    <3> QED
      BY <1>3, <2>1, <3>1, EventTaken, Zenon DEF LoadInv
  <2> QED
    BY <1>1, <2>1, <2>2, Zenon DEF LoadInv, TraceInv
<1>5. /\ Head(flowTrace).size \in Nat
      /\ flowTrace' \in Seq([at : Nat, size : Nat \ {0}])
      /\ flowTrace' # <<>> => Head(flowTrace').at \in Nat
  <2>1. Head(flowTrace) \in [at : Nat, size : Nat \ {0}]
    BY <1>4, HeadTailProperties, Zenon
  <2>2. flowTrace' \in Seq([at : Nat, size : Nat \ {0}])
    BY <1>1, <1>4, HeadTailProperties, Zenon
  <2>3. flowTrace' # <<>> => Head(flowTrace') \in [at : Nat, size : Nat \ {0}]
    BY <2>2, HeadTailProperties, Zenon
  <2> QED
    BY <2>1, <2>2, <2>3
<1>6. TraceInv(flowTrace')
  BY <1>5 DEF TraceInv
<1>7. PICK size \in Nat : size = Head(flowTrace).size
  BY <1>5
<1>8. PICK t, p, l, m, f :
         /\ t \in Nat /\ t = now'
         /\ p = SourceIsPending(Tail(pending), endtime, t + jitter, Flow(Len(meta) + 1))
         /\ l = liveFlows \cup {Len(meta) + 1}
         /\ m = Append(meta, NewEntry(size, t))
         /\ f = Append(flow, "waiting")
  BY <1>3
<1>9. CreateFlow(Rest, size, jitter, t) = Books(p, l, m, f)
  BY <1>8, RestIs, CreateFlowIs
<1>10. ASSUME pending' = p \/ \E at \in Nat : pending' = SourceIsPending(p, endtime, at, Generator),
              pending' = p \/ flowTrace' # <<>>,
              liveFlows' = l /\ meta' = m /\ flow' = f
       PROVE  BooksInv' /\ Grown(Tail(pending), pending')
  <2>1. /\ p = SourceIsPending(Tail(pending), endtime, now' + jitter, Flow(Len(meta) + 1))
        /\ liveFlows' = liveFlows \cup {Len(meta) + 1}
        /\ meta' = Append(meta, NewEntry(size, now'))
        /\ flow' = Append(flow, "waiting")
    BY <1>8, <1>10, Zenon
  <2>2. mode # "closed"
    BY <1>1
  <2>3. CASE pending' = p
    BY <1>1, <1>3, <1>6, <2>1, <2>2, <2>3, ArrivalKeeps, Zenon
  <2>4. CASE pending' # p
    BY <1>1, <1>3, <1>6, <1>10, <2>1, <2>2, <2>4, ArrivalKeeps, Zenon
  <2> QED
    BY <2>3, <2>4
<1>11. CASE flowTrace' = <<>>
  <2>1. Become(Books(p, l, m, f))
    BY <1>2, <1>7, <1>8, <1>9, <1>11, Zenon
  <2> QED
    BY <1>10, <1>11, <2>1, BecomeIs, Zenon
<1>12. CASE flowTrace' # <<>>
  <2>1. PICK at, p2 : at \in Nat /\ at = Head(flowTrace').at
                              /\ p2 = SourceIsPending(p, endtime, at, Generator)
    BY <1>5, <1>12
  <2>2. Schedule(Books(p, l, m, f), at, Generator) = Books(p2, l, m, f)
    BY <2>1, ScheduleIs
  <2>3. Become(Books(p2, l, m, f))
    BY <1>2, <1>7, <1>8, <1>9, <1>12, <2>1, <2>2, Zenon
  <2>4. pending' = p2 /\ liveFlows' = l /\ meta' = m /\ flow' = f
    BY <2>3, BecomeIs, Zenon
  <2>5. \E x \in Nat : pending' = SourceIsPending(p, endtime, x, Generator)
    BY <2>1, <2>4, Zenon
  <2>6. at <= endtime => Awaited(p2, at, Generator)
    <3>1. p \in Seq(Event)
      <4>1. PICK x \in Nat : x = t + jitter
        BY <1>3, <1>8, NatSum, Zenon
      <4>2. Tail(pending) \in Seq(Event) /\ Flow(Len(meta) + 1) \in Sources
        <5>1. Len(meta) + 1 \in Nat
          BY DEF BooksInv, Listed
        <5>2. Tail(pending) \in Seq(Event)
          BY <1>1, TakeIs, Zenon
        <5> QED
          BY <5>1, <5>2 DEF Sources
      <4> QED
        BY <1>8, <4>1, <4>2, EventPending, Zenon
    <3>2. Generator \in Sources
      BY DEF Sources
    <3> QED
      BY <2>1, <3>1, <3>2, GrownIs, Zenon
  <2>7. BooksInv' /\ Grown(Tail(pending), pending')
    BY <1>10, <1>12, <2>4, <2>5, Zenon
  <2> QED
    BY <1>12, <2>1, <2>4, <2>6, <2>7, Zenon
<1> QED
  BY <1>11, <1>12

\* Events of flows are not arrivals.
LEMMA FlowEvent ==
    ASSUME NEW q \in Seq(Event), NEW at \in Nat, NEW id \in Nat
    PROVE  /\ SourceIsPending(q, endtime, at, Flow(id)) \in Seq(Event)
           /\ Lone(q) => Lone(SourceIsPending(q, endtime, at, Flow(id)))
           /\ None(q) => None(SourceIsPending(q, endtime, at, Flow(id)))
           /\ Grown(q, SourceIsPending(q, endtime, at, Flow(id)))
<1>1. ~Due(at, Flow(id)) /\ Flow(id) \in Sources
  BY DEF Due, Flow, Generator, Sources
<1> QED
  BY <1>1, EventPending, GrownIs, Zenon

\* The finish of a flow keeps the books, with the arrival that the closed loop
\* schedules in its place.
LEMMA FinishStep ==
    ASSUME BooksInv, NEW id \in Flows, FinishEvent(id)
    PROVE  BooksInv' /\ Grown(Tail(pending), pending')
<1> DEFINE n == Len(meta)
<1>1. /\ Take(Flow(id)) /\ flow[id] = "running"
      /\ NoteFlowFinish(id, now')
      /\ summaries' = IF mode # "closed" /\ liveFlows' = {}
                      THEN Append(summaries, completed') ELSE summaries
      /\ UNCHANGED <<flowTrace, concurrentFlows>>
  BY DEF FinishEvent
<1>2. /\ pending # <<>> /\ pending \in Seq(Event)
      /\ now' \in Nat /\ Tail(pending) \in Seq(Event)
      /\ mode' = mode /\ endtime' = endtime /\ flushed' = flushed
      /\ flushed = FALSE
  BY <1>1, TakeIs, Zenon
<1>3. /\ Listed(meta, flow, liveFlows)
      /\ Counted(meta, completed, sum_fct, cnt_small, cnt_large)
      /\ LoadInv(pending, liveFlows, concurrentFlows, flowTrace)
      /\ TraceInv(flowTrace)
  BY DEF BooksInv
<1>4. /\ meta \in Seq(Entry) /\ n \in Nat /\ id \in 1 .. n /\ id \in Nat
      /\ flow[id] \in Live /\ flow[id] \notin Done
      /\ ~meta[id].finished
      /\ liveFlows \in SUBSET (1 .. n)
  <2>1. meta \in Seq(Entry) /\ id \in 1 .. n
    BY <1>3 DEF Listed, Flows
  <2>2. flow[id] \in Live /\ flow[id] \notin Done
    BY <1>1 DEF Live, Done
  <2>3. ~meta[id].finished
    BY <1>3, <2>1, <2>2 DEF Listed
  <2>4. liveFlows \in SUBSET (1 .. n)
    BY <1>3 DEF Listed
  <2> QED
    BY <2>1, <2>2, <2>3, <2>4
<1>5. PICK t, l, m, f :
         /\ t \in Nat /\ t = now'
         /\ l = liveFlows \ {id}
         /\ m = [meta EXCEPT ![id] = Ended(@, t)]
         /\ f = [flow EXCEPT ![id] = "finished"]
  BY <1>2
<1>6. /\ Listed(m, f, l) /\ id \in liveFlows
      /\ Counted(m, completed', sum_fct', cnt_small', cnt_large')
      /\ Len(m) = n /\ m \in Seq(Entry)
  <2>1. Listed(m, f, l) /\ id \in liveFlows
    BY <1>3, <1>4, <1>5, ListedFinish, Zenon
  <2>2. Len(m) = n
    BY <1>4, <1>5
  <2>3. /\ completed' = completed + 1
        /\ sum_fct' = sum_fct + (t - meta[id].start)
        /\ cnt_small' = cnt_small + (IF IsSmall(meta[id].size) THEN 1 ELSE 0)
        /\ cnt_large' = cnt_large + (IF IsSmall(meta[id].size) THEN 0 ELSE 1)
    BY <1>1, <1>5, Zenon DEF NoteFlowFinish
  <2>4. Counted(m, completed', sum_fct', cnt_small', cnt_large')
    BY <1>3, <1>4, <1>5, <2>3, CountedFinish, Zenon
  <2> QED
    BY <2>1, <2>2, <2>4, Zenon DEF Listed
<1>7. /\ Lone(pending) => Lone(Tail(pending))
      /\ None(pending) => None(Tail(pending))
  BY <1>2, EventTaken, Zenon
<1>8. SummaryInv(pending', summaries', flushed', completed')
  <2>1. completed' \in Nat
    BY <1>6 DEF Counted
  <2>2. \/ summaries' = summaries
        \/ \E x \in Nat : summaries' = Append(summaries, x)
    BY <1>1, <2>1, Zenon
  <2> QED
    BY <1>2, <2>2, SummaryKept, Zenon
<1>9. /\ flowTrace' = flowTrace /\ concurrentFlows' = concurrentFlows
      /\ TraceInv(flowTrace')
  BY <1>1, <1>3
<1>10. /\ IsFiniteSet(liveFlows) /\ IsFiniteSet(l)
       /\ Cardinality(liveFlows) \in Nat /\ Cardinality(l) = Cardinality(liveFlows) - 1
  <2>1. IsFiniteSet(1 .. n)
    BY <1>4, FS_Interval
  <2>2. IsFiniteSet(liveFlows) /\ Cardinality(liveFlows) \in Nat
    BY <1>4, <2>1, FS_Subset, FS_CardinalityType
  <2> QED
    BY <1>5, <1>6, <2>2, FS_RemoveElement
<1>11. \/ /\ mode = "closed"
          /\ \E size \in Sizes, sleep \in Sleeps, jitter \in Jitters :
                Become(Schedule(CreateFlow(Books(Tail(pending), l, m, f),
                                           size, sleep + jitter, t),
                                t + 1, Flow(id)))
       \/ /\ mode # "closed"
          /\ Become(Schedule(Books(Tail(pending), l, m, f), t + 1, Flow(id)))
  <2>1. Books(Tail(pending), l, m, f) =
            [pending |-> Tail(pending), live |-> Erase(liveFlows, id),
             meta |-> [meta EXCEPT ![id] = Ended(@, t)],
             flow |-> [flow EXCEPT ![id] = "finished"]]
    BY <1>5, Zenon DEF Books, Erase
  <2>2. \/ /\ mode = "closed"
           /\ \E size \in Sizes, sleep \in Sleeps, jitter \in Jitters :
                 Become(Schedule(CreateFlow([pending |-> Tail(pending), live |-> Erase(liveFlows, id),
                                             meta |-> [meta EXCEPT ![id] = Ended(@, now')],
                                             flow |-> [flow EXCEPT ![id] = "finished"]],
                                            size, sleep + jitter, now'),
                                 now' + 1, Flow(id)))
        \/ /\ mode # "closed"
           /\ Become(Schedule([pending |-> Tail(pending), live |-> Erase(liveFlows, id),
                               meta |-> [meta EXCEPT ![id] = Ended(@, now')],
                               flow |-> [flow EXCEPT ![id] = "finished"]], now' + 1, Flow(id)))
    BY Zenon DEF FinishEvent
  <2> QED
    BY <1>5, <2>1, <2>2, Zenon
<1> HIDE DEF n
<1>12. PICK at \in Nat : at = t + 1
  BY <1>5, NatSum, Zenon
<1>13. CASE mode = "closed"
  <2>1. PICK size \in Sizes, sleep \in Sleeps, jitter \in Jitters :
                Become(Schedule(CreateFlow(Books(Tail(pending), l, m, f),
                                           size, sleep + jitter, t),
                                t + 1, Flow(id)))
    BY <1>11, <1>13, Zenon
  <2>2. size \in Nat /\ sleep \in Nat /\ jitter \in Nat
    BY Given, Zenon
  <2>3. PICK delay \in Nat : delay = sleep + jitter
    BY <2>2
  <2>4. PICK at2 \in Nat : at2 = t + delay
    BY <1>5, NatSum, Zenon
  <2>5. PICK p, p2 :
           /\ p = SourceIsPending(Tail(pending), endtime, t + delay, Flow(Len(m) + 1))
           /\ p2 = SourceIsPending(p, endtime, at, Flow(id))
    OBVIOUS
  <2>6. PICK l2, m2, f2 : /\ l2 = l \cup {Len(m) + 1}
                          /\ m2 = Append(m, NewEntry(size, t))
                          /\ f2 = Append(f, "waiting")
    OBVIOUS
  <2>7. CreateFlow(Books(Tail(pending), l, m, f), size, delay, t) = Books(p, l2, m2, f2)
    <3>1. CreateFlow(Books(Tail(pending), l, m, f), size, delay, t) =
              Books(SourceIsPending(Tail(pending), endtime, t + delay, Flow(Len(m) + 1)),
                    l \cup {Len(m) + 1}, Append(m, NewEntry(size, t)),
                    Append(f, "waiting"))
      BY CreateFlowIs
    <3> QED
      BY <2>5, <2>6, <3>1, Zenon
  <2>8. Schedule(Books(p, l2, m2, f2), at, Flow(id)) = Books(p2, l2, m2, f2)
    BY <2>5, ScheduleIs
  <2>9. Become(Books(p2, l2, m2, f2))
    BY <1>12, <2>1, <2>3, <2>7, <2>8, Zenon
  <2>10. pending' = p2 /\ liveFlows' = l2 /\ meta' = m2 /\ flow' = f2
    BY <2>9, BecomeIs, Zenon
  <2>11. NewEntry(size, t) \in Entry /\ NewEntry(size, t).finished = FALSE
    BY <1>5, <2>2 DEF NewEntry, Entry
  <2>12. /\ Listed(meta', flow', liveFlows') /\ Len(m) + 1 \notin l
         /\ Counted(meta', completed', sum_fct', cnt_small', cnt_large')
    BY <1>6, <2>6, <2>10, <2>11, ListedCreate, CountedCreate, Zenon
  <2>13. /\ p2 \in Seq(Event)
         /\ Lone(pending) => Lone(p2)
         /\ None(pending) => None(p2)
         /\ Grown(Tail(pending), p2)
    <3>1. Len(m) + 1 \in Nat
      BY <1>4, <1>6
    <3> QED
      BY <1>2, <1>4, <1>7, <2>4, <2>5, <3>1, FlowEvent, GrownChain, Zenon
  <2>14. Cardinality(liveFlows') = Cardinality(liveFlows)
    <3>1. Cardinality(l2) = Cardinality(l) + 1
      BY <1>10, <2>6, <2>12, FS_AddElement
    <3> QED
      BY <1>10, <2>10, <3>1
  <2>15. LoadInv(pending', liveFlows', concurrentFlows', flowTrace')
    BY <1>3, <1>9, <2>10, <2>13, <2>14, Zenon DEF LoadInv
  <2> QED
    BY <1>2, <1>8, <1>9, <2>10, <2>12, <2>13, <2>15, BooksHold, Zenon
<1>14. CASE mode # "closed"
  <2>1. PICK p2 : p2 = SourceIsPending(Tail(pending), endtime, at, Flow(id))
    OBVIOUS
  <2>2. Schedule(Books(Tail(pending), l, m, f), at, Flow(id)) = Books(p2, l, m, f)
    BY <2>1, ScheduleIs
  <2>3. Become(Books(p2, l, m, f))
    BY <1>11, <1>12, <1>14, <2>2, Zenon
  <2>4. pending' = p2 /\ liveFlows' = l /\ meta' = m /\ flow' = f
    BY <2>3, BecomeIs, Zenon
  <2>5. /\ p2 \in Seq(Event)
        /\ Lone(pending) => Lone(p2)
        /\ None(pending) => None(p2)
        /\ Grown(Tail(pending), p2)
    BY <1>2, <1>4, <1>7, <2>1, FlowEvent, Zenon
  <2>6. LoadInv(pending', liveFlows', concurrentFlows', flowTrace')
    BY <1>3, <1>9, <1>14, <2>4, <2>5, Zenon DEF LoadInv
  <2>7. /\ Listed(meta', flow', liveFlows')
        /\ Counted(meta', completed', sum_fct', cnt_small', cnt_large')
    BY <1>6, <2>4, Zenon
  <2> QED
    BY <1>2, <1>8, <1>9, <2>4, <2>5, <2>6, <2>7, BooksHold, Zenon
<1> QED
  BY <1>13, <1>14

\* The sampler does not touch the books.
LEMMA SampleStep ==
    ASSUME BooksInv, SampleEvent
    PROVE  BooksInv' /\ Grown(Tail(pending), pending')
<1>1. /\ Take(Sampler)
      /\ Become(Schedule(Rest, now' + SamplePeriod, Sampler))
      /\ UNCHANGED <<flowTrace, concurrentFlows, stats, summaries, scheme>>
  BY DEF SampleEvent
<1>2. /\ pending # <<>> /\ pending \in Seq(Event)
      /\ now' \in Nat /\ Tail(pending) \in Seq(Event)
      /\ mode' = mode /\ endtime' = endtime /\ flushed' = flushed
      /\ flushed = FALSE
  BY <1>1, TakeIs, Zenon
<1>3. /\ flowTrace' = flowTrace /\ concurrentFlows' = concurrentFlows
      /\ completed' = completed /\ sum_fct' = sum_fct
      /\ cnt_small' = cnt_small /\ cnt_large' = cnt_large /\ summaries' = summaries
  BY <1>1 DEF stats
<1>4. /\ Listed(meta, flow, liveFlows)
      /\ Counted(meta, completed, sum_fct, cnt_small, cnt_large)
      /\ LoadInv(pending, liveFlows, concurrentFlows, flowTrace)
      /\ TraceInv(flowTrace)
  BY DEF BooksInv
<1>5. PICK at \in Nat : at = now' + SamplePeriod
  <2>1. SamplePeriod \in Nat
    BY TestbedAssumption
  <2> QED
    BY <1>2, <2>1, NatSum, Zenon
<1>6. PICK p : p = SourceIsPending(Tail(pending), endtime, at, Sampler)
  OBVIOUS
<1>7. Schedule(Books(Tail(pending), liveFlows, meta, flow), at, Sampler) =
          Books(p, liveFlows, meta, flow)
  BY <1>6, ScheduleIs
<1>8. Become(Books(p, liveFlows, meta, flow))
  BY <1>1, <1>5, <1>7, RestIs, Zenon
<1>9. pending' = p /\ liveFlows' = liveFlows /\ meta' = meta /\ flow' = flow
  BY <1>8, BecomeIs, Zenon
<1>10. /\ p \in Seq(Event)
       /\ Lone(pending) => Lone(p)
       /\ None(pending) => None(p)
       /\ Grown(Tail(pending), p)
  <2>1. ~Due(at, Sampler) /\ Sampler \in Sources
    BY DEF Due, Sampler, Generator, Sources
  <2> QED
    BY <1>2, <1>6, <2>1, EventTaken, EventPending, GrownIs, Zenon
<1>11. LoadInv(pending', liveFlows', concurrentFlows', flowTrace')
  BY <1>3, <1>4, <1>9, <1>10, Zenon DEF LoadInv
<1>12. SummaryInv(pending', summaries', flushed', completed')
  BY <1>2, <1>3, SummaryKept, Zenon
<1> QED
  BY <1>2, <1>3, <1>4, <1>9, <1>10, <1>11, <1>12, BooksHold, Zenon

\* The books are right at the start.
LEMMA BooksInit ==
    ASSUME TestbedInit
    PROVE  BooksInv
<1> DEFINE events == IF scheme \in {"ecmp", "conga"}
                     THEN SourceIsPending(<<>>, endtime, SamplePeriod, Sampler)
                     ELSE <<>>
           first == IF mode = "trace" THEN Head(flowTrace).at ELSE 0
           q == SourceIsPending(events, endtime, first, Generator)
<1>1. InitWith(events)
  BY DEF TestbedInit
<1>2. /\ flowTrace \in IF mode = "trace" THEN Traces ELSE {<<>>}
      /\ concurrentFlows = 0 /\ liveFlows = {} /\ meta = <<>>
      /\ completed = 0 /\ sum_fct = 0 /\ cnt_small = 0 /\ cnt_large = 0
      /\ summaries = <<>> /\ flushed = FALSE /\ flow = <<>>
      /\ pending = SourceIsPending(q, endtime, StopTime, Generator)
  BY <1>1 DEF InitWith
<1>3. mode = "trace" => flowTrace # <<>> /\ flowTrace \in Seq([at : Nat, size : Nat \ {0}])
  BY <1>2, Given, Zenon
<1>4. first \in Nat
  <2>1. CASE mode = "trace"
    <3>1. Head(flowTrace) \in [at : Nat, size : Nat \ {0}]
      BY <1>3, <2>1, HeadTailProperties, Zenon
    <3> QED
      BY <2>1, <3>1
  <2>2. CASE mode # "trace"
    BY <2>2
  <2> QED
    BY <2>1, <2>2
<1>5. events \in Seq(Event) /\ None(events)
  <2>1. <<>> \in Seq(Event) /\ None(<<>>)
    BY DEF None
  <2>2. SamplePeriod \in Nat
    BY TestbedAssumption
  <2>3. ~Due(SamplePeriod, Sampler) /\ Sampler \in Sources
    BY DEF Due, Sampler, Generator, Sources
  <2>4. /\ SourceIsPending(<<>>, endtime, SamplePeriod, Sampler) \in Seq(Event)
        /\ None(SourceIsPending(<<>>, endtime, SamplePeriod, Sampler))
    BY <2>1, <2>2, <2>3, EventPending, Zenon
  <2> QED
    BY <2>1, <2>4
<1> HIDE DEF events, first
<1>6. q \in Seq(Event) /\ Lone(q) /\ Generator \in Sources
  <2>1. Generator \in Sources
    BY DEF Sources
  <2> QED
    BY <1>4, <1>5, <2>1, EventPending, Zenon
<1> HIDE DEF q
<1>7. pending \in Seq(Event) /\ Lone(pending)
  <2>1. ~Due(StopTime, Generator) /\ StopTime \in Nat
    BY Given DEF Due
  <2> QED
    BY <1>2, <1>6, <2>1, EventPending, Zenon
<1>8. Listed(meta, flow, liveFlows)
  <2>1. /\ <<>> \in Seq(Entry) /\ <<>> \in Seq(Live \cup Done) /\ Len(<<>>) = 0
        /\ 1 .. 0 = {}
    OBVIOUS
  <2> QED
    BY <1>2, <2>1 DEF Listed
<1>9. Counted(meta, completed, sum_fct, cnt_small, cnt_large)
  BY <1>2, CountedEmpty, Zenon
<1>10. TraceInv(flowTrace)
  BY <1>3 DEF TraceInv
<1>11. LoadInv(pending, liveFlows, concurrentFlows, flowTrace)
  <2>1. Cardinality({}) = 0 /\ 0 \in Nat /\ 0 < MaxFlows /\ 0 <= MaxFlows
    BY FS_EmptySet, Given
  <2> QED
    BY <1>2, <1>3, <1>7, <2>1, Zenon DEF LoadInv
<1>12. SummaryInv(pending, summaries, flushed, completed)
  <2>1. <<>> \in Seq(Nat)
    OBVIOUS
  <2> QED
    BY <1>2, <2>1, Zenon DEF SummaryInv
<1> QED
  BY <1>7, <1>8, <1>9, <1>10, <1>11, <1>12 DEF BooksInv

\* The books stay right when nothing moves.
LEMMA BooksStutter ==
    ASSUME BooksInv, UNCHANGED vars
    PROVE  BooksInv'
<1>1. /\ pending' = pending /\ liveFlows' = liveFlows /\ meta' = meta
      /\ flow' = flow /\ mode' = mode
      /\ flowTrace' = flowTrace /\ concurrentFlows' = concurrentFlows
      /\ completed' = completed /\ sum_fct' = sum_fct
      /\ cnt_small' = cnt_small /\ cnt_large' = cnt_large
      /\ summaries' = summaries /\ flushed' = flushed
  BY DEF vars, stats
<1>2. /\ pending \in Seq(Event)
      /\ Listed(meta, flow, liveFlows)
      /\ Counted(meta, completed, sum_fct, cnt_small, cnt_large)
      /\ TraceInv(flowTrace)
      /\ LoadInv(pending, liveFlows, concurrentFlows, flowTrace)
      /\ SummaryInv(pending, summaries, flushed, completed)
  BY DEF BooksInv
<1> QED
  BY <1>1, <1>2, BooksHold, Zenon

\* THE INVARIANT BEHIND THE BOOKS, for every workload, every number of flows
\* and every order of the finishes: table, states and live set agree, the
\* summary is that of the table, at most one arrival is pending, and in the
\* closed loop the live flows and the arrival to come make up the load.
THEOREM BooksAreKept == TestbedSpec => []BooksInv
<1>1. TestbedInit => BooksInv
  BY BooksInit
<1>2. BooksInv /\ [TestbedNext]_testbedVars => BooksInv'
  <2> SUFFICES ASSUME BooksInv, [TestbedNext]_testbedVars
               PROVE  BooksInv'
    OBVIOUS
  <2>1. ASSUME Next PROVE BooksInv'
    BY <2>1, StopStep, ArrivalStep, TraceStep, FlushStep, StartStep, FinishStep,
       DeleteStep, Zenon DEF Next
  <2>2. CASE TestbedNext
    BY <2>1, <2>2, SampleStep, Zenon DEF TestbedNext, GeneratorStep
  <2>3. CASE UNCHANGED testbedVars
    <3>1. UNCHANGED vars
      BY <2>3 DEF testbedVars
    <3> QED
      BY <3>1, BooksStutter, Zenon
  <2> QED
    BY <2>2, <2>3
<1> QED
  BY <1>1, <1>2, PTL DEF TestbedSpec

\* The generator finds every flow that it has to find: liveFlows holds the
\* flows that were created and have not finished, and finishFlow erases exactly
\* the one that finishes.
THEOREM LiveFlowsAreThere == TestbedSpec => []LiveFlowsExist
<1>1. BooksInv => LiveFlowsExist
  BY DEF BooksInv, Listed, LiveFlowsExist, Flows, Live
<1> QED
  BY <1>1, BooksAreKept, PTL

\* In the closed loop as many flows run as were asked for, or one fewer with
\* its arrival pending: no finish loses a flow of the load or doubles it.
THEOREM TheLoadIsKept == TestbedSpec => []LoadIsKept
<1>1. BooksInv => LoadIsKept
  BY Zenon DEF BooksInv, LoadInv, LoadIsKept
<1> QED
  BY <1>1, BooksAreKept, PTL

\* The summary that is written adds up: every flow is counted once, when it
\* finishes, as small or as large, and the sum of completion times is that of
\* the flows that finished.
THEOREM FlowsAreAccounted == TestbedSpec => []FlowsAccounted
<1>1. BooksInv => FlowsAccounted
  <2> SUFFICES ASSUME BooksInv PROVE FlowsAccounted
    OBVIOUS
  <2>1. /\ Listed(meta, flow, liveFlows)
        /\ Counted(meta, completed, sum_fct, cnt_small, cnt_large)
        /\ SummaryInv(pending, summaries, flushed, completed)
    BY DEF BooksInv
  <2>2. FinishedOf(meta) = {id \in Flows : meta[id].finished}
    BY DEF FinishedOf, Flows
  <2>3. SmallOf(meta) = {id \in {i \in Flows : meta[i].finished} : meta[id].size < SMALL_TH}
    BY <2>2, Zenon DEF SmallOf
  <2>4. TimesOf(meta) = [id \in Flows |-> IF meta[id].finished
                                          THEN meta[id].end - meta[id].start ELSE 0]
    BY Zenon DEF TimesOf, Flows
  <2>5. Flows = liveFlows \cup FinishedOf(meta)
    <3>1. \A id \in 1 .. Len(meta) :
             /\ meta[id].finished <=> flow[id] \in Done
             /\ flow[id] \in Live \cup Done
      BY <2>1 DEF Listed
    <3>2. liveFlows = {id \in 1 .. Len(meta) : flow[id] \in Live}
      BY <2>1 DEF Listed
    <3> QED
      BY <3>1, <3>2 DEF FinishedOf, Flows
  <2>6. /\ completed = Cardinality(FinishedOf(meta))
        /\ cnt_small = Cardinality(SmallOf(meta))
        /\ cnt_large = completed - cnt_small
        /\ sum_fct = Total(TimesOf(meta))
    BY <2>1 DEF Counted
  <2>7. flushed => summaries[Len(summaries)] = Cardinality(FinishedOf(meta))
    BY <2>1, <2>6 DEF SummaryInv
  <2> QED
    BY <2>2, <2>3, <2>4, <2>5, <2>6, <2>7, Zenon DEF FlowsAccounted
<1> QED
  BY <1>1, BooksAreKept, PTL

----------------------------------------------------------------------------
(* How a run ends *)

\* The stop event stays in the list until it is handled, unless it is too late
\* for the simulation, and so does the arrival of the trace's next flow, unless
\* it is taken for the stop event.
EndsInv ==
    /\ endtime \in Nat \ {0} /\ InTime(pending)
    /\ StopTime <= endtime => \/ Awaited(pending, StopTime, Generator)
                              \/ summaries # <<>>
    /\ mode # "trace" => flowTrace = <<>>
    /\ flowTrace # <<>> => \/ Awaited(pending, Head(flowTrace).at, Generator)
                           \/ ~(Head(flowTrace).at <= endtime)
                           \/ Head(flowTrace).at = StopTime
    /\ mode = "closed" /\ StopTime > endtime /\ ~flushed => summaries = <<>>
    /\ EndsAsPlanned

\* What the steps that are events have in common.
LEMMA EventEnds ==
    ASSUME BooksInv, EndsInv, NEW src, Take(src), Grown(Tail(pending), pending'),
           summaries # <<>> => summaries' # <<>>,
           src = Generator /\ now' = StopTime => summaries' # <<>>,
           mode = "closed" => summaries' = summaries \/ now' = StopTime,
           \/ /\ flowTrace' = flowTrace
              /\ mode # "trace" \/ src # Generator \/ now' = StopTime
           \/ /\ mode = "trace"
              /\ flowTrace' # <<>> /\ Head(flowTrace').at <= endtime
                    => Awaited(pending', Head(flowTrace').at, Generator)
    PROVE  EndsInv'
<1>1. /\ pending # <<>> /\ pending \in Seq(Event)
      /\ Head(pending).src = src /\ Head(pending).at = now' /\ now' \in Nat
      /\ mode' = mode /\ endtime' = endtime /\ flushed' = FALSE
      /\ flushed = FALSE
  BY TakeIs, Zenon
<1>2. endtime \in Nat /\ endtime # 0 /\ InTime(pending) /\ StopTime \in Nat
  BY Given DEF EndsInv
<1>3. now' <= endtime /\ InTime(pending')
  BY <1>1, <1>2, AwaitedTaken, Zenon DEF Grown
<1>4. \A at, s : Awaited(pending, at, s) =>
                    (at = now' /\ s = src) \/ Awaited(pending', at, s)
  BY <1>1, AwaitedTaken, Zenon DEF Grown
<1>5. InTime(pending)'
  BY <1>1, <1>3 DEF InTime
<1>6. StopTime <= endtime => Awaited(pending', StopTime, Generator) \/ summaries' # <<>>
  <2>1. StopTime <= endtime => Awaited(pending, StopTime, Generator) \/ summaries # <<>>
    BY DEF EndsInv
  <2> QED
    BY <1>4, <2>1, Zenon
<1>7. mode = "closed" /\ StopTime > endtime => summaries' = <<>>
  <2>1. StopTime > endtime => now' # StopTime
    BY <1>1, <1>2, <1>3
  <2>2. mode = "closed" /\ StopTime > endtime => summaries = <<>>
    BY <1>1, Zenon DEF EndsInv
  <2> QED
    BY <2>1, <2>2, Zenon
<1>8. /\ mode # "trace" => flowTrace' = <<>>
      /\ flowTrace' # <<>> => \/ Awaited(pending', Head(flowTrace').at, Generator)
                              \/ ~(Head(flowTrace').at <= endtime)
                              \/ Head(flowTrace').at = StopTime
  <2>1. /\ mode # "trace" => flowTrace = <<>>
        /\ flowTrace # <<>> => \/ Awaited(pending, Head(flowTrace).at, Generator)
                               \/ ~(Head(flowTrace).at <= endtime)
                               \/ Head(flowTrace).at = StopTime
    BY DEF EndsInv
  <2>2. CASE flowTrace' = flowTrace /\ (mode # "trace" \/ src # Generator \/ now' = StopTime)
    <3>1. PICK ft : ft = flowTrace /\ ft = flowTrace'
      BY <2>2
    <3>2. PICK at : at = Head(ft).at
      OBVIOUS
    <3>3. ft # <<>> /\ Awaited(pending, at, Generator) =>
             at = StopTime \/ Awaited(pending', at, Generator)
      BY <1>4, <2>1, <2>2, <3>1, Zenon
    <3>4. /\ mode # "trace" => ft = <<>>
          /\ ft # <<>> => \/ Awaited(pending, at, Generator)
                          \/ ~(at <= endtime) \/ at = StopTime
      BY <2>1, <3>1, <3>2, Zenon
    <3>5. /\ mode # "trace" => ft = <<>>
          /\ ft # <<>> => \/ Awaited(pending', at, Generator)
                          \/ ~(at <= endtime) \/ at = StopTime
      BY <3>3, <3>4, Zenon
    <3> QED
      BY <3>1, <3>2, <3>5, Zenon
  <2>3. CASE /\ mode = "trace"
             /\ flowTrace' # <<>> /\ Head(flowTrace').at <= endtime
                   => Awaited(pending', Head(flowTrace').at, Generator)
    BY <2>3, Zenon
  <2> QED
    BY <2>2, <2>3
<1>9. EndsAsPlanned'
  BY <1>1 DEF EndsAsPlanned
<1>10. /\ StopTime <= endtime' => \/ Awaited(pending', StopTime, Generator)
                                  \/ summaries' # <<>>
       /\ mode' = "closed" /\ StopTime > endtime' => summaries' = <<>>
       /\ endtime' \in Nat \ {0}
       /\ mode' # "trace" => flowTrace' = <<>>
       /\ flowTrace' # <<>> => \/ Awaited(pending', Head(flowTrace').at, Generator)
                               \/ ~(Head(flowTrace').at <= endtime')
                               \/ Head(flowTrace').at = StopTime
  <2>1. PICK n : n = endtime
    OBVIOUS
  <2>2. n = endtime' /\ n \in Nat \ {0}
    BY <1>1, <1>2, <2>1
  <2> QED
    BY <1>1, <1>6, <1>7, <1>8, <2>1, <2>2, Zenon
<1> QED
  BY <1>5, <1>9, <1>10, Zenon DEF EndsInv, Awaited

\* A new summary leaves the list of summaries not empty.
LEMMA Printed ==
    ASSUME BooksInv, NEW x \in Nat, summaries' = Append(summaries, x)
    PROVE  summaries' # <<>> /\ Len(summaries') = Len(summaries) + 1
           /\ Len(summaries) \in Nat
<1>1. summaries \in Seq(Nat)
  BY DEF BooksInv, SummaryInv
<1>2. /\ Len(summaries') = Len(summaries) + 1 /\ Len(summaries) \in Nat
      /\ summaries' \in Seq(Nat)
  BY <1>1, AppendProperties
<1> QED
  BY <1>2

\* The last summary ends a run as it was planned.
LEMMA FlushEnds ==
    ASSUME BooksInv, EndsInv, FlushAllSummaries
    PROVE  EndsInv'
<1>1. /\ pending = <<>> /\ ~flushed /\ flushed' = TRUE
      /\ summaries' = Append(summaries, completed)
      /\ mode' = mode /\ endtime' = endtime /\ pending' = pending
      /\ flowTrace' = flowTrace
  BY DEF FlushAllSummaries
<1>2. /\ endtime \in Nat \ {0}
      /\ StopTime <= endtime => \/ Awaited(pending, StopTime, Generator)
                                \/ summaries # <<>>
      /\ mode # "trace" => flowTrace = <<>>
      /\ flowTrace # <<>> => \/ Awaited(pending, Head(flowTrace).at, Generator)
                             \/ ~(Head(flowTrace).at <= endtime)
                             \/ Head(flowTrace).at = StopTime
      /\ mode = "closed" /\ StopTime > endtime => summaries = <<>>
  BY <1>1 DEF EndsInv
<1>3. \A at, s : ~Awaited(pending, at, s)
  BY <1>1 DEF Awaited
<1>4. /\ summaries' # <<>> /\ Len(summaries') = Len(summaries) + 1
      /\ Len(summaries) \in Nat /\ summaries \in Seq(Nat)
  BY <1>1, Printed DEF BooksInv, Counted, SummaryInv
<1>5. flowTrace # <<>> => Head(flowTrace).at \in Nat
  <2>1. flowTrace # <<>> => flowTrace \in Seq([at : Nat, size : Nat \ {0}])
    BY <1>2 DEF BooksInv, TraceInv
  <2>2. flowTrace # <<>> => Head(flowTrace) \in [at : Nat, size : Nat \ {0}]
    BY <2>1, HeadTailProperties
  <2> QED
    BY <2>2
<1>6. /\ StopTime <= endtime => Len(summaries') >= 2
      /\ StopTime > endtime /\ mode = "closed" => Len(summaries') = 1
  <2>1. StopTime <= endtime => Len(summaries) # 0
    BY <1>2, <1>3, <1>4
  <2> QED
    BY <1>2, <1>4, <2>1
<1>7. flowTrace # <<>> => Head(flowTrace).at = StopTime \/ Head(flowTrace).at > endtime
  BY <1>2, <1>3, <1>5
<1>8. EndsAsPlanned'
  BY <1>1, <1>6, <1>7 DEF EndsAsPlanned
<1>9. InTime(pending)'
  BY <1>1 DEF InTime
<1> QED
  BY <1>1, <1>2, <1>3, <1>4, <1>8, <1>9 DEF EndsInv

\* A run starts with the stop event and the first arrival in the list.
LEMMA EndsInit ==
    ASSUME TestbedInit
    PROVE  EndsInv
<1>1. PICK events, first, q :
         /\ events = IF scheme \in {"ecmp", "conga"}
                     THEN SourceIsPending(<<>>, endtime, SamplePeriod, Sampler)
                     ELSE <<>>
         /\ first = IF mode = "trace" THEN Head(flowTrace).at ELSE 0
         /\ q = SourceIsPending(events, endtime, first, Generator)
  OBVIOUS
<1>2. /\ flowTrace \in IF mode = "trace" THEN Traces ELSE {<<>>}
      /\ summaries = <<>> /\ flushed = FALSE /\ endtime \in Endtimes
      /\ pending = SourceIsPending(q, endtime, StopTime, Generator)
  BY <1>1, Zenon DEF TestbedInit, InitWith
<1>3. endtime \in Nat \ {0} /\ StopTime \in Nat
  BY <1>2, GeneratorAssumption
<1>4. /\ mode = "trace" => Head(flowTrace).at \in Nat
      /\ mode # "trace" => flowTrace = <<>>
      /\ first \in Nat
  <2>1. mode = "trace" => flowTrace # <<>> /\ flowTrace \in Seq([at : Nat, size : Nat \ {0}])
    BY <1>2, Given, Zenon
  <2>2. mode = "trace" => Head(flowTrace) \in [at : Nat, size : Nat \ {0}]
    BY <2>1, HeadTailProperties, Zenon
  <2>3. mode = "trace" => Head(flowTrace).at \in Nat
    BY <2>2
  <2> QED
    BY <1>1, <1>2, <2>3
<1>5. Generator \in Sources /\ Sampler \in Sources /\ SamplePeriod \in Nat
      /\ <<>> \in Seq(Event) /\ InTime(<<>>)
  BY TestbedAssumption DEF Sources, InTime
<1>6. events \in Seq(Event) /\ InTime(events)
  BY <1>1, <1>5, GrownIs, Zenon DEF Grown
<1>7. /\ q \in Seq(Event) /\ InTime(q)
      /\ first <= endtime => Awaited(q, first, Generator)
  BY <1>1, <1>4, <1>5, <1>6, GrownIs, Zenon DEF Grown
<1>8. /\ InTime(pending)
      /\ StopTime <= endtime => Awaited(pending, StopTime, Generator)
      /\ first <= endtime => Awaited(pending, first, Generator)
  BY <1>2, <1>3, <1>5, <1>7, GrownIs, Zenon DEF Grown
<1>9. mode = "trace" => first = Head(flowTrace).at
  BY <1>1
<1>10. flowTrace # <<>> => \/ Awaited(pending, Head(flowTrace).at, Generator)
                           \/ ~(Head(flowTrace).at <= endtime)
  BY <1>4, <1>8, <1>9, Zenon
<1>11. EndsAsPlanned
  BY <1>2 DEF EndsAsPlanned
<1> QED
  BY <1>2, <1>3, <1>4, <1>8, <1>10, <1>11, Zenon DEF EndsInv

\* Every step of the generator keeps it.
LEMMA GeneratorEnds ==
    ASSUME BooksInv, EndsInv, Next
    PROVE  EndsInv'
<1>1. completed \in Nat /\ BooksInv'
  BY StopStep, ArrivalStep, TraceStep, FlushStep, StartStep, FinishStep,
     DeleteStep, Zenon DEF Next, BooksInv, Counted
<1>2. completed' \in Nat
  BY <1>1 DEF BooksInv, Counted
<1>3. CASE StopEvent
  <2>1. /\ Take(Generator) /\ now' = StopTime
        /\ summaries' = Append(summaries, completed) /\ flowTrace' = flowTrace
    BY <1>3 DEF StopEvent, AtEnd
  <2>2. summaries' # <<>>
    BY <1>1, <2>1, Printed, Zenon
  <2>3. Grown(Tail(pending), pending')
    BY <1>3, StopStep, Zenon
  <2> QED
    BY <2>1, <2>2, <2>3, EventEnds, Zenon
<1>4. CASE ArrivalEvent
  <2>1. /\ Take(Generator) /\ now' # StopTime /\ mode # "trace"
        /\ summaries' = summaries /\ flowTrace' = flowTrace
    BY <1>4 DEF ArrivalEvent, AtEnd
  <2>2. Grown(Tail(pending), pending')
    BY <1>4, ArrivalStep, Zenon
  <2> QED
    BY <2>1, <2>2, EventEnds, Zenon
<1>5. CASE TraceEvent
  <2>1. /\ Take(Generator) /\ now' # StopTime /\ mode = "trace"
        /\ summaries' = summaries
    BY <1>5 DEF TraceEvent, AtEnd
  <2>2. /\ Grown(Tail(pending), pending')
        /\ flowTrace' # <<>> /\ Head(flowTrace').at <= endtime
              => Awaited(pending', Head(flowTrace').at, Generator)
    BY <1>5, TraceStep, Zenon
  <2> QED
    BY <2>1, <2>2, EventEnds, Zenon
<1>6. ASSUME NEW id \in Flows, StartEvent(id) \/ FinishEvent(id) \/ DeleteEvent(id)
      PROVE  EndsInv'
  <2>1. /\ Take(Flow(id)) /\ flowTrace' = flowTrace /\ Flow(id) # Generator
        /\ \/ summaries' = summaries
           \/ mode # "closed" /\ summaries' = Append(summaries, completed')
    <3>1. Flow(id) # Generator
      BY DEF Flow, Generator
    <3> QED
      BY <1>6, <3>1 DEF StartEvent, FinishEvent, DeleteEvent
  <2>2. summaries # <<>> => summaries' # <<>>
    BY <1>2, <2>1, Printed, Zenon
  <2>3. Grown(Tail(pending), pending')
    BY <1>6, StartStep, FinishStep, DeleteStep, Zenon
  <2> QED
    BY <2>1, <2>2, <2>3, EventEnds, Zenon
<1> QED
  BY <1>3, <1>4, <1>5, <1>6, FlushEnds, Zenon DEF Next

\* A RUN ENDS AS IT WAS SET UP, for every stop time, end time and trace: the
\* stop event is handled whenever the simulation comes to it, and a trace loses
\* only what is due at the stop time or after the end.
THEOREM RunsEndAsPlanned == TestbedSpec => []EndsAsPlanned
<1>1. TestbedInit => EndsInv
  BY EndsInit
<1>2. BooksInv /\ EndsInv /\ [TestbedNext]_testbedVars => EndsInv'
  <2> SUFFICES ASSUME BooksInv, EndsInv, [TestbedNext]_testbedVars
               PROVE  EndsInv'
    OBVIOUS
  <2>1. CASE GeneratorStep
    BY <2>1, GeneratorEnds, Zenon DEF GeneratorStep
  <2>2. CASE SampleEvent
    <3>1. Take(Sampler) /\ flowTrace' = flowTrace /\ summaries' = summaries
      BY <2>2 DEF SampleEvent
    <3>2. Sampler # Generator
      BY DEF Sampler, Generator
    <3>3. Grown(Tail(pending), pending')
      BY <2>2, SampleStep, Zenon
    <3> QED
      BY <3>1, <3>2, <3>3, EventEnds, Zenon
  <2>3. CASE UNCHANGED testbedVars
    BY <2>3 DEF testbedVars, vars, EndsInv, EndsAsPlanned, InTime, Awaited
  <2> QED
    BY <2>1, <2>2, <2>3 DEF TestbedNext
<1>3. EndsInv => EndsAsPlanned
  BY DEF EndsInv
<1> QED
  BY <1>1, <1>2, <1>3, BooksAreKept, PTL DEF TestbedSpec

----------------------------------------------------------------------------
(* CONGA's choice *)

Uplinks == 0 .. N_UL - 1
Fresh == NewLeaf(Leaves, Uplinks)

\* The sides of the testbed are not empty, and link 0 is an uplink.
LEMMA Sides ==
    /\ N_LEAF \in Nat \ {0} /\ N_UL \in Nat \ {0} /\ N_SRV \in Nat \ {0}
    /\ 0 \in Uplinks /\ Uplinks \subseteq Nat
<1>1. N_LEAF \in Nat \ {0} /\ N_UL \in Nat \ {0} /\ N_SRV \in Nat \ {0}
  BY TestbedAssumption
<1> QED
  BY <1>1 DEF Uplinks

\* A server belongs to a leaf.
LEMMA LeafOf ==
    ASSUME NEW sid \in Servers
    PROVE  /\ Srv2ls(sid).leaf \in Leaves /\ Srv2ls(sid).srv \in 0 .. N_SRV - 1
           /\ sid = N_SRV * Srv2ls(sid).leaf + Srv2ls(sid).srv
<1>1. N_LEAF \in Nat \ {0} /\ N_SRV \in Nat \ {0}
  BY Sides
<1>2. N_LEAF * N_SRV \in Nat /\ N_SRV * N_LEAF = N_LEAF * N_SRV
  BY <1>1
<1>3. sid \in Nat /\ sid < N_LEAF * N_SRV
  BY <1>2 DEF Servers
<1>4. PICK q \in Int : \E r \in 0 .. N_SRV - 1 :
          sid = N_SRV * q + r /\ sid % N_SRV = r /\ sid \div N_SRV = q
  BY <1>1, <1>3, DivMod
<1>5. PICK r \in 0 .. N_SRV - 1 :
          sid = N_SRV * q + r /\ sid % N_SRV = r /\ sid \div N_SRV = q
  BY <1>4
<1>6. q \in Nat
  BY <1>1, <1>3, <1>5, WholeNumber
<1>7. q < N_LEAF
  <2>1. SUFFICES ASSUME N_LEAF <= q PROVE FALSE
    BY <1>1, <1>6
  <2>2. N_LEAF * N_SRV <= q * N_SRV
    BY <1>1, <2>1, Mono
  <2>3. q * N_SRV = N_SRV * q /\ N_SRV * q \in Int
    BY <1>1
  <2> QED
    BY <1>1, <1>2, <1>3, <1>5, <2>2, <2>3
<1>8. Srv2ls(sid).leaf = q /\ Srv2ls(sid).srv = r
  BY <1>5 DEF Srv2ls
<1>9. q \in Leaves
  BY <1>1, <1>6, <1>7 DEF Leaves
<1> QED
  BY <1>5, <1>8, <1>9, Zenon

\* The fields of a leaf switch as it is built.
LEMMA FreshIs ==
    /\ Fresh.to_leaf = [d \in Leaves |-> [c \in Uplinks |-> [util |-> 0, qd |-> 0]]]
    /\ Fresh.from_leaf_best = [d \in Leaves |-> 0]
    /\ Fresh = [to_leaf |-> Fresh.to_leaf, from_leaf_best |-> Fresh.from_leaf_best]
BY DEF Fresh, NewLeaf

\* A sample of a link that sent nothing leaves a fresh leaf as it is.
LEMMA SampleKeeps ==
    ASSUME NEW c \in Uplinks
    PROVE  OnSample(Fresh, c, 0, 0) = Fresh
<1>1. PICK none : none = [util |-> 0, qd |-> 0]
  OBVIOUS
<1>2. Ewma(0, 0) = 0
  BY DEF Ewma
<1>3. PICK tbl : tbl = [e \in Uplinks |-> none]
  OBVIOUS
<1>4. PICK to : to = Fresh.to_leaf /\ to = [d \in Leaves |-> tbl] /\ DOMAIN to = Leaves
  BY <1>1, <1>3, FreshIs
<1>5. ASSUME NEW d \in Leaves
      PROVE  [to[d] EXCEPT ![c] = [util |-> Ewma(to[d][c].util, 0),
                                   qd |-> Ewma(to[d][c].qd, 0)]] = to[d]
  <2>1. to[d] = tbl /\ to[d][c] = none
    BY <1>3, <1>4
  <2>2. none.util = 0 /\ none.qd = 0
    BY <1>1
  <2>3. [util |-> Ewma(to[d][c].util, 0), qd |-> Ewma(to[d][c].qd, 0)] = none
    BY <1>1, <1>2, <2>1, <2>2, Zenon
  <2> QED
    BY <1>3, <2>1, <2>3
<1>6. [d \in DOMAIN to |->
          [to[d] EXCEPT ![c] = [util |-> Ewma(to[d][c].util, 0),
                                qd |-> Ewma(to[d][c].qd, 0)]]] = to
  <2>1. to = [d \in Leaves |-> to[d]]
    BY <1>4
  <2> QED
    BY <1>4, <1>5, <2>1, Zenon
<1>7. OnSample(Fresh, c, 0, 0) = [Fresh EXCEPT !.to_leaf = to]
  BY <1>4, <1>6, Zenon DEF OnSample
<1> QED
  BY <1>4, <1>7, FreshIs

\* So does the sampling of all its links.
LEMMA SampledKeeps == Sampled(Fresh) = Fresh
<1> DEFINE F(h) == [k \in 0 .. N_UL |-> IF k = 0 THEN Fresh ELSE OnSample(h[k - 1], k - 1, 0, 0)]
           c == CHOOSE h : h = F(h)
           g == [k \in 0 .. N_UL |-> Fresh]
<1>1. N_UL \in Nat \ {0} /\ N_UL \in 0 .. N_UL
  BY Sides
<1>2. \A k \in 0 .. N_UL : k # 0 => k - 1 \in 0 .. N_UL /\ OnSample(Fresh, k - 1, 0, 0) = Fresh
  <2>1. \A k \in 0 .. N_UL : k # 0 => k - 1 \in 0 .. N_UL /\ k - 1 \in Uplinks
    BY <1>1 DEF Uplinks
  <2> QED
    BY <2>1, SampleKeeps
<1>3. g = F(g)
  <2>1. \A k \in 0 .. N_UL : g[k] = IF k = 0 THEN Fresh ELSE OnSample(g[k - 1], k - 1, 0, 0)
    BY <1>2
  <2> HIDE DEF g
  <2>2. g = [k \in 0 .. N_UL |-> g[k]]
    BY DEF g
  <2> QED
    BY <2>1, <2>2, Zenon
<1>4. c = F(c)
  <2> HIDE DEF F
  <2> QED
    BY <1>3, Zenon
<1>5. \A k \in 0 .. N_UL : c[k] = IF k = 0 THEN Fresh ELSE OnSample(c[k - 1], k - 1, 0, 0)
  <2> HIDE DEF c
  <2> QED
    BY <1>4
<1>6. Sampled(Fresh) = c[N_UL]
  BY DEF Sampled
<1> HIDE DEF c, F, g
<1>7. \A k \in 0 .. N_UL : c[k] = Fresh
  <2> DEFINE S == {k \in Nat : k <= N_UL => c[k] = Fresh}
  <2>1. 0 \in S
    BY <1>1, <1>5
  <2>2. ASSUME NEW k \in S PROVE k + 1 \in S
    <3>1. SUFFICES ASSUME k + 1 <= N_UL PROVE c[k + 1] = Fresh
      OBVIOUS
    <3>2. c[k] = Fresh /\ k + 1 \in 0 .. N_UL /\ k + 1 # 0 /\ (k + 1) - 1 = k
      BY <1>1, <3>1
    <3>3. PICK j \in 0 .. N_UL : j = k + 1 /\ j # 0 /\ j - 1 = k
      BY <3>2
    <3> HIDE DEF S
    <3>4. c[j] = OnSample(c[j - 1], j - 1, 0, 0)
      BY <1>5, <3>3, Zenon
    <3>5. OnSample(Fresh, j - 1, 0, 0) = Fresh
      BY <1>2, <3>3, Zenon
    <3> QED
      BY <3>2, <3>3, <3>4, <3>5, Zenon
  <2>3. S = Nat
    <3>1. S \in SUBSET Nat
      OBVIOUS
    <3> HIDE DEF S
    <3> QED
      BY <2>1, <2>2, <3>1, Induct
  <2> QED
    BY <1>1, <2>3
<1> QED
  BY <1>1, <1>6, <1>7, Zenon

\* A fresh leaf picks link 0, feeds back a metric of 0, and takes one without a
\* change.
LEMMA ChoiceIs ==
    ASSUME NEW dl \in Leaves
    PROVE  /\ PickUplinkFor(Fresh, dl) = 0 /\ BestMetricTo(Fresh, dl) = 0
           /\ OnFeedback(Fresh, dl, 0) = Fresh
<1>1. /\ \A c \in Uplinks : Local(Fresh, dl, c) = 0
      /\ DOMAIN Fresh.to_leaf[dl] = Uplinks
      /\ Fresh.from_leaf_best[dl] = 0
  BY FreshIs DEF Local
<1>2. \A c \in Uplinks : Metric(Fresh, dl, c) = 0
  BY <1>1 DEF Metric
<1>3. {c \in Uplinks : \A e \in Uplinks : Metric(Fresh, dl, c) <= Metric(Fresh, dl, e)} = Uplinks
  BY <1>2
<1>4. {Local(Fresh, dl, c) : c \in Uplinks} = {0}
  <2>1. 0 \in Uplinks
    BY Sides
  <2> QED
    BY <1>1, <2>1
<1>5. Min(Uplinks) = 0 /\ Min({0}) = 0
  <2>1. \A x \in Uplinks : (\A y \in Uplinks : x <= y) => x = 0
    BY Sides
  <2>2. 0 \in Uplinks /\ \A y \in Uplinks : 0 <= y
    BY Sides
  <2>3. Min(Uplinks) = 0
    BY <2>1, <2>2 DEF Min
  <2>4. Min({0}) = 0
    BY DEF Min
  <2> QED
    BY <2>3, <2>4
<1>6. PickUplinkFor(Fresh, dl) = 0
  BY <1>1, <1>3, <1>5, Zenon DEF PickUplinkFor
<1>7. BestMetricTo(Fresh, dl) = 0
  BY <1>1, <1>4, <1>5, Zenon DEF BestMetricTo
<1>8. OnFeedback(Fresh, dl, 0) = Fresh
  <2>1. [Fresh.from_leaf_best EXCEPT ![dl] = 0] = Fresh.from_leaf_best
    BY FreshIs
  <2> QED
    BY <2>1, FreshIs DEF OnFeedback
<1> QED
  BY <1>6, <1>7, <1>8

CongaInv ==
    /\ leafs = [l \in Leaves |-> Fresh]
    /\ scheme = "conga" /\ route # NoRoute => route.core = 0

\* A flow that CONGA routes leaves all leafs fresh and goes by core 0.
LEMMA CongaStep ==
    ASSUME CongaInv, scheme' = scheme, GenRouteConga
    PROVE  CongaInv'
<1>1. PICK src, dst \in Servers :
         /\ route' = BuildRoute(src, dst, PickUplinkFor(leafs[Srv2ls(src).leaf], Srv2ls(dst).leaf))
         /\ leafs' = [leafs EXCEPT ![Srv2ls(src).leaf] =
                         OnFeedback(@, Srv2ls(dst).leaf,
                             BestMetricTo(leafs[Srv2ls(dst).leaf], Srv2ls(src).leaf))]
  BY Zenon DEF GenRouteConga
<1>2. PICK sl, dl \in Leaves : sl = Srv2ls(src).leaf /\ dl = Srv2ls(dst).leaf
  BY LeafOf, Zenon
<1>3. leafs[sl] = Fresh /\ leafs[dl] = Fresh
  BY <1>2 DEF CongaInv
<1>4. /\ PickUplinkFor(leafs[sl], dl) = 0
      /\ OnFeedback(leafs[sl], dl, BestMetricTo(leafs[dl], sl)) = Fresh
  BY <1>2, <1>3, ChoiceIs, Zenon
<1>5. leafs' = [leafs EXCEPT ![sl] = Fresh]
  BY <1>1, <1>2, <1>4, Zenon
<1>6. leafs' = [l \in Leaves |-> Fresh]
  BY <1>5 DEF CongaInv
<1>7. route' = BuildRoute(src, dst, 0)
  BY <1>1, <1>2, <1>4, Zenon
<1>8. route'.core = 0
  BY <1>7 DEF BuildRoute
<1> QED
  BY <1>6, <1>8 DEF CongaInv, Leaves, Fresh, NewLeaf, Uplinks

\* What becomes of CONGA's choice: no leaf ever learns of any traffic, so every
\* flow goes over the first core.
CongaIsBlind ==
    scheme = "conga" =>
        /\ \A l, d \in Leaves, c \in 0 .. N_UL - 1 : Local(leafs[l], d, c) = 0
        /\ route # NoRoute => route.core = 0

\* CONGA SENDS EVERYTHING BY ONE CORE, whatever the size of the testbed and the
\* traffic: the samples are zeros and the feedback of a leaf counts for all
\* uplinks alike, so each choice is one among equals and falls on the first.
\* SamplesShowTraffic is thus violated by every run in which a sample follows
\* the finish of a flow (test_conga_testbed.cpp:98-106, 136-143,
\* leafswitch.cpp:25-36).
THEOREM OnlyTheFirstCore == TestbedSpec => []CongaIsBlind
<1>1. TestbedInit => CongaInv
  BY DEF TestbedInit, CongaInv, Fresh, Uplinks, NoRoute
<1>2. CongaInv /\ [TestbedNext]_testbedVars => CongaInv'
  <2> SUFFICES ASSUME CongaInv, [TestbedNext]_testbedVars
               PROVE  CongaInv'
    OBVIOUS
  <2>1. ASSUME leafs' = leafs, scheme' = scheme, route' = NoRoute \/ scheme # "conga"
        PROVE  CongaInv'
    BY <2>1 DEF CongaInv, Leaves, Fresh, NewLeaf, Uplinks, NoRoute
  <2>2. CASE GeneratorStep
    <3>1. scheme' = scheme /\ (RouteGen \/ (route' = NoRoute /\ leafs' = leafs))
      BY <2>2 DEF GeneratorStep
    <3>2. CASE RouteGen
      <4>1. CASE scheme = "conga" /\ GenRouteConga
        BY <3>1, <4>1, CongaStep, Zenon
      <4>2. CASE scheme # "conga" /\ leafs' = leafs
        BY <2>1, <3>1, <4>2, Zenon
      <4>3. \/ scheme = "conga" /\ GenRouteConga
            \/ scheme # "conga" /\ leafs' = leafs
        BY <3>2 DEF RouteGen, GenerateRoute, GenRouteEcmp, GenerateRandomRoute
      <4> QED
        BY <4>1, <4>2, <4>3, Zenon
    <3> QED
      BY <2>1, <3>1, <3>2, Zenon
  <2>3. CASE SampleEvent
    <3>1. scheme' = scheme /\ route' = NoRoute /\ leafs' = [l \in Leaves |-> Sampled(leafs[l])]
      BY <2>3 DEF SampleEvent
    <3>2. \A l \in Leaves : leafs[l] = Fresh
      BY DEF CongaInv
    <3>3. \A l \in Leaves : Sampled(leafs[l]) = Fresh
      BY <3>2, SampledKeeps, Zenon
    <3>4. leafs' = [l \in Leaves |-> Fresh]
      BY <3>1, <3>3, Zenon
    <3>5. leafs' = leafs
      BY <3>4, Zenon DEF CongaInv
    <3> QED
      BY <2>1, <3>1, <3>5, Zenon
  <2>4. CASE UNCHANGED testbedVars
    BY <2>4 DEF testbedVars, CongaInv, Leaves, Fresh, NewLeaf, Uplinks, NoRoute
  <2> QED
    BY <2>2, <2>3, <2>4 DEF TestbedNext
<1>3. CongaInv => CongaIsBlind
  <2>1. \A l, d \in Leaves, c \in 0 .. N_UL - 1 : Local(Fresh, d, c) = 0
    BY FreshIs DEF Local, Uplinks
  <2>2. CongaInv => \A l \in Leaves : leafs[l] = Fresh
    BY DEF CongaInv
  <2> QED
    BY <2>1, <2>2, Zenon DEF CongaInv, CongaIsBlind
<1> QED
  BY <1>1, <1>2, <1>3, PTL DEF TestbedSpec

----------------------------------------------------------------------------
(* Routes *)

\* One link more at the end of a route.
LEMMA CatOne ==
    ASSUME NEW S, NEW q \in Seq(S), NEW x \in S
    PROVE  /\ q \o <<x>> \in Seq(S) /\ Len(q \o <<x>>) = Len(q) + 1
           /\ \A i \in 1 .. Len(q) : (q \o <<x>>)[i] = q[i]
           /\ (q \o <<x>>)[Len(q) + 1] = x
<1>1. PICK u \in Seq(S) : u = <<x>> /\ Len(u) = 1 /\ u[1] = x
  <2>1. <<x>> \in Seq(S)
    OBVIOUS
  <2> QED
    BY <2>1
<1>2. /\ q \o u \in Seq(S) /\ Len(q \o u) = Len(q) + Len(u)
      /\ \A i \in 1 .. Len(q) + Len(u) :
            (q \o u)[i] = IF i <= Len(q) THEN q[i] ELSE u[i - Len(q)]
  BY ConcatProperties
<1>3. PICK t \in Seq(S) : t = q \o u
  BY <1>2
<1>4. /\ Len(t) = Len(q) + 1
      /\ \A i \in 1 .. Len(q) : t[i] = q[i]
      /\ t[Len(q) + 1] = x
  BY <1>1, <1>2, <1>3
<1> QED
  BY <1>1, <1>3, <1>4, Zenon

\* The route within a rack, put together.
LEMMA TwoLinks ==
    ASSUME NEW S, NEW a \in S, NEW b \in S
    PROVE  (((<<a>> \o <<>>) \o <<>>) \o <<>>) \o <<b>> = <<a, b>>
<1>1. <<a>> \o <<>> = <<a>>
  OBVIOUS
<1>2. PICK u \in Seq(S) : u = <<a>> /\ Len(u) = 1 /\ u[1] = a
  <2>1. <<a>> \in Seq(S)
    OBVIOUS
  <2> QED
    BY <2>1
<1>3. PICK t \in Seq(S) : t = u \o <<b>>
  BY CatOne
<1>4. Len(t) = 2 /\ t[1] = a /\ t[2] = b
  BY <1>2, <1>3, CatOne
<1>5. t = <<a, b>>
  BY <1>4, SeqEqual
<1> QED
  BY <1>1, <1>2, <1>3, <1>5

\* The route within a subtree, put together.
LEMMA FourLinks ==
    ASSUME NEW S, NEW a \in S, NEW b \in S, NEW c \in S, NEW d \in S
    PROVE  (((<<a>> \o <<b>>) \o <<>>) \o <<c>>) \o <<d>> = <<a, b, c, d>>
<1>1. PICK u \in Seq(S) : u = <<a>> /\ Len(u) = 1 /\ u[1] = a
  <2>1. <<a>> \in Seq(S)
    OBVIOUS
  <2> QED
    BY <2>1
<1>2. PICK v \in Seq(S) : v = u \o <<b>>
  BY CatOne
<1>3. Len(v) = 2 /\ v[1] = a /\ v[2] = b
  BY <1>1, <1>2, CatOne
<1>4. v \o <<>> = v
  OBVIOUS
<1>5. PICK w \in Seq(S) : w = v \o <<c>>
  BY CatOne
<1>6. Len(w) = 3 /\ w[1] = a /\ w[2] = b /\ w[3] = c
  <2>1. /\ Len(v \o <<c>>) = Len(v) + 1
        /\ \A i \in 1 .. Len(v) : (v \o <<c>>)[i] = v[i]
        /\ (v \o <<c>>)[Len(v) + 1] = c
    BY CatOne
  <2>2. /\ Len(w) = 3 /\ w[3] = c
        /\ \A i \in 1 .. 2 : w[i] = v[i]
    <3>1. Len(v) = 2 /\ Len(v) + 1 = 3
      BY <1>3
    <3> QED
      BY <1>5, <2>1, <3>1, Zenon
  <2> QED
    BY <1>3, <2>2
<1>7. PICK t \in Seq(S) : t = w \o <<d>>
  BY CatOne
<1>8. Len(t) = 4 /\ t[1] = a /\ t[2] = b /\ t[3] = c /\ t[4] = d
  <2>1. /\ Len(w \o <<d>>) = Len(w) + 1
        /\ \A i \in 1 .. Len(w) : (w \o <<d>>)[i] = w[i]
        /\ (w \o <<d>>)[Len(w) + 1] = d
    BY CatOne
  <2>2. /\ Len(t) = 4 /\ t[4] = d
        /\ \A i \in 1 .. 3 : t[i] = w[i]
    <3>1. Len(w) = 3 /\ Len(w) + 1 = 4
      BY <1>6
    <3> QED
      BY <1>7, <2>1, <3>1, Zenon
  <2> QED
    BY <1>6, <2>2
<1>9. t = <<a, b, c, d>>
  BY <1>8, SeqEqual
<1> QED
  BY <1>1, <1>2, <1>4, <1>5, <1>7, <1>9, Zenon

\* The route across the cores, put together.
LEMMA SixLinks ==
    ASSUME NEW S, NEW a \in S, NEW b \in S, NEW c \in S, NEW d \in S,
           NEW e \in S, NEW f \in S
    PROVE  (((<<a>> \o <<b>>) \o <<c, d>>) \o <<e>>) \o <<f>> = <<a, b, c, d, e, f>>
<1>1. PICK u \in Seq(S) : u = <<a>> /\ Len(u) = 1 /\ u[1] = a
  <2>1. <<a>> \in Seq(S)
    OBVIOUS
  <2> QED
    BY <2>1
<1>2. PICK v \in Seq(S) : v = u \o <<b>>
  BY CatOne
<1>3. Len(v) = 2 /\ v[1] = a /\ v[2] = b
  BY <1>1, <1>2, CatOne
<1>4. PICK m \in Seq(S) : m = <<c, d>> /\ Len(m) = 2 /\ m[1] = c /\ m[2] = d
  <2>1. <<c, d>> \in Seq(S)
    OBVIOUS
  <2> QED
    BY <2>1
<1>5. PICK w \in Seq(S) : w = v \o m
  BY ConcatProperties
<1>6. Len(w) = 4 /\ w[1] = a /\ w[2] = b /\ w[3] = c /\ w[4] = d
  <2>1. /\ Len(v \o m) = Len(v) + Len(m)
        /\ \A i \in 1 .. Len(v) + Len(m) :
              (v \o m)[i] = IF i <= Len(v) THEN v[i] ELSE m[i - Len(v)]
    BY ConcatProperties
  <2>2. /\ Len(w) = Len(v) + Len(m)
        /\ \A i \in 1 .. Len(v) + Len(m) :
              w[i] = IF i <= Len(v) THEN v[i] ELSE m[i - Len(v)]
    BY <1>5, <2>1, Zenon
  <2> QED
    BY <1>3, <1>4, <2>2
<1>7. PICK x \in Seq(S) : x = w \o <<e>>
  BY CatOne
<1>8. Len(x) = 5 /\ x[1] = a /\ x[2] = b /\ x[3] = c /\ x[4] = d /\ x[5] = e
  <2>1. /\ Len(w \o <<e>>) = Len(w) + 1
        /\ \A i \in 1 .. Len(w) : (w \o <<e>>)[i] = w[i]
        /\ (w \o <<e>>)[Len(w) + 1] = e
    BY CatOne
  <2>2. /\ Len(x) = 5 /\ x[5] = e
        /\ \A i \in 1 .. 4 : x[i] = w[i]
    <3>1. Len(w) = 4 /\ Len(w) + 1 = 5
      BY <1>6
    <3> QED
      BY <1>7, <2>1, <3>1, Zenon
  <2> QED
    BY <1>6, <2>2
<1>9. PICK t \in Seq(S) : t = x \o <<f>>
  BY CatOne
<1>10. /\ Len(t) = 6 /\ t[1] = a /\ t[2] = b /\ t[3] = c /\ t[4] = d
       /\ t[5] = e /\ t[6] = f
  <2>1. /\ Len(x \o <<f>>) = Len(x) + 1
        /\ \A i \in 1 .. Len(x) : (x \o <<f>>)[i] = x[i]
        /\ (x \o <<f>>)[Len(x) + 1] = f
    BY CatOne
  <2>2. /\ Len(t) = 6 /\ t[6] = f
        /\ \A i \in 1 .. 5 : t[i] = x[i]
    <3>1. Len(x) = 5 /\ Len(x) + 1 = 6
      BY <1>8
    <3> QED
      BY <1>9, <2>1, <3>1, Zenon
  <2> QED
    BY <1>8, <2>2
<1>11. t = <<a, b, c, d, e, f>>
  BY <1>10, SeqEqual
<1> QED
  BY <1>1, <1>2, <1>4, <1>5, <1>7, <1>9, <1>11, Zenon

\* A sequence without repetition has as many elements as places.
LEMMA DistinctCount ==
    ASSUME NEW q, NEW S, q \in Seq(S),
           \A i, j \in 1 .. Len(q) : q[i] = q[j] => i = j
    PROVE  Cardinality(ToSet(q)) = Len(q)
<1>1. PICK n \in Nat : n = Len(q)
  OBVIOUS
<1>2. DOMAIN q = 1 .. n /\ q \in [1 .. n -> ToSet(q)] /\ ToSet(q) = {q[i] : i \in 1 .. n}
  BY <1>1 DEF ToSet
<1>3. IsInjective(q)
  BY <1>1, <1>2 DEF IsInjective
<1>4. q \in Injection(1 .. n, ToSet(q))
  BY <1>2, <1>3 DEF Injection
<1>5. q \in Surjection(1 .. n, ToSet(q))
  BY <1>2 DEF Surjection
<1>6. IsFiniteSet(1 .. n) /\ Cardinality(1 .. n) = n
  <2>1. n \in Int /\ 1 \in Int
    OBVIOUS
  <2>2. /\ IsFiniteSet(1 .. n)
        /\ Cardinality(1 .. n) = IF 1 > n THEN 0 ELSE n - 1 + 1
    BY <2>1, FS_Interval
  <2> QED
    BY <2>2
<1>7. Cardinality(ToSet(q)) = Cardinality(1 .. n)
  BY <1>4, <1>5, <1>6, FS_Surjection
<1> QED
  BY <1>1, <1>6, <1>7

\* What RoutesConnect says of one route.
Connects(r) ==
    /\ r.src # r.dst
    /\ IsPath(r.fwd, r.src, r.dst)
    /\ IsPath(r.rev, r.dst, r.src)
    /\ Len(r.fwd) = Len(r.rev)
    /\ Cardinality(ToSet(r.fwd)) = Len(r.fwd)
    /\ \A i \in 1 .. Len(r.fwd) :
          r.fwd[i].to = r.rev[Len(r.rev) + 1 - i].from

\* The links from node to node of x, and back.
Along(q, k, x) ==
    /\ q \in Seq({q[i] : i \in 1 .. k}) /\ Len(q) = k
    /\ \A i \in 1 .. k : q[i] = Link(x[i], x[i + 1])
Back(q, k, x) ==
    /\ Len(q) = k
    /\ \A i \in 1 .. k : q[i] = Link(x[k + 2 - i], x[k + 1 - i])

\* A link goes from its first node to its second.
LEMMA LinkEnds == \A a, b : Link(a, b).from = a /\ Link(a, b).to = b
BY DEF Link

\* Links from node to node of a walk that repeats no step, and the links of
\* the same walk back, connect its ends.
LEMMA Road ==
    ASSUME NEW r, NEW k \in Nat \ {0}, NEW x,
           Along(r.fwd, k, x), Back(r.rev, k, x),
           r.src = x[1], r.dst = x[k + 1], x[1] # x[k + 1],
           \A i, j \in 1 .. k : x[i] = x[j] /\ x[i + 1] = x[j + 1] => i = j
    PROVE  Connects(r)
<1>1. PICK f, b : f = r.fwd /\ b = r.rev
  OBVIOUS
<1>2. /\ Len(f) = k /\ Len(b) = k
      /\ f \in Seq({f[i] : i \in 1 .. k})
  BY <1>1 DEF Along, Back
<1>3. \A i \in 1 .. k : f[i].from = x[i] /\ f[i].to = x[i + 1]
  <2>1. ASSUME NEW i \in 1 .. k PROVE f[i].from = x[i] /\ f[i].to = x[i + 1]
    <3>1. f[i] = Link(x[i], x[i + 1])
      BY <1>1 DEF Along
    <3>2. Link(x[i], x[i + 1]).from = x[i] /\ Link(x[i], x[i + 1]).to = x[i + 1]
      BY LinkEnds
    <3> QED
      BY <3>1, <3>2
  <2> QED
    BY <2>1
<1>4. \A i \in 1 .. k : b[i].from = x[k + 2 - i] /\ b[i].to = x[k + 1 - i]
  <2>1. ASSUME NEW i \in 1 .. k PROVE b[i].from = x[k + 2 - i] /\ b[i].to = x[k + 1 - i]
    <3>1. b[i] = Link(x[k + 2 - i], x[k + 1 - i])
      BY <1>1 DEF Back
    <3>2. Link(x[k + 2 - i], x[k + 1 - i]).from = x[k + 2 - i] /\ Link(x[k + 2 - i], x[k + 1 - i]).to = x[k + 1 - i]
      BY LinkEnds
    <3> QED
      BY <3>1, <3>2
  <2> QED
    BY <2>1
<1>5. IsPath(f, x[1], x[k + 1])
  <2>1. f[1].from = x[1] /\ f[k].to = x[k + 1]
    BY <1>3
  <2>2. \A i \in 1 .. k - 1 : f[i].to = f[i + 1].from
    BY <1>3
  <2> QED
    BY <1>2, <2>1, <2>2 DEF IsPath
<1>6. IsPath(b, x[k + 1], x[1])
  <2>1. b[1].from = x[k + 1]
    <3>1. k + 2 - 1 = k + 1 /\ 1 \in 1 .. k
      OBVIOUS
    <3> QED
      BY <1>4, <3>1
  <2>2. b[k].to = x[1]
    <3>1. k + 1 - k = 1 /\ k \in 1 .. k
      OBVIOUS
    <3> QED
      BY <1>4, <3>1
  <2>3. ASSUME NEW i \in 1 .. k - 1 PROVE b[i].to = b[i + 1].from
    <3>1. i \in 1 .. k /\ i + 1 \in 1 .. k /\ k + 2 - (i + 1) = k + 1 - i
      OBVIOUS
    <3> QED
      BY <1>4, <3>1
  <2> QED
    BY <1>2, <2>1, <2>2, <2>3 DEF IsPath
<1>7. Cardinality(ToSet(f)) = k
  <2>1. \A i, j \in 1 .. k : f[i] = f[j] => i = j
    BY <1>3
  <2> QED
    BY <1>2, <2>1, DistinctCount
<1>8. ASSUME NEW i \in 1 .. k PROVE f[i].to = b[k + 1 - i].from
  <2>1. PICK j \in 1 .. k : j = k + 1 - i /\ k + 2 - j = i + 1
    <3>1. k + 1 - i \in 1 .. k /\ k + 2 - (k + 1 - i) = i + 1
      OBVIOUS
    <3> QED
      BY <3>1
  <2> QED
    BY <1>3, <1>4, <2>1
<1> QED
  BY <1>1, <1>2, <1>5, <1>6, <1>7, <1>8, Zenon DEF Connects

\* The links of a walk of one step, there and back.
LEMMA Along1 ==
    ASSUME NEW n1, NEW n2, NEW x, x = <<n1, n2>>
    PROVE  /\ Along(<<Link(n1, n2)>>, 1, x)
           /\ Back(<<Link(n2, n1)>>, 1, x)
<1>1. x[1] = n1 /\ x[2] = n2
  OBVIOUS
<1>2. PICK q, b : /\ q = <<Link(n1, n2)>>
                  /\ b = <<Link(n2, n1)>>
  OBVIOUS
<1>3. Len(q) = 1 /\ q[1] = Link(n1, n2)
  BY <1>2
<1>4. Len(b) = 1 /\ b[1] = Link(n2, n1)
  BY <1>2
<1>5. q \in Seq({q[i] : i \in 1 .. 1})
  BY <1>2, <1>3
<1>6. \A i \in 1 .. 1 : i = 1
  OBVIOUS
<1>7. \A i \in 1 .. 1 : q[i] = Link(x[i], x[i + 1])
  BY <1>1, <1>3, <1>6
<1>8. \A i \in 1 .. 1 : b[i] = Link(x[3 - i], x[2 - i])
  BY <1>1, <1>4, <1>6
<1>9. \A i \in 1 .. 1 : b[i] = Link(x[1 + 2 - i], x[1 + 1 - i])
  BY <1>8
<1> QED
  BY <1>2, <1>3, <1>4, <1>5, <1>7, <1>9, Zenon DEF Along, Back

\* The links of a walk of two steps, there and back.
LEMMA Along2 ==
    ASSUME NEW n1, NEW n2, NEW n3, NEW x, x = <<n1, n2, n3>>
    PROVE  /\ Along(<<Link(n1, n2), Link(n2, n3)>>, 2, x)
           /\ Back(<<Link(n3, n2), Link(n2, n1)>>, 2, x)
<1>1. x[1] = n1 /\ x[2] = n2 /\ x[3] = n3
  OBVIOUS
<1>2. PICK q, b : /\ q = <<Link(n1, n2), Link(n2, n3)>>
                  /\ b = <<Link(n3, n2), Link(n2, n1)>>
  OBVIOUS
<1>3. Len(q) = 2 /\ q[1] = Link(n1, n2) /\ q[2] = Link(n2, n3)
  BY <1>2
<1>4. Len(b) = 2 /\ b[1] = Link(n3, n2) /\ b[2] = Link(n2, n1)
  BY <1>2
<1>5. q \in Seq({q[i] : i \in 1 .. 2})
  BY <1>2, <1>3
<1>6. \A i \in 1 .. 2 : i = 1 \/ i = 2
  OBVIOUS
<1>7. \A i \in 1 .. 2 : q[i] = Link(x[i], x[i + 1])
  BY <1>1, <1>3, <1>6
<1>8. \A i \in 1 .. 2 : b[i] = Link(x[4 - i], x[3 - i])
  BY <1>1, <1>4, <1>6
<1>9. \A i \in 1 .. 2 : b[i] = Link(x[2 + 2 - i], x[2 + 1 - i])
  BY <1>8
<1> QED
  BY <1>2, <1>3, <1>4, <1>5, <1>7, <1>9, Zenon DEF Along, Back

\* The links of a walk of four steps, there and back.
LEMMA Along4 ==
    ASSUME NEW n1, NEW n2, NEW n3, NEW n4, NEW n5, NEW x,
           x = <<n1, n2, n3, n4, n5>>
    PROVE  /\ Along(<<Link(n1, n2), Link(n2, n3), Link(n3, n4), Link(n4, n5)>>, 4, x)
           /\ Back(<<Link(n5, n4), Link(n4, n3), Link(n3, n2), Link(n2, n1)>>, 4, x)
<1>1. x[1] = n1 /\ x[2] = n2 /\ x[3] = n3 /\ x[4] = n4 /\ x[5] = n5
  OBVIOUS
<1>2. PICK q, b : /\ q = <<Link(n1, n2), Link(n2, n3), Link(n3, n4),
                            Link(n4, n5)>>
                  /\ b = <<Link(n5, n4), Link(n4, n3), Link(n3, n2),
                            Link(n2, n1)>>
  OBVIOUS
<1>3. Len(q) = 4 /\ q[1] = Link(n1, n2) /\ q[2] = Link(n2, n3) /\
      q[3] = Link(n3, n4) /\ q[4] = Link(n4, n5)
  BY <1>2
<1>4. Len(b) = 4 /\ b[1] = Link(n5, n4) /\ b[2] = Link(n4, n3) /\
      b[3] = Link(n3, n2) /\ b[4] = Link(n2, n1)
  BY <1>2
<1>5. q \in Seq({q[i] : i \in 1 .. 4})
  BY <1>2, <1>3
<1>6. \A i \in 1 .. 4 : i = 1 \/ i = 2 \/ i = 3 \/ i = 4
  OBVIOUS
<1>7. \A i \in 1 .. 4 : q[i] = Link(x[i], x[i + 1])
  BY <1>1, <1>3, <1>6
<1>8. \A i \in 1 .. 4 : b[i] = Link(x[6 - i], x[5 - i])
  BY <1>1, <1>4, <1>6
<1>9. \A i \in 1 .. 4 : b[i] = Link(x[4 + 2 - i], x[4 + 1 - i])
  BY <1>8
<1> QED
  BY <1>2, <1>3, <1>4, <1>5, <1>7, <1>9, Zenon DEF Along, Back

\* The links of a walk of six steps, there and back.
LEMMA Along6 ==
    ASSUME NEW n1, NEW n2, NEW n3, NEW n4, NEW n5, NEW n6, NEW n7, NEW x,
           x = <<n1, n2, n3, n4, n5, n6, n7>>
    PROVE  /\ Along(<<Link(n1, n2), Link(n2, n3), Link(n3, n4), Link(n4, n5),
                    Link(n5, n6), Link(n6, n7)>>, 6, x)
           /\ Back(<<Link(n7, n6), Link(n6, n5), Link(n5, n4), Link(n4, n3),
                    Link(n3, n2), Link(n2, n1)>>, 6, x)
<1>1. x[1] = n1 /\ x[2] = n2 /\ x[3] = n3 /\ x[4] = n4 /\ x[5] = n5 /\
      x[6] = n6 /\ x[7] = n7
  OBVIOUS
<1>2. PICK q, b : /\ q = <<Link(n1, n2), Link(n2, n3), Link(n3, n4),
                            Link(n4, n5), Link(n5, n6), Link(n6, n7)>>
                  /\ b = <<Link(n7, n6), Link(n6, n5), Link(n5, n4),
                            Link(n4, n3), Link(n3, n2), Link(n2, n1)>>
  OBVIOUS
<1>3. Len(q) = 6 /\ q[1] = Link(n1, n2) /\ q[2] = Link(n2, n3) /\
      q[3] = Link(n3, n4) /\ q[4] = Link(n4, n5) /\ q[5] = Link(n5, n6) /\
      q[6] = Link(n6, n7)
  BY <1>2
<1>4. Len(b) = 6 /\ b[1] = Link(n7, n6) /\ b[2] = Link(n6, n5) /\
      b[3] = Link(n5, n4) /\ b[4] = Link(n4, n3) /\ b[5] = Link(n3, n2) /\
      b[6] = Link(n2, n1)
  BY <1>2
<1>5. q \in Seq({q[i] : i \in 1 .. 6})
  BY <1>2, <1>3
<1>6. \A i \in 1 .. 6 : i = 1 \/ i = 2 \/ i = 3 \/ i = 4 \/ i = 5 \/ i = 6
  OBVIOUS
<1>7. \A i \in 1 .. 6 : q[i] = Link(x[i], x[i + 1])
  BY <1>1, <1>3, <1>6
<1>8. \A i \in 1 .. 6 : b[i] = Link(x[8 - i], x[7 - i])
  BY <1>1, <1>4, <1>6
<1>9. \A i \in 1 .. 6 : b[i] = Link(x[6 + 2 - i], x[6 + 1 - i])
  BY <1>8
<1> QED
  BY <1>2, <1>3, <1>4, <1>5, <1>7, <1>9, Zenon DEF Along, Back

\* Nodes of different kinds are different.
LEMMA Kinds ==
    /\ \A s, l : Server(s) # Leaf(l)
    /\ \A s, k : Server(s) # Core(k)
    /\ \A l, k : Leaf(l) # Core(k)
    /\ \A s, d : Server(s) = Server(d) => s = d
    /\ \A s, t : Server(s) # Tor(t)
    /\ \A s, t, a : Server(s) # Agg(t, a)
    /\ \A s, a, u : Server(s) # TreeCore(a, u)
    /\ \A s, t, a : Tor(s) # Agg(t, a)
    /\ \A s, a, u : Tor(s) # TreeCore(a, u)
    /\ \A t, b, a, u : Agg(t, b) # TreeCore(a, u)
    /\ \A s, d : Tor(s) = Tor(d) => s.tree = d.tree /\ s.tor = d.tor
BY DEF Server, Leaf, Core, Tor, Agg, TreeCore

\* The routes of the leaf-spine testbed connect their servers.
LEMMA LeafRoutes ==
    ASSUME NEW src \in Servers, NEW dst \in Servers, src # dst, NEW k
    PROVE  Connects(BuildRoute(src, dst, k))
<1>1. PICK s, d : s = Srv2ls(src) /\ d = Srv2ls(dst)
  OBVIOUS
<1>2. s # d
  <2>1. /\ src = N_SRV * s.leaf + s.srv
        /\ dst = N_SRV * d.leaf + d.srv
    BY <1>1, LeafOf, Zenon
  <2> QED
    BY <2>1
<1>3. PICK n1, n2, n3, n4, n5 :
         /\ n1 = Server(s) /\ n2 = Leaf(s.leaf) /\ n3 = Core(k)
         /\ n4 = Leaf(d.leaf) /\ n5 = Server(d)
  OBVIOUS
<1>4. PICK x : x = <<n1, n2, n3, n4, n5>>
  OBVIOUS
<1>5. PICK r : r = BuildRoute(src, dst, k)
  OBVIOUS
<1>6. /\ r.src = n1 /\ r.dst = n5
      /\ r.fwd = <<Link(n1, n2), Link(n2, n3), Link(n3, n4), Link(n4, n5)>>
      /\ r.rev = <<Link(n5, n4), Link(n4, n3), Link(n3, n2), Link(n2, n1)>>
  <2>1. r = [src |-> Server(s), dst |-> Server(d), core |-> k,
             fwd |-> Way(s, d, k), rev |-> Way(d, s, k)]
    BY <1>1, <1>5, Zenon DEF BuildRoute
  <2>2. /\ r.src = Server(s) /\ r.dst = Server(d)
        /\ r.fwd = Way(s, d, k) /\ r.rev = Way(d, s, k)
    BY <2>1
  <2>3. /\ Way(s, d, k) = <<Link(n1, n2), Link(n2, n3), Link(n3, n4), Link(n4, n5)>>
        /\ Way(d, s, k) = <<Link(n5, n4), Link(n4, n3), Link(n3, n2), Link(n2, n1)>>
    BY <1>3, Zenon DEF Way
  <2> QED
    BY <1>3, <2>2, <2>3, Zenon
<1>7. Along(r.fwd, 4, x) /\ Back(r.rev, 4, x)
  BY <1>4, <1>6, Along4, Zenon
<1>8. /\ n1 # n5 /\ n1 # n2 /\ n1 # n3 /\ n1 # n4 /\ n2 # n3 /\ n3 # n4
      /\ n5 # n2 /\ n5 # n3 /\ n5 # n4
  BY <1>2, <1>3, Kinds, Zenon
<1>9. x[1] = n1 /\ x[2] = n2 /\ x[3] = n3 /\ x[4] = n4 /\ x[5] = n5
  BY <1>4
<1>10. \A i, j \in 1 .. 4 : x[i] = x[j] /\ x[i + 1] = x[j + 1] => i = j
  <2>1. \A i \in 1 .. 4 : i = 1 \/ i = 2 \/ i = 3 \/ i = 4
    OBVIOUS
  <2> QED
    BY <1>8, <1>9, <2>1
<1>11. x[4 + 1] = n5
  BY <1>9
<1>12. 4 \in Nat \ {0}
  OBVIOUS
<1>13. r.src = x[1] /\ r.dst = x[4 + 1] /\ x[1] # x[4 + 1]
  BY <1>6, <1>8, <1>9, <1>11, Zenon
<1> QED
  BY <1>5, <1>7, <1>10, <1>12, <1>13, Road, Zenon

\* The route of the plain testbed connects its ends.
LEMMA OneLink ==
    ASSUME NEW r, NEW a, NEW b, a # b, r.src = a, r.dst = b,
           r.fwd = <<Link(a, b)>>, r.rev = <<Link(b, a)>>
    PROVE  Connects(r)
<1>1. PICK x : x = <<a, b>>
  OBVIOUS
<1>2. Along(r.fwd, 1, x) /\ Back(r.rev, 1, x)
  BY <1>1, Along1, Zenon
<1>3. x[1] = a /\ x[2] = b /\ x[1 + 1] = b
  BY <1>1
<1>4. 1 \in Nat \ {0} /\ \A i, j \in 1 .. 1 : x[i] = x[j] /\ x[i + 1] = x[j + 1] => i = j
  OBVIOUS
<1>5. r.src = x[1] /\ r.dst = x[1 + 1] /\ x[1] # x[1 + 1]
  BY <1>3
<1> QED
  BY <1>2, <1>4, <1>5, Road, Zenon

\* A node of the fat tree has a place of its own.
LEMMA OwnPlace ==
    ASSUME NEW n \in Nat, NEW m \in Nat, NodeOf(n) = NodeOf(m)
    PROVE  n = m
<1>1. N_TOR \in Nat \ {0} /\ N_SERVER \in Nat \ {0}
  BY TestbedAssumption
<1>2. PICK T \in Nat \ {0}, S \in Nat \ {0} : T = N_TOR /\ S = N_SERVER
  BY <1>1
<1>3. PICK w \in Nat \ {0} : w = T * S
  BY <1>2
<1>4. ASSUME NEW y \in Nat
      PROVE  \E u \in Int : \E v \in 0 .. T - 1 : \E r \in 0 .. S - 1 :
                /\ y = S * (T * u + v) + r
                /\ y \div w = u /\ (y \div S) % T = v /\ y % S = r
  <2>1. PICK q \in Int : \E r \in 0 .. S - 1 :
            y = S * q + r /\ y % S = r /\ y \div S = q
    BY DivMod
  <2>2. PICK r \in 0 .. S - 1 : y = S * q + r /\ y % S = r /\ y \div S = q
    BY <2>1
  <2>3. PICK u \in Int : \E v \in 0 .. T - 1 :
            q = T * u + v /\ q % T = v /\ q \div T = u
    BY DivMod
  <2>4. PICK v \in 0 .. T - 1 : q = T * u + v /\ q % T = v
    BY <2>3
  <2>5. y = S * (T * u + v) + r
    BY <2>2, <2>4
  <2>6. y = w * u + (S * v + r)
    <3>1. S * (T * u + v) = S * (T * u) + S * v
      <4>1. T * u \in Int /\ v \in Int /\ S \in Int
        OBVIOUS
      <4> QED
        BY <4>1, Distr
    <3>2. S * (T * u) = w * u
      BY <1>3
    <3>3. w * u \in Int /\ S * v \in Int /\ r \in Int
      BY <1>3
    <3> QED
      BY <2>5, <3>1, <3>2, <3>3
  <2>7. S * v + r \in 0 .. w - 1
    <3>1. S * v <= S * (T - 1)
      <4>1. v * S <= (T - 1) * S
        <5>1. v <= T - 1 /\ v \in Int /\ T - 1 \in Int /\ S \in Nat
          OBVIOUS
        <5> QED
          BY <5>1, Mono
      <4> QED
        BY <4>1
    <3>2. S * (T - 1) = w - S
      BY <1>3
    <3>3. S * v \in Nat
      OBVIOUS
    <3> QED
      BY <1>3, <3>1, <3>2, <3>3
  <2>8. y \div w = u
    <3>1. PICK z \in 0 .. w - 1 : z = S * v + r
      BY <2>7
    <3>2. y = w * u + z /\ y \in Int /\ u \in Int
      BY <2>6, <3>1
    <3> QED
      BY <3>2, Uniq
  <2> QED
    BY <2>2, <2>4, <2>5, <2>8
<1>5. /\ n \div w = m \div w /\ (n \div S) % T = (m \div S) % T
      /\ n % S = m % S
  <2>1. /\ NodeOf(n).tree = n \div w /\ NodeOf(m).tree = m \div w
        /\ NodeOf(n).tor = (n \div S) % T /\ NodeOf(m).tor = (m \div S) % T
        /\ NodeOf(n).svr = n % S /\ NodeOf(m).svr = m % S
    BY <1>2, <1>3 DEF NodeOf
  <2> QED
    BY <2>1
<1>6. PICK u, v, r :
         /\ n = S * (T * u + v) + r
         /\ n \div w = u /\ (n \div S) % T = v /\ n % S = r
  BY <1>4, Zenon
<1>7. PICK a, b, c :
         /\ m = S * (T * a + b) + c
         /\ m \div w = a /\ (m \div S) % T = b /\ m % S = c
  BY <1>4, Zenon
<1>8. u = a /\ v = b /\ r = c
  BY <1>5, <1>6, <1>7, Zenon
<1> QED
  BY <1>6, <1>7, <1>8, Zenon

\* The route in its three forms: within a rack, within a subtree, across.
LEMMA TreeWayIs ==
    ASSUME NEW s, NEW d, NEW sa, NEW da, NEW up
    PROVE  /\ Tor(s) = Tor(d) /\ s.tree = d.tree =>
                 TreeWay(s, d, sa, da, up) =
                     <<Link(Server(s), Tor(s)), Link(Tor(d), Server(d))>>
           /\ Tor(s) # Tor(d) /\ s.tree = d.tree =>
                 TreeWay(s, d, sa, da, up) =
                     <<Link(Server(s), Tor(s)), Link(Tor(s), Agg(s.tree, sa)),
                       Link(Agg(d.tree, da), Tor(d)), Link(Tor(d), Server(d))>>
           /\ Tor(s) # Tor(d) /\ s.tree # d.tree =>
                 TreeWay(s, d, sa, da, up) =
                     <<Link(Server(s), Tor(s)), Link(Tor(s), Agg(s.tree, sa)),
                       Link(Agg(s.tree, sa), TreeCore(sa, up)),
                       Link(TreeCore(da, up), Agg(d.tree, da)),
                       Link(Agg(d.tree, da), Tor(d)), Link(Tor(d), Server(d))>>
<1>1. PICK l1, l2, l3, l4, l5, l6 :
         /\ l1 = Link(Server(s), Tor(s)) /\ l2 = Link(Tor(s), Agg(s.tree, sa))
         /\ l3 = Link(Agg(s.tree, sa), TreeCore(sa, up))
         /\ l4 = Link(TreeCore(da, up), Agg(d.tree, da))
         /\ l5 = Link(Agg(d.tree, da), Tor(d)) /\ l6 = Link(Tor(d), Server(d))
  OBVIOUS
<1>2. PICK S : S = {l1, l2, l3, l4, l5, l6}
  OBVIOUS
<1>3. l1 \in S /\ l2 \in S /\ l3 \in S /\ l4 \in S /\ l5 \in S /\ l6 \in S
  BY <1>2
<1>4. TreeWay(s, d, sa, da, up) =
          (((<<l1>> \o (IF Tor(s) # Tor(d) THEN <<l2>> ELSE <<>>))
                \o (IF s.tree # d.tree THEN <<l3, l4>> ELSE <<>>))
                \o (IF Tor(s) # Tor(d) THEN <<l5>> ELSE <<>>)) \o <<l6>>
  BY <1>1, Zenon DEF TreeWay
<1>5. CASE Tor(s) = Tor(d) /\ s.tree = d.tree
  <2>1. TreeWay(s, d, sa, da, up) = (((<<l1>> \o <<>>) \o <<>>) \o <<>>) \o <<l6>>
    BY <1>4, <1>5, Zenon
  <2>2. (((<<l1>> \o <<>>) \o <<>>) \o <<>>) \o <<l6>> =
            <<l1, l6>>
    BY <1>3, TwoLinks, Zenon
  <2>3. TreeWay(s, d, sa, da, up) = <<l1, l6>>
    BY <2>1, <2>2, Zenon
  <2>4. TreeWay(s, d, sa, da, up) =
            <<Link(Server(s), Tor(s)),
              Link(Tor(d), Server(d))>>
    BY <1>1, <2>3, Zenon
  <2> QED
    BY <1>5, <2>4, Zenon
<1>6. CASE Tor(s) # Tor(d) /\ s.tree = d.tree
  <2>1. TreeWay(s, d, sa, da, up) = (((<<l1>> \o <<l2>>) \o <<>>) \o <<l5>>) \o <<l6>>
    BY <1>4, <1>6, Zenon
  <2>2. (((<<l1>> \o <<l2>>) \o <<>>) \o <<l5>>) \o <<l6>> =
            <<l1, l2, l5, l6>>
    BY <1>3, FourLinks
  <2>3. TreeWay(s, d, sa, da, up) = <<l1, l2, l5, l6>>
    BY <2>1, <2>2, Zenon
  <2>4. TreeWay(s, d, sa, da, up) =
            <<Link(Server(s), Tor(s)),
              Link(Tor(s), Agg(s.tree, sa)),
              Link(Agg(d.tree, da), Tor(d)),
              Link(Tor(d), Server(d))>>
    BY <1>1, <2>3, Zenon
  <2> QED
    BY <1>6, <2>4, Zenon
<1>7. CASE Tor(s) # Tor(d) /\ s.tree # d.tree
  <2>1. TreeWay(s, d, sa, da, up) =
            (((<<l1>> \o <<l2>>) \o <<l3, l4>>) \o <<l5>>) \o <<l6>>
    BY <1>4, <1>7, Zenon
  <2>2. (((<<l1>> \o <<l2>>) \o <<l3, l4>>) \o <<l5>>) \o <<l6>> =
            <<l1, l2, l3, l4, l5, l6>>
    BY <1>3, SixLinks
  <2>3. TreeWay(s, d, sa, da, up) = <<l1, l2, l3, l4, l5, l6>>
    BY <2>1, <2>2, Zenon
  <2>4. TreeWay(s, d, sa, da, up) =
            <<Link(Server(s), Tor(s)),
              Link(Tor(s), Agg(s.tree, sa)),
              Link(Agg(s.tree, sa), TreeCore(sa, up)),
              Link(TreeCore(da, up), Agg(d.tree, da)),
              Link(Agg(d.tree, da), Tor(d)),
              Link(Tor(d), Server(d))>>
    BY <1>1, <2>3, Zenon
  <2> QED
    BY <1>7, <2>4, Zenon
<1> QED
  BY <1>5, <1>6, <1>7, Zenon

\* The routes of the fat tree connect their servers, when both directions go by
\* the same aggregation switches.
LEMMA TreeRoutes ==
    ASSUME NEW s, NEW d, s # d, NEW sa, NEW up, NEW r,
           r.src = Server(s), r.dst = Server(d),
           r.fwd = TreeWay(s, d, sa, sa, up), r.rev = TreeWay(d, s, sa, sa, up)
    PROVE  Connects(r)
<1>1. PICK n1, n2, n3, n4, n5, n6, n7 :
         /\ n1 = Server(s) /\ n2 = Tor(s) /\ n3 = Agg(s.tree, sa)
         /\ n4 = TreeCore(sa, up)
         /\ n5 = Agg(d.tree, sa) /\ n6 = Tor(d) /\ n7 = Server(d)
  OBVIOUS
<1>2. /\ n1 # n7 /\ n1 # n2 /\ n1 # n3 /\ n1 # n4 /\ n1 # n5 /\ n1 # n6
      /\ n7 # n2 /\ n7 # n3 /\ n7 # n4 /\ n7 # n5 /\ n7 # n6
      /\ n2 # n3 /\ n2 # n4 /\ n2 # n5 /\ n6 # n3 /\ n6 # n4 /\ n6 # n5
      /\ n3 # n4 /\ n5 # n4
      /\ n2 = n6 => s.tree = d.tree
      /\ s.tree = d.tree => n3 = n5
  <2>1. n1 # n7
    BY <1>1, Kinds
  <2>2. n1 # n2 /\ n1 # n3 /\ n1 # n4 /\ n1 # n5 /\ n1 # n6
    BY <1>1, Kinds
  <2>3. n7 # n2 /\ n7 # n3 /\ n7 # n4 /\ n7 # n5 /\ n7 # n6
    BY <1>1, Kinds
  <2>4. n2 # n3 /\ n2 # n4 /\ n2 # n5 /\ n6 # n3 /\ n6 # n4 /\ n6 # n5
    BY <1>1, Kinds
  <2>5. n3 # n4 /\ n5 # n4
    BY <1>1, Kinds
  <2>6. n2 = n6 => s.tree = d.tree
    BY <1>1, Kinds
  <2>7. s.tree = d.tree => n3 = n5
    BY <1>1, Zenon
  <2> QED
    BY <2>1, <2>2, <2>3, <2>4, <2>5, <2>6, <2>7
<1>3. r.src = n1 /\ r.dst = n7
  BY <1>1
<1>4. CASE n2 = n6
  <2>1. /\ r.fwd = <<Link(n1, n2), Link(n2, n7)>>
        /\ r.rev = <<Link(n7, n2), Link(n2, n1)>>
    <3>1. Tor(s) = Tor(d) /\ Tor(d) = Tor(s) /\ s.tree = d.tree /\ d.tree = s.tree
      BY <1>1, <1>2, <1>4
    <3>2. r.fwd = <<Link(Server(s), Tor(s)), Link(Tor(d), Server(d))>>
      BY <3>1, TreeWayIs, Zenon
    <3>3. r.rev = <<Link(Server(d), Tor(d)), Link(Tor(s), Server(s))>>
      BY <3>1, TreeWayIs, Zenon
    <3> QED
      BY <1>1, <1>4, <3>2, <3>3
  <2>2. PICK x : x = <<n1, n2, n7>>
    OBVIOUS
  <2>3. Along(r.fwd, 2, x) /\ Back(r.rev, 2, x)
    BY <2>1, <2>2, Along2, Zenon
  <2>4. x[1] = n1 /\ x[2] = n2 /\ x[3] = n7 /\ x[2 + 1] = n7
    BY <2>2
  <2>5. \A i, j \in 1 .. 2 : x[i] = x[j] /\ x[i + 1] = x[j + 1] => i = j
    <3>1. \A i \in 1 .. 2 : i = 1 \/ i = 2
      OBVIOUS
    <3> QED
      BY <1>2, <2>4, <3>1
  <2>6. 2 \in Nat \ {0}
    OBVIOUS
  <2>7. r.src = x[1] /\ r.dst = x[2 + 1] /\ x[1] # x[2 + 1]
    BY <1>2, <1>3, <2>4, Zenon
  <2> QED
    BY <2>3, <2>5, <2>6, <2>7, Road, Zenon
<1>5. CASE n2 # n6 /\ s.tree = d.tree
  <2>1. /\ r.fwd = <<Link(n1, n2), Link(n2, n3), Link(n3, n6), Link(n6, n7)>>
        /\ r.rev = <<Link(n7, n6), Link(n6, n3), Link(n3, n2), Link(n2, n1)>>
    BY <1>1, <1>2, <1>5, TreeWayIs, Zenon
  <2>2. PICK x : x = <<n1, n2, n3, n6, n7>>
    OBVIOUS
  <2>3. Along(r.fwd, 4, x) /\ Back(r.rev, 4, x)
    BY <2>1, <2>2, Along4, Zenon
  <2>4. /\ x[1] = n1 /\ x[2] = n2 /\ x[3] = n3 /\ x[4] = n6 /\ x[5] = n7
        /\ x[4 + 1] = n7
    BY <2>2
  <2>5. \A i, j \in 1 .. 4 : x[i] = x[j] /\ x[i + 1] = x[j + 1] => i = j
    <3>1. \A i \in 1 .. 4 : i = 1 \/ i = 2 \/ i = 3 \/ i = 4
      OBVIOUS
    <3> QED
      BY <1>2, <1>5, <2>4, <3>1
  <2>6. 4 \in Nat \ {0}
    OBVIOUS
  <2>7. r.src = x[1] /\ r.dst = x[4 + 1] /\ x[1] # x[4 + 1]
    BY <1>2, <1>3, <2>4, Zenon
  <2> QED
    BY <2>3, <2>5, <2>6, <2>7, Road, Zenon
<1>6. CASE n2 # n6 /\ s.tree # d.tree
  <2>1. /\ r.fwd = <<Link(n1, n2), Link(n2, n3), Link(n3, n4), Link(n4, n5),
                     Link(n5, n6), Link(n6, n7)>>
        /\ r.rev = <<Link(n7, n6), Link(n6, n5), Link(n5, n4), Link(n4, n3),
                     Link(n3, n2), Link(n2, n1)>>
    BY <1>1, <1>6, TreeWayIs, Zenon
  <2>2. PICK x : x = <<n1, n2, n3, n4, n5, n6, n7>>
    OBVIOUS
  <2>3. Along(r.fwd, 6, x) /\ Back(r.rev, 6, x)
    BY <2>1, <2>2, Along6, Zenon
  <2>4. /\ x[1] = n1 /\ x[2] = n2 /\ x[3] = n3 /\ x[4] = n4 /\ x[5] = n5
        /\ x[6] = n6 /\ x[7] = n7 /\ x[6 + 1] = n7
    BY <2>2
  <2>5. \A i, j \in 1 .. 6 : x[i] = x[j] /\ x[i + 1] = x[j + 1] => i = j
    <3>1. \A i \in 1 .. 6 : i = 1 \/ i = 2 \/ i = 3 \/ i = 4 \/ i = 5 \/ i = 6
      OBVIOUS
    <3> QED
      BY <1>2, <1>6, <2>4, <3>1
  <2>6. 6 \in Nat \ {0}
    OBVIOUS
  <2>7. r.src = x[1] /\ r.dst = x[6 + 1] /\ x[1] # x[6 + 1]
    BY <1>2, <1>3, <2>4, Zenon
  <2> QED
    BY <2>3, <2>5, <2>6, <2>7, Road, Zenon
<1> QED
  BY <1>4, <1>5, <1>6

\* Every route generator of the testbeds builds a route that connects.
LEMMA NewRouteConnects ==
    ASSUME RouteGen
    PROVE  Connects(route')
<1>1. CASE GenerateRoute
  <2>1. /\ route'.src = Ends.src /\ route'.dst = Ends.dst
        /\ route'.fwd = <<Link(Ends.src, Ends.dst)>>
        /\ route'.rev = <<Link(Ends.dst, Ends.src)>>
    BY <1>1 DEF GenerateRoute
  <2>2. Ends.src # Ends.dst
    BY DEF Ends
  <2> QED
    BY <2>1, <2>2, OneLink
<1>2. CASE GenRouteEcmp
  <2>1. PICK src, dst \in Servers :
           src # dst /\ route' = BuildRoute(src, dst, FlowHash[src, dst] % N_UL)
    BY <1>2, Zenon DEF GenRouteEcmp
  <2>2. Connects(BuildRoute(src, dst, FlowHash[src, dst] % N_UL))
    BY <2>1, LeafRoutes
  <2> QED
    BY <2>1, <2>2, Zenon
<1>3. CASE GenRouteConga
  <2>1. PICK src, dst \in Servers :
           /\ src # dst
           /\ \E k : route' = BuildRoute(src, dst, k)
    BY <1>3, Zenon DEF GenRouteConga
  <2>2. PICK k : route' = BuildRoute(src, dst, k)
    BY <2>1
  <2>3. Connects(BuildRoute(src, dst, k))
    BY <2>1, LeafRoutes
  <2> QED
    BY <2>2, <2>3, Zenon
<1>4. CASE GenerateRandomRoute
  <2>1. PICK dst \in 0 .. N_NODES - 1, draw \in 0 .. N_NODES - 2,
             up \in 0 .. N_UPLINK - 1, sa \in 0 .. N_AGG - 1 :
           route' = [src |-> Server(NodeOf(SrcFor(draw, dst))),
                     dst |-> Server(NodeOf(dst)), core |-> up,
                     fwd |-> TreeWay(NodeOf(SrcFor(draw, dst)), NodeOf(dst),
                                     sa, DstAgg(sa), up),
                     rev |-> TreeWay(NodeOf(dst), NodeOf(SrcFor(draw, dst)),
                                     DstAgg(sa), sa, up)]
    BY <1>4, Zenon DEF GenerateRandomRoute
  <2>2. PICK s, d : s = NodeOf(SrcFor(draw, dst)) /\ d = NodeOf(dst)
    OBVIOUS
  <2>3. s # d
    <3>1. SrcFor(draw, dst) \in Nat /\ dst \in Nat /\ SrcFor(draw, dst) # dst
      BY DEF SrcFor
    <3> QED
      BY <2>2, <3>1, OwnPlace
  <2>4. DstAgg(sa) = sa
    BY DEF DstAgg
  <2>5. PICK r : r = route'
    OBVIOUS
  <2>6. r = [src |-> Server(s), dst |-> Server(d), core |-> up,
             fwd |-> TreeWay(s, d, sa, sa, up), rev |-> TreeWay(d, s, sa, sa, up)]
    BY <2>1, <2>2, <2>4, <2>5, Zenon
  <2>7. /\ r.src = Server(s) /\ r.dst = Server(d)
        /\ r.fwd = TreeWay(s, d, sa, sa, up) /\ r.rev = TreeWay(d, s, sa, sa, up)
    BY <2>6
  <2>8. Connects(r)
    BY <2>3, <2>7, TreeRoutes, Zenon
  <2> QED
    BY <2>5, <2>8, Zenon
<1> QED
  BY <1>1, <1>2, <1>3, <1>4, Zenon DEF RouteGen

\* EVERY ROUTE IS A ROUTE, for every size of the three testbeds and every draw:
\* the path leads from the source to the destination over links that meet, no
\* link twice, and the acks come back over the same nodes.
THEOREM RoutesAreGood == TestbedSpec => []RoutesConnect
<1>1. TestbedInit => RoutesConnect
  BY DEF TestbedInit, RoutesConnect
<1>2. RoutesConnect /\ [TestbedNext]_testbedVars => RoutesConnect'
  <2> SUFFICES ASSUME RoutesConnect, [TestbedNext]_testbedVars
               PROVE  RoutesConnect'
    OBVIOUS
  <2>1. ASSUME Connects(route') PROVE RoutesConnect'
    BY <2>1 DEF RoutesConnect, Connects, IsPath
  <2>2. ASSUME route' = NoRoute PROVE RoutesConnect'
    BY <2>2 DEF RoutesConnect, NoRoute
  <2>3. CASE TestbedNext
    <3>1. RouteGen \/ route' = NoRoute
      BY <2>3 DEF TestbedNext, GeneratorStep, SampleEvent
    <3> QED
      BY <2>1, <2>2, <3>1, NewRouteConnects
  <2>4. CASE UNCHANGED testbedVars
    BY <2>4 DEF testbedVars, RoutesConnect, IsPath, NoRoute
  <2> QED
    BY <2>3, <2>4
<1> QED
  BY <1>1, <1>2, PTL DEF TestbedSpec
============================================================================
