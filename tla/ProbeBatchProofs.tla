--------------------------- MODULE ProbeBatchProofs ---------------------------
(***************************************************************************)
(* Proofs about the probe batches, for any plugins and batches, any limit  *)
(* on the workers of a batch and any length of a request.                  *)
(***************************************************************************)
EXTENDS ProbeBatch, InductionFacts

Ids == Plugins \cup OtherIds

(* The step of the loop in SelectPlugins.                                  *)
Select(sel, id) ==
  IF id \in Plugins /\ ~Contains(sel, id) THEN Append(sel, id) ELSE sel

LEMMA SelectType ==
  ASSUME NEW sel \in Seq(Plugins), NEW id
  PROVE  Select(sel, id) \in Seq(Plugins)
BY AppendProperties DEF Select

(***************************************************************************)
(* The fold runs through the request from left to right: there are         *)
(* selections r[0], r[1], ... of which each is the step after the one      *)
(* before, and the last is what SelectPlugins returns.                     *)
(***************************************************************************)
LEMMA SelectionRuns ==
  ASSUME NEW ids \in Seq(Ids)
  PROVE  \E r \in [0 .. Len(ids) -> Seq(Plugins)] :
           /\ r[0] = <<>>
           /\ \A k \in 1 .. Len(ids) : r[k] = Select(r[k - 1], ids[k])
           /\ SelectPlugins(ids) = r[Len(ids)]
<1> DEFINE N == Len(ids)
           T == Seq(Plugins)
           f == [x \in T \X (1 .. N) |-> Select(x[1], ids[x[2]])]
<1>1. N \in Nat /\ DOMAIN ids = 1 .. N /\ <<>> \in T
  BY LenProperties
<1>2. f \in [T \X (1 .. N) -> T]
  BY SelectType
<1>3. \A t \in T, k \in 1 .. N : f[<<t, k>>] = Select(t, ids[k])
  OBVIOUS
<1> HIDE DEF f, N
<1>4. PICK g \in [SUBSET (1 .. N) -> T] : FoldSolution(g, N, <<>>, f)
  <2> HIDE DEF T
  <2> QED BY <1>1, <1>2, FoldExists
<1>5. ASSUME NEW s \in SUBSET (1 .. N), s # {}
      PROVE  g[s] = Select(g[s \ {Max(s)}], ids[Max(s)])
  <2>1. Max(s) \in 1 .. N /\ s \ {Max(s)} \in SUBSET (1 .. N)
    BY <1>1, <1>5, MaxOfIndices
  <2>2. g[s \ {Max(s)}] \in T
    BY <2>1
  <2> QED BY <1>3, <1>4, <1>5, <2>1, <2>2 DEF FoldSolution
<1>6. g[{}] = <<>>
  BY <1>4 DEF FoldSolution
<1> DEFINE F(h) == [s \in SUBSET (1 .. N) |->
                      IF s = {} THEN <<>> ELSE Select(h[s \ {Max(s)}], ids[Max(s)])]
<1>7. g = F(g)
  BY <1>5, <1>6
<1>8. SelectPlugins(ids) = (CHOOSE h : h = F(h))[1 .. N]
  BY <1>1 DEF SelectPlugins, FoldLeft, MapThenFoldSet, Select
<1> DEFINE h == CHOOSE h : h = F(h)
<1>9. h = F(h) /\ SelectPlugins(ids) = h[1 .. N]
  BY <1>7, <1>8
<1> HIDE DEF h
<1>10. h[1 .. 0] = <<>>
  <2>1. 1 .. 0 = {}
    OBVIOUS
  <2>2. h[{}] = <<>>
    BY <1>9
  <2> QED BY <2>1, <2>2
<1>11. ASSUME NEW k \in 1 .. N
       PROVE  h[1 .. k] = Select(h[1 .. k - 1], ids[k])
  <2>1. 1 .. k \in SUBSET (1 .. N) /\ 1 .. k # {} /\ k \in Nat
    BY <1>1
  <2>2. Max(1 .. k) = k
    <3>1. Max(1 .. k) \in 1 .. k /\ \A x \in 1 .. k : x <= Max(1 .. k)
      BY <2>1, MaxOfIndices
    <3> QED BY <2>1, <3>1
  <2>3. (1 .. k) \ {k} = 1 .. k - 1
    BY <2>1
  <2>4. h[1 .. k] = Select(h[(1 .. k) \ {Max(1 .. k)}], ids[Max(1 .. k)])
    BY <1>9, <2>1
  <2> QED BY <2>2, <2>3, <2>4
<1> DEFINE S == {k \in Nat : k <= N => h[1 .. k] \in T}
<1>12. 0 \in S
  BY <1>1, <1>10
<1>13. ASSUME NEW k \in Nat, k \in S
       PROVE  k + 1 \in S
  <2>1. k + 1 <= N => h[1 .. k] \in T
    BY <1>1, <1>13
  <2>2. k + 1 <= N => h[1 .. k + 1] = Select(h[1 .. k], ids[k + 1])
    BY <1>1, <1>11
  <2> QED BY <2>1, <2>2, SelectType
<1>14. \A k \in 0 .. N : h[1 .. k] \in T
  <2> HIDE DEF S
  <2>1. Nat \subseteq S
    BY <1>12, <1>13, Induction
  <2> QED BY <1>1, <2>1 DEF S
<1> DEFINE r == [k \in 0 .. N |-> h[1 .. k]]
<1>15. r \in [0 .. N -> T] /\ r[0] = <<>> /\ r[N] = SelectPlugins(ids)
  <2>1. 0 \in 0 .. N /\ N \in 0 .. N
    BY <1>1
  <2>2. r \in [0 .. N -> T]
    BY <1>14
  <2>3. r[0] = h[1 .. 0] /\ r[N] = h[1 .. N]
    BY <2>1
  <2> QED BY <1>9, <1>10, <2>2, <2>3
<1>16. \A k \in 1 .. N : r[k] = Select(r[k - 1], ids[k])
  BY <1>1, <1>11
<1> HIDE DEF r
<1> QED BY <1>15, <1>16 DEF N

(***************************************************************************)
(* What a selection is of the first k ids: the plugins among them, each    *)
(* once, and one that is mentioned before another precedes it.             *)
(***************************************************************************)
SelectedOf(sel, ids, k) ==
  /\ Distinct(sel)
  /\ \A i \in 1 .. Len(sel) : \E m \in 1 .. k : ids[m] = sel[i]
  /\ \A m \in 1 .. k : ids[m] \in Plugins => Contains(sel, ids[m])
  /\ \A i, j \in 1 .. Len(sel) : i < j =>
       \E m \in 1 .. k : ids[m] = sel[i] /\ \A n \in 1 .. m : ids[n] # sel[j]

LEMMA SelectOneMore ==
  ASSUME NEW ids \in Seq(Ids), NEW sel \in Seq(Plugins), NEW k \in Nat,
         k + 1 <= Len(ids), SelectedOf(sel, ids, k)
  PROVE  SelectedOf(Select(sel, ids[k + 1]), ids, k + 1)
<1> DEFINE id == ids[k + 1]
<1>1. Len(sel) \in Nat /\ k + 1 \in 1 .. k + 1
  BY LenProperties
<1>2. CASE id \in Plugins /\ ~Contains(sel, id)
  <2> DEFINE new == Append(sel, id)
             L == Len(sel)
  <2>1. /\ Len(new) = L + 1 /\ new[L + 1] = id
        /\ \A i \in 1 .. L : new[i] = sel[i]
    BY <1>2, AppendProperties
  <2>2. Select(sel, id) = new
    BY <1>2 DEF Select
  <2> HIDE DEF new
  <2>3. \A i \in 1 .. L : sel[i] # id
    BY <1>2 DEF Contains
  <2>4. \A m \in 1 .. k : ids[m] # id
    <3>1. \A m \in 1 .. k : ids[m] \in Plugins => Contains(sel, ids[m])
      BY DEF SelectedOf
    <3> QED BY <1>2, <3>1
  <2> HIDE DEF id
  <2>5. Distinct(new)
    <3>1. Distinct(sel)
      BY DEF SelectedOf
    <3> QED BY <1>1, <2>1, <2>3, <3>1 DEF Distinct
  <2>6. \A i \in 1 .. L + 1 : \E m \in 1 .. k + 1 : ids[m] = new[i]
    <3>1. \A i \in 1 .. L : \E m \in 1 .. k : ids[m] = sel[i]
      BY DEF SelectedOf
    <3>2. ids[k + 1] = new[L + 1]
      BY <2>1 DEF id
    <3> QED BY <1>1, <2>1, <3>1, <3>2
  <2>7. \A m \in 1 .. k + 1 : ids[m] \in Plugins => Contains(new, ids[m])
    <3>1. \A m \in 1 .. k : ids[m] \in Plugins => Contains(sel, ids[m])
      BY DEF SelectedOf
    <3>2. \A x : Contains(sel, x) => Contains(new, x)
      BY <1>1, <2>1 DEF Contains
    <3>3. Contains(new, ids[k + 1])
      BY <1>1, <2>1 DEF Contains, id
    <3> QED BY <1>1, <3>1, <3>2, <3>3
  <2>8. ASSUME NEW i \in 1 .. L + 1, NEW j \in 1 .. L + 1, i < j
        PROVE  \E m \in 1 .. k + 1 : ids[m] = new[i] /\ \A n \in 1 .. m : ids[n] # new[j]
    <3>1. i \in 1 .. L
      BY <1>1, <2>8
    <3>2. CASE j = L + 1
      <4>1. PICK m \in 1 .. k : ids[m] = sel[i]
        BY <3>1 DEF SelectedOf
      <4>2. \A n \in 1 .. m : ids[n] # new[j]
        BY <1>1, <2>1, <2>4, <3>2, <4>1
      <4> QED BY <2>1, <3>1, <4>1, <4>2
    <3>3. CASE j \in 1 .. L
      <4>1. PICK m \in 1 .. k : ids[m] = sel[i] /\ \A n \in 1 .. m : ids[n] # sel[j]
        BY <2>8, <3>1, <3>3 DEF SelectedOf
      <4> QED BY <2>1, <3>1, <3>3, <4>1
    <3> QED BY <1>1, <3>2, <3>3
  <2>9. SelectedOf(new, ids, k + 1)
    <3> HIDE DEF L
    <3> QED BY <2>1, <2>5, <2>6, <2>7, <2>8 DEF SelectedOf
  <2> QED BY <2>2, <2>9 DEF id
<1>3. CASE ~(id \in Plugins /\ ~Contains(sel, id))
  <2>1. Select(sel, id) = sel
    BY <1>3 DEF Select
  <2>2. id \in Plugins => Contains(sel, id)
    BY <1>3
  <2>3. \A m \in 1 .. k + 1 : m \in 1 .. k \/ m = k + 1
    OBVIOUS
  <2>4. \A m \in 1 .. k : m \in 1 .. k + 1
    OBVIOUS
  <2> QED BY <2>1, <2>2, <2>3, <2>4 DEF SelectedOf
<1> QED BY <1>2, <1>3

(***************************************************************************)
(* A batch selects exactly the loaded plugins that are asked for, each     *)
(* once and in the order of their first mention, however long the request  *)
(* is and whatever else it mentions.  (probe_batch.rs:66-83)               *)
(***************************************************************************)
THEOREM SelectionIsExact ==
  ASSUME NEW ids \in Seq(Ids)
  PROVE  /\ SelectPlugins(ids) \in Seq(Plugins)
         /\ SelectedOf(SelectPlugins(ids), ids, Len(ids))
<1> DEFINE N == Len(ids)
<1>1. N \in Nat
  BY LenProperties
<1>2. PICK r \in [0 .. N -> Seq(Plugins)] :
        /\ r[0] = <<>>
        /\ \A k \in 1 .. N : r[k] = Select(r[k - 1], ids[k])
        /\ SelectPlugins(ids) = r[N]
  BY SelectionRuns
<1> DEFINE S == {k \in Nat : k <= N => SelectedOf(r[k], ids, k)}
<1>3. 0 \in S
  <2>1. SelectedOf(<<>>, ids, 0)
    BY DEF SelectedOf, Distinct
  <2> QED BY <1>2, <2>1
<1>4. ASSUME NEW k \in Nat, k \in S
      PROVE  k + 1 \in S
  <2> SUFFICES ASSUME k + 1 <= N
               PROVE  SelectedOf(r[k + 1], ids, k + 1)
    OBVIOUS
  <2>1. k \in 0 .. N /\ k + 1 \in 1 .. N /\ (k + 1) - 1 = k
    BY <1>1
  <2>2. r[k] \in Seq(Plugins) /\ SelectedOf(r[k], ids, k)
    BY <1>4, <2>1
  <2>3. r[k + 1] = Select(r[k], ids[k + 1])
    BY <1>2, <2>1
  <2> QED BY <2>2, <2>3, SelectOneMore
<1>5. Nat \subseteq S
  <2> HIDE DEF S
  <2> QED BY <1>3, <1>4, Induction
<1>6. N \in 0 .. N /\ SelectedOf(r[N], ids, N)
  BY <1>1, <1>5
<1> QED BY <1>2, <1>6

-----------------------------------------------------------------------------
(* Facts about sequences, workers and events.                              *)

(***************************************************************************)
(* Taking the front of a queue without repetitions takes that one element  *)
(* out of it.                                                              *)
(***************************************************************************)
LEMMA TailOfDistinct ==
  ASSUME NEW S, NEW q \in Seq(S), q # <<>>, Distinct(q)
  PROVE  /\ Head(q) \in S /\ Contains(q, Head(q))
         /\ Tail(q) \in Seq(S) /\ Len(Tail(q)) = Len(q) - 1 /\ Distinct(Tail(q))
         /\ \A x : Contains(Tail(q), x) <=> Contains(q, x) /\ x # Head(q)
<1>1. /\ Head(q) \in S /\ Head(q) = q[1] /\ Tail(q) \in Seq(S)
      /\ Len(q) \in Nat /\ Len(q) >= 1 /\ Len(Tail(q)) = Len(q) - 1
      /\ \A i \in 1 .. Len(q) - 1 : Tail(q)[i] = q[i + 1]
  BY HeadTailProperties, LenProperties, EmptySeq
<1>2. Distinct(Tail(q))
  BY <1>1 DEF Distinct
<1>3. Contains(q, Head(q))
  BY <1>1 DEF Contains
<1>4. ASSUME NEW x, Contains(Tail(q), x)
      PROVE  Contains(q, x) /\ x # Head(q)
  <2>1. PICK i \in 1 .. Len(q) - 1 : Tail(q)[i] = x
    BY <1>1, <1>4 DEF Contains
  <2>2. i + 1 \in 1 .. Len(q) /\ i + 1 # 1 /\ 1 \in 1 .. Len(q) /\ q[i + 1] = x
    BY <1>1, <2>1
  <2> QED BY <1>1, <2>2 DEF Contains, Distinct
<1>5. ASSUME NEW x, Contains(q, x), x # Head(q)
      PROVE  Contains(Tail(q), x)
  <2>1. PICK i \in 1 .. Len(q) : q[i] = x
    BY <1>5 DEF Contains
  <2>2. i - 1 \in 1 .. Len(q) - 1 /\ (i - 1) + 1 = i
    BY <1>1, <1>5, <2>1
  <2>3. Tail(q)[i - 1] = q[(i - 1) + 1]
    BY <1>1, <2>2
  <2> QED BY <1>1, <2>1, <2>2, <2>3 DEF Contains
<1> QED BY <1>1, <1>2, <1>3, <1>4, <1>5

LEMMA ContainsEmpty ==
  \A x : ~Contains(<<>>, x)
BY DEF Contains

LEMMA ContainsIsMember ==
  ASSUME NEW S, NEW q \in Seq(S)
  PROVE  \A x : x \in ToSet(q) <=> Contains(q, x)
BY LenProperties DEF ToSet, Contains

LEMMA WorkerType ==
  ASSUME NEW w \in Workers
  PROVE  w[1] \in Batches /\ w[2] \in Slots /\ w = <<w[1], w[2]>>
BY DEF Workers

(***************************************************************************)
(* The workers of a batch are finitely many.                               *)
(***************************************************************************)
LEMMA BusyFinite ==
  ASSUME NEW b \in Batches
  PROVE  IsFiniteSet(Busy(b)) /\ Cardinality(Busy(b)) \in Nat
<1>1. IsFiniteSet(Slots)
  <2>1. 1 \in Int /\ MaxConcurrentProbes \in Int
    BY ProbeConstants
  <2> QED BY <2>1, FS_Interval DEF Slots
<1>2. IsFiniteSet({b} \X Slots)
  BY <1>1, FS_Singleton, FS_Product
<1>3. Busy(b) \subseteq {b} \X Slots
  BY DEF Busy, Workers
<1> QED BY <1>2, <1>3, FS_Subset, FS_CardinalityType

(***************************************************************************)
(* What the two kinds of events say.                                       *)
(***************************************************************************)
LEMMA EventFacts ==
  /\ \A out \in Output : /\ Result(out) \in Event
                         /\ Result(out).type = "probe:result"
                         /\ Result(out).batch = out.batch
                         /\ Result(out).output = out
                         /\ out.batch \in Batches /\ out.plugin \in Plugins
  /\ \A out \in Output, b \in Batches : /\ ~IsComplete(Result(out), b)
                                        /\ IsResult(Result(out), b) <=> out.batch = b
  /\ \A b \in Batches : BatchComplete(b) \in Event /\ BatchComplete(b).batch = b
  /\ \A b, c \in Batches : /\ ~IsResult(BatchComplete(c), b)
                           /\ IsComplete(BatchComplete(c), b) <=> c = b
  /\ \A e \in Event, b \in Batches : IsResult(e, b) =>
       /\ e = Result(e.output) /\ e.output \in Output /\ e.output.batch = b
       /\ e.output.plugin \in Plugins /\ e.type = "probe:result"
<1>1. \A out \in Output : out.batch \in Batches /\ out.plugin \in Plugins
  BY DEF Output
<1>2. \A out : /\ Result(out).type = "probe:result" /\ Result(out).batch = out.batch
              /\ Result(out).output = out
  BY DEF Result
<1>3. \A b : BatchComplete(b).type = "probe:batch-complete" /\ BatchComplete(b).batch = b
  BY DEF BatchComplete
<1>4. /\ \A out \in Output : Result(out) \in Event
      /\ \A b \in Batches : BatchComplete(b) \in Event
      /\ \A e \in Event : \/ \E out \in Output : e = Result(out)
                         \/ \E b \in Batches : e = BatchComplete(b)
  BY DEF Event
<1> QED BY <1>1, <1>2, <1>3, <1>4 DEF IsResult, IsComplete

(***************************************************************************)
(* Emitting one more event.                                                *)
(***************************************************************************)
LEMMA Emitting ==
  ASSUME events \in Seq(Event), NEW e \in Event, events' = Append(events, e)
  PROVE  /\ events' \in Seq(Event)
         /\ Len(events) \in Nat /\ DOMAIN events = 1 .. Len(events)
         /\ DOMAIN events' = 1 .. Len(events) + 1
         /\ \A i \in DOMAIN events : events'[i] = events[i] /\ i \in DOMAIN events'
         /\ events'[Len(events) + 1] = e
         /\ \A i \in DOMAIN events' : i \in DOMAIN events \/ i = Len(events) + 1
         /\ \A b, p : HasResult(b, p)'
                        <=> HasResult(b, p) \/ (IsResult(e, b) /\ e.output.plugin = p)
         /\ \A b : HasComplete(b)' <=> HasComplete(b) \/ IsComplete(e, b)
<1>1. /\ events' \in Seq(Event) /\ Len(events) \in Nat
      /\ DOMAIN events = 1 .. Len(events) /\ DOMAIN events' = 1 .. Len(events) + 1
      /\ \A i \in 1 .. Len(events) : events'[i] = events[i]
      /\ events'[Len(events) + 1] = e
  BY AppendProperties, LenProperties
<1>2. /\ \A i \in DOMAIN events : events'[i] = events[i] /\ i \in DOMAIN events'
      /\ \A i \in DOMAIN events' : i \in DOMAIN events \/ i = Len(events) + 1
      /\ Len(events) + 1 \in DOMAIN events'
  BY <1>1
<1>3. ASSUME NEW b, NEW p
      PROVE  HasResult(b, p)' <=> HasResult(b, p) \/ (IsResult(e, b) /\ e.output.plugin = p)
  BY <1>1, <1>2 DEF HasResult, IsResult
<1>4. ASSUME NEW b
      PROVE  HasComplete(b)' <=> HasComplete(b) \/ IsComplete(e, b)
  BY <1>1, <1>2 DEF HasComplete, IsComplete
<1> QED BY <1>1, <1>2, <1>3, <1>4

(***************************************************************************)
(* The step of one worker changes the busy workers of its batch only.      *)
(***************************************************************************)
PcValues == {"done", "pop", "run", "cache", "emit", "count", "complete"}
BusyAt(at) == at \in {"run", "cache", "emit", "count"}

LEMMA BusyValues ==
  /\ BusyAt("run") /\ BusyAt("cache") /\ BusyAt("emit") /\ BusyAt("count")
  /\ ~BusyAt("done") /\ ~BusyAt("pop") /\ ~BusyAt("complete")
BY DEF BusyAt

LEMMA BusyMembers ==
  \A b \in Batches : \A w : w \in Busy(b) <=> w \in Workers /\ w[1] = b /\ BusyAt(pc[w])
BY DEF Busy, Holding, BusyAt

LEMMA BusySteps ==
  ASSUME NEW w \in Workers, NEW at, TypeOK,
         pc' = [pc EXCEPT ![w] = at]
  PROVE  /\ (BusyAt(at) <=> BusyAt(pc[w])) =>
              \A b \in Batches : Cardinality(Busy(b))' = Cardinality(Busy(b))
         /\ BusyAt(at) /\ ~BusyAt(pc[w]) =>
              \A b \in Batches : Cardinality(Busy(b))' =
                IF b = w[1] THEN Cardinality(Busy(b)) + 1 ELSE Cardinality(Busy(b))
         /\ ~BusyAt(at) /\ BusyAt(pc[w]) =>
              \A b \in Batches : Cardinality(Busy(b))' =
                IF b = w[1] THEN Cardinality(Busy(b)) - 1 ELSE Cardinality(Busy(b))
<1>1. ASSUME NEW b \in Batches
      PROVE  \A v : v \in Busy(b)' <=>
               v \in Workers /\ v[1] = b /\ IF v = w THEN BusyAt(at) ELSE BusyAt(pc[v])
  <2>1. \A v \in Workers : pc'[v] = IF v = w THEN at ELSE pc[v]
    BY DEF TypeOK
  <2> QED BY <2>1 DEF Busy, Holding, BusyAt
<1>2. ASSUME NEW b \in Batches, b # w[1]
      PROVE  Busy(b)' = Busy(b)
  <2>1. \A v : v \in Busy(b)' <=> v \in Busy(b)
    BY <1>1, <1>2, BusyMembers
  <2> QED BY <2>1
<1>3. ASSUME (BusyAt(at) <=> BusyAt(pc[w]))
      PROVE  \A b \in Batches : Busy(b)' = Busy(b)
  <2> SUFFICES ASSUME NEW b \in Batches
               PROVE  Busy(b)' = Busy(b)
    OBVIOUS
  <2>1. \A v : v \in Busy(b)' <=> v \in Busy(b)
    BY <1>1, <1>3, BusyMembers DEF BusyAt
  <2> QED BY <2>1
<1>4. ASSUME BusyAt(at), ~BusyAt(pc[w])
      PROVE  Busy(w[1])' = Busy(w[1]) \cup {w} /\ w \notin Busy(w[1])
  BY <1>1, <1>4, BusyMembers, WorkerType
<1>5. ASSUME ~BusyAt(at), BusyAt(pc[w])
      PROVE  Busy(w[1])' = Busy(w[1]) \ {w} /\ w \in Busy(w[1])
  BY <1>1, <1>5, BusyMembers, WorkerType
<1>6. w[1] \in Batches /\ IsFiniteSet(Busy(w[1])) /\ Cardinality(Busy(w[1])) \in Nat
  BY WorkerType, BusyFinite
<1>7. ASSUME BusyAt(at), ~BusyAt(pc[w])
      PROVE  Cardinality(Busy(w[1]))' = Cardinality(Busy(w[1])) + 1
  BY <1>4, <1>6, <1>7, FS_AddElement
<1>8. ASSUME ~BusyAt(at), BusyAt(pc[w])
      PROVE  Cardinality(Busy(w[1]))' = Cardinality(Busy(w[1])) - 1
  BY <1>5, <1>6, <1>8, FS_RemoveElement
<1> QED BY <1>2, <1>3, <1>7, <1>8

-----------------------------------------------------------------------------
(* The invariant holds initially, and every step preserves it.             *)

LEMMA InitEstablishes ==
  Init => IInv
<1> SUFFICES ASSUME Init PROVE IInv
  OBVIOUS
<1> USE DEF Init
<1>1. Len(<<>>) = 0 /\ <<>> \in Seq(Plugins) /\ <<>> \in Seq(Event) /\ DOMAIN events = {}
  BY LenProperties
<1>2. TypeOK
  BY <1>1 DEF TypeOK
<1>3. \A w \in Workers : pc[w] = "done" /\ ~Holding(w)
  BY DEF Holding
<1>4. \A b \in Batches : \A p : ~Held(b, p) /\ ~HasResult(b, p) /\ ~HasComplete(b)
  BY <1>1, <1>3 DEF Held, HasResult, HasComplete
<1>5. NothingBefore
  BY <1>1 DEF NothingBefore
<1>6. OnePlace
  <2>1. \A b \in Batches : Distinct(queue[b])
    BY DEF Distinct
  <2> QED BY <1>1, <1>3, <1>4, <2>1, ContainsEmpty DEF OnePlace
<1>7. InHand
  BY <1>3 DEF InHand
<1>8. CountsOpen
  <2> SUFFICES ASSUME NEW b \in Batches
               PROVE  remaining[b] = Len(queue[b]) + Cardinality(Busy(b))
    BY DEF CountsOpen
  <2>1. Busy(b) = {}
    BY <1>3 DEF Busy
  <2> QED BY <1>1, <2>1, FS_EmptySet
<1>9. OneReport /\ CompleteIsLast /\ CacheHoldsSuccess /\ EmittedIsCached /\ ResultIsServed
  <2>1. OneReport /\ EmittedIsCached
    BY <1>3, <1>4 DEF OneReport, EmittedIsCached
  <2>2. CompleteIsLast /\ CacheHoldsSuccess /\ ResultIsServed
    BY <1>1 DEF CompleteIsLast, CacheHoldsSuccess, ResultIsServed, ToSet
  <2> QED BY <2>1, <2>2
<1> QED BY <1>1, <1>2, <1>5, <1>6, <1>7, <1>8, <1>9 DEF IInv

LEMMA StutterKeeps ==
  ASSUME IInv, UNCHANGED vars
  PROVE  IInv'
BY DEF vars, threads, IInv, TypeOK, NothingBefore, OnePlace, InHand, CountsOpen, OneReport,
       CompleteIsLast, CacheHoldsSuccess, EmittedIsCached, ResultIsServed, Held, HasResult,
       HasComplete, Holding, Busy, ProbedOnlyBy

(***************************************************************************)
(* A request of the webview is a sequence of ids.                          *)
(***************************************************************************)
LEMMA RequestType ==
  ASSUME NEW ids \in Requests
  PROVE  ids \in Seq(Ids)
<1>1. PICK n \in 0 .. MaxRequest : ids \in [1 .. n -> Ids]
  BY DEF Requests, BoundedSeq, SeqOf, Ids
<1>2. n \in Nat
  OBVIOUS
<1> QED BY <1>1, <1>2, IsASeq

(***************************************************************************)
(* start_probe_batch.                                                      *)
(***************************************************************************)
LEMMA StartKeeps ==
  ASSUME IInv, NEW b \in Batches, NEW ids \in Requests, StartProbeBatch(b, ids)
  PROVE  IInv'
<1> DEFINE sel == SelectPlugins(ids)
<1>1. sel \in Seq(Plugins) /\ Distinct(sel) /\ Len(sel) \in Nat
  BY RequestType, SelectionIsExact, LenProperties DEF SelectedOf
<1> HIDE DEF sel
<1>2. /\ b \notin started /\ started' = started \cup {b}
      /\ selected' = [selected EXCEPT ![b] = sel]
      /\ UNCHANGED <<plugin, output, cached, panicked>>
      /\ \/ /\ sel = <<>> /\ events' = Append(events, BatchComplete(b))
            /\ UNCHANGED <<queue, remaining, pc>>
         \/ /\ sel # <<>>
            /\ queue' = [queue EXCEPT ![b] = sel]
            /\ remaining' = [remaining EXCEPT ![b] = Len(sel)]
            /\ pc' = [w \in Workers |->
                        IF w[1] = b /\ w[2] <= ProbeWorkerCount(Len(sel)) THEN "pop" ELSE pc[w]]
            /\ UNCHANGED events
  BY DEF StartProbeBatch, sel
<1>3. /\ TypeOK /\ events \in Seq(Event) /\ NothingBefore /\ OnePlace /\ InHand /\ CountsOpen
      /\ OneReport /\ CompleteIsLast /\ CacheHoldsSuccess /\ EmittedIsCached /\ ResultIsServed
  BY DEF IInv
(* What is new of each variable, in both cases at once.                    *)
<1>4. /\ selected'[b] = sel /\ queue'[b] = sel /\ remaining'[b] = Len(sel)
      /\ \A c \in Batches : c # b => /\ selected'[c] = selected[c] /\ queue'[c] = queue[c]
                                     /\ remaining'[c] = remaining[c]
      /\ panicked'[b] = {} /\ selected[b] = <<>> /\ Len(<<>>) = 0
  <2>1. /\ selected[b] = <<>> /\ queue[b] = <<>> /\ remaining[b] = 0 /\ panicked[b] = {}
    BY <1>2, <1>3 DEF NothingBefore
  <2>2. Len(<<>>) = 0
    OBVIOUS
  <2> QED BY <1>1, <1>2, <1>3, <2>1, <2>2 DEF TypeOK
<1>5. /\ pc' \in [Workers -> {"done", "pop", "run", "cache", "emit", "count", "complete"}]
      /\ \A w \in Workers : /\ w[1] = b => pc[w] = "done" /\ pc'[w] \in {"done", "pop"}
                            /\ w[1] # b => pc'[w] = pc[w]
  <2>1. \A w \in Workers : w[1] = b => pc[w] = "done"
    BY <1>2, <1>3 DEF NothingBefore
  <2> QED BY <1>2, <1>3, <2>1 DEF TypeOK
<1>6. \A w \in Workers : /\ Holding(w)' <=> Holding(w)
                         /\ pc'[w] = pc[w] \/ pc'[w] \notin {"run", "cache", "emit", "count", "complete"}
                         /\ pc[w] \in {"run", "cache", "emit", "count", "complete"} => w[1] # b
  BY <1>5 DEF Holding
<1>7. /\ \A c \in Batches : \A p : Held(c, p)' <=> Held(c, p)
      /\ \A p : ~Held(b, p)
  BY <1>2, <1>6 DEF Held, Holding
<1>8. /\ events' \in Seq(Event)
      /\ \A c \in Batches : \A p : HasResult(c, p)' <=> HasResult(c, p)
      /\ \A c \in Batches : HasComplete(c)' <=> HasComplete(c) \/ (c = b /\ sel = <<>>)
      /\ \A p : ~HasResult(b, p)
      /\ ~HasComplete(b)
  <2>1. BatchComplete(b) \in Event /\ \A c \in Batches : \A p : ~IsResult(BatchComplete(b), c)
    BY EventFacts
  <2>2. \A c \in Batches : IsComplete(BatchComplete(b), c) <=> c = b
    BY EventFacts
  <2>3. (\A p : ~HasResult(b, p)) /\ ~HasComplete(b)
    <3>1. \A i \in DOMAIN events : events[i].batch # b
      BY <1>2, <1>3 DEF NothingBefore
    <3> QED BY <3>1 DEF HasResult, HasComplete, IsResult, IsComplete
  <2>4. CASE sel = <<>>
    BY <1>2, <1>3, <2>1, <2>2, <2>3, <2>4, Emitting
  <2>5. CASE sel # <<>>
    BY <1>2, <1>3, <2>3, <2>5 DEF HasResult, HasComplete
  <2> QED BY <2>4, <2>5
<1>9. TypeOK'
  <2>1. /\ selected' \in [Batches -> Seq(Plugins)] /\ queue' \in [Batches -> Seq(Plugins)]
        /\ remaining' \in [Batches -> Nat]
    BY <1>1, <1>2, <1>3 DEF TypeOK
  <2>2. /\ started' \subseteq Batches
        /\ plugin' \in [Workers -> Plugins \cup {None}]
        /\ output' \in [Workers -> Output \cup {None}]
        /\ cached' \in [Plugins -> Output \cup {None}]
        /\ panicked' \in [Batches -> SUBSET Plugins]
    BY <1>2, <1>3 DEF TypeOK
  <2> QED BY <1>5, <2>1, <2>2 DEF TypeOK
<1>10. NothingBefore'
  <2> SUFFICES ASSUME NEW c \in Batches \ started'
               PROVE  /\ selected'[c] = <<>> /\ queue'[c] = <<>> /\ remaining'[c] = 0 /\ panicked'[c] = {}
                      /\ \A w \in Workers : w[1] = c => pc'[w] = "done"
                      /\ \A i \in DOMAIN events' : events'[i].batch # c
    BY DEF NothingBefore
  <2>1. c # b /\ c \in Batches \ started
    BY <1>2
  <2>2. \A i \in DOMAIN events' : events'[i].batch # c
    <3>1. \A i \in DOMAIN events : events[i].batch # c
      BY <1>3, <2>1 DEF NothingBefore
    <3>2. CASE sel = <<>>
      BY <1>2, <1>3, <2>1, <3>1, <3>2, Emitting, EventFacts
    <3> QED BY <1>2, <3>1, <3>2
  <2>3. /\ selected[c] = <<>> /\ queue[c] = <<>> /\ remaining[c] = 0 /\ panicked[c] = {}
        /\ \A w \in Workers : w[1] = c => pc[w] = "done"
    BY <1>3, <2>1 DEF NothingBefore
  <2> QED BY <1>2, <1>4, <1>5, <2>1, <2>2, <2>3
<1>11. OnePlace'
  <2>1. ASSUME NEW c \in Batches, NEW p \in Plugins
        PROVE  (/\ Contains(selected[c], p)
                     <=> Contains(queue[c], p) \/ Held(c, p) \/ p \in panicked[c] \/ HasResult(c, p)
                /\ Contains(queue[c], p) => ~Held(c, p) /\ p \notin panicked[c] /\ ~HasResult(c, p)
                /\ Held(c, p) => p \notin panicked[c] /\ ~HasResult(c, p)
                /\ p \in panicked[c] => ~HasResult(c, p))'
    <3>1. CASE c = b
      BY <1>4, <1>7, <1>8, <3>1
    <3>2. CASE c # b
      BY <1>2, <1>3, <1>4, <1>7, <1>8, <3>2 DEF OnePlace
    <3> QED BY <3>1, <3>2
  <2>2. \A c \in Batches : Distinct(queue'[c])
    BY <1>1, <1>3, <1>4 DEF OnePlace
  <2>3. \A v, w \in Workers :
          v[1] = w[1] /\ Holding(v)' /\ Holding(w)' /\ plugin'[v] = plugin'[w] => v = w
    BY <1>2, <1>3, <1>6 DEF OnePlace
  <2>4. \A i, j \in DOMAIN events', c \in Batches :
          IsResult(events'[i], c) /\ IsResult(events'[j], c)
            /\ events'[i].output.plugin = events'[j].output.plugin => i = j
    <3>1. CASE sel = <<>>
      <4>1. events' = Append(events, BatchComplete(b)) /\ BatchComplete(b) \in Event
        BY <1>2, <3>1, EventFacts
      <4>2. \A c \in Batches : ~IsResult(BatchComplete(b), c)
        BY EventFacts
      <4>3. \A i \in DOMAIN events', c \in Batches :
              IsResult(events'[i], c) => i \in DOMAIN events /\ events'[i] = events[i]
        BY <1>3, <4>1, <4>2, Emitting
      <4> QED BY <1>3, <4>3 DEF OnePlace
    <3> QED BY <1>2, <1>3, <3>1 DEF OnePlace
  <2> QED BY <2>1, <2>2, <2>3, <2>4 DEF OnePlace
<1>12. InHand'
  BY <1>2, <1>3, <1>6 DEF InHand, Holding
<1>13. CountsOpen'
  <2> SUFFICES ASSUME NEW c \in Batches
               PROVE  remaining'[c] = Len(queue'[c]) + Cardinality(Busy(c)')
    BY DEF CountsOpen
  <2>1. Busy(c)' = Busy(c)
    BY <1>5 DEF Busy, Holding
  <2>2. CASE c = b
    <3>1. Busy(b) = {}
      BY <1>5 DEF Busy, Holding
    <3> QED BY <1>1, <1>4, <2>1, <2>2, <3>1, FS_EmptySet
  <2>3. CASE c # b
    BY <1>3, <1>4, <2>1, <2>3 DEF CountsOpen
  <2> QED BY <2>2, <2>3
<1>14. OneReport'
  <2>1. \A w \in Workers : pc'[w] = "complete" => pc[w] = "complete" /\ w[1] # b /\ w[1] \in Batches
    BY <1>6, WorkerType
  <2>2. ASSUME NEW c \in Batches, HasComplete(c)'
        PROVE  remaining'[c] = 0
    <3>1. CASE c = b
      BY <1>4, <1>8, <2>2, <3>1
    <3>2. CASE c # b
      BY <1>3, <1>4, <1>8, <2>2, <3>2 DEF OneReport
    <3> QED BY <3>1, <3>2
  <2>3. \A w \in Workers : pc'[w] = "complete" => remaining'[w[1]] = 0 /\ ~HasComplete(w[1])'
    BY <1>3, <1>4, <1>8, <2>1 DEF OneReport
  <2>4. \A v, w \in Workers :
          v[1] = w[1] /\ pc'[v] = "complete" /\ pc'[w] = "complete" => v = w
    BY <1>3, <2>1 DEF OneReport
  <2> QED BY <2>2, <2>3, <2>4 DEF OneReport
<1>15. CompleteIsLast'
  <2>1. CASE sel = <<>>
    <3>1. events' = Append(events, BatchComplete(b)) /\ BatchComplete(b) \in Event
          /\ BatchComplete(b).batch = b
      BY <1>2, <2>1, EventFacts
    <3>2. \A i \in DOMAIN events : events[i].batch # b
      BY <1>2, <1>3 DEF NothingBefore
    <3>3. \A i \in DOMAIN events, c \in Batches : IsComplete(events[i], c) => c # b
      BY <3>2 DEF IsComplete
    <3> QED BY <1>3, <3>1, <3>3, Emitting DEF CompleteIsLast
  <2> QED BY <1>2, <1>3, <2>1 DEF CompleteIsLast
<1>16. CacheHoldsSuccess'
  BY <1>2, <1>3 DEF CacheHoldsSuccess
<1>17. \A c \in Batches : \A p : ProbedOnlyBy(p, c)' => ProbedOnlyBy(p, c)
  BY <1>4, ContainsEmpty DEF ProbedOnlyBy
<1>18. EmittedIsCached'
  <2>1. \A w \in Workers : pc'[w] = "emit" => pc[w] = "emit" /\ w[1] \in Batches
    BY <1>6, WorkerType
  <2> QED BY <1>2, <1>3, <1>17, <2>1 DEF EmittedIsCached
<1>19. ResultIsServed'
  <2>1. \A e \in ToSet(events') : e.type = "probe:result" => e \in ToSet(events)
    <3>1. CASE sel = <<>>
      <4>1. events' = Append(events, BatchComplete(b)) /\ BatchComplete(b) \in Event
            /\ BatchComplete(b).type # "probe:result"
        BY <1>2, <3>1, EventFacts DEF BatchComplete
      <4> QED BY <1>3, <4>1, Emitting DEF ToSet
    <3> QED BY <1>2, <3>1
  <2>2. \A e \in ToSet(events) : e.type = "probe:result" => e.batch \in Batches
    <3>1. \A e \in ToSet(events) : e \in Event
      BY <1>3, LenProperties, ElementOfSeq DEF ToSet
    <3> QED BY <3>1, EventFacts DEF Event, BatchComplete
  <2> QED BY <1>2, <1>3, <1>17, <2>1, <2>2 DEF ResultIsServed
<1> QED BY <1>8, <1>9, <1>10, <1>11, <1>12, <1>13, <1>14, <1>15, <1>16, <1>18, <1>19 DEF IInv

(***************************************************************************)
(* Only a started batch has workers, so a step of one leaves the others as *)
(* they are.                                                               *)
(***************************************************************************)
LEMMA WorkerMoves ==
  ASSUME IInv, NEW w \in Workers, NEW at \in PcValues, pc[w] # "done",
         pc' = [pc EXCEPT ![w] = at], UNCHANGED <<started, selected>>
  PROVE  /\ w[1] \in Batches /\ w[1] \in started
         /\ pc' \in [Workers -> PcValues]
         /\ pc'[w] = at /\ \A v \in Workers : v # w => pc'[v] = pc[v]
         /\ \A v \in Workers : v # w => (Holding(v)' <=> Holding(v))
         /\ Holding(w)' <=> at \in {"run", "cache", "emit"}
         /\ \A c \in Batches : \A p : ProbedOnlyBy(p, c)' <=> ProbedOnlyBy(p, c)
         /\ (/\ UNCHANGED events
             /\ \A c \in Batches \ {w[1]} : /\ queue'[c] = queue[c] /\ remaining'[c] = remaining[c]
                                            /\ panicked'[c] = panicked[c])
              => NothingBefore'
         /\ UNCHANGED events =>
              /\ \A c, p : HasResult(c, p)' <=> HasResult(c, p)
              /\ \A c : HasComplete(c)' <=> HasComplete(c)
              /\ CompleteIsLast'
<1>1. TypeOK /\ NothingBefore /\ CompleteIsLast
  BY DEF IInv
<1>2. /\ w[1] \in Batches /\ w[1] \in started
  BY <1>1, WorkerType DEF NothingBefore
<1>3. /\ pc' \in [Workers -> PcValues]
      /\ pc'[w] = at /\ \A v \in Workers : v # w => pc'[v] = pc[v]
  BY <1>1 DEF TypeOK, PcValues
<1>4. /\ \A v \in Workers : v # w => (Holding(v)' <=> Holding(v))
      /\ Holding(w)' <=> at \in {"run", "cache", "emit"}
  BY <1>3 DEF Holding
<1>5. \A c \in Batches : \A p : ProbedOnlyBy(p, c)' <=> ProbedOnlyBy(p, c)
  BY DEF ProbedOnlyBy
<1>6. ASSUME UNCHANGED events,
             \A c \in Batches \ {w[1]} : /\ queue'[c] = queue[c] /\ remaining'[c] = remaining[c]
                                         /\ panicked'[c] = panicked[c]
      PROVE  NothingBefore'
  BY <1>1, <1>2, <1>3, <1>6 DEF NothingBefore
<1>7. ASSUME UNCHANGED events
      PROVE  /\ \A c, p : HasResult(c, p)' <=> HasResult(c, p)
             /\ \A c : HasComplete(c)' <=> HasComplete(c)
             /\ CompleteIsLast'
  BY <1>1, <1>7 DEF HasResult, HasComplete, CompleteIsLast
<1> QED BY <1>2, <1>3, <1>4, <1>5, <1>6, <1>7

(***************************************************************************)
(* A worker finds the queue empty and ends, or takes the front of it.      *)
(***************************************************************************)
LEMMA PopFrontKeeps ==
  ASSUME IInv, NEW w \in Workers, PopFront(w)
  PROVE  IInv'
<1> DEFINE b == w[1]
           p0 == Head(queue[b])
<1>1. /\ TypeOK /\ events \in Seq(Event) /\ NothingBefore /\ OnePlace /\ InHand /\ CountsOpen
      /\ OneReport /\ CompleteIsLast /\ CacheHoldsSuccess /\ EmittedIsCached /\ ResultIsServed
  BY DEF IInv
<1>2. /\ pc[w] = "pop" /\ b \in Batches
      /\ UNCHANGED <<started, selected, remaining, output, cached, events, panicked>>
  BY WorkerType DEF PopFront
<1>3. CASE queue[b] = <<>>
  <2>1. pc' = [pc EXCEPT ![w] = "done"] /\ UNCHANGED <<queue, plugin>>
    BY <1>3 DEF PopFront
  <2>2. /\ pc' \in [Workers -> PcValues]
        /\ pc'[w] = "done" /\ \A v \in Workers : v # w => pc'[v] = pc[v]
        /\ \A v \in Workers : v # w => (Holding(v)' <=> Holding(v))
        /\ ~Holding(w)' /\ ~Holding(w)
        /\ \A c \in Batches : \A p : ProbedOnlyBy(p, c)' <=> ProbedOnlyBy(p, c)
        /\ \A c, p : HasResult(c, p)' <=> HasResult(c, p)
        /\ \A c : HasComplete(c)' <=> HasComplete(c)
        /\ CompleteIsLast' /\ NothingBefore'
    BY <1>2, <2>1, WorkerMoves DEF Holding, PcValues
  <2>3. \A c, p : Held(c, p)' <=> Held(c, p)
    BY <2>1, <2>2 DEF Held
  <2>4. TypeOK'
    BY <1>1, <1>2, <2>1, <2>2 DEF TypeOK, PcValues
  <2>5. OnePlace'
    BY <1>1, <1>2, <2>1, <2>2, <2>3 DEF OnePlace
  <2>6. InHand'
    BY <1>1, <1>2, <2>1, <2>2 DEF InHand
  <2>7. CountsOpen'
    <3>1. \A c \in Batches : Cardinality(Busy(c))' = Cardinality(Busy(c))
      BY <1>1, <1>2, <2>1, BusySteps, BusyValues
    <3> QED BY <1>1, <1>2, <2>1, <3>1 DEF CountsOpen
  <2>8. OneReport'
    BY <1>1, <1>2, <2>2 DEF OneReport
  <2>9. CacheHoldsSuccess' /\ ResultIsServed'
    BY <1>1, <1>2 DEF CacheHoldsSuccess, ResultIsServed, ProbedOnlyBy
  <2>10. EmittedIsCached'
    BY <1>1, <1>2, <2>1, <2>2, WorkerType DEF EmittedIsCached
  <2> QED BY <1>1, <1>2, <2>2, <2>4, <2>5, <2>6, <2>7, <2>8, <2>9, <2>10 DEF IInv
<1>4. CASE queue[b] # <<>>
  <2>1. /\ pc' = [pc EXCEPT ![w] = "run"] /\ plugin' = [plugin EXCEPT ![w] = p0]
        /\ queue' = [queue EXCEPT ![b] = Tail(queue[b])]
    BY <1>4 DEF PopFront
  <2>2. /\ p0 \in Plugins /\ Contains(queue[b], p0)
        /\ Tail(queue[b]) \in Seq(Plugins) /\ Len(Tail(queue[b])) = Len(queue[b]) - 1
        /\ Distinct(Tail(queue[b])) /\ Len(queue[b]) \in Nat
        /\ \A p : Contains(Tail(queue[b]), p) <=> Contains(queue[b], p) /\ p # p0
    <3>1. queue[b] \in Seq(Plugins) /\ Distinct(queue[b])
      BY <1>1, <1>2 DEF TypeOK, OnePlace
    <3> QED BY <1>4, <3>1, TailOfDistinct, LenProperties
  <2>3. /\ pc' \in [Workers -> PcValues]
        /\ pc'[w] = "run" /\ \A v \in Workers : v # w => pc'[v] = pc[v]
        /\ \A v \in Workers : v # w => (Holding(v)' <=> Holding(v))
        /\ Holding(w)' /\ ~Holding(w)
        /\ \A c \in Batches : \A p : ProbedOnlyBy(p, c)' <=> ProbedOnlyBy(p, c)
        /\ \A c, p : HasResult(c, p)' <=> HasResult(c, p)
        /\ \A c : HasComplete(c)' <=> HasComplete(c)
        /\ CompleteIsLast'
    BY <1>2, <2>1, WorkerMoves DEF Holding, PcValues
  <2> HIDE DEF p0
  <2>4. /\ queue'[b] = Tail(queue[b]) /\ \A c \in Batches : c # b => queue'[c] = queue[c]
        /\ plugin'[w] = p0 /\ \A v \in Workers : v # w => plugin'[v] = plugin[v]
        /\ plugin' \in [Workers -> Plugins \cup {None}]
        /\ queue' \in [Batches -> Seq(Plugins)]
    BY <1>1, <1>2, <2>1, <2>2 DEF TypeOK
  <2>5. NothingBefore'
    BY <1>2, <2>1, <2>4, WorkerMoves DEF PcValues
  <2>6. \A c, p : Held(c, p)' <=> Held(c, p) \/ (c = b /\ p = p0)
    BY <2>3, <2>4 DEF Held
  <2>7. TypeOK'
    BY <1>1, <1>2, <2>3, <2>4 DEF TypeOK, PcValues
  <2>8. OnePlace'
    <3>1. ASSUME NEW c \in Batches, NEW p \in Plugins
          PROVE  (/\ Contains(selected[c], p)
                       <=> Contains(queue[c], p) \/ Held(c, p) \/ p \in panicked[c] \/ HasResult(c, p)
                  /\ Contains(queue[c], p) => ~Held(c, p) /\ p \notin panicked[c] /\ ~HasResult(c, p)
                  /\ Held(c, p) => p \notin panicked[c] /\ ~HasResult(c, p)
                  /\ p \in panicked[c] => ~HasResult(c, p))'
      <4>1. /\ Contains(selected[c], p)
                 <=> Contains(queue[c], p) \/ Held(c, p) \/ p \in panicked[c] \/ HasResult(c, p)
            /\ Contains(queue[c], p) => ~Held(c, p) /\ p \notin panicked[c] /\ ~HasResult(c, p)
            /\ Held(c, p) => p \notin panicked[c] /\ ~HasResult(c, p)
            /\ p \in panicked[c] => ~HasResult(c, p)
        BY <1>1 DEF OnePlace
      <4>2. Contains(queue'[c], p) <=> Contains(queue[c], p) /\ ~(c = b /\ p = p0)
        BY <2>2, <2>4
      <4>3. c = b /\ p = p0 => Contains(queue[c], p)
        BY <2>2
      <4> QED BY <1>2, <2>3, <2>6, <4>1, <4>2, <4>3
    <3>2. \A c \in Batches : Distinct(queue'[c])
      BY <1>1, <2>2, <2>4 DEF OnePlace
    <3>3. \A v \in Workers : v[1] = b /\ Holding(v) => plugin[v] # p0
      <4>1. ~Held(b, p0)
        BY <1>1, <1>2, <2>2 DEF OnePlace
      <4> QED BY <4>1 DEF Held
    <3>4. \A u, v \in Workers :
            u[1] = v[1] /\ Holding(u)' /\ Holding(v)' /\ plugin'[u] = plugin'[v] => u = v
      BY <1>1, <2>3, <2>4, <3>3 DEF OnePlace
    <3>5. \A i, j \in DOMAIN events, c \in Batches :
            IsResult(events[i], c) /\ IsResult(events[j], c)
              /\ events[i].output.plugin = events[j].output.plugin => i = j
      BY <1>1 DEF OnePlace
    <3> QED BY <1>2, <3>1, <3>2, <3>4, <3>5 DEF OnePlace
  <2>9. InHand'
    BY <1>1, <1>2, <2>2, <2>3, <2>4 DEF InHand
  <2>10. CountsOpen'
    <3>1. \A c \in Batches : Cardinality(Busy(c))' =
            IF c = b THEN Cardinality(Busy(c)) + 1 ELSE Cardinality(Busy(c))
      BY <1>1, <1>2, <2>1, BusySteps, BusyValues
    <3>2. \A c \in Batches : Cardinality(Busy(c)) \in Nat
      BY BusyFinite
    <3>3. ASSUME NEW c \in Batches
          PROVE  remaining'[c] = Len(queue'[c]) + Cardinality(Busy(c))'
      <4>1. remaining'[c] = Len(queue[c]) + Cardinality(Busy(c))
        BY <1>1, <1>2 DEF CountsOpen
      <4>2. CASE c = b
        <5> HIDE DEF b
        <5> QED BY <2>2, <2>4, <3>1, <3>2, <4>1, <4>2
      <4>3. CASE c # b
        BY <2>4, <3>1, <4>1, <4>3
      <4> QED BY <4>2, <4>3
    <3> QED BY <3>3 DEF CountsOpen
  <2>11. OneReport'
    BY <1>1, <1>2, <2>3 DEF OneReport
  <2>12. CacheHoldsSuccess' /\ ResultIsServed'
    BY <1>1, <1>2 DEF CacheHoldsSuccess, ResultIsServed, ProbedOnlyBy
  <2>13. EmittedIsCached'
    BY <1>1, <1>2, <2>3, <2>4, WorkerType DEF EmittedIsCached
  <2> QED BY <1>1, <1>2, <2>3, <2>5, <2>7, <2>8, <2>9, <2>10, <2>11, <2>12, <2>13 DEF IInv
<1> QED BY <1>3, <1>4

(***************************************************************************)
(* A step that keeps the queues, the plugins in hand, the panics and the   *)
(* events keeps every plugin in its place, if the worker goes on holding   *)
(* what it holds, or holds nothing before and after.                       *)
(***************************************************************************)
LEMMA PlacesStay ==
  ASSUME OnePlace, UNCHANGED <<selected, queue, panicked, events>>,
         \A v \in Workers : /\ Holding(v)' <=> Holding(v)
                            /\ Holding(v) => plugin'[v] = plugin[v]
  PROVE  OnePlace'
<1>1. \A c, p : Held(c, p)' <=> Held(c, p)
  BY DEF Held
<1>2. \A c, p : HasResult(c, p)' <=> HasResult(c, p)
  BY DEF HasResult
<1> QED BY <1>1, <1>2 DEF OnePlace

(***************************************************************************)
(* A probe returns an output.                                              *)
(***************************************************************************)
LEMMA RunProbeKeeps ==
  ASSUME IInv, NEW w \in Workers, NEW kind \in Kinds, RunProbe(w, kind)
  PROVE  IInv'
<1> DEFINE out == [batch |-> w[1], plugin |-> plugin[w], kind |-> kind]
           at == IF Cacheable(kind) THEN "cache" ELSE "emit"
<1>1. /\ TypeOK /\ events \in Seq(Event) /\ NothingBefore /\ OnePlace /\ InHand /\ CountsOpen
      /\ OneReport /\ CompleteIsLast /\ CacheHoldsSuccess /\ EmittedIsCached /\ ResultIsServed
  BY DEF IInv
<1>2. /\ pc[w] = "run" /\ output' = [output EXCEPT ![w] = out] /\ pc' = [pc EXCEPT ![w] = at]
      /\ UNCHANGED <<started, selected, queue, remaining, plugin, cached, events, panicked>>
  BY DEF RunProbe
<1>3. /\ at \in {"cache", "emit"} /\ at \in PcValues
      /\ at = "cache" <=> kind = "ok"
  BY DEF Cacheable, PcValues
<1>4. Holding(w) /\ plugin[w] \in Plugins
  BY <1>1, <1>2 DEF Holding, InHand
<1>5. out \in Output /\ out.batch = w[1] /\ out.plugin = plugin[w] /\ out.kind = kind
  BY <1>4, WorkerType DEF Output
<1> HIDE DEF out, at
<1>6. /\ pc' \in [Workers -> PcValues]
      /\ pc'[w] = at /\ \A v \in Workers : v # w => pc'[v] = pc[v]
      /\ \A v \in Workers : Holding(v)' <=> Holding(v)
      /\ \A c \in Batches : \A p : ProbedOnlyBy(p, c)' <=> ProbedOnlyBy(p, c)
      /\ \A c : HasComplete(c)' <=> HasComplete(c)
      /\ CompleteIsLast' /\ NothingBefore'
  BY <1>2, <1>3, <1>4, WorkerMoves
<1>7. /\ output'[w] = out /\ \A v \in Workers : v # w => output'[v] = output[v]
      /\ output' \in [Workers -> Output \cup {None}]
  BY <1>1, <1>2, <1>5 DEF TypeOK
<1>8. TypeOK'
  BY <1>1, <1>2, <1>6, <1>7 DEF TypeOK, PcValues
<1>9. OnePlace'
  BY <1>1, <1>2, <1>6, PlacesStay
<1>10. InHand'
  BY <1>1, <1>2, <1>3, <1>4, <1>5, <1>6, <1>7 DEF InHand
<1>11. CountsOpen'
  <2>1. \A c \in Batches : Cardinality(Busy(c))' = Cardinality(Busy(c))
    BY <1>1, <1>2, <1>3, BusySteps, BusyValues
  <2> QED BY <1>1, <1>2, <2>1 DEF CountsOpen
<1>12. OneReport'
  BY <1>1, <1>2, <1>3, <1>6 DEF OneReport
<1>13. CacheHoldsSuccess' /\ ResultIsServed'
  BY <1>1, <1>2 DEF CacheHoldsSuccess, ResultIsServed, ProbedOnlyBy
<1>14. EmittedIsCached'
  BY <1>1, <1>2, <1>3, <1>5, <1>6, <1>7, WorkerType DEF EmittedIsCached
<1> QED BY <1>1, <1>2, <1>6, <1>8, <1>9, <1>10, <1>11, <1>12, <1>13, <1>14 DEF IInv

(***************************************************************************)
(* A success is cached: no other output of its plugin that must be in the  *)
(* cache is overwritten, since the plugin is held here and nowhere else.   *)
(***************************************************************************)
LEMMA CacheKeeps ==
  ASSUME IInv, NEW w \in Workers, CacheSuccessfulOutput(w)
  PROVE  IInv'
<1> DEFINE p0 == plugin[w]
<1>1. /\ TypeOK /\ events \in Seq(Event) /\ NothingBefore /\ OnePlace /\ InHand /\ CountsOpen
      /\ OneReport /\ CompleteIsLast /\ CacheHoldsSuccess /\ EmittedIsCached /\ ResultIsServed
  BY DEF IInv
<1>2. /\ pc[w] = "cache" /\ pc' = [pc EXCEPT ![w] = "emit"]
      /\ cached' = [cached EXCEPT ![output[w].plugin] = output[w]]
      /\ UNCHANGED <<started, selected, queue, remaining, plugin, output, events, panicked>>
  BY DEF CacheSuccessfulOutput
<1>3. /\ Holding(w) /\ p0 \in Plugins /\ output[w] \in Output
      /\ output[w].plugin = p0 /\ output[w].batch = w[1] /\ output[w].kind = "ok"
      /\ w[1] \in Batches
  BY <1>1, <1>2, WorkerType DEF Holding, InHand
<1> HIDE DEF p0
<1>4. /\ pc' \in [Workers -> PcValues]
      /\ pc'[w] = "emit" /\ \A v \in Workers : v # w => pc'[v] = pc[v]
      /\ \A v \in Workers : Holding(v)' <=> Holding(v)
      /\ \A c \in Batches : \A p : ProbedOnlyBy(p, c)' <=> ProbedOnlyBy(p, c)
      /\ \A c : HasComplete(c)' <=> HasComplete(c)
      /\ CompleteIsLast' /\ NothingBefore'
  BY <1>2, <1>3, WorkerMoves DEF PcValues
<1>5. /\ cached'[p0] = output[w] /\ \A p \in Plugins : p # p0 => cached'[p] = cached[p]
      /\ cached' \in [Plugins -> Output \cup {None}]
  BY <1>1, <1>2, <1>3 DEF TypeOK
<1>6. TypeOK'
  BY <1>1, <1>2, <1>4, <1>5 DEF TypeOK, PcValues
<1>7. OnePlace'
  BY <1>1, <1>2, <1>4, PlacesStay
<1>8. InHand'
  BY <1>1, <1>2, <1>4 DEF InHand
<1>9. CountsOpen'
  <2>1. \A c \in Batches : Cardinality(Busy(c))' = Cardinality(Busy(c))
    BY <1>1, <1>2, BusySteps, BusyValues DEF PcValues
  <2> QED BY <1>1, <1>2, <2>1 DEF CountsOpen
<1>10. OneReport'
  BY <1>1, <1>2, <1>4 DEF OneReport
<1>11. CacheHoldsSuccess'
  BY <1>1, <1>3, <1>5 DEF CacheHoldsSuccess
(* The plugin is selected in this batch, and has no result in it.          *)
<1>12. Contains(selected[w[1]], p0) /\ ~HasResult(w[1], p0)
  <2>1. Held(w[1], p0)
    BY <1>3 DEF Held, p0
  <2> QED BY <1>1, <1>3, <2>1 DEF OnePlace
<1>13. \A c \in Batches : ProbedOnlyBy(p0, c) => c = w[1]
  BY <1>3, <1>12 DEF ProbedOnlyBy
<1>14. EmittedIsCached'
  <2> SUFFICES ASSUME NEW v \in Workers, pc'[v] = "emit", output[v].kind = "ok",
                      ProbedOnlyBy(plugin[v], v[1])
               PROVE  cached'[plugin[v]] = output[v]
    BY <1>2, <1>4, WorkerType DEF EmittedIsCached
  <2>1. CASE v = w
    BY <1>5, <2>1 DEF p0
  <2>2. CASE v # w
    <3>1. pc[v] = "emit" /\ cached[plugin[v]] = output[v] /\ v[1] \in Batches
          /\ Holding(v) /\ plugin[v] \in Plugins
      BY <1>1, <1>4, <2>2, WorkerType DEF EmittedIsCached, Holding, InHand
    <3>2. plugin[v] # p0
      BY <1>1, <1>3, <1>13, <2>2, <3>1 DEF OnePlace, p0
    <3> QED BY <1>5, <3>1, <3>2
  <2> QED BY <2>1, <2>2
<1>15. ResultIsServed'
  <2> SUFFICES ASSUME NEW i \in DOMAIN events, events[i].type = "probe:result",
                      events[i].output.kind = "ok",
                      ProbedOnlyBy(events[i].output.plugin, events[i].batch)
               PROVE  cached'[events[i].output.plugin] = events[i].output
    BY <1>2 DEF ResultIsServed, ToSet, ProbedOnlyBy
  <2>1. events[i] \in Event
    BY <1>1
  <2>2. /\ events[i].batch \in Batches /\ IsResult(events[i], events[i].batch)
        /\ events[i].output.plugin \in Plugins
    <3>1. \E out \in Output : events[i] = Result(out)
      BY <2>1 DEF Event, BatchComplete
    <3> QED BY <3>1, EventFacts
  <2>3. cached[events[i].output.plugin] = events[i].output
    BY <1>1 DEF ResultIsServed, ToSet
  <2>4. events[i].output.plugin # p0
    BY <1>12, <1>13, <2>2 DEF HasResult
  <2> QED BY <1>5, <2>2, <2>3, <2>4
<1> QED BY <1>1, <1>2, <1>4, <1>6, <1>7, <1>8, <1>9, <1>10, <1>11, <1>14, <1>15 DEF IInv

(***************************************************************************)
(* A worker counts down, and reports the batch complete if it counts to    *)
(* zero: nothing waits then, and no other worker is busy.                  *)
(***************************************************************************)
LEMMA CountDownKeeps ==
  ASSUME IInv, NEW w \in Workers, CountDown(w)
  PROVE  IInv'
<1> DEFINE b == w[1]
           at == IF LastOf(b) THEN "complete" ELSE "pop"
<1>1. /\ TypeOK /\ events \in Seq(Event) /\ NothingBefore /\ OnePlace /\ InHand /\ CountsOpen
      /\ OneReport /\ CompleteIsLast /\ CacheHoldsSuccess /\ EmittedIsCached /\ ResultIsServed
  BY DEF IInv
<1>2. /\ pc[w] = "count" /\ pc' = [pc EXCEPT ![w] = at]
      /\ remaining' = [remaining EXCEPT ![b] = remaining[b] - 1]
      /\ plugin' = [plugin EXCEPT ![w] = None] /\ output' = [output EXCEPT ![w] = None]
      /\ UNCHANGED <<started, selected, queue, cached, events, panicked>>
      /\ b \in Batches
  BY WorkerType DEF CountDown
<1>3. /\ at \in {"complete", "pop"} /\ at \in PcValues
      /\ at = "complete" <=> remaining[b] = 1
      /\ ~Holding(w)
  BY <1>2 DEF LastOf, PcValues, Holding
(* The worker itself is counted still.                                     *)
<1>4. remaining[b] \in Nat /\ remaining[b] >= 1 /\ remaining[b] - 1 \in Nat
  <2>1. w \in Busy(b) /\ IsFiniteSet(Busy(b)) /\ Cardinality(Busy(b)) \in Nat
    BY <1>2, BusyMembers, BusyFinite, BusyValues
  <2>2. Cardinality(Busy(b)) # 0
    BY <2>1, FS_EmptySet
  <2>3. remaining[b] = Len(queue[b]) + Cardinality(Busy(b)) /\ Len(queue[b]) \in Nat
    <3>1. queue[b] \in Seq(Plugins)
      BY <1>1, <1>2 DEF TypeOK
    <3> QED BY <1>1, <1>2, <3>1, LenProperties DEF CountsOpen
  <2> HIDE DEF b
  <2> QED BY <2>1, <2>2, <2>3
<1> HIDE DEF at
<1>5. /\ remaining'[b] = remaining[b] - 1
      /\ \A c \in Batches : c # b => remaining'[c] = remaining[c]
      /\ remaining' \in [Batches -> Nat]
  BY <1>1, <1>2, <1>4 DEF TypeOK
<1>6. /\ pc' \in [Workers -> PcValues]
      /\ pc'[w] = at /\ \A v \in Workers : v # w => pc'[v] = pc[v]
      /\ \A v \in Workers : Holding(v)' <=> Holding(v)
      /\ \A c \in Batches : \A p : ProbedOnlyBy(p, c)' <=> ProbedOnlyBy(p, c)
      /\ \A c : HasComplete(c)' <=> HasComplete(c)
      /\ CompleteIsLast' /\ NothingBefore'
  BY <1>2, <1>3, <1>5, WorkerMoves
<1>7. /\ \A v \in Workers : v # w => plugin'[v] = plugin[v] /\ output'[v] = output[v]
      /\ plugin' \in [Workers -> Plugins \cup {None}]
      /\ output' \in [Workers -> Output \cup {None}]
  BY <1>1, <1>2 DEF TypeOK
<1>8. TypeOK'
  BY <1>1, <1>2, <1>5, <1>6, <1>7 DEF TypeOK, PcValues
<1>9. OnePlace'
  BY <1>1, <1>2, <1>3, <1>6, <1>7, PlacesStay
<1>10. InHand'
  BY <1>1, <1>3, <1>6, <1>7 DEF InHand
<1>11. CountsOpen'
  <2>1. \A c \in Batches : Cardinality(Busy(c))' =
          IF c = b THEN Cardinality(Busy(c)) - 1 ELSE Cardinality(Busy(c))
    BY <1>1, <1>2, <1>3, BusySteps, BusyValues
  <2> SUFFICES ASSUME NEW c \in Batches
               PROVE  remaining'[c] = Len(queue[c]) + Cardinality(Busy(c))'
    BY <1>2 DEF CountsOpen
  <2>2. remaining[c] = Len(queue[c]) + Cardinality(Busy(c))
    BY <1>1 DEF CountsOpen
  <2>3. Len(queue[c]) \in Nat /\ Cardinality(Busy(c)) \in Nat
    BY <1>1, BusyFinite, LenProperties DEF TypeOK
  <2> HIDE DEF b
  <2> QED BY <1>5, <2>1, <2>2, <2>3
(* No worker has reported the batch, or is about to: it was not at zero.   *)
<1>12. OneReport'
  <2>1. ~HasComplete(b) /\ \A v \in Workers : v[1] = b => pc[v] # "complete"
    BY <1>1, <1>2, <1>4 DEF OneReport
  <2>2. ASSUME NEW v \in Workers, pc'[v] = "complete"
        PROVE  remaining'[v[1]] = 0 /\ ~HasComplete(v[1])'
    <3>1. CASE v = w
      BY <1>2, <1>3, <1>5, <1>6, <2>1, <2>2, <3>1
    <3>2. CASE v # w
      BY <1>1, <1>5, <1>6, <2>1, <2>2, <3>2, WorkerType DEF OneReport
    <3> QED BY <3>1, <3>2
  <2>3. \A u, v \in Workers :
          u[1] = v[1] /\ pc'[u] = "complete" /\ pc'[v] = "complete" => u = v
    BY <1>1, <1>6, <2>1 DEF OneReport
  <2>4. \A c \in Batches : HasComplete(c)' => remaining'[c] = 0
    BY <1>1, <1>5, <1>6, <2>1 DEF OneReport
  <2> QED BY <2>2, <2>3, <2>4 DEF OneReport
<1>13. CacheHoldsSuccess' /\ ResultIsServed'
  BY <1>1, <1>2 DEF CacheHoldsSuccess, ResultIsServed, ProbedOnlyBy
<1>14. EmittedIsCached'
  BY <1>1, <1>2, <1>3, <1>6, <1>7, WorkerType DEF EmittedIsCached
<1> QED BY <1>1, <1>2, <1>6, <1>8, <1>9, <1>10, <1>11, <1>12, <1>13, <1>14 DEF IInv

(***************************************************************************)
(* A worker lets go of its plugin, which has panicked or is answered: it   *)
(* is in its new place only.                                               *)
(***************************************************************************)
LEMMA LettingGo ==
  ASSUME IInv, NEW w \in Workers, Holding(w), ~Holding(w)',
         \A v \in Workers : v # w => (Holding(v)' <=> Holding(v)),
         UNCHANGED plugin
  PROVE  /\ w[1] \in Batches /\ plugin[w] \in Plugins
         /\ Held(w[1], plugin[w]) /\ Contains(selected[w[1]], plugin[w])
         /\ ~Contains(queue[w[1]], plugin[w]) /\ plugin[w] \notin panicked[w[1]]
         /\ ~HasResult(w[1], plugin[w])
         /\ \A c \in Batches, p \in Plugins :
              Held(c, p)' <=> Held(c, p) /\ ~(c = w[1] /\ p = plugin[w])
<1>1. OnePlace /\ InHand
  BY DEF IInv
<1>2. w[1] \in Batches /\ plugin[w] \in Plugins /\ Held(w[1], plugin[w])
  BY <1>1, WorkerType DEF InHand, Held
<1>3. /\ Contains(selected[w[1]], plugin[w]) /\ ~Contains(queue[w[1]], plugin[w])
      /\ plugin[w] \notin panicked[w[1]] /\ ~HasResult(w[1], plugin[w])
  BY <1>1, <1>2 DEF OnePlace
<1>4. ASSUME NEW c \in Batches, NEW p \in Plugins
      PROVE  Held(c, p)' <=> Held(c, p) /\ ~(c = w[1] /\ p = plugin[w])
  <2>1. \A v \in Workers : v[1] = w[1] /\ Holding(v) /\ plugin[v] = plugin[w] => v = w
    BY <1>1 DEF OnePlace
  <2> QED BY <2>1 DEF Held
<1> QED BY <1>2, <1>3, <1>4

LEMMA ProbePanicsKeeps ==
  ASSUME IInv, NEW w \in Workers, ProbePanics(w)
  PROVE  IInv'
<1> DEFINE b == w[1]
           p0 == plugin[w]
<1>1. /\ TypeOK /\ events \in Seq(Event) /\ NothingBefore /\ OnePlace /\ InHand /\ CountsOpen
      /\ OneReport /\ CompleteIsLast /\ CacheHoldsSuccess /\ EmittedIsCached /\ ResultIsServed
  BY DEF IInv
<1>2. /\ pc[w] = "run" /\ pc' = [pc EXCEPT ![w] = "count"]
      /\ panicked' = [panicked EXCEPT ![b] = panicked[b] \cup {p0}]
      /\ UNCHANGED <<started, selected, queue, remaining, plugin, output, cached, events>>
      /\ Holding(w)
  BY DEF ProbePanics, Holding
<1>3. /\ b \in Batches /\ p0 \in Plugins
      /\ panicked' \in [Batches -> SUBSET Plugins]
      /\ \A c \in Batches : \A p : p \in panicked'[c] <=> p \in panicked[c] \/ (c = b /\ p = p0)
      /\ \A c \in Batches : c # b => panicked'[c] = panicked[c]
  <2>1. b \in Batches /\ p0 \in Plugins
    BY <1>1, <1>2, WorkerType DEF InHand
  <2> QED BY <1>1, <1>2, <2>1 DEF TypeOK
<1>4. /\ pc' \in [Workers -> PcValues]
      /\ pc'[w] = "count" /\ \A v \in Workers : v # w => pc'[v] = pc[v]
      /\ \A v \in Workers : v # w => (Holding(v)' <=> Holding(v))
      /\ ~Holding(w)'
      /\ \A c \in Batches : \A p : ProbedOnlyBy(p, c)' <=> ProbedOnlyBy(p, c)
      /\ \A c, p : HasResult(c, p)' <=> HasResult(c, p)
      /\ \A c : HasComplete(c)' <=> HasComplete(c)
      /\ CompleteIsLast' /\ NothingBefore'
  BY <1>2, <1>3, WorkerMoves DEF PcValues
<1>5. /\ Contains(selected[b], p0) /\ ~Contains(queue[b], p0) /\ ~HasResult(b, p0)
      /\ Held(b, p0)
      /\ \A c \in Batches, p \in Plugins : Held(c, p)' <=> Held(c, p) /\ ~(c = b /\ p = p0)
  BY <1>2, <1>4, LettingGo
<1> HIDE DEF b, p0
<1>6. TypeOK'
  BY <1>1, <1>2, <1>3, <1>4 DEF TypeOK, PcValues
<1>7. OnePlace'
  <2>1. ASSUME NEW c \in Batches, NEW p \in Plugins
        PROVE  (/\ Contains(selected[c], p)
                     <=> Contains(queue[c], p) \/ Held(c, p) \/ p \in panicked[c] \/ HasResult(c, p)
                /\ Contains(queue[c], p) => ~Held(c, p) /\ p \notin panicked[c] /\ ~HasResult(c, p)
                /\ Held(c, p) => p \notin panicked[c] /\ ~HasResult(c, p)
                /\ p \in panicked[c] => ~HasResult(c, p))'
    <3>1. /\ Contains(selected[c], p)
               <=> Contains(queue[c], p) \/ Held(c, p) \/ p \in panicked[c] \/ HasResult(c, p)
          /\ Contains(queue[c], p) => ~Held(c, p) /\ p \notin panicked[c] /\ ~HasResult(c, p)
          /\ Held(c, p) => p \notin panicked[c] /\ ~HasResult(c, p)
          /\ p \in panicked[c] => ~HasResult(c, p)
      BY <1>1 DEF OnePlace
    <3> QED BY <1>2, <1>3, <1>4, <1>5, <3>1
  <2>2. \A u, v \in Workers :
          u[1] = v[1] /\ Holding(u)' /\ Holding(v)' /\ plugin[u] = plugin[v] => u = v
    BY <1>1, <1>4 DEF OnePlace
  <2>3. /\ \A c \in Batches : Distinct(queue[c])
        /\ \A i, j \in DOMAIN events, c \in Batches :
             IsResult(events[i], c) /\ IsResult(events[j], c)
               /\ events[i].output.plugin = events[j].output.plugin => i = j
    BY <1>1 DEF OnePlace
  <2> QED BY <1>2, <2>1, <2>2, <2>3 DEF OnePlace
<1>8. InHand'
  BY <1>1, <1>2, <1>4 DEF InHand
<1>9. CountsOpen'
  <2>1. \A c \in Batches : Cardinality(Busy(c))' = Cardinality(Busy(c))
    BY <1>1, <1>2, BusySteps, BusyValues DEF PcValues
  <2> QED BY <1>1, <1>2, <2>1 DEF CountsOpen
<1>10. OneReport'
  BY <1>1, <1>2, <1>4 DEF OneReport
<1>11. CacheHoldsSuccess' /\ ResultIsServed'
  BY <1>1, <1>2 DEF CacheHoldsSuccess, ResultIsServed, ProbedOnlyBy
<1>12. EmittedIsCached'
  BY <1>1, <1>2, <1>4, WorkerType DEF EmittedIsCached
<1> QED BY <1>1, <1>2, <1>4, <1>6, <1>7, <1>8, <1>9, <1>10, <1>11, <1>12 DEF IInv

(***************************************************************************)
(* A result is emitted: the first of its plugin in its batch, before the   *)
(* batch is complete, and of a success what the cache holds.               *)
(***************************************************************************)
LEMMA EmitResultKeeps ==
  ASSUME IInv, NEW w \in Workers, EmitResult(w)
  PROVE  IInv'
<1> DEFINE b == w[1]
           p0 == plugin[w]
           e == Result(output[w])
<1>1. /\ TypeOK /\ events \in Seq(Event) /\ NothingBefore /\ OnePlace /\ InHand /\ CountsOpen
      /\ OneReport /\ CompleteIsLast /\ CacheHoldsSuccess /\ EmittedIsCached /\ ResultIsServed
  BY DEF IInv
<1>2. /\ pc[w] = "emit" /\ pc' = [pc EXCEPT ![w] = "count"]
      /\ events' = Append(events, e)
      /\ UNCHANGED <<started, selected, queue, remaining, plugin, output, cached, panicked>>
      /\ Holding(w)
  BY DEF EmitResult, Holding
<1>3. /\ b \in Batches /\ p0 \in Plugins /\ output[w] \in Output
      /\ output[w].batch = b /\ output[w].plugin = p0
      /\ e \in Event /\ e.batch = b /\ e.output = output[w] /\ e.type = "probe:result"
      /\ \A c \in Batches : /\ ~IsComplete(e, c)
                            /\ IsResult(e, c) <=> c = b
  <2>1. b \in Batches /\ p0 \in Plugins /\ output[w] \in Output
        /\ output[w].batch = b /\ output[w].plugin = p0
    BY <1>1, <1>2, WorkerType DEF InHand
  <2> QED BY <2>1, EventFacts
<1>4. /\ pc' \in [Workers -> PcValues]
      /\ pc'[w] = "count" /\ \A v \in Workers : v # w => pc'[v] = pc[v]
      /\ \A v \in Workers : v # w => (Holding(v)' <=> Holding(v))
      /\ ~Holding(w)'
      /\ \A c \in Batches : \A p : ProbedOnlyBy(p, c)' <=> ProbedOnlyBy(p, c)
      /\ b \in started
  BY <1>2, WorkerMoves DEF PcValues
<1>5. /\ Contains(selected[b], p0) /\ ~Contains(queue[b], p0) /\ ~HasResult(b, p0)
      /\ Held(b, p0) /\ p0 \notin panicked[b]
      /\ \A c \in Batches, p \in Plugins : Held(c, p)' <=> Held(c, p) /\ ~(c = b /\ p = p0)
  BY <1>2, <1>4, LettingGo
<1> HIDE DEF b, p0, e
<1>6. /\ events' \in Seq(Event)
      /\ \A i \in DOMAIN events : events'[i] = events[i] /\ i \in DOMAIN events'
      /\ DOMAIN events = 1 .. Len(events) /\ Len(events) \in Nat
      /\ DOMAIN events' = 1 .. Len(events) + 1
      /\ events'[Len(events) + 1] = e
      /\ \A i \in DOMAIN events' : i \in DOMAIN events \/ i = Len(events) + 1
      /\ \A c \in Batches : \A p : HasResult(c, p)' <=> HasResult(c, p) \/ (c = b /\ p = p0)
      /\ \A c \in Batches : HasComplete(c)' <=> HasComplete(c)
  BY <1>1, <1>2, <1>3, Emitting
(* The worker is counted still, so the batch is not at zero.               *)
<1>7. ~HasComplete(b)
  <2>1. w \in Busy(b) /\ IsFiniteSet(Busy(b)) /\ Cardinality(Busy(b)) \in Nat
    BY <1>2, <1>3, BusyMembers, BusyFinite, BusyValues DEF b
  <2>2. Cardinality(Busy(b)) # 0
    BY <2>1, FS_EmptySet
  <2>3. remaining[b] = Len(queue[b]) + Cardinality(Busy(b)) /\ Len(queue[b]) \in Nat
    BY <1>1, <1>3, LenProperties DEF CountsOpen, TypeOK
  <2>4. remaining[b] # 0
    BY <2>1, <2>2, <2>3
  <2> QED BY <1>1, <1>3, <2>4 DEF OneReport
<1>8. TypeOK'
  BY <1>1, <1>2, <1>4 DEF TypeOK, PcValues
<1>9. NothingBefore'
  <2> SUFFICES ASSUME NEW c \in Batches \ started
               PROVE  /\ \A v \in Workers : v[1] = c => pc'[v] = "done"
                      /\ \A i \in DOMAIN events' : events'[i].batch # c
    BY <1>1, <1>2 DEF NothingBefore
  <2>1. c # b /\ w[1] # c
    BY <1>4 DEF b
  <2> QED BY <1>1, <1>3, <1>4, <1>6, <2>1 DEF NothingBefore
<1>10. OnePlace'
  <2>1. ASSUME NEW c \in Batches, NEW p \in Plugins
        PROVE  (/\ Contains(selected[c], p)
                     <=> Contains(queue[c], p) \/ Held(c, p) \/ p \in panicked[c] \/ HasResult(c, p)
                /\ Contains(queue[c], p) => ~Held(c, p) /\ p \notin panicked[c] /\ ~HasResult(c, p)
                /\ Held(c, p) => p \notin panicked[c] /\ ~HasResult(c, p)
                /\ p \in panicked[c] => ~HasResult(c, p))'
    <3>1. /\ Contains(selected[c], p)
               <=> Contains(queue[c], p) \/ Held(c, p) \/ p \in panicked[c] \/ HasResult(c, p)
          /\ Contains(queue[c], p) => ~Held(c, p) /\ p \notin panicked[c] /\ ~HasResult(c, p)
          /\ Held(c, p) => p \notin panicked[c] /\ ~HasResult(c, p)
          /\ p \in panicked[c] => ~HasResult(c, p)
      BY <1>1 DEF OnePlace
    <3> QED BY <1>2, <1>5, <1>6, <3>1
  <2>2. \A u, v \in Workers :
          u[1] = v[1] /\ Holding(u)' /\ Holding(v)' /\ plugin[u] = plugin[v] => u = v
    BY <1>1, <1>4 DEF OnePlace
  <2>3. ASSUME NEW i \in DOMAIN events', NEW j \in DOMAIN events', NEW c \in Batches,
               IsResult(events'[i], c), IsResult(events'[j], c),
               events'[i].output.plugin = events'[j].output.plugin
        PROVE  i = j
    <3>1. CASE i \in DOMAIN events /\ j \in DOMAIN events
      BY <1>1, <1>6, <2>3, <3>1 DEF OnePlace
    <3>2. \A k \in DOMAIN events : ~(IsResult(events[k], b) /\ events[k].output.plugin = p0)
      BY <1>5 DEF HasResult
    <3> QED BY <1>3, <1>6, <2>3, <3>1, <3>2
  <2>4. \A c \in Batches : Distinct(queue[c])
    BY <1>1 DEF OnePlace
  <2> QED BY <1>2, <2>1, <2>2, <2>3, <2>4 DEF OnePlace
<1>11. InHand'
  BY <1>1, <1>2, <1>4 DEF InHand
<1>12. CountsOpen'
  <2>1. \A c \in Batches : Cardinality(Busy(c))' = Cardinality(Busy(c))
    BY <1>1, <1>2, BusySteps, BusyValues DEF PcValues
  <2> QED BY <1>1, <1>2, <2>1 DEF CountsOpen
<1>13. OneReport'
  BY <1>1, <1>2, <1>4, <1>6, WorkerType DEF OneReport
<1>14. CompleteIsLast'
  <2>1. \A i \in DOMAIN events : ~IsComplete(events[i], b)
    BY <1>7 DEF HasComplete
  <2> SUFFICES ASSUME NEW i \in DOMAIN events', NEW j \in DOMAIN events', NEW c \in Batches,
                      i < j, IsComplete(events'[i], c)
               PROVE  events'[j].batch # c
    BY DEF CompleteIsLast
  <2>2. i \in DOMAIN events /\ IsComplete(events[i], c) /\ c # b
    BY <1>3, <1>6, <2>1
  <2>3. CASE j \in DOMAIN events
    BY <1>1, <1>6, <2>2, <2>3 DEF CompleteIsLast
  <2>4. CASE j = Len(events) + 1
    BY <1>3, <1>6, <2>2, <2>4
  <2> QED BY <1>6, <2>3, <2>4
<1>15. CacheHoldsSuccess'
  BY <1>1, <1>2 DEF CacheHoldsSuccess
<1>16. EmittedIsCached'
  BY <1>1, <1>2, <1>4, WorkerType DEF EmittedIsCached
<1>17. ResultIsServed'
  <2> SUFFICES ASSUME NEW i \in DOMAIN events', events'[i].type = "probe:result",
                      events'[i].output.kind = "ok",
                      ProbedOnlyBy(events'[i].output.plugin, events'[i].batch)
               PROVE  cached[events'[i].output.plugin] = events'[i].output
    BY <1>2 DEF ResultIsServed, ToSet, ProbedOnlyBy
  <2>1. CASE i \in DOMAIN events
    BY <1>1, <1>6, <2>1 DEF ResultIsServed, ToSet
  <2>2. CASE i = Len(events) + 1
    <3>1. cached[plugin[w]] = output[w]
      BY <1>1, <1>2, <1>3, <1>6, <2>2 DEF EmittedIsCached, b, p0
    <3> QED BY <1>3, <1>6, <2>2, <3>1 DEF p0
  <2> QED BY <1>6, <2>1, <2>2
<1> QED BY <1>6, <1>8, <1>9, <1>10, <1>11, <1>12, <1>13, <1>14, <1>15, <1>16, <1>17 DEF IInv

(***************************************************************************)
(* The one worker that counted to zero reports the batch complete.         *)
(***************************************************************************)
LEMMA EmitCompleteKeeps ==
  ASSUME IInv, NEW w \in Workers, EmitComplete(w)
  PROVE  IInv'
<1> DEFINE b == w[1]
           e == BatchComplete(b)
<1>1. /\ TypeOK /\ events \in Seq(Event) /\ NothingBefore /\ OnePlace /\ InHand /\ CountsOpen
      /\ OneReport /\ CompleteIsLast /\ CacheHoldsSuccess /\ EmittedIsCached /\ ResultIsServed
  BY DEF IInv
<1>2. /\ pc[w] = "complete" /\ pc' = [pc EXCEPT ![w] = "pop"]
      /\ events' = Append(events, e)
      /\ UNCHANGED <<started, selected, queue, remaining, plugin, output, cached, panicked>>
      /\ ~Holding(w) /\ b \in Batches
  BY WorkerType DEF EmitComplete, Holding
<1>3. /\ e \in Event /\ e.batch = b /\ e.type # "probe:result"
      /\ \A c \in Batches : /\ ~IsResult(e, c)
                            /\ IsComplete(e, c) <=> c = b
  BY <1>2, EventFacts DEF BatchComplete
<1>4. /\ pc' \in [Workers -> PcValues]
      /\ pc'[w] = "pop" /\ \A v \in Workers : v # w => pc'[v] = pc[v]
      /\ \A v \in Workers : Holding(v)' <=> Holding(v)
      /\ b \in started
  BY <1>2, WorkerMoves DEF PcValues
<1> HIDE DEF e
<1>5. /\ events' \in Seq(Event)
      /\ \A i \in DOMAIN events : events'[i] = events[i] /\ i \in DOMAIN events'
      /\ DOMAIN events = 1 .. Len(events) /\ Len(events) \in Nat
      /\ DOMAIN events' = 1 .. Len(events) + 1
      /\ events'[Len(events) + 1] = e
      /\ \A i \in DOMAIN events' : i \in DOMAIN events \/ i = Len(events) + 1
      /\ \A c \in Batches : \A p : HasResult(c, p)' <=> HasResult(c, p)
      /\ \A c \in Batches : HasComplete(c)' <=> HasComplete(c) \/ c = b
  BY <1>1, <1>2, <1>3, Emitting
<1>6. /\ ~HasComplete(b) /\ remaining[b] = 0
      /\ \A v \in Workers : v[1] = b /\ pc[v] = "complete" => v = w
  BY <1>1, <1>2 DEF OneReport
<1>7. \A c, p : Held(c, p)' <=> Held(c, p)
  BY <1>2, <1>4 DEF Held
<1>8. TypeOK'
  BY <1>1, <1>2, <1>4 DEF TypeOK, PcValues
<1>9. NothingBefore'
  <2> SUFFICES ASSUME NEW c \in Batches \ started
               PROVE  /\ \A v \in Workers : v[1] = c => pc'[v] = "done"
                      /\ \A i \in DOMAIN events' : events'[i].batch # c
    BY <1>1, <1>2 DEF NothingBefore
  <2>1. c # b /\ w[1] # c
    BY <1>4
  <2> QED BY <1>1, <1>3, <1>4, <1>5, <2>1, SMTT(60) DEF NothingBefore
<1>10. OnePlace'
  <2>1. \A i, j \in DOMAIN events', c \in Batches :
          IsResult(events'[i], c) /\ IsResult(events'[j], c)
            /\ events'[i].output.plugin = events'[j].output.plugin => i = j
    <3>1. \A i \in DOMAIN events', c \in Batches :
            IsResult(events'[i], c) => i \in DOMAIN events /\ events'[i] = events[i]
      BY <1>3, <1>5
    <3> QED BY <1>1, <3>1 DEF OnePlace
  <2>2. \A u, v \in Workers :
          u[1] = v[1] /\ Holding(u)' /\ Holding(v)' /\ plugin[u] = plugin[v] => u = v
    BY <1>1, <1>4 DEF OnePlace
  <2> QED BY <1>1, <1>2, <1>5, <1>7, <2>1, <2>2 DEF OnePlace
<1>11. InHand'
  BY <1>1, <1>2, <1>4 DEF InHand
<1>12. CountsOpen'
  <2>1. \A c \in Batches : Cardinality(Busy(c))' = Cardinality(Busy(c))
    BY <1>1, <1>2, BusySteps, BusyValues DEF PcValues
  <2> QED BY <1>1, <1>2, <2>1 DEF CountsOpen
<1>13. OneReport'
  <2>1. ASSUME NEW v \in Workers, pc'[v] = "complete"
        PROVE  remaining[v[1]] = 0 /\ ~HasComplete(v[1])'
    BY <1>1, <1>4, <1>5, <1>6, <2>1, WorkerType DEF OneReport
  <2>2. \A u, v \in Workers :
          u[1] = v[1] /\ pc'[u] = "complete" /\ pc'[v] = "complete" => u = v
    BY <1>1, <1>4 DEF OneReport
  <2>3. \A c \in Batches : HasComplete(c)' => remaining[c] = 0
    BY <1>1, <1>5, <1>6 DEF OneReport
  <2> QED BY <1>2, <2>1, <2>2, <2>3 DEF OneReport
<1>14. CompleteIsLast'
  <2>1. \A i \in DOMAIN events : ~IsComplete(events[i], b)
    BY <1>6 DEF HasComplete
  <2> SUFFICES ASSUME NEW i \in DOMAIN events', NEW j \in DOMAIN events', NEW c \in Batches,
                      i < j, IsComplete(events'[i], c)
               PROVE  events'[j].batch # c
    BY DEF CompleteIsLast
  <2> HIDE DEF b
  <2>2. i \in DOMAIN events /\ IsComplete(events[i], c) /\ c # b
    BY <1>5, <2>1
  <2>3. CASE j \in DOMAIN events
    BY <1>1, <1>5, <2>2, <2>3 DEF CompleteIsLast
  <2>4. CASE j = Len(events) + 1
    BY <1>3, <1>5, <2>2, <2>4
  <2> QED BY <1>5, <2>3, <2>4
<1>15. CacheHoldsSuccess'
  BY <1>1, <1>2 DEF CacheHoldsSuccess
<1>16. EmittedIsCached'
  BY <1>1, <1>2, <1>4, WorkerType DEF EmittedIsCached, ProbedOnlyBy
<1>17. ResultIsServed'
  <2>1. \A f \in ToSet(events') : f.type = "probe:result" => f \in ToSet(events)
    BY <1>3, <1>5 DEF ToSet
  <2> QED BY <1>1, <1>2, <2>1 DEF ResultIsServed, ProbedOnlyBy
<1> QED BY <1>5, <1>8, <1>9, <1>10, <1>11, <1>12, <1>13, <1>14, <1>15, <1>16, <1>17 DEF IInv

LEMMA WorkerKeeps ==
  ASSUME IInv, NEW w \in Workers, WorkerStep(w)
  PROVE  IInv'
BY PopFrontKeeps, RunProbeKeeps, ProbePanicsKeeps, CacheKeeps, EmitResultKeeps, CountDownKeeps,
   EmitCompleteKeeps DEF WorkerStep

LEMMA StepKeeps ==
  ASSUME IInv, [Next]_vars
  PROVE  IInv'
<1>1. CASE UNCHANGED vars
  BY <1>1, StutterKeeps
<1>2. ASSUME NEW b \in Batches, NEW ids \in Requests, StartProbeBatch(b, ids)
      PROVE  IInv'
  BY <1>2, StartKeeps
<1>3. ASSUME NEW w \in Workers, WorkerStep(w)
      PROVE  IInv'
  BY <1>3, WorkerKeeps
<1> QED BY <1>1, <1>2, <1>3 DEF Next

(***************************************************************************)
(* The inductive invariant holds in every reachable state, for any number  *)
(* of batches, plugins and workers: every selected plugin is in one place, *)
(* and the counter counts those that are not settled yet.                  *)
(***************************************************************************)
THEOREM Invariant == Spec => []IInv
<1>1. IInv /\ [Next]_vars => IInv'
  BY StepKeeps
<1> QED BY InitEstablishes, <1>1, PTL DEF Spec

(***************************************************************************)
(* The variables stay well typed, so the counter never falls below zero,   *)
(* where fetch_sub would wrap (probe_batch.rs:181).                        *)
(***************************************************************************)
THEOREM TypeCorrect == Spec => []TypeOK
<1>1. IInv => TypeOK
  BY DEF IInv
<1> QED BY Invariant, <1>1, PTL

(***************************************************************************)
(* Nothing of a batch is emitted after its complete event, however the     *)
(* workers overtake each other.  (probe_batch.rs:181-189)                  *)
(***************************************************************************)
THEOREM CompleteComesLast == Spec => []CompleteIsLast
<1>1. IInv => CompleteIsLast
  BY DEF IInv
<1> QED BY Invariant, <1>1, PTL

(***************************************************************************)
(* A plugin of a batch that is at zero is neither waiting nor held.        *)
(***************************************************************************)
LEMMA ZeroIsSettled ==
  ASSUME IInv, NEW b \in Batches, remaining[b] = 0, NEW p \in Plugins,
         Contains(selected[b], p)
  PROVE  p \in panicked[b] <=> ~HasResult(b, p)
<1>1. TypeOK /\ OnePlace /\ CountsOpen
  BY DEF IInv
<1>2. queue[b] \in Seq(Plugins) /\ Len(queue[b]) \in Nat
  BY <1>1, LenProperties DEF TypeOK
<1>3. IsFiniteSet(Busy(b)) /\ Cardinality(Busy(b)) \in Nat
  BY BusyFinite
<1>4. remaining[b] = Len(queue[b]) + Cardinality(Busy(b))
  BY <1>1 DEF CountsOpen
<1>5. Len(queue[b]) = 0 /\ Cardinality(Busy(b)) = 0
  BY <1>2, <1>3, <1>4
<1>6. Busy(b) = {}
  BY <1>3, <1>5, FS_EmptySet
<1>7. ~Contains(queue[b], p)
  BY <1>5 DEF Contains
<1>8. ~Held(b, p)
  BY <1>6 DEF Held, Busy
<1> QED BY <1>1, <1>7, <1>8 DEF OnePlace

(***************************************************************************)
(* When a batch is reported complete, every plugin it selected has exactly *)
(* one result, or its probe panicked.  (probe_batch.rs:66-83, 181-189)     *)
(***************************************************************************)
THEOREM CompleteIsSettled == Spec => []CompleteMeansSettled
<1>1. ASSUME IInv
      PROVE  CompleteMeansSettled
  <2> SUFFICES ASSUME NEW b \in Batches, HasComplete(b), NEW p \in ToSet(selected[b])
               PROVE  Cardinality({ i \in DOMAIN events :
                                      IsResult(events[i], b) /\ events[i].output.plugin = p })
                        = IF p \in panicked[b] THEN 0 ELSE 1
    BY DEF CompleteMeansSettled, HasComplete, ToSet
  <2> DEFINE I == { i \in DOMAIN events :
                      IsResult(events[i], b) /\ events[i].output.plugin = p }
  <2>1. TypeOK /\ OnePlace /\ OneReport
    BY <1>1 DEF IInv
  <2>2. Contains(selected[b], p) /\ p \in Plugins /\ remaining[b] = 0
    <3>1. selected[b] \in Seq(Plugins)
      BY <2>1 DEF TypeOK
    <3>2. Contains(selected[b], p)
      BY <3>1, ContainsIsMember
    <3>3. p \in Plugins
      BY <3>1, <3>2, ElementOfSeq DEF Contains
    <3> QED BY <2>1, <3>2, <3>3 DEF OneReport
  <2>3. p \in panicked[b] <=> ~HasResult(b, p)
    BY <1>1, <2>2, ZeroIsSettled
  <2>4. CASE p \in panicked[b]
    <3>1. I = {}
      BY <2>3, <2>4 DEF HasResult
    <3> QED BY <2>4, <3>1, FS_EmptySet
  <2>5. CASE p \notin panicked[b]
    <3>1. PICK i \in DOMAIN events : IsResult(events[i], b) /\ events[i].output.plugin = p
      BY <2>3, <2>5 DEF HasResult
    <3>2. \A j \in I : j = i
      BY <2>1, <3>1 DEF OnePlace
    <3>3. I = {i}
      BY <3>1, <3>2
    <3> QED BY <2>5, <3>3, FS_Singleton
  <2> QED BY <2>4, <2>5
<1> QED BY Invariant, <1>1, PTL

(***************************************************************************)
(* Only a success of the very plugin is ever cached, whatever batches run  *)
(* side by side.  (probe_batch.rs:153-167)                                 *)
(***************************************************************************)
THEOREM OnlySuccessIsCached == Spec => []CacheHoldsSuccess
<1>1. IInv => CacheHoldsSuccess
  BY DEF IInv
<1> QED BY Invariant, <1>1, PTL

(***************************************************************************)
(* A successful result that was emitted is what the cache serves, unless   *)
(* another batch asked for the plugin too.  (probe_batch.rs:153-176)       *)
(***************************************************************************)
THEOREM EmittedIsServed == Spec => []ResultIsServed
<1>1. IInv => ResultIsServed
  BY DEF IInv
<1> QED BY Invariant, <1>1, PTL

-----------------------------------------------------------------------------
(* The batches implement the service.                                      *)

Asked == [b \in Batches |-> ToSet(selected[b])]
AnsweredOf == [b \in Batches |-> Answered(b)]
Reported == { b \in Batches : HasComplete(b) }

(***************************************************************************)
(* What the service sees of a batch, in the terms of the invariant.        *)
(***************************************************************************)
LEMMA ServiceView ==
  ASSUME IInv, NEW b \in Batches
  PROVE  /\ \A p : p \in ToSet(selected[b]) <=> Contains(selected[b], p)
         /\ \A p : p \in Answered(b) <=> HasResult(b, p)
         /\ ToSet(selected[b]) \subseteq Plugins
<1>1. TypeOK
  BY DEF IInv
<1>2. selected[b] \in Seq(Plugins)
  BY <1>1 DEF TypeOK
<1>3. \A p : p \in ToSet(selected[b]) <=> Contains(selected[b], p)
  BY <1>2, ContainsIsMember
<1>4. \A p : p \in Answered(b) <=> HasResult(b, p)
  BY DEF Answered, HasResult
<1>5. ToSet(selected[b]) \subseteq Plugins
  BY <1>2, <1>3, ElementOfSeq DEF Contains
<1> QED BY <1>3, <1>4, <1>5

(***************************************************************************)
(* The answered plugins are those with a result, now and after a step.     *)
(***************************************************************************)
LEMMA AnsweredMembers ==
  \A b, p : /\ p \in Answered(b) <=> HasResult(b, p)
            /\ p \in Answered(b)' <=> HasResult(b, p)'
BY DEF Answered, HasResult

(***************************************************************************)
(* A step that emits no event and touches no selection is, for the         *)
(* service, a lost probe or nothing.                                       *)
(***************************************************************************)
LEMMA SilentSteps ==
  ASSUME UNCHANGED <<selected, events>>
  PROVE  UNCHANGED <<Asked, AnsweredOf, Reported>>
BY DEF Asked, AnsweredOf, Reported, Answered, HasComplete

LEMMA StartImplements ==
  ASSUME IInv, IInv', NEW b \in Batches, NEW ids \in Requests, StartProbeBatch(b, ids)
  PROVE  Service!Next
<1> DEFINE sel == SelectPlugins(ids)
           S == ToSet(sel)
<1>1. sel \in Seq(Plugins)
  BY RequestType, SelectionIsExact
<1> HIDE DEF sel
<1>2. /\ b \notin started /\ started' = started \cup {b}
      /\ selected' = [selected EXCEPT ![b] = sel] /\ UNCHANGED panicked
      /\ \/ sel = <<>> /\ events' = Append(events, BatchComplete(b))
         \/ sel # <<>> /\ UNCHANGED events
  BY DEF StartProbeBatch, sel
<1>3. TypeOK /\ events \in Seq(Event)
  BY DEF IInv
<1>4. S \in SUBSET Plugins /\ (S = {} <=> sel = <<>>)
  <2>1. \A p : p \in S <=> Contains(sel, p)
    BY <1>1, ContainsIsMember
  <2>2. S \subseteq Plugins
    BY <1>1, <2>1, ElementOfSeq DEF Contains
  <2>3. sel = <<>> => S = {}
    BY <2>1, ContainsEmpty
  <2>4. sel # <<>> => sel[1] \in S
    <3>1. sel # <<>> => 1 \in 1 .. Len(sel)
      BY <1>1, EmptySeq, LenProperties
    <3> QED BY <2>1, <3>1 DEF Contains
  <2> QED BY <2>2, <2>3, <2>4
<1>5. Asked' = [Asked EXCEPT ![b] = S]
  <2>1. \A c \in Batches : selected'[c] = IF c = b THEN sel ELSE selected[c]
    BY <1>2, <1>3 DEF TypeOK
  <2>2. \A c \in Batches : Asked'[c] = IF c = b THEN S ELSE Asked[c]
    BY <2>1 DEF Asked
  <2> QED BY <2>2 DEF Asked
<1>6. /\ \A c \in Batches : \A p : HasResult(c, p)' <=> HasResult(c, p)
      /\ \A c \in Batches : HasComplete(c)' <=> HasComplete(c) \/ (c = b /\ sel = <<>>)
  <2>1. BatchComplete(b) \in Event /\ \A c \in Batches : ~IsResult(BatchComplete(b), c)
    BY EventFacts
  <2>2. \A c \in Batches : IsComplete(BatchComplete(b), c) <=> c = b
    BY EventFacts
  <2>3. CASE sel = <<>>
    BY <1>2, <1>3, <2>1, <2>2, <2>3, Emitting
  <2>4. CASE sel # <<>>
    BY <1>2, <2>4 DEF HasResult, HasComplete
  <2> QED BY <2>3, <2>4
<1>7. AnsweredOf' = AnsweredOf
  <2>1. ASSUME NEW c \in Batches
        PROVE  Answered(c)' = Answered(c)
    <3>1. \A p : p \in Answered(c)' <=> p \in Answered(c)
      BY <1>6, AnsweredMembers
    <3> QED BY <3>1
  <2> QED BY <2>1 DEF AnsweredOf
<1>8. Reported' = IF S = {} THEN Reported \cup {b} ELSE Reported
  BY <1>4, <1>6 DEF Reported
<1>9. Service!Ask(b, S)
  BY <1>2, <1>5, <1>7, <1>8 DEF Service!Ask, Asked, AnsweredOf, Reported, HasComplete
<1> QED BY <1>4, <1>9 DEF Service!Next

LEMMA LoseImplements ==
  ASSUME IInv, IInv', NEW w \in Workers, ProbePanics(w)
  PROVE  Service!Next
<1> DEFINE b == w[1]
           p0 == plugin[w]
<1>1. /\ pc[w] = "run" /\ panicked' = [panicked EXCEPT ![b] = panicked[b] \cup {p0}]
      /\ UNCHANGED <<started, selected, events>>
  BY DEF ProbePanics
<1>2. b \in Batches /\ p0 \in Plugins /\ Held(b, p0)
  BY <1>1, WorkerType DEF IInv, InHand, Held, Holding
<1>3. Contains(selected[b], p0) /\ ~HasResult(b, p0) /\ p0 \notin panicked[b]
  BY <1>2 DEF IInv, OnePlace
<1>4. p0 \in Asked[b] /\ p0 \notin AnsweredOf[b]
  BY <1>2, <1>3, ServiceView DEF Asked, AnsweredOf
<1>5. UNCHANGED <<Asked, AnsweredOf, Reported>>
  BY <1>1, SilentSteps
<1>6. Service!Lose(b, p0)
  BY <1>1, <1>2, <1>3, <1>4, <1>5
  DEF Service!Lose, Service!Open, Service!Settled, Asked, AnsweredOf, Reported, HasComplete
<1> QED BY <1>2, <1>6 DEF Service!Next

LEMMA AnswerImplements ==
  ASSUME IInv, IInv', NEW w \in Workers, EmitResult(w)
  PROVE  Service!Next
<1> DEFINE b == w[1]
           p0 == plugin[w]
<1>1. /\ pc[w] = "emit" /\ events' = Append(events, Result(output[w]))
      /\ UNCHANGED <<started, selected, panicked>>
  BY DEF EmitResult
<1>2. /\ b \in Batches /\ p0 \in Plugins /\ Held(b, p0) /\ output[w] \in Output
      /\ output[w].batch = b /\ output[w].plugin = p0
  BY <1>1, WorkerType DEF IInv, InHand, Held, Holding
<1>3. Contains(selected[b], p0) /\ ~HasResult(b, p0) /\ p0 \notin panicked[b]
  BY <1>2 DEF IInv, OnePlace
<1>4. p0 \in Asked[b] /\ p0 \notin AnsweredOf[b]
  BY <1>2, <1>3, ServiceView DEF Asked, AnsweredOf
<1>5. /\ \A c \in Batches : \A p : HasResult(c, p)' <=> HasResult(c, p) \/ (c = b /\ p = p0)
      /\ \A c \in Batches : HasComplete(c)' <=> HasComplete(c)
  <2>1. /\ Result(output[w]) \in Event /\ Result(output[w]).output = output[w]
        /\ \A c \in Batches : ~IsComplete(Result(output[w]), c)
        /\ \A c \in Batches : IsResult(Result(output[w]), c) <=> c = b
    BY <1>2, EventFacts
  <2>2. events \in Seq(Event)
    BY DEF IInv
  <2> QED BY <1>1, <1>2, <2>1, <2>2, Emitting
<1>6. AnsweredOf' = [AnsweredOf EXCEPT ![b] = AnsweredOf[b] \cup {p0}]
  <2>1. ASSUME NEW c \in Batches
        PROVE  AnsweredOf'[c] = IF c = b THEN AnsweredOf[b] \cup {p0} ELSE AnsweredOf[c]
    <3>1. \A p : p \in Answered(c)' <=> p \in Answered(c) \/ (c = b /\ p = p0)
      BY <1>5, AnsweredMembers
    <3>2. Answered(c)' = IF c = b THEN Answered(c) \cup {p0} ELSE Answered(c)
      <4> HIDE DEF b, p0
      <4> QED BY <3>1
    <3> QED BY <3>2 DEF AnsweredOf
  <2> QED BY <1>2, <2>1 DEF AnsweredOf
<1>7. UNCHANGED Reported /\ UNCHANGED Asked
  BY <1>1, <1>5 DEF Reported, Asked
<1>8. Service!Answer(b, p0)
  BY <1>1, <1>2, <1>3, <1>4, <1>6, <1>7
  DEF Service!Answer, Service!Open, Service!Settled, Asked, AnsweredOf, Reported, HasComplete
<1> QED BY <1>2, <1>8 DEF Service!Next

LEMMA CompleteImplements ==
  ASSUME IInv, IInv', NEW w \in Workers, EmitComplete(w)
  PROVE  Service!Next
<1> DEFINE b == w[1]
<1>1. /\ pc[w] = "complete" /\ events' = Append(events, BatchComplete(b))
      /\ UNCHANGED <<started, selected, panicked>> /\ b \in Batches
  BY WorkerType DEF EmitComplete
<1>2. remaining[b] = 0 /\ ~HasComplete(b) /\ b \in started
  BY <1>1 DEF IInv, OneReport, NothingBefore
<1>3. \A p \in Plugins : Contains(selected[b], p) => p \in panicked[b] \/ HasResult(b, p)
  BY <1>1, <1>2, ZeroIsSettled
<1>4. \A p \in Asked[b] : p \in panicked[b] \/ p \in AnsweredOf[b]
  BY <1>1, <1>3, ServiceView DEF Asked, AnsweredOf
<1>5. /\ \A c \in Batches : \A p : HasResult(c, p)' <=> HasResult(c, p)
      /\ \A c \in Batches : HasComplete(c)' <=> HasComplete(c) \/ c = b
  <2>1. /\ BatchComplete(b) \in Event
        /\ \A c \in Batches : ~IsResult(BatchComplete(b), c)
        /\ \A c \in Batches : IsComplete(BatchComplete(b), c) <=> c = b
    BY <1>1, EventFacts
  <2>2. events \in Seq(Event)
    BY DEF IInv
  <2> QED BY <1>1, <2>1, <2>2, Emitting
<1>6. AnsweredOf' = AnsweredOf
  <2>1. ASSUME NEW c \in Batches
        PROVE  Answered(c)' = Answered(c)
    <3>1. \A p : p \in Answered(c)' <=> p \in Answered(c)
      BY <1>5, AnsweredMembers
    <3> QED BY <3>1
  <2> QED BY <2>1 DEF AnsweredOf
<1>7. Reported' = Reported \cup {b} /\ b \in started \ Reported /\ Asked' = Asked
  BY <1>1, <1>2, <1>5 DEF Reported, Asked
<1>8. Service!Complete(b)
  BY <1>1, <1>4, <1>6, <1>7
  DEF Service!Complete, Service!Open, Service!Settled, Asked, AnsweredOf, Reported, HasComplete
<1> QED BY <1>1, <1>8 DEF Service!Next

(***************************************************************************)
(* Every step of the batches is a step of the service, or none of its      *)
(* variables changes.                                                      *)
(***************************************************************************)
LEMMA StepImplements ==
  ASSUME IInv, IInv', [Next]_vars
  PROVE  [Service!Next]_Service!serviceVars
<1>1. ASSUME UNCHANGED <<started, selected, events, panicked>>
      PROVE  UNCHANGED Service!serviceVars
  BY <1>1, SilentSteps DEF Service!serviceVars, Asked, AnsweredOf, Reported, HasComplete
<1>2. CASE UNCHANGED vars
  BY <1>1, <1>2 DEF vars
<1>3. ASSUME NEW b \in Batches, NEW ids \in Requests, StartProbeBatch(b, ids)
      PROVE  Service!Next
  BY <1>3, StartImplements
<1>4. ASSUME NEW w \in Workers, WorkerStep(w)
      PROVE  [Service!Next]_Service!serviceVars
  <2>1. CASE PopFront(w)
    BY <1>1, <2>1 DEF PopFront
  <2>2. ASSUME NEW kind \in Kinds, RunProbe(w, kind)
        PROVE  UNCHANGED Service!serviceVars
    BY <1>1, <2>2 DEF RunProbe
  <2>3. CASE ProbePanics(w)
    BY <2>3, LoseImplements
  <2>4. CASE CacheSuccessfulOutput(w)
    BY <1>1, <2>4 DEF CacheSuccessfulOutput
  <2>5. CASE EmitResult(w)
    BY <2>5, AnswerImplements
  <2>6. CASE CountDown(w)
    BY <1>1, <2>6 DEF CountDown
  <2>7. CASE EmitComplete(w)
    BY <2>7, CompleteImplements
  <2> QED BY <1>4, <2>1, <2>2, <2>3, <2>4, <2>5, <2>6, <2>7 DEF WorkerStep
<1> QED BY <1>2, <1>3, <1>4 DEF Next

(***************************************************************************)
(* Queue, workers and countdown implement what start_probe_batch promises  *)
(* the webview: every plugin answered at most once, and complete when      *)
(* nothing is left to come.                                                *)
(***************************************************************************)
THEOREM Implementation == Spec => ImplementsService
<1>1. Init => Service!Init
  <2> SUFFICES ASSUME Init
               PROVE  Service!Init
    OBVIOUS
  <2>1. \A b \in Batches : ToSet(selected[b]) = {} /\ Answered(b) = {} /\ panicked[b] = {}
    BY DEF Init, ToSet, Answered
  <2>2. { b \in Batches : \E i \in DOMAIN events : IsComplete(events[i], b) } = {}
    BY DEF Init
  <2> QED BY <2>1, <2>2 DEF Service!Init, Init
<1>2. IInv /\ IInv' /\ [Next]_vars => [Service!Next]_Service!serviceVars
  BY StepImplements
<1> QED BY <1>1, <1>2, Invariant, PTL DEF Spec, ImplementsService, Service!Spec
=============================================================================
