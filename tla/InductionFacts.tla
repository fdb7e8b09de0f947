---------------------------- MODULE InductionFacts ----------------------------
(***************************************************************************)
(* Induction over data, stated with sets: the induction theorems of the    *)
(* library take a predicate as a parameter, these take the set of the      *)
(* numbers that have a property.  They rest on the well-foundedness of the *)
(* natural numbers.  With them a fold of the community modules is shown to *)
(* be what its definition says.                                            *)
(***************************************************************************)
EXTENDS Lookup, SequencesExt, SequenceTheorems, FiniteSetTheorems, WellFoundedInduction, TLAPS

(***************************************************************************)
(* A non-empty set of natural numbers has a least member.                  *)
(***************************************************************************)
LEMMA LeastNatural ==
  ASSUME NEW T, T \subseteq Nat, T # {}
  PROVE  \E m \in T : \A k \in T : m <= k
<1> DEFINE Less == OpToRel(<, Nat)
<1>1. IsWellFoundedOn(Less, Nat)
  BY NatLessThanWellFounded
<1>2. \E x \in T : \A y \in T : <<y, x>> \notin Less
  <2> HIDE DEF Less
  <2> QED BY <1>1, WFMin
<1>3. \A x, y \in Nat : <<y, x>> \in Less <=> y < x
  BY DEF OpToRel
<1> HIDE DEF Less
<1>4. PICK x \in T : \A y \in T : <<y, x>> \notin Less
  BY <1>2
<1>5. \A y \in T : ~ (y < x)
  BY <1>3, <1>4
<1> QED BY <1>5

(***************************************************************************)
(* A set that holds 0 and the successors of its members holds all natural  *)
(* numbers.                                                                *)
(***************************************************************************)
LEMMA Induction ==
  ASSUME NEW S, 0 \in S, \A n \in Nat : n \in S => n + 1 \in S
  PROVE  Nat \subseteq S
<1> SUFFICES ASSUME Nat \ S # {} PROVE FALSE
  OBVIOUS
<1>1. PICK m \in Nat \ S : \A k \in Nat \ S : m <= k
  BY LeastNatural
<1>2. m # 0 /\ m - 1 \in Nat
  BY <1>1
<1>3. m - 1 \in S
  BY <1>1, <1>2
<1> QED BY <1>1, <1>2, <1>3

(***************************************************************************)
(* The greatest member of a non-empty set of indices.                      *)
(***************************************************************************)
LEMMA MaxOfIndices ==
  ASSUME NEW N \in Nat, NEW S \in SUBSET (1 .. N), S # {}
  PROVE  /\ Max(S) \in S
         /\ \A x \in S : x <= Max(S)
<1> DEFINE T == {N - x : x \in S}
<1>1. T \subseteq Nat /\ T # {}
  <2>1. \A x \in S : N - x \in Nat
    OBVIOUS
  <2>2. PICK x \in S : TRUE
    OBVIOUS
  <2> QED BY <2>1, <2>2
<1> HIDE DEF T
<1>2. PICK m \in T : \A k \in T : m <= k
  BY <1>1, LeastNatural
<1>3. \E x \in S : \A y \in S : x >= y
  <2>1. PICK x \in S : m = N - x
    BY <1>2 DEF T
  <2>2. \A y \in S : N - x <= N - y
    BY <1>2, <2>1 DEF T
  <2> QED BY <2>2
<1>4. /\ Max(S) \in S
      /\ \A y \in S : Max(S) >= y
  BY <1>3 DEF Max
<1> QED BY <1>4

(***************************************************************************)
(* Recursion over the natural numbers: every first value and step function *)
(* have a function.                                                        *)
(***************************************************************************)
Begins(p, n, T, base, f) ==
  /\ p \in [0 .. n -> T] /\ p[0] = base
  /\ \A k \in 0 .. n - 1 : p[k + 1] = f[<<p[k], k>>]

LEMMA BeginsAgree ==
  ASSUME NEW T, NEW base, NEW f, NEW n \in Nat, NEW m \in Nat, m <= n,
         NEW p, NEW q, Begins(p, n, T, base, f), Begins(q, m, T, base, f)
  PROVE  q[m] = p[m]
<1> DEFINE S == {k \in Nat : k <= m => q[k] = p[k]}
<1>1. 0 \in S
  BY DEF Begins
<1>2. ASSUME NEW k \in Nat, k \in S
      PROVE  k + 1 \in S
  <2> SUFFICES ASSUME k + 1 <= m PROVE q[k + 1] = p[k + 1]
    OBVIOUS
  <2>1. q[k] = p[k]
    BY <1>2
  <2>2. k \in 0 .. m - 1 /\ k \in 0 .. n - 1
    OBVIOUS
  <2> QED BY <2>1, <2>2 DEF Begins
<1>3. m \in S
  <2> HIDE DEF S
  <2> QED BY <1>1, <1>2, Induction
<1> QED BY <1>3

Recurs(g, base, f) == g[0] = base /\ \A n \in Nat : g[n + 1] = f[<<g[n], n>>]

LEMMA Recursion ==
  ASSUME NEW T, NEW base \in T, NEW f \in [T \X Nat -> T]
  PROVE  \E g \in [Nat -> T] : Recurs(g, base, f)
<1> DEFINE S == {n \in Nat : \E p : Begins(p, n, T, base, f)}
<1>1. 0 \in S
  <2>1. Begins([k \in 0 .. 0 |-> base], 0, T, base, f)
    BY DEF Begins
  <2> QED BY <2>1
<1>2. ASSUME NEW n \in Nat, n \in S
      PROVE  n + 1 \in S
  <2>1. PICK p : Begins(p, n, T, base, f)
    BY <1>2
  <2> DEFINE q == [k \in 0 .. n + 1 |-> IF k = n + 1 THEN f[<<p[n], n>>] ELSE p[k]]
  <2>2. p \in [0 .. n -> T] /\ n \in 0 .. n /\ f[<<p[n], n>>] \in T
    BY <2>1 DEF Begins
  <2>3. q \in [0 .. n + 1 -> T] /\ q[0] = base
    BY <2>1, <2>2 DEF Begins
  <2>4. ASSUME NEW k \in 0 .. (n + 1) - 1
        PROVE  q[k + 1] = f[<<q[k], k>>]
    <3>1. q[k] = p[k]
      OBVIOUS
    <3>2. CASE k = n
      <4>1. q[k + 1] = f[<<p[n], n>>] /\ q[k] = p[n]
        BY <3>1, <3>2
      <4> HIDE DEF q
      <4> QED BY <3>2, <4>1
    <3>3. CASE k # n
      <4>1. k \in 0 .. n - 1 /\ k + 1 \in 0 .. n + 1 /\ k + 1 # n + 1
        BY <3>3
      <4>2. q[k + 1] = p[k + 1]
        BY <4>1
      <4> HIDE DEF q
      <4> QED BY <2>1, <3>1, <4>1, <4>2 DEF Begins
    <3> QED BY <3>2, <3>3
  <2>5. Begins(q, n + 1, T, base, f)
    <3> HIDE DEF q
    <3> QED BY <2>3, <2>4 DEF Begins
  <2> QED BY <2>5
<1>3. \A n \in Nat : \E p : Begins(p, n, T, base, f)
  <2> HIDE DEF S
  <2>1. Nat \subseteq S
    BY <1>1, <1>2, Induction
  <2> QED BY <2>1 DEF S
<1> DEFINE At(n) == CHOOSE p : Begins(p, n, T, base, f)
           g == [n \in Nat |-> At(n)[n]]
<1>4. \A n \in Nat : Begins(At(n), n, T, base, f)
  BY <1>3
<1>5. \A n \in Nat : g[n] = At(n)[n]
  OBVIOUS
<1> HIDE DEF At
<1>6. g \in [Nat -> T]
  BY <1>4 DEF Begins
<1> HIDE DEF g
<1>7. g[0] = base
  <2>1. Begins(At(0), 0, T, base, f)
    BY <1>4
  <2> QED BY <1>5, <2>1 DEF Begins
<1>8. ASSUME NEW n \in Nat
      PROVE  g[n + 1] = f[<<g[n], n>>]
  <2>1. Begins(At(n), n, T, base, f) /\ Begins(At(n + 1), n + 1, T, base, f)
    BY <1>4
  <2>2. At(n)[n] = At(n + 1)[n]
    <3>1. n <= n + 1 /\ n + 1 \in Nat
      OBVIOUS
    <3>2. PICK p : p = At(n + 1)
      OBVIOUS
    <3>3. PICK q : q = At(n)
      OBVIOUS
    <3>4. Begins(p, n + 1, T, base, f) /\ Begins(q, n, T, base, f)
      BY <2>1, <3>2, <3>3
    <3>5. q[n] = p[n]
      BY <3>1, <3>4, BeginsAgree
    <3> QED BY <3>2, <3>3, <3>5
  <2>3. At(n + 1)[n + 1] = f[<<At(n + 1)[n], n>>]
    <3>1. n \in 0 .. (n + 1) - 1
      OBVIOUS
    <3> QED BY <2>1, <3>1 DEF Begins
  <2> QED BY <1>5, <2>2, <2>3
<1> QED BY <1>6, <1>7, <1>8 DEF Recurs

(***************************************************************************)
(* The recursion of MapThenFoldSet over the indices of a sequence has a    *)
(* solution, for every step function f.                                    *)
(***************************************************************************)
FoldSolution(g, n, base, f) ==
  \A s \in SUBSET (1 .. n) :
    g[s] = IF s = {} THEN base ELSE f[<<g[s \ {Max(s)}], Max(s)>>]
FoldSolvable(n, T, base, f) ==
  \E g \in [SUBSET (1 .. n) -> T] : FoldSolution(g, n, base, f)

LEMMA FoldStep ==
  ASSUME NEW N \in Nat, NEW T, NEW base \in T, NEW f \in [T \X (1 .. N) -> T],
         NEW n \in Nat, n + 1 <= N, FoldSolvable(n, T, base, f)
  PROVE  FoldSolvable(n + 1, T, base, f)
<1>1. PICK g \in [SUBSET (1 .. n) -> T] : FoldSolution(g, n, base, f)
  BY DEF FoldSolvable
<1> DEFINE D == SUBSET (1 .. n + 1)
           h == [s \in D |-> IF n + 1 \in s THEN f[<<g[s \ {n + 1}], n + 1>>] ELSE g[s]]
<1>2. \A s \in D : /\ s \ {n + 1} \in SUBSET (1 .. n)
                   /\ n + 1 \notin s => s \in SUBSET (1 .. n)
  OBVIOUS
<1>3. \A s \in SUBSET (1 .. n) : s \in D /\ n + 1 \notin s
  OBVIOUS
<1>4. n + 1 \in 1 .. N
  OBVIOUS
<1>5. \A s \in D : h[s] = IF n + 1 \in s THEN f[<<g[s \ {n + 1}], n + 1>>] ELSE g[s]
  OBVIOUS
<1>6. h \in [D -> T]
  <2>1. \A s \in D : f[<<g[s \ {n + 1}], n + 1>>] \in T
    BY <1>2, <1>4
  <2>2. \A s \in D : n + 1 \notin s => g[s] \in T
    BY <1>2
  <2>3. \A s \in D : h[s] \in T
    <3> HIDE DEF h, D
    <3> QED BY <1>5, <2>1, <2>2
  <2> QED BY <2>3
<1>7. \A s \in SUBSET (1 .. n) : h[s] = g[s]
  <2> HIDE DEF h, D
  <2> QED BY <1>3, <1>5
<1>8. \A s \in D : n + 1 \in s => Max(s) = n + 1
  <2> SUFFICES ASSUME NEW s \in D, n + 1 \in s
               PROVE  Max(s) = n + 1
    OBVIOUS
  <2> HIDE DEF h
  <2>1. n + 1 \in Nat /\ s \in SUBSET (1 .. n + 1) /\ s # {}
    OBVIOUS
  <2>2. Max(s) \in s /\ \A x \in s : x <= Max(s)
    <3> HIDE DEF D
    <3> QED BY <2>1, MaxOfIndices
  <2>3. n + 1 <= Max(s) /\ Max(s) \in 1 .. n + 1
    BY <2>1, <2>2
  <2> QED BY <2>3
<1>9. ASSUME NEW s \in D
      PROVE  h[s] = IF s = {} THEN base ELSE f[<<h[s \ {Max(s)}], Max(s)>>]
  <2> HIDE DEF h, D
  <2>1. CASE n + 1 \in s
    <3>1. h[s \ {n + 1}] = g[s \ {n + 1}]
      BY <1>2, <1>7
    <3> QED BY <2>1, <1>5, <1>8, <3>1
  <2>2. CASE n + 1 \notin s
    <3>1. s \in SUBSET (1 .. n) /\ s \ {Max(s)} \in SUBSET (1 .. n)
      BY <1>2, <2>2
    <3>2. h[s] = g[s] /\ h[s \ {Max(s)}] = g[s \ {Max(s)}]
      BY <1>7, <3>1
    <3> QED BY <1>1, <3>1, <3>2 DEF FoldSolution
  <2> QED BY <2>1, <2>2
<1> HIDE DEF h
<1> QED BY <1>6, <1>9 DEF FoldSolution, FoldSolvable

LEMMA FoldExists ==
  ASSUME NEW N \in Nat, NEW T, NEW base \in T, NEW f \in [T \X (1 .. N) -> T]
  PROVE  \E g \in [SUBSET (1 .. N) -> T] : FoldSolution(g, N, base, f)
<1> DEFINE S == {n \in Nat : n <= N => FoldSolvable(n, T, base, f)}
<1>1. 0 \in S
  <2> DEFINE g == [s \in SUBSET (1 .. 0) |-> base]
  <2>1. \A s \in SUBSET (1 .. 0) : s = {}
    OBVIOUS
  <2>2. g \in [SUBSET (1 .. 0) -> T] /\ \A s \in SUBSET (1 .. 0) : g[s] = base
    OBVIOUS
  <2> HIDE DEF g
  <2>3. FoldSolvable(0, T, base, f)
    BY <2>1, <2>2 DEF FoldSolvable, FoldSolution
  <2> QED BY <2>3
<1>2. ASSUME NEW n \in Nat, n \in S
      PROVE  n + 1 \in S
  <2>1. n + 1 <= N => FoldSolvable(n, T, base, f)
    BY <1>2
  <2>2. n + 1 <= N => FoldSolvable(n + 1, T, base, f)
    BY <2>1, FoldStep
  <2> QED BY <2>2
<1>3. Nat \subseteq S
  <2> HIDE DEF S
  <2> QED BY <1>1, <1>2, Induction
<1>4. FoldSolvable(N, T, base, f)
  BY <1>3
<1> QED BY <1>4 DEF FoldSolvable

(***************************************************************************)
(* A function h that goes the steps of f, as long as they stay in T, goes  *)
(* through the prefixes of the indices one after the other.                *)
(***************************************************************************)
FoldSteps(h, n, T, base, f) ==
  /\ h[{}] = base
  /\ \A s \in SUBSET (1 .. n) : s # {} /\ h[s \ {Max(s)}] \in T =>
       h[s] = f[<<h[s \ {Max(s)}], Max(s)>>]
FoldRun(r, h, n, base, f) ==
  /\ r[0] = base
  /\ \A k \in 1 .. n : r[k] = f[<<r[k - 1], k>>]
  /\ r[n] = h[1 .. n]

LEMMA FoldRuns ==
  ASSUME NEW N \in Nat, NEW T, NEW base \in T, NEW f \in [T \X (1 .. N) -> T], NEW h,
         FoldSteps(h, N, T, base, f)
  PROVE  \E r \in [0 .. N -> T] : FoldRun(r, h, N, base, f)
<1>1. h[1 .. 0] = base
  <2>1. 1 .. 0 = {}
    OBVIOUS
  <2> QED BY <2>1 DEF FoldSteps
<1>2. ASSUME NEW k \in 1 .. N, h[1 .. k - 1] \in T
      PROVE  h[1 .. k] = f[<<h[1 .. k - 1], k>>]
  <2>1. 1 .. k \in SUBSET (1 .. N) /\ 1 .. k # {} /\ k \in Nat
    OBVIOUS
  <2>2. Max(1 .. k) = k
    <3>1. Max(1 .. k) \in 1 .. k /\ \A x \in 1 .. k : x <= Max(1 .. k)
      BY <2>1, MaxOfIndices
    <3> QED BY <2>1, <3>1
  <2>3. (1 .. k) \ {k} = 1 .. k - 1
    BY <2>1
  <2> QED BY <1>2, <2>1, <2>2, <2>3 DEF FoldSteps
<1> DEFINE S == {k \in Nat : k <= N => h[1 .. k] \in T}
<1>3. 0 \in S
  BY <1>1
<1>4. ASSUME NEW k \in Nat, k \in S
      PROVE  k + 1 \in S
  <2> SUFFICES ASSUME k + 1 <= N PROVE h[1 .. k + 1] \in T
    OBVIOUS
  <2>1. h[1 .. k] \in T /\ k + 1 \in 1 .. N /\ (k + 1) - 1 = k
    BY <1>4
  <2>2. h[1 .. k + 1] = f[<<h[1 .. k], k + 1>>]
    BY <1>2, <2>1
  <2> QED BY <2>1, <2>2
<1>5. \A k \in 0 .. N : h[1 .. k] \in T
  <2> HIDE DEF S
  <2>1. Nat \subseteq S
    BY <1>3, <1>4, Induction
  <2> QED BY <2>1 DEF S
<1> DEFINE r == [k \in 0 .. N |-> h[1 .. k]]
<1>6. r \in [0 .. N -> T] /\ r[0] = base /\ r[N] = h[1 .. N]
  <2>1. 0 \in 0 .. N /\ N \in 0 .. N
    OBVIOUS
  <2> QED BY <1>1, <1>5, <2>1
<1>7. ASSUME NEW k \in 1 .. N
      PROVE  r[k] = f[<<r[k - 1], k>>]
  <2>1. k - 1 \in 0 .. N /\ k \in 0 .. N
    OBVIOUS
  <2> QED BY <1>2, <1>5, <2>1
<1> HIDE DEF r
<1> QED BY <1>6, <1>7 DEF FoldRun

(***************************************************************************)
(* Looking into places in order: the step for the next place.              *)
(***************************************************************************)
Look(S, found, x) == IF x \in S THEN Append(found, x) ELSE found

LEMMA LookOnce ==
  ASSUME NEW T, NEW S, NEW found \in Seq(T), NEW x \in T
  PROVE  /\ Look(S, found, x) \in Seq(T)
         /\ ToSet(Look(S, found, x)) = ToSet(found) \cup ({x} \cap S)
<1>1. CASE x \in S
  <2>1. /\ Append(found, x) \in Seq(T) /\ Len(Append(found, x)) = Len(found) + 1
        /\ Len(found) \in Nat /\ Append(found, x)[Len(found) + 1] = x
        /\ \A i \in 1 .. Len(found) : Append(found, x)[i] = found[i]
    BY AppendProperties, LenProperties
  <2> DEFINE new == Append(found, x)
  <2>2. DOMAIN new = 1 .. Len(found) + 1 /\ DOMAIN found = 1 .. Len(found)
    BY <2>1, LenProperties
  <2> HIDE DEF new
  <2>3. \A y : y \in ToSet(new) <=> y \in ToSet(found) \/ y = x
    BY <2>1, <2>2 DEF ToSet, new
  <2>4. Look(S, found, x) = new
    BY <1>1 DEF Look, new
  <2> QED BY <1>1, <2>1, <2>3, <2>4 DEF new
<1>2. CASE x \notin S
  BY <1>2 DEF Look
<1> QED BY <1>1, <1>2

(***************************************************************************)
(* What Among does, place by place.                                        *)
(***************************************************************************)
LEMMA AmongRuns ==
  ASSUME NEW T, NEW S, NEW order \in Seq(T)
  PROVE  \E r \in [0 .. Len(order) -> Seq(T)] :
           /\ r[0] = <<>>
           /\ \A k \in 1 .. Len(order) : r[k] = Look(S, r[k - 1], order[k])
           /\ r[Len(order)] = Among(order, S)
<1> DEFINE N == Len(order)
           R == Seq(T)
           f == [x \in R \X (1 .. N) |-> Look(S, x[1], order[x[2]])]
<1>1. N \in Nat /\ DOMAIN order = 1 .. N /\ <<>> \in R /\ \A k \in 1 .. N : order[k] \in T
  BY LenProperties, ElementOfSeq
<1>2. f \in [R \X (1 .. N) -> R]
  <2> HIDE DEF N
  <2> QED BY <1>1, LookOnce
<1>3. \A t \in R, k \in 1 .. N : f[<<t, k>>] = Look(S, t, order[k])
  OBVIOUS
<1> HIDE DEF f, N
<1>4. PICK g \in [SUBSET (1 .. N) -> R] : FoldSolution(g, N, <<>>, f)
  <2> HIDE DEF R
  <2> QED BY <1>1, <1>2, FoldExists
<1>5. ASSUME NEW s \in SUBSET (1 .. N), s # {}
      PROVE  g[s] = Look(S, g[s \ {Max(s)}], order[Max(s)])
  <2>1. Max(s) \in 1 .. N /\ s \ {Max(s)} \in SUBSET (1 .. N)
    BY <1>1, <1>5, MaxOfIndices
  <2>2. g[s \ {Max(s)}] \in R
    BY <2>1
  <2> QED BY <1>3, <1>4, <1>5, <2>1, <2>2 DEF FoldSolution
<1>6. g[{}] = <<>>
  BY <1>4 DEF FoldSolution
<1> DEFINE F(h) == [s \in SUBSET (1 .. N) |->
                      IF s = {} THEN <<>> ELSE Look(S, h[s \ {Max(s)}], order[Max(s)])]
<1>7. g = F(g)
  BY <1>5, <1>6
<1>8. Among(order, S) = (CHOOSE h : h = F(h))[1 .. N]
  BY <1>1 DEF Among, FoldLeft, MapThenFoldSet, Look
<1> DEFINE h == CHOOSE h : h = F(h)
<1>9. h = F(h) /\ Among(order, S) = h[1 .. N]
  BY <1>7, <1>8
<1> HIDE DEF h
<1>10. h[{}] = <<>>
  BY <1>9
<1>11. \A s \in SUBSET (1 .. N) : s # {} /\ h[s \ {Max(s)}] \in R =>
         h[s] = f[<<h[s \ {Max(s)}], Max(s)>>]
  <2> SUFFICES ASSUME NEW s \in SUBSET (1 .. N), s # {}, h[s \ {Max(s)}] \in R
               PROVE  h[s] = f[<<h[s \ {Max(s)}], Max(s)>>]
    OBVIOUS
  <2>1. h[s] = Look(S, h[s \ {Max(s)}], order[Max(s)])
    BY <1>9
  <2>2. Max(s) \in 1 .. N
    BY <1>1, MaxOfIndices
  <2> QED BY <1>3, <2>1, <2>2
<1>12. FoldSteps(h, N, R, <<>>, f)
  BY <1>10, <1>11 DEF FoldSteps
<1>13. PICK r \in [0 .. N -> R] : FoldRun(r, h, N, <<>>, f)
  <2> HIDE DEF R, F
  <2> QED BY <1>1, <1>2, <1>12, FoldRuns
<1>14. ASSUME NEW k \in 1 .. N
       PROVE  r[k] = Look(S, r[k - 1], order[k])
  <2>1. k - 1 \in 0 .. N
    BY <1>1
  <2>2. r[k - 1] \in R
    BY <2>1
  <2> QED BY <1>3, <1>13, <2>2 DEF FoldRun
<1> QED BY <1>9, <1>13, <1>14 DEF N, FoldRun

(***************************************************************************)
(* What Among finds: the members of order that are in S, and no other.     *)
(***************************************************************************)
LEMMA AmongFacts ==
  ASSUME NEW T, NEW S, NEW order \in Seq(T)
  PROVE  /\ Among(order, S) \in Seq(T)
         /\ ToSet(Among(order, S)) = ToSet(order) \cap S
<1> DEFINE N == Len(order)
<1>1. N \in Nat /\ DOMAIN order = 1 .. N /\ \A k \in 1 .. N : order[k] \in T
  BY LenProperties, ElementOfSeq
<1>2. PICK r \in [0 .. N -> Seq(T)] : /\ r[0] = <<>>
                                      /\ \A k \in 1 .. N : r[k] = Look(S, r[k - 1], order[k])
                                      /\ r[N] = Among(order, S)
  BY AmongRuns
<1> HIDE DEF N
<1> DEFINE Found(k) == ToSet(r[k]) = {order[i] : i \in 1 .. k} \cap S
           Good == {k \in Nat : k <= N => Found(k)}
<1>3. 0 \in Good
  <2>1. ToSet(r[0]) = {} /\ 1 .. 0 = {}
    BY <1>2 DEF ToSet
  <2> QED BY <2>1
<1>4. ASSUME NEW k \in Nat, k \in Good
      PROVE  k + 1 \in Good
  <2> SUFFICES ASSUME k + 1 <= N PROVE Found(k + 1)
    OBVIOUS
  <2>0. k \in 0 .. N /\ k + 1 \in 1 .. N /\ (k + 1) - 1 = k
    BY <1>1
  <2>1. Found(k) /\ k \in 0 .. N /\ k + 1 \in 1 .. N /\ order[k + 1] \in T /\ (k + 1) - 1 = k
    <3>1. k <= N
      BY <1>1
    <3> HIDE DEF Found
    <3> QED BY <1>1, <1>4, <2>0, <3>1
  <2>2. r[k + 1] = Look(S, r[k], order[k + 1]) /\ r[k] \in Seq(T)
    BY <1>2, <2>1
  <2>3. {order[i] : i \in 1 .. k + 1} = {order[i] : i \in 1 .. k} \cup {order[k + 1]}
    OBVIOUS
  <2>4. ToSet(r[k + 1]) = ToSet(r[k]) \cup ({order[k + 1]} \cap S)
    <3> HIDE DEF Found
    <3> QED BY <2>1, <2>2, LookOnce
  <2> QED BY <2>1, <2>3, <2>4
<1>5. N \in Good
  <2> HIDE DEF Good
  <2> QED BY <1>1, <1>3, <1>4, Induction
<1>6. Found(N) /\ N \in 0 .. N
  BY <1>1, <1>5
<1>7. ToSet(order) = {order[i] : i \in 1 .. N}
  BY <1>1 DEF ToSet
<1> QED BY <1>2, <1>6, <1>7

(***************************************************************************)
(* A sequence all of whose members are in S is what Among finds.           *)
(***************************************************************************)
LEMMA AmongAll ==
  ASSUME NEW T, NEW S, NEW order \in Seq(T), ToSet(order) \subseteq S
  PROVE  Among(order, S) = order
<1> DEFINE N == Len(order)
<1>1. N \in Nat /\ DOMAIN order = 1 .. N /\ \A k \in 1 .. N : order[k] \in T
  BY LenProperties, ElementOfSeq
<1>2. PICK r \in [0 .. N -> Seq(T)] : /\ r[0] = <<>>
                                      /\ \A k \in 1 .. N : r[k] = Look(S, r[k - 1], order[k])
                                      /\ r[N] = Among(order, S)
  BY AmongRuns
<1>0. \A k \in 1 .. N : order[k] \in S
  BY <1>1 DEF ToSet
<1> HIDE DEF N
<1> DEFINE Found(k) == Len(r[k]) = k /\ \A i \in 1 .. k : r[k][i] = order[i]
           Good == {k \in Nat : k <= N => Found(k)}
<1>3. 0 \in Good
  BY <1>2
<1>4. ASSUME NEW k \in Nat, k \in Good
      PROVE  k + 1 \in Good
  <2> SUFFICES ASSUME k + 1 <= N PROVE Found(k + 1)
    OBVIOUS
  <2>0. k \in 0 .. N /\ k + 1 \in 1 .. N /\ (k + 1) - 1 = k
    BY <1>1
  <2>1. Found(k) /\ k \in 0 .. N /\ k + 1 \in 1 .. N /\ (k + 1) - 1 = k
    <3>1. k <= N
      BY <1>1
    <3> HIDE DEF Found
    <3> QED BY <1>4, <2>0, <3>1
  <2>2. r[k + 1] = Look(S, r[k], order[k + 1]) /\ r[k] \in Seq(T)
    BY <1>2, <2>1
  <2>3. r[k + 1] = Append(r[k], order[k + 1]) /\ order[k + 1] \in T
    BY <1>0, <1>1, <2>1, <2>2 DEF Look
  <2>4. /\ Len(Append(r[k], order[k + 1])) = k + 1
        /\ Append(r[k], order[k + 1])[k + 1] = order[k + 1]
        /\ \A i \in 1 .. k : Append(r[k], order[k + 1])[i] = r[k][i]
    BY <2>1, <2>2, <2>3, AppendProperties
  <2> QED BY <2>1, <2>3, <2>4
<1>5. N \in Good
  <2> HIDE DEF Good
  <2> QED BY <1>1, <1>3, <1>4, Induction
<1>6. Found(N) /\ N \in 0 .. N /\ r[N] \in Seq(T)
  BY <1>1, <1>2, <1>5
<1>7. Len(Among(order, S)) = Len(order) /\ \A i \in 1 .. Len(order) : Among(order, S)[i] = order[i]
  BY <1>2, <1>6 DEF N
<1> QED BY <1>2, <1>6, <1>7, SeqEqual

(***************************************************************************)
(* Among keeps the order, and takes no place twice.                        *)
(***************************************************************************)
Picks(e, order, got, n) ==
  /\ e \in [1 .. Len(got) -> 1 .. n]
  /\ \A i \in 1 .. Len(got) : got[i] = order[e[i]]
  /\ \A i, j \in 1 .. Len(got) : i < j => e[i] < e[j]

LEMMA AmongPicks ==
  ASSUME NEW T, NEW S, NEW order \in Seq(T)
  PROVE  \E e : Picks(e, order, Among(order, S), Len(order))
<1> DEFINE N == Len(order)
<1>1. N \in Nat /\ DOMAIN order = 1 .. N /\ \A k \in 1 .. N : order[k] \in T
  BY LenProperties, ElementOfSeq
<1>2. PICK r \in [0 .. N -> Seq(T)] : /\ r[0] = <<>>
                                      /\ \A k \in 1 .. N : r[k] = Look(S, r[k - 1], order[k])
                                      /\ r[N] = Among(order, S)
  BY AmongRuns
<1> HIDE DEF N
<1> DEFINE Found(k) == \E e : Picks(e, order, r[k], k)
           Good == {k \in Nat : k <= N => Found(k)}
<1>3. 0 \in Good
  <2> DEFINE e == [i \in 1 .. 0 |-> 0]
  <2>1. Picks(e, order, <<>>, 0)
    BY DEF Picks
  <2> QED BY <1>2, <2>1
<1>4. ASSUME NEW k \in Nat, k \in Good
      PROVE  k + 1 \in Good
  <2> SUFFICES ASSUME k + 1 <= N PROVE Found(k + 1)
    OBVIOUS
  <2>1. k \in 0 .. N /\ Found(k) /\ k + 1 \in 1 .. N /\ (k + 1) - 1 = k /\ order[k + 1] \in T
    BY <1>1, <1>4
  <2>2. r[k + 1] = Look(S, r[k], order[k + 1]) /\ r[k] \in Seq(T)
    BY <1>2, <2>1
  <2>3. PICK e : Picks(e, order, r[k], k)
    BY <2>1
  <2>4. CASE order[k + 1] \notin S
    <3>1. r[k + 1] = r[k]
      BY <2>2, <2>4 DEF Look
    <3>2. Picks(e, order, r[k], k + 1)
      BY <2>3 DEF Picks
    <3> QED BY <3>1, <3>2
  <2>5. CASE order[k + 1] \in S
    <3> DEFINE n == Len(r[k])
               d == [i \in 1 .. n + 1 |-> IF i = n + 1 THEN k + 1 ELSE e[i]]
    <3>1. r[k + 1] = Append(r[k], order[k + 1]) /\ n \in Nat
      BY <2>2, <2>5, LenProperties DEF Look
    <3>2. /\ Len(r[k + 1]) = n + 1
          /\ r[k + 1][n + 1] = order[k + 1]
          /\ \A i \in 1 .. n : r[k + 1][i] = r[k][i]
      BY <2>1, <2>2, <3>1, AppendProperties
    <3>3. \A i \in 1 .. n : e[i] \in 1 .. k /\ r[k][i] = order[e[i]]
      BY <2>3 DEF Picks
    <3>4. \A i, j \in 1 .. n : i < j => e[i] < e[j]
      BY <2>3 DEF Picks
    <3> HIDE DEF n
    <3>5. /\ d \in [1 .. n + 1 -> 1 .. k + 1] /\ d[n + 1] = k + 1
          /\ \A i \in 1 .. n : d[i] = e[i]
      BY <3>1, <3>3
    <3> HIDE DEF d
    <3>6. \A i \in 1 .. n + 1 : i \in 1 .. n \/ i = n + 1
      BY <3>1
    <3>7. \A i \in 1 .. n + 1 : r[k + 1][i] = order[d[i]]
      BY <3>2, <3>3, <3>5, <3>6
    <3>8. ASSUME NEW i \in 1 .. n + 1, NEW j \in 1 .. n + 1, i < j
          PROVE  d[i] < d[j]
      <4>1. i \in 1 .. n
        BY <3>1, <3>8
      <4>2. CASE j \in 1 .. n
        BY <3>4, <3>5, <3>8, <4>1, <4>2
      <4>3. CASE j = n + 1
        BY <3>3, <3>5, <4>1, <4>3
      <4> QED BY <3>6, <4>2, <4>3
    <3>9. Picks(d, order, r[k + 1], k + 1)
      BY <3>2, <3>5, <3>7, <3>8 DEF Picks
    <3> QED BY <3>9
  <2> QED BY <2>4, <2>5
<1>5. N \in Good
  <2> HIDE DEF Good
  <2> QED BY <1>1, <1>3, <1>4, Induction
<1> QED BY <1>1, <1>2, <1>5 DEF N

-----------------------------------------------------------------------------
(* More about sequences.                                                   *)

LEMMA SingletonFacts ==
  ASSUME NEW S, NEW x \in S
  PROVE  <<x>> \in Seq(S) /\ Len(<<x>>) = 1 /\ <<x>>[1] = x /\ ToSet(<<x>>) = {x} /\ <<x>> # <<>>
BY DEF ToSet

LEMMA SetOfSeq ==
  ASSUME NEW S, NEW s \in Seq(S)
  PROVE  ToSet(s) \subseteq S /\ ToSet(s) = {s[i] : i \in 1 .. Len(s)}
BY LenProperties, ElementOfSeq DEF ToSet

LEMMA SeqOfSet ==
  ASSUME NEW S, NEW T, NEW s \in Seq(S), ToSet(s) \subseteq T
  PROVE  s \in Seq(T)
<1>1. Len(s) \in Nat /\ s \in [1 .. Len(s) -> S] /\ \A i \in 1 .. Len(s) : s[i] \in T
  BY LenProperties DEF ToSet
<1>2. s \in [1 .. Len(s) -> T]
  BY <1>1
<1> QED BY <1>1, <1>2, SeqDef

LEMMA EmptyDomain ==
  ASSUME NEW S, NEW s \in Seq(S), DOMAIN s = {}
  PROVE  s = <<>>
<1>1. Len(s) \in Nat /\ 1 .. Len(s) = {}
  BY LenProperties
<1>2. Len(s) = 0
  BY <1>1
<1> QED BY <1>2, EmptySeq

LEMMA SomeInSeq ==
  ASSUME NEW S, NEW s \in Seq(S)
  PROVE  s # <<>> <=> ToSet(s) # {}
<1>1. Len(s) \in Nat /\ DOMAIN s = 1 .. Len(s)
  BY LenProperties
<1>2. s # <<>> <=> Len(s) # 0
  BY EmptySeq
<1>3. Len(s) # 0 => 1 \in 1 .. Len(s)
  BY <1>1
<1> QED BY <1>1, <1>2, <1>3 DEF ToSet

LEMMA ConcatFacts ==
  ASSUME NEW S, NEW s \in Seq(S), NEW t \in Seq(S)
  PROVE  /\ s \o t \in Seq(S) /\ ToSet(s \o t) = ToSet(s) \cup ToSet(t)
         /\ s \o t = <<>> <=> s = <<>> /\ t = <<>>
<1>1. /\ s \o t \in Seq(S) /\ Len(s \o t) = Len(s) + Len(t)
      /\ \A i \in 1 .. Len(s) + Len(t) : (s \o t)[i] = IF i <= Len(s) THEN s[i] ELSE t[i - Len(s)]
  BY ConcatProperties
<1>2. /\ Len(s) \in Nat /\ Len(t) \in Nat /\ DOMAIN s = 1 .. Len(s) /\ DOMAIN t = 1 .. Len(t)
      /\ DOMAIN (s \o t) = 1 .. Len(s) + Len(t)
  BY <1>1, LenProperties
<1>3. s \o t = <<>> <=> s = <<>> /\ t = <<>>
  BY ConcatEqualIffEmpty
<1> DEFINE c == s \o t
<1>4. \A i \in 1 .. Len(s) : i \in 1 .. Len(s) + Len(t) /\ c[i] = s[i]
  BY <1>1, <1>2
<1>5. \A i \in 1 .. Len(t) : /\ Len(s) + i \in 1 .. Len(s) + Len(t)
                             /\ c[Len(s) + i] = t[i]
  <2> TAKE i \in 1 .. Len(t)
  <2>1. Len(s) + i \in 1 .. Len(s) + Len(t) /\ ~(Len(s) + i <= Len(s)) /\ (Len(s) + i) - Len(s) = i
    BY <1>2
  <2> QED BY <1>1, <2>1
<1>6. \A i \in 1 .. Len(s) + Len(t) :
        \/ i \in 1 .. Len(s) /\ c[i] = s[i]
        \/ i - Len(s) \in 1 .. Len(t) /\ c[i] = t[i - Len(s)]
  BY <1>1, <1>2
<1> HIDE DEF c
<1>7. ToSet(c) = {c[i] : i \in 1 .. Len(s) + Len(t)}
  BY <1>2 DEF ToSet, c
<1>8. ToSet(s) = {s[i] : i \in 1 .. Len(s)} /\ ToSet(t) = {t[i] : i \in 1 .. Len(t)}
  BY <1>2 DEF ToSet
<1>9. \A x : x \in ToSet(c) <=> x \in ToSet(s) \/ x \in ToSet(t)
  <2> SUFFICES ASSUME NEW x PROVE x \in ToSet(c) <=> x \in ToSet(s) \/ x \in ToSet(t)
    OBVIOUS
  <2>1. ASSUME x \in ToSet(c) PROVE x \in ToSet(s) \/ x \in ToSet(t)
    BY <2>1, <1>6, <1>7, <1>8
  <2>2. ASSUME x \in ToSet(s) PROVE x \in ToSet(c)
    BY <2>2, <1>4, <1>7, <1>8
  <2>3. ASSUME x \in ToSet(t) PROVE x \in ToSet(c)
    <3>1. PICK i \in 1 .. Len(t) : x = t[i]
      BY <2>3, <1>8
    <3> QED BY <3>1, <1>5, <1>7
  <2> QED BY <2>1, <2>2, <2>3
<1> QED BY <1>1, <1>3, <1>9 DEF c

(***************************************************************************)
(* A sequence mapped member by member.                                     *)
(***************************************************************************)
Mapped(t, s) == t = [i \in DOMAIN s |-> t[i]]

LEMMA MappedFacts ==
  ASSUME NEW S, NEW T, NEW s \in Seq(S), NEW t, Mapped(t, s),
         \A i \in 1 .. Len(s) : t[i] \in T
  PROVE  /\ t \in Seq(T) /\ Len(t) = Len(s) /\ ToSet(t) = {t[i] : i \in 1 .. Len(s)}
         /\ t = <<>> <=> s = <<>>
<1>1. Len(s) \in Nat /\ DOMAIN s = 1 .. Len(s)
  BY LenProperties
<1>2. t \in [1 .. Len(s) -> T]
  BY <1>1 DEF Mapped
<1>3. t \in Seq(T)
  BY <1>1, <1>2, SeqDef
<1>4. Len(t) = Len(s)
  BY <1>1, <1>2, <1>3, LenProperties
<1>5. t = <<>> <=> s = <<>>
  BY <1>3, <1>4, EmptySeq
<1> QED BY <1>1, <1>2, <1>3, <1>4, <1>5 DEF ToSet

(***************************************************************************)
(* FlattenSeq puts the sequences it is given one after the other.          *)
(***************************************************************************)
LEMMA FlattenRuns ==
  ASSUME NEW T, NEW seqs \in Seq(Seq(T)), seqs # <<>>
  PROVE  \E r \in [1 .. Len(seqs) -> Seq(T)] :
           /\ r[1] = seqs[1]
           /\ \A k \in 2 .. Len(seqs) : r[k] = r[k - 1] \o seqs[k]
           /\ FlattenSeq(seqs) = r[Len(seqs)]
<1> DEFINE N == Len(seqs)
           R == Seq(T)
           f == [x \in R \X Nat |-> IF x[2] + 2 <= N THEN x[1] \o seqs[x[2] + 2] ELSE x[1]]
<1>1. /\ N \in Nat \ {0} /\ seqs \in [1 .. N -> R]
  BY LenProperties, EmptySeq
<1>2. f \in [R \X Nat -> R]
  <2> SUFFICES ASSUME NEW x \in R, NEW n \in Nat
               PROVE  (IF n + 2 <= N THEN x \o seqs[n + 2] ELSE x) \in R
    OBVIOUS
  <2>1. n + 2 <= N => seqs[n + 2] \in R
    BY <1>1
  <2> QED BY <2>1, ConcatProperties
<1>3. \A x \in R, n \in Nat : f[<<x, n>>] = IF n + 2 <= N THEN x \o seqs[n + 2] ELSE x
  OBVIOUS
<1> HIDE DEF f
<1>4. PICK g \in [Nat -> R] : Recurs(g, seqs[1], f)
  <2>1. seqs[1] \in R
    BY <1>1
  <2> HIDE DEF R
  <2> QED BY <1>2, <2>1, Recursion
<1> DEFINE F(h) == [i \in 1 .. N |-> IF i = 1 THEN seqs[i] ELSE h[i - 1] \o seqs[i]]
           p == [i \in 1 .. N |-> g[i - 1]]
<1> HIDE DEF N
<1>5. p = F(p)
  <2>0. p[1] = seqs[1]
    BY <1>1, <1>4 DEF Recurs
  <2> SUFFICES ASSUME NEW i \in 1 .. N, i # 1
               PROVE  p[i] = p[i - 1] \o seqs[i]
    <3> HIDE DEF p
    <3>1. \A i \in 1 .. N : p[i] = IF i = 1 THEN seqs[i] ELSE p[i - 1] \o seqs[i]
      BY <2>0
    <3>2. p = [i \in 1 .. N |-> p[i]]
      BY DEF p
    <3> QED BY <3>1, <3>2
  <2>1. i - 1 \in 1 .. N /\ i - 2 \in Nat /\ (i - 2) + 1 = i - 1 /\ (i - 2) + 2 = i /\ i <= N
    BY <1>1
  <2>2. p[i] = g[i - 1] /\ p[i - 1] = g[i - 2]
    BY <1>1, <2>1
  <2>3. g[i - 1] = f[<<g[i - 2], i - 2>>] /\ g[i - 2] \in R
    BY <1>4, <2>1 DEF Recurs
  <2>4. f[<<g[i - 2], i - 2>>] = g[i - 2] \o seqs[i]
    <3> DEFINE n == i - 2
    <3>1. n \in Nat /\ n + 2 = i /\ n + 2 <= N /\ g[n] \in R
      BY <2>1, <2>3
    <3> HIDE DEF n
    <3>2. f[<<g[n], n>>] = g[n] \o seqs[i]
      BY <1>3, <3>1
    <3> QED BY <3>2 DEF n
  <2> QED BY <2>2, <2>3, <2>4
<1>6. FlattenSeq(seqs) = (CHOOSE h : h = F(h))[N]
  BY <1>1 DEF FlattenSeq, N
<1> DEFINE h == CHOOSE h : h = F(h)
<1> HIDE DEF p
<1>7. h = F(h) /\ FlattenSeq(seqs) = h[N]
  BY <1>5, <1>6
<1> HIDE DEF h
<1>8. h[1] = seqs[1] /\ \A k \in 2 .. N : h[k] = h[k - 1] \o seqs[k]
  <2>1. ASSUME NEW k \in 1 .. N
        PROVE  h[k] = IF k = 1 THEN seqs[k] ELSE h[k - 1] \o seqs[k]
    BY <1>7, Zenon
  <2> HIDE DEF F, R
  <2>2. 1 \in 1 .. N /\ \A k \in 2 .. N : k \in 1 .. N /\ k # 1
    BY <1>1
  <2> QED BY <2>1, <2>2, Zenon
<1> HIDE DEF F
<1> DEFINE S == {k \in Nat : k + 1 <= N => h[k + 1] \in R}
<1>9. 0 \in S
  BY <1>1, <1>8
<1>10. ASSUME NEW k \in Nat, k \in S
       PROVE  k + 1 \in S
  <2> SUFFICES ASSUME (k + 1) + 1 <= N PROVE h[(k + 1) + 1] \in R
    OBVIOUS
  <2>1. h[k + 1] \in R /\ (k + 1) + 1 \in 2 .. N /\ ((k + 1) + 1) - 1 = k + 1
    BY <1>1, <1>10
  <2> DEFINE m == (k + 1) + 1
  <2>2. m \in 2 .. N /\ m \in 1 .. N /\ m - 1 = k + 1
    BY <1>1, <2>1
  <2> HIDE DEF m
  <2>3. h[m] = h[m - 1] \o seqs[m] /\ seqs[m] \in R
    BY <1>1, <1>8, <2>2
  <2>4. h[m] \in R
    BY <2>1, <2>2, <2>3, ConcatProperties
  <2> QED BY <2>4 DEF m
<1>11. \A k \in 1 .. N : h[k] \in R
  <2> HIDE DEF S
  <2>1. Nat \subseteq S
    BY <1>9, <1>10, Induction
  <2> TAKE k \in 1 .. N
  <2>2. k - 1 \in S /\ (k - 1) + 1 = k /\ k <= N
    BY <1>1, <2>1
  <2> QED BY <2>2 DEF S
<1> DEFINE r == [k \in 1 .. N |-> h[k]]
<1>12. r \in [1 .. N -> R]
  BY <1>11
<1>13. r[1] = seqs[1] /\ r[N] = FlattenSeq(seqs)
  BY <1>1, <1>7, <1>8
<1>14. ASSUME NEW k \in 2 .. N
       PROVE  r[k] = r[k - 1] \o seqs[k]
  <2>1. k \in 1 .. N /\ k - 1 \in 1 .. N
    BY <1>1
  <2>2. r[k] = h[k] /\ r[k - 1] = h[k - 1]
    BY <2>1
  <2> QED BY <1>8, <2>2
<1> HIDE DEF r
<1> QED BY <1>12, <1>13, <1>14 DEF N

LEMMA FlattenFacts ==
  ASSUME NEW T, NEW seqs \in Seq(Seq(T))
  PROVE  /\ FlattenSeq(seqs) \in Seq(T)
         /\ ToSet(FlattenSeq(seqs)) = UNION {ToSet(s) : s \in ToSet(seqs)}
<1>1. CASE seqs = <<>>
  <2>1. FlattenSeq(seqs) = <<>> /\ ToSet(seqs) = {}
    BY <1>1 DEF FlattenSeq, ToSet
  <2> QED BY <1>1, <2>1, EmptySeq
<1>2. CASE seqs # <<>>
  <2> DEFINE N == Len(seqs)
  <2>1. N \in Nat \ {0} /\ seqs \in [1 .. N -> Seq(T)] /\ DOMAIN seqs = 1 .. N
    BY <1>2, LenProperties, EmptySeq
  <2>2. PICK r \in [1 .. N -> Seq(T)] : /\ r[1] = seqs[1]
                                        /\ \A k \in 2 .. N : r[k] = r[k - 1] \o seqs[k]
                                        /\ FlattenSeq(seqs) = r[N]
    BY <1>2, FlattenRuns
  <2> HIDE DEF N
  <2> DEFINE All(k) == UNION {ToSet(seqs[i]) : i \in 1 .. k}
             S == {k \in Nat : k + 1 <= N => ToSet(r[k + 1]) = All(k + 1)}
  <2>3. 0 \in S
    <3>1. All(0 + 1) = ToSet(seqs[1]) /\ 0 + 1 = 1
      OBVIOUS
    <3> QED BY <2>2, <3>1
  <2>4. ASSUME NEW k \in Nat, k \in S
        PROVE  k + 1 \in S
    <3> SUFFICES ASSUME (k + 1) + 1 <= N PROVE ToSet(r[(k + 1) + 1]) = All((k + 1) + 1)
      OBVIOUS
    <3> DEFINE m == (k + 1) + 1
    <3>1. /\ k + 1 \in 1 .. N /\ m \in 2 .. N /\ m \in 1 .. N /\ m - 1 = k + 1
      BY <2>1
    <3>2. ToSet(r[k + 1]) = All(k + 1)
      <4> HIDE DEF All
      <4>1. k + 1 <= N
        BY <2>1
      <4> QED BY <2>4, <4>1
    <3>3. r[m] = r[k + 1] \o seqs[m] /\ r[k + 1] \in Seq(T) /\ seqs[m] \in Seq(T)
      BY <2>1, <2>2, <3>1
    <3>4. ToSet(r[m]) = ToSet(r[k + 1]) \cup ToSet(seqs[m])
      <4> HIDE DEF m, All, S
      <4> QED BY <3>3, ConcatFacts
    <3>5. All(m) = All(k + 1) \cup ToSet(seqs[m])
      <4>1. \A i : i \in 1 .. m <=> i \in 1 .. k + 1 \/ i = m
        BY <3>1
      <4> HIDE DEF m
      <4> QED BY <4>1
    <3> QED BY <3>2, <3>4, <3>5
  <2>5. Nat \subseteq S
    <3> HIDE DEF S
    <3> QED BY <2>3, <2>4, Induction
  <2>6. N - 1 \in Nat /\ (N - 1) + 1 = N /\ N \in 1 .. N
    BY <2>1
  <2>7. ToSet(r[N]) = All(N) /\ r[N] \in Seq(T)
    <3>1. N - 1 \in S
      <4> HIDE DEF S
      <4> QED BY <2>5, <2>6
    <3> HIDE DEF All
    <3> QED BY <2>1, <2>2, <2>6, <3>1
  <2>8. All(N) = UNION {ToSet(s) : s \in ToSet(seqs)}
    <3>1. ToSet(seqs) = {seqs[i] : i \in 1 .. N}
      BY <2>1 DEF ToSet
    <3> QED BY <3>1
  <2> QED BY <2>2, <2>7, <2>8
<1> QED BY <1>1, <1>2

(***************************************************************************)
(* The least of some integers, and the first of the least.                 *)
(***************************************************************************)
LEMMA LeastInSeq ==
  ASSUME NEW s \in Seq(Int), s # <<>>
  PROVE  \E i \in 1 .. Len(s) : \A j \in 1 .. Len(s) : s[i] <= s[j]
<1> DEFINE N == Len(s)
<1>1. N \in Nat \ {0} /\ \A i \in 1 .. N : s[i] \in Int
  BY LenProperties, EmptySeq
<1> HIDE DEF N
<1> DEFINE S == {k \in Nat : k + 1 <= N =>
                   \E i \in 1 .. k + 1 : \A j \in 1 .. k + 1 : s[i] <= s[j]}
<1>2. 0 \in S
  BY <1>1
<1>3. ASSUME NEW k \in Nat, k \in S
      PROVE  k + 1 \in S
  <2> SUFFICES ASSUME (k + 1) + 1 <= N
               PROVE  \E i \in 1 .. (k + 1) + 1 : \A j \in 1 .. (k + 1) + 1 : s[i] <= s[j]
    OBVIOUS
  <2>1. PICK i \in 1 .. k + 1 : \A j \in 1 .. k + 1 : s[i] <= s[j]
    BY <1>1, <1>3
  <2> DEFINE m == (k + 1) + 1
  <2>2. i \in 1 .. m /\ m \in 1 .. m /\ \A j \in 1 .. m : j \in 1 .. k + 1 \/ j = m
    OBVIOUS
  <2>3. \A j \in 1 .. m : s[j] \in Int
    BY <1>1
  <2> HIDE DEF m
  <2>4. CASE s[i] <= s[m]
    <3>1. \A j \in 1 .. m : s[i] <= s[j]
      BY <2>1, <2>2, <2>4
    <3> QED BY <2>2, <3>1 DEF m
  <2>5. CASE ~(s[i] <= s[m])
    <3>1. \A j \in 1 .. m : s[m] <= s[j]
      BY <2>1, <2>2, <2>3, <2>5
    <3> QED BY <2>2, <3>1 DEF m
  <2> QED BY <2>4, <2>5
<1>4. Nat \subseteq S
  <2> HIDE DEF S
  <2> QED BY <1>2, <1>3, Induction
<1>5. N - 1 \in S /\ (N - 1) + 1 = N
  <2> HIDE DEF S
  <2> QED BY <1>1, <1>4
<1>6. \E i \in 1 .. (N - 1) + 1 : \A j \in 1 .. (N - 1) + 1 : s[i] <= s[j]
  BY <1>1, <1>5
<1> HIDE DEF S
<1> QED BY <1>5, <1>6 DEF N

LEMMA MinOfSeq ==
  ASSUME NEW s \in Seq(Int), s # <<>>
  PROVE  Min(ToSet(s)) \in ToSet(s) /\ \A x \in ToSet(s) : Min(ToSet(s)) <= x
<1>1. PICK i \in 1 .. Len(s) : \A j \in 1 .. Len(s) : s[i] <= s[j]
  BY LeastInSeq
<1>2. DOMAIN s = 1 .. Len(s)
  BY LenProperties
<1>3. s[i] \in ToSet(s) /\ \A x \in ToSet(s) : s[i] <= x
  BY <1>1, <1>2 DEF ToSet
<1> QED BY <1>3 DEF Min

LEMMA MinOfIndices ==
  ASSUME NEW S, S \subseteq Nat, S # {}
  PROVE  Min(S) \in S /\ \A x \in S : Min(S) <= x
<1>1. \E m \in S : \A k \in S : m <= k
  BY LeastNatural
<1> QED BY <1>1 DEF Min
=============================================================================
