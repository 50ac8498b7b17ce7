-------------------------- MODULE WasmHost_proofs ---------------------------
(***************************************************************************)
(* Theorems about the wasm host, for any tasks, requests, modules, tiers,  *)
(* limits and budget: the pool's counters and reservations, what the pool  *)
(* hands out, and what an invocation reports.                              *)
(*                                                                         *)
(* None of the three is inductive.  HostInv adds what they rest on: an     *)
(* idle instance is alive and clean because a call gives back only one     *)
(* that is dead or that its taint says has met nothing (CallOK); between   *)
(* two calls on a pin, taint_seen covers what its instance has met, until  *)
(* one of them is dropped (PinOK); and a pin counts among the promised     *)
(* from its reservation to its release.  The sums over idle instances and  *)
(* over pins are recursive functions, so what one step does to them is     *)
(* proved first: SizeOf of a sequence cut in two, SumFunction with one     *)
(* element less.                                                           *)
(***************************************************************************)
EXTENDS WasmHost, FiniteSetTheorems, WellFoundedInduction, TLAPS

-----------------------------------------------------------------------------
(* Sums                                                                     *)

Below == {p \in Nat \X Nat : p[1] < p[2]}

LEMMA LeastExists ==
  ASSUME NEW T, T \subseteq Nat, T # {}
  PROVE  \E x \in T : \A y \in T : x <= y
<1>1. IsWellFoundedOn(Below, Nat)
  BY NatLessThanWellFounded, Zenon DEF OpToRel, Below
<1>2. PICK x \in T : \A y \in T : ~(<<y, x>> \in Below)
  BY <1>1, WFMin, Zenon
<1>3. \A a, b \in Nat : a < b => <<a, b>> \in Below
  BY Zenon DEF Below
<1>4. \A y \in T : ~(y < x)
  BY <1>2, <1>3, ZenonT(30)
<1> QED BY <1>4

Keys           == {KeyOf(r) : r \in CallArgs}
Instances      == [key : Keys, size : Nat, dead : BOOLEAN, exposed : BOOLEAN]
CleanInstances == [key : Keys, size : Nat, dead : {FALSE}, exposed : {FALSE}]

LEMMA InstanceSize ==
  ASSUME NEW s \in Seq(CleanInstances), NEW n \in 1..Len(s)
  PROVE  s[n] \in CleanInstances /\ s[n].size \in Nat
<1>1. s[n] \in CleanInstances
  OBVIOUS
<1> QED BY <1>1, Zenon DEF CleanInstances

\* f[n] is the size of the first n instances, up to m.
Counts(f, s, m) ==
  /\ f \in [0..m -> Nat] /\ f[0] = 0
  /\ \A n \in 1..m : f[n] = f[n - 1] + s[n].size

LEMMA CountsExist ==
  ASSUME NEW s \in Seq(CleanInstances), NEW k \in 0..Len(s)
  PROVE  \E f : Counts(f, s, k)
<1> DEFINE T == {m \in 0..Len(s) : ~\E f : Counts(f, s, m)}
<1>1. SUFFICES ASSUME T # {} PROVE FALSE
  BY Zenon
<1>2. PICK m \in T : \A y \in T : m <= y
  <2>1. T \subseteq Nat
    OBVIOUS
  <2> HIDE DEF T
  <2> QED BY <1>1, <2>1, LeastExists, Zenon
<1>3. m \in 0..Len(s) /\ ~\E f : Counts(f, s, m)
  BY Zenon
<1>4. m # 0
  <2>1. Counts([n \in 0..0 |-> 0], s, 0)
    BY DEF Counts
  <2> QED BY <1>3, <2>1, Zenon
<1>5. m - 1 \in 0..Len(s) /\ m - 1 \notin T
  BY <1>2, <1>3, <1>4
<1>6. PICK f : Counts(f, s, m - 1)
  BY <1>5, Zenon
<1> DEFINE g == [n \in 0..m |-> IF n = m THEN f[m - 1] + s[m].size ELSE f[n]]
<1>7. s[m].size \in Nat /\ f \in [0..(m - 1) -> Nat] /\ f[m - 1] \in Nat
  <2>1. m \in 1..Len(s) /\ m - 1 \in 0..(m - 1)
    BY <1>3, <1>4
  <2>2. f \in [0..(m - 1) -> Nat]
    BY <1>6, Zenon DEF Counts
  <2> QED BY <2>1, <2>2, InstanceSize, Zenon
<1>8. g \in [0..m -> Nat] /\ g[0] = 0
  BY <1>3, <1>4, <1>6, <1>7 DEF Counts
<1>9. \A n \in 1..m : g[n] = g[n - 1] + s[n].size
  BY <1>3, <1>4, <1>6, <1>7 DEF Counts
<1> HIDE DEF g
<1> QED BY <1>3, <1>8, <1>9, Zenon DEF Counts

LEMMA SizeCounts ==
  ASSUME NEW s \in Seq(CleanInstances), NEW f, Counts(f, s, Len(s))
  PROVE  SizeOf(s) = f[Len(s)]
<1> DEFINE next(h) == [n \in 0..Len(s) |-> IF n = 0 THEN 0 ELSE h[n - 1] + s[n].size]
           h == CHOOSE h : h = next(h)
<1>1. f = next(f)
  BY DEF Counts
<1>2. h = next(h)
  <2> HIDE DEF next
  <2> QED BY <1>1, Zenon
<1>3. SizeOf(s) = h[Len(s)]
  BY Zenon DEF SizeOf
<1>4. h[0] = 0 /\ DOMAIN h = 0..Len(s) /\ \A n \in 1..Len(s) : h[n] = h[n - 1] + s[n].size
  <2> HIDE DEF h
  <2> QED BY <1>2
<1> HIDE DEF h, next
<1> DEFINE T == {n \in 0..Len(s) : f[n] # h[n]}
<1>5. T = {}
  <2>1. SUFFICES ASSUME T # {} PROVE FALSE
    BY Zenon
  <2>2. PICK n \in T : \A y \in T : n <= y
    <3>1. T \subseteq Nat
      OBVIOUS
    <3> HIDE DEF T
    <3> QED BY <2>1, <3>1, LeastExists, Zenon
  <2>3. n \in 0..Len(s) /\ f[n] # h[n]
    BY Zenon
  <2>4. n # 0
    BY <1>4, <2>3, Zenon DEF Counts
  <2>5. n - 1 \in 0..Len(s) /\ f[n - 1] = h[n - 1] /\ n \in 1..Len(s)
    BY <2>2, <2>3, <2>4
  <2> QED BY <1>4, <2>3, <2>5, Zenon DEF Counts
<1> QED BY <1>3, <1>5

LEMMA SizeOfBoth ==
  ASSUME NEW s \in Seq(CleanInstances), NEW t \in Seq(CleanInstances)
  PROVE  SizeOf(s \o t) = SizeOf(s) + SizeOf(t) /\ SizeOf(s) \in Nat /\ SizeOf(t) \in Nat
<1>1. PICK f : Counts(f, s, Len(s))
  BY CountsExist
<1>2. PICK g : Counts(g, t, Len(t))
  BY CountsExist
<1>3. SizeOf(s) = f[Len(s)] /\ SizeOf(t) = g[Len(t)]
  BY <1>1, <1>2, SizeCounts, Zenon
<1>4. f \in [0..Len(s) -> Nat] /\ g \in [0..Len(t) -> Nat] /\ Len(s) \in Nat /\ Len(t) \in Nat
  BY <1>1, <1>2 DEF Counts
<1> DEFINE h == [n \in 0..(Len(s) + Len(t)) |-> IF n <= Len(s) THEN f[n] ELSE f[Len(s)] + g[n - Len(s)]]
<1>5. h \in [0..(Len(s) + Len(t)) -> Nat] /\ h[0] = 0
  BY <1>1, <1>4 DEF Counts
<1>6. ASSUME NEW n \in 1..(Len(s) + Len(t)) PROVE h[n] = h[n - 1] + (s \o t)[n].size
  <2>1. CASE n <= Len(s)
    <3>1. (s \o t)[n] = s[n] /\ f[n] = f[n - 1] + s[n].size
      BY <1>1, <1>4, <2>1 DEF Counts
    <3> QED BY <1>4, <2>1, <3>1
  <2>2. CASE n > Len(s)
    <3>1. n - Len(s) \in 1..Len(t) /\ (s \o t)[n] = t[n - Len(s)]
      BY <1>4, <2>2
    <3>2. g[n - Len(s)] = g[n - Len(s) - 1] + t[n - Len(s)].size /\ g[0] = 0
      BY <1>2, <3>1, Zenon DEF Counts
    <3>3. CASE n - 1 = Len(s)
      <4>1. n - Len(s) - 1 = 0 /\ h[n - 1] = f[Len(s)] /\ h[n] = f[Len(s)] + g[n - Len(s)]
        BY <1>4, <2>2, <3>3
      <4>2. g[n - Len(s)] = (s \o t)[n].size
        <5>1. t[n - Len(s)].size \in Nat
          BY <3>1, InstanceSize, Zenon
        <5>2. g[n - Len(s) - 1] = 0
          BY <3>2, <4>1, Zenon
        <5> HIDE DEF h
        <5> QED BY <3>1, <3>2, <5>1, <5>2
      <4> QED BY <4>1, <4>2, Zenon
    <3>4. CASE n - 1 # Len(s)
      <4>1. /\ h[n - 1] = f[Len(s)] + g[n - 1 - Len(s)] /\ h[n] = f[Len(s)] + g[n - Len(s)]
            /\ n - 1 - Len(s) = n - Len(s) - 1
        BY <1>4, <2>2, <3>4
      <4>2. g[n - Len(s) - 1] \in Nat /\ f[Len(s)] \in Nat
        <5>1. n - Len(s) - 1 \in 0..Len(t) /\ Len(s) \in 0..Len(s)
          BY <1>4, <3>1
        <5> QED BY <1>4, <5>1, Zenon
      <4>3. t[n - Len(s)].size \in Nat
        BY <3>1, InstanceSize, Zenon
      <4>4. h[n - 1] = f[Len(s)] + g[n - Len(s) - 1]
        BY <4>1, Zenon
      <4>5. h[n] = f[Len(s)] + (g[n - Len(s) - 1] + t[n - Len(s)].size)
        BY <3>2, <4>1, Zenon
      <4> HIDE DEF h
      <4> QED BY <3>1, <4>2, <4>3, <4>4, <4>5, SMTT(20)
    <3> QED BY <3>3, <3>4, Zenon
  <2> QED BY <1>4, <2>1, <2>2
<1>7. h[Len(s) + Len(t)] = f[Len(s)] + g[Len(t)]
  <2>1. CASE Len(t) = 0
    <3>1. g[Len(t)] = 0 /\ h[Len(s) + Len(t)] = f[Len(s)]
      BY <1>2, <1>4, <2>1 DEF Counts
    <3>2. Len(s) \in 0..Len(s)
      BY <1>4
    <3>3. f[Len(s)] \in Nat
      BY <1>4, <3>2, Zenon
    <3> HIDE DEF h
    <3> QED BY <3>1, <3>3
  <2>2. CASE Len(t) # 0
    BY <1>4, <2>2
  <2> QED BY <2>1, <2>2, Zenon
<1> HIDE DEF h
<1>8. s \o t \in Seq(CleanInstances) /\ Len(s \o t) = Len(s) + Len(t)
  OBVIOUS
<1>9. Counts(h, s \o t, Len(s \o t))
  BY <1>5, <1>6, <1>8, Zenon DEF Counts
<1>10. SizeOf(s \o t) = h[Len(s) + Len(t)]
  BY <1>8, <1>9, SizeCounts, Zenon
<1> QED BY <1>3, <1>4, <1>7, <1>10

LEMMA SizeOfNone == SizeOf(<<>>) = 0
<1>1. Counts([n \in 0..0 |-> 0], <<>>, Len(<<>>)) /\ <<>> \in Seq(CleanInstances)
  BY DEF Counts
<1>2. SizeOf(<<>>) = [n \in 0..0 |-> 0][Len(<<>>)]
  BY <1>1, SizeCounts, Zenon
<1> QED BY <1>2

LEMMA SizeOfOne ==
  ASSUME NEW x \in CleanInstances
  PROVE  SizeOf(<<x>>) = x.size
<1> DEFINE f == [n \in 0..1 |-> IF n = 0 THEN 0 ELSE x.size]
<1>1. x.size \in Nat /\ <<x>> \in Seq(CleanInstances) /\ Len(<<x>>) = 1
  <2>1. x.size \in Nat
    BY Zenon DEF CleanInstances
  <2> QED BY <2>1
<1>2. f \in [0..1 -> Nat] /\ f[0] = 0 /\ f[1] = x.size
  BY <1>1
<1> HIDE DEF f
<1>3. \A n \in 1..1 : f[n] = f[n - 1] + <<x>>[n].size
  BY <1>1, <1>2
<1>4. Counts(f, <<x>>, Len(<<x>>))
  BY <1>1, <1>2, <1>3, Zenon DEF Counts
<1>5. SizeOf(<<x>>) = f[Len(<<x>>)]
  BY <1>1, <1>4, SizeCounts, Zenon
<1> QED BY <1>1, <1>2, <1>5, Zenon

\* f[T] is the sum of w over T, for each T up to n elements of S.
Pick(T) == CHOOSE x \in T : TRUE
Few(S, n) == {T \in SUBSET S : Cardinality(T) <= n}
Tallies(f, w, D) ==
  /\ f \in [D -> Nat] /\ f[{}] = 0
  /\ \A T \in D : T # {} => f[T] = w[Pick(T)] + f[T \ {Pick(T)}]

LEMMA OneLess ==
  ASSUME NEW S, IsFiniteSet(S), NEW T \in SUBSET S, NEW x \in T
  PROVE  /\ T \ {x} \in SUBSET S /\ Cardinality(T) \in Nat /\ Cardinality(T \ {x}) \in Nat
         /\ Cardinality(T \ {x}) = Cardinality(T) - 1
<1>1. IsFiniteSet(T)
  BY FS_Subset, Zenon
<1>2. Cardinality(T \ {x}) = Cardinality(T) - 1 /\ IsFiniteSet(T \ {x})
  BY <1>1, FS_RemoveElement, Zenon
<1> QED BY <1>1, <1>2, FS_CardinalityType, Zenon

LEMMA PickIn == \A T : T # {} => Pick(T) \in T
BY Zenon DEF Pick

LEMMA TalliesExist ==
  ASSUME NEW S, IsFiniteSet(S), NEW w \in [S -> Nat], NEW k \in Nat
  PROVE  \E f : Tallies(f, w, Few(S, k))
<1>0. {} \in SUBSET S /\ Cardinality({}) = 0 /\ \A T \in SUBSET S : IsFiniteSet(T) /\ Cardinality(T) \in Nat
  BY FS_Subset, FS_EmptySet, FS_CardinalityType, Zenon
<1> DEFINE Bad == {n \in Nat : ~\E f : Tallies(f, w, Few(S, n))}
<1>1. SUFFICES ASSUME Bad # {} PROVE FALSE
  BY Zenon
<1>2. PICK n \in Bad : \A y \in Bad : n <= y
  <2>1. Bad \subseteq Nat
    BY Zenon
  <2> HIDE DEF Bad
  <2> QED BY <1>1, <2>1, LeastExists, Zenon
<1>3. n \in Nat /\ ~\E f : Tallies(f, w, Few(S, n))
  BY Zenon
<1>4. n # 0
  <2>1. SUFFICES ASSUME n = 0 PROVE FALSE
    BY Zenon
  <2>2. \A T \in Few(S, 0) : T = {}
    <3>1. \A T \in Few(S, 0) : T \in SUBSET S /\ Cardinality(T) = 0
      BY <1>0 DEF Few
    <3> QED BY <1>0, <3>1, FS_EmptySet, Zenon
  <2>3. {} \in Few(S, 0)
    BY <1>0 DEF Few
  <2>4. Tallies([T \in Few(S, 0) |-> 0], w, Few(S, 0))
    BY <2>2, <2>3, Zenon DEF Tallies
  <2> QED BY <1>3, <2>1, <2>4, Zenon
<1>5. PICK f : Tallies(f, w, Few(S, n - 1))
  <2>1. n - 1 \in Nat /\ n - 1 \notin Bad
    BY <1>2, <1>3, <1>4
  <2> QED BY <2>1, Zenon
<1> HIDE DEF Bad
<1> DEFINE g == [T \in Few(S, n) |-> IF T \in Few(S, n - 1) THEN f[T] ELSE w[Pick(T)] + f[T \ {Pick(T)}]]
<1>6. ASSUME NEW T \in Few(S, n), T # {}
      PROVE  T \ {Pick(T)} \in Few(S, n - 1) /\ Pick(T) \in S
  <2>1. Pick(T) \in T /\ T \in SUBSET S /\ Cardinality(T) <= n
    BY <1>6, PickIn, Zenon DEF Few
  <2>2. T \ {Pick(T)} \in SUBSET S /\ Cardinality(T \ {Pick(T)}) <= n - 1
    BY <1>3, <2>1, OneLess
  <2> QED BY <2>1, <2>2, Zenon DEF Few
<1>7. {} \in Few(S, n - 1) /\ Few(S, n - 1) \subseteq Few(S, n)
  <2>1. {} \in Few(S, n - 1)
    BY <1>0, <1>3, <1>4 DEF Few
  <2>2. ASSUME NEW T \in Few(S, n - 1) PROVE T \in Few(S, n)
    <3>1. T \in SUBSET S /\ Cardinality(T) <= n - 1 /\ Cardinality(T) \in Nat
      BY <1>0, <2>2, Zenon DEF Few
    <3> QED BY <1>3, <3>1 DEF Few
  <2> QED BY <2>1, <2>2, Zenon
<1>8. f \in [Few(S, n - 1) -> Nat] /\ f[{}] = 0
  BY <1>5, Zenon DEF Tallies
<1>9. ASSUME NEW T \in Few(S, n) PROVE g[T] \in Nat
  <2>1. CASE T \in Few(S, n - 1)
    BY <1>8, <2>1, Zenon
  <2>2. CASE T \notin Few(S, n - 1)
    <3>1. T # {}
      BY <1>7, <2>2, Zenon
    <3>2. w[Pick(T)] \in Nat /\ f[T \ {Pick(T)}] \in Nat
      BY <1>6, <1>8, <3>1, Zenon
    <3> QED BY <2>2, <3>2
  <2> QED BY <2>1, <2>2, Zenon
<1>10. ASSUME NEW T \in Few(S, n), T # {} PROVE g[T] = w[Pick(T)] + g[T \ {Pick(T)}]
  <2>1. g[T \ {Pick(T)}] = f[T \ {Pick(T)}]
    BY <1>6, <1>7, <1>10, Zenon
  <2>2. CASE T \in Few(S, n - 1)
    <3>1. g[T] = f[T] /\ f[T] = w[Pick(T)] + f[T \ {Pick(T)}]
      BY <1>5, <1>10, <2>2, Zenon DEF Tallies
    <3> QED BY <2>1, <3>1, Zenon
  <2>3. CASE T \notin Few(S, n - 1)
    BY <2>1, <2>3, Zenon
  <2> QED BY <2>2, <2>3, Zenon
<1>11. g[{}] = 0 /\ g \in [Few(S, n) -> Nat]
  BY <1>7, <1>8, <1>9, Zenon
<1> HIDE DEF g
<1> QED BY <1>3, <1>10, <1>11, Zenon DEF Tallies

LEMMA TallyExists ==
  ASSUME NEW S, IsFiniteSet(S), NEW w \in [S -> Nat]
  PROVE  \E f : Tallies(f, w, SUBSET S)
<1>1. Cardinality(S) \in Nat
  BY FS_CardinalityType, Zenon
<1>2. \A T \in SUBSET S : Cardinality(T) <= Cardinality(S)
  BY FS_Subset, Zenon
<1>3. Few(S, Cardinality(S)) = SUBSET S
  BY <1>2, Zenon DEF Few
<1>4. \E f : Tallies(f, w, Few(S, Cardinality(S)))
  BY <1>1, TalliesExist, Zenon
<1> QED BY <1>3, <1>4, Zenon

\* What holds of the smallest set it could fail for holds of all of them.
LEMMA SmallestSet ==
  ASSUME NEW S, IsFiniteSet(S), NEW Bad \in SUBSET SUBSET S, Bad # {}
  PROVE  \E T \in Bad : \A x \in T : T \ {x} \in SUBSET S /\ T \ {x} \notin Bad
<1> DEFINE Sizes == {Cardinality(T) : T \in Bad}
<1>1. \A T \in Bad : T \in SUBSET S /\ Cardinality(T) \in Nat
  BY FS_Subset, FS_CardinalityType, Zenon
<1>2. PICK n \in Sizes : \A y \in Sizes : n <= y
  <2>1. Sizes \subseteq Nat /\ Sizes # {}
    BY <1>1, Zenon
  <2> HIDE DEF Sizes
  <2> QED BY <2>1, LeastExists, Zenon
<1>3. PICK T \in Bad : n = Cardinality(T)
  BY Zenon
<1>4. ASSUME NEW x \in T PROVE T \ {x} \in SUBSET S /\ T \ {x} \notin Bad
  <2>1. /\ T \ {x} \in SUBSET S /\ Cardinality(T) \in Nat /\ Cardinality(T \ {x}) = Cardinality(T) - 1
    BY <1>1, OneLess, Zenon
  <2>2. T \ {x} \in Bad => n <= Cardinality(T \ {x})
    BY <1>2, Zenon
  <2> QED BY <1>3, <2>1, <2>2
<1> QED BY <1>4, Zenon

\* g is a sum of v wherever it is asked, v and w are the same, f and g are the same, f[T] leaves x out first.
AddsUp(g, v, R) == g[{}] = 0 /\ \A T \in SUBSET R : T # {} => g[T] = v[Pick(T)] + g[T \ {Pick(T)}]
SameOn(v, w, S) == \A x \in S : v[x] = w[x]
SplitsAt(f, w, T, x) == f[T] = w[x] + f[T \ {x}]

LEMMA TalliesAgree ==
  ASSUME NEW R, IsFiniteSet(R), NEW S \in SUBSET R, NEW w \in [S -> Nat], NEW v, SameOn(v, w, S),
         NEW f, Tallies(f, w, SUBSET S), NEW g, AddsUp(g, v, R)
  PROVE  SameOn(f, g, SUBSET S)
<1> DEFINE Bad == {T \in SUBSET S : f[T] # g[T]}
<1>1. SUFFICES ASSUME Bad # {} PROVE FALSE
  BY Zenon DEF SameOn
<1>2. PICK T \in Bad : \A x \in T : T \ {x} \in SUBSET S /\ T \ {x} \notin Bad
  <2>1. IsFiniteSet(S) /\ Bad \in SUBSET SUBSET S
    BY FS_Subset, Zenon
  <2> HIDE DEF Bad
  <2> QED BY <1>1, <2>1, SmallestSet, Zenon
<1>3. T \in SUBSET S /\ T \in SUBSET R /\ f[T] # g[T]
  BY Zenon
<1>4. T # {}
  BY <1>3, Zenon DEF Tallies, AddsUp
<1>5. Pick(T) \in T /\ Pick(T) \in S
  BY <1>3, <1>4, PickIn, Zenon
<1>6. f[T \ {Pick(T)}] = g[T \ {Pick(T)}]
  BY <1>2, <1>5, Zenon
<1>7. f[T] = w[Pick(T)] + f[T \ {Pick(T)}] /\ g[T] = v[Pick(T)] + g[T \ {Pick(T)}]
  BY <1>3, <1>4, Zenon DEF Tallies, AddsUp
<1>8. v[Pick(T)] = w[Pick(T)]
  BY <1>5, Zenon DEF SameOn
<1> QED BY <1>3, <1>6, <1>7, <1>8, Zenon

\* A sum may leave out any of its elements first.
LEMMA TallyWithout ==
  ASSUME NEW S, IsFiniteSet(S), NEW w \in [S -> Nat], NEW f, Tallies(f, w, SUBSET S)
  PROVE  \A T \in SUBSET S : \A x \in T : SplitsAt(f, w, T, x)
<1> DEFINE Bad == {T \in SUBSET S : \E x \in T : ~SplitsAt(f, w, T, x)}
<1>1. SUFFICES ASSUME Bad # {} PROVE FALSE
  BY Zenon
<1>2. PICK T \in Bad : \A x \in T : T \ {x} \in SUBSET S /\ T \ {x} \notin Bad
  <2>1. Bad \in SUBSET SUBSET S
    BY Zenon
  <2> HIDE DEF Bad
  <2> QED BY <1>1, <2>1, SmallestSet, Zenon
<1>3. T \in SUBSET S
  BY Zenon
<1>4. PICK x \in T : ~SplitsAt(f, w, T, x)
  BY Zenon
<1>5. \A y \in T : \A z \in T \ {y} : SplitsAt(f, w, T \ {y}, z)
  BY <1>2, Zenon
<1> HIDE DEF Bad
<1> DEFINE y == Pick(T)
<1>6. y \in T /\ SplitsAt(f, w, T, y)
  BY <1>3, PickIn, Zenon DEF Tallies, SplitsAt
<1> HIDE DEF y
<1>7. x \in T \ {y} /\ y \in T \ {x}
  BY <1>4, <1>6, Zenon
<1>8. SplitsAt(f, w, T \ {y}, x) /\ SplitsAt(f, w, T \ {x}, y)
  BY <1>5, <1>6, <1>7, Zenon
<1>9. (T \ {y}) \ {x} = (T \ {x}) \ {y} /\ (T \ {x}) \ {y} \in SUBSET S /\ x \in S /\ y \in S
  BY <1>3, <1>6, Zenon
<1> DEFINE r == f[(T \ {x}) \ {y}]
           a == w[x]
           b == w[y]
<1>10. a \in Nat /\ b \in Nat /\ r \in Nat
  BY <1>9, Zenon DEF Tallies
<1>11. f[T \ {y}] = a + r /\ f[T \ {x}] = b + r /\ f[T] = b + f[T \ {y}] /\ f[T] # a + f[T \ {x}]
  BY <1>4, <1>6, <1>8, <1>9, Zenon DEF SplitsAt
<1> HIDE DEF r, a, b
<1>12. b + (a + r) = a + (b + r)
  BY <1>10
<1> QED BY <1>11, <1>12, Zenon

LEMMA SumIsTally ==
  ASSUME NEW S, IsFiniteSet(S), NEW w \in [S -> Nat], NEW f, Tallies(f, w, SUBSET S)
  PROVE  SumFunction(w) = f[S]
<1> DEFINE next(h) == [T \in SUBSET S |-> IF T = {} THEN 0 ELSE w[Pick(T)] + h[T \ {Pick(T)}]]
           h == CHOOSE h : h = next(h)
<1>1. f = next(f)
  BY Zenon DEF Tallies
<1>2. h = next(h)
  <2> HIDE DEF next
  <2> QED BY <1>1, Zenon
<1>3. SumFunction(w) = h[S]
  BY Zenon DEF SumFunction, SumFunctionOnSet, FoldFunctionOnSet, MapThenFoldSet, Pick
<1>4. AddsUp(h, w, S)
  <2> HIDE DEF h
  <2> QED BY <1>2, Zenon DEF AddsUp
<1> HIDE DEF h, next
<1>5. S \in SUBSET S /\ SameOn(w, w, S)
  BY Zenon DEF SameOn
<1>6. SameOn(f, h, SUBSET S)
  BY <1>4, <1>5, TalliesAgree, Zenon
<1>7. f[S] = h[S]
  BY <1>5, <1>6, Zenon DEF SameOn
<1> QED BY <1>3, <1>7, Zenon

LEMMA SumWithout ==
  ASSUME NEW S, IsFiniteSet(S), NEW w \in [S -> Nat], NEW x \in S
  PROVE  /\ SumFunction(w) \in Nat
         /\ SumFunction(w) = w[x] + SumFunction([y \in S \ {x} |-> w[y]])
         /\ SumFunction([y \in S \ {x} |-> w[y]]) \in Nat
<1> DEFINE v == [y \in S \ {x} |-> w[y]]
<1>0. IsFiniteSet(S \ {x}) /\ v \in [S \ {x} -> Nat] /\ S \ {x} \in SUBSET S /\ S \in SUBSET S
  BY FS_RemoveElement, Zenon
<1>1. SameOn(w, v, S \ {x})
  BY Zenon DEF SameOn
<1> HIDE DEF v
<1>2. PICK f : Tallies(f, w, SUBSET S)
  BY TallyExists, Zenon
<1>3. PICK g : Tallies(g, v, SUBSET (S \ {x}))
  BY <1>0, TallyExists, Zenon
<1>4. SumFunction(w) = f[S] /\ SumFunction(v) = g[S \ {x}]
  BY <1>0, <1>2, <1>3, SumIsTally, Zenon
<1>5. SplitsAt(f, w, S, x)
  BY <1>0, <1>2, TallyWithout, Zenon
<1>6. AddsUp(f, w, S)
  BY <1>2, Zenon DEF Tallies, AddsUp
<1>7. SameOn(g, f, SUBSET (S \ {x}))
  BY <1>0, <1>1, <1>3, <1>6, TalliesAgree, Zenon
<1>8. g[S \ {x}] = f[S \ {x}]
  BY <1>0, <1>7, Zenon DEF SameOn
<1>9. f[S] \in Nat /\ f[S \ {x}] \in Nat /\ w[x] \in Nat
  BY <1>0, <1>2, Zenon DEF Tallies
<1> QED BY <1>4, <1>5, <1>8, <1>9, Zenon DEF SplitsAt, v

-----------------------------------------------------------------------------
(* The pool                                                                 *)

Pools == [idle : Seq(CleanInstances), count : Nat, bytes : Nat, reserved : Nat, closed : BOOLEAN]

\* The counters say what is idle.
Counted(p) == p \in Pools /\ p.count = Len(p.idle) /\ p.bytes = SizeOf(p.idle)

PoolOK(p) == Counted(p) /\ p.bytes <= EvictableBudget(p)

LEMMA BudgetLeft ==
  ASSUME NEW p \in Pools
  PROVE  /\ EvictableBudget(p) \in Nat /\ EvictableBudget(p) >= Budget - p.reserved
         /\ p.reserved < Budget => EvictableBudget(p) = Budget - p.reserved
         /\ p.reserved >= Budget => EvictableBudget(p) = 0
<1>1. p.reserved \in Nat
  BY Zenon DEF Pools
<1> QED BY <1>1, PoolConstants DEF EvictableBudget, Monus

LEMMA IdleSize ==
  ASSUME NEW s \in Seq(CleanInstances)
  PROVE  SizeOf(s) \in Nat
BY SizeOfBoth, Zenon

LEMMA SameSeq ==
  ASSUME NEW S, NEW s \in Seq(S), NEW t \in Seq(S), Len(s) = Len(t), \A i \in 1..Len(s) : s[i] = t[i]
  PROVE  s = t
OBVIOUS

\* A queue cut in two.
LEMMA CutAt ==
  ASSUME NEW s \in Seq(CleanInstances), NEW n \in 0..Len(s)
  PROVE  /\ SubSeq(s, 1, n) \in Seq(CleanInstances) /\ SubSeq(s, n + 1, Len(s)) \in Seq(CleanInstances)
         /\ Len(SubSeq(s, 1, n)) = n /\ Len(SubSeq(s, n + 1, Len(s))) = Len(s) - n
         /\ s = SubSeq(s, 1, n) \o SubSeq(s, n + 1, Len(s))
         /\ SizeOf(s) = SizeOf(SubSeq(s, 1, n)) + SizeOf(SubSeq(s, n + 1, Len(s)))
         /\ SizeOf(SubSeq(s, 1, n)) \in Nat /\ SizeOf(SubSeq(s, n + 1, Len(s))) \in Nat
<1> DEFINE a == SubSeq(s, 1, n)
           b == SubSeq(s, n + 1, Len(s))
<1>1. a \in Seq(CleanInstances) /\ b \in Seq(CleanInstances) /\ Len(a) = n /\ Len(b) = Len(s) - n
  OBVIOUS
<1>2. s = a \o b
  <2>2. \A i \in 1..n : a[i] = s[i]
    OBVIOUS
  <2>3. \A i \in 1..(Len(s) - n) : b[i] = s[n + i]
    OBVIOUS
  <2> HIDE DEF a, b
  <2>1. a \o b \in Seq(CleanInstances) /\ Len(a \o b) = Len(s) /\ Len(s) \in Nat
    BY <1>1
  <2>4. ASSUME NEW i \in 1..Len(s) PROVE s[i] = (a \o b)[i]
    <3>1. CASE i <= n
      BY <1>1, <2>1, <2>2, <3>1
    <3>2. CASE i > n
      <4>1. i - n \in 1..(Len(s) - n) /\ n + (i - n) = i
        BY <2>1, <3>2
      <4>2. (a \o b)[i] = b[i - n]
        BY <1>1, <2>1, <3>2
      <4> QED BY <2>3, <4>1, <4>2, Zenon
    <3> QED BY <2>1, <3>1, <3>2
  <2> QED BY <2>1, <2>4, SameSeq, Zenon
<1> HIDE DEF a, b
<1>3. SizeOf(a \o b) = SizeOf(a) + SizeOf(b) /\ SizeOf(a) \in Nat /\ SizeOf(b) \in Nat
  BY <1>1, SizeOfBoth, Zenon
<1> QED BY <1>1, <1>2, <1>3, Zenon DEF a, b

\* detach_oldest, n times.
LEMMA DetachCounts ==
  ASSUME NEW p, Counted(p), NEW n \in 0..Len(p.idle)
  PROVE  /\ Counted(Detach(p, n)) /\ Detach(p, n).closed = p.closed /\ Detach(p, n).reserved = p.reserved
         /\ Detach(p, n).bytes = p.bytes - SizeOf(SubSeq(p.idle, 1, n)) /\ Detach(p, n).bytes <= p.bytes
<1> DEFINE a == SubSeq(p.idle, 1, n)
           b == SubSeq(p.idle, n + 1, Len(p.idle))
<1>1. /\ p \in Pools /\ p.count = Len(p.idle) /\ p.bytes = SizeOf(p.idle) /\ p.idle \in Seq(CleanInstances)
      /\ p.count \in Nat
  BY Zenon DEF Counted, Pools
<1>2. /\ b \in Seq(CleanInstances) /\ Len(b) = Len(p.idle) - n /\ SizeOf(p.idle) = SizeOf(a) + SizeOf(b)
      /\ SizeOf(a) \in Nat /\ SizeOf(b) \in Nat
  BY <1>1, CutAt, Zenon
<1>3. Detach(p, n) = [p EXCEPT !.idle = b, !.count = p.count - n, !.bytes = p.bytes - SizeOf(a)]
  BY <1>1, Zenon DEF Detach, Pools
<1> HIDE DEF a, b
<1>4. p.count - n = Len(b) /\ p.count - n \in Nat /\ p.bytes - SizeOf(a) = SizeOf(b) /\ SizeOf(b) <= p.bytes
  BY <1>1, <1>2
<1>5. Detach(p, n) = [p EXCEPT !.idle = b, !.count = Len(b), !.bytes = SizeOf(b)]
  BY <1>3, <1>4, Zenon
<1>6. /\ Detach(p, n) \in Pools /\ Detach(p, n).idle = b /\ Detach(p, n).count = Len(b) /\ Detach(p, n).bytes = SizeOf(b)
      /\ Detach(p, n).closed = p.closed /\ Detach(p, n).reserved = p.reserved
  BY <1>1, <1>2, <1>4, <1>5, Zenon DEF Pools
<1> QED BY <1>4, <1>6, Zenon DEF Counted, a

\* evict_locked ends with the idle bytes inside what the reservations leave.
LEMMA EvictFits ==
  ASSUME NEW p, Counted(p)
  PROVE  /\ PoolOK(EvictLocked(p))
         /\ EvictLocked(p).closed = p.closed /\ EvictLocked(p).reserved = p.reserved
<1> DEFINE enough == {n \in 0..Len(p.idle) : p.bytes - SizeOf(SubSeq(p.idle, 1, n)) <= EvictableBudget(p)}
<1>1. p \in Pools /\ p.bytes = SizeOf(p.idle) /\ p.idle \in Seq(CleanInstances) /\ Len(p.idle) \in 0..Len(p.idle)
  BY DEF Counted, Pools
<1>2. Len(p.idle) \in enough
  <2>1. SubSeq(p.idle, 1, Len(p.idle)) = p.idle
    BY <1>1
  <2>2. p.bytes \in Nat /\ EvictableBudget(p) \in Nat
    BY <1>1, BudgetLeft, IdleSize, Zenon
  <2>3. p.bytes - SizeOf(SubSeq(p.idle, 1, Len(p.idle))) <= EvictableBudget(p)
    <3>1. SizeOf(SubSeq(p.idle, 1, Len(p.idle))) = p.bytes
      BY <1>1, <2>1, Zenon
    <3> QED BY <2>2, <3>1
  <2> QED BY <1>1, <2>3, Zenon
<1>3. Min(enough) \in enough
  <2>1. enough \subseteq Nat /\ enough # {}
    BY <1>2
  <2> HIDE DEF enough
  <2> QED BY <2>1, LeastExists, Zenon DEF Min
<1>4. EvictLocked(p) = Detach(p, Min(enough))
  BY <1>2, Zenon DEF EvictLocked
<1>5. Min(enough) \in 0..Len(p.idle) /\ p.bytes - SizeOf(SubSeq(p.idle, 1, Min(enough))) <= EvictableBudget(p)
  BY <1>3, Zenon
<1> HIDE DEF enough
<1> DEFINE q == Detach(p, Min(enough))
<1>6. Counted(q) /\ q.closed = p.closed /\ q.reserved = p.reserved /\ q.bytes <= EvictableBudget(p)
  BY <1>5, DetachCounts, Zenon
<1>7. EvictableBudget(q) = EvictableBudget(p)
  BY <1>6, Zenon DEF EvictableBudget
<1> QED BY <1>4, <1>6, <1>7, Zenon DEF PoolOK

LEMMA ReserveFits ==
  ASSUME NEW p, PoolOK(p), NEW k \in Nat
  PROVE  PoolOK(Reserve(p, k)) /\ Reserve(p, k).reserved = p.reserved + k
<1> DEFINE q == [p EXCEPT !.reserved = p.reserved + k]
<1>1. p \in Pools /\ p.count = Len(p.idle) /\ p.bytes = SizeOf(p.idle)
  BY Zenon DEF PoolOK, Counted
<1>2. /\ q \in Pools /\ q.idle = p.idle /\ q.count = p.count /\ q.bytes = p.bytes /\ q.reserved = p.reserved + k
  BY <1>1 DEF Pools
<1>3. Reserve(p, k) = EvictLocked(q)
  BY Zenon DEF Reserve
<1> HIDE DEF q
<1>4. Counted(q)
  BY <1>1, <1>2, Zenon DEF Counted
<1> QED BY <1>2, <1>3, <1>4, EvictFits, Zenon

LEMMA UnreserveFits ==
  ASSUME NEW p, PoolOK(p), NEW k \in Nat
  PROVE  /\ PoolOK(Unreserve(p, k)) /\ Unreserve(p, k).reserved = Monus(p.reserved, k)
         /\ Unreserve(p, k).reserved + k >= p.reserved /\ Unreserve(p, k).reserved >= 0
<1> DEFINE q == [p EXCEPT !.reserved = Monus(p.reserved, k)]
<1>1. p \in Pools /\ p.count = Len(p.idle) /\ p.bytes = SizeOf(p.idle) /\ p.bytes <= EvictableBudget(p)
  BY Zenon DEF PoolOK, Counted
<1>2. p.reserved \in Nat /\ p.bytes \in Nat
  BY <1>1, Zenon DEF Pools
<1>3. Monus(p.reserved, k) \in Nat /\ Monus(p.reserved, k) <= p.reserved /\ Monus(p.reserved, k) + k >= p.reserved
  BY <1>2 DEF Monus
<1>4. /\ q \in Pools /\ q.idle = p.idle /\ q.count = p.count /\ q.bytes = p.bytes
      /\ q.reserved = Monus(p.reserved, k)
  BY <1>1, <1>3, Zenon DEF Pools
<1>5. Unreserve(p, k) = q
  BY Zenon DEF Unreserve
<1> HIDE DEF q
<1>6. EvictableBudget(p) <= EvictableBudget(q)
  BY <1>2, <1>3, <1>4, PoolConstants DEF EvictableBudget, Monus
<1>7. EvictableBudget(p) \in Nat /\ EvictableBudget(q) \in Nat
  BY <1>1, <1>4, BudgetLeft, Zenon
<1>8. q.bytes <= EvictableBudget(q)
  BY <1>1, <1>2, <1>4, <1>6, <1>7
<1>9. Counted(q)
  BY <1>1, <1>4, Zenon DEF Counted
<1> QED BY <1>3, <1>4, <1>5, <1>8, <1>9 DEF PoolOK

\* A bounded set of numbers has a largest.
LEMMA GreatestExists ==
  ASSUME NEW m \in Nat, NEW T, T \subseteq 1..m, T # {}
  PROVE  \E x \in T : \A y \in T : x >= y
<1> DEFINE D == {m - y : y \in T}
<1>1. D \subseteq Nat /\ D # {}
  <2>1. \A y \in T : m - y \in Nat
    OBVIOUS
  <2> QED BY <2>1, Zenon
<1>2. PICK d \in D : \A e \in D : d <= e
  <2> HIDE DEF D
  <2> QED BY <1>1, LeastExists, Zenon
<1>3. PICK x \in T : d = m - x
  BY Zenon
<1>4. \A y \in T : m - x <= m - y
  BY <1>2, <1>3, Zenon
<1> QED BY <1>3, <1>4

\* Taking one instance out of a queue.
LEMMA TakeOut ==
  ASSUME NEW s \in Seq(CleanInstances), NEW i \in 1..Len(s)
  PROVE  /\ Without(s, i) \in Seq(CleanInstances) /\ Len(Without(s, i)) = Len(s) - 1
         /\ SizeOf(s) = SizeOf(Without(s, i)) + s[i].size
         /\ SizeOf(Without(s, i)) \in Nat /\ s[i].size \in Nat
<1> DEFINE a == SubSeq(s, 1, i - 1)
           b == SubSeq(s, i + 1, Len(s))
           c == SubSeq(s, i, Len(s))
<1>1. i - 1 \in 0..Len(s) /\ (i - 1) + 1 = i /\ Len(s) \in Nat
  OBVIOUS
<1>2. /\ a \in Seq(CleanInstances) /\ c \in Seq(CleanInstances) /\ Len(a) = i - 1 /\ Len(c) = Len(s) - (i - 1)
      /\ SizeOf(s) = SizeOf(a) + SizeOf(c) /\ SizeOf(a) \in Nat /\ SizeOf(c) \in Nat
  <2>1. c = SubSeq(s, (i - 1) + 1, Len(s))
    BY <1>1, Zenon
  <2> HIDE DEF c
  <2> QED BY <1>1, <2>1, CutAt, Zenon
<1>3. 1 \in 0..Len(c) /\ SubSeq(c, 1, 1) = <<s[i]>> /\ SubSeq(c, 1 + 1, Len(c)) = b
  <2>1. 1 \in 0..Len(c)
    BY <1>2
  <2>2. SubSeq(c, 1, 1) = <<s[i]>>
    <3>1. c[1] = s[i]
      BY <1>1
    <3> HIDE DEF c
    <3> DEFINE u == SubSeq(c, 1, 1)
               v == <<c[1]>>
    <3>2. /\ u \in Seq(CleanInstances) /\ v \in Seq(CleanInstances) /\ Len(u) = 1 /\ Len(v) = 1
          /\ u[1] = c[1] /\ v[1] = c[1]
      <4>1. c \in Seq(CleanInstances) /\ 1 \in 1..Len(c) /\ c[1] \in CleanInstances
        BY <1>2, <2>1
      <4> QED BY <4>1
    <3> HIDE DEF u, v
    <3>3. u = v
      BY <3>2, SameSeq
    <3>4. SubSeq(c, 1, 1) = <<c[1]>>
      BY <3>3, Zenon DEF u, v
    <3> QED BY <3>1, <3>4, Zenon
  <2>3. SubSeq(c, 1 + 1, Len(c)) = b
    OBVIOUS
  <2> QED BY <2>1, <2>2, <2>3, Zenon
<1>4. s[i] \in CleanInstances /\ s[i].size \in Nat
  BY InstanceSize, Zenon
<1> HIDE DEF c
<1>5. /\ b \in Seq(CleanInstances) /\ Len(b) = Len(c) - 1 /\ SizeOf(c) = SizeOf(<<s[i]>>) + SizeOf(b)
      /\ SizeOf(b) \in Nat
  BY <1>2, <1>3, CutAt, ZenonT(40)
<1>6. SizeOf(<<s[i]>>) = s[i].size
  BY <1>4, SizeOfOne, Zenon
<1>7. Without(s, i) = a \o b
  BY Zenon DEF Without
<1> HIDE DEF a, b
<1>8. SizeOf(a \o b) = SizeOf(a) + SizeOf(b)
  BY <1>2, <1>5, SizeOfBoth, Zenon
<1>9. a \o b \in Seq(CleanInstances) /\ Len(a \o b) = Len(a) + Len(b)
  <2>1. a \in Seq(CleanInstances) /\ b \in Seq(CleanInstances)
    BY <1>2, <1>5, Zenon
  <2> QED BY <2>1
<1>10. Len(a \o b) = Len(s) - 1
  BY <1>1, <1>2, <1>5, <1>9
<1>11. SizeOf(s) = SizeOf(a \o b) + s[i].size /\ SizeOf(a \o b) \in Nat
  <2> DEFINE A == SizeOf(a)
             B == SizeOf(b)
             z == s[i].size
  <2>1. SizeOf(s) = A + SizeOf(c) /\ SizeOf(c) = z + B /\ SizeOf(a \o b) = A + B
    BY <1>2, <1>5, <1>6, <1>8, Zenon
  <2>2. A \in Nat /\ B \in Nat /\ z \in Nat
    BY <1>2, <1>4, <1>5, Zenon
  <2> HIDE DEF A, B, z
  <2>3. A + (z + B) = (A + B) + z /\ A + B \in Nat
    BY <2>2
  <2> QED BY <2>1, <2>3, Zenon DEF z
<1> QED BY <1>4, <1>7, <1>9, <1>10, <1>11, Zenon

LEMMA TakeWarmFits ==
  ASSUME NEW p, PoolOK(p), NEW key, WarmFor(p, key) # {}
  PROVE  /\ PoolOK(TakeWarm(p, key).pool) /\ TakeWarm(p, key).pool.reserved = p.reserved
         /\ TakeWarm(p, key).inst \in CleanInstances /\ TakeWarm(p, key).inst.key = key
<1> DEFINE at == Max(WarmFor(p, key))
           q  == [p EXCEPT !.idle = Without(p.idle, at), !.count = p.count - 1, !.bytes = p.bytes - p.idle[at].size]
<1>1. /\ p \in Pools /\ p.count = Len(p.idle) /\ p.bytes = SizeOf(p.idle) /\ p.bytes <= EvictableBudget(p)
      /\ p.idle \in Seq(CleanInstances) /\ Len(p.idle) \in Nat
  BY Zenon DEF PoolOK, Counted, Pools
<1>2. at \in WarmFor(p, key)
  <2>1. WarmFor(p, key) \subseteq 1..Len(p.idle)
    BY <1>1 DEF WarmFor
  <2> QED BY <1>1, <2>1, GreatestExists, Zenon DEF Max
<1>3. at \in 1..Len(p.idle) /\ p.idle[at].key = key
  <2>1. DOMAIN p.idle = 1..Len(p.idle)
    BY <1>1
  <2>2. at \in DOMAIN p.idle /\ p.idle[at].key = key
    BY <1>2, Zenon DEF WarmFor
  <2> QED BY <2>1, <2>2, Zenon
<1>4. TakeWarm(p, key).inst = p.idle[at] /\ TakeWarm(p, key).pool = q
  BY Zenon DEF TakeWarm
<1> HIDE DEF at
<1>5. /\ Without(p.idle, at) \in Seq(CleanInstances) /\ Len(Without(p.idle, at)) = Len(p.idle) - 1
      /\ SizeOf(p.idle) = SizeOf(Without(p.idle, at)) + p.idle[at].size
      /\ SizeOf(Without(p.idle, at)) \in Nat /\ p.idle[at].size \in Nat
  BY <1>1, <1>3, TakeOut, Zenon
<1>6. p.count - 1 = Len(Without(p.idle, at)) /\ p.bytes - p.idle[at].size = SizeOf(Without(p.idle, at))
      /\ p.count - 1 \in Nat /\ SizeOf(Without(p.idle, at)) <= p.bytes
  BY <1>1, <1>3, <1>5
<1>7. /\ q \in Pools /\ q.idle = Without(p.idle, at) /\ q.count = p.count - 1 /\ q.bytes = p.bytes - p.idle[at].size
      /\ q.reserved = p.reserved
  BY <1>1, <1>5, <1>6, Zenon DEF Pools
<1> HIDE DEF q
<1>8. EvictableBudget(q) = EvictableBudget(p) /\ EvictableBudget(p) \in Nat
  BY <1>1, <1>7, BudgetLeft, Zenon DEF EvictableBudget
<1>9. q.bytes <= EvictableBudget(q)
  BY <1>1, <1>5, <1>6, <1>7, <1>8
<1>10. p.idle[at] \in CleanInstances
  BY <1>1, <1>3, InstanceSize, Zenon
<1> QED BY <1>3, <1>4, <1>6, <1>7, <1>9, <1>10, Zenon DEF PoolOK, Counted

LEMMA ReleaseFits ==
  ASSUME NEW p, PoolOK(p), NEW x \in Instances, ~x.dead => ~x.exposed
  PROVE  PoolOK(Release(p, x)) /\ Release(p, x).reserved = p.reserved
<1>1. CASE x.dead \/ p.closed
  BY <1>1, Zenon DEF Release
<1>2. CASE ~x.dead /\ ~p.closed
  <2> DEFINE q == [p EXCEPT !.idle = Append(p.idle, x), !.count = p.count + 1, !.bytes = p.bytes + x.size]
  <2>1. /\ p \in Pools /\ p.count = Len(p.idle) /\ p.bytes = SizeOf(p.idle) /\ p.idle \in Seq(CleanInstances)
        /\ p.count \in Nat /\ p.bytes \in Nat
    BY Zenon DEF PoolOK, Counted, Pools
  <2>2. x \in CleanInstances /\ x.size \in Nat
    BY <1>2, Zenon DEF Instances, CleanInstances
  <2>3. /\ Append(p.idle, x) \in Seq(CleanInstances) /\ Len(Append(p.idle, x)) = Len(p.idle) + 1
        /\ <<x>> \in Seq(CleanInstances)
    BY <2>1, <2>2
  <2>4. Append(p.idle, x) = p.idle \o <<x>>
    <3>1. p.idle \in Seq(CleanInstances) /\ x \in CleanInstances
      BY <2>1, <2>2, Zenon
    <3> QED BY <3>1
  <2>5. SizeOf(Append(p.idle, x)) = SizeOf(p.idle) + x.size
    BY <2>1, <2>2, <2>3, <2>4, SizeOfBoth, SizeOfOne, Zenon
  <2>6. p.bytes + x.size \in Nat /\ p.count + 1 \in Nat
    BY <2>1, <2>2
  <2>7. /\ q \in Pools /\ q.idle = Append(p.idle, x) /\ q.count = p.count + 1 /\ q.bytes = p.bytes + x.size
        /\ q.reserved = p.reserved
    BY <2>1, <2>3, <2>6, Zenon DEF Pools
  <2>8. Release(p, x) = EvictLocked(q)
    BY <1>2, Zenon DEF Release
  <2> HIDE DEF q
  <2>9. Counted(q)
    BY <2>1, <2>3, <2>5, <2>7, Zenon DEF Counted
  <2> QED BY <2>7, <2>8, <2>9, EvictFits, Zenon
<1> QED BY <1>1, <1>2, Zenon

LEMMA SweepFits ==
  ASSUME NEW p, PoolOK(p), NEW n \in 1..Len(p.idle)
  PROVE  PoolOK(Sweep(p, n)) /\ Sweep(p, n).reserved = p.reserved
<1>1. CASE p.closed
  BY <1>1, Zenon DEF Sweep
<1>2. CASE ~p.closed
  <2> DEFINE q == Detach(p, n)
  <2>1. Counted(p) /\ p \in Pools /\ p.bytes <= EvictableBudget(p) /\ p.idle \in Seq(CleanInstances) /\ p.bytes \in Nat
    BY Zenon DEF PoolOK, Counted, Pools
  <2>2. n \in 0..Len(p.idle)
    BY <2>1
  <2>3. Counted(q) /\ q.reserved = p.reserved /\ q.bytes <= p.bytes
    BY <2>1, <2>2, DetachCounts, Zenon
  <2>4. EvictableBudget(q) = EvictableBudget(p) /\ EvictableBudget(p) \in Nat
    BY <2>1, <2>3, BudgetLeft, Zenon DEF EvictableBudget
  <2>5. q.bytes \in Nat
    BY <2>3, Zenon DEF Counted, Pools
  <2> HIDE DEF q
  <2>6. q.bytes <= EvictableBudget(q)
    BY <2>1, <2>3, <2>4, <2>5
  <2> QED BY <1>2, <2>3, <2>6, Zenon DEF Sweep, PoolOK, q
<1> QED BY <1>1, <1>2, Zenon

LEMMA CloseAllFits ==
  ASSUME NEW p, PoolOK(p)
  PROVE  PoolOK(CloseAll(p)) /\ CloseAll(p).reserved = p.reserved
<1> DEFINE q == CloseAll(p)
<1>1. p \in Pools
  BY Zenon DEF PoolOK, Counted
<1>2. q \in Pools /\ q.idle = <<>> /\ q.count = 0 /\ q.bytes = 0 /\ q.reserved = p.reserved
  <2>1. <<>> \in Seq(CleanInstances)
    OBVIOUS
  <2> QED BY <1>1, <2>1, Zenon DEF CloseAll, Pools
<1> HIDE DEF q
<1>3. Len(<<>>) = 0 /\ SizeOf(<<>>) = 0 /\ EvictableBudget(q) >= 0
  BY <1>2, SizeOfNone, BudgetLeft
<1>4. q.bytes <= EvictableBudget(q)
  BY <1>2, <1>3, BudgetLeft, Zenon
<1> QED BY <1>2, <1>3, <1>4, Zenon DEF PoolOK, Counted, q

LEMMA EmptyPoolFits == PoolOK(EmptyPool)
<1> DEFINE q == EmptyPool
<1>1. q \in Pools /\ q.idle = <<>> /\ q.count = 0 /\ q.bytes = 0
  <2>1. <<>> \in Seq(CleanInstances)
    OBVIOUS
  <2> QED BY <2>1, Zenon DEF EmptyPool, Pools
<1> HIDE DEF q
<1>2. Len(<<>>) = 0 /\ SizeOf(<<>>) = 0
  BY SizeOfNone, Zenon
<1>3. q.bytes <= EvictableBudget(q)
  BY <1>1, BudgetLeft
<1> QED BY <1>1, <1>2, <1>3, Zenon DEF PoolOK, Counted, q

-----------------------------------------------------------------------------
(* The invariant of the host                                                *)

Pcs == {"new", "tier", "insert", "compile", "compiling", "ask", "check", "full", "parked", "slot",
        "instantiate", "held", "begin", "guest", "host", "unlease", "notify"}
Results     == [taint : BOOLEAN, exposed : BOOLEAN]
TaskRecords == [pc : Pcs, req : CallArgs \cup {Fresh.req}, inst : Instances \cup {NoInst}, lease : BOOLEAN,
                woken : BOOLEAN, taint : BOOLEAN, result : Results]

\* A call has an instance of its own key only while it runs, a clean one to
\* begin with, and its taint covers what the instance has met.
CallOK(k) ==
  /\ k.pc # "held"
  /\ k.pc \notin {"new", "tier", "insert", "compile", "compiling", "unlease", "notify"} => CheckModule(k.req)
  /\ k.pc = "begin" => ~k.inst.exposed
  /\ k.pc \in {"guest", "host"} => (k.inst.exposed => k.taint)
  /\ k.result.exposed => k.result.taint

\* While no call on the pin was dropped, what its instance has met is in the
\* taint of the call under way, or between calls in taint_seen (s).
PinOK(k, s, c) ==
  /\ k.pc = "held" /\ ~c => (k.inst.exposed => s)
  /\ k.pc \in {"begin", "guest", "host"} /\ ~c => (k.inst.exposed => k.taint)
  /\ ~(c /\ k.pc \in {"held", "begin"}) => (k.result.exposed => k.result.taint)

TaskOK(t, k, s, c) ==
  /\ k \in TaskRecords
  /\ k.pc # "new" => k.req \in CallArgs
  /\ k.pc \in {"held", "begin", "guest", "host"} => k.inst \in Instances /\ k.inst.key = KeyOf(k.req)
  /\ k.pc \notin {"held", "begin", "guest", "host"} => k.inst = NoInst
  /\ t \in CallTasks => CallOK(k)
  /\ t \in Pins => PinOK(k, s, c)

HostInv ==
  /\ PoolOK(pool)
  /\ task \in [Tasks -> TaskRecords] /\ seen \in [Pins -> BOOLEAN] /\ cut \in [Pins -> BOOLEAN]
  /\ \A t \in Tasks : TaskOK(t, task[t], seen[t], cut[t])
  /\ Promised \in Nat /\ pool.reserved >= Promised

\* A pin in one of these states relies on its reservation.
Owes(k) == k.pc \in {"instantiate", "held", "begin", "guest", "host"}

LEMMA WantsTypes ==
  ASSUME HostInv
  PROVE  /\ Promisees \subseteq Pins /\ IsFiniteSet(Promisees)
         /\ [t \in Promisees |-> PinnedWant(t)] \in [Promisees -> Nat]
<1>1. \A t \in Promisees : PinnedWant(t) \in Nat
  <2>1. \A t \in Promisees : t \in Tasks /\ task[t].pc # "new"
    BY Zenon DEF Promisees, Tasks
  <2>2. \A t \in Promisees : task[t].req \in CallArgs
    BY <2>1, Zenon DEF HostInv, TaskOK
  <2> QED BY <2>2, HostConstants, Zenon DEF PinnedWant
<1>2. Promisees \subseteq Pins
  BY Zenon DEF Promisees
<1>3. IsFiniteSet(Promisees)
  BY <1>2, HostConstants, FS_Subset, Zenon
<1> QED BY <1>1, <1>2, <1>3, Zenon

\* A sum and the sum with one more.
LEMMA SumWith ==
  ASSUME NEW S, IsFiniteSet(S), NEW x \in S, NEW w \in [S -> Nat], NEW R, R = S \ {x}, NEW v, v = [y \in R |-> w[y]]
  PROVE  SumFunction(w) = SumFunction(v) + w[x] /\ SumFunction(v) \in Nat /\ SumFunction(w) \in Nat
<1>1. /\ SumFunction(w) \in Nat /\ SumFunction(w) = w[x] + SumFunction(v) /\ SumFunction(v) \in Nat
  BY SumWithout
<1> QED BY <1>1

\* What is promised changes only by the one task that moves.
LEMMA PromisedStep ==
  ASSUME HostInv, NEW t \in Tasks, NEW k, k.pc # "new" => k.req \in CallArgs,
         task' = [task EXCEPT ![t] = k]
  PROVE  /\ Promised' \in Nat
         /\ (t \in CallTasks \/ ((Owes(k) <=> Owes(task[t])) /\ (Owes(k) => k.req = task[t].req))) => Promised' = Promised
         /\ (t \in Pins /\ Owes(k) /\ ~Owes(task[t])) => Promised' = Promised + k.req.pages
         /\ (t \in Pins /\ ~Owes(k) /\ Owes(task[t])) => Promised = Promised' + task[t].req.pages
<1> DEFINE w == [u \in Promisees |-> PinnedWant(u)]
           v == [u \in Promisees' |-> PinnedWant(u)']
<1>1. Promised = SumFunction(w) /\ Promised' = SumFunction(v) /\ Promised \in Nat
  BY Zenon DEF Promised, HostInv
<1>2. task'[t] = k /\ \A u \in Tasks : u # t => task'[u] = task[u]
  BY Zenon DEF HostInv
<1>3. /\ Promisees = {u \in Pins : Owes(task[u])} /\ Promisees' = {u \in Pins : Owes(task'[u])}
      /\ \A u \in Pins : u \in Tasks
  BY Zenon DEF Promisees, Owes, Tasks
<1>4. IsFiniteSet(Promisees) /\ w \in [Promisees -> Nat]
  BY WantsTypes, Zenon
<1>5. \A u : PinnedWant(u) = task[u].req.pages /\ PinnedWant(u)' = task'[u].req.pages
  BY Zenon DEF PinnedWant
<1>6. \A u \in Promisees' : PinnedWant(u)' \in Nat
  <2>1. \A u \in Tasks : Owes(task'[u]) => task'[u].req \in CallArgs
    BY <1>2, Zenon DEF HostInv, TaskOK, Owes
  <2> QED BY <1>3, <1>5, <2>1, HostConstants, Zenon
<1>7. IsFiniteSet(Promisees') /\ v \in [Promisees' -> Nat]
  <2>1. Promisees' \subseteq Pins
    BY <1>3, Zenon
  <2>2. IsFiniteSet(Promisees')
    BY <2>1, HostConstants, FS_Subset, Zenon
  <2> QED BY <1>6, <2>2, Zenon
<1> DEFINE same == t \in CallTasks \/ ((Owes(k) <=> Owes(task[t])) /\ (Owes(k) => k.req = task[t].req))
<1>8. ASSUME same PROVE Promised' = Promised
  <2>1. Promisees' = Promisees
    <3>1. ASSUME NEW u \in Pins PROVE Owes(task'[u]) <=> Owes(task[u])
      <4>1. CASE u = t
        BY <1>2, <1>8, <4>1, HostConstants, Zenon
      <4>2. CASE u # t
        BY <1>2, <1>3, <4>2, Zenon
      <4> QED BY <4>1, <4>2, Zenon
    <3> QED BY <1>3, <3>1, Zenon
  <2>2. \A u \in Promisees : PinnedWant(u)' = PinnedWant(u)
    <3>1. ASSUME NEW u \in Promisees PROVE task'[u].req = task[u].req
      <4>1. CASE u = t
        BY <1>2, <1>3, <1>8, <3>1, <4>1, HostConstants, Zenon
      <4>2. CASE u # t
        BY <1>2, <1>3, <3>1, <4>2, Zenon
      <4> QED BY <4>1, <4>2, Zenon
    <3> QED BY <1>5, <3>1, Zenon
  <2>3. v = w
    BY <2>1, <2>2, Zenon
  <2> QED BY <1>1, <2>3, Zenon
<1>9. ASSUME t \in Pins, Owes(k), ~Owes(task[t]) PROVE Promised' = Promised + k.req.pages
  <2>1. t \in Promisees' /\ Promisees = Promisees' \ {t}
    BY <1>2, <1>3, <1>9, Zenon
  <2>2. w = [u \in Promisees |-> v[u]] /\ v[t] = k.req.pages
    <3>1. \A u \in Promisees : PinnedWant(u)' = PinnedWant(u) /\ u \in Promisees'
      BY <1>2, <1>3, <1>5, <2>1, Zenon
    <3> QED BY <1>2, <1>5, <2>1, <3>1, Zenon
  <2> HIDE DEF w, v
  <2> QED BY <1>1, <1>7, <2>1, <2>2, SumWith
<1>10. ASSUME t \in Pins, ~Owes(k), Owes(task[t]) PROVE Promised = Promised' + task[t].req.pages
  <2>1. t \in Promisees /\ Promisees' = Promisees \ {t}
    BY <1>2, <1>3, <1>10, Zenon
  <2>2. v = [u \in Promisees' |-> w[u]] /\ w[t] = task[t].req.pages
    <3>1. \A u \in Promisees' : PinnedWant(u)' = PinnedWant(u) /\ u \in Promisees
      BY <1>2, <1>3, <1>5, <2>1, Zenon
    <3> QED BY <1>5, <2>1, <3>1, Zenon
  <2> HIDE DEF w, v
  <2> QED BY <1>1, <1>4, <2>1, <2>2, SumWith
<1>11. Promised' \in Nat
  <2>1. PICK f : Tallies(f, v, SUBSET (Promisees'))
    BY <1>7, TallyExists, Zenon
  <2>2. SumFunction(v) = f[Promisees'] /\ f[Promisees'] \in Nat
    <3> HIDE DEF v
    <3>1. SumFunction(v) = f[Promisees']
      BY <1>7, <2>1, SumIsTally, Zenon
    <3> QED BY <2>1, <3>1, Zenon DEF Tallies
  <2> QED BY <1>1, <2>2, Zenon
<1> QED BY <1>8, <1>9, <1>10, <1>11, Zenon

\* A step of one task keeps the invariant if the task's new record is in order
\* and the pool's reservations follow what the task now relies on.
LEMMA TaskStep ==
  ASSUME HostInv, NEW t \in Tasks, NEW k, task' = [task EXCEPT ![t] = k],
         seen' \in [Pins -> BOOLEAN], cut' \in [Pins -> BOOLEAN],
         \A u \in Pins : u # t => seen'[u] = seen[u] /\ cut'[u] = cut[u],
         TaskOK(t, k, seen'[t], cut'[t]), PoolOK(pool'),
         \/ /\ pool'.reserved = pool.reserved
            /\ t \in CallTasks \/ ~Owes(k) \/ (Owes(task[t]) /\ k.req = task[t].req)
         \/ t \in Pins /\ Owes(k) /\ ~Owes(task[t]) /\ pool'.reserved = pool.reserved + k.req.pages
         \/ t \in Pins /\ ~Owes(k) /\ Owes(task[t]) /\ pool'.reserved + task[t].req.pages >= pool.reserved
  PROVE  HostInv'
<1>1. task \in [Tasks -> TaskRecords] /\ k \in TaskRecords /\ (k.pc # "new" => k.req \in CallArgs)
  BY Zenon DEF HostInv, TaskOK
<1>2. task' \in [Tasks -> TaskRecords] /\ task'[t] = k /\ \A u \in Tasks : u # t => task'[u] = task[u]
  BY <1>1, Zenon
<1>3. ASSUME NEW u \in Tasks PROVE TaskOK(u, task'[u], seen'[u], cut'[u])
  <2>1. CASE u = t
    BY <1>2, <2>1, Zenon
  <2>2. CASE u # t
    <3>1. TaskOK(u, task[u], seen[u], cut[u]) /\ task'[u] = task[u]
      BY <1>2, <2>2, Zenon DEF HostInv
    <3>2. u \in Pins => seen'[u] = seen[u] /\ cut'[u] = cut[u]
      BY <2>2, Zenon
    <3> QED BY <3>1, <3>2, Zenon DEF TaskOK
  <2> QED BY <2>1, <2>2, Zenon
<1>4. /\ pool.reserved \in Nat /\ pool'.reserved \in Nat /\ pool.reserved >= Promised /\ Promised \in Nat
  BY Zenon DEF HostInv, PoolOK, Counted, Pools
<1>5. /\ Promised' \in Nat
      /\ (t \in CallTasks \/ ((Owes(k) <=> Owes(task[t])) /\ (Owes(k) => k.req = task[t].req))) => Promised' = Promised
      /\ (t \in Pins /\ Owes(k) /\ ~Owes(task[t])) => Promised' = Promised + k.req.pages
      /\ (t \in Pins /\ ~Owes(k) /\ Owes(task[t])) => Promised = Promised' + task[t].req.pages
  BY <1>1, PromisedStep, Zenon
<1>6. /\ Owes(k) => k.req.pages \in Nat
      /\ Owes(task[t]) => task[t].req.pages \in Nat
  <2>1. Owes(k) => k.req \in CallArgs
    BY <1>1, Zenon DEF Owes
  <2>2. Owes(task[t]) => task[t].req \in CallArgs
    BY Zenon DEF HostInv, TaskOK, Owes
  <2> QED BY <2>1, <2>2, HostConstants, Zenon
<1>7. pool'.reserved >= Promised'
  <2>0. t \in CallTasks \/ t \in Pins
    BY Zenon DEF Tasks
  <2>1. CASE Promised' = Promised /\ pool'.reserved = pool.reserved
    BY <1>4, <2>1, Zenon
  <2>2. CASE t \in Pins /\ ~Owes(k) /\ Owes(task[t]) /\ pool'.reserved = pool.reserved
    <3>1. Promised = Promised' + task[t].req.pages /\ task[t].req.pages \in Nat
      BY <1>5, <1>6, <2>2, Zenon
    <3> QED BY <1>4, <1>5, <2>2, <3>1
  <2>3. CASE t \in Pins /\ Owes(k) /\ ~Owes(task[t]) /\ pool'.reserved = pool.reserved + k.req.pages
    <3>1. Promised' = Promised + k.req.pages /\ k.req.pages \in Nat
      BY <1>5, <1>6, <2>3, Zenon
    <3> QED BY <1>4, <1>5, <2>3, <3>1
  <2>4. CASE t \in Pins /\ ~Owes(k) /\ Owes(task[t]) /\ pool'.reserved + task[t].req.pages >= pool.reserved
    <3>1. Promised = Promised' + task[t].req.pages /\ task[t].req.pages \in Nat
      BY <1>5, <1>6, <2>4, Zenon
    <3> QED BY <1>4, <1>5, <2>4, <3>1
  <2> QED BY <1>5, <2>0, <2>1, <2>2, <2>3, <2>4, Zenon
<1> QED BY <1>2, <1>3, <1>5, <1>7, Zenon DEF HostInv

LEMMA QuietStep ==
  ASSUME HostInv, NEW t \in Tasks, NEW k, task' = [task EXCEPT ![t] = k], UNCHANGED <<pool, seen, cut>>,
         TaskOK(t, k, seen[t], cut[t]), t \in CallTasks \/ ~Owes(k) \/ (Owes(task[t]) /\ k.req = task[t].req)
  PROVE  HostInv'
<1>1. /\ PoolOK(pool') /\ pool'.reserved = pool.reserved /\ seen' \in [Pins -> BOOLEAN] /\ cut' \in [Pins -> BOOLEAN]
      /\ TaskOK(t, k, seen'[t], cut'[t]) /\ \A u \in Pins : u # t => seen'[u] = seen[u] /\ cut'[u] = cut[u]
  BY Zenon DEF HostInv
<1> QED BY <1>1, TaskStep, Zenon

-----------------------------------------------------------------------------
(* The steps of one task                                                    *)

\* The states in which a task has no instance, and those a call reaches only once its imports were checked.
Bare    == {"tier", "insert", "compile", "compiling", "ask", "check", "full", "parked", "slot", "instantiate",
            "unlease", "notify"}
Checked == {"ask", "check", "full", "parked", "slot", "instantiate"}

\* A task that goes on without touching its request, instance, taint or result.
LEMMA MovesOn ==
  ASSUME NEW t, NEW r, NEW k \in TaskRecords, NEW s, NEW c, TaskOK(t, r, s, c), r.pc \in Bare, k.pc \in Bare,
         k.req = r.req, k.inst = r.inst, k.taint = r.taint, k.result = r.result,
         t \in CallTasks /\ k.pc \in Checked => r.pc \in Checked \/ CheckModule(r.req)
  PROVE  TaskOK(t, k, s, c)
<1>1. r.req \in CallArgs /\ r.inst = NoInst
  BY Zenon DEF TaskOK, Bare
<1>2. t \in CallTasks => CallOK(k)
  BY Zenon DEF TaskOK, CallOK, Bare, Checked
<1>3. t \in Pins => PinOK(k, s, c)
  BY Zenon DEF TaskOK, PinOK, Bare
<1> QED BY <1>1, <1>2, <1>3, Zenon DEF TaskOK, Bare

\* The records a step that moves on leaves.
Moved(r, p, k) ==
  \/ k = [r EXCEPT !.pc = p]
  \/ k = [r EXCEPT !.pc = p, !.woken = FALSE]
  \/ k = [r EXCEPT !.pc = p, !.lease = FALSE]
  \/ k = [r EXCEPT !.pc = p, !.lease = TRUE, !.woken = FALSE]

LEMMA MovedRecords ==
  ASSUME NEW r \in TaskRecords, NEW p \in Pcs, NEW k, Moved(r, p, k)
  PROVE  /\ k \in TaskRecords /\ k.pc = p
         /\ k.req = r.req /\ k.inst = r.inst /\ k.taint = r.taint /\ k.result = r.result
<1>1. CASE k = [r EXCEPT !.pc = p]
  BY <1>1, Zenon DEF TaskRecords
<1>2. CASE k = [r EXCEPT !.pc = p, !.woken = FALSE]
  BY <1>2, Zenon DEF TaskRecords
<1>3. CASE k = [r EXCEPT !.pc = p, !.lease = FALSE]
  BY <1>3, Zenon DEF TaskRecords
<1>4. CASE k = [r EXCEPT !.pc = p, !.lease = TRUE, !.woken = FALSE]
  BY <1>4, Zenon DEF TaskRecords
<1> QED BY <1>1, <1>2, <1>3, <1>4, Zenon DEF Moved

LEMMA GoesOn ==
  ASSUME HostInv, NEW t \in Tasks, NEW p \in Bare, NEW k, task' = [task EXCEPT ![t] = k], Moved(task[t], p, k),
         UNCHANGED <<pool, seen, cut>>, task[t].pc \in Bare,
         t \in CallTasks /\ p \in Checked => task[t].pc \in Checked \/ CheckModule(task[t].req),
         t \in Pins => p # "instantiate"
  PROVE  HostInv'
<1>1. task[t] \in TaskRecords /\ TaskOK(t, task[t], seen[t], cut[t]) /\ p \in Pcs
  BY Zenon DEF HostInv, Bare, Pcs
<1>2. /\ k \in TaskRecords /\ k.pc = p
      /\ k.req = task[t].req /\ k.inst = task[t].inst /\ k.taint = task[t].taint /\ k.result = task[t].result
  BY <1>1, MovedRecords
<1>3. TaskOK(t, k, seen[t], cut[t])
  BY <1>1, <1>2, MovesOn, Zenon
<1>4. t \in CallTasks \/ ~Owes(k)
  BY <1>2, Zenon DEF Owes, Bare, Tasks
<1> QED BY <1>3, <1>4, QuietStep, Zenon

LEMMA FreshRecord ==
  /\ Fresh \in TaskRecords /\ Fresh.pc = "new" /\ Fresh.inst = NoInst /\ Fresh.result = NoResult
  /\ NoResult \in Results /\ ~NoResult.exposed
<1>1. NoResult \in Results /\ ~NoResult.exposed
  BY Zenon DEF NoResult, Results
<1>2. Fresh \in TaskRecords
  BY <1>1, Zenon DEF Fresh, TaskRecords, Pcs
<1> QED BY <1>1, <1>2, Zenon DEF Fresh

LEMMA FreshOK ==
  ASSUME NEW t, NEW s, NEW c
  PROVE  TaskOK(t, Fresh, s, c) /\ ~Owes(Fresh)
<1>1. CallOK(Fresh) /\ PinOK(Fresh, s, c) /\ ~Owes(Fresh)
  BY FreshRecord, Zenon DEF CallOK, PinOK, Owes
<1> QED BY <1>1, FreshRecord, Zenon DEF TaskOK

\* A task that gives up is out of the way of everything but its lease.
LEMMA GivesUp ==
  ASSUME HostInv, NEW t \in Tasks, task[t].pc # "new", NEW res \in Results, res.exposed => res.taint,
         NEW s, NEW c
  PROVE  TaskOK(t, GiveUp(t, res), s, c) /\ ~Owes(GiveUp(t, res))
<1> DEFINE k == [Fresh EXCEPT !.pc = "unlease", !.req = task[t].req, !.lease = TRUE, !.result = res]
<1>1. task[t].req \in CallArgs
  BY Zenon DEF HostInv, TaskOK
<1>2. k \in TaskRecords /\ k.pc = "unlease" /\ k.req \in CallArgs /\ k.inst = NoInst /\ k.result = res
  <2>1. "unlease" \in Pcs
    BY Zenon DEF Pcs
  <2> QED BY <1>1, <2>1, FreshRecord, Zenon DEF TaskRecords
<1>3. GiveUp(t, res) = k \/ GiveUp(t, res) = Fresh
  BY Zenon DEF GiveUp
<1> HIDE DEF k
<1>4. CallOK(k) /\ PinOK(k, s, c) /\ ~Owes(k)
  BY <1>2, Zenon DEF CallOK, PinOK, Owes
<1>5. TaskOK(t, k, s, c)
  BY <1>2, <1>4, Zenon DEF TaskOK
<1> QED BY <1>3, <1>4, <1>5, FreshOK, Zenon

LEMMA FailStep ==
  ASSUME HostInv, NEW t \in Tasks, task[t].pc # "new", Fail(t), UNCHANGED <<pool, seen, cut>>
  PROVE  HostInv'
<1>1. task' = [task EXCEPT ![t] = GiveUp(t, NoResult)]
  BY Zenon DEF Fail
<1>2. TaskOK(t, GiveUp(t, NoResult), seen[t], cut[t]) /\ ~Owes(GiveUp(t, NoResult))
  BY FreshRecord, GivesUp, Zenon
<1> QED BY <1>1, <1>2, QuietStep, Zenon

LEMMA StartStep ==
  ASSUME HostInv, NEW t \in Tasks, Start(t)
  PROVE  HostInv'
<1>1. PICK r \in CallArgs : task' = [task EXCEPT ![t] =
        IF TooLarge(r) \/ (t \in CallTasks /\ closed) THEN Fresh
        ELSE [Fresh EXCEPT !.pc = "tier", !.req = r, !.taint = r.untrusted]]
  BY Zenon DEF Start
<1>2. UNCHANGED <<pool, seen, cut>>
  BY Zenon DEF Start, pinVars
<1> DEFINE k == [Fresh EXCEPT !.pc = "tier", !.req = r, !.taint = r.untrusted]
<1>3. k \in TaskRecords /\ k.pc = "tier" /\ k.req = r /\ k.inst = NoInst /\ k.result = NoResult
  <2>1. "tier" \in Pcs /\ r.untrusted \in BOOLEAN
    BY HostConstants, Zenon DEF Pcs
  <2> QED BY <2>1, FreshRecord, Zenon DEF TaskRecords
<1>4. task' = [task EXCEPT ![t] = Fresh] \/ task' = [task EXCEPT ![t] = k]
  BY <1>1, Zenon
<1> HIDE DEF k
<1>5. CallOK(k) /\ PinOK(k, seen[t], cut[t]) /\ ~Owes(k)
  BY <1>3, FreshRecord, Zenon DEF CallOK, PinOK, Owes
<1>6. TaskOK(t, k, seen[t], cut[t])
  BY <1>3, <1>5, Zenon DEF TaskOK
<1> QED BY <1>2, <1>4, <1>5, <1>6, FreshOK, QuietStep, Zenon

\* The steps up to a slot, and those of a lease on its way back.
LEMMA QueueSteps ==
  ASSUME HostInv, NEW t \in Tasks,
         \/ FindTier(t) \/ InsertTier(t) \/ AskModule(t) \/ Compiled(t)
         \/ Register(t) \/ TakeSlot(t) \/ Park(t) \/ Wake(t) \/ WaitExpires(t) \/ Unlease(t)
  PROVE  HostInv'
<1>1. ASSUME NEW p \in Bare, NEW k, Moved(task[t], p, k), task' = [task EXCEPT ![t] = k],
             UNCHANGED <<pool, seen, cut>>, task[t].pc \in Bare, p # "instantiate",
             p \in Checked => task[t].pc \in Checked \/ t \in Pins \/ CheckModule(task[t].req)
      PROVE  HostInv'
  <2>1. t \in Pins => t \notin CallTasks
    BY HostConstants, Zenon
  <2> QED BY <1>1, <2>1, GoesOn, Zenon
<1>2. task \in [Tasks -> TaskRecords]
  BY Zenon DEF HostInv
<1>4. ASSUME NEW p \in Bare, Goto(t, p), UNCHANGED <<pool, seen, cut>>, task[t].pc \in Bare, p # "instantiate",
             p \in Checked => task[t].pc \in Checked \/ t \in Pins \/ CheckModule(task[t].req)
      PROVE  HostInv'
  <2>1. task' = [task EXCEPT ![t] = [task[t] EXCEPT !.pc = p]]
    BY <1>2, <1>4, Zenon DEF Goto
  <2>2. Moved(task[t], p, [task[t] EXCEPT !.pc = p])
    BY Zenon DEF Moved
  <2> QED BY <1>1, <1>4, <2>1, <2>2, Zenon
<1>5. CASE FindTier(t)
  <2>1. task[t].pc = "tier" /\ UNCHANGED <<pool, seen, cut>> /\ (Fail(t) \/ Goto(t, "compile") \/ Goto(t, "insert"))
    BY <1>5, Zenon DEF FindTier, TaskAt, pinVars
  <2> QED BY <1>4, <2>1, FailStep, Zenon DEF Bare, Checked
<1>6. CASE InsertTier(t)
  <2>1. task[t].pc = "insert" /\ UNCHANGED <<pool, seen, cut>> /\ (Fail(t) \/ Goto(t, "compile"))
    BY <1>6, Zenon DEF InsertTier, TaskAt, pinVars
  <2> QED BY <1>4, <2>1, FailStep, Zenon DEF Bare, Checked
<1>7. CASE AskModule(t)
  <2>1. /\ task[t].pc = "compile" /\ UNCHANGED <<pool, seen, cut>>
        /\ Fail(t) \/ Goto(t, "compiling") \/ (Goto(t, "ask") /\ (t \in Pins \/ CheckModule(task[t].req)))
    BY <1>7, Zenon DEF AskModule, AfterCompile, TaskAt, pinVars
  <2> QED BY <1>4, <2>1, FailStep, Zenon DEF Bare, Checked
<1>8. CASE Compiled(t)
  <2>1. task[t].pc = "compiling" /\ UNCHANGED <<pool, seen, cut>> /\ (Fail(t) \/ Goto(t, "compile"))
    BY <1>8, Zenon DEF Compiled, TaskAt, pinVars
  <2> QED BY <1>4, <2>1, FailStep, Zenon DEF Bare, Checked
<1>9. CASE Register(t)
  <2> DEFINE k == [task[t] EXCEPT !.pc = "check", !.woken = FALSE]
  <2>1. task[t].pc = "ask" /\ UNCHANGED <<pool, seen, cut>>
    BY <1>9, Zenon DEF Register, TaskAt, pinVars
  <2>2. task' = [task EXCEPT ![t] = k]
    BY <1>2, <1>9, Zenon DEF Register
  <2>3. Moved(task[t], "check", k)
    BY Zenon DEF Moved
  <2>4. "check" \in Bare /\ "ask" \in Bare /\ "ask" \in Checked /\ "check" # "instantiate"
    BY Zenon DEF Bare, Checked
  <2> HIDE DEF k
  <2> QED BY <1>1, <2>1, <2>2, <2>3, <2>4, Zenon
<1>10. CASE TakeSlot(t)
  <2> DEFINE k == [task[t] EXCEPT !.pc = "slot", !.lease = TRUE, !.woken = FALSE]
  <2>1. task[t].pc = "check" /\ UNCHANGED <<pool, seen, cut>>
    BY <1>10, Zenon DEF TakeSlot, TaskAt, pinVars
  <2>2. task' = [task EXCEPT ![t] = k] \/ Goto(t, "full")
    BY <1>2, <1>10, Zenon DEF TakeSlot
  <2>3. Moved(task[t], "slot", k)
    BY Zenon DEF Moved
  <2>4. "slot" \in Bare /\ "check" \in Bare /\ "check" \in Checked /\ "slot" # "instantiate" /\ "full" \in Bare /\ "full" # "instantiate"
    BY Zenon DEF Bare, Checked
  <2> HIDE DEF k
  <2> QED BY <1>1, <1>4, <2>1, <2>2, <2>3, <2>4, Zenon
<1>11. CASE Park(t)
  <2>1. task[t].pc = "full" /\ UNCHANGED <<pool, seen, cut>> /\ Goto(t, "parked")
    BY <1>11, Zenon DEF Park, TaskAt, pinVars
  <2> QED BY <1>4, <2>1, Zenon DEF Bare, Checked
<1>12. CASE Wake(t)
  <2>1. task[t].pc = "parked" /\ UNCHANGED <<pool, seen, cut>> /\ Goto(t, "ask")
    BY <1>12, Zenon DEF Wake, TaskAt, pinVars
  <2> QED BY <1>4, <2>1, Zenon DEF Bare, Checked
<1>13. CASE WaitExpires(t)
  <2>1. task[t].pc = "parked" /\ UNCHANGED <<pool, seen, cut>> /\ Fail(t)
    BY <1>13, Zenon DEF WaitExpires, TaskAt, pinVars
  <2> QED BY <2>1, FailStep, Zenon
<1>14. CASE Unlease(t)
  <2> DEFINE k == [task[t] EXCEPT !.pc = "notify", !.lease = FALSE]
  <2>1. task[t].pc = "unlease" /\ UNCHANGED <<pool, seen, cut>>
    BY <1>14, Zenon DEF Unlease, TaskAt, pinVars
  <2>2. task' = [task EXCEPT ![t] = k]
    BY <1>2, <1>14, Zenon DEF Unlease
  <2>3. Moved(task[t], "notify", k)
    BY Zenon DEF Moved
  <2>4. "notify" \in Bare /\ "unlease" \in Bare /\ "notify" \notin Checked /\ "notify" # "instantiate"
    BY Zenon DEF Bare, Checked
  <2> HIDE DEF k
  <2> QED BY <1>1, <2>1, <2>2, <2>3, <2>4, Zenon
<1> QED BY <1>5, <1>6, <1>7, <1>8, <1>9, <1>10, <1>11, <1>12, <1>13, <1>14, Zenon

\* notify_waiters touches the wake-up flags of the waiters only.
LEMMA NotifyStep ==
  ASSUME HostInv, NEW t \in Tasks, Notify(t)
  PROVE  HostInv'
<1>1. /\ task[t].pc = "notify" /\ UNCHANGED <<pool, seen, cut>> /\ task \in [Tasks -> TaskRecords]
  BY Zenon DEF Notify, TaskAt, pinVars, HostInv
<1>2. ASSUME NEW u \in Tasks
      PROVE  task'[u] = IF u = t THEN Fresh
                        ELSE IF task[u].pc \in {"check", "full", "parked"} THEN [task[u] EXCEPT !.woken = TRUE]
                        ELSE task[u]
  BY Zenon DEF Notify
<1>3. ASSUME NEW u \in Tasks, u # t, task[u].pc \in {"check", "full", "parked"}
      PROVE  TaskOK(u, task'[u], seen[u], cut[u]) /\ task'[u].pc = task[u].pc /\ task'[u].req = task[u].req
  <2> DEFINE k == [task[u] EXCEPT !.woken = TRUE]
  <2>1. task[u] \in TaskRecords /\ TaskOK(u, task[u], seen[u], cut[u])
    BY Zenon DEF HostInv
  <2>2. k \in TaskRecords /\ k.pc = task[u].pc /\ k.req = task[u].req /\ k.inst = task[u].inst
        /\ k.taint = task[u].taint /\ k.result = task[u].result
    BY <2>1, Zenon DEF TaskRecords
  <2>3. task'[u] = k
    BY <1>2, <1>3, Zenon
  <2> HIDE DEF k
  <2>4. task[u].pc \in Bare /\ task[u].pc \in Checked
    BY <1>3, Zenon DEF Bare, Checked
  <2>5. TaskOK(u, k, seen[u], cut[u])
    BY <2>1, <2>2, <2>4, MovesOn, Zenon
  <2> QED BY <2>2, <2>3, <2>5, Zenon
<1>4. ASSUME NEW u \in Tasks, u # t, task[u].pc \notin {"check", "full", "parked"}
      PROVE  task'[u] = task[u]
  BY <1>2, <1>4, Zenon
<1>5. task'[t] = Fresh
  BY <1>2, Zenon
<1>6. ASSUME NEW u \in Tasks PROVE TaskOK(u, task'[u], seen[u], cut[u])
  <2>1. TaskOK(u, task[u], seen[u], cut[u])
    BY Zenon DEF HostInv
  <2> QED BY <1>3, <1>4, <1>5, <2>1, FreshOK, Zenon
<1>7. task' \in [Tasks -> TaskRecords]
  <2>1. \A u \in Tasks : task'[u] \in TaskRecords
    BY <1>6, Zenon DEF TaskOK
  <2>2. task' = [u \in Tasks |-> task'[u]]
    BY Zenon DEF Notify
  <2> QED BY <2>1, <2>2, Zenon
<1>8. ASSUME NEW u \in Tasks
      PROVE  (Owes(task'[u]) <=> Owes(task[u])) /\ (Owes(task[u]) => task'[u].req = task[u].req)
  <2>1. CASE u = t
    <3>1. ~Owes(task[t]) /\ ~Owes(Fresh)
      BY <1>1, FreshOK, Zenon DEF Owes
    <3> QED BY <1>5, <2>1, <3>1, Zenon
  <2>2. CASE u # t /\ task[u].pc \in {"check", "full", "parked"}
    <3>1. ~Owes(task[u])
      BY <2>2, Zenon DEF Owes
    <3> QED BY <1>3, <2>2, <3>1, Zenon DEF Owes
  <2>3. CASE u # t /\ task[u].pc \notin {"check", "full", "parked"}
    BY <1>4, <2>3, Zenon
  <2> QED BY <2>1, <2>2, <2>3, Zenon
<1>9. Promised' = Promised
  <2>1. \A u \in Pins : u \in Tasks
    BY Zenon DEF Tasks
  <2>2. Promisees' = Promisees
    BY <1>8, <2>1, Zenon DEF Promisees, Owes
  <2>3. \A u \in Promisees : PinnedWant(u)' = PinnedWant(u)
    BY <1>8, <2>1, Zenon DEF Promisees, Owes, PinnedWant
  <2> QED BY <2>2, <2>3, Zenon DEF Promised
<1> QED BY <1>1, <1>6, <1>7, <1>9, Zenon DEF HostInv

\* A call takes the hottest warm instance of its key, or goes on to make one.
LEMMA AcquireStep ==
  ASSUME HostInv, NEW t \in Tasks, AcquireWarm(t)
  PROVE  HostInv'
<1> DEFINE r    == task[t]
           key  == KeyOf(r.req)
           took == TakeWarm(pool, key)
           k    == [r EXCEPT !.pc = "begin", !.inst = took.inst]
<1>1. /\ r.pc = "slot" /\ t \in CallTasks /\ UNCHANGED <<seen, cut>>
      /\ task \in [Tasks -> TaskRecords] /\ r \in TaskRecords /\ TaskOK(t, r, seen[t], cut[t])
  BY Zenon DEF AcquireWarm, TaskAt, pinVars, HostInv
<1>2. CASE WarmFor(pool, key) = {}
  <2>1. task' = [task EXCEPT ![t] = [task[t] EXCEPT !.pc = "instantiate"]] /\ UNCHANGED pool
    BY <1>1, <1>2, Zenon DEF AcquireWarm, Goto
  <2>2. Moved(task[t], "instantiate", [task[t] EXCEPT !.pc = "instantiate"])
    BY Zenon DEF Moved
  <2>3. "instantiate" \in Bare /\ "slot" \in Bare /\ "slot" \in Checked
    BY Zenon DEF Bare, Checked
  <2>4. t \notin Pins
    BY <1>1, HostConstants, Zenon
  <2> QED BY <1>1, <2>1, <2>2, <2>3, <2>4, GoesOn, Zenon
<1>3. CASE WarmFor(pool, key) # {}
  <2>1. pool' = took.pool /\ task' = [task EXCEPT ![t] = k]
    BY <1>1, <1>3, Zenon DEF AcquireWarm
  <2>2. /\ PoolOK(took.pool) /\ took.pool.reserved = pool.reserved
        /\ took.inst \in CleanInstances /\ took.inst.key = key
    BY <1>3, TakeWarmFits, Zenon DEF HostInv
  <2> HIDE DEF took, key
  <2>3. took.inst \in Instances /\ ~took.inst.exposed
    BY <2>2, Zenon DEF CleanInstances, Instances
  <2>4. /\ k \in TaskRecords /\ k.pc = "begin" /\ k.req = r.req /\ k.inst = took.inst /\ k.result = r.result
    <3>1. "begin" \in Pcs
      BY Zenon DEF Pcs
    <3> QED BY <1>1, <2>3, <3>1, Zenon DEF TaskRecords
  <2> HIDE DEF k
  <2>5. r.req \in CallArgs /\ CheckModule(r.req) /\ (r.result.exposed => r.result.taint)
    BY <1>1, Zenon DEF TaskOK, CallOK
  <2>6. CallOK(k) /\ t \notin Pins
    BY <1>1, <2>3, <2>4, <2>5, HostConstants, Zenon DEF CallOK
  <2>7. TaskOK(t, k, seen'[t], cut'[t])
    BY <2>2, <2>3, <2>4, <2>5, <2>6, Zenon DEF TaskOK, key
  <2>8. seen' \in [Pins -> BOOLEAN] /\ cut' \in [Pins -> BOOLEAN] /\ PoolOK(pool') /\ pool'.reserved = pool.reserved
        /\ \A u \in Pins : u # t => seen'[u] = seen[u] /\ cut'[u] = cut[u]
    BY <1>1, <2>1, <2>2, Zenon DEF HostInv
  <2> QED BY <1>1, <2>1, <2>7, <2>8, TaskStep, Zenon
<1> QED BY <1>2, <1>3, Zenon

\* A pin's reservation is charged before it relies on it.
LEMMA ReserveStep ==
  ASSUME HostInv, NEW t \in Tasks, ReservePinned(t)
  PROVE  HostInv'
<1> DEFINE r == task[t]
           k == [r EXCEPT !.pc = "instantiate"]
<1>1. /\ r.pc = "slot" /\ t \in Pins /\ UNCHANGED <<seen, cut>>
      /\ task \in [Tasks -> TaskRecords] /\ r \in TaskRecords /\ TaskOK(t, r, seen[t], cut[t])
  BY Zenon DEF ReservePinned, TaskAt, pinVars, HostInv
<1>2. r.req \in CallArgs /\ r.req.pages \in Nat /\ ~Owes(r)
  BY <1>1, HostConstants, Zenon DEF TaskOK, Owes
<1>3. CASE ~CanReserve(pool, r.req.pages)
  <2>1. Fail(t) /\ UNCHANGED pool /\ r.pc # "new"
    BY <1>1, <1>3, Zenon DEF ReservePinned
  <2> QED BY <1>1, <2>1, FailStep, Zenon
<1>4. CASE CanReserve(pool, r.req.pages)
  <2>1. pool' = Reserve(pool, r.req.pages) /\ task' = [task EXCEPT ![t] = k]
    BY <1>1, <1>4, Zenon DEF ReservePinned, Goto
  <2>2. PoolOK(pool') /\ pool'.reserved = pool.reserved + r.req.pages
    BY <1>2, <2>1, ReserveFits, Zenon DEF HostInv
  <2>3. Moved(task[t], "instantiate", k)
    BY Zenon DEF Moved
  <2>4. "instantiate" \in Pcs /\ "instantiate" \in Bare /\ "slot" \in Bare /\ "slot" \in Checked
    BY Zenon DEF Bare, Checked, Pcs
  <2> HIDE DEF k
  <2>5. /\ k \in TaskRecords /\ k.pc = "instantiate"
        /\ k.req = r.req /\ k.inst = r.inst /\ k.taint = r.taint /\ k.result = r.result
    BY <1>1, <2>3, <2>4, MovedRecords, Zenon
  <2>6. TaskOK(t, k, seen'[t], cut'[t]) /\ Owes(k)
    <3>1. TaskOK(t, k, seen[t], cut[t])
      BY <1>1, <2>4, <2>5, MovesOn, Zenon
    <3>2. Owes(k)
      BY <2>5, Zenon DEF Owes
    <3> QED BY <1>1, <3>1, <3>2, Zenon
  <2>7. seen' \in [Pins -> BOOLEAN] /\ cut' \in [Pins -> BOOLEAN]
        /\ \A u \in Pins : u # t => seen'[u] = seen[u] /\ cut'[u] = cut[u]
    BY <1>1, Zenon DEF HostInv
  <2> QED BY <1>1, <1>2, <2>1, <2>2, <2>5, <2>6, <2>7, TaskStep, Zenon
<1> QED BY <1>3, <1>4, Zenon

Running == {"held", "begin", "guest", "host"}

\* The record of a task that has an instance, after a step that keeps it.
RunsOn(r, p, x, b, res) == [r EXCEPT !.pc = p, !.inst = x, !.taint = b, !.result = res]

LEMMA RunRecords ==
  ASSUME NEW r \in TaskRecords, NEW p \in Pcs, NEW x \in Instances, NEW b \in BOOLEAN, NEW res \in Results
  PROVE  /\ RunsOn(r, p, x, b, res) \in TaskRecords /\ RunsOn(r, p, x, b, res).pc = p
         /\ RunsOn(r, p, x, b, res).req = r.req /\ RunsOn(r, p, x, b, res).inst = x
         /\ RunsOn(r, p, x, b, res).taint = b /\ RunsOn(r, p, x, b, res).result = res
BY Zenon DEF RunsOn, TaskRecords

\* A step of a task that has an instance and keeps it.
LEMMA RunStep ==
  ASSUME HostInv, NEW t \in Tasks, task[t].pc \in Running, NEW p \in Running,
         NEW x \in Instances, x.key = task[t].inst.key, NEW b \in BOOLEAN, NEW res \in Results,
         task' = [task EXCEPT ![t] = RunsOn(task[t], p, x, b, res)], UNCHANGED pool,
         seen' \in [Pins -> BOOLEAN], cut' \in [Pins -> BOOLEAN],
         \A u \in Pins : u # t => seen'[u] = seen[u] /\ cut'[u] = cut[u],
         t \in CallTasks => /\ p # "held" /\ (p = "begin" => ~x.exposed) /\ (x.exposed => p = "begin" \/ b)
                            /\ (res.exposed => res.taint),
         t \in Pins => /\ p = "held" /\ ~cut'[t] => (x.exposed => seen'[t])
                       /\ p # "held" /\ ~cut'[t] => (x.exposed => b)
                       /\ ~(cut'[t] /\ p \in {"held", "begin"}) => (res.exposed => res.taint)
  PROVE  HostInv'
<1> DEFINE r == task[t]
           k == RunsOn(r, p, x, b, res)
<1>1. r \in TaskRecords /\ TaskOK(t, r, seen[t], cut[t]) /\ p \in Pcs /\ task' = [task EXCEPT ![t] = k]
  BY Zenon DEF HostInv, Running, Pcs
<1>2. k \in TaskRecords /\ k.pc = p /\ k.req = r.req /\ k.inst = x /\ k.taint = b /\ k.result = res
  BY <1>1, RunRecords
<1>3. r.req \in CallArgs /\ r.inst.key = KeyOf(r.req)
  BY <1>1, Zenon DEF TaskOK, Running
<1>4. t \in CallTasks => CheckModule(r.req)
  BY <1>1, Zenon DEF TaskOK, CallOK, Running
<1> HIDE DEF k
<1>5. t \in CallTasks => CallOK(k)
  BY <1>2, <1>4, Zenon DEF CallOK, Running
<1>6. t \in Pins => PinOK(k, seen'[t], cut'[t])
  BY <1>2, Zenon DEF PinOK, Running
<1>7. TaskOK(t, k, seen'[t], cut'[t])
  BY <1>2, <1>3, <1>5, <1>6, Zenon DEF TaskOK, Running
<1>8. Owes(k) /\ Owes(task[t]) /\ k.req = task[t].req
  BY <1>2, Zenon DEF Owes, Running
<1>9. PoolOK(pool') /\ pool'.reserved = pool.reserved
  BY Zenon DEF HostInv
<1> QED BY <1>1, <1>7, <1>8, <1>9, TaskStep, Zenon

LEMMA ExposedTo ==
  ASSUME NEW x \in Instances, NEW d \in BOOLEAN
  PROVE  /\ [x EXCEPT !.exposed = d] \in Instances /\ [x EXCEPT !.exposed = d].key = x.key
         /\ [x EXCEPT !.exposed = d].exposed = d
BY Zenon DEF Instances

LEMMA DeadOrNot ==
  ASSUME NEW x \in Instances, NEW d \in BOOLEAN
  PROVE  /\ [x EXCEPT !.dead = d] \in Instances /\ [x EXCEPT !.dead = d].key = x.key
         /\ [x EXCEPT !.dead = d].exposed = x.exposed /\ [x EXCEPT !.dead = d].dead = d
         /\ [x EXCEPT !.dead = d].exposed \in BOOLEAN
BY Zenon DEF Instances

LEMMA InstanceParts ==
  ASSUME NEW x \in Instances
  PROVE  /\ x.key \in Keys /\ x.size \in Nat /\ x.dead \in BOOLEAN /\ x.exposed \in BOOLEAN
         /\ \A b \in BOOLEAN : /\ [x EXCEPT !.exposed = b] \in Instances /\ [x EXCEPT !.exposed = b].key = x.key
                               /\ [x EXCEPT !.exposed = b].exposed = b
         /\ \A b \in BOOLEAN : /\ [x EXCEPT !.dead = b] \in Instances /\ [x EXCEPT !.dead = b].key = x.key
                               /\ [x EXCEPT !.dead = b].exposed = x.exposed /\ [x EXCEPT !.dead = b].dead = b
         /\ [x EXCEPT !.size = x.size + 1] \in Instances /\ [x EXCEPT !.size = x.size + 1].key = x.key
         /\ [x EXCEPT !.size = x.size + 1].exposed = x.exposed
BY DEF Instances

\* What is known of a task that has an instance.
LEMMA RunFacts ==
  ASSUME HostInv, NEW t \in Tasks, task[t].pc \in Running
  PROVE  /\ task \in [Tasks -> TaskRecords] /\ task[t] \in TaskRecords /\ task[t].inst \in Instances
         /\ task[t].taint \in BOOLEAN /\ task[t].result \in Results /\ task[t].inst.key = KeyOf(task[t].req)
         /\ t \in CallTasks \/ t \in Pins
         /\ t \in CallTasks => /\ t \notin Pins /\ task[t].pc # "held"
                               /\ (task[t].pc = "begin" => ~task[t].inst.exposed)
                               /\ (task[t].pc # "begin" => (task[t].inst.exposed => task[t].taint))
                               /\ (task[t].result.exposed => task[t].result.taint)
         /\ t \in Pins => /\ t \notin CallTasks /\ seen[t] \in BOOLEAN /\ cut[t] \in BOOLEAN
                          /\ (task[t].pc = "held" /\ ~cut[t] => (task[t].inst.exposed => seen[t]))
                          /\ (task[t].pc # "held" /\ ~cut[t] => (task[t].inst.exposed => task[t].taint))
                          /\ (~(cut[t] /\ task[t].pc \in {"held", "begin"}) =>
                                (task[t].result.exposed => task[t].result.taint))
<1>1. task \in [Tasks -> TaskRecords] /\ TaskOK(t, task[t], seen[t], cut[t]) /\ task[t] \in TaskRecords
  BY Zenon DEF HostInv
<1>2. task[t].taint \in BOOLEAN /\ task[t].result \in Results
  BY <1>1, Zenon DEF TaskRecords
<1>3. task[t].inst \in Instances /\ task[t].inst.key = KeyOf(task[t].req)
  BY <1>1, Zenon DEF TaskOK, Running
<1>4. (t \in CallTasks \/ t \in Pins) /\ (t \in CallTasks => t \notin Pins)
  BY HostConstants, Zenon DEF Tasks
<1>5. t \in CallTasks => /\ task[t].pc # "held" /\ (task[t].pc = "begin" => ~task[t].inst.exposed)
                         /\ (task[t].pc # "begin" => (task[t].inst.exposed => task[t].taint))
                         /\ (task[t].result.exposed => task[t].result.taint)
  BY <1>1, Zenon DEF TaskOK, CallOK, Running
<1>6. t \in Pins => /\ seen[t] \in BOOLEAN /\ cut[t] \in BOOLEAN
                    /\ (task[t].pc = "held" /\ ~cut[t] => (task[t].inst.exposed => seen[t]))
                    /\ (task[t].pc # "held" /\ ~cut[t] => (task[t].inst.exposed => task[t].taint))
                    /\ (~(cut[t] /\ task[t].pc \in {"held", "begin"}) => (task[t].result.exposed => task[t].result.taint))
  <2>1. t \in Pins => PinOK(task[t], seen[t], cut[t])
    BY <1>1, Zenon DEF TaskOK
  <2>2. t \in Pins => seen[t] \in BOOLEAN /\ cut[t] \in BOOLEAN
    BY Zenon DEF HostInv
  <2> QED BY <2>1, <2>2, Zenon DEF PinOK, Running
<1> QED BY <1>1, <1>2, <1>3, <1>4, <1>5, <1>6, Zenon

\* The pinned call's start, the guest's start and its steps.
LEMMA PinnedCallStep ==
  ASSUME HostInv, NEW t \in Tasks, PinnedCall(t)
  PROVE  HostInv'
<1> DEFINE r == task[t]
<1>1. r.pc = "held" /\ t \in Pins /\ UNCHANGED <<pool, seen, cut>>
  BY Zenon DEF PinnedCall, TaskAt, pinVars
<1>2. r.pc \in Running /\ "begin" \in Running
  BY <1>1, Zenon DEF Running
<1>3. /\ task \in [Tasks -> TaskRecords] /\ r \in TaskRecords /\ r.inst \in Instances /\ r.result \in Results
      /\ t \notin CallTasks /\ seen[t] \in BOOLEAN /\ (~cut[t] => (r.inst.exposed => seen[t]))
      /\ (~cut[t] => (r.result.exposed => r.result.taint))
  BY <1>1, <1>2, RunFacts, Zenon
<1>4. task' = [task EXCEPT ![t] = RunsOn(r, "begin", r.inst, seen[t], r.result)]
  BY <1>3, Zenon DEF PinnedCall, RunsOn, TaskRecords
<1>5. seen' \in [Pins -> BOOLEAN] /\ cut' \in [Pins -> BOOLEAN]
      /\ \A u \in Pins : u # t => seen'[u] = seen[u] /\ cut'[u] = cut[u]
  BY <1>1, Zenon DEF HostInv
<1>6. t \in Pins => /\ "begin" = "held" /\ ~cut'[t] => (r.inst.exposed => seen'[t])
                    /\ "begin" # "held" /\ ~cut'[t] => (r.inst.exposed => seen[t])
                    /\ ~(cut'[t] /\ "begin" \in {"held", "begin"}) => (r.result.exposed => r.result.taint)
  BY <1>1, <1>3, Zenon
<1> QED BY <1>1, <1>2, <1>3, <1>4, <1>5, <1>6, RunStep, Zenon


LEMMA InGuest ==
  ASSUME HostInv, NEW t \in Tasks, task[t].pc \in Running, NEW p \in {"guest", "host"},
         NEW x \in Instances, x.key = task[t].inst.key, NEW b \in BOOLEAN, NEW res \in Results,
         task' = [task EXCEPT ![t] = RunsOn(task[t], p, x, b, res)], UNCHANGED <<pool, seen, cut>>,
         res.exposed => res.taint, ~(t \in Pins /\ cut[t]) => (x.exposed => b)
  PROVE  HostInv'
<1>1. p \in Running /\ p \notin {"held", "begin"} /\ p # "held" /\ p # "begin"
  BY Zenon DEF Running
<1>2. seen' \in [Pins -> BOOLEAN] /\ cut' \in [Pins -> BOOLEAN]
      /\ \A u \in Pins : u # t => seen'[u] = seen[u] /\ cut'[u] = cut[u]
  BY Zenon DEF HostInv
<1>3. t \in CallTasks => t \notin Pins
  BY HostConstants, Zenon
<1>4. t \in CallTasks => /\ p # "held" /\ (p = "begin" => ~x.exposed) /\ (x.exposed => p = "begin" \/ b)
                         /\ (res.exposed => res.taint)
  BY <1>1, <1>3, Zenon
<1>5. t \in Pins => /\ p = "held" /\ ~cut'[t] => (x.exposed => seen'[t])
                    /\ p # "held" /\ ~cut'[t] => (x.exposed => b)
                    /\ ~(cut'[t] /\ p \in {"held", "begin"}) => (res.exposed => res.taint)
  BY <1>1, Zenon
<1> QED BY <1>1, <1>2, <1>4, <1>5, RunStep, Zenon

\* What is known of the guest's task, a call's or a pin's.
LEMMA GuestFacts ==
  ASSUME HostInv, NEW t \in Tasks, task[t].pc \in {"begin", "guest", "host"}
  PROVE  /\ task[t].pc \in Running /\ task \in [Tasks -> TaskRecords] /\ task[t] \in TaskRecords
         /\ task[t].inst \in Instances /\ task[t].taint \in BOOLEAN /\ task[t].result \in Results
         /\ ~(t \in Pins /\ cut[t]) => (task[t].inst.exposed => task[t].taint)
         /\ task[t].pc # "begin" => (task[t].result.exposed => task[t].result.taint)
         /\ t \in CallTasks => (task[t].pc = "begin" => ~task[t].inst.exposed)
<1>1. task[t].pc \in Running /\ task[t].pc # "held" /\ (task[t].pc # "begin" => task[t].pc \notin {"held", "begin"})
  BY Zenon DEF Running
<1> QED BY <1>1, RunFacts, Zenon

LEMMA BeginGuestStep ==
  ASSUME HostInv, NEW t \in Tasks, BeginGuest(t)
  PROVE  HostInv'
<1> DEFINE r == task[t]
           b == r.inst.exposed \/ r.taint
           x == [r.inst EXCEPT !.exposed = b]
<1>1. r.pc = "begin" /\ UNCHANGED <<pool, seen, cut>>
  BY Zenon DEF BeginGuest, TaskAt, pinVars
<1>2. /\ r.pc \in Running /\ task \in [Tasks -> TaskRecords] /\ r \in TaskRecords
      /\ r.inst \in Instances /\ r.taint \in BOOLEAN /\ (~(t \in Pins /\ cut[t]) => (r.inst.exposed => r.taint))
  <2>1. r.pc \in {"begin", "guest", "host"}
    BY <1>1, Zenon
  <2> QED BY <2>1, GuestFacts, Zenon
<1>3. x \in Instances /\ x.key = r.inst.key /\ x.exposed = b
  <2>1. b \in BOOLEAN
    BY Zenon
  <2> HIDE DEF b, r
  <2> QED BY <1>2, <2>1, ExposedTo, ZenonT(40)
<1>4. task' = [task EXCEPT ![t] = RunsOn(r, "guest", x, r.taint, NoResult)]
  BY <1>2, Zenon DEF BeginGuest, RunsOn, TaskRecords, Instances
<1>5. ~(t \in Pins /\ cut[t]) => (x.exposed => r.taint)
  BY <1>2, <1>3, Zenon
<1> HIDE DEF x, r
<1> QED BY <1>1, <1>2, <1>3, <1>4, <1>5, InGuest, FreshRecord, Zenon DEF r

LEMMA GrowStep ==
  ASSUME HostInv, NEW t \in Tasks, Grow(t)
  PROVE  HostInv'
<1> DEFINE r == task[t]
           x == [r.inst EXCEPT !.size = r.inst.size + 1]
<1>1. r.pc = "guest" /\ UNCHANGED <<pool, seen, cut>>
  BY Zenon DEF Grow, TaskAt, pinVars
<1>2. /\ r.pc \in Running /\ task \in [Tasks -> TaskRecords] /\ r \in TaskRecords /\ r.inst \in Instances
      /\ r.taint \in BOOLEAN /\ r.result \in Results /\ (~(t \in Pins /\ cut[t]) => (r.inst.exposed => r.taint))
      /\ (r.result.exposed => r.result.taint)
  <2>1. r.pc \in {"begin", "guest", "host"} /\ r.pc # "begin"
    BY <1>1, Zenon
  <2> QED BY <2>1, GuestFacts, Zenon
<1>3. x \in Instances /\ x.key = r.inst.key /\ x.exposed = r.inst.exposed
  BY <1>2, InstanceParts, Zenon
<1>4. task' = [task EXCEPT ![t] = RunsOn(r, "guest", x, r.taint, r.result)]
  BY <1>1, <1>2, Zenon DEF Grow, RunsOn, TaskRecords, Instances
<1>5. ~(t \in Pins /\ cut[t]) => (x.exposed => r.taint)
  BY <1>2, <1>3, Zenon
<1> HIDE DEF x, r
<1> QED BY <1>1, <1>2, <1>3, <1>4, <1>5, InGuest, Zenon DEF r

LEMMA CapabilitySteps ==
  ASSUME HostInv, NEW t \in Tasks, CapabilityCall(t) \/ CapabilityReturns(t)
  PROVE  HostInv'
<1> DEFINE r    == task[t]
           x(b) == [r.inst EXCEPT !.exposed = b]
<1>1. r.pc \in {"begin", "guest", "host"} /\ r.pc # "begin" /\ UNCHANGED <<pool, seen, cut>>
  BY Zenon DEF CapabilityCall, CapabilityReturns, TaskAt, pinVars
<1>2. /\ r.pc \in Running /\ task \in [Tasks -> TaskRecords] /\ r \in TaskRecords /\ r.inst \in Instances
      /\ r.taint \in BOOLEAN /\ r.result \in Results /\ (~(t \in Pins /\ cut[t]) => (r.inst.exposed => r.taint))
      /\ (r.result.exposed => r.result.taint)
  BY <1>1, GuestFacts, Zenon
<1>3. \A b \in BOOLEAN : x(b) \in Instances /\ x(b).key = r.inst.key /\ x(b).exposed = b
  BY <1>2, InstanceParts, Zenon
<1>4. CASE CapabilityCall(t)
  <2>1. task' = [task EXCEPT ![t] = RunsOn(r, "host", r.inst, r.taint, r.result)]
    BY <1>2, <1>4, Zenon DEF CapabilityCall, Goto, RunsOn, TaskRecords
  <2> HIDE DEF r
  <2> QED BY <1>1, <1>2, <2>1, InGuest, Zenon DEF r
<1>5. ASSUME NEW b \in BOOLEAN, NEW d \in BOOLEAN,
             task' = [task EXCEPT ![t] = RunsOn(r, "guest", x(b), d, r.result)],
             ~(t \in Pins /\ cut[t]) => (b => d)
      PROVE  HostInv'
  <2>1. PICK y \in Instances : y = x(b) /\ y.key = r.inst.key /\ y.exposed = b
    BY <1>3, Zenon
  <2>2. task' = [task EXCEPT ![t] = RunsOn(r, "guest", y, d, r.result)]
    BY <1>5, <2>1, Zenon
  <2>3. ~(t \in Pins /\ cut[t]) => (y.exposed => d)
    BY <1>5, <2>1, Zenon
  <2> HIDE DEF r
  <2> QED BY <1>1, <1>2, <2>1, <2>2, <2>3, InGuest, Zenon DEF r
<1>6. CASE task' = [task EXCEPT ![t] = CapabilityFails(t)]
  <2>1. CapabilityFails(t) = RunsOn(r, "guest", x(TRUE), TRUE, r.result)
    BY <1>2, Zenon DEF CapabilityFails, RunsOn, TaskRecords, Instances
  <2> QED BY <1>5, <1>6, <2>1, Zenon
<1>7. ASSUME NEW u \in BOOLEAN, task' = [task EXCEPT ![t] = CapabilityAnswers(t, u)] PROVE HostInv'
  <2> DEFINE b == r.inst.exposed \/ u
             d == r.taint \/ u
  <2>1. CapabilityAnswers(t, u) = RunsOn(r, "guest", x(b), d, r.result)
    BY <1>2, Zenon DEF CapabilityAnswers, RunsOn, TaskRecords, Instances
  <2>2. b \in BOOLEAN /\ d \in BOOLEAN
    BY Zenon
  <2>3. ~(t \in Pins /\ cut[t]) => (b => d)
    BY <1>2, Zenon
  <2>4. task' = [task EXCEPT ![t] = RunsOn(r, "guest", x(b), d, r.result)]
    BY <1>7, <2>1, Zenon
  <2> HIDE DEF b, d, x
  <2> QED BY <1>5, <2>2, <2>3, <2>4, Zenon
<1>8. CASE task' = [task EXCEPT ![t] = Sanitized(t)]
  <2>1. Sanitized(t) = RunsOn(r, "guest", x(FALSE), FALSE, r.result)
    BY <1>2, Zenon DEF Sanitized, RunsOn, TaskRecords, Instances
  <2> QED BY <1>5, <1>8, <2>1, Zenon
<1> QED BY <1>4, <1>6, <1>7, <1>8, Zenon DEF CapabilityReturns


\* An invocation ends: a call's instance goes back only if it is dead or clean,
\* and a pin adds what its call has met to taint_seen.
LEMMA EndInvokeStep ==
  ASSUME HostInv, NEW t \in Tasks, task[t].pc \in {"begin", "guest", "host"}, NEW dead \in BOOLEAN,
         EndInvoke(t, dead), t \in CallTasks /\ ~dead => ~task[t].inst.exposed
  PROVE  HostInv'
<1> DEFINE r    == task[t]
           inst == [r.inst EXCEPT !.dead = dead]
           res  == [taint |-> r.taint, exposed |-> inst.exposed]
<1>1. /\ r.pc \in Running /\ task \in [Tasks -> TaskRecords] /\ r \in TaskRecords /\ r.inst \in Instances
      /\ r.taint \in BOOLEAN /\ r.result \in Results /\ (~(t \in Pins /\ cut[t]) => (r.inst.exposed => r.taint))
  BY GuestFacts, Zenon
<1>2. /\ inst \in Instances /\ inst.key = r.inst.key /\ inst.exposed = r.inst.exposed /\ inst.dead = dead
      /\ inst.exposed \in BOOLEAN
  BY <1>1, DeadOrNot
<1>3. res \in Results /\ res.taint = r.taint /\ res.exposed = inst.exposed
  BY <1>1, <1>2, Zenon DEF Results
<1>4. CASE t \in CallTasks
  <2>1. pool' = Release(pool, inst) /\ task' = [task EXCEPT ![t] = GiveUp(t, res)] /\ UNCHANGED <<seen, cut>>
    BY <1>4, Zenon DEF EndInvoke, pinVars
  <2>2. ~inst.dead => ~inst.exposed
    BY <1>2, <1>4, Zenon
  <2>3. t \notin Pins
    BY <1>4, HostConstants, Zenon
  <2>4. res.exposed => res.taint
    BY <1>1, <1>2, <1>3, <2>3, Zenon
  <2> HIDE DEF inst, res
  <2>5. PoolOK(pool') /\ pool'.reserved = pool.reserved
    BY <1>2, <2>1, <2>2, ReleaseFits, Zenon DEF HostInv
  <2>6. r.pc # "new"
    BY Zenon
  <2>7. TaskOK(t, GiveUp(t, res), seen'[t], cut'[t])
    BY <1>3, <2>4, <2>6, GivesUp, Zenon
  <2>8. seen' \in [Pins -> BOOLEAN] /\ cut' \in [Pins -> BOOLEAN]
        /\ \A u \in Pins : u # t => seen'[u] = seen[u] /\ cut'[u] = cut[u]
    BY <2>1, Zenon DEF HostInv
  <2> QED BY <1>4, <2>1, <2>5, <2>7, <2>8, TaskStep, Zenon
<1>5. CASE t \notin CallTasks
  <2>1. t \in Pins /\ seen \in [Pins -> BOOLEAN] /\ cut \in [Pins -> BOOLEAN]
    BY <1>5, Zenon DEF Tasks, HostInv
  <2>2. task' = [task EXCEPT ![t] = RunsOn(r, "held", inst, FALSE, res)]
    BY <1>1, <1>5, ZenonT(40) DEF EndInvoke, RunsOn, TaskRecords
  <2>3. seen' = [seen EXCEPT ![t] = seen[t] \/ r.taint] /\ UNCHANGED <<pool, cut>>
    BY <1>5, Zenon DEF EndInvoke
  <2>4. seen' \in [Pins -> BOOLEAN] /\ cut' \in [Pins -> BOOLEAN] /\ (r.taint => seen'[t])
        /\ \A u \in Pins : u # t => seen'[u] = seen[u] /\ cut'[u] = cut[u]
    BY <2>1, <2>3, Zenon
  <2>5. "held" \in Running
    BY Zenon DEF Running
  <2> HIDE DEF inst, res
  <2>6. /\ ~cut'[t] => (inst.exposed => seen'[t])
        /\ ~cut'[t] => (res.exposed => res.taint)
    BY <1>1, <1>2, <1>3, <2>3, <2>4, Zenon
  <2>7. t \in Pins => /\ "held" = "held" /\ ~cut'[t] => (inst.exposed => seen'[t])
                      /\ "held" # "held" /\ ~cut'[t] => (inst.exposed => FALSE)
                      /\ ~(cut'[t] /\ "held" \in {"held", "begin"}) => (res.exposed => res.taint)
    BY <2>6, Zenon
  <2>8. FALSE \in BOOLEAN
    BY Zenon
  <2> HIDE DEF r
  <2> QED BY <1>1, <1>2, <1>3, <1>5, <2>2, <2>3, <2>4, <2>5, <2>7, <2>8, RunStep, ZenonT(40) DEF r
<1> QED BY <1>4, <1>5, Zenon

\* The ways an invocation ends by itself or at its deadline.
LEMMA EndSteps ==
  ASSUME HostInv, NEW t \in Tasks,
         NoSuchFunction(t) \/ GuestReturns(t) \/ GuestTraps(t) \/ EpochTrap(t) \/ DeadlineDrop(t)
  PROVE  HostInv'
<1> DEFINE r == task[t]
<1>1. r.pc \in {"begin", "guest", "host"}
  BY Zenon DEF NoSuchFunction, GuestReturns, GuestTraps, EpochTrap, DeadlineDrop, TaskAt
<1>2. /\ r.taint \in BOOLEAN /\ (t \in CallTasks => (r.pc = "begin" => ~r.inst.exposed))
      /\ (~(t \in Pins /\ cut[t]) => (r.inst.exposed => r.taint))
  BY <1>1, GuestFacts, Zenon
<1>3. t \in CallTasks => t \notin Pins
  BY HostConstants, Zenon
<1>4. CASE NoSuchFunction(t)
  <2>1. EndInvoke(t, FALSE) /\ r.pc = "begin"
    BY <1>4, Zenon DEF NoSuchFunction, TaskAt
  <2>2. FALSE \in BOOLEAN
    BY Zenon
  <2> QED BY <1>1, <1>2, <2>1, <2>2, EndInvokeStep, Zenon
<1>5. CASE GuestReturns(t)
  <2>1. PICK late \in BOOLEAN : EndInvoke(t, Dies(t, late))
    BY <1>5, Zenon DEF GuestReturns
  <2>2. Dies(t, late) \in BOOLEAN /\ (r.taint => Dies(t, late))
    BY Zenon DEF Dies
  <2>3. t \in CallTasks /\ ~Dies(t, late) => ~r.inst.exposed
    BY <1>2, <1>3, <2>2, Zenon
  <2> QED BY <1>1, <2>1, <2>2, <2>3, EndInvokeStep, Zenon
<1>6. CASE GuestTraps(t) \/ EpochTrap(t) \/ DeadlineDrop(t)
  <2>1. EndInvoke(t, TRUE)
    BY <1>6, Zenon DEF GuestTraps, EpochTrap, DeadlineDrop
  <2>2. TRUE \in BOOLEAN
    BY Zenon
  <2> QED BY <1>1, <2>1, <2>2, EndInvokeStep, Zenon
<1> QED BY <1>4, <1>5, <1>6, Zenon

\* A pin that gives up its reservation no longer relies on it.
LEMMA PinLeaves ==
  ASSUME HostInv, NEW t \in Pins, Owes(task[t]), task' = [task EXCEPT ![t] = GiveUp(t, NoResult)],
         pool' = Unreserve(pool, PinnedWant(t)), seen' \in [Pins -> BOOLEAN], cut' \in [Pins -> BOOLEAN],
         \A u \in Pins : u # t => seen'[u] = seen[u] /\ cut'[u] = cut[u]
  PROVE  HostInv'
<1>1. t \in Tasks /\ task[t].pc # "new"
  BY Zenon DEF Tasks, Owes
<1>2. task[t].req.pages \in Nat /\ PinnedWant(t) = task[t].req.pages
  <2>1. task[t].req \in CallArgs
    BY <1>1, Zenon DEF HostInv, TaskOK
  <2> QED BY <2>1, HostConstants, Zenon DEF PinnedWant
<1>3. PoolOK(pool') /\ pool'.reserved + task[t].req.pages >= pool.reserved
  BY <1>2, UnreserveFits, Zenon DEF HostInv
<1>4. TaskOK(t, GiveUp(t, NoResult), seen'[t], cut'[t]) /\ ~Owes(GiveUp(t, NoResult))
  BY <1>1, FreshRecord, GivesUp, Zenon
<1> QED BY <1>1, <1>3, <1>4, TaskStep, Zenon

LEMMA ClosePinnedStep ==
  ASSUME HostInv, NEW t \in Tasks, ClosePinned(t)
  PROVE  HostInv'
<1>1. /\ task[t].pc = "held" /\ t \in Pins /\ UNCHANGED <<seen, cut>>
      /\ task' = [task EXCEPT ![t] = GiveUp(t, NoResult)] /\ pool' = Unreserve(pool, PinnedWant(t))
  BY Zenon DEF ClosePinned, TaskAt, pinVars
<1>2. Owes(task[t])
  BY <1>1, Zenon DEF Owes
<1>3. seen' \in [Pins -> BOOLEAN] /\ cut' \in [Pins -> BOOLEAN]
      /\ \A u \in Pins : u # t => seen'[u] = seen[u] /\ cut'[u] = cut[u]
  BY <1>1, Zenon DEF HostInv
<1> QED BY <1>1, <1>2, <1>3, PinLeaves, Zenon


LEMMA NewInstance ==
  ASSUME NEW r \in CallArgs
  PROVE  NewInst(r) \in Instances /\ NewInst(r).key = KeyOf(r) /\ ~NewInst(r).exposed
<1>1. KeyOf(r) \in Keys
  BY Zenon DEF Keys
<1> HIDE DEF KeyOf
<1> QED BY <1>1, Zenon DEF NewInst, Instances

\* A fresh instance has met nothing; a pin that gets none leaves its reservation.
LEMMA InstantiateStep ==
  ASSUME HostInv, NEW t \in Tasks, Instantiate(t)
  PROVE  HostInv'
<1> DEFINE r == task[t]
           p == IF t \in Pins THEN "held" ELSE "begin"
           x == NewInst(r.req)
           k == RunsOn(r, p, x, r.taint, r.result)
<1>1. /\ r.pc = "instantiate" /\ task \in [Tasks -> TaskRecords] /\ r \in TaskRecords
      /\ TaskOK(t, r, seen[t], cut[t]) /\ seen \in [Pins -> BOOLEAN] /\ cut \in [Pins -> BOOLEAN]
  BY Zenon DEF Instantiate, TaskAt, HostInv
<1>2. r.req \in CallArgs /\ r.taint \in BOOLEAN /\ r.result \in Results /\ Owes(r) /\ r.pc # "new"
  BY <1>1, Zenon DEF TaskOK, TaskRecords, Owes
<1>3. t \in Pins => seen' = [seen EXCEPT ![t] = r.taint] /\ cut' = [cut EXCEPT ![t] = FALSE]
  BY Zenon DEF Instantiate
<1>4. t \notin Pins => UNCHANGED <<seen, cut>>
  BY Zenon DEF Instantiate, pinVars
<1>5. /\ seen' \in [Pins -> BOOLEAN] /\ cut' \in [Pins -> BOOLEAN] /\ (t \in Pins => ~cut'[t])
      /\ \A u \in Pins : u # t => seen'[u] = seen[u] /\ cut'[u] = cut[u]
  <2>1. CASE t \in Pins
    BY <1>1, <1>2, <1>3, <2>1, Zenon
  <2>2. CASE t \notin Pins
    BY <1>1, <1>4, <2>2, Zenon
  <2> QED BY <2>1, <2>2, Zenon
<1>6. (t \in CallTasks <=> t \notin Pins)
  BY HostConstants, Zenon DEF Tasks
<1>7. CASE /\ CheckModule(r.req) /\ UNCHANGED pool
           /\ task' = [task EXCEPT ![t].pc = IF t \in Pins THEN "held" ELSE "begin", ![t].inst = NewInst(r.req)]
  <2>1. x \in Instances /\ x.key = KeyOf(r.req) /\ ~x.exposed
    BY <1>2, NewInstance, Zenon
  <2>2. p \in Pcs /\ p \in Running /\ p \in {"held", "begin"} /\ (p = "held" <=> t \in Pins)
    BY Zenon DEF Pcs, Running
  <2> HIDE DEF x, p
  <2>3. task' = [task EXCEPT ![t] = k]
    <3>1. task' = [task EXCEPT ![t].pc = p, ![t].inst = x]
      BY <1>7, Zenon DEF p, x
    <3> QED BY <1>1, <3>1, Zenon DEF RunsOn, TaskRecords
  <2>4. k \in TaskRecords /\ k.pc = p /\ k.req = r.req /\ k.inst = x /\ k.taint = r.taint /\ k.result = r.result
    BY <1>1, <1>2, <2>1, <2>2, RunRecords, SMTT(20)
  <2> HIDE DEF k
  <2>5. r.result.exposed => r.result.taint
    <3>1. t \in CallTasks => (r.result.exposed => r.result.taint)
      BY <1>1, Zenon DEF TaskOK, CallOK
    <3>2. t \in Pins => (r.result.exposed => r.result.taint)
      BY <1>1, Zenon DEF TaskOK, PinOK
    <3> QED BY <1>6, <3>1, <3>2, Zenon
  <2>6. t \in CallTasks => CallOK(k)
    BY <1>6, <1>7, <2>1, <2>2, <2>4, <2>5, Zenon DEF CallOK
  <2>7. t \in Pins => PinOK(k, seen'[t], cut'[t])
    BY <2>1, <2>4, <2>5, Zenon DEF PinOK
  <2>8. TaskOK(t, k, seen'[t], cut'[t])
    BY <1>2, <2>1, <2>2, <2>4, <2>6, <2>7, Zenon DEF TaskOK, Running
  <2>9. PoolOK(pool') /\ pool'.reserved = pool.reserved
    BY <1>7, Zenon DEF HostInv
  <2> HIDE DEF r
  <2> QED BY <1>2, <1>5, <2>3, <2>4, <2>8, <2>9, TaskStep, Zenon DEF r
<1>8. CASE Fail(t) /\ pool' = IF t \in Pins THEN Unreserve(pool, PinnedWant(t)) ELSE pool
  <2>1. CASE t \in Pins
    <3>1. task' = [task EXCEPT ![t] = GiveUp(t, NoResult)] /\ pool' = Unreserve(pool, PinnedWant(t))
      BY <1>8, <2>1, Zenon DEF Fail
    <3> QED BY <1>2, <1>5, <2>1, <3>1, PinLeaves, Zenon
  <2>2. CASE t \notin Pins
    <3>1. Fail(t) /\ UNCHANGED <<pool, seen, cut>>
      BY <1>4, <1>8, <2>2, Zenon
    <3> QED BY <1>2, <3>1, FailStep, Zenon
  <2> QED BY <2>1, <2>2, Zenon
<1> QED BY <1>7, <1>8, Zenon DEF Instantiate

LEMMA DropEarlyStep ==
  ASSUME HostInv, NEW t \in Tasks, DropEarly(t)
  PROVE  HostInv'
<1>1. Fail(t) /\ UNCHANGED <<pool, seen, cut>> /\ task[t].pc # "new"
  BY Zenon DEF DropEarly, pinVars
<1> QED BY <1>1, FailStep, Zenon

\* A dropped call on a pin leaves what the instance has met out of taint_seen,
\* which is what cut records.
LEMMA DropInvokeStep ==
  ASSUME HostInv, NEW t \in Tasks, DropInvoke(t)
  PROVE  HostInv'
<1> DEFINE r == task[t]
<1>1. r.pc = "host" /\ UNCHANGED <<pool, seen>>
  BY Zenon DEF DropInvoke, TaskAt
<1>2. CASE t \in CallTasks
  <2>1. Fail(t) /\ UNCHANGED <<pool, seen, cut>> /\ r.pc # "new"
    BY <1>1, <1>2, Zenon DEF DropInvoke
  <2> QED BY <2>1, FailStep, Zenon
<1>3. CASE t \notin CallTasks
  <2>1. t \in Pins /\ seen \in [Pins -> BOOLEAN] /\ cut \in [Pins -> BOOLEAN]
    BY <1>3, Zenon DEF Tasks, HostInv
  <2>2. r.pc \in {"begin", "guest", "host"}
    BY <1>1, Zenon
  <2>3. /\ r.pc \in Running /\ task \in [Tasks -> TaskRecords] /\ r \in TaskRecords
        /\ r.inst \in Instances /\ r.result \in Results
    BY <2>2, GuestFacts, Zenon
  <2>4. task' = [task EXCEPT ![t] = RunsOn(r, "held", r.inst, FALSE, r.result)]
    BY <1>3, <2>3, Zenon DEF DropInvoke, RunsOn, TaskRecords
  <2>5. cut' = [cut EXCEPT ![t] = TRUE]
    BY <1>3, Zenon DEF DropInvoke
  <2>6. seen' \in [Pins -> BOOLEAN] /\ cut' \in [Pins -> BOOLEAN] /\ cut'[t]
        /\ \A u \in Pins : u # t => seen'[u] = seen[u] /\ cut'[u] = cut[u]
    BY <1>1, <2>1, <2>5, Zenon
  <2>7. t \in Pins => /\ "held" = "held" /\ ~cut'[t] => (r.inst.exposed => seen'[t])
                      /\ "held" # "held" /\ ~cut'[t] => (r.inst.exposed => FALSE)
                      /\ ~(cut'[t] /\ "held" \in {"held", "begin"}) => (r.result.exposed => r.result.taint)
    BY <2>6, Zenon
  <2>8. FALSE \in BOOLEAN /\ "held" \in Running
    BY Zenon DEF Running
  <2> HIDE DEF r
  <2> QED BY <1>1, <1>3, <2>3, <2>4, <2>6, <2>7, <2>8, RunStep, Zenon DEF r
<1> QED BY <1>2, <1>3, Zenon


-----------------------------------------------------------------------------
(* The sweeper, close, and the whole next-state relation                    *)

LEMMA PoolStep ==
  ASSUME HostInv, PoolOK(pool'), pool'.reserved = pool.reserved, UNCHANGED <<task, seen, cut>>
  PROVE  HostInv'
<1>1. Promised' = Promised
  BY Zenon DEF Promised, Promisees, PinnedWant
<1> QED BY <1>1, Zenon DEF HostInv

LEMMA HostInvInit ==
  ASSUME HostInit
  PROVE  HostInv
<1>1. PoolOK(pool) /\ task = [t \in Tasks |-> Fresh] /\ pool.reserved \in Nat
  <2>1. PoolOK(pool)
    BY EmptyPoolFits, Zenon DEF HostInit
  <2> QED BY <2>1, Zenon DEF HostInit, PoolOK, Counted, Pools
<1>2. seen \in [Pins -> BOOLEAN] /\ cut \in [Pins -> BOOLEAN]
  BY Zenon DEF HostInit
<1>3. task \in [Tasks -> TaskRecords] /\ \A t \in Tasks : TaskOK(t, task[t], seen[t], cut[t])
  BY <1>1, FreshRecord, FreshOK, Zenon
<1>4. Promised = 0
  <2> DEFINE w == [t \in Promisees |-> PinnedWant(t)]
  <2>1. Promisees = {}
    <3>1. \A t \in Pins : t \in Tasks /\ task[t].pc = "new"
      BY <1>1, FreshRecord, Zenon DEF Tasks
    <3> QED BY <3>1, Zenon DEF Promisees
  <2>2. w \in [{} -> Nat] /\ IsFiniteSet({})
    BY <2>1, FS_EmptySet, Zenon
  <2> HIDE DEF w
  <2>3. PICK f : Tallies(f, w, SUBSET {})
    BY <2>2, TallyExists, Zenon
  <2>4. SumFunction(w) = f[{}]
    BY <2>2, <2>3, SumIsTally, Zenon
  <2>5. f[{}] = 0
    BY <2>3, Zenon DEF Tallies
  <2> QED BY <2>4, <2>5, Zenon DEF Promised, w
<1> QED BY <1>1, <1>2, <1>3, <1>4 DEF HostInv

LEMMA HostInvNext ==
  ASSUME HostInv, [HostNext]_wasmVars
  PROVE  HostInv'
<1>1. ASSUME NEW t \in Tasks, HostStep(t) PROVE HostInv'
  BY <1>1, QueueSteps, NotifyStep, AcquireStep, ReserveStep, InstantiateStep, BeginGuestStep, EndSteps, Zenon
     DEF HostStep
<1>2. ASSUME NEW t \in Tasks, Stopped(t) PROVE HostInv'
  BY <1>2, EndSteps, Zenon DEF Stopped
<1>3. ASSUME NEW t \in Tasks, GuestStep(t) PROVE HostInv'
  BY <1>3, GrowStep, CapabilitySteps, EndSteps, Zenon DEF GuestStep
<1>4. ASSUME NEW t \in Tasks, OwnerStep(t) PROVE HostInv'
  BY <1>4, StartStep, PinnedCallStep, ClosePinnedStep, DropEarlyStep, DropInvokeStep, Zenon DEF OwnerStep
<1>5. CASE SweepPool
  <2>1. PICK n \in 1..Len(pool.idle) : pool' = Sweep(pool, n)
    BY <1>5, Zenon DEF SweepPool
  <2>2. UNCHANGED <<task, seen, cut>> /\ PoolOK(pool)
    BY <1>5, Zenon DEF SweepPool, pinVars, HostInv
  <2>3. PoolOK(pool') /\ pool'.reserved = pool.reserved
    BY <2>1, <2>2, SweepFits, Zenon
  <2> QED BY <2>2, <2>3, PoolStep, Zenon
<1>6. CASE ClosePool
  <2>1. pool' = CloseAll(pool) /\ UNCHANGED <<task, seen, cut>> /\ PoolOK(pool)
    BY <1>6, Zenon DEF ClosePool, pinVars, HostInv
  <2>2. PoolOK(pool') /\ pool'.reserved = pool.reserved
    BY <2>1, CloseAllFits, Zenon
  <2> QED BY <2>1, <2>2, PoolStep, Zenon
<1>7. CASE BeginClose \/ CloseTiers \/ UNCHANGED wasmVars
  <2>1. UNCHANGED <<pool, task, seen, cut>>
    BY <1>7, Zenon DEF BeginClose, CloseTiers, wasmVars, pinVars
  <2>2. PoolOK(pool') /\ pool'.reserved = pool.reserved
    BY <2>1, Zenon DEF HostInv
  <2> QED BY <2>1, <2>2, PoolStep, Zenon
<1> QED BY <1>1, <1>2, <1>3, <1>4, <1>5, <1>6, <1>7, Zenon DEF HostNext

LEMMA HostAlways == HostSpec => []HostInv
<1>1. HostInit => HostInv
  BY HostInvInit, Zenon
<1>2. HostInv /\ [HostNext]_wasmVars => HostInv'
  BY HostInvNext, Zenon
<1> QED BY <1>1, <1>2, PTL DEF HostSpec

\* In every interleaving of calls, pins, dropped futures, sweeps and close, for
\* any number of tasks and any budget, the pool's count and bytes are those of the
\* idle instances, these stay inside what the reservations leave of the budget,
\* and no reservation a pin still relies on has been given away (pool.rs).
THEOREM PoolStaysInBudget == HostSpec => []PoolAccounts
<1>1. HostInv => PoolAccounts
  BY Zenon DEF HostInv, PoolOK, Counted, PoolAccounts
<1> QED BY <1>1, HostAlways, PTL

\* The pool never hands out an instance that has met untrusted bytes since it was
\* last sanitized, and a call runs only in an instance of its own module,
\* principal, tier and capabilities (pool.rs:16-27, call.rs:513-521).
THEOREM ReusedInstancesAreClean == HostSpec => []ReuseIsClean
<1>1. ASSUME HostInv PROVE ReuseIsClean
  <2>1. \A i \in DOMAIN pool.idle : ~pool.idle[i].exposed /\ ~pool.idle[i].dead
    <3>1. pool.idle \in Seq(CleanInstances)
      BY <1>1, Zenon DEF HostInv, PoolOK, Counted, Pools
    <3>2. \A i \in DOMAIN pool.idle : pool.idle[i] \in CleanInstances
      BY <3>1
    <3>3. \A x \in CleanInstances : ~x.exposed /\ ~x.dead
      BY Zenon DEF CleanInstances
    <3> QED BY <3>2, <3>3, Zenon
  <2>2. ASSUME NEW t \in CallTasks, task[t].inst # NoInst
        PROVE  task[t].inst.key = KeyOf(task[t].req) /\ CheckModule(task[t].req)
    <3>1. TaskOK(t, task[t], seen[t], cut[t])
      BY <1>1, Zenon DEF HostInv, Tasks
    <3>2. task[t].pc \in {"held", "begin", "guest", "host"} /\ task[t].inst.key = KeyOf(task[t].req) /\ CallOK(task[t])
      BY <2>2, <3>1, Zenon DEF TaskOK
    <3> QED BY <3>2, Zenon DEF CallOK
  <2> QED BY <2>1, <2>2, Zenon DEF ReuseIsClean
<1> QED BY <1>1, HostAlways, PTL

\* A call that met untrusted bytes, its own or those an earlier call left in a
\* pinned instance, reports itself untrusted however it ends, unless a call on
\* that pin was dropped half way (call.rs:444-448, pinned.rs:144-151).
THEOREM MetTaintIsReported == HostSpec => []TaintIsReported
<1>1. ASSUME HostInv PROVE TaintIsReported
  <2>1. ASSUME NEW t \in Tasks, task[t].result.exposed, ~(t \in Pins /\ cut[t]) PROVE task[t].result.taint
    <3>1. TaskOK(t, task[t], seen[t], cut[t])
      BY <1>1, Zenon DEF HostInv
    <3>2. CASE t \in CallTasks
      BY <2>1, <3>1, <3>2, Zenon DEF TaskOK, CallOK
    <3>3. CASE t \in Pins
      BY <2>1, <3>1, <3>3, Zenon DEF TaskOK, PinOK
    <3> QED BY <3>2, <3>3, Zenon DEF Tasks
  <2> QED BY <2>1, Zenon DEF TaintIsReported
<1> QED BY <1>1, HostAlways, PTL
=============================================================================
