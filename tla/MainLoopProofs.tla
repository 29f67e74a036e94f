------------------------------- MODULE MainLoopProofs -------------------------
(***************************************************************************)
(* Which job a pass of the scheduler tries next and when an orphan is        *)
(* killed, for any configuration, nodes and workers; and, for the proofs     *)
(* about resources, what the fetched nodes look like and what charging them  *)
(* does.                                                                     *)
(***************************************************************************)
EXTENDS MainLoop, FiniteSetTheorems, WellFoundedInduction, TLAPS

(* The provers, in this order: most leaves are about sets and functions, which *)
(* is what Zenon does, and the rest needs arithmetic.                          *)
USE ZenonT(3), SMTT(20), ZenonT(20)

-----------------------------------------------------------------------------
(* Induction, sums and minima *)

(* A nonempty set of naturals has a least element. *)
LEMMA LeastNatural ==
    ASSUME NEW S \in SUBSET Nat, S # {}
    PROVE  \E m \in S : \A n \in S : m <= n
<1>. DEFINE Less == OpToRel(<, Nat)
<1>1. IsWellFoundedOn(Less, Nat)
  BY NatLessThanWellFounded
<1>2. \A n, m \in Nat : n < m => <<n, m>> \in Less
  BY Zenon DEF OpToRel
<1>. HIDE DEF Less
<1>3. PICK m \in S : \A n \in S : ~(<<n, m>> \in Less)
  BY <1>1, WFMin
<1>4. \A n \in S : n \in Nat
  OBVIOUS
<1>5. \A n \in S : ~(n < m)
  BY <1>2, <1>3, <1>4, Zenon
<1>. QED
  BY <1>4, <1>5

(* What induction on naturals comes down to: the least of the values for which *)
(* a claim fails follows one for which it holds, or is 0.                      *)
LEMMA LeastFailure ==
    ASSUME NEW Bad \in SUBSET Nat, Bad # {}
    PROVE  \E m \in Bad : m \in Nat /\ m - 1 \notin Bad
<1>1. PICK m \in Bad : \A n \in Bad : m <= n
  BY LeastNatural
<1>2. m \in Nat
  OBVIOUS
<1>3. m - 1 \notin Bad
  BY <1>1, <1>2
<1>. QED
  BY <1>2, <1>3

\* The element that a sum takes first, and the equation of its partial sums
First(s) == CHOOSE x \in s : TRUE
PartialSums(f, D, g) ==
  g = [s \in D |-> IF s = {} THEN 0 ELSE f[First(s)] + g[s \ {First(s)}]]
UpTo(S, k) == {s \in SUBSET S : Cardinality(s) <= k}

\* What a sum takes first is an element, and one fewer remain.
LEMMA FirstIn ==
  ASSUME NEW s, s # {}, IsFiniteSet(s)
  PROVE  /\ First(s) \in s /\ IsFiniteSet(s \ {First(s)})
         /\ Cardinality(s) \in Nat /\ Cardinality(s \ {First(s)}) = Cardinality(s) - 1
<1>1. First(s) \in s
  BY DEF First
<1>. QED
  BY <1>1, FS_RemoveElement, FS_CardinalityType

\* There are partial sums of the subsets of up to k elements.
LEMMA PartialSumsExistTo ==
  ASSUME NEW f, NEW S, IsFiniteSet(S), NEW k \in Nat
  PROVE  \E g : PartialSums(f, UpTo(S, k), g)
<1>. USE DEF UpTo
<1>. DEFINE D(m) == UpTo(S, m)
            Bad == {m \in Nat : ~ \E g : PartialSums(f, D(m), g)}
<1>. SUFFICES Bad = {}
  OBVIOUS
<1>. SUFFICES ASSUME Bad # {}  PROVE FALSE
  OBVIOUS
<1>1. PICK m \in Bad : m \in Nat /\ m - 1 \notin Bad
  <2>1. Bad \in SUBSET Nat
    OBVIOUS
  <2>. HIDE DEF Bad
  <2>. QED
    BY <2>1, LeastFailure
<1>2. \A s \in SUBSET S : IsFiniteSet(s) /\ Cardinality(s) \in Nat
  BY FS_Subset, FS_CardinalityType
<1>3. CASE m = 0
  <2>1. \A s \in D(0) : s = {}
    BY <1>2, FS_EmptySet
  <2>2. PartialSums(f, D(0), [s \in D(0) |-> 0])
    BY <2>1 DEF PartialSums
  <2>. QED
    BY <1>1, <1>3, <2>2
<1>4. CASE m # 0
  <2>0. m \in Nat /\ m - 1 \in Nat
    BY <1>1, <1>4
  <2>1. PICK g : PartialSums(f, D(m - 1), g)
    BY <1>1, <2>0
  <2>. DEFINE h == [s \in D(m) |-> IF s = {} THEN 0 ELSE f[First(s)] + g[s \ {First(s)}]]
  <2>2. \A s \in D(m) : s # {} => s \ {First(s)} \in D(m - 1) /\ s \ {First(s)} \in D(m)
    <3>. SUFFICES ASSUME NEW s \in D(m), s # {}
                  PROVE  s \ {First(s)} \in D(m - 1) /\ s \ {First(s)} \in D(m)
      OBVIOUS
    <3>1. Cardinality(s) \in Nat /\ Cardinality(s \ {First(s)}) = Cardinality(s) - 1
      BY <1>2, FirstIn
    <3>2. Cardinality(s \ {First(s)}) <= m - 1 /\ Cardinality(s \ {First(s)}) <= m
      BY <2>0, <3>1
    <3>. QED
      BY <3>2
  <2>3. \A s \in D(m - 1) : g[s] = IF s = {} THEN 0 ELSE f[First(s)] + g[s \ {First(s)}]
    BY <2>1 DEF PartialSums
  <2>4. \A s \in D(m - 1) : s \in D(m)
    BY <1>2, <2>0
  <2>5. \A s \in D(m - 1) : h[s] = g[s]
    BY <2>3, <2>4
  <2>6. \A s \in D(m) : h[s] = IF s = {} THEN 0 ELSE f[First(s)] + h[s \ {First(s)}]
    BY <2>2, <2>5
  <2>7. h = [s \in D(m) |-> IF s = {} THEN 0 ELSE f[First(s)] + h[s \ {First(s)}]]
    <3>1. \A s \in D(m) : (IF s = {} THEN 0 ELSE f[First(s)] + g[s \ {First(s)}])
                           = IF s = {} THEN 0 ELSE f[First(s)] + h[s \ {First(s)}]
      BY <2>6
    <3>2. h = [s \in D(m) |-> IF s = {} THEN 0 ELSE f[First(s)] + g[s \ {First(s)}]]
      OBVIOUS
    <3>. HIDE DEF h, D, UpTo
    <3>. QED
      BY <3>1, <3>2, Zenon
  <2>8. PartialSums(f, D(m), h)
    <3>. HIDE DEF h, D, UpTo
    <3>. QED  BY <2>7 DEF PartialSums
  <2>. QED
    BY <1>1, <2>8
<1>. QED
  BY <1>3, <1>4

\* SumFunctionOnSet is the last of the partial sums that it chooses.
LEMMA SumIsPartialSum ==
  ASSUME NEW f, NEW S, IsFiniteSet(S)
  PROVE  \E g : PartialSums(f, SUBSET S, g) /\ SumFunctionOnSet(f, S) = g[S]
<1>1. Cardinality(S) \in Nat /\ SUBSET S = UpTo(S, Cardinality(S))
  BY FS_Subset, FS_CardinalityType DEF UpTo
<1>2. \E g : PartialSums(f, SUBSET S, g)
  <2>1. \E g : PartialSums(f, UpTo(S, Cardinality(S)), g)
    BY <1>1, PartialSumsExistTo
  <2>. QED
    BY <1>1, <2>1, Zenon
<1>3. PartialSums(f, SUBSET S, CHOOSE g : PartialSums(f, SUBSET S, g))
  BY <1>2
<1>4. SumFunctionOnSet(f, S) = (CHOOSE g : PartialSums(f, SUBSET S, g))[S]
  BY DEF SumFunctionOnSet, FoldFunctionOnSet, MapThenFoldSet, PartialSums, First
<1>. QED
  BY <1>3, <1>4

\* Partial sums depend on the values that they add up, and on nothing else.
LEMMA PartialSumsAgree ==
  ASSUME NEW S, NEW f, NEW g, NEW F, NEW G, NEW s \in SUBSET S, IsFiniteSet(s),
         PartialSums(f, SUBSET S, F), PartialSums(g, SUBSET s, G),
         \A x \in s : f[x] = g[x]
  PROVE  F[s] = G[s]
<1>. DEFINE Bad == {k \in Nat : \E u \in SUBSET s : Cardinality(u) = k /\ F[u] # G[u]}
<1>0. \A u \in SUBSET s : IsFiniteSet(u) /\ Cardinality(u) \in Nat
  BY FS_Subset, FS_CardinalityType
<1>. SUFFICES Bad = {}
  BY <1>0
<1>. SUFFICES ASSUME Bad # {}  PROVE FALSE
  OBVIOUS
<1>1. PICK m \in Bad : m \in Nat /\ m - 1 \notin Bad
  <2>1. Bad \in SUBSET Nat
    OBVIOUS
  <2>. HIDE DEF Bad
  <2>. QED
    BY <2>1, LeastFailure
<1>2. PICK u \in SUBSET s : Cardinality(u) = m /\ F[u] # G[u]
  BY <1>1
<1>3. \A v \in SUBSET s :
        /\ F[v] = IF v = {} THEN 0 ELSE f[First(v)] + F[v \ {First(v)}]
        /\ G[v] = IF v = {} THEN 0 ELSE g[First(v)] + G[v \ {First(v)}]
  BY DEF PartialSums
<1>4. u # {}
  BY <1>2, <1>3
<1>5. /\ First(u) \in s /\ u \ {First(u)} \in SUBSET s
      /\ Cardinality(u \ {First(u)}) = m - 1 /\ m - 1 \in Nat
  BY <1>0, <1>2, <1>4, FirstIn
<1>6. m - 1 \notin Bad
  BY <1>1
<1>7. F[u \ {First(u)}] = G[u \ {First(u)}]
  BY <1>5, <1>6
<1>. QED
  BY <1>2, <1>3, <1>4, <1>5, <1>7

(* Functions with the same values have the same sum. *)
LEMMA SumCongruence ==
  ASSUME NEW S, IsFiniteSet(S), NEW f, NEW g, \A x \in S : f[x] = g[x]
  PROVE  SumFunctionOnSet(f, S) = SumFunctionOnSet(g, S)
<1>1. PICK F : PartialSums(f, SUBSET S, F) /\ SumFunctionOnSet(f, S) = F[S]
  BY SumIsPartialSum
<1>2. PICK G : PartialSums(g, SUBSET S, G) /\ SumFunctionOnSet(g, S) = G[S]
  BY SumIsPartialSum
<1>3. F[S] = G[S]
  BY <1>1, <1>2, PartialSumsAgree
<1>. QED
  BY <1>1, <1>2, <1>3

\* The sum over no elements is 0.
LEMMA SumOfNothing ==
  ASSUME NEW f
  PROVE  SumFunctionOnSet(f, {}) = 0
<1>1. PICK g : PartialSums(f, SUBSET {}, g) /\ SumFunctionOnSet(f, {}) = g[{}]
  BY SumIsPartialSum, FS_EmptySet
<1>. QED
  BY <1>1 DEF PartialSums

\* A sum is its first term plus the sum of the others.
LEMMA SumFromFirst ==
  ASSUME NEW S, IsFiniteSet(S), S # {}, NEW f
  PROVE  SumFunctionOnSet(f, S) = f[First(S)] + SumFunctionOnSet(f, S \ {First(S)})
<1>1. PICK g : PartialSums(f, SUBSET S, g) /\ SumFunctionOnSet(f, S) = g[S]
  BY SumIsPartialSum
<1>2. IsFiniteSet(S \ {First(S)})
  BY FirstIn
<1>3. PICK h : /\ PartialSums(f, SUBSET (S \ {First(S)}), h)
               /\ SumFunctionOnSet(f, S \ {First(S)}) = h[S \ {First(S)}]
  BY <1>2, SumIsPartialSum
<1>4. g[S \ {First(S)}] = h[S \ {First(S)}]
  BY <1>1, <1>2, <1>3, PartialSumsAgree
<1>5. g[S] = f[First(S)] + g[S \ {First(S)}]
  BY <1>1 DEF PartialSums
<1>. QED
  BY <1>1, <1>3, <1>4, <1>5

(* A sum of naturals is one, and any element may be taken out of it. *)
LEMMA SumIsNatural ==
  ASSUME NEW S, IsFiniteSet(S), NEW f, \A x \in S : f[x] \in Nat
  PROVE  SumFunctionOnSet(f, S) \in Nat
<1>. DEFINE Bad == {k \in Nat : \E u \in SUBSET S : Cardinality(u) = k /\ SumFunctionOnSet(f, u) \notin Nat}
<1>0. \A u \in SUBSET S : IsFiniteSet(u) /\ Cardinality(u) \in Nat
  BY FS_Subset, FS_CardinalityType
<1>. SUFFICES Bad = {}
  BY <1>0
<1>. SUFFICES ASSUME Bad # {}  PROVE FALSE
  OBVIOUS
<1>1. PICK m \in Bad : m \in Nat /\ m - 1 \notin Bad
  <2>1. Bad \in SUBSET Nat
    OBVIOUS
  <2>. HIDE DEF Bad
  <2>. QED
    BY <2>1, LeastFailure
<1>2. PICK u \in SUBSET S : Cardinality(u) = m /\ SumFunctionOnSet(f, u) \notin Nat
  BY <1>1
<1>3. u # {}
  BY <1>2, SumOfNothing
<1>4. /\ First(u) \in S /\ u \ {First(u)} \in SUBSET S
      /\ Cardinality(u \ {First(u)}) = m - 1 /\ m - 1 \in Nat
  BY <1>0, <1>2, <1>3, FirstIn
<1>5. m - 1 \notin Bad
  BY <1>1
<1>6. SumFunctionOnSet(f, u \ {First(u)}) \in Nat
  BY <1>4, <1>5
<1>7. SumFunctionOnSet(f, u) = f[First(u)] + SumFunctionOnSet(f, u \ {First(u)})
  BY <1>0, <1>3, SumFromFirst
<1>. QED
  BY <1>2, <1>4, <1>6, <1>7

\* A sum is any of its terms plus the sum of the others, whichever it takes first.
LEMMA SumWithout ==
  ASSUME NEW S, IsFiniteSet(S), NEW f, \A x \in S : f[x] \in Nat, NEW y \in S
  PROVE  SumFunctionOnSet(f, S) = f[y] + SumFunctionOnSet(f, S \ {y})
<1>. DEFINE Holds(u, x) == SumFunctionOnSet(f, u) = f[x] + SumFunctionOnSet(f, u \ {x})
            Bad == {k \in Nat : \E u \in SUBSET S : Cardinality(u) = k /\ \E x \in u : ~ Holds(u, x)}
<1>0. \A u \in SUBSET S : /\ IsFiniteSet(u) /\ Cardinality(u) \in Nat
                          /\ SumFunctionOnSet(f, u) \in Nat
  BY FS_Subset, FS_CardinalityType, SumIsNatural
<1>. HIDE DEF Holds
<1>. SUFFICES Bad = {}
  BY <1>0 DEF Holds
<1>. SUFFICES ASSUME Bad # {}  PROVE FALSE
  OBVIOUS
<1>1. PICK m \in Bad : m \in Nat /\ m - 1 \notin Bad
  <2>1. Bad \in SUBSET Nat
    OBVIOUS
  <2>. HIDE DEF Bad
  <2>. QED
    BY <2>1, LeastFailure
<1>2a. PICK u \in SUBSET S : Cardinality(u) = m /\ \E x \in u : ~ Holds(u, x)
  BY <1>1
<1>2. PICK x \in u : Cardinality(u) = m /\ ~ Holds(u, x)
  BY <1>2a
<1>. DEFINE c == First(u)
<1>3. SumFunctionOnSet(f, u) = f[c] + SumFunctionOnSet(f, u \ {c}) /\ c \in u
  BY <1>0, <1>2, SumFromFirst, FirstIn
<1>4. c # x
  BY <1>2, <1>3 DEF Holds
<1>5. \A z \in u : Cardinality(u \ {z}) = m - 1 /\ m - 1 \in Nat /\ u \ {z} \in SUBSET S
  <2>. SUFFICES ASSUME NEW z \in u
                PROVE  Cardinality(u \ {z}) = m - 1 /\ m - 1 \in Nat /\ u \ {z} \in SUBSET S
    OBVIOUS
  <2>1. IsFiniteSet(u) /\ IsFiniteSet(u \ {z}) /\ u \ {z} \in SUBSET S
    BY <1>0, FS_RemoveElement
  <2>2. Cardinality(u \ {z}) = Cardinality(u) - 1
    BY <2>1, FS_RemoveElement
  <2>3. Cardinality(u \ {z}) \in Nat
    BY <1>0, <2>1
  <2>. QED
    BY <1>2, <2>1, <2>2, <2>3
<1>6. m - 1 \notin Bad
  BY <1>1
<1>7. Holds(u \ {c}, x) /\ Holds(u \ {x}, c)
  <2>1. x \in u \ {c} /\ c \in u \ {x}
    BY <1>2, <1>3, <1>4
  <2>. HIDE DEF c
  <2>. QED  BY <1>2, <1>3, <1>5, <1>6, <2>1
<1>8. (u \ {c}) \ {x} = (u \ {x}) \ {c}
  OBVIOUS
<1>9. /\ SumFunctionOnSet(f, u \ {c}) = f[x] + SumFunctionOnSet(f, (u \ {x}) \ {c})
      /\ SumFunctionOnSet(f, u \ {x}) = f[c] + SumFunctionOnSet(f, (u \ {x}) \ {c})
  BY <1>7, <1>8 DEF Holds
<1>10. /\ f[x] \in Nat /\ f[c] \in Nat
       /\ SumFunctionOnSet(f, (u \ {x}) \ {c}) \in Nat
  BY <1>0, <1>2, <1>3
<1>11. SumFunctionOnSet(f, u) = f[x] + SumFunctionOnSet(f, u \ {x})
  <2>. HIDE DEF c
  <2>. QED  BY <1>3, <1>9, <1>10
<1>. QED
  BY <1>2, <1>11 DEF Holds

-----------------------------------------------------------------------------
(* The orders of the policies *)

(* Min of a nonempty set of naturals is its least element. *)
LEMMA MinIsLeast ==
  ASSUME NEW S \in SUBSET Nat, S # {}
  PROVE  Min(S) \in S /\ \A n \in S : Min(S) <= n
BY LeastNatural DEF Min

\* One turn around a list of length L.
LEMMA Wrapped ==
  ASSUME NEW L \in Nat, L > 0, NEW x \in Nat, x < 2 * L
  PROVE  x % L = IF x < L THEN x ELSE x - L
<1>1. x < L => x % L = x
  BY SMTT(20)
<1>2. x >= L => x % L = x - L
  BY SMTT(20)
<1>. QED
  BY <1>1, <1>2

\* A permutation of a finite set has each of its elements.
LEMMA PermutationCovers ==
  ASSUME NEW S, IsFiniteSet(S), NEW o \in OrdersOf(S)
  PROVE  /\ Len(o) \in Nat /\ o \in [1..Len(o) -> S] /\ DOMAIN o = 1..Len(o)
         /\ \A x \in S : \E i \in 1..Len(o) : o[i] = x
         /\ \A i, k \in 1..Len(o) : o[i] = o[k] => i = k
<1>. DEFINE n == Cardinality(S)
<1>1. n \in Nat
  BY FS_CardinalityType
<1>2. o \in [1..n -> S] /\ \A i, k \in 1..n : i # k => o[i] # o[k]
  BY DEF OrdersOf, Bijection, Injection, IsInjective
<1>3. o \in Seq(S)
  BY <1>1, <1>2
<1>4. Len(o) = n
  <2>1. Len(o) \in Nat /\ DOMAIN o = 1..Len(o)
    BY <1>3
  <2>. HIDE DEF n
  <2>2. DOMAIN o = 1..n
    BY <1>2
  <2>3. ASSUME Len(o) < n  PROVE FALSE
    <3>1. n \in 1..n /\ n \notin 1..Len(o)
      BY <1>1, <2>1, <2>3
    <3>. QED  BY <2>1, <2>2, <3>1
  <2>4. ASSUME n < Len(o)  PROVE FALSE
    <3>1. Len(o) \in 1..Len(o) /\ Len(o) \notin 1..n
      BY <1>1, <2>1, <2>4
    <3>. QED  BY <2>1, <2>2, <3>1
  <2>5. \A a, b \in Nat : a < b \/ b < a \/ a = b
    OBVIOUS
  <2>. QED
    BY <1>1, <2>1, <2>3, <2>4, <2>5, Zenon
<1>5. o \in Injection(1..n, S)
  BY <1>2 DEF Injection, IsInjective
<1>6. IsFiniteSet(1..n) /\ Cardinality(1..n) = n
  BY <1>1, FS_Interval
<1>7. o \in Surjection(1..n, S)
  <2>. HIDE DEF n
  <2>. QED  BY <1>5, <1>6, FS_Injection DEF n
<1>. QED
  <2>. HIDE DEF n
  <2>. QED  BY <1>1, <1>2, <1>4, <1>7 DEF Surjection

(* What Cyclically finds: the first job with nodes from position i on, or,     *)
(* when there is none, the first from the start.                               *)
FirstFrom(o, todo, i, q) ==
  /\ todo[o[q]] # {}
  /\ \/ q >= i /\ \A p \in i..(q - 1) : todo[o[p]] = {}
     \/ /\ q < i /\ \A p \in i..Len(o) : todo[o[p]] = {}
        /\ \A p \in 1..(q - 1) : todo[o[p]] = {}

\* RoundRobinSchedulerPolicy and the others find the next job that has nodes left.
LEMMA CyclicallyFinds ==
  ASSUME NEW todo, IsFiniteSet(DOMAIN todo), NEW o \in OrdersOf(DOMAIN todo),
         NEW i \in 1..(Len(o) + 1), \E j \in DOMAIN todo : todo[j] # {}
  PROVE  \E q \in 1..Len(o) : Cyclically(o, todo, i) = o[q] /\ FirstFrom(o, todo, i, q)
<1>. DEFINE L == Len(o)
            idx(d) == ((i - 1 + d) % L) + 1
            K == {d \in 0..(L - 1) : todo[o[idx(d)]] # {}}
            k == Min(K)
<1>1. /\ L \in Nat /\ \A j \in DOMAIN todo : \E p \in 1..L : o[p] = j
  BY PermutationCovers
<1>2. PICK p \in 1..L : todo[o[p]] # {}
  BY <1>1
<1>3. L > 0 /\ L \in Nat /\ i \in Nat /\ i >= 1 /\ i <= L + 1
  BY <1>1, <1>2
<1>4. \A d \in 0..(L - 1) : idx(d) = IF i + d <= L THEN i + d ELSE i + d - L
  <2>. SUFFICES ASSUME NEW d \in 0..(L - 1)
                PROVE  idx(d) = IF i + d <= L THEN i + d ELSE i + d - L
    OBVIOUS
  <2>. HIDE DEF L
  <2>1. (i - 1 + d) \in Nat /\ (i - 1 + d) < 2 * L
    BY <1>3
  <2>2. (i - 1 + d) % L = IF (i - 1 + d) < L THEN i - 1 + d ELSE i - 1 + d - L
    BY <1>3, <2>1, Wrapped
  <2>. QED
    BY <1>3, <2>2
<1>. HIDE DEF L, idx
<1>5. \A x \in 1..L : \E d \in 0..(L - 1) : idx(d) = x
  <2>. SUFFICES ASSUME NEW x \in 1..L  PROVE \E d \in 0..(L - 1) : idx(d) = x
    OBVIOUS
  <2>1. CASE x >= i
    <3>1. x - i \in 0..(L - 1) /\ idx(x - i) = x
      BY <1>3, <1>4, <2>1
    <3>. QED  BY <3>1
  <2>2. CASE x < i
    <3>1. x - i + L \in 0..(L - 1)
      BY <1>3, <2>2
    <3>2. idx(x - i + L) = x
      BY <1>3, <1>4, <2>2, <3>1
    <3>. QED  BY <3>1, <3>2
  <2>. QED  BY <1>3, <2>1, <2>2
<1>6. K # {} /\ K \in SUBSET Nat
  <2>1. PICK d \in 0..(L - 1) : idx(d) = p
    BY <1>5
  <2>2. d \in K
    BY <1>2, <2>1
  <2>3. \A e \in 0..(L - 1) : e \in Nat
    BY <1>3
  <2>. QED  BY <2>2, <2>3
<1>7. k \in K /\ \A d \in K : k <= d
  <2>. HIDE DEF K
  <2>. QED  BY <1>6, MinIsLeast
<1>8. k \in 0..(L - 1) /\ k \in Nat /\ todo[o[idx(k)]] # {}
  <2>. HIDE DEF k
  <2>. QED  BY <1>3, <1>7
<1>9. Cyclically(o, todo, i) = o[idx(k)]
  BY DEF Cyclically, L, idx
<1>. DEFINE q == idx(k)
<1>10. \A d \in 0..(k - 1) : todo[o[idx(d)]] = {}
  <2>. HIDE DEF k
  <2>. QED  BY <1>3, <1>7, <1>8
<1>. HIDE DEF k, K
<1>11. q \in 1..L
  BY <1>3, <1>4, <1>8
<1>12. CASE i + k <= L
  <2>1. q = i + k
    BY <1>4, <1>8, <1>12
  <2>2. \A x \in i..(q - 1) : todo[o[x]] = {}
    <3>. SUFFICES ASSUME NEW x \in i..(q - 1)  PROVE todo[o[x]] = {}
      OBVIOUS
    <3>1. x - i \in 0..(k - 1) /\ x - i \in 0..(L - 1)
      BY <1>3, <1>8, <2>1
    <3>2. idx(x - i) = x
      BY <1>3, <1>4, <1>8, <1>12, <2>1, <3>1
    <3>. QED  BY <1>10, <3>1, <3>2
  <2>3. q >= i
    BY <1>3, <1>8, <2>1
  <2>. QED  BY <1>8, <1>9, <1>11, <2>2, <2>3 DEF L, FirstFrom
<1>13. CASE ~ (i + k <= L)
  <2>1. q = i + k - L /\ q < i
    BY <1>3, <1>4, <1>8, <1>13
  <2>2. \A x \in i..L : todo[o[x]] = {}
    <3>. SUFFICES ASSUME NEW x \in i..L  PROVE todo[o[x]] = {}
      OBVIOUS
    <3>1. x - i \in 0..(k - 1) /\ x - i \in 0..(L - 1)
      BY <1>3, <1>8, <1>13
    <3>2. idx(x - i) = x
      BY <1>3, <1>4, <3>1
    <3>. QED  BY <1>10, <3>1, <3>2
  <2>3. \A x \in 1..(q - 1) : todo[o[x]] = {}
    <3>. SUFFICES ASSUME NEW x \in 1..(q - 1)  PROVE todo[o[x]] = {}
      OBVIOUS
    <3>1. x - i + L \in 0..(k - 1) /\ x - i + L \in 0..(L - 1)
      BY <1>3, <1>8, <1>11, <1>13, <2>1
    <3>2. idx(x - i + L) = x
      BY <1>3, <1>4, <1>8, <2>1, <3>1
    <3>. QED  BY <1>10, <3>1, <3>2
  <2>. QED  BY <1>8, <1>9, <1>11, <2>1, <2>2, <2>3 DEF L, FirstFrom
<1>. QED
  BY <1>12, <1>13

-----------------------------------------------------------------------------
(* The shape of the loop and the grace of orphans *)

\* Between the start of a pass and its end
InPass == loop.pc \in {"try", "cut"}

(* The scheduler's record variables are records; a pass has the jobs of its    *)
(* configuration, and of every job nodes that it once might have tried.        *)
LoopShape ==
  /\ loop = [pc |-> loop.pc, time |-> loop.time, config |-> loop.config, nodes |-> loop.nodes]
  /\ loop.pc \in {"config", "update", "schedule", "try", "cut"}
  /\ loop.pc # "config" =>
       loop.config \in Contents /\ loop.nodes \in AllNodes \ {FetchError}

\* A pass
PassShape ==
  /\ pass = [order |-> pass.order, todo |-> pass.todo, job |-> pass.job, ran |-> pass.ran,
             orphans |-> pass.orphans, cands |-> pass.cands, started |-> pass.started,
             refused |-> pass.refused]
  /\ ~ InPass => pass = NoPass
  /\ InPass =>
       /\ pass.order \in JobOrders(Config, pass.cands)
       /\ pass.todo = [j \in JobsThatRun(Config) |-> pass.todo[j]]
       /\ pass.cands = [j \in JobsThatRun(Config) |-> pass.cands[j]]
       /\ \A j \in JobsThatRun(Config) :
            /\ pass.todo[j] \subseteq pass.cands[j]
            /\ pass.cands[j] \subseteq AtLevel(loop.nodes, Config.jobs[j].level)

\* A running task is the only one of its job and node, until the scheduler
\* crashes over that.
TasksInv ==
  /\ starts \in Nat
  /\ status = [t \in Tasks |-> status[t]]
  /\ \A t \in running : TaskOf(t) \in Tasks /\ t.inv \in Nat /\ t.inv < starts
  /\ crashed = "no" =>
       /\ \A t \in running : status[TaskOf(t)] = "running"
       /\ \A t, u \in running : TaskOf(t) = TaskOf(u) => t = u

\* The orphans of the pass, and the kill times of earlier passes: a kill time
\* is for the invocation that runs, unless that was started in this pass; then
\* the task is none of the pass's orphans, and KillOrphans drops the kill time.
GraceInv ==
  /\ OrphansGetTheirGrace
  /\ \A o, p \in pass.orphans : TaskOf(o) = TaskOf(p) => o = p
  /\ InPass => \A j \in JobsThatRun(Config) : \A n \in pass.todo[j] :
                 \A o \in pass.orphans : TaskOf(o) # <<j, NameOf(n)>>
  /\ crashed = "no" =>
       /\ \A o \in pass.orphans, t \in running : TaskOf(o) = TaskOf(t) => o = t
       /\ \A t \in running : TaskOf(t) \in DOMAIN killTimes =>
            \/ killTimes[TaskOf(t)].inv = t.inv
            \/ InPass /\ \A o \in pass.orphans : TaskOf(o) # TaskOf(t)

BasicInv == LoopShape /\ PassShape /\ TasksInv

-----------------------------------------------------------------------------
(* What the policy picks, and what one try does. *)

\* The jobs and nodes of a loop that has loaded them are those of the configuration.
LEMMA JobsAreKnown ==
  ASSUME LoopShape, loop.pc # "config"
  PROVE  /\ IsFiniteSet(JobsThatRun(Config)) /\ JobsThatRun(Config) \subseteq AllJobs
         /\ JobsThatRun(Config) \subseteq DOMAIN Config.jobs
         /\ \A n \in loop.nodes : NameOf(n) \in NodeNames
<1>1. loop.config \in Contents /\ loop.nodes \in AllNodes \ {FetchError}
  BY DEF LoopShape
<1>2. IsFiniteSet(DOMAIN Config.jobs) /\ DOMAIN Config.jobs \subseteq AllJobs
  BY <1>1, ConfigAssumption DEF Config
<1>3. JobsThatRun(Config) \subseteq DOMAIN Config.jobs
  BY DEF JobsThatRun
<1>4. \A n \in loop.nodes : NameOf(n) \in NodeNames
  BY <1>1 DEF NodeNames
<1>. QED
  BY <1>2, <1>3, <1>4, FS_Subset

\* Every policy tries a job that has nodes left.
LEMMA NextJobHasNodes ==
  ASSUME NEW config, NEW todo, IsFiniteSet(DOMAIN todo), NEW o \in OrdersOf(DOMAIN todo),
         NEW last, NEW ran, NEW j \in NextJobs(config, o, todo, last, ran)
  PROVE  j \in DOMAIN todo /\ todo[j] # {}
<1>. DEFINE pos == IF last \in DOMAIN todo THEN CHOOSE i \in DOMAIN o : o[i] = last ELSE 0
            stays == last \in DOMAIN todo /\ todo[last] # {}
                     /\ (~ ran \/ config.policy \in {"ranked_priority", "long_tail"})
<1>1. \E b \in DOMAIN todo : todo[b] # {}
  BY DEF NextJobs
<1>2. \/ stays /\ j = last
      \/ j \in RandomPicks(config, todo)
      \/ j = Cyclically(o, todo, pos + 1)
  BY <1>1 DEF NextJobs
<1>3. ASSUME j = Cyclically(o, todo, pos + 1)  PROVE j \in DOMAIN todo /\ todo[j] # {}
  <2>1. /\ Len(o) \in Nat /\ o \in [1..Len(o) -> DOMAIN todo] /\ DOMAIN o = 1..Len(o)
        /\ \A x \in DOMAIN todo : \E i \in 1..Len(o) : o[i] = x
    BY PermutationCovers
  <2>2. pos \in 0..Len(o)
    BY <2>1
  <2>3. pos + 1 \in 1..(Len(o) + 1)
    <3>. HIDE DEF pos
    <3>. QED  BY <2>1, <2>2
  <2>4. PICK q \in 1..Len(o) : Cyclically(o, todo, pos + 1) = o[q]
                                /\ FirstFrom(o, todo, pos + 1, q)
    <3>. HIDE DEF pos
    <3>. QED  BY <1>1, <2>3, CyclicallyFinds
  <2>. QED
    <3>1. o[q] \in DOMAIN todo /\ todo[o[q]] # {}
      BY <2>1, <2>4 DEF FirstFrom
    <3>. HIDE DEF pos
    <3>. QED  BY <1>3, <2>4, <3>1
<1>. QED
  BY <1>2, <1>3 DEF RandomPicks

\* Tried, field by field
LEMMA TriedPass ==
  ASSUME PassShape, InPass, NEW j \in JobsThatRun(Config), NEW n, NEW ran, NEW refused,
         pass' = Tried(j, n, ran, refused)
  PROVE  /\ pass' = [order |-> pass.order, todo |-> [pass.todo EXCEPT ![j] = @ \ {n}],
                     job |-> j, ran |-> ran, orphans |-> pass.orphans, cands |-> pass.cands,
                     started |-> IF ran THEN pass.started \cup {<<j, n>>} ELSE pass.started,
                     refused |-> pass.refused \cup refused]
         /\ pass'.order = pass.order /\ pass'.job = j /\ pass'.ran = ran
         /\ pass'.orphans = pass.orphans /\ pass'.cands = pass.cands
         /\ pass'.started = IF ran THEN pass.started \cup {<<j, n>>} ELSE pass.started
         /\ pass'.refused = pass.refused \cup refused
         /\ pass'.todo = [i \in JobsThatRun(Config) |-> pass'.todo[i]]
         /\ pass'.todo[j] = pass.todo[j] \ {n}
         /\ \A i \in JobsThatRun(Config) : i # j => pass'.todo[i] = pass.todo[i]
<1>1. pass' = [order |-> pass.order, todo |-> [pass.todo EXCEPT ![j] = @ \ {n}],
               job |-> j, ran |-> ran, orphans |-> pass.orphans, cands |-> pass.cands,
               started |-> IF ran THEN pass.started \cup {<<j, n>>} ELSE pass.started,
               refused |-> pass.refused \cup refused]
  BY DEF Tried, PassShape
<1>2. pass'.todo = [pass.todo EXCEPT ![j] = @ \ {n}]
  BY <1>1
<1>3. pass.todo = [i \in JobsThatRun(Config) |-> pass.todo[i]]
  BY DEF PassShape
<1>4. pass'.todo = [i \in JobsThatRun(Config) |-> pass'.todo[i]]
  BY <1>2, <1>3
<1>. QED
  BY <1>1, <1>2, <1>3, <1>4

\* The task that TryTask tries, and what may become of it
Trying(j, n) ==
  \/ DoesNotFit(j, n)
  \/ /\ Fits(left, SlotsFor(Config, Config.jobs[j], n))
     /\ \E answer \in FindWorker(Config, Config.jobs[j], n, KnownWorkers, healthy, workerLeft, pools) :
          /\ \/ IsRefused(j, n, answer)
             \/ IsStarted(j, n, answer)
          /\ LET host == RequiredHostForTask(Config.jobs[j], n)
             IN pools' = WithPool(pools, IF host = NoHost THEN AllWorkers ELSE host,
                                  [PoolFor(pools, host) EXCEPT !.next = answer.next])

\* A try is of one node of one job, which is refused or started.
LEMMA TriesOne ==
  ASSUME BasicInv, TryTask
  PROVE  /\ loop.pc = "try" /\ crashed = "no" /\ UNCHANGED <<now, healthy, killTimes, killed, flaps>>
         /\ \E j \in JobsThatRun(Config) :
              /\ j \in NextJobs(Config, pass.order, pass.todo, pass.job, pass.ran)
              /\ \E n \in pass.todo[j] : Trying(j, n)
<1>1. /\ loop.pc = "try" /\ crashed = "no" /\ UNCHANGED <<now, healthy, killTimes, killed, flaps>>
  BY DEF TryTask, At
<1>2. PICK j \in NextJobs(Config, pass.order, pass.todo, pass.job, pass.ran) :
        \E n \in pass.todo[j] : Trying(j, n)
  BY DEF TryTask, Trying
<1>3. IsFiniteSet(JobsThatRun(Config))
  BY <1>1, JobsAreKnown DEF BasicInv
<1>4. DOMAIN pass.todo = JobsThatRun(Config) /\ DOMAIN pass.cands = JobsThatRun(Config)
      /\ pass.order \in JobOrders(Config, pass.cands)
  BY <1>1 DEF BasicInv, PassShape, InPass
<1>5. pass.order \in OrdersOf(DOMAIN pass.todo)
  BY <1>4 DEF JobOrders
<1>6. j \in JobsThatRun(Config)
  BY <1>3, <1>4, <1>5, NextJobHasNodes
<1>. QED
  BY <1>1, <1>2, <1>6

\* What a try leaves alone
LEMMA TryingFrame ==
  ASSUME NEW j, NEW n, Trying(j, n), loop.pc = "try", LoopShape
  PROVE  /\ loop' = loop \/ loop' = [loop EXCEPT !.pc = "cut"]
         /\ loop'.config = loop.config /\ loop'.nodes = loop.nodes /\ loop'.time = loop.time
         /\ loop'.pc \in {"try", "cut"} /\ InPass /\ InPass' /\ Config' = Config
         /\ \E ran \in BOOLEAN, refused \in {{}, {<<j, n, healthy>>}} :
              pass' = Tried(j, n, ran, refused)
<1>1. loop' = loop \/ loop' = [loop EXCEPT !.pc = "cut"]
  BY DEF Trying, DoesNotFit, IsRefused, IsStarted
<1>2. \E ran \in BOOLEAN, refused \in {{}, {<<j, n, healthy>>}} : pass' = Tried(j, n, ran, refused)
  BY DEF Trying, DoesNotFit, IsRefused, IsStarted
<1>3. /\ loop'.config = loop.config /\ loop'.nodes = loop.nodes /\ loop'.time = loop.time
      /\ loop'.pc \in {"try", "cut"}
  BY <1>1 DEF LoopShape
<1>. QED
  BY <1>1, <1>2, <1>3 DEF InPass, Config

\* StartPass, when it does not crash
LEMMA PassStarts ==
  ASSUME BasicInv, StartPass, loop' # loop
  PROVE  /\ loop.pc = "schedule" /\ loop'.pc = "try" /\ ~ InPass /\ InPass'
         /\ crashed = "no" /\ NodesAreGrouped(Config, loop.nodes)
         /\ loop'.config = loop.config /\ loop'.nodes = loop.nodes /\ Config' = Config
         /\ UNCHANGED <<now, status, running, pools, healthy, workerLeft,
                         killTimes, killed, crashed, starts, flaps>>
         /\ \E first \in FirstGroups(loop.nodes) :
              left' = ChargeRunning(PackResources(Config, loop.nodes), running, first)
         /\ \E over \in SUBSET {t \in Tasks : status[t] = "backoff"} :
              pass'.todo = JobWithNodes(Config, loop.nodes,
                             [t \in Tasks |-> IF t \in over THEN "none" ELSE status[t]])
         /\ pass' = [order |-> pass'.order, todo |-> pass'.todo, job |-> NoHost, ran |-> FALSE,
                     orphans |-> pass'.orphans, cands |-> pass'.cands, started |-> {},
                     refused |-> {}]
         /\ pass'.order \in JobOrders(Config, pass'.todo)
         /\ pass'.orphans = Orphans(Config, loop.nodes, running)
         /\ pass'.cands = pass'.todo /\ pass'.job = NoHost /\ pass'.ran = FALSE
         /\ pass'.started = {} /\ pass'.refused = {}
<1>1. /\ loop.pc = "schedule" /\ crashed = "no" /\ NodesAreGrouped(Config, loop.nodes)
      /\ loop' = [loop EXCEPT !.pc = "try"] /\ crashed' = crashed
  BY DEF StartPass, At
<1>2. /\ loop'.config = loop.config /\ loop'.nodes = loop.nodes /\ Config' = Config
      /\ loop'.pc = "try" /\ InPass' /\ ~ InPass
  BY <1>1 DEF BasicInv, LoopShape, Config, InPass
<1>3. UNCHANGED <<now, status, running, pools, healthy, workerLeft,
                  killTimes, killed, crashed, starts, flaps>>
  BY <1>1 DEF StartPass
<1>4. \E first \in FirstGroups(loop.nodes) :
        left' = ChargeRunning(PackResources(Config, loop.nodes), running, first)
  BY <1>1 DEF StartPass
<1>5. PICK over \in SUBSET {t \in Tasks : status[t] = "backoff"} :
        LET todo == JobWithNodes(Config, loop.nodes,
                      [t \in Tasks |-> IF t \in over THEN "none" ELSE status[t]])
        IN \E order \in JobOrders(Config, todo) :
             pass' = [NoPass EXCEPT
                        !.order = order, !.todo = todo,
                        !.orphans = Orphans(Config, loop.nodes, running),
                        !.cands = todo]
  BY <1>1 DEF StartPass
<1>. DEFINE todo == JobWithNodes(Config, loop.nodes,
                      [t \in Tasks |-> IF t \in over THEN "none" ELSE status[t]])
<1>6. PICK order \in JobOrders(Config, todo) :
             pass' = [NoPass EXCEPT
                        !.order = order, !.todo = todo,
                        !.orphans = Orphans(Config, loop.nodes, running),
                        !.cands = todo]
  BY <1>5
<1>. HIDE DEF todo
<1>7. pass' = [order |-> order, todo |-> todo, job |-> NoHost, ran |-> FALSE,
               orphans |-> Orphans(Config, loop.nodes, running),
               cands |-> todo, started |-> {}, refused |-> {}]
  BY <1>6 DEF NoPass
<1>8. /\ pass'.order \in JobOrders(Config, pass'.todo) /\ pass'.todo = todo
      /\ pass'.orphans = Orphans(Config, loop.nodes, running)
      /\ pass'.cands = pass'.todo /\ pass'.job = NoHost /\ pass'.ran = FALSE
      /\ pass'.started = {} /\ pass'.refused = {}
  <2>1. pass'.order = order /\ pass'.todo = todo /\ pass'.cands = todo
    BY <1>7
  <2>2. pass'.job = NoHost /\ pass'.started = {} /\ pass'.refused = {}
    BY <1>7
  <2>3. pass'.orphans = Orphans(Config, loop.nodes, running)
    BY <1>7
  <2>4. pass'.ran = FALSE
    BY <1>7
  <2>. QED  BY <1>6, <2>1, <2>2, <2>3, <2>4, Zenon
<1>9. pass' = [order |-> pass'.order, todo |-> pass'.todo, job |-> NoHost, ran |-> FALSE,
               orphans |-> pass'.orphans, cands |-> pass'.cands, started |-> {},
               refused |-> {}]
  BY <1>7
<1>. QED
  BY <1>1, <1>2, <1>3, <1>4, <1>8, <1>9, Zenon DEF todo

-----------------------------------------------------------------------------
(* The shapes *)

\* No step takes a configuration or nodes that are none.
LEMMA LoopShapeKept ==
  ASSUME BasicInv, [Next]_vars
  PROVE  LoopShape'
<1>. USE DEF BasicInv, LoopShape
<1>1. CASE GetConfigAndNodes
  BY <1>1 DEF GetConfigAndNodes
<1>2. CASE UpdateConfig
  BY <1>2 DEF UpdateConfig, At
<1>3. CASE StartPass
  BY <1>3 DEF StartPass, At
<1>4. CASE TryTask
  <2>0. PICK j \in JobsThatRun(Config) : \E n : Trying(j, n)
    BY <1>4, TriesOne
  <2>1. PICK n : Trying(j, n)
    BY <2>0
  <2>2. loop.pc = "try"
    BY <1>4, TriesOne
  <2>3. loop' = loop \/ loop' = [loop EXCEPT !.pc = "cut"]
    BY <2>1, <2>2, TryingFrame
  <2>. QED  BY <2>2, <2>3
<1>5. CASE KillOrphans
  BY <1>5 DEF KillOrphans, Idle
<1>6. CASE UNCHANGED loop
  BY <1>6
<1>. QED
  BY <1>1, <1>2, <1>3, <1>4, <1>5, <1>6 DEF Next, vars, Tick, EndTask, JoinWorker, ChangeHealth

\* A pass keeps its jobs, its order and its candidates.
LEMMA PassShapeKept ==
  ASSUME BasicInv, [Next]_vars
  PROVE  PassShape'
<1>1. CASE pass' = pass /\ loop' = loop
  BY <1>1 DEF BasicInv, PassShape, InPass, Config
<1>2. CASE pass' = pass /\ loop.pc \notin {"try", "cut"} /\ loop'.pc \notin {"try", "cut"}
  BY <1>2 DEF BasicInv, PassShape, InPass, NoPass
<1>3. CASE StartPass /\ loop' # loop
  <2>1. PICK over \in SUBSET {t \in Tasks : status[t] = "backoff"} :
          pass'.todo = JobWithNodes(Config, loop.nodes,
                         [t \in Tasks |-> IF t \in over THEN "none" ELSE status[t]])
    BY <1>3, PassStarts
  <2>2. /\ pass'.todo = [j \in JobsThatRun(Config) |-> pass'.todo[j]]
        /\ \A j \in JobsThatRun(Config) : pass'.todo[j] \subseteq AtLevel(loop.nodes, Config.jobs[j].level)
    BY <2>1 DEF JobWithNodes
  <2>. QED
    BY <1>3, <2>2, PassStarts DEF PassShape
<1>4. CASE TryTask
  <2>0. PICK j \in JobsThatRun(Config) : \E n : Trying(j, n)
    BY <1>4, TriesOne
  <2>1. PICK n : Trying(j, n)
    BY <2>0
  <2>2. loop.pc = "try"
    BY <1>4, TriesOne
  <2>3. PICK ran \in BOOLEAN, refused \in {{}, {<<j, n, healthy>>}} : pass' = Tried(j, n, ran, refused)
    BY <2>1, <2>2, TryingFrame DEF BasicInv
  <2>4. /\ InPass /\ InPass' /\ Config' = Config /\ loop'.nodes = loop.nodes
    BY <2>1, <2>2, TryingFrame DEF BasicInv
  <2>5. /\ pass' = [order |-> pass.order, todo |-> [pass.todo EXCEPT ![j] = @ \ {n}],
                     job |-> j, ran |-> ran, orphans |-> pass.orphans, cands |-> pass.cands,
                     started |-> IF ran THEN pass.started \cup {<<j, n>>} ELSE pass.started,
                     refused |-> pass.refused \cup refused]
         /\ pass'.order = pass.order /\ pass'.cands = pass.cands
         /\ pass'.todo = [i \in JobsThatRun(Config) |-> pass'.todo[i]]
         /\ pass'.todo[j] = pass.todo[j] \ {n}
         /\ \A i \in JobsThatRun(Config) : i # j => pass'.todo[i] = pass.todo[i]
    BY <2>3, <2>4, TriedPass DEF BasicInv
  <2>. QED
    BY <2>4, <2>5 DEF BasicInv, PassShape
<1>5. CASE KillOrphans
  BY <1>5 DEF KillOrphans, Idle, PassShape, InPass, NoPass
<1>6. CASE GetConfigAndNodes
  <2>1. pass' = pass /\ loop.pc = "config" /\ loop'.pc = "update"
    BY <1>6 DEF GetConfigAndNodes, At
  <2>. QED  BY <1>2, <2>1
<1>7. CASE UpdateConfig
  <2>1. pass' = pass /\ loop.pc = "update" /\ loop'.pc = "schedule"
    BY <1>7 DEF UpdateConfig, At, BasicInv, LoopShape
  <2>. QED  BY <1>2, <2>1
<1>8. CASE StartPass /\ loop' = loop
  <2>1. pass' = pass
    BY <1>8 DEF StartPass, BasicInv, LoopShape, At
  <2>. QED  BY <1>1, <1>8, <2>1
<1>. QED
  BY <1>1, <1>3, <1>4, <1>5, <1>6, <1>7, <1>8
     DEF Next, vars, Tick, EndTask, JoinWorker, ChangeHealth

-----------------------------------------------------------------------------
(* The running tasks *)

\* The RunningTask of a try that starts
NewTask(j, n, answer) ==
  [job |-> j, node |-> NameOf(n), shard |-> answer.shard, inv |-> starts,
   uses |-> TaskResources(Config, Config.jobs[j], n)
              \cup NodeResources(Config, Config.jobs[j], WorkerLevel(Config), answer.shard)]

\* A step starts no task, or the one that it tries.
LEMMA RunningChanges ==
  ASSUME BasicInv, [Next]_vars
  PROVE  \/ UNCHANGED <<status, running, starts>> /\ crashed' \in {crashed, "node level"}
         \/ /\ UNCHANGED <<loop, pass, killTimes, starts, crashed>> /\ crashed = "no"
            /\ \E t \in running, outcome \in Outcomes :
                 /\ running' = running \ {t}
                 /\ status' = [status EXCEPT ![TaskOf(t)] = outcome]
         \/ /\ TryTask
            /\ \E j \in JobsThatRun(Config) : \E n, answer :
                 /\ n \in pass.todo[j] /\ IsStarted(j, n, answer)
                 /\ running' = running \cup {NewTask(j, n, answer)}
                 /\ status' = [status EXCEPT ![<<j, NameOf(n)>>] = "running"]
                 /\ starts' = starts + 1
                 /\ crashed' = IF status[<<j, NameOf(n)>>] = "running" THEN "second invocation" ELSE "no"
<1>1. CASE TryTask
  <2>1. PICK j \in JobsThatRun(Config) : \E n \in pass.todo[j] : Trying(j, n)
    BY <1>1, TriesOne
  <2>2. PICK n \in pass.todo[j] : Trying(j, n)
    BY <2>1
  <2>3. CASE DoesNotFit(j, n)
    BY <2>3 DEF DoesNotFit
  <2>4. ASSUME NEW answer, IsRefused(j, n, answer)  PROVE UNCHANGED <<status, running, starts, crashed>>
    BY <2>4 DEF IsRefused
  <2>5. ASSUME NEW answer, IsStarted(j, n, answer)
        PROVE  /\ running' = running \cup {NewTask(j, n, answer)}
               /\ status' = [status EXCEPT ![<<j, NameOf(n)>>] = "running"]
               /\ starts' = starts + 1
               /\ crashed' = IF status[<<j, NameOf(n)>>] = "running" THEN "second invocation" ELSE "no"
    BY <2>5 DEF IsStarted, NewTask
  <2>. QED
    BY <1>1, <2>2, <2>3, <2>4, <2>5 DEF Trying
<1>2. CASE StartPass
  BY <1>2 DEF StartPass
<1>3. ASSUME NEW t \in running, NEW outcome \in Outcomes, EndTask(t, outcome)
      PROVE  /\ UNCHANGED <<loop, pass, killTimes, starts, crashed>> /\ crashed = "no"
             /\ running' = running \ {t}
             /\ status' = [status EXCEPT ![TaskOf(t)] = outcome]
  BY <1>3 DEF EndTask, TaskOf
<1>. QED
  BY <1>1, <1>2, <1>3
     DEF Next, vars, Tick, GetConfigAndNodes, UpdateConfig, KillOrphans, JoinWorker, ChangeHealth

\* A node that is to be tried makes a task.
LEMMA TriedIsTask ==
  ASSUME BasicInv, InPass, NEW j \in JobsThatRun(Config), NEW n \in pass.todo[j]
  PROVE  /\ <<j, NameOf(n)>> \in Tasks /\ n \in loop.nodes /\ n \in pass.cands[j]
         /\ LevelOf(n) = Config.jobs[j].level
<1>1. loop.pc # "config"
  BY DEF InPass
<1>2. n \in AtLevel(loop.nodes, Config.jobs[j].level) /\ n \in pass.cands[j]
  BY DEF BasicInv, PassShape
<1>3. j \in AllJobs /\ NameOf(n) \in NodeNames
  BY <1>1, <1>2, JobsAreKnown DEF BasicInv, AtLevel
<1>. QED
  BY <1>2, <1>3 DEF AtLevel, Tasks

\* A task is running where its status says so, and an invocation is used once.
LEMMA TasksInvKept ==
  ASSUME BasicInv, [Next]_vars
  PROVE  TasksInv'
<1>1. CASE UNCHANGED <<status, running, starts>> /\ crashed' \in {crashed, "node level"}
  BY <1>1 DEF BasicInv, TasksInv, TaskOf
<1>2. ASSUME NEW t \in running, NEW outcome \in Outcomes,
             UNCHANGED <<starts, crashed>>, crashed = "no",
             running' = running \ {t}, status' = [status EXCEPT ![TaskOf(t)] = outcome]
      PROVE  TasksInv'
  <2>1. status' = [u \in Tasks |-> status'[u]]
    BY <1>2 DEF BasicInv, TasksInv
  <2>2. \A u \in running' : u \in running /\ TaskOf(u) # TaskOf(t)
    BY <1>2 DEF BasicInv, TasksInv
  <2>3. \A u \in running' : status'[TaskOf(u)] = status[TaskOf(u)]
    BY <1>2, <2>2 DEF BasicInv, TasksInv
  <2>. QED
    BY <1>2, <2>1, <2>2, <2>3 DEF BasicInv, TasksInv, TaskOf
<1>3. ASSUME NEW j \in JobsThatRun(Config), NEW n, NEW answer, InPass, n \in pass.todo[j],
             running' = running \cup {NewTask(j, n, answer)},
             status' = [status EXCEPT ![<<j, NameOf(n)>>] = "running"],
             starts' = starts + 1, crashed = "no",
             crashed' = IF status[<<j, NameOf(n)>>] = "running" THEN "second invocation" ELSE "no"
      PROVE  TasksInv'
  <2>. DEFINE rt == NewTask(j, n, answer)
  <2>1. TaskOf(rt) = <<j, NameOf(n)>> /\ rt.inv = starts
    BY DEF TaskOf, NewTask
  <2>. HIDE DEF rt
  <2>2. TaskOf(rt) \in Tasks
    BY <1>3, <2>1, TriedIsTask
  <2>3. running' = running \cup {rt}
    BY <1>3 DEF rt
  <2>4. starts' \in Nat /\ status' = [u \in Tasks |-> status'[u]]
    <3>1. starts \in Nat /\ status = [u \in Tasks |-> status[u]]
      BY DEF BasicInv, TasksInv
    <3>0. starts' = starts + 1
      BY <1>3
    <3>2. starts' \in Nat
      BY <3>0, <3>1
    <3>3. status' = [u \in Tasks |-> status'[u]]
      BY <1>3, <3>1
    <3>. QED  BY <3>2, <3>3
  <2>5. \A u \in running' : TaskOf(u) \in Tasks /\ u.inv \in Nat /\ u.inv < starts'
    <3>1. \A u \in running : TaskOf(u) \in Tasks /\ u.inv \in Nat /\ u.inv < starts
      BY DEF BasicInv, TasksInv
    <3>0. starts \in Nat /\ starts' = starts + 1
      BY <1>3 DEF BasicInv, TasksInv
    <3>2. starts \in Nat /\ \A k \in Nat : k < starts \/ k = starts => k < starts'
      BY <3>0
    <3>. QED  BY <2>1, <2>2, <2>3, <3>1, <3>2, Zenon
  <2>6. ASSUME crashed' = "no"
        PROVE  /\ \A u \in running' : status'[TaskOf(u)] = "running"
               /\ \A t, u \in running' : TaskOf(t) = TaskOf(u) => t = u
    <3>1. status[TaskOf(rt)] # "running"
      BY <1>3, <2>1, <2>6
    <3>2. \A u \in running : status[TaskOf(u)] = "running" /\ TaskOf(u) \in Tasks
      BY <1>3 DEF BasicInv, TasksInv
    <3>3. \A u \in running : TaskOf(u) # TaskOf(rt)
      BY <3>1, <3>2
    <3>4. \A u \in Tasks : status'[u] = IF u = TaskOf(rt) THEN "running" ELSE status[u]
      BY <1>3, <2>1, <2>2 DEF BasicInv, TasksInv
    <3>. QED
      BY <1>3, <2>2, <2>3, <3>2, <3>3, <3>4 DEF BasicInv, TasksInv
  <2>. QED
    BY <2>4, <2>5, <2>6 DEF TasksInv, TaskOf
<1>4. TryTask => InPass /\ crashed = "no"
  BY TriesOne DEF InPass
<1>. QED
  BY <1>1, <1>2, <1>3, <1>4, RunningChanges

\* A scheduler that has done nothing yet satisfies BasicInv.
LEMMA BasicInvInit ==
  ASSUME Init
  PROVE  BasicInv
<1>1. LoopShape
  BY DEF Init, LoopShape, Idle
<1>2. PassShape
  BY DEF Init, PassShape, Idle, InPass, NoPass
<1>3. TasksInv
  BY DEF Init, TasksInv
<1>. QED
  BY <1>1, <1>2, <1>3 DEF BasicInv

\* Every step keeps BasicInv.
LEMMA BasicInvNext ==
  ASSUME BasicInv, [Next]_vars
  PROVE  BasicInv'
BY LoopShapeKept, PassShapeKept, TasksInvKept DEF BasicInv

-----------------------------------------------------------------------------
(* Orphans *)

\* There are no orphans yet.
LEMMA GraceInvInit ==
  ASSUME Init
  PROVE  GraceInv
<1>1. pass.orphans = {} /\ running = {} /\ ~ InPass
  BY DEF Init, NoPass, Idle, InPass
<1>. QED
  BY <1>1 DEF GraceInv, OrphansGetTheirGrace

\* A new pass: its orphans run, and its tasks do not.
LEMMA GraceInvStartPass ==
  ASSUME BasicInv, GraceInv, StartPass, loop' # loop
  PROVE  GraceInv'
<1>1. /\ ~ InPass /\ InPass' /\ crashed = "no" /\ Config' = Config
      /\ UNCHANGED <<running, killTimes, status>> /\ pass'.orphans \subseteq running
  BY PassStarts DEF Orphans
<1>2. \A t, u \in running : TaskOf(t) = TaskOf(u) => t = u
  BY <1>1 DEF BasicInv, TasksInv
<1>3. \A t \in running : TaskOf(t) \in DOMAIN killTimes => killTimes[TaskOf(t)].inv = t.inv
  BY <1>1 DEF GraceInv
<1>4. \A j \in JobsThatRun(Config) : \A n \in pass'.todo[j] : \A o \in pass'.orphans :
        TaskOf(o) # <<j, NameOf(n)>>
  <2>. SUFFICES ASSUME NEW j \in JobsThatRun(Config), NEW n \in pass'.todo[j],
                       NEW o \in pass'.orphans, TaskOf(o) = <<j, NameOf(n)>>
                PROVE  FALSE
    OBVIOUS
  <2>1. PICK over \in SUBSET {t \in Tasks : status[t] = "backoff"} :
          pass'.todo = JobWithNodes(Config, loop.nodes,
                         [t \in Tasks |-> IF t \in over THEN "none" ELSE status[t]])
    BY PassStarts
  <2>2. IsEligible(Config, [t \in Tasks |-> IF t \in over THEN "none" ELSE status[t]], j, n)
    BY <2>1 DEF JobWithNodes
  <2>3. status[TaskOf(o)] = "running" /\ TaskOf(o) \in Tasks
    BY <1>1 DEF BasicInv, TasksInv
  <2>4. TaskOf(o) \notin over
    BY <2>1, <2>3
  <2>5. [t \in Tasks |-> IF t \in over THEN "none" ELSE status[t]][<<j, NameOf(n)>>] # "running"
    BY <2>2 DEF IsEligible
  <2>. QED
    BY <2>3, <2>4, <2>5
<1>. QED
  BY <1>1, <1>2, <1>3, <1>4 DEF GraceInv, OrphansGetTheirGrace, TaskOf

\* A task that a pass starts is none of its orphans.
LEMMA GraceInvTryTask ==
  ASSUME BasicInv, GraceInv, TryTask
  PROVE  GraceInv'
<1>1. PICK j \in JobsThatRun(Config) : \E n \in pass.todo[j] : Trying(j, n)
  BY TriesOne
<1>2. PICK n \in pass.todo[j] : Trying(j, n)
  BY <1>1
<1>3. /\ loop.pc = "try" /\ crashed = "no" /\ UNCHANGED killTimes
  BY TriesOne
<1>4. InPass /\ InPass' /\ Config' = Config
  BY <1>2, <1>3, TryingFrame DEF BasicInv
<1>5. /\ pass'.orphans = pass.orphans /\ pass'.todo[j] = pass.todo[j] \ {n}
      /\ \A i \in JobsThatRun(Config) : i # j => pass'.todo[i] = pass.todo[i]
  <2>1. PICK ran \in BOOLEAN, refused \in {{}, {<<j, n, healthy>>}} : pass' = Tried(j, n, ran, refused)
    BY <1>2, <1>3, TryingFrame DEF BasicInv
  <2>. QED
    BY <1>4, <2>1, TriedPass DEF BasicInv
<1>6. \A o \in pass.orphans : TaskOf(o) # <<j, NameOf(n)>>
  BY <1>4 DEF GraceInv
<1>7. \/ running' = running
      \/ \E answer : running' = running \cup {NewTask(j, n, answer)}
  BY <1>2 DEF Trying, DoesNotFit, IsRefused, IsStarted, NewTask
<1>8. \A answer : TaskOf(NewTask(j, n, answer)) = <<j, NameOf(n)>>
  BY DEF TaskOf, NewTask
<1>9. \A t \in running' : t \in running \/ TaskOf(t) = <<j, NameOf(n)>>
  BY <1>7, <1>8
<1>10. OrphansGetTheirGrace'
  BY <1>3, <1>5 DEF GraceInv, OrphansGetTheirGrace
<1>11. \A i \in JobsThatRun(Config) : \A m \in pass'.todo[i] :
          \A o \in pass'.orphans : TaskOf(o) # <<i, NameOf(m)>>
  BY <1>4, <1>5 DEF GraceInv
<1>12. \A o \in pass'.orphans, t \in running' : TaskOf(o) = TaskOf(t) => o = t
  BY <1>3, <1>5, <1>6, <1>9 DEF GraceInv
<1>13. \A t \in running' : TaskOf(t) \in DOMAIN killTimes' =>
            \/ killTimes'[TaskOf(t)].inv = t.inv
            \/ InPass' /\ \A o \in pass'.orphans : TaskOf(o) # TaskOf(t)
  BY <1>3, <1>4, <1>5, <1>6, <1>9 DEF GraceInv
<1>. QED
  BY <1>4, <1>5, <1>10, <1>11, <1>12, <1>13 DEF GraceInv, TaskOf

\* The kill times after a pass are those of its orphans.
LEMMA GraceInvKillOrphans ==
  ASSUME BasicInv, GraceInv, KillOrphans
  PROVE  GraceInv'
<1>. DEFINE orphans == {t \in pass.orphans : KillAfter(t) # Never}
            later == {t \in orphans : KillTime(t).time > loop.time}
<1>1. /\ crashed = "no" /\ UNCHANGED <<running, crashed>> /\ killTimes' = KillLater(later)
      /\ pass' = NoPass /\ loop' = Idle
  BY DEF KillOrphans, PassIsOver, At
<1>2. pass'.orphans = {} /\ ~ InPass'
  BY <1>1 DEF NoPass, Idle, InPass
<1>3. ASSUME NEW t \in running, TaskOf(t) \in DOMAIN killTimes'
      PROVE  killTimes'[TaskOf(t)].inv = t.inv
  <2>1. /\ TaskOf(t) \in {TaskOf(o) : o \in later}
        /\ killTimes'[TaskOf(t)] = KillTime(CHOOSE o \in later : TaskOf(o) = TaskOf(t))
    <3>. HIDE DEF later
    <3>. QED  BY <1>1, <1>3 DEF KillLater
  <2>. DEFINE o == CHOOSE o \in later : TaskOf(o) = TaskOf(t)
  <2>2. o \in later /\ TaskOf(o) = TaskOf(t)
    BY <2>1
  <2>3. o \in pass.orphans /\ o = t
    <3>. HIDE DEF o
    <3>. QED  BY <1>1, <2>2 DEF GraceInv
  <2>4. KillTime(t).inv = t.inv
    BY <2>3 DEF GraceInv, OrphansGetTheirGrace, KillTime, TaskOf
  <2>. QED
    BY <2>1, <2>3, <2>4
<1>. QED
  BY <1>1, <1>2, <1>3 DEF GraceInv, OrphansGetTheirGrace, TaskOf

\* Every step keeps GraceInv.
LEMMA GraceInvNext ==
  ASSUME BasicInv, GraceInv, [Next]_vars
  PROVE  GraceInv'
<1>1. CASE /\ UNCHANGED <<pass, killTimes, running>> /\ crashed' \in {crashed, "node level"}
           /\ loop' = loop
  BY <1>1 DEF GraceInv, OrphansGetTheirGrace, InPass, Config, TaskOf
<1>2. CASE UNCHANGED <<pass, killTimes, running, crashed>> /\ ~ InPass /\ ~ InPass'
  BY <1>2 DEF GraceInv, OrphansGetTheirGrace, TaskOf
<1>3. ASSUME NEW t \in running, NEW outcome \in Outcomes, EndTask(t, outcome)  PROVE GraceInv'
  <2>1. UNCHANGED <<loop, pass, killTimes, crashed>> /\ running' \subseteq running
    BY <1>3 DEF EndTask
  <2>. QED
    BY <2>1 DEF GraceInv, OrphansGetTheirGrace, InPass, Config, TaskOf
<1>4. CASE GetConfigAndNodes
  <2>1. UNCHANGED <<pass, killTimes, running, crashed>> /\ ~ InPass /\ ~ InPass'
    BY <1>4 DEF GetConfigAndNodes, At, InPass
  <2>. QED  BY <1>2, <2>1
<1>5. CASE UpdateConfig
  <2>1. UNCHANGED <<pass, killTimes, running, crashed>> /\ ~ InPass /\ ~ InPass'
    BY <1>5 DEF UpdateConfig, At, InPass, BasicInv, LoopShape
  <2>. QED  BY <1>2, <2>1
<1>6. CASE StartPass
  <2>1. CASE loop' = loop
    <3>1. /\ UNCHANGED <<pass, killTimes, running>> /\ crashed' \in {crashed, "node level"}
      BY <1>6, <2>1 DEF StartPass, At, BasicInv, LoopShape
    <3>. QED  BY <1>1, <2>1, <3>1
  <2>. QED  BY <1>6, <2>1, GraceInvStartPass
<1>7. CASE TryTask
  BY <1>7, GraceInvTryTask
<1>8. CASE KillOrphans
  BY <1>8, GraceInvKillOrphans
<1>. QED
  BY <1>1, <1>3, <1>4, <1>5, <1>6, <1>7, <1>8 DEF Next, vars, Tick, JoinWorker, ChangeHealth

(* The grace that scheduleOnce gives to an orphan is its own, over any number  *)
(* of passes and configurations: orphanTaskIDToKillTime_ never has the time of *)
(* an earlier invocation of the task, since a pass keeps no entry but those of *)
(* its orphans.                                                                *)
THEOREM GraceIsTheirs == Spec => []OrphansGetTheirGrace
<1>1. Init => BasicInv /\ GraceInv
  BY BasicInvInit, GraceInvInit
<1>2. BasicInv /\ GraceInv /\ [Next]_vars => (BasicInv /\ GraceInv)'
  BY BasicInvNext, GraceInvNext
<1>3. GraceInv => OrphansGetTheirGrace
  BY DEF GraceInv
<1>. QED
  BY <1>1, <1>2, <1>3, PTL DEF Spec

-----------------------------------------------------------------------------
(* The nodes that the fetchers make *)

\* A node with its ancestors is a sequence of entries, and an ancestor is not
\* at a lower level (a higher number) than the node.
WellMade(n) ==
  /\ n \in Seq(Range(n)) /\ Len(n) > 0
  /\ \A m \in TraverseUp(n) : m.level \in Int /\ m.level <= LevelOf(n)

\* Every ancestor of the nodes has an entry of its own among all.
RootedIn(nodes, all) ==
  \A n \in nodes : WellMade(n) /\ \A m \in TraverseUp(n) : \E p \in all : p[1] = m

\* Node::Node makes a node from its parent.
LEMMA NodeIsWellMade ==
  ASSUME NEW p, p = <<>> \/ WellMade(p), NEW name, NEW level \in Int, NEW enabled,
         p # <<>> => LevelOf(p) <= level
  PROVE  LET n == Node(name, level, enabled, p)
         IN /\ WellMade(n) /\ NameOf(n) = name /\ LevelOf(n) = level
            /\ TraverseUp(n) = {n[1]} \cup TraverseUp(p)
<1>. DEFINE h == [name |-> name, level |-> level, enabled |-> enabled]
            n == Node(name, level, enabled, p)
            T == {h} \cup Range(p)
<1>1. h.name = name /\ h.level = level
  OBVIOUS
<1>. HIDE DEF h
<1>2. p \in Seq(Range(p))
  <2>1. \A S : <<>> \in Seq(S)
    OBVIOUS
  <2>. QED  BY <2>1 DEF WellMade
<1>3. n = <<h>> \o p
  BY DEF Node, h
<1>4. p \in Seq(T) /\ <<h>> \in Seq(T) /\ h \in T
  <2>1. Range(p) \subseteq T /\ h \in T
    OBVIOUS
  <2>. HIDE DEF T
  <2>2. p \in Seq(T)
    BY <1>2, <2>1
  <2>. QED  BY <2>1, <2>2
<1>5. /\ n \in Seq(T) /\ Len(n) = Len(p) + 1 /\ Len(p) \in Nat /\ DOMAIN p = 1..Len(p)
      /\ n[1] = h /\ \A i \in 1..Len(p) : n[i + 1] = p[i]
  <2>. HIDE DEF T, n
  <2>. QED  BY <1>3, <1>4
<1>6. Range(n) = T
  <2>1. \A x \in T : x \in Range(n)
    <3>1. DOMAIN n = 1..(Len(p) + 1) /\ 1 \in DOMAIN n /\ \A i \in 1..Len(p) : i + 1 \in DOMAIN n
      <4>. HIDE DEF T, n
      <4>. QED  BY <1>5
    <3>2. \A x \in Range(p) : \E i \in 1..Len(p) : x = p[i]
      BY <1>5 DEF Range
    <3>. HIDE DEF n
    <3>. QED  BY <1>5, <3>1, <3>2 DEF Range
  <2>2. Range(n) \subseteq T
    <3>. HIDE DEF T, n
    <3>. QED  BY <1>5 DEF Range
  <2>. QED  BY <2>1, <2>2
<1>. HIDE DEF n
<1>7. \A m \in Range(p) : m.level \in Int /\ m.level <= level
  <2>1. CASE p = <<>>
    BY <2>1 DEF Range
  <2>2. CASE p # <<>>
    <3>1. LevelOf(p) \in Int
      <4>1. p[1] \in Range(p)
        BY <1>5, <2>2 DEF WellMade, Range
      <4>. QED  BY <2>2, <4>1 DEF WellMade, TraverseUp, LevelOf
    <3>. QED  BY <2>2, <3>1 DEF WellMade, TraverseUp
  <2>. QED  BY <2>1, <2>2
<1>8. NameOf(n) = name /\ LevelOf(n) = level
  BY <1>1, <1>5 DEF NameOf, LevelOf
<1>9. WellMade(n)
  BY <1>1, <1>5, <1>6, <1>7, <1>8 DEF WellMade, TraverseUp
<1>. QED
  BY <1>5, <1>6, <1>8, <1>9 DEF n, TraverseUp

\* The instance node has no ancestors but itself.
LEMMA InstanceIsRooted ==
  /\ WellMade(InstanceNode) /\ LevelOf(InstanceNode) = 0
  /\ TraverseUp(InstanceNode) = {InstanceNode[1]}
<1>0. ASSUME NEW p, p = <<>>
      PROVE  LET n == Node(InstanceName, 0, TRUE, p)
             IN WellMade(n) /\ LevelOf(n) = 0 /\ TraverseUp(n) = {n[1]} \cup TraverseUp(p)
  <2>1. 0 \in Int
    OBVIOUS
  <2>. QED  BY <1>0, <2>1, NodeIsWellMade, Zenon
<1>1. /\ WellMade(InstanceNode) /\ LevelOf(InstanceNode) = 0
      /\ TraverseUp(InstanceNode) = {InstanceNode[1]} \cup TraverseUp(<<>>)
  BY <1>0 DEF InstanceNode
<1>2. TraverseUp(<<>>) = {}
  BY DEF TraverseUp, Range
<1>. QED  BY <1>1, <1>2

\* Children of nodes that are rooted in all, and of all, are rooted in more.
LEMMA ChildIsRooted ==
  ASSUME NEW all, NEW p, RootedIn({p}, all), NEW name, NEW level \in Int, NEW enabled,
         LevelOf(p) <= level, Node(name, level, enabled, p) \in all
  PROVE  RootedIn({Node(name, level, enabled, p)}, all)
<1>. DEFINE n == Node(name, level, enabled, p)
<1>1. WellMade(p) /\ \A m \in TraverseUp(p) : \E q \in all : q[1] = m
  BY DEF RootedIn
<1>2. WellMade(n) /\ TraverseUp(n) = {n[1]} \cup TraverseUp(p)
  BY <1>1, NodeIsWellMade
<1>. QED
  <2>. HIDE DEF n
  <2>1. n \in all
    BY DEF n
  <2>2. RootedIn({n}, all)
    BY <1>1, <1>2, <2>1 DEF RootedIn
  <2>. QED  BY <2>2 DEF n

\* The definitions of ManualNodes, and the equation of the nodes it adds
KidsOf(source, name) ==
  IF name \in DOMAIN source.prefs THEN source.prefs[name].children ELSE {}
DisabledIn(source) == {name \in DOMAIN source.prefs : source.prefs[name].disabled}
TopsOf(source) ==
  DOMAIN source.prefs \ UNION {KidsOf(source, p) : p \in DOMAIN source.prefs}
Below(source, parents, level) ==
  UNION {{Node(c, level, c \notin DisabledIn(source), p) : c \in KidsOf(source, NameOf(p))}
         : p \in parents}
TopNodes(source) ==
  {Node(t, 1, t \notin DisabledIn(source), InstanceNode) : t \in TopsOf(source)}
ManualSteps(source, m, f) ==
  f = [level \in 1..m |->
         IF level = 1 THEN TopNodes(source) ELSE Below(source, f[level - 1], level)]

\* The recursion of ManualFetcher has a solution for every number of levels.
LEMMA ManualStepsExist ==
  ASSUME NEW source, NEW numLevels \in Nat
  PROVE  \E f : ManualSteps(source, numLevels, f)
<1>. DEFINE Bad == {m \in Nat : ~ \E f : ManualSteps(source, m, f)}
<1>. SUFFICES ASSUME Bad # {}  PROVE FALSE
  OBVIOUS
<1>1. PICK m \in Bad : m \in Nat /\ m - 1 \notin Bad
  <2>1. Bad \in SUBSET Nat
    OBVIOUS
  <2>. HIDE DEF Bad
  <2>. QED  BY <2>1, LeastFailure
<1>2. CASE m = 0
  <2>1. ManualSteps(source, 0, [level \in 1..0 |-> {}])
    BY DEF ManualSteps
  <2>. QED  BY <1>1, <1>2, <2>1
<1>3. CASE m # 0
  <2>1. m \in Nat /\ m - 1 \in Nat /\ m >= 1
    BY <1>1, <1>3
  <2>2. PICK g : ManualSteps(source, m - 1, g)
    BY <1>1, <2>1
  <2>. DEFINE step(f, level) == IF level = 1 THEN TopNodes(source) ELSE Below(source, f[level - 1], level)
              h == [level \in 1..m |-> step(g, level)]
  <2>3. \A level \in 1..(m - 1) : level \in 1..m /\ g[level] = step(g, level)
    BY <2>1, <2>2 DEF ManualSteps
  <2>4. \A level \in 1..(m - 1) : h[level] = g[level]
    BY <2>3
  <2>5. \A level \in 1..m : level # 1 => level - 1 \in 1..(m - 1)
    BY <2>1
  <2>6. \A level \in 1..m : step(h, level) = step(g, level)
    <3>. HIDE DEF h
    <3>. QED  BY <2>4, <2>5
  <2>7. h = [level \in 1..m |-> step(h, level)]
    <3>1. h = [level \in 1..m |-> step(g, level)]
      OBVIOUS
    <3>. HIDE DEF h, step
    <3>. QED  BY <2>6, <3>1, Zenon
  <2>8. ManualSteps(source, m, h)
    <3>. HIDE DEF h
    <3>. QED  BY <2>7 DEF ManualSteps
  <2>. QED
    BY <1>1, <2>8
<1>. QED
  BY <1>2, <1>3

\* ManualFetcher adds the levels one after the other.
LEMMA ManualNodesAre ==
  ASSUME NEW source, NEW numLevels \in Nat, ManualNodes(numLevels, source) # FetchError
  PROVE  \E f : /\ ManualSteps(source, numLevels, f)
                /\ ManualNodes(numLevels, source) = UNION {f[level] : level \in 1..numLevels}
<1>1. ManualSteps(source, numLevels, CHOOSE f : ManualSteps(source, numLevels, f))
  BY ManualStepsExist
<1>2. ManualNodes(numLevels, source)
        = UNION {(CHOOSE f : ManualSteps(source, numLevels, f))[level] : level \in 1..numLevels}
  BY DEF ManualNodes, ManualSteps, TopNodes, TopsOf, Below, KidsOf, DisabledIn
<1>. QED
  BY <1>1, <1>2

\* Every ancestor of a node of ManualFetcher is the instance or was added before.
LEMMA ManualNodesAreRooted ==
  ASSUME NEW source, NEW numLevels \in Nat, ManualNodes(numLevels, source) # FetchError,
         NEW nodes, InstanceNode \in nodes
  PROVE  RootedIn(ManualNodes(numLevels, source), nodes \cup ManualNodes(numLevels, source))
<1>. DEFINE all == nodes \cup ManualNodes(numLevels, source)
<1>1. PICK f : /\ ManualSteps(source, numLevels, f)
               /\ ManualNodes(numLevels, source) = UNION {f[level] : level \in 1..numLevels}
  BY ManualNodesAre
<1>. DEFINE Good(level) == RootedIn(f[level], all) /\ \A n \in f[level] : LevelOf(n) = level
            Bad == {level \in 1..numLevels : ~ Good(level)}
<1>2. RootedIn({InstanceNode}, all) /\ LevelOf(InstanceNode) = 0
  BY InstanceIsRooted DEF RootedIn
<1>3. \A level \in 1..numLevels : f[level] \subseteq all
  BY <1>1
<1>4. \A level \in 1..numLevels :
        f[level] = IF level = 1 THEN TopNodes(source) ELSE Below(source, f[level - 1], level)
  BY <1>1 DEF ManualSteps
<1>. HIDE DEF all
<1>5. ASSUME NEW level \in 1..numLevels, NEW p, RootedIn({p}, all), LevelOf(p) = level - 1,
             NEW c, NEW e, Node(c, level, e, p) \in all
      PROVE  RootedIn({Node(c, level, e, p)}, all) /\ LevelOf(Node(c, level, e, p)) = level
  <2>1. level \in Int /\ LevelOf(p) <= level
    BY <1>5
  <2>2. LevelOf(Node(c, level, e, p)) = level
    BY <1>5, <2>1, NodeIsWellMade DEF RootedIn
  <2>. QED  BY <1>5, <2>1, <2>2, ChildIsRooted
<1>6. Bad = {}
  <2>. SUFFICES ASSUME Bad # {}  PROVE FALSE
    OBVIOUS
  <2>1. PICK m \in Bad : m \in Nat /\ m - 1 \notin Bad
    <3>1. Bad \in SUBSET Nat
      OBVIOUS
    <3>. HIDE DEF Bad
    <3>. QED  BY <3>1, LeastFailure
  <2>2. m \in 1..numLevels
    OBVIOUS
  <2>3. CASE m = 1
    <3>1. f[m] = TopNodes(source) /\ f[m] \subseteq all
      BY <1>3, <1>4, <2>2, <2>3
    <3>2. ASSUME NEW n \in f[m]  PROVE RootedIn({n}, all) /\ LevelOf(n) = m
      <4>1. PICK t, e : n = Node(t, m, e, InstanceNode)
        BY <2>3, <3>1 DEF TopNodes
      <4>2. LevelOf(InstanceNode) = m - 1
        BY <1>2, <2>3
      <4>. QED  BY <1>2, <1>5, <2>2, <3>1, <4>1, <4>2
    <3>. QED  BY <3>2 DEF RootedIn
  <2>4. CASE m # 1
    <3>0. m - 1 \in 1..numLevels
      BY <2>2, <2>4
    <3>1. f[m] = Below(source, f[m - 1], m) /\ f[m] \subseteq all /\ Good(m - 1)
      BY <1>3, <1>4, <2>1, <2>2, <2>4, <3>0
    <3>2. ASSUME NEW n \in f[m]  PROVE RootedIn({n}, all) /\ LevelOf(n) = m
      <4>1. PICK p \in f[m - 1] : \E c, e : n = Node(c, m, e, p)
        BY <3>1 DEF Below
      <4>2. PICK c, e : n = Node(c, m, e, p)
        BY <4>1
      <4>3. LevelOf(p) = m - 1 /\ RootedIn({p}, all)
        BY <3>1, <4>1 DEF RootedIn
      <4>. QED  BY <1>5, <2>2, <3>1, <4>2, <4>3
    <3>. QED  BY <3>2 DEF RootedIn
  <2>. QED  BY <2>3, <2>4
<1>7. \A level \in 1..numLevels : RootedIn(f[level], all)
  BY <1>6
<1>. QED
  BY <1>1, <1>7 DEF RootedIn, all

\* Every ancestor of a child is its parent or an ancestor of that.
LEMMA ChildNodesAreRooted ==
  ASSUME NEW source, NEW numLevels \in Nat, NEW enabled, NEW names, NEW nodes,
         RootedIn(nodes, nodes),
         ChildNodes(numLevels, source, nodes, enabled, names) # FetchError
  PROVE  LET more == ChildNodes(numLevels, source, nodes, enabled, names)
         IN RootedIn(more, nodes \cup more)
<1>. DEFINE more == ChildNodes(numLevels, source, nodes, enabled, names)
            level == source.parentLevel + 1
<1>1. more = UNION {{Node(c, level, enabled, p) : c \in names[NameOf(p)]}
                    : p \in AtLevel(nodes, source.parentLevel)}
  BY DEF ChildNodes
<1>. HIDE DEF more
<1>2. ASSUME NEW n \in more  PROVE RootedIn({n}, nodes \cup more)
  <2>1. PICK p \in AtLevel(nodes, source.parentLevel) : \E c : n = Node(c, level, enabled, p)
    BY <1>1
  <2>2. PICK c : n = Node(c, level, enabled, p)
    BY <2>1
  <2>3. p \in nodes /\ LevelOf(p) = source.parentLevel /\ RootedIn({p}, nodes \cup more)
    BY DEF AtLevel, RootedIn
  <2>4. LevelOf(p) \in Int
    <3>1. WellMade(p)
      BY <2>3 DEF RootedIn
    <3>2. p[1] \in TraverseUp(p)
      BY <3>1 DEF WellMade, TraverseUp, Range
    <3>. QED  BY <3>1, <3>2 DEF WellMade, LevelOf
  <2>5. level \in Int /\ LevelOf(p) <= level
    BY <2>3, <2>4
  <2>. QED
    <3>. HIDE DEF level
    <3>. QED  BY <2>2, <2>3, <2>5, ChildIsRooted
<1>3. RootedIn(more, nodes \cup more)
  BY <1>2 DEF RootedIn
<1>. QED
  BY <1>3 DEF more

\* One more source keeps the ancestors of all nodes among them.
LEMMA FetchedAreRooted ==
  ASSUME NEW numLevels \in Nat, NEW source, NEW nodes, NEW script,
         RootedIn(nodes, nodes), InstanceNode \in nodes,
         FetchFrom(numLevels, source, nodes, script) # FetchError
  PROVE  LET more == FetchFrom(numLevels, source, nodes, script)
         IN RootedIn(nodes \cup more, nodes \cup more)
<1>. DEFINE more == FetchFrom(numLevels, source, nodes, script)
<1>1. \/ more = ManualNodes(numLevels, source)
      \/ \E enabled, names : more = ChildNodes(numLevels, source, nodes, enabled, names)
      \/ more = {}
  BY DEF FetchFrom, RangeLabelNodes, ScriptNodes
<1>. HIDE DEF more
<1>2. more # FetchError
  BY DEF more
<1>3. RootedIn(more, nodes \cup more)
  <2>1. CASE more = ManualNodes(numLevels, source)
    BY <1>2, <2>1, ManualNodesAreRooted
  <2>2. ASSUME NEW enabled, NEW names, more = ChildNodes(numLevels, source, nodes, enabled, names)
        PROVE  RootedIn(more, nodes \cup more)
    BY <1>2, <2>2, ChildNodesAreRooted
  <2>3. CASE more = {}
    BY <2>3 DEF RootedIn
  <2>. QED  BY <1>1, <2>1, <2>2, <2>3
<1>4. RootedIn(nodes \cup more, nodes \cup more)
  BY <1>3 DEF RootedIn
<1>. QED
  BY <1>4 DEF more

\* The equation of the nodes that FetchNodes has after every source
FetchStep(numLevels, sources, script, i, nodes) ==
  IF nodes = FetchError THEN FetchError
  ELSE LET more == FetchFrom(numLevels, sources[i], nodes, script)
       IN IF more = FetchError THEN FetchError ELSE nodes \cup more
FetchSteps(numLevels, sources, script, m, f) ==
  f = [i \in 0..m |->
         IF i = 0 THEN {InstanceNode} ELSE FetchStep(numLevels, sources, script, i, f[i - 1])]

\* The recursion over the sources has a solution for every number of them.
LEMMA FetchStepsExist ==
  ASSUME NEW numLevels, NEW sources, NEW script, NEW k \in Nat
  PROVE  \E f : FetchSteps(numLevels, sources, script, k, f)
<1>. DEFINE Steps(m, f) == FetchSteps(numLevels, sources, script, m, f)
            Bad == {m \in Nat : ~ \E f : Steps(m, f)}
<1>. SUFFICES ASSUME Bad # {}  PROVE FALSE
  OBVIOUS
<1>1. PICK m \in Bad : m \in Nat /\ m - 1 \notin Bad
  <2>1. Bad \in SUBSET Nat
    OBVIOUS
  <2>. HIDE DEF Bad
  <2>. QED  BY <2>1, LeastFailure
<1>2. CASE m = 0
  <2>1. \A i \in 0..0 : i = 0
    OBVIOUS
  <2>2. Steps(0, [i \in 0..0 |-> {InstanceNode}])
    BY <2>1 DEF FetchSteps
  <2>. QED  BY <1>1, <1>2, <2>2
<1>3. CASE m # 0
  <2>1. m \in Nat /\ m - 1 \in Nat
    BY <1>1, <1>3
  <2>2. PICK g : Steps(m - 1, g)
    BY <1>1, <2>1
  <2>. DEFINE step(f, i) == IF i = 0 THEN {InstanceNode}
                            ELSE FetchStep(numLevels, sources, script, i, f[i - 1])
              h == [i \in 0..m |-> step(g, i)]
  <2>3. \A i \in 0..(m - 1) : i \in 0..m /\ g[i] = step(g, i)
    <3>1. \A i \in 0..(m - 1) : i \in 0..m
      BY <2>1
    <3>2. \A i \in 0..(m - 1) : g[i] = step(g, i)
      BY <2>2 DEF FetchSteps
    <3>. QED  BY <3>1, <3>2
  <2>4. \A i \in 0..(m - 1) : h[i] = g[i]
    BY <2>3
  <2>5. \A i \in 0..m : i # 0 => i - 1 \in 0..(m - 1)
    BY <2>1
  <2>6. \A i \in 0..m : step(h, i) = step(g, i)
    <3>. HIDE DEF h
    <3>. QED  BY <2>4, <2>5
  <2>7. h = [i \in 0..m |-> step(h, i)]
    <3>1. h = [i \in 0..m |-> step(g, i)]
      OBVIOUS
    <3>. HIDE DEF h, step
    <3>. QED  BY <2>6, <3>1, Zenon
  <2>8. Steps(m, h)
    <3>. HIDE DEF h
    <3>. QED  BY <2>7 DEF FetchSteps
  <2>. QED
    BY <1>1, <2>8
<1>. QED
  BY <1>2, <1>3

(* Whatever the sources, every ancestor of a fetched node was fetched too.     *)
LEMMA NodesAreRooted ==
  ASSUME NEW numLevels \in Nat, NEW sources, Len(sources) \in Nat, NEW script,
         FetchNodes(numLevels, sources, script) # FetchError
  PROVE  LET nodes == FetchNodes(numLevels, sources, script)  IN RootedIn(nodes, nodes)
<1>. DEFINE L == Len(sources)
<1>1. FetchNodes(numLevels, sources, script)
        = (CHOOSE f : FetchSteps(numLevels, sources, script, L, f))[L]
  BY DEF FetchNodes, FetchSteps, FetchStep
<1>2. PICK f : FetchSteps(numLevels, sources, script, L, f) /\ FetchNodes(numLevels, sources, script) = f[L]
  BY <1>1, FetchStepsExist
<1>3. \A i \in 0..L : f[i] = IF i = 0 THEN {InstanceNode}
                             ELSE FetchStep(numLevels, sources, script, i, f[i - 1])
  BY <1>2 DEF FetchSteps
<1>. DEFINE Good(nodes) == nodes # FetchError => RootedIn(nodes, nodes) /\ InstanceNode \in nodes
            Bad == {i \in 0..L : ~ Good(f[i])}
<1>4. Bad = {}
  <2>. SUFFICES ASSUME Bad # {}  PROVE FALSE
    OBVIOUS
  <2>1. PICK m \in Bad : m \in Nat /\ m - 1 \notin Bad
    <3>1. Bad \in SUBSET Nat
      OBVIOUS
    <3>. HIDE DEF Bad
    <3>. QED  BY <3>1, LeastFailure
  <2>2. m \in 0..L /\ ~ Good(f[m])
    OBVIOUS
  <2>3. CASE m = 0
    <3>1. f[m] = {InstanceNode}
      BY <1>3, <2>2, <2>3
    <3>2. RootedIn({InstanceNode}, {InstanceNode})
      BY InstanceIsRooted DEF RootedIn
    <3>. QED  BY <2>2, <3>1, <3>2
  <2>4. CASE m # 0
    <3>0. m - 1 \in 0..L
      BY <2>2, <2>4
    <3>1. f[m] = FetchStep(numLevels, sources, script, m, f[m - 1]) /\ Good(f[m - 1])
      BY <1>3, <2>1, <2>2, <2>4, <3>0
    <3>. DEFINE more == FetchFrom(numLevels, sources[m], f[m - 1], script)
    <3>2. f[m - 1] # FetchError /\ more # FetchError /\ f[m] = f[m - 1] \cup more
      BY <2>2, <3>1 DEF FetchStep
    <3>3. RootedIn(f[m], f[m])
      BY <3>1, <3>2, FetchedAreRooted
    <3>4. InstanceNode \in f[m]
      BY <3>1, <3>2
    <3>. QED  BY <2>2, <3>3, <3>4
  <2>. QED  BY <2>3, <2>4
<1>5. L \in 0..L
  OBVIOUS
<1>6. Good(f[L])
  BY <1>4, <1>5
<1>. QED
  BY <1>2, <1>6

-----------------------------------------------------------------------------
(* Resources *)

\* The running tasks use amounts of nodes and of the worker they run on.
UsesInv ==
  /\ IsFiniteSet(running)
  /\ \A t \in running :
       /\ t.shard \in DOMAIN Workers /\ IsFiniteSet(t.uses)
       /\ \A u \in t.uses : u.amount \in Nat /\ (u.node = t.shard \/ u.node \in NodeNames)

\* The workers that the scheduler knows
Known == Range(pools[AllWorkers].order)

\* The pool of all workers has those of the others, the healthy ones, and those
\* that refused a task.
PoolsInv ==
  /\ AllWorkers \in DOMAIN pools /\ pools = [p \in DOMAIN pools |-> pools[p]]
  /\ Known \subseteq DOMAIN Workers /\ healthy \subseteq Known
  /\ \A p \in DOMAIN pools :
       /\ pools[p] = [order |-> pools[p].order, next |-> pools[p].next]
       /\ pools[p].order \in Seq(Known)
  /\ \A r \in pass.refused : r[3] \subseteq Known

\* What is left on the nodes of a pass
SlotsOf(config, nodes) ==
  UNION {{<<LevelOf(n), NameOf(n), r>> : r \in ResourcesAt(config, LevelOf(n))} : n \in nodes}

\* Every slot has an amount left.
LeftInv ==
  InPass =>
    /\ NodesAreGrouped(Config, loop.nodes)
    /\ left = [s \in SlotsOf(Config, loop.nodes) |-> left[s]]
    /\ \A s \in SlotsOf(Config, loop.nodes) : left[s] \in Int /\ left[s] <= Config.limits[s[1]][s[3]]

\* What is left on the workers that were known at the last UpdateConfig
WorkerLeftInv ==
  loop.pc \in {"schedule", "try", "cut"} =>
    /\ DOMAIN workerLeft \subseteq DOMAIN Workers
    /\ workerLeft = [w \in DOMAIN workerLeft |->
                       [r \in WorkerResources(Config) |-> workerLeft[w][r]]]
    /\ \A w \in DOMAIN workerLeft : \A r \in WorkerResources(Config) : workerLeft[w][r] \in Int

ResourceInv == UsesInv /\ PoolsInv /\ LeftInv /\ WorkerLeftInv

\* No limit is exceeded by what runs and what is left.
FitsInv ==
  /\ InPass => \A s \in SlotsOf(Config, loop.nodes) :
       left[s] + UsedOf(running, s[2], s[3]) <= Config.limits[s[1]][s[3]]
  /\ loop.pc \in {"schedule", "try", "cut"} =>
       \A w \in DOMAIN workerLeft : \A r \in WorkerResources(Config) :
         workerLeft[w][r] + UsedOf(running, w, r) <= WorkerCapacity(Config, Workers[w])[r]

\* A candidate that was tried
Settled(j, n) ==
  \/ <<j, n>> \in pass.started
  \/ ~ Fits(left, SlotsFor(Config, Config.jobs[j], n))
  \/ \E r \in pass.refused :
       /\ r[1] = j /\ r[2] = n
       /\ \A w \in r[3] \cap Range(PoolFor(pools, RequiredHostForTask(Config.jobs[j], n)).order) :
            ~ TaskFitsWorker(Config, Config.jobs[j], Workers[w], workerLeft)

\* A candidate that is not to be tried any more was started, or does not fit.
MaximalInv ==
  InPass => \A j \in JobsThatRun(Config) : \A n \in pass.cands[j] : n \notin pass.todo[j] => Settled(j, n)

\* A replica that is still to be tried while another runs does not fit.
ReplicaInv ==
  /\ crashed # "second invocation"
  /\ InPass /\ crashed = "no" =>
       \A j \in JobsThatRun(Config) : \A n \in pass.todo[j] :
         status[<<j, NameOf(n)>>] = "running" =>
           \E r \in ResourcesAt(Config, Config.jobs[j].level) :
             left[<<LevelOf(n), NameOf(n), r>>] < Config.jobs[j].needs[r]

-----------------------------------------------------------------------------
(* What running tasks use *)

\* What one task uses of a resource
UseOf(t, name, resource) ==
  SumFunction([u \in {v \in t.uses : v.node = name /\ v.resource = resource} |-> u.amount])

\* Finitely many tasks that use amounts
HaveUses(tasks) ==
  /\ IsFiniteSet(tasks)
  /\ \A t \in tasks : IsFiniteSet(t.uses) /\ \A u \in t.uses : u.amount \in Nat

\* What one task uses of a resource is a natural number.
LEMMA UseIsNatural ==
  ASSUME NEW t, IsFiniteSet(t.uses), \A u \in t.uses : u.amount \in Nat, NEW name, NEW resource
  PROVE  /\ UseOf(t, name, resource) \in Nat
         /\ (\A u \in t.uses : ~ (u.node = name /\ u.resource = resource))
              => UseOf(t, name, resource) = 0
<1>. DEFINE S == {v \in t.uses : v.node = name /\ v.resource = resource}
            f == [u \in S |-> u.amount]
<1>1. IsFiniteSet(S)
  BY FS_Subset
<1>2. UseOf(t, name, resource) = SumFunctionOnSet(f, S)
  BY DEF UseOf, SumFunction
<1>3. \A u \in S : f[u] \in Nat
  OBVIOUS
<1>4. ASSUME S = {}  PROVE SumFunctionOnSet(f, S) = 0
  <2>. HIDE DEF f
  <2>. QED  BY <1>4, SumOfNothing
<1>5. SumFunctionOnSet(f, S) \in Nat
  <2>. HIDE DEF f, S
  <2>. QED  BY <1>1, <1>3, SumIsNatural
<1>. QED
  BY <1>2, <1>4, <1>5

\* A task with one entry for this resource of this name
LEMMA UseOfOne ==
  ASSUME NEW t, NEW u, NEW name, NEW resource, u.amount \in Nat,
         {v \in t.uses : v.node = name /\ v.resource = resource} = {u}
  PROVE  UseOf(t, name, resource) = u.amount
<1>. DEFINE f == [v \in {u} |-> v.amount]
<1>1. UseOf(t, name, resource) = SumFunctionOnSet(f, {u})
  BY DEF UseOf, SumFunction
<1>2. IsFiniteSet({u}) /\ (\A v \in {u} : f[v] \in Nat) /\ f[u] = u.amount
  BY FS_Singleton
<1>. HIDE DEF f
<1>3. SumFunctionOnSet(f, {u}) = f[u] + SumFunctionOnSet(f, {u} \ {u})
  BY <1>2, SumWithout
<1>4. SumFunctionOnSet(f, {u} \ {u}) = 0
  <2>1. {u} \ {u} = {}
    OBVIOUS
  <2>. QED  BY <2>1, SumOfNothing
<1>. QED
  BY <1>1, <1>2, <1>3, <1>4

\* What the tasks use is the sum of what each of them does.
LEMMA UsedIsSum ==
  ASSUME NEW tasks, NEW name, NEW resource
  PROVE  UsedOf(tasks, name, resource)
           = SumFunctionOnSet([t \in tasks |-> UseOf(t, name, resource)], tasks)
BY DEF UsedOf, UseOf, SumFunction

\* What the tasks use is a natural number.
LEMMA UsedIsNatural ==
  ASSUME NEW tasks, HaveUses(tasks), NEW name, NEW resource
  PROVE  UsedOf(tasks, name, resource) \in Nat
<1>. DEFINE f == [t \in tasks |-> UseOf(t, name, resource)]
<1>1. \A t \in tasks : f[t] \in Nat
  BY UseIsNatural DEF HaveUses
<1>. HIDE DEF f
<1>2. SumFunctionOnSet(f, tasks) \in Nat
  BY <1>1, SumIsNatural DEF HaveUses
<1>. QED
  BY <1>2, UsedIsSum DEF f

\* What the tasks use is what one of them uses and what the others use.
AddsUp(tasks, t, name, resource) ==
  /\ UseOf(t, name, resource) \in Nat
  /\ UsedOf(tasks, name, resource) \in Nat /\ UsedOf(tasks \ {t}, name, resource) \in Nat
  /\ UsedOf(tasks, name, resource)
       = UseOf(t, name, resource) + UsedOf(tasks \ {t}, name, resource)

\* A task that ends gives back what it used.
LEMMA UsedWithout ==
  ASSUME NEW tasks, HaveUses(tasks), NEW t \in tasks, NEW name, NEW resource
  PROVE  HaveUses(tasks \ {t}) /\ AddsUp(tasks, t, name, resource)
<1>. DEFINE f == [x \in tasks |-> UseOf(x, name, resource)]
            g == [x \in tasks \ {t} |-> UseOf(x, name, resource)]
<1>1. /\ \A x \in tasks : f[x] \in Nat
      /\ f[t] = UseOf(t, name, resource) /\ \A x \in tasks \ {t} : f[x] = g[x]
  BY UseIsNatural DEF HaveUses
<1>2. IsFiniteSet(tasks) /\ IsFiniteSet(tasks \ {t}) /\ HaveUses(tasks \ {t})
  BY FS_RemoveElement DEF HaveUses
<1>3. /\ UsedOf(tasks, name, resource) = SumFunctionOnSet(f, tasks)
      /\ UsedOf(tasks \ {t}, name, resource) = SumFunctionOnSet(g, tasks \ {t})
  BY UsedIsSum
<1>. HIDE DEF f, g
<1>4. SumFunctionOnSet(f, tasks) = f[t] + SumFunctionOnSet(f, tasks \ {t})
  BY <1>1, <1>2, SumWithout
<1>5. SumFunctionOnSet(f, tasks \ {t}) = SumFunctionOnSet(g, tasks \ {t})
  BY <1>1, <1>2, SumCongruence
<1>6. UsedOf(tasks, name, resource) \in Nat /\ UsedOf(tasks \ {t}, name, resource) \in Nat
  BY <1>2, UsedIsNatural
<1>7. UseOf(t, name, resource) \in Nat
  BY <1>1
<1>. QED
  BY <1>1, <1>2, <1>3, <1>4, <1>5, <1>6, <1>7 DEF AddsUp

\* A task more
LEMMA UsedWith ==
  ASSUME NEW tasks, NEW t, HaveUses(tasks \cup {t}), t \notin tasks, NEW name, NEW resource
  PROVE  /\ UseOf(t, name, resource) \in Nat /\ UsedOf(tasks, name, resource) \in Nat
         /\ UsedOf(tasks \cup {t}, name, resource)
              = UsedOf(tasks, name, resource) + UseOf(t, name, resource)
<1>. DEFINE all == tasks \cup {t}
<1>0. all \ {t} = tasks
  OBVIOUS
<1>1. t \in all /\ HaveUses(all)
  OBVIOUS
<1>. HIDE DEF all
<1>2. AddsUp(all, t, name, resource)
  BY <1>1, UsedWithout
<1>3. UsedOf(all \ {t}, name, resource) = UsedOf(tasks, name, resource)
  BY <1>0
<1>4. /\ UseOf(t, name, resource) \in Nat /\ UsedOf(tasks, name, resource) \in Nat
      /\ UsedOf(all, name, resource) = UsedOf(tasks, name, resource) + UseOf(t, name, resource)
  BY <1>2, <1>3 DEF AddsUp
<1>. QED
  BY <1>4 DEF all

\* The tasks that use nothing of a name may be left out.
LEMMA UsedByUsers ==
  ASSUME NEW tasks, HaveUses(tasks), NEW w, NEW resource,
         \A t \in tasks : t.shard # w => UseOf(t, w, resource) = 0
  PROVE  UsedOf(tasks, w, resource) = UsedOf({t \in tasks : t.shard = w}, w, resource)
<1>. DEFINE Of(S) == {t \in S : t.shard = w}
            Same(S) == UsedOf(S, w, resource) = UsedOf(Of(S), w, resource)
            Bad == {k \in Nat : \E S \in SUBSET tasks : Cardinality(S) = k /\ ~ Same(S)}
<1>0. \A S \in SUBSET tasks : IsFiniteSet(S) /\ Cardinality(S) \in Nat /\ HaveUses(S)
  BY FS_Subset, FS_CardinalityType DEF HaveUses
<1>. SUFFICES ASSUME Bad # {}  PROVE FALSE
  BY <1>0
<1>1. PICK m \in Bad : m \in Nat /\ m - 1 \notin Bad
  <2>1. Bad \in SUBSET Nat
    OBVIOUS
  <2>. HIDE DEF Bad
  <2>. QED  BY <2>1, LeastFailure
<1>2. PICK S \in SUBSET tasks : Cardinality(S) = m /\ ~ Same(S)
  OBVIOUS
<1>3. S # {}
  <2>1. S = {} => Of(S) = S
    OBVIOUS
  <2>. QED  BY <1>2, <2>1
<1>4. PICK t \in S : TRUE
  BY <1>3
<1>5. Same(S \ {t})
  <2>1. Cardinality(S \ {t}) = m - 1 /\ S \ {t} \in SUBSET tasks
    BY <1>0, <1>2, FS_RemoveElement
  <2>2. Cardinality(S \ {t}) \in Nat
    BY <1>0, <2>1
  <2>. QED  BY <1>1, <2>1, <2>2
<1>6. AddsUp(S, t, w, resource)
  <2>1. HaveUses(S) /\ t \in S
    BY <1>0
  <2>. QED  BY <2>1, UsedWithout
<1>7. CASE t.shard = w
  <2>1. Of(S) \ {t} = Of(S \ {t}) /\ t \in Of(S) /\ Of(S) \in SUBSET tasks
    BY <1>7
  <2>. HIDE DEF Of
  <2>2. AddsUp(Of(S), t, w, resource)
    <3>1. HaveUses(Of(S)) /\ t \in Of(S)
      BY <1>0, <2>1
    <3>. QED  BY <3>1, UsedWithout
  <2>. QED
    BY <1>2, <1>5, <1>6, <2>1, <2>2 DEF AddsUp
<1>8. CASE t.shard # w
  <2>1. Of(S) = Of(S \ {t}) /\ UseOf(t, w, resource) = 0
    BY <1>8
  <2>. HIDE DEF Of
  <2>. QED
    BY <1>2, <1>5, <1>6, <2>1 DEF AddsUp
<1>. QED
  BY <1>7, <1>8

-----------------------------------------------------------------------------
(* What a worker has *)

\* The equation of the capacities after every entry of physical_resources
CapacitySteps(config, worker, m, f) ==
  f = [i \in 0..m |-> IF i = 0 THEN config.limits[WorkerLevel(config)]
                      ELSE ApplyPhysical(config, worker, f[i - 1], config.physical[i])]

\* The recursion over physical_resources has a solution for every length.
LEMMA CapacityStepsExist ==
  ASSUME NEW config, NEW worker, NEW k \in Nat
  PROVE  \E f : CapacitySteps(config, worker, k, f)
<1>. DEFINE Steps(m, f) == CapacitySteps(config, worker, m, f)
            Bad == {m \in Nat : ~ \E f : Steps(m, f)}
<1>. SUFFICES ASSUME Bad # {}  PROVE FALSE
  OBVIOUS
<1>1. PICK m \in Bad : m \in Nat /\ m - 1 \notin Bad
  <2>1. Bad \in SUBSET Nat
    OBVIOUS
  <2>. HIDE DEF Bad
  <2>. QED  BY <2>1, LeastFailure
<1>2. CASE m = 0
  <2>1. \A i \in 0..0 : i = 0
    OBVIOUS
  <2>2. Steps(0, [i \in 0..0 |-> config.limits[WorkerLevel(config)]])
    BY <2>1 DEF CapacitySteps
  <2>. QED  BY <1>1, <1>2, <2>2
<1>3. CASE m # 0
  <2>1. m \in Nat /\ m - 1 \in Nat
    BY <1>1, <1>3
  <2>2. PICK g : Steps(m - 1, g)
    BY <1>1, <2>1
  <2>. DEFINE step(f, i) == IF i = 0 THEN config.limits[WorkerLevel(config)]
                            ELSE ApplyPhysical(config, worker, f[i - 1], config.physical[i])
              h == [i \in 0..m |-> step(g, i)]
  <2>3. \A i \in 0..(m - 1) : i \in 0..m /\ g[i] = step(g, i)
    <3>1. \A i \in 0..(m - 1) : i \in 0..m
      BY <2>1
    <3>2. \A i \in 0..(m - 1) : g[i] = step(g, i)
      BY <2>2 DEF CapacitySteps
    <3>. QED  BY <3>1, <3>2
  <2>4. \A i \in 0..(m - 1) : h[i] = g[i]
    BY <2>3
  <2>5. \A i \in 0..m : i # 0 => i - 1 \in 0..(m - 1)
    BY <2>1
  <2>6. \A i \in 0..m : step(h, i) = step(g, i)
    <3>. HIDE DEF h
    <3>. QED  BY <2>4, <2>5
  <2>7. h = [i \in 0..m |-> step(h, i)]
    <3>1. h = [i \in 0..m |-> step(g, i)]
      OBVIOUS
    <3>. HIDE DEF h, step
    <3>. QED  BY <2>6, <3>1, Zenon
  <2>8. Steps(m, h)
    <3>. HIDE DEF h
    <3>. QED  BY <2>7 DEF CapacitySteps
  <2>. QED
    BY <1>1, <2>8
<1>. QED
  BY <1>2, <1>3

\* Amounts of all worker resources
IsAmounts(config, capacity) ==
  DOMAIN capacity = WorkerResources(config) /\ \A r \in WorkerResources(config) : capacity[r] \in Int

\* An entry of physical_resources leaves amounts.
LEMMA AppliedIsAmounts ==
  ASSUME NEW config, NEW worker, worker.ram \in Int, worker.cpus \in Int,
         worker.gpus \in Seq(Range(worker.gpus)), NEW capacity, IsAmounts(config, capacity),
         NEW prc \in PhysicalResourceConfig(config)
  PROVE  IsAmounts(config, ApplyPhysical(config, worker, capacity, prc))
<1>. DEFINE amount == PhysicalAmount(worker, prc.physical)
            cards(r) == IF prc.physical = "gpu_card"
                        THEN Cardinality({i \in DOMAIN worker.gpus : worker.gpus[i] = r}) ELSE 0
            base == IF amount = 0 THEN capacity
                    ELSE [capacity EXCEPT ![prc.logical] = PhysicalToLogical(prc, amount)]
<1>1. /\ prc.physical \in {"ram_mb", "cpu_core", "gpu_card"}
      /\ prc.multiply \in Nat \ {0} /\ prc.reserve \in Int
  BY DEF PhysicalResourceConfig
<1>2. Len(worker.gpus) \in Nat /\ DOMAIN worker.gpus = 1..Len(worker.gpus)
  OBVIOUS
<1>3. amount \in Int
  BY <1>1, <1>2 DEF PhysicalAmount
<1>4. PhysicalToLogical(prc, amount) \in Int
  <2>. HIDE DEF amount
  <2>1. \A a \in Int, b \in Nat \ {0} : a \div b \in Int
    OBVIOUS
  <2>. QED  BY <1>1, <1>3, <2>1 DEF PhysicalToLogical
<1>5. \A r : cards(r) \in Int
  <2>1. IsFiniteSet(DOMAIN worker.gpus)
    BY <1>2, FS_Interval
  <2>2. \A r : IsFiniteSet({i \in DOMAIN worker.gpus : worker.gpus[i] = r})
    BY <2>1, FS_Subset
  <2>3. \A r : Cardinality({i \in DOMAIN worker.gpus : worker.gpus[i] = r}) \in Nat
    BY <2>2, FS_CardinalityType
  <2>4. 0 \in Int /\ \A k \in Nat : k \in Int
    OBVIOUS
  <2>. QED  BY <2>3, <2>4, Zenon
<1>6. \A r \in WorkerResources(config) : base[r] \in Int
  <2>. HIDE DEF amount
  <2>. QED  BY <1>4 DEF IsAmounts
<1>7. ApplyPhysical(config, worker, capacity, prc) = [r \in DOMAIN capacity |-> base[r] + cards(r)]
  BY DEF ApplyPhysical
<1>. HIDE DEF base, cards, amount
<1>. QED
  BY <1>5, <1>6, <1>7 DEF IsAmounts

\* The capacity of a worker is an amount of every worker resource.
LEMMA CapacityIsAmounts ==
  ASSUME NEW c \in Contents, NEW w \in DOMAIN Workers
  PROVE  IsAmounts(ConfigOf[c], WorkerCapacity(ConfigOf[c], Workers[w]))
<1>. DEFINE config == ConfigOf[c]
            worker == Workers[w]
            L == Len(config.physical)
            override == OverrideOf(config, worker)
<1>1. /\ worker.ram \in Int /\ worker.cpus \in Int /\ worker.gpus \in Seq(Range(worker.gpus))
  BY MainAssumption
<1>2. /\ config.physical \in Seq(PhysicalResourceConfig(config)) /\ config.numLevels \in Nat
      /\ \A l \in LevelsOf(config) : \A r \in ResourcesAt(config, l) : config.limits[l][r] \in Int
      /\ \A x \in DOMAIN config.overrides : \A r \in DOMAIN config.overrides[x] :
           config.overrides[x][r] \in Int
  BY ConfigAssumption
<1>. HIDE DEF config, worker
<1>3. L \in Nat /\ \A i \in 1..L : config.physical[i] \in PhysicalResourceConfig(config)
  BY <1>2
<1>4. PICK f : CapacitySteps(config, worker, L, f)
                /\ f[L] = (CHOOSE g : CapacitySteps(config, worker, L, g))[L]
  <2>1. CapacitySteps(config, worker, L, CHOOSE g : CapacitySteps(config, worker, L, g))
    BY <1>3, CapacityStepsExist
  <2>. QED  BY <2>1
<1>5. WorkerCapacity(config, worker)
        = [r \in DOMAIN f[L] |-> IF r \in DOMAIN override THEN override[r] ELSE f[L][r]]
  BY <1>4 DEF WorkerCapacity, CapacitySteps
<1>6. IsAmounts(config, f[L])
  <2>. DEFINE Bad == {i \in 0..L : ~ IsAmounts(config, f[i])}
  <2>0. \A i \in 0..L : f[i] = IF i = 0 THEN config.limits[WorkerLevel(config)]
                             ELSE ApplyPhysical(config, worker, f[i - 1], config.physical[i])
    BY <1>4 DEF CapacitySteps
  <2>. SUFFICES Bad = {}
    BY <1>3
  <2>. SUFFICES ASSUME Bad # {}  PROVE FALSE
    OBVIOUS
  <2>1. PICK m \in Bad : m \in Nat /\ m - 1 \notin Bad
    <3>1. Bad \in SUBSET Nat
      BY <1>3
    <3>. HIDE DEF Bad
    <3>. QED  BY <3>1, LeastFailure
  <2>2. m \in 0..L /\ ~ IsAmounts(config, f[m])
    OBVIOUS
  <2>3. CASE m = 0
    <3>1. f[m] = config.limits[WorkerLevel(config)]
      BY <2>0, <2>2, <2>3
    <3>2. WorkerLevel(config) \in LevelsOf(config)
      BY <1>2 DEF WorkerLevel, LevelsOf
    <3>. QED  BY <1>2, <2>2, <3>1, <3>2 DEF IsAmounts, WorkerResources, ResourcesAt
  <2>4. CASE m # 0
    <3>0. m - 1 \in 0..L /\ m \in 1..L
      BY <1>3, <2>2, <2>4
    <3>1. f[m] = ApplyPhysical(config, worker, f[m - 1], config.physical[m])
      BY <2>0, <2>2, <2>4
    <3>2. IsAmounts(config, f[m - 1]) /\ config.physical[m] \in PhysicalResourceConfig(config)
      BY <1>3, <2>1, <3>0
    <3>. QED  BY <1>1, <2>2, <3>1, <3>2, AppliedIsAmounts
  <2>. QED  BY <2>3, <2>4
<1>7. \A r \in DOMAIN override : override[r] \in Int
  <2>. DEFINE keys == <<worker.hostport, worker.host, worker.shard>>
              known == {i \in DOMAIN keys : keys[i] \in DOMAIN config.overrides}
  <2>1. CASE known = {}
    <3>1. override = <<>>
      BY <2>1 DEF OverrideOf
    <3>. QED  BY <3>1
  <2>2. CASE known # {}
    <3>1. DOMAIN keys \subseteq Nat
      OBVIOUS
    <3>2. Min(known) \in known
      <4>1. known \in SUBSET Nat
        BY <3>1
      <4>. HIDE DEF known
      <4>. QED  BY <2>2, <4>1, MinIsLeast
    <3>3. override = config.overrides[keys[Min(known)]]
      BY <2>2 DEF OverrideOf
    <3>4. keys[Min(known)] \in DOMAIN config.overrides
      BY <3>2
    <3>. HIDE DEF keys, known
    <3>. QED  BY <1>2, <3>3, <3>4
  <2>. QED  BY <2>1, <2>2
<1>8. IsAmounts(config, WorkerCapacity(config, worker))
  <2>. HIDE DEF override, L
  <2>. QED  BY <1>5, <1>6, <1>7 DEF IsAmounts
<1>. QED
  BY <1>8 DEF config, worker

-----------------------------------------------------------------------------
(* Which worker is found *)

\* getNextWorker gets to every worker of the pool.
LEMMA WorkersTakeTurns ==
  ASSUME NEW S, NEW pool, pool.order \in Seq(S), Len(pool.order) > 0
  PROVE  /\ \A k \in 0..(Len(pool.order) - 1) : WorkerAfter(pool, k) \in Range(pool.order)
         /\ \A w \in Range(pool.order) : \E k \in 0..(Len(pool.order) - 1) : WorkerAfter(pool, k) = w
<1>. DEFINE L == Len(pool.order)
            a == StartIndex(pool)
<1>1. L \in Nat /\ L > 0 /\ DOMAIN pool.order = 1..L
  OBVIOUS
<1>. HIDE DEF L
<1>2. a \in 1..L
  <2>1. 1 \in 1..L
    BY <1>1
  <2>. QED  BY <1>1, <2>1 DEF StartIndex
<1>3. \A k : WorkerAfter(pool, k) = pool.order[((a - 1 + k) % L) + 1]
  BY DEF WorkerAfter, L
<1>. HIDE DEF a
<1>4. ASSUME NEW k \in 0..(L - 1)
      PROVE  ((a - 1 + k) % L) + 1 = IF a + k <= L THEN a + k ELSE a + k - L
  <2>1. PICK x \in Nat : x = a - 1 + k /\ x < 2 * L
    BY <1>1, <1>2
  <2>2. x % L = IF x < L THEN x ELSE x - L
    BY <1>1, <2>1, Wrapped
  <2>3. (x % L) + 1 = IF a + k <= L THEN a + k ELSE a + k - L
    BY <1>1, <1>2, <2>1, <2>2
  <2>. QED  BY <2>1, <2>3, Zenon
<1>5. ASSUME NEW k \in 0..(L - 1)  PROVE WorkerAfter(pool, k) \in Range(pool.order)
  <2>1. ((a - 1 + k) % L) + 1 \in 1..L
    <3>1. (IF a + k <= L THEN a + k ELSE a + k - L) \in 1..L
      BY <1>1, <1>2
    <3>. QED  BY <1>4, <3>1
  <2>. QED  BY <1>1, <1>3, <2>1 DEF Range
<1>6. ASSUME NEW w \in Range(pool.order)  PROVE \E k \in 0..(L - 1) : WorkerAfter(pool, k) = w
  <2>1. PICK i \in 1..L : pool.order[i] = w
    BY <1>1 DEF Range
  <2>. DEFINE k == IF i >= a THEN i - a ELSE i - a + L
  <2>2. k \in 0..(L - 1) /\ i = IF a + k <= L THEN a + k ELSE a + k - L
    BY <1>1, <1>2
  <2>. HIDE DEF k
  <2>3. ((a - 1 + k) % L) + 1 = i
    BY <1>4, <2>2
  <2>. QED  BY <1>3, <2>1, <2>2, <2>3
<1>. QED
  BY <1>5, <1>6 DEF L

\* A pool has known workers only.
LEMMA PoolForKnown ==
  ASSUME PoolsInv, NEW host
  PROVE  /\ PoolFor(pools, host).order \in Seq(Known) /\ Range(PoolFor(pools, host).order) \subseteq Known
         /\ PoolFor(pools, host) = [order |-> PoolFor(pools, host).order, next |-> PoolFor(pools, host).next]
<1>1. /\ PoolFor(pools, host).order \in Seq(Known)
      /\ PoolFor(pools, host) = [order |-> PoolFor(pools, host).order, next |-> PoolFor(pools, host).next]
  <2>1. ASSUME NEW p \in DOMAIN pools
        PROVE  pools[p].order \in Seq(Known) /\ pools[p] = [order |-> pools[p].order, next |-> pools[p].next]
    BY DEF PoolsInv
  <2>2. <<>> \in Seq(Known)
    OBVIOUS
  <2>3. AllWorkers \in DOMAIN pools
    BY DEF PoolsInv
  <2>. QED  BY <2>1, <2>2, <2>3 DEF PoolFor
<1>2. \A S : \A s \in Seq(S) : Range(s) \subseteq S
  BY DEF Range
<1>. QED
  BY <1>1, <1>2

\* findWorker: a worker that it found fits, and when it found none, no healthy
\* worker of the pool fits.
LEMMA WorkerIsFound ==
  ASSUME PoolsInv, NEW config, NEW job, NEW node,
         NEW answer \in FindWorker(config, job, node, KnownWorkers, healthy, workerLeft, pools)
  PROVE  /\ answer.response = "RanTask" =>
              answer.shard \in Known /\ TaskFitsWorker(config, job, Workers[answer.shard], workerLeft)
         /\ answer.response # "RanTask" =>
              \A w \in healthy \cap Range(PoolFor(pools, RequiredHostForTask(job, node)).order) :
                ~ TaskFitsWorker(config, job, Workers[w], workerLeft)
<1>. DEFINE pool == PoolFor(pools, RequiredHostForTask(job, node))
            Usable(w) == w \in healthy /\ TaskFitsWorker(config, job, Workers[w], workerLeft)
<1>1. pool.order \in Seq(Known) /\ Range(pool.order) \subseteq Known /\ Known \subseteq DOMAIN Workers
  BY PoolForKnown DEF PoolsInv
<1>2. \A w \in Known : KnownWorkers[w] = Workers[w]
  BY DEF KnownWorkers, Known
<1>. HIDE DEF pool
<1>3. CASE config.selector = "busiest"
  <2>. DEFINE seen == Range(pool.order) \cap healthy \cap DOMAIN workerLeft
              usable == {w \in seen : TaskFitsWorker(config, job, KnownWorkers[w], workerLeft)}
              weight(w) == SumFunction([r \in WorkerResources(config) |->
                                  (workerLeft[w][r] - job.needs[r]) * config.weights[r]])
  <2>1. answer \in BusiestFind(config, job, KnownWorkers, healthy, workerLeft, pool)
    BY <1>3 DEF FindWorker, pool
  <2>2. IF usable # {} THEN answer.response = "RanTask" /\ answer.shard \in usable
        ELSE answer.response # "RanTask"
    <3>1. CASE usable # {}
      <4>1. answer \in {Answer("RanTask", w, pool.next) :
                          w \in {v \in usable : \A x \in usable : weight(v) <= weight(x)}}
        BY <2>1, <3>1 DEF BusiestFind
      <4>2. \E w \in usable : answer = Answer("RanTask", w, pool.next)
        <5>. HIDE DEF usable, weight
        <5>. QED  BY <4>1
      <4>. QED
        <5>. HIDE DEF usable
        <5>. QED  BY <3>1, <4>2 DEF Answer
    <3>2. CASE usable = {}
      <4>1. answer = Answer(IF seen = {} THEN "DoNotRunMoreTasks" ELSE "DidNotRunTask",
                            NoHost, pool.next)
        BY <2>1, <3>2 DEF BusiestFind
      <4>2. answer.response # "RanTask"
        <5>. HIDE DEF seen
        <5>. QED  BY <4>1 DEF Answer
      <4>. QED  BY <3>2, <4>2
    <3>. QED  BY <3>1, <3>2
  <2>3. \A w \in usable : w \in Known /\ Usable(w)
    BY <1>1, <1>2
  <2>4. \A w \in healthy \cap Range(pool.order) :
          TaskFitsWorker(config, job, Workers[w], workerLeft) => w \in usable
    <3>1. \A w \in DOMAIN Workers : TaskFitsWorker(config, job, Workers[w], workerLeft) => w \in DOMAIN workerLeft
      BY MainAssumption DEF TaskFitsWorker
    <3>. QED  BY <1>1, <1>2, <3>1
  <2>. QED
    <3>. HIDE DEF usable
    <3>. QED  BY <2>2, <2>3, <2>4 DEF pool
<1>4. CASE config.selector # "busiest"
  <2>. DEFINE size == Len(pool.order)
              usable == {k \in 0..(size - 1) : WorkerAfter(pool, k) \in healthy
                   /\ TaskFitsWorker(config, job, KnownWorkers[WorkerAfter(pool, k)], workerLeft)}
  <2>1. answer \in RoundRobinFind(config, job, KnownWorkers, healthy, workerLeft, pool)
    BY <1>4 DEF FindWorker, pool
  <2>2. CASE size = 0
    <3>1. answer = Answer("DoNotRunMoreTasks", NoHost, pool.next)
      BY <2>1, <2>2 DEF RoundRobinFind
    <3>2. Range(pool.order) = {}
      BY <1>1, <2>2 DEF Range
    <3>. QED  BY <3>1, <3>2 DEF Answer, pool
  <2>3. CASE size # 0
    <3>1. size \in Nat /\ Len(pool.order) > 0
      BY <1>1, <2>3
    <3>2. /\ \A k \in 0..(size - 1) : WorkerAfter(pool, k) \in Range(pool.order)
          /\ \A w \in Range(pool.order) : \E k \in 0..(size - 1) : WorkerAfter(pool, k) = w
      BY <1>1, <3>1, WorkersTakeTurns
    <3>3. CASE usable # {}
      <4>1. answer = Answer("RanTask", WorkerAfter(pool, Min(usable)), WorkerAfter(pool, Min(usable) + 1))
        BY <2>1, <2>3, <3>3 DEF RoundRobinFind
      <4>2. Min(usable) \in usable
        <5>1. usable \in SUBSET Nat
          BY <3>1
        <5>. HIDE DEF usable
        <5>. QED  BY <3>3, <5>1, MinIsLeast
      <4>3. Min(usable) \in 0..(size - 1) /\ TaskFitsWorker(config, job, KnownWorkers[WorkerAfter(pool, Min(usable))], workerLeft)
        <5>. DEFINE k == Min(usable)
        <5>1. k \in usable
          BY <4>2
        <5>. HIDE DEF k
        <5>2. k \in 0..(size - 1) /\ TaskFitsWorker(config, job, KnownWorkers[WorkerAfter(pool, k)], workerLeft)
          BY <5>1
        <5>. QED  BY <5>2 DEF k
      <4>. HIDE DEF usable
      <4>4. answer.response = "RanTask" /\ answer.shard = WorkerAfter(pool, Min(usable))
        BY <4>1 DEF Answer
      <4>5. answer.shard \in Known /\ TaskFitsWorker(config, job, Workers[answer.shard], workerLeft)
        BY <1>1, <1>2, <3>2, <4>3, <4>4
      <4>. QED  BY <4>4, <4>5
    <3>4. CASE usable = {}
      <4>1. answer = Answer(IF Range(pool.order) \cap healthy = {}
                  THEN "DoNotRunMoreTasks" ELSE "DidNotRunTask", NoHost, WorkerAfter(pool, 1))
        BY <2>1, <2>3, <3>4 DEF RoundRobinFind
      <4>2. answer.response # "RanTask"
        BY <4>1 DEF Answer
      <4>3. \A w \in healthy \cap Range(pool.order) : ~ TaskFitsWorker(config, job, Workers[w], workerLeft)
        BY <1>1, <1>2, <3>2, <3>4
      <4>. QED  BY <4>2, <4>3 DEF pool
    <3>. QED  BY <3>3, <3>4
  <2>. QED  BY <2>2, <2>3
<1>. QED
  BY <1>3, <1>4

-----------------------------------------------------------------------------
(* The policies *)

\* The position of a job in an order
Position(order, j) == CHOOSE i \in DOMAIN order : order[i] = j

\* Where the policy is in its order, 0 before the first try
Pos == IF pass.job \in JobsThatRun(Config) THEN Position(pass.order, pass.job) ELSE 0

\* How many tasks of a job the pass has started
StartsIn(p, j) == Cardinality({n \in p.cands[j] : <<j, n>> \in p.started})

\* A round of roundrobin that is done with the positions to k: the jobs there
\* that have nodes left got c + 1 starts, those after them c, and no job more.
RoundInv(p, c, k) ==
  \A i \in DOMAIN p.order :
    LET due == IF i <= k THEN c + 1 ELSE c
    IN /\ StartsIn(p, p.order[i]) <= due
       /\ p.todo[p.order[i]] # {} => StartsIn(p, p.order[i]) = due

\* Where a job has nodes left, no job after it in the order was tried.
RankInv ==
  \A i \in DOMAIN pass.order :
    /\ i < Pos => pass.todo[pass.order[i]] = {}
    /\ i > Pos => pass.todo[pass.order[i]] = pass.cands[pass.order[i]]

\* The promises of the policies, in terms of the position in the order
PolicyInv ==
  InPass =>
    /\ pass.ran \in BOOLEAN
    /\ IsFiniteSet(pass.started)
    /\ \A j \in JobsThatRun(Config) : \A n \in pass.todo[j] : <<j, n>> \notin pass.started
    /\ Config.policy = "roundrobin" =>
         \E c \in Nat : RoundInv(pass, c, IF pass.ran THEN Pos ELSE Pos - 1)
    /\ Config.policy \in {"ranked_priority", "long_tail"} => RankInv

\* The order of the pass has each of its jobs, at one position.
LEMMA OrderOfPass ==
  ASSUME BasicInv, InPass
  PROVE  /\ Len(pass.order) \in Nat /\ DOMAIN pass.order = 1..Len(pass.order)
         /\ \A i \in DOMAIN pass.order : pass.order[i] \in JobsThatRun(Config)
         /\ \A j \in JobsThatRun(Config) :
              Position(pass.order, j) \in DOMAIN pass.order /\ pass.order[Position(pass.order, j)] = j
         /\ \A i \in DOMAIN pass.order : Position(pass.order, pass.order[i]) = i
         /\ IsFiniteSet(JobsThatRun(Config)) /\ pass.order \in OrdersOf(JobsThatRun(Config))
         /\ DOMAIN pass.todo = JobsThatRun(Config)
<1>1. loop.pc # "config"
  BY DEF InPass
<1>2. IsFiniteSet(JobsThatRun(Config))
  BY <1>1, JobsAreKnown DEF BasicInv
<1>3. /\ DOMAIN pass.cands = JobsThatRun(Config) /\ pass.order \in JobOrders(Config, pass.cands)
      /\ DOMAIN pass.todo = JobsThatRun(Config)
  BY DEF BasicInv, PassShape
<1>4. pass.order \in OrdersOf(JobsThatRun(Config))
  BY <1>3 DEF JobOrders
<1>5. /\ Len(pass.order) \in Nat /\ DOMAIN pass.order = 1..Len(pass.order)
      /\ pass.order \in [1..Len(pass.order) -> JobsThatRun(Config)]
      /\ \A x \in JobsThatRun(Config) : \E i \in 1..Len(pass.order) : pass.order[i] = x
      /\ \A i, k \in 1..Len(pass.order) : pass.order[i] = pass.order[k] => i = k
  BY <1>2, <1>4, PermutationCovers
<1>6. \A j \in JobsThatRun(Config) :
        Position(pass.order, j) \in DOMAIN pass.order /\ pass.order[Position(pass.order, j)] = j
  BY <1>5 DEF Position
<1>7. \A i \in DOMAIN pass.order : pass.order[i] \in JobsThatRun(Config)
  BY <1>5
<1>8. \A i \in DOMAIN pass.order : Position(pass.order, pass.order[i]) = i
  BY <1>5, <1>6, <1>7
<1>. QED
  BY <1>2, <1>3, <1>4, <1>5, <1>6, <1>7, <1>8

\* The job that was tried last is at its position of the order.
LEMMA PosInOrder ==
  ASSUME BasicInv, InPass
  PROVE  /\ Pos \in 0..Len(pass.order)
         /\ pass.job \in JobsThatRun(Config) <=> Pos # 0
         /\ Pos # 0 => pass.order[Pos] = pass.job
<1>1. CASE pass.job \in JobsThatRun(Config)
  <2>1. Pos \in 1..Len(pass.order) /\ pass.order[Pos] = pass.job /\ Len(pass.order) \in Nat
    BY <1>1, OrderOfPass DEF Pos
  <2>. QED  BY <1>1, <2>1
<1>2. CASE pass.job \notin JobsThatRun(Config)
  <2>1. Pos = 0 /\ Len(pass.order) \in Nat
    BY <1>2, OrderOfPass DEF Pos
  <2>. QED  BY <1>2, <2>1
<1>. QED  BY <1>1, <1>2

\* The position that the policy goes to next: it stays, or goes on to the first
\* job that has nodes left.
Stays ==
  /\ pass.job \in JobsThatRun(Config) /\ pass.todo[pass.job] # {}
  /\ ~ pass.ran \/ Config.policy \in {"ranked_priority", "long_tail"}

\* The next job is the last one, or the first after it that has nodes left.
LEMMA NextPosition ==
  ASSUME BasicInv, InPass, Config.policy # "randomized_priority",
         NEW j \in NextJobs(Config, pass.order, pass.todo, pass.job, pass.ran)
  PROVE  \E q \in 1..Len(pass.order) :
           /\ pass.order[q] = j /\ pass.todo[j] # {}
           /\ Stays => q = Pos
           /\ ~ Stays => FirstFrom(pass.order, pass.todo, Pos + 1, q)
<1>1. /\ Len(pass.order) \in Nat /\ DOMAIN pass.order = 1..Len(pass.order)
      /\ IsFiniteSet(JobsThatRun(Config)) /\ pass.order \in OrdersOf(JobsThatRun(Config))
      /\ DOMAIN pass.todo = JobsThatRun(Config)
  BY OrderOfPass
<1>2. j \in JobsThatRun(Config) /\ pass.todo[j] # {}
  BY <1>1, NextJobHasNodes
<1>3. Pos = IF pass.job \in DOMAIN pass.todo
            THEN CHOOSE i \in DOMAIN pass.order : pass.order[i] = pass.job ELSE 0
  BY <1>1 DEF Pos, Position
<1>4. CASE Stays
  <2>1. j = pass.job
    BY <1>1, <1>2, <1>4 DEF NextJobs, Stays
  <2>2. Pos # 0 /\ Pos \in 0..Len(pass.order) /\ pass.order[Pos] = j
    BY <1>2, <2>1, PosInOrder
  <2>3. Pos \in 1..Len(pass.order)
    BY <1>1, <2>2
  <2>. QED  BY <1>2, <1>4, <2>2, <2>3
<1>5. CASE ~ Stays
  <2>1. j = Cyclically(pass.order, pass.todo, Pos + 1)
    BY <1>1, <1>2, <1>3, <1>5 DEF NextJobs, Stays
  <2>2. Pos + 1 \in 1..(Len(pass.order) + 1)
    BY <1>1, PosInOrder
  <2>3. PICK q \in 1..Len(pass.order) :
          /\ Cyclically(pass.order, pass.todo, Pos + 1) = pass.order[q]
          /\ FirstFrom(pass.order, pass.todo, Pos + 1, q)
    BY <1>1, <1>2, <2>2, CyclicallyFinds
  <2>. QED  BY <1>2, <1>5, <2>1, <2>3
<1>. QED  BY <1>4, <1>5

\* The starts of a job, before and after a try
LEMMA StartsAreFinite ==
  ASSUME IsFiniteSet(pass.started), NEW j
  PROVE  /\ IsFiniteSet({n \in pass.cands[j] : <<j, n>> \in pass.started})
         /\ StartsIn(pass, j) \in Nat
<1>. DEFINE S == {n \in pass.cands[j] : <<j, n>> \in pass.started}
            f == [n \in S |-> <<j, n>>]
<1>1. f \in Injection(S, pass.started)
  BY DEF Injection, IsInjective
<1>2. IsFiniteSet(S)
  <2>. HIDE DEF S, f
  <2>. QED  BY <1>1, FS_Injection
<1>. QED
  BY <1>2, FS_CardinalityType DEF StartsIn

\* A try adds a start to its job or to none.
LEMMA StartsAfterTry ==
  ASSUME BasicInv, PolicyInv, InPass, NEW j \in JobsThatRun(Config), NEW n \in pass.todo[j],
         NEW ran \in BOOLEAN, NEW refused, pass' = Tried(j, n, ran, refused)
  PROVE  /\ StartsIn(pass', j) = IF ran THEN StartsIn(pass, j) + 1 ELSE StartsIn(pass, j)
         /\ \A i \in JobsThatRun(Config) : i # j => StartsIn(pass', i) = StartsIn(pass, i)
<1>1. /\ pass'.cands = pass.cands
      /\ pass'.started = IF ran THEN pass.started \cup {<<j, n>>} ELSE pass.started
  BY TriedPass DEF BasicInv
<1>2. n \in pass.cands[j] /\ <<j, n>> \notin pass.started
  BY TriedIsTask DEF PolicyInv
<1>. DEFINE S(i) == {m \in pass.cands[i] : <<i, m>> \in pass.started}
            T(i) == {m \in pass'.cands[i] : <<i, m>> \in pass'.started}
<1>3. \A i : i # j => T(i) = S(i)
  BY <1>1
<1>4. T(j) = IF ran THEN S(j) \cup {n} ELSE S(j)
  BY <1>1, <1>2
<1>5. n \notin S(j) /\ IsFiniteSet(S(j))
  BY <1>2, StartsAreFinite DEF PolicyInv
<1>6. \A i : StartsIn(pass, i) = Cardinality(S(i)) /\ StartsIn(pass', i) = Cardinality(T(i))
  BY DEF StartsIn
<1>. HIDE DEF S, T
<1>7. Cardinality(S(j) \cup {n}) = Cardinality(S(j)) + 1
  BY <1>5, FS_AddElement
<1>. QED
  BY <1>3, <1>4, <1>6, <1>7

\* Before a try at position q the round is done with the positions before q.
LEMMA RoundToPosition ==
  ASSUME BasicInv, PolicyInv, InPass, Config.policy = "roundrobin",
         NEW q \in 1..Len(pass.order), pass.todo[pass.order[q]] # {},
         Stays => q = Pos,
         ~ Stays => FirstFrom(pass.order, pass.todo, Pos + 1, q)
  PROVE  \E c \in Nat : RoundInv(pass, c, q - 1)
<1>. DEFINE L == Len(pass.order)
            s(i) == StartsIn(pass, pass.order[i])
            empty(i) == pass.todo[pass.order[i]] = {}
            p == IF pass.ran THEN Pos ELSE Pos - 1
<1>1. L \in Nat /\ DOMAIN pass.order = 1..L /\ q \in Nat /\ q >= 1 /\ q <= L
  BY OrderOfPass
<1>2. Pos \in 0..L /\ (Pos # 0 => pass.order[Pos] = pass.job /\ pass.job \in JobsThatRun(Config))
  BY PosInOrder
<1>3. PICK c \in Nat : RoundInv(pass, c, p)
  BY DEF PolicyInv
<1>4. \A i \in 1..L : s(i) \in Nat
  BY StartsAreFinite DEF PolicyInv
<1>5. \A i \in 1..L : /\ s(i) <= IF i <= p THEN c + 1 ELSE c
                      /\ ~ empty(i) => s(i) = IF i <= p THEN c + 1 ELSE c
  BY <1>1, <1>3 DEF RoundInv
<1>6. pass.ran \in BOOLEAN /\ p \in Int
  BY <1>2 DEF PolicyInv
<1>7. CASE Stays
  <2>1. p = q - 1
    BY <1>7 DEF Stays
  <2>. QED  BY <1>3, <2>1
<1>8. CASE ~ Stays /\ q >= Pos + 1
  <2>0. Pos \in Nat /\ ~ (q < Pos + 1) /\ FirstFrom(pass.order, pass.todo, Pos + 1, q)
    BY <1>1, <1>2, <1>8
  <2>1. \A i \in (Pos + 1)..(q - 1) : empty(i)
    <3>1. \A i \in (Pos + 1)..(q - 1) : pass.todo[pass.order[i]] = {}
      BY <2>0 DEF FirstFrom
    <3>. QED  BY <3>1
  <2>2. Pos # 0 /\ ~ pass.ran => empty(Pos)
    BY <1>2, <1>8 DEF Stays
  <2>3. p = IF pass.ran THEN Pos ELSE Pos - 1
    OBVIOUS
  <2>. HIDE DEF L, s, empty, p
  <2>4. \A i \in 1..L : /\ s(i) <= IF i <= q - 1 THEN c + 1 ELSE c
                        /\ ~ empty(i) => s(i) = IF i <= q - 1 THEN c + 1 ELSE c
    <3>. SUFFICES ASSUME NEW i \in 1..L
                  PROVE  /\ s(i) <= IF i <= q - 1 THEN c + 1 ELSE c
                         /\ ~ empty(i) => s(i) = IF i <= q - 1 THEN c + 1 ELSE c
      OBVIOUS
    <3>1. i <= p => i <= q - 1
      BY <1>1, <1>2, <1>6, <1>8, <2>3
    <3>2. i > p /\ i <= q - 1 => empty(i)
      <4>1. CASE i \in (Pos + 1)..(q - 1)
        BY <2>1, <4>1
      <4>2. CASE i \notin (Pos + 1)..(q - 1)
        <5>1. i > p /\ i <= q - 1 => i = Pos /\ ~ pass.ran /\ Pos # 0
          BY <1>1, <1>2, <1>6, <2>3, <4>2
        <5>. QED  BY <2>2, <5>1
      <4>. QED  BY <4>1, <4>2
    <3>. QED  BY <1>1, <1>4, <1>5, <1>6, <3>1, <3>2
  <2>. QED
    BY <1>1, <2>4 DEF RoundInv, L, s, empty
<1>9. CASE ~ Stays /\ q < Pos + 1
  <2>0. Pos \in Nat /\ ~ (q >= Pos + 1) /\ FirstFrom(pass.order, pass.todo, Pos + 1, q)
    BY <1>1, <1>2, <1>9
  <2>1. \A i \in (Pos + 1)..L : empty(i)
    <3>1. \A i \in (Pos + 1)..Len(pass.order) : pass.todo[pass.order[i]] = {}
      BY <1>1, <2>0 DEF FirstFrom
    <3>. QED  BY <3>1
  <2>2. \A i \in 1..(q - 1) : empty(i)
    <3>1. \A i \in 1..(q - 1) : pass.todo[pass.order[i]] = {}
      BY <2>0 DEF FirstFrom
    <3>. QED  BY <3>1
  <2>3. Pos # 0 /\ ~ pass.ran => empty(Pos)
    BY <1>2, <1>9 DEF Stays
  <2>4. p = IF pass.ran THEN Pos ELSE Pos - 1
    OBVIOUS
  <2>. HIDE DEF L, s, empty, p
  <2>5. \A i \in 1..L : /\ s(i) <= IF i <= q - 1 THEN c + 1 + 1 ELSE c + 1
                        /\ ~ empty(i) => s(i) = IF i <= q - 1 THEN c + 1 + 1 ELSE c + 1
    <3>. SUFFICES ASSUME NEW i \in 1..L
                  PROVE  /\ s(i) <= IF i <= q - 1 THEN c + 1 + 1 ELSE c + 1
                         /\ ~ empty(i) => s(i) = IF i <= q - 1 THEN c + 1 + 1 ELSE c + 1
      OBVIOUS
    <3>1. s(i) <= c + 1
      BY <1>4, <1>5, <1>6
    <3>2. i <= q - 1 => empty(i)
      BY <1>1, <2>2
    <3>3. i > p => empty(i)
      <4>1. CASE i \in (Pos + 1)..L
        BY <2>1, <4>1
      <4>2. CASE i \notin (Pos + 1)..L
        <5>1. i > p => i = Pos /\ ~ pass.ran /\ Pos # 0
          BY <1>1, <1>2, <1>6, <2>4, <4>2
        <5>. QED  BY <2>3, <5>1
      <4>. QED  BY <4>1, <4>2
    <3>. QED  BY <1>1, <1>4, <1>5, <1>6, <3>1, <3>2, <3>3
  <2>6. PICK d \in Nat : d = c + 1
    OBVIOUS
  <2>7. \A i \in 1..L : /\ s(i) <= IF i <= q - 1 THEN d + 1 ELSE d
                        /\ ~ empty(i) => s(i) = IF i <= q - 1 THEN d + 1 ELSE d
    BY <2>5, <2>6
  <2>8. RoundInv(pass, d, q - 1)
    BY <1>1, <2>7 DEF RoundInv, L, s, empty
  <2>. QED  BY <2>8
<1>10. q >= Pos + 1 \/ q < Pos + 1
  <2>1. Pos \in Nat /\ q \in Nat
    BY <1>1, <1>2
  <2>. QED  BY <2>1
<1>. QED
  BY <1>7, <1>8, <1>9, <1>10, Zenon

\* A start ends the turn of its job.
LEMMA RoundAfterTry ==
  ASSUME BasicInv, PolicyInv, InPass, NEW q \in 1..Len(pass.order), NEW c \in Nat, RoundInv(pass, c, q - 1),
         NEW j, j = pass.order[q], NEW n \in pass.todo[j], NEW ran \in BOOLEAN, NEW refused,
         pass' = Tried(j, n, ran, refused)
  PROVE  RoundInv(pass', c, IF ran THEN q ELSE q - 1)
<1>. DEFINE due(i) == IF i <= (IF ran THEN q ELSE q - 1) THEN c + 1 ELSE c
<1>1. /\ DOMAIN pass.order = 1..Len(pass.order) /\ Len(pass.order) \in Nat
      /\ \A i \in DOMAIN pass.order : pass.order[i] \in JobsThatRun(Config)
      /\ \A i \in DOMAIN pass.order : i # q => pass.order[i] # j
  BY OrderOfPass
<1>2. j \in JobsThatRun(Config) /\ q \in Nat
  BY <1>1
<1>3. /\ pass'.order = pass.order /\ pass'.todo[j] \subseteq pass.todo[j]
      /\ \A i \in JobsThatRun(Config) : i # j => pass'.todo[i] = pass.todo[i]
  <2>1. PassShape /\ j \in JobsThatRun(Config)
    BY <1>2 DEF BasicInv
  <2>2. /\ pass'.order = pass.order /\ pass'.todo[j] = pass.todo[j] \ {n}
        /\ \A i \in JobsThatRun(Config) : i # j => pass'.todo[i] = pass.todo[i]
    BY <2>1, TriedPass, Zenon
  <2>. QED  BY <2>2
<1>4. /\ StartsIn(pass', j) = IF ran THEN StartsIn(pass, j) + 1 ELSE StartsIn(pass, j)
      /\ \A i \in JobsThatRun(Config) : i # j => StartsIn(pass', i) = StartsIn(pass, i)
  BY <1>2, StartsAfterTry
<1>5. StartsIn(pass, j) = c
  BY <1>1, <1>2 DEF RoundInv
<1>6. ASSUME NEW i \in DOMAIN pass.order
      PROVE  /\ StartsIn(pass', pass.order[i]) <= due(i)
             /\ pass'.todo[pass.order[i]] # {} => StartsIn(pass', pass.order[i]) = due(i)
  <2>1. CASE i = q
    <3>1. StartsIn(pass', j) = due(q)
      BY <1>2, <1>4, <1>5
    <3>2. due(q) \in Nat
      OBVIOUS
    <3>. HIDE DEF due
    <3>. QED  BY <2>1, <3>1, <3>2
  <2>2. CASE i # q
    <3>1. /\ StartsIn(pass', pass.order[i]) = StartsIn(pass, pass.order[i])
          /\ pass'.todo[pass.order[i]] = pass.todo[pass.order[i]]
      BY <1>1, <1>3, <1>4, <2>2
    <3>2. due(i) = IF i <= q - 1 THEN c + 1 ELSE c
      BY <1>1, <1>2, <2>2
    <3>. QED  BY <3>1, <3>2 DEF RoundInv
  <2>. QED  BY <2>1, <2>2
<1>7. \A i \in DOMAIN pass'.order :
        /\ StartsIn(pass', pass'.order[i]) <= due(i)
        /\ pass'.todo[pass'.order[i]] # {} => StartsIn(pass', pass'.order[i]) = due(i)
  <2>. HIDE DEF due
  <2>. QED  BY <1>3, <1>6 DEF StartsIn
<1>. QED
  BY <1>7 DEF RoundInv

\* A try is not of a job that ranks below one that has nodes left.
LEMMA RankAfterTry ==
  ASSUME BasicInv, RankInv, InPass, Config.policy \in {"ranked_priority", "long_tail"},
         NEW q \in 1..Len(pass.order), NEW n, NEW ran, NEW refused,
         pass' = Tried(pass.order[q], n, ran, refused), pass.todo[pass.order[q]] # {},
         Stays => q = Pos,
         ~ Stays => FirstFrom(pass.order, pass.todo, Pos + 1, q), Pos' = q
  PROVE  RankInv'
<1>1. /\ DOMAIN pass.order = 1..Len(pass.order) /\ Len(pass.order) \in Nat
      /\ \A i \in DOMAIN pass.order : pass.order[i] \in JobsThatRun(Config)
      /\ \A i \in DOMAIN pass.order : i # q => pass.order[i] # pass.order[q]
  BY OrderOfPass
<1>2. /\ pass'.order = pass.order /\ pass'.cands = pass.cands
      /\ \A i \in JobsThatRun(Config) : i # pass.order[q] => pass'.todo[i] = pass.todo[i]
  <2>1. PassShape /\ pass.order[q] \in JobsThatRun(Config)
    BY <1>1 DEF BasicInv
  <2>. QED  BY <2>1, TriedPass, Zenon
<1>3. \A i \in DOMAIN pass.order : i # q => pass'.todo[pass.order[i]] = pass.todo[pass.order[i]]
  BY <1>1, <1>2
<1>4. Pos \in 0..Len(pass.order) /\ (Pos # 0 => pass.order[Pos] = pass.job /\ pass.job \in JobsThatRun(Config))
  BY PosInOrder
<1>5. /\ q >= Pos
      /\ \A i \in DOMAIN pass.order : i < q => pass.todo[pass.order[i]] = {}
  <2>1. CASE Stays
    BY <1>1, <1>4, <2>1 DEF RankInv
  <2>2. CASE ~ Stays
    <3>1. Pos # 0 => pass.todo[pass.order[Pos]] = {}
      BY <1>4, <2>2 DEF Stays
    <3>2. q > Pos
      <4>1. q < Pos => pass.todo[pass.order[q]] = {}
        BY <1>1 DEF RankInv
      <4>2. q # Pos
        BY <1>1, <3>1
      <4>. QED  BY <1>1, <1>4, <4>1, <4>2
    <3>3. \A i \in (Pos + 1)..(q - 1) : pass.todo[pass.order[i]] = {}
      BY <1>1, <1>4, <2>2, <3>2 DEF FirstFrom
    <3>4. ASSUME NEW i \in DOMAIN pass.order, i < q  PROVE pass.todo[pass.order[i]] = {}
      <4>1. i < Pos => pass.todo[pass.order[i]] = {}
        BY DEF RankInv
      <4>2. i < Pos \/ i = Pos \/ i \in (Pos + 1)..(q - 1)
        BY <1>1, <1>4, <3>4
      <4>3. i = Pos => Pos # 0
        BY <1>1
      <4>. QED  BY <3>1, <3>3, <4>1, <4>2, <4>3
    <3>. QED  BY <1>1, <1>4, <3>2, <3>4
  <2>. QED  BY <2>1, <2>2
<1>6. ASSUME NEW i \in DOMAIN pass.order
      PROVE  /\ i < q => pass'.todo[pass.order[i]] = {}
             /\ i > q => pass'.todo[pass.order[i]] = pass.cands[pass.order[i]]
  <2>1. i < q => i # q /\ pass.todo[pass.order[i]] = {}
    BY <1>1, <1>5
  <2>2. i > q => i # q /\ pass.todo[pass.order[i]] = pass.cands[pass.order[i]]
    BY <1>1, <1>4, <1>5 DEF RankInv
  <2>. QED  BY <1>3, <2>1, <2>2
<1>. QED
  BY <1>2, <1>6 DEF RankInv

\* A try follows the policy.
LEMMA PolicyInvTryTask ==
  ASSUME BasicInv, PolicyInv, TryTask
  PROVE  PolicyInv'
<1>1. PICK j \in JobsThatRun(Config) :
        /\ j \in NextJobs(Config, pass.order, pass.todo, pass.job, pass.ran)
        /\ \E n \in pass.todo[j] : Trying(j, n)
  BY TriesOne
<1>2. PICK n \in pass.todo[j] : Trying(j, n)
  BY <1>1
<1>3. loop.pc = "try"
  BY TriesOne
<1>4. InPass /\ InPass' /\ Config' = Config
  BY <1>2, <1>3, TryingFrame DEF BasicInv
<1>5. PICK ran \in BOOLEAN, refused \in {{}, {<<j, n, healthy>>}} : pass' = Tried(j, n, ran, refused)
  BY <1>2, <1>3, TryingFrame DEF BasicInv
<1>6. /\ pass'.order = pass.order /\ pass'.job = j /\ pass'.ran = ran
      /\ pass'.started = IF ran THEN pass.started \cup {<<j, n>>} ELSE pass.started
      /\ pass'.todo[j] = pass.todo[j] \ {n}
      /\ \A i \in JobsThatRun(Config) : i # j => pass'.todo[i] = pass.todo[i]
  BY <1>4, <1>5, TriedPass DEF BasicInv
<1>7. IsFiniteSet(pass'.started)
  <2>1. IsFiniteSet(pass.started)
    BY <1>4 DEF PolicyInv
  <2>2. IsFiniteSet(pass.started \cup {<<j, n>>})
    BY <2>1, FS_AddElement
  <2>. QED  BY <1>6, <2>1, <2>2
<1>8. \A i \in JobsThatRun(Config) : \A m \in pass'.todo[i] : <<i, m>> \notin pass'.started
  <2>1. \A i \in JobsThatRun(Config) : \A m \in pass.todo[i] : <<i, m>> \notin pass.started
    BY <1>4 DEF PolicyInv
  <2>2. \A x \in pass'.started : x \in pass.started \/ x = <<j, n>>
    BY <1>6
  <2>3. \A i \in JobsThatRun(Config) : \A m \in pass'.todo[i] : m \in pass.todo[i] /\ <<i, m>> # <<j, n>>
    BY <1>6
  <2>. QED  BY <2>1, <2>2, <2>3
<1>9. ASSUME Config.policy # "randomized_priority"
      PROVE  \E q \in 1..Len(pass.order) :
               /\ pass.order[q] = j /\ pass.todo[j] # {} /\ Pos' = q
               /\ Stays => q = Pos
               /\ ~ Stays => FirstFrom(pass.order, pass.todo, Pos + 1, q)
  <2>1. PICK q \in 1..Len(pass.order) :
           /\ pass.order[q] = j /\ pass.todo[j] # {}
           /\ Stays => q = Pos
           /\ ~ Stays => FirstFrom(pass.order, pass.todo, Pos + 1, q)
    BY <1>1, <1>4, <1>9, NextPosition
  <2>2. Pos' = Position(pass.order, j)
    BY <1>4, <1>6 DEF Pos
  <2>3. Position(pass.order, j) = q
    BY <1>4, <2>1, OrderOfPass
  <2>. QED  BY <2>1, <2>2, <2>3
<1>10. ASSUME Config.policy = "roundrobin"
       PROVE  \E c \in Nat : RoundInv(pass', c, IF pass'.ran THEN Pos' ELSE Pos' - 1)
  <2>1. PICK q \in 1..Len(pass.order) :
               /\ pass.order[q] = j /\ pass.todo[j] # {} /\ Pos' = q
               /\ Stays => q = Pos
               /\ ~ Stays => FirstFrom(pass.order, pass.todo, Pos + 1, q)
    BY <1>9, <1>10
  <2>2. PICK c \in Nat : RoundInv(pass, c, q - 1)
    BY <1>4, <1>10, <2>1, RoundToPosition
  <2>3. RoundInv(pass', c, IF ran THEN q ELSE q - 1)
    BY <1>2, <1>4, <1>5, <2>1, <2>2, RoundAfterTry
  <2>. QED  BY <1>6, <2>1, <2>3 DEF RoundInv
<1>11. ASSUME Config.policy \in {"ranked_priority", "long_tail"}
       PROVE  RankInv'
  <2>1. PICK q \in 1..Len(pass.order) :
               /\ pass.order[q] = j /\ pass.todo[j] # {} /\ Pos' = q
               /\ Stays => q = Pos
               /\ ~ Stays => FirstFrom(pass.order, pass.todo, Pos + 1, q)
    BY <1>9, <1>11
  <2>2. RankInv
    BY <1>4, <1>11 DEF PolicyInv
  <2>. QED  BY <1>4, <1>5, <1>11, <2>1, <2>2, RankAfterTry
<1>. QED
  BY <1>4, <1>6, <1>7, <1>8, <1>10, <1>11 DEF PolicyInv

\* A pass begins with an order of its policy and no starts.
LEMMA PolicyInvStartPass ==
  ASSUME BasicInv, StartPass, loop' # loop
  PROVE  PolicyInv'
<1>1. /\ pass'.ran = FALSE /\ pass'.started = {} /\ pass'.cands = pass'.todo
      /\ pass'.job = NoHost /\ Config' = Config /\ loop.pc # "config"
  BY PassStarts
<1>2. Pos' = 0
  <2>1. NoHost \notin JobsThatRun(Config)
    BY <1>1, JobsAreKnown, MainAssumption DEF BasicInv
  <2>. QED  BY <1>1, <2>1 DEF Pos
<1>3. \A j : StartsIn(pass', j) = 0
  <2>1. \A j : {n \in pass'.cands[j] : <<j, n>> \in pass'.started} = {}
    BY <1>1
  <2>. QED  BY <2>1, FS_EmptySet DEF StartsIn
<1>5. DOMAIN pass'.order \subseteq Nat \ {0}
  <2>1. IsFiniteSet(JobsThatRun(Config))
    BY <1>1, JobsAreKnown DEF BasicInv
  <2>2. DOMAIN pass'.todo = JobsThatRun(Config) /\ pass'.order \in OrdersOf(DOMAIN pass'.todo)
    BY PassStarts DEF JobWithNodes, JobOrders
  <2>3. Len(pass'.order) \in Nat /\ DOMAIN pass'.order = 1..Len(pass'.order)
    BY <2>1, <2>2, PermutationCovers
  <2>. QED  BY <2>3
<1>6. RankInv'
  BY <1>1, <1>2, <1>5 DEF RankInv
<1>7. RoundInv(pass', 0, -1)
  BY <1>3, <1>5 DEF RoundInv
<1>8. (IF pass'.ran THEN Pos' ELSE Pos' - 1) = -1
  BY <1>1, <1>2
<1>9. \E c \in Nat : RoundInv(pass', c, IF pass'.ran THEN Pos' ELSE Pos' - 1)
  BY <1>7, <1>8, 0 \in Nat, Zenon
<1>10. pass'.ran \in BOOLEAN /\ IsFiniteSet(pass'.started)
  BY <1>1, FS_EmptySet
<1>11. \A j \in JobsThatRun(Config)' : \A n \in pass'.todo[j] : <<j, n>> \notin pass'.started
  BY <1>1
<1>. QED
  BY <1>6, <1>9, <1>10, <1>11, Zenon DEF PolicyInv

\* Every step keeps PolicyInv.
LEMMA PolicyInvNext ==
  ASSUME BasicInv, PolicyInv, [Next]_vars
  PROVE  PolicyInv'
<1>1. CASE UNCHANGED <<pass, loop>>
  BY <1>1 DEF PolicyInv, RankInv, Pos, InPass, Config
<1>2. CASE ~ InPass'
  BY <1>2 DEF PolicyInv
<1>3. CASE GetConfigAndNodes
  BY <1>2, <1>3 DEF GetConfigAndNodes, InPass
<1>4. CASE UpdateConfig
  BY <1>2, <1>4 DEF UpdateConfig, InPass, At, BasicInv, LoopShape
<1>5. CASE StartPass
  <2>1. CASE loop' = loop
    <3>1. UNCHANGED pass
      BY <1>5, <2>1 DEF StartPass, At, BasicInv, LoopShape
    <3>. QED  BY <1>1, <2>1, <3>1
  <2>. QED  BY <1>5, <2>1, PolicyInvStartPass
<1>6. CASE TryTask
  BY <1>6, PolicyInvTryTask
<1>7. CASE KillOrphans
  BY <1>2, <1>7 DEF KillOrphans, Idle, InPass
<1>. QED
  BY <1>1, <1>3, <1>4, <1>5, <1>6, <1>7
     DEF Next, vars, Tick, EndTask, JoinWorker, ChangeHealth

\* What a policy promises follows from where it is in its order.
LEMMA PolicyInvObeys ==
  ASSUME BasicInv, PolicyInv
  PROVE  PolicyIsObeyed
<1>1. CASE ~ InPass
  <2>1. DOMAIN pass.todo = {}
    BY <1>1 DEF BasicInv, PassShape, NoPass
  <2>. QED  BY <2>1 DEF PolicyIsObeyed
<1>2. CASE InPass
  <2>. SUFFICES ASSUME NEW a \in DOMAIN pass.todo, NEW b \in DOMAIN pass.todo,
                       a # b, pass.todo[a] # {}
       PROVE  /\ Config.policy = "roundrobin" => StartsIn(pass, b) <= StartsIn(pass, a) + 1
              /\ (Config.policy = "ranked_priority"
                   /\ Config.jobs[a].priority > Config.jobs[b].priority)
                    => pass.todo[b] = pass.cands[b]
              /\ (Config.policy = "long_tail"
                   /\ Cardinality(pass.cands[a]) < Cardinality(pass.cands[b]))
                    => pass.todo[b] = pass.cands[b]
    BY DEF PolicyIsObeyed, StartsIn
  <2>. DEFINE x == Position(pass.order, a)
              y == Position(pass.order, b)
  <2>1. /\ Len(pass.order) \in Nat /\ DOMAIN pass.order = 1..Len(pass.order)
        /\ x \in DOMAIN pass.order /\ y \in DOMAIN pass.order
        /\ pass.order[x] = a /\ pass.order[y] = b
    BY <1>2, OrderOfPass
  <2>. HIDE DEF x, y
  <2>2. x \in Nat /\ y \in Nat /\ x # y
    BY <2>1
  <2>3. ASSUME Config.policy = "roundrobin"  PROVE StartsIn(pass, b) <= StartsIn(pass, a) + 1
    <3>0. PICK c \in Nat : \E k : RoundInv(pass, c, k)
      BY <1>2, <2>3 DEF PolicyInv
    <3>1. PICK k : RoundInv(pass, c, k)
      BY <3>0
    <3>2. StartsIn(pass, a) = c \/ StartsIn(pass, a) = c + 1
      BY <2>1, <3>1 DEF RoundInv
    <3>3. StartsIn(pass, b) <= c \/ StartsIn(pass, b) <= c + 1
      BY <2>1, <3>1 DEF RoundInv
    <3>4. StartsIn(pass, b) \in Nat
      BY <1>2, StartsAreFinite DEF PolicyInv
    <3>. QED  BY <3>2, <3>3, <3>4
  <2>4. ASSUME Config.policy \in {"ranked_priority", "long_tail"}, x < y
        PROVE  pass.todo[b] = pass.cands[b]
    <3>1. RankInv
      BY <1>2, <2>4 DEF PolicyInv
    <3>2. ~ (x < Pos)
      BY <2>1, <3>1 DEF RankInv
    <3>3. y > Pos
      BY <1>2, <2>1, <2>2, <2>4, <3>2, PosInOrder
    <3>. QED  BY <2>1, <3>1, <3>3 DEF RankInv
  <2>5. pass.order \in JobOrders(Config, pass.cands)
    BY <1>2 DEF BasicInv, PassShape
  <2>6. ASSUME Config.policy = "ranked_priority", Config.jobs[a].priority > Config.jobs[b].priority
        PROVE  x < y
    <3>1. ~ (y < x)
      BY <2>1, <2>5, <2>6 DEF JobOrders
    <3>. QED  BY <2>2, <3>1
  <2>7. ASSUME Config.policy = "long_tail",
               Cardinality(pass.cands[a]) < Cardinality(pass.cands[b])
        PROVE  x < y
    <3>1. ~ (y < x)
      BY <2>1, <2>5, <2>7 DEF JobOrders
    <3>. QED  BY <2>2, <3>1
  <2>. QED  BY <2>3, <2>4, <2>6, <2>7
<1>. QED  BY <1>1, <1>2

(* The tries of every pass follow its policy, for any jobs and nodes, whatever  *)
(* fits or not and whatever ends in between: roundrobin gives no job two starts *)
(* more than another that still has nodes to try, and ranked_priority and       *)
(* long_tail leave a job only when it has no nodes left.                        *)
THEOREM PolicyObeyed == Spec => []PolicyIsObeyed
<1>1. Init => BasicInv /\ PolicyInv
  BY BasicInvInit DEF Init, PolicyInv, InPass, Idle
<1>2. BasicInv /\ PolicyInv /\ [Next]_vars => (BasicInv /\ PolicyInv)'
  BY BasicInvNext, PolicyInvNext
<1>3. BasicInv /\ PolicyInv => PolicyIsObeyed
  BY PolicyInvObeys
<1>. QED
  BY <1>1, <1>2, <1>3, PTL DEF Spec

=============================================================================
