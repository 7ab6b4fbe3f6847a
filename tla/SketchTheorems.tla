--------------------------- MODULE SketchTheorems ---------------------------
(***************************************************************************)
(* Facts that the proofs about the sketches share: sums over finite sets,  *)
(* medians, and functions that are defined step by step.                   *)
(*                                                                         *)
(* SumFunctionOnSet, with which the modules add up counts, is a fold, that *)
(* is, a function that calls itself on smaller sets; that there is such a  *)
(* function, and what it gives, is proved by induction over the subsets of *)
(* a finite set.  The inductions are stated with a set of good things in   *)
(* the place of a predicate, and rest on the library's theorem that the    *)
(* strict subset ordering is well founded.                                 *)
(***************************************************************************)
EXTENDS Integers, FiniteSets, Functions, Vectors, FiniteSetTheorems, TLAPS

(***************************************************************************)
(* Induction.                                                              *)
(***************************************************************************)
(* A nonempty set of naturals has a least element.                         *)
LEMMA LeastNat ==
  ASSUME NEW S \in SUBSET Nat, S # {}
  PROVE  \E m \in S : \A k \in S : m <= k
<1>1. PICK m \in S : \A k \in S : ~ (<<k, m>> \in OpToRel(<, Nat))
  BY WFMin, NatLessThanWellFounded, Zenon
<1>2. \A k \in S : ~ (k < m)
  BY <1>1, Zenon DEF OpToRel
<1> QED BY <1>2

LEMMA CountUp ==
  ASSUME NEW Good, 0 \in Good, \A n \in Nat : n \in Good => n + 1 \in Good
  PROVE  \A n \in Nat : n \in Good
<1> SUFFICES ASSUME NEW n \in Nat, n \notin Good PROVE FALSE
  OBVIOUS
<1> DEFINE Bad == {k \in Nat : k \notin Good}
<1>1. PICK m \in Bad : \A k \in Bad : m <= k
  <2> Bad \in SUBSET Nat /\ Bad # {}
    OBVIOUS
  <2> HIDE DEF Bad
  <2> QED BY LeastNat
<1>2. m - 1 \in Nat /\ m - 1 \in Good
  BY <1>1
<1> QED BY <1>1, <1>2

LEMMA SubsetInduction ==
  ASSUME NEW S, IsFiniteSet(S), NEW Good,
         \A s \in SUBSET S : (\A r \in SUBSET s : r # s => r \in Good) => s \in Good
  PROVE  \A s \in SUBSET S : s \in Good
<1> DEFINE Bad == {s \in SUBSET S : s \notin Good}
<1>1. SUFFICES ASSUME Bad # {} PROVE FALSE
  OBVIOUS
<1>2. IsWellFoundedOn(StrictSubsetOrdering(S), SUBSET S)
  BY FS_StrictSubsetOrderingWellFounded, FS_FiniteSubsetsOfFinite
<1>3. PICK s \in Bad : \A r \in Bad : ~ (<<r, s>> \in StrictSubsetOrdering(S))
  <2> Bad \subseteq SUBSET S
    OBVIOUS
  <2> HIDE DEF Bad
  <2> QED BY <1>1, <1>2, WFMin
<1>4. \A r \in SUBSET s : r # s => r \notin Bad
  BY <1>3 DEF StrictSubsetOrdering
<1> QED BY <1>3, <1>4

(***************************************************************************)
(* The recursion.                                                          *)
(***************************************************************************)
Any(s) == CHOOSE x \in s : TRUE

Sums(f, S, g) ==
  g = [s \in SUBSET S |-> IF s = {} THEN 0 ELSE f[Any(s)] + g[s \ {Any(s)}]]

LEMMA AnyIn == ASSUME NEW s, s # {} PROVE Any(s) \in s
BY DEF Any

LEMMA SumByFold ==
  ASSUME NEW f, NEW S
  PROVE  SumFunctionOnSet(f, S) = (CHOOSE g : Sums(f, S, g))[S]
BY DEF SumFunctionOnSet, FoldFunctionOnSet, MapThenFoldSet, Sums, Any

LEMMA SumsUnique ==
  ASSUME NEW f, NEW S, IsFiniteSet(S), NEW R,
         NEW g, Sums(f, S, g), NEW h, Sums(f, R, h)
  PROVE  \A s \in SUBSET S : s \subseteq R => g[s] = h[s]
<1> DEFINE Good == {s \in SUBSET S : s \subseteq R => g[s] = h[s]}
<1>1. ASSUME NEW s \in SUBSET S, \A r \in SUBSET s : r # s => r \in Good
      PROVE  s \in Good
  <2> SUFFICES ASSUME s \subseteq R PROVE g[s] = h[s]
    OBVIOUS
  <2>1. /\ g[s] = IF s = {} THEN 0 ELSE f[Any(s)] + g[s \ {Any(s)}]
        /\ h[s] = IF s = {} THEN 0 ELSE f[Any(s)] + h[s \ {Any(s)}]
    BY DEF Sums
  <2>2. CASE s = {}
    BY <2>1, <2>2
  <2>3. CASE s # {}
    <3>1. g[s \ {Any(s)}] = h[s \ {Any(s)}]
      BY <1>1, <2>3, AnyIn
    <3> QED BY <2>1, <2>3, <3>1
  <2> QED BY <2>2, <2>3
<1> HIDE DEF Good
<1>2. \A s \in SUBSET S : s \in Good
  BY <1>1, SubsetInduction
<1> QED BY <1>2 DEF Good

LEMMA SumsExist ==
  ASSUME NEW f, NEW S, IsFiniteSet(S)
  PROVE  \E g : Sums(f, S, g)
<1> DEFINE Good == {s \in SUBSET S : \E g : Sums(f, s, g)}
<1>1. ASSUME NEW s \in SUBSET S, \A r \in SUBSET s : r # s => r \in Good
      PROVE  \E g : Sums(f, s, g)
  <2> DEFINE F(r) == CHOOSE g : Sums(f, r, g)
             G == [r \in SUBSET s |-> IF r = {} THEN 0
                                      ELSE f[Any(r)] + F(r \ {Any(r)})[r \ {Any(r)}]]
  <2>1. \A r \in SUBSET s : r # s => Sums(f, r, F(r)) /\ IsFiniteSet(r)
    BY <1>1, FS_Subset
  <2> HIDE DEF F
  <2>2. ASSUME NEW r \in SUBSET s, r # s PROVE F(r)[r] = G[r]
    <3>1. F(r)[r] = IF r = {} THEN 0 ELSE f[Any(r)] + F(r)[r \ {Any(r)}]
      BY <2>1, <2>2 DEF Sums
    <3>2. CASE r # {}
      <4> DEFINE q == r \ {Any(r)}
      <4>1. q \in SUBSET s /\ q # s /\ q \in SUBSET r
        BY <2>2
      <4>2. Sums(f, q, F(q)) /\ Sums(f, r, F(r)) /\ IsFiniteSet(q)
        BY <2>1, <2>2, <4>1
      <4>3. F(q)[q] = F(r)[q]
        BY <4>1, <4>2, SumsUnique
      <4> QED BY <3>1, <3>2, <4>3
    <3> QED BY <3>1, <3>2
  <2>3. ASSUME NEW r \in SUBSET s, r # {}
        PROVE  F(r \ {Any(r)})[r \ {Any(r)}] = G[r \ {Any(r)}]
    BY <2>2, <2>3, AnyIn
  <2> DEFINE E == [r \in SUBSET s |-> IF r = {} THEN 0
                                      ELSE f[Any(r)] + G[r \ {Any(r)}]]
  <2>4. \A r \in SUBSET s : G[r] = E[r]
    BY <2>3
  <2>5. G = E
    BY <2>4
  <2> QED BY <2>5 DEF Sums
<1>2. \A s \in SUBSET S : s \in Good
  <2> HIDE DEF Good
  <2>1. \A s \in SUBSET S : (\A r \in SUBSET s : r # s => r \in Good) => s \in Good
    BY <1>1 DEF Good
  <2> QED BY <2>1, SubsetInduction
<1> QED BY <1>2

LEMMA SumRecursion ==
  ASSUME NEW f, NEW S, IsFiniteSet(S)
  PROVE  SumFunctionOnSet(f, S) =
           IF S = {} THEN 0 ELSE f[Any(S)] + SumFunctionOnSet(f, S \ {Any(S)})
<1> DEFINE G(T) == CHOOSE g : Sums(f, T, g)
<1>1. \A T \in SUBSET S : Sums(f, T, G(T)) /\ IsFiniteSet(T)
  BY SumsExist, FS_Subset
<1>2. \A T : SumFunctionOnSet(f, T) = G(T)[T]
  BY SumByFold
<1> HIDE DEF G
<1>3. G(S)[S] = IF S = {} THEN 0 ELSE f[Any(S)] + G(S)[S \ {Any(S)}]
  BY <1>1 DEF Sums
<1>4. G(S \ {Any(S)})[S \ {Any(S)}] = G(S)[S \ {Any(S)}]
  <2> DEFINE T == S \ {Any(S)}
  <2>1. T \in SUBSET T /\ T \subseteq S /\ IsFiniteSet(T)
    BY <1>1
  <2>2. Sums(f, T, G(T)) /\ Sums(f, S, G(S))
    BY <1>1
  <2> QED BY <2>1, <2>2, SumsUnique
<1> QED BY <1>2, <1>3, <1>4

(***************************************************************************)
(* What the proofs of the models use.                                      *)
(***************************************************************************)
(* Nothing adds up to 0.                                                   *)
LEMMA SumEmpty == \A f : SumFunctionOnSet(f, {}) = 0
BY SumRecursion, FS_EmptySet

(* Integers add up to an integer, naturals to a natural.                   *)
LEMMA SumInt ==
  ASSUME NEW f, NEW S, IsFiniteSet(S), \A x \in S : f[x] \in Int
  PROVE  SumFunctionOnSet(f, S) \in Int
<1> DEFINE Good == {s \in SUBSET S : SumFunctionOnSet(f, s) \in Int}
<1>1. ASSUME NEW s \in SUBSET S, \A r \in SUBSET s : r # s => r \in Good
      PROVE  s \in Good
  <2>1. CASE s = {}
    BY <2>1, SumEmpty
  <2>2. CASE s # {}
    <3>1. SumFunctionOnSet(f, s) = f[Any(s)] + SumFunctionOnSet(f, s \ {Any(s)})
      BY <2>2, SumRecursion, FS_Subset
    <3>2. Any(s) \in s /\ s \ {Any(s)} \in Good
      BY <1>1, <2>2, AnyIn
    <3> QED BY <3>1, <3>2
  <2> QED BY <2>1, <2>2
<1> HIDE DEF Good
<1>2. S \in Good
  BY <1>1, SubsetInduction
<1> QED BY <1>2 DEF Good

LEMMA SumNat ==
  ASSUME NEW f, NEW S, IsFiniteSet(S), \A x \in S : f[x] \in Nat
  PROVE  SumFunctionOnSet(f, S) \in Nat
<1> DEFINE Good == {s \in SUBSET S : SumFunctionOnSet(f, s) \in Nat}
<1>1. ASSUME NEW s \in SUBSET S, \A r \in SUBSET s : r # s => r \in Good
      PROVE  s \in Good
  <2>1. CASE s = {}
    BY <2>1, SumEmpty
  <2>2. CASE s # {}
    <3>1. SumFunctionOnSet(f, s) = f[Any(s)] + SumFunctionOnSet(f, s \ {Any(s)})
      BY <2>2, SumRecursion, FS_Subset
    <3>2. Any(s) \in s /\ s \ {Any(s)} \in Good
      BY <1>1, <2>2, AnyIn
    <3> QED BY <3>1, <3>2
  <2> QED BY <2>1, <2>2
<1> HIDE DEF Good
<1>2. S \in Good
  BY <1>1, SubsetInduction
<1> QED BY <1>2 DEF Good

(* Any element may be added last, not only the one the fold takes.         *)
LEMMA SumSplit ==
  ASSUME NEW f, NEW S, IsFiniteSet(S), \A x \in S : f[x] \in Int, NEW x \in S
  PROVE  SumFunctionOnSet(f, S) = f[x] + SumFunctionOnSet(f, S \ {x})
<1> DEFINE Splits(s) == \A z \in s :
             SumFunctionOnSet(f, s) = f[z] + SumFunctionOnSet(f, s \ {z})
           Good == {s \in SUBSET S : Splits(s)}
<1>1. ASSUME NEW s \in SUBSET S, \A r \in SUBSET s : r # s => Splits(r),
             NEW z \in s
      PROVE  SumFunctionOnSet(f, s) = f[z] + SumFunctionOnSet(f, s \ {z})
  <2> DEFINE y == Any(s)
             rest == (s \ {y}) \ {z}
  <2>1. y \in s
    BY AnyIn
  <2>2. SumFunctionOnSet(f, s) = f[y] + SumFunctionOnSet(f, s \ {y})
    BY SumRecursion, FS_Subset
  <2> HIDE DEF y
  <2>3. CASE y = z
    BY <2>2, <2>3
  <2>4. CASE y # z
    <3>1. SumFunctionOnSet(f, s \ {y}) = f[z] + SumFunctionOnSet(f, rest)
      BY <1>1, <2>1, <2>4
    <3>2. SumFunctionOnSet(f, s \ {z}) = f[y] + SumFunctionOnSet(f, rest)
      <4>1. (s \ {z}) \ {y} = rest
        OBVIOUS
      <4>2. SumFunctionOnSet(f, s \ {z}) = f[y] + SumFunctionOnSet(f, (s \ {z}) \ {y})
        BY <1>1, <2>1, <2>4
      <4> QED BY <4>1, <4>2
    <3>3. SumFunctionOnSet(f, rest) \in Int
      <4>1. IsFiniteSet(rest) /\ \A w \in rest : f[w] \in Int
        BY FS_Subset
      <4> HIDE DEF rest
      <4> QED BY <4>1, SumInt
    <3>4. f[y] \in Int /\ f[z] \in Int
      BY <2>1
    <3> QED BY <2>2, <3>1, <3>2, <3>3, <3>4
  <2> QED BY <2>3, <2>4
<1> HIDE DEF Splits
<1>2. \A s \in SUBSET S : (\A r \in SUBSET s : r # s => r \in Good) => s \in Good
  BY <1>1 DEF Splits
<1>3. S \in Good
  <2> HIDE DEF Good
  <2> QED BY <1>2, SubsetInduction
<1> QED BY <1>3 DEF Splits

(* Only the values on the set count.                                       *)
LEMMA SumSame ==
  ASSUME NEW f, NEW g, NEW S, IsFiniteSet(S), \A x \in S : f[x] = g[x]
  PROVE  SumFunctionOnSet(f, S) = SumFunctionOnSet(g, S)
<1> DEFINE Good == {s \in SUBSET S : SumFunctionOnSet(f, s) = SumFunctionOnSet(g, s)}
<1>1. ASSUME NEW s \in SUBSET S, \A r \in SUBSET s : r # s => r \in Good
      PROVE  s \in Good
  <2>1. CASE s = {}
    BY <2>1, SumEmpty
  <2>2. CASE s # {}
    <3>1. /\ SumFunctionOnSet(f, s) = f[Any(s)] + SumFunctionOnSet(f, s \ {Any(s)})
          /\ SumFunctionOnSet(g, s) = g[Any(s)] + SumFunctionOnSet(g, s \ {Any(s)})
      BY <2>2, SumRecursion, FS_Subset
    <3>2. Any(s) \in s /\ s \ {Any(s)} \in Good
      BY <1>1, <2>2, AnyIn
    <3> QED BY <3>1, <3>2
  <2> QED BY <2>1, <2>2
<1> HIDE DEF Good
<1>2. S \in Good
  BY <1>1, SubsetInduction
<1> QED BY <1>2 DEF Good

(* A value that changes by d changes the sum by d.                         *)
LEMMA SumChange ==
  ASSUME NEW f, NEW g, NEW S, IsFiniteSet(S), \A x \in S : f[x] \in Int,
         NEW x \in S, NEW d \in Int, g[x] = f[x] + d,
         \A y \in S : y # x => g[y] = f[y]
  PROVE  SumFunctionOnSet(g, S) = SumFunctionOnSet(f, S) + d
<1>1. /\ SumFunctionOnSet(f, S) = f[x] + SumFunctionOnSet(f, S \ {x})
      /\ SumFunctionOnSet(g, S) = g[x] + SumFunctionOnSet(g, S \ {x})
  BY SumSplit
<1>2. IsFiniteSet(S \ {x})
  BY FS_Subset
<1>3. SumFunctionOnSet(f, S \ {x}) = SumFunctionOnSet(g, S \ {x})
  BY <1>2, SumSame
<1>4. SumFunctionOnSet(f, S \ {x}) \in Int
  BY <1>2, SumInt
<1> QED BY <1>1, <1>3, <1>4

(* The same for the sum of a whole function, and a function that does not  *)
(* change.                                                                 *)
LEMMA FunctionChange ==
  ASSUME NEW S, IsFiniteSet(S), NEW f \in [S -> Int], NEW g \in [S -> Int],
         NEW x \in S, NEW d \in Int, g[x] = f[x] + d,
         \A y \in S : y # x => g[y] = f[y]
  PROVE  SumFunction(g) = SumFunction(f) + d
<1>1. SumFunctionOnSet(g, S) = SumFunctionOnSet(f, S) + d
  BY SumChange
<1> QED BY <1>1 DEF SumFunction

LEMMA FunctionInt ==
  ASSUME NEW S, IsFiniteSet(S), NEW f \in [S -> Int]
  PROVE  SumFunction(f) \in Int
BY SumInt DEF SumFunction

(* Zeros add up to 0.                                                      *)
LEMMA SumZero ==
  ASSUME NEW f, NEW S, IsFiniteSet(S), \A x \in S : f[x] = 0
  PROVE  SumFunctionOnSet(f, S) = 0
<1> DEFINE Good == {s \in SUBSET S : SumFunctionOnSet(f, s) = 0}
<1>1. ASSUME NEW s \in SUBSET S, \A r \in SUBSET s : r # s => r \in Good
      PROVE  s \in Good
  <2>1. CASE s = {}
    BY <2>1, SumEmpty
  <2>2. CASE s # {}
    <3>1. SumFunctionOnSet(f, s) = f[Any(s)] + SumFunctionOnSet(f, s \ {Any(s)})
      BY <2>2, SumRecursion, FS_Subset
    <3>2. Any(s) \in s /\ s \ {Any(s)} \in Good
      BY <1>1, <2>2, AnyIn
    <3> QED BY <3>1, <3>2
  <2> QED BY <2>1, <2>2
<1> HIDE DEF Good
<1>2. S \in Good
  BY <1>1, SubsetInduction
<1> QED BY <1>2 DEF Good

(* A sum of naturals is no less than any of them.                          *)
LEMMA SumCovers ==
  ASSUME NEW f, NEW S, IsFiniteSet(S), \A x \in S : f[x] \in Nat, NEW x \in S
  PROVE  f[x] <= SumFunctionOnSet(f, S)
<1>1. SumFunctionOnSet(f, S) = f[x] + SumFunctionOnSet(f, S \ {x})
  BY SumSplit
<1>2. SumFunctionOnSet(f, S \ {x}) \in Nat
  <2> IsFiniteSet(S \ {x}) /\ \A y \in S \ {x} : f[y] \in Nat
    BY FS_Subset
  <2> QED BY SumNat
<1> QED BY <1>1, <1>2

(* 2 ^ n is positive: it counts the subsets of n things.                   *)
LEMMA PowerOfTwo ==
  ASSUME NEW n \in Nat
  PROVE  2 ^ n \in Nat \ {0}
<1>1. IsFiniteSet(1 .. n) /\ Cardinality(1 .. n) = n
  <2>1. 1 \in Int /\ n \in Int
    OBVIOUS
  <2>2. /\ IsFiniteSet(1 .. n)
        /\ Cardinality(1 .. n) = IF 1 > n THEN 0 ELSE n - 1 + 1
    BY <2>1, FS_Interval
  <2> QED BY <2>1, <2>2
<1>2. /\ IsFiniteSet(SUBSET (1 .. n))
      /\ Cardinality(SUBSET (1 .. n)) = 2 ^ n
  BY <1>1, FS_SUBSET
<1>3. SUBSET (1 .. n) # {}
  OBVIOUS
<1> QED BY <1>2, <1>3, FS_CardinalityType, FS_EmptySet

(***************************************************************************)
(* A draw r below n replaces a key with probability one over c when r is   *)
(* a multiple of c.  A sum over the draws of one value for the multiples   *)
(* and of another for the rest counts s multiples, as many as n holds when *)
(* c divides it and less than one too many otherwise.                      *)
(***************************************************************************)
Excess(n, c)        == IF n % c = 0 THEN 0 ELSE c - (n % c)
Multiples(n, c, s)  == s \in Nat /\ s * c - n = Excess(n, c)
ByDraw(f, n, c, a, b) == \A r \in 0 .. n - 1 : f[r] = IF r % c = 0 THEN a ELSE b
DrawSum(n, s, a, b) == s * a + (n - s) * b

LEMMA RemainderOf ==
  ASSUME NEW c \in Nat \ {0}, NEW q \in Int, NEW r \in 0 .. c - 1
  PROVE  (c * q + r) % c = r
OBVIOUS

LEMMA NextRemainder ==
  ASSUME NEW n \in Nat, NEW c \in Nat \ {0}
  PROVE  /\ n % c \in 0 .. c - 1
         /\ (n + 1) % c = IF n % c = c - 1 THEN 0 ELSE (n % c) + 1
<1> DEFINE q == n \div c
           r == n % c
<1>1. q \in Int /\ r \in 0 .. c - 1 /\ n = c * q + r
  OBVIOUS
<1> HIDE DEF q, r
<1>2. CASE r = c - 1
  <2>1. n + 1 = c * (q + 1) + 0
    BY <1>1, <1>2
  <2>2. (c * (q + 1) + 0) % c = 0
    BY <1>1, RemainderOf
  <2> QED BY <1>1, <1>2, <2>1, <2>2 DEF r
<1>3. CASE r # c - 1
  <2>1. n + 1 = c * q + (r + 1) /\ r + 1 \in 0 .. c - 1
    BY <1>1, <1>3
  <2>2. (c * q + (r + 1)) % c = r + 1
    BY <1>1, <2>1, RemainderOf
  <2> QED BY <1>1, <1>3, <2>1, <2>2 DEF r
<1> QED BY <1>2, <1>3

LEMMA SumOverDraws ==
  ASSUME NEW n \in Nat, NEW c \in Nat \ {0}, NEW a \in Int, NEW b \in Int,
         NEW f, ByDraw(f, n, c, a, b)
  PROVE  \E s : Multiples(n, c, s) /\ SumFunctionOnSet(f, 0 .. n - 1) = DrawSum(n, s, a, b)
<1> DEFINE Counts(m, s) == /\ SumFunctionOnSet(f, 0 .. m - 1) = s * a + (m - s) * b
                           /\ s * c - m = Excess(m, c)
           Good == {m \in Nat : m <= n => \E s \in Nat : Counts(m, s)}
<1>1. 0 \in Good
  <2>1. 0 .. 0 - 1 = {}
    OBVIOUS
  <2>2. Counts(0, 0)
    BY <2>1, SumEmpty DEF Excess
  <2> QED BY <2>2
<1>2. ASSUME NEW m \in Nat, m \in Good PROVE m + 1 \in Good
  <2> SUFFICES ASSUME m + 1 <= n PROVE \E s \in Nat : Counts(m + 1, s)
    OBVIOUS
  <2>1. PICK s \in Nat : Counts(m, s)
    BY <1>2
  <2> DEFINE d == IF m % c = 0 THEN 1 ELSE 0
  <2>2. SumFunctionOnSet(f, 0 .. (m + 1) - 1) = f[m] + SumFunctionOnSet(f, 0 .. m - 1)
    <3> DEFINE upTo == 0 .. (m + 1) - 1
    <3>1. IsFiniteSet(upTo)
      BY FS_Interval
    <3>2. m \in upTo /\ upTo \ {m} = 0 .. m - 1
      OBVIOUS
    <3>3. \A r \in upTo : f[r] \in Int
      BY DEF ByDraw
    <3> HIDE DEF upTo
    <3>4. SumFunctionOnSet(f, upTo) = f[m] + SumFunctionOnSet(f, upTo \ {m})
      BY <3>1, <3>2, <3>3, SumSplit
    <3> QED BY <3>2, <3>4 DEF upTo
  <2>3. f[m] = IF m % c = 0 THEN a ELSE b
    BY DEF ByDraw
  <2>4. s * a + (m - s) * b + f[m] = (s + d) * a + ((m + 1) - (s + d)) * b
    BY <2>3
  <2>5. (s + d) * c - (m + 1) = Excess(m + 1, c)
    <3>1. s * c - m = Excess(m, c)
      BY <2>1
    <3>2. (s + d) * c = s * c + (IF m % c = 0 THEN c ELSE 0)
      OBVIOUS
    <3> DEFINE z == s * c
               r == m % c
    <3>3. z \in Int /\ r \in 0 .. c - 1
      BY NextRemainder
    <3>4. (m + 1) % c = IF r = c - 1 THEN 0 ELSE r + 1
      BY NextRemainder
    <3>5. (s + d) * c = z + (IF r = 0 THEN c ELSE 0)
      BY <3>2
    <3>6. z - m = IF r = 0 THEN 0 ELSE c - r
      BY <3>1 DEF Excess
    <3> HIDE DEF z, r, d
    <3> QED BY <3>3, <3>4, <3>5, <3>6 DEF Excess
  <2>6. SumFunctionOnSet(f, 0 .. m - 1) = s * a + (m - s) * b
    BY <2>1
  <2>7. s * a + (m - s) * b \in Int /\ f[m] \in Int
    BY <2>3
  <2>8. SumFunctionOnSet(f, 0 .. (m + 1) - 1) = (s + d) * a + ((m + 1) - (s + d)) * b
    BY <2>2, <2>4, <2>6, <2>7
  <2>9. s + d \in Nat
    OBVIOUS
  <2> QED BY <2>5, <2>8, <2>9
<1> HIDE DEF Good
<1>3. n \in Good
  BY <1>1, <1>2, CountUp
<1>4. PICK s \in Nat : Counts(n, s)
  BY <1>3 DEF Good
<1> QED BY <1>4 DEF Multiples, DrawSum

(* A bucket with count c - 1 whose key is in a set (out = 1) or not takes  *)
(* a key that is in it (in = 1) or not: the multiples of c replace the key,*)
(* the others keep it.  Over all draws the set gains its due but for the   *)
(* excess, which is less than c.                                           *)
LEMMA DrawsUnbiased ==
  ASSUME NEW n \in Nat, NEW c \in Nat \ {0}, NEW in \in {0, 1}, NEW out \in {0, 1},
         NEW f, ByDraw(f, n, c, c * in - (c - 1) * out, out)
  PROVE  /\ - c < SumFunctionOnSet(f, 0 .. n - 1) - n * in
         /\ SumFunctionOnSet(f, 0 .. n - 1) - n * in < c
         /\ n % c = 0 => SumFunctionOnSet(f, 0 .. n - 1) - n * in = 0
<1> DEFINE a == c * in - (c - 1) * out
           bias == SumFunctionOnSet(f, 0 .. n - 1) - n * in
<1>1. a \in Int /\ out \in Int
  OBVIOUS
<1>2. ByDraw(f, n, c, a, out)
  OBVIOUS
<1> HIDE DEF a
<1>3. PICK s : Multiples(n, c, s) /\ SumFunctionOnSet(f, 0 .. n - 1) = DrawSum(n, s, a, out)
  BY <1>1, <1>2, SumOverDraws
<1>4. Excess(n, c) \in 0 .. c - 1 /\ (n % c = 0 => Excess(n, c) = 0)
  <2>1. n % c \in 0 .. c - 1
    BY NextRemainder
  <2> QED BY <2>1 DEF Excess
<1>5. s \in Nat /\ s * a + (n - s) * out = s * c * in - (s * c - n) * out
  <2>1. CASE in = 0 /\ out = 0
    BY <1>3, <2>1 DEF a, Multiples
  <2>2. CASE in = 1 /\ out = 0
    BY <1>3, <2>2 DEF a, Multiples
  <2>3. CASE in = 0 /\ out = 1
    BY <1>3, <2>3 DEF a, Multiples
  <2>4. CASE in = 1 /\ out = 1
    BY <1>3, <2>4 DEF a, Multiples
  <2> QED BY <2>1, <2>2, <2>3, <2>4
<1>6. bias = Excess(n, c) * in - Excess(n, c) * out
  <2>1. SumFunctionOnSet(f, 0 .. n - 1) = s * c * in - (s * c - n) * out
    BY <1>3, <1>5 DEF DrawSum
  <2>2. s * c - n = Excess(n, c) /\ s * c \in Int /\ Excess(n, c) \in Int
    BY <1>3, <1>4, <1>5 DEF Multiples
  <2>3. CASE in = 0
    BY <2>1, <2>2, <2>3
  <2>4. CASE in = 1
    <3>1. bias = (s * c - n) - (s * c - n) * out
      BY <2>1, <2>2, <2>4
    <3> QED BY <2>2, <2>4, <3>1
  <2> QED BY <2>3, <2>4
<1>7. bias \in {0, Excess(n, c), - Excess(n, c)}
  <2> HIDE DEF bias
  <2> QED BY <1>4, <1>6
<1>8. - c < bias /\ bias < c /\ (n % c = 0 => bias = 0)
  <2> HIDE DEF bias
  <2> QED BY <1>4, <1>7
<1> QED BY <1>8

(***************************************************************************)
(* Sums of parts.                                                          *)
(***************************************************************************)
(* What is 0 need not be added.                                            *)
LEMMA SumSupport ==
  ASSUME NEW f, NEW S, IsFiniteSet(S), \A x \in S : f[x] \in Int,
         NEW T \in SUBSET S, \A x \in S \ T : f[x] = 0
  PROVE  SumFunctionOnSet(f, S) = SumFunctionOnSet(f, T)
<1> DEFINE Good == {s \in SUBSET S : SumFunctionOnSet(f, s) = SumFunctionOnSet(f, s \cap T)}
<1>1. ASSUME NEW s \in SUBSET S, \A r \in SUBSET s : r # s => r \in Good
      PROVE  s \in Good
  <2>1. CASE s = {}
    <3>1. s \cap T = {}
      BY <2>1
    <3> QED BY <2>1, <3>1
  <2>2. CASE s # {}
    <3>1. PICK x \in s : TRUE
      BY <2>2
    <3>2. IsFiniteSet(s) /\ IsFiniteSet(s \cap T)
      BY FS_Subset
    <3>3. SumFunctionOnSet(f, s) = f[x] + SumFunctionOnSet(f, s \ {x})
      BY <3>2, SumSplit
    <3>4. SumFunctionOnSet(f, s \ {x}) = SumFunctionOnSet(f, (s \ {x}) \cap T)
      BY <1>1
    <3>5. CASE x \in T
      <4>1. (s \ {x}) \cap T = (s \cap T) \ {x} /\ x \in s \cap T
        BY <3>5
      <4>2. \A y \in s \cap T : f[y] \in Int
        OBVIOUS
      <4>3. SumFunctionOnSet(f, s \cap T) = f[x] + SumFunctionOnSet(f, (s \cap T) \ {x})
        BY <3>2, <4>1, <4>2, SumSplit
      <4> QED BY <3>3, <3>4, <4>1, <4>3
    <3>6. CASE x \notin T
      <4>1. (s \ {x}) \cap T = s \cap T /\ f[x] = 0
        BY <3>6
      <4>2. SumFunctionOnSet(f, s \cap T) \in Int
        BY <3>2, SumInt
      <4>3. SumFunctionOnSet(f, s) = f[x] + SumFunctionOnSet(f, s \cap T)
        BY <3>3, <3>4, <4>1, Zenon
      <4>4. SumFunctionOnSet(f, s) = SumFunctionOnSet(f, s \cap T)
        BY <4>1, <4>2, <4>3
      <4> QED BY <4>4
    <3> QED BY <3>5, <3>6
  <2> QED BY <2>1, <2>2
<1> HIDE DEF Good
<1>2. S \in Good
  BY <1>1, SubsetInduction
<1>3. S \cap T = T
  OBVIOUS
<1> QED BY <1>2, <1>3 DEF Good

(* Two parts that have nothing in common.                                  *)
LEMMA SumUnion ==
  ASSUME NEW f, NEW S, IsFiniteSet(S), NEW T, IsFiniteSet(T), S \cap T = {},
         \A x \in S \cup T : f[x] \in Int
  PROVE  SumFunctionOnSet(f, S \cup T) = SumFunctionOnSet(f, S) + SumFunctionOnSet(f, T)
<1> DEFINE Good == {s \in SUBSET S :
             SumFunctionOnSet(f, s \cup T) = SumFunctionOnSet(f, s) + SumFunctionOnSet(f, T)}
<1>0. SumFunctionOnSet(f, T) \in Int
  BY SumInt
<1>1. ASSUME NEW s \in SUBSET S, \A r \in SUBSET s : r # s => r \in Good
      PROVE  s \in Good
  <2>1. CASE s = {}
    <3>1. s \cup T = T
      BY <2>1
    <3> QED BY <1>0, <2>1, <3>1, SumEmpty
  <2>2. CASE s # {}
    <3>1. PICK x \in s : TRUE
      BY <2>2
    <3>2. IsFiniteSet(s) /\ IsFiniteSet(s \cup T) /\ IsFiniteSet(s \ {x})
      BY FS_Subset, FS_Union
    <3>3. SumFunctionOnSet(f, s) = f[x] + SumFunctionOnSet(f, s \ {x})
      BY <3>2, SumSplit
    <3>4. SumFunctionOnSet(f, s \cup T) = f[x] + SumFunctionOnSet(f, (s \ {x}) \cup T)
      <4>1. (s \cup T) \ {x} = (s \ {x}) \cup T /\ x \in s \cup T
        OBVIOUS
      <4>2. \A y \in s \cup T : f[y] \in Int
        OBVIOUS
      <4>3. SumFunctionOnSet(f, s \cup T) = f[x] + SumFunctionOnSet(f, (s \cup T) \ {x})
        BY <3>2, <4>1, <4>2, SumSplit
      <4> QED BY <4>1, <4>3
    <3>5. SumFunctionOnSet(f, (s \ {x}) \cup T) =
            SumFunctionOnSet(f, s \ {x}) + SumFunctionOnSet(f, T)
      BY <1>1
    <3>6. SumFunctionOnSet(f, s \ {x}) \in Int /\ f[x] \in Int
      BY <3>2, SumInt
    <3> QED BY <1>0, <3>3, <3>4, <3>5, <3>6
  <2> QED BY <2>1, <2>2
<1> HIDE DEF Good
<1>2. S \in Good
  BY <1>1, SubsetInduction
<1> QED BY <1>2 DEF Good

(* The parts of S that a function g of it makes, one for each of the       *)
(* values V.                                                               *)
Part(S, g, v)  == {x \in S : g[x] = v}
Parts(S, g, W) == {x \in S : g[x] \in W}

LEMMA SumPartition ==
  ASSUME NEW f, NEW S, IsFiniteSet(S), \A x \in S : f[x] \in Int,
         NEW g, NEW V, IsFiniteSet(V),
         NEW F, \A v \in V : F[v] = SumFunctionOnSet(f, Part(S, g, v))
  PROVE  SumFunctionOnSet(F, V) = SumFunctionOnSet(f, Parts(S, g, V))
<1> DEFINE Good == {W \in SUBSET V : SumFunctionOnSet(F, W) = SumFunctionOnSet(f, Parts(S, g, W))}
<1>0. /\ \A v : IsFiniteSet(Part(S, g, v)) /\ SumFunctionOnSet(f, Part(S, g, v)) \in Int
      /\ \A W : IsFiniteSet(Parts(S, g, W))
  <2>1. (\A v : IsFiniteSet(Part(S, g, v))) /\ (\A W : IsFiniteSet(Parts(S, g, W)))
    BY FS_Subset DEF Part, Parts
  <2>2. ASSUME NEW v PROVE SumFunctionOnSet(f, Part(S, g, v)) \in Int
    <3>1. IsFiniteSet(Part(S, g, v)) /\ \A x \in Part(S, g, v) : f[x] \in Int
      BY <2>1 DEF Part
    <3> QED BY <3>1, SumInt
  <2> QED BY <2>1, <2>2
<1>1. ASSUME NEW W \in SUBSET V, \A U \in SUBSET W : U # W => U \in Good
      PROVE  W \in Good
  <2>1. CASE W = {}
    <3>1. Parts(S, g, W) = {}
      BY <2>1 DEF Parts
    <3> QED BY <2>1, <3>1, SumEmpty
  <2>2. CASE W # {}
    <3>1. PICK v \in W : TRUE
      BY <2>2
    <3>2. IsFiniteSet(W) /\ (\A w \in W : F[w] \in Int)
      <4>1. IsFiniteSet(W)
        BY FS_Subset
      <4>2. \A w \in W : F[w] = SumFunctionOnSet(f, Part(S, g, w))
        OBVIOUS
      <4> QED BY <1>0, <4>1, <4>2
    <3>3. SumFunctionOnSet(F, W) = F[v] + SumFunctionOnSet(F, W \ {v})
      BY <3>2, SumSplit
    <3>4. SumFunctionOnSet(F, W \ {v}) = SumFunctionOnSet(f, Parts(S, g, W \ {v}))
      BY <1>1
    <3>5. Parts(S, g, W) = Part(S, g, v) \cup Parts(S, g, W \ {v}) /\ Part(S, g, v) \cap Parts(S, g, W \ {v}) = {}
      BY DEF Part, Parts
    <3>6. \A x \in Part(S, g, v) \cup Parts(S, g, W \ {v}) : f[x] \in Int
      BY DEF Part, Parts
    <3>7. F[v] = SumFunctionOnSet(f, Part(S, g, v))
      OBVIOUS
    <3>8. SumFunctionOnSet(f, Part(S, g, v) \cup Parts(S, g, W \ {v})) =
            SumFunctionOnSet(f, Part(S, g, v)) + SumFunctionOnSet(f, Parts(S, g, W \ {v}))
      BY <1>0, <3>5, <3>6, SumUnion
    <3> QED BY <3>3, <3>4, <3>5, <3>7, <3>8
  <2> QED BY <2>1, <2>2
<1>2. V \in Good
  <2> HIDE DEF Good
  <2> QED BY <1>1, SubsetInduction
<1> QED BY <1>2

(* Terms that are no less than m.                                          *)
LEMMA SumAtLeast ==
  ASSUME NEW f, NEW S, IsFiniteSet(S), NEW m \in Nat,
         \A x \in S : f[x] \in Int /\ m <= f[x]
  PROVE  Cardinality(S) * m <= SumFunctionOnSet(f, S)
<1> DEFINE Good == {s \in SUBSET S : Cardinality(s) * m <= SumFunctionOnSet(f, s)}
<1>1. ASSUME NEW s \in SUBSET S, \A r \in SUBSET s : r # s => r \in Good
      PROVE  s \in Good
  <2>1. CASE s = {}
    BY <2>1, SumEmpty, FS_EmptySet
  <2>2. CASE s # {}
    <3>1. PICK x \in s : TRUE
      BY <2>2
    <3>2. IsFiniteSet(s) /\ IsFiniteSet(s \ {x})
      BY FS_Subset
    <3>3. SumFunctionOnSet(f, s) = f[x] + SumFunctionOnSet(f, s \ {x})
      BY <3>2, SumSplit
    <3>4. Cardinality(s \ {x}) * m <= SumFunctionOnSet(f, s \ {x})
      BY <1>1
    <3>5. PICK n \in Nat : n = Cardinality(s \ {x}) /\ Cardinality(s) = n + 1
      <4>1. Cardinality(s) \in Nat /\ Cardinality(s \ {x}) \in Nat
        BY <3>2, FS_CardinalityType
      <4>2. Cardinality(s \ {x}) = Cardinality(s) - 1
        BY <3>2, FS_RemoveElement
      <4> QED BY <4>1, <4>2
    <3>6. PICK t \in Int : t = SumFunctionOnSet(f, s \ {x})
      BY <3>2, SumInt
    <3>7. n * m <= t
      BY <3>4, <3>5, <3>6
    <3>8. (n + 1) * m = n * m + m
      OBVIOUS
    <3>9. n * m \in Int /\ f[x] \in Int /\ m <= f[x]
      OBVIOUS
    <3>10. (n + 1) * m <= f[x] + t
      BY <3>7, <3>8, <3>9
    <3> QED BY <3>3, <3>5, <3>6, <3>10
  <2> QED BY <2>1, <2>2
<1> HIDE DEF Good
<1>2. S \in Good
  BY <1>1, SubsetInduction
<1> QED BY <1>2 DEF Good

(* Terms that are no more than m.                                          *)
LEMMA SumAtMost ==
  ASSUME NEW f, NEW S, IsFiniteSet(S), NEW m \in Nat,
         \A x \in S : f[x] \in Int /\ f[x] <= m
  PROVE  SumFunctionOnSet(f, S) <= Cardinality(S) * m
<1> DEFINE Good == {s \in SUBSET S : SumFunctionOnSet(f, s) <= Cardinality(s) * m}
<1>1. ASSUME NEW s \in SUBSET S, \A r \in SUBSET s : r # s => r \in Good
      PROVE  s \in Good
  <2>1. CASE s = {}
    BY <2>1, SumEmpty, FS_EmptySet
  <2>2. CASE s # {}
    <3>1. PICK x \in s : TRUE
      BY <2>2
    <3>2. IsFiniteSet(s) /\ IsFiniteSet(s \ {x})
      BY FS_Subset
    <3>3. SumFunctionOnSet(f, s) = f[x] + SumFunctionOnSet(f, s \ {x})
      BY <3>2, SumSplit
    <3>4. SumFunctionOnSet(f, s \ {x}) <= Cardinality(s \ {x}) * m
      BY <1>1
    <3>5. PICK n \in Nat : n = Cardinality(s \ {x}) /\ Cardinality(s) = n + 1
      <4>1. Cardinality(s) \in Nat /\ Cardinality(s \ {x}) \in Nat
        BY <3>2, FS_CardinalityType
      <4>2. Cardinality(s \ {x}) = Cardinality(s) - 1
        BY <3>2, FS_RemoveElement
      <4> QED BY <4>1, <4>2
    <3>6. PICK t \in Int : t = SumFunctionOnSet(f, s \ {x})
      BY <3>2, SumInt
    <3>7. t <= n * m
      BY <3>4, <3>5, <3>6
    <3>8. (n + 1) * m = n * m + m
      OBVIOUS
    <3>9. n * m \in Int /\ f[x] \in Int /\ f[x] <= m
      OBVIOUS
    <3>10. f[x] + t <= (n + 1) * m
      BY <3>7, <3>8, <3>9
    <3> QED BY <3>3, <3>5, <3>6, <3>10
  <2> QED BY <2>1, <2>2
<1> HIDE DEF Good
<1>2. S \in Good
  BY <1>1, SubsetInduction
<1> QED BY <1>2 DEF Good

(* Terms no further from 0 than others.                                    *)
LEMMA SumTriangle ==
  ASSUME NEW f, NEW g, NEW S, IsFiniteSet(S),
         \A x \in S : f[x] \in Int /\ g[x] \in Int /\ - f[x] <= g[x] /\ g[x] <= f[x]
  PROVE  /\ - SumFunctionOnSet(f, S) <= SumFunctionOnSet(g, S)
         /\ SumFunctionOnSet(g, S) <= SumFunctionOnSet(f, S)
<1> DEFINE Good == {s \in SUBSET S : /\ - SumFunctionOnSet(f, s) <= SumFunctionOnSet(g, s)
                                     /\ SumFunctionOnSet(g, s) <= SumFunctionOnSet(f, s)}
<1>1. ASSUME NEW s \in SUBSET S, \A r \in SUBSET s : r # s => r \in Good
      PROVE  s \in Good
  <2>1. CASE s = {}
    BY <2>1, SumEmpty
  <2>2. CASE s # {}
    <3>1. PICK x \in s : TRUE
      BY <2>2
    <3>2. IsFiniteSet(s) /\ IsFiniteSet(s \ {x})
      BY FS_Subset
    <3>3. /\ SumFunctionOnSet(f, s) = f[x] + SumFunctionOnSet(f, s \ {x})
          /\ SumFunctionOnSet(g, s) = g[x] + SumFunctionOnSet(g, s \ {x})
      BY <3>2, SumSplit
    <3>4. SumFunctionOnSet(f, s \ {x}) \in Int /\ SumFunctionOnSet(g, s \ {x}) \in Int
      BY <3>2, SumInt
    <3>5. s \ {x} \in Good
      BY <1>1
    <3> QED BY <3>3, <3>4, <3>5
  <2> QED BY <2>1, <2>2
<1> HIDE DEF Good
<1>2. S \in Good
  BY <1>1, SubsetInduction
<1> QED BY <1>2 DEF Good

(***************************************************************************)
(* The function that repeats steps, each a function from V to V.           *)
(***************************************************************************)
Repeats(N, V, a, F, g) ==
  g \in [0 .. N -> V] /\ g[0] = a /\ \A n \in 1 .. N : g[n] = F[n][g[n - 1]]

LEMMA IterationExists ==
  ASSUME NEW N \in Nat, NEW V, NEW a \in V, NEW F \in [1 .. N -> [V -> V]]
  PROVE  \E g : Repeats(N, V, a, F, g)
<1> DEFINE Good == {n \in Nat : n <= N => \E g : Repeats(n, V, a, F, g)}
<1>1. 0 \in Good
  <2>1. Repeats(0, V, a, F, [m \in 0 .. 0 |-> a])
    BY DEF Repeats
  <2> QED BY <2>1
<1>2. ASSUME NEW n \in Nat, n \in Good PROVE n + 1 \in Good
  <2>1. SUFFICES ASSUME n + 1 <= N PROVE \E g : Repeats(n + 1, V, a, F, g)
    OBVIOUS
  <2>2. PICK g : /\ g \in [0 .. n -> V] /\ g[0] = a
                 /\ \A m \in 1 .. n : g[m] = F[m][g[m - 1]]
    BY <1>2, <2>1 DEF Repeats
  <2> DEFINE h == [m \in 0 .. n + 1 |-> IF m = n + 1 THEN F[n + 1][g[n]] ELSE g[m]]
  <2>3. h \in [0 .. n + 1 -> V]
    <3>1. n + 1 \in 1 .. N /\ n \in 0 .. n
      BY <2>1
    <3>2. F[n + 1] \in [V -> V] /\ g[n] \in V
      BY <2>2, <3>1
    <3>3. F[n + 1][g[n]] \in V
      BY <3>2
    <3> QED BY <2>2, <3>3
  <2>4. h[0] = a
    BY <2>2
  <2>5. ASSUME NEW m \in 1 .. n + 1 PROVE h[m] = F[m][h[m - 1]]
    <3>1. CASE m = n + 1
      BY <3>1
    <3>2. CASE m # n + 1
      <4>1. m \in 1 .. n /\ m - 1 \in 0 .. n
        BY <3>2
      <4>2. h[m] = g[m] /\ h[m - 1] = g[m - 1]
        BY <3>2, <4>1
      <4> HIDE DEF h
      <4> QED BY <2>2, <4>1, <4>2
    <3> QED BY <3>1, <3>2
  <2> HIDE DEF h
  <2> QED BY <2>3, <2>4, <2>5 DEF Repeats
<1> HIDE DEF Good
<1>3. \A n \in Nat : n \in Good
  BY <1>1, <1>2, CountUp
<1>4. N \in Good
  BY <1>3
<1> QED BY <1>4 DEF Good

(***************************************************************************)
(* What a sort puts at a place of a vector, and the median.                *)
(***************************************************************************)
LEMMA IndicesCounted ==
  ASSUME NEW len \in Nat, NEW T \in SUBSET (1 .. len)
  PROVE  IsFiniteSet(T) /\ Cardinality(T) \in Nat /\ Cardinality(T) <= len
<1>1. IsFiniteSet(1 .. len) /\ Cardinality(1 .. len) = len
  BY FS_Interval
<1> QED BY <1>1, FS_Subset, FS_CardinalityType

RanksAt(v, len, i, x) ==
  /\ Cardinality({j \in 1 .. len : v[j] < x}) < i
  /\ i <= Cardinality({j \in 1 .. len : v[j] <= x})

LEMMA RankExists ==
  ASSUME NEW len \in Nat, NEW v \in [1 .. len -> Nat], NEW i \in 1 .. len
  PROVE  \E j \in 1 .. len : RanksAt(v, len, i, v[j])
<1> DEFINE Below(x)   == {j \in 1 .. len : v[j] < x}
           UpTo(x)    == {j \in 1 .. len : v[j] <= x}
           Reaching   == {x \in Nat : i <= Cardinality(UpTo(x))}
<1>1. \A x : /\ IsFiniteSet(Below(x)) /\ IsFiniteSet(UpTo(x))
             /\ Cardinality(Below(x)) \in Nat /\ Cardinality(UpTo(x)) \in Nat
  <2>1. \A x : Below(x) \in SUBSET (1 .. len) /\ UpTo(x) \in SUBSET (1 .. len)
    OBVIOUS
  <2> HIDE DEF Below, UpTo
  <2> QED BY <2>1, IndicesCounted
<1>2. Reaching # {}
  <2> DEFINE top == SumFunctionOnSet(v, 1 .. len)
  <2>1. IsFiniteSet(1 .. len) /\ Cardinality(1 .. len) = len
    BY FS_Interval
  <2>2. top \in Nat /\ \A j \in 1 .. len : v[j] <= top
    BY <2>1, SumNat, SumCovers
  <2> HIDE DEF top
  <2>3. UpTo(top) = 1 .. len
    BY <2>2
  <2> HIDE DEF UpTo
  <2>4. i <= Cardinality(UpTo(top))
    BY <2>1, <2>3
  <2> QED BY <2>2, <2>4
<1>3. PICK m \in Reaching : \A x \in Reaching : m <= x
  <2> HIDE DEF Reaching
  <2>1. Reaching \in SUBSET Nat
    BY DEF Reaching
  <2> QED BY <1>2, <2>1, LeastNat
<1>4. Cardinality(Below(m)) < i
  <2>1. CASE m = 0
    <3>1. Below(m) = {}
      BY <2>1
    <3> HIDE DEF Below
    <3> QED BY <3>1, FS_EmptySet
  <2>2. CASE m # 0
    <3>1. m - 1 \in Nat /\ m - 1 \notin Reaching
      BY <1>3, <2>2
    <3>2. Below(m) = UpTo(m - 1)
      BY <1>3
    <3> HIDE DEF UpTo, Below
    <3>3. ~ (i <= Cardinality(UpTo(m - 1)))
      BY <3>1
    <3> QED BY <1>1, <3>2, <3>3
  <2> QED BY <2>1, <2>2
<1>5. PICK j \in 1 .. len : v[j] = m
  <2>1. i <= Cardinality(UpTo(m))
    BY <1>3
  <2>2. Below(m) # UpTo(m)
    <3> HIDE DEF Below, UpTo
    <3> QED BY <1>1, <1>4, <2>1
  <2> QED BY <1>3, <2>2
<1> QED BY <1>3, <1>4, <1>5 DEF RanksAt

LEMMA RankedIs ==
  ASSUME NEW len \in Nat, NEW v \in [1 .. len -> Int], NEW i \in 1 .. len
  PROVE  /\ \E j \in 1 .. len : Ranked(v, i) = v[j]
         /\ RanksAt(v, len, i, Ranked(v, i))
<1> DEFINE size == [j \in 1 .. len |-> IF v[j] < 0 THEN - v[j] ELSE v[j]]
           b == SumFunctionOnSet(size, 1 .. len)
           w == [j \in 1 .. len |-> v[j] + b]
<1>1. b \in Nat /\ \A j \in 1 .. len : size[j] <= b
  <2>1. IsFiniteSet(1 .. len)
    BY FS_Interval
  <2>2. \A j \in 1 .. len : size[j] \in Nat
    OBVIOUS
  <2> HIDE DEF size
  <2> QED BY <2>1, <2>2, SumNat, SumCovers
<1> HIDE DEF b
<1>2. w \in [1 .. len -> Nat] /\ \A j \in 1 .. len : w[j] = v[j] + b
  <2>1. ASSUME NEW j \in 1 .. len PROVE v[j] + b \in Nat
    BY <1>1
  <2> QED BY <2>1
<1> HIDE DEF w
<1>3. PICK j \in 1 .. len : RanksAt(w, len, i, w[j])
  BY <1>2, RankExists
<1>4. /\ {k \in 1 .. len : v[k] < v[j]} = {k \in 1 .. len : w[k] < w[j]}
      /\ {k \in 1 .. len : v[k] <= v[j]} = {k \in 1 .. len : w[k] <= w[j]}
  BY <1>1, <1>2
<1>5. RanksAt(v, len, i, v[j])
  BY <1>3, <1>4 DEF RanksAt
<1>6. /\ DOMAIN v = 1 .. len
      /\ v[j] \in Range(v)
      /\ Cardinality({k \in DOMAIN v : v[k] < v[j]}) < i
      /\ i <= Cardinality({k \in DOMAIN v : v[k] <= v[j]})
  BY <1>5 DEF Range, RanksAt
<1>7. /\ Ranked(v, i) \in Range(v)
      /\ Cardinality({k \in DOMAIN v : v[k] < Ranked(v, i)}) < i
      /\ i <= Cardinality({k \in DOMAIN v : v[k] <= Ranked(v, i)})
  BY <1>6 DEF Ranked
<1> QED BY <1>6, <1>7 DEF Range, RanksAt

(* Of an odd number of values, the median has more than half up to it and  *)
(* more than half from it on.                                              *)
Middle(v, len, x) ==
  /\ \E j \in 1 .. len : x = v[j]
  /\ len < 2 * Cardinality({j \in 1 .. len : v[j] <= x})
  /\ 2 * Cardinality({j \in 1 .. len : v[j] < x}) < len

LEMMA MedianInMiddle ==
  ASSUME NEW len \in Nat, len % 2 = 1, NEW v \in [1 .. len -> Int]
  PROVE  Median(v) \in Int /\ Middle(v, len, Median(v))
<1> DEFINE m == len \div 2
<1>1. m \in Nat /\ len = 2 * m + 1
  OBVIOUS
<1>2. v \in Seq(Int) /\ Len(v) = len
  OBVIOUS
<1>3. Median(v) = Ranked(v, m + 1)
  BY <1>2 DEF Median
<1> HIDE DEF m
<1>4. (\E j \in 1 .. len : Ranked(v, m + 1) = v[j]) /\ RanksAt(v, len, m + 1, Ranked(v, m + 1))
  <2>1. m + 1 \in 1 .. len
    BY <1>1
  <2> QED BY <2>1, RankedIs
<1>5. \A T \in SUBSET (1 .. len) : Cardinality(T) \in Nat
  BY IndicesCounted
<1>6. /\ {j \in 1 .. len : v[j] <= Median(v)} \in SUBSET (1 .. len)
      /\ {j \in 1 .. len : v[j] < Median(v)} \in SUBSET (1 .. len)
  OBVIOUS
<1>7. /\ Cardinality({j \in 1 .. len : v[j] < Median(v)}) < m + 1
      /\ m + 1 <= Cardinality({j \in 1 .. len : v[j] <= Median(v)})
  BY <1>3, <1>4 DEF RanksAt
<1>8. len < 2 * Cardinality({j \in 1 .. len : v[j] <= Median(v)})
  BY <1>1, <1>5, <1>6, <1>7
<1>9. 2 * Cardinality({j \in 1 .. len : v[j] < Median(v)}) < len
  BY <1>1, <1>5, <1>6, <1>7
<1> QED BY <1>3, <1>4, <1>8, <1>9 DEF Middle

(* Values that are no further from f than others from 0.                   *)
LEMMA MiddleNear ==
  ASSUME NEW len \in Nat, NEW v \in [1 .. len -> Int], NEW w \in [1 .. len -> Int],
         NEW f \in Int, \A i \in 1 .. len : f - w[i] <= v[i] /\ v[i] <= f + w[i],
         NEW x \in Int, Middle(v, len, x), NEW y \in Int, Middle(w, len, y)
  PROVE  f - y <= x /\ x <= f + y
<1> DEFINE Small == {j \in 1 .. len : w[j] <= y}
           UpTo == {j \in 1 .. len : v[j] <= x}
           Below == {j \in 1 .. len : v[j] < x}
<1>1. \A T \in SUBSET (1 .. len) : IsFiniteSet(T) /\ Cardinality(T) \in Nat /\ Cardinality(T) <= len
  BY IndicesCounted
<1>2. Small \in SUBSET (1 .. len) /\ UpTo \in SUBSET (1 .. len) /\ Below \in SUBSET (1 .. len)
  OBVIOUS
<1>3. len < 2 * Cardinality(Small) /\ len < 2 * Cardinality(UpTo) /\ 2 * Cardinality(Below) < len
  BY DEF Middle
<1>4. \A j \in 1 .. len : v[j] \in Int /\ w[j] \in Int
  OBVIOUS
<1>5. f + y < x => Small \subseteq Below
  BY <1>4
<1>6. x < f - y => Small \cap UpTo = {}
  BY <1>4
<1> HIDE DEF Small, Below, UpTo
<1>7. PICK s \in Nat, u \in Nat, b \in Nat :
        s = Cardinality(Small) /\ u = Cardinality(UpTo) /\ b = Cardinality(Below)
  BY <1>1, <1>2
<1>8. ASSUME Small \subseteq Below PROVE FALSE
  <2>1. Cardinality(Small) <= Cardinality(Below)
    BY <1>1, <1>2, <1>8, FS_Subset
  <2> QED BY <1>3, <1>7, <2>1
<1>9. ASSUME Small \cap UpTo = {} PROVE FALSE
  <2>1. Cardinality(Small \cup UpTo)
          = Cardinality(Small) + Cardinality(UpTo) - Cardinality(Small \cap UpTo)
    BY <1>1, <1>2, FS_Union
  <2>2. Cardinality(Small \cap UpTo) = 0
    BY <1>9, FS_EmptySet
  <2>3. Small \cup UpTo \in SUBSET (1 .. len)
    BY <1>2
  <2>4. Cardinality(Small \cup UpTo) <= len
    BY <1>1, <2>3
  <2> QED BY <1>3, <1>7, <2>1, <2>2, <2>4
<1> QED BY <1>5, <1>6, <1>8, <1>9

LEMMA MedianNear ==
  ASSUME NEW len \in Nat, len % 2 = 1, NEW v \in [1 .. len -> Int], NEW w \in [1 .. len -> Int],
         NEW f \in Int, \A i \in 1 .. len : f - w[i] <= v[i] /\ v[i] <= f + w[i]
  PROVE  f - Median(w) <= Median(v) /\ Median(v) <= f + Median(w)
BY MedianInMiddle, MiddleNear

LEMMA MiddleMonotone ==
  ASSUME NEW len \in Nat, NEW v \in [1 .. len -> Int], NEW w \in [1 .. len -> Int],
         \A i \in 1 .. len : v[i] <= w[i],
         NEW x \in Int, Middle(v, len, x), NEW y \in Int, Middle(w, len, y)
  PROVE  x <= y
<1> DEFINE Small == {j \in 1 .. len : w[j] <= y}
           Below == {j \in 1 .. len : v[j] < x}
<1>1. \A T \in SUBSET (1 .. len) : IsFiniteSet(T) /\ Cardinality(T) \in Nat
  BY IndicesCounted
<1>2. Small \in SUBSET (1 .. len) /\ Below \in SUBSET (1 .. len)
  OBVIOUS
<1>3. len < 2 * Cardinality(Small) /\ 2 * Cardinality(Below) < len
  BY DEF Middle
<1>4. \A j \in 1 .. len : v[j] \in Int /\ w[j] \in Int
  OBVIOUS
<1>5. y < x => Small \subseteq Below
  BY <1>4
<1> HIDE DEF Small, Below
<1>6. PICK s \in Nat, b \in Nat : s = Cardinality(Small) /\ b = Cardinality(Below)
  BY <1>1, <1>2
<1>7. ASSUME Small \subseteq Below PROVE FALSE
  <2>1. Cardinality(Small) <= Cardinality(Below)
    BY <1>1, <1>2, <1>7, FS_Subset
  <2> QED BY <1>3, <1>6, <2>1
<1> QED BY <1>5, <1>7

LEMMA MedianMonotone ==
  ASSUME NEW len \in Nat, len % 2 = 1, NEW v \in [1 .. len -> Int], NEW w \in [1 .. len -> Int],
         \A i \in 1 .. len : v[i] <= w[i]
  PROVE  Median(v) <= Median(w)
BY MedianInMiddle, MiddleMonotone
=============================================================================
