--------------------------- MODULE SummaryProofs ---------------------------
(***************************************************************************)
(* Proofs about the stream summary and the two sketches built on it, for   *)
(* every finite set of keys, every size and every range of draws.          *)
(*                                                                         *)
(* The properties follow the pointers, the proof needs an order: a count   *)
(* list is sound when its links are, its counts increase along next and    *)
(* only the sentinel has none before it (CountsSound), so a walk from the  *)
(* sentinel cannot end before the highest count nor run in a circle.  Data *)
(* nodes are not in any order of their own; that a walk meets them all     *)
(* needs one, which some function gives (Numbered) and every relinking       *)
(* changes.  An operation on nodes then has one lemma that it keeps the    *)
(* lists sound and one that says what it does to the answers.              *)
(***************************************************************************)
EXTENDS SummarySketch, SketchTheorems, TLAPS

(***************************************************************************)
(* Walks along next.                                                       *)
(***************************************************************************)
Steps(f, x, N, g) == g = [n \in 0 .. N |-> IF n = 0 THEN x ELSE After(f, g[n - 1])]

LEMMA StepsExist ==
  ASSUME NEW f, NEW x, NEW N \in Nat
  PROVE  \E g : Steps(f, x, N, g)
<1> DEFINE Good == {n \in Nat : \E g : Steps(f, x, n, g)}
<1>1. 0 \in Good
  <2> DEFINE g == [n \in 0 .. 0 |-> x]
             h == [n \in 0 .. 0 |-> IF n = 0 THEN x ELSE After(f, g[n - 1])]
  <2>1. g = h
    OBVIOUS
  <2> QED BY <2>1 DEF Steps
<1>2. ASSUME NEW n \in Nat, n \in Good PROVE n + 1 \in Good
  <2>1. PICK g : Steps(f, x, n, g)
    BY <1>2
  <2> DEFINE h == [m \in 0 .. n + 1 |-> IF m = n + 1 THEN After(f, g[n]) ELSE g[m]]
             e == [m \in 0 .. n + 1 |-> IF m = 0 THEN x ELSE After(f, h[m - 1])]
  <2>2. \A m \in 0 .. n : g[m] = IF m = 0 THEN x ELSE After(f, g[m - 1])
    BY <2>1 DEF Steps
  <2>3. ASSUME NEW m \in 0 .. n + 1 PROVE h[m] = e[m]
    <3>1. CASE m = n + 1
      BY <3>1
    <3>2. CASE m # n + 1 /\ m # 0
      <4>1. m \in 0 .. n /\ m - 1 \in 0 .. n
        BY <3>2
      <4>2. h[m] = g[m] /\ h[m - 1] = g[m - 1] /\ e[m] = After(f, h[m - 1])
        BY <3>2, <4>1
      <4> HIDE DEF h, e
      <4> QED BY <2>2, <3>2, <4>1, <4>2
    <3>3. CASE m = 0
      <4>1. h[0] = g[0] /\ e[0] = x /\ g[0] = x
        BY <2>2
      <4> QED BY <3>3, <4>1
    <3> QED BY <3>1, <3>2, <3>3
  <2>4. h = e
    BY <2>3
  <2>5. Steps(f, x, n + 1, h)
    BY <2>4 DEF Steps
  <2> QED BY <2>5
<1> HIDE DEF Good
<1>3. \A n \in Nat : n \in Good
  BY <1>1, <1>2, CountUp
<1> QED BY <1>3 DEF Good

LEMMA WalkBySteps ==
  ASSUME NEW f, NEW x, IsFiniteSet(DOMAIN f)
  PROVE  \E g : /\ Steps(f, x, Cardinality(DOMAIN f), g)
                /\ Walk(f, x) = {g[n] : n \in 0 .. Cardinality(DOMAIN f)} \ {NULL}
<1> DEFINE N == Cardinality(DOMAIN f)
           g == CHOOSE h : Steps(f, x, N, h)
<1>1. N \in Nat
  BY FS_CardinalityType
<1>2. Steps(f, x, N, g)
  BY <1>1, StepsExist
<1>3. DOMAIN g = 0 .. N
  <2> HIDE DEF g, N
  <2> QED BY <1>2 DEF Steps
<1>4. Walk(f, x) = {g[n] : n \in DOMAIN g} \ {NULL}
  BY DEF Walk, Steps
<1> HIDE DEF g
<1> QED BY <1>2, <1>3, <1>4

LEMMA WalkNull == ASSUME NEW f, IsFiniteSet(DOMAIN f) PROVE Walk(f, NULL) = {}
<1> DEFINE N == Cardinality(DOMAIN f)
<1>0. N \in Nat
  BY FS_CardinalityType
<1>1. PICK g : Steps(f, NULL, N, g) /\ Walk(f, NULL) = {g[n] : n \in 0 .. N} \ {NULL}
  BY WalkBySteps
<1> HIDE DEF N
<1> DEFINE Good == {n \in Nat : n \in 0 .. N => g[n] = NULL}
<1>2. \A n \in 0 .. N : g[n] = IF n = 0 THEN NULL ELSE After(f, g[n - 1])
  BY <1>1 DEF Steps
<1>3. 0 \in Good
  BY <1>0, <1>2
<1>4. ASSUME NEW n \in Nat, n \in Good PROVE n + 1 \in Good
  <2> SUFFICES ASSUME n + 1 \in 0 .. N PROVE g[n + 1] = NULL
    OBVIOUS
  <2>1. n \in 0 .. N /\ n + 1 # 0 /\ n + 1 - 1 = n
    BY <1>0
  <2>2. g[n + 1] = After(f, g[n])
    BY <1>2, <2>1
  <2> QED BY <1>4, <2>1, <2>2 DEF After
<1>5. \A n \in Nat : n \in Good
  <2> HIDE DEF Good
  <2> QED BY <1>3, <1>4, CountUp
<1> QED BY <1>0, <1>1, <1>5

(* A list of the nodes S from h on, along which r rises.                   *)
Chain(f, S, h, r) ==
  /\ h \in S /\ r \in [S -> Nat]
  /\ \A x \in S : f[x].next \in S \cup {NULL}
  /\ \A x \in S \ {h} : /\ f[x].prev \in S /\ f[f[x].prev].next = x
                        /\ r[f[x].prev] < r[x]

Below(S, r, x) == {y \in S : r[y] < r[x]}

LEMMA BelowNext ==
  ASSUME NEW S, IsFiniteSet(S), NEW r \in [S -> Nat], NEW p \in S, NEW x \in S, r[p] < r[x]
  PROVE  /\ Cardinality(Below(S, r, p)) \in Nat /\ Cardinality(Below(S, r, x)) \in Nat
         /\ Cardinality(Below(S, r, p)) + 1 <= Cardinality(Below(S, r, x))
         /\ Cardinality(Below(S, r, x)) <= Cardinality(S)
<1>1. /\ Below(S, r, p) \subseteq S /\ Below(S, r, x) \subseteq S
      /\ p \notin Below(S, r, p)
      /\ Below(S, r, p) \cup {p} \subseteq Below(S, r, x)
  BY DEF Below
<1>2. /\ IsFiniteSet(Below(S, r, p)) /\ IsFiniteSet(Below(S, r, x))
      /\ Cardinality(Below(S, r, x)) <= Cardinality(S)
  BY <1>1, FS_Subset
<1>3. /\ IsFiniteSet(Below(S, r, p) \cup {p})
      /\ Cardinality(Below(S, r, p) \cup {p}) = Cardinality(Below(S, r, p)) + 1
  BY <1>1, <1>2, FS_AddElement
<1>4. Cardinality(Below(S, r, p) \cup {p}) <= Cardinality(Below(S, r, x))
  BY <1>1, <1>2, FS_Subset
<1> QED BY <1>2, <1>3, <1>4, FS_CardinalityType

LEMMA WalkChain ==
  ASSUME NEW f, IsFiniteSet(DOMAIN f), NEW S \in SUBSET DOMAIN f, NULL \notin S,
         NEW h, NEW r, Chain(f, S, h, r)
  PROVE  Walk(f, h) = S
<1> DEFINE N == Cardinality(DOMAIN f)
<1>0. N \in Nat /\ IsFiniteSet(S) /\ Cardinality(S) <= N /\ Cardinality(S) \in Nat
  BY FS_CardinalityType, FS_Subset
<1>1. PICK g : Steps(f, h, N, g) /\ Walk(f, h) = {g[n] : n \in 0 .. N} \ {NULL}
  BY WalkBySteps
<1> HIDE DEF N
<1>2. \A n \in 0 .. N : g[n] = IF n = 0 THEN h ELSE After(f, g[n - 1])
  BY <1>1 DEF Steps
<1>3. \A n \in 0 .. N : g[n] \in S \cup {NULL}
  <2> DEFINE Good == {n \in Nat : n \in 0 .. N => g[n] \in S \cup {NULL}}
  <2>1. 0 \in Good
    BY <1>0, <1>2 DEF Chain
  <2>2. ASSUME NEW n \in Nat, n \in Good PROVE n + 1 \in Good
    <3> SUFFICES ASSUME n + 1 \in 0 .. N PROVE g[n + 1] \in S \cup {NULL}
      OBVIOUS
    <3>1. n \in 0 .. N /\ n + 1 # 0 /\ n + 1 - 1 = n
      BY <1>0
    <3>2. g[n + 1] = After(f, g[n])
      BY <1>2, <3>1
    <3> QED BY <2>2, <3>1, <3>2 DEF After, Chain
  <2>3. \A n \in Nat : n \in Good
    <3> HIDE DEF Good
    <3> QED BY <2>1, <2>2, CountUp
  <2> QED BY <1>0, <2>3
<1> DEFINE At(x) == \E n \in 0 .. Cardinality(Below(S, r, x)) : n \in 0 .. N /\ g[n] = x
           Bad == {x \in S : ~ At(x)}
<1>4. SUFFICES Bad = {}
  <2>1. \A x \in S : \E n \in 0 .. N : g[n] = x
    BY <1>4
  <2> QED BY <1>1, <1>3, <2>1
<1>5. SUFFICES ASSUME Bad # {} PROVE FALSE
  OBVIOUS
<1>6. PICK x \in Bad : \A y \in Bad : r[x] <= r[y]
  <2> DEFINE R == {r[y] : y \in Bad}
  <2>1. R \in SUBSET Nat /\ R # {}
    BY <1>5 DEF Chain
  <2>2. PICK m \in R : \A k \in R : m <= k
    <3> HIDE DEF R
    <3> QED BY <2>1, LeastNat
  <2> QED BY <2>2
<1>7. x \in S /\ ~ At(x) /\ (\A y \in S : r[y] < r[x] => At(y))
  <2>1. \A y \in S : r[y] \in Nat
    BY DEF Chain
  <2> HIDE DEF At
  <2> QED BY <1>6, <2>1
<1>8. x # h
  <2>1. Cardinality(Below(S, r, h)) \in Nat
    <3>1. Below(S, r, h) \subseteq S
      BY DEF Below
    <3> QED BY <1>0, <3>1, FS_Subset, FS_CardinalityType
  <2>2. g[0] = h /\ 0 \in 0 .. N /\ 0 \in 0 .. Cardinality(Below(S, r, h))
    BY <1>0, <1>2, <2>1
  <2> QED BY <1>7, <2>2
<1>9. PICK p \in S : p = f[x].prev /\ f[p].next = x /\ r[p] < r[x]
  BY <1>7, <1>8 DEF Chain
<1>10. PICK n \in 0 .. Cardinality(Below(S, r, p)) : n \in 0 .. N /\ g[n] = p
  BY <1>7, <1>9
<1>11. n + 1 \in 0 .. Cardinality(Below(S, r, x)) /\ n + 1 \in 0 .. N
  <2>1. r \in [S -> Nat]
    BY DEF Chain
  <2>2. PICK a, b \in Nat : /\ a = Cardinality(Below(S, r, p)) /\ b = Cardinality(Below(S, r, x))
                            /\ a + 1 <= b /\ b <= Cardinality(S)
    BY <1>0, <1>7, <1>9, <2>1, BelowNext
  <2> QED BY <1>0, <1>10, <2>2
<1>12. g[n + 1] = x
  <2>1. n + 1 # 0 /\ n + 1 - 1 = n
    BY <1>10
  <2>2. g[n + 1] = After(f, g[n])
    BY <1>2, <1>11, <2>1
  <2> QED BY <1>9, <1>10, <2>2 DEF After
<1> QED BY <1>7, <1>11, <1>12

(***************************************************************************)
(* Sound lists.  S are the nodes in lists: a node that is being moved or   *)
(* deleted is not.                                                         *)
(***************************************************************************)
Ptr   == Nat \cup {NULL}
CNode == [ID : Nat, prev : Ptr, next : Ptr, pData : Ptr]
DNode == [ID : Keys, prev : Ptr, next : Ptr, pCount : Ptr]

LinkedIn(f, S) ==
  \A x \in S :
    /\ f[x].next # NULL => f[x].next \in S /\ f[f[x].next].prev = x
    /\ f[x].prev # NULL => f[x].prev \in S /\ f[f[x].prev].next = x

(* The list of the counts, in increasing order.                            *)
CountsSound(cn) ==
  /\ cn \in [DOMAIN cn -> CNode]
  /\ DOMAIN cn \subseteq 0 .. SIZE + 2 /\ min \in DOMAIN cn
  /\ LinkedIn(cn, DOMAIN cn)
  /\ cn[min].ID = 0 /\ cn[min].prev = NULL
  /\ \A c \in DOMAIN cn :
       /\ c # min => cn[c].prev # NULL
       /\ cn[c].next # NULL => cn[c].ID < cn[cn[c].next].ID

(* The lists of the data.  Nothing orders them but how long a node has     *)
(* been in its list: r is any numbering that rises along each of them.     *)
Numbered(dn, S) ==
  \E r \in [DOMAIN dn -> Nat] : \A d \in S : dn[d].next # NULL => r[d] < r[dn[d].next]

DataSound(dn, cn, S) ==
  /\ dn \in [DOMAIN dn -> DNode]
  /\ DOMAIN dn \subseteq 1 .. SIZE + 2 /\ S \subseteq DOMAIN dn
  /\ LinkedIn(dn, S)
  /\ Numbered(dn, S)
  /\ \A d \in S : /\ dn[d].pCount \in DOMAIN cn \ {min}
                  /\ dn[d].next # NULL => dn[dn[d].next].pCount = dn[d].pCount
                  /\ dn[d].prev = NULL => cn[dn[d].pCount].pData = d
  /\ \A c \in DOMAIN cn : cn[c].pData # NULL =>
       /\ cn[c].pData \in S
       /\ dn[cn[c].pData].pCount = c /\ dn[cn[c].pData].prev = NULL

(* The counts without data, of which only the sentinel stays.              *)
Bare(cn) == {c \in DOMAIN cn : cn[c].pData = NULL}

LEMMA NullApart == NULL \notin Nat
BY SummaryAssumption

LEMMA ConnectCounts ==
  ASSUME NEW f, f \in [DOMAIN f -> CNode], NEW p \in Ptr, NEW n \in Ptr
  PROVE  /\ Connect(f, p, n) \in [DOMAIN f -> CNode]
         /\ DOMAIN Connect(f, p, n) = DOMAIN f
         /\ \A x \in DOMAIN f :
              /\ Connect(f, p, n)[x].next = IF x = p THEN n ELSE f[x].next
              /\ Connect(f, p, n)[x].prev = IF x = n THEN p ELSE f[x].prev
              /\ Connect(f, p, n)[x].ID = f[x].ID
              /\ Connect(f, p, n)[x].pData = f[x].pData
<1>2. ASSUME NEW x \in DOMAIN f
      PROVE  /\ Connect(f, p, n)[x] \in CNode
             /\ Connect(f, p, n)[x].next = IF x = p THEN n ELSE f[x].next
             /\ Connect(f, p, n)[x].prev = IF x = n THEN p ELSE f[x].prev
             /\ Connect(f, p, n)[x].ID = f[x].ID
             /\ Connect(f, p, n)[x].pData = f[x].pData
  <2> DEFINE a == f[x]
             b == IF x = p THEN n ELSE f[x].next
             c == IF x = n THEN p ELSE f[x].prev
  <2>1. Connect(f, p, n)[x] = [a EXCEPT !.next = b, !.prev = c]
    BY DEF Connect
  <2>2. a \in CNode /\ b \in Ptr /\ c \in Ptr
    BY DEF CNode
  <2>3. a.ID = f[x].ID /\ a.pData = f[x].pData
    OBVIOUS
  <2>4. /\ b = IF x = p THEN n ELSE f[x].next
        /\ c = IF x = n THEN p ELSE f[x].prev
    OBVIOUS
  <2> HIDE DEF a, b, c
  <2>5. /\ [a EXCEPT !.next = b, !.prev = c] \in CNode
        /\ [a EXCEPT !.next = b, !.prev = c].next = b
        /\ [a EXCEPT !.next = b, !.prev = c].prev = c
        /\ [a EXCEPT !.next = b, !.prev = c].ID = a.ID
        /\ [a EXCEPT !.next = b, !.prev = c].pData = a.pData
    BY <2>2 DEF CNode
  <2> QED BY <2>1, <2>3, <2>4, <2>5
<1>3. DOMAIN Connect(f, p, n) = DOMAIN f
  BY DEF Connect
<1>4. Connect(f, p, n) = [x \in DOMAIN f |-> Connect(f, p, n)[x]]
  BY DEF Connect
<1> QED BY <1>2, <1>3, <1>4

LEMMA ConnectData ==
  ASSUME NEW f, f \in [DOMAIN f -> DNode], NEW p \in Ptr, NEW n \in Ptr
  PROVE  /\ Connect(f, p, n) \in [DOMAIN f -> DNode]
         /\ DOMAIN Connect(f, p, n) = DOMAIN f
         /\ \A x \in DOMAIN f :
              /\ Connect(f, p, n)[x].next = IF x = p THEN n ELSE f[x].next
              /\ Connect(f, p, n)[x].prev = IF x = n THEN p ELSE f[x].prev
              /\ Connect(f, p, n)[x].ID = f[x].ID
              /\ Connect(f, p, n)[x].pCount = f[x].pCount
<1>2. ASSUME NEW x \in DOMAIN f
      PROVE  /\ Connect(f, p, n)[x] \in DNode
             /\ Connect(f, p, n)[x].next = IF x = p THEN n ELSE f[x].next
             /\ Connect(f, p, n)[x].prev = IF x = n THEN p ELSE f[x].prev
             /\ Connect(f, p, n)[x].ID = f[x].ID
             /\ Connect(f, p, n)[x].pCount = f[x].pCount
  <2> DEFINE a == f[x]
             b == IF x = p THEN n ELSE f[x].next
             c == IF x = n THEN p ELSE f[x].prev
  <2>1. Connect(f, p, n)[x] = [a EXCEPT !.next = b, !.prev = c]
    BY DEF Connect
  <2>2. a \in DNode /\ b \in Ptr /\ c \in Ptr
    BY DEF DNode
  <2>3. a.ID = f[x].ID /\ a.pCount = f[x].pCount
    OBVIOUS
  <2>4. /\ b = IF x = p THEN n ELSE f[x].next
        /\ c = IF x = n THEN p ELSE f[x].prev
    OBVIOUS
  <2> HIDE DEF a, b, c
  <2>5. /\ [a EXCEPT !.next = b, !.prev = c] \in DNode
        /\ [a EXCEPT !.next = b, !.prev = c].next = b
        /\ [a EXCEPT !.next = b, !.prev = c].prev = c
        /\ [a EXCEPT !.next = b, !.prev = c].ID = a.ID
        /\ [a EXCEPT !.next = b, !.prev = c].pCount = a.pCount
    BY <2>2 DEF DNode
  <2> QED BY <2>1, <2>3, <2>4, <2>5
<1>3. DOMAIN Connect(f, p, n) = DOMAIN f
  BY DEF Connect
<1>4. Connect(f, p, n) = [x \in DOMAIN f |-> Connect(f, p, n)[x]]
  BY DEF Connect
<1> QED BY <1>2, <1>3, <1>4

(* A node that is joined to the start of a list, or put between two.       *)
LEMMA WithoutAt ==
  ASSUME NEW f, NEW x
  PROVE  /\ DOMAIN Without(f, x) = DOMAIN f \ {x}
         /\ \A y \in DOMAIN f \ {x} : Without(f, x)[y] = f[y]
         /\ \A R : f \in [DOMAIN f -> R] => Without(f, x) \in [DOMAIN f \ {x} -> R]
BY DEF Without, Restrict

LEMMA AddedAt ==
  ASSUME NEW f, NEW x, x \notin DOMAIN f, NEW e
  PROVE  /\ DOMAIN With(f, x, e) = DOMAIN f \cup {x}
         /\ \A y \in DOMAIN f : With(f, x, e)[y] = f[y]
         /\ With(f, x, e)[x] = e
         /\ \A R : f \in [DOMAIN f -> R] /\ e \in R => With(f, x, e) \in [DOMAIN f \cup {x} -> R]
BY DEF With

(***************************************************************************)
(* What the lists imply.                                                   *)
(***************************************************************************)
(* Every count a data node points back to has a first data node.           *)
LEMMA HasFirst ==
  ASSUME NEW cn, NEW dn, NEW S, DataSound(dn, cn, S), NEW d \in S
  PROVE  cn[dn[d].pCount].pData # NULL
<1> DEFINE c == dn[d].pCount
           Mine == {x \in S : dn[x].pCount = c}
<1>1. PICK r \in [DOMAIN dn -> Nat] : \A x \in S : dn[x].next # NULL => r[x] < r[dn[x].next]
  BY DEF DataSound, Numbered
<1>2. PICK x \in Mine : \A y \in Mine : r[x] <= r[y]
  <2> DEFINE R == {r[y] : y \in Mine}
  <2>1. Mine \subseteq DOMAIN dn
    BY DEF DataSound
  <2>2. R \in SUBSET Nat /\ R # {}
    BY <2>1
  <2>3. PICK m \in R : \A k \in R : m <= k
    <3> HIDE DEF R
    <3> QED BY <2>2, LeastNat
  <2> QED BY <2>3
<1>3. x \in S /\ dn[x].pCount = c /\ x # NULL
  BY <1>2, NullApart DEF DataSound
<1>4. dn[x].prev = NULL
  <2> SUFFICES ASSUME dn[x].prev # NULL PROVE FALSE
    OBVIOUS
  <2>1. PICK p \in S : p = dn[x].prev /\ dn[p].next = x
    BY <1>3 DEF DataSound, LinkedIn
  <2>2. dn[p].pCount = c /\ r[p] < r[x]
    BY <1>1, <1>3, <2>1 DEF DataSound
  <2>3. r[p] \in Nat /\ r[x] \in Nat
    BY <1>3, <2>1 DEF DataSound
  <2> QED BY <1>2, <2>2, <2>3
<1>5. cn[c].pData = x
  BY <1>3, <1>4 DEF DataSound
<1> QED BY <1>3, <1>5

(* The count that follows the sentinel is the lowest.                      *)
LEMMA LowestNext ==
  ASSUME NEW cn, CountsSound(cn), NEW c \in DOMAIN cn \ {min}
  PROVE  /\ cn[min].next \in DOMAIN cn \ {min}
         /\ cn[cn[min].next].ID <= cn[c].ID
<1> DEFINE Ok(x) == cn[min].next \in DOMAIN cn \ {min} /\ cn[cn[min].next].ID <= cn[x].ID
           Bad == {x \in DOMAIN cn \ {min} : ~ Ok(x)}
<1>1. \A x \in DOMAIN cn : cn[x].ID \in Nat /\ x # NULL
  BY NullApart DEF CountsSound, CNode
<1>2. SUFFICES ASSUME Bad # {} PROVE FALSE
  OBVIOUS
<1>3. PICK x \in Bad : \A y \in Bad : cn[x].ID <= cn[y].ID
  <2> DEFINE R == {cn[y].ID : y \in Bad}
  <2>1. R \in SUBSET Nat /\ R # {}
    BY <1>1, <1>2
  <2>2. PICK m \in R : \A k \in R : m <= k
    <3> HIDE DEF R
    <3> QED BY <2>1, LeastNat
  <2> QED BY <2>2
<1>4. PICK p \in DOMAIN cn : p = cn[x].prev /\ cn[p].next = x /\ cn[p].ID < cn[x].ID
  BY <1>1, <1>3 DEF CountsSound, LinkedIn
<1>5. CASE p = min
  BY <1>1, <1>3, <1>4, <1>5
<1>6. CASE p # min
  <2>1. p \notin Bad
    BY <1>1, <1>3, <1>4
  <2>2. Ok(p)
    BY <1>6, <2>1
  <2> QED BY <1>1, <1>3, <1>4, <2>2
<1> QED BY <1>5, <1>6

(***************************************************************************)
(* What the operations make of sound lists.                                *)
(***************************************************************************)
SameCounts(cn, new) == \A x \in DOMAIN cn : new[x].ID = cn[x].ID

LEMMA WithNextSound ==
  ASSUME NEW cn, CountsSound(cn), NEW c \in DOMAIN cn,
         NewNode(cn) \in (1 .. SIZE + 2) \ DOMAIN cn,
         NEW new, new = WithNext(cn, c), NEW to, to = new[c].next
  PROVE  /\ CountsSound(new)
         /\ to \in DOMAIN new \ {min, c} /\ DOMAIN new = DOMAIN cn \cup {to}
         /\ SameCounts(cn, new) /\ new[to].ID = cn[c].ID + 1
         /\ \A x \in DOMAIN cn : new[x].pData = cn[x].pData
         /\ to \notin DOMAIN cn => new[to].pData = NULL
<1>1. /\ cn \in [DOMAIN cn -> CNode] /\ min \in DOMAIN cn /\ NULL \notin DOMAIN cn
      /\ \A x \in DOMAIN cn : /\ cn[x].ID \in Nat /\ cn[x].next \in Ptr /\ cn[x].prev \in Ptr
                              /\ cn[x].pData \in Ptr /\ x \in Ptr
  BY NullApart DEF CountsSound, CNode, Ptr
<1>2. CASE FollowedBy(cn, c)
  <2>1. new = cn /\ to = cn[c].next /\ to # NULL /\ cn[to].ID - cn[c].ID <= 1
    BY <1>2 DEF WithNext, FollowedBy
  <2>2. to \in DOMAIN cn /\ cn[c].ID < cn[to].ID
    BY <2>1 DEF CountsSound, LinkedIn
  <2>3. cn[to].ID = cn[c].ID + 1 /\ to # min /\ to # c
    BY <1>1, <2>1, <2>2 DEF CountsSound
  <2>4. DOMAIN cn = DOMAIN cn \cup {to}
    BY <2>2
  <2> QED BY <2>1, <2>2, <2>3, <2>4 DEF SameCounts
<1>3. CASE ~ FollowedBy(cn, c)
  <2> DEFINE n == NewNode(cn)
             q == cn[c].next
             e == [ID |-> cn[c].ID + 1, prev |-> NULL, next |-> NULL, pData |-> NULL]
             g == With(cn, n, e)
             h == Connect(g, n, q)
             w == Connect(h, c, n)
  <2>1. new = w
    BY <1>3 DEF WithNext
  <2>2. /\ e \in CNode /\ e.ID = cn[c].ID + 1 /\ e.pData = NULL
        /\ n \in Ptr /\ c \in Ptr /\ q \in Ptr /\ n \notin DOMAIN cn /\ n \in 1 .. SIZE + 2
        /\ n # c /\ n # min /\ n # NULL
    BY <1>1, NullApart DEF CNode, Ptr
  <2> HIDE DEF n, e
  <2>3. /\ DOMAIN g = DOMAIN cn \cup {n} /\ g \in [DOMAIN g -> CNode] /\ g[n] = e
        /\ \A x \in DOMAIN cn : g[x] = cn[x]
    BY <1>1, <2>2 DEF With
  <2> HIDE DEF g
  <2>4. /\ h \in [DOMAIN g -> CNode] /\ DOMAIN h = DOMAIN g
        /\ \A x \in DOMAIN g : /\ h[x].next = IF x = n THEN q ELSE g[x].next
                               /\ h[x].prev = IF x = q THEN n ELSE g[x].prev
                               /\ h[x].ID = g[x].ID /\ h[x].pData = g[x].pData
    BY <2>2, <2>3, ConnectCounts
  <2> HIDE DEF h
  <2>5. /\ w \in [DOMAIN g -> CNode] /\ DOMAIN w = DOMAIN g
        /\ \A x \in DOMAIN g : /\ w[x].next = IF x = c THEN n ELSE h[x].next
                               /\ w[x].prev = IF x = n THEN c ELSE h[x].prev
                               /\ w[x].ID = h[x].ID /\ w[x].pData = h[x].pData
    BY <2>2, <2>4, ConnectCounts
  <2> HIDE DEF w
  <2>6. /\ DOMAIN w = DOMAIN cn \cup {n} /\ w \in [DOMAIN w -> CNode]
        /\ \A x \in DOMAIN cn : /\ w[x].next = IF x = c THEN n ELSE cn[x].next
                                /\ w[x].prev = IF x = q THEN n ELSE cn[x].prev
                                /\ w[x].ID = cn[x].ID /\ w[x].pData = cn[x].pData
        /\ w[n].next = q /\ w[n].prev = c /\ w[n].ID = cn[c].ID + 1 /\ w[n].pData = NULL
    BY <2>2, <2>3, <2>4, <2>5
  <2>7. /\ q # NULL => q \in DOMAIN cn /\ cn[q].prev = c /\ cn[c].ID + 1 < cn[q].ID
        /\ q # n /\ cn[c].next = q
    <3>1. q # NULL => q \in DOMAIN cn /\ cn[q].prev = c
      BY DEF CountsSound, LinkedIn
    <3>2. q # NULL => cn[c].ID + 1 < cn[q].ID
      BY <1>1, <1>3, <3>1 DEF FollowedBy
    <3> QED BY <2>2, <3>1, <3>2
  <2> HIDE DEF q
  <2>8. to = n
    BY <2>1, <2>6
  <2>9. LinkedIn(w, DOMAIN w)
    <3>1. ASSUME NEW x \in DOMAIN cn, w[x].next # NULL
          PROVE  w[x].next \in DOMAIN w /\ w[w[x].next].prev = x
      <4>1. CASE x = c
        BY <2>6, <4>1
      <4>2. CASE x # c
        <5>1. cn[x].next \in DOMAIN cn /\ cn[cn[x].next].prev = x /\ w[x].next = cn[x].next
          BY <2>6, <3>1, <4>2 DEF CountsSound, LinkedIn
        <5>2. cn[x].next # q
          BY <1>1, <2>7, <4>2, <5>1
        <5> QED BY <2>6, <5>1, <5>2
      <4> QED BY <4>1, <4>2
    <3>2. ASSUME NEW x \in DOMAIN cn, w[x].prev # NULL
          PROVE  w[x].prev \in DOMAIN w /\ w[w[x].prev].next = x
      <4>1. CASE x = q
        BY <2>6, <4>1
      <4>2. CASE x # q
        <5>1. cn[x].prev \in DOMAIN cn /\ cn[cn[x].prev].next = x /\ w[x].prev = cn[x].prev
          BY <2>6, <3>2, <4>2 DEF CountsSound, LinkedIn
        <5>2. cn[x].prev # c
          BY <2>7, <4>2, <5>1
        <5> QED BY <2>6, <5>1, <5>2
      <4> QED BY <4>1, <4>2
    <3>3. /\ w[n].next # NULL => w[n].next \in DOMAIN w /\ w[w[n].next].prev = n
          /\ w[n].prev \in DOMAIN w /\ w[w[n].prev].next = n
      BY <2>6, <2>7
    <3> QED BY <2>6, <3>1, <3>2, <3>3 DEF LinkedIn
  <2>10. \A x \in DOMAIN w : /\ x # min => w[x].prev # NULL
                             /\ w[x].next # NULL => w[x].ID < w[w[x].next].ID
    <3>1. ASSUME NEW x \in DOMAIN cn, x # c, cn[x].next # NULL
          PROVE  w[x].ID < w[w[x].next].ID
      <4>1. cn[x].next \in DOMAIN cn /\ cn[x].ID < cn[cn[x].next].ID
        BY <3>1 DEF CountsSound, LinkedIn
      <4> QED BY <2>6, <3>1, <4>1
    <3>2. w[c].ID < w[n].ID /\ w[c].next = n
      BY <1>1, <2>6
    <3>3. q # NULL => w[n].ID < w[q].ID
      BY <2>6, <2>7
    <3>4. \A x \in DOMAIN cn : x # min => w[x].prev # NULL
      BY <2>2, <2>6 DEF CountsSound
    <3>5. w[n].prev # NULL
      BY <1>1, <2>6
    <3> QED BY <2>6, <3>1, <3>2, <3>3, <3>4, <3>5
  <2>11. min # q
    BY <1>1, <2>7 DEF CountsSound
  <2>12. CountsSound(w)
    <3>1. w[min].ID = 0 /\ w[min].prev = NULL /\ min \in DOMAIN w
      BY <1>1, <2>6, <2>11 DEF CountsSound
    <3>2. DOMAIN w \subseteq 0 .. SIZE + 2
      BY <2>2, <2>6 DEF CountsSound
    <3> QED BY <2>6, <2>9, <2>10, <3>1, <3>2 DEF CountsSound
  <2> QED BY <2>1, <2>2, <2>6, <2>8, <2>12 DEF SameCounts
<1> QED BY <1>2, <1>3

(* A count without data leaves the list.                                   *)
Dropped(cn, dn, S, c, new) ==
  /\ CountsSound(new) /\ DataSound(dn, new, S)
  /\ DOMAIN new = DOMAIN cn \ {c} /\ SameCounts(new, cn)
  /\ \A x \in DOMAIN new : new[x].pData = cn[x].pData

LEMMA DropSound ==
  ASSUME NEW cn, CountsSound(cn), NEW dn, NEW S, DataSound(dn, cn, S),
         NEW c \in DOMAIN cn \ {min}, cn[c].pData = NULL, NEW new, new = Drop(cn, c)
  PROVE  Dropped(cn, dn, S, c, new)
<1> DEFINE p == cn[c].prev
           q == cn[c].next
           w == Connect(cn, p, q)
<1>1. /\ cn \in [DOMAIN cn -> CNode] /\ min \in DOMAIN cn /\ NULL \notin DOMAIN cn
      /\ \A x \in DOMAIN cn : /\ cn[x].ID \in Nat /\ cn[x].next \in Ptr /\ cn[x].prev \in Ptr
                              /\ cn[x].pData \in Ptr /\ x \in Ptr
  BY NullApart DEF CountsSound, CNode, Ptr
<1>2. new = Without(w, c)
  BY DEF Drop, Unlink
<1>3. /\ p \in DOMAIN cn /\ cn[p].next = c /\ cn[p].ID < cn[c].ID /\ p \in Ptr /\ q \in Ptr
      /\ q # NULL => q \in DOMAIN cn /\ cn[q].prev = c /\ cn[c].ID < cn[q].ID
      /\ cn[c].prev = p /\ cn[c].next = q
  BY <1>1 DEF CountsSound, LinkedIn
<1> HIDE DEF p, q
<1>4. /\ w \in [DOMAIN cn -> CNode] /\ DOMAIN w = DOMAIN cn
      /\ \A x \in DOMAIN cn : /\ w[x].next = IF x = p THEN q ELSE cn[x].next
                              /\ w[x].prev = IF x = q THEN p ELSE cn[x].prev
                              /\ w[x].ID = cn[x].ID /\ w[x].pData = cn[x].pData
  BY <1>1, <1>3, ConnectCounts
<1> HIDE DEF w
<1>5. /\ DOMAIN new = DOMAIN cn \ {c} /\ new \in [DOMAIN new -> CNode]
      /\ \A x \in DOMAIN cn \ {c} : /\ new[x].next = IF x = p THEN q ELSE cn[x].next
                                    /\ new[x].prev = IF x = q THEN p ELSE cn[x].prev
                                    /\ new[x].ID = cn[x].ID /\ new[x].pData = cn[x].pData
  BY <1>2, <1>4 DEF Without, Restrict
<1>6. p # c /\ q # c /\ q # min
  <2>1. cn[p].ID \in Nat /\ cn[c].ID \in Nat
    BY <1>1, <1>3
  <2>2. cn[min].ID = 0
    BY DEF CountsSound
  <2> QED BY <1>1, <1>3, <2>1, <2>2
<1>7. LinkedIn(new, DOMAIN new)
  <2>1. ASSUME NEW x \in DOMAIN new, new[x].next # NULL
        PROVE  new[x].next \in DOMAIN new /\ new[new[x].next].prev = x
    <3>1. CASE x = p
      BY <1>3, <1>5, <1>6, <2>1, <3>1
    <3>2. CASE x # p
      <4>1. /\ new[x].next = cn[x].next /\ cn[x].next \in DOMAIN cn
            /\ cn[cn[x].next].prev = x /\ x # c /\ x \in DOMAIN cn
        BY <1>5, <2>1, <3>2 DEF CountsSound, LinkedIn
      <4>2. cn[x].next # c /\ cn[x].next # q
        BY <1>1, <1>3, <3>2, <4>1
      <4> QED BY <1>5, <4>1, <4>2
    <3> QED BY <3>1, <3>2
  <2>2. ASSUME NEW x \in DOMAIN new, new[x].prev # NULL
        PROVE  new[x].prev \in DOMAIN new /\ new[new[x].prev].next = x
    <3>1. CASE x = q
      BY <1>3, <1>5, <1>6, <2>2, <3>1
    <3>2. CASE x # q
      <4>1. /\ new[x].prev = cn[x].prev /\ cn[x].prev \in DOMAIN cn
            /\ cn[cn[x].prev].next = x /\ x # c /\ x \in DOMAIN cn
        BY <1>5, <2>2, <3>2 DEF CountsSound, LinkedIn
      <4>2. cn[x].prev # c /\ cn[x].prev # p
        BY <1>1, <1>3, <3>2, <4>1
      <4> QED BY <1>5, <4>1, <4>2
    <3> QED BY <3>1, <3>2
  <2> QED BY <2>1, <2>2 DEF LinkedIn
<1>8. \A x \in DOMAIN new : /\ x # min => new[x].prev # NULL
                            /\ new[x].next # NULL => new[x].ID < new[new[x].next].ID
  <2>1. ASSUME NEW x \in DOMAIN new, x # min PROVE new[x].prev # NULL
    <3>1. cn[x].prev # NULL
      BY <1>5, <2>1 DEF CountsSound
    <3> QED BY <1>1, <1>3, <1>5, <3>1
  <2>2. ASSUME NEW x \in DOMAIN new, new[x].next # NULL PROVE new[x].ID < new[new[x].next].ID
    <3>1. new[x].next \in DOMAIN new /\ x \in DOMAIN cn \ {c}
      BY <1>5, <1>7, <2>2 DEF LinkedIn
    <3>2. CASE x = p
      <4>1. new[x].next = q /\ q # NULL /\ q \in DOMAIN cn \ {c}
        BY <1>3, <1>5, <1>6, <2>2, <3>1, <3>2
      <4>2. cn[p].ID \in Nat /\ cn[c].ID \in Nat /\ cn[q].ID \in Nat
        BY <1>1, <1>3, <4>1
      <4> QED BY <1>3, <1>5, <3>1, <3>2, <4>1, <4>2
    <3>3. CASE x # p
      <4>1. new[x].next = cn[x].next /\ cn[x].ID < cn[cn[x].next].ID
        BY <1>5, <2>2, <3>1, <3>3 DEF CountsSound
      <4> QED BY <1>5, <3>1, <4>1
    <3> QED BY <3>2, <3>3
  <2> QED BY <2>1, <2>2
<1>9. CountsSound(new)
  <2>1. new[min].ID = 0 /\ new[min].prev = NULL /\ min \in DOMAIN new
    BY <1>1, <1>5, <1>6 DEF CountsSound
  <2>2. DOMAIN new \subseteq 0 .. SIZE + 2
    BY <1>5 DEF CountsSound
  <2> QED BY <1>5, <1>7, <1>8, <2>1, <2>2 DEF CountsSound
<1>10. DataSound(dn, new, S)
  <2>1. ASSUME NEW d \in S PROVE dn[d].pCount \in DOMAIN new \ {min}
    <3>1. cn[dn[d].pCount].pData # NULL
      BY HasFirst
    <3> QED BY <1>5, <3>1 DEF DataSound
  <2>2. \A d \in S : dn[d].prev = NULL => new[dn[d].pCount].pData = d
    BY <1>5, <2>1 DEF DataSound
  <2>3. \A x \in DOMAIN new : new[x].pData # NULL =>
          /\ new[x].pData \in S
          /\ dn[new[x].pData].pCount = x /\ dn[new[x].pData].prev = NULL
    BY <1>5 DEF DataSound
  <2> QED BY <2>1, <2>2, <2>3 DEF DataSound
<1> QED BY <1>5, <1>9, <1>10 DEF SameCounts, Dropped

SameData(dn, new, S) == \A x \in S : new[x].ID = dn[x].ID /\ new[x].pCount = dn[x].pCount

(* Data node d becomes the first of the count to.                          *)
PushedCounts(cn, to, d)  == [cn EXCEPT ![to].pData = d]
Placed(dn, d, to)        == [dn EXCEPT ![d].prev = NULL, ![d].pCount = to]
PushedData(dn, d, to, h) == Connect(Placed(dn, d, to), d, h)

Pushed(cn, dn, S, d, to, newc, newd) ==
  /\ CountsSound(newc) /\ DataSound(newd, newc, S \cup {d})
  /\ DOMAIN newc = DOMAIN cn /\ DOMAIN newd = DOMAIN dn
  /\ SameCounts(cn, newc) /\ \A x \in DOMAIN cn \ {to} : newc[x].pData = cn[x].pData
  /\ newc[to].pData = d
  /\ SameData(dn, newd, DOMAIN dn \ {d}) /\ newd[d].ID = dn[d].ID /\ newd[d].pCount = to

LEMMA PushSound ==
  ASSUME NEW cn, CountsSound(cn), NEW dn, NEW S, DataSound(dn, cn, S),
         NEW d \in DOMAIN dn \ S, NEW to \in DOMAIN cn \ {min},
         NEW newc, newc = PushedCounts(cn, to, d),
         NEW newd, newd = PushedData(dn, d, to, cn[to].pData)
  PROVE  Pushed(cn, dn, S, d, to, newc, newd)
<1> DEFINE h == cn[to].pData
           e == Placed(dn, d, to)
<1>1. /\ cn \in [DOMAIN cn -> CNode] /\ min \in DOMAIN cn /\ NULL \notin DOMAIN cn
      /\ \A x \in DOMAIN cn : /\ cn[x].ID \in Nat /\ cn[x].next \in Ptr /\ cn[x].prev \in Ptr
                              /\ cn[x].pData \in Ptr /\ x \in Ptr
  BY NullApart DEF CountsSound, CNode, Ptr
<1>2. /\ dn \in [DOMAIN dn -> DNode] /\ NULL \notin DOMAIN dn /\ S \subseteq DOMAIN dn
      /\ \A x \in DOMAIN dn : /\ dn[x].next \in Ptr /\ dn[x].prev \in Ptr
                              /\ x \in Ptr /\ x # NULL
  BY NullApart DEF DataSound, DNode, Ptr
<1>3. /\ DOMAIN newc = DOMAIN cn /\ newc \in [DOMAIN cn -> CNode]
      /\ \A x \in DOMAIN cn : /\ newc[x].ID = cn[x].ID /\ newc[x].next = cn[x].next
                              /\ newc[x].prev = cn[x].prev
                              /\ newc[x].pData = IF x = to THEN d ELSE cn[x].pData
  <2>1. /\ [cn[to] EXCEPT !.pData = d] \in CNode
        /\ [cn[to] EXCEPT !.pData = d].ID = cn[to].ID
        /\ [cn[to] EXCEPT !.pData = d].next = cn[to].next
        /\ [cn[to] EXCEPT !.pData = d].prev = cn[to].prev
        /\ [cn[to] EXCEPT !.pData = d].pData = d
    BY <1>1, <1>2 DEF CNode
  <2>2. newc = [cn EXCEPT ![to] = [cn[to] EXCEPT !.pData = d]]
    BY DEF PushedCounts
  <2> QED BY <1>1, <2>1, <2>2
<1>4. /\ DOMAIN e = DOMAIN dn /\ e \in [DOMAIN dn -> DNode]
      /\ \A x \in DOMAIN dn \ {d} : e[x] = dn[x]
      /\ e[d].ID = dn[d].ID /\ e[d].prev = NULL /\ e[d].pCount = to
  <2> DEFINE a == [dn[d] EXCEPT !.prev = NULL, !.pCount = to]
  <2>1. to \in Ptr /\ NULL \in Ptr /\ dn[d] \in DNode
    BY <1>1, <1>2 DEF Ptr
  <2>2. a \in DNode /\ a.ID = dn[d].ID /\ a.prev = NULL /\ a.pCount = to
    BY <2>1 DEF DNode
  <2>3. e = [dn EXCEPT ![d] = a]
    BY <1>2 DEF Placed
  <2> HIDE DEF a, e
  <2> QED BY <1>2, <2>2, <2>3
<1>5. /\ h \in Ptr /\ d \in Ptr /\ cn[to].pData = h /\ newd = Connect(e, d, h)
      /\ h # NULL => h \in S /\ dn[h].pCount = to /\ dn[h].prev = NULL
  BY <1>1, <1>2 DEF DataSound, PushedData
<1> HIDE DEF h, e
<1>6. /\ newd \in [DOMAIN dn -> DNode] /\ DOMAIN newd = DOMAIN dn
      /\ \A x \in DOMAIN dn \ {d} :
           /\ newd[x].next = dn[x].next /\ newd[x].prev = IF x = h THEN d ELSE dn[x].prev
           /\ newd[x].ID = dn[x].ID /\ newd[x].pCount = dn[x].pCount
      /\ newd[d].next = h /\ newd[d].prev = NULL /\ newd[d].ID = dn[d].ID /\ newd[d].pCount = to
  <2>1. /\ newd \in [DOMAIN e -> DNode] /\ DOMAIN newd = DOMAIN e
        /\ \A x \in DOMAIN e : /\ newd[x].next = IF x = d THEN h ELSE e[x].next
                               /\ newd[x].prev = IF x = h THEN d ELSE e[x].prev
                               /\ newd[x].ID = e[x].ID /\ newd[x].pCount = e[x].pCount
    BY <1>4, <1>5, ConnectData
  <2>2. d # h
    BY <1>2, <1>5
  <2> QED BY <1>4, <2>1, <2>2
<1>7. CountsSound(newc)
  <2>1. LinkedIn(newc, DOMAIN newc)
    BY <1>3 DEF CountsSound, LinkedIn
  <2>2. \A c \in DOMAIN newc :
          /\ c # min => newc[c].prev # NULL
          /\ newc[c].next # NULL => newc[c].ID < newc[newc[c].next].ID
    BY <1>3 DEF CountsSound, LinkedIn
  <2> QED BY <1>1, <1>3, <2>1, <2>2 DEF CountsSound
<1>8. LinkedIn(newd, S \cup {d})
  <2>1. ASSUME NEW x \in S, newd[x].next # NULL
        PROVE  newd[x].next \in S /\ newd[newd[x].next].prev = x
    <3>1. dn[x].next = newd[x].next /\ dn[x].next \in S /\ dn[dn[x].next].prev = x
      BY <1>2, <1>6, <2>1 DEF DataSound, LinkedIn
    <3>2. dn[x].next # h
      BY <1>2, <1>5, <3>1
    <3> QED BY <1>2, <1>6, <3>1, <3>2
  <2>2. ASSUME NEW x \in S, newd[x].prev # NULL
        PROVE  newd[x].prev \in S \cup {d} /\ newd[newd[x].prev].next = x
    <3>1. CASE x = h
      BY <1>2, <1>6, <3>1
    <3>2. CASE x # h
      BY <1>2, <1>6, <2>2, <3>2 DEF DataSound, LinkedIn
    <3> QED BY <3>1, <3>2
  <2>3. newd[d].next # NULL => newd[d].next \in S /\ newd[newd[d].next].prev = d
    BY <1>2, <1>5, <1>6
  <2> QED BY <1>6, <2>1, <2>2, <2>3 DEF LinkedIn
<1>9. Numbered(newd, S \cup {d})
  <2>1. PICK r \in [DOMAIN dn -> Nat] : \A x \in S : dn[x].next # NULL => r[x] < r[dn[x].next]
    BY DEF DataSound, Numbered
  <2> DEFINE u == [x \in DOMAIN newd |-> IF x = d THEN 0 ELSE r[x] + 1]
  <2>2. u \in [DOMAIN newd -> Nat]
    BY <1>6
  <2>3. ASSUME NEW x \in S, newd[x].next # NULL PROVE u[x] < u[newd[x].next]
    <3>1. newd[x].next = dn[x].next /\ dn[x].next \in S
      BY <1>2, <1>6, <2>3 DEF DataSound, LinkedIn
    <3>2. r[x] < r[dn[x].next] /\ r[x] \in Nat /\ r[dn[x].next] \in Nat
      BY <1>2, <2>1, <2>3, <3>1
    <3> QED BY <1>2, <1>6, <3>1, <3>2
  <2>4. newd[d].next # NULL => u[d] < u[newd[d].next]
    BY <1>2, <1>5, <1>6
  <2> HIDE DEF u
  <2> QED BY <2>2, <2>3, <2>4 DEF Numbered
<1>10. DataSound(newd, newc, S \cup {d})
  <2>1. \A x \in S \cup {d} : newd[x].pCount \in DOMAIN newc \ {min}
    BY <1>2, <1>3, <1>6 DEF DataSound
  <2>2. ASSUME NEW x \in S \cup {d}, newd[x].next # NULL
        PROVE  newd[newd[x].next].pCount = newd[x].pCount
    <3>1. CASE x = d
      BY <1>2, <1>5, <1>6, <2>2, <3>1
    <3>2. CASE x # d
      <4>1. newd[x].next = dn[x].next /\ dn[x].next \in S /\ dn[dn[x].next].pCount = dn[x].pCount
        BY <1>2, <1>6, <2>2, <3>2 DEF DataSound, LinkedIn
      <4> QED BY <1>2, <1>6, <3>2, <4>1
    <3> QED BY <3>1, <3>2
  <2>3. ASSUME NEW x \in S \cup {d}, newd[x].prev = NULL
        PROVE  newc[newd[x].pCount].pData = x
    <3>1. CASE x = d
      BY <1>3, <1>6, <3>1
    <3>2. CASE x # d
      <4>1. x # h /\ dn[x].prev = NULL /\ newd[x].pCount = dn[x].pCount
        BY <1>2, <1>6, <2>3, <3>2
      <4>2. cn[dn[x].pCount].pData = x /\ dn[x].pCount \in DOMAIN cn
        BY <3>2, <4>1 DEF DataSound
      <4>3. dn[x].pCount # to
        BY <1>5, <4>1, <4>2
      <4> QED BY <1>3, <4>1, <4>2, <4>3
    <3> QED BY <3>1, <3>2
  <2>4. ASSUME NEW c \in DOMAIN newc, newc[c].pData # NULL
        PROVE  /\ newc[c].pData \in S \cup {d}
               /\ newd[newc[c].pData].pCount = c /\ newd[newc[c].pData].prev = NULL
    <3>1. CASE c = to
      BY <1>3, <1>6, <3>1
    <3>2. CASE c # to
      <4>1. /\ newc[c].pData = cn[c].pData /\ cn[c].pData \in S
            /\ dn[cn[c].pData].pCount = c /\ dn[cn[c].pData].prev = NULL
        BY <1>3, <2>4, <3>2 DEF DataSound
      <4>2. cn[c].pData # h
        BY <1>2, <1>5, <3>2, <4>1
      <4> QED BY <1>2, <1>6, <4>1, <4>2
    <3> QED BY <3>1, <3>2
  <2>5. DOMAIN newd \subseteq 1 .. SIZE + 2 /\ S \cup {d} \subseteq DOMAIN newd
    BY <1>2, <1>6 DEF DataSound
  <2> QED BY <1>6, <1>8, <1>9, <2>1, <2>2, <2>3, <2>4, <2>5 DEF DataSound
<1> QED BY <1>3, <1>6, <1>7, <1>10 DEF Pushed, SameCounts, SameData

(* Data node d leaves the list of its count, which points to the next one  *)
(* if d was its first.                                                     *)
TakenCounts(cn, dn, d) ==
  IF cn[dn[d].pCount].pData = d THEN [cn EXCEPT ![dn[d].pCount].pData = dn[d].next] ELSE cn

Taken(cn, dn, S, d, newc, newd) ==
  /\ CountsSound(newc) /\ DataSound(newd, newc, S \ {d})
  /\ DOMAIN newc = DOMAIN cn /\ DOMAIN newd = DOMAIN dn
  /\ SameCounts(cn, newc) /\ newc[min].next = cn[min].next
  /\ \A x \in DOMAIN cn \ {dn[d].pCount} : newc[x].pData = cn[x].pData
  /\ newc[dn[d].pCount].pData = NULL <=>
       cn[dn[d].pCount].pData = d /\ dn[d].next = NULL
  /\ SameData(dn, newd, DOMAIN dn)

LEMMA TakeSound ==
  ASSUME NEW cn, CountsSound(cn), NEW dn, NEW S, DataSound(dn, cn, S), NEW d \in S,
         NEW newc, newc = TakenCounts(cn, dn, d),
         NEW newd, newd = Unlink(dn, d)
  PROVE  Taken(cn, dn, S, d, newc, newd)
<1> DEFINE c == dn[d].pCount
           p == dn[d].prev
           q == dn[d].next
           first == cn[c].pData = d
<1>1. /\ cn \in [DOMAIN cn -> CNode] /\ min \in DOMAIN cn /\ NULL \notin DOMAIN cn
      /\ \A x \in DOMAIN cn : /\ cn[x].ID \in Nat /\ cn[x].next \in Ptr /\ cn[x].prev \in Ptr
                              /\ cn[x].pData \in Ptr /\ x \in Ptr
  BY NullApart DEF CountsSound, CNode, Ptr
<1>2. /\ dn \in [DOMAIN dn -> DNode] /\ NULL \notin DOMAIN dn /\ S \subseteq DOMAIN dn
      /\ \A x \in DOMAIN dn : /\ dn[x].next \in Ptr /\ dn[x].prev \in Ptr
                              /\ x \in Ptr /\ x # NULL
  BY NullApart DEF DataSound, DNode, Ptr
<1>3. /\ p \in Ptr /\ q \in Ptr /\ c \in DOMAIN cn /\ c # min /\ cn[c].pData # NULL
      /\ p # NULL => p \in S /\ dn[p].next = d /\ dn[p].pCount = c
      /\ q # NULL => q \in S /\ dn[q].prev = d /\ dn[q].pCount = c
      /\ p = NULL <=> first
      /\ dn[d].prev = p /\ dn[d].next = q /\ dn[d].pCount = c
  <2>1. p # NULL => p \in S /\ dn[p].next = d
    BY DEF DataSound, LinkedIn
  <2>2. p # NULL => dn[p].pCount = c
    BY <1>2, <2>1 DEF DataSound
  <2>3. q # NULL => q \in S /\ dn[q].prev = d /\ dn[q].pCount = c
    BY DEF DataSound, LinkedIn
  <2>4. c \in DOMAIN cn /\ c # min
    BY DEF DataSound
  <2>5. p = NULL <=> first
    BY <1>2, <2>4 DEF DataSound
  <2>6. cn[c].pData # NULL
    BY HasFirst
  <2> QED BY <1>2, <2>1, <2>2, <2>3, <2>4, <2>5, <2>6
<1>4. newd = Connect(dn, p, q) /\ newc = IF first THEN [cn EXCEPT ![c].pData = q] ELSE cn
  BY DEF Unlink, TakenCounts
<1> HIDE DEF c, p, q
<1>5. /\ DOMAIN newc = DOMAIN cn /\ newc \in [DOMAIN cn -> CNode]
      /\ \A x \in DOMAIN cn : /\ newc[x].ID = cn[x].ID /\ newc[x].next = cn[x].next
                              /\ newc[x].prev = cn[x].prev
                              /\ newc[x].pData = IF x = c /\ first THEN q ELSE cn[x].pData
  <2>1. /\ [cn[c] EXCEPT !.pData = q] \in CNode
        /\ [cn[c] EXCEPT !.pData = q].ID = cn[c].ID
        /\ [cn[c] EXCEPT !.pData = q].next = cn[c].next
        /\ [cn[c] EXCEPT !.pData = q].prev = cn[c].prev
        /\ [cn[c] EXCEPT !.pData = q].pData = q
    <3>1. cn[c] \in CNode
      BY <1>1, <1>3
    <3> QED BY <1>3, <3>1 DEF CNode
  <2>2. newc = IF first THEN [cn EXCEPT ![c] = [cn[c] EXCEPT !.pData = q]] ELSE cn
    BY <1>4
  <2> HIDE DEF first
  <2> QED BY <1>1, <1>3, <2>1, <2>2
<1>6. /\ newd \in [DOMAIN dn -> DNode] /\ DOMAIN newd = DOMAIN dn
      /\ \A x \in DOMAIN dn : /\ newd[x].next = IF x = p THEN q ELSE dn[x].next
                              /\ newd[x].prev = IF x = q THEN p ELSE dn[x].prev
                              /\ newd[x].ID = dn[x].ID /\ newd[x].pCount = dn[x].pCount
  BY <1>2, <1>3, <1>4, ConnectData
<1>7. CountsSound(newc)
  <2>1. LinkedIn(newc, DOMAIN newc)
    BY <1>5 DEF CountsSound, LinkedIn
  <2>2. \A x \in DOMAIN newc :
          /\ x # min => newc[x].prev # NULL
          /\ newc[x].next # NULL => newc[x].ID < newc[newc[x].next].ID
    BY <1>5 DEF CountsSound, LinkedIn
  <2> QED BY <1>1, <1>5, <2>1, <2>2 DEF CountsSound
<1>8. ASSUME NEW x \in S \ {d}, newd[x].next # NULL
      PROVE  /\ newd[x].next \in S \ {d} /\ newd[newd[x].next].prev = x
             /\ newd[newd[x].next].pCount = newd[x].pCount
  <2>1. CASE x = p
    <3>1. newd[x].next = q /\ q \in S
      BY <1>2, <1>3, <1>6, <1>8, <2>1
    <3>2. q # d
      BY <1>2, <1>3, <2>1, <3>1
    <3> QED BY <1>2, <1>3, <1>6, <2>1, <3>1, <3>2
  <2>2. CASE x # p
    <3>1. /\ newd[x].next = dn[x].next /\ dn[x].next \in S /\ dn[dn[x].next].prev = x
          /\ dn[dn[x].next].pCount = dn[x].pCount
      BY <1>2, <1>6, <1>8, <2>2 DEF DataSound, LinkedIn
    <3>2. dn[x].next # d /\ dn[x].next # q
      BY <1>2, <1>3, <2>2, <3>1
    <3> QED BY <1>2, <1>6, <3>1, <3>2
  <2> QED BY <2>1, <2>2
<1>9. ASSUME NEW x \in S \ {d}, newd[x].prev # NULL
      PROVE  newd[x].prev \in S \ {d} /\ newd[newd[x].prev].next = x
  <2>1. CASE x = q
    <3>1. newd[x].prev = p /\ p \in S
      BY <1>2, <1>3, <1>6, <1>9, <2>1
    <3>2. p # d
      BY <1>2, <1>3, <2>1, <3>1
    <3> QED BY <1>2, <1>6, <2>1, <3>1, <3>2
  <2>2. CASE x # q
    <3>1. newd[x].prev = dn[x].prev /\ dn[x].prev \in S /\ dn[dn[x].prev].next = x
      BY <1>2, <1>6, <1>9, <2>2 DEF DataSound, LinkedIn
    <3>2. dn[x].prev # d /\ dn[x].prev # p
      BY <1>2, <1>3, <2>2, <3>1
    <3> QED BY <1>2, <1>6, <3>1, <3>2
  <2> QED BY <2>1, <2>2
<1>10. Numbered(newd, S \ {d})
  <2>1. PICK r \in [DOMAIN dn -> Nat] : \A x \in S : dn[x].next # NULL => r[x] < r[dn[x].next]
    BY DEF DataSound, Numbered
  <2>2. ASSUME NEW x \in S \ {d}, newd[x].next # NULL PROVE r[x] < r[newd[x].next]
    <3>1. CASE x = p
      <4>1. newd[x].next = q /\ q \in S /\ dn[x].next = d
        BY <1>2, <1>3, <1>6, <2>2, <3>1
      <4>2. r[x] < r[d] /\ r[d] < r[q]
        BY <1>2, <1>3, <2>1, <4>1
      <4>3. r[x] \in Nat /\ r[d] \in Nat /\ r[q] \in Nat
        BY <1>2, <4>1
      <4> QED BY <4>1, <4>2, <4>3
    <3>2. CASE x # p
      BY <1>2, <1>6, <2>1, <2>2, <3>2
    <3> QED BY <3>1, <3>2
  <2> QED BY <1>6, <2>2 DEF Numbered
<1>11. DataSound(newd, newc, S \ {d})
  <2>1. \A x \in S \ {d} : newd[x].pCount \in DOMAIN newc \ {min}
    BY <1>2, <1>5, <1>6 DEF DataSound
  <2>2. ASSUME NEW x \in S \ {d}, newd[x].prev = NULL
        PROVE  newc[newd[x].pCount].pData = x
    <3>1. CASE x = q
      BY <1>2, <1>3, <1>5, <1>6, <2>2, <3>1
    <3>2. CASE x # q
      <4>1. dn[x].prev = NULL /\ newd[x].pCount = dn[x].pCount
        BY <1>2, <1>6, <2>2, <3>2
      <4>2. cn[dn[x].pCount].pData = x /\ dn[x].pCount \in DOMAIN cn
        BY <4>1 DEF DataSound
      <4>3. ~ (dn[x].pCount = c /\ first)
        BY <4>2
      <4> QED BY <1>5, <4>1, <4>2, <4>3
    <3> QED BY <3>1, <3>2
  <2>3. ASSUME NEW x \in DOMAIN newc, newc[x].pData # NULL
        PROVE  /\ newc[x].pData \in S \ {d}
               /\ newd[newc[x].pData].pCount = x /\ newd[newc[x].pData].prev = NULL
    <3>1. CASE x = c /\ first
      <4>1. newc[x].pData = q /\ q \in S /\ p = NULL
        BY <1>3, <1>5, <2>3, <3>1
      <4>2. q # d
        BY <1>2, <1>3, <4>1
      <4> QED BY <1>2, <1>3, <1>6, <3>1, <4>1, <4>2
    <3>2. CASE ~ (x = c /\ first)
      <4>1. /\ newc[x].pData = cn[x].pData /\ cn[x].pData \in S /\ x \in DOMAIN cn
            /\ dn[cn[x].pData].pCount = x /\ dn[cn[x].pData].prev = NULL
        BY <1>5, <2>3, <3>2 DEF DataSound
      <4>2. cn[x].pData # d
        BY <1>3, <3>2, <4>1
      <4>3. cn[x].pData # q
        BY <1>2, <1>3, <4>1
      <4> QED BY <1>2, <1>6, <4>1, <4>2, <4>3
    <3> QED BY <3>1, <3>2
  <2>4. DOMAIN newd \subseteq 1 .. SIZE + 2 /\ S \ {d} \subseteq DOMAIN newd
    BY <1>2, <1>6 DEF DataSound
  <2>5. LinkedIn(newd, S \ {d})
    BY <1>8, <1>9 DEF LinkedIn
  <2> QED BY <1>6, <1>8, <1>10, <2>1, <2>2, <2>3, <2>4, <2>5 DEF DataSound
<1>12. newc[c].pData = NULL <=> first /\ q = NULL
  BY <1>3, <1>5
<1> QED BY <1>1, <1>3, <1>5, <1>6, <1>7, <1>11, <1>12 DEF SameCounts, SameData, Taken

(***************************************************************************)
(* Nodes are enough.                                                       *)
(***************************************************************************)
LEMMA FreshNode ==
  ASSUME NEW f, NEW D \in SUBSET (1 .. SIZE + 2), IsFiniteSet(D),
         Cardinality(D) <= SIZE + 1, DOMAIN f \ {min} = D
  PROVE  NewNode(f) \in (1 .. SIZE + 2) \ DOMAIN f
<1>0. SIZE \in Nat
  BY SummaryAssumption
<1>1. /\ IsFiniteSet(1 .. SIZE + 2)
      /\ Cardinality(1 .. SIZE + 2) = SIZE + 2
  <2>1. /\ IsFiniteSet(1 .. SIZE + 2)
        /\ Cardinality(1 .. SIZE + 2) = IF 1 > SIZE + 2 THEN 0 ELSE SIZE + 2 - 1 + 1
    BY <1>0, FS_Interval
  <2> QED BY <1>0, <2>1
<1>2. D # 1 .. SIZE + 2
  BY <1>0, <1>1
<1>3. PICK n \in 1 .. SIZE + 2 : n \notin D
  BY <1>2
<1>4. n \notin DOMAIN f
  BY <1>0, <1>3 DEF min
<1> QED BY <1>4 DEF NewNode

LEMMA FewNodes ==
  ASSUME NEW f, DOMAIN f \subseteq 1 .. SIZE + 2
  PROVE  IsFiniteSet(DOMAIN f) /\ Cardinality(DOMAIN f) \in Nat
<1>1. SIZE \in Nat
  BY SummaryAssumption
<1>2. IsFiniteSet(1 .. SIZE + 2)
  BY <1>1, FS_Interval
<1> QED BY <1>2, FS_Subset, FS_CardinalityType

(* Every count but the sentinel has its own first data node.               *)
LEMMA FewCounts ==
  ASSUME NEW cn, CountsSound(cn), NEW dn, NEW S, DataSound(dn, cn, S), Bare(cn) \subseteq {min}
  PROVE  Cardinality(DOMAIN cn \ {min}) <= Cardinality(DOMAIN dn)
<1> DEFINE C == DOMAIN cn \ {min}
           g == [c \in C |-> cn[c].pData]
<1>1. \A c \in C : cn[c].pData \in S /\ dn[cn[c].pData].pCount = c
  BY DEF Bare, DataSound
<1>2. S \subseteq DOMAIN dn /\ IsFiniteSet(DOMAIN dn)
  BY FewNodes DEF DataSound
<1>3. g \in [C -> DOMAIN dn] /\ \A a, b \in C : g[a] = g[b] => a = b
  BY <1>1, <1>2
<1>4. g \in Injection(C, DOMAIN dn)
  BY <1>3 DEF Injection, IsInjective
<1> HIDE DEF g
<1> QED BY <1>2, <1>4, FS_Injection

LEMMA FreshCount ==
  ASSUME NEW cn, CountsSound(cn), NEW dn, NEW S, DataSound(dn, cn, S), Bare(cn) \subseteq {min},
         Cardinality(DOMAIN dn) <= SIZE + 1, NEW new, DOMAIN new = DOMAIN cn
  PROVE  NewNode(new) \in (1 .. SIZE + 2) \ DOMAIN new
<1> DEFINE C == DOMAIN cn \ {min}
<1>0. SIZE \in Nat
  BY SummaryAssumption
<1>1. C \in SUBSET (1 .. SIZE + 2)
  BY <1>0 DEF CountsSound, min
<1>2. IsFiniteSet(C) /\ Cardinality(C) \in Nat
  <2>1. IsFiniteSet(1 .. SIZE + 2)
    <3>1. 1 \in Int /\ SIZE + 2 \in Int
      BY <1>0
    <3> QED BY <3>1, FS_Interval
  <2> QED BY <1>1, <2>1, FS_Subset, FS_CardinalityType
<1>3. Cardinality(C) <= Cardinality(DOMAIN dn)
  BY FewCounts
<1>4. Cardinality(DOMAIN dn) \in Nat
  BY FewNodes DEF DataSound
<1>5. Cardinality(C) <= SIZE + 1 /\ DOMAIN new \ {min} = C
  BY <1>0, <1>2, <1>3, <1>4
<1> HIDE DEF C
<1> QED BY <1>1, <1>2, <1>5, FreshNode

LEMMA FreshData ==
  ASSUME NEW dn, DOMAIN dn \subseteq 1 .. SIZE + 2, Cardinality(DOMAIN dn) <= SIZE + 1
  PROVE  NewNode(dn) \in (1 .. SIZE + 2) \ DOMAIN dn
<1>1. DOMAIN dn \ {min} = DOMAIN dn
  BY SummaryAssumption DEF min
<1> QED BY <1>1, FewNodes, FreshNode

(***************************************************************************)
(* Nodes that come and go outside the lists.                               *)
(***************************************************************************)
LEMMA LooseNodes ==
  ASSUME NEW cn, NEW dn, NEW S, DataSound(dn, cn, S),
         NEW newd, newd \in [DOMAIN newd -> DNode],
         S \subseteq DOMAIN newd, DOMAIN newd \subseteq 1 .. SIZE + 2,
         \A x \in S : newd[x] = dn[x]
  PROVE  DataSound(newd, cn, S)
<1>1. LinkedIn(newd, S)
  BY DEF DataSound, LinkedIn
<1>2. Numbered(newd, S)
  <2>1. PICK r \in [DOMAIN dn -> Nat] : \A x \in S : dn[x].next # NULL => r[x] < r[dn[x].next]
    BY DEF DataSound, Numbered
  <2> DEFINE u == [x \in DOMAIN newd |-> IF x \in S THEN r[x] ELSE 0]
  <2>2. S \subseteq DOMAIN dn
    BY DEF DataSound
  <2>3. u \in [DOMAIN newd -> Nat]
    BY <2>1, <2>2
  <2>4. ASSUME NEW x \in S, newd[x].next # NULL PROVE u[x] < u[newd[x].next]
    <3>1. newd[x].next = dn[x].next /\ dn[x].next \in S
      BY <2>4 DEF DataSound, LinkedIn
    <3> QED BY <2>1, <2>4, <3>1
  <2> HIDE DEF u
  <2> QED BY <2>3, <2>4 DEF Numbered
<1>3. ASSUME NEW x \in S
      PROVE  /\ newd[x].pCount \in DOMAIN cn \ {min}
             /\ newd[x].next # NULL => newd[newd[x].next].pCount = newd[x].pCount
             /\ newd[x].prev = NULL => cn[newd[x].pCount].pData = x
  <2>1. newd[x] = dn[x] /\ (dn[x].next # NULL => newd[dn[x].next] = dn[dn[x].next])
    BY DEF DataSound, LinkedIn
  <2> QED BY <2>1 DEF DataSound
<1>4. \A c \in DOMAIN cn : cn[c].pData # NULL =>
        /\ cn[c].pData \in S
        /\ newd[cn[c].pData].pCount = c /\ newd[cn[c].pData].prev = NULL
  BY DEF DataSound
<1> QED BY <1>1, <1>2, <1>3, <1>4 DEF DataSound

LEMMA NewNodeSound ==
  ASSUME NEW cn, NEW dn, NEW S, DataSound(dn, cn, S),
         NEW d \in (1 .. SIZE + 2) \ DOMAIN dn, NEW e \in DNode, NEW newd, newd = With(dn, d, e)
  PROVE  /\ DataSound(newd, cn, S) /\ DOMAIN newd = DOMAIN dn \cup {d}
         /\ newd[d] = e /\ \A x \in DOMAIN dn : newd[x] = dn[x]
<1>1. dn \in [DOMAIN dn -> DNode] /\ S \subseteq DOMAIN dn /\ DOMAIN dn \subseteq 1 .. SIZE + 2
  BY DEF DataSound
<1>2. /\ DOMAIN newd = DOMAIN dn \cup {d} /\ newd[d] = e
      /\ \A x \in DOMAIN dn : newd[x] = dn[x]
      /\ newd \in [DOMAIN dn \cup {d} -> DNode]
  BY <1>1 DEF With
<1> QED BY <1>1, <1>2, LooseNodes

NodeGone(cn, dn, S, d, newd) ==
  /\ DataSound(newd, cn, S) /\ DOMAIN newd = DOMAIN dn \ {d}
  /\ \A x \in DOMAIN newd : newd[x] = dn[x]

LEMMA OldNodeSound ==
  ASSUME NEW cn, NEW dn, NEW S, DataSound(dn, cn, S),
         NEW d \in DOMAIN dn \ S, NEW newd, newd = Without(dn, d)
  PROVE  NodeGone(cn, dn, S, d, newd)
<1>1. dn \in [DOMAIN dn -> DNode] /\ S \subseteq DOMAIN dn /\ DOMAIN dn \subseteq 1 .. SIZE + 2
  BY DEF DataSound
<1>2. /\ DOMAIN newd = DOMAIN dn \ {d}
      /\ \A x \in DOMAIN dn \ {d} : newd[x] = dn[x]
      /\ newd \in [DOMAIN dn \ {d} -> DNode]
  BY <1>1, WithoutAt
<1> QED BY <1>1, <1>2, LooseNodes DEF NodeGone

(* A count that is new or already there has the data it had.               *)
LEMMA MoreCounts ==
  ASSUME NEW cn, NEW dn, NEW S, DataSound(dn, cn, S), NEW new, NEW to,
         DOMAIN new = DOMAIN cn \cup {to},
         \A x \in DOMAIN cn : new[x].pData = cn[x].pData,
         to \notin DOMAIN cn => new[to].pData = NULL
  PROVE  DataSound(dn, new, S)
BY DEF DataSound

(***************************************************************************)
(* Add_Count, of a data node that is in no list.                           *)
(***************************************************************************)
IsSummary(s) == s = [cn |-> s.cn, dn |-> s.dn, mp |-> s.mp]

LEMMA AddCountIs ==
  ASSUME NEW s, NEW c, NEW d
  PROVE  LET cn == WithNext(s.cn, c)
             to == cn[c].next
         IN  Add_Count(s, c, d) = [cn |-> PushedCounts(cn, to, d),
                                   dn |-> PushedData(s.dn, d, to, cn[to].pData),
                                   mp |-> s.mp]
BY DEF Add_Count, PushedCounts, PushedData, Placed

CountAdded(s, c, S, d, t) ==
  /\ IsSummary(t) /\ t.mp = s.mp
  /\ CountsSound(t.cn) /\ DataSound(t.dn, t.cn, S \cup {d})
  /\ DOMAIN s.cn \subseteq DOMAIN t.cn /\ DOMAIN t.dn = DOMAIN s.dn
  /\ SameCounts(s.cn, t.cn) /\ SameData(s.dn, t.dn, DOMAIN s.dn \ {d})
  /\ t.cn[c].pData = s.cn[c].pData
  /\ \A x \in DOMAIN t.cn : t.cn[x].pData = NULL => x \in DOMAIN s.cn /\ s.cn[x].pData = NULL
  /\ t.dn[d].ID = s.dn[d].ID /\ t.dn[d].pCount \in DOMAIN t.cn
  /\ t.cn[t.dn[d].pCount].ID = s.cn[c].ID + 1

LEMMA AddCountSound ==
  ASSUME NEW s, NEW c \in DOMAIN s.cn, NEW S, NEW d \in DOMAIN s.dn \ S,
         CountsSound(s.cn), DataSound(s.dn, s.cn, S), NewNode(s.cn) \in (1 .. SIZE + 2) \ DOMAIN s.cn,
         NEW t, t = Add_Count(s, c, d)
  PROVE  CountAdded(s, c, S, d, t)
<1> DEFINE cn == WithNext(s.cn, c)
           to == cn[c].next
           newc == PushedCounts(cn, to, d)
           newd == PushedData(s.dn, d, to, cn[to].pData)
<1>1. t = [cn |-> newc, dn |-> newd, mp |-> s.mp]
  BY AddCountIs
<1>2. /\ CountsSound(cn)
      /\ to \in DOMAIN cn \ {min, c} /\ DOMAIN cn = DOMAIN s.cn \cup {to}
      /\ SameCounts(s.cn, cn) /\ cn[to].ID = s.cn[c].ID + 1
      /\ \A x \in DOMAIN s.cn : cn[x].pData = s.cn[x].pData
      /\ to \notin DOMAIN s.cn => cn[to].pData = NULL
  BY WithNextSound
<1> HIDE DEF cn, to
<1>3. DataSound(s.dn, cn, S)
  BY <1>2, MoreCounts
<1>8. newc = PushedCounts(cn, to, d) /\ newd = PushedData(s.dn, d, to, cn[to].pData)
  OBVIOUS
<1> HIDE DEF newc, newd
<1>4. /\ CountsSound(newc) /\ DataSound(newd, newc, S \cup {d})
      /\ DOMAIN newc = DOMAIN cn /\ DOMAIN newd = DOMAIN s.dn
      /\ SameCounts(cn, newc) /\ \A x \in DOMAIN cn \ {to} : newc[x].pData = cn[x].pData
      /\ newc[to].pData = d
      /\ SameData(s.dn, newd, DOMAIN s.dn \ {d}) /\ newd[d].ID = s.dn[d].ID /\ newd[d].pCount = to
  <2>1. PICK x, y, z, u, w : x = cn /\ y = to /\ z = s.dn /\ u = newc /\ w = newd
    OBVIOUS
  <2>2. /\ CountsSound(x) /\ DataSound(z, x, S) /\ d \in DOMAIN z \ S /\ y \in DOMAIN x \ {min}
        /\ u = PushedCounts(x, y, d) /\ w = PushedData(z, d, y, x[y].pData)
    BY <1>2, <1>3, <1>8, <2>1
  <2>3. Pushed(x, z, S, d, y, u, w)
    BY <2>2, PushSound
  <2> QED BY <2>1, <2>3 DEF Pushed
<1>5. t.cn = newc /\ t.dn = newd /\ t.mp = s.mp /\ IsSummary(t)
  BY <1>1 DEF IsSummary
<1>6. \A x \in DOMAIN newc : newc[x].pData = NULL => x \in DOMAIN s.cn /\ s.cn[x].pData = NULL
  <2>1. d # NULL
    BY NullApart DEF DataSound
  <2> QED BY <1>2, <1>4, <2>1
<1>7. SameCounts(s.cn, newc)
  BY <1>2, <1>4 DEF SameCounts
<1> QED BY <1>2, <1>4, <1>5, <1>6, <1>7 DEF SameCounts, CountAdded

(***************************************************************************)
(* Sound summaries.                                                        *)
(***************************************************************************)
(* The map has exactly the data nodes, each under its own key.             *)
MapSound(mp, dn) ==
  /\ DOMAIN mp \subseteq Keys
  /\ \A k \in DOMAIN mp : mp[k] \in DOMAIN dn /\ dn[mp[k]].ID = k
  /\ \A d \in DOMAIN dn : dn[d].ID \in DOMAIN mp /\ mp[dn[d].ID] = d

ListsOK(s) ==
  /\ IsSummary(s)
  /\ CountsSound(s.cn) /\ DataSound(s.dn, s.cn, DOMAIN s.dn)
  /\ Bare(s.cn) = {min}
  /\ MapSound(s.mp, s.dn)

Sound(s) == ListsOK(s) /\ Cardinality(DOMAIN s.dn) <= SIZE

(***************************************************************************)
(* AddKey, after which there may be a key too many.                        *)
(***************************************************************************)
KeyAdded(s, k, c, t) ==
  /\ ListsOK(t)
  /\ t.mp[k] \notin DOMAIN s.dn /\ DOMAIN t.dn = DOMAIN s.dn \cup {t.mp[k]}
  /\ DOMAIN t.mp = DOMAIN s.mp \cup {k} /\ \A j \in DOMAIN s.mp : t.mp[j] = s.mp[j]
  /\ DOMAIN s.cn \subseteq DOMAIN t.cn
  /\ SameCounts(s.cn, t.cn) /\ SameData(s.dn, t.dn, DOMAIN s.dn)
  /\ t.cn[c].pData = s.cn[c].pData
  /\ t.cn[t.dn[t.mp[k]].pCount].ID = s.cn[c].ID + 1

LEMMA AddKeySound ==
  ASSUME NEW s, Sound(s), NEW k \in Keys \ DOMAIN s.mp, NEW c \in DOMAIN s.cn,
         NEW t, t = AddKey(s, k, c)
  PROVE  KeyAdded(s, k, c, t)
<1> DEFINE d == NewNode(s.dn)
           e == [ID |-> k, prev |-> NULL, next |-> NULL, pCount |-> NULL]
           f == With(s.dn, d, e)
           a == [s EXCEPT !.dn = f]
           b == Add_Count(a, c, d)
           m == With(s.mp, k, d)
<1>1. /\ s = [cn |-> s.cn, dn |-> s.dn, mp |-> s.mp]
      /\ CountsSound(s.cn) /\ DataSound(s.dn, s.cn, DOMAIN s.dn) /\ Bare(s.cn) = {min}
      /\ MapSound(s.mp, s.dn) /\ Cardinality(DOMAIN s.dn) <= SIZE
  BY DEF Sound, ListsOK, IsSummary
<1>2. SIZE \in Nat /\ Cardinality(DOMAIN s.dn) \in Nat /\ DOMAIN s.dn \subseteq 1 .. SIZE + 2
  BY <1>1, FewNodes, SummaryAssumption DEF DataSound
<1>3. Cardinality(DOMAIN s.dn) <= SIZE + 1
  BY <1>1, <1>2
<1>4. d \in (1 .. SIZE + 2) \ DOMAIN s.dn
  BY <1>2, <1>3, FreshData
<1>5. t = [b EXCEPT !.mp = With(b.mp, k, d)]
  BY DEF AddKey
<1>6. e \in DNode /\ e.ID = k
  BY DEF DNode, Ptr
<1> HIDE DEF d, e
<1>7. /\ DataSound(f, s.cn, DOMAIN s.dn) /\ DOMAIN f = DOMAIN s.dn \cup {d}
      /\ f[d] = e /\ \A x \in DOMAIN s.dn : f[x] = s.dn[x]
  BY <1>1, <1>4, <1>6, NewNodeSound
<1> HIDE DEF f
<1>8. a.cn = s.cn /\ a.dn = f /\ a.mp = s.mp
  BY <1>1
<1> HIDE DEF a
<1>9. NewNode(s.cn) \in (1 .. SIZE + 2) \ DOMAIN s.cn
  BY <1>1, <1>3, FreshCount
<1>10. CountAdded(a, c, DOMAIN s.dn, d, b)
  <2>1. /\ c \in DOMAIN a.cn /\ d \in DOMAIN a.dn \ DOMAIN s.dn
        /\ CountsSound(a.cn) /\ DataSound(a.dn, a.cn, DOMAIN s.dn)
        /\ NewNode(a.cn) \in (1 .. SIZE + 2) \ DOMAIN a.cn
    BY <1>1, <1>4, <1>7, <1>8, <1>9
  <2> QED BY <2>1, AddCountSound
<1> HIDE DEF b
<1>11. /\ IsSummary(b) /\ b.mp = s.mp
       /\ CountsSound(b.cn) /\ DataSound(b.dn, b.cn, DOMAIN s.dn \cup {d})
       /\ DOMAIN s.cn \subseteq DOMAIN b.cn /\ DOMAIN b.dn = DOMAIN f
       /\ SameCounts(s.cn, b.cn) /\ SameData(f, b.dn, DOMAIN f \ {d})
       /\ b.cn[c].pData = s.cn[c].pData
       /\ \A x \in DOMAIN b.cn : b.cn[x].pData = NULL => x \in DOMAIN s.cn /\ s.cn[x].pData = NULL
       /\ b.dn[d].ID = f[d].ID /\ b.dn[d].pCount \in DOMAIN b.cn
       /\ b.cn[b.dn[d].pCount].ID = s.cn[c].ID + 1
  BY <1>8, <1>10 DEF CountAdded
<1>12. t = [b EXCEPT !.mp = m] /\ b = [cn |-> b.cn, dn |-> b.dn, mp |-> b.mp]
  BY <1>5, <1>11 DEF IsSummary
<1> HIDE DEF m
<1>13. t = [cn |-> b.cn, dn |-> b.dn, mp |-> m]
  BY <1>12
<1>14. t.cn = b.cn /\ t.dn = b.dn /\ t.mp = m /\ IsSummary(t)
  BY <1>13 DEF IsSummary
<1>15. /\ DOMAIN m = DOMAIN s.mp \cup {k} /\ m[k] = d
       /\ \A j \in DOMAIN s.mp : m[j] = s.mp[j]
  BY DEF m, With
<1>16. SameData(s.dn, t.dn, DOMAIN s.dn)
  BY <1>4, <1>7, <1>11, <1>14 DEF SameData
<1>17. MapSound(m, b.dn)
  <2>1. \A x \in DOMAIN s.dn : b.dn[x].ID = s.dn[x].ID
    BY <1>14, <1>16 DEF SameData
  <2>2. b.dn[d].ID = k /\ DOMAIN b.dn = DOMAIN s.dn \cup {d}
    BY <1>6, <1>7, <1>11
  <2> QED BY <1>1, <1>15, <2>1, <2>2 DEF MapSound
<1>18. Bare(b.cn) = {min}
  <2>1. min \in DOMAIN s.cn /\ s.cn[min].pData = NULL
    BY <1>1 DEF Bare
  <2>2. b.cn[min].pData = NULL
    <3>1. min \notin {b.dn[x].pCount : x \in DOMAIN s.dn \cup {d}}
      BY <1>11 DEF DataSound
    <3> QED BY <1>11, <2>1, <3>1 DEF DataSound
  <2>3. \A x \in DOMAIN b.cn : b.cn[x].pData = NULL => x = min
    BY <1>1, <1>11 DEF Bare
  <2> QED BY <1>11, <2>1, <2>2, <2>3 DEF Bare
<1>19. ListsOK(t)
  BY <1>7, <1>11, <1>14, <1>17, <1>18 DEF ListsOK
<1> QED BY <1>4, <1>7, <1>11, <1>14, <1>15, <1>16, <1>19 DEF KeyAdded

(***************************************************************************)
(* What a sound summary answers.                                           *)
(***************************************************************************)
LEMMA QueryCounted ==
  ASSUME NEW s, ListsOK(s), NEW k \in DOMAIN s.mp
  PROVE  /\ s.mp[k] \in DOMAIN s.dn /\ s.dn[s.mp[k]].pCount \in DOMAIN s.cn \ {min}
         /\ Query(s, k) = s.cn[s.dn[s.mp[k]].pCount].ID
         /\ Query(s, k) \in Nat \ {0}
<1> DEFINE c == s.dn[s.mp[k]].pCount
<1>1. s.mp[k] \in DOMAIN s.dn /\ c \in DOMAIN s.cn \ {min}
  BY DEF ListsOK, MapSound, DataSound
<1>2. CountsSound(s.cn)
  BY DEF ListsOK
<1> HIDE DEF c
<1>3. /\ s.cn[c].prev \in DOMAIN s.cn /\ s.cn[s.cn[c].prev].next = c /\ c # NULL
      /\ s.cn[s.cn[c].prev].ID < s.cn[c].ID
  BY <1>1, <1>2, NullApart DEF CountsSound, LinkedIn
<1>4. s.cn[s.cn[c].prev].ID \in Nat /\ s.cn[c].ID \in Nat
  BY <1>1, <1>2, <1>3 DEF CountsSound, CNode
<1>5. s.cn[c].ID \in Nat \ {0}
  BY <1>3, <1>4
<1> QED BY <1>1, <1>5 DEF Query, c

LowOf(s)    == s.cn[s.cn[min].next].ID
FirstOf(s)  == s.cn[s.cn[min].next].pData
LowestOf(s) == s.dn[FirstOf(s)].ID

LEMMA LowestCounted ==
  ASSUME NEW s, ListsOK(s), DOMAIN s.mp # {}
  PROVE  /\ s.cn[min].next \in DOMAIN s.cn \ {min}
         /\ FirstOf(s) \in DOMAIN s.dn /\ s.dn[FirstOf(s)].pCount = s.cn[min].next
         /\ LowestOf(s) \in DOMAIN s.mp /\ s.mp[LowestOf(s)] = FirstOf(s)
         /\ Query(s, LowestOf(s)) = LowOf(s) /\ LowOf(s) \in Nat \ {0}
         /\ \A k \in DOMAIN s.mp : LowOf(s) <= Query(s, k)
<1>1. CountsSound(s.cn)
  BY DEF ListsOK
<1>2. PICK j \in DOMAIN s.mp : TRUE
  OBVIOUS
<1>3. s.cn[min].next \in DOMAIN s.cn \ {min}
  BY <1>1, <1>2, QueryCounted, LowestNext
<1>4. \A k \in DOMAIN s.mp : LowOf(s) <= Query(s, k)
  BY <1>1, QueryCounted, LowestNext DEF LowOf
<1>5. FirstOf(s) \in DOMAIN s.dn /\ s.dn[FirstOf(s)].pCount = s.cn[min].next
  BY <1>3 DEF ListsOK, Bare, DataSound, FirstOf
<1>6. LowestOf(s) \in DOMAIN s.mp /\ s.mp[LowestOf(s)] = FirstOf(s)
  BY <1>5 DEF ListsOK, MapSound, LowestOf
<1>7. Query(s, LowestOf(s)) = LowOf(s)
  BY <1>5, <1>6, QueryCounted DEF LowOf
<1>8. LowOf(s) \in Nat \ {0}
  BY <1>6, <1>7, QueryCounted
<1> QED BY <1>3, <1>4, <1>5, <1>6, <1>7, <1>8

LEMMA MapSize ==
  ASSUME NEW s, ListsOK(s)
  PROVE  /\ IsFiniteSet(DOMAIN s.mp) /\ Cardinality(DOMAIN s.mp) = Cardinality(DOMAIN s.dn)
         /\ Cardinality(DOMAIN s.dn) \in Nat
<1> DEFINE M == DOMAIN s.mp
           D == DOMAIN s.dn
           g == [d \in D |-> s.dn[d].ID]
<1>1. IsFiniteSet(D) /\ Cardinality(D) \in Nat
  BY FewNodes DEF ListsOK, DataSound
<1>2. /\ \A d \in D : s.dn[d].ID \in M /\ s.mp[s.dn[d].ID] = d
      /\ \A k \in M : s.mp[k] \in D /\ s.dn[s.mp[k]].ID = k
  BY DEF ListsOK, MapSound
<1>3. g \in [D -> M] /\ (\A a, b \in D : g[a] = g[b] => a = b) /\ \A k \in M : \E d \in D : g[d] = k
  BY <1>2
<1>4. g \in Bijection(D, M)
  BY <1>3 DEF Bijection, Injection, Surjection, IsInjective
<1>5. ExistsBijection(D, M)
  BY <1>4 DEF ExistsBijection
<1> QED BY <1>1, <1>5, FS_Bijection

(***************************************************************************)
(* The operations on a sound summary.                                      *)
(***************************************************************************)
Keeps(s, t, J) == \A j \in J : Query(t, j) = Query(s, j)

Entered(s, k, t) ==
  DOMAIN t.mp = DOMAIN s.mp \cup {k} /\ Query(t, k) = 1 /\ Keeps(s, t, DOMAIN s.mp)
Grown(s, k, t) ==
  /\ DOMAIN t.mp = DOMAIN s.mp /\ Query(t, k) = Query(s, k) + 1
  /\ Keeps(s, t, DOMAIN s.mp \ {k})
Replaced(s, k, v, t) ==
  /\ DOMAIN t.mp = (DOMAIN s.mp \cup {k}) \ {v} /\ Query(t, k) = Query(s, v) + 1
  /\ Keeps(s, t, DOMAIN s.mp \ {v})

LEMMA AddKeyKeeps ==
  ASSUME NEW s, Sound(s), NEW k, NEW c, NEW t, KeyAdded(s, k, c, t)
  PROVE  Keeps(s, t, DOMAIN s.mp)
<1> SUFFICES ASSUME NEW j \in DOMAIN s.mp PROVE Query(t, j) = Query(s, j)
  BY DEF Keeps
<1>1. /\ j \in DOMAIN t.mp /\ t.mp[j] = s.mp[j]
      /\ SameCounts(s.cn, t.cn) /\ SameData(s.dn, t.dn, DOMAIN s.dn)
  BY DEF KeyAdded
<1>2. s.mp[j] \in DOMAIN s.dn /\ s.dn[s.mp[j]].pCount \in DOMAIN s.cn
  BY QueryCounted DEF Sound
<1>3. t.dn[t.mp[j]].pCount = s.dn[s.mp[j]].pCount
  BY <1>1, <1>2 DEF SameData
<1>4. t.cn[s.dn[s.mp[j]].pCount].ID = s.cn[s.dn[s.mp[j]].pCount].ID
  BY <1>1, <1>2 DEF SameCounts
<1> QED BY <1>1, <1>3, <1>4 DEF Query

LEMMA NewDataSound ==
  ASSUME NEW s, Sound(s), NEW k \in Keys \ DOMAIN s.mp, Cardinality(DOMAIN s.mp) < SIZE,
         NEW t, t = New_Data(s, k)
  PROVE  Sound(t) /\ Entered(s, k, t)
<1>0. SIZE \in Nat
  BY SummaryAssumption
<1>1. min \in DOMAIN s.cn /\ s.cn[min].ID = 0
  BY DEF Sound, ListsOK, CountsSound
<1>2. KeyAdded(s, k, min, t)
  BY <1>1, AddKeySound DEF New_Data
<1>3. Keeps(s, t, DOMAIN s.mp)
  BY <1>2, AddKeyKeeps
<1>4. DOMAIN t.mp = DOMAIN s.mp \cup {k} /\ ListsOK(t) /\ Query(t, k) = 1
  BY <1>1, <1>2 DEF KeyAdded, Query
<1>5. Cardinality(DOMAIN t.dn) <= SIZE
  <2>1. IsFiniteSet(DOMAIN s.mp) /\ Cardinality(DOMAIN s.mp) \in Nat
    BY MapSize DEF Sound
  <2>2. Cardinality(DOMAIN t.mp) = Cardinality(DOMAIN s.mp) + 1
    BY <1>4, <2>1, FS_AddElement
  <2>3. Cardinality(DOMAIN t.mp) = Cardinality(DOMAIN t.dn)
    BY <1>4, MapSize
  <2> QED BY <1>0, <2>1, <2>2, <2>3
<1> QED BY <1>3, <1>4, <1>5 DEF Sound, Entered

LEMMA AddDataSound ==
  ASSUME NEW s, Sound(s), NEW k \in DOMAIN s.mp, NEW t, t = Add_Data(s, k)
  PROVE  Sound(t) /\ Grown(s, k, t)
<1> DEFINE d == s.mp[k]
           c == s.dn[d].pCount
           first == s.cn[c].pData = d
           D == DOMAIN s.dn
           tc == TakenCounts(s.cn, s.dn, d)
           td == Unlink(s.dn, d)
           a == [cn |-> tc, dn |-> td, mp |-> s.mp]
           b == Add_Count(a, c, d)
           gone == first /\ s.dn[d].next = NULL
<1>1. /\ CountsSound(s.cn) /\ DataSound(s.dn, s.cn, D) /\ Bare(s.cn) = {min}
      /\ MapSound(s.mp, s.dn) /\ Cardinality(D) <= SIZE
  BY DEF Sound, ListsOK
<1>2. /\ d \in D /\ c \in DOMAIN s.cn \ {min} /\ Query(s, k) = s.cn[c].ID
      /\ \A j \in DOMAIN s.mp : s.mp[j] \in D /\ (s.mp[j] = d => j = k)
  <2>1. /\ d \in D /\ c \in DOMAIN s.cn \ {min} /\ Query(s, k) = s.cn[c].ID
    BY QueryCounted DEF Sound
  <2> QED BY <1>1, <2>1 DEF MapSound
<1>3. t = IF gone THEN [b EXCEPT !.cn = Drop(b.cn, c)] ELSE b
  BY DEF Add_Data, TakenCounts
<1>4. c = s.dn[d].pCount /\ (gone <=> s.cn[c].pData = d /\ s.dn[d].next = NULL)
  OBVIOUS
<1> HIDE DEF d, c, gone, first
<1>5. Taken(s.cn, s.dn, D, d, tc, td)
  BY <1>1, <1>2, TakeSound
<1> HIDE DEF tc, td
<1>6. a.cn = tc /\ a.dn = td /\ a.mp = s.mp
  OBVIOUS
<1> HIDE DEF a
<1>7. /\ CountsSound(tc) /\ DataSound(td, tc, D \ {d})
      /\ DOMAIN tc = DOMAIN s.cn /\ DOMAIN td = D
      /\ SameCounts(s.cn, tc)
      /\ \A x \in DOMAIN s.cn \ {c} : tc[x].pData = s.cn[x].pData
      /\ tc[c].pData = NULL <=> gone
      /\ SameData(s.dn, td, D)
  BY <1>4, <1>5 DEF Taken
<1>8. NewNode(tc) \in (1 .. SIZE + 2) \ DOMAIN tc
  <2>1. SIZE \in Nat /\ Cardinality(D) \in Nat
    BY <1>1, FewNodes, SummaryAssumption DEF DataSound
  <2>2. Cardinality(D) <= SIZE + 1
    BY <1>1, <2>1
  <2>3. Bare(s.cn) \subseteq {min}
    BY <1>1
  <2> QED BY <1>1, <1>7, <2>2, <2>3, FreshCount
<1>9. CountAdded(a, c, D \ {d}, d, b)
  <2>1. /\ c \in DOMAIN a.cn /\ d \in DOMAIN a.dn \ (D \ {d})
        /\ CountsSound(a.cn) /\ DataSound(a.dn, a.cn, D \ {d})
        /\ NewNode(a.cn) \in (1 .. SIZE + 2) \ DOMAIN a.cn
    BY <1>2, <1>6, <1>7, <1>8
  <2> QED BY <2>1, AddCountSound
<1> HIDE DEF b
<1>10. /\ IsSummary(b) /\ b.mp = s.mp
       /\ CountsSound(b.cn) /\ DataSound(b.dn, b.cn, D)
       /\ DOMAIN s.cn \subseteq DOMAIN b.cn /\ DOMAIN b.dn = D
       /\ SameCounts(s.cn, b.cn) /\ SameData(s.dn, b.dn, D \ {d})
       /\ b.cn[c].pData = tc[c].pData
       /\ \A x \in DOMAIN b.cn : b.cn[x].pData = NULL => x \in DOMAIN s.cn /\ tc[x].pData = NULL
       /\ b.dn[d].ID = s.dn[d].ID /\ b.dn[d].pCount \in DOMAIN b.cn
       /\ b.cn[b.dn[d].pCount].ID = s.cn[c].ID + 1
  <2>1. (D \ {d}) \cup {d} = D
    BY <1>2
  <2>2. /\ IsSummary(b) /\ b.mp = s.mp
        /\ CountsSound(b.cn) /\ DataSound(b.dn, b.cn, D)
        /\ DOMAIN tc \subseteq DOMAIN b.cn /\ DOMAIN b.dn = DOMAIN td
        /\ SameCounts(tc, b.cn) /\ SameData(td, b.dn, D \ {d})
        /\ b.cn[c].pData = tc[c].pData
        /\ \A x \in DOMAIN b.cn : b.cn[x].pData = NULL => x \in DOMAIN tc /\ tc[x].pData = NULL
        /\ b.dn[d].ID = td[d].ID /\ b.dn[d].pCount \in DOMAIN b.cn
        /\ b.cn[b.dn[d].pCount].ID = tc[c].ID + 1
    BY <1>6, <1>7, <1>9, <2>1 DEF CountAdded
  <2>3. SameCounts(s.cn, b.cn) /\ tc[c].ID = s.cn[c].ID
    BY <1>2, <1>7, <2>2 DEF SameCounts
  <2>4. SameData(s.dn, b.dn, D \ {d}) /\ td[d].ID = s.dn[d].ID
    BY <1>2, <1>7, <2>2 DEF SameData
  <2> QED BY <1>7, <2>2, <2>3, <2>4
<1>11. b.cn[min].pData = NULL /\ min \in DOMAIN b.cn
  <2>1. \A x \in D : b.dn[x].pCount # min
    BY <1>10 DEF DataSound
  <2> QED BY <1>10, <2>1 DEF DataSound, CountsSound
<1>12. \A x \in DOMAIN b.cn : b.cn[x].pData = NULL => x = min \/ (x = c /\ gone)
  <2>1. \A x \in DOMAIN s.cn : s.cn[x].pData = NULL => x = min
    BY <1>1 DEF Bare
  <2> QED BY <1>2, <1>7, <1>10, <2>1
<1>13. MapSound(s.mp, b.dn)
  <2>1. \A x \in D : b.dn[x].ID = s.dn[x].ID
    BY <1>10 DEF SameData
  <2> QED BY <1>1, <1>10, <2>1 DEF MapSound
<1>14. /\ ListsOK(t) /\ DOMAIN t.dn = D /\ t.mp = s.mp /\ t.dn = b.dn
       /\ \A x \in D : t.cn[b.dn[x].pCount].ID = b.cn[b.dn[x].pCount].ID
  <2>1. CASE ~ gone
    <3>1. t = b
      BY <1>3, <2>1
    <3>2. Bare(b.cn) = {min}
      BY <1>11, <1>12, <2>1 DEF Bare
    <3> QED BY <1>10, <1>13, <3>1, <3>2 DEF ListsOK
  <2>2. CASE gone
    <3> DEFINE e == Drop(b.cn, c)
    <3>1. t = [b EXCEPT !.cn = e]
      BY <1>3, <2>2
    <3>2. b.cn[c].pData = NULL /\ c \in DOMAIN b.cn \ {min}
      BY <1>2, <1>7, <1>10, <2>2
    <3>3. Dropped(b.cn, b.dn, D, c, e)
      BY <1>10, <3>2, DropSound
    <3> HIDE DEF e
    <3>4. /\ CountsSound(e) /\ DataSound(b.dn, e, D)
          /\ DOMAIN e = DOMAIN b.cn \ {c} /\ SameCounts(e, b.cn)
          /\ \A x \in DOMAIN e : e[x].pData = b.cn[x].pData
      BY <3>3 DEF Dropped
    <3>5. t = [cn |-> e, dn |-> b.dn, mp |-> b.mp]
      BY <1>10, <3>1 DEF IsSummary
    <3>6. t.cn = e /\ t.dn = b.dn /\ t.mp = s.mp /\ IsSummary(t)
      BY <1>10, <3>5 DEF IsSummary
    <3>7. Bare(e) = {min}
      BY <1>11, <1>12, <3>2, <3>4 DEF Bare
    <3>8. ASSUME NEW x \in D PROVE e[b.dn[x].pCount].ID = b.cn[b.dn[x].pCount].ID
      <4>1. b.dn[x].pCount \in DOMAIN e
        BY <3>4 DEF DataSound
      <4> QED BY <3>4, <4>1 DEF SameCounts
    <3> QED BY <1>10, <1>13, <3>4, <3>6, <3>7, <3>8 DEF ListsOK
  <2> QED BY <2>1, <2>2
<1>15. Query(t, k) = Query(s, k) + 1
  BY <1>2, <1>10, <1>14 DEF Query, d
<1>16. Keeps(s, t, DOMAIN s.mp \ {k})
  <2> SUFFICES ASSUME NEW j \in DOMAIN s.mp, j # k PROVE Query(t, j) = Query(s, j)
    BY DEF Keeps
  <2>1. s.mp[j] \in D \ {d}
    BY <1>2
  <2>2. b.dn[s.mp[j]].pCount = s.dn[s.mp[j]].pCount /\ s.dn[s.mp[j]].pCount \in DOMAIN s.cn
    BY <1>1, <1>10, <2>1 DEF SameData, DataSound
  <2>3. b.cn[s.dn[s.mp[j]].pCount].ID = s.cn[s.dn[s.mp[j]].pCount].ID
    BY <1>10, <2>2 DEF SameCounts
  <2> QED BY <1>14, <2>1, <2>2, <2>3 DEF Query
<1> QED BY <1>1, <1>14, <1>15, <1>16 DEF Sound, Grown

LEMMA ReplaceSound ==
  ASSUME NEW s, Sound(s), DOMAIN s.mp # {}, NEW k \in Keys \ DOMAIN s.mp,
         NEW t, t = SS_Replace(s, k)
  PROVE  Sound(t) /\ Replaced(s, k, LowestOf(s), t)
<1> DEFINE c == s.cn[min].next
           v == FirstOf(s)
           w == LowestOf(s)
           a == AddKey(s, k, c)
           D == DOMAIN a.dn
           last == a.dn[v].next = NULL
           tc == TakenCounts(a.cn, a.dn, v)
           td == Unlink(a.dn, v)
           e == Without(td, v)
           g == IF last THEN Drop(tc, c) ELSE tc
           m == Without(a.mp, w)
<1>1. /\ ListsOK(s) /\ Cardinality(DOMAIN s.dn) <= SIZE /\ MapSound(s.mp, s.dn)
      /\ IsFiniteSet(DOMAIN s.dn) /\ Cardinality(DOMAIN s.dn) \in Nat
  BY FewNodes DEF Sound, ListsOK, DataSound
<1>2. /\ c \in DOMAIN s.cn \ {min} /\ v \in DOMAIN s.dn /\ s.dn[v].pCount = c /\ s.dn[v].ID = w
      /\ w \in DOMAIN s.mp /\ s.mp[w] = v /\ Query(s, w) = s.cn[c].ID /\ s.cn[c].pData = v
  BY <1>1, LowestCounted DEF LowestOf, LowOf, FirstOf
<1>3. KeyAdded(s, k, c, a)
  BY <1>2, AddKeySound
<1>4. Keeps(s, a, DOMAIN s.mp)
  BY <1>3, AddKeyKeeps
<1>5. /\ ListsOK(a) /\ a.mp[k] \notin DOMAIN s.dn /\ DOMAIN a.dn = DOMAIN s.dn \cup {a.mp[k]}
      /\ DOMAIN a.mp = DOMAIN s.mp \cup {k} /\ a.mp[w] = v
      /\ a.cn[c].pData = v /\ a.dn[v].pCount = c /\ a.dn[v].ID = w /\ v \in D
      /\ c \in DOMAIN a.cn /\ a.cn[a.dn[a.mp[k]].pCount].ID = s.cn[c].ID + 1
  BY <1>2, <1>3 DEF KeyAdded, SameData
<1>6. t = [cn |-> g, dn |-> e, mp |-> m]
  <2>1. t = [cn |-> IF last THEN Drop([a.cn EXCEPT ![c].pData = a.dn[v].next], c)
                    ELSE [a.cn EXCEPT ![c].pData = a.dn[v].next],
             dn |-> Without(Unlink(a.dn, v), v),
             mp |-> Without(a.mp, w)]
    BY <1>5 DEF SS_Replace
  <2>2. tc = [a.cn EXCEPT ![c].pData = a.dn[v].next]
    BY <1>5 DEF TakenCounts
  <2> QED BY <2>1, <2>2
<1> HIDE DEF a, c, v, w
<1>7. /\ CountsSound(a.cn) /\ DataSound(a.dn, a.cn, D) /\ Bare(a.cn) = {min} /\ MapSound(a.mp, a.dn)
  BY <1>5 DEF ListsOK
<1>8. Taken(a.cn, a.dn, D, v, tc, td)
  BY <1>5, <1>7, TakeSound
<1>9. last <=> a.dn[v].next = NULL
  OBVIOUS
<1>10. g = IF last THEN Drop(tc, c) ELSE tc
  OBVIOUS
<1> HIDE DEF tc, td, last, g
<1>11. /\ CountsSound(tc) /\ DataSound(td, tc, D \ {v})
       /\ DOMAIN tc = DOMAIN a.cn /\ DOMAIN td = D
       /\ SameCounts(a.cn, tc)
       /\ \A x \in DOMAIN a.cn \ {c} : tc[x].pData = a.cn[x].pData
       /\ tc[c].pData = NULL <=> last
       /\ SameData(a.dn, td, D)
  BY <1>5, <1>8, <1>9 DEF Taken
<1>24. e = Without(td, v) /\ v \in DOMAIN td \ (D \ {v})
  BY <1>5, <1>11
<1> HIDE DEF e, D
<1>12. /\ DataSound(e, tc, D \ {v}) /\ DOMAIN e = D \ {v} /\ \A x \in DOMAIN e : e[x] = td[x]
  <2>1. NodeGone(tc, td, D \ {v}, v, e)
    BY <1>11, <1>24, OldNodeSound
  <2> QED BY <1>11, <2>1 DEF NodeGone
<1> USE DEF D
<1>13. /\ CountsSound(g) /\ DataSound(e, g, D \ {v}) /\ Bare(g) = {min}
       /\ \A x \in D \ {v} : g[e[x].pCount].ID = tc[e[x].pCount].ID
  <2>1. /\ min \in DOMAIN tc /\ tc[min].pData = NULL
        /\ \A x \in DOMAIN tc : tc[x].pData = NULL => x = min \/ (x = c /\ last)
    BY <1>2, <1>7, <1>11 DEF Bare
  <2>2. CASE ~ last
    <3>1. g = tc
      BY <1>10, <2>2
    <3> QED BY <1>11, <1>12, <2>1, <2>2, <3>1 DEF Bare
  <2>3. CASE last
    <3>1. g = Drop(tc, c) /\ tc[c].pData = NULL /\ c \in DOMAIN tc \ {min}
      BY <1>2, <1>5, <1>10, <1>11, <2>3
    <3>2. Dropped(tc, e, D \ {v}, c, g)
      BY <1>11, <1>12, <3>1, DropSound
    <3>3. /\ CountsSound(g) /\ DataSound(e, g, D \ {v})
          /\ DOMAIN g = DOMAIN tc \ {c} /\ SameCounts(g, tc)
          /\ \A x \in DOMAIN g : g[x].pData = tc[x].pData
      BY <3>2 DEF Dropped
    <3>4. Bare(g) = {min}
      BY <2>1, <3>1, <3>3 DEF Bare
    <3>5. ASSUME NEW x \in D \ {v} PROVE g[e[x].pCount].ID = tc[e[x].pCount].ID
      <4>1. e[x].pCount \in DOMAIN g
        BY <3>3 DEF DataSound
      <4> QED BY <3>3, <4>1 DEF SameCounts
    <3> QED BY <3>3, <3>4, <3>5
  <2> QED BY <2>2, <2>3
<1>14. /\ DOMAIN m = DOMAIN a.mp \ {w} /\ \A j \in DOMAIN m : m[j] = a.mp[j]
  BY DEF Without, Restrict
<1> HIDE DEF m
<1>15. \A x \in D \ {v} : e[x].ID = a.dn[x].ID /\ e[x].pCount = a.dn[x].pCount
  BY <1>11, <1>12 DEF SameData
<1>16. MapSound(m, e)
  <2>1. DOMAIN m \subseteq Keys
    BY <1>7, <1>14 DEF MapSound
  <2>2. ASSUME NEW j \in DOMAIN m PROVE m[j] \in DOMAIN e /\ e[m[j]].ID = j
    <3>1. a.mp[j] \in D /\ a.dn[a.mp[j]].ID = j /\ m[j] = a.mp[j] /\ j # w
      BY <1>7, <1>14 DEF MapSound
    <3>2. a.mp[j] # v
      BY <1>5, <3>1
    <3> QED BY <1>12, <1>15, <3>1, <3>2
  <2>3. ASSUME NEW x \in DOMAIN e PROVE e[x].ID \in DOMAIN m /\ m[e[x].ID] = x
    <3>1. /\ a.dn[x].ID \in DOMAIN a.mp /\ a.mp[a.dn[x].ID] = x /\ x # v
          /\ e[x].ID = a.dn[x].ID
      BY <1>7, <1>12, <1>15 DEF MapSound
    <3>2. a.dn[x].ID # w
      BY <1>5, <3>1
    <3> QED BY <1>14, <3>1, <3>2
  <2> QED BY <2>1, <2>2, <2>3 DEF MapSound
<1>17. t.cn = g /\ t.dn = e /\ t.mp = m /\ IsSummary(t)
  BY <1>6 DEF IsSummary
<1>18. ListsOK(t)
  BY <1>12, <1>13, <1>16, <1>17 DEF ListsOK
<1>19. Cardinality(DOMAIN t.dn) <= SIZE
  <2>1. DOMAIN t.dn = (DOMAIN s.dn \ {v}) \cup {a.mp[k]}
    BY <1>2, <1>5, <1>12, <1>17
  <2>2. /\ IsFiniteSet(DOMAIN s.dn \ {v})
        /\ Cardinality(DOMAIN s.dn \ {v}) = Cardinality(DOMAIN s.dn) - 1
    BY <1>1, <1>2, FS_RemoveElement
  <2>3. Cardinality(DOMAIN t.dn) = Cardinality(DOMAIN s.dn \ {v}) + 1
    <3>1. PICK X, y : X = DOMAIN s.dn \ {v} /\ y = a.mp[k]
      OBVIOUS
    <3>2. IsFiniteSet(X) /\ y \notin X
      BY <1>5, <2>2, <3>1
    <3>3. Cardinality(X \cup {y}) = Cardinality(X) + 1
      BY <3>2, FS_AddElement
    <3> QED BY <2>1, <3>1, <3>3
  <2> QED BY <1>1, <2>2, <2>3
<1>20. ASSUME NEW j \in DOMAIN m PROVE Query(t, j) = Query(a, j)
  <2>1. a.mp[j] \in D \ {v} /\ m[j] = a.mp[j] /\ j \in DOMAIN a.mp
    BY <1>12, <1>14, <1>16 DEF MapSound
  <2>2. t.dn[t.mp[j]].pCount = a.dn[a.mp[j]].pCount /\ a.dn[a.mp[j]].pCount \in DOMAIN a.cn
    BY <1>7, <1>15, <1>17, <2>1 DEF DataSound
  <2>3. t.cn[a.dn[a.mp[j]].pCount].ID = a.cn[a.dn[a.mp[j]].pCount].ID
    BY <1>11, <1>13, <1>15, <1>17, <2>1, <2>2 DEF SameCounts
  <2> QED BY <1>17, <2>1, <2>2, <2>3 DEF Query
<1>21. /\ DOMAIN t.mp = (DOMAIN s.mp \cup {k}) \ {w} /\ k # w
  BY <1>2, <1>5, <1>14, <1>17
<1>22. Query(t, k) = Query(s, w) + 1
  <2>1. Query(a, k) = s.cn[c].ID + 1
    BY <1>5 DEF Query
  <2> QED BY <1>2, <1>17, <1>20, <1>21, <2>1
<1>23. Keeps(s, t, DOMAIN s.mp \ {w})
  BY <1>4, <1>17, <1>20, <1>21 DEF Keeps
<1> QED BY <1>18, <1>19, <1>21, <1>22, <1>23 DEF Sound, Replaced, w

(***************************************************************************)
(* What AllQuery meets on its way along the lists.                         *)
(***************************************************************************)
LEMMA CountsWalked ==
  ASSUME NEW s, ListsOK(s)
  PROVE  Walk(s.cn, min) = DOMAIN s.cn
<1> DEFINE cn == s.cn
           r == [x \in DOMAIN cn |-> cn[x].ID]
<1>1. CountsSound(cn)
  BY DEF ListsOK
<1> HIDE DEF cn
<1>2. r \in [DOMAIN cn -> Nat] /\ NULL \notin DOMAIN cn
  BY <1>1, NullApart DEF CountsSound, CNode
<1>3. \A x \in DOMAIN cn \ {min} : /\ cn[x].prev \in DOMAIN cn /\ cn[cn[x].prev].next = x
                                   /\ r[cn[x].prev] < r[x]
  BY <1>1, <1>2 DEF CountsSound, LinkedIn
<1>4. \A x \in DOMAIN cn : cn[x].next \in DOMAIN cn \cup {NULL}
  BY <1>1 DEF CountsSound, LinkedIn
<1>5. min \in DOMAIN cn
  BY <1>1 DEF CountsSound
<1> HIDE DEF r
<1>6. Chain(cn, DOMAIN cn, min, r)
  BY <1>2, <1>3, <1>4, <1>5 DEF Chain
<1>7. IsFiniteSet(DOMAIN cn)
  <2>1. SIZE + 2 \in Int /\ 0 \in Int
    BY SummaryAssumption
  <2>2. IsFiniteSet(0 .. SIZE + 2)
    BY <2>1, FS_Interval
  <2> QED BY <1>1, <2>2, FS_Subset DEF CountsSound
<1>8. Walk(cn, min) = DOMAIN cn
  BY <1>2, <1>6, <1>7, WalkChain
<1> QED BY <1>8 DEF cn

LEMMA DataWalked ==
  ASSUME NEW s, ListsOK(s), NEW c \in DOMAIN s.cn
  PROVE  DataUnder(s, c) = {d \in DOMAIN s.dn : s.dn[d].pCount = c}
<1> DEFINE dn == s.dn
           h  == s.cn[c].pData
           S  == {d \in DOMAIN dn : dn[d].pCount = c}
<1>1. /\ dn \in [DOMAIN dn -> DNode] /\ LinkedIn(dn, DOMAIN dn)
      /\ \A d \in DOMAIN dn : /\ dn[d].pCount # min
                              /\ dn[d].next # NULL => dn[dn[d].next].pCount = dn[d].pCount
                              /\ dn[d].prev = NULL => s.cn[dn[d].pCount].pData = d
      /\ h # NULL => h \in S /\ dn[h].prev = NULL
      /\ DOMAIN dn \subseteq 1 .. SIZE + 2
      /\ h = NULL => c = min
  BY DEF ListsOK, DataSound, Bare
<1>2. PICK r \in [DOMAIN dn -> Nat] : \A d \in DOMAIN dn : dn[d].next # NULL => r[d] < r[dn[d].next]
  BY DEF ListsOK, DataSound, Numbered
<1>3. IsFiniteSet(DOMAIN dn) /\ NULL \notin DOMAIN dn
  BY <1>1, FewNodes, NullApart
<1>4. DataUnder(s, c) = Walk(dn, h)
  BY DEF DataUnder
<1>9. \A d \in S : dn[d].prev = NULL => h = d
  BY <1>1
<1> HIDE DEF dn, h
<1>5. CASE h = NULL
  <2>1. S = {}
    BY <1>1, <1>5
  <2> QED BY <1>3, <1>4, <1>5, <2>1, WalkNull DEF dn
<1>6. CASE h # NULL
  <2> DEFINE u == [d \in S |-> r[d]]
  <2>1. u \in [S -> Nat] /\ h \in S /\ S \in SUBSET DOMAIN dn /\ NULL \notin S
    BY <1>1, <1>2, <1>3, <1>6
  <2>2. \A d \in S : dn[d].next \in S \cup {NULL}
    BY <1>1 DEF LinkedIn
  <2>3. ASSUME NEW d \in S, d # h
        PROVE  dn[d].prev \in S /\ dn[dn[d].prev].next = d /\ u[dn[d].prev] < u[d]
    <3>1. dn[d].prev # NULL
      BY <1>9, <2>3
    <3>2. dn[d].prev \in DOMAIN dn /\ dn[dn[d].prev].next = d /\ d # NULL
      BY <1>1, <1>3, <3>1 DEF LinkedIn
    <3>3. dn[dn[d].prev].pCount = c
      BY <1>1, <3>2
    <3> QED BY <1>2, <3>2, <3>3
  <2> HIDE DEF u, S
  <2>4. Chain(dn, S, h, u)
    BY <2>1, <2>2, <2>3 DEF Chain
  <2>5. Walk(dn, h) = S
    BY <1>3, <2>1, <2>4, WalkChain
  <2> QED BY <1>4, <2>5 DEF S, dn
<1> QED BY <1>5, <1>6

LEMMA ListedIs ==
  ASSUME NEW s, ListsOK(s)
  PROVE  Listed(s) = {<<s.dn[d].pCount, d>> : d \in DOMAIN s.dn}
<1>1. \A d \in DOMAIN s.dn : s.dn[d].pCount \in DOMAIN s.cn
  BY DEF ListsOK, DataSound
<1>2. Walk(s.cn, min) = DOMAIN s.cn
  BY CountsWalked
<1>3. \A c \in DOMAIN s.cn : DataUnder(s, c) = {d \in DOMAIN s.dn : s.dn[d].pCount = c}
  BY DataWalked
<1>4. ASSUME NEW e \in Listed(s) PROVE \E d \in DOMAIN s.dn : e = <<s.dn[d].pCount, d>>
  <2>1. PICK c \in DOMAIN s.cn, d \in DOMAIN s.dn : e = <<c, d>> /\ d \in DataUnder(s, c)
    BY DEF Listed
  <2> QED BY <1>3, <2>1
<1>5. ASSUME NEW d \in DOMAIN s.dn PROVE <<s.dn[d].pCount, d>> \in Listed(s)
  <2>1. PICK e : e = <<s.dn[d].pCount, d>>
    OBVIOUS
  <2>2. e[1] = s.dn[d].pCount /\ e[2] = d /\ e \in (DOMAIN s.cn) \X (DOMAIN s.dn)
    BY <1>1, <2>1
  <2>3. d \in DataUnder(s, s.dn[d].pCount)
    BY <1>1, <1>3
  <2> QED BY <1>1, <1>2, <2>1, <2>2, <2>3 DEF Listed
<1> QED BY <1>4, <1>5

Answers(s) == [k \in Keys |-> Query(s, k)]

LEMMA AllQueryIs ==
  ASSUME NEW s, ListsOK(s)
  PROVE  AllQuery(s) = Answers(s)
<1> DEFINE L == Listed(s)
           mine(k) == {e \in L : s.dn[e[2]].ID = k}
           a(k) == IF mine(k) = {} THEN 0 ELSE s.cn[(CHOOSE e \in mine(k) : TRUE)[1]].ID
<1>1. AllQuery(s) = [k \in Keys |-> a(k)]
  BY DEF AllQuery
<1>2. L = {<<s.dn[d].pCount, d>> : d \in DOMAIN s.dn}
  BY ListedIs
<1>3. MapSound(s.mp, s.dn)
  BY DEF ListsOK
<1> HIDE DEF L
<1>4. ASSUME NEW k \in Keys PROVE a(k) = Query(s, k)
  <2>1. CASE k \in DOMAIN s.mp
    <3> DEFINE d == s.mp[k]
               e == <<s.dn[d].pCount, d>>
    <3>1. d \in DOMAIN s.dn /\ s.dn[d].ID = k
      BY <1>3, <2>1 DEF MapSound
    <3>2. e \in L /\ e[2] = d /\ e[1] = s.dn[d].pCount
      BY <1>2, <3>1
    <3>3. ASSUME NEW f \in mine(k) PROVE f = e
      <4>1. PICK x \in DOMAIN s.dn : f = <<s.dn[x].pCount, x>> /\ s.dn[f[2]].ID = k
        BY <1>2
      <4>2. s.dn[x].ID = k
        BY <4>1
      <4>3. x = d
        BY <1>3, <4>2 DEF MapSound
      <4> QED BY <4>1, <4>3
    <3>4. mine(k) = {e}
      BY <3>1, <3>2, <3>3
    <3>5. Query(s, k) = s.cn[s.dn[d].pCount].ID
      BY <2>1 DEF Query
    <3> HIDE DEF d, e, mine
    <3>6. mine(k) # {} /\ (CHOOSE f \in mine(k) : TRUE) = e
      BY <3>4
    <3> QED BY <3>2, <3>5, <3>6
  <2>2. CASE k \notin DOMAIN s.mp
    <3>1. ASSUME NEW f \in mine(k) PROVE FALSE
      <4>1. PICK x \in DOMAIN s.dn : f = <<s.dn[x].pCount, x>> /\ s.dn[f[2]].ID = k
        BY <1>2
      <4>2. s.dn[x].ID = k
        BY <4>1
      <4> QED BY <1>3, <2>2, <4>2 DEF MapSound
    <3>2. mine(k) = {}
      BY <3>1
    <3> HIDE DEF mine
    <3> QED BY <2>2, <3>2 DEF Query
  <2> QED BY <2>1, <2>2
<1> HIDE DEF a
<1> QED BY <1>1, <1>4 DEF Answers

(***************************************************************************)
(* The effect of the operations on the answers.                            *)
(***************************************************************************)
LEMMA AddMinSound ==
  ASSUME NEW s, Sound(s), DOMAIN s.mp # {}, NEW t, t = Add_Min(s)
  PROVE  Sound(t) /\ Grown(s, LowestOf(s), t)
<1>1. LowestOf(s) \in DOMAIN s.mp
  BY LowestCounted DEF Sound
<1>2. t = Add_Data(s, LowestOf(s))
  BY DEF Add_Min, LowestOf, FirstOf
<1> QED BY <1>1, <1>2, AddDataSound

LEMMA AnswersType ==
  ASSUME NEW s, ListsOK(s)
  PROVE  /\ Answers(s) \in [Keys -> Nat]
         /\ \A k \in Keys : k \in DOMAIN s.mp <=> Answers(s)[k] > 0
         /\ \A k \in Keys : Answers(s)[k] = Query(s, k)
         /\ DOMAIN s.mp \subseteq Keys
<1>1. DOMAIN s.mp \subseteq Keys
  BY DEF ListsOK, MapSound
<1>2. \A k \in Keys : k \notin DOMAIN s.mp => Query(s, k) = 0
  BY DEF Query
<1>3. \A k \in DOMAIN s.mp : Query(s, k) \in Nat \ {0}
  BY QueryCounted
<1>4. \A k \in Keys : Query(s, k) \in Nat /\ (k \in DOMAIN s.mp <=> Query(s, k) > 0)
  BY <1>2, <1>3
<1> QED BY <1>1, <1>4 DEF Answers

LEMMA GrownAnswers ==
  ASSUME NEW s, ListsOK(s), NEW t, ListsOK(t), NEW k \in DOMAIN s.mp, Grown(s, k, t)
  PROVE  /\ Answers(t) = [Answers(s) EXCEPT ![k] = @ + 1]
         /\ SumFunction(Answers(t)) = SumFunction(Answers(s)) + 1
<1>1. /\ Answers(s) \in [Keys -> Nat] /\ Answers(t) \in [Keys -> Nat] /\ k \in Keys
      /\ \A j \in Keys : Answers(s)[j] = Query(s, j) /\ Answers(t)[j] = Query(t, j)
  BY AnswersType
<1>2. Answers(t)[k] = Answers(s)[k] + 1 /\ \A j \in Keys : j # k => Answers(t)[j] = Answers(s)[j]
  <2>1. \A j \in Keys : j # k => Query(t, j) = Query(s, j)
    BY DEF Grown, Keeps, Query
  <2> QED BY <1>1, <2>1 DEF Grown
<1>3. IsFiniteSet(Keys)
  BY SummaryAssumption
<1>4. PICK f, g : f = Answers(s) /\ g = Answers(t)
  OBVIOUS
<1>5. /\ f \in [Keys -> Nat] /\ g \in [Keys -> Nat] /\ g[k] = f[k] + 1
      /\ \A j \in Keys : j # k => g[j] = f[j]
  BY <1>1, <1>2, <1>4
<1>6. g = [f EXCEPT ![k] = f[k] + 1]
  BY <1>1, <1>5
<1>7. SumFunction(g) = SumFunction(f) + 1
  <2>1. f \in [Keys -> Int] /\ g \in [Keys -> Int] /\ 1 \in Int
    BY <1>5
  <2> QED BY <1>1, <1>3, <1>5, <2>1, FunctionChange
<1> QED BY <1>4, <1>6, <1>7

LEMMA EnteredAnswers ==
  ASSUME NEW s, ListsOK(s), NEW t, ListsOK(t), NEW k \in Keys \ DOMAIN s.mp, Entered(s, k, t)
  PROVE  /\ Answers(s)[k] = 0 /\ Answers(t) = [Answers(s) EXCEPT ![k] = 1]
         /\ SumFunction(Answers(t)) = SumFunction(Answers(s)) + 1
<1>1. /\ Answers(s) \in [Keys -> Nat] /\ Answers(t) \in [Keys -> Nat] /\ k \in Keys
      /\ \A j \in Keys : Answers(s)[j] = Query(s, j) /\ Answers(t)[j] = Query(t, j)
  BY AnswersType
<1>2. /\ Answers(t)[k] = 1 /\ Answers(s)[k] = 0
      /\ \A j \in Keys : j # k => Answers(t)[j] = Answers(s)[j]
  <2>1. \A j \in Keys : j # k => Query(t, j) = Query(s, j)
    BY DEF Entered, Keeps, Query
  <2>2. Query(s, k) = 0
    BY DEF Query
  <2> QED BY <1>1, <2>1, <2>2 DEF Entered
<1>3. IsFiniteSet(Keys)
  BY SummaryAssumption
<1>4. PICK f, g : f = Answers(s) /\ g = Answers(t)
  OBVIOUS
<1>5. /\ f \in [Keys -> Nat] /\ g \in [Keys -> Nat] /\ g[k] = f[k] + 1 /\ g[k] = 1
      /\ \A j \in Keys : j # k => g[j] = f[j]
  BY <1>1, <1>2, <1>4
<1>6. g = [f EXCEPT ![k] = 1]
  BY <1>1, <1>5
<1>7. SumFunction(g) = SumFunction(f) + 1
  <2>1. f \in [Keys -> Int] /\ g \in [Keys -> Int] /\ 1 \in Int
    BY <1>5
  <2> QED BY <1>1, <1>3, <1>5, <2>1, FunctionChange
<1> QED BY <1>2, <1>4, <1>6, <1>7

LEMMA ReplacedAnswers ==
  ASSUME NEW s, ListsOK(s), NEW t, ListsOK(t), NEW k \in Keys \ DOMAIN s.mp, NEW v \in DOMAIN s.mp,
         Replaced(s, k, v, t)
  PROVE  /\ Answers(s)[k] = 0
         /\ Answers(t) = [Answers(s) EXCEPT ![k] = Answers(s)[v] + 1, ![v] = 0]
         /\ SumFunction(Answers(t)) = SumFunction(Answers(s)) + 1
<1>1. /\ Answers(s) \in [Keys -> Nat] /\ Answers(t) \in [Keys -> Nat] /\ k \in Keys /\ v \in Keys /\ k # v
      /\ \A j \in Keys : Answers(s)[j] = Query(s, j) /\ Answers(t)[j] = Query(t, j)
  BY AnswersType
<1>2. /\ Answers(t)[k] = Answers(s)[v] + 1 /\ Answers(s)[k] = 0 /\ Answers(t)[v] = 0
      /\ \A j \in Keys : j # k /\ j # v => Answers(t)[j] = Answers(s)[j]
  <2>1. \A j \in Keys : j # k /\ j # v => Query(t, j) = Query(s, j)
    BY DEF Replaced, Keeps, Query
  <2>2. Query(s, k) = 0 /\ Query(t, v) = 0
    BY DEF Query, Replaced
  <2> QED BY <1>1, <2>1, <2>2 DEF Replaced
<1>3. IsFiniteSet(Keys)
  BY SummaryAssumption
<1>4. PICK f, g : f = Answers(s) /\ g = Answers(t)
  OBVIOUS
<1>5. /\ f \in [Keys -> Nat] /\ g \in [Keys -> Nat] /\ g[k] = f[v] + 1 /\ g[v] = 0 /\ f[k] = 0
      /\ \A j \in Keys : j # k /\ j # v => g[j] = f[j]
  BY <1>1, <1>2, <1>4
<1>6. g = [f EXCEPT ![k] = f[v] + 1, ![v] = 0]
  BY <1>1, <1>5
<1>7. SumFunction(g) = SumFunction(f) + 1
  <2>1. PICK h : h = [f EXCEPT ![v] = 0]
    OBVIOUS
  <2>2. /\ f \in [Keys -> Int] /\ g \in [Keys -> Int] /\ h \in [Keys -> Int]
        /\ - f[v] \in Int /\ f[v] + 1 \in Int
        /\ h[v] = f[v] + (- f[v]) /\ \A j \in Keys : j # v => h[j] = f[j]
        /\ g[k] = h[k] + (f[v] + 1) /\ \A j \in Keys : j # k => g[j] = h[j]
    BY <1>1, <1>5, <2>1
  <2>3. SumFunction(h) = SumFunction(f) + (- f[v])
    BY <1>1, <1>3, <2>2, FunctionChange
  <2>4. SumFunction(g) = SumFunction(h) + (f[v] + 1)
    BY <1>1, <1>3, <2>2, FunctionChange
  <2>5. SumFunction(f) \in Int
    BY <1>3, <2>2, FunctionInt
  <2>6. f[v] \in Int
    BY <1>1, <1>5
  <2> QED BY <2>3, <2>4, <2>5, <2>6
<1> QED BY <1>2, <1>4, <1>6, <1>7

(***************************************************************************)
(* The inductive invariant.                                                *)
(***************************************************************************)
Full(s) == Cardinality(DOMAIN s.mp) >= SIZE

(* How far a count may be above the packets of its key.                    *)
Slack(s) == IF Full(s) THEN LowOf(s) ELSE 0

TypeOK == sketch \in {"SpaceSaving", "USS"} /\ freq \in [Keys -> Nat]

(* Every packet is in one count.                                           *)
Tally == SumFunction(Answers(summary)) = Packets

(* In SpaceSaving a counted key has at least its packets, and a key that   *)
(* is not counted, or was not, has had no more than the lowest count.      *)
Errors ==
  sketch = "SpaceSaving" =>
    \A k \in Keys :
      /\ freq[k] <= Query(summary, k) + (IF k \in DOMAIN summary.mp THEN 0 ELSE Slack(summary))
      /\ Query(summary, k) <= freq[k] + Slack(summary)

Inv == TypeOK /\ Sound(summary) /\ Tally /\ Errors

LEMMA FullCounts ==
  ASSUME NEW s, ListsOK(s), Full(s)
  PROVE  DOMAIN s.mp # {} /\ LowOf(s) \in Nat \ {0}
<1>1. SIZE \in Nat \ {0}
  BY SummaryAssumption
<1>2. DOMAIN s.mp # {}
  BY <1>1, FS_EmptySet DEF Full
<1> QED BY <1>2, LowestCounted

LEMMA SlackType == ASSUME NEW s, ListsOK(s) PROVE Slack(s) \in Nat
BY FullCounts DEF Slack

(* Init.                                                                   *)
LEMMA EmptySound == Sound(EmptySummary) /\ Answers(EmptySummary) = [k \in Keys |-> 0]
<1> DEFINE e == [ID |-> 0, prev |-> NULL, next |-> NULL, pData |-> NULL]
           s == EmptySummary
<1>1. s.cn = [c \in {min} |-> e] /\ s.dn = <<>> /\ s.mp = <<>> /\ IsSummary(s)
  BY DEF EmptySummary, IsSummary
<1>2. e \in CNode /\ e.next = NULL /\ e.prev = NULL /\ e.pData = NULL /\ e.ID = 0
  BY DEF CNode, Ptr
<1> HIDE DEF s, e
<1>3. /\ DOMAIN s.cn = {min} /\ s.cn[min] = e /\ s.cn \in [DOMAIN s.cn -> CNode]
  BY <1>1, <1>2
<1>4. DOMAIN s.dn = {} /\ DOMAIN s.mp = {} /\ s.dn \in [DOMAIN s.dn -> DNode]
  BY <1>1
<1>5. CountsSound(s.cn)
  BY <1>2, <1>3, SummaryAssumption DEF CountsSound, LinkedIn, min
<1>6. Bare(s.cn) = {min}
  BY <1>2, <1>3 DEF Bare
<1>7. DataSound(s.dn, s.cn, DOMAIN s.dn)
  <2>1. Numbered(s.dn, DOMAIN s.dn)
    <3>1. [x \in DOMAIN s.dn |-> 0] \in [DOMAIN s.dn -> Nat]
      OBVIOUS
    <3> QED BY <1>4, <3>1 DEF Numbered
  <2> QED BY <1>2, <1>3, <1>4, <2>1 DEF DataSound, LinkedIn
<1>8. MapSound(s.mp, s.dn)
  BY <1>4 DEF MapSound
<1>9. Cardinality(DOMAIN s.dn) <= SIZE
  BY <1>4, FS_EmptySet, SummaryAssumption
<1>10. Answers(s) = [k \in Keys |-> 0]
  BY <1>4 DEF Answers, Query
<1> QED BY <1>1, <1>5, <1>6, <1>7, <1>8, <1>9, <1>10 DEF Sound, ListsOK, s

LEMMA InitInv == Init => Inv
<1> SUFFICES ASSUME Init PROVE Inv
  OBVIOUS
<1>1. sketch \in {"SpaceSaving", "USS"} /\ summary = EmptySummary /\ freq = [k \in Keys |-> 0]
  BY DEF Init
<1>2. Sound(summary) /\ Answers(summary) = [k \in Keys |-> 0]
  BY <1>1, EmptySound
<1>3. Tally
  BY <1>1, <1>2 DEF Tally, Packets
<1>4. Errors
  <2>1. \A k \in Keys : Query(summary, k) = 0 /\ freq[k] = 0
    BY <1>1, <1>2 DEF Answers
  <2>2. Slack(summary) \in Nat
    BY <1>2, SlackType DEF Sound
  <2> QED BY <2>1, <2>2 DEF Errors
<1> QED BY <1>1, <1>2, <1>3, <1>4 DEF Inv, TypeOK

(* What an insert may do to a sound summary.                               *)
Stepped(s, x, t) ==
  \/ x \in DOMAIN s.mp /\ Grown(s, x, t)
  \/ x \notin DOMAIN s.mp /\ ~ Full(s) /\ Entered(s, x, t)
  \/ x \notin DOMAIN s.mp /\ Full(s) /\ Replaced(s, x, LowestOf(s), t)
  \/ x \notin DOMAIN s.mp /\ Full(s) /\ sketch = "USS" /\ Grown(s, LowestOf(s), t)

LEMMA AfterFullSound ==
  ASSUME Sound(summary), Full(summary), NEW x \in Keys \ DOMAIN summary.mp, NEW r \in Draws
  PROVE  /\ Sound(AfterFull(x, r))
         /\ r % (LowOf(summary) + 1) = 0 => Replaced(summary, x, LowestOf(summary), AfterFull(x, r))
         /\ r % (LowOf(summary) + 1) # 0 => Grown(summary, LowestOf(summary), AfterFull(x, r))
<1>1. PICK s, t : s = summary /\ t = AfterFull(x, r)
  OBVIOUS
<1>2. t = IF r % (LowOf(s) + 1) = 0 THEN SS_Replace(s, x) ELSE Add_Min(s)
  BY <1>1 DEF AfterFull, getMin, LowOf
<1>3. Sound(s) /\ DOMAIN s.mp # {} /\ x \in Keys \ DOMAIN s.mp
  BY <1>1, FullCounts DEF Sound
<1>4. CASE r % (LowOf(s) + 1) = 0
  BY <1>1, <1>2, <1>3, <1>4, ReplaceSound
<1>5. CASE r % (LowOf(s) + 1) # 0
  BY <1>1, <1>2, <1>3, <1>5, AddMinSound
<1> QED BY <1>4, <1>5

LEMMA InsertSteps ==
  ASSUME Sound(summary), NEW x \in Keys, Insert(x)
  PROVE  Sound(summary') /\ Stepped(summary, x, summary')
<1>1. isFull <=> Full(summary)
  BY DEF isFull, Full
<1>2. CASE InsertKnown(x)
  <2>1. PICK s, t : s = summary /\ t = summary'
    OBVIOUS
  <2>2. Sound(s) /\ x \in DOMAIN s.mp /\ t = Add_Data(s, x)
    BY <1>2, <2>1 DEF InsertKnown
  <2>3. Sound(t) /\ Grown(s, x, t)
    BY <2>2, AddDataSound
  <2> QED BY <2>1, <2>2, <2>3 DEF Stepped
<1>3. CASE InsertNew(x)
  <2>1. PICK s, t : s = summary /\ t = summary'
    OBVIOUS
  <2>2. Sound(s) /\ x \in Keys \ DOMAIN s.mp /\ t = New_Data(s, x) /\ ~ Full(s)
    BY <1>1, <1>3, <2>1 DEF InsertNew
  <2>3. Cardinality(DOMAIN s.mp) < SIZE
    <3>1. Cardinality(DOMAIN s.mp) \in Nat /\ SIZE \in Nat
      BY <2>2, MapSize, SummaryAssumption DEF Sound
    <3> QED BY <2>2, <3>1 DEF Full
  <2>4. Sound(t) /\ Entered(s, x, t)
    BY <2>2, <2>3, NewDataSound
  <2> QED BY <2>1, <2>2, <2>4 DEF Stepped
<1>4. CASE InsertFull(x) /\ summary' = SS_Replace(summary, x)
  <2>1. PICK s, t : s = summary /\ t = summary'
    OBVIOUS
  <2>2. Sound(s) /\ x \in Keys \ DOMAIN s.mp /\ t = SS_Replace(s, x) /\ Full(s)
    BY <1>1, <1>4, <2>1 DEF InsertFull
  <2>3. Sound(t) /\ Replaced(s, x, LowestOf(s), t)
    BY <2>2, FullCounts, ReplaceSound DEF Sound
  <2> QED BY <2>1, <2>2, <2>3 DEF Stepped
<1>5. ASSUME InsertFull(x), sketch = "USS", NEW r \in Draws, summary' = AfterFull(x, r)
      PROVE  Sound(summary') /\ Stepped(summary, x, summary')
  <2>1. Full(summary) /\ x \notin DOMAIN summary.mp
    BY <1>1, <1>5 DEF InsertFull
  <2> QED BY <1>5, <2>1, AfterFullSound DEF Stepped
<1> QED BY <1>2, <1>3, <1>4, <1>5 DEF Insert, InsertFull

LEMMA SteppedTally ==
  ASSUME NEW s, ListsOK(s), NEW t, ListsOK(t), NEW x \in Keys, Stepped(s, x, t)
  PROVE  SumFunction(Answers(t)) = SumFunction(Answers(s)) + 1
<1>1. CASE Full(s)
  <2>1. LowestOf(s) \in DOMAIN s.mp
    BY <1>1, FullCounts, LowestCounted
  <2> QED BY <1>1, <2>1, GrownAnswers, ReplacedAnswers DEF Stepped
<1>2. CASE ~ Full(s)
  BY <1>2, GrownAnswers, EnteredAnswers DEF Stepped
<1> QED BY <1>1, <1>2

(* The lowest count never goes down.                                       *)
LEMMA SlackGrows ==
  ASSUME NEW s, ListsOK(s), NEW t, ListsOK(t), NEW x \in Keys, Stepped(s, x, t)
  PROVE  Slack(s) <= Slack(t) /\ (Full(s) => Full(t))
<1> DEFINE v == LowestOf(s)
           M == DOMAIN s.mp
<1>1. Slack(s) \in Nat /\ Slack(t) \in Nat
  BY SlackType
<1>2. CASE ~ Full(s)
  BY <1>1, <1>2 DEF Slack
<1>3. CASE Full(s)
  <2>1. /\ v \in M /\ Query(s, v) = LowOf(s) /\ LowOf(s) \in Nat
        /\ \A j \in M : LowOf(s) <= Query(s, j) /\ Query(s, j) \in Nat
    BY <1>3, FullCounts, LowestCounted, QueryCounted
  <2>2. IsFiniteSet(M) /\ Cardinality(M) \in Nat
    BY MapSize
  <2> HIDE DEF v
  <2>3. Full(t)
    <3>1. CASE DOMAIN t.mp = M
      BY <1>3, <3>1 DEF Full
    <3>2. CASE x \notin M /\ DOMAIN t.mp = (M \cup {x}) \ {v}
      <4>1. IsFiniteSet(M \cup {x}) /\ Cardinality(M \cup {x}) = Cardinality(M) + 1
        BY <2>2, <3>2, FS_AddElement
      <4>2. PICK U : U = M \cup {x}
        OBVIOUS
      <4>3. Cardinality(U \ {v}) = Cardinality(U) - 1
        BY <2>1, <4>1, <4>2, FS_RemoveElement
      <4>4. Cardinality(DOMAIN t.mp) = Cardinality(M)
        BY <2>2, <3>2, <4>1, <4>2, <4>3
      <4> QED BY <1>3, <4>4 DEF Full
    <3> QED BY <1>3, <3>1, <3>2 DEF Stepped, Grown, Replaced, v
  <2>4. ASSUME NEW j \in DOMAIN t.mp PROVE LowOf(s) <= Query(t, j)
    <3>1. CASE x \in M /\ Grown(s, x, t)
      BY <2>1, <3>1 DEF Grown, Keeps
    <3>2. CASE Replaced(s, x, v, t)
      BY <2>1, <3>2 DEF Replaced, Keeps
    <3>3. CASE Grown(s, v, t)
      BY <2>1, <3>3 DEF Grown, Keeps
    <3> QED BY <1>3, <3>1, <3>2, <3>3 DEF Stepped, v
  <2>5. LowOf(s) <= LowOf(t)
    BY <2>3, <2>4, FullCounts, LowestCounted
  <2> QED BY <1>3, <2>3, <2>5 DEF Slack
<1> QED BY <1>2, <1>3

LEMMA InsertPackets ==
  ASSUME freq \in [Keys -> Nat], NEW x \in Keys, Insert(x)
  PROVE  Packets' = Packets + 1
<1>1. PICK f, g : f = freq /\ g = freq'
  OBVIOUS
<1>2. /\ IsFiniteSet(Keys) /\ f \in [Keys -> Int] /\ g \in [Keys -> Int] /\ 1 \in Int
      /\ g[x] = f[x] + 1 /\ \A k \in Keys : k # x => g[k] = f[k]
  BY <1>1, SummaryAssumption DEF Insert
<1>3. SumFunction(g) = SumFunction(f) + 1
  BY <1>2, FunctionChange
<1> QED BY <1>1, <1>3 DEF Packets

LEMMA NextInv == Inv /\ [Next]_vars => Inv'
<1> SUFFICES ASSUME Inv, [Next]_vars PROVE Inv'
  OBVIOUS
<1>1. CASE UNCHANGED vars
  BY <1>1 DEF Inv, TypeOK, Tally, Packets, Errors, vars
<1>2. ASSUME NEW x \in Keys, Insert(x) PROVE Inv'
  <2>1. /\ sketch' = sketch /\ freq' = [freq EXCEPT ![x] = @ + 1]
        /\ Sound(summary) /\ freq \in [Keys -> Nat] /\ TypeOK
    BY <1>2 DEF Insert, Inv, TypeOK
  <2>2. Sound(summary') /\ Stepped(summary, x, summary')
    BY <1>2, <2>1, InsertSteps
  <2>3. TypeOK'
    BY <2>1 DEF TypeOK
  <2>4. PICK s, t, f, g : s = summary /\ t = summary' /\ f = freq /\ g = freq'
    OBVIOUS
  <2>5. /\ ListsOK(s) /\ ListsOK(t) /\ Stepped(s, x, t)
        /\ f \in [Keys -> Nat] /\ g \in [Keys -> Nat] /\ g[x] = f[x] + 1
        /\ \A k \in Keys : k # x => g[k] = f[k]
    BY <2>1, <2>2, <2>3, <2>4 DEF Sound, TypeOK
  <2>6. Tally'
    <3>1. SumFunction(Answers(t)) = SumFunction(Answers(s)) + 1
      BY <2>5, SteppedTally
    <3>2. Packets' = Packets + 1
      BY <1>2, <2>1, InsertPackets
    <3> QED BY <2>4, <3>1, <3>2 DEF Inv, Tally
  <2>7. Errors'
    <3> SUFFICES ASSUME sketch = "SpaceSaving", NEW k \in Keys
                 PROVE  /\ g[k] <= Query(t, k) + (IF k \in DOMAIN t.mp THEN 0 ELSE Slack(t))
                        /\ Query(t, k) <= g[k] + Slack(t)
      BY <2>1, <2>4 DEF Errors
    <3>1. /\ f[k] <= Query(s, k) + (IF k \in DOMAIN s.mp THEN 0 ELSE Slack(s))
          /\ Query(s, k) <= f[k] + Slack(s)
      BY <2>4 DEF Inv, Errors
    <3>2. /\ Slack(s) \in Nat /\ Slack(t) \in Nat /\ Slack(s) <= Slack(t)
          /\ Query(s, k) \in Nat /\ Query(t, k) \in Nat
          /\ f[k] \in Nat /\ g[k] = IF k = x THEN f[k] + 1 ELSE f[k]
          /\ k \notin DOMAIN s.mp => Query(s, k) = 0
          /\ k \notin DOMAIN t.mp => Query(t, k) = 0
      <4>1. Slack(s) \in Nat /\ Slack(t) \in Nat /\ Slack(s) <= Slack(t)
        BY <2>5, SlackType, SlackGrows
      <4>2. Query(s, k) \in Nat /\ Query(t, k) \in Nat
        BY <2>5, AnswersType
      <4> QED BY <2>5, <4>1, <4>2 DEF Query
    <3>3. CASE x \in DOMAIN s.mp /\ Grown(s, x, t)
      BY <3>1, <3>2, <3>3 DEF Grown, Keeps
    <3>4. CASE x \notin DOMAIN s.mp /\ ~ Full(s) /\ Entered(s, x, t)
      BY <3>1, <3>2, <3>4 DEF Entered, Keeps, Slack
    <3>5. CASE x \notin DOMAIN s.mp /\ Full(s) /\ Replaced(s, x, LowestOf(s), t)
      <4>1. PICK v : v = LowestOf(s)
        OBVIOUS
      <4>2. v \in DOMAIN s.mp /\ Query(s, v) = Slack(s)
        BY <2>5, <3>5, <4>1, FullCounts, LowestCounted DEF Slack
      <4>3. /\ DOMAIN t.mp = (DOMAIN s.mp \cup {x}) \ {v} /\ Query(t, x) = Slack(s) + 1
            /\ k \in DOMAIN s.mp \ {v} => Query(t, k) = Query(s, k)
        BY <3>5, <4>1, <4>2 DEF Replaced, Keeps
      <4>4. CASE k = x
        BY <3>1, <3>2, <3>5, <4>2, <4>3, <4>4
      <4>5. CASE k = v
        BY <3>1, <3>2, <3>5, <4>2, <4>3, <4>5
      <4>6. CASE k # x /\ k # v
        BY <3>1, <3>2, <4>3, <4>6
      <4> QED BY <4>4, <4>5, <4>6
    <3> QED BY <2>4, <2>5, <3>3, <3>4, <3>5 DEF Stepped
  <2> QED BY <2>2, <2>3, <2>6, <2>7 DEF Inv
<1> QED BY <1>1, <1>2 DEF Next

(* The lists stay sound, every packet is in one count, and the counts of   *)
(* SpaceSaving stay within their bounds: the invariant all results follow  *)
(* from.                                                                   *)
THEOREM SpecInv == Spec => []Inv
BY InitInv, NextInv, PTL DEF Spec

(***************************************************************************)
(* The results.                                                            *)
(***************************************************************************)
LEMMA SoundLists ==
  ASSUME NEW s, Sound(s)
  PROVE  /\ LinkedBothWays(s.cn) /\ LinkedBothWays(s.dn)
         /\ \A c \in DOMAIN s.cn :
              /\ s.cn[c].next # NULL => s.cn[c].ID < s.cn[s.cn[c].next].ID
              /\ c # min => s.cn[c].pData \in DOMAIN s.dn
              /\ s.cn[c].pData # NULL => s.dn[s.cn[c].pData].prev = NULL
         /\ Walk(s.cn, min) = DOMAIN s.cn
         /\ Listed(s) = {<<s.dn[d].pCount, d>> : d \in DOMAIN s.dn}
<1>1. ListsOK(s)
  BY DEF Sound
<1>2. LinkedBothWays(s.cn) /\ LinkedBothWays(s.dn)
  BY <1>1 DEF ListsOK, CountsSound, DataSound, LinkedIn, LinkedBothWays
<1>3. \A c \in DOMAIN s.cn :
        /\ s.cn[c].next # NULL => s.cn[c].ID < s.cn[s.cn[c].next].ID
        /\ c # min => s.cn[c].pData \in DOMAIN s.dn
        /\ s.cn[c].pData # NULL => s.dn[s.cn[c].pData].prev = NULL
  BY <1>1 DEF ListsOK, CountsSound, DataSound, Bare
<1> QED BY <1>1, <1>2, <1>3, CountsWalked, ListedIs

LEMMA SoundMap ==
  ASSUME NEW s, Sound(s)
  PROVE  /\ {s.mp[k] : k \in DOMAIN s.mp} = DOMAIN s.dn
         /\ \A k \in DOMAIN s.mp : s.dn[s.mp[k]].ID = k
         /\ [k \in Keys |-> Query(s, k)] = AllQuery(s)
         /\ Cardinality(DOMAIN s.mp) <= SIZE
<1>1. MapSound(s.mp, s.dn) /\ ListsOK(s) /\ Cardinality(DOMAIN s.dn) <= SIZE
  BY DEF Sound, ListsOK
<1>2. {s.mp[k] : k \in DOMAIN s.mp} = DOMAIN s.dn /\ \A k \in DOMAIN s.mp : s.dn[s.mp[k]].ID = k
  BY <1>1 DEF MapSound
<1>3. [k \in Keys |-> Query(s, k)] = AllQuery(s)
  BY <1>1, AllQueryIs DEF Answers
<1>4. Cardinality(DOMAIN s.mp) = Cardinality(DOMAIN s.dn)
  BY <1>1, MapSize
<1> QED BY <1>1, <1>2, <1>3, <1>4

(* Whatever keys come, go and replace each other (StreamSummary.h:114-173),*)
(* no pointer dangles, both walks meet every node, and the map agrees with *)
(* the lists.                                                              *)
THEOREM ListsStaySound == Spec => []ListsSound
<1>1. Inv => ListsSound
  <2> SUFFICES ASSUME Sound(summary) PROVE ListsSound
    BY DEF Inv
  <2>1. WellLinked
    BY SoundLists DEF WellLinked
  <2>2. MapAgrees
    BY SoundMap DEF MapAgrees
  <2> QED BY <2>1, <2>2 DEF ListsSound
<1> QED BY <1>1, SpecInv, PTL

(* Every packet that was inserted is in exactly one count, also when its   *)
(* key was replaced since.                                                 *)
THEOREM CountsAddUp == Spec => [](SumFunction(AllQuery(summary)) = Packets)
<1>1. Inv => SumFunction(AllQuery(summary)) = Packets
  BY AllQueryIs DEF Inv, Tally, Sound
<1> QED BY <1>1, SpecInv, PTL

LEMMA FunctionAtLeast ==
  ASSUME NEW S, IsFiniteSet(S), NEW f \in [S -> Nat], NEW T \in SUBSET S, NEW m \in Nat,
         \A x \in T : m <= f[x], \A x \in S \ T : f[x] = 0
  PROVE  Cardinality(T) * m <= SumFunction(f)
<1>1. IsFiniteSet(T)
  BY FS_Subset
<1>2. Cardinality(T) * m <= SumFunctionOnSet(f, T)
  BY <1>1, SumAtLeast
<1>3. SumFunctionOnSet(f, S) = SumFunctionOnSet(f, T)
  BY SumSupport
<1> QED BY <1>2, <1>3 DEF SumFunction

(* SpaceSaving's answers are off by no more than the lowest count, and     *)
(* that is at most the packets over the size (SpaceSaving.h:22-39).        *)
THEOREM ErrorsBounded == Spec => []ErrorBounded
<1>1. Inv => ErrorBounded
  <2> SUFFICES ASSUME Inv, sketch = "SpaceSaving", DOMAIN summary.mp # {}, NEW k \in Keys
               PROVE  /\ freq[k] <= MinQuery(k) + (IF k \in DOMAIN summary.mp THEN 0 ELSE 1)
                      /\ MinQuery(k) <= freq[k] + getMin
                      /\ isFull => SIZE * getMin <= Packets
    BY DEF ErrorBounded
  <2>1. PICK s, f : s = summary /\ f = freq
    OBVIOUS
  <2>2. /\ ListsOK(s) /\ DOMAIN s.mp # {} /\ f \in [Keys -> Nat]
        /\ f[k] <= Query(s, k) + (IF k \in DOMAIN s.mp THEN 0 ELSE Slack(s))
        /\ Query(s, k) <= f[k] + Slack(s)
        /\ getMin = LowOf(s) /\ (isFull <=> Full(s))
        /\ MinQuery(k) = IF Query(s, k) > 0 THEN Query(s, k) ELSE LowOf(s) - 1
        /\ SumFunction(Answers(s)) = Packets
    BY <2>1 DEF Inv, Sound, TypeOK, Errors, Tally, getMin, LowOf, isFull, Full, MinQuery
  <2>3. /\ LowOf(s) \in Nat \ {0} /\ Slack(s) <= LowOf(s) /\ Slack(s) \in Nat
        /\ \A j \in DOMAIN s.mp : LowOf(s) <= Query(s, j)
    BY <2>2, LowestCounted, SlackType DEF Slack
  <2>4. /\ Query(s, k) \in Nat /\ f[k] \in Nat /\ (k \in DOMAIN s.mp <=> Query(s, k) > 0)
        /\ Answers(s) \in [Keys -> Nat] /\ DOMAIN s.mp \subseteq Keys
        /\ \A j \in Keys : Answers(s)[j] = Query(s, j) /\ (j \notin DOMAIN s.mp => Answers(s)[j] = 0)
    <3>1. PICK a : a = Answers(s)
      OBVIOUS
    <3>2. /\ a \in [Keys -> Nat] /\ DOMAIN s.mp \subseteq Keys
          /\ \A j \in Keys : j \in DOMAIN s.mp <=> a[j] > 0
          /\ \A j \in Keys : a[j] = Query(s, j)
      BY <2>2, <3>1, AnswersType
    <3>3. \A j \in Keys : a[j] \in Nat
      BY <3>2
    <3>4. \A j \in Keys : j \notin DOMAIN s.mp => a[j] = 0
      BY <3>2, <3>3
    <3> QED BY <2>2, <3>1, <3>2, <3>3, <3>4
  <2>5. /\ freq[k] <= MinQuery(k) + (IF k \in DOMAIN summary.mp THEN 0 ELSE 1)
        /\ MinQuery(k) <= freq[k] + getMin
    <3>1. PICK a, b, c, d \in Nat : a = f[k] /\ b = Query(s, k) /\ c = Slack(s) /\ d = LowOf(s)
      BY <2>3, <2>4
    <3>2. CASE k \in DOMAIN s.mp
      BY <2>1, <2>2, <2>3, <2>4, <3>1, <3>2
    <3>3. CASE k \notin DOMAIN s.mp
      BY <2>1, <2>2, <2>3, <2>4, <3>1, <3>3
    <3> QED BY <3>2, <3>3
  <2>6. ASSUME isFull PROVE SIZE * getMin <= Packets
    <3>1. PICK a, M, m : a = Answers(s) /\ M = DOMAIN s.mp /\ m = LowOf(s)
      OBVIOUS
    <3>2. /\ IsFiniteSet(Keys) /\ a \in [Keys -> Nat] /\ M \in SUBSET Keys /\ m \in Nat
          /\ (\A j \in M : m <= a[j]) /\ \A j \in Keys \ M : a[j] = 0
      BY <2>3, <2>4, <3>1, SummaryAssumption
    <3>3. Cardinality(M) * m <= SumFunction(a)
      BY <3>2, FunctionAtLeast
    <3>4. Cardinality(M) = SIZE
      <4>1. Cardinality(M) \in Nat /\ Cardinality(M) <= SIZE /\ Cardinality(M) >= SIZE /\ SIZE \in Nat
        BY <2>1, <2>2, <2>6, <3>1, MapSize, SummaryAssumption DEF Inv, Sound, Full
      <4> QED BY <4>1
    <3> QED BY <2>2, <3>1, <3>3, <3>4
  <2> QED BY <2>5, <2>6
<1> QED BY <1>1, SpecInv, PTL

(* The answer of key k once a new key x met a full summary with draw r,    *)
(* less its answer before.                                                 *)
LEMMA DrawGrowth ==
  ASSUME Sound(summary), Full(summary), NEW x \in Keys \ DOMAIN summary.mp, NEW k \in Keys,
         NEW in, in = (IF x = k THEN 1 ELSE 0),
         NEW out, out = (IF k = LowestOf(summary) THEN 1 ELSE 0),
         NEW c, c = LowOf(summary) + 1, NEW r \in Draws
  PROVE  AllQuery(AfterFull(x, r))[k] - Query(summary, k)
           = IF r % c = 0 THEN c * in - (c - 1) * out ELSE out
<1>1. PICK s, t, v : s = summary /\ t = AfterFull(x, r) /\ v = LowestOf(s)
  OBVIOUS
<1>2. /\ Sound(t) /\ ListsOK(s) /\ ListsOK(t) /\ x \in Keys \ DOMAIN s.mp
      /\ r % c = 0 => Replaced(s, x, v, t)
      /\ r % c # 0 => Grown(s, v, t)
  BY <1>1, AfterFullSound DEF Sound
<1>3. v \in DOMAIN s.mp /\ Query(s, v) = LowOf(s) /\ LowOf(s) \in Nat \ {0}
  BY <1>1, <1>2, FullCounts, LowestCounted
<1>4. PICK f, g : f = Answers(s) /\ g = Answers(t)
  OBVIOUS
<1>5. /\ f \in [Keys -> Nat] /\ g \in [Keys -> Nat] /\ x # v /\ v \in Keys
      /\ f[k] = Query(s, k) /\ f[v] = LowOf(s) /\ g = AllQuery(t)
  BY <1>2, <1>3, <1>4, AnswersType, AllQueryIs
<1>6. CASE r % c = 0
  <2>1. f[x] = 0 /\ g = [f EXCEPT ![x] = f[v] + 1, ![v] = 0]
    BY <1>2, <1>3, <1>4, <1>6, ReplacedAnswers
  <2>2. g[x] = f[v] + 1 /\ g[v] = 0 /\ (k # x /\ k # v => g[k] = f[k]) /\ f[k] \in Nat
    BY <1>5, <2>1
  <2> HIDE DEF LowOf
  <2>3. PICK m \in Nat : m = LowOf(s) /\ c = m + 1
    BY <1>1, <1>3
  <2>4. CASE k = x
    BY <1>1, <1>5, <1>6, <2>1, <2>2, <2>3, <2>4
  <2>5. CASE k = v
    BY <1>1, <1>5, <1>6, <2>1, <2>2, <2>3, <2>5
  <2>6. CASE k # x /\ k # v
    BY <1>1, <1>5, <1>6, <2>1, <2>2, <2>3, <2>6
  <2> QED BY <2>4, <2>5, <2>6
<1>7. CASE r % c # 0
  <2>1. g = [f EXCEPT ![v] = @ + 1]
    BY <1>2, <1>3, <1>4, <1>7, GrownAnswers
  <2>2. g[v] = f[v] + 1 /\ (k # v => g[k] = f[k]) /\ f[k] \in Nat
    BY <1>5, <2>1
  <2>3. CASE k = v
    BY <1>1, <1>5, <1>7, <2>2, <2>3
  <2>4. CASE k # v
    BY <1>1, <1>5, <1>7, <2>2, <2>4
  <2> QED BY <2>3, <2>4
<1> QED BY <1>6, <1>7

(* The draws that replace the key with the lowest count and those that let *)
(* it grow balance, for every summary the code can be in (USS.h:27-41).    *)
THEOREM StepsUnbiased == Spec => []StepUnbiased
<1>1. Inv => StepUnbiased
  <2> SUFFICES ASSUME Inv, sketch = "USS", isFull, NEW x \in Keys \ DOMAIN summary.mp, NEW k \in Keys
               PROVE  LET bias == Growth(x, k) - (IF x = k THEN RAND ELSE 0)
                      IN  /\ - (getMin + 1) < bias /\ bias < getMin + 1
                          /\ RAND % (getMin + 1) = 0 => bias = 0
    BY DEF StepUnbiased
  <2>1. Sound(summary) /\ Full(summary) /\ getMin = LowOf(summary)
    BY DEF Inv, isFull, Full, getMin, LowOf
  <2>2. PICK in, out, c : /\ in = (IF x = k THEN 1 ELSE 0)
                          /\ out = (IF k = LowestOf(summary) THEN 1 ELSE 0)
                          /\ c = LowOf(summary) + 1
    OBVIOUS
  <2>3. in \in {0, 1} /\ out \in {0, 1}
    BY <2>2
  <2>4. c \in Nat \ {0}
    <3>1. LowOf(summary) \in Nat \ {0}
      BY <2>1, FullCounts DEF Sound
    <3> QED BY <2>2, <3>1
  <2>5. PICK f : f = [r \in Draws |-> AllQuery(AfterFull(x, r))[k] - Query(summary, k)]
    OBVIOUS
  <2>6. ByDraw(f, RAND, c, c * in - (c - 1) * out, out)
    <3> SUFFICES ASSUME NEW r \in 0 .. RAND - 1
                 PROVE  f[r] = IF r % c = 0 THEN c * in - (c - 1) * out ELSE out
      BY DEF ByDraw
    <3>1. r \in Draws
      BY DEF Draws
    <3>2. AllQuery(AfterFull(x, r))[k] - Query(summary, k)
            = IF r % c = 0 THEN c * in - (c - 1) * out ELSE out
      BY <2>1, <2>2, <3>1, DrawGrowth
    <3> QED BY <2>5, <3>1, <3>2
  <2>7. RAND \in Nat
    BY SketchAssumption
  <2>8. PICK u : u = SumFunctionOnSet(f, 0 .. RAND - 1)
    OBVIOUS
  <2>9. /\ - c < u - RAND * in /\ u - RAND * in < c
        /\ RAND % c = 0 => u - RAND * in = 0
    BY <2>3, <2>4, <2>6, <2>7, <2>8, DrawsUnbiased
  <2>10. Growth(x, k) = u
    BY <2>5, <2>8 DEF Growth, SumFunction, Draws
  <2>11. RAND * in = IF x = k THEN RAND ELSE 0
    BY <2>2, <2>7
  <2> QED BY <2>1, <2>2, <2>9, <2>10, <2>11
<1> QED BY <1>1, SpecInv, PTL

(***************************************************************************)
(* The lists implement the counted keys.                                   *)
(***************************************************************************)
LEMMA CountedIs ==
  ASSUME NEW s, ListsOK(s), NEW a, a = Answers(s)
  PROVE  {k \in Keys : a[k] > 0} = DOMAIN s.mp
BY AnswersType

LEMMA LowestIs ==
  ASSUME NEW s, ListsOK(s), Full(s), NEW a, a = Answers(s)
  PROVE  /\ LowestOf(s) \in Keys /\ LowestOf(s) \in {k \in Keys : a[k] > 0}
         /\ \A k \in {j \in Keys : a[j] > 0} : a[LowestOf(s)] <= a[k]
<1>1. {k \in Keys : a[k] > 0} = DOMAIN s.mp /\ DOMAIN s.mp \subseteq Keys
  BY CountedIs, AnswersType
<1>2. LowestOf(s) \in DOMAIN s.mp /\ Query(s, LowestOf(s)) = LowOf(s)
  BY FullCounts, LowestCounted
<1>3. \A k \in DOMAIN s.mp : LowOf(s) <= Query(s, k)
  BY FullCounts, LowestCounted
<1>4. \A k \in Keys : a[k] = Query(s, k)
  BY AnswersType
<1> QED BY <1>1, <1>2, <1>3, <1>4

(* KeyCounts has a Cardinality of its own.                                 *)
LEMMA SameCardinality == ASSUME NEW S PROVE Counts!Cardinality(S) = Cardinality(S)
BY DEF Cardinality, Counts!Cardinality

(* The lists implement KeyCounts: an inserted key that is counted grows,   *)
(* and one that is not enters with count 1, takes the place and the count  *)
(* of a key of the lowest count, plus 1, or lets such a key grow           *)
(* (StreamSummary.h:114-173).                                              *)
THEOREM SketchImplementsCounts == Spec => ImplementsCounts
<1>1. Init => Counts!Init
  <2> SUFFICES ASSUME Init PROVE Counts!Init
    OBVIOUS
  <2>1. summary = EmptySummary /\ freq = [k \in Keys |-> 0]
    BY DEF Init
  <2>2. AllQuery(summary) = [k \in Keys |-> 0]
    BY <2>1, EmptySound, AllQueryIs DEF Sound
  <2> QED BY <2>1, <2>2 DEF Counts!Init
<1>2. Inv /\ [Next]_vars => [Counts!Next]_<<AllQuery(summary), freq>>
  <2> SUFFICES ASSUME Inv, [Next]_vars PROVE [Counts!Next]_<<AllQuery(summary), freq>>
    OBVIOUS
  <2>1. CASE UNCHANGED vars
    BY <2>1 DEF vars
  <2>2. ASSUME NEW x \in Keys, Insert(x) PROVE Counts!Next
    <3>1. PICK s, t, a, b : /\ s = summary /\ t = summary' /\ a = Answers(s) /\ b = Answers(t)
      OBVIOUS
    <3>2. Sound(s) /\ Sound(t) /\ Stepped(s, x, t)
      <4>1. Sound(summary)
        BY DEF Inv
      <4>2. Sound(summary') /\ Stepped(summary, x, summary')
        BY <2>2, <4>1, InsertSteps
      <4> QED BY <3>1, <4>1, <4>2
    <3>3. ListsOK(s) /\ ListsOK(t) /\ Cardinality(DOMAIN s.dn) <= SIZE
      BY <3>2 DEF Sound
    <3>4. AllQuery(summary) = a /\ AllQuery(summary)' = b
      <4>1. AllQuery(s) = a /\ AllQuery(t) = b
        BY <3>1, <3>3, AllQueryIs
      <4> QED BY <3>1, <4>1
    <3>5. freq' = [freq EXCEPT ![x] = @ + 1]
      BY <2>2 DEF Insert
    <3>6. a \in [Keys -> Nat] /\ {k \in Keys : a[k] > 0} = DOMAIN s.mp /\ DOMAIN s.mp \subseteq Keys
      BY <3>1, <3>3, AnswersType, CountedIs
    <3>7. Counts!Counted = DOMAIN s.mp
      BY <3>4, <3>6 DEF Counts!Counted
    <3>8. CASE x \in DOMAIN s.mp /\ Grown(s, x, t)
      <4>1. b = [a EXCEPT ![x] = @ + 1] /\ a[x] > 0
        BY <3>1, <3>3, <3>6, <3>8, GrownAnswers
      <4>2. Counts!Grow(x)
        BY <3>4, <3>7, <3>8, <4>1 DEF Counts!Grow
      <4> QED BY <3>5, <4>2 DEF Counts!Next, Counts!Arrive
    <3>9. CASE x \notin DOMAIN s.mp /\ ~ Full(s) /\ Entered(s, x, t)
      <4>1. a[x] = 0 /\ b = [a EXCEPT ![x] = 1]
        BY <3>1, <3>3, <3>9, EnteredAnswers
      <4>2. ~ Counts!Full
        <5>1. Cardinality(DOMAIN s.mp) \in Nat /\ SIZE \in Nat
          BY <3>3, MapSize, SummaryAssumption
        <5> QED BY <3>7, <3>9, <5>1, SameCardinality DEF Full, Counts!Full
      <4>3. Counts!Enter(x)
        BY <3>4, <3>7, <3>9, <4>1, <4>2 DEF Counts!Enter
      <4> QED BY <3>5, <4>3 DEF Counts!Next, Counts!Arrive
    <3>10. ASSUME Full(s)
           PROVE  /\ LowestOf(s) \in Keys /\ LowestOf(s) \in DOMAIN s.mp
                  /\ Counts!Full
                  /\ Counts!Lowest(LowestOf(s))
      <4>1. /\ LowestOf(s) \in Keys /\ LowestOf(s) \in DOMAIN s.mp /\ a[LowestOf(s)] > 0
            /\ \A k \in DOMAIN s.mp : a[LowestOf(s)] <= a[k]
        BY <3>1, <3>3, <3>6, <3>10, LowestIs
      <4>2. Cardinality(DOMAIN s.mp) = SIZE
        <5>1. Cardinality(DOMAIN s.mp) = Cardinality(DOMAIN s.dn) /\ Cardinality(DOMAIN s.dn) \in Nat
          BY <3>3, MapSize
        <5> QED BY <3>3, <3>10, <5>1, SummaryAssumption DEF Full
      <4>3. Counts!Lowest(LowestOf(s)) /\ Counts!Full
        BY <3>4, <3>7, <4>1, <4>2, SameCardinality DEF Counts!Lowest, Counts!Full
      <4> QED BY <4>1, <4>3
    <3>11. CASE x \notin DOMAIN s.mp /\ Full(s) /\ Replaced(s, x, LowestOf(s), t)
      <4>1. a[x] = 0 /\ b = [a EXCEPT ![x] = a[LowestOf(s)] + 1, ![LowestOf(s)] = 0]
        BY <3>1, <3>3, <3>10, <3>11, ReplacedAnswers
      <4>2. Counts!Replace(x, LowestOf(s))
        BY <3>4, <3>7, <3>10, <3>11, <4>1 DEF Counts!Replace
      <4> QED BY <3>5, <3>10, <3>11, <4>2 DEF Counts!Next, Counts!Arrive
    <3>12. CASE x \notin DOMAIN s.mp /\ Full(s) /\ Grown(s, LowestOf(s), t)
      <4>1. b = [a EXCEPT ![LowestOf(s)] = @ + 1]
        BY <3>1, <3>3, <3>10, <3>12, GrownAnswers
      <4>2. Counts!GrowLowest(x, LowestOf(s))
        BY <3>4, <3>7, <3>10, <3>12, <4>1 DEF Counts!GrowLowest
      <4> QED BY <3>5, <3>10, <3>12, <4>2 DEF Counts!Next, Counts!Arrive
    <3> QED BY <3>2, <3>8, <3>9, <3>11, <3>12 DEF Stepped
  <2> QED BY <2>1, <2>2 DEF Next
<1> QED BY <1>1, <1>2, SpecInv, PTL DEF Spec, ImplementsCounts, Counts!Spec
=============================================================================
