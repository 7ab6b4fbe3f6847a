----------------------------- MODULE HeapSketch -----------------------------
(***************************************************************************)
(* The sketches of CPU/Single that keep a heap of the keys with the        *)
(* highest estimates: CMHeap on a count-min sketch, CountHeap on a count   *)
(* sketch, and UnivMon, which stacks CountHeaps: a key goes into the lowest*)
(* levels, into one more for every 1 at the end of a hash of it.  CMHeap   *)
(* and CountHeap are one level, which every key reaches.                   *)
(***************************************************************************)
EXTENDS SingleAbstract, Heap, Vectors

CONSTANTS
  Classes,      (* of "CMHeap", "CountHeap" and "UnivMon"                  *)
  HASH_NUM,     (* rows of a sketch: 3                                     *)
  LEVEL,        (* levels of UnivMon: 6                                    *)
  LENGTH,       (* counters of a row, at each level                        *)
  SIZE_OF,      (* positions of the heap, at each level                    *)
  INIT_MIN,     (* the literal CMSketch starts from, 0x7fffffff            *)
  Hashings      (* the hash functions considered for each class            *)

Rows   == 0 .. HASH_NUM - 1
Levels == 0 .. LEVEL - 1

(* hash(key, i), delta[hash(key, i + HASH_NUM) & 1] and the number of 1s   *)
(* at the end of hash(key, 199), no more than there are levels to reach.   *)
ASSUME HeapSketchAssumption ==
  /\ Classes \subseteq {"CMHeap", "CountHeap", "UnivMon"}
  /\ HASH_NUM \in Nat /\ HASH_NUM % 2 = 1
  /\ LEVEL \in Nat \ {0}
  /\ LENGTH \in [Levels -> Nat \ {0}] /\ SIZE_OF \in [Levels -> Nat \ {0}]
  /\ INIT_MIN \in Nat
  /\ \A c \in Classes : \A g \in Hashings[c] :
       /\ g.hash \in [Rows -> [Keys -> Nat]]
       /\ g.polar \in [Rows -> [Keys -> {1, -1}]]
       /\ g.ones \in [Keys -> Levels]

VARIABLES
  class,        (* the class of the object                                 *)
  hashing,      (* its hash functions                                      *)
  sketches      (* its levels: counters and a heap                         *)

vars == <<class, hashing, sketches, freq>>

Position(l, i, x) == hashing.hash[i][x] % LENGTH[l]
Delta(i, x)       == hashing.polar[i][x]
Top(x)            == IF class = "UnivMon" THEN hashing.ones[x] ELSE 0

EmptySketch(l) == [i \in Rows |-> [p \in 0 .. LENGTH[l] - 1 |-> 0]]
EmptyLevel(l)  == [sketch |-> EmptySketch(l), heap |-> EmptyHeap(SIZE_OF[l], ZeroKey)]

Init ==
  /\ class \in Classes
  /\ hashing \in Hashings[class]
  /\ sketches = [l \in Levels |-> EmptyLevel(l)]
  /\ freq = [k \in Keys |-> 0]

(* CMSketch, with the counters s of one level.                             *)
CMInsert(s, l, x) == [i \in Rows |-> [s[i] EXCEPT ![Position(l, i, x)] = @ + 1]]
CMQuery(s, l, x)  == Min({INIT_MIN} \cup {s[i][Position(l, i, x)] : i \in Rows})

(* CSketch.                                                                *)
CInsert(s, l, x) ==
  [i \in Rows |-> [s[i] EXCEPT ![Position(l, i, x)] = @ + Delta(i, x)]]
CQuery(s, l, x) ==
  Median([i \in 1 .. HASH_NUM |-> s[i - 1][Position(l, i - 1, x)] * Delta(i - 1, x)])

(* Insert of CMHeap and of CountHeap, at one level.                        *)
SketchInsert(s, l, x) ==
  IF class = "CMHeap" THEN CMInsert(s, l, x) ELSE CInsert(s, l, x)
SketchQuery(s, l, x) ==
  IF class = "CMHeap" THEN CMQuery(s, l, x) ELSE CQuery(s, l, x)
LevelInsert(l, x) ==
  LET s == SketchInsert(sketches[l].sketch, l, x)
  IN  [sketch |-> s, heap |-> HeapInsert(sketches[l].heap, x, SketchQuery(s, l, x))]

Insert(x) ==
  /\ Packets < MaxPackets
  /\ sketches' = [l \in Levels |->
                    IF l <= Top(x) THEN LevelInsert(l, x) ELSE sketches[l]]
  /\ freq' = [freq EXCEPT ![x] = @ + 1]
  /\ UNCHANGED <<class, hashing>>

Next == \E x \in Keys : Insert(x)

Spec == Init /\ [][Next]_vars

(* Query of CMHeap and of CountHeap, at one level.                         *)
LevelQuery(l, x) ==
  LET ret == HeapQuery(sketches[l].heap, x)
  IN  IF ret # 0 THEN ret ELSE SketchQuery(sketches[l].sketch, l, x)

(* From the top level of x down, each level is taken off twice the result  *)
(* so far.                                                                 *)
Query(x) ==
  LET ret[l \in 0 .. Top(x)] ==
        IF l = Top(x) THEN LevelQuery(l, x) ELSE 2 * ret[l + 1] - LevelQuery(l, x)
  IN  ret[0]

(* The keys of the heaps of all levels, with their answers.                *)
AllQuery == [x \in UNION {Shown(sketches[l].heap) : l \in Levels} |-> Query(x)]

(***************************************************************************)
(* Properties.                                                             *)
(***************************************************************************)
(* At every level the map points at every key's own position, whatever     *)
(* swaps and replacements moved it, and AllQuery lists the keys of the     *)
(* maps, none of which has passed beyond its top level.                    *)
MapFollowsHeap ==
  /\ \A l \in Levels :
       /\ PositionsAgree(sketches[l].heap)
       /\ \A x \in DOMAIN sketches[l].heap.mp : l <= Top(x)
  /\ DOMAIN AllQuery = UNION {DOMAIN sketches[l].heap.mp : l \in Levels}

(* How far row i of level l may be off for x: the packets of other keys    *)
(* that it counts in the same place.                                       *)
RowNoise(l, i, x) ==
  SumFunctionOnSet(freq,
                {k \in Keys \ {x} : l <= Top(k) /\ Position(l, i, k) = Position(l, i, x)})
LevelNoise(l, x) ==
  IF class = "CMHeap" THEN Min({RowNoise(l, i, x) : i \in Rows})
  ELSE Median([i \in 1 .. HASH_NUM |-> RowNoise(l, i - 1, x)])
Noise(x) ==
  LET off[l \in 0 .. Top(x)] ==
        IF l = Top(x) THEN LevelNoise(l, x) ELSE 2 * off[l + 1] + LevelNoise(l, x)
  IN  off[0]

(* No answer is further from the packets of its key than the least (CMHeap)*)
(* or the middle row is (CountHeap), nor is CMHeap's ever too low, although*)
(* a key in the heap is answered from a count that the heap keeps on its   *)
(* own, from what it was given when the key came in.  UnivMon's errors     *)
(* double at every level; keys apart from all others are exact.  (CMHeap:  *)
(* until the packets pass the literal that its estimates stop at.)         *)
QueryBounded ==
  \A k \in Keys :
    LET off == Query(k) - freq[k]
    IN  IF class = "CMHeap" THEN Packets <= INIT_MIN => 0 <= off /\ off <= Noise(k)
        ELSE - Noise(k) <= off /\ off <= Noise(k)

(* The array is a heap: no position is below its parent.                   *)
HeapOrder == \A l \in Levels : InOrder(sketches[l].heap, 1 .. SIZE_OF[l] - 1)

(* It is one but for the edge between the root and position 1: Heap_Down   *)
(* restores the order it relies on although Heap_Up leaves that edge.      *)
OrderBelowRoot == \A l \in Levels : InOrder(sketches[l].heap, 2 .. SIZE_OF[l] - 1)
=============================================================================
