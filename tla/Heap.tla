-------------------------------- MODULE Heap --------------------------------
(***************************************************************************)
(* CPU/Struct/Heap.h: the keys with the highest counts, in an array that   *)
(* is meant to be a heap with the lowest count at its root, and a map from *)
(* a key to its position in it.  A heap is a record [heap, mp]; the map is *)
(* a CuckooMap that finds room for every key.                              *)
(***************************************************************************)
EXTENDS Integers, FiniteSets, Functions

(* Every unused position holds the key of all zero bytes.                  *)
EmptyHeap(size, zeroKey) ==
  [heap |-> [p \in 0 .. size - 1 |-> [first |-> 0, second |-> zeroKey]],
   mp   |-> [x \in {} |-> 0]]

SIZE(h)     == Cardinality(DOMAIN h.heap)
HeapSize(h) == Cardinality(DOMAIN h.mp)
isFull(h)   == HeapSize(h) >= SIZE(h)
Left(pos)   == 2 * pos + 1
Right(pos)  == 2 * pos + 2
Parent(pos) == (pos - 1) \div 2

(* Two positions change places, and the map follows.                       *)
SwapForgetful(h, a, b) ==
  [heap |-> [h.heap EXCEPT ![a] = h.heap[b], ![b] = h.heap[a]],
   mp   |-> [h.mp EXCEPT ![h.heap[b].second] = a]]
Swap(h, a, b) ==
  [heap |-> [h.heap EXCEPT ![a] = h.heap[b], ![b] = h.heap[a]],
   mp   |-> [h.mp EXCEPT ![h.heap[b].second] = a, ![h.heap[a].second] = b]]

(* The child that Heap_Down moves up, if any: a lower one than pos, the    *)
(* right one only if it is lower than the left one too.                    *)
LowerThan(h, c, p) == c < HeapSize(h) /\ h.heap[c].first < h.heap[p].first
MovesUpLeft(h, pos, c) == c = Left(pos) /\ LowerThan(h, c, pos)
MovesUp(h, pos, c) ==
  \/ c = Left(pos) /\ LowerThan(h, c, pos) /\ ~ LowerThan(h, Right(pos), c)
  \/ c = Right(pos) /\ LowerThan(h, c, pos) /\ LowerThan(h, c, Left(pos))

(* Heap_Down calls itself where the child came from, and on return its loop*)
(* compares once more: the walk goes down with each swap and, where nothing*)
(* moves up, back to the caller, until the call from pos ends.  It is given*)
(* two turns for each position, which is enough for an array in order below*)
(* its root.                                                               *)
Higher(w) == {c \in {Left(w.at), Right(w.at)} : MovesUp(w.h, w.at, c)}
DownFrom(pos, w) ==
  IF Higher(w) # {}
  THEN LET c == CHOOSE x \in Higher(w) : TRUE IN [h |-> Swap(w.h, w.at, c), at |-> c]
  ELSE IF w.at = pos THEN w ELSE [w EXCEPT !.at = Parent(w.at)]
Heap_Down(h, pos) ==
  LET last == 2 * HeapSize(h)
      walk[n \in 0 .. last] ==
        IF n = 0 THEN [h |-> h, at |-> pos] ELSE DownFrom(pos, walk[n - 1])
  IN  walk[last].h

(* The loop ends at position 1, which it never compares with the root.     *)
UpFrom(w) ==
  IF w.at <= 1 \/ w.h.heap[Parent(w.at)].first <= w.h.heap[w.at].first THEN w
  ELSE [h |-> Swap(w.h, w.at, Parent(w.at)), at |-> Parent(w.at)]
Heap_Up(h, pos) ==
  LET walk[n \in 0 .. pos] ==
        IF n = 0 THEN [h |-> h, at |-> pos] ELSE UpFrom(walk[n - 1])
  IN  walk[pos].h

Add_Data(h, x) ==
  Heap_Down([h EXCEPT !.heap[h.mp[x]].first = @ + 1], h.mp[x])

New_Data(h, x) ==
  LET pos == HeapSize(h)
  IN  Heap_Up([heap |-> [h.heap EXCEPT ![pos] = [first |-> 1, second |-> x]],
               mp   |-> [k \in DOMAIN h.mp \cup {x} |-> IF k = x THEN pos ELSE h.mp[k]]], pos)

(* A key with a higher frequency than the root's takes its place.          *)
Take(h, x, frequency) ==
  LET kept == DOMAIN h.mp \ {h.heap[0].second}
  IN  [heap |-> [h.heap EXCEPT ![0] = [first |-> frequency, second |-> x]],
       mp   |-> [k \in kept \cup {x} |-> IF k = x THEN 0 ELSE h.mp[k]]]
TakeRootFromOne(h, x, frequency) == Heap_Down(Take(h, x, 1), 0)
TakeRoot(h, x, frequency) == Heap_Down(Take(h, x, frequency), 0)

HeapInsert(h, x, frequency) ==
  IF x \in DOMAIN h.mp THEN Add_Data(h, x)
  ELSE IF ~ isFull(h) THEN New_Data(h, x)
  ELSE IF frequency > h.heap[0].first THEN TakeRoot(h, x, frequency)
  ELSE h

HeapQuery(h, x) == IF x \in DOMAIN h.mp THEN h.heap[h.mp[x]].first ELSE 0

(* Heap::AllQuery reads the first positions of the array.                  *)
Shown(h) == {h.heap[p].second : p \in 0 .. HeapSize(h) - 1}

(***************************************************************************)
(* Parts of the properties of the modules that use a heap.                 *)
(***************************************************************************)
(* The map and the array agree: the keys of the map are at the positions it*)
(* gives, which are the first ones.                                        *)
PositionsAgree(h) ==
  /\ \A x \in DOMAIN h.mp : h.heap[h.mp[x]].second = x
  /\ {h.mp[x] : x \in DOMAIN h.mp} = 0 .. HeapSize(h) - 1

(* Of the edges of the tree, given by their lower ends, those in order.    *)
InOrder(h, edges) ==
  \A p \in edges : p < HeapSize(h) => h.heap[Parent(p)].first <= h.heap[p].first
=============================================================================
