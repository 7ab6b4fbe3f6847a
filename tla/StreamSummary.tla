--------------------------- MODULE StreamSummary ---------------------------
(***************************************************************************)
(* CPU/Struct/StreamSummary.h: the keys USS and SpaceSaving count, in      *)
(* lists.  A doubly linked list of count nodes in increasing order, behind *)
(* a sentinel with count 0; under each, a doubly linked list of the data   *)
(* nodes with that count; and a map from a key to its data node.           *)
(*                                                                         *)
(* Nodes are named by numbers.  A deleted node leaves the domain, and its  *)
(* number is given to the next node, as an allocator may do.  The map is a *)
(* CuckooMap that finds room for every key.                                *)
(***************************************************************************)
EXTENDS Integers, FiniteSets, Functions

CONSTANTS
  Keys,         (* the keys                                                *)
  SIZE,         (* keys the summary holds                                  *)
  NULL          (* the null pointer                                        *)

ASSUME SummaryAssumption == IsFiniteSet(Keys) /\ SIZE \in Nat \ {0} /\ NULL \notin Nat

VARIABLE summary  (* [cn: count nodes, dn: data nodes, mp: key -> data node] *)

min == 0

EmptySummary ==
  [cn |-> [c \in {min} |-> [ID |-> 0, prev |-> NULL, next |-> NULL, pData |-> NULL]],
   dn |-> <<>>,
   mp |-> <<>>]

(* Node::Connect and Node::Delete, new and delete, on a set f of nodes.    *)
Connect(f, prev, next) ==
  [x \in DOMAIN f |-> [f[x] EXCEPT !.next = IF x = prev THEN next ELSE @,
                                   !.prev = IF x = next THEN prev ELSE @]]
UnlinkForward(f, x) ==
  IF f[x].prev = NULL THEN f ELSE [f EXCEPT ![f[x].prev].next = f[x].next]
Unlink(f, x) == Connect(f, f[x].prev, f[x].next)
Without(f, x) == Restrict(f, DOMAIN f \ {x})
With(f, x, e) == [y \in DOMAIN f \cup {x} |-> IF y = x THEN e ELSE f[y]]
NewNode(f)   == CHOOSE n \in 1 .. SIZE + 2 : n \notin DOMAIN f

getMin == summary.cn[summary.cn[min].next].ID
isFull == Cardinality(DOMAIN summary.mp) >= SIZE

(* Add_Count: put data node d under the count that follows count node c,   *)
(* which is made if it is not there.                                       *)
FollowedByLoose(cn, c) == cn[c].next # NULL
FollowedBy(cn, c) == cn[c].next # NULL /\ cn[cn[c].next].ID - cn[c].ID <= 1
WithNext(cn, c) ==
  IF FollowedBy(cn, c) THEN cn
  ELSE LET n   == NewNode(cn)
           new == [ID |-> cn[c].ID + 1, prev |-> NULL, next |-> NULL, pData |-> NULL]
       IN  Connect(Connect(With(cn, n, new), n, cn[c].next), c, n)

Add_Count(s, c, d) ==
  LET cn == WithNext(s.cn, c)
      to == cn[c].next
      dn == [s.dn EXCEPT ![d].prev = NULL, ![d].pCount = to]
  IN  [cn |-> [cn EXCEPT ![to].pData = d],
       dn |-> Connect(dn, d, cn[to].pData),
       mp |-> s.mp]

(* A count node that lost its last data node is unlinked and deleted.      *)
Drop(cn, c) == Without(Unlink(cn, c), c)

(* A new data node for k, under the count that follows c.                  *)
AddKey(s, k, c) ==
  LET d    == NewNode(s.dn)
      data == [ID |-> k, prev |-> NULL, next |-> NULL, pCount |-> NULL]
  IN  [Add_Count([s EXCEPT !.dn = With(@, d, data)], c, d)
         EXCEPT !.mp = With(@, k, d)]

New_Data(s, k) == AddKey(s, k, min)

Add_Data(s, k) ==
  LET d     == s.mp[k]
      c     == s.dn[d].pCount
      first == s.cn[c].pData = d
      out   == [cn |-> IF first THEN [s.cn EXCEPT ![c].pData = s.dn[d].next] ELSE s.cn,
                dn |-> Unlink(s.dn, d),
                mp |-> s.mp]
      in    == Add_Count(out, c, d)
  IN  IF first /\ s.dn[d].next = NULL THEN [in EXCEPT !.cn = Drop(@, c)] ELSE in

Add_Min(s) == Add_Data(s, s.dn[s.cn[s.cn[min].next].pData].ID)

(* The first data node of the lowest count gives way to k.                 *)
SS_Replace(s, k) ==
  LET c  == s.cn[min].next
      in == AddKey(s, k, c)
      v  == in.cn[c].pData
      cn == [in.cn EXCEPT ![c].pData = in.dn[v].next]
  IN  [cn |-> IF in.dn[v].next = NULL THEN Drop(cn, c) ELSE cn,
       dn |-> Without(Unlink(in.dn, v), v),
       mp |-> Without(in.mp, in.dn[v].ID)]

(* The nodes a walk along next from x meets.                               *)
After(f, x) == IF x = NULL THEN NULL ELSE f[x].next
Walk(f, x) ==
  LET at[n \in 0 .. Cardinality(DOMAIN f)] ==
        IF n = 0 THEN x ELSE After(f, at[n - 1])
  IN  {at[n] : n \in DOMAIN at} \ {NULL}

(* The data nodes AllQuery meets, each with its count node, and the map it *)
(* returns, with 0 for a key it lacks.                                     *)
DataUnder(s, c) == Walk(s.dn, s.cn[c].pData)
Listed(s) == {e \in (DOMAIN s.cn) \X (DOMAIN s.dn) :
                e[1] \in Walk(s.cn, min) /\ e[2] \in DataUnder(s, e[1])}
AllQuery(s) ==
  LET listed == Listed(s)
  IN  [k \in Keys |->
         LET mine == {e \in listed : s.dn[e[2]].ID = k}
         IN  IF mine = {} THEN 0 ELSE s.cn[(CHOOSE e \in mine : TRUE)[1]].ID]

(* Query, which goes through the map instead of the lists.                 *)
Query(s, k) == IF k \in DOMAIN s.mp THEN s.cn[s.dn[s.mp[k]].pCount].ID ELSE 0

(***************************************************************************)
(* Properties.                                                             *)
(***************************************************************************)
(* A list of live nodes is linked both ways: no pointer of it dangles, and *)
(* each node is the prev of its next.                                      *)
LinkedBothWays(f) ==
  \A x \in DOMAIN f :
    /\ f[x].next # NULL => f[x].next \in DOMAIN f /\ f[f[x].next].prev = x
    /\ f[x].prev # NULL => f[x].prev \in DOMAIN f /\ f[f[x].prev].next = x

(* No pointer of the summary dangles.  The counts are in increasing order  *)
(* from the sentinel on, none but the sentinel's without a key, and the    *)
(* walk from the sentinel meets every count node, and every data node      *)
(* under the count it points back to.                                      *)
WellLinked ==
  /\ LinkedBothWays(summary.cn) /\ LinkedBothWays(summary.dn)
  /\ \A c \in DOMAIN summary.cn :
       /\ summary.cn[c].next # NULL => summary.cn[c].ID < summary.cn[summary.cn[c].next].ID
       /\ c # min => summary.cn[c].pData \in DOMAIN summary.dn
       /\ summary.cn[c].pData # NULL => summary.dn[summary.cn[c].pData].prev = NULL
  /\ Walk(summary.cn, min) = DOMAIN summary.cn
  /\ Listed(summary) = {<<summary.dn[d].pCount, d>> : d \in DOMAIN summary.dn}

(* The map and the lists agree: every key of the map has its own node, and *)
(* Query, which goes through the map, and AllQuery, which goes through the *)
(* lists, give a key the same count.                                       *)
MapAgrees ==
  /\ {summary.mp[k] : k \in DOMAIN summary.mp} = DOMAIN summary.dn
  /\ \A k \in DOMAIN summary.mp : summary.dn[summary.mp[k]].ID = k
  /\ [k \in Keys |-> Query(summary, k)] = AllQuery(summary)
  /\ Cardinality(DOMAIN summary.mp) <= SIZE
=============================================================================
