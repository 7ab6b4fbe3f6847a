# CocoSketch: TLA+ models, checks and proofs

CocoSketch estimates how many packets (or bytes) each *partial key* of a
five-tuple has, from one sketch keyed by the full five-tuple.  The repository
implements it on four platforms (`src/CPU`, `src/OVS`, `src/P4`, `src/FPGA`),
with the algorithms it is compared with on the CPU.  This directory holds TLA+
modules translated from that source, TLC configurations that check them on small
instances, and proofs checked by TLAPS.

    tlc -workers 2 -config RingSafety.cfg MCRingBuffer     # one run
    tlapm RingBufferProofs.tla                             # one proof module

## 1. The system

### Inventory

| Component (source) | State | Operations | What makes it correct |
|---|---|---|---|
| Shared-memory ring (`OVS/ovs-dpif-netdev/dpif-netdev.patch`, `OVS/user_reader/ringbuffer_user.cpp`) | two published indices, each side's private position, cached copy of the other's index, batch count; the slots; all in shared memory | `write_ringbuffer`, `read_ringbuffer`, create, connect | tuples arrive whole, once and in order; no slot read while written; nobody waits for the other forever; a killed reader can be replaced |
| Rings of Open vSwitch (`dpif-netdev.patch`, creation in `dp_netdev_configure_pmd`) | the static `local_index`, each thread's `rb`, names and segments of shared memory | name, unlink, create, zero; threads and processes come and go | no two threads share a ring; no creation empties a ring that is read |
| user_reader (`OVS/user_reader/user_reader.cpp`) | the mapped rings, the current one, `KEEP_RUNNING`, a packet counter | connect, poll loop over the rings, SIGALRM and SIGINT handlers | every packet read is reported once; it stops when told; a full ring never waits for it while it waits for the ring; who is not served, and why |
| OurSoft (`CPU/Multiple/OurSoft.h`, also in `OVS/user_reader`) | rows of (key, count) buckets | `Insert`, `AllQuery` | no key recorded twice; answers add up; subset sums unbiased |
| OurHard (`CPU/Multiple/OurHard.h`) | the same | `Insert`, `AllQuery` (median) | every row tallies all packets; answers are upper bounds; each row unbiased |
| FPGA (`FPGA/CocoSketch.v`) | pipeline registers, two RAMs and their ports | a clock edge; reset | counts right for spaced elements, loss bounded otherwise; ids are saved |
| P4 (`P4/cocoSketch.p4`, `P4/control.py`) | two register arrays, packets between stages; two dumps | the count stage, the id stage; dump of ids, dump of counts | a recorded flow is answered at least its packets |
| StreamSummary (`CPU/Struct/StreamSummary.h`) | two levels of doubly linked lists, a map of keys | insert, increment, replace lowest | lists sound; a bag of counted keys |
| USS, SpaceSaving (`CPU/Multiple/USS.h`, `CPU/Single/SpaceSaving.h`) | a summary | `Insert`, `Query`, `AllQuery` | unbiasedness; error bounds |
| Heap, CMSketch, CMHeap (`CPU/Struct`, `CPU/Single`) | heap array and position map; counters | `Insert`, `Query`, `AllQuery` | positions and array agree; answers between the true count and the sketch's |
| CuckooMap, BitMap (`CPU/Struct`) | slots, bits, `inserted` | `Insert` (with kicks), `Replace`, `Lookup`, `Delete` | is a map |
| Elastic (`CPU/Single/Elastic.h`) | buckets of votes, light counters | `Insert`, `Query` | packets move between the parts, none is lost below the counters' limit |
| CSketch, CountHeap, UnivMon (`CPU/Struct`, `CPU/Single`) | signed counters, a heap for each level | `Insert`, `Query`, `AllQuery` | positions agree at every level; no answer further off than the rows are |
| BenchMark (`CPU/BenchMark.h`) | true and estimated maps | partial-key aggregation, accuracy | aggregation conserves the sum |
| Hash, MMap, utilities | none | pure functions and I/O | - |

### How the parts interact

A PMD thread of Open vSwitch extracts the five-tuple of each TCP packet and calls
`write_ringbuffer` until it succeeds: it spins on a full ring, so the datapath of
that core waits for the reader.  `user_reader` is another process.  It opens
the rings by name, polls them, counts what it reads, and is where a sketch is to
be put.  A name outlives the thread and the process that made it, and creation
takes it over.  There is
no lock and no message: the ring's fields are the only shared state, and they
survive the reader.  On the switch, the control plane's dumps run against the
pipeline; on the FPGA, several elements are in flight at once and may use one
bucket.  The CPU sketches are sequential; USS and SpaceSaving are built on
StreamSummary, CMHeap (and CountHeap, UnivMon) on Heap, and StreamSummary and
Heap keep their keys in a CuckooMap.

### What is hard

The interleaving of two processes over six indices and cached copies of them; a
reader that dies between any two of its updates; who waits for whom when both
sides hold back a batch; threads, processes and names that come and go under a reader
that has mapped what they led to; signals between any two steps of a loop;
read-modify-write in a pipeline seven edges long; dumps
of two arrays that are not one snapshot; widths and literals in hardware
conditions; variables left unassigned; and, in the sequential structures, long
runs of inserts that must keep pointers, position maps and flags consistent.
`PROJECT.json` lists each hazard with its line and the properties aimed at it.

## 2. Modules

| Module | Models | State and actions |
|---|---|---|
| `RingBuffer` | the ring, its writer, its reader, kills of the reader | the fields of `RBMeta` by name; `W*` are the writer's steps, `R*` the reader's; `wpc`, `rpc` say where each is |
| `PacketChannel` | abstract: a bounded FIFO whose receiver may lose the packet in its hand | refined by `RingBuffer` |
| `RingCounts` | a ring as three counts (written and not shown, shown and not read, read and not given back) and `rBatchCount` | operators: the steps of the two calls, each whole call, and what a read cut short leaves (`CutShort`) |
| `BatchedRing` | abstract: the steps the two calls make on those counts, and a reader killed between any two of them | refined by `RingBuffer` |
| `UserReader` | the threads of Open vSwitch, names and segments, and `main` of the reader | `NewRing`, `Open`, `Zero`, `Packet`, `StopThread`, `OvsRestart`, `CreateFails`; `Connect`, `ReadPacket`, `ReadNothing`, `Count`...; `Alarm`, `Interrupt`, `Kill`, `KillInRead` are the signals |
| `CocoTable` | what OurSoft and OurHard share: `MultiAbstract`'s object (`sketch` is its class), table, hash placing, history of inserts | extended by both |
| `OurSoft` | `Insert` of OurSoft | `SoftInsert`; `InsertKnown`, `InsertNew`, `InsertUndefined` are the outcomes of the search; `Answer` is `AllQuery` |
| `OurHard` | `Insert` of OurHard | `HardInsert`: every row is challenged in one step; `AllQuery` takes the median |
| `BenchMark` | `HHMultiBench` over an OurSoft: true counts, estimates for the partial keys, `CompareHH` | extends `OurSoft` with operators |
| `CocoSketch` | an object of either class | extends `BenchMark` and `OurHard`; `Init`, `Next`, `Spec` |
| `FpgaSketch` | the Verilog pipeline | `Clock` is one edge: every register moves at once; `Reset` is `rst_n` |
| `P4Sketch` | the ingress control in one pipe and a query | `CountStage`, `IdStage`, `DumpIDs`, `DumpCounters` |
| `StreamSummary` | the linked lists, pointer by pointer | operators from a heap of nodes to a heap of nodes |
| `KeyCounts` | abstract: at most SIZE keys with counts, and what a packet of each key may do to them: its own count grows; or it enters; or, in a full set, it replaces a key of the lowest count or grows that one | refined by `SummarySketch` |
| `SummarySketch` | USS and SpaceSaving, which differ in what a new key does to a full summary | `InsertKnown`, `InsertNew`, `InsertFull`; `sketch` is the class of the object |
| `SingleAbstract` | what Elastic and the heap sketches share: `SingleAbstract`'s interface, the keys, the history of inserts | extended by both |
| `Heap` | `Heap_Up`, `Heap_Down` and the position map | operators from a heap to a heap |
| `HeapSketch` | CMSketch with CMHeap, CSketch with CountHeap, UnivMon as levels of CountHeaps | `Insert`; `class` is the class of the object; `Query`, `AllQuery` |
| `Vectors` | the median that OurHard and CSketch take | |
| `CuckooMap` | the hash table; one kick is one step | `Insert`, `Kick`, `Replace`, `Delete` |
| `KeyMap` | abstract: a partial function, with inserts that take time | refined by `CuckooMap` |
| `Elastic` | the heavy and light parts | `ElasticInsert`: `Hold`, `Evict`, `Vote` are its outcomes; `ElasticQuery`, `ElasticAllQuery` |
| `SketchTheorems` | lemmas about sums over finite sets, medians and functions defined step by step | no state |
| `RingBufferProofs`, `UserReaderProofs`, `CocoProofs`, `SummaryProofs`, `HardwareProofs` (FpgaSketch and P4Sketch), `CuckooMapProofs`, `SingleProofs` (Elastic and HeapSketch) | theorems | |

Each `MC*` module gives the constants of one module (`MCHardware` of two) small sets of model values and a
symmetry set where keys are interchangeable (never the all-zero key, which
empty buckets show).

Operators whose name says what is wrong with them (`WPublishNext`,
`ChallengedOldCount`...) stand directly before the definition they vary.  They
are plausible mistakes, used by no other definition; each property is known to
be violated when one of them takes the place of the right one
(`PROJECT.json`, "mutants").

### Modelling decisions

*Hashes.*  A hash with a seed, modulo a length, is a fixed but arbitrary function
from keys to positions (`Placings`), chosen in `Init` (`HeapSketch`: one of a constant set
of them, `Hashings`).  A property that holds
for every function holds for the real hash; no quality of it is assumed.

*Random numbers.*  A draw is an arbitrary value of the generator's range.  The
`*Unbiased` properties count over all draws, so they are exact expectations.

*Keys.*  Model values, except that the all-zero key exists wherever zeroed memory
looks like it.

*Heap.*  `Heap_Down` calls itself at the child it swapped with and, on return, its
loop compares once more.  The model walks as the calls do: down with a swap,
and back to the caller where nothing moves up, until the call it started from ends.
The walk is given two turns for each position; `DownResult` proves that it is
over by then, at the position it started from.  The position map is a function, as
`KeyMap` is: `CuckooMap` models how it is kept, and what happens when it finds no room.

*Ring.*  One step for each access to a field that the other side uses, and one
for each word of a memcpy, in any order.  Fields only one side uses move with the
step they belong to, save where a kill between two of them matters (`RAdvance`,
`RCount`, `RPublish`, `RReset`).  Accesses to volatile fields and slots take
effect in program order, as an x86 build does it; a weaker memory model is not
covered.

*Rings in UserReader.*  A call, whole or cut short, is a sequence of the steps of
`BatchedRing`, which `RingBuffer` implements (`ImplementsChannel`).  `UserReader` runs
the steps of one call together, and nothing is lost by that while both sides
live: the steps of a call commute with the other side's, as taking a packet leaves
`Stored` as it is, giving slots back can only make room, and showing packets can only
give the reader more.  A reader that dies *inside* a read is another matter, because
what it leaves is not what any number of whole calls leaves: killed between
`ringbuffer_user.cpp:281` and 282 it holds a slot that `rBatchCount` does not count, so
the next readers give their slots back one packet late.  `KillInRead` is that kill,
at each of its places (`CutShort`), and `rBatchCount` is kept beside the slots held.
`cuts` counts such reads, and `FullRingReadable` and
`FullRingServed` ask for a slot of room for each (`RoomFor`), as
`RoomForBatches` does in `RingBuffer`.  They fail without it: in a ring of four slots with
batches of two, one such kill leaves the ring full for its thread and empty for the
reader.  A write that the end of ovs-vswitchd cuts short leaves a ring that nobody
writes again, and of which a reader sees what it saw before the call or after it.
Counters that grow for ever are kept modulo `Wrap`.
`Open` and `Zero` split a creation where a reader may connect between them; they are
mapped to the patch, whose `create_ringbuffer_shm` and `write_ringbuffer` are the ones
that run (`ringbuffer_user.cpp` has the same text, which the reader does not call).  A
failed system call ends the process that made it (`LOG_ERR` exits; Open vSwitch
goes on into a mapping that is not there), and leaves no name (`CreateFails`,
`ConnectFails`).  Counting is one step, as `counter++` is one instruction to a
signal handler.  Open vSwitch creates and destroys threads, and operators start
and kill processes, as they like.

*FPGA.*  The RAM core is not in the repository.  It is taken to have the read
latency that the pipeline is built for, and a read at the edge of a write to the
same address may give either value.

*Undefined behaviour.*  OurSoft's unassigned `minPos` and `minHash` may be any
bucket.  The flag of the tuple that `main` tests before it has read one, and of
every tuple the PMD thread sends without assigning it, may be `TUPLE_TERM`.

*History variables* (`freq`, `written`, `delivered`, `crashes`, `counted`,
`crowded`, `before`, `undefined`, `due`, `allocated`, `cuts`) record what happened and guard
nothing, apart from the bounds `MaxPackets`, `MaxCrashes`, `MaxElements`,
`MaxSegments`, `MaxCuts` and `InFlight`.

## 3. Runs

All properties are stated, with a comment, in the module they are about.  The
type invariants are checked for the ring and proved for every module that
Section 5 speaks of; elsewhere the stronger invariants listed here take their
place.  `HardwareCounts` checks the FPGA and the switch in one run: they share
nothing, and a behaviour of it is one of the former or one of the latter.

| Run | Instance | Shows |
|---|---|---|
| `RingSafety` | 5 slots, batches of 2, tuples of 2 words, 9 packets, 1 kill | order of the indices, exclusion, whole and ordered delivery, loss of at most the packet in hand per kill, no mutual blocking, publication only forward, refinement of `PacketChannel` and of `BatchedRing`; a spinning writer is released; what is published is taken, and so is all that was written but the last few, fewer than a batch |
| `ReaderRings` | the main thread and 2 PMD threads, 2 rings of 4 slots read, batches of 2, 3 segments, 1 read cut short, counting modulo 2 | a ring for each thread, packets leave only by being read, each read packet reported once |
| `ReaderService` | the main thread and 1 PMD thread, 2 rings of 5 slots read, batches of 2, 2 segments, 1 read cut short | a full ring has packets for the reader; the reader stops when told; a ring stays full only behind one that never empties |
| `CocoTables` | an object of either class; 2 x 2 buckets, 4 keys, draws below 4; OurSoft: 7 packets, search literal 3; OurHard: 3 packets | OurSoft: no key twice, the report adds up for every partial key, unbiased steps, the unassigned read needs full rows; OurHard: row tallies, upper bounds, unbiased rows |
| `HardwareCounts` | either hardware version. FPGA: 2 elements, 2 buckets, any spacing, any resets, 10 elements. P4: 3 flows, 2 buckets, 2 packets of each, 2 in flight | FPGA: exact when spaced, bounded loss, monotone counters; P4: a flow that is found is answered at least what had passed |
| `FpgaLiteral` | literals as wide as the counters | *violation*: see findings |
| `P4LoneFlow` | 3 flows, 2 buckets, 2 packets of each, 2 in flight | *violation*: see findings |
| `SummaryLists` | both classes, 3 places, 4 keys, 9 packets, draws below 4 | soundness of the lists, refinement of `KeyCounts`, unbiasedness, error bounds |
| `HeapTop` | CMHeap, CountHeap, UnivMon of 2 levels; heaps of 4 and 2 keys for 5; 3 rows of 2 counters and of 1; 7 packets | the maps follow the heaps; no answer further off than its rows; order below the root |
| `HeapRoot` | the same sizes | *violation*: see findings |
| `CuckooKicks` | 3 keys, buckets of 1 slot, 3 kicks | a map with its size; kicks lose nothing and only crowding starts them |
| `ElasticVotes` | 4 keys, buckets of 2, two votes a count, light counters to 5, 10 packets | no key twice; each light counter is the packets of its keys that the heavy part does not count, up to the limit; no answer too low below the limit, exact when unflagged, both queries agree |

**Why the bounds are enough.**  Nine packets take the writer round a ring of five
slots almost twice, so every index has wrapped, both batches have been
outstanding at once, and the kill can fall at any step of any lap.  The ring is the
shortest that satisfies `RoomForBatches` with one kill; the theorem
`NoMutualBlocking` covers the others.  Three segments let a thread be destroyed and its
name or its successor's be made again while the reader reads the old one.  Five slots in
`ReaderService` are the room for one read cut short, exactly, and the
two rings that are read let one starve behind the other (that this happens was
checked: without the conclusion of `FullRingServed` the run fails); the theorems of
`UserReaderProofs` cover more of everything.  Two rows of two buckets make
keys meet in one row and not in the other, and four keys crowd both; draws below
4 divide evenly by 1 and 2 and not by 3, which is what unbiasedness
depends on.  Ten elements are three more than can be between a read and its
write-back, and the bound of `LossBounded` is reached.  Four positions give the heap a
node with two children and one with a grandchild, five keys a replacement; the second level
of UnivMon has half the room of the first, as in the code.  The hash functions of `HeapTop`
are not all there are (three rows of places and signs for five keys are too many) but any
three of five rows that put and sign the keys differently.  One slot a bucket makes three keys kick
each other round a cycle and fail.  Where the code has a literal that a small
instance would never reach (`0x7fffffff` in OurSoft, CMSketch and Elastic), the
literal is a constant and the run lowers it; light counters of `ElasticVotes` do
reach their limit, and packets are lost there.

**Deadlock** is checked where something can always happen (`FpgaLiteral`, and `RingSafety`, `ReaderRings` and `ReaderService`, where something may
always be started).  The other models stop when their
packets are used up, or when a failed insert of the hash table ends the program.

**Fairness.**  `ReaderService` assumes weak fairness of the reader's own steps: it
is a process that spins.  No packet, signal, thread or restart has to come, and
nothing is fair between the rings.  `RingSafety` assumes, for its two liveness
properties, weak fairness of the writer's
steps (a PMD thread owns its core and never sleeps), of the reader's steps while
it lives (it polls without blocking) and of starting a dead reader again (an
operator does so; without it a full ring blocks its PMD thread for ever).
Nothing makes packets arrive or readers die.

## 4. Findings

* `FpgaLiteral`.  `random_num * count < 2**32` is evaluated in 32 bits when
  unsized literals have 32 bits: `2**32` is 0 and no id is ever saved.  With
  wider literals ids are saved.
* `P4LoneFlow`.  The first packet of a bucket never writes its id and later ones
  write it when they should not: `meta.cond` is an unsigned difference compared
  the wrong way round.  A flow alone in its bucket can be answered 0.
* `HeapRoot`.  `Heap_Up` never compares position 1 with the root, so
  `heap[0]`, which a replacement evicts, need not be the lowest.  What does hold
  is `OrderBelowRoot`.

## 5. Proofs

The proofs hold for every value of the constants that satisfies the `ASSUME` of
the module.

**`RingBufferProofs`** assumes `RingAssumption` (a positive batch shorter than the
ring, at least one word).  The inductive invariant is

    Inv == IndexInv /\ DataInv /\ DeliveryInv /\ BatchInv

* `IndexInv`: types, `RingOrder`, and what each place of the two programs implies
  for the indices it has just compared.  `RingOrder` is not inductive alone: that
  `WAdvance` keeps it needs the guard that was tested before the memcpy, and that
  `WRefresh` keeps it needs that `readIndex` only moves away between the two loads.
* `DataInv`: the slots between the reader's position and the writer's hold
  consecutive packets, and half-done memcpys agree with them on the words done.
* `DeliveryInv`: what was delivered is increasing and no later than what was taken.
* `BatchInv`: how much each side can hold back.  A reader killed between
  `nextReadIndex` and `rBatchCount` (`ringbuffer_user.cpp:281-282`) leaves the
  count one behind, so each kill adds one slot to what is withheld; this is why
  `NeverBothBlocked` asks for one spare slot for each kill (`RoomForBatches`).

Each part is proved preserved in a lemma of its own from the parts before it, one
step for each action.  From `Inv`: `TypeCorrect`, `IndicesOrdered`, `NoSharedSlot`,
`DeliveredWholeAndInOrder`, `LossBounded`, `NoMutualBlocking`, and the action
property `PublishingMovesForward`.

**`UserReaderProofs`** assumes `ReaderAssumption` (at least one ring read, room for
two batches, positive `Wrap`), for any set of PMD threads and any bound on segments and on
reads cut short.  The
invariant is

    IInv == TypeOK /\ Indexed /\ Leading /\ Named /\ Created /\ Fresh /\ Connected
              /\ AllPaced

`RingPerThread` needs to know that the next name is new, which is `Indexed` and
`NameOf`: every running PMD thread's name is below `local_index`, which restarts at 1
only when no thread runs.  `PacketsLeaveByReading` needs `Fresh`: the segment that
`Zero` overwrites is no running thread's (`Named`), so nobody has written to it, although a
reader may have mapped it.  `FullRingReadable` needs `AllPaced`: a ring's writer holds
back less than a batch, and its readers no more than `rBatchCount` says and one
slot for each read cut short.  Each action has its lemma.  `PacketsReported` has an
invariant of its own, `Reported`, and a few lemmas about remainders.  Results:
`TypeCorrect`, `NoSharedRing`, `NothingElseEmptiesRings`, `FullRingsReadable`, `PacketsReported`.

**`SketchTheorems`** is what the proofs about counts rest on.  The models add counts up
with `SumFunctionOnSet`, a fold, which is a function that calls itself on smaller
sets.  That there is such a function, and that it adds one element and the sum of
the rest, is proved by induction over the subsets of a finite set.  The induction is
stated with a set of good subsets in the place of a predicate (`SubsetInduction`) and
rests on the strict subset ordering being well founded.  From it come the lemmas
that the other modules cite: any element may be added last, a value that changes by
`d` changes the sum by `d`, a sum over disjoint parts is the sum of their sums
(`SumPartition`), bounds from above and below, and `DrawsUnbiased`: when a draw below
`n` picks one answer if it is a multiple of `c` and another if not, the sum over the
draws is off by less than `c`, and by nothing when `c` divides `n`.  About medians: the values
of a vector have ranks (`RankExists`), so the median of an odd number of them lies between two of
them (`MedianInMiddle`), and if every value is as near to `f` as another vector's is to
0, so is the median (`MedianNear`).  About walks that a function of the turns describes:
`IterationExists`, by induction over the turns.

**`CocoProofs`** assumes positive numbers of rows, buckets and draws, a finite set
of keys, and that the all-zero key is one.  The invariant, of an object of either class, is

    Inv == TypeOK /\ OwnersPlaced /\ UniqueOwner /\ EmptyIsZero
             /\ (Defined => ZeroFirst) /\ RowsTally

`UniqueOwner` is not inductive: an insert into an OurSoft trusts the first bucket that *shows* its
key, and every empty bucket shows the all-zero key.  The invariant adds `EmptyIsZero` (an empty
bucket does show it) and `ZeroFirst` (the zero key is recorded in a row only when its buckets in
earlier rows are taken).  That both searches find a row rests on the least element of a set of
naturals.  `SearchSucceeds` follows from the counts of a row adding up to no more than
the packets; `StepUnbiased` from `DrawsUnbiased`, with the bucket that the search picks
named once for all draws; `PartialKeysAddUp` from the counts of the table adding up to
the packets and from `SumPartition` over the values of the partial key.  In an OurHard every row
tallies (`RowsTally`), so the count of each row is at least the key's packets (`SumCovers`), and
`NeverUnder` follows because the median lies between two of the rows, for odd and even numbers of
them.  Results: `TypeCorrect`, `RecordedWhereHashed`, `NoKeyTwice`, `SearchSucceedsLong`,
`SubsetSumsUnbiased`, `PartialKeysTally`, `EveryRowTallies`, `AnswersNeverUnder`, `RowsUnbiased`.

**`SummaryProofs`** assumes a finite set of keys, room for at least one, a positive number of
draws and a null pointer that is no node (`SummaryAssumption`).  The invariant is

    Inv == TypeOK /\ Sound(summary) /\ Tally /\ Errors

`Sound` is what makes every walk along the pointers meet every node, said without paths: the
counts rise along the list of count nodes (`CountsSound`), the data nodes of a count can be
numbered so that the numbers rise along their list (`DataSound`), each node's neighbours point
back at it, and only the ends lack one.  A node that a walk missed would be followed by ever more
that it missed.  Each operation of the list, from
linking one node to a whole increment, has a lemma that it keeps `Sound` and one that says what it
does to the answers: a key enters with a count, grows, or takes the place of one with the lowest
count.  What an insert of a key does to a summary is then what `KeyCounts` lets a packet of
that key do, for both classes;
`Tally` makes its total the packets; and `Errors`, that a key's answer less its packets lies between 0
and what the lowest count allows, is kept by the same three effects.  Unbiasedness is
`DrawsUnbiased` again.  Results: `SpecInv`, `ListsStaySound`, `CountsAddUp`, `ErrorsBounded`, `StepsUnbiased`, and
the refinement `SketchImplementsCounts`.

**`HardwareProofs`**, about `FpgaSketch`, for any number of buckets and any widths.  The invariant is

    Inv == TypeOK /\ Bounded /\ CarriedInOrder /\ StalePaid /\ OneAtATime

`CarriedInOrder` says that the counts carried by a bucket's elements are its count or one
less, the older element never the higher one; it is what makes a write-back never lower a count.
`StalePaid` bounds what is lost: the write-backs made to a bucket and the stale ones still in
the pipeline, which will not raise it, are together at most seven times its count.  `OneAtATime` is the case of spaced elements.  The
theorems about counts assume `NoWrap`, that fewer elements come than a
counter has values: the code's 32-bit counters do wrap, and then a count starts again at 0.
`TypeCorrect` does not assume it.  Results: `TypeCorrect`, `SpacedCountsExact`,
`OneInSevenCounted`, `CountersGrow`.

About `P4Sketch`, for any finite set of flows and any number of packets in flight.  The invariant is

    P4Inv == P4TypeOK /\ CountsFlows /\ IdsBehind /\ DumpsCover

A bucket's count is the sum of its flows' packets (`CountsFlows`, which needs that no counter
wraps: `CountersSuffice`), an id in `counter_ID` is that of a flow of which a packet has left the second
stage (`IdsBehind`), and so the two dumps, taken one after the other, still cover the flow
(`DumpsCover`).  How many packets of a flow are in flight is a cardinality, which the lemmas
`WaitingAppend` and `WaitingTail` follow through the queue.  Result: `FoundFlowsCovered`.

**`CuckooMapProofs`**, for any sizes, numbers of slots and kicks.  `FoundOnce` is inductive with
`KickedFull` (the bucket that the carried entry goes to next has no free slot: a kick that took a free
slot's stale entry with it would bring a deleted key back) and `CountsPresent` (`inserted` is
the slots in use and the carried entry).  With them, each step of the table is one of the
abstract `KeyMap` or leaves the map as it is, which kicks do.  Results: `TypeCorrect`, `KeysFoundOnce`,
`KickedWhenCrowded`, and the refinement `TableIsMap`.

**`SingleProofs`**, first about `Elastic`, for any geometry of the two parts, any lambda and finite
sets of keys.  The invariant is

    ElasticInv == ElasticTypeOK /\ FilledInOrder /\ EmptyIsZero /\ HeldOnce
                    /\ SharesNat /\ ExactUnflagged /\ PacketsKept

The search of a bucket stops at an empty place, so `HeldOnce` needs that places are filled in
order and never emptied.  The packets of a key that its bucket does not count are its share of
the light part (`LightShare`).  A packet that the bucket takes changes no share, an
eviction adds the victim's count to the victim's share, a vote adds one to the key's; and the
counter of that key is given as much (`LightKeeps`), so `PacketsKept` holds: a light counter is the sum of the shares
of its keys, cut off at `MAXNUM`.  What is lost is what the cutting takes, at `Elastic.h:127`, and
nothing else.  So a key's own counter covers its share as long as it is below the limit, which
with `ExactUnflagged` (no share for a key without its flag) is `AnswersCover`.
Results: `ElasticTypeCorrect`, `KeysHeldOnce`, `NoPacketLost`, `QueriesCover`.

Then about `HeapSketch`, for each of the three classes, any odd number of rows, any number of levels,
lengths and sizes, and any hash functions (`HeapSketchAssumption`).  The invariant is

    HeapInv == HashOK /\ freq \in Counts /\ \A l \in Levels : LevelOK(freq, l, sketches[l])

(and `sketches` is a function on the levels).  `LevelOK` says of a level's counters that each is the sum
of the packets, signed in a CSketch, of the keys that share it, and of its heap that

* the map and the array agree (`HeapOK`), and no key held has passed beyond its top level;
* the array is in order but for the edge between the root and position 1 (`Ordered`);
* every count it keeps is as near to the packets of its key as the rows are (`Near`);
* until it is full it holds every key that came to its level.

The last part is what lets a new key start at 1: `New_Data` gives it that count without asking the
sketch, which is right only if it never came before.  Order and nearness both rest on the first part: an insert counts at the position that the map
gives.  That an insert restores the order is the hardest part.  Raising one count, or putting a key
at the root, leaves a heap with one gap; each swap moves the gap one level down
(`DescendOrder`) and, where nothing moves up, the walk climbs back through positions that are in order and
swaps nothing more, so it ends where it started (`DownResult`).  `Heap_Up` moves the gap up as far
as position 1 (`UpResult`).  What an insert does to the keys and counts is then one of four effects (`InsertGives`).
Counts stay near because a row's noise never shrinks (`NoiseGrows`), a key's count and its packets
grow together, and a replaced root takes the sketch's answer, which is near (`SketchNear`).
An answer of UnivMon is worked out from the top level down; its distance from the packets follows level by level
in step with `Noise` (`BackNear`).  `HeapInv` was checked by TLC, as an invariant of the instance of
`HeapTop` for six packets, before it was proved.  Results: `HeapMapsAgree`, `HeapInOrder`, `HeapQueriesBounded`.

**Model-checked only.**  Liveness (out of the prover's reach, as are ENABLED and
fairness): `WriterReleased`, `PublishedIsTaken`, `StopsWhenTold`, `FullRingServed`.  Every
invariant and every other action property or refinement that a passing run checks is also a theorem.

## 6. Not modelled

* `flush_ringbuffer`, `read_complete_ringbuffer`, `ringbuffer_size`, `write_ringbuffer_block`:
  nothing calls them.  That nothing calls the flush means that the last packets
  of a stream, less than a batch, stay invisible; `PublishedIsTaken` therefore
  speaks of published packets, and of those with a batch less one written after them.
* The kernel variants of the ring (`kshm`), whose other half is not here.
* That the rings suffice.  `user_reader.cpp:18` asks for one ring for each PMD thread
  and one more; a PMD thread that is destroyed and created again gets the next
  name all the same, so its ring may be one that no reader opens.  Nothing in the
  repository creates PMD threads again, so this is a hazard, not a property.
* HHSingleBench of BenchMark: main never calls it.
* The printing of reports; the recall, precision and relative error, which are quotients
  of what `CompareHH` returns.
* The arithmetic of the CRC modules and of the hash functions: covered by "any placing".
* Parsers, deparsers, file reading, memory mapping, timing and accuracy reports:
  no state that the properties tell apart.

## 7. Plan

Done, in this order: ring, OurSoft, OurHard, FPGA, P4, StreamSummary with USS and
SpaceSaving, Heap with CMHeap, CountHeap and UnivMon, CuckooMap, Elastic; proofs of the ring's safety
and of OurSoft's table.

Since then: the rings of Open vSwitch and the reader's main loop (`UserReader` over
`RingCounts`, with `BatchedRing` as what the ring's detail implements) and their
proofs; the report of BenchMark; `AllQuery` of Elastic; the sizes and totals moved
into the abstract specifications `KeyMap` and `KeyCounts`.

And proofs: sums over finite sets; the counts of OurSoft and OurHard, their unbiasedness and
BenchMark's report; the FPGA's and the switch's counts; the hash table and its refinement of
`KeyMap`; the ring's refinement of `PacketChannel` and `BatchedRing`; Elastic.

And then the lists of `StreamSummary`, with the error bounds, the unbiasedness and the refinement
that rest on them; the tables of OurSoft and OurHard as objects of one class hierarchy.

Then the heap sketches, with the two walks of `Heap` as iterations.

And last the reads that a reader dies in, in `RingCounts`, `BatchedRing` and `UserReader`; the
inserted key in `KeyCounts`; and the light part of Elastic counter by counter, up to the limit: nothing of what the passing
runs check is left to prove but liveness.
