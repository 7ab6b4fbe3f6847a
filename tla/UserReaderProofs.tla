-------------------------- MODULE UserReaderProofs --------------------------
(***************************************************************************)
(* Proofs about UserReader, for every number of PMD threads and of rings   *)
(* read, every ring and every bound: no two threads share a ring, whatever *)
(* names and segments earlier threads and processes left behind, no        *)
(* creation empties a ring under a reader, and a full ring has packets the *)
(* reader can see, wherever readers die.                                   *)
(*                                                                         *)
(* A name given to a PMD thread is below local_index, so the next one is   *)
(* new, and a segment given to it is above all that were created; so a     *)
(* creation takes neither the name nor the segment of a running thread,    *)
(* and the segment it zeroes is still as the kernel made it.  A reader     *)
(* holds less than a batch of slots, and one more for each read a reader   *)
(* died in.                                                                *)
(***************************************************************************)
EXTENDS UserReader, TLAPS

Opened == making.busy /\ making.segment # None

(* local_index runs ahead of the segments by the one being named.          *)
Indexed ==
  /\ local_index >= 1
  /\ local_index <= allocated + 1 + (IF making.busy /\ ~ Opened THEN 1 ELSE 0)
  /\ making.busy /\ ~ Opened => allocated < MaxSegments

(* Names lead to segments that were created.                               *)
Leading == \A n \in Names : shm[n] <= allocated

(* n is a name for p given since ovs-vswitchd started.                     *)
NameOf(p, n) ==
  /\ p = NonPmd <=> n = 0
  /\ n < local_index

(* Each running thread has a name and a segment of its own, and so has the *)
(* one to come.                                                            *)
Named ==
  \A p \in Threads : trb[p] # None =>
    /\ NameOf(p, tname[p])
    /\ trb[p] <= allocated /\ shm[tname[p]] \in {trb[p], None}
    /\ \A q \in Threads :
         trb[q] # None /\ (tname[q] = tname[p] \/ trb[q] = trb[p]) => q = p
    /\ making.busy => tname[p] # making.name
    /\ Opened => trb[p] # making.segment
Created ==
  /\ making.busy => NameOf(making.thread, making.name) /\ trb[making.thread] = None
  /\ Opened => /\ making.segment <= allocated
               /\ shm[making.name] \in {making.segment, None}

(* Segments that no thread writes yet are as created.                      *)
Fresh ==
  /\ \A s \in Segments : s > allocated => rings[s] = Zeroed
  /\ Opened => rings[making.segment] = Zeroed

(* Outside the loop the reader has nothing to report.                      *)
Reported ==
  /\ ReportsPackets
  /\ rpc \notin Looping => counter = 0 /\ due = 0

(* The reader reads rings it has connected to.                             *)
Connected ==
  rpc \in Handling \cup {"install"} => \A i \in Indices : rbs[i] # None

(* What the two sides of a ring may hold back after n reads were cut short.*)
Paced(r, n) ==
  /\ r.unshown < RB_BATCH
  /\ r.held <= r.rBatchCount + n /\ r.held < RB_BATCH + n
AllPaced == \A s \in Segments : Paced(rings[s], cuts)

IInv == TypeOK /\ Indexed /\ Leading /\ Named /\ Created /\ Fresh /\ Connected
          /\ AllPaced

(***************************************************************************)
(* What the calls do to a ring.                                            *)
(***************************************************************************)
LEMMA RingSteps ==
  ASSUME NEW r \in Ring, NEW n \in Nat, Paced(r, n)
  PROVE  /\ write_ringbuffer(r) \in Ring
         /\ Unread(write_ringbuffer(r)) = Unread(r) + 1
         /\ Paced(write_ringbuffer(r), n)
         /\ HasPacket(r) =>
              /\ read_ringbuffer(r) \in Ring
              /\ Unread(read_ringbuffer(r)) = Unread(r) - 1
              /\ Paced(read_ringbuffer(r), n)
              /\ \A c \in CutShort(r) :
                   c \in Ring /\ Unread(c) = Unread(r) - 1 /\ Paced(c, n + 1)
<1>0. /\ RB_BATCH \in Nat \ {0}
      /\ r.unshown \in Nat /\ r.shown \in Nat /\ r.held \in Nat
      /\ r.rBatchCount \in 0 .. RB_BATCH
      /\ r = [unshown |-> r.unshown, shown |-> r.shown, held |-> r.held,
              rBatchCount |-> r.rBatchCount]
      /\ r.unshown < RB_BATCH /\ r.held <= r.rBatchCount + n /\ r.held < RB_BATCH + n
  BY ReaderAssumption DEF Ring, Paced
<1>1. /\ write_ringbuffer(r) \in Ring /\ Unread(write_ringbuffer(r)) = Unread(r) + 1
      /\ Paced(write_ringbuffer(r), n)
  <2>1. Written(r) = [unshown |-> r.unshown + 1, shown |-> r.shown, held |-> r.held,
                      rBatchCount |-> r.rBatchCount]
    BY <1>0 DEF Written
  <2>2. \A w \in Ring : /\ Shown(w) \in Ring
                        /\ Shown(w).unshown = 0 /\ Shown(w).shown = w.unshown + w.shown
                        /\ Shown(w).held = w.held /\ Shown(w).rBatchCount = w.rBatchCount
    BY DEF Shown, Ring, Unread
  <2>3. Written(r) \in Ring
    BY <1>0, <2>1 DEF Ring
  <2> QED BY <1>0, <2>1, <2>2, <2>3 DEF write_ringbuffer, Unread, Paced
<1>2. ASSUME HasPacket(r)
      PROVE  /\ read_ringbuffer(r) \in Ring /\ Unread(read_ringbuffer(r)) = Unread(r) - 1
             /\ Paced(read_ringbuffer(r), n)
             /\ \A c \in CutShort(r) :
                  c \in Ring /\ Unread(c) = Unread(r) - 1 /\ Paced(c, n + 1)
  <2>1. PICK t, k, d, e : t = Taken(r) /\ k = Counted(t) /\ d = Released(k) /\ e = Reset(d)
    OBVIOUS
  <2>2. t = [unshown |-> r.unshown, shown |-> r.shown - 1, held |-> r.held + 1,
             rBatchCount |-> r.rBatchCount]
    BY <2>1 DEF Taken
  <2>3. PICK m \in Nat : m = IF r.rBatchCount < RB_BATCH THEN r.rBatchCount + 1
                             ELSE r.rBatchCount
    BY <1>0
  <2>4. k = [unshown |-> r.unshown, shown |-> r.shown - 1, held |-> r.held + 1,
             rBatchCount |-> m]
    BY <2>1, <2>2, <2>3 DEF Counted
  <2>5. d = [unshown |-> r.unshown, shown |-> r.shown - 1, held |-> 0, rBatchCount |-> m]
    BY <2>1, <2>4 DEF Released
  <2>13. e = [unshown |-> r.unshown, shown |-> r.shown - 1, held |-> 0, rBatchCount |-> 0]
    BY <2>1, <2>5 DEF Reset
  <2>6. r.shown - 1 \in Nat /\ m \in 0 .. RB_BATCH /\ r.rBatchCount <= m
    BY <1>0, <1>2, <2>3 DEF HasPacket
  <2>7. t \in Ring /\ k \in Ring /\ d \in Ring /\ e \in Ring
    BY <1>0, <2>2, <2>4, <2>5, <2>6, <2>13 DEF Ring
  <2>8. /\ Unread(t) = Unread(r) - 1 /\ Unread(k) = Unread(r) - 1
        /\ Unread(d) = Unread(r) - 1 /\ Unread(e) = Unread(r) - 1
    BY <1>0, <2>2, <2>4, <2>5, <2>13 DEF Unread
  <2>9. Paced(t, n + 1) /\ Paced(k, n + 1) /\ Paced(d, n + 1) /\ Paced(e, n)
    BY <1>0, <2>2, <2>4, <2>5, <2>6, <2>13 DEF Paced
  <2>10. m # RB_BATCH => Paced(k, n)
    BY <1>0, <2>3, <2>4, <2>6 DEF Paced
  <2>11. read_ringbuffer(r) = (IF m = RB_BATCH THEN e ELSE k)
    BY <2>1, <2>4 DEF read_ringbuffer, BatchDone
  <2>12. \A c \in CutShort(r) : c \in {t, k, d}
    BY <2>1 DEF CutShort
  <2> QED BY <2>7, <2>8, <2>9, <2>10, <2>11, <2>12
<1> QED BY <1>1, <1>2

LEMMA ZeroedRing ==
  Zeroed \in Ring /\ Unread(Zeroed) = 0 /\ ~ HasPacket(Zeroed) /\ Paced(Zeroed, 0)
BY ReaderAssumption DEF Zeroed, Ring, Unread, HasPacket, Paced

(* The ring s, and no other, is written or read.                           *)
LEMMA PacedStep ==
  ASSUME TypeOK, AllPaced, cuts' \in Nat, cuts <= cuts', NEW s \in Segments, NEW q,
         rings' = [rings EXCEPT ![s] = q], Paced(q, cuts')
  PROVE  AllPaced'
<1> SUFFICES ASSUME NEW z \in Segments PROVE Paced(rings'[z], cuts')
  BY DEF AllPaced
<1>1. CASE z = s
  BY <1>1 DEF TypeOK
<1>2. CASE z # s
  <2>1. rings'[z] = rings[z] /\ Paced(rings[z], cuts) /\ rings[z] \in Ring
    BY <1>2 DEF TypeOK, AllPaced
  <2> QED BY <2>1, ReaderAssumption DEF TypeOK, Paced, Ring
<1> QED BY <1>1, <1>2

LEMMA PacedKept == ASSUME AllPaced, rings' = rings, cuts' = cuts PROVE AllPaced'
BY DEF AllPaced, Paced

LEMMA InitIInv == Init => IInv
<1> SUFFICES ASSUME Init PROVE IInv
  OBVIOUS
<1>1. TypeOK
  <2>1. Idle \in Making /\ 0 \in Names /\ 0 \in Indices /\ 0 \in Counts
    BY ReaderAssumption DEF Idle, Making, Threads, Names, None, Indices, Counts
  <2>2. /\ tname \in [Threads -> Names]
        /\ trb \in [Threads -> Segments \cup {None}]
        /\ shm \in [Names -> Segments \cup {None}]
        /\ rings \in [Segments -> Ring]
        /\ rbs \in [Indices -> Segments \cup {None}]
    BY <2>1, ZeroedRing DEF Init, Down
  <2>3. /\ local_index \in Nat /\ allocated \in 0 .. MaxSegments /\ rpc \in Places
        /\ cuts \in 0 .. MaxCuts
    BY ReaderAssumption DEF Init, Down, Places
  <2> QED BY <2>1, <2>2, <2>3 DEF Init, Down, TypeOK
<1>2. Indexed /\ Leading /\ Named /\ Created
  BY ReaderAssumption
  DEF Init, Idle, Indexed, Leading, Named, Created, Opened, None, Names, Threads
<1>3. Fresh /\ Connected /\ AllPaced
  BY ZeroedRing DEF Init, Idle, Fresh, Opened, Connected, Down, Handling, AllPaced
<1> QED BY <1>1, <1>2, <1>3 DEF IInv

(***************************************************************************)
(* Open vSwitch.                                                           *)
(***************************************************************************)
LEMMA NewRingKeeps ==
  ASSUME IInv, NEW p \in Threads, NewRing(p)
  PROVE  IInv'
<1> USE DEF IInv, NewRing, None
<1>1. local_index \in Nat /\ allocated \in Nat /\ MaxSegments \in Nat
      /\ local_index >= 1 /\ local_index <= allocated + 1 /\ allocated < MaxSegments
  BY ReaderAssumption DEF TypeOK, Indexed
<1>2. making' = [thread |-> p, name |-> IF p = NonPmd THEN 0 ELSE local_index,
                 segment |-> 0, busy |-> TRUE]
      /\ local_index' = IF p = NonPmd THEN local_index ELSE local_index + 1
  BY DEF NextIndex
<1>3. making' \in Making /\ local_index' \in Nat
  BY <1>1, <1>2 DEF Making, Names
<1>4. TypeOK'
  BY <1>3 DEF TypeOK, reader
<1>5. Indexed' /\ ~ Opened'
  BY <1>1, <1>2 DEF Indexed, Opened
<1>6. Leading'
  BY DEF Leading
<1>7. Named' /\ Created'
  <2>1. NameOf(p, making.name)' /\ making'.thread = p
    BY <1>1, <1>2 DEF NameOf
  <2>2. ASSUME NEW q \in Threads, trb[q] # 0
        PROVE  NameOf(q, tname[q])' /\ tname[q] # making'.name
    <3>1. NameOf(q, tname[q]) /\ tname[q] \in Nat /\ q # p
      BY <2>2 DEF Named, TypeOK, Names
    <3> QED BY <1>1, <1>2, <3>1 DEF NameOf
  <2> QED BY <1>2, <1>5, <2>1, <2>2 DEF Named, Created
<1>8. Fresh' /\ Connected'
  BY <1>5 DEF Fresh, Connected, reader
<1>9. AllPaced'
  BY PacedKept DEF reader
<1> QED BY <1>4, <1>5, <1>6, <1>7, <1>8, <1>9

LEMMA OpenKeeps ==
  ASSUME IInv, Open
  PROVE  IInv'
<1> USE DEF IInv, Open, None
<1>1. local_index \in Nat /\ allocated \in Nat /\ MaxSegments \in Nat
      /\ local_index >= 1 /\ local_index <= allocated + 2 /\ allocated < MaxSegments
      /\ making \in Making /\ making.name \in Names
  BY ReaderAssumption DEF TypeOK, Indexed, Opened, Making
<1>2. /\ allocated' = allocated + 1 /\ allocated' \in Segments
      /\ shm' = [shm EXCEPT ![making.name] = allocated + 1]
      /\ making' = [making EXCEPT !.segment = allocated + 1]
      /\ making'.segment = allocated + 1 /\ making'.busy
      /\ making'.name = making.name /\ making'.thread = making.thread
  BY <1>1 DEF Segments, Making
<1>3. TypeOK'
  <2>1. making' \in Making
    BY <1>1, <1>2 DEF Making
  <2>2. shm' \in [Names -> Segments \cup {0}] /\ allocated' \in 0 .. MaxSegments
    BY <1>1, <1>2 DEF TypeOK, Segments
  <2> QED BY <2>1, <2>2 DEF TypeOK, reader
<1>4. Indexed' /\ Opened'
  BY <1>1, <1>2 DEF Indexed, Opened
<1>5. \A n \in Names : /\ shm[n] \in Nat /\ shm[n] <= allocated
                       /\ shm'[n] = IF n = making.name THEN allocated + 1 ELSE shm[n]
  BY <1>1, <1>2 DEF TypeOK, Leading, Segments
<1>6. Leading'
  BY <1>1, <1>2, <1>5 DEF Leading
<1>7. Named' /\ Created'
  <2>1. ASSUME NEW p \in Threads, trb[p] # 0
        PROVE  trb[p] \in Nat /\ trb[p] <= allocated /\ tname[p] \in Names
                 /\ tname[p] # making.name
    BY <1>1, <2>1 DEF Named, TypeOK, Segments, Opened
  <2> QED BY <1>1, <1>2, <1>5, <2>1 DEF Named, NameOf, Created, Opened
<1>8. Fresh' /\ Connected'
  <2>1. rings'[allocated + 1] = Zeroed
    BY <1>1, <1>2 DEF Fresh
  <2> QED BY <1>1, <1>2, <2>1 DEF Fresh, Connected, Segments, reader
<1>9. AllPaced'
  BY PacedKept DEF reader
<1> QED BY <1>3, <1>4, <1>6, <1>7, <1>8, <1>9

LEMMA ZeroKeeps ==
  ASSUME IInv, Zero
  PROVE  IInv' /\ rings' = rings
<1> USE DEF IInv, Zero, None
<1>1. /\ making.thread \in Threads /\ making.name \in Names
      /\ making.segment \in Segments /\ Opened
      /\ rings[making.segment] = Zeroed
  BY DEF TypeOK, Making, Opened, Fresh
<1>2. rings' = rings
  BY <1>1 DEF TypeOK
<1>3. making' = Idle /\ Idle \in Making /\ ~ Idle.busy /\ ~ Opened'
  BY ReaderAssumption DEF Idle, Making, Threads, Names, Opened
<1>4. TypeOK'
  BY <1>1, <1>2, <1>3 DEF TypeOK, reader
<1>5. Indexed' /\ Leading'
  BY <1>1, <1>3 DEF Indexed, Leading
<1>6. \A p \in Threads :
        /\ trb'[p] = IF p = making.thread THEN making.segment ELSE trb[p]
        /\ tname'[p] = IF p = making.thread THEN making.name ELSE tname[p]
  BY <1>1 DEF TypeOK
<1>7. Named' /\ Created'
  <2>1. \A p \in Threads : trb'[p] # 0 =>
          /\ NameOf(p, tname[p])'
          /\ trb'[p] <= allocated /\ shm'[tname'[p]] \in {trb'[p], 0}
    BY <1>1, <1>6 DEF Named, Created, NameOf, Opened
  <2>2. \A p, q \in Threads :
          trb'[p] # 0 /\ trb'[q] # 0 /\ (tname'[q] = tname'[p] \/ trb'[q] = trb'[p]) => q = p
    BY <1>1, <1>6 DEF Named, Opened
  <2> QED BY <1>3, <2>1, <2>2 DEF Named, Created
<1>8. Fresh' /\ Connected'
  BY <1>2, <1>3 DEF Fresh, Connected, reader
<1>9. AllPaced'
  BY <1>2, PacedKept DEF reader
<1> QED BY <1>2, <1>4, <1>5, <1>7, <1>8, <1>9

LEMMA PacketKeeps ==
  ASSUME IInv, NEW p \in Threads, Packet(p)
  PROVE  IInv'
<1> USE DEF IInv, Packet, ovs, reader
<1>1. trb[p] \in Segments /\ trb[p] <= allocated
      /\ (Opened => trb[p] # making.segment)
  BY DEF TypeOK, Named, None
<1>2. /\ rings[trb[p]] \in Ring
      /\ rings' = [rings EXCEPT ![trb[p]] = write_ringbuffer(rings[trb[p]])]
  BY <1>1 DEF TypeOK
<1>3. TypeOK'
  BY <1>1, <1>2, RingSteps DEF TypeOK, AllPaced
<1>4. Indexed' /\ Leading' /\ Named' /\ Created' /\ Connected'
  BY DEF Indexed, Leading, Named, Created, NameOf, Opened, Connected
<1>5. Fresh'
  BY <1>1, <1>2, ReaderAssumption DEF Fresh, Opened, TypeOK, Making, Segments
<1>6. AllPaced'
  <2>1. Paced(write_ringbuffer(rings[trb[p]]), cuts) /\ cuts \in Nat /\ cuts' = cuts
    BY <1>1, <1>2, RingSteps DEF TypeOK, AllPaced
  <2>2. cuts' \in Nat /\ cuts <= cuts' /\ Paced(write_ringbuffer(rings[trb[p]]), cuts')
    BY <2>1
  <2> QED BY <1>1, <1>2, <2>2, PacedStep
<1> QED BY <1>3, <1>4, <1>5, <1>6

LEMMA StopThreadKeeps ==
  ASSUME IInv, NEW p \in Pmds, StopThread(p)
  PROVE  IInv'
<1> USE DEF IInv, StopThread, reader, None
<1>1. \A q \in Threads : /\ trb'[q] = IF q = p THEN 0 ELSE trb[q]
                         /\ tname'[q] = IF q = p THEN 0 ELSE tname[q]
  BY DEF TypeOK
<1>2. TypeOK'
  <2>1. 0 \in Names /\ p \in Threads
    BY ReaderAssumption DEF Names, Threads
  <2> QED BY <2>1 DEF TypeOK
<1>3. Indexed' /\ Leading' /\ Fresh' /\ Connected'
  BY DEF Indexed, Leading, Fresh, Opened, Connected
<1>4. Named' /\ Created'
  BY <1>1 DEF Named, Created, NameOf, Opened, TypeOK, Making
<1>5. AllPaced'
  BY PacedKept
<1> QED BY <1>2, <1>3, <1>4, <1>5

LEMMA OvsEndsKeeps ==
  ASSUME IInv, OvsRestart \/ CreateFails
  PROVE  IInv'
<1> USE DEF IInv, None
<1>1. OvsEnds /\ making' = Idle /\ Idle \in Making /\ ~ Idle.busy /\ ~ Opened'
  BY ReaderAssumption
  DEF OvsRestart, CreateFails, OvsEnds, Idle, Making, Threads, Names, Opened
<1>2. /\ shm' \in [Names -> Segments \cup {0}]
      /\ \A n \in Names : shm'[n] \in {shm[n], 0}
  BY DEF OvsRestart, CreateFails, TypeOK
<1>3. TypeOK'
  <2>1. /\ 1 \in Nat /\ [q \in Threads |-> 0] \in [Threads -> Segments \cup {0}]
        /\ [q \in Threads |-> 0] \in [Threads -> Names]
    BY ReaderAssumption DEF Names
  <2> QED BY <1>1, <1>2, <2>1 DEF OvsEnds, reader, TypeOK
<1>4. Leading'
  BY <1>1, <1>2 DEF OvsEnds, Leading, TypeOK
<1>5. Indexed' /\ Named' /\ Created' /\ Fresh' /\ Connected'
  BY <1>1 DEF OvsEnds, reader, Indexed, Named, Created, Fresh, Connected, TypeOK
<1>6. AllPaced'
  BY <1>1, PacedKept DEF OvsEnds, reader
<1> QED BY <1>3, <1>4, <1>5, <1>6

(***************************************************************************)
(* The reader.                                                             *)
(***************************************************************************)
LEMMA OvsKept ==
  ASSUME IInv, UNCHANGED ovs
  PROVE  /\ Indexed' /\ Leading' /\ Named' /\ Created' /\ Opened' = Opened
         /\ rings' = rings => Fresh'
BY DEF IInv, ovs, Indexed, Leading, Named, Created, NameOf, Opened, Fresh

LEMMA Remainders ==
  \A n \in Int : n % Wrap \in Counts
BY ReaderAssumption DEF Counts

LEMMA ReadsItsRing ==
  ASSUME IInv, rpc = "read", HasPacket(rings[rbs[idx]])
  PROVE  /\ rbs[idx] \in Segments /\ rings[rbs[idx]] \in Ring
         /\ cuts \in Nat /\ Paced(rings[rbs[idx]], cuts)
         /\ rings[rbs[idx]] # Zeroed
<1>1. rbs[idx] \in Segments /\ rings[rbs[idx]] \in Ring /\ cuts \in Nat
  BY DEF IInv, TypeOK, Connected, Handling, None
<1> QED BY <1>1, ZeroedRing DEF IInv, AllPaced

LEMMA ReadPacketKeeps ==
  ASSUME IInv, ReadPacket
  PROVE  IInv'
<1> USE DEF IInv, ReadPacket
<1>1. /\ rbs[idx] \in Segments /\ rings[rbs[idx]] \in Ring
      /\ cuts \in Nat /\ Paced(rings[rbs[idx]], cuts) /\ rings[rbs[idx]] # Zeroed
  BY ReadsItsRing
<1>2. rings' = [rings EXCEPT ![rbs[idx]] = read_ringbuffer(rings[rbs[idx]])]
  OBVIOUS
<1>3. TypeOK'
  <2>1. rings' \in [Segments -> Ring]
    BY <1>1, <1>2, RingSteps DEF TypeOK
  <2>2. due' \in Counts
    BY Remainders DEF TypeOK, Counts
  <2> QED BY <2>1, <2>2 DEF TypeOK, ovs, Places, Handling
<1>4. Indexed' /\ Leading' /\ Named' /\ Created' /\ Opened' = Opened
  BY OvsKept
<1>5. Fresh'
  BY <1>1, <1>2, <1>4 DEF Fresh, ovs, TypeOK, Making
<1>6. Connected'
  BY DEF Connected, Handling
<1>7. AllPaced'
  <2>1. Paced(read_ringbuffer(rings[rbs[idx]]), cuts) /\ cuts' = cuts
    BY <1>1, RingSteps
  <2>2. cuts' \in Nat /\ cuts <= cuts' /\ Paced(read_ringbuffer(rings[rbs[idx]]), cuts')
    BY <1>1, <2>1
  <2> QED BY <1>1, <1>2, <2>2, PacedStep
<1> QED BY <1>3, <1>4, <1>5, <1>6, <1>7

LEMMA KillInReadKeeps ==
  ASSUME IInv, KillInRead
  PROVE  IInv'
<1> USE DEF IInv, KillInRead, Gone
<1>1. /\ rbs[idx] \in Segments /\ rings[rbs[idx]] \in Ring
      /\ cuts \in Nat /\ Paced(rings[rbs[idx]], cuts) /\ rings[rbs[idx]] # Zeroed
  BY ReadsItsRing
<1>2. PICK r \in CutShort(rings[rbs[idx]]) : rings' = [rings EXCEPT ![rbs[idx]] = r]
  OBVIOUS
<1>3. r \in Ring /\ Paced(r, cuts + 1) /\ cuts' = cuts + 1 /\ cuts' \in 0 .. MaxCuts
  BY <1>1, <1>2, RingSteps, ReaderAssumption DEF TypeOK
<1>4. TypeOK'
  <2>1. 0 \in Indices /\ 0 \in Counts
    BY ReaderAssumption DEF Indices, Counts
  <2> QED BY <1>1, <1>2, <1>3, <2>1 DEF TypeOK, ovs, Places
<1>5. Indexed' /\ Leading' /\ Named' /\ Created' /\ Opened' = Opened
  BY OvsKept
<1>6. Fresh'
  BY <1>1, <1>2, <1>5 DEF Fresh, ovs, TypeOK, Making
<1>7. Connected'
  BY DEF Connected, Handling
<1>8. AllPaced'
  <2>1. cuts' \in Nat /\ cuts <= cuts' /\ Paced(r, cuts')
    BY <1>1, <1>3
  <2> QED BY <1>1, <1>2, <2>1, PacedStep
<1> QED BY <1>4, <1>5, <1>6, <1>7, <1>8

LEMMA ConnectKeeps ==
  ASSUME IInv, Connect
  PROVE  IInv'
<1> USE DEF IInv, Connect
<1>1. PICK i \in Indices :
        /\ Opening(i)
        /\ rbs' = [rbs EXCEPT ![i] = shm[i]]
        /\ rpc' = IF ToConnect = {i} THEN "install" ELSE "connect"
  OBVIOUS
<1>2. i \in Indices /\ shm[i] \in Segments
  BY <1>1 DEF Opening, TypeOK, None
<1>3. TypeOK'
  BY <1>1, <1>2 DEF TypeOK, ovs, Places, Handling
<1>4. Indexed' /\ Leading' /\ Named' /\ Created' /\ Fresh'
  BY OvsKept
<1>5. Connected'
  BY <1>1, <1>2 DEF Opening, Connected, ToConnect, Handling, TypeOK, None
<1>6. AllPaced'
  BY PacedKept
<1> QED BY <1>3, <1>4, <1>5, <1>6

LEMMA ConnectFailsKeeps ==
  ASSUME IInv, NEW i \in Indices, ConnectFails(i)
  PROVE  IInv' /\ rings' = rings
<1> USE DEF IInv, ConnectFails, Gone, None
<1>1. /\ shm' \in [Names -> Segments \cup {0}]
      /\ \A n \in Names : shm'[n] \in {shm[n], 0}
  BY DEF TypeOK, Opening
<1>2. TypeOK'
  <2>1. 0 \in Indices /\ 0 \in Counts
    BY ReaderAssumption DEF Indices, Counts
  <2> QED BY <1>1, <2>1 DEF TypeOK, Places
<1>3. Leading'
  BY <1>1 DEF Leading, TypeOK
<1>4. Named' /\ Created'
  BY <1>1 DEF Named, Created, NameOf, Opened, TypeOK, Making
<1>5. Indexed' /\ Fresh' /\ Connected'
  BY DEF Indexed, Fresh, Opened, Connected, Handling
<1>6. AllPaced'
  BY PacedKept
<1> QED BY <1>2, <1>3, <1>4, <1>5, <1>6

(* The other steps of the reader leave the rings, and connect to none.     *)
LEMMA ReaderKeeps ==
  ASSUME IInv,
         Start \/ Install \/ Begin \/ EnterLoop \/ LeaveLoop \/ ReadNothing
           \/ Count \/ Alarm \/ Interrupt \/ Kill
  PROVE  IInv' /\ rings' = rings
<1> USE DEF IInv
<1>1. rings' = rings /\ UNCHANGED <<ovs, cuts>>
  BY DEF Start, Install, Begin, EnterLoop, LeaveLoop, ReadNothing, Count, Alarm,
         Interrupt, Kill, Gone
<1>2. TypeOK'
  <2>1. counter' \in Counts /\ due' \in Counts
    <3>1. counter \in Int /\ due \in Int /\ counter + 1 \in Int /\ due - counter \in Int
      BY DEF TypeOK, Counts
    <3>2. (counter + 1) % Wrap \in Counts /\ (due - counter) % Wrap \in Counts
      BY <3>1, Remainders
    <3>3. 0 \in Counts
      BY ReaderAssumption DEF Counts
    <3> QED BY <3>2, <3>3
        DEF TypeOK, Start, Install, Begin, EnterLoop, LeaveLoop, ReadNothing, Count,
            Alarm, Interrupt, Kill, Gone
  <2>2. idx' \in Indices
    <3>1. \A i \in Indices : NextRing(i) \in Indices
      BY ReaderAssumption DEF NextRing, Indices
    <3>2. 0 \in Indices
      BY ReaderAssumption DEF Indices
    <3> QED BY <3>1, <3>2
        DEF TypeOK, Start, Install, Begin, EnterLoop, LeaveLoop, ReadNothing,
            Count, Alarm, Interrupt, Kill, Gone
  <2>3. rbs' \in [Indices -> Segments \cup {None}]
    BY DEF TypeOK, Start, Install, Begin, EnterLoop, LeaveLoop, ReadNothing,
           Count, Alarm, Interrupt, Kill, Gone
  <2>4. rpc' \in Places /\ KEEP_RUNNING' \in BOOLEAN /\ term' \in BOOLEAN
    BY DEF TypeOK, Places, Handling, Start, Install, Begin, EnterLoop, LeaveLoop,
           ReadNothing, Count, Alarm, Interrupt, Kill, Gone
  <2> QED BY <1>1, <2>1, <2>2, <2>3, <2>4 DEF TypeOK, ovs
<1>3. Indexed' /\ Leading' /\ Named' /\ Created' /\ Fresh'
  BY <1>1, OvsKept
<1>4. Connected'
  BY DEF Connected, Handling, Start, Install, Begin, EnterLoop, LeaveLoop,
         ReadNothing, Count, Alarm, Interrupt, Kill, Gone
<1>5. AllPaced'
  BY <1>1, PacedKept
<1> QED BY <1>1, <1>2, <1>3, <1>4, <1>5

LEMMA StepIInv == IInv /\ [Next]_vars => IInv'
<1> SUFFICES ASSUME IInv, [Next]_vars PROVE IInv'
  OBVIOUS
<1>1. CASE \E p \in Threads : NewRing(p) \/ Packet(p)
  BY <1>1, NewRingKeeps, PacketKeeps
<1>2. CASE \E p \in Pmds : StopThread(p)
  BY <1>2, StopThreadKeeps
<1>3. CASE Open \/ Zero \/ OvsRestart \/ CreateFails
  BY <1>3, OpenKeeps, ZeroKeeps, OvsEndsKeeps
<1>4. CASE Connect \/ ReadPacket
  BY <1>4, ConnectKeeps, ReadPacketKeeps
<1>5. CASE Start \/ Reader \/ Alarm \/ Interrupt \/ Kill \/ KillInRead
  BY <1>4, <1>5, ReaderKeeps, KillInReadKeeps DEF Reader
<1>6. CASE \E i \in Indices : ConnectFails(i)
  BY <1>6, ConnectFailsKeeps
<1>7. CASE UNCHANGED vars
  BY <1>7
  DEF vars, ovs, reader, IInv, TypeOK, Indexed, Leading, Named, Created, NameOf,
      Opened, Fresh, Connected, AllPaced, Paced
<1> QED BY <1>1, <1>2, <1>3, <1>5, <1>6, <1>7 DEF Next

LEMMA Inductive == Spec => []IInv
BY InitIInv, StepIInv, PTL DEF Spec

(***************************************************************************)
(* Counting modulo Wrap.                                                   *)
(***************************************************************************)
LEMMA RemainderOf ==
  ASSUME NEW q \in Int, NEW r \in Counts
  PROVE  (Wrap * q + r) % Wrap = r
BY ReaderAssumption DEF Counts

LEMMA CountsTurn ==
  ASSUME NEW c \in Counts
  PROVE  /\ c % Wrap = c
         /\ (c + 1) % Wrap = IF c + 1 = Wrap THEN 0 ELSE c + 1
         /\ (c - 1) % Wrap = IF c = 0 THEN Wrap - 1 ELSE c - 1
<1>1. c % Wrap = c
  BY ReaderAssumption DEF Counts
<1>2. (c + 1) % Wrap = IF c + 1 = Wrap THEN 0 ELSE c + 1
  BY ReaderAssumption DEF Counts
<1>3. (c - 1) % Wrap = IF c = 0 THEN Wrap - 1 ELSE c - 1
  <2>1. CASE c = 0
    <3>1. (Wrap * (-1) + (Wrap - 1)) % Wrap = Wrap - 1
       BY ReaderAssumption, RemainderOf DEF Counts
    <3> QED BY ReaderAssumption, <2>1, <3>1 DEF Counts
  <2>2. CASE c # 0
    BY ReaderAssumption, <2>2 DEF Counts
  <2> QED BY <2>1, <2>2
<1> QED BY <1>1, <1>2, <1>3

LEMMA TurnedBack ==
  ASSUME NEW c \in Counts
  PROVE  /\ (((c + 1) % Wrap) - c) % Wrap = 1 % Wrap
         /\ (((c - 1) % Wrap) - c) % Wrap = (-1) % Wrap
         /\ (((c + 1) % Wrap) - 1) % Wrap = c
<1>1. CASE Wrap = 1
  BY ReaderAssumption, <1>1 DEF Counts
<1>2. CASE Wrap > 1
  <2>1. (1 - Wrap) % Wrap = 1 /\ 1 % Wrap = 1
    <3>1. (Wrap * (-1) + 1) % Wrap = 1
      BY ReaderAssumption, RemainderOf, <1>2 DEF Counts
    <3> QED BY ReaderAssumption, <1>2, <3>1
  <2>2. (-1) % Wrap = Wrap - 1 /\ (Wrap - 1) % Wrap = Wrap - 1
    <3>1. (Wrap * (-1) + (Wrap - 1)) % Wrap = Wrap - 1
      BY ReaderAssumption, RemainderOf, <1>2 DEF Counts
    <3> QED BY ReaderAssumption, <1>2, <3>1
  <2>3. (((c + 1) % Wrap) - c) % Wrap = 1 % Wrap
    <3> DEFINE m == (c + 1) % Wrap
    <3>0. c \in Int /\ Wrap \in Int /\ m = IF c + 1 = Wrap THEN 0 ELSE c + 1
      BY ReaderAssumption, CountsTurn DEF Counts
    <3> HIDE DEF m
    <3>1. m - c = IF c + 1 = Wrap THEN 1 - Wrap ELSE 1
      BY <3>0
    <3> USE DEF m
    <3> QED BY <2>1, <3>1
  <2>4. (((c - 1) % Wrap) - c) % Wrap = (-1) % Wrap
    <3> DEFINE m == (c - 1) % Wrap
    <3>0. c \in Int /\ Wrap \in Int /\ m = IF c = 0 THEN Wrap - 1 ELSE c - 1
      BY ReaderAssumption, CountsTurn DEF Counts
    <3> HIDE DEF m
    <3>1. m - c = IF c = 0 THEN Wrap - 1 ELSE -1
      BY <3>0
    <3> USE DEF m
    <3> QED BY <2>2, <3>1
  <2>5. (((c + 1) % Wrap) - 1) % Wrap = c
    <3> DEFINE m == (c + 1) % Wrap
    <3>0. c \in Int /\ Wrap \in Int /\ m = IF c + 1 = Wrap THEN 0 ELSE c + 1
      BY ReaderAssumption, CountsTurn DEF Counts
    <3> HIDE DEF m
    <3>1. m - 1 = IF c + 1 = Wrap THEN -1 ELSE c
      BY <3>0
    <3> USE DEF m
    <3>2. c % Wrap = c
      BY CountsTurn
    <3>3. c + 1 = Wrap => c = Wrap - 1
      BY ReaderAssumption DEF Counts
    <3> QED BY <2>2, <3>1, <3>2, <3>3
  <2> QED BY <2>3, <2>4, <2>5
<1> QED BY ReaderAssumption, <1>1, <1>2

(***************************************************************************)
(* What the reader owes a report of.                                       *)
(***************************************************************************)
LEMMA CountKeepsReported ==
  ASSUME TypeOK, Reported, Count
  PROVE  Reported'
<1> USE DEF Count
<1>1. counter \in Counts /\ rpc = "count" /\ rpc' = "loop"
  BY DEF TypeOK
<1>2. counter' = (counter + 1) % Wrap /\ counter' \in Counts
  BY <1>1, Remainders DEF Counts
<1>3. CASE due = (counter + 1) % Wrap
  <2>1. due' = (counter' + 0) % Wrap
    BY <1>2, <1>3, CountsTurn DEF Counts
  <2> QED BY <1>1, <2>1 DEF Reported, ReportsPackets, Looping
<1>4. CASE ~ KEEP_RUNNING /\ due = counter
  <2>1. due' = (counter' - 1) % Wrap
    BY <1>1, <1>2, <1>4, TurnedBack
  <2> QED BY <1>1, <1>4, <2>1 DEF Reported, ReportsPackets, Looping
<1> QED BY <1>1, <1>3, <1>4 DEF Reported, ReportsPackets, Looping

LEMMA AlarmKeepsReported ==
  ASSUME TypeOK, Reported, Alarm
  PROVE  Reported'
<1> USE DEF Alarm
<1>1. counter \in Counts /\ due' = (due - counter) % Wrap /\ counter' = 0 /\ rpc' = rpc
      /\ KEEP_RUNNING' = KEEP_RUNNING
  BY DEF TypeOK
<1>2. counter % Wrap = counter /\ 0 % Wrap = 0 /\ counter - counter = 0
  BY <1>1, ReaderAssumption, CountsTurn DEF Counts
<1>3. CASE rpc \notin Looping
  BY <1>1, <1>2, <1>3 DEF Reported, ReportsPackets
<1>4. CASE rpc \in Looping /\ due = (counter + (IF rpc = "count" THEN 1 ELSE 0)) % Wrap
  <2>1. CASE rpc = "count"
    <3>1. due' = 1 % Wrap
      BY <1>1, <1>4, <2>1, TurnedBack
    <3> QED BY <1>1, <2>1, <3>1 DEF Reported, ReportsPackets, Looping
  <2>2. CASE rpc # "count"
    <3>1. due = counter
      BY <1>1, <1>2, <1>4, <2>2 DEF Counts
    <3>2. due' = 0 % Wrap
      BY <1>1, <1>2, <3>1
    <3> QED BY <1>1, <2>2, <3>2, <1>4 DEF Reported, ReportsPackets, Looping
  <2> QED BY <2>1, <2>2
<1>5. CASE ~ KEEP_RUNNING /\ rpc = "count" /\ due = counter
  <2>1. due' = 0
    BY <1>1, <1>2, <1>5
  <2> QED BY <1>1, <1>5, <2>1 DEF Reported, ReportsPackets, Looping
<1>6. CASE ~ KEEP_RUNNING /\ rpc = "loop" /\ due = (counter - 1) % Wrap
  <2>1. due' = (-1) % Wrap
    BY <1>1, <1>6, TurnedBack
  <2>2. due' = (counter' - 1) % Wrap
    BY <1>1, <2>1
  <2> QED BY <1>1, <1>6, <2>2 DEF Reported, ReportsPackets, Looping
<1> QED BY <1>3, <1>4, <1>5, <1>6 DEF Reported, ReportsPackets

LEMMA ReadPacketKeepsReported ==
  ASSUME TypeOK, Reported, ReadPacket
  PROVE  Reported'
<1>1. counter \in Counts /\ counter' = counter /\ rpc' = "count"
      /\ due' = (due + 1) % Wrap
  BY DEF TypeOK, ReadPacket
<1>2. due = (counter + 0) % Wrap
  BY DEF Reported, ReportsPackets, Looping, ReadPacket
<1>3. due = counter
  BY <1>1, <1>2, CountsTurn DEF Counts
<1> QED BY <1>1, <1>3 DEF Reported, ReportsPackets, Looping

LEMMA ReadNothingKeepsReported ==
  ASSUME TypeOK, Reported, ReadNothing
  PROVE  Reported'
<1>1. due = counter
  <2>1. due = (counter + 0) % Wrap /\ counter \in Counts
    BY DEF TypeOK, Reported, ReportsPackets, Looping, ReadNothing
  <2> QED BY <2>1, CountsTurn DEF Counts
<1>2. CASE KEEP_RUNNING
  BY <1>2 DEF ReadNothing, Reported, ReportsPackets, Looping
<1>3. CASE ~ KEEP_RUNNING
  BY <1>1, <1>3 DEF ReadNothing, Reported, ReportsPackets, Looping
<1> QED BY <1>2, <1>3

LEMMA StepReported == TypeOK /\ Reported /\ [Next]_vars => Reported'
<1> SUFFICES ASSUME TypeOK, Reported, [Next]_vars PROVE Reported'
  OBVIOUS
<1>1. CASE Count \/ Alarm \/ ReadPacket \/ ReadNothing
  BY <1>1, CountKeepsReported, AlarmKeepsReported, ReadPacketKeepsReported,
     ReadNothingKeepsReported
<1>2. CASE Begin
  <2>1. counter = 0 /\ due = 0 /\ rpc' = "loop" /\ counter' = 0 /\ due' = 0
    BY <1>2 DEF Begin, Reported, Looping
  <2>2. 0 % Wrap = 0 /\ 0 + 0 = 0
    BY ReaderAssumption, CountsTurn DEF Counts
  <2> QED BY <2>1, <2>2 DEF Reported, ReportsPackets, Looping
<1>3. CASE LeaveLoop \/ Kill \/ KillInRead \/ (\E i \in Indices : ConnectFails(i))
  <2>1. rpc' = "down" /\ counter' = 0 /\ due' = 0
    BY <1>3 DEF LeaveLoop, Kill, KillInRead, ConnectFails, Gone
  <2> QED BY <2>1 DEF Reported, ReportsPackets, Looping
<1>4. CASE Start \/ Connect \/ Install
  <2>1. /\ rpc \notin Looping /\ rpc' \notin Looping
        /\ counter' = counter /\ due' = due
    BY <1>4 DEF Start, Connect, Opening, Install, Looping
  <2> QED BY <2>1 DEF Reported, ReportsPackets
<1>5. CASE EnterLoop
  BY <1>5 DEF EnterLoop, Reported, ReportsPackets, Looping
<1>6. CASE Interrupt
  BY <1>6 DEF Interrupt, Reported, ReportsPackets, Looping
<1>7. CASE UNCHANGED <<rpc, KEEP_RUNNING, counter, due>>
  BY <1>7 DEF Reported, ReportsPackets
<1>8. CASE Open \/ Zero \/ OvsRestart \/ CreateFails \/ (\E p \in Pmds : StopThread(p))
             \/ (\E p \in Threads : NewRing(p) \/ Packet(p)) \/ UNCHANGED vars
  BY <1>7, <1>8 DEF Open, Zero, OvsRestart, CreateFails, OvsEnds, StopThread, NewRing, Packet, vars, reader
<1> QED BY <1>1, <1>2, <1>3, <1>4, <1>5, <1>6, <1>8 DEF Next, Reader

(***************************************************************************)
(* The theorems.                                                           *)
(***************************************************************************)

(* Every variable keeps its type, so the reader never reads through a      *)
(* pointer it has not set.                                                 *)
THEOREM TypeCorrect == Spec => []TypeOK
<1>1. IInv => TypeOK
  BY DEF IInv
<1> QED BY <1>1, Inductive, PTL

(* No two running threads write one ring, and each one's name leads to no  *)
(* other ring, over any history of threads and of ovs-vswitchd.                  *)
THEOREM NoSharedRing == Spec => []RingPerThread
<1>1. IInv => RingPerThread
  <2> SUFFICES ASSUME IInv, NEW p \in Threads, trb[p] # None,
                      NEW q \in Threads, trb[q] = trb[p]
               PROVE  shm[tname[p]] \in {trb[p], None} /\ q = p
    BY DEF IInv, Named, RingPerThread
  <2> QED BY DEF IInv, Named
<1> QED BY <1>1, Inductive, PTL

(* A packet leaves its ring only by being read: what a creation zeroes     *)
(* held none.                                                              *)
THEOREM NothingElseEmptiesRings == Spec => PacketsLeaveByReading
<1> DEFINE Kept(s) ==
      \/ Unread(rings[s]') >= Unread(rings[s])
      \/ /\ rpc = "read" /\ rbs[idx] = s
         /\ Unread(rings[s]') = Unread(rings[s]) - 1
         /\ due' = (due + 1) % Wrap \/ (rpc' = "down" /\ cuts' = cuts + 1)
<1>1. ASSUME IInv, Next PROVE \A s \in Segments : Kept(s)
  <2> SUFFICES ASSUME NEW s \in Segments PROVE Kept(s)
    OBVIOUS
  <2>1. rings \in [Segments -> Ring] /\ Unread(rings[s]) \in Nat
    BY <1>1 DEF IInv, TypeOK, Ring, Unread
  <2>2. CASE rings' = rings
    BY <2>1, <2>2
  <2>3. CASE \E p \in Threads : Packet(p)
    <3>1. PICK p \in Threads : Packet(p)
      BY <2>3
    <3>2. trb[p] \in Segments /\ cuts \in Nat /\ Paced(rings[trb[p]], cuts)
      BY <1>1, <3>1 DEF IInv, TypeOK, None, Packet, AllPaced
    <3>3. rings' = [rings EXCEPT ![trb[p]] = write_ringbuffer(rings[trb[p]])]
      BY <3>1 DEF Packet
    <3> QED BY <2>1, <3>2, <3>3, RingSteps
  <2>4. CASE ReadPacket
    <3>1. rbs[idx] \in Segments /\ cuts \in Nat /\ Paced(rings[rbs[idx]], cuts)
      BY <1>1, <2>4, ReadsItsRing DEF ReadPacket
    <3>2. CASE s = rbs[idx]
      BY <2>1, <2>4, <3>1, <3>2, RingSteps DEF ReadPacket
    <3>3. CASE s # rbs[idx]
      BY <2>1, <2>4, <3>1, <3>3 DEF ReadPacket
    <3> QED BY <3>2, <3>3
  <2>7. CASE KillInRead
    <3>1. rbs[idx] \in Segments /\ cuts \in Nat /\ Paced(rings[rbs[idx]], cuts)
      BY <1>1, <2>7, ReadsItsRing DEF KillInRead
    <3>2. PICK c \in CutShort(rings[rbs[idx]]) : rings' = [rings EXCEPT ![rbs[idx]] = c]
      BY <2>7 DEF KillInRead
    <3>3. Unread(c) = Unread(rings[rbs[idx]]) - 1
      BY <2>1, <2>7, <3>1, <3>2, RingSteps DEF KillInRead
    <3>4. CASE s = rbs[idx]
      BY <2>1, <2>7, <3>1, <3>2, <3>3, <3>4 DEF KillInRead, Gone
    <3>5. CASE s # rbs[idx]
      BY <2>1, <3>1, <3>2, <3>5
    <3> QED BY <3>4, <3>5
  <2>5. CASE Zero
    BY <1>1, <2>2, <2>5, ZeroKeeps
  <2>6. \/ rings' = rings \/ (\E p \in Threads : Packet(p)) \/ ReadPacket \/ KillInRead \/ Zero
    BY <1>1
    DEF Next, NewRing, StopThread, Open, OvsRestart, CreateFails, OvsEnds,
        ConnectFails, Reader, Start, Connect, Install,
        Begin, EnterLoop, LeaveLoop, ReadNothing, Count, Alarm, Interrupt, Kill, Gone
  <2> QED BY <2>2, <2>3, <2>4, <2>5, <2>6, <2>7
<1>2. IInv /\ [Next]_vars => [\A s \in Segments : Kept(s)]_vars
  BY <1>1
<1> QED BY <1>2, Inductive, PTL DEF Spec, PacketsLeaveByReading

(* With room for both unpublished batches and a slot for each read a       *)
(* reader died in, a full ring has packets its reader can see: the thread  *)
(* and the reader never wait for each other                                *)
(* (ringbuffer_user.cpp:273-289).                                          *)
THEOREM FullRingsReadable == Spec => []FullRingReadable
<1>1. IInv => FullRingReadable
  <2> SUFFICES ASSUME IInv, RoomFor(cuts), NEW p \in Threads,
                      trb[p] # None, ~ HasRoom(rings[trb[p]])
               PROVE  HasPacket(rings[trb[p]])
    BY DEF FullRingReadable
  <2>1. PICK r : r = rings[trb[p]]
    OBVIOUS
  <2>2. r \in Ring /\ Paced(r, cuts) /\ cuts \in Nat
    BY <2>1 DEF IInv, TypeOK, AllPaced, None
  <2>3. /\ r.unshown \in Nat /\ r.shown \in Nat /\ r.held \in Nat
        /\ r.unshown < RB_BATCH /\ r.held < RB_BATCH + cuts
    BY <2>2 DEF Ring, Paced
  <2>4. ~ (r.unshown + r.shown + r.held < RB_SIZE - 1)
    BY <2>1 DEF HasRoom, Stored, Unread
  <2>5. r.shown > 0
    BY <2>2, <2>3, <2>4, ReaderAssumption DEF RoomFor
  <2> QED BY <2>1, <2>5 DEF HasPacket
<1> QED BY <1>1, Inductive, PTL

(* Every packet read is in the counter or was printed, the one in hand and *)
(* the last round after SIGINT apart, wherever an alarm comes.             *)
THEOREM PacketsReported == Spec => []ReportsPackets
<1>1. Init => Reported
  BY DEF Init, Down, Reported, ReportsPackets, Looping
<1>2. Reported => ReportsPackets
  BY DEF Reported
<1> QED BY <1>1, <1>2, StepReported, TypeCorrect, PTL DEF Spec
=============================================================================
