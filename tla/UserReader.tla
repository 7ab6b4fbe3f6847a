----------------------------- MODULE UserReader -----------------------------
(***************************************************************************)
(* The OVS side of the measurement as a whole: the threads of Open vSwitch *)
(* that the patch gives a ring each, the names and segments of shared      *)
(* memory they leave behind, and main of OVS/user_reader/user_reader.cpp,  *)
(* which connects to MAX_RINGBUFFER_NUM rings by name, reads them in turn, *)
(* counts the packets and is sent signals.                                 *)
(*                                                                         *)
(* A ring is its counts (RingCounts), and a whole write_ringbuffer or      *)
(* read_ringbuffer is one step, or what is left of a read the reader dies  *)
(* in.  RingBuffer has the steps inside the calls and implements them with *)
(* BatchedRing.  Packets never run out, so counters are kept modulo Wrap.  *)
(*                                                                         *)
(* When a thread is created or destroyed, and when ovs-vswitchd or the     *)
(* reader is started, is up to Open vSwitch and its operator.              *)
(***************************************************************************)
EXTENDS RingCounts

CONSTANTS
  MAX_RINGBUFFER_NUM,  (* rings the reader opens                           *)
  Pmds,         (* the PMD threads                                         *)
  NonPmd,       (* the thread of NON_PMD_CORE_ID                           *)
  Wrap,         (* counters are kept modulo Wrap                           *)
  MaxSegments,  (* bound: segments of shared memory ever created           *)
  MaxCuts       (* bound: reads the reader dies in                         *)

ASSUME ReaderAssumption ==
  /\ RB_BATCH \in Nat \ {0} /\ RB_SIZE \in Nat
  /\ 2 * RB_BATCH <= RB_SIZE
  /\ MAX_RINGBUFFER_NUM \in Nat \ {0}
  /\ Wrap \in Nat \ {0}
  /\ MaxSegments \in Nat /\ MaxCuts \in Nat
  /\ NonPmd \notin Pmds

VARIABLES
  local_index,  (* the static counter that PMD rings are named from        *)
  making,       (* the ring being created, or none                         *)
  tname, trb,   (* of each thread, the name its ring got, and pmd->rb      *)
  shm,          (* the segment each name leads to                          *)
  allocated,    (* segments created so far                                 *)
  rings,        (* the ring in each segment                                *)
  rpc,          (* where main of the reader is                             *)
  rbs,          (* the segments it has mapped                              *)
  idx,          (* the ring it polls                                       *)
  KEEP_RUNNING,
  term,         (* t.flag == TUPLE_TERM                                    *)
  counter,      (* packets counted since the last alarm                    *)
  due,          (* history: packets read by this process and not printed   *)
  cuts          (* history: reads a reader died in                         *)

ovs    == <<local_index, making, tname, trb, shm, allocated>>
reader == <<rpc, rbs, idx, KEEP_RUNNING, term, counter, due, cuts>>
vars   == <<ovs, rings, reader>>

None     == 0
Threads  == Pmds \cup {NonPmd}
Segments == 1 .. MaxSegments
Indices  == 0 .. MAX_RINGBUFFER_NUM - 1
Names    == 0 .. MaxSegments        (* name i stands for "/rb_i"           *)
Counts   == 0 .. Wrap - 1

Idle   == [thread |-> NonPmd, name |-> 0, segment |-> None, busy |-> FALSE]
Making == [thread : Threads, name : Names, segment : Segments \cup {None},
           busy : BOOLEAN]

(* Before the handlers are installed, a signal ends the process; between   *)
(* that and the loop it is handled and KEEP_RUNNING set again.             *)
Handling == {"begin", "loop", "read", "count"}
Looping  == {"loop", "read", "count"}
Places   == {"down", "connect", "install"} \cup Handling

(* What a new process starts with: its globals are zero.                   *)
Down ==
  /\ rpc = "down" /\ rbs = [i \in Indices |-> None] /\ idx = 0
  /\ KEEP_RUNNING = FALSE /\ term = FALSE /\ counter = 0 /\ due = 0

Init ==
  /\ local_index = 1 /\ making = Idle
  /\ tname = [p \in Threads |-> 0] /\ trb = [p \in Threads |-> None]
  /\ shm = [n \in Names |-> None] /\ allocated = 0
  /\ rings = [s \in Segments |-> Zeroed] /\ cuts = 0
  /\ Down

(***************************************************************************)
(* Open vSwitch.                                                           *)
(***************************************************************************)

(* dp_netdev_configure_pmd names the ring of a thread without one.         *)
NextIndexKept(p) == local_index
NextIndex(p) == IF p = NonPmd THEN local_index ELSE local_index + 1
NewRing(p) ==
  /\ ~ making.busy /\ trb[p] = None
  /\ allocated < MaxSegments
  /\ making' = [thread |-> p, name |-> IF p = NonPmd THEN 0 ELSE local_index,
                segment |-> None, busy |-> TRUE]
  /\ local_index' = NextIndex(p)
  /\ UNCHANGED <<tname, trb, shm, allocated, rings, reader>>

(* create_ringbuffer_shm: shm_unlink takes the name off the segment it may *)
(* still lead to, and shm_open, exclusive, makes a new one for it.         *)
OpenKept ==
  /\ making.busy /\ making.segment = None
  /\ LET s == IF shm[making.name] = None THEN allocated + 1 ELSE shm[making.name]
     IN  /\ allocated' = IF shm[making.name] = None THEN s ELSE allocated
         /\ shm' = [shm EXCEPT ![making.name] = s]
         /\ making' = [making EXCEPT !.segment = s]
  /\ UNCHANGED <<local_index, tname, trb, rings, reader>>
Open ==
  /\ making.busy /\ making.segment = None
  /\ allocated' = allocated + 1
  /\ shm' = [shm EXCEPT ![making.name] = allocated']
  /\ making' = [making EXCEPT !.segment = allocated']
  /\ UNCHANGED <<local_index, tname, trb, rings, reader>>

(* Every field and slot is zeroed, perhaps under a reader that has already *)
(* mapped the segment, and the thread gets the ring.                       *)
Zero ==
  /\ making.busy /\ making.segment # None
  /\ rings' = [rings EXCEPT ![making.segment] = Zeroed]
  /\ trb' = [trb EXCEPT ![making.thread] = making.segment]
  /\ tname' = [tname EXCEPT ![making.thread] = making.name]
  /\ making' = Idle
  /\ UNCHANGED <<local_index, shm, allocated, reader>>

(* A packet gets through the while around write_ringbuffer.  As long as    *)
(* the ring has no room the thread spins.                                  *)
Packet(p) ==
  /\ trb[p] # None
  /\ HasRoom(rings[trb[p]])
  /\ rings' = [rings EXCEPT ![trb[p]] = write_ringbuffer(@)]
  /\ UNCHANGED <<ovs, reader>>

(* Open vSwitch destroys a PMD thread when its PMD cores are configured    *)
(* anew.  Nothing gives its index back or closes its ring.                 *)
StopThread(p) ==
  /\ trb[p] # None
  /\ trb' = [trb EXCEPT ![p] = None] /\ tname' = [tname EXCEPT ![p] = 0]
  /\ UNCHANGED <<local_index, making, shm, allocated, rings, reader>>

(* ovs-vswitchd ends and is started again: names and segments stay.  A     *)
(* creation whose system calls fail ends it too, and leaves no name.       *)
OvsEnds ==
  /\ local_index' = 1 /\ making' = Idle
  /\ trb' = [p \in Threads |-> None] /\ tname' = [p \in Threads |-> 0]
  /\ UNCHANGED <<allocated, rings, reader>>
OvsRestart == OvsEnds /\ UNCHANGED shm
CreateFails ==
  /\ making.busy
  /\ shm' = [shm EXCEPT ![making.name] = None]
  /\ OvsEnds

(***************************************************************************)
(* The reader.                                                             *)
(***************************************************************************)
Start ==
  /\ rpc = "down" /\ rpc' = "connect"
  /\ UNCHANGED <<ovs, rings, rbs, idx, KEEP_RUNNING, term, counter, due, cuts>>

(* connect_ringbuffer_shm spins until the name exists and returns before   *)
(* it would wait for the creation to be complete; it changes nothing in    *)
(* the segment.                                                            *)
ToConnect == {i \in Indices : rbs[i] = None}
Opening(i) ==
  /\ rpc = "connect"
  /\ i \in ToConnect /\ \A j \in ToConnect : i <= j
  /\ i \in Names /\ shm[i] # None
Connect ==
  /\ \E i \in Indices :
       /\ Opening(i)
       /\ rbs' = [rbs EXCEPT ![i] = shm[i]]
       /\ rpc' = IF ToConnect = {i} THEN "install" ELSE "connect"
  /\ UNCHANGED <<ovs, rings, idx, KEEP_RUNNING, term, counter, due, cuts>>

(* From here on signals are handled, and the first alarm is set.           *)
Install ==
  /\ rpc = "install" /\ rpc' = "begin"
  /\ UNCHANGED <<ovs, rings, rbs, idx, KEEP_RUNNING, term, counter, due, cuts>>

(* t was never assigned when its flag is first looked at.                  *)
Begin ==
  /\ rpc = "begin" /\ rpc' = "loop"
  /\ idx' = 0 /\ KEEP_RUNNING' = TRUE /\ term' \in BOOLEAN
  /\ UNCHANGED <<ovs, rings, rbs, counter, due, cuts>>

EnterLoop ==
  /\ rpc = "loop" /\ KEEP_RUNNING /\ ~ term
  /\ rpc' = "read"
  /\ UNCHANGED <<ovs, rings, rbs, idx, KEEP_RUNNING, term, counter, due, cuts>>

(* The process ends; main prints nothing any more, and what is in the      *)
(* shared memory stays.                                                    *)
Gone ==
  /\ rpc' = "down" /\ rbs' = [i \in Indices |-> None] /\ idx' = 0
  /\ KEEP_RUNNING' = FALSE /\ term' = FALSE /\ counter' = 0 /\ due' = 0

(* A system call fails on an opened ring: the ring loses its name.         *)
ConnectFails(i) ==
  /\ Opening(i)
  /\ shm' = [shm EXCEPT ![i] = None]
  /\ Gone
  /\ UNCHANGED <<local_index, making, tname, trb, allocated, rings, cuts>>
LeaveLoop ==
  /\ rpc = "loop" /\ (~ KEEP_RUNNING \/ term)
  /\ Gone /\ UNCHANGED <<ovs, rings, cuts>>

(* The PMD thread never assigns the flag of the tuples it writes.          *)
ReadPacket ==
  /\ rpc = "read" /\ HasPacket(rings[rbs[idx]])
  /\ rings' = [rings EXCEPT ![rbs[idx]] = read_ringbuffer(@)]
  /\ term' \in BOOLEAN
  /\ due' = (due + 1) % Wrap
  /\ rpc' = "count"
  /\ UNCHANGED <<ovs, rbs, idx, KEEP_RUNNING, counter, cuts>>

(* Only an empty ring makes the reader move on; told to stop, it leaves    *)
(* the inner loop without a packet.                                        *)
NextRingSkipLast(i) == IF i + 2 >= MAX_RINGBUFFER_NUM THEN 0 ELSE i + 1
NextRing(i) == (i + 1) % MAX_RINGBUFFER_NUM
ReadNothingRotate ==
  /\ rpc = "read" /\ ~ HasPacket(rings[rbs[idx]])
  /\ idx' = NextRing(idx)
  /\ UNCHANGED <<ovs, rings, rpc, rbs, KEEP_RUNNING, term, counter, due, cuts>>
ReadNothing ==
  /\ rpc = "read" /\ ~ HasPacket(rings[rbs[idx]])
  /\ IF KEEP_RUNNING
     THEN idx' = NextRing(idx) /\ UNCHANGED rpc
     ELSE rpc' = "count" /\ UNCHANGED idx
  /\ UNCHANGED <<ovs, rings, rbs, KEEP_RUNNING, term, counter, due, cuts>>

Count ==
  /\ rpc = "count" /\ rpc' = "loop"
  /\ counter' = (counter + 1) % Wrap
  /\ UNCHANGED <<ovs, rings, rbs, idx, KEEP_RUNNING, term, due, cuts>>

(* handler: SIGALRM prints the counter and clears it, SIGINT ends the loop.*)
AlarmNoReset ==
  /\ rpc \in Handling
  /\ due' = (due - counter) % Wrap
  /\ UNCHANGED <<ovs, rings, rpc, rbs, idx, KEEP_RUNNING, term, counter, cuts>>
Alarm ==
  /\ rpc \in Handling
  /\ due' = (due - counter) % Wrap /\ counter' = 0
  /\ UNCHANGED <<ovs, rings, rpc, rbs, idx, KEEP_RUNNING, term, cuts>>

Interrupt ==
  /\ rpc \in Handling /\ KEEP_RUNNING' = FALSE
  /\ UNCHANGED <<ovs, rings, rpc, rbs, idx, term, counter, due, cuts>>

(* Any signal that is not handled, or SIGINT before it is.                 *)
Kill == rpc # "down" /\ Gone /\ UNCHANGED <<ovs, rings, cuts>>

(* One that comes in the middle of a read.                                 *)
KillInRead ==
  /\ rpc = "read" /\ HasPacket(rings[rbs[idx]])
  /\ cuts < MaxCuts /\ cuts' = cuts + 1
  /\ \E r \in CutShort(rings[rbs[idx]]) : rings' = [rings EXCEPT ![rbs[idx]] = r]
  /\ Gone /\ UNCHANGED ovs

Reader == Connect \/ Install \/ Begin \/ EnterLoop \/ LeaveLoop \/ ReadPacket
            \/ ReadNothing \/ Count

Next ==
  \/ \E p \in Threads : NewRing(p) \/ Packet(p)
  \/ \E p \in Pmds : StopThread(p)
  \/ Open \/ Zero \/ OvsRestart \/ CreateFails
  \/ \E i \in Indices : ConnectFails(i)
  \/ Start \/ Reader \/ Alarm \/ Interrupt \/ Kill \/ KillInRead

Spec == Init /\ [][Next]_vars

(* The reader spins in its own process; nothing else has to happen.        *)
FairSpec == Spec /\ WF_vars(Reader)

(***************************************************************************)
(* Properties.                                                             *)
(***************************************************************************)
TypeOK ==
  /\ local_index \in Nat /\ making \in Making
  /\ tname \in [Threads -> Names]
  /\ trb \in [Threads -> Segments \cup {None}]
  /\ shm \in [Names -> Segments \cup {None}]
  /\ allocated \in 0 .. MaxSegments
  /\ rings \in [Segments -> Ring]
  /\ rpc \in Places
  /\ rbs \in [Indices -> Segments \cup {None}]
  /\ idx \in Indices
  /\ KEEP_RUNNING \in BOOLEAN /\ term \in BOOLEAN
  /\ counter \in Counts /\ due \in Counts
  /\ cuts \in 0 .. MaxCuts

(* Every thread has a ring of its own, as a ring is made for one writer,   *)
(* and the name it was created under leads to no other ring, so that a     *)
(* reader that opens the name now reads this thread: across threads        *)
(* destroyed and created, failures, and starts of ovs-vswitchd over names  *)
(* an earlier one left.  (A reader that fails to connect takes the name    *)
(* away, so the name may lead to nothing.)                                 *)
RingPerThread ==
  \A p \in Threads : trb[p] # None =>
    /\ shm[tname[p]] \in {trb[p], None}
    /\ \A q \in Threads : trb[q] = trb[p] => q = p

(* A packet leaves a ring only by being read from it, by a reader that     *)
(* counts it as due or dies in that read: no creation, restart or          *)
(* connection empties a ring that has packets for a reader.                *)
PacketsLeaveByReading ==
  [][\A s \in Segments :
       \/ Unread(rings[s]') >= Unread(rings[s])
       \/ /\ rpc = "read" /\ rbs[idx] = s
          /\ Unread(rings[s]') = Unread(rings[s]) - 1
          /\ due' = (due + 1) % Wrap \/ (rpc' = "down" /\ cuts' = cuts + 1)]_vars

(* Every packet read is printed once: the counts printed and the counter   *)
(* together are the packets read, but for the one being counted.  Only     *)
(* the last round, after SIGINT, may count a packet that was not read.     *)
ReportsPackets ==
  rpc \in Looping =>
    \/ due = (counter + (IF rpc = "count" THEN 1 ELSE 0)) % Wrap
    \/ ~ KEEP_RUNNING /\ rpc = "count" /\ due = counter
    \/ ~ KEEP_RUNNING /\ rpc = "loop" /\ due = (counter - 1) % Wrap

(* Once SIGINT was seen in the loop the reader ends, also when every ring  *)
(* stays empty.                                                            *)
StopsWhenTold == (rpc \in Looping /\ ~ KEEP_RUNNING) ~> (rpc = "down")

(* A thread that finds its ring full waits for a reader that finds packets *)
(* in it, never for one that waits for the thread to show them.  Each read *)
(* a reader dies in may leave rBatchCount one behind the slots held, so    *)
(* this takes a ring that holds both unpublished batches and a slot for    *)
(* each such read; without that room the two do wait for each other.       *)
RoomFor(n) == RB_SIZE > 2 * RB_BATCH - 1 + n
FullRingReadable ==
  RoomFor(cuts) =>
    \A p \in Threads :
      trb[p] # None /\ ~ HasRoom(rings[trb[p]]) => HasPacket(rings[trb[p]])

(* So a ring that stays full under a reader that has mapped it and stays   *)
(* in its loop, and whose thread spins for ever, is full because the       *)
(* reader reads another ring for ever: it leaves a ring only when it finds *)
(* it empty.                                                               *)
Neglected(p, i) ==
  /\ rpc \in Looping
  /\ trb[p] # None /\ rbs[i] = trb[p] /\ ~ HasRoom(rings[trb[p]])
FullRingServed ==
  RoomFor(MaxCuts) =>
    \A p \in Threads, i \in Indices :
      <>[]Neglected(p, i) =>
        \E j \in Indices \ {i} : <>[](idx = j) /\ []<>(rpc = "count")
=============================================================================
