---------------------------- MODULE RAIDAnimation ----------------------------
(***************************************************************************)
(* hw38-file-raid/raid-graphics.py: four disks that seek and transfer at   *)
(* the same time, and a queue of reads and writes of blocks from which     *)
(* each idle disk takes what it can do next.  A step is a tick, a call of  *)
(* Animate(), in which the disks move one after the other.  Rows are 20    *)
(* pixels high, the first one is at 0.  Drawing, times and the button that *)
(* pauses are left out.                                                    *)
(***************************************************************************)
EXTENDS Integers, Sequences, FiniteSetsExt, Functions

CONSTANTS
  Transfer,   \* ticks that a transfer takes behind a seek
  Inputs      \* the options

VARIABLES
  input,    \* mapping (0, 1, 4 or 5), window, seek_speed, requests: <<op, block>>
  self,     \* the disks, the requests' status and disk_to_index_map, the counts
  phase     \* "new" (not started), "run" or "end"

vars == <<input, self, phase>>

Disks == 0 .. 3
Height == 20
None == 0

Queue == DOMAIN input.requests
Type(k) == input.requests[k][1]
Logical(k) == input.requests[k][2]

-----------------------------------------------------------------------------
(* Where the block of a request is.                                        *)

\* The blocks of a row; the other disk has their parity, or there is none.
RowLength == CASE input.mapping = 0 -> 4 [] input.mapping = 1 -> 2 [] OTHER -> 3

Offset(k) == Logical(k) \div RowLength
Column(k) == Logical(k) % RowLength

ParityDisk(k) == IF input.mapping = 4 THEN 3 ELSE 3 - (Offset(k) % 4)

\* phys_disk_list: the data, then the copy or the parity.
PhysDiskList(k) ==
  CASE input.mapping = 0 -> <<Column(k)>>
    [] input.mapping = 1 -> <<2 * Column(k), 2 * Column(k) + 1>>
    [] OTHER -> <<IF Column(k) >= ParityDisk(k) THEN Column(k) + 1 ELSE Column(k),
                  ParityDisk(k)>>

\* Three requests in a row of the queue are taken for a write of a full stripe
\* when their blocks follow one another: the last of them writes the parity.
FullStripe(k) ==
  LET first == k - ((k - 1) % 3)
  IN IF /\ input.mapping = 4 /\ first + 2 \in Queue
        /\ Logical(first + 1) = Logical(first) + 1
        /\ Logical(first + 2) = Logical(first) + 2
     THEN IF k = first + 2 THEN "parity" ELSE "data"
     ELSE "no"

Writes == {k \in Queue : Type(k) = "write"}

\* The I/Os to be done: a small write is two reads and two writes, four are
\* enough for three writes of a full stripe.
RequestCountNeeded ==
  Cardinality(Queue)
    + CASE input.mapping = 0 -> 0
        [] input.mapping = 1 -> Cardinality(Writes)
        [] OTHER -> 3 * Cardinality(Writes)
                      - 8 * Cardinality({k \in Queue : FullStripe(k) = "parity"})

\* disk_to_index_map
OnDisk(k, d) == d \in DOMAIN self.index[k]
IndexOf(k, d) == self.index[k][d]

-----------------------------------------------------------------------------
(* Scheduling: the status of a request when disk d has begun with it, the  *)
(* same when d has nothing to do for it.                                   *)

Doing(op) == IF op = "read" THEN "DO_READ" ELSE "DO_WRITE"

DoStripeScheduling(status, d, k) ==
  IF status[1] = "NOT_STARTED" /\ OnDisk(k, d) THEN <<Doing(Type(k))>> ELSE status

\* Either copy is read, both are written.
DoMirrorScheduling(status, d, k) ==
  IF ~OnDisk(k, d) \/ status[IndexOf(k, d)] # "NOT_STARTED" THEN status
  ELSE IF Type(k) = "read"
       THEN [i \in 1 .. 2 |-> IF i = IndexOf(k, d) THEN "DO_READ" ELSE "DONE"]
       ELSE [status EXCEPT ![IndexOf(k, d)] = "DO_WRITE"]

\* A write begins with a read of the old data and of the old parity.
DoRaid5Scheduling(status, d, k) ==
  IF ~OnDisk(k, d) THEN status
  ELSE LET i == IndexOf(k, d)
       IN CASE Type(k) = "read" /\ i = 1 /\ status[1] = "NOT_STARTED" ->
                 [status EXCEPT ![1] = "DO_READ"]
            [] Type(k) = "write" /\ status[i] = "NOT_STARTED" ->
                 [status EXCEPT ![i] = "DO_READ"]
            [] Type(k) = "write" /\ status[i] = "PARITY_WRITE_PHASE_BEGIN" ->
                 [status EXCEPT ![i] = "DO_WRITE"]
            [] OTHER -> status

\* A full stripe needs no reads, and its parity once only.
DoRaid4Scheduling(status, d, k) ==
  IF Type(k) = "read" \/ FullStripe(k) = "no" THEN DoRaid5Scheduling(status, d, k)
  ELSE IF ~OnDisk(k, d) \/ status[IndexOf(k, d)] # "NOT_STARTED" THEN status
  ELSE [i \in 1 .. 2 |-> IF i = IndexOf(k, d) THEN "DO_WRITE"
                         ELSE IF FullStripe(k) = "data" THEN "DONE"
                         ELSE status[i]]

Scheduled(status, d, k) ==
  CASE input.mapping = 0 -> DoStripeScheduling(status, d, k)
    [] input.mapping = 1 -> DoMirrorScheduling(status, d, k)
    [] input.mapping = 4 -> DoRaid4Scheduling(status, d, k)
    [] input.mapping = 5 -> DoRaid5Scheduling(status, d, k)

StartRequest(s, d, k) ==
  LET status == Scheduled(s.status[k], d, k)
      target == Height * Offset(k)
  IN [s EXCEPT
        !.status[k] = status,
        !.disks[d].state = "SEEK",
        !.disks[d].optype = IF status[IndexOf(k, d)] = "DO_READ" THEN "read" ELSE "write",
        !.disks[d].last = s.disks[d].target,
        !.disks[d].target = k,
        !.disks[d].delta = IF s.disks[d].head < target THEN input.seek_speed
                           ELSE -input.seek_speed]

InWindow(s) == {k \in Queue : s.window = -1 \/ k <= s.window}

\* An idle disk takes the first request of the window that it can do.
NextIO(s, d) ==
  LET possible == {k \in InWindow(s) : Scheduled(s.status[k], d, k) # s.status[k]}
  IN IF s.disks[d].state # "NULL" \/ possible = {} THEN s
     ELSE StartRequest(s, d, Min(possible))

NextIOs(states, d) == {NextIO(s, d) : s \in states}

\* The set of the one state that s becomes.
GetNextIOs(s) ==
  IF s.request_count = s.request_count_needed THEN {[s EXCEPT !.is_done = TRUE]}
  ELSE NextIOs(NextIOs(NextIOs(NextIOs({s}, 0), 1), 2), 3)

-----------------------------------------------------------------------------
(* The end of an I/O: the status of its request.                           *)

RequestLevel1Done(status, i) == [status EXCEPT ![i] = "DONE"]

RequestLevel4Done(status, i, k) ==
  LET next == CASE status[i] = "DO_READ" -> "PARITY_READ_PHASE_DONE"
                [] status[i] = "DO_WRITE" -> "DONE"
      ended == [status EXCEPT ![i] = next]
  IN CASE Type(k) = "read" -> status
       [] ended = <<"PARITY_READ_PHASE_DONE", "PARITY_READ_PHASE_DONE">> ->
            <<"PARITY_WRITE_PHASE_BEGIN", "PARITY_WRITE_PHASE_BEGIN">>
       [] OTHER -> ended

MarkDone(s, d) ==
  LET disk == s.disks[d]
      k == disk.target
      i == IndexOf(k, d)
      status == IF input.mapping \in {0, 1} THEN RequestLevel1Done(s.status[k], i)
                ELSE RequestLevel4Done(s.status[k], i, k)
      done == \/ input.mapping \in {4, 5} /\ Type(k) = "read"
              \/ \A j \in DOMAIN status : status[j] = "DONE"
  IN [s EXCEPT
        !.status[k] = status,
        !.disks[d].state = "NULL",
        !.disks[d].reads = IF disk.optype = "read" THEN @ + 1 ELSE @,
        !.disks[d].writes = IF disk.optype = "write" THEN @ + 1 ELSE @,
        !.request_count = @ + 1,
        !.logical_requests = IF done THEN @ + 1 ELSE @,
        !.window = IF done /\ @ > 0 THEN @ + 1 ELSE @]

-----------------------------------------------------------------------------
(* The simulation.                                                         *)

NewDisk ==
  [state |-> "NULL", target |-> None, last |-> None, optype |-> "",
   head |-> 0, delta |-> 0, transfer |-> 0, reads |-> 0, writes |-> 0]

Init ==
  /\ input \in Inputs
  /\ self = [disks |-> [d \in Disks |-> NewDisk],
             status |-> [k \in Queue |-> [i \in DOMAIN PhysDiskList(k) |-> "NOT_STARTED"]],
             window |-> input.window, request_count |-> 0, logical_requests |-> 0,
             is_done |-> FALSE, request_count_needed |-> RequestCountNeeded,
             index |-> [k \in Queue |-> AntiFunction(PhysDiskList(k))]]
  /\ phase = "new"

\* The next row is transferred without waiting for the disk to turn.
TransferCount(disk) ==
  LET last == IF disk.last = None THEN -1 ELSE Offset(disk.last)
  IN IF Offset(disk.target) = last + 1 THEN 1 ELSE Transfer

MoveHead(s, d) ==
  LET disk == s.disks[d]
  IN IF disk.state # "SEEK" THEN s
     ELSE IF disk.head = Height * Offset(disk.target)
          THEN [s EXCEPT !.disks[d].state = "XFER",
                         !.disks[d].transfer = TransferCount(disk)]
          ELSE [s EXCEPT !.disks[d].head = @ + disk.delta]

\* What an I/O that has ended lets the disks do, is done in the same tick.
TransferBlock(s, d) ==
  LET disk == s.disks[d]
  IN CASE disk.state # "XFER" -> {s}
       [] disk.transfer > 1 -> {[s EXCEPT !.disks[d].transfer = @ - 1]}
       [] OTHER -> UNION {GetNextIOs(e) : e \in {MarkDone([s EXCEPT !.disks[d].transfer = 0], d)}}

AnimateDisk(states, d) ==
  UNION {TransferBlock(moved, d) : moved \in {MoveHead(s, d) : s \in states}}

Start ==
  /\ phase = "new"
  /\ self' \in GetNextIOs(self)
  /\ phase' = "run"
  /\ UNCHANGED input

Animate ==
  /\ phase = "run"
  /\ self' \in AnimateDisk(AnimateDisk(AnimateDisk(AnimateDisk({self}, 0), 1), 2), 3)
  /\ phase' = IF self'.is_done THEN "end" ELSE "run"
  /\ UNCHANGED input

Step == Start \/ Animate

Ended == phase = "end" /\ UNCHANGED vars

Next == Step \/ Ended

Spec == Init /\ [][Next]_vars

-----------------------------------------------------------------------------
(* Properties.                                                             *)

InService(k, i) == self.status[k][i] \in {"DO_READ", "DO_WRITE"}
Busy(d) == self.disks[d].state # "NULL"

\* Status DONE, or a read of RAID-4 or -5, whose status stays.
Served(k) ==
  \/ \A i \in DOMAIN self.status[k] : self.status[k][i] = "DONE"
  \/ /\ input.mapping \in {4, 5} /\ Type(k) = "read"
     /\ self.status[k][1] = "DO_READ"
     /\ ~\E d \in Disks : Busy(d) /\ self.disks[d].target = k

Begun(k) == self.status[k] # [i \in DOMAIN self.status[k] |-> "NOT_STARTED"]

\* A disk is busy with what the status of its request says, an I/O in service is
\* the target of its disk, and all the counts are those of I/Os and requests
\* (raid-graphics.py:598-605, 823-846).
TypeOK ==
  /\ \A d \in Disks : Busy(d) =>
       LET disk == self.disks[d]
       IN self.status[disk.target][IndexOf(disk.target, d)] = Doing(disk.optype)
  /\ \A k \in Queue : \A i \in DOMAIN PhysDiskList(k) :
       InService(k, i) /\ ~Served(k) =>
         /\ Busy(PhysDiskList(k)[i])
         /\ self.disks[PhysDiskList(k)[i]].target = k
  /\ self.request_count = SumFunction([d \in Disks |-> self.disks[d].reads + self.disks[d].writes])
  /\ self.logical_requests = Cardinality({k \in Queue : Served(k)})

\* A small write has one phase on both of its disks, whichever of them is first:
\* neither writes before both have read (raid-graphics.py:117-132).
ReadsBeforeWrites ==
  input.mapping \in {4, 5} =>
    \A k \in Writes :
      FullStripe(k) = "no" /\ Begun(k) =>
        LET reading == {"NOT_STARTED", "DO_READ", "PARITY_READ_PHASE_DONE"}
        IN \/ \A i \in 1 .. 2 : self.status[k][i] \in reading
           \/ \A i \in 1 .. 2 : self.status[k][i] \notin reading

\* No more requests are under way than the window holds, although it moves with
\* their ends, which come in any order; with a window of 1, the read and the
\* write of a parity have no other write between them (raid-graphics.py:843-844).
WindowHolds ==
  input.window # -1 =>
    Cardinality({k \in Queue : Begun(k) /\ ~Served(k)}) <= input.window

\* The simulation ends when every request is served, not before: then every
\* disk has written what the writes need, and no more (raid-graphics.py:758-765).
EndsServed ==
  self.is_done =>
    /\ \A k \in Queue : Served(k)
    /\ \A d \in Disks :
         self.disks[d].writes =
           Cardinality({k \in Writes :
                          \/ PhysDiskList(k)[1] = d
                          \/ OnDisk(k, d) /\ FullStripe(k) # "data"})

=============================================================================
