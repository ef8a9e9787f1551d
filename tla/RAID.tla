-------------------------------- MODULE RAID --------------------------------
(***************************************************************************)
(* hw38-file-raid/raid.py: the blocks that a RAID of level 0, 1, 4 or 5    *)
(* reads and writes for a request, and the statistics of its disks.  A     *)
(* request is a step, but for a write of level 4 or 5, which is a step per *)
(* stripe.  Sizes are in blocks, times in units of xferTime (0.1 ms).      *)
(***************************************************************************)
EXTENDS Integers, Sequences, SequencesExt, FiniteSetsExt

CONSTANTS
  NumTracks, BlocksPerTrack,   \* of a disk
  SeekTime,
  Inputs                       \* the options

VARIABLES
  input,    \* level, raid5type, numDisks, chunkSize, workload, size, range, ...
  self,     \* the disks, the request and its I/Os, the requests left
  phase     \* "run", "write" (in enqueue45()), "end" or "assert"

vars == <<input, self, phase>>

Disks == 0 .. input.numDisks - 1
BlocksPerDisk == NumTracks * BlocksPerTrack

\* The current location is negative so that the first access seeks.
NewDisk == [currAddr |-> -10000, countIO |-> 0, countSeq |-> 0, countNseq |-> 0,
            countRand |-> 0, utilTime |-> 0]

NoRequest == [addr |-> 0, size |-> 0, isWrite |-> FALSE]

Init ==
  /\ input \in Inputs
  /\ self = [disks |-> [d \in Disks |-> NewDisk],
             request |-> NoRequest, ios |-> <<>>,
             stripe |-> 0, begin |-> 0, left |-> 0,
             requests |-> input.numRequests, off |-> 0]
  /\ phase = "run"

-----------------------------------------------------------------------------
(* Where blocks are: <<disk, offset>>.                                     *)

Chunk(bnum) == bnum \div input.chunkSize
OffsetIn(row, bnum) == row * input.chunkSize + (bnum % input.chunkSize)

BMap0(bnum) ==
  <<Chunk(bnum) % input.numDisks, OffsetIn(Chunk(bnum) \div input.numDisks, bnum)>>

\* Two copies.
BMap1(bnum) ==
  LET pairs == input.numDisks \div 2
      disk == 2 * (Chunk(bnum) % pairs)
      off == OffsetIn(Chunk(bnum) \div pairs, bnum)
  IN <<<<disk, off>>, <<disk + 1, off>>>>

DataDisks == input.numDisks - 1
BlocksInStripe == DataDisks * input.chunkSize
Row(bnum) == Chunk(bnum) \div DataDisks

BMap4(bnum) == <<Chunk(bnum) % DataDisks, OffsetIn(Row(bnum), bnum)>>

\* The parity disk of a row moves to the left from the last disk on.
PDisk5(row) == (input.numDisks - 1) - (row % input.numDisks)

\* Mutant of BMap5: left-asymmetric, without the step over the parity disk.
BMap5NoSkip(bnum) ==
  LET disk == Chunk(bnum) % DataDisks
      col == Row(bnum) % input.numDisks
  IN <<IF input.raid5type = "LA" THEN disk ELSE (disk - col) % input.numDisks,
       OffsetIn(Row(bnum), bnum)>>

BMap5(bnum) ==
  LET disk == Chunk(bnum) % DataDisks
      col == Row(bnum) % input.numDisks
  IN <<IF input.raid5type = "LA"
       THEN IF disk >= PDisk5(Row(bnum)) THEN disk + 1 ELSE disk
       ELSE (disk - col) % input.numDisks,
       OffsetIn(Row(bnum), bnum)>>

BMap(bnum) == CASE input.level = 0 -> BMap0(bnum)
                [] input.level = 4 -> BMap4(bnum)
                [] input.level = 5 -> BMap5(bnum)

PMap(stripe) ==
  IF input.level = 4 THEN input.numDisks - 1 ELSE PDisk5(Row(stripe * BlocksInStripe))

-----------------------------------------------------------------------------
(* disk.enqueue().                                                         *)

Abs(n) == IF n < 0 THEN -n ELSE n

\* The track, as the code computes it: there are as many as blocks on each.
Access(disk, addr) ==
  LET diff == Abs(addr - disk.currAddr)
      near == \/ disk.currAddr \div NumTracks = addr \div NumTracks
              \/ diff < BlocksPerTrack
  IN [disk EXCEPT
        !.currAddr = addr,
        !.countIO = @ + 1,
        !.countSeq = IF near /\ diff = 1 THEN @ + 1 ELSE @,
        !.countNseq = IF near /\ diff # 1 THEN @ + 1 ELSE @,
        !.countRand = IF near THEN @ ELSE @ + 1,
        !.utilTime = @ + IF near THEN diff ELSE SeekTime + 1]

Read(place) == [op |-> "read", disk |-> place[1], off |-> place[2]]
Write(place) == [op |-> "write", disk |-> place[1], off |-> place[2]]

\* The fields after the I/Os have gone to their disks, in order.
Issued(fields, ios) ==
  [fields EXCEPT
     !.ios = @ \o ios,
     !.disks = [d \in Disks |->
                  FoldLeft(LAMBDA disk, io : Access(disk, io.off), @[d],
                           SelectSeq(ios, LAMBDA io : io.disk = d))]]

\* The assertion of disk.enqueue() fails when an address is too large.
Issue(fields, more, next) ==
  \E ios \in {more} :
    IF \A k \in DOMAIN ios : ios[k].off < BlocksPerDisk
    THEN self' = Issued(fields, ios) /\ phase' = next
    ELSE self' = [fields EXCEPT !.ios = @ \o ios] /\ phase' = "assert"

-----------------------------------------------------------------------------
(* The I/Os of a request.                                                  *)

Blocks(begin, end) == [k \in 1 .. end - begin |-> begin + k - 1]   \* without end
EachRead(blocks) == [k \in DOMAIN blocks |-> Read(BMap(blocks[k]))]
EachWrite(blocks) == [k \in DOMAIN blocks |-> Write(BMap(blocks[k]))]

\* Copies are read in turns, by the offset.
Mirrored(blocks, isWrite) ==
  LET two(b) == IF isWrite THEN <<Write(BMap1(b)[1]), Write(BMap1(b)[2])>>
                ELSE <<Read(BMap1(b)[1 + (BMap1(b)[1][2] % 2)])>>
  IN FlattenSeq([k \in DOMAIN blocks |-> two(blocks[k])])

\* offList: the offsets of the blocks, each once.
Offsets(blocks) ==
  FoldLeft(LAMBDA offs, b : IF Contains(offs, BMap(b)[2]) THEN offs
                            ELSE Append(offs, BMap(b)[2]), <<>>, blocks)

Parity(stripe, blocks) ==
  [k \in DOMAIN Offsets(blocks) |-> <<PMap(stripe), Offsets(blocks)[k]>>]

Subtractive(numWrites) == numWrites + 1 <= BlocksInStripe - numWrites

\* doPartialWrite(): the new parity from the old one and what is overwritten,
\* or from the other blocks of the stripe.
PartialWrite(stripe, begin, end) ==
  LET written == Blocks(begin, end)
      parity == Parity(stripe, written)
      others == Blocks(stripe * BlocksInStripe, begin)
                  \o Blocks(end, (stripe + 1) * BlocksInStripe)
  IN (IF Subtractive(end - begin)
      THEN EachRead(written) \o [k \in DOMAIN parity |-> Read(parity[k])]
      ELSE EachRead(others))
     \o EachWrite(written) \o [k \in DOMAIN parity |-> Write(parity[k])]

-----------------------------------------------------------------------------
(* Requests.                                                               *)

\* Requests are sequential from 0 or at random below range.
Starts == IF input.workload = "seq" THEN {self.off} ELSE 0 .. input.range - 1

Request(isWrite) ==
  /\ phase = "run" /\ self.requests > 0
  /\ \E addr \in Starts :
       LET blocks == Blocks(addr, addr + input.size)
           fields == [self EXCEPT !.request = [addr |-> addr, size |-> input.size,
                                               isWrite |-> isWrite],
                                  !.ios = <<>>,
                                  !.off = @ + input.size,
                                  !.requests = @ - 1]
       IN IF input.level \in {4, 5} /\ isWrite
          THEN /\ self' = [fields EXCEPT !.stripe = addr \div BlocksInStripe,
                                         !.begin = addr, !.left = input.size]
               /\ phase' = "write"
          ELSE Issue(fields,
                     CASE input.level = 1 -> Mirrored(blocks, isWrite)
                       [] input.level = 0 /\ isWrite -> EachWrite(blocks)
                       [] OTHER -> EachRead(blocks),
                     "run")
  /\ UNCHANGED input

PieceEnd == Min({self.begin + Min({self.left, BlocksInStripe}),
                 (self.stripe + 1) * BlocksInStripe})

\* The loop of enqueue45(), from the first to the last stripe.
WriteStripe ==
  /\ phase = "write"
  /\ self.stripe <= (self.request.addr + self.request.size - 1) \div BlocksInStripe
  /\ Issue([self EXCEPT !.stripe = @ + 1, !.begin = PieceEnd,
                        !.left = @ - (PieceEnd - self.begin)],
           PartialWrite(self.stripe, self.begin, PieceEnd), "write")
  /\ UNCHANGED input

Written ==
  /\ phase = "write"
  /\ self.stripe > (self.request.addr + self.request.size - 1) \div BlocksInStripe
  /\ phase' = "run"
  /\ UNCHANGED <<input, self>>

AllSent ==
  /\ phase = "run" /\ self.requests = 0
  /\ phase' = "end"
  /\ UNCHANGED <<input, self>>

Step == Request(FALSE) \/ Request(TRUE) \/ WriteStripe \/ Written \/ AllSent

Ended == phase \in {"end", "assert"} /\ UNCHANGED vars

Next == Step \/ Ended

Spec == Init /\ [][Next]_vars

-----------------------------------------------------------------------------
(* Properties.                                                             *)

\* The blocks that the RAID has.
Capacity ==
  (BlocksPerDisk \div input.chunkSize) * input.chunkSize *
    CASE input.level = 0 -> input.numDisks
      [] input.level = 1 -> input.numDisks \div 2
      [] OTHER -> DataDisks

Places(bnum) == IF input.level = 1 THEN ToSet(BMap1(bnum)) ELSE {BMap(bnum)}

TypeOK ==
  /\ input \in Inputs
  /\ phase \in {"run", "write", "end", "assert"}
  /\ self.requests \in 0 .. input.numRequests
  /\ \A d \in Disks :
       LET disk == self.disks[d]
       IN /\ disk.countIO = disk.countSeq + disk.countNseq + disk.countRand
          /\ disk.utilTime >= disk.countSeq + (SeekTime + 1) * disk.countRand
          /\ disk.currAddr \in {-10000} \cup 0 .. BlocksPerDisk - 1

\* No two blocks or copies share a place; the chunks and the parity of a stripe
\* are on different disks; and as long as a request is within the capacity, it
\* is within the disks (raid.py:194-285, 71).
Layout ==
  /\ self.requests = input.numRequests =>   \* once is enough
       \A b, c \in 0 .. Capacity - 1 :
         /\ b < c => Places(b) \cap Places(c) = {}
         /\ input.level \in {4, 5} /\ b <= c /\ Row(b) = Row(c) =>
              /\ PMap(b \div BlocksInStripe) \notin {BMap(b)[1], BMap(c)[1]}
              /\ Chunk(b) # Chunk(c) => BMap(b)[1] # BMap(c)[1]
  /\ phase = "assert" => self.request.addr + self.request.size > Capacity

IosOf(op) == {<<io.disk, io.off>> : io \in {io \in ToSet(self.ios) : io.op = op}}

RequestDone == phase \in {"run", "end"} /\ self.requests < input.numRequests
RequestBlocks == self.request.addr .. self.request.addr + self.request.size - 1

\* What of the parity at an offset has to be known to write it: all that is not
\* written is read, or all that is written is read as it was, and the parity.
ParityKnown(place) ==
  LET off == place[2]
      first == (off \div input.chunkSize) * BlocksInStripe
      row == {BMap(first + disk * input.chunkSize + (off % input.chunkSize)) :
                disk \in 0 .. DataDisks - 1}
      new == row \cap IosOf("write")
  IN \/ row \ new \subseteq IosOf("read")
     \/ new \cup {place} \subseteq IosOf("read")

\* A request reads and writes its own blocks, all of them and every copy; with
\* a block, the parity at its offset is written, and what was read and written
\* is enough to know it, although the stripes are written one by one, from any
\* block on (raid.py:286-356).
RequestServed ==
  RequestDone =>
    LET own == UNION {Places(b) : b \in RequestBlocks}
        parity == {<<PMap(b \div BlocksInStripe), BMap(b)[2]>> : b \in RequestBlocks}
    IN IF ~self.request.isWrite
       THEN /\ IosOf("write") = {} /\ IosOf("read") \subseteq own
            /\ \A b \in RequestBlocks : Places(b) \cap IosOf("read") # {}
       ELSE IF input.level \in {0, 1} THEN IosOf("write") = own /\ IosOf("read") = {}
       ELSE /\ IosOf("write") = own \cup parity
            /\ \A place \in parity : ParityKnown(place)

=============================================================================
