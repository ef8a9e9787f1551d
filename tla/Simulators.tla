----------------------------- MODULE Simulators -----------------------------
(***************************************************************************)
(* The simulators of the file system, disk, scheduling and memory          *)
(* chapters, to be checked together: which one runs, and on which options, *)
(* is chosen at the start.  They share nothing but the command line.       *)
(***************************************************************************)
EXTENDS Integers, Sequences

CONSTANT Simulated    \* the simulators, of those below

VARIABLES program, input, self, phase

vars == <<program, input, self, phase>>

-----------------------------------------------------------------------------
(* Command lines.                                                          *)

\* File systems with room for all that is asked for, or too few inodes or data
\* blocks; with and without corruption.
VSFSInputs ==
  [numInodes : {5}, numData : {4, 5}, numRequests : {5, 6}]
    \cup [numInodes : {4}, numData : {2}, numRequests : {4}]
    \cup [numInodes : {1, 2}, numData : {1, 2}, numRequests : {2}]

Vsfs == INSTANCE VSFS WITH
  MaxUsed <- 4, Names <- {"a", "b"}, Chars <- {"x"}, Inputs <- VSFSInputs

FsckInputs ==
  [numInodes : {4}, numData : {4}, numRequests : {2, 3}, dontCorrupt : {FALSE},
   whichCorrupt : {-1}]
    \cup [numInodes : {4}, numData : {4}, numRequests : {3}, dontCorrupt : {TRUE},
          whichCorrupt : {7}]

Checked == INSTANCE VSFS WITH
  MaxUsed <- 4, Names <- {"a", "b"}, Chars <- {"x"}, Inputs <- FsckInputs

\* Groups that are filled up by a few files; files that are spread or not.
FFSOptions(n, blocks, inodes, exceptions, spread, faraways, contigs, deletes) ==
  [num_groups : {n}, blocks_per_group : {blocks}, inodes_per_group : {inodes},
   large_file_exception : exceptions, spread_inodes : spread, spread_data : spread,
   faraway : faraways, contig : contigs, deletes : deletes, commands : {4}]

FFSInputs ==
  FFSOptions(2, 2, 2, {0}, BOOLEAN, {1}, {1}, {TRUE})
    \cup FFSOptions(2, 2, 2, {0}, {FALSE}, {1, 2}, {2}, {TRUE})
    \cup FFSOptions(2, 3, 2, {0, 1}, {FALSE}, {1}, {1, 2}, {FALSE, TRUE})

Groups == INSTANCE FFS WITH
  Paths <- {<<"a">>, <<"b">>, <<"a", "b">>}, Sizes <- {1, 2}, NumSymbols <- 4,
  Inputs <- FFSInputs

\* A single request of any size at any place, and streams of them.
RAIDOptions(levels, types, disks, workload, sizes, range, requests) ==
  [level : levels, raid5type : types, numDisks : disks, chunkSize : {1, 2},
   workload : {workload}, size : sizes, range : {range}, numRequests : {requests}]

RAIDInputs ==
  RAIDOptions({0, 4}, {"LS"}, {3, 4}, "rand", 1 .. 5, 7, 1)
    \cup RAIDOptions({1}, {"LS"}, {4}, "rand", 1 .. 5, 7, 1)
    \cup RAIDOptions({5}, {"LS", "LA"}, {3, 4}, "rand", 1 .. 5, 7, 1)
    \cup RAIDOptions({0, 1, 4, 5}, {"LS"}, {4}, "rand", {2}, 30, 1)
    \cup RAIDOptions({0, 1, 4, 5}, {"LS"}, {4}, "seq", {1, 2, 4}, 0, 3)

Raid == INSTANCE RAID WITH
  NumTracks <- 3, BlocksPerTrack <- 3, SeekTime <- 100, Inputs <- RAIDInputs

\* Queues of requests for blocks that share disks, rows or both, one after the
\* other or all at once; and full stripes, which the program knows when they
\* are aligned writes and nothing else is queued.
AnimationOptions(mappings, windows, speeds, requests) ==
  [mapping : mappings, window : windows, seek_speed : speeds, requests : requests]

Operations == {"read", "write"} \X {0, 1, 5}
StripeWrites(blocks) == [k \in DOMAIN blocks |-> <<"write", blocks[k]>>]

AnimationInputs ==
  AnimationOptions({4, 5}, {-1, 1}, {20}, [1 .. 3 -> Operations])
    \cup AnimationOptions({0, 1, 4, 5}, {-1, 1, 2}, {10}, [1 .. 2 -> Operations])
    \cup AnimationOptions({4}, {-1, 3}, {10},
                          {StripeWrites(<<0, 1, 2>>), StripeWrites(<<3, 4, 5, 9, 10, 11>>)})

Animation == INSTANCE RAIDAnimation WITH Transfer <- 3, Inputs <- AnimationInputs

\* Policies with windows, on 12 to 18 blocks a side, with late requests, drawn
\* or given.
DiskOptions(precise, policies, skews, zonings, speeds, requests, lates, given) ==
  {[precise |-> precise, policy |-> p[1], window |-> p[2], skew |-> k, zoning |-> z,
    rotateSpeed |-> s[1], seekSpeed |-> s[2], requests |-> q, late |-> l,
    lateAddr |-> given] :
     p \in policies, k \in skews, z \in zonings, s \in speeds, q \in requests, l \in lates}

DiskPolicies ==
  {<<"FIFO", -1>>, <<"SSTF", -1>>, <<"SSTF", 2>>, <<"SATF", -1>>, <<"SATF", 2>>,
   <<"BSATF", 1>>, <<"BSATF", 2>>, <<"BSATF", 3>>}

DiskInputs ==
  DiskOptions(FALSE, DiskPolicies, {0, 1}, {<<60, 60, 60>>, <<60, 120, 120>>}, {<<30, 20>>},
              {<<2, 5, 3, 7, 0>>, <<4, 5, 0, 1>>}, {<<>>, <<1, 2, 6>>}, FALSE)
    \cup DiskOptions(FALSE, DiskPolicies, {0}, {<<60, 60, 60>>}, {<<30, 20>>, <<7, 40>>, <<50, 40>>},
                     {<<4, 5, 0, 13, 1>>}, {<<8>>}, FALSE)
    \cup DiskOptions(FALSE, DiskPolicies, {0}, {<<60, 60, 60>>}, {<<30, 20>>},
                     {<<4, 5, 0, 13>>}, {<<1, 6>>}, TRUE)
    \cup DiskOptions(TRUE, {<<"FIFO", -1>>, <<"SSTF", 2>>, <<"BSATF", 2>>, <<"BSATF", 3>>}, {0},
                     {<<60, 60, 60>>}, {<<30, 20>>},
                     {<<4>>, <<4, 5, 0, 13>>, <<13, 4, 7>>},
                     {<<>>, <<2>>, <<1, 2, 6, 0, 9>>}, FALSE)

Drive == INSTANCE Disk WITH Inputs <- DiskInputs

\* Two or three processes that compute, do I/O or do nothing.
Programs(n) == UNION {[1 .. k -> {"cpu", "io"}] : k \in 0 .. n}

ProcessRunInputs ==
  [process_switch_behavior : {"SWITCH_ON_IO", "SWITCH_ON_END"},
   io_done_behavior : {"IO_RUN_LATER", "IO_RUN_IMMEDIATE"},
   io_length : {0, 1, 3},
   programs : (Programs(2) \X Programs(2))
                \cup ({<<"io">>, <<"cpu", "io">>} \X {<<"io", "io">>, <<"cpu", "cpu", "cpu">>}
                        \X {<<"io">>, <<>>})]

Processes == INSTANCE ProcessRun WITH Inputs <- ProcessRunInputs

SchedulersInputs ==
  [policy : {"FIFO", "SJF", "RR"}, quantum : {1, 2, 3},
   lengths : ({1, 2, 4} \X {1, 3} \X (1 .. 3)) \cup {<<2, 1, 3, 1>>, <<1, 1, 1, 1>>}]

Jobs == INSTANCE Schedulers WITH Inputs <- SchedulersInputs

LotteryJobs == ((1 .. 3) \X {1, 3}) \X ((2 .. 3) \X {0, 2}) \X ({3} \X {1, 2})

\* A quantum that is given is a number for lottery.py and -1, a text, for stride.py.
LotteryInputs ==
  [scheduler : {"lottery"}, quantum : {1, 2}, jobs : LotteryJobs]
    \cup [scheduler : {"stride"}, quantum : {1, -1}, jobs : LotteryJobs]

Shares == INSTANCE Lottery WITH Inputs <- LotteryInputs

ForkTreeInputs == [max_actions : {4, 5}, leaf_only : BOOLEAN, local_reparent : BOOLEAN]

Tree == INSTANCE ForkTree WITH Inputs <- ForkTreeInputs

\* Random programs, and those a user may write, names used twice included.
GeneratorInputs ==
  [mode : {"generate"}, num_actions : {5, 6}, names : {{}}]
    \cup [mode : {"parse"}, num_actions : {7}, names : {{1, 2}}]

Forks == INSTANCE Generator WITH Inputs <- GeneratorInputs

\* A heap that a few allocations fill up.
MallocOptions(sizes, headers, aligns, policies, orders, coalesces, mode) ==
  [size : sizes, headerSize : headers, align : aligns, policy : policies,
   order : orders, coalesce : coalesces, mode : {mode}, numOps : {6}]

Orders == {"ADDRSORT", "SIZESORT+", "SIZESORT-", "INSERT-FRONT", "INSERT-BACK"}

MallocInputs ==
  MallocOptions({6}, {0}, {-1}, {"BEST", "WORST", "FIRST"}, Orders, BOOLEAN, "random")
    \cup MallocOptions({6}, {0}, {2}, {"BEST"}, Orders, {TRUE}, "random")
    \cup MallocOptions({8}, {1}, {-1}, {"FIRST"}, Orders, {TRUE}, "random")
    \cup MallocOptions({4}, {0}, {-1}, {"FIRST"}, {"ADDRSORT", "INSERT-FRONT"}, {TRUE}, "list")

Heap == INSTANCE Malloc WITH Sizes <- 0 .. 3, Inputs <- MallocInputs

\* All sequences of accesses to three pages, and to four.
PagingOptions(policies, cachesize, clockbits, addresses) ==
  [policy : policies, cachesize : {cachesize}, clockbits : clockbits, addresses : addresses]

PagingPolicyInputs ==
  PagingOptions({"FIFO", "LRU", "MRU", "OPT", "UNOPT"}, 2, {2},
                {<<1>> \o rest : rest \in [1 .. 5 -> 1 .. 3]})
    \cup PagingOptions({"OPT", "LRU"}, 3, {2}, {<<1, 2, 3>> \o rest : rest \in [1 .. 4 -> 1 .. 4]})
    \cup PagingOptions({"RAND", "CLOCK"}, 2, {0, 2}, {<<1, 2>> \o rest : rest \in [1 .. 3 -> 1 .. 3]})

Cache == INSTANCE PagingPolicy WITH Inputs <- PagingPolicyInputs

\* Registers that are drawn and registers that are given, good and bad.
TranslationOptions(kind, asizes, psizes, bases0, lens0, bases1, lens1) ==
  [kind : {kind}, asize : asizes, psize : psizes, base0 : bases0, len0 : lens0,
   base1 : bases1, len1 : lens1, pagesize : {2}]

TranslationInputs ==
  TranslationOptions("relocation", {8}, {20}, {-1, 2, 13}, {-1, 3, 8}, {-1}, {-1})
    \cup TranslationOptions("segmentation", {8}, {16, 18}, {-1}, {-1, 3, 5}, {-1}, {-1, 4})
    \cup TranslationOptions("segmentation", {8}, {20}, {0, 4, 17}, {2, 4}, {3, 7, 10, 21}, {3})
    \cup TranslationOptions("linear", {4, 6}, {8, 10}, {-1}, {-1}, {-1}, {-1})

Space == INSTANCE Translation WITH EntriesPerPage <- 2, Inputs <- TranslationInputs

MultiLevelInputs ==
  [maxPageCount : {5, 6}, allocated : {2, 3}] \cup [maxPageCount : {4}, allocated : {4}]

Tables == INSTANCE Translation WITH EntriesPerPage <- 2, Inputs <- MultiLevelInputs

-----------------------------------------------------------------------------
(* One of them runs.                                                       *)

Init ==
  /\ program \in Simulated
  /\ \/ program = "vsfs" /\ Vsfs!Init
     \/ program = "fsck" /\ Checked!Init
     \/ program = "ffs" /\ Groups!Init
     \/ program = "raid" /\ Raid!Init
     \/ program = "raid-graphics" /\ Animation!Init
     \/ program = "disk" /\ Drive!Init
     \/ program = "process-run" /\ Processes!Init
     \/ program = "scheduler" /\ Jobs!Init
     \/ program = "lottery" /\ Shares!Init
     \/ program = "fork" /\ Tree!Init
     \/ program = "generator" /\ Forks!Init
     \/ program = "malloc" /\ Heap!Init
     \/ program = "paging-policy" /\ Cache!Init
     \/ program = "translation" /\ Space!Init
     \/ program = "multilevel" /\ Tables!TablesInit

Step ==
  /\ \/ program = "vsfs" /\ Vsfs!Step
     \/ program = "fsck" /\ Checked!FsckStep
     \/ program = "ffs" /\ Groups!Step
     \/ program = "raid" /\ Raid!Step
     \/ program = "raid-graphics" /\ Animation!Step
     \/ program = "disk" /\ Drive!Step
     \/ program = "process-run" /\ Processes!Step
     \/ program = "scheduler" /\ Jobs!Step
     \/ program = "lottery" /\ Shares!Step
     \/ program = "fork" /\ Tree!Step
     \/ program = "generator" /\ Forks!Step
     \/ program = "malloc" /\ Heap!Step
     \/ program = "paging-policy" /\ Cache!Step
     \/ program = "translation" /\ Space!Step
     \/ program = "multilevel" /\ Tables!TablesStep
  /\ UNCHANGED program

\* The last phases: done, out of resources, or stopped by an error message, an
\* assertion or an exception.
Returned == phase \in {"end", "exit", "crashed", "error", "assert", "abort"}

Ended == Returned /\ UNCHANGED vars

Next == Step \/ Ended

Spec == Init /\ [][Next]_vars

\* A simulator runs as long as it can.
FairSpec == Spec /\ WF_vars(Step)

-----------------------------------------------------------------------------
(* Properties.                                                             *)

\* What the simulators keep about their objects in several places agrees: disks
\* and arms, processes and the I/Os they wait for, lists of children and
\* parents, reference bits and the pages in memory, tickets and jobs.
TypeOK ==
  /\ program = "vsfs" => Vsfs!TypeOK
  /\ program = "fsck" => (phase = "crashed" => ~input.dontCorrupt)
  /\ program = "ffs" => Groups!TypeOK
  /\ program = "raid" => Raid!TypeOK
  /\ program = "raid-graphics" => Animation!TypeOK
  /\ program = "disk" => Drive!TypeOK
  /\ program = "process-run" => Processes!TypeOK
  /\ program = "scheduler" => Jobs!TypeOK
  /\ program = "lottery" => Shares!TypeOK
  /\ program = "fork" => Tree!TypeOK
  /\ program = "generator" => Forks!Balanced /\ Forks!WrittenIfOrdered
  /\ program = "malloc" => Heap!TypeOK
  /\ program = "paging-policy" => Cache!TypeOK
  /\ program = "translation" => Space!TypeOK
  /\ program = "multilevel" => Tables!TablesTypeOK

\* Bitmaps, inodes, directories and totals agree after every operation, also
\* one that fails half-way (vsfs.py:265-393, ffs.py:417-435), until fsck.py
\* corrupts them, which always shows (fsck.py:525-619); and a RAID reads and
\* writes what a request and its parity need (raid.py:286-356), in that order
\* and before it says that it is done (raid-graphics.py:117-132, 758-765).
StorageSound ==
  /\ program = "vsfs" => Vsfs!AllConsistent
  /\ program = "fsck" => Checked!CorruptionShows
  /\ program = "ffs" => Groups!VerifiesWhenSound
  /\ program = "raid" => Raid!RequestServed
  /\ program = "raid-graphics" => Animation!ReadsBeforeWrites /\ Animation!EndsServed

\* No two things are in one place, and nothing is lost: the entries of the heap
\* (malloc.py:50-133), translated addresses (segmentation.py:79-165 and the
\* others), pages of data and of tables (paging-multilevel-translate.py:164-187),
\* the blocks, copies and parities of a RAID (raid.py:194-285).
PlacesDistinct ==
  /\ program = "malloc" => Heap!HeapTiled
  /\ program = "translation" => Space!Isolated
  /\ program = "multilevel" => Tables!TablesTranslate
  /\ program = "raid" => Raid!Layout

\* The policies do what they are there for: LRU and OPT keep the pages they
\* should (paging-policy.py:145-228), SJF makes jobs wait least
\* (scheduler.py:59-89), a sorted and coalesced free list does not fragment
\* (malloc.py:103-130), the blocks of a file are near it (ffs.py:163-234), and a
\* window is no wider than it should be (raid-graphics.py:843-844).
PoliciesHold ==
  /\ program = "paging-policy" => Cache!LRUKeepsLastUsed /\ Cache!OPTIsOptimal
  /\ program = "scheduler" => Jobs!ResultsHold
  /\ program = "malloc" => Heap!Unfragmented
  /\ program = "ffs" => Groups!Local
  /\ program = "raid-graphics" => Animation!WindowHolds

\* The CPU is busy while a process can use it, instructions and ticks add up
\* (process-run.py:212-279), nobody is a turn or a stride behind
\* (scheduler.py:110-129, stride.py:19-33), and the drum has the tickets of the
\* jobs that are left (lottery.py:70-123).
CPUShared ==
  /\ program = "process-run" => Processes!NeverIdle /\ Processes!TimesAddUp
  /\ program = "scheduler" => Jobs!InTurns
  /\ program = "lottery" => Shares!DrumHolds /\ Shares!StridesEven
  /\ program = "generator" => Forks!AllWaitedFor

\* Requests are overtaken only as the window allows, and take the time that
\* was estimated (disk.py:559-692); processes leave the CPU and the tree only
\* when they are done, and leave both in order (process-run.py:178-234,
\* fork.py:170-198); the lottery never runs a job that is done.
StepsInOrder ==
  [][/\ program = "disk" => Drive!ServedInTurn /\ Drive!EstimateExact
     /\ program = "process-run" => Processes!RunsToItsEnd
     /\ program = "lottery" => Shares!RunsNotDone
     /\ program = "fork" => Tree!ExitKeepsTree
     /\ program = "generator" => Forks!ExitsChildless]_vars

\* Until it is corrupted, the disk of vsfs.py and fsck.py is a tree of names:
\* operations do to it what their names say (vsfs.py:265-468).
NamesKept ==
  /\ program = "vsfs" => Vsfs!Abstract!Init
  /\ program = "fsck" => Checked!Abstract!Init
  /\ [][/\ program = "vsfs" => [Vsfs!ImplementsNext]_(Vsfs!Abstract!vars)
        /\ program = "fsck" => [Checked!FsckImplementsNext]_(Checked!Abstract!vars)]_vars

\* No loop runs for ever: blocks are found, victims and winners, too, arms and
\* heads get where they go although they move in steps, windows open, and
\* nobody waits for an I/O that was missed.
EveryRunEnds == <>Returned

\* What do_verify() asserts after every command (ffs.py:417-435), of any
\* geometry: deletions make it fail where the numbers of groups and blocks differ.
DoVerify == program = "ffs" /\ input.faraway = 1 => Groups!DoVerify

=============================================================================
