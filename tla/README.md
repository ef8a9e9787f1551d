# Models and proofs of the OSTEP homeworks

The repository holds one program or simulator per chapter of *Operating
Systems: Three Easy Pieces*: thread programs in C, C++ and assembly, and Python
simulators of schedulers, memory managers, disks and file systems.  This
directory holds TLA+ modules that model them, TLC configurations that check the
models on small instances, and TLAPS proofs for instances of any size.

## Inventory

| component | source | state | operations | what is hard |
|---|---|---|---|---|
| readers-writer lock | `hw31/src/reader-writer.cpp` | two semaphores, a count of readers, the protected `value` | read and write lock and unlock | one thread releases what another acquired; lost updates; deadlock |
| lock without starvation | `hw31/src/reader-writer-nostarve.cpp` | a third semaphore | the same | starvation of writers, order of three semaphores |
| barrier | `hw31/src/barrier.cpp` | counter, mutex, turnstile | `wait` | passing early, opening twice or never |
| mutex without starvation | `hw31/src/mutex-nostarve.cpp` | semaphore, `std::barrier`, shared counters | `lock`, `unlock`, `drop` | even turns, the last threads leaving, the vector that grows under its users |
| rendezvous, fork/join | `hw31/src/rendezvous.cpp`, `fork-join.cpp` | semaphores | one meeting | order, the vector of semaphores that grows |
| x86 threads simulator | `hw26`, `hw28`: `x86.py` | memory, registers, condition codes, threads, interrupt counter | the instructions, interrupt, halt, yield | the interleavings of the `.s` lock programs |
| MLFQ scheduler | `hw08/mlfq.py` | queues, jobs, I/O list, clock | one tick: boost, I/O completion, pick, run, demote | which event of a tick comes first |
| process scheduler | `hw04/process-run.py` | process table, running process, I/O finish times | one tick | I/O ends and process switches in one tick |
| FIFO, SJF, RR; lottery; stride | `hw07`, `hw09` | job list, tickets, passes | one quantum | who is due, what is left of a job or a drum |
| counters, lists, trees | `hw29/src` | shared structures with locks | update, insert, search | forgotten locks, hand-over-hand order |
| vector addition | `hw32` | two vectors, their locks | `vector_add` under five disciplines | deadlock, livelock |
| thread API exercises | `hw27` | mutexes, a flag, a condition variable | lock, signal, wait | deadlock, lost wake-up |
| simple file system, its checker | `hw40/vsfs.py`, `hw42/fsck.py` | bitmaps, inodes, data blocks, names | `creat`, `mkdir`, `link`, `unlink`, `write`; corruptions | agreement of bitmaps, inodes and entries, also after a failure half-way |
| fast file system | `hw41/ffs.py` | groups, two bitmaps each, totals, files | create, mkdir, delete, verify | which group, block numbers, running out |
| disks | `hw37/disk.py`, `disk-precise.py` | arm, head, queue, windows | one tick: seek, rotate, read | choice of the request, starvation |
| RAID | `hw38/raid.py`, `raid-graphics.py` | block maps, the disks, a queue of requests | read and write of blocks; one tick | parity, pieces of stripes, two disks that share a request |
| allocator | `hw17/malloc.py` | free list, size map | `malloc`, `free` | order and coalescing of the list |
| page replacement | `hw22/paging-policy.py` | cache, reference bits | one reference | order of eviction |
| address translation | `hw15`, `hw16`, `hw18`, `hw20` | registers, page tables, frames | set up, translate | bounds, overlap |
| fork trees | `hw05/fork.py`, `generator.py` | process tree; a list of actions and its C program | fork, exit, wait | orphans; waits that must match forks |
| process API exercises | `hw05/c`, `nim` | none worth the name | one system call each | nothing a model tells |
| HTTP servers | `hw33` | none between requests | accept, serve | the sockets |
| checksums | `hw45` | a block | checksum | which corruptions collide |
| measurements, plots, file tools | `hw06`, `hw13`, `hw14`, `hw19`, `hw21`, `hw39` | none worth the name | timing, `stat` | nothing a model tells |

The components do not interact: each program stands alone.  Inside a component
the interaction is shared memory (C, C++, assembly) or the loop of a simulator
that calls into its own objects (Python).  The one exception is `generator.py`,
whose processes interact through `fork`, `exit` and `wait`.  The hard behaviours are of three
kinds: the interleavings of threads between any two accesses of shared memory
(`hw28`, `hw29`, `hw31`, `hw32`), the order of the events that fall into one
iteration of a simulator's loop (`hw04`, `hw08`, `hw37`, `hw38`), and bookkeeping that
is spread over several structures and must agree after every sequence of
operations (`hw17`, `hw40`, `hw41`).  Nothing is sent over a network but in
`hw33`, and nothing survives a crash, so loss, duplication and recovery play
no part.

What makes each component correct:

| component | properties |
|---|---|
| locks and barriers of `hw31` | exclusion; the semaphores keep their preconditions; no lost update; no starvation where the program promises none; the abstract lock or barrier is implemented |
| x86 simulator | a program sees threads with registers of their own; the locks exclude, and their loops end |
| MLFQ | a job is in one place; budgets are what was not used; no event is missed; waiting is bounded by the boost; all jobs finish |
| counters, lists, vectors | counts add up; operations look atomic; nobody blocks |
| process scheduler | the CPU is not idle while a process can run; every tick is some process's or an idle one; no I/O end is missed |
| FIFO, SJF, RR, lottery, stride | SJF waits least, RR takes turns, the drum holds the tickets of the jobs that are left, passes stay within a stride |
| file systems | bitmaps, inodes, directories and names agree after every operation; the operations are those of a tree of names; a corruption shows |
| disks, RAID | a window is served before the next one; a request takes the time that was estimated; no two blocks, copies or parities share a place; a write updates all of its parity, after both disks have read; the end comes with the last I/O |
| allocator | free and allocated ranges tile the heap; a sorted and coalesced list does not fragment |
| page replacement | LRU keeps the last used; OPT misses least |
| address translation | what is mapped is the process's own, no two pages share a frame, two-level tables translate as the pages were mapped |
| fork trees | orphans have a parent and parents know them; every process is waited for, by its parent, before that one ends |

## Modules

### Semaphores of `hw31-threads-sema`

`Semaphores` has `Acquire` and `Release` of a counting semaphore as the
programs use them: a number and no order among the waiters.  All the programs
construct their semaphores with a maximum of 1 or never exceed it; that no
`release()` exceeds it is in every `TypeOK`.

* `ReaderWriter` has one action for each statement of `read_lock`,
  `read_unlock`, `write_lock`, `write_unlock` and the thread bodies, with the
  program's member names as variables; `value++` is a load and a store.
  `RWLockSpec` is the abstract lock: a set of readers and a set of writers, and
  a step lets one in or out.  `ReaderWriter` implements it under the mapping
  that takes the threads between the calls.
* `ReaderWriterNoStarve` is the same with `order_sem_`.  It implements
  `ReaderWriter`: forget `order_sem_` and relabel the statements.
* `BarrierSpec` is a barrier (arrive, pass when all have arrived, with
  liveness), `Barrier` the one of `barrier.cpp`.
* `NoStarveMutex` has the mutex, a `std::barrier` as the standard describes it
  (phases, expected and pending arrivals, `arrive_and_drop`), the workers, and
  `main()`, which still grows the vector of counters while the first workers
  run: a `push_back` that reallocates is a copy and an installation, and a store
  through an address taken before is lost.
* `Rendezvous` has the two workers and the same kind of race on the vector of
  semaphores.

`i` (the loop counter) is a part of the models although only the end depends on
it; `Endless` (or `endless`) leaves it alone, for the liveness of threads that
come back for ever.

### The x86 simulator of `hw28-threads-locks`

`X86ISA` has the instructions of `x86.py` as an operator `Execution(code, cpu,
memory)`, with `Eval` for the operation and the registers, conditions and stack
as `x86.py` keeps them.  `X86` is the run loop: one action per form that an
iteration takes, and the command lines are its constant `Options`.
`X86Threads` is what the programs may rely on: threads with registers of their
own, that take turns after whole instructions.  `X86Locks` has the assembler's
`load()` (labels, variables, addresses) and the programs of `hw28` and `hw26`,
each a sequence of the source's lines, puts them on the machine and
states what each lock promises, and what remains without one: no increment is
counted twice, at least two remain when every thread does two, all of them with
the time slices that the answers of the exercises call correct; `MCX86` gives the
command lines.

### The MLFQ scheduler of `hw08-cpu-sched-mlfq`

`MLFQ` splits the body of the main loop, in its order: boost (`CheckBoost`,
`Raise` of each queue, `ResetPriorities`), events (`Wake`), then exactly one of
`Idle`, `Continue`, `Block`, `Expire` and `Finish`.  `ioDone` is kept by job,
which is sound because the I/Os of a simulation all last equally long.
`used` and `waited` are history variables.  `MCMLFQ` has the command lines and
job lists.

### Thread programs of `hw27`, `hw29`, `hw31` and `hw32`

`SloppyCounter`, `HandOverHandList` and `ConcurrentTree` have an action per
lock, unlock and access that other threads can see.  `ListSpec` is a set of keys
with atomic insertions and searches; the list implements it although its lock
moves along, the trees although `bst_better.cpp` lets several threads search at
a time.  `VectorAdd` has the five `vector_add()` by the record `run` that says
which program and which options run; `VectorSpec` is the addition that is
atomic.  `ThreadAPI` has the programs of `hw27` and `fork-join.cpp` as lists of
statements (`Body`) over mutexes, the condition variable, which may wake its
waiter for nothing (`SpuriousWakeup`), `done`, `balance` and a semaphore.
`ThreadPrograms` chooses one of these programs (`Running`), or `Rendezvous`, at the
start and runs it, so that all are checked together; its constants are the numbers of
threads, iterations, CPUs and elements, and `ThreadProgramsAssumption` says that they
are natural numbers and that there is a CPU, an element and a threshold.

### The simulators of the other homeworks

They have three variables in common: `input` is the command line, which never
changes and is chosen from `Inputs`; `self` is a record of what the Python
objects hold (often the program's own `self`); `phase` is where its loop is, or
how it ended: `end`, an `exit()`, a failed `assert`, an exception.  What the
programs draw at random is any value they could draw.  Each is one loop, `Step`.

* `VSFS` has the classes `bitmap`, `block`, `inode` and `fs` of `vsfs.py`,
  a method an operator on the record, and the random workload, an action
  per attempt of an operation, with its failures half-way; then the copy
  of it in `hw42`, which allocates at random, and its twelve corruptions.  Both
  implement `NameSpace`, a tree of names: what a user of the operations may
  think of them.
* `FFS`: `create`, `mkdir`, `delete` and `do_verify()`; the search for blocks,
  which crosses groups, takes a step per block.
* `RAID`: `bmap4`, `bmap5` and the like, reads, and writes stripe by stripe.
  `RAIDAnimation` is `raid-graphics.py`: in a tick (`Animate()`) the four disks
  move one after the other, and a disk that ends an I/O lets every idle disk, also
  those before it, take the first request of the window that it can do something
  for.  The two disks of a write share the status of the request.
  `Disk`: a step is `Animate()`: the request chosen, the arm, the rotation, the
  window, which `disk-precise.py` cuts (`GetWindowPrecise`), and the exceptions
  that its policies may raise (`Raises`), which end the run in the phase `error`.
* `ProcessRun`: in a tick the processes are looked at for finished I/Os one by
  one, then the current one executes; `io_done` may so change who is looked at
  next.  `Schedulers`: a job or a slice per step.  `Lottery`: a quantum of
  `lottery.py` or `stride.py` per step; `stride.py` has a quantum of 1 or, when
  `--quantum` is given, the phase `error` (`AdvanceByText`).
* `ForkTree`: the list of actions is drawn with a list of processes of its own,
  then done on the tree.  `Generator`: `generator.py` draws or parses a list of
  forks, waits and exits, writes a C program block by block, and the processes
  of that program run, interleaved in any order.
* `Malloc`: an operation per step, with three searches, five orders of the list,
  headers, alignment and coalescing.  `PagingPolicy`: an access, or a page looked
  at by CLOCK, per step.  `Translation`: registers or a page table drawn or
  checked, then every address translated, for base and bounds, two segments and
  a linear table; and, for the two-level table, the directory, the pages of the
  table and the pages of data in one physical memory.

`Simulators` has their command lines and chooses program and command line at the
start.

## Runs

| run | instance | what it shows |
|---|---|---|
| `ReaderWriter` | 2 readers, 2 writers, 2 iterations | semaphore preconditions, the inductive invariant of the lock, no lost update, termination, refinement of `RWLockSpec` |
| `ReaderWriterNoStarve` | 2 readers, 2 writers, for ever | refinement of `ReaderWriter`; no overtaking; `Progress` |
| `Barrier` | 4 workers | the turnstile opens once; refinement of `BarrierSpec` with its liveness |
| `NoStarveMutex` | 4 workers, 6 turns, or turns without end | ownership, fairness of turns, the cost of the race on the vector, termination and no starvation (`Served`) |
| `MLFQ` | 3 jobs, 3 levels, 144 command lines | six properties of the scheduler; that no event is missed is a part of `Placement` |
| `X86Locks` | six locks, `flag.s` and the five programs without a lock, up to 3 threads, random, fixed and given schedules | exclusion, tickets in order, exact counts, bounds on what a race loses, termination, refinement of `X86Threads` |
| `ThreadPrograms` | seven entries, up to 3 threads | counts, assertions, atomicity, nobody overtakes, everybody returns |
| `Simulators` | fifteen simulators, each on all of its small inputs | structures agree, places are distinct, policies and schedules hold, names are kept, every run ends |
| `X86FlagCallRet` | 2 threads | violated: see findings |
| `MLFQStarvation` | 3 jobs, a boost every time unit | violated: see findings |
| `SloppyCounterShared` | 2 threads on one CPU | violated: see findings |
| `FFSVerify` | the inputs of `ffs` in `Simulators` | violated: see findings |

The properties of `ThreadPrograms` and `Simulators` are conjunctions with a part
for each program, defined in that program's module; the comment of the
conjunction says which lines of the source each part is about.

### Bounds

Two readers and two writers are the least with a first and a last reader that
differ and a second writer to lose an update; two iterations make a thread meet
itself coming back.  Four barrier workers have a first, a last and two in
between, and four workers let the vector of `NoStarveMutex` both move (at the
first, second and third) and not move (at the fourth).  Six turns over four
workers end with workers that have had one and two.  Three jobs and three levels
have a head, a follower and a late comer, and a middle level to be demoted to
and from; run times of 6 and 8 outlast a budget at each level and two boosts.
Random time slices may be a single instruction long, so an interrupt falls after
each instruction of every critical section and wait loop; three threads queue
for a ticket.  Three threads in a list of three nodes have one between two
others.  Two threads that insert twice make trees of four nodes, in which one
walks behind another's insertion.  The counter's 3 increments are no multiple of its
threshold 2.  Integers that could overflow wrap at `IntMod` where the program
uses an `int`; no instance but the endless ones reaches it.

For the simulators the inputs are such that every resource runs out in some of
them and none does in others:

| program | inputs | why |
|---|---|---|
| `vsfs`, `fsck` | 5 inodes and 4 or 5 blocks for 5 or 6 requests; 4 inodes and 2 blocks; 1 or 2 of each; directories of 4 entries (32 in the code) | out of inodes, out of blocks, full directories, second links, directories in directories |
| `ffs` | 2 groups of 2 inodes and 2 or 3 blocks, 4 commands | files that spill over, groups that fill, `contig` and the large-file exception. The properties of `do_verify()` are those of geometries for which the bug of `FFSVerify` does no harm, and of command files that delete nothing (`Sound`) |
| `raid` | 3 or 4 disks, chunks of 1 and 2 blocks, requests of 1 to 5 blocks | a request that begins in the middle of a chunk and ends past a stripe |
| `raid-graphics` | all queues of 2 and of 3 requests for three blocks that share disks, rows or both; windows of 1, 2 and none; aligned full stripes | two writes for one parity, a disk that has data for one request and parity for another; heads that take one and two ticks for a row |
| `disk` | 12 to 18 blocks a side, 1 to 5 requests and late ones, drawn or given, windows of 1, 2, 3 or none | windows that open with a request left, arms faster and slower than the rotation; for `disk-precise.py` requests on one track and on several, with the head early and late in its revolution |
| `process-run` | 2 or 3 processes of up to 3 instructions, I/Os of 0, 1 and 3 ticks | two I/Os that end in one tick, or in the one in which a process ends |
| `scheduler`, `lottery` | 3 or 4 jobs, lengths up to 4, quanta up to 3 (`stride.py`: the default, and one that is given) | jobs shorter and longer than a quantum, equal lengths, a job without tickets |
| `fork` | 4 or 5 actions | an exit with children and siblings |
| `generator` | 5 or 6 drawn actions, 7 tokens of the user's over two names | nested blocks, a wait with a child missing, a name used twice |
| `malloc` | heaps of 4 to 8 bytes, 6 operations, sizes 0 to 3 | splits, exact fits, holes on both sides of a freed range |
| `paging-policy` | all sequences of 6 accesses to 3 pages, of 7 to 4 pages, caches of 2 and 3 | every order of evictions. CLOCK and RAND after two distinct pages |
| `translation`, `multilevel` | address spaces of 4 to 8 addresses, pages of 2; 4 to 6 pages and tables of 2 entries | segments that just fit or do not, a directory with an empty, a full and a half-full table |

### Fairness

Threads are weakly fair: the operating system runs a thread that can run.  That
is all that `Termination`, `Served`, `EverybodyReturns`, `ImplementsFairly` and
the first half of `Progress` need.  The second half of `Progress` assumes in the
property itself (`SemaphoreFairness`) that no thread is passed over for ever at
a semaphore, which `std::counting_semaphore` does not promise: without it no
lock built on semaphores is free of starvation.  The simulators are one thread
each: weakly fair in their only action; what they draw at random, and what
interrupts choose, is not fair at all.  `vector-try-wait.c` may fail for ever
when its threads give up for one another, and a condition variable may wake its
waiter for nothing for ever: `EverybodyReturns` allows exactly those two, and
the deadlock that `main-deadlock.c` is there to show.

Deadlock is checked in every run: the states in which a program has ended, and
the circular wait of `main-deadlock.c`, are explicit stuttering steps.

## Findings

* `flag-withcallret.s` (`X86FlagCallRet`) stores 1 at the address given by the
  value of the flag, not by its address; the mutex is never set.
* `mlfq.py` (`MLFQStarvation`): a boost more frequent than the quantum of the
  highest queue renews the quantum of the running job for ever; the others
  starve, although the manual presents the boost as the remedy for that.
* `counter_sloppy.cpp` (`SloppyCounterShared`): the last `update()` of a worker
  runs without the local mutex, and loses or doubles counts of another thread of
  the same CPU; `main`'s assertion fails.
* `ffs.py` (`FFSVerify`): `delete` takes block and inode numbers apart by the
  number of groups, allocation puts them together by the blocks or inodes of a
  group.  With the default options `file /a 12` and `delete /a` fail the
  assertion of `do_verify()`.

Observations that are not runs:

* `looping-race-withlock-withcallret.s` reads the address of its mutex at the
  wrong offset of the stack and locks `memory[0]`; since every thread does, it
  still excludes (`X86Locks` includes it).
* The manual of `hw08` gives allotments in milliseconds, the program counts them
  in quanta.
* `stride.py` takes the length of a job for its tickets, unlike its help (line 37).
  `lottery.py` divides by zero when no tickets are left (line 82): `Lottery` has
  that as the phase `error`.
* `stride.py` declares `--quantum` without a type (line 38): one that is given is a
  text, also `--quantum 1`, and `min()` (line 25) is a `TypeError` before the first
  job has run.  Only the default of 1 works; `Lottery` has the others as the phase
  `error` (`Text`).
* `disk.py` and `disk-precise.py` keep late requests that are given with `-l` as
  texts where they look them up by number: `-a 7,9 -l 8` is a `KeyError`, and so is
  every such run that comes to a late request (`IsText`).  Those drawn with `-L`
  are numbers.
* `disk-precise.py` subtracts the float 360.0 from a `Decimal` (line 492), a
  `TypeError`, whenever it estimates a request for which the arm would arrive after
  the disk has turned past 360 degrees (`SubtractsFloat`): with
  `-a 4,5,13,0 -z 60,60,60 -R 30 -S 20` when block 0 follows block 13.  Requests on
  one track never meet it (`MayRaise`).
* `raid-graphics.py` lets an idle parity disk begin with a write of a full stripe
  before the disk of the data does, and then takes the data for written
  (`-m 4 -a r0,r3,r6,w9,w10,w11`), although the comment at line 677 says that it
  is the write to the parity disk that is turned off.  With `-a r0,r1,r2` the reads
  are counted as a full stripe and the end is never seen.  The comment at line 416
  warns that the feature works for some demos only: `AnimationInputs` has those.
  Without a window (`-w`), two writes to one row both read the old parity before
  either has written the new one; with a window of 1 they do not (`WindowHolds`).
* In `disk-precise.py` the window of BSATF is cut to the requests that have
  arrived, so that it may be closed for one that arrives later: an assertion fails
  with one request, late ones and a window of 3 (`MayFindNone`).
* `ffs.py` cannot create a file of size 0, and with `faraway` above 1 a group may
  be left out for a directory that would fit; sizes are therefore at least 1.
* `segmentation.py` leaves out some of its checks of given registers (lines 109
  and 126), `malloc.py` accepts a size of 0, and with 0 clock bits
  `paging-policy.py` gives a page that comes in the bit 1 all the same; the models do what the
  code does.
* `generator.py` accepts a list with a wait that no fork precedes, or a name that
  is used twice, and may then fail with an `IndexError` (line 299); `Generator`
  has that as the phase `crashed`.
* The destructors of both trees return with the mutex locked when the tree is
  empty (`bst_better.cpp:24`); nobody uses it afterwards.

## Proofs

TLAPS checks these theorems, for any number of threads, iterations, programs and
schedules:

* `ReaderWriterProofs`: `TypeCorrect`, `MutualExclusion`, `NoUpdateLost`,
  `Refinement`.  Exclusion is not inductive: a reader may give back a semaphore
  that another took.  The invariant says who owns each semaphore, that
  `readers_` is the number of readers counted (`ReadersCounted`), and that the
  reader that waits for the writers is the only one counted (`GroupEnds`); for
  the count of updates, that a loaded value is still current (`FreshLoad`) and
  that `value` is the number of writes so far modulo the width of the integer.
  `Cardinality` of the sets of readers is handled by the library's theorems on
  finite sets; `FirstOrLast` turns "the count is 1" into "the only one".
* `ReaderWriterNoStarveProofs`: every step is a step or a stutter of
  `ReaderWriter` (`PlainSpec`), so its theorems hold of it: `Refinement`,
  `MutualExclusion`, `TypeCorrect`.  `NobodyOvertakes` needs `OrderOwned`: one
  thread at a time has its turn.
* `BarrierProofs`: `TypeCorrect`, `TurnstileCorrect`, `Refinement`.  The
  invariant ties the counter to the set of workers that were counted and the
  turnstile to the one that is passing.
* `X86Proofs`: `Refinement`.  The invariant is that the running thread is one of
  the schedule's and has not halted; what an instruction does is not expanded,
  so the theorem holds for every instruction set that keeps to `Context`.
* `X86Proofs`: `LocksExclude`, the whole of `MutualExclusion` for the six locks,
  any number of threads (two for Peterson's, as the program has two flags) and any
  interrupts.  There is a lemma for what each instruction changes, and
  `ThreadStep` turns a step of the simulator into one instruction of one thread.
  Each listing has its invariant, over the offset of each thread in it:
  `MutexInv` (the thread between the `xchg` that read 0 and the store that clears
  the word, and only that one, has the mutex, and the word is 1 as long),
  `TicketInv` (tickets given and not served are held by one thread each, and the
  thread past the test holds the turn), `PetersonInv` (while a thread is past the
  tests and the other contends, the turn is that of the first) and `CallInv` (the words
  on a thread's stack are the return addresses of its calls and the argument, so
  both calls work on the same word and return into their caller).
* `X86Proofs`: `LocksCount`, that `CountExact` holds of the six locks for any
  threads, loops and interrupts, and `LocksTyped`, their `TypeOK`.  Exclusion alone
  does not give the count: `CountInv` says that the word plus the increments the
  threads have left (`Rest`, from the offset and `bx` of each) is all there is to do, and
  that a thread in the middle of an increment holds in `ax` what the word still is,
  which is where exclusion comes in.  The sums are sizes of sets of units, one for each
  loop of each thread; `FoldLoops` shows, with the smallest set for which it would fail,
  that the fold in `CountExact` is such a size.
* `NoStarveMutexProofs`: `TypeCorrect`, `MutualExclusion`, `NobodyAhead` and
  `CountsKept`, whichever thread the semaphore prefers.  The invariant ties the
  permit to the worker between `lock` and `unlock`, the phase of the barrier to the
  turns of the workers that arrived, and the vector's counts to the turns done.
* `MLFQProofs`: `TypeCorrect`, `InPlace`, `BudgetKept`, `Demotion` and `WaitsBounded`, for any
  jobs, levels, quanta and allotments.  `InPlace` needs that queues are disjoint
  and without duplicates through each of the loops of a tick; the bound on
  waiting needs to know, for a job that is ready, how long the jobs ahead of it
  in its queue can still hold the CPU before the next boost.

* `ThreadProgramsProofs`: `TypeCorrect`, `CountsCorrect`, `ResultsCorrect` and
  `LooksAtomic`: the type invariant, both other invariants and the refinements of
  `ThreadPrograms`, for any numbers of threads, iterations, CPUs and elements and
  any threshold.  Each program has a section with an inductive invariant of its own;
  as a program has the variables to itself, a step of `ThreadPrograms` is a step of
  the one that runs (`OneRuns`), and `ProgramsInv` is its invariant.
  * The sloppy counter: `CounterInv` says who has which mutex, that a loaded value
    is still the counter's, and that the parts add up (`CounterCounting`) unless a
    last `update()` has a CPU in common with another thread, which is the case of
    `SloppyCounterShared`.  The sums of the property are folds; `IsFold` and `Total`
    identify them with the cardinality of a set of units, by the smallest set
    for which they would differ.  `OwnInv` adds that a part is empty once its only
    thread has returned, which makes `main()`'s assertion true.
  * The list: which nodes each thread has locked.  It is what makes the second read of
    `head_` in `search()` safe: whoever changes `head_` has the lock of the first
    node, which the search still holds.  The insertions are counted as a set of
    pairs of a thread and an iteration, so that `size` needs no sum.
  * The trees: the walk to a key is a recursive function over nodes; `WalkDefined`
    shows that it has a solution, the nodes that can be reached, and `ChainIn` what it
    passes, as a set that an insertion extends by one node.  `TreeInv` says that a
    child's key is on its side of every ancestor (`Ordered`), that a walking thread is
    on the walk to its key, and under which lock, so that searches side by side
    in `bst_better.cpp` each find what is there when they end.
  * The vectors: what each addition has done to each element (`Before`), for
    all five programs; where it locks, that no other thread changes its two vectors, from
    which the addition takes effect at once.  `Before` and the locks together say
    that `vector-nolock.c` loses no addition either.
  * The thread API exercises: `Bodies` lists the statements of every thread;
    `WellLocked` shows that a mutex is only unlocked by the thread that has it,
    from the text of the programs.  The results (`RaceFix`, `SignalCVRight` and so on) are
    invariants over the places of the two threads.
  * The rendezvous: when a permit is there, when it has been taken, and which of the two
    vectors of semaphores an access goes to.
* `VSFSProofs`: `TypeCorrect`, `DiskConsistent`, `FsckBuildsConsistent`,
  `NamesImplemented` and `FsckNamesImplemented`, for any numbers of inodes, blocks,
  entries, requests and names.  `Consistent` counts
  positions in lists of entries and is not inductive: nothing in it says that a
  path of the workload leads where its tables say, so that `unlink` could take
  away the wrong link.  `Sound` has that, with the links to an inode as a set of
  directories and names.  Each operation is first reduced to what it changes
  (`HasEntry`, `HasNewDir`, `LosesInode` and so on), then shown to keep `Sound`
  whichever free inode and block it is given, which covers both `vsfs.py` (the
  first ones) and `fsck.py` (any); `mkdir` is also shown to give its inode
  back when there is no block for it (`ReturnKeeps`).  `AllConsistent` also has the
  paths.  `PathLookup` shows that following a path from the root ends at its inode,
  although `Lookup` is recursive: the sequence of the inodes on the way is a function that
  satisfies the definition, and `Upwards` is induction on a set of lengths.
  That there are no other paths is a count: `DotSlotsCount`, `DirsCount` and
  `PathsCount` are bijections from directories and paths to entries.
  The two refinements say what the operations do to names and contents (`Follows`):
  a file's block is written once, and the block of a file that loses its last name is
  not among those of any other.

The assumptions on constants (`ReaderWriterAssumption`, `NoStarveAssumption`,
`MutexAssumption`, `MLFQAssumption`, `X86Assumption`, `ThreadProgramsAssumption` and so on) are evaluated by
TLC in the runs.  Three kinds of them carry the locks: `X86Assumption` says what
options the command line gives; `LocksAssumption` that the words the
programs use are among the addresses of the model, and that the two threads
of `peterson.s` have 0 and 1 in `bx`, as its comments demand; and
`TestAndSetLoaded` and its five siblings state what `Load` yields for each
source.  The last are closed facts: TLC computes them from the listings, which
the provers cannot do, since `Load` folds and selects over sequences.

Only model-checked: all liveness (TLAPS does not reach fairness); of `TypeOK` and
`CountExact` what they say of `flag.s` and the programs that race, in particular the
bound on what a race loses; and the simulators of
`Simulators` but for `AllConsistent` and `NameSpace` of the file systems.

## Plan

1. Done: semaphores, the x86 simulator and its locks, MLFQ, the thread programs,
   the simulators of schedulers, memory, storage and processes.
2. Done: the theorems of `BarrierProofs`, `ReaderWriterProofs`,
   `ReaderWriterNoStarveProofs`, `X86Proofs`, `NoStarveMutexProofs`, `MLFQProofs`,
   `ThreadProgramsProofs`, `VSFSProofs`.
3. Next: the heap of `Malloc` is tiled; one process runs in
   `ProcessRun`; the bound on lost increments of the programs that race.

## Not modelled

* The drawing of the simulators that animate, and their buttons, which only pause
  or end them; the sums of times that are only printed.
* `hw26`'s `x86.py` is an earlier copy of the one in `hw28`, with fewer registers and
  instructions; its programs run on the later one, and use nothing in which the two
  differ.  `test-mov.s` only tests how operands are parsed.
* The simple counter and list of `hw29` hold one mutex from start to end, as
  `bst_simple.cpp` does.
* The HTTP servers of `hw33` keep nothing between requests; what could go wrong
  is in the sockets and the runtime, which are not here.  The checksums of `hw45` fold
  over the bytes of one block.  The short programs around system calls of `hw05`
  make one call each; what `fork`, `exit` and `wait` do is in `Generator`.
* Measurement programs and plots (`hw06`, `hw07`, `hw09`, `hw13`, `hw19`, `hw21`),
  programs that misuse the allocator on purpose (`hw14`), and wrappers of `stat`
  and `readdir` (`hw39`) have no behaviour that a model could check.
