-------------------------------- MODULE X86 --------------------------------
(***************************************************************************)
(* hw28-threads-locks/x86.py: one CPU that runs the threads of a program   *)
(* in turn.  cpu.run() executes an instruction, then counts an interrupt   *)
(* timer down; at an interrupt, at `yield' and at `halt' the process list  *)
(* (proclist) switches to the next thread that has not halted.             *)
(*                                                                         *)
(* The loop body is one action, in the forms it takes: no switch, an       *)
(* interrupt, a halt, a halt at which the timer runs out too, and the last *)
(* halt.                                                                   *)
(***************************************************************************)
EXTENDS X86ISA, FiniteSets

CONSTANTS
  Programs,   \* Programs[name]: the instructions of a program, by address
  Options,    \* the command lines: records of the options used below
  Addresses,  \* the words of memory that the programs use
  LoadAddr,   \* loadaddr (-L), where the program starts
  MemSize     \* memsize (-m), in KB

\* argv gives each thread its registers; intfreq is positive (x86.py:1134); a
\* schedule names threads that exist, and all of them (x86.py:972-984).
ASSUME X86Assumption ==
  /\ \A o \in Options :
       /\ o.program \in DOMAIN Programs
       /\ o.numthreads \in Nat \ {0}
       /\ o.argv \in [0 .. o.numthreads - 1 -> [Registers -> Int]]
       /\ o.intfreq \in Nat \ {0}
       /\ o.intrand \in BOOLEAN
       /\ o.procsched \in Seq(Nat)
       /\ o.procsched # <<>> =>
            {o.procsched[n] : n \in 1 .. Len(o.procsched)} = 0 .. o.numthreads - 1
  /\ LoadAddr \in Nat /\ MemSize \in Nat

VARIABLES
  opt,        \* the options of this run
  cpu,        \* the PC, registers and conditions of the CPU
  memory,
  saved,      \* saved[t]: those that process t has saved
  done,       \* the processes that are done
  curr,       \* proclist.curr, an index of procsched
  interrupt   \* instructions until the next interrupt

processes == <<saved, done, curr>>
vars == <<opt, cpu, memory, processes, interrupt>>

Code == Programs[opt.program]
Threads == 0 .. opt.numthreads - 1
StackBottom(t) == MemSize * 1000 - 1000 * t

IsManual == opt.procsched # <<>>

\* procsched, as finalize() leaves it.
ScheduleLength == IF IsManual THEN Len(opt.procsched) ELSE opt.numthreads
Scheduled(n) == IF IsManual THEN opt.procsched[n + 1] ELSE n

Current == Scheduled(curr)

\* Mutant of Slices: random slices start at 0.
SlicesFromZero ==
  IF IsManual THEN {1} ELSE IF opt.intrand THEN 0 .. opt.intfreq - 1 ELSE {opt.intfreq}

\* setint(): the length of the next time slice.
Slices ==
  IF IsManual THEN {1} ELSE IF opt.intrand THEN 1 .. opt.intfreq ELSE {opt.intfreq}

Init ==
  /\ opt \in Options
  /\ memory = [a \in Addresses |-> 0]
  /\ saved = [t \in Threads |->
                [pc |-> LoadAddr, cc |-> {},
                 regs |-> [opt.argv[t] EXCEPT !["sp"] = StackBottom(t)]]]
  /\ done = {}
  /\ curr = 0
  /\ cpu = saved[Current]
  /\ interrupt \in Slices

\* Mutant of NextIndex: the list does not wrap around.
NextIndexNoWrap(from, to, finished) ==
  to = IF from + 1 = ScheduleLength THEN from ELSE from + 1

\* proclist.next(): the first entry after `from', round and round, whose
\* process is not done.
NextIndex(from, to, finished) ==
  \E k \in 1 .. ScheduleLength :
    /\ to = (from + k) % ScheduleLength
    /\ Scheduled(to) \notin finished
    /\ \A l \in 1 .. k - 1 : Scheduled((from + l) % ScheduleLength) \in finished

\* next() and restore().
SwitchTo(n, table) == curr' = n /\ cpu' = table[Scheduled(n)]

Fetched == Opcode(Code[cpu.pc])
After == Execution(Code, cpu, memory)

Running == done # Threads

\* An instruction, and no interrupt after it.
Execute ==
  /\ Running
  /\ Fetched \notin {"halt", "yield"} /\ interrupt # 1
  /\ \E s \in {After} : cpu' = Context(s) /\ memory' = s.memory
  /\ interrupt' = interrupt - 1
  /\ UNCHANGED <<opt, processes>>

\* Mutant of Interrupt: the condition codes are not saved.
InterruptNoCC ==
  /\ Running
  /\ Fetched # "halt" /\ (interrupt = 1 \/ Fetched = "yield")
  /\ memory' = After.memory
  /\ saved' = [saved EXCEPT ![Current] = [Context(After) EXCEPT !.cc = {}]]
  /\ \E n \in 0 .. ScheduleLength - 1 : NextIndex(curr, n, done) /\ SwitchTo(n, saved')
  /\ interrupt' \in Slices
  /\ UNCHANGED <<opt, done>>

\* An instruction after which the time slice is over, or a yield.
Interrupt ==
  /\ Running
  /\ Fetched # "halt" /\ (interrupt = 1 \/ Fetched = "yield")
  /\ \E s \in {After} :
       memory' = s.memory /\ saved' = [saved EXCEPT ![Current] = Context(s)]
  /\ \E n \in 0 .. ScheduleLength - 1 : NextIndex(curr, n, done) /\ SwitchTo(n, saved')
  /\ interrupt' \in Slices
  /\ UNCHANGED <<opt, done>>

Halts ==
  /\ Running
  /\ Fetched = "halt"
  /\ done' = done \cup {Current}
  /\ UNCHANGED <<opt, memory>>

HaltSwitch ==
  /\ Halts /\ done' # Threads
  /\ interrupt # 1
  /\ \E n \in 0 .. ScheduleLength - 1 : NextIndex(curr, n, done') /\ SwitchTo(n, saved)
  /\ interrupt' = interrupt - 1
  /\ UNCHANGED saved

\* The time slice ends with the halt: the thread that halt switched to is
\* saved as it was restored, and passed over.
HaltInterrupt ==
  /\ Halts /\ done' # Threads
  /\ interrupt = 1
  /\ \E m, n \in 0 .. ScheduleLength - 1 :
       NextIndex(curr, m, done') /\ NextIndex(m, n, done') /\ SwitchTo(n, saved)
  /\ interrupt' \in Slices
  /\ UNCHANGED saved

\* run() returns.
HaltLast ==
  /\ Halts /\ done' = Threads
  /\ UNCHANGED <<cpu, saved, curr, interrupt>>

Terminated == ~Running /\ UNCHANGED vars

Next ==
  Execute \/ Interrupt \/ HaltSwitch \/ HaltInterrupt \/ HaltLast \/ Terminated

Spec == Init /\ [][Next]_vars

\* The simulator runs.
FairSpec == Spec /\ WF_vars(Next)

-----------------------------------------------------------------------------
(* Properties.                                                             *)

Contexts ==
  [pc : Nat, regs : [Registers -> Int], cc : SUBSET {"gt", "gte", "lt", "lte", "eq", "neq"}]

TypeOK ==
  /\ opt \in Options
  /\ cpu \in Contexts
  /\ memory \in [Addresses -> Int]
  /\ saved \in [Threads -> Contexts]
  /\ done \subseteq Threads
  /\ curr \in 0 .. ScheduleLength - 1
  /\ interrupt \in 1 .. opt.intfreq \cup {1}

\* What a thread sees: the CPU while it runs, what was saved while it waits.
ThreadContexts ==
  [t \in Threads |-> IF t \in done THEN Halted
                     ELSE IF t = Current THEN cpu ELSE saved[t]]

\* The simulator gives every program the threads it expects: whatever the
\* time slices, a switch saves and restores all of a thread's state
\* (x86.py:926-931) and a halted thread never runs again (x86.py:907-912).
ThreadsSpec == INSTANCE X86Threads WITH program <- opt.program, ctx <- ThreadContexts
Implements == ThreadsSpec!Spec

=============================================================================
