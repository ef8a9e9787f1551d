----------------------------- MODULE ProcessRun -----------------------------
(***************************************************************************)
(* hw04-cpu-intro/process-run.py: processes compute and do I/O, and a      *)
(* scheduler switches between them when one issues an I/O or ends.  In a   *)
(* tick the processes are looked at for finished I/Os, one per step, then  *)
(* the current process executes an instruction.                            *)
(***************************************************************************)
EXTENDS Integers, Sequences, SequencesExt, FiniteSetsExt

CONSTANT Inputs   \* the options and the programs

VARIABLES
  input,    \* process_switch_behavior, io_done_behavior, io_length, programs
  self,     \* the scheduler
  phase     \* "io" (looking for finished I/Os), "execute", "end", "assert"

vars == <<input, self, phase>>

Procs == 0 .. Len(input.programs) - 1

\* An I/O takes an instruction to issue it and one to handle its completion.
Code(program) ==
  FlattenSeq([k \in DOMAIN program |->
                IF program[k] = "io" THEN <<"io", "io_done">> ELSE <<"cpu">>])

Init ==
  /\ input \in Inputs
  /\ self = [code |-> [p \in Procs |-> Code(input.programs[p + 1])],
             state |-> [p \in Procs |-> IF p = 0 THEN "RUNNING" ELSE "READY"],
             io_finish_times |-> [p \in Procs |-> {}],
             curr |-> 0, pid |-> 0, clock |-> 1, cpu_busy |-> 0, io_busy |-> 0]
  /\ phase = "io"

-----------------------------------------------------------------------------
(* The scheduler.                                                          *)

Runnable(s) == {p \in Procs : s.state[p] \in {"READY", "RUNNING"}}
Active(s) == {p \in Procs : s.state[p] # "DONE"}

RunProc(s, p) == [s EXCEPT !.curr = p, !.state[p] = "RUNNING"]

\* next_proc() without a pid: the first ready one after the current one, which
\* comes last.
NextProc(s) ==
  LET ready == {p \in Procs : s.state[p] = "READY"}
      distance(p) == (p - s.curr - 1) % Len(input.programs)
  IN IF ready = {} THEN s
     ELSE RunProc(s, CHOOSE p \in ready : \A q \in ready : distance(p) <= distance(q))

CheckIfDone(s) ==
  IF s.code[s.curr] = <<>> /\ s.state[s.curr] = "RUNNING"
  THEN NextProc([s EXCEPT !.state[s.curr] = "DONE"])
  ELSE s

\* Mutant of RunNow: a finished process waits until the others are done.
RunNowAlone(s) == input.io_done_behavior = "IO_RUN_IMMEDIATE"

\* Whether a process runs at once when its I/O is done.
RunNow(s) ==
  \/ input.io_done_behavior = "IO_RUN_IMMEDIATE"
  \/ input.process_switch_behavior = "SWITCH_ON_END"
  \/ Cardinality(Runnable(s)) = 1

\* Under IO_RUN_IMMEDIATE the process that runs is preempted.
Preempted(s, p) ==
  IF input.io_done_behavior = "IO_RUN_IMMEDIATE" /\ s.curr # p /\ s.state[s.curr] = "RUNNING"
  THEN [s EXCEPT !.state[s.curr] = "READY"]
  ELSE s

-----------------------------------------------------------------------------
(* A tick.                                                                 *)

\* The loop over the processes; pid is the next one to look at.
IODone ==
  /\ phase = "io" /\ self.pid \in Procs
  /\ self.clock \in self.io_finish_times[self.pid]
  /\ IF self.state[self.pid] # "WAITING" THEN phase' = "assert" /\ self' = self
     ELSE /\ \E s \in {[self EXCEPT !.state[self.pid] = "READY", !.pid = @ + 1]} :
               self' = CheckIfDone(IF RunNow(s) THEN RunProc(Preempted(s, self.pid), self.pid)
                                   ELSE s)
          /\ phase' = phase
  /\ UNCHANGED input

NoIODone ==
  /\ phase = "io" /\ self.pid \in Procs
  /\ self.clock \notin self.io_finish_times[self.pid]
  /\ self' = [self EXCEPT !.pid = @ + 1]
  /\ UNCHANGED <<input, phase>>

AllSeen ==
  /\ phase = "io" /\ self.pid \notin Procs
  /\ phase' = "execute"
  /\ UNCHANGED <<input, self>>

InFlight(s) == {p \in Procs : \E t \in s.io_finish_times[p] : t > s.clock}

FinishTime == self.clock + input.io_length + 1

\* What the instruction does after it was counted.
Executed(s, instruction) ==
  LET wait == [s EXCEPT !.state[s.curr] = "WAITING",
                        !.io_finish_times[s.curr] = @ \cup {FinishTime}]
  IN IF instruction # "io" THEN s
     ELSE IF input.process_switch_behavior = "SWITCH_ON_IO" THEN NextProc(wait)
     ELSE wait

\* The rest of a tick, and the beginning of the next one.
Execute ==
  /\ phase = "execute"
  /\ LET code == self.code[self.curr]
         runs == self.state[self.curr] = "RUNNING" /\ code # <<>>
         counted == [self EXCEPT !.io_busy = IF InFlight(self) # {} THEN @ + 1 ELSE @,
                                 !.cpu_busy = IF runs THEN @ + 1 ELSE @,
                                 !.code[self.curr] = IF runs THEN Tail(@) ELSE @]
     IN \E s \in {IF runs THEN Executed(counted, Head(code)) ELSE counted} :
          \E done \in {CheckIfDone(s)} :
            IF Active(done) = {} THEN self' = done /\ phase' = "end"
            ELSE /\ self' = [done EXCEPT !.clock = @ + 1, !.pid = 0]
                 /\ phase' = "io"
  /\ UNCHANGED input

Step == IODone \/ NoIODone \/ AllSeen \/ Execute

Ended == phase \in {"end", "assert"} /\ UNCHANGED vars

Next == Step \/ Ended

Spec == Init /\ [][Next]_vars

-----------------------------------------------------------------------------
(* Properties.                                                             *)

\* At most the current process runs, and a process waits exactly for an I/O
\* that is still to be noticed: the assertions of move_to_*() hold.
TypeOK ==
  /\ phase # "assert"
  /\ \A p \in Procs :
       /\ self.state[p] = "RUNNING" => p = self.curr
       /\ self.state[p] = "WAITING" <=>
            \E t \in self.io_finish_times[p] :
              t > self.clock \/ (phase = "io" /\ t = self.clock /\ p >= self.pid)
       /\ self.state[p] = "DONE" => self.code[p] = <<>>

\* When a tick begins, no process is ready while none runs, except that under
\* SWITCH_ON_END the one that waits is waited for (process-run.py:212-276).
NeverIdle ==
  phase = "execute" /\ (\E p \in Procs : self.state[p] = "READY") =>
    \/ self.state[self.curr] = "RUNNING"
    \/ input.process_switch_behavior = "SWITCH_ON_END" /\ self.state[self.curr] = "WAITING"

\* Under SWITCH_ON_END a process leaves the CPU only when it is done.
RunsToItsEnd ==
  input.process_switch_behavior = "SWITCH_ON_END" /\ self'.curr # self.curr =>
    self'.state[self.curr] = "DONE"

Instructions == FlattenSeq([k \in DOMAIN input.programs |-> Code(input.programs[k])])
IOs == Len(SelectSeq(Instructions, LAMBDA i : i = "io"))
Empty == Len(SelectSeq(input.programs, LAMBDA program : program = <<>>))

\* Every instruction is executed once; the time is between that of the
\* instructions and that of one process after the other, which is what
\* SWITCH_ON_END takes (an empty process costs a tick).
TimesAddUp ==
  phase = "end" =>
    LET sequential == Len(Instructions) + IOs * input.io_length + Empty
    IN /\ self.cpu_busy = Len(Instructions)
       /\ self.cpu_busy <= self.clock /\ self.clock <= sequential
       /\ self.io_busy <= IOs * input.io_length
       /\ self.clock >= self.io_busy
       /\ input.process_switch_behavior = "SWITCH_ON_END" =>
            self.clock = sequential /\ self.io_busy = IOs * input.io_length

=============================================================================
