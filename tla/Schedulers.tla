----------------------------- MODULE Schedulers -----------------------------
(***************************************************************************)
(* hw07-cpu-sched/scheduler.py: jobs that all arrive at time 0, run to     *)
(* their end in order of arrival (FIFO) or of length (SJF), or for a       *)
(* quantum in turns (RR).  A step runs a job, or a slice of it.            *)
(***************************************************************************)
EXTENDS Integers, Sequences, SequencesExt, FiniteSetsExt, Functions

CONSTANT Inputs   \* the options

VARIABLES
  input,    \* policy, quantum, lengths
  self,     \* the list of jobs and the statistics
  phase     \* "run" or "end"

vars == <<input, self, phase>>

Jobs == 0 .. Len(input.lengths) - 1
Length(job) == input.lengths[job + 1]

Shorter(a, b) == Length(a) < Length(b)

\* Jobs by length, those of equal length in order of arrival: Python's sort is
\* stable.
ByLength(jobs) ==
  SetToSortSeq(ToSet(jobs), LAMBDA a, b : Shorter(a, b) \/ (~Shorter(b, a) /\ a < b))

Arrived == [k \in 1 .. Len(input.lengths) |-> k - 1]

Init ==
  /\ input \in Inputs
  /\ self = [runlist |-> IF input.policy = "SJF" THEN ByLength(Arrived) ELSE Arrived,
             runtime |-> [j \in Jobs |-> Length(j)],   \* left
             thetime |-> 0,
             turnaround |-> [j \in Jobs |-> 0],
             response |-> [j \in Jobs |-> -1],
             lastran |-> [j \in Jobs |-> 0],
             wait |-> [j \in Jobs |-> 0]]
  /\ phase = "run"

-----------------------------------------------------------------------------

\* A job of FIFO or SJF: it waits, and first runs, for as long.
RunJob ==
  /\ phase = "run" /\ input.policy # "RR" /\ self.runlist # <<>>
  /\ LET job == Head(self.runlist)
     IN self' = [self EXCEPT !.runlist = Tail(@),
                             !.runtime[job] = 0,
                             !.response[job] = self.thetime,
                             !.wait[job] = self.thetime,
                             !.turnaround[job] = self.thetime + Length(job),
                             !.thetime = @ + Length(job)]
  /\ UNCHANGED <<input, phase>>

Preempt(runtime) == runtime > input.quantum

Requeued(job) == Append(Tail(self.runlist), job)

\* A slice of RR.
RunSlice ==
  /\ phase = "run" /\ input.policy = "RR" /\ self.runlist # <<>>
  /\ LET job == Head(self.runlist)
         runtime == self.runtime[job]
         ranfor == IF Preempt(runtime) THEN input.quantum ELSE runtime
         end == self.thetime + ranfor
     IN self' = [self EXCEPT !.runlist = IF Preempt(runtime) THEN Requeued(job) ELSE Tail(@),
                             !.runtime[job] = @ - ranfor,
                             !.response[job] = IF @ = -1 THEN self.thetime ELSE @,
                             !.wait[job] = @ + (self.thetime - self.lastran[job]),
                             !.lastran[job] = end,
                             !.turnaround[job] = IF Preempt(runtime) THEN @ ELSE end,
                             !.thetime = end]
  /\ UNCHANGED <<input, phase>>

AllRun ==
  /\ phase = "run" /\ self.runlist = <<>>
  /\ phase' = "end"
  /\ UNCHANGED <<input, self>>

Step == RunJob \/ RunSlice \/ AllRun

Ended == phase = "end" /\ UNCHANGED vars

Next == Step \/ Ended

Spec == Init /\ [][Next]_vars

-----------------------------------------------------------------------------
(* Properties.                                                             *)

Unfinished == ToSet(self.runlist)

\* The CPU is never idle.
TypeOK ==
  /\ phase \in {"run", "end"}
  /\ self.runtime \in [Jobs -> Nat]
  /\ self.thetime = SumFunction(input.lengths) - SumFunction(self.runtime)

\* Jobs that are not done have had the CPU as long as each other, up to a
\* quantum, and one that comes later in the list has had no less (RR).
InTurns ==
  input.policy = "RR" =>
    \A j \in 1 .. Len(self.runlist) : \A k \in j .. Len(self.runlist) :
      LET had(i) == Length(self.runlist[i]) - self.runtime[self.runlist[i]]
      IN had(j) <= had(k) /\ had(k) <= had(j) + input.quantum

\* How long jobs wait when they run in an order.
TotalWait(order) ==
  LET before[n \in 0 .. Len(order)] ==
        IF n = 0 THEN 0 ELSE before[n - 1] + Length(order[n])
      upTo[n \in 0 .. Len(order)] ==
        IF n = 0 THEN 0 ELSE upTo[n - 1] + before[n - 1]
  IN upTo[Len(order)]

\* What a job waits and runs is its turnaround, all that runs before a job is
\* done is waited for, and no order makes the jobs wait less than SJF does.
ResultsHold ==
  phase = "end" =>
    /\ \A j \in Jobs :
         /\ self.turnaround[j] = self.wait[j] + Length(j)
         /\ 0 <= self.response[j] /\ self.response[j] <= self.wait[j]
         /\ input.policy = "RR" => self.response[j] <= input.quantum * j
    /\ \E j \in Jobs : self.turnaround[j] = SumFunction(input.lengths)
    /\ input.policy = "SJF" =>
         \A order \in SetToSeqs(Jobs) : SumFunction(self.wait) <= TotalWait(order)

=============================================================================
