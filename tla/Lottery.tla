------------------------------- MODULE Lottery -------------------------------
(***************************************************************************)
(* hw09-cpu-sched-lottery: lottery.py, which draws the ticket of the job   *)
(* that runs next, and stride.py, which runs the job that has advanced     *)
(* least.  A step is a quantum.                                            *)
(***************************************************************************)
EXTENDS Integers, Sequences, SequencesExt, FiniteSetsExt, Functions

CONSTANT Inputs   \* the options

VARIABLES
  input,    \* scheduler, quantum or Text, jobs: a sequence of <<length, tickets>>
  self,     \* the jobs; jobs are numbered from 0
  phase     \* "run", "end" or "error" (a lottery without tickets, a quantum
            \* that is a text)

vars == <<input, self, phase>>

\* A --quantum that is given to stride.py has no type and stays text, also if it
\* is the default, which is 1.
Text == -1

Jobs == 0 .. Len(input.jobs) - 1
Length(job) == input.jobs[job + 1][1]
Tickets(job) == input.jobs[job + 1][2]

RunTotal == SumFunction([j \in Jobs |-> Length(j)])

STRIDE_DIVIDEND == 10000

\* By the length of the job, not by its tickets.
Stride(job) == STRIDE_DIVIDEND \div Length(job)

Init ==
  /\ input \in Inputs
  /\ self = [left |-> [j \in Jobs |-> Length(j)],
             tickets |-> [j \in Jobs |-> Tickets(j)],
             tickTotal |-> SumFunction([j \in Jobs |-> Tickets(j)]),
             jobs |-> Len(input.jobs),     \* not done
             list |-> [k \in 1 .. Len(input.jobs) |-> k - 1],   \* of stride.py
             pass |-> [j \in Jobs |-> 0],
             quanta |-> 0,
             ran |-> -1]                   \* the job that ran last
  /\ phase = "run"

-----------------------------------------------------------------------------
(* lottery.py                                                              *)

TicketsUpTo(job) == SumFunctionOnSet(self.tickets, 0 .. job)

\* The first job whose tickets reach beyond the winning one; the one that won
\* before when there is none.
Winner(winner) ==
  LET reach == {j \in Jobs : TicketsUpTo(j) > winner}
  IN IF reach = {} THEN self.ran ELSE Min(reach)

TicketsLeft(job, left) == self.tickTotal - IF left = 0 THEN self.tickets[job] ELSE 0

Draw ==
  /\ phase = "run" /\ input.scheduler = "lottery"
  /\ self.jobs > 0 /\ self.quanta < RunTotal /\ self.tickTotal > 0
  /\ \E winner \in 0 .. self.tickTotal - 1 :
       LET job == Winner(winner)
           left == Max({self.left[job] - input.quantum, 0})
       IN self' = [self EXCEPT !.left[job] = left,
                               !.tickTotal = TicketsLeft(job, left),
                               !.tickets[job] = IF left = 0 THEN 0 ELSE @,
                               !.jobs = IF left = 0 THEN @ - 1 ELSE @,
                               !.quanta = @ + 1,
                               !.ran = job]
  /\ UNCHANGED <<input, phase>>

\* A ticket is drawn modulo tickTotal.
DrawNothing ==
  /\ phase = "run" /\ input.scheduler = "lottery"
  /\ self.jobs > 0 /\ self.quanta < RunTotal /\ self.tickTotal = 0
  /\ phase' = "error"
  /\ UNCHANGED <<input, self>>

Drawn ==
  /\ phase = "run" /\ input.scheduler = "lottery"
  /\ self.jobs = 0 \/ self.quanta = RunTotal
  /\ phase' = "end"
  /\ UNCHANGED <<input, self>>

-----------------------------------------------------------------------------
(* stride.py                                                               *)

MinPass ==
  Min({k \in DOMAIN self.list :
         \A j \in DOMAIN self.list : self.pass[self.list[k]] <= self.pass[self.list[j]]})

Advance ==
  /\ phase = "run" /\ input.scheduler = "stride"
  /\ self.list # <<>> /\ input.quantum # Text
  /\ LET job == self.list[MinPass]
         left == self.left[job] - Min({input.quantum, self.left[job]})
     IN self' = [self EXCEPT !.left[job] = left,
                             !.pass[job] = @ + Stride(job),
                             !.list = IF left = 0 THEN RemoveAt(@, MinPass) ELSE @,
                             !.jobs = IF left = 0 THEN @ - 1 ELSE @,
                             !.quanta = @ + 1,
                             !.ran = job]
  /\ UNCHANGED <<input, phase>>

\* min() of a text and a number, a TypeError, before the job has advanced.
AdvanceByText ==
  /\ phase = "run" /\ input.scheduler = "stride"
  /\ self.list # <<>> /\ input.quantum = Text
  /\ phase' = "error"
  /\ UNCHANGED <<input, self>>

Advanced ==
  /\ phase = "run" /\ input.scheduler = "stride"
  /\ self.list = <<>>
  /\ phase' = "end"
  /\ UNCHANGED <<input, self>>

Step == Draw \/ DrawNothing \/ Drawn \/ Advance \/ AdvanceByText \/ Advanced

Ended == phase \in {"end", "error"} /\ UNCHANGED vars

Next == Step \/ Ended

Spec == Init /\ [][Next]_vars

-----------------------------------------------------------------------------
(* Properties.                                                             *)

NotDone == {j \in Jobs : self.left[j] > 0}

\* jobs is the number of those that are not done; a lottery fails only when the
\* jobs that are left have no tickets, stride.py only when a quantum is given, and
\* then before any job has run.
TypeOK ==
  /\ self.left \in [Jobs -> Nat]
  /\ self.jobs = Cardinality(NotDone)
  /\ phase = "error" =>
       IF input.scheduler = "lottery" THEN \A j \in NotDone : Tickets(j) = 0
       ELSE input.quantum = Text /\ self.quanta = 0
  /\ phase = "end" => input.quantum # Text

\* The tickets in the drum are those of the jobs that are not done, and the
\* drawings suffice for all of them (lottery.py:70-123).
DrumHolds ==
  input.scheduler = "lottery" =>
    /\ self.tickTotal = SumFunctionOnSet([j \in Jobs |-> Tickets(j)], NotDone)
    /\ phase = "end" => NotDone = {}
    /\ self.quanta <= RunTotal

\* Jobs that are not done have advanced as far as each other, up to a stride;
\* those of equal length have therefore run as often, up to once, whatever
\* their tickets (stride.py:21-29).
StridesEven ==
  input.scheduler = "stride" /\ input.quantum # Text =>
    \A i, j \in NotDone :
      /\ self.pass[i] <= self.pass[j] + Stride(i)
      /\ Length(i) = Length(j) => self.left[i] <= self.left[j] + input.quantum

\* Only a job that is not done runs.
RunsNotDone == self'.quanta # self.quanta => self'.ran \in NotDone

=============================================================================
