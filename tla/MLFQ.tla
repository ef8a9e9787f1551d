-------------------------------- MODULE MLFQ --------------------------------
(***************************************************************************)
(* hw08-cpu-sched-mlfq/mlfq.py: a simulator of a multi-level feedback      *)
(* queue.  One iteration of its main loop is one time unit: the priority   *)
(* boost, the I/Os that end and the jobs that begin, then the job at the   *)
(* head of the highest queue that is not empty runs.                       *)
(*                                                                         *)
(* ioDone[time] is a list of events.  An event is kept with its job, as    *)
(* wake[job]: no two I/Os end at the same time, because I/Os all last      *)
(* ioTime and no two start at the same time, and the JOB BEGINS of a time  *)
(* were listed before the loop, in the order of the jobs.                  *)
(*                                                                         *)
(* firstRun and endTime, which only the final statistics read, are left    *)
(* out.                                                                    *)
(***************************************************************************)
EXTENDS Integers, Sequences

CONSTANTS
  NumJobs,    \* the jobs are 0 .. NumJobs - 1
  NumQueues,  \* numQueues
  Options,    \* the command lines: records of the options used below
  JobInputs   \* what a job of the list may be: <<startTime, runTime, ioFreq>>

Jobs == 0 .. NumJobs - 1
Levels == 0 .. NumQueues - 1
HiQueue == NumQueues - 1
Never == -1

\* A job has something to run and a quantum is at least one time unit, else
\* the simulator aborts or never ends a quantum.  An allotment may be anything:
\* --allotment is not checked, --allotmentList is not for the lowest level.
ASSUME MLFQAssumption ==
  /\ NumJobs \in Nat
  /\ NumQueues \in Nat \ {0}
  /\ \A o \in Options :
       /\ o.quantum \in [Levels -> Nat \ {0}]
       /\ o.allotment \in [Levels -> Int]
       /\ o.boost \in Nat
       /\ o.ioTime \in Nat
       /\ o.stay \in BOOLEAN /\ o.iobump \in BOOLEAN
  /\ JobInputs \subseteq Nat \X (Nat \ {0}) \X Nat

VARIABLES
  opt,        \* the options of this run
  runTime,    \* runTime of each job
  ioFreq,     \* ioFreq of each job
  pc,         \* the part of the loop body that comes next
  currTime,
  queue,      \* queue[q]: the jobs ready at level q
  currPri, ticksLeft, allotLeft, timeLeft, doingIO,  \* the fields of a job
  wake,       \* the time of the job's event in ioDone, or Never
  used,       \* history: time units a job ran since it came to its level
  waited      \* history: time units a job has been ready and not run

inputs == <<opt, runTime, ioFreq>>
fields == <<currPri, ticksLeft, allotLeft>>
vars == <<inputs, pc, currTime, queue, fields, timeLeft, doingIO, wake, used, waited>>

Quantum(q) == opt.quantum[q]
Allotment(q) == opt.allotment[q]

Init ==
  /\ opt \in Options
  /\ \E jlist \in [Jobs -> JobInputs] :
       /\ wake = [j \in Jobs |-> jlist[j][1]]
       /\ runTime = [j \in Jobs |-> jlist[j][2]]
       /\ ioFreq = [j \in Jobs |-> jlist[j][3]]
  /\ pc = "boost"
  /\ currTime = 0
  /\ queue = [q \in Levels |-> <<>>]
  /\ currPri = [j \in Jobs |-> HiQueue]
  /\ ticksLeft = [j \in Jobs |-> Quantum(HiQueue)]
  /\ allotLeft = [j \in Jobs |-> Allotment(HiQueue)]
  /\ timeLeft = runTime
  /\ doingIO = [j \in Jobs |-> FALSE]
  /\ used = [j \in Jobs |-> 0]
  /\ waited = [j \in Jobs |-> 0]

AllFinished == \A j \in Jobs : timeLeft[j] = 0

Goto(from, to) == pc = from /\ pc' = to

-----------------------------------------------------------------------------
(* The boost.                                                              *)

\* Mutant of BoostDue: no boost ever falls due.
BoostDueNever ==
  opt.boost > 0 /\ currTime = 0 /\ currTime % opt.boost # 0

BoostDue ==
  opt.boost > 0 /\ currTime # 0 /\ currTime % opt.boost = 0

CheckBoost ==
  /\ ~AllFinished
  /\ Goto("boost", IF BoostDue THEN "raise" ELSE "events")
  /\ UNCHANGED <<inputs, currTime, queue, fields, timeLeft, doingIO, wake,
                 used, waited>>

\* Mutant of Raise: the lower queues are not emptied.
RaiseCopy(q) ==
  /\ Goto("raise", "reset")
  /\ q # HiQueue /\ queue[q] # <<>>
  /\ queue' = [queue EXCEPT ![HiQueue] = Append(@, Head(queue[q]))]
  /\ UNCHANGED <<inputs, currTime, fields, timeLeft, doingIO, wake, used, waited>>

\* The jobs of the lower queues go to the end of the highest, from the lowest
\* queue up and in the order of each queue.
Raise(q) ==
  /\ pc = "raise"
  /\ q # HiQueue /\ queue[q] # <<>> /\ \A p \in Levels : p < q => queue[p] = <<>>
  /\ LET j == Head(queue[q])
     IN  queue' = [queue EXCEPT
                     ![q] = Tail(@),
                     ![HiQueue] = IF doingIO[j] THEN @ ELSE Append(@, j)]
  /\ UNCHANGED <<inputs, pc, currTime, fields, timeLeft, doingIO, wake, used, waited>>

RaiseEnd ==
  /\ Goto("raise", "reset")
  /\ \A q \in Levels \ {HiQueue} : queue[q] = <<>>
  /\ UNCHANGED <<inputs, currTime, queue, fields, timeLeft, doingIO, wake,
                 used, waited>>

\* Mutant of ResetPriorities: the priority is raised and the budget kept.
ResetPrioritiesOnly ==
  LET boosted == {j \in Jobs : timeLeft[j] > 0}
      Reset(f, v) == [j \in Jobs |-> IF j \in boosted THEN v ELSE f[j]]
  IN /\ Goto("reset", "events")
     /\ currPri' = Reset(currPri, HiQueue)
     /\ used' = Reset(used, 0)
     /\ UNCHANGED <<inputs, currTime, queue, ticksLeft, allotLeft, timeLeft,
                    doingIO, wake, waited>>

\* Every unfinished job, ready or not, starts afresh at the highest level.
ResetPriorities ==
  LET boosted == {j \in Jobs : timeLeft[j] > 0}
      Reset(f, v) == [j \in Jobs |-> IF j \in boosted THEN v ELSE f[j]]
  IN /\ Goto("reset", "events")
     /\ currPri' = Reset(currPri, HiQueue)
     /\ allotLeft' = Reset(allotLeft, Allotment(HiQueue))
     /\ ticksLeft' = Reset(ticksLeft, Quantum(HiQueue))
     /\ used' = Reset(used, 0)
     /\ UNCHANGED <<inputs, currTime, queue, timeLeft, doingIO, wake, waited>>

-----------------------------------------------------------------------------
(* The events of this time.                                                *)

Begins(j) == timeLeft[j] = runTime[j]

\* The jobs of ioDone[currTime], and whose event is listed first.
Due == {j \in Jobs : wake[j] = currTime}
First(j) ==
  \A k \in Due : \/ Begins(j) /\ ~Begins(k)
                 \/ (Begins(j) <=> Begins(k)) /\ j <= k

\* The job joins the queue of its priority: at the end, or after an I/O at
\* the front if --iobump says so.
Wake(j) ==
  /\ pc = "events"
  /\ j \in Due /\ First(j)
  /\ wake' = [wake EXCEPT ![j] = Never]
  /\ doingIO' = [doingIO EXCEPT ![j] = FALSE]
  /\ queue' = [queue EXCEPT ![currPri[j]] =
                 IF opt.iobump /\ ~Begins(j) THEN <<j>> \o @ ELSE Append(@, j)]
  /\ UNCHANGED <<inputs, pc, currTime, fields, timeLeft, used, waited>>

EventsEnd ==
  /\ Goto("events", "run")
  /\ Due = {}
  /\ UNCHANGED <<inputs, currTime, queue, fields, timeLeft, doingIO, wake,
                 used, waited>>

-----------------------------------------------------------------------------
(* One time unit.                                                          *)

Queued(q) == {queue[q][n] : n \in 1 .. Len(queue[q])}
Ready == UNION {Queued(q) : q \in Levels}

\* FindQueue(): the highest queue that is not empty.
Top(q) == queue[q] # <<>> /\ \A p \in Levels : p > q => queue[p] = <<>>

\* Every ready job but j waits for the time unit that j runs.
Tick(j) ==
  /\ Goto("run", "boost")
  /\ currTime' = currTime + 1
  /\ waited' = [k \in Jobs |-> IF k \in Ready \ {j} THEN waited[k] + 1 ELSE 0]
  /\ UNCHANGED <<inputs>>

\* Mutant of Idle: the time stands still.
IdleStuck ==
  /\ Goto("run", "boost")
  /\ \A q \in Levels : queue[q] = <<>>
  /\ UNCHANGED <<inputs, currTime, queue, fields, timeLeft, doingIO, wake,
                 used, waited>>

Idle ==
  /\ Tick(Never)
  /\ \A q \in Levels : queue[q] = <<>>
  /\ UNCHANGED <<queue, fields, timeLeft, doingIO, wake, used>>

\* The job at the head of the highest queue runs and has `left` still to run.
Runs(j, q, left) ==
  /\ Tick(j)
  /\ Top(q) /\ j = Head(queue[q])
  /\ left = timeLeft[j] - 1
  /\ timeLeft' = [timeLeft EXCEPT ![j] = left]

Finish(j, q) ==
  /\ Runs(j, q, 0)
  /\ queue' = [queue EXCEPT ![q] = Tail(@)]
  /\ ticksLeft' = [ticksLeft EXCEPT ![j] = @ - 1]
  /\ used' = [used EXCEPT ![j] = @ + 1]
  /\ UNCHANGED <<currPri, allotLeft, doingIO, wake>>

IssuesIO(j, left) == ioFreq[j] > 0 /\ (runTime[j] - left) % ioFreq[j] = 0

\* Neither an I/O nor the end of the quantum.
Continue(j, q, left) ==
  /\ Runs(j, q, left) /\ left > 0
  /\ ~IssuesIO(j, left) /\ ticksLeft[j] # 1
  /\ ticksLeft' = [ticksLeft EXCEPT ![j] = @ - 1]
  /\ used' = [used EXCEPT ![j] = @ + 1]
  /\ UNCHANGED <<queue, currPri, allotLeft, doingIO, wake>>

StartIO(j) ==
  /\ doingIO' = [doingIO EXCEPT ![j] = TRUE]
  /\ wake' = [wake EXCEPT ![j] = currTime + 1 + opt.ioTime]

\* Mutant of Block: an I/O always gives the job a full quantum.
BlockReset(j, q, left) ==
  /\ Runs(j, q, left) /\ left > 0
  /\ IssuesIO(j, left) /\ ticksLeft[j] # 1
  /\ queue' = [queue EXCEPT ![q] = Tail(@)]
  /\ StartIO(j)
  /\ ticksLeft' = [ticksLeft EXCEPT ![j] = Quantum(q)]
  /\ used' = [used EXCEPT ![j] = @ + 1]
  /\ UNCHANGED <<currPri, allotLeft>>

\* An I/O before the end of the quantum; --stay gives the job a new budget.
Block(j, q, left) ==
  /\ Runs(j, q, left) /\ left > 0
  /\ IssuesIO(j, left) /\ ticksLeft[j] # 1
  /\ queue' = [queue EXCEPT ![q] = Tail(@)]
  /\ StartIO(j)
  /\ ticksLeft' = [ticksLeft EXCEPT ![j] = IF opt.stay THEN Quantum(q) ELSE @ - 1]
  /\ allotLeft' = [allotLeft EXCEPT ![j] = IF opt.stay THEN Allotment(q) ELSE @]
  /\ used' = [used EXCEPT ![j] = @ + 1]
  /\ UNCHANGED currPri

\* Mutant of Expire: a job that keeps its level gets no new quantum.
ExpireKeepsTicks(j, q, left) ==
  LET allot == allotLeft[j] - 1
      to == IF allot = 0 /\ q > 0 THEN q - 1 ELSE q
      popped == [queue EXCEPT ![q] = Tail(@)]
  IN /\ Runs(j, q, left) /\ left > 0
     /\ ticksLeft[j] = 1
     /\ queue' = [popped EXCEPT ![to] = Append(@, j)]
     /\ currPri' = [currPri EXCEPT ![j] = to]
     /\ ticksLeft' = [ticksLeft EXCEPT ![j] = IF allot = 0 THEN Quantum(to) ELSE 0]
     /\ allotLeft' = [allotLeft EXCEPT ![j] = IF allot = 0 THEN Allotment(to) ELSE allot]
     /\ used' = [used EXCEPT ![j] = IF allot = 0 THEN 0 ELSE @ + 1]
     /\ UNCHANGED <<doingIO, wake>>

\* The quantum ends, with or without an I/O at the same time; a job without
\* allotment left goes one level down.
Expire(j, q, left) ==
  LET io == IssuesIO(j, left)
      allot == (IF io /\ opt.stay THEN Allotment(q) ELSE allotLeft[j]) - 1
      to == IF allot = 0 /\ q > 0 THEN q - 1 ELSE q
      popped == [queue EXCEPT ![q] = Tail(@)]
  IN /\ Runs(j, q, left) /\ left > 0
     /\ ticksLeft[j] = 1
     /\ IF io
        THEN StartIO(j) /\ queue' = popped
        ELSE /\ UNCHANGED <<doingIO, wake>>
             /\ queue' = [popped EXCEPT ![to] = Append(@, j)]
     /\ currPri' = [currPri EXCEPT ![j] = to]
     /\ ticksLeft' = [ticksLeft EXCEPT ![j] = Quantum(to)]
     /\ allotLeft' = [allotLeft EXCEPT ![j] = IF allot = 0 THEN Allotment(to) ELSE allot]
     /\ used' = [used EXCEPT ![j] = IF allot = 0 THEN 0 ELSE @ + 1]

RunJob(j) ==
  \E q \in Levels, left \in 0 .. runTime[j] - 1 :
     Continue(j, q, left) \/ Block(j, q, left) \/ Expire(j, q, left)

Run ==
  \/ Idle
  \/ \E j \in Jobs : RunJob(j)
  \/ \E j \in Jobs, q \in Levels : Finish(j, q)

\* The statistics are printed when every job has finished.
Terminated == AllFinished /\ UNCHANGED vars

Next ==
  \/ CheckBoost \/ (\E q \in Levels : Raise(q)) \/ RaiseEnd \/ ResetPriorities
  \/ (\E j \in Jobs : Wake(j)) \/ EventsEnd
  \/ Run
  \/ Terminated

Spec == Init /\ [][Next]_vars

\* The program runs.
FairSpec == Spec /\ WF_vars(Next)

-----------------------------------------------------------------------------
(* Properties.                                                             *)

TypeOK ==
  /\ opt \in Options
  /\ runTime \in [Jobs -> Nat \ {0}] /\ ioFreq \in [Jobs -> Nat]
  /\ pc \in {"boost", "raise", "reset", "events", "run"}
  /\ currTime \in Nat
  /\ queue \in [Levels -> Seq(Jobs)]
  /\ currPri \in [Jobs -> Levels]
  /\ ticksLeft \in [Jobs -> Nat] /\ allotLeft \in [Jobs -> Int]
  /\ timeLeft \in [Jobs -> Nat]
  /\ doingIO \in [Jobs -> BOOLEAN]
  /\ wake \in [Jobs -> Nat \cup {Never}]
  /\ used \in [Jobs -> Nat] /\ waited \in [Jobs -> Nat]

\* A job is in one place: once in one queue, or waiting for its one event, or
\* finished.  It is in the queue of its priority, except while a boost moves
\* jobs before it resets priorities, so the loop never aborts at mlfq.py:273
\* or 291 and pops the job it ran (mlfq.py:306, 316, 334).
QueueSound ==
  \A q \in Levels : \A n \in 1 .. Len(queue[q]) :
    LET j == queue[q][n]
    IN  /\ pc \in {"raise", "reset"} \/ currPri[j] = q
        /\ timeLeft[j] > 0 /\ wake[j] = Never /\ ~doingIO[j]
        /\ \A r \in Levels : \A m \in 1 .. Len(queue[r]) :
             queue[r][m] = j => r = q /\ m = n
NoJobLost ==
  \A j \in Jobs : /\ timeLeft[j] > 0 => j \in Ready \/ wake[j] # Never
                  /\ timeLeft[j] = 0 => j \notin Ready /\ wake[j] = Never

\* No event is passed over: the loop looks at ioDone[currTime] only, once for
\* each time, and an I/O may end at the very time it was issued (--iotime=0).
NoEventMissed ==
  \A j \in Jobs : wake[j] # Never =>
     wake[j] >= currTime /\ (pc = "run" => wake[j] > currTime)

\* Every job is in its place, and will be found there (mlfq.py:231-291).
Placement == QueueSound /\ NoJobLost /\ NoEventMissed

\* What a job has left at its level is what it has not used there, although
\* the budget is split in quanta, and I/Os, boosts and demotions reset it at
\* different places (mlfq.py:248-250, 319-321, 336-356).
Budget ==
  \A j \in Jobs : timeLeft[j] > 0 =>
    LET q == currPri[j]
    IN  /\ ticksLeft[j] \in 1 .. Quantum(q)
        /\ allotLeft[j] <= Allotment(q)
        /\ Allotment(q) > 0 => allotLeft[j] > 0
        /\ ~opt.stay =>
             used[j] = (Allotment(q) - allotLeft[j]) * Quantum(q)
                         + (Quantum(q) - ticksLeft[j])

\* "Once a job uses up its time allotment at a given level, its priority is
\* reduced": exactly then, however the job splits its time with I/Os, and one
\* level at a time.
DemotedWhenUsedUp ==
  [][\A j \in Jobs : currPri'[j] < currPri[j] =>
       /\ currPri'[j] = currPri[j] - 1
       /\ opt.stay \/ used[j] + 1 = Allotment(currPri[j]) * Quantum(currPri[j])]_vars

\* With a boost period of a round of the highest queue at least, no ready job
\* waits for more than the period and a round (mlfq.py:231-250), whatever the
\* other jobs do; --iobump may let jobs in ahead.
WaitBounded ==
  LET round == NumJobs * Quantum(HiQueue)
  IN  opt.boost >= round /\ ~opt.iobump =>
        \A j \in Jobs : waited[j] <= opt.boost + round

\* The loop ends (mlfq.py:224): with every job finished.
AllJobsFinish == <>AllFinished

\* "The scheduler uses this feature to avoid starvation" (manual.md:173): with
\* a boost, a ready job waits for one period and one round at most.
BoostAvoidsStarvation ==
  opt.boost > 0 => \A j \in Jobs : waited[j] <= opt.boost + NumJobs * Quantum(HiQueue)

=============================================================================
