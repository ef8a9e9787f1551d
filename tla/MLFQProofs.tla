----------------------------- MODULE MLFQProofs -----------------------------
(***************************************************************************)
(* Proofs about MLFQ, for any number of jobs and queues, any job list and  *)
(* any command line.                                                       *)
(***************************************************************************)
EXTENDS MLFQ, FiniteSetTheorems, TLAPS

Elems(s) == {s[n] : n \in 1 .. Len(s)}
Distinct(s) == \A m, n \in 1 .. Len(s) : s[m] = s[n] => m = n

\* A job is in one queue at most and once in it.
Separate(qs) ==
  /\ \A q \in Levels : Distinct(qs[q])
  /\ \A q, r \in Levels : q # r => Elems(qs[q]) \cap Elems(qs[r]) = {}

Queues == [Levels -> Seq(Jobs)]

\* A job that is queued can run.
Placed ==
  /\ queue \in Queues /\ Separate(queue)
  /\ \A q \in Levels : \A j \in Elems(queue[q]) :
       /\ pc \in {"raise", "reset"} \/ currPri[j] = q
       /\ timeLeft[j] > 0 /\ wake[j] = Never /\ ~doingIO[j]

\* Priorities are reset when a boost has moved all the jobs up.
BoostInv ==
  /\ pc \in {"raise", "reset"} => BoostDue
  /\ pc = "reset" => \A q \in Levels \ {HiQueue} : queue[q] = <<>>

PlaceInv == Placed /\ NoJobLost /\ NoEventMissed /\ BoostInv

\* The time since the last boost; the period ends with the boost, not before.
Elapsed ==
  IF currTime # 0 /\ currTime % opt.boost = 0 /\ pc \in {"boost", "raise", "reset"}
  THEN opt.boost ELSE currTime % opt.boost

\* The most time units before the nth job of the highest queue is the first.
Q == Quantum(HiQueue)
Ahead(n) == IF n = 1 THEN 0 ELSE ticksLeft[Head(queue[HiQueue])] + (n - 2) * Q

\* Who is ready waits since the last boost or later, or since the period before
\* it, and has a place in the highest queue that the boost gave it.
InTurn(n) ==
  /\ waited[queue[HiQueue][n]] <= opt.boost + Elapsed
  /\ Elapsed + Ahead(n) <= (NumJobs - 1) * Q

WaitInv ==
  /\ \A j \in Jobs \ Ready : waited[j] = 0
  /\ \A q \in Levels : \A n \in 1 .. Len(queue[q]) :
       waited[queue[q][n]] <= Elapsed \/ (q = HiQueue /\ InTurn(n))

RareBoost == opt.boost >= NumJobs * Q /\ opt.boost > 0 /\ ~opt.iobump

IInv ==
  /\ TypeOK /\ PlaceInv /\ Budget
  /\ RareBoost => WaitInv

-----------------------------------------------------------------------------
(* Queues: what is in them after a job is popped or put at an end.         *)

LEMMA PopElems ==
  ASSUME NEW S, NEW s \in Seq(S), s # <<>>
  PROVE  /\ Tail(s) \in Seq(S) /\ Len(Tail(s)) = Len(s) - 1 /\ Len(s) \in Nat \ {0}
         /\ \A n \in 1 .. Len(Tail(s)) : n + 1 \in 1 .. Len(s) /\ Tail(s)[n] = s[n + 1]
         /\ Head(s) = s[1] /\ Head(s) \in Elems(s) /\ Head(s) \in S
         /\ Distinct(s) => /\ Distinct(Tail(s))
                           /\ Elems(Tail(s)) = Elems(s) \ {Head(s)}
<1>1. /\ Tail(s) \in Seq(S) /\ Len(Tail(s)) = Len(s) - 1 /\ Len(s) \in Nat \ {0}
      /\ Head(s) = s[1] /\ Head(s) \in S
  OBVIOUS
<1>2. \A n \in 1 .. Len(Tail(s)) : n + 1 \in 1 .. Len(s) /\ Tail(s)[n] = s[n + 1]
  BY <1>1
<1>3. Head(s) \in Elems(s)
  BY <1>1 DEF Elems
<1>4. ASSUME Distinct(s)
      PROVE  Distinct(Tail(s)) /\ Elems(Tail(s)) = Elems(s) \ {Head(s)}
  <2>1. Distinct(Tail(s))
    BY <1>1, <1>2, <1>4 DEF Distinct
  <2>2. \A n \in 2 .. Len(s) : n - 1 \in 1 .. Len(Tail(s)) /\ Tail(s)[n - 1] = s[n]
    BY <1>1, <1>2
  <2>3. \A n \in 2 .. Len(s) : s[n] # Head(s)
    BY <1>1, <1>4 DEF Distinct
  <2>4. Elems(Tail(s)) \subseteq Elems(s) \ {Head(s)}
    BY <1>1, <1>2, <2>3 DEF Elems
  <2>5. Elems(s) \ {Head(s)} \subseteq Elems(Tail(s))
    <3> SUFFICES ASSUME NEW n \in 1 .. Len(s), s[n] # Head(s)
                 PROVE  s[n] \in Elems(Tail(s))
      BY DEF Elems
    <3>1. n \in 2 .. Len(s)
      BY <1>1
    <3> QED BY <2>2, <3>1 DEF Elems
  <2> QED BY <2>1, <2>4, <2>5
<1> QED BY <1>1, <1>2, <1>3, <1>4

LEMMA AppendElems ==
  ASSUME NEW S, NEW s \in Seq(S), NEW j \in S
  PROVE  /\ Append(s, j) \in Seq(S) /\ Len(Append(s, j)) = Len(s) + 1 /\ Len(s) \in Nat
         /\ \A n \in 1 .. Len(s) : Append(s, j)[n] = s[n]
         /\ Append(s, j)[Len(s) + 1] = j
         /\ Elems(Append(s, j)) = Elems(s) \cup {j}
         /\ Distinct(s) /\ j \notin Elems(s) => Distinct(Append(s, j))
<1>1. /\ Append(s, j) \in Seq(S) /\ Len(Append(s, j)) = Len(s) + 1 /\ Len(s) \in Nat
      /\ \A n \in 1 .. Len(s) : Append(s, j)[n] = s[n]
      /\ Append(s, j)[Len(s) + 1] = j
  OBVIOUS
<1>2. 1 .. Len(Append(s, j)) = 1 .. Len(s) \cup {Len(s) + 1}
  BY <1>1
<1>3. Elems(Append(s, j)) = Elems(s) \cup {j}
  BY <1>1, <1>2 DEF Elems
<1>4. Distinct(s) /\ j \notin Elems(s) => Distinct(Append(s, j))
  BY <1>1, <1>2 DEF Elems, Distinct
<1> QED BY <1>1, <1>3, <1>4

LEMMA ConsElems ==
  ASSUME NEW S, NEW s \in Seq(S), NEW j \in S
  PROVE  /\ <<j>> \o s \in Seq(S)
         /\ Elems(<<j>> \o s) = Elems(s) \cup {j}
         /\ Distinct(s) /\ j \notin Elems(s) => Distinct(<<j>> \o s)
<1> DEFINE c == <<j>> \o s
<1>1. c \in Seq(S) /\ Len(c) = Len(s) + 1 /\ Len(s) \in Nat
  OBVIOUS
<1>2. c[1] = j /\ \A n \in 1 .. Len(s) : c[n + 1] = s[n]
  OBVIOUS
<1> HIDE DEF c
<1>3. \A n \in 1 .. Len(c) : n = 1 \/ (n - 1 \in 1 .. Len(s) /\ c[n] = s[n - 1])
  <2> SUFFICES ASSUME NEW n \in 1 .. Len(c), n # 1
               PROVE  n - 1 \in 1 .. Len(s) /\ c[n] = s[n - 1]
    OBVIOUS
  <2>1. n - 1 \in 1 .. Len(s) /\ (n - 1) + 1 = n
    BY <1>1
  <2> QED BY <1>2, <2>1
<1>4. Elems(c) \subseteq Elems(s) \cup {j}
  BY <1>2, <1>3 DEF Elems
<1>5. Elems(s) \cup {j} \subseteq Elems(c)
  <2>1. j \in Elems(c)
    <3>1. 1 \in 1 .. Len(c)
      BY <1>1
    <3> QED BY <1>2, <3>1 DEF Elems
  <2>2. ASSUME NEW n \in 1 .. Len(s) PROVE s[n] \in Elems(c)
    <3>1. n + 1 \in 1 .. Len(c)
      BY <1>1
    <3> QED BY <1>2, <3>1 DEF Elems
  <2> QED BY <2>1, <2>2 DEF Elems
<1>6. ASSUME Distinct(s), j \notin Elems(s) PROVE Distinct(c)
  <2> SUFFICES ASSUME NEW m \in 1 .. Len(c), NEW n \in 1 .. Len(c), c[m] = c[n]
               PROVE  m = n
    BY DEF Distinct
  <2>1. \A k \in 1 .. Len(s) : s[k] # j
    BY <1>6 DEF Elems
  <2>2. CASE m # 1 /\ n # 1
    <3>1. m - 1 = n - 1
      BY <1>3, <1>6, <2>2 DEF Distinct
    <3> QED BY <1>1, <3>1
  <2> QED BY <1>2, <1>3, <2>1, <2>2
<1> QED BY <1>1, <1>4, <1>5, <1>6 DEF c

Popped(qs, q) == [qs EXCEPT ![q] = Tail(@)]
Pushed(qs, q, j) == [qs EXCEPT ![q] = Append(@, j)]
PushedFront(qs, q, j) == [qs EXCEPT ![q] = <<j>> \o @]

LEMMA Pop ==
  ASSUME NEW qs \in Queues, Separate(qs), NEW q \in Levels, qs[q] # <<>>
  PROVE  /\ Popped(qs, q) \in Queues /\ Separate(Popped(qs, q))
         /\ Head(qs[q]) \in Elems(qs[q]) /\ Head(qs[q]) \in Jobs
         /\ \A r \in Levels :
              Elems(Popped(qs, q)[r]) = Elems(qs[r]) \ {Head(qs[q])}
<1> DEFINE ps == Popped(qs, q)
<1>1. qs[q] \in Seq(Jobs) /\ Distinct(qs[q])
  BY DEF Queues, Separate
<1>2. /\ Tail(qs[q]) \in Seq(Jobs) /\ Distinct(Tail(qs[q]))
      /\ Elems(Tail(qs[q])) = Elems(qs[q]) \ {Head(qs[q])}
      /\ Head(qs[q]) \in Elems(qs[q]) /\ Head(qs[q]) \in Jobs
  BY <1>1, PopElems
<1>3. /\ ps \in Queues /\ ps[q] = Tail(qs[q])
      /\ \A r \in Levels \ {q} : ps[r] = qs[r]
  BY <1>2 DEF Queues, Popped
<1> HIDE DEF ps
<1>4. Separate(ps)
  BY <1>2, <1>3 DEF Separate
<1>5. \A r \in Levels : Elems(ps[r]) = Elems(qs[r]) \ {Head(qs[q])}
  BY <1>2, <1>3 DEF Separate
<1> QED BY <1>2, <1>3, <1>4, <1>5 DEF ps

Joins(qs, q, j, ps) ==
  /\ ps \in Queues /\ Separate(ps)
  /\ \A r \in Levels :
       Elems(ps[r]) = IF r = q THEN Elems(qs[q]) \cup {j} ELSE Elems(qs[r])

LEMMA Push ==
  ASSUME NEW qs \in Queues, Separate(qs), NEW q \in Levels,
         NEW j \in Jobs, \A r \in Levels : j \notin Elems(qs[r])
  PROVE  Joins(qs, q, j, Pushed(qs, q, j)) /\ Joins(qs, q, j, PushedFront(qs, q, j))
<1>1. qs[q] \in Seq(Jobs) /\ Distinct(qs[q]) /\ j \notin Elems(qs[q])
  BY DEF Queues, Separate
<1>2. ASSUME NEW s \in Seq(Jobs), Distinct(s), Elems(s) = Elems(qs[q]) \cup {j},
             NEW ps, ps = [qs EXCEPT ![q] = s]
      PROVE  Joins(qs, q, j, ps)
  <2>1. ps \in Queues /\ ps[q] = s /\ \A r \in Levels \ {q} : ps[r] = qs[r]
    BY <1>2 DEF Queues
  <2>2. ASSUME NEW r \in Levels, r # q PROVE Elems(ps[q]) \cap Elems(ps[r]) = {}
    BY <1>2, <2>1, <2>2 DEF Separate
  <2>3. Separate(ps)
    BY <1>2, <2>1, <2>2 DEF Separate
  <2>4. Elems(ps[q]) = Elems(qs[q]) \cup {j}
    BY <1>2, <2>1
  <2>5. \A r \in Levels \ {q} : Elems(ps[r]) = Elems(qs[r])
    BY <2>1
  <2>6. \A r \in Levels :
          Elems(ps[r]) = IF r = q THEN Elems(qs[q]) \cup {j} ELSE Elems(qs[r])
    BY <2>4, <2>5
  <2> QED BY <2>1, <2>3, <2>6 DEF Joins
<1>3. Joins(qs, q, j, Pushed(qs, q, j))
  <2>1. /\ Append(qs[q], j) \in Seq(Jobs) /\ Distinct(Append(qs[q], j))
        /\ Elems(Append(qs[q], j)) = Elems(qs[q]) \cup {j}
    BY <1>1, AppendElems
  <2> QED BY <1>2, <2>1 DEF Pushed
<1>4. Joins(qs, q, j, PushedFront(qs, q, j))
  <2>1. /\ <<j>> \o qs[q] \in Seq(Jobs) /\ Distinct(<<j>> \o qs[q])
        /\ Elems(<<j>> \o qs[q]) = Elems(qs[q]) \cup {j}
    BY <1>1, ConsElems
  <2> QED BY <1>2, <2>1 DEF PushedFront
<1> QED BY <1>3, <1>4

LEMMA ElemsJobs ==
  ASSUME NEW qs \in Queues, NEW q \in Levels
  PROVE  Elems(qs[q]) \subseteq Jobs
BY DEF Elems, Queues

Moves(qs, j, to, ps) ==
  /\ ps \in Queues /\ Separate(ps)
  /\ \A r \in Levels :
       Elems(ps[r]) = (Elems(qs[r]) \ {j}) \cup (IF r = to THEN {j} ELSE {})

\* A job that is popped from one queue and pushed to another or to the same.
LEMMA Move ==
  ASSUME NEW qs \in Queues, Separate(qs), NEW q \in Levels, qs[q] # <<>>,
         NEW to \in Levels, NEW j, j = Head(qs[q])
  PROVE  Moves(qs, j, to, Pushed(Popped(qs, q), to, j))
<1> DEFINE ms == Popped(qs, q)
           ps == Pushed(ms, to, j)
<1>1. /\ ms \in Queues /\ Separate(ms) /\ j \in Jobs
      /\ \A r \in Levels : Elems(ms[r]) = Elems(qs[r]) \ {j}
  <2>1. /\ Popped(qs, q) \in Queues /\ Separate(Popped(qs, q)) /\ Head(qs[q]) \in Jobs
        /\ \A r \in Levels : Elems(Popped(qs, q)[r]) = Elems(qs[r]) \ {Head(qs[q])}
    BY Pop
  <2> QED BY <2>1
<1> HIDE DEF ms
<1>2. \A r \in Levels : j \notin Elems(ms[r])
  BY <1>1
<1>3. Joins(ms, to, j, ps)
  BY <1>1, <1>2, Push
<1> HIDE DEF ps
<1>4. \A r \in Levels :
        Elems(ps[r]) = (Elems(qs[r]) \ {j}) \cup (IF r = to THEN {j} ELSE {})
  BY <1>1, <1>3 DEF Joins
<1> QED BY <1>3, <1>4 DEF Joins, Moves, ms, ps

LEMMA ReadyElems ==
  /\ \A j : j \in Ready <=> \E q \in Levels : j \in Elems(queue[q])
  /\ \A j : j \in Ready' <=> \E q \in Levels : j \in Elems(queue'[q])
BY DEF Ready, Queued, Elems

LEMMA Empty == ASSUME NEW s \in Seq(Jobs) PROVE s = <<>> <=> Elems(s) = {}
<1>1. CASE s = <<>>
  BY <1>1 DEF Elems
<1>2. CASE s # <<>>
  BY <1>2, PopElems
<1> QED BY <1>1, <1>2

-----------------------------------------------------------------------------
(* The initial state and types.                                            *)

LEMMA Opt ==
  ASSUME opt \in Options
  PROVE  /\ HiQueue \in Levels
         /\ \A q \in Levels : Quantum(q) \in Nat \ {0} /\ Allotment(q) \in Int
         /\ opt.boost \in Nat /\ opt.ioTime \in Nat
         /\ opt.stay \in BOOLEAN /\ opt.iobump \in BOOLEAN
BY MLFQAssumption DEF HiQueue, Levels, Quantum, Allotment

LEMMA InitIInv == Init => IInv
<1> SUFFICES ASSUME Init PROVE IInv
  OBVIOUS
<1> USE Opt DEF Init
<1>1. TypeOK
  <2>1. PICK jlist \in [Jobs -> JobInputs] :
          /\ wake = [j \in Jobs |-> jlist[j][1]]
          /\ runTime = [j \in Jobs |-> jlist[j][2]]
          /\ ioFreq = [j \in Jobs |-> jlist[j][3]]
    OBVIOUS
  <2>2. \A j \in Jobs : jlist[j] \in Nat \X (Nat \ {0}) \X Nat
    BY MLFQAssumption
  <2>3. /\ wake \in [Jobs -> Nat] /\ runTime \in [Jobs -> Nat \ {0}]
        /\ ioFreq \in [Jobs -> Nat]
    BY <2>1, <2>2
  <2> QED BY <2>3 DEF TypeOK
<1>2. wake \in [Jobs -> Nat]
  <2>1. PICK jlist \in [Jobs -> JobInputs] : wake = [j \in Jobs |-> jlist[j][1]]
    OBVIOUS
  <2>2. \A j \in Jobs : jlist[j] \in Nat \X (Nat \ {0}) \X Nat
    BY MLFQAssumption
  <2> QED BY <2>1, <2>2
<1>3. \A q \in Levels : queue[q] = <<>> /\ Elems(queue[q]) = {} /\ Distinct(queue[q])
  BY DEF Elems, Distinct
<1>4. Ready = {}
  BY <1>3, ReadyElems
<1>5. PlaceInv
  BY <1>1, <1>2, <1>3, <1>4
     DEF PlaceInv, Placed, Separate, Queues, NoJobLost, NoEventMissed, BoostInv, TypeOK, Never
<1>6. Budget
  BY DEF Budget
<1>7. WaitInv
  BY <1>3 DEF WaitInv
<1> QED BY <1>1, <1>5, <1>6, <1>7 DEF IInv

-----------------------------------------------------------------------------
(* Every job is in its place.                                              *)

\* The job that runs.
LEMMA Running ==
  ASSUME IInv, NEW j, NEW q \in Levels, NEW left, Runs(j, q, left)
  PROVE  /\ pc = "run" /\ pc' = "boost" /\ currTime' = currTime + 1
         /\ queue \in Queues /\ Separate(queue) /\ queue[q] # <<>> /\ j = Head(queue[q])
         /\ j \in Jobs /\ j \in Elems(queue[q]) /\ j \in Ready
         /\ currPri[j] = q /\ timeLeft[j] > 0 /\ wake[j] = Never /\ ~doingIO[j]
         /\ left = timeLeft[j] - 1 /\ timeLeft' = [timeLeft EXCEPT ![j] = left]
         /\ UNCHANGED inputs
<1>1. /\ pc = "run" /\ pc' = "boost" /\ currTime' = currTime + 1
      /\ queue \in Queues /\ Separate(queue) /\ queue[q] # <<>> /\ j = Head(queue[q])
      /\ left = timeLeft[j] - 1 /\ timeLeft' = [timeLeft EXCEPT ![j] = left]
      /\ UNCHANGED inputs
  BY DEF Runs, Tick, Goto, Top, inputs, IInv, TypeOK, Queues, PlaceInv, Placed
<1>2. j \in Jobs /\ j \in Elems(queue[q])
  <2>1. Head(queue[q]) \in Elems(queue[q]) /\ Head(queue[q]) \in Jobs
    BY <1>1, Pop
  <2> QED BY <1>1, <2>1
<1>3. currPri[j] = q /\ timeLeft[j] > 0 /\ wake[j] = Never /\ ~doingIO[j]
  BY <1>1, <1>2 DEF IInv, PlaceInv, Placed
<1> QED BY <1>1, <1>2, <1>3, ReadyElems

LEMMA PlaceBoost ==
  ASSUME IInv, CheckBoost \/ RaiseEnd \/ ResetPriorities \/ EventsEnd
  PROVE  PlaceInv'
<1>0. queue' = queue /\ UNCHANGED <<timeLeft, wake, doingIO, currTime, opt>> /\ Ready' = Ready
  BY DEF CheckBoost, RaiseEnd, ResetPriorities, EventsEnd, inputs, Ready, Queued
<1>1. NoJobLost'
  BY <1>0 DEF IInv, PlaceInv, NoJobLost
<1>2. BoostDue' = BoostDue
  BY <1>0 DEF BoostDue
<1>3. CASE CheckBoost
  BY <1>0, <1>1, <1>2, <1>3
     DEF CheckBoost, Goto, fields, IInv, PlaceInv, Placed, NoEventMissed, BoostInv
<1>4. CASE RaiseEnd
  BY <1>0, <1>1, <1>2, <1>4
     DEF RaiseEnd, Goto, fields, IInv, PlaceInv, Placed, NoEventMissed, BoostInv
<1>5. CASE ResetPriorities
  <2>1. pc = "reset" /\ pc' = "events"
    BY <1>5 DEF ResetPriorities, Goto
  <2>2. \A q \in Levels \ {HiQueue} : Elems(queue[q]) = {}
    BY <2>1, Empty DEF IInv, TypeOK, PlaceInv, BoostInv
  <2>3. \A j \in Jobs : timeLeft[j] > 0 => currPri'[j] = HiQueue
    BY <1>5 DEF ResetPriorities
  <2>4. \A q \in Levels : \A j \in Elems(queue[q]) : j \in Jobs
    <3>1. \A q \in Levels : queue[q] \in Seq(Jobs)
      BY DEF IInv, TypeOK
    <3> QED BY <3>1 DEF Elems
  <2>5. Placed'
    BY <1>0, <2>1, <2>2, <2>3, <2>4 DEF IInv, PlaceInv, Placed
  <2> QED BY <1>0, <1>1, <2>1, <2>5 DEF IInv, PlaceInv, NoEventMissed, BoostInv
<1>6. CASE EventsEnd
  <2>1. pc = "events" /\ pc' = "run" /\ UNCHANGED currPri /\ Due = {}
    BY <1>6 DEF EventsEnd, Goto, fields
  <2>2. NoEventMissed'
    BY <1>0, <2>1 DEF IInv, TypeOK, PlaceInv, NoEventMissed, Due, Never
  <2> QED BY <1>0, <1>1, <2>1, <2>2 DEF IInv, PlaceInv, Placed, BoostInv
<1> QED BY <1>3, <1>4, <1>5, <1>6

LEMMA PlaceRaise ==
  ASSUME IInv, NEW q \in Levels, Raise(q)
  PROVE  PlaceInv'
<1> DEFINE j == Head(queue[q])
<1>0. /\ queue \in Queues /\ Separate(queue) /\ queue[q] # <<>> /\ q # HiQueue
      /\ pc = "raise" /\ pc' = "raise" /\ HiQueue \in Levels
      /\ UNCHANGED <<currTime, timeLeft, wake, doingIO, opt>>
  BY Opt DEF Raise, IInv, TypeOK, PlaceInv, Placed, Queues, inputs
<1>1. j \in Jobs /\ j \in Elems(queue[q]) /\ ~doingIO[j]
  <2>1. j \in Jobs /\ j \in Elems(queue[q])
    BY <1>0, Pop
  <2> QED BY <2>1 DEF IInv, PlaceInv, Placed
<1>2. queue' = Pushed(Popped(queue, q), HiQueue, j)
  <2>1. queue' = [queue EXCEPT ![q] = Tail(@), ![HiQueue] = Append(@, j)]
    BY <1>1 DEF Raise
  <2>2. /\ Popped(queue, q) \in [Levels -> Seq(Jobs)]
        /\ Popped(queue, q)[HiQueue] = queue[HiQueue]
    BY <1>0, Pop DEF Popped, Queues
  <2> QED BY <1>0, <2>1, <2>2 DEF Pushed, Popped, Queues
<1> HIDE DEF j
<1>3. /\ queue' \in Queues /\ Separate(queue')
      /\ \A r \in Levels :
           Elems(queue'[r]) = (Elems(queue[r]) \ {j}) \cup (IF r = HiQueue THEN {j} ELSE {})
  <2>1. j = Head(queue[q])
    BY DEF j
  <2>2. Moves(queue, j, HiQueue, queue')
    BY <1>0, <1>2, <2>1, Move
  <2> QED BY <2>2 DEF Moves
<1>4. \A k : k \in Ready' <=> k \in Ready
  BY <1>0, <1>1, <1>3, ReadyElems
<1>5. \A r \in Levels : \A k \in Elems(queue'[r]) :
        timeLeft[k] > 0 /\ wake[k] = Never /\ ~doingIO[k]
  BY <1>0, <1>1, <1>3 DEF IInv, PlaceInv, Placed
<1>6. BoostDue' = BoostDue
  BY <1>0 DEF BoostDue
<1> QED BY <1>0, <1>3, <1>4, <1>5, <1>6
        DEF IInv, PlaceInv, Placed, NoJobLost, NoEventMissed, BoostInv

LEMMA PlaceWake ==
  ASSUME IInv, NEW j \in Jobs, Wake(j)
  PROVE  PlaceInv'
<1> DEFINE q == currPri[j]
<1>0. /\ queue \in Queues /\ Separate(queue) /\ q \in Levels
      /\ pc = "events" /\ pc' = "events" /\ UNCHANGED <<currTime, timeLeft, currPri, opt>>
      /\ wake[j] = currTime /\ currTime \in Nat
      /\ wake' = [wake EXCEPT ![j] = Never]
      /\ doingIO' = [doingIO EXCEPT ![j] = FALSE]
  BY DEF Wake, IInv, TypeOK, PlaceInv, Placed, Queues, inputs, fields, Due
<1>1. wake[j] # Never /\ timeLeft[j] > 0
  BY <1>0 DEF IInv, PlaceInv, NoJobLost, TypeOK, Never
<1>2. \A r \in Levels : j \notin Elems(queue[r])
  BY <1>1 DEF IInv, PlaceInv, Placed
<1>3. queue' = Pushed(queue, q, j) \/ queue' = PushedFront(queue, q, j)
  BY DEF Wake, Pushed, PushedFront
<1> HIDE DEF q
<1>4. Joins(queue, q, j, queue')
  BY <1>0, <1>2, <1>3, Push
<1>5. \A k : k \in Ready' <=> k \in Ready \cup {j}
  BY <1>0, <1>4, ReadyElems DEF Joins
<1>6. ASSUME NEW r \in Levels, NEW k \in Elems(queue'[r])
      PROVE  currPri[k] = r /\ timeLeft[k] > 0 /\ wake'[k] = Never /\ ~doingIO'[k]
  <2>1. CASE k = j
    <3>1. r = q
      BY <1>2, <1>4, <2>1, <1>6 DEF Joins
    <3> QED BY <1>0, <1>1, <2>1, <3>1 DEF IInv, TypeOK, q
  <2>2. CASE k # j
    <3>1. k \in Elems(queue[r]) /\ k \in Jobs
      <4>1. k \in Elems(queue[r])
        BY <1>4, <1>6, <2>2 DEF Joins
      <4> QED BY <1>0, <4>1, ElemsJobs
    <3> QED BY <1>0, <2>2, <3>1 DEF IInv, TypeOK, PlaceInv, Placed
  <2> QED BY <2>1, <2>2
<1>7. Placed'
  BY <1>0, <1>4, <1>6 DEF Placed, Joins
<1>8. NoJobLost'
  BY <1>0, <1>1, <1>5 DEF IInv, TypeOK, PlaceInv, NoJobLost
<1>9. NoEventMissed'
  BY <1>0 DEF IInv, TypeOK, PlaceInv, NoEventMissed
<1> QED BY <1>0, <1>7, <1>8, <1>9 DEF PlaceInv, BoostInv

LEMMA PlaceIdle ==
  ASSUME IInv, Idle
  PROVE  PlaceInv'
<1>0. /\ queue' = queue /\ Ready' = Ready /\ UNCHANGED <<timeLeft, wake, doingIO, currPri>>
      /\ pc = "run" /\ pc' = "boost" /\ currTime' = currTime + 1 /\ currTime \in Nat
  BY DEF Idle, Tick, Goto, Ready, Queued, fields, IInv, TypeOK
<1>1. NoEventMissed'
  BY <1>0 DEF IInv, TypeOK, PlaceInv, NoEventMissed, Never
<1> QED BY <1>0, <1>1 DEF IInv, PlaceInv, Placed, NoJobLost, BoostInv

\* What a time unit does to the job that runs: it leaves its queue to finish or
\* to wait for its I/O, or it stays in a queue, of its own level or the next.
Leaves(j, q) ==
  /\ queue' = Popped(queue, q)
  /\ currPri' = currPri \/ \E to \in Levels : currPri' = [currPri EXCEPT ![j] = to]

Stays(j, q) ==
  /\ UNCHANGED <<doingIO, wake>>
  /\ \/ queue' = queue /\ currPri' = currPri
     \/ \E to \in Levels : /\ queue' = Pushed(Popped(queue, q), to, j)
                           /\ currPri' = [currPri EXCEPT ![j] = to]

LEMMA PlaceLeaves ==
  ASSUME IInv, NEW j, NEW q \in Levels, NEW left, Runs(j, q, left), Leaves(j, q),
         \/ left = 0 /\ UNCHANGED <<doingIO, wake>>
         \/ left > 0 /\ StartIO(j)
  PROVE  PlaceInv'
<1>0. /\ pc = "run" /\ pc' = "boost" /\ currTime' = currTime + 1 /\ currTime \in Nat
      /\ queue \in Queues /\ Separate(queue) /\ queue[q] # <<>> /\ j = Head(queue[q])
      /\ j \in Jobs /\ wake[j] = Never
      /\ timeLeft' = [timeLeft EXCEPT ![j] = left]
      /\ opt.ioTime \in Nat
  BY Running, Opt DEF IInv, TypeOK
<1>1. /\ queue' \in Queues /\ Separate(queue')
      /\ \A r \in Levels : Elems(queue'[r]) = Elems(queue[r]) \ {j}
  <2>1. queue' = Popped(queue, q)
    BY DEF Leaves
  <2> QED BY <1>0, <2>1, Pop
<1>2. \A k : k \in Ready' <=> k \in Ready \ {j}
  BY <1>1, ReadyElems
<1>3. \A k \in Jobs \ {j} : /\ timeLeft'[k] = timeLeft[k] /\ wake'[k] = wake[k]
                            /\ doingIO'[k] = doingIO[k] /\ currPri'[k] = currPri[k]
  BY <1>0 DEF Leaves, StartIO, IInv, TypeOK
<1>4. \/ timeLeft'[j] = 0 /\ wake'[j] = Never
      \/ timeLeft'[j] > 0 /\ wake'[j] = currTime + 1 + opt.ioTime /\ wake'[j] \in Nat
  <2>1. timeLeft'[j] = left
    BY <1>0 DEF IInv, TypeOK
  <2>2. CASE left > 0 /\ StartIO(j)
    <3>1. wake'[j] = currTime + 1 + opt.ioTime
      BY <1>0, <2>2 DEF StartIO, IInv, TypeOK
    <3> QED BY <1>0, <2>1, <2>2, <3>1
  <2>3. CASE left = 0 /\ UNCHANGED <<doingIO, wake>>
    BY <1>0, <2>1, <2>3
  <2> QED BY <2>2, <2>3
<1>5. Placed'
  <2>1. \A r \in Levels : \A k \in Elems(queue'[r]) :
          /\ currPri'[k] = r
          /\ timeLeft'[k] > 0 /\ wake'[k] = Never /\ ~doingIO'[k]
    <3> SUFFICES ASSUME NEW r \in Levels, NEW k \in Elems(queue'[r])
                 PROVE  /\ currPri'[k] = r
                        /\ timeLeft'[k] > 0 /\ wake'[k] = Never /\ ~doingIO'[k]
      OBVIOUS
    <3>1. k \in Elems(queue[r]) /\ k \in Jobs \ {j}
      BY <1>0, <1>1, ElemsJobs
    <3> QED BY <1>0, <1>3, <3>1 DEF IInv, PlaceInv, Placed
  <2> QED BY <1>1, <2>1 DEF Placed
<1>6. NoJobLost'
  <2>1. wake'[j] # Never <=> timeLeft'[j] > 0
    BY <1>4 DEF Never
  <2> QED BY <1>2, <1>3, <1>4, <2>1 DEF IInv, PlaceInv, NoJobLost
<1>7. NoEventMissed'
  <2>1. \A k \in Jobs \ {j} : wake[k] # Never => wake[k] >= currTime + 1
    BY <1>0 DEF IInv, TypeOK, PlaceInv, NoEventMissed, Never
  <2> QED BY <1>0, <1>3, <1>4, <2>1 DEF NoEventMissed
<1> QED BY <1>0, <1>5, <1>6, <1>7 DEF PlaceInv, BoostInv

LEMMA PlaceStays ==
  ASSUME IInv, NEW j, NEW q \in Levels, NEW left, Runs(j, q, left), Stays(j, q),
         left > 0
  PROVE  PlaceInv'
<1>0. /\ pc = "run" /\ pc' = "boost" /\ currTime' = currTime + 1 /\ currTime \in Nat
      /\ queue \in Queues /\ Separate(queue) /\ queue[q] # <<>> /\ j = Head(queue[q])
      /\ j \in Jobs /\ j \in Elems(queue[q]) /\ currPri[j] = q /\ j \in Ready
      /\ wake[j] = Never /\ ~doingIO[j]
      /\ timeLeft' = [timeLeft EXCEPT ![j] = left]
      /\ UNCHANGED <<doingIO, wake>>
  BY Running DEF Stays, IInv, TypeOK
<1>1. PICK to \in Levels :
        /\ queue' \in Queues /\ Separate(queue')
        /\ currPri'[j] = to /\ \A k \in Jobs \ {j} : currPri'[k] = currPri[k]
        /\ \A r \in Levels :
             Elems(queue'[r]) = (Elems(queue[r]) \ {j}) \cup (IF r = to THEN {j} ELSE {})
  <2>1. CASE queue' = queue /\ currPri' = currPri
    <3>1. \A r \in Levels :
            Elems(queue[r]) = (Elems(queue[r]) \ {j}) \cup (IF r = q THEN {j} ELSE {})
      BY <1>0 DEF Separate
    <3> WITNESS q \in Levels
    <3> QED BY <1>0, <2>1, <3>1
  <2>2. ASSUME NEW to \in Levels, queue' = Pushed(Popped(queue, q), to, j),
               currPri' = [currPri EXCEPT ![j] = to]
        PROVE  /\ Moves(queue, j, to, queue')
               /\ currPri'[j] = to /\ \A k \in Jobs \ {j} : currPri'[k] = currPri[k]
    <3>1. Moves(queue, j, to, queue')
      BY <1>0, <2>2, Move
    <3> QED BY <1>0, <2>2, <3>1 DEF IInv, TypeOK
  <2>3. CASE \E to \in Levels : /\ queue' = Pushed(Popped(queue, q), to, j)
                                /\ currPri' = [currPri EXCEPT ![j] = to]
    <3>1. PICK to \in Levels : /\ queue' = Pushed(Popped(queue, q), to, j)
                              /\ currPri' = [currPri EXCEPT ![j] = to]
      BY <2>3
    <3>2. /\ Moves(queue, j, to, queue')
          /\ currPri'[j] = to /\ \A k \in Jobs \ {j} : currPri'[k] = currPri[k]
      BY <2>2, <3>1
    <3> WITNESS to \in Levels
    <3> QED BY <3>2 DEF Moves
  <2> QED BY <2>1, <2>3 DEF Stays
<1>2. \A k : k \in Ready' <=> k \in Ready
  <2>1. j \in Elems(queue'[to])
    BY <1>1
  <2>2. \A k : k # j => \A r \in Levels : k \in Elems(queue'[r]) <=> k \in Elems(queue[r])
    BY <1>1
  <2> QED BY <1>0, <2>1, <2>2, ReadyElems
<1>3. \A k \in Jobs \ {j} : timeLeft'[k] = timeLeft[k]
  BY <1>0 DEF IInv, TypeOK
<1>4. timeLeft'[j] > 0
  BY <1>0 DEF IInv, TypeOK
<1>5. Placed'
  <2>1. \A r \in Levels : \A k \in Elems(queue'[r]) :
          /\ currPri'[k] = r
          /\ timeLeft'[k] > 0 /\ wake'[k] = Never /\ ~doingIO'[k]
    <3> SUFFICES ASSUME NEW r \in Levels, NEW k \in Elems(queue'[r])
                 PROVE  /\ currPri'[k] = r
                        /\ timeLeft'[k] > 0 /\ wake'[k] = Never /\ ~doingIO'[k]
      OBVIOUS
    <3>1. CASE k = j
      BY <1>0, <1>1, <1>4, <3>1
    <3>2. CASE k # j
      <4>1. k \in Elems(queue[r]) /\ k \in Jobs
        BY <1>0, <1>1, <3>2, ElemsJobs
      <4> QED BY <1>0, <1>1, <1>3, <3>2, <4>1 DEF IInv, PlaceInv, Placed
    <3> QED BY <3>1, <3>2
  <2> QED BY <1>1, <2>1 DEF Placed
<1>6. NoJobLost'
  BY <1>0, <1>2, <1>3, <1>4 DEF IInv, PlaceInv, NoJobLost
<1>7. NoEventMissed'
  BY <1>0 DEF IInv, TypeOK, PlaceInv, NoEventMissed, Never
<1> QED BY <1>0, <1>5, <1>6, <1>7 DEF PlaceInv, BoostInv

\* Every time unit but an idle one is of one of these kinds.
LEMMA RunKinds ==
  ASSUME IInv, NEW j \in Jobs, NEW q \in Levels, NEW left
  PROVE  /\ Finish(j, q) => Leaves(j, q) /\ Runs(j, q, 0) /\ UNCHANGED <<doingIO, wake>>
         /\ Continue(j, q, left) => Stays(j, q) /\ Runs(j, q, left) /\ left > 0
         /\ Block(j, q, left) =>
              Leaves(j, q) /\ Runs(j, q, left) /\ left > 0 /\ StartIO(j)
         /\ Expire(j, q, left) =>
              /\ Runs(j, q, left) /\ left > 0
              /\ Stays(j, q) \/ (Leaves(j, q) /\ StartIO(j))
<1>1. Finish(j, q) => Leaves(j, q) /\ Runs(j, q, 0) /\ UNCHANGED <<doingIO, wake>>
  BY DEF Finish, Leaves, Popped
<1>2. Continue(j, q, left) => Stays(j, q) /\ Runs(j, q, left) /\ left > 0
  BY DEF Continue, Stays
<1>3. Block(j, q, left) => Leaves(j, q) /\ Runs(j, q, left) /\ left > 0 /\ StartIO(j)
  BY DEF Block, Leaves, Popped
<1>4. ASSUME Expire(j, q, left)
      PROVE  /\ Runs(j, q, left) /\ left > 0
             /\ Stays(j, q) \/ (Leaves(j, q) /\ StartIO(j))
  <2>1. Runs(j, q, left) /\ left > 0
    BY <1>4 DEF Expire
  <2>2. PICK to \in Levels :
          /\ currPri' = [currPri EXCEPT ![j] = to]
          /\ \/ StartIO(j) /\ queue' = [queue EXCEPT ![q] = Tail(@)]
             \/ /\ UNCHANGED <<doingIO, wake>>
                /\ queue' = [[queue EXCEPT ![q] = Tail(@)] EXCEPT ![to] = Append(@, j)]
    <3>1. q > 0 => q - 1 \in Levels
      BY MLFQAssumption DEF Levels
    <3> QED BY <1>4, <3>1 DEF Expire
  <2> QED BY <2>1, <2>2 DEF Stays, Leaves, Popped, Pushed
<1> QED BY <1>1, <1>2, <1>3, <1>4

LEMMA PlaceStep == ASSUME IInv, Next PROVE PlaceInv'
<1>1. CASE Run
  <2>1. ASSUME NEW j \in Jobs, RunJob(j) PROVE PlaceInv'
    <3>1. PICK q \in Levels, left \in 0 .. runTime[j] - 1 :
            Continue(j, q, left) \/ Block(j, q, left) \/ Expire(j, q, left)
      BY <2>1 DEF RunJob
    <3> QED BY <3>1, RunKinds, PlaceLeaves, PlaceStays
  <2>2. ASSUME NEW j \in Jobs, NEW q \in Levels, Finish(j, q) PROVE PlaceInv'
    BY <2>2, RunKinds, PlaceLeaves
  <2> QED BY <1>1, <2>1, <2>2, PlaceIdle DEF Run
<1>2. CASE Terminated
  BY <1>2 DEF Terminated, vars, inputs, fields, IInv, PlaceInv, Placed, NoJobLost,
    NoEventMissed, BoostInv, BoostDue, Ready, Queued
<1> QED BY <1>1, <1>2, PlaceBoost, PlaceRaise, PlaceWake DEF Next

-----------------------------------------------------------------------------
(* Types and budgets.                                                      *)

LEMMA Ticks ==
  ASSUME IInv, NEW j \in Jobs, timeLeft[j] > 0
  PROVE  ticksLeft[j] \in 1 .. Quantum(currPri[j]) /\ ticksLeft[j] - 1 \in Nat
<1>1. Budget
  BY DEF IInv
<1>2. ticksLeft[j] \in 1 .. Quantum(currPri[j])
  BY <1>1, Zenon DEF Budget
<1>3. currPri[j] \in Levels
  BY DEF IInv, TypeOK
<1>4. Quantum(currPri[j]) \in Nat
  BY <1>3, Opt DEF IInv, TypeOK
<1> QED BY <1>2, <1>4

LEMMA TypeStep == ASSUME IInv, Next PROVE TypeOK'
<1>0. /\ HiQueue \in Levels /\ opt.ioTime \in Nat
      /\ \A q \in Levels : Quantum(q) \in Nat /\ Allotment(q) \in Int
  BY Opt DEF IInv, TypeOK
<1>q. queue' \in [Levels -> Seq(Jobs)]
  BY PlaceStep DEF PlaceInv, Placed, Queues
<1>1. CASE CheckBoost \/ RaiseEnd \/ EventsEnd
  BY <1>1 DEF CheckBoost, RaiseEnd, EventsEnd, Goto, inputs, fields, IInv, TypeOK
<1>2. CASE ResetPriorities
  BY <1>0, <1>2 DEF ResetPriorities, Goto, inputs, IInv, TypeOK
<1>3. ASSUME NEW q \in Levels, Raise(q) PROVE TypeOK'
  BY <1>q, <1>3 DEF Raise, inputs, fields, IInv, TypeOK
<1>4. ASSUME NEW j \in Jobs, Wake(j) PROVE TypeOK'
  BY <1>q, <1>4 DEF Wake, inputs, fields, IInv, TypeOK
<1>5. CASE Run
  <2>0. ASSUME NEW j, Tick(j)
        PROVE  /\ opt' = opt /\ runTime' = runTime /\ ioFreq' = ioFreq
               /\ pc' = "boost" /\ currTime' \in Nat /\ waited' \in [Jobs -> Nat]
    <3>1. \A k \in Jobs : waited[k] + 1 \in Nat
      BY DEF IInv, TypeOK
    <3> QED BY <2>0, <3>1 DEF Tick, Goto, inputs, IInv, TypeOK
  <2>1. CASE Idle
    BY <2>0, <2>1 DEF Idle, fields, IInv, TypeOK
  <2>2. ASSUME NEW j \in Jobs, NEW q \in Levels, NEW left \in Nat,
               \/ Finish(j, q) /\ left = 0
               \/ Continue(j, q, left) \/ Block(j, q, left) \/ Expire(j, q, left)
        PROVE  TypeOK'
    <3>1. Runs(j, q, left) /\ Tick(j)
      BY <2>2, RunKinds DEF Runs
    <3>2. timeLeft' \in [Jobs -> Nat]
      <4>1. timeLeft' = [timeLeft EXCEPT ![j] = left]
        BY <3>1, Running
      <4> QED BY <4>1 DEF IInv, TypeOK
    <3>3. currPri' \in [Jobs -> Levels]
      <4>1. currPri' = currPri \/ \E to \in Levels : currPri' = [currPri EXCEPT ![j] = to]
        BY <2>2, RunKinds DEF Leaves, Stays
      <4> QED BY <4>1 DEF IInv, TypeOK
    <3>4. ticksLeft[j] - 1 \in Nat /\ used[j] + 1 \in Nat /\ currTime + 1 + opt.ioTime \in Nat
      <4>1. timeLeft[j] > 0
        BY <3>1, Running
      <4>2. ticksLeft[j] - 1 \in Nat
        BY <4>1, Ticks
      <4>3. used[j] \in Nat /\ currTime \in Nat
        BY DEF IInv, TypeOK
      <4>4. used[j] + 1 \in Nat
        BY <4>3
      <4>5. currTime + 1 + opt.ioTime \in Nat
        BY <1>0, <4>3
      <4> QED BY <4>2, <4>4, <4>5
    <3>5. ticksLeft' \in [Jobs -> Nat] /\ allotLeft' \in [Jobs -> Int]
      <4>1. CASE Finish(j, q) \/ Continue(j, q, left)
        BY <3>4, <4>1 DEF Finish, Continue, IInv, TypeOK
      <4>2. CASE Block(j, q, left)
        BY <1>0, <3>4, <4>2 DEF Block, IInv, TypeOK
      <4>3. CASE Expire(j, q, left)
        <5>1. \E to \in Levels, a \in Int : /\ ticksLeft' = [ticksLeft EXCEPT ![j] = Quantum(to)]
                                            /\ allotLeft' = [allotLeft EXCEPT ![j] = a]
          <6>1. q > 0 => q - 1 \in Levels
            BY MLFQAssumption DEF Levels
          <6> DEFINE allot == (IF IssuesIO(j, left) /\ opt.stay THEN Allotment(q)
                               ELSE allotLeft[j]) - 1
                     to == IF allot = 0 /\ q > 0 THEN q - 1 ELSE q
                     a == IF allot = 0 THEN Allotment(to) ELSE allot
          <6>2. to \in Levels
            BY <6>1
          <6>3. allot \in Int
            BY <1>0 DEF IInv, TypeOK
          <6>4. /\ ticksLeft' = [ticksLeft EXCEPT ![j] = Quantum(to)]
                /\ allotLeft' = [allotLeft EXCEPT ![j] = a]
            BY <4>3 DEF Expire
          <6> HIDE DEF allot, to
          <6>5. a \in Int
            BY <1>0, <6>2, <6>3
          <6> HIDE DEF a
          <6> QED BY <6>2, <6>4, <6>5
        <5> QED BY <1>0, <5>1 DEF IInv, TypeOK
      <4> QED BY <2>2, <4>1, <4>2, <4>3
    <3>6. used' \in [Jobs -> Nat]
      <4>1. \E n \in {0, used[j] + 1} : used' = [used EXCEPT ![j] = n]
        BY <2>2 DEF Finish, Continue, Block, Expire
      <4> QED BY <3>4, <4>1 DEF IInv, TypeOK
    <3>7. doingIO' \in [Jobs -> BOOLEAN] /\ wake' \in [Jobs -> Nat \cup {Never}]
      BY <2>2, <3>4, RunKinds DEF StartIO, Stays, IInv, TypeOK
    <3> QED BY <1>q, <2>0, <3>1, <3>2, <3>3, <3>5, <3>6, <3>7 DEF IInv, TypeOK
  <2>3. ASSUME NEW j \in Jobs, RunJob(j) PROVE TypeOK'
    <3>1. PICK q \in Levels, left \in 0 .. runTime[j] - 1 :
            Continue(j, q, left) \/ Block(j, q, left) \/ Expire(j, q, left)
      BY <2>3 DEF RunJob
    <3>2. left \in Nat
      BY DEF IInv, TypeOK
    <3> QED BY <2>2, <3>1, <3>2
  <2> QED BY <1>5, <2>1, <2>2, <2>3 DEF Run
<1>6. CASE Terminated
  BY <1>6 DEF Terminated, vars, inputs, fields, IInv, TypeOK
<1> QED BY <1>1, <1>2, <1>3, <1>4, <1>5, <1>6 DEF Next

\* Budget, for the values of one job.
Fit(q, ticks, allot, u) ==
  /\ ticks \in 1 .. Quantum(q)
  /\ allot <= Allotment(q)
  /\ Allotment(q) > 0 => allot > 0
  /\ ~opt.stay => u = (Allotment(q) - allot) * Quantum(q) + (Quantum(q) - ticks)

LEMMA BudgetFit ==
  /\ Budget <=> \A j \in Jobs : timeLeft[j] > 0 =>
                  Fit(currPri[j], ticksLeft[j], allotLeft[j], used[j])
  /\ opt' = opt =>
       (Budget' <=> \A j \in Jobs : timeLeft'[j] > 0 =>
                      Fit(currPri'[j], ticksLeft'[j], allotLeft'[j], used'[j]))
BY Zenon DEF Budget, Fit, Quantum, Allotment

LEMMA Product ==
  ASSUME NEW m \in Int, NEW n \in Int, NEW k \in Int
  PROVE  /\ (m - m) * k = 0 /\ 0 * k = 0
         /\ (m - (n - 1)) * k = (m - n) * k + k
         /\ (m - 1) * k + k = m * k
         /\ (m - n) * k \in Int /\ m * k \in Int
<1>1. (m - (n - 1)) * k = (m - n) * k + k
  OBVIOUS
<1>2. (m - 1) * k + k = m * k
  OBVIOUS
<1>3. m - m = 0
  OBVIOUS
<1> QED BY <1>1, <1>2, <1>3

\* A job starts with a full budget at its level, ...
LEMMA FitFresh ==
  ASSUME opt \in Options, NEW q \in Levels, NEW u, opt.stay \/ u = 0
  PROVE  Fit(q, Quantum(q), Allotment(q), u)
<1>1. Quantum(q) \in Nat \ {0} /\ Allotment(q) \in Int
  BY Opt
<1> QED BY <1>1, Product DEF Fit

\* ... uses up a time unit of its quantum, ...
LEMMA FitTick ==
  ASSUME opt \in Options, NEW q \in Levels, NEW t \in Nat, NEW a \in Int, NEW u \in Nat,
         Fit(q, t, a, u), t # 1
  PROVE  Fit(q, t - 1, a, u + 1)
<1>1. Quantum(q) \in Nat \ {0} /\ Allotment(q) \in Int
  BY Opt
<1>2. (Allotment(q) - a) * Quantum(q) \in Int
  BY <1>1, Product
<1> DEFINE p == (Allotment(q) - a) * Quantum(q)
<1>3. /\ t \in 1 .. Quantum(q) /\ a <= Allotment(q) /\ (Allotment(q) > 0 => a > 0)
      /\ ~opt.stay => u = p + (Quantum(q) - t)
  BY DEF Fit
<1> HIDE DEF p
<1>4. t - 1 \in 1 .. Quantum(q)
  BY <1>1, <1>3
<1>5. p \in Int
  BY <1>2 DEF p
<1>6. ~opt.stay => u + 1 = p + (Quantum(q) - (t - 1))
  BY <1>1, <1>3, <1>5
<1> QED BY <1>3, <1>4, <1>6 DEF Fit, p

\* ... or the whole quantum; when that was the last one, it has used its
\* allotment of full quanta.
LEMMA FitExpire ==
  ASSUME opt \in Options, NEW q \in Levels, NEW a \in Int, NEW u \in Nat,
         Fit(q, 1, a, u)
  PROVE  /\ a - 1 # 0 => Fit(q, Quantum(q), a - 1, u + 1)
         /\ a - 1 = 0 /\ ~opt.stay => u + 1 = Allotment(q) * Quantum(q)
<1>1. Quantum(q) \in Nat \ {0} /\ Allotment(q) \in Int
  BY Opt
<1> DEFINE p == (Allotment(q) - a) * Quantum(q)
           r == (Allotment(q) - (a - 1)) * Quantum(q)
<1>2. p \in Int /\ r = p + Quantum(q)
  BY <1>1, Product
<1>3. a - 1 = 0 => r = Allotment(q) * Quantum(q)
  <2>1. a - 1 = 0 => Allotment(q) - (a - 1) = Allotment(q)
    BY <1>1
  <2> QED BY <2>1
<1>4. /\ a <= Allotment(q) /\ (Allotment(q) > 0 => a > 0)
      /\ ~opt.stay => u = p + (Quantum(q) - 1)
  BY DEF Fit
<1> HIDE DEF p, r
<1>5. ~opt.stay => u + 1 = r
  BY <1>1, <1>2, <1>4
<1>6. ASSUME a - 1 # 0 PROVE Fit(q, Quantum(q), a - 1, u + 1)
  <2>1. a - 1 <= Allotment(q) /\ (Allotment(q) > 0 => a - 1 > 0)
    BY <1>1, <1>4, <1>6
  <2>2. r + (Quantum(q) - Quantum(q)) = r
    BY <1>1, <1>2
  <2> QED BY <1>1, <1>5, <2>1, <2>2 DEF Fit, r
<1> QED BY <1>3, <1>5, <1>6

\* An I/O at the end of the quantum counts as nothing but that quantum if --stay.
LEMMA FitStay ==
  ASSUME opt \in Options, opt.stay, NEW q \in Levels, NEW u, Allotment(q) - 1 # 0
  PROVE  Fit(q, Quantum(q), Allotment(q) - 1, u)
<1>1. Quantum(q) \in Nat \ {0} /\ Allotment(q) \in Int
  BY Opt
<1> QED BY <1>1 DEF Fit

\* The budget of the job that runs, at the end of its time unit: it goes on at
\* its level, or it has used its allotment and goes down.
RunFit(j, q) ==
  /\ timeLeft'[j] > 0 => Fit(currPri'[j], ticksLeft'[j], allotLeft'[j], used'[j])
  /\ currPri'[j] < q => /\ currPri'[j] = q - 1
                        /\ opt.stay \/ used[j] + 1 = Allotment(q) * Quantum(q)
  /\ \A k \in Jobs \ {j} : /\ timeLeft'[k] = timeLeft[k] /\ currPri'[k] = currPri[k]
                           /\ ticksLeft'[k] = ticksLeft[k]
                           /\ allotLeft'[k] = allotLeft[k] /\ used'[k] = used[k]

\* A time unit changes the fields of the job that runs only.
LEMMA OthersKeep ==
  ASSUME IInv, NEW j \in Jobs, NEW q \in Levels, NEW left,
         Finish(j, q) \/ Continue(j, q, left) \/ Block(j, q, left) \/ Expire(j, q, left)
  PROVE  \A k \in Jobs \ {j} : /\ timeLeft'[k] = timeLeft[k] /\ currPri'[k] = currPri[k]
                               /\ ticksLeft'[k] = ticksLeft[k]
                               /\ allotLeft'[k] = allotLeft[k] /\ used'[k] = used[k]
<1> USE DEF IInv, TypeOK, Runs
<1>1. CASE Finish(j, q)
  BY <1>1 DEF Finish
<1>2. CASE Continue(j, q, left)
  BY <1>2 DEF Continue
<1>3. CASE Block(j, q, left)
  BY <1>3 DEF Block
<1>4. CASE Expire(j, q, left)
  BY <1>4 DEF Expire
<1> QED BY <1>1, <1>2, <1>3, <1>4

LEMMA FitRun ==
  ASSUME IInv, NEW j \in Jobs, NEW q \in Levels, NEW left \in Nat,
         \/ Finish(j, q) /\ left = 0
         \/ Continue(j, q, left) \/ Block(j, q, left) \/ Expire(j, q, left)
  PROVE  RunFit(j, q)
<1>1. Runs(j, q, left)
  BY RunKinds
<1>2. timeLeft[j] > 0 /\ currPri[j] = q /\ timeLeft' = [timeLeft EXCEPT ![j] = left]
  BY <1>1, Running
<1>3. Fit(q, ticksLeft[j], allotLeft[j], used[j])
  BY <1>2, BudgetFit DEF IInv
<1>4. /\ opt \in Options /\ ticksLeft[j] \in Nat /\ allotLeft[j] \in Int /\ used[j] \in Nat
      /\ Quantum(q) \in Nat \ {0} /\ Allotment(q) \in Int /\ q \in Int
      /\ j \in DOMAIN ticksLeft /\ j \in DOMAIN allotLeft /\ j \in DOMAIN used
      /\ j \in DOMAIN currPri /\ j \in DOMAIN timeLeft
  BY Opt DEF IInv, TypeOK, Levels
<1>k. \A k \in Jobs \ {j} : /\ timeLeft'[k] = timeLeft[k] /\ currPri'[k] = currPri[k]
                            /\ ticksLeft'[k] = ticksLeft[k]
                            /\ allotLeft'[k] = allotLeft[k] /\ used'[k] = used[k]
  BY OthersKeep
<1>5. CASE Finish(j, q) /\ left = 0
  <2>1. timeLeft'[j] = 0 /\ currPri'[j] = q
    BY <1>2, <1>4, <1>5 DEF Finish
  <2> QED BY <1>4, <1>k, <2>1 DEF RunFit
<1>6. CASE Continue(j, q, left)
  <2>1. /\ ticksLeft[j] # 1 /\ ticksLeft'[j] = ticksLeft[j] - 1 /\ used'[j] = used[j] + 1
        /\ currPri'[j] = q /\ allotLeft'[j] = allotLeft[j]
    BY <1>2, <1>4, <1>6 DEF Continue
  <2>2. Fit(q, ticksLeft[j] - 1, allotLeft[j], used[j] + 1)
    BY <1>3, <1>4, <2>1, FitTick
  <2> QED BY <1>4, <1>k, <2>1, <2>2 DEF RunFit
<1>7. CASE Block(j, q, left)
  <2>1. ticksLeft[j] # 1 /\ currPri'[j] = q /\ used'[j] = used[j] + 1
    BY <1>2, <1>4, <1>7 DEF Block
  <2>2. CASE opt.stay
    <3>1. ticksLeft'[j] = Quantum(q) /\ allotLeft'[j] = Allotment(q)
      BY <1>4, <1>7, <2>2 DEF Block
    <3>2. Fit(q, Quantum(q), Allotment(q), used[j] + 1)
      BY <1>4, <2>2, FitFresh
    <3> QED BY <1>4, <1>k, <2>1, <3>1, <3>2 DEF RunFit
  <2>3. CASE ~opt.stay
    <3>1. ticksLeft'[j] = ticksLeft[j] - 1 /\ allotLeft'[j] = allotLeft[j]
      BY <1>4, <1>7, <2>3 DEF Block
    <3>2. Fit(q, ticksLeft[j] - 1, allotLeft[j], used[j] + 1)
      BY <1>3, <1>4, <2>1, FitTick
    <3> QED BY <1>4, <1>k, <2>1, <3>1, <3>2 DEF RunFit
  <2> QED BY <2>2, <2>3
<1>8. CASE Expire(j, q, left)
  <2> DEFINE budget == IF IssuesIO(j, left) /\ opt.stay THEN Allotment(q) ELSE allotLeft[j]
             to == IF budget - 1 = 0 /\ q > 0 THEN q - 1 ELSE q
  <2>1. /\ ticksLeft[j] = 1 /\ currPri'[j] = to /\ ticksLeft'[j] = Quantum(to)
        /\ allotLeft'[j] = IF budget - 1 = 0 THEN Allotment(to) ELSE budget - 1
        /\ used'[j] = IF budget - 1 = 0 THEN 0 ELSE used[j] + 1
    BY <1>2, <1>4, <1>8 DEF Expire
  <2>2. to \in Levels /\ (to < q => to = q - 1 /\ budget - 1 = 0) /\ budget \in Int
    BY <1>4, MLFQAssumption DEF Levels
  <2>3. budget = allotLeft[j] \/ (opt.stay /\ budget = Allotment(q))
    OBVIOUS
  <2>4. budget - 1 # 0 => to = q
    OBVIOUS
  <2> HIDE DEF budget, to
  <2>5. Fit(q, 1, allotLeft[j], used[j])
    BY <1>3, <2>1
  <2>6. CASE budget - 1 = 0
    <3>1. Fit(to, Quantum(to), Allotment(to), 0)
      BY <1>4, <2>2, FitFresh
    <3>2. to < q => opt.stay \/ used[j] + 1 = Allotment(q) * Quantum(q)
      BY <1>4, <2>3, <2>5, <2>6, FitExpire
    <3> QED BY <1>k, <2>1, <2>2, <2>6, <3>1, <3>2 DEF RunFit
  <2>7. CASE budget - 1 # 0
    <3>1. Fit(q, Quantum(q), budget - 1, used[j] + 1)
      <4>1. CASE budget = allotLeft[j]
        BY <1>4, <2>5, <2>7, <4>1, FitExpire
      <4>2. CASE opt.stay /\ budget = Allotment(q)
        BY <1>4, <2>7, <4>2, FitStay
      <4> QED BY <2>3, <4>1, <4>2
    <3> QED BY <1>4, <1>k, <2>1, <2>4, <2>7, <3>1 DEF RunFit
  <2> QED BY <2>6, <2>7
<1> QED BY <1>5, <1>6, <1>7, <1>8

\* Outside a time unit only a boost touches the budgets.
LEMMA FitReset ==
  ASSUME IInv, ResetPriorities
  PROVE  Budget' /\ \A j \in Jobs : currPri'[j] >= currPri[j]
<1>1. /\ opt' = opt /\ timeLeft' = timeLeft /\ opt \in Options /\ HiQueue \in Levels
      /\ \A j \in Jobs : currPri[j] <= HiQueue /\ currPri[j] \in Int
  BY Opt, MLFQAssumption
     DEF ResetPriorities, inputs, IInv, TypeOK, Levels, HiQueue
<1>2. ASSUME NEW j \in Jobs, timeLeft[j] > 0
      PROVE  /\ currPri'[j] = HiQueue /\ ticksLeft'[j] = Quantum(HiQueue)
             /\ allotLeft'[j] = Allotment(HiQueue) /\ used'[j] = 0
  BY <1>2 DEF ResetPriorities
<1>3. ASSUME NEW j \in Jobs, ~(timeLeft[j] > 0) PROVE currPri'[j] = currPri[j]
  BY <1>3 DEF ResetPriorities
<1>4. Fit(HiQueue, Quantum(HiQueue), Allotment(HiQueue), 0)
  BY <1>1, FitFresh
<1>5. Budget'
  BY <1>1, <1>2, <1>4, BudgetFit
<1>6. \A j \in Jobs : currPri'[j] >= currPri[j]
  BY <1>1, <1>2, <1>3
<1> QED BY <1>5, <1>6

\* The jobs' fields are left alone by the other steps.
LEMMA FitKept ==
  ASSUME IInv,
         \/ CheckBoost \/ RaiseEnd \/ EventsEnd \/ Idle \/ Terminated
         \/ \E q \in Levels : Raise(q)
         \/ \E j \in Jobs : Wake(j)
  PROVE  UNCHANGED <<opt, timeLeft, currPri, ticksLeft, allotLeft, used>>
BY DEF CheckBoost, RaiseEnd, EventsEnd, Idle, Tick, Raise, Wake, Terminated, vars,
       inputs, fields

LEMMA BudgetStep ==
  ASSUME IInv, Next
  PROVE  /\ Budget'
         /\ \A j \in Jobs : currPri'[j] < currPri[j] =>
              /\ currPri'[j] = currPri[j] - 1
              /\ \/ opt.stay
                 \/ used[j] + 1 = Allotment(currPri[j]) * Quantum(currPri[j])
<1>0. /\ \A j \in Jobs : currPri[j] \in Int
      /\ \A j \in Jobs : timeLeft[j] > 0 =>
           Fit(currPri[j], ticksLeft[j], allotLeft[j], used[j])
  BY BudgetFit DEF IInv, TypeOK, Levels
<1>1. CASE \/ CheckBoost \/ RaiseEnd \/ EventsEnd \/ Idle \/ Terminated
           \/ \E q \in Levels : Raise(q)
           \/ \E j \in Jobs : Wake(j)
  <2>1. UNCHANGED <<opt, timeLeft, currPri, ticksLeft, allotLeft, used>>
    BY <1>1, FitKept
  <2>2. Budget'
    BY <1>0, <2>1, BudgetFit
  <2>3. \A j \in Jobs : ~(currPri'[j] < currPri[j])
    BY <1>0, <2>1
  <2> QED BY <2>2, <2>3
<1>2. CASE ResetPriorities
  <2>1. ResetPriorities => Budget' /\ \A j \in Jobs : currPri'[j] >= currPri[j]
    BY FitReset
  <2>2. \A j \in Jobs : currPri'[j] \in Int
    BY TypeStep DEF TypeOK, Levels
  <2>3. \A j \in Jobs : ~(currPri'[j] < currPri[j])
    BY <1>0, <1>2, <2>1, <2>2
  <2> QED BY <1>2, <2>1, <2>3
<1>3. ASSUME NEW i \in Jobs, NEW q \in Levels, NEW left \in Nat,
             \/ Finish(i, q) /\ left = 0
             \/ Continue(i, q, left) \/ Block(i, q, left) \/ Expire(i, q, left)
      PROVE  /\ Budget'
             /\ \A j \in Jobs : currPri'[j] < currPri[j] =>
                  /\ currPri'[j] = currPri[j] - 1
                  /\ \/ opt.stay
                     \/ used[j] + 1 = Allotment(currPri[j]) * Quantum(currPri[j])
  <2>1. RunFit(i, q)
    BY <1>3, FitRun
  <2>2. Runs(i, q, left)
    BY <1>3, RunKinds
  <2>3. currPri[i] = q /\ opt' = opt
    BY <2>2, Running DEF inputs
  <2>4. \A j \in Jobs : timeLeft'[j] > 0 =>
          Fit(currPri'[j], ticksLeft'[j], allotLeft'[j], used'[j])
    BY <1>0, <2>1 DEF RunFit
  <2>5. Budget'
    BY <2>3, <2>4, BudgetFit
  <2>6. \A j \in Jobs \ {i} : ~(currPri'[j] < currPri[j])
    BY <1>0, <2>1 DEF RunFit
  <2> QED BY <2>1, <2>3, <2>5, <2>6 DEF RunFit
<1>4. ASSUME NEW i \in Jobs, RunJob(i)
      PROVE  \E q \in Levels, left \in Nat :
               Continue(i, q, left) \/ Block(i, q, left) \/ Expire(i, q, left)
  <2>1. PICK q \in Levels, left \in 0 .. runTime[i] - 1 :
          Continue(i, q, left) \/ Block(i, q, left) \/ Expire(i, q, left)
    BY <1>4 DEF RunJob
  <2>2. left \in Nat
    BY DEF IInv, TypeOK
  <2> QED BY <2>1, <2>2
<1>5. CASE \E i \in Jobs : RunJob(i)
  BY <1>3, <1>4, <1>5
<1>6. CASE \E i \in Jobs, q \in Levels : Finish(i, q)
  BY <1>3, <1>6
<1> QED BY <1>1, <1>2, <1>5, <1>6 DEF Next, Run

-----------------------------------------------------------------------------
(* How long a job waits.                                                   *)

LEMMA Mono ==
  ASSUME NEW m \in Int, NEW n \in Int, m <= n, NEW k \in Nat
  PROVE  m * k <= n * k /\ (m >= 0 => m * k >= 0)
OBVIOUS

LEMMA Remainder ==
  ASSUME NEW b \in Nat \ {0}, NEW p \in Int, NEW q \in Int,
         NEW r \in 0 .. b - 1, NEW s \in 0 .. b - 1, b * p + r = b * q + s
  PROVE  r = s
<1>1. b * (p - q) = s - r
  OBVIOUS
<1>2. CASE p - q >= 1
  <2>1. b * (p - q) >= b
    BY <1>2
  <2> QED BY <1>1, <2>1
<1>3. CASE p - q <= -1
  <2>1. b * (p - q) <= -b
    BY <1>3
  <2> QED BY <1>1, <2>1
<1>4. CASE p - q = 0
  BY <1>1, <1>4
<1> QED BY <1>2, <1>3, <1>4

LEMMA ModStep ==
  ASSUME NEW c \in Nat, NEW b \in Nat \ {0}
  PROVE  /\ c % b \in 0 .. b - 1
         /\ (c + 1) % b = IF c % b = b - 1 THEN 0 ELSE (c % b) + 1
<1>1. ASSUME NEW n \in Nat
      PROVE  n % b \in 0 .. b - 1 /\ n \div b \in Int /\ n = b * (n \div b) + (n % b)
  OBVIOUS
<1> DEFINE p == (c + 1) \div b
           q == c \div b
           r == (c + 1) % b
           s == c % b
<1>2. /\ r \in 0 .. b - 1 /\ s \in 0 .. b - 1 /\ p \in Int /\ q \in Int
      /\ c + 1 = b * p + r /\ c = b * q + s
  BY <1>1
<1> HIDE DEF p, q, r, s
<1>3. CASE s = b - 1
  <2>1. b * p + r = b * (q + 1) + 0
    BY <1>2, <1>3
  <2>2. r = 0
    <3>1. q + 1 \in Int /\ 0 \in 0 .. b - 1
      BY <1>2
    <3> QED BY <1>2, <2>1, <3>1, Remainder
  <2> QED BY <1>2, <1>3, <2>2 DEF r, s
<1>4. CASE s # b - 1
  <2>1. b * p + r = b * q + (s + 1)
    BY <1>2
  <2>2. r = s + 1
    <3>1. s + 1 \in 0 .. b - 1
      BY <1>2, <1>4
    <3> QED BY <1>2, <2>1, <3>1, Remainder
  <2> QED BY <1>2, <1>4, <2>2 DEF r, s
<1> QED BY <1>3, <1>4

\* What RareBoost says of the numbers.
LEMMA Rare ==
  ASSUME IInv, RareBoost
  PROVE  /\ opt.boost \in Nat \ {0} /\ Q \in Nat \ {0} /\ NumJobs \in Nat
         /\ opt.boost >= NumJobs * Q /\ NumJobs * Q \in Nat /\ (NumJobs - 1) * Q \in Int
         /\ NumJobs * Q = (NumJobs - 1) * Q + Q
         /\ ~opt.iobump /\ HiQueue \in Levels /\ currTime \in Nat
         /\ Jobs # {} => (NumJobs - 1) * Q >= 0
<1>1. /\ opt.boost \in Nat \ {0} /\ Q \in Nat \ {0} /\ NumJobs \in Nat
      /\ opt.boost >= NumJobs * Q /\ ~opt.iobump /\ HiQueue \in Levels /\ currTime \in Nat
  BY Opt, MLFQAssumption DEF IInv, TypeOK, RareBoost, Q
<1>2. (NumJobs - 1) * Q \in Int /\ NumJobs * Q = (NumJobs - 1) * Q + Q
  BY <1>1, Product
<1>3. Jobs # {} => (NumJobs - 1) * Q >= 0
  <2>1. Jobs # {} => NumJobs - 1 >= 0
    BY <1>1 DEF Jobs
  <2> QED BY <1>1, <2>1, Mono
<1>4. NumJobs * Q \in Nat
  BY <1>1
<1> QED BY <1>1, <1>2, <1>3, <1>4

\* Elapsed is a time within the period.
LEMMA Span ==
  ASSUME IInv, RareBoost
  PROVE  Elapsed \in 0 .. opt.boost /\ Elapsed \in Nat /\ opt.boost \in Nat
<1>1. opt.boost \in Nat \ {0} /\ currTime \in Nat
  BY Rare
<1>2. currTime % opt.boost \in 0 .. opt.boost - 1
  BY <1>1, ModStep
<1> QED BY <1>1, <1>2 DEF Elapsed

\* The period grows by the time units, and ends when the boost is done.
LEMMA Period ==
  ASSUME IInv, RareBoost, Next
  PROVE  /\ Elapsed \in 0 .. opt.boost
         /\ opt' = opt
         /\ ResetPriorities => Elapsed = opt.boost /\ Elapsed' = 0
         /\ Run => Elapsed' = Elapsed + 1
         /\ (\E q \in Levels : Raise(q)) => Elapsed = opt.boost
         /\ ~ResetPriorities /\ ~Run => Elapsed' = Elapsed
<1> DEFINE B == opt.boost
<1>0. /\ B \in Nat \ {0} /\ currTime \in Nat /\ currTime % B \in 0 .. B - 1
      /\ (currTime + 1) % B = IF currTime % B = B - 1 THEN 0 ELSE (currTime % B) + 1
      /\ pc \in {"raise", "reset"} => currTime # 0 /\ currTime % B = 0
      /\ BoostDue <=> currTime # 0 /\ currTime % B = 0
  <2>1. B \in Nat \ {0} /\ currTime \in Nat
    BY Rare
  <2>2. BoostDue <=> currTime # 0 /\ currTime % B = 0
    BY <2>1 DEF BoostDue
  <2>3. pc \in {"raise", "reset"} => BoostDue
    BY DEF IInv, PlaceInv, BoostInv
  <2>4. /\ currTime % B \in 0 .. B - 1
        /\ (currTime + 1) % B = IF currTime % B = B - 1 THEN 0 ELSE (currTime % B) + 1
    <3> HIDE DEF B
    <3> QED BY <2>1, ModStep
  <2> QED BY <2>1, <2>2, <2>3, <2>4
<1>1. Elapsed \in 0 .. B
  BY Span
<1>2. opt' = opt
  <2>1. CASE Run
    BY <2>1 DEF Run, RunJob, Idle, Finish, Continue, Block, Expire, Runs, Tick, inputs
  <2>2. CASE ~Run
    BY <2>2 DEF Next, CheckBoost, Raise, RaiseEnd, ResetPriorities, Wake, EventsEnd,
      Terminated, vars, inputs
  <2> QED BY <2>1, <2>2
<1> HIDE DEF B
<1>3. Elapsed = IF currTime # 0 /\ currTime % B = 0 /\ pc \in {"boost", "raise", "reset"}
                THEN B ELSE currTime % B
  BY DEF Elapsed, B
<1>4. Elapsed' = IF currTime' # 0 /\ currTime' % B = 0 /\ pc' \in {"boost", "raise", "reset"}
                 THEN B ELSE currTime' % B
  BY <1>2 DEF Elapsed, B
<1>5. CASE Run
  <2>1. pc = "run" /\ pc' = "boost" /\ currTime' = currTime + 1
    BY <1>5 DEF Run, RunJob, Idle, Finish, Continue, Block, Expire, Runs, Tick, Goto
  <2>2. Elapsed = currTime % B
    BY <1>3, <2>1
  <2>3. Elapsed' = Elapsed + 1
    BY <1>0, <1>4, <2>1, <2>2
  <2>4. ~ResetPriorities /\ ~(\E q \in Levels : Raise(q))
    BY <2>1 DEF ResetPriorities, Raise, Goto
  <2> QED BY <1>1, <1>2, <2>3, <2>4, <1>5 DEF B
<1>6. CASE ResetPriorities
  <2>1. pc = "reset" /\ pc' = "events" /\ currTime' = currTime
    BY <1>6 DEF ResetPriorities, Goto
  <2>2. Elapsed = B /\ Elapsed' = 0
    BY <1>0, <1>3, <1>4, <2>1
  <2>3. ~Run /\ ~(\E q \in Levels : Raise(q))
    BY <2>1 DEF Run, RunJob, Idle, Finish, Continue, Block, Expire, Runs, Tick, Goto, Raise
  <2> QED BY <1>1, <1>2, <1>6, <2>2, <2>3 DEF B
<1>7. CASE ~Run /\ ~ResetPriorities
  <2>1. currTime' = currTime
    BY <1>7 DEF Next, CheckBoost, Raise, RaiseEnd, Wake, EventsEnd, Terminated, vars
  <2>2. \/ pc' = pc
        \/ pc = "boost" /\ pc' = IF BoostDue THEN "raise" ELSE "events"
        \/ pc = "raise" /\ pc' = "reset"
        \/ pc = "events" /\ pc' = "run"
    BY <1>7 DEF Next, CheckBoost, Raise, RaiseEnd, Wake, EventsEnd, Terminated, vars, Goto
  <2>3. Elapsed' = Elapsed
    BY <1>0, <1>3, <1>4, <2>1, <2>2
  <2>4. (\E q \in Levels : Raise(q)) => Elapsed = B
    BY <1>0, <1>3 DEF Raise
  <2> QED BY <1>1, <1>2, <1>7, <2>3, <2>4 DEF B
<1> QED BY <1>5, <1>6, <1>7

\* Where the ready jobs are.
LEMMA Places ==
  ASSUME IInv
  PROVE  /\ queue \in Queues /\ Separate(queue)
         /\ \A q \in Levels : \A n \in 1 .. Len(queue[q]) :
              /\ queue[q][n] \in Jobs /\ queue[q][n] \in Ready
              /\ queue[q] # <<>> /\ Head(queue[q]) = queue[q][1] /\ 1 \in 1 .. Len(queue[q])
              /\ timeLeft[queue[q][n]] > 0
              /\ pc \in {"raise", "reset"} \/ currPri[queue[q][n]] = q
         /\ \A j \in Ready : \E q \in Levels : \E n \in 1 .. Len(queue[q]) : j = queue[q][n]
<1>1. queue \in Queues /\ Separate(queue)
  BY DEF IInv, PlaceInv, Placed
<1>2. ASSUME NEW q \in Levels, NEW n \in 1 .. Len(queue[q])
      PROVE  /\ queue[q][n] \in Jobs /\ queue[q][n] \in Ready
             /\ queue[q] # <<>> /\ Head(queue[q]) = queue[q][1] /\ 1 \in 1 .. Len(queue[q])
             /\ timeLeft[queue[q][n]] > 0
             /\ pc \in {"raise", "reset"} \/ currPri[queue[q][n]] = q
  <2>1. queue[q] \in Seq(Jobs) /\ Len(queue[q]) \in Nat
    BY <1>1 DEF Queues
  <2>2. queue[q][n] \in Elems(queue[q])
    BY DEF Elems
  <2>3. queue[q] # <<>>
    BY <2>1
  <2>4. Head(queue[q]) = queue[q][1] /\ 1 \in 1 .. Len(queue[q])
    BY <2>1, <2>3
  <2>5. queue[q][n] \in Jobs /\ queue[q][n] \in Ready
    BY <1>1, <2>2, ElemsJobs, ReadyElems
  <2> QED BY <2>2, <2>3, <2>4, <2>5 DEF IInv, PlaceInv, Placed
<1>3. \A j \in Ready : \E q \in Levels : \E n \in 1 .. Len(queue[q]) : j = queue[q][n]
  BY DEF Ready, Queued
<1> QED BY <1>1, <1>2, <1>3

LEMMA AheadNat ==
  ASSUME IInv, RareBoost, NEW n \in 1 .. Len(queue[HiQueue])
  PROVE  Ahead(n) \in Nat /\ Elapsed \in 0 .. opt.boost /\ n \in Nat
<1>1. Elapsed \in 0 .. opt.boost
  BY Span
<1>2. /\ n \in Nat \ {0} /\ ticksLeft[Head(queue[HiQueue])] \in Nat
  <2>1. Head(queue[HiQueue]) \in Jobs
    BY Places, Rare
  <2>2. Len(queue[HiQueue]) \in Nat
    BY Rare, Places DEF Queues
  <2>3. ticksLeft[Head(queue[HiQueue])] \in Nat
    BY <2>1 DEF IInv, TypeOK
  <2> QED BY <2>2, <2>3
<1>3. n # 1 => (n - 2) * Q \in Nat
  <2>1. n # 1 => n - 2 \in Int /\ 0 <= n - 2
    BY <1>2
  <2>2. Q \in Nat /\ Q \in Int
    BY Rare
  <2>3. n # 1 => (n - 2) * Q \in Int /\ (n - 2) * Q >= 0
    BY <2>1, <2>2, Mono, Product
  <2> QED BY <2>3
<1> QED BY <1>1, <1>2, <1>3 DEF Ahead

\* When the period is over every ready job is at its end of the round.
LEMMA PeriodOver ==
  ASSUME IInv, RareBoost, Elapsed = opt.boost
  PROVE  \A j \in Ready : waited[j] <= opt.boost
<1> SUFFICES ASSUME NEW q \in Levels, NEW n \in 1 .. Len(queue[q])
             PROVE  waited[queue[q][n]] <= opt.boost
  BY Places
<1>1. waited[queue[q][n]] <= Elapsed \/ (q = HiQueue /\ InTurn(n))
  BY DEF IInv, WaitInv
<1>2. ~(q = HiQueue /\ InTurn(n))
  <2> SUFFICES ASSUME q = HiQueue, InTurn(n) PROVE FALSE
    OBVIOUS
  <2>1. Elapsed + Ahead(n) <= (NumJobs - 1) * Q
    BY DEF InTurn
  <2>2. Ahead(n) \in Nat
    BY AheadNat
  <2> DEFINE a == (NumJobs - 1) * Q
             b == NumJobs * Q
  <2>3. /\ opt.boost \in Nat /\ opt.boost >= b /\ a \in Int /\ b \in Int /\ b = a + Q
        /\ Q \in Nat \ {0}
    BY Rare
  <2> HIDE DEF a, b
  <2> QED BY <2>1, <2>2, <2>3 DEF a
<1> QED BY <1>1, <1>2

\* The steps that leave the queues and the time.
LEMMA WaitSame ==
  ASSUME IInv, RareBoost, UNCHANGED <<opt, queue, waited, ticksLeft>>, Elapsed' = Elapsed
  PROVE  WaitInv'
<1>1. Ready' = Ready
  BY DEF Ready, Queued
<1>2. \A j \in Jobs \ Ready' : waited'[j] = 0
  BY <1>1 DEF IInv, WaitInv
<1>3. \A n : InTurn(n)' <=> InTurn(n)
  BY DEF InTurn, Ahead, Q, Quantum
<1>4. \A q \in Levels : \A n \in 1 .. Len(queue'[q]) :
        waited'[queue'[q][n]] <= Elapsed' \/ (q = HiQueue /\ InTurn(n)')
  BY <1>3 DEF IInv, WaitInv
<1> QED BY <1>2, <1>4 DEF WaitInv

LEMMA WaitRaise ==
  ASSUME IInv, RareBoost, NEW q \in Levels, Raise(q), Next
  PROVE  WaitInv'
<1> DEFINE j == Head(queue[q])
<1>1. /\ queue \in Queues /\ Separate(queue) /\ queue[q] # <<>>
      /\ j \in Jobs /\ j \in Ready /\ ~doingIO[j] /\ HiQueue \in Levels
  <2>1. queue \in Queues /\ Separate(queue) /\ queue[q] # <<>> /\ HiQueue \in Levels
    BY Places, Rare DEF Raise
  <2>2. j \in Elems(queue[q]) /\ j \in Jobs
    BY <2>1, Pop
  <2> QED BY <2>1, <2>2, ReadyElems DEF IInv, PlaceInv, Placed
<1>2. Moves(queue, j, HiQueue, queue')
  <2>1. q # HiQueue
    BY DEF Raise
  <2>2. queue' = Pushed(Popped(queue, q), HiQueue, j)
    BY <1>1, <2>1 DEF Raise, Pushed, Popped, Queues
  <2> QED BY <1>1, <2>2, Move
<1>3. Ready' = Ready
  <2>1. \E r \in Levels : j \in Elems(queue'[r])
    BY <1>1, <1>2 DEF Moves
  <2>2. \A k : k # j => \A r \in Levels : k \in Elems(queue'[r]) <=> k \in Elems(queue[r])
    BY <1>2 DEF Moves
  <2>3. \A k : k \in Ready' <=> k \in Ready
    BY <1>1, <2>1, <2>2, ReadyElems
  <2> QED BY <2>3
<1>4. /\ Elapsed = opt.boost /\ Elapsed' = opt.boost /\ waited' = waited
  <2>1. ~ResetPriorities /\ ~Run /\ waited' = waited
    BY DEF Raise, ResetPriorities, Run, RunJob, Idle, Finish, Continue, Block, Expire, Runs,
      Tick, Goto
  <2> QED BY <2>1, Period
<1>5. \A r \in Levels : \A n \in 1 .. Len(queue'[r]) : queue'[r][n] \in Ready
  <2>1. \A r \in Levels : \A n \in 1 .. Len(queue'[r]) : queue'[r][n] \in Ready'
    BY DEF Ready, Queued
  <2> QED BY <1>3, <2>1
<1>6. \A r \in Levels : \A n \in 1 .. Len(queue'[r]) : waited'[queue'[r][n]] <= Elapsed'
  BY <1>4, <1>5, PeriodOver
<1>7. \A k \in Jobs \ Ready' : waited'[k] = 0
  BY <1>3, <1>4 DEF IInv, WaitInv
<1> QED BY <1>6, <1>7 DEF WaitInv

\* No queue is longer than there are jobs.
LEMMA Short ==
  ASSUME NEW s \in Seq(Jobs), Distinct(s)
  PROVE  Len(s) <= NumJobs
<1>1. Len(s) \in Nat /\ NumJobs \in Nat
  BY MLFQAssumption
<1>2. IsFiniteSet(Jobs) /\ Cardinality(Jobs) = NumJobs
  <2>1. /\ IsFiniteSet(0 .. NumJobs - 1)
        /\ Cardinality(0 .. NumJobs - 1)
             = IF 0 > NumJobs - 1 THEN 0 ELSE (NumJobs - 1) - 0 + 1
    BY <1>1, FS_Interval
  <2> QED BY <1>1, <2>1 DEF Jobs
<1>3. IsFiniteSet(1 .. Len(s)) /\ Cardinality(1 .. Len(s)) = Len(s)
  <2>1. /\ IsFiniteSet(1 .. Len(s))
        /\ Cardinality(1 .. Len(s)) = IF 1 > Len(s) THEN 0 ELSE Len(s) - 1 + 1
    BY <1>1, FS_Interval
  <2> QED BY <1>1, <2>1
<1> SUFFICES ASSUME Len(s) > NumJobs PROVE FALSE
  BY <1>1
<1>4. s \in [1 .. Len(s) -> Jobs]
  OBVIOUS
<1>5. Cardinality(Jobs) < Cardinality(1 .. Len(s))
  BY <1>1, <1>2, <1>3
<1>6. \E m, n \in 1 .. Len(s) : m # n /\ s[m] = s[n]
  BY <1>2, <1>3, <1>4, <1>5, FS_PigeonHole
<1> QED BY <1>6 DEF Distinct

LEMMA WaitReset ==
  ASSUME IInv, RareBoost, ResetPriorities, Next
  PROVE  WaitInv'
<1>1. /\ Elapsed = opt.boost /\ Elapsed' = 0 /\ opt' = opt
      /\ queue' = queue /\ waited' = waited /\ pc = "reset"
      /\ opt.boost \in Nat /\ HiQueue \in Levels
  BY Period, Rare DEF ResetPriorities, Goto
<1>2. Ready' = Ready
  BY <1>1 DEF Ready, Queued
<1>3. \A k \in Jobs \ Ready' : waited'[k] = 0
  BY <1>1, <1>2 DEF IInv, WaitInv
<1>4. ASSUME NEW q \in Levels, NEW n \in 1 .. Len(queue[q])
      PROVE  q = HiQueue /\ InTurn(n)'
  <2>1. q = HiQueue
    <3>1. queue[q] # <<>>
      BY Places
    <3> QED BY <1>1, <3>1 DEF IInv, PlaceInv, BoostInv
  <2>2. waited'[queue'[HiQueue][n]] <= opt'.boost + Elapsed'
    <3>1. queue[HiQueue][n] \in Ready /\ queue[HiQueue][n] \in Jobs
      BY <2>1, Places
    <3>2. waited[queue[HiQueue][n]] <= opt.boost
      BY <1>1, <3>1, PeriodOver
    <3> QED BY <1>1, <3>2
  <2>3. n \in 1 .. NumJobs /\ n \in Nat /\ NumJobs \in Nat
    <3>1. queue[HiQueue] \in Seq(Jobs) /\ Distinct(queue[HiQueue])
      BY <1>1, Places DEF Queues, Separate
    <3>2. Len(queue[HiQueue]) <= NumJobs /\ Len(queue[HiQueue]) \in Nat
      BY <3>1, Short
    <3> QED BY <2>1, <3>2, Rare
  <2>4. (NumJobs - 1) * Q \in Int /\ (NumJobs - 1) * Q >= 0 /\ Q \in Nat
    BY <2>3, Rare DEF Jobs
  <2>5. Ahead(n)' <= (NumJobs - 1) * Q
    <3>1. ASSUME n # 1 PROVE Ahead(n)' = Q + (n - 2) * Q
      <4>1. Head(queue[HiQueue]) \in Jobs /\ timeLeft[Head(queue[HiQueue])] > 0
        BY <1>1, <2>1, Places
      <4>2. ticksLeft'[Head(queue[HiQueue])] = Q
        BY <4>1 DEF ResetPriorities, Q
      <4> QED BY <1>1, <3>1, <4>2 DEF Ahead, Q, Quantum
    <3>2. n = 1 => Ahead(n)' = 0
      BY DEF Ahead
    <3>3. (n - 2) * Q + Q = (n - 1) * Q /\ (n - 2) * Q \in Int /\ (n - 1) * Q \in Int
      <4>1. n - 1 \in Int /\ (n - 1) - 1 = n - 2 /\ n - 2 \in Int /\ Q \in Int
        BY <2>3, <2>4
      <4>2. ((n - 1) - 1) * Q + Q = (n - 1) * Q
        BY <4>1, Product
      <4> QED BY <4>1, <4>2, Product
    <3>4. (n - 1) * Q <= (NumJobs - 1) * Q
      <4>1. n - 1 \in Int /\ NumJobs - 1 \in Int /\ n - 1 <= NumJobs - 1
        BY <2>3
      <4> QED BY <2>4, <4>1, Mono
    <3> DEFINE a == (n - 2) * Q
               b == (n - 1) * Q
               c == (NumJobs - 1) * Q
    <3>5. c \in Int /\ c >= 0 /\ b <= c /\ a + Q = b /\ a \in Int /\ b \in Int
      BY <2>4, <3>3, <3>4
    <3>6. n = 1 \/ Ahead(n)' = Q + a
      BY <3>1
    <3> HIDE DEF a, b, c
    <3>7. Ahead(n)' <= c
      BY <2>4, <3>2, <3>5, <3>6
    <3> QED BY <3>7 DEF c
  <2>6. Q' = Q
    BY <1>1 DEF Q, Quantum
  <2>7. Ahead(n)' \in Int
    <3>1. n = 1 \/ Ahead(n)' = ticksLeft'[Head(queue[HiQueue])] + (n - 2) * Q
      BY <1>1, <2>6 DEF Ahead
    <3>2. n = 1 => Ahead(n)' = 0
      BY DEF Ahead
    <3>3. ticksLeft'[Head(queue[HiQueue])] \in Nat /\ (n - 2) * Q \in Int
      <4>1. Head(queue[HiQueue]) \in Jobs
        BY <1>1, <2>1, Places
      <4>2. n - 2 \in Int /\ Q \in Int
        BY <2>3, <2>4
      <4> QED BY <4>1, <4>2, Product, TypeStep DEF TypeOK
    <3> QED BY <3>1, <3>2, <3>3
  <2>8. Elapsed' + Ahead(n)' <= (NumJobs - 1) * Q
    BY <1>1, <2>4, <2>5, <2>7
  <2> QED BY <2>1, <2>2, <2>6, <2>8 DEF InTurn
<1> QED BY <1>1, <1>3, <1>4 DEF WaitInv

LEMMA WaitWake ==
  ASSUME IInv, RareBoost, NEW j \in Jobs, Wake(j), Next
  PROVE  WaitInv'
<1> DEFINE q == currPri[j]
<1>1. /\ queue \in Queues /\ q \in Levels /\ j \in Jobs /\ HiQueue \in Levels
      /\ queue' = Pushed(queue, q, j)
      /\ ticksLeft' = ticksLeft /\ waited' = waited /\ opt' = opt
      /\ wake[j] # Never
  <2>1. wake[j] # Never
    BY DEF Wake, Due, IInv, TypeOK, Never
  <2>2. ~opt.iobump
    BY Rare
  <2>3. queue' = Pushed(queue, q, j)
    BY <2>2 DEF Wake, Pushed
  <2> QED BY <2>1, <2>3, Rare, Places DEF IInv, TypeOK, Wake, fields, inputs
<1>2. Elapsed' = Elapsed
  <2>1. ~ResetPriorities /\ ~Run
    BY DEF Wake, ResetPriorities, Run, RunJob, Idle, Finish, Continue, Block, Expire, Runs,
      Tick, Goto
  <2> QED BY <2>1, Period
<1>3. j \notin Ready /\ waited[j] = 0 /\ \A r \in Levels : j \notin Elems(queue[r])
  <2>1. \A r \in Levels : j \notin Elems(queue[r])
    BY <1>1 DEF IInv, PlaceInv, Placed
  <2> QED BY <2>1, ReadyElems DEF IInv, WaitInv
<1>4. Joins(queue, q, j, queue')
  BY <1>1, <1>3, Places, Push
<1>5. \A k \in Jobs \ Ready' : waited'[k] = 0
  <2>1. \A k : k \in Ready => k \in Ready'
    BY <1>4, ReadyElems DEF Joins
  <2> QED BY <1>1, <2>1 DEF IInv, WaitInv
<1>6. ASSUME NEW r \in Levels, NEW n \in 1 .. Len(queue'[r])
      PROVE  \/ queue'[r][n] = j
             \/ /\ n \in 1 .. Len(queue[r])
                /\ queue'[r][n] = queue[r][n] /\ Head(queue'[r]) = Head(queue[r])
  <2>1. CASE r # q
    BY <1>1, <2>1 DEF Pushed, Queues
  <2>2. CASE r = q
    <3> DEFINE s == queue[q]
    <3>1. s \in Seq(Jobs) /\ queue'[r] = Append(s, j)
      BY <1>1, <2>2 DEF Pushed, Queues
    <3> HIDE DEF s
    <3>2. /\ Append(s, j) \in Seq(Jobs) /\ Len(Append(s, j)) = Len(s) + 1 /\ Len(s) \in Nat
          /\ \A m \in 1 .. Len(s) : Append(s, j)[m] = s[m]
          /\ Append(s, j)[Len(s) + 1] = j
      BY <1>1, <3>1, AppendElems
    <3>3. CASE n = Len(s) + 1
      BY <3>1, <3>2, <3>3
    <3>4. CASE n # Len(s) + 1
      <4>1. n \in 1 .. Len(s) /\ 1 \in 1 .. Len(s) /\ s # <<>>
        BY <3>1, <3>2, <3>4
      <4>2. Head(s) = s[1] /\ Append(s, j) # <<>>
        BY <3>1, <3>2, <4>1
      <4>3. Head(Append(s, j)) = Append(s, j)[1]
        BY <3>2, <4>2
      <4>4. Head(Append(s, j)) = Head(s)
        BY <3>2, <4>1, <4>2, <4>3
      <4> QED BY <2>2, <3>1, <3>2, <4>1, <4>4 DEF s
    <3> QED BY <3>3, <3>4
  <2> QED BY <2>1, <2>2
<1>7. Q' = Q
  BY <1>1 DEF Q, Quantum
<1>8. ASSUME NEW r \in Levels, NEW n \in 1 .. Len(queue'[r])
      PROVE  waited'[queue'[r][n]] <= Elapsed' \/ (r = HiQueue /\ InTurn(n)')
  <2>1. CASE queue'[r][n] = j
    <3>1. waited'[j] = 0 /\ Elapsed' \in Nat
      BY <1>1, <1>2, <1>3, Period, Rare
    <3> QED BY <2>1, <3>1
  <2>2. CASE /\ n \in 1 .. Len(queue[r])
             /\ queue'[r][n] = queue[r][n] /\ Head(queue'[r]) = Head(queue[r])
    <3>1. waited[queue[r][n]] <= Elapsed \/ (r = HiQueue /\ InTurn(n))
      BY <2>2 DEF IInv, WaitInv
    <3>2. r = HiQueue => Ahead(n)' = Ahead(n)
      BY <1>1, <1>7, <2>2 DEF Ahead
    <3> QED BY <1>1, <1>2, <1>7, <2>2, <3>1, <3>2 DEF InTurn
  <2> QED BY <1>6, <2>1, <2>2
<1> QED BY <1>5, <1>8 DEF WaitInv

LEMMA WaitIdle ==
  ASSUME IInv, RareBoost, Idle, Next
  PROVE  WaitInv'
<1>1. \A q \in Levels : queue'[q] = <<>> /\ queue[q] = <<>>
  BY DEF Idle
<1>2. \A k : k \notin Ready /\ k \notin Ready'
  <2>1. \A q \in Levels : Elems(queue[q]) = {} /\ Elems(queue'[q]) = {}
    BY <1>1 DEF Elems
  <2> QED BY <2>1, ReadyElems
<1>3. \A k \in Jobs : waited'[k] = 0
  BY <1>2 DEF Idle, Tick
<1>4. \A q \in Levels : 1 .. Len(queue'[q]) = {}
  BY <1>1
<1> QED BY <1>3, <1>4 DEF WaitInv

\* When a job leaves the head of its queue those behind it move up.
Behind(q, r, n) == IF r = q THEN n + 1 ELSE n

Follows(qs, q, j, ps) ==
  \A r \in Levels : \A m \in 1 .. Len(ps[r]) : ps[r][m] # j =>
    \A n \in 1 .. m : /\ Behind(q, r, n) \in 1 .. Len(qs[r])
                      /\ ps[r][n] = qs[r][Behind(q, r, n)]

LEMMA FollowsPop ==
  ASSUME NEW qs \in Queues, NEW q \in Levels, qs[q] # <<>>, NEW j
  PROVE  Follows(qs, q, j, Popped(qs, q)) /\ Popped(qs, q) \in Queues
<1> DEFINE ps == Popped(qs, q)
<1>1. qs[q] \in Seq(Jobs)
  BY DEF Queues
<1>2. /\ Tail(qs[q]) \in Seq(Jobs)
      /\ \A n \in 1 .. Len(Tail(qs[q])) :
           n + 1 \in 1 .. Len(qs[q]) /\ Tail(qs[q])[n] = qs[q][n + 1]
  BY <1>1, PopElems
<1>3. ps[q] = Tail(qs[q]) /\ ps \in Queues /\ \A r \in Levels \ {q} : ps[r] = qs[r]
  BY <1>2 DEF Queues, Popped
<1> HIDE DEF ps
<1>4. ASSUME NEW r \in Levels, NEW m \in 1 .. Len(ps[r]), NEW n \in 1 .. m
      PROVE  /\ Behind(q, r, n) \in 1 .. Len(qs[r])
             /\ ps[r][n] = qs[r][Behind(q, r, n)]
  <2>1. n \in 1 .. Len(ps[r])
    <3>1. ps[r] \in Seq(Jobs)
      BY <1>3 DEF Queues
    <3>2. Len(ps[r]) \in Nat
      BY <3>1
    <3> QED BY <3>2
  <2>2. CASE r = q
    BY <1>2, <1>3, <2>1, <2>2 DEF Behind
  <2>3. CASE r # q
    BY <1>3, <2>1, <2>3 DEF Behind
  <2> QED BY <2>2, <2>3
<1> QED BY <1>3, <1>4 DEF Follows, ps

LEMMA FollowsPush ==
  ASSUME NEW qs \in Queues, NEW q \in Levels, NEW to \in Levels, NEW j \in Jobs,
         NEW ms \in Queues, Follows(qs, q, j, ms)
  PROVE  Follows(qs, q, j, Pushed(ms, to, j))
<1> DEFINE ps == Pushed(ms, to, j)
<1>1. ms[to] \in Seq(Jobs)
  BY DEF Queues
<1>2. ps[to] = Append(ms[to], j) /\ \A r \in Levels \ {to} : ps[r] = ms[r]
  BY <1>1 DEF Queues, Pushed
<1>3. /\ Len(Append(ms[to], j)) = Len(ms[to]) + 1 /\ Len(ms[to]) \in Nat
      /\ \A n \in 1 .. Len(ms[to]) : Append(ms[to], j)[n] = ms[to][n]
      /\ Append(ms[to], j)[Len(ms[to]) + 1] = j
  BY <1>1, AppendElems
<1> HIDE DEF ps
<1>4. ASSUME NEW r \in Levels, NEW m \in 1 .. Len(ps[r]), ps[r][m] # j
      PROVE  m \in 1 .. Len(ms[r]) /\ \A n \in 1 .. m : ps[r][n] = ms[r][n]
  <2>1. CASE r = to
    <3> DEFINE s == ms[to]
               t == Append(s, j)
    <3>1. ps[r] = t /\ Len(t) = Len(s) + 1 /\ Len(s) \in Nat /\ t[Len(s) + 1] = j
      BY <1>2, <1>3, <2>1
    <3>2. \A n \in 1 .. Len(s) : t[n] = s[n]
      BY <1>3
    <3> HIDE DEF s, t
    <3>3. m \in 1 .. Len(s)
      BY <1>4, <3>1
    <3>4. \A n \in 1 .. m : n \in 1 .. Len(s)
      BY <3>1, <3>3
    <3> QED BY <2>1, <3>1, <3>2, <3>3, <3>4 DEF s
  <2>2. CASE r # to
    BY <1>2, <2>2
  <2> QED BY <2>1, <2>2
<1>5. ASSUME NEW r \in Levels, NEW m \in 1 .. Len(ps[r]), ps[r][m] # j
      PROVE  \A n \in 1 .. m : /\ Behind(q, r, n) \in 1 .. Len(qs[r])
                               /\ ps[r][n] = qs[r][Behind(q, r, n)]
  <2>1. /\ m \in 1 .. Len(ms[r]) /\ m \in 1 .. m
        /\ \A n \in 1 .. m : ps[r][n] = ms[r][n]
    BY <1>4, <1>5
  <2>2. ms[r][m] # j
    BY <1>5, <2>1
  <2> QED BY <2>1, <2>2 DEF Follows
<1> QED BY <1>5 DEF Follows, ps

RunsFor(j, q, left) ==
  Finish(j, q) \/ Continue(j, q, left) \/ Block(j, q, left) \/ Expire(j, q, left)

\* The job that runs stays at the head with one tick less, or the others move up.
LEMMA QueueRun ==
  ASSUME IInv, NEW j \in Jobs, NEW q \in Levels, NEW left, RunsFor(j, q, left)
  PROVE  /\ \/ queue' = queue /\ ticksLeft'[j] = ticksLeft[j] - 1
            \/ Follows(queue, q, j, queue')
         /\ \A k : k \in Ready \ {j} => k \in Ready'
         /\ queue' \in Queues
<1>1. Runs(j, q, left) \/ Runs(j, q, 0)
  BY RunKinds DEF RunsFor
<1>2. /\ queue \in Queues /\ Separate(queue) /\ queue[q] # <<>> /\ j = Head(queue[q])
  BY <1>1, Running
<1>3. ASSUME queue' = Popped(queue, q)
      PROVE  /\ Follows(queue, q, j, queue') /\ queue' \in Queues
             /\ \A k : k \in Ready \ {j} => k \in Ready'
  <2>1. Follows(queue, q, j, queue') /\ queue' \in Queues
    BY <1>2, <1>3, FollowsPop
  <2>2. \A r \in Levels : Elems(queue'[r]) = Elems(queue[r]) \ {j}
    BY <1>2, <1>3, Pop
  <2> QED BY <2>1, <2>2, ReadyElems
<1>4. ASSUME NEW to \in Levels, queue' = Pushed(Popped(queue, q), to, j)
      PROVE  /\ Follows(queue, q, j, queue') /\ queue' \in Queues
             /\ \A k : k \in Ready \ {j} => k \in Ready'
  <2>1. Follows(queue, q, j, Popped(queue, q)) /\ Popped(queue, q) \in Queues
    BY <1>2, FollowsPop
  <2>2. Follows(queue, q, j, queue')
    BY <1>2, <1>4, <2>1, FollowsPush
  <2>3. Moves(queue, j, to, queue')
    BY <1>2, <1>4, Move
  <2>4. \A k : k # j => \A r \in Levels : k \in Elems(queue[r]) => k \in Elems(queue'[r])
    BY <2>3 DEF Moves
  <2> QED BY <2>2, <2>3, <2>4, ReadyElems DEF Moves
<1>5. CASE Continue(j, q, left)
  <2>1. queue' = queue /\ ticksLeft'[j] = ticksLeft[j] - 1
    BY <1>5 DEF Continue, IInv, TypeOK
  <2> QED BY <1>2, <2>1, ReadyElems
<1>6. CASE Finish(j, q) \/ Block(j, q, left)
  <2>1. queue' = Popped(queue, q)
    BY <1>6 DEF Finish, Block, Popped
  <2> QED BY <1>3, <2>1
<1>7. CASE Expire(j, q, left)
  <2>1. q > 0 => q - 1 \in Levels
    BY MLFQAssumption DEF Levels
  <2>2. \/ queue' = Popped(queue, q)
        \/ \E to \in Levels : queue' = Pushed(Popped(queue, q), to, j)
    BY <1>7, <2>1 DEF Expire, Popped, Pushed
  <2> QED BY <1>3, <1>4, <2>2
<1> QED BY <1>5, <1>6, <1>7 DEF RunsFor

\* A job ahead has run for a time unit, or has left a quantum or less behind.
LEMMA AheadRun ==
  ASSUME IInv, RareBoost, NEW j \in Jobs, NEW left, RunsFor(j, HiQueue, left), opt' = opt,
         NEW m \in 1 .. Len(queue'[HiQueue]), queue'[HiQueue][m] # j
  PROVE  \E n \in 1 .. Len(queue[HiQueue]) :
           /\ queue'[HiQueue][m] = queue[HiQueue][n]
           /\ Ahead(m)' \in Int /\ Ahead(m)' + 1 <= Ahead(n)
<1> DEFINE h == HiQueue
           t == ticksLeft[j]
<1>1. /\ h \in Levels /\ Q \in Nat /\ Q \in Int
      /\ queue \in Queues /\ Separate(queue) /\ queue[h] # <<>> /\ j = Head(queue[h])
      /\ timeLeft[j] > 0 /\ currPri[j] = h /\ pc = "run"
  <2>1. h \in Levels /\ Q \in Nat
    BY Rare
  <2>2. Runs(j, h, left) \/ Runs(j, h, 0)
    BY <2>1, RunKinds DEF RunsFor
  <2> QED BY <2>1, <2>2, Running
<1>2. t \in Nat /\ t >= 1
  <2>1. t \in 1 .. Quantum(currPri[j])
    BY <1>1, Ticks
  <2> QED BY <2>1 DEF IInv, TypeOK
<1>3. Q' = Q
  BY DEF Q, Quantum
<1>4. /\ queue[h] \in Seq(Jobs) /\ Len(queue[h]) \in Nat /\ j = queue[h][1]
      /\ queue'[h] \in Seq(Jobs) /\ Len(queue'[h]) \in Nat
  <2>1. queue' \in Queues
    BY <1>1, QueueRun
  <2>2. queue[h] \in Seq(Jobs) /\ queue'[h] \in Seq(Jobs)
    BY <1>1, <2>1 DEF Queues
  <2> QED BY <1>1, <2>2
<1>5. CASE queue' = queue /\ ticksLeft'[j] = t - 1
  <2>1. m \in 1 .. Len(queue[h]) /\ m # 1 /\ m \in Int
    BY <1>4, <1>5
  <2>2. Ahead(m) = t + (m - 2) * Q
    BY <1>1, <2>1 DEF Ahead
  <2>3. Ahead(m)' = (t - 1) + (m - 2) * Q
    BY <1>1, <1>3, <1>5, <2>1 DEF Ahead
  <2>4. (m - 2) * Q \in Int
    <3>1. m - 2 \in Int
      BY <2>1
    <3> QED BY <1>1, <3>1, Product
  <2>5. Ahead(m)' \in Int /\ Ahead(m)' + 1 <= Ahead(m)
    <3> DEFINE a == (m - 2) * Q
    <3>1. Ahead(m) = t + a /\ Ahead(m)' = (t - 1) + a /\ a \in Int
      BY <2>2, <2>3, <2>4
    <3> HIDE DEF a, t
    <3> QED BY <1>2, <3>1
  <2>6. queue'[h][m] = queue[h][m]
    BY <1>5
  <2> QED BY <2>1, <2>5, <2>6
<1>6. CASE Follows(queue, h, j, queue')
  <2>0. m \in Int /\ m >= 1 /\ 1 \in 1 .. m /\ m \in 1 .. m
    BY <1>4
  <2>1. \A i \in 1 .. m : Behind(h, h, i) \in 1 .. Len(queue[h])
                          /\ queue'[h][i] = queue[h][Behind(h, h, i)]
    BY <1>1, <1>6 DEF Follows
  <2>2. m + 1 \in 1 .. Len(queue[h]) /\ queue'[h][m] = queue[h][m + 1]
    BY <2>0, <2>1 DEF Behind
  <2>3. Ahead(m + 1) = t + (m - 1) * Q
    <3>1. m + 1 # 1 /\ (m + 1) - 2 = m - 1
      BY <2>0
    <3> QED BY <1>1, <3>1 DEF Ahead
  <2>4. (m - 1) * Q \in Int /\ (m - 2) * Q \in Int /\ (m - 2) * Q + Q = (m - 1) * Q
    <3>1. m - 1 \in Int /\ m - 2 \in Int /\ (m - 1) - 1 = m - 2
      BY <2>0
    <3>2. ((m - 1) - 1) * Q + Q = (m - 1) * Q
      BY <1>1, <3>1, Product
    <3> QED BY <1>1, <3>1, <3>2, Product
  <2>5. Ahead(m)' \in Int /\ Ahead(m)' + 1 <= Ahead(m + 1)
    <3>1. CASE m = 1
      <4>1. Ahead(m)' = 0
        BY <3>1 DEF Ahead
      <4>2. (m - 1) * Q = 0
        <5>1. m - 1 = 0
          BY <3>1
        <5> QED BY <1>1, <5>1, Product
      <4>3. Ahead(m + 1) = t
        BY <1>2, <2>3, <4>2
      <4> QED BY <1>2, <4>1, <4>3
    <3>2. CASE m # 1
      <4> DEFINE k == queue[h][2]
      <4>1. 2 \in 1 .. Len(queue[h]) /\ queue'[h][1] = k
        BY <2>0, <2>1 DEF Behind
      <4>2. Head(queue'[h]) = k
        <5>1. queue'[h] # <<>>
          BY <1>4, <2>0
        <5> QED BY <1>4, <4>1, <5>1
      <4>3. k # j /\ k \in Jobs /\ timeLeft[k] > 0 /\ currPri[k] = h
        <5>1. k # j
          <6>1. Distinct(queue[h])
            BY <1>1 DEF Separate
          <6>2. 1 \in 1 .. Len(queue[h]) /\ 1 # 2
            BY <4>1
          <6> QED BY <1>4, <4>1, <6>1, <6>2 DEF Distinct
        <5> QED BY <1>1, <4>1, <5>1, Places
      <4>4. ticksLeft'[k] = ticksLeft[k]
        BY <1>1, <4>3, OthersKeep DEF RunsFor
      <4>5. ticksLeft[k] \in 1 .. Q /\ ticksLeft[k] \in Int
        BY <1>1, <4>3, Ticks DEF Q
      <4>6. Ahead(m)' = ticksLeft[k] + (m - 2) * Q
        BY <1>3, <3>2, <4>2, <4>4 DEF Ahead
      <4> DEFINE a == (m - 2) * Q
                 b == (m - 1) * Q
                 c == ticksLeft[k]
      <4>7. /\ a \in Int /\ b \in Int /\ b = a + Q /\ c \in 1 .. Q
            /\ Ahead(m)' = c + a /\ Ahead(m + 1) = t + b
        BY <2>3, <2>4, <4>5, <4>6
      <4> HIDE DEF a, b, c, t
      <4> QED BY <1>1, <1>2, <4>7
    <3> QED BY <3>1, <3>2
  <2> HIDE DEF h
  <2> DEFINE n == m + 1
  <2>6. n \in 1 .. Len(queue[HiQueue])
    BY <2>2 DEF h
  <2>7. queue'[HiQueue][m] = queue[HiQueue][n] /\ Ahead(m)' \in Int /\ Ahead(m)' + 1 <= Ahead(n)
    BY <2>2, <2>5 DEF h
  <2> HIDE DEF n
  <2> QED BY <2>6, <2>7
<1> QED BY <1>1, <1>5, <1>6, QueueRun

LEMMA WaitRun ==
  ASSUME IInv, RareBoost, NEW j \in Jobs, NEW q \in Levels, NEW left, RunsFor(j, q, left),
         opt' = opt, Elapsed' = Elapsed + 1
  PROVE  WaitInv'
<1>1. Runs(j, q, left) \/ Runs(j, q, 0)
  BY RunKinds DEF RunsFor
<1>2. /\ Top(q)
      /\ waited' = [k \in Jobs |-> IF k \in Ready \ {j} THEN waited[k] + 1 ELSE 0]
  BY <1>1 DEF Runs, Tick
<1>3. \A k \in Jobs \ Ready' : waited'[k] = 0
  <2>1. \A k : k \in Ready \ {j} => k \in Ready'
    BY QueueRun
  <2> QED BY <1>2, <2>1
<1>4. Elapsed \in Nat /\ opt.boost \in Nat
  BY Span
<1>5. Q' = Q
  BY DEF Q, Quantum
\* A job that is not the first of the round moves one time unit ahead.
<1>6. ASSUME NEW r \in Levels, NEW m \in 1 .. Len(queue'[r]), NEW k \in Jobs,
             k = queue'[r][m], k # j, waited[k] > Elapsed,
             NEW n \in 1 .. Len(queue[r]), k = queue[r][n]
      PROVE  r = HiQueue /\ InTurn(m)'
  <2>1. r = HiQueue /\ InTurn(n)
    <3>1. waited[k] <= Elapsed \/ (r = HiQueue /\ InTurn(n))
      BY <1>6 DEF IInv, WaitInv
    <3>2. waited[k] \in Nat
      BY DEF IInv, TypeOK
    <3> QED BY <1>4, <1>6, <3>1, <3>2
  <2>2. q = HiQueue
    <3>1. queue[HiQueue] # <<>>
      BY <2>1, Places
    <3>2. HiQueue \in Levels /\ \A p \in Levels : p # HiQueue => HiQueue > p
      BY MLFQAssumption DEF Levels, HiQueue
    <3> QED BY <1>2, <3>1, <3>2 DEF Top
  <2>3. m \in 1 .. Len(queue'[HiQueue]) /\ queue'[HiQueue][m] # j
    BY <1>6, <2>1
  <2>4. PICK i \in 1 .. Len(queue[HiQueue]) :
          /\ queue'[HiQueue][m] = queue[HiQueue][i]
          /\ Ahead(m)' \in Int /\ Ahead(m)' + 1 <= Ahead(i)
    BY <2>2, <2>3, AheadRun
  <2>5. i = n
    <3>1. Distinct(queue[HiQueue])
      BY <2>1, Places DEF Separate
    <3>2. queue[HiQueue][i] = queue[HiQueue][n] /\ n \in 1 .. Len(queue[HiQueue])
      BY <1>6, <2>1, <2>4
    <3> QED BY <3>1, <3>2 DEF Distinct
  <2>6. waited'[k] <= opt.boost + Elapsed'
    <3>1. waited[k] <= opt.boost + Elapsed /\ waited[k] \in Nat
      BY <1>6, <2>1 DEF InTurn, IInv, TypeOK
    <3>2. waited'[k] = waited[k] + 1 \/ waited'[k] = 0
      BY <1>2
    <3> QED BY <1>4, <3>1, <3>2
  <2>7. Elapsed' + Ahead(m)' <= (NumJobs - 1) * Q
    <3> DEFINE a == (NumJobs - 1) * Q
               b == Ahead(m)'
               c == Ahead(n)
    <3>1. c \in Int /\ Elapsed + c <= a /\ a \in Int /\ b \in Int /\ b + 1 <= c
      <4>1. Elapsed + Ahead(n) <= (NumJobs - 1) * Q
        BY <2>1 DEF InTurn
      <4>2. Ahead(n) \in Nat
        BY <2>4, <2>5, AheadNat
      <4> QED BY <2>4, <2>5, <4>1, <4>2, Rare
    <3>2. Elapsed' = Elapsed + 1
      OBVIOUS
    <3> HIDE DEF a, b, c
    <3>3. Elapsed' + b <= a
      BY <1>4, <3>1, <3>2
    <3> QED BY <3>3 DEF a, b
  <2> QED BY <1>5, <1>6, <2>1, <2>6, <2>7 DEF InTurn
<1>7. ASSUME NEW r \in Levels, NEW m \in 1 .. Len(queue'[r])
      PROVE  waited'[queue'[r][m]] <= Elapsed' \/ (r = HiQueue /\ InTurn(m)')
  <2> DEFINE k == queue'[r][m]
  <2>1. k \in Jobs
    <3>1. queue'[r] \in Seq(Jobs)
      BY QueueRun DEF Queues
    <3> QED BY <3>1
  <2>2. CASE k = j
    <3>1. waited'[k] = 0
      BY <1>2, <2>1, <2>2
    <3> QED BY <1>4, <3>1
  <2>3. CASE k # j
    <3>1. \E n \in 1 .. Len(queue[r]) : k = queue[r][n]
      <4>1. CASE queue' = queue
        BY <4>1
      <4>2. CASE Follows(queue, q, j, queue')
        <5>1. m \in 1 .. m
          <6>1. queue'[r] \in Seq(Jobs)
            BY QueueRun DEF Queues
          <6>2. Len(queue'[r]) \in Nat
            BY <6>1
          <6> QED BY <6>2
        <5> QED BY <2>3, <4>2, <5>1 DEF Follows
      <4> QED BY <4>1, <4>2, QueueRun
    <3>2. CASE waited[k] > Elapsed
      BY <1>6, <2>1, <2>3, <3>1, <3>2
    <3>3. CASE ~(waited[k] > Elapsed)
      <4>1. waited[k] \in Nat
        BY <2>1 DEF IInv, TypeOK
      <4>2. waited'[k] = waited[k] + 1 \/ waited'[k] = 0
        BY <1>2, <2>1
      <4> QED BY <1>4, <3>3, <4>1, <4>2
    <3> QED BY <3>2, <3>3
  <2> QED BY <2>2, <2>3
<1> QED BY <1>3, <1>7 DEF WaitInv

LEMMA WaitStep == ASSUME IInv, Next, RareBoost' PROVE WaitInv'
<1>1. RareBoost /\ opt' = opt
  <2>1. opt' = opt
    <3>1. CASE Run
      BY <3>1 DEF Run, RunJob, Idle, Finish, Continue, Block, Expire, Runs, Tick, inputs
    <3>2. CASE ~Run
      BY <3>2 DEF Next, CheckBoost, Raise, RaiseEnd, ResetPriorities, Wake, EventsEnd,
        Terminated, vars, inputs
    <3> QED BY <3>1, <3>2
  <2> QED BY <2>1 DEF RareBoost, Q, Quantum
<1>2. CASE Run
  <2>1. Elapsed' = Elapsed + 1
    BY <1>1, <1>2, Period
  <2>2. ASSUME NEW j \in Jobs, RunJob(j) PROVE WaitInv'
    <3>1. PICK q \in Levels, left \in 0 .. runTime[j] - 1 :
            Continue(j, q, left) \/ Block(j, q, left) \/ Expire(j, q, left)
      BY <2>2 DEF RunJob
    <3>2. RunsFor(j, q, left)
      BY <3>1 DEF RunsFor
    <3> QED BY <1>1, <2>1, <3>2, WaitRun
  <2>3. ASSUME NEW j \in Jobs, NEW q \in Levels, Finish(j, q) PROVE WaitInv'
    <3>1. RunsFor(j, q, 0)
      BY <2>3 DEF RunsFor
    <3> QED BY <1>1, <2>1, <3>1, WaitRun
  <2> QED BY <1>1, <1>2, <2>2, <2>3, WaitIdle DEF Run
<1>3. CASE CheckBoost \/ RaiseEnd \/ EventsEnd \/ Terminated
  <2>1. UNCHANGED <<opt, queue, waited, ticksLeft>>
    BY <1>1, <1>3 DEF CheckBoost, RaiseEnd, EventsEnd, Terminated, vars, fields
  <2>2. Elapsed' = Elapsed
    <3>1. CASE ~Run /\ ~ResetPriorities
      BY <1>1, <3>1, Period
    <3>2. CASE Run
      BY <1>3, <3>2 DEF CheckBoost, RaiseEnd, EventsEnd, Terminated, vars, Run, RunJob, Idle,
        Finish, Continue, Block, Expire, Runs, Tick, Goto
    <3>3. CASE ResetPriorities
      BY <1>3, <3>3 DEF CheckBoost, RaiseEnd, EventsEnd, Terminated, vars, ResetPriorities,
        Goto
    <3> QED BY <3>1, <3>2, <3>3
  <2> QED BY <1>1, <2>1, <2>2, WaitSame
<1> QED BY <1>1, <1>2, <1>3, WaitRaise, WaitReset, WaitWake DEF Next

-----------------------------------------------------------------------------
(* The theorems.                                                           *)

LEMMA Stutter == ASSUME IInv, UNCHANGED vars PROVE IInv'
<1> USE DEF vars, inputs, fields
<1>1. Ready' = Ready
  BY DEF Ready, Queued
<1>2. TypeOK' /\ Budget'
  BY DEF IInv, TypeOK, Budget, Allotment, Quantum
<1>3. PlaceInv'
  <2>1. NoJobLost'
    BY <1>1 DEF IInv, PlaceInv, NoJobLost
  <2>2. Placed' /\ NoEventMissed' /\ BoostInv'
    BY DEF IInv, PlaceInv, Placed, NoEventMissed, BoostInv, BoostDue
  <2> QED BY <2>1, <2>2 DEF PlaceInv
<1>4. ASSUME RareBoost' PROVE WaitInv'
  <2>1. RareBoost
    BY <1>4 DEF RareBoost, Q, Quantum
  <2>2. Elapsed' = Elapsed
    BY DEF Elapsed
  <2> QED BY <2>1, <2>2, WaitSame
<1> QED BY <1>2, <1>3, <1>4 DEF IInv

LEMMA Invariant == Spec => []IInv
<1>1. IInv /\ [Next]_vars => IInv'
  <2>1. ASSUME IInv, Next PROVE IInv'
    BY <2>1, TypeStep, PlaceStep, BudgetStep, WaitStep DEF IInv
  <2> QED BY <2>1, Stutter
<1> QED BY <1>1, InitIInv, PTL DEF Spec

\* The fields of the jobs, the queues and the event list keep their types: no
\* quantum is ever overdrawn, and no job leaves the levels there are.
THEOREM TypeCorrect == Spec => []TypeOK
BY Invariant, PTL DEF IInv

\* Every job is in its place: once in the queue of its priority, or waiting for
\* one event still to come, or finished, so the simulator never aborts on a
\* queue or an event list that lost track of a job.
THEOREM InPlace == Spec => []Placement
<1>1. IInv => Placement
  <2> SUFFICES ASSUME IInv PROVE QueueSound
    BY DEF IInv, PlaceInv, Placement
  <2>1. ASSUME NEW q \in Levels, NEW n \in 1 .. Len(queue[q]),
               NEW r \in Levels, NEW m \in 1 .. Len(queue[r]), queue[r][m] = queue[q][n]
        PROVE  r = q /\ m = n
    <3>1. queue[r][m] \in Elems(queue[r]) /\ queue[q][n] \in Elems(queue[q])
      BY DEF Elems
    <3>2. Separate(queue)
      BY DEF IInv, PlaceInv, Placed
    <3>3. r = q
      BY <2>1, <3>1, <3>2 DEF Separate
    <3> QED BY <2>1, <3>2, <3>3 DEF Separate, Distinct
  <2>2. ASSUME NEW q \in Levels, NEW n \in 1 .. Len(queue[q])
        PROVE  /\ pc \in {"raise", "reset"} \/ currPri[queue[q][n]] = q
               /\ timeLeft[queue[q][n]] > 0 /\ wake[queue[q][n]] = Never
               /\ ~doingIO[queue[q][n]]
    <3>1. queue[q][n] \in Elems(queue[q])
      BY DEF Elems
    <3> QED BY <3>1 DEF IInv, PlaceInv, Placed
  <2> QED BY <2>1, <2>2 DEF QueueSound
<1> QED BY <1>1, Invariant, PTL

\* What a job has left at its level is what it has not used there, however
\* quanta, I/Os, boosts and demotions split and reset its budget.
THEOREM BudgetKept == Spec => []Budget
BY Invariant, PTL DEF IInv

\* A job goes down one level at a time, and only when it has used up its
\* allotment there (unless --stay renews it).
THEOREM Demotion == Spec => DemotedWhenUsedUp
<1>1. IInv /\ [Next]_vars =>
        [\A j \in Jobs : currPri'[j] < currPri[j] =>
           /\ currPri'[j] = currPri[j] - 1
           /\ opt.stay \/ used[j] + 1 = Allotment(currPri[j]) * Quantum(currPri[j])]_vars
  BY BudgetStep
<1> QED BY <1>1, Invariant, PTL DEF Spec, DemotedWhenUsedUp

\* With a boost period of a round at least, no ready job waits for more than the
\* period and a round, whatever the number of jobs and levels.
THEOREM WaitsBounded == Spec => []WaitBounded
<1>1. IInv => WaitBounded
  <2> DEFINE round == NumJobs * Quantum(HiQueue)
  <2> SUFFICES ASSUME IInv, opt.boost >= round, ~opt.iobump, NEW j \in Jobs
               PROVE  waited[j] <= opt.boost + round
    BY DEF WaitBounded
  <2>1. RareBoost
    <3>1. NumJobs \in Nat \ {0} /\ Q \in Nat \ {0} /\ opt.boost \in Nat
      BY Opt, MLFQAssumption DEF IInv, TypeOK, Q, Jobs
    <3>2. NumJobs * Q > 0
      <4>1. 1 \in Int /\ NumJobs \in Int /\ 1 <= NumJobs /\ Q \in Nat
        BY <3>1
      <4>2. 1 * Q <= NumJobs * Q
        BY <4>1, Mono
      <4> QED BY <3>1, <4>2
    <3>3. opt.boost >= NumJobs * Q
      BY DEF Q
    <3> QED BY <3>1, <3>2, <3>3 DEF RareBoost
  <2>2. waited[j] \in Nat
    BY DEF IInv, TypeOK
  <2>3. CASE j \notin Ready
    <3>1. waited[j] = 0
      BY <2>1, <2>3 DEF IInv, WaitInv
    <3>2. opt.boost \in Nat /\ NumJobs * Q \in Nat
      BY <2>1, Rare
    <3> QED BY <3>1, <3>2 DEF Q
  <2>4. ASSUME NEW q \in Levels, NEW n \in 1 .. Len(queue[q]), j = queue[q][n]
        PROVE  waited[j] <= opt.boost + round
    <3> DEFINE a == (NumJobs - 1) * Q
               b == NumJobs * Q
    <3>1. /\ opt.boost \in Nat /\ a \in Int /\ b \in Nat /\ b = a + Q /\ Q \in Nat
      BY <2>1, Rare
    <3>2. waited[j] <= Elapsed \/ (q = HiQueue /\ InTurn(n))
      BY <2>1, <2>4 DEF IInv, WaitInv
    <3>3. CASE waited[j] <= Elapsed
      <4>1. Elapsed \in 0 .. opt.boost
        BY <2>1, Span
      <4> HIDE DEF a, b
      <4>2. waited[j] <= opt.boost + b
        BY <2>2, <3>1, <3>3, <4>1
      <4> QED BY <4>2 DEF b, Q
    <3>4. CASE q = HiQueue /\ InTurn(n)
      <4>1. Ahead(n) \in Nat /\ Elapsed \in 0 .. opt.boost
        BY <2>1, <3>4, AheadNat
      <4>2. waited[j] <= opt.boost + Elapsed /\ Elapsed + Ahead(n) <= a
        BY <2>4, <3>4 DEF InTurn
      <4> HIDE DEF a, b
      <4>3. waited[j] <= opt.boost + b
        BY <2>2, <3>1, <4>1, <4>2
      <4> QED BY <4>3 DEF b, Q
    <3> QED BY <3>2, <3>3, <3>4
  <2> QED BY <2>3, <2>4, Places
<1> QED BY <1>1, Invariant, PTL

=============================================================================
