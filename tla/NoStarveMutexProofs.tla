------------------------- MODULE NoStarveMutexProofs -------------------------
(***************************************************************************)
(* Proofs about NoStarveMutex, for any number of threads and turns.        *)
(***************************************************************************)
EXTENDS NoStarveMutex, FiniteSetTheorems, TLAPS

\* The workers that main() has started, and the elements of their counters.
Started == IF main = "spawn" THEN Len(counters) - 1 ELSE Len(counters)

StartInv ==
  /\ main \in {"push", "install"} => Len(counters) < NThreads
  /\ main = "spawn" => Len(counters) > 0
  /\ main = "join" => Len(counters) = NThreads
  /\ main = "install" => Len(fresh) = Len(counters) + 1
  /\ \A t \in Threads : pc[t] = "unborn" <=> t > Started

\* The barrier lacks the arrivals of the workers that have neither returned nor
\* wait for it.
Present == {t \in Threads : pc[t] # "done"}

PhaseInv ==
  /\ expected = Cardinality(Present)
  /\ pending = Cardinality(Present \ waiting)
  /\ \A t \in waiting : pc[t] = "wait"

\* Somebody who works has found loops left, somebody who leaves has not.
LoopsInv ==
  /\ \A t \in Threads : pc[t] \in {"load", "store", "dec"} => nloops > 0
  /\ leaving # {} => nloops = 0
  /\ \A t \in Threads : pc[t] \in {"drop", "done"} => t \in leaving
  /\ endless => nloops = NLoops /\ \A t \in Threads : turns[t] = 0
  /\ \A t \in Threads : turns[t] <= NLoops - nloops

\* As long as there are loops left, the workers have had the same number of
\* turns, but for those that have had the one of this phase.
HadTurn(t) == pc[t] \in {"release", "arrive"} \/ t \in waiting
Before(t) == IF HadTurn(t) THEN turns[t] - 1 ELSE turns[t]

TurnInv ==
  /\ ~endless /\ nloops > 0 => \A s, t \in Threads : Before(s) = Before(t)
  /\ FairTurns

\* No phase ends, and no worker has a second turn, before all are started.
FirstInv ==
  main # "join" => \A t \in Threads :
    /\ turns[t] <= IF HadTurn(t) THEN 1 ELSE 0
    /\ pc[t] \notin {"drop", "done"}
    /\ pc[t] = "wait" => t \in waiting

\* The turns that should be in counters[t], and those that the growing vector
\* has lost: one at most, and none of the last worker.
Counted(t) == IF pc[t] = "dec" THEN turns[t] + 1 ELSE turns[t]
Lost(t) == Counted(t) - counters[t]

CountInv ==
  /\ \A t \in 1 .. Len(counters) : Lost(t) \in 0 .. 1
  /\ Len(counters) = NThreads => Lost(NThreads) = 0
  /\ NThreads \notin stale
  /\ \A t \in stale : pc[t] = "store" /\ turns[t] = 0 /\ counters[t] = 0
  /\ \A t \in Threads \ stale : pc[t] = "store" => tmp[t] = counters[t]
  /\ main = "install" => /\ fresh[Len(counters) + 1] = 0
                         /\ \A t \in 1 .. Len(counters) : fresh[t] <= counters[t]

\* With `endless` nobody counts the turns; without any there is nothing to lose.
Counting == ~endless \/ NLoops = 0

IInv ==
  /\ TypeOK /\ MutexOwned
  /\ StartInv /\ PhaseInv /\ LoopsInv /\ TurnInv /\ FirstInv
  /\ Counting => CountInv

-----------------------------------------------------------------------------
(* The initial state.                                                      *)

LEMMA InitIInv == Init => IInv
<1> SUFFICES ASSUME Init PROVE IInv
  OBVIOUS
<1> USE MutexAssumption DEF Init, Threads
<1>1. MutexOwned
  BY DEF MutexOwned, Holding
<1>2. Cardinality(1 .. NThreads) = NThreads
  BY FS_Interval
<1>3. PhaseInv
  <2>1. Present = 1 .. NThreads
    BY DEF Present
  <2>2. Present \ waiting = Present
    OBVIOUS
  <2> QED BY <1>2, <2>1, <2>2 DEF PhaseInv
<1>4. StartInv
  BY DEF StartInv, Started
<1>5. TypeOK
  BY DEF TypeOK
<1>6. LoopsInv
  BY DEF LoopsInv
<1>7. TurnInv /\ FirstInv
  BY DEF TurnInv, FirstInv, FairTurns, Before, HadTurn
<1>8. Counting => CountInv
  BY DEF CountInv
<1> QED BY <1>1, <1>3, <1>4, <1>5, <1>6, <1>7, <1>8 DEF IInv

-----------------------------------------------------------------------------
(* What the steps rest on.                                                 *)

\* A worker that runs has its element; the last one runs when all do.
LEMMA Born ==
  ASSUME IInv
  PROVE  /\ \A t \in Threads : pc[t] # "unborn" => t \in 1 .. Len(counters)
         /\ main # "join" => pc[NThreads] = "unborn"
         /\ NThreads \in Threads
         /\ Len(counters) \in Nat
BY MutexAssumption DEF IInv, TypeOK, StartInv, Started, Threads

\* The worker that holds the mutex is alone.
LEMMA Alone ==
  ASSUME IInv, NEW t \in Threads, t \in Holding
  PROVE  Holding = {t} /\ sem = 0
BY DEF IInv, TypeOK, MutexOwned, Holding

LEMMA FinitePhase ==
  ASSUME NEW W
  PROVE  /\ IsFiniteSet(Present) /\ IsFiniteSet(Present \ W)
         /\ Cardinality(Present) \in 0 .. NThreads
         /\ Cardinality(Present \ W) \in 0 .. Cardinality(Present)
<1>1. IsFiniteSet(Threads) /\ Cardinality(Threads) = NThreads
  BY MutexAssumption, FS_Interval DEF Threads
<1>2. Present \in SUBSET Threads /\ Present \ W \in SUBSET Present
  BY DEF Present
<1>3. IsFiniteSet(Present) /\ Cardinality(Present) <= NThreads
  BY <1>1, <1>2, FS_Subset
<1>4. IsFiniteSet(Present \ W) /\ Cardinality(Present \ W) <= Cardinality(Present)
  BY <1>2, <1>3, FS_Subset
<1> QED BY <1>3, <1>4, FS_CardinalityType, MutexAssumption

\* The last arrival of a phase finds all the others waiting or gone ...
LEMMA LastArrival ==
  ASSUME IInv, NEW t \in Threads, pc[t] \in {"arrive", "drop"}, pending = 1
  PROVE  Present \ waiting = {t}
<1>1. t \in Present \ waiting
  BY DEF IInv, PhaseInv, Present
<1>2. IsFiniteSet(Present \ waiting) /\ Cardinality(Present \ waiting) = 1
  BY FinitePhase DEF IInv, PhaseInv
<1>3. PICK x : Present \ waiting = {x}
  BY <1>2, FS_Singleton
<1> QED BY <1>1, <1>3

\* ... and so there is none before main() has started them all.
LEMMA NotYet ==
  ASSUME IInv, NEW t \in Threads, pc[t] \in {"arrive", "drop"}, pending = 1
  PROVE  main = "join"
<1> SUFFICES ASSUME main # "join" PROVE FALSE
  OBVIOUS
<1>1. NThreads \in Present \ waiting /\ NThreads # t
  BY Born DEF Present, IInv, PhaseInv
<1> QED BY <1>1, LastArrival

-----------------------------------------------------------------------------
(* The steps, one part of the invariant at a time.                         *)

LEMMA MutexStep == ASSUME IInv, Next PROVE MutexOwned'
<1> USE DEF IInv, TypeOK, MutexOwned, Goto
<1>1. CASE Main
  <2>1. CASE Spawn
    <3>1. pc[Len(counters)] = "unborn" /\ Len(counters) \in Threads
      BY <2>1 DEF Spawn, StartInv, Started, Threads
    <3>2. Holding' = Holding
      BY <2>1, <3>1 DEF Spawn, Holding
    <3> QED BY <2>1, <3>2 DEF Spawn, mutexVars
  <2>2. CASE Push \/ Copy \/ Install
    BY <2>2 DEF Push, Copy, Install, mutexVars, Holding
  <2> QED BY <1>1, <2>1, <2>2 DEF Main
<1>2. ASSUME NEW t \in Threads, Worker(t) PROVE MutexOwned'
  <2>1. CASE Lock(t)
    <3>1. Holding = {} /\ Holding' = {t}
      BY <2>1 DEF Lock, Acquire, Holding
    <3> QED BY <2>1, <3>1 DEF Lock, Acquire
  <2>2. CASE UnlockRelease(t)
    <3>1. Holding = {t} /\ sem = 0
      BY <2>2, Alone DEF UnlockRelease, Holding
    <3>2. Holding' = {}
      BY <2>2, <3>1 DEF UnlockRelease, Holding
    <3> QED BY <2>2, <3>1, <3>2 DEF UnlockRelease, Release
  <2>3. CASE While(t) \/ LoadCounter(t) \/ StoreCounter(t) \/ DecrementLoops(t)
    <3>1. Holding' = Holding /\ sem' = sem
      BY <2>3 DEF While, LoadCounter, StoreCounter, DecrementLoops, mutexVars, Holding
    <3> QED BY <3>1
  <2>4. CASE UnlockArrive(t) \/ UnlockWait(t) \/ Drop(t)
    <3>1. Holding' = Holding /\ sem' = sem
      BY <2>4 DEF UnlockArrive, UnlockWait, Drop, mutexVars, Holding
    <3> QED BY <3>1
  <2> QED BY <1>2, <2>1, <2>2, <2>3, <2>4 DEF Worker
<1>3. CASE Terminated
  BY <1>3 DEF Terminated, vars, mutexVars, Holding
<1> QED BY <1>1, <1>2, <1>3 DEF Next

LEMMA StartStep == ASSUME IInv, Next PROVE StartInv'
<1> USE MutexAssumption DEF IInv, TypeOK, StartInv, Started, Goto, Threads
<1>1. CASE Push
  BY <1>1 DEF Push
<1>2. CASE Copy
  BY <1>2 DEF Copy, vectorVars
<1>3. CASE Install
  BY <1>3 DEF Install
<1>4. CASE Spawn
  BY <1>4 DEF Spawn, vectorVars
<1>5. ASSUME NEW t \in Threads, Worker(t) PROVE StartInv'
  <2>1. main' = main /\ fresh' = fresh
    BY <1>5 DEF Worker, Lock, While, LoadCounter, StoreCounter, DecrementLoops,
      UnlockRelease, UnlockArrive, UnlockWait, Drop, vectorVars
  <2>2. Len(counters') = Len(counters)
    BY <1>5 DEF Worker, Lock, While, LoadCounter, StoreCounter, DecrementLoops,
      UnlockRelease, UnlockArrive, UnlockWait, Drop, vectorVars
  <2>3. /\ pc[t] # "unborn" /\ pc'[t] # "unborn"
        /\ \A s \in Threads \ {t} : pc'[s] = pc[s]
    BY <1>5 DEF Worker, Lock, While, LoadCounter, StoreCounter, DecrementLoops,
      UnlockRelease, UnlockArrive, UnlockWait, Drop
  <2> QED BY <2>1, <2>2, <2>3
<1>6. CASE Terminated
  BY <1>6 DEF Terminated, vars, vectorVars
<1> QED BY <1>1, <1>2, <1>3, <1>4, <1>5, <1>6 DEF Next, Main

\* A step that neither arrives nor returns leaves the phase as it is.
LEMMA SamePhase ==
  ASSUME IInv, NEW t \in Threads, NEW l, pc' = [pc EXCEPT ![t] = l],
         l # "done", pc[t] # "done", pc[t] = "wait" => t \notin waiting,
         UNCHANGED <<expected, pending, waiting>>
  PROVE  PhaseInv'
<1>1. Present' = Present
  BY DEF IInv, TypeOK, Present
<1> QED BY <1>1 DEF IInv, TypeOK, PhaseInv

LEMMA PhaseStep == ASSUME IInv, Next PROVE PhaseInv'
<1>1. CASE Push \/ Copy \/ Install
  <2>1. Present' = Present
    BY <1>1 DEF Push, Copy, Install, Present
  <2> QED BY <1>1, <2>1 DEF Push, Copy, Install, mutexVars, IInv, PhaseInv
<1>2. CASE Spawn
  <2>1. Len(counters) \in Threads /\ pc[Len(counters)] = "unborn"
    BY <1>2 DEF Spawn, IInv, TypeOK, StartInv, Started, Threads
  <2> QED BY <1>2, <2>1, SamePhase DEF Spawn, mutexVars
<1>3. ASSUME NEW t \in Threads, Worker(t) PROVE PhaseInv'
  <2>1. CASE Lock(t)
    BY <2>1, SamePhase DEF Lock, Goto
  <2>2. CASE While(t)
    BY <2>2, SamePhase DEF While, Goto, mutexVars
  <2>3. CASE LoadCounter(t) \/ StoreCounter(t) \/ DecrementLoops(t)
    BY <2>3, SamePhase
       DEF LoadCounter, StoreCounter, DecrementLoops, Goto, mutexVars
  <2>4. CASE UnlockRelease(t)
    BY <2>4, SamePhase DEF UnlockRelease, Goto
  <2>5. CASE UnlockWait(t)
    BY <2>5, SamePhase DEF UnlockWait, Goto, mutexVars
  <2>6. CASE UnlockArrive(t)
    <3> USE <2>6 DEF UnlockArrive, Goto, IInv, TypeOK, PhaseInv
    <3>1. Present' = Present /\ t \in Present \ waiting
      BY DEF Present
    <3>2. CASE pending = 1
      <4>1. Present \ {} = Present
        OBVIOUS
      <4> QED BY <3>1, <3>2, <4>1
    <3>3. CASE pending # 1
      <4>1. (Present \ waiting)' = (Present \ waiting) \ {t}
        BY <3>1, <3>3
      <4>2. Cardinality((Present \ waiting) \ {t}) = Cardinality(Present \ waiting) - 1
        BY <3>1, FinitePhase, FS_RemoveElement
      <4>3. pending' = Cardinality((Present \ waiting)')
        BY <3>3, <4>1, <4>2
      <4>4. \A s \in waiting' : pc'[s] = "wait"
        BY <3>3
      <4> QED BY <3>1, <4>3, <4>4
    <3> QED BY <3>2, <3>3
  <2>7. CASE Drop(t)
    <3> USE <2>7 DEF Drop, Goto, IInv, TypeOK, PhaseInv
    <3>1. Present' = Present \ {t} /\ t \in Present /\ t \in Present \ waiting
      BY DEF Present
    <3>2. Cardinality(Present') = Cardinality(Present) - 1
      BY <3>1, FinitePhase, FS_RemoveElement
    <3>3. CASE pending = 1
      <4>1. (Present \ waiting)' = Present'
        BY <3>3
      <4> QED BY <3>2, <3>3, <4>1
    <3>4. CASE pending # 1
      <4>1. (Present \ waiting)' = (Present \ waiting) \ {t}
        BY <3>1, <3>4
      <4>2. Cardinality((Present \ waiting) \ {t}) = Cardinality(Present \ waiting) - 1
        BY <3>1, FinitePhase, FS_RemoveElement
      <4> QED BY <3>1, <3>2, <3>4, <4>1, <4>2
    <3> QED BY <3>3, <3>4
  <2> QED BY <1>3, <2>1, <2>2, <2>3, <2>4, <2>5, <2>6, <2>7 DEF Worker
<1>4. CASE Terminated
  <2>1. Present' = Present
    BY <1>4 DEF Terminated, vars, Present
  <2> QED BY <1>4, <2>1 DEF Terminated, vars, mutexVars, IInv, PhaseInv
<1> QED BY <1>1, <1>2, <1>3, <1>4 DEF Next, Main

\* main() leaves alone what the workers share but for the vector.
LEMMA MainStep ==
  ASSUME IInv, Main
  PROVE  /\ UNCHANGED <<endless, leaving, nloops, waiting, turns, tmp>>
         /\ \A t \in Threads : pc'[t] = pc[t] \/ (pc[t] = "unborn" /\ pc'[t] = "lock")
<1>1. CASE Spawn
  BY <1>1 DEF Spawn, IInv, TypeOK, StartInv, Started, mutexVars
<1>2. CASE Push \/ Copy \/ Install
  BY <1>2 DEF Push, Copy, Install, mutexVars
<1> QED BY <1>1, <1>2 DEF Main

LEMMA LoopsStep == ASSUME IInv, Next PROVE LoopsInv'
<1> USE DEF IInv, TypeOK, LoopsInv
<1>1. CASE Main
  BY <1>1, MainStep
<1>2. ASSUME NEW t \in Threads, Worker(t) PROVE LoopsInv'
  <2> USE DEF Goto
  <2>1. CASE DecrementLoops(t)
    <3>1. Holding = {t} /\ nloops > 0 /\ leaving = {}
      BY <2>1, Alone DEF DecrementLoops, Holding
    <3>2. \A s \in Threads \ {t} : pc'[s] \notin {"load", "store", "dec"}
      BY <2>1, <3>1 DEF DecrementLoops, Holding
    <3>3. CASE endless
      BY <2>1, <3>3 DEF DecrementLoops
    <3>4. CASE ~endless
      <4>1. nloops' = nloops - 1 /\ turns' = [turns EXCEPT ![t] = @ + 1]
        BY <2>1, <3>4 DEF DecrementLoops
      <4>2. \A s \in Threads : turns'[s] <= NLoops - nloops'
        BY <4>1, MutexAssumption
      <4> QED BY <2>1, <3>1, <3>2, <3>4, <4>2 DEF DecrementLoops
    <3> QED BY <3>3, <3>4
  <2>2. CASE While(t)
    BY <2>2 DEF While
  <2>3. CASE UnlockWait(t)
    BY <2>3 DEF UnlockWait
  <2>4. CASE Drop(t)
    BY <2>4 DEF Drop
  <2>5. CASE Lock(t) \/ LoadCounter(t) \/ StoreCounter(t)
    BY <2>5 DEF Lock, LoadCounter, StoreCounter
  <2>6. CASE UnlockRelease(t) \/ UnlockArrive(t)
    BY <2>6 DEF UnlockRelease, UnlockArrive
  <2> QED BY <1>2, <2>1, <2>2, <2>3, <2>4, <2>5, <2>6 DEF Worker
<1>3. CASE Terminated
  BY <1>3 DEF Terminated, vars
<1> QED BY <1>1, <1>2, <1>3 DEF Next

\* Steps that are nobody's turn and end no phase.
LEMMA SameTurns ==
  ASSUME IInv, UNCHANGED <<endless, turns>>, nloops' = nloops,
         nloops > 0 => \A s \in Threads : HadTurn(s)' = HadTurn(s)
  PROVE  TurnInv'
BY DEF IInv, TypeOK, TurnInv, FairTurns, Before

LEMMA TurnStep == ASSUME IInv, Next PROVE TurnInv'
<1>1. CASE Main
  <2>1. \A s \in Threads : HadTurn(s)' = HadTurn(s)
    BY <1>1, MainStep DEF HadTurn
  <2> QED BY <1>1, <2>1, MainStep, SameTurns
<1>2. ASSUME NEW t \in Threads, Worker(t) PROVE TurnInv'
  <2> USE DEF Goto
  <2>w. ASSUME NEW s \in waiting PROVE s \in Threads /\ pc[s] = "wait"
    BY DEF IInv, TypeOK, PhaseInv
  <2>1. CASE DecrementLoops(t)
    <3>1. ~HadTurn(t) /\ HadTurn(t)' /\ nloops > 0
      BY <2>1, <2>w DEF DecrementLoops, IInv, TypeOK, LoopsInv, HadTurn, mutexVars
    <3>2. \A s \in Threads \ {t} : HadTurn(s)' = HadTurn(s)
      BY <2>1 DEF DecrementLoops, IInv, TypeOK, HadTurn, mutexVars
    <3>3. CASE endless
      BY <2>1, <3>3 DEF DecrementLoops, IInv, TypeOK, TurnInv, FairTurns
    <3>4. CASE ~endless
      <4>1. ~endless' /\ turns' = [turns EXCEPT ![t] = turns[t] + 1]
        BY <2>1, <3>4 DEF DecrementLoops
      <4>2. \A s \in Threads : Before(s)' = Before(s)
        BY <3>1, <3>2, <4>1 DEF IInv, TypeOK, Before
      <4>3. \A s, r \in Threads : Before(s) = Before(r)
        BY <3>1, <3>4 DEF IInv, TurnInv
      <4>4. \A s \in Threads : turns[s] \in Int /\ turns[s] - Before(s) \in 0 .. 1
        BY MutexAssumption DEF IInv, TypeOK, Before
      <4>5. Before(t) = turns[t]
        BY <3>1 DEF Before
      <4>6. \A s \in Threads : turns'[s] \in Int /\ turns'[s] - turns[t] \in 0 .. 1
        <5>1. ASSUME NEW s \in Threads, s # t
              PROVE  turns'[s] = turns[s] /\ Before(s) = turns[t]
          BY <4>1, <4>3, <4>5, <5>1 DEF IInv, TypeOK
        <5>2. turns'[t] = turns[t] + 1
          BY <4>1 DEF IInv, TypeOK
        <5> QED BY <4>4, <5>1, <5>2
      <4>7. FairTurns'
        BY <4>4, <4>6 DEF FairTurns
      <4> QED BY <4>1, <4>2, <4>3, <4>7 DEF TurnInv
    <3> QED BY <3>3, <3>4
  <2>2. CASE While(t)
    <3>1. nloops > 0 => \A s \in Threads : HadTurn(s)' = HadTurn(s)
      BY <2>2 DEF While, IInv, TypeOK, HadTurn, mutexVars
    <3> QED BY <2>2, <3>1, SameTurns DEF While
  <2>3. CASE UnlockArrive(t)
    <3>0. UNCHANGED <<endless, turns>> /\ nloops' = nloops
      BY <2>3 DEF UnlockArrive
    <3>1. CASE pending # 1
      <4>1. \A s \in Threads : HadTurn(s)' = HadTurn(s)
        BY <2>3, <3>1 DEF UnlockArrive, IInv, TypeOK, HadTurn
      <4> QED BY <3>0, <4>1, SameTurns
    <3>2. CASE pending = 1
      <4>1. Present \ waiting = {t}
        BY <2>3, <3>2, LastArrival DEF UnlockArrive
      <4>2. \A s \in Threads : ~HadTurn(s)'
        BY <2>3, <3>2, <4>1, <2>w DEF UnlockArrive, IInv, TypeOK, HadTurn, Present
      <4>3. nloops > 0 => \A s \in Threads : HadTurn(s)
        BY <2>3, <4>1 DEF UnlockArrive, IInv, TypeOK, LoopsInv, HadTurn, Present
      <4>4. nloops > 0 => \A s \in Threads : Before(s)' = Before(s) + 1
        BY <3>0, <4>2, <4>3 DEF IInv, TypeOK, Before
      <4> QED BY <3>0, <4>4 DEF IInv, TypeOK, TurnInv, FairTurns
    <3> QED BY <3>1, <3>2
  <2>4. CASE Drop(t)
    <3>1. nloops = 0
      BY <2>4 DEF Drop, IInv, LoopsInv
    <3> QED BY <2>4, <3>1, SameTurns DEF Drop
  <2>5. CASE Lock(t) \/ LoadCounter(t) \/ StoreCounter(t)
    <3>1. \A s \in Threads : HadTurn(s)' = HadTurn(s)
      BY <2>5 DEF Lock, LoadCounter, StoreCounter, IInv, TypeOK, HadTurn, mutexVars
    <3> QED BY <2>5, <3>1, SameTurns DEF Lock, LoadCounter, StoreCounter
  <2>6. CASE UnlockRelease(t) \/ UnlockWait(t)
    <3>1. \A s \in Threads : HadTurn(s)' = HadTurn(s)
      BY <2>6 DEF UnlockRelease, UnlockWait, IInv, TypeOK, HadTurn, mutexVars
    <3> QED BY <2>6, <3>1, SameTurns DEF UnlockRelease, UnlockWait
  <2> QED BY <1>2, <2>1, <2>2, <2>3, <2>4, <2>5, <2>6 DEF Worker
<1>3. CASE Terminated
  <2>1. \A s \in Threads : HadTurn(s)' = HadTurn(s)
    BY <1>3 DEF Terminated, vars, mutexVars, HadTurn
  <2> QED BY <1>3, <2>1, SameTurns DEF Terminated, vars
<1> QED BY <1>1, <1>2, <1>3 DEF Next

LEMMA FirstStep == ASSUME IInv, Next PROVE FirstInv'
<1> SUFFICES ASSUME main' # "join" PROVE FirstInv'
  BY DEF FirstInv
<1>1. CASE Main
  <2>1. main # "join"
    BY <1>1 DEF Main, Push, Copy, Install, Spawn
  <2>2. \A t \in Threads : HadTurn(t)' = HadTurn(t)
    BY <1>1, MainStep DEF HadTurn
  <2> QED BY <1>1, <2>1, <2>2, MainStep DEF IInv, TypeOK, FirstInv
<1>2. ASSUME NEW t \in Threads, Worker(t) PROVE FirstInv'
  <2> USE DEF Goto, IInv, TypeOK, FirstInv
  <2>1. main' = main
    BY <1>2 DEF Worker, Lock, While, LoadCounter, StoreCounter, DecrementLoops,
      UnlockRelease, UnlockArrive, UnlockWait, Drop
  <2>2. CASE DecrementLoops(t)
    <3>0. ~HadTurn(t)
      BY <2>2 DEF DecrementLoops, HadTurn, PhaseInv
    <3>1. turns[t] = 0
      BY <2>1, <3>0, MutexAssumption
    <3>2. turns' = turns \/ turns' = [turns EXCEPT ![t] = 1]
      BY <2>2, <3>1 DEF DecrementLoops
    <3> QED BY <2>1, <2>2, <3>1, <3>2 DEF DecrementLoops, HadTurn, mutexVars
  <2>3. CASE While(t) \/ Lock(t) \/ LoadCounter(t) \/ StoreCounter(t) \/ UnlockRelease(t)
    BY <2>1, <2>3 DEF While, Lock, LoadCounter, StoreCounter, UnlockRelease,
      HadTurn, mutexVars
  <2>4. CASE UnlockArrive(t)
    <3>1. pending # 1
      BY <2>1, <2>4, NotYet DEF UnlockArrive
    <3> QED BY <2>1, <2>4, <3>1 DEF UnlockArrive, HadTurn
  <2>5. CASE UnlockWait(t) \/ Drop(t)
    BY <2>1, <2>5 DEF UnlockWait, Drop
  <2> QED BY <1>2, <2>2, <2>3, <2>4, <2>5 DEF Worker
<1>3. CASE Terminated
  BY <1>3 DEF Terminated, Joined, vars
<1> QED BY <1>1, <1>2, <1>3 DEF Next

LEMMA ElementIn == ASSUME NEW S, NEW q \in Seq(S), NEW k \in 1 .. Len(q) PROVE q[k] \in S
OBVIOUS

LEMMA ModId == ASSUME NEW n \in 0 .. IntMod - 1 PROVE n % IntMod = n
BY MutexAssumption

\* While main() starts workers, nobody has more than one turn to count, and a
\* worker that is about to store its counter has none.
LEMMA FirstCount ==
  ASSUME IInv, main # "join", NEW t \in Threads
  PROVE  /\ Counted(t) \in 0 .. 1
         /\ pc[t] \in {"unborn", "store"} => turns[t] = 0 /\ Counted(t) = 0
<1>1. pc[t] \in {"unborn", "store", "dec"} => ~HadTurn(t)
  BY DEF IInv, PhaseInv, HadTurn
<1>2. turns[t] \in 0 .. 1
  BY MutexAssumption DEF IInv, TypeOK, FirstInv
<1>3. pc[t] \in {"unborn", "store", "dec"} => turns[t] = 0
  BY <1>1, <1>2 DEF IInv, FirstInv
<1> QED BY <1>2, <1>3 DEF Counted

LEMMA CountMain ==
  ASSUME IInv, Main, Counting
  PROVE  CountInv'
<1> DEFINE n == Len(counters)
<1>0. /\ main # "join" /\ UNCHANGED <<tmp, turns>>
      /\ NThreads \in Threads /\ n \in Nat /\ 1 .. n \in SUBSET Threads
  BY MainStep, Born
     DEF Main, Push, Copy, Install, Spawn, IInv, TypeOK, Threads
<1>1. \A t \in Threads : Counted(t)' = Counted(t) /\ Counted(t) \in 0 .. 1
  BY <1>0, MainStep, FirstCount DEF Counted
<1>2. CountInv
  BY DEF IInv
<1>3. /\ counters \in Seq(Nat) /\ fresh \in Seq(Nat)
      /\ \A t \in 1 .. n : counters[t] \in Nat
  BY MutexAssumption DEF IInv, TypeOK
<1>4. CASE Push
  <2>1. /\ counters' = Append(counters, 0) /\ stale' = stale /\ main' = "spawn"
        /\ pc' = pc /\ n + 1 \in Threads /\ pc[n + 1] = "unborn"
    BY <1>0, <1>4 DEF Push, IInv, StartInv, Started, Threads
  <2>2. /\ \A t \in 1 .. n : counters'[t] = counters[t]
        /\ counters'[n + 1] = 0 /\ Len(counters') = n + 1
    BY <1>3, <2>1
  <2>3. Counted(n + 1) = 0
    BY <1>0, <2>1, FirstCount
  <2>4. \A t \in 1 .. n + 1 : Lost(t)' \in 0 .. 1 /\ (t = n + 1 => Lost(t)' = 0)
    BY <1>0, <1>1, <1>2, <2>1, <2>2, <2>3 DEF CountInv, Lost
  <2>5. \A t \in Threads : pc[t] = "store" => t \in 1 .. n
    BY Born
  <2> QED BY <1>0, <1>2, <2>1, <2>2, <2>4, <2>5 DEF CountInv, IInv, TypeOK
<1>5. CASE Copy
  <2>1. /\ fresh' = Append(counters, 0) /\ UNCHANGED <<counters, stale, pc>>
        /\ main' = "install"
    BY <1>5 DEF Copy
  <2>2. /\ \A t \in 1 .. n : fresh'[t] = counters[t]
        /\ fresh'[n + 1] = 0
    BY <1>3, <2>1
  <2>3. \A t \in Threads : Lost(t)' = Lost(t)
    BY <1>1, <2>1 DEF Lost
  <2>4. (\A t \in 1 .. n : Lost(t) \in 0 .. 1)'
    BY <1>0, <1>2, <2>1, <2>3 DEF CountInv
  <2>5. \A t \in 1 .. n : fresh'[t] <= counters'[t]
    BY <1>3, <2>1, <2>2
  <2> QED BY <1>0, <1>2, <2>1, <2>2, <2>3, <2>4, <2>5 DEF CountInv
<1>6. CASE Install
  <2>1. /\ counters' = fresh /\ Len(fresh) = n + 1 /\ main' = "spawn" /\ pc' = pc
        /\ stale' = {t \in Threads : pc[t] = "store"}
        /\ n + 1 \in Threads /\ pc[n + 1] = "unborn" /\ pc[NThreads] = "unborn"
    BY <1>0, <1>6, Born DEF Install, IInv, StartInv, Started, Threads
  <2>2. /\ \A t \in 1 .. n + 1 : fresh[t] \in Nat
        /\ fresh[n + 1] = 0 /\ \A t \in 1 .. n : fresh[t] <= counters[t]
    BY <1>2, <1>3, <1>6, <2>1 DEF Install, CountInv
  <2>3. Counted(n + 1) = 0
    BY <1>0, <2>1, FirstCount
  <2>4. \A t \in 1 .. n : Counted(t) - counters[t] >= 0
    BY <1>0, <1>1, <1>2, <1>3 DEF CountInv, Lost
  <2>5. \A t \in 1 .. n + 1 : Lost(t)' \in 0 .. 1 /\ (t = n + 1 => Lost(t)' = 0)
    BY <1>0, <1>1, <1>3, <2>1, <2>2, <2>3, <2>4 DEF Lost
  <2>6. \A t \in stale' : turns[t] = 0 /\ fresh[t] = 0
    <3> SUFFICES ASSUME NEW t \in Threads, pc[t] = "store"
                 PROVE  turns[t] = 0 /\ fresh[t] = 0
      BY <2>1
    <3>1. turns[t] = 0 /\ Counted(t) = 0 /\ t \in 1 .. n
      BY <1>0, Born, FirstCount
    <3>2. fresh[t] \in Nat /\ fresh[t] <= counters[t] /\ counters[t] \in Nat
      BY <1>0, <1>3, <2>2, <3>1
    <3> QED BY <2>4, <3>1, <3>2
  <2> QED BY <1>0, <2>1, <2>5, <2>6 DEF CountInv
<1>7. CASE Spawn
  <2>1. /\ UNCHANGED <<counters, stale, fresh>> /\ main' # "install"
        /\ \A t \in Threads : pc'[t] = "store" <=> pc[t] = "store"
    BY <1>7, MainStep DEF Spawn, vectorVars
  <2>2. \A t \in Threads : Lost(t)' = Lost(t)
    BY <1>1, <2>1 DEF Lost
  <2> QED BY <1>0, <1>2, <2>1, <2>2 DEF CountInv, IInv, TypeOK
<1> QED BY <1>4, <1>5, <1>6, <1>7 DEF Main

\* A worker that neither stores its counter nor loads it.
LEMMA SameCount ==
  ASSUME IInv, Counting, NEW t \in Threads, NEW l, pc' = [pc EXCEPT ![t] = l],
         pc[t] # "store", l # "store", UNCHANGED <<main, counters, stale, fresh, tmp>>,
         \A s \in Threads : Counted(s)' = Counted(s),
         \A s \in Threads \ {t} : turns'[s] = turns[s]
  PROVE  CountInv'
<1>1. CountInv
  BY DEF IInv
<1>2. /\ NThreads \in Threads /\ 1 .. Len(counters) \in SUBSET Threads
      /\ \A s \in Threads : pc'[s] = "store" <=> pc[s] = "store"
      /\ \A s \in stale : s \in Threads /\ s # t /\ pc[s] = "store"
  BY <1>1, Born DEF CountInv, IInv, TypeOK, Threads
<1>3. \A s \in Threads : Lost(s)' = Lost(s)
  BY DEF Lost
<1> QED BY <1>1, <1>2, <1>3 DEF CountInv

LEMMA Moves ==
  ASSUME IInv, NEW t \in Threads, NEW from, NEW to, Goto(t, from, to)
  PROVE  /\ pc[t] = from /\ pc'[t] = to /\ pc' = [pc EXCEPT ![t] = to]
         /\ \A s \in Threads \ {t} : pc'[s] = pc[s]
BY DEF Goto, IInv, TypeOK

LEMMA CountWorker ==
  ASSUME IInv, NEW t \in Threads, Worker(t), Counting
  PROVE  CountInv'
<1>0. /\ CountInv /\ turns \in [Threads -> Nat] /\ tmp \in [Threads -> Nat]
      /\ NThreads \in Threads /\ 1 .. Len(counters) \in SUBSET Threads
      /\ stale \in SUBSET Threads
      /\ Len(counters) = NThreads => NThreads \in 1 .. Len(counters)
  BY MutexAssumption, Born DEF IInv, TypeOK, Threads
<1>1. CASE LoadCounter(t)
  <2>0. /\ pc[t] = "load" /\ pc'[t] = "store"
        /\ \A s \in Threads \ {t} : pc'[s] = pc[s]
        /\ tmp' = [tmp EXCEPT ![t] = counters[t]]
        /\ UNCHANGED <<main, counters, fresh, stale, turns>>
    BY <1>1, Moves DEF LoadCounter, vectorVars
  <2>1. \A s \in Threads : Lost(s)' = Lost(s)
    BY <2>0 DEF Lost, Counted
  <2>2. stale \in SUBSET (Threads \ {t})
    BY <1>0, <2>0 DEF CountInv, IInv, TypeOK
  <2>3. \A s \in Threads \ stale : pc'[s] = "store" => tmp'[s] = counters[s]
    BY <1>0, <2>0 DEF CountInv
  <2> QED BY <1>0, <2>0, <2>1, <2>2, <2>3 DEF CountInv
<1>2. CASE StoreCounter(t)
  <2>1. /\ pc[t] = "store" /\ pc'[t] = "dec" /\ nloops > 0
        /\ \A s \in Threads \ {t} : pc'[s] = pc[s]
        /\ t \in 1 .. Len(counters) /\ stale' = stale \ {t}
        /\ UNCHANGED <<main, fresh, turns, tmp>>
    BY <1>2, Born, Moves DEF StoreCounter, IInv, LoopsInv
  <2>2. /\ \A s \in Threads \ {t} : Counted(s)' = Counted(s)
        /\ Counted(t) = turns[t] /\ Counted(t)' = turns[t] + 1
    BY <1>0, <2>1 DEF Counted
  <2>3. CASE t \in stale
    <3>1. counters' = counters /\ turns[t] = 0 /\ counters[t] = 0 /\ t # NThreads
      BY <1>0, <1>2, <2>3 DEF StoreCounter, CountInv
    <3>2. /\ \A s \in Threads \ {t} : Lost(s)' = Lost(s)
          /\ Lost(t)' = 1
      BY <2>2, <3>1 DEF Lost
    <3>3. \A s \in Threads \ stale' : pc'[s] = "store" => tmp'[s] = counters'[s]
      BY <1>0, <2>1, <3>1 DEF CountInv
    <3> QED BY <1>0, <2>1, <3>1, <3>2, <3>3 DEF CountInv
  <2>4. CASE t \notin stale
    <3>1. counters[t] \in 0 .. IntMod - 2 /\ tmp[t] = counters[t]
      <4>1. counters[t] \in Nat /\ tmp[t] = counters[t] /\ turns[t] - counters[t] \in 0 .. 1
        BY <1>0, <2>1, <2>2, <2>4, MutexAssumption DEF CountInv, Lost, IInv, TypeOK
      <4>2. turns[t] <= NLoops - nloops /\ nloops \in Nat /\ turns[t] \in Nat
        BY <1>0 DEF IInv, LoopsInv, TypeOK
      <4> QED BY <2>1, <4>1, <4>2, MutexAssumption
    <3>2. (tmp[t] + 1) % IntMod = counters[t] + 1
      BY <3>1, ModId, MutexAssumption
    <3>3. /\ counters' = [counters EXCEPT ![t] = counters[t] + 1]
          /\ Len(counters') = Len(counters)
          /\ counters'[t] = counters[t] + 1
          /\ \A s \in 1 .. Len(counters) : s # t => counters'[s] = counters[s]
      <4>1. counters' = [counters EXCEPT ![t] = counters[t] + 1]
        BY <1>2, <2>4, <3>2 DEF StoreCounter
      <4>2. counters \in Seq(0 .. IntMod - 1) /\ counters[t] + 1 \in 0 .. IntMod - 1
        BY <3>1, MutexAssumption DEF IInv, TypeOK
      <4>3. Len(counters') = Len(counters)
        BY <2>1, <4>1, <4>2
      <4> QED BY <2>1, <4>1, <4>2, <4>3
    <3>4. \A s \in 1 .. Len(counters) : Lost(s)' = Lost(s)
      <4>1. Lost(t)' = Lost(t)
        <5>1. turns[t] \in Int /\ counters[t] \in Int
          BY <1>0, <3>1, MutexAssumption
        <5> QED BY <2>2, <3>3, <5>1 DEF Lost
      <4> QED BY <1>0, <2>1, <2>2, <3>3, <4>1 DEF Lost
    <3>5. \A s \in Threads : pc[s] = "store" => s \in 1 .. Len(counters)
      BY Born
    <3>6. main = "install" => \A s \in 1 .. Len(counters) : fresh[s] <= counters'[s]
      <4>1. main = "install" => fresh[t] <= counters[t] /\ fresh[t] \in Nat
        <5>1. main = "install" => t \in 1 .. Len(fresh)
          BY <2>1, Born DEF IInv, StartInv
        <5> QED BY <1>0, <2>1, <5>1, MutexAssumption DEF CountInv, IInv, TypeOK
      <4>2. ASSUME main = "install", NEW s \in 1 .. Len(counters), s # t
            PROVE  fresh[s] <= counters'[s]
        BY <1>0, <3>3, <4>2 DEF CountInv
      <4>3. main = "install" => fresh[t] <= counters'[t]
        <5>1. ASSUME NEW a \in Nat, NEW c \in Nat, a <= c PROVE a <= c + 1
          BY <5>1
        <5> QED BY <3>1, <3>3, <4>1, <5>1, MutexAssumption
      <4> QED BY <4>2, <4>3
    <3>7. \A s \in Threads \ stale' : pc'[s] = "store" => tmp'[s] = counters'[s]
      BY <1>0, <2>1, <2>4, <3>3, <3>5 DEF CountInv
    <3>8. \A s \in stale' : /\ pc'[s] = "store" /\ turns'[s] = 0
                            /\ counters'[s] = 0
      <4>1. stale \in SUBSET Threads
        BY DEF IInv, TypeOK
      <4> QED BY <1>0, <2>1, <2>4, <3>3, <3>5, <4>1 DEF CountInv
    <3>9. /\ NThreads \notin stale'
          /\ Len(counters') = NThreads => Lost(NThreads)' = 0
      BY <1>0, <2>1, <3>3, <3>4 DEF CountInv
    <3>10. \A s \in 1 .. Len(counters') : Lost(s)' \in 0 .. 1
      BY <1>0, <3>3, <3>4 DEF CountInv
    <3>11. (main = "install" => fresh[Len(counters) + 1] = 0)'
      BY <1>0, <2>1, <3>3 DEF CountInv
    <3> QED BY <2>1, <3>3, <3>6, <3>7, <3>8, <3>9, <3>10, <3>11 DEF CountInv
  <2> QED BY <2>3, <2>4
<1>3. CASE DecrementLoops(t)
  <2>1. ~endless
    BY <1>3, Moves, MutexAssumption DEF DecrementLoops, Counting, IInv, LoopsInv, TypeOK
  <2>2. \A s \in Threads : Counted(s)' = Counted(s)
    BY <1>0, <1>3, <2>1, Moves DEF DecrementLoops, Counted
  <2>3. /\ pc[t] = "dec" /\ pc' = [pc EXCEPT ![t] = "release"]
        /\ UNCHANGED <<main, counters, stale, fresh, tmp>>
        /\ \A s \in Threads \ {t} : turns'[s] = turns[s]
    BY <1>0, <1>3, <2>1, Moves DEF DecrementLoops, vectorVars
  <2> QED BY <2>2, <2>3, SameCount
<1>4. CASE \/ While(t) \/ Lock(t) \/ UnlockRelease(t) \/ UnlockArrive(t)
         \/ UnlockWait(t) \/ Drop(t)
  <2>1. /\ pc[t] \notin {"store", "dec"} /\ pc'[t] \notin {"store", "dec"}
        /\ pc' = [pc EXCEPT ![t] = pc'[t]]
        /\ \A s \in Threads \ {t} : pc'[s] = pc[s]
    BY <1>4, Moves DEF While, Lock, UnlockRelease, UnlockArrive, UnlockWait, Drop
  <2>2. UNCHANGED <<main, counters, stale, fresh, tmp, turns>>
    BY <1>4 DEF While, Lock, UnlockRelease, UnlockArrive, UnlockWait, Drop, vectorVars
  <2>3. \A s \in Threads : Counted(s)' = Counted(s)
    BY <2>1, <2>2 DEF Counted
  <2> QED BY <2>1, <2>2, <2>3, SameCount
<1> QED BY <1>1, <1>2, <1>3, <1>4 DEF Worker

LEMMA CountStep ==
  ASSUME IInv, Next, Counting'
  PROVE  CountInv'
<1>1. CASE Main
  BY <1>1, MainStep, CountMain DEF Counting
<1>2. ASSUME NEW t \in Threads, Worker(t) PROVE CountInv'
  <2>1. endless' = endless
    BY <1>2 DEF Worker, Lock, While, LoadCounter, StoreCounter, DecrementLoops,
      UnlockRelease, UnlockArrive, UnlockWait, Drop
  <2> QED BY <1>2, <2>1, CountWorker DEF Counting
<1>3. CASE Terminated
  BY <1>3 DEF Terminated, vars, vectorVars, IInv, Counting, CountInv, Lost, Counted
<1> QED BY <1>1, <1>2, <1>3 DEF Next

LEMMA TypeStep == ASSUME IInv, Next PROVE TypeOK'
<1>0. /\ PhaseInv' /\ MutexOwned' /\ StartInv'
      /\ expected' \in 0 .. NThreads /\ pending' \in 0 .. expected'
  <2>1. /\ Cardinality(Present') \in 0 .. NThreads
        /\ Cardinality(Present' \ waiting') \in 0 .. Cardinality(Present')
    <3> DEFINE P == Present'
    <3>1. IsFiniteSet(Threads) /\ Cardinality(Threads) = NThreads
      BY MutexAssumption, FS_Interval DEF Threads
    <3>2. P \in SUBSET Threads /\ P \ waiting' \in SUBSET P
      BY DEF Present
    <3> HIDE DEF P
    <3>3. IsFiniteSet(P) /\ Cardinality(P) <= NThreads
      BY <3>1, <3>2, FS_Subset
    <3>4. IsFiniteSet(P \ waiting') /\ Cardinality(P \ waiting') <= Cardinality(P)
      BY <3>2, <3>3, FS_Subset
    <3>5. Cardinality(P) \in 0 .. NThreads
          /\ Cardinality(P \ waiting') \in 0 .. Cardinality(P)
      BY <3>3, <3>4, FS_CardinalityType, MutexAssumption
    <3> QED BY <3>5 DEF P
  <2> QED BY <2>1, PhaseStep, MutexStep, StartStep DEF PhaseInv
<1>1. CASE Main
  <2>1. CASE Push
    <3>1. counters' \in Seq(0 .. IntMod - 1) /\ Len(counters') <= NThreads
      BY <2>1, MutexAssumption DEF Push, IInv, TypeOK, StartInv
    <3> QED BY <1>0, <2>1, <3>1 DEF Push, mutexVars, IInv, TypeOK
  <2>2. CASE Copy
    <3>1. fresh' \in Seq(0 .. IntMod - 1)
      BY <2>2, MutexAssumption DEF Copy, IInv, TypeOK
    <3> QED BY <1>0, <2>2, <3>1 DEF Copy, mutexVars, IInv, TypeOK
  <2>3. CASE Install
    <3>1. counters' \in Seq(0 .. IntMod - 1) /\ Len(counters') <= NThreads
      BY <2>3, MutexAssumption DEF Install, IInv, TypeOK, StartInv
    <3>2. capacity' \in Nat /\ fresh' \in Seq(0 .. IntMod - 1)
      BY <2>3 DEF Install, IInv, TypeOK
    <3> QED BY <1>0, <2>3, <3>1, <3>2 DEF Install, mutexVars, IInv, TypeOK
  <2>4. CASE Spawn
    BY <1>0, <2>4 DEF Spawn, mutexVars, vectorVars, IInv, TypeOK
  <2> QED BY <1>1, <2>1, <2>2, <2>3, <2>4 DEF Main
<1>2. ASSUME NEW t \in Threads, Worker(t) PROVE TypeOK'
  <2> USE <1>0 DEF IInv, TypeOK, Goto, mutexVars, vectorVars
  <2>1. CASE Lock(t)
    BY <2>1 DEF Lock, Acquire
  <2>2. CASE While(t)
    BY <2>2 DEF While
  <2>3. CASE LoadCounter(t)
    <3>1. counters[t] \in 0 .. IntMod - 1
      <4>1. t \in 1 .. Len(counters)
        BY <2>3, Born DEF LoadCounter
      <4> QED BY <4>1, ElementIn
    <3> QED BY <2>3, <3>1 DEF LoadCounter
  <2>4. CASE StoreCounter(t)
    <3>1. (tmp[t] + 1) % IntMod \in 0 .. IntMod - 1
      BY MutexAssumption
    <3>2. counters' \in Seq(0 .. IntMod - 1) /\ Len(counters') <= NThreads
      <4>1. t \in 1 .. Len(counters)
        BY <2>4, Born DEF StoreCounter
      <4>2. CASE t \in stale
        BY <2>4, <4>2 DEF StoreCounter
      <4>3. CASE t \notin stale
        <5>1. counters' = [counters EXCEPT ![t] = (tmp[t] + 1) % IntMod]
          BY <2>4, <4>3 DEF StoreCounter
        <5> QED BY <3>1, <4>1, <5>1
      <4> QED BY <4>2, <4>3
    <3> QED BY <2>4, <3>2 DEF StoreCounter
  <2>5. CASE DecrementLoops(t)
    <3>1. nloops > 0 /\ turns[t] <= NLoops - nloops
      BY <2>5 DEF DecrementLoops, LoopsInv
    <3>2. nloops' \in 0 .. NLoops /\ turns' \in [Threads -> 0 .. NLoops]
      <4>1. CASE endless
        BY <2>5, <4>1 DEF DecrementLoops
      <4>2. CASE ~endless
        <5>1. nloops - 1 \in 0 .. NLoops /\ turns[t] + 1 \in 0 .. NLoops
          BY <3>1, MutexAssumption
        <5> QED BY <2>5, <4>2, <5>1 DEF DecrementLoops
      <4> QED BY <4>1, <4>2
    <3>3. endless' = endless
      BY <2>5 DEF DecrementLoops
    <3> QED BY <2>5, <3>2, <3>3 DEF DecrementLoops
  <2>6. CASE UnlockRelease(t)
    <3>1. sem' \in 0 .. 1
      <4>1. sem = 0
        BY <2>6, Alone DEF UnlockRelease, Holding
      <4> QED BY <2>6, <4>1 DEF UnlockRelease, Release
    <3> QED BY <2>6, <3>1 DEF UnlockRelease
  <2>7. CASE UnlockArrive(t)
    BY <2>7 DEF UnlockArrive
  <2>8. CASE UnlockWait(t)
    BY <2>8 DEF UnlockWait
  <2>9. CASE Drop(t)
    BY <2>9 DEF Drop
  <2> QED BY <1>2, <2>1, <2>2, <2>3, <2>4, <2>5, <2>6, <2>7, <2>8, <2>9 DEF Worker
<1>3. CASE Terminated
  BY <1>3 DEF Terminated, vars, mutexVars, vectorVars, IInv, TypeOK
<1> QED BY <1>1, <1>2, <1>3 DEF Next

-----------------------------------------------------------------------------
(* The theorems.                                                           *)

LEMMA Invariant == Spec => []IInv
<1>1. IInv /\ [Next]_vars => IInv'
  <2> SUFFICES ASSUME IInv, [Next]_vars PROVE IInv'
    OBVIOUS
  <2>1. CASE Next
    BY <2>1, TypeStep, MutexStep, StartStep, PhaseStep, LoopsStep, TurnStep,
       FirstStep, CountStep DEF IInv
  <2>2. CASE UNCHANGED vars
    BY <2>2 DEF vars, mutexVars, vectorVars, IInv, TypeOK, MutexOwned, Holding,
      StartInv, Started, PhaseInv, Present, LoopsInv, TurnInv, FairTurns, Before,
      HadTurn, FirstInv, Counting, CountInv, Lost, Counted
  <2> QED BY <2>1, <2>2
<1> QED BY <1>1, InitIInv, PTL DEF Spec

\* The counts of the barrier stay between 0 and the number of threads, sem_ in
\* 0..1, and no element of counters leaves the range of an int: neither
\* the arrivals (mutex-nostarve.cpp:17, 24) nor the increments can overflow.
THEOREM TypeCorrect == Spec => []TypeOK
<1>1. IInv => TypeOK
  BY DEF IInv
<1> QED BY <1>1, Invariant, PTL

\* lock() and unlock() exclude (mutex-nostarve.cpp:11-18).
THEOREM MutualExclusion == Spec => []MutexOwned
<1>1. IInv => MutexOwned
  BY DEF IInv
<1> QED BY <1>1, Invariant, PTL

\* Whichever thread the semaphore prefers, the barrier keeps every worker
\* within one turn of every other (mutex-nostarve.cpp:15-18).
THEOREM NobodyAhead == Spec => []FairTurns
<1>1. IInv => FairTurns
  BY DEF IInv, TurnInv
<1> QED BY <1>1, Invariant, PTL

\* What push_back costs the workers that already count, for any number of them:
\* one increment at most, none of the last (mutex-nostarve.cpp:34, 56).
THEOREM CountsKept == Spec => []FinalCounts
<1>1. IInv => FinalCounts
  <2> SUFFICES ASSUME IInv, Joined PROVE
         /\ \A t \in Threads : turns[t] - counters[t] \in 0 .. 1
         /\ turns[NThreads] = counters[NThreads]
         /\ NLoops > 0 => nloops = 0
    BY DEF FinalCounts
  <2>1. NThreads \in Threads /\ Threads = 1 .. Len(counters) /\ Len(counters) = NThreads
    BY Born DEF Joined, IInv, StartInv, Threads
  <2>2. nloops = 0
    BY <2>1 DEF Joined, IInv, LoopsInv
  <2>3. Counting
    BY <2>2 DEF IInv, LoopsInv, Counting
  <2>4. \A t \in Threads : Lost(t) = turns[t] - counters[t]
    BY DEF Joined, Lost, Counted
  <2>5. \A t \in Threads : turns[t] \in Int /\ counters[t] \in Int
    <3>1. counters \in Seq(0 .. IntMod - 1) /\ turns \in [Threads -> 0 .. NLoops]
      BY DEF IInv, TypeOK
    <3>2. \A t \in Threads : counters[t] \in 0 .. IntMod - 1
      BY <2>1, <3>1, ElementIn
    <3> QED BY <3>1, <3>2
  <2>6. Lost(NThreads) = 0 /\ \A t \in Threads : Lost(t) \in 0 .. 1
    BY <2>1, <2>3 DEF IInv, CountInv
  <2> QED BY <2>1, <2>2, <2>4, <2>5, <2>6
<1> QED BY <1>1, Invariant, PTL

=============================================================================
