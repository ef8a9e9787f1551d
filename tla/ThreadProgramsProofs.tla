------------------------ MODULE ThreadProgramsProofs ------------------------
(***************************************************************************)
(* Proofs about the thread programs, for any number of threads,            *)
(* iterations, CPUs and elements.                                          *)
(*                                                                         *)
(* A section for each component gives the arguments it is proved for       *)
(* (...Constants), its inductive invariant (...Inv), that it holds in the  *)
(* initial state (...Init) and is kept by every step (...Next), and what   *)
(* follows from it (...Holds, ...Asserts); the list, the trees and the     *)
(* vectors also refine their atomic versions (...AbstractInit,             *)
(* ...AbstractNext).  The last section puts them together: a program has   *)
(* the variables to itself while it runs, so that a step of ThreadPrograms *)
(* is a step of the program or leaves its variables alone (OneRuns), and   *)
(* ProgramsInv is the invariant of the one that runs.                      *)
(*                                                                         *)
(* Sums over the CPUs and the threads are folds, that is recursive         *)
(* functions; Total counts the same by the cardinality of a set of units,  *)
(* for which there are theorems, and Sums shows that they agree.           *)
(***************************************************************************)
EXTENDS ThreadPrograms, FiniteSetTheorems, WellFoundedInduction, SequenceTheorems, TLAPS

\* Both counters of ThreadPrograms, p being the number of CPUs.
Counter(p) == INSTANCE SloppyCounter WITH
  NThreads <- CounterThreads, NLoops <- CounterLoops, NCpus <- p

APIPrograms ==
  {"main-deadlock", "main-deadlock-global", "main-race", "main-race-fix",
   "main-signal", "main-signal-cv", "fork-join"}

-----------------------------------------------------------------------------
(* Sums.                                                                   *)

\* One unit for each of the f[x] times of each x in S.
Units(S, f) == {u \in S \X Nat : u[2] \in 1 .. f[u[1]]}

Total(S, f) == Cardinality(Units(S, f))

LEMMA SmallestSubset ==
  ASSUME NEW S, IsFiniteSet(S), NEW T, T \subseteq SUBSET S, T # {}
  PROVE  \E s \in T : \A x \in s : s \ {x} \notin T
<1>1. SUBSET S = FiniteSubsetsOf(S)
  BY FS_FiniteSubsetsOfFinite
<1>2. IsWellFoundedOn(StrictSubsetOrdering(S), SUBSET S)
  BY <1>1, FS_StrictSubsetOrderingWellFounded
<1>3. PICK s \in T : \A r \in T : <<r, s>> \notin StrictSubsetOrdering(S)
  BY <1>2, WFMin
<1>4. ASSUME NEW x \in s PROVE <<s \ {x}, s>> \in StrictSubsetOrdering(S)
  BY DEF StrictSubsetOrdering
<1> QED BY <1>3, <1>4

LEMMA UnitsAdd ==
  ASSUME NEW S, NEW x \in S, NEW f, f[x] \in Nat, IsFiniteSet(Units(S \ {x}, f))
  PROVE  /\ IsFiniteSet(Units(S, f))
         /\ Total(S, f) = Total(S \ {x}, f) + f[x]
<1> DEFINE A == Units(S \ {x}, f)
           B == {x} \X (1 .. f[x])
<1>1. Units(S, f) = A \cup B /\ A \cap B = {}
  BY DEF Units
<1>2. IsFiniteSet(B) /\ Cardinality(B) = f[x]
  <2>1. IsFiniteSet({x}) /\ Cardinality({x}) = 1
    BY FS_Singleton
  <2>2. IsFiniteSet(1 .. f[x]) /\ Cardinality(1 .. f[x]) = f[x]
    BY FS_Interval
  <2>3. IsFiniteSet(B) /\ Cardinality(B) = Cardinality({x}) * Cardinality(1 .. f[x])
    BY <2>1, <2>2, FS_Product
  <2> QED BY <2>1, <2>2, <2>3
<1>3. Cardinality(A \cap B) = 0
  BY <1>1, FS_EmptySet
<1>4. IsFiniteSet(A) /\ Cardinality(A) \in Nat
  BY FS_CardinalityType
<1> HIDE DEF A, B
<1>5. /\ IsFiniteSet(A \cup B)
      /\ Cardinality(A \cup B) = Cardinality(A) + Cardinality(B) - Cardinality(A \cap B)
  BY <1>2, <1>4, FS_Union
<1>6. Cardinality(A \cup B) = Cardinality(A) + f[x]
  BY <1>2, <1>3, <1>4, <1>5
<1> QED BY <1>1, <1>5, <1>6 DEF A, Total

LEMMA UnitsFinite ==
  ASSUME NEW S, IsFiniteSet(S), NEW f, \A x \in S : f[x] \in Nat
  PROVE  IsFiniteSet(Units(S, f)) /\ Total(S, f) \in Nat
<1> DEFINE T == {s \in SUBSET S : ~IsFiniteSet(Units(s, f))}
<1>4. T = {}
  <2> SUFFICES ASSUME T # {} PROVE FALSE
    OBVIOUS
  <2>1. PICK s \in T : \A x \in s : s \ {x} \notin T
    BY SmallestSubset, T \subseteq SUBSET S
  <2>2. CASE s = {}
    <3>1. Units(s, f) = {}
      BY <2>2 DEF Units
    <3> QED BY <3>1, FS_EmptySet
  <2>3. ASSUME NEW x \in s PROVE FALSE
    <3>1. IsFiniteSet(Units(s \ {x}, f)) /\ f[x] \in Nat
      BY <2>1
    <3> QED BY <3>1, UnitsAdd
  <2> QED BY <2>2, <2>3
<1>5. IsFiniteSet(Units(S, f))
  BY <1>4
<1> QED BY <1>5, FS_CardinalityType DEF Total

\* Two functions that differ at one place.
LEMMA TotalChange ==
  ASSUME NEW S, IsFiniteSet(S), NEW f, NEW g, NEW x \in S,
         \A y \in S : f[y] \in Nat /\ g[y] \in Nat,
         \A y \in S : y # x => f[y] = g[y]
  PROVE  Total(S, g) + f[x] = Total(S, f) + g[x]
<1>1. Units(S \ {x}, f) = Units(S \ {x}, g)
  <2>1. \A u \in (S \ {x}) \X Nat : f[u[1]] = g[u[1]]
    OBVIOUS
  <2> QED BY <2>1 DEF Units
<1>2. IsFiniteSet(S \ {x})
  BY FS_Subset
<1>3. /\ IsFiniteSet(Units(S \ {x}, f)) /\ Total(S \ {x}, f) \in Nat
      /\ f[x] \in Nat /\ g[x] \in Nat
  BY <1>2, UnitsFinite
<1>4. Total(S, f) = Total(S \ {x}, f) + f[x]
  BY <1>3, UnitsAdd
<1>5. Total(S, g) = Total(S \ {x}, g) + g[x]
  BY <1>1, <1>3, UnitsAdd
<1>6. Total(S \ {x}, f) = Total(S \ {x}, g)
  BY <1>1 DEF Total
<1> QED BY <1>3, <1>4, <1>5, <1>6

LEMMA TotalSame ==
  ASSUME NEW S, NEW f, NEW g, \A y \in S : f[y] = g[y]
  PROVE  Total(S, g) = Total(S, f)
<1>1. \A u \in S \X Nat : f[u[1]] = g[u[1]]
  OBVIOUS
<1> QED BY <1>1 DEF Total, Units

\* A part is at most the total.
LEMMA TotalPart ==
  ASSUME NEW S, IsFiniteSet(S), NEW f, NEW x \in S, \A y \in S : f[y] \in Nat
  PROVE  f[x] <= Total(S, f)
<1>1. IsFiniteSet(S \ {x})
  BY FS_Subset
<1>2. IsFiniteSet(Units(S \ {x}, f)) /\ Total(S \ {x}, f) \in Nat
  BY <1>1, UnitsFinite
<1>3. Total(S, f) = Total(S \ {x}, f) + f[x]
  BY <1>2, UnitsAdd
<1> QED BY <1>2, <1>3

LEMMA TotalBound ==
  ASSUME NEW S, IsFiniteSet(S), NEW f, NEW m \in Nat, \A y \in S : f[y] \in 0..m
  PROVE  /\ Total(S, f) <= Cardinality(S) * m
         /\ (\A y \in S : f[y] = m) => Total(S, f) = Cardinality(S) * m
<1>1. IsFiniteSet(S \X (1..m)) /\ Cardinality(S \X (1..m)) = Cardinality(S) * m
  <2>1. IsFiniteSet(1..m) /\ Cardinality(1..m) = m
    <3>1. CASE m = 0
      <4>1. 1..m = {}
        BY <3>1
      <4> QED BY <3>1, <4>1, FS_EmptySet
    <3>2. CASE m # 0
      BY <3>2, FS_Interval
    <3> QED BY <3>1, <3>2
  <2> QED BY <2>1, FS_Product
<1>2. Units(S, f) \subseteq S \X (1..m)
  BY DEF Units
<1>3. Total(S, f) <= Cardinality(S) * m
  BY <1>1, <1>2, FS_Subset DEF Total
<1>4. ASSUME \A y \in S : f[y] = m PROVE Total(S, f) = Cardinality(S) * m
  <2>1. Units(S, f) = S \X (1..m)
    BY <1>4 DEF Units
  <2> QED BY <1>1, <2>1 DEF Total
<1> QED BY <1>3, <1>4

\* The fold of the community module has that total.
IsFold(S, f, h) ==
  h = [s \in SUBSET S |->
         IF s = {} THEN 0
         ELSE f[CHOOSE x \in s : TRUE] + h[s \ {CHOOSE x \in s : TRUE}]]

LEMMA FoldIsTotal ==
  ASSUME NEW S, IsFiniteSet(S), NEW f, \A x \in S : f[x] \in Nat
  PROVE  /\ \E h : IsFold(S, f, h)
         /\ \A h : IsFold(S, f, h) => h[S] = Total(S, f)
<1> DEFINE Pick(s) == CHOOSE x \in s : TRUE
           count == [s \in SUBSET S |-> Total(s, f)]
<1>1. ASSUME NEW s \in SUBSET S, s # {}
      PROVE  count[s] = f[Pick(s)] + count[s \ {Pick(s)}]
  <2>1. Pick(s) \in s
    BY <1>1
  <2> DEFINE t == Pick(s)
             r == s \ {t}
  <2>2. f[t] \in Nat /\ r \in SUBSET S
    BY <2>1
  <2> HIDE DEF t
  <2>3. IsFiniteSet(r) /\ \A u \in r : f[u] \in Nat
    BY <2>2, FS_Subset
  <2>4. IsFiniteSet(Units(r, f)) /\ Total(r, f) \in Nat
    BY <2>3, UnitsFinite
  <2>5. Total(s, f) = Total(r, f) + f[t]
    BY <2>1, <2>2, <2>4, UnitsAdd DEF t
  <2> QED BY <2>1, <2>2, <2>4, <2>5 DEF t
<1>2. count[{}] = 0
  <2>1. Units({}, f) = {}
    BY DEF Units
  <2> QED BY <2>1, FS_EmptySet DEF Total
<1>3. IsFold(S, f, count)
  <2>1. ASSUME NEW s \in SUBSET S
        PROVE  count[s] = IF s = {} THEN 0 ELSE f[Pick(s)] + count[s \ {Pick(s)}]
    BY <1>1, <1>2
  <2> HIDE DEF Pick
  <2>2. count = [s \in SUBSET S |->
                   IF s = {} THEN 0 ELSE f[Pick(s)] + count[s \ {Pick(s)}]]
    BY <2>1
  <2> HIDE DEF count
  <2> QED BY <2>2 DEF IsFold, Pick
<1>4. ASSUME NEW h, IsFold(S, f, h) PROVE h[S] = Total(S, f)
  <2> DEFINE T == {s \in SUBSET S : h[s] # count[s]}
  <2>1. T = {}
    <3> SUFFICES ASSUME T # {} PROVE FALSE
      OBVIOUS
    <3>1. PICK s \in T : \A x \in s : s \ {x} \notin T
      BY SmallestSubset, T \subseteq SUBSET S
    <3>2. h[s] = IF s = {} THEN 0 ELSE f[Pick(s)] + h[s \ {Pick(s)}]
      <4>1. \A r \in SUBSET S : h[r] = IF r = {} THEN 0 ELSE f[Pick(r)] + h[r \ {Pick(r)}]
        BY <1>4 DEF IsFold
      <4> QED BY <4>1
    <3>3. s # {} => Pick(s) \in s /\ s \ {Pick(s)} \in SUBSET S
      OBVIOUS
    <3> HIDE DEF Pick, count
    <3>4. s # {} => h[s \ {Pick(s)}] = count[s \ {Pick(s)}]
      BY <3>1, <3>3
    <3> QED BY <1>1, <1>2, <3>2, <3>4
  <2> QED BY <2>1
<1> QED BY <1>3, <1>4

-----------------------------------------------------------------------------
(* The sloppy counter.                                                     *)

\* The arguments of counter_sloppy.cpp.
CounterConstants(p) ==
  /\ CounterThreads \in Nat /\ CounterLoops \in Nat /\ p \in Nat /\ Threshold \in Nat \ {0}
  /\ CounterThreads # 0 => p # 0

-----------------------------------------------------------------------------
(* The invariant.                                                          *)

LocalPCs == {"load", "store", "test", "update", "unlock"}
UpdatePCs == {"add", "reset", "unlockGlobal"}

CounterTypes(p) ==
  /\ pc \in [Counter(p)!Workers -> {"loop", "load", "store", "test", "update", "add",
                                    "reset", "unlockGlobal", "unlock", "done"}]
  /\ loops \in [Counter(p)!Workers -> 0..CounterLoops]
  /\ loaded \in [Counter(p)!Workers -> Nat]
  /\ countLocal \in [Counter(p)!Cpus -> Nat]
  /\ mutexLocal \in [Counter(p)!Cpus -> Counter(p)!Workers \cup {Counter(p)!None}]
  /\ countGlobal \in Nat
  /\ mutexGlobal \in Counter(p)!Workers \cup {Counter(p)!None}
  /\ got \in Nat \cup {-1}

\* Who has which mutex.
HasLocal(p, t) == pc[t] \in LocalPCs \/ (pc[t] \in UpdatePCs /\ loops[t] < CounterLoops)

CounterMutexes(p) ==
  \A t \in Counter(p)!Workers :
    /\ HasLocal(p, t) => mutexLocal[Counter(p)!Cpu(t)] = t
    /\ pc[t] \in LocalPCs => loops[t] < CounterLoops
    /\ pc[t] \in UpdatePCs => mutexGlobal = t
    /\ pc[t] = "done" => loops[t] = CounterLoops

\* No update() without the local mutex can meet another thread.
Quiet(p) == \A t \in Counter(p)!Workers : Counter(p)!InLastUpdate(t) => ~Counter(p)!SharesCpu(t)

CounterParts(p) == [c \in Counter(p)!Cpus |-> countLocal[c] - Counter(p)!Doubled(c)]
CounterDone(p) == [t \in Counter(p)!Workers |-> Counter(p)!Stored(t)]

\* What was loaded is still there, and what was added to the global counter is
\* in it.
CounterCounting(p) ==
  /\ \A t \in Counter(p)!Workers : pc[t] = "store" => loaded[t] = countLocal[Counter(p)!Cpu(t)]
  /\ countGlobal + Total(Counter(p)!Cpus, CounterParts(p)) =
       Total(Counter(p)!Workers, CounterDone(p))

CounterInv(p) == CounterTypes(p) /\ CounterMutexes(p) /\ (Quiet(p) => CounterCounting(p))
  /\ Counter(p)!SloppyByThreshold

LEMMA PartTypes ==
  ASSUME NEW p, CounterConstants(p), CounterTypes(p)
  PROVE  /\ IsFiniteSet(Counter(p)!Workers) /\ IsFiniteSet(Counter(p)!Cpus)
         /\ Cardinality(Counter(p)!Workers) = CounterThreads
         /\ \A t \in Counter(p)!Workers :
              Counter(p)!Cpu(t) \in Counter(p)!Cpus /\ t \in Nat /\ t # Counter(p)!None
         /\ \A c \in Counter(p)!Cpus :
              CounterParts(p)[c] \in Nat /\ CounterParts(p)[c] <= countLocal[c]
         /\ \A t \in Counter(p)!Workers :
              CounterDone(p)[t] \in 0..(CounterLoops + 1) /\ CounterDone(p)[t] \in Nat
<1>1. IsFiniteSet(Counter(p)!Workers) /\ IsFiniteSet(Counter(p)!Cpus)
        /\ Cardinality(Counter(p)!Workers) = CounterThreads
  <2>1. IsFiniteSet(Counter(p)!Cpus)
    <3>1. p - 1 \in Int
      BY DEF CounterConstants
    <3> QED BY <3>1, FS_Interval DEF Counter!Cpus
  <2>2. CASE CounterThreads = 0
    <3>1. Counter(p)!Workers = {}
      BY <2>2 DEF Counter!Workers
    <3> QED BY <2>1, <2>2, <3>1, FS_EmptySet
  <2>3. CASE CounterThreads # 0
    <3>1. CounterThreads - 1 \in Int /\ 0 <= CounterThreads - 1
      BY <2>3 DEF CounterConstants
    <3> QED BY <2>1, <3>1, FS_Interval DEF Counter!Workers, CounterConstants
  <2> QED BY <2>2, <2>3
<1>2. ASSUME NEW t \in Counter(p)!Workers
      PROVE  Counter(p)!Cpu(t) \in Counter(p)!Cpus /\ t \in Nat /\ t # Counter(p)!None
  <2>1. t \in Nat /\ CounterThreads # 0
    BY DEF Counter!Workers, CounterConstants
  <2>2. p \in Nat /\ p > 0
    BY <2>1 DEF CounterConstants
  <2>3. t % p \in 0..(p - 1)
    BY <2>1, <2>2
  <2> QED BY <2>1, <2>3 DEF Counter!Cpu, Counter!Cpus, Counter!None
<1>3. ASSUME NEW c \in Counter(p)!Cpus
      PROVE  CounterParts(p)[c] \in Nat /\ CounterParts(p)[c] <= countLocal[c]
  <2>1. Counter(p)!Doubled(c) \in {0, countLocal[c]} /\ countLocal[c] \in Nat
    BY DEF Counter!Doubled, CounterTypes
  <2> QED BY <2>1 DEF CounterParts
<1>4. ASSUME NEW t \in Counter(p)!Workers
      PROVE  CounterDone(p)[t] \in 0..(CounterLoops + 1) /\ CounterDone(p)[t] \in Nat
  BY DEF CounterDone, Counter!Stored, CounterTypes, CounterConstants
<1> QED BY <1>1, <1>2, <1>3, <1>4

SumsTyped(p) == (\A c \in Counter(p)!Cpus : CounterParts(p)[c] \in Nat)
  /\ (\A t \in Counter(p)!Workers : CounterDone(p)[t] \in Nat)

LEMMA SumTypes ==
  ASSUME NEW p
  PROVE  CounterConstants(p) => (CounterTypes(p) => SumsTyped(p))
BY PartTypes DEF SumsTyped

\* The sums of the properties.
LEMMA DoneTotal ==
  ASSUME NEW p, CounterConstants(p), CounterTypes(p)
  PROVE  Counter(p)!MapThenSumSet(LAMBDA t : Counter(p)!Stored(t), Counter(p)!Workers) =
           Total(Counter(p)!Workers, CounterDone(p))
<1> DEFINE Pick(s) == CHOOSE x \in s : TRUE
           IsSum(h) == h = [s \in SUBSET Counter(p)!Workers |->
                              IF s = {} THEN 0 ELSE Counter(p)!Stored(Pick(s)) + h[s \ {Pick(s)}]]
           sum == CHOOSE h : IsSum(h)
<1>1. Counter(p)!MapThenSumSet(LAMBDA t : Counter(p)!Stored(t), Counter(p)!Workers) =
        sum[Counter(p)!Workers]
  BY Zenon DEF Counter!MapThenSumSet, Counter!MapThenFoldSet
<1>2. ASSUME NEW h PROVE IsSum(h) <=> IsFold(Counter(p)!Workers, CounterDone(p), h)
  <2>1. \A s \in SUBSET Counter(p)!Workers : s # {} => Pick(s) \in Counter(p)!Workers
    OBVIOUS
  <2> HIDE DEF Pick
  <2>2. \A s \in SUBSET Counter(p)!Workers : s # {} =>
          Counter(p)!Stored(Pick(s)) = CounterDone(p)[Pick(s)]
    BY <2>1 DEF CounterDone
  <2> DEFINE a(s) == IF s = {} THEN 0 ELSE Counter(p)!Stored(Pick(s)) + h[s \ {Pick(s)}]
             b(s) == IF s = {} THEN 0 ELSE CounterDone(p)[Pick(s)] + h[s \ {Pick(s)}]
  <2>3. \A s \in SUBSET Counter(p)!Workers : a(s) = b(s)
    BY <2>2
  <2> HIDE DEF a, b
  <2>4. [s \in SUBSET Counter(p)!Workers |-> a(s)] = [s \in SUBSET Counter(p)!Workers |-> b(s)]
    BY <2>3
  <2>5. IsFold(Counter(p)!Workers, CounterDone(p), h) <=> h = [s \in SUBSET Counter(p)!Workers |-> b(s)]
    BY Zenon DEF IsFold, b, Pick
  <2> QED BY <2>4, <2>5 DEF a
<1> HIDE DEF IsSum
<1>3. \A x \in Counter(p)!Workers : CounterDone(p)[x] \in Nat
  BY PartTypes
<1>4. /\ \E h : IsFold(Counter(p)!Workers, CounterDone(p), h)
      /\ \A h : IsFold(Counter(p)!Workers, CounterDone(p), h) =>
           h[Counter(p)!Workers] = Total(Counter(p)!Workers, CounterDone(p))
  <2>1. IsFiniteSet(Counter(p)!Workers)
    BY PartTypes
  <2> QED BY <1>3, <2>1, FoldIsTotal
<1>5. IsSum(sum)
  BY <1>2, <1>4
<1> HIDE DEF sum
<1> QED BY <1>1, <1>2, <1>4, <1>5

LEMMA PartsTotal ==
  ASSUME NEW p, CounterConstants(p), CounterTypes(p)
  PROVE  Counter(p)!MapThenSumSet(LAMBDA c :
           countLocal[c] - Counter(p)!Doubled(c), Counter(p)!Cpus) =
             Total(Counter(p)!Cpus, CounterParts(p))
<1> DEFINE Pick(s) == CHOOSE x \in s : TRUE
           IsSum(h) == h = [s \in SUBSET Counter(p)!Cpus |->
                              IF s = {} THEN 0
                              ELSE (countLocal[Pick(s)] - Counter(p)!Doubled(Pick(s))) + h[s \ {Pick(s)}]]
           sum == CHOOSE h : IsSum(h)
<1>1. Counter(p)!MapThenSumSet(LAMBDA c :
        countLocal[c] - Counter(p)!Doubled(c), Counter(p)!Cpus) = sum[Counter(p)!Cpus]
  BY Zenon DEF Counter!MapThenSumSet, Counter!MapThenFoldSet
<1>2. ASSUME NEW h PROVE IsSum(h) <=> IsFold(Counter(p)!Cpus, CounterParts(p), h)
  <2>1. \A s \in SUBSET Counter(p)!Cpus : s # {} => Pick(s) \in Counter(p)!Cpus
    OBVIOUS
  <2> HIDE DEF Pick
  <2>2. \A s \in SUBSET Counter(p)!Cpus :
          s # {} => countLocal[Pick(s)] - Counter(p)!Doubled(Pick(s)) = CounterParts(p)[Pick(s)]
    BY <2>1 DEF CounterParts
  <2> DEFINE a(s) == IF s = {} THEN 0
                     ELSE (countLocal[Pick(s)] - Counter(p)!Doubled(Pick(s))) + h[s \ {Pick(s)}]
             b(s) == IF s = {} THEN 0 ELSE CounterParts(p)[Pick(s)] + h[s \ {Pick(s)}]
  <2>3. \A s \in SUBSET Counter(p)!Cpus : a(s) = b(s)
    BY <2>2
  <2> HIDE DEF a, b
  <2>4. [s \in SUBSET Counter(p)!Cpus |-> a(s)] = [s \in SUBSET Counter(p)!Cpus |-> b(s)]
    BY <2>3
  <2>5. IsFold(Counter(p)!Cpus, CounterParts(p), h) <=> h = [s \in SUBSET Counter(p)!Cpus |-> b(s)]
    BY Zenon DEF IsFold, b, Pick
  <2> QED BY <2>4, <2>5 DEF a
<1> HIDE DEF IsSum
<1>3. \A x \in Counter(p)!Cpus : CounterParts(p)[x] \in Nat
  BY PartTypes
<1>4. /\ \E h : IsFold(Counter(p)!Cpus, CounterParts(p), h)
      /\ \A h : IsFold(Counter(p)!Cpus, CounterParts(p), h) =>
           h[Counter(p)!Cpus] = Total(Counter(p)!Cpus, CounterParts(p))
  <2>1. IsFiniteSet(Counter(p)!Cpus)
    BY PartTypes
  <2> QED BY <1>3, <2>1, FoldIsTotal
<1>5. IsSum(sum)
  BY <1>2, <1>4
<1> HIDE DEF sum
<1> QED BY <1>1, <1>2, <1>4, <1>5

LEMMA CounterInit == ASSUME NEW p, CounterConstants(p), Counter(p)!Init PROVE CounterInv(p)
<1>1. CounterTypes(p) /\ CounterMutexes(p)
  BY DEF Counter!Init, CounterTypes, CounterMutexes, CounterConstants, HasLocal, LocalPCs, UpdatePCs
<1>2. Counter(p)!SloppyByThreshold
  BY DEF Counter!Init, Counter!SloppyByThreshold, CounterConstants
<1>3. CounterCounting(p)
  <2>1. \A t \in Counter(p)!Workers : CounterDone(p)[t] = 0
    BY DEF Counter!Init, CounterDone, Counter!Stored
  <2>2. \A c \in Counter(p)!Cpus : CounterParts(p)[c] = 0
    BY DEF Counter!Init, CounterParts, Counter!Doubled
  <2>3. IsFiniteSet(Counter(p)!Workers) /\ IsFiniteSet(Counter(p)!Cpus) /\ 0 \in Nat
    BY <1>1, PartTypes
  <2>4. Cardinality(Counter(p)!Workers) \in Nat /\ Cardinality(Counter(p)!Cpus) \in Nat
    BY <2>3, FS_CardinalityType
  <2>7. /\ \A t \in Counter(p)!Workers : CounterDone(p)[t] \in 0..0
        /\ \A c \in Counter(p)!Cpus : CounterParts(p)[c] \in 0..0
    BY <2>1, <2>2
  <2>5. Total(Counter(p)!Workers, CounterDone(p)) = Cardinality(Counter(p)!Workers) * 0
    BY ONLY <2>1, <2>3, <2>7, TotalBound
  <2>6. Total(Counter(p)!Cpus, CounterParts(p)) = Cardinality(Counter(p)!Cpus) * 0
    BY ONLY <2>2, <2>3, <2>7, TotalBound
  <2>8. countGlobal = 0 /\ \A t \in Counter(p)!Workers : pc[t] # "store"
    BY DEF Counter!Init
  <2> QED BY <2>4, <2>5, <2>6, <2>8 DEF CounterCounting
<1> QED BY <1>1, <1>2, <1>3 DEF CounterInv

LEMMA CounterTypesNext ==
  ASSUME NEW p, CounterConstants(p), CounterTypes(p), CounterMutexes(p),
         [Counter(p)!Next]_(Counter(p)!vars)
  PROVE  CounterTypes(p)' /\ CounterMutexes(p)'
<1>1. ASSUME NEW t \in Counter(p)!Workers, Counter(p)!Worker(t)
      PROVE  CounterTypes(p)' /\ CounterMutexes(p)'
  <2>0. /\ \A u \in Counter(p)!Workers :
             Counter(p)!Cpu(u) \in Counter(p)!Cpus /\ u # Counter(p)!None
        /\ \A u \in Counter(p)!Workers : loops[u] \in Nat /\ CounterLoops \in Nat
    BY PartTypes DEF CounterTypes, CounterConstants
  <2> USE DEF CounterTypes, CounterMutexes, Counter!Goto, HasLocal, LocalPCs, UpdatePCs
  <2>1. CASE Counter(p)!LockLocal(t)
    BY <2>0, <2>1 DEF Counter!LockLocal
  <2>2. CASE Counter(p)!LoadLocal(t)
    BY <2>0, <2>2 DEF Counter!LoadLocal
  <2>3. CASE Counter(p)!StoreLocal(t)
    BY <2>0, <2>3 DEF Counter!StoreLocal
  <2>4. CASE Counter(p)!TestThreshold(t)
    BY <2>0, <2>4 DEF Counter!TestThreshold
  <2>5. CASE Counter(p)!UnlockLocal(t)
    BY <2>0, <2>5 DEF Counter!UnlockLocal
  <2>6. CASE Counter(p)!LockGlobal(t)
    BY <2>0, <2>6 DEF Counter!LockGlobal
  <2>7. CASE Counter(p)!AddLocal(t)
    BY <2>0, <2>7 DEF Counter!AddLocal
  <2>8. CASE Counter(p)!ResetLocal(t)
    BY <2>0, <2>8 DEF Counter!ResetLocal
  <2>9. CASE Counter(p)!UnlockGlobal(t)
    BY <2>0, <2>9 DEF Counter!UnlockGlobal
  <2> QED BY <1>1, <2>1, <2>2, <2>3, <2>4, <2>5, <2>6, <2>7, <2>8, <2>9 DEF Counter!Worker
<1>2. CASE Counter(p)!Get
  BY <1>2 DEF Counter!Get, CounterTypes, CounterMutexes, HasLocal
<1>3. CASE UNCHANGED Counter(p)!vars
  BY <1>3 DEF Counter!vars, CounterTypes, CounterMutexes, HasLocal
<1> QED BY <1>1, <1>2, <1>3 DEF Counter!Next, Counter!Ended

LEMMA SloppyNext ==
  ASSUME NEW p, CounterConstants(p), CounterTypes(p), Counter(p)!SloppyByThreshold,
         [Counter(p)!Next]_(Counter(p)!vars)
  PROVE  Counter(p)!SloppyByThreshold'
<1> DEFINE Busy(t) == pc[t] \in {"test", "update", "add", "reset"}
<1>1. ASSUME NEW t \in Counter(p)!Workers, Counter(p)!Worker(t), NEW c \in Counter(p)!Cpus
      PROVE  \/ countLocal'[c] < Threshold
             \/ \E u \in Counter(p)!Workers : Counter(p)!Cpu(u) = c /\ Busy(u)'
  <2>0. Counter(p)!Cpu(t) \in Counter(p)!Cpus /\ Threshold \in Nat \ {0}
          /\ \A d \in Counter(p)!Cpus : countLocal[d] \in Nat
    BY PartTypes DEF CounterTypes, CounterConstants
  <2>1. \/ countLocal[c] < Threshold
        \/ \E u \in Counter(p)!Workers : Counter(p)!Cpu(u) = c /\ Busy(u)
    BY DEF Counter!SloppyByThreshold
  <2>2. \A u \in Counter(p)!Workers : u # t => pc'[u] = pc[u]
    BY <1>1
       DEF Counter!Worker, Counter!LockLocal, Counter!LoadLocal, Counter!StoreLocal,
           Counter!TestThreshold, Counter!UnlockLocal, Counter!LockGlobal, 
                Counter!AddLocal, Counter!ResetLocal, Counter!UnlockGlobal, Counter!Goto,
                CounterTypes
  <2>3. CASE Counter(p)!StoreLocal(t)
    <3>1. Busy(t)' /\ \A d \in Counter(p)!Cpus : d # Counter(p)!Cpu(t) =>
            countLocal'[d] = countLocal[d]
      BY <2>0, <2>3 DEF Counter!StoreLocal, Counter!Goto, CounterTypes
    <3> QED BY <2>1, <2>2, <3>1
  <2>4. CASE Counter(p)!ResetLocal(t)
    <3>1. countLocal' = [countLocal EXCEPT ![Counter(p)!Cpu(t)] = 0]
      BY <2>4 DEF Counter!ResetLocal
    <3>2. countLocal'[Counter(p)!Cpu(t)] = 0 /\ \A d \in Counter(p)!Cpus :
            d # Counter(p)!Cpu(t) => countLocal'[d] = countLocal[d]
      BY <2>0, <3>1 DEF CounterTypes
    <3> QED BY <2>0, <2>1, <2>2, <3>2
  <2>5. CASE Counter(p)!TestThreshold(t)
    <3>1. countLocal' = countLocal /\ (Busy(t)' \/ ~Counter(p)!Full(countLocal[Counter(p)!Cpu(t)]))
      BY <2>5 DEF Counter!TestThreshold, Counter!Goto, CounterTypes
    <3>2. Busy(t)' \/ countLocal[Counter(p)!Cpu(t)] < Threshold
      BY <2>0, <3>1 DEF Counter!Full
    <3> QED BY <2>1, <2>2, <3>1, <3>2
  <2>6. CASE ~Counter(p)!StoreLocal(t) /\ ~Counter(p)!ResetLocal(t) /\ ~Counter(p)!TestThreshold(t)
    <3>1. countLocal' = countLocal /\ (Busy(t) => Busy(t)')
      BY <1>1, <2>6
         DEF Counter!Worker, Counter!LockLocal, Counter!LoadLocal, Counter!UnlockLocal,
             Counter!LockGlobal, 
                Counter!AddLocal, Counter!UnlockGlobal, Counter!Goto, CounterTypes
    <3> QED BY <2>1, <2>2, <3>1
  <2> QED BY <2>3, <2>4, <2>5, <2>6
<1>2. CASE Counter(p)!Get \/ UNCHANGED Counter(p)!vars
  BY <1>2 DEF Counter!Get, Counter!vars, Counter!SloppyByThreshold
<1>3. CASE \E t \in Counter(p)!Workers : Counter(p)!Worker(t)
  BY <1>1, <1>3 DEF Counter!SloppyByThreshold
<1> QED BY <1>2, <1>3 DEF Counter!Next, Counter!Ended

\* While nobody meets a last update(), a thread past its loop is alone on its CPU.
LEMMA AloneOnCpu ==
  ASSUME NEW p, CounterConstants(p), CounterTypes(p), CounterMutexes(p), Quiet(p),
         NEW t \in Counter(p)!Workers, NEW u \in Counter(p)!Workers, u # t, Counter(p)!Cpu(u) = Counter(p)!Cpu(t), pc[t] # "loop"
  PROVE  pc[u] = "loop"
<1>1. \A w \in Counter(p)!Workers : pc[w] # "loop" => HasLocal(p, w) \/ Counter(p)!InLastUpdate(w)
  BY DEF CounterTypes, CounterMutexes, HasLocal, Counter!InLastUpdate, LocalPCs, UpdatePCs,
         CounterConstants
<1>2. ~Counter(p)!InLastUpdate(t) /\ ~Counter(p)!InLastUpdate(u)
  BY DEF Quiet, Counter!SharesCpu
<1> QED BY <1>1, <1>2 DEF CounterMutexes

LEMMA QuietBefore ==
  ASSUME NEW p, CounterConstants(p), CounterTypes(p), CounterMutexes(p),
         [Counter(p)!Next]_(Counter(p)!vars), Quiet(p)'
  PROVE  Quiet(p)
<1>1. ASSUME NEW u \in Counter(p)!Workers, Counter(p)!InLastUpdate(u)
      PROVE  Counter(p)!InLastUpdate(u)'
  <2>1. loops[u] = CounterLoops /\ pc[u] \in UpdatePCs \cup {"done"} /\ ~(loops[u] < CounterLoops)
    BY <1>1
       DEF Counter!InLastUpdate, CounterTypes, CounterMutexes, LocalPCs, UpdatePCs,
           CounterConstants
  <2>2. ASSUME NEW t \in Counter(p)!Workers, Counter(p)!Worker(t) PROVE Counter(p)!InLastUpdate(u)'
    <3>1. CASE u = t
      BY <2>1, <2>2, <3>1
         DEF Counter!Worker, Counter!LockLocal, Counter!LoadLocal, Counter!StoreLocal,
             Counter!TestThreshold, 
           Counter!UnlockLocal, Counter!LockGlobal, Counter!AddLocal, Counter!ResetLocal,
           Counter!UnlockGlobal, Counter!Goto, CounterTypes,
           Counter!InLastUpdate, UpdatePCs
    <3>2. CASE u # t
      <4>1. pc'[u] = pc[u] /\ loops'[u] = loops[u]
        BY <2>2, <3>2
           DEF Counter!Worker, Counter!LockLocal, Counter!LoadLocal, Counter!StoreLocal,
               Counter!TestThreshold, 
           Counter!UnlockLocal, Counter!LockGlobal, Counter!AddLocal, Counter!ResetLocal,
           Counter!UnlockGlobal, Counter!Goto, CounterTypes
      <4> QED BY <1>1, <4>1 DEF Counter!InLastUpdate
    <3> QED BY <3>1, <3>2
  <2>3. CASE Counter(p)!Get \/ UNCHANGED Counter(p)!vars
    BY <1>1, <2>3 DEF Counter!Get, Counter!vars, Counter!InLastUpdate
  <2> QED BY <2>2, <2>3 DEF Counter!Next, Counter!Ended
<1> QED BY <1>1 DEF Quiet, Counter!SharesCpu

LEMMA CounterCountingNext ==
  ASSUME NEW p, CounterConstants(p), CounterTypes(p), CounterTypes(p)', CounterMutexes(p),
         Quiet(p), CounterCounting(p), [Counter(p)!Next]_(Counter(p)!vars)
  PROVE  CounterCounting(p)'
<1> DEFINE Resets(d) == \E u \in Counter(p)!Workers : Counter(p)!Cpu(u) = d /\ pc[u] = "reset"
<1>0. /\ IsFiniteSet(Counter(p)!Workers) /\ IsFiniteSet(Counter(p)!Cpus)
      /\ \A c \in Counter(p)!Cpus : CounterParts(p)[c] \in Nat
      /\ \A u \in Counter(p)!Workers :
           CounterDone(p)[u] \in Nat /\ Counter(p)!Cpu(u) \in Counter(p)!Cpus
      /\ countGlobal \in Nat
  BY PartTypes DEF CounterTypes
<1>1. (\A c \in Counter(p)!Cpus : CounterParts(p)[c] \in Nat)'
        /\ (\A u \in Counter(p)!Workers : CounterDone(p)[u] \in Nat)'
  <2>1. SumsTyped(p)'
    BY SumTypes, PTL
  <2> QED BY <2>1 DEF SumsTyped
<1>2. Total(Counter(p)!Workers, CounterDone(p)) \in Nat
        /\ Total(Counter(p)!Cpus, CounterParts(p)) \in Nat
  BY <1>0, UnitsFinite
<1>3. ASSUME NEW t \in Counter(p)!Workers, Counter(p)!Worker(t) PROVE CounterCounting(p)'
  <2> DEFINE c == Counter(p)!Cpu(t)
  <2>0. /\ \A u \in Counter(p)!Workers : u # t => /\ pc'[u] = pc[u] /\ loops'[u] = loops[u]
                                                  /\ loaded'[u] = loaded[u]
        /\ c \in Counter(p)!Cpus /\ \A d \in Counter(p)!Cpus : countLocal[d] \in Nat
    BY <1>0, <1>3
       DEF Counter!Worker, Counter!LockLocal, Counter!LoadLocal, Counter!StoreLocal,
           Counter!TestThreshold, 
           Counter!UnlockLocal, Counter!LockGlobal, Counter!AddLocal, Counter!ResetLocal,
           Counter!UnlockGlobal, Counter!Goto, CounterTypes
  <2>1. \A u \in Counter(p)!Workers : u # t => CounterDone(p)'[u] = CounterDone(p)[u]
    BY <2>0 DEF CounterDone, Counter!Stored
  <2>2. \A d \in Counter(p)!Cpus : d # c => (Resets(d)' <=> Resets(d))
    BY <2>0
  <2>3. /\ \A d \in Counter(p)!Cpus : CounterParts(p)[d] = countLocal[d] - IF Resets(d) THEN countLocal[d] ELSE 0
        /\ \A d \in Counter(p)!Cpus : CounterParts(p)'[d] = countLocal'[d] - IF Resets(d)' THEN countLocal'[d] ELSE 0
    BY DEF CounterParts, Counter!Doubled
  <2>4. ASSUME pc[t] # "loop", NEW u \in Counter(p)!Workers, u # t, pc[u] # "loop"
        PROVE  Counter(p)!Cpu(u) # c
    BY <2>4, AloneOnCpu
  <2> HIDE DEF Resets
  <2>5. CASE Counter(p)!StoreLocal(t)
    <3>1. /\ pc[t] = "store" /\ pc'[t] = "test" /\ loops'[t] = loops[t]
          /\ countGlobal' = countGlobal
          /\ countLocal' = [countLocal EXCEPT ![c] = loaded[t] + 1]
      BY <2>5 DEF Counter!StoreLocal, Counter!Goto, CounterTypes
    <3>2. countLocal'[c] = countLocal[c] + 1 /\ \A d \in Counter(p)!Cpus : d # c =>
            countLocal'[d] = countLocal[d]
      BY <2>0, <3>1 DEF CounterCounting, CounterTypes
    <3>3. ~Resets(c) /\ ~Resets(c)'
      BY <2>0, <2>4, <3>1 DEF Resets
    <3>4. CounterParts(p)'[c] = CounterParts(p)[c] + 1 /\ \A d \in Counter(p)!Cpus : d # c =>
            CounterParts(p)[d] = CounterParts(p)'[d]
      BY <2>0, <2>2, <2>3, <3>2, <3>3
    <3>5. CounterDone(p)'[t] = CounterDone(p)[t] + 1
      <4>1. loops[t] \in Nat /\ loops[t] < CounterLoops
        BY <3>1 DEF CounterTypes, CounterMutexes, LocalPCs, CounterConstants
      <4> QED BY <3>1, <4>1 DEF CounterDone, Counter!Stored
    <3>6. Total(Counter(p)!Cpus, CounterParts(p)') + CounterParts(p)[c] =
            Total(Counter(p)!Cpus, CounterParts(p)) + CounterParts(p)'[c]
      <4> DEFINE f == CounterParts(p)
                 g == CounterParts(p)'
      <4> HIDE DEF f, g
      <4>1. \A d \in Counter(p)!Cpus : f[d] \in Nat /\ g[d] \in Nat
        BY <1>0, <1>1 DEF f, g
      <4>2. \A d \in Counter(p)!Cpus : d # c => f[d] = g[d]
        BY <3>4 DEF f, g
      <4>3. Total(Counter(p)!Cpus, g) + f[c] = Total(Counter(p)!Cpus, f) + g[c]
        BY ONLY <1>0, <2>0, <4>1, <4>2, TotalChange
      <4> QED BY <4>3 DEF f, g
    <3>7. Total(Counter(p)!Workers, CounterDone(p)') + CounterDone(p)[t] =
            Total(Counter(p)!Workers, CounterDone(p)) + CounterDone(p)'[t]
      <4> DEFINE f == CounterDone(p)
                 g == CounterDone(p)'
      <4>1. \A d \in Counter(p)!Workers : f[d] \in Nat /\ g[d] \in Nat
        BY <1>0, <1>1
      <4>2. \A d \in Counter(p)!Workers : d # t => f[d] = g[d]
        BY <2>1
      <4> HIDE DEF f, g
      <4>3. Total(Counter(p)!Workers, g) + f[t] = Total(Counter(p)!Workers, f) + g[t]
        BY ONLY t \in Counter(p)!Workers, <1>0, <4>1, <4>2, TotalChange
      <4> QED BY <4>3 DEF f, g
    <3>8. Total(Counter(p)!Workers, CounterDone(p)') \in Nat
            /\ Total(Counter(p)!Cpus, CounterParts(p)') \in Nat
      BY <1>0, <1>1, UnitsFinite
    <3>9. countGlobal' + Total(Counter(p)!Cpus, CounterParts(p)') =
            Total(Counter(p)!Workers, CounterDone(p)')
      <4>1. Total(Counter(p)!Cpus, CounterParts(p)') = Total(Counter(p)!Cpus, CounterParts(p)) + 1
        BY <1>0, <1>2, <2>0, <3>4, <3>6, <3>8
      <4>2. Total(Counter(p)!Workers, CounterDone(p)') =
              Total(Counter(p)!Workers, CounterDone(p)) + 1
        BY <1>0, <1>2, <3>5, <3>7, <3>8
      <4> QED BY <1>0, <1>2, <3>1, <4>1, <4>2 DEF CounterCounting
    <3>10. \A u \in Counter(p)!Workers : pc'[u] = "store" =>
             loaded'[u] = countLocal'[Counter(p)!Cpu(u)]
      <4> SUFFICES ASSUME NEW u \in Counter(p)!Workers, pc'[u] = "store"
                   PROVE  loaded'[u] = countLocal'[Counter(p)!Cpu(u)]
        OBVIOUS
      <4>1. u # t /\ pc[u] = "store"
        BY <2>0, <3>1
      <4>2. Counter(p)!Cpu(u) # c /\ Counter(p)!Cpu(u) \in Counter(p)!Cpus
        BY <1>0, <2>4, <3>1, <4>1
      <4> QED BY <2>0, <3>2, <4>1, <4>2 DEF CounterCounting
    <3> QED BY <3>9, <3>10 DEF CounterCounting
  <2>6. CASE Counter(p)!AddLocal(t)
    <3>1. /\ pc[t] = "add" /\ pc'[t] = "reset" /\ UNCHANGED <<loops, loaded, countLocal>>
          /\ countGlobal' = countGlobal + countLocal[c]
      BY <2>6 DEF Counter!AddLocal, Counter!Goto, CounterTypes
    <3>2. ~Resets(c) /\ Resets(c)'
      <4>1. \A u \in Counter(p)!Workers : pc[u] # "reset"
        BY <3>1 DEF CounterMutexes, UpdatePCs
      <4> QED BY <3>1, <4>1 DEF Resets
    <3>3. /\ CounterParts(p)[c] = countLocal[c] /\ CounterParts(p)'[c] = 0
          /\ \A d \in Counter(p)!Cpus : d # c => CounterParts(p)[d] = CounterParts(p)'[d]
      BY <2>0, <2>2, <2>3, <3>1, <3>2
    <3>4. \A u \in Counter(p)!Workers : CounterDone(p)[u] = CounterDone(p)'[u]
      BY <2>1, <3>1 DEF CounterDone, Counter!Stored
    <3>5. Total(Counter(p)!Cpus, CounterParts(p)') + CounterParts(p)[c] =
            Total(Counter(p)!Cpus, CounterParts(p)) + CounterParts(p)'[c]
      <4> DEFINE f == CounterParts(p)
                 g == CounterParts(p)'
      <4>1. \A d \in Counter(p)!Cpus : f[d] \in Nat /\ g[d] \in Nat
        BY <1>0, <1>1
      <4>2. \A d \in Counter(p)!Cpus : d # c => f[d] = g[d]
        BY <3>3
      <4> HIDE DEF f, g
      <4>3. Total(Counter(p)!Cpus, g) + f[c] = Total(Counter(p)!Cpus, f) + g[c]
        BY ONLY <1>0, <2>0, <4>1, <4>2, TotalChange
      <4> QED BY <4>3 DEF f, g
    <3>6. Total(Counter(p)!Workers, CounterDone(p)') = Total(Counter(p)!Workers, CounterDone(p))
      BY <3>4, TotalSame
    <3>7. Total(Counter(p)!Cpus, CounterParts(p)') \in Nat
      BY <1>0, <1>1, UnitsFinite
    <3>8. countGlobal' + Total(Counter(p)!Cpus, CounterParts(p)') =
            Total(Counter(p)!Workers, CounterDone(p)')
      BY <1>0, <1>2, <2>0, <3>1, <3>3, <3>5, <3>6, <3>7 DEF CounterCounting
    <3> QED BY <2>0, <3>1, <3>8 DEF CounterCounting
  <2>7. CASE Counter(p)!ResetLocal(t)
    <3>1. /\ pc[t] = "reset" /\ pc'[t] = "unlockGlobal" /\ UNCHANGED <<loops, loaded, countGlobal>>
          /\ countLocal' = [countLocal EXCEPT ![c] = 0]
      BY <2>7 DEF Counter!ResetLocal, Counter!Goto, CounterTypes
    <3>2. countLocal'[c] = 0 /\ \A d \in Counter(p)!Cpus : d # c => countLocal'[d] = countLocal[d]
      BY <2>0, <3>1 DEF CounterTypes
    <3>3. Resets(c)
      BY <3>1 DEF Resets
    <3>4. \A d \in Counter(p)!Cpus : CounterParts(p)[d] = CounterParts(p)'[d]
      <4>1. CounterParts(p)[c] = 0 /\ CounterParts(p)'[c] = 0
        BY <2>0, <2>3, <3>2, <3>3
      <4> QED BY <2>2, <2>3, <3>2, <4>1
    <3>5. \A u \in Counter(p)!Workers : CounterDone(p)[u] = CounterDone(p)'[u]
      BY <2>1, <3>1 DEF CounterDone, Counter!Stored
    <3>6. Total(Counter(p)!Workers, CounterDone(p)') =
            Total(Counter(p)!Workers, CounterDone(p))
              /\ Total(Counter(p)!Cpus, CounterParts(p)') = Total(Counter(p)!Cpus, CounterParts(p))
      BY <3>4, <3>5, TotalSame
    <3>7. \A u \in Counter(p)!Workers : pc'[u] = "store" =>
            loaded'[u] = countLocal'[Counter(p)!Cpu(u)]
      <4> SUFFICES ASSUME NEW u \in Counter(p)!Workers, pc'[u] = "store"
                   PROVE  loaded'[u] = countLocal'[Counter(p)!Cpu(u)]
        OBVIOUS
      <4>1. u # t /\ pc[u] = "store"
        BY <2>0, <3>1
      <4>2. Counter(p)!Cpu(u) # c /\ Counter(p)!Cpu(u) \in Counter(p)!Cpus
        BY <1>0, <2>4, <3>1, <4>1
      <4> QED BY <2>0, <3>2, <4>1, <4>2 DEF CounterCounting
    <3> QED BY <3>1, <3>6, <3>7 DEF CounterCounting
  <2>8. CASE ~Counter(p)!StoreLocal(t) /\ ~Counter(p)!AddLocal(t) /\ ~Counter(p)!ResetLocal(t)
    <3>1. /\ countLocal' = countLocal /\ countGlobal' = countGlobal
          /\ pc[t] # "reset" /\ pc'[t] # "reset"
      BY <1>3, <2>8 DEF Counter!Worker, Counter!LockLocal, Counter!LoadLocal, Counter!TestThreshold,
           Counter!UnlockLocal, Counter!LockGlobal, Counter!UnlockGlobal, Counter!Goto, CounterTypes
    <3>2. \A d \in Counter(p)!Cpus : Resets(d)' <=> Resets(d)
      BY <2>0, <3>1 DEF Resets
    <3>3. \A d \in Counter(p)!Cpus : CounterParts(p)[d] = CounterParts(p)'[d]
      BY <2>3, <3>1, <3>2
    <3>4. CounterDone(p)[t] = CounterDone(p)'[t]
      <4>1. loops[t] \in 0..CounterLoops /\ (pc[t] \in LocalPCs => loops[t] < CounterLoops)
        BY DEF CounterTypes, CounterMutexes
      <4>2. Counter(p)!Stored(t)' = Counter(p)!Stored(t)
        BY <1>3, <2>8, <4>1
           DEF Counter!Worker, Counter!LockLocal, Counter!LoadLocal, Counter!TestThreshold, 
           Counter!UnlockLocal, Counter!LockGlobal, Counter!UnlockGlobal, Counter!Goto,
           CounterTypes, Counter!Stored, LocalPCs, CounterConstants
      <4> QED BY <4>2 DEF CounterDone
    <3>5. \A u \in Counter(p)!Workers : CounterDone(p)[u] = CounterDone(p)'[u]
      BY <2>1, <3>4
    <3>6. Total(Counter(p)!Workers, CounterDone(p)') =
            Total(Counter(p)!Workers, CounterDone(p))
              /\ Total(Counter(p)!Cpus, CounterParts(p)') = Total(Counter(p)!Cpus, CounterParts(p))
      BY <3>3, <3>5, TotalSame
    <3>7. pc'[t] = "store" => loaded'[t] = countLocal[c]
      BY <1>3, <2>8 DEF Counter!Worker, Counter!LockLocal, Counter!LoadLocal, Counter!TestThreshold,
           Counter!UnlockLocal, Counter!LockGlobal, Counter!UnlockGlobal, Counter!Goto, CounterTypes
    <3>8. \A u \in Counter(p)!Workers : pc'[u] = "store" =>
            loaded'[u] = countLocal'[Counter(p)!Cpu(u)]
      BY <2>0, <3>1, <3>7 DEF CounterCounting
    <3> QED BY <3>1, <3>6, <3>8 DEF CounterCounting
  <2> QED BY <2>5, <2>6, <2>7, <2>8
<1>4. CASE Counter(p)!Get \/ UNCHANGED Counter(p)!vars
  <2>1. UNCHANGED <<pc, loops, loaded, countLocal, countGlobal>>
    BY <1>4 DEF Counter!Get, Counter!vars
  <2>2. CounterParts(p)' = CounterParts(p) /\ CounterDone(p)' = CounterDone(p)
    BY <2>1 DEF CounterParts, CounterDone, Counter!Doubled, Counter!Stored
  <2> QED BY <2>1, <2>2 DEF CounterCounting
<1> QED BY <1>3, <1>4 DEF Counter!Next, Counter!Ended

LEMMA CounterNext ==
  ASSUME NEW p, CounterConstants(p), CounterInv(p), [Counter(p)!Next]_(Counter(p)!vars)
  PROVE  CounterInv(p)'
<1>1. CounterTypes(p)' /\ CounterMutexes(p)' /\ Counter(p)!SloppyByThreshold'
  BY CounterTypesNext, SloppyNext DEF CounterInv
<1>2. Quiet(p)' => CounterCounting(p)'
  BY <1>1, QuietBefore, CounterCountingNext DEF CounterInv
<1> QED BY <1>1, <1>2 DEF CounterInv

LEMMA CounterHolds ==
  ASSUME NEW p, CounterConstants(p), CounterInv(p)
  PROVE  Counter(p)!NothingLost /\ Counter(p)!SloppyByThreshold
BY DoneTotal, PartsTotal DEF CounterInv, Counter!NothingLost, Quiet, CounterCounting

-----------------------------------------------------------------------------
(* With a CPU for each thread.                                             *)

OwnCpus(p) == p = CounterThreads

CounterReset(p) ==
  \A t \in Counter(p)!Workers :
    /\ pc[t] = "reset" => countLocal[Counter(p)!Cpu(t)] <= countGlobal
    /\ loops[t] = CounterLoops /\ pc[t] \in {"unlockGlobal", "done"} =>
         countLocal[Counter(p)!Cpu(t)] = 0

OwnInv(p) == CounterInv(p) /\ Counter(p)!TypeOK /\ CounterReset(p) /\ Counter(p)!AssertGet

LEMMA CpuOwned ==
  ASSUME NEW p, CounterConstants(p), OwnCpus(p)
  PROVE  Counter(p)!Cpus = Counter(p)!Workers
           /\ (\A t \in Counter(p)!Workers : Counter(p)!Cpu(t) = t) /\ Quiet(p)
<1>1. ASSUME NEW t \in Counter(p)!Workers PROVE Counter(p)!Cpu(t) = t
  <2>1. t \in Nat /\ p \in Nat /\ p > 0 /\ t < p
    BY DEF Counter!Workers, CounterConstants, OwnCpus
  <2>2. t % p = t
    BY <2>1
  <2> QED BY <2>2 DEF Counter!Cpu
<1> QED BY <1>1 DEF OwnCpus, Counter!Cpus, Counter!Workers, Quiet, Counter!SharesCpu

\* The counts are bounded by the increments asked for.
LEMMA CounterBounds ==
  ASSUME NEW p, CounterConstants(p), OwnCpus(p), CounterInv(p), CounterReset(p)
  PROVE  /\ CounterThreads * CounterLoops \in Nat
         /\ countGlobal \in 0..(CounterThreads * CounterLoops)
         /\ \A c \in Counter(p)!Cpus : countLocal[c] \in 0..(CounterThreads * CounterLoops)
         /\ (\A t \in Counter(p)!Workers : pc[t] = "done") =>
              countGlobal = CounterThreads * CounterLoops
<1> DEFINE b == CounterThreads * CounterLoops
<1>1. b \in Nat /\ CounterLoops \in Nat
  BY DEF CounterConstants
<1>2. /\ IsFiniteSet(Counter(p)!Workers) /\ IsFiniteSet(Counter(p)!Cpus)
           /\ Cardinality(Counter(p)!Workers) = CounterThreads
      /\ \A c \in Counter(p)!Cpus : CounterParts(p)[c] \in Nat
      /\ \A t \in Counter(p)!Workers : CounterDone(p)[t] \in Nat
  BY PartTypes DEF CounterInv
<1>3. CounterCounting(p)
  BY CpuOwned DEF CounterInv
<1>4. ASSUME NEW t \in Counter(p)!Workers PROVE CounterDone(p)[t] \in 0..CounterLoops
  BY <1>1 DEF CounterDone, Counter!Stored, CounterInv, CounterTypes, CounterMutexes, LocalPCs
<1>5. Total(Counter(p)!Workers, CounterDone(p)) <= b
  BY <1>1, <1>2, <1>4, TotalBound
<1>6. Total(Counter(p)!Cpus, CounterParts(p)) \in Nat
        /\ Total(Counter(p)!Workers, CounterDone(p)) \in Nat
  BY <1>2, UnitsFinite
<1>7. countGlobal \in Nat /\ \A c \in Counter(p)!Cpus : countLocal[c] \in Nat
  BY DEF CounterInv, CounterTypes
<1>8. countGlobal \in 0..b
  BY <1>1, <1>3, <1>5, <1>6, <1>7 DEF CounterCounting
<1>9. ASSUME NEW c \in Counter(p)!Cpus PROVE countLocal[c] \in 0..b
  <2>1. CASE \E t \in Counter(p)!Workers : Counter(p)!Cpu(t) = c /\ pc[t] = "reset"
    <3>1. countLocal[c] <= countGlobal
      BY <2>1 DEF CounterReset
    <3> QED BY <1>1, <1>7, <1>8, <3>1
  <2>2. CASE ~\E t \in Counter(p)!Workers : Counter(p)!Cpu(t) = c /\ pc[t] = "reset"
    <3>1. CounterParts(p)[c] = countLocal[c]
      <4>1. Counter(p)!Doubled(c) = 0
        BY <2>2 DEF Counter!Doubled
      <4> QED BY <1>7, <4>1 DEF CounterParts
    <3>2. CounterParts(p)[c] <= Total(Counter(p)!Cpus, CounterParts(p))
      BY <1>2, TotalPart
    <3> QED BY <1>1, <1>3, <1>5, <1>6, <1>7, <3>1, <3>2 DEF CounterCounting
  <2> QED BY <2>1, <2>2
<1>10. ASSUME \A t \in Counter(p)!Workers : pc[t] = "done" PROVE countGlobal = b
  <2>1. \A t \in Counter(p)!Workers : CounterDone(p)[t] = CounterLoops /\ countLocal[t] = 0
    BY <1>1, <1>10, CpuOwned
       DEF CounterDone, Counter!Stored, CounterInv, CounterTypes, CounterMutexes, CounterReset
  <2>2. \A c \in Counter(p)!Cpus : CounterParts(p)[c] = 0
    <3>1. \A c \in Counter(p)!Cpus : countLocal[c] = 0
      BY <2>1, CpuOwned
    <3> QED BY <3>1 DEF CounterParts, Counter!Doubled
  <2>3. Total(Counter(p)!Workers, CounterDone(p)) = Cardinality(Counter(p)!Workers) * CounterLoops
    BY <1>1, <1>2, <1>4, <2>1, TotalBound
  <2>4. Total(Counter(p)!Cpus, CounterParts(p)) = Cardinality(Counter(p)!Cpus) * 0
    <3>1. 0 \in Nat /\ \A c \in Counter(p)!Cpus :
            CounterParts(p)[c] \in Nat /\ CounterParts(p)[c] \in 0..0
      BY <2>2
    <3>2. \A c \in Counter(p)!Cpus : CounterParts(p)[c] \in 0..0
      BY <3>1
    <3>3. \A c \in Counter(p)!Cpus : CounterParts(p)[c] = 0
      BY <2>2
    <3> QED BY <1>2, <3>1, <3>2, <3>3, TotalBound
  <2>5. Cardinality(Counter(p)!Cpus) \in Nat
    BY <1>2, FS_CardinalityType
  <2>6. Total(Counter(p)!Cpus, CounterParts(p)) = 0
    BY <2>4, <2>5
  <2> QED BY <1>2, <1>3, <1>7, <2>3, <2>6 DEF CounterCounting
<1> QED BY <1>1, <1>8, <1>9, <1>10

LEMMA OwnInit == ASSUME NEW p, CounterConstants(p), OwnCpus(p), Counter(p)!Init PROVE OwnInv(p)
<1>1. CounterInv(p)
  BY CounterInit
<1>2. CounterReset(p) /\ Counter(p)!AssertGet
  BY DEF Counter!Init, CounterReset, Counter!AssertGet
<1>3. Counter(p)!TypeOK
  <2>1. CounterThreads * CounterLoops \in Nat
    BY DEF CounterConstants
  <2> QED BY <2>1 DEF Counter!Init, Counter!TypeOK, CounterConstants
<1> QED BY <1>1, <1>2, <1>3 DEF OwnInv

LEMMA ResetNext ==
  ASSUME NEW p, CounterConstants(p), OwnCpus(p), CounterInv(p), CounterReset(p),
         [Counter(p)!Next]_(Counter(p)!vars)
  PROVE  CounterReset(p)'
<1> DEFINE Holds(u) ==
             /\ pc[u] = "reset" => countLocal[u] <= countGlobal
             /\ loops[u] = CounterLoops /\ pc[u] \in {"unlockGlobal", "done"} => countLocal[u] = 0
<1>0. CounterReset(p) <=> \A u \in Counter(p)!Workers : Holds(u)
  BY CpuOwned DEF CounterReset
<1>1. CounterReset(p)' <=> \A u \in Counter(p)!Workers : Holds(u)'
  BY CpuOwned DEF CounterReset, Counter!Cpu
<1>2. /\ countGlobal \in Nat /\ \A u \in Counter(p)!Workers : countLocal[u] \in Nat
      /\ Counter(p)!Cpus = Counter(p)!Workers /\ CounterLoops \in Nat
      /\ \A u \in Counter(p)!Workers : Counter(p)!Cpu(u) = u /\ loops[u] \in 0..CounterLoops
  BY CpuOwned DEF CounterInv, CounterTypes, CounterConstants
<1>3. ASSUME NEW t \in Counter(p)!Workers, Counter(p)!Worker(t), NEW u \in Counter(p)!Workers
      PROVE  Holds(u)'
  <2> USE DEF CounterInv, CounterTypes, Counter!Goto
  <2>0. Counter(p)!Cpu(t) = t /\ Holds(u)
    BY <1>0, <1>2
  <2>1. CASE u # t
    <3>1. pc'[u] = pc[u] /\ loops'[u] = loops[u] /\ countLocal'[u] = countLocal[u]
      BY <1>2, <1>3, <2>0, <2>1
         DEF Counter!Worker, Counter!LockLocal, Counter!LoadLocal, Counter!StoreLocal,
             Counter!TestThreshold, 
           Counter!UnlockLocal, Counter!LockGlobal, Counter!AddLocal, Counter!ResetLocal,
           Counter!UnlockGlobal
    <3>2. pc[u] = "reset" => countGlobal' = countGlobal
      <4>1. Counter(p)!AddLocal(t) => pc[u] # "reset"
        BY <1>2, <2>1 DEF Counter!AddLocal, CounterMutexes, UpdatePCs
      <4> QED BY <1>3, <4>1
                 DEF Counter!Worker, Counter!LockLocal, Counter!LoadLocal, Counter!StoreLocal,
                     Counter!TestThreshold, 
           Counter!UnlockLocal, Counter!LockGlobal, Counter!ResetLocal, Counter!UnlockGlobal
    <3> QED BY <2>0, <3>1, <3>2
  <2>2. CASE u = t
    <3>1. CASE Counter(p)!AddLocal(t)
      BY <1>2, <2>0, <2>2, <3>1 DEF Counter!AddLocal
    <3>2. CASE Counter(p)!ResetLocal(t)
      <4>1. pc'[t] = "unlockGlobal" /\ countLocal'[t] = 0
        BY <1>2, <2>0, <3>2 DEF Counter!ResetLocal
      <4> QED BY <2>2, <4>1
    <3>3. CASE Counter(p)!UnlockGlobal(t)
      <4>1. pc[t] = "unlockGlobal" /\ loops' = loops /\ countLocal' = countLocal
            /\ pc'[t] = IF loops[t] < CounterLoops THEN "unlock" ELSE "done"
        BY <3>3 DEF Counter!UnlockGlobal
      <4> QED BY <1>2, <2>0, <2>2, <4>1
    <3>4. CASE ~Counter(p)!AddLocal(t) /\ ~Counter(p)!ResetLocal(t) /\ ~Counter(p)!UnlockGlobal(t)
      <4>1. pc'[t] \notin {"reset", "unlockGlobal", "done"}
        BY <1>3, <3>4
           DEF Counter!Worker, Counter!LockLocal, Counter!LoadLocal, Counter!StoreLocal,
               Counter!TestThreshold, 
           Counter!UnlockLocal, Counter!LockGlobal
      <4> QED BY <2>2, <4>1
    <3> QED BY <3>1, <3>2, <3>3, <3>4
  <2> QED BY <2>1, <2>2
<1>4. ASSUME Counter(p)!Get \/ UNCHANGED Counter(p)!vars, NEW u \in Counter(p)!Workers
      PROVE  Holds(u)'
  BY <1>0, <1>4 DEF Counter!Get, Counter!vars
<1>5. \A u \in Counter(p)!Workers : Holds(u)'
  BY <1>3, <1>4 DEF Counter!Next, Counter!Ended
<1> QED BY <1>1, <1>5

BoundsHold(p) ==
  /\ countGlobal \in 0..(CounterThreads * CounterLoops)
  /\ \A c \in Counter(p)!Cpus : countLocal[c] \in 0..(CounterThreads * CounterLoops)

LEMMA BoundsHolds ==
  ASSUME NEW p
  PROVE  CounterConstants(p) /\ OwnCpus(p) => (CounterInv(p) /\ CounterReset(p) => BoundsHold(p))
BY CounterBounds DEF BoundsHold

LEMMA OwnNext ==
  ASSUME NEW p, CounterConstants(p), OwnCpus(p), OwnInv(p), [Counter(p)!Next]_(Counter(p)!vars)
  PROVE  OwnInv(p)'
<1> DEFINE b == CounterThreads * CounterLoops
<1>1. CounterInv(p)' /\ CounterReset(p)'
  BY CounterNext, ResetNext DEF OwnInv
<1>2. b \in Nat /\ BoundsHold(p)
  BY CounterBounds DEF OwnInv, BoundsHold
<1>3. BoundsHold(p)'
  BY <1>1, BoundsHolds, PTL
<1>4. (\A t \in Counter(p)!Workers : pc[t] = "done") => countGlobal = b
  BY CounterBounds DEF OwnInv
<1> HIDE DEF b
<1>5. loaded' \in [Counter(p)!Workers -> 0..b]
  <2>1. loaded \in [Counter(p)!Workers -> 0..b]
    BY DEF OwnInv, Counter!TypeOK, b
  <2>2. ASSUME NEW t \in Counter(p)!Workers, Counter(p)!LoadLocal(t)
        PROVE  loaded' \in [Counter(p)!Workers -> 0..b]
    <3>1. countLocal[Counter(p)!Cpu(t)] \in 0..b
      BY <1>2, PartTypes DEF BoundsHold, b, OwnInv, CounterInv
    <3> QED BY <2>1, <2>2, <3>1 DEF Counter!LoadLocal
  <2>3. (\E t \in Counter(p)!Workers : Counter(p)!LoadLocal(t)) \/ loaded' = loaded
    BY DEF Counter!Next, Counter!Get, Counter!Ended, Counter!vars, Counter!Worker,
           Counter!LockLocal, Counter!StoreLocal, Counter!TestThreshold, 
           Counter!UnlockLocal, Counter!LockGlobal, Counter!AddLocal, Counter!ResetLocal,
           Counter!UnlockGlobal
  <2> QED BY <2>1, <2>2, <2>3
<1>6. got' \in 0..b \cup {-1} /\ Counter(p)!AssertGet'
  <2>1. got \in 0..b \cup {-1} /\ Counter(p)!AssertGet
    BY DEF OwnInv, Counter!TypeOK, b
  <2>2. got' = got \/ got' = b
    BY <1>4
       DEF Counter!Next, Counter!Get, Counter!Ended, Counter!vars, Counter!Worker,
           Counter!LockLocal, Counter!LoadLocal, Counter!StoreLocal, Counter!TestThreshold, 
           Counter!UnlockLocal, Counter!LockGlobal, Counter!AddLocal, Counter!ResetLocal,
           Counter!UnlockGlobal
  <2> QED BY <1>2, <2>1, <2>2 DEF Counter!AssertGet, b
<1>7. CounterTypes(p)'
  BY <1>1 DEF CounterInv
<1>8. countLocal' \in [Counter(p)!Cpus -> 0..b] /\ countGlobal' \in 0..b
  <2>1. \A c \in Counter(p)!Cpus : countLocal'[c] \in 0..b
    BY <1>3 DEF BoundsHold, b
  <2>2. countGlobal' \in 0..b
    BY <1>3 DEF BoundsHold, b
  <2>3. countLocal' \in [Counter(p)!Cpus -> Nat]
    BY <1>7 DEF CounterTypes
  <2> QED BY <2>1, <2>2, <2>3
<1>9. Counter(p)!TypeOK'
  BY <1>5, <1>6, <1>7, <1>8 DEF CounterTypes, Counter!TypeOK, b
<1> QED BY <1>1, <1>6, <1>9 DEF OwnInv

-----------------------------------------------------------------------------
(* The rendezvous.                                                         *)

MeetingLate(w) == pc[w] \in {"index2", "load2", "use2", "after", "done"}
MeetingOver(w) == pc[w] \in {"after", "done"}

\* What main() has done, by its next statement.
MainAt ==
  /\ pc[0] = "unborn" <=> main \in {"push0", "spawn0"}
  /\ pc[1] = "unborn" <=> main \notin {"join0", "join1", "end"}
  /\ main = "push0" => begin = 0
  /\ main \in {"spawn0", "make1", "push1", "free1", "install1"} => begin = 1
  /\ main \in {"spawn1", "join0", "join1", "end"} => begin = 2
  /\ moved => main \notin {"push0", "spawn0", "make1", "push1"}

\* A semaphore is up when its other worker is ahead.
Semaphored ==
  /\ MeetingLate(0) => MeetingLate(1)
  /\ MeetingOver(1) => MeetingOver(0)
  /\ sem[0] = IF MeetingLate(1) /\ ~MeetingLate(0) THEN 1 ELSE 0
  /\ sem[1] = IF MeetingOver(0) /\ ~MeetingOver(1) THEN 1 ELSE 0

\* Only the first access of worker 0 may find the old buffer.
HeldNew ==
  /\ pc[0] \in {"load2", "use2"} => held[0] = 2
  /\ pc[1] \in {"load1", "use1", "index2", "load2", "use2"} => held[1] = 2
  /\ crashed => pc[0] = "load1"

MeetingInv == Meeting!TypeOK /\ MainAt /\ Semaphored /\ HeldNew

LEMMA MeetingInit == ASSUME Meeting!Init PROVE MeetingInv
<1>1. main = "push0" /\ begin = 0 /\ ~moved /\ ~crashed
  BY DEF Meeting!Init
<1>2. pc[0] = "unborn" /\ pc[1] = "unborn" /\ sem[0] = 0 /\ sem[1] = 0
  BY DEF Meeting!Init, Meeting!Workers
<1>3. Meeting!TypeOK
  <2>1. moved \in BOOLEAN /\ crashed \in BOOLEAN
    BY DEF Meeting!Init
  <2> QED BY <2>1 DEF Meeting!Init, Meeting!TypeOK, Meeting!Workers
<1>4. MainAt
  BY <1>1, <1>2 DEF MainAt
<1>5. Semaphored /\ HeldNew
  BY <1>1, <1>2 DEF Semaphored, HeldNew, MeetingLate, MeetingOver
<1> QED BY <1>3, <1>4, <1>5 DEF MeetingInv

LEMMA MeetingHolds == ASSUME MeetingInv PROVE Meeting!NeitherEarly /\ Meeting!OnlyFirstAccessRaces
<1>1. Meeting!OnlyFirstAccessRaces
  BY DEF Meeting!OnlyFirstAccessRaces, MeetingInv, Semaphored, HeldNew, MeetingLate, MeetingOver
<1>2. MeetingOver(0) => pc[1] \notin {"unborn", "before"}
  BY DEF MeetingInv, Semaphored, MeetingLate, MeetingOver
<1>3. MeetingOver(1) => pc[0] \notin {"unborn", "before"}
  BY DEF MeetingInv, Semaphored, MeetingLate, MeetingOver
<1>4. Meeting!Workers = {0, 1} /\ 1 - 0 = 1 /\ 1 - 1 = 0
  BY DEF Meeting!Workers
<1>5. Meeting!NeitherEarly
  BY <1>2, <1>3, <1>4 DEF Meeting!NeitherEarly, MeetingOver
<1> QED BY <1>1, <1>5

LEMMA MeetingMain == ASSUME MeetingInv, Meeting!Main PROVE MeetingInv'
<1> USE DEF MeetingInv, Meeting!TypeOK, MainAt, Semaphored, HeldNew, MeetingLate, MeetingOver, Meeting!Workers, Meeting!MainStep
<1>1. CASE Meeting!PushFirst
  BY <1>1 DEF Meeting!PushFirst
<1>2. CASE Meeting!Spawn(0, "spawn0", "make1")
  BY <1>2 DEF Meeting!Spawn
<1>3. CASE Meeting!MakeSecond
  BY <1>3 DEF Meeting!MakeSecond
<1>4. CASE Meeting!MoveFirst
  BY <1>4 DEF Meeting!MoveFirst
<1>5. CASE Meeting!FreeFirst
  BY <1>5 DEF Meeting!FreeFirst
<1>6. CASE Meeting!InstallSecond
  BY <1>6 DEF Meeting!InstallSecond
<1>7. CASE Meeting!Spawn(1, "spawn1", "join0")
  BY <1>7 DEF Meeting!Spawn
<1>8. CASE Meeting!Join(0, "join0", "join1")
  BY <1>8 DEF Meeting!Join
<1>9. CASE Meeting!Join(1, "join1", "end")
  BY <1>9 DEF Meeting!Join
<1> QED BY <1>1, <1>2, <1>3, <1>4, <1>5, <1>6, <1>7, <1>8, <1>9 DEF Meeting!Main

LEMMA MeetingWorker == ASSUME MeetingInv, NEW w
                         \in Meeting!Workers, Meeting!Worker(w) PROVE MeetingInv'
<1> USE DEF MeetingInv, Meeting!TypeOK, MainAt, Semaphored, HeldNew, MeetingLate, MeetingOver, Meeting!Workers, Meeting!Goto
<1>1. CASE Meeting!PrintBefore(w)
  BY <1>1 DEF Meeting!PrintBefore
<1>2. CASE Meeting!Index(w, "index1", "load1")
  BY <1>2 DEF Meeting!Index
<1>3. CASE Meeting!Index(w, "index2", "load2")
  BY <1>3 DEF Meeting!Index
<1>4. CASE Meeting!LoadPointer(w, "load1", "use1")
  BY <1>4 DEF Meeting!LoadPointer, Meeting!Worker
<1>5. CASE Meeting!LoadPointer(w, "load2", "use2")
  BY <1>5 DEF Meeting!LoadPointer
<1>6. CASE Meeting!Crash(w, "load1") \/ Meeting!Crash(w, "load2")
  <2>1. held[w] = 1 /\ pc[w] \in {"load1", "load2"}
    BY <1>6 DEF Meeting!Crash, Meeting!Dangling
  <2>2. w = 0 /\ pc[0] = "load1"
    BY <2>1
  <2>3. crashed' \in BOOLEAN /\ UNCHANGED <<main, pc, held, begin, moved, sem>>
    BY <1>6 DEF Meeting!Crash
  <2> QED BY <2>2, <2>3
<1>7. CASE w = 0 /\ Meeting!AcquireOwn(w, "use1", "index2")
  BY <1>7 DEF Meeting!AcquireOwn
<1>8. CASE w = 0 /\ Meeting!ReleaseOther(w, "use2", "after")
  BY <1>8 DEF Meeting!ReleaseOther
<1>9. CASE w = 1 /\ Meeting!ReleaseOther(w, "use1", "index2")
  BY <1>9 DEF Meeting!ReleaseOther
<1>10. CASE w = 1 /\ Meeting!AcquireOwn(w, "use2", "after")
  BY <1>10 DEF Meeting!AcquireOwn
<1>11. CASE Meeting!PrintAfter(w)
  BY <1>11 DEF Meeting!PrintAfter
<1> QED BY <1>1, <1>2, <1>3, <1>4, <1>5, <1>6, <1>7, <1>8, <1>9, <1>10, <1>11
        DEF Meeting!Worker, Meeting!UseSemaphores

LEMMA MeetingNext == ASSUME MeetingInv, [Meeting!Next]_(Meeting!vars) PROVE MeetingInv'
<1>1. CASE UNCHANGED Meeting!vars
  BY <1>1
     DEF Meeting!vars, MeetingInv, Meeting!TypeOK, MainAt, Semaphored, HeldNew, MeetingLate,
         MeetingOver
<1> QED BY <1>1, MeetingMain, MeetingWorker DEF Meeting!Next, Meeting!Ended

-----------------------------------------------------------------------------
(* The additions of vectors.                                               *)

VectorConstants ==
  /\ VectorThreads \in Nat /\ VectorLoops \in Nat /\ VectorSize \in Nat \ {0}
  /\ VectorRuns \subseteq [program : Vectors!Programs, d : BOOLEAN, p : BOOLEAN]

VectorTypes ==
  /\ run \in [program : Vectors!Programs, d : BOOLEAN, p : BOOLEAN]
  /\ pc \in [Vectors!Threads -> {"loop", "global", "first", "second", "giveUp",
       "unlockGlobal", "load", "store", "unlock", "unlockOther", "return"}]
  /\ loops \in [Vectors!Threads -> 0..VectorLoops]
  /\ el \in [Vectors!Threads -> 1..VectorSize]
  /\ loaded \in [Vectors!Threads -> Nat]
  /\ global \in Vectors!Threads \cup {Vectors!None}
  /\ lock \in [Vectors!Vectors -> Vectors!Threads \cup {Vectors!None}]
  /\ values \in [Vectors!Vectors -> [1..VectorSize -> Nat]]

Statements ==
  \A t \in Vectors!Threads :
    /\ pc[t] = "giveUp" => run.program = "try-wait"
    /\ ~Vectors!Locking => pc[t] \in {"loop", "load", "store", "return"}
    /\ pc[t] \notin {"load", "store"} => el[t] = 1
    /\ pc[t] # "loop" => loops[t] < VectorLoops

\* The locks that a thread has.
Holds(t) ==
  IF pc[t] \in {"unlockGlobal", "load", "store", "unlock"} THEN {Vectors!Dst(t), Vectors!Src(t)}
  ELSE IF pc[t] \in {"second", "giveUp"} THEN {Vectors!FirstLocked(t)}
  ELSE IF pc[t] = "unlockOther"
       THEN {IF run.program = "global-order" THEN Vectors!Dst(t) ELSE Vectors!Src(t)}
  ELSE {}

Owned == Vectors!Locking => \A t \in Vectors!Threads : \A v \in Holds(t) : lock[v] = t

\* What a thread is about to store is still right.
LoadedRight ==
  Vectors!Locking => \A t \in Vectors!Threads : pc[t] = "store" =>
               loaded[t] = values[Vectors!Dst(t)][el[t]] + values[Vectors!Src(t)][el[t]]

LEMMA Ends ==
  ASSUME VectorConstants, NEW t \in Vectors!Threads
  PROVE  /\ Vectors!Dst(t) \in Vectors!Vectors /\ Vectors!Src(t) \in Vectors!Vectors
              /\ Vectors!Dst(t) # Vectors!Src(t)
         /\ Vectors!Dst(t) \in Nat /\ Vectors!Src(t) \in Nat
         /\ ~run.p /\ ~run.d => Vectors!Dst(t) = 0 /\ Vectors!Src(t) = 1
<1>1. t \in Nat /\ 0 <= t /\ t <= VectorThreads - 1 /\ VectorThreads \in Nat
  BY DEF VectorConstants, Vectors!Threads
<1>2. /\ 2 * t \in Vectors!Vectors /\ 2 * t + 1 \in Vectors!Vectors /\ 0 \in Vectors!Vectors
           /\ 1 \in Vectors!Vectors
      /\ 2 * t \in Nat /\ 2 * t + 1 \in Nat /\ 2 * t # 2 * t + 1
  BY <1>1 DEF Vectors!Vectors
<1>3. CASE run.p
  <2>1. Vectors!Pair(t)[1] = 2 * t /\ Vectors!Pair(t)[2] = 2 * t + 1
    BY <1>3 DEF Vectors!Pair
  <2> QED BY <1>2, <1>3, <2>1 DEF Vectors!Dst, Vectors!Src
<1>4. CASE ~run.p
  <2>1. Vectors!Pair(t)[1] = 0 /\ Vectors!Pair(t)[2] = 1
    BY <1>4 DEF Vectors!Pair
  <2>2. ~run.d => Vectors!Dst(t) = 0 /\ Vectors!Src(t) = 1
    BY <2>1 DEF Vectors!Dst, Vectors!Src, Vectors!Turned
  <2> QED BY <1>2, <2>1, <2>2 DEF Vectors!Dst, Vectors!Src
<1> QED BY <1>3, <1>4

\* With -p no thread has a vector of another.
LEMMA EndsApart ==
  ASSUME VectorConstants, NEW t \in Vectors!Threads, NEW u \in Vectors!Threads, t # u, run.p
  PROVE  {Vectors!Dst(t), Vectors!Src(t)} \cap {Vectors!Dst(u), Vectors!Src(u)} = {}
<1>1. t \in Nat /\ u \in Nat
  BY DEF VectorConstants, Vectors!Threads
<1>2. 2 * t # 2 * u /\ 2 * t + 1 # 2 * u /\ 2 * t # 2 * u + 1 /\ 2 * t + 1 # 2 * u + 1
  BY <1>1
<1>3. /\ Vectors!Pair(t)[1] = 2 * t /\ Vectors!Pair(t)[2] = 2 * t + 1
      /\ Vectors!Pair(u)[1] = 2 * u /\ Vectors!Pair(u)[2] = 2 * u + 1
  BY DEF Vectors!Pair
<1> QED BY <1>2, <1>3 DEF Vectors!Dst, Vectors!Src

LEMMA EndsSame ==
  ASSUME UNCHANGED run, NEW t
  PROVE  /\ Vectors!Dst(t)' = Vectors!Dst(t) /\ Vectors!Src(t)' = Vectors!Src(t)
         /\ Vectors!FirstLocked(t)' = Vectors!FirstLocked(t)
              /\ Vectors!SecondLocked(t)' = Vectors!SecondLocked(t)
BY DEF Vectors!Dst, Vectors!Src, Vectors!Pair, Vectors!Turned, Vectors!FirstLocked,
       Vectors!SecondLocked

LEMMA LockedEnds ==
  ASSUME NEW t
  PROVE  /\ Vectors!FirstLocked(t) \in {Vectors!Dst(t), Vectors!Src(t)}
         /\ {Vectors!FirstLocked(t), Vectors!SecondLocked(t)} = {Vectors!Dst(t), Vectors!Src(t)}
         /\ run.program # "global-order" => Vectors!FirstLocked(t) = Vectors!Dst(t)
BY DEF Vectors!FirstLocked, Vectors!SecondLocked

LEMMA TypesInit == ASSUME VectorConstants, Vectors!Init PROVE VectorTypes
<1>1. /\ 1 \in 1..VectorSize /\ 0 \in 0..VectorLoops
      /\ Vectors!Vectors \subseteq Nat
  BY DEF VectorConstants, Vectors!Vectors
<1>2. run \in [program : Vectors!Programs, d : BOOLEAN, p : BOOLEAN]
  BY DEF Vectors!Init, VectorConstants
<1>3. values \in [Vectors!Vectors -> [1..VectorSize -> Nat]]
  BY <1>1 DEF Vectors!Init, Vectors!Start
<1> QED BY <1>1, <1>2, <1>3 DEF Vectors!Init, VectorTypes

LEMMA VectorTypesNext ==
  ASSUME VectorConstants, VectorTypes, Statements, NEW t \in Vectors!Threads, Vectors!Worker(t)
  PROVE  VectorTypes' /\ UNCHANGED run
<1> USE DEF VectorTypes, Vectors!Goto, Vectors!Lock
<1>0. /\ Vectors!Dst(t) \in Vectors!Vectors /\ Vectors!Src(t) \in Vectors!Vectors
      /\ Vectors!FirstLocked(t) \in Vectors!Vectors /\ Vectors!SecondLocked(t) \in Vectors!Vectors
  BY Ends, LockedEnds
<1>00. VectorSize \in Nat /\ VectorLoops \in Nat
  BY DEF VectorConstants
<1>1. CASE Vectors!Call(t)
  BY <1>1 DEF Vectors!Call
<1>2. CASE Vectors!LockGlobal(t) \/ Vectors!TryFirstAgain(t) \/ Vectors!TrySecondFails(t) \/ Vectors!UnlockGlobal(t)
  BY <1>2
     DEF Vectors!LockGlobal, Vectors!TryFirstAgain, Vectors!TrySecondFails,
         Vectors!UnlockGlobal, Vectors!vars
<1>3. CASE Vectors!LockFirst(t)
  BY <1>0, <1>3 DEF Vectors!LockFirst
<1>4. CASE Vectors!LockSecond(t)
  BY <1>0, <1>4 DEF Vectors!LockSecond
<1>5. CASE Vectors!GiveUp(t)
  BY <1>0, <1>5 DEF Vectors!GiveUp
<1>6. CASE Vectors!Load(t)
  <2>1. values[Vectors!Src(t)][el[t]] \in Nat /\ values[Vectors!Dst(t)][el[t]] \in Nat
    BY <1>0
  <2> QED BY <1>6, <2>1 DEF Vectors!Load
<1>7. CASE Vectors!Store(t)
  <2> DEFINE x == IF run.program = "nolock" THEN values[Vectors!Dst(t)][el[t]] + loaded[t]
                  ELSE loaded[t]
  <2>1. values[Vectors!Dst(t)][el[t]] \in Nat /\ loaded[t] \in Nat /\ el[t] \in 1..VectorSize
    BY <1>0
  <2>2. x \in Nat
    BY <2>1
  <2>3. values' = [values EXCEPT ![Vectors!Dst(t)][el[t]] = x]
    BY <1>0, <1>7, <2>1 DEF Vectors!Store
  <2>4. values' \in [Vectors!Vectors -> [1..VectorSize -> Nat]]
    BY <1>0, <2>1, <2>2, <2>3
  <2>5. el' \in [Vectors!Threads -> 1..VectorSize]
    BY <1>7, <1>00, <2>1 DEF Vectors!Store, Vectors!Advance
  <2>6. pc' \in [Vectors!Threads -> {"loop", "global", "first", "second", "giveUp",
       "unlockGlobal", "load", "store", "unlock", "unlockOther", "return"}]
    BY <1>7 DEF Vectors!Store, Vectors!Advance
  <2> QED BY <1>7, <2>4, <2>5, <2>6 DEF Vectors!Store
<1>8. CASE Vectors!UnlockOne(t)
  BY <1>0, <1>8 DEF Vectors!UnlockOne
<1>9. CASE Vectors!UnlockOther(t)
  BY <1>0, <1>9 DEF Vectors!UnlockOther
<1>10. CASE Vectors!ReturnFromAdd(t)
  <2>1. loops[t] \in 0..VectorLoops /\ loops[t] < VectorLoops
    BY <1>10 DEF Vectors!ReturnFromAdd, Statements
  <2>2. loops[t] + 1 \in 0..VectorLoops
    BY <1>00, <2>1
  <2> QED BY <1>10, <2>2 DEF Vectors!ReturnFromAdd
<1> QED BY <1>1, <1>2, <1>3, <1>4, <1>5, <1>6, <1>7, <1>8, <1>9, <1>10 DEF Vectors!Worker

LEMMA StatementsNext ==
  ASSUME VectorConstants, VectorTypes, Statements, NEW t \in Vectors!Threads, Vectors!Worker(t)
  PROVE  Statements'
<1> USE DEF VectorTypes, Statements, Vectors!Goto, Vectors!Locking
<1>00. VectorSize \in Nat /\ VectorLoops \in Nat
  BY DEF VectorConstants
<1>1. CASE Vectors!Call(t)
  BY <1>1 DEF Vectors!Call
<1>2. CASE Vectors!LockGlobal(t) \/ Vectors!TryFirstAgain(t) \/ Vectors!TrySecondFails(t) \/ Vectors!UnlockGlobal(t)
  BY <1>2
     DEF Vectors!LockGlobal, Vectors!TryFirstAgain, Vectors!TrySecondFails,
         Vectors!UnlockGlobal, Vectors!vars
<1>3. CASE Vectors!LockFirst(t)
  BY <1>3 DEF Vectors!LockFirst
<1>4. CASE Vectors!LockSecond(t)
  BY <1>4 DEF Vectors!LockSecond
<1>5. CASE Vectors!GiveUp(t)
  BY <1>5 DEF Vectors!GiveUp
<1>6. CASE Vectors!Load(t)
  BY <1>6 DEF Vectors!Load
<1>7. CASE Vectors!Store(t)
  BY <1>7, <1>00 DEF Vectors!Store, Vectors!Advance
<1>8. CASE Vectors!UnlockOne(t)
  BY <1>8 DEF Vectors!UnlockOne
<1>9. CASE Vectors!UnlockOther(t)
  BY <1>9 DEF Vectors!UnlockOther
<1>10. CASE Vectors!ReturnFromAdd(t)
  BY <1>10 DEF Vectors!ReturnFromAdd
<1> QED BY <1>1, <1>2, <1>3, <1>4, <1>5, <1>6, <1>7, <1>8, <1>9, <1>10 DEF Vectors!Worker

LEMMA OwnedNext ==
  ASSUME VectorConstants, VectorTypes, Statements, Owned, NEW t \in Vectors!Threads,
         Vectors!Worker(t)
  PROVE  Owned'
<1>1. UNCHANGED run /\ VectorTypes'
  BY VectorTypesNext
<1>2. \A u \in Vectors!Threads : /\ Vectors!Dst(u)' = Vectors!Dst(u) /\ Vectors!Src(u)' = Vectors!Src(u)
                                 /\ Vectors!FirstLocked(u)' = Vectors!FirstLocked(u)
                                 /\ Vectors!SecondLocked(u)' = Vectors!SecondLocked(u)
  BY <1>1, EndsSame
<1>3. ASSUME NEW u \in Vectors!Threads, u # t PROVE Holds(u)' = Holds(u)
  <2>1. pc'[u] = pc[u]
    BY <1>3
       DEF Vectors!Worker, Vectors!Goto, VectorTypes, Vectors!Call, Vectors!LockGlobal,
           Vectors!LockFirst, Vectors!TryFirstAgain, Vectors!LockSecond, 
       Vectors!TrySecondFails, Vectors!GiveUp, Vectors!UnlockGlobal, Vectors!Load,
       Vectors!Store, Vectors!Advance, Vectors!UnlockOne, Vectors!UnlockOther,
       Vectors!ReturnFromAdd, Vectors!vars
  <2> QED BY <1>1, <1>2, <2>1 DEF Holds
<1>4. /\ Vectors!Dst(t) \in Vectors!Vectors /\ Vectors!Src(t) \in Vectors!Vectors
           /\ Vectors!Dst(t) # Vectors!Src(t)
      /\ Vectors!FirstLocked(t) \in {Vectors!Dst(t), Vectors!Src(t)}
      /\ {Vectors!FirstLocked(t), Vectors!SecondLocked(t)} = {Vectors!Dst(t), Vectors!Src(t)}
      /\ (run.program # "global-order" => Vectors!FirstLocked(t) = Vectors!Dst(t))
  BY Ends, LockedEnds
<1>5. t # Vectors!None
  BY DEF Vectors!Threads, Vectors!None, VectorConstants
<1>6. ASSUME Vectors!Locking,
             \/ Vectors!Call(t) \/ Vectors!LockGlobal(t) \/ Vectors!TryFirstAgain(t) \/ Vectors!TrySecondFails(t)
             \/ Vectors!UnlockGlobal(t) \/ Vectors!Load(t) \/ Vectors!Store(t) \/ Vectors!ReturnFromAdd(t)
      PROVE  lock' = lock /\ Holds(t)' \subseteq Holds(t)
  <2>1. CASE Vectors!LockGlobal(t) \/ Vectors!TryFirstAgain(t) \/ Vectors!UnlockGlobal(t) \/ Vectors!ReturnFromAdd(t)
    BY <1>1, <1>2, <2>1
       DEF VectorTypes, Vectors!Goto, Vectors!LockGlobal, Vectors!TryFirstAgain,
           Vectors!UnlockGlobal, Vectors!ReturnFromAdd, 
       Vectors!vars, Holds
  <2>4. CASE Vectors!Call(t)
    <3>1. pc'[t] \in {"global", "first"} /\ lock' = lock
      BY <1>6, <2>4 DEF VectorTypes, Vectors!Goto, Vectors!Call, Vectors!Locking
    <3> QED BY <3>1 DEF Holds
  <2>2. CASE Vectors!TrySecondFails(t) \/ Vectors!Load(t)
    BY <1>1, <1>2, <2>2 DEF VectorTypes, Vectors!Goto, Vectors!TrySecondFails, Vectors!Load, Holds
  <2>3. CASE Vectors!Store(t)
    BY <1>1, <1>2, <1>6, <2>3
       DEF VectorTypes, Vectors!Store, Vectors!Advance, Holds, Vectors!Locking
  <2> QED BY <1>6, <2>1, <2>2, <2>3, <2>4
<1>7. ASSUME Vectors!LockFirst(t)
      PROVE  lock[Vectors!FirstLocked(t)] = Vectors!None
               /\ lock' = [lock EXCEPT ![Vectors!FirstLocked(t)] = t]
             /\ Holds(t)' = {Vectors!FirstLocked(t)}
  BY <1>1, <1>2, <1>7 DEF Vectors!LockFirst, Vectors!Lock, Vectors!Goto, VectorTypes, Holds
<1>8. ASSUME Vectors!LockSecond(t)
      PROVE  lock[Vectors!SecondLocked(t)] = Vectors!None
               /\ lock' = [lock EXCEPT ![Vectors!SecondLocked(t)] = t]
             /\ Holds(t)' = {Vectors!FirstLocked(t), Vectors!SecondLocked(t)}
                  /\ Vectors!FirstLocked(t) \in Holds(t)
  BY <1>1, <1>2, <1>4, <1>8 DEF Vectors!LockSecond, Vectors!Lock, Vectors!Goto, VectorTypes, Holds
<1>9. ASSUME Vectors!GiveUp(t)
      PROVE  lock' = [lock EXCEPT ![Vectors!Dst(t)] = Vectors!None]
               /\ Vectors!Dst(t) \in Holds(t) /\ Holds(t)' = {}
  BY <1>1, <1>2, <1>4, <1>9 DEF Vectors!GiveUp, Vectors!Goto, VectorTypes, Holds, Statements
<1>10. ASSUME Vectors!UnlockOne(t)
       PROVE  \E v \in {Vectors!Dst(t), Vectors!Src(t)} :
                /\ lock' = [lock EXCEPT ![v] = Vectors!None]
                /\ Holds(t) = {Vectors!Dst(t), Vectors!Src(t)}
                     /\ Holds(t)' = {Vectors!Dst(t), Vectors!Src(t)} \ {v}
  <2>1. pc[t] = "unlock" /\ pc'[t] = "unlockOther"
    BY <1>10 DEF Vectors!UnlockOne, Vectors!Goto, VectorTypes
  <2>2. Holds(t) = {Vectors!Dst(t), Vectors!Src(t)}
    BY <2>1 DEF Holds
  <2>3. CASE run.program = "global-order"
    <3>1. Holds(t)' = {Vectors!Dst(t)} /\ lock' = [lock EXCEPT ![Vectors!Src(t)] = Vectors!None]
      BY <1>1, <1>2, <1>10, <2>1, <2>3 DEF Vectors!UnlockOne, Holds
    <3> QED BY <1>4, <2>2, <3>1
  <2>4. CASE run.program # "global-order"
    <3>1. Holds(t)' = {Vectors!Src(t)} /\ lock' = [lock EXCEPT ![Vectors!Dst(t)] = Vectors!None]
      BY <1>1, <1>2, <1>10, <2>1, <2>4 DEF Vectors!UnlockOne, Holds
    <3> QED BY <1>4, <2>2, <3>1
  <2> QED BY <2>3, <2>4
<1>11. ASSUME Vectors!UnlockOther(t)
       PROVE  \E v \in {Vectors!Dst(t), Vectors!Src(t)} :
                lock' = [lock EXCEPT ![v] = Vectors!None] /\ v \in Holds(t) /\ Holds(t)' = {}
  BY <1>1, <1>2, <1>4, <1>11 DEF Vectors!UnlockOther, Vectors!Goto, VectorTypes, Holds
<1>12. lock \in [Vectors!Vectors -> Vectors!Threads \cup {Vectors!None}]
  BY DEF VectorTypes
<1>13. ASSUME Vectors!Locking PROVE \A u \in Vectors!Threads : \A v \in Holds(u)' : lock'[v] = u
  <2> HIDE DEF Vectors!Locking
  <2>0. \A u \in Vectors!Threads : \A v \in Holds(u) : lock[v] = u
    BY <1>13 DEF Owned
  <2>00. \A u \in Vectors!Threads : u # Vectors!None
    BY DEF Vectors!Threads, Vectors!None, VectorConstants
  <2>000. \A u \in Vectors!Threads : Holds(u) \subseteq Vectors!Vectors
    BY Ends, LockedEnds DEF Holds
  <2>1. CASE \/ Vectors!Call(t) \/ Vectors!LockGlobal(t) \/ Vectors!TryFirstAgain(t) \/ Vectors!TrySecondFails(t)
             \/ Vectors!UnlockGlobal(t) \/ Vectors!Load(t) \/ Vectors!Store(t) \/ Vectors!ReturnFromAdd(t)
    <3>1. lock' = lock /\ Holds(t)' \subseteq Holds(t)
      BY <1>6, <1>13, <2>1
    <3> QED BY <1>3, <2>0, <3>1
  <2>2. CASE Vectors!LockFirst(t)
    BY <1>3, <1>4, <1>7, <1>12, <2>0, <2>00, <2>000, <2>2
  <2>3. CASE Vectors!LockSecond(t)
    BY <1>3, <1>4, <1>8, <1>12, <2>0, <2>00, <2>000, <2>3
  <2>4. CASE Vectors!GiveUp(t)
    BY <1>3, <1>4, <1>9, <1>12, <2>0, <2>00, <2>000, <2>4
  <2>5. CASE Vectors!UnlockOne(t)
    BY <1>3, <1>4, <1>10, <1>12, <2>0, <2>00, <2>000, <2>5
  <2>6. CASE Vectors!UnlockOther(t)
    BY <1>3, <1>4, <1>11, <1>12, <2>0, <2>00, <2>000, <2>6
  <2> QED BY <2>1, <2>2, <2>3, <2>4, <2>5, <2>6 DEF Vectors!Worker
<1> QED BY <1>1, <1>13 DEF Owned, Vectors!Locking

\* A store adds one element of the source, also where nothing is locked but
\* nobody writes to a source.
StoreRight ==
  ~Vectors!Locking /\ ~run.d =>
    \A t \in Vectors!Threads : pc[t] = "store" => loaded[t] = values[Vectors!Src(t)][el[t]]

AddOne(t) ==
  [values EXCEPT ![Vectors!Dst(t)][el[t]] =
    values[Vectors!Dst(t)][el[t]] + values[Vectors!Src(t)][el[t]]]

LEMMA StoreAdds ==
  ASSUME VectorConstants, VectorTypes, LoadedRight, StoreRight, NEW t \in Vectors!Threads,
         Vectors!Store(t),
         Vectors!Locking \/ ~run.d
  PROVE  values' = AddOne(t)
<1>1. Vectors!Dst(t) \in Vectors!Vectors /\ Vectors!Src(t) \in Vectors!Vectors
        /\ el[t] \in 1..VectorSize
  BY Ends DEF VectorTypes
<1>2. values[Vectors!Dst(t)][el[t]] \in Nat /\ values[Vectors!Src(t)][el[t]] \in Nat
  BY <1>1 DEF VectorTypes
<1>3. CASE Vectors!Locking
  <2>1. loaded[t] = values[Vectors!Dst(t)][el[t]] + values[Vectors!Src(t)][el[t]]
    BY <1>3 DEF LoadedRight, Vectors!Store
  <2> QED BY <1>1, <1>3, <2>1 DEF Vectors!Store, AddOne, Vectors!Locking, VectorTypes
<1>4. CASE ~Vectors!Locking
  <2>1. loaded[t] = values[Vectors!Src(t)][el[t]]
    BY <1>4 DEF StoreRight, Vectors!Store
  <2> QED BY <1>1, <1>2, <1>4, <2>1 DEF Vectors!Store, AddOne, Vectors!Locking, VectorTypes
<1> QED BY <1>3, <1>4

LEMMA ValuesKept ==
  ASSUME VectorConstants, NEW t \in Vectors!Threads, Vectors!Worker(t), ~Vectors!Store(t)
  PROVE  values' = values
BY DEF Vectors!Worker, Vectors!Call, Vectors!LockGlobal, Vectors!LockFirst,
       Vectors!TryFirstAgain, Vectors!LockSecond, 
       Vectors!TrySecondFails, Vectors!GiveUp, Vectors!UnlockGlobal, Vectors!Load,
       Vectors!UnlockOne, Vectors!UnlockOther,
       Vectors!ReturnFromAdd, Vectors!vars

\* Only the thread that moves gets to its store.
LEMMA StoreOrLoad ==
  ASSUME VectorConstants, VectorTypes, NEW t \in Vectors!Threads, Vectors!Worker(t),
         NEW u \in Vectors!Threads, pc'[u] = "store"
  PROVE  \/ u = t /\ Vectors!Load(t) /\ el' = el
         \/ u # t /\ pc[u] = "store" /\ loaded'[u] = loaded[u] /\ el'[u] = el[u]
<1> USE DEF VectorTypes, Vectors!Goto
<1>1. CASE Vectors!Call(t) \/ Vectors!LockGlobal(t) \/ Vectors!LockFirst(t) \/ Vectors!TryFirstAgain(t) \/ Vectors!TrySecondFails(t)
           \/ Vectors!GiveUp(t) \/ Vectors!UnlockGlobal(t) \/ Vectors!UnlockOne(t) \/ Vectors!UnlockOther(t) \/ Vectors!ReturnFromAdd(t)
  <2>0. loaded' = loaded /\ el' = el
    BY <1>1 DEF Vectors!Call, Vectors!LockGlobal, Vectors!LockFirst, Vectors!TryFirstAgain,
       Vectors!TrySecondFails, Vectors!GiveUp, Vectors!UnlockGlobal, Vectors!UnlockOne,
       Vectors!UnlockOther, Vectors!ReturnFromAdd, Vectors!vars
  <2>1. CASE Vectors!Call(t)
    BY <2>0, <2>1 DEF Vectors!Call
  <2>2. CASE Vectors!TryFirstAgain(t)
    BY <2>0, <2>2 DEF Vectors!TryFirstAgain, Vectors!vars
  <2>3. CASE Vectors!LockGlobal(t) \/ Vectors!LockFirst(t) \/ Vectors!TrySecondFails(t)
           \/ Vectors!GiveUp(t) \/ Vectors!UnlockGlobal(t) \/ Vectors!UnlockOne(t) \/ Vectors!UnlockOther(t) \/ Vectors!ReturnFromAdd(t)
    BY <2>0, <2>3
       DEF Vectors!LockGlobal, Vectors!LockFirst, Vectors!TrySecondFails, Vectors!GiveUp,
           Vectors!UnlockGlobal, Vectors!UnlockOne, 
       Vectors!UnlockOther, Vectors!ReturnFromAdd
  <2> QED BY <1>1, <2>1, <2>2, <2>3
<1>2. CASE Vectors!LockSecond(t)
  BY <1>2 DEF Vectors!LockSecond
<1>3. CASE Vectors!Load(t)
  BY <1>3 DEF Vectors!Load
<1>4. CASE Vectors!Store(t)
  BY <1>4 DEF Vectors!Store, Vectors!Advance
<1> QED BY <1>1, <1>2, <1>3, <1>4 DEF Vectors!Worker

LEMMA LoadedNext ==
  ASSUME VectorConstants, VectorTypes, Statements, Owned, LoadedRight, StoreRight,
         NEW t \in Vectors!Threads, Vectors!Worker(t)
  PROVE  LoadedRight' /\ StoreRight'
<1>1. UNCHANGED run /\ VectorTypes'
  BY VectorTypesNext
<1>2. \A u \in Vectors!Threads :
        Vectors!Dst(u)' = Vectors!Dst(u) /\ Vectors!Src(u)' = Vectors!Src(u)
  BY <1>1, EndsSame
<1>3. Vectors!Locking' = Vectors!Locking
  BY <1>1 DEF Vectors!Locking
<1>4. \A u \in Vectors!Threads : /\ Vectors!Dst(u) \in Vectors!Vectors /\ Vectors!Src(u) \in Vectors!Vectors /\ Vectors!Dst(u) # Vectors!Src(u)
                                 /\ el[u] \in 1..VectorSize
  BY Ends DEF VectorTypes
<1>5. ASSUME NEW u \in Vectors!Threads, u = t, Vectors!Load(t), el' = el
      PROVE  /\ values' = values /\ loaded'[u] = values[Vectors!Src(u)][el[u]] +
                  (IF Vectors!Locking THEN values[Vectors!Dst(u)][el[u]] ELSE 0)
             /\ values[Vectors!Src(u)][el[u]] \in Nat /\ values[Vectors!Dst(u)][el[u]] \in Nat
  BY <1>4, <1>5 DEF Vectors!Load, Vectors!Locking, VectorTypes
<1>6. ASSUME Vectors!Locking, NEW u \in Vectors!Threads, pc'[u] = "store"
      PROVE  loaded'[u] = values'[Vectors!Dst(u)][el'[u]] + values'[Vectors!Src(u)][el'[u]]
  <2>1. CASE u = t /\ Vectors!Load(t) /\ el' = el
    BY <1>5, <1>6, <2>1
  <2>2. CASE u # t /\ pc[u] = "store" /\ loaded'[u] = loaded[u] /\ el'[u] = el[u]
    <3>1. loaded[u] = values[Vectors!Dst(u)][el[u]] + values[Vectors!Src(u)][el[u]]
      BY <1>6, <2>2 DEF LoadedRight
    <3>2. values'[Vectors!Dst(u)] = values[Vectors!Dst(u)]
            /\ values'[Vectors!Src(u)] = values[Vectors!Src(u)]
      <4>1. CASE Vectors!Store(t)
        <5>1. lock[Vectors!Dst(t)] = t /\ lock[Vectors!Dst(u)] = u /\ lock[Vectors!Src(u)] = u
          BY <1>6, <2>2, <4>1 DEF Owned, Holds, Vectors!Store
        <5>2. Vectors!Dst(t) # Vectors!Dst(u) /\ Vectors!Dst(t) # Vectors!Src(u)
          BY <2>2, <5>1
        <5> QED BY <1>4, <4>1, <5>2 DEF Vectors!Store, VectorTypes
      <4>2. CASE ~Vectors!Store(t)
        BY <4>2, ValuesKept
      <4> QED BY <4>1, <4>2
    <3> QED BY <2>2, <3>1, <3>2
  <2> QED BY <1>6, <2>1, <2>2, StoreOrLoad
<1>7. ASSUME ~Vectors!Locking, ~run.d, NEW u \in Vectors!Threads, pc'[u] = "store"
      PROVE  loaded'[u] = values'[Vectors!Src(u)][el'[u]]
  <2>1. CASE u = t /\ Vectors!Load(t) /\ el' = el
    BY <1>5, <1>7, <2>1
  <2>2. CASE u # t /\ pc[u] = "store" /\ loaded'[u] = loaded[u] /\ el'[u] = el[u]
    <3>1. loaded[u] = values[Vectors!Src(u)][el[u]]
      BY <1>7, <2>2 DEF StoreRight
    <3>2. values'[Vectors!Src(u)] = values[Vectors!Src(u)]
      <4>1. CASE Vectors!Store(t)
        <5>1. Vectors!Dst(t) # Vectors!Src(u)
          <6>1. CASE run.p
            BY <2>2, <6>1, EndsApart
          <6>2. CASE ~run.p
            BY <1>7, <6>2, Ends
          <6> QED BY <6>1, <6>2
        <5> QED BY <1>4, <4>1, <5>1 DEF Vectors!Store, VectorTypes
      <4>2. CASE ~Vectors!Store(t)
        BY <4>2, ValuesKept
      <4> QED BY <4>1, <4>2
    <3> QED BY <2>2, <3>1, <3>2
  <2> QED BY <1>7, <2>1, <2>2, StoreOrLoad
<1> QED BY <1>1, <1>2, <1>3, <1>6, <1>7 DEF LoadedRight, StoreRight

-----------------------------------------------------------------------------
(* The additions that a thread has done to an element.                     *)

Added(t, e) ==
  loops[t] + IF \/ pc[t] \in {"load", "store"} /\ e < el[t]
                \/ pc[t] \in {"unlock", "unlockOther", "return"}
             THEN 1 ELSE 0

AddedTo(e) == [t \in Vectors!Threads |-> Added(t, e)]

\* With -p each thread adds to its own vector, without all to the first one.
Apart ==
  ~run.d /\ run.p =>
    \A t \in Vectors!Threads : \A e \in 1..VectorSize :
      /\ values[Vectors!Src(t)][e] = Vectors!Src(t)
      /\ values[Vectors!Dst(t)][e] = Vectors!Dst(t) + Added(t, e) * Vectors!Src(t)
Together ==
  ~run.d /\ ~run.p /\ Vectors!Threads # {} =>
    \A e \in 1..VectorSize : values[1][e] = 1 /\ values[0][e] = Total(Vectors!Threads, AddedTo(e))

LEMMA AddedType ==
  ASSUME VectorConstants, VectorTypes
  PROVE  /\ \A t \in Vectors!Threads, e \in 1..VectorSize : Added(t, e) \in Nat
         /\ \A e \in 1..VectorSize : \A t \in Vectors!Threads :
              AddedTo(e)[t] = Added(t, e) /\ AddedTo(e)[t] \in Nat
         /\ IsFiniteSet(Vectors!Threads)
<1>1. \A t \in Vectors!Threads : loops[t] \in Nat
  BY DEF VectorTypes, VectorConstants
<1>2. \A t \in Vectors!Threads, e \in 1..VectorSize : Added(t, e) \in Nat
  BY <1>1 DEF Added
<1>3. IsFiniteSet(Vectors!Threads)
  <2>1. 0 \in Int /\ VectorThreads - 1 \in Int
    BY DEF VectorConstants
  <2> QED BY <2>1, FS_Interval DEF Vectors!Threads
<1> QED BY <1>2, <1>3 DEF AddedTo

LEMMA AddedNext ==
  ASSUME VectorConstants, VectorTypes, Statements, NEW t \in Vectors!Threads, Vectors!Worker(t)
  PROVE  /\ \A u \in Vectors!Threads, e \in 1..VectorSize : u # t => Added(u, e)' = Added(u, e)
         /\ ~Vectors!Store(t) => \A e \in 1..VectorSize : Added(t, e)' = Added(t, e)
         /\ Vectors!Store(t) => \A e \in 1..VectorSize :
              Added(t, e)' = IF e = el[t] THEN Added(t, e) + 1 ELSE Added(t, e)
<1> USE DEF VectorTypes, Vectors!Goto
<1>00. VectorSize \in Nat /\ VectorLoops \in Nat /\ loops[t] \in Nat /\ el[t] \in Nat
         /\ el[t] <= VectorSize /\ el[t] >= 1
  BY DEF VectorConstants
<1>1. ASSUME NEW u \in Vectors!Threads, u # t
      PROVE  pc'[u] = pc[u] /\ el'[u] = el[u] /\ loops'[u] = loops[u]
  BY <1>1
     DEF Vectors!Worker, Vectors!Call, Vectors!LockGlobal, Vectors!LockFirst,
         Vectors!TryFirstAgain, Vectors!LockSecond, 
       Vectors!TrySecondFails, Vectors!GiveUp, Vectors!UnlockGlobal, Vectors!Load,
       Vectors!Store, Vectors!Advance, Vectors!UnlockOne, Vectors!UnlockOther,
       Vectors!ReturnFromAdd, Vectors!vars
<1>2. ASSUME NEW e \in 1..VectorSize, ~Vectors!Store(t) PROVE Added(t, e)' = Added(t, e)
  <2>1. CASE Vectors!Call(t)
    <3>1. el[t] = 1 /\ pc[t] = "loop"
      BY <2>1 DEF Vectors!Call, Statements
    <3>2. pc'[t] \in {"global", "load", "first"} /\ el' = el /\ loops' = loops
      BY <2>1 DEF Vectors!Call
    <3> QED BY <3>1, <3>2 DEF Added
  <2>2. CASE Vectors!TryFirstAgain(t)
    BY <2>2 DEF Vectors!TryFirstAgain, Vectors!vars, Added
  <2>3. CASE Vectors!LockGlobal(t) \/ Vectors!LockFirst(t) \/ Vectors!TrySecondFails(t) \/ Vectors!GiveUp(t)
             \/ Vectors!UnlockOne(t) \/ Vectors!UnlockOther(t) \/ Vectors!Load(t)
    BY <2>3
       DEF Vectors!LockGlobal, Vectors!LockFirst, Vectors!TrySecondFails, Vectors!GiveUp,
           Vectors!UnlockOne, Vectors!UnlockOther, Vectors!Load, Added
  <2>4. CASE Vectors!LockSecond(t)
    <3>1. el[t] = 1 /\ pc[t] = "second"
      BY <2>4 DEF Vectors!LockSecond, Statements
    <3>2. pc'[t] \in {"unlockGlobal", "load"} /\ el' = el /\ loops' = loops
      BY <2>4 DEF Vectors!LockSecond
    <3> QED BY <3>1, <3>2 DEF Added
  <2>5. CASE Vectors!UnlockGlobal(t)
    <3>1. el[t] = 1 /\ pc[t] = "unlockGlobal"
      BY <2>5 DEF Vectors!UnlockGlobal, Statements
    <3>2. pc'[t] = "load" /\ el' = el /\ loops' = loops
      BY <2>5 DEF Vectors!UnlockGlobal
    <3> QED BY <3>1, <3>2 DEF Added
  <2>6. CASE Vectors!ReturnFromAdd(t)
    BY <1>00, <2>6 DEF Vectors!ReturnFromAdd, Added
  <2> QED BY <1>2, <2>1, <2>2, <2>3, <2>4, <2>5, <2>6 DEF Vectors!Worker
<1>3. ASSUME NEW e \in 1..VectorSize, Vectors!Store(t)
      PROVE  Added(t, e)' = IF e = el[t] THEN Added(t, e) + 1 ELSE Added(t, e)
  <2>1. pc[t] = "store" /\ loops' = loops
    BY <1>3 DEF Vectors!Store
  <2>2. CASE el[t] < VectorSize
    <3>1. pc'[t] = "load" /\ el'[t] = el[t] + 1
      BY <1>3, <2>2 DEF Vectors!Store, Vectors!Advance
    <3> QED BY <1>00, <2>1, <3>1 DEF Added
  <2>3. CASE el[t] = VectorSize
    <3>1. pc'[t] \in {"return", "unlock"}
      BY <1>00, <1>3, <2>3 DEF Vectors!Store, Vectors!Advance
    <3>2. e < el[t] \/ e = el[t]
      BY <1>00, <2>3
    <3> QED BY <1>00, <2>1, <3>1, <3>2 DEF Added
  <2> QED BY <1>00, <2>2, <2>3
<1>4. ASSUME NEW u \in Vectors!Threads, NEW e \in 1..VectorSize, u # t
      PROVE  Added(u, e)' = Added(u, e)
  BY <1>1, <1>4 DEF Added
<1> QED BY <1>2, <1>3, <1>4

LEMMA ApartNext ==
  ASSUME VectorConstants, VectorTypes, Statements, LoadedRight, StoreRight, Apart,
         NEW t \in Vectors!Threads, Vectors!Worker(t)
  PROVE  Apart'
<1>1. UNCHANGED run /\ VectorTypes'
  BY VectorTypesNext
<1>2. \A u \in Vectors!Threads :
        Vectors!Dst(u)' = Vectors!Dst(u) /\ Vectors!Src(u)' = Vectors!Src(u)
  BY <1>1, EndsSame
<1>3. \A u \in Vectors!Threads : /\ Vectors!Dst(u) \in Vectors!Vectors /\ Vectors!Src(u) \in Vectors!Vectors /\ Vectors!Dst(u) # Vectors!Src(u)
                                 /\ Vectors!Dst(u) \in Nat /\ Vectors!Src(u) \in Nat
                                      /\ el[u] \in 1..VectorSize
  BY Ends DEF VectorTypes
<1>4. ASSUME ~run.d, run.p, NEW u \in Vectors!Threads, NEW e \in 1..VectorSize
      PROVE  values'[Vectors!Src(u)][e] = Vectors!Src(u)
               /\ values'[Vectors!Dst(u)][e] = Vectors!Dst(u) + Added(u, e)' * Vectors!Src(u)
  <2>1. /\ values[Vectors!Src(u)][e] = Vectors!Src(u)
        /\ values[Vectors!Dst(u)][e] = Vectors!Dst(u) + Added(u, e) * Vectors!Src(u)
        /\ Added(u, e) \in Nat
    BY <1>4, AddedType DEF Apart
  <2>2. CASE ~Vectors!Store(t)
    <3>1. values' = values /\ Added(u, e)' = Added(u, e)
      BY <2>2, ValuesKept, AddedNext
    <3> QED BY <2>1, <3>1
  <2>3. CASE Vectors!Store(t) /\ u # t
    <3>1. Vectors!Dst(t) # Vectors!Dst(u) /\ Vectors!Dst(t) # Vectors!Src(u)
      BY <1>4, <2>3, EndsApart
    <3>2. values'[Vectors!Dst(u)] = values[Vectors!Dst(u)]
            /\ values'[Vectors!Src(u)] = values[Vectors!Src(u)]
      BY <1>3, <2>3, <3>1 DEF Vectors!Store, VectorTypes
    <3>3. Added(u, e)' = Added(u, e)
      BY <2>3, AddedNext
    <3> QED BY <2>1, <3>2, <3>3
  <2>4. CASE Vectors!Store(t) /\ u = t
    <3>1. values' = AddOne(t)
      BY <1>4, <2>4, StoreAdds
    <3>2. values'[Vectors!Src(u)] = values[Vectors!Src(u)]
      BY <1>3, <2>4, <3>1 DEF AddOne, VectorTypes
    <3>3. CASE e # el[t]
      <4>1. values'[Vectors!Dst(u)][e] = values[Vectors!Dst(u)][e]
        BY <1>3, <2>4, <3>1, <3>3 DEF AddOne, VectorTypes
      <4>2. Added(u, e)' = Added(u, e)
        BY <2>4, <3>3, AddedNext
      <4> QED BY <2>1, <3>2, <4>1, <4>2
    <3>4. CASE e = el[t]
      <4>1. values'[Vectors!Dst(u)][e] = values[Vectors!Dst(u)][e] + values[Vectors!Src(u)][e]
        BY <1>3, <2>4, <3>1, <3>4 DEF AddOne, VectorTypes
      <4>2. Added(u, e)' = Added(u, e) + 1
        BY <2>4, <3>4, AddedNext
      <4>3. (Added(u, e) + 1) * Vectors!Src(u) = Added(u, e) * Vectors!Src(u) + Vectors!Src(u)
            /\ Added(u, e) * Vectors!Src(u) \in Nat
        BY <1>3, <2>1
      <4>4. values'[Vectors!Dst(u)][e] = Vectors!Dst(u) + (Added(u, e) + 1) * Vectors!Src(u)
        BY <1>3, <2>1, <4>1, <4>3
      <4> QED BY <2>1, <3>2, <4>2, <4>4
    <3> QED BY <3>3, <3>4
  <2> QED BY <2>2, <2>3, <2>4
<1> QED BY <1>1, <1>2, <1>4 DEF Apart

LEMMA TogetherNext ==
  ASSUME VectorConstants, VectorTypes, Statements, LoadedRight, StoreRight, Together,
         NEW t \in Vectors!Threads, Vectors!Worker(t)
  PROVE  Together'
<1>1. UNCHANGED run /\ VectorTypes'
  BY VectorTypesNext
<1>2. IsFiniteSet(Vectors!Threads)
  BY AddedType
<1>3. ASSUME ~run.d, ~run.p, NEW e \in 1..VectorSize
      PROVE  values'[1][e] = 1 /\ values'[0][e] = Total(Vectors!Threads, AddedTo(e)')
  <2>1. /\ values[1][e] = 1 /\ values[0][e] = Total(Vectors!Threads, AddedTo(e))
        /\ Vectors!Dst(t) = 0 /\ Vectors!Src(t) = 1 /\ 0 \in Vectors!Vectors
             /\ 1 \in Vectors!Vectors /\ el[t] \in 1..VectorSize
    BY <1>3, Ends DEF Together, VectorTypes
  <2> DEFINE f == AddedTo(e)
             g == AddedTo(e)'
  <2>2. /\ \A u \in Vectors!Threads : f[u] = Added(u, e) /\ f[u] \in Nat
        /\ \A u \in Vectors!Threads : g[u] = Added(u, e)'
    BY AddedType DEF AddedTo
  <2>3. \A u \in Vectors!Threads : u # t => g[u] = f[u]
    BY <2>2, AddedNext
  <2>4. CASE ~Vectors!Store(t)
    <3>1. \A u \in Vectors!Threads : g[u] = f[u]
      BY <2>2, <2>4, AddedNext
    <3> HIDE DEF f, g
    <3>2. Total(Vectors!Threads, g) = Total(Vectors!Threads, f)
      BY <3>1, TotalSame
    <3> QED BY <2>1, <2>4, <3>2, ValuesKept DEF f, g
  <2>5. CASE Vectors!Store(t) /\ e # el[t]
    <3>1. \A u \in Vectors!Threads : g[u] = f[u]
      BY <2>2, <2>5, AddedNext
    <3>2. values' = AddOne(t)
      BY <1>3, <2>5, StoreAdds
    <3>3. values'[1][e] = values[1][e] /\ values'[0][e] = values[0][e]
      BY <2>1, <2>5, <3>2 DEF AddOne, VectorTypes
    <3> HIDE DEF f, g
    <3>4. Total(Vectors!Threads, g) = Total(Vectors!Threads, f)
      BY <3>1, TotalSame
    <3> QED BY <2>1, <3>3, <3>4 DEF f, g
  <2>6. CASE Vectors!Store(t) /\ e = el[t]
    <3>1. g[t] = f[t] + 1
      BY <2>2, <2>6, AddedNext
    <3>2. values' = AddOne(t)
      BY <1>3, <2>6, StoreAdds
    <3>8. Vectors!Dst(t) \in Vectors!Vectors /\ Vectors!Src(t) \in Vectors!Vectors
            /\ Vectors!Dst(t) # Vectors!Src(t)
      BY Ends
    <3>9. values'[Vectors!Dst(t)][e] = values[Vectors!Dst(t)][e] + values[Vectors!Src(t)][e]
      BY <2>1, <2>6, <3>2, <3>8 DEF AddOne, VectorTypes
    <3>10. values'[Vectors!Src(t)] = values[Vectors!Src(t)]
      BY <2>1, <2>6, <3>2, <3>8 DEF AddOne, VectorTypes
    <3>3. values'[1][e] = values[1][e] /\ values'[0][e] = values[0][e] + 1
      BY <2>1, <3>9, <3>10
    <3> HIDE DEF f, g
    <3>4. \A u \in Vectors!Threads : f[u] \in Nat /\ g[u] \in Nat
      BY <2>2, <2>3, <3>1
    <3>5. Total(Vectors!Threads, g) + f[t] = Total(Vectors!Threads, f) + g[t]
      BY <1>2, <2>3, <3>4, TotalChange
    <3>6. Total(Vectors!Threads, f) \in Nat /\ Total(Vectors!Threads, g) \in Nat
      BY <1>2, <3>4, UnitsFinite
    <3>7. Total(Vectors!Threads, g) = Total(Vectors!Threads, f) + 1
      BY <3>1, <3>4, <3>5, <3>6
    <3> QED BY <2>1, <3>3, <3>7 DEF f, g
  <2> QED BY <2>4, <2>5, <2>6
<1> QED BY <1>1, <1>3 DEF Together

VectorInv ==
  VectorTypes /\ Statements /\ Owned /\ LoadedRight /\ StoreRight /\ Apart /\ Together

LEMMA VectorInit == ASSUME VectorConstants, Vectors!Init PROVE VectorInv
<1>1. VectorTypes
  BY TypesInit
<1>2. Statements /\ Owned /\ LoadedRight /\ StoreRight
  BY DEF Vectors!Init, Statements, Owned, Holds, LoadedRight, StoreRight
<1>3. \A t \in Vectors!Threads :
        Vectors!Dst(t) \in Vectors!Vectors /\ Vectors!Src(t) \in Vectors!Vectors
          /\ Vectors!Dst(t) \in Nat /\ Vectors!Src(t) \in Nat
  BY Ends
<1>4. \A v \in Vectors!Vectors, e \in 1..VectorSize : values[v][e] = v
  BY DEF Vectors!Init, Vectors!Start
<1>5. \A t \in Vectors!Threads, e \in 1..VectorSize : Added(t, e) = 0
  BY DEF Vectors!Init, Added
<1>6. Apart
  BY <1>3, <1>4, <1>5 DEF Apart
<1>7. Together
  <2>1. ASSUME NEW e \in 1..VectorSize PROVE Total(Vectors!Threads, AddedTo(e)) = 0
    <3>1. \A t \in Vectors!Threads : AddedTo(e)[t] \in 0..0 /\ AddedTo(e)[t] = 0
      BY <1>5 DEF AddedTo
    <3>2. 0 \in Nat /\ IsFiniteSet(Vectors!Threads)
      BY <1>1, AddedType
    <3>3. Total(Vectors!Threads, AddedTo(e)) = Cardinality(Vectors!Threads) * 0
      BY <3>1, <3>2, TotalBound
    <3> QED BY <3>2, <3>3, FS_CardinalityType
  <2>2. Vectors!Threads # {} => 0 \in Vectors!Vectors /\ 1 \in Vectors!Vectors
    BY DEF Vectors!Threads, Vectors!Vectors, VectorConstants
  <2> QED BY <1>4, <2>1, <2>2 DEF Together
<1> QED BY <1>1, <1>2, <1>6, <1>7 DEF VectorInv

LEMMA VectorNext == ASSUME VectorConstants, VectorInv, [Vectors!Next]_(Vectors!vars) PROVE VectorInv'
<1>1. ASSUME NEW t \in Vectors!Threads, Vectors!Worker(t) PROVE VectorInv'
  BY <1>1, VectorTypesNext, StatementsNext, OwnedNext, LoadedNext, ApartNext, TogetherNext
     DEF VectorInv
<1>2. CASE UNCHANGED Vectors!vars
  <2>1. UNCHANGED <<run, pc, loops, el, loaded, global, lock, values>>
    BY <1>2 DEF Vectors!vars
  <2>2. \A t : Vectors!Dst(t)' = Vectors!Dst(t) /\ Vectors!Src(t)' = Vectors!Src(t)
          /\ Vectors!FirstLocked(t)' = Vectors!FirstLocked(t)
               /\ Holds(t)' = Holds(t)
    BY <2>1 DEF Vectors!Dst, Vectors!Src, Vectors!Pair, Vectors!Turned, Vectors!FirstLocked, Holds
  <2>3. \A e : AddedTo(e)' = AddedTo(e)
    BY <2>1 DEF AddedTo, Added
  <2>4. VectorTypes' /\ Statements'
    BY <2>1 DEF VectorInv, VectorTypes, Statements, Vectors!Locking
  <2>5. Owned' /\ LoadedRight' /\ StoreRight'
    BY <2>1, <2>2 DEF VectorInv, Owned, LoadedRight, StoreRight, Vectors!Locking
  <2>6. Apart'
    BY <2>1, <2>2 DEF VectorInv, Apart, Added
  <2>7. Together'
    BY <2>1, <2>3 DEF VectorInv, Together
  <2> QED BY <2>4, <2>5, <2>6, <2>7 DEF VectorInv
<1> QED BY <1>1, <1>2 DEF Vectors!Next, Vectors!Ended

LEMMA VectorHolds ==
  ASSUME VectorConstants, VectorInv
  PROVE  Vectors!TypeOK /\ Vectors!NoAdditionLost
<1>1. Vectors!TypeOK
  BY DEF VectorInv, VectorTypes, Owned, Holds, Vectors!TypeOK
<1>2. ASSUME Vectors!AllDone, ~run.d, NEW t \in Vectors!Threads, NEW e \in 1..VectorSize
      PROVE  values[Vectors!Dst(t)][e] = Vectors!Dst(t) + (IF run.p THEN VectorLoops ELSE VectorThreads * VectorLoops) * Vectors!Src(t)
  <2>1. \A u \in Vectors!Threads : Added(u, e) = VectorLoops /\ AddedTo(e)[u] = VectorLoops
    <3>1. \A u \in Vectors!Threads : pc[u] = "loop" /\ loops[u] = VectorLoops /\ VectorLoops \in Nat
      BY <1>2 DEF Vectors!AllDone, VectorConstants
    <3>2. \A u \in Vectors!Threads : Added(u, e) = VectorLoops
      BY <3>1 DEF Added
    <3> QED BY <3>2 DEF AddedTo
  <2>2. CASE run.p
    BY <1>2, <2>1, <2>2 DEF VectorInv, Apart
  <2>3. CASE ~run.p
    <3>1. values[0][e] = Total(Vectors!Threads, AddedTo(e)) /\ Vectors!Dst(t) = 0
            /\ Vectors!Src(t) = 1
      BY <1>2, <2>3, Ends DEF VectorInv, Together
    <3>2. IsFiniteSet(Vectors!Threads) /\ Cardinality(Vectors!Threads) = VectorThreads
      <4>1. VectorThreads \in Nat /\ VectorThreads - 1 \in Int /\ 0 <= VectorThreads - 1
        BY DEF VectorConstants, Vectors!Threads
      <4>2. IsFiniteSet(0..(VectorThreads - 1))
            /\ Cardinality(0..(VectorThreads - 1)) = IF 0 > VectorThreads - 1 THEN 0 ELSE (VectorThreads - 1) - 0 + 1
        BY <4>1, FS_Interval
      <4> QED BY <4>1, <4>2 DEF Vectors!Threads
    <3>3. VectorLoops \in Nat /\ \A u \in Vectors!Threads : AddedTo(e)[u] \in 0..VectorLoops
      BY <2>1 DEF VectorConstants
    <3>4. Total(Vectors!Threads, AddedTo(e)) = VectorThreads * VectorLoops
      BY <2>1, <3>2, <3>3, TotalBound
    <3>5. VectorThreads * VectorLoops \in Nat
      BY DEF VectorConstants
    <3> QED BY <2>3, <3>1, <3>4, <3>5
  <2> QED BY <2>2, <2>3
<1>3. Vectors!NoAdditionLost
  BY <1>2 DEF Vectors!NoAdditionLost
<1> QED BY <1>1, <1>3

-----------------------------------------------------------------------------
(* An addition takes effect at once.                                       *)

\* Each vector is as it was before the addition that is under way.
WholeRight ==
  Vectors!Locking =>
    /\ Vectors!Whole = [v \in Vectors!Vectors |-> [e \in 1..VectorSize |-> Vectors!Whole[v][e]]]
    /\ \A v \in Vectors!Vectors, e \in 1..VectorSize :
         /\ (\A t \in Vectors!Threads : Vectors!Dst(t) = v => e \notin Vectors!Before(t))
              => Vectors!Whole[v][e] = values[v][e]
         /\ \A t \in Vectors!Threads : Vectors!Dst(t) = v /\ e \in Vectors!Before(t)
              => Vectors!Whole[v][e] = values[v][e] - values[Vectors!Src(t)][e]

\* While a thread adds, nobody else adds to either of its vectors.
LEMMA AddsAlone ==
  ASSUME Owned, Vectors!Locking, NEW t \in Vectors!Threads, NEW u \in Vectors!Threads, t # u,
         pc[t] \in {"load", "store"}, pc[u] \in {"load", "store"}
  PROVE  Vectors!Dst(u) # Vectors!Dst(t) /\ Vectors!Src(u) # Vectors!Dst(t)
           /\ Vectors!Dst(u) # Vectors!Src(t)
BY DEF Owned, Holds

LEMMA BeforeAdds ==
  ASSUME NEW t, Vectors!Before(t) # {} PROVE pc[t] \in {"load", "store"}
BY DEF Vectors!Before

LEMMA WholeIsRight == VectorConstants => (VectorInv => WholeRight)
<1> SUFFICES ASSUME VectorConstants, VectorInv, Vectors!Locking
             PROVE  /\ Vectors!Whole = [v \in Vectors!Vectors |-> [e \in 1..VectorSize |-> Vectors!Whole[v][e]]]
                    /\ \A v \in Vectors!Vectors, e \in 1..VectorSize :
                         /\ (\A t \in Vectors!Threads : Vectors!Dst(t) = v =>
                              e \notin Vectors!Before(t))
                              => Vectors!Whole[v][e] = values[v][e]
                         /\ \A t \in Vectors!Threads : Vectors!Dst(t) = v /\ e \in Vectors!Before(t)
                              => Vectors!Whole[v][e] = values[v][e] - values[Vectors!Src(t)][e]
  BY DEF WholeRight
<1> DEFINE adder(v, e) == CHOOSE u \in Vectors!Threads : Vectors!Dst(u) = v /\ e \in Vectors!Before(u)
<1>1. Vectors!Whole = [v \in Vectors!Vectors |-> [e \in 1..VectorSize |->
                         IF \E t \in Vectors!Threads : Vectors!Dst(t) = v /\ e \in Vectors!Before(t)
                         THEN values[v][e] - values[Vectors!Src(adder(v, e))][e]
                         ELSE values[v][e]]]
  BY DEF Vectors!Whole
<1>2. ASSUME NEW t \in Vectors!Threads, NEW v, NEW e, Vectors!Dst(t) = v, e \in Vectors!Before(t)
      PROVE  adder(v, e) = t
  <2>1. /\ adder(v, e) \in Vectors!Threads /\ Vectors!Dst(adder(v, e)) = v
             /\ e \in Vectors!Before(adder(v, e))
    BY <1>2
  <2> HIDE DEF adder
  <2>2. pc[t] \in {"load", "store"} /\ pc[adder(v, e)] \in {"load", "store"}
    BY <1>2, <2>1, BeforeAdds
  <2> QED BY <1>2, <2>1, <2>2, AddsAlone DEF VectorInv
<1> HIDE DEF adder
<1>3. ASSUME NEW v \in Vectors!Vectors, NEW e \in 1..VectorSize
      PROVE  Vectors!Whole[v][e] = IF \E t \in Vectors!Threads : Vectors!Dst(t) = v /\ e \in Vectors!Before(t)
                                   THEN values[v][e] - values[Vectors!Src(adder(v, e))][e]
                                   ELSE values[v][e]
  BY <1>1
<1>4. Vectors!Whole = [v \in Vectors!Vectors |-> [e \in 1..VectorSize |-> Vectors!Whole[v][e]]]
  BY <1>1
<1>5. ASSUME NEW v \in Vectors!Vectors, NEW e \in 1..VectorSize, NEW t \in Vectors!Threads,
             Vectors!Dst(t) = v, e \in Vectors!Before(t)
      PROVE  Vectors!Whole[v][e] = values[v][e] - values[Vectors!Src(t)][e]
  BY <1>2, <1>3, <1>5
<1> QED BY <1>3, <1>4, <1>5

LEMMA BeforeNext ==
  ASSUME VectorConstants, VectorTypes, Statements, NEW t \in Vectors!Threads, Vectors!Worker(t)
  PROVE  /\ \A u \in Vectors!Threads : u # t => Vectors!Before(u)' = Vectors!Before(u)
         /\ ~Vectors!Store(t) => Vectors!Before(t)' = Vectors!Before(t)
         /\ Vectors!Store(t) /\ el[t] < VectorSize =>
              Vectors!Before(t)' = Vectors!Before(t) \cup {el[t]}
         /\ Vectors!Store(t) /\ el[t] = VectorSize => Vectors!Before(t)' = {}
         /\ Vectors!Store(t) => \A e \in 1..VectorSize : e \in Vectors!Before(t) <=> e < el[t]
<1> USE DEF VectorTypes, Vectors!Goto
<1>00. VectorSize \in Nat /\ el[t] \in Nat /\ el[t] <= VectorSize /\ el[t] >= 1
  BY DEF VectorConstants
<1>0. {e \in 1..VectorSize : e < 1} = {}
  BY <1>00
<1>1. ASSUME NEW u \in Vectors!Threads, u # t PROVE Vectors!Before(u)' = Vectors!Before(u)
  <2>1. pc'[u] = pc[u] /\ el'[u] = el[u]
    BY <1>1
       DEF Vectors!Worker, Vectors!Call, Vectors!LockGlobal, Vectors!LockFirst,
           Vectors!TryFirstAgain, Vectors!LockSecond, 
       Vectors!TrySecondFails, Vectors!GiveUp, Vectors!UnlockGlobal, Vectors!Load,
       Vectors!Store, Vectors!Advance, Vectors!UnlockOne, Vectors!UnlockOther,
       Vectors!ReturnFromAdd, Vectors!vars
  <2> QED BY <2>1 DEF Vectors!Before
<1>2. ASSUME ~Vectors!Store(t) PROVE Vectors!Before(t)' = Vectors!Before(t)
  <2>1. CASE Vectors!Load(t)
    BY <2>1 DEF Vectors!Load, Vectors!Before
  <2>2. CASE Vectors!TryFirstAgain(t)
    BY <2>2 DEF Vectors!TryFirstAgain, Vectors!vars, Vectors!Before
  <2>3. CASE ~Vectors!Load(t) /\ ~Vectors!TryFirstAgain(t)
    <3>1. pc[t] \notin {"load", "store"} /\ el' = el
      BY <1>2, <2>3
         DEF Vectors!Worker, Vectors!Call, Vectors!LockGlobal, Vectors!LockFirst,
             Vectors!LockSecond, 
       Vectors!TrySecondFails, Vectors!GiveUp, Vectors!UnlockGlobal, Vectors!UnlockOne,
       Vectors!UnlockOther, Vectors!ReturnFromAdd
    <3>2. el[t] = 1
      BY <3>1 DEF Statements
    <3> QED BY <1>0, <3>1, <3>2 DEF Vectors!Before
  <2> QED BY <2>1, <2>2, <2>3
<1>3. ASSUME Vectors!Store(t) PROVE Vectors!Before(t) = {e \in 1..VectorSize : e < el[t]}
  BY <1>3 DEF Vectors!Store, Vectors!Before
<1>4. ASSUME Vectors!Store(t), el[t] < VectorSize
      PROVE  Vectors!Before(t)' = Vectors!Before(t) \cup {el[t]}
  <2>1. pc'[t] = "load" /\ el'[t] = el[t] + 1
    BY <1>4 DEF Vectors!Store, Vectors!Advance
  <2>2. Vectors!Before(t)' = {e \in 1..VectorSize : e < el[t] + 1}
    BY <2>1 DEF Vectors!Before
  <2>3. \A e \in 1..VectorSize : e < el[t] + 1 <=> e < el[t] \/ e = el[t]
    BY <1>00
  <2> QED BY <1>3, <1>4, <2>2, <2>3
<1>5. ASSUME Vectors!Store(t), el[t] = VectorSize PROVE Vectors!Before(t)' = {}
  <2>1. pc'[t] \in {"return", "unlock"}
    BY <1>00, <1>5 DEF Vectors!Store, Vectors!Advance
  <2> QED BY <2>1 DEF Vectors!Before
<1> QED BY <1>1, <1>2, <1>3, <1>4, <1>5

\* Every step leaves the vectors that it does not complete as they are.
LEMMA WholeNext ==
  ASSUME VectorConstants, VectorInv, VectorInv', Vectors!Locking, NEW t \in Vectors!Threads,
         Vectors!Worker(t),
         NEW v \in Vectors!Vectors, NEW e \in 1..VectorSize
  PROVE  Vectors!Whole'[v][e] = IF Vectors!Store(t) /\ el[t] = VectorSize /\ v = Vectors!Dst(t)
                                THEN Vectors!Whole[v][e] + Vectors!Whole[Vectors!Src(t)][e] ELSE Vectors!Whole[v][e]
<1>1. WholeRight
  BY WholeIsRight
<1>2. WholeRight'
  BY WholeIsRight, PTL
<1>3. UNCHANGED run /\ VectorTypes /\ Statements /\ Owned /\ Owned' /\ LoadedRight /\ StoreRight
  BY VectorTypesNext DEF VectorInv
<1>4. Vectors!Locking' /\ \A u \in Vectors!Threads :
        Vectors!Dst(u)' = Vectors!Dst(u) /\ Vectors!Src(u)' = Vectors!Src(u)
  BY <1>3, EndsSame DEF Vectors!Locking
<1>5. \A u \in Vectors!Threads : /\ Vectors!Dst(u) \in Vectors!Vectors /\ Vectors!Src(u) \in Vectors!Vectors /\ Vectors!Dst(u) # Vectors!Src(u)
                                 /\ el[u] \in 1..VectorSize
  BY <1>3, Ends DEF VectorTypes
<1>6. \A w \in Vectors!Vectors, i \in 1..VectorSize : values[w][i] \in Nat
  BY <1>3 DEF VectorTypes
<1>7. CASE ~Vectors!Store(t)
  <2>1. values' = values
    BY <1>7, ValuesKept
  <2>2. \A u \in Vectors!Threads : Vectors!Before(u)' = Vectors!Before(u)
    BY <1>3, <1>7, BeforeNext
  <2>3. CASE \A u \in Vectors!Threads : Vectors!Dst(u) = v => e \notin Vectors!Before(u)
    <3>1. Vectors!Whole[v][e] = values[v][e]
      BY <1>1, <2>3 DEF WholeRight
    <3>2. Vectors!Whole'[v][e] = values'[v][e]
      BY <1>2, <1>4, <2>2, <2>3 DEF WholeRight
    <3> QED BY <1>7, <2>1, <3>1, <3>2
  <2>4. ASSUME NEW u \in Vectors!Threads, Vectors!Dst(u) = v, e \in Vectors!Before(u)
        PROVE  Vectors!Whole'[v][e] = Vectors!Whole[v][e]
    <3>1. Vectors!Whole[v][e] = values[v][e] - values[Vectors!Src(u)][e]
      BY <1>1, <2>4 DEF WholeRight
    <3>2. Vectors!Whole'[v][e] = values'[v][e] - values'[Vectors!Src(u)][e]
      BY <1>2, <1>4, <2>2, <2>4 DEF WholeRight
    <3> QED BY <2>1, <3>1, <3>2
  <2> QED BY <1>7, <2>3, <2>4
<1>8. CASE Vectors!Store(t)
  <2>1. values' = AddOne(t) /\ pc[t] = "store"
    BY <1>3, <1>8, StoreAdds DEF Vectors!Store
  <2>2. \A w \in Vectors!Vectors : w # Vectors!Dst(t) => values'[w] = values[w]
    BY <1>3, <1>5, <2>1 DEF AddOne, VectorTypes
  <2>3. \A u \in Vectors!Threads : Vectors!Before(u) # {} /\ u # t =>
          Vectors!Dst(u) # Vectors!Dst(t) /\ Vectors!Src(u) # Vectors!Dst(t)
            /\ Vectors!Dst(u) # Vectors!Src(t)
    BY <1>3, <2>1, BeforeAdds, AddsAlone
  <2>4. \A u \in Vectors!Threads : u # t => Vectors!Before(u)' = Vectors!Before(u)
    BY <1>3, BeforeNext
  <2>5. CASE v # Vectors!Dst(t)
    <3>1. CASE \A u \in Vectors!Threads : Vectors!Dst(u) = v => e \notin Vectors!Before(u)
      <4>1. Vectors!Whole[v][e] = values[v][e]
        BY <1>1, <3>1 DEF WholeRight
      <4>2. \A u \in Vectors!Threads : Vectors!Dst(u) = v => e \notin Vectors!Before(u)'
        BY <2>4, <2>5, <3>1
      <4>3. Vectors!Whole'[v][e] = values'[v][e]
        BY <1>2, <1>4, <4>2 DEF WholeRight
      <4> QED BY <2>2, <2>5, <4>1, <4>3
    <3>2. ASSUME NEW u \in Vectors!Threads, Vectors!Dst(u) = v, e \in Vectors!Before(u)
          PROVE  Vectors!Whole'[v][e] = Vectors!Whole[v][e]
      <4>1. u # t /\ e \in Vectors!Before(u)' /\ Vectors!Src(u) # Vectors!Dst(t)
        BY <2>3, <2>4, <2>5, <3>2
      <4>2. Vectors!Whole[v][e] = values[v][e] - values[Vectors!Src(u)][e]
        BY <1>1, <3>2 DEF WholeRight
      <4>3. Vectors!Whole'[v][e] = values'[v][e] - values'[Vectors!Src(u)][e]
        BY <1>2, <1>4, <3>2, <4>1 DEF WholeRight
      <4>4. values'[v] = values[v] /\ values'[Vectors!Src(u)] = values[Vectors!Src(u)]
        BY <1>5, <2>2, <2>5, <4>1
      <4> QED BY <4>2, <4>3, <4>4
    <3> QED BY <2>5, <3>1, <3>2
  <2>6. CASE v = Vectors!Dst(t)
    <3>0. /\ values'[v][e] = IF e = el[t] THEN values[v][e] + values[Vectors!Src(t)][e]
                             ELSE values[v][e]
          /\ values'[Vectors!Src(t)][e] = values[Vectors!Src(t)][e]
      BY <1>3, <1>5, <2>1, <2>6 DEF AddOne, VectorTypes
    <3>1. e \in Vectors!Before(t) <=> e < el[t]
      BY <1>3, <1>8, BeforeNext
    <3>2. Vectors!Whole[v][e] = IF e < el[t] THEN values[v][e] - values[Vectors!Src(t)][e] ELSE values[v][e]
      <4>1. CASE e < el[t]
        BY <1>1, <2>6, <3>1, <4>1 DEF WholeRight
      <4>2. CASE ~(e < el[t])
        <5>1. \A u \in Vectors!Threads : Vectors!Dst(u) = v => e \notin Vectors!Before(u)
          BY <2>3, <2>6, <3>1, <4>2
        <5> QED BY <1>1, <4>2, <5>1 DEF WholeRight
      <4> QED BY <4>1, <4>2
    <3>3. \A u \in Vectors!Threads : Vectors!Dst(u) = v /\ u # t => e \notin Vectors!Before(u)'
      BY <2>3, <2>4, <2>6
    <3>4. values[v][e] \in Nat /\ values[Vectors!Src(t)][e] \in Nat
      BY <1>5, <1>6
    <3>5. e \in Nat /\ el[t] \in Nat /\ el[t] <= VectorSize /\ VectorSize \in Nat /\ e <= VectorSize
      BY <1>5 DEF VectorConstants
    <3>6. CASE el[t] < VectorSize
      <4>1. e \in Vectors!Before(t)' <=> e < el[t] \/ e = el[t]
        BY <1>3, <1>8, <3>1, <3>6, BeforeNext
      <4>2. CASE e < el[t] \/ e = el[t]
        <5>1. Vectors!Whole'[v][e] = values'[v][e] - values'[Vectors!Src(t)][e]
          BY <1>2, <1>4, <2>6, <4>1, <4>2 DEF WholeRight
        <5> QED BY <3>0, <3>2, <3>4, <3>5, <3>6, <4>2, <5>1
      <4>3. CASE ~(e < el[t] \/ e = el[t])
        <5>1. \A u \in Vectors!Threads : Vectors!Dst(u) = v => e \notin Vectors!Before(u)'
          BY <3>3, <4>1, <4>3
        <5>2. Vectors!Whole'[v][e] = values'[v][e]
          BY <1>2, <1>4, <5>1 DEF WholeRight
        <5> QED BY <3>0, <3>2, <3>5, <3>6, <4>3, <5>2
      <4> QED BY <4>2, <4>3
    <3>7. CASE el[t] = VectorSize
      <4>1. \A u \in Vectors!Threads : Vectors!Dst(u) = v => e \notin Vectors!Before(u)'
        BY <1>3, <1>8, <3>3, <3>7, BeforeNext
      <4>2. Vectors!Whole'[v][e] = values'[v][e]
        BY <1>2, <1>4, <4>1 DEF WholeRight
      <4>3. Vectors!Whole[Vectors!Src(t)][e] = values[Vectors!Src(t)][e]
        <5>1. \A u \in Vectors!Threads : Vectors!Dst(u) = Vectors!Src(t) =>
                e \notin Vectors!Before(u)
          BY <1>5, <2>3
        <5> QED BY <1>1, <1>5, <5>1 DEF WholeRight
      <4>4. e < el[t] \/ e = el[t]
        BY <3>5, <3>7
      <4>5. Vectors!Whole'[v][e] = Vectors!Whole[v][e] + Vectors!Whole[Vectors!Src(t)][e]
        BY <3>0, <3>2, <3>4, <3>5, <4>2, <4>3, <4>4
      <4> QED BY <1>8, <2>6, <3>7, <4>5
    <3> QED BY <3>5, <3>6, <3>7
  <2> QED BY <2>5, <2>6
<1> QED BY <1>7, <1>8

LEMMA VectorAbstractInit == ASSUME VectorConstants, Vectors!Init PROVE Vectors!Abstract!Init
<1>1. \A t \in Vectors!Threads : Vectors!Before(t) = {}
  BY DEF Vectors!Init, Vectors!Before
<1>2. \A v \in Vectors!Vectors, e \in 1..VectorSize : values[v][e] = v
  BY DEF Vectors!Init, Vectors!Start
<1>3. Vectors!Whole = [v \in Vectors!Vectors |-> [e \in 1..VectorSize |-> v]]
  BY <1>1, <1>2 DEF Vectors!Whole
<1> QED BY <1>3 DEF Vectors!Abstract!Init, Vectors!Start

LEMMA VectorAbstractNext ==
  ASSUME VectorConstants, VectorInv, VectorInv', Vectors!Locking, [Vectors!Next]_(Vectors!vars)
  PROVE  [Vectors!Abstract!Next]_(Vectors!Whole)
<1>1. ASSUME NEW t \in Vectors!Threads, Vectors!Worker(t)
      PROVE  [Vectors!Abstract!Next]_(Vectors!Whole)
  <2>0. WholeRight /\ WholeRight'
    BY WholeIsRight, PTL
  <2>00. Vectors!Locking' /\ Vectors!Dst(t) \in Vectors!Vectors
           /\ Vectors!Src(t) \in Vectors!Vectors /\ Vectors!Dst(t) # Vectors!Src(t)
    BY <1>1, VectorTypesNext, Ends DEF VectorInv, Vectors!Locking
  <2>1. /\ Vectors!Whole = [v \in Vectors!Vectors |-> [e \in 1..VectorSize |-> Vectors!Whole[v][e]]]
        /\ Vectors!Whole' = [v \in Vectors!Vectors |-> [e \in 1..VectorSize |-> Vectors!Whole'[v][e]]]
    BY <2>0, <2>00 DEF WholeRight
  <2>2. CASE Vectors!Store(t) /\ el[t] = VectorSize
    <3>1. \A v \in Vectors!Vectors, e \in 1..VectorSize :
            Vectors!Whole'[v][e] = IF v = Vectors!Dst(t) THEN Vectors!Whole[v][e] + Vectors!Whole[Vectors!Src(t)][e] ELSE Vectors!Whole[v][e]
      BY <1>1, <2>2, WholeNext
    <3> DEFINE sum == [e \in 1..VectorSize |-> Vectors!Whole[Vectors!Dst(t)][e] + Vectors!Whole[Vectors!Src(t)][e]]
    <3>4. ASSUME NEW v \in Vectors!Vectors
          PROVE  Vectors!Whole'[v] = IF v = Vectors!Dst(t) THEN sum ELSE Vectors!Whole[v]
      <4>1. /\ Vectors!Whole[v] = [e \in 1..VectorSize |-> Vectors!Whole[v][e]]
            /\ Vectors!Whole'[v] = [e \in 1..VectorSize |-> Vectors!Whole'[v][e]]
        BY <2>1
      <4>2. CASE v = Vectors!Dst(t)
        <5>1. \A e \in 1..VectorSize :
                Vectors!Whole'[v][e] =
                  Vectors!Whole[Vectors!Dst(t)][e] + Vectors!Whole[Vectors!Src(t)][e]
          BY <3>1, <4>2
        <5> QED BY <4>1, <4>2, <5>1
      <4>3. CASE v # Vectors!Dst(t)
        <5>1. \A e \in 1..VectorSize : Vectors!Whole'[v][e] = Vectors!Whole[v][e]
          BY <3>1, <4>3
        <5> QED BY <4>1, <4>3, <5>1
      <4> QED BY <4>2, <4>3
    <3> HIDE DEF sum
    <3>5. /\ Vectors!Whole' = [v \in Vectors!Vectors |-> Vectors!Whole'[v]]
          /\ Vectors!Whole = [v \in Vectors!Vectors |-> Vectors!Whole[v]]
      <4>1. Vectors!Whole' = [v \in Vectors!Vectors |-> Vectors!Whole'[v]]
        BY DEF Vectors!Whole
      <4>2. Vectors!Whole = [v \in Vectors!Vectors |-> Vectors!Whole[v]]
        BY DEF Vectors!Whole
      <4> QED BY <4>1, <4>2
    <3>6. Vectors!Whole' = [Vectors!Whole EXCEPT ![Vectors!Dst(t)] = sum]
      BY <2>00, <3>4, <3>5
    <3>2. Vectors!Whole' = [Vectors!Whole EXCEPT ![Vectors!Dst(t)] = [e \in 1..VectorSize |-> @[e] + Vectors!Whole[Vectors!Src(t)][e]]]
      BY <3>6 DEF sum
    <3> QED BY <2>00, <3>2 DEF Vectors!Abstract!Next, Vectors!Abstract!Add
  <2>3. CASE ~(Vectors!Store(t) /\ el[t] = VectorSize)
    <3>1. \A v \in Vectors!Vectors, e \in 1..VectorSize : Vectors!Whole'[v][e] = Vectors!Whole[v][e]
      BY <1>1, <2>3, WholeNext
    <3> QED BY <2>1, <3>1
  <2> QED BY <2>2, <2>3
<1>2. CASE UNCHANGED Vectors!vars
  <2>1. UNCHANGED <<run, pc, loops, el, loaded, global, lock, values>>
    BY <1>2 DEF Vectors!vars
  <2>2. Vectors!Whole' = Vectors!Whole
    BY <2>1
       DEF Vectors!Whole, Vectors!Before, Vectors!Dst, Vectors!Src, Vectors!Pair, Vectors!Turned
  <2> QED BY <2>2
<1> QED BY <1>1, <1>2 DEF Vectors!Next, Vectors!Ended

-----------------------------------------------------------------------------
(* The thread API exercises.                                               *)

LEMMA Joined ==
  ASSUME NEW S, NEW s \in Seq(S), NEW t \in Seq(S), NEW u \in Seq(S),
         Len(u) = Len(s) + Len(t),
         \A i \in 1..Len(s) : u[i] = s[i], \A i \in 1..Len(t) : u[Len(s) + i] = t[i]
  PROVE  s \o t = u
<1>1. s \o t \in Seq(S) /\ Len(s \o t) = Len(u)
  OBVIOUS
<1>2. \A i \in 1..Len(u) : (s \o t)[i] = u[i]
  <2> SUFFICES ASSUME NEW i \in 1..Len(u) PROVE (s \o t)[i] = u[i]
    OBVIOUS
  <2>1. CASE i <= Len(s)
    BY <2>1
  <2>2. CASE i > Len(s)
    <3>1. i - Len(s) \in 1..Len(t) /\ i = Len(s) + (i - Len(s))
      BY <2>2
    <3> QED BY <3>1
  <2> QED BY <2>1, <2>2
<1> QED BY <1>1, <1>2, SeqEqual

LEMMA Cat21 ==
  ASSUME NEW a, NEW b, NEW c
  PROVE  <<a, b>> \o <<c>> = <<a, b, c>>
<1> DEFINE S == {a, b, c}
           s == <<a, b>>
           t == <<c>>
           u == <<a, b, c>>
<1>1. s \in Seq(S) /\ t \in Seq(S) /\ u \in Seq(S)
  OBVIOUS
<1>2. /\ Len(u) = Len(s) + Len(t)
      /\ \A i \in 1..Len(s) : u[i] = s[i]
      /\ \A i \in 1..Len(t) : u[Len(s) + i] = t[i]
  OBVIOUS
<1> HIDE DEF S, s, t, u
<1>3. s \o t = u
  BY <1>1, <1>2, Joined
<1> QED BY <1>3 DEF s, t, u

LEMMA Cat22 ==
  ASSUME NEW a, NEW b, NEW c, NEW d
  PROVE  <<a, b>> \o <<c, d>> = <<a, b, c, d>>
<1> DEFINE S == {a, b, c, d}
           s == <<a, b>>
           t == <<c, d>>
           u == <<a, b, c, d>>
<1>1. s \in Seq(S) /\ t \in Seq(S) /\ u \in Seq(S)
  OBVIOUS
<1>2. /\ Len(u) = Len(s) + Len(t)
      /\ \A i \in 1..Len(s) : u[i] = s[i]
      /\ \A i \in 1..Len(t) : u[Len(s) + i] = t[i]
  OBVIOUS
<1> HIDE DEF S, s, t, u
<1>3. s \o t = u
  BY <1>1, <1>2, Joined
<1> QED BY <1>3 DEF s, t, u

LEMMA Cat12 ==
  ASSUME NEW a, NEW b, NEW c
  PROVE  <<a>> \o <<b, c>> = <<a, b, c>>
<1> DEFINE S == {a, b, c}
           s == <<a>>
           t == <<b, c>>
           u == <<a, b, c>>
<1>1. s \in Seq(S) /\ t \in Seq(S) /\ u \in Seq(S)
  OBVIOUS
<1>2. /\ Len(u) = Len(s) + Len(t)
      /\ \A i \in 1..Len(s) : u[i] = s[i]
      /\ \A i \in 1..Len(t) : u[Len(s) + i] = t[i]
  OBVIOUS
<1> HIDE DEF S, s, t, u
<1>3. s \o t = u
  BY <1>1, <1>2, Joined
<1> QED BY <1>3 DEF s, t, u

LEMMA Cat31 ==
  ASSUME NEW a, NEW b, NEW c, NEW d
  PROVE  <<a, b, c>> \o <<d>> = <<a, b, c, d>>
<1> DEFINE S == {a, b, c, d}
           s == <<a, b, c>>
           t == <<d>>
           u == <<a, b, c, d>>
<1>1. s \in Seq(S) /\ t \in Seq(S) /\ u \in Seq(S)
  OBVIOUS
<1>2. /\ Len(u) = Len(s) + Len(t)
      /\ \A i \in 1..Len(s) : u[i] = s[i]
      /\ \A i \in 1..Len(t) : u[Len(s) + i] = t[i]
  OBVIOUS
<1> HIDE DEF S, s, t, u
<1>3. s \o t = u
  BY <1>1, <1>2, Joined
<1> QED BY <1>3 DEF s, t, u

LEMMA Cat41 ==
  ASSUME NEW a, NEW b, NEW c, NEW d, NEW e
  PROVE  <<a, b, c, d>> \o <<e>> = <<a, b, c, d, e>>
<1> DEFINE S == {a, b, c, d, e}
           s == <<a, b, c, d>>
           t == <<e>>
           u == <<a, b, c, d, e>>
<1>1. s \in Seq(S) /\ t \in Seq(S) /\ u \in Seq(S)
  OBVIOUS
<1>2. /\ Len(u) = Len(s) + Len(t)
      /\ \A i \in 1..Len(s) : u[i] = s[i]
      /\ \A i \in 1..Len(t) : u[Len(s) + i] = t[i]
  OBVIOUS
<1> HIDE DEF S, s, t, u
<1>3. s \o t = u
  BY <1>1, <1>2, Joined
<1> QED BY <1>3 DEF s, t, u

LEMMA Cat14 ==
  ASSUME NEW a, NEW b, NEW c, NEW d, NEW e
  PROVE  <<a>> \o <<b, c, d, e>> = <<a, b, c, d, e>>
<1> DEFINE S == {a, b, c, d, e}
           s == <<a>>
           t == <<b, c, d, e>>
           u == <<a, b, c, d, e>>
<1>1. s \in Seq(S) /\ t \in Seq(S) /\ u \in Seq(S)
  OBVIOUS
<1>2. /\ Len(u) = Len(s) + Len(t)
      /\ \A i \in 1..Len(s) : u[i] = s[i]
      /\ \A i \in 1..Len(t) : u[Len(s) + i] = t[i]
  OBVIOUS
<1> HIDE DEF S, s, t, u
<1>3. s \o t = u
  BY <1>1, <1>2, Joined
<1> QED BY <1>3 DEF s, t, u

LEMMA Cat51 ==
  ASSUME NEW a, NEW b, NEW c, NEW d, NEW e, NEW f
  PROVE  <<a, b, c, d, e>> \o <<f>> = <<a, b, c, d, e, f>>
<1> DEFINE S == {a, b, c, d, e, f}
           s == <<a, b, c, d, e>>
           t == <<f>>
           u == <<a, b, c, d, e, f>>
<1>1. s \in Seq(S) /\ t \in Seq(S) /\ u \in Seq(S)
  OBVIOUS
<1>2. /\ Len(u) = Len(s) + Len(t)
      /\ \A i \in 1..Len(s) : u[i] = s[i]
      /\ \A i \in 1..Len(t) : u[Len(s) + i] = t[i]
  OBVIOUS
<1> HIDE DEF S, s, t, u
<1>3. s \o t = u
  BY <1>1, <1>2, Joined
<1> QED BY <1>3 DEF s, t, u

-----------------------------------------------------------------------------
(* The bodies, statement by statement.                                     *)

Crossed(a, b) == <<API!Lock(a), API!Lock(b), API!Unlock("m1"), API!Unlock("m2")>>
Guarded(a, b) ==
  <<API!Lock("g"), API!Lock(a), API!Lock(b), API!Unlock("m1"), API!Unlock("m2"), API!Unlock("g")>>

LEMMA Bodies ==
  /\ api = "main-deadlock" =>
       /\ API!Body(0) = Crossed("m1", "m2") /\ API!Body(1) = Crossed("m2", "m1")
       /\ API!Body(2) = <<API!Do("join")>>
  /\ api = "main-deadlock-global" =>
       /\ API!Body(0) = Guarded("m1", "m2") /\ API!Body(1) = Guarded("m2", "m1")
       /\ API!Body(2) = <<API!Do("join")>>
  /\ api = "main-race" =>
       /\ API!Body(0) = <<API!Do("load"), API!Do("store")>> /\ API!Body(1) = <<>>
       /\ API!Body(2) = <<API!Do("load"), API!Do("store"), API!Do("join")>>
  /\ api = "main-race-fix" =>
       /\ API!Body(0) = <<API!Lock("lock"), API!Do("load"), API!Do("store"), API!Unlock("lock")>>
       /\ API!Body(1) = <<>>
       /\ API!Body(2) = <<API!Lock("lock"), API!Do("load"), API!Do("store"), API!Unlock("lock"), API!Do("join")>>
  /\ api = "main-signal" =>
       /\ API!Body(0) = <<API!Say("first"), API!Do("set")>> /\ API!Body(1) = <<>>
       /\ API!Body(2) = <<API!Do("spin"), API!Say("last")>>
  /\ api = "main-signal-cv" =>
       /\ API!Body(0) = <<API!Say("first"), API!Lock("lock"), API!Do("set"), API!Do("signal"), API!Unlock("lock")>>
       /\ API!Body(1) = <<>>
       /\ API!Body(2) = <<API!Lock("lock"), API!Do("wait"), API!Unlock("lock"), API!Say("last")>>
  /\ api = "fork-join" =>
       /\ API!Body(0) = <<API!Say("first"), API!Do("release")>> /\ API!Body(1) = <<>>
       /\ API!Body(2) = <<API!Do("acquire"), API!Say("last"), API!Do("join")>>
<1>1. API!CrossedLocks(0) = Crossed("m1", "m2") /\ API!CrossedLocks(1) = Crossed("m2", "m1")
  BY Cat22 DEF API!CrossedLocks, Crossed
<1>2. ASSUME NEW a, NEW b
      PROVE  <<API!Lock("g")>> \o Crossed(a, b) \o <<API!Unlock("g")>> = Guarded(a, b)
  <2>1. <<API!Lock("g")>> \o Crossed(a, b)
          = <<API!Lock("g"), API!Lock(a), API!Lock(b), API!Unlock("m1"), API!Unlock("m2")>>
    BY Cat14 DEF Crossed
  <2> QED BY <2>1, Cat51 DEF Guarded
<1>3. API!Increment \o <<API!Do("join")>> = <<API!Do("load"), API!Do("store"), API!Do("join")>>
  BY Cat21 DEF API!Increment
<1>4. API!LockedIncrement =
        <<API!Lock("lock"), API!Do("load"), API!Do("store"), API!Unlock("lock")>>
  <2>1. <<API!Lock("lock")>> \o API!Increment =
          <<API!Lock("lock"), API!Do("load"), API!Do("store")>>
    BY Cat12 DEF API!Increment
  <2> QED BY <2>1, Cat31 DEF API!LockedIncrement
<1>5. API!LockedIncrement \o <<API!Do("join")>>
        = <<API!Lock("lock"), API!Do("load"), API!Do("store"), API!Unlock("lock"), API!Do("join")>>
  BY <1>4, Cat41
<1>6. <<API!Say("first")>> \o API!SignalDone
        = <<API!Say("first"), API!Lock("lock"), API!Do("set"), API!Do("signal"), API!Unlock("lock")>>
  BY Cat14 DEF API!SignalDone
<1>7. API!SignalWait \o <<API!Say("last")>>
        = <<API!Lock("lock"), API!Do("wait"), API!Unlock("lock"), API!Say("last")>>
  BY Cat31 DEF API!SignalWait
<1>8. API!Main = 2 /\ 0 # 2 /\ 1 # 2 /\ 0 # 1
  BY DEF API!Main
<1>9. CASE api = "main-deadlock"
  BY <1>1, <1>8, <1>9 DEF API!Body
<1>10. CASE api = "main-deadlock-global"
  BY <1>1, <1>2, <1>8, <1>10 DEF API!Body
<1>11. CASE api = "main-race"
  BY <1>3, <1>8, <1>11 DEF API!Body, API!MainOr, API!Increment
<1>12. CASE api = "main-race-fix"
  BY <1>4, <1>5, <1>8, <1>12 DEF API!Body, API!MainOr
<1>13. CASE api = "main-signal"
  BY <1>8, <1>13 DEF API!Body, API!MainOr
<1>14. CASE api = "main-signal-cv"
  BY <1>6, <1>7, <1>8, <1>14 DEF API!Body, API!MainOr
<1>15. CASE api = "fork-join"
  BY <1>8, <1>15 DEF API!Body, API!MainOr
<1> QED BY <1>9, <1>10, <1>11, <1>12, <1>13, <1>14, <1>15

-----------------------------------------------------------------------------
(* Mutexes are unlocked by the thread that has them.                       *)

\* A thread that is at statement n of the body b has locked m.
Locked(b, m, n) ==
  \E k \in 1 .. (n - 1) : b[k] = API!Lock(m) /\ \A l \in k .. (n - 1) : b[l] # API!Unlock(m)

WellLocked(b) ==
  \A n \in 1..Len(b) :
    /\ b[n].op = "lock" => b[n].arg \in API!Mutexes /\ b[n] = API!Lock(b[n].arg)
    /\ b[n].op = "unlock" =>
         b[n].arg \in API!Mutexes /\ b[n] = API!Unlock(b[n].arg) /\ Locked(b, b[n].arg, n)
    /\ b[n].op = "wait" => \A m \in API!Mutexes : Locked(b, m, n) <=> m = "lock"

LEMMA LockedStep ==
  ASSUME NEW b, NEW m, NEW n \in Nat \ {0}
  PROVE  Locked(b, m, n + 1) <=> b[n] # API!Unlock(m) /\ (b[n] = API!Lock(m) \/ Locked(b, m, n))
<1>1. 1..(n + 1 - 1) = 1..(n - 1) \cup {n} /\ n + 1 - 1 = n
  OBVIOUS
<1>2. \A k \in 1..(n - 1) : k..n = k..(n - 1) \cup {n}
  OBVIOUS
<1>3. n..n = {n}
  OBVIOUS
<1>4. ASSUME Locked(b, m, n + 1)
      PROVE  b[n] # API!Unlock(m) /\ (b[n] = API!Lock(m) \/ Locked(b, m, n))
  BY <1>1, <1>2, <1>3, <1>4 DEF Locked
<1>5. ASSUME b[n] # API!Unlock(m), b[n] = API!Lock(m) PROVE Locked(b, m, n + 1)
  BY <1>1, <1>3, <1>5 DEF Locked
<1>6. ASSUME b[n] # API!Unlock(m), Locked(b, m, n) PROVE Locked(b, m, n + 1)
  BY <1>1, <1>2, <1>6 DEF Locked
<1> QED BY <1>4, <1>5, <1>6

LEMMA LockedFirst ==
  ASSUME NEW b, NEW m PROVE ~Locked(b, m, 1)
BY DEF Locked

\* The statements that lock, unlock or wait are told apart by their op.
LEMMA Ops ==
  \A m : /\ API!Lock(m).op = "lock" /\ API!Lock(m).arg = m
         /\ API!Unlock(m).op = "unlock" /\ API!Unlock(m).arg = m
         /\ API!Say(m).op = "print" /\ API!Say(m).arg = m
         /\ API!Do(m).op = m
         /\ \A n : API!Lock(n) # API!Unlock(m) /\ (API!Lock(n) = API!Lock(m) => m = n)
                   /\ (API!Unlock(n) = API!Unlock(m) => m = n)
BY DEF API!Lock, API!Unlock, API!Say, API!Do

LEMMA OneLock ==
  ASSUME NEW b, NEW k \in Nat \ {0}, NEW n \in Nat, k < n, NEW m, b[k] = API!Lock(m),
         \A l \in (k + 1) .. (n - 1) : b[l].op # "unlock"
  PROVE  Locked(b, m, n)
<1>1. k \in 1..(n - 1)
  OBVIOUS
<1>2. \A l \in k..(n - 1) : l = k \/ l \in (k + 1)..(n - 1)
  OBVIOUS
<1>3. \A l \in k..(n - 1) : b[l] # API!Unlock(m)
  BY <1>2, Ops
<1> QED BY <1>1, <1>3 DEF Locked

LEMMA NoLocks ==
  ASSUME NEW b, \A n \in 1..Len(b) : b[n].op \notin {"lock", "unlock", "wait"}
  PROVE  WellLocked(b)
BY DEF WellLocked

\* A statement of a body is as WellLocked has it.
WellAt(b, n) ==
  /\ b[n].op = "lock" => b[n].arg \in API!Mutexes /\ b[n] = API!Lock(b[n].arg)
  /\ b[n].op = "unlock" =>
       b[n].arg \in API!Mutexes /\ b[n] = API!Unlock(b[n].arg) /\ Locked(b, b[n].arg, n)
  /\ b[n].op = "wait" => \A m \in API!Mutexes : Locked(b, m, n) <=> m = "lock"

LEMMA WellAtEach ==
  ASSUME NEW b, NEW n
  PROVE  /\ \A m \in API!Mutexes : b[n] = API!Lock(m) => WellAt(b, n)
         /\ \A m \in API!Mutexes : b[n] = API!Unlock(m) /\ Locked(b, m, n) => WellAt(b, n)
         /\ b[n].op \notin {"lock", "unlock", "wait"} => WellAt(b, n)
         /\ b[n] = API!Do("wait") /\ (\A m \in API!Mutexes : Locked(b, m, n) <=> m = "lock") =>
              WellAt(b, n)
<1>1. ASSUME NEW m \in API!Mutexes, b[n] = API!Lock(m) PROVE WellAt(b, n)
  BY <1>1, Ops DEF WellAt
<1>2. ASSUME NEW m \in API!Mutexes, b[n] = API!Unlock(m), Locked(b, m, n) PROVE WellAt(b, n)
  BY <1>2, Ops DEF WellAt
<1>3. ASSUME b[n].op \notin {"lock", "unlock", "wait"} PROVE WellAt(b, n)
  BY <1>3 DEF WellAt
<1>4. ASSUME b[n] = API!Do("wait"), \A m \in API!Mutexes : Locked(b, m, n) <=> m = "lock"
      PROVE  WellAt(b, n)
  BY <1>4, Ops DEF WellAt
<1> QED BY <1>1, <1>2, <1>3, <1>4

LEMMA WellAtAll ==
  ASSUME NEW b, \A n \in 1..Len(b) : WellAt(b, n) PROVE WellLocked(b)
BY DEF WellLocked, WellAt

LEMMA CrossedWell ==
  ASSUME NEW a, NEW c, {a, c} = {"m1", "m2"}, a # c
  PROVE  WellLocked(Crossed(a, c)) /\ WellLocked(Guarded(a, c))
<1>1. WellLocked(Crossed(a, c))
  <2> DEFINE b == Crossed(a, c)
  <2>1. /\ Len(b) = 4 /\ b[1] = API!Lock(a) /\ b[2] = API!Lock(c)
        /\ b[3] = API!Unlock("m1") /\ b[4] = API!Unlock("m2")
    BY DEF Crossed
  <2> HIDE DEF b
  <2>2. Locked(b, a, 2)
    <3>1. Locked(b, a, 1 + 1) <=>
            b[1] # API!Unlock(a) /\ (b[1] = API!Lock(a) \/ Locked(b, a, 1))
      BY ONLY LockedStep
    <3>2. Locked(b, a, 1 + 1)
      BY ONLY <3>1, <2>1, Ops
    <3> QED BY ONLY <3>2
  <2>3. Locked(b, a, 3) /\ Locked(b, c, 3)
    BY <2>1, <2>2, LockedStep, Ops, 2 + 1 = 3
  <2>4. Locked(b, "m1", 3) /\ Locked(b, "m2", 3)
    BY <2>3
  <2>5. Locked(b, "m2", 4)
    BY <2>1, <2>4, LockedStep, Ops, 3 + 1 = 4
  <2>6. \A n \in 1..Len(b) : n \in {1, 2, 3, 4}
    BY <2>1
  <2>7. {a, c} \subseteq API!Mutexes /\ {"m1", "m2"} \subseteq API!Mutexes
    BY DEF API!Mutexes
  <2>8. WellAt(b, 1) /\ WellAt(b, 2)
    BY <2>1, <2>7, WellAtEach
  <2>9. WellAt(b, 3) /\ WellAt(b, 4)
    BY <2>1, <2>4, <2>5, <2>7, WellAtEach
  <2>10. WellLocked(b)
    BY <2>6, <2>8, <2>9, WellAtAll
  <2> QED BY <2>10 DEF b
<1>2. WellLocked(Guarded(a, c))
  <2> DEFINE b == Guarded(a, c)
  <2>1. /\ Len(b) = 6 /\ b[1] = API!Lock("g") /\ b[2] = API!Lock(a) /\ b[3] = API!Lock(c)
        /\ b[4] = API!Unlock("m1") /\ b[5] = API!Unlock("m2") /\ b[6] = API!Unlock("g")
    BY DEF Guarded
  <2> HIDE DEF b
  <2>2. Locked(b, "g", 2)
    BY <2>1, LockedStep, Ops, 1 + 1 = 2
  <2>3. Locked(b, "g", 3) /\ Locked(b, a, 3)
    BY <2>1, <2>2, LockedStep, Ops, 2 + 1 = 3
  <2>4. Locked(b, "g", 4) /\ Locked(b, a, 4) /\ Locked(b, c, 4)
    BY <2>1, <2>3, LockedStep, Ops, 3 + 1 = 4
  <2>5. Locked(b, "m1", 4) /\ Locked(b, "m2", 4)
    BY <2>4
  <2>6. Locked(b, "g", 5) /\ Locked(b, "m2", 5)
    BY <2>1, <2>4, <2>5, LockedStep, Ops, 4 + 1 = 5
  <2>7. Locked(b, "g", 6)
    BY <2>1, <2>6, LockedStep, Ops, 5 + 1 = 6
  <2>8. \A n \in 1..Len(b) : n \in {1, 2, 3, 4, 5, 6}
    BY <2>1
  <2>9. {a, c} \subseteq API!Mutexes /\ {"g", "m1", "m2"} \subseteq API!Mutexes
    BY DEF API!Mutexes
  <2>10. WellAt(b, 1) /\ WellAt(b, 2) /\ WellAt(b, 3)
    BY <2>1, <2>9, WellAtEach
  <2>11. WellAt(b, 4) /\ WellAt(b, 5) /\ WellAt(b, 6)
    BY <2>1, <2>5, <2>6, <2>7, <2>9, WellAtEach
  <2>12. WellLocked(b)
    BY <2>8, <2>10, <2>11, WellAtAll
  <2> QED BY <2>12 DEF b
<1> QED BY <1>1, <1>2

LEMMA IncrementsWell ==
  /\ WellLocked(<<API!Lock("lock"), API!Do("load"), API!Do("store"), API!Unlock("lock")>>)
  /\ WellLocked(<<API!Lock("lock"), API!Do("load"), API!Do("store"), API!Unlock("lock"), API!Do("join")>>)
<1>1. ASSUME NEW b, b[1] = API!Lock("lock"), b[2] = API!Do("load"), b[3] = API!Do("store"),
             b[4] = API!Unlock("lock"), b[5].op \notin {"lock", "unlock", "wait"} \/ Len(b) =
               4, Len(b) \in {4, 5}
      PROVE  WellLocked(b)
  <2>1. Locked(b, "lock", 2)
    BY <1>1, LockedStep, Ops, 1 + 1 = 2
  <2>2. Locked(b, "lock", 3)
    BY <1>1, <2>1, LockedStep, Ops, 2 + 1 = 3
  <2>3. Locked(b, "lock", 4)
    BY <1>1, <2>2, LockedStep, Ops, 3 + 1 = 4
  <2>8. Len(b) \in {4, 5}
    BY <1>1
  <2>4. \A n \in 1..Len(b) : n \in {1, 2, 3, 4} \/ (n = 5 /\ Len(b) = 5)
    <3>1. CASE Len(b) = 4
      BY <3>1
    <3>2. CASE Len(b) = 5
      BY <3>2
    <3> QED BY <2>8, <3>1, <3>2
  <2>5. "lock" \in API!Mutexes
    BY DEF API!Mutexes
  <2>6. WellAt(b, 1) /\ WellAt(b, 4)
    BY <1>1, <2>3, <2>5, WellAtEach
  <2>7. WellAt(b, 2) /\ WellAt(b, 3) /\ (Len(b) = 5 => WellAt(b, 5))
    BY <1>1, Ops, WellAtEach
  <2> QED BY <2>4, <2>6, <2>7, WellAtAll
<1>2. WellLocked(<<API!Lock("lock"), API!Do("load"), API!Do("store"), API!Unlock("lock")>>)
  <2> DEFINE b == <<API!Lock("lock"), API!Do("load"), API!Do("store"), API!Unlock("lock")>>
  <2>1. Len(b) = 4 /\ b[1] = API!Lock("lock") /\ b[2] = API!Do("load") /\ b[3] = API!Do("store")
        /\ b[4] = API!Unlock("lock")
    OBVIOUS
  <2> HIDE DEF b
  <2>2. WellLocked(b)
    BY <1>1, <2>1
  <2> QED BY <2>2 DEF b
<1>3. WellLocked(<<API!Lock("lock"), API!Do("load"), API!Do("store"), API!Unlock("lock"), API!Do("join")>>)
  <2> DEFINE b == <<API!Lock("lock"), API!Do("load"), API!Do("store"), API!Unlock("lock"), API!Do("join")>>
  <2>1. Len(b) = 5 /\ b[1] = API!Lock("lock") /\ b[2] = API!Do("load") /\ b[3] = API!Do("store")
        /\ b[4] = API!Unlock("lock") /\ b[5] = API!Do("join")
    OBVIOUS
  <2> HIDE DEF b
  <2>2. WellLocked(b)
    BY <1>1, <2>1, Ops
  <2> QED BY <2>2 DEF b
<1> QED BY <1>2, <1>3

LEMMA SignalsWell ==
  /\ WellLocked(<<API!Say("first"), API!Lock("lock"), API!Do("set"), API!Do("signal"), API!Unlock("lock")>>)
  /\ WellLocked(<<API!Lock("lock"), API!Do("wait"), API!Unlock("lock"), API!Say("last")>>)
<1>1. WellLocked(<<API!Say("first"), API!Lock("lock"), API!Do("set"), API!Do("signal"), API!Unlock("lock")>>)
  <2> DEFINE b == <<API!Say("first"), API!Lock("lock"), API!Do("set"), API!Do("signal"), API!Unlock("lock")>>
  <2>1. Len(b) = 5 /\ b[1] = API!Say("first") /\ b[2] = API!Lock("lock") /\ b[3] = API!Do("set")
        /\ b[4] = API!Do("signal") /\ b[5] = API!Unlock("lock")
    OBVIOUS
  <2> HIDE DEF b
  <2>2. Locked(b, "lock", 3)
    BY <2>1, LockedStep, Ops, 2 + 1 = 3
  <2>3. Locked(b, "lock", 4)
    BY <2>1, <2>2, LockedStep, Ops, 3 + 1 = 4
  <2>4. Locked(b, "lock", 5)
    BY <2>1, <2>3, LockedStep, Ops, 4 + 1 = 5
  <2>5. \A n \in 1..Len(b) : n \in {1, 2, 3, 4, 5}
    BY <2>1
  <2>6. "lock" \in API!Mutexes
    BY DEF API!Mutexes
  <2>7. WellLocked(b)
    <3>1. WellAt(b, 2) /\ WellAt(b, 5)
      BY <2>1, <2>4, <2>6, WellAtEach
    <3>2. WellAt(b, 1) /\ WellAt(b, 3) /\ WellAt(b, 4)
      BY <2>1, Ops, WellAtEach
    <3> QED BY <2>5, <3>1, <3>2, WellAtAll
  <2> QED BY <2>7 DEF b
<1>2. WellLocked(<<API!Lock("lock"), API!Do("wait"), API!Unlock("lock"), API!Say("last")>>)
  <2> DEFINE b == <<API!Lock("lock"), API!Do("wait"), API!Unlock("lock"), API!Say("last")>>
  <2>1. Len(b) = 4 /\ b[1] = API!Lock("lock") /\ b[2] = API!Do("wait") /\ b[3] = API!Unlock("lock")
        /\ b[4] = API!Say("last")
    OBVIOUS
  <2> HIDE DEF b
  <2>2. \A m : Locked(b, m, 2) <=> m = "lock"
    <3>1. ASSUME NEW m PROVE Locked(b, m, 2) <=> m = "lock"
      <4>1. Locked(b, m, 1 + 1) <=> b[1] # API!Unlock(m) /\ (b[1] = API!Lock(m) \/ Locked(b, m, 1))
        BY LockedStep
      <4>2. ~Locked(b, m, 1)
        BY LockedFirst
      <4>3. b[1] # API!Unlock(m) /\ (b[1] = API!Lock(m) <=> m = "lock")
        BY <2>1, Ops
      <4> QED BY <4>1, <4>2, <4>3, 1 + 1 = 2
    <3> QED BY <3>1
  <2>3. Locked(b, "lock", 3)
    BY <2>1, <2>2, LockedStep, Ops, 2 + 1 = 3
  <2>5. \A n \in 1..Len(b) : n \in {1, 2, 3, 4}
    BY <2>1
  <2>6. "lock" \in API!Mutexes
    BY DEF API!Mutexes
  <2>7. WellLocked(b)
    <3>1. WellAt(b, 1) /\ WellAt(b, 3)
      BY <2>1, <2>3, <2>6, WellAtEach
    <3>2. WellAt(b, 4)
      BY <2>1, Ops, WellAtEach
    <3>3. WellAt(b, 2)
      BY <2>1, <2>2, WellAtEach
    <3> QED BY <2>5, <3>1, <3>2, <3>3, WellAtAll
  <2> QED BY <2>7 DEF b
<1> QED BY <1>1, <1>2

LEMMA BodiesWell ==
  ASSUME api \in APIPrograms, NEW t \in API!Threads
  PROVE  WellLocked(API!Body(t)) /\ Len(API!Body(t)) \in Nat
<1>1. t \in {0, 1, 2}
  BY DEF API!Threads
<1>2. WellLocked(<<>>) /\ Len(<<>>) = 0
  BY DEF WellLocked
<1>3. CASE api = "main-deadlock"
  <2>1. Len(API!Body(0)) = 4 /\ Len(API!Body(1)) = 4 /\ Len(API!Body(2)) = 1
          /\ API!Body(2)[1] = API!Do("join")
    BY <1>3, Bodies DEF Crossed
  <2>2. WellLocked(API!Body(0)) /\ WellLocked(API!Body(1))
    BY <1>3, Bodies, CrossedWell
  <2>3. WellLocked(API!Body(2))
    BY <2>1, NoLocks, Ops
  <2> QED BY <1>1, <2>1, <2>2, <2>3
<1>4. CASE api = "main-deadlock-global"
  <2>1. Len(API!Body(0)) = 6 /\ Len(API!Body(1)) = 6 /\ Len(API!Body(2)) = 1
          /\ API!Body(2)[1] = API!Do("join")
    BY <1>4, Bodies DEF Guarded
  <2>2. WellLocked(API!Body(0)) /\ WellLocked(API!Body(1))
    BY <1>4, Bodies, CrossedWell
  <2>3. WellLocked(API!Body(2))
    BY <2>1, NoLocks, Ops
  <2> QED BY <1>1, <2>1, <2>2, <2>3
<1>5. CASE api = "main-race"
  <2>1. /\ Len(API!Body(0)) = 2 /\ API!Body(0)[1] = API!Do("load")
             /\ API!Body(0)[2] = API!Do("store")
        /\ Len(API!Body(2)) = 3 /\ API!Body(2)[1] = API!Do("load")
             /\ API!Body(2)[2] = API!Do("store")
        /\ API!Body(2)[3] = API!Do("join") /\ API!Body(1) = <<>>
    BY <1>5, Bodies
  <2>2. WellLocked(API!Body(0)) /\ WellLocked(API!Body(2))
    BY <2>1, NoLocks, Ops
  <2> QED BY <1>1, <1>2, <2>1, <2>2
<1>6. CASE api = "main-race-fix"
  <2>1. Len(API!Body(0)) = 4 /\ Len(API!Body(2)) = 5 /\ API!Body(1) = <<>>
    BY <1>6, Bodies
  <2>2. WellLocked(API!Body(0)) /\ WellLocked(API!Body(2))
    BY <1>6, Bodies, IncrementsWell
  <2> QED BY <1>1, <1>2, <2>1, <2>2
<1>7. CASE api = "main-signal"
  <2>1. /\ Len(API!Body(0)) = 2 /\ API!Body(0)[1] = API!Say("first")
             /\ API!Body(0)[2] = API!Do("set")
        /\ Len(API!Body(2)) = 2 /\ API!Body(2)[1] = API!Do("spin")
             /\ API!Body(2)[2] = API!Say("last")
        /\ API!Body(1) = <<>>
    BY <1>7, Bodies
  <2>2. WellLocked(API!Body(0)) /\ WellLocked(API!Body(2))
    BY <2>1, NoLocks, Ops
  <2> QED BY <1>1, <1>2, <2>1, <2>2
<1>8. CASE api = "main-signal-cv"
  <2>1. Len(API!Body(0)) = 5 /\ Len(API!Body(2)) = 4 /\ API!Body(1) = <<>>
    BY <1>8, Bodies
  <2>2. WellLocked(API!Body(0)) /\ WellLocked(API!Body(2))
    BY <1>8, Bodies, SignalsWell
  <2> QED BY <1>1, <1>2, <2>1, <2>2
<1>9. CASE api = "fork-join"
  <2>1. /\ Len(API!Body(0)) = 2 /\ API!Body(0)[1] = API!Say("first")
             /\ API!Body(0)[2] = API!Do("release")
        /\ Len(API!Body(2)) = 3 /\ API!Body(2)[1] = API!Do("acquire")
             /\ API!Body(2)[2] = API!Say("last")
        /\ API!Body(2)[3] = API!Do("join") /\ API!Body(1) = <<>>
    BY <1>9, Bodies
  <2>2. WellLocked(API!Body(0)) /\ WellLocked(API!Body(2))
    BY <2>1, NoLocks, Ops
  <2> QED BY <1>1, <1>2, <2>1, <2>2
<1> QED BY <1>3, <1>4, <1>5, <1>6, <1>7, <1>8, <1>9 DEF APIPrograms

-----------------------------------------------------------------------------
(* The owners of the mutexes.                                              *)

APITypes ==
  /\ api \in APIPrograms
  /\ pc \in [API!Threads -> Nat \ {0}] /\ (\A t \in API!Threads : pc[t] <= Len(API!Body(t)) + 1)
  /\ loaded \in [API!Threads -> Int] /\ balance \in Int
  /\ done \in {0, 1} /\ semaphore \in Nat
  /\ owner \in [API!Mutexes -> API!Threads \cup {API!None}]
  /\ sleeping \in [API!Threads -> {"no", "called", "asleep", "woken"}]

Sleeps == \A t \in API!Threads : sleeping[t] # "no" => API!At(t, "wait")

LEMMA BodySame ==
  ASSUME UNCHANGED api, NEW t PROVE API!Body(t)' = API!Body(t)
BY DEF API!Body, API!CrossedLocks, API!MainOr

LEMMA APIInit == ASSUME API!Init PROVE APITypes /\ Sleeps /\ API!TypeOK
<1>1. \A t \in API!Threads : Len(API!Body(t)) \in Nat
  BY BodiesWell DEF API!Init
<1>2. APITypes /\ Sleeps
  BY <1>1 DEF API!Init, APIPrograms, APITypes, Sleeps
<1>3. ASSUME NEW t \in API!Threads, NEW m \in API!Mutexes PROVE API!Has(t, m) <=> owner[m] = t
  <2>1. pc[t] = 1 /\ owner[m] = API!None /\ t # API!None
    BY DEF API!Init, API!None, API!Threads
  <2> QED BY <2>1 DEF API!Has
<1> QED BY <1>2, <1>3 DEF API!TypeOK

\* Where a step leads, and what it may change.
LEMMA OneStep ==
  ASSUME APITypes, Sleeps, NEW t \in API!Threads, API!Thread(t) \/ API!SpuriousWakeup(t)
  PROVE  /\ api' = api
         /\ \A u \in API!Threads :
              API!Body(u)' = API!Body(u) /\ Len(API!Body(u)) \in Nat /\ WellLocked(API!Body(u))
         /\ pc' = pc \/ (pc[t] \in 1..Len(API!Body(t)) /\ pc' = [pc EXCEPT ![t] = @ + 1])
         /\ APITypes' /\ Sleeps'
<1> USE DEF APITypes, API!At, API!Returned
<1>1. api' = api
  BY DEF API!Thread, API!LockMutex, API!UnlockMutex, API!Load, API!Store, API!PrintLine,
         API!SetDone, API!Spin, API!WaitTest, 
         API!WaitLeave, API!WaitSleep, API!WaitRelock, API!SpuriousWakeup, API!Signal,
         API!Acquire, API!Release, API!Join
<1>2. \A u \in API!Threads :
        API!Body(u)' = API!Body(u) /\ Len(API!Body(u)) \in Nat /\ WellLocked(API!Body(u))
  BY <1>1, BodySame, BodiesWell
<1>3. ASSUME NEW op, API!Step(t, op)
      PROVE  pc[t] \in 1..Len(API!Body(t)) /\ pc' = [pc EXCEPT ![t] = @ + 1]
               /\ API!Body(t)[pc[t]].op = op
  BY <1>2, <1>3 DEF API!Step
<1>4. pc' = pc \/ (pc[t] \in 1..Len(API!Body(t)) /\ pc' = [pc EXCEPT ![t] = @ + 1])
  BY <1>3
     DEF API!Thread, API!LockMutex, API!UnlockMutex, API!Load, API!Store, API!PrintLine,
         API!SetDone, API!Spin, API!WaitTest, 
         API!WaitLeave, API!WaitSleep, API!WaitRelock, API!SpuriousWakeup, API!Signal,
         API!Acquire, API!Release, API!Join
<1>5. pc' \in [API!Threads -> Nat \ {0}] /\ (\A u \in API!Threads : pc'[u] <= Len(API!Body(u)) + 1)
  <2>1. CASE pc' = pc
    BY <2>1
  <2>2. CASE pc[t] \in 1..Len(API!Body(t)) /\ pc' = [pc EXCEPT ![t] = @ + 1]
    <3>1. pc[t] + 1 \in Nat \ {0} /\ pc[t] + 1 <= Len(API!Body(t)) + 1
      BY <1>2, <2>2
    <3>2. \A u \in API!Threads : pc'[u] = IF u = t THEN pc[t] + 1 ELSE pc[u]
      BY <2>2
    <3>3. pc' \in [API!Threads -> Nat \ {0}]
      BY <2>2, <3>1
    <3> QED BY <3>1, <3>2, <3>3
  <2> QED BY <1>4, <2>1, <2>2
<1>6. loaded' \in [API!Threads -> Int] /\ balance' \in Int
  <2>1. CASE API!Load(t)
    BY <2>1 DEF API!Load
  <2>2. CASE API!Store(t)
    <3>1. loaded[t] + 1 \in Int
      OBVIOUS
    <3> QED BY <2>2, <3>1 DEF API!Store
  <2>3. CASE ~API!Load(t) /\ ~API!Store(t)
    BY <2>3
       DEF API!Thread, API!LockMutex, API!UnlockMutex, API!PrintLine, API!SetDone, API!Spin,
           API!WaitTest, 
         API!WaitLeave, API!WaitSleep, API!WaitRelock, API!SpuriousWakeup, API!Signal,
         API!Acquire, API!Release, API!Join
  <2> QED BY <2>1, <2>2, <2>3
<1>7. done' \in {0, 1} /\ semaphore' \in Nat
  BY DEF API!Thread, API!LockMutex, API!UnlockMutex, API!Load, API!Store, API!PrintLine,
         API!SetDone, API!Spin, API!WaitTest, 
         API!WaitLeave, API!WaitSleep, API!WaitRelock, API!SpuriousWakeup, API!Signal,
         API!Acquire, API!Release, API!Join
<1>8. owner' \in [API!Mutexes -> API!Threads \cup {API!None}]
  BY DEF API!Thread, API!LockMutex, API!UnlockMutex, API!Load, API!Store, API!PrintLine,
         API!SetDone, API!Spin, API!WaitTest, 
         API!WaitLeave, API!WaitSleep, API!WaitRelock, API!SpuriousWakeup, API!Signal,
         API!Acquire, API!Release, API!Join
<1>9. sleeping' \in [API!Threads -> {"no", "called", "asleep", "woken"}]
  BY DEF API!Thread, API!LockMutex, API!UnlockMutex, API!Load, API!Store, API!PrintLine,
         API!SetDone, API!Spin, API!WaitTest, 
         API!WaitLeave, API!WaitSleep, API!WaitRelock, API!SpuriousWakeup, API!Signal,
         API!Acquire, API!Release, API!Join
<1>10. APITypes'
  BY <1>1, <1>2, <1>5, <1>6, <1>7, <1>8, <1>9
<1>11. ASSUME NEW u \in API!Threads, sleeping'[u] # "no" PROVE API!At(u, "wait")'
  <2>1. API!At(u, "wait") /\ pc'[u] = pc[u]
    <3>1. CASE u # t
      <4>1. sleeping[u] # "no" /\ pc'[u] = pc[u]
        BY <1>4, <1>11, <3>1
           DEF API!Thread, API!LockMutex, API!UnlockMutex, API!Load, API!Store, API!PrintLine,
               API!SetDone, API!Spin, API!WaitTest, 
         API!WaitLeave, API!WaitSleep, API!WaitRelock, API!SpuriousWakeup, API!Signal,
         API!Acquire, API!Release, API!Join
      <4> QED BY <4>1 DEF Sleeps
    <3>2. CASE u = t
      <4>1. CASE API!WaitTest(t) \/ API!WaitSleep(t) \/ API!WaitRelock(t)
        BY <1>11, <3>2, <4>1 DEF API!WaitTest, API!WaitSleep, API!WaitRelock
      <4>2. CASE API!SpuriousWakeup(t)
        BY <3>2, <4>2 DEF API!SpuriousWakeup, Sleeps
      <4>3. CASE API!WaitLeave(t)
        BY <1>11, <3>2, <4>3 DEF API!WaitLeave
      <4>4. ASSUME NEW op, API!Step(t, op), op # "wait" PROVE sleeping[t] = "no"
        BY <1>3, <4>4 DEF Sleeps
      <4>5. CASE API!Signal(t)
        BY <1>11, <3>2, <4>4, <4>5 DEF API!Signal
      <4>6. CASE \/ API!LockMutex(t) \/ API!UnlockMutex(t) \/ API!Load(t) \/ API!Store(t) \/ API!PrintLine(t)
                 \/ API!SetDone(t) \/ API!Spin(t) \/ API!Acquire(t) \/ API!Release(t) \/ API!Join(t)
        <5>1. sleeping' = sleeping
          BY <4>6
             DEF API!LockMutex, API!UnlockMutex, API!Load, API!Store, API!PrintLine,
                 API!SetDone, API!Spin, 
                      API!Acquire, API!Release, API!Join
        <5>2. \E op : API!Step(t, op) /\ op # "wait"
          BY <4>6
             DEF API!LockMutex, API!UnlockMutex, API!Load, API!Store, API!PrintLine,
                 API!SetDone, API!Spin, 
                      API!Acquire, API!Release, API!Join
        <5> QED BY <1>11, <3>2, <4>4, <5>1, <5>2
      <4> QED BY <4>1, <4>2, <4>3, <4>5, <4>6 DEF API!Thread
    <3> QED BY <3>1, <3>2
  <2> QED BY <1>2, <2>1
<1>12. Sleeps'
  BY <1>11 DEF Sleeps
<1> QED BY <1>1, <1>2, <1>4, <1>10, <1>12

LEMMA HasLocked ==
  ASSUME NEW t, NEW m
  PROVE  API!Has(t, m) <=> Locked(API!Body(t), m, pc[t]) /\ sleeping[t] \in {"no", "called"}
BY DEF API!Has, Locked

LEMMA HasLockedNext ==
  ASSUME NEW t, NEW m, API!Body(t)' = API!Body(t)
  PROVE  API!Has(t, m)' <=> Locked(API!Body(t), m, pc'[t]) /\ sleeping'[t] \in {"no", "called"}
BY DEF API!Has, Locked

LEMMA OwnersNext ==
  ASSUME APITypes, Sleeps, API!TypeOK, NEW t \in API!Threads, API!Thread(t) \/ API!SpuriousWakeup(t)
  PROVE  API!TypeOK'
<1> DEFINE awake(u) == sleeping[u] \in {"no", "called"}
           b == API!Body(t)
           n == pc[t]
<1>1. /\ api' = api /\ APITypes'
      /\ \A u \in API!Threads :
           API!Body(u)' = API!Body(u) /\ Len(API!Body(u)) \in Nat /\ WellLocked(API!Body(u))
  BY OneStep
<1>2. /\ \A u \in API!Threads, m \in API!Mutexes :
           Locked(API!Body(u), m, pc[u]) /\ awake(u) <=> owner[m] = u
      /\ \A u \in API!Threads, m \in API!Mutexes :
           API!Has(u, m)' <=> Locked(API!Body(u), m, pc'[u]) /\ sleeping'[u] \in {"no", "called"}
  BY <1>1, HasLocked, HasLockedNext DEF API!TypeOK
<1>3. pc \in [API!Threads -> Nat \ {0}] /\ owner \in [API!Mutexes -> API!Threads \cup {API!None}]
      /\ sleeping \in [API!Threads -> {"no", "called", "asleep", "woken"}]
  BY DEF APITypes
<1>4. \A u \in API!Threads : u # API!None
  BY DEF API!Threads, API!None
<1>5. ASSUME NEW op, API!Step(t, op)
      PROVE  /\ n \in 1..Len(b) /\ n \in Nat \ {0} /\ b[n].op = op
             /\ pc' = [pc EXCEPT ![t] = n + 1] /\ (op # "wait" => sleeping[t] = "no")
  BY <1>1, <1>3, <1>5 DEF API!Step, API!At, API!Returned, Sleeps
<1> HIDE DEF b, n
\* Nobody gets or loses anything.
<1>6. ASSUME owner' = owner,
             \A u \in API!Threads : sleeping'[u] \in {"no", "called"} <=> awake(u),
             \A u \in API!Threads, m \in API!Mutexes :
               Locked(API!Body(u), m, pc'[u]) <=> Locked(API!Body(u), m, pc[u])
      PROVE  API!TypeOK'
  BY <1>2, <1>6 DEF API!TypeOK
<1>7. ASSUME NEW op, API!Step(t, op), op \notin {"lock", "unlock"}
      PROVE  \A u \in API!Threads, m \in API!Mutexes :
               Locked(API!Body(u), m, pc'[u]) <=> Locked(API!Body(u), m, pc[u])
  <2>1. ASSUME NEW m PROVE Locked(b, m, n + 1) <=> Locked(b, m, n)
    <3>1. b[n].op \notin {"lock", "unlock"} /\ n \in Nat \ {0}
      BY <1>5, <1>7
    <3>2. b[n] # API!Unlock(m) /\ b[n] # API!Lock(m)
      BY <3>1, Ops
    <3> QED BY <3>1, <3>2, LockedStep
  <2>2. \A u \in API!Threads : pc'[u] = IF u = t THEN n + 1 ELSE pc[u]
    BY <1>3, <1>5, <1>7
  <2>3. ASSUME NEW u \in API!Threads, NEW m \in API!Mutexes
        PROVE  Locked(API!Body(u), m, pc'[u]) <=> Locked(API!Body(u), m, pc[u])
    <3>1. CASE u = t
      BY <2>1, <2>2, <3>1 DEF b, n
    <3>2. CASE u # t
      BY <2>2, <3>2
    <3> QED BY <3>1, <3>2
  <2> QED BY <2>3
<1>8. CASE \/ API!Load(t) \/ API!Store(t) \/ API!PrintLine(t) \/ API!SetDone(t) \/ API!Spin(t) \/ API!WaitLeave(t)
           \/ API!Signal(t) \/ API!Acquire(t) \/ API!Release(t) \/ API!Join(t)
  <2>1. \E op : API!Step(t, op) /\ op \notin {"lock", "unlock"}
    BY <1>8
       DEF API!Load, API!Store, API!PrintLine, API!SetDone, API!Spin, API!WaitLeave, API!Signal,
           API!Acquire, API!Release, API!Join
  <2>2. owner' = owner
    BY <1>8
       DEF API!Load, API!Store, API!PrintLine, API!SetDone, API!Spin, API!WaitLeave, API!Signal,
           API!Acquire, API!Release, API!Join
  <2>3. \A u \in API!Threads : sleeping'[u] \in {"no", "called"} <=> awake(u)
    BY <1>3, <1>8
       DEF API!Load, API!Store, API!PrintLine, API!SetDone, API!Spin, API!WaitLeave, API!Signal,
           API!Acquire, API!Release, API!Join
  <2>4. \A u \in API!Threads, m \in API!Mutexes :
          Locked(API!Body(u), m, pc'[u]) <=> Locked(API!Body(u), m, pc[u])
    BY <1>7, <2>1
  <2> QED BY <1>6, <2>2, <2>3, <2>4
<1>9. CASE API!WaitTest(t) \/ API!SpuriousWakeup(t)
  <2>1. owner' = owner /\ pc' = pc
    BY <1>9 DEF API!WaitTest, API!SpuriousWakeup
  <2>2. \A u \in API!Threads : sleeping'[u] \in {"no", "called"} <=> awake(u)
    BY <1>3, <1>9 DEF API!WaitTest, API!SpuriousWakeup
  <2> HIDE DEF awake
  <2> QED BY <1>6, <2>1, <2>2
<1>10. CASE API!LockMutex(t)
  <2> DEFINE x == b[n].arg
  <2>1. API!Step(t, "lock") /\ owner[x] = API!None /\ owner' = [owner EXCEPT ![x] = t]
        /\ sleeping' = sleeping
    BY <1>10 DEF API!LockMutex, API!Arg, b, n
  <2>2. /\ n \in 1..Len(b) /\ n \in Nat \ {0} /\ b[n].op = "lock"
        /\ pc' = [pc EXCEPT ![t] = n + 1] /\ sleeping[t] = "no"
    BY <1>5, <2>1
  <2>3. x \in API!Mutexes /\ b[n] = API!Lock(x)
    BY <1>1, <2>2 DEF WellLocked, b
  <2> HIDE DEF x
  <2>4. ASSUME NEW m \in API!Mutexes
        PROVE  Locked(b, m, n + 1) <=> m = x \/ Locked(b, m, n)
    <3>1. b[n] # API!Unlock(m) /\ (b[n] = API!Lock(m) <=> m = x)
      BY <2>3, Ops
    <3> QED BY <2>2, <3>1, LockedStep
  <2>5. ASSUME NEW u \in API!Threads, NEW m \in API!Mutexes PROVE API!Has(u, m)' <=> owner'[m] = u
    <3>1. CASE u = t
      <4>1. pc'[u] = n + 1 /\ API!Body(u) = b /\ pc[u] = n /\ sleeping'[u] = "no"
            /\ sleeping[u] = "no"
        BY <1>3, <2>1, <2>2, <3>1 DEF b, n
      <4>2. API!Has(u, m)' <=> m = x \/ Locked(b, m, n)
        BY <1>2, <2>4, <4>1
      <4>3. Locked(b, m, n) <=> owner[m] = t
        BY <1>2, <3>1, <4>1
      <4> QED BY <1>3, <2>1, <2>3, <3>1, <4>2, <4>3
    <3>2. CASE u # t
      <4>1. pc'[u] = pc[u] /\ sleeping'[u] = sleeping[u]
        BY <1>3, <2>1, <2>2, <3>2
      <4>2. API!Has(u, m)' <=> owner[m] = u
        BY <1>2, <4>1
      <4> QED BY <1>3, <1>4, <2>1, <2>3, <3>2, <4>2
    <3> QED BY <3>1, <3>2
  <2> QED BY <2>5 DEF API!TypeOK
<1>11. CASE API!UnlockMutex(t)
  <2> DEFINE x == b[n].arg
  <2>1. API!Step(t, "unlock") /\ owner' = [owner EXCEPT ![x] = API!None] /\ sleeping' = sleeping
    BY <1>11 DEF API!UnlockMutex, API!Arg, b, n
  <2>2. /\ n \in 1..Len(b) /\ n \in Nat \ {0} /\ b[n].op = "unlock"
        /\ pc' = [pc EXCEPT ![t] = n + 1] /\ sleeping[t] = "no"
    BY <1>5, <2>1
  <2>3. x \in API!Mutexes /\ b[n] = API!Unlock(x) /\ Locked(b, x, n)
    BY <1>1, <2>2 DEF WellLocked, b
  <2> HIDE DEF x
  <2>4. ASSUME NEW m \in API!Mutexes
        PROVE  Locked(b, m, n + 1) <=> m # x /\ Locked(b, m, n)
    <3>1. b[n] # API!Lock(m) /\ (b[n] = API!Unlock(m) <=> m = x)
      BY <2>3, Ops
    <3> QED BY <2>2, <3>1, LockedStep
  <2>6. owner[x] = t
    BY <1>2, <2>2, <2>3 DEF b, n
  <2>5. ASSUME NEW u \in API!Threads, NEW m \in API!Mutexes PROVE API!Has(u, m)' <=> owner'[m] = u
    <3>1. CASE u = t
      <4>1. pc'[u] = n + 1 /\ API!Body(u) = b /\ pc[u] = n /\ sleeping'[u] = "no"
            /\ sleeping[u] = "no"
        BY <1>3, <2>1, <2>2, <3>1 DEF b, n
      <4>2. API!Has(u, m)' <=> m # x /\ Locked(b, m, n)
        BY <1>2, <2>4, <4>1
      <4>3. Locked(b, m, n) <=> owner[m] = t
        BY <1>2, <3>1, <4>1
      <4> QED BY <1>3, <1>4, <2>1, <2>3, <3>1, <4>2, <4>3
    <3>2. CASE u # t
      <4>1. pc'[u] = pc[u] /\ sleeping'[u] = sleeping[u]
        BY <1>3, <2>1, <2>2, <3>2
      <4>2. API!Has(u, m)' <=> owner[m] = u
        BY <1>2, <4>1
      <4> QED BY <1>3, <1>4, <2>1, <2>3, <2>6, <3>2, <4>2
    <3> QED BY <3>1, <3>2
  <2> QED BY <2>5 DEF API!TypeOK
<1>12. ASSUME API!At(t, "wait")
       PROVE  \A m \in API!Mutexes : Locked(b, m, n) <=> m = "lock"
  BY <1>1, <1>3, <1>12 DEF API!At, API!Returned, WellLocked, b, n
<1>13. CASE API!WaitSleep(t)
  <2>1. /\ API!At(t, "wait") /\ sleeping[t] = "called" /\ pc' = pc
        /\ sleeping' = [sleeping EXCEPT ![t] = "asleep"]
        /\ owner' = [owner EXCEPT !["lock"] = API!None]
    BY <1>13 DEF API!WaitSleep
  <2>2. \A m \in API!Mutexes : owner[m] = t <=> m = "lock"
    BY <1>2, <1>12, <2>1 DEF b, n
  <2>3. ASSUME NEW u \in API!Threads, NEW m \in API!Mutexes PROVE API!Has(u, m)' <=> owner'[m] = u
    <3>1. CASE u = t
      <4>1. sleeping'[u] = "asleep"
        BY <1>3, <2>1, <3>1
      <4>2. ~API!Has(u, m)'
        BY <1>2, <4>1
      <4> QED BY <1>3, <1>4, <2>1, <2>2, <3>1, <4>2
    <3>2. CASE u # t
      <4>1. sleeping'[u] = sleeping[u] /\ pc'[u] = pc[u]
        BY <1>3, <2>1, <3>2
      <4>2. API!Has(u, m)' <=> owner[m] = u
        BY <1>2, <4>1
      <4> QED BY <1>3, <1>4, <2>1, <2>2, <3>2, <4>2
    <3> QED BY <3>1, <3>2
  <2> QED BY <2>3 DEF API!TypeOK
<1>14. CASE API!WaitRelock(t)
  <2>1. /\ API!At(t, "wait") /\ sleeping[t] = "woken" /\ pc' = pc /\ owner["lock"] = API!None
        /\ sleeping' = [sleeping EXCEPT ![t] = "no"]
        /\ owner' = [owner EXCEPT !["lock"] = t]
    BY <1>14 DEF API!WaitRelock
  <2>2. \A m \in API!Mutexes : owner[m] # t
    BY <1>2, <2>1
  <2>3. ASSUME NEW u \in API!Threads, NEW m \in API!Mutexes PROVE API!Has(u, m)' <=> owner'[m] = u
    <3>1. CASE u = t
      <4>1. sleeping'[u] = "no" /\ pc'[u] = n /\ API!Body(u) = b
        BY <1>3, <2>1, <3>1 DEF b, n
      <4>2. API!Has(u, m)' <=> m = "lock"
        BY <1>2, <1>12, <2>1, <4>1
      <4> QED BY <1>3, <1>4, <2>1, <2>2, <3>1, <4>2
    <3>2. CASE u # t
      <4>1. sleeping'[u] = sleeping[u] /\ pc'[u] = pc[u]
        BY <1>3, <2>1, <3>2
      <4>2. API!Has(u, m)' <=> owner[m] = u
        BY <1>2, <4>1
      <4> QED BY <1>3, <1>4, <2>1, <2>2, <3>2, <4>2
    <3> QED BY <3>1, <3>2
  <2> QED BY <2>3 DEF API!TypeOK
<1> QED BY <1>8, <1>9, <1>10, <1>11, <1>13, <1>14 DEF API!Thread

-----------------------------------------------------------------------------
(* What the programs compute and print.                                    *)

After(t, k) == IF pc[t] > k THEN 1 ELSE 0

Lines(first, last) ==
  IF last THEN <<"first", "last">> ELSE IF first THEN <<"first">> ELSE <<>>

RaceFix ==
  /\ balance = After(0, 3) + After(2, 3)
  /\ pc[0] \in {2, 3, 4} => owner["lock"] = 0
  /\ pc[2] \in {2, 3, 4} => owner["lock"] = 2
  /\ pc[0] = 3 => loaded[0] = balance
  /\ pc[2] = 3 => loaded[2] = balance
  /\ pc[2] > 5 => pc[0] > 4

Race ==
  /\ balance <= After(0, 2) + After(2, 2)
  /\ After(0, 2) + After(2, 2) > 0 => balance > 0
  /\ balance >= 0
  /\ pc[0] = 2 => 0 <= loaded[0] /\ loaded[0] <= After(2, 2)
  /\ pc[2] = 2 => 0 <= loaded[2] /\ loaded[2] <= After(0, 2)

SignalRight ==
  /\ done = 1 => pc[0] > 2
  /\ pc[2] > 1 => done = 1
  /\ printed = Lines(pc[0] > 1, pc[2] > 2)

SignalCVRight ==
  /\ done = 1 => pc[0] > 3
  /\ pc[2] > 2 => done = 1
  /\ printed = Lines(pc[0] > 1, pc[2] > 4)

ForkJoin ==
  /\ semaphore = After(0, 2) - After(2, 1)
  /\ printed = Lines(pc[0] > 1, pc[2] > 2)

APIResults ==
  /\ api = "main-race-fix" => RaceFix
  /\ api = "main-race" => Race
  /\ api = "main-signal" => SignalRight
  /\ api = "main-signal-cv" => SignalCVRight
  /\ api = "fork-join" => ForkJoin
  /\ api \notin {"main-signal", "main-signal-cv", "fork-join"} => printed = <<>>

APIInv == APITypes /\ Sleeps /\ API!TypeOK /\ APIResults

LEMMA ResultsInit == ASSUME API!Init PROVE APIResults
<1>1. /\ \A t \in API!Threads : pc[t] = 1
      /\ 0 \in API!Threads /\ 2 \in API!Threads
      /\ balance = 0 /\ done = 0 /\ semaphore = 0 /\ printed = <<>>
  BY DEF API!Init, API!Threads
<1> QED BY <1>1 DEF APIResults, RaceFix, Race, SignalRight, SignalCVRight, ForkJoin, After, Lines

\* The statement that a thread executes says which action that is.
LEMMA Does ==
  ASSUME APITypes, NEW t \in API!Threads, API!Thread(t)
  PROVE  LET op == API!Body(t)[pc[t]].op
         IN  /\ pc[t] \in 1..Len(API!Body(t))
             /\ op \in {"lock", "unlock", "load", "store", "print", "set", "spin", "wait",
                        "signal", "acquire", "release", "join"}
             /\ op = "lock" => API!LockMutex(t)
             /\ op = "unlock" => API!UnlockMutex(t)
             /\ op = "load" => API!Load(t)
             /\ op = "store" => API!Store(t)
             /\ op = "print" => API!PrintLine(t)
             /\ op = "set" => API!SetDone(t)
             /\ op = "spin" => API!Spin(t)
             /\ op = "wait" => API!WaitTest(t) \/ API!WaitLeave(t) \/ API!WaitSleep(t) \/ API!WaitRelock(t)
             /\ op = "signal" => API!Signal(t)
             /\ op = "acquire" => API!Acquire(t)
             /\ op = "release" => API!Release(t)
             /\ op = "join" => API!Join(t)
<1>1. pc[t] \in Nat \ {0} /\ Len(API!Body(t)) \in Nat
  BY BodiesWell DEF APITypes
<1>2. \A op : API!At(t, op) => pc[t] \in 1..Len(API!Body(t)) /\ API!Body(t)[pc[t]].op = op
  BY <1>1 DEF API!At, API!Returned
<1>3. \A op : API!Step(t, op) => API!At(t, op)
  BY DEF API!Step
<1> DEFINE x == API!Body(t)[pc[t]].op
<1> HIDE DEF x
<1>4. \A op : API!At(t, op) => x = op
  BY <1>2 DEF x
<1>5. ASSUME \/ API!LockMutex(t) \/ API!UnlockMutex(t) \/ API!Load(t) \/ API!Store(t) \/ API!PrintLine(t)
             \/ API!SetDone(t) \/ API!Spin(t)
      PROVE  /\ API!LockMutex(t) => x = "lock"
             /\ API!UnlockMutex(t) => x = "unlock"
             /\ API!Load(t) => x = "load"
             /\ API!Store(t) => x = "store"
             /\ API!PrintLine(t) => x = "print"
             /\ API!SetDone(t) => x = "set"
             /\ API!Spin(t) => x = "spin"
  BY <1>3, <1>4
     DEF API!LockMutex, API!UnlockMutex, API!Load, API!Store, API!PrintLine, API!SetDone,
         API!Spin
<1>6. /\ API!WaitTest(t) => x = "wait"
      /\ API!WaitLeave(t) => x = "wait"
      /\ API!WaitSleep(t) => x = "wait"
      /\ API!WaitRelock(t) => x = "wait"
  BY <1>3, <1>4 DEF API!WaitTest, API!WaitLeave, API!WaitSleep, API!WaitRelock
<1>7. /\ API!Signal(t) => x = "signal"
      /\ API!Acquire(t) => x = "acquire"
      /\ API!Release(t) => x = "release"
      /\ API!Join(t) => x = "join"
  BY <1>3, <1>4 DEF API!Signal, API!Acquire, API!Release, API!Join
<1>8. \E op : API!At(t, op)
  BY <1>3
     DEF API!Thread, API!LockMutex, API!UnlockMutex, API!Load, API!Store, API!PrintLine,
         API!SetDone, API!Spin, API!WaitTest, 
         API!WaitLeave, API!WaitSleep, API!WaitRelock, API!SpuriousWakeup, API!Signal,
         API!Acquire, API!Release, API!Join
<1>9. pc[t] \in 1..Len(API!Body(t))
  BY <1>2, <1>8
<1>10. /\ x \in {"lock", "unlock", "load", "store", "print", "set", "spin", "wait",
                 "signal", "acquire", "release", "join"}
       /\ x = "lock" => API!LockMutex(t)
       /\ x = "unlock" => API!UnlockMutex(t)
       /\ x = "load" => API!Load(t)
       /\ x = "store" => API!Store(t)
       /\ x = "print" => API!PrintLine(t)
       /\ x = "set" => API!SetDone(t)
       /\ x = "spin" => API!Spin(t)
       /\ x = "wait" => API!WaitTest(t) \/ API!WaitLeave(t) \/ API!WaitSleep(t) \/ API!WaitRelock(t)
       /\ x = "signal" => API!Signal(t)
       /\ x = "acquire" => API!Acquire(t)
       /\ x = "release" => API!Release(t)
       /\ x = "join" => API!Join(t)
  BY <1>5, <1>6, <1>7 DEF API!Thread
<1> QED BY <1>9, <1>10 DEF x

\* One statement on, and the others where they were.
LEMMA APIMoves ==
  ASSUME APITypes, NEW t \in API!Threads, pc' = [pc EXCEPT ![t] = @ + 1]
  PROVE  /\ pc'[t] = pc[t] + 1 /\ \A u \in API!Threads : u # t => pc'[u] = pc[u]
         /\ 0 \in API!Threads /\ 1 \in API!Threads /\ 2 \in API!Threads
         /\ pc[0] \in Nat /\ pc[1] \in Nat /\ pc[2] \in Nat
BY DEF APITypes, API!Threads

LEMMA RaceNext ==
  ASSUME APITypes, api = "main-race", Race, NEW t \in API!Threads, API!Thread(t)
  PROVE  Race' /\ printed' = printed
<1>1. /\ Len(API!Body(0)) = 2 /\ API!Body(0)[1].op = "load" /\ API!Body(0)[2].op = "store"
      /\ Len(API!Body(2)) = 3 /\ API!Body(2)[1].op = "load" /\ API!Body(2)[2].op = "store"
      /\ API!Body(2)[3].op = "join" /\ Len(API!Body(1)) = 0
  BY Bodies, Ops
<1>2. t \in {0, 2} /\ pc[t] \in 1..Len(API!Body(t))
  BY <1>1, Does DEF API!Threads
<1>3. loaded \in [API!Threads -> Int] /\ balance \in Int
  BY DEF APITypes
<1>4. CASE pc[t] = 1
  <2>1. API!Load(t)
    BY <1>1, <1>2, <1>4, Does
  <2>2. /\ pc' = [pc EXCEPT ![t] = @ + 1] /\ loaded' = [loaded EXCEPT ![t] = balance]
        /\ balance' = balance /\ printed' = printed
    BY <2>1 DEF API!Load, API!Step
  <2>3. Race'
    BY <1>2, <1>3, <1>4, <2>2, APIMoves DEF Race, After
  <2> QED BY <2>2, <2>3
<1>5. CASE pc[t] = 2
  <2>1. API!Store(t)
    BY <1>1, <1>2, <1>5, Does
  <2>2. /\ pc' = [pc EXCEPT ![t] = @ + 1] /\ loaded' = loaded
        /\ balance' = loaded[t] + 1 /\ printed' = printed
    BY <2>1 DEF API!Store, API!Step
  <2>4. /\ pc'[t] = pc[t] + 1 /\ \A u \in API!Threads : u # t => pc'[u] = pc[u]
        /\ 0 \in API!Threads /\ 2 \in API!Threads /\ pc[0] \in Nat /\ pc[2] \in Nat
    BY <2>2, APIMoves
  <2>3. Race'
    <3>1. loaded[0] \in Int /\ loaded[2] \in Int
      BY <1>3 DEF API!Threads
    <3>2. CASE t = 0
      <4>1. pc'[0] = 3 /\ pc'[2] = pc[2] /\ pc[2] \in Nat
        BY <1>5, <2>4, <3>2
      <4>2. 0 <= loaded[0] /\ loaded[0] <= After(2, 2) /\ After(0, 2) = 0
        BY <1>5, <3>2 DEF Race, After
      <4>3. /\ After(0, 2)' = 1 /\ After(2, 2)' = After(2, 2) /\ After(2, 2) \in {0, 1}
            /\ (pc[2] = 2 => After(2, 2) = 0)
        BY <4>1 DEF After
      <4>4. pc[2] = 2 => 0 <= loaded[2] /\ loaded[2] <= 0
        BY <4>2 DEF Race
      <4>5. balance' = loaded[0] + 1 /\ loaded' = loaded
        BY <2>2, <3>2
      <4> HIDE DEF After
      <4> QED BY <3>1, <4>1, <4>2, <4>3, <4>4, <4>5 DEF Race
    <3>3. CASE t = 2
      <4>1. pc'[2] = 3 /\ pc'[0] = pc[0] /\ pc[0] \in Nat
        BY <1>5, <2>4, <3>3
      <4>2. 0 <= loaded[2] /\ loaded[2] <= After(0, 2) /\ After(2, 2) = 0
        BY <1>5, <3>3 DEF Race, After
      <4>3. /\ After(2, 2)' = 1 /\ After(0, 2)' = After(0, 2) /\ After(0, 2) \in {0, 1}
            /\ (pc[0] = 2 => After(0, 2) = 0)
        BY <4>1 DEF After
      <4>4. pc[0] = 2 => 0 <= loaded[0] /\ loaded[0] <= 0
        BY <4>2 DEF Race
      <4>5. balance' = loaded[2] + 1 /\ loaded' = loaded
        BY <2>2, <3>3
      <4> HIDE DEF After
      <4> QED BY <3>1, <4>1, <4>2, <4>3, <4>4, <4>5 DEF Race
    <3> QED BY <1>2, <3>2, <3>3
  <2> QED BY <2>2, <2>3
<1>6. CASE t = 2 /\ pc[t] = 3
  <2>1. API!Join(t)
    BY <1>1, <1>2, <1>6, Does
  <2>2. pc' = [pc EXCEPT ![t] = @ + 1] /\ UNCHANGED <<loaded, balance, printed>>
    BY <2>1 DEF API!Join, API!Step
  <2>3. Race'
    BY <1>2, <1>3, <1>6, <2>2, APIMoves DEF Race, After
  <2> QED BY <2>2, <2>3
<1>7. pc[t] = 1 \/ pc[t] = 2 \/ (t = 2 /\ pc[t] = 3)
  <2>1. CASE t = 0
    <3>1. pc[t] \in 1..2
      BY <1>1, <1>2, <2>1
    <3> QED BY <3>1
  <2>2. CASE t = 2
    <3>1. pc[t] \in 1..3
      BY <1>1, <1>2, <2>2
    <3> QED BY <2>2, <3>1
  <2> QED BY <1>2, <2>1, <2>2
<1> QED BY <1>4, <1>5, <1>6, <1>7

\* A thread that is at its first to last statement, at a statement of its own.
LEMMA Positions ==
  ASSUME NEW n \in Nat, NEW m \in Nat, n \in 1..m
  PROVE  /\ m = 1 => n = 1
         /\ m = 2 => n \in {1, 2}
         /\ m = 3 => n \in {1, 2, 3}
         /\ m = 4 => n \in {1, 2, 3, 4}
         /\ m = 5 => n \in {1, 2, 3, 4, 5}
OBVIOUS

\* What happens to the two increments with a lock when thread t, the other being
\* u, makes a step.
LEMMA RaceFixOne ==
  ASSUME APITypes, NEW t \in {0, 2}, NEW u \in {0, 2}, u # t, RaceFix,
         pc'[t] = pc[t] + 1, pc'[u] = pc[u],
         \/ /\ pc[t] = 1 /\ owner["lock"] = API!None /\ owner'["lock"] = t
            /\ UNCHANGED <<loaded, balance>>
         \/ /\ pc[t] = 2 /\ loaded'[t] = balance /\ loaded'[u] = loaded[u]
            /\ UNCHANGED <<owner, balance>>
         \/ pc[t] = 3 /\ balance' = loaded[t] + 1 /\ UNCHANGED <<owner, loaded>>
         \/ pc[t] = 4 /\ UNCHANGED <<loaded, balance>>
            /\ (owner["lock"] # t => owner'["lock"] = owner["lock"])
         \/ pc[t] = 5 /\ t = 2 /\ pc[0] > 4 /\ UNCHANGED <<owner, loaded, balance>>
  PROVE  RaceFix'
<1>1. /\ pc[0] \in Nat /\ pc[2] \in Nat /\ balance \in Int /\ API!None = -1
      /\ loaded[0] \in Int /\ loaded[2] \in Int
  BY DEF APITypes, API!Threads, API!None
<1>2. /\ pc[t] \in {2, 3, 4} => owner["lock"] = t
      /\ pc[u] \in {2, 3, 4} => owner["lock"] = u
      /\ pc[t] = 3 => loaded[t] = balance
      /\ pc[u] = 3 => loaded[u] = balance
      /\ balance = After(t, 3) + After(u, 3)
      /\ After(t, 3) \in {0, 1} /\ After(u, 3) \in {0, 1}
  BY <1>1 DEF RaceFix, After
<1>3. After(u, 3)' = After(u, 3)
  BY DEF After
<1>4. After(t, 3)' = IF pc[t] >= 3 THEN 1 ELSE 0
  BY <1>1 DEF After
<1>5. After(t, 3) = IF pc[t] > 3 THEN 1 ELSE 0
  BY DEF After
<1>6. balance' = After(t, 3)' + After(u, 3)'
  BY <1>1, <1>2, <1>3, <1>4, <1>5
<1>7. /\ pc'[t] \in {2, 3, 4} => owner'["lock"] = t
      /\ pc'[u] \in {2, 3, 4} => owner'["lock"] = u
  BY <1>1, <1>2
<1>8. /\ pc'[t] = 3 => loaded'[t] = balance'
      /\ pc'[u] = 3 => loaded'[u] = balance'
  BY <1>1, <1>2
<1>9. pc'[2] > 5 => pc'[0] > 4
  <2>1. pc[2] > 5 => pc[0] > 4
    BY DEF RaceFix
  <2>2. CASE t = 0
    BY <1>1, <2>1, <2>2
  <2>3. CASE t = 2
    BY <1>1, <2>1, <2>3
  <2> QED BY <2>2, <2>3
<1>10. CASE t = 0 /\ u = 2
  <2> HIDE DEF After
  <2>1. balance' = (After(0, 3) + After(2, 3))'
    BY <1>6, <1>10
  <2> QED BY <1>7, <1>8, <1>9, <1>10, <2>1 DEF RaceFix
<1>11. CASE t = 2 /\ u = 0
  <2>1. balance' = (After(0, 3) + After(2, 3))'
    <3>1. After(0, 3)' \in {0, 1} /\ After(2, 3)' \in {0, 1}
      BY <1>2, <1>3, <1>4, <1>11
    <3> QED BY <1>6, <1>11, <3>1
  <2> QED BY <1>7, <1>8, <1>9, <1>11, <2>1 DEF RaceFix
<1> QED BY <1>10, <1>11

LEMMA RaceFixNext ==
  ASSUME APITypes, api = "main-race-fix", RaceFix, NEW t \in API!Threads, API!Thread(t)
  PROVE  RaceFix' /\ printed' = printed
<1>1. /\ Len(API!Body(0)) = 4 /\ Len(API!Body(2)) = 5 /\ Len(API!Body(1)) = 0
      /\ \A u \in {0, 2} :
           /\ API!Body(u)[1] = API!Lock("lock") /\ API!Body(u)[2] = API!Do("load")
                /\ API!Body(u)[3] = API!Do("store")
           /\ API!Body(u)[4] = API!Unlock("lock")
      /\ API!Body(2)[5] = API!Do("join")
  BY Bodies
<1>2. t \in {0, 2} /\ pc[t] \in 1..Len(API!Body(t))
  BY <1>1, Does DEF API!Threads
<1>3. PICK u \in {0, 2} : u # t
  OBVIOUS
<1>4. owner \in [API!Mutexes -> API!Threads \cup {API!None}] /\ loaded \in [API!Threads -> Int]
      /\ {"lock"} \subseteq API!Mutexes /\ {0, 2} \subseteq API!Threads
  BY DEF APITypes, API!Mutexes, API!Threads
<1>5. ASSUME NEW op, API!Step(t, op) PROVE pc'[t] = pc[t] + 1 /\ pc'[u] = pc[u]
  BY <1>2, <1>3, <1>5 DEF API!Step, APITypes, API!Threads
<1>6. CASE pc[t] = 1
  <2>1. API!LockMutex(t) /\ API!Arg(t) = "lock"
    BY <1>1, <1>2, <1>6, Does, Ops DEF API!Arg
  <2>2. /\ API!Step(t, "lock") /\ owner["lock"] = API!None /\ owner' = [owner EXCEPT !["lock"] = t]
        /\ UNCHANGED <<loaded, balance, printed>>
    BY <2>1 DEF API!LockMutex
  <2>3. owner'["lock"] = t
    BY <1>4, <2>2
  <2> QED BY <1>2, <1>3, <1>5, <1>6, <2>2, <2>3, RaceFixOne
<1>7. CASE pc[t] = 2
  <2>1. API!Load(t)
    BY <1>1, <1>2, <1>7, Does, Ops
  <2>2. /\ API!Step(t, "load") /\ loaded' = [loaded EXCEPT ![t] = balance]
        /\ UNCHANGED <<owner, balance, printed>>
    BY <2>1 DEF API!Load
  <2>3. loaded'[t] = balance /\ loaded'[u] = loaded[u]
    BY <1>2, <1>3, <1>4, <2>2
  <2> QED BY <1>2, <1>3, <1>5, <1>7, <2>2, <2>3, RaceFixOne
<1>8. CASE pc[t] = 3
  <2>1. API!Store(t)
    BY <1>1, <1>2, <1>8, Does, Ops
  <2>2. /\ API!Step(t, "store") /\ balance' = loaded[t] + 1
        /\ UNCHANGED <<owner, loaded, printed>>
    BY <2>1 DEF API!Store
  <2> QED BY <1>2, <1>3, <1>5, <1>8, <2>2, RaceFixOne
<1>9. CASE pc[t] = 4
  <2>1. API!UnlockMutex(t) /\ API!Arg(t) = "lock"
    BY <1>1, <1>2, <1>9, Does, Ops DEF API!Arg
  <2>2. /\ API!Step(t, "unlock") /\ owner' = [owner EXCEPT !["lock"] = API!None]
        /\ UNCHANGED <<loaded, balance, printed>>
    BY <2>1 DEF API!UnlockMutex
  <2>3. owner["lock"] = t
    BY <1>2, <1>9 DEF RaceFix
  <2> QED BY <1>2, <1>3, <1>5, <1>9, <2>2, <2>3, RaceFixOne
<1>10. CASE t = 2 /\ pc[t] = 5
  <2>1. API!Join(t)
    BY <1>1, <1>2, <1>10, Does, Ops
  <2>2. API!Step(t, "join") /\ API!Returned(0) /\ UNCHANGED <<owner, loaded, balance, printed>>
    BY <2>1 DEF API!Join
  <2>3. pc[0] > 4
    BY <1>1, <2>2 DEF API!Returned
  <2> QED BY <1>2, <1>3, <1>5, <1>10, <2>2, <2>3, RaceFixOne
<1>11. pc[t] \in {1, 2, 3, 4} \/ (t = 2 /\ pc[t] = 5)
  BY <1>1, <1>2, Positions DEF APITypes
<1> QED BY <1>6, <1>7, <1>8, <1>9, <1>10, <1>11

LEMMA LinesGrow ==
  /\ Append(Lines(FALSE, FALSE), "first") = Lines(TRUE, FALSE)
  /\ Append(Lines(TRUE, FALSE), "last") = Lines(TRUE, TRUE)
<1>1. Append(<<>>, "first") = <<"first">>
  <2> DEFINE x == "first"
             s == Append(<<>>, x)
  <2>1. s \in Seq({x}) /\ Len(s) = 1 /\ s[1] = x
    OBVIOUS
  <2>2. <<x>> \in Seq({x}) /\ Len(<<x>>) = 1 /\ <<x>>[1] = x
    OBVIOUS
  <2> HIDE DEF x, s
  <2>3. \A i \in 1..Len(s) : s[i] = <<x>>[i]
    BY <2>1, <2>2
  <2>4. s = <<x>>
    BY <2>1, <2>2, <2>3, SeqEqual
  <2> QED BY <2>4 DEF s, x
<1>2. Append(<<"first">>, "last") = <<"first", "last">>
  <2> DEFINE x == "first"
             y == "last"
             s == Append(<<x>>, y)
             u == <<x, y>>
  <2>1. s \in Seq({x, y}) /\ Len(s) = 2 /\ s[1] = x /\ s[2] = y
    OBVIOUS
  <2>2. u \in Seq({x, y}) /\ Len(u) = 2 /\ u[1] = x /\ u[2] = y
    OBVIOUS
  <2> HIDE DEF x, y, s, u
  <2>3. \A i \in 1..Len(s) : s[i] = u[i]
    BY <2>1, <2>2
  <2>4. s = u
    BY <2>1, <2>2, <2>3, SeqEqual
  <2> QED BY <2>4 DEF s, u, x, y
<1> QED BY <1>1, <1>2 DEF Lines

\* A statement of the worker leaves main() where it is, and the reverse.
LEMMA MovesOne ==
  ASSUME APITypes, NEW t \in API!Threads, NEW op, API!Step(t, op)
  PROVE  /\ t = 0 => pc'[0] = pc[0] + 1 /\ pc'[2] = pc[2]
         /\ t = 2 => pc'[2] = pc[2] + 1 /\ pc'[0] = pc[0]
         /\ pc[0] \in Nat /\ pc[2] \in Nat
BY DEF API!Step, APITypes, API!Threads

LEMMA SignalNext ==
  ASSUME APITypes, api = "main-signal", SignalRight, NEW t \in API!Threads, API!Thread(t)
  PROVE  SignalRight'
<1>1. /\ Len(API!Body(0)) = 2 /\ API!Body(0)[1] = API!Say("first") /\ API!Body(0)[2] = API!Do("set")
      /\ Len(API!Body(2)) = 2 /\ API!Body(2)[1] = API!Do("spin") /\ API!Body(2)[2] = API!Say("last")
      /\ Len(API!Body(1)) = 0
  BY Bodies
<1>2. t \in {0, 2} /\ pc[t] \in 1..Len(API!Body(t))
  BY <1>1, Does DEF API!Threads
<1>3. pc[0] \in Nat /\ pc[2] \in Nat /\ done \in {0, 1}
  BY DEF APITypes, API!Threads
<1>4. pc[t] \in {1, 2}
  BY <1>1, <1>2, Positions DEF APITypes
<1>5. CASE t = 0 /\ pc[0] = 1
  <2>1. API!PrintLine(t) /\ API!Arg(t) = "first"
    BY <1>1, <1>2, <1>5, Does, Ops DEF API!Arg
  <2>2. API!Step(t, "print") /\ printed' = Append(printed, "first") /\ done' = done
    BY <2>1 DEF API!PrintLine
  <2>3. pc'[0] = 2 /\ pc'[2] = pc[2]
    BY <1>5, <2>2, MovesOne
  <2>4. ~(pc[2] > 1) /\ ~(pc[2] > 2)
    BY <1>3, <1>5 DEF SignalRight
  <2>5. printed = Lines(FALSE, FALSE)
    BY <1>5, <2>4 DEF SignalRight, Lines
  <2>6. printed' = Lines(TRUE, FALSE)
    BY <2>2, <2>5, LinesGrow
  <2>7. (pc[0] > 1)' /\ ~(pc[2] > 2)'
    BY <2>3, <2>4
  <2>8. (printed = Lines(pc[0] > 1, pc[2] > 2))'
    BY <2>6, <2>7 DEF Lines
  <2> QED BY <1>5, <2>2, <2>3, <2>4, <2>8 DEF SignalRight
<1>6. CASE t = 0 /\ pc[0] = 2
  <2>1. API!SetDone(t)
    BY <1>1, <1>2, <1>6, Does, Ops
  <2>2. API!Step(t, "set") /\ done' = 1 /\ printed' = printed
    BY <2>1 DEF API!SetDone
  <2>3. pc'[0] = 3 /\ pc'[2] = pc[2]
    BY <1>6, <2>2, MovesOne
  <2>4. (printed = Lines(pc[0] > 1, pc[2] > 2))'
    BY <1>6, <2>2, <2>3 DEF SignalRight, Lines
  <2> QED BY <2>2, <2>3, <2>4 DEF SignalRight
<1>7. CASE t = 2 /\ pc[2] = 1
  <2>1. API!Spin(t)
    BY <1>1, <1>2, <1>7, Does, Ops
  <2>2. API!Step(t, "spin") /\ done # 0 /\ done' = done /\ printed' = printed
    BY <2>1 DEF API!Spin
  <2>3. pc'[2] = 2 /\ pc'[0] = pc[0]
    BY <1>7, <2>2, MovesOne
  <2>4. (printed = Lines(pc[0] > 1, pc[2] > 2))'
    BY <1>7, <2>2, <2>3 DEF SignalRight, Lines
  <2> QED BY <1>3, <2>2, <2>3, <2>4 DEF SignalRight
<1>8. CASE t = 2 /\ pc[2] = 2
  <2>1. API!PrintLine(t) /\ API!Arg(t) = "last"
    BY <1>1, <1>2, <1>8, Does, Ops DEF API!Arg
  <2>2. API!Step(t, "print") /\ printed' = Append(printed, "last") /\ done' = done
    BY <2>1 DEF API!PrintLine
  <2>3. pc'[2] = 3 /\ pc'[0] = pc[0]
    BY <1>8, <2>2, MovesOne
  <2>4. pc[0] > 2 /\ pc[0] > 1 /\ done = 1
    BY <1>3, <1>8 DEF SignalRight
  <2>5. printed = Lines(TRUE, FALSE)
    BY <1>8, <2>4 DEF SignalRight, Lines
  <2>6. printed' = Lines(TRUE, TRUE)
    BY <2>2, <2>5, LinesGrow
  <2>7. (pc[0] > 1)' /\ (pc[2] > 2)'
    BY <2>3, <2>4
  <2>8. (printed = Lines(pc[0] > 1, pc[2] > 2))'
    BY <2>6, <2>7 DEF Lines
  <2> QED BY <2>2, <2>3, <2>4, <2>8 DEF SignalRight
<1> QED BY <1>2, <1>4, <1>5, <1>6, <1>7, <1>8

LEMMA ForkJoinNext ==
  ASSUME APITypes, api = "fork-join", ForkJoin, NEW t \in API!Threads, API!Thread(t)
  PROVE  ForkJoin'
<1>1. /\ Len(API!Body(0)) = 2 /\ API!Body(0)[1] = API!Say("first")
           /\ API!Body(0)[2] = API!Do("release")
      /\ Len(API!Body(2)) = 3 /\ API!Body(2)[1] = API!Do("acquire")
           /\ API!Body(2)[2] = API!Say("last")
      /\ API!Body(2)[3] = API!Do("join") /\ Len(API!Body(1)) = 0
  BY Bodies
<1>2. t \in {0, 2} /\ pc[t] \in 1..Len(API!Body(t))
  BY <1>1, Does DEF API!Threads
<1>3. pc[0] \in Nat /\ pc[2] \in Nat /\ semaphore \in Nat
  BY DEF APITypes, API!Threads
<1>4. pc[t] \in {1, 2} \/ (t = 2 /\ pc[t] = 3)
  BY <1>1, <1>2, Positions DEF APITypes
<1>0. pc[2] > 1 => pc[0] > 2
  BY <1>3 DEF ForkJoin, After
<1>5. CASE t = 0 /\ pc[0] = 1
  <2>1. API!PrintLine(t) /\ API!Arg(t) = "first"
    BY <1>1, <1>2, <1>5, Does, Ops DEF API!Arg
  <2>2. API!Step(t, "print") /\ printed' = Append(printed, "first") /\ semaphore' = semaphore
    BY <2>1 DEF API!PrintLine
  <2>3. pc'[0] = 2 /\ pc'[2] = pc[2]
    BY <1>5, <2>2, MovesOne
  <2>4. ~(pc[2] > 1) /\ ~(pc[2] > 2)
    BY <1>0, <1>3, <1>5
  <2>5. printed = Lines(FALSE, FALSE)
    BY <1>5, <2>4 DEF ForkJoin, Lines
  <2>6. printed' = Lines(TRUE, FALSE)
    BY <2>2, <2>5, LinesGrow
  <2>7. (pc[0] > 1)' /\ ~(pc[2] > 2)'
    BY <2>3, <2>4
  <2>8. (printed = Lines(pc[0] > 1, pc[2] > 2))'
    BY <2>6, <2>7 DEF Lines
  <2>9. semaphore' = (After(0, 2) - After(2, 1))'
    BY <1>5, <2>2, <2>3 DEF ForkJoin, After
  <2> QED BY <2>8, <2>9 DEF ForkJoin
<1>6. CASE t = 0 /\ pc[0] = 2
  <2>1. API!Release(t)
    BY <1>1, <1>2, <1>6, Does, Ops
  <2>2. API!Step(t, "release") /\ semaphore' = semaphore + 1 /\ printed' = printed
    BY <2>1 DEF API!Release
  <2>3. pc'[0] = 3 /\ pc'[2] = pc[2]
    BY <1>6, <2>2, MovesOne
  <2>4. (printed = Lines(pc[0] > 1, pc[2] > 2))'
    BY <1>6, <2>2, <2>3 DEF ForkJoin, Lines
  <2>9. semaphore' = (After(0, 2) - After(2, 1))'
    BY <1>3, <1>6, <2>2, <2>3 DEF ForkJoin, After
  <2> QED BY <2>4, <2>9 DEF ForkJoin
<1>7. CASE t = 2 /\ pc[2] = 1
  <2>1. API!Acquire(t)
    BY <1>1, <1>2, <1>7, Does, Ops
  <2>2. API!Step(t, "acquire") /\ semaphore > 0 /\ semaphore' = semaphore - 1 /\ printed' = printed
    BY <2>1 DEF API!Acquire
  <2>3. pc'[2] = 2 /\ pc'[0] = pc[0]
    BY <1>7, <2>2, MovesOne
  <2>4. (printed = Lines(pc[0] > 1, pc[2] > 2))'
    BY <1>7, <2>2, <2>3 DEF ForkJoin, Lines
  <2>9. semaphore' = (After(0, 2) - After(2, 1))'
    BY <1>3, <1>7, <2>2, <2>3 DEF ForkJoin, After
  <2> QED BY <2>4, <2>9 DEF ForkJoin
<1>8. CASE t = 2 /\ pc[2] = 2
  <2>1. API!PrintLine(t) /\ API!Arg(t) = "last"
    BY <1>1, <1>2, <1>8, Does, Ops DEF API!Arg
  <2>2. API!Step(t, "print") /\ printed' = Append(printed, "last") /\ semaphore' = semaphore
    BY <2>1 DEF API!PrintLine
  <2>3. pc'[2] = 3 /\ pc'[0] = pc[0]
    BY <1>8, <2>2, MovesOne
  <2>4. pc[0] > 2 /\ pc[0] > 1
    BY <1>0, <1>3, <1>8
  <2>5. printed = Lines(TRUE, FALSE)
    BY <1>8, <2>4 DEF ForkJoin, Lines
  <2>6. printed' = Lines(TRUE, TRUE)
    BY <2>2, <2>5, LinesGrow
  <2>7. (pc[0] > 1)' /\ (pc[2] > 2)'
    BY <2>3, <2>4
  <2>8. (printed = Lines(pc[0] > 1, pc[2] > 2))'
    BY <2>6, <2>7 DEF Lines
  <2>9. semaphore' = (After(0, 2) - After(2, 1))'
    BY <1>3, <1>8, <2>2, <2>3 DEF ForkJoin, After
  <2> QED BY <2>8, <2>9 DEF ForkJoin
<1>9. CASE t = 2 /\ pc[2] = 3
  <2>1. API!Join(t)
    BY <1>1, <1>2, <1>9, Does, Ops
  <2>2. API!Step(t, "join") /\ semaphore' = semaphore /\ printed' = printed
    BY <2>1 DEF API!Join
  <2>3. pc'[2] = 4 /\ pc'[0] = pc[0]
    BY <1>9, <2>2, MovesOne
  <2>4. (printed = Lines(pc[0] > 1, pc[2] > 2))'
    BY <1>9, <2>2, <2>3 DEF ForkJoin, Lines
  <2>9. semaphore' = (After(0, 2) - After(2, 1))'
    BY <1>3, <1>9, <2>2, <2>3 DEF ForkJoin, After
  <2> QED BY <2>4, <2>9 DEF ForkJoin
<1> QED BY <1>2, <1>4, <1>5, <1>6, <1>7, <1>8, <1>9

LEMMA SignalCVNext ==
  ASSUME APITypes, api = "main-signal-cv", SignalCVRight, NEW t \in API!Threads, API!Thread(t)
  PROVE  SignalCVRight'
<1>1. /\ Len(API!Body(0)) = 5 /\ API!Body(0)[1] = API!Say("first")
           /\ API!Body(0)[2] = API!Lock("lock")
      /\ API!Body(0)[3] = API!Do("set") /\ API!Body(0)[4] = API!Do("signal")
           /\ API!Body(0)[5] = API!Unlock("lock")
      /\ Len(API!Body(2)) = 4 /\ API!Body(2)[1] = API!Lock("lock")
           /\ API!Body(2)[2] = API!Do("wait")
      /\ API!Body(2)[3] = API!Unlock("lock") /\ API!Body(2)[4] = API!Say("last")
      /\ Len(API!Body(1)) = 0
  BY Bodies
<1>2. t \in {0, 2} /\ pc[t] \in 1..Len(API!Body(t))
  BY <1>1, Does DEF API!Threads
<1>3. pc[0] \in Nat /\ pc[2] \in Nat /\ done \in {0, 1}
  BY DEF APITypes, API!Threads
<1>4. pc[t] \in {1, 2, 3, 4} \/ (t = 0 /\ pc[t] = 5)
  BY <1>1, <1>2, Positions DEF APITypes
\* The statements that neither print nor set done, nor wait.
<1>5. ASSUME NEW op, API!Step(t, op), done' = done, printed' = printed,
             pc[t] # 1 \/ t # 0, pc[t] # 4 \/ t # 2, pc[t] = 2 /\ t = 2 => done = 1
      PROVE  SignalCVRight'
  <2>1. /\ t = 0 => pc'[0] = pc[0] + 1 /\ pc'[2] = pc[2]
        /\ t = 2 => pc'[2] = pc[2] + 1 /\ pc'[0] = pc[0]
    BY <1>5, MovesOne
  <2>2. pc[t] >= 1
    BY <1>1, <1>2
  <2>3. (pc'[0] > 1 <=> pc[0] > 1) /\ (pc'[2] > 4 <=> pc[2] > 4)
    BY <1>2, <1>3, <1>5, <2>1, <2>2
  <2>4. (printed = Lines(pc[0] > 1, pc[2] > 4))'
    BY <1>5, <2>3 DEF SignalCVRight, Lines
  <2>5. pc'[2] > 2 => pc[2] > 2 \/ done = 1
    BY <1>2, <1>3, <1>5, <2>1
  <2>6. (pc'[0] > 3 \/ ~pc[0] > 3)
    BY <1>2, <1>3, <2>1
  <2> QED BY <1>5, <2>4, <2>5, <2>6 DEF SignalCVRight
<1>6. CASE t = 0 /\ pc[0] = 1
  <2>1. API!PrintLine(t) /\ API!Arg(t) = "first"
    BY <1>1, <1>2, <1>6, Does, Ops DEF API!Arg
  <2>2. API!Step(t, "print") /\ printed' = Append(printed, "first") /\ done' = done
    BY <2>1 DEF API!PrintLine
  <2>3. pc'[0] = 2 /\ pc'[2] = pc[2]
    BY <1>6, <2>2, MovesOne
  <2>4. ~(pc[2] > 2) /\ ~(pc[2] > 4)
    BY <1>3, <1>6 DEF SignalCVRight
  <2>5. printed = Lines(FALSE, FALSE)
    BY <1>6, <2>4 DEF SignalCVRight, Lines
  <2>6. printed' = Lines(TRUE, FALSE)
    BY <2>2, <2>5, LinesGrow
  <2>7. (pc[0] > 1)' /\ ~(pc[2] > 4)'
    BY <2>3, <2>4
  <2>8. (printed = Lines(pc[0] > 1, pc[2] > 4))'
    BY <2>6, <2>7 DEF Lines
  <2> QED BY <1>6, <2>2, <2>3, <2>4, <2>8 DEF SignalCVRight
<1>7. CASE t = 0 /\ pc[0] = 3
  <2>1. API!SetDone(t)
    BY <1>1, <1>2, <1>7, Does, Ops
  <2>2. API!Step(t, "set") /\ done' = 1 /\ printed' = printed
    BY <2>1 DEF API!SetDone
  <2>3. pc'[0] = 4 /\ pc'[2] = pc[2]
    BY <1>7, <2>2, MovesOne
  <2>4. (printed = Lines(pc[0] > 1, pc[2] > 4))'
    BY <1>7, <2>2, <2>3 DEF SignalCVRight, Lines
  <2> QED BY <2>2, <2>3, <2>4 DEF SignalCVRight
<1>8. CASE t = 2 /\ pc[2] = 4
  <2>1. API!PrintLine(t) /\ API!Arg(t) = "last"
    BY <1>1, <1>2, <1>8, Does, Ops DEF API!Arg
  <2>2. API!Step(t, "print") /\ printed' = Append(printed, "last") /\ done' = done
    BY <2>1 DEF API!PrintLine
  <2>3. pc'[2] = 5 /\ pc'[0] = pc[0]
    BY <1>8, <2>2, MovesOne
  <2>4. pc[0] > 3 /\ pc[0] > 1 /\ done = 1
    BY <1>3, <1>8 DEF SignalCVRight
  <2>5. printed = Lines(TRUE, FALSE)
    BY <1>8, <2>4 DEF SignalCVRight, Lines
  <2>6. printed' = Lines(TRUE, TRUE)
    BY <2>2, <2>5, LinesGrow
  <2>7. (pc[0] > 1)' /\ (pc[2] > 4)'
    BY <2>3, <2>4
  <2>8. (printed = Lines(pc[0] > 1, pc[2] > 4))'
    BY <2>6, <2>7 DEF Lines
  <2> QED BY <2>2, <2>3, <2>4, <2>8 DEF SignalCVRight
<1>9. CASE t = 2 /\ pc[2] = 2
  <2>1. API!WaitTest(t) \/ API!WaitLeave(t) \/ API!WaitSleep(t) \/ API!WaitRelock(t)
    BY <1>1, <1>2, <1>9, Does, Ops
  <2>2. CASE API!WaitLeave(t)
    <3>1. API!Step(t, "wait") /\ done # 0 /\ done' = done /\ printed' = printed
      BY <2>2 DEF API!WaitLeave
    <3>2. done = 1
      BY <1>3, <3>1
    <3> QED BY <1>5, <1>9, <3>1, <3>2
  <2>3. CASE ~API!WaitLeave(t)
    <3>1. pc' = pc /\ done' = done /\ printed' = printed
      BY <2>1, <2>3 DEF API!WaitTest, API!WaitSleep, API!WaitRelock
    <3> QED BY <3>1 DEF SignalCVRight, Lines
  <2> QED BY <2>2, <2>3
<1>10. CASE (t = 0 /\ pc[0] = 2) \/ (t = 2 /\ pc[2] = 1)
  <2>1. API!LockMutex(t)
    BY <1>1, <1>2, <1>10, Does, Ops
  <2>2. API!Step(t, "lock") /\ done' = done /\ printed' = printed
    BY <2>1 DEF API!LockMutex
  <2> QED BY <1>5, <1>10, <2>2
<1>11. CASE (t = 0 /\ pc[0] = 5) \/ (t = 2 /\ pc[2] = 3)
  <2>1. API!UnlockMutex(t)
    BY <1>1, <1>2, <1>11, Does, Ops
  <2>2. API!Step(t, "unlock") /\ done' = done /\ printed' = printed
    BY <2>1 DEF API!UnlockMutex
  <2> QED BY <1>5, <1>11, <2>2
<1>12. CASE t = 0 /\ pc[0] = 4
  <2>1. API!Signal(t)
    BY <1>1, <1>2, <1>12, Does, Ops
  <2>2. API!Step(t, "signal") /\ done' = done /\ printed' = printed
    BY <2>1 DEF API!Signal
  <2> QED BY <1>5, <1>12, <2>2
<1> QED BY <1>2, <1>4, <1>6, <1>7, <1>8, <1>9, <1>10, <1>11, <1>12

\* The programs that print nothing, a statement of which no body has.
LEMMA Silent ==
  ASSUME APITypes, NEW t \in API!Threads, API!Thread(t),
         api \in {"main-deadlock", "main-deadlock-global"}
  PROVE  printed' = printed
<1>1. /\ pc[t] \in 1..Len(API!Body(t))
      /\ API!Body(t)[pc[t]].op # "print" => printed' = printed
  <2>1. pc[t] \in 1..Len(API!Body(t))
    BY Does
  <2>2. API!PrintLine(t) => API!At(t, "print")
    BY DEF API!PrintLine, API!Step
  <2>3. API!At(t, "print") => API!Body(t)[pc[t]].op = "print"
    BY DEF API!At
  <2>4. ~API!PrintLine(t) => printed' = printed
    BY DEF API!Thread, API!LockMutex, API!UnlockMutex, API!Load, API!Store, API!SetDone,
           API!Spin, API!WaitTest, API!WaitLeave, 
           API!WaitSleep, API!WaitRelock, API!Signal, API!Acquire, API!Release, API!Join
  <2> QED BY <2>1, <2>2, <2>3, <2>4
<1>2. t \in {0, 1, 2}
  BY DEF API!Threads
<1>3. ASSUME NEW b, \/ b = Crossed("m1", "m2") \/ b = Crossed("m2", "m1")
                    \/ b = Guarded("m1", "m2") \/ b = Guarded("m2", "m1")
                    \/ b = <<API!Do("join")>>,
             NEW i \in 1..Len(b)
      PROVE  b[i].op # "print"
  <2>1. ASSUME NEW a, NEW c, b = Crossed(a, c)
        PROVE  b[i].op # "print"
    <3>1. /\ Len(b) = 4 /\ b[1] = API!Lock(a) /\ b[2] = API!Lock(c)
          /\ b[3] = API!Unlock("m1") /\ b[4] = API!Unlock("m2")
      BY <2>1 DEF Crossed
    <3>2. i \in {1, 2, 3, 4}
      BY <3>1
    <3> QED BY <3>1, <3>2, Ops
  <2>2. ASSUME NEW a, NEW c, b = Guarded(a, c)
        PROVE  b[i].op # "print"
    <3>1. /\ Len(b) = 6 /\ b[1] = API!Lock("g") /\ b[2] = API!Lock(a) /\ b[3] = API!Lock(c)
          /\ b[4] = API!Unlock("m1") /\ b[5] = API!Unlock("m2") /\ b[6] = API!Unlock("g")
      BY <2>2 DEF Guarded
    <3>2. i \in {1, 2, 3, 4, 5, 6}
      BY <3>1
    <3> QED BY <3>1, <3>2, Ops
  <2>3. ASSUME b = <<API!Do("join")>> PROVE b[i].op # "print"
    <3>1. Len(b) = 1 /\ b[1] = API!Do("join")
      BY <2>3
    <3>2. i = 1
      BY <3>1
    <3> QED BY <3>1, <3>2, Ops
  <2> QED BY <1>3, <2>1, <2>2, <2>3
<1>4. \/ API!Body(t) = Crossed("m1", "m2") \/ API!Body(t) = Crossed("m2", "m1")
      \/ API!Body(t) = Guarded("m1", "m2") \/ API!Body(t) = Guarded("m2", "m1")
      \/ API!Body(t) = <<API!Do("join")>>
  <2>1. CASE api = "main-deadlock"
    BY <1>2, <2>1, Bodies
  <2>2. CASE api = "main-deadlock-global"
    BY <1>2, <2>2, Bodies
  <2> QED BY <2>1, <2>2
<1> QED BY <1>1, <1>3, <1>4

LEMMA ResultsNext ==
  ASSUME APITypes, Sleeps, APIResults, NEW t \in API!Threads, API!Thread(t)
  PROVE  APIResults'
<1>1. api' = api
  BY OneStep
<1>2. api \in {"main-deadlock", "main-deadlock-global", "main-race", "main-race-fix",
               "main-signal", "main-signal-cv", "fork-join"}
  BY DEF APITypes, APIPrograms
<1>3. CASE api \in {"main-deadlock", "main-deadlock-global"}
  BY <1>1, <1>3, Silent DEF APIResults
<1>4. CASE api = "main-race"
  BY <1>1, <1>4, RaceNext DEF APIResults
<1>5. CASE api = "main-race-fix"
  BY <1>1, <1>5, RaceFixNext DEF APIResults
<1>6. CASE api = "main-signal"
  BY <1>1, <1>6, SignalNext DEF APIResults
<1>7. CASE api = "main-signal-cv"
  BY <1>1, <1>7, SignalCVNext DEF APIResults
<1>8. CASE api = "fork-join"
  BY <1>1, <1>8, ForkJoinNext DEF APIResults
<1> QED BY <1>2, <1>3, <1>4, <1>5, <1>6, <1>7, <1>8

LEMMA APIThread ==
  ASSUME APIInv, NEW t \in API!Threads, API!Thread(t) PROVE APIInv'
BY OneStep, OwnersNext, ResultsNext DEF APIInv

LEMMA APISpurious ==
  ASSUME APIInv, API!SpuriousWakeup(API!Main) PROVE APIInv'
<1>1. API!Main \in API!Threads
  BY DEF API!Main, API!Threads
<1>2. APITypes' /\ Sleeps' /\ API!TypeOK'
  BY <1>1, OneStep, OwnersNext DEF APIInv
<1>3. UNCHANGED <<api, pc, loaded, owner, balance, done, semaphore, printed>>
  BY DEF API!SpuriousWakeup
<1>4. APIResults'
  BY <1>3 DEF APIInv, APIResults, RaceFix, Race, SignalRight, SignalCVRight, ForkJoin, After, Lines
<1> QED BY <1>2, <1>4 DEF APIInv

LEMMA APIUnchanged ==
  ASSUME APIInv, UNCHANGED API!vars PROVE APIInv'
<1>1. UNCHANGED <<api, pc, loaded, owner, balance, done, semaphore, sleeping, printed>>
  BY DEF API!vars
<1>2. \A t : API!Body(t)' = API!Body(t)
  BY <1>1, BodySame
<1>3. APITypes' /\ Sleeps'
  BY <1>1, <1>2 DEF APIInv, APITypes, Sleeps, API!At, API!Returned
<1>4. API!TypeOK'
  BY <1>1, <1>2 DEF APIInv, API!TypeOK, API!Has
<1>5. APIResults'
  BY <1>1 DEF APIInv, APIResults, RaceFix, Race, SignalRight, SignalCVRight, ForkJoin, After, Lines
<1> QED BY <1>3, <1>4, <1>5 DEF APIInv

LEMMA APINext == ASSUME APIInv, [API!Next]_(API!vars) PROVE APIInv'
<1>1. CASE UNCHANGED API!vars
  BY <1>1, APIUnchanged
<1>2. CASE \E t \in API!Threads : API!Thread(t)
  BY <1>2, APIThread
<1>3. CASE API!SpuriousWakeup(API!Main)
  BY <1>3, APISpurious
<1> QED BY <1>1, <1>2, <1>3 DEF API!Next, API!Ended

LEMMA APIHolds ==
  ASSUME APIInv PROVE API!TypeOK /\ API!ResultsHold
<1>1. API!TypeOK /\ APITypes /\ APIResults
  BY DEF APIInv
<1>2. pc[0] \in Nat /\ pc[2] \in Nat /\ balance \in Int /\ API!Main = 2
      /\ pc[0] >= 1 /\ pc[2] >= 1
  BY <1>1 DEF APITypes, API!Threads, API!Main
<1>3. API!AllDone /\ api = "main-race-fix" => balance = 2
  <2> SUFFICES ASSUME API!AllDone, api = "main-race-fix" PROVE balance = 2
    OBVIOUS
  <2>1. pc[2] > 5
    BY <1>2, Bodies DEF API!AllDone, API!Returned
  <2> QED BY <1>1, <1>2, <2>1 DEF APIResults, RaceFix, After
<1>4. API!AllDone /\ api = "main-race" => balance \in {1, 2}
  <2> SUFFICES ASSUME API!AllDone, api = "main-race" PROVE balance \in {1, 2}
    OBVIOUS
  <2>1. pc[2] > 3
    BY <1>2, Bodies DEF API!AllDone, API!Returned
  <2> QED BY <1>1, <1>2, <2>1 DEF APIResults, Race, After
<1>5. printed \in {<<>>, <<"first">>, <<"first", "last">>}
  BY <1>1 DEF APIResults, SignalRight, SignalCVRight, ForkJoin, Lines
<1> QED BY <1>1, <1>3, <1>4, <1>5 DEF API!ResultsHold

-----------------------------------------------------------------------------
(* The search trees.  First, walks through a tree tr with root r.          *)

ChildIn(tr, n, k) == IF k < tr[n].key THEN tr[n].left ELSE tr[n].right

IsWalk(tr, k, w) ==
  w = [n \in DOMAIN tr \cup {Tree!NULL} |->
         IF n = Tree!NULL THEN {} ELSE {n} \cup w[ChildIn(tr, n, k)]]

WalkIn(tr, r, k) ==
  LET walk[n \in DOMAIN tr \cup {Tree!NULL}] ==
        IF n = Tree!NULL THEN {} ELSE {n} \cup walk[ChildIn(tr, n, k)]
  IN  walk[r]

Numbered(tr) ==
  /\ \E c \in Nat : DOMAIN tr = 0..(c - 1)
  /\ \A n \in DOMAIN tr : {tr[n].left, tr[n].right} \subseteq DOMAIN tr \cup {Tree!NULL}

\* P is what a walk for k passes: from the root to a node without a child on
\* the side of k, and downwards.
ChainIn(tr, r, k, P) ==
  /\ P \subseteq DOMAIN tr
  /\ r = Tree!NULL => P = {}
  /\ r # Tree!NULL => r \in P
  /\ \A q \in P : r <= q
  /\ \A q \in P : ChildIn(tr, q, k) # Tree!NULL =>
       ChildIn(tr, q, k) \in P /\ q < ChildIn(tr, q, k)
  /\ \A q, p \in P : q < p => ChildIn(tr, q, k) # Tree!NULL /\ ChildIn(tr, q, k) <= p

\* The recursive definition of a walk has a solution: the nodes that can be
\* reached.
LEMMA WalkDefined ==
  ASSUME NEW tr, NEW k, Numbered(tr)
  PROVE  IsWalk(tr, k, CHOOSE w : IsWalk(tr, k, w))
<1> DEFINE D == DOMAIN tr
           C(n) == ChildIn(tr, n, k)
           Closed(S) == \A q \in S : C(q) # Tree!NULL => C(q) \in S
           reached == [n \in D \cup {Tree!NULL} |->
             IF n = Tree!NULL THEN {}
             ELSE {m \in D : \A S \in SUBSET D : n \in S /\ Closed(S) => m \in S}]
<1>1. \A n \in D : C(n) \in D \cup {Tree!NULL} /\ n # Tree!NULL
  BY DEF Numbered, ChildIn, Tree!NULL
<1> HIDE DEF C
<1>2. ASSUME NEW n \in D
      PROVE  reached[n] = {n} \cup reached[C(n)]
  <2> DEFINE R(a) == {m \in D : \A S \in SUBSET D : a \in S /\ Closed(S) => m \in S}
  <2>1. reached[n] = R(n) /\ (C(n) # Tree!NULL => reached[C(n)] = R(C(n)))
        /\ (C(n) = Tree!NULL => reached[C(n)] = {})
    BY <1>1
  <2>2. ASSUME NEW m \in {n} \cup reached[C(n)] PROVE m \in R(n)
    <3>1. CASE m = n
      BY <3>1
    <3>2. CASE C(n) # Tree!NULL /\ m \in R(C(n))
      BY <3>2
    <3> QED BY <2>1, <2>2, <3>1, <3>2
  <2>3. ASSUME NEW m \in R(n) PROVE m \in {n} \cup reached[C(n)]
    <3> DEFINE S == {n} \cup reached[C(n)]
    <3>1. S \in SUBSET D /\ n \in S
      BY <2>1
    <3>2. Closed(S)
      <4> SUFFICES ASSUME NEW q \in S, C(q) # Tree!NULL PROVE C(q) \in S
        OBVIOUS
      <4>1. CASE q = n
        <5>1. C(n) \in R(C(n))
          BY <1>1, <4>1
        <5> QED BY <2>1, <4>1, <5>1
      <4>2. CASE C(n) # Tree!NULL /\ q \in R(C(n))
        <5>1. C(q) \in R(C(n))
          BY <1>1, <4>2
        <5> QED BY <2>1, <4>2, <5>1
      <4> QED BY <2>1, <4>1, <4>2
    <3> QED BY <3>1, <3>2
  <2> QED BY <2>1, <2>2, <2>3
<1>3. reached = [n \in D \cup {Tree!NULL} |->
           IF n = Tree!NULL THEN {} ELSE {n} \cup reached[C(n)]]
  <2>1. \A n \in D \cup {Tree!NULL} :
          reached[n] = IF n = Tree!NULL THEN {} ELSE {n} \cup reached[C(n)]
    BY <1>2
  <2> HIDE DEF reached
  <2>2. reached = [n \in D \cup {Tree!NULL} |-> reached[n]]
    BY DEF reached
  <2> QED BY <2>1, <2>2
<1> HIDE DEF reached
<1>4. IsWalk(tr, k, reached)
  BY <1>3 DEF C, IsWalk
<1> QED BY <1>4

\* A set of numbers below c has a greatest element.
LEMMA Greatest ==
  ASSUME NEW c \in Nat, NEW T, T \subseteq 0..(c - 1), T # {}
  PROVE  \E n \in T : \A m \in T : m <= n
<1> DEFINE S == {c - n : n \in T}
<1>1. S \in SUBSET Nat /\ S # {}
  <2>1. \A n \in T : c - n \in Nat
    OBVIOUS
  <2> QED BY <2>1
<1>2. PICK s \in S : \A r \in S : s <= r
  <2>1. PICK s \in S : \A r \in S : <<r, s>> \notin OpToRel(<, Nat)
    BY <1>1, NatLessThanWellFounded, WFMin
  <2>2. \A r \in S : r \in Nat /\ s \in Nat /\ ~(r < s)
    BY <1>1, <2>1 DEF OpToRel
  <2> QED BY <2>2
<1>3. PICK n \in T : s = c - n
  OBVIOUS
<1>4. ASSUME NEW m \in T PROVE m <= n
  <2>1. s <= c - m
    BY <1>2
  <2> QED BY <1>3, <2>1
<1> QED BY <1>4

LEMMA WalkIsChain ==
  ASSUME NEW tr, NEW r, NEW k, NEW P, Numbered(tr), ChainIn(tr, r, k, P)
  PROVE  WalkIn(tr, r, k) = P
<1> DEFINE D == DOMAIN tr
           C(n) == ChildIn(tr, n, k)
           walk == CHOOSE w : IsWalk(tr, k, w)
<1>1. WalkIn(tr, r, k) = walk[r]
  BY Zenon DEF WalkIn, IsWalk
<1>2. walk = [n \in D \cup {Tree!NULL} |->
           IF n = Tree!NULL THEN {} ELSE {n} \cup walk[ChildIn(tr, n, k)]]
  <2>1. IsWalk(tr, k, walk)
    BY WalkDefined
  <2> HIDE DEF walk
  <2> QED BY <2>1 DEF IsWalk
<1> HIDE DEF walk
<1>7. \A n \in D : n \in Nat /\ n # Tree!NULL
  BY DEF Numbered, Tree!NULL
<1>3. walk[Tree!NULL] = {} /\ \A n \in D : walk[n] = {n} \cup walk[C(n)]
  <2> DEFINE N == D \cup {Tree!NULL}
             rhs(n) == IF n = Tree!NULL THEN {} ELSE {n} \cup walk[C(n)]
  <2>1. walk = [n \in N |-> rhs(n)]
    BY <1>2
  <2>2. \A n \in N : walk[n] = rhs(n)
    BY ONLY <2>1
  <2> QED BY <1>7, <2>2
<1>4. \A n \in P : walk[n] = {m \in P : n <= m}
  <2> DEFINE T == {n \in P : walk[n] # {m \in P : n <= m}}
  <2> SUFFICES ASSUME T # {} PROVE FALSE
    OBVIOUS
  <2>1. PICK c \in Nat : D = 0..(c - 1)
    BY DEF Numbered
  <2>6. T \subseteq 0..(c - 1)
    BY <2>1 DEF ChainIn
  <2>2. PICK n \in T : \A m \in T : m <= n
    BY <2>6, Greatest
  <2>3. n \in P /\ n \in Nat /\ n \in D /\ walk[n] # {m \in P : n <= m}
    BY <2>1 DEF ChainIn
  <2>7. /\ \A m \in P : m \in Nat
        /\ C(n) # Tree!NULL => C(n) \in P /\ n < C(n)
        /\ \A m \in P : n < m => C(n) # Tree!NULL /\ C(n) <= m
    BY <2>1, <2>3 DEF ChainIn
  <2> HIDE DEF C
  <2>4. CASE C(n) = Tree!NULL
    <3>1. \A m \in P : n <= m <=> m = n
      BY <2>3, <2>4, <2>7
    <3> QED BY <1>3, <2>3, <2>4, <3>1
  <2>5. CASE C(n) # Tree!NULL
    <3>1. C(n) \in P /\ n < C(n) /\ C(n) \in Nat
      BY <2>5, <2>7
    <3>2. walk[C(n)] = {m \in P : C(n) <= m}
      BY <2>2, <2>3, <3>1
    <3>3. \A m \in P : n <= m <=> m = n \/ C(n) <= m
      BY <2>3, <2>7, <3>1
    <3> QED BY <1>3, <2>3, <3>1, <3>2, <3>3
  <2> QED BY <2>4, <2>5
<1>5. CASE r = Tree!NULL
  BY <1>1, <1>3, <1>5 DEF ChainIn
<1>6. CASE r # Tree!NULL
  <2>1. r \in P /\ \A q \in P : r <= q
    BY <1>6 DEF ChainIn
  <2> QED BY <1>1, <1>4, <2>1
<1> QED BY <1>5, <1>6

-----------------------------------------------------------------------------
(* The invariant.                                                          *)

LEMMA TreeSize == \A S : Tree!Cardinality(S) = Cardinality(S)
BY DEF Tree!Cardinality, Cardinality

\* The arguments of shared.hpp's main_collection().
TreeConstants == TreeThreads \in Nat /\ TreeLoops \in Nat

TreePCs == {"loop", "insWalk", "insLink", "insCount", "insUnlock", "search", "seaWalk",
            "return", "done"}

\* The next node to create, and whether the last one waits for its link, ...
Created == Cardinality(Tree!Nodes)
TreePending == \E t \in Tree!Threads : pc[t] = "insLink"
LinkedNodes == IF TreePending THEN Tree!Nodes \ {Created - 1} ELSE Tree!Nodes

\* ... or to be counted.
Uncounted == \E t \in Tree!Threads : pc[t] \in {"insLink", "insCount"}
CountedNodes == IF Uncounted THEN Tree!Nodes \ {Created - 1} ELSE Tree!Nodes

NodesNumbered == Created \in Nat /\ Tree!Nodes = 0..(Created - 1)

TreeTypes ==
  /\ mode \in {"test", "interleave"} /\ kind \in {"simple", "better"}
  /\ pc \in [Tree!Threads -> TreePCs]
  /\ loops \in [Tree!Threads -> 0..TreeLoops]
  /\ arg \in [Tree!Threads -> Tree!Keys]
  /\ current \in [Tree!Threads -> Tree!Nodes \cup {Tree!NULL}]
  /\ parent \in [Tree!Threads -> Tree!Nodes \cup {Tree!NULL}]
  /\ rwMutex \in [exclusive : Tree!Threads \cup {Tree!None}, shared : SUBSET Tree!Threads]
  /\ NodesNumbered
  /\ tree \in [Tree!Nodes -> [key : Tree!Keys, height : Nat, left : Tree!Nodes \cup {Tree!NULL},
                              right : Tree!Nodes \cup {Tree!NULL}]]
  /\ root \in Tree!Nodes \cup {Tree!NULL}
  /\ size \in Nat /\ height \in Nat

\* How many nodes of P come before n.
Depth(P, n) == Cardinality({m \in P : m < n})

\* What a walk for k passes.
PathHolds(k) ==
  /\ ChainIn(tree, root, k, Tree!Path(k))
  /\ Tree!Path(k) \subseteq LinkedNodes
  /\ \A n \in Tree!Path(k) : tree[n].height = Depth(Tree!Path(k), n)

Ordered ==
  /\ \A k \in Tree!Keys : PathHolds(k)
  /\ \A n \in LinkedNodes : n \in Tree!Path(tree[n].key)

\* Where the thread that inserts is.
Placing(t) ==
  /\ parent[t] = Tree!NULL => root = Tree!NULL
  /\ parent[t] # Tree!NULL =>
       parent[t] \in Tree!Path(arg[t]) /\ Tree!Child(parent[t], arg[t]) = Tree!NULL

InsertPlace(t) ==
  /\ pc[t] = "insWalk" =>
       /\ parent[t] = Tree!NULL => current[t] = root
       /\ parent[t] # Tree!NULL => /\ parent[t] \in Tree!Path(arg[t])
                                   /\ current[t] = Tree!Child(parent[t], arg[t])
  /\ pc[t] = "insLink" =>
       /\ Placing(t)
       /\ tree[current[t]] =
            [key |-> arg[t], left |-> Tree!NULL, right |-> Tree!NULL,
             height |-> IF parent[t] = Tree!NULL THEN 0 ELSE tree[parent[t]].height + 1]
  /\ pc[t] \in {"insLink", "insCount"} => current[t] = Created - 1 /\ Created > 0
  /\ ~Tree!Inserting(t) => parent[t] = Tree!NULL

\* A search has passed nodes with other keys only, and may stop at one with its.
SearchPlace(t) ==
  /\ pc[t] = "seaWalk" =>
       /\ current[t] # Tree!NULL => current[t] \in Tree!Path(arg[t])
       /\ \A m \in Tree!Path(arg[t]) : current[t] = Tree!NULL \/ m < current[t] =>
            tree[m].key # arg[t]
  /\ pc[t] = "return" /\ current[t] # Tree!NULL => tree[current[t]].key = arg[t]

\* An iteration inserts once.
TreePhase(t) ==
  /\ Tree!Inserting(t) \/ pc[t] = "search" => loops[t] < TreeLoops
  /\ pc[t] = "done" => loops[t] = TreeLoops

TreePlaces == \A t \in Tree!Threads : InsertPlace(t) /\ SearchPlace(t) /\ TreePhase(t)

\* height_ is the greatest height of the nodes that were counted.
HeightHolds ==
  /\ \A n \in CountedNodes : tree[n].height <= height
  /\ CountedNodes = {} => height = 0
  /\ CountedNodes # {} => \E n \in CountedNodes : tree[n].height = height

TreeInv == TreeTypes /\ Tree!TypeOK /\ Ordered /\ TreePlaces /\ HeightHolds

\* The insertions counted, pairs of a thread and one of its iterations.
TreeInsertedPCs == {"insUnlock", "search", "seaWalk", "return"}
TreeInsertions == Tree!Threads \X (0..(TreeLoops - 1))
TreeInserted ==
  {p \in TreeInsertions : \/ p[2] < loops[p[1]]
                          \/ p[2] = loops[p[1]] /\ pc[p[1]] \in TreeInsertedPCs}

TreeCounted ==
  /\ size = Cardinality(TreeInserted)
  /\ Created = IF Uncounted THEN size + 1 ELSE size

\* What a worker of the test looks for is in the tree, but for the key that
\* nobody inserts.
TreeTested ==
  mode = "test" =>
    /\ \A t \in Tree!Threads : pc[t] \notin {"loop", "done"} => arg[t] = loops[t]
    /\ \A n \in Tree!Nodes : tree[n].key < TreeLoops
    /\ \A t \in Tree!Threads :
         pc[t] \in {"insCount", "insUnlock", "search", "seaWalk"} /\ loops[t] < TreeLoops =>
           \E n \in LinkedNodes : tree[n].key = arg[t]
    /\ \A t \in Tree!Threads : pc[t] = "return" /\ loops[t] < TreeLoops => current[t] # Tree!NULL

TreeIInv == TreeInv /\ TreeCounted /\ TreeTested

-----------------------------------------------------------------------------
(* Types and locks.                                                        *)

LEMMA TreeInit == ASSUME TreeConstants, Tree!Init PROVE TreeIInv
<1>1. Tree!Nodes = {} /\ Created = 0 /\ ~TreePending /\ ~Uncounted
  BY FS_EmptySet DEF Tree!Init, Tree!Nodes, Created, TreePending, Uncounted
<1>2. LinkedNodes = {} /\ CountedNodes = {}
  BY <1>1 DEF LinkedNodes, CountedNodes
<1>3. TreeTypes
  <2>1. rwMutex \in [exclusive : Tree!Threads \cup {Tree!None}, shared : SUBSET Tree!Threads]
    BY DEF Tree!Init
  <2>2. tree \in [Tree!Nodes -> [key : Tree!Keys, height : Nat, left : Tree!Nodes \cup {Tree!NULL},
                                 right : Tree!Nodes \cup {Tree!NULL}]]
    BY <1>1 DEF Tree!Init, Tree!Nodes
  <2> QED BY <1>1, <2>1, <2>2
             DEF Tree!Init, TreeTypes, TreePCs, NodesNumbered, TreeConstants, Tree!Keys
<1>4. Tree!TypeOK
  BY DEF Tree!Init, Tree!TypeOK, Tree!Inserting, Tree!None
<1>5. Ordered
  <2>1. \A k : Tree!Path(k) = WalkIn(tree, root, k)
    BY DEF Tree!Path, WalkIn, Tree!Child, ChildIn, Tree!Nodes
  <2>2. Numbered(tree)
    BY <1>1 DEF Numbered, Tree!Nodes
  <2>3. \A k : ChainIn(tree, root, k, {})
    BY DEF ChainIn, Tree!Init
  <2>4. \A k : Tree!Path(k) = {}
    BY <2>1, <2>2, <2>3, WalkIsChain
  <2> QED BY <1>2, <2>3, <2>4 DEF Ordered, PathHolds
<1>6. TreePlaces
  BY DEF Tree!Init, TreePlaces, InsertPlace, SearchPlace, TreePhase, Tree!Inserting
<1>7. HeightHolds
  BY <1>2 DEF Tree!Init, HeightHolds
<1>8. TreeInserted = {}
  BY DEF Tree!Init, TreeInserted, TreeInsertions, TreeInsertedPCs, TreeConstants
<1>9. TreeCounted
  BY <1>1, <1>8, FS_EmptySet DEF TreeCounted, Tree!Init
<1>10. TreeTested
  BY <1>1 DEF Tree!Init, TreeTested
<1> QED BY <1>3, <1>4, <1>5, <1>6, <1>7, <1>9, <1>10 DEF TreeIInv, TreeInv

\* Nobody else walks while a thread inserts.
LEMMA Alone ==
  ASSUME TreeTypes, Tree!TypeOK, NEW t \in Tree!Threads, Tree!Inserting(t),
         NEW u \in Tree!Threads, u # t
  PROVE  ~Tree!Inserting(u) /\ pc[u] # "seaWalk"
BY DEF Tree!TypeOK, TreeTypes, Tree!Threads, Tree!None

LEMMA TypeOKNext ==
  ASSUME TreeConstants, TreeTypes, Tree!TypeOK, [Tree!Next]_(Tree!vars)
  PROVE  Tree!TypeOK'
<1>1. ASSUME NEW t \in Tree!Threads, Tree!Worker(t) PROVE Tree!TypeOK'
  <2> USE DEF TreeTypes, Tree!TypeOK, Tree!Inserting, Tree!Goto
  <2>0. t # Tree!None /\ rwMutex = [exclusive |-> rwMutex.exclusive, shared |-> rwMutex.shared]
    BY DEF Tree!Threads, Tree!None
  <2>1. CASE Tree!Insert(t)
    <3>1. /\ rwMutex.exclusive = Tree!None /\ rwMutex.shared = {}
          /\ rwMutex' = [exclusive |-> t, shared |-> {}]
          /\ pc' = [pc EXCEPT ![t] = "insWalk"] /\ kind' = kind
      BY <2>0, <2>1 DEF Tree!Insert, Tree!Lock
    <3>2. \A u \in Tree!Threads : ~Tree!Inserting(u) /\ pc[u] # "seaWalk"
      BY <3>1, <2>0 DEF Tree!None, Tree!Threads
    <3> QED BY <3>1, <3>2
  <2>2. CASE Tree!InsertWalk(t)
    BY <2>2 DEF Tree!InsertWalk
  <2>3. CASE Tree!InsertNew(t)
    BY <2>3 DEF Tree!InsertNew
  <2>4. CASE Tree!InsertLink(t)
    BY <2>4 DEF Tree!InsertLink
  <2>5. CASE Tree!InsertCount(t)
    BY <2>5 DEF Tree!InsertCount
  <2>6. CASE Tree!InsertUnlock(t)
    BY <2>0, <2>6 DEF Tree!InsertUnlock, Tree!Unlock
  <2>7. CASE Tree!Search(t)
    <3>1. rwMutex.exclusive = Tree!None /\ pc' = [pc EXCEPT ![t] = "seaWalk"] /\ kind' = kind
      BY <2>7 DEF Tree!Search, Tree!LockShared, Tree!Lock
    <3>2. \A u \in Tree!Threads : ~Tree!Inserting(u) /\ (pc[u] = "seaWalk" => u \in rwMutex.shared)
      BY <3>1, <2>0 DEF Tree!None, Tree!Threads
    <3>3. CASE kind = "simple"
      <4>1. rwMutex' = [exclusive |-> t, shared |-> {}] /\ rwMutex.shared = {}
        BY <2>0, <2>7, <3>3 DEF Tree!Search, Tree!LockShared, Tree!Lock
      <4> QED BY <3>1, <3>2, <4>1
    <3>4. CASE kind # "simple"
      <4>1. rwMutex' = [exclusive |-> Tree!None, shared |-> rwMutex.shared \cup {t}]
        BY <2>0, <2>7, <3>1, <3>4 DEF Tree!Search, Tree!LockShared
      <4> QED BY <3>1, <3>2, <3>4, <4>1
    <3> QED BY <3>3, <3>4
  <2>8. CASE Tree!SearchWalk(t)
    BY <2>8 DEF Tree!SearchWalk
  <2>9. CASE Tree!SearchEnd(t)
    BY <2>0, <2>9 DEF Tree!SearchEnd, Tree!Unlock
  <2>10. CASE Tree!SearchReturn(t)
    BY <2>10 DEF Tree!SearchReturn
  <2>11. CASE Tree!Return(t)
    BY <2>11 DEF Tree!Return
  <2> QED BY <1>1, <2>1, <2>2, <2>3, <2>4, <2>5, <2>6, <2>7, <2>8, <2>9, <2>10,
             <2>11 DEF Tree!Worker
<1>2. CASE UNCHANGED Tree!vars
  BY <1>2 DEF Tree!vars, Tree!TypeOK, Tree!Inserting
<1> QED BY <1>1, <1>2 DEF Tree!Next, Tree!Ended

-----------------------------------------------------------------------------
(* What a step does to the nodes and to the walks.                         *)

LEMMA PathIs ==
  ASSUME NEW k
  PROVE  /\ Tree!Path(k) = WalkIn(tree, root, k)
         /\ Tree!Path(k)' = WalkIn(tree', root', k)
BY Zenon DEF Tree!Path, WalkIn, Tree!Child, ChildIn, Tree!Nodes

TreeKept ==
  /\ tree' = tree /\ root' = root
  /\ Tree!Nodes' = Tree!Nodes /\ Created' = Created
  /\ \A k : Tree!Path(k)' = Tree!Path(k)

LEMMA TreeKeptIs == tree' = tree /\ root' = root => TreeKept
BY PathIs DEF TreeKept, Tree!Nodes, Created

LEMMA OthersKeep ==
  ASSUME NEW t \in Tree!Threads, Tree!Worker(t), ~Tree!InsertNew(t), ~Tree!InsertLink(t)
  PROVE  TreeKept
<1>1. tree' = tree /\ root' = root
  BY DEF Tree!Worker, Tree!Insert, Tree!InsertWalk, Tree!InsertCount, Tree!InsertUnlock,
         Tree!Search, Tree!SearchWalk, 
         Tree!SearchEnd, Tree!SearchReturn, Tree!Return
<1> QED BY <1>1, TreeKeptIs

\* The node that InsertNew creates.
TreeNewNode(t) ==
  [key |-> arg[t], left |-> Tree!NULL, right |-> Tree!NULL,
   height |-> IF parent[t] = Tree!NULL THEN 0 ELSE tree[parent[t]].height + 1]

NodeMade(t) ==
  /\ Tree!Nodes' = 0..Created /\ Created' = Created + 1
  /\ tree'[Created] = TreeNewNode(t)
  /\ \A n \in Tree!Nodes : tree'[n] = tree[n] /\ n # Created
  /\ tree' \in [Tree!Nodes' -> [key : Tree!Keys, height : Nat, left : Tree!Nodes' \cup {Tree!NULL},
                                right : Tree!Nodes' \cup {Tree!NULL}]]
  /\ \A k \in Tree!Keys : Tree!Path(k)' = Tree!Path(k) /\ ChainIn(tree', root', k, Tree!Path(k))

\* A set that is a chain in the tree before is one in a larger tree.
LEMMA ChainInLarger ==
  ASSUME NEW tr, NEW tr2, NEW r, NEW k, NEW P, ChainIn(tr, r, k, P),
         DOMAIN tr \subseteq DOMAIN tr2, \A n \in DOMAIN tr : tr2[n] = tr[n]
  PROVE  ChainIn(tr2, r, k, P)
<1>1. \A q \in P : ChildIn(tr2, q, k) = ChildIn(tr, q, k)
  BY DEF ChainIn, ChildIn
<1> HIDE DEF ChildIn
<1> QED BY <1>1 DEF ChainIn

LEMMA TreeNumbered == ASSUME TreeTypes PROVE Numbered(tree)
<1>1. DOMAIN tree = 0..(Created - 1) /\ Created \in Nat
  BY DEF TreeTypes, NodesNumbered, Tree!Nodes
<1>2. \A n \in DOMAIN tree : {tree[n].left, tree[n].right} \subseteq DOMAIN tree \cup {Tree!NULL}
  BY DEF TreeTypes, Tree!Nodes
<1> QED BY <1>1, <1>2 DEF Numbered

LEMMA InsertNewMakes ==
  ASSUME TreeTypes, Ordered, NEW t \in Tree!Threads, Tree!InsertNew(t)
  PROVE  NodeMade(t)
<1>1. Created \in Nat /\ Tree!Nodes = 0..(Created - 1) /\ Tree!Nodes \cup {Created} = 0..Created
  BY DEF TreeTypes, NodesNumbered
<1> DEFINE c == Created
           N == Tree!Nodes \cup {c}
<1>2. tree' = [n \in N |-> IF n = c THEN TreeNewNode(t) ELSE tree[n]] /\ root' = root
  <2>1. c = Cardinality(Tree!Nodes)
    BY DEF Created
  <2> HIDE DEF c
  <2>2. parent[t] = Tree!NULL \/ tree[parent[t]].height \in Nat
    BY DEF TreeTypes
  <2>3. (IF parent[t] = Tree!NULL THEN -1 ELSE tree[parent[t]].height) + 1
           = IF parent[t] = Tree!NULL THEN 0 ELSE tree[parent[t]].height + 1
    BY <2>2
  <2>4. TreeNewNode(t) =
          [key |-> arg[t],
           height |-> (IF parent[t] = Tree!NULL THEN -1 ELSE tree[parent[t]].height) + 1,
           left |-> Tree!NULL, right |-> Tree!NULL]
    BY <2>3 DEF TreeNewNode
  <2> HIDE DEF TreeNewNode
  <2> QED BY <2>1, <2>4, TreeSize DEF Tree!InsertNew
<1>3. Tree!Nodes' = N
  BY <1>2 DEF Tree!Nodes
<1>4. Created' = Cardinality(Tree!Nodes') /\ Cardinality(0..c) = c + 1
  BY <1>1, FS_Interval DEF Created
<1>5. TreeNewNode(t)
        \in [key : Tree!Keys, height : Nat, left : N \cup {Tree!NULL}, right : N \cup {Tree!NULL}]
  <2>1. arg[t] \in Tree!Keys /\ (parent[t] # Tree!NULL => tree[parent[t]].height \in Nat)
    BY DEF TreeTypes
  <2> QED BY <2>1 DEF TreeNewNode
<1>6. \A n \in Tree!Nodes : n # c /\ n \in N
  BY <1>1
<1> HIDE DEF c
<1>7. tree' \in [N -> [key : Tree!Keys, height : Nat, left : N \cup {Tree!NULL}, right :
        N \cup {Tree!NULL}]]
  <2>1. \A n \in Tree!Nodes : tree[n] \in [key : Tree!Keys, height : Nat, left : N \cup {Tree!NULL},
                                           right : N \cup {Tree!NULL}]
    BY DEF TreeTypes
  <2> QED BY <1>2, <1>5, <2>1
<1>8. tree'[c] = TreeNewNode(t) /\ \A n \in Tree!Nodes : tree'[n] = tree[n]
  BY <1>2, <1>6
<1>9. ASSUME NEW k \in Tree!Keys
      PROVE  Tree!Path(k)' = Tree!Path(k) /\ ChainIn(tree', root', k, Tree!Path(k))
  <2>1. ChainIn(tree, root, k, Tree!Path(k))
    BY DEF Ordered, PathHolds
  <2>2. DOMAIN tree = Tree!Nodes /\ DOMAIN tree' = N
    BY <1>3 DEF Tree!Nodes
  <2>3. ChainIn(tree', root', k, Tree!Path(k))
    BY <1>2, <1>8, <2>1, <2>2, ChainInLarger
  <2>4. Numbered(tree')
    <3>1. \A n \in N : {tree'[n].left, tree'[n].right} \subseteq N \cup {Tree!NULL}
      BY <1>7
    <3>2. N = 0..((c + 1) - 1) /\ c + 1 \in Nat
      BY <1>1 DEF c
    <3> QED BY <2>2, <3>1, <3>2 DEF Numbered
  <2> QED BY <2>3, <2>4, WalkIsChain, PathIs
<1> QED BY <1>1, <1>3, <1>4, <1>6, <1>7, <1>8, <1>9 DEF NodeMade, c

\* The walks that pass the node that InsertLink links.
Joins(t, k) ==
  \/ parent[t] = Tree!NULL
  \/ parent[t] \in Tree!Path(k) /\ (k < tree[parent[t]].key <=> arg[t] < tree[parent[t]].key)

PathLinked(t, k) == IF Joins(t, k) THEN Tree!Path(k) \cup {current[t]} ELSE Tree!Path(k)

NodeLinked(t) ==
  /\ Tree!Nodes' = Tree!Nodes /\ Created' = Created
  /\ \A n \in Tree!Nodes : tree'[n].key = tree[n].key /\ tree'[n].height = tree[n].height
  /\ tree' \in [Tree!Nodes -> [key : Tree!Keys, height : Nat, left : Tree!Nodes \cup {Tree!NULL},
                               right : Tree!Nodes \cup {Tree!NULL}]]
  /\ root' \in Tree!Nodes \cup {Tree!NULL}
  /\ \A k \in Tree!Keys : /\ ChainIn(tree', root', k, PathLinked(t, k))
                          /\ Tree!Path(k)' = PathLinked(t, k)

\* A new last node of a chain, below p.
LEMMA ChainAppended ==
  ASSUME NEW tr, NEW tr2, NEW r, NEW k, NEW P, ChainIn(tr, r, k, P),
         NEW c \in Nat, DOMAIN tr = 0..c, DOMAIN tr2 = 0..c, c \notin P,
         NEW p \in P, ChildIn(tr, p, k) = Tree!NULL, ChildIn(tr2, p, k) = c,
         \A q \in P \ {p} : ChildIn(tr2, q, k) = ChildIn(tr, q, k),
         ChildIn(tr2, c, k) = Tree!NULL
  PROVE  ChainIn(tr2, r, k, P \cup {c})
<1> DEFINE C(q) == ChildIn(tr, q, k)
           D(q) == ChildIn(tr2, q, k)
<1>1. /\ P \subseteq 0..c /\ r \in P
      /\ \A q \in P : r <= q
      /\ \A q \in P : C(q) # Tree!NULL => C(q) \in P /\ q < C(q)
      /\ \A q, s \in P : q < s => C(q) # Tree!NULL /\ C(q) <= s
  BY DEF ChainIn
<1>2. C(p) = Tree!NULL /\ D(p) = c /\ D(c) = Tree!NULL /\ \A q \in P \ {p} : D(q) = C(q)
  OBVIOUS
<1> HIDE DEF C, D
<1>3. \A q \in P : q \in Nat /\ q < c /\ q <= p
  BY <1>1, <1>2
<1>4. c # Tree!NULL
  BY DEF Tree!NULL
<1>5. \A q \in P \cup {c} : D(q) # Tree!NULL => D(q) \in P \cup {c} /\ q < D(q)
  BY <1>1, <1>2, <1>3
<1>6. \A q, s \in P \cup {c} : q < s => D(q) # Tree!NULL /\ D(q) <= s
  <2> SUFFICES ASSUME NEW q \in P \cup {c}, NEW s \in P \cup {c}, q < s
               PROVE  D(q) # Tree!NULL /\ D(q) <= s
    OBVIOUS
  <2>1. q \in P /\ q \in Nat /\ s \in Nat
    BY <1>3
  <2>2. CASE q = p
    <3>1. s = c
      BY <1>3, <2>2
    <3>2. D(q) = c
      BY <1>2, <2>2
    <3> QED BY <1>4, <3>1, <3>2
  <2>3. CASE q # p
    <3>1. q < p /\ C(q) # Tree!NULL /\ C(q) <= p /\ D(q) = C(q)
      BY <1>1, <1>2, <1>3, <2>1, <2>3
    <3>2. CASE s = c
      <4>1. C(q) \in P
        BY <1>1, <2>1, <3>1
      <4>2. C(q) \in Nat /\ C(q) < c
        BY <1>3, <4>1
      <4>3. C(q) <= s
        BY <3>2, <4>2
      <4> QED BY <3>1, <4>3
    <3>3. CASE s \in P
      BY <1>1, <2>1, <3>1, <3>3
    <3> QED BY <3>2, <3>3
  <2> QED BY <2>2, <2>3
<1>7. P \cup {c} \subseteq 0..c /\ \A q \in P \cup {c} : r <= q
  BY <1>1, <1>3
<1> QED BY <1>1, <1>5, <1>6, <1>7 DEF ChainIn, D, Tree!NULL

LEMMA ChainUnlinked ==
  ASSUME NEW tr, NEW tr2, NEW r, NEW k, NEW P, ChainIn(tr, r, k, P),
         DOMAIN tr2 = DOMAIN tr,
         \A q \in P : ChildIn(tr2, q, k) = ChildIn(tr, q, k)
  PROVE  ChainIn(tr2, r, k, P)
<1> HIDE DEF ChildIn
<1> QED BY DEF ChainIn

LEMMA InsertLinkMakes ==
  ASSUME TreeTypes, Ordered, TreePlaces, NEW t \in Tree!Threads, Tree!InsertLink(t)
  PROVE  NodeLinked(t)
<1> DEFINE n == current[t]
           p == parent[t]
           c == Created - 1
<1>1. /\ pc[t] = "insLink" /\ Created \in Nat /\ n = c /\ c \in Nat
      /\ Tree!Nodes = 0..c /\ n \in Tree!Nodes /\ n # Tree!NULL
      /\ Placing(t) /\ tree[n].key = arg[t] /\ tree[n].left = Tree!NULL /\ tree[n].right = Tree!NULL
  <2>1. pc[t] = "insLink"
    BY DEF Tree!InsertLink, Tree!Goto
  <2>2. n = c /\ Created > 0 /\ Placing(t) /\ tree[n] = TreeNewNode(t)
    BY <2>1 DEF TreePlaces, InsertPlace, TreeNewNode
  <2>3. Created \in Nat /\ Tree!Nodes = 0..c
    BY DEF TreeTypes, NodesNumbered
  <2>4. tree[n].key = arg[t] /\ tree[n].left = Tree!NULL /\ tree[n].right = Tree!NULL
    BY <2>2 DEF TreeNewNode
  <2> QED BY <2>1, <2>2, <2>3, <2>4 DEF Tree!NULL
<1>2. LinkedNodes = Tree!Nodes \ {n}
  BY <1>1 DEF LinkedNodes, TreePending
<1>3. \A k \in Tree!Keys :
        ChainIn(tree, root, k, Tree!Path(k)) /\ Tree!Path(k) \subseteq Tree!Nodes \ {n}
  BY <1>2 DEF Ordered, PathHolds
<1>4. \A m \in Tree!Nodes :
        tree[m] \in [key : Tree!Keys, height : Nat, left : Tree!Nodes \cup {Tree!NULL},
                                         right : Tree!Nodes \cup {Tree!NULL}]
  BY DEF TreeTypes
<1>5. arg[t] \in Tree!Keys /\ \A k \in Tree!Keys : k \in Int
  BY DEF TreeTypes, Tree!Keys
<1>6. CASE p = Tree!NULL
  <2>1. root = Tree!NULL /\ root' = n /\ tree' = tree
    BY <1>1, <1>6 DEF Placing, Tree!InsertLink
  <2>2. Tree!Nodes' = Tree!Nodes /\ Created' = Created
    BY <2>1 DEF Tree!Nodes, Created
  <2>3. ASSUME NEW k \in Tree!Keys
        PROVE  ChainIn(tree', root', k, PathLinked(t, k)) /\ PathLinked(t, k) = {n}
    <3>1. Tree!Path(k) = {}
      BY <1>3, <2>1 DEF ChainIn
    <3>2. PathLinked(t, k) = {n}
      BY <1>6, <3>1 DEF PathLinked, Joins
    <3>3. ChildIn(tree, n, k) = Tree!NULL
      BY <1>1 DEF ChildIn
    <3>4. DOMAIN tree = Tree!Nodes /\ n <= n /\ ~(n < n)
      BY <1>1 DEF Tree!Nodes
    <3> QED BY <1>1, <2>1, <3>2, <3>3, <3>4 DEF ChainIn
  <2>4. ASSUME NEW k \in Tree!Keys PROVE Tree!Path(k)' = PathLinked(t, k)
    <3>1. Numbered(tree')
      BY <2>1, TreeNumbered
    <3> QED BY <2>3, <3>1, WalkIsChain, PathIs
  <2> QED BY <1>1, <1>4, <2>1, <2>2, <2>3, <2>4 DEF NodeLinked, TreeTypes
<1>7. CASE p # Tree!NULL
  <2>1. p \in Tree!Path(arg[t]) /\ Tree!Child(p, arg[t]) = Tree!NULL /\ p \in Tree!Nodes /\ p # n
    BY <1>1, <1>3, <1>5, <1>7 DEF Placing
  <2>2. root' = root /\ root # Tree!NULL
    BY <1>3, <1>5, <1>7, <2>1 DEF Tree!InsertLink, ChainIn
  <2> DEFINE side == arg[t] < tree[p].key
  <2>3. tree' = [tree EXCEPT ![p] = IF side THEN [tree[p] EXCEPT !.left = n]
                                    ELSE [tree[p] EXCEPT !.right = n]]
    BY <1>1, <1>7 DEF Tree!InsertLink
  <2>4. DOMAIN tree = Tree!Nodes /\ DOMAIN tree' = Tree!Nodes /\ Tree!Nodes' = Tree!Nodes
          /\ Created' = Created
    BY <2>3 DEF Tree!Nodes, Created
  <2>5. /\ \A m \in Tree!Nodes \ {p} : tree'[m] = tree[m]
        /\ tree'[p] = IF side THEN [tree[p] EXCEPT !.left = n] ELSE [tree[p] EXCEPT !.right = n]
    BY <2>1, <2>3, <2>4
  <2>6. /\ tree'[p].key = tree[p].key /\ tree'[p].height = tree[p].height
        /\ tree'[p].left = IF side THEN n ELSE tree[p].left
        /\ tree'[p].right = IF side THEN tree[p].right ELSE n
        /\ tree'[p] \in [key : Tree!Keys, height : Nat, left : Tree!Nodes \cup {Tree!NULL},
                         right : Tree!Nodes \cup {Tree!NULL}]
    BY <1>1, <1>4, <2>1, <2>5
  <2>7. /\ \A m \in Tree!Nodes : tree'[m].key = tree[m].key /\ tree'[m].height = tree[m].height
        /\ tree' \in [Tree!Nodes -> [key : Tree!Keys, height : Nat, left :
             Tree!Nodes \cup {Tree!NULL},
                                     right : Tree!Nodes \cup {Tree!NULL}]]
    <3>1. tree' = [m \in Tree!Nodes |-> tree'[m]]
      BY <2>3, <2>4
    <3> QED BY <1>4, <2>5, <2>6, <3>1
  <2>8. ASSUME NEW k \in Tree!Keys PROVE ChainIn(tree', root', k, PathLinked(t, k))
    <3> DEFINE P == Tree!Path(k)
    <3>1. ChainIn(tree, root, k, P) /\ P \subseteq Tree!Nodes \ {n}
      BY <1>3
    <3>2. \A q \in P \ {p} : ChildIn(tree', q, k) = ChildIn(tree, q, k)
      BY <2>5, <3>1 DEF ChildIn
    <3>3. CASE Joins(t, k)
      <4>1. p \in P /\ (k < tree[p].key <=> side)
        BY <1>7, <3>3 DEF Joins
      <4>2. ChildIn(tree, p, k) = Tree!NULL /\ ChildIn(tree', p, k) = c
        BY <1>1, <2>1, <2>6, <4>1 DEF Tree!Child, ChildIn
      <4>3. ChildIn(tree', c, k) = Tree!NULL
        BY <1>1, <2>1, <2>5 DEF ChildIn
      <4>4. DOMAIN tree = 0..c /\ DOMAIN tree' = 0..c /\ c \notin P /\ c \in Nat
        BY <1>1, <2>4, <3>1
      <4>5. PathLinked(t, k) = P \cup {c}
        BY <1>1, <3>3 DEF PathLinked
      <4> HIDE DEF P, c
      <4>6. ChainIn(tree', root, k, P \cup {c})
        BY ONLY <3>1, <3>2, <4>1, <4>2, <4>3, <4>4, ChainAppended
      <4> QED BY <2>2, <4>5, <4>6
    <3>4. CASE ~Joins(t, k)
      <4>1. \A q \in P : ChildIn(tree', q, k) = ChildIn(tree, q, k)
        BY <1>7, <2>6, <3>2, <3>4 DEF Joins, ChildIn
      <4>2. PathLinked(t, k) = P
        BY <3>4 DEF PathLinked
      <4> HIDE DEF P
      <4> QED BY <2>2, <2>4, <3>1, <4>1, <4>2, ChainUnlinked
    <3> QED BY <3>3, <3>4
  <2>9. ASSUME NEW k \in Tree!Keys PROVE Tree!Path(k)' = PathLinked(t, k)
    <3>1. \A m \in Tree!Nodes :
            {tree'[m].left, tree'[m].right} \subseteq Tree!Nodes \cup {Tree!NULL}
      BY <2>7
    <3>2. Tree!Nodes = 0..(Created - 1)
      BY <1>1
    <3>3. Numbered(tree')
      BY <1>1, <2>4, <3>1, <3>2 DEF Numbered
    <3> QED BY <2>8, <3>3, WalkIsChain, PathIs
  <2> QED BY <2>2, <2>4, <2>7, <2>8, <2>9 DEF NodeLinked, TreeTypes
<1> QED BY <1>6, <1>7

-----------------------------------------------------------------------------
(* The invariant is kept.                                                  *)

LEMMA NumberedKept ==
  ASSUME TreeTypes, Tree!Nodes' = Tree!Nodes, Created' = Created
  PROVE  NodesNumbered'
BY DEF TreeTypes, NodesNumbered

LEMMA TreeTypesNext ==
  ASSUME TreeConstants, TreeTypes, Tree!TypeOK, Ordered, TreePlaces, [Tree!Next]_(Tree!vars)
  PROVE  TreeTypes'
<1>1. ASSUME NEW t \in Tree!Threads, Tree!Worker(t) PROVE TreeTypes'
  <2>0. /\ t # Tree!None /\ Tree!Child(Tree!NULL, arg[t]) = Tree!Child(Tree!NULL, arg[t])
        /\ rwMutex.exclusive \in Tree!Threads \cup {Tree!None}
             /\ rwMutex.shared \in SUBSET Tree!Threads
        /\ \A n \in Tree!Nodes : Tree!Child(n, arg[t]) \in Tree!Nodes \cup {Tree!NULL}
    BY DEF TreeTypes, Tree!Threads, Tree!None, Tree!Child
  <2>1. CASE Tree!InsertNew(t)
    <3>1. NodeMade(t) /\ root' = root
      BY <2>1, InsertNewMakes DEF Tree!InsertNew
    <3>2. Tree!Nodes' = Tree!Nodes \cup {Created} /\ NodesNumbered'
      <4>1. Created \in Nat /\ Tree!Nodes = 0..(Created - 1)
        BY DEF TreeTypes, NodesNumbered
      <4>2. Tree!Nodes' = 0..Created /\ Created' = Created + 1
        BY <3>1 DEF NodeMade
      <4> QED BY <4>1, <4>2 DEF NodesNumbered
    <3>3. current' = [current EXCEPT ![t] = Created]
      BY <2>1, TreeSize DEF Tree!InsertNew, Created
    <3>4. pc' \in [Tree!Threads -> TreePCs]
      BY <2>1 DEF Tree!InsertNew, Tree!Goto, TreePCs, TreeTypes
    <3>5. current' \in [Tree!Threads -> Tree!Nodes' \cup {Tree!NULL}]
      BY <3>2, <3>3 DEF TreeTypes
    <3>6. parent' = parent /\ parent \in [Tree!Threads -> Tree!Nodes' \cup {Tree!NULL}]
      BY <2>1, <3>2 DEF Tree!InsertNew, TreeTypes
    <3>7. UNCHANGED <<kind, mode, loops, arg, rwMutex, size, height>>
      BY <2>1 DEF Tree!InsertNew
    <3>8. tree' \in [Tree!Nodes' -> [key : Tree!Keys, height : Nat, left :
            Tree!Nodes' \cup {Tree!NULL},
                                     right : Tree!Nodes' \cup {Tree!NULL}]]
      BY <3>1 DEF NodeMade
    <3> QED BY <3>1, <3>2, <3>4, <3>5, <3>6, <3>7, <3>8 DEF TreeTypes
  <2>2. CASE Tree!InsertLink(t)
    <3>1. NodeLinked(t) /\ Tree!Nodes' = Tree!Nodes /\ NodesNumbered'
      BY <2>2, InsertLinkMakes, NumberedKept DEF NodeLinked
    <3>2. pc' \in [Tree!Threads -> TreePCs]
      BY <2>2 DEF Tree!InsertLink, Tree!Goto, TreePCs, TreeTypes
    <3>3. UNCHANGED <<kind, mode, loops, arg, current, parent, rwMutex, size, height>>
      BY <2>2 DEF Tree!InsertLink
    <3> QED BY <3>1, <3>2, <3>3 DEF TreeTypes, NodeLinked
  <2>3. CASE ~Tree!InsertNew(t) /\ ~Tree!InsertLink(t)
    <3>1. TreeKept /\ NodesNumbered'
      BY <1>1, <2>3, OthersKeep, NumberedKept DEF TreeKept
    <3>2. Tree!Nodes' = Tree!Nodes /\ tree' = tree /\ root' = root
      BY <3>1 DEF TreeKept
    <3>3. mode' = mode /\ kind' = kind
      BY <1>1
         DEF Tree!Worker, Tree!Insert, Tree!InsertWalk, Tree!InsertNew, Tree!InsertLink,
             Tree!InsertCount, Tree!InsertUnlock, 
             Tree!Search, Tree!SearchWalk, Tree!SearchEnd, Tree!SearchReturn, Tree!Return
    <3>4. pc' \in [Tree!Threads -> TreePCs]
      BY <1>1, <2>3
         DEF Tree!Worker, Tree!Insert, Tree!InsertWalk, Tree!InsertCount, Tree!InsertUnlock, 
             Tree!Search, Tree!SearchWalk, Tree!SearchEnd, Tree!SearchReturn, Tree!Return,
             Tree!Goto, TreePCs, TreeTypes
    <3>5. loops' \in [Tree!Threads -> 0..TreeLoops]
      <4>1. Tree!SearchReturn(t) \/ loops' = loops
        BY <1>1, <2>3
           DEF Tree!Worker, Tree!Insert, Tree!InsertWalk, Tree!InsertCount, Tree!InsertUnlock, 
             Tree!Search, Tree!SearchWalk, Tree!SearchEnd, Tree!Return
      <4>2. CASE Tree!SearchReturn(t)
        <5>1. loops' = loops \/ (loops[t] # TreeLoops /\ loops' = [loops EXCEPT ![t] = @ + 1])
          BY <4>2 DEF Tree!SearchReturn
        <5> QED BY <5>1 DEF TreeTypes, TreeConstants
      <4> QED BY <4>1, <4>2 DEF TreeTypes
    <3>6. arg' \in [Tree!Threads -> Tree!Keys]
      <4>1. CASE Tree!Insert(t)
        <5>1. \E k \in Tree!Keys : arg' = [arg EXCEPT ![t] = k]
          <6>1. loops[t] \in Tree!Keys
            BY DEF TreeTypes, Tree!Keys
          <6> QED BY <4>1, <6>1 DEF Tree!Insert
        <5> QED BY <5>1 DEF TreeTypes
      <4>2. CASE Tree!Search(t)
        <5>1. \E k \in Tree!Keys : arg' = [arg EXCEPT ![t] = k]
          <6>1. TreeLoops \in Tree!Keys /\ arg[t] \in Tree!Keys
            BY DEF TreeTypes, Tree!Keys, TreeConstants
          <6> QED BY <4>2, <6>1 DEF Tree!Search
        <5> QED BY <5>1 DEF TreeTypes
      <4>3. CASE Tree!SearchReturn(t)
        <5>1. 0 \in Tree!Keys
          BY DEF Tree!Keys, TreeConstants
        <5> QED BY <4>3, <5>1 DEF TreeTypes, Tree!SearchReturn
      <4>4. CASE ~Tree!Insert(t) /\ ~Tree!Search(t) /\ ~Tree!SearchReturn(t)
        BY <1>1, <2>3, <4>4 DEF Tree!Worker, Tree!InsertWalk, Tree!InsertCount, Tree!InsertUnlock,
             Tree!SearchWalk, Tree!SearchEnd, Tree!Return, TreeTypes
      <4> QED BY <4>1, <4>2, <4>3, <4>4
    <3>7. current' \in [Tree!Threads -> Tree!Nodes \cup {Tree!NULL}]
      <4> USE DEF TreeTypes
      <4>1. CASE Tree!Insert(t) BY <4>1 DEF Tree!Insert
      <4>2. CASE Tree!InsertWalk(t)
        <5>1. current[t] \in Tree!Nodes
                /\ current' = [current EXCEPT ![t] = Tree!Child(current[t], arg[t])]
          BY <4>2 DEF Tree!InsertWalk
        <5> QED BY <2>0, <5>1
      <4>3. CASE Tree!InsertCount(t) BY <4>3 DEF Tree!InsertCount
      <4>4. CASE Tree!InsertUnlock(t) BY <4>4 DEF Tree!InsertUnlock
      <4>5. CASE Tree!Search(t) BY <4>5 DEF Tree!Search
      <4>6. CASE Tree!SearchWalk(t)
        <5>1. current[t] \in Tree!Nodes
                /\ current' = [current EXCEPT ![t] = Tree!Child(current[t], arg[t])]
          BY <4>6 DEF Tree!SearchWalk, Tree!Arrived
        <5> QED BY <2>0, <5>1
      <4>7. CASE Tree!SearchEnd(t) BY <4>7 DEF Tree!SearchEnd
      <4>8. CASE Tree!SearchReturn(t) BY <4>8 DEF Tree!SearchReturn
      <4>9. CASE Tree!Return(t) BY <4>9 DEF Tree!Return
      <4> QED BY <1>1, <2>3, <4>1, <4>2, <4>3, <4>4, <4>5, <4>6, <4>7, <4>8, <4>9 DEF Tree!Worker
    <3>8. parent' \in [Tree!Threads -> Tree!Nodes \cup {Tree!NULL}]
      BY <1>1, <2>3
         DEF Tree!Worker, Tree!Insert, Tree!InsertWalk, Tree!InsertCount, Tree!InsertUnlock, 
             Tree!Search, Tree!SearchWalk, Tree!SearchEnd, Tree!SearchReturn, Tree!Return, TreeTypes
    <3>9. rwMutex' \in [exclusive : Tree!Threads \cup {Tree!None}, shared : SUBSET Tree!Threads]
      <4>1. CASE Tree!Insert(t) \/ Tree!Search(t)
        <5>1. \/ rwMutex' = [rwMutex EXCEPT !.exclusive = t]
              \/ rwMutex' = [rwMutex EXCEPT !.shared = @ \cup {t}]
          BY <4>1 DEF Tree!Insert, Tree!Search, Tree!Lock, Tree!LockShared
        <5> QED BY <5>1 DEF TreeTypes
      <4>2. CASE Tree!InsertUnlock(t) \/ Tree!SearchEnd(t)
        BY <2>0, <4>2 DEF Tree!InsertUnlock, Tree!SearchEnd, Tree!Unlock
      <4>3. CASE ~Tree!Insert(t) /\ ~Tree!Search(t) /\ ~Tree!InsertUnlock(t) /\ ~Tree!SearchEnd(t)
        BY <1>1, <2>3, <4>3
           DEF Tree!Worker, Tree!InsertWalk, Tree!InsertCount, Tree!SearchWalk,
               Tree!SearchReturn, 
             Tree!Return, TreeTypes
      <4> QED BY <4>1, <4>2, <4>3
    <3>10. size' \in Nat /\ height' \in Nat
      <4>1. CASE Tree!InsertCount(t)
        <5>1. pc[t] = "insCount"
          BY <4>1 DEF Tree!InsertCount, Tree!Goto
        <5>2. current[t] = Created - 1 /\ Created > 0
          BY <5>1 DEF TreePlaces, InsertPlace
        <5>3. current[t] \in Tree!Nodes
          BY <5>2 DEF TreeTypes, NodesNumbered
        <5>4. tree[current[t]].height \in Nat
          BY <5>3 DEF TreeTypes
        <5> QED BY <4>1, <5>4 DEF Tree!InsertCount, TreeTypes
      <4>2. CASE ~Tree!InsertCount(t)
        BY <1>1, <2>3, <4>2 DEF Tree!Worker, Tree!Insert, Tree!InsertWalk, Tree!InsertUnlock,
             Tree!Search, Tree!SearchWalk, Tree!SearchEnd, Tree!SearchReturn, Tree!Return, TreeTypes
      <4> QED BY <4>1, <4>2
    <3> QED BY <3>1, <3>2, <3>3, <3>4, <3>5, <3>6, <3>7, <3>8, <3>9, <3>10 DEF TreeTypes
  <2> QED BY <2>1, <2>2, <2>3
<1>2. CASE UNCHANGED Tree!vars
  BY <1>2 DEF Tree!vars, TreeTypes, Tree!Nodes, NodesNumbered, Created
<1> QED BY <1>1, <1>2 DEF Tree!Next, Tree!Ended

\* The variables of other threads stay.
LEMMA OthersStay ==
  ASSUME TreeTypes, NEW t \in Tree!Threads, Tree!Worker(t), NEW u \in Tree!Threads, u # t
  PROVE  /\ pc'[u] = pc[u] /\ loops'[u] = loops[u] /\ arg'[u] = arg[u]
         /\ current'[u] = current[u] /\ parent'[u] = parent[u]
<1> USE DEF TreeTypes, Tree!Goto
<1>1. CASE Tree!Insert(t) BY <1>1 DEF Tree!Insert
<1>2. CASE Tree!InsertWalk(t) BY <1>2 DEF Tree!InsertWalk
<1>3. CASE Tree!InsertNew(t) BY <1>3 DEF Tree!InsertNew
<1>4. CASE Tree!InsertLink(t) BY <1>4 DEF Tree!InsertLink
<1>5. CASE Tree!InsertCount(t) BY <1>5 DEF Tree!InsertCount
<1>6. CASE Tree!InsertUnlock(t) BY <1>6 DEF Tree!InsertUnlock
<1>7. CASE Tree!Search(t) BY <1>7 DEF Tree!Search
<1>8. CASE Tree!SearchWalk(t) BY <1>8 DEF Tree!SearchWalk
<1>9. CASE Tree!SearchEnd(t) BY <1>9 DEF Tree!SearchEnd
<1>10. CASE Tree!SearchReturn(t) BY <1>10 DEF Tree!SearchReturn
<1>11. CASE Tree!Return(t) BY <1>11 DEF Tree!Return
<1> QED BY <1>1, <1>2, <1>3, <1>4, <1>5, <1>6, <1>7, <1>8, <1>9, <1>10, <1>11 DEF Tree!Worker

\* The places of a thread depend on its variables and on the walks.
LEMMA PlaceKept ==
  ASSUME TreeKept, NEW u \in Tree!Threads, InsertPlace(u), SearchPlace(u), TreePhase(u),
         pc'[u] = pc[u], loops'[u] = loops[u], arg'[u] = arg[u],
         current'[u] = current[u], parent'[u] = parent[u]
  PROVE  (InsertPlace(u) /\ SearchPlace(u) /\ TreePhase(u))'
<1>1. /\ tree' = tree /\ root' = root /\ Created' = Created
      /\ Tree!Path(arg[u])' = Tree!Path(arg[u])
  BY DEF TreeKept
<1>3. InsertPlace(u)'
  BY <1>1 DEF InsertPlace, Placing, Tree!Child, Tree!Inserting
<1>4. SearchPlace(u)'
  BY <1>1 DEF SearchPlace
<1>5. TreePhase(u)'
  BY DEF TreePhase, Tree!Inserting
<1> QED BY <1>3, <1>4, <1>5

\* Where a walk goes from a node it passes.
LEMMA WalkOn ==
  ASSUME TreeTypes, Ordered, NEW k \in Tree!Keys, NEW n \in Tree!Path(k)
  PROVE  /\ Tree!Child(n, k) # Tree!NULL =>
              Tree!Child(n, k) \in Tree!Path(k) /\ n < Tree!Child(n, k)
         /\ \A m \in Tree!Path(k) : n < m => Tree!Child(n, k) # Tree!NULL /\ Tree!Child(n, k) <= m
         /\ n \in Nat /\ n # Tree!NULL /\ n \in Tree!Nodes
         /\ \A m \in Tree!Path(k) : m \in Nat /\ root <= m
         /\ root # Tree!NULL
<1>1. ChainIn(tree, root, k, Tree!Path(k)) /\ DOMAIN tree = Tree!Nodes
        /\ Tree!Nodes = 0..(Created - 1)
  BY DEF Ordered, PathHolds, Tree!Nodes, TreeTypes, NodesNumbered
<1>2. \A q : Tree!Child(q, k) = ChildIn(tree, q, k)
  BY DEF Tree!Child, ChildIn
<1>3. Tree!Path(k) \subseteq Tree!Nodes /\ \A m \in Tree!Nodes : m \in Nat /\ m # Tree!NULL
  BY <1>1 DEF ChainIn, Tree!NULL
<1> HIDE DEF Tree!Child, ChildIn
<1> QED BY <1>1, <1>2, <1>3 DEF ChainIn

LEMMA WalkStarts ==
  ASSUME Ordered, NEW k \in Tree!Keys
  PROVE  /\ root = Tree!NULL => Tree!Path(k) = {}
         /\ root # Tree!NULL => root \in Tree!Path(k)
BY DEF Ordered, PathHolds, ChainIn

LEMMA TreePlacesNext ==
  ASSUME TreeConstants, TreeTypes, Tree!TypeOK, Ordered, TreePlaces, [Tree!Next]_(Tree!vars)
  PROVE  TreePlaces'
<1>1. ASSUME NEW t \in Tree!Threads, Tree!Worker(t), ~Tree!InsertNew(t), ~Tree!InsertLink(t),
             NEW u \in Tree!Threads
      PROVE  (InsertPlace(u) /\ SearchPlace(u) /\ TreePhase(u))'
  <2>1. TreeKept
    BY <1>1, OthersKeep
  <2>2. InsertPlace(u) /\ SearchPlace(u) /\ TreePhase(u)
    BY DEF TreePlaces
  <2>3. CASE u # t
    BY <1>1, <2>1, <2>2, <2>3, OthersStay, PlaceKept
  <2>4. CASE u = t
    <3> DEFINE k == arg[t]
    <3>0. k \in Tree!Keys /\ InsertPlace(t) /\ SearchPlace(t) /\ TreePhase(t)
            /\ loops[t] \in 0..TreeLoops
      BY <2>2, <2>4 DEF TreeTypes
    <3>1. /\ tree' = tree /\ root' = root /\ Created' = Created
          /\ \A j : Tree!Path(j)' = Tree!Path(j)
          /\ \A n, j : Tree!Child(n, j)' = Tree!Child(n, j)
      BY <2>1 DEF TreeKept, Tree!Child
    <3>2. CASE Tree!Insert(t)
      <4>1. /\ pc[t] = "loop" /\ pc'[t] = "insWalk" /\ current'[t] = root /\ loops[t] < TreeLoops
            /\ parent' = parent /\ loops' = loops
        BY <3>2 DEF Tree!Insert, Tree!Goto, TreeTypes
      <4>2. parent[t] = Tree!NULL
        BY <3>0, <4>1 DEF InsertPlace, Tree!Inserting
      <4>3. InsertPlace(t)'
        BY <3>1, <4>1, <4>2 DEF InsertPlace, Tree!Inserting
      <4> QED BY <2>4, <4>1, <4>3 DEF SearchPlace, TreePhase
    <3>3. CASE Tree!InsertWalk(t)
      <4>1. /\ pc[t] = "insWalk" /\ pc'[t] = "insWalk" /\ current[t] # Tree!NULL
            /\ parent'[t] = current[t] /\ current'[t] = Tree!Child(current[t], k)
            /\ arg' = arg /\ loops' = loops
        BY <3>3 DEF Tree!InsertWalk, Tree!Goto, TreeTypes
      <4>2. current[t] \in Tree!Path(k)
        BY <3>0, <4>1, WalkStarts, WalkOn DEF InsertPlace
      <4>3. (current[t] = Tree!Child(parent[t], arg[t]) /\ parent[t] \in Tree!Path(arg[t]))'
        BY <3>1, <4>1, <4>2
      <4>4. InsertPlace(t)'
        BY <4>1, <4>3 DEF InsertPlace, Tree!Inserting
      <4> QED BY <2>4, <3>0, <4>1, <4>4 DEF SearchPlace, TreePhase, Tree!Inserting
    <3>4. CASE Tree!InsertCount(t)
      <4>1. pc[t] = "insCount" /\ pc'[t] = "insUnlock" /\ UNCHANGED <<arg, loops>>
        BY <3>4 DEF Tree!InsertCount, Tree!Goto, TreeTypes
      <4> QED BY <2>4, <3>0, <4>1 DEF InsertPlace, SearchPlace, TreePhase, Tree!Inserting
    <3>5. CASE Tree!InsertUnlock(t)
      <4>1. /\ pc[t] = "insUnlock" /\ pc'[t] = "search" /\ UNCHANGED <<arg, loops>>
            /\ parent'[t] = Tree!NULL
        BY <3>5 DEF Tree!InsertUnlock, Tree!Goto, TreeTypes
      <4> QED BY <2>4, <3>0, <4>1 DEF InsertPlace, SearchPlace, TreePhase, Tree!Inserting
    <3>6. CASE Tree!Search(t)
      <4>1. /\ pc[t] \in {"search", "loop"} /\ pc'[t] = "seaWalk" /\ current'[t] = root
            /\ parent' = parent
        BY <3>6 DEF Tree!Search, Tree!Goto, TreeTypes
      <4>2. parent[t] = Tree!NULL /\ arg'[t] \in Tree!Keys
        <5>1. TreeTypes'
          BY TreeTypesNext, <1>1 DEF Tree!Next
        <5> QED BY <3>0, <4>1, <5>1 DEF InsertPlace, Tree!Inserting, TreeTypes
      <4>3. /\ root # Tree!NULL => root \in Tree!Path(arg'[t])
            /\ \A m \in Tree!Path(arg'[t]) : ~(root = Tree!NULL \/ m < root)
        <5>1. root # Tree!NULL => root \in Nat
          BY DEF TreeTypes, NodesNumbered
        <5>2. \A m \in Tree!Path(arg'[t]) : m \in Nat /\ root <= m /\ root # Tree!NULL
          BY <4>2, WalkOn
        <5>3. \A m \in Tree!Path(arg'[t]) : ~(root = Tree!NULL \/ m < root)
          BY <5>1, <5>2
        <5> QED BY <4>2, <5>3, WalkStarts
      <4>4. SearchPlace(t)'
        BY <3>1, <4>1, <4>3 DEF SearchPlace
      <4> QED BY <2>4, <4>1, <4>2, <4>4 DEF InsertPlace, TreePhase, Tree!Inserting
    <3>7. CASE Tree!SearchWalk(t)
      <4>1. /\ pc[t] = "seaWalk" /\ pc'[t] = "seaWalk" /\ current[t] # Tree!NULL
            /\ tree[current[t]].key # k /\ current'[t] = Tree!Child(current[t], k)
            /\ arg' = arg /\ loops' = loops /\ parent' = parent
        BY <3>7 DEF Tree!SearchWalk, Tree!Goto, TreeTypes, Tree!Arrived
      <4>2. current[t] \in Tree!Path(k)
        BY <3>0, <4>1 DEF SearchPlace
      <4> DEFINE n == current[t]
                 d == Tree!Child(n, k)
      <4>3. /\ d # Tree!NULL => d \in Tree!Path(k)
            /\ \A m \in Tree!Path(k) : n < m => d # Tree!NULL /\ d <= m
            /\ n \in Nat /\ \A m \in Tree!Path(k) : m \in Nat
        BY <3>0, <4>2, WalkOn
      <4>4. ASSUME NEW m \in Tree!Path(k), d = Tree!NULL \/ m < d
            PROVE  tree[m].key # k
        <5>1. ~(n < m)
          <6>1. d # Tree!NULL => d \in Nat
            BY <4>3
          <6> QED BY <4>3, <4>4, <6>1
        <5>2. m < n \/ m = n
          BY <4>3, <5>1
        <5> QED BY <3>0, <4>1, <5>2 DEF SearchPlace
      <4>5. SearchPlace(t)'
        BY <3>1, <4>1, <4>3, <4>4 DEF SearchPlace
      <4>6. InsertPlace(t)' /\ TreePhase(t)'
        BY <3>0, <4>1 DEF InsertPlace, TreePhase, Tree!Inserting
      <4> QED BY <2>4, <4>5, <4>6
    <3>8. CASE Tree!SearchEnd(t)
      <4>1. /\ pc[t] = "seaWalk" /\ pc'[t] = "return"
            /\ current[t] # Tree!NULL => tree[current[t]].key = k
            /\ arg' = arg /\ current' = current /\ parent' = parent
        BY <3>8 DEF Tree!SearchEnd, Tree!Goto, TreeTypes, Tree!Arrived
      <4> QED BY <2>4, <3>0, <3>1, <4>1 DEF SearchPlace, InsertPlace, TreePhase, Tree!Inserting
    <3>9. CASE Tree!SearchReturn(t)
      <4>1. /\ pc[t] = "return" /\ pc'[t] \in {"done", "loop"}
            /\ pc'[t] = "done" => loops[t] = TreeLoops /\ loops' = loops
            /\ parent' = parent
        BY <3>9 DEF Tree!SearchReturn, Tree!Goto, TreeTypes
      <4> QED BY <2>4, <3>0, <4>1 DEF SearchPlace, InsertPlace, TreePhase, Tree!Inserting
    <3>10. CASE Tree!Return(t)
      <4>1. /\ pc[t] = "loop" /\ pc'[t] = "done" /\ loops[t] = TreeLoops /\ loops' = loops
            /\ parent' = parent
        BY <3>10 DEF Tree!Return, Tree!Goto, TreeTypes
      <4> QED BY <2>4, <3>0, <4>1 DEF SearchPlace, InsertPlace, TreePhase, Tree!Inserting
    <3> QED BY <1>1, <3>2, <3>3, <3>4, <3>5, <3>6, <3>7, <3>8, <3>9, <3>10 DEF Tree!Worker
  <2> QED BY <2>3, <2>4
<1>2. ASSUME NEW t \in Tree!Threads, Tree!InsertNew(t), NEW u \in Tree!Threads
      PROVE  (InsertPlace(u) /\ SearchPlace(u) /\ TreePhase(u))'
  <2>1. NodeMade(t)
    BY <1>2, InsertNewMakes
  <2>2. /\ pc[t] = "insWalk" /\ pc'[t] = "insLink" /\ current[t] = Tree!NULL
        /\ current'[t] = Created /\ UNCHANGED <<loops, arg, parent, root>>
    BY <1>2, TreeSize DEF Tree!InsertNew, Tree!Goto, TreeTypes, Created
  <2>3. InsertPlace(u) /\ SearchPlace(u) /\ TreePhase(u) /\ arg[u] \in Tree!Keys
    BY DEF TreePlaces, TreeTypes
  <2>4. CASE u # t
    <3>1. pc'[u] = pc[u] /\ loops'[u] = loops[u] /\ current'[u] = current[u]
      BY <1>2, <2>4, OthersStay DEF Tree!Worker
    <3>2. ~Tree!Inserting(u) /\ pc[u] # "seaWalk"
      BY <1>2, <2>2, <2>4, Alone DEF Tree!Inserting
    <3>3. current[u] # Tree!NULL => tree'[current[u]] = tree[current[u]]
      BY <2>1 DEF NodeMade, TreeTypes
    <3> QED BY <2>2, <2>3, <3>1, <3>2, <3>3 DEF InsertPlace, SearchPlace, TreePhase, Tree!Inserting
  <2>5. CASE u = t
    <3> DEFINE p == parent[t]
    <3>1. p = Tree!NULL => root = Tree!NULL
      BY <2>2, <2>3, <2>5 DEF InsertPlace
    <3>2. ASSUME p # Tree!NULL
          PROVE  p \in Tree!Path(arg[t])' /\ Tree!Child(p, arg[t])' = Tree!NULL /\ p \in Tree!Nodes
      <4>1. p \in Tree!Path(arg[t]) /\ Tree!Child(p, arg[t]) = Tree!NULL
        BY <2>2, <2>3, <2>5, <3>2 DEF InsertPlace
      <4>2. p \in Tree!Nodes
        BY <3>2 DEF TreeTypes
      <4>3. tree'[p] = tree[p] /\ Tree!Path(arg[t])' = Tree!Path(arg[t])
        BY <2>1, <2>2, <2>3, <2>5, <4>2 DEF NodeMade
      <4> QED BY <2>2, <4>1, <4>2, <4>3 DEF Tree!Child
    <3>3. Placing(t)'
      BY <2>2, <3>1, <3>2 DEF Placing
    <3>4. tree'[current'[t]] = TreeNewNode(t)
      BY <2>1, <2>2 DEF NodeMade
    <3>5. p # Tree!NULL => tree'[p] = tree[p]
      BY <2>1, <3>2 DEF NodeMade
    <3>6. Created \in Nat /\ Created' = Created + 1
      BY <2>1 DEF NodeMade, TreeTypes, NodesNumbered
    <3>7. InsertPlace(t)'
      BY <2>2, <3>3, <3>4, <3>5, <3>6 DEF InsertPlace, TreeNewNode, Tree!Inserting
    <3> QED BY <2>2, <2>3, <2>5, <3>7 DEF SearchPlace, TreePhase, Tree!Inserting
  <2> QED BY <2>4, <2>5
<1>3. ASSUME NEW t \in Tree!Threads, Tree!InsertLink(t), NEW u \in Tree!Threads
      PROVE  (InsertPlace(u) /\ SearchPlace(u) /\ TreePhase(u))'
  <2>1. NodeLinked(t)
    BY <1>3, InsertLinkMakes
  <2>2. /\ pc[t] = "insLink" /\ pc'[t] = "insCount" /\ UNCHANGED <<loops, arg, parent, current>>
    BY <1>3 DEF Tree!InsertLink, Tree!Goto, TreeTypes
  <2>3. InsertPlace(u) /\ SearchPlace(u) /\ TreePhase(u) /\ Created' = Created
    BY <2>1 DEF TreePlaces, NodeLinked
  <2>4. CASE u # t
    <3>1. pc'[u] = pc[u]
      BY <1>3, <2>4, OthersStay DEF Tree!Worker
    <3>2. ~Tree!Inserting(u) /\ pc[u] # "seaWalk"
      BY <1>3, <2>2, <2>4, Alone DEF Tree!Inserting
    <3>3. current[u] # Tree!NULL => tree'[current[u]].key = tree[current[u]].key
      BY <2>1 DEF NodeLinked, TreeTypes
    <3> QED BY <2>2, <2>3, <3>1, <3>2, <3>3 DEF InsertPlace, SearchPlace, TreePhase, Tree!Inserting
  <2>5. CASE u = t
    BY <2>2, <2>3, <2>5 DEF InsertPlace, SearchPlace, TreePhase, Tree!Inserting
  <2> QED BY <2>4, <2>5
<1>4. ASSUME UNCHANGED Tree!vars, NEW u \in Tree!Threads
      PROVE  (InsertPlace(u) /\ SearchPlace(u) /\ TreePhase(u))'
  <2>1. TreeKept
    BY <1>4, TreeKeptIs DEF Tree!vars
  <2> QED BY <1>4, <2>1, PlaceKept DEF Tree!vars, TreePlaces
<1>5. ASSUME NEW u \in Tree!Threads PROVE (InsertPlace(u) /\ SearchPlace(u) /\ TreePhase(u))'
  BY <1>1, <1>2, <1>3, <1>4 DEF Tree!Next, Tree!Ended
<1> QED BY <1>5 DEF TreePlaces

\* How far the insertion of the last node is.
LEMMA Stages ==
  ASSUME TreeTypes, Tree!TypeOK, NEW t \in Tree!Threads, Tree!Worker(t), TreePlaces
  PROVE  /\ Tree!InsertNew(t) => ~TreePending /\ ~Uncounted /\ TreePending' /\ Uncounted'
         /\ Tree!InsertLink(t) => TreePending /\ Uncounted /\ ~TreePending' /\ Uncounted'
         /\ Tree!InsertCount(t) => ~TreePending /\ Uncounted /\ ~TreePending' /\ ~Uncounted'
         /\ ~Tree!InsertNew(t) /\ ~Tree!InsertLink(t) /\ ~Tree!InsertCount(t) =>
              TreePending' = TreePending /\ Uncounted' = Uncounted
<1> DEFINE stage(u) == pc[u] = "insLink" \/ pc[u] = "insCount"
<1>1. \A u \in Tree!Threads : u # t => pc'[u] = pc[u]
  BY OthersStay
<1>2. ASSUME Tree!Inserting(t), NEW u \in Tree!Threads, u # t
      PROVE  pc[u] # "insLink" /\ pc[u] # "insCount"
  BY <1>2, Alone DEF Tree!Inserting
<1>3. CASE Tree!InsertNew(t)
  <2>1. pc[t] = "insWalk" /\ pc'[t] = "insLink"
    BY <1>3 DEF Tree!InsertNew, Tree!Goto, TreeTypes
  <2> QED BY <1>2, <1>3, <2>1
             DEF TreePending, Uncounted, Tree!Inserting, Tree!InsertLink, Tree!InsertCount,
                 Tree!Goto
<1>4. CASE Tree!InsertLink(t)
  <2>1. pc[t] = "insLink" /\ pc'[t] = "insCount"
    BY <1>4 DEF Tree!InsertLink, Tree!Goto, TreeTypes
  <2> QED BY <1>1, <1>2, <1>4, <2>1
             DEF TreePending, Uncounted, Tree!Inserting, Tree!InsertNew, Tree!InsertCount,
                 Tree!Goto
<1>5. CASE Tree!InsertCount(t)
  <2>1. pc[t] = "insCount" /\ pc'[t] = "insUnlock"
    BY <1>5 DEF Tree!InsertCount, Tree!Goto, TreeTypes
  <2> QED BY <1>1, <1>2, <1>5, <2>1
             DEF TreePending, Uncounted, Tree!Inserting, Tree!InsertNew, Tree!InsertLink,
                 Tree!Goto
<1>6. CASE ~Tree!InsertNew(t) /\ ~Tree!InsertLink(t) /\ ~Tree!InsertCount(t)
  <2>1. pc[t] \notin {"insLink", "insCount"} /\ pc'[t] \notin {"insLink", "insCount"}
    BY <1>6
       DEF Tree!Worker, Tree!Insert, Tree!InsertWalk, Tree!InsertUnlock, Tree!Search,
           Tree!SearchWalk, Tree!SearchEnd, 
                Tree!SearchReturn, Tree!Return, Tree!Goto, TreeTypes
  <2> QED BY <1>1, <1>6, <2>1 DEF TreePending, Uncounted
<1> QED BY <1>3, <1>4, <1>5, <1>6

LEMMA StagesNodes ==
  ASSUME TreeTypes, Tree!TypeOK, Ordered, TreePlaces, NEW t \in Tree!Threads, Tree!Worker(t)
  PROVE  /\ Tree!InsertNew(t) => LinkedNodes = Tree!Nodes /\ LinkedNodes' = Tree!Nodes
                                 /\ CountedNodes' = CountedNodes
         /\ Tree!InsertLink(t) =>
              LinkedNodes = Tree!Nodes \ {Created - 1} /\ LinkedNodes' = Tree!Nodes
                                 /\ CountedNodes' = CountedNodes
         /\ Tree!InsertCount(t) =>
              CountedNodes = Tree!Nodes \ {Created - 1} /\ CountedNodes' = Tree!Nodes
         /\ ~Tree!InsertNew(t) /\ ~Tree!InsertLink(t) => LinkedNodes' = LinkedNodes
         /\ ~Tree!InsertNew(t) /\ ~Tree!InsertLink(t) /\ ~Tree!InsertCount(t) =>
              CountedNodes' = CountedNodes
<1>1. CASE Tree!InsertNew(t)
  <2>1. ~TreePending /\ ~Uncounted /\ TreePending' /\ Uncounted'
    BY <1>1, Stages
  <2>2. Tree!Nodes' = 0..Created /\ Created' = Created + 1 /\ Created \in Nat
        /\ Tree!Nodes = 0..(Created - 1)
    BY <1>1, InsertNewMakes DEF NodeMade, TreeTypes, NodesNumbered
  <2>3. Tree!Nodes' \ {Created' - 1} = Tree!Nodes
    BY <2>2
  <2> QED BY <1>1, <2>1, <2>3
             DEF LinkedNodes, CountedNodes, Tree!InsertNew, Tree!InsertLink, Tree!InsertCount,
                 Tree!Goto
<1>2. CASE Tree!InsertLink(t)
  <2>1. TreePending /\ Uncounted /\ ~TreePending' /\ Uncounted'
    BY <1>2, Stages
  <2>2. Tree!Nodes' = Tree!Nodes /\ Created' = Created
    BY <1>2, InsertLinkMakes DEF NodeLinked
  <2> QED BY <1>2, <2>1, <2>2
             DEF LinkedNodes, CountedNodes, Tree!InsertNew, Tree!InsertLink, Tree!InsertCount,
                 Tree!Goto
<1>3. CASE ~Tree!InsertNew(t) /\ ~Tree!InsertLink(t)
  <2>1. Tree!Nodes' = Tree!Nodes /\ Created' = Created
    BY <1>3, OthersKeep DEF TreeKept
  <2>2. CASE Tree!InsertCount(t)
    BY <1>3, <2>1, <2>2, Stages DEF LinkedNodes, CountedNodes
  <2>3. CASE ~Tree!InsertCount(t)
    BY <1>3, <2>1, <2>3, Stages DEF LinkedNodes, CountedNodes
  <2> QED BY <2>2, <2>3
<1> QED BY <1>1, <1>2, <1>3

\* The depth of a node that is linked.
LEMMA DepthLinked ==
  ASSUME NEW c \in Nat, NEW P, P \subseteq 0..(c - 1)
  PROVE  /\ \A m \in P : Depth(P \cup {c}, m) = Depth(P, m)
         /\ Depth(P \cup {c}, c) = Cardinality(P)
         /\ \A p \in P : (\A m \in P : m <= p) => Cardinality(P) = Depth(P, p) + 1
<1>0. ~(c < c) /\ \A m \in P : m \in Nat /\ m < c /\ ~(c < m)
  OBVIOUS
<1>1. ASSUME NEW m \in P PROVE Depth(P \cup {c}, m) = Depth(P, m)
  <2>1. {q \in P \cup {c} : q < m} = {q \in P : q < m}
    OBVIOUS
  <2> QED BY <2>1 DEF Depth
<1>2. Depth(P \cup {c}, c) = Cardinality(P)
  <2>1. {q \in P \cup {c} : q < c} = P
    BY <1>0
  <2> QED BY <2>1 DEF Depth
<1>3. ASSUME NEW p \in P, \A m \in P : m <= p PROVE Cardinality(P) = Depth(P, p) + 1
  <2> DEFINE B == {m \in P : m < p}
  <2>1. P = B \cup {p} /\ p \notin B
    <3>1. \A m \in P : m < p \/ m = p
      BY <1>0, <1>3
    <3>2. ~(p < p)
      BY <1>0
    <3> QED BY <3>1, <3>2
  <2>2. IsFiniteSet(P)
    <3>1. IsFiniteSet(0..(c - 1))
      BY FS_Interval
    <3> QED BY <3>1, FS_Subset
  <2>3. IsFiniteSet(B)
    BY <2>2, FS_Subset
  <2> HIDE DEF B
  <2>4. Cardinality(B \cup {p}) = Cardinality(B) + 1
    BY <2>1, <2>3, FS_AddElement
  <2> QED BY <2>1, <2>4 DEF Depth, B
<1> QED BY <1>1, <1>2, <1>3

LEMMA OrderedNext ==
  ASSUME TreeConstants, TreeTypes, Tree!TypeOK, Ordered, TreePlaces, [Tree!Next]_(Tree!vars)
  PROVE  Ordered'
<1>0. ASSUME TreeKept, LinkedNodes' = LinkedNodes PROVE Ordered'
  <2>1. \A k \in Tree!Keys : PathHolds(k)'
    BY <1>0 DEF TreeKept, Ordered, PathHolds
  <2>2. ASSUME NEW n \in LinkedNodes PROVE (n \in Tree!Path(tree[n].key))'
    BY <1>0 DEF TreeKept, Ordered
  <2> QED BY <1>0, <2>1, <2>2 DEF Ordered
<1>1. ASSUME NEW t \in Tree!Threads, Tree!InsertNew(t) PROVE Ordered'
  <2>1. NodeMade(t) /\ LinkedNodes = Tree!Nodes /\ LinkedNodes' = Tree!Nodes
    BY <1>1, InsertNewMakes, StagesNodes DEF Tree!Worker
  <2>2. ASSUME NEW k \in Tree!Keys PROVE PathHolds(k)'
    <3>1. PathHolds(k) /\ Tree!Path(k)' = Tree!Path(k) /\ ChainIn(tree', root', k, Tree!Path(k))
      BY <2>1 DEF Ordered, NodeMade
    <3>2. \A n \in Tree!Path(k) : tree'[n] = tree[n]
      BY <2>1, <3>1 DEF NodeMade, PathHolds
    <3> QED BY <2>1, <3>1, <3>2 DEF PathHolds
  <2>3. ASSUME NEW n \in Tree!Nodes PROVE (n \in Tree!Path(tree[n].key))'
    <3>1. n \in Tree!Path(tree[n].key) /\ tree'[n] = tree[n] /\ tree[n].key \in Tree!Keys
      BY <2>1 DEF Ordered, NodeMade, TreeTypes
    <3> QED BY <2>1, <3>1 DEF NodeMade
  <2> QED BY <2>1, <2>2, <2>3 DEF Ordered
<1>2. ASSUME NEW t \in Tree!Threads, Tree!InsertLink(t) PROVE Ordered'
  <2> DEFINE c == Created - 1
             p == parent[t]
  <2>1. /\ NodeLinked(t) /\ LinkedNodes = Tree!Nodes \ {c} /\ LinkedNodes' = Tree!Nodes
        /\ Created \in Nat /\ Tree!Nodes = 0..c
    BY <1>2, InsertLinkMakes, StagesNodes DEF Tree!Worker, TreeTypes, NodesNumbered
  <2>2. current[t] = c /\ c \in Nat /\ Placing(t) /\ tree[c] = TreeNewNode(t)
    <3>1. pc[t] = "insLink"
      BY <1>2 DEF Tree!InsertLink, Tree!Goto
    <3>2. InsertPlace(t)
      BY DEF TreePlaces
    <3>3. current[t] = Created - 1 /\ Created > 0 /\ Placing(t) /\ tree[current[t]] = TreeNewNode(t)
      BY <3>1, <3>2 DEF InsertPlace, TreeNewNode
    <3> QED BY <2>1, <3>3
  <2>3. \A n \in Tree!Nodes : tree'[n].key = tree[n].key /\ tree'[n].height = tree[n].height
    BY <2>1 DEF NodeLinked
  <2>4. ASSUME NEW k \in Tree!Keys PROVE PathHolds(k)'
    <3> DEFINE P == Tree!Path(k)
    <3>1. PathHolds(k) /\ P \subseteq Tree!Nodes \ {c}
      BY <2>1 DEF Ordered, PathHolds
    <3>2. Tree!Path(k)' = PathLinked(t, k) /\ ChainIn(tree', root', k, PathLinked(t, k))
      BY <2>1 DEF NodeLinked
    <3>3. PathLinked(t, k) \subseteq Tree!Nodes /\ c \in Tree!Nodes
      BY <2>1, <2>2, <3>1 DEF PathLinked
    <3>4. P \subseteq 0..(c - 1)
      BY <2>1, <3>1
    <3>5. \A m \in P : tree[m].height = Depth(P, m)
      BY <3>1 DEF PathHolds
    <3>6. ASSUME Joins(t, k) PROVE tree[c].height = Cardinality(P)
      <4>1. CASE p = Tree!NULL
        <5>1. P = {} /\ tree[c].height = 0
          BY <2>2, <3>1, <4>1 DEF Placing, TreeNewNode, PathHolds, ChainIn
        <5> QED BY <5>1, FS_EmptySet
      <4>2. CASE p # Tree!NULL
        <5>1. p \in P /\ tree[c].height = tree[p].height + 1
          BY <2>2, <3>6, <4>2 DEF Joins, TreeNewNode
        <5>2. Tree!Child(p, k) = Tree!NULL
          BY <2>2, <3>6, <4>2 DEF Placing, Joins, Tree!Child
        <5>3. \A m \in P : m <= p
          <6>1. \A m \in P : ~(p < m)
            BY <5>1, <5>2, WalkOn
          <6> QED BY <2>1, <3>1, <5>1, <6>1
        <5> HIDE DEF P, c
        <5>4. Cardinality(P) = Depth(P, p) + 1
          BY <2>2, <3>4, <5>1, <5>3, DepthLinked
        <5> QED BY <3>5, <5>1, <5>4
      <4> QED BY <4>1, <4>2
    <3>7. \A n \in PathLinked(t, k) : tree[n].height = Depth(PathLinked(t, k), n)
      <4>1. CASE Joins(t, k)
        <5>1. PathLinked(t, k) = P \cup {c}
          BY <2>2, <4>1 DEF PathLinked
        <5> HIDE DEF P, c
        <5>2. /\ \A m \in P : Depth(P \cup {c}, m) = Depth(P, m)
              /\ Depth(P \cup {c}, c) = Cardinality(P)
          BY <2>2, <3>4, DepthLinked
        <5> QED BY <3>5, <3>6, <4>1, <5>1, <5>2
      <4>2. CASE ~Joins(t, k)
        BY <3>5, <4>2 DEF PathLinked
      <4> QED BY <4>1, <4>2
    <3> QED BY <2>1, <2>3, <3>2, <3>3, <3>7 DEF PathHolds
  <2>5. ASSUME NEW n \in Tree!Nodes PROVE (n \in Tree!Path(tree[n].key))'
    <3>1. tree'[n].key = tree[n].key /\ tree[n].key \in Tree!Keys
      BY <2>3 DEF TreeTypes
    <3>2. Tree!Path(tree[n].key)' = PathLinked(t, tree[n].key)
      BY <2>1, <3>1 DEF NodeLinked
    <3>3. n \in PathLinked(t, tree[n].key)
      <4>1. CASE n = c
        <5>1. tree[n].key = arg[t]
          BY <2>2, <4>1 DEF TreeNewNode
        <5>2. Joins(t, arg[t])
          BY <2>2 DEF Placing, Joins
        <5> QED BY <2>2, <4>1, <5>1, <5>2 DEF PathLinked
      <4>2. CASE n # c
        BY <2>1, <4>2 DEF Ordered, PathLinked
      <4> QED BY <4>1, <4>2
    <3> QED BY <3>1, <3>2, <3>3
  <2> QED BY <2>1, <2>4, <2>5 DEF Ordered
<1>3. ASSUME NEW t \in Tree!Threads, Tree!Worker(t), ~Tree!InsertNew(t), ~Tree!InsertLink(t)
      PROVE  Ordered'
  BY <1>0, <1>3, OthersKeep, StagesNodes
<1>4. CASE UNCHANGED Tree!vars
  <2>1. TreeKept
    BY <1>4, TreeKeptIs DEF Tree!vars
  <2>2. LinkedNodes' = LinkedNodes
    BY <1>4 DEF Tree!vars, LinkedNodes, Tree!Nodes, Created, TreePending
  <2> QED BY <1>0, <2>1, <2>2
<1> QED BY <1>1, <1>2, <1>3, <1>4 DEF Tree!Next, Tree!Ended

\* What a step leaves of the nodes that were there.
LEMMA NodesKept ==
  ASSUME TreeTypes, Tree!TypeOK, Ordered, TreePlaces, [Tree!Next]_(Tree!vars)
  PROVE  /\ \A n \in Tree!Nodes : n \in Tree!Nodes' /\ tree'[n].key = tree[n].key
                             /\ tree'[n].height = tree[n].height
         /\ LinkedNodes \subseteq LinkedNodes'
         /\ LinkedNodes \subseteq Tree!Nodes /\ CountedNodes \subseteq Tree!Nodes
<1>0. LinkedNodes \subseteq Tree!Nodes /\ CountedNodes \subseteq Tree!Nodes
  BY DEF LinkedNodes, CountedNodes
<1>1. ASSUME NEW t \in Tree!Threads, Tree!InsertNew(t)
      PROVE  /\ \A n \in Tree!Nodes : n \in Tree!Nodes' /\ tree'[n] = tree[n]
             /\ LinkedNodes \subseteq LinkedNodes'
  <2>1. NodeMade(t) /\ LinkedNodes = Tree!Nodes /\ LinkedNodes' = Tree!Nodes
    BY <1>1, InsertNewMakes, StagesNodes DEF Tree!Worker
  <2>2. Tree!Nodes \subseteq Tree!Nodes'
    <3>1. Created \in Nat /\ Tree!Nodes = 0..(Created - 1) /\ Tree!Nodes' = 0..Created
      BY <2>1 DEF NodeMade, TreeTypes, NodesNumbered
    <3> QED BY <3>1
  <2> QED BY <2>1, <2>2 DEF NodeMade
<1>2. ASSUME NEW t \in Tree!Threads, Tree!InsertLink(t)
      PROVE  /\ \A n \in Tree!Nodes : n \in Tree!Nodes' /\ tree'[n].key = tree[n].key
                                 /\ tree'[n].height = tree[n].height
             /\ LinkedNodes \subseteq LinkedNodes'
  <2>1. NodeLinked(t) /\ LinkedNodes' = Tree!Nodes
    BY <1>2, InsertLinkMakes, StagesNodes DEF Tree!Worker
  <2> QED BY <1>0, <2>1 DEF NodeLinked
<1>3. ASSUME NEW t \in Tree!Threads, Tree!Worker(t), ~Tree!InsertNew(t), ~Tree!InsertLink(t)
      PROVE  tree' = tree /\ Tree!Nodes' = Tree!Nodes /\ LinkedNodes' = LinkedNodes
  BY <1>3, OthersKeep, StagesNodes DEF TreeKept
<1>4. CASE UNCHANGED Tree!vars
  BY <1>0, <1>4 DEF Tree!vars, LinkedNodes, Tree!Nodes, Created, TreePending
<1> QED BY <1>0, <1>1, <1>2, <1>3, <1>4 DEF Tree!Next, Tree!Ended

\* Where the node is that is linked and counted.
LEMMA LastNode ==
  ASSUME TreeTypes, TreePlaces, NEW t \in Tree!Threads, pc[t] \in {"insLink", "insCount"}
  PROVE  /\ current[t] = Created - 1 /\ current[t] \in Tree!Nodes
         /\ Created \in Nat /\ Tree!Nodes = 0..(Created - 1)
<1>1. current[t] = Created - 1 /\ Created > 0
  BY DEF TreePlaces, InsertPlace
<1> QED BY <1>1 DEF TreeTypes, NodesNumbered

LEMMA HeightHoldsNext ==
  ASSUME TreeConstants, TreeInv, [Tree!Next]_(Tree!vars)
  PROVE  HeightHolds'
<1> USE DEF TreeInv
<1>0. /\ \A n \in Tree!Nodes : tree'[n].height = tree[n].height
      /\ CountedNodes \subseteq Tree!Nodes
  BY NodesKept
<1>1. ASSUME CountedNodes' = CountedNodes, height' = height PROVE HeightHolds'
  BY <1>0, <1>1 DEF HeightHolds
<1>2. ASSUME NEW t \in Tree!Threads, Tree!InsertCount(t) PROVE HeightHolds'
  <2> DEFINE c == Created - 1
             h == tree[c].height
  <2>1. CountedNodes = Tree!Nodes \ {c} /\ CountedNodes' = Tree!Nodes
    BY <1>2, StagesNodes DEF Tree!Worker
  <2>2. current[t] = c /\ c \in Tree!Nodes
    BY <1>2, LastNode DEF Tree!InsertCount, Tree!Goto
  <2>3. height' = IF height < h THEN h ELSE height
    BY <1>2, <2>2 DEF Tree!InsertCount
  <2>4. height \in Nat /\ \A n \in Tree!Nodes : tree[n].height \in Nat
    BY DEF TreeTypes
  <2> HIDE DEF c
  <2>5. CASE height < h
    <3>1. \A n \in Tree!Nodes : tree[n].height <= h
      BY <2>1, <2>2, <2>4, <2>5 DEF HeightHolds
    <3> QED BY <1>0, <2>1, <2>2, <2>3, <2>5, <3>1 DEF HeightHolds
  <2>6. CASE ~(height < h)
    <3>1. \A n \in Tree!Nodes : tree[n].height <= height
      BY <2>1, <2>2, <2>4, <2>6 DEF HeightHolds
    <3>2. \E n \in Tree!Nodes : tree[n].height = height
      <4>1. CASE CountedNodes = {}
        <5>1. height = 0 /\ h = 0
          BY <2>2, <2>4, <2>6, <4>1 DEF HeightHolds
        <5> QED BY <2>2, <5>1
      <4>2. CASE CountedNodes # {}
        BY <2>1, <4>2 DEF HeightHolds
      <4> QED BY <4>1, <4>2
    <3> QED BY <1>0, <2>1, <2>2, <2>3, <2>6, <3>1, <3>2 DEF HeightHolds
  <2> QED BY <2>5, <2>6
<1>3. ASSUME NEW t \in Tree!Threads, Tree!Worker(t), ~Tree!InsertCount(t) PROVE HeightHolds'
  <2>1. height' = height
    BY <1>3
       DEF Tree!Worker, Tree!Insert, Tree!InsertWalk, Tree!InsertNew, Tree!InsertLink,
           Tree!InsertUnlock, Tree!Search, 
                Tree!SearchWalk, Tree!SearchEnd, Tree!SearchReturn, Tree!Return
  <2>2. CountedNodes' = CountedNodes
    BY <1>3, StagesNodes
  <2> QED BY <1>1, <2>1, <2>2
<1>4. CASE UNCHANGED Tree!vars
  <2>1. CountedNodes' = CountedNodes /\ height' = height
    BY <1>4 DEF Tree!vars, CountedNodes, Tree!Nodes, Created, Uncounted
  <2> QED BY <1>1, <2>1
<1> QED BY <1>2, <1>3, <1>4 DEF Tree!Next, Tree!Ended

LEMMA InsertedFinite == ASSUME TreeConstants PROVE IsFiniteSet(TreeInserted)
<1>1. IsFiniteSet(Tree!Threads) /\ IsFiniteSet(0..(TreeLoops - 1))
  BY FS_Interval DEF Tree!Threads, TreeConstants
<1>2. IsFiniteSet(TreeInsertions)
  BY <1>1, FS_Product DEF TreeInsertions
<1> QED BY <1>2, FS_Subset DEF TreeInserted

\* The insertion of an iteration counts from its end on.
HasInserted(t, i) == i < loops[t] \/ (i = loops[t] /\ pc[t] \in TreeInsertedPCs)

LEMMA InsertedNext ==
  ASSUME TreeConstants, TreeTypes, TreePlaces, NEW t \in Tree!Threads, Tree!Worker(t)
  PROVE  /\ Tree!InsertCount(t) => /\ TreeInserted' = TreeInserted \cup {<<t, loops[t]>>}
                                   /\ <<t, loops[t]>> \notin TreeInserted
         /\ ~Tree!InsertCount(t) => TreeInserted' = TreeInserted
<1> DEFINE I == 0..(TreeLoops - 1)
<1>0. /\ loops[t] \in Nat /\ TreeLoops \in Nat
      /\ \A u \in Tree!Threads : loops[u] \in Nat
  BY DEF TreeTypes, TreeConstants
<1>1. /\ TreeInserted = {p \in Tree!Threads \X I : HasInserted(p[1], p[2])}
      /\ TreeInserted' = {p \in Tree!Threads \X I : HasInserted(p[1], p[2])'}
  BY DEF TreeInserted, TreeInsertions, HasInserted
<1>2. ASSUME NEW u \in Tree!Threads, u # t, NEW i \in I
      PROVE  HasInserted(u, i)' <=> HasInserted(u, i)
  BY <1>2, OthersStay DEF HasInserted
<1>3. ASSUME Tree!InsertCount(t), NEW i \in I
      PROVE  /\ HasInserted(t, i)' <=> HasInserted(t, i) \/ i = loops[t]
             /\ ~HasInserted(t, loops[t]) /\ loops[t] \in I
  <2>1. pc[t] = "insCount" /\ pc'[t] = "insUnlock" /\ loops' = loops
    BY <1>3 DEF Tree!InsertCount, Tree!Goto, TreeTypes
  <2>2. loops[t] < TreeLoops
    BY <2>1 DEF TreePlaces, TreePhase, Tree!Inserting
  <2> QED BY <1>0, <2>1, <2>2 DEF HasInserted, TreeInsertedPCs
<1>4. ASSUME ~Tree!InsertCount(t), NEW i \in I PROVE HasInserted(t, i)' <=> HasInserted(t, i)
  <2>1. CASE Tree!SearchReturn(t)
    <3>1. /\ pc[t] = "return" /\ pc'[t] \in {"done", "loop"}
          /\ IF loops[t] = TreeLoops THEN loops' = loops ELSE loops'[t] = loops[t] + 1
      BY <2>1 DEF Tree!SearchReturn, Tree!Goto, TreeTypes
    <3> QED BY <1>0, <3>1 DEF HasInserted, TreeInsertedPCs
  <2>2. CASE Tree!Search(t) /\ pc[t] = "loop"
    <3>1. loops[t] = TreeLoops /\ loops' = loops
      BY <2>2 DEF Tree!Search, Tree!Goto
    <3> QED BY <1>0, <3>1 DEF HasInserted
  <2>3. CASE ~Tree!SearchReturn(t) /\ ~(Tree!Search(t) /\ pc[t] = "loop")
    <3>1. loops' = loops /\ (pc'[t] \in TreeInsertedPCs <=> pc[t] \in TreeInsertedPCs)
      BY <1>4, <2>3
         DEF Tree!Worker, Tree!Insert, Tree!InsertWalk, Tree!InsertNew, Tree!InsertLink,
             Tree!InsertUnlock, Tree!Search, 
             Tree!SearchWalk, Tree!SearchEnd, Tree!Return, Tree!Goto, TreeTypes, TreeInsertedPCs
    <3> QED BY <3>1 DEF HasInserted
  <2> QED BY <2>1, <2>2, <2>3
<1> HIDE DEF I
<1>5. ASSUME ~Tree!InsertCount(t) PROVE TreeInserted' = TreeInserted
  <2>1. \A u \in Tree!Threads, i \in I : HasInserted(u, i)' <=> HasInserted(u, i)
    BY <1>2, <1>4, <1>5
  <2> HIDE DEF HasInserted
  <2>2. \A p \in Tree!Threads \X I : HasInserted(p[1], p[2])' <=> HasInserted(p[1], p[2])
    BY <2>1
  <2> QED BY <1>1, <2>2
<1>6. ASSUME Tree!InsertCount(t)
      PROVE  /\ TreeInserted' = TreeInserted \cup {<<t, loops[t]>>}
             /\ <<t, loops[t]>> \notin TreeInserted
  <2>1. \A p \in Tree!Threads \X I :
           HasInserted(p[1], p[2])' <=> HasInserted(p[1], p[2]) \/ p = <<t, loops[t]>>
    <3>1. ASSUME NEW u \in Tree!Threads, NEW i \in I
          PROVE  HasInserted(u, i)' <=> HasInserted(u, i) \/ <<u, i>> = <<t, loops[t]>>
      BY <1>2, <1>3, <1>6
    <3> HIDE DEF HasInserted
    <3> QED BY <3>1
  <2>2. loops[t] \in I /\ ~HasInserted(t, loops[t])
    <3>1. loops[t] < TreeLoops
      BY <1>6 DEF Tree!InsertCount, Tree!Goto, TreePlaces, TreePhase, Tree!Inserting
    <3>2. loops[t] \in I
      BY <1>0, <3>1 DEF I
    <3> QED BY <1>3, <1>6, <3>2
  <2> HIDE DEF HasInserted
  <2> QED BY <1>1, <2>1, <2>2
<1> QED BY <1>5, <1>6

LEMMA TreeCountedNext ==
  ASSUME TreeConstants, TreeInv, TreeCounted, [Tree!Next]_(Tree!vars)
  PROVE  TreeCounted'
<1> USE DEF TreeInv
<1>0. size \in Nat /\ Created \in Nat
  BY DEF TreeTypes, NodesNumbered
<1>1. ASSUME NEW t \in Tree!Threads, Tree!InsertNew(t) PROVE TreeCounted'
  <2>1. ~Uncounted /\ Uncounted' /\ Created' = Created + 1 /\ size' = size
          /\ TreeInserted' = TreeInserted
    <3>1. ~Tree!InsertCount(t)
      BY <1>1 DEF Tree!InsertNew, Tree!InsertCount, Tree!Goto
    <3>2. Created' = Created + 1
      BY <1>1, InsertNewMakes DEF NodeMade
    <3>3. ~Uncounted /\ Uncounted'
      BY <1>1, Stages DEF Tree!Worker
    <3>4. TreeInserted' = TreeInserted
      BY <1>1, <3>1, InsertedNext DEF Tree!Worker
    <3>5. size' = size
      BY <1>1 DEF Tree!InsertNew
    <3> QED BY <3>2, <3>3, <3>4, <3>5
  <2> QED BY <2>1 DEF TreeCounted
<1>2. ASSUME NEW t \in Tree!Threads, Tree!InsertCount(t) PROVE TreeCounted'
  <2>1. ~Tree!InsertNew(t) /\ ~Tree!InsertLink(t)
    BY <1>2 DEF Tree!InsertCount, Tree!InsertNew, Tree!InsertLink, Tree!Goto
  <2>2. Uncounted /\ ~Uncounted' /\ size' = size + 1 /\ Created' = Created
    BY <1>2, <2>1, Stages, OthersKeep DEF Tree!InsertCount, Tree!Worker, TreeKept
  <2>3. TreeInserted' = TreeInserted \cup {<<t, loops[t]>>} /\ <<t, loops[t]>> \notin TreeInserted
    BY <1>2, InsertedNext DEF Tree!Worker
  <2>4. Cardinality(TreeInserted') = Cardinality(TreeInserted) + 1
    BY <2>3, InsertedFinite, FS_AddElement
  <2> QED BY <2>2, <2>4 DEF TreeCounted
<1>3. ASSUME NEW t \in Tree!Threads, Tree!Worker(t), ~Tree!InsertNew(t), ~Tree!InsertCount(t)
      PROVE  TreeCounted'
  <2>1. size' = size /\ TreeInserted' = TreeInserted
    BY <1>3, InsertedNext
       DEF Tree!Worker, Tree!Insert, Tree!InsertWalk, Tree!InsertLink, Tree!InsertUnlock,
           Tree!Search, 
                Tree!SearchWalk, Tree!SearchEnd, Tree!SearchReturn, Tree!Return
  <2>2. Created' = Created
    BY <1>3, InsertLinkMakes, OthersKeep DEF NodeLinked, TreeKept
  <2>3. Uncounted' = Uncounted
    <3>1. CASE Tree!InsertLink(t)
      <4>1. Uncounted /\ Uncounted'
        BY <3>1, Stages DEF Tree!Worker
      <4> QED BY <4>1 DEF Uncounted
    <3>2. CASE ~Tree!InsertLink(t)
      BY <1>3, <3>2, Stages
    <3> QED BY <3>1, <3>2
  <2> QED BY <2>1, <2>2, <2>3 DEF TreeCounted
<1>4. CASE UNCHANGED Tree!vars
  BY <1>4 DEF Tree!vars, TreeCounted, TreeInserted, Created, Tree!Nodes, Uncounted
<1> QED BY <1>1, <1>2, <1>3, <1>4 DEF Tree!Next, Tree!Ended

LEMMA TreeTestedNext ==
  ASSUME TreeConstants, TreeInv, TreeTested, [Tree!Next]_(Tree!vars)
  PROVE  TreeTested'
<1> USE DEF TreeInv
<1>0. /\ \A n \in Tree!Nodes : n \in Tree!Nodes' /\ tree'[n].key = tree[n].key
      /\ LinkedNodes \subseteq LinkedNodes' /\ LinkedNodes \subseteq Tree!Nodes
  BY NodesKept
<1>1. mode' = mode
  BY DEF Tree!Next, Tree!Ended, Tree!vars, Tree!Worker, Tree!Insert, Tree!InsertWalk,
         Tree!InsertNew, Tree!InsertLink, Tree!InsertCount, 
         Tree!InsertUnlock, Tree!Search, Tree!SearchWalk, Tree!SearchEnd, Tree!SearchReturn,
         Tree!Return
<1> DEFINE Late(u) == pc[u] \in {"insCount", "insUnlock", "search", "seaWalk"}
           Found(k) == \E n \in LinkedNodes : tree[n].key = k
<1>2. ASSUME mode = "test", NEW t \in Tree!Threads, Tree!Worker(t), NEW u \in Tree!Threads
      PROVE  /\ pc'[u] \notin {"loop", "done"} => arg'[u] = loops'[u]
             /\ Late(u)' /\ loops'[u] < TreeLoops => Found(arg[u])'
             /\ pc'[u] = "return" /\ loops'[u] < TreeLoops => current'[u] # Tree!NULL
  <2>1. /\ pc[u] \notin {"loop", "done"} => arg[u] = loops[u]
        /\ Late(u) /\ loops[u] < TreeLoops => Found(arg[u])
        /\ pc[u] = "return" /\ loops[u] < TreeLoops => current[u] # Tree!NULL
    BY <1>2 DEF TreeTested
  <2>2. \A k : Found(k) => Found(k)'
    BY <1>0
  <2> HIDE DEF Found
  <2>5. Tree!InsertLink(t) => LinkedNodes' = Tree!Nodes
    BY <1>2, StagesNodes
  <2>3. CASE u # t
    <3>1. /\ pc'[u] = pc[u] /\ loops'[u] = loops[u] /\ arg'[u] = arg[u]
          /\ current'[u] = current[u]
      BY <1>2, <2>3, OthersStay
    <3> QED BY <2>1, <2>2, <3>1
  <2>4. CASE u = t
    <3> USE DEF Tree!Goto, TreeTypes
    <3>1. CASE Tree!Insert(t)
      <4>1. pc'[t] = "insWalk" /\ arg'[t] = loops[t] /\ loops' = loops
        BY <1>2, <3>1 DEF Tree!Insert
      <4> QED BY <2>4, <4>1
    <3>2. CASE Tree!InsertWalk(t)
      <4>1. pc[t] = "insWalk" /\ pc'[t] = "insWalk" /\ arg' = arg /\ loops' = loops
        BY <3>2 DEF Tree!InsertWalk
      <4> QED BY <2>1, <2>4, <4>1
    <3>3. CASE Tree!InsertNew(t)
      <4>1. pc[t] = "insWalk" /\ pc'[t] = "insLink" /\ arg' = arg /\ loops' = loops
        BY <3>3 DEF Tree!InsertNew
      <4> QED BY <2>1, <2>4, <4>1
    <3>4. CASE Tree!InsertLink(t)
      <4>1. pc[t] = "insLink" /\ pc'[t] = "insCount" /\ arg' = arg /\ loops' = loops
        BY <3>4 DEF Tree!InsertLink
      <4>2. current[t] \in Tree!Nodes /\ LinkedNodes' = Tree!Nodes
        <5>1. current[t] \in Tree!Nodes
          BY <4>1, LastNode
        <5> QED BY <2>5, <3>4, <5>1
      <4>3. tree'[current[t]].key = arg[t]
        <5>1. tree[current[t]].key = arg[t]
          <6>1. InsertPlace(t)
            BY DEF TreePlaces
          <6>2. tree[current[t]] = TreeNewNode(t)
            BY <4>1, <6>1 DEF InsertPlace, TreeNewNode
          <6> QED BY <6>2 DEF TreeNewNode
        <5> QED BY <1>0, <4>2, <5>1
      <4>4. Found(arg[t])'
        BY <4>1, <4>2, <4>3 DEF Found
      <4> QED BY <2>1, <2>4, <4>1, <4>4
    <3>5. CASE Tree!InsertCount(t)
      <4>1. pc[t] = "insCount" /\ pc'[t] = "insUnlock" /\ arg' = arg /\ loops' = loops
        BY <3>5 DEF Tree!InsertCount
      <4> QED BY <2>1, <2>2, <2>4, <4>1
    <3>6. CASE Tree!InsertUnlock(t)
      <4>1. pc[t] = "insUnlock" /\ pc'[t] = "search" /\ arg' = arg /\ loops' = loops
        BY <3>6 DEF Tree!InsertUnlock
      <4> QED BY <2>1, <2>2, <2>4, <4>1
    <3>7. CASE Tree!Search(t)
      <4>1. /\ pc'[t] = "seaWalk" /\ loops' = loops
            /\ IF loops[t] = TreeLoops THEN arg'[t] = TreeLoops
               ELSE pc[t] = "search" /\ arg'[t] = arg[t]
        BY <1>2, <3>7 DEF Tree!Search
      <4>2. CASE loops[t] = TreeLoops
        <5>1. ~(loops[t] < TreeLoops)
          BY <4>2 DEF TreeConstants
        <5> QED BY <2>4, <4>1, <4>2, <5>1
      <4>3. CASE loops[t] # TreeLoops
        <5>1. pc[t] = "search" /\ arg'[t] = arg[t]
          BY <4>1, <4>3
        <5> QED BY <2>1, <2>2, <2>4, <4>1, <5>1
      <4> QED BY <4>2, <4>3
    <3>8. CASE Tree!SearchWalk(t)
      <4>1. pc[t] = "seaWalk" /\ pc'[t] = "seaWalk" /\ arg' = arg /\ loops' = loops
        BY <3>8 DEF Tree!SearchWalk
      <4> QED BY <2>1, <2>2, <2>4, <4>1
    <3>9. CASE Tree!SearchEnd(t)
      <4>1. /\ pc[t] = "seaWalk" /\ pc'[t] = "return"
            /\ arg' = arg /\ loops' = loops /\ current' = current
        BY <3>9 DEF Tree!SearchEnd
      <4>2. loops[t] < TreeLoops => current[t] # Tree!NULL
        <5> SUFFICES ASSUME loops[t] < TreeLoops, current[t] = Tree!NULL PROVE FALSE
          OBVIOUS
        <5>1. PICK n \in LinkedNodes : tree[n].key = arg[t]
          BY <2>1, <2>4, <4>1 DEF Found
        <5>2. n \in Tree!Path(arg[t])
          BY <5>1 DEF Ordered
        <5> QED BY <4>1, <5>1, <5>2 DEF TreePlaces, SearchPlace
      <4> QED BY <2>1, <2>4, <4>1, <4>2
    <3>10. CASE Tree!SearchReturn(t)
      <4>1. pc'[t] \in {"done", "loop"}
        BY <3>10 DEF Tree!SearchReturn
      <4> QED BY <2>4, <4>1
    <3>11. CASE Tree!Return(t)
      <4>1. pc'[t] = "done"
        BY <3>11 DEF Tree!Return
      <4> QED BY <2>4, <4>1
    <3> QED BY <1>2, <3>1, <3>2, <3>3, <3>4, <3>5, <3>6, <3>7, <3>8, <3>9, <3>10, <3>11
            DEF Tree!Worker
  <2> QED BY <2>3, <2>4
<1>3. ASSUME mode = "test", NEW t \in Tree!Threads, Tree!Worker(t), NEW n \in Tree!Nodes'
      PROVE  tree'[n].key < TreeLoops
  <2>1. CASE Tree!InsertNew(t)
    <3>1. pc[t] = "insWalk" /\ NodeMade(t) /\ Created \in Nat /\ Tree!Nodes = 0..(Created - 1)
      BY <2>1, InsertNewMakes DEF Tree!InsertNew, Tree!Goto, TreeTypes, NodesNumbered
    <3>2. arg[t] = loops[t] /\ loops[t] < TreeLoops
      BY <1>3, <3>1 DEF TreeTested, TreePlaces, TreePhase, Tree!Inserting
    <3>3. n \in Tree!Nodes \/ n = Created
      BY <3>1 DEF NodeMade
    <3>4. tree'[Created].key = arg[t]
      BY <3>1 DEF NodeMade, TreeNewNode
    <3> QED BY <1>0, <1>3, <3>2, <3>3, <3>4 DEF TreeTested
  <2>2. CASE ~Tree!InsertNew(t)
    <3>1. Tree!Nodes' = Tree!Nodes
      BY <1>3, <2>2, InsertLinkMakes, OthersKeep DEF NodeLinked, TreeKept
    <3> QED BY <1>0, <1>3, <3>1 DEF TreeTested
  <2> QED BY <2>1, <2>2
<1>4. CASE UNCHANGED Tree!vars
  BY <1>4 DEF Tree!vars, TreeTested, LinkedNodes, Tree!Nodes, Created, TreePending
<1>5. CASE \E t \in Tree!Threads : Tree!Worker(t)
  BY <1>1, <1>2, <1>3, <1>5 DEF TreeTested
<1> QED BY <1>4, <1>5 DEF Tree!Next, Tree!Ended

LEMMA TreeNext == ASSUME TreeConstants, TreeIInv, [Tree!Next]_(Tree!vars) PROVE TreeIInv'
<1> USE DEF TreeIInv, TreeInv
<1>1. TreeTypes' /\ Tree!TypeOK' /\ Ordered' /\ TreePlaces'
  BY TreeTypesNext, TypeOKNext, OrderedNext, TreePlacesNext
<1>2. HeightHolds'
  BY HeightHoldsNext
<1>3. TreeCounted' /\ TreeTested'
  BY TreeCountedNext, TreeTestedNext
<1> QED BY <1>1, <1>2, <1>3

\* The assertions of worker_test.
LEMMA TreeAsserts ==
  ASSUME TreeConstants, TreeIInv
  PROVE  Tree!WorkerTestAsserts
<1> USE DEF TreeIInv, TreeInv
<1> SUFFICES ASSUME mode = "test"
             PROVE  /\ \A t \in Tree!Threads : pc[t] = "return" =>
                         IF loops[t] < TreeLoops
                         THEN current[t] # Tree!NULL /\ tree[current[t]].key = arg[t]
                         ELSE current[t] = Tree!NULL
                    /\ Tree!AllDone => size = TreeThreads * TreeLoops
  BY DEF Tree!WorkerTestAsserts
<1>1. ASSUME NEW t \in Tree!Threads, pc[t] = "return"
      PROVE  IF loops[t] < TreeLoops
             THEN current[t] # Tree!NULL /\ tree[current[t]].key = arg[t]
             ELSE current[t] = Tree!NULL
  <2>1. current[t] # Tree!NULL => tree[current[t]].key = arg[t] /\ current[t] \in Tree!Nodes
    BY <1>1 DEF TreePlaces, SearchPlace, TreeTypes
  <2>2. loops[t] < TreeLoops => current[t] # Tree!NULL
    BY <1>1 DEF TreeTested
  <2>3. arg[t] = loops[t] /\ loops[t] \in 0..TreeLoops
    BY <1>1 DEF TreeTested, TreeTypes
  <2>4. current[t] # Tree!NULL => arg[t] < TreeLoops
    BY <2>1 DEF TreeTested
  <2> QED BY <2>1, <2>2, <2>3, <2>4
<1>2. ASSUME Tree!AllDone PROVE size = TreeThreads * TreeLoops
  <2>1. \A t \in Tree!Threads : loops[t] = TreeLoops /\ pc[t] = "done"
    BY <1>2 DEF Tree!AllDone, TreePlaces, TreePhase
  <2>2. TreeInserted = Tree!Threads \X (0..(TreeLoops - 1))
    <3>1. \A p \in TreeInsertions : p[1] \in Tree!Threads /\ p[2] < TreeLoops
      BY DEF TreeInsertions, TreeConstants
    <3>2. \A p \in TreeInsertions : p[2] < loops[p[1]]
      BY <2>1, <3>1
    <3> QED BY <3>2 DEF TreeInserted, TreeInsertions
  <2>3. /\ IsFiniteSet(Tree!Threads) /\ Cardinality(Tree!Threads) = TreeThreads
        /\ IsFiniteSet(0..(TreeLoops - 1)) /\ Cardinality(0..(TreeLoops - 1)) = TreeLoops
    <3>1. ASSUME NEW m \in Nat PROVE IsFiniteSet(0..(m - 1)) /\ Cardinality(0..(m - 1)) = m
      <4>1. CASE m = 0
        <5>1. 0..(m - 1) = {}
          BY <4>1
        <5> QED BY <4>1, <5>1, FS_EmptySet
      <4>2. CASE m # 0
        BY <4>2, FS_Interval
      <4> QED BY <4>1, <4>2
    <3> QED BY <3>1 DEF TreeConstants, Tree!Threads
  <2>4. Cardinality(Tree!Threads \X (0..(TreeLoops - 1))) = TreeThreads * TreeLoops
    BY <2>3, FS_Product
  <2> QED BY <2>2, <2>4 DEF TreeCounted
<1> QED BY <1>1, <1>2

\* The tree is one to search in.
LEMMA TreeSearchable ==
  ASSUME TreeConstants, TreeIInv
  PROVE  Tree!Searchable
<1> USE DEF TreeIInv, TreeInv
<1>0. (IF \E t \in Tree!Threads : pc[t] = "insLink"
       THEN Tree!Nodes \ {Cardinality(Tree!Nodes) - 1} ELSE Tree!Nodes) = LinkedNodes
  BY DEF LinkedNodes, TreePending, Created
<1>1. LinkedNodes \subseteq Tree!Nodes /\ \A n \in Tree!Nodes :
        tree[n].key \in Tree!Keys /\ n \in Nat
  BY DEF LinkedNodes, TreeTypes, NodesNumbered
<1>2. ASSUME NEW n \in LinkedNodes
      PROVE  /\ n \in Tree!Path(tree[n].key)
             /\ tree[n].height = Cardinality({m \in LinkedNodes :
                                   m # n /\ m \in Tree!Path(tree[n].key) /\ m < n})
  <2> DEFINE P == Tree!Path(tree[n].key)
  <2>1. n \in P /\ PathHolds(tree[n].key)
    BY <1>1 DEF Ordered
  <2>2. P \subseteq LinkedNodes /\ tree[n].height = Depth(P, n)
    BY <2>1 DEF PathHolds
  <2>3. {m \in LinkedNodes : m # n /\ m \in P /\ m < n} = {m \in P : m < n}
    BY <1>1, <2>2
  <2> QED BY <2>1, <2>2, <2>3 DEF Depth
<1>3. ASSUME \A t \in Tree!Threads : ~Tree!Inserting(t)
      PROVE  /\ size = Cardinality(Tree!Nodes)
             /\ height = IF Tree!Nodes = {} THEN 0
                         ELSE CHOOSE h \in {tree[n].height : n \in Tree!Nodes} :
                                \A n \in Tree!Nodes : tree[n].height <= h
  <2>1. ~Uncounted
    BY <1>3 DEF Uncounted, Tree!Inserting
  <2>2. CountedNodes = Tree!Nodes /\ size = Created
    BY <2>1 DEF CountedNodes, TreeCounted
  <2>3. CASE Tree!Nodes = {}
    BY <2>2, <2>3 DEF HeightHolds, Created
  <2>4. CASE Tree!Nodes # {}
    <3> DEFINE H == {tree[n].height : n \in Tree!Nodes}
               top == CHOOSE h \in H : \A n \in Tree!Nodes : tree[n].height <= h
    <3>1. height \in H /\ \A n \in Tree!Nodes : tree[n].height <= height
      BY <2>2, <2>4 DEF HeightHolds
    <3>2. top \in H /\ \A n \in Tree!Nodes : tree[n].height <= top
      BY <3>1
    <3>3. \A h \in H : h \in Nat
      BY DEF TreeTypes
    <3> HIDE DEF top
    <3>4. top <= height /\ height <= top /\ top \in Nat /\ height \in Nat
      BY <3>1, <3>2, <3>3
    <3>5. height = top
      BY <3>4
    <3> QED BY <2>2, <2>4, <3>5 DEF top, Created
  <2> QED BY <2>3, <2>4
<1> QED BY <1>0, <1>2, <1>3, TreeSize DEF Tree!Searchable

\* The keys of the nodes that are linked, and the insertion that is not counted.
LEMMA LinkedIs == ASSUME TreeInv PROVE Tree!Linked = {tree[n].key : n \in LinkedNodes}
<1>1. UNION {Tree!Path(k) : k \in Tree!Keys} = LinkedNodes
  <2>1. \A k \in Tree!Keys : Tree!Path(k) \subseteq LinkedNodes
    BY DEF TreeInv, Ordered, PathHolds
  <2>2. \A n \in LinkedNodes : n \in Tree!Path(tree[n].key) /\ tree[n].key \in Tree!Keys
    BY DEF TreeInv, Ordered, LinkedNodes, TreeTypes
  <2> QED BY <2>1, <2>2
<1> QED BY <1>1 DEF Tree!Linked

TreeCounting == {t \in Tree!Threads : pc[t] = "insCount"}

LEMMA TreeCountingNext ==
  ASSUME TreeInv, NEW t \in Tree!Threads, Tree!Worker(t)
  PROVE  LET counts == size + Cardinality(TreeCounting)
         IN  counts' = IF Tree!InsertLink(t) THEN counts + 1 ELSE counts
<1>0. size \in Nat
  BY DEF TreeInv, TreeTypes
<1>1. \A u \in Tree!Threads : u # t => pc'[u] = pc[u]
  BY OthersStay DEF TreeInv
<1>2. Tree!Inserting(t) => \A u \in Tree!Threads : u # t => pc[u] # "insCount"
  BY Alone DEF TreeInv, Tree!Inserting
<1>3. CASE Tree!InsertLink(t)
  <2>1. pc[t] = "insLink" /\ pc'[t] = "insCount" /\ size' = size
    BY <1>3 DEF Tree!InsertLink, Tree!Goto, TreeInv, TreeTypes
  <2>2. TreeCounting = {} /\ TreeCounting' = {t}
    BY <1>1, <1>2, <2>1 DEF TreeCounting, Tree!Inserting
  <2>3. Cardinality(TreeCounting) = 0 /\ Cardinality(TreeCounting') = 1
    BY <2>2, FS_EmptySet, FS_Singleton
  <2> QED BY <1>0, <1>3, <2>1, <2>3
<1>4. CASE Tree!InsertCount(t)
  <2>1. pc[t] = "insCount" /\ pc'[t] = "insUnlock" /\ size' = size + 1
    BY <1>4 DEF Tree!InsertCount, Tree!Goto, TreeInv, TreeTypes
  <2>2. TreeCounting = {t} /\ TreeCounting' = {}
    BY <1>1, <1>2, <2>1 DEF TreeCounting, Tree!Inserting
  <2>3. Cardinality(TreeCounting) = 1 /\ Cardinality(TreeCounting') = 0
    BY <2>2, FS_EmptySet, FS_Singleton
  <2>4. ~Tree!InsertLink(t)
    BY <2>1 DEF Tree!InsertLink, Tree!Goto
  <2> QED BY <1>0, <2>1, <2>3, <2>4
<1>5. CASE ~Tree!InsertLink(t) /\ ~Tree!InsertCount(t)
  <2>1. size' = size /\ (pc'[t] = "insCount" <=> pc[t] = "insCount")
    BY <1>5
       DEF Tree!Worker, Tree!Insert, Tree!InsertWalk, Tree!InsertNew, Tree!InsertUnlock,
           Tree!Search, Tree!SearchWalk, 
                Tree!SearchEnd, Tree!SearchReturn, Tree!Return, Tree!Goto, TreeInv, TreeTypes
  <2>2. TreeCounting' = TreeCounting
    BY <1>1, <2>1 DEF TreeCounting
  <2> QED BY <1>5, <2>1, <2>2
<1> QED BY <1>3, <1>4, <1>5

\* Only InsertLink changes what can be found.
LEMMA TreeLinkedNext ==
  ASSUME TreeInv, TreeInv', NEW t \in Tree!Threads, Tree!Worker(t)
  PROVE  Tree!Linked' = IF Tree!InsertLink(t) THEN Tree!Linked \cup {arg[t]} ELSE Tree!Linked
<1>0. /\ Tree!Linked = {tree[n].key : n \in LinkedNodes}
      /\ Tree!Linked' = {tree'[n].key : n \in LinkedNodes'}
  <2>1. TreeInv' => (Tree!Linked = {tree[n].key : n \in LinkedNodes})'
    BY LinkedIs, PTL
  <2> QED BY <2>1, LinkedIs
<1>1. /\ \A n \in Tree!Nodes : tree'[n].key = tree[n].key
      /\ LinkedNodes \subseteq Tree!Nodes
  <2>1. [Tree!Next]_(Tree!vars)
    BY DEF Tree!Next
  <2> QED BY <2>1, NodesKept DEF TreeInv
<1>2. CASE Tree!InsertLink(t)
  <2>1. pc[t] = "insLink"
    BY <1>2 DEF Tree!InsertLink, Tree!Goto
  <2>2. current[t] = Created - 1 /\ current[t] \in Tree!Nodes
    BY <2>1, LastNode DEF TreeInv
  <2>3. LinkedNodes = Tree!Nodes \ {Created - 1} /\ LinkedNodes' = Tree!Nodes
    BY <1>2, StagesNodes DEF TreeInv
  <2>4. tree[current[t]].key = arg[t]
    <3>1. InsertPlace(t)
      BY DEF TreeInv, TreePlaces
    <3>2. tree[current[t]] = TreeNewNode(t)
      BY <2>1, <3>1 DEF InsertPlace, TreeNewNode
    <3> QED BY <3>2 DEF TreeNewNode
  <2>5. Tree!Nodes = LinkedNodes \cup {current[t]}
    BY <2>2, <2>3
  <2>6. Tree!Linked' = {tree[n].key : n \in Tree!Nodes}
    BY <1>0, <1>1, <2>3
  <2>7. {tree[n].key : n \in Tree!Nodes} = Tree!Linked \cup {tree[current[t]].key}
    BY <1>0, <2>5
  <2> QED BY <1>2, <2>4, <2>6, <2>7
<1>3. CASE ~Tree!InsertLink(t)
  <2>1. LinkedNodes' = LinkedNodes
    BY <1>3, StagesNodes DEF TreeInv
  <2> QED BY <1>0, <1>1, <1>3, <2>1
<1> QED BY <1>2, <1>3

\* A thread's answer changes when its search begins and returns.
LEMMA AnswersNext ==
  ASSUME TreeInv, TreeInv', NEW t \in Tree!Threads, Tree!Worker(t), NEW u \in Tree!Threads,
         u = t => ~Tree!Search(t) /\ ~Tree!SearchReturn(t)
  PROVE  Tree!Answer(u)' = Tree!Answer(u)
<1> USE DEF TreeInv
<1>1. CASE u # t
  <2>1. pc'[u] = pc[u] /\ arg'[u] = arg[u] /\ current'[u] = current[u]
    BY <1>1, OthersStay
  <2>2. pc[u] = "seaWalk" => Tree!Linked' = Tree!Linked
    <3>1. Tree!InsertLink(t) => Tree!Inserting(t)
      BY DEF Tree!InsertLink, Tree!Goto, Tree!Inserting
    <3> QED BY <1>1, <3>1, Alone, TreeLinkedNext
  <2> QED BY <2>1, <2>2 DEF Tree!Answer
<1>2. CASE u = t /\ Tree!SearchEnd(t)
  <2>1. /\ pc[t] = "seaWalk" /\ pc'[t] = "return" /\ UNCHANGED <<current, arg>>
        /\ current[t] # Tree!NULL => tree[current[t]].key = arg[t]
    BY <1>2 DEF Tree!SearchEnd, Tree!Goto, TreeTypes, Tree!Arrived
  <2>2. arg[t] \in Tree!Keys /\ PathHolds(arg[t])
    BY DEF TreeTypes, Ordered
  <2>3. current[t] # Tree!NULL => arg[t] \in Tree!Linked
    <3>1. current[t] # Tree!NULL => current[t] \in LinkedNodes
      BY <2>1, <2>2 DEF TreePlaces, SearchPlace, PathHolds
    <3> QED BY <2>1, <3>1, LinkedIs
  <2>4. ASSUME arg[t] \in Tree!Linked, current[t] = Tree!NULL PROVE FALSE
    <3>1. PICK n \in LinkedNodes : tree[n].key = arg[t]
      BY <2>4, LinkedIs
    <3>2. n \in Tree!Path(arg[t])
      BY <3>1 DEF Ordered
    <3> QED BY <2>1, <2>4, <3>1, <3>2 DEF TreePlaces, SearchPlace
  <2> QED BY <1>2, <2>1, <2>3, <2>4 DEF Tree!Answer
<1>3. CASE u = t /\ Tree!SearchWalk(t)
  <2>1. pc[t] = "seaWalk" /\ pc'[t] = "seaWalk" /\ arg' = arg
    BY <1>3 DEF Tree!SearchWalk, Tree!Goto, TreeTypes
  <2>2. Tree!Linked' = Tree!Linked
    BY <2>1, TreeLinkedNext DEF Tree!InsertLink, Tree!Goto
  <2> QED BY <1>3, <2>1, <2>2 DEF Tree!Answer
<1>4. CASE u = t /\ ~Tree!SearchEnd(t) /\ ~Tree!SearchWalk(t)
  <2>1. pc[t] \notin {"seaWalk", "return"} /\ pc'[t] \notin {"seaWalk", "return"}
    BY <1>4
       DEF Tree!Worker, Tree!Insert, Tree!InsertWalk, Tree!InsertNew, Tree!InsertLink,
           Tree!InsertCount, Tree!InsertUnlock, 
                Tree!Return, Tree!Goto, TreeTypes
  <2> QED BY <1>4, <2>1 DEF Tree!Answer
<1> QED BY <1>1, <1>2, <1>3, <1>4

LEMMA TreeAbstractInit == ASSUME TreeConstants, Tree!Init PROVE Tree!Abstract!Init
<1>1. TreeCounting = {} /\ size = 0
  BY DEF Tree!Init, TreeCounting
<1>2. Tree!Linked = {}
  <2>1. TreeInv /\ LinkedNodes = {}
    BY TreeInit DEF TreeIInv, Tree!Init, LinkedNodes, Tree!Nodes
  <2> QED BY <2>1, LinkedIs
<1>3. \A t \in Tree!Threads : Tree!Answer(t) = "none"
  BY DEF Tree!Init, Tree!Answer
<1> QED BY <1>1, <1>2, <1>3, FS_EmptySet, TreeSize
           DEF Tree!Abstract!Init, Tree!Abstract!NoAnswer, TreeCounting

LEMMA TreeAbstractNext ==
  ASSUME TreeConstants, TreeIInv, TreeIInv', [Tree!Next]_(Tree!vars)
  PROVE  [Tree!Abstract!Next]_(Tree!Abstract!vars)
<1>1. ASSUME NEW t \in Tree!Threads, Tree!Worker(t) PROVE [Tree!Abstract!Next]_(Tree!Abstract!vars)
  <2> DEFINE counts == size + Cardinality(TreeCounting)
  <2>1. /\ counts' = IF Tree!InsertLink(t) THEN counts + 1 ELSE counts
        /\ Tree!Linked' = IF Tree!InsertLink(t) THEN Tree!Linked \cup {arg[t]} ELSE Tree!Linked
    BY <1>1, TreeCountingNext, TreeLinkedNext DEF TreeIInv
  <2>2. \A u \in Tree!Threads : (u = t => ~Tree!Search(t) /\ ~Tree!SearchReturn(t)) =>
          Tree!Answer(u)' = Tree!Answer(u)
    BY <1>1, AnswersNext DEF TreeIInv
  <2>3. CASE Tree!InsertLink(t)
    <3>1. pc[t] = "insLink" /\ Tree!Answer(t) = "none" /\ arg[t] \in Tree!Keys
      BY <2>3 DEF Tree!InsertLink, Tree!Goto, Tree!Answer, TreeIInv, TreeInv, TreeTypes
    <3>2. ~Tree!Search(t) /\ ~Tree!SearchReturn(t)
      BY <3>1 DEF Tree!Search, Tree!SearchReturn, Tree!Goto
    <3>3. Tree!Abstract!Insert(t)
      BY <2>1, <2>2, <2>3, <3>1, <3>2, TreeSize
         DEF Tree!Abstract!Insert, Tree!Abstract!NoAnswer, TreeCounting
    <3> QED BY <3>3 DEF Tree!Abstract!Next
  <2>4. CASE Tree!Search(t)
    <3>1. ~Tree!InsertLink(t) /\ ~Tree!SearchReturn(t)
      BY <2>4 DEF Tree!Search, Tree!SearchReturn, Tree!InsertLink, Tree!Goto
    <3>2. Tree!Answer(t) = "none" /\ pc'[t] = "seaWalk" /\ arg'[t] \in Tree!Keys
      BY <2>4 DEF Tree!Search, Tree!Goto, Tree!Answer, TreeIInv, TreeInv, TreeTypes
    <3>3. Tree!Answer(t)' = IF arg'[t] \in Tree!Linked THEN "found" ELSE "missing"
      BY <2>1, <3>1, <3>2 DEF Tree!Answer
    <3>4. Tree!Abstract!Search(t)
      BY <2>1, <2>2, <3>1, <3>2, <3>3, TreeSize
         DEF Tree!Abstract!Search, Tree!Abstract!NoAnswer, TreeCounting
    <3> QED BY <3>4 DEF Tree!Abstract!Next
  <2>5. CASE Tree!SearchReturn(t)
    <3>1. ~Tree!InsertLink(t) /\ ~Tree!Search(t)
      BY <2>5 DEF Tree!Search, Tree!SearchReturn, Tree!InsertLink, Tree!Goto
    <3>2. Tree!Answer(t) # "none" /\ Tree!Answer(t)' = "none"
      BY <2>5 DEF Tree!SearchReturn, Tree!Goto, Tree!Answer, TreeIInv, TreeInv, TreeTypes
    <3>3. Tree!Abstract!Return(t)
      BY <2>1, <2>2, <3>1, <3>2, TreeSize
         DEF Tree!Abstract!Return, Tree!Abstract!NoAnswer, TreeCounting
    <3> QED BY <3>3 DEF Tree!Abstract!Next
  <2>6. CASE ~Tree!InsertLink(t) /\ ~Tree!Search(t) /\ ~Tree!SearchReturn(t)
    BY <2>1, <2>2, <2>6, TreeSize DEF Tree!Abstract!vars, TreeCounting
  <2> QED BY <2>3, <2>4, <2>5, <2>6
<1>2. CASE UNCHANGED Tree!vars
  <2>1. TreeKept
    BY <1>2, TreeKeptIs DEF Tree!vars
  <2>2. Tree!Linked' = Tree!Linked
    BY <1>2, <2>1 DEF Tree!vars, Tree!Linked, TreeKept
  <2> QED BY <1>2, <2>2 DEF Tree!vars, Tree!Abstract!vars, Tree!Answer
<1> QED BY <1>1, <1>2 DEF Tree!Next, Tree!Ended

-----------------------------------------------------------------------------
(* The list.                                                               *)

LEMMA ListSize == \A S : List!Cardinality(S) = Cardinality(S)
BY DEF List!Cardinality, Cardinality

\* The arguments of shared.hpp's main_collection().
ListConstants == ListThreads \in Nat /\ ListLoops \in Nat

NewPCs == {"insLink", "insPublish"}
ListPCs == {"insHead", "insNew", "insLink", "insPublish", "insCount",
            "insUnlock", "insUnlockNext", "insEnd", "seaHead", "seaUnlock"}

ListAllPCs == {"loop", "insHead", "insNew", "insLink", "insPublish",
              "insCount", "insUnlock", "insUnlockNext", "insEnd", "search", "seaHead",
              "seaUnlock", "seaFirst", "seaAt", "seaNext", "seaMove", "return", "done"}

\* A node is made and not yet in the list.
ListPending == \E t \in List!Threads : pc[t] \in NewPCs

ListTypes ==
  /\ mode \in {"test", "interleave"}
  /\ pc \in [List!Threads -> ListAllPCs]
  /\ loops \in [List!Threads -> 0..ListLoops]
  /\ arg \in [List!Threads -> List!Keys]
  /\ node \in [List!Threads -> List!Nodes \cup {List!NULL}]
  /\ mutex \in List!Threads \cup {List!None}
  /\ locked \in [List!Nodes -> List!Threads \cup {List!None}]
  /\ key \in [List!Nodes -> List!Keys \cup {List!NULL}]
  /\ next \in [List!Nodes -> List!Nodes \cup {List!NULL}]

\* insert() and the start of search() have the list to themselves.
ListOwned == \A t \in List!Threads : pc[t] \in ListPCs <=> mutex = t

\* All nodes are in the list but the one that is being inserted.
Linked ==
  /\ head \in Nat
  /\ List!Nodes = IF ListPending THEN 0..(head + 1) ELSE 0..head
  /\ \A n \in 1..head : next[n] = n - 1
  /\ \A n \in List!Nodes \ {List!End} : key[n] \in List!Keys

\* The nodes that thread t has locked.
Has(t, n) ==
  \/ pc[t] \in {"insNew", "insLink", "insPublish", "seaUnlock", "seaFirst"} /\ n = head
  \/ /\ pc[t] \in {"insLink", "insPublish", "insCount", "insUnlock", "seaAt", "seaNext"}
     /\ n = node[t]
  \/ /\ pc[t] \in {"insCount", "insUnlock", "insUnlockNext", "seaNext", "seaMove"}
     /\ n = next[node[t]]

NodesHeld == \A t \in List!Threads : \A n \in List!Nodes : Has(t, n) => locked[n] = t

\* Where the thread that inserts has its node.
Inserting(t) ==
  /\ pc[t] \in NewPCs => node[t] = head + 1 /\ key[node[t]] = arg[t]
  /\ pc[t] = "insPublish" => next[node[t]] = head
  /\ pc[t] \in {"insCount", "insUnlock", "insUnlockNext"} => node[t] = head /\ head # List!End

\* A search is on a node of the list, and goes on only when the node has not
\* its key.
Searching(t) ==
  /\ pc[t] = "seaAt" => node[t] \in 0..head
  /\ pc[t] \in {"seaNext", "seaMove"} => node[t] \in 1..head /\ key[node[t]] # arg[t]
  /\ pc[t] = "return" /\ node[t] # List!NULL => node[t] \in 1..head /\ key[node[t]] = arg[t]

\* An iteration inserts once.
ListPhase(t) ==
  /\ pc[t] \in (ListPCs \ {"seaHead", "seaUnlock"}) \cup {"search"} => loops[t] < ListLoops
  /\ pc[t] = "done" => loops[t] = ListLoops

ListPlaces == \A t \in List!Threads : Inserting(t) /\ Searching(t) /\ ListPhase(t)

\* The insertions done, pairs of a thread and one of its iterations: the list
\* has a node for each.  (So they are counted without a sum over threads.)
ListInsertedPCs == {"insCount", "insUnlock", "insUnlockNext", "insEnd", "search",
  "seaHead", "seaUnlock", "seaFirst", "seaAt", "seaNext", "seaMove", "return"}
ListInsertions == List!Threads \X (0..(ListLoops - 1))
ListInserted ==
  {p \in ListInsertions : \/ p[2] < loops[p[1]]
                          \/ p[2] = loops[p[1]] /\ pc[p[1]] \in ListInsertedPCs}
ListCounting == {t \in List!Threads : pc[t] = "insCount"}

ListCounted ==
  /\ size \in Nat
  /\ head = Cardinality(ListInserted)
  /\ size + Cardinality(ListCounting) = head

\* What a worker of the test looks for is in the part of the list it has not
\* passed, but for the key that nobody inserts.
Found(t) ==
  /\ pc[t] \in ListInsertedPCs \ {"seaAt", "seaNext", "seaMove", "return"} =>
       \E n \in 1..head : key[n] = arg[t]
  /\ List!Walking(t) => \E n \in 1..node[t] : key[n] = arg[t]
  /\ pc[t] = "return" => node[t] # List!NULL

ListTested ==
  mode = "test" =>
    /\ \A t \in List!Threads : pc[t] \notin {"loop", "done"} => arg[t] = loops[t]
    /\ \A n \in List!Nodes \ {List!End} : key[n] < ListLoops
    /\ \A t \in List!Threads : loops[t] < ListLoops => Found(t)

\* The list and its locks.
ListInv == ListTypes /\ ListOwned /\ Linked /\ NodesHeld /\ ListPlaces

LEMMA ListInit == ASSUME ListConstants, List!Init PROVE ListInv
<1>1. ListTypes
  BY DEF ListConstants, List!Init, ListTypes, ListAllPCs, List!Threads, List!Keys, List!Nodes,
         List!End, List!NULL, List!None
<1>2. ListOwned
  BY DEF ListConstants, List!Init, ListOwned, ListPCs, List!Threads, List!None
<1>3. Linked
  BY DEF List!Init, Linked, ListPending, NewPCs, List!Nodes, List!End
<1>4. NodesHeld
  BY DEF List!Init, NodesHeld, Has
<1>5. ListPlaces
  BY DEF List!Init, ListPlaces, Inserting, Searching, ListPhase, NewPCs, ListPCs
<1> QED BY <1>1, <1>2, <1>3, <1>4, <1>5 DEF ListInv

\* What a thread that makes a node changes.
Made(t) ==
  /\ List!Nodes = 0..head /\ List!Nodes' = 0..(head + 1)
  /\ node' = [node EXCEPT ![t] = head + 1]
  /\ key'[head + 1] = arg[t] /\ next'[head + 1] = List!NULL /\ locked'[head + 1] = t
  /\ \A n \in 0..head : key'[n] = key[n] /\ next'[n] = next[n] /\ locked'[n] = locked[n]
  /\ List!Goto(t, "insNew", "insLink") /\ ~ListPending
  /\ UNCHANGED <<mode, loops, arg, mutex, head, size>>

LEMMA ListNewNode ==
  ASSUME ListConstants, ListInv
  PROVE  \A t \in List!Threads : List!InsertNew(t) => Made(t)
<1> SUFFICES ASSUME NEW t \in List!Threads, List!InsertNew(t) PROVE Made(t)
  OBVIOUS
<1>1. ~ListPending
  BY DEF ListInv, ListOwned, ListPending, NewPCs, ListPCs, List!InsertNew, List!Goto
<1>2. List!Nodes = 0..head /\ head \in Nat
  BY <1>1 DEF ListInv, Linked
<1>3. Cardinality(List!Nodes) = head + 1
  BY <1>2, FS_Interval
<1>4. List!Nodes' = List!Nodes \cup {head + 1}
  BY <1>3, ListSize DEF List!InsertNew, List!Nodes
<1>5. List!Nodes' = 0..(head + 1)
  BY <1>2, <1>4
<1>6. /\ key'[head + 1] = arg[t] /\ next'[head + 1] = List!NULL /\ locked'[head + 1] = t
      /\ \A n \in 0..head : key'[n] = key[n] /\ next'[n] = next[n] /\ locked'[n] = locked[n]
  BY <1>2, <1>3, <1>4, ListSize DEF List!InsertNew
<1> QED BY <1>1, <1>2, <1>3, <1>5, <1>6, ListSize DEF List!InsertNew, Made

LEMMA ListOwnedNext ==
  ASSUME ListConstants, ListInv, [List!Next]_(List!vars)
  PROVE  ListOwned'
<1> USE DEF ListOwned, ListPCs, ListTypes, List!Goto
<1>1. ASSUME NEW t \in List!Threads, List!Worker(t) PROVE ListOwned'
  <2> USE <1>1 DEF ListInv, List!Lock, List!Unlock, List!None, ListConstants, List!Threads
  <2>1. CASE List!Insert(t) BY <2>1 DEF List!Insert
  <2>2. CASE List!InsertLockHead(t) BY <2>2 DEF List!InsertLockHead
  <2>3. CASE List!InsertNew(t) BY <2>3 DEF List!InsertNew
  <2>4. CASE List!InsertLink(t) BY <2>4 DEF List!InsertLink
  <2>5. CASE List!InsertPublish(t) BY <2>5 DEF List!InsertPublish
  <2>6. CASE List!InsertCount(t) BY <2>6 DEF List!InsertCount
  <2>7. CASE List!InsertUnlockNode(t) BY <2>7 DEF List!InsertUnlockNode
  <2>8. CASE List!InsertUnlockNext(t) BY <2>8 DEF List!InsertUnlockNext
  <2>9. CASE List!InsertEnd(t) BY <2>9 DEF List!InsertEnd
  <2>10. CASE List!Search(t) BY <2>10 DEF List!Search
  <2>11. CASE List!SearchLockHead(t) BY <2>11 DEF List!SearchLockHead
  <2>12. CASE List!SearchUnlock(t) BY <2>12 DEF List!SearchUnlock
  <2>13. CASE List!SearchFirst(t) BY <2>13 DEF List!SearchFirst
  <2>14. CASE List!SearchNext(t) BY <2>14 DEF List!SearchNext
  <2>15. CASE List!SearchUnlockThis(t) BY <2>15 DEF List!SearchUnlockThis
  <2>16. CASE List!SearchMove(t) BY <2>16 DEF List!SearchMove
  <2>17. CASE List!SearchEnd(t) BY <2>17 DEF List!SearchEnd
  <2>18. CASE List!SearchReturn(t) BY <2>18 DEF List!SearchReturn
  <2>19. CASE List!Return(t) BY <2>19 DEF List!Return
  <2> QED BY <2>1, <2>2, <2>3, <2>4, <2>5, <2>6, <2>7, <2>8, <2>9, <2>10, <2>11,
             <2>12, <2>13, <2>14, <2>15, <2>16, <2>17, <2>18, <2>19 DEF List!Worker
<1>2. CASE UNCHANGED List!vars
  BY <1>2 DEF List!vars, ListInv
<1> QED BY <1>1, <1>2 DEF List!Next, List!Ended

LEMMA ListTypesNext ==
  ASSUME ListConstants, ListInv, [List!Next]_(List!vars)
  PROVE  ListTypes'
<1>1. ASSUME NEW t \in List!Threads, List!Worker(t) PROVE ListTypes'
  <2> USE <1>1
      DEF ListInv, ListTypes, ListAllPCs, List!Lock, List!Unlock, List!LockNode,
          List!UnlockNode, ListConstants,
          List!Threads, List!Keys, List!NULL, List!None, List!Nodes, List!End, Linked, List!Goto
  <2>1. CASE List!Insert(t) BY <2>1 DEF List!Insert
  <2>2. CASE List!InsertLockHead(t) BY <2>2 DEF List!InsertLockHead
  <2>3. CASE List!InsertNew(t) BY <2>3 DEF List!InsertNew
  <2>4. CASE List!InsertLink(t)
    <3>1. head \in List!Nodes
            /\ UNCHANGED <<mode, loops, arg, node, mutex, locked, head, size, key>>
      BY <2>4 DEF List!InsertLink
    <3>2. next' \in [List!Nodes -> List!Nodes \cup {List!NULL}]
      BY <2>4, <3>1 DEF List!InsertLink
    <3>3. pc' \in [List!Threads -> ListAllPCs]
      BY <2>4 DEF List!InsertLink
    <3> QED BY <3>1, <3>2, <3>3
  <2>5. CASE List!InsertPublish(t) BY <2>5 DEF List!InsertPublish
  <2>6. CASE List!InsertCount(t) BY <2>6 DEF List!InsertCount
  <2>7. CASE List!InsertUnlockNode(t) BY <2>7 DEF List!InsertUnlockNode
  <2>8. CASE List!InsertUnlockNext(t) BY <2>8 DEF List!InsertUnlockNext
  <2>9. CASE List!InsertEnd(t) BY <2>9 DEF List!InsertEnd
  <2>10. CASE List!Search(t)
    <3>1. arg' \in [List!Threads -> List!Keys]
      <4>1. PICK k \in List!Keys : arg' = [arg EXCEPT ![t] = k]
        BY <2>10 DEF List!Search
      <4> QED BY <4>1
    <3> QED BY <2>10, <3>1 DEF List!Search
  <2>11. CASE List!SearchLockHead(t) BY <2>11 DEF List!SearchLockHead
  <2>12. CASE List!SearchUnlock(t) BY <2>12 DEF List!SearchUnlock
  <2>13. CASE List!SearchFirst(t) BY <2>13 DEF List!SearchFirst
  <2>14. CASE List!SearchNext(t) BY <2>14 DEF List!SearchNext
  <2>15. CASE List!SearchUnlockThis(t) BY <2>15 DEF List!SearchUnlockThis
  <2>16. CASE List!SearchMove(t)
    <3>1. next[node[t]] \in List!Nodes
      BY <2>16 DEF List!SearchMove, ListPlaces, Searching
    <3> QED BY <2>16, <3>1 DEF List!SearchMove
  <2>17. CASE List!SearchEnd(t) BY <2>17 DEF List!SearchEnd
  <2>18. CASE List!SearchReturn(t)
    <3>1. loops' \in [List!Threads -> 0..ListLoops] /\ pc' \in [List!Threads -> ListAllPCs]
      <4>1. CASE loops[t] = ListLoops
        BY <2>18, <4>1 DEF List!SearchReturn
      <4>2. CASE loops[t] # ListLoops
        <5>1. loops[t] + 1 \in 0..ListLoops
          BY <4>2
        <5> QED BY <2>18, <4>2, <5>1 DEF List!SearchReturn
      <4> QED BY <4>1, <4>2
    <3>2. node' \in [List!Threads -> List!Nodes \cup {List!NULL}]
      BY <2>18 DEF List!SearchReturn
    <3> QED BY <2>18, <3>1, <3>2 DEF List!SearchReturn
  <2>19. CASE List!Return(t) BY <2>19 DEF List!Return
  <2> QED BY <2>1, <2>2, <2>3, <2>4, <2>5, <2>6, <2>7, <2>8, <2>9, <2>10,
             <2>11, <2>12, <2>13, <2>14, <2>15, <2>16, <2>17, <2>18, <2>19 DEF List!Worker
<1>2. CASE UNCHANGED List!vars
  BY <1>2
      DEF List!vars, ListInv, ListTypes, ListAllPCs, List!Lock, List!Unlock, List!LockNode,
          List!UnlockNode,
          ListConstants, List!Threads, List!Keys, List!NULL, List!None, List!Nodes, List!End, Linked
<1> QED BY <1>1, <1>2 DEF List!Next, List!Ended

LEMMA ListPlacesNext ==
  ASSUME ListConstants, ListInv, [List!Next]_(List!vars)
  PROVE  ListPlaces'
<1>0. \A t \in List!Threads : List!InsertNew(t) => Made(t)
  BY ListNewNode
<1>1. ASSUME NEW t \in List!Threads, List!Worker(t) PROVE ListPlaces'
  <2> USE <1>1
      DEF ListInv, ListTypes, ListPlaces, Inserting, Searching, ListPhase, NewPCs, ListPCs,
          List!Nodes, List!NULL, List!End, Linked, ListOwned, NodesHeld, Has, List!Stop, List!Goto
  <2>1. CASE List!Insert(t) BY <2>1 DEF List!Insert
  <2>2. CASE List!InsertLockHead(t) BY <2>2 DEF List!InsertLockHead
  <2>3. CASE List!InsertNew(t)
    <3> USE <1>0, <2>3 DEF Made
    <3>1. ASSUME NEW u \in List!Threads PROVE Inserting(u)' /\ Searching(u)' /\ ListPhase(u)'
      <4>1. CASE u = t
        <5>1. pc'[t] = "insLink" /\ node'[t] = head + 1 /\ key'[head + 1] = arg[t]
          OBVIOUS
        <5> QED BY <4>1, <5>1
      <4>2. CASE u # t
        <5>1. pc'[u] = pc[u] /\ node'[u] = node[u] /\ pc[u] \notin NewPCs
          BY <4>2
        <5> QED BY <4>2, <5>1
      <4> QED BY <4>1, <4>2
    <3> QED BY <3>1
  <2>4. CASE List!InsertLink(t) BY <2>4 DEF List!InsertLink
  <2>5. CASE List!InsertPublish(t) BY <2>5 DEF List!InsertPublish
  <2>6. CASE List!InsertCount(t) BY <2>6 DEF List!InsertCount
  <2>7. CASE List!InsertUnlockNode(t) BY <2>7 DEF List!InsertUnlockNode
  <2>8. CASE List!InsertUnlockNext(t) BY <2>8 DEF List!InsertUnlockNext
  <2>9. CASE List!InsertEnd(t) BY <2>9 DEF List!InsertEnd
  <2>10. CASE List!Search(t) BY <2>10 DEF List!Search
  <2>11. CASE List!SearchLockHead(t) BY <2>11 DEF List!SearchLockHead
  <2>12. CASE List!SearchUnlock(t) BY <2>12 DEF List!SearchUnlock
  <2>13. CASE List!SearchFirst(t) BY <2>13 DEF List!SearchFirst
  <2>14. CASE List!SearchNext(t) BY <2>14 DEF List!SearchNext
  <2>15. CASE List!SearchUnlockThis(t) BY <2>15 DEF List!SearchUnlockThis
  <2>16. CASE List!SearchMove(t) BY <2>16 DEF List!SearchMove
  <2>17. CASE List!SearchEnd(t) BY <2>17 DEF List!SearchEnd
  <2>18. CASE List!SearchReturn(t) BY <2>18 DEF List!SearchReturn
  <2>19. CASE List!Return(t) BY <2>19 DEF List!Return
  <2> QED BY <2>1, <2>2, <2>3, <2>4, <2>5, <2>6, <2>7, <2>8, <2>9, <2>10,
             <2>11, <2>12, <2>13, <2>14, <2>15, <2>16, <2>17, <2>18, <2>19 DEF List!Worker
<1>2. CASE UNCHANGED List!vars
  BY <1>2
      DEF List!vars, ListInv, ListTypes, ListPlaces, Inserting, Searching, ListPhase, NewPCs,
          ListPCs, List!Nodes, List!NULL, List!End, Linked, ListOwned, NodesHeld, Has, List!Stop
<1> QED BY <1>1, <1>2 DEF List!Next, List!Ended

LEMMA ListLinkedNext ==
  ASSUME ListConstants, ListInv, [List!Next]_(List!vars)
  PROVE  Linked'
<1>0. \A t \in List!Threads : List!InsertNew(t) => Made(t)
  BY ListNewNode
<1>1. ASSUME NEW t \in List!Threads, List!Worker(t) PROVE Linked'
  <2> USE <1>1
      DEF ListInv, ListTypes, ListPlaces, Inserting, NewPCs, ListPCs, List!Nodes, List!NULL,
          List!End,
          Linked, ListOwned, ListPending, List!Goto
  <2>1. CASE List!Insert(t) BY <2>1 DEF List!Insert
  <2>2. CASE List!InsertLockHead(t) BY <2>2 DEF List!InsertLockHead
  <2>3. CASE List!InsertNew(t)
    <3>1. Made(t)
      BY <1>0, <2>3
    <3>2. head' = head /\ ListPending'
      BY <3>1 DEF Made
    <3>3. \A n \in 1..head : next'[n] = n - 1
      BY <3>1 DEF Made
    <3>4. ASSUME NEW n \in List!Nodes' \ {List!End} PROVE key'[n] \in List!Keys
      <4>1. List!Nodes' = 0..(head + 1) /\ List!Nodes = 0..head /\ key'[head + 1] = arg[t]
        BY <3>1 DEF Made
      <4>2. CASE n \in 0..head
        BY <3>1, <4>1, <4>2 DEF Made
      <4>3. CASE n = head + 1
        BY <4>1, <4>3
      <4> QED BY <4>1, <4>2, <4>3
    <3> QED BY <3>1, <3>2, <3>3, <3>4 DEF Made
  <2>4. CASE List!InsertLink(t) BY <2>4 DEF List!InsertLink
  <2>5. CASE List!InsertPublish(t) BY <2>5 DEF List!InsertPublish
  <2>6. CASE List!InsertCount(t) BY <2>6 DEF List!InsertCount
  <2>7. CASE List!InsertUnlockNode(t) BY <2>7 DEF List!InsertUnlockNode
  <2>8. CASE List!InsertUnlockNext(t) BY <2>8 DEF List!InsertUnlockNext
  <2>9. CASE List!InsertEnd(t) BY <2>9 DEF List!InsertEnd
  <2>10. CASE List!Search(t) BY <2>10 DEF List!Search
  <2>11. CASE List!SearchLockHead(t) BY <2>11 DEF List!SearchLockHead
  <2>12. CASE List!SearchUnlock(t) BY <2>12 DEF List!SearchUnlock
  <2>13. CASE List!SearchFirst(t) BY <2>13 DEF List!SearchFirst
  <2>14. CASE List!SearchNext(t) BY <2>14 DEF List!SearchNext
  <2>15. CASE List!SearchUnlockThis(t) BY <2>15 DEF List!SearchUnlockThis
  <2>16. CASE List!SearchMove(t) BY <2>16 DEF List!SearchMove
  <2>17. CASE List!SearchEnd(t) BY <2>17 DEF List!SearchEnd
  <2>18. CASE List!SearchReturn(t) BY <2>18 DEF List!SearchReturn
  <2>19. CASE List!Return(t) BY <2>19 DEF List!Return
  <2> QED BY <2>1, <2>2, <2>3, <2>4, <2>5, <2>6, <2>7, <2>8, <2>9, <2>10,
             <2>11, <2>12, <2>13, <2>14, <2>15, <2>16, <2>17, <2>18, <2>19 DEF List!Worker
<1>2. CASE UNCHANGED List!vars
  BY <1>2
      DEF List!vars, ListInv, ListTypes, ListPlaces, Inserting, NewPCs, ListPCs, List!Nodes,
          List!NULL,
          List!End, Linked, ListOwned, ListPending
<1> QED BY <1>1, <1>2 DEF List!Next, List!Ended

LEMMA NodesHeldNext ==
  ASSUME ListConstants, ListInv, [List!Next]_(List!vars)
  PROVE  NodesHeld'
<1>0. \A t \in List!Threads : List!InsertNew(t) => Made(t)
  BY ListNewNode
<1>1. ASSUME NEW t \in List!Threads, List!Worker(t) PROVE NodesHeld'
  <2> USE <1>1
      DEF ListInv, ListTypes, ListPlaces, Inserting, Searching, List!LockNode, List!UnlockNode,
          NewPCs, ListPCs, List!Nodes, List!NULL, List!End, Linked, ListOwned, NodesHeld, Has,
          List!Stop,
          List!Goto
  <2>1. CASE List!Insert(t) BY <2>1 DEF List!Insert
  <2>2. CASE List!InsertLockHead(t)
    <3>1. ASSUME NEW u \in List!Threads, NEW n \in List!Nodes, Has(u, n)'
          PROVE  locked'[n] = u
      <4>0. head \in List!Nodes
        BY <2>2 DEF List!InsertLockHead
      <4>1. locked[head] = List!None /\ locked' = [locked EXCEPT ![head] = t]
        BY <2>2 DEF List!InsertLockHead
      <4>2. CASE u = t
        BY <2>2, <3>1, <4>0, <4>1, <4>2 DEF List!InsertLockHead
      <4>3. CASE u # t
        <5>1. Has(u, n)
          BY <2>2, <3>1, <4>3 DEF List!InsertLockHead
        <5> QED BY <4>0, <4>1, <5>1 DEF List!None, List!Threads, ListConstants
      <4> QED BY <4>2, <4>3
    <3>2. List!Nodes' = List!Nodes
      BY <2>2 DEF List!InsertLockHead
    <3> QED BY <3>1, <3>2
  <2>3. CASE List!InsertNew(t)
    <3> USE <1>0, <2>3 DEF Made
    <3>1. ASSUME NEW u \in List!Threads, NEW n \in 0..(head + 1), Has(u, n)'
          PROVE  locked'[n] = u
      <4>1. CASE u = t
        BY <3>1, <4>1
      <4>2. CASE u # t
        <5>1. pc'[u] = pc[u] /\ node'[u] = node[u] /\ pc[u] \notin NewPCs
          BY <4>2
        <5>2. n \in 0..head /\ Has(u, n)
          BY <3>1, <4>2, <5>1
        <5> QED BY <5>2
      <4> QED BY <4>1, <4>2
    <3> QED BY <3>1
  <2>4. CASE List!InsertLink(t) BY <2>4 DEF List!InsertLink
  <2>5. CASE List!InsertPublish(t) BY <2>5 DEF List!InsertPublish
  <2>6. CASE List!InsertCount(t) BY <2>6 DEF List!InsertCount
  <2>7. CASE List!InsertUnlockNode(t) BY <2>7 DEF List!InsertUnlockNode
  <2>8. CASE List!InsertUnlockNext(t) BY <2>8 DEF List!InsertUnlockNext
  <2>9. CASE List!InsertEnd(t) BY <2>9 DEF List!InsertEnd
  <2>10. CASE List!Search(t) BY <2>10 DEF List!Search
  <2>11. CASE List!SearchLockHead(t)
    <3>1. ASSUME NEW u \in List!Threads, NEW n \in List!Nodes, Has(u, n)'
          PROVE  locked'[n] = u
      <4>0. head \in List!Nodes
        BY <2>11 DEF List!SearchLockHead
      <4>1. locked[head] = List!None /\ locked' = [locked EXCEPT ![head] = t]
        BY <2>11 DEF List!SearchLockHead
      <4>2. CASE u = t
        BY <2>11, <3>1, <4>0, <4>1, <4>2 DEF List!SearchLockHead
      <4>3. CASE u # t
        <5>1. Has(u, n)
          BY <2>11, <3>1, <4>3 DEF List!SearchLockHead
        <5> QED BY <4>0, <4>1, <5>1 DEF List!None, List!Threads, ListConstants
      <4> QED BY <4>2, <4>3
    <3>2. List!Nodes' = List!Nodes
      BY <2>11 DEF List!SearchLockHead
    <3> QED BY <3>1, <3>2
  <2>12. CASE List!SearchUnlock(t) BY <2>12 DEF List!SearchUnlock
  <2>13. CASE List!SearchFirst(t) BY <2>13 DEF List!SearchFirst
  <2>14. CASE List!SearchNext(t)
    <3>1. ASSUME NEW u \in List!Threads, NEW n \in List!Nodes, Has(u, n)'
          PROVE  locked'[n] = u
      <4>0. next[node[t]] \in List!Nodes
        BY <2>14 DEF List!SearchNext
      <4>1. locked[next[node[t]]] = List!None /\ locked' = [locked EXCEPT ![next[node[t]]] = t]
        BY <2>14 DEF List!SearchNext
      <4>2. CASE u = t
        BY <2>14, <3>1, <4>0, <4>1, <4>2 DEF List!SearchNext
      <4>3. CASE u # t
        <5>1. Has(u, n)
          BY <2>14, <3>1, <4>3 DEF List!SearchNext
        <5> QED BY <4>0, <4>1, <5>1 DEF List!None, List!Threads, ListConstants
      <4> QED BY <4>2, <4>3
    <3>2. List!Nodes' = List!Nodes
      BY <2>14 DEF List!SearchNext
    <3> QED BY <3>1, <3>2
  <2>15. CASE List!SearchUnlockThis(t) BY <2>15 DEF List!SearchUnlockThis
  <2>16. CASE List!SearchMove(t) BY <2>16 DEF List!SearchMove
  <2>17. CASE List!SearchEnd(t) BY <2>17 DEF List!SearchEnd
  <2>18. CASE List!SearchReturn(t) BY <2>18 DEF List!SearchReturn
  <2>19. CASE List!Return(t) BY <2>19 DEF List!Return
  <2> QED BY <2>1, <2>2, <2>3, <2>4, <2>5, <2>6, <2>7, <2>8, <2>9, <2>10,
             <2>11, <2>12, <2>13, <2>14, <2>15, <2>16, <2>17, <2>18, <2>19 DEF List!Worker
<1>2. CASE UNCHANGED List!vars
  BY <1>2
      DEF List!vars, ListInv, ListTypes, ListPlaces, Inserting, Searching, List!LockNode,
          List!UnlockNode, NewPCs, ListPCs, List!Nodes, List!NULL, List!End, Linked, ListOwned,
          NodesHeld,
          Has, List!Stop
<1> QED BY <1>1, <1>2 DEF List!Next, List!Ended

LEMMA FiniteInserted ==
  ASSUME ListConstants
  PROVE  /\ IsFiniteSet(ListInsertions) /\ Cardinality(ListInsertions) = ListThreads * ListLoops
         /\ IsFiniteSet(ListInserted)
<1>1. /\ IsFiniteSet(List!Threads) /\ Cardinality(List!Threads) = ListThreads
      /\ IsFiniteSet(0..(ListLoops - 1)) /\ Cardinality(0..(ListLoops - 1)) = ListLoops
  BY FS_Interval DEF ListConstants, List!Threads
<1>2. IsFiniteSet(ListInsertions) /\ Cardinality(ListInsertions) = ListThreads * ListLoops
  BY <1>1, FS_Product DEF ListInsertions
<1>3. ListInserted \subseteq ListInsertions
  BY DEF ListInserted
<1> QED BY <1>2, <1>3, FS_Subset

LEMMA ListCountedNext ==
  ASSUME ListConstants, ListInv, ListCounted, [List!Next]_(List!vars)
  PROVE  ListCounted'
<1>0. IsFiniteSet(ListInserted)
  BY FiniteInserted
<1>1. ASSUME NEW t \in List!Threads, List!Worker(t) PROVE ListCounted'
  <2> USE <1>1
      DEF ListInv, ListTypes, ListInsertedPCs, ListInsertions, List!Keys, Linked, ListPCs,
          ListConstants, ListPlaces, ListPhase, List!Goto
  <2>1. CASE List!Insert(t)
    <3>1. ListInserted' = ListInserted
      BY <2>1 DEF List!Insert, ListInserted
    <3>2. ListCounting' = ListCounting /\ UNCHANGED <<size, head>>
      BY <2>1 DEF List!Insert, ListCounting
    <3> QED BY <3>1, <3>2 DEF ListCounted
  <2>2. CASE List!InsertLockHead(t)
    <3>1. ListInserted' = ListInserted
      BY <2>2 DEF List!InsertLockHead, ListInserted
    <3>2. ListCounting' = ListCounting /\ UNCHANGED <<size, head>>
      BY <2>2 DEF List!InsertLockHead, ListCounting
    <3> QED BY <3>1, <3>2 DEF ListCounted
  <2>3. CASE List!InsertNew(t)
    <3>1. ListInserted' = ListInserted
      BY <2>3 DEF List!InsertNew, ListInserted
    <3>2. ListCounting' = ListCounting /\ UNCHANGED <<size, head>>
      BY <2>3 DEF List!InsertNew, ListCounting
    <3> QED BY <3>1, <3>2 DEF ListCounted
  <2>4. CASE List!InsertLink(t)
    <3>1. ListInserted' = ListInserted
      BY <2>4 DEF List!InsertLink, ListInserted
    <3>2. ListCounting' = ListCounting /\ UNCHANGED <<size, head>>
      BY <2>4 DEF List!InsertLink, ListCounting
    <3> QED BY <3>1, <3>2 DEF ListCounted
  <2>5. CASE List!InsertPublish(t)
    <3>1. ListCounting = {} /\ ListCounting' = {t}
      BY <2>5 DEF List!InsertPublish, ListCounting, ListOwned
    <3>2. <<t, loops[t]>> \in ListInsertions \ ListInserted
      BY <2>5 DEF List!InsertPublish, ListInserted, ListPlaces, ListPhase
    <3>3. ListInserted' = ListInserted \cup {<<t, loops[t]>>}
      BY <2>5, <3>2 DEF List!InsertPublish, ListInserted
    <3>4. Cardinality(ListInserted') = Cardinality(ListInserted) + 1
      BY <1>0, <3>2, <3>3, FS_AddElement
    <3>5. size' = size /\ head' = head + 1
      BY <2>5 DEF List!InsertPublish, ListPlaces, Inserting, NewPCs
    <3>6. Cardinality({}) = 0 /\ Cardinality({t}) = 1
      BY FS_EmptySet, FS_Singleton
    <3> QED BY <3>1, <3>4, <3>5, <3>6 DEF ListCounted
  <2>6. CASE List!InsertCount(t)
    <3>1. ListCounting = {t} /\ ListCounting' = {}
      BY <2>6 DEF List!InsertCount, ListCounting, ListOwned
    <3>2. ListInserted' = ListInserted
      BY <2>6 DEF List!InsertCount, ListInserted
    <3>3. size' = size + 1 /\ head' = head
      BY <2>6 DEF List!InsertCount
    <3>4. Cardinality({}) = 0 /\ Cardinality({t}) = 1
      BY FS_EmptySet, FS_Singleton
    <3> QED BY <3>1, <3>2, <3>3, <3>4 DEF ListCounted
  <2>7. CASE List!InsertUnlockNode(t)
    <3>1. ListInserted' = ListInserted
      BY <2>7 DEF List!InsertUnlockNode, ListInserted
    <3>2. ListCounting' = ListCounting /\ UNCHANGED <<size, head>>
      BY <2>7 DEF List!InsertUnlockNode, ListCounting
    <3> QED BY <3>1, <3>2 DEF ListCounted
  <2>8. CASE List!InsertUnlockNext(t)
    <3>1. ListInserted' = ListInserted
      BY <2>8 DEF List!InsertUnlockNext, ListInserted
    <3>2. ListCounting' = ListCounting /\ UNCHANGED <<size, head>>
      BY <2>8 DEF List!InsertUnlockNext, ListCounting
    <3> QED BY <3>1, <3>2 DEF ListCounted
  <2>9. CASE List!InsertEnd(t)
    <3>1. ListInserted' = ListInserted
      BY <2>9 DEF List!InsertEnd, ListInserted
    <3>2. ListCounting' = ListCounting /\ UNCHANGED <<size, head>>
      BY <2>9 DEF List!InsertEnd, ListCounting
    <3> QED BY <3>1, <3>2 DEF ListCounted
  <2>10. CASE List!Search(t)
    <3>1. ListInserted' = ListInserted
      BY <2>10 DEF List!Search, ListInserted
    <3>2. ListCounting' = ListCounting /\ UNCHANGED <<size, head>>
      BY <2>10 DEF List!Search, ListCounting
    <3> QED BY <3>1, <3>2 DEF ListCounted
  <2>11. CASE List!SearchLockHead(t)
    <3>1. ListInserted' = ListInserted
      BY <2>11 DEF List!SearchLockHead, ListInserted
    <3>2. ListCounting' = ListCounting /\ UNCHANGED <<size, head>>
      BY <2>11 DEF List!SearchLockHead, ListCounting
    <3> QED BY <3>1, <3>2 DEF ListCounted
  <2>12. CASE List!SearchUnlock(t)
    <3>1. ListInserted' = ListInserted
      BY <2>12 DEF List!SearchUnlock, ListInserted
    <3>2. ListCounting' = ListCounting /\ UNCHANGED <<size, head>>
      BY <2>12 DEF List!SearchUnlock, ListCounting
    <3> QED BY <3>1, <3>2 DEF ListCounted
  <2>13. CASE List!SearchFirst(t)
    <3>1. ListInserted' = ListInserted
      BY <2>13 DEF List!SearchFirst, ListInserted
    <3>2. ListCounting' = ListCounting /\ UNCHANGED <<size, head>>
      BY <2>13 DEF List!SearchFirst, ListCounting
    <3> QED BY <3>1, <3>2 DEF ListCounted
  <2>14. CASE List!SearchNext(t)
    <3>1. ListInserted' = ListInserted
      BY <2>14 DEF List!SearchNext, ListInserted
    <3>2. ListCounting' = ListCounting /\ UNCHANGED <<size, head>>
      BY <2>14 DEF List!SearchNext, ListCounting
    <3> QED BY <3>1, <3>2 DEF ListCounted
  <2>15. CASE List!SearchUnlockThis(t)
    <3>1. ListInserted' = ListInserted
      BY <2>15 DEF List!SearchUnlockThis, ListInserted
    <3>2. ListCounting' = ListCounting /\ UNCHANGED <<size, head>>
      BY <2>15 DEF List!SearchUnlockThis, ListCounting
    <3> QED BY <3>1, <3>2 DEF ListCounted
  <2>16. CASE List!SearchMove(t)
    <3>1. ListInserted' = ListInserted
      BY <2>16 DEF List!SearchMove, ListInserted
    <3>2. ListCounting' = ListCounting /\ UNCHANGED <<size, head>>
      BY <2>16 DEF List!SearchMove, ListCounting
    <3> QED BY <3>1, <3>2 DEF ListCounted
  <2>17. CASE List!SearchEnd(t)
    <3>1. ListInserted' = ListInserted
      BY <2>17 DEF List!SearchEnd, ListInserted
    <3>2. ListCounting' = ListCounting /\ UNCHANGED <<size, head>>
      BY <2>17 DEF List!SearchEnd, ListCounting
    <3> QED BY <3>1, <3>2 DEF ListCounted
  <2>18. CASE List!SearchReturn(t)
    <3>1. ListInserted' = ListInserted
      BY <2>18 DEF List!SearchReturn, ListInserted
    <3>2. ListCounting' = ListCounting /\ UNCHANGED <<size, head>>
      BY <2>18 DEF List!SearchReturn, ListCounting
    <3> QED BY <3>1, <3>2 DEF ListCounted
  <2>19. CASE List!Return(t)
    <3>1. ListInserted' = ListInserted
      BY <2>19 DEF List!Return, ListInserted
    <3>2. ListCounting' = ListCounting /\ UNCHANGED <<size, head>>
      BY <2>19 DEF List!Return, ListCounting
    <3> QED BY <3>1, <3>2 DEF ListCounted
  <2> QED BY <2>1, <2>2, <2>3, <2>4, <2>5, <2>6, <2>7, <2>8, <2>9, <2>10,
             <2>11, <2>12, <2>13, <2>14, <2>15, <2>16, <2>17, <2>18, <2>19 DEF List!Worker
<1>2. CASE UNCHANGED List!vars
  BY <1>2
      DEF List!vars, ListCounted, ListInserted, ListCounting, ListInv, ListTypes, ListInsertedPCs,
          ListInsertions, List!Keys, Linked, ListPCs, ListConstants, ListPlaces, ListPhase
<1> QED BY <1>1, <1>2 DEF List!Next, List!Ended

LEMMA ListTestedNext ==
  ASSUME ListConstants, ListInv, ListTested, [List!Next]_(List!vars)
  PROVE  ListTested'
<1>0. \A t \in List!Threads : List!InsertNew(t) => Made(t)
  BY ListNewNode
<1>1. ASSUME NEW t \in List!Threads, List!Worker(t) PROVE ListTested'
  <2> USE <1>1
      DEF ListInv, ListTypes, ListTested, Found, ListInsertedPCs, Linked, ListPlaces, Inserting,
          Searching, ListPhase, ListConstants, List!Walking, List!NULL, List!End, List!Keys,
          ListOwned,
          NodesHeld, Has, ListPCs, NewPCs, List!Nodes, List!Stop, List!Goto
  <2>1. CASE List!Insert(t)
    <3> SUFFICES ASSUME mode = "test" PROVE ListTested'
      BY <2>1 DEF List!Insert
    <3>1. \A u \in List!Threads : pc'[u] \notin {"loop", "done"} => arg'[u] = loops'[u]
      BY <2>1 DEF List!Insert
    <3>2. \A n \in List!Nodes' \ {List!End} : key'[n] < ListLoops
      BY <2>1 DEF List!Insert
    <3>3. ASSUME NEW u \in List!Threads, loops'[u] < ListLoops PROVE Found(u)'
      <4>1. CASE u = t
        BY <2>1, <3>3, <4>1 DEF List!Insert
      <4>2. CASE u # t
        <5>1. loops[u] < ListLoops /\ Found(u)
          BY <2>1, <3>3, <4>2 DEF List!Insert
        <5> QED BY <2>1, <4>2, <5>1 DEF List!Insert
      <4> QED BY <4>1, <4>2
    <3> QED BY <3>1, <3>2, <3>3
  <2>2. CASE List!InsertLockHead(t) BY <2>2 DEF List!InsertLockHead
  <2>3. CASE List!InsertNew(t)
    <3> SUFFICES ASSUME mode = "test" PROVE ListTested'
      BY <2>3 DEF List!InsertNew
    <3>0. Made(t)
      BY <1>0, <2>3
    <3>1. \A u \in List!Threads : pc'[u] \notin {"loop", "done"} => arg'[u] = loops'[u]
      BY <3>0 DEF Made
    <3>2. \A n \in List!Nodes' \ {List!End} : key'[n] < ListLoops
      <4>1. /\ List!Nodes' = 0..(head + 1) /\ List!Nodes = 0..head
            /\ key'[head + 1] = loops[t] /\ loops[t] < ListLoops
        BY <3>0 DEF Made
      <4>2. \A n \in 1..head : key'[n] < ListLoops
        BY <3>0, <4>1 DEF Made
      <4>3. head \in Nat /\ List!Nodes' \ {List!End} = 1..head \cup {head + 1}
        BY <4>1
      <4> QED BY <4>1, <4>2, <4>3
    <3>3. ASSUME NEW u \in List!Threads, loops'[u] < ListLoops PROVE Found(u)'
      <4>1. CASE u = t
        BY <3>0, <3>3, <4>1 DEF Made
      <4>2. CASE u # t
        <5>1. loops[u] < ListLoops /\ Found(u)
          BY <3>0, <3>3, <4>2 DEF Made
        <5> QED BY <3>0, <4>2, <5>1 DEF Made
      <4> QED BY <4>1, <4>2
    <3> QED BY <3>1, <3>2, <3>3
  <2>4. CASE List!InsertLink(t) BY <2>4 DEF List!InsertLink
  <2>5. CASE List!InsertPublish(t)
    <3> SUFFICES ASSUME mode = "test" PROVE ListTested'
      BY <2>5 DEF List!InsertPublish
    <3>1. \A u \in List!Threads : pc'[u] \notin {"loop", "done"} => arg'[u] = loops'[u]
      BY <2>5 DEF List!InsertPublish
    <3>2. \A n \in List!Nodes' \ {List!End} : key'[n] < ListLoops
      BY <2>5 DEF List!InsertPublish
    <3>3. ASSUME NEW u \in List!Threads, loops'[u] < ListLoops PROVE Found(u)'
      <4>1. CASE u = t
        BY <2>5, <3>3, <4>1 DEF List!InsertPublish
      <4>2. CASE u # t
        <5>1. loops[u] < ListLoops /\ Found(u)
          BY <2>5, <3>3, <4>2 DEF List!InsertPublish
        <5> QED BY <2>5, <4>2, <5>1 DEF List!InsertPublish
      <4> QED BY <4>1, <4>2
    <3> QED BY <3>1, <3>2, <3>3
  <2>6. CASE List!InsertCount(t) BY <2>6 DEF List!InsertCount
  <2>7. CASE List!InsertUnlockNode(t) BY <2>7 DEF List!InsertUnlockNode
  <2>8. CASE List!InsertUnlockNext(t) BY <2>8 DEF List!InsertUnlockNext
  <2>9. CASE List!InsertEnd(t) BY <2>9 DEF List!InsertEnd
  <2>10. CASE List!Search(t)
    <3> SUFFICES ASSUME mode = "test" PROVE ListTested'
      BY <2>10 DEF List!Search
    <3>1. \A u \in List!Threads : pc'[u] \notin {"loop", "done"} => arg'[u] = loops'[u]
      BY <2>10 DEF List!Search
    <3>2. \A n \in List!Nodes' \ {List!End} : key'[n] < ListLoops
      BY <2>10 DEF List!Search
    <3>3. ASSUME NEW u \in List!Threads, loops'[u] < ListLoops PROVE Found(u)'
      <4>1. CASE u = t
        <5>0. loops[t] < ListLoops /\ loops[t] # ListLoops
          BY <2>10, <3>3, <4>1 DEF List!Search
        <5>3. pc[t] = "search"
          BY <2>10, <5>0 DEF List!Search
        <5>4. arg'[t] = arg[t]
          BY <2>10, <5>0 DEF List!Search
        <5>1. pc[t] = "search" /\ arg'[t] = arg[t]
          BY <5>3, <5>4
        <5>2. \E n \in 1..head : key[n] = arg[t]
          BY <5>0, <5>3
        <5> QED BY <2>10, <4>1, <5>1, <5>2 DEF List!Search
      <4>2. CASE u # t
        <5>1. loops[u] < ListLoops /\ Found(u)
          BY <2>10, <3>3, <4>2 DEF List!Search
        <5> QED BY <2>10, <4>2, <5>1 DEF List!Search
      <4> QED BY <4>1, <4>2
    <3> QED BY <3>1, <3>2, <3>3
  <2>11. CASE List!SearchLockHead(t) BY <2>11 DEF List!SearchLockHead
  <2>12. CASE List!SearchUnlock(t) BY <2>12 DEF List!SearchUnlock
  <2>13. CASE List!SearchFirst(t) BY <2>13 DEF List!SearchFirst
  <2>14. CASE List!SearchNext(t) BY <2>14 DEF List!SearchNext
  <2>15. CASE List!SearchUnlockThis(t) BY <2>15 DEF List!SearchUnlockThis
  <2>16. CASE List!SearchMove(t)
    <3> SUFFICES ASSUME mode = "test" PROVE ListTested'
      BY <2>16 DEF List!SearchMove
    <3>1. ASSUME NEW u \in List!Threads, loops'[u] < ListLoops PROVE Found(u)'
      <4>1. CASE u = t
        <5>1. /\ pc'[t] = "seaAt" /\ node'[t] = node[t] - 1 /\ node[t] \in 1..head
              /\ key[node[t]] # arg[t] /\ loops[t] < ListLoops
          BY <2>16, <3>1, <4>1 DEF List!SearchMove
        <5>2. \E n \in 1..node[t] : key[n] = arg[t]
          BY <2>16, <5>1 DEF List!SearchMove
        <5> QED BY <2>16, <4>1, <5>1, <5>2 DEF List!SearchMove
      <4>2. CASE u # t
        <5>1. loops[u] < ListLoops /\ Found(u)
          BY <2>16, <3>1, <4>2 DEF List!SearchMove
        <5> QED BY <2>16, <4>2, <5>1 DEF List!SearchMove
      <4> QED BY <4>1, <4>2
    <3> QED BY <2>16, <3>1 DEF List!SearchMove
  <2>17. CASE List!SearchEnd(t)
    <3> SUFFICES ASSUME mode = "test" PROVE ListTested'
      BY <2>17 DEF List!SearchEnd
    <3>1. \A u \in List!Threads : pc'[u] \notin {"loop", "done"} => arg'[u] = loops'[u]
      BY <2>17 DEF List!SearchEnd
    <3>2. \A n \in List!Nodes' \ {List!End} : key'[n] < ListLoops
      BY <2>17 DEF List!SearchEnd
    <3>3. ASSUME NEW u \in List!Threads, loops'[u] < ListLoops PROVE Found(u)'
      <4>1. CASE u = t
        BY <2>17, <3>3, <4>1 DEF List!SearchEnd
      <4>2. CASE u # t
        <5>1. loops[u] < ListLoops /\ Found(u)
          BY <2>17, <3>3, <4>2 DEF List!SearchEnd
        <5> QED BY <2>17, <4>2, <5>1 DEF List!SearchEnd
      <4> QED BY <4>1, <4>2
    <3> QED BY <3>1, <3>2, <3>3
  <2>18. CASE List!SearchReturn(t)
    <3> SUFFICES ASSUME mode = "test" PROVE ListTested'
      BY <2>18 DEF List!SearchReturn
    <3>1. \A u \in List!Threads : pc'[u] \notin {"loop", "done"} => arg'[u] = loops'[u]
      BY <2>18 DEF List!SearchReturn
    <3>2. \A n \in List!Nodes' \ {List!End} : key'[n] < ListLoops
      BY <2>18 DEF List!SearchReturn
    <3>3. ASSUME NEW u \in List!Threads, loops'[u] < ListLoops PROVE Found(u)'
      <4>1. CASE u = t
        BY <2>18, <3>3, <4>1 DEF List!SearchReturn
      <4>2. CASE u # t
        <5>1. loops[u] < ListLoops /\ Found(u)
          BY <2>18, <3>3, <4>2 DEF List!SearchReturn
        <5> QED BY <2>18, <4>2, <5>1 DEF List!SearchReturn
      <4> QED BY <4>1, <4>2
    <3> QED BY <3>1, <3>2, <3>3
  <2>19. CASE List!Return(t) BY <2>19 DEF List!Return
  <2> QED BY <2>1, <2>2, <2>3, <2>4, <2>5, <2>6, <2>7, <2>8, <2>9, <2>10,
             <2>11, <2>12, <2>13, <2>14, <2>15, <2>16, <2>17, <2>18, <2>19 DEF List!Worker
<1>2. CASE UNCHANGED List!vars
  BY <1>2
      DEF List!vars, ListInv, ListTypes, ListTested, Found, ListInsertedPCs, Linked, ListPlaces,
          Inserting, Searching, ListPhase, ListConstants, List!Walking, List!NULL, List!End,
          List!Keys,
          ListOwned, NodesHeld, Has, ListPCs, NewPCs, List!Nodes, List!Stop
<1> QED BY <1>1, <1>2 DEF List!Next, List!Ended

-----------------------------------------------------------------------------
(* The invariant.                                                          *)

ListIInv == ListInv /\ ListCounted /\ ListTested

LEMMA ListInitIInv == ASSUME ListConstants, List!Init PROVE ListIInv
<1>1. ListInv
  BY ListInit
<1>2. ListInserted = {} /\ ListCounting = {}
  BY DEF List!Init, ListInserted, ListInsertions, ListInsertedPCs, ListCounting, ListConstants
<1>3. ListCounted
  BY <1>2, FS_EmptySet DEF List!Init, ListCounted, List!End
<1>4. ListTested
  BY DEF List!Init, ListTested, Found, ListInsertedPCs, List!Walking, List!Nodes, List!End
<1> QED BY <1>1, <1>3, <1>4 DEF ListIInv

LEMMA ListNext == ASSUME ListConstants, ListIInv, [List!Next]_(List!vars) PROVE ListIInv'
<1>1. ListInv'
  BY ListTypesNext, ListOwnedNext, ListLinkedNext, NodesHeldNext, ListPlacesNext
     DEF ListIInv, ListInv
<1>2. ListCounted' /\ ListTested'
  BY ListCountedNext, ListTestedNext DEF ListIInv
<1> QED BY <1>1, <1>2 DEF ListIInv

\* Every count, key, node and lock is of its kind, however many threads and
\* iterations there are; a thread that walks has locked the node it is on.
LEMMA ListTyped == ASSUME ListConstants PROVE ListIInv => List!TypeOK
<1> SUFFICES ASSUME ListIInv PROVE List!TypeOK
  OBVIOUS
<1> USE DEF ListIInv, ListInv
<1>1. List!Nodes = 0..(Cardinality(List!Nodes) - 1)
  <2>1. head \in Nat /\ (List!Nodes = 0..head \/ List!Nodes = 0..(head + 1))
    BY DEF Linked
  <2> QED BY <2>1, FS_Interval
<1>2. head \in List!Nodes
  BY DEF Linked
<1>3. size \in 0..(ListThreads * ListLoops)
  <2>1. IsFiniteSet(ListInsertions) /\ Cardinality(ListInsertions) = ListThreads * ListLoops
    BY FiniteInserted
  <2>2. Cardinality(ListInserted) <= Cardinality(ListInsertions)
          /\ Cardinality(ListInserted) \in Nat
    BY <2>1, FS_Subset, FS_CardinalityType DEF ListInserted
  <2>3. Cardinality(ListCounting) \in Nat
    <3>1. IsFiniteSet(List!Threads)
      BY FS_Interval DEF List!Threads, ListConstants
    <3> QED BY <3>1, FS_Subset, FS_CardinalityType DEF ListCounting
  <2>4. ListThreads * ListLoops \in Nat
    BY DEF ListConstants
  <2> QED BY <2>1, <2>2, <2>3, <2>4 DEF ListCounted
<1>4. ASSUME NEW t \in List!Threads, pc[t] \in {"seaAt", "seaNext"}
      PROVE  locked[node[t]] = t
  <2>1. Searching(t) /\ head \in Nat
    BY DEF ListPlaces, Linked
  <2>2. node[t] \in List!Nodes
    BY <1>4, <2>1 DEF Searching, Linked
  <2> QED BY <1>4, <2>2 DEF NodesHeld, Has
<1> QED BY <1>1, <1>2, <1>3, <1>4, ListSize DEF List!TypeOK, ListTypes, ListAllPCs

\* worker_test finds the key it has inserted and no other, and at the end the
\* list has all insertions (shared.hpp:42, 44 and 93).
LEMMA ListAsserts == ASSUME ListConstants PROVE ListIInv => List!WorkerTestAsserts
<1> SUFFICES ASSUME ListIInv, mode = "test" PROVE List!WorkerTestAsserts
  BY DEF List!WorkerTestAsserts
<1> USE DEF ListIInv, ListInv
<1>1. ASSUME NEW t \in List!Threads, pc[t] = "return", loops[t] < ListLoops
      PROVE  node[t] # List!NULL /\ key[node[t]] = arg[t]
  BY <1>1 DEF ListTested, Found, ListPlaces, Searching
<1>2. ASSUME NEW t \in List!Threads, pc[t] = "return", ~(loops[t] < ListLoops)
      PROVE  node[t] = List!NULL
  <2>1. arg[t] = loops[t] /\ loops[t] = ListLoops
    BY <1>2 DEF ListTested, ListTypes, ListConstants
  <2>2. CASE node[t] \in 1..head /\ key[node[t]] = arg[t]
    <3>1. node[t] \in List!Nodes \ {List!End}
      BY <2>2 DEF Linked, List!End
    <3> QED BY <2>1, <2>2, <3>1 DEF ListTested, ListConstants
  <2> QED BY <1>2, <2>2 DEF ListPlaces, Searching
<1>3. ASSUME List!AllDone PROVE size = ListThreads * ListLoops
  <2>1. ListInserted = ListInsertions
    BY <1>3 DEF List!AllDone, ListInserted, ListInsertions, ListPlaces, ListPhase, ListConstants
  <2>2. ListCounting = {}
    BY <1>3 DEF List!AllDone, ListCounting
  <2>3. Cardinality(ListInsertions) = ListThreads * ListLoops /\ Cardinality({}) = 0
    BY FiniteInserted, FS_EmptySet
  <2> QED BY <2>1, <2>2, <2>3 DEF ListCounted
<1> QED BY <1>1, <1>2, <1>3 DEF List!WorkerTestAsserts

\* No insertion is lost: from head_, every node is linked to the one inserted
\* before it.
LEMMA ListLinked == ListIInv => List!NothingSkipped
BY DEF ListIInv, ListInv, Linked, List!NothingSkipped, List!InList, List!Nodes, List!End

-----------------------------------------------------------------------------
(* Threads that walk.                                                      *)

\* Only a thread's own step moves it, to a node that nobody has locked.
LEMMA FrontMoves ==
  ASSUME ListConstants, ListInv, NEW t \in List!Threads, List!Worker(t), NEW u \in List!Threads,
         List!Walking(u), List!Walking(u)'
  PROVE  \/ List!Front(u)' = List!Front(u)
         \/ u = t /\ List!Front(u)' = List!Front(u) - 1 /\ locked[List!Front(u) - 1] = List!None
<1>0. \A w \in List!Threads : List!InsertNew(w) => Made(w)
  BY ListNewNode
<1>1. /\ head \in Nat /\ head \in List!Nodes /\ node[u] \in 0..head
      /\ pc[u] # "seaAt" => next[node[u]] = node[u] - 1 /\ node[u] # 0
      /\ node[u] # 0 => next[node[u]] = node[u] - 1
  BY DEF ListInv, Linked, ListPlaces, Searching, List!Walking
<1> USE <1>1 DEF ListInv, ListTypes, List!Walking, List!Front, List!Goto
<1>11. CASE List!Insert(t) BY <1>11 DEF List!Insert
<1>12. CASE List!InsertLockHead(t) BY <1>12 DEF List!InsertLockHead
<1>13. CASE List!InsertNew(t) BY <1>0, <1>13 DEF Made
<1>14. CASE List!InsertLink(t) BY <1>14 DEF List!InsertLink, ListPlaces, Inserting, NewPCs
<1>15. CASE List!InsertPublish(t) BY <1>15 DEF List!InsertPublish
<1>16. CASE List!InsertCount(t) BY <1>16 DEF List!InsertCount
<1>17. CASE List!InsertUnlockNode(t) BY <1>17 DEF List!InsertUnlockNode
<1>18. CASE List!InsertUnlockNext(t) BY <1>18 DEF List!InsertUnlockNext
<1>19. CASE List!InsertEnd(t) BY <1>19 DEF List!InsertEnd
<1>20. CASE List!Search(t) BY <1>20 DEF List!Search
<1>21. CASE List!SearchLockHead(t) BY <1>21 DEF List!SearchLockHead
<1>22. CASE List!SearchUnlock(t) BY <1>22 DEF List!SearchUnlock
<1>23. CASE List!SearchFirst(t) BY <1>23 DEF List!SearchFirst
<1>24. CASE List!SearchNext(t) BY <1>24 DEF List!SearchNext, List!LockNode, List!Stop, List!End
<1>25. CASE List!SearchUnlockThis(t) BY <1>25 DEF List!SearchUnlockThis
<1>26. CASE List!SearchMove(t) BY <1>26 DEF List!SearchMove
<1>27. CASE List!SearchEnd(t) BY <1>27 DEF List!SearchEnd
<1>28. CASE List!SearchReturn(t) BY <1>28 DEF List!SearchReturn
<1>29. CASE List!Return(t) BY <1>29 DEF List!Return
<1> QED BY <1>11, <1>12, <1>13, <1>14, <1>15, <1>16, <1>17, <1>18, <1>19, <1>20,
             <1>21, <1>22, <1>23, <1>24, <1>25, <1>26, <1>27, <1>28, <1>29 DEF List!Worker

\* A thread that walks has locked the node at its front.
LEMMA FrontLocked ==
  ASSUME ListInv, NEW t \in List!Threads, List!Walking(t)
  PROVE  List!Front(t) \in 0..head /\ locked[List!Front(t)] = t
<1>1. /\ head \in Nat /\ node[t] \in 0..head
      /\ pc[t] # "seaAt" => next[node[t]] = node[t] - 1 /\ node[t] # 0
  BY DEF ListInv, Linked, ListPlaces, Searching, List!Walking
<1>2. List!Front(t) \in 0..head
  BY <1>1 DEF List!Front
<1>3. List!Front(t) \in List!Nodes
  BY <1>1, <1>2 DEF ListInv, Linked
<1>4. Has(t, List!Front(t))
  BY DEF Has, List!Front, List!Walking
<1> QED BY <1>2, <1>3, <1>4 DEF ListInv, NodesHeld

\* Hand over hand, threads that walk over the list stay in their order.
LEMMA NobodyOvertakes ==
  ASSUME ListConstants PROVE ListIInv /\ [List!Next]_(List!vars) => [List!NobodyPasses]_(List!vars)
<1> SUFFICES ASSUME ListIInv, List!Next, List!vars' # List!vars,
                    NEW t \in List!Threads, NEW u \in List!Threads,
                    List!Walking(t), List!Walking(u), List!Front(t) < List!Front(u), List!Walking(t)', List!Walking(u)'
             PROVE  List!Front(t)' < List!Front(u)'
  BY DEF List!NobodyPasses
<1>1. PICK w \in List!Threads : List!Worker(w)
  BY DEF List!Next, List!Ended
<1>2. /\ List!Front(t) \in Int /\ List!Front(u) \in Int
      /\ locked[List!Front(t)] = t /\ t # List!None
  BY FrontLocked DEF ListIInv, List!Threads, List!None, ListInv, Linked
<1>3. \/ List!Front(t)' = List!Front(t)
      \/ t = w /\ List!Front(t)' = List!Front(t) - 1
  BY <1>1, FrontMoves DEF ListIInv
<1>4. \/ List!Front(u)' = List!Front(u)
      \/ u = w /\ List!Front(u)' = List!Front(u) - 1 /\ locked[List!Front(u) - 1] = List!None
  BY <1>1, FrontMoves DEF ListIInv
<1>5. CASE t = u
  BY <1>2, <1>5
<1> QED BY <1>2, <1>3, <1>4, <1>5

-----------------------------------------------------------------------------
(* Insertions and searches look atomic.                                    *)

\* The keys of the list, as ListSpec has them.
ListKeys == {key[n] : n \in List!InList}

LEMMA InListIs == ASSUME ListInv PROVE List!InList = 1..head
BY DEF ListInv, Linked, List!InList, List!End

\* Only InsertPublish changes what is in the list.
LEMMA ListKept ==
  ASSUME ListConstants, ListInv, NEW t \in List!Threads, List!Worker(t), ~List!InsertPublish(t)
  PROVE  head' = head /\ \A n \in 1..head : key'[n] = key[n]
<1>0. \A w \in List!Threads : List!InsertNew(w) => Made(w)
  BY ListNewNode
<1>1. head \in Nat
  BY DEF ListInv, Linked
<1> USE <1>1
<1>11. CASE List!Insert(t) BY <1>11 DEF List!Insert
<1>12. CASE List!InsertLockHead(t) BY <1>12 DEF List!InsertLockHead
<1>13. CASE List!InsertNew(t) BY <1>0, <1>13 DEF Made
<1>14. CASE List!InsertLink(t) BY <1>14 DEF List!InsertLink
<1>16. CASE List!InsertCount(t) BY <1>16 DEF List!InsertCount
<1>17. CASE List!InsertUnlockNode(t) BY <1>17 DEF List!InsertUnlockNode
<1>18. CASE List!InsertUnlockNext(t) BY <1>18 DEF List!InsertUnlockNext
<1>19. CASE List!InsertEnd(t) BY <1>19 DEF List!InsertEnd
<1>20. CASE List!Search(t) BY <1>20 DEF List!Search
<1>21. CASE List!SearchLockHead(t) BY <1>21 DEF List!SearchLockHead
<1>22. CASE List!SearchUnlock(t) BY <1>22 DEF List!SearchUnlock
<1>23. CASE List!SearchFirst(t) BY <1>23 DEF List!SearchFirst
<1>24. CASE List!SearchNext(t) BY <1>24 DEF List!SearchNext
<1>25. CASE List!SearchUnlockThis(t) BY <1>25 DEF List!SearchUnlockThis
<1>26. CASE List!SearchMove(t) BY <1>26 DEF List!SearchMove
<1>27. CASE List!SearchEnd(t) BY <1>27 DEF List!SearchEnd
<1>28. CASE List!SearchReturn(t) BY <1>28 DEF List!SearchReturn
<1>29. CASE List!Return(t) BY <1>29 DEF List!Return
<1> QED BY <1>11, <1>12, <1>13, <1>14, <1>16, <1>17, <1>18, <1>19, <1>20,
         <1>21, <1>22, <1>23, <1>24, <1>25, <1>26, <1>27, <1>28, <1>29 DEF List!Worker

\* While a node is put in front of the others nobody is about to read head_.
LEMMA Published ==
  ASSUME ListInv, NEW t \in List!Threads, List!InsertPublish(t)
  PROVE  /\ head' = head + 1 /\ key' = key /\ key[head + 1] = arg[t] /\ arg[t] \in List!Keys
         /\ \A u \in List!Threads : pc[u] \notin {"seaUnlock", "seaFirst"}
<1>1. pc[t] = "insPublish" /\ head' = head + 1 /\ key' = key /\ key[head + 1] = arg[t]
  BY DEF List!InsertPublish, List!Goto, ListInv, ListPlaces, Inserting, NewPCs
<1>2. head \in List!Nodes
  BY DEF ListInv, Linked
<1>3. locked[head] = t
  BY <1>1, <1>2 DEF ListInv, NodesHeld, Has
<1>4. ASSUME NEW u \in List!Threads, pc[u] \in {"seaUnlock", "seaFirst"} PROVE FALSE
  <2>1. locked[head] = u
    BY <1>2, <1>4 DEF ListInv, NodesHeld, Has
  <2> QED BY <1>1, <1>3, <1>4, <2>1
<1> QED BY <1>1, <1>4 DEF ListInv, ListTypes

\* A step of one thread leaves what another has found.
LEMMA OthersAnswers ==
  ASSUME ListConstants, ListInv, ListInv', NEW t \in List!Threads, List!Worker(t),
         NEW u \in List!Threads, u # t
  PROVE  List!Answer(u)' = List!Answer(u)
<1>0. pc'[u] = pc[u] /\ node'[u] = node[u] /\ arg'[u] = arg[u]
  <2>0. \A w \in List!Threads : List!InsertNew(w) => Made(w)
    BY ListNewNode
  <2> USE DEF List!Goto, ListInv, ListTypes
  <2>1. CASE List!Insert(t) BY <2>1 DEF List!Insert
  <2>2. CASE List!InsertLockHead(t) BY <2>2 DEF List!InsertLockHead
  <2>3. CASE List!InsertNew(t) BY <2>0, <2>3 DEF Made
  <2>4. CASE List!InsertLink(t) BY <2>4 DEF List!InsertLink
  <2>5. CASE List!InsertPublish(t) BY <2>5 DEF List!InsertPublish
  <2>6. CASE List!InsertCount(t) BY <2>6 DEF List!InsertCount
  <2>7. CASE List!InsertUnlockNode(t) BY <2>7 DEF List!InsertUnlockNode
  <2>8. CASE List!InsertUnlockNext(t) BY <2>8 DEF List!InsertUnlockNext
  <2>9. CASE List!InsertEnd(t) BY <2>9 DEF List!InsertEnd
  <2>10. CASE List!Search(t) BY <2>10 DEF List!Search
  <2>11. CASE List!SearchLockHead(t) BY <2>11 DEF List!SearchLockHead
  <2>12. CASE List!SearchUnlock(t) BY <2>12 DEF List!SearchUnlock
  <2>13. CASE List!SearchFirst(t) BY <2>13 DEF List!SearchFirst
  <2>14. CASE List!SearchNext(t) BY <2>14 DEF List!SearchNext
  <2>15. CASE List!SearchUnlockThis(t) BY <2>15 DEF List!SearchUnlockThis
  <2>16. CASE List!SearchMove(t) BY <2>16 DEF List!SearchMove
  <2>17. CASE List!SearchEnd(t) BY <2>17 DEF List!SearchEnd
  <2>18. CASE List!SearchReturn(t) BY <2>18 DEF List!SearchReturn
  <2>19. CASE List!Return(t) BY <2>19 DEF List!Return
  <2> QED BY <2>1, <2>2, <2>3, <2>4, <2>5, <2>6, <2>7, <2>8, <2>9, <2>10,
           <2>11, <2>12, <2>13, <2>14, <2>15, <2>16, <2>17, <2>18, <2>19 DEF List!Worker
<1>1. List!InList = 1..head /\ List!InList' = 1..head' /\ head \in Nat
  <2>1. List!InList = 1..head /\ head \in Nat
    BY InListIs DEF ListInv, Linked
  <2>2. (List!InList = 1..head)'
    BY InListIs, PTL
  <2> QED BY <2>1, <2>2
<1>2. List!Walking(u) => node[u] \in 0..head
  BY DEF ListInv, ListPlaces, Searching, List!Walking
<1>3. CASE List!InsertPublish(t)
  <2>1. head' = head + 1 /\ key' = key /\ pc[u] \notin {"seaUnlock", "seaFirst"}
    BY <1>3, Published
  <2>2. List!Walking(u) => (\E n \in List!InList' : n <= node[u] /\ key[n] = arg[u])
                             = (\E n \in List!InList : n <= node[u] /\ key[n] = arg[u])
    BY <1>1, <1>2, <2>1
  <2> QED BY <1>0, <2>1, <2>2 DEF List!Answer, List!Walking
<1>4. CASE ~List!InsertPublish(t)
  <2>1. head' = head /\ List!InList' = List!InList /\ \A n \in List!InList : key'[n] = key[n]
    BY <1>1, <1>4, ListKept
  <2> QED BY <1>0, <2>1 DEF List!Answer, List!Walking
<1> QED BY <1>3, <1>4

\* A search that has begun keeps its answer until it returns.
LEMMA AnswerKept ==
  ASSUME ListConstants, ListInv, ListInv', NEW t \in List!Threads, List!Worker(t),
         ~List!SearchLockHead(t), ~List!SearchReturn(t)
  PROVE  List!Answer(t)' = List!Answer(t)
<1>0. \A w \in List!Threads : List!InsertNew(w) => Made(w)
  BY ListNewNode
<1>1. /\ List!InList = 1..head /\ head \in Nat
      /\ List!Walking(t) => node[t] \in 0..head
      /\ pc[t] \in {"seaNext", "seaMove"} =>
           node[t] # 0 /\ next[node[t]] = node[t] - 1 /\ key[node[t]] # arg[t]
  BY InListIs DEF ListInv, Linked, ListPlaces, Searching, List!Walking
<1>2. CASE List!InsertPublish(t)
  BY <1>2 DEF List!InsertPublish, List!Goto, List!Answer, List!Walking, ListInv, ListTypes
<1>3. CASE ~List!InsertPublish(t)
  <2>0. head' = head /\ List!InList' = List!InList /\ \A n \in List!InList : key'[n] = key[n]
    <3>1. (List!InList = 1..head)'
      BY InListIs, PTL
    <3> QED BY <1>1, <1>3, <3>1, ListKept
  <2> USE <1>1, <2>0 DEF List!Goto, List!Answer, List!Walking, ListInv, ListTypes
  <2>1. CASE List!Insert(t) BY <2>1 DEF List!Insert
  <2>2. CASE List!InsertLockHead(t) BY <2>2 DEF List!InsertLockHead
  <2>3. CASE List!InsertNew(t) BY <1>0, <2>3 DEF Made
  <2>4. CASE List!InsertLink(t) BY <2>4 DEF List!InsertLink
  <2>6. CASE List!InsertCount(t) BY <2>6 DEF List!InsertCount
  <2>7. CASE List!InsertUnlockNode(t) BY <2>7 DEF List!InsertUnlockNode
  <2>8. CASE List!InsertUnlockNext(t) BY <2>8 DEF List!InsertUnlockNext
  <2>9. CASE List!InsertEnd(t) BY <2>9 DEF List!InsertEnd
  <2>10. CASE List!Search(t) BY <2>10 DEF List!Search
  <2>12. CASE List!SearchUnlock(t) BY <2>12 DEF List!SearchUnlock
  <2>13. CASE List!SearchFirst(t) BY <2>13 DEF List!SearchFirst
  <2>14. CASE List!SearchNext(t) BY <2>14 DEF List!SearchNext
  <2>15. CASE List!SearchUnlockThis(t) BY <2>15 DEF List!SearchUnlockThis
  <2>16. CASE List!SearchMove(t) BY <2>16 DEF List!SearchMove
  <2>17. CASE List!SearchEnd(t)
    <3>1. /\ pc[t] = "seaAt" /\ pc'[t] = "return" /\ node[t] \in 0..head
          /\ node'[t] = IF node[t] # 0 THEN node[t] ELSE -1
          /\ node[t] = 0 \/ key[node[t]] = arg[t]
      BY <2>17 DEF List!SearchEnd, List!Stop, List!End, List!NULL
    <3>2. (\E n \in List!InList : n <= node[t] /\ key[n] = arg[t]) <=> node[t] # 0
      BY <3>1
    <3> QED BY <3>1, <3>2 DEF List!NULL
  <2>19. CASE List!Return(t) BY <2>19 DEF List!Return
  <2> QED BY <1>3, <2>1, <2>2, <2>3, <2>4, <2>6, <2>7, <2>8, <2>9, <2>10,
           <2>12, <2>13, <2>14, <2>15, <2>16, <2>17, <2>19 DEF List!Worker
<1> QED BY <1>2, <1>3

\* insert() and search() of list_hoh.cpp take effect at one moment each, for
\* any number of threads that interleave lock by lock.
LEMMA ListAbstractInit == ASSUME ListConstants PROVE List!Init => List!Abstract!Init
<1> SUFFICES ASSUME List!Init PROVE List!Abstract!Init
  OBVIOUS
<1>1. List!InList = {} /\ ListCounting = {} /\ size = 0
  BY DEF List!Init, List!InList, List!Nodes, List!End, ListCounting
<1>2. \A t \in List!Threads : List!Answer(t) = "none"
  BY DEF List!Init, List!Answer, List!Walking
<1> QED BY <1>1, <1>2, FS_EmptySet, ListSize
           DEF List!Abstract!Init, List!Abstract!NoAnswer, ListCounting

LEMMA ListAbstractNext ==
  ASSUME ListConstants PROVE ListIInv /\ ListIInv' /\ [List!Next]_(List!vars) =>
           [List!Abstract!Next]_(List!Abstract!vars)
<1> SUFFICES ASSUME ListIInv, ListIInv', List!Next
             PROVE  [List!Abstract!Next]_(List!Abstract!vars)
  <2>1. UNCHANGED List!vars => UNCHANGED List!Abstract!vars
    BY DEF List!vars, List!Abstract!vars, List!InList, List!Nodes, List!Answer, List!Walking
  <2> QED BY <2>1
<1>1. CASE \E t \in List!Threads : List!Worker(t)
  <2>1. PICK t \in List!Threads : List!Worker(t)
    BY <1>1
  <2>2. size + Cardinality(ListCounting) = head /\ (size + Cardinality(ListCounting))' = head'
    BY DEF ListIInv, ListCounted
  <2>3. /\ List!InList = 1..head /\ List!InList' = 1..head' /\ head \in Nat
    <3>1. (List!InList = 1..head)'
      BY InListIs, PTL DEF ListIInv
    <3> QED BY <3>1, InListIs DEF ListIInv, ListInv, Linked
  <2>4. \A u \in List!Threads \ {t} : List!Answer(u)' = List!Answer(u)
    BY <2>1, OthersAnswers DEF ListIInv
  <2>5. CASE List!InsertPublish(t)
    <3>1. /\ head' = head + 1 /\ key' = key /\ key[head + 1] = arg[t] /\ arg[t] \in List!Keys
      BY <2>5, Published DEF ListIInv
    <3>2. ListKeys' = ListKeys \cup {arg[t]}
      BY <2>3, <3>1 DEF ListKeys
    <3>3. List!Answer(t) = "none"
      BY <2>5 DEF List!InsertPublish, List!Goto, List!Answer, List!Walking
    <3>4. List!Answer(t)' = List!Answer(t)
      BY <2>1, <2>5, AnswerKept
          DEF ListIInv, List!SearchLockHead, List!SearchReturn, List!InsertPublish, List!Goto
    <3>5. List!Abstract!Insert(t)
      BY <2>2, <2>4, <3>1, <3>2, <3>3, <3>4, ListSize
         DEF List!Abstract!Insert, List!Abstract!NoAnswer, ListKeys, ListCounting
    <3> QED BY <3>5 DEF List!Abstract!Next
  <2>6. CASE ~List!InsertPublish(t)
    <3>1. head' = head /\ ListKeys' = ListKeys
      BY <2>1, <2>3, <2>6, ListKept DEF ListIInv, ListKeys
    <3>2. CASE List!SearchLockHead(t)
      <4>1. /\ List!Answer(t) = "none" /\ arg[t] \in List!Keys
            /\ List!Answer(t)' = IF arg[t] \in ListKeys THEN "found" ELSE "missing"
        BY <3>1, <3>2
            DEF List!SearchLockHead, List!Goto, List!Answer, List!Walking, ListKeys, ListIInv,
                ListInv,
                ListTypes
      <4>2. List!Abstract!Search(t)
        BY <2>2, <2>4, <3>1, <4>1, ListSize
           DEF List!Abstract!Search, List!Abstract!NoAnswer, ListKeys, ListCounting
      <4> QED BY <4>2 DEF List!Abstract!Next
    <3>3. CASE List!SearchReturn(t)
      <4>1. List!Answer(t) # "none" /\ List!Answer(t)' = "none"
        BY <3>3
           DEF List!SearchReturn, List!Goto, List!Answer, List!Walking, ListIInv, ListInv,
               ListTypes
      <4>2. List!Abstract!Return(t)
        BY <2>2, <2>4, <3>1, <4>1, ListSize
           DEF List!Abstract!Return, List!Abstract!NoAnswer, ListKeys, ListCounting
      <4> QED BY <4>2 DEF List!Abstract!Next
    <3>4. CASE ~List!SearchLockHead(t) /\ ~List!SearchReturn(t)
      <4>1. List!Answer(t)' = List!Answer(t)
        BY <2>1, <3>4, AnswerKept DEF ListIInv
      <4> QED BY <2>2, <2>4, <3>1, <4>1, ListSize DEF List!Abstract!vars, ListKeys, ListCounting
    <3> QED BY <3>2, <3>3, <3>4
  <2> QED BY <2>5, <2>6
<1>2. CASE List!Ended
  BY <1>2
     DEF List!Ended, List!vars, List!Abstract!vars, List!InList, List!Nodes, List!Answer,
         List!Walking
<1> QED BY <1>1, <1>2 DEF List!Next

-----------------------------------------------------------------------------
(* All of them.                                                            *)

LEMMA Constants ==
  /\ CounterConstants(CounterThreads) /\ CounterConstants(SharedCpus)
  /\ OwnCpus(CounterThreads)
  /\ ListConstants /\ VectorConstants /\ TreeConstants
BY ThreadProgramsAssumption
   DEF CounterConstants, OwnCpus, ListConstants, VectorConstants, TreeConstants, VectorRuns,
       Vectors!Programs

\* The two counters are one, with its number of CPUs.
LEMMA OwnIs ==
  /\ OwnCpu!Init <=> Counter(CounterThreads)!Init
  /\ OwnCpu!Workers = Counter(CounterThreads)!Workers
  /\ OwnCpu!Get <=> Counter(CounterThreads)!Get
  /\ OwnCpu!TypeOK <=> Counter(CounterThreads)!TypeOK
  /\ OwnCpu!SloppyByThreshold <=> Counter(CounterThreads)!SloppyByThreshold
  /\ OwnCpu!AssertGet <=> Counter(CounterThreads)!AssertGet
BY DEF Counter!Init, OwnCpu!Init, Counter!Get, OwnCpu!Get, Counter!TypeOK, OwnCpu!TypeOK,
       Counter!SloppyByThreshold, OwnCpu!SloppyByThreshold, Counter!AssertGet, OwnCpu!AssertGet,
       Counter!Cpus, OwnCpu!Cpus, Counter!Cpu, OwnCpu!Cpu, Counter!None, OwnCpu!None,
       Counter!Workers, OwnCpu!Workers

LEMMA OwnWorkerIs ==
  ASSUME NEW t PROVE OwnCpu!Worker(t) <=> Counter(CounterThreads)!Worker(t)
BY DEF Counter!Worker, OwnCpu!Worker, Counter!LockLocal, OwnCpu!LockLocal,
       Counter!LoadLocal, OwnCpu!LoadLocal, Counter!StoreLocal, OwnCpu!StoreLocal,
       Counter!TestThreshold, OwnCpu!TestThreshold, Counter!Full, OwnCpu!Full,
       Counter!UnlockLocal, OwnCpu!UnlockLocal, Counter!LockGlobal, OwnCpu!LockGlobal,
       Counter!AddLocal, OwnCpu!AddLocal, Counter!ResetLocal, OwnCpu!ResetLocal,
       Counter!UnlockGlobal, OwnCpu!UnlockGlobal, Counter!Goto, OwnCpu!Goto,
       Counter!Cpu, OwnCpu!Cpu, Counter!None, OwnCpu!None

LEMMA OwnSumIs == OwnCpu!NothingLost <=> Counter(CounterThreads)!NothingLost
BY DEF Counter!NothingLost, OwnCpu!NothingLost, Counter!Cpus, OwnCpu!Cpus,
       Counter!Workers, OwnCpu!Workers, Counter!Doubled, OwnCpu!Doubled,
       Counter!Stored, OwnCpu!Stored, Counter!InLastUpdate, OwnCpu!InLastUpdate,
       Counter!SharesCpu, OwnCpu!SharesCpu, Counter!Cpu, OwnCpu!Cpu,
       Counter!MapThenSumSet, OwnCpu!MapThenSumSet, Counter!MapThenFoldSet, OwnCpu!MapThenFoldSet

LEMMA SharedIs ==
  /\ SharedCpu!Init <=> Counter(SharedCpus)!Init
  /\ OwnCpu!Workers = Counter(SharedCpus)!Workers
  /\ OwnCpu!Get <=> Counter(SharedCpus)!Get
  /\ SharedCpu!SloppyByThreshold <=> Counter(SharedCpus)!SloppyByThreshold
BY DEF Counter!Init, SharedCpu!Init, Counter!Get, OwnCpu!Get,
       Counter!SloppyByThreshold, SharedCpu!SloppyByThreshold,
       Counter!Cpus, SharedCpu!Cpus, Counter!Cpu, SharedCpu!Cpu,
       Counter!None, OwnCpu!None, SharedCpu!None,
       Counter!Workers, OwnCpu!Workers, SharedCpu!Workers

LEMMA SharedWorkerIs ==
  ASSUME NEW t PROVE SharedCpu!Worker(t) <=> Counter(SharedCpus)!Worker(t)
BY DEF Counter!Worker, SharedCpu!Worker, Counter!LockLocal, SharedCpu!LockLocal,
       Counter!LoadLocal, SharedCpu!LoadLocal, Counter!StoreLocal, SharedCpu!StoreLocal,
       Counter!TestThreshold, SharedCpu!TestThreshold, Counter!Full, SharedCpu!Full,
       Counter!UnlockLocal, SharedCpu!UnlockLocal, Counter!LockGlobal, SharedCpu!LockGlobal,
       Counter!AddLocal, SharedCpu!AddLocal, Counter!ResetLocal, SharedCpu!ResetLocal,
       Counter!UnlockGlobal, SharedCpu!UnlockGlobal, Counter!Goto, SharedCpu!Goto,
       Counter!Cpu, SharedCpu!Cpu, Counter!None, SharedCpu!None

LEMMA SharedSumIs == SharedCpu!NothingLost <=> Counter(SharedCpus)!NothingLost
BY DEF Counter!NothingLost, SharedCpu!NothingLost, Counter!Cpus, SharedCpu!Cpus,
       Counter!Workers, SharedCpu!Workers, Counter!Doubled, SharedCpu!Doubled,
       Counter!Stored, SharedCpu!Stored, Counter!InLastUpdate, SharedCpu!InLastUpdate,
       Counter!SharesCpu, SharedCpu!SharesCpu, Counter!Cpu, SharedCpu!Cpu,
       Counter!MapThenSumSet, SharedCpu!MapThenSumSet,
       Counter!MapThenFoldSet, SharedCpu!MapThenFoldSet

\* Every step is one of the program that runs.
LEMMA OneRuns ==
  ASSUME [Next]_vars
  PROVE  /\ program' = program
         /\ program = "own CPU" =>
              [Counter(CounterThreads)!Next]_(Counter(CounterThreads)!vars)
         /\ program = "shared CPU" => [Counter(SharedCpus)!Next]_(Counter(SharedCpus)!vars)
         /\ program = "list" => [List!Next]_(List!vars)
         /\ program = "vectors" => [Vectors!Next]_(Vectors!vars)
         /\ program = "rendezvous" => [Meeting!Next]_(Meeting!vars)
         /\ program = "tree" => [Tree!Next]_(Tree!vars)
         /\ program = "API" => [API!Next]_(API!vars)
<1>1. CASE UNCHANGED vars
  BY <1>1 DEF vars, counterVars, listVars, vectorVars, rendezvousVars, treeVars, apiVars,
              Counter!vars, List!vars, Vectors!vars, Meeting!vars, Tree!vars, API!vars
<1>2. CASE Main
  <2>1. program' = program /\ program \notin {"list", "vectors", "tree", "API"}
    BY <1>2 DEF Main
  <2>2. /\ program = "own CPU" => Counter(CounterThreads)!Next
        /\ program = "shared CPU" => Counter(SharedCpus)!Next
    BY <1>2, OwnIs, SharedIs DEF Main, Counter!Next
  <2>3. program = "rendezvous" => Meeting!Next
    BY <1>2 DEF Main, Meeting!Next
  <2> QED BY <2>1, <2>2, <2>3
<1>3. CASE \E t \in Threads : Worker(t)
  <2>1. PICK t \in Threads : Worker(t)
    BY <1>3
  <2>2. program' = program
    BY <2>1 DEF Worker
  <2>3. program = "own CPU" => Counter(CounterThreads)!Next
    BY <2>1, OwnIs, OwnWorkerIs DEF Worker, Counter!Next
  <2>4. program = "shared CPU" => Counter(SharedCpus)!Next
    BY <2>1, SharedIs, SharedWorkerIs DEF Worker, Counter!Next
  <2>5. /\ program = "list" => List!Next
        /\ program = "vectors" => Vectors!Next
        /\ program = "rendezvous" => Meeting!Next
        /\ program = "tree" => Tree!Next
        /\ program = "API" => API!Next
    BY <2>1 DEF Worker, List!Next, Vectors!Next, Meeting!Next, Tree!Next, API!Next
  <2> QED BY <2>2, <2>3, <2>4, <2>5
<1>4. CASE Spurious
  BY <1>4 DEF Spurious, API!Next
<1> QED BY <1>1, <1>2, <1>3, <1>4 DEF Next, Ended

\* The invariant of the program that runs.
ProgramsInv ==
  /\ program = "own CPU" => OwnInv(CounterThreads)
  /\ program = "shared CPU" => CounterInv(SharedCpus)
  /\ program = "list" => ListIInv
  /\ program = "vectors" => VectorInv
  /\ program = "rendezvous" => MeetingInv
  /\ program = "tree" => TreeIInv
  /\ program = "API" => APIInv

LEMMA ProgramsInit ==
  ASSUME Init
  PROVE  /\ ProgramsInv
         /\ program = "list" => List!Init
         /\ program = "vectors" => Vectors!Init
         /\ program = "tree" => Tree!Init
<1>1. /\ program = "own CPU" => Counter(CounterThreads)!Init
      /\ program = "shared CPU" => Counter(SharedCpus)!Init
  BY OwnIs, SharedIs DEF Init
<1>2. /\ program = "list" => List!Init
      /\ program = "vectors" => Vectors!Init
      /\ program = "rendezvous" => Meeting!Init
      /\ program = "tree" => Tree!Init
      /\ program = "API" => API!Init
  BY DEF Init
<1>3. program = "own CPU" => OwnInv(CounterThreads)
  BY <1>1, OwnInit, Constants, ThreadProgramsAssumption
<1>4. program = "shared CPU" => CounterInv(SharedCpus)
  BY <1>1, CounterInit, Constants, ThreadProgramsAssumption
<1>5. program = "list" => ListIInv
  BY <1>2, ListInitIInv, Constants
<1>6. program = "vectors" => VectorInv
  BY <1>2, VectorInit, Constants
<1>7. program = "rendezvous" => MeetingInv
  BY <1>2, MeetingInit
<1>8. program = "tree" => TreeIInv
  BY <1>2, TreeInit, Constants
<1>9. program = "API" => APIInv
  BY <1>2, APIInit, ResultsInit DEF APIInv
<1> QED BY <1>2, <1>3, <1>4, <1>5, <1>6, <1>7, <1>8, <1>9 DEF ProgramsInv

LEMMA ProgramsNext == ASSUME ProgramsInv, [Next]_vars PROVE ProgramsInv'
<1>1. program' = program
  BY OneRuns
<1>2. program = "own CPU" => OwnInv(CounterThreads)'
  BY OneRuns, OwnNext, Constants DEF ProgramsInv
<1>3. program = "shared CPU" => CounterInv(SharedCpus)'
  BY OneRuns, CounterNext, Constants DEF ProgramsInv
<1>4. program = "list" => ListIInv'
  BY OneRuns, ListNext, Constants DEF ProgramsInv
<1>5. program = "vectors" => VectorInv'
  BY OneRuns, VectorNext, Constants DEF ProgramsInv
<1>6. program = "rendezvous" => MeetingInv'
  BY OneRuns, MeetingNext DEF ProgramsInv
<1>7. program = "tree" => TreeIInv'
  BY OneRuns, TreeNext, Constants DEF ProgramsInv
<1>8. program = "API" => APIInv'
  BY OneRuns, APINext DEF ProgramsInv
<1> QED BY <1>1, <1>2, <1>3, <1>4, <1>5, <1>6, <1>7, <1>8 DEF ProgramsInv

LEMMA ProgramsHold ==
  ASSUME ProgramsInv PROVE TypeOK /\ CountsAddUp /\ ResultsHold
<1>1. program = "own CPU" =>
        OwnCpu!TypeOK /\ OwnCpu!NothingLost /\ OwnCpu!SloppyByThreshold /\ OwnCpu!AssertGet
  BY OwnIs, OwnSumIs, CounterHolds, Constants DEF ProgramsInv, OwnInv
<1>2. program = "shared CPU" => SharedCpu!NothingLost /\ SharedCpu!SloppyByThreshold
  BY SharedIs, SharedSumIs, CounterHolds, Constants DEF ProgramsInv
<1>3. program = "list" => List!TypeOK /\ List!WorkerTestAsserts /\ List!NothingSkipped
  BY ListTyped, ListAsserts, ListLinked, Constants DEF ProgramsInv
<1>4. program = "vectors" => Vectors!TypeOK /\ Vectors!NoAdditionLost
  BY VectorHolds, Constants DEF ProgramsInv
<1>5. program = "rendezvous" =>
        Meeting!TypeOK /\ Meeting!NeitherEarly /\ Meeting!OnlyFirstAccessRaces
  BY MeetingHolds DEF ProgramsInv, MeetingInv
<1>6. program = "tree" => Tree!TypeOK /\ Tree!WorkerTestAsserts /\ Tree!Searchable
  BY TreeAsserts, TreeSearchable, Constants DEF ProgramsInv, TreeIInv, TreeInv
<1>7. program = "API" => API!TypeOK /\ API!ResultsHold
  BY APIHolds DEF ProgramsInv
<1> QED BY <1>1, <1>2, <1>3, <1>4, <1>5, <1>6, <1>7 DEF TypeOK, CountsAddUp, ResultsHold

LEMMA ProgramsAtomic ==
  ASSUME ProgramsInv, ProgramsInv', [Next]_vars
  PROVE  /\ program = "list" => [List!Abstract!Next]_(List!Abstract!vars)
         /\ program = "tree" => [Tree!Abstract!Next]_(Tree!Abstract!vars)
         /\ program = "vectors" /\ Vectors!Locking => [Vectors!Abstract!Next]_(Vectors!Whole)
         /\ program = "list" => [List!NobodyPasses]_(List!vars)
<1>1. program' = program
  BY OneRuns
<1>2. program = "list" => [List!Abstract!Next]_(List!Abstract!vars)
  BY <1>1, OneRuns, ListAbstractNext, Constants DEF ProgramsInv
<1>3. program = "tree" => [Tree!Abstract!Next]_(Tree!Abstract!vars)
  BY <1>1, OneRuns, TreeAbstractNext, Constants DEF ProgramsInv
<1>4. program = "vectors" /\ Vectors!Locking => [Vectors!Abstract!Next]_(Vectors!Whole)
  BY <1>1, OneRuns, VectorAbstractNext, Constants DEF ProgramsInv
<1>5. program = "list" => [List!NobodyPasses]_(List!vars)
  BY OneRuns, NobodyOvertakes, Constants DEF ProgramsInv
<1> QED BY <1>2, <1>3, <1>4, <1>5

\* Every counter, mutex, node and statement is of its kind, and a thread that
\* walks over the list or a tree, or adds vectors, has the locks for it: for any
\* number of threads, iterations, CPUs and elements.
THEOREM TypeCorrect == Spec => []TypeOK
<1>1. Init => ProgramsInv
  BY ProgramsInit
<1>2. ProgramsInv /\ [Next]_vars => ProgramsInv'
  BY ProgramsNext
<1>3. ProgramsInv => TypeOK
  BY ProgramsHold
<1> QED BY <1>1, <1>2, <1>3, PTL DEF Spec

\* No increment of a sloppy counter is lost or counted twice, and it is sloppy
\* by less than a threshold for each CPU (counter_sloppy.cpp:14-28).
THEOREM CountsCorrect == Spec => []CountsAddUp
<1>1. Init => ProgramsInv
  BY ProgramsInit
<1>2. ProgramsInv /\ [Next]_vars => ProgramsInv'
  BY ProgramsNext
<1>3. ProgramsInv => CountsAddUp
  BY ProgramsHold
<1> QED BY <1>1, <1>2, <1>3, PTL DEF Spec

\* What the programs assert of themselves holds, trees can be searched, no
\* addition or locked increment is lost, and lines are printed in their order.
THEOREM ResultsCorrect == Spec => []ResultsHold
<1>1. Init => ProgramsInv
  BY ProgramsInit
<1>2. ProgramsInv /\ [Next]_vars => ProgramsInv'
  BY ProgramsNext
<1>3. ProgramsInv => ResultsHold
  BY ProgramsHold
<1> QED BY <1>1, <1>2, <1>3, PTL DEF Spec

\* Insertions, searches and additions that interleave lock by lock and element
\* by element implement the atomic ones of ListSpec and VectorSpec, and no
\* thread passes another on its way over the list.
THEOREM LooksAtomic == Spec => Atomic
<1>1. Init => ProgramsInv
  BY ProgramsInit
<1>2. ProgramsInv /\ [Next]_vars => ProgramsInv'
  BY ProgramsNext
<1>3. Init => /\ program = "list" => List!Abstract!Init
              /\ program = "tree" => Tree!Abstract!Init
              /\ program = "vectors" => Vectors!Abstract!Init
  <2> SUFFICES ASSUME Init
               PROVE  /\ program = "list" => List!Abstract!Init
                      /\ program = "tree" => Tree!Abstract!Init
                      /\ program = "vectors" => Vectors!Abstract!Init
    OBVIOUS
  <2>1. program = "list" => List!Abstract!Init
    BY ProgramsInit, ListAbstractInit, Constants
  <2>2. program = "tree" => Tree!Abstract!Init
    BY ProgramsInit, TreeAbstractInit, Constants
  <2>3. program = "vectors" => Vectors!Abstract!Init
    BY ProgramsInit, VectorAbstractInit, Constants
  <2> QED BY <2>1, <2>2, <2>3
<1>4. ProgramsInv /\ ProgramsInv' /\ [Next]_vars =>
        [/\ program = "list" => [List!Abstract!Next]_(List!Abstract!vars)
         /\ program = "tree" => [Tree!Abstract!Next]_(Tree!Abstract!vars)]_vars
  BY ProgramsAtomic
<1>5. ProgramsInv /\ ProgramsInv' /\ [Next]_vars =>
        [program = "vectors" => (Vectors!Locking => Vectors!Abstract!Next)]_(Vectors!Whole)
  BY ProgramsAtomic
<1>6. ProgramsInv /\ ProgramsInv' /\ [Next]_vars =>
        [program = "list" => List!NobodyPasses]_vars
  <2> SUFFICES ASSUME ProgramsInv, ProgramsInv', [Next]_vars, program = "list", vars' # vars
               PROVE  List!NobodyPasses
    OBVIOUS
  <2>1. [List!NobodyPasses]_(List!vars)
    BY ProgramsAtomic
  <2>2. UNCHANGED List!vars => List!NobodyPasses
    BY DEF List!vars, List!NobodyPasses, List!Front, List!Walking
  <2> QED BY <2>1, <2>2
<1> QED BY <1>1, <1>2, <1>3, <1>4, <1>5, <1>6, PTL DEF Spec, Atomic

=============================================================================
