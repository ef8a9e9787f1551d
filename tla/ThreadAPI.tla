------------------------------ MODULE ThreadAPI ------------------------------
(***************************************************************************)
(* The programs of hw27-threads-api (main-*.c), and fork-join.cpp of       *)
(* hw31-threads-sema: main() and one or two workers with mutexes, a        *)
(* condition variable or a semaphore between them.  A thread executes the  *)
(* statements of its Body; the workers exist from the start, since what    *)
(* main() does before it creates them concerns nobody else.                *)
(***************************************************************************)
EXTENDS Integers, Sequences

CONSTANT Programs

VARIABLES
  api,        \* the program
  pc,         \* the index of the next statement of each thread
  loaded,     \* what each thread has read of balance
  owner,      \* of every mutex
  balance, done, semaphore,
  sleeping,   \* what pthread_cond_wait() does for each thread
  printed

vars == <<api, pc, loaded, owner, balance, done, semaphore, sleeping, printed>>

Main == 2
Threads == 0..2
Mutexes == {"g", "m1", "m2", "lock"}
None == -1

Lock(m) == [op |-> "lock", arg |-> m]
Unlock(m) == [op |-> "unlock", arg |-> m]
Say(line) == [op |-> "print", arg |-> line]
Do(op) == [op |-> op, arg |-> ""]

\* The workers take m1 and m2 in opposite orders.
CrossedLocks(t) ==
  (IF t = 0 THEN <<Lock("m1"), Lock("m2")>> ELSE <<Lock("m2"), Lock("m1")>>)
    \o <<Unlock("m1"), Unlock("m2")>>

Increment == <<Do("load"), Do("store")>>
LockedIncrement == <<Lock("lock")>> \o Increment \o <<Unlock("lock")>>

SignalDone == <<Lock("lock"), Do("set"), Do("signal"), Unlock("lock")>>
SignalWait == <<Lock("lock"), Do("wait"), Unlock("lock")>>

\* Of the other programs, which have one worker.
MainOr(main, worker, t) ==
  IF t = Main THEN main ELSE IF t = 0 THEN worker ELSE <<>>

Body(t) ==
  CASE api = "main-deadlock" ->
         IF t = Main THEN <<Do("join")>> ELSE CrossedLocks(t)
    [] api = "main-deadlock-global" ->
         IF t = Main THEN <<Do("join")>>
         ELSE <<Lock("g")>> \o CrossedLocks(t) \o <<Unlock("g")>>
    [] api = "main-race" -> MainOr(Increment \o <<Do("join")>>, Increment, t)
    [] api = "main-race-fix" ->
         MainOr(LockedIncrement \o <<Do("join")>>, LockedIncrement, t)
    [] api = "main-signal" ->
         MainOr(<<Do("spin"), Say("last")>>, <<Say("first"), Do("set")>>, t)
    [] api = "main-signal-cv" ->
         MainOr(SignalWait \o <<Say("last")>>, <<Say("first")>> \o SignalDone, t)
    [] api = "fork-join" ->
         MainOr(<<Do("acquire"), Say("last"), Do("join")>>,
                <<Say("first"), Do("release")>>, t)

Init ==
  /\ api \in Programs
  /\ pc = [t \in Threads |-> 1]
  /\ loaded = [t \in Threads |-> 0]
  /\ owner = [m \in Mutexes |-> None]
  /\ balance = 0 /\ done = 0 /\ semaphore = 0
  /\ sleeping = [t \in Threads |-> "no"]
  /\ printed = <<>>

Returned(t) == pc[t] > Len(Body(t))

At(t, op) == ~Returned(t) /\ Body(t)[pc[t]].op = op
Arg(t) == Body(t)[pc[t]].arg
Step(t, op) == At(t, op) /\ pc' = [pc EXCEPT ![t] = @ + 1]

-----------------------------------------------------------------------------

LockMutex(t) ==
  /\ Step(t, "lock") /\ owner[Arg(t)] = None
  /\ owner' = [owner EXCEPT ![Arg(t)] = t]
  /\ UNCHANGED <<api, loaded, balance, done, semaphore, sleeping, printed>>

UnlockMutex(t) ==
  /\ Step(t, "unlock")
  /\ owner' = [owner EXCEPT ![Arg(t)] = None]
  /\ UNCHANGED <<api, loaded, balance, done, semaphore, sleeping, printed>>

\* balance++
Load(t) ==
  /\ Step(t, "load")
  /\ loaded' = [loaded EXCEPT ![t] = balance]
  /\ UNCHANGED <<api, owner, balance, done, semaphore, sleeping, printed>>

Store(t) ==
  /\ Step(t, "store")
  /\ balance' = loaded[t] + 1
  /\ UNCHANGED <<api, loaded, owner, done, semaphore, sleeping, printed>>

PrintLine(t) ==
  /\ Step(t, "print")
  /\ printed' = Append(printed, Arg(t))
  /\ UNCHANGED <<api, loaded, owner, balance, done, semaphore, sleeping>>

SetDone(t) ==
  /\ Step(t, "set")
  /\ done' = 1
  /\ UNCHANGED <<api, loaded, owner, balance, semaphore, sleeping, printed>>

\* The loop reads done again and again: it is compiled without optimization.
Spin(t) ==
  /\ Step(t, "spin") /\ done # 0
  /\ UNCHANGED <<api, loaded, owner, balance, done, semaphore, sleeping, printed>>

\* while (done == 0) pthread_cond_wait(): the test, and the call that gives the
\* mutex back as it goes to sleep.
WaitTest(t) ==
  /\ sleeping[t] = "no" /\ done = 0 /\ At(t, "wait")
  /\ sleeping' = [sleeping EXCEPT ![t] = "called"]
  /\ UNCHANGED <<api, pc, loaded, owner, balance, done, semaphore, printed>>

WaitLeave(t) ==
  /\ sleeping[t] = "no" /\ done # 0 /\ Step(t, "wait")
  /\ UNCHANGED <<api, loaded, owner, balance, done, semaphore, sleeping, printed>>

WaitSleep(t) ==
  /\ sleeping[t] = "called" /\ At(t, "wait")
  /\ sleeping' = [sleeping EXCEPT ![t] = "asleep"]
  /\ owner' = [owner EXCEPT !["lock"] = None]
  /\ UNCHANGED <<api, pc, loaded, balance, done, semaphore, printed>>

\* A thread that was woken takes the mutex before it tests again.
WaitRelock(t) ==
  /\ At(t, "wait") /\ sleeping[t] = "woken" /\ owner["lock"] = None
  /\ sleeping' = [sleeping EXCEPT ![t] = "no"]
  /\ owner' = [owner EXCEPT !["lock"] = t]
  /\ UNCHANGED <<api, pc, loaded, balance, done, semaphore, printed>>

\* pthread_cond_wait() may return without a signal; it need not.
SpuriousWakeup(t) ==
  /\ sleeping[t] = "asleep"
  /\ sleeping' = [sleeping EXCEPT ![t] = "woken"]
  /\ UNCHANGED <<api, pc, loaded, owner, balance, done, semaphore, printed>>

\* A signal wakes a thread that sleeps now, or nobody.
Signal(t) ==
  /\ Step(t, "signal")
  /\ sleeping' = [u \in Threads |-> IF sleeping[u] = "asleep" THEN "woken" ELSE sleeping[u]]
  /\ UNCHANGED <<api, loaded, owner, balance, done, semaphore, printed>>

Acquire(t) ==
  /\ Step(t, "acquire") /\ semaphore > 0
  /\ semaphore' = semaphore - 1
  /\ UNCHANGED <<api, loaded, owner, balance, done, sleeping, printed>>

Release(t) ==
  /\ Step(t, "release")
  /\ semaphore' = semaphore + 1
  /\ UNCHANGED <<api, loaded, owner, balance, done, sleeping, printed>>

Join(t) ==
  /\ Step(t, "join") /\ Returned(0) /\ Returned(1)
  /\ UNCHANGED <<api, loaded, owner, balance, done, semaphore, sleeping, printed>>

\* When main() returns the process ends, whatever its threads do.
AllDone == Returned(Main)

Thread(t) ==
  /\ ~AllDone
  /\ \/ LockMutex(t) \/ UnlockMutex(t) \/ Load(t) \/ Store(t) \/ PrintLine(t)
     \/ SetDone(t) \/ Spin(t) \/ WaitTest(t) \/ WaitLeave(t) \/ WaitSleep(t)
     \/ WaitRelock(t) \/ Signal(t) \/ Acquire(t) \/ Release(t) \/ Join(t)

\* main-deadlock.c may deadlock, and is there for that.
CircularWait ==
  /\ api = "main-deadlock"
  /\ \A t \in {0, 1} : At(t, "lock") /\ owner[Arg(t)] = 1 - t

Ended == (AllDone \/ CircularWait) /\ UNCHANGED vars

Next ==
  \/ \E t \in Threads : Thread(t)
  \/ (~AllDone /\ SpuriousWakeup(Main))
  \/ Ended

Spec == Init /\ [][Next]_vars

-----------------------------------------------------------------------------
(* Properties.                                                             *)

\* A thread has exactly the mutexes that it has locked and not yet unlocked,
\* but for the one it gives back while it sleeps.
Has(t, m) ==
  /\ \E k \in 1 .. (pc[t] - 1) :
       /\ Body(t)[k] = Lock(m)
       /\ \A l \in k .. (pc[t] - 1) : Body(t)[l] # Unlock(m)
  /\ sleeping[t] \in {"no", "called"}

TypeOK == \A t \in Threads, m \in Mutexes : Has(t, m) <=> owner[m] = t

\* balance counts both increments where they are locked, and one at least where
\* they race; what should be printed last is, and is printed.
ResultsHold ==
  /\ AllDone /\ api = "main-race-fix" => balance = 2
  /\ AllDone /\ api = "main-race" => balance \in {1, 2}
  /\ printed \in {<<>>, <<"first">>, <<"first", "last">>}

=============================================================================
