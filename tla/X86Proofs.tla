------------------------------ MODULE X86Proofs ------------------------------
(***************************************************************************)
(* Proofs about the simulator X86, for every number of threads, time slice *)
(* and schedule.                                                           *)
(*                                                                         *)
(* First, that it implements the threads of X86Threads, whatever program   *)
(* it runs.  What an instruction does (Execution) is not expanded there:   *)
(* that the same registers go in and come out is enough.                   *)
(*                                                                         *)
(* Then, that the locks of X86Locks exclude.  Each lock has an invariant   *)
(* over the offsets of the threads in its listing; what its instructions   *)
(* do follows from lemmas about Execution, one per instruction.            *)
(*                                                                         *)
(* Last, that they lose no increment: what the word has been incremented   *)
(* by, and what the threads have left to do, make up all there is to do.   *)
(***************************************************************************)
EXTENDS X86Locks, FiniteSetTheorems, TLAPS

\* The running thread is on the schedule and has not halted.
Inv ==
  /\ opt \in Options
  /\ curr \in 0 .. ScheduleLength - 1
  /\ DOMAIN saved = Threads
  /\ done \subseteq Threads
  /\ Running => Current \notin done

\* Every entry of a schedule is a thread.
LEMMA ScheduledThreads ==
  ASSUME opt \in Options, NEW n \in 0 .. ScheduleLength - 1
  PROVE  Scheduled(n) \in Threads
<1>1. CASE IsManual
  <2>1. n + 1 \in 1 .. Len(opt.procsched)
    BY <1>1, X86Assumption DEF ScheduleLength
  <2>2. opt.procsched[n + 1] \in {opt.procsched[m] : m \in 1 .. Len(opt.procsched)}
    BY <2>1
  <2> QED  BY <1>1, <2>2, X86Assumption DEF IsManual, Scheduled, Threads
<1>2. CASE ~IsManual
  BY <1>2, X86Assumption DEF ScheduleLength, Scheduled, Threads
<1> QED  BY <1>1, <1>2

\* Threads, schedules and programs depend on the options alone.
LEMMA OptionsFixed ==
  ASSUME opt' = opt
  PROVE  /\ Threads' = Threads /\ Code' = Code /\ ScheduleLength' = ScheduleLength
         /\ \A n : Scheduled(n)' = Scheduled(n)
BY DEF Threads, Code, ScheduleLength, Scheduled, IsManual

\* A switch finds a thread that has not halted.
LEMMA SwitchFinds ==
  ASSUME NEW from, NEW to, NEW finished, NextIndex(from, to, finished)
  PROVE  Scheduled(to) \notin finished
BY DEF NextIndex

LEMMA InitInv == Init => Inv
<1> SUFFICES ASSUME Init PROVE Inv
  OBVIOUS
<1>1. opt \in Options /\ done = {} /\ DOMAIN saved = Threads
  BY DEF Init
<1>2. 0 \in 0 .. ScheduleLength - 1
  <2>1. CASE IsManual
    <3>1. opt.procsched \in Seq(Nat) /\ opt.procsched # <<>>
      BY <1>1, <2>1, X86Assumption DEF IsManual
    <3>2. Len(opt.procsched) \in Nat \ {0}
      BY <3>1
    <3> QED  BY <2>1, <3>2 DEF ScheduleLength
  <2>2. CASE ~IsManual
    BY <1>1, <2>2, X86Assumption DEF ScheduleLength
  <2> QED  BY <2>1, <2>2
<1> QED  BY <1>1, <1>2 DEF Inv, Init

LEMMA NextInv == Inv /\ [Next]_vars => Inv'
<1> SUFFICES ASSUME Inv, [Next]_vars PROVE Inv'
  OBVIOUS
<1>1. opt' = opt
  BY DEF Next, Execute, Interrupt, Halts, HaltSwitch, HaltInterrupt, HaltLast, Terminated, vars
<1>2. /\ Threads' = Threads /\ ScheduleLength' = ScheduleLength
      /\ \A n : Scheduled(n)' = Scheduled(n)
  BY <1>1, OptionsFixed
<1>3. Running => Current \in Threads \ done
  BY ScheduledThreads DEF Inv, Current
<1>4. CASE Execute
  BY <1>1, <1>2, <1>4 DEF Execute, Inv, Running, Current, processes
<1>5. CASE Interrupt
  <2>1. PICK n \in 0 .. ScheduleLength - 1 : NextIndex(curr, n, done) /\ curr' = n
    BY <1>5 DEF Interrupt, SwitchTo
  <2>2. Scheduled(n) \notin done
    BY <2>1, SwitchFinds
  <2>3. DOMAIN saved' = DOMAIN saved /\ done' = done
    BY <1>5 DEF Interrupt
  <2> QED  BY <1>1, <1>2, <2>1, <2>2, <2>3 DEF Inv, Running, Current
<1>6. CASE HaltSwitch
  <2>1. PICK n \in 0 .. ScheduleLength - 1 : NextIndex(curr, n, done') /\ curr' = n
    BY <1>6 DEF HaltSwitch, SwitchTo
  <2>2. Scheduled(n) \notin done'
    BY <2>1, SwitchFinds
  <2>3. done' = done \cup {Current} /\ saved' = saved
    BY <1>6 DEF HaltSwitch, Halts
  <2> QED  BY <1>1, <1>2, <1>3, <1>6, <2>1, <2>2, <2>3 DEF Inv, Running, Current, HaltSwitch, Halts
<1>7. CASE HaltInterrupt
  <2>1. PICK m \in 0 .. ScheduleLength - 1, n \in 0 .. ScheduleLength - 1 :
          NextIndex(m, n, done') /\ curr' = n
    BY <1>7 DEF HaltInterrupt, SwitchTo
  <2>2. Scheduled(n) \notin done'
    BY <2>1, SwitchFinds
  <2>3. done' = done \cup {Current} /\ saved' = saved
    BY <1>7 DEF HaltInterrupt, Halts
  <2> QED  BY <1>1, <1>2, <1>3, <1>7, <2>1, <2>2, <2>3 DEF Inv, Running, Current, HaltInterrupt, Halts
<1>8. CASE HaltLast
  BY <1>1, <1>2, <1>3, <1>8 DEF HaltLast, Halts, Inv, Running, Current
<1>9. CASE Terminated \/ UNCHANGED vars
  BY <1>9, <1>2 DEF Terminated, vars, processes, Inv, Running, Current
<1> QED  BY <1>4, <1>5, <1>6, <1>7, <1>8, <1>9 DEF Next

-----------------------------------------------------------------------------

\* What a thread sees after a step is its new context, and other threads see
\* no change.
LEMMA SwitchContexts ==
  ASSUME Inv, Running, opt' = opt, NEW c,
         done' = done,
         saved' = [saved EXCEPT ![Current] = c],
         curr' \in 0 .. ScheduleLength - 1,
         cpu' = saved'[Scheduled(curr')]
  PROVE  ThreadContexts' = [ThreadContexts EXCEPT ![Current] = c]
<1>1. Threads' = Threads /\ Current' = Scheduled(curr')
  BY OptionsFixed DEF Current
<1>2. Current \in Threads \ done
  BY ScheduledThreads DEF Inv, Current
<1>3. \A t \in Threads : ThreadContexts'[t] = IF t \in done THEN Halted ELSE saved'[t]
  BY <1>1 DEF ThreadContexts
<1>4. \A t \in Threads : t # Current => saved'[t] = saved[t]
  OBVIOUS
<1>5. saved'[Current] = c
  BY <1>2 DEF Inv
<1> QED  BY <1>1, <1>2, <1>3, <1>4, <1>5 DEF ThreadContexts

\* When the running thread halts, whoever is restored next.
LEMMA HaltContexts ==
  ASSUME Inv, Running, opt' = opt,
         done' = done \cup {Current},
         saved' = saved,
         NEW n \in 0 .. ScheduleLength - 1, curr' = n, cpu' = saved[Scheduled(n)]
  PROVE  ThreadContexts' = [ThreadContexts EXCEPT ![Current] = Halted]
<1>1. Threads' = Threads /\ Current' = Scheduled(n)
  BY OptionsFixed DEF Current
<1>2. Current \in Threads \ done
  BY ScheduledThreads DEF Inv, Current
<1>3. \A t \in Threads :
        ThreadContexts'[t] = IF t \in done \cup {Current} THEN Halted ELSE saved[t]
  BY <1>1 DEF ThreadContexts
<1> QED  BY <1>1, <1>2, <1>3 DEF ThreadContexts

LEMMA InitRefines == Init => ThreadsSpec!Init
<1> SUFFICES ASSUME Init PROVE ThreadsSpec!Init
  OBVIOUS
<1>1. ThreadContexts = saved
  <2>1. /\ done = {} /\ cpu = saved[Current]
        /\ saved = [t \in Threads |-> saved[t]]
    BY DEF Init
  <2>2. ThreadContexts = [t \in Threads |-> saved[t]]
    BY <2>1 DEF ThreadContexts
  <2> QED  BY <2>1, <2>2
<1>2. \A t \in DOMAIN saved : saved[t].cc = {} /\ saved[t].pc = LoadAddr
  BY DEF Init
<1> QED  BY <1>1, <1>2 DEF ThreadsSpec!Init, ThreadsSpec!Threads, Init

LEMMA NextRefines ==
  Inv /\ [Next]_vars => [ThreadsSpec!Next]_(ThreadsSpec!vars)
<1> SUFFICES ASSUME Inv, [Next]_vars PROVE [ThreadsSpec!Next]_(ThreadsSpec!vars)
  OBVIOUS
<1>1. ThreadsSpec!Threads = Threads /\ ThreadsSpec!Code = Code
  BY DEF ThreadsSpec!Threads, ThreadsSpec!Code, ThreadContexts, Code
<1>2. ASSUME Running
      PROVE  Current \in Threads \ done /\ ThreadContexts[Current] = cpu
  BY <1>2, ScheduledThreads DEF Inv, Current, ThreadContexts
<1>3. ASSUME Running, Fetched # "halt", opt' = opt, done' = done,
             memory' = After.memory,
             ThreadContexts' = [ThreadContexts EXCEPT ![Current] = Context(After)]
      PROVE  ThreadsSpec!Next
  <2>1. After \in {Execution(ThreadsSpec!Code, ThreadContexts[Current], memory)}
    BY <1>1, <1>2, <1>3 DEF After
  <2>2. Opcode(ThreadsSpec!Code[ThreadContexts[Current].pc]) # "halt"
    BY <1>1, <1>2, <1>3 DEF Fetched
  <2>3. ThreadsSpec!Execute(Current)
    BY <1>1, <1>2, <1>3, <2>1, <2>2 DEF ThreadsSpec!Execute
  <2> QED  BY <1>1, <1>2, <1>3, <2>3 DEF ThreadsSpec!Next, ThreadsSpec!Step
<1>4. ASSUME Halts,
             ThreadContexts' = [ThreadContexts EXCEPT ![Current] = Halted]
      PROVE  ThreadsSpec!Next
  <2>1. Running /\ Fetched = "halt" /\ done' = done \cup {Current} /\ UNCHANGED <<opt, memory>>
    BY <1>4 DEF Halts
  <2>2. Opcode(ThreadsSpec!Code[ThreadContexts[Current].pc]) = "halt"
    BY <1>1, <1>2, <2>1 DEF Fetched
  <2>3. ThreadsSpec!Halt(Current)
    BY <1>1, <1>2, <1>4, <2>1, <2>2 DEF ThreadsSpec!Halt
  <2> QED  BY <1>1, <1>2, <2>1, <2>3 DEF ThreadsSpec!Next, ThreadsSpec!Step
<1>5. CASE Execute
  <2>1. cpu' = Context(After) /\ memory' = After.memory /\ UNCHANGED <<opt, saved, done, curr>>
    BY <1>5 DEF Execute, processes
  <2>2. Threads' = Threads /\ Current' = Current
    BY <2>1, OptionsFixed DEF Current
  <2>3. ThreadContexts' = [ThreadContexts EXCEPT ![Current] = Context(After)]
    BY <1>2, <1>5, <2>1, <2>2 DEF ThreadContexts, Execute
  <2> QED  BY <1>3, <1>5, <2>1, <2>3 DEF Execute
<1>6. CASE Interrupt
  <2>1. /\ saved' = [saved EXCEPT ![Current] = Context(After)] /\ memory' = After.memory
        /\ opt' = opt /\ done' = done
    BY <1>6 DEF Interrupt
  <2>2. curr' \in 0 .. ScheduleLength - 1 /\ cpu' = saved'[Scheduled(curr')]
    BY <1>6 DEF Interrupt, SwitchTo
  <2>3. ThreadContexts' = [ThreadContexts EXCEPT ![Current] = Context(After)]
    BY <1>6, <2>1, <2>2, SwitchContexts DEF Interrupt
  <2> QED  BY <1>3, <1>6, <2>1, <2>3 DEF Interrupt
<1>7. CASE HaltSwitch \/ HaltInterrupt
  <2>1. Halts /\ Running /\ saved' = saved /\ done' = done \cup {Current} /\ opt' = opt
    BY <1>7 DEF HaltSwitch, HaltInterrupt, Halts
  <2>2. PICK n \in 0 .. ScheduleLength - 1 : curr' = n /\ cpu' = saved[Scheduled(n)]
    BY <1>7 DEF HaltSwitch, HaltInterrupt, SwitchTo
  <2>3. ThreadContexts' = [ThreadContexts EXCEPT ![Current] = Halted]
    BY <2>1, <2>2, HaltContexts
  <2> QED  BY <1>4, <2>1, <2>3
<1>8. CASE HaltLast
  <2>1. /\ Halts /\ Running /\ done' = done \cup {Current}
        /\ UNCHANGED <<opt, cpu, saved, curr>>
    BY <1>8 DEF HaltLast, Halts
  <2>2. Threads' = Threads /\ Current' = Current
    BY <2>1, OptionsFixed DEF Current
  <2>3. ThreadContexts' = [ThreadContexts EXCEPT ![Current] = Halted]
    BY <1>2, <2>1, <2>2 DEF ThreadContexts
  <2> QED  BY <1>4, <2>1, <2>3
<1>9. CASE Terminated \/ UNCHANGED vars
  <2>1. UNCHANGED <<opt, cpu, memory, saved, done, curr>>
    BY <1>9 DEF Terminated, vars, processes
  <2>2. ThreadContexts' = ThreadContexts
    BY <2>1 DEF ThreadContexts, Threads, Current, Scheduled, IsManual
  <2> QED  BY <2>1, <2>2 DEF ThreadsSpec!vars
<1> QED  BY <1>5, <1>6, <1>7, <1>8, <1>9 DEF Next

\* The simulator gives every program independent threads that share memory:
\* x86.py's run() and process list implement X86Threads.
THEOREM Refinement == Spec => Implements
<1>1. Spec => []Inv
  BY InitInv, NextInv, PTL DEF Spec
<1> QED  BY <1>1, InitRefines, NextRefines, PTL DEF Spec, Implements, ThreadsSpec!Spec

-----------------------------------------------------------------------------
(* What an instruction does.                                               *)

Machine(pc, regs, cc, m) == [pc |-> pc, regs |-> regs, cc |-> cc, memory |-> m]
Memories == [Addresses -> Int]
Set(f, x, v) == [f EXCEPT ![x] = v]

\* A context of a program that leaves the register zero alone.
Sane(c) == c \in Contexts /\ c.regs["zero"] = 0

\* The machine after the instruction at c, with memory m, has these fields.
Does(code, c, m, pc, regs, cc, n) == Execution(code, c, m) = Machine(pc, regs, cc, n)

LEMMA Fields ==
  ASSUME NEW p, NEW g, NEW k, NEW m
  PROVE  /\ Machine(p, g, k, m).pc = p /\ Machine(p, g, k, m).regs = g
         /\ Machine(p, g, k, m).cc = k /\ Machine(p, g, k, m).memory = m
BY DEF Machine

LEMMA Setters ==
  ASSUME NEW p, NEW g, NEW k, NEW m
  PROVE  /\ \A r, v : SetReg(Machine(p, g, k, m), r, v) = Machine(p, Set(g, r, v), k, m)
         /\ \A a, v : Store(Machine(p, g, k, m), a, v) = Machine(p, g, k, Set(m, a, v))
         /\ \A v : Jump(Machine(p, g, k, m), v) = Machine(v, g, k, m)
         /\ \A v : [Machine(p, g, k, m) EXCEPT !.cc = v] = Machine(p, g, v, m)
<1>1. \A r, v : SetReg(Machine(p, g, k, m), r, v) = Machine(p, Set(g, r, v), k, m)
  BY DEF Machine, SetReg, Set
<1>2. \A a, v : Store(Machine(p, g, k, m), a, v) = Machine(p, g, k, Set(m, a, v))
  BY DEF Machine, Store, Set
<1>3. \A v : Jump(Machine(p, g, k, m), v) = Machine(v, g, k, m)
  BY DEF Machine, Jump
<1>4. \A v : [Machine(p, g, k, m) EXCEPT !.cc = v] = Machine(p, g, v, m)
  BY DEF Machine
<1> QED BY <1>1, <1>2, <1>3, <1>4

LEMMA Operands ==
  ASSUME NEW s, s.regs["zero"] = 0
  PROVE  /\ \A v : Read(s, Imm(v)) = v /\ Imm(v).value = v
         /\ \A r : Read(s, Reg(r)) = s.regs[r] /\ Reg(r).reg = r
         /\ \A r, v : Write(s, Reg(r), v) = SetReg(s, r, v)
         /\ \A a \in Int : /\ Address(s, At(a)) = a /\ AtomicAddress(s, At(a)) = a
                            /\ Read(s, At(a)) = s.memory[a]
                            /\ \A v : Write(s, At(a), v) = Store(s, a, v)
<1>1. ASSUME NEW v PROVE Read(s, Imm(v)) = v /\ Imm(v).value = v
  BY DEF Read, Imm
<1>2. ASSUME NEW r PROVE Read(s, Reg(r)) = s.regs[r] /\ Reg(r).reg = r
  BY DEF Read, Reg
<1>3. ASSUME NEW r, NEW v PROVE Write(s, Reg(r), v) = SetReg(s, r, v)
  BY DEF Write, Reg
<1>4. ASSUME NEW a \in Int PROVE Address(s, At(a)) = a
  BY DEF Address, At, Mem
<1>5. ASSUME NEW a \in Int PROVE AtomicAddress(s, At(a)) = a
  BY DEF AtomicAddress, At, Mem
<1>6. ASSUME NEW a \in Int PROVE Read(s, At(a)) = s.memory[a]
  BY <1>4 DEF Read, At, Mem
<1>7. ASSUME NEW a \in Int, NEW v PROVE Write(s, At(a), v) = Store(s, a, v)
  BY <1>4 DEF Write, At, Mem
<1> QED BY <1>1, <1>2, <1>3, <1>4, <1>5, <1>6, <1>7

LEMMA Straight ==
  ASSUME NEW s, NEW op \in {"mov", "lea", "add", "sub", "neg", "xchg", "fetchadd", "test",
                            "yield"}
  PROVE  ~Jumps(s, op)
BY DEF Jumps, ConditionOf

LEMMA Dispatch ==
  ASSUME NEW s, NEW i
  PROVE  /\ i[1] = "mov" => Eval(i, s) = Write(s, i[3], Read(s, i[2]))
         /\ i[1] = "lea" => Eval(i, s) = SetReg(s, i[3].reg, Address(s, i[2]))
         /\ i[1] = "add" =>
              Eval(i, s) = Write(s, i[3], Arith("add", Read(s, i[3]), Read(s, i[2])))
         /\ i[1] = "sub" =>
              Eval(i, s) = Write(s, i[3], Arith("sub", Read(s, i[3]), Read(s, i[2])))
         /\ i[1] = "neg" => Eval(i, s) = Write(s, i[2], -Read(s, i[2]))
         /\ i[1] = "xchg" => Eval(i, s) = Exchange(s, i[2], i[3])
         /\ i[1] = "fetchadd" => Eval(i, s) = FetchAdd(s, i[2], i[3])
         /\ i[1] = "test" =>
              Eval(i, s) = [s EXCEPT !.cc = Conditions(Read(s, i[2]), Read(s, i[3]))]
         /\ i[1] = "yield" => Eval(i, s) = s
<1>1. i[1] = "mov" => Eval(i, s) = Write(s, i[3], Read(s, i[2]))
  BY Straight DEF Eval
<1>2. i[1] = "lea" => Eval(i, s) = SetReg(s, i[3].reg, Address(s, i[2]))
  BY Straight DEF Eval
<1>3. i[1] = "add" => Eval(i, s) = Write(s, i[3], Arith("add", Read(s, i[3]), Read(s, i[2])))
  BY Straight DEF Eval
<1>4. i[1] = "sub" => Eval(i, s) = Write(s, i[3], Arith("sub", Read(s, i[3]), Read(s, i[2])))
  BY Straight DEF Eval
<1>5. i[1] = "neg" => Eval(i, s) = Write(s, i[2], -Read(s, i[2]))
  BY Straight DEF Eval
<1>6. i[1] = "xchg" => Eval(i, s) = Exchange(s, i[2], i[3])
  BY Straight DEF Eval
<1>7. i[1] = "fetchadd" => Eval(i, s) = FetchAdd(s, i[2], i[3])
  BY Straight DEF Eval
<1>8. i[1] = "test" => Eval(i, s) = [s EXCEPT !.cc = Conditions(Read(s, i[2]), Read(s, i[3]))]
  BY Straight DEF Eval
<1>9. i[1] = "yield" => Eval(i, s) = s
  BY Straight DEF Eval
<1> QED BY <1>1, <1>2, <1>3, <1>4, <1>5, <1>6, <1>7, <1>8, <1>9

LEMMA DispatchJump ==
  ASSUME NEW s, NEW i
  PROVE  /\ i[1] = "j" => Eval(i, s) = Jump(s, i[2].value)
         /\ i[1] = "jne" => Eval(i, s) = IF "neq" \in s.cc THEN Jump(s, i[2].value) ELSE s
         /\ i[1] = "je" => Eval(i, s) = IF "eq" \in s.cc THEN Jump(s, i[2].value) ELSE s
         /\ i[1] = "jgt" => Eval(i, s) = IF "gt" \in s.cc THEN Jump(s, i[2].value) ELSE s
<1>1. Jumps(s, "j")
  BY DEF Jumps
<1>2. Jumps(s, "jne") <=> "neq" \in s.cc
  BY DEF Jumps, ConditionOf
<1>3. Jumps(s, "je") <=> "eq" \in s.cc
  BY DEF Jumps, ConditionOf
<1>4. Jumps(s, "jgt") <=> "gt" \in s.cc
  BY DEF Jumps, ConditionOf
<1>5. ASSUME NEW op \in {"j", "jne", "je", "jgt"}, i[1] = op
      PROVE  Eval(i, s) = IF Jumps(s, op) THEN Jump(s, i[2].value) ELSE s
  BY <1>5 DEF Eval
<1> QED BY <1>1, <1>2, <1>3, <1>4, <1>5

\* The conditions that the programs look at.
LEMMA Compares ==
  ASSUME NEW src \in Int, NEW dst \in Int
  PROVE  /\ Conditions(src, dst) \in SUBSET {"gt", "gte", "lt", "lte", "eq", "neq"}
         /\ "eq" \in Conditions(src, dst) <=> dst = src
         /\ "neq" \in Conditions(src, dst) <=> dst # src
         /\ "gt" \in Conditions(src, dst) <=> dst > src
BY DEF Conditions

\* The machine that eval() gets: the program counter is at the next instruction.
Fetching(c, m) == Machine(c.pc + 1, c.regs, c.cc, m)

LEMMA Fetch ==
  ASSUME NEW code, NEW c, Sane(c), NEW m
  PROVE  /\ Execution(code, c, m) = Eval(code[c.pc], Fetching(c, m))
         /\ Fetching(c, m).regs = c.regs /\ Fetching(c, m).cc = c.cc
         /\ Fetching(c, m).memory = m /\ Fetching(c, m).regs["zero"] = 0
<1>1. Execution(code, c, m) = Eval(code[c.pc], Fetching(c, m))
  BY DEF Execution, Fetching, Machine
<1>2. /\ Fetching(c, m).regs = c.regs /\ Fetching(c, m).cc = c.cc
      /\ Fetching(c, m).memory = m
  BY Fields DEF Fetching
<1> QED BY <1>1, <1>2 DEF Sane

LEMMA Values ==
  ASSUME NEW c, Sane(c), NEW m
  PROVE  /\ \A v : Read(Fetching(c, m), Imm(v)) = v
         /\ \A r : Read(Fetching(c, m), Reg(r)) = c.regs[r]
         /\ \A a \in Int : Read(Fetching(c, m), At(a)) = m[a]
<1>1. /\ Fetching(c, m).regs = c.regs /\ Fetching(c, m).memory = m
      /\ Fetching(c, m).regs["zero"] = 0
  BY Fetch
<1> QED BY <1>1, Operands

\* mov, add and sub to a register.
LEMMA ToRegister ==
  ASSUME NEW code, NEW c, Sane(c), NEW m, NEW op, NEW src, NEW r,
         code[c.pc] = <<op, src, Reg(r)>>
  PROVE  /\ op = "mov" =>
              Does(code, c, m, c.pc + 1, Set(c.regs, r, Read(Fetching(c, m), src)), c.cc, m)
         /\ op = "add" =>
              Does(code, c, m, c.pc + 1, Set(c.regs, r, c.regs[r] + Read(Fetching(c, m), src)),
                   c.cc, m)
         /\ op = "sub" =>
              Does(code, c, m, c.pc + 1, Set(c.regs, r, c.regs[r] - Read(Fetching(c, m), src)),
                   c.cc, m)
<1> DEFINE s == Fetching(c, m)
           i == code[c.pc]
           x == Read(s, src)
<1>1. i[1] = op /\ i[2] = src /\ i[3] = Reg(r)
  OBVIOUS
<1>2. Execution(code, c, m) = Eval(i, s) /\ s.regs = c.regs /\ s.regs["zero"] = 0
  BY Fetch
<1>3. ASSUME NEW w PROVE SetReg(s, r, w) = Machine(c.pc + 1, Set(c.regs, r, w), c.cc, m)
  BY Setters DEF Fetching
<1> HIDE DEF s, i, x
<1>4. Read(s, Reg(r)) = c.regs[r] /\ \A w : Write(s, Reg(r), w) = SetReg(s, r, w)
  BY <1>2, Operands
<1>5. op = "mov" => Eval(i, s) = SetReg(s, r, x)
  BY <1>1, <1>4, Dispatch DEF x
<1>6. op = "add" => Eval(i, s) = SetReg(s, r, c.regs[r] + x)
  BY <1>1, <1>4, Dispatch DEF x, Arith
<1>7. op = "sub" => Eval(i, s) = SetReg(s, r, c.regs[r] - x)
  BY <1>1, <1>4, Dispatch DEF x, Arith
<1> QED BY <1>2, <1>3, <1>5, <1>6, <1>7 DEF Does, x, s

\* mov to a word of memory.
LEMMA ToMemory ==
  ASSUME NEW code, NEW c, Sane(c), NEW m, NEW src, NEW dst, dst.type = "memory",
         NEW a, Address(Fetching(c, m), dst) = a,
         code[c.pc] = <<"mov", src, dst>>
  PROVE  Does(code, c, m, c.pc + 1, c.regs, c.cc,
              Set(m, a, Read(Fetching(c, m), src)))
<1> DEFINE s == Fetching(c, m)
           i == code[c.pc]
           x == Read(s, src)
<1>1. i[1] = "mov" /\ i[2] = src /\ i[3] = dst
  OBVIOUS
<1>2. Execution(code, c, m) = Eval(i, s)
  BY Fetch
<1>3. ASSUME NEW w PROVE Store(s, a, w) = Machine(c.pc + 1, c.regs, c.cc, Set(m, a, w))
  BY Setters DEF Fetching
<1>4. ASSUME NEW w PROVE Write(s, dst, w) = Store(s, a, w)
  BY DEF Write
<1> HIDE DEF s, i, x
<1>5. Eval(i, s) = Store(s, a, x)
  BY <1>1, <1>4, Dispatch DEF x
<1> QED BY <1>2, <1>3, <1>5 DEF Does, x, s

\* The atomic instructions, on a word of memory.
LEMMA Atomics ==
  ASSUME NEW code, NEW c, Sane(c), NEW m, NEW op, NEW r, NEW dst,
         NEW a, AtomicAddress(Fetching(c, m), dst) = a,
         code[c.pc] = <<op, Reg(r), dst>>
  PROVE  /\ op = "xchg" =>
              Does(code, c, m, c.pc + 1, Set(c.regs, r, m[a]), c.cc,
                   Set(m, a, c.regs[r]))
         /\ op = "fetchadd" =>
              Does(code, c, m, c.pc + 1, Set(c.regs, r, m[a]), c.cc,
                   Set(m, a, m[a] + c.regs[r]))
<1> DEFINE s == Fetching(c, m)
           i == code[c.pc]
<1>1. i[1] = op /\ i[2] = Reg(r) /\ i[3] = dst
  OBVIOUS
<1>2. /\ Execution(code, c, m) = Eval(i, s) /\ s.regs["zero"] = 0
      /\ s.regs = c.regs /\ s.memory = m
  BY Fetch
<1>3. ASSUME NEW w, NEW x
      PROVE  SetReg(Store(s, a, w), r, x) = Machine(c.pc + 1, Set(c.regs, r, x), c.cc, Set(m, a, w))
  BY Setters DEF Fetching
<1>4. AtomicAddress(s, dst) = a /\ Reg(r).reg = r
  BY <1>2, Operands
<1> HIDE DEF s, i
<1>5. op = "xchg" => Eval(i, s) = SetReg(Store(s, a, c.regs[r]), r, m[a])
  BY <1>1, <1>2, <1>4, Dispatch DEF Exchange
<1>6. op = "fetchadd" => Eval(i, s) = SetReg(Store(s, a, m[a] + c.regs[r]), r, m[a])
  BY <1>1, <1>2, <1>4, Dispatch DEF FetchAdd
<1> QED BY <1>2, <1>3, <1>5, <1>6 DEF Does

LEMMA Tests ==
  ASSUME NEW code, NEW c, Sane(c), NEW m, NEW src, NEW r,
         code[c.pc] = <<"test", src, Reg(r)>>
  PROVE  Does(code, c, m, c.pc + 1, c.regs,
              Conditions(Read(Fetching(c, m), src), c.regs[r]), m)
<1> DEFINE s == Fetching(c, m)
           i == code[c.pc]
           k == Conditions(Read(s, src), c.regs[r])
<1>1. i[1] = "test" /\ i[2] = src /\ i[3] = Reg(r)
  OBVIOUS
<1>2. /\ Execution(code, c, m) = Eval(i, s) /\ s.regs["zero"] = 0 /\ s.regs = c.regs
  BY Fetch
<1>3. ASSUME NEW w PROVE [s EXCEPT !.cc = w] = Machine(c.pc + 1, c.regs, w, m)
  BY Setters DEF Fetching
<1> HIDE DEF s, i, k
<1>4. Eval(i, s) = [s EXCEPT !.cc = k]
  BY <1>1, <1>2, Operands, Dispatch DEF k
<1> QED BY <1>2, <1>3, <1>4 DEF Does, k, s

\* Jumps and yield.
LEMMA Branches ==
  ASSUME NEW code, NEW c, Sane(c), NEW m, NEW op, NEW v,
         code[c.pc] = <<op, Imm(v)>>
  PROVE  /\ op = "j" => Does(code, c, m, v, c.regs, c.cc, m)
         /\ op = "jne" =>
              Does(code, c, m, IF "neq" \in c.cc THEN v ELSE c.pc + 1, c.regs, c.cc, m)
         /\ op = "je" =>
              Does(code, c, m, IF "eq" \in c.cc THEN v ELSE c.pc + 1, c.regs, c.cc, m)
         /\ op = "jgt" =>
              Does(code, c, m, IF "gt" \in c.cc THEN v ELSE c.pc + 1, c.regs, c.cc, m)
<1> DEFINE s == Fetching(c, m)
           i == code[c.pc]
<1>1. i[1] = op /\ i[2] = Imm(v) /\ Imm(v).value = v
  BY DEF Imm
<1>2. Execution(code, c, m) = Eval(i, s) /\ s.cc = c.cc
  BY Fetch
<1>3. s = Machine(c.pc + 1, c.regs, c.cc, m)
  BY DEF Fetching
<1>4. Jump(s, v) = Machine(v, c.regs, c.cc, m)
  BY Setters DEF Fetching
<1> HIDE DEF s, i
<1>5. /\ op = "j" => Eval(i, s) = Jump(s, v)
      /\ op = "jne" => Eval(i, s) = IF "neq" \in c.cc THEN Jump(s, v) ELSE s
      /\ op = "je" => Eval(i, s) = IF "eq" \in c.cc THEN Jump(s, v) ELSE s
      /\ op = "jgt" => Eval(i, s) = IF "gt" \in c.cc THEN Jump(s, v) ELSE s
  BY <1>1, <1>2, DispatchJump
<1> QED BY <1>2, <1>3, <1>4, <1>5 DEF Does

LEMMA Yields ==
  ASSUME NEW code, NEW c, Sane(c), NEW m, code[c.pc] = <<"yield">>
  PROVE  Does(code, c, m, c.pc + 1, c.regs, c.cc, m)
<1> DEFINE i == code[c.pc]
<1>1. i[1] = "yield"
  OBVIOUS
<1>2. Execution(code, c, m) = Eval(i, Fetching(c, m))
  BY Fetch
<1> HIDE DEF i
<1>3. Eval(i, Fetching(c, m)) = Fetching(c, m)
  BY <1>1, Dispatch
<1> QED BY <1>2, <1>3 DEF Does, Fetching

CCs == SUBSET {"gt", "gte", "lt", "lte", "eq", "neq"}

\* The fields of the machine after an instruction.
LEMMA Result ==
  ASSUME NEW code, NEW c, NEW m, NEW pc \in Nat, NEW regs \in [Registers -> Int],
         NEW cc \in CCs, NEW n, Does(code, c, m, pc, regs, cc, n), regs["zero"] = 0,
         NEW d, d = Context(Execution(code, c, m))
  PROVE  /\ Sane(d) /\ Execution(code, c, m).memory = n
         /\ d.pc = pc /\ d.regs = regs /\ d.cc = cc
<1>1. Context(Execution(code, c, m)) = [pc |-> pc, regs |-> regs, cc |-> cc]
  BY Fields DEF Does, Context
<1>2. Execution(code, c, m).memory = n
  BY Fields DEF Does
<1> QED BY <1>1, <1>2 DEF Sane, Contexts, CCs

\* The next context d of a thread: x in register r, the comparison of src with
\* dst, or the same at another instruction.
InRegister(c, d, r, x) ==
  /\ Sane(d) /\ d.pc = c.pc + 1 /\ d.cc = c.cc
  /\ d.regs[r] = x /\ \A q \in Registers \ {r} : d.regs[q] = c.regs[q]
Compared(c, d, src, dst) ==
  /\ Sane(d) /\ d.pc = c.pc + 1 /\ d.regs = c.regs
  /\ "eq" \in d.cc <=> dst = src
  /\ "neq" \in d.cc <=> dst # src
  /\ "gt" \in d.cc <=> dst > src
GoesTo(c, d, pc) == Sane(d) /\ d.pc = pc /\ d.regs = c.regs /\ d.cc = c.cc

\* The next memory n: x in the word a.
InMemory(m, n, a, x) ==
  n \in Memories /\ n[a] = x /\ \A b \in Addresses \ {a} : n[b] = m[b]

LEMMA SaneFields ==
  ASSUME NEW c, Sane(c)
  PROVE  /\ c.pc \in Nat /\ c.pc + 1 \in Nat /\ c.cc \in CCs
         /\ c.regs \in [Registers -> Int] /\ c.regs["zero"] = 0
BY DEF Sane, Contexts, CCs

LEMMA RegisterStep ==
  ASSUME NEW code, NEW c, Sane(c), NEW m, NEW op, NEW src, NEW r \in Registers \ {"zero"},
         code[c.pc] = <<op, src, Reg(r)>>, Read(Fetching(c, m), src) \in Int,
         NEW d, d = Context(Execution(code, c, m))
  PROVE  /\ op \in {"mov", "add", "sub"} => Execution(code, c, m).memory = m
         /\ op = "mov" => InRegister(c, d, r, Read(Fetching(c, m), src))
         /\ op = "add" => InRegister(c, d, r, c.regs[r] + Read(Fetching(c, m), src))
         /\ op = "sub" => InRegister(c, d, r, c.regs[r] - Read(Fetching(c, m), src))
<1> DEFINE x == Read(Fetching(c, m), src)
<1>1. /\ op = "mov" => Does(code, c, m, c.pc + 1, Set(c.regs, r, x), c.cc, m)
      /\ op = "add" => Does(code, c, m, c.pc + 1, Set(c.regs, r, c.regs[r] + x), c.cc, m)
      /\ op = "sub" => Does(code, c, m, c.pc + 1, Set(c.regs, r, c.regs[r] - x), c.cc, m)
  BY ToRegister
<1>2. ASSUME NEW y \in Int, Does(code, c, m, c.pc + 1, Set(c.regs, r, y), c.cc, m)
      PROVE  InRegister(c, d, r, y) /\ Execution(code, c, m).memory = m
  <2> DEFINE g == Set(c.regs, r, y)
  <2>1. /\ g \in [Registers -> Int] /\ g["zero"] = 0 /\ g[r] = y
        /\ \A q \in Registers \ {r} : g[q] = c.regs[q]
    BY SaneFields DEF Set, Registers
  <2> HIDE DEF g
  <2>2. /\ Sane(d) /\ Execution(code, c, m).memory = m
        /\ d.pc = c.pc + 1 /\ d.regs = g /\ d.cc = c.cc
    BY <1>2, <2>1, SaneFields, Result DEF g
  <2> QED BY <2>1, <2>2 DEF InRegister
<1>3. c.regs[r] \in Int /\ x \in Int
  BY SaneFields
<1> HIDE DEF x
<1>4. c.regs[r] + x \in Int /\ c.regs[r] - x \in Int
  BY <1>3
<1>5. op \in {"mov", "add", "sub"} => Execution(code, c, m).memory = m
  BY <1>1, <1>2, <1>3, <1>4
<1>6. /\ op = "mov" => InRegister(c, d, r, x)
      /\ op = "add" => InRegister(c, d, r, c.regs[r] + x)
      /\ op = "sub" => InRegister(c, d, r, c.regs[r] - x)
  BY <1>1, <1>2, <1>3, <1>4
<1> QED BY <1>5, <1>6 DEF x

LEMMA MemoryStepTo ==
  ASSUME NEW code, NEW c, Sane(c), NEW m \in Memories, NEW src,
         NEW dst, dst.type = "memory", NEW a \in Addresses, Address(Fetching(c, m), dst) = a,
         code[c.pc] = <<"mov", src, dst>>,
         Read(Fetching(c, m), src) \in Int,
         NEW d, d = Context(Execution(code, c, m))
  PROVE  GoesTo(c, d, c.pc + 1) /\ InMemory(m, Execution(code, c, m).memory, a, Read(Fetching(c, m), src))
<1> DEFINE x == Read(Fetching(c, m), src)
           n == Set(m, a, x)
<1>1. Does(code, c, m, c.pc + 1, c.regs, c.cc, n)
  BY ToMemory
<1>2. n \in Memories /\ n[a] = x /\ \A b \in Addresses \ {a} : n[b] = m[b]
  BY DEF Set, Memories
<1> HIDE DEF n
<1>3. /\ Sane(d) /\ Execution(code, c, m).memory = n
      /\ d.pc = c.pc + 1 /\ d.regs = c.regs /\ d.cc = c.cc
  BY <1>1, SaneFields, Result
<1> QED BY <1>2, <1>3 DEF InMemory, GoesTo

LEMMA MemoryStep ==
  ASSUME NEW code, NEW c, Sane(c), NEW m \in Memories, NEW src,
         NEW a \in Addresses \cap Int, code[c.pc] = <<"mov", src, At(a)>>,
         Read(Fetching(c, m), src) \in Int,
         NEW d, d = Context(Execution(code, c, m))
  PROVE  GoesTo(c, d, c.pc + 1) /\ InMemory(m, Execution(code, c, m).memory, a, Read(Fetching(c, m), src))
<1>1. Fetching(c, m).regs["zero"] = 0
  BY Fetch
<1>2. At(a).type = "memory" /\ Address(Fetching(c, m), At(a)) = a
  BY <1>1, Operands DEF At, Mem
<1> QED BY <1>2, MemoryStepTo

LEMMA AtomicStepTo ==
  ASSUME NEW code, NEW c, Sane(c), NEW m \in Memories, NEW op,
         NEW r \in Registers \ {"zero"}, NEW dst,
         NEW a \in Addresses, AtomicAddress(Fetching(c, m), dst) = a,
         code[c.pc] = <<op, Reg(r), dst>>,
         NEW d, d = Context(Execution(code, c, m))
  PROVE  /\ op = "xchg" =>
              InRegister(c, d, r, m[a]) /\ InMemory(m, Execution(code, c, m).memory, a, c.regs[r])
         /\ op = "fetchadd" =>
              /\ InRegister(c, d, r, m[a])
              /\ InMemory(m, Execution(code, c, m).memory, a, m[a] + c.regs[r])
<1> DEFINE g == Set(c.regs, r, m[a])
<1>1. /\ op = "xchg" => Does(code, c, m, c.pc + 1, g, c.cc, Set(m, a, c.regs[r]))
      /\ op = "fetchadd" => Does(code, c, m, c.pc + 1, g, c.cc, Set(m, a, m[a] + c.regs[r]))
  BY Atomics
<1>2. m[a] \in Int /\ c.regs[r] \in Int
  BY SaneFields DEF Memories
<1>3. /\ g \in [Registers -> Int] /\ g["zero"] = 0 /\ g[r] = m[a]
      /\ \A q \in Registers \ {r} : g[q] = c.regs[q]
  BY <1>2, SaneFields DEF Set, Registers
<1> HIDE DEF g
<1>4. ASSUME NEW y \in Int, Does(code, c, m, c.pc + 1, g, c.cc, Set(m, a, y))
      PROVE  InRegister(c, d, r, m[a]) /\ InMemory(m, Execution(code, c, m).memory, a, y)
  <2> DEFINE n == Set(m, a, y)
  <2>1. n \in Memories /\ n[a] = y /\ \A b \in Addresses \ {a} : n[b] = m[b]
    BY DEF Set, Memories
  <2> HIDE DEF n
  <2>2. /\ Sane(d) /\ Execution(code, c, m).memory = n
        /\ d.pc = c.pc + 1 /\ d.regs = g /\ d.cc = c.cc
    BY <1>3, <1>4, SaneFields, Result DEF n
  <2> QED BY <1>3, <2>1, <2>2 DEF InMemory, InRegister
<1> QED BY <1>1, <1>2, <1>4

LEMMA AtomicStep ==
  ASSUME NEW code, NEW c, Sane(c), NEW m \in Memories, NEW op,
         NEW r \in Registers \ {"zero"}, NEW a \in Addresses \cap Int,
         code[c.pc] = <<op, Reg(r), At(a)>>,
         NEW d, d = Context(Execution(code, c, m))
  PROVE  /\ op = "xchg" =>
              InRegister(c, d, r, m[a]) /\ InMemory(m, Execution(code, c, m).memory, a, c.regs[r])
         /\ op = "fetchadd" =>
              /\ InRegister(c, d, r, m[a])
              /\ InMemory(m, Execution(code, c, m).memory, a, m[a] + c.regs[r])
<1>1. Fetching(c, m).regs["zero"] = 0
  BY Fetch
<1>2. AtomicAddress(Fetching(c, m), At(a)) = a
  BY <1>1, Operands
<1> QED BY <1>2, AtomicStepTo

LEMMA TestStep ==
  ASSUME NEW code, NEW c, Sane(c), NEW m, NEW src, NEW r \in Registers,
         code[c.pc] = <<"test", src, Reg(r)>>, Read(Fetching(c, m), src) \in Int,
         NEW d, d = Context(Execution(code, c, m))
  PROVE  /\ Compared(c, d, Read(Fetching(c, m), src), c.regs[r])
         /\ Execution(code, c, m).memory = m
<1> DEFINE x == Read(Fetching(c, m), src)
           k == Conditions(x, c.regs[r])
<1>1. Does(code, c, m, c.pc + 1, c.regs, k, m)
  BY Tests
<1>2. c.regs[r] \in Int
  BY SaneFields
<1>3. /\ k \in CCs /\ ("eq" \in k <=> c.regs[r] = x) /\ ("neq" \in k <=> c.regs[r] # x)
      /\ "gt" \in k <=> c.regs[r] > x
  BY <1>2, Compares DEF CCs
<1> HIDE DEF k
<1>4. /\ Sane(d) /\ Execution(code, c, m).memory = m
      /\ d.pc = c.pc + 1 /\ d.regs = c.regs /\ d.cc = k
  BY <1>1, <1>3, SaneFields, Result
<1> QED BY <1>3, <1>4 DEF Compared

LEMMA BranchStep ==
  ASSUME NEW code, NEW c, Sane(c), NEW m, NEW op, NEW v \in Nat,
         code[c.pc] = <<op, Imm(v)>>,
         NEW d, d = Context(Execution(code, c, m))
  PROVE  /\ op \in {"j", "jne", "je", "jgt"} => Execution(code, c, m).memory = m
         /\ op = "j" => GoesTo(c, d, v)
         /\ op = "jne" /\ "neq" \in c.cc => GoesTo(c, d, v)
         /\ op = "jne" /\ "neq" \notin c.cc => GoesTo(c, d, c.pc + 1)
         /\ op = "je" /\ "eq" \in c.cc => GoesTo(c, d, v)
         /\ op = "je" /\ "eq" \notin c.cc => GoesTo(c, d, c.pc + 1)
         /\ op = "jgt" /\ "gt" \in c.cc => GoesTo(c, d, v)
         /\ op = "jgt" /\ "gt" \notin c.cc => GoesTo(c, d, c.pc + 1)
<1>1. ASSUME NEW pc \in Nat, Does(code, c, m, pc, c.regs, c.cc, m)
      PROVE  GoesTo(c, d, pc) /\ Execution(code, c, m).memory = m
  BY <1>1, SaneFields, Result DEF GoesTo
<1>2. c.pc + 1 \in Nat
  BY SaneFields
<1>3. op = "j" => Does(code, c, m, v, c.regs, c.cc, m)
  BY Branches
<1>4. op = "jne" => Does(code, c, m, IF "neq" \in c.cc THEN v ELSE c.pc + 1, c.regs, c.cc, m)
  BY Branches
<1>5. op = "je" => Does(code, c, m, IF "eq" \in c.cc THEN v ELSE c.pc + 1, c.regs, c.cc, m)
  BY Branches
<1>6. op = "jgt" => Does(code, c, m, IF "gt" \in c.cc THEN v ELSE c.pc + 1, c.regs, c.cc, m)
  BY Branches
<1> QED BY <1>1, <1>2, <1>3, <1>4, <1>5, <1>6

LEMMA YieldStep ==
  ASSUME NEW code, NEW c, Sane(c), NEW m, code[c.pc] = <<"yield">>,
         NEW d, d = Context(Execution(code, c, m))
  PROVE  GoesTo(c, d, c.pc + 1) /\ Execution(code, c, m).memory = m
<1>1. Does(code, c, m, c.pc + 1, c.regs, c.cc, m)
  BY Yields
<1> QED BY <1>1, SaneFields, Result DEF GoesTo

\* The operands of looping-race-withlock-withcallret.s and peterson.s.
LEMMA Places ==
  ASSUME NEW c, Sane(c), NEW m
  PROVE  /\ Read(Fetching(c, m), Argument) = m[c.regs["sp"] - 4]
         /\ Pointed.type = "memory" /\ Address(Fetching(c, m), Pointed) = c.regs["ax"]
         /\ AtomicAddress(Fetching(c, m), Pointed) = c.regs["ax"]
         /\ OwnFlag.type = "memory"
         /\ Address(Fetching(c, m), OwnFlag) = c.regs["fx"] + 4 * c.regs["bx"]
         /\ Read(Fetching(c, m), OtherFlag) = m[c.regs["fx"] + 4 * c.regs["cx"]]
<1> DEFINE s == Fetching(c, m)
           g == c.regs
<1>1. s.regs = g /\ s.memory = m /\ g["zero"] = 0
  BY Fetch DEF Sane
<1>2. /\ g["ax"] \in Int /\ g["bx"] \in Int /\ g["cx"] \in Int
      /\ g["fx"] \in Int /\ g["sp"] \in Int
  BY SaneFields DEF Registers
<1> HIDE DEF s, g
<1>3. Address(s, Argument) = g["sp"] - 4 /\ Argument.type = "memory"
  BY <1>1, <1>2 DEF Address, Argument, Mem
<1>4. Read(s, Argument) = m[g["sp"] - 4]
  BY <1>1, <1>3 DEF Read
<1>5. /\ Pointed.type = "memory" /\ Address(s, Pointed) = g["ax"]
      /\ AtomicAddress(s, Pointed) = g["ax"]
  BY <1>1, <1>2 DEF Address, AtomicAddress, Pointed, Mem
<1>6. OwnFlag.type = "memory" /\ Address(s, OwnFlag) = g["fx"] + 4 * g["bx"]
  BY <1>1, <1>2 DEF Address, OwnFlag, Mem
<1>7. OtherFlag.type = "memory" /\ Address(s, OtherFlag) = g["fx"] + 4 * g["cx"]
  BY <1>1, <1>2 DEF Address, OtherFlag, Mem
<1>8. Read(s, OtherFlag) = m[g["fx"] + 4 * g["cx"]]
  BY <1>1, <1>7 DEF Read
<1> QED BY <1>4, <1>5, <1>6, <1>8 DEF s, g

\* lea of a variable, and neg.
LEMMA OneRegister ==
  ASSUME NEW code, NEW c, Sane(c), NEW m, NEW r \in Registers \ {"zero"},
         NEW d, d = Context(Execution(code, c, m))
  PROVE  /\ \A a \in Int :
              code[c.pc] = <<"lea", At(a), Reg(r)>> =>
                InRegister(c, d, r, a) /\ Execution(code, c, m).memory = m
         /\ code[c.pc] = <<"neg", Reg(r)>> =>
              InRegister(c, d, r, -c.regs[r]) /\ Execution(code, c, m).memory = m
<1> DEFINE s == Fetching(c, m)
           i == code[c.pc]
<1>1. Execution(code, c, m) = Eval(i, s) /\ s.regs = c.regs /\ s.regs["zero"] = 0
  BY Fetch
<1>2. ASSUME NEW w PROVE SetReg(s, r, w) = Machine(c.pc + 1, Set(c.regs, r, w), c.cc, m)
  BY Setters DEF Fetching
<1>3. ASSUME NEW y \in Int, Does(code, c, m, c.pc + 1, Set(c.regs, r, y), c.cc, m)
      PROVE  InRegister(c, d, r, y) /\ Execution(code, c, m).memory = m
  <2> DEFINE g == Set(c.regs, r, y)
  <2>1. /\ g \in [Registers -> Int] /\ g["zero"] = 0 /\ g[r] = y
        /\ \A q \in Registers \ {r} : g[q] = c.regs[q]
    BY SaneFields DEF Set, Registers
  <2> HIDE DEF g
  <2>2. /\ Sane(d) /\ Execution(code, c, m).memory = m
        /\ d.pc = c.pc + 1 /\ d.regs = g /\ d.cc = c.cc
    BY <1>3, <2>1, SaneFields, Result DEF g
  <2> QED BY <2>1, <2>2 DEF InRegister
<1>4. c.regs[r] \in Int
  BY SaneFields
<1> HIDE DEF s, i
<1>5. ASSUME NEW a \in Int, i = <<"lea", At(a), Reg(r)>>
      PROVE  InRegister(c, d, r, a) /\ Execution(code, c, m).memory = m
  <2>1. Eval(i, s) = SetReg(s, r, a)
    <3>1. i[1] = "lea" /\ i[2] = At(a) /\ i[3] = Reg(r)
      BY <1>5
    <3>2. Address(s, At(a)) = a /\ Reg(r).reg = r
      BY <1>1, Operands
    <3> QED BY <3>1, <3>2, Dispatch
  <2> QED BY <1>1, <1>2, <1>3, <2>1 DEF Does
<1>6. ASSUME i = <<"neg", Reg(r)>>
      PROVE  InRegister(c, d, r, -c.regs[r]) /\ Execution(code, c, m).memory = m
  <2>1. Eval(i, s) = SetReg(s, r, -c.regs[r])
    <3>1. i[1] = "neg" /\ i[2] = Reg(r)
      BY <1>6
    <3>2. Read(s, Reg(r)) = c.regs[r] /\ \A v : Write(s, Reg(r), v) = SetReg(s, r, v)
      BY <1>1, Operands
    <3> QED BY <3>1, <3>2, Dispatch
  <2>2. -c.regs[r] \in Int
    BY <1>4
  <2> QED BY <1>1, <1>2, <1>3, <2>1, <2>2 DEF Does
<1> QED BY <1>5, <1>6 DEF i

\* The thread goes on at pc, with another top of its stack.
Moves(c, d, pc, top) ==
  /\ Sane(d) /\ d.pc = pc /\ d.cc = c.cc
  /\ d.regs["sp"] = top /\ \A q \in Registers \ {"sp"} : d.regs[q] = c.regs[q]

LEMMA StackDispatch ==
  ASSUME NEW s, NEW i
  PROVE  /\ i[1] = "push" => Eval(i, s) = Push(s, i[2])
         /\ i = <<"pop">> => Eval(i, s) = Shrink(s)
         /\ i[1] = "call" => Eval(i, s) = Call(s, i[2].value)
         /\ i[1] = "ret" => Eval(i, s) = Return(s)
<1>1. ASSUME NEW op \in {"push", "pop", "call", "ret"} PROVE ~Jumps(s, op)
  BY DEF Jumps, ConditionOf
<1>2. i[1] = "push" => Eval(i, s) = Push(s, i[2])
  BY <1>1 DEF Eval
<1>3. i = <<"pop">> => Eval(i, s) = Shrink(s)
  BY <1>1 DEF Eval
<1>4. i[1] = "call" => Eval(i, s) = Call(s, i[2].value)
  BY <1>1 DEF Eval
<1>5. i[1] = "ret" => Eval(i, s) = Return(s)
  BY <1>1 DEF Eval
<1> QED BY <1>2, <1>3, <1>4, <1>5

\* push of a variable's address, pop to nowhere, call and ret.
LEMMA StackStep ==
  ASSUME NEW code, NEW c, Sane(c), NEW m \in Memories, NEW top, top = c.regs["sp"],
         NEW d, d = Context(Execution(code, c, m)), NEW n, n = Execution(code, c, m).memory
  PROVE  /\ \A a \in Int :
              code[c.pc] = <<"push", At(a)>> /\ top - 4 \in Addresses =>
                Moves(c, d, c.pc + 1, top - 4) /\ InMemory(m, n, top - 4, a)
         /\ code[c.pc] = <<"pop">> => Moves(c, d, c.pc + 1, top + 4) /\ n = m
         /\ \A v \in Nat :
              code[c.pc] = <<"call", Imm(v)>> /\ top - 4 \in Addresses =>
                Moves(c, d, v, top - 4) /\ InMemory(m, n, top - 4, c.pc + 1)
         /\ code[c.pc] = <<"ret">> /\ m[top] \in Nat => Moves(c, d, m[top], top + 4) /\ n = m
<1> DEFINE s == Fetching(c, m)
           i == code[c.pc]
           G(y) == Set(c.regs, "sp", y)
<1>1. /\ Execution(code, c, m) = Eval(i, s) /\ s.regs = c.regs /\ s.memory = m
      /\ s.regs["zero"] = 0 /\ s = Machine(c.pc + 1, c.regs, c.cc, m)
  BY Fetch DEF Fetching
<1>2. top \in Int /\ c.pc + 1 \in Nat /\ c.pc + 1 \in Int /\ s.pc = c.pc + 1
  BY <1>1, SaneFields, Fields DEF Registers
<1>3. ASSUME NEW pc \in Nat, NEW y \in Int, NEW n1, Does(code, c, m, pc, G(y), c.cc, n1)
      PROVE  Moves(c, d, pc, y) /\ n = n1
  <2> DEFINE g == G(y)
  <2>1. /\ g \in [Registers -> Int] /\ g["zero"] = 0 /\ g["sp"] = y
        /\ \A q \in Registers \ {"sp"} : g[q] = c.regs[q]
    BY SaneFields DEF Set, Registers
  <2> HIDE DEF g
  <2>2. Sane(d) /\ n = n1 /\ d.pc = pc /\ d.regs = g /\ d.cc = c.cc
    BY <1>3, <2>1, SaneFields, Result DEF g
  <2> QED BY <2>1, <2>2 DEF Moves
<1>4. ASSUME NEW a \in Addresses, NEW v \in Int PROVE InMemory(m, Set(m, a, v), a, v)
  BY DEF InMemory, Set, Memories
<1> DEFINE g1 == Grow(s)
<1>5. g1 = Machine(c.pc + 1, G(top - 4), c.cc, m) /\ g1.regs["sp"] = top - 4
  <2>1. g1 = Machine(c.pc + 1, G(top - 4), c.cc, m)
    BY <1>1, Setters DEF Grow
  <2>2. G(top - 4)["sp"] = top - 4
    BY SaneFields DEF Set, Registers
  <2> QED BY <2>1, <2>2, Fields
<1>6. ASSUME NEW v PROVE Store(g1, top - 4, v) = Machine(c.pc + 1, G(top - 4), c.cc, Set(m, top - 4, v))
  BY <1>5, Setters
<1> HIDE DEF s, i, g1, G
<1>7. ASSUME NEW a \in Int, i = <<"push", At(a)>>, top - 4 \in Addresses
      PROVE  Moves(c, d, c.pc + 1, top - 4) /\ InMemory(m, n, top - 4, a)
  <2>1. i[1] = "push" /\ i[2] = At(a) /\ At(a).type # "register"
    BY <1>7 DEF At, Mem
  <2>2. g1.regs["zero"] = 0
    <3>1. g1.regs = G(top - 4)
      BY <1>5, Fields
    <3> QED BY <1>1, <3>1, SaneFields DEF G, Set, Registers
  <2>3. Address(g1, At(a)) = a
    BY <2>2, Operands
  <2>4. Push(s, At(a)) = Store(g1, top - 4, a)
    BY <1>5, <2>1, <2>3 DEF Push, g1
  <2>5. Eval(i, s) = Store(g1, top - 4, a)
    BY <2>1, <2>4, StackDispatch
  <2>6. Does(code, c, m, c.pc + 1, G(top - 4), c.cc, Set(m, top - 4, a))
    BY <1>1, <1>6, <2>5 DEF Does
  <2> QED BY <1>2, <1>3, <1>4, <1>7, <2>6
<1>8. ASSUME i = <<"pop">> PROVE Moves(c, d, c.pc + 1, top + 4) /\ n = m
  <2>1. Eval(i, s) = Shrink(s)
    BY <1>8, StackDispatch
  <2>2. Shrink(s) = Machine(c.pc + 1, G(top + 4), c.cc, m)
    BY <1>1, Setters DEF Shrink, G
  <2>3. Does(code, c, m, c.pc + 1, G(top + 4), c.cc, m)
    BY <1>1, <2>1, <2>2 DEF Does
  <2> QED BY <1>2, <1>3, <2>3
<1>9. ASSUME NEW v \in Nat, i = <<"call", Imm(v)>>, top - 4 \in Addresses
      PROVE  Moves(c, d, v, top - 4) /\ InMemory(m, n, top - 4, c.pc + 1)
  <2>1. i[1] = "call" /\ i[2] = Imm(v) /\ Imm(v).value = v
    BY <1>9 DEF Imm
  <2>2. Call(s, v) = Jump(Store(g1, top - 4, c.pc + 1), v)
    BY <1>2, <1>5 DEF Call, g1
  <2>3. Jump(Store(g1, top - 4, c.pc + 1), v) = Machine(v, G(top - 4), c.cc, Set(m, top - 4, c.pc + 1))
    BY <1>6, Setters
  <2>4. Eval(i, s) = Call(s, v)
    BY <2>1, StackDispatch
  <2>5. Does(code, c, m, v, G(top - 4), c.cc, Set(m, top - 4, c.pc + 1))
    BY <1>1, <2>2, <2>3, <2>4 DEF Does
  <2> QED BY <1>2, <1>3, <1>4, <1>9, <2>5
<1>10. ASSUME i = <<"ret">>, m[top] \in Nat
       PROVE  Moves(c, d, m[top], top + 4) /\ n = m
  <2>1. i[1] = "ret"
    BY <1>10
  <2>2. StackTop(s) = m[top]
    BY <1>1 DEF StackTop
  <2>3. Jump(s, m[top]) = Machine(m[top], c.regs, c.cc, m)
    BY <1>1, Setters
  <2>4. Shrink(Machine(m[top], c.regs, c.cc, m)) = Machine(m[top], G(top + 4), c.cc, m)
    BY Setters, Fields DEF Shrink, G
  <2>5. Does(code, c, m, m[top], G(top + 4), c.cc, m)
    BY <1>1, <2>1, <2>2, <2>3, <2>4, StackDispatch DEF Does, Return
  <2> QED BY <1>2, <1>3, <1>10, <2>5
<1> QED BY <1>7, <1>8, <1>9, <1>10 DEF i

-----------------------------------------------------------------------------
(* What a step of the simulator does to its threads.                       *)

Live == Threads \ done

\* Thread t executes an instruction that is not halt.
ThreadExecutes(t) ==
  /\ Opcode(Code[ThreadContexts[t].pc]) # "halt"
  /\ ThreadContexts' =
       [ThreadContexts EXCEPT ![t] = Context(Execution(Code, ThreadContexts[t], memory))]
  /\ memory' = Execution(Code, ThreadContexts[t], memory).memory
  /\ Live' = Live

\* Thread t executes halt.
ThreadHalts(t) ==
  /\ Opcode(Code[ThreadContexts[t].pc]) = "halt"
  /\ Live' = Live \ {t} /\ memory' = memory
  /\ \A u \in Live' : ThreadContexts'[u] = ThreadContexts[u]

LEMMA ThreadStep ==
  ASSUME Inv, [Next]_vars
  PROVE  /\ opt.program' = opt.program
         /\ \/ UNCHANGED <<ThreadContexts, memory, Live>>
            \/ \E t \in Live : ThreadExecutes(t)
            \/ \E t \in Live : ThreadHalts(t)
<1>1. DOMAIN ThreadContexts = Threads /\ DOMAIN ThreadContexts' = Threads'
  BY DEF ThreadContexts
<1>2. CASE ThreadContexts' = ThreadContexts /\ UNCHANGED <<opt.program, memory, done>>
  BY <1>1, <1>2 DEF Live
<1>3. ASSUME NEW t \in Threads \ done, ThreadsSpec!Execute(t)
      PROVE  opt.program' = opt.program /\ ThreadExecutes(t)
  <2>1. /\ Opcode(Code[ThreadContexts[t].pc]) # "halt"
        /\ ThreadContexts' =
             [ThreadContexts EXCEPT ![t] = Context(Execution(Code, ThreadContexts[t], memory))]
        /\ memory' = Execution(Code, ThreadContexts[t], memory).memory
        /\ opt.program' = opt.program /\ done' = done
    BY <1>3 DEF ThreadsSpec!Execute, ThreadsSpec!Code, Code
  <2>2. Threads' = Threads
    BY <1>1, <2>1
  <2> QED BY <2>1, <2>2 DEF ThreadExecutes, Live
<1>4. ASSUME NEW t \in Threads \ done, ThreadsSpec!Halt(t)
      PROVE  opt.program' = opt.program /\ ThreadHalts(t)
  <2>1. /\ Opcode(Code[ThreadContexts[t].pc]) = "halt"
        /\ ThreadContexts' = [ThreadContexts EXCEPT ![t] = Halted]
        /\ opt.program' = opt.program /\ done' = done \cup {t} /\ memory' = memory
    BY <1>4 DEF ThreadsSpec!Halt, ThreadsSpec!Code, Code
  <2>2. Threads' = Threads
    BY <1>1, <2>1
  <2> QED BY <1>1, <2>1, <2>2 DEF Live, ThreadHalts
<1>5. ThreadsSpec!Next \/ UNCHANGED ThreadsSpec!vars
  BY NextRefines
<1>6. CASE ThreadsSpec!Next
  <2>1. PICK t \in Threads \ done : ThreadsSpec!Execute(t) \/ ThreadsSpec!Halt(t)
    BY <1>1, <1>6 DEF ThreadsSpec!Next, ThreadsSpec!Step, ThreadsSpec!Execute, ThreadsSpec!Halt,
                      ThreadsSpec!Threads
  <2> QED BY <2>1, <1>3, <1>4 DEF Live
<1> QED BY <1>2, <1>5, <1>6 DEF ThreadsSpec!vars

\* The threads before the first step.
LEMMA FirstContexts ==
  ASSUME Init, NEW t \in Live
  PROVE  /\ Sane(ThreadContexts[t]) /\ ThreadContexts[t].pc = LoadAddr
         /\ \A r \in Registers \ {"sp"} : ThreadContexts[t].regs[r] = opt.argv[t][r]
         /\ ThreadContexts[t].regs["sp"] = StackBottom(t)
         /\ ThreadContexts[t].cc = {}
<1> DEFINE g == [opt.argv[t] EXCEPT !["sp"] = StackBottom(t)]
           c == [pc |-> LoadAddr, cc |-> {}, regs |-> g]
<1>1. t \in Threads /\ opt \in Options /\ done = {}
  BY DEF Init, Live
<1>2. opt.argv[t] \in [Registers -> Int] /\ opt.argv[t]["zero"] = 0
  <2>1. t \in 0 .. opt.numthreads - 1
    BY <1>1 DEF Threads
  <2>2. opt.argv \in [0 .. opt.numthreads - 1 -> [Registers -> Int]]
    BY <1>1, X86Assumption
  <2>3. \A o \in Options : \A u \in 0 .. o.numthreads - 1 : o.argv[u]["zero"] = 0
    BY LocksAssumption
  <2> QED BY <1>1, <2>1, <2>2, <2>3
<1>3. StackBottom(t) \in Int
  BY <1>1, X86Assumption DEF StackBottom, Threads
<1>4. ThreadContexts[t] = c
  BY <1>1 DEF ThreadContexts, Init
<1>5. /\ g \in [Registers -> Int] /\ g["zero"] = 0 /\ g["sp"] = StackBottom(t)
      /\ \A r \in Registers \ {"sp"} : g[r] = opt.argv[t][r]
  BY <1>2, <1>3 DEF Registers
<1> HIDE DEF g
<1>6. Sane(c)
  BY <1>5, X86Assumption DEF Sane, Contexts
<1> QED BY <1>4, <1>5, <1>6

-----------------------------------------------------------------------------
(* What the increments of a program that loops come to.                    *)

\* The increments that a thread with x in bx has left, at offset k, when the
\* three instructions of the increment begin at e and the three that decide
\* whether to loop at s.
Left(e, s, k, x) ==
  IF k <= e + 2 THEN (IF x < 1 THEN 1 ELSE x)
  ELSE IF k <= s THEN (IF x < 1 THEN 0 ELSE x - 1)
  ELSE IF k <= s + 2 THEN (IF x < 1 THEN 0 ELSE x)
  ELSE 0

\* The other instructions, from offset j to k, do not change the word w that
\* is incremented, nor bx, and go to the increment or to the loop's end.
Quiet(e, s, w, j, k, c, d, m, n) ==
  j \notin e .. e + 2 \cup s .. s + 2 =>
    /\ n[w] = m[w] /\ d.regs["bx"] = c.regs["bx"]
    /\ j < e => k \in 0 .. e
    /\ j > e => k \in e + 3 .. s

-----------------------------------------------------------------------------
(* The locks that swap 1 into the mutex.                                   *)

MutexPrograms == {"TestAndSet", "TestAndTestAndSet", "Yield"} \cap DOMAIN Programs

\* The addresses of mutex and count.
MutexWord == 100
CountWord == 104

\* Where they swap, and where the critical section begins, from LoadAddr on.
SwapAt(p) == IF p = "TestAndTestAndSet" THEN 4 ELSE 1
EnterAt(p) == IF p = "TestAndSet" THEN 4 ELSE IF p = "TestAndTestAndSet" THEN 7 ELSE 6

\* The instructions of a listing, by their offset from LoadAddr.
LEMMA LoadsOne ==
  ASSUME NEW p \in DOMAIN Programs, NEW n \in Nat, NEW i1,
         Loads(p, n, <<i1>>)
  PROVE  \A pc \in Nat : /\ pc - LoadAddr = n => Programs[p][pc] = i1
<1> DEFINE list == <<i1>>
<1>1. Len(list) = 1 /\ list[1] = i1
  OBVIOUS
<1> HIDE DEF list
<1>2. \A k \in 1 .. Len(list) : Programs[p][LoadAddr + n + k - 1] = list[k]
  BY DEF Loads, list
<1>3. /\ Programs[p][LoadAddr + n + 1 - 1] = i1
  BY <1>1, <1>2
<1>4. \A pc \in Nat : /\ pc - LoadAddr = n => pc = LoadAddr + n + 1 - 1
  BY X86Assumption
<1> QED BY <1>3, <1>4

LEMMA LoadsTwo ==
  ASSUME NEW p \in DOMAIN Programs, NEW n \in Nat, NEW i1, NEW i2,
         Loads(p, n, <<i1, i2>>)
  PROVE  \A pc \in Nat : /\ pc - LoadAddr = n => Programs[p][pc] = i1
                         /\ pc - LoadAddr = n + 1 => Programs[p][pc] = i2
<1> DEFINE list == <<i1, i2>>
<1>1. Len(list) = 2 /\ list[1] = i1 /\ list[2] = i2
  OBVIOUS
<1> HIDE DEF list
<1>2. \A k \in 1 .. Len(list) : Programs[p][LoadAddr + n + k - 1] = list[k]
  BY DEF Loads, list
<1>3. /\ Programs[p][LoadAddr + n + 1 - 1] = i1
      /\ Programs[p][LoadAddr + n + 2 - 1] = i2
  BY <1>1, <1>2
<1>4. \A pc \in Nat : /\ pc - LoadAddr = n => pc = LoadAddr + n + 1 - 1
                      /\ pc - LoadAddr = n + 1 => pc = LoadAddr + n + 2 - 1
  BY X86Assumption
<1> QED BY <1>3, <1>4

LEMMA LoadsThree ==
  ASSUME NEW p \in DOMAIN Programs, NEW n \in Nat, NEW i1, NEW i2, NEW i3,
         Loads(p, n, <<i1, i2, i3>>)
  PROVE  \A pc \in Nat : /\ pc - LoadAddr = n => Programs[p][pc] = i1
                         /\ pc - LoadAddr = n + 1 => Programs[p][pc] = i2
                         /\ pc - LoadAddr = n + 2 => Programs[p][pc] = i3
<1> DEFINE list == <<i1, i2, i3>>
<1>1. Len(list) = 3 /\ list[1] = i1 /\ list[2] = i2 /\ list[3] = i3
  OBVIOUS
<1> HIDE DEF list
<1>2. \A k \in 1 .. Len(list) : Programs[p][LoadAddr + n + k - 1] = list[k]
  BY DEF Loads, list
<1>3. /\ Programs[p][LoadAddr + n + 1 - 1] = i1
      /\ Programs[p][LoadAddr + n + 2 - 1] = i2
      /\ Programs[p][LoadAddr + n + 3 - 1] = i3
  BY <1>1, <1>2
<1>4. \A pc \in Nat : /\ pc - LoadAddr = n => pc = LoadAddr + n + 1 - 1
                      /\ pc - LoadAddr = n + 1 => pc = LoadAddr + n + 2 - 1
                      /\ pc - LoadAddr = n + 2 => pc = LoadAddr + n + 3 - 1
  BY X86Assumption
<1> QED BY <1>3, <1>4

LEMMA LoadsFour ==
  ASSUME NEW p \in DOMAIN Programs, NEW n \in Nat, NEW i1, NEW i2, NEW i3, NEW i4,
         Loads(p, n, <<i1, i2, i3, i4>>)
  PROVE  \A pc \in Nat : /\ pc - LoadAddr = n => Programs[p][pc] = i1
                         /\ pc - LoadAddr = n + 1 => Programs[p][pc] = i2
                         /\ pc - LoadAddr = n + 2 => Programs[p][pc] = i3
                         /\ pc - LoadAddr = n + 3 => Programs[p][pc] = i4
<1> DEFINE list == <<i1, i2, i3, i4>>
<1>1. Len(list) = 4 /\ list[1] = i1 /\ list[2] = i2 /\ list[3] = i3 /\ list[4] = i4
  OBVIOUS
<1> HIDE DEF list
<1>2. \A k \in 1 .. Len(list) : Programs[p][LoadAddr + n + k - 1] = list[k]
  BY DEF Loads, list
<1>3. /\ Programs[p][LoadAddr + n + 1 - 1] = i1
      /\ Programs[p][LoadAddr + n + 2 - 1] = i2
      /\ Programs[p][LoadAddr + n + 3 - 1] = i3
      /\ Programs[p][LoadAddr + n + 4 - 1] = i4
  BY <1>1, <1>2
<1>4. \A pc \in Nat : /\ pc - LoadAddr = n => pc = LoadAddr + n + 1 - 1
                      /\ pc - LoadAddr = n + 1 => pc = LoadAddr + n + 2 - 1
                      /\ pc - LoadAddr = n + 2 => pc = LoadAddr + n + 3 - 1
                      /\ pc - LoadAddr = n + 3 => pc = LoadAddr + n + 4 - 1
  BY X86Assumption
<1> QED BY <1>3, <1>4

\* The end of the locks that loop, from n on: jgt goes back to the start.
EndsLoop(p, n, pc) ==
  LET i == Programs[p][pc]
      k == pc - LoadAddr
  IN  /\ k = n => i = <<"sub", Imm(1), Reg("bx")>>
      /\ k = n + 1 => i = <<"test", Imm(0), Reg("bx")>>
      /\ k = n + 2 => i = <<"jgt", Imm(LoadAddr)>>
      /\ k = n + 3 => i = <<"halt">>

LEMMA LoopTail ==
  ASSUME NEW p \in DOMAIN Programs, NEW n \in Nat, Loads(p, n, LoopEndTo(Addr(0))),
         NEW pc \in Nat
  PROVE  EndsLoop(p, n, pc)
<1>1. Addr(0) = Imm(LoadAddr)
  BY X86Assumption DEF Addr
<1>2. LoopEndTo(Addr(0)) = << <<"sub", Imm(1), Reg("bx")>>, <<"test", Imm(0), Reg("bx")>>,
                              <<"jgt", Imm(LoadAddr)>>, <<"halt">> >>
  BY <1>1 DEF LoopEndTo, bx
<1> QED BY <1>2, LoadsFour DEF EndsLoop

\* The instructions of a mutex program.
LEMMA MutexListing ==
  ASSUME NEW p \in MutexPrograms, NEW pc \in Nat
  PROVE  LET i == Programs[p][pc]
             k == pc - LoadAddr
             w == SwapAt(p)
             e == EnterAt(p)
         IN  /\ k = w - 1 => i = <<"mov", Imm(1), Reg("ax")>>
             /\ k = w => i = <<"xchg", Reg("ax"), At(MutexWord)>>
             /\ k = w + 1 => i = <<"test", Imm(0), Reg("ax")>>
             /\ k = w + 2 => i = IF p = "Yield" THEN <<"je", Imm(LoadAddr + 6)>>
                                 ELSE <<"jne", Imm(LoadAddr)>>
             /\ k = e => i = <<"mov", At(CountWord), Reg("ax")>>
             /\ k = e + 1 => i = <<"add", Imm(1), Reg("ax")>>
             /\ k = e + 2 => i = <<"mov", Reg("ax"), At(CountWord)>>
             /\ k = e + 3 => i = <<"mov", Imm(0), At(MutexWord)>>
             /\ EndsLoop(p, e + 4, pc)
             /\ p = "TestAndTestAndSet" =>
                  /\ k = 0 => i = <<"mov", At(MutexWord), Reg("ax")>>
                  /\ k = 1 => i = <<"test", Imm(0), Reg("ax")>>
                  /\ k = 2 => i = <<"jne", Imm(LoadAddr)>>
             /\ p = "Yield" => (k = 4 => i = <<"yield">>) /\ (k = 5 => i = <<"j", Imm(LoadAddr)>>)
<1> DEFINE w == SwapAt(p)
           e == EnterAt(p)
<1>1. p \in DOMAIN Programs /\ Addr(0) = Imm(LoadAddr) /\ Addr(6) = Imm(LoadAddr + 6)
      /\ ax = Reg("ax") /\ w \in Nat /\ e \in Nat
      /\ At(100) = At(MutexWord) /\ At(104) = At(CountWord)
  BY X86Assumption DEF MutexPrograms, Addr, ax, SwapAt, EnterAt, MutexWord, CountWord
<1>2. /\ Loads(p, w - 1, << <<"mov", Imm(1), ax>>, <<"xchg", ax, At(100)>> >>)
      /\ Loads(p, w + 1, << <<"test", Imm(0), ax>>,
                            IF p = "Yield" THEN <<"je", Addr(6)>> ELSE <<"jne", Addr(0)>> >>)
      /\ Loads(p, e, << <<"mov", At(104), ax>>, <<"add", Imm(1), ax>>, <<"mov", ax, At(104)>> >>)
      /\ Loads(p, e + 3, << <<"mov", Imm(0), At(100)>> >>)
      /\ Loads(p, e + 4, LoopEndTo(Addr(0)))
  <2>1. CASE p = "TestAndSet"
    <3>1. w - 1 = 0 /\ w + 1 = 2 /\ e = 4 /\ e + 3 = 7 /\ e + 4 = 8
      BY <2>1 DEF SwapAt, EnterAt
    <3>2. /\ Loads(p, 0, << <<"mov", Imm(1), ax>>, <<"xchg", ax, At(100)>> >>)
          /\ Loads(p, 2, << <<"test", Imm(0), ax>>, <<"jne", Addr(0)>> >>)
          /\ Loads(p, 4, << <<"mov", At(104), ax>>, <<"add", Imm(1), ax>>,
                             <<"mov", ax, At(104)>> >>)
          /\ Loads(p, 7, << <<"mov", Imm(0), At(100)>> >>)
          /\ Loads(p, 8, LoopEndTo(Addr(0)))
      BY <2>1, TestAndSetLoaded DEF Acquire, IncrementAt
    <3> HIDE DEF w, e
    <3> QED BY <2>1, <3>1, <3>2
  <2>2. CASE p = "TestAndTestAndSet"
    <3>1. w - 1 = 3 /\ w + 1 = 5 /\ e = 7 /\ e + 3 = 10 /\ e + 4 = 11
      BY <2>2 DEF SwapAt, EnterAt
    <3>2. /\ Loads(p, 3, << <<"mov", Imm(1), ax>>, <<"xchg", ax, At(100)>> >>)
          /\ Loads(p, 5, << <<"test", Imm(0), ax>>, <<"jne", Addr(0)>> >>)
          /\ Loads(p, 7, << <<"mov", At(104), ax>>, <<"add", Imm(1), ax>>,
                             <<"mov", ax, At(104)>> >>)
          /\ Loads(p, 10, << <<"mov", Imm(0), At(100)>> >>)
          /\ Loads(p, 11, LoopEndTo(Addr(0)))
      BY <2>2, TestAndTestAndSetLoaded DEF Acquire, IncrementAt
    <3> HIDE DEF w, e
    <3> QED BY <2>2, <3>1, <3>2
  <2>3. CASE p = "Yield"
    <3>1. w - 1 = 0 /\ w + 1 = 2 /\ e = 6 /\ e + 3 = 9 /\ e + 4 = 10
      BY <2>3 DEF SwapAt, EnterAt
    <3>2. /\ Loads(p, 0, << <<"mov", Imm(1), ax>>, <<"xchg", ax, At(100)>> >>)
          /\ Loads(p, 2, << <<"test", Imm(0), ax>>, <<"je", Addr(6)>> >>)
          /\ Loads(p, 6, << <<"mov", At(104), ax>>, <<"add", Imm(1), ax>>,
                             <<"mov", ax, At(104)>> >>)
          /\ Loads(p, 9, << <<"mov", Imm(0), At(100)>> >>)
          /\ Loads(p, 10, LoopEndTo(Addr(0)))
      BY <2>3, YieldLoaded DEF Acquire, IncrementAt
    <3> HIDE DEF w, e
    <3> QED BY <2>3, <3>1, <3>2
  <2> QED BY <2>1, <2>2, <2>3 DEF MutexPrograms
<1> HIDE DEF w, e
<1>3. /\ w - 1 \in Nat /\ \A d \in 1 .. 4 : w + d \in Nat /\ e + d \in Nat
      /\ w - 1 + 1 = w /\ w + 1 + 1 = w + 2
  BY <1>1 DEF w, SwapAt
<1> DEFINE i == Programs[p][pc]
           k == pc - LoadAddr
           jump == IF p = "Yield" THEN <<"je", Addr(6)>> ELSE <<"jne", Addr(0)>>
<1> HIDE DEF jump
<1>4. (k = w - 1 => i = <<"mov", Imm(1), ax>>) /\ (k = w => i = <<"xchg", ax, At(100)>>)
  BY <1>1, <1>2, <1>3, LoadsTwo
<1>5. (k = w + 1 => i = <<"test", Imm(0), ax>>) /\ (k = w + 2 => i = jump)
  BY <1>1, <1>2, <1>3, LoadsTwo DEF jump
<1>6. /\ k = e => i = <<"mov", At(104), ax>>
      /\ k = e + 1 => i = <<"add", Imm(1), ax>>
      /\ k = e + 2 => i = <<"mov", ax, At(104)>>
  BY <1>1, <1>2, LoadsThree
<1>7. k = e + 3 => i = <<"mov", Imm(0), At(100)>>
  BY <1>1, <1>2, <1>3, LoadsOne
<1>8. EndsLoop(p, e + 4, pc)
  BY <1>1, <1>2, <1>3, LoopTail
<1>9. ASSUME p = "TestAndTestAndSet"
      PROVE  /\ k = 0 => i = <<"mov", At(100), ax>>
             /\ k = 1 => i = <<"test", Imm(0), ax>>
             /\ k = 2 => i = <<"jne", Addr(0)>>
  <2>1. /\ Loads(p, 0, << <<"mov", At(100), ax>> >>)
        /\ Loads(p, 1, << <<"test", Imm(0), ax>>, <<"jne", Addr(0)>> >>)
    BY <1>9, TestAndTestAndSetLoaded
  <2>2. k = 0 => i = <<"mov", At(100), ax>>
    BY <1>1, <2>1, LoadsOne
  <2>3. (k = 1 => i = <<"test", Imm(0), ax>>) /\ (k = 2 => i = <<"jne", Addr(0)>>)
    BY <1>1, <2>1, LoadsTwo
  <2> QED BY <2>2, <2>3
<1>10. ASSUME p = "Yield"
       PROVE  (k = 4 => i = <<"yield">>) /\ (k = 5 => i = <<"j", Addr(0)>>)
  <2>1. Loads(p, 4, << <<"yield">>, <<"j", Addr(0)>> >>)
    BY <1>10, YieldLoaded
  <2> QED BY <1>1, <2>1, LoadsTwo
<1> QED BY <1>1, <1>4, <1>5, <1>6, <1>7, <1>8, <1>9, <1>10 DEF jump, w, e

Offset(c) == c.pc - LoadAddr

\* The thread with context c has swapped the 0 out, and not released yet.
Owns(p, c) ==
  \/ Offset(c) = SwapAt(p) + 1 /\ c.regs["ax"] = 0
  \/ Offset(c) = SwapAt(p) + 2 /\ "eq" \in c.cc
  \/ Offset(c) \in EnterAt(p) .. EnterAt(p) + 3

\* It swaps a 1, and has tested what it got.
Swaps(p, c) ==
  /\ Sane(c)
  /\ Offset(c) \in 0 .. EnterAt(p) + 7
  /\ Offset(c) = SwapAt(p) => c.regs["ax"] = 1
  /\ Offset(c) = SwapAt(p) + 2 => ("neq" \in c.cc <=> "eq" \notin c.cc)

\* A step takes the mutex, or releases it, or leaves it alone.
MutexEffect(p, c, d, m, n) ==
  /\ Swaps(p, d) /\ n \in Memories
  /\ Quiet(EnterAt(p), EnterAt(p) + 4, CountWord, Offset(c), Offset(d), c, d, m, n)
  /\ \/ (Owns(p, d) <=> Owns(p, c)) /\ n[MutexWord] = m[MutexWord]
     \/ ~Owns(p, c) /\ (Owns(p, d) <=> m[MutexWord] = 0) /\ n[MutexWord] = 1
     \/ Owns(p, c) /\ ~Owns(p, d) /\ n[MutexWord] = 0

LEMMA MutexStep ==
  ASSUME NEW p \in MutexPrograms, NEW c, Swaps(p, c), NEW m \in Memories,
         Opcode(Programs[p][c.pc]) # "halt",
         NEW d, d = Context(Execution(Programs[p], c, m)),
         NEW n, n = Execution(Programs[p], c, m).memory
  PROVE  MutexEffect(p, c, d, m, n)
<1> DEFINE i == Programs[p][c.pc]
           k == Offset(c)
           w == SwapAt(p)
           e == EnterAt(p)
<1>1. /\ Sane(c) /\ c.pc \in Nat /\ c.regs \in [Registers -> Int] /\ LoadAddr \in Nat
      /\ LoadAddr + 6 \in Nat
  <2>1. Sane(c)
    BY DEF Swaps
  <2>2. c.pc \in Nat /\ c.regs \in [Registers -> Int]
    BY <2>1, SaneFields
  <2> QED BY <2>1, <2>2, X86Assumption
<1>2. /\ MutexWord \in Addresses \cap Int /\ CountWord \in Addresses \cap Int
      /\ m[MutexWord] \in Int /\ m[CountWord] \in Int /\ MutexWord # CountWord
  BY LocksAssumption DEF Memories, MutexWord, CountWord
<1>3. /\ {"ax", "bx"} \subseteq Registers \ {"zero"}
      /\ c.regs["ax"] \in Int /\ c.regs["bx"] \in Int
  BY <1>1 DEF Registers
<1>4. /\ w \in Nat /\ e \in Nat /\ k \in 0 .. e + 7 /\ c.pc = LoadAddr + k
      /\ \/ p = "TestAndSet" /\ w = 1 /\ e = 4
         \/ p = "TestAndTestAndSet" /\ w = 4 /\ e = 7
         \/ p = "Yield" /\ w = 1 /\ e = 6
  <2>1. k \in 0 .. e + 7
    BY DEF Swaps
  <2>2. \/ p = "TestAndSet" /\ w = 1 /\ e = 4
        \/ p = "TestAndTestAndSet" /\ w = 4 /\ e = 7
        \/ p = "Yield" /\ w = 1 /\ e = 6
    BY DEF SwapAt, EnterAt, MutexPrograms
  <2>3. c.pc = LoadAddr + k
    BY <1>1 DEF Offset
  <2> HIDE DEF k, w, e
  <2> QED BY <2>1, <2>2, <2>3
<1>5. /\ Read(Fetching(c, m), Imm(0)) = 0 /\ Read(Fetching(c, m), Imm(1)) = 1
      /\ Read(Fetching(c, m), At(MutexWord)) = m[MutexWord]
      /\ Read(Fetching(c, m), At(CountWord)) = m[CountWord]
      /\ Read(Fetching(c, m), Reg("ax")) = c.regs["ax"]
      /\ Read(Fetching(c, m), Imm(0)) \in Int /\ Read(Fetching(c, m), Imm(1)) \in Int
  BY <1>1, <1>2, Values
<1>6. CASE k = w - 1
  <2>1. i = <<"mov", Imm(1), Reg("ax")>>
    BY <1>1, <1>4, <1>6, MutexListing DEF Offset, EndsLoop
  <2>2. InRegister(c, d, "ax", 1) /\ n = m
    <3>1. InRegister(c, d, "ax", Read(Fetching(c, m), Imm(1))) /\ n = m
      BY <1>1, <1>3, <1>5, <2>1, RegisterStep
    <3> QED BY <1>5, <3>1
  <2> HIDE DEF i, w, e
  <2>3. Offset(d) = w
    BY <1>1, <1>4, <1>6, <2>2 DEF Offset, InRegister
  <2> QED BY <1>2, <1>3, <1>4, <1>6, <2>2, <2>3 DEF MutexEffect, Quiet, Swaps, Owns, InRegister, w, e
<1>7. CASE k = w
  <2>1. i = <<"xchg", Reg("ax"), At(MutexWord)>>
    BY <1>1, <1>4, <1>7, MutexListing DEF Offset, EndsLoop
  <2>2. InRegister(c, d, "ax", m[MutexWord]) /\ InMemory(m, n, MutexWord, c.regs["ax"])
    BY <1>1, <1>2, <1>3, <1>5, <2>1, AtomicStep
  <2> HIDE DEF i, w, e
  <2>3. Offset(d) = w + 1
    BY <1>1, <1>4, <1>7, <2>2 DEF Offset, InRegister, InMemory
  <2> QED BY <1>2, <1>3, <1>4, <1>7, <2>2, <2>3 DEF MutexEffect, Quiet, Swaps, Owns, InRegister, InMemory, w, e
<1>8. CASE k = w + 1
  <2>1. i = <<"test", Imm(0), Reg("ax")>>
    BY <1>1, <1>4, <1>8, MutexListing DEF Offset, EndsLoop
  <2>2. Compared(c, d, 0, c.regs["ax"]) /\ n = m
    <3>1. Compared(c, d, Read(Fetching(c, m), Imm(0)), c.regs["ax"]) /\ n = m
      BY <1>1, <1>2, <1>3, <1>5, <2>1, TestStep
    <3> QED BY <1>5, <3>1
  <2> HIDE DEF i, w, e
  <2>3. Offset(d) = w + 2
    BY <1>1, <1>4, <1>8, <2>2 DEF Offset, Compared
  <2> QED BY <1>2, <1>3, <1>4, <1>8, <2>2, <2>3 DEF MutexEffect, Quiet, Swaps, Owns, Compared, w, e
<1>9. CASE k = w + 2 /\ p = "Yield"
  <2>1. i = <<"je", Imm(LoadAddr + 6)>>
    BY <1>1, <1>4, <1>9, MutexListing DEF Offset, EndsLoop
  <2>2. /\ "eq" \in c.cc => GoesTo(c, d, LoadAddr + 6)
        /\ "eq" \notin c.cc => GoesTo(c, d, c.pc + 1)
        /\ n = m
    BY <1>1, <2>1, BranchStep
  <2> HIDE DEF i, w, e
  <2>3. Offset(d) = IF "eq" \in c.cc THEN 6 ELSE 4
    BY <1>1, <1>4, <1>9, <2>2 DEF Offset, GoesTo
  <2> QED BY <1>2, <1>3, <1>4, <1>9, <2>2, <2>3 DEF MutexEffect, Quiet, Swaps, Owns, GoesTo, w, e
<1>10. CASE k = w + 2 /\ p # "Yield"
  <2>1. i = <<"jne", Imm(LoadAddr)>>
    BY <1>1, <1>4, <1>10, MutexListing DEF Offset, EndsLoop
  <2>2. /\ "neq" \in c.cc => GoesTo(c, d, LoadAddr)
        /\ "neq" \notin c.cc => GoesTo(c, d, c.pc + 1)
        /\ n = m
    BY <1>1, <2>1, BranchStep
  <2> HIDE DEF i, w, e
  <2>3. Offset(d) = IF "neq" \in c.cc THEN 0 ELSE e
    BY <1>1, <1>4, <1>10, <2>2 DEF Offset, GoesTo
  <2> QED BY <1>2, <1>3, <1>4, <1>10, <2>2, <2>3 DEF MutexEffect, Quiet, Swaps, Owns, GoesTo, w, e
<1>11. CASE k = e
  <2>1. i = <<"mov", At(CountWord), Reg("ax")>>
    BY <1>1, <1>4, <1>11, MutexListing DEF Offset, EndsLoop
  <2>2. InRegister(c, d, "ax", m[CountWord]) /\ n = m
    BY <1>1, <1>2, <1>3, <1>5, <2>1, RegisterStep
  <2> HIDE DEF i, w, e
  <2>3. Offset(d) = e + 1
    BY <1>1, <1>4, <1>11, <2>2 DEF Offset, InRegister
  <2> QED BY <1>2, <1>3, <1>4, <1>11, <2>2, <2>3 DEF MutexEffect, Quiet, Swaps, Owns, InRegister, w, e
<1>12. CASE k = e + 1
  <2>1. i = <<"add", Imm(1), Reg("ax")>>
    BY <1>1, <1>4, <1>12, MutexListing DEF Offset, EndsLoop
  <2>2. InRegister(c, d, "ax", c.regs["ax"] + 1) /\ n = m
    <3>1. InRegister(c, d, "ax", c.regs["ax"] + Read(Fetching(c, m), Imm(1))) /\ n = m
      BY <1>1, <1>3, <1>5, <2>1, RegisterStep
    <3> QED BY <1>5, <3>1
  <2> HIDE DEF i, w, e
  <2>3. Offset(d) = e + 2
    BY <1>1, <1>4, <1>12, <2>2 DEF Offset, InRegister
  <2> QED BY <1>2, <1>3, <1>4, <1>12, <2>2, <2>3 DEF MutexEffect, Quiet, Swaps, Owns, InRegister, w, e
<1>13. CASE k = e + 2
  <2>1. i = <<"mov", Reg("ax"), At(CountWord)>>
    BY <1>1, <1>4, <1>13, MutexListing DEF Offset, EndsLoop
  <2>2. GoesTo(c, d, c.pc + 1) /\ InMemory(m, n, CountWord, c.regs["ax"])
    BY <1>1, <1>2, <1>3, <1>5, <2>1, MemoryStep
  <2> HIDE DEF i, w, e
  <2>3. Offset(d) = e + 3
    BY <1>1, <1>4, <1>13, <2>2 DEF Offset, GoesTo, InMemory
  <2> QED BY <1>2, <1>3, <1>4, <1>13, <2>2, <2>3 DEF MutexEffect, Quiet, Swaps, Owns, GoesTo, InMemory, w, e
<1>14. CASE k = e + 3
  <2>1. i = <<"mov", Imm(0), At(MutexWord)>>
    BY <1>1, <1>4, <1>14, MutexListing DEF Offset, EndsLoop
  <2>2. GoesTo(c, d, c.pc + 1) /\ InMemory(m, n, MutexWord, 0)
    <3>1. GoesTo(c, d, c.pc + 1) /\ InMemory(m, n, MutexWord, Read(Fetching(c, m), Imm(0)))
      BY <1>1, <1>2, <1>3, <1>5, <2>1, MemoryStep
    <3> QED BY <1>5, <3>1
  <2> HIDE DEF i, w, e
  <2>3. Offset(d) = e + 4
    BY <1>1, <1>4, <1>14, <2>2 DEF Offset, GoesTo, InMemory
  <2> QED BY <1>2, <1>3, <1>4, <1>14, <2>2, <2>3 DEF MutexEffect, Quiet, Swaps, Owns, GoesTo, InMemory, w, e
<1>15. CASE k = e + 4
  <2>1. i = <<"sub", Imm(1), Reg("bx")>>
    BY <1>1, <1>4, <1>15, MutexListing DEF Offset, EndsLoop
  <2>2. InRegister(c, d, "bx", c.regs["bx"] - 1) /\ n = m
    <3>1. InRegister(c, d, "bx", c.regs["bx"] - Read(Fetching(c, m), Imm(1))) /\ n = m
      BY <1>1, <1>3, <1>5, <2>1, RegisterStep
    <3> QED BY <1>5, <3>1
  <2> HIDE DEF i, w, e
  <2>3. Offset(d) = e + 5
    BY <1>1, <1>4, <1>15, <2>2 DEF Offset, InRegister
  <2> QED BY <1>2, <1>3, <1>4, <1>15, <2>2, <2>3 DEF MutexEffect, Quiet, Swaps, Owns, InRegister, w, e
<1>16. CASE k = e + 5
  <2>1. i = <<"test", Imm(0), Reg("bx")>>
    BY <1>1, <1>4, <1>16, MutexListing DEF Offset, EndsLoop
  <2>2. Compared(c, d, 0, c.regs["bx"]) /\ n = m
    <3>1. Compared(c, d, Read(Fetching(c, m), Imm(0)), c.regs["bx"]) /\ n = m
      BY <1>1, <1>2, <1>3, <1>5, <2>1, TestStep
    <3> QED BY <1>5, <3>1
  <2> HIDE DEF i, w, e
  <2>3. Offset(d) = e + 6
    BY <1>1, <1>4, <1>16, <2>2 DEF Offset, Compared
  <2> QED BY <1>2, <1>3, <1>4, <1>16, <2>2, <2>3 DEF MutexEffect, Quiet, Swaps, Owns, Compared, w, e
<1>17. CASE k = e + 6
  <2>1. i = <<"jgt", Imm(LoadAddr)>>
    BY <1>1, <1>4, <1>17, MutexListing DEF Offset, EndsLoop
  <2>2. (GoesTo(c, d, LoadAddr) \/ GoesTo(c, d, c.pc + 1)) /\ n = m
    BY <1>1, <2>1, BranchStep
  <2> HIDE DEF i, w, e
  <2>3. Offset(d) = 0 \/ Offset(d) = e + 7
    BY <1>1, <1>4, <1>17, <2>2 DEF Offset, GoesTo
  <2> QED BY <1>2, <1>3, <1>4, <1>17, <2>2, <2>3 DEF MutexEffect, Quiet, Swaps, Owns, GoesTo, w, e
<1>18. CASE k = e + 7
  <2>1. i = <<"halt">>
    BY <1>1, <1>4, <1>18, MutexListing DEF Offset, EndsLoop
  <2> QED BY <2>1 DEF Opcode
<1>19. CASE p = "TestAndTestAndSet" /\ k = 0
  <2>1. i = <<"mov", At(MutexWord), Reg("ax")>>
    BY <1>1, <1>4, <1>19, MutexListing DEF Offset, EndsLoop
  <2>2. InRegister(c, d, "ax", m[MutexWord]) /\ n = m
    BY <1>1, <1>2, <1>3, <1>5, <2>1, RegisterStep
  <2> HIDE DEF i, w, e
  <2>3. Offset(d) = 1
    <3>1. d.pc = c.pc + 1 /\ c.pc = LoadAddr
      BY <1>1, <1>19, <2>2 DEF Offset, InRegister
    <3> QED BY <1>1, <3>1 DEF Offset
  <2>4. Sane(d) /\ d.regs["bx"] = c.regs["bx"] /\ e = 7 /\ w = 4
    BY <1>3, <1>19, <2>2 DEF InRegister, w, e, SwapAt, EnterAt
  <2> QED BY <1>2, <1>4, <1>19, <2>2, <2>3, <2>4 DEF MutexEffect, Quiet, Swaps, Owns, w, e
<1>20. CASE p = "TestAndTestAndSet" /\ k = 1
  <2>1. i = <<"test", Imm(0), Reg("ax")>>
    BY <1>1, <1>4, <1>20, MutexListing DEF Offset, EndsLoop
  <2>2. Compared(c, d, 0, c.regs["ax"]) /\ n = m
    <3>1. Compared(c, d, Read(Fetching(c, m), Imm(0)), c.regs["ax"]) /\ n = m
      BY <1>1, <1>2, <1>3, <1>5, <2>1, TestStep
    <3> QED BY <1>5, <3>1
  <2> HIDE DEF i, w, e
  <2>3. Offset(d) = 2
    BY <1>1, <1>4, <1>20, <2>2 DEF Offset, Compared
  <2> QED BY <1>2, <1>3, <1>4, <1>20, <2>2, <2>3 DEF MutexEffect, Quiet, Swaps, Owns, Compared, w, e
<1>21. CASE p = "TestAndTestAndSet" /\ k = 2
  <2>1. i = <<"jne", Imm(LoadAddr)>>
    BY <1>1, <1>4, <1>21, MutexListing DEF Offset, EndsLoop
  <2>2. /\ "neq" \in c.cc => GoesTo(c, d, LoadAddr)
        /\ "neq" \notin c.cc => GoesTo(c, d, c.pc + 1)
        /\ n = m
    BY <1>1, <2>1, BranchStep
  <2> HIDE DEF i, w, e
  <2>3. Offset(d) = IF "neq" \in c.cc THEN 0 ELSE 3
    BY <1>1, <1>4, <1>21, <2>2 DEF Offset, GoesTo
  <2> QED BY <1>2, <1>3, <1>4, <1>21, <2>2, <2>3 DEF MutexEffect, Quiet, Swaps, Owns, GoesTo, w, e
<1>22. CASE p = "Yield" /\ k = 4
  <2>1. i = <<"yield">>
    BY <1>1, <1>4, <1>22, MutexListing DEF Offset, EndsLoop
  <2>2. GoesTo(c, d, c.pc + 1) /\ n = m
    BY <1>1, <1>2, <1>3, <1>5, <2>1, YieldStep
  <2> HIDE DEF i, w, e
  <2>3. Offset(d) = 5
    BY <1>1, <1>4, <1>22, <2>2 DEF Offset, GoesTo
  <2> QED BY <1>2, <1>3, <1>4, <1>22, <2>2, <2>3 DEF MutexEffect, Quiet, Swaps, Owns, GoesTo, w, e
<1>23. CASE p = "Yield" /\ k = 5
  <2>1. i = <<"j", Imm(LoadAddr)>>
    BY <1>1, <1>4, <1>23, MutexListing DEF Offset, EndsLoop
  <2>2. GoesTo(c, d, LoadAddr) /\ n = m
    BY <1>1, <2>1, BranchStep
  <2> HIDE DEF i, w, e
  <2>3. Offset(d) = 0
    BY <1>1, <1>4, <1>23, <2>2 DEF Offset, GoesTo
  <2> QED BY <1>2, <1>3, <1>4, <1>23, <2>2, <2>3 DEF MutexEffect, Quiet, Swaps, Owns, GoesTo, w, e
<1> QED BY <1>4, <1>6, <1>7, <1>8, <1>9, <1>10, <1>11, <1>12, <1>13, <1>14, <1>15, <1>16, <1>17, <1>18, <1>19, <1>20, <1>21, <1>22, <1>23 DEF MutexPrograms

\* The threads that hold the mutex: one at most, and then the mutex is 1.
Owners(p) == {t \in Live : Owns(p, ThreadContexts[t])}

MutexInv ==
  opt.program \in MutexPrograms =>
    /\ memory \in Memories
    /\ \A t \in Live : Swaps(opt.program, ThreadContexts[t])
    /\ Owners(opt.program) # {} => memory[MutexWord] = 1
    /\ \A t, u \in Owners(opt.program) : t = u

LEMMA MutexInit == Init => MutexInv
<1> SUFFICES ASSUME Init, opt.program \in MutexPrograms PROVE MutexInv
  BY DEF MutexInv
<1>1. memory \in Memories
  BY DEF Init, Memories
<1>2. ASSUME NEW t \in Live
      PROVE  /\ Swaps(opt.program, ThreadContexts[t])
             /\ ~Owns(opt.program, ThreadContexts[t])
  <2>1. Sane(ThreadContexts[t]) /\ Offset(ThreadContexts[t]) = 0
    BY FirstContexts, X86Assumption DEF Offset
  <2> QED BY <2>1 DEF Swaps, Owns, SwapAt, EnterAt
<1> QED BY <1>1, <1>2 DEF MutexInv, Owners

LEMMA MutexNext ==
  ASSUME Inv, MutexInv, [Next]_vars
  PROVE  MutexInv'
<1> DEFINE p == opt.program
<1> SUFFICES ASSUME p \in MutexPrograms PROVE MutexInv'
  BY ThreadStep DEF MutexInv
<1>1. p' = p
  BY ThreadStep
<1>2. CASE UNCHANGED <<ThreadContexts, memory, Live>>
  BY <1>1, <1>2 DEF MutexInv, Owners
<1>3. ASSUME NEW t \in Live, ThreadHalts(t)
      PROVE  MutexInv'
  <2>1. Owners(p)' \subseteq Owners(p)
    BY <1>1, <1>3 DEF Owners, ThreadHalts
  <2> QED BY <1>1, <1>3, <2>1 DEF MutexInv, ThreadHalts
<1>4. ASSUME NEW t \in Live, ThreadExecutes(t)
      PROVE  MutexInv'
  <2> DEFINE c == ThreadContexts[t]
             d == Context(Execution(Programs[p], c, memory))
  <2>1. /\ Opcode(Programs[p][c.pc]) # "halt"
        /\ ThreadContexts' = [ThreadContexts EXCEPT ![t] = d]
        /\ memory' = Execution(Programs[p], c, memory).memory
        /\ Live' = Live
    BY <1>4 DEF ThreadExecutes, Code
  <2>2. MutexEffect(p, c, d, memory, memory')
    BY <2>1, MutexStep DEF MutexInv
  <2>3. /\ t \in DOMAIN ThreadContexts
        /\ ThreadContexts'[t] = d /\ \A u \in Live \ {t} : ThreadContexts'[u] = ThreadContexts[u]
    BY <2>1 DEF ThreadContexts, Live
  <2> HIDE DEF p, d, c
  <2>4. /\ t \in Owners(p)' <=> Owns(p, d)
        /\ t \in Owners(p) <=> Owns(p, c)
        /\ \A u \in Live \ {t} : u \in Owners(p)' <=> u \in Owners(p)
    BY <1>1, <2>1, <2>3 DEF Owners, c
  <2>5. \A u \in Live' : Swaps(p, ThreadContexts'[u])
    BY <2>1, <2>2, <2>3 DEF MutexInv, MutexEffect, p
  <2>6. memory' \in Memories
    BY <2>2 DEF MutexEffect
  <2>7. /\ Owners(p)' # {} => memory'[MutexWord] = 1
        /\ \A u, v \in Owners(p)' : u = v
    <3>1. Owners(p) \subseteq Live /\ Owners(p)' \subseteq Live
      BY <2>1 DEF Owners
    <3>2. /\ Owners(p) # {} => memory[MutexWord] = 1
          /\ \A u, v \in Owners(p) : u = v
      BY DEF MutexInv, p
    <3> QED BY <2>2, <2>4, <3>1, <3>2 DEF MutexEffect
  <2> QED BY <1>1, <2>5, <2>6, <2>7 DEF MutexInv, p
<1> QED BY <1>2, <1>3, <1>4, ThreadStep

\* In the critical section a thread owns the mutex.
LEMMA MutexCritical ==
  ASSUME MutexInv, opt.program \in MutexPrograms
  PROVE  /\ Alone
         /\ \A t \in Threads : InCritical(t) => memory[MutexWord] = 1
<1> DEFINE p == opt.program
           e == EnterAt(p)
<1>1. CriticalPCs[p] = LoadAddr + e .. LoadAddr + e + 2 /\ e \in Nat
  BY TestAndSetLoaded, TestAndTestAndSetLoaded, YieldLoaded DEF CriticalFrom, EnterAt, MutexPrograms
<1>2. ASSUME NEW t \in Threads, InCritical(t)
      PROVE  t \in Owners(p)
  <2>1. t \in Live /\ ThreadContexts[t].pc \in LoadAddr + e .. LoadAddr + e + 2
    BY <1>1, <1>2 DEF InCritical, At_, Live
  <2>2. Offset(ThreadContexts[t]) \in e .. e + 3
    BY <1>1, <2>1, X86Assumption DEF Offset
  <2> QED BY <2>1, <2>2 DEF Owners, Owns
<1> QED BY <1>2 DEF Alone, MutexInv

-----------------------------------------------------------------------------
(* The ticket lock.                                                        *)

TicketWord == 100
TurnWord == 104
TicketCount == 108

LEMMA TicketListing ==
  ASSUME "Ticket" \in DOMAIN Programs, NEW pc \in Nat
  PROVE  LET i == Programs["Ticket"][pc]
             k == pc - LoadAddr
         IN  /\ k = 0 => i = <<"mov", Imm(1), Reg("ax")>>
             /\ k = 1 => i = <<"fetchadd", Reg("ax"), At(TicketWord)>>
             /\ k = 2 => i = <<"mov", At(TurnWord), Reg("cx")>>
             /\ k = 3 => i = <<"test", Reg("cx"), Reg("ax")>>
             /\ k = 4 => i = <<"jne", Imm(LoadAddr + 2)>>
             /\ k = 5 => i = <<"mov", At(TicketCount), Reg("ax")>>
             /\ k = 6 => i = <<"add", Imm(1), Reg("ax")>>
             /\ k = 7 => i = <<"mov", Reg("ax"), At(TicketCount)>>
             /\ k = 8 => i = <<"mov", Imm(1), Reg("ax")>>
             /\ k = 9 => i = <<"fetchadd", Reg("ax"), At(TurnWord)>>
             /\ EndsLoop("Ticket", 10, pc)
<1> DEFINE p == "Ticket"
           i == Programs[p][pc]
           k == pc - LoadAddr
<1>1. /\ p \in DOMAIN Programs /\ Addr(2) = Imm(LoadAddr + 2)
      /\ ax = Reg("ax") /\ cx = Reg("cx")
      /\ At(100) = At(TicketWord) /\ At(104) = At(TurnWord) /\ At(108) = At(TicketCount)
  BY DEF Addr, ax, cx, TicketWord, TurnWord, TicketCount
<1>2. /\ Loads(p, 0, << <<"mov", Imm(1), ax>>, <<"fetchadd", ax, At(100)>> >>)
      /\ Loads(p, 2, << <<"mov", At(104), cx>>, <<"test", cx, ax>>, <<"jne", Addr(2)>> >>)
      /\ Loads(p, 5, << <<"mov", At(108), ax>>, <<"add", Imm(1), ax>>, <<"mov", ax, At(108)>> >>)
      /\ Loads(p, 8, << <<"mov", Imm(1), ax>>, <<"fetchadd", ax, At(104)>> >>)
      /\ Loads(p, 10, LoopEndTo(Addr(0)))
  BY TicketLoaded DEF Acquire, IncrementAt
<1> HIDE DEF p
<1>3. (k = 0 => i = <<"mov", Imm(1), ax>>) /\ (k = 1 => i = <<"fetchadd", ax, At(100)>>)
  BY <1>1, <1>2, LoadsTwo
<1>4. /\ k = 2 => i = <<"mov", At(104), cx>>
      /\ k = 3 => i = <<"test", cx, ax>>
      /\ k = 4 => i = <<"jne", Addr(2)>>
  BY <1>1, <1>2, LoadsThree
<1>5. /\ k = 5 => i = <<"mov", At(108), ax>>
      /\ k = 6 => i = <<"add", Imm(1), ax>>
      /\ k = 7 => i = <<"mov", ax, At(108)>>
  BY <1>1, <1>2, LoadsThree
<1>6. (k = 8 => i = <<"mov", Imm(1), ax>>) /\ (k = 9 => i = <<"fetchadd", ax, At(104)>>)
  BY <1>1, <1>2, LoadsTwo
<1>7. EndsLoop(p, 10, pc)
  BY <1>1, <1>2, LoopTail
<1> QED BY <1>1, <1>3, <1>4, <1>5, <1>6, <1>7 DEF p

\* A thread of the ticket lock adds 1 to ticket and turn.
Tickets(c) ==
  /\ Sane(c) /\ Offset(c) \in 0 .. 13
  /\ Offset(c) \in {1, 9} => c.regs["ax"] = 1

\* A step takes a ticket, looks at turn, compares it with the ticket, looks
\* again or enters, releases the lock, or does none of this.
TicketEffect(c, d, m, n) ==
  /\ Tickets(d) /\ n \in Memories
  /\ Quiet(5, 10, TicketCount, Offset(c), Offset(d), c, d, m, n)
  /\ n[TicketWord] = IF Offset(c) = 1 THEN m[TicketWord] + 1 ELSE m[TicketWord]
  /\ n[TurnWord] = IF Offset(c) = 9 THEN m[TurnWord] + 1 ELSE m[TurnWord]
  /\ \/ Offset(c) = 1 /\ Offset(d) = 2 /\ d.regs["ax"] = m[TicketWord]
     \/ Offset(c) = 2 /\ Offset(d) = 3 /\ d.regs["ax"] = c.regs["ax"] /\ d.regs["cx"] = m[TurnWord]
     \/ /\ Offset(c) = 3 /\ Offset(d) = 4 /\ d.regs["ax"] = c.regs["ax"]
        /\ "neq" \in d.cc <=> c.regs["ax"] # c.regs["cx"]
     \/ Offset(c) = 4 /\ "neq" \in c.cc /\ Offset(d) = 2 /\ d.regs["ax"] = c.regs["ax"]
     \/ Offset(c) = 4 /\ "neq" \notin c.cc /\ Offset(d) = 5
     \/ Offset(c) = 9 /\ Offset(d) = 10
     \/ Offset(c) \in 5 .. 8 /\ Offset(d) \in 6 .. 9
     \/ Offset(c) \in {0} \cup 10 .. 13 /\ Offset(d) \in {0, 1} \cup 10 .. 13

LEMMA TicketHalts ==
  ASSUME "Ticket" \in DOMAIN Programs, NEW c, Tickets(c),
         Opcode(Programs["Ticket"][c.pc]) = "halt"
  PROVE  Offset(c) = 13
<1> DEFINE i == Programs["Ticket"][c.pc]
           k == Offset(c)
<1>1. c.pc \in Nat /\ k \in 0 .. 13
  BY SaneFields DEF Tickets
<1>2. /\ k = 0 => i[1] = "mov"
      /\ k = 1 => i[1] = "fetchadd"
      /\ k = 2 => i[1] = "mov"
      /\ k = 3 => i[1] = "test"
      /\ k = 4 => i[1] = "jne"
      /\ k = 5 => i[1] = "mov"
      /\ k = 6 => i[1] = "add"
      /\ k = 7 => i[1] = "mov"
      /\ k = 8 => i[1] = "mov"
      /\ k = 9 => i[1] = "fetchadd"
      /\ k = 10 => i[1] = "sub"
      /\ k = 11 => i[1] = "test"
      /\ k = 12 => i[1] = "jgt"
  BY <1>1, TicketListing DEF Offset, EndsLoop
<1> HIDE DEF i, k
<1> QED BY <1>1, <1>2 DEF Opcode, i, k

LEMMA TicketStep ==
  ASSUME "Ticket" \in DOMAIN Programs, NEW c, Tickets(c), NEW m \in Memories,
         Opcode(Programs["Ticket"][c.pc]) # "halt",
         NEW d, d = Context(Execution(Programs["Ticket"], c, m)),
         NEW n, n = Execution(Programs["Ticket"], c, m).memory
  PROVE  TicketEffect(c, d, m, n)
<1> DEFINE i == Programs["Ticket"][c.pc]
           k == Offset(c)
<1>1. /\ Sane(c) /\ c.pc \in Nat /\ c.regs \in [Registers -> Int] /\ LoadAddr \in Nat
      /\ LoadAddr + 2 \in Nat
  <2>1. Sane(c)
    BY DEF Tickets
  <2>2. c.pc \in Nat /\ c.regs \in [Registers -> Int]
    BY <2>1, SaneFields
  <2> QED BY <2>1, <2>2, X86Assumption
<1>2. /\ TicketWord \in Addresses \cap Int /\ TurnWord \in Addresses \cap Int
      /\ TicketCount \in Addresses \cap Int
      /\ m[TicketWord] \in Int /\ m[TurnWord] \in Int /\ m[TicketCount] \in Int
      /\ TicketWord # TurnWord /\ TicketWord # TicketCount /\ TurnWord # TicketCount
  BY LocksAssumption DEF Memories, TicketWord, TurnWord, TicketCount
<1>3. /\ {"ax", "bx", "cx"} \subseteq Registers \ {"zero"}
      /\ c.regs["ax"] \in Int /\ c.regs["bx"] \in Int /\ c.regs["cx"] \in Int
  BY <1>1 DEF Registers
<1>4. k \in 0 .. 13 /\ c.pc = LoadAddr + k
  BY <1>1 DEF Tickets, Offset
<1>5. /\ Read(Fetching(c, m), Imm(0)) = 0 /\ Read(Fetching(c, m), Imm(1)) = 1
      /\ Read(Fetching(c, m), At(TurnWord)) = m[TurnWord]
      /\ Read(Fetching(c, m), At(TicketCount)) = m[TicketCount]
      /\ Read(Fetching(c, m), Reg("ax")) = c.regs["ax"]
      /\ Read(Fetching(c, m), Reg("cx")) = c.regs["cx"]
      /\ Read(Fetching(c, m), Imm(0)) \in Int /\ Read(Fetching(c, m), Imm(1)) \in Int
  BY <1>1, <1>2, Values
<1>6. CASE k = 0
  <2>1. i = <<"mov", Imm(1), Reg("ax")>>
    BY <1>1, <1>4, <1>6, TicketListing DEF Offset, EndsLoop
  <2>2. InRegister(c, d, "ax", 1) /\ n = m
    <3>1. InRegister(c, d, "ax", Read(Fetching(c, m), Imm(1))) /\ n = m
      BY <1>1, <1>2, <1>3, <1>5, <2>1, RegisterStep
    <3> QED BY <1>5, <3>1
  <2> HIDE DEF i
  <2>3. Offset(d) = 1
    BY <1>1, <1>4, <1>6, <2>2 DEF Offset, InRegister
  <2> QED BY <1>2, <1>3, <1>6, <2>2, <2>3 DEF TicketEffect, Quiet, Tickets, InRegister
<1>7. CASE k = 1
  <2>1. i = <<"fetchadd", Reg("ax"), At(TicketWord)>>
    BY <1>1, <1>4, <1>7, TicketListing DEF Offset, EndsLoop
  <2>2. /\ InRegister(c, d, "ax", m[TicketWord])
        /\ InMemory(m, n, TicketWord, m[TicketWord] + c.regs["ax"])
    BY <1>1, <1>2, <1>3, <1>5, <2>1, AtomicStep
  <2> HIDE DEF i
  <2>3. Offset(d) = 2
    BY <1>1, <1>4, <1>7, <2>2 DEF Offset, InRegister, InMemory
  <2> QED BY <1>2, <1>3, <1>7, <2>2, <2>3 DEF TicketEffect, Quiet, Tickets, InRegister, InMemory
<1>8. CASE k = 2
  <2>1. i = <<"mov", At(TurnWord), Reg("cx")>>
    BY <1>1, <1>4, <1>8, TicketListing DEF Offset, EndsLoop
  <2>2. InRegister(c, d, "cx", m[TurnWord]) /\ n = m
    BY <1>1, <1>2, <1>3, <1>5, <2>1, RegisterStep
  <2> HIDE DEF i
  <2>3. Offset(d) = 3
    BY <1>1, <1>4, <1>8, <2>2 DEF Offset, InRegister
  <2> QED BY <1>2, <1>3, <1>8, <2>2, <2>3 DEF TicketEffect, Quiet, Tickets, InRegister
<1>9. CASE k = 3
  <2>1. i = <<"test", Reg("cx"), Reg("ax")>>
    BY <1>1, <1>4, <1>9, TicketListing DEF Offset, EndsLoop
  <2>2. Compared(c, d, c.regs["cx"], c.regs["ax"]) /\ n = m
    <3>1. Compared(c, d, Read(Fetching(c, m), Reg("cx")), c.regs["ax"]) /\ n = m
      BY <1>1, <1>2, <1>3, <1>5, <2>1, TestStep
    <3> QED BY <1>5, <3>1
  <2> HIDE DEF i
  <2>3. Offset(d) = 4
    BY <1>1, <1>4, <1>9, <2>2 DEF Offset, Compared
  <2> QED BY <1>2, <1>3, <1>9, <2>2, <2>3 DEF TicketEffect, Quiet, Tickets, Compared
<1>10. CASE k = 4
  <2>1. i = <<"jne", Imm(LoadAddr + 2)>>
    BY <1>1, <1>4, <1>10, TicketListing DEF Offset, EndsLoop
  <2>2. /\ "neq" \in c.cc => GoesTo(c, d, LoadAddr + 2)
        /\ "neq" \notin c.cc => GoesTo(c, d, c.pc + 1)
        /\ n = m
    BY <1>1, <2>1, BranchStep
  <2> HIDE DEF i
  <2>3. Offset(d) = IF "neq" \in c.cc THEN 2 ELSE 5
    BY <1>1, <1>4, <1>10, <2>2 DEF Offset, GoesTo
  <2> QED BY <1>2, <1>3, <1>10, <2>2, <2>3 DEF TicketEffect, Quiet, Tickets, GoesTo
<1>11. CASE k = 5
  <2>1. i = <<"mov", At(TicketCount), Reg("ax")>>
    BY <1>1, <1>4, <1>11, TicketListing DEF Offset, EndsLoop
  <2>2. InRegister(c, d, "ax", m[TicketCount]) /\ n = m
    <3>1. Read(Fetching(c, m), At(TicketCount)) \in Int
      BY <1>2, <1>5
    <3>2. InRegister(c, d, "ax", Read(Fetching(c, m), At(TicketCount))) /\ n = m
      BY <1>1, <1>3, <2>1, <3>1, RegisterStep
    <3> QED BY <1>5, <3>2
  <2> HIDE DEF i
  <2>3. Offset(d) = 6
    BY <1>1, <1>4, <1>11, <2>2 DEF Offset, InRegister
  <2> QED BY <1>2, <1>3, <1>11, <2>2, <2>3 DEF TicketEffect, Quiet, Tickets, InRegister
<1>12. CASE k = 6
  <2>1. i = <<"add", Imm(1), Reg("ax")>>
    BY <1>1, <1>4, <1>12, TicketListing DEF Offset, EndsLoop
  <2>2. InRegister(c, d, "ax", c.regs["ax"] + 1) /\ n = m
    <3>1. InRegister(c, d, "ax", c.regs["ax"] + Read(Fetching(c, m), Imm(1))) /\ n = m
      BY <1>1, <1>2, <1>3, <1>5, <2>1, RegisterStep
    <3> QED BY <1>5, <3>1
  <2> HIDE DEF i
  <2>3. Offset(d) = 7
    BY <1>1, <1>4, <1>12, <2>2 DEF Offset, InRegister
  <2> QED BY <1>2, <1>3, <1>12, <2>2, <2>3 DEF TicketEffect, Quiet, Tickets, InRegister
<1>13. CASE k = 7
  <2>1. i = <<"mov", Reg("ax"), At(TicketCount)>>
    BY <1>1, <1>4, <1>13, TicketListing DEF Offset, EndsLoop
  <2>2. GoesTo(c, d, c.pc + 1) /\ InMemory(m, n, TicketCount, c.regs["ax"])
    BY <1>1, <1>2, <1>3, <1>5, <2>1, MemoryStep
  <2> HIDE DEF i
  <2>3. Offset(d) = 8
    BY <1>1, <1>4, <1>13, <2>2 DEF Offset, GoesTo, InMemory
  <2> QED BY <1>2, <1>3, <1>13, <2>2, <2>3 DEF TicketEffect, Quiet, Tickets, GoesTo, InMemory
<1>14. CASE k = 8
  <2>1. i = <<"mov", Imm(1), Reg("ax")>>
    BY <1>1, <1>4, <1>14, TicketListing DEF Offset, EndsLoop
  <2>2. InRegister(c, d, "ax", 1) /\ n = m
    <3>1. InRegister(c, d, "ax", Read(Fetching(c, m), Imm(1))) /\ n = m
      BY <1>1, <1>2, <1>3, <1>5, <2>1, RegisterStep
    <3> QED BY <1>5, <3>1
  <2> HIDE DEF i
  <2>3. Offset(d) = 9
    BY <1>1, <1>4, <1>14, <2>2 DEF Offset, InRegister
  <2> QED BY <1>2, <1>3, <1>14, <2>2, <2>3 DEF TicketEffect, Quiet, Tickets, InRegister
<1>15. CASE k = 9
  <2>1. i = <<"fetchadd", Reg("ax"), At(TurnWord)>>
    BY <1>1, <1>4, <1>15, TicketListing DEF Offset, EndsLoop
  <2>2. /\ InRegister(c, d, "ax", m[TurnWord])
        /\ InMemory(m, n, TurnWord, m[TurnWord] + c.regs["ax"])
    BY <1>1, <1>2, <1>3, <1>5, <2>1, AtomicStep
  <2> HIDE DEF i
  <2>3. Offset(d) = 10
    BY <1>1, <1>4, <1>15, <2>2 DEF Offset, InRegister, InMemory
  <2> QED BY <1>2, <1>3, <1>15, <2>2, <2>3 DEF TicketEffect, Quiet, Tickets, InRegister, InMemory
<1>16. CASE k = 10
  <2>1. i = <<"sub", Imm(1), Reg("bx")>>
    BY <1>1, <1>4, <1>16, TicketListing DEF Offset, EndsLoop
  <2>2. InRegister(c, d, "bx", c.regs["bx"] - 1) /\ n = m
    <3>1. InRegister(c, d, "bx", c.regs["bx"] - Read(Fetching(c, m), Imm(1))) /\ n = m
      BY <1>1, <1>2, <1>3, <1>5, <2>1, RegisterStep
    <3> QED BY <1>5, <3>1
  <2> HIDE DEF i
  <2>3. Offset(d) = 11
    BY <1>1, <1>4, <1>16, <2>2 DEF Offset, InRegister
  <2> QED BY <1>2, <1>3, <1>16, <2>2, <2>3 DEF TicketEffect, Quiet, Tickets, InRegister
<1>17. CASE k = 11
  <2>1. i = <<"test", Imm(0), Reg("bx")>>
    BY <1>1, <1>4, <1>17, TicketListing DEF Offset, EndsLoop
  <2>2. Compared(c, d, 0, c.regs["bx"]) /\ n = m
    <3>1. Compared(c, d, Read(Fetching(c, m), Imm(0)), c.regs["bx"]) /\ n = m
      BY <1>1, <1>2, <1>3, <1>5, <2>1, TestStep
    <3> QED BY <1>5, <3>1
  <2> HIDE DEF i
  <2>3. Offset(d) = 12
    BY <1>1, <1>4, <1>17, <2>2 DEF Offset, Compared
  <2> QED BY <1>2, <1>3, <1>17, <2>2, <2>3 DEF TicketEffect, Quiet, Tickets, Compared
<1>18. CASE k = 12
  <2>1. i = <<"jgt", Imm(LoadAddr)>>
    BY <1>1, <1>4, <1>18, TicketListing DEF Offset, EndsLoop
  <2>2. (GoesTo(c, d, LoadAddr) \/ GoesTo(c, d, c.pc + 1)) /\ n = m
    BY <1>1, <2>1, BranchStep
  <2> HIDE DEF i
  <2>3. Offset(d) = 0 \/ Offset(d) = 13
    BY <1>1, <1>4, <1>18, <2>2 DEF Offset, GoesTo
  <2> QED BY <1>2, <1>3, <1>18, <2>2, <2>3 DEF TicketEffect, Quiet, Tickets, GoesTo
<1>19. CASE k = 13
  <2>1. i = <<"halt">>
    BY <1>1, <1>4, <1>19, TicketListing DEF Offset, EndsLoop
  <2> QED BY <2>1 DEF Opcode
<1> QED BY <1>4, <1>6, <1>7, <1>8, <1>9, <1>10, <1>11, <1>12, <1>13, <1>14, <1>15, <1>16, <1>17, <1>18, <1>19

Waiting == {t \in Live : Offset(ThreadContexts[t]) \in 2 .. 4}
Holding == {t \in Live : Offset(ThreadContexts[t]) \in 5 .. 9}
TicketOf(t) == ThreadContexts[t].regs["ax"]

\* A thread that waits has a ticket from turn on, and passes only if it is turn.
InTurn(c, turn, ticket, held) ==
  /\ c.regs["ax"] \in turn .. ticket - 1
  /\ held => c.regs["ax"] # turn
  /\ Offset(c) = 3 => c.regs["cx"] <= turn
  /\ Offset(c) = 4 /\ "neq" \notin c.cc => c.regs["ax"] = turn
WaitsInTurn(t) ==
  InTurn(ThreadContexts[t], memory[TurnWord], memory[TicketWord], Holding # {})

Counted ==
  /\ IsFiniteSet(Waiting \cup Holding)
  /\ Cardinality(Waiting \cup Holding) = memory[TicketWord] - memory[TurnWord]

TicketInv ==
  opt.program = "Ticket" =>
    /\ memory \in Memories
    /\ \A t \in Live : Tickets(ThreadContexts[t])
    /\ \A t \in Waiting : WaitsInTurn(t)
    /\ \A t, u \in Waiting : TicketOf(t) = TicketOf(u) => t = u
    /\ \A t, u \in Holding : t = u
    /\ Counted

LEMMA TicketInit == Init => TicketInv
<1> SUFFICES ASSUME Init, opt.program = "Ticket" PROVE TicketInv
  BY DEF TicketInv
<1>1. /\ memory \in Memories /\ TicketWord \in Addresses /\ TurnWord \in Addresses
      /\ memory[TicketWord] = 0 /\ memory[TurnWord] = 0
  BY LocksAssumption DEF Init, Memories, TicketWord, TurnWord
<1>2. ASSUME NEW t \in Live
      PROVE  Tickets(ThreadContexts[t]) /\ Offset(ThreadContexts[t]) = 0
  <2>1. Sane(ThreadContexts[t]) /\ Offset(ThreadContexts[t]) = 0
    BY FirstContexts, X86Assumption DEF Offset
  <2> QED BY <2>1 DEF Tickets
<1>3. Waiting = {} /\ Holding = {}
  BY <1>2 DEF Waiting, Holding
<1>4. Counted
  BY <1>1, <1>3, FS_EmptySet DEF Counted
<1> QED BY <1>1, <1>2, <1>3, <1>4 DEF TicketInv

\* The parts of the invariant that other threads see.
LEMMA TicketNext ==
  ASSUME Inv, TicketInv, [Next]_vars
  PROVE  TicketInv'
<1> SUFFICES ASSUME opt.program = "Ticket" PROVE TicketInv'
  BY ThreadStep DEF TicketInv
<1> DEFINE T == memory[TicketWord]
           S == memory[TurnWord]
<1>1. opt.program' = "Ticket" /\ "Ticket" \in DOMAIN Programs
  BY ThreadStep, X86Assumption DEF Inv
<1>2. CASE UNCHANGED <<ThreadContexts, memory, Live>>
  <2>1. Waiting' = Waiting /\ Holding' = Holding
    BY <1>2 DEF Waiting, Holding
  <2> QED BY <1>1, <1>2, <2>1 DEF TicketInv, WaitsInTurn, TicketOf, Counted
<1>3. /\ memory \in Memories /\ TicketWord \in Addresses /\ TurnWord \in Addresses
      /\ T \in Int /\ S \in Int
  BY LocksAssumption DEF TicketInv, Memories, TicketWord, TurnWord
<1>4. /\ \A t \in Live : Tickets(ThreadContexts[t])
      /\ \A t \in Waiting : WaitsInTurn(t)
      /\ \A t, u \in Waiting : TicketOf(t) = TicketOf(u) => t = u
      /\ \A t, u \in Holding : t = u
      /\ Counted
  BY DEF TicketInv
<1>5. ASSUME NEW t \in Live, ThreadHalts(t)
      PROVE  TicketInv'
  <2>1. /\ Opcode(Programs["Ticket"][ThreadContexts[t].pc]) = "halt"
        /\ Live' = Live \ {t} /\ memory' = memory
        /\ \A u \in Live' : ThreadContexts'[u] = ThreadContexts[u]
    BY <1>5 DEF ThreadHalts, Code
  <2>2. t \notin Waiting /\ t \notin Holding
    BY <1>1, <1>4, <2>1, TicketHalts DEF Waiting, Holding
  <2>3. Waiting' = Waiting /\ Holding' = Holding /\ \A u \in Waiting : u \in Live'
    BY <2>1, <2>2 DEF Waiting, Holding
  <2> QED BY <1>1, <1>3, <1>4, <2>1, <2>3 DEF TicketInv, WaitsInTurn, TicketOf, Counted
<1>6. ASSUME NEW t \in Live, ThreadExecutes(t)
      PROVE  TicketInv'
  <2> DEFINE c == ThreadContexts[t]
             d == Context(Execution(Programs["Ticket"], c, memory))
  <2>1. /\ Opcode(Programs["Ticket"][c.pc]) # "halt"
        /\ ThreadContexts' = [ThreadContexts EXCEPT ![t] = d]
        /\ memory' = Execution(Programs["Ticket"], c, memory).memory
        /\ Live' = Live
    BY <1>6 DEF ThreadExecutes, Code
  <2>2. TicketEffect(c, d, memory, memory')
    BY <1>1, <1>3, <1>4, <2>1, TicketStep
  <2>3. /\ t \in DOMAIN ThreadContexts
        /\ ThreadContexts'[t] = d /\ \A u \in Live \ {t} : ThreadContexts'[u] = ThreadContexts[u]
    BY <2>1 DEF ThreadContexts, Live
  <2> HIDE DEF d
  <2>4. /\ memory' \in Memories
        /\ \A u \in Live' : Tickets(ThreadContexts'[u])
    BY <1>4, <2>1, <2>2, <2>3 DEF TicketEffect
  <2>5. /\ Waiting' = (Waiting \ {t}) \cup (IF Offset(d) \in 2 .. 4 THEN {t} ELSE {})
        /\ Holding' = (Holding \ {t}) \cup (IF Offset(d) \in 5 .. 9 THEN {t} ELSE {})
        /\ t \in Waiting <=> Offset(c) \in 2 .. 4
        /\ t \in Holding <=> Offset(c) \in 5 .. 9
    BY <2>1, <2>3 DEF Waiting, Holding
  <2>6. \A u \in Live \ {t} :
          /\ Offset(ThreadContexts'[u]) = Offset(ThreadContexts[u])
          /\ ThreadContexts'[u] = ThreadContexts[u]
          /\ ThreadContexts[u].regs["cx"] \in Int
    BY <1>4, <2>3, SaneFields DEF Tickets, Registers
  <2>7. c.regs["cx"] \in Int /\ t \in Live' /\ Waiting \subseteq Live /\ Holding \subseteq Live
    BY <1>4, <2>1, SaneFields DEF Tickets, Registers, Waiting, Holding
  <2>8. /\ Cardinality(Waiting \cup Holding) \in Nat
        /\ Waiting \cup Holding # {} => Cardinality(Waiting \cup Holding) # 0
    BY <1>4, FS_CardinalityType, FS_EmptySet DEF Counted
  <2> SUFFICES /\ \A u \in Waiting' : WaitsInTurn(u)'
               /\ \A u, v \in Waiting' : TicketOf(u)' = TicketOf(v)' => u = v
               /\ \A u, v \in Holding' : u = v
               /\ Counted'
    BY <1>1, <2>4 DEF TicketInv
  <2>9. \A u \in Live \ {t} : TicketOf(u)' = TicketOf(u)
    BY <2>6 DEF TicketOf
  <2>10. TicketOf(t)' = d.regs["ax"] /\ TicketOf(t) = c.regs["ax"]
    BY <2>3 DEF TicketOf
  <2> DEFINE T1 == memory'[TicketWord]
             S1 == memory'[TurnWord]
  <2> HIDE DEF c, T, S, T1, S1
  <2>16. \A u \in Waiting : InTurn(ThreadContexts[u], S, T, Holding # {})
    BY <1>4 DEF WaitsInTurn, S, T
  <2>17. \A u \in Live : WaitsInTurn(u)' <=> InTurn(ThreadContexts'[u], S1, T1, Holding' # {})
    BY DEF WaitsInTurn, S1, T1
  <2>11. CASE Offset(c) = 1
    <3>1. /\ T1 = T + 1 /\ S1 = S /\ Offset(d) = 2 /\ TicketOf(t)' = T
      BY <2>2, <2>10, <2>11 DEF TicketEffect, T, S, T1, S1
    <3>2. Waiting' = Waiting \cup {t} /\ Holding' = Holding /\ t \notin Waiting \cup Holding
      BY <2>5, <2>11, <3>1
    <3>3. S <= T /\ (Holding # {} => T # S)
      BY <1>3, <1>4, <2>8 DEF Counted, S, T
    <3>4. \A u \in Waiting : WaitsInTurn(u)'
      <4>1. ASSUME NEW u \in Waiting PROVE InTurn(ThreadContexts[u], S1, T1, Holding # {})
        BY <2>16, <1>3, <3>1 DEF InTurn
      <4> QED BY <2>6, <2>7, <2>17, <3>2, <4>1
    <3>5. WaitsInTurn(t)'
      BY <1>3, <2>3, <2>10, <2>17, <3>1, <3>2, <3>3 DEF InTurn, TicketOf
    <3>6. \A u \in Waiting : TicketOf(u)' # TicketOf(t)'
      BY <1>3, <2>7, <2>9, <2>16, <3>1, <3>2 DEF InTurn, TicketOf
    <3>7. Counted'
      <4>1. Waiting' \cup Holding' = (Waiting \cup Holding) \cup {t}
        BY <3>2
      <4> QED BY <1>3, <1>4, <3>1, <3>2, <4>1, FS_AddElement DEF Counted, S, T, S1, T1
    <3> QED BY <1>4, <2>7, <2>9, <3>2, <3>4, <3>5, <3>6, <3>7
  <2>12. CASE Offset(c) \in 2 .. 4 /\ Offset(d) \in 2 .. 4
    <3>1. Waiting' = Waiting /\ Holding' = Holding /\ t \in Waiting
      BY <2>5, <2>12
    <3>2. T1 = T /\ S1 = S /\ TicketOf(t)' = TicketOf(t)
      BY <2>2, <2>10, <2>12 DEF TicketEffect, T, S, T1, S1
    <3>3. \A u \in Waiting \ {t} : WaitsInTurn(u)'
      BY <2>6, <2>7, <2>16, <2>17, <3>1, <3>2
    <3>4. InTurn(d, S, T, Holding # {})
      <4>1. InTurn(c, S, T, Holding # {})
        BY <2>16, <3>1 DEF c
      <4>2. CASE Offset(c) = 2
        BY <1>3, <2>2, <2>12, <4>1, <4>2 DEF InTurn, TicketEffect, S
      <4>3. CASE Offset(c) = 3
        BY <1>3, <2>2, <2>7, <2>12, <4>1, <4>3 DEF InTurn, TicketEffect
      <4>4. CASE Offset(c) = 4
        BY <1>3, <2>2, <2>12, <4>1, <4>4 DEF InTurn, TicketEffect
      <4> QED BY <2>12, <4>2, <4>3, <4>4
    <3>5. WaitsInTurn(t)'
      BY <2>3, <2>17, <3>1, <3>2, <3>4
    <3>6. Counted'
      BY <1>4, <3>1, <3>2 DEF Counted, S, T, S1, T1
    <3> QED BY <1>4, <2>7, <2>9, <3>1, <3>2, <3>3, <3>5, <3>6
  <2>13. CASE Offset(c) = 4 /\ Offset(d) = 5
    <3>1. /\ Waiting' = Waiting \ {t} /\ Holding' = Holding \cup {t} /\ t \in Waiting
          /\ t \notin Holding
      BY <2>5, <2>13
    <3>2. T1 = T /\ S1 = S /\ "neq" \notin c.cc
      BY <2>2, <2>13 DEF TicketEffect, T, S, T1, S1
    <3>3. TicketOf(t) = S /\ Holding = {}
      BY <2>10, <2>13, <2>16, <3>1, <3>2 DEF InTurn, c
    <3>4. \A u \in Waiting \ {t} : TicketOf(u) # S
      BY <1>4, <3>1, <3>3
    <3>5. ASSUME NEW u \in Waiting \ {t} PROVE InTurn(ThreadContexts[u], S, T, TRUE)
      BY <2>16, <3>4 DEF InTurn, TicketOf
    <3>6. \A u \in Waiting' : WaitsInTurn(u)'
      BY <2>6, <2>7, <2>17, <3>1, <3>2, <3>5
    <3>7. Waiting' \cup Holding' = Waiting \cup Holding
      BY <3>1
    <3>8. Counted'
      BY <1>4, <3>2, <3>7 DEF Counted, S, T, S1, T1
    <3> QED BY <1>4, <2>7, <2>9, <3>1, <3>3, <3>6, <3>8
  <2>14. CASE Offset(c) = 9
    <3>1. /\ Offset(d) = 10 /\ T1 = T /\ S1 = S + 1
      BY <2>2, <2>14 DEF TicketEffect, T, S, T1, S1
    <3>2. /\ Waiting' = Waiting /\ Holding' = {} /\ t \in Holding /\ t \notin Waiting
      BY <1>4, <2>5, <2>14, <3>1
    <3>3. ASSUME NEW u \in Waiting PROVE InTurn(ThreadContexts[u], S1, T1, FALSE)
      <4>1. ThreadContexts[u].regs["cx"] \in Int
        BY <2>6, <2>7, <3>2
      <4> QED BY <1>3, <2>16, <3>1, <3>2, <4>1 DEF InTurn
    <3>4. \A u \in Waiting' : WaitsInTurn(u)'
      BY <2>6, <2>7, <2>17, <3>2, <3>3
    <3>5. Counted'
      <4>1. Waiting' \cup Holding' = (Waiting \cup Holding) \ {t}
        BY <1>4, <3>2
      <4>2. IsFiniteSet(Waiting \cup Holding) /\ Cardinality(Waiting \cup Holding) = T - S
        BY <1>4 DEF Counted, S, T
      <4>3. /\ IsFiniteSet((Waiting \cup Holding) \ {t})
            /\ Cardinality((Waiting \cup Holding) \ {t}) = Cardinality(Waiting \cup Holding) - 1
        BY <3>2, <4>2, FS_RemoveElement
      <4>4. T - S - 1 = T1 - S1
        BY <1>3, <3>1
      <4> QED BY <4>1, <4>2, <4>3, <4>4 DEF Counted, S1, T1
    <3> QED BY <1>4, <2>7, <2>9, <3>2, <3>4, <3>5
  <2>15. CASE Offset(c) \in {0} \cup 5 .. 8 \cup 10 .. 13
    <3>1. /\ T1 = T /\ S1 = S
          /\ Offset(d) \notin 2 .. 4 /\ (Offset(d) \in 5 .. 9 <=> Offset(c) \in 5 .. 9)
      BY <2>2, <2>15 DEF TicketEffect, T, S, T1, S1
    <3>2. /\ Waiting' = Waiting /\ Holding' = Holding /\ t \notin Waiting
      BY <2>5, <2>15, <3>1
    <3>3. \A u \in Waiting' : WaitsInTurn(u)'
      BY <2>6, <2>7, <2>16, <2>17, <3>1, <3>2
    <3>4. Counted'
      BY <1>4, <3>1, <3>2 DEF Counted, S, T, S1, T1
    <3> QED BY <1>4, <2>7, <2>9, <3>2, <3>3, <3>4
  <2> QED BY <2>2, <2>11, <2>12, <2>13, <2>14, <2>15 DEF TicketEffect
<1> QED BY <1>2, <1>5, <1>6, ThreadStep

LEMMA TicketCritical ==
  ASSUME TicketInv, Inv, opt.program = "Ticket"
  PROVE  Alone /\ TicketsInOrder
<1>1. "Ticket" \in DOMAIN Programs /\ LoadAddr \in Nat
  BY X86Assumption DEF Inv
<1>2. /\ CriticalPCs["Ticket"] = LoadAddr + 5 .. LoadAddr + 5 + 2
      /\ TicketWaitPCs = LoadAddr + 2 .. LoadAddr + 2 + 2
      /\ TicketHoldPCs = LoadAddr + 2 + 3 .. LoadAddr + 2 + 3 + 4
  BY <1>1, TicketLoaded DEF CriticalFrom, TicketWaitPCs, TicketHoldPCs
<1>3. Variable("ticket") = memory[TicketWord] /\ Variable("turn") = memory[TurnWord]
  <2>1. Source = Ticket
    BY DEF Source, Sources
  <2>2. VarAddress(Ticket, "ticket") = TicketWord /\ VarAddress(Ticket, "turn") = TurnWord
    BY TicketLoaded DEF TicketWord, TurnWord
  <2> QED BY <2>1, <2>2 DEF Variable
<1>4. ASSUME NEW t \in Threads
      PROVE  /\ InCritical(t) => t \in Holding
             /\ At_(t, TicketWaitPCs) <=> t \in Waiting
             /\ At_(t, TicketHoldPCs) <=> t \in Holding
  <2>1. t \in Live => ThreadContexts[t].pc \in Nat
    BY SaneFields DEF TicketInv, Tickets
  <2>2. CASE t \in done
    BY <2>2 DEF InCritical, At_, Waiting, Holding, Live
  <2>3. CASE t \in Live
    <3> DEFINE pc == ThreadContexts[t].pc
    <3>1. pc \in Nat
      BY <2>1, <2>3
    <3>2. /\ pc \in LoadAddr + 5 .. LoadAddr + 5 + 2 => pc - LoadAddr \in 5 .. 9
          /\ pc \in LoadAddr + 2 .. LoadAddr + 2 + 2 <=> pc - LoadAddr \in 2 .. 4
          /\ pc \in LoadAddr + 2 + 3 .. LoadAddr + 2 + 3 + 4 <=> pc - LoadAddr \in 5 .. 9
      BY <1>1, <3>1
    <3>3. t \notin done
      BY <2>3 DEF Live
    <3> HIDE DEF pc
    <3> QED BY <1>2, <2>3, <3>2, <3>3 DEF InCritical, At_, Waiting, Holding, Offset, pc
  <2> QED BY <2>2, <2>3 DEF Live
<1>5. Alone
  BY <1>4 DEF Alone, TicketInv
<1>6. /\ {t \in Threads : At_(t, TicketWaitPCs)} = Waiting
      /\ {t \in Threads : At_(t, TicketHoldPCs)} = Holding
  BY <1>4 DEF Waiting, Holding, Live
<1>7. \A t \in Waiting :
        /\ TicketOf(t) \in memory[TurnWord] .. memory[TicketWord] - 1
        /\ Holding # {} => TicketOf(t) # memory[TurnWord]
  BY DEF TicketInv, WaitsInTurn, InTurn, TicketOf
<1>8. /\ \A t, u \in Waiting : TicketOf(t) = TicketOf(u) => t = u
      /\ Cardinality(Waiting \cup Holding) = memory[TicketWord] - memory[TurnWord]
  BY DEF TicketInv, Counted
<1> QED BY <1>3, <1>5, <1>6, <1>7, <1>8 DEF TicketsInOrder, TicketOf

-----------------------------------------------------------------------------
(* Peterson's algorithm.                                                   *)

\* The addresses of flag[id], turn and count.
FlagWord(id) == 100 + 4 * id
GivenWord == 108
PetersonCount == 112

LEMMA PetersonListing ==
  ASSUME "Peterson" \in DOMAIN Programs, NEW pc \in Nat
  PROVE  LET i == Programs["Peterson"][pc]
             k == pc - LoadAddr
         IN  /\ k = 0 => i = <<"lea", At(FlagWord(0)), Reg("fx")>>
             /\ k = 1 => i = <<"mov", Reg("bx"), Reg("cx")>>
             /\ k = 2 => i = <<"neg", Reg("cx")>>
             /\ k = 3 => i = <<"add", Imm(1), Reg("cx")>>
             /\ k = 4 => i = <<"mov", Imm(1), OwnFlag>>
             /\ k = 5 => i = <<"mov", Reg("cx"), At(GivenWord)>>
             /\ k = 6 => i = <<"mov", OtherFlag, Reg("ax")>>
             /\ k = 7 => i = <<"test", Imm(1), Reg("ax")>>
             /\ k = 8 => i = <<"jne", Imm(LoadAddr + 12)>>
             /\ k = 9 => i = <<"mov", At(GivenWord), Reg("ax")>>
             /\ k = 10 => i = <<"test", Reg("cx"), Reg("ax")>>
             /\ k = 11 => i = <<"je", Imm(LoadAddr + 6)>>
             /\ k = 12 => i = <<"mov", At(PetersonCount), Reg("ax")>>
             /\ k = 13 => i = <<"add", Imm(1), Reg("ax")>>
             /\ k = 14 => i = <<"mov", Reg("ax"), At(PetersonCount)>>
             /\ k = 15 => i = <<"mov", Imm(0), OwnFlag>>
             /\ k = 16 => i = <<"mov", Reg("cx"), At(GivenWord)>>
             /\ k = 17 => i = <<"halt">>
<1> DEFINE p == "Peterson"
           i == Programs[p][pc]
           k == pc - LoadAddr
<1>1. /\ p \in DOMAIN Programs
      /\ ax = Reg("ax") /\ bx = Reg("bx") /\ cx = Reg("cx")
      /\ Addr(6) = Imm(LoadAddr + 6) /\ Addr(12) = Imm(LoadAddr + 12)
      /\ At(100) = At(FlagWord(0)) /\ At(108) = At(GivenWord) /\ At(112) = At(PetersonCount)
  BY DEF ax, bx, cx, Addr, FlagWord, GivenWord, PetersonCount
<1>2. /\ Loads(p, 0, << <<"lea", At(100), Reg("fx")>>, <<"mov", bx, cx>>,
                        <<"neg", cx>>, <<"add", Imm(1), cx>> >>)
      /\ Loads(p, 4, << <<"mov", Imm(1), OwnFlag>>, <<"mov", cx, At(108)>> >>)
      /\ Loads(p, 6, << <<"mov", OtherFlag, ax>>, <<"test", Imm(1), ax>>, <<"jne", Addr(12)>> >>)
      /\ Loads(p, 9, << <<"mov", At(108), ax>>, <<"test", cx, ax>>, <<"je", Addr(6)>> >>)
      /\ Loads(p, 12, << <<"mov", At(112), ax>>, <<"add", Imm(1), ax>>, <<"mov", ax, At(112)>> >>)
      /\ Loads(p, 15, << <<"mov", Imm(0), OwnFlag>>, <<"mov", cx, At(108)>>, <<"halt">> >>)
  BY PetersonLoaded DEF IncrementAt
<1>3. /\ k = 0 => i = <<"lea", At(100), Reg("fx")>>
      /\ k = 1 => i = <<"mov", bx, cx>>
      /\ k = 2 => i = <<"neg", cx>>
      /\ k = 3 => i = <<"add", Imm(1), cx>>
  BY <1>1, <1>2, LoadsFour
<1>4. /\ k = 4 => i = <<"mov", Imm(1), OwnFlag>>
      /\ k = 5 => i = <<"mov", cx, At(108)>>
  BY <1>1, <1>2, LoadsTwo
<1>5. /\ k = 6 => i = <<"mov", OtherFlag, ax>>
      /\ k = 7 => i = <<"test", Imm(1), ax>>
      /\ k = 8 => i = <<"jne", Addr(12)>>
  BY <1>1, <1>2, LoadsThree
<1>6. /\ k = 9 => i = <<"mov", At(108), ax>>
      /\ k = 10 => i = <<"test", cx, ax>>
      /\ k = 11 => i = <<"je", Addr(6)>>
  BY <1>1, <1>2, LoadsThree
<1>7. /\ k = 12 => i = <<"mov", At(112), ax>>
      /\ k = 13 => i = <<"add", Imm(1), ax>>
      /\ k = 14 => i = <<"mov", ax, At(112)>>
  BY <1>1, <1>2, LoadsThree
<1>8. /\ k = 15 => i = <<"mov", Imm(0), OwnFlag>>
      /\ k = 16 => i = <<"mov", cx, At(108)>>
      /\ k = 17 => i = <<"halt">>
  BY <1>1, <1>2, LoadsThree
<1> QED BY <1>1, <1>3, <1>4, <1>5, <1>6, <1>7, <1>8

\* The thread has seen that the other does not want in, or that it is its turn.
Passed(c) ==
  \/ Offset(c) = 7 /\ c.regs["ax"] # 1
  \/ Offset(c) = 8 /\ "neq" \in c.cc
  \/ Offset(c) = 10 /\ c.regs["ax"] # c.regs["cx"]
  \/ Offset(c) = 11 /\ "eq" \notin c.cc
  \/ Offset(c) \in 12 .. 15

\* Its flag is up while it wants in or is in; bx is its ID, cx the other's.
Contends(c, m) ==
  /\ Sane(c)
  /\ Offset(c) \in 0 .. 17
  /\ c.regs["bx"] \in {0, 1}
  /\ Offset(c) > 0 => c.regs["fx"] = FlagWord(0)
  /\ Offset(c) = 2 => c.regs["cx"] = c.regs["bx"]
  /\ Offset(c) = 3 => c.regs["cx"] = -c.regs["bx"]
  /\ Offset(c) > 3 => c.regs["cx"] = 1 - c.regs["bx"]
  /\ Offset(c) \in 5 .. 15 => m[FlagWord(c.regs["bx"])] = 1

\* A step changes no flag but the thread's own, gives the turn away, and lets
\* the thread pass if the other's flag is down or it has the turn.
PetersonEffect(c, d, m, n) ==
  /\ Contends(d, n) /\ n \in Memories /\ d.regs["bx"] = c.regs["bx"]
  /\ Quiet(12, 17, PetersonCount, Offset(c), Offset(d), c, d, m, n)
  /\ n[FlagWord(1 - c.regs["bx"])] = m[FlagWord(1 - c.regs["bx"])]
  /\ \/ /\ n[GivenWord] = m[GivenWord]
        /\ Offset(d) \in 6 .. 15 => Offset(c) \in 6 .. 15
     \/ n[GivenWord] = 1 - c.regs["bx"] /\ ~Passed(d)
  /\ Passed(d) =>
       \/ Passed(c)
       \/ m[FlagWord(1 - c.regs["bx"])] # 1
       \/ m[GivenWord] # 1 - c.regs["bx"]

LEMMA PetersonStep ==
  ASSUME "Peterson" \in DOMAIN Programs, NEW c, NEW m \in Memories, Contends(c, m),
         Opcode(Programs["Peterson"][c.pc]) # "halt",
         NEW d, d = Context(Execution(Programs["Peterson"], c, m)),
         NEW n, n = Execution(Programs["Peterson"], c, m).memory
  PROVE  PetersonEffect(c, d, m, n)
<1> DEFINE code == Programs["Peterson"]
           i == code[c.pc]
           k == Offset(c)
           id == c.regs["bx"]
           F == Fetching(c, m)
<1>1. /\ Sane(c) /\ c.pc \in Nat /\ c.regs \in [Registers -> Int] /\ LoadAddr \in Nat
      /\ LoadAddr + 6 \in Nat /\ LoadAddr + 12 \in Nat
  <2>1. Sane(c)
    BY DEF Contends
  <2>2. c.pc \in Nat /\ c.regs \in [Registers -> Int]
    BY <2>1, SaneFields
  <2> QED BY <2>1, <2>2, X86Assumption
<1>2. /\ k \in 0 .. 17 /\ id \in {0, 1} /\ c.pc = LoadAddr + k
      /\ k > 0 => c.regs["fx"] = FlagWord(0)
      /\ k > 3 => c.regs["cx"] = 1 - id
  BY <1>1 DEF Contends, Offset
<1>3. /\ {"ax", "bx", "cx", "fx"} \subseteq Registers \ {"zero"} /\ \A r \in Registers : c.regs[r] \in Int
  BY <1>1 DEF Registers
<1>4. /\ FlagWord(0) \in Addresses \cap Int /\ FlagWord(1) \in Addresses \cap Int
      /\ GivenWord \in Addresses \cap Int /\ PetersonCount \in Addresses \cap Int
      /\ FlagWord(id) \in Addresses /\ FlagWord(1 - id) \in Addresses
      /\ FlagWord(id) # FlagWord(1 - id)
      /\ FlagWord(id) \notin {GivenWord, PetersonCount}
      /\ FlagWord(1 - id) \notin {GivenWord, PetersonCount}
      /\ GivenWord # PetersonCount
  <2>1. {100, 104, 108, 112} \subseteq Addresses
    BY LocksAssumption
  <2>2. id = 0 \/ id = 1
    BY <1>2
  <2> QED BY <2>1, <2>2 DEF FlagWord, GivenWord, PetersonCount
<1>5. /\ m[FlagWord(1 - id)] \in Int /\ m[GivenWord] \in Int /\ m[PetersonCount] \in Int
  BY <1>4 DEF Memories
<1>6. /\ Read(F, Imm(0)) = 0 /\ Read(F, Imm(1)) = 1
      /\ Read(F, At(GivenWord)) = m[GivenWord]
      /\ Read(F, At(PetersonCount)) = m[PetersonCount]
      /\ Read(F, Reg("ax")) = c.regs["ax"] /\ Read(F, Reg("bx")) = c.regs["bx"]
      /\ Read(F, Reg("cx")) = c.regs["cx"]
      /\ Read(F, Imm(0)) \in Int /\ Read(F, Imm(1)) \in Int
      /\ Read(F, At(GivenWord)) \in Int /\ Read(F, At(PetersonCount)) \in Int
      /\ Read(F, Reg("ax")) \in Int /\ Read(F, Reg("cx")) \in Int
  BY <1>1, <1>3, <1>4, <1>5, Values
<1>7. /\ OwnFlag.type = "memory"
      /\ k > 3 => Address(F, OwnFlag) = FlagWord(id) /\ Read(F, OtherFlag) = m[FlagWord(1 - id)]
  <2>1. /\ OwnFlag.type = "memory"
        /\ Address(F, OwnFlag) = c.regs["fx"] + 4 * c.regs["bx"]
        /\ Read(F, OtherFlag) = m[c.regs["fx"] + 4 * c.regs["cx"]]
    BY <1>1, Places
  <2>2. k > 3 => /\ c.regs["fx"] + 4 * c.regs["bx"] = FlagWord(id)
                 /\ c.regs["fx"] + 4 * c.regs["cx"] = FlagWord(1 - id)
    BY <1>2 DEF FlagWord
  <2> QED BY <2>1, <2>2
<1>8. /\ k \in 5 .. 15 => m[FlagWord(id)] = 1
      /\ k = 2 => c.regs["cx"] = id
      /\ k = 3 => c.regs["cx"] = -id
  BY DEF Contends
<1>9. CASE k = 0
  <2>1. i = <<"lea", At(FlagWord(0)), Reg("fx")>>
    BY <1>1, <1>9, PetersonListing DEF Offset
  <2>2. InRegister(c, d, "fx", FlagWord(0)) /\ n = m
    BY <1>1, <1>3, <1>4, <2>1, OneRegister
  <2> HIDE DEF i, F
  <2>3. Offset(d) = 1
    BY <1>1, <1>2, <1>9, <2>2 DEF Offset, InRegister
  <2> QED BY <1>2, <1>3, <1>4, <1>5, <1>8, <1>9, <2>2, <2>3 DEF PetersonEffect, Quiet, Contends, Passed, InRegister
<1>10. CASE k = 1
  <2>1. i = <<"mov", Reg("bx"), Reg("cx")>>
    BY <1>1, <1>10, PetersonListing DEF Offset
  <2>2. InRegister(c, d, "cx", c.regs["bx"]) /\ n = m
    <3>1. InRegister(c, d, "cx", Read(F, Reg("bx"))) /\ n = m
      BY <1>1, <1>3, <1>4, <1>5, <1>6, <2>1, RegisterStep
    <3> QED BY <1>6, <3>1
  <2> HIDE DEF i, F
  <2>3. Offset(d) = 2
    BY <1>1, <1>2, <1>10, <2>2 DEF Offset, InRegister
  <2> QED BY <1>2, <1>3, <1>4, <1>5, <1>8, <1>10, <2>2, <2>3 DEF PetersonEffect, Quiet, Contends, Passed, InRegister
<1>11. CASE k = 2
  <2>1. i = <<"neg", Reg("cx")>>
    BY <1>1, <1>11, PetersonListing DEF Offset
  <2>2. InRegister(c, d, "cx", -c.regs["cx"]) /\ n = m
    <3>1. "cx" \in Registers \ {"zero"}
      BY <1>3
    <3> QED BY <1>1, <2>1, <3>1, OneRegister
  <2> HIDE DEF i, F
  <2>3. Offset(d) = 3
    BY <1>1, <1>2, <1>11, <2>2 DEF Offset, InRegister
  <2> QED BY <1>2, <1>3, <1>4, <1>5, <1>8, <1>11, <2>2, <2>3 DEF PetersonEffect, Quiet, Contends, Passed, InRegister
<1>12. CASE k = 3
  <2>1. i = <<"add", Imm(1), Reg("cx")>>
    BY <1>1, <1>12, PetersonListing DEF Offset
  <2>2. InRegister(c, d, "cx", c.regs["cx"] + 1) /\ n = m
    <3>1. InRegister(c, d, "cx", c.regs["cx"] + Read(F, Imm(1))) /\ n = m
      BY <1>1, <1>3, <1>4, <1>5, <1>6, <2>1, RegisterStep
    <3> QED BY <1>6, <3>1
  <2> HIDE DEF i, F
  <2>3. Offset(d) = 4
    BY <1>1, <1>2, <1>12, <2>2 DEF Offset, InRegister
  <2> QED BY <1>2, <1>3, <1>4, <1>5, <1>8, <1>12, <2>2, <2>3 DEF PetersonEffect, Quiet, Contends, Passed, InRegister
<1>13. CASE k = 4
  <2>1. i = <<"mov", Imm(1), OwnFlag>>
    BY <1>1, <1>13, PetersonListing DEF Offset
  <2>2. GoesTo(c, d, c.pc + 1) /\ InMemory(m, n, FlagWord(id), 1)
    <3>1. Address(F, OwnFlag) = FlagWord(id) /\ OwnFlag.type = "memory"
      BY <1>7, <1>13
    <3>2. GoesTo(c, d, c.pc + 1) /\ InMemory(m, n, FlagWord(id), Read(F, Imm(1)))
      BY <1>1, <1>4, <1>6, <2>1, <3>1, MemoryStepTo
    <3> QED BY <1>6, <3>2
  <2> HIDE DEF i, F
  <2>3. Offset(d) = 5
    BY <1>1, <1>2, <1>13, <2>2 DEF Offset, GoesTo, InMemory
  <2> QED BY <1>2, <1>3, <1>4, <1>5, <1>8, <1>13, <2>2, <2>3 DEF PetersonEffect, Quiet, Contends, Passed, GoesTo, InMemory
<1>14. CASE k = 5
  <2>1. i = <<"mov", Reg("cx"), At(GivenWord)>>
    BY <1>1, <1>14, PetersonListing DEF Offset
  <2>2. GoesTo(c, d, c.pc + 1) /\ InMemory(m, n, GivenWord, c.regs["cx"])
    <3>1. GoesTo(c, d, c.pc + 1) /\ InMemory(m, n, GivenWord, Read(F, Reg("cx")))
      BY <1>1, <1>3, <1>4, <1>5, <1>6, <2>1, MemoryStep
    <3> QED BY <1>6, <3>1
  <2> HIDE DEF i, F
  <2>3. Offset(d) = 6
    BY <1>1, <1>2, <1>14, <2>2 DEF Offset, GoesTo, InMemory
  <2> QED BY <1>2, <1>3, <1>4, <1>5, <1>8, <1>14, <2>2, <2>3 DEF PetersonEffect, Quiet, Contends, Passed, GoesTo, InMemory
<1>15. CASE k = 6
  <2>1. i = <<"mov", OtherFlag, Reg("ax")>>
    BY <1>1, <1>15, PetersonListing DEF Offset
  <2>2. InRegister(c, d, "ax", m[FlagWord(1 - id)]) /\ n = m
    <3>1. Read(F, OtherFlag) = m[FlagWord(1 - id)] /\ Read(F, OtherFlag) \in Int
      BY <1>5, <1>7, <1>15
    <3>2. InRegister(c, d, "ax", Read(F, OtherFlag)) /\ n = m
      BY <1>1, <1>3, <2>1, <3>1, RegisterStep
    <3> QED BY <3>1, <3>2
  <2> HIDE DEF i, F
  <2>3. Offset(d) = 7
    BY <1>1, <1>2, <1>15, <2>2 DEF Offset, InRegister
  <2> QED BY <1>2, <1>3, <1>4, <1>5, <1>8, <1>15, <2>2, <2>3 DEF PetersonEffect, Quiet, Contends, Passed, InRegister
<1>16. CASE k = 7
  <2>1. i = <<"test", Imm(1), Reg("ax")>>
    BY <1>1, <1>16, PetersonListing DEF Offset
  <2>2. Compared(c, d, 1, c.regs["ax"]) /\ n = m
    <3>1. Compared(c, d, Read(F, Imm(1)), c.regs["ax"]) /\ n = m
      BY <1>1, <1>3, <1>4, <1>5, <1>6, <2>1, TestStep
    <3> QED BY <1>6, <3>1
  <2> HIDE DEF i, F
  <2>3. Offset(d) = 8
    BY <1>1, <1>2, <1>16, <2>2 DEF Offset, Compared
  <2> QED BY <1>2, <1>3, <1>4, <1>5, <1>8, <1>16, <2>2, <2>3 DEF PetersonEffect, Quiet, Contends, Passed, Compared
<1>17. CASE k = 8
  <2>1. i = <<"jne", Imm(LoadAddr + 12)>>
    BY <1>1, <1>17, PetersonListing DEF Offset
  <2>2. /\ "neq" \in c.cc => GoesTo(c, d, LoadAddr + 12)
        /\ "neq" \notin c.cc => GoesTo(c, d, c.pc + 1)
        /\ n = m
    BY <1>1, <2>1, BranchStep
  <2> HIDE DEF i, F
  <2>3. Offset(d) = IF "neq" \in c.cc THEN 12 ELSE 9
    BY <1>1, <1>2, <1>17, <2>2 DEF Offset, GoesTo
  <2> QED BY <1>2, <1>3, <1>4, <1>5, <1>8, <1>17, <2>2, <2>3 DEF PetersonEffect, Quiet, Contends, Passed, GoesTo
<1>18. CASE k = 9
  <2>1. i = <<"mov", At(GivenWord), Reg("ax")>>
    BY <1>1, <1>18, PetersonListing DEF Offset
  <2>2. InRegister(c, d, "ax", m[GivenWord]) /\ n = m
    <3>1. InRegister(c, d, "ax", Read(F, At(GivenWord))) /\ n = m
      BY <1>1, <1>3, <1>4, <1>5, <1>6, <2>1, RegisterStep
    <3> QED BY <1>6, <3>1
  <2> HIDE DEF i, F
  <2>3. Offset(d) = 10
    BY <1>1, <1>2, <1>18, <2>2 DEF Offset, InRegister
  <2> QED BY <1>2, <1>3, <1>4, <1>5, <1>8, <1>18, <2>2, <2>3 DEF PetersonEffect, Quiet, Contends, Passed, InRegister
<1>19. CASE k = 10
  <2>1. i = <<"test", Reg("cx"), Reg("ax")>>
    BY <1>1, <1>19, PetersonListing DEF Offset
  <2>2. Compared(c, d, c.regs["cx"], c.regs["ax"]) /\ n = m
    <3>1. Compared(c, d, Read(F, Reg("cx")), c.regs["ax"]) /\ n = m
      BY <1>1, <1>3, <1>4, <1>5, <1>6, <2>1, TestStep
    <3> QED BY <1>6, <3>1
  <2> HIDE DEF i, F
  <2>3. Offset(d) = 11
    BY <1>1, <1>2, <1>19, <2>2 DEF Offset, Compared
  <2> QED BY <1>2, <1>3, <1>4, <1>5, <1>8, <1>19, <2>2, <2>3 DEF PetersonEffect, Quiet, Contends, Passed, Compared
<1>20. CASE k = 11
  <2>1. i = <<"je", Imm(LoadAddr + 6)>>
    BY <1>1, <1>20, PetersonListing DEF Offset
  <2>2. /\ "eq" \in c.cc => GoesTo(c, d, LoadAddr + 6)
        /\ "eq" \notin c.cc => GoesTo(c, d, c.pc + 1)
        /\ n = m
    BY <1>1, <2>1, BranchStep
  <2> HIDE DEF i, F
  <2>3. Offset(d) = IF "eq" \in c.cc THEN 6 ELSE 12
    BY <1>1, <1>2, <1>20, <2>2 DEF Offset, GoesTo
  <2> QED BY <1>2, <1>3, <1>4, <1>5, <1>8, <1>20, <2>2, <2>3 DEF PetersonEffect, Quiet, Contends, Passed, GoesTo
<1>21. CASE k = 12
  <2>1. i = <<"mov", At(PetersonCount), Reg("ax")>>
    BY <1>1, <1>21, PetersonListing DEF Offset
  <2>2. InRegister(c, d, "ax", m[PetersonCount]) /\ n = m
    <3>1. InRegister(c, d, "ax", Read(F, At(PetersonCount))) /\ n = m
      BY <1>1, <1>3, <1>4, <1>5, <1>6, <2>1, RegisterStep
    <3> QED BY <1>6, <3>1
  <2> HIDE DEF i, F
  <2>3. Offset(d) = 13
    BY <1>1, <1>2, <1>21, <2>2 DEF Offset, InRegister
  <2> QED BY <1>2, <1>3, <1>4, <1>5, <1>8, <1>21, <2>2, <2>3 DEF PetersonEffect, Quiet, Contends, Passed, InRegister
<1>22. CASE k = 13
  <2>1. i = <<"add", Imm(1), Reg("ax")>>
    BY <1>1, <1>22, PetersonListing DEF Offset
  <2>2. InRegister(c, d, "ax", c.regs["ax"] + 1) /\ n = m
    <3>1. InRegister(c, d, "ax", c.regs["ax"] + Read(F, Imm(1))) /\ n = m
      BY <1>1, <1>3, <1>4, <1>5, <1>6, <2>1, RegisterStep
    <3> QED BY <1>6, <3>1
  <2> HIDE DEF i, F
  <2>3. Offset(d) = 14
    BY <1>1, <1>2, <1>22, <2>2 DEF Offset, InRegister
  <2> QED BY <1>2, <1>3, <1>4, <1>5, <1>8, <1>22, <2>2, <2>3 DEF PetersonEffect, Quiet, Contends, Passed, InRegister
<1>23. CASE k = 14
  <2>1. i = <<"mov", Reg("ax"), At(PetersonCount)>>
    BY <1>1, <1>23, PetersonListing DEF Offset
  <2>2. GoesTo(c, d, c.pc + 1) /\ InMemory(m, n, PetersonCount, c.regs["ax"])
    <3>1. GoesTo(c, d, c.pc + 1) /\ InMemory(m, n, PetersonCount, Read(F, Reg("ax")))
      BY <1>1, <1>3, <1>4, <1>5, <1>6, <2>1, MemoryStep
    <3> QED BY <1>6, <3>1
  <2> HIDE DEF i, F
  <2>3. Offset(d) = 15
    BY <1>1, <1>2, <1>23, <2>2 DEF Offset, GoesTo, InMemory
  <2> QED BY <1>2, <1>3, <1>4, <1>5, <1>8, <1>23, <2>2, <2>3 DEF PetersonEffect, Quiet, Contends, Passed, GoesTo, InMemory
<1>24. CASE k = 15
  <2>1. i = <<"mov", Imm(0), OwnFlag>>
    BY <1>1, <1>24, PetersonListing DEF Offset
  <2>2. GoesTo(c, d, c.pc + 1) /\ InMemory(m, n, FlagWord(id), 0)
    <3>1. Address(F, OwnFlag) = FlagWord(id) /\ OwnFlag.type = "memory"
      BY <1>7, <1>24
    <3>2. GoesTo(c, d, c.pc + 1) /\ InMemory(m, n, FlagWord(id), Read(F, Imm(0)))
      BY <1>1, <1>4, <1>6, <2>1, <3>1, MemoryStepTo
    <3> QED BY <1>6, <3>2
  <2> HIDE DEF i, F
  <2>3. Offset(d) = 16
    BY <1>1, <1>2, <1>24, <2>2 DEF Offset, GoesTo, InMemory
  <2> QED BY <1>2, <1>3, <1>4, <1>5, <1>8, <1>24, <2>2, <2>3 DEF PetersonEffect, Quiet, Contends, Passed, GoesTo, InMemory
<1>25. CASE k = 16
  <2>1. i = <<"mov", Reg("cx"), At(GivenWord)>>
    BY <1>1, <1>25, PetersonListing DEF Offset
  <2>2. GoesTo(c, d, c.pc + 1) /\ InMemory(m, n, GivenWord, c.regs["cx"])
    <3>1. GoesTo(c, d, c.pc + 1) /\ InMemory(m, n, GivenWord, Read(F, Reg("cx")))
      BY <1>1, <1>3, <1>4, <1>5, <1>6, <2>1, MemoryStep
    <3> QED BY <1>6, <3>1
  <2> HIDE DEF i, F
  <2>3. Offset(d) = 17
    BY <1>1, <1>2, <1>25, <2>2 DEF Offset, GoesTo, InMemory
  <2> QED BY <1>2, <1>3, <1>4, <1>5, <1>8, <1>25, <2>2, <2>3 DEF PetersonEffect, Quiet, Contends, Passed, GoesTo, InMemory
<1>26. CASE k = 17
  <2>1. i = <<"halt">>
    BY <1>1, <1>26, PetersonListing DEF Offset
  <2> QED BY <2>1 DEF Opcode
<1> QED BY <1>2, <1>9, <1>10, <1>11, <1>12, <1>13, <1>14, <1>15, <1>16, <1>17, <1>18, <1>19, <1>20, <1>21, <1>22, <1>23, <1>24, <1>25, <1>26

Id(t) == ThreadContexts[t].regs["bx"]

\* Once a thread has passed, the other gave it the turn or does not want in.
PetersonInv ==
  opt.program = "Peterson" =>
    /\ memory \in Memories
    /\ memory[GivenWord] \in {0, 1}
    /\ \A t \in Live : Contends(ThreadContexts[t], memory)
    /\ \A t, u \in Live : Id(t) = Id(u) => t = u
    /\ \A t, u \in Live :
         t # u /\ Passed(ThreadContexts[t]) /\ Offset(ThreadContexts[u]) \in 6 .. 15 =>
           memory[GivenWord] = Id(t)

LEMMA PetersonInit == Init => PetersonInv
<1> SUFFICES ASSUME Init, opt.program = "Peterson" PROVE PetersonInv
  BY DEF PetersonInv
<1>1. memory \in Memories /\ memory[GivenWord] = 0
  BY LocksAssumption DEF Init, Memories, GivenWord
<1>2. ASSUME NEW t \in Live
      PROVE  /\ Sane(ThreadContexts[t]) /\ Offset(ThreadContexts[t]) = 0
             /\ Id(t) = opt.argv[t]["bx"]
  BY FirstContexts, X86Assumption DEF Offset, Id, Registers
<1>3. opt \in Options /\ Live \subseteq 0 .. opt.numthreads - 1
  BY DEF Init, Live, Threads
<1>4. \A t \in Live : opt.argv[t]["bx"] \in {0, 1}
  BY <1>3, LocksAssumption
<1>5. \A t, u \in Live : opt.argv[t]["bx"] = opt.argv[u]["bx"] => t = u
  BY <1>3, LocksAssumption
<1>6. ASSUME NEW t \in Live PROVE Contends(ThreadContexts[t], memory)
  BY <1>2, <1>4 DEF Contends, Id
<1> QED BY <1>1, <1>2, <1>5, <1>6 DEF PetersonInv

LEMMA PetersonNext ==
  ASSUME Inv, PetersonInv, [Next]_vars
  PROVE  PetersonInv'
<1> SUFFICES ASSUME opt.program = "Peterson" PROVE PetersonInv'
  BY ThreadStep DEF PetersonInv
<1>1. opt.program' = "Peterson" /\ "Peterson" \in DOMAIN Programs
  BY ThreadStep, X86Assumption DEF Inv
<1>2. CASE UNCHANGED <<ThreadContexts, memory, Live>>
  BY <1>1, <1>2 DEF PetersonInv, Id
<1>3. /\ memory \in Memories /\ memory[GivenWord] \in {0, 1}
      /\ \A t \in Live : Contends(ThreadContexts[t], memory)
      /\ \A t, u \in Live : Id(t) = Id(u) => t = u
      /\ \A t, u \in Live :
           t # u /\ Passed(ThreadContexts[t]) /\ Offset(ThreadContexts[u]) \in 6 .. 15 =>
             memory[GivenWord] = Id(t)
  BY DEF PetersonInv
<1>4. ASSUME NEW t \in Live, ThreadHalts(t) PROVE PetersonInv'
  <2>1. /\ Live' \subseteq Live /\ memory' = memory
        /\ \A u \in Live' : ThreadContexts'[u] = ThreadContexts[u]
    BY <1>4 DEF ThreadHalts
  <2> QED BY <1>1, <1>3, <2>1 DEF PetersonInv, Id
<1>5. ASSUME NEW t \in Live, ThreadExecutes(t) PROVE PetersonInv'
  <2> DEFINE c == ThreadContexts[t]
             d == Context(Execution(Code, c, memory))
             turn == memory[GivenWord]
  <2>1. /\ Live' = Live /\ ThreadContexts'[t] = d
        /\ \A u \in Live \ {t} : ThreadContexts'[u] = ThreadContexts[u]
        /\ memory' = Execution(Code, c, memory).memory
    BY <1>5 DEF ThreadExecutes, ThreadContexts, Live
  <2>2. PetersonEffect(c, d, memory, memory')
    BY <1>1, <1>3, <1>5, <2>1, PetersonStep DEF ThreadExecutes, Code
  <2> HIDE DEF d
  <2>3. /\ Contends(d, memory') /\ memory' \in Memories /\ Id(t)' = Id(t) /\ c.regs["bx"] = Id(t)
        /\ memory'[FlagWord(1 - Id(t))] = memory[FlagWord(1 - Id(t))]
    BY <2>1, <2>2 DEF PetersonEffect, Id
  <2>4. Id(t) \in {0, 1} /\ \A u \in Live \ {t} : Id(u) = 1 - Id(t) /\ Id(u)' = Id(u)
    <3>1. \A u \in Live : Id(u) \in {0, 1}
      BY <1>3 DEF Contends, Id
    <3>2. \A u \in Live \ {t} : Id(u) # Id(t) /\ Id(u)' = Id(u)
      BY <1>3, <2>1 DEF Id
    <3> QED BY <3>1, <3>2
  <2>5. ASSUME NEW u \in Live \ {t} PROVE Contends(ThreadContexts'[u], memory')
    <3>1. memory'[FlagWord(Id(u))] = memory[FlagWord(Id(u))]
      BY <2>3, <2>4
    <3>2. Contends(ThreadContexts[u], memory)
      BY <1>3
    <3> QED BY <2>1, <3>1, <3>2 DEF Contends, Id
  <2>6. /\ \/ memory'[GivenWord] = turn /\ (Offset(d) \in 6 .. 15 => Offset(c) \in 6 .. 15)
           \/ memory'[GivenWord] = 1 - Id(t) /\ ~Passed(d)
        /\ Passed(d) => Passed(c) \/ memory[FlagWord(1 - Id(t))] # 1 \/ turn # 1 - Id(t)
    BY <2>2, <2>3 DEF PetersonEffect
  <2>7. ASSUME NEW u \in Live \ {t}, Passed(d), Offset(ThreadContexts[u]) \in 6 .. 15
        PROVE  memory'[GivenWord] = Id(t)
    <3>1. memory[FlagWord(1 - Id(t))] = 1
      <4>1. Contends(ThreadContexts[u], memory) /\ Offset(ThreadContexts[u]) \in 5 .. 15
        BY <1>3, <2>7
      <4> QED BY <2>4, <4>1 DEF Contends, Id
    <3>2. Passed(c) => turn = Id(t)
      BY <1>3, <2>7
    <3> QED BY <1>3, <2>4, <2>6, <2>7, <3>1, <3>2
  <2>8. ASSUME NEW u \in Live \ {t}, Passed(ThreadContexts[u]), Offset(d) \in 6 .. 15
        PROVE  memory'[GivenWord] = Id(u)
    BY <1>3, <2>4, <2>6, <2>8
  <2>9. memory'[GivenWord] \in {0, 1}
    BY <1>3, <2>4, <2>6
  <2>10. \A u, w \in Live' : Id(u)' = Id(w)' => u = w
    BY <1>3, <2>1, <2>3, <2>4
  <2>11. \A u \in Live' : Contends(ThreadContexts'[u], memory')
    BY <2>1, <2>3, <2>5
  <2>12. ASSUME NEW u \in Live', NEW w \in Live', u # w, Passed(ThreadContexts'[u]),
                Offset(ThreadContexts'[w]) \in 6 .. 15
         PROVE  memory'[GivenWord] = Id(u)'
    <3>1. CASE u = t
      BY <2>1, <2>3, <2>7, <2>12, <3>1
    <3>2. CASE w = t
      BY <2>1, <2>4, <2>8, <2>12, <3>2
    <3>3. CASE u # t /\ w # t
      BY <2>1, <2>4, <2>12, <3>3, <1>3
    <3> QED BY <3>1, <3>2, <3>3
  <2>13. /\ Id(t)' = ThreadContexts'[t].regs["bx"]
    BY DEF Id
  <2> QED BY <1>1, <2>3, <2>9, <2>10, <2>11, <2>12 DEF PetersonInv
<1> QED BY <1>2, <1>4, <1>5, ThreadStep

LEMMA PetersonCritical ==
  ASSUME PetersonInv, Inv, opt.program = "Peterson"
  PROVE  Alone
<1>1. /\ CriticalPCs["Peterson"] = LoadAddr + 12 .. LoadAddr + 12 + 2 /\ LoadAddr \in Nat
  BY X86Assumption, PetersonLoaded DEF Inv, CriticalFrom
<1>2. ASSUME NEW t \in Threads, InCritical(t)
      PROVE  t \in Live /\ Passed(ThreadContexts[t]) /\ Offset(ThreadContexts[t]) \in 6 .. 15
  <2>1. t \in Live /\ ThreadContexts[t].pc \in LoadAddr + 12 .. LoadAddr + 12 + 2
    BY <1>1, <1>2 DEF InCritical, At_, Live
  <2>2. Offset(ThreadContexts[t]) \in 12 .. 14
    BY <1>1, <2>1 DEF Offset
  <2> QED BY <2>1, <2>2 DEF Passed
<1>3. ASSUME NEW t \in Threads, NEW u \in Threads, InCritical(t), InCritical(u), t # u
      PROVE  FALSE
  <2>1. memory[GivenWord] = Id(t) /\ memory[GivenWord] = Id(u)
    BY <1>2, <1>3 DEF PetersonInv
  <2>2. t \in Live /\ u \in Live
    BY <1>2, <1>3
  <2> QED BY <1>3, <2>1, <2>2 DEF PetersonInv
<1> QED BY <1>3 DEF Alone

-----------------------------------------------------------------------------
(* The lock that is called.  It reads its argument from a word above the   *)
(* stack where nobody writes, and so swaps the word at address 0.          *)

LockWord == 0
Caller == "LoopingRaceCallRet"

\* The words of memory that the thread whose stack begins at B uses.
StackOf(B) ==
  /\ B \in Int
  /\ {B - 4, B - 8, B - 12} \subseteq Addresses
  /\ {B - 4, B - 8, B - 12} \cap {LockWord, CountWord} = {}

LEMMA CallerListing ==
  ASSUME Caller \in DOMAIN Programs, NEW pc \in Nat
  PROVE  LET i == Programs[Caller][pc]
             k == pc - LoadAddr
         IN  /\ k \in {0, 6} => i = <<"push", At(MutexWord)>>
             /\ k = 1 => i = <<"call", Imm(LoadAddr + 13)>>
             /\ k = 7 => i = <<"call", Imm(LoadAddr + 19)>>
             /\ k \in {2, 8} => i = <<"pop">>
             /\ k = 3 => i = <<"mov", At(CountWord), Reg("ax")>>
             /\ k = 4 => i = <<"add", Imm(1), Reg("ax")>>
             /\ k = 5 => i = <<"mov", Reg("ax"), At(CountWord)>>
             /\ k = 9 => i = <<"sub", Imm(1), Reg("bx")>>
             /\ k = 10 => i = <<"test", Imm(0), Reg("bx")>>
             /\ k = 11 => i = <<"jgt", Imm(LoadAddr)>>
             /\ k = 12 => i = <<"halt">>
             /\ k \in {13, 19} => i = <<"mov", Argument, Reg("ax")>>
             /\ k = 14 => i = <<"mov", Imm(1), Reg("cx")>>
             /\ k = 15 => i = <<"xchg", Reg("cx"), Pointed>>
             /\ k = 16 => i = <<"test", Imm(0), Reg("cx")>>
             /\ k = 17 => i = <<"jne", Imm(LoadAddr + 13)>>
             /\ k \in {18, 21} => i = <<"ret">>
             /\ k = 20 => i = <<"mov", Imm(0), Pointed>>
<1> DEFINE p == Caller
           i == Programs[p][pc]
           k == pc - LoadAddr
<1>1. /\ p \in DOMAIN Programs
      /\ ax = Reg("ax") /\ bx = Reg("bx") /\ cx = Reg("cx") /\ Addr(0) = Imm(LoadAddr)
      /\ Addr(13) = Imm(LoadAddr + 13) /\ Addr(19) = Imm(LoadAddr + 19)
      /\ At(100) = At(MutexWord) /\ At(104) = At(CountWord)
  BY X86Assumption DEF ax, bx, cx, Addr, MutexWord, CountWord
<1>2. /\ Loads(p, 0, << <<"push", At(100)>>, <<"call", Addr(13)>>, <<"pop">> >>)
      /\ Loads(p, 3, << <<"mov", At(104), ax>>, <<"add", Imm(1), ax>>, <<"mov", ax, At(104)>> >>)
      /\ Loads(p, 6, << <<"push", At(100)>>, <<"call", Addr(19)>>, <<"pop">> >>)
      /\ Loads(p, 9, LoopEndTo(Addr(0)))
      /\ Loads(p, 13, << <<"mov", Argument, ax>>, <<"mov", Imm(1), cx>>, <<"xchg", cx, Pointed>> >>)
      /\ Loads(p, 16, << <<"test", Imm(0), cx>>, <<"jne", Addr(13)>>, <<"ret">> >>)
      /\ Loads(p, 19, << <<"mov", Argument, ax>>, <<"mov", Imm(0), Pointed>>, <<"ret">> >>)
  BY LoopingRaceCallRetLoaded DEF IncrementAt, CallWith, Caller
<1>3. /\ k = 0 => i = <<"push", At(100)>>
      /\ k = 1 => i = <<"call", Addr(13)>>
      /\ k = 2 => i = <<"pop">>
  BY <1>1, <1>2, LoadsThree
<1>4. /\ k = 3 => i = <<"mov", At(104), ax>>
      /\ k = 4 => i = <<"add", Imm(1), ax>>
      /\ k = 5 => i = <<"mov", ax, At(104)>>
  BY <1>1, <1>2, LoadsThree
<1>5. /\ k = 6 => i = <<"push", At(100)>>
      /\ k = 7 => i = <<"call", Addr(19)>>
      /\ k = 8 => i = <<"pop">>
  BY <1>1, <1>2, LoadsThree
<1>6. EndsLoop(p, 9, pc)
  BY <1>1, <1>2, LoopTail
<1>7. /\ k = 13 => i = <<"mov", Argument, ax>>
      /\ k = 14 => i = <<"mov", Imm(1), cx>>
      /\ k = 15 => i = <<"xchg", cx, Pointed>>
  BY <1>1, <1>2, LoadsThree
<1>8. /\ k = 16 => i = <<"test", Imm(0), cx>>
      /\ k = 17 => i = <<"jne", Addr(13)>>
      /\ k = 18 => i = <<"ret">>
  BY <1>1, <1>2, LoadsThree
<1>9. /\ k = 19 => i = <<"mov", Argument, ax>>
      /\ k = 20 => i = <<"mov", Imm(0), Pointed>>
      /\ k = 21 => i = <<"ret">>
  BY <1>1, <1>2, LoadsThree
<1> QED BY <1>1, <1>3, <1>4, <1>5, <1>6, <1>7, <1>8, <1>9 DEF EndsLoop

\* The thread has swapped the 0 out, and not released yet.
HasLock(c) ==
  \/ Offset(c) = 16 /\ c.regs["cx"] = 0
  \/ Offset(c) = 17 /\ "eq" \in c.cc
  \/ Offset(c) \in 2 .. 7 \cup 18 .. 20

\* Its stack holds the address to return to, and a 0 where the lock looks for
\* its argument.
Calls(c, m, B) ==
  /\ Sane(c)
  /\ Offset(c) \in 0 .. 21
  /\ Offset(c) \in {0} \cup 3 .. 6 \cup 9 .. 12 => c.regs["sp"] = B
  /\ Offset(c) \in {1, 2, 7, 8} => c.regs["sp"] = B - 4
  /\ Offset(c) \in 13 .. 21 => c.regs["sp"] = B - 8
  /\ Offset(c) \in 13 .. 18 => m[B - 8] = LoadAddr + 2
  /\ Offset(c) \in 19 .. 21 => m[B - 8] = LoadAddr + 8
  /\ m[B - 12] = 0
  /\ Offset(c) \in {14, 15, 20} => c.regs["ax"] = LockWord
  /\ Offset(c) = 15 => c.regs["cx"] = 1
  /\ Offset(c) = 17 => ("neq" \in c.cc <=> "eq" \notin c.cc)

\* lock() belongs to its call, before the increment, and unlock() to its own,
\* after it.
CallPlace(k) == IF k \in 13 .. 18 THEN 1 ELSE IF k \in 19 .. 21 THEN 7 ELSE k
CallQuiet(c, d, m, n) ==
  Quiet(3, 9, CountWord, CallPlace(Offset(c)), CallPlace(Offset(d)), c, d, m, n)

\* A step takes the lock, or releases it, or leaves it alone.
CallLocks(c, d, m, n, B) ==
  /\ Calls(d, n, B) /\ n \in Memories
  /\ \A a \in Addresses \ {LockWord, CountWord, B - 4, B - 8} : n[a] = m[a]
  /\ \/ (HasLock(d) <=> HasLock(c)) /\ n[LockWord] = m[LockWord]
     \/ ~HasLock(c) /\ (HasLock(d) <=> m[LockWord] = 0) /\ n[LockWord] = 1
     \/ HasLock(c) /\ ~HasLock(d) /\ n[LockWord] = 0
CallEffect(c, d, m, n, B) == CallLocks(c, d, m, n, B) /\ CallQuiet(c, d, m, n)

LEMMA CallStep ==
  ASSUME Caller \in DOMAIN Programs, NEW B, StackOf(B), LockWord \in Addresses,
         NEW c, NEW m \in Memories, Calls(c, m, B), Opcode(Programs[Caller][c.pc]) # "halt",
         NEW d, d = Context(Execution(Programs[Caller], c, m)),
         NEW n, n = Execution(Programs[Caller], c, m).memory
  PROVE  CallEffect(c, d, m, n, B)
<1> DEFINE code == Programs[Caller]
           i == code[c.pc]
           k == Offset(c)
           F == Fetching(c, m)
           top == c.regs["sp"]
<1>1. /\ Sane(c) /\ c.pc \in Nat /\ c.regs \in [Registers -> Int] /\ LoadAddr \in Nat
      /\ LoadAddr + 13 \in Nat /\ LoadAddr + 19 \in Nat
  <2>1. Sane(c)
    BY DEF Calls
  <2>2. c.pc \in Nat /\ c.regs \in [Registers -> Int]
    BY <2>1, SaneFields
  <2> QED BY <2>1, <2>2, X86Assumption
<1>2. /\ k \in 0 .. 21 /\ c.pc = LoadAddr + k
  BY <1>1 DEF Calls, Offset
<1>3. /\ {"ax", "bx", "cx", "sp"} \subseteq Registers \ {"zero"}
      /\ \A r \in Registers : c.regs[r] \in Int
      /\ c.regs["ax"] \in Int /\ c.regs["bx"] \in Int /\ c.regs["cx"] \in Int
  BY <1>1 DEF Registers
<1>4. /\ CountWord \in Addresses \cap Int /\ MutexWord \in Int /\ LockWord \in Addresses \cap Int
      /\ CountWord # LockWord /\ B \in Int
      /\ B - 4 \in Addresses /\ B - 8 \in Addresses /\ B - 12 \in Addresses
      /\ {B - 4, B - 8, B - 12} \cap {LockWord, CountWord} = {}
      /\ B - 4 # B - 8 /\ B - 4 # B - 12 /\ B - 8 # B - 12
      /\ B - 8 - 4 = B - 12 /\ B - 4 - 4 = B - 8 /\ B - 4 + 4 = B /\ B - 8 + 4 = B - 4
  BY LocksAssumption DEF CountWord, MutexWord, LockWord, StackOf
<1>5. /\ m[LockWord] \in Int /\ m[CountWord] \in Int
  BY <1>4 DEF Memories
<1>6. /\ Read(F, Imm(0)) = 0 /\ Read(F, Imm(1)) = 1
      /\ Read(F, At(CountWord)) = m[CountWord] /\ Read(F, Reg("ax")) = c.regs["ax"]
      /\ Read(F, Imm(0)) \in Int /\ Read(F, Imm(1)) \in Int
      /\ Read(F, At(CountWord)) \in Int /\ Read(F, Reg("ax")) \in Int
  BY <1>1, <1>3, <1>4, <1>5, Values
<1>7. /\ Pointed.type = "memory" /\ Read(F, Argument) = m[top - 4]
      /\ Address(F, Pointed) = c.regs["ax"] /\ AtomicAddress(F, Pointed) = c.regs["ax"]
  BY <1>1, Places
<1>8. /\ k \in {0} \cup 3 .. 6 \cup 9 .. 12 => top = B
      /\ k \in {1, 2, 7, 8} => top = B - 4
      /\ k \in 13 .. 21 => top = B - 8
      /\ k \in 13 .. 18 => m[B - 8] = LoadAddr + 2
      /\ k \in 19 .. 21 => m[B - 8] = LoadAddr + 8
      /\ m[B - 12] = 0
      /\ k \in {14, 15, 20} => c.regs["ax"] = LockWord
      /\ k = 15 => c.regs["cx"] = 1
      /\ k = 17 => ("neq" \in c.cc <=> "eq" \notin c.cc)
  BY DEF Calls
<1>9. CASE k \in {0, 6}
  <2>1. i = <<"push", At(MutexWord)>>
    BY <1>1, <1>9, CallerListing DEF Offset
  <2>2. Moves(c, d, c.pc + 1, B - 4) /\ InMemory(m, n, B - 4, MutexWord)
    <3>1. top = B /\ top - 4 = B - 4 /\ B - 4 \in Addresses
      BY <1>4, <1>8, <1>9
    <3> HIDE DEF top
    <3>2. Moves(c, d, c.pc + 1, top - 4) /\ InMemory(m, n, top - 4, MutexWord)
      BY <1>1, <1>4, <2>1, <3>1, StackStep DEF top
    <3> QED BY <3>1, <3>2
  <2> HIDE DEF i, F
  <2>3. Offset(d) = k + 1
    BY <1>1, <1>2, <1>8, <1>9, <2>2 DEF Offset, Moves, InMemory
  <2>4. /\ n \in Memories /\ n[LockWord] = m[LockWord] /\ n[B - 8] = m[B - 8] /\ n[B - 12] = m[B - 12]
        /\ \A a \in Addresses \ {LockWord, CountWord, B - 4, B - 8} : n[a] = m[a]
        /\ n[CountWord] = m[CountWord]
    BY <1>4, <2>2 DEF InMemory
  <2>5. CallQuiet(c, d, m, n)
    BY <1>2, <1>3, <1>4, <1>9, <2>2, <2>3, <2>4 DEF CallQuiet, CallPlace, Quiet, Moves
  <2>6. CallLocks(c, d, m, n, B)
    BY <1>2, <1>3, <1>4, <1>5, <1>8, <1>9, <2>2, <2>3, <2>4 DEF CallLocks, Calls, HasLock, Moves
  <2> QED BY <2>5, <2>6 DEF CallEffect
<1>10. CASE k = 1
  <2>1. i = <<"call", Imm(LoadAddr + 13)>>
    BY <1>1, <1>10, CallerListing DEF Offset
  <2>2. Moves(c, d, LoadAddr + 13, B - 8) /\ InMemory(m, n, B - 8, c.pc + 1)
    <3>1. top = B - 4 /\ top - 4 = B - 8 /\ B - 8 \in Addresses
      BY <1>4, <1>8, <1>10
    <3> HIDE DEF top
    <3>2. Moves(c, d, LoadAddr + 13, top - 4) /\ InMemory(m, n, top - 4, c.pc + 1)
      BY <1>1, <1>4, <2>1, <3>1, StackStep DEF top
    <3> QED BY <3>1, <3>2
  <2> HIDE DEF i, F
  <2>3. Offset(d) = 13 /\ c.pc + 1 = LoadAddr + 2
    BY <1>1, <1>2, <1>8, <1>10, <2>2 DEF Offset, Moves, InMemory
  <2>4. /\ n \in Memories /\ n[LockWord] = m[LockWord] /\ n[B - 8] = c.pc + 1 /\ n[B - 12] = m[B - 12]
        /\ \A a \in Addresses \ {LockWord, CountWord, B - 4, B - 8} : n[a] = m[a]
        /\ n[CountWord] = m[CountWord]
    BY <1>4, <2>2 DEF InMemory
  <2>5. CallQuiet(c, d, m, n)
    BY <1>2, <1>3, <1>4, <1>10, <2>2, <2>3, <2>4 DEF CallQuiet, CallPlace, Quiet, Moves
  <2>6. CallLocks(c, d, m, n, B)
    BY <1>2, <1>3, <1>4, <1>5, <1>8, <1>10, <2>2, <2>3, <2>4 DEF CallLocks, Calls, HasLock, Moves
  <2> QED BY <2>5, <2>6 DEF CallEffect
<1>11. CASE k \in {2, 8}
  <2>1. i = <<"pop">>
    BY <1>1, <1>11, CallerListing DEF Offset
  <2>2. Moves(c, d, c.pc + 1, B) /\ n = m
    <3>1. top = B - 4 /\ top + 4 = B
      BY <1>4, <1>8, <1>11
    <3> HIDE DEF top
    <3>2. Moves(c, d, c.pc + 1, top + 4) /\ n = m
      BY <1>1, <1>4, <2>1, <3>1, StackStep DEF top
    <3> QED BY <3>1, <3>2
  <2> HIDE DEF i, F
  <2>3. Offset(d) = k + 1
    BY <1>1, <1>2, <1>8, <1>11, <2>2 DEF Offset, Moves
  <2>5. CallQuiet(c, d, m, n)
    BY <1>2, <1>3, <1>4, <1>11, <2>2, <2>3 DEF CallQuiet, CallPlace, Quiet, Moves
  <2>6. CallLocks(c, d, m, n, B)
    BY <1>2, <1>3, <1>4, <1>5, <1>8, <1>11, <2>2, <2>3 DEF CallLocks, Calls, HasLock, Moves
  <2> QED BY <2>5, <2>6 DEF CallEffect
<1>12. CASE k = 3
  <2>1. i = <<"mov", At(CountWord), Reg("ax")>>
    BY <1>1, <1>12, CallerListing DEF Offset
  <2>2. InRegister(c, d, "ax", m[CountWord]) /\ n = m
    <3>1. "ax" \in Registers \ {"zero"} /\ Read(F, At(CountWord)) \in Int
      BY <1>3, <1>6
    <3>2. InRegister(c, d, "ax", Read(F, At(CountWord))) /\ n = m
      BY <1>1, <2>1, <3>1, RegisterStep
    <3> QED BY <1>6, <3>2
  <2> HIDE DEF i, F
  <2>3. Offset(d) = 4
    BY <1>1, <1>2, <1>8, <1>12, <2>2 DEF Offset, InRegister
  <2>5. CallQuiet(c, d, m, n)
    BY <1>2, <1>3, <1>4, <1>12, <2>2, <2>3 DEF CallQuiet, CallPlace, Quiet, InRegister
  <2>6. CallLocks(c, d, m, n, B)
    BY <1>2, <1>3, <1>4, <1>5, <1>8, <1>12, <2>2, <2>3 DEF CallLocks, Calls, HasLock, InRegister
  <2> QED BY <2>5, <2>6 DEF CallEffect
<1>13. CASE k = 4
  <2>1. i = <<"add", Imm(1), Reg("ax")>>
    BY <1>1, <1>13, CallerListing DEF Offset
  <2>2. InRegister(c, d, "ax", c.regs["ax"] + 1) /\ n = m
    <3>1. "ax" \in Registers \ {"zero"} /\ Read(F, Imm(1)) \in Int
      BY <1>3, <1>6
    <3>2. InRegister(c, d, "ax", c.regs["ax"] + Read(F, Imm(1))) /\ n = m
      BY <1>1, <2>1, <3>1, RegisterStep
    <3> QED BY <1>6, <3>2
  <2> HIDE DEF i, F
  <2>3. Offset(d) = 5
    BY <1>1, <1>2, <1>8, <1>13, <2>2 DEF Offset, InRegister
  <2>5. CallQuiet(c, d, m, n)
    BY <1>2, <1>3, <1>4, <1>13, <2>2, <2>3 DEF CallQuiet, CallPlace, Quiet, InRegister
  <2>6. CallLocks(c, d, m, n, B)
    BY <1>2, <1>3, <1>4, <1>5, <1>8, <1>13, <2>2, <2>3 DEF CallLocks, Calls, HasLock, InRegister
  <2> QED BY <2>5, <2>6 DEF CallEffect
<1>14. CASE k = 5
  <2>1. i = <<"mov", Reg("ax"), At(CountWord)>>
    BY <1>1, <1>14, CallerListing DEF Offset
  <2>2. GoesTo(c, d, c.pc + 1) /\ InMemory(m, n, CountWord, c.regs["ax"])
    <3>1. GoesTo(c, d, c.pc + 1) /\ InMemory(m, n, CountWord, Read(F, Reg("ax")))
      BY <1>1, <1>4, <1>6, <2>1, MemoryStep
    <3> QED BY <1>6, <3>1
  <2> HIDE DEF i, F
  <2>3. Offset(d) = 6
    BY <1>1, <1>2, <1>8, <1>14, <2>2 DEF Offset, GoesTo, InMemory
  <2>4. /\ n \in Memories /\ n[LockWord] = m[LockWord] /\ n[B - 8] = m[B - 8] /\ n[B - 12] = m[B - 12]
        /\ \A a \in Addresses \ {LockWord, CountWord, B - 4, B - 8} : n[a] = m[a]
    BY <1>4, <2>2 DEF InMemory
  <2>5. CallQuiet(c, d, m, n)
    BY <1>2, <1>3, <1>4, <1>14, <2>2, <2>3, <2>4 DEF CallQuiet, CallPlace, Quiet, GoesTo
  <2>6. CallLocks(c, d, m, n, B)
    BY <1>2, <1>3, <1>4, <1>5, <1>8, <1>14, <2>2, <2>3, <2>4 DEF CallLocks, Calls, HasLock, GoesTo
  <2> QED BY <2>5, <2>6 DEF CallEffect
<1>15. CASE k = 7
  <2>1. i = <<"call", Imm(LoadAddr + 19)>>
    BY <1>1, <1>15, CallerListing DEF Offset
  <2>2. Moves(c, d, LoadAddr + 19, B - 8) /\ InMemory(m, n, B - 8, c.pc + 1)
    <3>1. top = B - 4 /\ top - 4 = B - 8 /\ B - 8 \in Addresses
      BY <1>4, <1>8, <1>15
    <3> HIDE DEF top
    <3>2. Moves(c, d, LoadAddr + 19, top - 4) /\ InMemory(m, n, top - 4, c.pc + 1)
      BY <1>1, <1>4, <2>1, <3>1, StackStep DEF top
    <3> QED BY <3>1, <3>2
  <2> HIDE DEF i, F
  <2>3. Offset(d) = 19 /\ c.pc + 1 = LoadAddr + 8
    BY <1>1, <1>2, <1>8, <1>15, <2>2 DEF Offset, Moves, InMemory
  <2>4. /\ n \in Memories /\ n[LockWord] = m[LockWord] /\ n[B - 8] = c.pc + 1 /\ n[B - 12] = m[B - 12]
        /\ \A a \in Addresses \ {LockWord, CountWord, B - 4, B - 8} : n[a] = m[a]
        /\ n[CountWord] = m[CountWord]
    BY <1>4, <2>2 DEF InMemory
  <2>5. CallQuiet(c, d, m, n)
    BY <1>2, <1>3, <1>4, <1>15, <2>2, <2>3, <2>4 DEF CallQuiet, CallPlace, Quiet, Moves
  <2>6. CallLocks(c, d, m, n, B)
    BY <1>2, <1>3, <1>4, <1>5, <1>8, <1>15, <2>2, <2>3, <2>4 DEF CallLocks, Calls, HasLock, Moves
  <2> QED BY <2>5, <2>6 DEF CallEffect
<1>16. CASE k = 9
  <2>1. i = <<"sub", Imm(1), Reg("bx")>>
    BY <1>1, <1>16, CallerListing DEF Offset
  <2>2. InRegister(c, d, "bx", c.regs["bx"] - 1) /\ n = m
    <3>1. "bx" \in Registers \ {"zero"} /\ Read(F, Imm(1)) \in Int
      BY <1>3, <1>6
    <3>2. InRegister(c, d, "bx", c.regs["bx"] - Read(F, Imm(1))) /\ n = m
      BY <1>1, <2>1, <3>1, RegisterStep
    <3> QED BY <1>6, <3>2
  <2> HIDE DEF i, F
  <2>3. Offset(d) = 10
    BY <1>1, <1>2, <1>8, <1>16, <2>2 DEF Offset, InRegister
  <2>5. CallQuiet(c, d, m, n)
    BY <1>2, <1>3, <1>4, <1>16, <2>2, <2>3 DEF CallQuiet, CallPlace, Quiet, InRegister
  <2>6. CallLocks(c, d, m, n, B)
    BY <1>2, <1>3, <1>4, <1>5, <1>8, <1>16, <2>2, <2>3 DEF CallLocks, Calls, HasLock, InRegister
  <2> QED BY <2>5, <2>6 DEF CallEffect
<1>17. CASE k = 10
  <2>1. i = <<"test", Imm(0), Reg("bx")>>
    BY <1>1, <1>17, CallerListing DEF Offset
  <2>2. Compared(c, d, 0, c.regs["bx"]) /\ n = m
    <3>1. "bx" \in Registers \ {"zero"} /\ Read(F, Imm(0)) \in Int
      BY <1>3, <1>6
    <3>2. Compared(c, d, Read(F, Imm(0)), c.regs["bx"]) /\ n = m
      BY <1>1, <2>1, <3>1, TestStep
    <3> QED BY <1>6, <3>2
  <2> HIDE DEF i, F
  <2>3. Offset(d) = 11
    BY <1>1, <1>2, <1>8, <1>17, <2>2 DEF Offset, Compared
  <2>5. CallQuiet(c, d, m, n)
    BY <1>2, <1>3, <1>4, <1>17, <2>2, <2>3 DEF CallQuiet, CallPlace, Quiet, Compared
  <2>6. CallLocks(c, d, m, n, B)
    BY <1>2, <1>3, <1>4, <1>5, <1>8, <1>17, <2>2, <2>3 DEF CallLocks, Calls, HasLock, Compared
  <2> QED BY <2>5, <2>6 DEF CallEffect
<1>18. CASE k = 11
  <2>1. i = <<"jgt", Imm(LoadAddr)>>
    BY <1>1, <1>18, CallerListing DEF Offset
  <2>2. (GoesTo(c, d, LoadAddr) \/ GoesTo(c, d, c.pc + 1)) /\ n = m
    BY <1>1, <2>1, BranchStep
  <2> HIDE DEF i, F
  <2>3. Offset(d) = 0 \/ Offset(d) = 12
    BY <1>1, <1>2, <1>8, <1>18, <2>2 DEF Offset, GoesTo
  <2>5. CallQuiet(c, d, m, n)
    BY <1>2, <1>3, <1>4, <1>18, <2>2, <2>3 DEF CallQuiet, CallPlace, Quiet, GoesTo
  <2>6. CallLocks(c, d, m, n, B)
    BY <1>2, <1>3, <1>4, <1>5, <1>8, <1>18, <2>2, <2>3 DEF CallLocks, Calls, HasLock, GoesTo
  <2> QED BY <2>5, <2>6 DEF CallEffect
<1>19. CASE k \in {13, 19}
  <2>1. i = <<"mov", Argument, Reg("ax")>>
    BY <1>1, <1>19, CallerListing DEF Offset
  <2>2. InRegister(c, d, "ax", LockWord) /\ n = m
    <3>1. Read(F, Argument) = LockWord /\ Read(F, Argument) \in Int
      BY <1>4, <1>7, <1>8, <1>19 DEF LockWord
    <3>2. InRegister(c, d, "ax", Read(F, Argument)) /\ n = m
      BY <1>1, <1>3, <2>1, <3>1, RegisterStep
    <3> QED BY <3>1, <3>2
  <2> HIDE DEF i, F
  <2>3. Offset(d) = k + 1
    BY <1>1, <1>2, <1>8, <1>19, <2>2 DEF Offset, InRegister
  <2>5. CallQuiet(c, d, m, n)
    BY <1>2, <1>3, <1>4, <1>19, <2>2, <2>3 DEF CallQuiet, CallPlace, Quiet, InRegister
  <2>6. CallLocks(c, d, m, n, B)
    BY <1>2, <1>3, <1>4, <1>5, <1>8, <1>19, <2>2, <2>3 DEF CallLocks, Calls, HasLock, InRegister
  <2> QED BY <2>5, <2>6 DEF CallEffect
<1>20. CASE k = 14
  <2>1. i = <<"mov", Imm(1), Reg("cx")>>
    BY <1>1, <1>20, CallerListing DEF Offset
  <2>2. InRegister(c, d, "cx", 1) /\ n = m
    <3>1. "cx" \in Registers \ {"zero"} /\ Read(F, Imm(1)) \in Int
      BY <1>3, <1>6
    <3>2. InRegister(c, d, "cx", Read(F, Imm(1))) /\ n = m
      BY <1>1, <2>1, <3>1, RegisterStep
    <3> QED BY <1>6, <3>2
  <2> HIDE DEF i, F
  <2>3. Offset(d) = 15
    BY <1>1, <1>2, <1>8, <1>20, <2>2 DEF Offset, InRegister
  <2>5. CallQuiet(c, d, m, n)
    BY <1>2, <1>3, <1>4, <1>20, <2>2, <2>3 DEF CallQuiet, CallPlace, Quiet, InRegister
  <2>6. CallLocks(c, d, m, n, B)
    BY <1>2, <1>3, <1>4, <1>5, <1>8, <1>20, <2>2, <2>3 DEF CallLocks, Calls, HasLock, InRegister
  <2> QED BY <2>5, <2>6 DEF CallEffect
<1>21. CASE k = 15
  <2>1. i = <<"xchg", Reg("cx"), Pointed>>
    BY <1>1, <1>21, CallerListing DEF Offset
  <2>2. InRegister(c, d, "cx", m[LockWord]) /\ InMemory(m, n, LockWord, c.regs["cx"])
    <3>1. AtomicAddress(F, Pointed) = LockWord
      BY <1>7, <1>8, <1>21
    <3> QED BY <1>1, <1>3, <1>4, <2>1, <3>1, AtomicStepTo
  <2> HIDE DEF i, F
  <2>3. Offset(d) = 16
    BY <1>1, <1>2, <1>8, <1>21, <2>2 DEF Offset, InRegister, InMemory
  <2>4. /\ n \in Memories /\ n[LockWord] = c.regs["cx"] /\ n[B - 8] = m[B - 8] /\ n[B - 12] = m[B - 12]
        /\ \A a \in Addresses \ {LockWord, CountWord, B - 4, B - 8} : n[a] = m[a]
        /\ n[CountWord] = m[CountWord]
    BY <1>4, <2>2 DEF InMemory
  <2>5. CallQuiet(c, d, m, n)
    BY <1>2, <1>3, <1>4, <1>21, <2>2, <2>3, <2>4 DEF CallQuiet, CallPlace, Quiet, InRegister
  <2>6. CallLocks(c, d, m, n, B)
    BY <1>2, <1>3, <1>4, <1>5, <1>8, <1>21, <2>2, <2>3, <2>4 DEF CallLocks, Calls, HasLock, InRegister
  <2> QED BY <2>5, <2>6 DEF CallEffect
<1>22. CASE k = 16
  <2>1. i = <<"test", Imm(0), Reg("cx")>>
    BY <1>1, <1>22, CallerListing DEF Offset
  <2>2. Compared(c, d, 0, c.regs["cx"]) /\ n = m
    <3>1. "cx" \in Registers \ {"zero"} /\ Read(F, Imm(0)) \in Int
      BY <1>3, <1>6
    <3>2. Compared(c, d, Read(F, Imm(0)), c.regs["cx"]) /\ n = m
      BY <1>1, <2>1, <3>1, TestStep
    <3> QED BY <1>6, <3>2
  <2> HIDE DEF i, F
  <2>3. Offset(d) = 17
    BY <1>1, <1>2, <1>8, <1>22, <2>2 DEF Offset, Compared
  <2>5. CallQuiet(c, d, m, n)
    BY <1>2, <1>3, <1>4, <1>22, <2>2, <2>3 DEF CallQuiet, CallPlace, Quiet, Compared
  <2>6. CallLocks(c, d, m, n, B)
    BY <1>2, <1>3, <1>4, <1>5, <1>8, <1>22, <2>2, <2>3 DEF CallLocks, Calls, HasLock, Compared
  <2> QED BY <2>5, <2>6 DEF CallEffect
<1>23. CASE k = 17
  <2>1. i = <<"jne", Imm(LoadAddr + 13)>>
    BY <1>1, <1>23, CallerListing DEF Offset
  <2>2. /\ "neq" \in c.cc => GoesTo(c, d, LoadAddr + 13)
        /\ "neq" \notin c.cc => GoesTo(c, d, c.pc + 1)
        /\ n = m
    <3>1. /\ Sane(c) /\ LoadAddr + 13 \in Nat
          /\ Programs[Caller][c.pc] = <<"jne", Imm(LoadAddr + 13)>>
      BY <1>1, <2>1
    <3> QED BY ONLY <3>1, BranchStep, d = Context(Execution(Programs[Caller], c, m)),
                    n = Execution(Programs[Caller], c, m).memory
  <2> HIDE DEF i, F
  <2>3. Offset(d) = IF "neq" \in c.cc THEN 13 ELSE 18
    BY <1>1, <1>2, <1>23, <2>2 DEF Offset, GoesTo
  <2>5. CallQuiet(c, d, m, n)
    BY <1>2, <1>3, <1>4, <1>23, <2>2, <2>3 DEF CallQuiet, CallPlace, Quiet, GoesTo
  <2>6. CallLocks(c, d, m, n, B)
    BY <1>2, <1>3, <1>4, <1>5, <1>8, <1>23, <2>2, <2>3 DEF CallLocks, Calls, HasLock, GoesTo
  <2> QED BY <2>5, <2>6 DEF CallEffect
<1>24. CASE k \in {18, 21}
  <2>1. i = <<"ret">>
    BY <1>1, <1>24, CallerListing DEF Offset
  <2>2. Moves(c, d, m[B - 8], B - 4) /\ n = m
    <3>1. top = B - 8 /\ top + 4 = B - 4 /\ m[top] = m[B - 8] /\ m[top] \in Nat
      BY <1>1, <1>4, <1>8, <1>24
    <3> HIDE DEF top
    <3>2. Moves(c, d, m[top], top + 4) /\ n = m
      BY <1>1, <1>4, <2>1, <3>1, StackStep DEF top
    <3> QED BY <3>1, <3>2
  <2> HIDE DEF i, F
  <2>3. Offset(d) = IF k = 18 THEN 2 ELSE 8
    BY <1>1, <1>2, <1>8, <1>24, <2>2 DEF Offset, Moves
  <2>5. CallQuiet(c, d, m, n)
    BY <1>2, <1>3, <1>4, <1>24, <2>2, <2>3 DEF CallQuiet, CallPlace, Quiet, Moves
  <2>6. CallLocks(c, d, m, n, B)
    BY <1>2, <1>3, <1>4, <1>5, <1>8, <1>24, <2>2, <2>3 DEF CallLocks, Calls, HasLock, Moves
  <2> QED BY <2>5, <2>6 DEF CallEffect
<1>25. CASE k = 20
  <2>1. i = <<"mov", Imm(0), Pointed>>
    BY <1>1, <1>25, CallerListing DEF Offset
  <2>2. GoesTo(c, d, c.pc + 1) /\ InMemory(m, n, LockWord, 0)
    <3>1. Address(F, Pointed) = LockWord /\ Pointed.type = "memory"
      BY <1>7, <1>8, <1>25
    <3>2. GoesTo(c, d, c.pc + 1) /\ InMemory(m, n, LockWord, Read(F, Imm(0)))
      BY <1>1, <1>4, <1>6, <2>1, <3>1, MemoryStepTo
    <3> QED BY <1>6, <3>2
  <2> HIDE DEF i, F
  <2>3. Offset(d) = 21
    BY <1>1, <1>2, <1>8, <1>25, <2>2 DEF Offset, GoesTo, InMemory
  <2>4. /\ n \in Memories /\ n[LockWord] = 0 /\ n[B - 8] = m[B - 8] /\ n[B - 12] = m[B - 12]
        /\ \A a \in Addresses \ {LockWord, CountWord, B - 4, B - 8} : n[a] = m[a]
        /\ n[CountWord] = m[CountWord]
    BY <1>4, <2>2 DEF InMemory
  <2>5. CallQuiet(c, d, m, n)
    BY <1>2, <1>3, <1>4, <1>25, <2>2, <2>3, <2>4 DEF CallQuiet, CallPlace, Quiet, GoesTo
  <2>6. CallLocks(c, d, m, n, B)
    BY <1>2, <1>3, <1>4, <1>5, <1>8, <1>25, <2>2, <2>3, <2>4 DEF CallLocks, Calls, HasLock, GoesTo
  <2> QED BY <2>5, <2>6 DEF CallEffect
<1>26. CASE k = 12
  <2>1. i = <<"halt">>
    BY <1>1, <1>26, CallerListing DEF Offset
  <2> QED BY <2>1 DEF Opcode
<1> QED BY <1>2, <1>9, <1>10, <1>11, <1>12, <1>13, <1>14, <1>15, <1>16, <1>17, <1>18, <1>19, <1>20, <1>21, <1>22, <1>23, <1>24, <1>25, <1>26

\* The threads that hold the lock: one at most, and then the word is 1.
Holders == {t \in Live : HasLock(ThreadContexts[t])}

CallInv ==
  opt.program = Caller =>
    /\ memory \in Memories
    /\ \A t \in Live : Calls(ThreadContexts[t], memory, StackBottom(t))
    /\ Holders # {} => memory[LockWord] = 1
    /\ \A t, u \in Holders : t = u

\* The stacks are 1000 bytes apart.
LEMMA Stacks ==
  ASSUME opt \in Options, opt.program = Caller, NEW t \in Threads
  PROVE  /\ StackOf(StackBottom(t)) /\ LockWord \in Addresses
         /\ \A u \in Threads \ {t} :
              {StackBottom(u) - 8, StackBottom(u) - 12}
                \cap {LockWord, CountWord, StackBottom(t) - 4, StackBottom(t) - 8} = {}
<1>1. /\ MemSize \in Nat /\ Threads \subseteq Nat
      /\ \A u \in Threads : StackBottom(u) = MemSize * 1000 - 1000 * u
  BY X86Assumption DEF Threads, StackBottom
<1>2. \A u \in Threads :
        {0} \cup {StackBottom(u) - n : n \in {4, 8, 12}} \subseteq Addresses
  BY LocksAssumption DEF Threads, Caller
<1>3. ASSUME NEW u \in Threads
      PROVE  /\ StackBottom(u) \in Int
             /\ {StackBottom(u) - 4, StackBottom(u) - 8, StackBottom(u) - 12} \subseteq Addresses
             /\ {StackBottom(u) - 4, StackBottom(u) - 8, StackBottom(u) - 12} \cap {0, 104} = {}
  <2>1. u \in Nat /\ StackBottom(u) = MemSize * 1000 - 1000 * u
    BY <1>1
  <2>2. {StackBottom(u) - 4, StackBottom(u) - 8, StackBottom(u) - 12} \subseteq Addresses
    BY <1>2
  <2>3. ASSUME NEW w \in Int, w = StackBottom(u)
        PROVE  {w - 4, w - 8, w - 12} \cap {0, 104} = {}
    <3>1. w = 1000 * (MemSize - u) /\ MemSize - u \in Int
      BY <1>1, <2>1, <2>3
    <3>2. \A q \in Int : 1000 * q \notin {4, 8, 12, 108, 112, 116}
      OBVIOUS
    <3> QED BY <2>3, <3>1, <3>2
  <2>4. StackBottom(u) \in Int
    BY <1>1, <2>1
  <2> QED BY <2>2, <2>3, <2>4
<1>4. ASSUME NEW u \in Threads \ {t}
      PROVE  /\ StackBottom(u) - 8 # StackBottom(t) - 4 /\ StackBottom(u) # StackBottom(t)
             /\ StackBottom(u) - 12 # StackBottom(t) - 4
             /\ StackBottom(u) - 12 # StackBottom(t) - 8
  <2>1. u \in Nat /\ t \in Nat /\ u # t
    BY <1>1
  <2>2. /\ StackBottom(u) = MemSize * 1000 - 1000 * u
        /\ StackBottom(t) = MemSize * 1000 - 1000 * t
    BY <1>1
  <2>3. \A x, y \in Nat :
          x # y => MemSize * 1000 - 1000 * x - (MemSize * 1000 - 1000 * y) \notin {0, 4, 8}
    BY <1>1
  <2>4. StackBottom(u) - StackBottom(t) \notin {0, 4, 8}
    BY <2>1, <2>2, <2>3
  <2> QED BY <1>3, <2>4
<1>5. LockWord \in Addresses
  BY <1>2 DEF LockWord
<1>6. StackOf(StackBottom(t))
  BY <1>3 DEF StackOf, LockWord, CountWord
<1>7. ASSUME NEW u \in Threads \ {t}
      PROVE  {StackBottom(u) - 8, StackBottom(u) - 12}
                \cap {LockWord, CountWord, StackBottom(t) - 4, StackBottom(t) - 8} = {}
  <2>1. StackBottom(u) - 8 # StackBottom(t) - 8
    BY <1>3, <1>4
  <2> QED BY <1>3, <1>4, <2>1 DEF LockWord, CountWord
<1> QED BY <1>5, <1>6, <1>7

LEMMA CallInit == Init => CallInv
<1> SUFFICES ASSUME Init, opt.program = Caller PROVE CallInv
  BY DEF CallInv
<1>1. memory \in Memories /\ opt \in Options /\ Live \subseteq Threads
  BY DEF Init, Memories, Live
<1>2. ASSUME NEW t \in Live
      PROVE  Calls(ThreadContexts[t], memory, StackBottom(t)) /\ ~HasLock(ThreadContexts[t])
  <2>1. /\ Sane(ThreadContexts[t]) /\ Offset(ThreadContexts[t]) = 0
        /\ ThreadContexts[t].regs["sp"] = StackBottom(t)
    BY FirstContexts, X86Assumption DEF Offset
  <2>2. memory[StackBottom(t) - 12] = 0
    BY <1>1, Stacks DEF Init, StackOf
  <2> QED BY <2>1, <2>2 DEF Calls, HasLock
<1> QED BY <1>1, <1>2 DEF CallInv, Holders

LEMMA CallNext ==
  ASSUME Inv, CallInv, [Next]_vars
  PROVE  CallInv'
<1> SUFFICES ASSUME opt.program = Caller PROVE CallInv'
  BY ThreadStep DEF CallInv
<1>1. opt.program' = Caller /\ Caller \in DOMAIN Programs /\ opt \in Options
  BY ThreadStep, X86Assumption DEF Inv
<1>2. CASE UNCHANGED <<ThreadContexts, memory, Live>>
  <2>1. Holders' = Holders
    BY <1>2 DEF Holders
  <2> QED BY <1>1, <1>2, <2>1 DEF CallInv
<1>3. /\ memory \in Memories
      /\ \A t \in Live : Calls(ThreadContexts[t], memory, StackBottom(t))
      /\ Holders # {} => memory[LockWord] = 1
      /\ \A t, u \in Holders : t = u
  BY DEF CallInv
<1>4. ASSUME NEW t \in Live, ThreadHalts(t) PROVE CallInv'
  <2>1. /\ Live' \subseteq Live /\ memory' = memory
        /\ \A u \in Live' : ThreadContexts'[u] = ThreadContexts[u]
    BY <1>4 DEF ThreadHalts
  <2>2. Holders' \subseteq Holders
    BY <2>1 DEF Holders
  <2> QED BY <1>1, <1>3, <2>1, <2>2 DEF CallInv
<1>5. ASSUME NEW t \in Live, ThreadExecutes(t) PROVE CallInv'
  <2> DEFINE c == ThreadContexts[t]
             d == Context(Execution(Code, c, memory))
             B == StackBottom(t)
  <2>1. /\ Live' = Live /\ ThreadContexts'[t] = d
        /\ \A u \in Live \ {t} : ThreadContexts'[u] = ThreadContexts[u]
        /\ memory' = Execution(Code, c, memory).memory
    BY <1>5 DEF ThreadExecutes, ThreadContexts, Live
  <2>2. StackOf(B) /\ LockWord \in Addresses
    BY <1>1, Stacks DEF Live
  <2>3. Calls(c, memory, B)
    BY <1>3
  <2> HIDE DEF B
  <2>4. CallEffect(c, d, memory, memory', B)
    BY <1>1, <1>3, <1>5, <2>1, <2>2, <2>3, CallStep DEF ThreadExecutes, Code
  <2> HIDE DEF d
  <2>5. /\ Calls(d, memory', B) /\ memory' \in Memories
        /\ \A a \in Addresses \ {LockWord, CountWord, B - 4, B - 8} : memory'[a] = memory[a]
    BY <2>4 DEF CallEffect, CallLocks
  <2>6. ASSUME NEW u \in Live \ {t} PROVE Calls(ThreadContexts'[u], memory', StackBottom(u))
    <3>1. u \in Threads \ {t} /\ t \in Threads
      BY DEF Live
    <3>2. StackOf(StackBottom(u))
      BY <1>1, <3>1, Stacks
    <3>3. {StackBottom(u) - 8, StackBottom(u) - 12} \cap {LockWord, CountWord, B - 4, B - 8} = {}
      BY <1>1, <3>1, Stacks DEF B
    <3>4. /\ memory'[StackBottom(u) - 8] = memory[StackBottom(u) - 8]
          /\ memory'[StackBottom(u) - 12] = memory[StackBottom(u) - 12]
      BY <2>5, <3>2, <3>3 DEF StackOf
    <3> QED BY <1>3, <2>1, <3>4 DEF Calls
  <2>7. \A u \in Live' : Calls(ThreadContexts'[u], memory', StackBottom(u))
    BY <2>1, <2>5, <2>6 DEF B
  <2>8. \A u \in Live \ {t} : u \in Holders' <=> u \in Holders
    BY <2>1 DEF Holders
  <2>9. (t \in Holders' <=> HasLock(d)) /\ (t \in Holders <=> HasLock(c))
    BY <2>1 DEF Holders
  <2>10. Holders' \subseteq Live /\ Holders \subseteq Live
    BY <2>1 DEF Holders
  <2>11. /\ Holders' # {} => memory'[LockWord] = 1
         /\ \A u, w \in Holders' : u = w
    <3>1. CASE (HasLock(d) <=> HasLock(c)) /\ memory'[LockWord] = memory[LockWord]
      <4>1. Holders' = Holders
        BY <2>8, <2>9, <2>10, <3>1
      <4> QED BY <1>3, <3>1, <4>1
    <3>2. CASE /\ ~HasLock(c) /\ (HasLock(d) <=> memory[LockWord] = 0)
               /\ memory'[LockWord] = 1
      BY <1>3, <2>8, <2>9, <2>10, <3>2
    <3>3. CASE HasLock(c) /\ ~HasLock(d) /\ memory'[LockWord] = 0
      <4>1. Holders' = {}
        BY <1>3, <2>8, <2>9, <2>10, <3>3
      <4> QED BY <4>1
    <3> QED BY <2>4, <3>1, <3>2, <3>3 DEF CallEffect, CallLocks
  <2> QED BY <1>1, <2>5, <2>7, <2>11 DEF CallInv
<1> QED BY <1>2, <1>4, <1>5, ThreadStep

LEMMA CallCritical ==
  ASSUME CallInv, Inv, opt.program = Caller
  PROVE  Alone
<1>1. /\ CriticalPCs[Caller] = LoadAddr + 3 .. LoadAddr + 3 + 2 /\ LoadAddr \in Nat
  BY X86Assumption, LoopingRaceCallRetLoaded DEF Inv, CriticalFrom, Caller
<1>2. ASSUME NEW t \in Threads, InCritical(t) PROVE t \in Holders
  <2>1. t \in Live /\ ThreadContexts[t].pc \in LoadAddr + 3 .. LoadAddr + 3 + 2
    BY <1>1, <1>2 DEF InCritical, At_, Live
  <2>2. Offset(ThreadContexts[t]) \in 2 .. 7
    BY <1>1, <2>1 DEF Offset
  <2> QED BY <2>1, <2>2 DEF Holders, HasLock
<1> QED BY <1>2 DEF Alone, CallInv

-----------------------------------------------------------------------------
(* The locks.                                                              *)

\* The invariant of every lock program, with that of the simulator.
LocksInv == Inv /\ MutexInv /\ TicketInv /\ PetersonInv /\ CallInv

LEMMA LocksAlone ==
  ASSUME LocksInv
  PROVE  MutualExclusion
<1>1. CASE opt.program \in {"TestAndSet", "TestAndTestAndSet", "Yield"}
  <2>1. opt.program \in MutexPrograms
    BY <1>1, X86Assumption DEF LocksInv, Inv, MutexPrograms
  <2>2. Alone
    BY <2>1, MutexCritical DEF LocksInv
  <2> QED BY <1>1, <2>2 DEF MutualExclusion, TicketsInOrder
<1>2. CASE opt.program = "Ticket"
  BY <1>2, TicketCritical DEF LocksInv, MutualExclusion
<1>3. CASE opt.program = "Peterson"
  BY <1>3, PetersonCritical DEF LocksInv, MutualExclusion, TicketsInOrder
<1>4. CASE opt.program = Caller
  BY <1>4, CallCritical DEF LocksInv, MutualExclusion, TicketsInOrder, Caller
<1>5. CASE opt.program \notin Locks
  BY <1>5 DEF MutualExclusion, TicketsInOrder, Locks
<1> QED BY <1>1, <1>2, <1>3, <1>4, <1>5 DEF Locks, Caller

LEMMA LocksInit == Init => LocksInv
BY InitInv, MutexInit, TicketInit, PetersonInit, CallInit DEF LocksInv

LEMMA LocksNext == LocksInv /\ [Next]_vars => LocksInv'
BY NextInv, MutexNext, TicketNext, PetersonNext, CallNext DEF LocksInv

\* No two threads of a program with a lock are ever in the critical section
\* together, for any number of threads and loops, and any time slices, random
\* or not; and the ticket lock admits threads in the order of their tickets.
THEOREM LocksExclude == Spec => []MutualExclusion
<1>1. LocksInv => MutualExclusion
  BY LocksAlone
<1> QED BY <1>1, LocksInit, LocksNext, PTL DEF Spec

-----------------------------------------------------------------------------
(* No increment is lost.                                                   *)

\* A thread in the middle of an increment of the word w has read what is there,
\* and one that is about to loop has compared bx with 0.
Tallied(e, s, w, k, c, m) ==
  /\ k = e + 1 => c.regs["ax"] = m[w]
  /\ k = e + 2 => c.regs["ax"] = m[w] + 1
  /\ k = s + 2 => ("gt" \in c.cc <=> c.regs["bx"] > 0)

\* A step, from offset j to k, leaves w and what the thread has left to do
\* alone, or does an increment.
Advances(e, s, w, j, k, c, d, m, n) ==
  LET before == Left(e, s, j, c.regs["bx"])
      after == Left(e, s, k, d.regs["bx"])
  IN  /\ Tallied(e, s, w, k, d, n)
      /\ \/ n[w] = m[w] /\ after = before
         \/ /\ j \in e .. e + 2 /\ n[w] = m[w] + 1
            /\ before \in Nat \ {0} /\ after = before - 1

LEMMA LeftType ==
  ASSUME NEW e, NEW s, NEW k, NEW x \in Int
  PROVE  Left(e, s, k, x) \in Nat
BY DEF Left

LEMMA QuietAdvances ==
  ASSUME NEW e \in Nat, NEW s \in Nat, e + 2 < s, NEW w, NEW j \in Nat, NEW k \in Nat,
         NEW c, Sane(c), NEW d, NEW m, NEW n,
         Quiet(e, s, w, j, k, c, d, m, n), j \notin e .. e + 2 \cup s .. s + 2, j < s
  PROVE  Advances(e, s, w, j, k, c, d, m, n)
<1> DEFINE x == c.regs["bx"]
<1>1. x \in Int
  BY SaneFields DEF Registers
<1>2. /\ n[w] = m[w] /\ d.regs["bx"] = x
      /\ j < e => k \in 0 .. e
      /\ j > e => k \in e + 3 .. s
  BY DEF Quiet
<1> HIDE DEF x
<1>3. Left(e, s, k, x) = Left(e, s, j, x)
  BY <1>1, <1>2 DEF Left
<1>4. Tallied(e, s, w, k, d, n)
  BY <1>2 DEF Tallied
<1> QED BY <1>2, <1>3, <1>4 DEF Advances, x

\* The increment of the word w, from offset e on.
Increments(code, e, w, c) ==
  /\ Offset(c) = e => code[c.pc] = <<"mov", At(w), Reg("ax")>>
  /\ Offset(c) = e + 1 => code[c.pc] = <<"add", Imm(1), Reg("ax")>>
  /\ Offset(c) = e + 2 => code[c.pc] = <<"mov", Reg("ax"), At(w)>>

LEMMA IncrementAdvances ==
  ASSUME NEW code, NEW c, Sane(c), NEW m \in Memories, NEW w \in Addresses \cap Int,
         NEW e \in Nat, NEW s \in Nat, e + 2 < s, Offset(c) \in e .. e + 2,
         Increments(code, e, w, c),
         Tallied(e, s, w, Offset(c), c, m),
         NEW d, d = Context(Execution(code, c, m)),
         NEW n, n = Execution(code, c, m).memory
  PROVE  /\ Advances(e, s, w, Offset(c), Offset(d), c, d, m, n)
         /\ Offset(d) = Offset(c) + 1
<1> DEFINE k == Offset(c)
           x == c.regs["bx"]
<1>1. /\ c.pc \in Nat /\ LoadAddr \in Nat /\ x \in Int /\ c.regs["ax"] \in Int
      /\ c.pc = LoadAddr + k /\ c.pc + 1 = LoadAddr + (k + 1)
      /\ "ax" \in Registers \ {"zero"} /\ "bx" \in Registers \ {"ax"} /\ m[w] \in Int
  <2>1. /\ c.pc \in Nat /\ LoadAddr \in Nat /\ x \in Int /\ c.regs["ax"] \in Int
        /\ "ax" \in Registers \ {"zero"} /\ "bx" \in Registers \ {"ax"} /\ m[w] \in Int
    BY SaneFields, X86Assumption DEF Registers, Memories
  <2>2. c.pc = LoadAddr + k /\ c.pc + 1 = LoadAddr + (k + 1)
    BY <2>1 DEF Offset
  <2> QED BY <2>1, <2>2
<1>2. /\ Read(Fetching(c, m), Imm(1)) = 1 /\ Read(Fetching(c, m), At(w)) = m[w]
      /\ Read(Fetching(c, m), Reg("ax")) = c.regs["ax"]
      /\ Read(Fetching(c, m), Imm(1)) \in Int
  BY Values
<1>3. ASSUME d.pc = c.pc + 1 PROVE Offset(d) = k + 1
  BY <1>1, <1>3 DEF Offset
<1>4. CASE k = e
  <2>1. InRegister(c, d, "ax", m[w]) /\ n = m
    <3>1. code[c.pc] = <<"mov", At(w), Reg("ax")>> /\ Read(Fetching(c, m), At(w)) \in Int
      BY <1>1, <1>2, <1>4 DEF Increments
    <3>2. InRegister(c, d, "ax", Read(Fetching(c, m), At(w))) /\ n = m
      BY <1>1, <3>1, RegisterStep
    <3> QED BY <1>2, <3>2
  <2>2. d.regs["ax"] = m[w] /\ d.regs["bx"] = x /\ n = m /\ Offset(d) = e + 1
    BY <1>1, <1>3, <1>4, <2>1 DEF InRegister
  <2> HIDE DEF k, x
  <2>3. Tallied(e, s, w, e + 1, d, n) /\ Left(e, s, e + 1, x) = Left(e, s, e, x)
    BY <2>2 DEF Tallied, Left
  <2> QED BY <1>4, <2>2, <2>3 DEF Advances, x, k
<1>5. CASE k = e + 1
  <2>1. InRegister(c, d, "ax", c.regs["ax"] + 1) /\ n = m
    <3>1. /\ code[c.pc] = <<"add", Imm(1), Reg("ax")>> /\ "ax" \in Registers \ {"zero"}
          /\ Read(Fetching(c, m), Imm(1)) \in Int /\ Sane(c)
      BY <1>1, <1>2, <1>5 DEF Increments
    <3>2. InRegister(c, d, "ax", c.regs["ax"] + Read(Fetching(c, m), Imm(1))) /\ n = m
      BY ONLY <3>1, RegisterStep, d = Context(Execution(code, c, m)),
              n = Execution(code, c, m).memory
    <3> QED BY <1>2, <3>2
  <2>2. /\ d.regs["ax"] = m[w] + 1 /\ d.regs["bx"] = x /\ n = m /\ Offset(d) = e + 2
    BY <1>1, <1>3, <1>5, <2>1 DEF InRegister, Tallied
  <2> HIDE DEF k, x
  <2>3. Tallied(e, s, w, e + 2, d, n) /\ Left(e, s, e + 2, x) = Left(e, s, e + 1, x)
    BY <2>2 DEF Tallied, Left
  <2> QED BY <1>5, <2>2, <2>3 DEF Advances, x, k
<1>6. CASE k = e + 2
  <2>1. GoesTo(c, d, c.pc + 1) /\ InMemory(m, n, w, c.regs["ax"])
    <3>1. code[c.pc] = <<"mov", Reg("ax"), At(w)>>
      BY <1>6 DEF Increments
    <3> QED BY <1>1, <1>2, <3>1, MemoryStep
  <2>2. /\ n[w] = m[w] + 1 /\ d.regs["bx"] = x /\ Offset(d) = e + 3
    BY <1>1, <1>3, <1>6, <2>1 DEF GoesTo, InMemory, Tallied
  <2> HIDE DEF k, x
  <2>3. /\ Tallied(e, s, w, e + 3, d, n)
        /\ Left(e, s, e + 2, x) \in Nat \ {0} /\ Left(e, s, e + 3, x) = Left(e, s, e + 2, x) - 1
    BY <1>1, <2>2 DEF Tallied, Left
  <2> QED BY <1>6, <2>2, <2>3 DEF Advances, x, k
<1> QED BY <1>4, <1>5, <1>6 

LEMMA LoopAdvances ==
  ASSUME NEW p \in DOMAIN Programs, NEW c, Sane(c), NEW m \in Memories, NEW w \in Addresses,
         NEW e \in Nat, NEW s \in Nat, e + 2 < s, Offset(c) \in s .. s + 2,
         EndsLoop(p, s, c.pc), Tallied(e, s, w, Offset(c), c, m),
         NEW d, d = Context(Execution(Programs[p], c, m)),
         NEW n, n = Execution(Programs[p], c, m).memory
  PROVE  /\ Advances(e, s, w, Offset(c), Offset(d), c, d, m, n)
         /\ Offset(d) \in {0} \cup s + 1 .. s + 3
<1> DEFINE k == Offset(c)
           x == c.regs["bx"]
           code == Programs[p]
<1>1. /\ c.pc \in Nat /\ LoadAddr \in Nat /\ x \in Int
      /\ c.pc = LoadAddr + k /\ c.pc + 1 = LoadAddr + (k + 1)
      /\ "bx" \in Registers \ {"zero"} /\ "bx" \in Registers
  BY SaneFields, X86Assumption DEF Registers, Offset
<1>2. /\ Read(Fetching(c, m), Imm(0)) = 0 /\ Read(Fetching(c, m), Imm(1)) = 1
      /\ Read(Fetching(c, m), Imm(0)) \in Int /\ Read(Fetching(c, m), Imm(1)) \in Int
  BY Values
<1>3. ASSUME d.pc = c.pc + 1 PROVE Offset(d) = k + 1
  BY <1>1, <1>3 DEF Offset
<1>4. CASE k = s
  <2>1. InRegister(c, d, "bx", x - 1) /\ n = m
    <3>1. code[c.pc] = <<"sub", Imm(1), Reg("bx")>>
      BY <1>4 DEF EndsLoop, Offset
    <3>2. InRegister(c, d, "bx", c.regs["bx"] - Read(Fetching(c, m), Imm(1))) /\ n = m
      BY <1>1, <1>2, <3>1, RegisterStep
    <3> QED BY <1>2, <3>2
  <2>2. d.regs["bx"] = x - 1 /\ n = m /\ Offset(d) = s + 1
    BY <1>1, <1>3, <1>4, <2>1 DEF InRegister
  <2> HIDE DEF k, x
  <2>3. Tallied(e, s, w, s + 1, d, n) /\ Left(e, s, s + 1, x - 1) = Left(e, s, s, x)
    BY <1>1, <2>2 DEF Tallied, Left
  <2> QED BY <1>4, <2>2, <2>3 DEF Advances, x, k
<1>5. CASE k = s + 1
  <2>1. Compared(c, d, 0, x) /\ n = m
    <3>1. /\ Programs[p][c.pc] = <<"test", Imm(0), Reg("bx")>> /\ "bx" \in Registers
          /\ Read(Fetching(c, m), Imm(0)) \in Int /\ Sane(c)
      BY <1>1, <1>2, <1>5 DEF EndsLoop, Offset
    <3>2. Compared(c, d, Read(Fetching(c, m), Imm(0)), c.regs["bx"]) /\ n = m
      BY ONLY <3>1, TestStep, d = Context(Execution(Programs[p], c, m)),
              n = Execution(Programs[p], c, m).memory
    <3> QED BY <1>2, <3>2
  <2>2. /\ d.regs["bx"] = x /\ n = m /\ Offset(d) = s + 2
        /\ "gt" \in d.cc <=> x > 0
    BY <1>1, <1>3, <1>5, <2>1 DEF Compared
  <2> HIDE DEF k, x
  <2>3. Tallied(e, s, w, s + 2, d, n) /\ Left(e, s, s + 2, x) = Left(e, s, s + 1, x)
    BY <1>1, <2>2 DEF Tallied, Left
  <2> QED BY <1>5, <2>2, <2>3 DEF Advances, x, k
<1>6. CASE k = s + 2
  <2>1. /\ "gt" \in c.cc => GoesTo(c, d, LoadAddr)
        /\ "gt" \notin c.cc => GoesTo(c, d, c.pc + 1)
        /\ n = m
    <3>1. Programs[p][c.pc] = <<"jgt", Imm(LoadAddr)>> /\ LoadAddr \in Nat /\ Sane(c)
      BY <1>1, <1>6 DEF EndsLoop, Offset
    <3> QED BY ONLY <3>1, BranchStep, d = Context(Execution(Programs[p], c, m)),
                    n = Execution(Programs[p], c, m).memory
  <2>2. /\ d.regs["bx"] = x /\ n = m
        /\ Offset(d) = IF "gt" \in c.cc THEN 0 ELSE s + 3
    <3>1. CASE "gt" \in c.cc
      BY <1>1, <2>1, <3>1 DEF GoesTo, Offset
    <3>2. CASE "gt" \notin c.cc
      BY <1>1, <1>3, <1>6, <2>1, <3>2 DEF GoesTo
    <3> QED BY <3>1, <3>2
  <2>3. "gt" \in c.cc <=> x > 0
    BY <1>6 DEF Tallied
  <2> HIDE DEF k, x
  <2>4. Tallied(e, s, w, Offset(d), d, n) /\ Left(e, s, Offset(d), x) = Left(e, s, s + 2, x)
    BY <1>1, <2>2, <2>3 DEF Tallied, Left
  <2> QED BY <1>6, <2>2, <2>4 DEF Advances, x, k
<1> QED BY <1>4, <1>5, <1>6

\* The offset of the increment and of the end of the loop in a lock's listing,
\* the word that is incremented, and the place of a thread.
EntryOf(p) ==
  IF p \in MutexPrograms THEN EnterAt(p)
  ELSE IF p = "Ticket" THEN 5 ELSE IF p = "Peterson" THEN 12 ELSE 3
LoopOf(p) ==
  IF p \in MutexPrograms THEN EnterAt(p) + 4
  ELSE IF p = "Ticket" THEN 10 ELSE IF p = "Peterson" THEN 17 ELSE 9
WordOf(p) ==
  IF p = "Ticket" THEN TicketCount ELSE IF p = "Peterson" THEN PetersonCount ELSE CountWord
PlaceOf(p, c) == IF p = Caller THEN CallPlace(Offset(c)) ELSE Offset(c)

\* The increments that a thread has left.
Rest(p, c) == Left(EntryOf(p), LoopOf(p), PlaceOf(p, c), c.regs["bx"])

TalliedIn(p, c, m) == Tallied(EntryOf(p), LoopOf(p), WordOf(p), PlaceOf(p, c), c, m)
AdvancesIn(p, c, d, m, n) ==
  Advances(EntryOf(p), LoopOf(p), WordOf(p), PlaceOf(p, c), PlaceOf(p, d), c, d, m, n)

LEMMA LockNames ==
  ASSUME NEW p \in Locks \cap DOMAIN Programs
  PROVE  /\ p \in MutexPrograms \/ p = "Ticket" \/ p = "Peterson" \/ p = Caller
         /\ p \in MutexPrograms => /\ EntryOf(p) = EnterAt(p) /\ LoopOf(p) = EnterAt(p) + 4
                                   /\ WordOf(p) = CountWord /\ EnterAt(p) \in {4, 6, 7}
                                   /\ \A c : PlaceOf(p, c) = Offset(c)
         /\ p = "Ticket" => /\ EntryOf(p) = 5 /\ LoopOf(p) = 10 /\ WordOf(p) = TicketCount
                            /\ \A c : PlaceOf(p, c) = Offset(c)
         /\ p = "Peterson" => /\ EntryOf(p) = 12 /\ LoopOf(p) = 17 /\ WordOf(p) = PetersonCount
                              /\ \A c : PlaceOf(p, c) = Offset(c)
         /\ p = Caller => /\ EntryOf(p) = 3 /\ LoopOf(p) = 9 /\ WordOf(p) = CountWord
                          /\ \A c : PlaceOf(p, c) = CallPlace(Offset(c))
<1>1. p \in MutexPrograms => p \notin {"Ticket", "Peterson", Caller} /\ EnterAt(p) \in {4, 6, 7}
  BY DEF MutexPrograms, EnterAt, Caller
<1>2. "Ticket" \notin MutexPrograms \cup {"Peterson", Caller}
  BY DEF MutexPrograms, Caller
<1>3. "Peterson" \notin MutexPrograms \cup {"Ticket", Caller}
  BY DEF MutexPrograms, Caller
<1>4. Caller \notin MutexPrograms \cup {"Ticket", "Peterson"}
  BY DEF MutexPrograms, Caller
<1>5. p \in MutexPrograms \/ p = "Ticket" \/ p = "Peterson" \/ p = Caller
  BY DEF Locks, MutexPrograms, Caller
<1> QED BY <1>1, <1>2, <1>3, <1>4, <1>5 DEF EntryOf, LoopOf, WordOf, PlaceOf

LEMMA MutexAdvances ==
  ASSUME NEW p \in MutexPrograms, NEW c, Swaps(p, c), NEW m \in Memories,
         Opcode(Programs[p][c.pc]) # "halt",
         Tallied(EnterAt(p), EnterAt(p) + 4, CountWord, Offset(c), c, m),
         NEW d, d = Context(Execution(Programs[p], c, m)),
         NEW n, n = Execution(Programs[p], c, m).memory
  PROVE  Advances(EnterAt(p), EnterAt(p) + 4, CountWord, Offset(c), Offset(d), c, d, m, n)
<1> DEFINE e == EnterAt(p)
<1>1. /\ Sane(c) /\ c.pc \in Nat /\ Offset(c) \in 0 .. e + 7 /\ e \in Nat /\ p \in DOMAIN Programs
      /\ CountWord \in Addresses \cap Int
  BY SaneFields, LocksAssumption DEF Swaps, EnterAt, MutexPrograms, CountWord
<1>2. MutexEffect(p, c, d, m, n)
  BY MutexStep
<1>3. Quiet(e, e + 4, CountWord, Offset(c), Offset(d), c, d, m, n) /\ Offset(d) \in 0 .. e + 7
  BY <1>2 DEF MutexEffect, Swaps
<1>4. Increments(Programs[p], e, CountWord, c) /\ EndsLoop(p, e + 4, c.pc)
  BY <1>1, MutexListing DEF Offset, Increments
<1> HIDE DEF e
<1>5. e + 2 < e + 4 /\ e + 4 \in Nat /\ Offset(c) \in Nat /\ Offset(d) \in Nat
  BY <1>1, <1>3
<1>6. CASE Offset(c) \in e .. e + 2
  BY <1>1, <1>4, <1>5, <1>6, IncrementAdvances DEF e
<1>7. CASE Offset(c) \in e + 4 .. e + 4 + 2
  BY <1>1, <1>4, <1>5, <1>7, LoopAdvances DEF e
<1>8. CASE Offset(c) = e + 7
  BY <1>1, <1>4, <1>8 DEF EndsLoop, Offset, Opcode
<1>9. CASE Offset(c) \notin e .. e + 2 \cup e + 4 .. e + 4 + 2 /\ Offset(c) < e + 4
  BY <1>1, <1>3, <1>5, <1>9, QuietAdvances DEF e
<1>10. Offset(c) < e + 4 \/ Offset(c) \in e + 4 .. e + 4 + 2 \/ Offset(c) = e + 7
  BY <1>1
<1> QED BY <1>6, <1>7, <1>8, <1>9, <1>10 DEF e

LEMMA TicketAdvances ==
  ASSUME "Ticket" \in DOMAIN Programs, NEW c, Tickets(c), NEW m \in Memories,
         Opcode(Programs["Ticket"][c.pc]) # "halt",
         Tallied(5, 10, TicketCount, Offset(c), c, m),
         NEW d, d = Context(Execution(Programs["Ticket"], c, m)),
         NEW n, n = Execution(Programs["Ticket"], c, m).memory
  PROVE  Advances(5, 10, TicketCount, Offset(c), Offset(d), c, d, m, n)
<1>1. /\ Sane(c) /\ c.pc \in Nat /\ Offset(c) \in 0 .. 13 /\ TicketCount \in Addresses \cap Int
  BY SaneFields, LocksAssumption DEF Tickets, TicketCount
<1>2. TicketEffect(c, d, m, n)
  BY TicketStep
<1>3. Quiet(5, 10, TicketCount, Offset(c), Offset(d), c, d, m, n) /\ Offset(d) \in Nat
  BY <1>2 DEF TicketEffect, Tickets
<1>4. Increments(Programs["Ticket"], 5, TicketCount, c) /\ EndsLoop("Ticket", 10, c.pc)
  BY <1>1, TicketListing DEF Offset, Increments
<1>5. CASE Offset(c) \in 5 .. 5 + 2
  BY <1>1, <1>4, <1>5, IncrementAdvances
<1>6. CASE Offset(c) \in 10 .. 10 + 2
  BY <1>1, <1>4, <1>6, LoopAdvances
<1>7. CASE Offset(c) = 13
  BY <1>4, <1>7 DEF EndsLoop, Offset, Opcode
<1>8. CASE Offset(c) \in 0 .. 4 \cup {8, 9}
  <2>1. /\ Offset(c) \in Nat /\ Offset(c) < 10 /\ 5 + 2 < 10
        /\ Offset(c) \notin 5 .. 5 + 2 \cup 10 .. 10 + 2
    BY <1>8
  <2> QED BY <1>1, <1>3, <2>1, QuietAdvances
<1> QED BY <1>1, <1>5, <1>6, <1>7, <1>8

LEMMA PetersonAdvances ==
  ASSUME "Peterson" \in DOMAIN Programs, NEW c, NEW m \in Memories, Contends(c, m),
         Opcode(Programs["Peterson"][c.pc]) # "halt",
         Tallied(12, 17, PetersonCount, Offset(c), c, m),
         NEW d, d = Context(Execution(Programs["Peterson"], c, m)),
         NEW n, n = Execution(Programs["Peterson"], c, m).memory
  PROVE  Advances(12, 17, PetersonCount, Offset(c), Offset(d), c, d, m, n)
<1> DEFINE code == Programs["Peterson"]
<1>1. /\ Sane(c) /\ c.pc \in Nat /\ Offset(c) \in 0 .. 17
      /\ PetersonCount \in Addresses \cap Int
  BY SaneFields, LocksAssumption DEF Contends, PetersonCount
<1>2. PetersonEffect(c, d, m, n)
  BY PetersonStep
<1>3. Quiet(12, 17, PetersonCount, Offset(c), Offset(d), c, d, m, n) /\ Offset(d) \in Nat
  BY <1>2 DEF PetersonEffect, Contends
<1>4. /\ Increments(code, 12, PetersonCount, c)
      /\ Offset(c) = 17 => code[c.pc] = <<"halt">>
  BY <1>1, PetersonListing DEF Offset, Increments
<1>5. CASE Offset(c) \in 12 .. 12 + 2
  BY <1>1, <1>4, <1>5, IncrementAdvances
<1>6. CASE Offset(c) = 17
  BY <1>4, <1>6 DEF Opcode
<1>7. CASE Offset(c) \in 0 .. 11 \cup {15, 16}
  <2>1. /\ Offset(c) \in Nat /\ Offset(c) < 17 /\ 12 + 2 < 17
        /\ Offset(c) \notin 12 .. 12 + 2 \cup 17 .. 17 + 2
    BY <1>7
  <2> QED BY <1>1, <1>3, <2>1, QuietAdvances
<1> QED BY <1>1, <1>5, <1>6, <1>7

LEMMA CallAdvances ==
  ASSUME Caller \in DOMAIN Programs, NEW B, StackOf(B), LockWord \in Addresses,
         NEW c, NEW m \in Memories, Calls(c, m, B), Opcode(Programs[Caller][c.pc]) # "halt",
         Tallied(3, 9, CountWord, CallPlace(Offset(c)), c, m),
         NEW d, d = Context(Execution(Programs[Caller], c, m)),
         NEW n, n = Execution(Programs[Caller], c, m).memory
  PROVE  Advances(3, 9, CountWord, CallPlace(Offset(c)), CallPlace(Offset(d)), c, d, m, n)
<1> DEFINE code == Programs[Caller]
           j == CallPlace(Offset(c))
           k == CallPlace(Offset(d))
<1>1. /\ Sane(c) /\ c.pc \in Nat /\ Offset(c) \in 0 .. 21 /\ CountWord \in Addresses \cap Int
  BY SaneFields, LocksAssumption DEF Calls, CountWord
<1>2. CallEffect(c, d, m, n, B)
  BY CallStep
<1>3. Quiet(3, 9, CountWord, j, k, c, d, m, n) /\ k \in Nat
  BY <1>2 DEF CallEffect, CallQuiet, CallLocks, Calls, CallPlace
<1>4. /\ Increments(code, 3, CountWord, c) /\ EndsLoop(Caller, 9, c.pc)
      /\ Offset(c) = 12 => code[c.pc] = <<"halt">>
  BY <1>1, CallerListing DEF Offset, Increments, EndsLoop
<1>5. CASE Offset(c) \in 3 .. 3 + 2
  <2>1. j = Offset(c)
    BY <1>5 DEF CallPlace
  <2>2. /\ Advances(3, 9, CountWord, Offset(c), Offset(d), c, d, m, n)
        /\ Offset(d) = Offset(c) + 1
    BY <1>1, <1>4, <1>5, <2>1, IncrementAdvances
  <2>3. k = Offset(d)
    BY <1>5, <2>2 DEF CallPlace
  <2> QED BY <2>1, <2>2, <2>3
<1>6. CASE Offset(c) \in 9 .. 9 + 2
  <2>1. j = Offset(c)
    BY <1>6 DEF CallPlace
  <2>2. /\ Advances(3, 9, CountWord, Offset(c), Offset(d), c, d, m, n)
        /\ Offset(d) \in {0} \cup 9 + 1 .. 9 + 3
    BY <1>1, <1>4, <1>6, <2>1, LoopAdvances
  <2>3. k = Offset(d)
    BY <2>2 DEF CallPlace
  <2> QED BY <2>1, <2>2, <2>3
<1>7. CASE Offset(c) = 12
  BY <1>4, <1>7 DEF Opcode
<1>8. CASE Offset(c) \in 0 .. 2 \cup 6 .. 8 \cup 13 .. 21
  <2>1. j \in Nat /\ j < 9 /\ 3 + 2 < 9 /\ j \notin 3 .. 3 + 2 \cup 9 .. 9 + 2
    BY <1>8 DEF CallPlace
  <2> QED BY <1>1, <1>3, <2>1, QuietAdvances
<1> QED BY <1>1, <1>5, <1>6, <1>7, <1>8

LEMMA MutexHalts ==
  ASSUME NEW p \in MutexPrograms, NEW c, Swaps(p, c), Opcode(Programs[p][c.pc]) = "halt"
  PROVE  Offset(c) = EnterAt(p) + 7
<1> DEFINE i == Programs[p][c.pc]
           k == Offset(c)
           e == EnterAt(p)
<1>1. c.pc \in Nat /\ k \in 0 .. e + 7
  BY SaneFields DEF Swaps
<1>2. /\ EndsLoop(p, e + 4, c.pc)
      /\ k = e => i[1] = "mov"
      /\ k = e + 1 => i[1] = "add"
      /\ k = e + 2 => i[1] = "mov"
      /\ k = e + 3 => i[1] = "mov"
      /\ p # "TestAndTestAndSet" =>
           /\ k = 0 => i[1] = "mov"
           /\ k = 1 => i[1] = "xchg"
           /\ k = 2 => i[1] = "test"
           /\ k = 3 => i[1] \in {"je", "jne"}
      /\ p = "Yield" =>
           /\ k = 4 => i[1] = "yield"
           /\ k = 5 => i[1] = "j"
      /\ p = "TestAndTestAndSet" =>
           /\ k = 0 => i[1] = "mov"
           /\ k = 1 => i[1] = "test"
           /\ k = 2 => i[1] = "jne"
           /\ k = 3 => i[1] = "mov"
           /\ k = 4 => i[1] = "xchg"
           /\ k = 5 => i[1] = "test"
           /\ k = 6 => i[1] = "jne"
  BY <1>1, MutexListing DEF Offset, SwapAt
<1>3. /\ k = e + 4 => i[1] = "sub"
      /\ k = e + 5 => i[1] = "test"
      /\ k = e + 6 => i[1] = "jgt"
  BY <1>1, <1>2 DEF EndsLoop, Offset, EnterAt
<1>4. /\ p = "TestAndSet" => e = 4
      /\ p = "TestAndTestAndSet" => e = 7
      /\ p = "Yield" => e = 6
      /\ p \in {"TestAndSet", "TestAndTestAndSet", "Yield"}
  BY DEF EnterAt, MutexPrograms
<1>5. i[1] = "halt"
  BY DEF Opcode
<1> HIDE DEF i, k, e
<1>6. CASE p = "TestAndSet"
  BY <1>1, <1>2, <1>3, <1>4, <1>5, <1>6 DEF k, e
<1>7. CASE p = "TestAndTestAndSet"
  BY <1>1, <1>2, <1>3, <1>4, <1>5, <1>7 DEF k, e
<1>8. CASE p = "Yield"
  BY <1>1, <1>2, <1>3, <1>4, <1>5, <1>8 DEF k, e
<1> QED BY <1>4, <1>6, <1>7, <1>8

LEMMA PetersonHalts ==
  ASSUME "Peterson" \in DOMAIN Programs, NEW c, NEW m, Contends(c, m),
         Opcode(Programs["Peterson"][c.pc]) = "halt"
  PROVE  Offset(c) = 17
<1> DEFINE i == Programs["Peterson"][c.pc]
           k == Offset(c)
<1>1. c.pc \in Nat /\ k \in 0 .. 17
  BY SaneFields DEF Contends
<1>2. /\ k = 0 => i[1] = "lea"
      /\ k \in {1, 4, 5, 6, 9, 12, 14, 15, 16} => i[1] = "mov"
      /\ k = 2 => i[1] = "neg"
      /\ k \in {3, 13} => i[1] = "add"
      /\ k \in {7, 10} => i[1] = "test"
      /\ k = 8 => i[1] = "jne"
      /\ k = 11 => i[1] = "je"
  BY <1>1, PetersonListing DEF Offset
<1> HIDE DEF i, k
<1> QED BY <1>1, <1>2 DEF Opcode, i, k

LEMMA CallHalts ==
  ASSUME Caller \in DOMAIN Programs, NEW c, NEW m, NEW B, Calls(c, m, B),
         Opcode(Programs[Caller][c.pc]) = "halt"
  PROVE  Offset(c) = 12
<1> DEFINE i == Programs[Caller][c.pc]
           k == Offset(c)
<1>1. c.pc \in Nat /\ k \in 0 .. 21
  BY SaneFields DEF Calls
<1>2. /\ k \in {0, 6} => i[1] = "push"
      /\ k \in {1, 7} => i[1] = "call"
      /\ k \in {2, 8} => i[1] = "pop"
      /\ k \in {3, 5, 13, 14, 19, 20} => i[1] = "mov"
      /\ k = 4 => i[1] = "add"
      /\ k = 9 => i[1] = "sub"
      /\ k \in {10, 16} => i[1] = "test"
      /\ k = 11 => i[1] = "jgt"
      /\ k = 15 => i[1] = "xchg"
      /\ k = 17 => i[1] = "jne"
      /\ k \in {18, 21} => i[1] = "ret"
  BY <1>1, CallerListing DEF Offset
<1> HIDE DEF i, k
<1> QED BY <1>1, <1>2 DEF Opcode, i, k

\* What the invariants of the locks say of each thread.
LEMMA LockContexts ==
  ASSUME LocksInv, opt.program \in Locks
  PROVE  /\ opt.program \in DOMAIN Programs /\ memory \in Memories
         /\ \A t \in Live : Sane(ThreadContexts[t])
         /\ opt.program \in MutexPrograms => \A t \in Live : Swaps(opt.program, ThreadContexts[t])
         /\ opt.program = "Ticket" => \A t \in Live : Tickets(ThreadContexts[t])
         /\ opt.program = "Peterson" => \A t \in Live : Contends(ThreadContexts[t], memory)
         /\ opt.program = Caller =>
              \A t \in Live : Calls(ThreadContexts[t], memory, StackBottom(t))
<1>1. opt.program \in DOMAIN Programs
  BY X86Assumption DEF LocksInv, Inv
<1>2. CASE opt.program \in MutexPrograms
  <2>1. opt.program \notin {"Ticket", "Peterson", Caller}
    BY <1>2 DEF MutexPrograms, Caller
  <2> QED BY <1>1, <1>2, <2>1 DEF LocksInv, MutexInv, Swaps
<1>3. CASE opt.program = "Ticket"
  BY <1>1, <1>3 DEF LocksInv, TicketInv, Tickets, MutexPrograms, Caller
<1>4. CASE opt.program = "Peterson"
  BY <1>1, <1>4 DEF LocksInv, PetersonInv, Contends, MutexPrograms, Caller
<1>5. CASE opt.program = Caller
  BY <1>1, <1>5 DEF LocksInv, CallInv, Calls, MutexPrograms, Caller
<1> QED BY <1>1, <1>2, <1>3, <1>4, <1>5, LockNames

\* A thread that halts has done all its increments.
LEMMA LockHalts ==
  ASSUME LocksInv, opt.program \in Locks, NEW t \in Live,
         Opcode(Code[ThreadContexts[t].pc]) = "halt"
  PROVE  Rest(opt.program, ThreadContexts[t]) = 0
<1> DEFINE p == opt.program
           c == ThreadContexts[t]
           x == c.regs["bx"]
<1>1. p \in Locks \cap DOMAIN Programs /\ Code = Programs[p] /\ x \in Int
  <2>1. Sane(c)
    BY LockContexts
  <2> QED BY <2>1, SaneFields, LockContexts DEF Code, Registers
<1>2. CASE p \in MutexPrograms
  <2>1. Offset(c) = EnterAt(p) + 7
    BY <1>1, <1>2, LockContexts, MutexHalts
  <2>2. /\ EntryOf(p) = EnterAt(p) /\ LoopOf(p) = EnterAt(p) + 4 /\ PlaceOf(p, c) = Offset(c)
        /\ EnterAt(p) \in Nat
    BY <1>1, <1>2, LockNames
  <2> HIDE DEF x, p, c
  <2> QED BY <2>1, <2>2 DEF Rest, Left, p, c
<1>3. CASE p = "Ticket"
  <2>1. Offset(c) = 13
    BY <1>1, <1>3, LockContexts, TicketHalts
  <2>2. EntryOf(p) = 5 /\ LoopOf(p) = 10 /\ PlaceOf(p, c) = Offset(c)
    BY <1>1, <1>3, LockNames
  <2> QED BY <2>1, <2>2 DEF Rest, Left
<1>4. CASE p = "Peterson"
  <2>1. Offset(c) = 17 /\ x \in {0, 1}
    BY <1>1, <1>4, LockContexts, PetersonHalts DEF Contends
  <2>2. EntryOf(p) = 12 /\ LoopOf(p) = 17 /\ PlaceOf(p, c) = Offset(c)
    BY <1>1, <1>4, LockNames
  <2> QED BY <2>1, <2>2 DEF Rest, Left
<1>5. CASE p = Caller
  <2>1. Offset(c) = 12
    BY <1>1, <1>5, LockContexts, CallHalts
  <2>2. EntryOf(p) = 3 /\ LoopOf(p) = 9 /\ PlaceOf(p, c) = 12
    BY <1>1, <1>5, <2>1, LockNames DEF CallPlace
  <2> QED BY <2>2 DEF Rest, Left
<1> QED BY <1>1, <1>2, <1>3, <1>4, <1>5, LockNames

LEMMA LockAdvances ==
  ASSUME LocksInv, opt.program \in Locks, NEW t \in Live, ThreadExecutes(t),
         TalliedIn(opt.program, ThreadContexts[t], memory)
  PROVE  AdvancesIn(opt.program, ThreadContexts[t], ThreadContexts'[t], memory, memory')
<1> DEFINE p == opt.program
           c == ThreadContexts[t]
           d == Context(Execution(Programs[p], c, memory))
           n == Execution(Programs[p], c, memory).memory
<1>1. /\ ThreadContexts'[t] = d /\ memory' = n /\ Opcode(Programs[p][c.pc]) # "halt"
      /\ p \in Locks \cap DOMAIN Programs /\ memory \in Memories
  <2>1. t \in DOMAIN ThreadContexts
    BY DEF Live, ThreadContexts
  <2> QED BY <2>1, LockContexts DEF ThreadExecutes, Code
<1>2. CASE p \in MutexPrograms
  <2>1. /\ EntryOf(p) = EnterAt(p) /\ LoopOf(p) = EnterAt(p) + 4 /\ WordOf(p) = CountWord
        /\ PlaceOf(p, c) = Offset(c) /\ PlaceOf(p, d) = Offset(d)
    BY <1>1, <1>2, LockNames
  <2>2. /\ Tallied(EnterAt(p), EnterAt(p) + 4, CountWord, Offset(c), c, memory) /\ Swaps(p, c)
    BY <1>2, <2>1, LockContexts DEF TalliedIn
  <2>3. Advances(EnterAt(p), EnterAt(p) + 4, CountWord, Offset(c), Offset(d), c, d, memory, n)
    BY <1>1, <1>2, <2>2, MutexAdvances
  <2> QED BY <1>1, <2>1, <2>3 DEF AdvancesIn
<1>3. CASE p = "Ticket"
  <2>1. /\ EntryOf(p) = 5 /\ LoopOf(p) = 10 /\ WordOf(p) = TicketCount
        /\ PlaceOf(p, c) = Offset(c) /\ PlaceOf(p, d) = Offset(d)
    BY <1>1, <1>3, LockNames
  <2>2. Tallied(5, 10, TicketCount, Offset(c), c, memory) /\ Tickets(c)
    BY <1>3, <2>1, LockContexts DEF TalliedIn
  <2>3. Advances(5, 10, TicketCount, Offset(c), Offset(d), c, d, memory, n)
    BY <1>1, <1>3, <2>2, TicketAdvances
  <2> QED BY <1>1, <2>1, <2>3 DEF AdvancesIn
<1>4. CASE p = "Peterson"
  <2>1. /\ EntryOf(p) = 12 /\ LoopOf(p) = 17 /\ WordOf(p) = PetersonCount
        /\ PlaceOf(p, c) = Offset(c) /\ PlaceOf(p, d) = Offset(d)
    BY <1>1, <1>4, LockNames
  <2>2. Tallied(12, 17, PetersonCount, Offset(c), c, memory) /\ Contends(c, memory)
    BY <1>4, <2>1, LockContexts DEF TalliedIn
  <2>3. Advances(12, 17, PetersonCount, Offset(c), Offset(d), c, d, memory, n)
    BY <1>1, <1>4, <2>2, PetersonAdvances
  <2> QED BY <1>1, <2>1, <2>3 DEF AdvancesIn
<1>5. CASE p = Caller
  <2>1. /\ EntryOf(p) = 3 /\ LoopOf(p) = 9 /\ WordOf(p) = CountWord
        /\ PlaceOf(p, c) = CallPlace(Offset(c)) /\ PlaceOf(p, d) = CallPlace(Offset(d))
    BY <1>1, <1>5, LockNames
  <2>2. /\ Tallied(3, 9, CountWord, CallPlace(Offset(c)), c, memory)
        /\ Calls(c, memory, StackBottom(t))
    BY <1>5, <2>1, LockContexts DEF TalliedIn
  <2>3. StackOf(StackBottom(t)) /\ LockWord \in Addresses
    BY <1>5, Stacks DEF LocksInv, Inv, Live
  <2>4. Advances(3, 9, CountWord, CallPlace(Offset(c)), CallPlace(Offset(d)), c, d, memory, n)
    BY <1>1, <1>5, <2>2, <2>3, CallAdvances
  <2> QED BY <1>1, <2>1, <2>4 DEF AdvancesIn
<1> QED BY <1>1, <1>2, <1>3, <1>4, <1>5, LockNames

\* Only one thread at a time is in the increment.
LEMMA LockAlone ==
  ASSUME LocksInv, opt.program \in Locks, NEW t \in Live, NEW u \in Live, t # u,
         PlaceOf(opt.program, ThreadContexts[t])
           \in EntryOf(opt.program) .. EntryOf(opt.program) + 2
  PROVE  PlaceOf(opt.program, ThreadContexts[u])
           \notin EntryOf(opt.program) .. EntryOf(opt.program) + 2
<1> DEFINE p == opt.program
           e == EntryOf(p)
<1>1. p \in Locks \cap DOMAIN Programs /\ LoadAddr \in Nat
  BY LockContexts, X86Assumption
<1>2. e \in Nat /\ CriticalPCs[p] = LoadAddr + e .. LoadAddr + e + 2
  <2>1. CASE p \in MutexPrograms
    <3>1. CriticalPCs[p] = LoadAddr + EnterAt(p) .. LoadAddr + EnterAt(p) + 2
      BY <2>1, TestAndSetLoaded, TestAndTestAndSetLoaded, YieldLoaded
         DEF CriticalFrom, EnterAt, MutexPrograms
    <3> QED BY <1>1, <2>1, <3>1, LockNames
  <2>2. CASE p = "Ticket"
    <3>1. e = 5
      BY <1>1, <2>2, LockNames
    <3> QED BY <1>1, <2>2, <3>1, TicketLoaded DEF CriticalFrom
  <2>3. CASE p = "Peterson"
    <3>1. e = 12
      BY <1>1, <2>3, LockNames
    <3> QED BY <1>1, <2>3, <3>1, PetersonLoaded DEF CriticalFrom
  <2>4. CASE p = Caller
    <3>1. e = 3
      BY <1>1, <2>4, LockNames
    <3> QED BY <1>1, <2>4, <3>1, LoopingRaceCallRetLoaded DEF CriticalFrom, Caller
  <2> QED BY <1>1, <2>1, <2>2, <2>3, <2>4, LockNames
<1>3. ASSUME NEW w \in Live, PlaceOf(p, ThreadContexts[w]) \in e .. e + 2
      PROVE  InCritical(w)
  <2> DEFINE c == ThreadContexts[w]
  <2>1. c.pc \in Nat /\ Offset(c) \in Int
    BY <1>1, LockContexts, SaneFields DEF Offset
  <2>2. Offset(c) \in e .. e + 2
    <3>1. CASE p = Caller
      <4>1. e = 3 /\ PlaceOf(p, c) = CallPlace(Offset(c))
        BY <1>1, <3>1, LockNames
      <4> QED BY <1>3, <2>1, <4>1 DEF CallPlace
    <3>2. CASE p # Caller
      BY <1>3, <3>2 DEF PlaceOf
    <3> QED BY <3>1, <3>2
  <2>3. c.pc \in LoadAddr + e .. LoadAddr + e + 2
    BY <1>1, <1>2, <2>1, <2>2 DEF Offset
  <2> QED BY <1>2, <2>3 DEF InCritical, At_, Live
<1>4. Alone
  BY LocksAlone DEF MutualExclusion
<1>5. t \in Threads /\ u \in Threads
  BY DEF Live
<1> QED BY <1>3, <1>4, <1>5 DEF Alone

\* One unit for each of the f[t] times of each t in S.
Units(S, f) == {u \in S \X Nat : u[2] \in 1 .. f[u[1]]}

LEMMA SmallestSubset ==
  ASSUME NEW S, IsFiniteSet(S), NEW T, T \subseteq SUBSET S, T # {}
  PROVE  \E s \in T : \A x \in s : s \ {x} \notin T
<1>1. SUBSET S = FiniteSubsetsOf(S)
  BY FS_FiniteSubsetsOfFinite
<1>2. IsWellFoundedOn(StrictSubsetOrdering(S), SUBSET S)
  BY <1>1, FS_StrictSubsetOrderingWellFounded
<1>3. PICK s \in T : \A r \in T : <<r, s>> \notin StrictSubsetOrdering(S)
  BY <1>2, WFMin
<1>4. ASSUME NEW x \in s PROVE <<s \ {x}, s>> \in StrictSubsetOrdering(S)
  BY DEF StrictSubsetOrdering
<1> QED BY <1>3, <1>4

LEMMA UnitsAdd ==
  ASSUME NEW S, NEW t \in S, NEW f, f[t] \in Nat, IsFiniteSet(Units(S \ {t}, f))
  PROVE  /\ IsFiniteSet(Units(S, f))
         /\ Cardinality(Units(S, f)) = Cardinality(Units(S \ {t}, f)) + f[t]
<1> DEFINE A == Units(S \ {t}, f)
           B == {t} \X (1 .. f[t])
<1>1. Units(S, f) = A \cup B /\ A \cap B = {}
  BY DEF Units
<1>2. IsFiniteSet(B) /\ Cardinality(B) = f[t]
  <2>1. IsFiniteSet({t}) /\ Cardinality({t}) = 1
    BY FS_Singleton
  <2>2. IsFiniteSet(1 .. f[t]) /\ Cardinality(1 .. f[t]) = f[t]
    BY FS_Interval
  <2>3. IsFiniteSet(B) /\ Cardinality(B) = Cardinality({t}) * Cardinality(1 .. f[t])
    BY <2>1, <2>2, FS_Product
  <2> QED BY <2>1, <2>2, <2>3
<1>3. Cardinality(A \cap B) = 0
  BY <1>1, FS_EmptySet
<1>4. IsFiniteSet(A) /\ Cardinality(A) \in Nat
  BY FS_CardinalityType
<1> HIDE DEF A, B
<1>5. /\ IsFiniteSet(A \cup B)
      /\ Cardinality(A \cup B) = Cardinality(A) + Cardinality(B) - Cardinality(A \cap B)
  BY <1>2, <1>4, FS_Union
<1>6. Cardinality(A \cup B) = Cardinality(A) + f[t]
  BY <1>2, <1>3, <1>4, <1>5
<1> QED BY <1>1, <1>5, <1>6 DEF A

LEMMA UnitsFinite ==
  ASSUME NEW S, IsFiniteSet(S), NEW f, \A t \in S : f[t] \in Nat
  PROVE  IsFiniteSet(Units(S, f))
<1> DEFINE T == {s \in SUBSET S : ~IsFiniteSet(Units(s, f))}
<1> SUFFICES ASSUME T # {} PROVE FALSE
  OBVIOUS
<1>1. PICK s \in T : \A x \in s : s \ {x} \notin T
  BY SmallestSubset, T \subseteq SUBSET S
<1>2. CASE s = {}
  <2>1. Units(s, f) = {}
    BY <1>2 DEF Units
  <2> QED BY <2>1, FS_EmptySet
<1>3. ASSUME NEW x \in s PROVE FALSE
  <2>1. IsFiniteSet(Units(s \ {x}, f)) /\ f[x] \in Nat
    BY <1>1
  <2> QED BY <2>1, UnitsAdd
<1> QED BY <1>2, <1>3

\* One time less for t.
LEMMA UnitsDrop ==
  ASSUME NEW S, NEW t \in S, NEW f, NEW g, IsFiniteSet(Units(S, f)),
         f[t] \in Nat \ {0}, g[t] = f[t] - 1, \A u \in S \ {t} : g[u] = f[u]
  PROVE  /\ IsFiniteSet(Units(S, g))
         /\ Cardinality(Units(S, g)) = Cardinality(Units(S, f)) - 1
<1>1. <<t, f[t]>> \in Units(S, f)
  BY DEF Units
<1>2. Units(S, g) = Units(S, f) \ {<<t, f[t]>>}
  <2>1. ASSUME NEW u \in S \X Nat
        PROVE  u \in Units(S, g) <=> u \in Units(S, f) \ {<<t, f[t]>>}
    <3>1. u = <<u[1], u[2]>> /\ u[1] \in S /\ u[2] \in Nat
      OBVIOUS
    <3>2. CASE u[1] = t
      BY <3>1, <3>2 DEF Units
    <3>3. CASE u[1] # t
      BY <3>1, <3>3 DEF Units
    <3> QED BY <3>2, <3>3
  <2> QED BY <2>1 DEF Units
<1>3. /\ IsFiniteSet(Units(S, f) \ {<<t, f[t]>>})
      /\ Cardinality(Units(S, f) \ {<<t, f[t]>>}) = Cardinality(Units(S, f)) - 1
  BY <1>1, FS_RemoveElement
<1> QED BY <1>2, <1>3

\* The sum that the property is about counts the units.
LEMMA FoldLoops ==
  ASSUME NEW S, IsFiniteSet(S), NEW f, \A t \in S : f[t] = Loops(t) /\ f[t] \in Nat
  PROVE  FoldSet(LAMBDA t, sum : sum + Loops(t), 0, S) = Cardinality(Units(S, f))
<1> DEFINE Pick(s) == CHOOSE x \in s : TRUE
           IsTotal(h) == h = [s \in SUBSET S |->
                                IF s = {} THEN 0 ELSE h[s \ {Pick(s)}] + Loops(Pick(s))]
           total == CHOOSE h : IsTotal(h)
           count == [s \in SUBSET S |-> Cardinality(Units(s, f))]
<1>1. FoldSet(LAMBDA t, sum : sum + Loops(t), 0, S) = total[S]
  BY Zenon DEF FoldSet, MapThenFoldSet
<1>2. ASSUME NEW s \in SUBSET S, s # {}
      PROVE  /\ Pick(s) \in s /\ s \ {Pick(s)} \in SUBSET S
             /\ count[s] = count[s \ {Pick(s)}] + Loops(Pick(s))
  <2>1. Pick(s) \in s
    BY <1>2
  <2> DEFINE t == Pick(s)
             r == s \ {t}
  <2>2. f[t] \in Nat /\ f[t] = Loops(t) /\ r \in SUBSET S
    BY <2>1
  <2> HIDE DEF t
  <2>3. IsFiniteSet(r) /\ \A u \in r : f[u] \in Nat
    BY <2>2, FS_Subset
  <2>4. IsFiniteSet(Units(r, f))
    BY <2>3, UnitsFinite
  <2>5. Cardinality(Units(s, f)) = Cardinality(Units(r, f)) + f[t]
    BY <2>1, <2>2, <2>4, UnitsAdd DEF t
  <2> QED BY <2>1, <2>2, <2>5 DEF t
<1>3. Cardinality(Units({}, f)) = 0
  <2>1. Units({}, f) = {}
    BY DEF Units
  <2> QED BY <2>1, FS_EmptySet
<1> HIDE DEF Pick
<1>4. IsTotal(count)
  <2>1. ASSUME NEW s \in SUBSET S
        PROVE  count[s] = IF s = {} THEN 0 ELSE count[s \ {Pick(s)}] + Loops(Pick(s))
    BY <1>2, <1>3
  <2> QED BY <2>1
<1> HIDE DEF count, IsTotal
<1>5. IsTotal(total)
  BY <1>4
<1> HIDE DEF total
<1>6. \A s \in SUBSET S : total[s] = count[s]
  <2> DEFINE T == {s \in SUBSET S : total[s] # count[s]}
  <2> SUFFICES ASSUME T # {} PROVE FALSE
    OBVIOUS
  <2>1. PICK s \in T : \A x \in s : s \ {x} \notin T
    BY SmallestSubset, T \subseteq SUBSET S
  <2>2. total[s] = IF s = {} THEN 0 ELSE total[s \ {Pick(s)}] + Loops(Pick(s))
    BY <1>5 DEF IsTotal
  <2>3. count[s] = IF s = {} THEN 0 ELSE count[s \ {Pick(s)}] + Loops(Pick(s))
    BY <1>4 DEF IsTotal
  <2>4. s # {} => total[s \ {Pick(s)}] = count[s \ {Pick(s)}]
    BY <1>2, <2>1
  <2> QED BY <2>2, <2>3, <2>4
<1> QED BY <1>1, <1>6 DEF count

\* The increments that the threads still have to do, and all there are to do.
Pending == Units(Live, [t \in Live |-> Rest(opt.program, ThreadContexts[t])])
Work == Units(Threads, [t \in Threads |-> Loops(t)])

\* What is counted and what is pending make up the work.
CountInv ==
  opt.program \in Locks =>
    /\ \A t \in Live : TalliedIn(opt.program, ThreadContexts[t], memory)
    /\ IsFiniteSet(Pending) /\ IsFiniteSet(Work)
    /\ memory[WordOf(opt.program)] + Cardinality(Pending) = Cardinality(Work)

LEMMA OptionsKept == [Next]_vars => opt' = opt /\ Threads' = Threads
BY DEF Next, Execute, Interrupt, Halts, HaltSwitch, HaltInterrupt, HaltLast, Terminated, vars,
       Threads

\* Every lock increments one word, however many threads there are.
LEMMA LockWords ==
  ASSUME LocksInv, opt.program \in Locks
  PROVE  /\ WordOf(opt.program) \in Addresses /\ memory[WordOf(opt.program)] \in Int
         /\ \A t \in Threads : Word(t) = WordOf(opt.program)
<1>1. opt.program \in Locks \cap DOMAIN Programs /\ memory \in Memories
  BY LockContexts
<1>2. WordOf(opt.program) \in Addresses
  BY LocksAssumption DEF WordOf, TicketCount, PetersonCount, CountWord
<1>3. VarAddress(Source, "count") = WordOf(opt.program)
  BY TestAndSetLoaded, TestAndTestAndSetLoaded, YieldLoaded, TicketLoaded, PetersonLoaded,
     LoopingRaceCallRetLoaded
     DEF Source, Sources, Locks, WordOf, TicketCount, PetersonCount, CountWord
<1>4. \A t \in Threads : Word(t) = VarAddress(Source, "count")
  BY DEF Word, Locks, Races
<1> QED BY <1>1, <1>2, <1>3, <1>4 DEF Memories

LEMMA LoopsType ==
  ASSUME Inv, NEW t \in Threads
  PROVE  Loops(t) \in Nat \ {0}
<1>1. t \in 0 .. opt.numthreads - 1
  BY DEF Threads
<1>2. opt.argv \in [0 .. opt.numthreads - 1 -> [Registers -> Int]]
  BY X86Assumption DEF Inv
<1>3. opt.argv[t]["bx"] \in Int
  BY <1>1, <1>2 DEF Registers
<1> QED BY <1>3 DEF Loops

LEMMA WorkFinite ==
  ASSUME Inv
  PROVE  IsFiniteSet(Threads) /\ IsFiniteSet(Work)
<1>1. opt.numthreads \in Nat
  BY X86Assumption DEF Inv
<1>2. IsFiniteSet(Threads)
  BY <1>1, FS_Interval DEF Threads
<1>3. \A t \in Threads : [u \in Threads |-> Loops(u)][t] \in Nat
  BY LoopsType
<1> QED BY <1>2, <1>3, UnitsFinite DEF Work

\* The increments a thread has left are a number.
LEMMA RestType ==
  ASSUME NEW p, NEW c, Sane(c)
  PROVE  Rest(p, c) \in Nat
<1>1. c.regs["bx"] \in Int
  BY SaneFields DEF Registers
<1> QED BY <1>1, LeftType DEF Rest

LEMMA CountInit == Init => CountInv
<1> SUFFICES ASSUME Init, opt.program \in Locks PROVE CountInv
  BY DEF CountInv
<1> DEFINE p == opt.program
<1>1. LocksInv
  BY LocksInit
<1>2. Live = Threads
  BY DEF Init, Live
<1>3. p \in Locks \cap DOMAIN Programs /\ LoadAddr \in Nat
  BY <1>1, LockContexts, X86Assumption
<1>4. EntryOf(p) \in Nat \ 0 .. 2
  BY <1>3, LockNames
<1>5. ASSUME NEW t \in Live
      PROVE  Rest(p, ThreadContexts[t]) = Loops(t) /\ TalliedIn(p, ThreadContexts[t], memory)
  <2> DEFINE c == ThreadContexts[t]
             x == opt.argv[t]["bx"]
  <2>1. /\ Sane(c) /\ Offset(c) = 0 /\ c.cc = {} /\ c.regs["bx"] = x
    BY <1>3, FirstContexts DEF Offset, Registers
  <2>2. PlaceOf(p, c) = 0 /\ x \in Int
    BY <2>1, SaneFields DEF PlaceOf, CallPlace, Registers
  <2>3. p = "Peterson" => x \in {0, 1}
    BY <1>1, <1>2, LocksAssumption DEF LocksInv, Inv, Threads
  <2>4. Loops(t) = IF x < 1 THEN 1 ELSE x
    BY <1>3, <2>2, <2>3 DEF Loops, Locks
  <2>5. LoopOf(p) \in Nat \ {0}
    BY <1>3, LockNames
  <2> HIDE DEF x, c
  <2>6. Rest(p, c) = Loops(t)
    BY <1>4, <2>1, <2>2, <2>4 DEF Rest, Left
  <2>7. TalliedIn(p, c, memory)
    BY <1>4, <2>1, <2>2, <2>5 DEF TalliedIn, Tallied
  <2> QED BY <2>6, <2>7 DEF c
<1>6. Pending = Work
  <2>1. [t \in Live |-> Rest(p, ThreadContexts[t])] = [t \in Threads |-> Loops(t)]
    BY <1>2, <1>5
  <2> QED BY <1>2, <2>1 DEF Pending, Work
<1>7. IsFiniteSet(Work) /\ Cardinality(Work) \in Nat
  BY <1>1, WorkFinite, FS_CardinalityType DEF LocksInv
<1>8. memory[WordOf(p)] = 0
  BY <1>1, LockWords DEF Init
<1> QED BY <1>5, <1>6, <1>7, <1>8 DEF CountInv

\* A thread that has nothing left counts for nothing.
LEMMA PendingWithout ==
  ASSUME NEW t, NEW S, NEW f, NEW g, f[t] = 0, \A u \in S \ {t} : g[u] = f[u]
  PROVE  Units(S \ {t}, g) = Units(S, f)
<1>1. ASSUME NEW u \in S \X Nat
      PROVE  u \in Units(S \ {t}, g) <=> u \in Units(S, f)
  <2>1. u = <<u[1], u[2]>> /\ u[1] \in S /\ u[2] \in Nat
    OBVIOUS
  <2>2. CASE u[1] = t
    BY <2>1, <2>2 DEF Units
  <2>3. CASE u[1] # t
    BY <2>1, <2>3 DEF Units
  <2> QED BY <2>2, <2>3
<1>2. Units(S \ {t}, g) \subseteq S \X Nat /\ Units(S, f) \subseteq S \X Nat
  BY DEF Units
<1> QED BY <1>1, <1>2

LEMMA CountNext ==
  ASSUME LocksInv, CountInv, [Next]_vars
  PROVE  CountInv'
<1> SUFFICES ASSUME opt.program \in Locks PROVE CountInv'
  BY OptionsKept DEF CountInv
<1> DEFINE p == opt.program
           w == WordOf(p)
           f == [u \in Live |-> Rest(p, ThreadContexts[u])]
<1>1. Inv /\ opt' = opt /\ Threads' = Threads /\ Work' = Work
  <2>1. opt' = opt /\ Threads' = Threads
    BY OptionsKept
  <2> QED BY <2>1 DEF Work, Loops, LocksInv
<1>2. /\ \A u \in Live : TalliedIn(p, ThreadContexts[u], memory)
      /\ IsFiniteSet(Pending) /\ IsFiniteSet(Work)
      /\ memory[w] + Cardinality(Pending) = Cardinality(Work)
      /\ Pending = Units(Live, f)
  BY DEF CountInv, Pending
<1>3. /\ p \in Locks \cap DOMAIN Programs /\ memory \in Memories /\ memory[w] \in Int
      /\ \A u \in Live : f[u] \in Nat
  BY LockContexts, LockWords, RestType
<1>4. CASE UNCHANGED <<ThreadContexts, memory, Live>>
  BY <1>1, <1>2, <1>4 DEF CountInv, Pending
<1>5. ASSUME NEW t \in Live, ThreadHalts(t) PROVE CountInv'
  <2> DEFINE g == [u \in Live' |-> Rest(p, ThreadContexts'[u])]
  <2>1. /\ Live' = Live \ {t} /\ memory' = memory
        /\ \A u \in Live' : ThreadContexts'[u] = ThreadContexts[u]
    BY <1>5 DEF ThreadHalts
  <2>2. f[t] = 0
    BY <1>5, LockHalts DEF ThreadHalts
  <2>3. \A u \in Live \ {t} : g[u] = f[u]
    BY <2>1
  <2>4. Pending' = Units(Live', g)
    BY <1>1 DEF Pending
  <2> HIDE DEF f, g
  <2>5. Pending' = Pending
    BY <1>2, <2>1, <2>2, <2>3, <2>4, PendingWithout
  <2> QED BY <1>1, <1>2, <2>1, <2>5 DEF CountInv
<1>6. ASSUME NEW t \in Live, ThreadExecutes(t) PROVE CountInv'
  <2> DEFINE c == ThreadContexts[t]
             d == ThreadContexts'[t]
             g == [u \in Live' |-> Rest(p, ThreadContexts'[u])]
             e == EntryOf(p)
  <2>1. /\ Live' = Live
        /\ \A u \in Live \ {t} : ThreadContexts'[u] = ThreadContexts[u]
    BY <1>6 DEF ThreadExecutes, ThreadContexts, Live
  <2>2. AdvancesIn(p, c, d, memory, memory')
    BY <1>2, <1>6, LockAdvances
  <2>3. /\ TalliedIn(p, d, memory')
        /\ \/ memory'[w] = memory[w] /\ g[t] = f[t]
           \/ /\ PlaceOf(p, c) \in e .. e + 2 /\ memory'[w] = memory[w] + 1
              /\ f[t] \in Nat \ {0} /\ g[t] = f[t] - 1
    BY <2>1, <2>2 DEF AdvancesIn, Advances, TalliedIn, Rest
  <2>4. \A u \in Live \ {t} : g[u] = f[u]
    BY <2>1
  <2>5. Pending' = Units(Live, g)
    BY <1>1, <2>1 DEF Pending
  <2>6. ASSUME NEW u \in Live \ {t} PROVE TalliedIn(p, ThreadContexts'[u], memory')
    <3>1. TalliedIn(p, ThreadContexts[u], memory) /\ ThreadContexts'[u] = ThreadContexts[u]
      BY <1>2, <2>1
    <3>2. CASE memory'[w] = memory[w]
      BY <3>1, <3>2 DEF TalliedIn, Tallied
    <3>3. CASE PlaceOf(p, c) \in e .. e + 2
      <4>1. PlaceOf(p, ThreadContexts[u]) \notin e .. e + 2 /\ e \in Nat
        <5>1. e \in Nat
          BY <1>3, LockNames
        <5> QED BY <3>3, <5>1, LockAlone
      <4> QED BY <3>1, <4>1 DEF TalliedIn, Tallied
    <3> QED BY <2>3, <3>2, <3>3
  <2>7. \A u \in Live' : TalliedIn(p, ThreadContexts'[u], memory')
    BY <2>1, <2>3, <2>6
  <2> HIDE DEF f, g
  <2>8. IsFiniteSet(Pending') /\ memory'[w] + Cardinality(Pending') = Cardinality(Work)
    <3>1. CASE memory'[w] = memory[w] /\ g[t] = f[t]
      <4>1. Units(Live, g) = Units(Live, f)
        BY <2>4, <3>1 DEF Units
      <4> QED BY <1>2, <2>5, <3>1, <4>1
    <3>2. CASE /\ memory'[w] = memory[w] + 1
               /\ f[t] \in Nat \ {0} /\ g[t] = f[t] - 1
      <4>1. /\ IsFiniteSet(Units(Live, g))
            /\ Cardinality(Units(Live, g)) = Cardinality(Units(Live, f)) - 1
        BY <1>2, <2>4, <3>2, UnitsDrop
      <4>2. Cardinality(Units(Live, f)) \in Nat
        BY <1>2, FS_CardinalityType
      <4> QED BY <1>2, <1>3, <2>5, <3>2, <4>1, <4>2
    <3> QED BY <2>3, <3>1, <3>2
  <2> QED BY <1>1, <1>2, <2>7, <2>8 DEF CountInv
<1> QED BY <1>1, <1>4, <1>5, <1>6, ThreadStep

\* When all have halted, nothing is pending.
LEMMA CountsAll ==
  ASSUME LocksInv, CountInv, opt.program \in Locks
  PROVE  CountExact
<1> SUFFICES ASSUME ~Running, NEW a \in {Word(t) : t \in Threads}
             PROVE  LET users == {t \in Threads : Word(t) = a}
                        increments == FoldSet(LAMBDA t, sum : sum + Loops(t), 0, users)
                    IN  /\ memory[a] \in 1 .. increments
                        /\ opt.program \in Locks \/ LuckySlices \/ Cardinality(users) = 1 =>
                             memory[a] = increments
                        /\ (\A t \in users : Loops(t) >= 2) => memory[a] >= 2
  BY Zenon DEF CountExact
<1> DEFINE users == {t \in Threads : Word(t) = a}
           f == [t \in Threads |-> Loops(t)]
           increments == FoldSet(LAMBDA t, sum : sum + Loops(t), 0, users)
<1>1. a = WordOf(opt.program) /\ users = Threads
  BY LockWords
<1>2. IsFiniteSet(Threads) /\ \A t \in Threads : Loops(t) \in Nat \ {0}
  BY WorkFinite, LoopsType DEF LocksInv
<1>3. \A t \in users : f[t] = Loops(t) /\ f[t] \in Nat
  BY <1>2
<1> HIDE DEF f
<1>4. FoldSet(LAMBDA t, sum : sum + Loops(t), 0, users) = Cardinality(Units(users, f))
  BY <1>1, <1>2, <1>3, FoldLoops
<1>5. increments = Cardinality(Work)
  BY <1>1, <1>4 DEF Work, f
<1>6. memory[a] = Cardinality(Work) /\ Cardinality(Work) \in Nat /\ IsFiniteSet(Work)
  <2>1. Live = {}
    BY DEF Live, Running
  <2>2. Pending = {}
    BY <2>1 DEF Pending, Units
  <2>3. Cardinality(Pending) = 0
    BY <2>2, FS_EmptySet
  <2>4. memory[a] \in Int /\ memory[a] + Cardinality(Pending) = Cardinality(Work)
    BY <1>1, LockWords DEF CountInv
  <2>5. IsFiniteSet(Work) /\ Cardinality(Work) \in Nat
    BY WorkFinite, FS_CardinalityType DEF LocksInv
  <2> QED BY <2>3, <2>4, <2>5
<1>7. 0 \in Threads
  BY X86Assumption DEF LocksInv, Inv, Threads
<1>8. Cardinality(Work) >= 1
  <2>1. {<<0, 1>>} \subseteq Work
    BY <1>2, <1>7 DEF Work, Units
  <2>2. Cardinality({<<0, 1>>}) = 1
    BY FS_Singleton
  <2> QED BY <1>6, <2>1, <2>2, FS_Subset
<1>9. ASSUME \A t \in Threads : Loops(t) >= 2 PROVE Cardinality(Work) >= 2
  <2>1. {<<0, 1>>} \cup {<<0, 2>>} \subseteq Work
    BY <1>2, <1>7, <1>9 DEF Work, Units
  <2>2. Cardinality({<<0, 1>>} \cup {<<0, 2>>}) = 2
    <3>1. IsFiniteSet({<<0, 1>>}) /\ Cardinality({<<0, 1>>}) = 1
      BY FS_Singleton
    <3>2. <<0, 2>> \notin {<<0, 1>>}
      OBVIOUS
    <3>3. Cardinality({<<0, 1>>} \cup {<<0, 2>>}) = Cardinality({<<0, 1>>}) + 1
      BY <3>1, <3>2, FS_AddElement
    <3> QED BY <3>1, <3>3
  <2>3. Cardinality({<<0, 1>>} \cup {<<0, 2>>}) <= Cardinality(Work)
    BY <1>6, <2>1, FS_Subset
  <2> HIDE DEF Work
  <2> QED BY <1>6, <2>2, <2>3
<1> HIDE DEF increments
<1>10. /\ memory[a] \in 1 .. increments /\ memory[a] = increments
       /\ (\A t \in users : Loops(t) >= 2) => memory[a] >= 2
  BY <1>1, <1>5, <1>6, <1>8, <1>9
<1> QED BY <1>10 DEF increments

\* With a lock, whatever the threads, loops and time slices, the count is what
\* the threads incremented it by when all have halted: no increment is lost
\* and none is counted twice.
THEOREM LocksCount == Spec => [](opt.program \in Locks => CountExact)
<1>1. Init => LocksInv /\ CountInv
  BY LocksInit, CountInit
<1>2. LocksInv /\ CountInv /\ [Next]_vars => (LocksInv /\ CountInv)'
  BY LocksNext, CountNext
<1>3. LocksInv /\ CountInv => (opt.program \in Locks => CountExact)
  BY CountsAll
<1> QED BY <1>1, <1>2, <1>3, PTL DEF Spec

-----------------------------------------------------------------------------
(* Types.                                                                  *)

\* The contexts that are kept, those of halted threads included, and the timer.
Kept ==
  /\ cpu \in Contexts /\ saved \in [Threads -> Contexts]
  /\ interrupt \in 1 .. opt.intfreq \cup {1}
KeptInv == opt.program \in Locks => Kept

LEMMA SliceType == ASSUME Inv PROVE Slices \subseteq 1 .. opt.intfreq \cup {1}
BY X86Assumption DEF Inv, Slices

LEMMA KeptInit == Init => KeptInv
<1> SUFFICES ASSUME Init, opt.program \in Locks PROVE Kept
  BY DEF KeptInv
<1>1. LocksInv /\ Live = Threads /\ cpu = saved[Current] /\ interrupt \in Slices
  BY LocksInit DEF Init, Live
<1>2. ASSUME NEW t \in Threads PROVE saved[t] \in Contexts
  <2>1. ThreadContexts[t] = saved[t]
    BY <1>1 DEF ThreadContexts, Live, Init
  <2> QED BY <1>1, <2>1, LockContexts DEF Sane
<1>3. Current \in Threads
  BY <1>1, ScheduledThreads DEF LocksInv, Inv, Current
<1>4. DOMAIN saved = Threads /\ saved = [t \in Threads |-> saved[t]]
  BY DEF Init
<1>5. interrupt \in 1 .. opt.intfreq \cup {1}
  BY <1>1, SliceType DEF LocksInv
<1> QED BY <1>1, <1>2, <1>3, <1>4, <1>5 DEF Kept

LEMMA LiveSane == LocksInv => (opt.program \in Locks => \A t \in Live : Sane(ThreadContexts[t]))
BY LockContexts

LEMMA KeptNext ==
  ASSUME LocksInv, LocksInv', KeptInv, [Next]_vars
  PROVE  KeptInv'
<1> SUFFICES ASSUME opt.program \in Locks PROVE Kept'
  BY OptionsKept DEF KeptInv
<1>1. /\ opt' = opt /\ Threads' = Threads /\ Kept /\ Inv
      /\ cpu \in Contexts /\ saved \in [Threads -> Contexts]
      /\ interrupt \in 1 .. opt.intfreq \cup {1} /\ opt.intfreq \in Nat
  BY OptionsKept, X86Assumption DEF KeptInv, Kept, LocksInv, Inv
<1>2. Slices' = Slices /\ Slices \subseteq 1 .. opt.intfreq \cup {1}
  BY <1>1, SliceType DEF Slices, IsManual
<1>3. Running => Current \in Threads \ done
  BY <1>1, ScheduledThreads DEF Inv, Current
<1>4. \A n \in 0 .. ScheduleLength - 1 : Scheduled(n) \in Threads
  BY <1>1, ScheduledThreads DEF Inv
<1>5. ASSUME Running, done' = done, ThreadContexts'[Current] = Context(After)
      PROVE  Context(After) \in Contexts
  <2>1. Current \in Live'
    BY <1>1, <1>3, <1>5 DEF Live
  <2>2. LocksInv' => (opt.program \in Locks => \A t \in Live : Sane(ThreadContexts[t]))'
    BY LiveSane, PTL
  <2>3. \A t \in Live' : Sane(ThreadContexts'[t])
    BY <1>1, <2>2
  <2> QED BY <1>5, <2>1, <2>3 DEF Sane
<1>6. CASE Execute
  <2>1. Running /\ done' = done /\ cpu' = Context(After) /\ saved' = saved /\ curr' = curr
    BY <1>6 DEF Execute, processes
  <2>2. ThreadContexts'[Current] = Context(After)
    BY <1>1, <1>3, <2>1 DEF ThreadContexts, Current, Scheduled, IsManual
  <2>3. interrupt' \in 1 .. opt.intfreq \cup {1}
    BY <1>1, <1>6 DEF Execute
  <2> QED BY <1>1, <1>5, <2>1, <2>2, <2>3 DEF Kept
<1>7. CASE Interrupt
  <2>1. /\ Running /\ done' = done /\ saved' = [saved EXCEPT ![Current] = Context(After)]
        /\ interrupt' \in Slices
    BY <1>2, <1>7 DEF Interrupt
  <2>2. PICK n \in 0 .. ScheduleLength - 1 : curr' = n /\ cpu' = saved'[Scheduled(n)]
    BY <1>7 DEF Interrupt, SwitchTo
  <2>3. ThreadContexts' = [ThreadContexts EXCEPT ![Current] = Context(After)]
    BY <1>1, <2>1, <2>2, SwitchContexts
  <2>4. Context(After) \in Contexts
    BY <1>3, <1>5, <2>1, <2>3 DEF ThreadContexts
  <2>5. saved' \in [Threads -> Contexts]
    BY <1>1, <2>1, <2>4
  <2>6. cpu' \in Contexts
    BY <1>4, <2>2, <2>5
  <2> QED BY <1>1, <1>2, <2>1, <2>5, <2>6 DEF Kept
<1>8. CASE HaltSwitch
  <2>1. PICK n \in 0 .. ScheduleLength - 1 : cpu' = saved[Scheduled(n)]
    BY <1>8 DEF HaltSwitch, SwitchTo
  <2>2. cpu' \in Contexts
    BY <1>1, <1>4, <2>1
  <2> QED BY <1>1, <1>8, <2>2 DEF Kept, HaltSwitch
<1>9. CASE HaltInterrupt
  <2>1. PICK n \in 0 .. ScheduleLength - 1 : cpu' = saved[Scheduled(n)]
    BY <1>9 DEF HaltInterrupt, SwitchTo
  <2>2. cpu' \in Contexts
    BY <1>1, <1>4, <2>1
  <2> QED BY <1>1, <1>2, <1>9, <2>2 DEF Kept, HaltInterrupt
<1>10. CASE HaltLast \/ Terminated \/ UNCHANGED vars
  BY <1>1, <1>10 DEF Kept, HaltLast, Terminated, vars, processes
<1> QED BY <1>6, <1>7, <1>8, <1>9, <1>10 DEF Next

\* While a program with a lock runs, no register, word of memory or program
\* counter ever holds what is not a number, whatever goes through a stack; and
\* the timer is never 0 when it is counted down.
THEOREM LocksTyped == Spec => [](opt.program \in Locks => TypeOK)
<1>1. Init => LocksInv /\ KeptInv
  BY LocksInit, KeptInit
<1>2. LocksInv /\ KeptInv /\ [Next]_vars => LocksInv'
  BY LocksNext
<1>3. LocksInv /\ LocksInv' /\ KeptInv /\ [Next]_vars => KeptInv'
  BY KeptNext
<1>4. LocksInv /\ KeptInv => (opt.program \in Locks => TypeOK)
  BY LockContexts DEF LocksInv, Inv, KeptInv, Kept, TypeOK, Memories
<1> QED BY <1>1, <1>2, <1>3, <1>4, PTL DEF Spec

=============================================================================
