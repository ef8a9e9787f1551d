------------------------------ MODULE X86Locks ------------------------------
(***************************************************************************)
(* The programs of hw28-threads-locks/*.s, that protect a counter with a   *)
(* lock, and of hw26-threads-intro/*.s, that have none, as cpu.load() of   *)
(* x86.py loads them into the simulator: each thread loops bx times over   *)
(* the increment of a word, which three instructions do and an interrupt   *)
(* may split.                                                              *)
(*                                                                         *)
(* A source is the sequence of its lines.  Operands that name a variable   *)
(* or a label are resolved when the program is loaded.                     *)
(***************************************************************************)
EXTENDS X86, SequencesExt

Var(x) == [type |-> "variable", name |-> x]
Label(x) == [type |-> "label", name |-> x]

IsVar(line) == line[1] = ".var"
IsLabel(line) == line[1] = ".label"
IsCode(line) == ~IsVar(line) /\ ~IsLabel(line)

\* The lines before the one that declares x with a directive.
LinesBefore(lines, directive, x) ==
  SubSeq(lines, 1, (CHOOSE k \in 1 .. Len(lines) :
                      lines[k][1] = directive /\ lines[k][2] = x) - 1)

\* Variables lie one after the other from address 100; .var x n has n words.
Words(line) == IF Len(line) = 3 THEN line[3] ELSE 1
VarAddress(lines, x) ==
  100 + 4 * FoldLeft(LAMBDA sum, line : sum + Words(line), 0,
                     SelectSeq(LinesBefore(lines, ".var", x), IsVar))

\* A label is the address of the instruction that follows.
LabelAddress(lines, loadaddr, x) ==
  loadaddr + Len(SelectSeq(LinesBefore(lines, ".label", x), IsCode))

\* getarg() of a name; the other operands are written resolved.
Resolve(lines, loadaddr, arg) ==
  CASE arg.type = "variable" -> At(VarAddress(lines, arg.name))
    [] arg.type = "label"    -> Imm(LabelAddress(lines, loadaddr, arg.name))
    [] OTHER                 -> arg

\* The instructions by address.
Load(lines, loadaddr) ==
  LET instructions == SelectSeq(lines, IsCode)
      Resolved(i) == [n \in DOMAIN i |-> IF n = 1 THEN i[1] ELSE Resolve(lines, loadaddr, i[n])]
  IN  [pc \in loadaddr .. loadaddr + Len(instructions) - 1 |->
         Resolved(instructions[pc - loadaddr + 1])]

ax == Reg("ax")
bx == Reg("bx")
cx == Reg("cx")
sp == Reg("sp")
bp == Reg("bp")

\* The critical section of the programs.
Increment == <<
  <<"mov", Var("count"), ax>>,
  <<"add", Imm(1), ax>>,
  <<"mov", ax, Var("count")>> >>

\* The end of the programs that loop bx times.
LoopEnd == <<
  <<"sub", Imm(1), bx>>,
  <<"test", Imm(0), bx>>,
  <<"jgt", Label("top")>>,
  <<"halt">> >>

Flag == <<
  <<".var", "flag">>,
  <<".var", "count">>,
  <<".label", "top">>,
  <<".label", "acquire">>,
  <<"mov", Var("flag"), ax>>,
  <<"test", Imm(0), ax>>,
  <<"jne", Label("acquire")>>,
  <<"mov", Imm(1), Var("flag")>> >>
  \o Increment \o <<
  <<"mov", Imm(0), Var("flag")>> >>
  \o LoopEnd

TestAndSet == <<
  <<".var", "mutex">>,
  <<".var", "count">>,
  <<".label", "top">>,
  <<".label", "acquire">>,
  <<"mov", Imm(1), ax>>,
  <<"xchg", ax, Var("mutex")>>,
  <<"test", Imm(0), ax>>,
  <<"jne", Label("acquire")>> >>
  \o Increment \o <<
  <<"mov", Imm(0), Var("mutex")>> >>
  \o LoopEnd

TestAndTestAndSet == <<
  <<".var", "mutex">>,
  <<".var", "count">>,
  <<".label", "top">>,
  <<".label", "acquire">>,
  <<"mov", Var("mutex"), ax>>,
  <<"test", Imm(0), ax>>,
  <<"jne", Label("acquire")>>,
  <<"mov", Imm(1), ax>>,
  <<"xchg", ax, Var("mutex")>>,
  <<"test", Imm(0), ax>>,
  <<"jne", Label("acquire")>> >>
  \o Increment \o <<
  <<"mov", Imm(0), Var("mutex")>> >>
  \o LoopEnd

Yield == <<
  <<".var", "mutex">>,
  <<".var", "count">>,
  <<".label", "top">>,
  <<".label", "acquire">>,
  <<"mov", Imm(1), ax>>,
  <<"xchg", ax, Var("mutex")>>,
  <<"test", Imm(0), ax>>,
  <<"je", Label("acquire_done")>>,
  <<"yield">>,
  <<"j", Label("acquire")>>,
  <<".label", "acquire_done">> >>
  \o Increment \o <<
  <<"mov", Imm(0), Var("mutex")>> >>
  \o LoopEnd

Ticket == <<
  <<".var", "ticket">>,
  <<".var", "turn">>,
  <<".var", "count">>,
  <<".label", "top">>,
  <<".label", "acquire">>,
  <<"mov", Imm(1), ax>>,
  <<"fetchadd", ax, Var("ticket")>>,
  <<".label", "tryagain">>,
  <<"mov", Var("turn"), cx>>,
  <<"test", cx, ax>>,
  <<"jne", Label("tryagain")>> >>
  \o Increment \o <<
  <<"mov", Imm(1), ax>>,
  <<"fetchadd", ax, Var("turn")>> >>
  \o LoopEnd

\* bx is 0 in one thread and 1 in the other.
Peterson == <<
  <<".var", "flag", 2>>,
  <<".var", "turn">>,
  <<".var", "count">>,
  <<"lea", Var("flag"), Reg("fx")>>,
  <<"mov", bx, cx>>,
  <<"neg", cx>>,
  <<"add", Imm(1), cx>>,
  <<".label", "acquire">>,
  <<"mov", Imm(1), Mem(0, "fx", "bx", 4)>>,
  <<"mov", cx, Var("turn")>>,
  <<".label", "spin1">>,
  <<"mov", Mem(0, "fx", "cx", 4), ax>>,
  <<"test", Imm(1), ax>>,
  <<"jne", Label("fini")>>,
  <<"mov", Var("turn"), ax>>,
  <<"test", cx, ax>>,
  <<"je", Label("spin1")>>,
  <<".label", "fini">> >>
  \o Increment \o <<
  <<"mov", Imm(0), Mem(0, "fx", "bx", 4)>>,
  <<"mov", cx, Var("turn")>>,
  <<"halt">> >>

FlagCallRet == <<
  <<".var", "mutex">>,
  <<".var", "count">>,
  <<".label", "top">>,
  <<"mov", sp, bp>>,
  <<"lea", Var("mutex"), ax>>,
  <<"push", ax>>,
  <<"call", Label("lock")>>,
  <<"pop">> >>
  \o Increment \o <<
  <<"lea", Var("mutex"), ax>>,
  <<"push", ax>>,
  <<"call", Label("unlock")>>,
  <<"pop">> >>
  \o LoopEnd \o <<
  <<".label", "lock">>,
  <<".label", "acquire">>,
  <<"push", bp>>,
  <<"mov", sp, bp>>,
  <<"mov", Mem(8, "bp", "zero", 1), ax>>,
  <<"mov", Mem(0, "ax", "zero", 1), cx>>,
  <<"test", Imm(0), cx>>,
  <<"jne", Label("acquire")>>,
  <<"mov", Imm(1), Mem(0, "cx", "zero", 1)>>,
  <<"pop", bp>>,
  <<"ret">>,
  <<".label", "unlock">>,
  <<"mov", Mem(8, "bp", "zero", 1), ax>>,
  <<"mov", Imm(0), Mem(0, "ax", "zero", 1)>>,
  <<"ret">> >>

LoopingRaceCallRet == <<
  <<".var", "mutex">>,
  <<".var", "count">>,
  <<".label", "top">>,
  <<"push", Var("mutex")>>,
  <<"call", Label("lock")>>,
  <<"pop">> >>
  \o Increment \o <<
  <<"push", Var("mutex")>>,
  <<"call", Label("unlock")>>,
  <<"pop">> >>
  \o LoopEnd \o <<
  <<".label", "lock">>,
  <<".label", "acquire">>,
  <<"mov", Mem(-4, "sp", "zero", 1), ax>>,
  <<"mov", Imm(1), cx>>,
  <<"xchg", cx, Mem(0, "ax", "zero", 1)>>,
  <<"test", Imm(0), cx>>,
  <<"jne", Label("acquire")>>,
  <<"ret">>,
  <<".label", "unlock">>,
  <<"mov", Mem(-4, "sp", "zero", 1), ax>>,
  <<"mov", Imm(0), Mem(0, "ax", "zero", 1)>>,
  <<"ret">> >>

\* The programs without a lock.  They do not share anything, ...
Loop == <<
  <<".label", "top">>,
  <<"sub", Imm(1), Reg("dx")>>,
  <<"test", Imm(0), Reg("dx")>>,
  <<"jgte", Label("top")>>,
  <<"halt">> >>

IncrementAt(word) == <<
  <<"mov", word, ax>>,
  <<"add", Imm(1), ax>>,
  <<"mov", ax, word>> >>

\* ... increment a word in common, ...
LoopingRace == << <<".label", "top">> >> \o IncrementAt(At(2000)) \o LoopEnd
SimpleRace == IncrementAt(At(2000)) \o << <<"halt">> >>

\* ... or each the word that bx gives it, ...
SimpleRaceAt == IncrementAt(Mem(2000, "bx", "zero", 1)) \o << <<"halt">> >>

\* ... or one thread, with ax = 1, signals those that wait, with ax = 0.
WaitForMe == <<
  <<"test", Imm(1), ax>>,
  <<"je", Label("signaller")>>,
  <<".label", "waiter">>,
  <<"mov", At(2000), cx>>,
  <<"test", Imm(1), cx>>,
  <<"jne", Label("waiter")>>,
  <<"halt">>,
  <<".label", "signaller">>,
  <<"mov", Imm(1), At(2000)>>,
  <<"halt">> >>

Sources == [
  Loop |-> Loop, LoopingRace |-> LoopingRace, SimpleRace |-> SimpleRace,
  SimpleRaceAt |-> SimpleRaceAt, WaitForMe |-> WaitForMe,
  Flag |-> Flag, TestAndSet |-> TestAndSet, TestAndTestAndSet |-> TestAndTestAndSet,
  Yield |-> Yield, Ticket |-> Ticket, Peterson |-> Peterson,
  FlagCallRet |-> FlagCallRet, LoopingRaceCallRet |-> LoopingRaceCallRet]

-----------------------------------------------------------------------------
(* A program on the simulator.                                             *)

Source == Sources[opt.program]
Variable(x) == memory[VarAddress(Source, x)]

\* The locks that use an atomic instruction, or Peterson's algorithm.
\* looping-race-withlock-withcallret.s is one, although it does not find the
\* address of its mutex and locks memory[0] instead.
Locks == {"TestAndSet", "TestAndTestAndSet", "Yield", "Ticket", "Peterson",
          "LoopingRaceCallRet"}
Races == {"LoopingRace", "SimpleRace", "SimpleRaceAt"}
Declares(p, x) == \E k \in DOMAIN Sources[p] : Sources[p][k] = <<".var", x>>
MutexLocks == {p \in DOMAIN Sources : Declares(p, "mutex")}

\* The instructions of the critical section, from the load of count on.
CriticalPCs ==
  [p \in {q \in DOMAIN Programs : Declares(q, "count")} |->
     LET load == <<"mov", At(VarAddress(Sources[p], "count")), ax>>
         first == CHOOSE pc \in DOMAIN Programs[p] : Programs[p][pc] = load
     IN  first .. first + 2]

TicketWaitPCs ==
  LET first == LabelAddress(Ticket, LoadAddr, "tryagain") IN first .. first + 2
\* The critical section, and the release that follows it.
TicketHoldPCs ==
  LET first == LabelAddress(Ticket, LoadAddr, "tryagain") + 3 IN first .. first + 4

\* The instructions of program p from the nth on.
Loads(p, n, list) ==
  p \in DOMAIN Programs =>
    \A k \in 1 .. Len(list) : Programs[p][LoadAddr + n + k - 1] = list[k]

Addr(n) == Imm(LoadAddr + n)
CriticalFrom(p, n) ==
  p \in DOMAIN Programs => CriticalPCs[p] = LoadAddr + n .. LoadAddr + n + 2
LoopEndTo(top) == <<
  <<"sub", Imm(1), bx>>,
  <<"test", Imm(0), bx>>,
  <<"jgt", top>>,
  <<"halt">> >>
Acquire(opcode, dst) == << <<"mov", Imm(1), ax>>, <<opcode, ax, dst>> >>
CallWith(word, target) == << <<"push", word>>, <<"call", target>>, <<"pop">> >>

\* The operands of looping-race-withlock-withcallret.s and peterson.s.
Argument == Mem(-4, "sp", "zero", 1)
Pointed == Mem(0, "ax", "zero", 1)
OwnFlag == Mem(0, "fx", "bx", 4)
OtherFlag == Mem(0, "fx", "cx", 4)

\* What Load() makes of the locks: their variables lie at 100, 104, ..., their
\* labels are addresses, and the critical section begins at the increment.
ASSUME TestAndSetLoaded ==
  /\ Loads("TestAndSet", 0, Acquire("xchg", At(100)))
  /\ Loads("TestAndSet", 2, << <<"test", Imm(0), ax>>, <<"jne", Addr(0)>> >>)
  /\ Loads("TestAndSet", 4, IncrementAt(At(104)))
  /\ Loads("TestAndSet", 7, << <<"mov", Imm(0), At(100)>> >>)
  /\ Loads("TestAndSet", 8, LoopEndTo(Addr(0)))
  /\ CriticalFrom("TestAndSet", 4)
  /\ VarAddress(TestAndSet, "count") = 104

ASSUME TestAndTestAndSetLoaded ==
  /\ Loads("TestAndTestAndSet", 0, << <<"mov", At(100), ax>> >>)
  /\ Loads("TestAndTestAndSet", 1, << <<"test", Imm(0), ax>>, <<"jne", Addr(0)>> >>)
  /\ Loads("TestAndTestAndSet", 3, Acquire("xchg", At(100)))
  /\ Loads("TestAndTestAndSet", 5, << <<"test", Imm(0), ax>>, <<"jne", Addr(0)>> >>)
  /\ Loads("TestAndTestAndSet", 7, IncrementAt(At(104)))
  /\ Loads("TestAndTestAndSet", 10, << <<"mov", Imm(0), At(100)>> >>)
  /\ Loads("TestAndTestAndSet", 11, LoopEndTo(Addr(0)))
  /\ CriticalFrom("TestAndTestAndSet", 7)
  /\ VarAddress(TestAndTestAndSet, "count") = 104

ASSUME YieldLoaded ==
  /\ Loads("Yield", 0, Acquire("xchg", At(100)))
  /\ Loads("Yield", 2, << <<"test", Imm(0), ax>>, <<"je", Addr(6)>> >>)
  /\ Loads("Yield", 4, << <<"yield">>, <<"j", Addr(0)>> >>)
  /\ Loads("Yield", 6, IncrementAt(At(104)))
  /\ Loads("Yield", 9, << <<"mov", Imm(0), At(100)>> >>)
  /\ Loads("Yield", 10, LoopEndTo(Addr(0)))
  /\ CriticalFrom("Yield", 6)
  /\ VarAddress(Yield, "count") = 104

ASSUME TicketLoaded ==
  /\ Loads("Ticket", 0, Acquire("fetchadd", At(100)))
  /\ Loads("Ticket", 2, << <<"mov", At(104), cx>>, <<"test", cx, ax>>, <<"jne", Addr(2)>> >>)
  /\ Loads("Ticket", 5, IncrementAt(At(108)))
  /\ Loads("Ticket", 8, Acquire("fetchadd", At(104)))
  /\ Loads("Ticket", 10, LoopEndTo(Addr(0)))
  /\ CriticalFrom("Ticket", 5)
  /\ LabelAddress(Ticket, LoadAddr, "tryagain") = LoadAddr + 2
  /\ VarAddress(Ticket, "ticket") = 100 /\ VarAddress(Ticket, "turn") = 104
  /\ VarAddress(Ticket, "count") = 108

ASSUME PetersonLoaded ==
  /\ Loads("Peterson", 0, << <<"lea", At(100), Reg("fx")>>, <<"mov", bx, cx>>,
                             <<"neg", cx>>, <<"add", Imm(1), cx>> >>)
  /\ Loads("Peterson", 4, << <<"mov", Imm(1), OwnFlag>>, <<"mov", cx, At(108)>> >>)
  /\ Loads("Peterson", 6, << <<"mov", OtherFlag, ax>>, <<"test", Imm(1), ax>>,
                             <<"jne", Addr(12)>> >>)
  /\ Loads("Peterson", 9, << <<"mov", At(108), ax>>, <<"test", cx, ax>>, <<"je", Addr(6)>> >>)
  /\ Loads("Peterson", 12, IncrementAt(At(112)))
  /\ Loads("Peterson", 15, << <<"mov", Imm(0), OwnFlag>>, <<"mov", cx, At(108)>>, <<"halt">> >>)
  /\ CriticalFrom("Peterson", 12)
  /\ VarAddress(Peterson, "count") = 112

ASSUME LoopingRaceCallRetLoaded ==
  /\ Loads("LoopingRaceCallRet", 0, CallWith(At(100), Addr(13)))
  /\ Loads("LoopingRaceCallRet", 3, IncrementAt(At(104)))
  /\ Loads("LoopingRaceCallRet", 6, CallWith(At(100), Addr(19)))
  /\ Loads("LoopingRaceCallRet", 9, LoopEndTo(Addr(0)))
  /\ Loads("LoopingRaceCallRet", 13, << <<"mov", Argument, ax>>, <<"mov", Imm(1), cx>>,
                                        <<"xchg", cx, Pointed>> >>)
  /\ Loads("LoopingRaceCallRet", 16, << <<"test", Imm(0), cx>>, <<"jne", Addr(13)>>, <<"ret">> >>)
  /\ Loads("LoopingRaceCallRet", 19, << <<"mov", Argument, ax>>, <<"mov", Imm(0), Pointed>>,
                                        <<"ret">> >>)
  /\ CriticalFrom("LoopingRaceCallRet", 3)
  /\ VarAddress(LoopingRaceCallRet, "count") = 104

\* A command line leaves the hidden register zero alone, and for peterson.s
\* gives each thread its ID in bx, 0 or 1; Addresses has the words that the
\* locks use, those on the stacks included.
ASSUME LocksAssumption ==
  /\ {100, 104, 108, 112} \subseteq Addresses
  /\ \A o \in Options : \A t \in 0 .. o.numthreads - 1 :
       /\ o.argv[t]["zero"] = 0
       /\ o.program = "Peterson" =>
            /\ o.argv[t]["bx"] \in {0, 1}
            /\ \A u \in 0 .. o.numthreads - 1 : o.argv[t]["bx"] = o.argv[u]["bx"] => t = u
       /\ o.program = "LoopingRaceCallRet" =>
            {0} \cup {StackBottom(t) - n : n \in {4, 8, 12}} \subseteq Addresses

At_(t, pcs) == t \notin done /\ ThreadContexts[t].pc \in pcs
InCritical(t) == At_(t, CriticalPCs[opt.program])

Alone == \A t, u \in Threads : InCritical(t) /\ InCritical(u) => t = u

\* Every thread that took a ticket waits for its own turn or has it: turns are
\* given in the order of the tickets, none is skipped and none given twice.
TicketsInOrder ==
  opt.program = "Ticket" =>
    LET waiting == {t \in Threads : At_(t, TicketWaitPCs)}
        holding == {t \in Threads : At_(t, TicketHoldPCs)}
        ticket(t) == ThreadContexts[t].regs["ax"]
    IN  /\ \A t \in waiting :
             /\ ticket(t) \in Variable("turn") .. Variable("ticket") - 1
             /\ holding # {} => ticket(t) # Variable("turn")
        /\ \A t, u \in waiting : ticket(t) = ticket(u) => t = u
        /\ Cardinality(waiting \cup holding) = Variable("ticket") - Variable("turn")

\* Two threads are never both in the critical section, wherever interrupts
\* fall (flag.s tests and sets its flag in two instructions, and fails), and
\* under the ticket lock they come to it in the order of their tickets.
MutualExclusion == (opt.program \in Locks => Alone) /\ TicketsInOrder

\* xchg sets the mutex with the test that finds it free, and only the thread
\* that did clears it.
MutexHeld ==
  opt.program \in MutexLocks =>
    \A t \in Threads : InCritical(t) => Variable("mutex") = 1

\* The word that thread t increments, and how often; only some programs loop.
Word(t) ==
  CASE opt.program = "SimpleRaceAt" -> 2000 + opt.argv[t]["bx"]
    [] opt.program \in Races       -> 2000
    [] OTHER                       -> VarAddress(Source, "count")
Loops(t) ==
  IF opt.program \in {"Peterson", "SimpleRace", "SimpleRaceAt"} \/ opt.argv[t]["bx"] < 1
  THEN 1 ELSE opt.argv[t]["bx"]

\* The time slices that the answers call correct for programs that race:
\* for flag.s "e.g. multiples of 11" (hw28 answers.md, Q4), for two threads of
\* looping-race-nolock.s "multiples of 3" (hw26 answers.md, Q8), where "the
\* critical section of each thread is executed in one go".
LuckySlices ==
  /\ ~opt.intrand /\ ~IsManual
  /\ \/ opt.program = "Flag" /\ opt.intfreq % 11 = 0
     \/ opt.program = "LoopingRace" /\ opt.intfreq % 3 = 0 /\ opt.numthreads = 2

\* No increment is lost with a lock, or with such time slices, or by a thread
\* that has its word for itself.  Wherever interrupts fall without a lock, no
\* increment is counted twice, and two remain when every thread does two: the
\* last store adds 1 to what was read after an earlier store of that thread.
CountExact ==
  ~Running /\ opt.program \in Locks \cup Races \cup {"Flag"} =>
    \A a \in {Word(t) : t \in Threads} :
      LET users == {t \in Threads : Word(t) = a}
          increments == FoldSet(LAMBDA t, sum : sum + Loops(t), 0, users)
      IN  /\ memory[a] \in 1 .. increments
          /\ opt.program \in Locks \/ LuckySlices \/ Cardinality(users) = 1 =>
               memory[a] = increments
          /\ (\A t \in users : Loops(t) >= 2) => memory[a] >= 2

\* Spinning ends: a thread that waits gets the lock, or the signal that
\* wait-for-me.s sends with a store, and run() returns.
RunReturns == <>~Running

=============================================================================
