------------------------------- MODULE X86ISA -------------------------------
(***************************************************************************)
(* The instructions of the simulated CPU of hw28-threads-locks/x86.py.     *)
(*                                                                         *)
(* An instruction is a tuple <<opcode, operand>> or <<opcode, src, dst>>,  *)
(* as the loader leaves it: variables and labels are addresses.  The       *)
(* machine state s that it changes is [pc, regs, cc, memory]; integers are *)
(* Python's and do not overflow.                                           *)
(***************************************************************************)
EXTENDS Integers, Sequences

Registers == {"zero", "ax", "bx", "cx", "dx", "ex", "fx", "sp", "bp"}

ZeroRegisters == [r \in Registers |-> 0]

\* The operands: a value, a register, or the address
\* value + reg1 + scale * reg2.
Imm(v) == [type |-> "immediate", value |-> v]
Reg(r) == [type |-> "register", reg |-> r]
Mem(v, r1, r2, scale) ==
  [type |-> "memory", value |-> v, reg1 |-> r1, reg2 |-> r2, scale |-> scale]
At(v) == Mem(v, "zero", "zero", 1)

Address(s, m) == m.value + s.regs[m.reg1] + m.scale * s.regs[m.reg2]

\* The atomic instructions do not scale.
AtomicAddress(s, m) == m.value + s.regs[m.reg1] + s.regs[m.reg2]

Read(s, arg) ==
  CASE arg.type = "immediate" -> arg.value
    [] arg.type = "register"  -> s.regs[arg.reg]
    [] arg.type = "memory"    -> s.memory[Address(s, arg)]

SetReg(s, r, v) == [s EXCEPT !.regs[r] = v]
Store(s, a, v) == [s EXCEPT !.memory[a] = v]

Write(s, arg, v) ==
  IF arg.type = "register" THEN SetReg(s, arg.reg, v) ELSE Store(s, Address(s, arg), v)

Arith(op, dst, src) ==
  CASE op = "add" -> dst + src
    [] op = "sub" -> dst - src
    [] op = "mul" -> dst * src

\* test_all: the conditions that are true; test a, b compares b with a.
Conditions(src, dst) ==
  {c \in {"gt", "gte", "lt", "lte", "eq", "neq"} :
     CASE c = "gt"  -> dst > src
       [] c = "gte" -> dst >= src
       [] c = "lt"  -> dst < src
       [] c = "lte" -> dst <= src
       [] c = "eq"  -> dst = src
       [] c = "neq" -> dst # src}

ConditionOf ==
  [jne |-> "neq", je |-> "eq", jlt |-> "lt", jlte |-> "lte", jgt |-> "gt", jgte |-> "gte"]

Jumps(s, op) == op = "j" \/ (op \in DOMAIN ConditionOf /\ ConditionOf[op] \in s.cc)
Jump(s, target) == [s EXCEPT !.pc = target]

\* Mutant of Exchange: the register gets the word before it is stored.
ExchangeInOrder(s, src, dst) ==
  LET a == AtomicAddress(s, dst)
      r == SetReg(s, src.reg, s.memory[a])
  IN  Store(r, a, r.regs[src.reg])

\* The register and the memory word in one instruction: the register gets the
\* old word.
Exchange(s, src, dst) ==
  LET a == AtomicAddress(s, dst)
  IN  SetReg(Store(s, a, s.regs[src.reg]), src.reg, s.memory[a])

FetchAdd(s, src, dst) ==
  LET a == AtomicAddress(s, dst)
  IN  SetReg(Store(s, a, s.memory[a] + s.regs[src.reg]), src.reg, s.memory[a])

\* The stack grows down; sp moves before the operand is evaluated.
Grow(s) == SetReg(s, "sp", s.regs["sp"] - 4)
Shrink(s) == SetReg(s, "sp", s.regs["sp"] + 4)
StackTop(s) == s.memory[s.regs["sp"]]

\* push of a memory operand pushes its address.
Push(s, arg) ==
  LET g == Grow(s)
  IN  Store(g, g.regs["sp"], IF arg.type = "register" THEN Read(g, arg) ELSE Address(g, arg))

Call(s, target) ==
  LET g == Grow(s) IN Jump(Store(g, g.regs["sp"], s.pc), target)

Return(s) == Shrink(Jump(s, StackTop(s)))

PopTo(s, arg) == Shrink(SetReg(s, arg.reg, StackTop(s)))

\* What eval(instruction) does to a machine whose pc is already the next one.
Eval(i, s) ==
  LET op == i[1]
  IN CASE op = "mov"                  -> Write(s, i[3], Read(s, i[2]))
       [] op = "lea"                  -> SetReg(s, i[3].reg, Address(s, i[2]))
       [] op \in {"add", "sub", "mul"} -> Write(s, i[3], Arith(op, Read(s, i[3]), Read(s, i[2])))
       [] op = "neg"                  -> Write(s, i[2], -Read(s, i[2]))
       [] op = "xchg"                 -> Exchange(s, i[2], i[3])
       [] op = "fetchadd"             -> FetchAdd(s, i[2], i[3])
       [] op = "test"                 -> [s EXCEPT !.cc = Conditions(Read(s, i[2]), Read(s, i[3]))]
       [] Jumps(s, op)                -> Jump(s, i[2].value)
       [] op = "call"                 -> Call(s, i[2].value)
       [] op = "ret"                  -> Return(s)
       [] op = "push"                 -> Push(s, i[2])
       [] op = "pop"                  -> IF Len(i) = 1 THEN Shrink(s) ELSE PopTo(s, i[2])
       [] OTHER                       -> s

Opcode(i) == i[1]

\* The registers, condition codes and memory c and m after the instruction at
\* c.pc: self.PC is incremented before eval.
Execution(code, c, m) ==
  Eval(code[c.pc], [pc |-> c.pc + 1, regs |-> c.regs, cc |-> c.cc, memory |-> m])

\* Nobody looks at the registers of a thread that has halted.
Halted == [pc |-> 0, regs |-> ZeroRegisters, cc |-> {}]

\* The part of a machine state that belongs to a thread.
Context(s) == [pc |-> s.pc, regs |-> s.regs, cc |-> s.cc]

=============================================================================
