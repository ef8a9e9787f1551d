----------------------------- MODULE X86Threads -----------------------------
(***************************************************************************)
(* What hw28-threads-locks/x86.py promises the programs it runs: threads   *)
(* that share the memory and nothing else, each with its own registers and *)
(* condition codes, that take turns after whole instructions.              *)
(***************************************************************************)
CONSTANTS
  Programs,            \* Programs[name]: the instructions of a program, by address
  Opcode(_),           \* the opcode of an instruction
  Execution(_, _, _),  \* the machine after an instruction: see X86ISA
  Context(_),          \* the part of a machine that belongs to a thread
  Halted               \* that part of a thread that has halted

VARIABLES
  program, \* the name of the one that runs
  ctx,     \* ctx[t]: the pc, the registers and the condition codes of t
  memory,
  done     \* the threads that have halted

vars == <<program, ctx, memory, done>>

Code == Programs[program]
Threads == DOMAIN ctx

Init ==
  /\ \A t \in Threads : ctx[t].cc = {}
  /\ \A t, u \in Threads : ctx[t].pc = ctx[u].pc
  /\ \A a \in DOMAIN memory : memory[a] = 0
  /\ done = {}

Execute(t) ==
  /\ t \in Threads \ done
  /\ Opcode(Code[ctx[t].pc]) # "halt"
  /\ \E s \in {Execution(Code, ctx[t], memory)} :
       ctx' = [ctx EXCEPT ![t] = Context(s)] /\ memory' = s.memory
  /\ UNCHANGED <<program, done>>

Halt(t) ==
  /\ t \in Threads \ done
  /\ Opcode(Code[ctx[t].pc]) = "halt"
  /\ done' = done \cup {t}
  /\ ctx' = [ctx EXCEPT ![t] = Halted]
  /\ UNCHANGED <<program, memory>>

Step(t) == Execute(t) \/ Halt(t)

Next == \E t \in Threads : Step(t)

Spec == Init /\ [][Next]_vars

=============================================================================
