----------------------------- MODULE Generator -----------------------------
(***************************************************************************)
(* hw05-cpu-api/generator.py: draws or parses a list of forks, waits and   *)
(* exits, writes a C program of it and runs that program.  A fork opens a  *)
(* block that the child executes up to its exit; the parent goes on behind *)
(* it.  The sleep at the start of a block is a step that may take place at *)
(* any time.                                                               *)
(***************************************************************************)
EXTENDS Integers, Sequences, FiniteSets, SequencesExt, FiniteSetsExt

CONSTANT Inputs

VARIABLES
  input,    \* the command line: mode, num_actions, names
  self,     \* the generator, then the code generator, then the processes
  phase     \* "generate" or "parse", "clean", "write", "run"; "end", "exit",
            \* "crashed"

vars == <<input, self, phase>>

Action(op, name) == [op |-> op, name |-> name]

Root == 0    \* process a, and its name

Init ==
  /\ input \in Inputs
  /\ phase = input.mode
  /\ self = [actions |-> <<>>, need_wait |-> <<0>>, n |-> 0]

-----------------------------------------------------------------------------
(* The list of actions: ProgramGenerator and Parser.  need_wait (wait_count *)
(* of the parser) holds the forks that are not waited for, for each level   *)
(* of nesting.                                                              *)

Level == Len(self.need_wait)
Needed == self.need_wait[Level]

Forked(name) ==
  [actions |-> Append(self.actions, Action("fork", name)),
   need_wait |-> Append([self.need_wait EXCEPT ![Level] = @ + 1], 0),
   n |-> self.n + 1]

Waited ==
  [self EXCEPT !.actions = Append(@, Action("wait", Root)),
               !.need_wait[Level] = @ - 1,
               !.n = @ + 1]

\* What is needed to end a level: its waits and, but for the first, its exit.
CleanedUp ==
  LET waits == [k \in 1 .. Needed |-> Action("wait", Root)]
      exit == IF Level > 1 THEN <<Action("exit", Root)>> ELSE <<>>
  IN  [actions |-> self.actions \o waits \o exit,
       need_wait |-> Front(self.need_wait),
       n |-> self.n + Needed + 1]

NextName == 1 + Len(SelectSeq(self.actions, LAMBDA a : a.op = "fork"))

Generating == phase = "generate" /\ self.n < input.num_actions

AddForkBegin ==
  /\ Generating
  /\ self' = Forked(NextName)
  /\ UNCHANGED <<input, phase>>

AddWait ==
  /\ Generating /\ Needed > 0
  /\ self' = Waited
  /\ UNCHANGED <<input, phase>>

AddExit ==
  /\ Generating /\ Level > 1
  /\ self' = CleanedUp
  /\ UNCHANGED <<input, phase>>

Generated ==
  /\ phase = "generate" /\ self.n >= input.num_actions
  /\ phase' = "clean"
  /\ UNCHANGED <<input, self>>

CleanUp ==
  /\ phase = "clean" /\ Level > 0
  /\ self' = CleanedUp
  /\ UNCHANGED <<input, phase>>

Parsing == phase = "parse" /\ Len(self.actions) < input.num_actions

ParseFork ==
  /\ Parsing
  /\ \E name \in input.names : self' = Forked(name)
  /\ UNCHANGED <<input, phase>>

\* A wait is only counted: it may come before the fork that it is for.
ParseWait ==
  /\ Parsing
  /\ self' = Waited
  /\ UNCHANGED <<input, phase>>

ParseBrace ==
  /\ Parsing
  /\ IF Level = 1 \/ Needed # 0
     THEN phase' = "exit" /\ UNCHANGED self
     ELSE /\ self' = [self EXCEPT !.actions = Append(@, Action("exit", Root)),
                                  !.need_wait = Front(@)]
          /\ UNCHANGED phase
  /\ UNCHANGED input

\* The generator has closed all levels, the parser looks whether the user did.
Written(actions) ==
  [actions |-> actions, at |-> 1, curr_thread |-> Root, parent_list |-> <<>>,
   waiting_for |-> [name \in input.names \cup (0 .. Len(actions)) |-> <<>>]]

GenerateCode ==
  /\ phase = "clean" /\ Level = 0
  /\ phase' = "write" /\ self' = Written(self.actions)
  /\ UNCHANGED input

Parsed ==
  /\ phase = "parse"
  /\ IF self.need_wait[1] # 0 \/ Level > 1
     THEN phase' = "exit" /\ UNCHANGED self
     ELSE phase' = "write" /\ self' = Written(self.actions)
  /\ UNCHANGED input

-----------------------------------------------------------------------------
(* The C program: CodeGeneratorRunnable knows the processes by name.       *)

Act == self.actions[self.at]
Curr == self.curr_thread

Writing(op) == phase = "write" /\ self.at <= Len(self.actions) /\ Act.op = op

\* The child is added to those its parent waits for, then it has none itself.
WriteFork ==
  /\ Writing("fork")
  /\ self' = [self EXCEPT
       !.at = @ + 1,
       !.parent_list = Append(@, Curr),
       !.waiting_for = [[@ EXCEPT ![Curr] = Append(@, Act.name)] EXCEPT ![Act.name] = <<>>],
       !.curr_thread = Act.name]
  /\ UNCHANGED <<input, phase>>

\* pop(0) of an empty list raises an exception.
WriteWait ==
  /\ Writing("wait")
  /\ IF self.waiting_for[Curr] = <<>>
     THEN phase' = "crashed" /\ UNCHANGED self
     ELSE /\ self' = [self EXCEPT !.at = @ + 1, !.waiting_for[Curr] = Tail(@)]
          /\ UNCHANGED phase
  /\ UNCHANGED input

WriteExit ==
  /\ Writing("exit")
  /\ IF self.waiting_for[Curr] # <<>>
     THEN phase' = "exit" /\ UNCHANGED self
     ELSE /\ self' = [self EXCEPT !.at = @ + 1,
                                  !.curr_thread = Last(self.parent_list),
                                  !.parent_list = Front(@)]
          /\ UNCHANGED phase
  /\ UNCHANGED input

-----------------------------------------------------------------------------
(* The program runs.  A process is known by the fork it comes from, a to   *)
(* be 0; head is the list of pid_maps of each, that Record() extends and   *)
(* fork() copies.                                                          *)

Process(at, parent, head) ==
  [at |-> at, parent |-> parent, head |-> head, state |-> "alive"]

\* It is compiled and started.
Execute ==
  /\ phase = "write" /\ self.at > Len(self.actions)
  /\ phase' = "run"
  /\ self' = [actions |-> self.actions, processes |-> (Root :> Process(1, -1, {}))]
  /\ UNCHANGED input

Actions == self.actions
Processes == self.processes
Ids == DOMAIN Processes

\* The number of an operation in a part of the list, and the exit of a block.
Times(op, from, to) == Cardinality({k \in from .. to : Actions[k].op = op})

ExitOf(fork) ==
  Min({k \in (fork + 1) .. Len(Actions) :
         Times("exit", fork + 1, k) > Times("fork", fork + 1, k)})

Children(p) == {c \in Ids : Processes[c].parent = p /\ Processes[c].state # "gone"}

Does(p, op) ==
  /\ phase = "run" /\ Processes[p].state = "alive"
  /\ Processes[p].at <= Len(Actions) /\ Actions[Processes[p].at].op = op

\* Fork(), fork_or_die(), and Record() in the parent when it has passed over
\* the block of the child.
DoFork(p) ==
  LET this == Processes[p]
      c == this.at
  IN  /\ Does(p, "fork")
      /\ self' = [self EXCEPT !.processes =
           (c :> Process(c + 1, p, this.head)) @@
           [@ EXCEPT ![p].at = ExitOf(c) + 1, ![p].head = @ \cup {c}]]
      /\ UNCHANGED <<input, phase>>

\* Wait(): asserts that there is a child, and that its pid was recorded.
DoWait(p) ==
  /\ Does(p, "wait")
  /\ IF Children(p) = {}
     THEN self' = [self EXCEPT !.processes[p].state = "aborted"]
     ELSE \E c \in Children(p) :
            /\ Processes[c].state # "alive"
            /\ self' = [self EXCEPT
                 !.processes[c].state = "gone",
                 !.processes[p].state = IF c \in Processes[p].head THEN @ ELSE "aborted",
                 !.processes[p].at = @ + 1]
  /\ UNCHANGED <<input, phase>>

\* End(): the children that are left become those of init.
DoExit(p) ==
  /\ Does(p, "exit")
  /\ self' = [self EXCEPT !.processes =
       [c \in Ids |->
          IF c = p THEN [Processes[p] EXCEPT !.state = "exited"]
          ELSE IF c \in Children(p) THEN [Processes[c] EXCEPT !.parent = -1]
          ELSE Processes[c]]]
  /\ UNCHANGED <<input, phase>>

\* main() returns.
Return ==
  /\ phase = "run" /\ Processes[Root].at > Len(Actions)
  /\ phase' = "end"
  /\ UNCHANGED <<input, self>>

Run(p) == DoFork(p) \/ DoWait(p) \/ DoExit(p)

Step ==
  \/ AddForkBegin \/ AddWait \/ AddExit \/ Generated \/ CleanUp \/ GenerateCode
  \/ ParseFork \/ ParseWait \/ ParseBrace \/ Parsed
  \/ WriteFork \/ WriteWait \/ WriteExit \/ Execute
  \/ (phase = "run" /\ \E p \in Ids : Run(p)) \/ Return

Ended == phase \in {"end", "exit", "crashed"} /\ UNCHANGED vars

Next == Step \/ Ended

Spec == Init /\ [][Next]_vars

-----------------------------------------------------------------------------
(* Properties.                                                             *)

\* What a process itself executes: not the blocks of its children.
Owner(k) ==
  LET around == {f \in 1 .. (k - 1) : Actions[f].op = "fork" /\ ExitOf(f) >= k}
  IN  Max(around \cup {Root})

Ahead(p, op) ==
  Cardinality({k \in Processes[p].at .. Len(Actions) :
                 Owner(k) = p /\ Actions[k].op = op})

\* As many children as it has and will have, as many waits are ahead of a
\* process; the random lists are always accepted.
Balanced ==
  /\ phase = "run" => \A p \in Ids : Processes[p].state = "alive" =>
       Cardinality(Children(p)) + Ahead(p, "fork") = Ahead(p, "wait")
  /\ phase \in {"exit", "crashed"} => input.mode = "parse"

Own(op, p, upto) ==
  Cardinality({k \in 1 .. upto : Owner(k) = p /\ Actions[k].op = op})

\* What the parser accepts can be written, but for waits that come before the
\* forks they count for, and names that are used twice.
WrittenIfOrdered ==
  phase = "crashed" =>
    \/ \E k \in 1 .. Len(Actions) : Own("wait", Owner(k), k) > Own("fork", Owner(k), k)
    \/ \E k, l \in 1 .. Len(Actions) :
         k < l /\ Actions[k].op = "fork" /\ Actions[k] = Actions[l]

\* No assert() of the program fails, and when main() returns it has waited for
\* all processes, they for theirs.
AllWaitedFor ==
  phase \in {"run", "end"} =>
    \A p \in Ids : /\ Processes[p].state # "aborted"
                   /\ phase = "end" /\ p # Root => Processes[p].state = "gone"

\* A process that exits leaves no children behind.
ExitsChildless ==
  phase = "run" =>
    \A p \in Ids :
      Processes[p].state = "alive" /\ (Processes[p].state)' = "exited" => Children(p) = {}

=============================================================================
