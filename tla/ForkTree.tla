------------------------------ MODULE ForkTree ------------------------------
(***************************************************************************)
(* hw05-cpu-api/fork.py: processes fork and exit.  A list of random        *)
(* actions is made first, with a list of processes of its own, then the    *)
(* actions are done on the tree.  Processes are numbered in order of       *)
(* creation, the root is 0.                                                *)
(***************************************************************************)
EXTENDS Integers, Sequences, SequencesExt, FiniteSetsExt, Functions

CONSTANT Inputs   \* the options

VARIABLES
  input,    \* max_actions, leaf_only, local_reparent
  self,     \* the two lists, the tree and the actions left
  phase     \* "generate", "act", "end" or "error" (bad_action())

vars == <<input, self, phase>>

Root == 0

Fork(p, c) == [op |-> "+", process |-> p, child |-> c]
Exit(p) == [op |-> "-", process |-> p, child |-> Root]

Init ==
  /\ input \in Inputs
  /\ self = [action_list |-> <<>>,
             temp_process_list |-> {Root},
             names |-> 1,                    \* used
             process_list |-> {Root},
             children |-> (Root :> <<>>),
             parents |-> <<>>]
  /\ phase = "generate"

-----------------------------------------------------------------------------
(* The list of actions.                                                    *)

Generating == phase = "generate" /\ Len(self.action_list) < input.max_actions

GenerateFork ==
  /\ Generating
  /\ \E p \in self.temp_process_list :
       self' = [self EXCEPT !.action_list = Append(@, Fork(p, self.names)),
                            !.temp_process_list = @ \cup {self.names},
                            !.names = @ + 1]
  /\ UNCHANGED <<input, phase>>

\* Another process is chosen when it is the root.
GenerateExit ==
  /\ Generating
  /\ \E p \in self.temp_process_list \ {Root} :
       self' = [self EXCEPT !.action_list = Append(@, Exit(p)),
                            !.temp_process_list = @ \ {p}]
  /\ UNCHANGED <<input, phase>>

Generated ==
  /\ phase = "generate" /\ Len(self.action_list) = input.max_actions
  /\ phase' = "act"
  /\ UNCHANGED <<input, self>>

-----------------------------------------------------------------------------
(* The tree.                                                               *)

DoFork(p, c) ==
  [self EXCEPT !.process_list = @ \cup {c},
               !.children = [(c :> <<>>) @@ @ EXCEPT ![p] = Append(@, c)],
               !.parents = (c :> p) @@ @]

\* collect_children() without the process itself.
Descendants(p) ==
  LET collect[q \in DOMAIN self.children] ==
        <<q>> \o FlattenSeq([k \in DOMAIN self.children[q] |-> collect[self.children[q][k]]])
  IN Tail(collect[p])

Without(seq, p) == SelectSeq(seq, LAMBDA q : q # p)

\* The tree once p has gone, and orphans have come to parent; those in
\* childless lose their children.
Reparented(p, parent, orphans, childless) ==
  LET old == self.parents[p]
      extended == [self.children EXCEPT ![parent] = @ \o orphans]
  IN [self EXCEPT
        !.process_list = @ \ {p},
        !.children = [q \in DOMAIN @ \ {p} |->
                        IF q \in childless THEN <<>>
                        ELSE IF q = old THEN Without(extended[q], p)
                        ELSE extended[q]],
        !.parents = [q \in DOMAIN @ \ {p} |-> IF Contains(orphans, q) THEN parent ELSE @[q]]]

\* The children of p go to its parent, or all its descendants to the root.
DoExit(p) ==
  IF input.local_reparent
  THEN Reparented(p, self.parents[p], self.children[p], {})
  ELSE Reparented(p, Root, Descendants(p), ToSet(Descendants(p)))

Failed(p) == input.leaf_only /\ self.children[p] # <<>>

Act ==
  /\ phase = "act" /\ self.action_list # <<>>
  /\ LET a == Head(self.action_list)
     IN IF a.process \notin self.process_list THEN phase' = "error" /\ self' = self
        ELSE /\ phase' = phase
             /\ \E tree \in {IF a.op = "+" THEN DoFork(a.process, a.child)
                             ELSE IF Failed(a.process) THEN self
                             ELSE DoExit(a.process)} :
                  self' = [tree EXCEPT !.action_list = Tail(@)]
  /\ UNCHANGED input

Acted ==
  /\ phase = "act" /\ self.action_list = <<>>
  /\ phase' = "end"
  /\ UNCHANGED <<input, self>>

Step == GenerateFork \/ GenerateExit \/ Generated \/ Act \/ Acted

Ended == phase \in {"end", "error"} /\ UNCHANGED vars

Next == Step \/ Ended

Spec == Init /\ [][Next]_vars

-----------------------------------------------------------------------------
(* Properties.                                                             *)

Ancestors(s, p) ==
  LET above[q \in s.process_list] ==
        IF q = Root THEN {} ELSE {s.parents[q]} \cup above[s.parents[q]]
  IN above[p]

\* The lists of children and the parents are the same tree, whose processes
\* are those that have not exited; actions are legal whatever was generated.
TypeOK ==
  /\ phase # "error"
  /\ DOMAIN self.children = self.process_list
  /\ DOMAIN self.parents = self.process_list \ {Root}
  /\ \A p \in self.process_list :
       /\ IsInjective(self.children[p])
       /\ ToSet(self.children[p]) = {q \in DOMAIN self.parents : self.parents[q] = p}
  /\ phase = "end" /\ ~input.leaf_only => self.process_list = self.temp_process_list

\* When a process exits, its descendants lose it as an ancestor and nothing
\* else, or they all become children of the root; for all others the tree
\* stays as it is (fork.py:172-199).
ExitKeepsTree ==
  \A p \in self.process_list \ self'.process_list :
    \A q \in self'.process_list :
      Ancestors(self', q) =
        IF ~input.local_reparent /\ p \in Ancestors(self, q) THEN {Root}
        ELSE Ancestors(self, q) \ {p}

=============================================================================
