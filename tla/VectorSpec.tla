----------------------------- MODULE VectorSpec -----------------------------
(***************************************************************************)
(* What vector_add() of hw32-threads-bugs promises where it locks: the     *)
(* source is added to the destination, all elements at once.               *)
(***************************************************************************)
EXTENDS Integers

CONSTANTS
  Size,     \* VECTOR_SIZE
  Vectors,
  Start     \* the vectors that main() initializes

VARIABLE values

Init == values = Start

Add(dst, src) ==
  values' = [values EXCEPT ![dst] = [e \in 1..Size |-> @[e] + values[src][e]]]

Next == \E dst, src \in Vectors : dst # src /\ Add(dst, src)

Spec == Init /\ [][Next]_values

=============================================================================
