------------------------------ MODULE ListSpec ------------------------------
(***************************************************************************)
(* What the lists of hw29-threads-locks-usage/src promise the threads that *)
(* share one: insert() adds a key at once, search() answers at one moment  *)
(* whether a key is there.                                                 *)
(***************************************************************************)
EXTENDS Integers

CONSTANTS Threads, Keys

VARIABLES
  keys,    \* the keys in the list
  size,    \* the number of insertions
  answer   \* what search() has found and not yet returned, by thread

vars == <<keys, size, answer>>

NoAnswer == "none"

Init ==
  /\ keys = {}
  /\ size = 0
  /\ answer = [t \in Threads |-> NoAnswer]

Insert(t) ==
  /\ answer[t] = NoAnswer
  /\ \E k \in Keys : keys' = keys \cup {k}
  /\ size' = size + 1
  /\ UNCHANGED answer

Search(t) ==
  /\ answer[t] = NoAnswer
  /\ \E k \in Keys :
       answer' = [answer EXCEPT ![t] = IF k \in keys THEN "found" ELSE "missing"]
  /\ UNCHANGED <<keys, size>>

Return(t) ==
  /\ answer[t] # NoAnswer
  /\ answer' = [answer EXCEPT ![t] = NoAnswer]
  /\ UNCHANGED <<keys, size>>

Next == \E t \in Threads : Insert(t) \/ Search(t) \/ Return(t)

Spec == Init /\ [][Next]_vars

=============================================================================
