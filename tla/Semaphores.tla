---------------------------- MODULE Semaphores ----------------------------
(***************************************************************************)
(* std::counting_semaphore<1> and std::binary_semaphore of <semaphore>, as *)
(* the programs of hw31-threads-sema use them.  A semaphore is a variable  *)
(* that holds its counter.                                                 *)
(*                                                                         *)
(* The library gives no order among blocked threads: whichever thread      *)
(* finds the counter positive takes it.  release() does not test the       *)
(* maximum: raising the counter above the template argument, 1, breaks the *)
(* precondition of release() and is undefined behaviour, so the programs   *)
(* must keep every counter in 0..1 and their type invariants say so.       *)
(***************************************************************************)
EXTENDS Integers

\* acquire(): blocks while the counter is 0.
Acquire(sem) == sem > 0 /\ sem' = sem - 1

\* release(): never blocks.
Release(sem) == sem' = sem + 1

=============================================================================
