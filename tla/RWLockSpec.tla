---------------------------- MODULE RWLockSpec ----------------------------
(***************************************************************************)
(* What a readers-writer lock promises the programs of hw31-threads-sema:  *)
(* readers share it, a writer has it alone, and `value` moves by one per   *)
(* write.  ReaderWriter implements this specification.                     *)
(***************************************************************************)
EXTENDS Integers

CONSTANTS
  Readers,   \* threads that run reader()
  Writers,   \* threads that run writer()
  IntMod     \* `value` is an int: it wraps at IntMod

VARIABLES
  reading,   \* readers between read_lock() and read_unlock()
  writing,   \* writers between write_lock() and write_unlock()
  value      \* the shared variable the lock protects

vars == <<reading, writing, value>>

Init == reading = {} /\ writing = {} /\ value = 0

BeginRead(r) ==
  /\ writing = {}
  /\ reading' = reading \cup {r}
  /\ UNCHANGED <<writing, value>>

EndRead(r) ==
  /\ r \in reading
  /\ reading' = reading \ {r}
  /\ UNCHANGED <<writing, value>>

BeginWrite(w) ==
  /\ reading = {} /\ writing = {}
  /\ writing' = {w}
  /\ UNCHANGED <<reading, value>>

\* The write is atomic for everyone: value++ loses no update.
Write(w) ==
  /\ w \in writing
  /\ value' = (value + 1) % IntMod
  /\ UNCHANGED <<reading, writing>>

EndWrite(w) ==
  /\ w \in writing
  /\ writing' = {}
  /\ UNCHANGED <<reading, value>>

Next ==
  \/ \E r \in Readers : BeginRead(r) \/ EndRead(r)
  \/ \E w \in Writers : BeginWrite(w) \/ Write(w) \/ EndWrite(w)

Spec == Init /\ [][Next]_vars

=============================================================================
