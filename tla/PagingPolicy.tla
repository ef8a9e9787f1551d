---------------------------- MODULE PagingPolicy ----------------------------
(***************************************************************************)
(* hw22-vm-beyondphys-policy/paging-policy.py: a cache of pages and the    *)
(* policies that replace them.  A step is an access, or, under CLOCK, a    *)
(* look at a page for a victim.                                            *)
(***************************************************************************)
EXTENDS Integers, Sequences, SequencesExt, FiniteSetsExt, Functions

CONSTANT Inputs   \* the options and the accesses

VARIABLES
  input,    \* policy, cachesize, clockbits, addresses
  self,     \* the memory, reference bits, the number of hits and of accesses
  phase     \* "run", "scan" (for a victim of CLOCK) or "end"

vars == <<input, self, phase>>

Init ==
  /\ input \in Inputs
  /\ self = [memory |-> <<>>, ref |-> <<>>, hits |-> 0, accesses |-> 0]
  /\ phase = "run"

NumAddrs == Len(input.addresses)
Page == input.addresses[self.accesses + 1]
Memory == self.memory

Hit == Contains(Memory, Page)
Full == Len(Memory) = input.cachesize

-----------------------------------------------------------------------------
(* Victims: indexes of the memory.                                         *)

\* When a page is referenced next, or after the end.
WhenReferenced(page) ==
  Min({NumAddrs} \cup {k \in self.accesses + 1 .. NumAddrs - 1 : input.addresses[k + 1] = page})

When(k) == WhenReferenced(Memory[k])

\* Among equals OPT takes the last one, UNOPT the first one.
Victims ==
  CASE input.policy \in {"FIFO", "LRU"} -> {1}
    [] input.policy = "MRU"  -> {Len(Memory)}
    [] input.policy = "RAND" -> DOMAIN Memory
    [] input.policy = "OPT"  ->
         {Max({k \in DOMAIN Memory : \A j \in DOMAIN Memory : When(j) <= When(k)})}
    [] input.policy = "UNOPT" ->
         {Min({k \in DOMAIN Memory : \A j \in DOMAIN Memory : When(j) >= When(k)})}

-----------------------------------------------------------------------------
(* Accesses.                                                               *)

\* The bits of a new page are 1, even if there are none.
Referenced(ref, page) ==
  IF page \notin DOMAIN ref THEN (page :> 1) @@ ref
  ELSE [ref EXCEPT ![page] = Min({@ + 1, input.clockbits})]

Accessed(memory, ref, hit) ==
  [memory |-> memory, ref |-> Referenced(ref, Page),
   hits |-> self.hits + IF hit THEN 1 ELSE 0,
   accesses |-> self.accesses + 1]

Accessing == phase = "run" /\ self.accesses < NumAddrs

\* A hit makes the page the most recently used one.
Used ==
  IF input.policy \in {"LRU", "MRU"}
  THEN Append(SelectSeq(Memory, LAMBDA page : page # Page), Page)
  ELSE Memory

AccessHit ==
  /\ Accessing /\ Hit
  /\ self' = Accessed(Used, self.ref, TRUE)
  /\ UNCHANGED <<input, phase>>

AccessMiss ==
  /\ Accessing /\ ~Hit /\ ~Full
  /\ self' = Accessed(Append(Memory, Page), self.ref, FALSE)
  /\ UNCHANGED <<input, phase>>

Replace ==
  /\ Accessing /\ ~Hit /\ Full /\ input.policy # "CLOCK"
  /\ \E k \in Victims :
       self' = Accessed(Append(RemoveAt(Memory, k), Page), self.ref, FALSE)
  /\ UNCHANGED <<input, phase>>

\* The victim of CLOCK is looked for at random.
BeginScan ==
  /\ Accessing /\ ~Hit /\ Full /\ input.policy = "CLOCK"
  /\ phase' = "scan"
  /\ UNCHANGED <<input, self>>

\* Mutant of Without: the bits of the victim are kept.
WithoutNothing(ref, page) == ref

Without(ref, page) == [q \in DOMAIN ref \ {page} |-> ref[q]]

\* Mutant of PassedOver: the page keeps its bits.
PassedOverKeeps(ref, page) == ref

PassedOver(ref, page) == [ref EXCEPT ![page] = @ - 1]

\* A page that was referenced is passed over and loses a bit.
Scan ==
  /\ phase = "scan"
  /\ \E k \in DOMAIN Memory :
       IF self.ref[Memory[k]] >= 1
       THEN self' = [self EXCEPT !.ref = PassedOver(@, Memory[k])] /\ phase' = phase
       ELSE /\ self' = Accessed(Append(RemoveAt(Memory, k), Page),
                                Without(self.ref, Memory[k]), FALSE)
            /\ phase' = "run"
  /\ UNCHANGED input

AllAccessed ==
  /\ phase = "run" /\ self.accesses = NumAddrs
  /\ phase' = "end"
  /\ UNCHANGED <<input, self>>

Step == AccessHit \/ AccessMiss \/ Replace \/ BeginScan \/ Scan \/ AllAccessed

Ended == phase = "end" /\ UNCHANGED vars

Next == Step \/ Ended

Spec == Init /\ [][Next]_vars

-----------------------------------------------------------------------------
(* Properties.                                                             *)

\* No page is twice in the memory, and under CLOCK the reference bits are those
\* of the pages in it.
TypeOK ==
  /\ IsInjective(Memory)
  /\ Len(Memory) <= input.cachesize
  /\ ToSet(Memory) \subseteq DOMAIN self.ref
  /\ input.policy = "CLOCK" => DOMAIN self.ref = ToSet(Memory)
  /\ \A page \in DOMAIN self.ref : self.ref[page] \in 0 .. Max({1, input.clockbits})

LastUse(page) ==
  Max({0} \cup {k \in 1 .. self.accesses : input.addresses[k] = page})

\* LRU keeps the pages that were used last, in the order of their last use:
\* a larger cache has all that is in a smaller one.
LRUKeepsLastUsed ==
  input.policy = "LRU" =>
    /\ \A j, k \in DOMAIN Memory : j < k => LastUse(Memory[j]) < LastUse(Memory[k])
    /\ Len(Memory) = input.cachesize =>
         \A page \in ToSet(input.addresses) \ ToSet(Memory) : LastUse(page) < LastUse(Memory[1])

\* The most hits that any choice of victims leads to.
MostHits ==
  LET pages == ToSet(input.addresses)
      most[k \in 1 .. NumAddrs + 1, m \in SUBSET pages] ==
        IF k > NumAddrs THEN 0
        ELSE LET page == input.addresses[k]
             IN IF page \in m THEN 1 + most[k + 1, m]
                ELSE IF Cardinality(m) < input.cachesize THEN most[k + 1, m \cup {page}]
                ELSE Max({most[k + 1, (m \ {victim}) \cup {page}] : victim \in m})
  IN most[1, {}]

\* No policy has more hits than OPT, which looks for its victims in the rest of
\* the accesses only (paging-policy.py:203-228).
OPTIsOptimal ==
  phase = "end" =>
    /\ self.hits <= MostHits
    /\ input.policy = "OPT" => self.hits = MostHits

=============================================================================
