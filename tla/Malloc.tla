------------------------------- MODULE Malloc -------------------------------
(***************************************************************************)
(* hw17-vm-freespace/malloc.py: an allocator with a free list, and random  *)
(* or listed operations on it.  A step is an operation.                    *)
(***************************************************************************)
EXTENDS Integers, Sequences, SequencesExt, FiniteSetsExt, Functions

CONSTANTS
  Sizes,    \* that are allocated
  Inputs    \* the options

VARIABLES
  input,    \* size, headerSize, align, policy, order, coalesce, mode, numOps
  self,     \* the allocator, the pointers and the number of operations
  phase     \* "run", "end", "assert" (in addToMap()) or "error" (a KeyError)

vars == <<input, self, phase>>

BaseAddr == 1000

\* Entries of the free list are <<address, size>>.
Addr(entry) == entry[1]
Size(entry) == entry[2]

Init ==
  /\ input \in Inputs
  /\ self = [freelist |-> <<<<BaseAddr, input.size>>>>,
             sizemap |-> <<>>,      \* address to size
             p |-> <<>>,            \* the number of an allocation to its address
             c |-> 0, ops |-> 0]
  /\ phase = "run"

Running == phase = "run" /\ self.ops < input.numOps

-----------------------------------------------------------------------------
(* malloc()                                                                *)

Aligned(size) ==
  IF input.align = -1 THEN size ELSE size + ((-size) % input.align)

Needed(size) == Aligned(size) + input.headerSize

Fits(needed) == {k \in DOMAIN self.freelist : Size(self.freelist[k]) >= needed}

\* Among equals the first one is found.
Best(needed) ==
  LET size(k) == Size(self.freelist[k])
      fits == Fits(needed)
  IN CASE input.policy = "FIRST" -> Min(fits)
       [] input.policy = "BEST"  -> Min({k \in fits : \A j \in fits : size(k) <= size(j)})
       [] input.policy = "WORST" -> Min({k \in fits : \A j \in fits : size(k) >= size(j)})

\* An entry is split in place, or removed when it matches exactly.
Taken(k, needed) ==
  LET e == self.freelist[k]
  IN IF Size(e) > needed
     THEN [self.freelist EXCEPT ![k] = <<Addr(e) + needed, Size(e) - needed>>]
     ELSE RemoveAt(self.freelist, k)

\* Random sizes are not 0.  The list is changed before addToMap() asserts that the address is new.
Alloc ==
  /\ Running
  /\ \E size \in IF input.mode = "random" THEN Sizes \ {0} ELSE Sizes :
       IF Fits(Needed(size)) = {}
       THEN self' = [self EXCEPT !.c = @ + 1, !.ops = @ + 1] /\ phase' = phase
       ELSE \E k \in {Best(Needed(size))} :
              LET addr == Addr(self.freelist[k])
              IN IF addr \in DOMAIN self.sizemap
                 THEN self' = [self EXCEPT !.freelist = Taken(k, Needed(size))]
                      /\ phase' = "assert"
                 ELSE self' = [self EXCEPT !.freelist = Taken(k, Needed(size)),
                                           !.sizemap = (addr :> Needed(size)) @@ @,
                                           !.p = (self.c :> addr) @@ @,
                                           !.c = @ + 1, !.ops = @ + 1]
                      /\ phase' = phase
  /\ UNCHANGED input

-----------------------------------------------------------------------------
(* free()                                                                  *)

\* sorted() is stable, and the freed entry was appended.
Sorted(list, before(_, _)) ==
  LET earlier(j, k) ==
        before(list[j], list[k]) \/ (~before(list[k], list[j]) /\ j < k)
      order == SetToSortSeq(DOMAIN list, earlier)
  IN [k \in DOMAIN list |-> list[order[k]]]

Inserted(entry) ==
  LET back == Append(self.freelist, entry)
  IN CASE input.order = "INSERT-BACK"  -> back
       [] input.order = "INSERT-FRONT" -> <<entry>> \o self.freelist
       [] input.order = "ADDRSORT"     -> Sorted(back, LAMBDA a, b : Addr(a) < Addr(b))
       [] input.order = "SIZESORT+"    -> Sorted(back, LAMBDA a, b : Size(a) < Size(b))
       [] input.order = "SIZESORT-"    -> Sorted(back, LAMBDA a, b : Size(a) > Size(b))

\* Neighbours in the list that are neighbours in memory become one entry, which
\* may grow further.
Coalesced(list) ==
  LET add(new, e) ==
        IF new # <<>> /\ Addr(e) = Addr(Last(new)) + Size(Last(new))
        THEN Append(Front(new), <<Addr(Last(new)), Size(Last(new)) + Size(e)>>)
        ELSE Append(new, e)
  IN FoldLeft(add, <<>>, list)

\* Mutant of FreeListWith: coalescing comes before the entry is in its place.
FreeListWithLate(entry) ==
  IF input.coalesce THEN <<entry>> \o Coalesced(self.freelist) ELSE Inserted(entry)

FreeListWith(entry) ==
  IF input.coalesce THEN Coalesced(Inserted(entry)) ELSE Inserted(entry)

\* free() refuses an address that is not allocated.
Freed(addr) ==
  IF addr \notin DOMAIN self.sizemap THEN self
  ELSE [self EXCEPT !.freelist = FreeListWith(<<addr, self.sizemap[addr]>>),
                    !.sizemap = [a \in DOMAIN @ \ {addr} |-> @[a]]]

\* Random operations free each pointer once.
FreeRandom ==
  /\ Running /\ input.mode = "random"
  /\ \E k \in DOMAIN self.p :
       \E s \in {Freed(self.p[k])} :
         self' = [s EXCEPT !.p = [j \in DOMAIN @ \ {k} |-> @[j]], !.ops = @ + 1]
  /\ UNCHANGED <<input, phase>>

\* A list of operations may free a pointer again, and name one that was not
\* allocated when there are enough others.
FreeListed ==
  /\ Running /\ input.mode = "list"
  /\ \E k \in 0 .. Cardinality(DOMAIN self.p) - 1 :
       IF k \notin DOMAIN self.p THEN phase' = "error" /\ self' = self
       ELSE /\ \E s \in {Freed(self.p[k])} : self' = [s EXCEPT !.ops = @ + 1]
            /\ phase' = phase
  /\ UNCHANGED input

AllDone ==
  /\ phase = "run" /\ self.ops = input.numOps
  /\ phase' = "end"
  /\ UNCHANGED <<input, self>>

Step == Alloc \/ FreeRandom \/ FreeListed \/ AllDone

Ended == phase \in {"end", "assert", "error"} /\ UNCHANGED vars

Next == Step \/ Ended

Spec == Init /\ [][Next]_vars

-----------------------------------------------------------------------------
(* Properties.                                                             *)

Cells(entry) == Addr(entry) .. Addr(entry) + Size(entry) - 1
Entries == ToSet(self.freelist)
AllocatedEntries == {<<a, self.sizemap[a]>> : a \in DOMAIN self.sizemap}

Heap == BaseAddr .. BaseAddr + input.size - 1

TypeOK ==
  /\ phase = "assert" => 0 \in Sizes /\ input.headerSize = 0
  /\ phase = "error" => input.mode = "list" /\ DOMAIN self.p # 0 .. self.c - 1
  /\ input.mode = "random" =>
       \A k \in DOMAIN self.p : self.p[k] \in DOMAIN self.sizemap

\* The free and the allocated entries make up the heap and do not overlap,
\* although entries are split in place and grow in the list (malloc.py:83-138).
HeapTiled ==
  phase # "assert" =>
    /\ UNION {Cells(e) : e \in Entries \cup AllocatedEntries} = Heap
    /\ SumFunction([k \in DOMAIN self.freelist |-> Size(self.freelist[k])])
         + SumFunction(self.sizemap) = input.size
    /\ input.align # -1 /\ input.headerSize = 0 =>
         \A e \in AllocatedEntries : (Addr(e) - BaseAddr) % input.align = 0

Meet(e, f) == Addr(e) + Size(e) = Addr(f)

\* A free list that is sorted by address stays so when entries are split, and
\* if it is coalesced, too, no free space is ever in two pieces (entries of
\* size 0, which a list of operations can make, are no pieces).
Unfragmented ==
  input.order = "ADDRSORT" /\ input.mode = "random" =>
    /\ \A j, k \in DOMAIN self.freelist :
         j < k => Addr(self.freelist[j]) < Addr(self.freelist[k])
    /\ input.coalesce => \A e, f \in Entries : ~Meet(e, f)

=============================================================================
