---------------------------- MODULE Translation ----------------------------
(***************************************************************************)
(* Address translation: relocation.py (hw15-vm-mechanism, base and limit), *)
(* segmentation.py (hw16, two segments) and paging-linear-translate.py     *)
(* (hw18, a linear page table).  A step draws or checks the registers, or  *)
(* draws an entry of the page table, or translates an address.  At the     *)
(* end, the two-level table of paging-multilevel-translate.py (hw20).      *)
(***************************************************************************)
EXTENDS Integers, Sequences, SequencesExt, FiniteSetsExt, Functions

CONSTANTS
  Inputs,           \* the options
  EntriesPerPage    \* pageSize / pteSize, of the two-level table

VARIABLES
  input,    \* kind, asize, psize; registers or -1, pagesize
  self,     \* the registers, the page table, the translated addresses
  phase     \* "draw", "translate", "end", or "abort" (an error message)

vars == <<input, self, phase>>

Random == -1
Invalid == -1

Init ==
  /\ input \in Inputs
  /\ self = [base0 |-> 0, len0 |-> 0, base1 |-> 0, len1 |-> 0,
             pt |-> <<>>, translated |-> <<>>]
  /\ phase = "draw"

Drawing(kind) == phase = "draw" /\ input.kind = kind

\* A length that is drawn is a quarter to a half of the address space.
Lengths(given) ==
  IF given = Random THEN input.asize \div 4 .. (input.asize - 1) \div 2 ELSE {given}

-----------------------------------------------------------------------------
(* relocation.py                                                           *)

\* An address space that is drawn leaves the last address free.
Relocate ==
  /\ Drawing("relocation")
  /\ \E limit \in Lengths(input.len0) :
       \E base \in IF input.base0 # Random THEN {input.base0}
                   ELSE {b \in 0 .. input.psize - 1 : b + limit < input.psize} :
         /\ self' = [self EXCEPT !.base0 = base, !.len0 = limit]
         /\ phase' = IF base + limit > input.psize THEN "abort" ELSE "translate"
  /\ UNCHANGED input

-----------------------------------------------------------------------------
(* segmentation.py                                                         *)

Bases0(len0) ==
  IF input.base0 # Random THEN {input.base0}
  ELSE {b \in 0 .. input.psize - 1 : b + len0 < input.psize}

\* Segment 1 grows downwards, base1 is its lower end.
Bases1(base0, len0, len1) ==
  IF input.base1 # Random THEN {input.base1 - len1}
  ELSE {b \in 0 .. input.psize - 1 :
          b + len1 < input.psize /\ (b > base0 + len0 \/ b + len1 < base0)}

\* What abort_if() refuses once the registers are known; overlap is looked for
\* only when segment 1 begins above segment 0.
Refused(base0, len0, base1, len1) ==
  \/ input.psize < base0 + len0 - 1
  \/ input.psize < base1
  \/ 2 * len0 > input.asize
  \/ 2 * len1 > input.asize
  \/ base0 + len0 > base1 /\ base1 > base0

TooSmall ==
  /\ input.base0 = Random \/ input.base1 = Random
  /\ input.psize <= 2 * input.asize

\* While there is no place for segment 1, it is drawn for ever.
Segment ==
  /\ Drawing("segmentation")
  /\ IF TooSmall THEN self' = self /\ phase' = "abort"
     ELSE \E len0 \in Lengths(input.len0), len1 \in Lengths(input.len1) :
            \E base0 \in Bases0(len0) :
              \E base1 \in Bases1(base0, len0, len1) :
                /\ self' = [self EXCEPT !.base0 = base0, !.len0 = len0,
                                        !.base1 = base1, !.len1 = len1]
                /\ phase' = IF Refused(base0, len0, base1, len1) THEN "abort"
                            ELSE "translate"
  /\ UNCHANGED input

-----------------------------------------------------------------------------
(* paging-linear-translate.py                                              *)

VPages == input.asize \div input.pagesize
Pages == input.psize \div input.pagesize

FreePages == (0 .. Pages - 1) \ ToSet(self.pt)

\* The next entry of the table: a page that is free, or none.
Map ==
  /\ Drawing("linear") /\ Len(self.pt) < VPages
  /\ \E entry \in FreePages \cup {Invalid} : self' = [self EXCEPT !.pt = Append(@, entry)]
  /\ UNCHANGED <<input, phase>>

Mapped ==
  /\ Drawing("linear") /\ Len(self.pt) = VPages
  /\ phase' = "translate"
  /\ UNCHANGED <<input, self>>

-----------------------------------------------------------------------------
(* Addresses.                                                              *)

Translate(vaddr) ==
  CASE input.kind = "relocation" ->
         IF vaddr >= self.len0 THEN Invalid ELSE vaddr + self.base0
    [] input.kind = "segmentation" ->
         LET paddr == self.base1 + self.len1 + (vaddr - input.asize)
         IN IF 2 * vaddr >= input.asize
            THEN IF paddr < self.base1 THEN Invalid ELSE paddr
            ELSE IF vaddr >= self.len0 THEN Invalid ELSE vaddr + self.base0
    [] input.kind = "linear" ->
         LET pfn == self.pt[(vaddr \div input.pagesize) + 1]
         IN IF pfn = Invalid THEN Invalid
            ELSE pfn * input.pagesize + (vaddr % input.pagesize)

VAddrs == 0 .. input.asize - 1

\* The addresses come in any order; all of them are translated.
TranslateAll ==
  /\ phase = "translate"
  /\ self' = [self EXCEPT !.translated = [vaddr \in VAddrs |-> Translate(vaddr)]]
  /\ phase' = "end"
  /\ UNCHANGED input

Step == Relocate \/ Segment \/ Map \/ Mapped \/ TranslateAll

Ended == phase \in {"end", "abort"} /\ UNCHANGED vars

Next == Step \/ Ended

Spec == Init /\ [][Next]_vars

-----------------------------------------------------------------------------
(* Properties.                                                             *)

Given == {input.base0, input.len0, input.base1, input.len1} # {Random}

\* Registers that are drawn are never refused.
TypeOK ==
  /\ phase \in {"draw", "translate", "end", "abort"}
  /\ phase = "abort" => Given \/ TooSmall

ToPhysical(vaddr) == self.translated[vaddr]
Valid == {vaddr \in VAddrs : ToPhysical(vaddr) # Invalid}

\* Registers that were given and are refused by no check although they should.
Unchecked ==
  /\ input.kind = "segmentation"
  /\ \/ self.base1 <= self.base0 /\ self.base1 + self.len1 > self.base0   \* they overlap
     \/ self.base0 + self.len0 > input.psize     \* by one
     \/ self.base1 + self.len1 > input.psize
     \/ self.base1 < 0

\* No two addresses are translated to one, all are in physical memory, and
\* both segments are as large as their registers say.  It is so for registers
\* that are drawn and for those given that are not Unchecked
\* (segmentation.py:88-121, 148-170).
Isolated ==
  phase = "end" /\ ~Unchecked =>
    /\ \A v \in Valid : ToPhysical(v) \in 0 .. input.psize - 1
    /\ \A v, w \in Valid : v # w => ToPhysical(v) # ToPhysical(w)
    /\ input.kind = "segmentation" => Cardinality(Valid) = self.len0 + self.len1

-----------------------------------------------------------------------------
(* hw20-vm-smalltables/paging-multilevel-translate.py: a page directory,   *)
(* page table pages and pages of data in physical memory.  A page has      *)
(* EntriesPerPage entries of a table, here of any number (32 there).  The  *)
(* options are maxPageCount and allocated; self is memory, used pages, the *)
(* page directory, the allocated pages.  A step allocates a page; findFree *)
(* or allocVirtualPage() may stop it in phase "assert".                    *)

PhysPages == 0 .. input.maxPageCount - 1
VirtualPages == 0 .. EntriesPerPage * EntriesPerPage - 1
Entries == 0 .. EntriesPerPage - 1

\* A byte of memory as an entry: its valid bit and the rest.
NotValid == [valid |-> 0, pfn |-> 127]
ValidEntry(page) == [valid |-> 1, pfn |-> page]

\* Data are small, their highest bit is 0.
Data == [valid |-> 0, pfn |-> 30]
Zero == [valid |-> 0, pfn |-> 0]

PageOf(entry) == [k \in Entries |-> entry]

TablesInit ==
  /\ input \in Inputs
  /\ \E dir \in PhysPages :
       self = [memory |-> [p \in PhysPages |-> PageOf(IF p = dir THEN NotValid ELSE Zero)],
               used |-> {dir}, pageDir |-> dir,
               allocated |-> <<>>,       \* virtual page to physical page
               left |-> input.allocated]
  /\ phase = "run"

-----------------------------------------------------------------------------

Free(used) == PhysPages \ used

PDEIndex(vpage) == vpage \div EntriesPerPage
PTEIndex(vpage) == vpage % EntriesPerPage

PageDirEntry(vpage) == self.memory[self.pageDir][PDEIndex(vpage)]
PageTableEntry(ptePage, vpage) == self.memory[ptePage][PTEIndex(vpage)]

\* allocVirtualPage(), fillPage(): the memory once pp is the page of vpage and
\* the entry is in ptePage, which is new or not.
MappedMemory(vpage, pp, ptePage, new) ==
  LET table == IF new THEN PageOf(NotValid) ELSE self.memory[ptePage]
      linked == IF new
                THEN [self.memory EXCEPT ![self.pageDir][PDEIndex(vpage)] = ValidEntry(ptePage)]
                ELSE self.memory
  IN [linked EXCEPT ![ptePage] = [table EXCEPT ![PTEIndex(vpage)] = ValidEntry(pp)],
                    ![pp] = PageOf(Data)]

Allocated(vpage, pp, pages, memory) ==
  [self EXCEPT !.memory = memory, !.used = @ \cup pages,
               !.allocated = (vpage :> pp) @@ @, !.left = @ - 1]

\* A page that has its page table page.
AllocInTable(vpage, pp) ==
  LET pde == PageDirEntry(vpage)
  IN /\ pde.valid = 1
     /\ IF PageTableEntry(pde.pfn, vpage) = NotValid
        THEN /\ self' = Allocated(vpage, pp, {pp}, MappedMemory(vpage, pp, pde.pfn, FALSE))
             /\ phase' = phase
        ELSE phase' = "assert" /\ self' = self

\* A page that needs a new page table page.
AllocWithTable(vpage, pp) ==
  /\ PageDirEntry(vpage).valid = 0
  /\ IF PageDirEntry(vpage) # NotValid \/ Free(self.used \cup {pp}) = {}
     THEN phase' = "assert" /\ self' = self
     ELSE \E ptePage \in Free(self.used \cup {pp}) :
            /\ self' = Allocated(vpage, pp, {pp, ptePage}, MappedMemory(vpage, pp, ptePage, TRUE))
            /\ phase' = phase

Alloc ==
  /\ phase = "run" /\ self.left > 0
  /\ IF Free(self.used) = {} THEN phase' = "assert" /\ self' = self
     ELSE \E vpage \in VirtualPages \ DOMAIN self.allocated, pp \in Free(self.used) :
            AllocInTable(vpage, pp) \/ AllocWithTable(vpage, pp)
  /\ UNCHANGED input

AllAllocated ==
  /\ phase = "run" /\ self.left = 0
  /\ phase' = "end"
  /\ UNCHANGED <<input, self>>

TablesStep == Alloc \/ AllAllocated

TablesEnded == phase \in {"end", "assert"} /\ UNCHANGED vars

TablesNext == TablesStep \/ TablesEnded

TablesSpec == TablesInit /\ [][TablesNext]_vars

-----------------------------------------------------------------------------
(* Properties.                                                             *)

\* translate(), of a page: -1 and -2 are faults.
TranslatePage(vpage) ==
  LET pde == PageDirEntry(vpage)
      pte == PageTableEntry(pde.pfn, vpage)
  IN IF pde.valid = 0 THEN -1
     ELSE IF pte.valid = 0 THEN -2
     ELSE pte.pfn

\* The physical pages that a process of so many pages needs at most.
Needed == 1 + input.allocated + Min({input.allocated, EntriesPerPage})

TablesTypeOK ==
  /\ self.used \subseteq PhysPages
  /\ Cardinality(DOMAIN self.allocated) = input.allocated - self.left
  /\ phase = "assert" => input.maxPageCount < Needed   \* too little memory

\* The tables in memory translate the pages that were allocated to the pages
\* they were given, and no others; no page of data is a page of the tables.
TablesTranslate ==
  /\ \A vpage \in VirtualPages :
       IF vpage \in DOMAIN self.allocated THEN TranslatePage(vpage) = self.allocated[vpage]
       ELSE TranslatePage(vpage) \in {-1, -2}
  /\ IsInjective(self.allocated)
  /\ \A pp \in Range(self.allocated) : self.memory[pp] = PageOf(Data)

=============================================================================
