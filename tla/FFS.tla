-------------------------------- MODULE FFS --------------------------------
(***************************************************************************)
(* hw41-file-ffs/ffs.py: the allocation policies of the fast file system.  *)
(* A command file creates and deletes files and makes directories, and     *)
(* do_verify() asserts after every command that bitmaps, totals and files  *)
(* agree.  Blocks are looked for one per step, the rest of a command is a  *)
(* step.                                                                   *)
(***************************************************************************)
EXTENDS Integers, Sequences, SequencesExt, FiniteSetsExt, Functions

CONSTANTS
  Paths,       \* what the commands name; a path is a sequence of names
  Sizes,       \* sizes of files, not 0
  NumSymbols,  \* the length of available_symbols
  Inputs       \* the options and the number of commands

VARIABLES
  input,       \* the options: num_groups, blocks_per_group, ...
  self,        \* the file system
  phase        \* "run", "alloc" (in allocate_blocks()), "end", or how it
               \* crashed: "error" or "assert" (in do_verify())

vars == <<input, self, phase>>

Free == -1     \* BITMAP_FREE

Groups == 0 .. input.num_groups - 1
InodesOf(g) == {g} \X (0 .. input.inodes_per_group - 1)
BlocksOf(g) == {g} \X (0 .. input.blocks_per_group - 1)

\* The file that create() is at, and where allocate_blocks() is.
Idle == [path |-> <<>>, size |-> 0, type |-> "", group |-> 0, inode |-> 0,
         target |-> 0, current |-> 0, index |-> 0, in_group |-> 0, chunk |-> 0,
         allocated |-> <<>>]

Init ==
  /\ input \in Inputs
  /\ self = [inode_bitmap |-> [n \in UNION {InodesOf(g) : g \in Groups} |->
                                 IF n = <<0, 0>> THEN 0 ELSE Free],
             data_bitmap |-> [b \in UNION {BlocksOf(g) : g \in Groups} |->
                                IF b = <<0, 0>> THEN 0 ELSE Free],
             total_inodes_free |-> input.num_groups * input.inodes_per_group - 1,
             total_data_free |-> input.num_groups * input.blocks_per_group - 1,
             dir_data |-> (0 :> {}),    \* without "." and "..": (name, inode)
             inode_type |-> (0 :> "directory"),
             inode_blocks |-> (0 :> <<0>>),
             name_to_inode |-> (<<>> :> 0),
             symbols |-> NumSymbols - 1, \* how many are available
             new |-> Idle,
             left |-> input.commands]
  /\ phase = "run"

-----------------------------------------------------------------------------
(* Free inodes and blocks.                                                 *)

FreeInodes(g) == {n \in InodesOf(g) : self.inode_bitmap[n] = Free}
FreeBlocks(g) == {b \in BlocksOf(g) : self.data_bitmap[b] = Free}

FirstMax(f) ==
  Min({g \in DOMAIN f : f[g] > 0 /\ \A h \in DOMAIN f : f[h] <= f[g]})

\* find_most_free_inodes_multiple(0, how_many): of every how_many groups, the
\* first, by the free inodes of them all.
FindMostFreeInodes ==
  LET how_many == input.faraway
      free[k \in Nat, g \in Nat] ==
        IF k = 0 THEN 0
        ELSE Cardinality(FreeInodes((g + k - 1) % input.num_groups)) + free[k - 1, g]
  IN FirstMax([g \in {g \in Groups : g % how_many = 0} |-> free[how_many, g]])

\* Of the groups that alternate above and below the target.
FindFreeInodesNear(target) ==
  LET n == input.num_groups
      near(i) == IF i % 2 = 0 THEN (target + 1 + i \div 2) % n
                 ELSE (target - 1 - i \div 2) % n
      hits == {i \in 0 .. n - 2 : FreeInodes(near(i)) # {}}
  IN IF hits = {} THEN 1 ELSE near(Min(hits))

\* A file's inode is near its directory's, directories are spread.
PickGroup(parent, type) ==
  IF type = "regular" /\ ~input.spread_inodes
  THEN LET target == self.name_to_inode[parent] \div input.inodes_per_group
       IN IF FreeInodes(target) = {} THEN FindFreeInodesNear(target) ELSE target
  ELSE FindMostFreeInodes

\* find_free_inode(): an index in the group, -1 if there is none.
FindFreeInode(g) ==
  IF FreeInodes(g) = {} THEN -1 ELSE Min({n[2] : n \in FreeInodes(g)})

FindMinDataUsage == FirstMax([g \in Groups |-> Cardinality(FreeBlocks(g))])

\* chunks_free blocks, or what is needed if that is less, from the index on.
RangeFree(g, index, needed, chunks_free) ==
  LET last == index + Min({needed, chunks_free}) - 1
  IN /\ last < input.blocks_per_group
     /\ \A i \in index .. last : self.data_bitmap[<<g, i>>] = Free

-----------------------------------------------------------------------------
(* Commands end with do_verify().                                          *)

\* The assertions of do_verify().
Verifies(fs) ==
  LET Used(bitmap) == {n \in DOMAIN bitmap : bitmap[n] # Free}
  IN /\ Cardinality(Used(fs.data_bitmap)) + fs.total_data_free =
          input.num_groups * input.blocks_per_group
     /\ Cardinality(Used(fs.inode_bitmap)) + fs.total_inodes_free =
          input.num_groups * input.inodes_per_group
     /\ \A path \in DOMAIN fs.name_to_inode :
          LET inode == fs.name_to_inode[path]
          IN \A b \in ToSet(fs.inode_blocks[inode]) :
               fs.data_bitmap[<<b \div input.blocks_per_group,
                                b % input.blocks_per_group>>] = inode

\* A command is done, whether or not it could do anything.
Done(fs) ==
  /\ self' = [fs EXCEPT !.new = Idle, !.left = @ - 1]
  /\ phase' = IF Verifies(fs) THEN "run" ELSE "assert"

\* A look-up of the interpreter fails.
Crash == phase' = "error" /\ UNCHANGED self

Command == phase = "run" /\ self.left > 0 /\ UNCHANGED input

-----------------------------------------------------------------------------
(* create and mkdir.                                                       *)

Parent(path) == Front(path)
Known(path) == path \in DOMAIN self.name_to_inode
IsDirectory(path) == self.name_to_inode[path] \in DOMAIN self.dir_data
Named(path) ==
  \E e \in self.dir_data[self.name_to_inode[Parent(path)]] : e[1] = Last(path)

\* do_create() up to allocate_blocks().
Create(path, size, type) ==
  /\ Command
  /\ IF \/ self.total_inodes_free = 0
        \/ self.total_data_free < size
        \/ ~Known(Parent(path))
     THEN Done(self)
     ELSE IF ~IsDirectory(Parent(path)) THEN Crash
     ELSE IF Named(path) THEN Done(self)
     ELSE LET group == PickGroup(Parent(path), type)
              target == IF input.spread_data THEN FindMinDataUsage ELSE group
          IN /\ phase' = "alloc"
             /\ self' = [self EXCEPT !.new =
                  [path |-> path, size |-> size, type |-> type, group |-> group,
                   inode |-> FindFreeInode(group), target |-> target,
                   current |-> target, index |-> 0, in_group |-> 0,
                   chunk |-> input.contig, allocated |-> <<>>]]

\* One turn of the loop of allocate_blocks(), while blocks are missing.
AllocateBlock ==
  /\ phase = "alloc" /\ Len(self.new.allocated) < self.new.size
  /\ LET new == self.new
         inode == new.inode + new.group * input.inodes_per_group
         takes == RangeFree(new.current, new.index,
                            new.size - Len(new.allocated), new.chunk)
         taken == IF takes THEN Append(new.allocated, <<new.current, new.index>>)
                  ELSE new.allocated
         in_group == new.in_group + IF takes THEN 1 ELSE 0
         leaves == /\ Len(taken) < new.size
                   /\ \/ new.index + 1 = input.blocks_per_group
                      \/ in_group > 0 /\ in_group = input.large_file_exception
         next == (new.current + 1) % input.num_groups
     IN self' = [self EXCEPT
          !.data_bitmap = IF takes THEN [@ EXCEPT ![<<new.current, new.index>>] = inode]
                          ELSE @,
          !.new.allocated = taken,
          !.new.in_group = IF leaves THEN 0 ELSE in_group,
          !.new.index = IF leaves THEN 0 ELSE @ + 1,
          !.new.current = IF leaves THEN next ELSE @,
          !.new.chunk = IF leaves /\ next = new.target THEN 1 ELSE @]
  /\ UNCHANGED <<input, phase>>

\* do_create() from there.  bitmap[-1] is the last element.
CreateAllocated ==
  /\ phase = "alloc" /\ Len(self.new.allocated) = self.new.size
  /\ LET new == self.new
         inode == new.inode + new.group * input.inodes_per_group
         bit == <<new.group, new.inode % input.inodes_per_group>>
         blocks == [k \in DOMAIN new.allocated |->
                      new.allocated[k][2] + new.allocated[k][1] * input.blocks_per_group]
     IN IF self.symbols = 0 THEN Crash
        ELSE Done([self EXCEPT
               !.inode_bitmap[bit] = inode,
               !.dir_data[self.name_to_inode[Parent(new.path)]] =
                  @ \cup {<<Last(new.path), inode>>},
               !.dir_data = IF new.type = "directory" THEN (inode :> {}) @@ @ ELSE @,
               !.inode_type = (inode :> new.type) @@ @,
               !.inode_blocks = (inode :> blocks) @@ @,
               !.name_to_inode = (new.path :> inode) @@ @,
               !.symbols = @ - 1,
               !.total_inodes_free = @ - 1,
               !.total_data_free = @ - new.size])
  /\ UNCHANGED input

-----------------------------------------------------------------------------
(* delete.                                                                 *)

\* How do_delete() finds the bit of a block or an inode.
GroupAndIndex(number) == <<number \div input.num_groups, number % input.num_groups>>

Delete(path) ==
  /\ Command
  /\ IF ~Known(Parent(path)) THEN Done(self)
     ELSE IF ~IsDirectory(Parent(path)) THEN Crash
     ELSE IF ~Named(path) THEN Done(self)
     ELSE LET inode == self.name_to_inode[path]
              blocks == {GroupAndIndex(b) : b \in ToSet(self.inode_blocks[inode])}
          IN IF self.inode_type[inode] = "directory" THEN Done(self)
             ELSE IF ~(/\ blocks \subseteq DOMAIN self.data_bitmap
                       /\ GroupAndIndex(inode) \in DOMAIN self.inode_bitmap)
             THEN Crash
             ELSE Done([self EXCEPT
               !.dir_data[self.name_to_inode[Parent(path)]] = @ \ {<<Last(path), inode>>},
               !.data_bitmap = [b \in DOMAIN @ |-> IF b \in blocks THEN Free ELSE @[b]],
               !.inode_bitmap[GroupAndIndex(inode)] = Free,
               !.symbols = @ + 1,
               !.name_to_inode = Restrict(@, DOMAIN @ \ {path}),
               !.total_inodes_free = @ + 1,
               !.total_data_free = @ + Len(self.inode_blocks[inode]),
               !.inode_type[inode] = "",
               !.inode_blocks[inode] = <<>>])

-----------------------------------------------------------------------------
(* The command file.                                                       *)

Read ==
  \E path \in Paths :
    \/ \E size \in Sizes : Create(path, size, "regular")
    \/ Create(path, 1, "directory")
    \/ input.deletes /\ Delete(path)

EndOfFile ==
  /\ phase = "run" /\ self.left = 0
  /\ phase' = "end"
  /\ UNCHANGED <<input, self>>

Step == Read \/ AllocateBlock \/ CreateAllocated \/ EndOfFile

Ended == phase \in {"end", "error", "assert"} /\ UNCHANGED vars

Next == Step \/ Ended

Spec == Init /\ [][Next]_vars

-----------------------------------------------------------------------------
(* Where a file is on the disk.                                            *)

\* get_spans(): groups follow one another, inodes come before blocks.
GroupSize == input.inodes_per_group + input.blocks_per_group
InodeAddress(inode) ==
  (inode % input.inodes_per_group) + (inode \div input.inodes_per_group) * GroupSize
DataAddress(b) ==
  (b % input.blocks_per_group) + (b \div input.blocks_per_group) * GroupSize
    + input.inodes_per_group

\* file_span of do_all_spans().
FileSpan(path) ==
  LET inode == self.name_to_inode[path]
      all == {InodeAddress(inode)} \cup
             {DataAddress(b) : b \in ToSet(self.inode_blocks[inode])}
  IN Max(all) - Min(all)

-----------------------------------------------------------------------------
(* Properties.                                                             *)

TypeOK ==
  /\ input \in Inputs
  /\ phase \in {"run", "alloc", "end", "error", "assert"}
  /\ self.left \in 0 .. input.commands
  /\ self.total_data_free \in 0 .. input.num_groups * input.blocks_per_group
  /\ self.total_inodes_free \in 0 .. input.num_groups * input.inodes_per_group
  /\ self.symbols \in 0 .. NumSymbols
  /\ self.new.current \in Groups
  /\ self.new.index \in 0 .. input.blocks_per_group - 1 \/ phase # "alloc" \/ Len(self.new.allocated) = self.new.size

\* "assert(data_used + self.total_data_free == ...": the assertions of
\* do_verify() hold after every command (ffs.py:426-435).
DoVerify == phase # "assert"

\* They hold when bit and number correspond in do_delete() as they do in
\* do_create() (or nothing is deleted), and every group is looked at alone.
Sound ==
  \/ ~input.deletes
  \/ input.num_groups = input.blocks_per_group /\ input.num_groups = input.inodes_per_group

VerifiesWhenSound == Sound /\ input.faraway = 1 => DoVerify

\* Files that are not spread stay in the group of their inode unless that is
\* full (ffs.py:163-234): inode and blocks span no more than a group.
Local ==
  Sound /\ input.faraway = 1 =>
    \A path \in DOMAIN self.name_to_inode :
      \/ FileSpan(path) < GroupSize
      \/ input.spread_data \/ input.contig > 1
      \/ input.large_file_exception \in 1 .. Len(self.inode_blocks[self.name_to_inode[path]])
      \/ input.deletes
      \/ FreeBlocks(self.name_to_inode[path] \div input.inodes_per_group) = {}

\* A block is found as long as there is one: allocate_blocks() ends.
AllocationEnds == phase = "alloc" ~> phase # "alloc"

=============================================================================
