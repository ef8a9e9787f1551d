-------------------------------- MODULE VSFS --------------------------------
(***************************************************************************)
(* hw40-file-implementation/vsfs.py: its classes bitmap, block, inode and  *)
(* fs, of which hw42-file-journaling/fsck.py has a copy, and a workload of *)
(* random operations on the file system, one action per attempt.  The run  *)
(* stops early when inodes or data blocks are used up.  An object is a     *)
(* record, a method an operator that gives the object after the call.      *)
(***************************************************************************)
EXTENDS Integers, Sequences, SequencesExt, FiniteSetsExt

CONSTANTS
  MaxUsed,      \* block.maxUsed, the entries a directory has room for
  Names,        \* the names makeName() chooses from
  Chars,        \* the data doAppend() chooses from
  Inputs        \* -i, -d and -n: [numInodes, numData, numRequests]

VARIABLES
  input,        \* the options
  self,         \* the file system and the requests left of numRequests
  phase         \* "run", "exit" (out of inodes or data blocks) or "end"

vars == <<input, self, phase>>

None == -1         \* no block, no inode
ROOT == 0

-----------------------------------------------------------------------------
(* Bitmaps, blocks and inodes.                                             *)

\* Bits are numbered from 0.
FreeBits(bmap) == {n \in DOMAIN bmap : bmap[n] = 0}

FreeBlock == [ftype |-> "free", dirList |-> <<>>, data |-> ""]
FileBlock(char) == [ftype |-> "f", dirList |-> <<>>, data |-> char]
DirBlock(inum, parentInum) ==
  [ftype |-> "d", dirList |-> <<<<".", inum>>, <<"..", parentInum>>>>, data |-> ""]

FreeInode == [ftype |-> "free", addr |-> None, refCnt |-> 1]
Inode(ftype, addr, refCnt) == [ftype |-> ftype, addr |-> addr, refCnt |-> refCnt]

Fs(numInodes, numData) ==
  [ibitmap |-> [i \in 0 .. numInodes - 1 |-> IF i = ROOT THEN 1 ELSE 0],
   inodes  |-> [i \in 0 .. numInodes - 1 |->
                  IF i = ROOT THEN Inode("d", 0, 2) ELSE FreeInode],
   dbitmap |-> [b \in 0 .. numData - 1 |-> IF b = 0 THEN 1 ELSE 0],
   data    |-> [b \in 0 .. numData - 1 |->
                  IF b = 0 THEN DirBlock(ROOT, ROOT) ELSE FreeBlock],
   \* For the workload: the paths of the files and directories (<<>> is "/"),
   \* and the inode last known for a path.
   files |-> <<>>, dirs |-> {<<>>}, nameToInum |-> [path \in {<<>>} |-> ROOT]]

InodeFree(fs, inum) ==
  [fs EXCEPT !.ibitmap[inum] = 0,
             !.inodes[inum].ftype = "free", !.inodes[inum].addr = None]

DataFree(fs, bnum) == [fs EXCEPT !.dbitmap[bnum] = 0, !.data[bnum] = FreeBlock]

-----------------------------------------------------------------------------
(* Directories.                                                            *)

Parent(path) == Front(path)

DirAddr(fs, dir) == fs.inodes[fs.nameToInum[dir]].addr
Entries(fs, dir) == fs.data[DirAddr(fs, dir)].dirList

\* There is room in the parent directory, and the name is unique there.
MayAdd(fs, parent, name) ==
  /\ Len(Entries(fs, parent)) < MaxUsed
  /\ \A e \in ToSet(Entries(fs, parent)) : e[1] # name

AddDirEntry(fs, dir, name, inum) ==
  [fs EXCEPT !.data[DirAddr(fs, dir)].dirList = Append(@, <<name, inum>>)]

DelDirEntry(fs, dir, name) ==
  [fs EXCEPT !.data[DirAddr(fs, dir)].dirList =
     RemoveFirstMatch(@, LAMBDA e : e[1] = name)]

-----------------------------------------------------------------------------
(* The operations of fs.                                                   *)

\* Mutant of DeleteFile: the inode is freed whatever its reference count.
DeleteFileAlways(fs, path) ==
  LET inum == fs.nameToInum[path]
      addr == fs.inodes[inum].addr
  IN [DelDirEntry(InodeFree(IF addr = None THEN fs ELSE DataFree(fs, addr), inum),
                  Parent(path), Last(path))
        EXCEPT !.files = RemoveFirst(@, path)]

\* The last link takes data block and inode along.
DeleteFile(fs, path) ==
  LET inum == fs.nameToInum[path]
      addr == fs.inodes[inum].addr
      unlinked ==
        IF fs.inodes[inum].refCnt = 1
        THEN InodeFree(IF addr = None THEN fs ELSE DataFree(fs, addr), inum)
        ELSE [fs EXCEPT !.inodes[inum].refCnt = @ - 1]
      pinum == fs.nameToInum[Parent(path)]
      counted == IF fs.inodes[inum].ftype = "d"
                 THEN [unlinked EXCEPT !.inodes[pinum].refCnt = @ - 1]
                 ELSE unlinked
  IN [DelDirEntry(counted, Parent(path), Last(path))
        EXCEPT !.files = RemoveFirst(@, path)]

\* The result and the file system after it, as for the operations below.
Failed(fs) == [rc |-> -1, fs |-> fs]

CreateLink(fs, target, name, parent) ==
  LET tinum == fs.nameToInum[target]
  IN IF ~MayAdd(fs, parent, name) THEN Failed(fs)
     ELSE [rc |-> tinum,
           fs |-> AddDirEntry([fs EXCEPT !.inodes[tinum].refCnt = @ + 1],
                              parent, name, tinum)]

\* Mutant of CreateFile: mkdir() keeps the inode when there is no data block.
CreateFileKeepInode(fs, parent, name, ftype, inum, fblock) ==
  LET parentInum == fs.nameToInum[parent]
      marked == [fs EXCEPT !.ibitmap[inum] = 1]
      created == [marked EXCEPT !.inodes[inum] = Inode("f", None, 1)]
      made == [marked EXCEPT !.inodes[inum] = Inode("d", fblock, 2),
                             !.inodes[parentInum].refCnt = @ + 1,
                             !.dbitmap[fblock] = 1,
                             !.data[fblock] = DirBlock(inum, parentInum)]
  IN CASE ~MayAdd(fs, parent, name) \/ inum = None -> Failed(fs)
       [] OTHER ->
            IF ftype = "d" /\ fblock = None THEN Failed(marked)
            ELSE [rc |-> inum,
                  fs |-> AddDirEntry(IF ftype = "d" THEN made ELSE created,
                                     parent, name, inum)]

\* inum and fblock are what inodeAlloc() and dataAlloc() find, None if nothing.
CreateFile(fs, parent, name, ftype, inum, fblock) ==
  LET parentInum == fs.nameToInum[parent]
      marked == [fs EXCEPT !.ibitmap[inum] = 1]
      created == [marked EXCEPT !.inodes[inum] = Inode("f", None, 1)]
      made == [marked EXCEPT !.inodes[inum] = Inode("d", fblock, 2),
                             !.inodes[parentInum].refCnt = @ + 1,
                             !.dbitmap[fblock] = 1,
                             !.data[fblock] = DirBlock(inum, parentInum)]
  IN CASE ~MayAdd(fs, parent, name) \/ inum = None -> Failed(fs)
       [] OTHER ->
            IF ftype = "d" /\ fblock = None THEN Failed(InodeFree(marked, inum))
            ELSE [rc |-> inum,
                  fs |-> AddDirEntry(IF ftype = "d" THEN made ELSE created,
                                     parent, name, inum)]

\* A file has one block, which is written once.
WriteFile(fs, path, char, fblock) ==
  LET inum == fs.nameToInum[path]
  IN IF fs.inodes[inum].addr # None \/ fblock = None THEN Failed(fs)
     ELSE [rc |-> 0,
           fs |-> [fs EXCEPT !.dbitmap[fblock] = 1, !.data[fblock] = FileBlock(char),
                             !.inodes[inum].addr = fblock]]

-----------------------------------------------------------------------------
(* The operations of the workload.                                         *)

Init ==
  /\ input \in Inputs
  /\ self = [fs |-> Fs(input.numInodes, input.numData), left |-> input.numRequests]
  /\ phase = "run"

\* bitmap.alloc(): the first free bit.
Alloc(bmap) == IF FreeBits(bmap) = {} THEN None ELSE Min(FreeBits(bmap))

\* The results that each operation may have on a file system.

DoAppend(fs) ==
  {WriteFile(fs, path, char, Alloc(fs.dbitmap)) :
     path \in ToSet(fs.files), char \in Chars}

DoDelete(fs) ==
  {[rc |-> 0, fs |-> DeleteFile(fs, path)] : path \in ToSet(fs.files)}

\* A table in which a path is known, from now on, for an inode.
Known(table, path, inum) ==
  [p \in DOMAIN table \cup {path} |-> IF p = path THEN inum ELSE table[p]]

\* A successful operation enters the new path in the tables of the workload.
Enter(result, path, ftype) ==
  IF result.rc = -1 THEN result
  ELSE [result EXCEPT
          !.fs.nameToInum = Known(@, path, result.rc),
          !.fs.files = IF ftype = "f" THEN Append(@, path) ELSE @,
          !.fs.dirs = IF ftype = "d" THEN @ \cup {path} ELSE @]

DoLink(fs) ==
  {Enter(CreateLink(fs, target, name, parent), Append(parent, name), "f") :
     parent \in fs.dirs, name \in Names, target \in ToSet(fs.files)}

DoCreate(fs, ftype) ==
  {Enter(CreateFile(fs, parent, name, ftype, Alloc(fs.ibitmap), Alloc(fs.dbitmap)),
         Append(parent, name), ftype) :
     parent \in fs.dirs, name \in Names}

-----------------------------------------------------------------------------
(* run(): attempts until one succeeds, for each request.                   *)

Attempt(results) ==
  /\ phase = "run" /\ self.left > 0
  /\ \E result \in results :
       /\ self' = [fs |-> result.fs,
                   left |-> IF result.rc = -1 THEN self.left ELSE self.left - 1]
       /\ phase' = IF \/ FreeBits(result.fs.ibitmap) = {}
                      \/ FreeBits(result.fs.dbitmap) = {}
                   THEN "exit" ELSE "run"
  /\ UNCHANGED input

AppendToFile == Attempt(DoAppend(self.fs))
Delete == Attempt(DoDelete(self.fs))
MakeLink == Attempt(DoLink(self.fs))
Create == Attempt(DoCreate(self.fs, "f"))
MakeDir == Attempt(DoCreate(self.fs, "d"))

Finish ==
  /\ phase = "run" /\ self.left = 0
  /\ phase' = "end"
  /\ UNCHANGED <<input, self>>

Step == AppendToFile \/ Delete \/ MakeLink \/ Create \/ MakeDir \/ Finish

Ended == phase \in {"exit", "end"} /\ UNCHANGED vars

Next == Step \/ Ended

Spec == Init /\ [][Next]_vars

-----------------------------------------------------------------------------
(* What the disk holds.                                                    *)

Live(fs) == {i \in DOMAIN fs.inodes : fs.inodes[i].ftype # "free"}
Directories(fs) == {i \in Live(fs) : fs.inodes[i].ftype = "d"}
EntriesOf(fs, dir) == fs.data[fs.inodes[dir].addr].dirList
RefsTo(fs, inum) ==
  {ref \in Directories(fs) \X (1 .. MaxUsed) :
     LET list == EntriesOf(fs, ref[1])
     IN ref[2] <= Len(list) /\ list[ref[2]][2] = inum}

\* The inode that a path leads to from the root, None when it leads nowhere.
Lookup(fs, path) ==
  LET at[k \in 0 .. Len(path)] ==
        IF k = 0 THEN ROOT
        ELSE LET hits == {e \in IF at[k - 1] \in Directories(fs)
                                THEN ToSet(EntriesOf(fs, at[k - 1])) ELSE {} :
                            e[1] = path[k]}
             IN IF hits = {} THEN None ELSE (CHOOSE e \in hits : TRUE)[2]
  IN at[Len(path)]

BitmapsAgree(fs) ==
  /\ \A i \in DOMAIN fs.inodes : fs.ibitmap[i] = 1 <=> i \in Live(fs)
  /\ \A b \in DOMAIN fs.data :
       /\ fs.dbitmap[b] = 1 <=> fs.data[b].ftype # "free"
       /\ Cardinality({i \in Live(fs) : fs.inodes[i].addr = b}) = fs.dbitmap[b]

InodesFit(fs) ==
  \A i \in Live(fs) :
    LET inode == fs.inodes[i]
    IN IF inode.addr = None THEN inode.ftype = "f"
       ELSE inode.ftype = fs.data[inode.addr].ftype

\* Reference counts are the numbers of links; a directory has one name.
LinksCounted(fs) ==
  \A i \in Live(fs) :
    /\ fs.inodes[i].refCnt = Cardinality(RefsTo(fs, i))
    /\ fs.inodes[i].refCnt > 0

DirectoriesLinked(fs) ==
  \A dir \in Directories(fs) :
    LET list == EntriesOf(fs, dir)
        parents == {up \in Directories(fs) :
                      \E k \in 3 .. Len(EntriesOf(fs, up)) :
                        EntriesOf(fs, up)[k][2] = dir}
    IN /\ Len(list) \in 2 .. MaxUsed
       /\ list[1] = <<".", dir>> /\ list[2][1] = ".."
       /\ {list[2][2]} = IF dir = ROOT THEN {ROOT} ELSE parents
       /\ \A j, k \in DOMAIN list : list[j][1] = list[k][1] => j = k
       /\ \A k \in DOMAIN list : list[k][2] \in Live(fs)

\* What a checker would ask of a file system.
Consistent(fs) ==
  BitmapsAgree(fs) /\ InodesFit(fs) /\ LinksCounted(fs) /\ DirectoriesLinked(fs)

-----------------------------------------------------------------------------
(* Properties.                                                             *)

TypeOK ==
  /\ input \in Inputs
  /\ phase \in {"run", "exit", "end"}
  /\ self.left \in 0 .. input.numRequests
  /\ LET fs == self.fs IN
     /\ fs.ibitmap \in [0 .. input.numInodes - 1 -> {0, 1}]
     /\ fs.dbitmap \in [0 .. input.numData - 1 -> {0, 1}]
     /\ fs.inodes \in [0 .. input.numInodes - 1 ->
          [ftype : {"f", "d", "free"}, addr : {None} \cup 0 .. input.numData - 1,
           refCnt : 0 .. 2 * input.numRequests + 2]]
     /\ \A b \in DOMAIN fs.data : fs.data[b].ftype \in {"f", "d", "free"}

\* After every operation, also one that fails half-way, bitmaps, inodes and
\* directories agree, every path of the workload leads from the root to the
\* inode that nameToInum has for it (vsfs.py:265-393), and there are no others.
AllConsistent ==
  LET fs == self.fs
      paths == ToSet(fs.files) \cup fs.dirs
  IN /\ Consistent(fs)
     /\ \A path \in paths : Lookup(fs, path) = fs.nameToInum[path]
     /\ Cardinality(paths) + 2 * Cardinality(fs.dirs) =
          Cardinality(UNION {RefsTo(fs, i) : i \in Live(fs)}) + 1

\* By AllConsistent, the tables of the workload name what is on the disk.
FileAt(fs) == [path \in ToSet(fs.files) |-> fs.nameToInum[path]]
Contents(fs) ==
  [i \in {fs.nameToInum[path] : path \in ToSet(fs.files)} |->
     IF fs.inodes[i].addr = None THEN "" ELSE fs.data[fs.inodes[i].addr].data]

Abstract == INSTANCE NameSpace WITH
  dirs <- self.fs.dirs,
  files <- FileAt(self.fs),
  contents <- Contents(self.fs)

\* The disk is a tree of names: operations do to it what their names say
\* (vsfs.py:265-468).
ImplementsNext ==
  Abstract!Next(DOMAIN self'.fs.nameToInum, DOMAIN self.fs.inodes, Chars)

-----------------------------------------------------------------------------
(* hw42-file-journaling/fsck.py: the file system with its own allocation,  *)
(* built by random operations and then corrupted in one place, for the     *)
(* reader to find out how.                                                 *)

\* An input also has -D, dontCorrupt, and -w, whichCorrupt: a number of
\* corrupt(), None for one that is drawn.

\* Operations are those of vsfs.py, but for what they choose.

\* bitmap.alloc() and findFree(): any free bit.
AnyFree(bmap) == IF FreeBits(bmap) = {} THEN {None} ELSE FreeBits(bmap)

FsckAppend(fs) ==
  {WriteFile(fs, path, char, fblock) :
     path \in ToSet(fs.files), char \in Chars, fblock \in AnyFree(fs.dbitmap)}

\* int(random.random()) is 0: always the oldest file.
FsckDelete(fs) ==
  {[rc |-> 0, fs |-> DeleteFile(fs, Head(fs.files))] : n \in {1} \cap DOMAIN fs.files}

FsckLink(fs) == DoLink(fs)

FsckCreate(fs, ftype) ==
  {Enter(CreateFile(fs, parent, name, ftype, inum, fblock), Append(parent, name), ftype) :
     parent \in fs.dirs, name \in Names, inum \in AnyFree(fs.ibitmap),
     fblock \in IF ftype = "d" THEN AnyFree(fs.dbitmap) ELSE {None}}

Built ==
  /\ phase = "run" /\ self.left = 0
  /\ phase' = IF input.dontCorrupt THEN "end" ELSE "corrupt"
  /\ UNCHANGED <<input, self>>

\* corrupt().

CorruptBy(num, results) ==
  /\ phase = "corrupt" /\ input.whichCorrupt \in {None, num}
  /\ \E fs \in results : self' = [self EXCEPT !.fs = fs]
  /\ phase' = "end"
  /\ input' = [input EXCEPT !.whichCorrupt = num]

PickRandom(fs, match) == {i \in DOMAIN fs.inodes : fs.inodes[i].ftype = match}

FindFreeData(fs) == {b \in DOMAIN fs.data : fs.data[b].ftype = "free"}

FlipDataBit ==
  CorruptBy(0, {[self.fs EXCEPT !.dbitmap[b] = 1 - @] : b \in DOMAIN self.fs.data})

FlipInodeBit ==
  CorruptBy(1, {[self.fs EXCEPT !.ibitmap[i] = 1 - @] : i \in DOMAIN self.fs.inodes})

ChangeRefCnt(num, match) ==
  CorruptBy(num, {[self.fs EXCEPT !.inodes[i].refCnt = @ + d] :
                    i \in PickRandom(self.fs, match), d \in {1, -1}})

MakeOrphan(num, ftype) ==
  CorruptBy(num, {[self.fs EXCEPT !.inodes[i] = Inode(ftype, None, 1)] :
                    i \in PickRandom(self.fs, "free")})

PointToDeadBlock(num, match) ==
  CorruptBy(num, {[self.fs EXCEPT !.inodes[i].addr = b] :
                    i \in PickRandom(self.fs, match), b \in FindFreeData(self.fs)})

SwitchType(num, match, ftype) ==
  CorruptBy(num, {[self.fs EXCEPT !.inodes[i].ftype = ftype] :
                    i \in PickRandom(self.fs, match)})

\* 6 and 7: an entry of a directory gets another inode or name.
ReferToFreeInode ==
  CorruptBy(6, UNION {{[self.fs EXCEPT !.data[self.fs.inodes[d].addr].dirList[k][2] = inum] :
                         k \in DOMAIN EntriesOf(self.fs, d), inum \in AnyFree(self.fs.ibitmap)} :
                      d \in PickRandom(self.fs, "d")})

ReferToOtherName ==
  CorruptBy(7, UNION {{[self.fs EXCEPT !.data[self.fs.inodes[d].addr].dirList[k][1] = name] :
                         k \in DOMAIN EntriesOf(self.fs, d), name \in Names} :
                      d \in PickRandom(self.fs, "d")})

\* The assertion in pickRandom(): there is no file to corrupt.
NothingToPick ==
  /\ phase = "corrupt" /\ input.whichCorrupt \in {None, 2, 4, 5}
  /\ PickRandom(self.fs, "f") = {}
  /\ phase' = "crashed"
  /\ UNCHANGED <<input, self>>

FsckStep ==
  \/ Attempt(FsckAppend(self.fs)) \/ Attempt(FsckDelete(self.fs))
  \/ Attempt(FsckLink(self.fs))
  \/ Attempt(FsckCreate(self.fs, "f")) \/ Attempt(FsckCreate(self.fs, "d"))
  \/ Built
  \/ FlipDataBit \/ FlipInodeBit
  \/ ChangeRefCnt(2, "f") \/ ChangeRefCnt(8, "d")
  \/ MakeOrphan(3, "f") \/ MakeOrphan(9, "d")
  \/ PointToDeadBlock(4, "f") \/ PointToDeadBlock(10, "d")
  \/ SwitchType(5, "f", "d") \/ SwitchType(11, "d", "f")
  \/ ReferToFreeInode \/ ReferToOtherName \/ NothingToPick

FsckEnded == phase \in {"exit", "end", "crashed"} /\ UNCHANGED vars

FsckNext == FsckStep \/ FsckEnded

FsckSpec == Init /\ [][FsckNext]_vars

\* What is built is consistent.  Every corruption of corrupt() makes it
\* inconsistent (fsck.py:525-619), but for a change of a name (7), which leaves
\* bitmaps, inodes and reference counts as they should be: answers.md:17.
CorruptionShows ==
  IF phase # "end" \/ input.dontCorrupt THEN AllConsistent
  ELSE IF input.whichCorrupt = 7
  THEN BitmapsAgree(self.fs) /\ InodesFit(self.fs) /\ LinksCounted(self.fs)
  ELSE ~Consistent(self.fs)

\* Until it is corrupted, the disk is a tree of names as in vsfs.py.
FsckImplementsNext == phase = "run" => ImplementsNext

=============================================================================
