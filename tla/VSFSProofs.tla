----------------------------- MODULE VSFSProofs -----------------------------
(***************************************************************************)
(* Proofs about VSFS, for any number of inodes, blocks, names and requests.*)
(* Sound is the inductive invariant: what the disk holds, with links and   *)
(* names as sets, and what the tables of the workload say about it.  Every *)
(* operation is shown to keep it, for any free inode and block, which is   *)
(* how vsfs.py and fsck.py differ.                                         *)
(***************************************************************************)
EXTENDS VSFS, FiniteSetTheorems, SequenceTheorems, TLAPS

\* block.maxUsed is 32; a file system has a root directory in block 0.
VSFSConstants ==
  /\ MaxUsed \in Nat /\ MaxUsed >= 2
  /\ IsFiniteSet(Names)
  /\ \A opt \in Inputs :
       /\ opt.numInodes \in Nat \ {0} /\ opt.numData \in Nat \ {0}
       /\ opt.numRequests \in Nat

Dots == {".", ".."}
AllNames == Names \cup Dots

\* The numbers of so many inodes or blocks.
Upto(n) == 0 .. n - 1

InodeType(m) == [ftype : {"f", "d", "free"}, addr : {None} \cup Upto(m), refCnt : Int]

BlockType(n) ==
  [ftype : {"f", "d", "free"}, dirList : Seq(AllNames \X Upto(n)),
   data : Chars \cup {""}]

FsType(n, m) ==
  [ibitmap : [Upto(n) -> {0, 1}], inodes : [Upto(n) -> InodeType(m)],
   dbitmap : [Upto(m) -> {0, 1}], data : [Upto(m) -> BlockType(n)],
   files : Seq(Seq(Names)), dirs : SUBSET Seq(Names),
   nameToInum : UNION {[P -> Upto(n)] : P \in SUBSET Seq(Names)}]

\* Bits say what is in use.
Bits(fs) ==
  /\ \A i \in DOMAIN fs.inodes : fs.ibitmap[i] = 1 <=> fs.inodes[i].ftype # "free"
  /\ \A b \in DOMAIN fs.data : fs.dbitmap[b] = 1 <=> fs.data[b].ftype # "free"

\* A block in use belongs to one inode, of its type.
Owned(fs) ==
  /\ \A i \in Live(fs) :
       IF fs.inodes[i].addr = None THEN fs.inodes[i].ftype = "f"
       ELSE fs.data[fs.inodes[i].addr].ftype = fs.inodes[i].ftype
  /\ \A i, j \in Live(fs) :
       fs.inodes[i].addr = fs.inodes[j].addr /\ fs.inodes[i].addr # None => i = j
  /\ \A b \in DOMAIN fs.data :
       fs.data[b].ftype # "free" => \E i \in Live(fs) : fs.inodes[i].addr = b

ListFits(list, dir) ==
  /\ Len(list) \in 2 .. MaxUsed
  /\ list[1] = <<".", dir>> /\ list[2][1] = ".."
  /\ \A j, k \in 1 .. Len(list) : list[j][1] = list[k][1] => j = k

Lists(fs) == \A dir \in Directories(fs) : ListFits(EntriesOf(fs, dir), dir)

Entry(fs, dir) == ToSet(EntriesOf(fs, dir))

EntriesLive(fs) == \A dir \in Directories(fs) : \A e \in Entry(fs, dir) : e[2] \in Live(fs)

\* A directory but the root has one name, in its parent.
Rooted(fs) ==
  /\ ROOT \in Directories(fs) /\ <<"..", ROOT>> \in Entry(fs, ROOT)
  /\ \A dir \in Directories(fs) \ {ROOT} :
       /\ \E up \in Directories(fs), name \in AllNames \ Dots : <<name, dir>> \in Entry(fs, up)
       /\ \A up \in Directories(fs), name \in AllNames \ Dots :
            <<name, dir>> \in Entry(fs, up) => <<"..", up>> \in Entry(fs, dir)

\* The links to an inode, as directories and names.
Links(fs, inum) ==
  {l \in Directories(fs) \X AllNames : <<l[2], inum>> \in Entry(fs, l[1])}

Counted(fs) ==
  \A i \in Live(fs) :
    fs.inodes[i].refCnt = Cardinality(Links(fs, i)) /\ Links(fs, i) # {}

\* The paths of the workload are those of the disk.
Named(fs) ==
  /\ <<>> \in fs.dirs /\ fs.nameToInum[<<>>] = ROOT /\ <<>> \notin ToSet(fs.files)
  /\ fs.dirs \cup ToSet(fs.files) \subseteq DOMAIN fs.nameToInum
  /\ \A p \in fs.dirs : fs.nameToInum[p] \in Directories(fs)
  /\ \A p, q \in fs.dirs : fs.nameToInum[p] = fs.nameToInum[q] => p = q
  /\ \A dir \in Directories(fs) : \E p \in fs.dirs : fs.nameToInum[p] = dir
  /\ \A p \in ToSet(fs.files) : fs.nameToInum[p] \in Live(fs) \ Directories(fs)
  /\ \A j, k \in 1 .. Len(fs.files) : fs.files[j] = fs.files[k] => j = k

PathsLead(fs) ==
  /\ \A p \in fs.dirs \cup ToSet(fs.files) :
       p # <<>> => /\ Front(p) \in fs.dirs /\ Last(p) \notin Dots
                   /\ <<Last(p), fs.nameToInum[p]>> \in Entry(fs, fs.nameToInum[Front(p)])
  /\ \A p \in fs.dirs : \A e \in Entry(fs, fs.nameToInum[p]) :
       e[1] \notin Dots => /\ Append(p, e[1]) \in fs.dirs \cup ToSet(fs.files)
                           /\ fs.nameToInum[Append(p, e[1])] = e[2]

Sound(fs) ==
  /\ Bits(fs) /\ Owned(fs) /\ Lists(fs) /\ EntriesLive(fs) /\ Rooted(fs)
  /\ Counted(fs) /\ Named(fs) /\ PathsLead(fs)

\* The requests that succeed are those that may add a link.
IInv ==
  /\ input \in Inputs
  /\ phase \in {"run", "exit", "end"}
  /\ self.fs \in FsType(input.numInodes, input.numData)
  /\ self.left \in 0 .. input.numRequests
  /\ \A i \in DOMAIN self.fs.inodes :
       self.fs.inodes[i].refCnt \in 0 .. 2 + input.numRequests - self.left
  /\ Sound(self.fs)

-----------------------------------------------------------------------------
(* Sequences: a list of entries with one more, and with one less.          *)

LEMMA ListAppend ==
  ASSUME NEW S, NEW s \in Seq(S), NEW e \in S
  PROVE  /\ Append(s, e) \in Seq(S) /\ Len(Append(s, e)) = Len(s) + 1
         /\ \A k \in 1 .. Len(s) : Append(s, e)[k] = s[k]
         /\ Append(s, e)[Len(s) + 1] = e
         /\ ToSet(Append(s, e)) = ToSet(s) \cup {e}
<1>1. /\ Append(s, e) \in Seq(S) /\ Len(Append(s, e)) = Len(s) + 1
      /\ \A k \in 1 .. Len(s) : Append(s, e)[k] = s[k]
      /\ Append(s, e)[Len(s) + 1] = e
  BY AppendProperties
<1>2. DOMAIN s = 1 .. Len(s) /\ DOMAIN Append(s, e) = 1 .. Len(s) + 1 /\ Len(s) \in Nat
  BY <1>1, LenProperties
<1>3. ASSUME NEW x PROVE x \in ToSet(Append(s, e)) <=> x \in ToSet(s) \cup {e}
  BY <1>1, <1>2 DEF ToSet
<1> QED BY <1>1, <1>3

LEMMA ListRemoveAt ==
  ASSUME NEW S, NEW s \in Seq(S), NEW p \in 1 .. Len(s)
  PROVE  /\ RemoveAt(s, p) \in Seq(S) /\ Len(RemoveAt(s, p)) = Len(s) - 1
         /\ \A k \in 1 .. Len(s) - 1 :
              RemoveAt(s, p)[k] = IF k < p THEN s[k] ELSE s[k + 1]
         /\ ToSet(RemoveAt(s, p)) = {s[k] : k \in (1 .. Len(s)) \ {p}}
<1> DEFINE a == SubSeq(s, 1, p - 1)
           b == SubSeq(s, p + 1, Len(s))
           n == Len(s)
<1>1. n \in Nat /\ p \in Nat /\ p >= 1 /\ p <= n /\ \A k \in 1 .. n : s[k] \in S
  BY LenProperties, ElementOfSeq
<1>2. a \in Seq(S) /\ Len(a) = p - 1 /\ \A k \in 1 .. p - 1 : a[k] = s[k]
  <2>1. 1 \in Int /\ p - 1 \in Int /\ \A k \in 1 .. p - 1 : s[k] \in S
    BY <1>1
  <2>2. /\ a \in Seq(S) /\ Len(a) = IF 1 <= p - 1 THEN p - 1 - 1 + 1 ELSE 0
        /\ \A k \in 1 .. p - 1 - 1 + 1 : a[k] = s[1 + k - 1]
    BY <2>1, SubSeqProperties
  <2> QED BY <2>2, <1>1
<1>3. b \in Seq(S) /\ Len(b) = n - p /\ \A k \in 1 .. n - p : b[k] = s[p + k]
  <2>1. p + 1 \in Int /\ n \in Int /\ \A k \in p + 1 .. n : s[k] \in S
    BY <1>1
  <2>2. /\ b \in Seq(S) /\ Len(b) = IF p + 1 <= n THEN n - (p + 1) + 1 ELSE 0
        /\ \A k \in 1 .. n - (p + 1) + 1 : b[k] = s[p + 1 + k - 1]
    BY <2>1, SubSeqProperties
  <2> QED BY <2>2, <1>1
<1> HIDE DEF a, b
<1>4. RemoveAt(s, p) = a \o b
  BY DEF RemoveAt, a, b
<1>5. /\ a \o b \in Seq(S) /\ Len(a \o b) = n - 1
      /\ \A k \in 1 .. n - 1 : (a \o b)[k] = IF k <= p - 1 THEN a[k] ELSE b[k - (p - 1)]
  <2>1. /\ a \o b \in Seq(S) /\ Len(a \o b) = Len(a) + Len(b)
        /\ \A k \in 1 .. Len(a) + Len(b) :
             (a \o b)[k] = IF k <= Len(a) THEN a[k] ELSE b[k - Len(a)]
    BY <1>2, <1>3, ConcatProperties
  <2>2. Len(a) + Len(b) = n - 1
    BY <1>1, <1>2, <1>3
  <2> QED BY <2>1, <2>2, <1>2
<1>6. \A k \in 1 .. n - 1 : RemoveAt(s, p)[k] = IF k < p THEN s[k] ELSE s[k + 1]
  BY <1>1, <1>2, <1>3, <1>4, <1>5
<1>7. DOMAIN RemoveAt(s, p) = 1 .. n - 1
  BY <1>4, <1>5, LenProperties
<1>8. ASSUME NEW x
      PROVE  x \in ToSet(RemoveAt(s, p)) <=> x \in {s[k] : k \in (1 .. n) \ {p}}
  <2>1. ASSUME x \in ToSet(RemoveAt(s, p)) PROVE x \in {s[k] : k \in (1 .. n) \ {p}}
    <3>1. PICK k \in 1 .. n - 1 : x = RemoveAt(s, p)[k]
      BY <2>1, <1>7 DEF ToSet
    <3>2. x = s[IF k < p THEN k ELSE k + 1]
      BY <3>1, <1>6
    <3>3. (IF k < p THEN k ELSE k + 1) \in (1 .. n) \ {p}
      BY <1>1
    <3> QED BY <3>2, <3>3
  <2>2. ASSUME NEW k \in (1 .. n) \ {p}, x = s[k] PROVE x \in ToSet(RemoveAt(s, p))
    <3>1. CASE k < p
      <4>1. k \in 1 .. n - 1
        BY <3>1, <1>1
      <4>2. RemoveAt(s, p)[k] = s[k]
        BY <4>1, <3>1, <1>6
      <4> QED BY <4>1, <4>2, <2>2, <1>7 DEF ToSet
    <3>2. CASE k > p
      <4>1. k - 1 \in 1 .. n - 1 /\ ~(k - 1 < p) /\ (k - 1) + 1 = k
        BY <3>2, <1>1
      <4>2. RemoveAt(s, p)[k - 1] = s[k]
        BY <4>1, <1>6
      <4> QED BY <4>1, <4>2, <2>2, <1>7 DEF ToSet
    <3> QED BY <3>1, <3>2, <1>1
  <2> QED BY <2>1, <2>2
<1> QED BY <1>4, <1>5, <1>6, <1>8

\* What bitmap.alloc() finds is free.
LEMMA Least ==
  ASSUME NEW T \in SUBSET Nat, T # {}
  PROVE  \E x \in T : \A y \in T : x <= y
<1>1. PICK x \in T : \A y \in T : ~(<<y, x>> \in OpToRel(<, Nat))
  BY NatLessThanWellFounded, WFMin
<1>2. \A y \in T : y \in Nat /\ x \in Nat
  BY <1>1
<1>3. \A y \in T : ~(y < x)
  BY <1>1, <1>2, Zenon DEF OpToRel
<1> QED BY <1>2, <1>3

LEMMA MinIn ==
  ASSUME NEW T \in SUBSET Nat, T # {}
  PROVE  Min(T) \in T
BY Least DEF Min

\* Induction, for a set in place of a predicate.
LEMMA Upwards ==
  ASSUME NEW S, 0 \in S, \A k \in Nat : k \in S => k + 1 \in S
  PROVE  Nat \subseteq S
<1> SUFFICES ASSUME Nat \ S # {} PROVE FALSE
  OBVIOUS
<1> DEFINE T == Nat \ S
<1>1. PICK x \in T : \A y \in T : x <= y
  <2>1. T \in SUBSET Nat /\ T # {}
    OBVIOUS
  <2> QED BY <2>1, Least
<1>2. x - 1 \in Nat /\ x - 1 \notin T /\ (x - 1) + 1 = x
  BY <1>1
<1> QED BY <1>1, <1>2

\* A list without its first entry of a name.
Without(list, name) == RemoveFirstMatch(list, LAMBDA e : e[1] = name)

LEMMA MatchRemoved ==
  ASSUME NEW S, NEW s \in Seq(S), NEW name, NEW p \in 1 .. Len(s), s[p][1] = name,
         \A j, k \in 1 .. Len(s) : s[j][1] = s[k][1] => j = k
  PROVE  Without(s, name) = RemoveAt(s, p)
<1>1. Len(s) \in Nat
  BY LenProperties
<1>2. {k \in 1 .. Len(s) : s[k][1] = name} = {p}
  BY <1>1
<1>3. Min({p}) = p
  <2>1. {p} \in SUBSET Nat /\ {p} # {}
    BY <1>1
  <2>2. Min({p}) \in {p}
    BY <2>1, MinIn
  <2> QED BY <2>2
<1>4. SelectInSeq(s, LAMBDA e : e[1] = name) = p
  BY <1>2, <1>3 DEF SelectInSeq
<1> QED BY <1>4 DEF RemoveFirstMatch, Without

LEMMA FirstRemoved ==
  ASSUME NEW S, NEW s \in Seq(S), NEW p \in 1 .. Len(s),
         \A j, k \in 1 .. Len(s) : s[j] = s[k] => j = k
  PROVE  RemoveFirst(s, s[p]) = RemoveAt(s, p)
<1>1. Len(s) \in Nat
  BY LenProperties
<1>2. {k \in 1 .. Len(s) : s[k] = s[p]} = {p}
  BY <1>1
<1>3. Min({p}) = p
  <2>1. {p} \in SUBSET Nat /\ {p} # {}
    BY <1>1
  <2>2. Min({p}) \in {p}
    BY <2>1, MinIn
  <2> QED BY <2>2
<1>4. SelectInSeq(s, LAMBDA v : v = s[p]) = p
  BY <1>2, <1>3 DEF SelectInSeq
<1> QED BY <1>4 DEF RemoveFirst

\* Paths.
LEMMA PathParts ==
  ASSUME NEW p \in Seq(Names), NEW name \in Names
  PROVE  /\ Append(p, name) \in Seq(Names) /\ Append(p, name) # <<>>
         /\ Front(Append(p, name)) = p /\ Last(Append(p, name)) = name
         /\ p # <<>> => /\ Front(p) \in Seq(Names) /\ Last(p) \in Names
                        /\ Append(Front(p), Last(p)) = p
<1>1. /\ Append(p, name) \in Seq(Names) /\ Append(p, name) # <<>>
      /\ Len(Append(p, name)) = Len(p) + 1
      /\ \A k \in 1 .. Len(p) : Append(p, name)[k] = p[k]
      /\ Append(p, name)[Len(p) + 1] = name /\ Len(p) \in Nat
  BY AppendProperties, LenProperties
<1>2. Last(Append(p, name)) = name
  BY <1>1 DEF Last
<1>3. Front(Append(p, name)) = p
  <2>1. Front(Append(p, name)) = SubSeq(Append(p, name), 1, Len(p))
    BY <1>1 DEF Front
  <2>2. \A k \in 1 .. Len(p) : Append(p, name)[k] \in Names
    BY <1>1, ElementOfSeq
  <2>3. /\ SubSeq(Append(p, name), 1, Len(p)) \in Seq(Names)
        /\ Len(SubSeq(Append(p, name), 1, Len(p))) = IF 1 <= Len(p) THEN Len(p) - 1 + 1 ELSE 0
        /\ \A k \in 1 .. Len(p) - 1 + 1 :
             SubSeq(Append(p, name), 1, Len(p))[k] = Append(p, name)[1 + k - 1]
    BY <2>2, <1>1, SubSeqProperties
  <2>4. /\ Len(SubSeq(Append(p, name), 1, Len(p))) = Len(p)
        /\ \A k \in 1 .. Len(p) : SubSeq(Append(p, name), 1, Len(p))[k] = p[k]
    BY <2>3, <1>1
  <2> QED BY <2>1, <2>3, <2>4, SeqEqual
<1>4. ASSUME p # <<>>
      PROVE  Front(p) \in Seq(Names) /\ Last(p) \in Names /\ Append(Front(p), Last(p)) = p
  <2>1. PICK q \in Seq(Names), x \in Names : p = Append(q, x)
    BY <1>4, SequenceEmptyOrAppend
  <2>2. /\ Len(p) = Len(q) + 1 /\ p[Len(q) + 1] = x /\ Len(q) \in Nat
        /\ \A k \in 1 .. Len(q) : p[k] = q[k]
    BY <2>1, AppendProperties, LenProperties
  <2>3. Last(p) = x
    BY <2>2 DEF Last
  <2>4. Front(p) = SubSeq(p, 1, Len(q))
    BY <2>2 DEF Front
  <2>5. \A k \in 1 .. Len(q) : p[k] \in Names
    BY <2>2, ElementOfSeq
  <2>6. /\ SubSeq(p, 1, Len(q)) \in Seq(Names)
        /\ Len(SubSeq(p, 1, Len(q))) = IF 1 <= Len(q) THEN Len(q) - 1 + 1 ELSE 0
        /\ \A k \in 1 .. Len(q) - 1 + 1 : SubSeq(p, 1, Len(q))[k] = p[1 + k - 1]
    BY <2>5, <2>2, SubSeqProperties
  <2>7. /\ Len(SubSeq(p, 1, Len(q))) = Len(q)
        /\ \A k \in 1 .. Len(q) : SubSeq(p, 1, Len(q))[k] = q[k]
    BY <2>6, <2>2
  <2>8. Front(p) = q
    BY <2>4, <2>6, <2>7, SeqEqual
  <2> QED BY <2>1, <2>3, <2>8
<1> QED BY <1>1, <1>2, <1>3, <1>4

-----------------------------------------------------------------------------
(* The parts of a file system.                                             *)

LEMMA TypeParts ==
  ASSUME NEW n, NEW m, NEW fs \in FsType(n, m)
  PROVE  /\ fs.ibitmap \in [Upto(n) -> {0, 1}] /\ DOMAIN fs.ibitmap = Upto(n)
         /\ fs.dbitmap \in [Upto(m) -> {0, 1}] /\ DOMAIN fs.dbitmap = Upto(m)
         /\ fs.inodes \in [Upto(n) -> InodeType(m)] /\ DOMAIN fs.inodes = Upto(n)
         /\ fs.data \in [Upto(m) -> BlockType(n)] /\ DOMAIN fs.data = Upto(m)
         /\ fs.files \in Seq(Seq(Names)) /\ fs.dirs \in SUBSET Seq(Names)
         /\ ToSet(fs.files) \in SUBSET Seq(Names)
         /\ DOMAIN fs.nameToInum \in SUBSET Seq(Names)
         /\ fs.nameToInum \in [DOMAIN fs.nameToInum -> Upto(n)]
         /\ fs = [ibitmap |-> fs.ibitmap, inodes |-> fs.inodes, dbitmap |-> fs.dbitmap,
                  data |-> fs.data, files |-> fs.files, dirs |-> fs.dirs,
                  nameToInum |-> fs.nameToInum]
<1>1. fs.files \in Seq(Seq(Names))
  BY DEF FsType
<1>2. ToSet(fs.files) \in SUBSET Seq(Names)
  BY <1>1, LenProperties, ElementOfSeq DEF ToSet
<1>3. PICK P \in SUBSET Seq(Names) : fs.nameToInum \in [P -> Upto(n)]
  BY DEF FsType
<1>4. DOMAIN fs.nameToInum = P
  BY <1>3
<1> QED BY <1>1, <1>2, <1>3, <1>4 DEF FsType

LEMMA TypeOfParts ==
  ASSUME NEW n, NEW m,
         NEW ib \in [Upto(n) -> {0, 1}], NEW inodes \in [Upto(n) -> InodeType(m)],
         NEW db \in [Upto(m) -> {0, 1}], NEW data \in [Upto(m) -> BlockType(n)],
         NEW files \in Seq(Seq(Names)), NEW dirs \in SUBSET Seq(Names),
         NEW P \in SUBSET Seq(Names), NEW table \in [P -> Upto(n)]
  PROVE  [ibitmap |-> ib, inodes |-> inodes, dbitmap |-> db, data |-> data,
          files |-> files, dirs |-> dirs, nameToInum |-> table] \in FsType(n, m)
BY DEF FsType

LEMMA FieldTypes ==
  ASSUME NEW n, NEW m
  PROVE  /\ \A r \in InodeType(m) : /\ r.ftype \in {"f", "d", "free"}
                                   /\ r.addr \in {None} \cup Upto(m)
                                   /\ r.refCnt \in Int
         /\ \A b \in BlockType(n) : /\ b.ftype \in {"f", "d", "free"}
                                   /\ b.dirList \in Seq(AllNames \X Upto(n))
                                   /\ b.data \in Chars \cup {""}
BY DEF InodeType, BlockType

LEMMA Fields ==
  ASSUME NEW n, NEW m, NEW fs \in FsType(n, m)
  PROVE  /\ \A i \in Upto(n) : /\ fs.inodes[i] \in InodeType(m)
                               /\ fs.inodes[i].ftype \in {"f", "d", "free"}
                               /\ fs.inodes[i].addr \in {None} \cup Upto(m)
                               /\ fs.inodes[i].refCnt \in Int
         /\ \A b \in Upto(m) : /\ fs.data[b] \in BlockType(n)
                               /\ fs.data[b].ftype \in {"f", "d", "free"}
                               /\ fs.data[b].dirList \in Seq(AllNames \X Upto(n))
                               /\ fs.data[b].data \in Chars \cup {""}
         /\ \A i \in Upto(n) : fs.ibitmap[i] \in {0, 1}
         /\ \A b \in Upto(m) : fs.dbitmap[b] \in {0, 1}
<1>1. fs.inodes \in [Upto(n) -> InodeType(m)] /\ fs.data \in [Upto(m) -> BlockType(n)]
  BY DEF FsType
<1>2. fs.ibitmap \in [Upto(n) -> {0, 1}] /\ fs.dbitmap \in [Upto(m) -> {0, 1}]
  BY DEF FsType
<1> QED BY <1>1, <1>2, FieldTypes

\* Changes of an inode and of a block.
WithAddr(inode, a) == [inode EXCEPT !.addr = a]
WithCount(inode, c) == [inode EXCEPT !.refCnt = c]
Unused(inode) == [inode EXCEPT !.ftype = "free", !.addr = None]
WithList(block, list) == [block EXCEPT !.dirList = list]

LEMMA AddrUpdate ==
  ASSUME NEW m, NEW r \in InodeType(m), NEW a \in {None} \cup Upto(m)
  PROVE  /\ WithAddr(r, a) \in InodeType(m) /\ WithAddr(r, a).ftype = r.ftype
         /\ WithAddr(r, a).addr = a /\ WithAddr(r, a).refCnt = r.refCnt
BY DEF InodeType, WithAddr

LEMMA CountUpdate ==
  ASSUME NEW m, NEW r \in InodeType(m), NEW c \in Int
  PROVE  /\ WithCount(r, c) \in InodeType(m) /\ WithCount(r, c).ftype = r.ftype
         /\ WithCount(r, c).addr = r.addr /\ WithCount(r, c).refCnt = c
BY DEF InodeType, WithCount

LEMMA FreeUpdate ==
  ASSUME NEW m, NEW r \in InodeType(m)
  PROVE  /\ Unused(r) \in InodeType(m) /\ Unused(r).ftype = "free"
         /\ Unused(r).refCnt = r.refCnt
BY DEF InodeType, Unused

LEMMA BlockUpdate ==
  ASSUME NEW n, NEW b \in BlockType(n), NEW list \in Seq(AllNames \X Upto(n))
  PROVE  /\ WithList(b, list) \in BlockType(n) /\ WithList(b, list).ftype = b.ftype
         /\ WithList(b, list).dirList = list /\ WithList(b, list).data = b.data
BY DEF BlockType, WithList

LEMMA NoNumber == ASSUME NEW n PROVE None \notin Upto(n)
BY DEF None, Upto

LEMMA LiveParts ==
  ASSUME NEW n, NEW m, NEW fs \in FsType(n, m)
  PROVE  /\ Live(fs) \subseteq Upto(n) /\ Directories(fs) \subseteq Live(fs)
         /\ \A i \in Upto(n) : /\ i \in Live(fs) <=> fs.inodes[i].ftype # "free"
                               /\ i \in Directories(fs) <=> fs.inodes[i].ftype = "d"
<1>1. DOMAIN fs.inodes = Upto(n)
  BY DEF FsType
<1>2. \A i \in Upto(n) : i \in Live(fs) <=> fs.inodes[i].ftype # "free"
  BY <1>1 DEF Live
<1>3. Live(fs) \subseteq Upto(n) /\ Directories(fs) \subseteq Live(fs)
  BY <1>1 DEF Live, Directories
<1>4. \A i \in Upto(n) : i \in Directories(fs) <=> fs.inodes[i].ftype = "d"
  BY <1>2 DEF Directories
<1> QED BY <1>2, <1>3, <1>4

LEMMA SameLive ==
  ASSUME NEW n, NEW m, NEW fs \in FsType(n, m), NEW fs2 \in FsType(n, m),
         \A i \in Upto(n) : fs2.inodes[i].ftype = fs.inodes[i].ftype
  PROVE  Live(fs2) = Live(fs) /\ Directories(fs2) = Directories(fs)
<1>1. DOMAIN fs.inodes = Upto(n) /\ DOMAIN fs2.inodes = Upto(n)
  BY DEF FsType
<1>2. Live(fs2) = Live(fs)
  BY <1>1 DEF Live
<1>3. Live(fs) \subseteq Upto(n)
  BY LiveParts
<1> QED BY <1>2, <1>3 DEF Directories

\* The blocks of directories.
LEMMA DirectoryBlocks ==
  ASSUME NEW n, NEW m, NEW fs \in FsType(n, m), Owned(fs)
  PROVE  /\ \A d \in Directories(fs) :
              /\ fs.inodes[d].addr \in Upto(m) /\ fs.inodes[d].addr # None
              /\ fs.data[fs.inodes[d].addr].ftype = "d"
              /\ EntriesOf(fs, d) = fs.data[fs.inodes[d].addr].dirList
              /\ EntriesOf(fs, d) \in Seq(AllNames \X Upto(n))
              /\ Entry(fs, d) \in SUBSET (AllNames \X Upto(n))
         /\ \A d \in Directories(fs), i \in Live(fs) :
              fs.inodes[d].addr = fs.inodes[i].addr => d = i
<1>1. ASSUME NEW d \in Directories(fs)
      PROVE  /\ fs.inodes[d].addr \in Upto(m) /\ fs.inodes[d].addr # None
             /\ fs.data[fs.inodes[d].addr].ftype = "d"
             /\ EntriesOf(fs, d) = fs.data[fs.inodes[d].addr].dirList
             /\ EntriesOf(fs, d) \in Seq(AllNames \X Upto(n))
             /\ Entry(fs, d) \in SUBSET (AllNames \X Upto(n))
  <2>1. d \in Live(fs) /\ d \in Upto(n) /\ fs.inodes[d].ftype = "d"
    BY LiveParts
  <2>2. fs.inodes[d].addr # None /\ fs.data[fs.inodes[d].addr].ftype = "d"
    BY <2>1 DEF Owned
  <2>3. fs.inodes[d].addr \in Upto(m)
    BY <2>1, <2>2, Fields
  <2>4. EntriesOf(fs, d) = fs.data[fs.inodes[d].addr].dirList
    BY DEF EntriesOf
  <2>5. EntriesOf(fs, d) \in Seq(AllNames \X Upto(n))
    <3>1. \A b \in Upto(m) : fs.data[b].dirList \in Seq(AllNames \X Upto(n))
      BY Fields
    <3> QED BY <3>1, <2>3, <2>4
  <2>6. Entry(fs, d) \in SUBSET (AllNames \X Upto(n))
    BY <2>5, LenProperties, ElementOfSeq DEF Entry, ToSet
  <2> QED BY <2>2, <2>3, <2>4, <2>5, <2>6
<1>2. ASSUME NEW d \in Directories(fs), NEW i \in Live(fs),
             fs.inodes[d].addr = fs.inodes[i].addr
      PROVE  d = i
  <2>1. d \in Live(fs)
    BY LiveParts
  <2> QED BY <2>1, <1>1, <1>2 DEF Owned
<1> QED BY <1>1, <1>2

\* Directory d is in a block of its own.
InBlock(n, m, fs, d) ==
  /\ d \in Upto(n) /\ d \in Live(fs)
  /\ fs.inodes[d].addr \in Upto(m) /\ fs.data[fs.inodes[d].addr].ftype = "d"
  /\ EntriesOf(fs, d) = fs.data[fs.inodes[d].addr].dirList
  /\ EntriesOf(fs, d) \in Seq(AllNames \X Upto(n))
  /\ \A i \in Live(fs) : fs.inodes[i].addr = fs.inodes[d].addr => i = d

LEMMA DirectoryBlock ==
  ASSUME NEW n, NEW m, NEW fs \in FsType(n, m), Owned(fs), NEW d \in Directories(fs)
  PROVE  InBlock(n, m, fs, d)
<1>1. d \in Upto(n) /\ d \in Live(fs)
  BY LiveParts
<1>2. /\ fs.inodes[d].addr \in Upto(m) /\ fs.data[fs.inodes[d].addr].ftype = "d"
      /\ EntriesOf(fs, d) \in Seq(AllNames \X Upto(n))
  BY DirectoryBlocks
<1>3. \A i \in Live(fs) : fs.inodes[i].addr = fs.inodes[d].addr => i = d
  BY DirectoryBlocks
<1> QED BY <1>1, <1>2, <1>3 DEF EntriesOf, InBlock

\* Names in a directory.
EntryAt(fs, dir, e) ==
  \E k \in 1 .. Len(EntriesOf(fs, dir)) :
    /\ EntriesOf(fs, dir)[k] = e
    /\ e[1] \notin Dots <=> k >= 3

LEMMA EntryNames ==
  ASSUME NEW n, NEW m, NEW fs \in FsType(n, m), Owned(fs), Lists(fs),
         NEW d \in Directories(fs)
  PROVE  /\ \A e1, e2 \in Entry(fs, d) : e1[1] = e2[1] => e1 = e2
         /\ <<".", d>> \in Entry(fs, d)
         /\ \E up \in Upto(n) : <<"..", up>> \in Entry(fs, d)
         /\ \A e \in Entry(fs, d) : EntryAt(fs, d, e)
<1> DEFINE list == EntriesOf(fs, d)
<1>1. /\ list \in Seq(AllNames \X Upto(n)) /\ Len(list) \in Nat
      /\ DOMAIN list = 1 .. Len(list)
      /\ \A k \in 1 .. Len(list) : list[k] \in AllNames \X Upto(n)
  BY DirectoryBlocks, LenProperties, ElementOfSeq
<1>2. /\ Len(list) >= 2 /\ list[1] = <<".", d>> /\ list[2][1] = ".."
      /\ \A j, k \in 1 .. Len(list) : list[j][1] = list[k][1] => j = k
  BY <1>1 DEF Lists, ListFits
<1>3. Entry(fs, d) = {list[k] : k \in 1 .. Len(list)}
  BY <1>1 DEF Entry, ToSet
<1> HIDE DEF list
<1>4. <<".", d>> \in Entry(fs, d)
  BY <1>1, <1>2, <1>3
<1>5. list[2] \in Entry(fs, d) /\ list[2] = <<"..", list[2][2]>> /\ list[2][2] \in Upto(n)
  <2>1. 2 \in 1 .. Len(list)
    BY <1>1, <1>2
  <2> QED BY <2>1, <1>1, <1>2, <1>3
<1>6. \A k \in 1 .. Len(list) : list[k][1] \notin Dots <=> k >= 3
  <2>1. 1 \in 1 .. Len(list) /\ 2 \in 1 .. Len(list) /\ list[1][1] = "."
    BY <1>1, <1>2
  <2> QED BY <2>1, <1>2, <1>1 DEF Dots
<1>7. \A e \in Entry(fs, d) : EntryAt(fs, d, e)
  BY <1>3, <1>6 DEF EntryAt, list
<1> QED BY <1>2, <1>3, <1>4, <1>5, <1>7 DEF list

-----------------------------------------------------------------------------
(* What is sound is consistent.                                            *)

LEMMA SoundBitmaps ==
  ASSUME NEW n, NEW m, NEW fs \in FsType(n, m), Bits(fs), Owned(fs)
  PROVE  BitmapsAgree(fs) /\ InodesFit(fs)
<1>0. /\ DOMAIN fs.inodes = Upto(n) /\ DOMAIN fs.data = Upto(m)
      /\ \A b \in Upto(m) : fs.dbitmap[b] \in {0, 1}
  BY DEF FsType
<1>1. \A i \in DOMAIN fs.inodes : fs.ibitmap[i] = 1 <=> i \in Live(fs)
  BY <1>0, LiveParts DEF Bits
<1>2. ASSUME NEW b \in DOMAIN fs.data
      PROVE  /\ fs.dbitmap[b] = 1 <=> fs.data[b].ftype # "free"
             /\ Cardinality({i \in Live(fs) : fs.inodes[i].addr = b}) = fs.dbitmap[b]
  <2> DEFINE T == {i \in Live(fs) : fs.inodes[i].addr = b}
  <2>1. fs.dbitmap[b] = 1 <=> fs.data[b].ftype # "free"
    BY <1>2 DEF Bits
  <2>2. b # None /\ fs.dbitmap[b] \in {0, 1}
    BY <1>0, <1>2 DEF None, Upto
  <2>3. CASE fs.data[b].ftype = "free"
    <3>1. ASSUME NEW i \in T PROVE FALSE
      <4>1. i \in Live(fs) /\ fs.inodes[i].addr = b /\ fs.inodes[i].ftype # "free"
        BY LiveParts
      <4> QED BY <4>1, <2>2, <2>3 DEF Owned
    <3>2. T = {}
      BY <3>1
    <3>3. Cardinality(T) = 0
      BY <3>2, FS_EmptySet
    <3> QED BY <3>3, <2>1, <2>2, <2>3
  <2>4. CASE fs.data[b].ftype # "free"
    <3>1. PICK i \in Live(fs) : fs.inodes[i].addr = b
      BY <2>4, <1>2 DEF Owned
    <3>2. T = {i}
      BY <3>1, <2>2 DEF Owned
    <3>3. Cardinality(T) = 1
      BY <3>2, FS_Singleton
    <3> QED BY <3>3, <2>1, <2>4
  <2> QED BY <2>3, <2>4
<1>3. InodesFit(fs)
  BY DEF InodesFit, Owned
<1> QED BY <1>1, <1>2, <1>3 DEF BitmapsAgree

\* References by position are as many as links by name.
LEMMA LinksAreRefs ==
  ASSUME NEW n, NEW m, NEW fs \in FsType(n, m), Owned(fs), Lists(fs),
         n \in Nat, MaxUsed \in Nat, NEW inum
  PROVE  /\ IsFiniteSet(Links(fs, inum))
         /\ Cardinality(RefsTo(fs, inum)) = Cardinality(Links(fs, inum))
<1> DEFINE D == Directories(fs)
           R == RefsTo(fs, inum)
           L == Links(fs, inum)
           list(d) == EntriesOf(fs, d)
           f == [ref \in R |-> <<ref[1], list(ref[1])[ref[2]][1]>>]
<1>1. \A d \in D :
        /\ Len(list(d)) \in 2 .. MaxUsed
        /\ \A k \in 1 .. Len(list(d)) : list(d)[k] \in AllNames \X Upto(n)
        /\ \A j, k \in 1 .. Len(list(d)) : list(d)[j][1] = list(d)[k][1] => j = k
        /\ Entry(fs, d) = {list(d)[k] : k \in 1 .. Len(list(d))}
  <2> SUFFICES ASSUME NEW d \in D
      PROVE /\ Len(list(d)) \in 2 .. MaxUsed
            /\ \A k \in 1 .. Len(list(d)) : list(d)[k] \in AllNames \X Upto(n)
            /\ \A j, k \in 1 .. Len(list(d)) : list(d)[j][1] = list(d)[k][1] => j = k
            /\ Entry(fs, d) = {list(d)[k] : k \in 1 .. Len(list(d))}
    OBVIOUS
  <2>1. list(d) \in Seq(AllNames \X Upto(n))
    BY DirectoryBlocks
  <2>2. DOMAIN list(d) = 1 .. Len(list(d))
    BY <2>1, LenProperties
  <2>3. \A k \in 1 .. Len(list(d)) : list(d)[k] \in AllNames \X Upto(n)
    BY <2>1, ElementOfSeq
  <2> QED BY <2>2, <2>3 DEF Lists, ListFits, Entry, ToSet
<1>2. R = {ref \in D \X (1 .. MaxUsed) :
             ref[2] <= Len(list(ref[1])) /\ list(ref[1])[ref[2]][2] = inum}
  BY DEF RefsTo
<1>3. L = {l \in D \X AllNames : <<l[2], inum>> \in Entry(fs, l[1])}
  BY DEF Links
<1>4. IsFiniteSet(R)
  <2>1. IsFiniteSet(Upto(n)) /\ IsFiniteSet(1 .. MaxUsed)
    BY FS_Interval DEF Upto
  <2>2. D \subseteq Upto(n)
    BY LiveParts
  <2>3. IsFiniteSet(D)
    BY <2>1, <2>2, FS_Subset
  <2>4. IsFiniteSet(D \X (1 .. MaxUsed))
    BY <2>1, <2>3, FS_Product
  <2>5. R \subseteq D \X (1 .. MaxUsed)
    BY <1>2
  <2> QED BY <2>4, <2>5, FS_Subset
<1> HIDE DEF D, R, L, list
<1>5. ASSUME NEW ref \in R PROVE f[ref] \in L
  <2>1. /\ ref[1] \in D /\ ref[2] \in 1 .. Len(list(ref[1]))
        /\ list(ref[1])[ref[2]][2] = inum
    BY <1>1, <1>2
  <2>2. list(ref[1])[ref[2]] \in AllNames \X Upto(n)
    BY <2>1, <1>1
  <2>3. <<list(ref[1])[ref[2]][1], inum>> \in Entry(fs, ref[1])
    BY <2>1, <2>2, <1>1
  <2> QED BY <2>1, <2>2, <2>3, <1>3
<1>6. ASSUME NEW r1 \in R, NEW r2 \in R, f[r1] = f[r2] PROVE r1 = r2
  <2>1. /\ r1[1] \in D /\ r1[2] \in 1 .. Len(list(r1[1]))
        /\ r2[1] \in D /\ r2[2] \in 1 .. Len(list(r2[1]))
        /\ r1 = <<r1[1], r1[2]>> /\ r2 = <<r2[1], r2[2]>>
    BY <1>1, <1>2
  <2>2. r1[1] = r2[1] /\ list(r1[1])[r1[2]][1] = list(r1[1])[r2[2]][1]
    BY <1>6
  <2>3. r1[2] = r2[2]
    BY <2>1, <2>2, <1>1
  <2> QED BY <2>1, <2>2, <2>3
<1>7. ASSUME NEW l \in L PROVE \E ref \in R : f[ref] = l
  <2>1. l[1] \in D /\ l = <<l[1], l[2]>> /\ <<l[2], inum>> \in Entry(fs, l[1])
    BY <1>3
  <2>2. PICK k \in 1 .. Len(list(l[1])) : list(l[1])[k] = <<l[2], inum>>
    BY <2>1, <1>1
  <2>3. k \in 1 .. MaxUsed /\ k <= Len(list(l[1]))
    BY <2>1, <1>1
  <2>4. <<l[1], k>> \in R
    BY <2>1, <2>2, <2>3, <1>2
  <2>5. f[<<l[1], k>>] = <<l[1], l[2]>>
    BY <2>4, <2>2
  <2> QED BY <2>1, <2>4, <2>5
<1>8. f \in [R -> L]
  BY <1>5
<1> HIDE DEF f
<1>9. f \in Bijection(R, L)
  BY <1>6, <1>7, <1>8 DEF Bijection, Injection, Surjection, IsInjective
<1>10. ExistsBijection(R, L)
  BY <1>9 DEF ExistsBijection
<1>11. IsFiniteSet(L) /\ Cardinality(L) = Cardinality(R)
  BY <1>10, <1>4, FS_Bijection
<1> QED BY <1>11 DEF R, L

LEMMA SoundConsistent ==
  ASSUME NEW n, NEW m, NEW fs \in FsType(n, m), Sound(fs), n \in Nat, MaxUsed \in Nat
  PROVE  Consistent(fs)
<1> USE DEF Sound
<1>1. BitmapsAgree(fs) /\ InodesFit(fs)
  BY SoundBitmaps
<1>2. ASSUME NEW i \in Live(fs)
      PROVE  fs.inodes[i].refCnt = Cardinality(RefsTo(fs, i)) /\ fs.inodes[i].refCnt > 0
  <2>1. fs.inodes[i].refCnt = Cardinality(Links(fs, i)) /\ Links(fs, i) # {}
    BY DEF Counted
  <2>2. IsFiniteSet(Links(fs, i)) /\ Cardinality(RefsTo(fs, i)) = Cardinality(Links(fs, i))
    BY LinksAreRefs
  <2>3. Cardinality(Links(fs, i)) \in Nat /\ Cardinality(Links(fs, i)) # 0
    BY <2>1, <2>2, FS_CardinalityType, FS_EmptySet
  <2> QED BY <2>1, <2>2, <2>3
<1>3. ASSUME NEW dir \in Directories(fs)
      PROVE  LET list == EntriesOf(fs, dir)
                 parents == {up \in Directories(fs) :
                               \E k \in 3 .. Len(EntriesOf(fs, up)) :
                                 EntriesOf(fs, up)[k][2] = dir}
             IN /\ Len(list) \in 2 .. MaxUsed
                /\ list[1] = <<".", dir>> /\ list[2][1] = ".."
                /\ {list[2][2]} = IF dir = ROOT THEN {ROOT} ELSE parents
                /\ \A j, k \in DOMAIN list : list[j][1] = list[k][1] => j = k
                /\ \A k \in DOMAIN list : list[k][2] \in Live(fs)
  <2> DEFINE list == EntriesOf(fs, dir)
             parents == {up \in Directories(fs) :
                           \E k \in 3 .. Len(EntriesOf(fs, up)) :
                             EntriesOf(fs, up)[k][2] = dir}
  <2>1. list \in Seq(AllNames \X Upto(n)) /\ DOMAIN list = 1 .. Len(list)
    BY DirectoryBlocks, LenProperties
  <2>2. ListFits(list, dir)
    BY DEF Lists
  <2>3. Entry(fs, dir) = {list[k] : k \in 1 .. Len(list)}
    BY <2>1 DEF Entry, ToSet
  <2>4. \A k \in DOMAIN list : list[k][2] \in Live(fs)
    BY <2>1, <2>3 DEF EntriesLive
  <2>5. 2 \in 1 .. Len(list) /\ list[2][1] = ".." /\ list[2] \in Entry(fs, dir)
    BY <2>2, <2>3 DEF ListFits
  <2>6. \A up : <<"..", up>> \in Entry(fs, dir) => list[2][2] = up
    <3>1. SUFFICES ASSUME NEW up, <<"..", up>> \in Entry(fs, dir) PROVE list[2][2] = up
      OBVIOUS
    <3>2. \A e1, e2 \in Entry(fs, dir) : e1[1] = e2[1] => e1 = e2
      BY EntryNames
    <3>3. list[2] = <<"..", up>>
      BY <3>1, <3>2, <2>5
    <3> QED BY <3>3
  <2>7. CASE dir = ROOT
    <3>1. list[2][2] = ROOT
      BY <2>6, <2>7 DEF Rooted
    <3> QED BY <2>1, <2>2, <2>4, <2>7, <3>1 DEF ListFits
  <2>8. CASE dir # ROOT
    <3>1. PICK up \in Directories(fs), name \in AllNames \ Dots : <<name, dir>> \in Entry(fs, up)
      BY <2>8 DEF Rooted
    <3>2. list[2][2] = up
      BY <3>1, <2>6, <2>8 DEF Rooted
    <3>3. up \in parents
      <4>0. EntryAt(fs, up, <<name, dir>>)
        BY <3>1, EntryNames
      <4>1. PICK k \in 1 .. Len(EntriesOf(fs, up)) :
              EntriesOf(fs, up)[k] = <<name, dir>> /\ (name \notin Dots <=> k >= 3)
        BY <4>0 DEF EntryAt
      <4>2. k \in 3 .. Len(EntriesOf(fs, up)) /\ EntriesOf(fs, up)[k][2] = dir
        BY <4>1, <3>1
      <4> QED BY <4>2
    <3>4. ASSUME NEW u \in parents PROVE u = up
      <4>1. u \in Directories(fs)
        OBVIOUS
      <4>2. PICK k \in 3 .. Len(EntriesOf(fs, u)) : EntriesOf(fs, u)[k][2] = dir
        BY <3>4
      <4>3. /\ EntriesOf(fs, u) \in Seq(AllNames \X Upto(n))
            /\ DOMAIN EntriesOf(fs, u) = 1 .. Len(EntriesOf(fs, u))
            /\ Len(EntriesOf(fs, u)) \in Nat
        BY <4>1, DirectoryBlocks, LenProperties
      <4>4. k \in 1 .. Len(EntriesOf(fs, u))
        BY <4>2, <4>3
      <4>5. EntriesOf(fs, u)[k] \in AllNames \X Upto(n)
        BY <4>3, <4>4, ElementOfSeq
      <4>6. EntriesOf(fs, u)[k] \in Entry(fs, u)
        BY <4>3, <4>4 DEF Entry, ToSet
      <4>7. PICK j \in 1 .. Len(EntriesOf(fs, u)) :
              /\ EntriesOf(fs, u)[j] = EntriesOf(fs, u)[k]
              /\ EntriesOf(fs, u)[k][1] \notin Dots <=> j >= 3
        <5>1. EntryAt(fs, u, EntriesOf(fs, u)[k])
          BY <4>1, <4>6, EntryNames
        <5> QED BY <5>1 DEF EntryAt
      <4>8. j = k
        BY <4>1, <4>4, <4>7 DEF Lists, ListFits
      <4>9. EntriesOf(fs, u)[k][1] \notin Dots
        BY <4>7, <4>8, <4>2
      <4>10. <<EntriesOf(fs, u)[k][1], dir>> \in Entry(fs, u)
        BY <4>2, <4>5, <4>6
      <4>11. <<"..", u>> \in Entry(fs, dir)
        BY <4>1, <4>5, <4>9, <4>10, <2>8 DEF Rooted
      <4> QED BY <4>11, <2>6, <3>2
    <3>5. parents = {list[2][2]}
      BY <3>2, <3>3, <3>4
    <3> QED BY <2>1, <2>2, <2>4, <2>8, <3>5 DEF ListFits
  <2> QED BY <2>7, <2>8
<1>4. LinksCounted(fs)
  BY <1>2 DEF LinksCounted
<1>5. DirectoriesLinked(fs)
  BY <1>3 DEF DirectoriesLinked
<1> QED BY <1>1, <1>4, <1>5 DEF Consistent

-----------------------------------------------------------------------------
(* An operation that leaves directories and links as they are.             *)

LEMMA NamesUnchanged ==
  ASSUME NEW fs, NEW fs2, Sound(fs),
         Live(fs2) = Live(fs), Directories(fs2) = Directories(fs),
         \A d \in Directories(fs) : EntriesOf(fs2, d) = EntriesOf(fs, d),
         \A i \in Live(fs) : fs2.inodes[i].refCnt = fs.inodes[i].refCnt,
         fs2.files = fs.files, fs2.dirs = fs.dirs, fs2.nameToInum = fs.nameToInum
  PROVE  /\ Lists(fs2) /\ EntriesLive(fs2) /\ Rooted(fs2) /\ Counted(fs2)
         /\ Named(fs2) /\ PathsLead(fs2)
<1>1. \A d \in Directories(fs) : Entry(fs2, d) = Entry(fs, d)
  BY DEF Entry
<1>2. Lists(fs2) /\ EntriesLive(fs2)
  BY <1>1 DEF Sound, Lists, EntriesLive
<1>3. Rooted(fs2)
  BY <1>1 DEF Sound, Rooted
<1>4. ASSUME NEW i PROVE Links(fs2, i) = Links(fs, i)
  BY <1>1 DEF Links
<1>5. Counted(fs2)
  BY <1>4 DEF Sound, Counted
<1>6. Named(fs2)
  BY DEF Sound, Named
<1>7. PathsLead(fs2)
  <2>1. \A p \in fs.dirs : fs.nameToInum[p] \in Directories(fs)
    BY DEF Sound, Named
  <2>2. \A p \in fs.dirs : Entry(fs2, fs.nameToInum[p]) = Entry(fs, fs.nameToInum[p])
    BY <2>1, <1>1
  <2> QED BY <2>2 DEF Sound, PathsLead
<1> QED BY <1>2, <1>3, <1>5, <1>6, <1>7

\* What was written to a file, and files it stays the same for.
Content(fs, i) ==
  IF fs.inodes[i].addr = None THEN "" ELSE fs.data[fs.inodes[i].addr].data

SameContent(fs, fs2, I) == \A i \in I : Content(fs2, i) = Content(fs, i)

IsWritten(fs, fs2, inum, char) ==
  /\ fs2.files = fs.files /\ fs2.dirs = fs.dirs /\ fs2.nameToInum = fs.nameToInum
  /\ Content(fs, inum) = "" /\ Content(fs2, inum) = char
  /\ SameContent(fs, fs2, Live(fs) \ {inum})

\* writeFile() on a file without a block, with a free one.
Written(fs, path, char, fblock) ==
  [fs EXCEPT !.dbitmap[fblock] = 1, !.data[fblock] = FileBlock(char),
             !.inodes[fs.nameToInum[path]].addr = fblock]

LEMMA WriteKeeps ==
  ASSUME NEW n, NEW m, NEW fs \in FsType(n, m), Sound(fs),
         NEW path \in ToSet(fs.files), NEW char \in Chars, NEW b \in FreeBits(fs.dbitmap),
         fs.inodes[fs.nameToInum[path]].addr = None
  PROVE  /\ Written(fs, path, char, b) \in FsType(n, m)
         /\ Sound(Written(fs, path, char, b))
         /\ \A i \in Upto(n) :
              Written(fs, path, char, b).inodes[i].refCnt = fs.inodes[i].refCnt
         /\ IsWritten(fs, Written(fs, path, char, b), fs.nameToInum[path], char)
<1> DEFINE inum == fs.nameToInum[path]
           fs2 == Written(fs, path, char, b)
<1>1. /\ DOMAIN fs.inodes = Upto(n) /\ DOMAIN fs.data = Upto(m)
      /\ DOMAIN fs.dbitmap = Upto(m)
  BY DEF FsType
<1>2. /\ inum \in Upto(n) /\ inum \in Live(fs) /\ inum \notin Directories(fs)
      /\ fs.inodes[inum].ftype = "f"
  <2>1. inum \in Live(fs) \ Directories(fs)
    BY DEF Sound, Named
  <2>2. inum \in Upto(n)
    BY <2>1, LiveParts
  <2>3. fs.inodes[inum].ftype \in {"f", "d", "free"}
    BY <2>2, Fields
  <2> QED BY <2>1, <2>2, <2>3, LiveParts
<1>3. b \in Upto(m) /\ b # None /\ fs.dbitmap[b] = 0
  BY <1>1 DEF FreeBits, None, Upto
<1>4. fs.data[b].ftype = "free"
  BY <1>1, <1>3 DEF Sound, Bits
<1>5. FileBlock(char) \in BlockType(n) /\ FileBlock(char).ftype = "f"
  BY EmptySeq DEF FileBlock, BlockType
<1> HIDE DEF inum
<1> DEFINE r == WithAddr(fs.inodes[inum], b)
<1>6. /\ r \in InodeType(m) /\ r.ftype = fs.inodes[inum].ftype
      /\ r.addr = b /\ r.refCnt = fs.inodes[inum].refCnt
  <2>1. fs.inodes[inum] \in InodeType(m) /\ b \in {None} \cup Upto(m)
    BY <1>2, <1>3, Fields
  <2> QED BY <2>1, AddrUpdate
<1>7. /\ fs2.ibitmap = fs.ibitmap /\ fs2.dbitmap = [fs.dbitmap EXCEPT ![b] = 1]
      /\ fs2.inodes = [fs.inodes EXCEPT ![inum] = r]
      /\ fs2.data = [fs.data EXCEPT ![b] = FileBlock(char)]
      /\ fs2.files = fs.files /\ fs2.dirs = fs.dirs /\ fs2.nameToInum = fs.nameToInum
  BY DEF FsType, Written, inum, WithAddr
<1>8. fs2 \in FsType(n, m)
  <2>1. [fs.inodes EXCEPT ![inum] = r] \in [Upto(n) -> InodeType(m)]
    BY <1>2, <1>6, TypeParts
  <2>2. [fs.dbitmap EXCEPT ![b] = 1] \in [Upto(m) -> {0, 1}]
    BY <1>3, TypeParts
  <2>3. [fs.data EXCEPT ![b] = FileBlock(char)] \in [Upto(m) -> BlockType(n)]
    BY <1>3, <1>5, TypeParts
  <2> QED BY <2>1, <2>2, <2>3 DEF FsType, Written, inum, WithAddr
<1> HIDE DEF r, fs2
<1>9. \A i \in Upto(n) :
        /\ fs2.inodes[i].ftype = fs.inodes[i].ftype
        /\ fs2.inodes[i].refCnt = fs.inodes[i].refCnt
        /\ fs2.inodes[i].addr = IF i = inum THEN b ELSE fs.inodes[i].addr
  BY <1>1, <1>6, <1>7
<1>10. Live(fs2) = Live(fs) /\ Directories(fs2) = Directories(fs)
  BY <1>8, <1>9, SameLive
<1>11. \A d \in Directories(fs) : EntriesOf(fs2, d) = EntriesOf(fs, d)
  <2> SUFFICES ASSUME NEW d \in Directories(fs) PROVE EntriesOf(fs2, d) = EntriesOf(fs, d)
    OBVIOUS
  <2>1. /\ d \in Upto(n) /\ d # inum
        /\ fs.inodes[d].addr \in Upto(m) /\ fs.data[fs.inodes[d].addr].ftype = "d"
    <3>1. Owned(fs)
      BY DEF Sound
    <3>2. fs.inodes[d].addr \in Upto(m) /\ fs.data[fs.inodes[d].addr].ftype = "d"
      BY <3>1, DirectoryBlocks
    <3> QED BY <3>2, <1>2, LiveParts
  <2>2. fs.inodes[d].addr # b
    BY <2>1, <1>4
  <2>3. fs2.inodes[d].addr = fs.inodes[d].addr
    BY <2>1, <1>9
  <2>4. fs2.data[fs.inodes[d].addr] = fs.data[fs.inodes[d].addr]
    BY <2>1, <2>2, <1>1, <1>7
  <2> QED BY <2>3, <2>4 DEF EntriesOf
<1>12. /\ Lists(fs2) /\ EntriesLive(fs2) /\ Rooted(fs2) /\ Counted(fs2)
       /\ Named(fs2) /\ PathsLead(fs2)
  <2>1. \A i \in Live(fs) : fs2.inodes[i].refCnt = fs.inodes[i].refCnt
    BY <1>9, LiveParts
  <2> QED BY <2>1, <1>7, <1>10, <1>11, NamesUnchanged
<1>13. \A c \in Upto(m) :
         fs2.data[c].ftype = IF c = b THEN "f" ELSE fs.data[c].ftype
  BY <1>1, <1>5, <1>7
<1>14. Bits(fs2)
  <2>1. DOMAIN fs2.inodes = Upto(n) /\ DOMAIN fs2.data = Upto(m)
    BY <1>1, <1>7
  <2>2. \A c \in Upto(m) : fs2.dbitmap[c] = IF c = b THEN 1 ELSE fs.dbitmap[c]
    BY <1>1, <1>7
  <2> QED BY <2>1, <2>2, <1>1, <1>7, <1>9, <1>13 DEF Sound, Bits
<1>15. Owned(fs2)
  <2>1. \A i \in Live(fs) : i \in Upto(n) /\ fs.inodes[i].addr # b
    <3>1. \A i \in Live(fs) : i \in Upto(n) /\ fs.inodes[i].ftype # "free"
      BY LiveParts
    <3> QED BY <3>1, <1>3, <1>4 DEF Sound, Owned
  <2>2. \A i \in Live(fs) : i # inum /\ fs.inodes[i].addr # None =>
          fs.inodes[i].addr \in Upto(m)
    BY <2>1, Fields
  <2>3. DOMAIN fs2.data = Upto(m)
    BY <1>1, <1>7
  <2>4. ASSUME NEW i \in Live(fs)
        PROVE IF fs2.inodes[i].addr = None THEN fs2.inodes[i].ftype = "f"
              ELSE fs2.data[fs2.inodes[i].addr].ftype = fs2.inodes[i].ftype
    <3>1. CASE i = inum
      BY <3>1, <1>2, <1>3, <1>9, <1>13
    <3>2. CASE i # inum
      BY <3>2, <2>1, <2>2, <1>9, <1>13 DEF Sound, Owned
    <3> QED BY <3>1, <3>2
  <2>5. ASSUME NEW i \in Live(fs), NEW j \in Live(fs),
               fs2.inodes[i].addr = fs2.inodes[j].addr, fs2.inodes[i].addr # None
        PROVE i = j
    BY <2>1, <2>5, <1>9 DEF Sound, Owned
  <2>6. ASSUME NEW c \in Upto(m), fs2.data[c].ftype # "free"
        PROVE \E i \in Live(fs) : fs2.inodes[i].addr = c
    <3>1. CASE c = b
      BY <3>1, <1>2, <1>9
    <3>2. CASE c # b
      <4>1. PICK i \in Live(fs) : fs.inodes[i].addr = c
        BY <3>2, <2>6, <1>1, <1>13 DEF Sound, Owned
      <4>2. i # inum /\ i \in Upto(n)
        BY <4>1, <2>1, NoNumber DEF inum
      <4> QED BY <4>1, <4>2, <1>9
    <3> QED BY <3>1, <3>2
  <2> QED BY <2>3, <2>4, <2>5, <2>6, <1>10 DEF Owned
<1>16. IsWritten(fs, fs2, inum, char)
  <2>1. Content(fs, inum) = ""
    BY DEF Content, inum
  <2>2. Content(fs2, inum) = char
    <3>1. fs2.data[b].data = char
      BY <1>1, <1>3, <1>7 DEF FileBlock
    <3> QED BY <3>1, <1>2, <1>3, <1>9 DEF Content
  <2>3. ASSUME NEW i \in Live(fs) \ {inum} PROVE Content(fs2, i) = Content(fs, i)
    <3>1. i \in Upto(n) /\ fs.inodes[i].ftype # "free"
      BY LiveParts
    <3>2. fs.inodes[i].addr # b
      BY <3>1, <1>3, <1>4 DEF Sound, Owned
    <3>3. fs.inodes[i].addr \in {None} \cup Upto(m)
      BY <3>1, Fields
    <3>4. fs2.inodes[i].addr = fs.inodes[i].addr
      BY <3>1, <1>9
    <3>5. fs.inodes[i].addr # None =>
            fs2.data[fs.inodes[i].addr] = fs.data[fs.inodes[i].addr]
      BY <3>2, <3>3, <1>1, <1>7
    <3> QED BY <3>4, <3>5 DEF Content
  <2> QED BY <2>1, <2>2, <2>3, <1>7 DEF IsWritten, SameContent
<1> QED BY <1>8, <1>9, <1>12, <1>14, <1>15, <1>16 DEF Sound, fs2, inum

-----------------------------------------------------------------------------
(* Directory lists that get longer and shorter.                            *)

LEMMA LongerList ==
  ASSUME NEW S, NEW list \in Seq(S), NEW e \in S, NEW dir, ListFits(list, dir),
         MaxUsed \in Nat, Len(list) < MaxUsed, \A k \in 1 .. Len(list) : list[k][1] # e[1]
  PROVE  ListFits(Append(list, e), dir)
<1> DEFINE more == Append(list, e)
<1>1. /\ Len(list) \in Nat /\ Len(more) = Len(list) + 1
      /\ \A k \in 1 .. Len(list) : more[k] = list[k]
      /\ more[Len(list) + 1] = e
  BY ListAppend, LenProperties
<1>2. /\ Len(list) >= 2 /\ list[1] = <<".", dir>> /\ list[2][1] = ".."
      /\ \A j, k \in 1 .. Len(list) : list[j][1] = list[k][1] => j = k
  BY <1>1 DEF ListFits
<1> HIDE DEF more
<1>3. Len(more) \in 2 .. MaxUsed /\ more[1] = <<".", dir>> /\ more[2][1] = ".."
  BY <1>1, <1>2
<1>4. ASSUME NEW j \in 1 .. Len(more), NEW k \in 1 .. Len(more), more[j][1] = more[k][1]
      PROVE  j = k
  BY <1>1, <1>2, <1>4
<1> QED BY <1>3, <1>4 DEF ListFits, more

LEMMA ShorterList ==
  ASSUME NEW S, NEW list \in Seq(S), NEW dir, ListFits(list, dir),
         MaxUsed \in Nat, NEW p \in 3 .. Len(list)
  PROVE  ListFits(RemoveAt(list, p), dir)
<1> DEFINE less == RemoveAt(list, p)
<1>0. Len(list) \in Nat /\ p \in 1 .. Len(list)
  BY LenProperties
<1>1. /\ Len(less) = Len(list) - 1
      /\ \A k \in 1 .. Len(list) - 1 : less[k] = IF k < p THEN list[k] ELSE list[k + 1]
  BY <1>0, ListRemoveAt
<1>2. /\ Len(list) <= MaxUsed /\ list[1] = <<".", dir>> /\ list[2][1] = ".."
      /\ \A j, k \in 1 .. Len(list) : list[j][1] = list[k][1] => j = k
  BY <1>0 DEF ListFits
<1> HIDE DEF less
<1>3. Len(less) \in 2 .. MaxUsed /\ less[1] = <<".", dir>> /\ less[2][1] = ".."
  BY <1>0, <1>1, <1>2
<1>4. ASSUME NEW j \in 1 .. Len(less), NEW k \in 1 .. Len(less), less[j][1] = less[k][1]
      PROVE  j = k
  <2> DEFINE was(x) == IF x < p THEN x ELSE x + 1
  <2>1. \A x \in 1 .. Len(less) : was(x) \in 1 .. Len(list) /\ less[x] = list[was(x)]
    BY <1>0, <1>1
  <2>2. was(j) = was(k)
    BY <2>1, <1>2, <1>4
  <2> QED BY <2>2, <1>0, <1>1
<1> QED BY <1>3, <1>4 DEF ListFits, less

\* A name that a directory does not have.
LEMMA NewPath ==
  ASSUME NEW n, NEW m, NEW fs \in FsType(n, m), Sound(fs),
         NEW parent \in fs.dirs, NEW name \in Names,
         \A e \in Entry(fs, fs.nameToInum[parent]) : e[1] # name
  PROVE  /\ fs.nameToInum[parent] \in Directories(fs) /\ name \in AllNames \ Dots
         /\ parent \in Seq(Names)
         /\ Append(parent, name) \in Seq(Names) /\ Append(parent, name) # <<>>
         /\ Front(Append(parent, name)) = parent /\ Last(Append(parent, name)) = name
         /\ Append(parent, name) \notin fs.dirs \cup ToSet(fs.files)
<1> DEFINE pinum == fs.nameToInum[parent]
           path == Append(parent, name)
<1>1. pinum \in Directories(fs)
  BY DEF Sound, Named
<1>2. parent \in Seq(Names) /\ name \in AllNames
  BY TypeParts DEF AllNames
<1>3. path \in Seq(Names) /\ path # <<>> /\ Front(path) = parent /\ Last(path) = name
  BY <1>2, PathParts
<1>4. name \notin Dots
  <2>1. Owned(fs) /\ Lists(fs)
    BY DEF Sound
  <2>2. <<".", pinum>> \in Entry(fs, pinum) /\ \E up : <<"..", up>> \in Entry(fs, pinum)
    BY <2>1, <1>1, EntryNames
  <2> QED BY <2>2 DEF Dots
<1>5. path \notin fs.dirs \cup ToSet(fs.files)
  <2>1. ASSUME path \in fs.dirs \cup ToSet(fs.files) PROVE FALSE
    <3>1. <<Last(path), fs.nameToInum[path]>> \in Entry(fs, fs.nameToInum[Front(path)])
      BY <2>1, <1>3 DEF Sound, PathsLead
    <3>2. <<name, fs.nameToInum[path]>> \in Entry(fs, pinum)
      BY <3>1, <1>3
    <3> QED BY <3>2
  <2> QED BY <2>1
<1> QED BY <1>1, <1>2, <1>3, <1>4, <1>5

\* The directories of fs have the entries they had, and dir has one more.
OneMore(fs, fs2, dir, name, inum) ==
  \A d \in Directories(fs) :
    EntriesOf(fs2, d) = IF d = dir THEN Append(EntriesOf(fs, d), <<name, inum>>)
                       ELSE EntriesOf(fs, d)

LEMMA MoreEntries ==
  ASSUME NEW n, NEW m, NEW fs \in FsType(n, m), NEW fs2, Owned(fs), Lists(fs),
         MaxUsed \in Nat, NEW dir \in Directories(fs), NEW name \in AllNames,
         NEW inum \in Upto(n),
         OneMore(fs, fs2, dir, name, inum),
         Len(EntriesOf(fs, dir)) < MaxUsed, \A old \in Entry(fs, dir) : old[1] # name
  PROVE  \A d \in Directories(fs) :
           /\ Entry(fs2, d) = IF d = dir THEN Entry(fs, d) \cup {<<name, inum>>} ELSE Entry(fs, d)
           /\ ListFits(EntriesOf(fs2, d), d)
<1> SUFFICES ASSUME NEW d \in Directories(fs)
    PROVE /\ Entry(fs2, d) = IF d = dir THEN Entry(fs, d) \cup {<<name, inum>>} ELSE Entry(fs, d)
          /\ ListFits(EntriesOf(fs2, d), d)
  OBVIOUS
<1>1. /\ EntriesOf(fs, d) \in Seq(AllNames \X Upto(n)) /\ ListFits(EntriesOf(fs, d), d)
      /\ <<name, inum>> \in AllNames \X Upto(n)
  BY DirectoryBlocks DEF Lists
<1>2. CASE d # dir
  BY <1>1, <1>2 DEF OneMore, Entry
<1>3. CASE d = dir
  <2>1. EntriesOf(fs2, d) = Append(EntriesOf(fs, d), <<name, inum>>)
    BY <1>3 DEF OneMore
  <2>2. ToSet(Append(EntriesOf(fs, d), <<name, inum>>)) = ToSet(EntriesOf(fs, d)) \cup {<<name, inum>>}
    BY <1>1, ListAppend
  <2>3. \A k \in 1 .. Len(EntriesOf(fs, d)) : EntriesOf(fs, d)[k][1] # <<name, inum>>[1]
    BY <1>1, <1>3, LenProperties DEF Entry, ToSet
  <2>4. ListFits(Append(EntriesOf(fs, d), <<name, inum>>), d)
    BY <1>1, <1>3, <2>3, LongerList
  <2> QED BY <1>3, <2>1, <2>2, <2>4 DEF Entry
<1> QED BY <1>2, <1>3

\* A new name for inum, which is a file or becomes one.
LEMMA FileAdded ==
  ASSUME NEW n, NEW m, NEW fs \in FsType(n, m), NEW fs2 \in FsType(n, m), Sound(fs),
         n \in Nat, MaxUsed \in Nat,
         NEW parent \in fs.dirs, NEW name \in Names, NEW inum \in Upto(n),
         Len(EntriesOf(fs, fs.nameToInum[parent])) < MaxUsed,
         \A e \in Entry(fs, fs.nameToInum[parent]) : e[1] # name,
         inum \notin Directories(fs),
         Live(fs2) = Live(fs) \cup {inum}, Directories(fs2) = Directories(fs),
         OneMore(fs, fs2, fs.nameToInum[parent], name, inum),
         \A i \in Live(fs) \ {inum} : fs2.inodes[i].refCnt = fs.inodes[i].refCnt,
         fs2.inodes[inum].refCnt = Cardinality(Links(fs, inum)) + 1,
         fs2.files = Append(fs.files, Append(parent, name)), fs2.dirs = fs.dirs,
         fs2.nameToInum = Known(fs.nameToInum, Append(parent, name), inum)
  PROVE  /\ Lists(fs2) /\ EntriesLive(fs2) /\ Rooted(fs2) /\ Counted(fs2)
         /\ Named(fs2) /\ PathsLead(fs2)
<1> DEFINE pinum == fs.nameToInum[parent]
           path == Append(parent, name)
           D == Directories(fs)
<1>1. /\ pinum \in D /\ name \in AllNames \ Dots
      /\ path \in Seq(Names) /\ path # <<>> /\ Front(path) = parent /\ Last(path) = name
      /\ path \notin fs.dirs \cup ToSet(fs.files)
  BY NewPath
<1>2. /\ Bits(fs) /\ Owned(fs) /\ Lists(fs) /\ EntriesLive(fs) /\ Rooted(fs)
      /\ Counted(fs) /\ Named(fs) /\ PathsLead(fs)
  BY DEF Sound
<1>3. \A d \in D :
        /\ Entry(fs2, d) = IF d = pinum THEN Entry(fs, d) \cup {<<name, inum>>} ELSE Entry(fs, d)
        /\ ListFits(EntriesOf(fs2, d), d)
  <2>1. name \in AllNames
    BY <1>1
  <2>2. \A old \in Entry(fs, pinum) : old[1] # name
    OBVIOUS
  <2> HIDE DEF pinum, D
  <2>3. \A d \in Directories(fs) :
          /\ Entry(fs2, d) = IF d = pinum THEN Entry(fs, d) \cup {<<name, inum>>} ELSE Entry(fs, d)
          /\ ListFits(EntriesOf(fs2, d), d)
    <3>1. Len(EntriesOf(fs, pinum)) < MaxUsed /\ OneMore(fs, fs2, pinum, name, inum)
      BY DEF pinum
    <3>2. pinum \in Directories(fs)
      BY <1>1 DEF D
    <3> QED BY <1>2, <2>1, <2>2, <3>1, <3>2, MoreEntries
  <2> QED BY <2>3 DEF D
<1>4. /\ ToSet(fs2.files) = ToSet(fs.files) \cup {path}
      /\ fs2.files \in Seq(Seq(Names)) /\ Len(fs2.files) = Len(fs.files) + 1
      /\ \A k \in 1 .. Len(fs.files) : fs2.files[k] = fs.files[k] /\ fs.files[k] \in ToSet(fs.files)
      /\ fs2.files[Len(fs.files) + 1] = path /\ Len(fs.files) \in Nat
  <2>1. fs.files \in Seq(Seq(Names))
    BY TypeParts
  <2>2. (\A k \in 1 .. Len(fs.files) : fs.files[k] \in ToSet(fs.files)) /\ Len(fs.files) \in Nat
    BY <2>1, LenProperties DEF ToSet
  <2> HIDE DEF path
  <2>3. /\ Append(fs.files, path) \in Seq(Seq(Names))
        /\ Len(Append(fs.files, path)) = Len(fs.files) + 1
        /\ \A k \in 1 .. Len(fs.files) : Append(fs.files, path)[k] = fs.files[k]
        /\ Append(fs.files, path)[Len(fs.files) + 1] = path
        /\ ToSet(Append(fs.files, path)) = ToSet(fs.files) \cup {path}
    BY <1>1, <2>1, ListAppend
  <2>4. fs2.files = Append(fs.files, path)
    BY DEF path
  <2> QED BY <2>2, <2>3, <2>4
<1>5. /\ DOMAIN fs2.nameToInum = DOMAIN fs.nameToInum \cup {path}
      /\ fs2.nameToInum[path] = inum
      /\ \A p \in fs.dirs \cup ToSet(fs.files) : fs2.nameToInum[p] = fs.nameToInum[p]
  <2>1. fs.dirs \cup ToSet(fs.files) \subseteq DOMAIN fs.nameToInum
    BY <1>2 DEF Named
  <2>2. fs2.nameToInum = Known(fs.nameToInum, path, inum)
    OBVIOUS
  <2> HIDE DEF path
  <2> QED BY <2>1, <2>2, <1>1 DEF Known
<1> HIDE DEF D, pinum, path
<1>6. Lists(fs2)
  BY <1>3 DEF Lists, D
<1>7. EntriesLive(fs2)
  BY <1>2, <1>3 DEF EntriesLive, D
<1>8. Rooted(fs2)
  <2>1. \A d \in D : Entry(fs, d) \subseteq Entry(fs2, d)
    BY <1>3
  <2>2. ASSUME NEW d \in D \ {ROOT}, NEW up \in D, NEW nm \in AllNames \ Dots,
               <<nm, d>> \in Entry(fs2, up)
        PROVE <<nm, d>> \in Entry(fs, up)
    <3>1. d # inum
      BY DEF D
    <3> QED BY <3>1, <2>2, <1>3
  <2>3. ROOT \in D /\ <<"..", ROOT>> \in Entry(fs2, ROOT)
    BY <1>2, <2>1 DEF Rooted, D
  <2> QED BY <1>2, <2>1, <2>2, <2>3 DEF Rooted, D
<1>9. Counted(fs2)
  <2>1. ASSUME NEW i, i # inum PROVE Links(fs2, i) = Links(fs, i)
    BY <1>3, <2>1 DEF Links, D
  <2>2. Links(fs2, inum) = Links(fs, inum) \cup {<<pinum, name>>}
    BY <1>1, <1>3 DEF Links, D
  <2>3. <<pinum, name>> \notin Links(fs, inum)
    BY <1>1 DEF Links, pinum
  <2>4. IsFiniteSet(Links(fs, inum))
    BY <1>2, LinksAreRefs
  <2>5. Cardinality(Links(fs2, inum)) = Cardinality(Links(fs, inum)) + 1
    BY <2>2, <2>3, <2>4, FS_AddElement
  <2> QED BY <1>2, <2>1, <2>2, <2>5 DEF Counted
<1>10. Named(fs2)
  <2>1. inum \in Live(fs2) \ D
    BY DEF D
  <2>2. \A j, k \in 1 .. Len(fs2.files) : fs2.files[j] = fs2.files[k] => j = k
    <3>1. \A j, k \in 1 .. Len(fs.files) : fs.files[j] = fs.files[k] => j = k
      BY <1>2 DEF Named
    <3>2. path \notin ToSet(fs.files)
      BY <1>1
    <3>3. ASSUME NEW j \in 1 .. Len(fs2.files), NEW k \in 1 .. Len(fs2.files),
                 fs2.files[j] = fs2.files[k]
          PROVE  j = k
      <4>1. /\ j \in 1 .. Len(fs.files) \/ j = Len(fs.files) + 1
            /\ k \in 1 .. Len(fs.files) \/ k = Len(fs.files) + 1
        BY <1>4
      <4> QED BY <3>1, <3>2, <3>3, <4>1, <1>4
    <3> QED BY <3>3
  <2>3. \A p \in ToSet(fs2.files) : fs2.nameToInum[p] \in Live(fs2) \ D
    BY <1>2, <1>4, <1>5, <2>1 DEF Named, D
  <2>4. <<>> \in fs.dirs
    BY <1>2 DEF Named
  <2> QED BY <1>1, <1>2, <1>4, <1>5, <2>2, <2>3, <2>4 DEF Named, D
<1>11. PathsLead(fs2)
  <2>0. \A p \in fs.dirs : fs.nameToInum[p] \in D
    BY <1>2 DEF Named, D
  <2>1. \A p \in fs.dirs : Entry(fs, fs.nameToInum[p]) \subseteq Entry(fs2, fs.nameToInum[p])
    BY <1>3, <2>0
  <2>2. ASSUME NEW p \in fs2.dirs \cup ToSet(fs2.files), p # <<>>
        PROVE /\ Front(p) \in fs2.dirs /\ Last(p) \notin Dots
              /\ <<Last(p), fs2.nameToInum[p]>> \in Entry(fs2, fs2.nameToInum[Front(p)])
    <3>1. CASE p = path
      <4>1. parent \in fs.dirs /\ fs2.nameToInum[parent] = pinum
        BY <1>5 DEF pinum
      <4> QED BY <3>1, <4>1, <1>1, <1>3, <1>5
    <3>2. CASE p # path
      <4>1. p \in fs.dirs \cup ToSet(fs.files)
        BY <3>2, <1>4
      <4>2. /\ Front(p) \in fs.dirs /\ Last(p) \notin Dots
            /\ <<Last(p), fs.nameToInum[p]>> \in Entry(fs, fs.nameToInum[Front(p)])
        BY <1>2, <2>2, <4>1 DEF PathsLead
      <4> QED BY <4>1, <4>2, <1>5, <2>1
    <3> QED BY <3>1, <3>2
  <2>3. ASSUME NEW p \in fs2.dirs, NEW e \in Entry(fs2, fs2.nameToInum[p]), e[1] \notin Dots
        PROVE /\ Append(p, e[1]) \in fs2.dirs \cup ToSet(fs2.files)
              /\ fs2.nameToInum[Append(p, e[1])] = e[2]
    <3>1. p \in fs.dirs /\ e \in Entry(fs2, fs.nameToInum[p]) /\ fs.nameToInum[p] \in D
      BY <1>5, <2>0
    <3>2. CASE e \in Entry(fs, fs.nameToInum[p])
      <4>1. /\ Append(p, e[1]) \in fs.dirs \cup ToSet(fs.files)
            /\ fs.nameToInum[Append(p, e[1])] = e[2]
        BY <1>2, <2>3, <3>1, <3>2 DEF PathsLead
      <4> QED BY <4>1, <1>4, <1>5
    <3>3. CASE e \notin Entry(fs, fs.nameToInum[p])
      <4>1. fs.nameToInum[p] = pinum /\ e = <<name, inum>>
        BY <3>1, <3>3, <1>3
      <4>2. p = parent
        BY <4>1, <3>1, <1>2 DEF Named, pinum
      <4>3. Append(p, e[1]) = path /\ e[2] = inum
        BY <4>1, <4>2 DEF path
      <4> QED BY <4>3, <1>4, <1>5
    <3> QED BY <3>2, <3>3
  <2> QED BY <2>2, <2>3 DEF PathsLead
<1> QED BY <1>6, <1>7, <1>8, <1>9, <1>10, <1>11

\* The list of a new directory.
NewList(inum, up) == <<<<".", inum>>, <<"..", up>>>>

LEMMA NewListFits ==
  ASSUME NEW n, NEW inum \in Upto(n), NEW up \in Upto(n), MaxUsed \in Nat, MaxUsed >= 2
  PROVE  /\ NewList(inum, up) \in Seq(AllNames \X Upto(n)) /\ ListFits(NewList(inum, up), inum)
         /\ ToSet(NewList(inum, up)) = {<<".", inum>>, <<"..", up>>}
<1> DEFINE list == NewList(inum, up)
<1>1. list \in Seq(AllNames \X Upto(n))
  BY DEF AllNames, Dots, NewList
<1>2. /\ Len(list) = 2 /\ DOMAIN list = {1, 2}
      /\ list[1] = <<".", inum>> /\ list[2] = <<"..", up>>
  BY DEF NewList
<1> HIDE DEF list
<1>3. ToSet(list) = {<<".", inum>>, <<"..", up>>}
  BY <1>2 DEF ToSet
<1>4. list[1][1] # list[2][1]
  BY <1>2
<1>5. \A k \in 1 .. Len(list) : k = 1 \/ k = 2
  BY <1>2
<1>6. ListFits(list, inum)
  BY <1>2, <1>4, <1>5 DEF ListFits
<1> QED BY <1>1, <1>3, <1>6 DEF list

\* A new directory inum.
LEMMA TwoElements ==
  ASSUME NEW x, NEW y, x # y
  PROVE  Cardinality({x, y}) = 2
<1> DEFINE S == {x}
<1>1. IsFiniteSet(S) /\ Cardinality(S) = 1 /\ y \notin S
  BY FS_Singleton
<1>2. S \cup {y} = {x, y}
  OBVIOUS
<1> HIDE DEF S
<1>3. Cardinality(S \cup {y}) = Cardinality(S) + 1
  BY <1>1, FS_AddElement
<1> QED BY <1>1, <1>2, <1>3

LEMMA DirAdded ==
  ASSUME NEW n, NEW m, NEW fs \in FsType(n, m), NEW fs2 \in FsType(n, m), Sound(fs),
         n \in Nat, MaxUsed \in Nat, MaxUsed >= 2,
         NEW parent \in fs.dirs, NEW name \in Names, NEW inum \in Upto(n),
         Len(EntriesOf(fs, fs.nameToInum[parent])) < MaxUsed,
         \A e \in Entry(fs, fs.nameToInum[parent]) : e[1] # name,
         inum \notin Live(fs),
         Live(fs2) = Live(fs) \cup {inum}, Directories(fs2) = Directories(fs) \cup {inum},
         OneMore(fs, fs2, fs.nameToInum[parent], name, inum),
         EntriesOf(fs2, inum) = NewList(inum, fs.nameToInum[parent]),
         \A i \in Live(fs) :
           fs2.inodes[i].refCnt = IF i = fs.nameToInum[parent]
                                  THEN fs.inodes[i].refCnt + 1 ELSE fs.inodes[i].refCnt,
         fs2.inodes[inum].refCnt = 2,
         fs2.files = fs.files, fs2.dirs = fs.dirs \cup {Append(parent, name)},
         fs2.nameToInum = Known(fs.nameToInum, Append(parent, name), inum)
  PROVE  /\ Lists(fs2) /\ EntriesLive(fs2) /\ Rooted(fs2) /\ Counted(fs2)
         /\ Named(fs2) /\ PathsLead(fs2)
<1> DEFINE pinum == fs.nameToInum[parent]
           path == Append(parent, name)
           D == Directories(fs)
<1>1. /\ pinum \in D /\ name \in AllNames \ Dots
      /\ path \in Seq(Names) /\ path # <<>> /\ Front(path) = parent /\ Last(path) = name
      /\ path \notin fs.dirs \cup ToSet(fs.files)
  BY NewPath
<1>2. /\ Bits(fs) /\ Owned(fs) /\ Lists(fs) /\ EntriesLive(fs) /\ Rooted(fs)
      /\ Counted(fs) /\ Named(fs) /\ PathsLead(fs)
  BY DEF Sound
<1>3. \A d \in D :
        /\ Entry(fs2, d) = IF d = pinum THEN Entry(fs, d) \cup {<<name, inum>>} ELSE Entry(fs, d)
        /\ ListFits(EntriesOf(fs2, d), d)
  <2>1. name \in AllNames
    BY <1>1
  <2>2. \A old \in Entry(fs, pinum) : old[1] # name
    OBVIOUS
  <2> HIDE DEF pinum, D
  <2>3. Len(EntriesOf(fs, pinum)) < MaxUsed /\ OneMore(fs, fs2, pinum, name, inum)
    BY DEF pinum
  <2>4. pinum \in Directories(fs)
    BY <1>1 DEF D
  <2>5. \A d \in Directories(fs) :
          /\ Entry(fs2, d) = IF d = pinum THEN Entry(fs, d) \cup {<<name, inum>>} ELSE Entry(fs, d)
          /\ ListFits(EntriesOf(fs2, d), d)
    <3>1. Owned(fs) /\ Lists(fs)
      BY <1>2
    <3> QED BY <2>1, <2>2, <2>3, <2>4, <3>1, MoreEntries
  <2> QED BY <2>5 DEF D
<1>4. /\ D \subseteq Live(fs) /\ D \subseteq Upto(n) /\ inum \notin D
      /\ Live(fs2) = Live(fs) \cup {inum} /\ Directories(fs2) = D \cup {inum}
      /\ fs2.dirs = fs.dirs \cup {path} /\ fs2.files = fs.files
  BY LiveParts
<1>5. ListFits(EntriesOf(fs2, inum), inum) /\ Entry(fs2, inum) = {<<".", inum>>, <<"..", pinum>>}
  <2>1. pinum \in Upto(n)
    BY <1>1, <1>4
  <2>2. EntriesOf(fs2, inum) = NewList(inum, pinum)
    OBVIOUS
  <2> HIDE DEF pinum
  <2>3. /\ ListFits(NewList(inum, pinum), inum)
        /\ ToSet(NewList(inum, pinum)) = {<<".", inum>>, <<"..", pinum>>}
    <3>1. pinum \in Upto(n) /\ inum \in Upto(n) /\ MaxUsed \in Nat /\ MaxUsed >= 2
      BY <2>1
    <3> QED BY ONLY <3>1, NewListFits
  <2> QED BY <2>2, <2>3 DEF Entry
<1>6. /\ DOMAIN fs2.nameToInum = DOMAIN fs.nameToInum \cup {path}
      /\ fs2.nameToInum[path] = inum
      /\ \A p \in fs.dirs \cup ToSet(fs.files) : fs2.nameToInum[p] = fs.nameToInum[p]
  <2>1. fs.dirs \cup ToSet(fs.files) \subseteq DOMAIN fs.nameToInum
    BY <1>2 DEF Named
  <2>2. fs2.nameToInum = Known(fs.nameToInum, path, inum)
    OBVIOUS
  <2> HIDE DEF path
  <2> QED BY <2>1, <2>2, <1>1 DEF Known
<1>7. \A i \in Live(fs) :
        fs2.inodes[i].refCnt = IF i = pinum THEN fs.inodes[i].refCnt + 1 ELSE fs.inodes[i].refCnt
  OBVIOUS
<1>8. \A d \in D : \A e \in Entry(fs, d) : e[2] # inum
  BY <1>2 DEF EntriesLive, D
<1> HIDE DEF D, pinum, path
<1>9. Lists(fs2)
  BY <1>3, <1>4, <1>5 DEF Lists
<1>10. EntriesLive(fs2)
  <2>1. \A d \in D : \A e \in Entry(fs, d) : e[2] \in Live(fs)
    BY <1>2 DEF EntriesLive, D
  <2>2. ASSUME NEW d \in D, NEW e \in Entry(fs2, d) PROVE e[2] \in Live(fs2)
    <3>1. e \in Entry(fs, d) \/ e = <<name, inum>>
      BY <1>3
    <3> QED BY <2>1, <3>1, <1>4
  <2>3. \A e \in Entry(fs2, inum) : e[2] \in Live(fs2)
    BY <1>1, <1>4, <1>5
  <2> QED BY <2>2, <2>3, <1>4 DEF EntriesLive
<1>11. Rooted(fs2)
  <2>1. \A d \in D : Entry(fs, d) \subseteq Entry(fs2, d)
    BY <1>3
  <2>2. ROOT \in D /\ <<"..", ROOT>> \in Entry(fs2, ROOT)
    BY <1>2, <2>1 DEF Rooted, D
  <2>3. \A nm \in AllNames \ Dots : \A x : <<nm, x>> \notin Entry(fs2, inum)
    BY <1>5 DEF Dots
  <2>4. ASSUME NEW d \in D \ {ROOT}
        PROVE  /\ \E up \in D, nm \in AllNames \ Dots : <<nm, d>> \in Entry(fs2, up)
               /\ \A up \in D \cup {inum}, nm \in AllNames \ Dots :
                    <<nm, d>> \in Entry(fs2, up) => <<"..", up>> \in Entry(fs2, d)
    <3>1. \E up \in D, nm \in AllNames \ Dots : <<nm, d>> \in Entry(fs2, up)
      BY <1>2, <2>1 DEF Rooted, D
    <3>2. ASSUME NEW up \in D, NEW nm \in AllNames \ Dots, <<nm, d>> \in Entry(fs2, up)
          PROVE  <<"..", up>> \in Entry(fs2, d)
      <4>1. d # inum
        BY <1>4
      <4>2. <<nm, d>> \in Entry(fs, up)
        BY <3>2, <4>1, <1>3
      <4> QED BY <4>2, <1>2, <2>1 DEF Rooted, D
    <3> QED BY <3>1, <3>2, <2>3
  <2>5. /\ \E up \in D, nm \in AllNames \ Dots : <<nm, inum>> \in Entry(fs2, up)
        /\ \A up \in D \cup {inum}, nm \in AllNames \ Dots :
             <<nm, inum>> \in Entry(fs2, up) => <<"..", up>> \in Entry(fs2, inum)
    <3>1. <<name, inum>> \in Entry(fs2, pinum)
      BY <1>1, <1>3
    <3>2. ASSUME NEW up \in D, NEW nm, <<nm, inum>> \in Entry(fs2, up) PROVE up = pinum
      BY <3>2, <1>3, <1>8
    <3> QED BY <3>1, <3>2, <1>1, <1>5, <2>3
  <2> QED BY <2>2, <2>4, <2>5, <1>4 DEF Rooted
<1>12. Counted(fs2)
  <2>0. /\ \A i \in Live(fs) : /\ fs.inodes[i].refCnt = Cardinality(Links(fs, i))
                               /\ Links(fs, i) # {}
    BY <1>2 DEF Counted
  <2>1. ASSUME NEW i \in Live(fs)
        PROVE  Links(fs2, i) = IF i = pinum THEN Links(fs, i) \cup {<<inum, "..">>} ELSE Links(fs, i)
    <3>1. i # inum /\ ".." \in AllNames
      BY DEF AllNames, Dots
    <3>2. Links(fs, i) = {l \in D \X AllNames : <<l[2], i>> \in Entry(fs, l[1])}
      BY DEF Links, D
    <3>3. Links(fs2, i) = {l \in (D \cup {inum}) \X AllNames : <<l[2], i>> \in Entry(fs2, l[1])}
      BY <1>4 DEF Links
    <3>4. \A d \in D, nm \in AllNames : <<nm, i>> \in Entry(fs2, d) <=> <<nm, i>> \in Entry(fs, d)
      BY <3>1, <1>3
    <3>5. \A nm \in AllNames : <<nm, i>> \in Entry(fs2, inum) <=> nm = ".." /\ i = pinum
      BY <3>1, <1>5
    <3> QED BY <3>1, <3>2, <3>3, <3>4, <3>5
  <2>2. Links(fs2, inum) = {<<pinum, name>>, <<inum, ".">>}
    <3>1. Links(fs2, inum) = {l \in (D \cup {inum}) \X AllNames : <<l[2], inum>> \in Entry(fs2, l[1])}
      BY <1>4 DEF Links
    <3>2. \A d \in D, nm \in AllNames : <<nm, inum>> \in Entry(fs2, d) <=> d = pinum /\ nm = name
      BY <1>1, <1>3, <1>8
    <3>3. inum # pinum
      BY <1>1, <1>4
    <3>4. \A nm \in AllNames : <<nm, inum>> \in Entry(fs2, inum) <=> nm = "."
      BY <1>5, <3>3
    <3>5. "." \in AllNames
      BY DEF AllNames, Dots
    <3> QED BY <3>1, <3>2, <3>4, <3>5, <1>1
  <2>3. Cardinality(Links(fs2, inum)) = 2 /\ Links(fs2, inum) # {}
    <3> DEFINE l1 == <<pinum, name>>
               l2 == <<inum, ".">>
    <3>1. l1 # l2
      BY <1>1 DEF Dots
    <3>2. Links(fs2, inum) = {l1, l2}
      BY <2>2
    <3> HIDE DEF l1, l2
    <3>3. Cardinality({l1, l2}) = 2
      BY <3>1, TwoElements
    <3> QED BY <3>2, <3>3
  <2>4. Cardinality(Links(fs2, pinum)) = Cardinality(Links(fs, pinum)) + 1
    <3>1. IsFiniteSet(Links(fs, pinum))
      BY <1>2, LinksAreRefs
    <3>2. <<inum, "..">> \notin Links(fs, pinum)
      BY <1>4 DEF Links, D
    <3>3. Links(fs2, pinum) = Links(fs, pinum) \cup {<<inum, "..">>}
      BY <2>1, <1>1, <1>4
    <3> QED BY <3>1, <3>2, <3>3, FS_AddElement
  <2>5. ASSUME NEW i \in Live(fs2)
        PROVE  fs2.inodes[i].refCnt = Cardinality(Links(fs2, i)) /\ Links(fs2, i) # {}
    <3>1. CASE i = inum
      BY <3>1, <2>3
    <3>2. CASE i = pinum
      BY <3>2, <1>1, <1>4, <1>7, <2>0, <2>1, <2>4
    <3>3. CASE i # inum /\ i # pinum
      BY <3>3, <1>4, <1>7, <2>0, <2>1
    <3> QED BY <3>1, <3>2, <3>3
  <2> QED BY <2>5 DEF Counted
<1>13. Named(fs2)
  <2>1. /\ <<>> \in fs.dirs /\ fs.nameToInum[<<>>] = ROOT /\ <<>> \notin ToSet(fs.files)
        /\ fs.dirs \cup ToSet(fs.files) \subseteq DOMAIN fs.nameToInum
        /\ \A p \in fs.dirs : fs.nameToInum[p] \in D
        /\ \A p, q \in fs.dirs : fs.nameToInum[p] = fs.nameToInum[q] => p = q
        /\ \A d \in D : \E p \in fs.dirs : fs.nameToInum[p] = d
        /\ \A p \in ToSet(fs.files) : fs.nameToInum[p] \in Live(fs) \ D
        /\ \A j, k \in 1 .. Len(fs.files) : fs.files[j] = fs.files[k] => j = k
    BY <1>2 DEF Named, D
  <2>2. \A p \in fs2.dirs : fs2.nameToInum[p] \in Directories(fs2)
    BY <2>1, <1>4, <1>6
  <2>3. \A p, q \in fs2.dirs : fs2.nameToInum[p] = fs2.nameToInum[q] => p = q
    BY <2>1, <1>4, <1>6
  <2>4. \A d \in Directories(fs2) : \E p \in fs2.dirs : fs2.nameToInum[p] = d
    BY <2>1, <1>4, <1>6
  <2>5. \A p \in ToSet(fs2.files) : fs2.nameToInum[p] \in Live(fs2) \ Directories(fs2)
    BY <2>1, <1>4, <1>6
  <2>6. /\ <<>> \in fs2.dirs /\ fs2.nameToInum[<<>>] = ROOT /\ <<>> \notin ToSet(fs2.files)
        /\ fs2.dirs \cup ToSet(fs2.files) \subseteq DOMAIN fs2.nameToInum
    BY <2>1, <1>4, <1>6
  <2>7. \A j, k \in 1 .. Len(fs2.files) : fs2.files[j] = fs2.files[k] => j = k
    BY <2>1, <1>4
  <2> QED BY <2>2, <2>3, <2>4, <2>5, <2>6, <2>7 DEF Named
<1>14. PathsLead(fs2)
  <2>0. \A p \in fs.dirs : fs.nameToInum[p] \in D
    BY <1>2 DEF Named, D
  <2>1. \A p \in fs.dirs : Entry(fs, fs.nameToInum[p]) \subseteq Entry(fs2, fs.nameToInum[p])
    BY <1>3, <2>0
  <2>2. ASSUME NEW p \in fs2.dirs \cup ToSet(fs2.files), p # <<>>
        PROVE /\ Front(p) \in fs2.dirs /\ Last(p) \notin Dots
              /\ <<Last(p), fs2.nameToInum[p]>> \in Entry(fs2, fs2.nameToInum[Front(p)])
    <3>1. CASE p = path
      <4>1. parent \in fs.dirs /\ fs2.nameToInum[parent] = pinum
        BY <1>6 DEF pinum
      <4> QED BY <3>1, <4>1, <1>1, <1>3, <1>4, <1>6
    <3>2. CASE p # path
      <4>1. p \in fs.dirs \cup ToSet(fs.files)
        BY <3>2, <1>4
      <4>2. /\ Front(p) \in fs.dirs /\ Last(p) \notin Dots
            /\ <<Last(p), fs.nameToInum[p]>> \in Entry(fs, fs.nameToInum[Front(p)])
        BY <1>2, <2>2, <4>1 DEF PathsLead
      <4> QED BY <4>1, <4>2, <1>4, <1>6, <2>1
    <3> QED BY <3>1, <3>2
  <2>3. ASSUME NEW p \in fs2.dirs, NEW e \in Entry(fs2, fs2.nameToInum[p]), e[1] \notin Dots
        PROVE /\ Append(p, e[1]) \in fs2.dirs \cup ToSet(fs2.files)
              /\ fs2.nameToInum[Append(p, e[1])] = e[2]
    <3>0. p \in fs.dirs
      <4>1. p # path
        BY <2>3, <1>5, <1>6 DEF Dots
      <4> QED BY <4>1, <1>4
    <3>1. e \in Entry(fs2, fs.nameToInum[p]) /\ fs.nameToInum[p] \in D
      BY <3>0, <1>6, <2>0
    <3>2. CASE e \in Entry(fs, fs.nameToInum[p])
      <4>1. /\ Append(p, e[1]) \in fs.dirs \cup ToSet(fs.files)
            /\ fs.nameToInum[Append(p, e[1])] = e[2]
        BY <1>2, <2>3, <3>0, <3>2 DEF PathsLead
      <4> QED BY <4>1, <1>4, <1>6
    <3>3. CASE e \notin Entry(fs, fs.nameToInum[p])
      <4>1. fs.nameToInum[p] = pinum /\ e = <<name, inum>>
        BY <3>1, <3>3, <1>3
      <4>2. p = parent
        BY <4>1, <3>0, <1>2 DEF Named, pinum
      <4>3. Append(p, e[1]) = path /\ e[2] = inum
        BY <4>1, <4>2 DEF path
      <4> QED BY <4>3, <1>4, <1>6
    <3> QED BY <3>2, <3>3
  <2> QED BY <2>2, <2>3 DEF PathsLead
<1> QED BY <1>9, <1>10, <1>11, <1>12, <1>13, <1>14

\* The directories of fs have the entries they had, but for a name in dir.
OneLess(fs, fs2, dir, name) ==
  \A d \in Directories(fs) :
    EntriesOf(fs2, d) = IF d = dir THEN Without(EntriesOf(fs, d), name) ELSE EntriesOf(fs, d)

LEMMA LessEntries ==
  ASSUME NEW n, NEW m, NEW fs \in FsType(n, m), NEW fs2, Owned(fs), Lists(fs),
         MaxUsed \in Nat, NEW dir \in Directories(fs), NEW name \in AllNames \ Dots,
         NEW inum, <<name, inum>> \in Entry(fs, dir), OneLess(fs, fs2, dir, name)
  PROVE  \A d \in Directories(fs) :
           /\ Entry(fs2, d) = IF d = dir THEN Entry(fs, d) \ {<<name, inum>>} ELSE Entry(fs, d)
           /\ ListFits(EntriesOf(fs2, d), d)
<1> SUFFICES ASSUME NEW d \in Directories(fs)
    PROVE /\ Entry(fs2, d) = IF d = dir THEN Entry(fs, d) \ {<<name, inum>>} ELSE Entry(fs, d)
          /\ ListFits(EntriesOf(fs2, d), d)
  OBVIOUS
<1>1. EntriesOf(fs, d) \in Seq(AllNames \X Upto(n)) /\ ListFits(EntriesOf(fs, d), d)
  BY DirectoryBlocks DEF Lists
<1>2. CASE d # dir
  BY <1>1, <1>2 DEF OneLess, Entry
<1>3. CASE d = dir
  <2> DEFINE list == EntriesOf(fs, d)
             entry == <<name, inum>>
  <2>0. list \in Seq(AllNames \X Upto(n)) /\ ListFits(list, d) /\ entry[1] = name
    BY <1>1
  <2>1. PICK k \in 1 .. Len(list) : list[k] = entry /\ k >= 3
    <3>1. EntryAt(fs, d, entry)
      BY <1>3, EntryNames
    <3> QED BY <3>1 DEF EntryAt
  <2>2. \A i, j \in 1 .. Len(list) : list[i][1] = list[j][1] => i = j
    BY <1>1 DEF ListFits
  <2>3. EntriesOf(fs2, d) = Without(list, name)
    BY <1>3 DEF OneLess
  <2>4. Entry(fs, d) = {list[j] : j \in 1 .. Len(list)} /\ Len(list) \in Nat
    BY <1>1, LenProperties DEF Entry, ToSet
  <2> HIDE DEF list, entry
  <2>5. Without(list, name) = RemoveAt(list, k)
    BY <2>0, <2>1, <2>2, MatchRemoved
  <2>6. ToSet(RemoveAt(list, k)) = {list[j] : j \in (1 .. Len(list)) \ {k}}
    BY <2>0, ListRemoveAt
  <2>7. {list[j] : j \in (1 .. Len(list)) \ {k}} = {list[j] : j \in 1 .. Len(list)} \ {entry}
    BY <2>1, <2>2
  <2>8. ListFits(RemoveAt(list, k), d)
    <3>1. k \in 3 .. Len(list)
      BY <2>1, <2>4
    <3> QED BY <2>0, <3>1, ShorterList
  <2> QED BY <1>3, <2>3, <2>4, <2>5, <2>6, <2>7, <2>8 DEF Entry, entry
<1> QED BY <1>2, <1>3

\* The list of files without one of them.
Distinct(s) == \A j, k \in 1 .. Len(s) : s[j] = s[k] => j = k

LEMMA FilesLess ==
  ASSUME NEW S, NEW files \in Seq(S), NEW path \in ToSet(files), Distinct(files)
  PROVE  /\ ToSet(RemoveFirst(files, path)) = ToSet(files) \ {path}
         /\ RemoveFirst(files, path) \in Seq(S)
         /\ Distinct(RemoveFirst(files, path))
<1>1. DOMAIN files = 1 .. Len(files) /\ Len(files) \in Nat
  BY LenProperties
<1>2. \A j, k \in 1 .. Len(files) : files[j] = files[k] => j = k
  BY DEF Distinct
<1>3. PICK p \in 1 .. Len(files) : files[p] = path
  BY <1>1 DEF ToSet
<1>4. ToSet(files) = {files[j] : j \in 1 .. Len(files)}
  BY <1>1 DEF ToSet
<1>5. RemoveFirst(files, path) = RemoveAt(files, p)
  BY <1>2, <1>3, FirstRemoved
<1>6. /\ RemoveAt(files, p) \in Seq(S) /\ Len(RemoveAt(files, p)) = Len(files) - 1
      /\ \A k \in 1 .. Len(files) - 1 :
           RemoveAt(files, p)[k] = IF k < p THEN files[k] ELSE files[k + 1]
      /\ ToSet(RemoveAt(files, p)) = {files[k] : k \in (1 .. Len(files)) \ {p}}
  BY ListRemoveAt
<1>7. {files[k] : k \in (1 .. Len(files)) \ {p}} = {files[k] : k \in 1 .. Len(files)} \ {path}
  BY <1>2, <1>3
<1>8. ASSUME NEW j \in 1 .. Len(files) - 1, NEW k \in 1 .. Len(files) - 1,
             RemoveAt(files, p)[j] = RemoveAt(files, p)[k]
      PROVE  j = k
  <2> DEFINE was(x) == IF x < p THEN x ELSE x + 1
  <2>0. /\ p \in 1 .. Len(files) /\ Len(files) \in Nat
        /\ \A x \in 1 .. Len(files) - 1 :
             RemoveAt(files, p)[x] = IF x < p THEN files[x] ELSE files[x + 1]
    BY <1>1, <1>6
  <2>1. \A x \in 1 .. Len(files) - 1 :
          was(x) \in 1 .. Len(files) /\ RemoveAt(files, p)[x] = files[was(x)]
    BY ONLY <2>0
  <2>2. was(j) = was(k)
    BY <2>1, <1>2, <1>8
  <2> QED BY <2>2, <1>1
<1>9. Distinct(RemoveAt(files, p))
  BY <1>6, <1>8 DEF Distinct
<1> QED BY <1>4, <1>5, <1>6, <1>7, <1>9

\* A file of the workload.
LEMMA FileOfPath ==
  ASSUME NEW n, NEW m, NEW fs \in FsType(n, m), Sound(fs), NEW path \in ToSet(fs.files)
  PROVE  /\ path \in Seq(Names) /\ path # <<>>
         /\ Front(path) \in fs.dirs /\ Last(path) \in AllNames \ Dots
         /\ fs.nameToInum[Front(path)] \in Directories(fs)
         /\ fs.nameToInum[path] \in Live(fs) \ Directories(fs)
         /\ <<Last(path), fs.nameToInum[path]>> \in Entry(fs, fs.nameToInum[Front(path)])
         /\ fs.files \in Seq(Seq(Names)) /\ Distinct(fs.files)
<1>1. path \in Seq(Names) /\ path # <<>> /\ fs.files \in Seq(Seq(Names))
  BY TypeParts DEF Sound, Named
<1>2. /\ Front(path) \in fs.dirs /\ Last(path) \notin Dots
      /\ <<Last(path), fs.nameToInum[path]>> \in Entry(fs, fs.nameToInum[Front(path)])
  BY <1>1 DEF Sound, PathsLead
<1>3. Last(path) \in AllNames \ Dots
  <2>1. PICK name : name \in Names
    <3>1. PICK q \in Seq(Names), x \in Names : path = Append(q, x)
      BY <1>1, SequenceEmptyOrAppend
    <3> QED BY <3>1
  <2>2. Last(path) \in Names
    BY <1>1, <2>1, PathParts
  <2> QED BY <1>2, <2>2 DEF AllNames
<1>4. /\ fs.nameToInum[Front(path)] \in Directories(fs)
      /\ fs.nameToInum[path] \in Live(fs) \ Directories(fs)
      /\ Distinct(fs.files)
  BY <1>2 DEF Sound, Named, Distinct
<1> QED BY <1>1, <1>2, <1>3, <1>4

\* A name of a file goes, and with the last one the file.
LEMMA FileRemoved ==
  ASSUME NEW n, NEW m, NEW fs \in FsType(n, m), NEW fs2 \in FsType(n, m), Sound(fs),
         n \in Nat, MaxUsed \in Nat,
         NEW path \in ToSet(fs.files), NEW inum, inum = fs.nameToInum[path],
         Live(fs2) = IF fs.inodes[inum].refCnt = 1 THEN Live(fs) \ {inum} ELSE Live(fs),
         Directories(fs2) = Directories(fs),
         OneLess(fs, fs2, fs.nameToInum[Front(path)], Last(path)),
         \A i \in Live(fs) \ {inum} : fs2.inodes[i].refCnt = fs.inodes[i].refCnt,
         fs.inodes[inum].refCnt # 1 => fs2.inodes[inum].refCnt = fs.inodes[inum].refCnt - 1,
         fs2.files = RemoveFirst(fs.files, path), fs2.dirs = fs.dirs,
         fs2.nameToInum = fs.nameToInum
  PROVE  /\ Lists(fs2) /\ EntriesLive(fs2) /\ Rooted(fs2) /\ Counted(fs2)
         /\ Named(fs2) /\ PathsLead(fs2)
<1> DEFINE parent == Front(path)
           pinum == fs.nameToInum[parent]
           name == Last(path)
           D == Directories(fs)
<1>1. /\ path \in Seq(Names) /\ path # <<>> /\ parent \in fs.dirs /\ name \in AllNames \ Dots
      /\ pinum \in D /\ inum \in Live(fs) \ D /\ <<name, inum>> \in Entry(fs, pinum)
      /\ ToSet(fs2.files) = ToSet(fs.files) \ {path}
      /\ \A j, k \in 1 .. Len(fs2.files) : fs2.files[j] = fs2.files[k] => j = k
  <2>0. fs \in FsType(n, m) /\ Sound(fs) /\ path \in ToSet(fs.files)
    OBVIOUS
  <2>1. /\ path \in Seq(Names) /\ path # <<>>
        /\ Front(path) \in fs.dirs /\ Last(path) \in AllNames \ Dots
        /\ fs.nameToInum[Front(path)] \in Directories(fs)
        /\ fs.nameToInum[path] \in Live(fs) \ Directories(fs)
        /\ <<Last(path), fs.nameToInum[path]>> \in Entry(fs, fs.nameToInum[Front(path)])
    BY FileOfPath
  <2>2. fs.files \in Seq(Seq(Names)) /\ Distinct(fs.files)
    BY FileOfPath
  <2>3. /\ ToSet(RemoveFirst(fs.files, path)) = ToSet(fs.files) \ {path}
        /\ Distinct(RemoveFirst(fs.files, path))
    BY <2>0, <2>2, FilesLess
  <2> QED BY <2>1, <2>3 DEF Distinct
<1>2. /\ Owned(fs) /\ Lists(fs) /\ EntriesLive(fs) /\ Rooted(fs)
      /\ Counted(fs) /\ Named(fs) /\ PathsLead(fs)
  BY DEF Sound
<1>3. D \subseteq Live(fs) /\ D \subseteq Upto(n) /\ ToSet(fs.files) \subseteq Seq(Names)
  BY LiveParts, TypeParts
<1>4. /\ Directories(fs2) = D /\ fs2.dirs = fs.dirs /\ fs2.nameToInum = fs.nameToInum
      /\ OneLess(fs, fs2, pinum, name) /\ fs.nameToInum[path] = inum
      /\ \A i \in Live(fs) \ {inum} : fs2.inodes[i].refCnt = fs.inodes[i].refCnt /\ i \in Live(fs2)
      /\ Live(fs2) \subseteq Live(fs)
      /\ inum \in Live(fs2) => /\ fs.inodes[inum].refCnt # 1
                               /\ fs2.inodes[inum].refCnt = fs.inodes[inum].refCnt - 1
  OBVIOUS
<1> HIDE DEF D, parent, pinum, name
<1>5. \A d \in D :
        /\ Entry(fs2, d) = IF d = pinum THEN Entry(fs, d) \ {<<name, inum>>} ELSE Entry(fs, d)
        /\ ListFits(EntriesOf(fs2, d), d)
  <2>1. /\ Owned(fs) /\ Lists(fs) /\ MaxUsed \in Nat /\ fs \in FsType(n, m)
        /\ pinum \in Directories(fs) /\ name \in AllNames \ Dots
        /\ <<name, inum>> \in Entry(fs, pinum) /\ OneLess(fs, fs2, pinum, name)
    BY <1>1, <1>2, <1>4 DEF D
  <2>2. \A d \in Directories(fs) :
          /\ Entry(fs2, d) = IF d = pinum THEN Entry(fs, d) \ {<<name, inum>>} ELSE Entry(fs, d)
          /\ ListFits(EntriesOf(fs2, d), d)
    BY ONLY <2>1, LessEntries
  <2> QED BY <2>2 DEF D
<1>6. \A d \in D : \A e1, e2 \in Entry(fs, d) : e1[1] = e2[1] => e1 = e2
  <2> SUFFICES ASSUME NEW d \in D PROVE \A e1, e2 \in Entry(fs, d) : e1[1] = e2[1] => e1 = e2
    OBVIOUS
  <2>1. d \in Directories(fs) /\ Owned(fs) /\ Lists(fs) /\ fs \in FsType(n, m)
    BY <1>2 DEF D
  <2> QED BY ONLY <2>1, EntryNames
\* Another path of the same inode has a link of its own.
<1>7. ASSUME NEW p \in fs.dirs \cup ToSet(fs.files), p # <<>>, p # path
      PROVE  /\ Front(p) \in fs.dirs /\ fs.nameToInum[Front(p)] \in D /\ Last(p) \notin Dots
             /\ <<Last(p), fs.nameToInum[p]>> \in Entry(fs, fs.nameToInum[Front(p)])
             /\ fs.nameToInum[Front(p)] # pinum \/ Last(p) # name
  <2>1. /\ Front(p) \in fs.dirs /\ Last(p) \notin Dots
        /\ <<Last(p), fs.nameToInum[p]>> \in Entry(fs, fs.nameToInum[Front(p)])
    BY <1>2, <1>7 DEF PathsLead
  <2>2. fs.nameToInum[Front(p)] \in D
    BY <1>2, <2>1 DEF Named, D
  <2>3. ASSUME fs.nameToInum[Front(p)] = pinum, Last(p) = name PROVE FALSE
    <3>1. Front(p) = Front(path) /\ Last(p) = Last(path)
      BY <1>1, <1>2, <2>1, <2>3 DEF Named, pinum, parent, name
    <3>2. p \in Seq(Names) /\ path \in Seq(Names)
      BY <1>1, <1>3, TypeParts
    <3>3. PICK x : x \in Names
      <4>1. PICK q \in Seq(Names), y \in Names : path = Append(q, y)
        BY <1>1, SequenceEmptyOrAppend
      <4> QED BY <4>1
    <3>4. p = Append(Front(p), Last(p)) /\ path = Append(Front(path), Last(path))
      BY <1>1, <1>7, <3>2, <3>3, PathParts
    <3> QED BY <1>7, <3>1, <3>4
  <2> QED BY <2>1, <2>2, <2>3
<1>8. Lists(fs2)
  BY <1>4, <1>5 DEF Lists
<1>9. /\ fs.inodes[inum].refCnt = Cardinality(Links(fs, inum)) /\ IsFiniteSet(Links(fs, inum))
      /\ <<pinum, name>> \in Links(fs, inum)
  <2>1. IsFiniteSet(Links(fs, inum))
    BY <1>2, LinksAreRefs
  <2>2. fs.inodes[inum].refCnt = Cardinality(Links(fs, inum))
    BY <1>1, <1>2 DEF Counted
  <2>3. <<pinum, name>> \in Links(fs, inum)
    BY <1>1 DEF Links, D
  <2> QED BY <2>1, <2>2, <2>3
<1>10. ASSUME inum \notin Live(fs2) PROVE Links(fs, inum) = {<<pinum, name>>}
  <2>1. fs.inodes[inum].refCnt = 1
    BY <1>1, <1>10
  <2>2. \E x : Links(fs, inum) = {x}
    BY <1>9, <2>1, FS_Singleton
  <2> QED BY <1>9, <2>2
<1>11. EntriesLive(fs2)
  <2>1. ASSUME NEW d \in D, NEW e \in Entry(fs2, d) PROVE e[2] \in Live(fs2)
    <3>1. e \in Entry(fs, d) /\ (d = pinum => e # <<name, inum>>)
      BY <1>5
    <3>2. e[2] \in Live(fs)
      BY <1>2, <3>1 DEF EntriesLive, D
    <3>3. ASSUME e[2] = inum, inum \notin Live(fs2) PROVE FALSE
      <4>1. e \in AllNames \X Upto(n)
        BY <1>2, <3>1, DirectoryBlocks DEF D
      <4>2. e = <<e[1], inum>> /\ e[1] \in AllNames
        BY <4>1, <3>3
      <4>3. <<d, e[1]>> \in Links(fs, inum)
        BY <3>1, <4>2 DEF Links, D
      <4>4. d = pinum /\ e[1] = name
        BY <1>10, <3>3, <4>3
      <4> QED BY <3>1, <4>2, <4>4
    <3> QED BY <3>2, <3>3, <1>4
  <2> QED BY <2>1, <1>4 DEF EntriesLive
<1>12. Rooted(fs2)
  <2>1. ASSUME NEW x, NEW d \in D, NEW nm, x # inum \/ nm \in Dots
        PROVE  <<nm, x>> \in Entry(fs2, d) <=> <<nm, x>> \in Entry(fs, d)
    BY <1>1, <1>5, <2>1
  <2>2. ROOT \in D /\ <<"..", ROOT>> \in Entry(fs2, ROOT)
    BY <1>2, <2>1 DEF Rooted, D, Dots
  <2>3. ASSUME NEW d \in D \ {ROOT}
        PROVE  /\ \E up \in D, nm \in AllNames \ Dots : <<nm, d>> \in Entry(fs2, up)
               /\ \A up \in D, nm \in AllNames \ Dots :
                    <<nm, d>> \in Entry(fs2, up) => <<"..", up>> \in Entry(fs2, d)
    <3>1. /\ \E up \in D, nm \in AllNames \ Dots : <<nm, d>> \in Entry(fs, up)
          /\ \A up \in D, nm \in AllNames \ Dots :
               <<nm, d>> \in Entry(fs, up) => <<"..", up>> \in Entry(fs, d)
      BY <1>2 DEF Rooted, D
    <3>2. d # inum /\ ".." \in Dots
      BY <1>1 DEF Dots
    <3> QED BY <2>1, <3>1, <3>2
  <2> QED BY <2>2, <2>3, <1>4 DEF Rooted
<1>13. Counted(fs2)
  <2>1. ASSUME NEW i, i # inum PROVE Links(fs2, i) = Links(fs, i)
    BY <1>4, <1>5, <2>1 DEF Links, D
  <2>2. Links(fs2, inum) = Links(fs, inum) \ {<<pinum, name>>}
    BY <1>4, <1>5 DEF Links, D
  <2>3. Cardinality(Links(fs2, inum)) = Cardinality(Links(fs, inum)) - 1
    BY <1>9, <2>2, FS_RemoveElement
  <2>4. inum \in Live(fs2) => Links(fs2, inum) # {}
    <3>1. ASSUME inum \in Live(fs2), Links(fs2, inum) = {} PROVE FALSE
      <4>1. Cardinality(Links(fs2, inum)) = 0
        BY <3>1, FS_EmptySet
      <4>2. Cardinality(Links(fs, inum)) \in Nat
        BY <1>9, FS_CardinalityType
      <4>3. Cardinality(Links(fs, inum)) = 1
        BY <4>1, <4>2, <2>3
      <4> QED BY <4>3, <3>1, <1>4, <1>9
    <3> QED BY <3>1
  <2>5. ASSUME NEW i \in Live(fs2)
        PROVE  fs2.inodes[i].refCnt = Cardinality(Links(fs2, i)) /\ Links(fs2, i) # {}
    <3>1. CASE i = inum
      BY <3>1, <1>4, <1>9, <2>3, <2>4, <2>5
    <3>2. CASE i # inum
      <4>1. i \in Live(fs) \ {inum} /\ Links(fs2, i) = Links(fs, i)
        BY <3>2, <2>1, <1>4
      <4>2. fs.inodes[i].refCnt = Cardinality(Links(fs, i)) /\ Links(fs, i) # {}
        BY <4>1, <1>2 DEF Counted
      <4> QED BY <4>1, <4>2, <1>4
    <3> QED BY <3>1, <3>2
  <2> QED BY <2>5 DEF Counted
<1>14. Named(fs2)
  <2>1. /\ <<>> \in fs.dirs /\ fs.nameToInum[<<>>] = ROOT /\ <<>> \notin ToSet(fs.files)
        /\ fs.dirs \cup ToSet(fs.files) \subseteq DOMAIN fs.nameToInum
        /\ \A p \in fs.dirs : fs.nameToInum[p] \in D
        /\ \A p, q \in fs.dirs : fs.nameToInum[p] = fs.nameToInum[q] => p = q
        /\ \A d \in D : \E p \in fs.dirs : fs.nameToInum[p] = d
        /\ \A p \in ToSet(fs.files) : fs.nameToInum[p] \in Live(fs) \ D
    BY <1>2 DEF Named, D
  <2>2. ASSUME NEW p \in ToSet(fs2.files) PROVE fs.nameToInum[p] \in Live(fs2) \ D
    <3>1. p \in ToSet(fs.files) /\ p # path /\ fs.nameToInum[p] \in Live(fs) \ D /\ p # <<>>
      BY <1>1, <2>1
    <3>2. ASSUME fs.nameToInum[p] = inum, inum \notin Live(fs2) PROVE FALSE
      <4>1. /\ fs.nameToInum[Front(p)] \in D
            /\ <<Last(p), inum>> \in Entry(fs, fs.nameToInum[Front(p)])
            /\ fs.nameToInum[Front(p)] # pinum \/ Last(p) # name
        BY <1>7, <3>1, <3>2
      <4>2. Last(p) \in AllNames
        <5>1. /\ <<Last(p), inum>> \in AllNames \X Upto(n)
          BY <1>2, <4>1, DirectoryBlocks DEF D
        <5> QED BY <5>1
      <4>3. <<fs.nameToInum[Front(p)], Last(p)>> \in Links(fs, inum)
        BY <4>1, <4>2 DEF Links, D
      <4> QED BY <4>1, <4>3, <3>2, <1>10
    <3> QED BY <3>1, <3>2, <1>4
  <2>3. \A p \in ToSet(fs2.files) : fs2.nameToInum[p] \in Live(fs2) \ Directories(fs2)
    BY <2>2, <1>4
  <2> QED BY <2>1, <2>3, <1>1, <1>4 DEF Named
<1>15. PathsLead(fs2)
  <2>1. ASSUME NEW p \in fs2.dirs \cup ToSet(fs2.files), p # <<>>
        PROVE /\ Front(p) \in fs2.dirs /\ Last(p) \notin Dots
              /\ <<Last(p), fs2.nameToInum[p]>> \in Entry(fs2, fs2.nameToInum[Front(p)])
    <3>1. p \in fs.dirs \cup ToSet(fs.files) /\ p # path
      <4>1. path \notin fs.dirs
        BY <1>1, <1>2, <1>4 DEF Named, D
      <4> QED BY <4>1, <1>1, <1>4
    <3>2. /\ Front(p) \in fs.dirs /\ fs.nameToInum[Front(p)] \in D /\ Last(p) \notin Dots
          /\ <<Last(p), fs.nameToInum[p]>> \in Entry(fs, fs.nameToInum[Front(p)])
          /\ fs.nameToInum[Front(p)] # pinum \/ Last(p) # name
      BY <1>7, <2>1, <3>1
    <3> QED BY <3>2, <1>4, <1>5
  <2>2. ASSUME NEW p \in fs2.dirs, NEW e \in Entry(fs2, fs2.nameToInum[p]), e[1] \notin Dots
        PROVE /\ Append(p, e[1]) \in fs2.dirs \cup ToSet(fs2.files)
              /\ fs2.nameToInum[Append(p, e[1])] = e[2]
    <3>1. p \in fs.dirs /\ fs.nameToInum[p] \in D /\ e \in Entry(fs2, fs.nameToInum[p])
      BY <1>2, <1>4 DEF Named, D
    <3>2. /\ e \in Entry(fs, fs.nameToInum[p])
          /\ fs.nameToInum[p] = pinum => e # <<name, inum>>
      BY <3>1, <1>5
    <3>3. /\ Append(p, e[1]) \in fs.dirs \cup ToSet(fs.files)
          /\ fs.nameToInum[Append(p, e[1])] = e[2]
      BY <1>2, <2>2, <3>1, <3>2 DEF PathsLead
    <3>4. ASSUME Append(p, e[1]) = path PROVE FALSE
      <4>1. e \in AllNames \X Upto(n)
        BY <1>2, <3>1, <3>2, DirectoryBlocks DEF D
      <4>2. e[1] \in Names /\ p \in Seq(Names)
        BY <4>1, <2>2, <3>1, TypeParts DEF AllNames
      <4>3. p = parent /\ e[1] = name
        BY <4>2, <3>4, PathParts DEF parent, name
      <4>4. e \in Entry(fs, pinum) /\ e # <<name, inum>>
        BY <4>3, <3>2 DEF pinum
      <4> QED BY <4>3, <4>4, <1>1, <1>6
    <3> QED BY <3>3, <3>4, <1>1, <1>4
  <2> QED BY <2>1, <2>2 DEF PathsLead
<1> QED BY <1>8, <1>11, <1>12, <1>13, <1>14, <1>15

-----------------------------------------------------------------------------
(* What the parts of operations do to the fields of a file system.         *)

\* Only inodes and blocks differ, only tables differ.
SameTables(fs, fs2) ==
  fs2.files = fs.files /\ fs2.dirs = fs.dirs /\ fs2.nameToInum = fs.nameToInum

SameInodes(n, fs, fs2) ==
  /\ fs2.ibitmap = fs.ibitmap
  /\ \A i \in Upto(n) : fs2.inodes[i] = fs.inodes[i]

SameBlocks(m, fs, fs2) ==
  /\ fs2.dbitmap = fs.dbitmap
  /\ \A b \in Upto(m) : fs2.data[b] = fs.data[b]

\* fs2 is fs with an entry more in dir.
HasEntry(n, m, fs, fs2, dir, name, inum) ==
  /\ fs2 \in FsType(n, m)
  /\ SameTables(fs, fs2)
  /\ SameInodes(n, fs, fs2)
  /\ fs2.dbitmap = fs.dbitmap
  /\ \A b \in Upto(m) :
       /\ fs2.data[b].ftype = fs.data[b].ftype /\ fs2.data[b].data = fs.data[b].data
       /\ fs2.data[b].dirList =
            IF b = DirAddr(fs, dir) THEN Append(fs.data[b].dirList, <<name, inum>>)
            ELSE fs.data[b].dirList

LEMMA AddedEntry ==
  ASSUME NEW n, NEW m, NEW fs \in FsType(n, m), NEW dir, NEW name \in AllNames,
         NEW inum \in Upto(n), DirAddr(fs, dir) \in Upto(m)
  PROVE  HasEntry(n, m, fs, AddDirEntry(fs, dir, name, inum), dir, name, inum)
<1> DEFINE a == DirAddr(fs, dir)
           list == Append(fs.data[a].dirList, <<name, inum>>)
           r == WithList(fs.data[a], list)
           fs2 == AddDirEntry(fs, dir, name, inum)
<1> HIDE DEF a
<1>1. a \in Upto(m)
  BY DEF a
<1>2. list \in Seq(AllNames \X Upto(n))
  <2>1. fs.data[a].dirList \in Seq(AllNames \X Upto(n)) /\ <<name, inum>> \in AllNames \X Upto(n)
    BY <1>1, Fields
  <2> QED BY <2>1, ListAppend
<1> HIDE DEF list
<1>3. /\ r \in BlockType(n) /\ r.ftype = fs.data[a].ftype /\ r.dirList = list
      /\ r.data = fs.data[a].data
  <2>1. fs.data[a] \in BlockType(n)
    BY <1>1, Fields
  <2> QED BY <2>1, <1>2, BlockUpdate
<1>4. /\ fs2.ibitmap = fs.ibitmap /\ fs2.dbitmap = fs.dbitmap /\ fs2.inodes = fs.inodes
      /\ fs2.data = [fs.data EXCEPT ![a] = r]
      /\ fs2.files = fs.files /\ fs2.dirs = fs.dirs /\ fs2.nameToInum = fs.nameToInum
  BY DEF FsType, AddDirEntry, a, list, WithList
<1>5. fs2 \in FsType(n, m)
  <2>1. [fs.data EXCEPT ![a] = r] \in [Upto(m) -> BlockType(n)]
    BY <1>1, <1>3, TypeParts
  <2> QED BY <2>1 DEF FsType, AddDirEntry, a, list, WithList
<1>6. \A b \in Upto(m) : fs2.data[b] = IF b = a THEN r ELSE fs.data[b]
  BY <1>1, <1>4, TypeParts
<1> HIDE DEF r, fs2
<1>7. \A b \in Upto(m) :
        /\ fs2.data[b].ftype = fs.data[b].ftype /\ fs2.data[b].data = fs.data[b].data
        /\ fs2.data[b].dirList = IF b = a THEN list ELSE fs.data[b].dirList
  BY <1>3, <1>6
<1> QED BY <1>4, <1>5, <1>7 DEF HasEntry, fs2, a, list, SameTables, SameInodes

\* fs2 is fs with an entry less in dir.
LosesEntry(n, m, fs, fs2, dir, name) ==
  /\ fs2 \in FsType(n, m)
  /\ SameTables(fs, fs2)
  /\ SameInodes(n, fs, fs2)
  /\ fs2.dbitmap = fs.dbitmap
  /\ \A b \in Upto(m) :
       /\ fs2.data[b].ftype = fs.data[b].ftype /\ fs2.data[b].data = fs.data[b].data
       /\ fs2.data[b].dirList =
            IF b = DirAddr(fs, dir) THEN Without(fs.data[b].dirList, name)
            ELSE fs.data[b].dirList

LEMMA DeletedEntry ==
  ASSUME NEW n, NEW m, NEW fs \in FsType(n, m), NEW dir, NEW name,
         DirAddr(fs, dir) \in Upto(m),
         Without(fs.data[DirAddr(fs, dir)].dirList, name) \in Seq(AllNames \X Upto(n))
  PROVE  LosesEntry(n, m, fs, DelDirEntry(fs, dir, name), dir, name)
<1> DEFINE a == DirAddr(fs, dir)
           list == Without(fs.data[a].dirList, name)
           r == WithList(fs.data[a], list)
           fs2 == DelDirEntry(fs, dir, name)
<1>0. fs2 = [fs EXCEPT !.data[a].dirList = list]
  BY DEF DelDirEntry, Without
<1> HIDE DEF a
<1>1. a \in Upto(m) /\ list \in Seq(AllNames \X Upto(n))
  BY DEF a
<1> HIDE DEF list, fs2
<1>3. /\ r \in BlockType(n) /\ r.ftype = fs.data[a].ftype /\ r.dirList = list
      /\ r.data = fs.data[a].data
  <2>1. fs.data[a] \in BlockType(n)
    BY <1>1, Fields
  <2>2. /\ WithList(fs.data[a], list) \in BlockType(n)
        /\ WithList(fs.data[a], list).ftype = fs.data[a].ftype
        /\ WithList(fs.data[a], list).dirList = list
        /\ WithList(fs.data[a], list).data = fs.data[a].data
    BY ONLY <2>1, <1>1, BlockUpdate
  <2> QED BY <2>2
<1>4. /\ fs2.ibitmap = fs.ibitmap /\ fs2.dbitmap = fs.dbitmap /\ fs2.inodes = fs.inodes
      /\ fs2.data = [fs.data EXCEPT ![a] = r]
      /\ fs2.files = fs.files /\ fs2.dirs = fs.dirs /\ fs2.nameToInum = fs.nameToInum
  BY <1>0 DEF FsType, WithList
<1>5. fs2 \in FsType(n, m)
  <2>1. [fs.data EXCEPT ![a] = r] \in [Upto(m) -> BlockType(n)]
    BY <1>1, <1>3, TypeParts
  <2> QED BY <1>0, <2>1 DEF FsType, WithList
<1>6. \A b \in Upto(m) : fs2.data[b] = IF b = a THEN r ELSE fs.data[b]
  BY <1>1, <1>4, TypeParts
<1> HIDE DEF r
<1>7. \A b \in Upto(m) :
        /\ fs2.data[b].ftype = fs.data[b].ftype /\ fs2.data[b].data = fs.data[b].data
        /\ fs2.data[b].dirList = IF b = a THEN list ELSE fs.data[b].dirList
  BY <1>3, <1>6
<1> QED BY <1>4, <1>5, <1>7 DEF LosesEntry, fs2, a, list, SameTables, SameInodes

\* A reference count that changes.
Recounted(fs, inum, c) == [fs EXCEPT !.inodes[inum].refCnt = @ + c]

IsRecounted(n, m, fs, fs2, inum, c) ==
  /\ fs2 \in FsType(n, m)
  /\ SameTables(fs, fs2) /\ SameBlocks(m, fs, fs2)
  /\ fs2.ibitmap = fs.ibitmap
  /\ \A i \in Upto(n) :
       /\ fs2.inodes[i].ftype = fs.inodes[i].ftype
       /\ fs2.inodes[i].addr = fs.inodes[i].addr
       /\ fs2.inodes[i].refCnt =
            IF i = inum THEN fs.inodes[i].refCnt + c ELSE fs.inodes[i].refCnt

LEMMA CountChanged ==
  ASSUME NEW n, NEW m, NEW fs \in FsType(n, m), NEW inum \in Upto(n), NEW c \in Int
  PROVE  IsRecounted(n, m, fs, Recounted(fs, inum, c), inum, c)
<1> DEFINE cnt == fs.inodes[inum].refCnt + c
           r == WithCount(fs.inodes[inum], cnt)
           fs2 == Recounted(fs, inum, c)
<1>1. fs.inodes[inum] \in InodeType(m) /\ cnt \in Int
  <2>1. fs.inodes[inum] \in InodeType(m) /\ fs.inodes[inum].refCnt \in Int
    BY Fields
  <2> QED BY <2>1
<1>2. fs2 = [fs EXCEPT !.inodes[inum].refCnt = cnt]
  BY DEF Recounted
<1> HIDE DEF cnt, fs2
<1>3. /\ r \in InodeType(m) /\ r.ftype = fs.inodes[inum].ftype
      /\ r.addr = fs.inodes[inum].addr /\ r.refCnt = cnt
  BY <1>1, CountUpdate
<1>4. /\ fs2.ibitmap = fs.ibitmap /\ fs2.dbitmap = fs.dbitmap
      /\ fs2.inodes = [fs.inodes EXCEPT ![inum] = r] /\ fs2.data = fs.data
      /\ fs2.files = fs.files /\ fs2.dirs = fs.dirs /\ fs2.nameToInum = fs.nameToInum
  BY <1>2 DEF FsType, WithCount
<1>5. fs2 \in FsType(n, m)
  <2>1. [fs.inodes EXCEPT ![inum] = r] \in [Upto(n) -> InodeType(m)]
    BY <1>3, TypeParts
  <2> QED BY <1>2, <2>1 DEF FsType, WithCount
<1>6. \A i \in Upto(n) : fs2.inodes[i] = IF i = inum THEN r ELSE fs.inodes[i]
  BY <1>4, TypeParts
<1> HIDE DEF r
<1>7. \A i \in Upto(n) :
        /\ fs2.inodes[i].ftype = fs.inodes[i].ftype /\ fs2.inodes[i].addr = fs.inodes[i].addr
        /\ fs2.inodes[i].refCnt = IF i = inum THEN cnt ELSE fs.inodes[i].refCnt
  BY <1>3, <1>6
<1>8. \A i \in Upto(n) :
        fs2.inodes[i].refCnt = IF i = inum THEN fs.inodes[i].refCnt + c ELSE fs.inodes[i].refCnt
  BY <1>7 DEF cnt
<1> QED BY <1>4, <1>5, <1>7, <1>8 DEF IsRecounted, fs2, SameTables, SameBlocks

\* A path that is entered in the tables of the workload.
Entered(fs, inum, path, ftype) == Enter([rc |-> inum, fs |-> fs], path, ftype).fs

\* fs2 is fs with a path in the tables.
HasEntered(n, m, fs, fs2, inum, path, ftype) ==
  /\ fs2 \in FsType(n, m)
  /\ fs2.inodes = fs.inodes /\ fs2.ibitmap = fs.ibitmap
  /\ fs2.data = fs.data /\ fs2.dbitmap = fs.dbitmap
  /\ fs2.files = IF ftype = "f" THEN Append(fs.files, path) ELSE fs.files
  /\ fs2.dirs = IF ftype = "d" THEN fs.dirs \cup {path} ELSE fs.dirs
  /\ fs2.nameToInum = Known(fs.nameToInum, path, inum)

LEMMA EnterFields ==
  ASSUME NEW n, NEW m, NEW fs \in FsType(n, m), NEW inum \in Upto(n),
         NEW path \in Seq(Names), NEW ftype
  PROVE  HasEntered(n, m, fs, Entered(fs, inum, path, ftype), inum, path, ftype)
<1> DEFINE files == IF ftype = "f" THEN Append(fs.files, path) ELSE fs.files
           dirs == IF ftype = "d" THEN fs.dirs \cup {path} ELSE fs.dirs
           table == Known(fs.nameToInum, path, inum)
           P == DOMAIN fs.nameToInum \cup {path}
           fs2 == Entered(fs, inum, path, ftype)
<1>1. files \in Seq(Seq(Names)) /\ dirs \in SUBSET Seq(Names)
  <2>1. fs.files \in Seq(Seq(Names)) /\ fs.dirs \in SUBSET Seq(Names)
    BY TypeParts
  <2>2. Append(fs.files, path) \in Seq(Seq(Names))
    BY <2>1, ListAppend
  <2> QED BY <2>1, <2>2
<1>2. P \in SUBSET Seq(Names) /\ table \in [P -> Upto(n)]
  <2>1. /\ DOMAIN fs.nameToInum \in SUBSET Seq(Names)
        /\ fs.nameToInum \in [DOMAIN fs.nameToInum -> Upto(n)]
    BY TypeParts
  <2> QED BY <2>1 DEF Known
<1>3. inum # -1
  BY NoNumber DEF None
<1>4. fs2 = [fs EXCEPT !.nameToInum = table, !.files = files, !.dirs = dirs]
  BY <1>3 DEF Entered, Enter, FsType
<1> HIDE DEF files, dirs, table, fs2, P
<1>5. fs2 \in FsType(n, m)
  <2>1. table \in UNION {[Q -> Upto(n)] : Q \in SUBSET Seq(Names)}
    BY <1>2
  <2> QED BY <1>1, <1>4, <2>1 DEF FsType
<1>6. /\ fs2.inodes = fs.inodes /\ fs2.ibitmap = fs.ibitmap
      /\ fs2.data = fs.data /\ fs2.dbitmap = fs.dbitmap
      /\ fs2.files = files /\ fs2.dirs = dirs /\ fs2.nameToInum = table
  BY <1>4 DEF FsType
<1> QED BY <1>5, <1>6 DEF fs2, files, dirs, table, HasEntered

\* The inode of a new file.
NewFile(fs, inum) == [[fs EXCEPT !.ibitmap[inum] = 1] EXCEPT !.inodes[inum] = Inode("f", None, 1)]

HasNewFile(n, m, fs, fs2, inum) ==
  /\ fs2 \in FsType(n, m)
  /\ SameTables(fs, fs2) /\ SameBlocks(m, fs, fs2)
  /\ \A i \in Upto(n) :
       /\ fs2.ibitmap[i] = IF i = inum THEN 1 ELSE fs.ibitmap[i]
       /\ fs2.inodes[i] =
            IF i = inum THEN Inode("f", None, 1) ELSE fs.inodes[i]

LEMMA NewFileFields ==
  ASSUME NEW n, NEW m, NEW fs \in FsType(n, m), NEW inum \in Upto(n)
  PROVE  HasNewFile(n, m, fs, NewFile(fs, inum), inum)
<1> DEFINE r == Inode("f", None, 1)
           fs2 == NewFile(fs, inum)
<1>1. r \in InodeType(m)
  BY DEF Inode, InodeType
<1>2. fs2 = [[fs EXCEPT !.ibitmap[inum] = 1] EXCEPT !.inodes[inum] = r]
  BY DEF NewFile
<1> HIDE DEF r, fs2
<1>3. /\ fs2.ibitmap = [fs.ibitmap EXCEPT ![inum] = 1] /\ fs2.dbitmap = fs.dbitmap
      /\ fs2.inodes = [fs.inodes EXCEPT ![inum] = r] /\ fs2.data = fs.data
      /\ fs2.files = fs.files /\ fs2.dirs = fs.dirs /\ fs2.nameToInum = fs.nameToInum
  BY <1>2 DEF FsType
<1>4. fs2 \in FsType(n, m)
  <2>1. [fs.inodes EXCEPT ![inum] = r] \in [Upto(n) -> InodeType(m)]
    BY <1>1, TypeParts
  <2>2. [fs.ibitmap EXCEPT ![inum] = 1] \in [Upto(n) -> {0, 1}]
    BY TypeParts
  <2> QED BY <1>2, <2>1, <2>2 DEF FsType
<1>5. \A i \in Upto(n) : /\ fs2.inodes[i] = IF i = inum THEN r ELSE fs.inodes[i]
                         /\ fs2.ibitmap[i] = IF i = inum THEN 1 ELSE fs.ibitmap[i]
  BY <1>3, TypeParts
<1> QED BY <1>3, <1>4, <1>5 DEF HasNewFile, fs2, r, SameTables, SameBlocks

\* The inode and the block of a new directory.
NewDir(fs, inum, pinum, b) ==
  [[fs EXCEPT !.ibitmap[inum] = 1]
     EXCEPT !.inodes[inum] = Inode("d", b, 2), !.inodes[pinum].refCnt = @ + 1,
            !.dbitmap[b] = 1, !.data[b] = DirBlock(inum, pinum)]

HasNewDir(n, m, fs, fs2, inum, pinum, b) ==
  /\ fs2 \in FsType(n, m)
  /\ SameTables(fs, fs2)
  /\ \A i \in Upto(n) :
       /\ fs2.ibitmap[i] = IF i = inum THEN 1 ELSE fs.ibitmap[i]
       /\ fs2.inodes[i].ftype =
            IF i = inum THEN "d" ELSE fs.inodes[i].ftype
       /\ fs2.inodes[i].addr =
            IF i = inum THEN b ELSE fs.inodes[i].addr
       /\ fs2.inodes[i].refCnt =
            IF i = inum THEN 2
            ELSE IF i = pinum THEN fs.inodes[i].refCnt + 1 ELSE fs.inodes[i].refCnt
  /\ \A c \in Upto(m) :
       /\ fs2.dbitmap[c] = IF c = b THEN 1 ELSE fs.dbitmap[c]
       /\ fs2.data[c] =
            IF c = b THEN DirBlock(inum, pinum) ELSE fs.data[c]

LEMMA NewDirFields ==
  ASSUME NEW n, NEW m, NEW fs \in FsType(n, m), NEW inum \in Upto(n), NEW pinum \in Upto(n),
         NEW b \in Upto(m), inum # pinum
  PROVE  HasNewDir(n, m, fs, NewDir(fs, inum, pinum, b), inum, pinum, b)
<1> DEFINE r == Inode("d", b, 2)
           q == WithCount(fs.inodes[pinum], fs.inodes[pinum].refCnt + 1)
           blk == DirBlock(inum, pinum)
           fs2 == NewDir(fs, inum, pinum, b)
<1>1. r \in InodeType(m) /\ r.ftype = "d" /\ r.addr = b /\ r.refCnt = 2
  BY DEF Inode, InodeType
<1>2. /\ q \in InodeType(m) /\ q.ftype = fs.inodes[pinum].ftype
      /\ q.addr = fs.inodes[pinum].addr /\ q.refCnt = fs.inodes[pinum].refCnt + 1
  <2>1. fs.inodes[pinum] \in InodeType(m) /\ fs.inodes[pinum].refCnt \in Int
    BY Fields
  <2>2. fs.inodes[pinum].refCnt + 1 \in Int
    BY <2>1
  <2> QED BY <2>1, <2>2, CountUpdate
<1>3. blk \in BlockType(n)
  BY DEF DirBlock, BlockType, AllNames, Dots
<1>4. fs2 = [[fs EXCEPT !.ibitmap[inum] = 1]
               EXCEPT !.inodes[inum] = r, !.inodes[pinum] = q, !.dbitmap[b] = 1, !.data[b] = blk]
  BY DEF NewDir, WithCount, FsType
<1> HIDE DEF r, q, blk, fs2
<1>5. /\ fs2.ibitmap = [fs.ibitmap EXCEPT ![inum] = 1]
      /\ fs2.dbitmap = [fs.dbitmap EXCEPT ![b] = 1]
      /\ fs2.inodes = [fs.inodes EXCEPT ![inum] = r, ![pinum] = q]
      /\ fs2.data = [fs.data EXCEPT ![b] = blk]
      /\ fs2.files = fs.files /\ fs2.dirs = fs.dirs /\ fs2.nameToInum = fs.nameToInum
  BY <1>4 DEF FsType
<1>6. fs2 \in FsType(n, m)
  <2>1. [fs.inodes EXCEPT ![inum] = r, ![pinum] = q] \in [Upto(n) -> InodeType(m)]
    BY <1>1, <1>2, TypeParts
  <2>2. /\ [fs.ibitmap EXCEPT ![inum] = 1] \in [Upto(n) -> {0, 1}]
        /\ [fs.dbitmap EXCEPT ![b] = 1] \in [Upto(m) -> {0, 1}]
    BY TypeParts
  <2>3. [fs.data EXCEPT ![b] = blk] \in [Upto(m) -> BlockType(n)]
    BY <1>3, TypeParts
  <2> QED BY <1>4, <2>1, <2>2, <2>3 DEF FsType
<1>7. \A i \in Upto(n) :
        /\ fs2.inodes[i] = IF i = inum THEN r ELSE IF i = pinum THEN q ELSE fs.inodes[i]
        /\ fs2.ibitmap[i] = IF i = inum THEN 1 ELSE fs.ibitmap[i]
  BY <1>5, TypeParts
<1>8. \A c \in Upto(m) :
        /\ fs2.data[c] = IF c = b THEN blk ELSE fs.data[c]
        /\ fs2.dbitmap[c] = IF c = b THEN 1 ELSE fs.dbitmap[c]
  BY <1>5, TypeParts
<1>9. \A i \in Upto(n) :
        /\ fs2.inodes[i].ftype = IF i = inum THEN "d" ELSE fs.inodes[i].ftype
        /\ fs2.inodes[i].addr = IF i = inum THEN b ELSE fs.inodes[i].addr
        /\ fs2.inodes[i].refCnt = IF i = inum THEN 2 ELSE IF i = pinum
                                  THEN fs.inodes[i].refCnt + 1 ELSE fs.inodes[i].refCnt
  BY <1>1, <1>2, <1>7
<1> QED BY <1>5, <1>6, <1>7, <1>8, <1>9 DEF HasNewDir, fs2, blk, SameTables

\* fs2 is fs with block b freed.
LosesBlock(n, m, fs, fs2, b) ==
  /\ fs2 \in FsType(n, m)
  /\ SameTables(fs, fs2) /\ SameInodes(n, fs, fs2)
  /\ \A c \in Upto(m) :
       /\ fs2.dbitmap[c] = IF c = b THEN 0 ELSE fs.dbitmap[c]
       /\ fs2.data[c] = IF c = b THEN FreeBlock ELSE fs.data[c]

LEMMA DataFreeFields ==
  ASSUME NEW n, NEW m, NEW fs \in FsType(n, m), NEW b \in Upto(m)
  PROVE  LosesBlock(n, m, fs, DataFree(fs, b), b)
<1> DEFINE blk == FreeBlock
           fs2 == DataFree(fs, b)
<1>1. blk \in BlockType(n)
  BY EmptySeq DEF FreeBlock, BlockType
<1>2. fs2 = [fs EXCEPT !.dbitmap[b] = 0, !.data[b] = blk]
  BY DEF DataFree
<1> HIDE DEF blk, fs2
<1>3. /\ fs2.ibitmap = fs.ibitmap /\ fs2.dbitmap = [fs.dbitmap EXCEPT ![b] = 0]
      /\ fs2.inodes = fs.inodes /\ fs2.data = [fs.data EXCEPT ![b] = blk]
      /\ fs2.files = fs.files /\ fs2.dirs = fs.dirs /\ fs2.nameToInum = fs.nameToInum
  BY <1>2 DEF FsType
<1>4. fs2 \in FsType(n, m)
  <2>1. [fs.data EXCEPT ![b] = blk] \in [Upto(m) -> BlockType(n)]
    BY <1>1, TypeParts
  <2>2. [fs.dbitmap EXCEPT ![b] = 0] \in [Upto(m) -> {0, 1}]
    BY TypeParts
  <2> QED BY <1>2, <2>1, <2>2 DEF FsType
<1>5. \A c \in Upto(m) : /\ fs2.data[c] = IF c = b THEN blk ELSE fs.data[c]
                         /\ fs2.dbitmap[c] = IF c = b THEN 0 ELSE fs.dbitmap[c]
  BY <1>3, TypeParts
<1> QED BY <1>3, <1>4, <1>5 DEF LosesBlock, fs2, blk, SameTables, SameInodes

\* fs2 is fs with an inode freed.
LosesInode(n, m, fs, fs2, inum) ==
  /\ fs2 \in FsType(n, m)
  /\ SameTables(fs, fs2) /\ SameBlocks(m, fs, fs2)
  /\ \A i \in Upto(n) :
       /\ fs2.ibitmap[i] = IF i = inum THEN 0 ELSE fs.ibitmap[i]
       /\ fs2.inodes[i].ftype =
            IF i = inum THEN "free" ELSE fs.inodes[i].ftype
       /\ fs2.inodes[i].refCnt = fs.inodes[i].refCnt
       /\ i # inum => fs2.inodes[i].addr = fs.inodes[i].addr

LEMMA InodeFreeFields ==
  ASSUME NEW n, NEW m, NEW fs \in FsType(n, m), NEW inum \in Upto(n)
  PROVE  LosesInode(n, m, fs, InodeFree(fs, inum), inum)
<1> DEFINE r == Unused(fs.inodes[inum])
           fs2 == InodeFree(fs, inum)
<1>1. r \in InodeType(m) /\ r.ftype = "free" /\ r.refCnt = fs.inodes[inum].refCnt
  <2>1. fs.inodes[inum] \in InodeType(m)
    BY Fields
  <2> QED BY <2>1, FreeUpdate
<1>2. fs2 = [fs EXCEPT !.ibitmap[inum] = 0, !.inodes[inum] = r]
  BY DEF InodeFree, Unused, FsType
<1> HIDE DEF r, fs2
<1>3. /\ fs2.ibitmap = [fs.ibitmap EXCEPT ![inum] = 0] /\ fs2.dbitmap = fs.dbitmap
      /\ fs2.inodes = [fs.inodes EXCEPT ![inum] = r] /\ fs2.data = fs.data
      /\ fs2.files = fs.files /\ fs2.dirs = fs.dirs /\ fs2.nameToInum = fs.nameToInum
  BY <1>2 DEF FsType
<1>4. fs2 \in FsType(n, m)
  <2>1. [fs.inodes EXCEPT ![inum] = r] \in [Upto(n) -> InodeType(m)]
    BY <1>1, TypeParts
  <2>2. [fs.ibitmap EXCEPT ![inum] = 0] \in [Upto(n) -> {0, 1}]
    BY TypeParts
  <2> QED BY <1>2, <2>1, <2>2 DEF FsType
<1>5. \A i \in Upto(n) : /\ fs2.inodes[i] = IF i = inum THEN r ELSE fs.inodes[i]
                         /\ fs2.ibitmap[i] = IF i = inum THEN 0 ELSE fs.ibitmap[i]
  BY <1>3, TypeParts
<1>6. \A i \in Upto(n) :
        /\ fs2.inodes[i].ftype = IF i = inum THEN "free" ELSE fs.inodes[i].ftype
        /\ fs2.inodes[i].refCnt = fs.inodes[i].refCnt
        /\ i # inum => fs2.inodes[i].addr = fs.inodes[i].addr
  BY <1>1, <1>5
<1> QED BY <1>3, <1>4, <1>5, <1>6 DEF LosesInode, fs2, SameTables, SameBlocks

-----------------------------------------------------------------------------
(* The operations keep the file system sound.                              *)

\* What an operation does to reference counts: they grow by one at most, but
\* for that of a new inode.
CountsGrow(n, fs, fs2) ==
  \A i \in Upto(n) :
    \/ fs2.inodes[i].refCnt = fs.inodes[i].refCnt
    \/ fs2.inodes[i].refCnt \in 0 .. fs.inodes[i].refCnt + 1
    \/ fs2.inodes[i].refCnt \in 0 .. 2

\* Types, blocks and bits of two file systems agree.
SameUse(n, m, fs, fs2) ==
  /\ \A i \in Upto(n) : /\ fs2.inodes[i].ftype = fs.inodes[i].ftype
                        /\ fs.inodes[i].ftype # "free" =>
                             fs2.inodes[i].addr = fs.inodes[i].addr
                        /\ fs2.ibitmap[i] = fs.ibitmap[i]
  /\ \A b \in Upto(m) : /\ fs2.data[b].ftype = fs.data[b].ftype
                        /\ fs2.dbitmap[b] = fs.dbitmap[b]

LEMMA UseKept ==
  ASSUME NEW n, NEW m, NEW fs \in FsType(n, m), NEW fs2 \in FsType(n, m), Sound(fs),
         SameUse(n, m, fs, fs2)
  PROVE  Bits(fs2) /\ Owned(fs2) /\ Live(fs2) = Live(fs) /\ Directories(fs2) = Directories(fs)
<1>1. Live(fs2) = Live(fs) /\ Directories(fs2) = Directories(fs)
  BY SameLive DEF SameUse
<1>2. /\ DOMAIN fs.inodes = Upto(n) /\ DOMAIN fs2.inodes = Upto(n)
      /\ DOMAIN fs.data = Upto(m) /\ DOMAIN fs2.data = Upto(m)
  BY TypeParts
<1>3. Bits(fs2)
  BY <1>2 DEF Sound, Bits, SameUse
<1>4. Live(fs) \subseteq Upto(n)
  BY LiveParts
<1>5. \A i \in Live(fs) : fs.inodes[i].addr = None \/ fs.inodes[i].addr \in Upto(m)
  BY <1>4, Fields
<1>6. Owned(fs2)
  <2>1. \A i \in Live(fs) : fs.inodes[i].ftype # "free"
    BY <1>4, LiveParts
  <2> QED BY <2>1, <1>1, <1>2, <1>4, <1>5 DEF Sound, Owned, SameUse
<1> QED BY <1>1, <1>3, <1>6

\* The counts of live inodes.
LEMMA LiveCounts ==
  ASSUME NEW n, NEW m, NEW fs \in FsType(n, m), Sound(fs), n \in Nat, MaxUsed \in Nat
  PROVE  \A i \in Live(fs) : fs.inodes[i].refCnt \in Nat /\ fs.inodes[i].refCnt >= 1
<1> SUFFICES ASSUME NEW i \in Live(fs)
             PROVE fs.inodes[i].refCnt \in Nat /\ fs.inodes[i].refCnt >= 1
  OBVIOUS
<1>1. Owned(fs) /\ Lists(fs) /\ fs.inodes[i].refCnt = Cardinality(Links(fs, i)) /\ Links(fs, i) # {}
  BY DEF Sound, Counted
<1>2. IsFiniteSet(Links(fs, i))
  BY <1>1, LinksAreRefs
<1> QED BY <1>1, <1>2, FS_CardinalityType, FS_EmptySet

\* A path more, and a path less: files keep their contents.
Grown(fs, fs2, path, inum, ftype) ==
  /\ fs2.files = IF ftype = "f" THEN Append(fs.files, path) ELSE fs.files
  /\ fs2.dirs = IF ftype = "d" THEN fs.dirs \cup {path} ELSE fs.dirs
  /\ fs2.nameToInum = Known(fs.nameToInum, path, inum)
  /\ SameContent(fs, fs2, Live(fs))

Shrunk(fs, fs2, path) ==
  /\ fs2.files = RemoveFirst(fs.files, path)
  /\ fs2.dirs = fs.dirs /\ fs2.nameToInum = fs.nameToInum
  /\ SameContent(fs, fs2, Live(fs2))

KeepsContent(m, fs, fs2, i) ==
  /\ fs2.inodes[i].addr = fs.inodes[i].addr
  /\ fs.inodes[i].addr \in Upto(m) =>
       fs2.data[fs.inodes[i].addr].data = fs.data[fs.inodes[i].addr].data

LEMMA ContentKept ==
  ASSUME NEW n, NEW m, NEW fs \in FsType(n, m), NEW fs2, NEW I \in SUBSET Upto(n),
         \A i \in I : KeepsContent(m, fs, fs2, i)
  PROVE  SameContent(fs, fs2, I)
<1>1. \A i \in I : fs.inodes[i].addr \in {None} \cup Upto(m)
  BY Fields
<1> QED BY <1>1 DEF SameContent, Content, KeepsContent

\* os.link(): a second name for a file, when there is room for it.
Linked(fs, target, name, parent) ==
  Entered(AddDirEntry(Recounted(fs, fs.nameToInum[target], 1), parent, name,
                      fs.nameToInum[target]),
          fs.nameToInum[target], Append(parent, name), "f")

LEMMA LinkKeeps ==
  ASSUME NEW n, NEW m, NEW fs \in FsType(n, m), Sound(fs), n \in Nat, MaxUsed \in Nat,
         NEW parent \in fs.dirs, NEW name \in Names, NEW target \in ToSet(fs.files),
         MayAdd(fs, parent, name)
  PROVE  /\ Linked(fs, target, name, parent) \in FsType(n, m)
         /\ Sound(Linked(fs, target, name, parent))
         /\ CountsGrow(n, fs, Linked(fs, target, name, parent))
         /\ Grown(fs, Linked(fs, target, name, parent), Append(parent, name),
                  fs.nameToInum[target], "f")
<1> DEFINE inum == fs.nameToInum[target]
           pinum == fs.nameToInum[parent]
           path == Append(parent, name)
           a == fs.inodes[pinum].addr
           fs1 == Recounted(fs, inum, 1)
           fs2 == AddDirEntry(fs1, parent, name, inum)
           fs3 == Entered(fs2, inum, path, "f")
<1>1. /\ inum \in Upto(n) /\ inum \in Live(fs) /\ inum \notin Directories(fs)
      /\ pinum \in Upto(n) /\ pinum \in Directories(fs)
      /\ path \in Seq(Names) /\ name \in AllNames
      /\ a \in Upto(m) /\ EntriesOf(fs, pinum) = fs.data[a].dirList
  <2>1. inum \in Live(fs) \ Directories(fs) /\ pinum \in Directories(fs)
    BY DEF Sound, Named
  <2>2. Owned(fs)
    BY DEF Sound
  <2>3. a \in Upto(m) /\ EntriesOf(fs, pinum) = fs.data[a].dirList
    <3> HIDE DEF pinum
    <3>1. InBlock(n, m, fs, pinum)
      BY <2>1, <2>2, DirectoryBlock
    <3> QED BY <3>1 DEF InBlock
  <2>4. parent \in Seq(Names)
    BY TypeParts
  <2>5. path \in Seq(Names)
    BY <2>4, PathParts
  <2> QED BY <2>1, <2>3, <2>5, LiveParts DEF AllNames
<1>2. /\ Len(EntriesOf(fs, pinum)) < MaxUsed
      /\ \A e \in Entry(fs, pinum) : e[1] # name
  BY DEF MayAdd, Entries, DirAddr, EntriesOf, Entry
<1> HIDE DEF inum, pinum, path, a
<1>3. /\ fs1 \in FsType(n, m) /\ SameTables(fs, fs1) /\ SameBlocks(m, fs, fs1)
      /\ fs1.ibitmap = fs.ibitmap
      /\ \A i \in Upto(n) :
           /\ fs1.inodes[i].ftype = fs.inodes[i].ftype /\ fs1.inodes[i].addr = fs.inodes[i].addr
           /\ fs1.inodes[i].refCnt = IF i = inum THEN fs.inodes[i].refCnt + 1
                                     ELSE fs.inodes[i].refCnt
  <2>1. IsRecounted(n, m, fs, fs1, inum, 1)
    BY <1>1, CountChanged
  <2> QED BY <2>1 DEF IsRecounted
<1> HIDE DEF fs1
<1>4. DirAddr(fs1, parent) = a
  BY <1>1, <1>3 DEF DirAddr, SameTables, a, pinum
<1>5. /\ fs2 \in FsType(n, m) /\ SameTables(fs1, fs2) /\ SameInodes(n, fs1, fs2)
      /\ fs2.dbitmap = fs1.dbitmap
      /\ \A b \in Upto(m) :
           /\ fs2.data[b].ftype = fs1.data[b].ftype /\ fs2.data[b].data = fs1.data[b].data
           /\ fs2.data[b].dirList = IF b = a THEN Append(fs1.data[b].dirList, <<name, inum>>)
                                    ELSE fs1.data[b].dirList
  <2>1. DirAddr(fs1, parent) \in Upto(m)
    BY <1>1, <1>4
  <2>2. HasEntry(n, m, fs1, fs2, parent, name, inum)
    BY <1>1, <1>3, <2>1, AddedEntry
  <2> QED BY <1>4, <2>2 DEF HasEntry
<1> HIDE DEF fs2
<1>6. /\ fs3 \in FsType(n, m) /\ fs3.inodes = fs2.inodes /\ fs3.ibitmap = fs2.ibitmap
      /\ fs3.data = fs2.data /\ fs3.dbitmap = fs2.dbitmap
      /\ fs3.files = Append(fs2.files, path) /\ fs3.dirs = fs2.dirs
      /\ fs3.nameToInum = Known(fs2.nameToInum, path, inum)
  <2>1. fs2 \in FsType(n, m) /\ inum \in Upto(n) /\ path \in Seq(Names)
    BY <1>1, <1>5
  <2>2. HasEntered(n, m, fs2, fs3, inum, path, "f")
    BY <2>1, EnterFields
  <2> QED BY <2>2 DEF HasEntered
<1> HIDE DEF fs3
<1>7. /\ SameUse(n, m, fs, fs3)
      /\ \A i \in Upto(n) : fs3.inodes[i].refCnt = IF i = inum THEN fs.inodes[i].refCnt + 1
                                                   ELSE fs.inodes[i].refCnt
      /\ \A b \in Upto(m) :
           fs3.data[b].dirList = IF b = a THEN Append(fs.data[b].dirList, <<name, inum>>)
                                 ELSE fs.data[b].dirList
      /\ fs3.files = Append(fs.files, path) /\ fs3.dirs = fs.dirs
      /\ fs3.nameToInum = Known(fs.nameToInum, path, inum)
  BY <1>3, <1>5, <1>6 DEF SameUse, SameTables, SameInodes, SameBlocks
<1>8. Bits(fs3) /\ Owned(fs3) /\ Live(fs3) = Live(fs) /\ Directories(fs3) = Directories(fs)
  BY <1>6, <1>7, UseKept
<1>9. OneMore(fs, fs3, pinum, name, inum)
  <2> SUFFICES ASSUME NEW d \in Directories(fs)
      PROVE EntriesOf(fs3, d) = IF d = pinum THEN Append(EntriesOf(fs, d), <<name, inum>>)
                                ELSE EntriesOf(fs, d)
    BY DEF OneMore
  <2>1. /\ fs.inodes[d].addr \in Upto(m) /\ EntriesOf(fs, d) = fs.data[fs.inodes[d].addr].dirList
        /\ fs.inodes[d].addr = a <=> d = pinum
    <3>1. Owned(fs) /\ pinum \in Directories(fs)
      BY <1>1 DEF Sound
    <3>2. InBlock(n, m, fs, d) /\ InBlock(n, m, fs, pinum)
      BY <3>1, DirectoryBlock
    <3>3. \A i \in Live(fs) : fs.inodes[i].addr = a => i = pinum
      BY <3>2 DEF InBlock, a
    <3>4. /\ d \in Live(fs) /\ fs.inodes[d].addr \in Upto(m)
          /\ EntriesOf(fs, d) = fs.data[fs.inodes[d].addr].dirList
      BY <3>2 DEF InBlock
    <3> QED BY <3>3, <3>4 DEF a
  <2>2. fs3.inodes[d].addr = fs.inodes[d].addr
    BY <2>1, <1>3, <1>5, <1>6, LiveParts DEF SameInodes
  <2> QED BY <2>1, <2>2, <1>7 DEF EntriesOf
<1>10. fs.inodes[inum].refCnt = Cardinality(Links(fs, inum))
  BY <1>1 DEF Sound, Counted
<1>11. /\ Live(fs3) = Live(fs) \cup {inum} /\ Directories(fs3) = Directories(fs)
       /\ \A i \in Live(fs) \ {inum} : fs3.inodes[i].refCnt = fs.inodes[i].refCnt
       /\ fs3.inodes[inum].refCnt = Cardinality(Links(fs, inum)) + 1
  BY <1>1, <1>7, <1>8, <1>10, LiveParts
<1>12. /\ Lists(fs3) /\ EntriesLive(fs3) /\ Rooted(fs3) /\ Counted(fs3)
       /\ Named(fs3) /\ PathsLead(fs3)
  BY <1>1, <1>2, <1>6, <1>7, <1>9, <1>11, FileAdded DEF pinum, path
<1>13. CountsGrow(n, fs, fs3)
  <2>1. fs.inodes[inum].refCnt \in Nat
    BY <1>1, LiveCounts
  <2> QED BY <2>1, <1>7 DEF CountsGrow
<1>14. Grown(fs, fs3, path, inum, "f")
  <2>1. \A i \in Live(fs) : KeepsContent(m, fs, fs3, i)
    <3>1. Live(fs) \subseteq Upto(n)
      BY LiveParts
    <3> QED BY <3>1, <1>3, <1>5, <1>6 DEF KeepsContent, SameInodes, SameBlocks
  <2>2. Live(fs) \subseteq Upto(n)
    BY LiveParts
  <2>3. SameContent(fs, fs3, Live(fs))
    BY <2>1, <2>2, ContentKept
  <2> QED BY <2>3, <1>7 DEF Grown
<1> QED BY <1>6, <1>8, <1>12, <1>13, <1>14 DEF Sound, fs3, fs2, fs1, inum, path, Linked

\* What MayAdd() asks of the parent, and where its entries are.
HasRoom(n, m, fs, parent, name) ==
  LET pinum == fs.nameToInum[parent]
      a == fs.inodes[pinum].addr
  IN /\ pinum \in Directories(fs) /\ pinum \in Upto(n) /\ pinum \in Live(fs)
     /\ a \in Upto(m) /\ fs.data[a].ftype = "d"
     /\ Append(parent, name) \in Seq(Names) /\ name \in AllNames
     /\ Len(EntriesOf(fs, pinum)) < MaxUsed
     /\ \A e \in Entry(fs, pinum) : e[1] # name
     /\ \A d \in Directories(fs) :
          /\ d \in Upto(n) /\ d \in Live(fs)
          /\ fs.inodes[d].addr \in Upto(m) /\ fs.data[fs.inodes[d].addr].ftype = "d"
          /\ EntriesOf(fs, d) = fs.data[fs.inodes[d].addr].dirList
          /\ fs.inodes[d].addr = a <=> d = pinum

LEMMA RoomFor ==
  ASSUME NEW n, NEW m, NEW fs \in FsType(n, m), Sound(fs),
         NEW parent \in fs.dirs, NEW name \in Names, MayAdd(fs, parent, name)
  PROVE  HasRoom(n, m, fs, parent, name)
<1> DEFINE pinum == fs.nameToInum[parent]
           a == fs.inodes[pinum].addr
<1>1. pinum \in Directories(fs) /\ Owned(fs)
  BY DEF Sound, Named
<1>2. ASSUME NEW d \in Directories(fs)
      PROVE  /\ d \in Upto(n) /\ d \in Live(fs)
             /\ fs.inodes[d].addr \in Upto(m) /\ fs.data[fs.inodes[d].addr].ftype = "d"
             /\ EntriesOf(fs, d) = fs.data[fs.inodes[d].addr].dirList
             /\ \A i \in Live(fs) : fs.inodes[i].addr = fs.inodes[d].addr => i = d
  <2>1. InBlock(n, m, fs, d)
    BY <1>1, DirectoryBlock
  <2> QED BY <2>1 DEF InBlock
<1>3. Append(parent, name) \in Seq(Names) /\ name \in AllNames
  <2>1. parent \in Seq(Names)
    BY TypeParts
  <2> QED BY <2>1, PathParts DEF AllNames
<1>4. /\ Len(EntriesOf(fs, pinum)) < MaxUsed
      /\ \A e \in Entry(fs, pinum) : e[1] # name
  BY DEF MayAdd, Entries, DirAddr, EntriesOf, Entry
<1> HIDE DEF pinum
<1>5. ASSUME NEW d \in Directories(fs) PROVE fs.inodes[d].addr = a <=> d = pinum
  <2>1. \A i \in Live(fs) : fs.inodes[i].addr = fs.inodes[pinum].addr => i = pinum
    BY <1>1, <1>2
  <2>2. d \in Live(fs)
    BY <1>2
  <2> QED BY <2>1, <2>2
<1>6. /\ pinum \in Upto(n) /\ pinum \in Live(fs) /\ a \in Upto(m) /\ fs.data[a].ftype = "d"
  BY <1>1, <1>2
<1>7. \A d \in Directories(fs) :
        /\ d \in Upto(n) /\ d \in Live(fs)
        /\ fs.inodes[d].addr \in Upto(m) /\ fs.data[fs.inodes[d].addr].ftype = "d"
        /\ EntriesOf(fs, d) = fs.data[fs.inodes[d].addr].dirList
  BY <1>2
<1> HIDE DEF a
<1> QED BY <1>1, <1>3, <1>4, <1>5, <1>6, <1>7 DEF HasRoom, pinum, a

\* A free inode, that no directory has an entry for.
LEMMA FreeInodeUnused ==
  ASSUME NEW n, NEW m, NEW fs \in FsType(n, m), Sound(fs), NEW inum \in FreeBits(fs.ibitmap)
  PROVE  inum \in Upto(n) /\ inum \notin Live(fs) /\ inum # None /\ Cardinality(Links(fs, inum)) = 0
<1>1. DOMAIN fs.ibitmap = Upto(n) /\ DOMAIN fs.inodes = Upto(n)
  BY TypeParts
<1>2. inum \in Upto(n) /\ fs.ibitmap[inum] = 0
  BY <1>1 DEF FreeBits
<1>3. inum \notin Live(fs)
  BY <1>1, <1>2 DEF Sound, Bits, Live
<1>4. Links(fs, inum) = {}
  <2>1. \A d \in Directories(fs) : \A e \in Entry(fs, d) : e[2] # inum
    BY <1>3 DEF Sound, EntriesLive
  <2> QED BY <2>1 DEF Links
<1> QED BY <1>2, <1>3, <1>4, NoNumber, FS_EmptySet

LEMMA FreeBlockUnused ==
  ASSUME NEW n, NEW m, NEW fs \in FsType(n, m), Sound(fs), NEW b \in FreeBits(fs.dbitmap)
  PROVE  b \in Upto(m) /\ b # None /\ fs.data[b].ftype = "free"
<1>1. DOMAIN fs.dbitmap = Upto(m) /\ DOMAIN fs.data = Upto(m)
  BY TypeParts
<1>2. b \in Upto(m) /\ fs.dbitmap[b] = 0
  BY <1>1 DEF FreeBits
<1>3. fs.data[b].ftype = "free"
  BY <1>1, <1>2 DEF Sound, Bits
<1> QED BY <1>2, <1>3, NoNumber

\* open() of a new file, with a free inode.
Created(fs, name, parent, inum) ==
  Entered(AddDirEntry(NewFile(fs, inum), parent, name, inum), inum, Append(parent, name), "f")

LEMMA CreateKeeps ==
  ASSUME NEW n, NEW m, NEW fs \in FsType(n, m), Sound(fs), n \in Nat, MaxUsed \in Nat,
         NEW parent \in fs.dirs, NEW name \in Names, MayAdd(fs, parent, name),
         NEW inum \in FreeBits(fs.ibitmap)
  PROVE  /\ Created(fs, name, parent, inum) \in FsType(n, m)
         /\ Sound(Created(fs, name, parent, inum))
         /\ CountsGrow(n, fs, Created(fs, name, parent, inum))
         /\ Grown(fs, Created(fs, name, parent, inum), Append(parent, name), inum, "f")
         /\ Content(Created(fs, name, parent, inum), inum) = ""
<1> DEFINE pinum == fs.nameToInum[parent]
           path == Append(parent, name)
           a == fs.inodes[pinum].addr
           fs1 == NewFile(fs, inum)
           fs2 == AddDirEntry(fs1, parent, name, inum)
           fs3 == Entered(fs2, inum, path, "f")
<1>1. inum \in Upto(n) /\ inum \notin Live(fs) /\ Cardinality(Links(fs, inum)) = 0
  BY FreeInodeUnused
<1>2. /\ pinum \in Directories(fs) /\ pinum \in Upto(n) /\ pinum \in Live(fs) /\ pinum # inum
      /\ a \in Upto(m) /\ path \in Seq(Names) /\ name \in AllNames
      /\ Len(EntriesOf(fs, pinum)) < MaxUsed
      /\ \A e \in Entry(fs, pinum) : e[1] # name
      /\ \A d \in Directories(fs) :
           /\ d \in Upto(n) /\ d \in Live(fs)
           /\ fs.inodes[d].addr \in Upto(m)
           /\ EntriesOf(fs, d) = fs.data[fs.inodes[d].addr].dirList
           /\ fs.inodes[d].addr = a <=> d = pinum
  <2>1. HasRoom(n, m, fs, parent, name)
    BY RoomFor
  <2> QED BY <2>1, <1>1 DEF HasRoom
<1> HIDE DEF pinum, path, a
<1>3. /\ fs1 \in FsType(n, m) /\ SameTables(fs, fs1) /\ SameBlocks(m, fs, fs1)
      /\ \A i \in Upto(n) :
           /\ fs1.ibitmap[i] = IF i = inum THEN 1 ELSE fs.ibitmap[i]
           /\ fs1.inodes[i] = IF i = inum THEN Inode("f", None, 1) ELSE fs.inodes[i]
  <2>1. HasNewFile(n, m, fs, fs1, inum)
    BY <1>1, NewFileFields
  <2> QED BY <2>1 DEF HasNewFile
<1> HIDE DEF fs1
<1>4. DirAddr(fs1, parent) = a
  BY <1>2, <1>3 DEF DirAddr, SameTables, a, pinum
<1>5. /\ fs2 \in FsType(n, m) /\ SameTables(fs1, fs2) /\ SameInodes(n, fs1, fs2)
      /\ fs2.dbitmap = fs1.dbitmap
      /\ \A b \in Upto(m) :
           /\ fs2.data[b].ftype = fs1.data[b].ftype /\ fs2.data[b].data = fs1.data[b].data
           /\ fs2.data[b].dirList = IF b = a THEN Append(fs1.data[b].dirList, <<name, inum>>)
                                    ELSE fs1.data[b].dirList
  <2>1. DirAddr(fs1, parent) \in Upto(m)
    BY <1>2, <1>4
  <2>2. HasEntry(n, m, fs1, fs2, parent, name, inum)
    BY <1>1, <1>2, <1>3, <2>1, AddedEntry
  <2> QED BY <1>4, <2>2 DEF HasEntry
<1> HIDE DEF fs2
<1>6. /\ fs3 \in FsType(n, m) /\ fs3.inodes = fs2.inodes /\ fs3.ibitmap = fs2.ibitmap
      /\ fs3.data = fs2.data /\ fs3.dbitmap = fs2.dbitmap
      /\ fs3.files = Append(fs2.files, path) /\ fs3.dirs = fs2.dirs
      /\ fs3.nameToInum = Known(fs2.nameToInum, path, inum)
  <2>1. fs2 \in FsType(n, m) /\ inum \in Upto(n) /\ path \in Seq(Names)
    BY <1>1, <1>2, <1>5
  <2>2. HasEntered(n, m, fs2, fs3, inum, path, "f")
    BY <2>1, EnterFields
  <2> QED BY <2>2 DEF HasEntered
<1> HIDE DEF fs3
<1>7. /\ \A i \in Upto(n) :
           /\ fs3.ibitmap[i] = IF i = inum THEN 1 ELSE fs.ibitmap[i]
           /\ fs3.inodes[i] = IF i = inum THEN Inode("f", None, 1) ELSE fs.inodes[i]
      /\ \A b \in Upto(m) :
           /\ fs3.dbitmap[b] = fs.dbitmap[b] /\ fs3.data[b].ftype = fs.data[b].ftype
           /\ fs3.data[b].dirList = IF b = a THEN Append(fs.data[b].dirList, <<name, inum>>)
                                    ELSE fs.data[b].dirList
      /\ fs3.files = Append(fs.files, path) /\ fs3.dirs = fs.dirs
      /\ fs3.nameToInum = Known(fs.nameToInum, path, inum)
  BY <1>3, <1>5, <1>6 DEF SameTables, SameInodes, SameBlocks
<1>8. /\ fs3.inodes[inum].ftype = "f" /\ fs3.inodes[inum].addr = None
      /\ fs3.inodes[inum].refCnt = 1
  BY <1>1, <1>7 DEF Inode
<1>9. Live(fs3) = Live(fs) \cup {inum} /\ Directories(fs3) = Directories(fs)
  <2>1. \A i \in Upto(n) : i \in Live(fs3) <=> i \in Live(fs) \/ i = inum
    BY <1>6, <1>7, <1>8, LiveParts
  <2>2. \A i \in Upto(n) : i \in Directories(fs3) <=> i \in Directories(fs)
    BY <1>1, <1>6, <1>7, <1>8, LiveParts
  <2>3. /\ Live(fs3) \subseteq Upto(n) /\ Live(fs) \subseteq Upto(n)
        /\ Directories(fs3) \subseteq Upto(n) /\ Directories(fs) \subseteq Upto(n)
    BY <1>6, LiveParts
  <2> QED BY <1>1, <2>1, <2>2, <2>3
<1>10. OneMore(fs, fs3, pinum, name, inum)
  <2> SUFFICES ASSUME NEW d \in Directories(fs)
      PROVE EntriesOf(fs3, d) = IF d = pinum THEN Append(EntriesOf(fs, d), <<name, inum>>)
                                ELSE EntriesOf(fs, d)
    BY DEF OneMore
  <2>1. /\ fs.inodes[d].addr \in Upto(m) /\ EntriesOf(fs, d) = fs.data[fs.inodes[d].addr].dirList
        /\ fs.inodes[d].addr = a <=> d = pinum
    BY <1>2
  <2>2. fs3.inodes[d].addr = fs.inodes[d].addr
    BY <1>1, <1>2, <1>7
  <2> QED BY <2>1, <2>2, <1>7 DEF EntriesOf
<1>11. /\ \A i \in Live(fs) \ {inum} : fs3.inodes[i].refCnt = fs.inodes[i].refCnt
       /\ fs3.inodes[inum].refCnt = Cardinality(Links(fs, inum)) + 1
       /\ inum \notin Directories(fs)
  BY <1>1, <1>7, <1>8, LiveParts
<1>12. /\ Lists(fs3) /\ EntriesLive(fs3) /\ Rooted(fs3) /\ Counted(fs3)
       /\ Named(fs3) /\ PathsLead(fs3)
  BY <1>1, <1>2, <1>6, <1>7, <1>9, <1>10, <1>11, FileAdded DEF pinum, path
<1>13. CountsGrow(n, fs, fs3)
  BY <1>7, <1>8 DEF CountsGrow
<1>14. /\ DOMAIN fs3.inodes = Upto(n) /\ DOMAIN fs3.data = Upto(m)
       /\ DOMAIN fs.inodes = Upto(n) /\ DOMAIN fs.data = Upto(m)
  BY <1>6, TypeParts
<1>15. Bits(fs3)
  BY <1>7, <1>8, <1>14 DEF Sound, Bits
<1>16. Owned(fs3)
  <2>1. \A i \in Live(fs) : i \in Upto(n) /\ i # inum /\ fs3.inodes[i] = fs.inodes[i]
    BY <1>1, <1>7, LiveParts
  <2>2. \A i \in Live(fs) : fs.inodes[i].addr = None \/ fs.inodes[i].addr \in Upto(m)
    BY <2>1, Fields
  <2>3. ASSUME NEW i \in Live(fs)
        PROVE IF fs3.inodes[i].addr = None THEN fs3.inodes[i].ftype = "f"
              ELSE fs3.data[fs3.inodes[i].addr].ftype = fs3.inodes[i].ftype
    BY <2>1, <2>2, <1>7 DEF Sound, Owned
  <2>4. ASSUME NEW i \in Live(fs), NEW j \in Live(fs),
               fs3.inodes[i].addr = fs3.inodes[j].addr, fs3.inodes[i].addr # None
        PROVE i = j
    BY <2>1, <2>4 DEF Sound, Owned
  <2>5. ASSUME NEW c \in Upto(m), fs3.data[c].ftype # "free"
        PROVE \E i \in Live(fs) : fs3.inodes[i].addr = c
    BY <2>1, <2>5, <1>7, <1>14 DEF Sound, Owned
  <2> QED BY <2>3, <2>4, <2>5, <1>8, <1>9, <1>14 DEF Owned
<1>17. Grown(fs, fs3, path, inum, "f")
  <2>1. \A i \in Live(fs) : i \in Upto(n) /\ i # inum
    BY <1>1, LiveParts
  <2>2. \A i \in Live(fs) : KeepsContent(m, fs, fs3, i)
    BY <2>1, <1>3, <1>5, <1>6, <1>7 DEF KeepsContent, SameBlocks
  <2>3. SameContent(fs, fs3, Live(fs))
    BY <2>1, <2>2, ContentKept
  <2> QED BY <2>3, <1>7 DEF Grown
<1>18. Content(fs3, inum) = ""
  BY <1>8 DEF Content
<1> QED BY <1>6, <1>12, <1>13, <1>15, <1>16, <1>17, <1>18 DEF Sound, fs3, fs2, fs1, path, Created

\* mkdir(), with a free inode and a free block.
Made(fs, name, parent, inum, b) ==
  Entered(AddDirEntry(NewDir(fs, inum, fs.nameToInum[parent], b), parent, name, inum),
          inum, Append(parent, name), "d")

LEMMA MakeKeeps ==
  ASSUME NEW n, NEW m, NEW fs \in FsType(n, m), Sound(fs), n \in Nat,
         MaxUsed \in Nat, MaxUsed >= 2,
         NEW parent \in fs.dirs, NEW name \in Names, MayAdd(fs, parent, name),
         NEW inum \in FreeBits(fs.ibitmap), NEW b \in FreeBits(fs.dbitmap)
  PROVE  /\ Made(fs, name, parent, inum, b) \in FsType(n, m)
         /\ Sound(Made(fs, name, parent, inum, b))
         /\ CountsGrow(n, fs, Made(fs, name, parent, inum, b))
         /\ Grown(fs, Made(fs, name, parent, inum, b), Append(parent, name), inum, "d")
<1> DEFINE pinum == fs.nameToInum[parent]
           path == Append(parent, name)
           a == fs.inodes[pinum].addr
           fs1 == NewDir(fs, inum, pinum, b)
           fs2 == AddDirEntry(fs1, parent, name, inum)
           fs3 == Entered(fs2, inum, path, "d")
<1>1. inum \in Upto(n) /\ inum \notin Live(fs) /\ Cardinality(Links(fs, inum)) = 0
  BY FreeInodeUnused
<1>2. b \in Upto(m) /\ b # None /\ fs.data[b].ftype = "free"
  BY FreeBlockUnused
<1>3. /\ pinum \in Directories(fs) /\ pinum \in Upto(n) /\ pinum \in Live(fs) /\ pinum # inum
      /\ a \in Upto(m) /\ a # b /\ path \in Seq(Names) /\ name \in AllNames
      /\ Len(EntriesOf(fs, pinum)) < MaxUsed
      /\ \A e \in Entry(fs, pinum) : e[1] # name
      /\ \A d \in Directories(fs) :
           /\ d \in Upto(n) /\ d \in Live(fs) /\ d # inum
           /\ fs.inodes[d].addr \in Upto(m) /\ fs.inodes[d].addr # b
           /\ EntriesOf(fs, d) = fs.data[fs.inodes[d].addr].dirList
           /\ fs.inodes[d].addr = a <=> d = pinum
  <2>1. HasRoom(n, m, fs, parent, name)
    BY RoomFor
  <2> QED BY <2>1, <1>1, <1>2 DEF HasRoom
<1> HIDE DEF pinum, path, a
<1>4. /\ fs1 \in FsType(n, m) /\ SameTables(fs, fs1)
      /\ \A i \in Upto(n) :
           /\ fs1.ibitmap[i] = IF i = inum THEN 1 ELSE fs.ibitmap[i]
           /\ fs1.inodes[i].ftype = IF i = inum THEN "d" ELSE fs.inodes[i].ftype
           /\ fs1.inodes[i].addr = IF i = inum THEN b ELSE fs.inodes[i].addr
           /\ fs1.inodes[i].refCnt =
                IF i = inum THEN 2
                ELSE IF i = pinum THEN fs.inodes[i].refCnt + 1 ELSE fs.inodes[i].refCnt
      /\ \A c \in Upto(m) :
           /\ fs1.dbitmap[c] = IF c = b THEN 1 ELSE fs.dbitmap[c]
           /\ fs1.data[c] = IF c = b THEN DirBlock(inum, pinum) ELSE fs.data[c]
  <2>1. HasNewDir(n, m, fs, fs1, inum, pinum, b)
    BY <1>1, <1>2, <1>3, NewDirFields
  <2> QED BY <2>1 DEF HasNewDir
<1> HIDE DEF fs1
<1>5. DirAddr(fs1, parent) = a
  BY <1>3, <1>4 DEF DirAddr, SameTables, a, pinum
<1>6. /\ fs2 \in FsType(n, m) /\ SameTables(fs1, fs2) /\ SameInodes(n, fs1, fs2)
      /\ fs2.dbitmap = fs1.dbitmap
      /\ \A c \in Upto(m) :
           /\ fs2.data[c].ftype = fs1.data[c].ftype /\ fs2.data[c].data = fs1.data[c].data
           /\ fs2.data[c].dirList = IF c = a THEN Append(fs1.data[c].dirList, <<name, inum>>)
                                    ELSE fs1.data[c].dirList
  <2>1. DirAddr(fs1, parent) \in Upto(m)
    BY <1>3, <1>5
  <2>2. HasEntry(n, m, fs1, fs2, parent, name, inum)
    BY <1>1, <1>3, <1>4, <2>1, AddedEntry
  <2> QED BY <1>5, <2>2 DEF HasEntry
<1> HIDE DEF fs2
<1>7. /\ fs3 \in FsType(n, m) /\ fs3.inodes = fs2.inodes /\ fs3.ibitmap = fs2.ibitmap
      /\ fs3.data = fs2.data /\ fs3.dbitmap = fs2.dbitmap
      /\ fs3.files = fs2.files /\ fs3.dirs = fs2.dirs \cup {path}
      /\ fs3.nameToInum = Known(fs2.nameToInum, path, inum)
  <2>1. fs2 \in FsType(n, m) /\ inum \in Upto(n) /\ path \in Seq(Names)
    BY <1>1, <1>3, <1>6
  <2>2. HasEntered(n, m, fs2, fs3, inum, path, "d")
    BY <2>1, EnterFields
  <2> QED BY <2>2 DEF HasEntered
<1> HIDE DEF fs3
<1>8. /\ \A i \in Upto(n) :
           /\ fs3.ibitmap[i] = IF i = inum THEN 1 ELSE fs.ibitmap[i]
           /\ fs3.inodes[i].ftype = IF i = inum THEN "d" ELSE fs.inodes[i].ftype
           /\ fs3.inodes[i].addr = IF i = inum THEN b ELSE fs.inodes[i].addr
           /\ fs3.inodes[i].refCnt =
                IF i = inum THEN 2
                ELSE IF i = pinum THEN fs.inodes[i].refCnt + 1 ELSE fs.inodes[i].refCnt
      /\ fs3.files = fs.files /\ fs3.dirs = fs.dirs \cup {path}
      /\ fs3.nameToInum = Known(fs.nameToInum, path, inum)
  BY <1>4, <1>6, <1>7 DEF SameTables, SameInodes
<1>9. \A c \in Upto(m) :
        /\ fs3.dbitmap[c] = IF c = b THEN 1 ELSE fs.dbitmap[c]
        /\ fs3.data[c].ftype = IF c = b THEN "d" ELSE fs.data[c].ftype
        /\ fs3.data[c].dirList =
             IF c = b THEN NewList(inum, pinum)
             ELSE IF c = a THEN Append(fs.data[c].dirList, <<name, inum>>)
             ELSE fs.data[c].dirList
  <2>1. DirBlock(inum, pinum).ftype = "d" /\ DirBlock(inum, pinum).dirList = NewList(inum, pinum)
    BY DEF DirBlock, NewList
  <2>2. \A c \in Upto(m) :
          /\ fs1.data[c].ftype = IF c = b THEN "d" ELSE fs.data[c].ftype
          /\ fs1.data[c].dirList = IF c = b THEN NewList(inum, pinum) ELSE fs.data[c].dirList
    BY <2>1, <1>4
  <2> QED BY <2>2, <1>3, <1>4, <1>6, <1>7
<1>10. Live(fs3) = Live(fs) \cup {inum} /\ Directories(fs3) = Directories(fs) \cup {inum}
  <2>1. \A i \in Upto(n) : i \in Live(fs3) <=> i \in Live(fs) \/ i = inum
    BY <1>7, <1>8, LiveParts
  <2>2. \A i \in Upto(n) : i \in Directories(fs3) <=> i \in Directories(fs) \/ i = inum
    BY <1>1, <1>7, <1>8, LiveParts
  <2>3. /\ Live(fs3) \subseteq Upto(n) /\ Live(fs) \subseteq Upto(n)
        /\ Directories(fs3) \subseteq Upto(n) /\ Directories(fs) \subseteq Upto(n)
    BY <1>7, LiveParts
  <2> QED BY <1>1, <2>1, <2>2, <2>3
<1>11. OneMore(fs, fs3, pinum, name, inum)
  <2> SUFFICES ASSUME NEW d \in Directories(fs)
      PROVE EntriesOf(fs3, d) = IF d = pinum THEN Append(EntriesOf(fs, d), <<name, inum>>)
                                ELSE EntriesOf(fs, d)
    BY DEF OneMore
  <2>1. /\ fs.inodes[d].addr \in Upto(m) /\ fs.inodes[d].addr # b
        /\ EntriesOf(fs, d) = fs.data[fs.inodes[d].addr].dirList
        /\ fs.inodes[d].addr = a <=> d = pinum
    BY <1>3
  <2>2. fs3.inodes[d].addr = fs.inodes[d].addr
    BY <1>3, <1>8
  <2> QED BY <2>1, <2>2, <1>9 DEF EntriesOf
<1>12. EntriesOf(fs3, inum) = NewList(inum, pinum)
  BY <1>1, <1>2, <1>8, <1>9 DEF EntriesOf
<1>13. /\ \A i \in Live(fs) :
            fs3.inodes[i].refCnt = IF i = pinum THEN fs.inodes[i].refCnt + 1
                                   ELSE fs.inodes[i].refCnt
       /\ fs3.inodes[inum].refCnt = 2
  BY <1>1, <1>8, LiveParts
<1>14. /\ Lists(fs3) /\ EntriesLive(fs3) /\ Rooted(fs3) /\ Counted(fs3)
       /\ Named(fs3) /\ PathsLead(fs3)
  <2>1. /\ fs \in FsType(n, m) /\ fs3 \in FsType(n, m) /\ Sound(fs)
        /\ n \in Nat /\ MaxUsed \in Nat /\ MaxUsed >= 2
        /\ parent \in fs.dirs /\ name \in Names /\ inum \in Upto(n)
    BY <1>1, <1>7
  <2>2. /\ Len(EntriesOf(fs, fs.nameToInum[parent])) < MaxUsed
        /\ \A e \in Entry(fs, fs.nameToInum[parent]) : e[1] # name
    BY <1>3 DEF pinum
  <2>3. /\ inum \notin Live(fs)
        /\ Live(fs3) = Live(fs) \cup {inum} /\ Directories(fs3) = Directories(fs) \cup {inum}
    BY <1>1, <1>10
  <2>4. /\ OneMore(fs, fs3, fs.nameToInum[parent], name, inum)
        /\ EntriesOf(fs3, inum) = NewList(inum, fs.nameToInum[parent])
    BY <1>11, <1>12 DEF pinum
  <2>5. /\ \A i \in Live(fs) :
             fs3.inodes[i].refCnt = IF i = fs.nameToInum[parent]
                                    THEN fs.inodes[i].refCnt + 1 ELSE fs.inodes[i].refCnt
        /\ fs3.inodes[inum].refCnt = 2
    BY <1>13 DEF pinum
  <2>6. /\ fs3.files = fs.files /\ fs3.dirs = fs.dirs \cup {Append(parent, name)}
        /\ fs3.nameToInum = Known(fs.nameToInum, Append(parent, name), inum)
    BY <1>8 DEF path
  <2> QED BY ONLY <2>1, <2>2, <2>3, <2>4, <2>5, <2>6, DirAdded
<1>15. CountsGrow(n, fs, fs3)
  <2>1. fs.inodes[pinum].refCnt \in Nat
    BY <1>3, LiveCounts
  <2> QED BY <2>1, <1>8 DEF CountsGrow
<1>16. /\ DOMAIN fs3.inodes = Upto(n) /\ DOMAIN fs3.data = Upto(m)
       /\ DOMAIN fs.inodes = Upto(n) /\ DOMAIN fs.data = Upto(m)
  BY <1>7, TypeParts
<1>17. Bits(fs3)
  BY <1>8, <1>9, <1>16 DEF Sound, Bits
<1>18. Owned(fs3)
  <2>1. \A i \in Live(fs) : /\ i \in Upto(n) /\ i # inum
                            /\ fs3.inodes[i].addr = fs.inodes[i].addr
                            /\ fs3.inodes[i].ftype = fs.inodes[i].ftype
    BY <1>1, <1>8, LiveParts
  <2>2. \A i \in Live(fs) : fs.inodes[i].addr = None \/ fs.inodes[i].addr \in Upto(m)
    BY <2>1, Fields
  <2>3. \A i \in Live(fs) : fs.inodes[i].addr # b
    <3>1. \A i \in Live(fs) : fs.inodes[i].ftype # "free"
      BY <2>1, LiveParts
    <3> QED BY <3>1, <1>2 DEF Sound, Owned
  <2>4. ASSUME NEW i \in Live(fs)
        PROVE IF fs3.inodes[i].addr = None THEN fs3.inodes[i].ftype = "f"
              ELSE fs3.data[fs3.inodes[i].addr].ftype = fs3.inodes[i].ftype
    <3>1. IF fs.inodes[i].addr = None THEN fs.inodes[i].ftype = "f"
          ELSE fs.data[fs.inodes[i].addr].ftype = fs.inodes[i].ftype
      BY DEF Sound, Owned
    <3> QED BY <3>1, <2>1, <2>2, <2>3, <1>9
  <2>5. /\ fs3.inodes[inum].addr = b /\ fs3.inodes[inum].ftype = "d"
        /\ fs3.data[b].ftype = "d"
    BY <1>1, <1>2, <1>8, <1>9
  <2>6. ASSUME NEW i \in Live(fs), NEW j \in Live(fs),
               fs3.inodes[i].addr = fs3.inodes[j].addr, fs3.inodes[i].addr # None
        PROVE i = j
    BY <2>1, <2>6 DEF Sound, Owned
  <2>7. ASSUME NEW c \in Upto(m), fs3.data[c].ftype # "free"
        PROVE \E i \in Live(fs) \cup {inum} : fs3.inodes[i].addr = c
    <3>1. CASE c = b
      BY <3>1, <2>5
    <3>2. CASE c # b
      <4>1. fs.data[c].ftype # "free"
        BY <3>2, <2>7, <1>9
      <4>2. PICK i \in Live(fs) : fs.inodes[i].addr = c
        BY <4>1, <1>16 DEF Sound, Owned
      <4> QED BY <4>2, <2>1
    <3> QED BY <3>1, <3>2
  <2>8. \A i \in Live(fs) : fs3.inodes[i].addr # fs3.inodes[inum].addr
    BY <2>1, <2>3, <2>5
  <2>9. Live(fs3) = Live(fs) \cup {inum} /\ DOMAIN fs3.data = Upto(m) /\ b # None
    BY <1>2, <1>10, <1>16
  <2>10. \A i \in Live(fs3) :
           IF fs3.inodes[i].addr = None THEN fs3.inodes[i].ftype = "f"
           ELSE fs3.data[fs3.inodes[i].addr].ftype = fs3.inodes[i].ftype
    BY ONLY <2>4, <2>5, <2>9
  <2>11. \A i, j \in Live(fs3) :
           fs3.inodes[i].addr = fs3.inodes[j].addr /\ fs3.inodes[i].addr # None => i = j
    BY ONLY <2>6, <2>8, <2>9
  <2>12. \A c \in DOMAIN fs3.data :
           fs3.data[c].ftype # "free" => \E i \in Live(fs3) : fs3.inodes[i].addr = c
    BY ONLY <2>7, <2>9
  <2> QED BY ONLY <2>10, <2>11, <2>12 DEF Owned
<1>19. Grown(fs, fs3, path, inum, "d")
  <2>1. \A i \in Live(fs) : /\ i \in Upto(n) /\ i # inum /\ fs.inodes[i].ftype # "free"
                            /\ fs3.inodes[i].addr = fs.inodes[i].addr
    BY <1>1, <1>8, LiveParts
  <2>2. \A i \in Live(fs) : fs.inodes[i].addr # b
    BY <2>1, <1>2 DEF Sound, Owned
  <2>3. \A c \in Upto(m) : c # b => fs3.data[c].data = fs.data[c].data
    BY <1>4, <1>6, <1>7
  <2>4. \A i \in Live(fs) : KeepsContent(m, fs, fs3, i)
    BY <2>1, <2>2, <2>3 DEF KeepsContent
  <2>5. SameContent(fs, fs3, Live(fs))
    BY <2>1, <2>4, ContentKept
  <2> QED BY <2>5, <1>8 DEF Grown
<1> QED BY <1>7, <1>14, <1>15, <1>17, <1>18, <1>19 DEF Sound, fs3, fs2, fs1, pinum, path, Made

\* mkdir() without a free block gives the inode back.
Returned(fs, inum) == InodeFree([fs EXCEPT !.ibitmap[inum] = 1], inum)

LEMMA ReturnKeeps ==
  ASSUME NEW n, NEW m, NEW fs \in FsType(n, m), Sound(fs), NEW inum \in FreeBits(fs.ibitmap)
  PROVE  /\ Returned(fs, inum) \in FsType(n, m)
         /\ Sound(Returned(fs, inum))
         /\ \A i \in Upto(n) : Returned(fs, inum).inodes[i].refCnt = fs.inodes[i].refCnt
         /\ SameTables(fs, Returned(fs, inum)) /\ SameContent(fs, Returned(fs, inum), Live(fs))
<1> DEFINE fs1 == [fs EXCEPT !.ibitmap[inum] = 1]
           fs2 == InodeFree(fs1, inum)
<1>1. inum \in Upto(n) /\ inum \notin Live(fs)
  BY FreeInodeUnused
<1>2. /\ fs1.ibitmap = [fs.ibitmap EXCEPT ![inum] = 1] /\ fs1.dbitmap = fs.dbitmap
      /\ fs1.inodes = fs.inodes /\ fs1.data = fs.data
      /\ fs1.files = fs.files /\ fs1.dirs = fs.dirs /\ fs1.nameToInum = fs.nameToInum
  BY DEF FsType
<1>3. fs1 \in FsType(n, m)
  <2>1. [fs.ibitmap EXCEPT ![inum] = 1] \in [Upto(n) -> {0, 1}]
    BY TypeParts
  <2> QED BY <2>1 DEF FsType
<1>4. \A i \in Upto(n) : fs1.ibitmap[i] = IF i = inum THEN 1 ELSE fs.ibitmap[i]
  BY <1>2, TypeParts
<1> HIDE DEF fs1
<1>5. /\ fs2 \in FsType(n, m) /\ SameTables(fs1, fs2) /\ SameBlocks(m, fs1, fs2)
      /\ \A i \in Upto(n) :
           /\ fs2.ibitmap[i] = IF i = inum THEN 0 ELSE fs1.ibitmap[i]
           /\ fs2.inodes[i].ftype = IF i = inum THEN "free" ELSE fs1.inodes[i].ftype
           /\ fs2.inodes[i].refCnt = fs1.inodes[i].refCnt
           /\ i # inum => fs2.inodes[i].addr = fs1.inodes[i].addr
  <2>1. LosesInode(n, m, fs1, fs2, inum)
    BY <1>1, <1>3, InodeFreeFields
  <2> QED BY <2>1 DEF LosesInode
<1> HIDE DEF fs2
<1>6. fs.ibitmap[inum] = 0 /\ fs.inodes[inum].ftype = "free"
  <2>1. DOMAIN fs.ibitmap = Upto(n)
    BY TypeParts
  <2> QED BY <2>1, <1>1, LiveParts DEF FreeBits
<1>7. SameUse(n, m, fs, fs2)
  BY <1>2, <1>4, <1>5, <1>6 DEF SameUse, SameBlocks
<1>8. Bits(fs2) /\ Owned(fs2) /\ Live(fs2) = Live(fs) /\ Directories(fs2) = Directories(fs)
  BY <1>5, <1>7, UseKept
<1>9. \A d \in Directories(fs) : EntriesOf(fs2, d) = EntriesOf(fs, d)
  <2> SUFFICES ASSUME NEW d \in Directories(fs) PROVE EntriesOf(fs2, d) = EntriesOf(fs, d)
    OBVIOUS
  <2>1. /\ d \in Upto(n) /\ d \in Live(fs) /\ fs.inodes[d].addr \in Upto(m)
        /\ EntriesOf(fs, d) = fs.data[fs.inodes[d].addr].dirList
    <3>1. Owned(fs)
      BY DEF Sound
    <3>2. InBlock(n, m, fs, d)
      BY <3>1, DirectoryBlock
    <3> QED BY <3>2 DEF InBlock
  <2>2. fs2.inodes[d].addr = fs.inodes[d].addr
    BY <2>1, <1>1, <1>2, <1>5
  <2> QED BY <2>1, <2>2, <1>2, <1>5 DEF EntriesOf, SameBlocks
<1>10. \A i \in Upto(n) : fs2.inodes[i].refCnt = fs.inodes[i].refCnt
  BY <1>2, <1>5
<1>11. /\ Lists(fs2) /\ EntriesLive(fs2) /\ Rooted(fs2) /\ Counted(fs2)
       /\ Named(fs2) /\ PathsLead(fs2)
  <2>1. \A i \in Live(fs) : fs2.inodes[i].refCnt = fs.inodes[i].refCnt
    BY <1>10, LiveParts
  <2>2. fs2.files = fs.files /\ fs2.dirs = fs.dirs /\ fs2.nameToInum = fs.nameToInum
    BY <1>2, <1>5 DEF SameTables
  <2> QED BY <2>1, <2>2, <1>8, <1>9, NamesUnchanged
<1>12. SameTables(fs, fs2) /\ SameContent(fs, fs2, Live(fs))
  <2>1. \A i \in Live(fs) : i \in Upto(n) /\ i # inum
    BY <1>1, LiveParts
  <2>2. \A i \in Live(fs) : KeepsContent(m, fs, fs2, i)
    BY <2>1, <1>2, <1>5 DEF KeepsContent, SameBlocks
  <2>3. SameContent(fs, fs2, Live(fs))
    BY <2>1, <2>2, ContentKept
  <2> QED BY <2>3, <1>2, <1>5 DEF SameTables
<1> QED BY <1>5, <1>8, <1>10, <1>11, <1>12 DEF Sound, fs2, fs1, Returned

\* A path that is taken from the files of the workload.
NoFile(fs, path) == [fs EXCEPT !.files = RemoveFirst(@, path)]

IsNoFile(n, m, fs, fs2, path) ==
  /\ fs2 \in FsType(n, m)
  /\ fs2.inodes = fs.inodes /\ fs2.ibitmap = fs.ibitmap
  /\ fs2.data = fs.data /\ fs2.dbitmap = fs.dbitmap
  /\ fs2.files = RemoveFirst(fs.files, path)
  /\ fs2.dirs = fs.dirs /\ fs2.nameToInum = fs.nameToInum

LEMMA NoFileFields ==
  ASSUME NEW n, NEW m, NEW fs \in FsType(n, m), NEW path,
         RemoveFirst(fs.files, path) \in Seq(Seq(Names))
  PROVE  IsNoFile(n, m, fs, NoFile(fs, path), path)
<1> DEFINE files == RemoveFirst(fs.files, path)
           fs2 == NoFile(fs, path)
<1>1. fs2 = [fs EXCEPT !.files = files]
  BY DEF NoFile
<1> HIDE DEF files, fs2
<1>2. fs2 \in FsType(n, m)
  <2>1. files \in Seq(Seq(Names))
    BY DEF files
  <2> QED BY <1>1, <2>1 DEF FsType
<1>3. /\ fs2.inodes = fs.inodes /\ fs2.ibitmap = fs.ibitmap
      /\ fs2.data = fs.data /\ fs2.dbitmap = fs.dbitmap
      /\ fs2.files = files /\ fs2.dirs = fs.dirs /\ fs2.nameToInum = fs.nameToInum
  BY <1>1 DEF FsType
<1> QED BY <1>2, <1>3 DEF IsNoFile, fs2, files

\* A file with one link less: with the last one, inode and block are freed.
Unlinked(fs, inum) ==
  IF fs.inodes[inum].refCnt = 1
  THEN InodeFree(IF fs.inodes[inum].addr = None THEN fs ELSE DataFree(fs, fs.inodes[inum].addr),
                 inum)
  ELSE Recounted(fs, inum, -1)

HasUnlinked(n, m, fs, fs2, inum) ==
  LET last == fs.inodes[inum].refCnt = 1
      b == fs.inodes[inum].addr
  IN /\ fs2 \in FsType(n, m)
     /\ SameTables(fs, fs2)
     /\ \A i \in Upto(n) :
          /\ fs2.ibitmap[i] = IF last /\ i = inum THEN 0 ELSE fs.ibitmap[i]
          /\ fs2.inodes[i].ftype = IF last /\ i = inum THEN "free" ELSE fs.inodes[i].ftype
          /\ ~(last /\ i = inum) => fs2.inodes[i].addr = fs.inodes[i].addr
          /\ fs2.inodes[i].refCnt = IF ~last /\ i = inum THEN fs.inodes[i].refCnt - 1
                                    ELSE fs.inodes[i].refCnt
     /\ \A c \in Upto(m) :
          /\ fs2.dbitmap[c] = IF last /\ c = b THEN 0 ELSE fs.dbitmap[c]
          /\ fs2.data[c].ftype = IF last /\ c = b THEN "free" ELSE fs.data[c].ftype
          /\ c # b => fs2.data[c].dirList = fs.data[c].dirList
          /\ ~(last /\ c = b) => fs2.data[c].data = fs.data[c].data

LEMMA UnlinkedFields ==
  ASSUME NEW n, NEW m, NEW fs \in FsType(n, m), NEW inum \in Upto(n)
  PROVE  HasUnlinked(n, m, fs, Unlinked(fs, inum), inum)
<1> DEFINE b == fs.inodes[inum].addr
           fs1 == IF b = None THEN fs ELSE DataFree(fs, b)
           fs2 == InodeFree(fs1, inum)
           fs3 == Recounted(fs, inum, -1)
<1>1. b = None \/ b \in Upto(m)
  BY Fields
<1>2. fs.inodes[inum].refCnt \in Int
  BY Fields
<1>3. CASE fs.inodes[inum].refCnt = 1
  <2>1. Unlinked(fs, inum) = fs2
    BY <1>3 DEF Unlinked
  <2> HIDE DEF b
  <2>2. /\ fs1 \in FsType(n, m) /\ SameTables(fs, fs1) /\ SameInodes(n, fs, fs1)
        /\ \A c \in Upto(m) :
             /\ fs1.dbitmap[c] = IF c = b THEN 0 ELSE fs.dbitmap[c]
             /\ fs1.data[c].ftype = IF c = b THEN "free" ELSE fs.data[c].ftype
             /\ c # b => /\ fs1.data[c].dirList = fs.data[c].dirList
                         /\ fs1.data[c].data = fs.data[c].data
    <3>1. CASE b = None
      <4>1. fs1 = fs
        BY <3>1
      <4>2. \A c \in Upto(m) : c # b
        BY <3>1, NoNumber
      <4> HIDE DEF fs1
      <4> QED BY <4>1, <4>2 DEF SameTables, SameInodes
    <3>2. CASE b # None
      <4>1. b \in Upto(m) /\ fs1 = DataFree(fs, b)
        BY <3>2, <1>1
      <4> HIDE DEF fs1
      <4>2. LosesBlock(n, m, fs, DataFree(fs, b), b)
        BY <4>1, DataFreeFields
      <4>3. LosesBlock(n, m, fs, fs1, b)
        BY <4>1, <4>2
      <4>4. FreeBlock.ftype = "free"
        BY DEF FreeBlock
      <4> QED BY <4>3, <4>4 DEF LosesBlock
    <3> QED BY <3>1, <3>2
  <2> HIDE DEF fs1
  <2>3. LosesInode(n, m, fs1, fs2, inum)
    BY <2>2, InodeFreeFields
  <2> HIDE DEF fs2
  <2>4. /\ fs2 \in FsType(n, m) /\ SameTables(fs, fs2)
        /\ \A i \in Upto(n) :
             /\ fs2.ibitmap[i] = IF i = inum THEN 0 ELSE fs.ibitmap[i]
             /\ fs2.inodes[i].ftype = IF i = inum THEN "free" ELSE fs.inodes[i].ftype
             /\ i # inum => fs2.inodes[i].addr = fs.inodes[i].addr
             /\ fs2.inodes[i].refCnt = fs.inodes[i].refCnt
    BY <2>2, <2>3 DEF LosesInode, SameTables, SameInodes
  <2>5. \A c \in Upto(m) :
          /\ fs2.dbitmap[c] = IF c = b THEN 0 ELSE fs.dbitmap[c]
          /\ fs2.data[c].ftype = IF c = b THEN "free" ELSE fs.data[c].ftype
          /\ c # b => /\ fs2.data[c].dirList = fs.data[c].dirList
                      /\ fs2.data[c].data = fs.data[c].data
    BY <2>2, <2>3 DEF LosesInode, SameBlocks
  <2>6. HasUnlinked(n, m, fs, fs2, inum)
    BY <2>4, <2>5, <1>3 DEF HasUnlinked, b
  <2> QED BY <2>1, <2>6
<1>4. CASE fs.inodes[inum].refCnt # 1
  <2>1. Unlinked(fs, inum) = fs3
    BY <1>4 DEF Unlinked
  <2>2. IsRecounted(n, m, fs, fs3, inum, -1)
    BY CountChanged
  <2> HIDE DEF fs3
  <2>3. /\ fs3 \in FsType(n, m) /\ SameTables(fs, fs3) /\ SameBlocks(m, fs, fs3)
        /\ fs3.ibitmap = fs.ibitmap
        /\ \A i \in Upto(n) :
             /\ fs3.inodes[i].ftype = fs.inodes[i].ftype
             /\ fs3.inodes[i].addr = fs.inodes[i].addr
             /\ fs3.inodes[i].refCnt =
                  IF i = inum THEN fs.inodes[i].refCnt + (-1) ELSE fs.inodes[i].refCnt
    BY <2>2 DEF IsRecounted
  <2>4. fs.inodes[inum].refCnt + (-1) = fs.inodes[inum].refCnt - 1
    BY <1>2
  <2>5. HasUnlinked(n, m, fs, fs3, inum)
    BY <2>3, <2>4, <1>4 DEF HasUnlinked, SameBlocks
  <2> QED BY <2>1, <2>5
<1> QED BY <1>3, <1>4

\* DeleteFile() of a path of a file, which is not a directory.
LEMMA DeletesFile ==
  ASSUME NEW n, NEW m, NEW fs \in FsType(n, m), Sound(fs), NEW path \in ToSet(fs.files)
  PROVE  DeleteFile(fs, path) =
           NoFile(DelDirEntry(Unlinked(fs, fs.nameToInum[path]), Front(path), Last(path)), path)
<1> DEFINE inum == fs.nameToInum[path]
<1>1. inum \in Live(fs) \ Directories(fs)
  BY FileOfPath
<1>2. inum \in Upto(n) /\ fs.inodes[inum].ftype # "d"
  BY <1>1, LiveParts
<1> HIDE DEF inum
<1>3. fs.inodes[inum].refCnt \in Int
  BY <1>2, Fields
<1>4. Recounted(fs, inum, -1) = [fs EXCEPT !.inodes[inum].refCnt = @ - 1]
  <2>1. fs.inodes[inum].refCnt + (-1) = fs.inodes[inum].refCnt - 1
    BY <1>3
  <2> QED BY <2>1 DEF Recounted
<1>5. Unlinked(fs, inum) =
        IF fs.inodes[inum].refCnt = 1
        THEN InodeFree(IF fs.inodes[inum].addr = None THEN fs
                       ELSE DataFree(fs, fs.inodes[inum].addr), inum)
        ELSE [fs EXCEPT !.inodes[inum].refCnt = @ - 1]
  BY <1>4 DEF Unlinked
<1> QED BY <1>2, <1>5, Zenon DEF DeleteFile, NoFile, Parent, inum

LEMMA WithoutTyped ==
  ASSUME NEW S, NEW list \in Seq(S), NEW e \in ToSet(list),
         \A j, k \in 1 .. Len(list) : list[j][1] = list[k][1] => j = k
  PROVE  Without(list, e[1]) \in Seq(S)
<1>1. DOMAIN list = 1 .. Len(list)
  BY LenProperties
<1>2. PICK p \in 1 .. Len(list) : list[p] = e
  BY <1>1 DEF ToSet
<1>3. RemoveAt(list, p) \in Seq(S)
  BY ListRemoveAt
<1>4. Without(list, e[1]) = RemoveAt(list, p)
  BY <1>2, MatchRemoved
<1> QED BY <1>3, <1>4

\* A path of a file, the entry it names, and the file's block.
HasPath(n, m, fs, path) ==
  LET inum == fs.nameToInum[path]
      pinum == fs.nameToInum[Front(path)]
      a == fs.inodes[pinum].addr
      b == fs.inodes[inum].addr
  IN /\ inum \in Upto(n) /\ inum \in Live(fs) /\ inum \notin Directories(fs)
     /\ pinum \in Upto(n) /\ pinum # inum /\ a \in Upto(m) /\ a # b
     /\ fs.inodes[inum].ftype # "free"
     /\ Without(fs.data[a].dirList, Last(path)) \in Seq(AllNames \X Upto(n))
     /\ RemoveFirst(fs.files, path) \in Seq(Seq(Names))
     /\ \A d \in Directories(fs) :
          /\ d \in Upto(n) /\ d \in Live(fs) /\ d # inum
          /\ fs.inodes[d].addr \in Upto(m) /\ fs.inodes[d].addr # b
          /\ EntriesOf(fs, d) = fs.data[fs.inodes[d].addr].dirList
          /\ fs.inodes[d].addr = a <=> d = pinum

LEMMA PathOf ==
  ASSUME NEW n, NEW m, NEW fs \in FsType(n, m), Sound(fs), NEW path \in ToSet(fs.files)
  PROVE  HasPath(n, m, fs, path)
<1> DEFINE inum == fs.nameToInum[path]
           pinum == fs.nameToInum[Front(path)]
           a == fs.inodes[pinum].addr
           b == fs.inodes[inum].addr
           e == <<Last(path), inum>>
<1>1. /\ pinum \in Directories(fs) /\ inum \in Live(fs) /\ inum \notin Directories(fs)
      /\ e \in Entry(fs, pinum) /\ fs.files \in Seq(Seq(Names)) /\ Distinct(fs.files)
  BY FileOfPath
<1>2. RemoveFirst(fs.files, path) \in Seq(Seq(Names))
  BY <1>1, FilesLess
<1>3. e[1] = Last(path)
  OBVIOUS
<1> HIDE DEF inum, pinum, e
<1>4. Owned(fs) /\ Lists(fs)
  BY DEF Sound
<1>5. ASSUME NEW d \in Directories(fs)
      PROVE  /\ d \in Upto(n) /\ d \in Live(fs) /\ d # inum
             /\ fs.inodes[d].addr \in Upto(m) /\ fs.inodes[d].addr # b
             /\ EntriesOf(fs, d) = fs.data[fs.inodes[d].addr].dirList
             /\ EntriesOf(fs, d) \in Seq(AllNames \X Upto(n))
             /\ \A i \in Live(fs) : fs.inodes[i].addr = fs.inodes[d].addr => i = d
  <2>1. InBlock(n, m, fs, d)
    BY <1>4, DirectoryBlock
  <2> QED BY <2>1, <1>1 DEF InBlock
<1>6. ASSUME NEW d \in Directories(fs) PROVE fs.inodes[d].addr = a <=> d = pinum
  <2>1. \A i \in Live(fs) : fs.inodes[i].addr = fs.inodes[pinum].addr => i = pinum
    BY <1>1, <1>5
  <2>2. d \in Live(fs)
    BY <1>5
  <2> QED BY <2>1, <2>2
<1>7. Without(fs.data[a].dirList, Last(path)) \in Seq(AllNames \X Upto(n))
  <2> DEFINE list == EntriesOf(fs, pinum)
  <2>1. list \in Seq(AllNames \X Upto(n)) /\ list = fs.data[a].dirList
    BY <1>1, <1>5
  <2>2. e \in ToSet(list)
    BY <1>1 DEF Entry
  <2>3. \A j, k \in 1 .. Len(list) : list[j][1] = list[k][1] => j = k
    BY <1>1, <1>4 DEF Lists, ListFits
  <2> HIDE DEF list
  <2>4. Without(list, e[1]) \in Seq(AllNames \X Upto(n))
    BY ONLY <2>1, <2>2, <2>3, WithoutTyped
  <2> QED BY <2>1, <2>4, <1>3
<1>8. inum \in Upto(n) /\ fs.inodes[inum].ftype # "free"
  BY <1>1, LiveParts
<1>9. pinum \in Upto(n) /\ pinum # inum /\ a \in Upto(m) /\ a # b
  BY <1>1, <1>5
<1>10. \A d \in Directories(fs) :
         /\ d \in Upto(n) /\ d \in Live(fs) /\ d # inum
         /\ fs.inodes[d].addr \in Upto(m) /\ fs.inodes[d].addr # b
         /\ EntriesOf(fs, d) = fs.data[fs.inodes[d].addr].dirList
  BY <1>5
<1> HIDE DEF a, b
<1> QED BY <1>1, <1>2, <1>6, <1>7, <1>8, <1>9, <1>10 DEF HasPath, inum, pinum, a, b

LEMMA DeleteKeeps ==
  ASSUME NEW n, NEW m, NEW fs \in FsType(n, m), Sound(fs), n \in Nat, MaxUsed \in Nat,
         NEW path \in ToSet(fs.files)
  PROVE  /\ DeleteFile(fs, path) \in FsType(n, m)
         /\ Sound(DeleteFile(fs, path))
         /\ CountsGrow(n, fs, DeleteFile(fs, path))
         /\ Shrunk(fs, DeleteFile(fs, path), path)
<1> DEFINE inum == fs.nameToInum[path]
           parent == Front(path)
           pinum == fs.nameToInum[parent]
           name == Last(path)
           a == fs.inodes[pinum].addr
           b == fs.inodes[inum].addr
           last == fs.inodes[inum].refCnt = 1
           fs1 == Unlinked(fs, inum)
           fs2 == DelDirEntry(fs1, parent, name)
           fs3 == NoFile(fs2, path)
<1>1. /\ inum \in Upto(n) /\ inum \in Live(fs) /\ inum \notin Directories(fs)
      /\ pinum \in Upto(n) /\ pinum # inum /\ a \in Upto(m) /\ a # b
      /\ fs.inodes[inum].ftype # "free"
      /\ Without(fs.data[a].dirList, name) \in Seq(AllNames \X Upto(n))
      /\ RemoveFirst(fs.files, path) \in Seq(Seq(Names))
      /\ \A d \in Directories(fs) :
           /\ d \in Upto(n) /\ d \in Live(fs) /\ d # inum
           /\ fs.inodes[d].addr \in Upto(m) /\ fs.inodes[d].addr # b
           /\ EntriesOf(fs, d) = fs.data[fs.inodes[d].addr].dirList
           /\ fs.inodes[d].addr = a <=> d = pinum
  <2>1. HasPath(n, m, fs, path)
    BY PathOf
  <2> QED BY <2>1 DEF HasPath
<1>2. DeleteFile(fs, path) = fs3
  BY DeletesFile
<1> HIDE DEF inum, parent, pinum, name, a
<1>3. b = None \/ b \in Upto(m)
  BY <1>1, Fields
<1>4. /\ fs1 \in FsType(n, m) /\ SameTables(fs, fs1)
      /\ \A i \in Upto(n) :
           /\ fs1.ibitmap[i] = IF last /\ i = inum THEN 0 ELSE fs.ibitmap[i]
           /\ fs1.inodes[i].ftype = IF last /\ i = inum THEN "free" ELSE fs.inodes[i].ftype
           /\ ~(last /\ i = inum) => fs1.inodes[i].addr = fs.inodes[i].addr
           /\ fs1.inodes[i].refCnt = IF ~last /\ i = inum THEN fs.inodes[i].refCnt - 1
                                     ELSE fs.inodes[i].refCnt
      /\ \A c \in Upto(m) :
           /\ fs1.dbitmap[c] = IF last /\ c = b THEN 0 ELSE fs.dbitmap[c]
           /\ fs1.data[c].ftype = IF last /\ c = b THEN "free" ELSE fs.data[c].ftype
           /\ c # b => fs1.data[c].dirList = fs.data[c].dirList
           /\ ~(last /\ c = b) => fs1.data[c].data = fs.data[c].data
  <2>1. HasUnlinked(n, m, fs, fs1, inum)
    BY <1>1, UnlinkedFields
  <2> QED BY <2>1 DEF HasUnlinked
<1> HIDE DEF fs1, b, last
<1>5. DirAddr(fs1, parent) = a
  BY <1>1, <1>4 DEF DirAddr, SameTables, a, pinum
<1>6. /\ fs2 \in FsType(n, m) /\ SameTables(fs1, fs2) /\ SameInodes(n, fs1, fs2)
      /\ fs2.dbitmap = fs1.dbitmap
      /\ \A c \in Upto(m) :
           /\ fs2.data[c].ftype = fs1.data[c].ftype /\ fs2.data[c].data = fs1.data[c].data
           /\ fs2.data[c].dirList = IF c = a THEN Without(fs1.data[c].dirList, name)
                                    ELSE fs1.data[c].dirList
  <2>1. /\ DirAddr(fs1, parent) \in Upto(m)
        /\ Without(fs1.data[DirAddr(fs1, parent)].dirList, name) \in Seq(AllNames \X Upto(n))
    <3>1. fs1.data[a].dirList = fs.data[a].dirList
      BY <1>1, <1>4
    <3> QED BY <3>1, <1>1, <1>5
  <2>2. LosesEntry(n, m, fs1, fs2, parent, name)
    BY <1>4, <2>1, DeletedEntry
  <2> QED BY <1>5, <2>2 DEF LosesEntry
<1> HIDE DEF fs2
<1>7. /\ fs3 \in FsType(n, m) /\ fs3.inodes = fs2.inodes /\ fs3.ibitmap = fs2.ibitmap
      /\ fs3.data = fs2.data /\ fs3.dbitmap = fs2.dbitmap
      /\ fs3.files = RemoveFirst(fs2.files, path)
      /\ fs3.dirs = fs2.dirs /\ fs3.nameToInum = fs2.nameToInum
  <2>1. RemoveFirst(fs2.files, path) \in Seq(Seq(Names))
    BY <1>1, <1>4, <1>6 DEF SameTables
  <2>2. IsNoFile(n, m, fs2, fs3, path)
    BY <1>6, <2>1, NoFileFields
  <2> QED BY <2>2 DEF IsNoFile
<1> HIDE DEF fs3
<1>8. /\ \A i \in Upto(n) :
           /\ fs3.ibitmap[i] = IF last /\ i = inum THEN 0 ELSE fs.ibitmap[i]
           /\ fs3.inodes[i].ftype = IF last /\ i = inum THEN "free" ELSE fs.inodes[i].ftype
           /\ ~(last /\ i = inum) => fs3.inodes[i].addr = fs.inodes[i].addr
           /\ fs3.inodes[i].refCnt = IF ~last /\ i = inum THEN fs.inodes[i].refCnt - 1
                                     ELSE fs.inodes[i].refCnt
      /\ fs3.files = RemoveFirst(fs.files, path) /\ fs3.dirs = fs.dirs
      /\ fs3.nameToInum = fs.nameToInum
  BY <1>4, <1>6, <1>7 DEF SameTables, SameInodes
<1>9. \A c \in Upto(m) :
        /\ fs3.dbitmap[c] = IF last /\ c = b THEN 0 ELSE fs.dbitmap[c]
        /\ fs3.data[c].ftype = IF last /\ c = b THEN "free" ELSE fs.data[c].ftype
        /\ c # b => fs3.data[c].dirList = IF c = a THEN Without(fs.data[c].dirList, name)
                                          ELSE fs.data[c].dirList
  BY <1>4, <1>6, <1>7
<1>10. /\ Live(fs3) = IF last THEN Live(fs) \ {inum} ELSE Live(fs)
       /\ Directories(fs3) = Directories(fs)
  <2>1. \A i \in Upto(n) : i \in Live(fs3) <=> i \in Live(fs) /\ ~(last /\ i = inum)
    BY <1>7, <1>8, LiveParts
  <2>2. \A i \in Upto(n) : i \in Directories(fs3) <=> i \in Directories(fs)
    BY <1>1, <1>7, <1>8, LiveParts
  <2>3. /\ Live(fs3) \subseteq Upto(n) /\ Live(fs) \subseteq Upto(n)
        /\ Directories(fs3) \subseteq Upto(n) /\ Directories(fs) \subseteq Upto(n)
    BY <1>7, LiveParts
  <2> QED BY <2>1, <2>2, <2>3
<1>11. OneLess(fs, fs3, pinum, name)
  <2> SUFFICES ASSUME NEW d \in Directories(fs)
      PROVE EntriesOf(fs3, d) = IF d = pinum THEN Without(EntriesOf(fs, d), name)
                                ELSE EntriesOf(fs, d)
    BY DEF OneLess
  <2>1. /\ fs.inodes[d].addr \in Upto(m) /\ fs.inodes[d].addr # b
        /\ EntriesOf(fs, d) = fs.data[fs.inodes[d].addr].dirList
        /\ fs.inodes[d].addr = a <=> d = pinum
    BY <1>1
  <2>2. fs3.inodes[d].addr = fs.inodes[d].addr
    BY <1>1, <1>8
  <2> QED BY <2>1, <2>2, <1>9 DEF EntriesOf
<1>12. /\ \A i \in Live(fs) \ {inum} : fs3.inodes[i].refCnt = fs.inodes[i].refCnt
       /\ ~last => fs3.inodes[inum].refCnt = fs.inodes[inum].refCnt - 1
  BY <1>1, <1>8, LiveParts
<1>13. /\ Lists(fs3) /\ EntriesLive(fs3) /\ Rooted(fs3) /\ Counted(fs3)
       /\ Named(fs3) /\ PathsLead(fs3)
  <2>1. /\ fs \in FsType(n, m) /\ fs3 \in FsType(n, m) /\ Sound(fs)
        /\ n \in Nat /\ MaxUsed \in Nat /\ path \in ToSet(fs.files) /\ inum = fs.nameToInum[path]
    BY <1>7 DEF inum
  <2>2. /\ Live(fs3) = IF fs.inodes[inum].refCnt = 1 THEN Live(fs) \ {inum} ELSE Live(fs)
        /\ Directories(fs3) = Directories(fs)
    BY <1>10 DEF last
  <2>3. OneLess(fs, fs3, fs.nameToInum[Front(path)], Last(path))
    BY <1>11 DEF pinum, parent, name
  <2>4. /\ \A i \in Live(fs) \ {inum} : fs3.inodes[i].refCnt = fs.inodes[i].refCnt
        /\ fs.inodes[inum].refCnt # 1 => fs3.inodes[inum].refCnt = fs.inodes[inum].refCnt - 1
    BY <1>12 DEF last
  <2>5. /\ fs3.files = RemoveFirst(fs.files, path) /\ fs3.dirs = fs.dirs
        /\ fs3.nameToInum = fs.nameToInum
    BY <1>8
  <2> QED BY ONLY <2>1, <2>2, <2>3, <2>4, <2>5, FileRemoved
<1>14. CountsGrow(n, fs, fs3)
  <2>1. fs.inodes[inum].refCnt \in Nat /\ fs.inodes[inum].refCnt >= 1
    BY <1>1, LiveCounts
  <2> QED BY <2>1, <1>8 DEF CountsGrow
<1>15. /\ DOMAIN fs3.inodes = Upto(n) /\ DOMAIN fs3.data = Upto(m)
       /\ DOMAIN fs.inodes = Upto(n) /\ DOMAIN fs.data = Upto(m)
  BY <1>7, TypeParts
<1>16. Bits(fs3)
  BY <1>8, <1>9, <1>15 DEF Sound, Bits
<1>17. Owned(fs3)
  <2>1. \A i \in Live(fs) : i \in Upto(n)
    BY LiveParts
  <2>2. \A i \in Live(fs3) : /\ i \in Live(fs) /\ ~(last /\ i = inum)
                             /\ fs3.inodes[i].addr = fs.inodes[i].addr
                             /\ fs3.inodes[i].ftype = fs.inodes[i].ftype
    BY <2>1, <1>8, <1>10
  <2>3. \A i \in Live(fs) : fs.inodes[i].addr = None \/ fs.inodes[i].addr \in Upto(m)
    BY <2>1, Fields
  <2>4. \A i \in Live(fs) : fs.inodes[i].addr # None /\ fs.inodes[i].addr = b => i = inum
    BY <1>1 DEF Sound, Owned, b
  <2>5. \A i \in Live(fs3) :
          IF fs3.inodes[i].addr = None THEN fs3.inodes[i].ftype = "f"
          ELSE fs3.data[fs3.inodes[i].addr].ftype = fs3.inodes[i].ftype
    <3> SUFFICES ASSUME NEW i \in Live(fs3)
        PROVE IF fs3.inodes[i].addr = None THEN fs3.inodes[i].ftype = "f"
              ELSE fs3.data[fs3.inodes[i].addr].ftype = fs3.inodes[i].ftype
      OBVIOUS
    <3>1. IF fs.inodes[i].addr = None THEN fs.inodes[i].ftype = "f"
          ELSE fs.data[fs.inodes[i].addr].ftype = fs.inodes[i].ftype
      BY <2>2 DEF Sound, Owned
    <3> QED BY <3>1, <2>2, <2>3, <2>4, <1>9
  <2>6. \A i, j \in Live(fs3) :
          fs3.inodes[i].addr = fs3.inodes[j].addr /\ fs3.inodes[i].addr # None => i = j
    BY <2>2 DEF Sound, Owned
  <2>7. ASSUME NEW c \in Upto(m), fs3.data[c].ftype # "free"
        PROVE \E i \in Live(fs3) : fs3.inodes[i].addr = c
    <3>1. fs.data[c].ftype # "free" /\ ~(last /\ c = b)
      BY <2>7, <1>9
    <3>2. PICK i \in Live(fs) : fs.inodes[i].addr = c
      BY <3>1, <1>15 DEF Sound, Owned
    <3>3. ~(last /\ i = inum)
      BY <3>1, <3>2 DEF b
    <3>4. i \in Live(fs3)
      BY <3>3, <1>10
    <3> QED BY <3>2, <3>4, <2>2
  <2> QED BY ONLY <2>5, <2>6, <2>7, <1>15 DEF Owned
<1>18. Shrunk(fs, fs3, path)
  <2>1. \A i \in Live(fs3) : /\ i \in Upto(n) /\ i \in Live(fs) /\ ~(last /\ i = inum)
                             /\ fs3.inodes[i].addr = fs.inodes[i].addr
    BY <1>8, <1>10, LiveParts
  <2>2. \A i \in Live(fs) : fs.inodes[i].addr # None /\ fs.inodes[i].addr = b => i = inum
    BY <1>1 DEF Sound, Owned, b
  <2>3. \A c \in Upto(m) : ~(last /\ c = b) => fs3.data[c].data = fs.data[c].data
    BY <1>4, <1>6, <1>7
  <2>4. \A i \in Live(fs3) : KeepsContent(m, fs, fs3, i)
    BY <2>1, <2>2, <2>3, NoNumber DEF KeepsContent
  <2>5. SameContent(fs, fs3, Live(fs3))
    BY <2>1, <2>4, ContentKept
  <2> QED BY <2>5, <1>8 DEF Shrunk
<1> QED BY <1>2, <1>7, <1>13, <1>14, <1>16, <1>17, <1>18 DEF Sound

-----------------------------------------------------------------------------
(* A new file system.                                                      *)

LEMMA NewIsSound ==
  ASSUME NEW n \in Nat \ {0}, NEW m \in Nat \ {0}, MaxUsed \in Nat, MaxUsed >= 2
  PROVE  /\ Fs(n, m) \in FsType(n, m) /\ Sound(Fs(n, m))
         /\ \A i \in Upto(n) : Fs(n, m).inodes[i].refCnt \in 0 .. 2
<1> DEFINE fs == Fs(n, m)
           inodes == [i \in Upto(n) |-> IF i = ROOT THEN Inode("d", 0, 2) ELSE FreeInode]
           data == [b \in Upto(m) |-> IF b = 0 THEN DirBlock(ROOT, ROOT) ELSE FreeBlock]
           table == [path \in {<<>>} |-> ROOT]
<1>1. /\ fs.ibitmap = [i \in Upto(n) |-> IF i = ROOT THEN 1 ELSE 0]
      /\ fs.dbitmap = [b \in Upto(m) |-> IF b = 0 THEN 1 ELSE 0]
      /\ fs.inodes = inodes /\ fs.data = data
      /\ fs.files = <<>> /\ fs.dirs = {<<>>} /\ fs.nameToInum = table
      /\ fs = [ibitmap |-> fs.ibitmap, inodes |-> fs.inodes, dbitmap |-> fs.dbitmap,
               data |-> fs.data, files |-> fs.files, dirs |-> fs.dirs,
               nameToInum |-> fs.nameToInum]
  BY DEF Fs, Upto
<1>2. 0 \in Upto(n) /\ 0 \in Upto(m) /\ ROOT = 0
  BY DEF Upto, ROOT
<1>3. /\ Inode("d", 0, 2) \in InodeType(m) /\ FreeInode \in InodeType(m)
      /\ Inode("d", 0, 2).ftype = "d" /\ Inode("d", 0, 2).addr = 0
      /\ Inode("d", 0, 2).refCnt = 2
      /\ FreeInode.ftype = "free" /\ FreeInode.refCnt = 1
  BY <1>2 DEF Inode, FreeInode, InodeType
<1>4. /\ DirBlock(ROOT, ROOT) \in BlockType(n)
      /\ DirBlock(ROOT, ROOT).ftype = "d"
      /\ DirBlock(ROOT, ROOT).dirList = NewList(ROOT, ROOT)
  <2>1. NewList(ROOT, ROOT) \in Seq(AllNames \X Upto(n))
    BY <1>2, NewListFits
  <2> QED BY <2>1 DEF DirBlock, NewList, BlockType
<1>5. FreeBlock \in BlockType(n) /\ FreeBlock.ftype = "free"
  BY EmptySeq DEF FreeBlock, BlockType
<1>6. inodes \in [Upto(n) -> InodeType(m)] /\ data \in [Upto(m) -> BlockType(n)]
  BY <1>3, <1>4, <1>5
<1>7. fs \in FsType(n, m)
  <2>1. table \in UNION {[Q -> Upto(n)] : Q \in SUBSET Seq(Names)}
    <3>1. <<>> \in Seq(Names)
      BY EmptySeq
    <3>2. {<<>>} \in SUBSET Seq(Names) /\ table \in [{<<>>} -> Upto(n)]
      BY <3>1, <1>2
    <3> QED BY <3>2
  <2>2. /\ <<>> \in Seq(Seq(Names)) /\ {<<>>} \in SUBSET Seq(Names)
        /\ [i \in Upto(n) |-> IF i = ROOT THEN 1 ELSE 0] \in [Upto(n) -> {0, 1}]
        /\ [b \in Upto(m) |-> IF b = 0 THEN 1 ELSE 0] \in [Upto(m) -> {0, 1}]
    BY EmptySeq
  <2> HIDE DEF fs, inodes, data, table
  <2> QED BY <1>1, <1>6, <2>1, <2>2 DEF FsType
<1>8. \A i \in Upto(n) :
        /\ fs.inodes[i].ftype = IF i = ROOT THEN "d" ELSE "free"
        /\ fs.inodes[i].refCnt = IF i = ROOT THEN 2 ELSE 1
        /\ i = ROOT => fs.inodes[i].addr = 0
        /\ fs.ibitmap[i] = IF i = ROOT THEN 1 ELSE 0
  BY <1>1, <1>3
<1>9. \A b \in Upto(m) :
        /\ fs.data[b].ftype = IF b = 0 THEN "d" ELSE "free"
        /\ b = 0 => fs.data[b].dirList = NewList(ROOT, ROOT)
        /\ fs.dbitmap[b] = IF b = 0 THEN 1 ELSE 0
  BY <1>1, <1>4, <1>5
<1>10. fs.nameToInum[<<>>] = ROOT /\ DOMAIN fs.nameToInum = {<<>>}
  BY <1>1
<1> HIDE DEF fs, inodes, data, table
<1>11. DOMAIN fs.inodes = Upto(n) /\ DOMAIN fs.data = Upto(m)
  BY <1>7, TypeParts
<1>12. Live(fs) = {ROOT} /\ Directories(fs) = {ROOT}
  <2>1. \A i \in Upto(n) : (i \in Live(fs) <=> i = ROOT) /\ (i \in Directories(fs) <=> i = ROOT)
    BY <1>7, <1>8, LiveParts
  <2>2. Live(fs) \subseteq Upto(n) /\ Directories(fs) \subseteq Upto(n)
    BY <1>7, LiveParts
  <2> QED BY <2>1, <2>2, <1>2
<1>13. /\ fs.inodes[ROOT].addr = 0 /\ fs.inodes[ROOT].ftype = "d" /\ fs.inodes[ROOT].refCnt = 2
       /\ fs.data[0].ftype = "d" /\ EntriesOf(fs, ROOT) = NewList(ROOT, ROOT)
  BY <1>2, <1>8, <1>9 DEF EntriesOf
<1>14. Bits(fs)
  BY <1>8, <1>9, <1>11 DEF Bits
<1>15. Owned(fs)
  BY <1>9, <1>11, <1>12, <1>13, NoNumber, <1>2 DEF Owned
<1>16. /\ ListFits(NewList(ROOT, ROOT), ROOT)
       /\ ToSet(NewList(ROOT, ROOT)) = {<<".", ROOT>>, <<"..", ROOT>>}
  BY <1>2, NewListFits
<1>17. Entry(fs, ROOT) = {<<".", ROOT>>, <<"..", ROOT>>}
  BY <1>13, <1>16 DEF Entry
<1>18. Lists(fs) /\ EntriesLive(fs) /\ Rooted(fs)
  BY <1>12, <1>13, <1>16, <1>17 DEF Lists, EntriesLive, Rooted
<1>19. Links(fs, ROOT) = {<<ROOT, ".">>, <<ROOT, "..">>}
  <2>1. "." \in AllNames /\ ".." \in AllNames
    BY DEF AllNames, Dots
  <2>2. ASSUME NEW l PROVE l \in Links(fs, ROOT) <=> l \in {<<ROOT, ".">>, <<ROOT, "..">>}
    BY <2>1, <1>12, <1>17 DEF Links
  <2> QED BY <2>2
<1>20. Counted(fs)
  <2>1. Cardinality({<<ROOT, ".">>, <<ROOT, "..">>}) = 2
    <3>1. <<ROOT, ".">> # <<ROOT, "..">>
      OBVIOUS
    <3> QED BY <3>1, TwoElements
  <2> QED BY <2>1, <1>12, <1>13, <1>19 DEF Counted
<1>21. /\ fs.files = <<>> /\ fs.dirs = {<<>>} /\ ToSet(fs.files) = {}
       /\ fs.nameToInum[<<>>] = ROOT /\ DOMAIN fs.nameToInum = {<<>>}
  BY <1>1, <1>10 DEF ToSet
<1>22. Named(fs)
  BY <1>12, <1>21 DEF Named
<1>23. PathsLead(fs)
  <2>1. \A e \in Entry(fs, ROOT) : e[1] \in Dots
    BY <1>17 DEF Dots
  <2> QED BY <2>1, <1>21 DEF PathsLead
<1>24. \A i \in Upto(n) : fs.inodes[i].refCnt \in 0 .. 2
  BY <1>8
<1> QED BY <1>7, <1>14, <1>15, <1>18, <1>20, <1>22, <1>23, <1>24 DEF Sound, fs

-----------------------------------------------------------------------------
(* What the operations do to names and contents, which is what NameSpace   *)
(* says: its actions, on a file system and the next one.                   *)

NewIn(fs, path) ==
  path # <<>> /\ Front(path) \in fs.dirs /\ path \notin fs.dirs \cup ToSet(fs.files)

SameNames(fs, fs2) == fs2.dirs = fs.dirs /\ FileAt(fs2) = FileAt(fs)

IsMkdir(fs, fs2, path) ==
  /\ NewIn(fs, path)
  /\ fs2.dirs = fs.dirs \cup {path} /\ FileAt(fs2) = FileAt(fs)
  /\ Contents(fs2) = Contents(fs)

IsCreat(fs, fs2, path, file) ==
  /\ NewIn(fs, path) /\ file \in DOMAIN fs.inodes /\ file \notin DOMAIN Contents(fs)
  /\ fs2.dirs = fs.dirs /\ FileAt(fs2) = Known(FileAt(fs), path, file)
  /\ Contents(fs2) = Known(Contents(fs), file, "")

IsLink(fs, fs2, path, target) ==
  /\ NewIn(fs, path) /\ target \in ToSet(fs.files)
  /\ fs2.dirs = fs.dirs /\ FileAt(fs2) = Known(FileAt(fs), path, FileAt(fs)[target])
  /\ Contents(fs2) = Contents(fs)

IsUnlink(fs, fs2, path) ==
  /\ path \in ToSet(fs.files)
  /\ fs2.dirs = fs.dirs /\ FileAt(fs2) = Restrict(FileAt(fs), DOMAIN FileAt(fs) \ {path})
  /\ Contents(fs2) = Restrict(Contents(fs), Range(FileAt(fs2)))

IsWrite(fs, fs2, path, char) ==
  /\ path \in ToSet(fs.files) /\ char \in Chars /\ Contents(fs)[FileAt(fs)[path]] = ""
  /\ SameNames(fs, fs2)
  /\ Contents(fs2) = [Contents(fs) EXCEPT ![FileAt(fs)[path]] = char]

Follows(fs, fs2) ==
  \/ SameNames(fs, fs2) /\ Contents(fs2) = Contents(fs)
  \/ \E path \in DOMAIN fs2.nameToInum :
       \/ IsMkdir(fs, fs2, path)
       \/ \E file : IsCreat(fs, fs2, path, file)
       \/ \E target : IsLink(fs, fs2, path, target)
  \/ \E path : IsUnlink(fs, fs2, path) \/ \E char : IsWrite(fs, fs2, path, char)

\* The inodes that are files with a name.
Inums(fs) == {fs.nameToInum[path] : path \in ToSet(fs.files)}

LEMMA ContentsOf ==
  ASSUME NEW fs
  PROVE  /\ Contents(fs) = [i \in Inums(fs) |-> Content(fs, i)]
         /\ FileAt(fs) = [path \in ToSet(fs.files) |-> fs.nameToInum[path]]
BY DEF Contents, Content, Inums, FileAt

LEMMA InumsLive ==
  ASSUME NEW fs, Sound(fs)
  PROVE  Inums(fs) \subseteq Live(fs)
BY DEF Sound, Named, Inums

LEMMA FollowsSame ==
  ASSUME NEW fs, NEW fs2, Sound(fs), SameTables(fs, fs2), SameContent(fs, fs2, Live(fs))
  PROVE  Follows(fs, fs2)
<1>1. fs2.files = fs.files /\ fs2.dirs = fs.dirs /\ fs2.nameToInum = fs.nameToInum
  BY DEF SameTables
<1>2. Inums(fs2) = Inums(fs) /\ FileAt(fs2) = FileAt(fs)
  BY <1>1 DEF Inums, FileAt
<1>3. Contents(fs2) = Contents(fs)
  <2>1. \A i \in Inums(fs) : Content(fs2, i) = Content(fs, i)
    BY InumsLive DEF SameContent
  <2>2. /\ Contents(fs) = [i \in Inums(fs) |-> Content(fs, i)]
        /\ Contents(fs2) = [i \in Inums(fs2) |-> Content(fs2, i)]
    BY ContentsOf
  <2> QED BY <2>1, <2>2, <1>2
<1> QED BY <1>1, <1>2, <1>3 DEF Follows, SameNames

LEMMA FollowsWrite ==
  ASSUME NEW fs, NEW fs2, Sound(fs), NEW path \in ToSet(fs.files), NEW char \in Chars,
         IsWritten(fs, fs2, fs.nameToInum[path], char)
  PROVE  Follows(fs, fs2)
<1> DEFINE inum == fs.nameToInum[path]
<1>1. /\ fs2.files = fs.files /\ fs2.dirs = fs.dirs /\ fs2.nameToInum = fs.nameToInum
      /\ Content(fs, inum) = "" /\ Content(fs2, inum) = char
      /\ SameContent(fs, fs2, Live(fs) \ {inum})
  BY DEF IsWritten
<1>2. Inums(fs2) = Inums(fs) /\ FileAt(fs2) = FileAt(fs) /\ inum \in Inums(fs)
  BY <1>1 DEF Inums, FileAt
<1>3. FileAt(fs)[path] = inum
  BY DEF FileAt
<1> HIDE DEF inum
<1>4. /\ Contents(fs) = [i \in Inums(fs) |-> Content(fs, i)]
      /\ Contents(fs2) = [i \in Inums(fs2) |-> Content(fs2, i)]
  BY ContentsOf
<1>5. \A i \in Inums(fs) : Content(fs2, i) = IF i = inum THEN char ELSE Content(fs, i)
  BY <1>1, InumsLive DEF SameContent
<1>6. Contents(fs)[inum] = "" /\ Contents(fs2) = [Contents(fs) EXCEPT ![inum] = char]
  BY <1>1, <1>2, <1>4, <1>5
<1> QED BY <1>1, <1>2, <1>3, <1>6 DEF Follows, IsWrite, SameNames

\* The tables of files with a path more.
LEMMA GrownFiles ==
  ASSUME NEW n, NEW m, NEW fs \in FsType(n, m), NEW fs2, Sound(fs),
         NEW path \in Seq(Names), NEW inum, NewIn(fs, path), Grown(fs, fs2, path, inum, "f")
  PROVE  /\ FileAt(fs2) = Known(FileAt(fs), path, inum) /\ fs2.dirs = fs.dirs
         /\ Inums(fs2) = Inums(fs) \cup {inum} /\ path \in DOMAIN fs2.nameToInum
<1>1. /\ fs2.files = Append(fs.files, path) /\ fs2.dirs = fs.dirs
      /\ fs2.nameToInum = Known(fs.nameToInum, path, inum)
  BY DEF Grown
<1>2. ToSet(fs2.files) = ToSet(fs.files) \cup {path}
  <2>1. fs.files \in Seq(Seq(Names))
    BY TypeParts
  <2> QED BY <2>1, <1>1, ListAppend
<1>3. ToSet(fs.files) \subseteq DOMAIN fs.nameToInum /\ path \notin ToSet(fs.files)
  BY DEF Sound, Named, NewIn
<1>4. /\ \A p \in ToSet(fs.files) : fs2.nameToInum[p] = fs.nameToInum[p]
      /\ fs2.nameToInum[path] = inum /\ path \in DOMAIN fs2.nameToInum
  BY <1>1, <1>3 DEF Known
<1>5. FileAt(fs2) = Known(FileAt(fs), path, inum)
  BY <1>2, <1>3, <1>4 DEF FileAt, Known
<1>6. Inums(fs2) = Inums(fs) \cup {inum}
  BY <1>2, <1>4 DEF Inums
<1> QED BY <1>1, <1>4, <1>5, <1>6

LEMMA FollowsLink ==
  ASSUME NEW n, NEW m, NEW fs \in FsType(n, m), NEW fs2, Sound(fs),
         NEW path \in Seq(Names), NEW target \in ToSet(fs.files), NewIn(fs, path),
         Grown(fs, fs2, path, fs.nameToInum[target], "f")
  PROVE  Follows(fs, fs2)
<1> DEFINE inum == fs.nameToInum[target]
<1>1. inum \in Inums(fs) /\ FileAt(fs)[target] = inum
  BY DEF Inums, FileAt
<1> HIDE DEF inum
<1>2. /\ FileAt(fs2) = Known(FileAt(fs), path, inum) /\ fs2.dirs = fs.dirs
      /\ Inums(fs2) = Inums(fs) \cup {inum} /\ path \in DOMAIN fs2.nameToInum
  BY GrownFiles DEF inum
<1>3. \A i \in Inums(fs) : Content(fs2, i) = Content(fs, i)
  BY InumsLive DEF Grown, SameContent
<1>4. /\ Contents(fs) = [i \in Inums(fs) |-> Content(fs, i)]
      /\ Contents(fs2) = [i \in Inums(fs2) |-> Content(fs2, i)]
  BY ContentsOf
<1>5. Contents(fs2) = Contents(fs)
  BY <1>1, <1>2, <1>3, <1>4
<1>6. IsLink(fs, fs2, path, target)
  BY <1>1, <1>2, <1>5 DEF IsLink
<1> QED BY <1>2, <1>6 DEF Follows

LEMMA FollowsCreat ==
  ASSUME NEW n, NEW m, NEW fs \in FsType(n, m), NEW fs2, Sound(fs),
         NEW path \in Seq(Names), NEW inum \in Upto(n), inum \notin Live(fs), NewIn(fs, path),
         Grown(fs, fs2, path, inum, "f"), Content(fs2, inum) = ""
  PROVE  Follows(fs, fs2)
<1>2. /\ FileAt(fs2) = Known(FileAt(fs), path, inum) /\ fs2.dirs = fs.dirs
      /\ Inums(fs2) = Inums(fs) \cup {inum} /\ path \in DOMAIN fs2.nameToInum
  BY GrownFiles
<1>3. /\ \A i \in Inums(fs) : Content(fs2, i) = Content(fs, i)
      /\ inum \notin Inums(fs)
  BY InumsLive DEF Grown, SameContent
<1>4. /\ Contents(fs) = [i \in Inums(fs) |-> Content(fs, i)]
      /\ Contents(fs2) = [i \in Inums(fs2) |-> Content(fs2, i)]
  BY ContentsOf
<1>5. Contents(fs2) = Known(Contents(fs), inum, "") /\ inum \notin DOMAIN Contents(fs)
  <2>1. DOMAIN Contents(fs) = Inums(fs) /\ Content(fs2, inum) = ""
    BY <1>4
  <2>2. \A i \in Inums(fs) : Contents(fs)[i] = Content(fs2, i)
    BY <1>3, <1>4
  <2>3. Contents(fs2) = [i \in Inums(fs) \cup {inum} |->
                           IF i = inum THEN "" ELSE Contents(fs)[i]]
    BY ONLY <1>2, <1>3, <1>4, <2>1, <2>2
  <2> QED BY ONLY <1>3, <2>1, <2>3 DEF Known
<1>6. inum \in DOMAIN fs.inodes
  BY TypeParts
<1>7. IsCreat(fs, fs2, path, inum)
  BY <1>2, <1>5, <1>6 DEF IsCreat
<1> QED BY <1>2, <1>7 DEF Follows

LEMMA FollowsMkdir ==
  ASSUME NEW fs, NEW fs2, Sound(fs), NEW path, NEW inum, NewIn(fs, path),
         Grown(fs, fs2, path, inum, "d")
  PROVE  Follows(fs, fs2)
<1>1. /\ fs2.files = fs.files /\ fs2.dirs = fs.dirs \cup {path}
      /\ fs2.nameToInum = Known(fs.nameToInum, path, inum)
  BY DEF Grown
<1>2. ToSet(fs.files) \subseteq DOMAIN fs.nameToInum /\ path \notin ToSet(fs.files)
  BY DEF Sound, Named, NewIn
<1>3. /\ \A p \in ToSet(fs.files) : fs2.nameToInum[p] = fs.nameToInum[p]
      /\ path \in DOMAIN fs2.nameToInum
  BY <1>1, <1>2 DEF Known
<1>4. FileAt(fs2) = FileAt(fs) /\ Inums(fs2) = Inums(fs)
  BY <1>1, <1>3 DEF FileAt, Inums
<1>5. \A i \in Inums(fs) : Content(fs2, i) = Content(fs, i)
  BY InumsLive DEF Grown, SameContent
<1>6. /\ Contents(fs) = [i \in Inums(fs) |-> Content(fs, i)]
      /\ Contents(fs2) = [i \in Inums(fs2) |-> Content(fs2, i)]
  BY ContentsOf
<1>7. Contents(fs2) = Contents(fs)
  BY <1>4, <1>5, <1>6
<1>8. IsMkdir(fs, fs2, path)
  BY <1>1, <1>4, <1>7 DEF IsMkdir
<1> QED BY <1>3, <1>8 DEF Follows

\* What the last name of a file leaves behind is not a file of fs2, which is
\* sound.
LEMMA FollowsUnlink ==
  ASSUME NEW n, NEW m, NEW fs \in FsType(n, m), NEW fs2, Sound(fs), Sound(fs2),
         NEW path \in ToSet(fs.files), Shrunk(fs, fs2, path)
  PROVE  Follows(fs, fs2)
<1>1. /\ fs2.files = RemoveFirst(fs.files, path) /\ fs2.dirs = fs.dirs
      /\ fs2.nameToInum = fs.nameToInum
  BY DEF Shrunk
<1>2. ToSet(fs2.files) = ToSet(fs.files) \ {path}
  <2>1. fs.files \in Seq(Seq(Names)) /\ Distinct(fs.files)
    BY FileOfPath
  <2> QED BY <2>1, <1>1, FilesLess
<1>3. /\ FileAt(fs2) = Restrict(FileAt(fs), DOMAIN FileAt(fs) \ {path})
      /\ Inums(fs2) \subseteq Inums(fs) /\ Range(FileAt(fs2)) = Inums(fs2)
  BY <1>1, <1>2 DEF FileAt, Restrict, Inums, Range
<1>4. \A i \in Inums(fs2) : Content(fs2, i) = Content(fs, i)
  BY InumsLive DEF Shrunk, SameContent
<1>5. /\ Contents(fs) = [i \in Inums(fs) |-> Content(fs, i)]
      /\ Contents(fs2) = [i \in Inums(fs2) |-> Content(fs2, i)]
  BY ContentsOf
<1>6. Contents(fs2) = Restrict(Contents(fs), Inums(fs2))
  BY <1>3, <1>4, <1>5 DEF Restrict
<1>7. IsUnlink(fs, fs2, path)
  BY <1>1, <1>3, <1>6 DEF IsUnlink
<1> QED BY <1>7 DEF Follows

LEMMA NewInParent ==
  ASSUME NEW n, NEW m, NEW fs \in FsType(n, m), Sound(fs),
         NEW parent \in fs.dirs, NEW name \in Names, MayAdd(fs, parent, name)
  PROVE  Append(parent, name) \in Seq(Names) /\ NewIn(fs, Append(parent, name))
<1>1. \A e \in Entry(fs, fs.nameToInum[parent]) : e[1] # name
  BY DEF MayAdd, Entries, DirAddr, EntriesOf, Entry
<1>2. /\ Append(parent, name) \in Seq(Names) /\ Append(parent, name) # <<>>
      /\ Front(Append(parent, name)) = parent
      /\ Append(parent, name) \notin fs.dirs \cup ToSet(fs.files)
  BY <1>1, NewPath
<1> QED BY <1>2 DEF NewIn

-----------------------------------------------------------------------------
(* Every result of every operation is good, whatever inode and block it    *)
(* was given of those that are free.                                       *)

Good(n, m, fs, result) ==
  /\ result.fs \in FsType(n, m) /\ Sound(result.fs)
  /\ result.rc = -1 =>
       \A i \in Upto(n) : result.fs.inodes[i].refCnt = fs.inodes[i].refCnt
  /\ CountsGrow(n, fs, result.fs)
  /\ Follows(fs, result.fs)

LEMMA FailedGood ==
  ASSUME NEW n, NEW m, NEW fs, NEW fs2 \in FsType(n, m), Sound(fs2),
         \A i \in Upto(n) : fs2.inodes[i].refCnt = fs.inodes[i].refCnt, Follows(fs, fs2)
  PROVE  Good(n, m, fs, Failed(fs2))
<1>1. Failed(fs2).fs = fs2 /\ Failed(fs2).rc = -1
  BY DEF Failed
<1>2. CountsGrow(n, fs, fs2)
  BY DEF CountsGrow
<1> QED BY <1>1, <1>2 DEF Good

LEMMA FollowsItself ==
  ASSUME NEW fs
  PROVE  Follows(fs, fs)
BY DEF Follows, SameNames

LEMMA EnterFailed ==
  ASSUME NEW fs, NEW path, NEW ftype
  PROVE  Enter(Failed(fs), path, ftype) = Failed(fs)
BY DEF Enter, Failed

LEMMA EnterResult ==
  ASSUME NEW n, NEW inum \in Upto(n), NEW fs, NEW path, NEW ftype
  PROVE  /\ Enter([rc |-> inum, fs |-> fs], path, ftype).rc = inum
         /\ Enter([rc |-> inum, fs |-> fs], path, ftype).fs = Entered(fs, inum, path, ftype)
         /\ inum # -1
<1>1. inum # -1
  BY NoNumber DEF None
<1> QED BY <1>1 DEF Enter, Entered

LEMMA WriteGood ==
  ASSUME NEW n, NEW m, NEW fs \in FsType(n, m), Sound(fs),
         NEW path \in ToSet(fs.files), NEW char \in Chars,
         NEW fblock \in FreeBits(fs.dbitmap) \cup {None}
  PROVE  Good(n, m, fs, WriteFile(fs, path, char, fblock))
<1> DEFINE inum == fs.nameToInum[path]
           fs2 == Written(fs, path, char, fblock)
<1>1. CASE fs.inodes[inum].addr # None \/ fblock = None
  <2>1. WriteFile(fs, path, char, fblock) = Failed(fs)
    BY <1>1 DEF WriteFile
  <2>2. Good(n, m, fs, Failed(fs))
    BY FailedGood, FollowsItself
  <2> QED BY <2>1, <2>2
<1>2. CASE fs.inodes[inum].addr = None /\ fblock # None
  <2>1. WriteFile(fs, path, char, fblock) = [rc |-> 0, fs |-> fs2]
    BY <1>2 DEF WriteFile, Written
  <2>2. /\ fs2 \in FsType(n, m) /\ Sound(fs2)
        /\ \A i \in Upto(n) : fs2.inodes[i].refCnt = fs.inodes[i].refCnt
        /\ IsWritten(fs, fs2, inum, char)
    <3>1. fblock \in FreeBits(fs.dbitmap) /\ fs.inodes[fs.nameToInum[path]].addr = None
      BY <1>2
    <3> QED BY <3>1, WriteKeeps
  <2> HIDE DEF fs2
  <2>3. CountsGrow(n, fs, fs2)
    BY <2>2 DEF CountsGrow
  <2>4. Follows(fs, fs2)
    BY <2>2, FollowsWrite
  <2> QED BY <2>1, <2>2, <2>3, <2>4 DEF Good
<1> QED BY <1>1, <1>2

LEMMA DeleteGood ==
  ASSUME NEW n, NEW m, NEW fs \in FsType(n, m), Sound(fs), n \in Nat, MaxUsed \in Nat,
         NEW path \in ToSet(fs.files)
  PROVE  Good(n, m, fs, [rc |-> 0, fs |-> DeleteFile(fs, path)])
<1> DEFINE fs2 == DeleteFile(fs, path)
<1>1. /\ fs2 \in FsType(n, m) /\ Sound(fs2) /\ CountsGrow(n, fs, fs2)
      /\ Shrunk(fs, fs2, path)
  BY DeleteKeeps
<1> HIDE DEF fs2
<1>2. Follows(fs, fs2)
  BY <1>1, FollowsUnlink
<1> QED BY <1>1, <1>2 DEF Good, fs2

LEMMA LinkGood ==
  ASSUME NEW n, NEW m, NEW fs \in FsType(n, m), Sound(fs), n \in Nat, MaxUsed \in Nat,
         NEW parent \in fs.dirs, NEW name \in Names, NEW target \in ToSet(fs.files)
  PROVE  Good(n, m, fs, Enter(CreateLink(fs, target, name, parent), Append(parent, name), "f"))
<1> DEFINE inum == fs.nameToInum[target]
           path == Append(parent, name)
           fs2 == AddDirEntry(Recounted(fs, inum, 1), parent, name, inum)
           result == Enter(CreateLink(fs, target, name, parent), path, "f")
<1>1. CASE ~MayAdd(fs, parent, name)
  <2>1. CreateLink(fs, target, name, parent) = Failed(fs)
    BY <1>1 DEF CreateLink
  <2>2. Good(n, m, fs, Failed(fs))
    BY FailedGood, FollowsItself
  <2> QED BY <2>1, <2>2, EnterFailed
<1>2. CASE MayAdd(fs, parent, name)
  <2>1. CreateLink(fs, target, name, parent) = [rc |-> inum, fs |-> fs2]
    BY <1>2 DEF CreateLink, Recounted
  <2>2. /\ Linked(fs, target, name, parent) \in FsType(n, m)
        /\ Sound(Linked(fs, target, name, parent))
        /\ CountsGrow(n, fs, Linked(fs, target, name, parent))
        /\ Grown(fs, Linked(fs, target, name, parent), path, inum, "f")
    BY <1>2, LinkKeeps
  <2>3. Linked(fs, target, name, parent) = Entered(fs2, inum, path, "f")
    BY DEF Linked
  <2>4. inum \in Upto(n)
    BY LiveParts DEF Sound, Named
  <2>7. Follows(fs, Linked(fs, target, name, parent))
    <3>1. path \in Seq(Names) /\ NewIn(fs, path)
      BY <1>2, NewInParent
    <3> HIDE DEF path
    <3> QED BY <2>2, <3>1, FollowsLink
  <2> HIDE DEF inum, fs2, path
  <2>5. result.rc = inum /\ inum # -1 /\ result.fs = Linked(fs, target, name, parent)
    BY <2>1, <2>3, <2>4, EnterResult
  <2> HIDE DEF result
  <2>6. Good(n, m, fs, result)
    BY <2>2, <2>5, <2>7 DEF Good
  <2> QED BY <2>6 DEF result, path
<1> QED BY <1>1, <1>2

LEMMA CreateGood ==
  ASSUME NEW n, NEW m, NEW fs \in FsType(n, m), Sound(fs), n \in Nat,
         MaxUsed \in Nat, MaxUsed >= 2,
         NEW parent \in fs.dirs, NEW name \in Names, NEW ftype \in {"f", "d"},
         NEW inum \in FreeBits(fs.ibitmap) \cup {None},
         NEW fblock \in FreeBits(fs.dbitmap) \cup {None}
  PROVE  Good(n, m, fs, Enter(CreateFile(fs, parent, name, ftype, inum, fblock),
                              Append(parent, name), ftype))
<1> DEFINE path == Append(parent, name)
           pinum == fs.nameToInum[parent]
           created == CreateFile(fs, parent, name, ftype, inum, fblock)
           fsf == AddDirEntry(NewFile(fs, inum), parent, name, inum)
           fsd == AddDirEntry(NewDir(fs, inum, pinum, fblock), parent, name, inum)
           result == Enter(created, path, ftype)
<1>1. CASE ~MayAdd(fs, parent, name) \/ inum = None
  <2>1. created = Failed(fs)
    BY <1>1 DEF CreateFile
  <2>2. Good(n, m, fs, Failed(fs))
    BY FailedGood, FollowsItself
  <2> QED BY <2>1, <2>2, EnterFailed
<1>2. CASE MayAdd(fs, parent, name) /\ inum # None /\ ftype = "d" /\ fblock = None
  <2>1. created = Failed(Returned(fs, inum))
    BY <1>2 DEF CreateFile, Returned
  <2>2. /\ Returned(fs, inum) \in FsType(n, m) /\ Sound(Returned(fs, inum))
        /\ \A i \in Upto(n) : Returned(fs, inum).inodes[i].refCnt = fs.inodes[i].refCnt
        /\ SameTables(fs, Returned(fs, inum)) /\ SameContent(fs, Returned(fs, inum), Live(fs))
    BY <1>2, ReturnKeeps
  <2>4. Follows(fs, Returned(fs, inum))
    BY <2>2, FollowsSame
  <2>3. Good(n, m, fs, Failed(Returned(fs, inum)))
    BY <2>2, <2>4, FailedGood
  <2> QED BY <2>1, <2>3, EnterFailed
<1>3. CASE MayAdd(fs, parent, name) /\ inum # None /\ ftype = "f"
  <2>1. created = [rc |-> inum, fs |-> fsf]
    BY <1>3 DEF CreateFile, NewFile
  <2>2. inum \in FreeBits(fs.ibitmap)
    BY <1>3
  <2>3. /\ Created(fs, name, parent, inum) \in FsType(n, m)
        /\ Sound(Created(fs, name, parent, inum))
        /\ CountsGrow(n, fs, Created(fs, name, parent, inum))
        /\ Grown(fs, Created(fs, name, parent, inum), path, inum, "f")
        /\ Content(Created(fs, name, parent, inum), inum) = ""
    BY <1>3, <2>2, CreateKeeps
  <2>4. Created(fs, name, parent, inum) = Entered(fsf, inum, path, "f")
    BY DEF Created
  <2>5. inum \in Upto(n) /\ inum \notin Live(fs)
    BY <2>2, FreeInodeUnused
  <2>8. Follows(fs, Created(fs, name, parent, inum))
    <3>1. path \in Seq(Names) /\ NewIn(fs, path)
      BY <1>3, NewInParent
    <3> HIDE DEF path
    <3> QED BY <2>3, <2>5, <3>1, FollowsCreat
  <2> HIDE DEF fsf, path, created
  <2>6. result.rc = inum /\ inum # -1 /\ result.fs = Created(fs, name, parent, inum)
    BY <1>3, <2>1, <2>4, <2>5, EnterResult
  <2> HIDE DEF result
  <2>7. Good(n, m, fs, result)
    BY <2>3, <2>6, <2>8 DEF Good
  <2> QED BY <2>7 DEF result, path, created
<1>4. CASE MayAdd(fs, parent, name) /\ inum # None /\ ftype = "d" /\ fblock # None
  <2>1. created = [rc |-> inum, fs |-> fsd]
    BY <1>4 DEF CreateFile, NewDir
  <2>2. inum \in FreeBits(fs.ibitmap) /\ fblock \in FreeBits(fs.dbitmap)
    BY <1>4
  <2>3. /\ Made(fs, name, parent, inum, fblock) \in FsType(n, m)
        /\ Sound(Made(fs, name, parent, inum, fblock))
        /\ CountsGrow(n, fs, Made(fs, name, parent, inum, fblock))
        /\ Grown(fs, Made(fs, name, parent, inum, fblock), path, inum, "d")
    BY <1>4, <2>2, MakeKeeps
  <2>4. Made(fs, name, parent, inum, fblock) = Entered(fsd, inum, path, "d")
    BY DEF Made
  <2>5. inum \in Upto(n)
    BY <2>2, FreeInodeUnused
  <2>8. Follows(fs, Made(fs, name, parent, inum, fblock))
    <3>1. NewIn(fs, path)
      BY <1>4, NewInParent
    <3> HIDE DEF path
    <3> QED BY <2>3, <3>1, FollowsMkdir
  <2> HIDE DEF fsd, path, created
  <2>6. result.rc = inum /\ inum # -1 /\ result.fs = Made(fs, name, parent, inum, fblock)
    BY <1>4, <2>1, <2>4, <2>5, EnterResult
  <2> HIDE DEF result
  <2>7. Good(n, m, fs, result)
    BY <2>3, <2>6, <2>8 DEF Good
  <2> QED BY <2>7 DEF result, path, created
<1> QED BY <1>1, <1>2, <1>3, <1>4

AllGood(n, m, fs, results) == \A result \in results : Good(n, m, fs, result)

LEMMA AllocFree ==
  ASSUME NEW k \in Nat, NEW bmap, DOMAIN bmap = Upto(k)
  PROVE  Alloc(bmap) \in FreeBits(bmap) \cup {None}
<1>1. FreeBits(bmap) \in SUBSET Nat
  BY DEF FreeBits, Upto
<1>2. CASE FreeBits(bmap) = {}
  BY <1>2 DEF Alloc
<1>3. CASE FreeBits(bmap) # {}
  BY <1>1, <1>3, MinIn DEF Alloc
<1> QED BY <1>2, <1>3

LEMMA AnyIsFree ==
  ASSUME NEW bmap, NEW b \in AnyFree(bmap)
  PROVE  b \in FreeBits(bmap) \cup {None}
BY DEF AnyFree

\* The operations of vsfs.py.
LEMMA ResultsGood ==
  ASSUME NEW n \in Nat, NEW m \in Nat, NEW fs \in FsType(n, m), Sound(fs),
         MaxUsed \in Nat, MaxUsed >= 2
  PROVE  /\ AllGood(n, m, fs, DoAppend(fs)) /\ AllGood(n, m, fs, DoDelete(fs))
         /\ AllGood(n, m, fs, DoLink(fs))
         /\ AllGood(n, m, fs, DoCreate(fs, "f")) /\ AllGood(n, m, fs, DoCreate(fs, "d"))
<1>1. DOMAIN fs.ibitmap = Upto(n) /\ DOMAIN fs.dbitmap = Upto(m)
  BY TypeParts
<1>2. /\ Alloc(fs.ibitmap) \in FreeBits(fs.ibitmap) \cup {None}
      /\ Alloc(fs.dbitmap) \in FreeBits(fs.dbitmap) \cup {None}
  BY <1>1, AllocFree
<1>3. AllGood(n, m, fs, DoAppend(fs))
  BY <1>2, WriteGood DEF AllGood, DoAppend
<1>4. AllGood(n, m, fs, DoDelete(fs))
  BY DeleteGood DEF AllGood, DoDelete
<1>5. AllGood(n, m, fs, DoLink(fs))
  BY LinkGood DEF AllGood, DoLink
<1>6. ASSUME NEW ftype \in {"f", "d"} PROVE AllGood(n, m, fs, DoCreate(fs, ftype))
  BY <1>2, CreateGood DEF AllGood, DoCreate
<1> QED BY <1>3, <1>4, <1>5, <1>6

\* The operations of fsck.py, which take any free inode and block.
LEMMA FsckResultsGood ==
  ASSUME NEW n \in Nat, NEW m \in Nat, NEW fs \in FsType(n, m), Sound(fs),
         MaxUsed \in Nat, MaxUsed >= 2
  PROVE  /\ AllGood(n, m, fs, FsckAppend(fs)) /\ AllGood(n, m, fs, FsckDelete(fs))
         /\ AllGood(n, m, fs, FsckLink(fs))
         /\ AllGood(n, m, fs, FsckCreate(fs, "f")) /\ AllGood(n, m, fs, FsckCreate(fs, "d"))
<1>1. AllGood(n, m, fs, FsckAppend(fs))
  BY AnyIsFree, WriteGood DEF AllGood, FsckAppend
<1>2. AllGood(n, m, fs, FsckDelete(fs))
  <2> SUFFICES ASSUME NEW k \in {1} \cap DOMAIN fs.files
               PROVE Good(n, m, fs, [rc |-> 0, fs |-> DeleteFile(fs, Head(fs.files))])
    BY DEF AllGood, FsckDelete
  <2>1. Head(fs.files) \in ToSet(fs.files)
    <3>1. fs.files \in Seq(Seq(Names)) /\ fs.files # <<>>
      BY TypeParts
    <3>2. Head(fs.files) = fs.files[1] /\ 1 \in DOMAIN fs.files
      BY <3>1
    <3> QED BY <3>2 DEF ToSet
  <2> QED BY <2>1, DeleteGood
<1>3. AllGood(n, m, fs, FsckLink(fs))
  BY ResultsGood DEF FsckLink
<1>4. ASSUME NEW ftype \in {"f", "d"} PROVE AllGood(n, m, fs, FsckCreate(fs, ftype))
  <2> SUFFICES ASSUME NEW parent \in fs.dirs, NEW name \in Names, NEW inum \in AnyFree(fs.ibitmap),
                      NEW fblock \in IF ftype = "d" THEN AnyFree(fs.dbitmap) ELSE {None}
               PROVE  Good(n, m, fs, Enter(CreateFile(fs, parent, name, ftype, inum, fblock),
                                           Append(parent, name), ftype))
    BY DEF AllGood, FsckCreate
  <2>1. inum \in FreeBits(fs.ibitmap) \cup {None} /\ fblock \in FreeBits(fs.dbitmap) \cup {None}
    BY AnyIsFree
  <2> QED BY <2>1, CreateGood
<1> QED BY <1>1, <1>2, <1>3, <1>4

-----------------------------------------------------------------------------
(* The invariant.                                                          *)

LEMMA InitHolds ==
  ASSUME VSFSConstants, Init
  PROVE  IInv
<1> DEFINE n == input.numInodes
           m == input.numData
<1>1. /\ input \in Inputs /\ n \in Nat \ {0} /\ m \in Nat \ {0} /\ input.numRequests \in Nat
      /\ MaxUsed \in Nat /\ MaxUsed >= 2
  BY DEF VSFSConstants, Init
<1>2. phase = "run" /\ self.fs = Fs(n, m) /\ self.left = input.numRequests
  BY DEF Init
<1> HIDE DEF n, m
<1>3. /\ self.fs \in FsType(n, m) /\ Sound(self.fs)
      /\ \A i \in Upto(n) : self.fs.inodes[i].refCnt \in 0 .. 2
  BY <1>1, <1>2, NewIsSound
<1>4. DOMAIN self.fs.inodes = Upto(n)
  BY <1>3, TypeParts
<1>5. \A i \in DOMAIN self.fs.inodes :
        self.fs.inodes[i].refCnt \in 0 .. 2 + input.numRequests - self.left
  BY <1>1, <1>2, <1>3, <1>4
<1> QED BY <1>1, <1>2, <1>3, <1>5 DEF IInv, n, m

LEMMA AttemptKeeps ==
  ASSUME VSFSConstants, IInv, NEW results,
         AllGood(input.numInodes, input.numData, self.fs, results), Attempt(results)
  PROVE  IInv'
<1> DEFINE n == input.numInodes
           m == input.numData
           k == 2 + input.numRequests - self.left
<1>1. PICK result \in results :
        /\ self' = [fs |-> result.fs,
                    left |-> IF result.rc = -1 THEN self.left ELSE self.left - 1]
        /\ phase' \in {"run", "exit"}
  BY DEF Attempt
<1>2. input' = input /\ self.left > 0
  BY DEF Attempt
<1>3. Good(n, m, self.fs, result)
  BY DEF AllGood
<1>4. /\ input \in Inputs /\ self.fs \in FsType(n, m)
      /\ self.left \in 0 .. input.numRequests /\ input.numRequests \in Nat
      /\ \A i \in DOMAIN self.fs.inodes : self.fs.inodes[i].refCnt \in 0 .. k
  BY DEF IInv, VSFSConstants
<1>5. /\ self'.fs = result.fs
      /\ self'.left = IF result.rc = -1 THEN self.left ELSE self.left - 1
  BY <1>1
<1>6. self'.left \in 0 .. input.numRequests
  BY <1>2, <1>4, <1>5
<1>7. result.fs \in FsType(n, m) /\ Sound(result.fs)
  BY <1>3 DEF Good
<1>8. DOMAIN result.fs.inodes = Upto(n) /\ DOMAIN self.fs.inodes = Upto(n)
  BY <1>4, <1>7, TypeParts
<1>9. k \in Nat /\ k >= 2
  BY <1>4
<1>10. CASE result.rc = -1
  <2>1. \A i \in Upto(n) : result.fs.inodes[i].refCnt \in 0 .. k
    BY <1>3, <1>4, <1>8, <1>10 DEF Good
  <2>2. self'.left = self.left
    BY <1>5, <1>10
  <2> HIDE DEF n, m
  <2> QED BY <1>1, <1>2, <1>4, <1>5, <1>6, <1>7, <1>8, <2>1, <2>2 DEF IInv, n, m
<1>11. CASE result.rc # -1
  <2> HIDE DEF n, m, k
  <2>1. \A i \in Upto(n) : result.fs.inodes[i].refCnt \in 0 .. k + 1
    BY <1>3, <1>4, <1>8, <1>9 DEF Good, CountsGrow
  <2>2. 2 + input.numRequests - self'.left = k + 1
    BY <1>4, <1>5, <1>11 DEF k
  <2> QED BY <1>1, <1>2, <1>4, <1>5, <1>6, <1>7, <1>8, <2>1, <2>2 DEF IInv, n, m
<1> QED BY <1>10, <1>11

LEMMA NextKeeps ==
  ASSUME VSFSConstants, IInv, [Next]_vars
  PROVE  IInv'
<1> DEFINE fs == self.fs
           n == input.numInodes
           m == input.numData
<1>1. /\ n \in Nat /\ m \in Nat /\ fs \in FsType(n, m) /\ Sound(fs)
      /\ MaxUsed \in Nat /\ MaxUsed >= 2
  BY DEF IInv, VSFSConstants
<1>2. /\ AllGood(n, m, fs, DoAppend(fs)) /\ AllGood(n, m, fs, DoDelete(fs))
      /\ AllGood(n, m, fs, DoLink(fs))
      /\ AllGood(n, m, fs, DoCreate(fs, "f")) /\ AllGood(n, m, fs, DoCreate(fs, "d"))
  <2> HIDE DEF n, m, fs
  <2> QED BY <1>1, ResultsGood
<1>3. CASE AppendToFile
  BY <1>2, <1>3, AttemptKeeps DEF AppendToFile
<1>4. CASE Delete
  BY <1>2, <1>4, AttemptKeeps DEF Delete
<1>5. CASE MakeLink
  BY <1>2, <1>5, AttemptKeeps DEF MakeLink
<1>6. CASE Create
  BY <1>2, <1>6, AttemptKeeps DEF Create
<1>7. CASE MakeDir
  BY <1>2, <1>7, AttemptKeeps DEF MakeDir
<1>8. CASE Finish
  BY <1>8 DEF Finish, IInv
<1>9. CASE UNCHANGED vars
  BY <1>9 DEF vars, IInv
<1> QED BY <1>3, <1>4, <1>5, <1>6, <1>7, <1>8, <1>9 DEF Next, Step, Ended

\* What vsfs.py promises of its data: every field keeps its type, and no
\* reference count grows beyond the requests (vsfs.py:122-256).
THEOREM TypeCorrect ==
  ASSUME VSFSConstants
  PROVE  Spec => []TypeOK
<1>1. IInv => TypeOK
  <2> SUFFICES ASSUME IInv PROVE TypeOK
    OBVIOUS
  <2> DEFINE n == input.numInodes
             m == input.numData
             fs == self.fs
  <2>1. /\ fs \in FsType(n, m) /\ input.numRequests \in Nat
        /\ self.left \in 0 .. input.numRequests
        /\ \A i \in DOMAIN fs.inodes : fs.inodes[i].refCnt \in 0 .. 2 + input.numRequests - self.left
    BY DEF IInv, VSFSConstants
  <2>2. /\ fs.ibitmap \in [0 .. n - 1 -> {0, 1}] /\ fs.dbitmap \in [0 .. m - 1 -> {0, 1}]
        /\ fs.inodes \in [0 .. n - 1 -> InodeType(m)] /\ DOMAIN fs.inodes = 0 .. n - 1
        /\ fs.data \in [0 .. m - 1 -> BlockType(n)]
    BY <2>1, TypeParts DEF Upto
  <2> HIDE DEF fs, n, m
  <2>3. fs.inodes \in [0 .. n - 1 ->
          [ftype : {"f", "d", "free"}, addr : {None} \cup 0 .. m - 1,
           refCnt : 0 .. 2 * input.numRequests + 2]]
    <3>1. \A i \in 0 .. n - 1 : /\ fs.inodes[i] \in InodeType(m)
                                /\ fs.inodes[i].refCnt \in 0 .. 2 * input.numRequests + 2
      <4>1. \A x \in 0 .. 2 + input.numRequests - self.left : x \in 0 .. 2 * input.numRequests + 2
        BY <2>1
      <4>2. \A i \in 0 .. n - 1 :
              fs.inodes[i].refCnt \in 0 .. 2 + input.numRequests - self.left
        BY <2>1, <2>2
      <4>3. \A i \in 0 .. n - 1 : fs.inodes[i] \in InodeType(m)
        BY <2>2
      <4> QED BY <4>1, <4>2, <4>3
    <3>2. \A i \in 0 .. n - 1 :
            fs.inodes[i] \in [ftype : {"f", "d", "free"}, addr : {None} \cup 0 .. m - 1,
                              refCnt : 0 .. 2 * input.numRequests + 2]
      BY <3>1 DEF InodeType, Upto
    <3> QED BY <3>2, <2>2
  <2>4. \A b \in DOMAIN fs.data : fs.data[b].ftype \in {"f", "d", "free"}
    BY <2>2 DEF BlockType
  <2> QED BY <2>1, <2>2, <2>3, <2>4 DEF TypeOK, IInv, fs, n, m
<1> QED BY <1>1, InitHolds, NextKeeps, PTL DEF Spec

-----------------------------------------------------------------------------
(* fsck.py: what is built before it is corrupted.                          *)

FsckConstants ==
  /\ VSFSConstants
  /\ Inputs \subseteq [numInodes : Nat, numData : Nat, numRequests : Nat,
                       dontCorrupt : BOOLEAN, whichCorrupt : Int]

Intact == phase # "end" \/ input.dontCorrupt

FsckIInv ==
  /\ Intact => /\ input \in Inputs
               /\ self.fs \in FsType(input.numInodes, input.numData) /\ Sound(self.fs)
  /\ phase = "corrupt" => ~input.dontCorrupt

LEMMA FsckInitHolds ==
  ASSUME FsckConstants, Init
  PROVE  FsckIInv
<1>1. IInv
  BY InitHolds DEF FsckConstants
<1>2. phase # "corrupt"
  BY DEF Init
<1> QED BY <1>1, <1>2 DEF FsckIInv, IInv

LEMMA FsckAttemptKeeps ==
  ASSUME FsckConstants, FsckIInv, NEW results,
         AllGood(input.numInodes, input.numData, self.fs, results), Attempt(results)
  PROVE  FsckIInv'
<1> DEFINE n == input.numInodes
           m == input.numData
<1>1. PICK result \in results :
        /\ self' = [fs |-> result.fs,
                    left |-> IF result.rc = -1 THEN self.left ELSE self.left - 1]
        /\ phase' \in {"run", "exit"}
  BY DEF Attempt
<1>2. input' = input /\ input \in Inputs
  BY DEF Attempt, FsckIInv, Intact
<1>3. self'.fs \in FsType(n, m) /\ Sound(self'.fs)
  BY <1>1 DEF AllGood, Good
<1> QED BY <1>1, <1>2, <1>3 DEF FsckIInv, Intact

\* A corruption is the end, of a run with dontCorrupt off.
LEMMA CorruptKeeps ==
  ASSUME FsckConstants, FsckIInv, NEW num,
         phase = "corrupt", phase' = "end", input' = [input EXCEPT !.whichCorrupt = num]
  PROVE  FsckIInv'
<1>2. input \in Inputs /\ ~input.dontCorrupt
  BY DEF FsckIInv, Intact
<1>3. input'.dontCorrupt = input.dontCorrupt
  <2>1. input \in [numInodes : Nat, numData : Nat, numRequests : Nat,
                   dontCorrupt : BOOLEAN, whichCorrupt : Int]
    BY <1>2 DEF FsckConstants
  <2> QED BY <2>1
<1> QED BY <1>2, <1>3 DEF FsckIInv, Intact

LEMMA FsckNextKeeps ==
  ASSUME FsckConstants, FsckIInv, [FsckNext]_vars
  PROVE  FsckIInv'
<1> DEFINE fs == self.fs
           n == input.numInodes
           m == input.numData
<1>1. ASSUME phase = "run"
      PROVE  /\ AllGood(n, m, fs, FsckAppend(fs)) /\ AllGood(n, m, fs, FsckDelete(fs))
             /\ AllGood(n, m, fs, FsckLink(fs))
             /\ AllGood(n, m, fs, FsckCreate(fs, "f")) /\ AllGood(n, m, fs, FsckCreate(fs, "d"))
  <2>1. /\ n \in Nat /\ m \in Nat /\ fs \in FsType(n, m) /\ Sound(fs)
        /\ MaxUsed \in Nat /\ MaxUsed >= 2
    BY <1>1 DEF FsckIInv, Intact, FsckConstants, VSFSConstants
  <2> HIDE DEF n, m, fs
  <2> QED BY <2>1, FsckResultsGood
<1>2. ASSUME NEW results, Attempt(results) PROVE phase = "run"
  BY <1>2 DEF Attempt
<1>3. CASE Attempt(FsckAppend(self.fs))
  BY <1>1, <1>2, <1>3, FsckAttemptKeeps
<1>4. CASE Attempt(FsckDelete(self.fs))
  BY <1>1, <1>2, <1>4, FsckAttemptKeeps
<1>5. CASE Attempt(FsckLink(self.fs))
  BY <1>1, <1>2, <1>5, FsckAttemptKeeps
<1>6. CASE Attempt(FsckCreate(self.fs, "f"))
  BY <1>1, <1>2, <1>6, FsckAttemptKeeps
<1>7. CASE Attempt(FsckCreate(self.fs, "d"))
  BY <1>1, <1>2, <1>7, FsckAttemptKeeps
<1>8. CASE Built
  BY <1>8 DEF Built, FsckIInv, Intact
<1>9. CASE FlipDataBit \/ FlipInodeBit
  BY <1>9, CorruptKeeps DEF CorruptBy, FlipDataBit, FlipInodeBit
<1>10. CASE ChangeRefCnt(2, "f") \/ ChangeRefCnt(8, "d")
  BY <1>10, CorruptKeeps DEF CorruptBy, ChangeRefCnt
<1>11. CASE MakeOrphan(3, "f") \/ MakeOrphan(9, "d")
  BY <1>11, CorruptKeeps DEF CorruptBy, MakeOrphan
<1>12. CASE PointToDeadBlock(4, "f") \/ PointToDeadBlock(10, "d")
  BY <1>12, CorruptKeeps DEF CorruptBy, PointToDeadBlock
<1>13. CASE SwitchType(5, "f", "d") \/ SwitchType(11, "d", "f")
  BY <1>13, CorruptKeeps DEF CorruptBy, SwitchType
<1>14. CASE ReferToFreeInode \/ ReferToOtherName
  <2>1. CASE ReferToFreeInode
    <3>1. /\ phase = "corrupt" /\ phase' = "end"
          /\ input' = [input EXCEPT !.whichCorrupt = 6]
      BY <2>1, Zenon DEF ReferToFreeInode, CorruptBy
    <3> QED BY <3>1, CorruptKeeps
  <2>2. CASE ReferToOtherName
    <3>1. /\ phase = "corrupt" /\ phase' = "end"
          /\ input' = [input EXCEPT !.whichCorrupt = 7]
      BY <2>2, Zenon DEF ReferToOtherName, CorruptBy
    <3> QED BY <3>1, CorruptKeeps
  <2> QED BY <1>14, <2>1, <2>2
<1>15. CASE NothingToPick
  BY <1>15 DEF NothingToPick, FsckIInv, Intact
<1>16. CASE UNCHANGED vars
  BY <1>16 DEF vars, FsckIInv, Intact
<1> QED BY <1>3, <1>4, <1>5, <1>6, <1>7, <1>8, <1>9, <1>10, <1>11, <1>12, <1>13, <1>14,
           <1>15, <1>16 DEF FsckNext, FsckStep, FsckEnded

-----------------------------------------------------------------------------
(* Every path of the workload leads from the root to its inode.            *)

Prefix(path, k) == SubSeq(path, 1, k)

LEMMA PrefixParts ==
  ASSUME NEW path \in Seq(Names), NEW k \in 1 .. Len(path)
  PROVE  /\ Prefix(path, k) # <<>>
         /\ Front(Prefix(path, k)) = Prefix(path, k - 1)
         /\ Last(Prefix(path, k)) = path[k]
<1>1. Len(path) \in Nat /\ k \in Nat /\ k >= 1 /\ \A j \in 1 .. Len(path) : path[j] \in Names
  BY LenProperties, ElementOfSeq
<1>2. ASSUME NEW l \in 0 .. Len(path)
      PROVE  /\ Prefix(path, l) \in Seq(Names) /\ Len(Prefix(path, l)) = l
             /\ \A j \in 1 .. l : Prefix(path, l)[j] = path[j]
  <2>1. 1 \in Int /\ l \in Int /\ \A j \in 1 .. l : path[j] \in Names
    BY <1>1
  <2>2. /\ SubSeq(path, 1, l) \in Seq(Names)
        /\ Len(SubSeq(path, 1, l)) = IF 1 <= l THEN l - 1 + 1 ELSE 0
        /\ \A j \in 1 .. l - 1 + 1 : SubSeq(path, 1, l)[j] = path[1 + j - 1]
    BY <2>1, SubSeqProperties
  <2> QED BY <2>2, <1>1 DEF Prefix
<1> DEFINE p == Prefix(path, k)
           q == Prefix(path, k - 1)
<1>3. /\ p \in Seq(Names) /\ Len(p) = k /\ \A j \in 1 .. k : p[j] = path[j]
      /\ q \in Seq(Names) /\ Len(q) = k - 1 /\ \A j \in 1 .. k - 1 : q[j] = path[j]
  BY <1>1, <1>2
<1> HIDE DEF p, q
<1>4. p # <<>> /\ Last(p) = path[k]
  BY <1>1, <1>3 DEF Last
<1>5. Front(p) = q
  <2>1. Front(p) = SubSeq(p, 1, k - 1)
    BY <1>3 DEF Front
  <2>2. 1 \in Int /\ k - 1 \in Int /\ \A j \in 1 .. k - 1 : p[j] \in Names
    BY <1>1, <1>3
  <2>3. /\ SubSeq(p, 1, k - 1) \in Seq(Names)
        /\ Len(SubSeq(p, 1, k - 1)) = IF 1 <= k - 1 THEN k - 1 - 1 + 1 ELSE 0
        /\ \A j \in 1 .. k - 1 - 1 + 1 : SubSeq(p, 1, k - 1)[j] = p[1 + j - 1]
    BY <2>2, SubSeqProperties
  <2>4. /\ Len(SubSeq(p, 1, k - 1)) = k - 1
        /\ \A j \in 1 .. k - 1 : SubSeq(p, 1, k - 1)[j] = q[j]
    BY <2>3, <1>1, <1>3
  <2> QED BY <2>1, <2>3, <2>4, <1>3, SeqEqual
<1> QED BY <1>4, <1>5 DEF p, q

\* The ends of a path.
LEMMA PrefixEnds ==
  ASSUME NEW path \in Seq(Names)
  PROVE  Prefix(path, 0) = <<>> /\ Prefix(path, Len(path)) = path
<1>1. Len(path) \in Nat /\ \A j \in 1 .. Len(path) : path[j] \in Names
  BY LenProperties, ElementOfSeq
<1>2. ASSUME NEW l \in {0, Len(path)}
      PROVE  /\ Prefix(path, l) \in Seq(Names) /\ Len(Prefix(path, l)) = l
             /\ \A j \in 1 .. l : Prefix(path, l)[j] = path[j]
  <2>1. 1 \in Int /\ l \in Int /\ \A j \in 1 .. l : path[j] \in Names
    BY <1>1
  <2>2. /\ SubSeq(path, 1, l) \in Seq(Names)
        /\ Len(SubSeq(path, 1, l)) = IF 1 <= l THEN l - 1 + 1 ELSE 0
        /\ \A j \in 1 .. l - 1 + 1 : SubSeq(path, 1, l)[j] = path[1 + j - 1]
    BY <2>1, SubSeqProperties
  <2> QED BY <2>2, <1>1 DEF Prefix
<1>3. Prefix(path, 0) = <<>>
  BY <1>2, EmptySeq
<1>4. Prefix(path, Len(path)) = path
  BY <1>2, SeqEqual
<1> QED BY <1>3, <1>4

LEMMA PrefixDirs ==
  ASSUME NEW n, NEW m, NEW fs \in FsType(n, m), Sound(fs),
         NEW path \in fs.dirs \cup ToSet(fs.files)
  PROVE  /\ path \in Seq(Names)
         /\ \A k \in 0 .. Len(path) - 1 : Prefix(path, k) \in fs.dirs
<1> DEFINE L == Len(path)
           S == {j \in Nat : j < L => Prefix(path, L - 1 - j) \in fs.dirs}
<1>1. path \in Seq(Names) /\ L \in Nat
  BY TypeParts, LenProperties
<1>2. ASSUME NEW k \in 1 .. L, Prefix(path, k) \in fs.dirs \cup ToSet(fs.files)
      PROVE  Prefix(path, k - 1) \in fs.dirs
  <2>1. Prefix(path, k) # <<>> /\ Front(Prefix(path, k)) = Prefix(path, k - 1)
    BY <1>1, PrefixParts
  <2> QED BY <1>2, <2>1 DEF Sound, PathsLead
<1>3. 0 \in S
  <2>1. CASE L = 0
    BY <2>1
  <2>2. CASE L # 0
    <3>1. L \in 1 .. L /\ Prefix(path, L) \in fs.dirs \cup ToSet(fs.files)
      BY <2>2, <1>1, PrefixEnds
    <3>2. Prefix(path, L - 1) \in fs.dirs
      BY <3>1, <1>2
    <3>3. L - 1 - 0 = L - 1
      BY <1>1
    <3> QED BY <3>2, <3>3
  <2> QED BY <2>1, <2>2
<1>4. ASSUME NEW j \in Nat, j \in S PROVE j + 1 \in S
  <2> SUFFICES ASSUME j + 1 < L PROVE Prefix(path, L - 1 - (j + 1)) \in fs.dirs
    OBVIOUS
  <2>1. L - 1 - j \in 1 .. L /\ L - 1 - (j + 1) = (L - 1 - j) - 1
    BY <1>1
  <2>2. Prefix(path, L - 1 - j) \in fs.dirs
    BY <1>1, <1>4
  <2>3. Prefix(path, (L - 1 - j) - 1) \in fs.dirs
    <3> HIDE DEF L
    <3> QED BY <2>1, <2>2, <1>2
  <2> QED BY <2>1, <2>3
<1> HIDE DEF S
<1>5. Nat \subseteq S
  BY <1>3, <1>4, Upwards
<1>6. ASSUME NEW k \in 0 .. L - 1 PROVE Prefix(path, k) \in fs.dirs
  <2>1. L - 1 - k \in Nat /\ L - 1 - k < L /\ L - 1 - (L - 1 - k) = k
    BY <1>1
  <2>2. Prefix(path, L - 1 - (L - 1 - k)) \in fs.dirs
    BY <2>1, <1>5 DEF S
  <2> QED BY <2>1, <2>2
<1> QED BY <1>1, <1>6

\* One step of Lookup(), and all of them.
StepFrom(fs, path, x, k) ==
  LET hits == {e \in IF x \in Directories(fs) THEN ToSet(EntriesOf(fs, x)) ELSE {} :
                 e[1] = path[k]}
  IN IF hits = {} THEN None ELSE (CHOOSE e \in hits : TRUE)[2]

IsWalk(fs, path, at) ==
  at = [k \in 0 .. Len(path) |->
          IF k = 0 THEN ROOT ELSE StepFrom(fs, path, at[k - 1], k)]

LEMMA LookupWalks ==
  ASSUME NEW fs, NEW path
  PROVE  Lookup(fs, path) = (CHOOSE at : IsWalk(fs, path, at))[Len(path)]
BY Zenon DEF Lookup, IsWalk, StepFrom

LEMMA StepLeads ==
  ASSUME NEW n, NEW m, NEW fs \in FsType(n, m), Sound(fs),
         NEW path \in fs.dirs \cup ToSet(fs.files), NEW k \in 1 .. Len(path)
  PROVE  StepFrom(fs, path, fs.nameToInum[Prefix(path, k - 1)], k) =
           fs.nameToInum[Prefix(path, k)]
<1> DEFINE x == fs.nameToInum[Prefix(path, k - 1)]
           y == fs.nameToInum[Prefix(path, k)]
           hits == {e \in IF x \in Directories(fs) THEN ToSet(EntriesOf(fs, x)) ELSE {} :
                      e[1] = path[k]}
<1>1. path \in Seq(Names) /\ Len(path) \in Nat
  BY PrefixDirs, LenProperties
<1>2. Prefix(path, k - 1) \in fs.dirs /\ Prefix(path, k) \in fs.dirs \cup ToSet(fs.files)
  <2>1. \A j \in 0 .. Len(path) - 1 : Prefix(path, j) \in fs.dirs
    BY PrefixDirs
  <2>2. Prefix(path, Len(path)) = path
    BY <1>1, PrefixEnds
  <2>3. k - 1 \in 0 .. Len(path) - 1 /\ (k = Len(path) \/ k \in 0 .. Len(path) - 1)
    BY <1>1
  <2> QED BY <2>1, <2>2, <2>3
<1>3. x \in Directories(fs)
  BY <1>2 DEF Sound, Named
<1>4. <<path[k], y>> \in Entry(fs, x)
  <2>1. /\ Prefix(path, k) # <<>> /\ Front(Prefix(path, k)) = Prefix(path, k - 1)
        /\ Last(Prefix(path, k)) = path[k]
    BY <1>1, PrefixParts
  <2>2. <<Last(Prefix(path, k)), fs.nameToInum[Prefix(path, k)]>> \in
          Entry(fs, fs.nameToInum[Front(Prefix(path, k))])
    BY <1>2, <2>1 DEF Sound, PathsLead
  <2> QED BY <2>1, <2>2
<1> HIDE DEF x, y
<1>5. \A e1, e2 \in Entry(fs, x) : e1[1] = e2[1] => e1 = e2
  <2>1. Owned(fs) /\ Lists(fs)
    BY DEF Sound
  <2> QED BY <2>1, <1>3, EntryNames
<1>6. hits = {<<path[k], y>>}
  <2>1. <<path[k], y>>[1] = path[k]
    OBVIOUS
  <2> QED BY <2>1, <1>3, <1>4, <1>5 DEF Entry
<1>7. StepFrom(fs, path, x, k) = IF hits = {} THEN None ELSE (CHOOSE e \in hits : TRUE)[2]
  BY DEF StepFrom
<1> HIDE DEF hits
<1>8. StepFrom(fs, path, x, k) = <<path[k], y>>[2]
  BY <1>6, <1>7
<1> QED BY <1>8 DEF x, y

LEMMA PathLookup ==
  ASSUME NEW n, NEW m, NEW fs \in FsType(n, m), Sound(fs),
         NEW path \in fs.dirs \cup ToSet(fs.files)
  PROVE  Lookup(fs, path) = fs.nameToInum[path]
<1> DEFINE L == Len(path)
           g == [k \in 0 .. L |-> fs.nameToInum[Prefix(path, k)]]
           at == CHOOSE f : IsWalk(fs, path, f)
           S == {k \in Nat : k <= L => at[k] = fs.nameToInum[Prefix(path, k)]}
<1>1. path \in Seq(Names) /\ L \in Nat
  BY PrefixDirs, LenProperties
<1>2. Prefix(path, 0) = <<>> /\ Prefix(path, L) = path
  BY <1>1, PrefixEnds
<1>3. fs.nameToInum[Prefix(path, 0)] = ROOT
  BY <1>2 DEF Sound, Named
<1>4. \A k \in 1 .. L :
        StepFrom(fs, path, fs.nameToInum[Prefix(path, k - 1)], k) = fs.nameToInum[Prefix(path, k)]
  BY StepLeads
<1>5. IsWalk(fs, path, g)
  <2>1. \A k \in 0 .. L :
          g[k] = IF k = 0 THEN ROOT ELSE StepFrom(fs, path, g[k - 1], k)
    BY <1>1, <1>3, <1>4
  <2> QED BY <2>1 DEF IsWalk
<1>6. IsWalk(fs, path, at)
  BY <1>5
<1> HIDE DEF at, g
<1>7. \A k \in 0 .. L : at[k] = IF k = 0 THEN ROOT ELSE StepFrom(fs, path, at[k - 1], k)
  BY <1>6 DEF IsWalk
<1>8. 0 \in S
  BY <1>1, <1>3, <1>7
<1>9. ASSUME NEW k \in Nat, k \in S PROVE k + 1 \in S
  <2> SUFFICES ASSUME k + 1 <= L PROVE at[k + 1] = fs.nameToInum[Prefix(path, k + 1)]
    OBVIOUS
  <2>1. k + 1 \in 1 .. L /\ (k + 1) - 1 = k /\ k + 1 # 0 /\ k <= L
    BY <1>1
  <2>2. at[k] = fs.nameToInum[Prefix(path, k)]
    BY <1>9, <2>1
  <2>3. at[k + 1] = StepFrom(fs, path, at[k], k + 1)
    BY <2>1, <1>7
  <2> QED BY <2>1, <2>2, <2>3, <1>4
<1> HIDE DEF S
<1>10. Nat \subseteq S
  BY <1>8, <1>9, Upwards
<1>11. at[L] = fs.nameToInum[Prefix(path, L)]
  BY <1>1, <1>10 DEF S
<1> QED BY <1>2, <1>11, LookupWalks DEF at

-----------------------------------------------------------------------------
(* There are no other paths: every entry but "." and ".." is one.          *)

LEMMA SameSize ==
  ASSUME NEW S, NEW T, IsFiniteSet(S), NEW f \in [S -> T],
         \A a, b \in S : f[a] = f[b] => a = b, \A t \in T : \E a \in S : f[a] = t
  PROVE  IsFiniteSet(T) /\ Cardinality(T) = Cardinality(S)
<1>1. f \in Bijection(S, T)
  BY DEF Bijection, Injection, Surjection, IsInjective
<1>2. ExistsBijection(S, T)
  BY <1>1 DEF ExistsBijection
<1> QED BY <1>2, FS_Bijection

\* Entries by directory and position.
Slots(fs) ==
  {ref \in Directories(fs) \X (1 .. MaxUsed) : ref[2] <= Len(EntriesOf(fs, ref[1]))}
NamedSlots(fs) == {ref \in Slots(fs) : ref[2] >= 3}
DotSlots(fs, k) == {ref \in Slots(fs) : ref[2] = k}

LEMMA SlotParts ==
  ASSUME NEW n, NEW m, NEW fs \in FsType(n, m), Owned(fs), Lists(fs), MaxUsed \in Nat,
         NEW ref \in Slots(fs)
  PROVE  /\ ref = <<ref[1], ref[2]>> /\ ref[1] \in Directories(fs)
         /\ ref[2] \in 1 .. Len(EntriesOf(fs, ref[1])) /\ ref[2] \in Nat
         /\ EntriesOf(fs, ref[1])[ref[2]] \in AllNames \X Upto(n)
         /\ EntriesOf(fs, ref[1])[ref[2]] \in Entry(fs, ref[1])
         /\ EntriesOf(fs, ref[1])[ref[2]][1] \notin Dots <=> ref[2] >= 3
<1> DEFINE d == ref[1]
           k == ref[2]
           list == EntriesOf(fs, d)
<1>1. ref = <<d, k>> /\ d \in Directories(fs) /\ k \in 1 .. MaxUsed /\ k <= Len(list)
  BY DEF Slots
<1>2. list \in Seq(AllNames \X Upto(n)) /\ DOMAIN list = 1 .. Len(list) /\ Len(list) \in Nat
  BY <1>1, DirectoryBlocks, LenProperties
<1>3. k \in 1 .. Len(list)
  BY <1>1, <1>2
<1>4. list[k] \in AllNames \X Upto(n)
  <2> HIDE DEF d, k, list
  <2> QED BY <1>2, <1>3, ElementOfSeq
<1>5. list[k] \in Entry(fs, d)
  BY <1>2, <1>3 DEF Entry, ToSet
<1>6. EntryAt(fs, d, list[k])
  BY <1>1, <1>5, EntryNames
<1>7. PICK j \in 1 .. Len(list) : list[j] = list[k] /\ (list[k][1] \notin Dots <=> j >= 3)
  BY <1>6 DEF EntryAt
<1>8. j = k
  BY <1>1, <1>3, <1>7 DEF Lists, ListFits
<1> QED BY <1>1, <1>3, <1>4, <1>5, <1>7, <1>8

LEMMA SlotsFinite ==
  ASSUME NEW n \in Nat, NEW m, NEW fs \in FsType(n, m), MaxUsed \in Nat
  PROVE  IsFiniteSet(Directories(fs)) /\ IsFiniteSet(Slots(fs))
<1>1. IsFiniteSet(Upto(n)) /\ IsFiniteSet(1 .. MaxUsed)
  BY FS_Interval DEF Upto
<1>2. Directories(fs) \subseteq Upto(n)
  BY LiveParts
<1>3. IsFiniteSet(Directories(fs))
  BY <1>1, <1>2, FS_Subset
<1>4. IsFiniteSet(Directories(fs) \X (1 .. MaxUsed))
  BY <1>1, <1>3, FS_Product
<1>5. Slots(fs) \subseteq Directories(fs) \X (1 .. MaxUsed)
  BY DEF Slots
<1> QED BY <1>3, <1>4, <1>5, FS_Subset

LEMMA SlotsAreRefs ==
  ASSUME NEW n, NEW m, NEW fs \in FsType(n, m), Owned(fs), Lists(fs), EntriesLive(fs),
         MaxUsed \in Nat
  PROVE  UNION {RefsTo(fs, i) : i \in Live(fs)} = Slots(fs)
<1>1. ASSUME NEW ref \in Slots(fs) PROVE \E i \in Live(fs) : ref \in RefsTo(fs, i)
  <2>1. ref[1] \in Directories(fs) /\ EntriesOf(fs, ref[1])[ref[2]] \in Entry(fs, ref[1])
    BY SlotParts
  <2>2. EntriesOf(fs, ref[1])[ref[2]][2] \in Live(fs)
    BY <2>1 DEF EntriesLive
  <2>3. ref \in RefsTo(fs, EntriesOf(fs, ref[1])[ref[2]][2])
    BY DEF Slots, RefsTo
  <2> QED BY <2>2, <2>3
<1>2. \A i : RefsTo(fs, i) \subseteq Slots(fs)
  BY DEF Slots, RefsTo
<1> QED BY <1>1, <1>2

\* One "." and one ".." in every directory.
LEMMA DotSlotsCount ==
  ASSUME NEW n \in Nat, NEW m, NEW fs \in FsType(n, m), Owned(fs), Lists(fs),
         MaxUsed \in Nat, NEW k \in {1, 2}
  PROVE  /\ IsFiniteSet(DotSlots(fs, k))
         /\ Cardinality(DotSlots(fs, k)) = Cardinality(Directories(fs))
<1> DEFINE D == Directories(fs)
           T == DotSlots(fs, k)
           f == [d \in D |-> <<d, k>>]
<1>1. ASSUME NEW d \in D PROVE <<d, k>> \in T
  <2>1. Len(EntriesOf(fs, d)) \in 2 .. MaxUsed
    BY DEF Lists, ListFits
  <2>2. k \in 1 .. MaxUsed /\ k <= Len(EntriesOf(fs, d))
    BY <2>1
  <2> QED BY <2>2 DEF DotSlots, Slots
<1>2. ASSUME NEW t \in T PROVE t[1] \in D /\ t = <<t[1], k>>
  BY DEF DotSlots, Slots
<1>3. IsFiniteSet(D)
  BY SlotsFinite
<1> HIDE DEF D, T
<1>4. f \in [D -> T]
  BY <1>1
<1>5. \A a, b \in D : f[a] = f[b] => a = b
  OBVIOUS
<1>6. \A t \in T : \E a \in D : f[a] = t
  BY <1>2
<1> HIDE DEF f
<1>7. IsFiniteSet(T) /\ Cardinality(T) = Cardinality(D)
  BY <1>3, <1>4, <1>5, <1>6, SameSize
<1> QED BY <1>7 DEF D, T

\* A path of the workload for every directory of the disk.
LEMMA DirsCount ==
  ASSUME NEW n \in Nat, NEW m, NEW fs \in FsType(n, m), Named(fs), MaxUsed \in Nat
  PROVE  IsFiniteSet(fs.dirs) /\ Cardinality(fs.dirs) = Cardinality(Directories(fs))
<1> DEFINE D == Directories(fs)
           P == fs.dirs
           f == [d \in D |-> CHOOSE p \in P : fs.nameToInum[p] = d]
<1>1. IsFiniteSet(D)
  BY SlotsFinite
<1>2. /\ \A d \in D : \E p \in P : fs.nameToInum[p] = d
      /\ \A p \in P : fs.nameToInum[p] \in D
      /\ \A p, q \in P : fs.nameToInum[p] = fs.nameToInum[q] => p = q
  BY DEF Named
<1> HIDE DEF D, P
<1>3. \A d \in D : f[d] \in P /\ fs.nameToInum[f[d]] = d
  BY <1>2
<1>4. f \in [D -> P]
  BY <1>3
<1>5. \A a, b \in D : f[a] = f[b] => a = b
  BY <1>3
<1>6. \A t \in P : \E a \in D : f[a] = t
  BY <1>2, <1>3
<1> HIDE DEF f
<1>7. IsFiniteSet(P) /\ Cardinality(P) = Cardinality(D)
  BY <1>1, <1>4, <1>5, <1>6, SameSize
<1> QED BY <1>7 DEF D, P

\* A path of the workload for every other entry.
LEMMA PathsCount ==
  ASSUME NEW n \in Nat, NEW m, NEW fs \in FsType(n, m), Sound(fs), MaxUsed \in Nat
  PROVE  LET others == (fs.dirs \cup ToSet(fs.files)) \ {<<>>}
         IN /\ IsFiniteSet(others)
            /\ Cardinality(others) = Cardinality(NamedSlots(fs))
<1> DEFINE D == Directories(fs)
           T == (fs.dirs \cup ToSet(fs.files)) \ {<<>>}
           S == NamedSlots(fs)
           at(d) == CHOOSE p \in fs.dirs : fs.nameToInum[p] = d
           name(ref) == EntriesOf(fs, ref[1])[ref[2]][1]
           f == [ref \in S |-> Append(at(ref[1]), name(ref))]
<1>1. IsFiniteSet(S)
  <2>1. S \subseteq Slots(fs) /\ IsFiniteSet(Slots(fs))
    BY SlotsFinite DEF NamedSlots
  <2> QED BY <2>1, FS_Subset
<1>2. Owned(fs) /\ Lists(fs) /\ Named(fs) /\ PathsLead(fs)
  BY DEF Sound
<1>3. \A d \in D : at(d) \in fs.dirs /\ fs.nameToInum[at(d)] = d /\ at(d) \in Seq(Names)
  <2>1. \A d \in D : \E p \in fs.dirs : fs.nameToInum[p] = d
    BY <1>2 DEF Named
  <2>2. fs.dirs \subseteq Seq(Names)
    BY TypeParts
  <2> QED BY <2>1, <2>2
<1>4. \A p \in fs.dirs : fs.nameToInum[p] \in D /\ at(fs.nameToInum[p]) = p
  BY <1>2 DEF Named
<1>5. ASSUME NEW ref \in S
      PROVE  /\ ref = <<ref[1], ref[2]>> /\ ref[1] \in D
             /\ ref[2] \in 1 .. Len(EntriesOf(fs, ref[1]))
             /\ name(ref) \in Names \ Dots
             /\ EntriesOf(fs, ref[1])[ref[2]] \in Entry(fs, ref[1])
  <2>1. ref \in Slots(fs) /\ ref[2] >= 3
    BY DEF NamedSlots
  <2>2. /\ ref = <<ref[1], ref[2]>> /\ ref[1] \in Directories(fs)
        /\ ref[2] \in 1 .. Len(EntriesOf(fs, ref[1])) /\ ref[2] \in Nat
        /\ EntriesOf(fs, ref[1])[ref[2]] \in AllNames \X Upto(n)
        /\ EntriesOf(fs, ref[1])[ref[2]] \in Entry(fs, ref[1])
        /\ EntriesOf(fs, ref[1])[ref[2]][1] \notin Dots <=> ref[2] >= 3
    BY <2>1, <1>2, SlotParts
  <2> QED BY <2>1, <2>2 DEF AllNames
<1> HIDE DEF at
<1>6. ASSUME NEW ref \in S
      PROVE  /\ f[ref] \in T
             /\ Front(f[ref]) = at(ref[1]) /\ Last(f[ref]) = name(ref)
  <2>1. at(ref[1]) \in fs.dirs /\ fs.nameToInum[at(ref[1])] = ref[1] /\ at(ref[1]) \in Seq(Names)
    BY <1>3, <1>5
  <2>2. /\ EntriesOf(fs, ref[1])[ref[2]] \in Entry(fs, ref[1])
        /\ name(ref) \in Names /\ name(ref) \notin Dots
    BY <1>5
  <2>3. Append(at(ref[1]), name(ref)) \in fs.dirs \cup ToSet(fs.files)
    BY <2>1, <2>2, <1>2 DEF PathsLead
  <2> HIDE DEF name
  <2>4. /\ Append(at(ref[1]), name(ref)) # <<>>
        /\ Front(Append(at(ref[1]), name(ref))) = at(ref[1])
        /\ Last(Append(at(ref[1]), name(ref))) = name(ref)
    BY <2>1, <2>2, PathParts
  <2> QED BY <2>3, <2>4
<1>7. ASSUME NEW r1 \in S, NEW r2 \in S, f[r1] = f[r2] PROVE r1 = r2
  <2>1. at(r1[1]) = at(r2[1]) /\ name(r1) = name(r2)
    <3> HIDE DEF f, name
    <3> QED BY <1>6, <1>7
  <2>2. r1[1] = r2[1]
    BY <2>1, <1>3, <1>5
  <2>3. EntriesOf(fs, r1[1])[r1[2]][1] = EntriesOf(fs, r1[1])[r2[2]][1]
    BY <2>1, <2>2
  <2>4. \A j, k \in 1 .. Len(EntriesOf(fs, r1[1])) :
          EntriesOf(fs, r1[1])[j][1] = EntriesOf(fs, r1[1])[k][1] => j = k
    BY <1>2, <1>5 DEF Lists, ListFits
  <2>5. r1[2] = r2[2]
    BY <2>2, <2>3, <2>4, <1>5
  <2> QED BY <2>2, <2>5, <1>5
<1>8. ASSUME NEW t \in T PROVE \E ref \in S : f[ref] = t
  <2> DEFINE d == fs.nameToInum[Front(t)]
  <2>1. /\ Front(t) \in fs.dirs /\ Last(t) \notin Dots
        /\ <<Last(t), fs.nameToInum[t]>> \in Entry(fs, d)
    BY <1>2 DEF PathsLead
  <2>2. d \in D /\ at(d) = Front(t)
    BY <2>1, <1>4
  <2> HIDE DEF d
  <2>3. EntryAt(fs, d, <<Last(t), fs.nameToInum[t]>>)
    BY <2>1, <2>2, <1>2, EntryNames
  <2>4. PICK k \in 1 .. Len(EntriesOf(fs, d)) :
          /\ EntriesOf(fs, d)[k] = <<Last(t), fs.nameToInum[t]>>
          /\ Last(t) \notin Dots <=> k >= 3
    BY <2>3 DEF EntryAt
  <2>5. k >= 3 /\ Len(EntriesOf(fs, d)) \in 2 .. MaxUsed
    BY <2>1, <2>2, <2>4, <1>2 DEF Lists, ListFits
  <2>6. k \in 1 .. MaxUsed /\ k <= Len(EntriesOf(fs, d))
    BY <2>4, <2>5
  <2>7. <<d, k>> \in S
    BY <2>2, <2>5, <2>6 DEF NamedSlots, Slots
  <2>8. f[<<d, k>>] = Append(Front(t), Last(t))
    BY <2>2, <2>4, <2>7
  <2>9. t \in Seq(Names) /\ t # <<>>
    BY TypeParts
  <2>10. Append(Front(t), Last(t)) = t
    <3>1. \A x \in Seq(Names) : x # <<>> => x = Append(Front(x), Last(x))
      <4> SUFFICES ASSUME NEW x \in Seq(Names), x # <<>> PROVE x = Append(Front(x), Last(x))
        OBVIOUS
      <4>1. PICK q \in Seq(Names), y \in Names : x = Append(q, y)
        BY SequenceEmptyOrAppend
      <4> QED BY <4>1, PathParts
    <3> QED BY <3>1, <2>9
  <2> QED BY <2>7, <2>8, <2>10
<1> HIDE DEF T, S, f
<1>9. f \in [S -> T]
  <2>1. \A ref \in S : f[ref] \in T
    BY <1>6
  <2>2. f = [ref \in S |-> f[ref]]
    BY DEF f
  <2> QED BY <2>1, <2>2
<1>10. /\ \A a, b \in S : f[a] = f[b] => a = b
       /\ \A t \in T : \E a \in S : f[a] = t
  BY <1>7, <1>8
<1>11. IsFiniteSet(T) /\ Cardinality(T) = Cardinality(S)
  BY <1>1, <1>9, <1>10, SameSize
<1> QED BY <1>11 DEF T, S

LEMMA PathsAndRefs ==
  ASSUME NEW n \in Nat, NEW m, NEW fs \in FsType(n, m), Sound(fs),
         MaxUsed \in Nat, MaxUsed >= 2
  PROVE  Cardinality(ToSet(fs.files) \cup fs.dirs) + 2 * Cardinality(fs.dirs) =
           Cardinality(UNION {RefsTo(fs, i) : i \in Live(fs)}) + 1
<1> DEFINE D == Directories(fs)
           paths == fs.dirs \cup ToSet(fs.files)
           one == DotSlots(fs, 1)
           two == DotSlots(fs, 2)
           rest == NamedSlots(fs)
           A == Slots(fs)
<1>1. Owned(fs) /\ Lists(fs) /\ EntriesLive(fs) /\ Named(fs)
  BY DEF Sound
<1>2. UNION {RefsTo(fs, i) : i \in Live(fs)} = A
  BY <1>1, SlotsAreRefs
<1>3. /\ IsFiniteSet(one) /\ Cardinality(one) = Cardinality(D)
      /\ IsFiniteSet(two) /\ Cardinality(two) = Cardinality(D)
  <2>1. 1 \in {1, 2} /\ 2 \in {1, 2}
    OBVIOUS
  <2> QED BY <2>1, <1>1, DotSlotsCount
<1>4. IsFiniteSet(fs.dirs) /\ Cardinality(fs.dirs) = Cardinality(D)
  BY <1>1, DirsCount
<1>5. IsFiniteSet(paths \ {<<>>}) /\ Cardinality(paths \ {<<>>}) = Cardinality(rest)
  BY PathsCount
<1>6. <<>> \in paths
  BY <1>1 DEF Named
<1>7. IsFiniteSet(paths) /\ Cardinality(paths) = Cardinality(rest) + 1
  <2> DEFINE others == paths \ {<<>>}
  <2>1. paths = others \cup {<<>>} /\ <<>> \notin others
    BY <1>6
  <2> HIDE DEF others, paths
  <2>2. /\ IsFiniteSet(others \cup {<<>>})
        /\ Cardinality(others \cup {<<>>}) =
             IF <<>> \in others THEN Cardinality(others) ELSE Cardinality(others) + 1
    BY <1>5, FS_AddElement DEF others
  <2>3. Cardinality(others) = Cardinality(rest)
    BY <1>5 DEF others
  <2> QED BY <2>1, <2>2, <2>3
<1>8. IsFiniteSet(A) /\ IsFiniteSet(rest)
  <2>1. rest \subseteq A
    BY DEF NamedSlots
  <2> QED BY <2>1, SlotsFinite, FS_Subset
<1>9. /\ A = (one \cup two) \cup rest
      /\ one \cap two = {} /\ (one \cup two) \cap rest = {}
  <2>1. \A ref \in A : ref[2] \in Nat /\ ref[2] >= 1
    BY DEF Slots
  <2> QED BY <2>1 DEF DotSlots, NamedSlots
<1> HIDE DEF D, paths, one, two, rest, A
<1>10. /\ IsFiniteSet(one \cup two)
       /\ Cardinality(one \cup two) =
            Cardinality(one) + Cardinality(two) - Cardinality(one \cap two)
  BY <1>3, FS_Union
<1>11. Cardinality((one \cup two) \cup rest) =
         Cardinality(one \cup two) + Cardinality(rest)
           - Cardinality((one \cup two) \cap rest)
  BY <1>8, <1>10, FS_Union
<1>12. Cardinality({}) = 0
  BY FS_EmptySet
<1>13. Cardinality(rest) \in Nat /\ Cardinality(D) \in Nat
  <2>1. IsFiniteSet(D)
    BY SlotsFinite DEF D
  <2>2. Cardinality(D) \in Nat
    BY <2>1, FS_CardinalityType
  <2>3. Cardinality(rest) \in Nat
    BY <1>8, FS_CardinalityType
  <2> QED BY <2>2, <2>3
<1>14. Cardinality(A) = Cardinality(D) + Cardinality(D) + Cardinality(rest)
  <2>1. Cardinality(one \cap two) = 0 /\ Cardinality((one \cup two) \cap rest) = 0
    BY <1>9, <1>12
  <2>2. Cardinality(one \cup two) = Cardinality(D) + Cardinality(D)
    BY <2>1, <1>3, <1>10, <1>13
  <2>3. Cardinality(A) = Cardinality((one \cup two) \cup rest)
    BY <1>9
  <2> QED BY <2>1, <2>2, <2>3, <1>11, <1>13
<1>15. Cardinality(paths) + 2 * Cardinality(fs.dirs) = Cardinality(A) + 1
  BY <1>4, <1>7, <1>13, <1>14
<1>16. ToSet(fs.files) \cup fs.dirs = paths
  BY DEF paths
<1> QED BY <1>2, <1>15, <1>16

LEMMA SoundAllConsistent ==
  ASSUME NEW n \in Nat, NEW m, self.fs \in FsType(n, m), Sound(self.fs),
         MaxUsed \in Nat, MaxUsed >= 2
  PROVE  AllConsistent
<1> DEFINE fs == self.fs
           paths == ToSet(fs.files) \cup fs.dirs
<1>1. Consistent(fs)
  BY SoundConsistent
<1>2. \A path \in paths : Lookup(fs, path) = fs.nameToInum[path]
  <2>1. \A path \in fs.dirs \cup ToSet(fs.files) : Lookup(fs, path) = fs.nameToInum[path]
    <3> HIDE DEF fs
    <3>1. fs \in FsType(n, m) /\ Sound(fs)
      BY DEF fs
    <3> QED BY <3>1, PathLookup
  <2>2. paths = fs.dirs \cup ToSet(fs.files)
    OBVIOUS
  <2> QED BY <2>1, <2>2
<1>3. Cardinality(paths) + 2 * Cardinality(fs.dirs) =
        Cardinality(UNION {RefsTo(fs, i) : i \in Live(fs)}) + 1
  BY PathsAndRefs
<1> QED BY <1>1, <1>2, <1>3, Zenon DEF AllConsistent

\* After every operation disk and tables agree: bitmaps, inodes, blocks and
\* directories are consistent, every path of the workload leads from the root
\* to its inode, and the disk has no other paths (vsfs.py:265-393).
THEOREM DiskConsistent ==
  ASSUME VSFSConstants
  PROVE  Spec => []AllConsistent
<1>1. IInv => AllConsistent
  BY SoundAllConsistent DEF IInv, VSFSConstants
<1> QED BY <1>1, InitHolds, NextKeeps, PTL DEF Spec

\* In fsck.py the same holds, whatever free inode or block is taken, until the
\* disk is corrupted (fsck.py:621-661).
THEOREM FsckBuildsConsistent ==
  ASSUME FsckConstants
  PROVE  FsckSpec => [](Intact => AllConsistent)
<1>1. FsckIInv => (Intact => AllConsistent)
  BY SoundAllConsistent DEF FsckIInv, FsckConstants, VSFSConstants
<1> QED BY <1>1, FsckInitHolds, FsckNextKeeps, PTL DEF FsckSpec

-----------------------------------------------------------------------------
(* VSFS implements NameSpace.                                              *)

LEMMA FollowsImplements ==
  ASSUME Follows(self.fs, self'.fs)
  PROVE  [ImplementsNext]_(Abstract!vars)
<1>0. /\ DOMAIN FileAt(self.fs) = ToSet(self.fs.files)
      /\ (FileAt(self.fs))' = FileAt(self'.fs) /\ (Contents(self.fs))' = Contents(self'.fs)
  BY DEF FileAt
<1>1. CASE SameNames(self.fs, self'.fs) /\ Contents(self'.fs) = Contents(self.fs)
  BY <1>0, <1>1 DEF SameNames, Abstract!vars
<1>2. ASSUME NEW path \in DOMAIN self'.fs.nameToInum, IsMkdir(self.fs, self'.fs, path)
      PROVE ImplementsNext
  <2>1. Abstract!Mkdir(path)
    BY <1>0, <1>2 DEF IsMkdir, NewIn, Abstract!Mkdir, Abstract!New, Front, Abstract!Front, Known, Abstract!With
  <2> QED BY <2>1 DEF ImplementsNext, Abstract!Next
<1>3. ASSUME NEW path \in DOMAIN self'.fs.nameToInum, NEW file, IsCreat(self.fs, self'.fs, path, file)
      PROVE ImplementsNext
  <2>1. Abstract!Creat(path, file) /\ file \in DOMAIN self.fs.inodes
    BY <1>0, <1>3 DEF IsCreat, NewIn, Abstract!Creat, Abstract!New, Front, Abstract!Front, Known, Abstract!With
  <2> QED BY <2>1 DEF ImplementsNext, Abstract!Next
<1>4. ASSUME NEW path \in DOMAIN self'.fs.nameToInum, NEW target, IsLink(self.fs, self'.fs, path, target)
      PROVE ImplementsNext
  <2>1. Abstract!Link(target, path) /\ target \in DOMAIN FileAt(self.fs)
    BY <1>0, <1>4 DEF IsLink, NewIn, Abstract!Link, Abstract!New, Front, Abstract!Front, Known, Abstract!With
  <2> QED BY <2>1 DEF ImplementsNext, Abstract!Next
<1>5. ASSUME NEW path, IsUnlink(self.fs, self'.fs, path) PROVE ImplementsNext
  <2>1. Abstract!Unlink(path) /\ path \in DOMAIN FileAt(self.fs)
    BY <1>0, <1>5 DEF IsUnlink, Abstract!Unlink, Restrict, Abstract!Restrict, Range, Abstract!Range
  <2> QED BY <2>1 DEF ImplementsNext, Abstract!Next
<1>6. ASSUME NEW path, NEW char, IsWrite(self.fs, self'.fs, path, char) PROVE ImplementsNext
  <2>1. Abstract!Write(path, char) /\ path \in DOMAIN FileAt(self.fs) /\ char \in Chars
    BY <1>0, <1>6 DEF IsWrite, SameNames, Abstract!Write
  <2> QED BY <2>1 DEF ImplementsNext, Abstract!Next
<1> QED BY <1>1, <1>2, <1>3, <1>4, <1>5, <1>6 DEF Follows

LEMMA NothingYet ==
  ASSUME VSFSConstants, Init
  PROVE  Abstract!Init
<1>1. self.fs = Fs(input.numInodes, input.numData)
  BY DEF Init
<1>2. self.fs.dirs = {<<>>} /\ self.fs.files = <<>>
  BY <1>1 DEF Fs
<1>3. FileAt(self.fs) = <<>> /\ Contents(self.fs) = <<>>
  BY <1>2 DEF FileAt, Contents, ToSet
<1> QED BY <1>2, <1>3 DEF Abstract!Init

LEMMA AttemptImplements ==
  ASSUME NEW n, NEW m, NEW results, AllGood(n, m, self.fs, results), Attempt(results)
  PROVE  [ImplementsNext]_(Abstract!vars)
<1>1. PICK result \in results :
        self' = [fs |-> result.fs,
                 left |-> IF result.rc = -1 THEN self.left ELSE self.left - 1]
  BY DEF Attempt
<1>2. self'.fs = result.fs
  BY <1>1
<1>3. Follows(self.fs, result.fs)
  BY DEF AllGood, Good
<1> QED BY <1>2, <1>3, FollowsImplements

LEMMA SelfSame ==
  ASSUME UNCHANGED self
  PROVE  [ImplementsNext]_(Abstract!vars)
BY FollowsItself, FollowsImplements

LEMMA NextImplements ==
  ASSUME VSFSConstants, IInv, [Next]_vars
  PROVE  [ImplementsNext]_(Abstract!vars)
<1> DEFINE fs == self.fs
           n == input.numInodes
           m == input.numData
<1>1. /\ n \in Nat /\ m \in Nat /\ fs \in FsType(n, m) /\ Sound(fs)
      /\ MaxUsed \in Nat /\ MaxUsed >= 2
  BY DEF IInv, VSFSConstants
<1>2. /\ AllGood(n, m, fs, DoAppend(fs)) /\ AllGood(n, m, fs, DoDelete(fs))
      /\ AllGood(n, m, fs, DoLink(fs))
      /\ AllGood(n, m, fs, DoCreate(fs, "f")) /\ AllGood(n, m, fs, DoCreate(fs, "d"))
  <2> HIDE DEF n, m, fs
  <2> QED BY <1>1, ResultsGood
<1>3. CASE AppendToFile
  BY <1>2, <1>3, AttemptImplements DEF AppendToFile
<1>4. CASE Delete
  BY <1>2, <1>4, AttemptImplements DEF Delete
<1>5. CASE MakeLink
  BY <1>2, <1>5, AttemptImplements DEF MakeLink
<1>6. CASE Create
  BY <1>2, <1>6, AttemptImplements DEF Create
<1>7. CASE MakeDir
  BY <1>2, <1>7, AttemptImplements DEF MakeDir
<1>8. CASE Finish
  BY <1>8, SelfSame DEF Finish
<1>9. CASE UNCHANGED vars
  BY <1>9, SelfSame DEF vars
<1> QED BY <1>3, <1>4, <1>5, <1>6, <1>7, <1>8, <1>9 DEF Next, Step, Ended

\* vsfs.py is a tree of names: what createFile, createLink, deleteFile and
\* writeFile do to bitmaps, inodes and blocks is to make, name, unname and fill
\* files, and an operation that fails changes nothing of them (vsfs.py:265-468).
THEOREM NamesImplemented ==
  ASSUME VSFSConstants
  PROVE  Spec => Abstract!Init /\ [][ImplementsNext]_(Abstract!vars)
<1>1. Init => Abstract!Init
  BY NothingYet
<1>2. IInv /\ [Next]_vars => [ImplementsNext]_(Abstract!vars)
  BY NextImplements
<1> QED BY <1>1, <1>2, InitHolds, NextKeeps, PTL DEF Spec

LEMMA FsckNextImplements ==
  ASSUME FsckConstants, FsckIInv, [FsckNext]_vars
  PROVE  [FsckImplementsNext]_(Abstract!vars)
<1> SUFFICES ASSUME phase = "run" PROVE [ImplementsNext]_(Abstract!vars)
  BY DEF FsckImplementsNext
<1> DEFINE fs == self.fs
           n == input.numInodes
           m == input.numData
<1>1. /\ AllGood(n, m, fs, FsckAppend(fs)) /\ AllGood(n, m, fs, FsckDelete(fs))
      /\ AllGood(n, m, fs, FsckLink(fs))
      /\ AllGood(n, m, fs, FsckCreate(fs, "f")) /\ AllGood(n, m, fs, FsckCreate(fs, "d"))
  <2>1. /\ n \in Nat /\ m \in Nat /\ fs \in FsType(n, m) /\ Sound(fs)
        /\ MaxUsed \in Nat /\ MaxUsed >= 2
    BY DEF FsckIInv, Intact, FsckConstants, VSFSConstants
  <2> HIDE DEF n, m, fs
  <2> QED BY <2>1, FsckResultsGood
<1>2. CASE Attempt(FsckAppend(fs))
  BY <1>1, <1>2, AttemptImplements
<1>3. CASE Attempt(FsckDelete(fs))
  BY <1>1, <1>3, AttemptImplements
<1>4. CASE Attempt(FsckLink(fs))
  BY <1>1, <1>4, AttemptImplements
<1>5. CASE Attempt(FsckCreate(fs, "f"))
  BY <1>1, <1>5, AttemptImplements
<1>6. CASE Attempt(FsckCreate(fs, "d"))
  BY <1>1, <1>6, AttemptImplements
<1>7. CASE Built
  BY <1>7, SelfSame DEF Built
<1>8. CASE UNCHANGED vars
  BY <1>8, SelfSame DEF vars
<1> QED
  BY <1>2, <1>3, <1>4, <1>5, <1>6, <1>7, <1>8
  DEF FsckNext, FsckStep, FsckEnded, FlipDataBit, FlipInodeBit, ChangeRefCnt, MakeOrphan,
      PointToDeadBlock, SwitchType, ReferToFreeInode, ReferToOtherName, CorruptBy, NothingToPick

\* So is fsck.py, as long as it builds (fsck.py:240-484).
THEOREM FsckNamesImplemented ==
  ASSUME FsckConstants
  PROVE  FsckSpec => Abstract!Init /\ [][FsckImplementsNext]_(Abstract!vars)
<1>1. Init => Abstract!Init
  BY NothingYet DEF FsckConstants
<1>2. FsckIInv /\ [FsckNext]_vars => [FsckImplementsNext]_(Abstract!vars)
  BY FsckNextImplements
<1> QED BY <1>1, <1>2, FsckInitHolds, FsckNextKeeps, PTL DEF FsckSpec

=============================================================================
