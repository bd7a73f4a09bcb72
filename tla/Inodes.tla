------------------------------- MODULE Inodes -------------------------------
(***************************************************************************)
(* The block allocator, the inodes, the directories and the path names of  *)
(* fs.c, and the image that mkfs.c makes, as operators on the state k of   *)
(* the file system: a record with the fields                               *)
(*   used         the free map: the blocks whose bit is set                *)
(*   data, ind    what a block holds: cells, or the addresses of blocks    *)
(*   type, nlink, size, addrs                                              *)
(*                the inodes; the inode cache is write-through, so that    *)
(*                the one on disk and the one in memory are the same       *)
(*   ref          the references to an inode in the inode cache            *)
(*   panic        what the kernel panicked about, or ""                    *)
(* A block holds BSIZE cells. A cell is a byte of a file or an entry of a  *)
(* directory.                                                              *)
(***************************************************************************)
EXTENDS Integers, Sequences, SequencesExt

CONSTANTS
  BSIZE,      \* cells in a block
  NDIRECT,    \* blocks whose address is in the inode
  NINDIRECT,  \* addresses in an indirect block
  NMETA,      \* blocks before the data blocks
  FSSIZE,     \* blocks of the disk
  NINODES,    \* inodes on the disk, and inode 0, which is not used
  NINODE,     \* entries of the inode cache
  Truncated   \* what is kept of names that are longer than DIRSIZ

ASSUME InodesConstants ==
  /\ BSIZE \in Nat \ {0} /\ NDIRECT \in Nat \ {0} /\ NINDIRECT \in Nat \ {0}
  /\ NMETA \in Nat /\ FSSIZE \in Nat /\ NMETA < FSSIZE
  /\ NINODES \in Nat /\ NINODE \in Nat

ROOTINO == 1
MAXFILE == NDIRECT + NINDIRECT
Blocks == 0 .. (FSSIZE - 1)
Inums == 1 .. (NINODES - 1)

\* A cell as a directory entry, and as a byte; a cell of a new block is zero.
Entry(name, inum) == <<name, inum>>
Byte(c) == <<c, 0>>
Zero == <<"", 0>>
NameOf(cell) == cell[1]
InumOf(cell) == cell[2]

\* What skipelem() copies of a path element.
Kept(name) == IF name \in DOMAIN Truncated THEN Truncated[name] ELSE name

Panic(k, why) == [k EXCEPT !.panic = why]

NoAddrs == [bn \in 0 .. NDIRECT |-> 0]
NoBlocks == [bn \in 0 .. (NINDIRECT - 1) |-> 0]
NoData == [o \in 0 .. (BSIZE - 1) |-> Zero]

-----------------------------------------------------------------------------
(* Blocks *)

\* The result of an operation: the new state, and what it returns.
Ret(k, r) == [k |-> k, r |-> r]

Bzero(k, b) == [k EXCEPT !.data[b] = NoData, !.ind[b] = NoBlocks]

Mark(k, b) == [k EXCEPT !.used = @ \cup {b}]

\* Faulty variant: the bit of the block is not set.
BallocUnmarked(k) ==
  IF Blocks \subseteq k.used THEN Ret(Panic(k, "balloc: out of blocks"), 0)
  ELSE Ret(Bzero(k, Min(Blocks \ k.used)), Min(Blocks \ k.used))

\* balloc(): the first block that is free, zeroed.
Balloc(k) ==
  IF Blocks \subseteq k.used THEN Ret(Panic(k, "balloc: out of blocks"), 0)
  ELSE Ret(Bzero(Mark(k, Min(Blocks \ k.used)), Min(Blocks \ k.used)), Min(Blocks \ k.used))

Bfree(k, b) ==
  IF b \notin k.used THEN Panic(k, "freeing free block") ELSE [k EXCEPT !.used = @ \ {b}]

-----------------------------------------------------------------------------
(* The content of an inode *)

\* The address of block bn of inode i, or 0.
Addr(k, i, bn) ==
  IF bn < NDIRECT THEN k.addrs[i][bn]
  ELSE IF k.addrs[i][NDIRECT] = 0 THEN 0
  ELSE k.ind[k.addrs[i][NDIRECT]][bn - NDIRECT]

\* bmap() for a block listed in slot s of the inode.
SetAddr(a, i, s) == [a EXCEPT !.k.addrs[i][s] = a.r]
Direct(k, i, s) ==
  IF k.addrs[i][s] # 0 THEN Ret(k, k.addrs[i][s]) ELSE SetAddr(Balloc(k), i, s)

\* bmap() for a block listed in slot s of the indirect block t.r.
SetInd(a, t, s) == [a EXCEPT !.k.ind[t][s] = a.r]
Indirect(t, s) ==
  IF t.k.ind[t.r][s] # 0 THEN Ret(t.k, t.k.ind[t.r][s]) ELSE SetInd(Balloc(t.k), t.r, s)

\* bmap(): the address of block bn of inode i, which is allocated if need be.
Bmap(k, i, bn) ==
  IF bn < NDIRECT THEN Direct(k, i, bn)
  ELSE IF bn < MAXFILE THEN Indirect(Direct(k, i, NDIRECT), bn - NDIRECT)
  ELSE Ret(Panic(k, "bmap: out of range"), 0)

\* The blocks of inode i, in the order in which itrunc() frees them.
Listed(k, t) == IF t = 0 THEN <<>> ELSE [s \in 1 .. NINDIRECT |-> k.ind[t][s - 1]] \o <<t>>
Owned(k, i) ==
  SelectSeq([s \in 1 .. NDIRECT |-> k.addrs[i][s - 1]] \o Listed(k, k.addrs[i][NDIRECT]),
            LAMBDA b : b # 0)

\* Faulty variant: the indirect block itself is not freed.
ItruncKeepsIndirect(k, i) ==
  [FoldLeft(Bfree, k, SelectSeq(Owned(k, i), LAMBDA b : b # k.addrs[i][NDIRECT]))
     EXCEPT !.addrs[i] = NoAddrs, !.size[i] = 0]

Itrunc(k, i) ==
  [FoldLeft(Bfree, k, Owned(k, i)) EXCEPT !.addrs[i] = NoAddrs, !.size[i] = 0]

CellIn(k, b, o) == IF b = 0 THEN Zero ELSE k.data[b][o]
Cell(k, i, off) == CellIn(k, Addr(k, i, off \div BSIZE), off % BSIZE)

\* The blocks that hold m cells from off on.
Spanned(off, m) ==
  IF m = 0 THEN <<>>
  ELSE [j \in 1 .. ((off + m - 1) \div BSIZE) - (off \div BSIZE) + 1 |-> (off \div BSIZE) + j - 1]

\* readi() of a file or a directory: r cells, or -1. A block that is not there is
\* allocated.
ReadCells(k, i, off, m) ==
  [k |-> k, r |-> m, cells |-> [j \in 1 .. m |-> Cell(k, i, off + j - 1)]]
ReadSome(k, i, off, m) ==
  ReadCells(FoldLeft(LAMBDA q, bn : Bmap(q, i, bn).k, k, Spanned(off, m)), i, off, m)
Readi(k, i, off, n) ==
  IF off > k.size[i] THEN [k |-> k, r |-> -1, cells |-> <<>>]
  ELSE ReadSome(k, i, off, Min({n, k.size[i] - off}))

\* The loop of writei().
Stored(a, o, c) == [a.k EXCEPT !.data[a.r][o] = c]
WriteCells(k, i, off, cells) ==
  FoldLeft(LAMBDA q, j :
             IF q.panic # "" THEN q
             ELSE Stored(Bmap(q, i, (off + j - 1) \div BSIZE), (off + j - 1) % BSIZE, cells[j]),
           k, [j \in DOMAIN cells |-> j])

\* Faulty variant: a write into the middle of a file sets its size, too.
WriteiSetsSize(k, i, off, cells) ==
  IF off > k.size[i] \/ off + Len(cells) > MAXFILE * BSIZE THEN Ret(k, -1)
  ELSE Ret([WriteCells(k, i, off, cells) EXCEPT !.size[i] = off + Len(cells)], Len(cells))

\* writei() of a file or a directory: the cells are written at off, and the file
\* grows; or nothing happens, and -1 is returned.
Writei(k, i, off, cells) ==
  IF off > k.size[i] \/ off + Len(cells) > MAXFILE * BSIZE THEN Ret(k, -1)
  ELSE Ret([WriteCells(k, i, off, cells) EXCEPT !.size[i] = Max({@, off + Len(cells)})], Len(cells))

-----------------------------------------------------------------------------
(* Inodes *)

Iget(k, i) ==
  IF k.ref[i] = 0 /\ Cardinality({j \in Inums : k.ref[j] > 0}) >= NINODE
  THEN Panic(k, "iget: no inodes")
  ELSE [k EXCEPT !.ref[i] = @ + 1]

\* ilock() of an inode that nobody has locked; only its check remains.
Ilock(k, i) == IF k.type[i] = "free" THEN Panic(k, "ilock: no type") ELSE k

\* iput(): the last reference to an inode without links frees the inode.
Iput(k, i) ==
  IF k.nlink[i] = 0 /\ k.ref[i] = 1
  THEN [Itrunc(k, i) EXCEPT !.type[i] = "free", !.ref[i] = 0]
  ELSE [k EXCEPT !.ref[i] = @ - 1]

\* ialloc(): the first inode that is free, with one reference.
NewInode(k, i, type) ==
  Ret(Iget([k EXCEPT !.type[i] = type, !.nlink[i] = 0, !.size[i] = 0, !.addrs[i] = NoAddrs], i), i)
Ialloc(k, type) ==
  IF \A i \in Inums : k.type[i] # "free" THEN Ret(Panic(k, "ialloc: no inodes"), ROOTINO)
  ELSE NewInode(k, Min({i \in Inums : k.type[i] = "free"}), type)

-----------------------------------------------------------------------------
(* Directories *)

\* The entries of directory dp that have the given name, and those that are free.
Named(e, name) == InumOf(e) # 0 /\ NameOf(e) = name
Hits(k, dp, name) == {o \in 0 .. (k.size[dp] - 1) : Named(Cell(k, dp, o), name)}
Empty(k, dp) == {o \in 0 .. (k.size[dp] - 1) : InumOf(Cell(k, dp, o)) = 0}

\* dirlookup(): the inode that the first entry called name names, with a new
\* reference, and the place of the entry; or 0. It reads up to that entry.
Got(k, i, off) == [k |-> Iget(k, i), r |-> i, off |-> off]
LookedUp(rd, hits) ==
  IF hits = {} THEN [k |-> rd.k, r |-> 0, off |-> 0]
  ELSE Got(rd.k, InumOf(Last(rd.cells)), Min(hits))
LookupAt(k, dp, hits) ==
  LookedUp(Readi(k, dp, 0, IF hits = {} THEN k.size[dp] ELSE Min(hits) + 1), hits)
Dirlookup(k, dp, name) == LookupAt(k, dp, Hits(k, dp, name))

\* dirlink(): a new entry in the first free place, unless the name is there.
WroteEntry(w) == Ret(IF w.r # 1 THEN Panic(w.k, "dirlink") ELSE w.k, 0)
LinkAt(k, dp, off, e) == WroteEntry(Writei(Readi(k, dp, 0, off + 1).k, dp, off, <<e>>))
LinkUnless(found, dp, e) ==
  IF found.r # 0 THEN Ret(Iput(found.k, found.r), -1)
  ELSE LinkAt(found.k, dp, Min(Empty(found.k, dp) \cup {found.k.size[dp]}), e)
Dirlink(k, dp, name, inum) == LinkUnless(Dirlookup(k, dp, name), dp, Entry(name, inum))

\* isdirempty()
IsDirEmpty(k, dp) == \A o \in 2 .. (k.size[dp] - 1) : InumOf(Cell(k, dp, o)) = 0

-----------------------------------------------------------------------------
(* Paths *)

\* A path: its elements, and whether it begins with a slash.
Rel(elems) == [abs |-> FALSE, elems |-> elems]
Abs(elems) == [abs |-> TRUE, elems |-> elems]

RECURSIVE Walk(_, _, _, _), WalkOn(_, _, _, _)

\* namex() from inode i on, to which it has a reference: the inode of the path
\* elems or, for nameiparent(), the one of the directory its last element is in.
Walk(k, i, elems, parent) ==
  IF elems = <<>> THEN IF parent THEN Ret(Iput(k, i), 0) ELSE Ret(k, i)
  ELSE IF k.type[i] = "free" THEN Ret(Ilock(k, i), 0)
  ELSE IF k.type[i] # "dir" THEN Ret(Iput(k, i), 0)
  ELSE IF parent /\ Len(elems) = 1 THEN Ret(k, i)
  ELSE WalkOn(Dirlookup(k, i, Kept(Head(elems))), i, elems, parent)

\* When dirlookup() has found an inode, or nothing.
WalkOn(next, i, elems, parent) ==
  IF next.r = 0 THEN Ret(Iput(next.k, i), 0)
  ELSE Walk(Iput(next.k, i), next.r, Tail(elems), parent)

Namex(k, i, path, parent) == Walk(Iget(k, i), i, path.elems, parent)

StartOf(cwd, path) == IF path.abs THEN ROOTINO ELSE cwd
Namei(k, cwd, path) == Namex(k, StartOf(cwd, path), path, FALSE)
NameiParent(k, cwd, path) == Namex(k, StartOf(cwd, path), path, TRUE)
LastOf(path) == Kept(Last(path.elems))

-----------------------------------------------------------------------------
(* mkfs *)

\* mkfs's ialloc(): the inodes in order.
MkIalloc(k, i, type) == [k EXCEPT !.type[i] = type, !.nlink[i] = 1]

\* iappend(): blocks are taken in order; here, too, balloc() takes the first one.
Iappend(k, i, cells) == Writei(k, i, k.size[i], cells).k

\* A file of the image: a name and what it holds.
MkInode(k, i, f) ==
  Iappend(Iappend(MkIalloc(k, i, "file"), ROOTINO, <<Entry(f.name, i)>>), i, f.cells)
MkFile(k, f) ==
  IF k.panic # "" THEN k ELSE MkInode(k, Min({j \in Inums : k.type[j] = "free"}), f)

\* The image before the root directory is made: all zero, and the blocks before
\* the data blocks in use.
EmptyDisk ==
  [used |-> 0 .. (NMETA - 1), data |-> [b \in Blocks |-> NoData],
   ind |-> [b \in Blocks |-> NoBlocks], type |-> [i \in Inums |-> "free"],
   nlink |-> [i \in Inums |-> 0], size |-> [i \in Inums |-> 0],
   addrs |-> [i \in Inums |-> NoAddrs], ref |-> [i \in Inums |-> 0], panic |-> ""]

\* main() of mkfs: the root directory and the given files, a sequence; the size of
\* the root directory is rounded up to the next block.
MkRoot ==
  Iappend(MkIalloc(EmptyDisk, ROOTINO, "dir"), ROOTINO,
          <<Entry(".", ROOTINO), Entry("..", ROOTINO)>>)
Mkfs(files) ==
  [FoldLeft(MkFile, MkRoot, files) EXCEPT !.size[ROOTINO] = ((@ \div BSIZE) + 1) * BSIZE]

-----------------------------------------------------------------------------
(* What fsck would check *)

\* What all directories hold: the directory, the entry and its offset.
Directories(k) == {d \in Inums : k.type[d] = "dir"}
Entries(k) ==
  UNION {{<<d, Cell(k, d, o), o>> : o \in 0 .. (k.size[d] - 1)} : d \in Directories(k)}

\* The links of an inode: the entries that name it, without "." and without the ".." of
\* the root and of a removed directory.
Links(k, entries) ==
  {e \in entries :
     /\ InumOf(e[2]) # 0
     /\ NameOf(e[2]) # "."
     /\ NameOf(e[2]) = ".." => e[1] # ROOTINO /\ k.nlink[e[1]] > 0}

LinksExact(k, links) ==
  /\ \A e \in links : k.type[InumOf(e[2])] # "free"
  /\ \A i \in Inums : k.type[i] # "free" =>
       k.nlink[i] = Cardinality({e \in links : InumOf(e[2]) = i})
                      + (IF i = ROOTINO THEN 1 ELSE 0)

\* No block is listed twice, and the blocks listed are those that the bitmap says.
BlocksExact(k, lists) ==
  /\ FoldLeft(LAMBDA n, l : n + Len(l), 0, lists) = Cardinality(k.used) - NMETA
  /\ k.used = 0 .. (NMETA - 1) \cup UNION {ToSet(lists[i]) : i \in DOMAIN lists}

\* Every data block in use belongs to one inode, and once; every link count is the
\* number of links; every inode in use has a link or is referenced.
Consistent(k) ==
  /\ BlocksExact(k, [i \in 1 .. (NINODES - 1) |-> Owned(k, i)])
  /\ LinksExact(k, Links(k, Entries(k)))
  /\ \A i \in Inums : IF k.type[i] = "free" THEN k.ref[i] = 0 ELSE k.nlink[i] + k.ref[i] > 0

=============================================================================
