--------------------------------- MODULE Fs ---------------------------------
(***************************************************************************)
(* kernel/fs.c: blocks, inodes, directories and paths.  A kernel state is  *)
(* a record k; each C function is an operator from the state before the    *)
(* call to the state after it, with the value it returns in k.v.           *)
(*                                                                         *)
(* A cell is what one entry of a block holds: a directory entry <<inum,    *)
(* name>>, an address <<block, "">> of an indirect block, or a unit of     *)
(* file data <<0, letter>>.  A path is its sequence of elements, with "/"  *)
(* in front if it is absolute.                                             *)
(***************************************************************************)
EXTENDS Integers, Sequences, FiniteSets, SequencesExt

CONSTANTS BSIZE,        \* cells in a block
          NDIRECT,
          IPB,          \* inodes in a block
          NINODES,      \* sb.ninodes
          NBLOCKS,      \* data blocks on the disk
          NINODE,       \* entries of itable
          MAXOPBLOCKS

ASSUME FsAssumption ==
  /\ {BSIZE, NDIRECT, IPB, NINODE, NBLOCKS} \subseteq Nat \ {0}
  /\ NINODES \in Nat /\ NINODES > 1
  /\ MAXOPBLOCKS \in Nat /\ MAXOPBLOCKS >= 6

NINDIRECT == BSIZE
MAXFILE == NDIRECT + NINDIRECT
ROOTINO == 1
Inums == 1 .. NINODES - 1

(* The disk: inode blocks, the bitmap block, data blocks.                  *)
IBLOCK(i) == 2 + i \div IPB
BBLOCK == IBLOCK(NINODES) + 1
DataBlocks == BBLOCK + 1 .. BBLOCK + NBLOCKS

Zero == <<0, "">>
ZeroBlock == [c \in 0 .. BSIZE - 1 |-> Zero]
NoAddrs == [n \in 0 .. NDIRECT |-> 0]
NoInode == [type |-> "none", major |-> 0, nlink |-> 0, size |-> 0, addrs |-> NoAddrs]

Return(k, v) == [k EXCEPT !.v = v]
Panic(k, why) == [k EXCEPT !.panic = IF @ = "" THEN why ELSE @, !.v = 0]

-----------------------------------------------------------------------------
(* Transactions: what log.c requires of its callers.  How it makes them    *)
(* atomic is the subject of module Log.                                    *)
begin_op(k) ==
  IF k.intrans THEN Panic(k, "begin_op inside begin_op")
  ELSE [k EXCEPT !.intrans = TRUE, !.logged = {}]

log_write(k, b) ==
  IF k.intrans THEN [k EXCEPT !.logged = @ \cup {b}]
  ELSE Panic(k, "log_write outside of trans")

end_op(k) ==
  [k EXCEPT !.intrans = FALSE, !.logged = {},
            !.fits = @ /\ Cardinality(k.logged) < MAXOPBLOCKS]

-----------------------------------------------------------------------------
(* Blocks.                                                                 *)
balloc(k) ==
  LET free == DataBlocks \ k.bitmap
      b == Min(free)
  IN IF free = {} THEN Panic(k, "balloc: out of blocks")
     ELSE [log_write(log_write(k, BBLOCK), b) EXCEPT
             !.bitmap = @ \cup {b}, !.blk[b] = ZeroBlock, !.v = b]

(* bfree() of each block of B.                                             *)
bfree(k, B) ==
  IF B = {} THEN k
  ELSE IF ~ B \subseteq k.bitmap THEN Panic(k, "freeing free block")
  ELSE [log_write(k, BBLOCK) EXCEPT !.bitmap = @ \ B]

-----------------------------------------------------------------------------
(* Inodes: k.dinode on disk, k.inode in memory.                            *)
OnDisk(ip) == [f \in DOMAIN NoInode |-> ip[f]]

iupdate(k, i) ==
  log_write([k EXCEPT !.dinode[i] = OnDisk(k.inode[i])], IBLOCK(i))

iget(k, i) ==
  IF k.inode[i].ref > 0 THEN [k EXCEPT !.inode[i].ref = @ + 1, !.v = i]
  ELSE IF Cardinality({j \in Inums : k.inode[j].ref > 0}) = NINODE
    THEN Panic(k, "iget: no inodes")
  ELSE [k EXCEPT !.inode[i].ref = 1, !.inode[i].valid = FALSE, !.v = i]

idup(k, i) == [k EXCEPT !.inode[i].ref = @ + 1, !.v = i]

ialloc(k, type) ==
  LET free == {i \in Inums : k.dinode[i].type = "none"}
      i == Min(free)
  IN IF free = {} THEN Panic(k, "ialloc: no inodes")
     ELSE iget(log_write([k EXCEPT !.dinode[i] = [NoInode EXCEPT !.type = type]],
                         IBLOCK(i)), i)

(* A process that locks an inode it has locked waits for itself.           *)
ilock(k, i) ==
  LET l == [k EXCEPT !.locked = @ \cup {i}]
  IN IF k.inode[i].ref < 1 THEN Panic(k, "ilock")
     ELSE IF i \in k.locked THEN Panic(k, "acquiresleep of a lock held")
     ELSE IF l.inode[i].valid THEN l
     ELSE IF l.dinode[i].type = "none" THEN Panic(l, "ilock: no type")
     ELSE [l EXCEPT !.inode[i] = [ref |-> @.ref, valid |-> TRUE] @@ l.dinode[i]]

iunlock(k, i) ==
  IF i \notin k.locked \/ k.inode[i].ref < 1 THEN Panic(k, "iunlock")
  ELSE [k EXCEPT !.locked = @ \ {i}]

Addrs(k, ip) ==
  LET ind == ip.addrs[NDIRECT]
      indirect == IF ind = 0 THEN {} ELSE {k.blk[ind][c][1] : c \in 0 .. NINDIRECT - 1}
  IN ({ip.addrs[n] : n \in 0 .. NDIRECT} \cup indirect) \ {0}

(* Mutant: the indirect block and the blocks it lists are not freed.       *)
itrunc_Mutant(k, i) ==
  iupdate([bfree(k, {k.inode[i].addrs[n] : n \in 0 .. NDIRECT - 1} \ {0}) EXCEPT
             !.inode[i].addrs = NoAddrs, !.inode[i].size = 0], i)

itrunc(k, i) ==
  iupdate([bfree(k, Addrs(k, k.inode[i])) EXCEPT !.inode[i].addrs = NoAddrs,
                                                 !.inode[i].size = 0], i)

ifree(k, i) ==
  [iupdate([itrunc(k, i) EXCEPT !.inode[i].type = "none"], i) EXCEPT !.inode[i].valid = FALSE]

iput(k, i) ==
  LET ip == k.inode[i]
  IN [(IF ip.ref = 1 /\ ip.valid /\ ip.nlink = 0 THEN ifree(k, i) ELSE k) EXCEPT
        !.inode[i].ref = @ - 1]

iunlockput(k, i) == iput(iunlock(k, i), i)

-----------------------------------------------------------------------------
(* Inode content.                                                          *)
(* ip->addrs[n], and entry n of the indirect block k.v.                    *)
bmap_addrs(k, i, n) ==
  LET a == k.inode[i].addrs[n]
      l == balloc(k)
  IN IF a # 0 THEN Return(k, a) ELSE [l EXCEPT !.inode[i].addrs[n] = l.v]

bmap_indirect(k, n) ==
  LET a == k.blk[k.v][n][1]
      l == balloc(k)
  IN IF a # 0 THEN Return(k, a)
     ELSE log_write([l EXCEPT !.blk[k.v][n] = <<l.v, "">>], k.v)

bmap(k, i, bn) ==
  IF bn < NDIRECT THEN bmap_addrs(k, i, bn)
  ELSE IF bn < MAXFILE THEN bmap_indirect(bmap_addrs(k, i, NDIRECT), bn - NDIRECT)
  ELSE Panic(k, "bmap: out of range")

(* The cell at offset o of an inode; a block that is missing reads as Zero *)
(* (BlocksBalance says that none is).                                      *)
Cell(k, ip, o) ==
  LET bn == o \div BSIZE
      b == IF bn < NDIRECT THEN ip.addrs[bn]
           ELSE IF ip.addrs[NDIRECT] = 0 THEN 0
           ELSE k.blk[ip.addrs[NDIRECT]][bn - NDIRECT][1]
  IN IF b = 0 THEN Zero ELSE k.blk[b][o % BSIZE]

(* The cells read are left in k.buf; -1 if the copy out fails.             *)
readi(k, i, off, n, badaddr) ==
  LET ip == k.inode[i]
      m == IF off > ip.size THEN 0 ELSE Min({n, ip.size - off})
  IN IF m > 0 /\ badaddr THEN Return(k, -1)
     ELSE [k EXCEPT !.v = m, !.buf = [c \in 1 .. m |-> Cell(k, ip, off + c - 1)]]

(* Block by block; a failing copy in ends the loop after bmap() has added  *)
(* the block.                                                              *)
writei(k, i, off, data, badaddr) ==
  LET n == Len(data)
      first == off \div BSIZE
      blocks == IF n = 0 THEN 0 ELSE (off + n - 1) \div BSIZE - first + 1
      copyin(l, bn) ==
        log_write([l EXCEPT !.blk[l.v] =
          [c \in 0 .. BSIZE - 1 |->
             LET o == bn * BSIZE + c - off
             IN IF o \in 0 .. n - 1 THEN data[o + 1] ELSE @[c]]], l.v)
      chunk(l, bn) == copyin(bmap(l, i, bn), bn)
      tot == IF badaddr THEN 0 ELSE n
  IN IF off > k.inode[i].size \/ off + n > MAXFILE * BSIZE THEN Return(k, -1)
     ELSE Return(iupdate([(IF n > 0 /\ badaddr THEN bmap(k, i, first)
                           ELSE FoldLeft(chunk, k, [j \in 1 .. blocks |-> first + j - 1]))
                          EXCEPT !.inode[i].size = Max({@, off + tot})], i), tot)

-----------------------------------------------------------------------------
(* Directories.                                                            *)
Entries(k, ip, name) ==
  {o \in 0 .. ip.size - 1 : Cell(k, ip, o)[1] # 0 /\ Cell(k, ip, o)[2] = name}

(* The offset dirlookup() stores in *poff.                                 *)
Offset(k, d, name) == Min(Entries(k, k.inode[d], name))

dirlookup(k, d, name) ==
  LET dp == k.inode[d]
  IN IF dp.type # "dir" THEN Panic(k, "dirlookup not DIR")
     ELSE IF Entries(k, dp, name) = {} THEN Return(k, 0)
     ELSE iget(k, Cell(k, dp, Offset(k, d, name))[1])

dirlink_written(w) == IF w.v # 1 THEN Panic(w, "dirlink") ELSE Return(w, 0)

dirlink(k, d, name, inum) ==
  LET l == dirlookup(k, d, name)
      dp == k.inode[d]
      off == Min({o \in 0 .. dp.size : o = dp.size \/ Cell(k, dp, o)[1] = 0})
  IN IF l.v # 0 THEN Return(iput(l, l.v), -1)
     ELSE dirlink_written(writei(l, d, off, <<<<inum, name>>>>, FALSE))

isdirempty(k, d) ==
  \A o \in 2 .. k.inode[d].size - 1 : Cell(k, k.inode[d], o)[1] = 0

-----------------------------------------------------------------------------
(* Paths.                                                                  *)
Long == "123456789012345"       \* an element of DIRSIZ + 1 characters

(* Mutant: long elements are kept whole.                                   *)
Truncate_Mutant(name) == name

(* skipelem() cuts an element to DIRSIZ characters.                        *)
Truncate(name) == IF name = Long THEN "12345678901234" ELSE name

Elements(path) == SelectSeq(path, LAMBDA e : e # "/")
LastElement(path) == Truncate(Last(Elements(path)))

(* One iteration of the loop of namex(), from directory k.v (0 if the walk *)
(* has failed).                                                            *)
walk_locked(k, d, name) ==
  LET l == dirlookup(k, d, name)
  IN IF k.inode[d].type # "dir" THEN Return(iunlockput(k, d), 0)
     ELSE Return(iunlockput(l, d), l.v)

walk(k, name) ==
  IF k.v = 0 THEN k ELSE walk_locked(ilock(k, k.v), k.v, Truncate(name))

Origin(k, p, path) ==
  IF path # <<>> /\ Head(path) = "/" THEN iget(k, ROOTINO) ELSE idup(k, k.cwd[p])

namei(k, p, path) == FoldLeft(walk, Origin(k, p, path), Elements(path))

(* The walk is at the directory k.v of the last element.                   *)
namex_parent(k) ==
  LET m == ilock(k, k.v)
  IN IF k.v = 0 THEN k
     ELSE IF m.inode[k.v].type # "dir" THEN Return(iunlockput(m, k.v), 0)
     ELSE Return(iunlock(m, k.v), k.v)

nameiparent(k, p, path) ==
  LET l == Origin(k, p, path)
  IN IF Elements(path) = <<>> THEN Return(iput(l, l.v), 0)
     ELSE namex_parent(FoldLeft(walk, l, Front(Elements(path))))
=============================================================================
