-------------------------------- MODULE Mkfs --------------------------------
(***************************************************************************)
(* mkfs/mkfs.c: the file system image the kernel boots from.  An image has *)
(* the inodes, the data blocks, and the counters freeinode and freeblock.  *)
(***************************************************************************)
EXTENDS Fs

CONSTANT Programs       \* the files on mkfs's command line: <<name, cells>>

Empty ==
  [dinode |-> [i \in Inums |-> NoInode],
   blk |-> [b \in DataBlocks |-> ZeroBlock],
   freeinode |-> 1, freeblock |-> BBLOCK + 1]

mkfs_ialloc(im, type) ==
  [im EXCEPT !.freeinode = @ + 1,
             !.dinode[im.freeinode] = [NoInode EXCEPT !.type = type, !.nlink = 1]]

(* iappend() of one cell.                                                  *)
iappend(im, i, cell) ==
  LET off == im.dinode[i].size
      fbn == off \div BSIZE
      direct == IF fbn < NDIRECT THEN fbn ELSE NDIRECT
      a == IF im.dinode[i].addrs[direct] # 0 THEN im
           ELSE [im EXCEPT !.dinode[i].addrs[direct] = im.freeblock, !.freeblock = @ + 1]
      slot == a.dinode[i].addrs[NDIRECT]
      b == IF fbn < NDIRECT \/ a.blk[slot][fbn - NDIRECT] # Zero THEN a
           ELSE [a EXCEPT !.blk[slot][fbn - NDIRECT] = <<a.freeblock, "">>,
                          !.freeblock = @ + 1]
      x == IF fbn < NDIRECT THEN b.dinode[i].addrs[fbn] ELSE b.blk[slot][fbn - NDIRECT][1]
  IN [b EXCEPT !.blk[x][off % BSIZE] = cell, !.dinode[i].size = off + 1]

AddFile(im, file) ==
  LET i == im.freeinode
      named == iappend(mkfs_ialloc(im, "file"), ROOTINO, <<i, file[1]>>)
  IN FoldLeft(LAMBDA l, c : iappend(l, i, c), named, file[2])

(* The size of the root directory is rounded up: it ends with free entries.*)
mkfs ==
  LET root == mkfs_ialloc(Empty, "dir")
      dots == iappend(iappend(root, ROOTINO, <<ROOTINO, ".">>), ROOTINO, <<ROOTINO, "..">>)
      full == FoldLeft(AddFile, dots, Programs)
  IN [full EXCEPT !.dinode[ROOTINO].size = (@ \div BSIZE + 1) * BSIZE]
=============================================================================
