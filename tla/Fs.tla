--------------------------------- MODULE Fs ---------------------------------
(***************************************************************************)
(* The file system of fs/fs.c over the block cache of fs/bc.c, with a      *)
(* crash between any two writes to the disk.                               *)
(*                                                                         *)
(* The block cache maps the whole disk and evicts nothing, so the server   *)
(* sees one image of the file system (cache) and flush_block copies blocks *)
(* of it to the other (disk).  An image holds the bitmap, the File structs *)
(* of the directory blocks and the contents of all other blocks: zeroes or *)
(* pointers, or the name of the file whose data was written there.         *)
(*                                                                         *)
(* A handler of the server is one action; every flush in it leaves an      *)
(* image of the disk, and Crash is the handler cut short after one of      *)
(* them.  Sizes and offsets are in blocks.  The root directory has room:   *)
(* the File structs are File, each in the directory block DirBlk[f].       *)
(***************************************************************************)
EXTENDS Integers, Sequences, FiniteSets
LOCAL INSTANCE SequencesExt
LOCAL INSTANCE FiniteSetsExt

CONSTANTS
  File,        \* the File structs of the root directory
  NBlocks,     \* s_nblocks; 0 is no block, 1 the superblock, 2.. the bitmap
  DirBlk,      \* [File -> block]: the directory block of the struct
  BLKBITSIZE,  \* blocks whose bits are in one block of the bitmap
  NDIRECT, NINDIRECT,
  MaxOps       \* bound: requests that are served

Blk == 1 .. NBlocks - 1
BitmapBlk(b) == 2 + (b \div BLKBITSIZE)
Reserved == {1} \cup {BitmapBlk(b) : b \in Blk} \cup {DirBlk[f] : f \in File}

ASSUME FsAssumption ==
  /\ NBlocks \in Nat /\ BLKBITSIZE \in Nat \ {0} /\ NDIRECT \in Nat \ {0} /\ NINDIRECT \in Nat
  /\ MaxOps \in Nat
  /\ DirBlk \in [File -> Blk] /\ Reserved \subseteq Blk
  /\ \A f \in File : DirBlk[f] \notin {1} \cup {BitmapBlk(b) : b \in Blk}

VARIABLES
  cache, disk,   \* images
  up,            \* the server runs
  ops,           \* requests served
  crashed,       \* history: it has crashed before
  durable        \* [File -> set]: history, the contents as of the last flush

vars == <<cache, disk, up, ops, crashed, durable>>

MaxSize == NDIRECT + NINDIRECT   \* MAXFILESIZE: the blocks a file has slots for
MaxAsked == MaxSize + 1           \* bound: the largest size a request asks for
Zeroes == [i \in 0 .. NINDIRECT - 1 |-> 0]
EmptyFile == [named |-> FALSE, size |-> 0,
              direct |-> [i \in 0 .. NDIRECT - 1 |-> 0], indirect |-> 0]

\* A new disk: fsformat leaves the reserved blocks in use.
Formatted ==
  [free |-> Blk \ Reserved, inode |-> [f \in File |-> EmptyFile], blk |-> [b \in Blk |-> Zeroes]]

-----------------------------------------------------------------------------
(* Images.  A handler works on s = [c, d, log]: cache, disk and the images *)
(* of the disk after each of its writes.                                   *)

\* Disk image d with block b as it is in image c.
Written(c, d, b) ==
  [free |-> {x \in Blk : x \in (IF BitmapBlk(x) = b THEN c.free ELSE d.free)},
   inode |-> [f \in File |-> IF DirBlk[f] = b THEN c.inode[f] ELSE d.inode[f]],
   blk |-> [x \in Blk |-> IF x = b THEN c.blk[x] ELSE d.blk[x]]]

flush_block(s, b) ==
  LET d == Written(s.c, s.d, b)
  IN  [s EXCEPT !.d = d, !.log = @ \cup {d}]

\* What the slot of file block n holds; 0 when file_block_walk finds no slot, with
\* n out of range or no indirect block.  Data taken for an indirect block gives a
\* number that is no block.
Ptr(c, f, n) ==
  LET i == c.inode[f].indirect
  IN  IF n < NDIRECT THEN c.inode[f].direct[n]
      ELSE IF n >= MaxSize \/ i = 0 THEN 0
      ELSE IF c.blk[i] \in File THEN NBlocks ELSE c.blk[i][n - NDIRECT]

WithPtr(c, f, n, b) ==
  IF n < NDIRECT THEN [c EXCEPT !.inode[f].direct[n] = b]
  ELSE [c EXCEPT !.blk[c.inode[f].indirect][n - NDIRECT] = b]

block_is_free(c, b) == b \in Blk /\ b \in c.free

\* Mutants: the bitmap is not flushed; the bit is not cleared.
AllocatedUnflushed(s, b) == [s EXCEPT !.c.free = @ \ {b}]
AllocatedUnmarked(s, b) == flush_block(s, 2)
Allocated(s, b) == flush_block([s EXCEPT !.c.free = @ \ {b}], 2)

\* alloc_block: the state and the block, 0 for -E_NO_DISK.
alloc_block(s) ==
  LET free == {b \in Blk : block_is_free(s.c, b)}
  IN  IF free = {} THEN [s |-> s, b |-> 0]
      ELSE [s |-> Allocated(s, Min(free)), b |-> Min(free)]

\* With alloc: an indirect block if n needs one.  Not ok for -E_INVAL, when n is out
\* of range, and for -E_NO_DISK.
file_block_walk(s, f, n) ==
  LET a == alloc_block(s)
  IN  IF n >= MaxSize THEN [s |-> s, ok |-> FALSE]
      ELSE IF n < NDIRECT \/ s.c.inode[f].indirect # 0 THEN [s |-> s, ok |-> TRUE]
      ELSE IF a.b = 0 THEN [s |-> s, ok |-> FALSE]
      ELSE [s |-> [a.s EXCEPT !.c.inode[f].indirect = a.b, !.c.blk[a.b] = Zeroes], ok |-> TRUE]

\* The block is not cleared: it holds what its last owner wrote.
file_get_block(s, f, n) ==
  LET w == file_block_walk(s, f, n)
      a == alloc_block(w.s)
  IN  IF ~w.ok \/ Ptr(w.s.c, f, n) # 0 THEN w
      ELSE IF a.b = 0 THEN [s |-> w.s, ok |-> FALSE]
      ELSE [s |-> [a.s EXCEPT !.c = WithPtr(a.s.c, f, n, a.b)], ok |-> TRUE]

\* What file_free_block frees from block n to the old end, and the indirect block.
\* Mutants: the indirect block is forgotten; a hole is freed.
FreedNotIndirect(c, f, n) == {Ptr(c, f, k) : k \in n .. c.inode[f].size - 1} \ {0}
FreedHoles(c, f, n) == {Ptr(c, f, k) : k \in n .. c.inode[f].size - 1}
Freed(c, f, n) ==
  ({Ptr(c, f, k) : k \in n .. c.inode[f].size - 1}
     \cup (IF n <= NDIRECT THEN {c.inode[f].indirect} ELSE {})) \ {0}

\* Mutant: the pointers stay.
truncate_keeps_pointers(c, f, n) == [c EXCEPT !.free = @ \cup Freed(c, f, n)]
file_truncate_blocks(c, f, n) ==
  LET ind == c.inode[f].indirect
      cut == n .. c.inode[f].size - 1
      t == [c EXCEPT !.free = @ \cup Freed(c, f, n),
                     !.inode[f].direct = [k \in DOMAIN @ |-> IF k \in cut THEN 0 ELSE @[k]],
                     !.inode[f].indirect = IF n <= NDIRECT THEN 0 ELSE @]
  IN  IF ind = 0 THEN t
      ELSE [t EXCEPT !.blk[ind] = [k \in DOMAIN @ |-> IF k + NDIRECT \in cut THEN 0 ELSE @[k]]]

\* Mutant: the struct is not written.
file_set_size_unflushed(s, f, n) ==
  LET c == IF s.c.inode[f].size > n THEN file_truncate_blocks(s.c, f, n) ELSE s.c
  IN  [s EXCEPT !.c = [c EXCEPT !.inode[f].size = n]]
file_set_size(s, f, n) ==
  LET c == IF s.c.inode[f].size > n THEN file_truncate_blocks(s.c, f, n) ELSE s.c
  IN  flush_block([s EXCEPT !.c = [c EXCEPT !.inode[f].size = n]], DirBlk[f])

-----------------------------------------------------------------------------
(* Handlers.                                                               *)

Now == [c |-> cache, d |-> disk, log |-> {}]

Flushed(s, blocks) == FoldLeft(flush_block, s, blocks)

\* The data blocks, the File struct, then the indirect block.
\* Mutant: the indirect block is not written.
file_flush_no_indirect(s, f) ==
  LET I == s.c.inode[f]
      data == SelectSeq([k \in 1 .. I.size |-> Ptr(s.c, f, k - 1)], LAMBDA b : b # 0)
  IN  Flushed(s, Append(data, DirBlk[f]))
file_flush(s, f) ==
  LET I == s.c.inode[f]
      data == SelectSeq([k \in 1 .. I.size |-> Ptr(s.c, f, k - 1)], LAMBDA b : b # 0)
  IN  Flushed(s, Append(data, DirBlk[f]) \o (IF I.indirect = 0 THEN <<>> ELSE <<I.indirect>>))

\* dir_alloc_file, the name, and file_flush of the directory.
file_create(s, f) ==
  Flushed([s EXCEPT !.c.inode[f].named = TRUE], SetToSortSeq({DirBlk[g] : g \in File}, <))

\* file_write of one block at offset n.  The size grows and is flushed before the
\* block is there, and stays when the disk is full or no slot is left for it.
file_write(s, f, n) ==
  LET g == file_get_block(IF n >= s.c.inode[f].size THEN file_set_size(s, f, n + 1) ELSE s, f, n)
  IN  IF g.ok THEN [g.s EXCEPT !.c.blk[Ptr(g.s.c, f, n)] = f] ELSE g.s

file_remove(s, f) ==
  LET c == file_truncate_blocks(s.c, f, 0)
  IN  flush_block([s EXCEPT !.c = [c EXCEPT !.inode[f].named = FALSE, !.inode[f].size = 0]],
                  DirBlk[f])

fs_sync(s) == Flushed(s, [b \in 1 .. NBlocks - 1 |-> b])

-----------------------------------------------------------------------------
Contents(c, f) ==
  [named |-> c.inode[f].named,
   blocks |-> [k \in 0 .. c.inode[f].size - 1 |->
                 IF Ptr(c, f, k) \in Blk THEN {c.blk[Ptr(c, f, k)]} ELSE {}]]

Init ==
  /\ cache = Formatted /\ disk = Formatted
  /\ up = TRUE /\ crashed = FALSE /\ ops = 0
  /\ durable = [f \in File |-> {}]

\* The handler runs to its end, or the machine stops after one of its writes.
\* D is what is durable when it starts, Done at its end.
Handle(s, D, Done) ==
  /\ up
  /\ ops < MaxOps /\ ops' = ops + 1
  /\ \/ /\ cache' = s.c /\ disk' = s.d /\ durable' = Done
        /\ UNCHANGED <<up, crashed>>
     \/ \E image \in s.log \cup {disk} :
          /\ cache' = image /\ disk' = image /\ durable' = D
          /\ up' = FALSE /\ crashed' = TRUE

Touched(f) == [durable EXCEPT ![f] = {}]

\* Of a new file, and of an old one with O_TRUNC.
serve_open(f) ==
  \/ /\ ~cache.inode[f].named
     /\ Handle(file_create(Now, f), Touched(f), Touched(f))
  \/ /\ cache.inode[f].named
     /\ Handle(file_set_size(Now, f, 0), Touched(f), Touched(f))

serve_set_size(f) ==
  \E n \in 0 .. MaxAsked :
    /\ cache.inode[f].named
    /\ Handle(file_set_size(Now, f, n), Touched(f), Touched(f))

serve_write(f) ==
  \E n \in 0 .. MaxAsked - 1 :
    /\ cache.inode[f].named
    /\ Handle(file_write(Now, f, n), Touched(f), Touched(f))

\* file_read fills a hole with a block.
serve_read(f) ==
  \E n \in 0 .. cache.inode[f].size - 1 :
    /\ cache.inode[f].named /\ Ptr(cache, f, n) = 0
    /\ Handle(file_get_block(Now, f, n).s, Touched(f), Touched(f))

serve_flush(f) ==
  /\ cache.inode[f].named
  /\ Handle(file_flush(Now, f), durable, [durable EXCEPT ![f] = {Contents(cache, f)}])

serve_remove(f) ==
  /\ cache.inode[f].named
  /\ Handle(file_remove(Now, f), Touched(f), Touched(f))

serve_sync == Handle(fs_sync(Now), durable, [f \in File |-> {Contents(cache, f)}])

\* Blocks a file points to, by slot; StructSlots are those in the File struct.
Indirect == -1
Slots == {Indirect} \cup (0 .. MaxSize - 1)
StructSlots == {Indirect} \cup (0 .. NDIRECT - 1)
At(c, f, k) == IF k = Indirect THEN c.inode[f].indirect ELSE Ptr(c, f, k)
Held(c, K) == {x \in File \X K : At(c, x[1], x[2]) # 0}
RefsOf(c, K) == {At(c, x[1], x[2]) : x \in Held(c, K)}
Refs(c) == RefsOf(c, Slots)

AllInUse(c) == Refs(c) \subseteq Blk \ c.free
\* As many blocks as slots that hold one.
NoneShared(c, K) == Cardinality(RefsOf(c, K)) = Cardinality(Held(c, K))

\* The machine starts again: fs_init looks at the superblock and at the bits of the
\* reserved blocks, which no request changes, and at nothing else of the disk.
Restart ==
  /\ ~up
  /\ up' = TRUE
  /\ UNCHANGED <<cache, disk, ops, crashed, durable>>

Handlers ==
  \/ \E f \in File :
       serve_open(f) \/ serve_set_size(f) \/ serve_write(f) \/ serve_read(f) \/ serve_flush(f) \/ serve_remove(f)
  \/ serve_sync

(* The code restarts from any disk, as AnyNext does.  A crash may leave a   *)
(* disk where entries of an indirect block are out of date (ReadsAllocated  *)
(* and NoSharedBlock then fail, FsCrash.cfg); Next goes on only from disks  *)
(* whose pointers are right, and says what holds as long as they are.       *)
RightDisk == AllInUse(disk) /\ NoneShared(disk, Slots)
Next == Handlers \/ (Restart /\ RightDisk)
AnyNext == Handlers \/ Restart

Spec == Init /\ [][Next]_vars
AnySpec == Init /\ [][AnyNext]_vars

-----------------------------------------------------------------------------
TypeOK ==
  /\ \A c \in {cache, disk} :
       /\ c.free \subseteq Blk \ Reserved
       /\ \A f \in File : /\ c.inode[f].size \in Nat
                          /\ c.inode[f].indirect \in Blk \cup {0}
                          /\ c.inode[f].direct \in [0 .. NDIRECT - 1 -> Blk \cup {0}]
  /\ up \in BOOLEAN /\ crashed \in BOOLEAN /\ ops \in 0 .. MaxOps

\* No block belongs to two files, or to two places of one file, through any
\* sequence of requests on a disk that fills up, also past MAXFILESIZE and after
\* restarts from right disks.  Whatever write a crash comes after, the File structs
\* on the disk share no block.  (The entries of their indirect blocks may: see Next.)
NoSharedBlock ==
  /\ up => NoneShared(cache, Slots)
  /\ NoneShared(disk, StructSlots)

\* A block that a file points to is in use in the bitmap: bc_pgfault panics with
\* "reading free block", diskaddr with "bad block number".  After a crash this is
\* what AnySpec violates; under Spec it is about the requests.
ReadsAllocated == up => AllInUse(cache)

\* Without a crash no block is lost: truncation and removal, of a file left
\* half-extended by a full disk too, give back every block.
NoneLeaked == ~crashed => Blk \ Reserved = cache.free \cup Refs(cache)

\* alloc_block flushes the bitmap: a block in use is never free on the disk.
DiskFreeIsFree == up => disk.free \subseteq cache.free

\* At every moment the File structs on the disk point to blocks that are in
\* use there: a crash finds no struct with a block that is handed out again.
DiskStructsInUse ==
  \A f \in File :
    LET I == disk.inode[f]
    IN  ({I.direct[k] : k \in DOMAIN I.direct} \cup {I.indirect}) \cap disk.free = {}

\* What file_flush or fs_sync has written is on the disk until the file is
\* changed again, whatever is done to other files and whatever write a crash
\* comes after, up to a restart from a disk that is not right.
FlushedSurvives ==
  \A f \in File : durable[f] \subseteq {Contents(disk, f)}
=============================================================================
