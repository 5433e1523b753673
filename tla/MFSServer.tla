------------------------------ MODULE MFSServer ------------------------------
(***************************************************************************)
(* The file server of server.c over the disk image that mkfs.c lays out:   *)
(* one process that takes a request off its UDP socket, runs the handler   *)
(* of its type to the end against the image and sends the message back.    *)
(* One action is one whole handler, every lseek/read/write in it included. *)
(*                                                                         *)
(* Data is counted in cells of sizeof(dir_ent_t) = 32 bytes: a block of a  *)
(* directory is BlockSize entries, a block of a file is BlockSize cells of *)
(* its contents.  Block numbers in a bitmap are relative to the data       *)
(* region, those in an inode's direct array are absolute, as in the code.  *)
(***************************************************************************)
EXTENDS Integers, FiniteSetsExt

CONSTANTS
    NumInodes,        \* num_inodes of the super block
    NumData,          \* num_data of the super block
    DirectPtrs,       \* DIRECT_PTRS
    BlockSize,        \* BLOCKSIZE, in cells
    DataRegionAddr,   \* data_region_addr, the absolute number of data block 0
    Names,            \* names that clients use
    CreatTypes,       \* file types that clients ask MFS_Creat for
    Payload,          \* cells that clients write to files
    Offsets,          \* offsets of reads and writes, in cells
    Lengths,          \* lengths of reads and writes, in cells
    MaxSize,          \* bound of the model: files of this size are not written to
    NulCells,         \* those of Payload that contain a NUL byte
    HeapCells,        \* what lies in the heap behind a strdup'ed string
    StaleInodes,      \* what mkfs leaves in the inodes it does not use
    StackNames,       \* what mkfs leaves in the names of unused root entries
    StackBlocks,      \* what an uninitialised block buffer may hold
    StackInts,        \* what an uninitialised block number may hold
    OutsideBlocks,    \* what a read outside the data region may return
    Unset             \* a field of the reply that the handler did not assign

MFS_DIRECTORY    == 0
MFS_REGULAR_FILE == 1

Inums      == 0 .. NumInodes - 1
DataBlocks == 0 .. NumData - 1
Ptrs       == 0 .. DirectPtrs - 1
Slots      == 0 .. BlockSize - 1
MaxOffset  == DirectPtrs * BlockSize

(* The cells of block 0 that hold the super_t, 40 bytes.                   *)
SuperCells == {0, 1}

(* What direct[k] of an inode may be: unused (0, or -1 in the root inode), *)
(* the absolute number of a data block, or a number that mkfs left there,  *)
(* which may be that of any block or none.                                 *)
DataAddrs    == {b + DataRegionAddr : b \in DataBlocks}
LeftoverPtrs == {ino.direct[k] : ino \in StaleInodes, k \in Ptrs}
Pointers     == {0, -1} \cup DataAddrs \cup LeftoverPtrs

Entry(name, inum) == [name |-> name, inum |-> inum]
EntryNames == Names \cup StackNames \cup {".", "..", ""}
Cells      == [name : EntryNames, inum : Int]
ZeroCell   == Entry("", 0)
Blocks     == [Slots -> Cells]
Inodes     == [type : Int, size : Int, direct : [Ptrs -> Pointers]]

ASSUME SizesAssumption ==
    /\ NumInodes \in Nat \ {0}
    /\ NumData \in Nat \ {0}
    /\ DirectPtrs \in Nat \ {0}
    /\ BlockSize \in Nat /\ BlockSize >= 2
    /\ DataRegionAddr \in Nat \ {0}

ASSUME RequestsAssumption ==
    /\ CreatTypes \subseteq Int
    /\ Payload \subseteq Cells
    /\ NulCells \subseteq Payload
    /\ Offsets \subseteq Nat
    /\ Lengths \subseteq 0 .. BlockSize
    /\ MaxSize \in Nat
    /\ Unset \notin Int

ASSUME LeftoversAssumption ==
    /\ HeapCells \subseteq Cells
    /\ StaleInodes \subseteq [type : Int, size : Int, direct : [Ptrs -> Int]]
    /\ StackBlocks \subseteq Blocks
    /\ StackInts \subseteq Int
    /\ OutsideBlocks \subseteq Blocks

VARIABLES
    mode,           \* "up", "down", or "lost": up on a super block or on tables
                    \* that a write through a wrong block number went to
    frontIntact,    \* no such write went in front of the data region
    inodeBitmap,    \* inode numbers whose bit is set
    dataBitmap,     \* data blocks (relative) whose bit is set
    inodeTable,     \* the inode region
    dataRegion,     \* the data region, by relative block number
    m               \* the last message_t, request and reply

disk == <<frontIntact, inodeBitmap, dataBitmap, inodeTable, dataRegion>>
vars == <<mode, disk, m>>
-----------------------------------------------------------------------------
(***************************************************************************)
(* mkfs.c: the image a server starts from.  Only the root inode is written *)
(* in the first inode block; the rest of it is what was on mkfs's stack.   *)
(***************************************************************************)
RootInode ==
    [type |-> MFS_DIRECTORY, size |-> 2,
     direct |-> [k \in Ptrs |-> IF k = 0 THEN DataRegionAddr ELSE -1]]

RootBlock(junk) ==
    [j \in Slots |-> IF j = 0 THEN Entry(".", 0)
                     ELSE IF j = 1 THEN Entry("..", 0) ELSE Entry(junk, -1)]

Init ==
    /\ mode = "down"
    /\ frontIntact = TRUE
    /\ inodeBitmap = {0}
    /\ dataBitmap = {0}
    /\ \E stale \in [Inums \ {0} -> StaleInodes] :
         inodeTable = [i \in Inums |-> IF i = 0 THEN RootInode ELSE stale[i]]
    /\ \E junk \in StackNames :
         dataRegion = [b \in DataBlocks |-> IF b = 0 THEN RootBlock(junk)
                                            ELSE [j \in Slots |-> ZeroCell]]
    /\ m = [mtype |-> "INIT", rc |-> 0]
-----------------------------------------------------------------------------
(***************************************************************************)
(* Helpers of the handlers.                                                *)
(***************************************************************************)
Rel(addr)  == addr - DataRegionAddr
Hole(addr) == addr \in {0, -1}

(* mkfs left no pointer in the inodes it does not use.                     *)
NoLeftovers == \A addr \in LeftoverPtrs : Hole(addr)

(* A write to these cells of the block at addr spoils what lies in front   *)
(* of the data region: the super block, or a bitmap or the inode table,    *)
(* where it is astray.  A negative offset makes lseek fail, and the cells  *)
(* go where the call before has left the file.  Behind the data region     *)
(* they are in a longer file.  (An uninitialised number stands for the one *)
(* that its multiplication by BLOCKSIZE, in int, makes of it.)             *)
Spoils(addr, cells) ==
    /\ cells # {}
    /\ addr < DataRegionAddr
    /\ addr = 0 => cells \cap SuperCells # {}
Astray(addr, cells) == addr # 0 /\ Spoils(addr, cells)

(* What a handler's writes, <<address, cells>>, do outside the data region.*)
(* After one that went astray the server takes bits and inodes for what    *)
(* they are not; it ends its handler and is not followed further.          *)
WritesLand(writes) ==
    /\ frontIntact' = (frontIntact /\ \A w \in writes : ~Spoils(w[1], w[2]))
    /\ mode' = IF \E w \in writes : Astray(w[1], w[2]) THEN "lost" ELSE mode

(* The blocks that a handler reads from: where a leftover pointer leads,   *)
(* it may find anything, and something else each time.                     *)
AllBlocks == DataBlocks \cup {Rel(addr) : addr \in {p \in LeftoverPtrs : ~Hole(p)}}
Views(region) ==
    {[b \in AllBlocks |-> IF b \in DataBlocks THEN region[b] ELSE outside[b]] :
       outside \in [AllBlocks \ DataBlocks -> OutsideBlocks]}

(* The check shared by write, read, lookup and create: the inode's bit in  *)
(* the inode bitmap, and the bit of the same number in the data bitmap.    *)
Served(inum) == inum \in inodeBitmap /\ inum \in dataBitmap

(* Mutants: the block found is not marked; the scan starts at the end.     *)
GetFreeDataBlock_Unmarked(bm, region, uninit) ==
    LET n == Min(DataBlocks \ bm)
    IN  IF bm = DataBlocks THEN [bm : {bm}, num : uninit, buf : StackBlocks]
        ELSE {[bm |-> bm, num |-> n, buf |-> region[n]]}
GetFreeDataBlock_FromEnd(bm, region, uninit) ==
    LET n == Max(DataBlocks \ bm)
    IN  IF bm = DataBlocks THEN [bm : {bm}, num : uninit, buf : StackBlocks]
        ELSE {[bm |-> bm \cup {n}, num |-> n, buf |-> region[n]]}

(* getFreeDirectoryEntryDataBlock... and getFreeNormalDataBlock...: the    *)
(* first block whose bit is clear, marked, with a copy of its contents.    *)
(* When there is none the -1 is ignored by every caller: the number keeps  *)
(* the value it had (one of uninit) and the buffer is what the stack held. *)
GetFreeDataBlock(bm, region, uninit) ==
    IF bm = DataBlocks
      THEN [bm : {bm}, num : uninit, buf : StackBlocks]
      ELSE LET n == Min(DataBlocks \ bm)
           IN  {[bm |-> bm \cup {n}, num |-> n, buf |-> region[n]]}

(* The direct pointers a scan of a directory follows: up to the first hole. *)
Scanned(dinode) == {k \in Ptrs : \A l \in 0 .. k : ~Hole(dinode.direct[l])}

EntryAt(region, dinode, k, j) == region[Rel(dinode.direct[k])][j]

(* The entries of a directory, in scan order, that a create may take.      *)
BlocksWithSlot(region, dinode) ==
    {k \in Scanned(dinode) :
        \E j \in Slots : EntryAt(region, dinode, k, j).inum = -1}
FirstSlotIn_OffByOne(region, dinode, k) ==    \* mutant: the slot before it
    Min({j \in Slots : EntryAt(region, dinode, k, j).inum = -1}) - 1
FirstSlotIn(region, dinode, k) ==
    Min({j \in Slots : EntryAt(region, dinode, k, j).inum = -1})

(* addDirEntryToDirectoryInode, first half: the entry goes into the first  *)
(* free slot.  With no free slot a new block gets it, whose number is only *)
(* put in the caller's copy of the parent inode, which nobody writes back; *)
(* if there is none, the number was never initialised.  The slots are      *)
(* those of the blocks seen.  An outcome says where the write went, too.   *)
AddDirEntry(bm, region, seen, dinode, entry) ==
    LET open == BlocksWithSlot(seen, dinode) IN
    IF open # {}
      THEN LET k == Min(open)
               j == FirstSlotIn(seen, dinode, k)
               addr == dinode.direct[k]
           IN  {[bm |-> bm, write |-> <<addr, {j}>>,
                 region |-> IF addr \in DataAddrs
                              THEN [region EXCEPT ![Rel(addr)][j] = entry]
                              ELSE region]}
      ELSE {[bm |-> got.bm, write |-> <<got.num + DataRegionAddr, Slots>>,
             region |-> IF got.num \in DataBlocks
                          THEN [region EXCEPT ![got.num] = [got.buf EXCEPT ![0] = entry]]
                          ELSE region] :
              got \in GetFreeDataBlock(bm, region, StackInts)}

(* Mutants: the pointer kept is relative; "." and ".." are swapped; a file *)
(* gets its first block only when it is written.                           *)
AddChild_Relative(bm, region, inum, pinum, type) ==
    {[bm |-> got.bm, region |-> [region EXCEPT ![got.num] = got.buf],
      inode |-> [type |-> MFS_REGULAR_FILE, size |-> 0,
                 direct |-> [inodeTable[inum].direct EXCEPT ![0] = got.num]]] :
       got \in GetFreeDataBlock(bm, region, {0})}
AddChild_DotsSwapped(bm, region, inum, pinum, type) ==
    {[bm |-> got.bm,
      region |-> [region EXCEPT ![got.num] = [got.buf EXCEPT ![0] = Entry(".", pinum),
                                                             ![1] = Entry("..", inum)]],
      inode |-> [type |-> MFS_DIRECTORY, size |-> 0,
                 direct |-> [inodeTable[inum].direct EXCEPT
                               ![0] = got.num + DataRegionAddr]]] :
       got \in GetFreeDataBlock(bm, region, {0})}
AddChild_Lazy(bm, region, inum, pinum, type) ==
    {[bm |-> bm, region |-> region,
      inode |-> [inodeTable[inum] EXCEPT !.type = type, !.size = 0]]}

(* addDirEntryToDirectoryInode, second half: the child's first block and   *)
(* its inode.  The rest of the inode's direct array is what the table held.*)
AddChild(bm, region, inum, pinum, type) ==
    {LET isDir == type = MFS_DIRECTORY
     IN  [bm |-> got.bm,
          region |-> [region EXCEPT ![got.num] =
                        IF isDir
                          THEN [got.buf EXCEPT ![0] = Entry(".", inum),
                                               ![1] = Entry("..", pinum)]
                          ELSE got.buf],
          inode |-> [type |-> IF isDir THEN MFS_DIRECTORY ELSE MFS_REGULAR_FILE,
                     size |-> 0,
                     direct |-> [inodeTable[inum].direct EXCEPT
                                   ![0] = got.num + DataRegionAddr]]] :
       got \in GetFreeDataBlock(bm, region, {0})}

Matches(region, dinode, k, name) ==
    {j \in Slots : EntryAt(region, dinode, k, j).name = name}
LookupResult_LastInBlock(region, dinode, name) ==    \* mutant: the newest entry wins
    LET hits == {k \in Scanned(dinode) : Matches(region, dinode, k, name) # {}}
    IN  IF hits = {} THEN Unset
        ELSE LET k == Max(hits)
             IN  EntryAt(region, dinode, k,
                         Max(Matches(region, dinode, k, name))).inum

(* What run_lookup answers: within a block the first match, among the      *)
(* blocks the last one with a match; Unset if no entry has the name.       *)
LookupResult(region, dinode, name) ==
    LET hits == {k \in Scanned(dinode) : Matches(region, dinode, k, name) # {}}
    IN  IF hits = {} THEN Unset
        ELSE LET k == Max(hits)
             IN  EntryAt(region, dinode, k,
                         Min(Matches(region, dinode, k, name))).inum

BlockIndex(offset)           == offset \div BlockSize
CrossedIndex(offset, nbytes) == (offset + nbytes) \div BlockSize

(* Mutants: the new block is not marked; its size is not counted.          *)
FillHole_Unmarked(fs, k, beyond) ==
    IF IF k \in Ptrs THEN ~Hole(fs.inode.direct[k]) ELSE ~beyond
      THEN {fs}
      ELSE {[fs EXCEPT !.inode.size = @ + BlockSize,
                       !.inode.direct = [l \in Ptrs |-> IF l = k THEN got.num + DataRegionAddr
                                                        ELSE @[l]]] :
              got \in GetFreeDataBlock(fs.bm, fs.region, {0})}
FillHole_Uncounted(fs, k, beyond) ==
    IF IF k \in Ptrs THEN ~Hole(fs.inode.direct[k]) ELSE ~beyond
      THEN {fs}
      ELSE {[fs EXCEPT !.bm = got.bm,
                       !.inode.direct = [l \in Ptrs |-> IF l = k THEN got.num + DataRegionAddr
                                                        ELSE @[l]]] :
              got \in GetFreeDataBlock(fs.bm, fs.region, {0})}

(* run_write: the block that direct[k] needs if it is a hole.  fs is the   *)
(* handler's copy of the inode with the disk below it.  direct[DirectPtrs] *)
(* lies behind the array: beyond says whether it reads as a hole, in which *)
(* case a block is taken and the size counted, but no pointer is kept.     *)
FillHole(fs, k, beyond) ==
    IF IF k \in Ptrs THEN ~Hole(fs.inode.direct[k]) ELSE ~beyond
      THEN {fs}
      ELSE {[bm |-> got.bm,
             region |-> [fs.region EXCEPT ![got.num] = got.buf],
             inode |-> [fs.inode EXCEPT
                          !.size = @ + BlockSize,
                          !.direct = [l \in Ptrs |-> IF l = k THEN got.num + DataRegionAddr
                                                     ELSE @[l]]]] :
              got \in GetFreeDataBlock(fs.bm, fs.region, {0})}

(* Mutants: lseek to the start of the block; the second half of a write    *)
(* across two blocks starts at the front of the buffer again.              *)
StoreCells_FromBlockStart(region, addr, rem, n, buf, first) ==
    IF addr \in DataAddrs
      THEN [region EXCEPT ![Rel(addr)] =
              [j \in Slots |-> IF j < n THEN buf[first + j] ELSE @[j]]]
      ELSE region
StoreCells_FrontAgain(region, addr, rem, n, buf, first) ==
    IF addr \in DataAddrs
      THEN [region EXCEPT ![Rel(addr)] =
              [j \in Slots |-> IF j >= rem /\ j < rem + n THEN buf[j - rem] ELSE @[j]]]
      ELSE region

(* write(fd, ...) of n cells of buf, from the first-th on, into a block.   *)
StoreCells(region, addr, rem, n, buf, first) ==
    IF addr \in DataAddrs
      THEN [region EXCEPT ![Rel(addr)] =
              [j \in Slots |-> IF j >= rem /\ j < rem + n THEN buf[first + j - rem]
                               ELSE @[j]]]
      ELSE region

(* strcpy in MFS_Write and strdup in run_write stop at the first NUL: from *)
(* that cell on, the server writes what its heap holds.                    *)
Buffers(nbytes) == [0 .. nbytes - 1 -> Payload]
Duplicates(buf, nbytes) ==
    {dup \in [0 .. nbytes - 1 -> Payload \cup HeapCells] :
        \A z \in 0 .. nbytes - 1 :
            IF \E y \in 0 .. z : buf[y] \in NulCells
              THEN dup[z] \in HeapCells
              ELSE dup[z] = buf[z]}
-----------------------------------------------------------------------------
(***************************************************************************)
(* The handlers.  Requests are those libmfs.c sends: no negative inode     *)
(* number or offset, at most a block of data.  NumInodes is an inode       *)
(* number that does not exist.                                             *)
(***************************************************************************)
ReqInums == Inums \cup {NumInodes}

Lookup(pinum, name) ==
    /\ mode = "up"
    /\ LET reg == Served(pinum) /\ inodeTable[pinum].type = MFS_REGULAR_FILE
           ok  == Served(pinum) /\ ~reg
       IN  \E seen \in Views(dataRegion) :
             m' = [mtype |-> "LOOKUP", inum |-> pinum, name |-> name,
                   rc    |-> IF ok THEN 0 ELSE -1,
                   found |-> IF ok THEN LookupResult(seen, inodeTable[pinum], name)
                             ELSE IF reg THEN -1 ELSE Unset]
    /\ UNCHANGED <<mode, disk>>

Stat(inum) ==
    /\ mode = "up"
    /\ LET ok == inum \in inodeBitmap
       IN  m' = [mtype |-> "STAT", inum |-> inum, rc |-> IF ok THEN 0 ELSE -1,
                 size |-> IF ok THEN inodeTable[inum].size ELSE Unset,
                 type |-> IF ok THEN inodeTable[inum].type ELSE Unset]
    /\ UNCHANGED <<mode, disk>>

ReadCells_OneBlock(region, inode, offset, nbytes) ==     \* mutant: wraps within the block
    [z \in 0 .. nbytes - 1 |->
        region[Rel(inode.direct[offset \div BlockSize])]
                  [(offset + z) % BlockSize]]

(* The data a read returns; each cell from the block its offset falls in.  *)
ReadCells(region, inode, offset, nbytes) ==
    [z \in 0 .. nbytes - 1 |->
        region[Rel(inode.direct[(offset + z) \div BlockSize])]
                  [(offset + z) % BlockSize]]

Readable(inode, offset, nbytes, beyond) ==
    /\ offset + nbytes <= MaxOffset
    /\ BlockIndex(offset) < DirectPtrs
    /\ ~Hole(inode.direct[BlockIndex(offset)])
    /\ LET crossed == CrossedIndex(offset, nbytes)
       IN  IF crossed \in Ptrs THEN ~Hole(inode.direct[crossed]) ELSE ~beyond

Read(inum, offset, nbytes) ==
    /\ mode = "up"
    /\ \E beyond \in BOOLEAN, seen \in Views(dataRegion) :
         LET ok == Served(inum) /\ Readable(inodeTable[inum], offset, nbytes, beyond)
         IN  m' = [mtype |-> "READ", inum |-> inum, offset |-> offset,
                   nbytes |-> nbytes, rc |-> IF ok THEN 0 ELSE -1,
                   buffer |-> IF ok THEN ReadCells(seen, inodeTable[inum], offset, nbytes)
                              ELSE Unset]
    /\ UNCHANGED <<mode, disk>>

(* A write is served for an inode that is not a directory.                 *)
Writable(inum, offset, nbytes) ==
    /\ offset + nbytes <= MaxOffset
    /\ Served(inum)
    /\ inodeTable[inum].type # MFS_DIRECTORY
    /\ BlockIndex(offset) < DirectPtrs

(* run_write after its checks.  A write that reaches the end of its block  *)
(* goes through the inode's pointers as they are after the allocations; a  *)
(* write inside one block goes to the block number read before them, which *)
(* is block 0 of the image, the super block, if there was none.            *)
WriteServed(inum, offset, nbytes, buf) ==
    LET bi      == BlockIndex(offset)
        crossed == CrossedIndex(offset, nbytes)
        rem     == offset - bi * BlockSize
        before  == (bi + 1) * BlockSize - offset
        absoluteBlockNumber == inodeTable[inum].direct[bi]
        fs0     == [bm |-> dataBitmap, region |-> dataRegion, inode |-> inodeTable[inum]]
    IN  \E beyond \in BOOLEAN, dup \in Duplicates(buf, nbytes) :
        \E fs1 \in FillHole(fs0, bi, beyond) :
        \E fs2 \in IF crossed # bi THEN FillHole(fs1, crossed, beyond) ELSE {fs1} :
          /\ dataBitmap' = fs2.bm
          /\ inodeTable' = [inodeTable EXCEPT ![inum] = fs2.inode]
          /\ \/ /\ crossed # bi
                /\ LET half == StoreCells(fs2.region, fs2.inode.direct[bi],
                                          rem, before, dup, 0)
                   IN  dataRegion' = IF crossed \in Ptrs
                                       THEN StoreCells(half, fs2.inode.direct[crossed],
                                                       0, nbytes - before, dup, before)
                                       ELSE half
                /\ WritesLand({<<fs2.inode.direct[bi], rem .. rem + before - 1>>} \cup
                              {<<fs2.inode.direct[k], 0 .. nbytes - before - 1>> :
                                 k \in {crossed} \cap Ptrs})
             \/ /\ crossed = bi
                /\ dataRegion' = StoreCells(fs2.region, absoluteBlockNumber,
                                            rem, nbytes, dup, 0)
                /\ WritesLand({<<absoluteBlockNumber, rem .. rem + nbytes - 1>>})

Write(inum, offset, nbytes, buf) ==
    /\ mode = "up"
    /\ inum \in Inums => inodeTable[inum].size < MaxSize
    /\ \/ /\ Writable(inum, offset, nbytes)
          /\ WriteServed(inum, offset, nbytes, buf)
          /\ m' = [mtype |-> "WRITE", inum |-> inum, offset |-> offset,
                   nbytes |-> nbytes, buffer |-> buf, rc |-> 0]
       \/ /\ ~Writable(inum, offset, nbytes)
          /\ m' = [mtype |-> "WRITE", inum |-> inum, offset |-> offset,
                   nbytes |-> nbytes, buffer |-> buf, rc |-> -1]
          /\ UNCHANGED <<mode, disk>>
    /\ UNCHANGED inodeBitmap

(* A create is served in a directory while an inode is free.  The inode's  *)
(* bit is set before anything else is tried, and nothing undoes it.        *)
Creatable(pinum) ==
    /\ Served(pinum)
    /\ inodeTable[pinum].type # MFS_REGULAR_FILE
    /\ inodeBitmap # Inums

(* run_cret's call of addDirEntryToDirectoryInode, whose -1 it ignores.    *)
(* Such a parent, of a type that is neither, gets no entry, and the inode  *)
(* stays as run_cret has just written it.                                  *)
Populate(pinum, inum, type, name) ==
    IF inodeTable[pinum].type = MFS_DIRECTORY
      THEN \E seen \in Views(dataRegion) :
           \E linked \in AddDirEntry(dataBitmap, dataRegion, seen, inodeTable[pinum],
                                     Entry(name, inum)) :
           \E made \in AddChild(linked.bm, linked.region, inum, pinum, type) :
              /\ dataBitmap' = made.bm
              /\ dataRegion' = made.region
              /\ inodeTable' = [inodeTable EXCEPT ![inum] = made.inode]
              /\ WritesLand({linked.write})
      ELSE /\ inodeTable' = [inodeTable EXCEPT ![inum] =
                               [@ EXCEPT !.type = type, !.size = 0]]
           /\ UNCHANGED <<mode, frontIntact, dataBitmap, dataRegion>>

CreatServed_NoInodeBit(pinum, type, name) ==      \* mutant: the bit stays clear
    /\ inodeBitmap' = inodeBitmap
    /\ Populate(pinum, Min(Inums \ inodeBitmap), type, name)
CreatServed(pinum, type, name) ==
    LET inum == Min(Inums \ inodeBitmap) IN
    /\ inodeBitmap' = inodeBitmap \cup {inum}
    /\ Populate(pinum, inum, type, name)

Creat(pinum, type, name) ==
    /\ mode = "up"
    /\ \/ /\ Creatable(pinum)
          /\ CreatServed(pinum, type, name)
          /\ m' = [mtype |-> "CRET", inum |-> pinum, ftype |-> type, name |-> name,
                   rc |-> 0]
       \/ /\ ~Creatable(pinum)
          /\ m' = [mtype |-> "CRET", inum |-> pinum, ftype |-> type, name |-> name,
                   rc |-> -1]
          /\ UNCHANGED <<mode, disk>>

(* run_unlink writes nothing.  For a directory it looks at a buffer it     *)
(* never filled: -1 unless every number it finds there happens to be -1.   *)
Unlink(pinum, name) ==
    /\ mode = "up"
    /\ \E rc \in IF pinum \notin inodeBitmap THEN {-1}
                 ELSE IF inodeTable[pinum].type = MFS_DIRECTORY THEN {0, -1} ELSE {0} :
         m' = [mtype |-> "UNLINK", inum |-> pinum, name |-> name, rc |-> rc]
    /\ UNCHANGED <<mode, disk>>

(* run_shutdown closes the image and exits before a reply is sent; SIGINT  *)
(* (intHandler) does the same to a server that waits for a request.        *)
Shutdown ==
    /\ mode \in {"up", "lost"}
    /\ mode' = "down"
    /\ UNCHANGED <<disk, m>>

(* main and readImage: the super block is read once.  A server that reads  *)
(* it from an overwritten block 0 works on a garbage geometry, one with    *)
(* overwritten tables on garbage inodes; neither is followed further.      *)
Start ==
    /\ mode = "down"
    /\ mode' = IF frontIntact THEN "up" ELSE "lost"
    /\ UNCHANGED <<disk, m>>

Next ==
    \/ Start
    \/ Shutdown
    \/ \E i \in ReqInums :
         \/ Stat(i)
         \/ \E name \in Names : Lookup(i, name) \/ Unlink(i, name)
         \/ \E name \in Names, type \in CreatTypes : Creat(i, type, name)
         \/ \E offset \in Offsets, nbytes \in Lengths :
              \/ Read(i, offset, nbytes)
              \/ \E buf \in Buffers(nbytes) : Write(i, offset, nbytes, buf)

Spec == Init /\ [][Next]_vars
=============================================================================
