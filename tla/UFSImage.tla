------------------------------- MODULE UFSImage -------------------------------
(***************************************************************************)
(* The image as a file of words: mkfs.c writes it block by block, a server *)
(* reads its super block and from then on makes the calls of UFSStore on   *)
(* it, each with its lseek, its read of a block and its write.  What the   *)
(* server's own read arithmetic finds in the file is an image of UFSStore. *)
(*                                                                         *)
(* A name is a word here.                                                  *)
(***************************************************************************)
EXTENDS UFSLayout, UFSStore, FiniteSetsExt, Sequences

CONSTANTS
    EntryWords,     \* sizeof(dir_ent_t); 8 words, of which the last is inum
    StackWord,      \* a word that mkfs left uninitialised
    Dot, DotDot,    \* the names "." and ".."
    InodeVals,      \* inodes that handlers write
    CellVals,       \* entries and cells of data that handlers write
    UsedSlots       \* bound of the model: the slots of blocks that they write

(* getBitmapValGivenBlockNumAndInum and setOneToBitMap read one block and  *)
(* index it with any number; beyond its last bit they leave the buffer.    *)
(* Nothing in mkfs keeps an image from being that large.                   *)
ASSUME OneBlockBitmaps ==
    /\ NumInodes <= bits_per_block
    /\ NumData <= bits_per_block

ASSUME StructuresAssumption ==
    /\ BlockWords >= 10         \* sizeof(super_t)
    /\ InodeWords >= 3
    /\ EntryWords \in Nat /\ EntryWords >= 2 /\ BlockWords % EntryWords = 0
    /\ \A inode \in InodeVals : inode \in Seq(Int) /\ Len(inode) = InodeWords
    /\ \A cell \in CellVals : cell \in Seq(Int) /\ Len(cell) = EntryWords
    /\ UsedSlots \subseteq 0 .. BlockWords \div EntryWords - 1

VARIABLES
    image,      \* the file: its words by offset
    stage,      \* how many of its pwrites mkfs has made
    super,      \* the server's SUPERBLOCKPTR; <<>> if no server runs
    last        \* the last call on the image

vars == <<image, stage, super, last>>

Up == super # <<>>
NoCall == [to |-> "nothing"]     \* since mkfs

(* super_t: ten words.                                                     *)
s == <<inode_bitmap_addr, inode_bitmap_len, data_bitmap_addr, data_bitmap_len,
       inode_region_addr, inode_region_len, data_region_addr, data_region_len,
       NumInodes, NumData>>
sb == [inode_bitmap_addr |-> super[1], data_bitmap_addr |-> super[3],
       inode_region_addr |-> super[5], data_region_addr |-> super[7],
       num_inodes |-> super[9], num_data |-> super[10]]
-----------------------------------------------------------------------------
(***************************************************************************)
(* read(2) and write(2).                                                   *)
(***************************************************************************)
Block == 0 .. BlockWords - 1

(* The n words of the file from offset on.                                 *)
ReadAt(offset, n) == [w \in 1 .. n |-> image[offset + w - 1]]

(* The file with words written at offset; it grows if they reach beyond    *)
(* its end, and what was skipped reads as zeros.                           *)
WriteAt(img, offset, words) ==
    LET end == Max({Cardinality(DOMAIN img), offset + Len(words)})
    IN  [a \in 0 .. end - 1 |->
           IF a >= offset /\ a < offset + Len(words) THEN words[a - offset + 1]
           ELSE IF a \in DOMAIN img THEN img[a] ELSE 0]

Words(n, word) == [w \in 1 .. n |-> word]
-----------------------------------------------------------------------------
(***************************************************************************)
(* mkfs.c: O_TRUNC, then one pwrite after the other.                       *)
(***************************************************************************)
FirstBit == 2 ^ (WordBits - 1)
BitmapBlock == [Words(BlockWords, 0) EXCEPT ![1] = FirstBit]

RootInode == [w \in 1 .. InodeWords |->
                CASE w = 1 -> 0
                  [] w = 2 -> 2 * EntryWords
                  [] w = 3 -> data_region_addr
                  [] OTHER -> -1]
InodeTableBlock == RootInode \o Words(BlockWords - InodeWords, StackWord)

DirEntry(name, pad, inum) ==
    [w \in 1 .. EntryWords |-> IF w = 1 THEN name ELSE IF w = EntryWords THEN inum ELSE pad]
RootEntry(j) == CASE j = 0 -> DirEntry(Dot, StackWord, 0)
                  [] j = 1 -> DirEntry(DotDot, StackWord, 0)
                  [] OTHER -> DirEntry(StackWord, StackWord, -1)
Slots == 0 .. BlockWords \div EntryWords - 1
RootBlock == [w \in 1 .. BlockWords |->
                RootEntry((w - 1) \div EntryWords)[((w - 1) % EntryWords) + 1]]

(* The pwrites, in order: the super block, every other block zeroed, then  *)
(* the bitmaps, the inode block and the root directory.                    *)
Zeroed_ButOne == total_blocks - 1     \* mutant: the last block is left out
Zeroed  == total_blocks
Pwrites == Zeroed + 4
Mkfs ==
    /\ stage < Pwrites
    /\ stage' = stage + 1
    /\ image' = CASE stage = 0          -> WriteAt(image, 0, s)
                  [] stage \in 1 .. Zeroed - 1 ->
                       WriteAt(image, BlockOffset(stage), Words(BlockWords, 0))
                  [] stage = Zeroed     ->
                       WriteAt(image, BlockOffset(inode_bitmap_addr), BitmapBlock)
                  [] stage = Zeroed + 1 ->
                       WriteAt(image, BlockOffset(data_bitmap_addr), BitmapBlock)
                  [] stage = Zeroed + 2 ->
                       WriteAt(image, BlockOffset(inode_region_addr), InodeTableBlock)
                  [] stage = Zeroed + 3 ->
                       WriteAt(image, BlockOffset(data_region_addr), RootBlock)
    /\ UNCHANGED <<super, last>>

(* mkfs is run on the file again, while no server has it open.             *)
Truncate ==
    /\ ~Up
    /\ stage = Pwrites
    /\ image' = [a \in {} |-> 0]
    /\ stage' = 0
    /\ last' = NoCall
    /\ UNCHANGED super
-----------------------------------------------------------------------------
(***************************************************************************)
(* What the server reads.                                                  *)
(***************************************************************************)
Inums  == 0 .. sb.num_inodes - 1
Blocks == 0 .. sb.num_data - 1

get_bit(bitmap, position) ==
    (bitmap[WordOf(position) + 1] \div 2 ^ ShiftOf(position)) % 2

getBitmapVal(block, position) ==
    get_bit(ReadAt(BlockOffset(block), BlockWords), position)

getInodeCopy(inum) == ReadAt(InodeReadOffset(sb.inode_region_addr, inum), InodeWords)

(* A block by its number in the data region, cell by cell.                 *)
getDataBlock(b) ==
    LET block == ReadAt(BlockOffset(sb.data_region_addr + b), BlockWords)
    IN  [j \in Slots |-> SubSeq(block, j * EntryWords + 1, (j + 1) * EntryWords)]

(* The image of UFSStore that all of this adds up to.  No call here goes   *)
(* in front of the data region but one to block 0.                         *)
Store ==
    [frontIntact |-> ReadAt(0, Len(s)) = s,
     inodeBitmap |-> {i \in Inums : getBitmapVal(sb.inode_bitmap_addr, i) = 1},
     dataBitmap  |-> {b \in Blocks : getBitmapVal(sb.data_bitmap_addr, b) = 1},
     inodeTable  |-> [i \in Inums |-> getInodeCopy(i)],
     dataRegion  |-> [b \in Blocks |-> getDataBlock(b)]]
-----------------------------------------------------------------------------
(***************************************************************************)
(* What the server writes.                                                 *)
(***************************************************************************)
set_bit_to_one(bitmap, position) ==
    [bitmap EXCEPT ![WordOf(position) + 1] =
        IF get_bit(bitmap, position) = 1 THEN @ ELSE @ + 2 ^ ShiftOf(position)]

setOneToBitMap(block, position) ==
    image' = WriteAt(image, BlockOffset(block),
                     set_bit_to_one(ReadAt(BlockOffset(block), BlockWords), position))

SetInodeBit(i) ==
    /\ Up
    /\ setOneToBitMap(sb.inode_bitmap_addr, i)
    /\ last' = InodeBit(i)
    /\ UNCHANGED <<stage, super>>

SetDataBit(b) ==
    /\ Up
    /\ setOneToBitMap(sb.data_bitmap_addr, b)
    /\ last' = DataBit(b)
    /\ UNCHANGED <<stage, super>>

AddInode(inum, inode) ==
    /\ Up
    /\ image' = WriteAt(image, InodeWriteOffset(sb.inode_region_addr, inum), inode)
    /\ last' = PutInode(inum, inode)
    /\ UNCHANGED <<stage, super>>

(* addDirectoryEntryBlockToDataRegion, addNormalBlockToDataRegion: a whole *)
(* block, by its number in the data region.                                *)
AddBlock(b, cell) ==
    /\ Up
    /\ image' = WriteAt(image, BlockOffset(sb.data_region_addr + b),
                        [w \in 1 .. BlockWords |-> cell[((w - 1) % EntryWords) + 1]])
    /\ last' = PutCells(b, [j \in Slots |-> cell])
    /\ UNCHANGED <<stage, super>>

(* An entry of a directory or a cell of a file, at the absolute number     *)
(* that an inode holds; 0 is what run_write has for a hole.                *)
WriteCell(absolute, j, cell) ==
    /\ Up
    /\ image' = WriteAt(image, BlockOffset(absolute) + j * EntryWords, cell)
    /\ last' = IF absolute # 0
                 THEN PutCells(absolute - sb.data_region_addr, [l \in {j} |-> cell])
               ELSE IF j * EntryWords < Len(s) THEN PutFront(0) ELSE Fsync
    /\ UNCHANGED <<stage, super>>

(* readImage; the server is not followed on an overwritten super block.    *)
Start ==
    /\ stage = Pwrites
    /\ ~Up
    /\ ReadAt(0, Len(s)) = s
    /\ super' = ReadAt(0, Len(s))
    /\ UNCHANGED <<image, stage, last>>

Stop ==
    /\ Up
    /\ super' = <<>>
    /\ UNCHANGED <<image, stage, last>>

Init ==
    /\ image = [a \in {} |-> 0]
    /\ stage = 0
    /\ super = <<>>
    /\ last = NoCall

Next ==
    \/ Mkfs \/ Truncate \/ Start \/ Stop
    \/ \E i \in 0 .. NumInodes - 1 :
         \/ SetInodeBit(i)
         \/ \E inode \in InodeVals : AddInode(i, inode)
    \/ \E b \in 0 .. NumData - 1 :
         \/ SetDataBit(b)
         \/ \E cell \in CellVals :
              \/ AddBlock(b, cell)
              \/ \E j \in UsedSlots, absolute \in {0, data_region_addr + b} :
                   WriteCell(absolute, j, cell)

Spec == Init /\ [][Next]_vars
-----------------------------------------------------------------------------
(***************************************************************************)
(* Properties.                                                             *)
(***************************************************************************)

(* Each call, made with the offsets of server.c in the layout of mkfs.c,   *)
(* changes what it is meant to change, as the server reads it back, and    *)
(* nothing else: no two regions, inodes, blocks, cells or bits overlap.    *)
CallsHaveTheirEffect ==
    [][ Up /\ Up' => Store' = Effect(Store, last') ]_vars

(* The first server on an image finds there what MFSServer starts from:    *)
(* inode 0 and block 0 in use, the root directory, nothing else.           *)
FreshImageIsEmptyRoot ==
    [][ ~Up /\ Up' /\ last = NoCall =>
          /\ Store'.inodeBitmap = {0} /\ Store'.dataBitmap = {0}
          /\ LET root == Store'.inodeTable[0]
                 block == Store'.dataRegion[root[3] - data_region_addr]
             IN  /\ root[1] = 0 /\ \A w \in 4 .. InodeWords : root[w] = -1
                 /\ block[0][1] = Dot /\ block[1][1] = DotDot
                 /\ block[0][EntryWords] = 0 /\ block[1][EntryWords] = 0
                 /\ \A j \in Slots \ {0, 1} : block[j][EntryWords] = -1 ]_vars

(* mkfs makes the file as long as it will ever be.                         *)
FileKeepsItsLength ==
    stage >= Zeroed => DOMAIN image = 0 .. total_blocks * BlockWords - 1
=============================================================================
