---------------------------- MODULE UFSImageProofs ----------------------------
(***************************************************************************)
(* mkfs makes the image file as long as it will ever be: no call of the    *)
(* server writes behind its end, whatever the sizes.                       *)
(***************************************************************************)
EXTENDS UFSImage, UFSLayoutProofs, FiniteSetTheorems, SequenceTheorems

Length == total_blocks * BlockWords
-----------------------------------------------------------------------------
(***************************************************************************)
(* The length of what is written.                                          *)
(***************************************************************************)
LEMMA LenOfFunction ==
    ASSUME NEW n \in Nat, NEW R, NEW f \in [1 .. n -> R]
    PROVE  f \in Seq(R) /\ Len(f) = n
<1>1. f \in Seq(R)
  BY SeqDef
<1>2. DOMAIN f = 1 .. Len(f) /\ Len(f) \in Nat
  BY <1>1, LenProperties
<1>3. DOMAIN f = 1 .. n
  OBVIOUS
<1>4. Len(f) = n
  BY <1>2, <1>3
<1> QED
  BY <1>1, <1>4

LEMMA LenOfWords ==
    ASSUME NEW n \in Nat, NEW word
    PROVE  Words(n, word) \in Seq({word}) /\ Len(Words(n, word)) = n
<1>1. Words(n, word) \in [1 .. n -> {word}]
  BY DEF Words
<1> QED
  BY <1>1, LenOfFunction

(* The blocks of mkfs and those of the server are whole blocks.            *)
LEMMA LenOfBlocks ==
    /\ Len(s) = 10
    /\ Len(Words(BlockWords, 0)) = BlockWords
    /\ Len(BitmapBlock) = BlockWords
    /\ Len(InodeTableBlock) = BlockWords
    /\ Len(RootBlock) = BlockWords
<1>1. Len(s) = 10
  BY DEF s
<1>2. Len(Words(BlockWords, 0)) = BlockWords
  BY LenOfWords, LayoutAssumption
<1>3. Len(BitmapBlock) = BlockWords
  <2>1. BitmapBlock \in [1 .. BlockWords -> {0, FirstBit}]
    BY DEF BitmapBlock, Words
  <2> QED
    BY <2>1, LenOfFunction, LayoutAssumption
<1>4. Len(InodeTableBlock) = BlockWords
  <2> DEFINE R == {RootInode[w] : w \in 1 .. InodeWords}
  <2>1. RootInode \in [1 .. InodeWords -> R]
    BY DEF RootInode
  <2>2. RootInode \in Seq(R) /\ Len(RootInode) = InodeWords
    BY <2>1, LenOfFunction, LayoutAssumption
  <2>3. BlockWords - InodeWords \in Nat
    <3>1. BlockWords = InodeWords * (BlockWords \div InodeWords) /\ BlockWords \div InodeWords \in Nat
      BY Division, LayoutAssumption
    <3> QED
      BY <3>1, LayoutAssumption
  <2> DEFINE rest == Words(BlockWords - InodeWords, StackWord)
  <2>4. rest \in Seq({StackWord}) /\ Len(rest) = BlockWords - InodeWords
    BY <2>3, LenOfWords
  <2>5. RootInode \in Seq(R \cup {StackWord}) /\ rest \in Seq(R \cup {StackWord})
    BY <2>2, <2>4, SeqMonotonic
  <2>6. Len(RootInode \o rest) = Len(RootInode) + Len(rest)
    <3> HIDE DEF R, rest
    <3> QED
      BY <2>5, ConcatProperties
  <2> QED
    BY <2>2, <2>4, <2>6, LayoutAssumption DEF InodeTableBlock
<1>5. Len(RootBlock) = BlockWords
  <2> DEFINE R == {RootBlock[w] : w \in 1 .. BlockWords}
  <2>1. RootBlock \in [1 .. BlockWords -> R]
    BY DEF RootBlock
  <2> QED
    BY <2>1, LenOfFunction, LayoutAssumption
<1> QED
  BY <1>1, <1>2, <1>3, <1>4, <1>5
-----------------------------------------------------------------------------
(***************************************************************************)
(* What write(2) does to the length of the file.                           *)
(***************************************************************************)
LEMMA MaxOfTwo ==
    ASSUME NEW a \in Nat, NEW b \in Nat
    PROVE  Max({a, b}) = IF a >= b THEN a ELSE b
  BY DEF Max

LEMMA WriteAtLength ==
    ASSUME NEW img, NEW n \in Nat, DOMAIN img = 0 .. n - 1,
           NEW offset \in Nat, NEW words, Len(words) \in Nat
    PROVE  DOMAIN WriteAt(img, offset, words)
             = 0 .. (IF n >= offset + Len(words) THEN n ELSE offset + Len(words)) - 1
<1>1. Cardinality(DOMAIN img) = n
  <2>1. 0 \in Int /\ n - 1 \in Int
    OBVIOUS
  <2> QED
    BY <2>1, FS_Interval
<1>2. Max({Cardinality(DOMAIN img), offset + Len(words)})
        = IF n >= offset + Len(words) THEN n ELSE offset + Len(words)
  BY <1>1, MaxOfTwo
<1> QED
  BY <1>2 DEF WriteAt

(* A write that lies inside the file leaves its length alone.              *)
LEMMA WriteInside ==
    ASSUME NEW offset \in Nat, NEW words, Len(words) \in Nat,
           DOMAIN image = 0 .. Length - 1, Length \in Nat,
           offset + Len(words) <= Length
    PROVE  DOMAIN WriteAt(image, offset, words) = 0 .. Length - 1
<1> HIDE DEF Length
<1> QED
  BY WriteAtLength

(* A block that begins in front of the image's end ends there or before.   *)
LEMMA BlockInside ==
    ASSUME NEW block \in Nat, block < total_blocks
    PROVE  /\ BlockOffset(block) \in Nat
           /\ BlockOffset(block) + BlockWords = (block + 1) * BlockWords
           /\ BlockOffset(block) + BlockWords <= Length
           /\ Length \in Nat
<1>1. total_blocks \in Nat
  BY LayoutTypes, RegionsFillTheImage
<1>2. (block + 1) * BlockWords <= total_blocks * BlockWords
  BY <1>1, TimesIsMonotone, LayoutAssumption
<1>3. (block + 1) * BlockWords = block * BlockWords + BlockWords
  BY LayoutAssumption
<1>4. block * BlockWords \in Nat /\ total_blocks * BlockWords \in Nat
  BY <1>1, LayoutAssumption
<1> QED
  BY <1>2, <1>3, <1>4 DEF BlockOffset, Length
-----------------------------------------------------------------------------
(***************************************************************************)
(* The invariant: how long the file is after each of mkfs's writes, and    *)
(* that a server runs only on a finished one, by the super block of mkfs.  *)
(***************************************************************************)
LengthAfter(k) ==
    IF k = 0 THEN 0
    ELSE IF k = 1 THEN Len(s)
    ELSE IF k < Zeroed THEN k * BlockWords ELSE Length

LengthByStage ==
    /\ stage \in 0 .. Pwrites
    /\ DOMAIN image = 0 .. LengthAfter(stage) - 1
    /\ Up => stage = Pwrites /\ super = s

LEMMA Sizes ==
    /\ Zeroed \in Nat /\ Zeroed > 4 /\ Pwrites = Zeroed + 4
    /\ total_blocks = Zeroed
    /\ Length \in Nat
    /\ \A k \in Zeroed .. Pwrites : LengthAfter(k) = Length
<1>1. Zeroed \in Nat /\ Zeroed > 4
  BY LayoutTypes, RegionsFillTheImage DEF Zeroed
<1>2. Length \in Nat
  BY <1>1, LayoutAssumption DEF Length, Zeroed
<1> QED
  BY <1>1, <1>2 DEF LengthAfter, Pwrites, Zeroed

(* The zeroing goes from block to block: each write begins where the file  *)
(* ends, or, behind the ten words of the super block, leaves a hole.       *)
LEMMA ZeroingGrowsTheFile ==
    ASSUME LengthByStage, stage \in 1 .. Zeroed - 1
    PROVE  DOMAIN WriteAt(image, BlockOffset(stage), Words(BlockWords, 0))
             = 0 .. LengthAfter(stage + 1) - 1
<1>1. /\ stage \in Nat /\ stage < total_blocks
      /\ Zeroed \in Nat /\ Len(s) = 10 /\ BlockWords >= 10 /\ BlockWords \in Nat
  BY Sizes, LenOfBlocks, StructuresAssumption, LayoutAssumption
<1> DEFINE start == BlockOffset(stage)
           n == LengthAfter(stage)
<1>2. /\ start \in Nat /\ start = stage * BlockWords
      /\ start + BlockWords = (stage + 1) * BlockWords
  BY <1>1, BlockInside DEF BlockOffset
<1>3. n \in Nat /\ n <= start
  <2>1. CASE stage = 1
    BY <2>1, <1>1, <1>2 DEF LengthAfter
  <2>2. CASE stage # 1
    <3>1. n = stage * BlockWords
      BY <2>2, <1>1, Sizes DEF LengthAfter
    <3> QED
      BY <3>1, <1>2
  <2> QED
    BY <2>1, <2>2
<1>4. DOMAIN image = 0 .. n - 1
  BY DEF LengthByStage
<1>5. LengthAfter(stage + 1) = start + BlockWords
  BY <1>1, <1>2, Sizes DEF LengthAfter, Length
<1>6. Len(Words(BlockWords, 0)) = BlockWords
  BY LenOfBlocks
<1> DEFINE zeros == Words(BlockWords, 0)
<1> HIDE DEF start, n, zeros
<1>7. DOMAIN WriteAt(image, start, zeros)
        = 0 .. (IF n >= start + BlockWords THEN n ELSE start + BlockWords) - 1
  <2>1. Len(zeros) = BlockWords
    BY <1>6 DEF zeros
  <2>2. DOMAIN WriteAt(image, start, zeros)
          = 0 .. (IF n >= start + Len(zeros) THEN n ELSE start + Len(zeros)) - 1
    <3>1. n \in Nat /\ start \in Nat /\ Len(zeros) \in Nat /\ DOMAIN image = 0 .. n - 1
      BY <2>1, <1>1, <1>2, <1>3, <1>4
    <3> QED
      BY ONLY <3>1, WriteAtLength
  <2> QED
    BY <2>1, <2>2
<1>8. ~(n >= start + BlockWords)
  BY <1>1, <1>2, <1>3, LayoutAssumption
<1> QED
  BY <1>5, <1>7, <1>8 DEF start, zeros

LEMMA MkfsKeepsLengthByStage ==
    ASSUME LengthByStage, Mkfs
    PROVE  LengthByStage'
<1>1. stage \in 0 .. Pwrites /\ stage < Pwrites /\ stage' = stage + 1 /\ super' = super
  BY DEF LengthByStage, Mkfs
<1>2. ~Up
  BY <1>1, Sizes DEF LengthByStage
<1>3. DOMAIN image' = 0 .. LengthAfter(stage + 1) - 1
  <2>1. CASE stage = 0
    <3>1. Len(s) = 10
      BY LenOfBlocks
    <3>2. DOMAIN image = 0 .. stage - 1 /\ stage \in Nat
      BY <2>1 DEF LengthByStage, LengthAfter
    <3>3. DOMAIN WriteAt(image, 0, s) = 0 .. Len(s) - 1
      <4>1. Len(s) \in Nat /\ 0 \in Nat
        BY <3>1
      <4>2. DOMAIN WriteAt(image, 0, s)
              = 0 .. (IF stage >= 0 + Len(s) THEN stage ELSE 0 + Len(s)) - 1
        BY ONLY <3>2, <4>1, WriteAtLength
      <4> QED
        BY <2>1, <3>1, <4>2
    <3>4. image' = WriteAt(image, 0, s)
      BY <2>1, Sizes DEF Mkfs
    <3> QED
      BY <2>1, <3>3, <3>4 DEF LengthAfter
  <2>2. CASE stage \in 1 .. Zeroed - 1
    <3>1. image' = WriteAt(image, BlockOffset(stage), Words(BlockWords, 0))
      BY <2>2, Sizes DEF Mkfs
    <3> QED
      BY <2>2, <3>1, ZeroingGrowsTheFile
  <2>3. CASE stage \in Zeroed .. Zeroed + 3
    <3>1. LengthAfter(stage) = Length /\ LengthAfter(stage + 1) = Length
      BY <2>3, Sizes
    <3>2. DOMAIN image = 0 .. Length - 1
      BY <3>1 DEF LengthByStage
    <3>3. ASSUME NEW block \in Nat, block < total_blocks,
                 NEW words, Len(words) = BlockWords
          PROVE  DOMAIN WriteAt(image, BlockOffset(block), words) = 0 .. Length - 1
      <4>1. /\ BlockOffset(block) \in Nat /\ Length \in Nat
            /\ BlockOffset(block) + Len(words) <= Length
        BY <3>3, BlockInside
      <4>2. Len(words) \in Nat
        BY <3>3, LayoutAssumption
      <4> QED
        BY ONLY <3>2, <4>1, <4>2, WriteInside
    <3>4. /\ inode_bitmap_addr \in Nat /\ inode_bitmap_addr < total_blocks
          /\ data_bitmap_addr \in Nat /\ data_bitmap_addr < total_blocks
          /\ inode_region_addr \in Nat /\ inode_region_addr < total_blocks
          /\ data_region_addr \in Nat /\ data_region_addr < total_blocks
      BY LayoutTypes, RegionsFillTheImage, Sizes
    <3>5. PICK block \in {inode_bitmap_addr, data_bitmap_addr,
                          inode_region_addr, data_region_addr},
               words \in {BitmapBlock, InodeTableBlock, RootBlock} :
            image' = WriteAt(image, BlockOffset(block), words)
      <4>1. /\ stage = Zeroed =>
                 image' = WriteAt(image, BlockOffset(inode_bitmap_addr), BitmapBlock)
            /\ stage = Zeroed + 1 =>
                 image' = WriteAt(image, BlockOffset(data_bitmap_addr), BitmapBlock)
            /\ stage = Zeroed + 2 =>
                 image' = WriteAt(image, BlockOffset(inode_region_addr), InodeTableBlock)
            /\ stage = Zeroed + 3 =>
                 image' = WriteAt(image, BlockOffset(data_region_addr), RootBlock)
        BY Sizes DEF Mkfs
      <4>2. \/ stage = Zeroed \/ stage = Zeroed + 1
            \/ stage = Zeroed + 2 \/ stage = Zeroed + 3
        BY <2>3, Sizes
      <4> QED
        BY <4>1, <4>2
    <3>6. DOMAIN WriteAt(image, BlockOffset(block), words) = 0 .. Length - 1
      BY <3>3, <3>4, LenOfBlocks
    <3> QED
      BY <3>1, <3>5, <3>6
  <2> QED
    BY <1>1, <2>1, <2>2, <2>3, Sizes
<1>4. stage + 1 \in 0 .. Pwrites
  BY <1>1, Sizes
<1> QED
  BY <1>1, <1>2, <1>3, <1>4 DEF LengthByStage, Up, LengthAfter

LEMMA TruncateKeepsLengthByStage ==
    ASSUME LengthByStage, Truncate
    PROVE  LengthByStage'
<1>1. DOMAIN image' = 0 .. LengthAfter(0) - 1
  BY DEF Truncate, LengthAfter
<1> QED
  BY <1>1, Sizes DEF LengthByStage, Truncate, Up, LengthAfter
-----------------------------------------------------------------------------
(***************************************************************************)
(* The calls of a server.                                                  *)
(***************************************************************************)
(* The server goes by the regions of mkfs.                                 *)
LEMMA ServerKnowsTheLayout ==
    ASSUME LengthByStage, Up
    PROVE  /\ sb.inode_bitmap_addr = inode_bitmap_addr
           /\ sb.data_bitmap_addr = data_bitmap_addr
           /\ sb.inode_region_addr = inode_region_addr
           /\ sb.data_region_addr = data_region_addr
           /\ DOMAIN image = 0 .. Length - 1
<1>1. super = s /\ stage = Pwrites
  BY DEF LengthByStage
<1>2. DOMAIN image = 0 .. Length - 1
  BY <1>1, Sizes DEF LengthByStage
<1> QED
  BY <1>1, <1>2 DEF sb, s

LEMMA CallInside ==
    ASSUME LengthByStage, Up, NEW offset \in Nat, NEW words, Len(words) \in Nat,
           offset + Len(words) <= Length,
           image' = WriteAt(image, offset, words), UNCHANGED <<stage, super>>
    PROVE  LengthByStage'
<1>1. DOMAIN image = 0 .. Length - 1 /\ Length \in Nat
  BY ServerKnowsTheLayout, Sizes
<1>2. DOMAIN WriteAt(image, offset, words) = 0 .. Length - 1
  BY ONLY <1>1, WriteInside, offset \in Nat, Len(words) \in Nat,
          offset + Len(words) <= Length
<1> QED
  BY <1>1, <1>2, Sizes DEF LengthByStage, Up, LengthAfter

LEMMA BitCallInside ==
    ASSUME LengthByStage, Up, NEW block \in Nat, block < total_blocks,
           NEW position, setOneToBitMap(block, position), UNCHANGED <<stage, super>>
    PROVE  LengthByStage'
<1> DEFINE bitmap == set_bit_to_one(ReadAt(BlockOffset(block), BlockWords), position)
           R == {bitmap[w] : w \in 1 .. BlockWords}
<1>1. bitmap \in [1 .. BlockWords -> R]
  BY DEF set_bit_to_one, ReadAt
<1>2. Len(bitmap) = BlockWords
  BY <1>1, LenOfFunction, LayoutAssumption
<1>3. image' = WriteAt(image, BlockOffset(block), bitmap)
  BY DEF setOneToBitMap
<1> HIDE DEF bitmap
<1>4. /\ BlockOffset(block) \in Nat /\ Len(bitmap) \in Nat
      /\ BlockOffset(block) + Len(bitmap) <= Length
  BY <1>2, BlockInside, LayoutAssumption
<1> QED
  BY <1>3, <1>4, CallInside

LEMMA AddInodeKeepsLengthByStage ==
    ASSUME LengthByStage, NEW i \in 0 .. NumInodes - 1, NEW inode \in InodeVals,
           AddInode(i, inode)
    PROVE  LengthByStage'
<1> DEFINE offset == InodeWriteOffset(inode_region_addr, i)
<1>1. /\ Up /\ UNCHANGED <<stage, super>>
      /\ image' = WriteAt(image, offset, inode)
  BY ServerKnowsTheLayout DEF AddInode
<1>2. i \in Nat /\ inode_region_addr \in Nat /\ data_region_addr \in Nat
  BY LayoutTypes, LayoutAssumption
<1>3. Len(inode) = InodeWords /\ Len(inode) \in Nat
  BY StructuresAssumption, LayoutAssumption
<1>4. offset \in Nat
  <2>1. offset = inode_region_addr * BlockWords + i * InodeWords
    BY <1>2, InodeTableIsArray
  <2> QED
    BY <2>1, <1>2, LayoutAssumption
<1>5. offset + InodeWords <= BlockOffset(data_region_addr)
  BY InodesLieInTheirRegion DEF AllInums
<1>6. /\ BlockOffset(data_region_addr) \in Nat /\ Length \in Nat
      /\ BlockOffset(data_region_addr) + BlockWords <= Length
  BY <1>2, BlockInside, RegionsFillTheImage
<1> HIDE DEF offset
<1>7. offset + Len(inode) <= Length
  BY <1>3, <1>4, <1>5, <1>6, LayoutAssumption
<1> QED
  BY <1>1, <1>3, <1>4, <1>7, CallInside

(* A block of the data region lies in the image as a whole.                *)
LEMMA DataBlockInside ==
    ASSUME NEW b \in 0 .. NumData - 1
    PROVE  data_region_addr + b \in Nat /\ data_region_addr + b < total_blocks
<1>1. data_region_addr \in Nat /\ data_region_len = NumData
  BY LayoutTypes DEF data_region_len
<1> QED
  BY <1>1, RegionsFillTheImage, LayoutAssumption

LEMMA AddBlockKeepsLengthByStage ==
    ASSUME LengthByStage, NEW b \in 0 .. NumData - 1, NEW cell, AddBlock(b, cell)
    PROVE  LengthByStage'
<1> DEFINE words == [w \in 1 .. BlockWords |-> cell[((w - 1) % EntryWords) + 1]]
           R == {words[w] : w \in 1 .. BlockWords}
           offset == BlockOffset(data_region_addr + b)
<1>1. /\ Up /\ UNCHANGED <<stage, super>>
      /\ image' = WriteAt(image, offset, words)
  BY ServerKnowsTheLayout DEF AddBlock
<1>2. words \in [1 .. BlockWords -> R]
  OBVIOUS
<1>3. Len(words) = BlockWords
  BY <1>2, LenOfFunction, LayoutAssumption
<1> HIDE DEF words
<1>4. /\ offset \in Nat /\ Len(words) \in Nat
      /\ offset + Len(words) <= Length
  BY <1>3, DataBlockInside, BlockInside, LayoutAssumption
<1> HIDE DEF offset
<1> QED
  BY <1>1, <1>4, CallInside

LEMMA WriteCellKeepsLengthByStage ==
    ASSUME LengthByStage, NEW b \in 0 .. NumData - 1, NEW cell \in CellVals,
           NEW j \in UsedSlots, NEW absolute \in {0, data_region_addr + b},
           WriteCell(absolute, j, cell)
    PROVE  LengthByStage'
<1> DEFINE offset == BlockOffset(absolute) + j * EntryWords
           K == BlockWords \div EntryWords
<1>1. /\ Up /\ UNCHANGED <<stage, super>>
      /\ image' = WriteAt(image, offset, cell)
  BY DEF WriteCell
<1>2. Len(cell) = EntryWords /\ EntryWords \in Nat \ {0} /\ Len(cell) \in Nat
  BY StructuresAssumption
<1>3. K \in Nat /\ BlockWords = EntryWords * K
  BY <1>2, Division, LayoutAssumption, StructuresAssumption
<1>4. j \in Nat /\ j + 1 <= K
  BY <1>3, StructuresAssumption
<1>5. (j + 1) * EntryWords <= BlockWords
  <2> HIDE DEF K
  <2>1. (j + 1) * EntryWords <= K * EntryWords
    BY <1>2, <1>3, <1>4, TimesIsMonotone
  <2> QED
    BY <2>1, <1>2, <1>3
<1>6. j * EntryWords \in Nat /\ j * EntryWords + EntryWords <= BlockWords
  <2>1. (j + 1) * EntryWords = j * EntryWords + EntryWords
    BY <1>2, <1>4
  <2> QED
    BY <2>1, <1>2, <1>4, <1>5
<1>7. absolute \in Nat /\ absolute < total_blocks
  BY DataBlockInside, Sizes
<1>8. /\ BlockOffset(absolute) \in Nat /\ Length \in Nat
      /\ BlockOffset(absolute) + BlockWords <= Length
  BY <1>7, BlockInside
<1>9. offset \in Nat /\ offset + Len(cell) <= Length
  BY <1>2, <1>6, <1>8, LayoutAssumption
<1> HIDE DEF offset
<1> QED
  BY <1>1, <1>2, <1>9, CallInside
-----------------------------------------------------------------------------
THEOREM LengthFollowsMkfs == Spec => []LengthByStage
<1>1. Init => LengthByStage
  BY Sizes DEF Init, LengthByStage, LengthAfter, Up
<1>2. LengthByStage /\ [Next]_vars => LengthByStage'
  <2> SUFFICES ASSUME LengthByStage, [Next]_vars
               PROVE  LengthByStage'
    OBVIOUS
  <2>1. CASE Mkfs
    BY <2>1, MkfsKeepsLengthByStage
  <2>2. CASE Truncate
    BY <2>2, TruncateKeepsLengthByStage
  <2>3. CASE Start
    BY <2>3 DEF Start, LengthByStage, LengthAfter, Up
  <2>4. CASE Stop
    BY <2>4 DEF Stop, LengthByStage, LengthAfter, Up
  <2>5. ASSUME NEW i \in 0 .. NumInodes - 1, SetInodeBit(i)
        PROVE  LengthByStage'
    <3>1. inode_bitmap_addr \in Nat /\ inode_bitmap_addr < total_blocks
      BY LayoutTypes, RegionsFillTheImage, Sizes
    <3>2. Up /\ UNCHANGED <<stage, super>> /\ setOneToBitMap(inode_bitmap_addr, i)
      BY <2>5, ServerKnowsTheLayout DEF SetInodeBit
    <3> QED
      BY <3>1, <3>2, BitCallInside
  <2>6. ASSUME NEW b \in 0 .. NumData - 1, SetDataBit(b)
        PROVE  LengthByStage'
    <3>1. data_bitmap_addr \in Nat /\ data_bitmap_addr < total_blocks
      BY LayoutTypes, RegionsFillTheImage, Sizes
    <3>2. Up /\ UNCHANGED <<stage, super>> /\ setOneToBitMap(data_bitmap_addr, b)
      BY <2>6, ServerKnowsTheLayout DEF SetDataBit
    <3> QED
      BY <3>1, <3>2, BitCallInside
  <2>7. ASSUME NEW i \in 0 .. NumInodes - 1, NEW inode \in InodeVals, AddInode(i, inode)
        PROVE  LengthByStage'
    BY <2>7, AddInodeKeepsLengthByStage
  <2>8. ASSUME NEW b \in 0 .. NumData - 1, NEW cell \in CellVals, AddBlock(b, cell)
        PROVE  LengthByStage'
    BY <2>8, AddBlockKeepsLengthByStage
  <2>9. ASSUME NEW b \in 0 .. NumData - 1, NEW cell \in CellVals, NEW j \in UsedSlots,
               NEW absolute \in {0, data_region_addr + b}, WriteCell(absolute, j, cell)
        PROVE  LengthByStage'
    BY <2>9, WriteCellKeepsLengthByStage
  <2>10. CASE UNCHANGED vars
    BY <2>10 DEF vars, LengthByStage, LengthAfter, Up
  <2> QED
    BY <2>1, <2>2, <2>3, <2>4, <2>5, <2>6, <2>7, <2>8, <2>9, <2>10 DEF Next
<1> QED
  BY <1>1, <1>2, PTL DEF Spec

(* mkfs.c:139-199 and the writes of server.c: once mkfs has zeroed its     *)
(* blocks, neither its own writes nor any call of a server, before and     *)
(* after restarts, makes the file longer, whatever sizes mkfs was given.   *)
THEOREM ImageKeepsItsLength == Spec => []FileKeepsItsLength
<1>1. LengthByStage => FileKeepsItsLength
  BY Sizes DEF LengthByStage, FileKeepsItsLength, Length
<1> QED
  BY <1>1, LengthFollowsMkfs, PTL
=============================================================================
