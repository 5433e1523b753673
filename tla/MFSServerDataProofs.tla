------------------------- MODULE MFSServerDataProofs -------------------------
(***************************************************************************)
(* What a request may change and what a write leaves, cell by cell, for    *)
(* every value of the constants.                                           *)
(***************************************************************************)
EXTENDS MFSServerProofs, FiniteSetTheorems

Written(msg, inum, offset, nbytes, buf) ==
    /\ msg.mtype = "WRITE" /\ msg.inum = inum
    /\ msg.offset = offset /\ msg.nbytes = nbytes /\ msg.buffer = buf

(* The steps that change the image, with the message they answer.          *)
LEMMA RequestSteps ==
    ASSUME TypeOK, [Next]_vars
    PROVE  \/ /\ UNCHANGED disk
              /\ ~Request \/ UNCHANGED vars \/ m'.mtype # "WRITE" \/ m'.rc = -1
           \/ /\ UNCHANGED inodeBitmap
              /\ \E inum \in inodeBitmap, offset \in Nat, nbytes \in 0 .. BlockSize :
                 \E buf \in Buffers(nbytes) :
                   /\ Writable(inum, offset, nbytes)
                   /\ WriteServed(inum, offset, nbytes, buf)
                   /\ Written(m', inum, offset, nbytes, buf)
           \/ /\ inodeBitmap # Inums
              /\ \E pinum \in inodeBitmap, type \in CreatTypes, name \in Names :
                   /\ inodeTable[pinum].type = MFS_DIRECTORY
                   /\ CreatServed(pinum, type, name)
                   /\ m'.mtype = "CRET" /\ m'.inum = pinum
<1>1. CASE UNCHANGED vars
  BY <1>1 DEF vars
<1>2. CASE Start
  BY <1>2 DEF Start, Request
<1>3. CASE Shutdown
  BY <1>3 DEF Shutdown, Request
<1>4. ASSUME NEW i \in ReqInums, Stat(i) PROVE UNCHANGED disk /\ m'.mtype # "WRITE"
  BY <1>4 DEF Stat
<1>5. ASSUME NEW i \in ReqInums, NEW name \in Names, Lookup(i, name)
      PROVE UNCHANGED disk /\ m'.mtype # "WRITE"
  BY <1>5 DEF Lookup
<1>6. ASSUME NEW i \in ReqInums, NEW name \in Names, Unlink(i, name)
      PROVE UNCHANGED disk /\ m'.mtype # "WRITE"
  BY <1>6 DEF Unlink
<1>7. ASSUME NEW i \in ReqInums, NEW offset \in Offsets, NEW nbytes \in Lengths,
             Read(i, offset, nbytes)
      PROVE UNCHANGED disk /\ m'.mtype # "WRITE"
  BY <1>7 DEF Read
<1>8. ASSUME NEW i \in ReqInums, NEW name \in Names, NEW type \in CreatTypes,
             Creat(i, type, name)
      PROVE \/ UNCHANGED disk /\ m'.mtype # "WRITE"
            \/ /\ i \in inodeBitmap /\ inodeBitmap # Inums
               /\ inodeTable[i].type = MFS_DIRECTORY /\ CreatServed(i, type, name)
               /\ m'.mtype = "CRET" /\ m'.inum = i
  <2>1. \/ UNCHANGED disk /\ m'.mtype # "WRITE"
        \/ /\ i \in inodeBitmap /\ inodeBitmap # Inums
           /\ inodeTable[i].type # MFS_REGULAR_FILE /\ CreatServed(i, type, name)
           /\ m'.mtype = "CRET" /\ m'.inum = i
    BY <1>8 DEF Creat, Creatable, Served
  <2> QED
    BY <2>1 DEF TypeOK
<1>9. ASSUME NEW i \in ReqInums, NEW offset \in Offsets, NEW nbytes \in Lengths,
             NEW buf \in Buffers(nbytes), Write(i, offset, nbytes, buf)
      PROVE \/ UNCHANGED disk /\ m'.rc = -1
            \/ /\ UNCHANGED inodeBitmap /\ i \in inodeBitmap
               /\ Writable(i, offset, nbytes)
               /\ WriteServed(i, offset, nbytes, buf)
               /\ Written(m', i, offset, nbytes, buf)
  BY <1>9 DEF Write, Writable, Served, disk, Written
<1>10. Offsets \subseteq Nat /\ Lengths \subseteq 0 .. BlockSize
  BY RequestsAssumption
<1> QED
  BY <1>1, <1>2, <1>3, <1>4, <1>5, <1>6, <1>7, <1>8, <1>9, <1>10 DEF Next
-----------------------------------------------------------------------------
(***************************************************************************)
(* The ranges of a write.                                                  *)
(***************************************************************************)

(* A position of a file, by its block and its place there.                 *)
LEMMA PositionInBlock ==
    ASSUME NEW q \in Nat, NEW r \in Slots
    PROVE  /\ (q * BlockSize + r) \div BlockSize = q
           /\ (q * BlockSize + r) % BlockSize = r
BY SizesAssumption DEF Slots

LEMMA PlaceOfPosition ==
    ASSUME NEW pos \in Nat
    PROVE  /\ pos \div BlockSize \in Nat /\ pos % BlockSize \in Slots
           /\ pos = (pos \div BlockSize) * BlockSize + (pos % BlockSize)
BY SizesAssumption DEF Slots

(* A write of at most a block touches one block or two neighbours; what    *)
(* goes into the second one is behind what went into the first.            *)
LEMMA WriteRanges ==
    ASSUME NEW offset \in Nat, NEW nbytes \in 0 .. BlockSize
    PROVE  LET bi      == BlockIndex(offset)
               crossed == CrossedIndex(offset, nbytes)
               rem     == offset - bi * BlockSize
               before  == (bi + 1) * BlockSize - offset
           IN  /\ bi \in Nat /\ rem \in Slots /\ offset = bi * BlockSize + rem
               /\ before = BlockSize - rem
               /\ crossed = bi => rem + nbytes < BlockSize
               /\ crossed # bi => crossed = bi + 1 /\ rem + nbytes >= BlockSize
<1> DEFINE bi      == BlockIndex(offset)
           crossed == CrossedIndex(offset, nbytes)
           rem     == offset - bi * BlockSize
<1>1. bi \in Nat /\ bi * BlockSize <= offset /\ offset < (bi + 1) * BlockSize
  BY DivideByBlock DEF BlockIndex
<1>2. /\ crossed \in Nat /\ crossed * BlockSize <= offset + nbytes
      /\ offset + nbytes < (crossed + 1) * BlockSize
  BY DivideByBlock, SizesAssumption DEF CrossedIndex
<1> HIDE DEF bi, crossed
<1>3. /\ bi * BlockSize \in Nat /\ (bi + 1) * BlockSize = bi * BlockSize + BlockSize
      /\ (bi + 2) * BlockSize = bi * BlockSize + BlockSize + BlockSize
      /\ BlockSize \in Nat
  BY <1>1, SizesAssumption
<1>4. rem \in Slots
  BY <1>1, <1>3 DEF Slots
<1>5. bi <= crossed /\ crossed <= bi + 1
  <2>1. bi * BlockSize < (crossed + 1) * BlockSize
    BY <1>1, <1>2, <1>3
  <2>2. crossed * BlockSize < (bi + 2) * BlockSize
    BY <1>1, <1>2, <1>3
  <2> QED
    BY <1>1, <1>2, <2>1, <2>2, SizesAssumption
<1>6. crossed = bi => rem + nbytes < BlockSize
  BY <1>1, <1>2, <1>3
<1>7. crossed # bi => crossed = bi + 1
  BY <1>1, <1>2, <1>5
<1>8. crossed = bi + 1 => rem + nbytes >= BlockSize
  BY <1>1, <1>2, <1>3
<1> QED
  BY <1>1, <1>3, <1>4, <1>6, <1>7, <1>8 DEF bi, crossed

(* Which cells a store changes, and to what.                               *)
LEMMA StoredCell ==
    ASSUME NEW region \in Regions, NEW addr, NEW rem, NEW n, NEW buf, NEW first,
           NEW b \in DataBlocks, NEW j \in Slots
    PROVE  StoreCells(region, addr, rem, n, buf, first)[b][j]
             = IF addr = b + DataRegionAddr /\ j >= rem /\ j < rem + n
                 THEN buf[first + j - rem] ELSE region[b][j]
<1>1. CASE addr \in DataAddrs
  <2>1. Rel(addr) \in DataBlocks /\ (addr = b + DataRegionAddr <=> Rel(addr) = b)
    BY <1>1, SizesAssumption DEF DataAddrs, Rel, DataBlocks
  <2> QED
    BY <1>1, <2>1 DEF StoreCells, Regions
<1>2. CASE addr \notin DataAddrs
  BY <1>2 DEF StoreCells, DataAddrs
<1> QED
  BY <1>1, <1>2
-----------------------------------------------------------------------------
(***************************************************************************)
(* A write while blocks last.                                              *)
(***************************************************************************)

(* A pointer of a written file is the one it had, or, in place of a hole,  *)
(* one to a block that was not in use.                                     *)
PointerKept(old, new, bm, bm2) ==
    \/ new = old
    \/ Hole(old) /\ \E n \in bm2 \ bm : new = n + DataRegionAddr

LEMMA FilledWithRoom ==
    ASSUME NEW fs \in Halfway, NEW k, NEW filled, HoleFilled(fs, k, filled),
           filled.bm # DataBlocks
    PROVE  /\ fs.bm # DataBlocks /\ fs.bm \subseteq filled.bm
           /\ filled.region = fs.region
           /\ \A l \in Ptrs : PointerKept(fs.inode.direct[l], filled.inode.direct[l],
                                          fs.bm, filled.bm)
<1>1. CASE filled = fs
  BY <1>1 DEF PointerKept
<1>2. ASSUME NEW got, Allocation(fs.bm, fs.region, {0}, got), filled.bm = got.bm,
             k \in Ptrs => Hole(fs.inode.direct[k]),
             filled.region = [fs.region EXCEPT ![got.num] = got.buf],
             filled.inode.direct = [l \in Ptrs |-> IF l = k THEN got.num + DataRegionAddr
                                                   ELSE fs.inode.direct[l]]
      PROVE  /\ fs.bm # DataBlocks /\ fs.bm \subseteq filled.bm
             /\ filled.region = fs.region
             /\ \A l \in Ptrs : PointerKept(fs.inode.direct[l], filled.inode.direct[l],
                                            fs.bm, filled.bm)
  <2>1. fs.bm # DataBlocks
    BY <1>2 DEF Allocation
  <2>2. /\ got.num \in DataBlocks \ fs.bm /\ got.bm = fs.bm \cup {got.num}
        /\ got.buf = fs.region[got.num]
    BY <1>2, <2>1 DEF Allocation
  <2>3. filled.region = fs.region
    BY <1>2, <2>2 DEF Halfway, Regions
  <2>4. ASSUME NEW l \in Ptrs
        PROVE  PointerKept(fs.inode.direct[l], filled.inode.direct[l], fs.bm, filled.bm)
    BY <1>2, <2>2 DEF PointerKept
  <2> QED
    BY <1>2, <2>1, <2>2, <2>3, <2>4
<1> QED
  BY <1>1, <1>2 DEF HoleFilled

LEMMA WriteWithRoom ==
    ASSUME TypeOK, NEW inum \in Inums, NEW offset, NEW nbytes, NEW buf, NEW dup,
           NEW fs1, NEW fs2, WriteOutcome(inum, offset, nbytes, buf, dup, fs1, fs2),
           dataBitmap' # DataBlocks
    PROVE  /\ fs2 \in Halfway /\ fs2.region = dataRegion
           /\ dataBitmap # DataBlocks /\ dataBitmap \subseteq dataBitmap'
           /\ \A l \in Ptrs : PointerKept(inodeTable[inum].direct[l], fs2.inode.direct[l],
                                          dataBitmap, dataBitmap')
<1> DEFINE fs0 == [bm |-> dataBitmap, region |-> dataRegion, inode |-> inodeTable[inum]]
<1>1. fs0 \in Halfway
  BY DEF TypeOK, Halfway, Regions
<1>2. /\ HoleFilled(fs0, BlockIndex(offset), fs1)
      /\ HoleFilled(fs1, CrossedIndex(offset, nbytes), fs2)
      /\ dataBitmap' = fs2.bm
  BY DEF WriteOutcome
<1>3. fs1 \in Halfway /\ fs2 \in Halfway
  BY <1>2 DEF HoleFilled
<1>4. /\ fs0.bm = dataBitmap /\ fs0.region = dataRegion
      /\ fs0.inode = inodeTable[inum]
  OBVIOUS
<1> HIDE DEF fs0
<1>5. /\ fs1.bm # DataBlocks /\ fs1.bm \subseteq fs2.bm
      /\ fs2.region = fs1.region
      /\ \A l \in Ptrs : PointerKept(fs1.inode.direct[l], fs2.inode.direct[l],
                                     fs1.bm, fs2.bm)
  BY <1>2, <1>3, FilledWithRoom
<1>6. /\ fs0.bm # DataBlocks /\ fs0.bm \subseteq fs1.bm
      /\ fs1.region = fs0.region
      /\ \A l \in Ptrs : PointerKept(fs0.inode.direct[l], fs1.inode.direct[l],
                                     fs0.bm, fs1.bm)
  BY <1>1, <1>2, <1>5, FilledWithRoom
<1>7. ASSUME NEW l \in Ptrs
      PROVE  PointerKept(fs0.inode.direct[l], fs2.inode.direct[l], fs0.bm, fs2.bm)
  BY <1>5, <1>6 DEF PointerKept
<1> QED
  BY <1>2, <1>3, <1>4, <1>5, <1>6, <1>7

(* Slot j of block b holds a position of the range, by the inode's pointers.*)
InRange(inode, offset, nbytes, b, j) ==
    \E pos \in offset .. offset + nbytes - 1 :
       /\ pos \in Nat /\ pos % BlockSize = j
       /\ pos \div BlockSize \in Ptrs
       /\ inode.direct[pos \div BlockSize] = b + DataRegionAddr

(* The cells that a served write changes belong to positions in its range. *)
LEMMA ChangedCellIsInRange ==
    ASSUME TypeOK, NEW inum \in Inums, NEW offset \in Nat, NEW nbytes \in 0 .. BlockSize,
           NEW buf, Writable(inum, offset, nbytes), NEW dup,
           NEW fs1, NEW fs2, WriteOutcome(inum, offset, nbytes, buf, dup, fs1, fs2),
           dataBitmap' # DataBlocks,
           NEW b \in DataBlocks, NEW j \in Slots, dataRegion'[b][j] # dataRegion[b][j]
    PROVE  InRange(fs2.inode, offset, nbytes, b, j)
<1> USE DEF InRange
<1> DEFINE bi      == BlockIndex(offset)
           crossed == CrossedIndex(offset, nbytes)
           rem     == offset - bi * BlockSize
           before  == (bi + 1) * BlockSize - offset
           addr    == inodeTable[inum].direct[bi]
<1>1. /\ bi \in Nat /\ rem \in Slots /\ offset = bi * BlockSize + rem
      /\ before = BlockSize - rem
      /\ crossed = bi => rem + nbytes < BlockSize
      /\ crossed # bi => crossed = bi + 1 /\ rem + nbytes >= BlockSize
  BY WriteRanges
<1>2. /\ fs2 \in Halfway /\ fs2.region = dataRegion
      /\ \A l \in Ptrs : PointerKept(inodeTable[inum].direct[l], fs2.inode.direct[l],
                                     dataBitmap, dataBitmap')
  BY WriteWithRoom
<1>3. dataRegion \in Regions
  BY DEF TypeOK, Regions
<1>4. bi \in Ptrs
  BY <1>1, SizesAssumption DEF Writable, Ptrs
<1>5. \/ /\ crossed # bi
         /\ dataRegion' = IF crossed \in Ptrs
              THEN StoreCells(StoreCells(fs2.region, fs2.inode.direct[bi],
                                         rem, before, dup, 0),
                              fs2.inode.direct[crossed], 0, nbytes - before, dup, before)
              ELSE StoreCells(fs2.region, fs2.inode.direct[bi], rem, before, dup, 0)
      \/ /\ crossed = bi
         /\ dataRegion' = StoreCells(fs2.region, addr, rem, nbytes, dup, 0)
  BY DEF WriteOutcome, CellsStored
<1>6. /\ BlockSize \in Nat /\ nbytes \in Nat /\ nbytes <= BlockSize
      /\ j \in Nat /\ rem \in Nat /\ j < BlockSize /\ rem < BlockSize
  BY <1>1, SizesAssumption DEF Slots
<1>7. ASSUME NEW q \in Ptrs, fs2.inode.direct[q] = b + DataRegionAddr,
             q * BlockSize + j >= offset, q * BlockSize + j < offset + nbytes
      PROVE  \E pos \in offset .. offset + nbytes - 1 :
              /\ pos \in Nat /\ pos % BlockSize = j
              /\ pos \div BlockSize \in Ptrs
              /\ fs2.inode.direct[pos \div BlockSize] = b + DataRegionAddr
  <2> DEFINE pos == q * BlockSize + j
  <2>1. q \in Nat
    BY SizesAssumption DEF Ptrs
  <2>2. pos \div BlockSize = q /\ pos % BlockSize = j
    BY <2>1, PositionInBlock
  <2>3. pos \in Nat
    BY <2>1, <1>6
  <2> HIDE DEF pos
  <2>4. pos \in offset .. offset + nbytes - 1
    BY <1>6, <1>7, <2>3 DEF pos
  <2> QED
    BY <1>7, <2>2, <2>3, <2>4
<1> HIDE DEF bi, crossed, rem, before, addr
<1>8. CASE crossed = bi
  <2>1. addr = b + DataRegionAddr /\ j >= rem /\ j < rem + nbytes
    BY <1>2, <1>3, <1>5, <1>8, StoredCell
  <2>2. ~Hole(addr)
    BY <2>1, AddressOfBlock
  <2>3. fs2.inode.direct[bi] = b + DataRegionAddr
    BY <1>2, <1>4, <2>1, <2>2 DEF PointerKept, addr
  <2> QED
    BY <1>1, <1>4, <1>6, <1>7, <2>1, <2>3
<1>9. CASE crossed # bi
  <2> DEFINE half == StoreCells(fs2.region, fs2.inode.direct[bi], rem, before, dup, 0)
  <2>1. half[b][j] = IF fs2.inode.direct[bi] = b + DataRegionAddr /\ j >= rem /\ j < rem + before
                       THEN dup[0 + j - rem] ELSE dataRegion[b][j]
    BY <1>2, <1>3, StoredCell
  <2>2. CASE half[b][j] # dataRegion[b][j]
    <3>1. fs2.inode.direct[bi] = b + DataRegionAddr /\ j >= rem
      BY <2>1, <2>2
    <3> QED
      BY <1>1, <1>4, <1>6, <1>7, <1>9, <3>1
  <2>3. CASE half[b][j] = dataRegion[b][j]
    <3>1. crossed \in Ptrs
      BY <1>5, <1>9, <2>3
    <3>2. half \in Regions
      <4>1. dup \in [0 .. nbytes - 1 -> Cells]
        BY RequestsAssumption, LeftoversAssumption DEF WriteOutcome, Duplicates
      <4>2. before \in Nat /\ 0 + before <= nbytes /\ before \in Int
        BY <1>1, <1>6, <1>9
      <4> QED
        BY <1>2, <1>3, <1>6, <4>1, <4>2, StoredCells
    <3> HIDE DEF half
    <3>3. dataRegion'[b][j] = IF /\ fs2.inode.direct[crossed] = b + DataRegionAddr
                                 /\ j >= 0 /\ j < 0 + (nbytes - before)
                                THEN dup[before + j - 0] ELSE half[b][j]
      <4>1. dataRegion' = StoreCells(half, fs2.inode.direct[crossed], 0, nbytes - before,
                                     dup, before)
        BY <1>5, <1>9, <3>1 DEF half
      <4> QED
        BY <4>1, <3>2, StoredCell
    <3>4. fs2.inode.direct[crossed] = b + DataRegionAddr /\ j < nbytes - before
      BY <2>3, <3>3, <1>6, <1>1
    <3>5. crossed * BlockSize = bi * BlockSize + BlockSize /\ bi * BlockSize \in Nat
      BY <1>1, <1>6, <1>9
    <3> QED
      BY <1>1, <1>6, <1>7, <1>9, <3>1, <3>4, <3>5
  <2> QED
    BY <2>2, <2>3
<1> QED
  BY <1>8, <1>9

LEMMA WriteTouches ==
    ASSUME TypeOK, NEW inum \in inodeBitmap, NEW offset \in Nat,
           NEW nbytes \in 0 .. BlockSize, NEW buf \in Buffers(nbytes),
           Writable(inum, offset, nbytes), WriteServed(inum, offset, nbytes, buf),
           Written(m', inum, offset, nbytes, buf), dataBitmap' # DataBlocks
    PROVE  /\ \A b \in dataBitmap, j \in Slots :
                dataRegion'[b][j] # dataRegion[b][j] => j \in Touched(m', b)
           /\ \A i \in inodeBitmap : inodeTable'[i] # inodeTable[i] =>
                i \in LiveFiles /\ m'.mtype = "WRITE" /\ m'.inum = i
<1>1. inum \in Inums /\ nbytes \in Nat
  BY SizesAssumption DEF TypeOK
<1>2. PICK dup, fs1, fs2 : WriteOutcome(inum, offset, nbytes, buf, dup, fs1, fs2)
  BY <1>1, ServedWrite
<1>3. ASSUME NEW b \in dataBitmap, NEW j \in Slots,
             dataRegion'[b][j] # dataRegion[b][j]
      PROVE  j \in Touched(m', b)
  <2>1. b \in DataBlocks
    BY DEF TypeOK
  <2>2. PICK pos \in offset .. offset + nbytes - 1 :
              /\ pos \in Nat /\ pos % BlockSize = j
              /\ pos \div BlockSize \in Ptrs
              /\ fs2.inode.direct[pos \div BlockSize] = b + DataRegionAddr
    BY <1>1, <1>2, <1>3, <2>1, ChangedCellIsInRange DEF InRange
  <2>3. PointerKept(inodeTable[inum].direct[pos \div BlockSize],
                    fs2.inode.direct[pos \div BlockSize], dataBitmap, dataBitmap')
    BY <1>1, <1>2, <2>2, WriteWithRoom
  <2>4. ASSUME NEW n \in dataBitmap' \ dataBitmap PROVE n + DataRegionAddr # b + DataRegionAddr
    <3>1. fs2 \in Halfway
      BY <1>1, <1>2, WriteWithRoom
    <3>2. dataBitmap' \subseteq DataBlocks
      BY <1>2, <3>1 DEF WriteOutcome, Halfway
    <3> QED
      BY <2>1, <2>4, <3>2, SizesAssumption DEF DataBlocks
  <2>5. inodeTable[inum].direct[pos \div BlockSize] = b + DataRegionAddr
    BY <2>2, <2>3, <2>4 DEF PointerKept
  <2> QED
    BY <2>2, <2>5 DEF Touched, Written
<1>4. ASSUME NEW i \in inodeBitmap, inodeTable'[i] # inodeTable[i]
      PROVE  i \in LiveFiles /\ m'.mtype = "WRITE" /\ m'.inum = i
  <2>1. i = inum
    BY <1>2, <1>4 DEF WriteOutcome, TypeOK
  <2>2. inodeTable[inum].type = MFS_REGULAR_FILE
    BY <1>1 DEF Writable, TypeOK, Inodes
  <2> QED
    BY <2>1, <2>2 DEF LiveFiles, Written
<1> QED
  BY <1>3, <1>4

(* The blocks that a create takes were not in use; in one that was, it     *)
(* fills an entry of its parent that was free.                             *)
LEMMA CreatTouches ==
    ASSUME TypeOK, NEW pinum \in inodeBitmap, NEW type \in CreatTypes, NEW name \in Names,
           inodeBitmap # Inums, inodeTable[pinum].type = MFS_DIRECTORY,
           CreatServed(pinum, type, name),
           m'.mtype = "CRET", m'.inum = pinum, dataBitmap' # DataBlocks
    PROVE  /\ \A b \in dataBitmap, j \in Slots :
                dataRegion'[b][j] # dataRegion[b][j] => j \in Touched(m', b)
           /\ \A i \in inodeBitmap : inodeTable'[i] = inodeTable[i]
<1>1. pinum \in Inums
  BY DEF TypeOK
<1>2. PICK inum, linked, made, got0 :
         /\ CreatChanges(inum, made.inode, linked.bm, linked.region, got0)
         /\ CreatOutcome(pinum, type, name, inum, linked, made)
  BY <1>1, ServedCreat
<1>3. PICK got : /\ Allocation(linked.bm, linked.region, {0}, got)
                 /\ made.bm = got.bm
                 /\ made.region = [linked.region EXCEPT
                                     ![got.num] = ChildBlock(got.buf, inum, pinum, type)]
  BY <1>2 DEF CreatOutcome, ChildAdded
<1>4. dataBitmap' = got.bm /\ dataRegion' = made.region
  BY <1>2, <1>3 DEF CreatOutcome
<1>5. /\ dataBitmap \subseteq linked.bm /\ linked.bm # DataBlocks
      /\ got.num \notin linked.bm /\ dataBitmap # DataBlocks
  BY <1>2, <1>3, <1>4 DEF CreatChanges, Grows, Allocation, TypeOK
<1>6. ASSUME NEW b \in dataBitmap, NEW j \in Slots, dataRegion'[b][j] # dataRegion[b][j]
      PROVE  j \in Touched(m', b)
  <2>1. b \in DataBlocks /\ b # got.num
    BY <1>5 DEF TypeOK
  <2>2. EntryLinked(dataBitmap, dataRegion, inodeTable[pinum], Entry(name, inum), linked)
    BY <1>2 DEF CreatOutcome
  <2>3. ASSUME NEW k \in Scanned(inodeTable[pinum]), NEW free \in Slots,
               inodeTable[pinum].direct[k] \in DataAddrs,
               EntryAt(dataRegion, inodeTable[pinum], k, free).inum = -1,
               linked.region = [dataRegion EXCEPT
                 ![Rel(inodeTable[pinum].direct[k])][free] = Entry(name, inum)]
        PROVE  j \in Touched(m', b)
    <3>1. dataRegion \in Regions
      BY DEF TypeOK, Regions
    <3>2. dataRegion'[b] = linked.region[b]
      BY <1>3, <1>4, <2>1, <2>3, <3>1 DEF Regions
    <3>3. b = Rel(inodeTable[pinum].direct[k]) /\ j = free
      BY <1>6, <2>1, <2>3, <3>1, <3>2 DEF Regions, Blocks
    <3>4. k \in Ptrs
      BY DEF Scanned
    <3>5. inodeTable[pinum].direct[k] = b + DataRegionAddr
      BY <2>3, <3>3, RelOfPointer
    <3> QED
      BY <2>3, <3>3, <3>4, <3>5 DEF Touched, EntryAt
  <2>4. ASSUME NEW extra, Allocation(dataBitmap, dataRegion, StackInts, extra),
               linked.region = [dataRegion EXCEPT
                 ![extra.num] = [extra.buf EXCEPT ![0] = Entry(name, inum)]]
        PROVE  FALSE
    <3>1. b # extra.num
      BY <1>5, <2>4 DEF Allocation
    <3>2. dataRegion'[b] = dataRegion[b]
      BY <1>3, <1>4, <2>1, <2>4, <3>1 DEF TypeOK
    <3> QED
      BY <1>6, <3>2
  <2>5. ASSUME linked.region = dataRegion PROVE FALSE
    <3>1. dataRegion'[b] = dataRegion[b]
      BY <1>3, <1>4, <2>1, <2>5 DEF TypeOK
    <3> QED
      BY <1>6, <3>1
  <2> QED
    BY <2>2, <2>3, <2>4, <2>5 DEF EntryLinked
<1>7. \A i \in inodeBitmap : inodeTable'[i] = inodeTable[i]
  BY <1>2 DEF CreatChanges, TypeOK
<1> QED
  BY <1>6, <1>7

(* No request, in any history, changes what is on the image but what it is *)
(* about: a cell of the file it writes, or a free entry of its parent.     *)
THEOREM RequestsTouchTheirOwn == Spec => OthersUntouched
<1> DEFINE Untouched ==
      dataBitmap' # DataBlocks /\ mode' # "lost" =>
          /\ \A b \in dataBitmap, j \in Slots :
               dataRegion'[b][j] # dataRegion[b][j] => j \in Touched(m', b)
          /\ \A i \in inodeBitmap :
               inodeTable'[i] # inodeTable[i] =>
                 i \in LiveFiles /\ m'.mtype = "WRITE" /\ m'.inum = i
<1>1. TypeOK /\ [Next]_vars => [Untouched]_vars
  <2> SUFFICES ASSUME TypeOK, [Next]_vars, dataBitmap' # DataBlocks PROVE Untouched
    BY DEF vars, disk
  <2>1. CASE UNCHANGED disk
    BY <2>1 DEF disk
  <2>2. ASSUME NEW inum \in inodeBitmap, NEW offset \in Nat, NEW nbytes \in 0 .. BlockSize,
               NEW buf \in Buffers(nbytes), Writable(inum, offset, nbytes),
               WriteServed(inum, offset, nbytes, buf),
               Written(m', inum, offset, nbytes, buf)
        PROVE  Untouched
    BY <2>2, WriteTouches
  <2>3. ASSUME NEW pinum \in inodeBitmap, NEW type \in CreatTypes, NEW name \in Names,
               inodeBitmap # Inums, inodeTable[pinum].type = MFS_DIRECTORY,
               CreatServed(pinum, type, name), m'.mtype = "CRET", m'.inum = pinum
        PROVE  Untouched
    BY <2>3, CreatTouches
  <2> HIDE DEF Untouched
  <2> QED
    BY <2>1, <2>2, <2>3, RequestSteps
<1>2. Spec => [][Untouched]_vars
  <2> HIDE DEF Untouched
  <2> QED
    BY <1>1, TypeCorrect, PTL DEF Spec
<1> QED
  BY <1>2 DEF OthersUntouched
-----------------------------------------------------------------------------
(***************************************************************************)
(* What a write leaves.                                                    *)
(***************************************************************************)

(* Both ends of a served write that reaches the end of its block have a    *)
(* block afterwards; a write inside a block that was there finds it again. *)
LEMMA WrittenPointers ==
    ASSUME TypeOK, NEW inum \in Inums, NEW offset \in Nat, NEW nbytes, NEW buf, NEW dup,
           NEW fs1, NEW fs2, WriteOutcome(inum, offset, nbytes, buf, dup, fs1, fs2),
           BlockIndex(offset) \in Ptrs, dataBitmap' # DataBlocks
    PROVE  /\ ~Hole(fs2.inode.direct[BlockIndex(offset)])
           /\ ~Hole(inodeTable[inum].direct[BlockIndex(offset)]) =>
                fs2.inode.direct[BlockIndex(offset)]
                  = inodeTable[inum].direct[BlockIndex(offset)]
           /\ CrossedIndex(offset, nbytes) \in Ptrs =>
                ~Hole(fs2.inode.direct[CrossedIndex(offset, nbytes)])
<1> DEFINE bi == BlockIndex(offset)
           fs0 == [bm |-> dataBitmap, region |-> dataRegion, inode |-> inodeTable[inum]]
<1>1. HoleFilled(fs0, bi, fs1) /\ HoleFilled(fs1, CrossedIndex(offset, nbytes), fs2)
  BY DEF WriteOutcome
<1>2. ~Hole(fs1.inode.direct[bi])
  BY <1>1, FilledIsNoHole
<1>3. PointerKept(fs1.inode.direct[bi], fs2.inode.direct[bi], fs1.bm, fs2.bm)
  <2>1. fs1 \in Halfway /\ fs2.bm # DataBlocks
    BY <1>1 DEF HoleFilled, WriteOutcome
  <2> QED
    BY <1>1, <2>1, FilledWithRoom
<1>4. PointerKept(inodeTable[inum].direct[bi], fs2.inode.direct[bi],
                  dataBitmap, dataBitmap')
  BY WriteWithRoom
<1>5. CrossedIndex(offset, nbytes) \in Ptrs =>
        ~Hole(fs2.inode.direct[CrossedIndex(offset, nbytes)])
  BY <1>1, FilledIsNoHole
<1> QED
  BY <1>2, <1>3, <1>4, <1>5 DEF PointerKept

(* Where the z-th cell of a write lies.                                    *)
LEMMA PlaceInWrite ==
    ASSUME NEW offset \in Nat, NEW nbytes \in 0 .. BlockSize, NEW z \in 0 .. nbytes - 1
    PROVE  LET bi  == BlockIndex(offset)
               rem == offset - bi * BlockSize
           IN  IF rem + z < BlockSize
                 THEN /\ (offset + z) \div BlockSize = bi
                      /\ (offset + z) % BlockSize = rem + z
                      /\ rem + z \in Slots
                 ELSE /\ (offset + z) \div BlockSize = bi + 1
                      /\ (offset + z) % BlockSize = rem + z - BlockSize
                      /\ rem + z - BlockSize \in Slots
                      /\ CrossedIndex(offset, nbytes) = bi + 1
<1> DEFINE bi  == BlockIndex(offset)
           rem == offset - bi * BlockSize
<1>1. /\ bi \in Nat /\ rem \in Slots /\ offset = bi * BlockSize + rem
      /\ CrossedIndex(offset, nbytes) = bi => rem + nbytes < BlockSize
      /\ CrossedIndex(offset, nbytes) # bi => CrossedIndex(offset, nbytes) = bi + 1
  BY WriteRanges
<1> HIDE DEF bi, rem
<1>2. /\ BlockSize \in Nat /\ nbytes \in Nat /\ nbytes <= BlockSize /\ z \in Nat
      /\ z < nbytes /\ rem \in Nat /\ rem < BlockSize /\ bi * BlockSize \in Nat
      /\ (bi + 1) * BlockSize = bi * BlockSize + BlockSize
  BY <1>1, SizesAssumption DEF Slots
<1>3. CASE rem + z < BlockSize
  <2>1. rem + z \in Slots /\ offset + z = bi * BlockSize + (rem + z)
    BY <1>1, <1>2, <1>3 DEF Slots
  <2> QED
    BY <1>1, <1>3, <2>1, PositionInBlock DEF bi, rem
<1>4. CASE ~(rem + z < BlockSize)
  <2>1. /\ rem + z - BlockSize \in Slots
        /\ offset + z = (bi + 1) * BlockSize + (rem + z - BlockSize)
    BY <1>1, <1>2, <1>4 DEF Slots
  <2>2. bi + 1 \in Nat
    BY <1>1
  <2>3. CrossedIndex(offset, nbytes) # bi
    BY <1>1, <1>2, <1>4
  <2> QED
    BY <1>1, <1>4, <2>1, <2>2, <2>3, PositionInBlock DEF bi, rem
<1> QED
  BY <1>3, <1>4

(* The blocks of a range are holes or data blocks.                         *)
InPlace(inode, offset, nbytes) ==
    \A z \in 0 .. nbytes - 1 :
        LET addr == inode.direct[(offset + z) \div BlockSize]
        IN  Hole(addr) \/ addr \in DataAddrs

(* All that the server has of the buffer is in the file afterwards.        *)
LEMMA WriteStores ==
    ASSUME TypeOK, NEW inum \in inodeBitmap, NEW offset \in Nat,
           NEW nbytes \in 0 .. BlockSize, NEW buf \in Buffers(nbytes),
           Writable(inum, offset, nbytes),
           NEW dup, NEW fs1, NEW fs2, WriteOutcome(inum, offset, nbytes, buf, dup, fs1, fs2),
           dataBitmap' # DataBlocks,
           \/ ~Hole(inodeTable[inum].direct[BlockIndex(offset)])
           \/ CrossedIndex(offset, nbytes) # BlockIndex(offset),
           InPlace(inodeTable[inum], offset, nbytes)
    PROVE  /\ frontIntact' = frontIntact
           /\ \A z \in 0 .. nbytes - 1 :
                FileCell(inodeTable', dataRegion', inum, offset + z) = dup[z]
<1> DEFINE bi      == BlockIndex(offset)
           crossed == CrossedIndex(offset, nbytes)
           rem     == offset - bi * BlockSize
           before  == (bi + 1) * BlockSize - offset
           addr    == inodeTable[inum].direct[bi]
<1>1. inum \in Inums /\ nbytes \in Nat
  BY SizesAssumption DEF TypeOK
<1>2. WriteOutcome(inum, offset, nbytes, buf, dup, fs1, fs2)
  OBVIOUS
<1>3. /\ bi \in Nat /\ rem \in Slots /\ offset = bi * BlockSize + rem
      /\ before = BlockSize - rem
      /\ crossed = bi => rem + nbytes < BlockSize
      /\ crossed # bi => crossed = bi + 1 /\ rem + nbytes >= BlockSize
  BY WriteRanges
<1>4. bi \in Ptrs
  BY <1>3, SizesAssumption DEF Writable, Ptrs
<1>5. /\ fs2 \in Halfway /\ fs2.region = dataRegion
      /\ ~Hole(fs2.inode.direct[bi])
      /\ ~Hole(addr) => fs2.inode.direct[bi] = addr
      /\ crossed \in Ptrs => ~Hole(fs2.inode.direct[crossed])
  BY <1>1, <1>2, <1>4, WriteWithRoom, WrittenPointers
<1>6. fs2.region \in Regions /\ inodeTable'[inum] = fs2.inode
  BY <1>1, <1>2, <1>5 DEF Halfway, WriteOutcome, TypeOK
<1>7. \/ /\ crossed # bi
         /\ dataRegion' = IF crossed \in Ptrs
              THEN StoreCells(StoreCells(fs2.region, fs2.inode.direct[bi],
                                         rem, before, dup, 0),
                              fs2.inode.direct[crossed], 0, nbytes - before, dup, before)
              ELSE StoreCells(fs2.region, fs2.inode.direct[bi], rem, before, dup, 0)
         /\ WritesLand({<<fs2.inode.direct[bi], rem .. rem + before - 1>>} \cup
                       {<<fs2.inode.direct[k], 0 .. nbytes - before - 1>> :
                          k \in {crossed} \cap Ptrs})
      \/ /\ crossed = bi
         /\ dataRegion' = StoreCells(fs2.region, addr, rem, nbytes, dup, 0)
         /\ WritesLand({<<addr, rem .. rem + nbytes - 1>>})
  BY <1>2 DEF WriteOutcome, CellsStored
<1>8. dataBitmap' \subseteq DataBlocks
  BY <1>2, <1>5 DEF WriteOutcome, Halfway
<1>9. ASSUME NEW k \in Ptrs, ~Hole(fs2.inode.direct[k]),
             NEW z \in 0 .. nbytes - 1, (offset + z) \div BlockSize = k
      PROVE  /\ fs2.inode.direct[k] \in DataAddrs
             /\ Rel(fs2.inode.direct[k]) \in DataBlocks
             /\ fs2.inode.direct[k] = Rel(fs2.inode.direct[k]) + DataRegionAddr
  <2>1. Hole(inodeTable[inum].direct[k]) \/ inodeTable[inum].direct[k] \in DataAddrs
    BY <1>9 DEF InPlace
  <2>2. PointerKept(inodeTable[inum].direct[k], fs2.inode.direct[k], dataBitmap, dataBitmap')
    BY <1>1, <1>2, WriteWithRoom
  <2>3. fs2.inode.direct[k] \in DataAddrs
    BY <1>8, <1>9, <2>1, <2>2, AddressOfBlock DEF PointerKept
  <2> QED
    BY <2>3, RelOfPointer
<1>10. /\ dup \in [0 .. nbytes - 1 -> Cells] /\ BlockSize \in Nat
       /\ rem \in Nat /\ rem < BlockSize
  <2>1. dup \in [0 .. nbytes - 1 -> Cells]
    BY <1>2, RequestsAssumption, LeftoversAssumption DEF WriteOutcome, Duplicates
  <2>2. BlockSize \in Nat /\ rem \in Nat /\ rem < BlockSize
    BY <1>3, SizesAssumption DEF Slots
  <2> QED
    BY <2>1, <2>2
<1>11. ASSUME NEW z \in 0 .. nbytes - 1
       PROVE  FileCell(inodeTable', dataRegion', inum, offset + z) = dup[z]
  <2>1. z \in Nat /\ z < nbytes /\ nbytes <= BlockSize
    OBVIOUS
  <2>2. CASE rem + z < BlockSize
    <3> DEFINE b == Rel(fs2.inode.direct[bi])
    <3>1. /\ (offset + z) \div BlockSize = bi /\ (offset + z) % BlockSize = rem + z
          /\ rem + z \in Slots
      BY <2>2, PlaceInWrite
    <3>2. b \in DataBlocks /\ fs2.inode.direct[bi] = b + DataRegionAddr
      BY <1>4, <1>5, <1>9, <3>1
    <3>3. FileCell(inodeTable', dataRegion', inum, offset + z) = dataRegion'[b][rem + z]
      BY <1>6, <3>1 DEF FileCell
    <3> HIDE DEF b, bi, crossed, rem, before, addr
    <3>4. CASE crossed = bi
      <4>1. addr = b + DataRegionAddr
        BY <1>5, <3>2, <3>4 DEF addr, bi, crossed
      <4>2. dataRegion'[b][rem + z]
              = IF addr = b + DataRegionAddr /\ rem + z >= rem /\ rem + z < rem + nbytes
                  THEN dup[0 + (rem + z) - rem] ELSE fs2.region[b][rem + z]
        BY <1>6, <1>7, <3>1, <3>2, <3>4, StoredCell
      <4>3. rem + z >= rem /\ rem + z < rem + nbytes /\ 0 + (rem + z) - rem = z
        BY <1>10, <2>1
      <4> QED
        BY <3>3, <4>1, <4>2, <4>3
    <3>5. CASE crossed # bi
      <4> DEFINE half == StoreCells(fs2.region, fs2.inode.direct[bi], rem, before, dup, 0)
      <4>1. half[b][rem + z]
              = IF fs2.inode.direct[bi] = b + DataRegionAddr
                     /\ rem + z >= rem /\ rem + z < rem + before
                  THEN dup[0 + (rem + z) - rem] ELSE fs2.region[b][rem + z]
        BY <1>6, <3>1, <3>2, StoredCell
      <4>2. half[b][rem + z] = dup[z]
        BY <1>3, <1>10, <2>1, <2>2, <3>2, <4>1
      <4>3. half \in Regions
        <5>1. /\ rem \in Nat /\ before \in Int /\ nbytes \in Nat /\ 0 + before <= nbytes
          BY <1>3, <1>10, <2>1, <3>5
        <5> QED
          BY <1>6, <1>10, <5>1, StoredCells
      <4> HIDE DEF half
      <4>4. CASE crossed \in Ptrs
        <5>1. dataRegion'[b][rem + z]
                = IF fs2.inode.direct[crossed] = b + DataRegionAddr
                       /\ rem + z >= 0 /\ rem + z < 0 + (nbytes - before)
                    THEN dup[before + (rem + z) - 0] ELSE half[b][rem + z]
          <6>1. dataRegion' = StoreCells(half, fs2.inode.direct[crossed], 0,
                                         nbytes - before, dup, before)
            BY <1>7, <3>5, <4>4 DEF half
          <6> QED
            BY <3>1, <3>2, <4>3, <6>1, StoredCell
        <5>2. ~(rem + z < 0 + (nbytes - before))
          BY <1>3, <1>10, <2>1
        <5> QED
          BY <3>3, <4>2, <5>1, <5>2
      <4>5. CASE crossed \notin Ptrs
        BY <1>7, <3>3, <3>5, <4>2, <4>5 DEF half
      <4> QED
        BY <4>4, <4>5
    <3> QED
      BY <3>4, <3>5
  <2>3. CASE ~(rem + z < BlockSize)
    <3> DEFINE b == Rel(fs2.inode.direct[crossed])
               half == StoreCells(fs2.region, fs2.inode.direct[bi], rem, before, dup, 0)
               j == rem + z - BlockSize
    <3>1. /\ (offset + z) \div BlockSize = bi + 1 /\ (offset + z) % BlockSize = j
          /\ j \in Slots /\ crossed = bi + 1
      BY <2>3, PlaceInWrite
    <3>2. crossed \in Ptrs
      <4>1. offset + nbytes <= DirectPtrs * BlockSize
        BY DEF Writable, MaxOffset
      <4> HIDE DEF bi, crossed, rem, before, addr
      <4>2. crossed * BlockSize = bi * BlockSize + BlockSize /\ bi * BlockSize \in Nat
        BY <1>3, <1>10, <3>1
      <4>3. crossed * BlockSize < DirectPtrs * BlockSize
        BY <1>3, <1>10, <2>1, <2>3, <4>1, <4>2, SizesAssumption
      <4>4. crossed < DirectPtrs
        BY <1>3, <3>1, <4>3, SizesAssumption
      <4> QED
        BY <1>3, <3>1, <4>4, SizesAssumption DEF Ptrs
    <3>3. b \in DataBlocks /\ fs2.inode.direct[crossed] = b + DataRegionAddr
      BY <1>5, <1>9, <3>1, <3>2
    <3>4. FileCell(inodeTable', dataRegion', inum, offset + z) = dataRegion'[b][j]
      BY <1>6, <3>1 DEF FileCell
    <3> HIDE DEF b, bi, crossed, rem, before, addr
    <3>5. half \in Regions
      <4>1. /\ rem \in Nat /\ before \in Int /\ nbytes \in Nat /\ 0 + before <= nbytes
        BY <1>3, <1>10, <2>1, <3>1
      <4> QED
        BY <1>6, <1>10, <4>1, StoredCells
    <3>6. crossed # bi
      BY <1>3, <3>1
    <3>7. dataRegion' = StoreCells(half, fs2.inode.direct[crossed], 0,
                                   nbytes - before, dup, before)
      BY <1>7, <3>2, <3>6
    <3> HIDE DEF half
    <3>8. dataRegion'[b][j]
            = IF fs2.inode.direct[crossed] = b + DataRegionAddr
                   /\ j >= 0 /\ j < 0 + (nbytes - before)
                THEN dup[before + j - 0] ELSE half[b][j]
      BY <3>1, <3>3, <3>5, <3>7, StoredCell
    <3>9. j >= 0 /\ j < 0 + (nbytes - before) /\ before + j - 0 = z
      BY <1>3, <1>10, <2>1, <2>3
    <3> QED
      BY <3>3, <3>4, <3>8, <3>9
  <2> QED
    BY <2>2, <2>3
<1>12. frontIntact' = frontIntact
  <2>1. ASSUME NEW z \in 0 .. nbytes - 1, NEW k \in Ptrs, (offset + z) \div BlockSize = k,
               ~Hole(fs2.inode.direct[k]), NEW cells
        PROVE  ~Spoils(fs2.inode.direct[k], cells)
    <3>1. fs2.inode.direct[k] \in DataAddrs
      BY <1>9, <2>1
    <3>2. \A a \in DataAddrs : ~(a < DataRegionAddr)
      BY SizesAssumption DEF DataAddrs, DataBlocks
    <3> QED
      BY <3>1, <3>2 DEF Spoils
  <2>2. ASSUME NEW from \in Nat, NEW n \in Int, n <= 0, NEW a
        PROVE  ~Spoils(a, from .. from + n - 1)
    <3>1. from .. from + n - 1 = {}
      BY <2>2
    <3> QED
      BY <3>1 DEF Spoils
  <2>3. nbytes > 0 => (0 \in 0 .. nbytes - 1 /\ (offset + 0) \div BlockSize = bi)
    <3> SUFFICES ASSUME nbytes > 0
                 PROVE  0 \in 0 .. nbytes - 1 /\ (offset + 0) \div BlockSize = bi
      OBVIOUS
    <3>1. 0 \in 0 .. nbytes - 1
      BY <1>1
    <3>2. offset + 0 = offset
      OBVIOUS
    <3> QED
      BY <3>1, <3>2 DEF BlockIndex
  <2>4. ASSUME NEW n \in Int, n > 0 => nbytes > 0
        PROVE  ~Spoils(fs2.inode.direct[bi], rem .. rem + n - 1)
    <3>1. CASE n > 0
      BY <1>4, <1>5, <2>1, <2>3, <2>4, <3>1
    <3>2. CASE ~(n > 0)
      <4> HIDE DEF bi, rem, before, crossed, addr
      <4> QED
        BY <1>10, <2>2, <3>2
    <3> QED
      BY <3>1, <3>2
  <2>5. CASE crossed = bi
    <3>1. fs2.inode.direct[bi] = addr
      BY <1>5, <2>5
    <3>2. ~Spoils(addr, rem .. rem + nbytes - 1)
      BY <1>1, <2>4, <3>1
    <3> QED
      BY <1>7, <2>5, <3>2 DEF WritesLand, TypeOK
  <2>6. CASE crossed # bi
    <3> HIDE DEF bi, rem, before, crossed, addr
    <3>1. before \in Int /\ before > 0 /\ before <= nbytes /\ rem + before = BlockSize
      BY <1>1, <1>3, <1>10, <2>6
    <3>2. ~Spoils(fs2.inode.direct[bi], rem .. rem + before - 1)
      BY <1>1, <2>4, <3>1
    <3>3. ASSUME NEW k \in {crossed} \cap Ptrs
          PROVE  ~Spoils(fs2.inode.direct[k], 0 .. nbytes - before - 1)
      <4>1. k = crossed /\ crossed \in Ptrs /\ ~Hole(fs2.inode.direct[k])
        BY <1>5
      <4>2. CASE nbytes - before > 0
        <5>1. before \in 0 .. nbytes - 1 /\ ~(rem + before < BlockSize)
          BY <1>1, <1>10, <3>1, <4>2
        <5>2. (offset + before) \div BlockSize = bi + 1
          BY <5>1, PlaceInWrite DEF bi, rem
        <5>3. (offset + before) \div BlockSize = k
          BY <1>3, <2>6, <4>1, <5>2
        <5> QED
          BY <2>1, <4>1, <5>1, <5>3
      <4>3. CASE ~(nbytes - before > 0)
        <5>1. nbytes - before \in Int /\ nbytes - before <= 0
          BY <1>1, <3>1, <4>3
        <5>2. 0 + (nbytes - before) - 1 = nbytes - before - 1
          BY <5>1
        <5> QED
          BY <2>2, <5>1, <5>2
      <4> QED
        BY <4>2, <4>3
    <3> QED
      BY <1>7, <2>6, <3>2, <3>3 DEF WritesLand, TypeOK
  <2> QED
    BY <2>5, <2>6
<1> QED
  BY <1>11, <1>12

LEMMA WriteLands ==
    ASSUME TypeOK, NEW inum \in inodeBitmap, NEW offset \in Nat,
           NEW nbytes \in 0 .. BlockSize, NEW buf \in Buffers(nbytes),
           Writable(inum, offset, nbytes), WriteServed(inum, offset, nbytes, buf),
           dataBitmap' # DataBlocks,
           \/ ~Hole(inodeTable[inum].direct[BlockIndex(offset)])
           \/ CrossedIndex(offset, nbytes) # BlockIndex(offset),
           InPlace(inodeTable[inum], offset, nbytes)
    PROVE  /\ frontIntact' = frontIntact
           /\ \A z \in 0 .. nbytes - 1 : (\A y \in 0 .. z : buf[y] \notin NulCells) =>
                FileCell(inodeTable', dataRegion', inum, offset + z) = buf[z]
<1>1. inum \in Inums /\ nbytes \in Nat
  BY SizesAssumption DEF TypeOK
<1>2. PICK dup, fs1, fs2 : WriteOutcome(inum, offset, nbytes, buf, dup, fs1, fs2)
  BY <1>1, ServedWrite
<1>3. ASSUME NEW z \in 0 .. nbytes - 1, \A y \in 0 .. z : buf[y] \notin NulCells
      PROVE  dup[z] = buf[z]
  BY <1>2, <1>3 DEF WriteOutcome, Duplicates
<1> QED
  BY <1>2, <1>3, WriteStores

(* Whatever the history, a write that the server answers with 0 while      *)
(* blocks last is on the image, up to the first NUL of its data and on     *)
(* both sides of a block boundary, if its first block was there or it      *)
(* reaches the end of it; and it has left the super block alone.           *)
THEOREM ServedWritesLand == Spec => BackedWriteLands
<1> DEFINE Lands ==
      (/\ Request /\ m'.mtype = "WRITE" /\ m'.rc = 0
       /\ dataBitmap' # DataBlocks
       /\ Backed(inodeTable, m')) =>
        /\ frontIntact' = frontIntact
        /\ \A z \in 0 .. m'.nbytes - 1 :
             (\A y \in 0 .. z : m'.buffer[y] \notin NulCells) =>
               FileCell(inodeTable', dataRegion', m'.inum, m'.offset + z) = m'.buffer[z]
<1>1. TypeOK /\ [Next]_vars => [Lands]_vars
  <2> SUFFICES ASSUME TypeOK, [Next]_vars, ~UNCHANGED vars,
                      Request, m'.mtype = "WRITE", m'.rc = 0, dataBitmap' # DataBlocks,
                      Backed(inodeTable, m')
               PROVE  /\ frontIntact' = frontIntact
                      /\ \A z \in 0 .. m'.nbytes - 1 :
                           (\A y \in 0 .. z : m'.buffer[y] \notin NulCells) =>
                             FileCell(inodeTable', dataRegion', m'.inum, m'.offset + z)
                               = m'.buffer[z]
    OBVIOUS
  <2>1. PICK inum \in inodeBitmap, offset \in Nat, nbytes \in 0 .. BlockSize :
        \E buf \in Buffers(nbytes) :
          /\ Writable(inum, offset, nbytes)
          /\ WriteServed(inum, offset, nbytes, buf)
          /\ Written(m', inum, offset, nbytes, buf)
    BY RequestSteps
  <2>2. PICK buf \in Buffers(nbytes) :
          /\ Writable(inum, offset, nbytes)
          /\ WriteServed(inum, offset, nbytes, buf)
          /\ Written(m', inum, offset, nbytes, buf)
    BY <2>1
  <2>3. /\ m'.inum = inum /\ m'.offset = offset /\ m'.nbytes = nbytes /\ m'.buffer = buf
    BY <2>2 DEF Written
  <2>4. \/ ~Hole(inodeTable[inum].direct[BlockIndex(offset)])
        \/ CrossedIndex(offset, nbytes) # BlockIndex(offset)
    BY <2>3 DEF Backed
  <2>6. InPlace(inodeTable[inum], offset, nbytes)
    BY <2>3 DEF Backed, InPlace
  <2>5. /\ frontIntact' = frontIntact
        /\ \A z \in 0 .. nbytes - 1 : (\A y \in 0 .. z : buf[y] \notin NulCells) =>
             FileCell(inodeTable', dataRegion', inum, offset + z) = buf[z]
    BY <2>2, <2>4, <2>6, WriteLands
  <2> QED
    BY <2>3, <2>5
<1>2. Spec => [][Lands]_vars
  <2> HIDE DEF Lands
  <2> QED
    BY <1>1, TypeCorrect, PTL DEF Spec
<1> QED
  BY <1>2 DEF BackedWriteLands
-----------------------------------------------------------------------------
(***************************************************************************)
(* Sizes, on an image whose unused inodes mkfs left with null pointers.    *)
(***************************************************************************)

(* What SizeCoversBlocks says of one inode.                                *)
Added(inode) == {k \in Ptrs \ {0} : ~Hole(inode.direct[k])}

SizeFits(inode) ==
    /\ inode.size % BlockSize = 0
    /\ inode.size >= Cardinality(Added(inode)) * BlockSize
    /\ inode.size > Cardinality(Added(inode)) * BlockSize =>
         ~Hole(inode.direct[DirectPtrs - 1])

(* A file has its first block from its create on, and an inode that is not *)
(* in use holds no pointer for the create that takes it to inherit.        *)
SizesInv ==
    /\ \A i \in Inums \ inodeBitmap, k \in Ptrs : Hole(inodeTable[i].direct[k])
    /\ \A i \in LiveFiles : ~Hole(inodeTable[i].direct[0]) /\ SizeFits(inodeTable[i])

LEMMA AddedIsFinite ==
    ASSUME NEW inode
    PROVE  IsFiniteSet(Added(inode)) /\ Cardinality(Added(inode)) \in Nat
<1>1. IsFiniteSet(Ptrs)
  BY SizesAssumption, FS_Interval DEF Ptrs
<1>2. IsFiniteSet(Added(inode))
  BY <1>1, FS_Subset DEF Added
<1> QED
  BY <1>2, FS_CardinalityType

LEMMA OneBlockMore ==
    ASSUME NEW size \in Nat, size % BlockSize = 0
    PROVE  (size + BlockSize) % BlockSize = 0
<1> DEFINE q == size \div BlockSize
<1>1. q \in Nat /\ size = q * BlockSize
  BY PlaceOfPosition, SizesAssumption
<1> HIDE DEF q
<1>2. q + 1 \in Nat /\ 0 \in Slots
  BY <1>1, ZeroAndOneAreSlots
<1>3. size + BlockSize = (q + 1) * BlockSize + 0
  BY <1>1, SizesAssumption
<1> QED
  BY <1>2, <1>3, PositionInBlock

(* A block that FillHole counts is added, unless it was asked for behind   *)
(* the array of a file that has its last block.                            *)
LEMMA FilledSizeFits ==
    ASSUME NEW fs \in Halfway, NEW k \in Nat, NEW filled, HoleFilled(fs, k, filled),
           ~Hole(fs.inode.direct[0]), SizeFits(fs.inode),
           k \notin Ptrs => ~Hole(fs.inode.direct[DirectPtrs - 1])
    PROVE  ~Hole(filled.inode.direct[0]) /\ SizeFits(filled.inode)
<1>1. CASE filled = fs
  BY <1>1
<1>2. ASSUME NEW got, Allocation(fs.bm, fs.region, {0}, got),
             k \in Ptrs => Hole(fs.inode.direct[k]),
             filled.inode.size = fs.inode.size + BlockSize,
             filled.inode.direct = [l \in Ptrs |-> IF l = k THEN got.num + DataRegionAddr
                                                   ELSE fs.inode.direct[l]]
      PROVE  ~Hole(filled.inode.direct[0]) /\ SizeFits(filled.inode)
  <2> DEFINE c == Cardinality(Added(fs.inode))
             last == DirectPtrs - 1
  <2>0. fs.inode.size \in Nat
    <3>1. fs.inode.size \in Int /\ BlockSize \in Nat
      BY SizesAssumption DEF Halfway, Inodes
    <3>2. c \in Nat /\ c * BlockSize \in Nat
      BY <3>1, AddedIsFinite
    <3>3. fs.inode.size >= c * BlockSize
      BY DEF SizeFits
    <3> HIDE DEF c
    <3> QED
      BY <3>1, <3>2, <3>3
  <2>1. /\ fs.inode.size \in Nat /\ BlockSize \in Nat /\ last \in Ptrs /\ 0 \in Ptrs
        /\ c \in Nat /\ c * BlockSize \in Nat /\ (c + 1) * BlockSize = c * BlockSize + BlockSize
    BY <2>0, SizesAssumption, AddedIsFinite DEF Ptrs
  <2>2. /\ fs.inode.size % BlockSize = 0 /\ fs.inode.size >= c * BlockSize
        /\ fs.inode.size > c * BlockSize => ~Hole(fs.inode.direct[last])
    BY DEF SizeFits
  <2>3. filled.inode.size % BlockSize = 0
    BY <1>2, <2>1, <2>2, OneBlockMore
  <2>4. ~Hole(got.num + DataRegionAddr)
    BY <1>2, AddressOfBlock DEF Allocation
  <2> HIDE DEF last
  <2>5. CASE k \in Ptrs
    <3>1. k # 0 /\ k \notin Added(fs.inode)
      BY <1>2, <2>5 DEF Added
    <3>2. Added(filled.inode) = Added(fs.inode) \cup {k}
      BY <1>2, <2>4, <2>5, <3>1 DEF Added
    <3>3. Cardinality(Added(filled.inode)) = c + 1
      BY <3>1, <3>2, AddedIsFinite, FS_AddElement
    <3>4. ~Hole(fs.inode.direct[last]) => ~Hole(filled.inode.direct[last])
      BY <1>2, <2>1, <2>4
    <3>5. ~Hole(filled.inode.direct[0])
      BY <1>2, <2>1, <3>1
    <3> HIDE DEF c
    <3> QED
      BY <1>2, <2>1, <2>2, <2>3, <3>3, <3>4, <3>5 DEF SizeFits, last
  <2>6. CASE k \notin Ptrs
    <3>1. \A l \in Ptrs : filled.inode.direct[l] = fs.inode.direct[l]
      BY <1>2, <2>6
    <3>2. Added(filled.inode) = Added(fs.inode)
      BY <3>1 DEF Added
    <3>3. ~Hole(filled.inode.direct[last]) /\ ~Hole(filled.inode.direct[0])
      BY <2>1, <2>6, <3>1 DEF last
    <3>4. Cardinality(Added(filled.inode)) = c
      BY <3>2
    <3> HIDE DEF c
    <3> QED
      BY <1>2, <2>1, <2>2, <2>3, <3>3, <3>4 DEF SizeFits, last
  <2> QED
    BY <2>5, <2>6
<1> QED
  BY <1>1, <1>2 DEF HoleFilled

LEMMA SizesFit ==
    ASSUME NoLeftovers
    PROVE  Spec => []SizesInv
<1>1. Init => SizesInv
  <2> SUFFICES ASSUME Init PROVE SizesInv
    OBVIOUS
  <2>1. PICK stale \in [Inums \ {0} -> StaleInodes] :
          inodeTable = [i \in Inums |-> IF i = 0 THEN RootInode ELSE stale[i]]
    BY DEF Init
  <2>2. \A i \in Inums, k \in Ptrs : i # 0 => Hole(inodeTable[i].direct[k])
    BY <2>1, UnusedInodesEmpty
  <2>3. LiveFiles = {}
    BY <2>1, ZeroAndOneAreSlots
    DEF Init, LiveFiles, RootInode, MFS_DIRECTORY, MFS_REGULAR_FILE
  <2> QED
    BY <2>2, <2>3 DEF SizesInv, Init
<1>2. TypeOK /\ SizesInv /\ [Next]_vars => SizesInv'
  <2> SUFFICES ASSUME TypeOK, SizesInv, [Next]_vars PROVE SizesInv'
    OBVIOUS
  <2>0. inodeTable \in [Inums -> Inodes] /\ inodeBitmap \subseteq Inums
    BY DEF TypeOK
  <2>1. CASE UNCHANGED disk
    BY <2>1 DEF disk, SizesInv, LiveFiles
  <2>2. ASSUME UNCHANGED inodeBitmap,
               NEW inum \in inodeBitmap, NEW offset \in Nat, NEW nbytes \in 0 .. BlockSize,
               NEW buf \in Buffers(nbytes), Writable(inum, offset, nbytes),
               WriteServed(inum, offset, nbytes, buf)
        PROVE  SizesInv'
    <3> DEFINE fs0 == [bm |-> dataBitmap, region |-> dataRegion, inode |-> inodeTable[inum]]
               bi  == BlockIndex(offset)
    <3>1. inum \in Inums /\ nbytes \in Nat
      BY <2>0, SizesAssumption
    <3>2. PICK dup, fs1, fs2 : WriteOutcome(inum, offset, nbytes, buf, dup, fs1, fs2)
      BY <2>2, <3>1, ServedWrite
    <3>3. /\ HoleFilled(fs0, bi, fs1)
          /\ HoleFilled(fs1, CrossedIndex(offset, nbytes), fs2)
          /\ CrossedIndex(offset, nbytes) = bi => fs2 = fs1
          /\ inodeTable' = [inodeTable EXCEPT ![inum] = fs2.inode]
      BY <3>2 DEF WriteOutcome
    <3>4. fs0 \in Halfway /\ fs0.inode = inodeTable[inum]
      BY <3>1 DEF TypeOK, Halfway, Regions
    <3>5. bi \in Nat /\ bi \in Ptrs
          /\ (CrossedIndex(offset, nbytes) # bi => CrossedIndex(offset, nbytes) = bi + 1)
      BY <2>2, WriteRanges, SizesAssumption DEF Writable, Ptrs
    <3> HIDE DEF fs0, bi
    <3>6. inum \in LiveFiles
      BY <2>2 DEF LiveFiles, Writable, TypeOK
    <3>7. ~Hole(fs1.inode.direct[0]) /\ SizeFits(fs1.inode)
      BY <3>3, <3>4, <3>5, <3>6, FilledSizeFits DEF SizesInv
    <3>8. ~Hole(fs2.inode.direct[0]) /\ SizeFits(fs2.inode)
      <4>1. CASE CrossedIndex(offset, nbytes) = bi
        BY <3>3, <3>7, <4>1
      <4>2. CASE CrossedIndex(offset, nbytes) # bi
        <5>1. CrossedIndex(offset, nbytes) = bi + 1
          BY <3>5, <4>2
        <5>2. ~Hole(fs1.inode.direct[bi])
          BY <3>3, <3>5, FilledIsNoHole
        <5>3. CrossedIndex(offset, nbytes) \notin Ptrs => bi = DirectPtrs - 1
          BY <3>5, <5>1, SizesAssumption DEF Ptrs
        <5>4. fs1 \in Halfway /\ bi + 1 \in Nat
          BY <3>3, <3>5 DEF HoleFilled
        <5> QED
          BY <3>3, <3>7, <5>1, <5>2, <5>3, <5>4, FilledSizeFits
      <4> QED
        BY <4>1, <4>2
    <3>9. inodeTable'[inum] = fs2.inode /\ \A i \in Inums : i # inum => inodeTable'[i] = inodeTable[i]
      BY <2>0, <3>1, <3>3
    <3>10. \A i \in LiveFiles' : i # inum => i \in LiveFiles
      BY <2>0, <2>2, <3>9 DEF LiveFiles
    <3>11. \A i \in LiveFiles' : i \in Inums
      BY <2>0, <2>2 DEF LiveFiles
    <3>12. \A i \in Inums \ inodeBitmap' : i # inum /\ i \in Inums \ inodeBitmap
      BY <2>2
    <3> QED
      BY <3>8, <3>9, <3>10, <3>11, <3>12 DEF SizesInv
  <2>3. ASSUME NEW pinum \in inodeBitmap, NEW type \in CreatTypes, NEW name \in Names,
               inodeBitmap # Inums, inodeTable[pinum].type = MFS_DIRECTORY,
               CreatServed(pinum, type, name)
        PROVE  SizesInv'
    <3>1. pinum \in Inums
      BY <2>0
    <3>2. PICK inum, linked, made, got0 :
            /\ CreatChanges(inum, made.inode, linked.bm, linked.region, got0)
            /\ CreatOutcome(pinum, type, name, inum, linked, made)
      BY <2>3, <3>1, ServedCreat
    <3>3. /\ inum \in Inums \ inodeBitmap /\ inodeBitmap' = inodeBitmap \cup {inum}
          /\ inodeTable' = [inodeTable EXCEPT ![inum] = made.inode]
          /\ Allocation(linked.bm, linked.region, {0}, got0)
          /\ made.inode.direct = [inodeTable[inum].direct EXCEPT
                                    ![0] = got0.num + DataRegionAddr]
      BY <3>2 DEF CreatChanges
    <3>4. made.inode.size = 0
      BY <3>2 DEF CreatOutcome, ChildAdded
    <3>5. 0 \in Ptrs /\ inodeTable[inum].direct \in [Ptrs -> Pointers]
      BY <2>0, <3>3, ZeroAndOneAreSlots DEF Inodes
    <3>6. ~Hole(made.inode.direct[0]) /\ \A k \in Ptrs \ {0} : Hole(made.inode.direct[k])
      BY <3>3, <3>5, AddressOfBlock DEF SizesInv, Allocation
    <3>7. Cardinality(Added(made.inode)) = 0
      BY <3>6, FS_EmptySet DEF Added
    <3>8. SizeFits(made.inode)
      BY <3>4, <3>7, SizesAssumption DEF SizeFits
    <3>9. inodeTable'[inum] = made.inode
          /\ \A i \in Inums : i # inum => inodeTable'[i] = inodeTable[i]
      BY <2>0, <3>3
    <3>10. \A i \in LiveFiles' : i = inum \/ i \in LiveFiles
      BY <2>0, <3>3, <3>9 DEF LiveFiles
    <3>11. \A i \in LiveFiles : i \in Inums /\ i # inum
      BY <2>0, <3>3 DEF LiveFiles
    <3> QED
      BY <3>3, <3>6, <3>8, <3>9, <3>10, <3>11 DEF SizesInv
  <2> QED
    BY <2>1, <2>2, <2>3, RequestSteps
<1> QED
  BY <1>1, <1>2, TypeCorrect, PTL DEF Spec

(* The size that Stat answers never falls short of the blocks that writes  *)
(* added to a file, and exceeds them only by those that were taken for the *)
(* place behind its last pointer, in every history of requests.            *)
THEOREM SizesCoverBlocks ==
    ASSUME NoLeftovers
    PROVE  Spec => []SizeCoversBlocks
<1>1. SizesInv => SizeCoversBlocks
  BY DEF SizesInv, SizeCoversBlocks, SizeFits, Added
<1> QED
  BY <1>1, SizesFit, PTL
=============================================================================
