--------------------------- MODULE MFSServerProofs ---------------------------
(***************************************************************************)
(* Proofs about the server for every number of inodes, blocks, pointers    *)
(* and cells, every set of requests and every content of uninitialised     *)
(* memory that the assumptions of MFSServer allow.                         *)
(***************************************************************************)
EXTENDS MFSServerProps, TLAPS, WellFoundedInduction

(* A non-empty set of natural numbers has a least element, which is what   *)
(* Min picks: the first clear bit, the first free slot.                    *)
LEMMA MinIsLeast ==
    ASSUME NEW S \in SUBSET Nat, S # {}
    PROVE  Min(S) \in S /\ \A y \in S : Min(S) <= y
<1>1. \E x \in S : \A y \in S : ~(<<y, x>> \in OpToRel(<, Nat))
  BY NatLessThanWellFounded, WFMin
<1>2. PICK x \in S : \A y \in S : ~(<<y, x>> \in OpToRel(<, Nat))
  BY <1>1
<1>3. \A y \in S : <<y, x>> \in OpToRel(<, Nat) <=> y < x
  BY Zenon DEF OpToRel
<1>4. \A y \in S : ~(y < x)
  BY <1>2, <1>3, Zenon
<1>5. \A y \in S : x <= y
  BY <1>4
<1> QED
  BY <1>5 DEF Min

Regions == [DataBlocks -> Blocks]

(* What a handler carries from one helper to the next.                     *)
Halfway == [bm : SUBSET DataBlocks, region : Regions, inode : Inodes]

LEMMA ZeroAndOneAreSlots == {0, 1} \subseteq Slots /\ 0 \in Ptrs /\ 0 \in Inums /\ 0 \in DataBlocks
BY SizesAssumption DEF Slots, Ptrs, Inums, DataBlocks

(* An allocation that succeeds marks the least clear block and hands out   *)
(* its contents; one that fails marks nothing.                             *)
Allocation(bm, region, uninit, got) ==
    /\ got.bm \in SUBSET DataBlocks
    /\ got.num \in DataBlocks
    /\ got.buf \in Blocks
    /\ bm = DataBlocks => got.bm = bm /\ got.num \in uninit
    /\ bm # DataBlocks => /\ got.bm = bm \cup {got.num}
                          /\ got.num \notin bm
                          /\ \A y \in DataBlocks \ bm : got.num <= y
                          /\ got.buf = region[got.num]

(* A data bitmap before and after a step that takes at most one block.     *)
Grows(bm, bm2) ==
    \/ bm2 = bm
    \/ \E n \in DataBlocks \ bm :
          bm2 = bm \cup {n} /\ \A y \in DataBlocks \ bm : n <= y

(* getFree...DataBlock...: its outcomes are allocations as just described. *)
LEMMA GotBlock ==
    ASSUME NEW bm \in SUBSET DataBlocks, NEW region \in Regions,
           NEW uninit \in SUBSET DataBlocks,
           NEW got \in GetFreeDataBlock(bm, region, uninit)
    PROVE  Allocation(bm, region, uninit, got)
<1>1. CASE bm = DataBlocks
  <2>1. got \in [bm : {bm}, num : uninit, buf : StackBlocks]
    BY <1>1 DEF GetFreeDataBlock
  <2> QED
    BY <1>1, <2>1, LeftoversAssumption DEF Allocation
<1>2. CASE bm # DataBlocks
  <2> DEFINE free == DataBlocks \ bm
  <2>1. free \in SUBSET Nat /\ free # {}
    <3>1. DataBlocks \subseteq Nat
      BY SizesAssumption DEF DataBlocks
    <3>2. \E b \in DataBlocks : b \notin bm
      BY <1>2
    <3> QED
      BY <3>1, <3>2
  <2>2. Min(free) \in free /\ \A y \in free : Min(free) <= y
    BY <2>1, MinIsLeast
  <2>3. got = [bm |-> bm \cup {Min(free)}, num |-> Min(free), buf |-> region[Min(free)]]
    BY <1>2 DEF GetFreeDataBlock
  <2> HIDE DEF free
  <2>4. free = DataBlocks \ bm
    BY DEF free
  <2> QED
    BY <1>2, <2>2, <2>3, <2>4 DEF Regions, Allocation
<1> QED
  BY <1>1, <1>2

(* An allocation by a caller whose number was never set: when it fails,    *)
(* that may be the number of no data block.                                *)
LEMMA GotAnyBlock ==
    ASSUME NEW bm \in SUBSET DataBlocks, NEW region \in Regions,
           NEW got \in GetFreeDataBlock(bm, region, StackInts)
    PROVE  \/ Allocation(bm, region, StackInts, got)
           \/ bm = DataBlocks /\ got.bm = bm /\ got.num \notin DataBlocks
<1>1. CASE got.num \in DataBlocks
  <2>1. got \in GetFreeDataBlock(bm, region, StackInts \cap DataBlocks)
    BY <1>1 DEF GetFreeDataBlock
  <2>2. Allocation(bm, region, StackInts \cap DataBlocks, got)
    BY <2>1, GotBlock
  <2> QED
    BY <2>2 DEF Allocation
<1>2. CASE got.num \notin DataBlocks
  <2>1. CASE bm = DataBlocks
    BY <1>2, <2>1 DEF GetFreeDataBlock
  <2>2. CASE bm # DataBlocks
    <3>1. got \in GetFreeDataBlock(bm, region, {})
      BY <2>2 DEF GetFreeDataBlock
    <3>2. Allocation(bm, region, {}, got)
      BY <3>1, GotBlock
    <3> QED
      BY <1>2, <3>2 DEF Allocation
  <2> QED
    BY <2>1, <2>2
<1> QED
  BY <1>1, <1>2

(* The address of a data block is that of a data block; a pointer in use   *)
(* is one, unless mkfs left it.                                            *)
LEMMA RelOfPointer ==
    ASSUME NEW addr \in DataAddrs
    PROVE  /\ ~Hole(addr) /\ Rel(addr) \in DataBlocks
           /\ addr = Rel(addr) + DataRegionAddr
BY SizesAssumption DEF Hole, DataAddrs, Rel, DataBlocks

LEMMA NoOtherPointer ==
    ASSUME NoLeftovers, NEW addr \in Pointers, ~Hole(addr)
    PROVE  addr \in DataAddrs
BY DEF NoLeftovers, Pointers, Hole

LEMMA AddressOfBlock ==
    ASSUME NEW b \in DataBlocks
    PROVE  /\ b + DataRegionAddr \in DataAddrs
           /\ b + DataRegionAddr \in Pointers
           /\ ~Hole(b + DataRegionAddr)
           /\ Rel(b + DataRegionAddr) = b
BY SizesAssumption DEF Pointers, Hole, DataAddrs, Rel, DataBlocks

LEMMA ScannedBlocks ==
    ASSUME NoLeftovers, NEW dinode \in Inodes, NEW k \in Scanned(dinode)
    PROVE  /\ k \in Ptrs /\ ~Hole(dinode.direct[k])
           /\ dinode.direct[k] \in DataAddrs /\ Rel(dinode.direct[k]) \in DataBlocks
<1>1. k \in Ptrs /\ ~Hole(dinode.direct[k])
  BY DEF Scanned, Ptrs
<1>2. dinode.direct[k] \in Pointers
  BY <1>1 DEF Inodes
<1>3. dinode.direct[k] \in DataAddrs
  BY <1>1, <1>2, NoOtherPointer
<1> QED
  BY <1>1, <1>3, RelOfPointer

(* A handler reads the data blocks as they are, and nothing else where     *)
(* mkfs left no pointer.                                                   *)
LEMMA SeenBlock ==
    ASSUME NEW region, NEW seen \in Views(region), NEW b \in DataBlocks
    PROVE  seen[b] = region[b]
BY DEF Views, AllBlocks

LEMMA NothingElseSeen ==
    ASSUME NoLeftovers, NEW region \in Regions, NEW seen \in Views(region)
    PROVE  seen = region
<1>1. AllBlocks = DataBlocks
  BY DEF AllBlocks, NoLeftovers
<1> QED
  BY <1>1 DEF Views, Regions

(* What AddDirEntry did to the data region: it filled the first free slot  *)
(* of a block of the parent, or, if there is none, the first slot of a     *)
(* block it took; or it wrote elsewhere, through a leftover pointer or a   *)
(* number that was never set.                                              *)
EntryLinked(bm, region, dinode, entry, linked) ==
    \/ \E k \in Scanned(dinode), j \in Slots :
         /\ dinode.direct[k] \in DataAddrs
         /\ EntryAt(region, dinode, k, j).inum = -1
         /\ \A i \in Slots : i < j => EntryAt(region, dinode, k, i).inum # -1
         /\ linked.bm = bm
         /\ linked.region = [region EXCEPT ![Rel(dinode.direct[k])][j] = entry]
    \/ /\ \A k \in BlocksWithSlot(region, dinode) : dinode.direct[k] \notin DataAddrs
       /\ \E got :
            /\ Allocation(bm, region, StackInts, got)
            /\ linked.bm = got.bm
            /\ linked.region = [region EXCEPT ![got.num] = [got.buf EXCEPT ![0] = entry]]
    \/ /\ linked.bm = bm /\ linked.region = region
       /\ \/ bm = DataBlocks
          \/ \E k \in Scanned(dinode) : dinode.direct[k] \notin DataAddrs

LEMMA AddedDirEntry ==
    ASSUME NEW bm \in SUBSET DataBlocks, NEW region \in Regions,
           NEW seen \in Views(region),
           NEW dinode \in Inodes, NEW entry \in Cells,
           NEW linked \in AddDirEntry(bm, region, seen, dinode, entry)
    PROVE  /\ linked.bm \in SUBSET DataBlocks
           /\ linked.region \in Regions
           /\ Grows(bm, linked.bm)
           /\ EntryLinked(bm, region, dinode, entry, linked)
<1> DEFINE open == BlocksWithSlot(seen, dinode)
<1>1. CASE open # {}
  <2> DEFINE k == Min(open)
             j == FirstSlotIn(seen, dinode, k)
             slots == {i \in Slots : EntryAt(seen, dinode, k, i).inum = -1}
             addr == dinode.direct[k]
             b == Rel(addr)
  <2>1. open \in SUBSET Nat
    BY SizesAssumption DEF BlocksWithSlot, Scanned, Ptrs
  <2>2. k \in open
    BY <1>1, <2>1, MinIsLeast
  <2>3. k \in Scanned(dinode) /\ slots # {}
    BY <2>2 DEF BlocksWithSlot
  <2>4. slots \in SUBSET Nat
    BY SizesAssumption DEF Slots
  <2>5. j \in slots /\ \A i \in slots : j <= i
    BY <2>3, <2>4, MinIsLeast DEF FirstSlotIn
  <2>6. linked = [bm |-> bm, write |-> <<addr, {j}>>,
                  region |-> IF addr \in DataAddrs THEN [region EXCEPT ![b][j] = entry]
                             ELSE region]
    BY <1>1 DEF AddDirEntry
  <2>7. j \in Slots
    BY <2>5
  <2>8. CASE addr \in DataAddrs
    <3>1. b \in DataBlocks /\ seen[b] = region[b]
      BY <2>8, RelOfPointer, SeenBlock
    <3>2. \A i \in Slots : EntryAt(seen, dinode, k, i) = EntryAt(region, dinode, k, i)
      BY <3>1 DEF EntryAt
    <3>3. /\ EntryAt(region, dinode, k, j).inum = -1
          /\ \A i \in Slots : i < j => EntryAt(region, dinode, k, i).inum # -1
      <4> HIDE DEF k, j
      <4>1. \A i \in slots : i \in Nat
        BY <2>4
      <4> QED
        BY <2>5, <3>2, <4>1
    <3> HIDE DEF k, j, open, slots
    <3>4. EntryLinked(bm, region, dinode, entry, linked)
      BY <2>3, <2>6, <2>7, <2>8, <3>3 DEF EntryLinked
    <3> HIDE DEF b, addr
    <3>5. [region EXCEPT ![b][j] = entry] \in Regions
      BY <2>7, <3>1 DEF Regions, Blocks
    <3> QED
      BY <2>6, <2>8, <3>4, <3>5 DEF Grows
  <2>9. CASE addr \notin DataAddrs
    <3> HIDE DEF k, j, open, slots
    <3> QED
      BY <2>3, <2>6, <2>9 DEF Grows, EntryLinked
  <2> QED
    BY <2>8, <2>9
<1>2. CASE open = {}
  <2>1. PICK got \in GetFreeDataBlock(bm, region, StackInts) :
          linked = [bm |-> got.bm, write |-> <<got.num + DataRegionAddr, Slots>>,
                    region |-> IF got.num \in DataBlocks
                      THEN [region EXCEPT ![got.num] = [got.buf EXCEPT ![0] = entry]]
                      ELSE region]
    BY <1>2 DEF AddDirEntry
  <2>2. CASE Allocation(bm, region, StackInts, got)
    <3>1. [got.buf EXCEPT ![0] = entry] \in Blocks /\ got.num \in DataBlocks
      BY <2>2, ZeroAndOneAreSlots DEF Blocks, Allocation
    <3>2. [region EXCEPT ![got.num] = [got.buf EXCEPT ![0] = entry]] \in Regions
      BY <3>1 DEF Regions
    <3>3. ASSUME NEW k \in BlocksWithSlot(region, dinode), dinode.direct[k] \in DataAddrs
          PROVE  FALSE
      <4>1. seen[Rel(dinode.direct[k])] = region[Rel(dinode.direct[k])]
        BY <3>3, RelOfPointer, SeenBlock
      <4> QED
        BY <1>2, <3>3, <4>1 DEF BlocksWithSlot, EntryAt
    <3>4. EntryLinked(bm, region, dinode, entry, linked)
      BY <2>1, <2>2, <3>1, <3>3 DEF EntryLinked
    <3> QED
      BY <2>1, <2>2, <3>1, <3>2, <3>4 DEF Allocation, Grows
  <2>3. CASE bm = DataBlocks /\ got.bm = bm /\ got.num \notin DataBlocks
    BY <2>1, <2>3 DEF Grows, EntryLinked
  <2> QED
    BY <2>2, <2>3, GotAnyBlock
<1> QED
  BY <1>1, <1>2

(* What AddChild does: it gives the child a block, a new one if there is   *)
(* one, and an inode that points to it.                                    *)
ChildBlock(buf, inum, pinum, type) ==
    IF type = MFS_DIRECTORY
      THEN [buf EXCEPT ![0] = Entry(".", inum), ![1] = Entry("..", pinum)]
      ELSE buf

ChildAdded(bm, region, inum, pinum, type, made) ==
    /\ made \in Halfway
    /\ made.inode.type = IF type = MFS_DIRECTORY THEN MFS_DIRECTORY ELSE MFS_REGULAR_FILE
    /\ made.inode.size = 0
    /\ \E got : /\ Allocation(bm, region, {0}, got)
                /\ made.bm = got.bm
                /\ made.region = [region EXCEPT
                                    ![got.num] = ChildBlock(got.buf, inum, pinum, type)]
                /\ made.inode.direct = [inodeTable[inum].direct EXCEPT
                                          ![0] = got.num + DataRegionAddr]

LEMMA AddedChild ==
    ASSUME TypeOK,
           NEW bm \in SUBSET DataBlocks, NEW region \in Regions,
           NEW inum \in Inums, NEW pinum \in Int, NEW type,
           NEW made \in AddChild(bm, region, inum, pinum, type)
    PROVE  ChildAdded(bm, region, inum, pinum, type, made)
<1> DEFINE isDir == type = MFS_DIRECTORY
           block(got) == ChildBlock(got.buf, inum, pinum, type)
           inode(got) == [type |-> IF isDir THEN MFS_DIRECTORY ELSE MFS_REGULAR_FILE,
                          size |-> 0,
                          direct |-> [inodeTable[inum].direct EXCEPT
                                        ![0] = got.num + DataRegionAddr]]
<1>1. PICK got \in GetFreeDataBlock(bm, region, {0}) :
        made = [bm |-> got.bm, region |-> [region EXCEPT ![got.num] = block(got)],
                inode |-> inode(got)]
  BY DEF AddChild, ChildBlock
<1>2. {0} \in SUBSET DataBlocks
  BY ZeroAndOneAreSlots
<1>3. Allocation(bm, region, {0}, got)
  BY <1>2, GotBlock
<1>4. Entry(".", inum) \in Cells /\ Entry("..", pinum) \in Cells
  BY SizesAssumption DEF Entry, Cells, EntryNames, Inums
<1>5. block(got) \in Blocks
  BY <1>3, <1>4, ZeroAndOneAreSlots DEF Blocks, Allocation, ChildBlock
<1>6. [region EXCEPT ![got.num] = block(got)] \in Regions
  BY <1>3, <1>5 DEF Regions, Allocation
<1>7. inodeTable[inum].direct \in [Ptrs -> Pointers]
  BY DEF TypeOK, Inodes
<1>8. [inodeTable[inum].direct EXCEPT ![0] = got.num + DataRegionAddr] \in [Ptrs -> Pointers]
  BY <1>3, <1>7, AddressOfBlock DEF Allocation
<1>9. inode(got) \in Inodes
  BY <1>8 DEF Inodes, MFS_DIRECTORY, MFS_REGULAR_FILE
<1>10. made \in Halfway
  <2> HIDE DEF block
  <2> QED
    BY <1>1, <1>3, <1>6, <1>9 DEF Halfway, Allocation
<1> QED
  BY <1>1, <1>3, <1>10 DEF ChildAdded

LEMMA AllocationGrows ==
    ASSUME NEW bm \in SUBSET DataBlocks, NEW region, NEW uninit, NEW got,
           Allocation(bm, region, uninit, got)
    PROVE  Grows(bm, got.bm) /\ (bm # DataBlocks => got.bm # bm)
BY DEF Allocation, Grows

(* What FillHole does: it leaves the inode alone, or gives it one more     *)
(* pointer in place of a hole, or (behind the array) only takes a block.   *)
HoleFilled(fs, k, filled) ==
    /\ filled \in Halfway
    /\ filled.inode.type = fs.inode.type
    /\ \/ filled = fs /\ (k \in Ptrs => ~Hole(fs.inode.direct[k]))
       \/ \E got :
            /\ Allocation(fs.bm, fs.region, {0}, got)
            /\ k \in Ptrs => Hole(fs.inode.direct[k])
            /\ filled.bm = got.bm
            /\ filled.region = [fs.region EXCEPT ![got.num] = got.buf]
            /\ filled.inode.size = fs.inode.size + BlockSize
            /\ filled.inode.direct =
                 [l \in Ptrs |-> IF l = k THEN got.num + DataRegionAddr
                                 ELSE fs.inode.direct[l]]

LEMMA FilledHole ==
    ASSUME NEW fs \in Halfway, NEW k \in Nat, NEW beyond \in BOOLEAN,
           NEW filled \in FillHole(fs, k, beyond)
    PROVE  HoleFilled(fs, k, filled)
<1>1. CASE IF k \in Ptrs THEN ~Hole(fs.inode.direct[k]) ELSE ~beyond
  BY <1>1 DEF FillHole, HoleFilled
<1>2. CASE ~IF k \in Ptrs THEN ~Hole(fs.inode.direct[k]) ELSE ~beyond
  <2> DEFINE direct(got) == [l \in Ptrs |-> IF l = k THEN got.num + DataRegionAddr
                                            ELSE fs.inode.direct[l]]
  <2>1. PICK got \in GetFreeDataBlock(fs.bm, fs.region, {0}) :
          filled = [bm |-> got.bm,
                    region |-> [fs.region EXCEPT ![got.num] = got.buf],
                    inode |-> [fs.inode EXCEPT !.size = @ + BlockSize,
                                               !.direct = direct(got)]]
    BY <1>2 DEF FillHole
  <2>2. /\ fs.bm \in SUBSET DataBlocks /\ fs.region \in Regions /\ fs.inode \in Inodes
        /\ {0} \in SUBSET DataBlocks
    BY ZeroAndOneAreSlots DEF Halfway
  <2>3. Allocation(fs.bm, fs.region, {0}, got)
    BY <2>1, <2>2, GotBlock
  <2>4. [fs.region EXCEPT ![got.num] = got.buf] \in Regions
    BY <2>2, <2>3 DEF Allocation, Regions
  <2>5. got.num + DataRegionAddr \in Pointers
    BY <2>3, AddressOfBlock DEF Allocation
  <2>6. direct(got) \in [Ptrs -> Pointers]
    BY <2>2, <2>5 DEF Inodes
  <2> HIDE DEF direct
  <2>7. /\ filled.inode \in Inodes
        /\ filled.inode.type = fs.inode.type /\ filled.inode.direct = direct(got)
        /\ filled.inode.size = fs.inode.size + BlockSize
    <3>1. filled.inode = [fs.inode EXCEPT !.size = fs.inode.size + BlockSize,
                                          !.direct = direct(got)]
      BY <2>1
    <3>2. fs.inode.size + BlockSize \in Int
      BY <2>2, SizesAssumption DEF Inodes
    <3> QED
      BY <2>2, <2>6, <3>1, <3>2 DEF Inodes
  <2>8. filled \in Halfway
    BY <2>1, <2>3, <2>4, <2>7 DEF Halfway, Allocation
  <2>9. k \in Ptrs => Hole(fs.inode.direct[k])
    BY <1>2
  <2> QED
    BY <2>1, <2>3, <2>7, <2>8, <2>9 DEF direct, HoleFilled
<1> QED
  BY <1>1, <1>2

(* A write into a block leaves the data region a data region.              *)
LEMMA StoredCells ==
    ASSUME NEW region \in Regions, NEW addr, NEW rem \in Nat, NEW n \in Int,
           NEW first \in Nat, NEW len \in Nat, first + n <= len,
           NEW buf \in [0 .. len - 1 -> Cells]
    PROVE  StoreCells(region, addr, rem, n, buf, first) \in Regions
<1> DEFINE block == [j \in Slots |-> IF j >= rem /\ j < rem + n
                                      THEN buf[first + j - rem]
                                      ELSE region[Rel(addr)][j]]
<1>1. CASE addr \in DataAddrs
  <2>1. Rel(addr) \in DataBlocks
    BY <1>1, SizesAssumption DEF DataAddrs, Rel, DataBlocks
  <2>2. region[Rel(addr)] \in Blocks
    BY <2>1 DEF Regions
  <2>3. ASSUME NEW j \in Slots PROVE block[j] \in Cells
    <3>1. CASE j >= rem /\ j < rem + n
      <4>1. first + j - rem \in 0 .. len - 1
        BY <3>1, SizesAssumption DEF Slots
      <4> QED
        BY <3>1, <4>1
    <3>2. CASE ~(j >= rem /\ j < rem + n)
      BY <2>2, <3>2 DEF Blocks
    <3> QED
      BY <3>1, <3>2
  <2>4. block \in Blocks
    BY <2>3 DEF Blocks
  <2>5. StoreCells(region, addr, rem, n, buf, first) = [region EXCEPT ![Rel(addr)] = block]
    BY <1>1 DEF StoreCells
  <2> HIDE DEF block
  <2> QED
    BY <2>1, <2>4, <2>5 DEF Regions
<1>2. CASE addr \notin DataAddrs
  BY <1>2 DEF StoreCells
<1> QED
  BY <1>1, <1>2

(* The block an offset falls in, and the rest.                             *)
LEMMA DivideByBlock ==
    ASSUME NEW a \in Nat
    PROVE  /\ a \div BlockSize \in Nat
           /\ (a \div BlockSize) * BlockSize <= a
           /\ a < ((a \div BlockSize) + 1) * BlockSize
BY SizesAssumption

(* The arithmetic of run_write: where a write starts in its first block,   *)
(* and, if it reaches the end of that block, how much goes before the end. *)
LEMMA WriteArithmetic ==
    ASSUME NEW offset \in Nat, NEW nbytes \in Nat
    PROVE  /\ BlockIndex(offset) \in Nat
           /\ CrossedIndex(offset, nbytes) \in Nat
           /\ BlockIndex(offset) <= CrossedIndex(offset, nbytes)
           /\ offset - BlockIndex(offset) * BlockSize \in Nat
           /\ CrossedIndex(offset, nbytes) # BlockIndex(offset) =>
                 (BlockIndex(offset) + 1) * BlockSize - offset \in 0 .. nbytes
<1> DEFINE bi == BlockIndex(offset)
           crossed == CrossedIndex(offset, nbytes)
<1>1. bi \in Nat /\ bi * BlockSize <= offset /\ offset < (bi + 1) * BlockSize
  BY DivideByBlock DEF BlockIndex
<1>2. /\ crossed \in Nat /\ crossed * BlockSize <= offset + nbytes
      /\ offset + nbytes < (crossed + 1) * BlockSize
  BY DivideByBlock DEF CrossedIndex
<1> HIDE DEF bi, crossed
<1>3. bi <= crossed
  <2>1. bi * BlockSize < (crossed + 1) * BlockSize
    BY <1>1, <1>2, SizesAssumption
  <2> QED
    BY <1>1, <1>2, <2>1, SizesAssumption
<1>4. crossed # bi => (bi + 1) * BlockSize <= crossed * BlockSize
  BY <1>1, <1>2, <1>3, SizesAssumption
<1>5. bi * BlockSize \in Nat /\ (bi + 1) * BlockSize \in Nat /\ crossed * BlockSize \in Nat
  BY <1>1, <1>2, SizesAssumption
<1> QED
  BY <1>1, <1>2, <1>3, <1>4, <1>5 DEF bi, crossed

(* A served write fills at most the two holes its range begins and ends    *)
(* in, one after the other, and stores into the data region.               *)
WriteChanges(inum, k1, k2, fs1, fs2) ==
    /\ k1 \in Nat /\ k2 \in Nat
    /\ HoleFilled([bm |-> dataBitmap, region |-> dataRegion,
                   inode |-> inodeTable[inum]], k1, fs1)
    /\ HoleFilled(fs1, k2, fs2)
    /\ dataBitmap' = fs2.bm
    /\ inodeTable' = [inodeTable EXCEPT ![inum] = fs2.inode]

(* Where it stores them: a write that reaches the end of its block goes by *)
(* the pointers it leaves, one inside a block by the one it found.         *)
CellsStored(inum, offset, nbytes, dup, fs) ==
    LET bi      == BlockIndex(offset)
        crossed == CrossedIndex(offset, nbytes)
        rem     == offset - bi * BlockSize
        before  == (bi + 1) * BlockSize - offset
        addr    == inodeTable[inum].direct[bi]
    IN  \/ /\ crossed # bi
           /\ LET half == StoreCells(fs.region, fs.inode.direct[bi], rem, before, dup, 0)
              IN  dataRegion' = IF crossed \in Ptrs
                                  THEN StoreCells(half, fs.inode.direct[crossed],
                                                  0, nbytes - before, dup, before)
                                  ELSE half
           /\ WritesLand({<<fs.inode.direct[bi], rem .. rem + before - 1>>} \cup
                         {<<fs.inode.direct[k], 0 .. nbytes - before - 1>> :
                            k \in {crossed} \cap Ptrs})
        \/ /\ crossed = bi
           /\ dataRegion' = StoreCells(fs.region, addr, rem, nbytes, dup, 0)
           /\ WritesLand({<<addr, rem .. rem + nbytes - 1>>})

WriteOutcome(inum, offset, nbytes, buf, dup, fs1, fs2) ==
    /\ HoleFilled([bm |-> dataBitmap, region |-> dataRegion,
                   inode |-> inodeTable[inum]], BlockIndex(offset), fs1)
    /\ HoleFilled(fs1, CrossedIndex(offset, nbytes), fs2)
    /\ CrossedIndex(offset, nbytes) = BlockIndex(offset) => fs2 = fs1
    /\ dataBitmap' = fs2.bm
    /\ inodeTable' = [inodeTable EXCEPT ![inum] = fs2.inode]
    /\ dup \in Duplicates(buf, nbytes)
    /\ CellsStored(inum, offset, nbytes, dup, fs2)

LEMMA FilledIsNoHole ==
    ASSUME NEW fs, NEW k, NEW filled, HoleFilled(fs, k, filled), k \in Ptrs
    PROVE  ~Hole(filled.inode.direct[k])
<1>1. CASE filled = fs /\ ~Hole(fs.inode.direct[k])
  BY <1>1
<1>2. ASSUME NEW got, Allocation(fs.bm, fs.region, {0}, got),
             filled.inode.direct = [l \in Ptrs |-> IF l = k THEN got.num + DataRegionAddr
                                                   ELSE fs.inode.direct[l]]
      PROVE  ~Hole(filled.inode.direct[k])
  BY <1>2, AddressOfBlock DEF Allocation
<1> QED
  BY <1>1, <1>2 DEF HoleFilled

(* Wherever a handler's writes go.                                         *)
LEMMA WritesLandSomewhere ==
    ASSUME TypeOK, NEW writes, WritesLand(writes)
    PROVE  frontIntact' \in BOOLEAN /\ mode' \in {mode, "lost"}
BY DEF TypeOK, WritesLand

LEMMA FilledInode ==
    ASSUME NEW fs, NEW k, NEW filled, HoleFilled(fs, k, filled), fs.inode.size \in Nat
    PROVE  filled.inode.size \in Nat /\ filled.inode.type = fs.inode.type
<1>1. filled = fs \/ filled.inode.size = fs.inode.size + BlockSize
  BY DEF HoleFilled
<1>2. filled.inode.size \in Nat
  BY <1>1, SizesAssumption
<1> QED
  BY <1>2 DEF HoleFilled

LEMMA ServedWrite ==
    ASSUME TypeOK, NEW inum \in Inums, NEW offset \in Nat, NEW nbytes \in Nat,
           NEW buf \in Buffers(nbytes), WriteServed(inum, offset, nbytes, buf)
    PROVE  /\ \E dup, fs1, fs2 : WriteOutcome(inum, offset, nbytes, buf, dup, fs1, fs2)
           /\ \E k1, k2, fs1, fs2 : WriteChanges(inum, k1, k2, fs1, fs2)
           /\ dataRegion' \in Regions
           /\ frontIntact' \in BOOLEAN /\ mode' \in {mode, "lost"}
<1> DEFINE bi      == BlockIndex(offset)
           crossed == CrossedIndex(offset, nbytes)
           rem     == offset - bi * BlockSize
           before  == (bi + 1) * BlockSize - offset
           addr    == inodeTable[inum].direct[bi]
           fs0     == [bm |-> dataBitmap, region |-> dataRegion,
                       inode |-> inodeTable[inum]]
           Stored(fs2, dup) == CellsStored(inum, offset, nbytes, dup, fs2)
<1>10. PICK beyond \in BOOLEAN, dup \in Duplicates(buf, nbytes) :
        \E fs1 \in FillHole(fs0, bi, beyond) :
        \E fs2 \in IF crossed # bi THEN FillHole(fs1, crossed, beyond) ELSE {fs1} :
          /\ dataBitmap' = fs2.bm
          /\ inodeTable' = [inodeTable EXCEPT ![inum] = fs2.inode]
          /\ Stored(fs2, dup)
  BY Zenon DEF WriteServed, CellsStored
<1>11. PICK fs1 \in FillHole(fs0, bi, beyond) :
        \E fs2 \in IF crossed # bi THEN FillHole(fs1, crossed, beyond) ELSE {fs1} :
          /\ dataBitmap' = fs2.bm
          /\ inodeTable' = [inodeTable EXCEPT ![inum] = fs2.inode]
          /\ Stored(fs2, dup)
  BY <1>10
<1>1. PICK fs2 \in IF crossed # bi THEN FillHole(fs1, crossed, beyond) ELSE {fs1} :
          /\ dataBitmap' = fs2.bm
          /\ inodeTable' = [inodeTable EXCEPT ![inum] = fs2.inode]
          /\ Stored(fs2, dup)
  BY <1>11
<1>2. bi \in Nat /\ crossed \in Nat /\ rem \in Nat
      /\ (crossed # bi => before \in 0 .. nbytes)
  BY WriteArithmetic
<1>3. fs0 \in Halfway
  BY DEF TypeOK, Halfway, Regions
<1> HIDE DEF bi, crossed, rem, before, addr, fs0, Stored
<1>4. HoleFilled(fs0, bi, fs1)
  BY <1>1, <1>2, <1>3, FilledHole
<1>5. HoleFilled(fs1, crossed, fs2)
  <2>1. fs1 \in Halfway
    BY <1>4 DEF HoleFilled
  <2>2. CASE crossed # bi
    BY <1>1, <1>2, <2>1, <2>2, FilledHole
  <2>3. CASE crossed = bi
    <3>1. fs2 = fs1
      BY <1>1, <2>3
    <3>2. crossed \in Ptrs => ~Hole(fs1.inode.direct[crossed])
      BY <1>4, <2>3, FilledIsNoHole
    <3> QED
      BY <2>1, <3>1, <3>2 DEF HoleFilled
  <2> QED
    BY <2>2, <2>3
<1>6. dup \in [0 .. nbytes - 1 -> Cells]
  BY <1>1, RequestsAssumption, LeftoversAssumption DEF Duplicates
<1>7. fs2.region \in Regions
  BY <1>5 DEF HoleFilled, Halfway
<1>8. dataRegion' \in Regions
  <2>1. CASE crossed # bi
    <3> DEFINE half == StoreCells(fs2.region, fs2.inode.direct[bi], rem, before, dup, 0)
    <3>1. before \in Nat /\ before <= nbytes /\ nbytes - before \in Int
      BY <1>2, <2>1
    <3>2. half \in Regions
      <4>1. 0 + before <= nbytes /\ rem \in Nat /\ nbytes \in Nat /\ before \in Int
        BY <1>2, <3>1
      <4> QED
        BY <1>6, <1>7, <4>1, StoredCells
    <3> HIDE DEF half
    <3>3. StoreCells(half, fs2.inode.direct[crossed], 0, nbytes - before, dup, before)
            \in Regions
      BY <1>6, <3>1, <3>2, StoredCells
    <3> QED
      BY <1>1, <2>1, <3>2, <3>3
      DEF half, Stored, CellsStored, bi, crossed, rem, before
  <2>2. CASE crossed = bi
    <3>1. StoreCells(fs2.region, addr, rem, nbytes, dup, 0) \in Regions
      BY <1>2, <1>6, <1>7, StoredCells
    <3> QED
      BY <1>1, <2>2, <3>1 DEF Stored, CellsStored, bi, crossed, rem, addr
  <2> QED
    BY <2>1, <2>2
<1>9. frontIntact' \in BOOLEAN /\ mode' \in {mode, "lost"}
  <2>1. \E writes : WritesLand(writes)
    BY <1>1 DEF Stored, CellsStored
  <2> QED
    BY <2>1, WritesLandSomewhere
<1>12. crossed = bi => fs2 = fs1
  BY <1>1
<1>13. WriteOutcome(inum, offset, nbytes, buf, dup, fs1, fs2)
  BY <1>1, <1>4, <1>5, <1>12 DEF fs0, bi, crossed, Stored, WriteOutcome
<1> QED
  BY <1>1, <1>2, <1>4, <1>5, <1>8, <1>9, <1>13 DEF fs0, WriteChanges

(* A served create marks the least free inode, may take a block for its    *)
(* entry, and takes another for the child if one is left.                  *)
CreatChanges(inum, child, bm, region, got) ==
    /\ inum \in Inums \ inodeBitmap /\ child \in Inodes
    /\ \A y \in Inums \ inodeBitmap : inum <= y
    /\ inodeBitmap' = inodeBitmap \cup {inum}
    /\ bm \in SUBSET DataBlocks /\ Grows(dataBitmap, bm)
    /\ Allocation(bm, region, {0}, got)
    /\ dataBitmap' = got.bm
    /\ child.direct = [inodeTable[inum].direct EXCEPT ![0] = got.num + DataRegionAddr]
    /\ inodeTable' = [inodeTable EXCEPT ![inum] = child]
    /\ dataRegion' \in Regions

CreatOutcome(pinum, type, name, inum, linked, made) ==
    /\ EntryLinked(dataBitmap, dataRegion, inodeTable[pinum], Entry(name, inum), linked)
    /\ ChildAdded(linked.bm, linked.region, inum, pinum, type, made)
    /\ dataBitmap' = made.bm
    /\ dataRegion' = made.region

LEMMA ServedCreat ==
    ASSUME TypeOK, NEW pinum \in Inums, NEW type, NEW name \in Names,
           inodeTable[pinum].type = MFS_DIRECTORY,
           inodeBitmap # Inums, CreatServed(pinum, type, name)
    PROVE  \E inum, linked, made, got :
             /\ CreatChanges(inum, made.inode, linked.bm, linked.region, got)
             /\ CreatOutcome(pinum, type, name, inum, linked, made)
<1> DEFINE free == Inums \ inodeBitmap
           inum == Min(free)
<1>1. inum \in free /\ \A y \in free : inum <= y
  <2>1. Inums \subseteq Nat
    BY SizesAssumption DEF Inums
  <2>2. \E i \in Inums : i \notin inodeBitmap
    BY DEF TypeOK
  <2>3. free \in SUBSET Nat /\ free # {}
    BY <2>1, <2>2
  <2> QED
    BY <2>3, MinIsLeast
<1>12. PICK seen \in Views(dataRegion) :
        \E linked \in AddDirEntry(dataBitmap, dataRegion, seen, inodeTable[pinum],
                                  Entry(name, inum)) :
        \E made \in AddChild(linked.bm, linked.region, inum, pinum, type) :
          /\ dataBitmap' = made.bm
          /\ dataRegion' = made.region
          /\ inodeTable' = [inodeTable EXCEPT ![inum] = made.inode]
  BY DEF CreatServed, Populate
<1>2. PICK linked \in AddDirEntry(dataBitmap, dataRegion, seen, inodeTable[pinum],
                                  Entry(name, inum)) :
        \E made \in AddChild(linked.bm, linked.region, inum, pinum, type) :
          /\ dataBitmap' = made.bm
          /\ dataRegion' = made.region
          /\ inodeTable' = [inodeTable EXCEPT ![inum] = made.inode]
  BY <1>12
<1>3. PICK made \in AddChild(linked.bm, linked.region, inum, pinum, type) :
          /\ dataBitmap' = made.bm
          /\ dataRegion' = made.region
          /\ inodeTable' = [inodeTable EXCEPT ![inum] = made.inode]
  BY <1>2
<1>4. inodeBitmap' = inodeBitmap \cup {inum}
  BY DEF CreatServed
<1> HIDE DEF inum
<1>5. /\ dataBitmap \in SUBSET DataBlocks /\ dataRegion \in Regions
      /\ inodeTable[pinum] \in Inodes /\ Entry(name, inum) \in Cells
      /\ inum \in Inums /\ pinum \in Int
  <2>1. Inums \subseteq Int
    BY SizesAssumption DEF Inums
  <2>2. Entry(name, inum) \in Cells
    BY <1>1, <2>1 DEF Entry, Cells, EntryNames
  <2> QED
    BY <1>1, <2>1, <2>2 DEF TypeOK, Regions
<1>6. /\ linked.bm \in SUBSET DataBlocks /\ linked.region \in Regions
      /\ Grows(dataBitmap, linked.bm)
      /\ EntryLinked(dataBitmap, dataRegion, inodeTable[pinum], Entry(name, inum), linked)
  BY <1>5, AddedDirEntry
<1>7. ChildAdded(linked.bm, linked.region, inum, pinum, type, made)
  BY <1>5, <1>6, AddedChild
<1>8. made.inode \in Inodes /\ made.region \in Regions
  BY <1>7 DEF Halfway, ChildAdded
<1>9. PICK got : /\ Allocation(linked.bm, linked.region, {0}, got)
                 /\ made.bm = got.bm
                 /\ made.inode.direct = [inodeTable[inum].direct EXCEPT
                                           ![0] = got.num + DataRegionAddr]
  BY <1>7 DEF ChildAdded
<1>10. CreatChanges(inum, made.inode, linked.bm, linked.region, got)
  BY <1>1, <1>3, <1>4, <1>6, <1>8, <1>9 DEF CreatChanges
<1>11. CreatOutcome(pinum, type, name, inum, linked, made)
  BY <1>3, <1>6, <1>7 DEF CreatOutcome
<1> QED
  BY <1>10, <1>11

(* Only a served write and a served create change the image.               *)
LEMMA ImageSteps ==
    ASSUME TypeOK, [Next]_vars
    PROVE  /\ mode' \in {"up", "down", "lost"}
           /\ frontIntact' \in BOOLEAN
           /\ m'.rc \in {0, -1}
           /\ \/ UNCHANGED disk
              \/ /\ UNCHANGED inodeBitmap
                 /\ \E inum \in inodeBitmap, offset \in Nat, nbytes \in Nat :
                    \E buf \in Buffers(nbytes) :
                      /\ inodeTable[inum].type # MFS_DIRECTORY
                      /\ WriteServed(inum, offset, nbytes, buf)
              \/ /\ inodeBitmap # Inums
                 /\ \E pinum \in inodeBitmap, type \in CreatTypes, name \in Names :
                      /\ inodeTable[pinum].type = MFS_DIRECTORY
                      /\ CreatServed(pinum, type, name)
<1>1. CASE UNCHANGED vars
  BY <1>1 DEF vars, disk, TypeOK
<1>2. CASE Start
  BY <1>2 DEF Start, disk, TypeOK
<1>3. CASE Shutdown
  BY <1>3 DEF Shutdown, disk, TypeOK
<1>4. ASSUME NEW i \in ReqInums, Stat(i) PROVE UNCHANGED <<mode, disk>> /\ m'.rc \in {0, -1}
  BY <1>4 DEF Stat
<1>5. ASSUME NEW i \in ReqInums, NEW name \in Names, Lookup(i, name)
      PROVE UNCHANGED <<mode, disk>> /\ m'.rc \in {0, -1}
  BY <1>5 DEF Lookup
<1>6. ASSUME NEW i \in ReqInums, NEW name \in Names, Unlink(i, name)
      PROVE UNCHANGED <<mode, disk>> /\ m'.rc \in {0, -1}
  BY <1>6 DEF Unlink
<1>7. ASSUME NEW i \in ReqInums, NEW offset \in Offsets, NEW nbytes \in Lengths,
             Read(i, offset, nbytes)
      PROVE UNCHANGED <<mode, disk>> /\ m'.rc \in {0, -1}
  BY <1>7 DEF Read
<1>8. ASSUME NEW i \in ReqInums, NEW name \in Names, NEW type \in CreatTypes,
             Creat(i, type, name)
      PROVE /\ mode' \in {mode, "lost"} /\ frontIntact' \in BOOLEAN /\ m'.rc \in {0, -1}
            /\ \/ UNCHANGED disk
               \/ /\ i \in inodeBitmap /\ inodeBitmap # Inums
                  /\ inodeTable[i].type = MFS_DIRECTORY
                  /\ CreatServed(i, type, name)
  <2>1. CASE UNCHANGED <<mode, disk>> /\ m'.rc \in {0, -1}
    BY <2>1 DEF disk, TypeOK
  <2>2. CASE Creatable(i) /\ CreatServed(i, type, name) /\ m'.rc \in {0, -1}
    <3>1. i \in inodeBitmap /\ inodeBitmap # Inums /\ inodeTable[i].type = MFS_DIRECTORY
      BY <2>2 DEF Creatable, Served, TypeOK
    <3>2. \E writes : WritesLand(writes)
      BY <2>2, <3>1 DEF CreatServed, Populate
    <3> QED
      BY <2>2, <3>1, <3>2, WritesLandSomewhere
  <2> QED
    BY <1>8, <2>1, <2>2 DEF Creat
<1>9. ASSUME NEW i \in ReqInums, NEW offset \in Offsets, NEW nbytes \in Lengths,
             NEW buf \in Buffers(nbytes), Write(i, offset, nbytes, buf)
      PROVE /\ mode' \in {mode, "lost"} /\ frontIntact' \in BOOLEAN /\ m'.rc \in {0, -1}
            /\ \/ UNCHANGED disk
               \/ /\ UNCHANGED inodeBitmap
                  /\ i \in inodeBitmap /\ inodeTable[i].type # MFS_DIRECTORY
                  /\ WriteServed(i, offset, nbytes, buf)
  <2>1. CASE UNCHANGED <<mode, disk>> /\ m'.rc \in {0, -1}
    BY <2>1 DEF disk, TypeOK
  <2>2. CASE /\ Writable(i, offset, nbytes) /\ WriteServed(i, offset, nbytes, buf)
             /\ UNCHANGED inodeBitmap /\ m'.rc \in {0, -1}
    <3>1. i \in inodeBitmap /\ inodeTable[i].type # MFS_DIRECTORY /\ i \in Inums
      BY <2>2 DEF Writable, Served, TypeOK
    <3>2. offset \in Nat /\ nbytes \in Nat
      BY RequestsAssumption, SizesAssumption
    <3> QED
      BY <2>2, <3>1, <3>2, ServedWrite
  <2> QED
    BY <1>9, <2>1, <2>2 DEF Write
<1>10. Offsets \subseteq Nat /\ Lengths \subseteq Nat
  BY RequestsAssumption, SizesAssumption
<1> QED
  BY <1>1, <1>2, <1>3, <1>4, <1>5, <1>6, <1>7, <1>8, <1>9, <1>10
     DEF Next, TypeOK, disk

(* The handlers keep the image in its format, from every image mkfs makes. *)
THEOREM TypeCorrect == Spec => []TypeOK
<1>1. Init => TypeOK
  <2> SUFFICES ASSUME Init PROVE TypeOK
    OBVIOUS
  <2>1. RootInode \in Inodes
    BY ZeroAndOneAreSlots, AddressOfBlock, SizesAssumption
    DEF RootInode, Inodes, Pointers, DataAddrs, DataBlocks, MFS_DIRECTORY
  <2>2. PICK stale \in [Inums \ {0} -> StaleInodes] :
          inodeTable = [i \in Inums |-> IF i = 0 THEN RootInode ELSE stale[i]]
    BY DEF Init
  <2>3. ASSUME NEW i \in Inums, i # 0 PROVE stale[i] \in Inodes
    <3>1. stale[i] \in StaleInodes
      BY <2>3
    <3>2. stale[i] \in [type : Int, size : Int, direct : [Ptrs -> Int]]
      BY <3>1, LeftoversAssumption
    <3>3. \A k \in Ptrs : stale[i].direct[k] \in Pointers
      BY <3>1 DEF Pointers, LeftoverPtrs
    <3> QED
      BY <3>2, <3>3 DEF Inodes
  <2>4. inodeTable \in [Inums -> Inodes]
    BY <2>1, <2>2, <2>3
  <2>5. PICK junk \in StackNames :
          dataRegion = [b \in DataBlocks |-> IF b = 0 THEN RootBlock(junk)
                                             ELSE [j \in Slots |-> ZeroCell]]
    BY DEF Init
  <2>6. RootBlock(junk) \in Blocks
    <3>1. "." \in EntryNames /\ ".." \in EntryNames
      BY DEF EntryNames
    <3>2. junk \in EntryNames
      BY DEF EntryNames
    <3>3. 0 \in Int /\ -1 \in Int
      OBVIOUS
    <3>4. Entry(".", 0) \in Cells /\ Entry("..", 0) \in Cells /\ Entry(junk, -1) \in Cells
      BY <3>1, <3>2, <3>3 DEF Entry, Cells
    <3> QED
      BY <3>4 DEF RootBlock, Blocks
  <2>7. [j \in Slots |-> ZeroCell] \in Blocks
    BY DEF Blocks, ZeroCell, Entry, Cells, EntryNames
  <2>8. dataRegion \in [DataBlocks -> Blocks]
    BY <2>5, <2>6, <2>7
  <2>9. inodeTable[0] = RootInode
    BY <2>2, ZeroAndOneAreSlots
  <2> QED
    BY <2>4, <2>8, <2>9, ZeroAndOneAreSlots DEF Init, TypeOK, RootInode
<1>2. TypeOK /\ [Next]_vars => TypeOK'
  <2> SUFFICES ASSUME TypeOK, [Next]_vars PROVE TypeOK'
    OBVIOUS
  <2>1. CASE UNCHANGED disk
    BY <2>1, ImageSteps DEF disk, TypeOK
  <2>2. ASSUME UNCHANGED inodeBitmap,
               NEW inum \in inodeBitmap, NEW offset \in Nat, NEW nbytes \in Nat,
               NEW buf \in Buffers(nbytes), WriteServed(inum, offset, nbytes, buf)
        PROVE  TypeOK'
    <3>0. inum \in Inums
      BY DEF TypeOK
    <3>a. PICK k1, k2, fs1, fs2 : WriteChanges(inum, k1, k2, fs1, fs2)
      BY <2>2, <3>0, ServedWrite
    <3>1. /\ k1 \in Nat /\ k2 \in Nat
          /\ HoleFilled(fs1, k2, fs2)
          /\ dataBitmap' = fs2.bm
          /\ inodeTable' = [inodeTable EXCEPT ![inum] = fs2.inode]
      BY <3>a DEF WriteChanges
    <3>2. fs2.bm \in SUBSET DataBlocks /\ fs2.inode \in Inodes
      BY <3>1 DEF HoleFilled, Halfway
    <3>3. dataRegion' \in Regions
      BY <2>2, <3>0, ServedWrite
    <3>4. fs2.inode.size \in Nat /\ fs2.inode.type = inodeTable[inum].type
      <4> DEFINE fs0 == [bm |-> dataBitmap, region |-> dataRegion, inode |-> inodeTable[inum]]
      <4>1. HoleFilled(fs0, k1, fs1) /\ fs0.inode = inodeTable[inum]
        BY <3>a DEF WriteChanges
      <4>2. inodeTable[inum].size \in Nat
        BY <2>2 DEF TypeOK
      <4> HIDE DEF fs0
      <4>3. fs1.inode.size \in Nat /\ fs1.inode.type = inodeTable[inum].type
        BY <4>1, <4>2, FilledInode
      <4> QED
        BY <3>1, <4>3, FilledInode
    <3> QED
      BY <2>2, <3>0, <3>1, <3>2, <3>3, <3>4, ImageSteps DEF TypeOK, Regions
  <2>3. ASSUME inodeBitmap # Inums, NEW pinum \in inodeBitmap, NEW type, NEW name \in Names,
               inodeTable[pinum].type = MFS_DIRECTORY, CreatServed(pinum, type, name)
        PROVE  TypeOK'
    <3>0. pinum \in Inums
      BY DEF TypeOK
    <3>a. PICK inum, linked, made, got :
            /\ CreatChanges(inum, made.inode, linked.bm, linked.region, got)
            /\ CreatOutcome(pinum, type, name, inum, linked, made)
      BY <2>3, <3>0, ServedCreat
    <3> DEFINE child == made.inode
    <3>1. /\ inum \in Inums \ inodeBitmap /\ child \in Inodes
          /\ inodeBitmap' = inodeBitmap \cup {inum}
          /\ Allocation(linked.bm, linked.region, {0}, got)
          /\ dataBitmap' = got.bm
          /\ inodeTable' = [inodeTable EXCEPT ![inum] = child]
          /\ dataRegion' \in Regions
      BY <3>a DEF CreatChanges
    <3>2. child.size \in Nat /\ child.type \in {MFS_DIRECTORY, MFS_REGULAR_FILE}
      BY <3>a DEF CreatOutcome, ChildAdded
    <3> HIDE DEF child
    <3> QED
      BY <2>3, <3>1, <3>2, ImageSteps DEF TypeOK, Regions, Allocation
  <2> QED
    BY <2>1, <2>2, <2>3, ImageSteps
<1> QED
  BY <1>1, <1>2, PTL DEF Spec
-----------------------------------------------------------------------------
(***************************************************************************)
(* The bitmaps, and the check of an inode's number in the wrong one.       *)
(***************************************************************************)

(* The set of marked blocks stays an initial segment when its least        *)
(* missing number is added to it.                                          *)
LEMMA LeastAddedIsDense ==
    ASSUME NEW N \in Nat, NEW S \in SUBSET (0 .. N - 1), Dense(S),
           NEW x \in (0 .. N - 1) \ S, \A y \in (0 .. N - 1) \ S : x <= y
    PROVE  Dense(S \cup {x})
BY DEF Dense

LEMMA GrowsKeepsDense ==
    ASSUME NEW bm \in SUBSET DataBlocks, NEW bm2, Grows(bm, bm2), Dense(bm)
    PROVE  Dense(bm2) /\ bm \subseteq bm2 /\ bm2 \in SUBSET DataBlocks
<1>1. CASE bm2 = bm
  BY <1>1
<1>2. CASE bm2 # bm
  <2>1. PICK n \in DataBlocks \ bm : bm2 = bm \cup {n} /\ \A y \in DataBlocks \ bm : n <= y
    BY <1>2 DEF Grows
  <2> QED
    BY <2>1, LeastAddedIsDense, SizesAssumption DEF DataBlocks
<1> QED
  BY <1>1, <1>2

LEMMA FillGrows ==
    ASSUME NEW fs, fs.bm \in SUBSET DataBlocks, NEW k, NEW filled,
           HoleFilled(fs, k, filled)
    PROVE  Grows(fs.bm, filled.bm)
<1>1. CASE filled = fs
  BY <1>1 DEF Grows
<1>2. ASSUME NEW got, Allocation(fs.bm, fs.region, {0}, got), filled.bm = got.bm
      PROVE  Grows(fs.bm, filled.bm)
  BY <1>2 DEF Allocation, Grows
<1> QED
  BY <1>1, <1>2 DEF HoleFilled

(* What a served write does to the bitmaps.                                *)
LEMMA WriteGrowsTwice ==
    ASSUME TypeOK, NEW inum \in inodeBitmap, NEW offset \in Nat, NEW nbytes \in Nat,
           NEW buf \in Buffers(nbytes), WriteServed(inum, offset, nbytes, buf)
    PROVE  \E bm \in SUBSET DataBlocks : Grows(dataBitmap, bm) /\ Grows(bm, dataBitmap')
<1> DEFINE fs0 == [bm |-> dataBitmap, region |-> dataRegion, inode |-> inodeTable[inum]]
<1>1. inum \in Inums
  BY DEF TypeOK
<1>a. PICK k1, k2, fs1, fs2 : WriteChanges(inum, k1, k2, fs1, fs2)
  BY <1>1, ServedWrite
<1>2. /\ k1 \in Nat /\ k2 \in Nat
      /\ HoleFilled(fs0, k1, fs1)
      /\ HoleFilled(fs1, k2, fs2)
      /\ dataBitmap' = fs2.bm
  BY <1>a DEF WriteChanges
<1>3. fs0.bm \in SUBSET DataBlocks /\ fs1.bm \in SUBSET DataBlocks
  BY <1>2 DEF HoleFilled, Halfway, TypeOK
<1> HIDE DEF fs0
<1>4. Grows(fs0.bm, fs1.bm)
  BY <1>2, <1>3, FillGrows
<1>5. Grows(fs1.bm, fs2.bm)
  BY <1>2, <1>3, FillGrows
<1> QED
  BY <1>2, <1>3, <1>4, <1>5 DEF fs0

(* Both bitmaps are initial segments, whatever is created and written, and *)
(* whatever of it fails for want of blocks.                                *)
THEOREM BitmapsStayDense == Spec => []BitmapsDense
<1>1. Init => BitmapsDense
  BY DEF Init, BitmapsDense, Dense
<1>2. TypeOK /\ BitmapsDense /\ [Next]_vars => BitmapsDense'
  <2> SUFFICES ASSUME TypeOK, BitmapsDense, [Next]_vars PROVE BitmapsDense'
    OBVIOUS
  <2>0. dataBitmap \in SUBSET DataBlocks /\ Dense(dataBitmap) /\ Dense(inodeBitmap)
    BY DEF TypeOK, BitmapsDense
  <2>1. CASE UNCHANGED disk
    BY <2>1 DEF disk, BitmapsDense
  <2>2. ASSUME UNCHANGED inodeBitmap,
               NEW inum \in inodeBitmap, NEW offset \in Nat, NEW nbytes \in Nat,
               NEW buf \in Buffers(nbytes), WriteServed(inum, offset, nbytes, buf)
        PROVE  BitmapsDense'
    <3>1. PICK bm \in SUBSET DataBlocks : Grows(dataBitmap, bm) /\ Grows(bm, dataBitmap')
      BY <2>2, WriteGrowsTwice
    <3>2. Dense(bm)
      BY <2>0, <3>1, GrowsKeepsDense
    <3>3. Dense(dataBitmap')
      BY <3>1, <3>2, GrowsKeepsDense
    <3> QED
      BY <2>0, <2>2, <3>3 DEF BitmapsDense
  <2>3. ASSUME inodeBitmap # Inums, NEW pinum \in inodeBitmap, NEW type,
               NEW name \in Names,
               inodeTable[pinum].type = MFS_DIRECTORY, CreatServed(pinum, type, name)
        PROVE  BitmapsDense'
    <3>a. PICK inum, child, bm, region, got : CreatChanges(inum, child, bm, region, got)
      BY <2>3, ServedCreat DEF TypeOK
    <3>1. /\ inum \in Inums \ inodeBitmap /\ child \in Inodes
          /\ \A y \in Inums \ inodeBitmap : inum <= y
          /\ inodeBitmap' = inodeBitmap \cup {inum}
          /\ bm \in SUBSET DataBlocks /\ Grows(dataBitmap, bm)
          /\ Allocation(bm, region, {0}, got)
          /\ dataBitmap' = got.bm
      BY <3>a DEF CreatChanges
    <3>2. Dense(inodeBitmap')
      BY <2>0, <3>1, LeastAddedIsDense, SizesAssumption DEF Inums, TypeOK
    <3>3. Dense(bm)
      BY <2>0, <3>1, GrowsKeepsDense
    <3>4. Grows(bm, got.bm)
      BY <3>1, AllocationGrows
    <3>5. Dense(dataBitmap')
      BY <3>1, <3>3, <3>4, GrowsKeepsDense
    <3> QED
      BY <3>2, <3>5 DEF BitmapsDense
  <2> QED
    BY <2>1, <2>2, <2>3, ImageSteps
<1> QED
  BY <1>1, <1>2, TypeCorrect, PTL DEF Spec

(* The handlers look an inode up in the bitmap of the data blocks too, and *)
(* never miss a live one while a block is free: the create that gave it    *)
(* its number marked a block, and blocks are marked from the least up.     *)
THEOREM DataCheckIsHarmless == Spec => []LiveInodesPassDataCheck
<1>1. Init => LiveInodesPassDataCheck
  BY DEF Init, LiveInodesPassDataCheck
<1>2. TypeOK /\ LiveInodesPassDataCheck /\ [Next]_vars => LiveInodesPassDataCheck'
  <2> SUFFICES ASSUME TypeOK, LiveInodesPassDataCheck, [Next]_vars
               PROVE  LiveInodesPassDataCheck'
    OBVIOUS
  <2>0. dataBitmap \in SUBSET DataBlocks
    BY DEF TypeOK
  <2>1. CASE UNCHANGED disk
    BY <2>1 DEF disk, LiveInodesPassDataCheck, Exhausted
  <2>2. ASSUME UNCHANGED inodeBitmap,
               NEW inum \in inodeBitmap, NEW offset \in Nat, NEW nbytes \in Nat,
               NEW buf \in Buffers(nbytes), WriteServed(inum, offset, nbytes, buf)
        PROVE  LiveInodesPassDataCheck'
    <3>1. PICK bm \in SUBSET DataBlocks : Grows(dataBitmap, bm) /\ Grows(bm, dataBitmap')
      BY <2>2, WriteGrowsTwice
    <3>2. dataBitmap \subseteq dataBitmap' /\ dataBitmap' \in SUBSET DataBlocks
      BY <2>0, <3>1 DEF Grows
    <3> QED
      BY <2>2, <3>2 DEF LiveInodesPassDataCheck, Exhausted
  <2>3. ASSUME inodeBitmap # Inums, NEW pinum \in inodeBitmap, NEW type,
               NEW name \in Names,
               inodeTable[pinum].type = MFS_DIRECTORY, CreatServed(pinum, type, name)
        PROVE  LiveInodesPassDataCheck'
    <3>a. PICK inum, child, bm, region, got : CreatChanges(inum, child, bm, region, got)
      BY <2>3, ServedCreat DEF TypeOK
    <3>1. /\ inum \in Inums \ inodeBitmap /\ child \in Inodes
          /\ \A y \in Inums \ inodeBitmap : inum <= y
          /\ inodeBitmap' = inodeBitmap \cup {inum}
          /\ bm \in SUBSET DataBlocks /\ Grows(dataBitmap, bm)
          /\ Allocation(bm, region, {0}, got)
          /\ dataBitmap' = got.bm
      BY <3>a DEF CreatChanges
    <3>2. /\ dataBitmap \subseteq bm /\ bm \subseteq dataBitmap'
          /\ dataBitmap' \in SUBSET DataBlocks
      BY <2>0, <3>1 DEF Grows, Allocation
    <3>3. CASE dataBitmap' = DataBlocks
      BY <3>3 DEF LiveInodesPassDataCheck, Exhausted
    <3>4. CASE dataBitmap' # DataBlocks
      <4>1. bm # DataBlocks /\ dataBitmap # DataBlocks
        BY <2>0, <3>1, <3>2, <3>4
      <4>2. /\ got.num \in DataBlocks \ bm /\ dataBitmap' = bm \cup {got.num}
            /\ \A y \in DataBlocks \ bm : got.num <= y
        BY <3>1, <4>1 DEF Allocation
      <4>3. \A i \in inodeBitmap : i \in bm
        BY <3>2, <4>1 DEF LiveInodesPassDataCheck, Exhausted
      <4>4. inum <= got.num
        <5>1. SUFFICES ASSUME got.num < inum PROVE FALSE
          BY <3>1, <4>2, SizesAssumption DEF Inums, DataBlocks
        <5>2. got.num \in Inums
          BY <3>1, <4>2, <5>1, SizesAssumption DEF Inums, DataBlocks
        <5>3. got.num \in inodeBitmap
          BY <3>1, <5>1, <5>2, SizesAssumption DEF Inums
        <5> QED
          BY <4>2, <4>3, <5>3
      <4>5. inum \in DataBlocks
        BY <3>1, <4>2, <4>4, SizesAssumption DEF Inums, DataBlocks
      <4>6. inum \in dataBitmap'
        BY <3>1, <4>2, <4>4, <4>5, SizesAssumption DEF Inums, DataBlocks
      <4> QED
        BY <3>1, <3>2, <4>3, <4>6 DEF LiveInodesPassDataCheck
    <3> QED
      BY <3>3, <3>4
  <2> QED
    BY <2>1, <2>2, <2>3, ImageSteps
<1> QED
  BY <1>1, <1>2, TypeCorrect, PTL DEF Spec
-----------------------------------------------------------------------------
(***************************************************************************)
(* Ownership of data blocks, on an image whose unused inodes mkfs left     *)
(* with null pointers.                                                     *)
(***************************************************************************)

(* NoSharedBlocks for every inode of the table, the unused ones included,  *)
(* so that it does not depend on which of them are in use.                 *)
Owned(table, bm) ==
    /\ \A i \in Inums, k \in Ptrs :
         ~Hole(table[i].direct[k]) => Rel(table[i].direct[k]) \in bm
    /\ \A i, j \in Inums, k, l \in Ptrs :
         /\ i # j \/ k # l
         /\ ~Hole(table[i].direct[k])
         /\ table[i].direct[k] = table[j].direct[l]
         => bm = DataBlocks /\ table[i].direct[k] = DataRegionAddr

(* inode is inum's inode in table with direct[at] set to data block num.   *)
PointsAt(table, inum, inode, at, num) ==
    inode.direct = [l \in Ptrs |-> IF l = at THEN num + DataRegionAddr
                                   ELSE table[inum].direct[l]]

LEMMA OwnedGrows ==
    ASSUME NEW table, NEW bm \in SUBSET DataBlocks, NEW bm2 \in SUBSET DataBlocks,
           Owned(table, bm), bm \subseteq bm2
    PROVE  Owned(table, bm2)
BY DEF Owned

(* One more pointer, to the block that an allocation returned.             *)
LEMMA PointerAdded ==
    ASSUME NEW table \in [Inums -> Inodes], NEW bm \in SUBSET DataBlocks,
           Owned(table, bm),
           NEW region, NEW got, Allocation(bm, region, {0}, got),
           NEW inum \in Inums, NEW inode \in Inodes, NEW at,
           PointsAt(table, inum, inode, at, got.num)
    PROVE  Owned([table EXCEPT ![inum] = inode], got.bm)
<1> DEFINE table2 == [table EXCEPT ![inum] = inode]
           new == got.num + DataRegionAddr
           New(i, k) == i = inum /\ k = at
<1>1. /\ ~Hole(new) /\ Rel(new) = got.num
      /\ bm \subseteq got.bm /\ got.num \in got.bm
      /\ bm = DataBlocks => got.bm = DataBlocks /\ new = DataRegionAddr
      /\ bm # DataBlocks => got.num \notin bm
  BY AddressOfBlock, SizesAssumption DEF Allocation
<1>2. ASSUME NEW i \in Inums, NEW k \in Ptrs
      PROVE  table2[i].direct[k] = IF New(i, k) THEN new ELSE table[i].direct[k]
  <2>1. CASE i = inum
    BY <2>1 DEF PointsAt
  <2>2. CASE i # inum
    BY <2>2
  <2> QED
    BY <2>1, <2>2
<1> HIDE DEF table2, new, New
<1>3. ASSUME NEW i \in Inums, NEW k \in Ptrs, ~Hole(table2[i].direct[k])
      PROVE  Rel(table2[i].direct[k]) \in got.bm
  BY <1>1, <1>2, <1>3 DEF Owned
<1>4. ASSUME NEW i \in Inums, NEW k \in Ptrs, ~Hole(table[i].direct[k]), table[i].direct[k] = new
      PROVE  bm = DataBlocks
  BY <1>1, <1>4 DEF Owned
<1>5. ASSUME NEW i \in Inums, NEW j \in Inums, NEW k \in Ptrs, NEW l \in Ptrs,
             i # j \/ k # l, ~Hole(table2[i].direct[k]),
             table2[i].direct[k] = table2[j].direct[l]
      PROVE  got.bm = DataBlocks /\ table2[i].direct[k] = DataRegionAddr
  <2>1. CASE New(i, k)
    <3>1. ~New(j, l)
      BY <1>5, <2>1 DEF New
    <3>2. table[j].direct[l] = new
      BY <1>2, <1>5, <2>1, <3>1
    <3> QED
      BY <1>1, <1>2, <1>4, <2>1, <3>2
  <2>2. CASE New(j, l)
    <3>1. ~New(i, k)
      BY <1>5, <2>2 DEF New
    <3>2. table[i].direct[k] = new
      BY <1>2, <1>5, <2>2, <3>1
    <3> QED
      BY <1>1, <1>2, <1>4, <3>1, <3>2
  <2>3. CASE ~New(i, k) /\ ~New(j, l)
    <3>1. table2[i].direct[k] = table[i].direct[k] /\ table2[j].direct[l] = table[j].direct[l]
      BY <1>2, <2>3
    <3>2. ~Hole(table[i].direct[k]) /\ table[i].direct[k] = table[j].direct[l]
      BY <1>5, <3>1
    <3>3. bm = DataBlocks /\ table[i].direct[k] = DataRegionAddr
      BY <1>5, <3>2 DEF Owned
    <3> QED
      BY <1>1, <3>1, <3>3
  <2> QED
    BY <2>1, <2>2, <2>3
<1>6. Owned(table2, got.bm)
  BY <1>3, <1>5 DEF Owned
<1> QED
  BY <1>6 DEF table2

(* The same for one hole of a file that run_write fills.                   *)
LEMMA FilledHoleOwned ==
    ASSUME NEW table \in [Inums -> Inodes], NEW inum \in Inums,
           NEW fs \in Halfway, fs.inode = table[inum], Owned(table, fs.bm),
           NEW k \in Nat, NEW filled, HoleFilled(fs, k, filled)
    PROVE  Owned([table EXCEPT ![inum] = filled.inode], filled.bm)
<1>1. CASE filled = fs
  <2>1. [table EXCEPT ![inum] = filled.inode] = table
    BY <1>1
  <2> QED
    BY <1>1, <2>1
<1>2. ASSUME NEW got, Allocation(fs.bm, fs.region, {0}, got), filled.bm = got.bm,
             filled.inode.direct = [l \in Ptrs |-> IF l = k THEN got.num + DataRegionAddr
                                                   ELSE fs.inode.direct[l]]
      PROVE  Owned([table EXCEPT ![inum] = filled.inode], filled.bm)
  <2>1. fs.bm \in SUBSET DataBlocks /\ filled.inode \in Inodes
    BY DEF HoleFilled, Halfway
  <2>2. PointsAt(table, inum, filled.inode, k, got.num)
    BY <1>2 DEF PointsAt
  <2>3. Owned([table EXCEPT ![inum] = filled.inode], got.bm)
    BY <1>2, <2>1, <2>2, PointerAdded
  <2> QED
    BY <1>2, <2>3
<1> QED
  BY <1>1, <1>2 DEF HoleFilled

(* Where mkfs left no pointer, an inode it left has holes only.            *)
LEMMA UnusedInodesEmpty ==
    ASSUME NoLeftovers
    PROVE  \A inode \in StaleInodes, k \in Ptrs : Hole(inode.direct[k])
BY DEF NoLeftovers, LeftoverPtrs

(* The invariant holds of every image on the way: pointers are only added, *)
(* each to the block that an allocation has just returned.                 *)
LEMMA PointersOwned ==
    ASSUME NoLeftovers
    PROVE  Spec => []Owned(inodeTable, dataBitmap)
<1> DEFINE Inv == Owned(inodeTable, dataBitmap)
<1>1. Init => Inv
  <2> SUFFICES ASSUME Init PROVE Inv
    OBVIOUS
  <2>1. PICK stale \in [Inums \ {0} -> StaleInodes] :
          inodeTable = [i \in Inums |-> IF i = 0 THEN RootInode ELSE stale[i]]
    BY DEF Init
  <2>2. \A i \in Inums, k \in Ptrs : i # 0 => Hole(inodeTable[i].direct[k])
    BY <2>1, UnusedInodesEmpty
  <2>3. \A k \in Ptrs : inodeTable[0].direct[k] = IF k = 0 THEN DataRegionAddr ELSE -1
    BY <2>1, ZeroAndOneAreSlots DEF RootInode
  <2>4. Rel(DataRegionAddr) = 0
    BY SizesAssumption DEF Rel
  <2>5. Owned(inodeTable, dataBitmap)
    BY <2>2, <2>3, <2>4, ZeroAndOneAreSlots DEF Init, Owned, Hole
  <2> QED
    BY <2>5
<1>2. TypeOK /\ Inv /\ [Next]_vars => Inv'
  <2> SUFFICES ASSUME TypeOK, Inv, [Next]_vars PROVE Inv'
    OBVIOUS
  <2>0. inodeTable \in [Inums -> Inodes] /\ dataBitmap \in SUBSET DataBlocks
    BY DEF TypeOK
  <2>1. CASE UNCHANGED disk
    BY <2>1 DEF disk
  <2>2. ASSUME UNCHANGED inodeBitmap,
               NEW inum \in inodeBitmap, NEW offset \in Nat, NEW nbytes \in Nat,
               NEW buf \in Buffers(nbytes), WriteServed(inum, offset, nbytes, buf)
        PROVE  Inv'
    <3> DEFINE fs0 == [bm |-> dataBitmap, region |-> dataRegion, inode |-> inodeTable[inum]]
    <3>1. inum \in Inums
      BY DEF TypeOK
    <3>a. PICK k1, k2, fs1, fs2 : WriteChanges(inum, k1, k2, fs1, fs2)
      BY <2>2, <3>1, ServedWrite
    <3>2. /\ k1 \in Nat /\ k2 \in Nat
          /\ HoleFilled(fs0, k1, fs1)
          /\ HoleFilled(fs1, k2, fs2)
          /\ dataBitmap' = fs2.bm
          /\ inodeTable' = [inodeTable EXCEPT ![inum] = fs2.inode]
      BY <3>a DEF WriteChanges
    <3>3. fs0 \in Halfway
      BY <3>1 DEF TypeOK, Halfway, Regions
    <3>4. fs0.inode = inodeTable[inum] /\ fs0.bm = dataBitmap
      OBVIOUS
    <3> HIDE DEF fs0
    <3> DEFINE table1 == [inodeTable EXCEPT ![inum] = fs1.inode]
    <3>5. Owned(table1, fs1.bm)
      BY <2>0, <3>1, <3>2, <3>3, <3>4, FilledHoleOwned
    <3>6. fs1 \in Halfway /\ fs1.inode \in Inodes
      BY <3>2 DEF HoleFilled, Halfway
    <3>7. table1 \in [Inums -> Inodes] /\ fs1.inode = table1[inum]
      BY <2>0, <3>1, <3>6
    <3>8. inodeTable' = [table1 EXCEPT ![inum] = fs2.inode]
      BY <2>0, <3>2
    <3> HIDE DEF table1
    <3>9. Owned([table1 EXCEPT ![inum] = fs2.inode], fs2.bm)
      BY <3>1, <3>2, <3>5, <3>6, <3>7, FilledHoleOwned
    <3> QED
      BY <3>2, <3>8, <3>9
  <2>3. ASSUME inodeBitmap # Inums, NEW pinum \in inodeBitmap, NEW type,
               NEW name \in Names,
               inodeTable[pinum].type = MFS_DIRECTORY, CreatServed(pinum, type, name)
        PROVE  Inv'
    <3>a. PICK inum, child, bm, region, got : CreatChanges(inum, child, bm, region, got)
      BY <2>3, ServedCreat DEF TypeOK
    <3>1. /\ inum \in Inums \ inodeBitmap /\ child \in Inodes
          /\ inodeBitmap' = inodeBitmap \cup {inum}
          /\ bm \in SUBSET DataBlocks /\ Grows(dataBitmap, bm)
          /\ Allocation(bm, region, {0}, got)
          /\ dataBitmap' = got.bm
          /\ child.direct = [inodeTable[inum].direct EXCEPT ![0] = got.num + DataRegionAddr]
          /\ inodeTable' = [inodeTable EXCEPT ![inum] = child]
      BY <3>a DEF CreatChanges
    <3>2. Owned(inodeTable, bm)
      BY <2>0, <3>1, OwnedGrows DEF Grows
    <3>3. PointsAt(inodeTable, inum, child, 0, got.num)
      BY <2>0, <3>1 DEF Inodes, PointsAt
    <3>4. Owned([inodeTable EXCEPT ![inum] = child], got.bm)
      BY <2>0, <3>1, <3>2, <3>3, PointerAdded
    <3> QED
      BY <3>1, <3>4
  <2> QED
    BY <2>1, <2>2, <2>3, ImageSteps
<1> QED
  BY <1>1, <1>2, TypeCorrect, PTL DEF Spec

(* No two pointers of live inodes name the same block, over every history  *)
(* of creates and writes, until the last block is taken; then only block 0 *)
(* is shared, by the callers that did not look at the allocator's answer.  *)
THEOREM BlocksHaveOneOwner ==
    ASSUME NoLeftovers
    PROVE  Spec => []NoSharedBlocks
<1>1. TypeOK /\ Owned(inodeTable, dataBitmap) => NoSharedBlocks
  <2> SUFFICES ASSUME TypeOK, Owned(inodeTable, dataBitmap) PROVE NoSharedBlocks
    OBVIOUS
  <2>1. \A r \in Refs : r[1] \in Inums /\ r[2] \in Ptrs /\ ~Hole(Target(r))
    BY DEF Refs, Target, TypeOK
  <2>2. \A r, s \in Refs : r # s => r[1] # s[1] \/ r[2] # s[2]
    BY DEF Refs
  <2> QED
    BY <2>1, <2>2 DEF Owned, NoSharedBlocks, Target, Exhausted
<1> QED
  BY <1>1, TypeCorrect, PointersOwned, PTL
=============================================================================
