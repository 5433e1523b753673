-------------------------- MODULE MFSServerDirProofs --------------------------
(***************************************************************************)
(* What directories hold over every history of requests, on an image whose *)
(* unused inodes mkfs left without pointers.                               *)
(***************************************************************************)
EXTENDS MFSServerDataProofs

(* The block of a directory that lookups and creates scan, its only one:   *)
(* the second one that a create takes for an entry is never linked.        *)
DirBlock(i) == dataRegion[Rel(inodeTable[i].direct[0])]

(* What a live directory keeps: one block, its own "." and "..", entries   *)
(* of live inodes only, and the free entries behind all others.            *)
WellLinked(i) ==
    /\ ~Hole(inodeTable[i].direct[0])
    /\ \A k \in Ptrs \ {0} : Hole(inodeTable[i].direct[k])
    /\ DirBlock(i)[0] = Entry(".", i)
    /\ DirBlock(i)[1].name = ".." /\ DirBlock(i)[1].inum \in LiveDirs
    /\ DirBlock(i)[1].inum < i \/ i = 0
    /\ \A j \in Slots : DirBlock(i)[j].inum \in inodeBitmap \cup {-1}
    /\ \A j, l \in Slots : j < l /\ DirBlock(i)[j].inum = -1 => DirBlock(i)[l].inum = -1

(* While blocks last, those that are not in use are zero, so that a new    *)
(* directory starts with entries of the root behind its "..".              *)
ZeroBlock == [j \in Slots |-> ZeroCell]

DirsInv ==
    /\ 0 \in LiveDirs
    /\ ~Exhausted => /\ \A b \in DataBlocks \ dataBitmap : dataRegion[b] = ZeroBlock
                     /\ \A i \in LiveDirs : WellLinked(i)

(* The invariants that the directories' one rests on.                      *)
Support ==
    /\ NoLeftovers
    /\ TypeOK
    /\ BitmapsDense
    /\ Owned(inodeTable, dataBitmap)
    /\ SizesInv

LEMMA SupportHolds ==
    ASSUME NoLeftovers
    PROVE  Spec => []Support
<1>1. NoLeftovers
  OBVIOUS
<1> QED
  BY <1>1, TypeCorrect, BitmapsStayDense, PointersOwned, SizesFit, PTL DEF Support

LEMMA PointerIsToBlock ==
    ASSUME NoLeftovers, NEW addr \in Pointers, ~Hole(addr)
    PROVE  Rel(addr) \in DataBlocks /\ addr = Rel(addr) + DataRegionAddr
BY NoOtherPointer, RelOfPointer

LEMMA OnlyFirstIsScanned ==
    ASSUME NEW inode, ~Hole(inode.direct[0]), \A k \in Ptrs \ {0} : Hole(inode.direct[k])
    PROVE  Scanned(inode) = {0}
<1>1. 0 \in Scanned(inode)
  BY ZeroAndOneAreSlots DEF Scanned
<1>2. ASSUME NEW k \in Scanned(inode) PROVE k = 0
  <2>1. k \in Ptrs /\ k \in 0 .. k
    BY SizesAssumption DEF Scanned, Ptrs
  <2>2. ~Hole(inode.direct[k])
    BY <2>1 DEF Scanned
  <2> QED
    BY <2>1, <2>2
<1> QED
  BY <1>1, <1>2
-----------------------------------------------------------------------------
(***************************************************************************)
(* A create while blocks last: the new inode's block and the entry.        *)
(***************************************************************************)
CreatedWithRoom(pinum, type, name, inum, nb) ==
    /\ inum \in Inums \ inodeBitmap
    /\ \A y \in Inums \ inodeBitmap : inum <= y
    /\ inodeBitmap' = inodeBitmap \cup {inum}
    /\ \A i \in Inums \ {inum} : inodeTable'[i] = inodeTable[i]
    /\ inodeTable'[inum].type = IF type = MFS_DIRECTORY THEN MFS_DIRECTORY
                                ELSE MFS_REGULAR_FILE
    /\ inodeTable'[inum].direct = [inodeTable[inum].direct EXCEPT ![0] = nb + DataRegionAddr]
    /\ dataBitmap \subseteq dataBitmap'
    /\ nb \in DataBlocks \ dataBitmap /\ nb \in dataBitmap'
    /\ dataRegion'[nb] = ChildBlock(dataRegion[nb], inum, pinum, type)
    /\ \A b \in DataBlocks \ dataBitmap' : dataRegion'[b] = dataRegion[b]

(* The entry goes into the first free slot of a scanned block, or into a   *)
(* block that no inode points to.                                          *)
EntryAdded(pinum, entry, k, j) ==
    LET pb == Rel(inodeTable[pinum].direct[k])
    IN  /\ k \in Scanned(inodeTable[pinum]) /\ j \in Slots
        /\ pb \in dataBitmap
        /\ dataRegion[pb][j].inum = -1
        /\ \A i \in Slots : i < j => dataRegion[pb][i].inum # -1
        /\ dataRegion'[pb] = [dataRegion[pb] EXCEPT ![j] = entry]
        /\ \A b \in dataBitmap \ {pb} : dataRegion'[b] = dataRegion[b]

EntryDropped(pinum) ==
    /\ BlocksWithSlot(dataRegion, inodeTable[pinum]) = {}
    /\ \A b \in dataBitmap : dataRegion'[b] = dataRegion[b]

LEMMA CreatWithRoom ==
    ASSUME NoLeftovers, TypeOK, Owned(inodeTable, dataBitmap),
           NEW pinum \in inodeBitmap, NEW type \in CreatTypes, NEW name \in Names,
           inodeBitmap # Inums, inodeTable[pinum].type = MFS_DIRECTORY,
           CreatServed(pinum, type, name), dataBitmap' # DataBlocks
    PROVE  \E inum, nb :
             /\ CreatedWithRoom(pinum, type, name, inum, nb)
             /\ \/ EntryDropped(pinum)
                \/ \E k, j : EntryAdded(pinum, Entry(name, inum), k, j)
<1>1. /\ pinum \in Inums /\ inodeTable[pinum] \in Inodes
      /\ dataBitmap \subseteq DataBlocks
  BY DEF TypeOK
<1>2. PICK inum, linked, made, got0 :
         /\ CreatChanges(inum, made.inode, linked.bm, linked.region, got0)
         /\ CreatOutcome(pinum, type, name, inum, linked, made)
  BY <1>1, ServedCreat
<1>3. /\ ChildAdded(linked.bm, linked.region, inum, pinum, type, made)
      /\ EntryLinked(dataBitmap, dataRegion, inodeTable[pinum], Entry(name, inum), linked)
      /\ dataBitmap' = made.bm /\ dataRegion' = made.region
  BY <1>2 DEF CreatOutcome
<1>4. PICK got : /\ Allocation(linked.bm, linked.region, {0}, got)
                 /\ made.bm = got.bm
                 /\ made.region = [linked.region EXCEPT
                                     ![got.num] = ChildBlock(got.buf, inum, pinum, type)]
                 /\ made.inode.direct = [inodeTable[inum].direct EXCEPT
                                          ![0] = got.num + DataRegionAddr]
  BY <1>3 DEF ChildAdded
<1>5. /\ inum \in Inums \ inodeBitmap /\ \A y \in Inums \ inodeBitmap : inum <= y
      /\ inodeBitmap' = inodeBitmap \cup {inum}
      /\ inodeTable' = [inodeTable EXCEPT ![inum] = made.inode]
      /\ linked.bm \in SUBSET DataBlocks /\ Grows(dataBitmap, linked.bm)
  BY <1>2 DEF CreatChanges
<1>6. /\ linked.bm # DataBlocks /\ dataBitmap # DataBlocks
      /\ got.bm = linked.bm \cup {got.num} /\ got.num \in DataBlocks \ linked.bm
      /\ got.buf = linked.region[got.num]
      /\ dataBitmap \subseteq linked.bm
  BY <1>1, <1>3, <1>4, <1>5 DEF Allocation, Grows
<1>7. /\ dataBitmap' = linked.bm \cup {got.num}
      /\ dataRegion' = [linked.region EXCEPT
                          ![got.num] = ChildBlock(linked.region[got.num], inum, pinum, type)]
  BY <1>3, <1>4, <1>6
<1>8. /\ inodeTable'[inum] = made.inode
      /\ \A i \in Inums \ {inum} : inodeTable'[i] = inodeTable[i]
  BY <1>5 DEF TypeOK
<1>9. inodeTable'[inum].type = IF type = MFS_DIRECTORY THEN MFS_DIRECTORY
                               ELSE MFS_REGULAR_FILE
  BY <1>3, <1>8 DEF ChildAdded
<1>10. DOMAIN dataRegion = DataBlocks
  BY DEF TypeOK
<1>11. ASSUME NEW k \in Scanned(inodeTable[pinum]), NEW j \in Slots,
              EntryAt(dataRegion, inodeTable[pinum], k, j).inum = -1,
              \A i \in Slots : i < j => EntryAt(dataRegion, inodeTable[pinum], k, i).inum # -1,
              linked.bm = dataBitmap,
              linked.region = [dataRegion EXCEPT
                 ![Rel(inodeTable[pinum].direct[k])][j] = Entry(name, inum)]
       PROVE  /\ CreatedWithRoom(pinum, type, name, inum, got.num)
              /\ EntryAdded(pinum, Entry(name, inum), k, j)
  <2> DEFINE pb == Rel(inodeTable[pinum].direct[k])
  <2>1. k \in Ptrs /\ ~Hole(inodeTable[pinum].direct[k])
    BY <1>1, ScannedBlocks
  <2>2. pb \in dataBitmap
    BY <1>1, <2>1 DEF Owned
  <2>3. pb \in DataBlocks /\ pb # got.num
    BY <1>1, <1>6, <2>2
  <2> HIDE DEF pb
  <2>4. linked.region = [dataRegion EXCEPT ![pb] = [dataRegion[pb] EXCEPT ![j] = Entry(name, inum)]]
    BY <1>11 DEF pb
  <2>5. /\ dataRegion'[pb] = [dataRegion[pb] EXCEPT ![j] = Entry(name, inum)]
        /\ dataRegion'[got.num] = ChildBlock(dataRegion[got.num], inum, pinum, type)
        /\ \A b \in DataBlocks \ {pb, got.num} : dataRegion'[b] = dataRegion[b]
    BY <1>6, <1>7, <1>10, <2>3, <2>4
  <2>6. CreatedWithRoom(pinum, type, name, inum, got.num)
    BY <1>4, <1>5, <1>6, <1>7, <1>8, <1>9, <1>11, <2>2, <2>5 DEF CreatedWithRoom
  <2>7. EntryAdded(pinum, Entry(name, inum), k, j)
    <3>1. \A b \in dataBitmap \ {pb} : dataRegion'[b] = dataRegion[b]
      BY <1>1, <1>6, <2>5
    <3> QED
      BY <1>11, <2>2, <2>5, <3>1 DEF EntryAdded, EntryAt, pb
  <2> QED
    BY <2>6, <2>7
<1>12. ASSUME BlocksWithSlot(dataRegion, inodeTable[pinum]) = {},
              NEW extra, Allocation(dataBitmap, dataRegion, StackInts, extra),
              linked.bm = extra.bm,
              linked.region = [dataRegion EXCEPT
                 ![extra.num] = [extra.buf EXCEPT ![0] = Entry(name, inum)]]
       PROVE  /\ CreatedWithRoom(pinum, type, name, inum, got.num)
              /\ EntryDropped(pinum)
  <2>1. extra.num \in DataBlocks \ dataBitmap /\ extra.num # got.num
        /\ extra.num \in linked.bm
    BY <1>6, <1>12 DEF Allocation
  <2>2. /\ dataRegion'[got.num] = ChildBlock(dataRegion[got.num], inum, pinum, type)
        /\ \A b \in DataBlocks \ {extra.num, got.num} : dataRegion'[b] = dataRegion[b]
    BY <1>6, <1>7, <1>10, <1>12, <2>1
  <2>3. CreatedWithRoom(pinum, type, name, inum, got.num)
    BY <1>4, <1>5, <1>6, <1>7, <1>8, <1>9, <2>1, <2>2 DEF CreatedWithRoom
  <2>4. EntryDropped(pinum)
    BY <1>1, <1>6, <1>12, <2>1, <2>2 DEF EntryDropped
  <2> QED
    BY <2>3, <2>4
<1>13. CASE \E k \in Scanned(inodeTable[pinum]), j \in Slots :
         /\ EntryAt(dataRegion, inodeTable[pinum], k, j).inum = -1
         /\ \A i \in Slots :
              i < j => EntryAt(dataRegion, inodeTable[pinum], k, i).inum # -1
         /\ linked.bm = dataBitmap
         /\ linked.region = [dataRegion EXCEPT
              ![Rel(inodeTable[pinum].direct[k])][j] = Entry(name, inum)]
  BY <1>11, <1>13
<1>14. CASE /\ BlocksWithSlot(dataRegion, inodeTable[pinum]) = {}
            /\ \E extra :
                 /\ Allocation(dataBitmap, dataRegion, StackInts, extra)
                 /\ linked.bm = extra.bm
                 /\ linked.region = [dataRegion EXCEPT
                      ![extra.num] = [extra.buf EXCEPT ![0] = Entry(name, inum)]]
  BY <1>12, <1>14
<1>15. \A k \in Scanned(inodeTable[pinum]) : inodeTable[pinum].direct[k] \in DataAddrs
  BY <1>1, ScannedBlocks
<1>16. BlocksWithSlot(dataRegion, inodeTable[pinum]) \subseteq Scanned(inodeTable[pinum])
  BY DEF BlocksWithSlot
<1> QED
  BY <1>3, <1>6, <1>13, <1>14, <1>15, <1>16 DEF EntryLinked
-----------------------------------------------------------------------------
(***************************************************************************)
(* What a step does to the directories there are, while blocks last.       *)
(***************************************************************************)

(* A write changes no block of a directory and none that stays unused.     *)
LEMMA WriteLeavesDirs ==
    ASSUME NoLeftovers, TypeOK, Owned(inodeTable, dataBitmap), UNCHANGED inodeBitmap,
           NEW inum \in inodeBitmap, NEW offset \in Nat, NEW nbytes \in 0 .. BlockSize,
           NEW buf \in Buffers(nbytes), Writable(inum, offset, nbytes),
           WriteServed(inum, offset, nbytes, buf), dataBitmap' # DataBlocks
    PROVE  /\ LiveDirs' = LiveDirs
           /\ dataBitmap \subseteq dataBitmap' /\ dataBitmap # DataBlocks
           /\ \A i \in LiveDirs : inodeTable'[i] = inodeTable[i]
           /\ \A i \in LiveDirs, k \in Ptrs : ~Hole(inodeTable[i].direct[k]) =>
                dataRegion'[Rel(inodeTable[i].direct[k])]
                  = dataRegion[Rel(inodeTable[i].direct[k])]
           /\ \A b \in DataBlocks \ dataBitmap' : dataRegion'[b] = dataRegion[b]
<1>1. inum \in Inums /\ nbytes \in Nat /\ inodeBitmap \subseteq Inums
  BY SizesAssumption DEF TypeOK
<1>2. PICK dup, fs1, fs2 : WriteOutcome(inum, offset, nbytes, buf, dup, fs1, fs2)
  BY <1>1, ServedWrite
<1>3. /\ fs2 \in Halfway
      /\ dataBitmap # DataBlocks /\ dataBitmap \subseteq dataBitmap'
      /\ \A l \in Ptrs : PointerKept(inodeTable[inum].direct[l], fs2.inode.direct[l],
                                     dataBitmap, dataBitmap')
  BY <1>1, <1>2, WriteWithRoom
<1>4. dataBitmap' \subseteq DataBlocks /\ inodeTable' = [inodeTable EXCEPT ![inum] = fs2.inode]
  BY <1>2, <1>3 DEF WriteOutcome, Halfway
<1>5. inodeTable[inum].type = MFS_REGULAR_FILE /\ fs2.inode.type = MFS_REGULAR_FILE
  <2>1. inodeTable[inum].type = MFS_REGULAR_FILE
    BY DEF Writable, TypeOK
  <2>2. fs1.inode.type = inodeTable[inum].type /\ fs2.inode.type = fs1.inode.type
    BY <1>2 DEF WriteOutcome, HoleFilled
  <2> QED
    BY <2>1, <2>2
<1>6. \A i \in Inums : inodeTable'[i] = IF i = inum THEN fs2.inode ELSE inodeTable[i]
  BY <1>4 DEF TypeOK
<1>7. inum \notin LiveDirs /\ LiveDirs \subseteq Inums
  BY <1>1, <1>5 DEF LiveDirs, MFS_DIRECTORY, MFS_REGULAR_FILE
<1>8. LiveDirs' = LiveDirs
  BY <1>1, <1>5, <1>6 DEF LiveDirs, MFS_DIRECTORY, MFS_REGULAR_FILE
<1>9. ASSUME NEW b \in DataBlocks,
             \A q \in Ptrs : fs2.inode.direct[q] # b + DataRegionAddr
      PROVE  dataRegion'[b] = dataRegion[b]
  <2>1. dataRegion[b] \in Blocks /\ dataRegion'[b] \in Blocks
    BY <1>1, ServedWrite DEF TypeOK, Regions
  <2>2. ASSUME NEW j \in Slots PROVE dataRegion'[b][j] = dataRegion[b][j]
    <3>1. SUFFICES ASSUME dataRegion'[b][j] # dataRegion[b][j] PROVE FALSE
      OBVIOUS
    <3>2. PICK pos \in offset .. offset + nbytes - 1 :
              /\ pos \div BlockSize \in Ptrs
              /\ fs2.inode.direct[pos \div BlockSize] = b + DataRegionAddr
      BY <1>1, <1>2, <3>1, ChangedCellIsInRange DEF InRange
    <3> QED
      BY <1>9, <3>2
  <2> QED
    BY <2>1, <2>2 DEF Blocks
<1>10. ASSUME NEW i \in LiveDirs, NEW k \in Ptrs, ~Hole(inodeTable[i].direct[k])
       PROVE  dataRegion'[Rel(inodeTable[i].direct[k])]
                = dataRegion[Rel(inodeTable[i].direct[k])]
  <2> DEFINE b == Rel(inodeTable[i].direct[k])
  <2>1. i \in Inums /\ i # inum
    BY <1>7
  <2>2. b \in dataBitmap /\ b \in DataBlocks
    BY <1>10, <2>1 DEF Owned, TypeOK
  <2>3. inodeTable[i].direct[k] = b + DataRegionAddr
    <3>1. inodeTable[i].direct[k] \in Pointers
      BY <2>1 DEF TypeOK, Inodes
    <3> QED
      BY <1>10, <3>1, PointerIsToBlock
  <2> HIDE DEF b
  <2>4. ASSUME NEW q \in Ptrs, fs2.inode.direct[q] = b + DataRegionAddr PROVE FALSE
    <3>1. inodeTable[inum].direct[q] # b + DataRegionAddr
      BY <1>1, <1>3, <1>10, <2>1, <2>3 DEF Owned
    <3>2. PICK n \in dataBitmap' \ dataBitmap : n + DataRegionAddr = b + DataRegionAddr
      BY <1>3, <2>4, <3>1 DEF PointerKept
    <3> QED
      BY <1>4, <2>2, <3>2, SizesAssumption DEF DataBlocks
  <2>5. dataRegion'[b] = dataRegion[b]
    BY <1>9, <2>2, <2>4
  <2> QED
    BY <2>5 DEF b
<1>11. ASSUME NEW b \in DataBlocks \ dataBitmap' PROVE dataRegion'[b] = dataRegion[b]
  <2>1. ASSUME NEW q \in Ptrs, fs2.inode.direct[q] = b + DataRegionAddr PROVE FALSE
    <3>1. ~Hole(b + DataRegionAddr) /\ Rel(b + DataRegionAddr) = b
      BY AddressOfBlock
    <3>2. inodeTable[inum].direct[q] # b + DataRegionAddr
      BY <1>1, <1>3, <3>1 DEF Owned
    <3>3. PICK n \in dataBitmap' \ dataBitmap : n + DataRegionAddr = b + DataRegionAddr
      BY <1>3, <2>1, <3>2 DEF PointerKept
    <3> QED
      BY <1>4, <3>3, SizesAssumption DEF DataBlocks
  <2> QED
    BY <1>9, <2>1
<1> QED
  BY <1>3, <1>6, <1>7, <1>8, <1>10, <1>11

(* A directory keeps its inode and all its entries; its first free entry   *)
(* may become one of a live inode.                                         *)
KeptOrExtended(i) ==
    /\ inodeTable'[i] = inodeTable[i]
    /\ \/ DirBlock(i)' = DirBlock(i)
       \/ \E j \in Slots, entry \in [name : Names, inum : inodeBitmap'] :
            /\ DirBlock(i)[j].inum = -1
            /\ \A l \in Slots : l < j => DirBlock(i)[l].inum # -1
            /\ DirBlock(i)' = [DirBlock(i) EXCEPT ![j] = entry]

(* The parent of a create gets the entry in its first free slot, or has    *)
(* none and stays as it is; every other directory does.                    *)
FirstFreeFilled(i, entry) ==
    \E j \in Slots :
      /\ DirBlock(i)[j].inum = -1
      /\ \A l \in Slots : l < j => DirBlock(i)[l].inum # -1
      /\ DirBlock(i)' = [DirBlock(i) EXCEPT ![j] = entry]

NoneFree(i) ==
    /\ \A j \in Slots : DirBlock(i)[j].inum # -1
    /\ DirBlock(i)' = DirBlock(i)

LEMMA CreatKeepsDirs ==
    ASSUME Support, DirsInv, dataBitmap # DataBlocks,
           NEW pinum \in LiveDirs, NEW type, NEW name \in Names, NEW inum, NEW nb,
           CreatedWithRoom(pinum, type, name, inum, nb),
           \/ EntryDropped(pinum)
           \/ \E k, j : EntryAdded(pinum, Entry(name, inum), k, j)
    PROVE  /\ \A i \in LiveDirs : /\ inodeTable'[i] = inodeTable[i]
                                  /\ i # pinum => DirBlock(i)' = DirBlock(i)
           /\ FirstFreeFilled(pinum, Entry(name, inum)) \/ NoneFree(pinum)
           /\ \A i \in LiveDirs : KeptOrExtended(i)
<1> DEFINE b(i) == Rel(inodeTable[i].direct[0])
<1>1. ASSUME NEW i \in LiveDirs
      PROVE  /\ i \in Inums /\ i # inum /\ inodeTable'[i] = inodeTable[i]
             /\ 0 \in Ptrs /\ ~Hole(inodeTable[i].direct[0])
             /\ inodeTable[i].direct[0] = b(i) + DataRegionAddr
             /\ Scanned(inodeTable[i]) = {0}
             /\ b(i) \in dataBitmap /\ DirBlock(i)' = dataRegion'[b(i)]
  <2>1. WellLinked(i)
    BY DEF DirsInv, Exhausted
  <2>2. i \in Inums /\ i # inum /\ inodeTable'[i] = inodeTable[i]
    BY DEF CreatedWithRoom, LiveDirs, Support, TypeOK
  <2>3. 0 \in Ptrs /\ ~Hole(inodeTable[i].direct[0]) /\ inodeTable[i].direct[0] \in Pointers
    BY <2>1, <2>2, ZeroAndOneAreSlots DEF WellLinked, Support, TypeOK, Inodes
  <2>4. inodeTable[i].direct[0] = b(i) + DataRegionAddr
    BY <2>3, PointerIsToBlock DEF Support
  <2>5. Scanned(inodeTable[i]) = {0}
    BY <2>1, OnlyFirstIsScanned DEF WellLinked
  <2> QED
    BY <2>2, <2>3, <2>4, <2>5 DEF Support, Owned, DirBlock
<1>2. CASE EntryDropped(pinum)
  <2>1. \A i \in LiveDirs : DirBlock(i)' = DirBlock(i)
    BY <1>1, <1>2 DEF EntryDropped, DirBlock
  <2>2. NoneFree(pinum)
    BY <1>1, <1>2, <2>1 DEF EntryDropped, BlocksWithSlot, EntryAt, DirBlock, NoneFree
  <2> QED
    BY <1>1, <2>1, <2>2 DEF KeptOrExtended
<1>3. ASSUME NEW k, NEW j, EntryAdded(pinum, Entry(name, inum), k, j)
      PROVE  /\ FirstFreeFilled(pinum, Entry(name, inum))
             /\ \A i \in LiveDirs : i # pinum => DirBlock(i)' = DirBlock(i)
  <2>1. k = 0
    <3>1. k \in Scanned(inodeTable[pinum])
      BY ONLY <1>3 DEF EntryAdded
    <3> QED
      BY <1>1, <3>1
  <2>2. /\ DirBlock(pinum)' = [DirBlock(pinum) EXCEPT ![j] = Entry(name, inum)]
        /\ DirBlock(pinum)[j].inum = -1 /\ j \in Slots
        /\ \A l \in Slots : l < j => DirBlock(pinum)[l].inum # -1
    BY <1>1, <1>3, <2>1 DEF EntryAdded, DirBlock
  <2>3. ASSUME NEW i \in LiveDirs, i # pinum PROVE DirBlock(i)' = DirBlock(i)
    <3>1. inodeTable[i].direct[0] # inodeTable[pinum].direct[0]
      BY <1>1, <2>3 DEF Support, Owned
    <3>2. b(i) # b(pinum)
      BY <1>1, <3>1
    <3>3. dataRegion'[b(i)] = dataRegion[b(i)]
      BY <1>1, <1>3, <2>1, <3>2 DEF EntryAdded
    <3> QED
      BY <1>1, <3>3 DEF DirBlock
  <2> QED
    BY <2>2, <2>3 DEF FirstFreeFilled
<1>4. ASSUME FirstFreeFilled(pinum, Entry(name, inum)),
             \A i \in LiveDirs : i # pinum => DirBlock(i)' = DirBlock(i),
             NEW i \in LiveDirs
      PROVE  KeptOrExtended(i)
  <2>1. Entry(name, inum) \in [name : Names, inum : inodeBitmap']
    BY DEF Entry, CreatedWithRoom
  <2> QED
    BY <1>1, <1>4, <2>1 DEF FirstFreeFilled, KeptOrExtended
<1> QED
  BY <1>1, <1>2, <1>3, <1>4

(* What every step leaves of the directories, and the one it may add.      *)
NothingElse ==
    /\ LiveDirs' = LiveDirs /\ UNCHANGED inodeBitmap
    /\ dataBitmap \subseteq dataBitmap'
    /\ \A b \in DataBlocks \ dataBitmap' : dataRegion'[b] = dataRegion[b]

LEMMA DirSteps ==
    ASSUME Support, DirsInv, [Next]_vars, dataBitmap' # DataBlocks
    PROVE  /\ dataBitmap # DataBlocks
           /\ \A i \in LiveDirs : KeptOrExtended(i)
           /\ \/ NothingElse
              \/ \E pinum \in LiveDirs, type \in CreatTypes, name \in Names : \E inum, nb :
                    CreatedWithRoom(pinum, type, name, inum, nb)
<1>1. CASE UNCHANGED disk
  BY <1>1 DEF disk, NothingElse, LiveDirs, KeptOrExtended, DirBlock
<1>2. ASSUME UNCHANGED inodeBitmap,
             NEW inum \in inodeBitmap, NEW offset \in Nat, NEW nbytes \in 0 .. BlockSize,
             NEW buf \in Buffers(nbytes), Writable(inum, offset, nbytes),
             WriteServed(inum, offset, nbytes, buf)
      PROVE  /\ dataBitmap # DataBlocks /\ NothingElse
             /\ \A i \in LiveDirs : KeptOrExtended(i)
  <2>1. /\ LiveDirs' = LiveDirs
        /\ dataBitmap \subseteq dataBitmap' /\ dataBitmap # DataBlocks
        /\ \A i \in LiveDirs : inodeTable'[i] = inodeTable[i]
        /\ \A i \in LiveDirs, k \in Ptrs : ~Hole(inodeTable[i].direct[k]) =>
             dataRegion'[Rel(inodeTable[i].direct[k])]
               = dataRegion[Rel(inodeTable[i].direct[k])]
        /\ \A b \in DataBlocks \ dataBitmap' : dataRegion'[b] = dataRegion[b]
    BY <1>2, WriteLeavesDirs DEF Support
  <2>2. ASSUME NEW i \in LiveDirs PROVE KeptOrExtended(i)
    <3>1. ~Hole(inodeTable[i].direct[0]) /\ 0 \in Ptrs
      BY <2>1, ZeroAndOneAreSlots DEF DirsInv, Exhausted, WellLinked
    <3> QED
      BY <2>1, <3>1 DEF KeptOrExtended, DirBlock
  <2> QED
    BY <1>2, <2>1, <2>2 DEF NothingElse
<1>3. ASSUME NEW pinum \in inodeBitmap, NEW type \in CreatTypes, NEW name \in Names,
             inodeBitmap # Inums, inodeTable[pinum].type = MFS_DIRECTORY,
             CreatServed(pinum, type, name)
      PROVE  /\ dataBitmap # DataBlocks
             /\ \A i \in LiveDirs : KeptOrExtended(i)
             /\ pinum \in LiveDirs
             /\ \E inum, nb : CreatedWithRoom(pinum, type, name, inum, nb)
  <2>1. PICK inum, nb :
             /\ CreatedWithRoom(pinum, type, name, inum, nb)
             /\ \/ EntryDropped(pinum)
                \/ \E k, j : EntryAdded(pinum, Entry(name, inum), k, j)
    BY <1>3, CreatWithRoom DEF Support
  <2>2. pinum \in LiveDirs
    BY <1>3 DEF LiveDirs
  <2>3. dataBitmap # DataBlocks
    BY <2>1 DEF CreatedWithRoom
  <2> QED
    BY <2>1, <2>2, <2>3, CreatKeepsDirs
<1> QED
  BY <1>1, <1>2, <1>3, RequestSteps DEF Support
-----------------------------------------------------------------------------
(***************************************************************************)
(* The invariant of the directories.                                       *)
(***************************************************************************)
LEMMA DirBlockIsBlock ==
    ASSUME NoLeftovers, TypeOK, NEW i \in LiveDirs, WellLinked(i)
    PROVE  /\ i \in Inums /\ i \in Nat
           /\ DirBlock(i) \in Blocks
           /\ {0, 1} \subseteq Slots /\ Slots \subseteq Nat
           /\ LiveDirs \subseteq Nat /\ inodeBitmap \subseteq Nat
<1>1. LiveDirs \subseteq inodeBitmap /\ inodeBitmap \subseteq Inums
  BY DEF LiveDirs, TypeOK
<1>2. Inums \subseteq Nat /\ Slots \subseteq Nat
  BY SizesAssumption DEF Inums, Slots
<1>3. inodeTable[i].direct[0] \in Pointers /\ ~Hole(inodeTable[i].direct[0])
  BY <1>1, ZeroAndOneAreSlots DEF TypeOK, Inodes, WellLinked
<1>4. DirBlock(i) \in Blocks
  BY <1>3, PointerIsToBlock DEF TypeOK, DirBlock
<1> QED
  BY <1>1, <1>2, <1>4, ZeroAndOneAreSlots

(* The free entry that a create fills lies behind "." and "..", and all    *)
(* entries behind it stay free.                                            *)
LEMMA KeptWellLinked ==
    ASSUME NoLeftovers, TypeOK, NEW i \in LiveDirs, WellLinked(i), KeptOrExtended(i),
           inodeBitmap \subseteq inodeBitmap', inodeBitmap' \subseteq Inums,
           LiveDirs \subseteq LiveDirs'
    PROVE  WellLinked(i)'
<1>1. /\ i \in Nat /\ DirBlock(i) \in Blocks
      /\ {0, 1} \subseteq Slots /\ Slots \subseteq Nat
      /\ LiveDirs \subseteq Nat
  BY DirBlockIsBlock
<1>2. CASE DirBlock(i)' = DirBlock(i)
  BY <1>2 DEF WellLinked, KeptOrExtended
<1>3. ASSUME NEW j \in Slots, NEW entry \in [name : Names, inum : inodeBitmap'],
             DirBlock(i)[j].inum = -1,
             \A l \in Slots : l < j => DirBlock(i)[l].inum # -1,
             DirBlock(i)' = [DirBlock(i) EXCEPT ![j] = entry]
      PROVE  WellLinked(i)'
  <2>1. j # 0 /\ j # 1
    BY <1>1, <1>3 DEF WellLinked, Entry
  <2>2. entry.inum \in inodeBitmap' /\ entry.inum # -1
    BY SizesAssumption DEF Inums
  <2>3. \A l \in Slots : DirBlock(i)'[l] = IF l = j THEN entry ELSE DirBlock(i)[l]
    BY <1>1, <1>3 DEF Blocks
  <2>4. ASSUME NEW l \in Slots, NEW q \in Slots, l < q, DirBlock(i)'[l].inum = -1
        PROVE  DirBlock(i)'[q].inum = -1
    <3>1. l # j /\ DirBlock(i)[l].inum = -1
      BY <2>2, <2>3, <2>4
    <3>2. j < l
      BY <1>1, <1>3, <3>1
    <3>3. q # j
      BY <1>1, <2>4, <3>2
    <3> QED
      BY <2>3, <2>4, <3>1, <3>3 DEF WellLinked
  <2>5. \A l \in Slots : DirBlock(i)'[l].inum \in inodeBitmap' \cup {-1}
    BY <2>2, <2>3 DEF WellLinked
  <2>6. DirBlock(i)'[0] = DirBlock(i)[0] /\ DirBlock(i)'[1] = DirBlock(i)[1]
    BY <1>1, <2>1, <2>3
  <2>7. inodeTable'[i] = inodeTable[i]
    BY DEF KeptOrExtended
  <2>8. \A l, q \in Slots : l < q /\ DirBlock(i)'[l].inum = -1 => DirBlock(i)'[q].inum = -1
    BY <2>4
  <2> QED
    BY <2>5, <2>6, <2>7, <2>8 DEF WellLinked
<1> QED
  BY <1>2, <1>3 DEF KeptOrExtended

LEMMA NewWellLinked ==
    ASSUME Support, DirsInv, dataBitmap # DataBlocks,
           NEW pinum \in LiveDirs, NEW name, NEW inum, NEW nb,
           CreatedWithRoom(pinum, MFS_DIRECTORY, name, inum, nb),
           LiveDirs \subseteq LiveDirs'
    PROVE  /\ WellLinked(inum)'
           /\ \A j \in Slots : DirBlock(inum)'[j] = IF j = 0 THEN Entry(".", inum)
                                                    ELSE IF j = 1 THEN Entry("..", pinum)
                                                    ELSE ZeroCell
<1>1. /\ inum \in Inums \ inodeBitmap /\ inodeBitmap' = inodeBitmap \cup {inum}
      /\ inodeTable'[inum].direct = [inodeTable[inum].direct EXCEPT ![0] = nb + DataRegionAddr]
      /\ nb \in DataBlocks \ dataBitmap
      /\ dataRegion'[nb] = ChildBlock(dataRegion[nb], inum, pinum, MFS_DIRECTORY)
  BY DEF CreatedWithRoom
<1>2. 0 \in Ptrs /\ inodeTable[inum].direct \in [Ptrs -> Pointers]
  BY <1>1, ZeroAndOneAreSlots DEF Support, TypeOK, Inodes
<1>3. \A k \in Ptrs : inodeTable'[inum].direct[k]
                        = IF k = 0 THEN nb + DataRegionAddr ELSE inodeTable[inum].direct[k]
  BY <1>1, <1>2
<1>4. /\ ~Hole(inodeTable'[inum].direct[0]) /\ Rel(inodeTable'[inum].direct[0]) = nb
      /\ \A k \in Ptrs \ {0} : Hole(inodeTable'[inum].direct[k])
  BY <1>1, <1>2, <1>3, AddressOfBlock DEF Support, SizesInv
<1>5. /\ {0, 1} \subseteq Slots /\ inum \in Nat /\ pinum \in Nat
      /\ pinum \in inodeBitmap /\ 0 \in inodeBitmap
  BY <1>1, ZeroAndOneAreSlots, SizesAssumption
  DEF Support, TypeOK, Inums, LiveDirs, DirsInv
<1>6. dataRegion[nb] = ZeroBlock
  BY <1>1 DEF DirsInv, Exhausted
<1>7. \A j \in Slots : DirBlock(inum)'[j] = IF j = 0 THEN Entry(".", inum)
                                            ELSE IF j = 1 THEN Entry("..", pinum)
                                            ELSE ZeroCell
  BY <1>1, <1>4, <1>5, <1>6 DEF DirBlock, ChildBlock, ZeroBlock
<1>8. pinum < inum
  <2>1. SUFFICES ASSUME inum <= pinum PROVE FALSE
    BY <1>5
  <2>2. inum \in 0 .. pinum
    BY <1>5, <2>1
  <2> QED
    BY <1>1, <1>5, <2>2 DEF Support, BitmapsDense, Dense
<1>9. /\ DirBlock(inum)'[0] = Entry(".", inum)
      /\ DirBlock(inum)'[1].name = ".." /\ DirBlock(inum)'[1].inum = pinum
  BY <1>5, <1>7 DEF Entry
<1>10. \A j \in Slots : DirBlock(inum)'[j].inum \in inodeBitmap'
                        /\ DirBlock(inum)'[j].inum # -1
  <2>1. ASSUME NEW j \in Slots PROVE DirBlock(inum)'[j].inum \in {inum, pinum, 0}
    <3>1. DirBlock(inum)'[j] \in {Entry(".", inum), Entry("..", pinum), ZeroCell}
      BY <1>7
    <3>2. /\ Entry(".", inum).inum = inum /\ Entry("..", pinum).inum = pinum
          /\ ZeroCell.inum = 0
      BY DEF Entry, ZeroCell
    <3> QED
      BY <3>1, <3>2
  <2>2. {inum, pinum, 0} \subseteq inodeBitmap' /\ -1 \notin {inum, pinum, 0}
    BY <1>1, <1>5
  <2> QED
    BY <2>1, <2>2
<1> QED
  BY <1>4, <1>7, <1>8, <1>9, <1>10 DEF WellLinked

LEMMA DirsStart == Init => DirsInv
<1> SUFFICES ASSUME Init PROVE DirsInv
  OBVIOUS
<1>1. PICK stale \in [Inums \ {0} -> StaleInodes] :
        inodeTable = [i \in Inums |-> IF i = 0 THEN RootInode ELSE stale[i]]
  BY DEF Init
<1>2. PICK junk \in StackNames :
        dataRegion = [b \in DataBlocks |-> IF b = 0 THEN RootBlock(junk)
                                           ELSE [j \in Slots |-> ZeroCell]]
  BY DEF Init
<1>3. 0 \in Inums /\ 0 \in Ptrs /\ 0 \in DataBlocks /\ {0, 1} \subseteq Slots
  BY ZeroAndOneAreSlots
<1>4. inodeTable[0] = RootInode /\ LiveDirs = {0}
  BY <1>1, <1>3 DEF Init, LiveDirs, RootInode
<1>5. /\ inodeTable[0].direct[0] = DataRegionAddr
      /\ \A k \in Ptrs \ {0} : Hole(inodeTable[0].direct[k])
  BY <1>3, <1>4 DEF RootInode, Hole
<1>6. ~Hole(DataRegionAddr) /\ Rel(DataRegionAddr) = 0
  BY SizesAssumption DEF Hole, Rel
<1>7. \A j \in Slots : DirBlock(0)[j] = IF j = 0 THEN Entry(".", 0)
                                        ELSE IF j = 1 THEN Entry("..", 0)
                                        ELSE Entry(junk, -1)
  BY <1>2, <1>3, <1>5, <1>6 DEF DirBlock, RootBlock
<1>8. /\ DirBlock(0)[0] = Entry(".", 0)
      /\ DirBlock(0)[1].name = ".." /\ DirBlock(0)[1].inum = 0
  BY <1>3, <1>7 DEF Entry
<1>9. \A j \in Slots : /\ DirBlock(0)[j].inum \in {0, -1}
                       /\ DirBlock(0)[j].inum = -1 <=> j > 1
  BY <1>7, SizesAssumption DEF Entry, Slots
<1>10. \A j, l \in Slots : j < l /\ DirBlock(0)[j].inum = -1 => DirBlock(0)[l].inum = -1
  BY <1>9, SizesAssumption DEF Slots
<1>11. WellLinked(0)
  BY <1>4, <1>5, <1>6, <1>8, <1>9, <1>10 DEF WellLinked, Init
<1>12. \A b \in DataBlocks \ dataBitmap : dataRegion[b] = ZeroBlock
  BY <1>2 DEF Init, ZeroBlock
<1> QED
  BY <1>4, <1>11, <1>12 DEF DirsInv

LEMMA DirsStep == Support /\ DirsInv /\ TypeOK' /\ [Next]_vars => DirsInv'
<1> SUFFICES ASSUME Support, DirsInv, TypeOK', [Next]_vars PROVE DirsInv'
  OBVIOUS
<1>1. 0 \in LiveDirs'
  <2>1. CASE UNCHANGED disk
    BY <2>1 DEF disk, DirsInv, LiveDirs
  <2>2. ASSUME UNCHANGED inodeBitmap,
               NEW inum \in inodeBitmap, NEW offset \in Nat, NEW nbytes \in Nat,
               NEW buf \in Buffers(nbytes), inodeTable[inum].type # MFS_DIRECTORY,
               WriteServed(inum, offset, nbytes, buf)
        PROVE  0 \in LiveDirs'
    <3>1. inum # 0 /\ inum \in Inums
      BY <2>2 DEF DirsInv, LiveDirs, Support, TypeOK
    <3>2. PICK k1, k2, fs1, fs2 : WriteChanges(inum, k1, k2, fs1, fs2)
      BY <2>2, <3>1, ServedWrite DEF Support
    <3> QED
      BY <2>2, <3>1, <3>2 DEF WriteChanges, DirsInv, LiveDirs, Support, TypeOK
  <2>3. ASSUME inodeBitmap # Inums, NEW pinum \in inodeBitmap, NEW type \in CreatTypes,
               NEW name \in Names, inodeTable[pinum].type = MFS_DIRECTORY,
               CreatServed(pinum, type, name)
        PROVE  0 \in LiveDirs'
    <3>1. PICK inum, linked, made, got0 :
             CreatChanges(inum, made.inode, linked.bm, linked.region, got0)
      BY <2>3, ServedCreat DEF Support, TypeOK
    <3> QED
      BY <3>1 DEF CreatChanges, DirsInv, LiveDirs, Support, TypeOK
  <2> QED
    BY <2>1, <2>2, <2>3, ImageSteps DEF Support
<1>2. ASSUME ~Exhausted'
      PROVE  /\ \A b \in DataBlocks \ dataBitmap' : dataRegion'[b] = ZeroBlock
             /\ \A i \in LiveDirs' : WellLinked(i)'
  <2>1. /\ dataBitmap # DataBlocks
        /\ \A i \in LiveDirs : KeptOrExtended(i)
        /\ \/ NothingElse
           \/ \E pinum \in LiveDirs, type \in CreatTypes, name \in Names : \E inum, nb :
                 CreatedWithRoom(pinum, type, name, inum, nb)
    BY <1>2, DirSteps DEF Exhausted
  <2>2. /\ \A b \in DataBlocks \ dataBitmap : dataRegion[b] = ZeroBlock
        /\ \A i \in LiveDirs : WellLinked(i)
    BY <2>1 DEF DirsInv, Exhausted
  <2>3. inodeBitmap' \subseteq Inums
    BY DEF TypeOK
  <2>4. CASE NothingElse
    <3>1. LiveDirs' = LiveDirs /\ UNCHANGED inodeBitmap
      BY <2>4 DEF NothingElse
    <3>2. \A i \in LiveDirs' : WellLinked(i)'
      BY <2>1, <2>2, <2>3, <3>1, KeptWellLinked DEF Support
    <3> QED
      BY <2>2, <2>4, <3>2 DEF NothingElse
  <2>5. ASSUME NEW pinum \in LiveDirs, NEW type \in CreatTypes, NEW name \in Names,
               NEW inum, NEW nb, CreatedWithRoom(pinum, type, name, inum, nb)
        PROVE  /\ \A b \in DataBlocks \ dataBitmap' : dataRegion'[b] = ZeroBlock
               /\ \A i \in LiveDirs' : WellLinked(i)'
    <3>1. /\ inum \in Inums \ inodeBitmap /\ inodeBitmap' = inodeBitmap \cup {inum}
          /\ \A i \in Inums \ {inum} : inodeTable'[i] = inodeTable[i]
          /\ inodeTable'[inum].type = IF type = MFS_DIRECTORY THEN MFS_DIRECTORY
                                      ELSE MFS_REGULAR_FILE
      BY <2>5 DEF CreatedWithRoom
    <3>2. /\ LiveDirs \subseteq LiveDirs'
          /\ \A i \in LiveDirs' : i \in LiveDirs \/ (i = inum /\ type = MFS_DIRECTORY)
      BY <3>1 DEF LiveDirs, MFS_DIRECTORY, MFS_REGULAR_FILE, Support, TypeOK
    <3>3. ASSUME NEW i \in LiveDirs PROVE WellLinked(i)'
      BY <2>1, <2>2, <2>3, <3>1, <3>2, KeptWellLinked DEF Support
    <3>4. ASSUME type = MFS_DIRECTORY PROVE WellLinked(inum)'
      BY <2>1, <2>5, <3>2, <3>4, NewWellLinked
    <3>5. \A b \in DataBlocks \ dataBitmap' : dataRegion'[b] = ZeroBlock
      BY <2>2, <2>5 DEF CreatedWithRoom
    <3> QED
      BY <3>2, <3>3, <3>4, <3>5
  <2> QED
    BY <2>1, <2>4, <2>5
<1> QED
  BY <1>1, <1>2 DEF DirsInv

LEMMA DirsHold ==
    ASSUME NoLeftovers
    PROVE  Spec => []DirsInv
BY DirsStart, DirsStep, SupportHolds, TypeCorrect, PTL DEF Spec
-----------------------------------------------------------------------------
(***************************************************************************)
(* What a lookup meets.                                                    *)
(***************************************************************************)

(* While blocks last, "." of a live directory is itself and ".." an older  *)
(* live one, in every history of requests, so that following ".." ends at  *)
(* the root.                                                               *)
THEOREM DotDotLeadsToRoot ==
    ASSUME NoLeftovers
    PROVE  Spec => []DirectoriesLeadToRoot
<1>1. DirsInv => DirectoriesLeadToRoot
  BY DEF DirsInv, WellLinked, DirBlock, DirectoriesLeadToRoot
<1> QED
  BY <1>1, DirsHold, PTL

(* No lookup ever meets the entry of an inode that does not exist: what is *)
(* left in a block behind the entries written to it names the root.        *)
THEOREM EntriesNameInodes ==
    ASSUME NoLeftovers
    PROVE  Spec => []EntriesNameLiveInodes
<1>1. DirsInv => EntriesNameLiveInodes
  <2> SUFFICES ASSUME DirsInv, ~Exhausted, NEW i \in LiveDirs,
                      NEW k \in Scanned(inodeTable[i]), NEW j \in Slots
               PROVE  EntryAt(dataRegion, inodeTable[i], k, j).inum \in inodeBitmap \cup {-1}
    BY DEF EntriesNameLiveInodes
  <2>1. WellLinked(i)
    BY DEF DirsInv
  <2>2. k = 0
    BY <2>1, OnlyFirstIsScanned DEF WellLinked
  <2> QED
    BY <2>1, <2>2 DEF EntryAt, WellLinked, DirBlock
<1> QED
  BY <1>1, DirsHold, PTL

(* A lookup in a directory of one block answers its first match.           *)
Hits(block, name) == {j \in Slots : block[j].name = name}

LEMMA LookupInOneBlock ==
    ASSUME NEW region, NEW inode, NEW name, Scanned(inode) = {0}
    PROVE  LET block == region[Rel(inode.direct[0])]
           IN  LookupResult(region, inode, name)
                 = IF Hits(block, name) = {} THEN Unset
                   ELSE block[Min(Hits(block, name))].inum
<1> DEFINE block == region[Rel(inode.direct[0])]
           found == {k \in Scanned(inode) : Matches(region, inode, k, name) # {}}
<1>1. Matches(region, inode, 0, name) = Hits(block, name)
  BY DEF Matches, EntryAt, Hits
<1>2. CASE Hits(block, name) = {}
  <2>1. found = {}
    BY <1>1, <1>2
  <2> QED
    BY <1>2, <2>1 DEF LookupResult
<1>3. CASE Hits(block, name) # {}
  <2>1. found = {0}
    BY <1>1, <1>3
  <2>2. Max({0}) = 0
    BY DEF Max
  <2>3. EntryAt(region, inode, 0, Min(Matches(region, inode, 0, name)))
          = block[Min(Hits(block, name))]
    BY <1>1 DEF EntryAt
  <2> QED
    BY <1>3, <2>1, <2>2, <2>3 DEF LookupResult
<1> QED
  BY <1>2, <1>3

(* The entry that a name resolves to lies before every free one, and so    *)
(* before the one that a create fills, with whatever name.                 *)
LEMMA ResolvedNameKept ==
    ASSUME NoLeftovers, TypeOK, NEW i \in LiveDirs, WellLinked(i), KeptOrExtended(i), NEW name,
           LookupResult(dataRegion, inodeTable[i], name) \in Inums
    PROVE  LookupResult(dataRegion', inodeTable'[i], name)
             = LookupResult(dataRegion, inodeTable[i], name)
<1>1. /\ DirBlock(i) \in Blocks /\ Slots \subseteq Nat
  BY DirBlockIsBlock
<1>2. inodeTable'[i] = inodeTable[i] /\ Scanned(inodeTable[i]) = {0}
  BY OnlyFirstIsScanned DEF KeptOrExtended, WellLinked
<1>3. LookupResult(dataRegion, inodeTable[i], name)
        = IF Hits(DirBlock(i), name) = {} THEN Unset
          ELSE DirBlock(i)[Min(Hits(DirBlock(i), name))].inum
  BY <1>2, LookupInOneBlock DEF DirBlock
<1>4. LookupResult(dataRegion', inodeTable'[i], name)
        = IF Hits(DirBlock(i)', name) = {} THEN Unset
          ELSE DirBlock(i)'[Min(Hits(DirBlock(i)', name))].inum
  BY <1>2, LookupInOneBlock DEF DirBlock
<1>5. Hits(DirBlock(i), name) # {}
        /\ DirBlock(i)[Min(Hits(DirBlock(i), name))].inum # -1
  BY <1>3, RequestsAssumption, SizesAssumption DEF Inums
<1>6. CASE DirBlock(i)' = DirBlock(i)
  BY <1>3, <1>4, <1>6
<1>7. ASSUME NEW j \in Slots, NEW entry,
             DirBlock(i)[j].inum = -1,
             DirBlock(i)' = [DirBlock(i) EXCEPT ![j] = entry]
      PROVE  LookupResult(dataRegion', inodeTable'[i], name)
               = LookupResult(dataRegion, inodeTable[i], name)
  <2> DEFINE old == Hits(DirBlock(i), name)
             new == Hits(DirBlock(i)', name)
             p   == Min(old)
  <2>1. p \in old /\ \A y \in old : p <= y
    BY <1>1, <1>5, MinIsLeast DEF Hits
  <2>2. p \in Slots /\ p # j
    BY <1>5, <1>7, <2>1 DEF Hits
  <2>3. p < j
    <3>1. j < p => DirBlock(i)[p].inum = -1
      BY <1>7, <2>2 DEF WellLinked
    <3>2. ~(j < p)
      BY <1>5, <3>1
    <3> HIDE DEF p, old
    <3> QED
      BY <1>1, <2>2, <3>2
  <2>4. \A l \in Slots : l # j => DirBlock(i)'[l] = DirBlock(i)[l]
    BY <1>1, <1>7 DEF Blocks
  <2> HIDE DEF p
  <2>5. p \in new /\ new \subseteq old \cup {j}
    BY <2>1, <2>2, <2>4 DEF Hits
  <2>6. \A y \in new : p <= y
    BY <1>1, <2>1, <2>2, <2>3, <2>5
  <2>7. new \in SUBSET Nat
    BY <1>1 DEF Hits
  <2> HIDE DEF old, new
  <2>8. Min(new) \in new /\ \A y \in new : Min(new) <= y
    BY <2>5, <2>7, MinIsLeast
  <2>9. Min(new) = p
    <3>1. Min(new) \in Nat /\ p \in Nat
      BY <2>5, <2>7, <2>8
    <3>2. Min(new) <= p /\ p <= Min(new)
      BY <2>5, <2>6, <2>8
    <3> QED
      BY <3>1, <3>2
  <2>10. DirBlock(i)'[p] = DirBlock(i)[p]
    BY <2>2, <2>4
  <2> QED
    BY <1>3, <1>4, <1>5, <2>5, <2>9, <2>10 DEF old, new, p
<1> QED
  BY <1>6, <1>7 DEF KeptOrExtended

(* Over every history, a name that resolves keeps resolving to the same    *)
(* inode: no later create of that name in the directory, no write, no      *)
(* unlink of another name and no restart shadows or replaces it.           *)
THEOREM NamesStayResolved ==
    ASSUME NoLeftovers
    PROVE  Spec => ResolvedNamesStable
<1> DEFINE Stable ==
      dataBitmap' # DataBlocks =>
          \A i \in LiveDirs, name \in Names \cup {".", ".."} :
            LookupResult(dataRegion, inodeTable[i], name) \in Inums
              /\ ~UnlinkOf(m', i, name) =>
              LookupResult(dataRegion', inodeTable'[i], name)
                = LookupResult(dataRegion, inodeTable[i], name)
<1>1. Support /\ DirsInv /\ [Next]_vars => [Stable]_vars
  <2> SUFFICES ASSUME Support, DirsInv, [Next]_vars, dataBitmap' # DataBlocks,
                      NEW i \in LiveDirs, NEW name \in Names \cup {".", ".."},
                      LookupResult(dataRegion, inodeTable[i], name) \in Inums
               PROVE  LookupResult(dataRegion', inodeTable'[i], name)
                        = LookupResult(dataRegion, inodeTable[i], name)
    OBVIOUS
  <2>1. dataBitmap # DataBlocks /\ KeptOrExtended(i)
    BY DirSteps
  <2>2. WellLinked(i)
    BY <2>1 DEF DirsInv, Exhausted
  <2> QED
    BY <2>1, <2>2, ResolvedNameKept DEF Support
<1>2. Spec => [][Stable]_vars
  <2> HIDE DEF Stable
  <2> QED
    BY <1>1, SupportHolds, DirsHold, PTL DEF Spec
<1> QED
  BY <1>2 DEF ResolvedNamesStable
=============================================================================
