---------------------------- MODULE MFSCrashProofs ----------------------------
(***************************************************************************)
(* What SIGINT leaves of the image wherever it ends a handler: the image   *)
(* is in order between any two calls, not only between two requests.  And  *)
(* what the calls come to if it ends none: the handlers of MFSServer.      *)
(***************************************************************************)
EXTENDS MFSCrash, TLAPS, FiniteSetTheorems, SequenceTheorems, WellFoundedInduction

Hole(addr) == Server!Hole(addr)
Rel(addr)  == Server!Rel(addr)
DataBlocks == Server!DataBlocks

Full(img) == img.dataBitmap = DataBlocks

(* An image, whatever the cells of its blocks are.                         *)
Inodes == [type : Int, size : Int, direct : [Ptrs -> Int]]
Images(blocks) ==
    [frontIntact : BOOLEAN, inodeBitmap : SUBSET Inums, dataBitmap : SUBSET DataBlocks,
     inodeTable : [Inums -> Inodes], dataRegion : [DataBlocks -> blocks]]

(* inum's own block, or what a create is about to make of it.              *)
DirBlockOf(img, inum, block) ==
    /\ block[0] = Server!Entry(".", inum)
    /\ block[1].name = ".." /\ block[1].inum \in LiveDirs(img)
    /\ block[1].inum < inum \/ (inum = 0 /\ block[1].inum = 0)
    /\ \A j \in Slots : block[j].inum \in img.inodeBitmap \cup {-1}

(* The pointers of a table are to marked blocks, each has one owner, and   *)
(* inodes that are free have none.                                         *)
PointersOK(img) ==
    /\ \A i \in Inums, k \in Ptrs : ~Hole(img.inodeTable[i].direct[k]) =>
         i \in img.inodeBitmap /\ Rel(img.inodeTable[i].direct[k]) \in img.dataBitmap
    /\ \A i, j \in Inums, k, l \in Ptrs :
         ~Hole(img.inodeTable[i].direct[k])
         /\ img.inodeTable[i].direct[k] = img.inodeTable[j].direct[l] => i = j /\ k = l

(* A directory has one block, in order, or none yet.                       *)
DirsOK(img) ==
    \A d \in LiveDirs(img) :
       /\ \A k \in Ptrs \ {0} : Hole(img.inodeTable[d].direct[k])
       /\ ~Hole(img.inodeTable[d].direct[0]) =>
            DirBlockOf(img, d, img.dataRegion[Rel(img.inodeTable[d].direct[0])])

(* The image between two calls.  A free block is zero: the entries behind  *)
(* ".." of a directory that is made in it name the root.                   *)
InOrder(img) ==
    /\ \E blocks : img \in Images(blocks)
    /\ \A b \in DataBlocks : Slots \subseteq DOMAIN img.dataRegion[b]
    /\ 0 \in img.inodeBitmap
    /\ \A x \in img.inodeBitmap : 0 .. x \subseteq img.inodeBitmap
    /\ \A b \in DataBlocks \ img.dataBitmap, j \in Slots : img.dataRegion[b][j].inum = 0
    /\ PointersOK(img)
    /\ DirsOK(img)
-----------------------------------------------------------------------------
(***************************************************************************)
(* Each call on an image in order.                                         *)
(***************************************************************************)
LEMMA Sizes ==
    /\ NumInodes \in Nat \ {0} /\ NumData \in Nat \ {0} /\ DirectPtrs \in Nat \ {0}
    /\ BlockSize \in Nat /\ BlockSize >= 2 /\ DataRegionAddr \in Nat \ {0}
    /\ Inums \subseteq Nat /\ Ptrs \subseteq Nat /\ Slots \subseteq Nat /\ DataBlocks \subseteq Nat
    /\ 0 \in Inums /\ 0 \in Ptrs /\ 0 \in DataBlocks /\ {0, 1} \subseteq Slots
BY ServerAssumption DEF Server!SizesAssumption, Inums, Ptrs, Slots, DataBlocks,
   Server!Inums, Server!Ptrs, Server!Slots, Server!DataBlocks

(* setOneToBitMap on the data bitmap.                                      *)
LEMMA EffectOfDataBit ==
    ASSUME NEW blocks, NEW img \in Images(blocks), NEW b \in DataBlocks
    PROVE  LET after == Effect(img, DataBit(b))
           IN  /\ after \in Images(blocks)
               /\ after.inodeBitmap = img.inodeBitmap
               /\ after.dataBitmap = img.dataBitmap \cup {b}
               /\ after.inodeTable = img.inodeTable
               /\ after.dataRegion = img.dataRegion
BY DEF Effect, DataBit, Images

LEMMA EffectOfInodeBit ==
    ASSUME NEW blocks, NEW img \in Images(blocks), NEW i \in Inums
    PROVE  LET after == Effect(img, InodeBit(i))
           IN  /\ after \in Images(blocks)
               /\ after.inodeBitmap = img.inodeBitmap \cup {i}
               /\ after.dataBitmap = img.dataBitmap
               /\ after.inodeTable = img.inodeTable
               /\ after.dataRegion = img.dataRegion
BY DEF Effect, InodeBit, Images

LEMMA EffectOfPutInode ==
    ASSUME NEW blocks, NEW img \in Images(blocks), NEW i \in Inums, NEW inode \in Inodes
    PROVE  LET after == Effect(img, PutInode(i, inode))
           IN  /\ after \in Images(blocks)
               /\ after.inodeBitmap = img.inodeBitmap
               /\ after.dataBitmap = img.dataBitmap
               /\ after.inodeTable = [img.inodeTable EXCEPT ![i] = inode]
               /\ after.dataRegion = img.dataRegion
BY DEF Effect, PutInode, Images

LEMMA EffectOfPutCells ==
    ASSUME NEW blocks, NEW img \in Images(blocks), NEW b \in DataBlocks, NEW c
    PROVE  LET after == Effect(img, PutCells(b, c))
               block == Over(c, img.dataRegion[b])
           IN  /\ after \in Images(blocks \cup {block})
               /\ after.inodeBitmap = img.inodeBitmap
               /\ after.dataBitmap = img.dataBitmap
               /\ after.inodeTable = img.inodeTable
               /\ after.dataRegion = [img.dataRegion EXCEPT ![b] = block]
BY DEF Effect, PutCells, Images

LEMMA EffectOfPutFront ==
    ASSUME NEW blocks, NEW img \in Images(blocks), NEW addr
    PROVE  LET after == Effect(img, PutFront(addr))
           IN  /\ after \in Images(blocks)
               /\ after.inodeBitmap = img.inodeBitmap
               /\ after.dataBitmap = img.dataBitmap
               /\ after.inodeTable = img.inodeTable
               /\ after.dataRegion = img.dataRegion
BY DEF Effect, PutFront, Images
LEMMA EffectOfFsync ==
    ASSUME NEW img
    PROVE  Effect(img, Fsync) = img
BY DEF Effect, Fsync

(* A block may be marked at any time.                                      *)
LEMMA DataBitKeepsOrder ==
    ASSUME NEW img, InOrder(img), NEW b \in DataBlocks
    PROVE  InOrder(Effect(img, DataBit(b)))
<1> DEFINE after == Effect(img, DataBit(b))
<1>1. PICK blocks : img \in Images(blocks)
  BY DEF InOrder
<1>2. /\ after \in Images(blocks)
      /\ after.inodeBitmap = img.inodeBitmap
      /\ after.dataBitmap = img.dataBitmap \cup {b}
      /\ after.inodeTable = img.inodeTable
      /\ after.dataRegion = img.dataRegion
  BY <1>1, EffectOfDataBit
<1> HIDE DEF after
<1>3. LiveDirs(after) = LiveDirs(img)
  BY <1>2 DEF LiveDirs
<1>4. PointersOK(after)
  BY <1>2 DEF InOrder, PointersOK
<1>5. DirsOK(after)
  BY <1>2, <1>3 DEF InOrder, DirsOK, DirBlockOf
<1> QED
  BY <1>2, <1>4, <1>5 DEF InOrder, after

(* The bit of the least free inode makes it a directory without a block,   *)
(* as mkfs left it.                                                        *)
LEMMA InodeBitKeepsOrder ==
    ASSUME NEW img, InOrder(img), NEW i \in Inums,
           i \notin img.inodeBitmap, 0 .. i - 1 \subseteq img.inodeBitmap
    PROVE  InOrder(Effect(img, InodeBit(i)))
<1> DEFINE after == Effect(img, InodeBit(i))
<1>1. PICK blocks : img \in Images(blocks)
  BY DEF InOrder
<1>2. /\ after \in Images(blocks)
      /\ after.inodeBitmap = img.inodeBitmap \cup {i}
      /\ after.dataBitmap = img.dataBitmap
      /\ after.inodeTable = img.inodeTable
      /\ after.dataRegion = img.dataRegion
  BY <1>1, EffectOfInodeBit
<1> HIDE DEF after
<1>3. /\ LiveDirs(img) \subseteq LiveDirs(after)
      /\ \A d \in LiveDirs(after) : d \in LiveDirs(img) \/ d = i
  BY <1>2 DEF LiveDirs
<1>4. PointersOK(after)
  BY <1>2 DEF InOrder, PointersOK
<1>5. \A k \in Ptrs : Hole(img.inodeTable[i].direct[k])
  BY DEF InOrder, PointersOK
<1>6. DirsOK(after)
  <2>1. ASSUME NEW d \in LiveDirs(img)
        PROVE  /\ \A k \in Ptrs \ {0} : Hole(after.inodeTable[d].direct[k])
               /\ ~Hole(after.inodeTable[d].direct[0]) =>
                    DirBlockOf(after, d, after.dataRegion[Rel(after.inodeTable[d].direct[0])])
    BY <1>2, <1>3 DEF InOrder, DirsOK, DirBlockOf
  <2>2. \A k \in Ptrs : Hole(after.inodeTable[i].direct[k])
    BY <1>2, <1>5
  <2> QED
    BY <1>3, <2>1, <2>2, Sizes DEF DirsOK
<1>7. \A x \in after.inodeBitmap : 0 .. x \subseteq after.inodeBitmap
  <2>1. \A y \in 0 .. i : y = i \/ y \in 0 .. i - 1
    BY Sizes
  <2> QED
    BY <1>2, <2>1 DEF InOrder
<1> QED
  BY <1>2, <1>4, <1>6, <1>7 DEF InOrder, after

(* A write into a marked block that is no directory's, or of one entry     *)
(* behind ".." into one that is.                                           *)
LEMMA PutCellsKeepsOrder ==
    ASSUME NEW img, InOrder(img), NEW b \in img.dataBitmap, NEW c,
           \/ \A d \in LiveDirs(img) : img.inodeTable[d].direct[0] # b + DataRegionAddr
           \/ \E j \in Slots \ {0, 1} : DOMAIN c = {j} /\ c[j].inum \in img.inodeBitmap
    PROVE  InOrder(Effect(img, PutCells(b, c)))
<1> DEFINE after == Effect(img, PutCells(b, c))
           block == Over(c, img.dataRegion[b])
<1>1. PICK blocks : img \in Images(blocks)
  BY DEF InOrder
<1>2. b \in DataBlocks
  BY <1>1 DEF Images
<1>3. /\ after \in Images(blocks \cup {block})
      /\ after.inodeBitmap = img.inodeBitmap
      /\ after.dataBitmap = img.dataBitmap
      /\ after.inodeTable = img.inodeTable
      /\ after.dataRegion = [img.dataRegion EXCEPT ![b] = block]
  BY <1>1, <1>2, EffectOfPutCells
<1>4. \A a \in DataBlocks : after.dataRegion[a] = IF a = b THEN block ELSE img.dataRegion[a]
  BY <1>1, <1>3 DEF Images
<1>5. /\ DOMAIN block = DOMAIN img.dataRegion[b] \cup DOMAIN c
      /\ \A j \in DOMAIN block : block[j] = IF j \in DOMAIN c THEN c[j]
                                            ELSE img.dataRegion[b][j]
  BY DEF Over
<1> HIDE DEF after, block
<1>6. LiveDirs(after) = LiveDirs(img) /\ LiveDirs(img) \subseteq Inums
  BY <1>1, <1>3 DEF LiveDirs, Images
<1>7. PointersOK(after)
  BY <1>3 DEF InOrder, PointersOK
<1>8. ASSUME NEW d \in LiveDirs(img), ~Hole(img.inodeTable[d].direct[0])
      PROVE  DirBlockOf(after, d, after.dataRegion[Rel(img.inodeTable[d].direct[0])])
  <2> DEFINE a == Rel(img.inodeTable[d].direct[0])
  <2>1. a \in DataBlocks /\ img.inodeTable[d].direct[0] = a + DataRegionAddr
    <3>1. a \in img.dataBitmap
      BY <1>6, <1>8, Sizes DEF InOrder, PointersOK
    <3>2. img.inodeTable[d] \in Inodes
      BY <1>1, <1>6 DEF Images
    <3>3. img.inodeTable[d].direct[0] \in Int
      BY <3>2, Sizes DEF Inodes
    <3> QED
      BY <1>1, <3>1, <3>3, Sizes DEF Images, Rel, Server!Rel
  <2>2. DirBlockOf(img, d, img.dataRegion[a])
    BY <1>8 DEF InOrder, DirsOK
  <2> HIDE DEF a
  <2>3. ASSUME a # b PROVE DirBlockOf(after, d, after.dataRegion[a])
    BY <1>3, <1>4, <1>6, <2>1, <2>2, <2>3 DEF DirBlockOf
  <2>4. ASSUME a = b PROVE DirBlockOf(after, d, after.dataRegion[a])
    <3>1. PICK j \in Slots \ {0, 1} : DOMAIN c = {j} /\ c[j].inum \in img.inodeBitmap
      BY <2>1, <2>4
    <3>2. \A l \in Slots : block[l] = IF l = j THEN c[j] ELSE img.dataRegion[b][l]
      BY <1>2, <1>5, <3>1 DEF InOrder
    <3>3. DirBlockOf(img, d, block)
      BY <2>2, <2>4, <3>1, <3>2, Sizes DEF DirBlockOf
    <3> QED
      BY <1>3, <1>4, <1>6, <2>1, <2>4, <3>3 DEF DirBlockOf
  <2> QED
    BY <2>3, <2>4 DEF a
<1>9. DirsOK(after)
  BY <1>3, <1>6, <1>8 DEF InOrder, DirsOK
<1>10. \A a \in DataBlocks : Slots \subseteq DOMAIN after.dataRegion[a]
  BY <1>2, <1>4, <1>5 DEF InOrder
<1>11. \A a \in DataBlocks \ after.dataBitmap, j \in Slots : after.dataRegion[a][j].inum = 0
  BY <1>3, <1>4 DEF InOrder
<1> QED
  BY <1>3, <1>7, <1>9, <1>10, <1>11 DEF InOrder, after

(* In front of the data region InOrder sees nothing spoilt.                *)
LEMMA PutFrontKeepsOrder ==
    ASSUME NEW img, InOrder(img), NEW addr
    PROVE  InOrder(Effect(img, PutFront(addr)))
<1> DEFINE after == Effect(img, PutFront(addr))
<1>1. PICK blocks : img \in Images(blocks)
  BY DEF InOrder
<1>2. /\ after \in Images(blocks)
      /\ after.inodeBitmap = img.inodeBitmap
      /\ after.dataBitmap = img.dataBitmap
      /\ after.inodeTable = img.inodeTable
      /\ after.dataRegion = img.dataRegion
  BY <1>1, EffectOfPutFront
<1> HIDE DEF after
<1>3. LiveDirs(after) = LiveDirs(img)
  BY <1>2 DEF LiveDirs
<1>4. PointersOK(after)
  BY <1>2 DEF InOrder, PointersOK
<1>5. DirsOK(after)
  BY <1>2, <1>3 DEF InOrder, DirsOK, DirBlockOf
<1> QED
  BY <1>2, <1>4, <1>5 DEF InOrder, after
(* A block that no inode points to.                                        *)
Unowned(img, addr) == \A j \in Inums, l \in Ptrs : img.inodeTable[j].direct[l] # addr

(* A pointer that an inode may be given: none, or to a marked block that   *)
(* no inode has.                                                           *)
Fresh(img, addr) == Rel(addr) \in img.dataBitmap /\ Unowned(img, addr)

(* run_cret's inode, the newest one, which has no block yet: it may get    *)
(* one, which is in order already if it is a directory's.                  *)
LEMMA NewInodeKeepsOrder ==
    ASSUME NEW img, InOrder(img), NEW i \in img.inodeBitmap, i # 0,
           \A x \in img.inodeBitmap : x <= i,
           \A k \in Ptrs : Hole(img.inodeTable[i].direct[k]),
           NEW inode \in Inodes, \A k \in Ptrs \ {0} : Hole(inode.direct[k]),
           ~Hole(inode.direct[0]) =>
             /\ Fresh(img, inode.direct[0])
             /\ inode.type = Server!MFS_DIRECTORY =>
                  LET block == img.dataRegion[Rel(inode.direct[0])]
                  IN  DirBlockOf(img, i, block) /\ block[1].inum # i
    PROVE  InOrder(Effect(img, PutInode(i, inode)))
<1> DEFINE after == Effect(img, PutInode(i, inode))
<1>1. PICK blocks : img \in Images(blocks)
  BY DEF InOrder
<1>2. i \in Inums
  BY <1>1 DEF Images
<1>3. /\ after \in Images(blocks)
      /\ after.inodeBitmap = img.inodeBitmap
      /\ after.dataBitmap = img.dataBitmap
      /\ after.inodeTable = [img.inodeTable EXCEPT ![i] = inode]
      /\ after.dataRegion = img.dataRegion
  BY <1>1, <1>2, EffectOfPutInode
<1>4. \A j \in Inums : after.inodeTable[j] = IF j = i THEN inode ELSE img.inodeTable[j]
  BY <1>1, <1>3 DEF Images
<1> HIDE DEF after
<1>5. /\ LiveDirs(img) \subseteq Inums
      /\ \A d \in LiveDirs(img) : d # i => d \in LiveDirs(after)
      /\ \A d \in LiveDirs(after) : d \in LiveDirs(img) \/ d = i
      /\ i \in LiveDirs(after) => inode.type = Server!MFS_DIRECTORY
  BY <1>1, <1>3, <1>4 DEF LiveDirs, Images
<1>6. PointersOK(after)
  <2>1. ASSUME NEW j \in Inums, NEW k \in Ptrs, ~Hole(after.inodeTable[j].direct[k])
        PROVE  /\ j \in after.inodeBitmap
               /\ Rel(after.inodeTable[j].direct[k]) \in after.dataBitmap
    <3>1. CASE j # i
      BY <1>3, <1>4, <2>1, <3>1 DEF InOrder, PointersOK
    <3>2. CASE j = i
      BY <1>3, <1>4, <2>1, <3>2 DEF Fresh
    <3> QED
      BY <3>1, <3>2
  <2>2. ASSUME NEW j \in Inums, NEW l \in Inums, NEW k \in Ptrs, NEW h \in Ptrs,
               ~Hole(after.inodeTable[j].direct[k]),
               after.inodeTable[j].direct[k] = after.inodeTable[l].direct[h]
        PROVE  j = l /\ k = h
    <3>1. CASE j # i /\ l # i
      BY <1>4, <2>2, <3>1 DEF InOrder, PointersOK
    <3>2. CASE j = i /\ l # i
      BY <1>4, <2>2, <3>2 DEF Fresh, Unowned
    <3>3. CASE j # i /\ l = i
      BY <1>4, <2>2, <3>3 DEF Fresh, Unowned
    <3>4. CASE j = i /\ l = i
      BY <1>4, <2>2, <3>4
    <3> QED
      BY <3>1, <3>2, <3>3, <3>4
  <2> QED
    BY <2>1, <2>2 DEF PointersOK
<1>7. ASSUME NEW d \in LiveDirs(img), d # i
      PROVE  /\ \A k \in Ptrs \ {0} : Hole(after.inodeTable[d].direct[k])
             /\ ~Hole(after.inodeTable[d].direct[0]) =>
                  DirBlockOf(after, d, after.dataRegion[Rel(after.inodeTable[d].direct[0])])
  <2> DEFINE block == img.dataRegion[Rel(img.inodeTable[d].direct[0])]
  <2>1. after.inodeTable[d] = img.inodeTable[d] /\ d \in img.inodeBitmap
    BY <1>4, <1>5, <1>7 DEF LiveDirs
  <2>2. /\ \A k \in Ptrs \ {0} : Hole(img.inodeTable[d].direct[k])
        /\ ~Hole(img.inodeTable[d].direct[0]) => DirBlockOf(img, d, block)
    BY DEF InOrder, DirsOK
  <2> HIDE DEF block
  <2>3. ASSUME DirBlockOf(img, d, block) PROVE DirBlockOf(after, d, block)
    <3>1. block[1].inum # i
      <4>1. d <= i /\ d \in Nat /\ i \in Nat /\ block[1].inum \in Nat
        BY <1>2, <1>5, <2>1, <2>3, Sizes DEF DirBlockOf
      <4> QED
        BY <2>3, <4>1 DEF DirBlockOf
    <3> QED
      BY <1>3, <1>5, <2>3, <3>1 DEF DirBlockOf
  <2> QED
    BY <1>3, <2>1, <2>2, <2>3 DEF block
<1>8. ASSUME inode.type = Server!MFS_DIRECTORY
      PROVE  ~Hole(after.inodeTable[i].direct[0]) =>
                  DirBlockOf(after, i, after.dataRegion[Rel(after.inodeTable[i].direct[0])])
  <2> DEFINE block == img.dataRegion[Rel(inode.direct[0])]
  <2>1. ASSUME DirBlockOf(img, i, block), block[1].inum # i
        PROVE  DirBlockOf(after, i, block)
    BY <1>3, <1>5, <2>1 DEF DirBlockOf
  <2> QED
    BY <1>2, <1>3, <1>4, <1>8, <2>1
<1>9. DirsOK(after)
  BY <1>2, <1>4, <1>5, <1>7, <1>8 DEF DirsOK
<1> QED
  BY <1>3, <1>6, <1>9 DEF InOrder, after

(* run_write's inode: a file's, with blocks that no other inode has.       *)
LEMMA WrittenInodeKeepsOrder ==
    ASSUME NEW img, InOrder(img), NEW i \in img.inodeBitmap,
           img.inodeTable[i].type # Server!MFS_DIRECTORY,
           NEW inode \in Inodes, inode.type = img.inodeTable[i].type,
           \A k \in Ptrs : \/ inode.direct[k] = img.inodeTable[i].direct[k]
                           \/ Fresh(img, inode.direct[k]),
           \A k, l \in Ptrs : ~Hole(inode.direct[k]) /\ inode.direct[k] = inode.direct[l]
                                => k = l
    PROVE  InOrder(Effect(img, PutInode(i, inode)))
<1> DEFINE after == Effect(img, PutInode(i, inode))
<1>1. PICK blocks : img \in Images(blocks)
  BY DEF InOrder
<1>2. i \in Inums
  BY <1>1 DEF Images
<1>3. /\ after \in Images(blocks)
      /\ after.inodeBitmap = img.inodeBitmap
      /\ after.dataBitmap = img.dataBitmap
      /\ after.inodeTable = [img.inodeTable EXCEPT ![i] = inode]
      /\ after.dataRegion = img.dataRegion
  BY <1>1, <1>2, EffectOfPutInode
<1>4. \A j \in Inums : after.inodeTable[j] = IF j = i THEN inode ELSE img.inodeTable[j]
  BY <1>1, <1>3 DEF Images
<1> HIDE DEF after
<1>5. LiveDirs(after) = LiveDirs(img) /\ LiveDirs(img) \subseteq Inums \ {i}
  BY <1>1, <1>3, <1>4 DEF LiveDirs, Images
<1>6. PointersOK(after)
  <2>1. ASSUME NEW j \in Inums, NEW k \in Ptrs, ~Hole(after.inodeTable[j].direct[k])
        PROVE  /\ j \in after.inodeBitmap
               /\ Rel(after.inodeTable[j].direct[k]) \in after.dataBitmap
    <3>1. CASE j # i
      BY <1>3, <1>4, <2>1, <3>1 DEF InOrder, PointersOK
    <3>2. CASE j = i
      BY <1>2, <1>3, <1>4, <2>1, <3>2 DEF Fresh, InOrder, PointersOK
    <3> QED
      BY <3>1, <3>2
  <2>2. ASSUME NEW j \in Inums, NEW l \in Inums, NEW k \in Ptrs, NEW h \in Ptrs,
               ~Hole(after.inodeTable[j].direct[k]),
               after.inodeTable[j].direct[k] = after.inodeTable[l].direct[h]
        PROVE  j = l /\ k = h
    <3>1. CASE j # i /\ l # i
      BY <1>4, <2>2, <3>1 DEF InOrder, PointersOK
    <3>2. CASE j = i /\ l # i
      BY <1>2, <1>4, <2>2, <3>2 DEF Fresh, Unowned, InOrder, PointersOK
    <3>3. CASE j # i /\ l = i
      BY <1>2, <1>4, <2>2, <3>3 DEF Fresh, Unowned, InOrder, PointersOK
    <3>4. CASE j = i /\ l = i
      BY <1>4, <2>2, <3>4
    <3> QED
      BY <3>1, <3>2, <3>3, <3>4
  <2> QED
    BY <2>1, <2>2 DEF PointersOK
<1>7. DirsOK(after)
  <2>1. \A d \in LiveDirs(img) : after.inodeTable[d] = img.inodeTable[d]
    BY <1>4, <1>5
  <2>2. \A d, block : DirBlockOf(img, d, block) => DirBlockOf(after, d, block)
    BY <1>3, <1>5 DEF DirBlockOf
  <2> QED
    BY <1>3, <1>5, <2>1, <2>2 DEF InOrder, DirsOK
<1> QED
  BY <1>3, <1>6, <1>7 DEF InOrder, after
-----------------------------------------------------------------------------
(***************************************************************************)
(* Calls one after the other: After's fold is the last of the images that  *)
(* the calls make one from another.                                        *)
(***************************************************************************)
LEMMA LeastIsMember ==
    ASSUME NEW S \in SUBSET Nat, S # {}
    PROVE  Min(S) \in S /\ \A y \in S : Min(S) <= y
<1>1. PICK x \in S : \A y \in S : ~(<<y, x>> \in OpToRel(<, Nat))
  BY NatLessThanWellFounded, WFMin
<1>2. \A y \in S : <<y, x>> \in OpToRel(<, Nat) <=> y < x
  BY Zenon DEF OpToRel
<1>3. \A y \in S : ~(y < x)
  BY <1>1, <1>2, Zenon
<1>4. \A y \in S : x <= y
  BY <1>3
<1> QED
  BY <1>4 DEF Min

LEMMA GreatestIs ==
    ASSUME NEW x \in Nat, NEW s \in SUBSET (0 .. x), x \in s
    PROVE  Max(s) = x
<1>1. \A y \in s : y \in Int /\ y <= x
  OBVIOUS
<1>2. x \in s /\ \A y \in s : x >= y
  BY <1>1
<1>3. Max(s) \in s /\ \A y \in s : Max(s) >= y
  BY <1>2 DEF Max
<1>4. Max(s) >= x /\ Max(s) <= x /\ Max(s) \in Int
  BY <1>1, <1>3
<1> QED
  BY <1>4

(* The table of a fold over the first n calls.                             *)
FoldTable(g, img, calls, n) ==
    g = [s \in SUBSET (1 .. n) |->
           IF s = {} THEN img ELSE Effect(g[s \ {Max(s)}], calls[Max(s)])]

(* One more call: the sets without it keep their images.                   *)
LEMMA FoldTableExists ==
    ASSUME NEW img, NEW calls, NEW n \in Nat
    PROVE  \E g : FoldTable(g, img, calls, n)
<1> DEFINE Some(l) == \E g : FoldTable(g, img, calls, l)
           none    == {l \in Nat : ~Some(l)}
<1>1. Some(0)
  <2> DEFINE g == [s \in SUBSET (1 .. 0) |-> img]
  <2>1. \A s \in SUBSET (1 .. 0) : s = {}
    OBVIOUS
  <2>2. FoldTable(g, img, calls, 0)
    BY <2>1 DEF FoldTable
  <2> QED
    BY <2>2
<1>2. ASSUME NEW l \in Nat, Some(l) PROVE Some(l + 1)
  <2>1. PICK less : FoldTable(less, img, calls, l)
    BY <1>2
  <2> DEFINE g == [s \in SUBSET (1 .. l + 1) |->
                     IF l + 1 \in s THEN Effect(less[s \ {l + 1}], calls[l + 1]) ELSE less[s]]
  <2>2. \A s \in SUBSET (1 .. l + 1) : l + 1 \in s => Max(s) = l + 1
    <3> SUFFICES ASSUME NEW s \in SUBSET (1 .. l + 1), l + 1 \in s PROVE Max(s) = l + 1
      OBVIOUS
    <3>1. s \in SUBSET (0 .. l + 1) /\ l + 1 \in Nat
      OBVIOUS
    <3> QED
      BY <3>1, GreatestIs
  <2>3. \A s \in SUBSET (1 .. l + 1) : s \ {l + 1} \in SUBSET (1 .. l)
    OBVIOUS
  <2>4. \A s \in SUBSET (1 .. l) : l + 1 \notin s /\ s \in SUBSET (1 .. l + 1) /\ g[s] = less[s]
    OBVIOUS
  <2>5. ASSUME NEW s \in SUBSET (1 .. l + 1)
        PROVE  g[s] = IF s = {} THEN img ELSE Effect(g[s \ {Max(s)}], calls[Max(s)])
    <3>1. CASE l + 1 \in s
      <4>1. g[s] = Effect(less[s \ {l + 1}], calls[l + 1])
        BY <3>1
      <4>2. g[s \ {l + 1}] = less[s \ {l + 1}]
        BY <2>3, <2>4
      <4> HIDE DEF g
      <4> QED
        BY <2>2, <3>1, <4>1, <4>2
    <3>2. CASE l + 1 \notin s
      <4>1. s \in SUBSET (1 .. l) /\ s \ {Max(s)} \in SUBSET (1 .. l)
        BY <2>3, <3>2
      <4>2. g[s] = less[s] /\ g[s \ {Max(s)}] = less[s \ {Max(s)}]
        BY <2>4, <4>1
      <4>3. less[s] = IF s = {} THEN img ELSE Effect(less[s \ {Max(s)}], calls[Max(s)])
        BY <2>1, <4>1 DEF FoldTable
      <4> HIDE DEF g
      <4> QED
        BY <4>2, <4>3
    <3> QED
      BY <3>1, <3>2
  <2>6. FoldTable(g, img, calls, l + 1)
    <3> DEFINE next == [s \in SUBSET (1 .. l + 1) |->
                          IF s = {} THEN img ELSE Effect(g[s \ {Max(s)}], calls[Max(s)])]
    <3>1. \A s \in SUBSET (1 .. l + 1) : g[s] = next[s]
      BY <2>5
    <3>2. g = next
      BY <3>1
    <3> QED
      BY <3>2 DEF FoldTable
  <2> QED
    BY <2>6
<1>3. none = {}
  <2> SUFFICES ASSUME none # {} PROVE FALSE
    OBVIOUS
  <2> DEFINE x == Min(none)
  <2>1. x \in none /\ \A y \in none : x <= y
    BY LeastIsMember
  <2> HIDE DEF Some, x
  <2>2. x # 0
    BY <1>1, <2>1
  <2>3. x - 1 \in Nat /\ x - 1 \notin none
    BY <2>1, <2>2
  <2>4. Some(x - 1 + 1) /\ x - 1 + 1 = x
    BY <1>2, <2>1, <2>3
  <2> QED
    BY <2>1, <2>4
<1> QED
  BY <1>3

(* imgs[l]: the image after the first l calls.                             *)
Chain(imgs, img, calls) ==
    imgs[0] = img /\ \A l \in 1 .. Len(calls) : imgs[l] = Effect(imgs[l - 1], calls[l])

LEMMA AfterIsLast ==
    ASSUME NEW S, NEW calls \in Seq(S), NEW img, NEW imgs, Chain(imgs, img, calls)
    PROVE  After(img, calls) = imgs[Len(calls)]
<1> DEFINE n == Len(calls)
           g == CHOOSE h : FoldTable(h, img, calls, n)
           wrong == {l \in Nat : l <= n /\ g[1 .. l] # imgs[l]}
<1>1. n \in Nat /\ DOMAIN calls = 1 .. n
  OBVIOUS
<1>2. After(img, calls) = g[1 .. n]
  BY <1>1 DEF After, FoldLeft, MapThenFoldSet, FoldTable
<1> HIDE DEF n
<1>3. FoldTable(g, img, calls, n)
  BY <1>1, FoldTableExists
<1> HIDE DEF g
<1>4. ASSUME NEW l \in Nat, l + 1 <= n, g[1 .. l] = imgs[l]
      PROVE  g[1 .. l + 1] = imgs[l + 1]
  <2> DEFINE s == 1 .. l + 1
  <2>1. s \in SUBSET (1 .. n) /\ l + 1 \in s /\ s \ {l + 1} = 1 .. l
    <3>1. \A x \in 1 .. l + 1 : x \in 1 .. n
      BY <1>1, <1>4
    <3>2. \A x : x \in 1 .. l + 1 /\ x # l + 1 <=> x \in 1 .. l
      OBVIOUS
    <3> QED
      BY <3>1, <3>2
  <2>2. Max(s) = l + 1
    <3>1. s \in SUBSET (0 .. l + 1) /\ l + 1 \in Nat
      OBVIOUS
    <3> QED
      BY <2>1, <3>1, GreatestIs
  <2> HIDE DEF s
  <2>3. g[s] = Effect(g[s \ {Max(s)}], calls[Max(s)])
    <3>1. s # {}
      BY <2>1
    <3> QED
      BY <1>3, <2>1, <3>1 DEF FoldTable
  <2>4. imgs[l + 1] = Effect(imgs[l], calls[l + 1])
    BY <1>1, <1>4 DEF Chain, n
  <2> QED
    BY <1>4, <2>1, <2>2, <2>3, <2>4 DEF s
<1>5. g[1 .. 0] = imgs[0]
  <2>1. 1 .. 0 = {} /\ {} \in SUBSET (1 .. n)
    OBVIOUS
  <2> QED
    BY <1>3, <2>1 DEF FoldTable, Chain
<1>6. wrong = {}
  <2> SUFFICES ASSUME wrong # {} PROVE FALSE
    OBVIOUS
  <2> DEFINE x == Min(wrong)
  <2>1. x \in wrong /\ \A y \in wrong : x <= y
    BY LeastIsMember
  <2> HIDE DEF x
  <2>2. x # 0
    BY <1>5, <2>1
  <2>3. x - 1 \in Nat /\ x - 1 \notin wrong /\ x - 1 <= n /\ x - 1 + 1 = x
    BY <1>1, <2>1, <2>2
  <2>4. g[1 .. x - 1] = imgs[x - 1]
    BY <2>3
  <2>5. g[1 .. x] = imgs[x]
    BY <1>4, <2>1, <2>3, <2>4
  <2> QED
    BY <2>1, <2>5
<1>7. n \notin wrong /\ n <= n
  BY <1>1, <1>6
<1> QED
  BY <1>1, <1>2, <1>7 DEF n

LEMMA ChainExists ==
    ASSUME NEW img, NEW S, NEW calls \in Seq(S)
    PROVE  \E imgs : Chain(imgs, img, calls)
<1> DEFINE Made(imgs, n) == imgs[0] = img /\ \A l \in 1 .. n : imgs[l] = Effect(imgs[l - 1], calls[l])
           Some(n) == \E imgs : Made(imgs, n)
           none    == {n \in Nat : ~Some(n)}
<1>1. Some(0)
  <2> DEFINE imgs == [l \in {0} |-> img]
  <2>1. imgs[0] = img
    OBVIOUS
  <2> HIDE DEF imgs
  <2>2. Made(imgs, 0)
    BY <2>1
  <2> QED
    BY <2>2
<1>2. ASSUME NEW n \in Nat, Some(n) PROVE Some(n + 1)
  <2>1. PICK less : Made(less, n)
    BY <1>2
  <2> DEFINE imgs == [l \in 0 .. n + 1 |->
                        IF l = n + 1 THEN Effect(less[n], calls[n + 1]) ELSE less[l]]
  <2>2. /\ imgs[n + 1] = Effect(less[n], calls[n + 1])
        /\ \A l \in 0 .. n : imgs[l] = less[l]
    OBVIOUS
  <2> HIDE DEF imgs
  <2>3. ASSUME NEW l \in 1 .. n + 1 PROVE imgs[l] = Effect(imgs[l - 1], calls[l])
    <3>1. CASE l = n + 1
      <4>1. n \in 0 .. n /\ l - 1 = n
        BY <3>1
      <4> QED
        BY <2>2, <3>1, <4>1
    <3>2. CASE l # n + 1
      <4>1. l \in 1 .. n /\ l \in 0 .. n /\ l - 1 \in 0 .. n
        BY <3>2
      <4>2. less[l] = Effect(less[l - 1], calls[l])
        BY <2>1, <4>1
      <4> QED
        BY <2>2, <4>1, <4>2
    <3> QED
      BY <3>1, <3>2
  <2>4. imgs[0] = img
    BY <2>1, <2>2
  <2>5. Made(imgs, n + 1)
    BY <2>3, <2>4
  <2> HIDE DEF Made
  <2> QED
    BY <2>5
<1>3. none = {}
  <2> SUFFICES ASSUME none # {} PROVE FALSE
    OBVIOUS
  <2> DEFINE x == Min(none)
  <2>1. x \in none /\ \A y \in none : x <= y
    BY LeastIsMember
  <2> HIDE DEF Some, x
  <2>2. x # 0
    BY <1>1, <2>1
  <2>3. x - 1 \in Nat /\ x - 1 \notin none
    BY <2>1, <2>2
  <2>4. Some(x - 1 + 1) /\ x - 1 + 1 = x
    BY <1>2, <2>1, <2>3
  <2> QED
    BY <2>1, <2>4
<1>4. Some(Len(calls))
  <2> HIDE DEF Some
  <2> QED
    BY <1>3
<1> QED
  BY <1>4 DEF Chain

(* What is done first is done first.                                       *)
LEMMA AfterMore ==
    ASSUME NEW img, NEW S, NEW s \in Seq(S), NEW T, NEW t \in Seq(T)
    PROVE  After(img, s \o t) = After(After(img, s), t)
<1> DEFINE all == s \o t
<1>1. /\ s \in Seq(S \cup T) /\ t \in Seq(S \cup T) /\ Len(s) \in Nat /\ Len(t) \in Nat
  OBVIOUS
<1>2. /\ all \in Seq(S \cup T) /\ Len(all) = Len(s) + Len(t)
      /\ \A l \in 1 .. Len(s) : all[l] = s[l]
      /\ \A l \in 1 .. Len(t) : all[Len(s) + l] = t[l]
  BY <1>1, ConcatProperties
<1> HIDE DEF all
<1>3. PICK imgs : Chain(imgs, img, all)
  BY <1>1, <1>2, ChainExists
<1>4. After(img, all) = imgs[Len(all)]
  BY <1>2, <1>3, AfterIsLast
<1>5. After(img, s) = imgs[Len(s)]
  <2>1. \A l \in 1 .. Len(s) : l \in 1 .. Len(all)
    BY <1>1, <1>2
  <2>2. Chain(imgs, img, s)
    BY <1>2, <1>3, <2>1 DEF Chain
  <2> QED
    BY <2>2, AfterIsLast
<1> DEFINE rest == [l \in 0 .. Len(t) |-> imgs[Len(s) + l]]
<1>6. \A l \in 0 .. Len(t) : rest[l] = imgs[Len(s) + l]
  OBVIOUS
<1> HIDE DEF rest
<1>7. Chain(rest, After(img, s), t)
  <2>1. rest[0] = After(img, s)
    BY <1>1, <1>5, <1>6
  <2>2. ASSUME NEW l \in 1 .. Len(t) PROVE rest[l] = Effect(rest[l - 1], t[l])
    <3>1. /\ l \in 0 .. Len(t) /\ l - 1 \in 0 .. Len(t)
          /\ Len(s) + l \in 1 .. Len(all) /\ Len(s) + (l - 1) = Len(s) + l - 1
      BY <1>1, <1>2
    <3>2. imgs[Len(s) + l] = Effect(imgs[Len(s) + l - 1], all[Len(s) + l])
      BY <1>3, <3>1 DEF Chain
    <3>3. all[Len(s) + l] = t[l]
      BY <1>2
    <3> QED
      BY <1>6, <3>1, <3>2, <3>3
  <2> QED
    BY <2>1, <2>2 DEF Chain
<1>8. After(After(img, s), t) = rest[Len(t)]
  BY <1>7, AfterIsLast
<1>9. rest[Len(t)] = imgs[Len(all)]
  BY <1>1, <1>2, <1>6
<1> QED
  BY <1>4, <1>8, <1>9 DEF all

LEMMA AfterNone == \A img : After(img, <<>>) = img
<1> SUFFICES ASSUME NEW img PROVE After(img, <<>>) = img
  OBVIOUS
<1> DEFINE imgs == [l \in {0} |-> img]
<1>1. <<>> \in Seq({}) /\ Len(<<>>) = 0
  OBVIOUS
<1>2. imgs[0] = img
  OBVIOUS
<1> HIDE DEF imgs
<1>3. Chain(imgs, img, <<>>)
  BY <1>1, <1>2 DEF Chain
<1> QED
  BY <1>1, <1>2, <1>3, AfterIsLast

LEMMA AfterOne == \A img, call : After(img, <<call>>) = Effect(img, call)
<1> SUFFICES ASSUME NEW img, NEW call PROVE After(img, <<call>>) = Effect(img, call)
  OBVIOUS
<1> DEFINE imgs == [l \in {0, 1} |-> IF l = 0 THEN img ELSE Effect(img, call)]
<1>1. <<call>> \in Seq({call}) /\ Len(<<call>>) = 1 /\ <<call>>[1] = call
  OBVIOUS
<1>2. imgs[0] = img /\ imgs[1] = Effect(img, call)
  OBVIOUS
<1> HIDE DEF imgs
<1>3. Chain(imgs, img, <<call>>)
  BY <1>1, <1>2 DEF Chain
<1> QED
  BY <1>1, <1>2, <1>3, AfterIsLast

LEMMA AfterFirst ==
    ASSUME NEW img, NEW S, NEW s \in Seq(S), s # <<>>
    PROVE  After(img, s) = After(Effect(img, Head(s)), Tail(s))
<1> DEFINE one  == <<Head(s)>>
           rest == Tail(s)
<1>1. s = one \o rest /\ Head(s) \in S /\ rest \in Seq(S)
  OBVIOUS
<1>2. one \in Seq(S)
  BY <1>1
<1>3. After(img, one) = Effect(img, Head(s))
  BY AfterOne
<1> HIDE DEF one, rest
<1>4. After(img, one \o rest) = After(After(img, one), rest)
  BY <1>1, <1>2, AfterMore
<1> QED
  BY <1>1, <1>3, <1>4 DEF rest
-----------------------------------------------------------------------------
(***************************************************************************)
(* Calls one after the other: the order they leave the image in.           *)
(***************************************************************************)

(* Nothing is asked of an image once its last data block is taken.         *)
Allowed(img) == InOrder(img) \/ Full(img)

(* Made from img on, the calls leave an allowed image after each one, and  *)
(* last in the end, unless they are followed only to a full image.         *)
Guarded(img, calls, last) ==
    /\ \E S : calls \in Seq(S)
    /\ \E n, imgs :
         /\ n \in 0 .. Len(calls) /\ imgs[0] = img
         /\ \A l \in 1 .. n : imgs[l] = Effect(imgs[l - 1], calls[l])
         /\ \A l \in 0 .. n : Allowed(imgs[l])
         /\ \/ n = Len(calls) /\ imgs[n] = last
            \/ Full(imgs[n])

LEMMA NoCalls ==
    ASSUME NEW img, Allowed(img)
    PROVE  Guarded(img, <<>>, img)
<1> DEFINE imgs == [l \in {0} |-> img]
<1>1. <<>> \in Seq({}) /\ Len(<<>>) = 0
  OBVIOUS
<1>2. imgs[0] = img
  OBVIOUS
<1> HIDE DEF imgs
<1>3. /\ \A l \in 1 .. 0 : imgs[l] = Effect(imgs[l - 1], <<>>[l])
      /\ \A l \in 0 .. 0 : Allowed(imgs[l])
  BY <1>2
<1> QED
  BY <1>1, <1>2, <1>3 DEF Guarded

LEMMA FullIsGuarded ==
    ASSUME NEW img, Full(img), NEW S, NEW calls \in Seq(S), NEW last
    PROVE  Guarded(img, calls, last)
<1> DEFINE imgs == [l \in {0} |-> img]
<1>1. 0 \in 0 .. Len(calls)
  OBVIOUS
<1>2. imgs[0] = img
  OBVIOUS
<1> HIDE DEF imgs
<1>3. /\ \A l \in 1 .. 0 : imgs[l] = Effect(imgs[l - 1], calls[l])
      /\ \A l \in 0 .. 0 : Allowed(imgs[l])
  BY <1>2 DEF Allowed
<1> QED
  BY <1>1, <1>2, <1>3 DEF Guarded

LEMMA OneCall ==
    ASSUME NEW img, NEW call, Allowed(img), Allowed(Effect(img, call))
    PROVE  Guarded(img, <<call>>, Effect(img, call))
<1> DEFINE imgs == [l \in {0, 1} |-> IF l = 0 THEN img ELSE Effect(img, call)]
<1>1. <<call>> \in Seq({call}) /\ Len(<<call>>) = 1 /\ <<call>>[1] = call
  OBVIOUS
<1>2. imgs[0] = img /\ imgs[1] = Effect(img, call)
  OBVIOUS
<1> HIDE DEF imgs
<1>3. /\ \A l \in 1 .. 1 : imgs[l] = Effect(imgs[l - 1], <<call>>[l])
      /\ \A l \in 0 .. 1 : Allowed(imgs[l])
  BY <1>1, <1>2
<1>4. 1 \in 0 .. Len(<<call>>)
  BY <1>1
<1> DEFINE calls == <<call>>
<1>5. /\ calls \in Seq({call}) /\ 1 \in 0 .. Len(calls) /\ Len(calls) = 1
      /\ \A l \in 1 .. 1 : imgs[l] = Effect(imgs[l - 1], calls[l])
  BY <1>1, <1>3, <1>4
<1> HIDE DEF calls
<1>6. Guarded(img, calls, Effect(img, call))
  BY <1>2, <1>3, <1>5 DEF Guarded
<1> QED
  BY <1>6 DEF calls

LEMMA MoreCalls ==
    ASSUME NEW img, NEW s, NEW mid, Guarded(img, s, mid),
           NEW t, NEW last, Guarded(mid, t, last)
    PROVE  Guarded(img, s \o t, last)
<1>1. PICK S, T : s \in Seq(S) /\ t \in Seq(T)
  BY DEF Guarded
<1>2. s \in Seq(S \cup T) /\ t \in Seq(S \cup T)
  BY <1>1
<1>3. /\ s \o t \in Seq(S \cup T) /\ Len(s \o t) = Len(s) + Len(t)
      /\ \A l \in 1 .. Len(s) : (s \o t)[l] = s[l]
      /\ \A l \in 1 .. Len(t) : (s \o t)[Len(s) + l] = t[l]
      /\ Len(s) \in Nat /\ Len(t) \in Nat
  BY <1>2, ConcatProperties
<1>4. PICK n, imgs :
         /\ n \in 0 .. Len(s) /\ imgs[0] = img
         /\ \A l \in 1 .. n : imgs[l] = Effect(imgs[l - 1], s[l])
         /\ \A l \in 0 .. n : Allowed(imgs[l])
         /\ \/ n = Len(s) /\ imgs[n] = mid
            \/ Full(imgs[n])
  BY DEF Guarded
<1>5. CASE Full(imgs[n])
  <2>1. n \in 0 .. Len(s \o t) /\ \A l \in 1 .. n : (s \o t)[l] = s[l]
    BY <1>3, <1>4
  <2> QED
    BY <1>3, <1>4, <1>5, <2>1 DEF Guarded
<1>6. CASE n = Len(s) /\ imgs[n] = mid
  <2>1. PICK p, more :
           /\ p \in 0 .. Len(t) /\ more[0] = mid
           /\ \A l \in 1 .. p : more[l] = Effect(more[l - 1], t[l])
           /\ \A l \in 0 .. p : Allowed(more[l])
           /\ \/ p = Len(t) /\ more[p] = last
              \/ Full(more[p])
    BY DEF Guarded
  <2> DEFINE all == [l \in 0 .. n + p |-> IF l <= n THEN imgs[l] ELSE more[l - n]]
  <2>2. n \in Nat /\ p \in Nat /\ n + p \in 0 .. Len(s \o t)
    BY <1>3, <1>4, <2>1
  <2>3. /\ \A l \in 0 .. n : all[l] = imgs[l]
        /\ \A l \in 0 .. p : all[n + l] = more[l]
    <3>1. ASSUME NEW l \in 0 .. p PROVE all[n + l] = more[l]
      <4>1. CASE l = 0
        BY <1>6, <2>1, <2>2, <4>1
      <4>2. CASE l # 0
        <5>1. PICK h : h = n + l /\ h \in 0 .. n + p /\ ~(h <= n) /\ h - n = l
          BY <2>2, <4>2
        <5>2. all[h] = more[h - n]
          BY <5>1
        <5> QED
          BY <5>1, <5>2
      <4> QED
        BY <4>1, <4>2
    <3>2. \A l \in 0 .. n : all[l] = imgs[l]
      BY <2>2
    <3> QED
      BY <3>1, <3>2
  <2> HIDE DEF all
  <2>4. ASSUME NEW l \in 1 .. n + p
        PROVE  all[l] = Effect(all[l - 1], (s \o t)[l]) /\ Allowed(all[l])
    <3>1. CASE l <= n
      <4>1. l \in 1 .. n /\ l \in 0 .. n /\ l - 1 \in 0 .. n
        BY <2>2, <3>1
      <4> QED
        BY <1>3, <1>4, <1>6, <2>3, <4>1
    <3>2. CASE ~(l <= n)
      <4>1. PICK h \in 1 .. p : l = n + h /\ l - 1 = n + (h - 1) /\ h - 1 \in 0 .. p
        <5>1. l - n \in 1 .. p /\ l = n + (l - n) /\ l - 1 = n + ((l - n) - 1)
              /\ (l - n) - 1 \in 0 .. p
          BY <2>2, <3>2
        <5> QED
          BY <5>1
      <4>2. h \in 0 .. p /\ h \in 1 .. Len(t)
        BY <2>1, <2>2
      <4>3. all[l] = more[h] /\ all[l - 1] = more[h - 1]
        BY <2>3, <4>1, <4>2
      <4>4. (s \o t)[l] = t[h]
        BY <1>3, <1>6, <4>1, <4>2
      <4> QED
        BY <2>1, <4>1, <4>2, <4>3, <4>4
    <3> QED
      BY <3>1, <3>2
  <2>5. all[0] = img /\ Allowed(all[0])
    BY <1>4, <2>2, <2>3
  <2>6. \A l \in 0 .. n + p : Allowed(all[l])
    <3>1. \A l \in 0 .. n + p : l = 0 \/ l \in 1 .. n + p
      BY <2>2
    <3> QED
      BY <2>4, <2>5, <3>1
  <2>7. \/ n + p = Len(s \o t) /\ all[n + p] = last
        \/ Full(all[n + p])
    <3>1. p \in 0 .. p /\ all[n + p] = more[p]
      BY <2>2, <2>3
    <3>2. p = Len(t) => n + p = Len(s \o t)
      BY <1>3, <1>6
    <3> QED
      BY <2>1, <3>1, <3>2
  <2> QED
    BY <1>3, <2>2, <2>4, <2>5, <2>6, <2>7 DEF Guarded
<1> QED
  BY <1>4, <1>5, <1>6

(* The first of the calls is made.                                         *)
LEMMA FirstCall ==
    ASSUME NEW img, NEW calls, NEW last, Guarded(img, calls, last), calls # <<>>,
           ~Full(img), ~Full(Effect(img, Head(calls)))
    PROVE  Guarded(Effect(img, Head(calls)), Tail(calls), last)
<1>1. PICK S : calls \in Seq(S)
  BY DEF Guarded
<1>2. /\ Len(calls) \in Nat /\ Len(calls) # 0 /\ Head(calls) = calls[1]
      /\ Tail(calls) \in Seq(S) /\ Len(Tail(calls)) = Len(calls) - 1
      /\ \A l \in 1 .. Len(calls) - 1 : Tail(calls)[l] = calls[l + 1]
  BY <1>1, HeadTailProperties
<1>3. PICK n, imgs :
         /\ n \in 0 .. Len(calls) /\ imgs[0] = img
         /\ \A l \in 1 .. n : imgs[l] = Effect(imgs[l - 1], calls[l])
         /\ \A l \in 0 .. n : Allowed(imgs[l])
         /\ \/ n = Len(calls) /\ imgs[n] = last
            \/ Full(imgs[n])
  BY DEF Guarded
<1>4. n # 0 /\ n - 1 \in 0 .. Len(Tail(calls)) /\ n \in Nat
  <2>1. n # 0
    BY <1>2, <1>3
  <2>2. n \in 0 .. Len(calls)
    BY <1>3
  <2> QED
    BY ONLY <1>2, <2>1, <2>2
<1> DEFINE rest == [l \in 0 .. n - 1 |-> imgs[l + 1]]
<1>5. \A l \in 0 .. n - 1 : rest[l] = imgs[l + 1]
  OBVIOUS
<1> HIDE DEF rest
<1>6. rest[0] = Effect(img, Head(calls))
  <2>1. 0 \in 0 .. n - 1 /\ 1 \in 1 .. n /\ 0 + 1 = 1 /\ 1 - 1 = 0
    BY <1>4
  <2>2. rest[0] = imgs[1] /\ imgs[1] = Effect(imgs[0], calls[1])
    BY <1>3, <1>5, <2>1
  <2> QED
    BY <1>2, <1>3, <2>2
<1>7. ASSUME NEW l \in 1 .. n - 1
      PROVE  rest[l] = Effect(rest[l - 1], Tail(calls)[l])
  <2>1. /\ l \in 0 .. n - 1 /\ l - 1 \in 0 .. n - 1 /\ l + 1 \in 1 .. n
        /\ (l - 1) + 1 = l /\ (l + 1) - 1 = l /\ l \in 1 .. Len(calls) - 1
    BY <1>2, <1>4
  <2>2. rest[l] = imgs[l + 1] /\ rest[l - 1] = imgs[l]
    BY <1>5, <2>1
  <2>3. imgs[l + 1] = Effect(imgs[l], calls[l + 1])
    BY <1>3, <2>1
  <2> QED
    BY <1>2, <2>1, <2>2, <2>3
<1>8. \A l \in 0 .. n - 1 : Allowed(rest[l])
  <2>1. \A l \in 0 .. n - 1 : l + 1 \in 0 .. n
    BY <1>4
  <2> QED
    BY <1>3, <1>5, <2>1
<1>9. \/ n - 1 = Len(Tail(calls)) /\ rest[n - 1] = last
      \/ Full(rest[n - 1])
  <2>1. rest[n - 1] = imgs[n]
    BY <1>4, <1>5
  <2> QED
    BY <1>2, <1>3, <1>4, <2>1
<1> QED
  BY <1>2, <1>4, <1>6, <1>7, <1>8, <1>9 DEF Guarded

LEMMA GuardedIsAllowed ==
    ASSUME NEW img, NEW calls, NEW last, Guarded(img, calls, last)
    PROVE  Allowed(img)
<1>1. PICK n, imgs :
         n \in 0 .. Len(calls) /\ imgs[0] = img /\ \A l \in 0 .. n : Allowed(imgs[l])
  BY DEF Guarded
<1>2. PICK S : calls \in Seq(S)
  BY DEF Guarded
<1>3. 0 \in 0 .. n
  BY <1>1, <1>2
<1> QED
  BY <1>1, <1>3
-----------------------------------------------------------------------------
(***************************************************************************)
(* run_cret.                                                               *)
(***************************************************************************)
LEMMA DoneAtOnce == todo = <<>> => Done = cache
BY AfterNone DEF Done

LEMMA SameMin == \A S : Server!Min(S) = Min(S)
BY DEF Server!Min, Min

LEMMA AddressOfBlock ==
    ASSUME NEW b \in DataBlocks
    PROVE  /\ ~Hole(b + DataRegionAddr) /\ Rel(b + DataRegionAddr) = b
           /\ b + DataRegionAddr \in Int
BY Sizes DEF Hole, Rel, Server!Hole, Server!Rel

LEMMA PointerIsToBlock ==
    ASSUME NEW addr \in Int, Rel(addr) \in DataBlocks
    PROVE  addr = Rel(addr) + DataRegionAddr
BY Sizes DEF Rel, Server!Rel

(* What the allocator hands out while a block is left.                     *)
LEMMA TakenBlock ==
    ASSUME NEW bm \in SUBSET DataBlocks, NEW region, NEW uninit,
           NEW got \in TakeBlock(bm, region, uninit)
    PROVE  /\ bm # DataBlocks =>
                /\ got.num \in DataBlocks \ bm /\ got.bm = bm \cup {got.num}
                /\ got.buf = region[got.num]
                /\ got.mark = <<DataBit(got.num)>>
           /\ bm = DataBlocks => got.bm = bm /\ got.mark = <<>>
<1>1. PICK free \in Server!GetFreeDataBlock(bm, region, uninit) :
        got = [bm |-> free.bm, num |-> free.num, buf |-> free.buf,
               mark |-> IF free.bm = bm THEN <<>> ELSE <<DataBit(free.num)>>]
  BY DEF TakeBlock
<1>2. CASE bm = DataBlocks
  <2>1. free \in [bm : {bm}, num : uninit, buf : StackBlocks]
    BY <1>2 DEF Server!GetFreeDataBlock, DataBlocks
  <2> QED
    BY <1>1, <1>2, <2>1
<1>3. CASE bm # DataBlocks
  <2> DEFINE n == Min(DataBlocks \ bm)
  <2>1. n \in DataBlocks \ bm
    BY <1>3, Sizes, LeastIsMember
  <2>2. free = [bm |-> bm \cup {n}, num |-> n, buf |-> region[n]]
    BY <1>3, SameMin DEF Server!GetFreeDataBlock, DataBlocks
  <2> HIDE DEF n
  <2>3. free.bm # bm
    BY <2>1, <2>2
  <2> QED
    BY <1>1, <1>3, <2>1, <2>2, <2>3
<1> QED
  BY <1>2, <1>3

LEMMA AppendToOne ==
    ASSUME NEW c1, NEW c2
    PROVE  Append(<<c1>>, c2) = <<c1, c2>>
<1>1. <<c1>> \in Seq({c1, c2})
  OBVIOUS
<1>2. Append(<<c1>>, c2) = <<c1>> \o <<c2>>
  BY <1>1, AppendIsConcat
<1>3. <<c1>> \o <<c2>> = <<c1, c2>>
  <2> DEFINE S == {c1, c2}
             s == <<c1>>
             t == <<c2>>
             two == <<c1, c2>>
  <2>1. s \in Seq(S) /\ t \in Seq(S) /\ two \in Seq(S)
    OBVIOUS
  <2>2. Len(s) = 1 /\ s[1] = c1 /\ Len(t) = 1 /\ t[1] = c2
    OBVIOUS
  <2>3. Len(two) = 2 /\ two[1] = c1 /\ two[2] = c2
    OBVIOUS
  <2> HIDE DEF S, s, t, two
  <2> DEFINE both == s \o t
  <2>4. /\ both \in Seq(S) /\ Len(both) = Len(s) + Len(t)
        /\ \A l \in 1 .. Len(s) : both[l] = s[l]
        /\ \A l \in 1 .. Len(t) : both[Len(s) + l] = t[l]
    BY <2>1, ConcatProperties
  <2> HIDE DEF both
  <2>5. Len(both) = 2 /\ both[1] = c1 /\ both[2] = c2
    <3>1. 1 \in 1 .. Len(s) /\ 1 \in 1 .. Len(t) /\ Len(s) + 1 = 2 /\ Len(s) + Len(t) = 2
      BY <2>2
    <3> QED
      BY <2>2, <2>4, <3>1
  <2>6. \A l \in 1 .. Len(both) : both[l] = two[l]
    BY <2>3, <2>5
  <2>7. both = two
    BY <2>1, <2>3, <2>4, <2>5, <2>6, SeqEqual
  <2> QED
    BY <2>7 DEF both, s, t, two
<1> QED
  BY <1>2, <1>3

LEMMA AfterTwo ==
    ASSUME NEW img, NEW c1, NEW c2
    PROVE  After(img, Append(<<c1>>, c2)) = Effect(Effect(img, c1), c2)
<1> DEFINE one == <<c1>>
           two == <<c2>>
           S   == {c1, c2}
<1>1. one \in Seq(S) /\ two \in Seq(S) /\ c2 \in S
  OBVIOUS
<1>2. After(img, one) = Effect(img, c1) /\ \A x : After(x, two) = Effect(x, c2)
  BY AfterOne
<1>3. Append(one, c2) = one \o two
  BY <1>1, AppendIsConcat
<1> HIDE DEF one, two, S
<1>4. After(img, one \o two) = After(After(img, one), two)
  BY <1>1, AfterMore
<1> QED
  BY <1>2, <1>3, <1>4 DEF one

LEMMA TwoCalls ==
    ASSUME NEW img, NEW c1, NEW c2, Allowed(img), Allowed(Effect(img, c1)),
           Allowed(Effect(Effect(img, c1), c2))
    PROVE  Guarded(img, Append(<<c1>>, c2), Effect(Effect(img, c1), c2))
<1>1. Append(<<c1>>, c2) = <<c1>> \o <<c2>>
  <2>1. <<c1>> \in Seq({c1, c2})
    OBVIOUS
  <2> QED
    BY <2>1, AppendIsConcat
<1> QED
  BY <1>1, OneCall, MoreCalls

(* A new block gets its first contents.                                    *)
LEMMA NewBlockInOrder ==
    ASSUME NEW img, InOrder(img), NEW b \in DataBlocks \ img.dataBitmap, NEW c
    PROVE  LET marked == Effect(img, DataBit(b))
               after  == Effect(marked, PutCells(b, c))
           IN  /\ InOrder(marked) /\ InOrder(after)
               /\ after.inodeBitmap = img.inodeBitmap
               /\ after.dataBitmap = img.dataBitmap \cup {b}
               /\ after.inodeTable = img.inodeTable
               /\ \A a \in DataBlocks : after.dataRegion[a] =
                      IF a = b THEN Over(c, img.dataRegion[b]) ELSE img.dataRegion[a]
               /\ Fresh(after, b + DataRegionAddr)
<1> DEFINE marked == Effect(img, DataBit(b))
           after  == Effect(marked, PutCells(b, c))
           addr   == b + DataRegionAddr
<1>1. PICK blocks : img \in Images(blocks)
  BY DEF InOrder
<1>2. /\ marked \in Images(blocks)
      /\ marked.inodeBitmap = img.inodeBitmap
      /\ marked.dataBitmap = img.dataBitmap \cup {b}
      /\ marked.inodeTable = img.inodeTable
      /\ marked.dataRegion = img.dataRegion
  BY <1>1, EffectOfDataBit
<1>3. InOrder(marked)
  BY DataBitKeepsOrder
<1> HIDE DEF marked
<1>4. /\ after.inodeBitmap = img.inodeBitmap
      /\ after.dataBitmap = img.dataBitmap \cup {b}
      /\ after.inodeTable = img.inodeTable
      /\ after.dataRegion = [img.dataRegion EXCEPT ![b] = Over(c, img.dataRegion[b])]
  <2>1. /\ after \in Images(blocks \cup {Over(c, marked.dataRegion[b])})
        /\ after.inodeBitmap = marked.inodeBitmap
        /\ after.dataBitmap = marked.dataBitmap
        /\ after.inodeTable = marked.inodeTable
        /\ after.dataRegion = [marked.dataRegion EXCEPT ![b] = Over(c, marked.dataRegion[b])]
    <3>1. b \in DataBlocks /\ marked \in Images(blocks)
      BY <1>2
    <3> QED
      BY ONLY <3>1, EffectOfPutCells
  <2> QED
    BY <1>2, <2>1
<1>5. ~Hole(addr) /\ Rel(addr) = b
  BY AddressOfBlock
<1> HIDE DEF addr
<1>6. Unowned(img, addr)
  BY <1>5 DEF Unowned, InOrder, PointersOK
<1>7. InOrder(after)
  <2>1. LiveDirs(marked) \subseteq Inums /\ 0 \in Ptrs
    BY <1>2, Sizes DEF LiveDirs, Images
  <2>2. \A d \in LiveDirs(marked) : marked.inodeTable[d].direct[0] # b + DataRegionAddr
    BY <1>2, <1>6, <2>1 DEF Unowned, addr
  <2>3. b \in marked.dataBitmap
    BY <1>2
  <2> QED
    BY <1>3, <2>2, <2>3, PutCellsKeepsOrder
<1> HIDE DEF after
<1>8. \A a \in DataBlocks : after.dataRegion[a] =
         IF a = b THEN Over(c, img.dataRegion[b]) ELSE img.dataRegion[a]
  BY <1>1, <1>4 DEF Images
<1>9. Fresh(after, addr)
  BY <1>4, <1>5, <1>6 DEF Fresh, Unowned
<1> QED
  BY <1>3, <1>4, <1>7, <1>8, <1>9 DEF marked, after, addr

(* If mkfs left no pointers, a handler sees the blocks as they are.        *)
LEMMA BlocksAreSeen ==
    ASSUME Server!NoLeftovers, NEW blocks, NEW img \in Images(blocks),
           NEW seen \in Server!Views(img.dataRegion)
    PROVE  seen = img.dataRegion
<1>1. Server!AllBlocks = DataBlocks
  BY DEF Server!AllBlocks, Server!NoLeftovers, DataBlocks
<1>2. seen = [b \in DataBlocks |-> img.dataRegion[b]]
  BY <1>1 DEF Server!Views, DataBlocks
<1>3. img.dataRegion \in [DataBlocks -> blocks]
  BY DEF Images
<1> QED
  BY <1>2, <1>3

LEMMA AddrOfBlock ==
    ASSUME NEW addr \in Int, Rel(addr) \in DataBlocks
    PROVE  addr \in Server!DataAddrs
BY Sizes DEF Rel, Server!Rel, Server!DataAddrs, DataBlocks

(* The parent's side of a create in a directory in order, on an image      *)
(* where the new inode has its bit.                                        *)
LEMMA EntryGuarded ==
    ASSUME InOrder(cache), ~Full(cache), NEW img, InOrder(img),
           img.dataBitmap = cache.dataBitmap, img.dataRegion = cache.dataRegion,
           NEW pinum \in LiveDirs(cache), pinum \in LiveDirs(img),
           img.inodeTable[pinum] = cache.inodeTable[pinum],
           NEW entry, entry.inum \in img.inodeBitmap,
           NEW linked \in EntryCalls(cache.dataBitmap, cache.dataRegion,
                                    cache.inodeTable[pinum], entry)
    PROVE  \E after :
             /\ Guarded(img, linked.calls, after) /\ InOrder(after)
             /\ after.inodeBitmap = img.inodeBitmap /\ after.dataBitmap = linked.bm
             /\ after.inodeTable = img.inodeTable
             /\ \A b \in DataBlocks \ linked.bm :
                  /\ after.dataRegion[b] = cache.dataRegion[b]
                  /\ After(cache, linked.calls).dataRegion[b] = cache.dataRegion[b]
<1> DEFINE pinode == cache.inodeTable[pinum]
           open == Server!BlocksWithSlot(cache.dataRegion, pinode)
<1>1. PICK blocks : img \in Images(blocks)
  BY DEF InOrder
<1>2. PICK blocks0 : cache \in Images(blocks0)
  BY DEF InOrder
<1>3. /\ pinum \in Inums /\ pinum \in Nat /\ pinum \in cache.inodeBitmap
      /\ pinode \in Inodes /\ LiveDirs(img) \subseteq Nat
      /\ cache.dataBitmap \in SUBSET DataBlocks
  <2>1. LiveDirs(img) \subseteq Inums /\ LiveDirs(cache) \subseteq Inums
    BY <1>1, <1>2 DEF LiveDirs, Images
  <2>2. pinum \in cache.inodeBitmap
    BY DEF LiveDirs
  <2>3. pinode \in Inodes
    BY <1>2, <2>1 DEF Images
  <2> QED
    BY <1>2, <2>1, <2>2, <2>3, Sizes DEF Images
<1>4. \A k \in Ptrs \ {0} : Hole(pinode.direct[k])
  BY DEF InOrder, DirsOK
<1>5. CASE open # {}
  <2> DEFINE k == Min(open)
             b == Server!Rel(pinode.direct[k])
             j == Server!FirstSlotIn(cache.dataRegion, pinode, k)
             cells == [l \in {j} |-> entry]
  <2>1. linked = [bm |-> cache.dataBitmap, calls |-> CellCalls(pinode.direct[k], cells)]
    BY <1>5 DEF EntryCalls
  <2>2. open \subseteq {0} /\ \A l \in open : ~Hole(pinode.direct[l])
    <3>1. ASSUME NEW l \in Server!Scanned(pinode) PROVE l = 0 /\ ~Hole(pinode.direct[l])
      <4>1. l \in Ptrs /\ \A h \in 0 .. l : ~Server!Hole(pinode.direct[h])
        BY <3>1 DEF Server!Scanned, Ptrs
      <4>2. l \in 0 .. l
        BY <4>1, Sizes
      <4> QED
        BY <1>4, <4>1, <4>2 DEF Hole
    <3> QED
      BY <3>1 DEF Server!BlocksWithSlot
  <2>3. k = 0 /\ 0 \in open
    <3>1. open = {0}
      BY <1>5, <2>2
    <3>2. Min({0}) = 0
      BY DEF Min
    <3> QED
      BY <3>1, <3>2
  <2>4. b = Rel(pinode.direct[0]) /\ ~Hole(pinode.direct[0])
    BY <2>2, <2>3 DEF Rel
  <2>5. b \in img.dataBitmap /\ DirBlockOf(img, pinum, img.dataRegion[b])
    <3>1. b \in cache.dataBitmap
      BY <1>3, <2>4, Sizes DEF InOrder, PointersOK
    <3> QED
      BY <2>4, <3>1 DEF InOrder, DirsOK
  <2>6. pinode.direct[0] \in Server!DataAddrs
    <3>1. pinode.direct[0] \in Int
      BY <1>3, Sizes DEF Inodes
    <3>2. b \in DataBlocks
      BY <1>1, <2>5 DEF Images
    <3> QED
      BY <2>4, <3>1, <3>2, AddrOfBlock
  <2>7. linked = [bm |-> cache.dataBitmap, calls |-> <<PutCells(b, cells)>>]
    BY <2>1, <2>3, <2>6 DEF CellCalls
  <2>8. j \in Slots /\ cache.dataRegion[b][j].inum = -1
    <3> DEFINE free == {l \in Slots : cache.dataRegion[b][l].inum = -1}
    <3>1. free = {l \in Server!Slots : Server!EntryAt(cache.dataRegion, pinode, k, l).inum = -1}
      BY <2>3 DEF Server!EntryAt, Slots
    <3>2. free # {}
      BY <2>3, <3>1 DEF Server!BlocksWithSlot
    <3>3. j = Min(free)
      BY <3>1, SameMin DEF Server!FirstSlotIn
    <3>4. Min(free) \in free
      BY <3>2, Sizes, LeastIsMember
    <3> QED
      BY <3>3, <3>4
  <2> HIDE DEF k, b, j
  <2>9. j \in Slots \ {0, 1}
    <3>1. img.dataRegion[b][0].inum = pinum
      BY <2>5 DEF DirBlockOf, Server!Entry
    <3>2. img.dataRegion[b][1].inum \in Nat
      BY <1>3, <2>5 DEF DirBlockOf
    <3> QED
      BY <1>3, <2>8, <3>1, <3>2
  <2>10. DOMAIN cells = {j} /\ cells[j].inum \in img.inodeBitmap
    OBVIOUS
  <2> HIDE DEF cells
  <2> DEFINE after == Effect(img, PutCells(b, cells))
  <2>11. InOrder(after)
    BY <2>5, <2>9, <2>10, PutCellsKeepsOrder
  <2>12. b \in DataBlocks
    BY <1>1, <2>5 DEF Images
  <2>13. /\ after \in Images(blocks \cup {Over(cells, img.dataRegion[b])})
         /\ after.inodeBitmap = img.inodeBitmap /\ after.dataBitmap = img.dataBitmap
         /\ after.inodeTable = img.inodeTable
         /\ after.dataRegion = [img.dataRegion EXCEPT ![b] = Over(cells, img.dataRegion[b])]
    BY <1>1, <2>12, EffectOfPutCells
  <2>14. Guarded(img, <<PutCells(b, cells)>>, after)
    BY <2>11, OneCall DEF Allowed
  <2> HIDE DEF after
  <2>15. \A a \in DataBlocks \ linked.bm : after.dataRegion[a] = cache.dataRegion[a]
    BY <1>1, <2>7, <2>5, <2>13 DEF Images
  <2>16. linked.calls = <<PutCells(b, cells)>> /\ linked.bm = cache.dataBitmap
    BY <2>7
  <2>17. \A a \in DataBlocks \ linked.bm :
            After(cache, linked.calls).dataRegion[a] = cache.dataRegion[a]
    <3> DEFINE put == Effect(cache, PutCells(b, cells))
    <3>1. put.dataRegion = [cache.dataRegion EXCEPT ![b] = Over(cells, cache.dataRegion[b])]
      <4>1. /\ put \in Images(blocks0 \cup {Over(cells, cache.dataRegion[b])})
            /\ put.inodeBitmap = cache.inodeBitmap /\ put.dataBitmap = cache.dataBitmap
            /\ put.inodeTable = cache.inodeTable
            /\ put.dataRegion = [cache.dataRegion EXCEPT ![b] = Over(cells, cache.dataRegion[b])]
        BY ONLY <1>2, <2>12, EffectOfPutCells
      <4> QED
        BY <4>1
    <3>2. After(cache, linked.calls) = put
      BY <2>16, AfterOne
    <3> HIDE DEF put
    <3> QED
      BY <1>2, <2>7, <2>5, <3>1, <3>2 DEF Images
  <2> QED
    BY <2>11, <2>13, <2>14, <2>15, <2>16, <2>17
<1>6. CASE open = {}
  <2>1. PICK got \in TakeBlock(cache.dataBitmap, cache.dataRegion, StackInts) :
          linked = [bm |-> got.bm,
                    calls |-> got.mark \o CellCalls(got.num + DataRegionAddr,
                                                    [got.buf EXCEPT ![0] = entry])]
    BY <1>6 DEF EntryCalls
  <2> DEFINE b == got.num
             cells == [got.buf EXCEPT ![0] = entry]
             marked == Effect(img, DataBit(b))
             after == Effect(marked, PutCells(b, cells))
  <2>2. /\ b \in DataBlocks \ img.dataBitmap /\ got.bm = img.dataBitmap \cup {b}
        /\ got.mark = <<DataBit(b)>>
    <3>1. cache.dataBitmap # DataBlocks /\ cache.dataBitmap = img.dataBitmap
      BY DEF Full
    <3> DEFINE bm == cache.dataBitmap
    <3>2. bm \subseteq DataBlocks /\ bm # DataBlocks /\ got \in TakeBlock(bm, cache.dataRegion, StackInts)
      BY <1>3, <2>1, <3>1
    <3>3. bm = img.dataBitmap
      BY <3>1
    <3> HIDE DEF bm
    <3>4. /\ got.num \in DataBlocks \ bm /\ got.bm = bm \cup {got.num}
          /\ got.mark = <<DataBit(got.num)>>
      BY <3>2, TakenBlock
    <3> QED
      BY <3>3, <3>4
  <2> HIDE DEF b, cells
  <2>8. CellCalls(b + DataRegionAddr, cells) = <<PutCells(b, cells)>>
    <3>1. b + DataRegionAddr \in Int /\ Rel(b + DataRegionAddr) = b
      BY <2>2, AddressOfBlock
    <3>2. b + DataRegionAddr \in Server!DataAddrs
      BY <2>2, <3>1, AddrOfBlock
    <3> QED
      BY <3>1, <3>2 DEF CellCalls, Rel
  <2>3. /\ InOrder(marked) /\ InOrder(after)
        /\ after.inodeBitmap = img.inodeBitmap
        /\ after.dataBitmap = img.dataBitmap \cup {b}
        /\ after.inodeTable = img.inodeTable
        /\ \A a \in DataBlocks : after.dataRegion[a] =
               IF a = b THEN Over(cells, img.dataRegion[b]) ELSE img.dataRegion[a]
    BY <2>2, NewBlockInOrder
  <2>4. Guarded(img, Append(<<DataBit(b)>>, PutCells(b, cells)), after)
    BY <2>3, TwoCalls DEF Allowed
  <2> HIDE DEF marked, after
  <2>5. linked.calls = Append(<<DataBit(b)>>, PutCells(b, cells)) /\ linked.bm = got.bm
    <3>1. linked.calls = <<DataBit(b)>> \o <<PutCells(b, cells)>> /\ linked.bm = got.bm
      BY <2>1, <2>2, <2>8 DEF b, cells
    <3> DEFINE c1 == DataBit(b)
               c2 == PutCells(b, cells)
    <3>2. <<c1>> \in Seq({c1, c2})
      OBVIOUS
    <3>3. Append(<<c1>>, c2) = <<c1>> \o <<c2>>
      BY <3>2, AppendIsConcat
    <3> QED
      BY <3>1, <3>3
  <2>6. \A a \in DataBlocks \ linked.bm : after.dataRegion[a] = cache.dataRegion[a]
    BY <2>2, <2>3, <2>5
  <2>7. \A a \in DataBlocks \ linked.bm :
           After(cache, linked.calls).dataRegion[a] = cache.dataRegion[a]
    <3> DEFINE bit == Effect(cache, DataBit(b))
               put == Effect(bit, PutCells(b, cells))
    <3>1. b \in DataBlocks /\ bit \in Images(blocks0) /\ bit.dataRegion = cache.dataRegion
      BY <1>2, <2>2, EffectOfDataBit
    <3>2. After(cache, linked.calls) = put
      BY <2>5, AfterTwo
    <3> HIDE DEF bit
    <3>3. put.dataRegion = [bit.dataRegion EXCEPT ![b] = Over(cells, bit.dataRegion[b])]
      <4>1. /\ put \in Images(blocks0 \cup {Over(cells, bit.dataRegion[b])})
            /\ put.inodeBitmap = bit.inodeBitmap /\ put.dataBitmap = bit.dataBitmap
            /\ put.inodeTable = bit.inodeTable
            /\ put.dataRegion = [bit.dataRegion EXCEPT ![b] = Over(cells, bit.dataRegion[b])]
        BY ONLY <3>1, EffectOfPutCells
      <4> QED
        BY <4>1
    <3> HIDE DEF put
    <3> QED
      BY <1>2, <2>2, <2>5, <3>1, <3>2, <3>3 DEF Images
  <2> QED
    BY <2>2, <2>3, <2>4, <2>5, <2>6, <2>7
<1> QED
  BY <1>5, <1>6
(* The child's side of a create: its block, which it starts with "." and   *)
(* ".." if it is a directory's, then its inode.                            *)
LEMMA ChildGuarded ==
    ASSUME NEW img, InOrder(img), NEW bm \in SUBSET DataBlocks, img.dataBitmap = bm,
           NEW region, \A b \in DataBlocks \ bm : region[b] = img.dataRegion[b],
           NEW inum \in img.inodeBitmap, inum # 0, \A x \in img.inodeBitmap : x <= inum,
           NEW pinum \in LiveDirs(img), pinum < inum,
           cache.inodeTable[inum] \in Inodes,
           \A k \in Ptrs : Hole(cache.inodeTable[inum].direct[k]),
           \A k \in Ptrs : Hole(img.inodeTable[inum].direct[k]),
           NEW type, NEW made \in ChildCalls(bm, region, inum, pinum, type)
    PROVE  \E last : Guarded(img, made, last)
<1> DEFINE isDir == type = Server!MFS_DIRECTORY
<1>1. PICK got \in TakeBlock(bm, region, {0}) :
        made = got.mark \o
               <<PutCells(got.num,
                   IF isDir THEN [got.buf EXCEPT ![0] = Server!Entry(".", inum),
                                                 ![1] = Server!Entry("..", pinum)]
                   ELSE got.buf)>> \o
               <<PutInode(inum,
                   [type   |-> IF isDir THEN Server!MFS_DIRECTORY ELSE Server!MFS_REGULAR_FILE,
                    size   |-> 0,
                    direct |-> [cache.inodeTable[inum].direct EXCEPT
                                  ![0] = got.num + DataRegionAddr]])>>
  BY DEF ChildCalls, ChildOrder
<1> DEFINE b     == got.num
           cells == IF isDir THEN [got.buf EXCEPT ![0] = Server!Entry(".", inum),
                                                  ![1] = Server!Entry("..", pinum)]
                    ELSE got.buf
           inode == [type   |-> IF isDir THEN Server!MFS_DIRECTORY
                                ELSE Server!MFS_REGULAR_FILE,
                     size   |-> 0,
                     direct |-> [cache.inodeTable[inum].direct EXCEPT
                                   ![0] = b + DataRegionAddr]]
           block == <<PutCells(b, cells)>>
           put   == <<PutInode(inum, inode)>>
<1>2. made = got.mark \o block \o put
  BY <1>1
<1>3. CASE bm = DataBlocks
  <2> HIDE DEF b, cells, inode, block, put
  <2>1. got.mark = <<>> \/ got.mark = <<DataBit(b)>>
    BY DEF TakeBlock, b
  <2> DEFINE S == {DataBit(b), PutCells(b, cells), PutInode(inum, inode)}
  <2>2. got.mark \in Seq(S) /\ block \in Seq(S) /\ put \in Seq(S)
    <3> DEFINE none == <<>>
               bit  == <<DataBit(b)>>
    <3>1. none \in Seq(S) /\ bit \in Seq(S) /\ block \in Seq(S) /\ put \in Seq(S)
      BY DEF block, put
    <3>2. got.mark = none \/ got.mark = bit
      BY <2>1
    <3> HIDE DEF none, bit
    <3> QED
      BY <3>1, <3>2
  <2> HIDE DEF S
  <2>3. made \in Seq(S)
    <3>1. got.mark \o block \in Seq(S)
      BY <2>2, ConcatProperties
    <3> QED
      BY <1>2, <2>2, <3>1, ConcatProperties
  <2> QED
    BY <1>3, <2>3, FullIsGuarded DEF Full
<1>4. CASE bm # DataBlocks
  <2>1. /\ b \in DataBlocks \ bm
        /\ got.buf = region[b]
        /\ got.mark = <<DataBit(b)>>
    BY <1>4, TakenBlock
  <2>2. /\ isDir => inode.type = Server!MFS_DIRECTORY
        /\ ~isDir => inode.type = Server!MFS_REGULAR_FILE
        /\ inode \in Inodes
        /\ \A k \in Ptrs : inode.direct[k] = IF k = 0 THEN b + DataRegionAddr
                                             ELSE cache.inodeTable[inum].direct[k]
    <3>1. b + DataRegionAddr \in Int
      BY <2>1, AddressOfBlock
    <3>2. cache.inodeTable[inum].direct \in [Ptrs -> Int]
      BY DEF Inodes
    <3>3. inode.direct \in [Ptrs -> Int]
      BY <3>1, <3>2
    <3>4. \A k \in Ptrs : inode.direct[k] = IF k = 0 THEN b + DataRegionAddr
                                             ELSE cache.inodeTable[inum].direct[k]
      BY <3>2
    <3>5. isDir => inode.type = Server!MFS_DIRECTORY
      OBVIOUS
    <3>6. ~isDir => inode.type = Server!MFS_REGULAR_FILE
      OBVIOUS
    <3>7. inode \in Inodes
      BY <3>3 DEF Inodes, Server!MFS_DIRECTORY, Server!MFS_REGULAR_FILE
    <3> QED
      BY <3>4, <3>5, <3>6, <3>7
  <2>3. /\ isDir => cells = [got.buf EXCEPT ![0] = Server!Entry(".", inum),
                                            ![1] = Server!Entry("..", pinum)]
        /\ ~isDir => cells = got.buf
    OBVIOUS
  <2> HIDE DEF b, cells, inode, isDir
  <2> DEFINE marked == Effect(img, DataBit(b))
             filled == Effect(marked, PutCells(b, cells))
             addr   == b + DataRegionAddr
  <2>4. /\ InOrder(marked) /\ InOrder(filled)
        /\ filled.inodeBitmap = img.inodeBitmap
        /\ filled.dataBitmap = img.dataBitmap \cup {b}
        /\ filled.inodeTable = img.inodeTable
        /\ \A a \in DataBlocks : filled.dataRegion[a] =
               IF a = b THEN Over(cells, img.dataRegion[b]) ELSE img.dataRegion[a]
        /\ Fresh(filled, addr)
    <3>1. b \in DataBlocks \ img.dataBitmap
      BY <2>1
    <3> QED
      BY <3>1, NewBlockInOrder
  <2>5. Guarded(img, <<DataBit(b)>>, marked) /\ Guarded(marked, block, filled)
    BY <2>4, OneCall DEF Allowed
  <2> HIDE DEF marked, filled, addr
  <2>6. ASSUME isDir
        PROVE  LET cs == filled.dataRegion[b]
               IN  DirBlockOf(filled, inum, cs) /\ cs[1].inum # inum
    <3> DEFINE old == img.dataRegion[b]
               cs  == filled.dataRegion[b]
    <3>1. got.buf = old /\ Slots \subseteq DOMAIN old
      BY <2>1 DEF InOrder
    <3>2. cs = Over(cells, old)
      BY <2>1, <2>4
    <3> HIDE DEF old, cs
    <3>3. \A j \in Slots : cs[j] = IF j = 0 THEN Server!Entry(".", inum)
                                   ELSE IF j = 1 THEN Server!Entry("..", pinum)
                                   ELSE old[j]
      <4>1. DOMAIN cells = DOMAIN old
        BY <2>3, <2>6, <3>1
      <4>2. \A j \in Slots : cells[j] = IF j = 0 THEN Server!Entry(".", inum)
                                        ELSE IF j = 1 THEN Server!Entry("..", pinum)
                                        ELSE old[j]
        BY <2>3, <2>6, <3>1, Sizes
      <4> QED
        BY <3>1, <3>2, <4>1, <4>2 DEF Over
    <3>4. \A j \in Slots : old[j].inum = 0
      BY <2>1 DEF InOrder, old
    <3>5. LiveDirs(filled) = LiveDirs(img) /\ LiveDirs(img) \subseteq img.inodeBitmap
      BY <2>4 DEF LiveDirs
    <3>6. /\ cs[0] = Server!Entry(".", inum)
          /\ cs[1] = Server!Entry("..", pinum)
          /\ \A j \in Slots : j # 0 /\ j # 1 => cs[j].inum = 0
      BY <3>3, <3>4, Sizes
    <3>7. 0 \in img.inodeBitmap
      BY DEF InOrder
    <3>8. cs[1].inum = pinum /\ cs[1].name = ".." /\ cs[0].inum = inum
      BY <3>6 DEF Server!Entry
    <3>9. \A j \in Slots : cs[j].inum \in filled.inodeBitmap \cup {-1}
      BY <2>4, <3>5, <3>6, <3>7, <3>8
    <3>10. inum \in Nat /\ pinum \in Nat
      <4>1. PICK blocks : img \in Images(blocks)
        BY DEF InOrder
      <4> QED
        BY <3>5, <4>1, Sizes DEF Images
    <3>11. cs[1].inum # inum
      BY <3>8, <3>10
    <3> QED
      BY <3>5, <3>6, <3>8, <3>9, <3>11 DEF DirBlockOf, cs
  <2>7. Rel(inode.direct[0]) = b /\ Fresh(filled, inode.direct[0])
    BY <2>1, <2>2, <2>4, Sizes, AddressOfBlock DEF addr
  <2>8. \A k \in Ptrs \ {0} : Hole(inode.direct[k])
    BY <2>2
  <2>9. inode.type = Server!MFS_DIRECTORY => isDir
    BY <2>2 DEF Server!MFS_DIRECTORY, Server!MFS_REGULAR_FILE
  <2>10. InOrder(Effect(filled, PutInode(inum, inode)))
    <3>1. /\ inum \in filled.inodeBitmap /\ \A x \in filled.inodeBitmap : x <= inum
          /\ \A k \in Ptrs : Hole(filled.inodeTable[inum].direct[k])
      BY <2>4
    <3> QED
      BY <2>2, <2>4, <2>6, <2>7, <2>8, <2>9, <3>1, NewInodeKeepsOrder
  <2>11. Guarded(filled, put, Effect(filled, PutInode(inum, inode)))
    BY <2>4, <2>10, OneCall DEF Allowed
  <2> HIDE DEF block, put
  <2>12. Guarded(img, got.mark \o block, filled)
    BY <2>1, <2>5, MoreCalls
  <2> QED
    BY <1>2, <2>11, <2>12, MoreCalls
<1> QED
  BY <1>3, <1>4

(* The fsync at the end of a handler.                                      *)
LEMMA FsyncToo ==
    ASSUME NEW img, NEW calls, NEW last, Guarded(img, calls, last)
    PROVE  Guarded(img, calls \o <<Fsync>>, last)
<1>1. PICK S : calls \in Seq(S)
  BY DEF Guarded
<1>2. PICK n, imgs :
         /\ n \in 0 .. Len(calls) /\ imgs[0] = img
         /\ \A l \in 1 .. n : imgs[l] = Effect(imgs[l - 1], calls[l])
         /\ \A l \in 0 .. n : Allowed(imgs[l])
         /\ \/ n = Len(calls) /\ imgs[n] = last
            \/ Full(imgs[n])
  BY DEF Guarded
<1>3. CASE Full(imgs[n])
  <2> DEFINE more == calls \o <<Fsync>>
  <2>1. calls \in Seq(S \cup {Fsync}) /\ <<Fsync>> \in Seq(S \cup {Fsync})
    BY <1>1
  <2>2. Len(<<Fsync>>) = 1
    OBVIOUS
  <2>3. /\ more \in Seq(S \cup {Fsync}) /\ Len(more) = Len(calls) + 1
        /\ \A l \in 1 .. Len(calls) : more[l] = calls[l]
    BY <2>1, <2>2, ConcatProperties
  <2> HIDE DEF more
  <2>4. n \in 0 .. Len(more) /\ \A l \in 1 .. n : more[l] = calls[l]
    BY <1>1, <1>2, <2>3
  <2>5. Guarded(img, more, last)
    BY <1>2, <1>3, <2>3, <2>4 DEF Guarded
  <2> QED
    BY <2>5 DEF more
<1>4. CASE n = Len(calls) /\ imgs[n] = last
  <2>1. Allowed(last)
    BY <1>1, <1>2, <1>4
  <2>2. Guarded(last, <<Fsync>>, last)
    BY <2>1, OneCall, EffectOfFsync
  <2> QED
    BY <2>2, MoreCalls
<1> QED
  BY <1>2, <1>3, <1>4

LEMMA CreatGuarded ==
    ASSUME InOrder(cache), ~Full(cache), Server!NoLeftovers,
           NEW pinum \in Inums, NEW type \in CreatTypes, NEW name,
           Creat(pinum, type, name)
    PROVE  \E last : Guarded(cache, todo', last)
<1> DEFINE inum  == Min(Inums \ cache.inodeBitmap)
           entry == Server!Entry(name, inum)
           first == [type |-> type, size |-> 0, direct |-> cache.inodeTable[inum].direct]
           region(linked) == After(cache, linked.calls).dataRegion
<1>1. Done = cache
  BY DoneAtOnce DEF Creat, Idle
<1>2. pinum \in cache.inodeBitmap /\ cache.inodeBitmap # Inums
  BY <1>1 DEF Creat, Server!Creatable, Server!Served, Inums
<1>3. PICK blocks : cache \in Images(blocks)
  BY DEF InOrder
<1>4. /\ inum \in Inums \ cache.inodeBitmap /\ 0 .. inum - 1 \subseteq cache.inodeBitmap
      /\ inum # 0 /\ \A x \in cache.inodeBitmap : x < inum
  <2> DEFINE free == Inums \ cache.inodeBitmap
  <2>1. free \in SUBSET Nat /\ free # {}
    BY <1>2, <1>3, Sizes DEF Images
  <2>2. inum \in free /\ \A y \in free : inum <= y
    BY <2>1, LeastIsMember
  <2> HIDE DEF inum
  <2>3. \A x \in 0 .. inum - 1 : x \in Inums /\ ~(inum <= x)
    BY <2>2, Sizes DEF Inums, Server!Inums
  <2>4. inum # 0
    BY <2>2 DEF InOrder
  <2>5. \A x \in cache.inodeBitmap : x \in Nat /\ inum \notin 0 .. x
    BY <1>3, <2>2, Sizes DEF InOrder, Images
  <2> QED
    BY <2>2, <2>3, <2>4, <2>5, Sizes
<1>5. cache.inodeTable[inum] \in Inodes /\ \A k \in Ptrs : Hole(cache.inodeTable[inum].direct[k])
  <2>1. cache.inodeTable[inum] \in Inodes
    BY <1>3, <1>4 DEF Images
  <2> QED
    BY <1>4, <2>1 DEF InOrder, PointersOK
<1>6. first \in Inodes /\ first.direct = cache.inodeTable[inum].direct
  <2>1. type \in Int
    BY ServerAssumption DEF Server!RequestsAssumption
  <2>2. cache.inodeTable[inum].direct \in [Ptrs -> Int]
    BY <1>5 DEF Inodes
  <2> DEFINE old == cache.inodeTable[inum].direct
  <2>3. old \in [Ptrs -> Int]
    BY <2>2
  <2> HIDE DEF old
  <2>4. /\ [type |-> type, size |-> 0, direct |-> old] \in Inodes
        /\ [type |-> type, size |-> 0, direct |-> old].direct = old
    BY <2>1, <2>3 DEF Inodes
  <2> QED
    BY <2>4 DEF old
<1> HIDE DEF inum, first
<1> DEFINE reserved == Effect(cache, InodeBit(inum))
           begun    == Effect(reserved, PutInode(inum, first))
<1>7. /\ reserved \in Images(blocks)
       /\ reserved.inodeBitmap = cache.inodeBitmap \cup {inum}
       /\ reserved.dataBitmap = cache.dataBitmap
       /\ reserved.inodeTable = cache.inodeTable
       /\ reserved.dataRegion = cache.dataRegion
  BY <1>3, <1>4, EffectOfInodeBit
<1>8. InOrder(reserved)
  BY <1>4, InodeBitKeepsOrder
<1> HIDE DEF reserved
<1>9. /\ begun \in Images(blocks)
       /\ begun.inodeBitmap = cache.inodeBitmap \cup {inum}
       /\ begun.dataBitmap = cache.dataBitmap
       /\ begun.inodeTable = [cache.inodeTable EXCEPT ![inum] = first]
       /\ begun.dataRegion = cache.dataRegion
  BY <1>4, <1>6, <1>7, EffectOfPutInode
<1>10. inum \in Nat /\ \A x \in cache.inodeBitmap : x \in Nat
  BY <1>3, <1>4, Sizes DEF Images
<1>11. InOrder(begun)
  <2>1. /\ inum \in reserved.inodeBitmap
        /\ \A x \in reserved.inodeBitmap : x <= inum
    BY <1>4, <1>7, <1>10
  <2>2. /\ \A k \in Ptrs : Hole(reserved.inodeTable[inum].direct[k])
        /\ \A k \in Ptrs \ {0} : Hole(first.direct[k])
        /\ Hole(first.direct[0])
    BY <1>5, <1>6, <1>7, Sizes
  <2> QED
    BY <1>4, <1>6, <1>8, <2>1, <2>2, NewInodeKeepsOrder
<1>12. Guarded(cache, <<InodeBit(inum), PutInode(inum, first)>>, begun)
  <2>1. Allowed(cache) /\ Allowed(reserved) /\ Allowed(begun)
    BY <1>8, <1>11 DEF Allowed
  <2> DEFINE c1 == InodeBit(inum)
             c2 == PutInode(inum, first)
  <2>2. Guarded(cache, Append(<<c1>>, c2), begun)
    BY <2>1, TwoCalls DEF reserved
  <2> HIDE DEF c1, c2
  <2>3. Append(<<c1>>, c2) = <<c1, c2>>
    BY AppendToOne
  <2> QED
    BY <2>2, <2>3 DEF c1, c2
<1> DEFINE reserve == <<InodeBit(inum), PutInode(inum, first)>>
<1>13. CASE cache.inodeTable[pinum].type # Server!MFS_DIRECTORY
  <2>1. todo' = reserve \o <<>> \o <<>> \o <<Fsync>>
    BY <1>13 DEF Creat, CreatOrder, inum, first
  <2> HIDE DEF reserve
  <2>2. Guarded(begun, <<>>, begun)
    BY <1>11, NoCalls DEF Allowed
  <2> HIDE DEF begun
  <2>3. Guarded(cache, reserve \o <<>>, begun)
    BY <1>12, <2>2, MoreCalls DEF reserve
  <2>4. Guarded(cache, reserve \o <<>> \o <<>>, begun)
    BY <2>2, <2>3, MoreCalls
  <2> QED
    BY <2>1, <2>4, FsyncToo
<1>14. CASE cache.inodeTable[pinum].type = Server!MFS_DIRECTORY
  <2>1. pinum \in LiveDirs(cache)
    BY <1>2, <1>14 DEF LiveDirs
  <2>2. PICK linked \in EntryCalls(cache.dataBitmap, cache.dataRegion,
                                   cache.inodeTable[pinum], entry) :
          \E made \in ChildCalls(linked.bm, region(linked), inum, pinum, type) :
             todo' = reserve \o linked.calls \o made \o <<Fsync>>
    <3>1. PICK seen \in Server!Views(cache.dataRegion) :
            \E linked \in EntryCalls(cache.dataBitmap, seen, cache.inodeTable[pinum], entry) :
            \E made \in ChildCalls(linked.bm, region(linked), inum, pinum, type) :
               todo' = reserve \o linked.calls \o made \o <<Fsync>>
      BY <1>14 DEF Creat, CreatOrder, inum, first
    <3>2. seen = cache.dataRegion
      BY <1>3, <3>1, BlocksAreSeen
    <3> QED
      BY <3>1, <3>2
  <2>3. PICK made \in ChildCalls(linked.bm, region(linked), inum, pinum, type) :
          todo' = reserve \o linked.calls \o made \o <<Fsync>>
    BY <2>2
  <2>4. /\ inum \in begun.inodeBitmap /\ pinum \in LiveDirs(begun)
         /\ begun.inodeTable[pinum] = cache.inodeTable[pinum]
         /\ begun.inodeTable[inum] = first
    <3>1. pinum # inum
      BY <1>2, <1>4
    <3>2. begun.inodeTable[pinum] = cache.inodeTable[pinum] /\ begun.inodeTable[inum] = first
      BY <1>3, <1>4, <1>9, <3>1 DEF Images
    <3> QED
      BY <2>1, <1>9, <3>2 DEF LiveDirs
  <2> HIDE DEF begun
  <2>5. PICK after :
           /\ Guarded(begun, linked.calls, after) /\ InOrder(after)
           /\ after.inodeBitmap = begun.inodeBitmap /\ after.dataBitmap = linked.bm
           /\ after.inodeTable = begun.inodeTable
           /\ \A b \in DataBlocks \ linked.bm : after.dataRegion[b] = cache.dataRegion[b]
           /\ \A b \in DataBlocks \ linked.bm : region(linked)[b] = cache.dataRegion[b]
    <3>1. entry.inum = inum
      BY DEF Server!Entry
    <3> HIDE DEF entry
    <3>2. entry.inum \in begun.inodeBitmap
      BY <2>4, <3>1
    <3> QED
      <4>1. /\ begun.dataBitmap = cache.dataBitmap /\ begun.dataRegion = cache.dataRegion
            /\ InOrder(cache) /\ ~Full(cache)
        BY <1>9
      <4> QED
        BY ONLY <2>2, <2>1, <1>11, <2>4, <3>2, <4>1, EntryGuarded
  <2>6. PICK last : Guarded(after, made, last)
    <3>1. linked.bm \in SUBSET DataBlocks
      BY <2>5 DEF InOrder, Images
    <3>2. /\ inum \in after.inodeBitmap /\ \A x \in after.inodeBitmap : x <= inum
          /\ pinum < inum
      BY <1>2, <1>4, <1>9, <1>10, <2>4, <2>5
    <3>3. pinum \in LiveDirs(after)
      BY <2>4, <2>5 DEF LiveDirs
    <3>4. \A k \in Ptrs : Hole(after.inodeTable[inum].direct[k])
      BY <1>5, <1>6, <2>4, <2>5
    <3> DEFINE read == region(linked)
    <3>5. /\ \A b \in DataBlocks \ linked.bm : read[b] = after.dataRegion[b]
          /\ made \in ChildCalls(linked.bm, read, inum, pinum, type)
      BY <2>3, <2>5
    <3> HIDE DEF read
    <3> QED
      BY <1>4, <1>5, <2>5, <3>1, <3>2, <3>3, <3>4, <3>5, ChildGuarded
  <2> HIDE DEF reserve
  <2>7. Guarded(cache, reserve \o linked.calls \o made \o <<Fsync>>, last)
    <3>1. Guarded(cache, reserve \o linked.calls, after)
      BY <1>12, <2>5, MoreCalls DEF reserve
    <3>2. Guarded(cache, reserve \o linked.calls \o made, last)
      BY <2>6, <3>1, MoreCalls
    <3> QED
      BY <3>2, FsyncToo
  <2> QED
    BY <2>3, <2>7 DEF reserve
<1> QED
  BY <1>13, <1>14

-----------------------------------------------------------------------------
(***************************************************************************)
(* run_write.                                                              *)
(***************************************************************************)

(* Calls that come when the last data block is taken change nothing.       *)
LEMMA FullStaysGuarded ==
    ASSUME NEW img, NEW calls, NEW last, Guarded(img, calls, last), Full(last),
           NEW S, NEW more \in Seq(S)
    PROVE  Guarded(img, calls \o more, last)
BY FullIsGuarded, MoreCalls

(* While the handler fills holes of inum's inode: img is the image then.   *)
(* The new pointers are in the handler's copy only.                        *)
Filling(st, img, inum) ==
    /\ Guarded(cache, st.calls, img)
    /\ ~Full(img) =>
         /\ InOrder(img)
         /\ st.bm = img.dataBitmap
         /\ img.inodeBitmap = cache.inodeBitmap /\ img.inodeTable = cache.inodeTable
         /\ st.inode \in Inodes /\ st.inode.type = cache.inodeTable[inum].type
         /\ \A k \in Ptrs :
              \/ st.inode.direct[k] = cache.inodeTable[inum].direct[k]
              \/ Hole(cache.inodeTable[inum].direct[k]) /\ Fresh(img, st.inode.direct[k])
         /\ \A k \in Ptrs : ~Hole(st.inode.direct[k]) =>
                              Rel(st.inode.direct[k]) \in img.dataBitmap
         /\ \A k, l \in Ptrs : ~Hole(st.inode.direct[k])
                               /\ st.inode.direct[k] = st.inode.direct[l] => k = l

LEMMA NewPointers ==
    ASSUME NEW inode \in Inodes, NEW filled \in [Ptrs -> Int]
    PROVE  LET new == [inode EXCEPT !.size = @ + BlockSize, !.direct = filled]
           IN  new \in Inodes /\ new.type = inode.type /\ new.direct = filled
<1> DEFINE size == inode.size + BlockSize
           new  == [inode EXCEPT !.size = size, !.direct = filled]
<1>1. size \in Int
  BY Sizes DEF Inodes
<1> HIDE DEF size
<1>2. inode.type \in Int
  BY DEF Inodes
<1>3. new.type = inode.type /\ new.direct = filled /\ new.size = size
  BY DEF Inodes
<1>4. new \in Inodes
  BY <1>1, <1>2 DEF Inodes
<1> QED
  BY <1>3, <1>4 DEF size

LEMMA FillKeepsFilling ==
    ASSUME NEW inum, NEW st, NEW img, Filling(st, img, inum),
           NEW k, NEW beyond, NEW st2 \in FillCalls(st, k, beyond)
    PROVE  \E after : Filling(st2, after, inum)
<1>1. CASE st2 = st
  BY <1>1
<1>2. CASE st2 # st
  <2>1. /\ k \in Ptrs => Hole(st.inode.direct[k])
        /\ \E got \in TakeBlock(st.bm, cache.dataRegion, {0}) :
             st2 = [bm    |-> got.bm,
                    calls |-> st.calls \o Append(got.mark, PutCells(got.num, got.buf)),
                    inode |-> [st.inode EXCEPT
                                 !.size = @ + BlockSize,
                                 !.direct = [l \in Ptrs |-> IF l = k THEN got.num + DataRegionAddr
                                                            ELSE @[l]]]]
    BY <1>2 DEF FillCalls, Hole
  <2>2. PICK got \in TakeBlock(st.bm, cache.dataRegion, {0}) :
             st2 = [bm    |-> got.bm,
                    calls |-> st.calls \o Append(got.mark, PutCells(got.num, got.buf)),
                    inode |-> [st.inode EXCEPT
                                 !.size = @ + BlockSize,
                                 !.direct = [l \in Ptrs |-> IF l = k THEN got.num + DataRegionAddr
                                                            ELSE @[l]]]]
    BY <2>1
  <2> DEFINE b    == got.num
             put  == PutCells(b, got.buf)
             more == Append(got.mark, put)
             addr == b + DataRegionAddr
  <2>3. st2.calls = st.calls \o more /\ st2.bm = got.bm
    BY <2>2
  <2>4. CASE Full(img)
    <3> DEFINE bit == DataBit(b)
               S   == {bit, put}
    <3>1. got.mark = <<>> \/ got.mark = <<bit>>
      BY DEF TakeBlock
    <3> HIDE DEF bit, put
    <3>2. <<>> \in Seq(S) /\ <<bit>> \in Seq(S) /\ put \in S
      OBVIOUS
    <3> HIDE DEF S
    <3>3. more \in Seq(S)
      BY <3>1, <3>2, AppendProperties
    <3> HIDE DEF more
    <3>4. Guarded(cache, st2.calls, img)
      BY <2>3, <2>4, <3>3, FullStaysGuarded DEF Filling
    <3> QED
      BY <2>4, <3>4 DEF Filling
  <2>5. CASE ~Full(img)
    <3>1. PICK blocks : img \in Images(blocks)
      BY <2>5 DEF Filling, InOrder
    <3>2. st.bm = img.dataBitmap /\ st.bm \subseteq DataBlocks /\ st.bm # DataBlocks
      BY <2>5, <3>1 DEF Filling, Images, Full
    <3>3. /\ b \in DataBlocks \ img.dataBitmap /\ st2.bm = img.dataBitmap \cup {b}
          /\ got.mark = <<DataBit(b)>>
      BY <2>3, <3>2, TakenBlock
    <3> HIDE DEF put
    <3> DEFINE marked == Effect(img, DataBit(b))
               after  == Effect(marked, put)
    <3>4. /\ InOrder(marked) /\ InOrder(after)
          /\ after.inodeBitmap = img.inodeBitmap
          /\ after.dataBitmap = img.dataBitmap \cup {b}
          /\ after.inodeTable = img.inodeTable
          /\ Fresh(after, addr)
      <4>1. InOrder(img)
        BY <2>5 DEF Filling
      <4> QED
        BY <3>3, <4>1, NewBlockInOrder DEF put
    <3>5. Guarded(cache, st2.calls, after)
      <4>1. Allowed(img) /\ Allowed(marked) /\ Allowed(after)
        BY <2>5, <3>4 DEF Allowed, Filling
      <4>2. Guarded(img, Append(<<DataBit(b)>>, put), after)
        BY <4>1, TwoCalls
      <4> HIDE DEF after
      <4>3. Guarded(img, more, after)
        BY <3>3, <4>2
      <4> QED
        BY <2>3, <4>3, MoreCalls DEF Filling
    <3>6. ~Hole(addr) /\ Rel(addr) = b /\ addr \in Int
      BY <3>3, AddressOfBlock
    <3>7. /\ st2.inode \in Inodes /\ st2.inode.type = st.inode.type
          /\ \A l \in Ptrs : st2.inode.direct[l] = IF l = k THEN addr ELSE st.inode.direct[l]
      <4>1. st.inode \in Inodes
        BY <2>5 DEF Filling
      <4> DEFINE filled == [l \in Ptrs |-> IF l = k THEN addr ELSE st.inode.direct[l]]
      <4>2. st2.inode = [st.inode EXCEPT !.size = @ + BlockSize, !.direct = filled]
        BY <2>2, <4>1 DEF Inodes
      <4>3. filled \in [Ptrs -> Int]
        BY <3>6, <4>1 DEF Inodes
      <4>4. \A l \in Ptrs : filled[l] = IF l = k THEN addr ELSE st.inode.direct[l]
        OBVIOUS
      <4> HIDE DEF filled
      <4> DEFINE new == [st.inode EXCEPT !.size = @ + BlockSize, !.direct = filled]
      <4>5. new \in Inodes /\ new.type = st.inode.type /\ new.direct = filled
        BY <4>1, <4>3, NewPointers
      <4>6. st2.inode = new
        BY <4>2
      <4> HIDE DEF new
      <4> QED
        BY <4>4, <4>5, <4>6
    <3> HIDE DEF addr, after, marked, b
    <3>8. ASSUME NEW l \in Ptrs
          PROVE  /\ \/ st2.inode.direct[l] = cache.inodeTable[inum].direct[l]
                    \/ Hole(cache.inodeTable[inum].direct[l]) /\ Fresh(after, st2.inode.direct[l])
                 /\ ~Hole(st2.inode.direct[l]) => Rel(st2.inode.direct[l]) \in after.dataBitmap
      <4>1. CASE l = k
        <5>1. Hole(st.inode.direct[l])
          BY <2>1, <4>1
        <5>2. Hole(cache.inodeTable[inum].direct[l])
          BY <2>5, <5>1 DEF Filling
        <5> QED
          BY <3>3, <3>4, <3>6, <3>7, <4>1, <5>2
      <4>2. CASE l # k
        BY <2>5, <3>4, <3>7, <4>2 DEF Filling, Fresh, Unowned
      <4> QED
        BY <4>1, <4>2
    <3>9. ASSUME NEW h \in Ptrs, NEW l \in Ptrs,
                 ~Hole(st2.inode.direct[h]), st2.inode.direct[h] = st2.inode.direct[l]
          PROVE  h = l
      <4>1. \A x \in Ptrs : ~Hole(st.inode.direct[x]) => st.inode.direct[x] # addr
        BY <2>5, <3>3, <3>6 DEF Filling
      <4> QED
        BY <2>5, <3>7, <3>9, <4>1 DEF Filling
    <3> QED
      BY <2>5, <3>3, <3>4, <3>5, <3>7, <3>8, <3>9 DEF Filling
  <2> QED
    BY <2>4, <2>5
<1> QED
  BY <1>1, <1>2

(* A file's data may be written to addr: no directory has it.              *)
DataReady(img, addr) ==
    \/ Full(img)
    \/ /\ InOrder(img)
       /\ addr \in Server!DataAddrs =>
            /\ Rel(addr) \in img.dataBitmap
            /\ \A d \in LiveDirs(img) : img.inodeTable[d].direct[0] # addr

LEMMA DataGuarded ==
    ASSUME NEW img, NEW addr, DataReady(img, addr), NEW rem, NEW n, NEW dup, NEW first
    PROVE  \E last : /\ Guarded(img, DataCalls(addr, rem, n, dup, first), last)
                     /\ \A other : DataReady(img, other) => DataReady(last, other)
<1> DEFINE cells == [j \in rem .. rem + n - 1 |-> dup[first + j - rem]]
           put   == PutCells(Rel(addr), cells)
           calls == DataCalls(addr, rem, n, dup, first)
           front == PutFront(addr)
<1>1. /\ calls \in {<<put>>, <<front>>, <<>>}
      /\ calls = <<put>> => addr \in Server!DataAddrs \/ calls \in {<<front>>, <<>>}
  BY DEF DataCalls, CellCalls, Rel
<1> HIDE DEF calls
<1>2. CASE Full(img)
  <2> HIDE DEF put
  <2> HIDE DEF front
  <2> DEFINE S == {put, front}
  <2>1. <<put>> \in Seq(S) /\ <<front>> \in Seq(S) /\ <<>> \in Seq(S)
    OBVIOUS
  <2> HIDE DEF S
  <2>2. calls \in Seq(S)
    BY <1>1, <2>1
  <2>3. Guarded(img, calls, img)
    BY <1>2, <2>2, FullIsGuarded
  <2> QED
    BY <2>3 DEF calls
<1>3. CASE ~Full(img) /\ calls = <<>>
  <2>1. Guarded(img, calls, img)
    BY <1>3, NoCalls DEF DataReady, Allowed
  <2> QED
    BY <2>1 DEF calls
<1>4. CASE ~Full(img) /\ calls = <<front>>
  <2> DEFINE last == Effect(img, front)
  <2>1. PICK blocks : img \in Images(blocks)
    BY <1>4 DEF DataReady, InOrder
  <2>2. /\ last.inodeBitmap = img.inodeBitmap /\ last.dataBitmap = img.dataBitmap
        /\ last.inodeTable = img.inodeTable
    BY <2>1, EffectOfPutFront
  <2>3. InOrder(img) /\ InOrder(last)
    BY <1>4, PutFrontKeepsOrder DEF DataReady
  <2>4. Guarded(img, calls, last)
    BY <1>4, <2>3, OneCall DEF Allowed
  <2> HIDE DEF last
  <2>5. \A other : DataReady(img, other) => DataReady(last, other)
    BY <1>4, <2>2, <2>3 DEF DataReady, LiveDirs
  <2> QED
    BY <2>4, <2>5 DEF calls
<1>5. CASE ~Full(img) /\ calls = <<put>> /\ addr \in Server!DataAddrs
  <2> DEFINE b    == Rel(addr)
             last == Effect(img, put)
  <2>1. PICK blocks : img \in Images(blocks)
    BY <1>5 DEF DataReady, InOrder
  <2>2. /\ b \in img.dataBitmap /\ InOrder(img)
        /\ \A d \in LiveDirs(img) : img.inodeTable[d].direct[0] # addr
    BY <1>5 DEF DataReady
  <2>3. b \in DataBlocks /\ addr = b + DataRegionAddr
    <3>1. PICK x \in DataBlocks : addr = x + DataRegionAddr
      BY <1>5 DEF Server!DataAddrs, DataBlocks
    <3> QED
      BY <3>1, AddressOfBlock
  <2> HIDE DEF b, cells
  <2>4. /\ last.inodeBitmap = img.inodeBitmap /\ last.dataBitmap = img.dataBitmap
        /\ last.inodeTable = img.inodeTable
    <3>1. last = Effect(img, PutCells(b, cells))
      BY DEF b
    <3> HIDE DEF last
    <3>2. LET after == Effect(img, PutCells(b, cells))
          IN  /\ after.inodeBitmap = img.inodeBitmap /\ after.dataBitmap = img.dataBitmap
              /\ after.inodeTable = img.inodeTable
      <4>1. img \in Images(blocks) /\ b \in DataBlocks
        BY <2>1, <2>3
      <4> QED
        BY <4>1 DEF Effect, PutCells, Images
    <3> QED
      BY <3>1, <3>2
  <2>5. InOrder(last)
    <3>1. put = PutCells(b, cells)
      BY DEF b
    <3>2. \A d \in LiveDirs(img) : img.inodeTable[d].direct[0] # b + DataRegionAddr
      BY <2>2, <2>3
    <3> HIDE DEF put
    <3> QED
      BY <2>2, <3>1, <3>2, PutCellsKeepsOrder
  <2>6. Guarded(img, calls, last)
    BY <1>5, <2>2, <2>5, OneCall DEF Allowed
  <2> HIDE DEF last
  <2>7. \A other : DataReady(img, other) => DataReady(last, other)
    BY <1>5, <2>4, <2>5 DEF DataReady, LiveDirs
  <2> QED
    BY <2>6, <2>7 DEF calls
<1> QED
  BY <1>1, <1>2, <1>3, <1>4, <1>5

(* The inode is written when the holes are filled.                         *)
LEMMA InodeGuarded ==
    ASSUME NEW inum \in Inums, NEW st, NEW img, Filling(st, img, inum),
           inum \in cache.inodeBitmap,
           cache.inodeTable[inum].type # Server!MFS_DIRECTORY
    PROVE  \E last :
             /\ Guarded(img, <<PutInode(inum, st.inode)>>, last)
             /\ \A k \in Ptrs : /\ DataReady(last, st.inode.direct[k])
                                /\ DataReady(last, cache.inodeTable[inum].direct[k])
<1> DEFINE put == PutInode(inum, st.inode)
<1>1. CASE Full(img)
  <2> HIDE DEF put
  <2>1. <<put>> \in Seq({put})
    OBVIOUS
  <2>2. Guarded(img, <<put>>, img)
    BY <1>1, <2>1, FullIsGuarded
  <2> QED
    BY <1>1, <2>2 DEF DataReady, put
<1>2. CASE ~Full(img)
  <2> DEFINE last == Effect(img, put)
             old(k) == cache.inodeTable[inum].direct[k]
             new(k) == st.inode.direct[k]
  <2>1. /\ InOrder(img) /\ inum \in img.inodeBitmap
        /\ img.inodeTable[inum].type # Server!MFS_DIRECTORY
        /\ img.inodeTable = cache.inodeTable
        /\ st.inode \in Inodes /\ st.inode.type = img.inodeTable[inum].type
        /\ \A k \in Ptrs : new(k) = old(k) \/ (Hole(old(k)) /\ Fresh(img, new(k)))
        /\ \A k, l \in Ptrs : ~Hole(new(k)) /\ new(k) = new(l) => k = l
    BY <1>2 DEF Filling
  <2>2. PICK blocks : img \in Images(blocks)
    BY <2>1 DEF InOrder
  <2>3. /\ last \in Images(blocks)
        /\ last.inodeBitmap = img.inodeBitmap
        /\ last.inodeTable = [img.inodeTable EXCEPT ![inum] = st.inode]
    BY <2>1, <2>2, EffectOfPutInode
  <2>4. InOrder(last)
    <3>1. /\ \A k \in Ptrs : \/ st.inode.direct[k] = img.inodeTable[inum].direct[k]
                             \/ Fresh(img, st.inode.direct[k])
          /\ \A k, l \in Ptrs : ~Hole(st.inode.direct[k])
                                /\ st.inode.direct[k] = st.inode.direct[l] => k = l
      BY <2>1
    <3> QED
      BY <2>1, <3>1, WrittenInodeKeepsOrder
  <2>5. Guarded(img, <<put>>, last)
    BY <2>1, <2>4, OneCall DEF Allowed
  <2> HIDE DEF last, put
  <2>6. \A j \in Inums : last.inodeTable[j] = IF j = inum THEN st.inode ELSE img.inodeTable[j]
    BY <2>2, <2>3 DEF Images
  <2>7. LiveDirs(last) \subseteq Inums \ {inum}
    BY <2>1, <2>3, <2>6 DEF LiveDirs, Images
  <2>8. \A addr \in Server!DataAddrs : ~Hole(addr)
    <3>1. \A x \in DataBlocks : ~Hole(x + DataRegionAddr)
      BY AddressOfBlock
    <3> QED
      BY <3>1 DEF Server!DataAddrs, DataBlocks
  <2>9. ASSUME NEW k \in Ptrs PROVE DataReady(last, new(k))
    <3>1. last.inodeTable[inum].direct[k] = new(k)
      BY <2>6
    <3> HIDE DEF new
    <3>2. ASSUME ~Hole(new(k))
          PROVE  /\ Rel(new(k)) \in last.dataBitmap
                 /\ \A d \in LiveDirs(last) : last.inodeTable[d].direct[0] # new(k)
      <4>1. PointersOK(last)
        BY <2>4 DEF InOrder
      <4> QED
        BY <2>7, <3>1, <3>2, <4>1, Sizes DEF PointersOK
    <3> QED
      BY <2>4, <2>8, <3>2 DEF DataReady
  <2>10. ASSUME NEW k \in Ptrs PROVE DataReady(last, old(k))
    <3>1. CASE new(k) = old(k)
      BY <2>9, <3>1
    <3>2. CASE Hole(old(k))
      BY <2>4, <2>8, <3>2 DEF DataReady
    <3> QED
      BY <2>1, <3>1, <3>2
  <2> QED
    BY <2>5, <2>9, <2>10 DEF put
<1> QED
  BY <1>1, <1>2

LEMMA WriteGuarded ==
    ASSUME InOrder(cache), NEW inum \in Inums, NEW offset \in Offsets, NEW nbytes \in Lengths,
           NEW buf, Write(inum, offset, nbytes, buf)
    PROVE  \E last : Guarded(cache, todo', last)
<1> DEFINE bi      == Server!BlockIndex(offset)
           crossed == Server!CrossedIndex(offset, nbytes)
           rem     == offset - bi * BlockSize
           before  == (bi + 1) * BlockSize - offset
           inode   == cache.inodeTable[inum]
           st0     == [bm |-> cache.dataBitmap, calls |-> <<>>, inode |-> inode]
           data(st, dup) ==
             IF crossed = bi THEN DataCalls(inode.direct[bi], rem, nbytes, dup, 0)
             ELSE DataCalls(st.inode.direct[bi], rem, before, dup, 0) \o
                  IF crossed \in Ptrs
                    THEN DataCalls(st.inode.direct[crossed], 0, nbytes - before, dup, before)
                    ELSE <<>>
<1>1. Done = cache
  BY DoneAtOnce DEF Write, Idle
<1>2. /\ inum \in cache.inodeBitmap /\ inode.type # Server!MFS_DIRECTORY
      /\ bi < DirectPtrs
  BY <1>1 DEF Write, Server!Writable, Server!Served
<1>3. bi \in Ptrs
  <2>1. offset \in Nat
    BY ServerAssumption DEF Server!RequestsAssumption
  <2>2. bi \in Nat
    BY <2>1, Sizes DEF Server!BlockIndex
  <2> HIDE DEF bi
  <2> QED
    BY <1>2, <2>2, Sizes DEF Ptrs, Server!Ptrs
<1>4. PICK beyond \in BOOLEAN, dup \in Server!Duplicates(buf, nbytes) :
        \E st1 \in FillCalls(st0, bi, beyond) :
        \E st2 \in IF crossed # bi THEN FillCalls(st1, crossed, beyond) ELSE {st1} :
          todo' = st2.calls \o <<PutInode(inum, st2.inode)>> \o data(st2, dup) \o <<Fsync>>
  BY DEF Write, WriteOrder
<1> HIDE DEF bi, crossed, rem, before, inode, st0, data
<1>5. PICK st1 \in FillCalls(st0, bi, beyond) :
        \E st2 \in IF crossed # bi THEN FillCalls(st1, crossed, beyond) ELSE {st1} :
          todo' = st2.calls \o <<PutInode(inum, st2.inode)>> \o data(st2, dup) \o <<Fsync>>
  BY <1>4
<1>6. PICK st2 \in IF crossed # bi THEN FillCalls(st1, crossed, beyond) ELSE {st1} :
          todo' = st2.calls \o <<PutInode(inum, st2.inode)>> \o data(st2, dup) \o <<Fsync>>
  BY <1>5
<1>7. Filling(st0, cache, inum)
  <2>1. Guarded(cache, <<>>, cache)
    BY NoCalls DEF Allowed
  <2>2. PICK blocks : cache \in Images(blocks)
    BY DEF InOrder
  <2>3. inode \in Inodes
    BY <2>2 DEF Images, inode
  <2>4. /\ \A k \in Ptrs : ~Hole(inode.direct[k]) => Rel(inode.direct[k]) \in cache.dataBitmap
        /\ \A k, l \in Ptrs : ~Hole(inode.direct[k]) /\ inode.direct[k] = inode.direct[l]
                                => k = l
    BY DEF InOrder, PointersOK, inode
  <2>5. st0.bm = cache.dataBitmap /\ st0.calls = <<>> /\ st0.inode = inode
    BY DEF st0
  <2> HIDE DEF st0
  <2> QED
    BY <2>1, <2>3, <2>4, <2>5 DEF Filling, inode
<1>8. PICK img1 : Filling(st1, img1, inum)
  BY <1>5, <1>7, FillKeepsFilling
<1>9. PICK img2 : Filling(st2, img2, inum)
  <2>1. CASE crossed # bi
    BY <1>6, <1>8, <2>1, FillKeepsFilling
  <2>2. CASE crossed = bi
    BY <1>6, <1>8, <2>2
  <2> QED
    BY <2>1, <2>2
<1>10. PICK img3 :
         /\ Guarded(img2, <<PutInode(inum, st2.inode)>>, img3)
         /\ \A k \in Ptrs : DataReady(img3, st2.inode.direct[k]) /\ DataReady(img3, inode.direct[k])
  BY <1>2, <1>9, InodeGuarded DEF inode
<1>11. PICK last : Guarded(img3, data(st2, dup), last)
  <2>1. CASE crossed = bi
    <3>1. data(st2, dup) = DataCalls(inode.direct[bi], rem, nbytes, dup, 0)
      BY <2>1 DEF data
    <3> QED
      BY <1>3, <1>10, <3>1, DataGuarded
  <2>2. CASE crossed # bi
    <3> DEFINE front == DataCalls(st2.inode.direct[bi], rem, before, dup, 0)
               back  == IF crossed \in Ptrs
                          THEN DataCalls(st2.inode.direct[crossed], 0, nbytes - before,
                                         dup, before)
                          ELSE <<>>
    <3>1. data(st2, dup) = front \o back
      BY <2>2 DEF data
    <3>2. PICK mid : /\ Guarded(img3, front, mid)
                     /\ \A other : DataReady(img3, other) => DataReady(mid, other)
      BY <1>3, <1>10, DataGuarded
    <3>3. CASE crossed \in Ptrs
      <4>1. DataReady(mid, st2.inode.direct[crossed])
        BY <1>10, <3>2, <3>3
      <4>2. PICK last : Guarded(mid, back, last)
        BY <3>3, <4>1, DataGuarded
      <4> QED
        BY <3>1, <3>2, <4>2, MoreCalls
    <3>4. CASE crossed \notin Ptrs
      <4>1. back = <<>>
        BY <3>4
      <4>2. DataReady(mid, inode.direct[bi])
        BY <1>3, <1>10, <3>2
      <4>3. Guarded(mid, back, mid)
        BY <4>1, <4>2, NoCalls DEF DataReady, Allowed
      <4> QED
        BY <3>1, <3>2, <4>3, MoreCalls
    <3> QED
      BY <3>3, <3>4
  <2> QED
    BY <2>1, <2>2
<1>12. Guarded(cache, st2.calls, img2)
  BY <1>9 DEF Filling
<1> DEFINE put == <<PutInode(inum, st2.inode)>>
<1> HIDE DEF put
<1>13. Guarded(cache, st2.calls \o put, img3)
  BY <1>10, <1>12, MoreCalls DEF put
<1>14. Guarded(cache, st2.calls \o put \o data(st2, dup), last)
  BY <1>11, <1>13, MoreCalls
<1>15. Guarded(cache, st2.calls \o put \o data(st2, dup) \o <<Fsync>>, last)
  BY <1>14, FsyncToo
<1> QED
  BY <1>6, <1>15 DEF put

-----------------------------------------------------------------------------
(***************************************************************************)
(* The inductive invariant: what the handler has still to do leaves an     *)
(* image in order after each call.                                         *)
(***************************************************************************)
OrderInv == Sound => ~Full(cache) /\ \E last : Guarded(cache, todo, last)

(* mkfs's image.                                                           *)
LEMMA FormattedInOrder ==
    ASSUME Server!NoLeftovers, Init
    PROVE  InOrder(cache) /\ cache.dataBitmap = {0} /\ todo = <<>>
<1>1. PICK stale \in [Inums \ {0} -> StaleInodes], junk \in StackNames :
        cache = [frontIntact |-> TRUE, inodeBitmap |-> {0}, dataBitmap |-> {0},
                 inodeTable  |-> [i \in Inums |-> IF i = 0 THEN Server!RootInode
                                                  ELSE stale[i]],
                 dataRegion  |-> [b \in Server!DataBlocks |->
                                    IF b = 0 THEN Server!RootBlock(junk)
                                    ELSE [j \in Slots |-> Server!ZeroCell]]]
  BY DEF Init
<1> DEFINE root   == Server!RootBlock(junk)
           zero   == [j \in Slots |-> Server!ZeroCell]
           blocks == {root, zero}
<1>2. /\ cache.frontIntact = TRUE /\ cache.inodeBitmap = {0} /\ cache.dataBitmap = {0}
      /\ cache.inodeTable = [i \in Inums |-> IF i = 0 THEN Server!RootInode ELSE stale[i]]
      /\ cache.dataRegion = [b \in DataBlocks |-> IF b = 0 THEN root ELSE zero]
  BY <1>1 DEF DataBlocks
<1>3. /\ root \in [Slots -> {root[j] : j \in Slots}]
      /\ root[0] = Server!Entry(".", 0) /\ root[1] = Server!Entry("..", 0)
      /\ \A j \in Slots : root[j].inum \in {0, -1}
  <2>1. /\ root[0] = Server!Entry(".", 0) /\ root[1] = Server!Entry("..", 0)
        /\ \A j \in Slots \ {0, 1} : root[j] = Server!Entry(junk, -1)
    BY Sizes DEF Server!RootBlock, Slots
  <2>2. \A name, i : Server!Entry(name, i).inum = i
    BY DEF Server!Entry
  <2>3. root = [j \in Slots |-> root[j]]
    BY DEF Server!RootBlock, Slots
  <2> HIDE DEF root
  <2> QED
    BY <2>1, <2>2, <2>3
<1>4. \A j \in Slots : zero[j].inum = 0
  <2>1. Server!ZeroCell.inum = 0
    BY DEF Server!ZeroCell, Server!Entry
  <2> QED
    BY <2>1
<1>5. DOMAIN root = Slots /\ DOMAIN zero = Slots
  BY <1>3
<1> HIDE DEF root, zero
<1>6. \A k \in Ptrs : Server!RootInode.direct[k] = IF k = 0 THEN DataRegionAddr ELSE -1
  BY DEF Server!RootInode, Ptrs
<1>7. ASSUME NEW i \in Inums \ {0}
      PROVE  /\ cache.inodeTable[i] \in Inodes
             /\ \A k \in Ptrs : Hole(cache.inodeTable[i].direct[k])
  <2>1. cache.inodeTable[i] = stale[i] /\ stale[i] \in StaleInodes
    BY <1>2, <1>7
  <2>2. stale[i] \in Inodes
    BY <2>1, ServerAssumption DEF Server!LeftoversAssumption, Inodes, Ptrs
  <2>3. \A k \in Ptrs : Hole(stale[i].direct[k])
    BY <2>1 DEF Server!NoLeftovers, Server!LeftoverPtrs, Ptrs, Hole
  <2> QED
    BY <2>1, <2>2, <2>3
<1>8. Server!RootInode \in Inodes /\ cache.inodeTable[0] = Server!RootInode
  BY <1>2, Sizes DEF Server!RootInode, Inodes, Ptrs, Server!MFS_DIRECTORY
<1>9. cache \in Images(blocks)
  <2>1. cache.inodeTable \in [Inums -> Inodes]
    BY <1>2, <1>7, <1>8
  <2>2. cache.dataRegion \in [DataBlocks -> blocks]
    BY <1>2
  <2>3. cache = [frontIntact |-> cache.frontIntact, inodeBitmap |-> cache.inodeBitmap,
                 dataBitmap |-> cache.dataBitmap, inodeTable |-> cache.inodeTable,
                 dataRegion |-> cache.dataRegion]
    BY <1>1
  <2>4. /\ cache.frontIntact \in BOOLEAN /\ cache.inodeBitmap \in SUBSET Inums
        /\ cache.dataBitmap \in SUBSET DataBlocks
    BY <1>2, Sizes
  <2> HIDE DEF blocks
  <2> QED
    BY <2>1, <2>2, <2>3, <2>4 DEF Images
<1>10. \A i \in Inums, k \in Ptrs :
          ~Hole(cache.inodeTable[i].direct[k]) =>
             i = 0 /\ k = 0 /\ cache.inodeTable[i].direct[k] = DataRegionAddr
  BY <1>6, <1>7, <1>8 DEF Hole, Server!Hole
<1>11. Rel(DataRegionAddr) = 0
  BY Sizes DEF Rel, Server!Rel
<1>12. PointersOK(cache)
  BY <1>2, <1>10, <1>11 DEF PointersOK
<1>13. DirsOK(cache)
  <2>1. LiveDirs(cache) = {0}
    BY <1>2, <1>8 DEF LiveDirs, Server!RootInode
  <2>2. DirBlockOf(cache, 0, root)
    <3>1. root[1].name = ".." /\ root[1].inum = 0
      BY <1>3 DEF Server!Entry
    <3> QED
      BY <1>2, <1>3, <2>1, <3>1 DEF DirBlockOf
  <2>3. cache.dataRegion[Rel(cache.inodeTable[0].direct[0])] = root
    BY <1>2, <1>6, <1>8, <1>11, Sizes
  <2>4. \A k \in Ptrs \ {0} : Hole(cache.inodeTable[0].direct[k])
    BY <1>6, <1>8 DEF Hole, Server!Hole
  <2> QED
    BY <2>1, <2>2, <2>3, <2>4 DEF DirsOK
<1>14. \A x \in cache.inodeBitmap : 0 .. x \subseteq cache.inodeBitmap
  BY <1>2
<1>15. /\ \A b \in DataBlocks : Slots \subseteq DOMAIN cache.dataRegion[b]
       /\ \A b \in DataBlocks \ cache.dataBitmap, j \in Slots : cache.dataRegion[b][j].inum = 0
  BY <1>2, <1>4, <1>5
<1>16. todo = <<>>
  BY DEF Init
<1>17. InOrder(cache)
  BY <1>2, <1>9, <1>12, <1>13, <1>14, <1>15 DEF InOrder
<1> QED
  BY <1>2, <1>16, <1>17

LEMMA OrderInit ==
    ASSUME Server!NoLeftovers, Init
    PROVE  OrderInv
<1> SUFFICES ASSUME Sound PROVE ~Full(cache) /\ \E last : Guarded(cache, todo, last)
  BY DEF OrderInv
<1>1. InOrder(cache) /\ cache.dataBitmap = {0} /\ todo = <<>>
  BY FormattedInOrder
<1>2. DataBlocks # {0}
  BY DEF Sound, Init, DataBlocks
<1> QED
  BY <1>1, <1>2, NoCalls DEF Full, Allowed

LEMMA OrderStep ==
    ASSUME Server!NoLeftovers, OrderInv, [Next]_vars
    PROVE  OrderInv'
<1> SUFFICES ASSUME Sound'
             PROVE  ~Full(cache') /\ \E last : Guarded(cache', todo', last)
  BY DEF OrderInv, Full, Guarded, Allowed, InOrder, Images, PointersOK, DirsOK, DirBlockOf
<1>1. Sound
  <2>1. ~torn' /\ ~full'
    BY DEF Sound
  <2>2. CASE Call
    <3>1. ~full
      BY <2>1, <2>2, Zenon DEF Call
    <3>2. torn' = torn
      BY <2>2 DEF Call
    <3> QED
      BY <2>1, <3>1, <3>2 DEF Sound
  <2>3. CASE PowerLoss
    <3>1. ~torn
      <4>1. PICK img \in Leftovers : torn' = (torn \/ todo # <<>> \/ img # cache)
        BY <2>3 DEF PowerLoss
      <4> QED
        BY <2>1, <4>1, Zenon
    <3>2. full' = full
      BY <2>3 DEF PowerLoss
    <3> QED
      BY <2>1, <3>1, <3>2 DEF Sound
  <2>4. CASE ~Call /\ ~PowerLoss
    <3>1. Start \/ Interrupt \/ Shutdown \/ Sync \/ UNCHANGED vars
          \/ \E i \in Inums :
               \/ Stat(i)
               \/ \E name \in Names, type \in CreatTypes : Creat(i, type, name)
               \/ \E offset \in Offsets, nbytes \in Lengths : \E buf : Write(i, offset, nbytes, buf)
      BY <2>4 DEF Next
    <3>2. Start \/ Interrupt \/ Shutdown \/ Sync \/ UNCHANGED vars => UNCHANGED <<full, torn>>
      BY DEF Start, Interrupt, Shutdown, Sync, vars
    <3>3. \A i : Stat(i) => UNCHANGED <<full, torn>>
      BY DEF Stat
    <3>4. \A i, name, type : Creat(i, name, type) => UNCHANGED <<full, torn>>
      BY DEF Creat
    <3>5. \A i, offset, nbytes, buf : Write(i, offset, nbytes, buf) => UNCHANGED <<full, torn>>
      BY DEF Write
    <3>6. full' = full /\ torn' = torn
      BY <3>1, <3>2, <3>3, <3>4, <3>5
    <3> QED
      BY <2>1, <3>6 DEF Sound
  <2> QED
    BY <2>2, <2>3, <2>4
<1>2. PICK last : Guarded(cache, todo, last)
  BY <1>1 DEF OrderInv
<1>3. ~Full(cache) /\ InOrder(cache)
  BY <1>1, <1>2, GuardedIsAllowed DEF OrderInv, Allowed
<1>4. Guarded(cache, <<>>, cache)
  BY <1>3, NoCalls DEF Allowed
<1>5. CASE UNCHANGED vars
  BY <1>2, <1>3, <1>5 DEF vars
<1>6. CASE Start \/ Shutdown
  BY <1>2, <1>3, <1>6 DEF Start, Shutdown
<1>7. CASE Interrupt
  BY <1>3, <1>4, <1>7 DEF Interrupt
<1>8. CASE PowerLoss
  <2>1. cache' = cache /\ todo' = <<>>
    BY <1>8 DEF PowerLoss, Sound
  <2> QED
    BY <1>3, <1>4, <2>1
<1>9. CASE Call
  <2>1. cache' = Effect(cache, Head(todo)) /\ todo' = Tail(todo) /\ todo # <<>>
    BY <1>9 DEF Call
  <2>2. ~Full(cache')
    BY <1>9 DEF Call, Sound, Full, DataBlocks
  <2> QED
    BY <1>2, <1>3, <2>1, <2>2, FirstCall
<1>10. CASE Sync
  <2>1. cache' = cache /\ todo' = Tail(todo) /\ todo # <<>> /\ Head(todo).to = "disk"
    BY <1>10 DEF Sync
  <2>2. Effect(cache, Head(todo)) = cache
    BY <2>1 DEF Effect
  <2> QED
    BY <1>2, <1>3, <2>1, <2>2, FirstCall
<1>11. ASSUME NEW i \in Inums, Stat(i)
       PROVE  ~Full(cache') /\ \E final : Guarded(cache', todo', final)
  <2>1. cache' = cache /\ todo' = <<Fsync>>
    BY <1>11 DEF Stat
  <2>2. Guarded(cache, <<Fsync>>, cache)
    BY <1>3, OneCall, EffectOfFsync DEF Allowed
  <2> QED
    BY <1>3, <2>1, <2>2
<1>12. ASSUME NEW i \in Inums, NEW name \in Names, NEW type \in CreatTypes, Creat(i, type, name)
       PROVE  ~Full(cache') /\ \E final : Guarded(cache', todo', final)
  <2>1. cache' = cache
    BY <1>12 DEF Creat
  <2> QED
    BY <1>3, <1>12, <2>1, CreatGuarded
<1>13. ASSUME NEW i \in Inums, NEW offset \in Offsets, NEW nbytes \in Lengths,
              NEW buf, Write(i, offset, nbytes, buf)
       PROVE  ~Full(cache') /\ \E final : Guarded(cache', todo', final)
  <2>1. cache' = cache
    BY <1>13 DEF Write
  <2> QED
    BY <1>3, <1>13, <2>1, WriteGuarded
<1> QED
  BY <1>5, <1>6, <1>7, <1>8, <1>9, <1>10, <1>11, <1>12, <1>13 DEF Next

(* Between any two calls of a handler the image is in order.               *)
LEMMA AlwaysInOrder ==
    ASSUME Server!NoLeftovers
    PROVE  Spec => [](Sound => InOrder(cache))
<1>1. OrderInv => (Sound => InOrder(cache))
  BY GuardedIsAllowed DEF OrderInv, Allowed
<1>2. Init => OrderInv
  BY OrderInit
<1>3. OrderInv /\ [Next]_vars => OrderInv'
  BY OrderStep
<1> QED
  BY <1>1, <1>2, <1>3, PTL DEF Spec
-----------------------------------------------------------------------------
(***************************************************************************)
(* What it is for.                                                         *)
(***************************************************************************)

(* UsedBlocksAreMarked (MFSCrash): wherever SIGINT ends run_cret or        *)
(* run_write, and after a power failure between two requests, no block     *)
(* that a live inode points to is free or has a second owner.              *)
THEOREM InterruptsKeepBlocks ==
    ASSUME Server!NoLeftovers
    PROVE  Spec => []UsedBlocksAreMarked
<1>1. (Sound => InOrder(cache)) => UsedBlocksAreMarked
  <2> SUFFICES ASSUME Sound, InOrder(cache)
               PROVE  /\ \A r \in Refs(cache) : Rel(Target(cache, r)) \in cache.dataBitmap
                      /\ \A r, s \in Refs(cache) : r # s => Target(cache, r) # Target(cache, s)
    BY DEF UsedBlocksAreMarked, Rel
  <2>1. PICK blocks : cache \in Images(blocks)
    BY DEF InOrder
  <2>2. ASSUME NEW r \in Refs(cache)
        PROVE  /\ r[1] \in Inums /\ r[2] \in Ptrs /\ r = <<r[1], r[2]>>
               /\ ~Hole(cache.inodeTable[r[1]].direct[r[2]])
               /\ Target(cache, r) = cache.inodeTable[r[1]].direct[r[2]]
    BY <2>1 DEF Refs, Images, Target, Hole
  <2>3. PointersOK(cache)
    BY DEF InOrder
  <2>4. \A r \in Refs(cache) : Rel(Target(cache, r)) \in cache.dataBitmap
    BY <2>2, <2>3 DEF PointersOK
  <2>5. ASSUME NEW r \in Refs(cache), NEW s \in Refs(cache), Target(cache, r) = Target(cache, s)
        PROVE  r = s
    <3>1. r[1] = s[1] /\ r[2] = s[2]
      BY <2>2, <2>3, <2>5 DEF PointersOK
    <3> QED
      BY <2>2, <3>1
  <2> QED
    BY <2>4, <2>5
<1> QED
  BY <1>1, AlwaysInOrder, PTL

(* EntriesNameReservedInodes (MFSCrash): the entry is written after the    *)
(* inode's bit, so that no cut-off create leaves a name without an inode.  *)
THEOREM InterruptsKeepNames ==
    ASSUME Server!NoLeftovers
    PROVE  Spec => []EntriesNameReservedInodes
<1>1. (Sound => InOrder(cache)) => EntriesNameReservedInodes
  <2> SUFFICES ASSUME Sound, InOrder(cache), NEW d \in LiveDirs(cache),
                      NEW k \in Server!Scanned(cache.inodeTable[d]), NEW j \in Slots
               PROVE  Server!EntryAt(cache.dataRegion, cache.inodeTable[d], k, j).inum
                        \in cache.inodeBitmap \cup {-1}
    BY DEF EntriesNameReservedInodes
  <2>1. k \in Ptrs /\ ~Hole(cache.inodeTable[d].direct[k])
    <3>1. k \in Ptrs /\ \A l \in 0 .. k : ~Server!Hole(cache.inodeTable[d].direct[l])
      BY DEF Server!Scanned, Ptrs
    <3>2. k \in 0 .. k
      BY <3>1, Sizes
    <3> QED
      BY <3>1, <3>2 DEF Hole
  <2>2. k = 0
    BY <2>1 DEF InOrder, DirsOK
  <2>3. DirBlockOf(cache, d, cache.dataRegion[Rel(cache.inodeTable[d].direct[0])])
    BY <2>1, <2>2 DEF InOrder, DirsOK
  <2> QED
    BY <2>2, <2>3 DEF DirBlockOf, Server!EntryAt, Rel
<1> QED
  BY <1>1, AlwaysInOrder, PTL

(* BegunDirectoriesLeadToRoot (MFSCrash): a directory's block is written   *)
(* before the inode that points to it.                                     *)
THEOREM InterruptsKeepTree ==
    ASSUME Server!NoLeftovers
    PROVE  Spec => []BegunDirectoriesLeadToRoot
<1>1. (Sound => InOrder(cache)) => BegunDirectoriesLeadToRoot
  BY DEF BegunDirectoriesLeadToRoot, InOrder, DirsOK, DirBlockOf, Hole, Rel
<1> QED
  BY <1>1, AlwaysInOrder, PTL
-----------------------------------------------------------------------------
(***************************************************************************)
(* The calls add up to the handlers of MFSServer.  Nothing is asked of the *)
(* image here but its shape, on a full disk and with stale pointers too.   *)
(***************************************************************************)
ShapedInodes == [type : Int, size : Int, direct : [Ptrs -> Server!Pointers]]
Bitmaps == SUBSET DataBlocks
Regions == [DataBlocks -> Server!Blocks]
Shaped  == [frontIntact : BOOLEAN, inodeBitmap : SUBSET Inums, dataBitmap : Bitmaps,
            inodeTable  : [Inums -> ShapedInodes], dataRegion : Regions]

(* Cells of a block, or of a part of one.                                  *)
Parts == UNION {[D -> Server!Cells] : D \in SUBSET Slots}
Calls ==
    {InodeBit(i) : i \in Inums} \cup {DataBit(b) : b \in DataBlocks}
    \cup {PutInode(i, inode) : i \in Inums, inode \in ShapedInodes}
    \cup {PutCells(b, cells) : b \in DataBlocks, cells \in Parts}
    \cup {PutFront(addr) : addr \in Int} \cup {Fsync}

LEMMA ShapeAfterInodeBit ==
    ASSUME NEW img \in Shaped, NEW i \in Inums
    PROVE  LET after == Effect(img, InodeBit(i))
           IN  /\ after \in Shaped /\ after.frontIntact = img.frontIntact
               /\ after.inodeBitmap = img.inodeBitmap \cup {i}
               /\ after.dataBitmap = img.dataBitmap
               /\ after.inodeTable = img.inodeTable
               /\ after.dataRegion = img.dataRegion
BY DEF Effect, InodeBit, Shaped

LEMMA ShapeAfterDataBit ==
    ASSUME NEW img \in Shaped, NEW b \in DataBlocks
    PROVE  LET after == Effect(img, DataBit(b))
           IN  /\ after \in Shaped /\ after.frontIntact = img.frontIntact
               /\ after.inodeBitmap = img.inodeBitmap
               /\ after.dataBitmap = img.dataBitmap \cup {b}
               /\ after.inodeTable = img.inodeTable
               /\ after.dataRegion = img.dataRegion
BY DEF Effect, DataBit, Shaped, Bitmaps

LEMMA ShapeAfterPutInode ==
    ASSUME NEW img \in Shaped, NEW i \in Inums, NEW inode \in ShapedInodes
    PROVE  LET after == Effect(img, PutInode(i, inode))
           IN  /\ after \in Shaped /\ after.frontIntact = img.frontIntact
               /\ after.inodeBitmap = img.inodeBitmap
               /\ after.dataBitmap = img.dataBitmap
               /\ after.inodeTable = [img.inodeTable EXCEPT ![i] = inode]
               /\ after.dataRegion = img.dataRegion
BY DEF Effect, PutInode, Shaped

(* Cells over those of a block make a block; a whole block replaces it.    *)
LEMMA OverBlock ==
    ASSUME NEW cells \in Parts, NEW block \in Server!Blocks
    PROVE  /\ Over(cells, block) \in Server!Blocks
           /\ DOMAIN cells \subseteq Slots
           /\ Over(cells, block) = [j \in Slots |-> IF j \in DOMAIN cells THEN cells[j]
                                                    ELSE block[j]]
<1>1. PICK D \in SUBSET Slots : cells \in [D -> Server!Cells]
  BY DEF Parts
<1>2. DOMAIN cells = D /\ DOMAIN block = Slots /\ \A j \in Slots : block[j] \in Server!Cells
  BY <1>1 DEF Server!Blocks, Slots
<1>3. DOMAIN block \cup DOMAIN cells = Slots
  BY <1>2
<1>4. \A j \in Slots : (IF j \in DOMAIN cells THEN cells[j] ELSE block[j]) \in Server!Cells
  BY <1>1, <1>2
<1>5. Over(cells, block) = [j \in Slots |-> IF j \in DOMAIN cells THEN cells[j] ELSE block[j]]
  BY <1>3 DEF Over
<1> QED
  BY <1>2, <1>4, <1>5 DEF Server!Blocks, Slots

LEMMA BlockIsPart ==
    /\ Server!Blocks \subseteq Parts
    /\ \A cells, block \in Server!Blocks : Over(cells, block) = cells
<1>1. Server!Blocks \subseteq Parts
  BY DEF Parts, Server!Blocks, Slots
<1>2. ASSUME NEW cells \in Server!Blocks, NEW block \in Server!Blocks
      PROVE  Over(cells, block) = cells
  <2>1. cells \in [Slots -> Server!Cells]
    BY DEF Server!Blocks, Slots
  <2>2. Over(cells, block) = [j \in Slots |-> IF j \in DOMAIN cells THEN cells[j] ELSE block[j]]
    BY <1>1, OverBlock
  <2> QED
    BY <2>1, <2>2
<1> QED
  BY <1>1, <1>2

LEMMA ShapeAfterPutCells ==
    ASSUME NEW img \in Shaped, NEW b \in DataBlocks, NEW cells \in Parts
    PROVE  LET after == Effect(img, PutCells(b, cells))
           IN  /\ after \in Shaped /\ after.frontIntact = img.frontIntact
               /\ after.inodeBitmap = img.inodeBitmap
               /\ after.dataBitmap = img.dataBitmap
               /\ after.inodeTable = img.inodeTable
               /\ after.dataRegion = [img.dataRegion EXCEPT ![b] = Over(cells, img.dataRegion[b])]
<1> DEFINE block == Over(cells, img.dataRegion[b])
<1>1. img.dataRegion[b] \in Server!Blocks
  BY DEF Shaped, Regions
<1>2. block \in Server!Blocks
  BY <1>1, OverBlock
<1>3. Effect(img, PutCells(b, cells)) = [img EXCEPT !.dataRegion[b] = block]
  BY DEF Effect, PutCells
<1> HIDE DEF block
<1>4. LET after == [img EXCEPT !.dataRegion[b] = block]
      IN  /\ after \in Shaped /\ after.frontIntact = img.frontIntact
          /\ after.inodeBitmap = img.inodeBitmap
          /\ after.dataBitmap = img.dataBitmap
          /\ after.inodeTable = img.inodeTable
          /\ after.dataRegion = [img.dataRegion EXCEPT ![b] = block]
  BY <1>2 DEF Shaped, Regions
<1> QED
  BY <1>3, <1>4 DEF block

LEMMA ShapeAfterPutFront ==
    ASSUME NEW img \in Shaped, NEW addr
    PROVE  LET after == Effect(img, PutFront(addr))
           IN  /\ after \in Shaped /\ after.frontIntact = FALSE
               /\ after.inodeBitmap = img.inodeBitmap
               /\ after.dataBitmap = img.dataBitmap
               /\ after.inodeTable = img.inodeTable
               /\ after.dataRegion = img.dataRegion
BY DEF Effect, PutFront, Shaped

LEMMA CallKeepsShape ==
    ASSUME NEW img \in Shaped, NEW call \in Calls
    PROVE  Effect(img, call) \in Shaped
<1>1. CASE call \in {InodeBit(i) : i \in Inums}
  BY <1>1, ShapeAfterInodeBit
<1>2. CASE call \in {DataBit(b) : b \in DataBlocks}
  BY <1>2, ShapeAfterDataBit
<1>3. CASE call \in {PutInode(i, inode) : i \in Inums, inode \in ShapedInodes}
  <2>1. PICK i \in Inums, inode \in ShapedInodes : call = PutInode(i, inode)
    BY <1>3
  <2> QED
    BY <2>1, ShapeAfterPutInode
<1>4. CASE call \in {PutCells(b, cells) : b \in DataBlocks, cells \in Parts}
  <2>1. PICK b \in DataBlocks, cells \in Parts : call = PutCells(b, cells)
    BY <1>4
  <2> QED
    BY <2>1, ShapeAfterPutCells
<1>5. CASE call \in {PutFront(addr) : addr \in Int}
  BY <1>5, ShapeAfterPutFront
<1>6. CASE call = Fsync
  BY <1>6, EffectOfFsync
<1> QED
  BY <1>1, <1>2, <1>3, <1>4, <1>5, <1>6 DEF Calls

(* The blocks in front of the data region that the calls write to.         *)
Fronts(calls) == {calls[n].at : n \in {l \in DOMAIN calls : calls[l].to = "front"}}

LEMMA ModeAfterFronts ==
    ASSUME NEW calls
    PROVE  ModeAfter(calls) = IF Fronts(calls) \subseteq {0} THEN mode ELSE "lost"
BY DEF ModeAfter, Fronts

LEMMA FrontsOfNone == Fronts(<<>>) = {}
BY DEF Fronts

LEMMA FrontsOfOne ==
    ASSUME NEW call
    PROVE  Fronts(<<call>>) = IF call.to = "front" THEN {call.at} ELSE {}
<1> DEFINE one == <<call>>
<1>1. DOMAIN one = {1} /\ one[1] = call
  OBVIOUS
<1> HIDE DEF one
<1>2. Fronts(one) = IF call.to = "front" THEN {call.at} ELSE {}
  BY <1>1 DEF Fronts
<1> QED
  BY <1>2 DEF one

LEMMA NoFront ==
    /\ \A i : Fronts(<<InodeBit(i)>>) = {} /\ Fronts(<<DataBit(i)>>) = {}
    /\ \A i, inode : Fronts(<<PutInode(i, inode)>>) = {}
    /\ \A b, cells : Fronts(<<PutCells(b, cells)>>) = {}
    /\ Fronts(<<Fsync>>) = {}
    /\ \A addr : Fronts(<<PutFront(addr)>>) = {addr}
<1>1. ASSUME NEW i PROVE Fronts(<<InodeBit(i)>>) = {} /\ Fronts(<<DataBit(i)>>) = {}
  BY FrontsOfOne DEF InodeBit, DataBit
<1>2. ASSUME NEW i, NEW inode PROVE Fronts(<<PutInode(i, inode)>>) = {}
  BY FrontsOfOne DEF PutInode
<1>3. ASSUME NEW b, NEW cells PROVE Fronts(<<PutCells(b, cells)>>) = {}
  BY FrontsOfOne DEF PutCells
<1>4. Fronts(<<Fsync>>) = {}
  BY FrontsOfOne DEF Fsync
<1>5. ASSUME NEW addr PROVE Fronts(<<PutFront(addr)>>) = {addr}
  <2> DEFINE call == PutFront(addr)
  <2>1. call.to = "front" /\ call.at = addr
    BY DEF PutFront
  <2> HIDE DEF call
  <2>2. Fronts(<<call>>) = {addr}
    BY <2>1, FrontsOfOne
  <2> QED
    BY <2>2 DEF call
<1> QED
  BY <1>1, <1>2, <1>3, <1>4, <1>5

LEMMA AfterBoth ==
    ASSUME NEW s \in Seq(Calls), NEW t \in Seq(Calls)
    PROVE  /\ s \o t \in Seq(Calls) /\ \A img : After(img, s \o t) = After(After(img, s), t)
           /\ Fronts(s \o t) = Fronts(s) \cup Fronts(t)
           /\ Fronts(s) = {} => Fronts(s \o t) = Fronts(t)
           /\ Fronts(t) = {} => Fronts(s \o t) = Fronts(s)
<1> DEFINE all == s \o t
<1>1. /\ all \in Seq(Calls) /\ Len(all) = Len(s) + Len(t)
      /\ \A l \in 1 .. Len(s) : all[l] = s[l]
      /\ \A l \in 1 .. Len(t) : all[Len(s) + l] = t[l]
      /\ Len(s) \in Nat /\ Len(t) \in Nat
  BY ConcatProperties
<1>2. \A img : After(img, all) = After(After(img, s), t)
  BY AfterMore
<1> HIDE DEF all
<1>3. DOMAIN all = 1 .. Len(all) /\ DOMAIN s = 1 .. Len(s) /\ DOMAIN t = 1 .. Len(t)
  BY <1>1
<1>4. /\ \A l \in DOMAIN s : l \in DOMAIN all
      /\ \A l \in DOMAIN t : Len(s) + l \in DOMAIN all
      /\ \A n \in DOMAIN all : n \in DOMAIN s \/ \E l \in DOMAIN t : n = Len(s) + l
  <2>1. ASSUME NEW n \in 1 .. Len(s) + Len(t), n \notin 1 .. Len(s)
        PROVE  n - Len(s) \in 1 .. Len(t) /\ n = Len(s) + (n - Len(s))
    BY <1>1, <2>1
  <2>2. \A l \in DOMAIN s : l \in DOMAIN all
    BY <1>1, <1>3
  <2>3. \A l \in DOMAIN t : Len(s) + l \in DOMAIN all
    BY <1>1, <1>3
  <2>4. DOMAIN all = 1 .. Len(s) + Len(t)
    BY <1>1, <1>3
  <2> QED
    BY <1>3, <2>1, <2>2, <2>3, <2>4
<1>5. Fronts(all) = Fronts(s) \cup Fronts(t)
  <2>1. ASSUME NEW n \in DOMAIN all, all[n].to = "front"
        PROVE  all[n].at \in Fronts(s) \cup Fronts(t)
    <3>1. CASE n \in DOMAIN s
      <4>1. all[n] = s[n]
        BY <1>1, <1>3, <3>1
      <4> QED
        BY <2>1, <3>1, <4>1 DEF Fronts
    <3>2. ASSUME NEW l \in DOMAIN t, n = Len(s) + l
          PROVE  all[n].at \in Fronts(t)
      <4>1. all[n] = t[l]
        BY <1>1, <1>3, <3>2
      <4> QED
        BY <2>1, <4>1 DEF Fronts
    <3> QED
      BY <1>4, <3>1, <3>2
  <2>2. ASSUME NEW l \in DOMAIN s, s[l].to = "front" PROVE s[l].at \in Fronts(all)
    <3>1. all[l] = s[l] /\ l \in DOMAIN all
      BY <1>1, <1>3, <1>4
    <3> QED
      BY <2>2, <3>1 DEF Fronts
  <2>3. ASSUME NEW l \in DOMAIN t, t[l].to = "front" PROVE t[l].at \in Fronts(all)
    <3>1. all[Len(s) + l] = t[l] /\ Len(s) + l \in DOMAIN all
      BY <1>1, <1>3, <1>4
    <3> QED
      BY <2>3, <3>1 DEF Fronts
  <2>4. \A x \in Fronts(all) : x \in Fronts(s) \cup Fronts(t)
    BY <2>1 DEF Fronts
  <2>5. \A x \in Fronts(s) : x \in Fronts(all)
    BY <2>2 DEF Fronts
  <2>6. \A x \in Fronts(t) : x \in Fronts(all)
    BY <2>3 DEF Fronts
  <2> QED
    BY <2>4, <2>5, <2>6
<1> HIDE DEF Fronts
<1>6. /\ Fronts(s) = {} => Fronts(all) = Fronts(t)
      /\ Fronts(t) = {} => Fronts(all) = Fronts(s)
  BY <1>5
<1> QED
  BY <1>1, <1>2, <1>5, <1>6 DEF all

(* From img the calls leave that data region and its bitmap.               *)
Reaches(img, calls, bm, region) ==
    /\ Fronts(calls) = {}
    /\ After(img, calls) \in Shaped
    /\ After(img, calls).frontIntact = img.frontIntact
    /\ After(img, calls).inodeBitmap = img.inodeBitmap
    /\ After(img, calls).inodeTable = img.inodeTable
    /\ After(img, calls).dataBitmap = bm
    /\ After(img, calls).dataRegion = region

(* The allocator, and the caller that writes the block afterwards.         *)
LEMMA TakenShape ==
    ASSUME NEW bm \in Bitmaps, NEW region \in Regions, NEW uninit \in Bitmaps,
           NEW got \in TakeBlock(bm, region, uninit)
    PROVE  /\ got.num \in got.bm /\ got.buf \in Server!Blocks
           /\ bm \subseteq got.bm /\ got.bm \subseteq DataBlocks
           /\ \/ got.bm = bm /\ got.mark = <<>>
              \/ got.bm = bm \cup {got.num} /\ got.mark = <<DataBit(got.num)>>
           /\ \E free \in Server!GetFreeDataBlock(bm, region, uninit) :
                free.bm = got.bm /\ free.num = got.num /\ free.buf = got.buf
<1>1. PICK free \in Server!GetFreeDataBlock(bm, region, uninit) :
        got = [bm |-> free.bm, num |-> free.num, buf |-> free.buf,
               mark |-> IF free.bm = bm THEN <<>> ELSE <<DataBit(free.num)>>]
  BY DEF TakeBlock
<1>2. free.bm = got.bm /\ free.num = got.num /\ free.buf = got.buf
  BY <1>1
<1>3. CASE bm = DataBlocks
  <2>1. free \in [bm : {bm}, num : uninit, buf : StackBlocks]
    BY <1>3 DEF Server!GetFreeDataBlock, DataBlocks
  <2>2. StackBlocks \subseteq Server!Blocks
    BY ServerAssumption DEF Server!LeftoversAssumption
  <2>3. free.bm = bm /\ free.num \in uninit /\ free.buf \in Server!Blocks
    BY <2>1, <2>2 DEF Bitmaps
  <2>4. got.mark = <<>>
    BY <1>1, <2>3
  <2>5. got.num \in DataBlocks
    BY <1>2, <2>3 DEF Bitmaps
  <2> QED
    BY <1>2, <1>3, <2>3, <2>4, <2>5
<1>4. CASE bm # DataBlocks
  <2> DEFINE n == Min(DataBlocks \ bm)
  <2>1. n \in DataBlocks \ bm
    BY <1>4, Sizes, LeastIsMember DEF Bitmaps
  <2>2. free = [bm |-> bm \cup {n}, num |-> n, buf |-> region[n]]
    BY <1>4, SameMin DEF Server!GetFreeDataBlock, DataBlocks
  <2> HIDE DEF n
  <2>3. free.bm = bm \cup {n} /\ free.num = n /\ free.buf = region[n] /\ free.bm # bm
    BY <2>1, <2>2
  <2>4. got.mark = <<DataBit(got.num)>>
    BY <1>1, <1>2, <2>3
  <2>5. region[n] \in Server!Blocks
    BY <2>1 DEF Regions
  <2> QED
    BY <1>2, <2>1, <2>3, <2>4, <2>5 DEF Bitmaps
<1> QED
  BY <1>3, <1>4

LEMMA TakenAndWritten ==
    ASSUME NEW img \in Shaped, NEW region \in Regions, NEW uninit \in Bitmaps,
           NEW got \in TakeBlock(img.dataBitmap, region, uninit), NEW block \in Server!Blocks
    PROVE  /\ Append(got.mark, PutCells(got.num, block)) \in Seq(Calls)
           /\ Reaches(img, Append(got.mark, PutCells(got.num, block)), got.bm,
                      [img.dataRegion EXCEPT ![got.num] = block])
<1> DEFINE b   == got.num
           bit == DataBit(b)
           put == PutCells(b, block)
           bm  == img.dataBitmap
<1>1. bm \in Bitmaps
  BY DEF Shaped
<1>2. /\ b \in DataBlocks
      /\ \/ got.bm = bm /\ got.mark = <<>>
         \/ got.bm = bm \cup {b} /\ got.mark = <<bit>>
  <2>1. /\ got.num \in got.bm /\ got.buf \in Server!Blocks
        /\ bm \subseteq got.bm /\ got.bm \subseteq DataBlocks
        /\ \/ got.bm = bm /\ got.mark = <<>>
           \/ got.bm = bm \cup {got.num} /\ got.mark = <<DataBit(got.num)>>
        /\ \E free \in Server!GetFreeDataBlock(bm, region, uninit) :
             free.bm = got.bm /\ free.num = got.num /\ free.buf = got.buf
    <3>1. got \in TakeBlock(bm, region, uninit)
      OBVIOUS
    <3> HIDE DEF bm
    <3> QED
      BY <1>1, <3>1, TakenShape
  <2> QED
    BY <1>1, <2>1 DEF Bitmaps
<1>3. block \in Parts
  BY BlockIsPart
<1>4. bit \in Calls /\ put \in Calls
  BY <1>2, <1>3 DEF Calls
<1>5. ASSUME NEW x \in Shaped
      PROVE  /\ Effect(x, put) \in Shaped /\ Effect(x, put).frontIntact = x.frontIntact
             /\ Effect(x, put).inodeBitmap = x.inodeBitmap
             /\ Effect(x, put).dataBitmap = x.dataBitmap
             /\ Effect(x, put).inodeTable = x.inodeTable
             /\ Effect(x, put).dataRegion = [x.dataRegion EXCEPT ![b] = block]
  <2> DEFINE after == Effect(x, put)
  <2>1. /\ after \in Shaped /\ after.frontIntact = x.frontIntact
        /\ after.inodeBitmap = x.inodeBitmap
        /\ after.dataBitmap = x.dataBitmap
        /\ after.inodeTable = x.inodeTable
        /\ after.dataRegion = [x.dataRegion EXCEPT ![b] = Over(block, x.dataRegion[b])]
    BY ONLY <1>2, <1>3, x \in Shaped, ShapeAfterPutCells
  <2>2. x.dataRegion[b] \in Server!Blocks
    BY <1>2 DEF Shaped, Regions
  <2>3. Over(block, x.dataRegion[b]) = block
    BY <2>2, BlockIsPart
  <2> HIDE DEF after
  <2>4. after.dataRegion = [x.dataRegion EXCEPT ![b] = block]
    BY <2>1, <2>3
  <2> QED
    BY <2>1, <2>4 DEF after
<1>6. /\ Effect(img, bit) \in Shaped /\ Effect(img, bit).frontIntact = img.frontIntact
      /\ Effect(img, bit).inodeBitmap = img.inodeBitmap
      /\ Effect(img, bit).dataBitmap = bm \cup {b}
      /\ Effect(img, bit).inodeTable = img.inodeTable
      /\ Effect(img, bit).dataRegion = img.dataRegion
  BY <1>2, ShapeAfterDataBit
<1> HIDE DEF bit, put, b, bm
<1>7. CASE got.bm = bm /\ got.mark = <<>>
  <2>1. Append(got.mark, put) = <<put>>
    BY <1>7
  <2>2. After(img, <<put>>) = Effect(img, put) /\ <<put>> \in Seq(Calls)
    BY <1>4, AfterOne
  <2>3. Fronts(<<put>>) = {}
    BY NoFront DEF put
  <2> QED
    BY <1>5, <1>7, <2>1, <2>2, <2>3 DEF Reaches, put, b, bm
<1>8. CASE got.bm = bm \cup {b} /\ got.mark = <<bit>>
  <2>1. Append(got.mark, put) = Append(<<bit>>, put)
    BY <1>8
  <2>2. /\ After(img, Append(<<bit>>, put)) = Effect(Effect(img, bit), put)
        /\ Append(<<bit>>, put) \in Seq(Calls)
    BY <1>4, AfterTwo
  <2> DEFINE mid  == Effect(img, bit)
             last == Effect(mid, put)
  <2>3. /\ last \in Shaped /\ last.frontIntact = mid.frontIntact
        /\ last.inodeBitmap = mid.inodeBitmap
        /\ last.dataBitmap = mid.dataBitmap
        /\ last.inodeTable = mid.inodeTable
        /\ last.dataRegion = [mid.dataRegion EXCEPT ![b] = block]
    BY <1>5, <1>6
  <2>4. /\ last \in Shaped /\ last.frontIntact = img.frontIntact
        /\ last.inodeBitmap = img.inodeBitmap
        /\ last.dataBitmap = got.bm
        /\ last.inodeTable = img.inodeTable
        /\ last.dataRegion = [img.dataRegion EXCEPT ![b] = block]
    BY <1>6, <1>8, <2>3
  <2>5. After(img, Append(got.mark, put)) = last
    BY <2>1, <2>2
  <2>6. Append(got.mark, put) \in Seq(Calls)
    BY <2>1, <2>2
  <2>7. Fronts(Append(got.mark, put)) = {}
    <3> DEFINE one == <<bit>>
               two == <<put>>
    <3>1. one \in Seq(Calls) /\ two \in Seq(Calls) /\ Fronts(one) = {} /\ Fronts(two) = {}
      BY <1>4, NoFront DEF bit, put
    <3>2. Append(one, put) = one \o two
      BY <1>4, <3>1, AppendIsConcat
    <3>3. got.mark = one
      BY <1>8
    <3> HIDE DEF one, two
    <3>4. Fronts(one \o two) = {}
      BY <3>1, AfterBoth
    <3> QED
      BY <3>2, <3>3, <3>4
  <2> HIDE DEF last
  <2>8. Reaches(img, Append(got.mark, put), got.bm, [img.dataRegion EXCEPT ![b] = block])
    BY <2>4, <2>5, <2>7 DEF Reaches
  <2> QED
    BY <2>6, <2>8 DEF put, b
<1> QED
  BY <1>2, <1>7, <1>8 DEF bm, b, bit

LEMMA PointersAreInts == Server!Pointers \subseteq Int
<1>1. Server!LeftoverPtrs \subseteq Int
  BY ServerAssumption DEF Server!LeftoverPtrs, Server!LeftoversAssumption
<1>2. Server!DataAddrs \subseteq Int
  <2>1. ASSUME NEW b \in Server!DataBlocks
        PROVE  b + DataRegionAddr \in Int
    BY Sizes DEF DataBlocks
  <2> QED
    BY <2>1 DEF Server!DataAddrs
<1> QED
  BY <1>1, <1>2 DEF Server!Pointers

LEMMA BlockHasAddress ==
    ASSUME NEW b \in DataBlocks
    PROVE  b + DataRegionAddr \in Server!Pointers
BY DEF Server!Pointers, Server!DataAddrs, DataBlocks

LEMMA AddressOfNumber ==
    ASSUME NEW b \in Int
    PROVE  /\ b + DataRegionAddr \in Int /\ Rel(b + DataRegionAddr) = b
           /\ b \in DataBlocks => /\ b + DataRegionAddr \in Server!DataAddrs
                                 /\ ~(b + DataRegionAddr < DataRegionAddr)
           /\ b \notin DataBlocks => b + DataRegionAddr \notin Server!DataAddrs
<1>1. b + DataRegionAddr \in Int /\ Rel(b + DataRegionAddr) = b
  BY Sizes DEF Rel, Server!Rel
<1>2. b \in DataBlocks => ~(b + DataRegionAddr < DataRegionAddr)
  BY Sizes
<1>3. b \in DataBlocks => b + DataRegionAddr \in Server!DataAddrs
  BY DEF Server!DataAddrs, DataBlocks
<1>4. ASSUME NEW c \in DataBlocks, c + DataRegionAddr = b + DataRegionAddr
      PROVE  c = b
  <2>1. c \in Int /\ DataRegionAddr \in Int
    BY Sizes
  <2> HIDE DEF DataBlocks
  <2> QED
    BY <1>4, <2>1
<1>5. b + DataRegionAddr \in Server!DataAddrs => b \in DataBlocks
  BY <1>4 DEF Server!DataAddrs, DataBlocks
<1> QED
  BY <1>1, <1>2, <1>3, <1>5

(* A write of cells to the block at addr: into a block of the data region, *)
(* in front of it, or past the image.                                      *)
Landing(calls, addr, cells) ==
    Fronts(calls) = IF Server!Spoils(addr, cells) THEN {addr} ELSE {}

Landed(img, after, addr, cells) ==
    /\ after \in Shaped
    /\ after.inodeBitmap = img.inodeBitmap /\ after.dataBitmap = img.dataBitmap
    /\ after.inodeTable = img.inodeTable
    /\ after.frontIntact = (img.frontIntact /\ ~Server!Spoils(addr, cells))

LEMMA CellsImplemented ==
    ASSUME NEW img \in Shaped, NEW addr \in Int, NEW cells,
           addr \in Server!DataAddrs => cells \in Parts
    PROVE  LET calls == CellCalls(addr, cells)
               after == After(img, calls)
           IN  /\ calls \in Seq(Calls) /\ Landing(calls, addr, DOMAIN cells)
               /\ Landed(img, after, addr, DOMAIN cells)
               /\ addr \in Server!DataAddrs =>
                    after.dataRegion = [img.dataRegion EXCEPT ![Rel(addr)] =
                                          Over(cells, img.dataRegion[Rel(addr)])]
               /\ addr \notin Server!DataAddrs => after.dataRegion = img.dataRegion
<1> DEFINE calls == CellCalls(addr, cells)
<1>1. img.frontIntact \in BOOLEAN
  BY DEF Shaped
<1>2. CASE addr \in Server!DataAddrs
  <2> DEFINE b     == Rel(addr)
             put   == PutCells(b, cells)
             after == Effect(img, put)
  <2>1. b \in DataBlocks /\ ~(addr < DataRegionAddr)
    BY <1>2, Sizes DEF Server!DataAddrs, Rel, Server!Rel, DataBlocks
  <2>2. calls = <<put>>
    BY <1>2 DEF CellCalls, Rel
  <2> HIDE DEF b
  <2>3. ~Server!Spoils(addr, DOMAIN cells)
    BY <2>1 DEF Server!Spoils
  <2>4. cells \in Parts
    BY <1>2
  <2>5. put \in Calls
    BY <2>1, <2>4 DEF Calls
  <2>6. /\ after \in Shaped /\ after.frontIntact = img.frontIntact
        /\ after.inodeBitmap = img.inodeBitmap
        /\ after.dataBitmap = img.dataBitmap
        /\ after.inodeTable = img.inodeTable
        /\ after.dataRegion = [img.dataRegion EXCEPT ![b] = Over(cells, img.dataRegion[b])]
    BY <2>1, <2>4, ShapeAfterPutCells
  <2>7. Fronts(calls) = {}
    BY <2>2, NoFront
  <2>8. calls \in Seq(Calls) /\ After(img, calls) = after
    BY <2>2, <2>5, AfterOne
  <2> HIDE DEF calls, after
  <2> QED
    BY <1>1, <1>2, <2>3, <2>6, <2>7, <2>8 DEF Landing, Landed, calls, b
<1>3. CASE addr \notin Server!DataAddrs /\ Server!Spoils(addr, DOMAIN cells)
  <2> DEFINE put   == PutFront(addr)
             after == Effect(img, put)
  <2>1. calls = <<put>>
    BY <1>3 DEF CellCalls
  <2>2. put \in Calls
    BY DEF Calls
  <2>3. /\ after \in Shaped /\ after.frontIntact = FALSE
        /\ after.inodeBitmap = img.inodeBitmap
        /\ after.dataBitmap = img.dataBitmap
        /\ after.inodeTable = img.inodeTable
        /\ after.dataRegion = img.dataRegion
    BY ShapeAfterPutFront
  <2>4. Fronts(calls) = {addr}
    BY <2>1, NoFront
  <2>5. calls \in Seq(Calls) /\ After(img, calls) = after
    BY <2>1, <2>2, AfterOne
  <2> HIDE DEF calls, after
  <2> QED
    BY <1>1, <1>3, <2>3, <2>4, <2>5 DEF Landing, Landed, calls
<1>4. CASE addr \notin Server!DataAddrs /\ ~Server!Spoils(addr, DOMAIN cells)
  <2>1. calls = <<>>
    BY <1>4 DEF CellCalls
  <2>2. Fronts(calls) = {} /\ calls \in Seq(Calls) /\ After(img, calls) = img
    BY <2>1, FrontsOfNone, AfterNone
  <2> HIDE DEF calls
  <2> QED
    BY <1>1, <1>4, <2>2 DEF Landing, Landed, calls
<1> QED
  BY <1>2, <1>3, <1>4

(* The slot that both sides of an entry find.                              *)
LEMMA SlotFound ==
    ASSUME NEW region, NEW pinode \in ShapedInodes, Server!BlocksWithSlot(region, pinode) # {}
    PROVE  LET k == Min(Server!BlocksWithSlot(region, pinode))
           IN  /\ pinode.direct[k] \in Int
               /\ Server!FirstSlotIn(region, pinode, k) \in Slots
<1> DEFINE open == Server!BlocksWithSlot(region, pinode)
           k    == Min(open)
           free == {j \in Slots : Server!EntryAt(region, pinode, k, j).inum = -1}
<1>1. open \in SUBSET Nat
  BY Sizes DEF Server!BlocksWithSlot, Server!Scanned, Ptrs
<1>2. k \in open
  BY <1>1, LeastIsMember
<1> HIDE DEF k
<1>3. k \in Server!Scanned(pinode) /\ free # {}
  BY <1>2 DEF Server!BlocksWithSlot, Slots
<1>4. k \in Ptrs
  BY <1>3 DEF Server!Scanned, Ptrs
<1>5. pinode.direct[k] \in Int
  BY <1>4, PointersAreInts DEF ShapedInodes
<1>6. Server!FirstSlotIn(region, pinode, k) \in Slots
  <2>1. Server!FirstSlotIn(region, pinode, k) = Min(free)
    BY SameMin DEF Server!FirstSlotIn, Slots
  <2>2. Min(free) \in free
    BY <1>3, Sizes, LeastIsMember
  <2> QED
    BY <2>1, <2>2
<1> QED
  BY <1>5, <1>6 DEF k

(* The allocator as both sides of an entry see it, whatever number a       *)
(* failed allocation leaves.                                               *)
LEMMA TakenNumber ==
    ASSUME NEW bm \in Bitmaps, NEW region, NEW got \in TakeBlock(bm, region, StackInts)
    PROVE  /\ got.num \in Int
           /\ got.num \in DataBlocks => got \in TakeBlock(bm, region, StackInts \cap DataBlocks)
           /\ got.num \notin DataBlocks => got.bm = bm /\ got.mark = <<>> /\ got.buf \in StackBlocks
           /\ \E free \in Server!GetFreeDataBlock(bm, region, StackInts) :
                free.bm = got.bm /\ free.num = got.num /\ free.buf = got.buf
<1>1. PICK free \in Server!GetFreeDataBlock(bm, region, StackInts) :
        got = [bm |-> free.bm, num |-> free.num, buf |-> free.buf,
               mark |-> IF free.bm = bm THEN <<>> ELSE <<DataBit(free.num)>>]
  BY DEF TakeBlock
<1>2. free.bm = got.bm /\ free.num = got.num /\ free.buf = got.buf
  BY <1>1
<1> DEFINE few == StackInts \cap DataBlocks
<1>3. CASE bm = DataBlocks
  <2>1. free \in [bm : {bm}, num : StackInts, buf : StackBlocks]
    BY <1>3 DEF Server!GetFreeDataBlock, DataBlocks
  <2>2. free.num \in StackInts /\ free.bm = bm /\ free.buf \in StackBlocks
    BY <2>1
  <2>3. got.mark = <<>>
    BY <1>1, <2>2
  <2>4. StackInts \subseteq Int
    BY ServerAssumption DEF Server!LeftoversAssumption
  <2>5. ASSUME free.num \in DataBlocks
        PROVE  got \in TakeBlock(bm, region, few)
    <3>1. free \in [bm : {bm}, num : few, buf : StackBlocks]
      BY <2>1, <2>2, <2>5
    <3> HIDE DEF few
    <3>2. free \in Server!GetFreeDataBlock(bm, region, few)
      BY <1>3, <3>1 DEF Server!GetFreeDataBlock, DataBlocks
    <3> QED
      BY <1>1, <3>2 DEF TakeBlock
  <2> QED
    BY <1>2, <2>2, <2>3, <2>4, <2>5
<1>4. CASE bm # DataBlocks
  <2> DEFINE n == Min(DataBlocks \ bm)
  <2>1. n \in DataBlocks \ bm
    BY <1>4, Sizes, LeastIsMember DEF Bitmaps
  <2>2. /\ free = [bm |-> bm \cup {n}, num |-> n, buf |-> region[n]]
        /\ free \in Server!GetFreeDataBlock(bm, region, few)
    BY <1>4, SameMin DEF Server!GetFreeDataBlock, DataBlocks
  <2> HIDE DEF n, few
  <2>3. got \in TakeBlock(bm, region, few)
    BY <1>1, <2>2 DEF TakeBlock
  <2>4. got.num \in DataBlocks
    BY <1>2, <2>1, <2>2
  <2>5. DataBlocks \subseteq Int
    BY Sizes
  <2>6. got.num \in Int
    BY <2>4, <2>5
  <2> QED
    BY <1>2, <2>3, <2>4, <2>6 DEF few
<1> QED
  BY <1>3, <1>4

(* The parent's side of a create, from any image with the parent's blocks: *)
(* the calls do what MFSServer's AddDirEntry says of the handler's write.  *)
Enters(img, calls, there) ==
    /\ Landing(calls, there.write[1], there.write[2])
    /\ After(img, calls) \in Shaped
    /\ After(img, calls).frontIntact =
         (img.frontIntact /\ ~Server!Spoils(there.write[1], there.write[2]))
    /\ After(img, calls).inodeBitmap = img.inodeBitmap
    /\ After(img, calls).inodeTable = img.inodeTable
    /\ After(img, calls).dataBitmap = there.bm
    /\ After(img, calls).dataRegion = there.region

LEMMA EntryImplemented ==
    ASSUME cache \in Shaped, NEW pinode \in ShapedInodes, NEW entry \in Server!Cells, NEW seen,
           NEW linked \in EntryCalls(cache.dataBitmap, seen, pinode, entry)
    PROVE  /\ linked.calls \in Seq(Calls)
           /\ \E there \in Server!AddDirEntry(cache.dataBitmap, cache.dataRegion, seen,
                                               pinode, entry) :
                /\ there.bm = linked.bm
                /\ \A img \in Shaped :
                     img.dataBitmap = cache.dataBitmap /\ img.dataRegion = cache.dataRegion =>
                       Enters(img, linked.calls, there)
<1> DEFINE bm     == cache.dataBitmap
           region == cache.dataRegion
           open   == Server!BlocksWithSlot(seen, pinode)
<1>1. bm \in Bitmaps /\ region \in Regions
  BY DEF Shaped
<1>2. CASE open # {}
  <2> DEFINE k == Min(open)
             addr == pinode.direct[k]
             j == Server!FirstSlotIn(seen, pinode, k)
             cells == [l \in {j} |-> entry]
             calls == CellCalls(addr, cells)
             there == [bm |-> bm, write |-> <<addr, {j}>>,
                       region |-> IF addr \in Server!DataAddrs
                                    THEN [region EXCEPT ![Server!Rel(addr)][j] = entry]
                                    ELSE region]
  <2>1. linked.bm = bm /\ linked.calls = calls
    BY <1>2 DEF EntryCalls
  <2>2. there \in Server!AddDirEntry(bm, region, seen, pinode, entry)
    BY <1>2, SameMin DEF Server!AddDirEntry
  <2>3. addr \in Int /\ j \in Slots
    BY <1>2, SlotFound
  <2> HIDE DEF addr, j
  <2>4. cells \in Parts /\ DOMAIN cells = {j} /\ cells[j] = entry
    <3>1. {j} \in SUBSET Slots /\ cells \in [{j} -> Server!Cells]
      BY <2>3
    <3>2. DOMAIN cells = {j} /\ cells[j] = entry
      OBVIOUS
    <3> HIDE DEF cells
    <3> QED
      BY <3>1, <3>2 DEF Parts
  <2> HIDE DEF cells
  <2>5. /\ there.bm = bm /\ there.write[1] = addr /\ there.write[2] = {j}
        /\ addr \in Server!DataAddrs => there.region = [region EXCEPT ![Rel(addr)][j] = entry]
        /\ addr \notin Server!DataAddrs => there.region = region
    BY DEF Rel
  <2> HIDE DEF there
  <2>6. ASSUME addr \in Server!DataAddrs
        PROVE  [region EXCEPT ![Rel(addr)] = Over(cells, region[Rel(addr)])]
                 = [region EXCEPT ![Rel(addr)][j] = entry]
    <3> DEFINE b == Rel(addr)
    <3>1. b \in DataBlocks
      BY <2>6, Sizes DEF Server!DataAddrs, Rel, Server!Rel, DataBlocks
    <3> HIDE DEF b
    <3>2. region[b] \in Server!Blocks
      BY <1>1, <3>1 DEF Regions
    <3>3. region[b] \in [Slots -> Server!Cells]
      BY <3>2 DEF Server!Blocks, Slots
    <3>4. Over(cells, region[b]) = [l \in Slots |-> IF l \in DOMAIN cells THEN cells[l]
                                                    ELSE region[b][l]]
      BY <2>4, <3>2, OverBlock
    <3>5. Over(cells, region[b]) = [region[b] EXCEPT ![j] = entry]
      BY <2>3, <2>4, <3>3, <3>4
    <3>6. [region EXCEPT ![b] = Over(cells, region[b])] = [region EXCEPT ![b][j] = entry]
      BY <3>5
    <3> QED
      BY <3>6 DEF b
  <2>7. ASSUME NEW img \in Shaped, img.dataBitmap = bm, img.dataRegion = region
        PROVE  calls \in Seq(Calls) /\ Enters(img, calls, there)
    <3> DEFINE after == After(img, calls)
    <3>1. /\ calls \in Seq(Calls) /\ Landing(calls, addr, {j}) /\ Landed(img, after, addr, {j})
          /\ addr \in Server!DataAddrs =>
               after.dataRegion = [img.dataRegion EXCEPT ![Rel(addr)] =
                                     Over(cells, img.dataRegion[Rel(addr)])]
          /\ addr \notin Server!DataAddrs => after.dataRegion = img.dataRegion
      BY <2>3, <2>4, CellsImplemented
    <3>2. after.dataRegion = there.region
      <4> HIDE DEF after, calls
      <4> QED
        BY <2>5, <2>6, <2>7, <3>1
    <3> HIDE DEF calls
    <3> QED
      BY <2>5, <2>7, <3>1, <3>2 DEF Enters, Landed
  <2> HIDE DEF calls
  <2>8. calls \in Seq(Calls)
    BY <2>7
  <2> QED
    BY <2>1, <2>2, <2>5, <2>7, <2>8
<1>3. CASE open = {}
  <2>1. PICK got \in TakeBlock(bm, region, StackInts) :
          linked = [bm |-> got.bm,
                    calls |-> got.mark \o CellCalls(got.num + DataRegionAddr,
                                                    [got.buf EXCEPT ![0] = entry])]
    BY <1>3 DEF EntryCalls
  <2> DEFINE block == [got.buf EXCEPT ![0] = entry]
             addr  == got.num + DataRegionAddr
             calls == got.mark \o CellCalls(addr, block)
  <2>2. /\ got.num \in Int
        /\ got.num \in DataBlocks => got \in TakeBlock(bm, region, StackInts \cap DataBlocks)
        /\ got.num \notin DataBlocks => got.bm = bm /\ got.mark = <<>> /\ got.buf \in StackBlocks
        /\ \E free \in Server!GetFreeDataBlock(bm, region, StackInts) :
             free.bm = got.bm /\ free.num = got.num /\ free.buf = got.buf
    <3> HIDE DEF bm, region
    <3> QED
      BY <1>1, TakenNumber
  <2>3. PICK free \in Server!GetFreeDataBlock(bm, region, StackInts) :
          free.bm = got.bm /\ free.num = got.num /\ free.buf = got.buf
    BY <2>2
  <2> DEFINE there == [bm |-> free.bm, write |-> <<free.num + DataRegionAddr, Server!Slots>>,
                       region |-> IF free.num \in Server!DataBlocks
                                    THEN [region EXCEPT ![free.num] =
                                            [free.buf EXCEPT ![0] = entry]]
                                    ELSE region]
  <2>4. there \in Server!AddDirEntry(bm, region, seen, pinode, entry)
    BY <1>3 DEF Server!AddDirEntry
  <2>5. /\ there.bm = got.bm /\ there.write[1] = addr /\ there.write[2] = Slots
        /\ got.num \in DataBlocks => there.region = [region EXCEPT ![got.num] = block]
        /\ got.num \notin DataBlocks => there.region = region
    BY <2>3 DEF DataBlocks, Slots
  <2>6. linked.bm = got.bm /\ linked.calls = calls
    BY <2>1
  <2> HIDE DEF there
  <2>7. ASSUME got.buf \in Server!Blocks
        PROVE  block \in Server!Blocks /\ DOMAIN block = Slots
    <3>1. got.buf \in [Slots -> Server!Cells]
      BY <2>7 DEF Server!Blocks, Slots
    <3>2. block \in [Slots -> Server!Cells]
      BY <3>1
    <3> QED
      BY <3>2 DEF Server!Blocks, Slots
  <2> HIDE DEF block
  <2>8. ASSUME NEW img \in Shaped, img.dataBitmap = bm, img.dataRegion = region
        PROVE  calls \in Seq(Calls) /\ Enters(img, calls, there)
    <3>1. CASE got.num \in DataBlocks
      <4> DEFINE few == StackInts \cap DataBlocks
                 put == PutCells(got.num, block)
                 all == Append(got.mark, put)
      <4>1. few \in Bitmaps /\ got \in TakeBlock(bm, region, few)
        BY <2>2, <3>1 DEF Bitmaps
      <4> HIDE DEF few
      <4>2. /\ got.num \in got.bm /\ got.buf \in Server!Blocks
            /\ bm \subseteq got.bm /\ got.bm \subseteq DataBlocks
            /\ \/ got.bm = bm /\ got.mark = <<>>
               \/ got.bm = bm \cup {got.num} /\ got.mark = <<DataBit(got.num)>>
            /\ \E f \in Server!GetFreeDataBlock(bm, region, few) :
                 f.bm = got.bm /\ f.num = got.num /\ f.buf = got.buf
        <5> HIDE DEF bm, region
        <5> QED
          BY <1>1, <4>1, TakenShape
      <4>3. got \in TakeBlock(img.dataBitmap, region, few)
        BY <2>8, <4>1
      <4>4. /\ all \in Seq(Calls)
            /\ Reaches(img, all, got.bm, [img.dataRegion EXCEPT ![got.num] = block])
        <5> HIDE DEF bm, region
        <5> QED
          BY <1>1, <2>7, <4>1, <4>2, <4>3, TakenAndWritten
      <4>5. addr \in Server!DataAddrs /\ Rel(addr) = got.num /\ ~(addr < DataRegionAddr)
        BY <2>2, <3>1, AddressOfNumber
      <4>6. all = calls
        <5>1. CellCalls(addr, block) = <<put>>
          BY <4>5 DEF CellCalls, Rel
        <5>2. put \in Calls /\ DataBit(got.num) \in Calls
          BY <2>7, <3>1, <4>2, BlockIsPart DEF Calls
        <5> DEFINE none == <<>>
                   bit  == <<DataBit(got.num)>>
        <5>3. none \in Seq(Calls) /\ bit \in Seq(Calls)
          BY <5>2
        <5>4. got.mark = none \/ got.mark = bit
          BY <4>2
        <5> HIDE DEF none, bit, put
        <5>5. got.mark \in Seq(Calls)
          BY <5>3, <5>4
        <5>6. Append(got.mark, put) = got.mark \o <<put>>
          BY <5>2, <5>5, AppendIsConcat
        <5> QED
          BY <5>1, <5>6
      <4> HIDE DEF all, calls
      <4>7. ~Server!Spoils(addr, Slots)
        BY <4>5 DEF Server!Spoils
      <4>8. img.frontIntact \in BOOLEAN
        BY DEF Shaped
      <4> HIDE DEF addr
      <4> QED
        BY <2>5, <2>8, <3>1, <4>4, <4>6, <4>7, <4>8 DEF Enters, Landing, Reaches
    <3>2. CASE got.num \notin DataBlocks
      <4>1. got.bm = bm /\ got.mark = <<>> /\ got.buf \in Server!Blocks
        BY <2>2, <3>2, ServerAssumption DEF Server!LeftoversAssumption
      <4>2. addr \in Int /\ addr \notin Server!DataAddrs
        BY <2>2, <3>2, AddressOfNumber
      <4> DEFINE one   == CellCalls(addr, block)
                 after == After(img, one)
      <4>3. DOMAIN block = Slots
        BY <2>7, <4>1
      <4>4. /\ one \in Seq(Calls) /\ Landing(one, addr, Slots) /\ Landed(img, after, addr, Slots)
            /\ after.dataRegion = img.dataRegion
        BY <4>2, <4>3, CellsImplemented
      <4> HIDE DEF one
      <4>5. calls = one
        <5>1. <<>> \o one = one
          BY <4>4, ConcatEmptySeq
        <5> QED
          BY <4>1, <5>1 DEF one
      <4> HIDE DEF calls, addr
      <4> QED
        BY <2>5, <2>8, <3>2, <4>1, <4>4, <4>5 DEF Enters, Landed
    <3> QED
      BY <3>1, <3>2
  <2> HIDE DEF calls
  <2>9. calls \in Seq(Calls)
    BY <2>8
  <2> QED
    BY <2>4, <2>5, <2>6, <2>8, <2>9
<1> QED
  BY <1>2, <1>3

(* From img the calls make that child of AddChild at inum.                 *)
Makes(img, calls, inum, child) ==
    /\ Fronts(calls) = {}
    /\ After(img, calls) \in Shaped
    /\ After(img, calls).frontIntact = img.frontIntact
    /\ After(img, calls).inodeBitmap = img.inodeBitmap
    /\ After(img, calls).dataBitmap = child.bm
    /\ After(img, calls).inodeTable = [img.inodeTable EXCEPT ![inum] = child.inode]
    /\ After(img, calls).dataRegion = child.region

(* The child's side, from an image that its block is read from.            *)
LEMMA ChildImplemented ==
    ASSUME Done = cache, cache \in Shaped, NEW img \in Shaped,
           NEW inum \in Inums, NEW pinum \in Inums, NEW type,
           NEW made \in ChildCalls(img.dataBitmap, img.dataRegion, inum, pinum, type)
    PROVE  /\ made \in Seq(Calls)
           /\ \E child \in Server!AddChild(img.dataBitmap, img.dataRegion, inum, pinum, type) :
                Makes(img, made, inum, child)
<1> DEFINE bm     == img.dataBitmap
           region == img.dataRegion
           isDir  == type = Server!MFS_DIRECTORY
           old    == cache.inodeTable[inum].direct
<1>1. bm \in Bitmaps /\ region \in Regions
  BY DEF Shaped
<1>2. old \in [Ptrs -> Server!Pointers] /\ old = Done.inodeTable[inum].direct
  BY DEF Shaped, ShapedInodes
<1>3. PICK got \in TakeBlock(bm, region, {0}) :
        made = got.mark \o
               <<PutCells(got.num,
                   IF isDir THEN [got.buf EXCEPT ![0] = Server!Entry(".", inum),
                                                 ![1] = Server!Entry("..", pinum)]
                   ELSE got.buf)>> \o
               <<PutInode(inum,
                   [type   |-> IF isDir THEN Server!MFS_DIRECTORY ELSE Server!MFS_REGULAR_FILE,
                    size   |-> 0,
                    direct |-> [old EXCEPT ![0] = got.num + DataRegionAddr]])>>
  BY DEF ChildCalls, ChildOrder
<1> DEFINE block == IF isDir THEN [got.buf EXCEPT ![0] = Server!Entry(".", inum),
                                                  ![1] = Server!Entry("..", pinum)]
                    ELSE got.buf
           inode == [type   |-> IF isDir THEN Server!MFS_DIRECTORY
                                ELSE Server!MFS_REGULAR_FILE,
                     size   |-> 0,
                     direct |-> [old EXCEPT ![0] = got.num + DataRegionAddr]]
           write == PutCells(got.num, block)
           put   == PutInode(inum, inode)
<1>4. made = got.mark \o <<write>> \o <<put>>
  BY <1>3
<1>5. {0} \in Bitmaps
  BY Sizes DEF Bitmaps
<1>6. /\ got.num \in got.bm /\ got.buf \in Server!Blocks
      /\ bm \subseteq got.bm /\ got.bm \subseteq DataBlocks
      /\ \/ got.bm = bm /\ got.mark = <<>>
         \/ got.bm = bm \cup {got.num} /\ got.mark = <<DataBit(got.num)>>
      /\ \E free \in Server!GetFreeDataBlock(bm, region, {0}) :
           free.bm = got.bm /\ free.num = got.num /\ free.buf = got.buf
  <2> DEFINE uninit == {0}
  <2>1. got \in TakeBlock(bm, region, uninit) /\ uninit \in Bitmaps
    BY <1>5
  <2> HIDE DEF uninit, bm, region
  <2>2. /\ got.num \in got.bm /\ got.buf \in Server!Blocks
        /\ bm \subseteq got.bm /\ got.bm \subseteq DataBlocks
        /\ \/ got.bm = bm /\ got.mark = <<>>
           \/ got.bm = bm \cup {got.num} /\ got.mark = <<DataBit(got.num)>>
        /\ \E free \in Server!GetFreeDataBlock(bm, region, uninit) :
             free.bm = got.bm /\ free.num = got.num /\ free.buf = got.buf
    BY <1>1, <2>1, TakenShape
  <2> QED
    BY <2>2 DEF uninit
<1>7. PICK free \in Server!GetFreeDataBlock(bm, region, {0}) :
        free.bm = got.bm /\ free.num = got.num /\ free.buf = got.buf
  BY <1>6
<1>8. block \in Server!Blocks
  <2>1. got.buf \in [Slots -> Server!Cells]
    BY <1>6 DEF Server!Blocks, Slots
  <2>2. Server!Entry(".", inum) \in Server!Cells /\ Server!Entry("..", pinum) \in Server!Cells
    BY Sizes DEF Server!Entry, Server!Cells, Server!EntryNames
  <2>3. block \in [Slots -> Server!Cells]
    <3>1. CASE isDir
      <4>1. block = [got.buf EXCEPT ![0] = Server!Entry(".", inum),
                                    ![1] = Server!Entry("..", pinum)]
        BY <3>1
      <4> HIDE DEF block
      <4> QED
        BY <2>1, <2>2, <4>1
    <3>2. CASE ~isDir
      BY <2>1, <3>2
    <3> QED
      BY <3>1, <3>2
  <2> HIDE DEF block
  <2> QED
    BY <2>3 DEF Server!Blocks, Slots
<1>9. inode \in ShapedInodes
  <2>1. got.num + DataRegionAddr \in Server!Pointers
    BY <1>6, BlockHasAddress
  <2> DEFINE direct == [old EXCEPT ![0] = got.num + DataRegionAddr]
  <2>2. direct \in [Ptrs -> Server!Pointers]
    BY <1>2, <2>1
  <2>3. (IF isDir THEN Server!MFS_DIRECTORY ELSE Server!MFS_REGULAR_FILE) \in Int
    BY DEF Server!MFS_DIRECTORY, Server!MFS_REGULAR_FILE
  <2> HIDE DEF direct
  <2>4. [type |-> IF isDir THEN Server!MFS_DIRECTORY ELSE Server!MFS_REGULAR_FILE,
         size |-> 0, direct |-> direct] \in ShapedInodes
    BY <2>2, <2>3 DEF ShapedInodes
  <2> QED
    BY <2>4 DEF direct
<1> DEFINE child == [bm     |-> free.bm,
                     region |-> [region EXCEPT ![free.num] =
                                   IF isDir
                                     THEN [free.buf EXCEPT ![0] = Server!Entry(".", inum),
                                                           ![1] = Server!Entry("..", pinum)]
                                     ELSE free.buf],
                     inode  |-> [type |-> IF isDir THEN Server!MFS_DIRECTORY
                                          ELSE Server!MFS_REGULAR_FILE,
                                 size |-> 0,
                                 direct |-> [Done.inodeTable[inum].direct EXCEPT
                                               ![0] = free.num + DataRegionAddr]]]
<1>10. child \in Server!AddChild(bm, region, inum, pinum, type)
  BY DEF Server!AddChild
<1>11. child.bm = got.bm /\ child.region = [region EXCEPT ![got.num] = block]
  BY <1>7
<1>12. child.inode = inode
  BY <1>2, <1>7
<1> HIDE DEF child, block, inode
<1> DEFINE before == Append(got.mark, write)
<1>13. before \in Seq(Calls) /\ Reaches(img, before, got.bm, [region EXCEPT ![got.num] = block])
  <2> DEFINE uninit == {0}
  <2>1. got \in TakeBlock(img.dataBitmap, region, uninit) /\ uninit \in Bitmaps
    BY <1>5
  <2> HIDE DEF uninit, region
  <2>2. /\ before \in Seq(Calls)
        /\ Reaches(img, before, got.bm, [img.dataRegion EXCEPT ![got.num] = block])
    BY <1>1, <1>8, <2>1, TakenAndWritten
  <2> QED
    BY <2>2 DEF region
<1>14. put \in Calls
  BY <1>9 DEF Calls
<1>15. before = got.mark \o <<write>>
  <2>1. block \in Parts /\ got.num \in DataBlocks
    BY <1>6, <1>8, BlockIsPart
  <2>2. write \in Calls /\ DataBit(got.num) \in Calls
    BY <2>1 DEF Calls
  <2> DEFINE none == <<>>
             bit  == <<DataBit(got.num)>>
  <2>3. none \in Seq(Calls) /\ bit \in Seq(Calls)
    BY <2>2
  <2>4. got.mark = none \/ got.mark = bit
    BY <1>6
  <2> HIDE DEF none, bit, write
  <2>5. got.mark \in Seq(Calls)
    BY <2>3, <2>4
  <2> QED
    BY <2>2, <2>5, AppendIsConcat
<1> DEFINE mid  == After(img, before)
           last == Effect(mid, put)
<1>16. mid \in Shaped
  BY <1>13 DEF Reaches
<1>17. /\ last \in Shaped /\ last.frontIntact = mid.frontIntact
       /\ last.inodeBitmap = mid.inodeBitmap
       /\ last.dataBitmap = mid.dataBitmap
       /\ last.inodeTable = [mid.inodeTable EXCEPT ![inum] = inode]
       /\ last.dataRegion = mid.dataRegion
  <2> HIDE DEF mid
  <2> QED
    BY <1>9, <1>16, ShapeAfterPutInode
<1> HIDE DEF last
<1>18. made \in Seq(Calls) /\ After(img, made) = last /\ Fronts(made) = {}
  <2> DEFINE one == <<put>>
  <2>1. one \in Seq(Calls) /\ After(mid, one) = last /\ Fronts(one) = {}
    BY <1>14, AfterOne, NoFront DEF last, put
  <2>2. made = before \o one
    BY <1>4, <1>15
  <2> HIDE DEF one, before
  <2>3. /\ before \o one \in Seq(Calls) /\ After(img, before \o one) = After(mid, one)
        /\ Fronts(before \o one) = Fronts(before) \cup Fronts(one)
    BY <1>13, <2>1, AfterBoth
  <2>4. Fronts(before) = {}
    BY <1>13 DEF Reaches
  <2> QED
    BY <2>1, <2>2, <2>3, <2>4
<1>19. /\ mid.frontIntact = img.frontIntact /\ mid.inodeBitmap = img.inodeBitmap
       /\ mid.inodeTable = img.inodeTable /\ mid.dataBitmap = got.bm
       /\ mid.dataRegion = [region EXCEPT ![got.num] = block]
  BY <1>13 DEF Reaches
<1> HIDE DEF mid
<1> QED
  <2>1. Makes(img, made, inum, child)
    BY <1>11, <1>12, <1>17, <1>18, <1>19 DEF Makes
  <2> QED
    BY <1>10, <1>18, <2>1

LEMMA Retyped ==
    ASSUME NEW ino \in ShapedInodes, NEW t
    PROVE  [type |-> t, size |-> 0, direct |-> ino.direct] = [ino EXCEPT !.type = t, !.size = 0]
<1> DEFINE new == [ino EXCEPT !.type = t, !.size = 0]
<1>1. /\ DOMAIN new = {"type", "size", "direct"}
      /\ new.type = t /\ new.size = 0 /\ new.direct = ino.direct
  BY DEF ShapedInodes
<1>2. new = [f \in DOMAIN new |-> new[f]]
  BY DEF ShapedInodes
<1> HIDE DEF new
<1>3. new = [type |-> new.type, size |-> new.size, direct |-> new.direct]
  BY <1>1, <1>2
<1> QED
  BY <1>1, <1>3 DEF new

(* run_cret: the calls that Creat puts together are MFSServer's handler.   *)
LEMMA CreatImplemented ==
    ASSUME cache \in Shaped, NEW pinum \in Inums, NEW type \in CreatTypes, NEW name \in Names,
           Creat(pinum, type, name)
    PROVE  /\ todo' \in Seq(Calls) /\ mode' \in {"up", "lost"}
           /\ Server!Creat(pinum, type, name)
<1> DEFINE inum   == Min(Inums \ cache.inodeBitmap)
           pinode == cache.inodeTable[pinum]
           entry  == Server!Entry(name, inum)
           first  == [type |-> type, size |-> 0, direct |-> cache.inodeTable[inum].direct]
           region(linked) == After(cache, linked.calls).dataRegion
           reserve == <<InodeBit(inum), PutInode(inum, first)>>
<1>1. Done = cache /\ Server!Creatable(pinum) /\ cache' = cache
  BY DoneAtOnce DEF Creat, Idle
<1>2. /\ mode = "up" /\ mode' = ModeAfter(todo')
      /\ m' = [mtype |-> "CRET", inum |-> pinum, ftype |-> type, name |-> name, rc |-> 0]
  BY DEF Creat, Idle
<1>3. IF pinode.type = Server!MFS_DIRECTORY
        THEN \E seen \in Server!Views(cache.dataRegion) :
             \E linked \in EntryCalls(cache.dataBitmap, seen, pinode, entry) :
             \E made \in ChildCalls(linked.bm, region(linked), inum, pinum, type) :
                todo' = reserve \o linked.calls \o made \o <<Fsync>>
        ELSE todo' = reserve \o <<>> \o <<>> \o <<Fsync>>
  BY DEF Creat, CreatOrder
<1>4. inum \in Inums
  <2>1. cache.inodeBitmap \in SUBSET Inums
    BY DEF Shaped
  <2>2. cache.inodeBitmap # Inums
    BY <1>1 DEF Server!Creatable, Inums
  <2>3. Inums \ cache.inodeBitmap \in SUBSET Nat /\ Inums \ cache.inodeBitmap # {}
    BY <2>1, <2>2, Sizes
  <2> QED
    BY <2>3, LeastIsMember
<1>5. entry \in Server!Cells /\ pinode \in ShapedInodes
  <2>1. pinode \in ShapedInodes
    BY DEF Shaped
  <2> HIDE DEF inum
  <2>2. inum \in Int
    BY <1>4, Sizes
  <2> QED
    BY <2>1, <2>2 DEF Server!Entry, Server!Cells, Server!EntryNames
<1>6. first \in ShapedInodes
  <2> DEFINE old == cache.inodeTable[inum].direct
  <2>1. old \in [Ptrs -> Server!Pointers]
    BY <1>4 DEF Shaped, ShapedInodes
  <2>2. type \in Int
    BY ServerAssumption DEF Server!RequestsAssumption
  <2> HIDE DEF old
  <2>3. [type |-> type, size |-> 0, direct |-> old] \in ShapedInodes
    BY <2>1, <2>2 DEF ShapedInodes
  <2> QED
    BY <2>3 DEF old
<1>7. inum = Server!Min(Server!Inums \ cache.inodeBitmap)
  BY SameMin DEF Inums
<1>8. entry = Server!Entry(name, Server!Min(Server!Inums \ Done.inodeBitmap))
  BY <1>1, <1>7
<1>9. first = [cache.inodeTable[inum] EXCEPT !.type = type, !.size = 0]
  <2> DEFINE old == cache.inodeTable[inum]
  <2>1. old \in ShapedInodes
    BY <1>4 DEF Shaped
  <2> HIDE DEF old
  <2>2. first = [old EXCEPT !.type = type, !.size = 0]
    BY <2>1, Retyped DEF old
  <2> QED
    BY <2>2 DEF old
<1> HIDE DEF inum, pinode, entry, first
<1> DEFINE bit      == InodeBit(inum)
           put      == PutInode(inum, first)
           reserved == Effect(cache, bit)
           begun    == Effect(reserved, put)
           sync     == <<Fsync>>
<1>10. /\ reserved \in Shaped /\ reserved.frontIntact = cache.frontIntact
       /\ reserved.inodeBitmap = cache.inodeBitmap \cup {inum}
       /\ reserved.dataBitmap = cache.dataBitmap
       /\ reserved.inodeTable = cache.inodeTable
       /\ reserved.dataRegion = cache.dataRegion
  BY <1>4, ShapeAfterInodeBit
<1> HIDE DEF reserved
<1>11. /\ begun \in Shaped /\ begun.frontIntact = reserved.frontIntact
       /\ begun.inodeBitmap = reserved.inodeBitmap
       /\ begun.dataBitmap = reserved.dataBitmap
       /\ begun.inodeTable = [reserved.inodeTable EXCEPT ![inum] = first]
       /\ begun.dataRegion = reserved.dataRegion
  BY <1>4, <1>6, <1>10, ShapeAfterPutInode
<1>12. reserve \in Seq(Calls) /\ After(cache, reserve) = begun /\ Fronts(reserve) = {}
  <2>1. bit \in Calls /\ put \in Calls
    BY <1>4, <1>6 DEF Calls
  <2> DEFINE one == <<bit>>
             two == <<put>>
  <2>2. Fronts(one) = {} /\ Fronts(two) = {}
    BY NoFront
  <2>3. After(cache, Append(<<bit>>, put)) = begun
    BY AfterTwo DEF reserved
  <2> HIDE DEF bit, put, begun
  <2>4. one \in Seq(Calls) /\ two \in Seq(Calls) /\ reserve \in Seq(Calls)
    BY <2>1 DEF bit, put
  <2>5. Append(<<bit>>, put) = reserve
    BY AppendToOne DEF bit, put
  <2>6. Append(one, put) = one \o two
    BY <2>1, <2>4, AppendIsConcat
  <2>7. reserve = one \o two
    BY <2>5, <2>6
  <2> HIDE DEF reserve, one, two
  <2>8. Fronts(reserve) = {}
    BY <2>2, <2>4, <2>7, AfterBoth
  <2> QED
    BY <2>3, <2>4, <2>5, <2>8
<1>13. sync \in Seq(Calls) /\ Fronts(sync) = {} /\ \A img : After(img, sync) = img
  BY AfterOne, NoFront, EffectOfFsync DEF Calls
<1> HIDE DEF begun, reserve, sync
<1>14. CASE pinode.type = Server!MFS_DIRECTORY
  <2>1. PICK seen \in Server!Views(cache.dataRegion) :
          \E linked \in EntryCalls(cache.dataBitmap, seen, pinode, entry) :
          \E made \in ChildCalls(linked.bm, region(linked), inum, pinum, type) :
             todo' = reserve \o linked.calls \o made \o <<Fsync>>
    BY <1>3, <1>14
  <2>2. PICK linked \in EntryCalls(cache.dataBitmap, seen, pinode, entry) :
          \E made \in ChildCalls(linked.bm, region(linked), inum, pinum, type) :
             todo' = reserve \o linked.calls \o made \o <<Fsync>>
    BY <2>1
  <2>3. PICK made \in ChildCalls(linked.bm, region(linked), inum, pinum, type) :
          todo' = reserve \o linked.calls \o made \o <<Fsync>>
    BY <2>2
  <2>4. /\ linked.calls \in Seq(Calls)
        /\ \E there \in Server!AddDirEntry(cache.dataBitmap, cache.dataRegion, seen,
                                            pinode, entry) :
             /\ there.bm = linked.bm
             /\ \A img \in Shaped :
                  img.dataBitmap = cache.dataBitmap /\ img.dataRegion = cache.dataRegion =>
                    Enters(img, linked.calls, there)
    BY <1>5, EntryImplemented
  <2>5. PICK there \in Server!AddDirEntry(cache.dataBitmap, cache.dataRegion, seen,
                                           pinode, entry) :
          /\ there.bm = linked.bm
          /\ \A img \in Shaped :
               img.dataBitmap = cache.dataBitmap /\ img.dataRegion = cache.dataRegion =>
                 Enters(img, linked.calls, there)
    BY <2>4
  <2> DEFINE mid    == After(begun, linked.calls)
             spoils == Server!Spoils(there.write[1], there.write[2])
  <2>6. /\ mid \in Shaped /\ mid.frontIntact = (begun.frontIntact /\ ~spoils)
        /\ mid.inodeBitmap = begun.inodeBitmap /\ mid.inodeTable = begun.inodeTable
        /\ mid.dataBitmap = there.bm /\ mid.dataRegion = there.region
        /\ Fronts(linked.calls) = IF spoils THEN {there.write[1]} ELSE {}
    <3>1. Enters(begun, linked.calls, there)
      BY <1>10, <1>11, <2>5
    <3> QED
      BY <3>1 DEF Enters, Landing
  <2>7. region(linked) = there.region
    <3>1. Enters(cache, linked.calls, there)
      BY <2>5
    <3> QED
      BY <3>1 DEF Enters
  <2> HIDE DEF mid, spoils
  <2>8. made \in ChildCalls(mid.dataBitmap, mid.dataRegion, inum, pinum, type)
    BY <2>5, <2>6, <2>7
  <2>9. PICK child \in Server!AddChild(mid.dataBitmap, mid.dataRegion, inum, pinum, type) :
          made \in Seq(Calls) /\ Makes(mid, made, inum, child)
    BY <1>1, <1>4, <2>6, <2>8, ChildImplemented
  <2> DEFINE last == After(mid, made)
  <2>10. /\ todo' \in Seq(Calls) /\ After(cache, todo') = last
         /\ Fronts(todo') = IF spoils THEN {there.write[1]} ELSE {}
    <3> DEFINE calls == linked.calls
    <3>1. todo' = reserve \o calls \o made \o sync
      BY <2>3 DEF sync
    <3>2. calls \in Seq(Calls) /\ made \in Seq(Calls) /\ Fronts(made) = {}
      BY <2>4, <2>9 DEF Makes
    <3>3. Fronts(calls) = IF spoils THEN {there.write[1]} ELSE {}
      BY <2>6
    <3>4. After(begun, calls) = mid
      BY DEF mid
    <3> HIDE DEF calls
    <3> DEFINE two == reserve \o calls
               three == two \o made
    <3>5. two \in Seq(Calls) /\ After(cache, two) = mid /\ Fronts(two) = Fronts(calls)
      BY <1>12, <3>2, <3>4, AfterBoth
    <3> HIDE DEF two
    <3>6. three \in Seq(Calls) /\ After(cache, three) = last /\ Fronts(three) = Fronts(calls)
      BY <3>2, <3>5, AfterBoth
    <3> HIDE DEF three
    <3>7. /\ three \o sync \in Seq(Calls) /\ After(cache, three \o sync) = last
          /\ Fronts(three \o sync) = Fronts(calls)
      BY <1>13, <3>6, AfterBoth
    <3> QED
      BY <3>1, <3>3, <3>7 DEF two, three
  <2> HIDE DEF last
  <2>11. Done' = last
    BY <1>1, <2>10 DEF Done
  <2>12. /\ last.frontIntact = (cache.frontIntact /\ ~spoils)
         /\ last.inodeBitmap = cache.inodeBitmap \cup {inum}
         /\ last.dataBitmap = child.bm /\ last.dataRegion = child.region
         /\ last.inodeTable = [cache.inodeTable EXCEPT ![inum] = child.inode]
    <3>1. /\ last.frontIntact = (cache.frontIntact /\ ~spoils)
          /\ last.inodeBitmap = cache.inodeBitmap \cup {inum}
          /\ last.dataBitmap = child.bm /\ last.dataRegion = child.region
          /\ last.inodeTable = [mid.inodeTable EXCEPT ![inum] = child.inode]
      BY <1>10, <1>11, <2>6, <2>9 DEF last, Makes
    <3>2. mid.inodeTable = [cache.inodeTable EXCEPT ![inum] = first]
      BY <1>10, <1>11, <2>6
    <3>3. [[cache.inodeTable EXCEPT ![inum] = first] EXCEPT ![inum] = child.inode]
            = [cache.inodeTable EXCEPT ![inum] = child.inode]
      OBVIOUS
    <3> QED
      BY <3>1, <3>2, <3>3
  <2>13. mode' = IF Server!Astray(there.write[1], there.write[2]) THEN "lost" ELSE "up"
    <3>1. mode' = IF Fronts(todo') \subseteq {0} THEN "up" ELSE "lost"
      BY <1>2, ModeAfterFronts
    <3> QED
      BY <2>10, <3>1 DEF Server!Astray, spoils
  <2>14. Server!CreatServed(pinum, type, name)
    <3> DEFINE new == Server!Min(Server!Inums \ Done.inodeBitmap)
    <3>1. inum = new
      BY <1>1, <1>7
    <3>2. /\ seen \in Server!Views(Done.dataRegion)
          /\ there \in Server!AddDirEntry(Done.dataBitmap, Done.dataRegion, seen,
                                          Done.inodeTable[pinum], Server!Entry(name, new))
      BY <1>1, <1>8, <2>5 DEF pinode
    <3>3. child \in Server!AddChild(there.bm, there.region, new, pinum, type)
      BY <2>6, <2>9, <3>1
    <3>4. /\ Done'.inodeBitmap = Done.inodeBitmap \cup {new}
          /\ Done'.dataBitmap = child.bm /\ Done'.dataRegion = child.region
          /\ Done'.inodeTable = [Done.inodeTable EXCEPT ![new] = child.inode]
      BY <1>1, <2>11, <2>12, <3>1
    <3>5. Server!WritesLand({there.write})
      <4>1. Done'.frontIntact = (Done.frontIntact /\ ~spoils)
        BY <1>1, <2>11, <2>12
      <4> QED
        BY <1>2, <2>13, <4>1 DEF Server!WritesLand, spoils
    <3>6. Done.inodeTable[pinum].type = Server!MFS_DIRECTORY
      BY <1>1, <1>14 DEF pinode
    <3> HIDE DEF new
    <3>7. Server!Populate(pinum, new, type, name)
      BY <3>2, <3>3, <3>4, <3>5, <3>6 DEF Server!Populate
    <3> QED
      BY <3>4, <3>7 DEF Server!CreatServed, new
  <2> QED
    BY <1>1, <1>2, <2>10, <2>13, <2>14 DEF Server!Creat
<1>15. CASE pinode.type # Server!MFS_DIRECTORY
  <2>1. todo' = reserve \o <<>> \o <<>> \o sync
    BY <1>3, <1>15 DEF sync
  <2> DEFINE none == <<>>
             two  == reserve \o none
             three == two \o none
             last == After(cache, todo')
  <2>2. none \in Seq(Calls) /\ Fronts(none) = {} /\ \A img : After(img, none) = img
    BY FrontsOfNone, AfterNone
  <2>3. todo' = three \o sync
    BY <2>1
  <2> HIDE DEF none
  <2>4. two \in Seq(Calls) /\ After(cache, two) = begun /\ Fronts(two) = {}
    BY <1>12, <2>2, AfterBoth
  <2> HIDE DEF two
  <2>5. three \in Seq(Calls) /\ After(cache, three) = begun /\ Fronts(three) = {}
    BY <2>2, <2>4, AfterBoth
  <2> HIDE DEF three
  <2>6. todo' \in Seq(Calls) /\ last = begun /\ Fronts(todo') = {}
    BY <1>13, <2>3, <2>5, AfterBoth
  <2> HIDE DEF last
  <2>7. Done' = begun
    BY <1>1, <2>6 DEF Done, last
  <2>8. mode' = mode
    BY <1>2, <2>6, ModeAfterFronts
  <2>9. Server!CreatServed(pinum, type, name)
    <3> DEFINE new == Server!Min(Server!Inums \ Done.inodeBitmap)
    <3>1. inum = new
      BY <1>1, <1>7
    <3>2. /\ Done'.frontIntact = Done.frontIntact
          /\ Done'.inodeBitmap = Done.inodeBitmap \cup {new}
          /\ Done'.dataBitmap = Done.dataBitmap /\ Done'.dataRegion = Done.dataRegion
          /\ Done'.inodeTable = [Done.inodeTable EXCEPT ![new] = first]
      BY <1>1, <1>10, <1>11, <2>7, <3>1
    <3>3. first = [Done.inodeTable[new] EXCEPT !.type = type, !.size = 0]
      BY <1>1, <1>9, <3>1
    <3>4. Done.inodeTable[pinum].type # Server!MFS_DIRECTORY
      BY <1>1, <1>15 DEF pinode
    <3> HIDE DEF new
    <3>5. Server!Populate(pinum, new, type, name)
      BY <2>8, <3>2, <3>3, <3>4 DEF Server!Populate
    <3> QED
      BY <3>2, <3>5 DEF Server!CreatServed, new
  <2> QED
    BY <1>1, <1>2, <2>6, <2>8, <2>9 DEF Server!Creat
<1> QED
  BY <1>14, <1>15

(* The allocator sees of a region only its free blocks.                    *)
LEMMA SameFree ==
    ASSUME NEW bm \in Bitmaps, NEW region, NEW other, NEW uninit,
           \A b \in DataBlocks \ bm : region[b] = other[b]
    PROVE  Server!GetFreeDataBlock(bm, region, uninit) = Server!GetFreeDataBlock(bm, other, uninit)
<1>1. CASE bm = Server!DataBlocks
  BY <1>1 DEF Server!GetFreeDataBlock
<1>2. CASE bm # Server!DataBlocks
  <2> DEFINE n == Min(DataBlocks \ bm)
  <2>1. n \in DataBlocks \ bm
    BY <1>2, Sizes, LeastIsMember DEF Bitmaps, DataBlocks
  <2>2. n = Server!Min(Server!DataBlocks \ bm)
    BY SameMin DEF DataBlocks
  <2>3. region[n] = other[n]
    BY <2>1
  <2> HIDE DEF n
  <2> QED
    BY <1>2, <2>2, <2>3 DEF Server!GetFreeDataBlock
<1> QED
  BY <1>1, <1>2

(* The calls collected so far stand for the handler's copies in fs; of the *)
(* blocks still free none has been touched.                                *)
Filled(st, fs) ==
    /\ st.calls \in Seq(Calls)
    /\ fs.bm = st.bm /\ fs.inode = st.inode /\ fs.inode \in ShapedInodes
    /\ Reaches(cache, st.calls, fs.bm, fs.region)
    /\ \A b \in DataBlocks \ fs.bm : fs.region[b] = cache.dataRegion[b]

LEMMA FillImplemented ==
    ASSUME cache \in Shaped, NEW st, NEW fs, Filled(st, fs), NEW k, NEW beyond \in BOOLEAN,
           NEW st2 \in FillCalls(st, k, beyond)
    PROVE  \E fs2 \in Server!FillHole(fs, k, beyond) : Filled(st2, fs2)
<1> DEFINE kept == IF k \in Ptrs THEN ~Server!Hole(st.inode.direct[k]) ELSE ~beyond
<1>1. /\ st.calls \in Seq(Calls)
      /\ fs.bm = st.bm /\ fs.inode = st.inode /\ fs.inode \in ShapedInodes
      /\ Reaches(cache, st.calls, fs.bm, fs.region)
      /\ \A b \in DataBlocks \ fs.bm : fs.region[b] = cache.dataRegion[b]
  BY DEF Filled
<1>2. fs.inode.direct \in [Ptrs -> Server!Pointers] /\ fs.inode.size \in Int /\ fs.inode.type \in Int
  BY <1>1 DEF ShapedInodes
<1>3. CASE kept
  <2>1. st2 = st /\ fs \in Server!FillHole(fs, k, beyond)
    BY <1>1, <1>3 DEF FillCalls, Server!FillHole, Ptrs
  <2> QED
    BY <2>1
<1>4. CASE ~kept
  <2> DEFINE img == After(cache, st.calls)
             region == cache.dataRegion
             uninit == {0}
  <2>1. /\ img \in Shaped /\ img.frontIntact = cache.frontIntact
        /\ img.inodeBitmap = cache.inodeBitmap /\ img.inodeTable = cache.inodeTable
        /\ img.dataBitmap = fs.bm /\ img.dataRegion = fs.region
    BY <1>1 DEF Reaches
  <2>2. fs.bm \in Bitmaps /\ region \in Regions /\ uninit \in Bitmaps /\ fs.region \in Regions
    <3>1. fs.bm \in Bitmaps /\ fs.region \in Regions
      BY <2>1 DEF Shaped
    <3> QED
      BY <3>1, Sizes DEF Shaped, Bitmaps
  <2>3. PICK got \in TakeBlock(st.bm, region, uninit) :
          st2 = [bm    |-> got.bm,
                 calls |-> st.calls \o Append(got.mark, PutCells(got.num, got.buf)),
                 inode |-> [st.inode EXCEPT
                              !.size = @ + BlockSize,
                              !.direct = [l \in Ptrs |-> IF l = k THEN got.num + DataRegionAddr
                                                         ELSE @[l]]]]
    BY <1>4 DEF FillCalls
  <2> DEFINE step  == Append(got.mark, PutCells(got.num, got.buf))
             inode == [fs.inode EXCEPT
                         !.size = @ + BlockSize,
                         !.direct = [l \in Ptrs |-> IF l = k THEN got.num + DataRegionAddr
                                                    ELSE @[l]]]
  <2>4. st2.bm = got.bm /\ st2.calls = st.calls \o step /\ st2.inode = inode
    BY <1>1, <2>3
  <2> HIDE DEF img, region, uninit, inode
  <2>5. got \in TakeBlock(fs.bm, region, uninit)
    BY <1>1
  <2>6. /\ got.num \in got.bm /\ got.buf \in Server!Blocks
        /\ fs.bm \subseteq got.bm /\ got.bm \subseteq DataBlocks
        /\ \/ got.bm = fs.bm /\ got.mark = <<>>
           \/ got.bm = fs.bm \cup {got.num} /\ got.mark = <<DataBit(got.num)>>
        /\ \E free \in Server!GetFreeDataBlock(fs.bm, region, uninit) :
             free.bm = got.bm /\ free.num = got.num /\ free.buf = got.buf
    BY <2>2, <2>5, TakenShape
  <2>7. got \in TakeBlock(img.dataBitmap, region, uninit)
    BY <2>1, <2>5
  <2>8. /\ step \in Seq(Calls)
        /\ Reaches(img, step, got.bm, [img.dataRegion EXCEPT ![got.num] = got.buf])
    BY <2>1, <2>2, <2>6, <2>7, TakenAndWritten
  <2> HIDE DEF step
  <2>9. Server!GetFreeDataBlock(fs.bm, region, uninit)
          = Server!GetFreeDataBlock(fs.bm, fs.region, uninit)
    BY <1>1, <2>2, SameFree DEF region
  <2>10. PICK free \in Server!GetFreeDataBlock(fs.bm, fs.region, {0}) :
           free.bm = got.bm /\ free.num = got.num /\ free.buf = got.buf
    BY <2>6, <2>9 DEF uninit
  <2> DEFINE fs2 == [bm |-> free.bm,
                     region |-> [fs.region EXCEPT ![free.num] = free.buf],
                     inode |-> [fs.inode EXCEPT
                                  !.size = @ + BlockSize,
                                  !.direct = [l \in Ptrs |-> IF l = k
                                                             THEN free.num + DataRegionAddr
                                                             ELSE @[l]]]]
  <2>11. fs2 \in Server!FillHole(fs, k, beyond)
    <3>1. ~(IF k \in Server!Ptrs THEN ~Server!Hole(fs.inode.direct[k]) ELSE ~beyond)
      BY <1>1, <1>4 DEF Ptrs
    <3> QED
      BY <3>1 DEF Server!FillHole, Ptrs
  <2>12. /\ fs2.bm = got.bm /\ fs2.inode = inode
         /\ fs2.region = [fs.region EXCEPT ![got.num] = got.buf]
    BY <2>10 DEF inode
  <2> HIDE DEF fs2
  <2>13. got.num + DataRegionAddr \in Server!Pointers
    BY <2>6, BlockHasAddress
  <2> DEFINE size   == fs.inode.size + BlockSize
             direct == [l \in Ptrs |-> IF l = k THEN got.num + DataRegionAddr
                                      ELSE fs.inode.direct[l]]
  <2>14. inode = [fs.inode EXCEPT !.size = size, !.direct = direct]
    BY DEF inode
  <2>15. inode \in ShapedInodes /\ inode.direct = direct
    <3>1. direct \in [Ptrs -> Server!Pointers]
      BY <1>2, <2>13
    <3>2. size \in Int
      BY <1>2, Sizes
    <3> HIDE DEF direct, size
    <3> QED
      BY <1>1, <2>14, <3>1, <3>2 DEF ShapedInodes
  <2>16. st2.calls \in Seq(Calls) /\ Reaches(cache, st2.calls, fs2.bm, fs2.region)
    <3> DEFINE start == st.calls
    <3>1. start \in Seq(Calls) /\ Fronts(start) = {} /\ Fronts(step) = {}
      BY <1>1, <2>8 DEF Reaches
    <3>2. st2.calls = start \o step /\ img = After(cache, start)
      BY <2>4 DEF img
    <3> HIDE DEF start
    <3>3. /\ st2.calls \in Seq(Calls) /\ After(cache, st2.calls) = After(img, step)
          /\ Fronts(st2.calls) = {}
      BY <2>8, <3>1, <3>2, AfterBoth
    <3> QED
      BY <2>1, <2>8, <2>12, <3>3 DEF Reaches
  <2>17. ASSUME NEW b \in DataBlocks \ fs2.bm
         PROVE  fs2.region[b] = cache.dataRegion[b]
    <3>1. b # got.num /\ b \in DataBlocks \ fs.bm
      BY <2>6, <2>12, <2>17
    <3>2. fs2.region[b] = fs.region[b]
      BY <2>2, <2>12, <3>1 DEF Regions
    <3> QED
      BY <1>1, <3>1, <3>2
  <2>18. Filled(st2, fs2)
    BY <2>4, <2>12, <2>15, <2>16, <2>17 DEF Filled
  <2> QED
    BY <2>11, <2>18
<1> QED
  BY <1>3, <1>4

(* One write of a file's cells.                                            *)
Stored(img, after, addr, rem, n, dup, first) ==
    /\ Landed(img, after, addr, rem .. rem + n - 1)
    /\ after.dataRegion = Server!StoreCells(img.dataRegion, addr, rem, n, dup, first)

LEMMA DataImplemented ==
    ASSUME NEW img \in Shaped, NEW addr \in Int, NEW rem \in Nat, NEW n \in Nat,
           rem + n <= BlockSize, NEW dup, NEW first \in Nat,
           \A z \in first .. first + n - 1 : dup[z] \in Server!Cells
    PROVE  LET calls == DataCalls(addr, rem, n, dup, first)
           IN  /\ calls \in Seq(Calls) /\ Landing(calls, addr, rem .. rem + n - 1)
               /\ Stored(img, After(img, calls), addr, rem, n, dup, first)
<1> DEFINE calls == DataCalls(addr, rem, n, dup, first)
           cells == [j \in rem .. rem + n - 1 |-> dup[first + j - rem]]
           after == After(img, calls)
           b     == Rel(addr)
<1>1. calls = CellCalls(addr, cells)
  BY DEF DataCalls
<1>2. cells \in Parts
  <2>1. rem .. rem + n - 1 \in SUBSET Slots
    BY Sizes DEF Slots, Server!Slots
  <2>2. \A j \in rem .. rem + n - 1 : first + j - rem \in first .. first + n - 1
    OBVIOUS
  <2>3. \A j \in rem .. rem + n - 1 : dup[first + j - rem] \in Server!Cells
    BY <2>2
  <2>4. cells \in [rem .. rem + n - 1 -> Server!Cells]
    BY <2>3
  <2> HIDE DEF cells
  <2> QED
    BY <2>1, <2>4 DEF Parts
<1>3. /\ DOMAIN cells = rem .. rem + n - 1
      /\ \A j \in DOMAIN cells : cells[j] = dup[first + j - rem]
  OBVIOUS
<1> HIDE DEF cells, b
<1>4. /\ calls \in Seq(Calls) /\ Landing(calls, addr, DOMAIN cells)
      /\ Landed(img, after, addr, DOMAIN cells)
      /\ addr \in Server!DataAddrs =>
           after.dataRegion = [img.dataRegion EXCEPT ![b] = Over(cells, img.dataRegion[b])]
      /\ addr \notin Server!DataAddrs => after.dataRegion = img.dataRegion
  BY <1>1, <1>2, CellsImplemented DEF b
<1> HIDE DEF calls, after
<1>5. after.dataRegion = Server!StoreCells(img.dataRegion, addr, rem, n, dup, first)
  <2>1. CASE addr \in Server!DataAddrs
    <3> DEFINE block == [j \in Slots |-> IF j >= rem /\ j < rem + n THEN dup[first + j - rem]
                                         ELSE img.dataRegion[b][j]]
    <3>1. b \in DataBlocks
      BY <2>1, Sizes DEF Server!DataAddrs, b, Rel, Server!Rel, DataBlocks
    <3>2. img.dataRegion[b] \in Server!Blocks
      BY <3>1 DEF Shaped, Regions
    <3>3. Over(cells, img.dataRegion[b])
            = [j \in Slots |-> IF j \in DOMAIN cells THEN cells[j] ELSE img.dataRegion[b][j]]
      BY <1>2, <3>2, OverBlock
    <3>4. \A j \in Slots : j \in DOMAIN cells <=> j >= rem /\ j < rem + n
      BY <1>3, Sizes
    <3>5. Over(cells, img.dataRegion[b]) = block
      BY <1>3, <3>3, <3>4
    <3>6. Server!StoreCells(img.dataRegion, addr, rem, n, dup, first)
            = [img.dataRegion EXCEPT ![b] = block]
      BY <2>1 DEF Server!StoreCells, b, Rel, Slots
    <3> HIDE DEF block
    <3> QED
      BY <1>4, <2>1, <3>5, <3>6
  <2>2. CASE addr \notin Server!DataAddrs
    BY <1>4, <2>2 DEF Server!StoreCells
  <2> QED
    BY <2>1, <2>2
<1> QED
  BY <1>3, <1>4, <1>5 DEF Stored, calls, after

(* Some writes, <<address, cells>>, as MFSServer's WritesLand sees them.   *)
Lands(img, calls, after, writes) ==
    /\ Fronts(calls) \subseteq {0} <=> \A w \in writes : ~Server!Astray(w[1], w[2])
    /\ after.frontIntact = (img.frontIntact /\ \A w \in writes : ~Server!Spoils(w[1], w[2]))

LEMMA LandsOne ==
    ASSUME NEW img, NEW calls, NEW after, NEW addr, NEW cells,
           Landing(calls, addr, cells), Landed(img, after, addr, cells)
    PROVE  Lands(img, calls, after, {<<addr, cells>>})
<1>1. Fronts(calls) = IF Server!Spoils(addr, cells) THEN {addr} ELSE {}
  BY DEF Landing
<1>2. Fronts(calls) \subseteq {0} <=> ~Server!Astray(addr, cells)
  BY <1>1 DEF Server!Astray
<1>3. after.frontIntact = (img.frontIntact /\ ~Server!Spoils(addr, cells))
  BY DEF Landed
<1> QED
  BY <1>2, <1>3 DEF Lands

LEMMA LandsBoth ==
    ASSUME NEW img, NEW mid, NEW end, NEW s \in Seq(Calls), NEW t \in Seq(Calls),
           NEW W, NEW V, Lands(img, s, mid, W), Lands(mid, t, end, V)
    PROVE  Lands(img, s \o t, end, W \cup V)
<1> DEFINE all == s \o t
<1>1. Fronts(all) = Fronts(s) \cup Fronts(t)
  BY AfterBoth
<1> HIDE DEF all
<1>2. Fronts(all) \subseteq {0} <=> Fronts(s) \subseteq {0} /\ Fronts(t) \subseteq {0}
  BY <1>1
<1>3. /\ Fronts(s) \subseteq {0} <=> \A w \in W : ~Server!Astray(w[1], w[2])
      /\ Fronts(t) \subseteq {0} <=> \A w \in V : ~Server!Astray(w[1], w[2])
  BY DEF Lands
<1>4. Fronts(all) \subseteq {0} <=> \A w \in W \cup V : ~Server!Astray(w[1], w[2])
  BY <1>2, <1>3
<1>5. /\ mid.frontIntact = (img.frontIntact /\ \A w \in W : ~Server!Spoils(w[1], w[2]))
      /\ end.frontIntact = (mid.frontIntact /\ \A w \in V : ~Server!Spoils(w[1], w[2]))
  BY DEF Lands
<1>6. end.frontIntact = (img.frontIntact /\ \A w \in W \cup V : ~Server!Spoils(w[1], w[2]))
  BY <1>5
<1> QED
  BY <1>4, <1>6 DEF Lands, all

(* The ranges of a write: at most two neighbouring blocks.                 *)
LEMMA RangesOfWrite ==
    ASSUME NEW offset \in Nat, NEW nbytes \in 0 .. BlockSize
    PROVE  LET bi      == Server!BlockIndex(offset)
               crossed == Server!CrossedIndex(offset, nbytes)
               rem     == offset - bi * BlockSize
               before  == (bi + 1) * BlockSize - offset
           IN  /\ bi \in Nat /\ crossed \in Nat /\ rem \in Nat /\ before \in Nat
               /\ rem + before = BlockSize
               /\ crossed = bi => rem + nbytes < BlockSize
               /\ crossed # bi => crossed = bi + 1 /\ nbytes - before \in Nat
<1> DEFINE bi      == Server!BlockIndex(offset)
           crossed == Server!CrossedIndex(offset, nbytes)
<1>1. ASSUME NEW p \in Nat
      PROVE  /\ p \div BlockSize \in Nat /\ (p \div BlockSize) * BlockSize <= p
             /\ p < (p \div BlockSize + 1) * BlockSize
  BY Sizes
<1>2. /\ bi \in Nat /\ bi * BlockSize <= offset /\ offset < (bi + 1) * BlockSize
  BY <1>1 DEF Server!BlockIndex
<1>3. /\ crossed \in Nat /\ crossed * BlockSize <= offset + nbytes
      /\ offset + nbytes < (crossed + 1) * BlockSize
  <2>1. offset + nbytes \in Nat
    BY Sizes
  <2> QED
    BY <1>1, <2>1 DEF Server!CrossedIndex
<1> HIDE DEF bi, crossed
<1>4. ASSUME NEW x \in Nat, NEW y \in Nat, x < y
      PROVE  (x + 1) * BlockSize <= y * BlockSize
  BY <1>4, Sizes
<1>5. /\ (bi + 1) * BlockSize = bi * BlockSize + BlockSize
      /\ (crossed + 1) * BlockSize = crossed * BlockSize + BlockSize
      /\ (bi + 2) * BlockSize = bi * BlockSize + BlockSize + BlockSize
      /\ bi * BlockSize \in Nat /\ crossed * BlockSize \in Nat /\ BlockSize \in Nat
  BY <1>2, <1>3, Sizes
<1>6. ~(crossed < bi)
  <2>1. SUFFICES ASSUME crossed < bi PROVE FALSE
    OBVIOUS
  <2>2. (crossed + 1) * BlockSize <= bi * BlockSize
    BY <1>2, <1>3, <1>4, <2>1
  <2> QED
    BY <1>2, <1>3, <1>5, <2>2
<1>7. ~(bi + 1 < crossed)
  <2>1. SUFFICES ASSUME bi + 1 < crossed PROVE FALSE
    OBVIOUS
  <2>2. bi + 1 \in Nat /\ (bi + 1) + 1 = bi + 2
    BY <1>2
  <2>3. (bi + 2) * BlockSize <= crossed * BlockSize
    BY <1>3, <1>4, <2>1, <2>2
  <2> QED
    BY <1>2, <1>3, <1>5, <2>3
<1>8. crossed = bi \/ crossed = bi + 1
  BY <1>2, <1>3, <1>6, <1>7
<1>9. crossed = bi => offset - bi * BlockSize + nbytes < BlockSize
  BY <1>3, <1>5
<1>10. crossed = bi + 1 => nbytes - ((bi + 1) * BlockSize - offset) \in Nat
  <2>1. crossed = bi + 1 => (bi + 1) * BlockSize <= offset + nbytes
    BY <1>3
  <2> QED
    BY <1>5, <2>1
<1>11. /\ offset - bi * BlockSize \in Nat /\ (bi + 1) * BlockSize - offset \in Nat
       /\ (offset - bi * BlockSize) + ((bi + 1) * BlockSize - offset) = BlockSize
  BY <1>2, <1>5
<1> QED
  BY <1>2, <1>3, <1>8, <1>9, <1>10, <1>11 DEF bi, crossed

(* run_write: the calls that Write puts together are MFSServer's handler.  *)
LEMMA WriteImplemented ==
    ASSUME cache \in Shaped, NEW inum \in Inums, NEW offset \in Offsets, NEW nbytes \in Lengths,
           NEW buf, Write(inum, offset, nbytes, buf)
    PROVE  /\ todo' \in Seq(Calls) /\ mode' \in {"up", "lost"}
           /\ Server!Write(inum, offset, nbytes, buf)
<1> DEFINE bi      == Server!BlockIndex(offset)
           crossed == Server!CrossedIndex(offset, nbytes)
           rem     == offset - bi * BlockSize
           before  == (bi + 1) * BlockSize - offset
           inode   == cache.inodeTable[inum]
           st0     == [bm |-> cache.dataBitmap, calls |-> <<>>, inode |-> inode]
           fs0     == [bm |-> cache.dataBitmap, region |-> cache.dataRegion, inode |-> inode]
           front(st, dup) == DataCalls(st.inode.direct[bi], rem, before, dup, 0)
           back(st, dup)  == IF crossed \in Ptrs
                               THEN DataCalls(st.inode.direct[crossed], 0, nbytes - before,
                                              dup, before)
                               ELSE <<>>
           data(st, dup)  == IF crossed = bi
                               THEN DataCalls(inode.direct[bi], rem, nbytes, dup, 0)
                               ELSE front(st, dup) \o back(st, dup)
<1>1. Done = cache
  BY DoneAtOnce DEF Write, Idle
<1>2. Server!Writable(inum, offset, nbytes) /\ bi < DirectPtrs
  BY DEF Write, Server!Writable
<1>3. offset \in Nat /\ nbytes \in 0 .. BlockSize
  BY ServerAssumption DEF Server!RequestsAssumption
<1>4. /\ bi \in Nat /\ crossed \in Nat /\ rem \in Nat /\ before \in Nat
      /\ rem + before = BlockSize
      /\ crossed = bi => rem + nbytes < BlockSize
      /\ crossed # bi => crossed = bi + 1 /\ nbytes - before \in Nat
  BY <1>3, RangesOfWrite
<1>5. PICK beyond \in BOOLEAN, dup \in Server!Duplicates(buf, nbytes) :
        \E st1 \in FillCalls(st0, bi, beyond) :
        \E st2 \in IF crossed # bi THEN FillCalls(st1, crossed, beyond) ELSE {st1} :
          todo' = st2.calls \o <<PutInode(inum, st2.inode)>> \o data(st2, dup) \o <<Fsync>>
  BY DEF Write, WriteOrder
<1> HIDE DEF bi, crossed, rem, before, st0, data
<1>6. bi \in Ptrs
  BY <1>2, <1>4, Sizes DEF Ptrs, Server!Ptrs
<1>7. PICK st1 \in FillCalls(st0, bi, beyond) :
        \E st2 \in IF crossed # bi THEN FillCalls(st1, crossed, beyond) ELSE {st1} :
          todo' = st2.calls \o <<PutInode(inum, st2.inode)>> \o data(st2, dup) \o <<Fsync>>
  BY <1>5
<1>8. PICK st2 \in IF crossed # bi THEN FillCalls(st1, crossed, beyond) ELSE {st1} :
          todo' = st2.calls \o <<PutInode(inum, st2.inode)>> \o data(st2, dup) \o <<Fsync>>
  BY <1>7
<1>9. inode \in ShapedInodes /\ inode.direct \in [Ptrs -> Server!Pointers]
  BY DEF Shaped, ShapedInodes
<1>10. Filled(st0, fs0)
  <2>1. st0.bm = cache.dataBitmap /\ st0.calls = <<>> /\ st0.inode = inode
    BY DEF st0
  <2>2. fs0.bm = cache.dataBitmap /\ fs0.region = cache.dataRegion /\ fs0.inode = inode
    OBVIOUS
  <2> HIDE DEF fs0, inode
  <2>3. After(cache, <<>>) = cache /\ <<>> \in Seq(Calls)
    BY AfterNone
  <2>4. Reaches(cache, st0.calls, fs0.bm, fs0.region)
    BY <2>1, <2>2, <2>3, FrontsOfNone DEF Reaches
  <2> QED
    BY <1>9, <2>1, <2>2, <2>3, <2>4 DEF Filled
<1> HIDE DEF fs0, inode
<1>11. PICK fs1 \in Server!FillHole(fs0, bi, beyond) : Filled(st1, fs1)
  BY <1>7, <1>10, FillImplemented
<1>12. PICK fs2 \in IF crossed # bi THEN Server!FillHole(fs1, crossed, beyond) ELSE {fs1} :
         Filled(st2, fs2)
  <2>1. CASE crossed # bi
    <3>1. st2 \in FillCalls(st1, crossed, beyond)
      BY <1>8, <2>1
    <3>2. PICK fs2 \in Server!FillHole(fs1, crossed, beyond) : Filled(st2, fs2)
      BY <1>11, <3>1, FillImplemented
    <3> QED
      BY <2>1, <3>2
  <2>2. CASE crossed = bi
    BY <1>8, <1>11, <2>2
  <2> QED
    BY <2>1, <2>2
<1>13. /\ st2.calls \in Seq(Calls) /\ st2.inode = fs2.inode /\ st2.inode \in ShapedInodes
       /\ Reaches(cache, st2.calls, fs2.bm, fs2.region) /\ Fronts(st2.calls) = {}
  BY <1>12 DEF Filled, Reaches
<1> DEFINE put  == PutInode(inum, st2.inode)
           img2 == After(cache, st2.calls)
           img3 == Effect(img2, put)
<1>14. /\ img2 \in Shaped /\ img2.frontIntact = cache.frontIntact
       /\ img2.inodeBitmap = cache.inodeBitmap /\ img2.inodeTable = cache.inodeTable
       /\ img2.dataBitmap = fs2.bm /\ img2.dataRegion = fs2.region
  BY <1>13 DEF Reaches
<1> HIDE DEF img2
<1>15. /\ img3 \in Shaped /\ img3.frontIntact = cache.frontIntact
       /\ img3.inodeBitmap = cache.inodeBitmap
       /\ img3.inodeTable = [cache.inodeTable EXCEPT ![inum] = fs2.inode]
       /\ img3.dataBitmap = fs2.bm /\ img3.dataRegion = fs2.region
  <2>1. /\ img3 \in Shaped /\ img3.frontIntact = img2.frontIntact
        /\ img3.inodeBitmap = img2.inodeBitmap
        /\ img3.dataBitmap = img2.dataBitmap
        /\ img3.inodeTable = [img2.inodeTable EXCEPT ![inum] = st2.inode]
        /\ img3.dataRegion = img2.dataRegion
    BY <1>13, <1>14, ShapeAfterPutInode
  <2> QED
    BY <1>13, <1>14, <2>1
<1>16. put \in Calls
  BY <1>13 DEF Calls
<1>17. \A z \in 0 .. nbytes - 1 : dup[z] \in Server!Cells
  <2>1. dup \in [0 .. nbytes - 1 -> Payload \cup HeapCells]
    BY DEF Server!Duplicates
  <2>2. Payload \cup HeapCells \subseteq Server!Cells
    BY ServerAssumption DEF Server!RequestsAssumption, Server!LeftoversAssumption
  <2> QED
    BY <2>1, <2>2
<1> HIDE DEF img3, put
<1> DEFINE last == After(img3, data(st2, dup))
           half == Server!StoreCells(fs2.region, fs2.inode.direct[bi], rem, before, dup, 0)
           near == {<<inode.direct[bi], rem .. rem + nbytes - 1>>}
           far  == {<<fs2.inode.direct[bi], rem .. rem + before - 1>>} \cup
                   {<<fs2.inode.direct[k], 0 .. nbytes - before - 1>> : k \in {crossed} \cap Ptrs}
           Kept(after) ==
             /\ after \in Shaped
             /\ after.inodeBitmap = img3.inodeBitmap /\ after.dataBitmap = img3.dataBitmap
             /\ after.inodeTable = img3.inodeTable
<1>18. ASSUME crossed = bi
       PROVE  /\ data(st2, dup) \in Seq(Calls) /\ Kept(last)
              /\ Lands(img3, data(st2, dup), last, near)
              /\ last.dataRegion = Server!StoreCells(fs2.region, inode.direct[bi],
                                                     rem, nbytes, dup, 0)
  <2> DEFINE addr  == inode.direct[bi]
             calls == data(st2, dup)
             zero  == 0
  <2>1. addr \in Int
    BY <1>6, <1>9, PointersAreInts
  <2>2. nbytes \in Nat /\ rem + nbytes <= BlockSize /\ 0 + nbytes - 1 = nbytes - 1
    BY <1>3, <1>4, <1>18, Sizes
  <2>3. zero \in Nat /\ \A z \in zero .. zero + nbytes - 1 : dup[z] \in Server!Cells
    BY <1>17, <2>2
  <2>4. calls = DataCalls(addr, rem, nbytes, dup, zero)
    BY <1>18 DEF data
  <2> HIDE DEF zero, addr, calls
  <2>5. /\ calls \in Seq(Calls) /\ Landing(calls, addr, rem .. rem + nbytes - 1)
        /\ Stored(img3, After(img3, calls), addr, rem, nbytes, dup, zero)
    BY <1>4, <1>15, <2>1, <2>2, <2>3, <2>4, DataImplemented
  <2>6. last = After(img3, calls)
    BY DEF calls
  <2> HIDE DEF last
  <2>7. Landed(img3, last, addr, rem .. rem + nbytes - 1)
    BY <2>5, <2>6 DEF Stored
  <2>8. Lands(img3, calls, last, {<<addr, rem .. rem + nbytes - 1>>})
    BY <2>5, <2>7, LandsOne
  <2>9. Kept(last)
    BY <2>7 DEF Landed
  <2>10. last.dataRegion = Server!StoreCells(fs2.region, addr, rem, nbytes, dup, zero)
    BY <1>15, <2>5, <2>6 DEF Stored
  <2> QED
    BY <2>5, <2>8, <2>9, <2>10 DEF zero, addr, calls
<1>19. ASSUME crossed # bi
       PROVE  /\ data(st2, dup) \in Seq(Calls) /\ Kept(last)
              /\ Lands(img3, data(st2, dup), last, far)
              /\ last.dataRegion = IF crossed \in Ptrs
                                     THEN Server!StoreCells(half, fs2.inode.direct[crossed], 0,
                                                            nbytes - before, dup, before)
                                     ELSE half
  <2> DEFINE first == front(st2, dup)
             rest  == back(st2, dup)
             zero  == 0
             n     == nbytes - before
             mid   == After(img3, first)
             addr  == fs2.inode.direct[bi]
             other == fs2.inode.direct[crossed]
             this  == {<<addr, rem .. rem + before - 1>>}
             that  == {<<fs2.inode.direct[k], zero .. zero + n - 1>> : k \in {crossed} \cap Ptrs}
             calls == data(st2, dup)
  <2>1. calls = first \o rest
    BY <1>19 DEF data
  <2>2. /\ n \in Nat /\ before + n - 1 = nbytes - 1 /\ zero + n <= BlockSize
        /\ zero \in Nat /\ zero + before - 1 <= nbytes - 1 /\ zero + n - 1 = n - 1
    BY <1>3, <1>4, <1>19, Sizes
  <2>3. /\ \A z \in zero .. zero + before - 1 : dup[z] \in Server!Cells
        /\ \A z \in before .. before + n - 1 : dup[z] \in Server!Cells
    <3>1. /\ zero .. zero + before - 1 \subseteq 0 .. nbytes - 1
          /\ before .. before + n - 1 \subseteq 0 .. nbytes - 1
      BY <1>3, <1>4, <2>2
    <3> QED
      BY <1>17, <3>1
  <2>4. fs2.inode.direct \in [Ptrs -> Server!Pointers]
    BY <1>13 DEF ShapedInodes
  <2>5. addr \in Int /\ (crossed \in Ptrs => other \in Int)
    BY <1>6, <2>4, PointersAreInts
  <2>6. far = this \cup that
    BY <2>2
  <2>7. first = DataCalls(addr, rem, before, dup, zero)
    BY <1>13
  <2>8. rest = IF crossed \in Ptrs THEN DataCalls(other, zero, n, dup, before) ELSE <<>>
    BY <1>13
  <2>9. rem + before <= BlockSize
    BY <1>4, Sizes
  <2>10. half = Server!StoreCells(fs2.region, addr, rem, before, dup, zero)
    OBVIOUS
  <2>11. that = IF crossed \in Ptrs THEN {<<other, zero .. zero + n - 1>>} ELSE {}
    OBVIOUS
  <2> HIDE DEF first, rest, zero, n, addr, other, half, that, far, calls
  <2>12. /\ first \in Seq(Calls) /\ Landing(first, addr, rem .. rem + before - 1)
         /\ Stored(img3, mid, addr, rem, before, dup, zero)
    BY <1>4, <1>15, <2>2, <2>3, <2>5, <2>7, <2>9, DataImplemented
  <2> HIDE DEF mid
  <2>13. Landed(img3, mid, addr, rem .. rem + before - 1) /\ mid.dataRegion = half
    BY <1>15, <2>10, <2>12 DEF Stored
  <2>14. Kept(mid) /\ Lands(img3, first, mid, this)
    <3>1. Lands(img3, first, mid, {<<addr, rem .. rem + before - 1>>})
      BY <2>12, <2>13, LandsOne
    <3> QED
      BY <2>13, <3>1 DEF Landed
  <2> HIDE DEF this
  <2> DEFINE end == After(mid, rest)
  <2>15. /\ rest \in Seq(Calls) /\ Kept(end) /\ Lands(mid, rest, end, that)
         /\ end.dataRegion = IF crossed \in Ptrs
                               THEN Server!StoreCells(half, other, zero, n, dup, before)
                               ELSE half
    <3>1. CASE crossed \in Ptrs
      <4>1. rest = DataCalls(other, zero, n, dup, before)
        BY <2>8, <3>1
      <4>2. /\ rest \in Seq(Calls) /\ Landing(rest, other, zero .. zero + n - 1)
            /\ Stored(mid, end, other, zero, n, dup, before)
        BY <1>4, <2>2, <2>3, <2>5, <2>14, <3>1, <4>1, DataImplemented
      <4> HIDE DEF end
      <4>3. Landed(mid, end, other, zero .. zero + n - 1)
        BY <4>2 DEF Stored
      <4>4. Lands(mid, rest, end, {<<other, zero .. zero + n - 1>>})
        BY <4>2, <4>3, LandsOne
      <4>5. Kept(end)
        BY <2>14, <4>3 DEF Landed
      <4> QED
        BY <2>11, <2>13, <3>1, <4>2, <4>4, <4>5 DEF Stored
    <3>2. CASE crossed \notin Ptrs
      <4>1. rest = <<>> /\ rest \in Seq(Calls) /\ end = mid /\ that = {}
        BY <2>8, <2>11, <3>2, AfterNone
      <4>2. Fronts(rest) = {}
        BY <4>1, FrontsOfNone
      <4>3. mid.frontIntact \in BOOLEAN
        BY <2>14 DEF Shaped
      <4> HIDE DEF end
      <4>4. Lands(mid, rest, end, that)
        BY <4>1, <4>2, <4>3 DEF Lands
      <4> QED
        BY <2>13, <2>14, <3>2, <4>1, <4>4
    <3> QED
      BY <3>1, <3>2
  <2>16. calls \in Seq(Calls) /\ last = end
    <3>1. first \o rest \in Seq(Calls) /\ After(img3, first \o rest) = After(mid, rest)
      BY <2>12, <2>15, AfterBoth DEF mid
    <3> QED
      BY <2>1, <3>1 DEF calls
  <2> HIDE DEF end, last
  <2>17. Lands(img3, calls, last, far)
    <3>1. Lands(img3, first \o rest, end, this \cup that)
      BY <2>12, <2>14, <2>15, LandsBoth
    <3> QED
      BY <2>1, <2>6, <2>16, <3>1
  <2> QED
    BY <2>15, <2>16, <2>17 DEF zero, n, other, calls
<1>20. /\ data(st2, dup) \in Seq(Calls) /\ last \in Shaped
       /\ last.inodeBitmap = cache.inodeBitmap /\ last.dataBitmap = fs2.bm
       /\ last.inodeTable = [cache.inodeTable EXCEPT ![inum] = fs2.inode]
  <2> HIDE DEF last, half, near, far
  <2> QED
    BY <1>15, <1>18, <1>19
<1>21. /\ todo' \in Seq(Calls) /\ After(cache, todo') = last
       /\ Fronts(todo') = Fronts(data(st2, dup))
  <2> DEFINE sync  == <<Fsync>>
             one   == <<put>>
             calls == data(st2, dup)
             start == st2.calls
  <2>1. sync \in Seq(Calls) /\ Fronts(sync) = {} /\ \A img : After(img, sync) = img
    BY AfterOne, NoFront, EffectOfFsync DEF Calls
  <2>2. one \in Seq(Calls) /\ Fronts(one) = {} /\ After(img2, one) = img3
    BY <1>16, AfterOne, NoFront DEF img3, put
  <2>3. todo' = start \o one \o calls \o sync
    BY <1>8 DEF put
  <2>4. /\ start \in Seq(Calls) /\ calls \in Seq(Calls) /\ img2 = After(cache, start)
        /\ Fronts(start) = {}
    BY <1>13, <1>20 DEF img2
  <2>5. last = After(img3, calls)
    OBVIOUS
  <2> HIDE DEF sync, one, calls, start, last
  <2> DEFINE two   == start \o one
             three == two \o calls
  <2>6. two \in Seq(Calls) /\ After(cache, two) = img3 /\ Fronts(two) = {}
    BY <2>2, <2>4, AfterBoth
  <2> HIDE DEF two
  <2>7. three \in Seq(Calls) /\ After(cache, three) = last /\ Fronts(three) = Fronts(calls)
    BY <2>4, <2>5, <2>6, AfterBoth
  <2> HIDE DEF three
  <2>8. /\ three \o sync \in Seq(Calls) /\ After(cache, three \o sync) = last
        /\ Fronts(three \o sync) = Fronts(calls)
    BY <2>1, <2>7, AfterBoth
  <2> QED
    BY <2>3, <2>8 DEF two, three, calls
<1> HIDE DEF last
<1>22. Done' = last
  <2>1. cache' = cache
    BY DEF Write
  <2> QED
    BY <1>21, <2>1 DEF Done
<1>23. /\ mode = "up" /\ mode' = ModeAfter(todo') /\ Done.inodeTable[inum].size < MaxSize
       /\ m' = [mtype |-> "WRITE", inum |-> inum, offset |-> offset, nbytes |-> nbytes,
                buffer |-> buf, rc |-> 0]
  BY <1>1 DEF Write, Idle
<1>24. ASSUME NEW writes, Lands(img3, data(st2, dup), last, writes)
       PROVE  Server!WritesLand(writes)
  <2>1. mode' = IF Fronts(data(st2, dup)) \subseteq {0} THEN mode ELSE "lost"
    BY <1>21, <1>23, ModeAfterFronts
  <2>2. Done'.frontIntact =
          (Done.frontIntact /\ \A w \in writes : ~Server!Spoils(w[1], w[2]))
    BY <1>1, <1>15, <1>22, <1>24 DEF Lands
  <2>3. mode' = IF \E w \in writes : Server!Astray(w[1], w[2]) THEN "lost" ELSE mode
    BY <1>24, <2>1 DEF Lands
  <2> QED
    BY <2>2, <2>3 DEF Server!WritesLand
<1>25. /\ Done'.dataBitmap = fs2.bm
       /\ Done'.inodeTable = [Done.inodeTable EXCEPT ![inum] = fs2.inode]
       /\ \/ /\ crossed # bi
             /\ Done'.dataRegion = IF crossed \in Server!Ptrs
                                     THEN Server!StoreCells(half, fs2.inode.direct[crossed], 0,
                                                            nbytes - before, dup, before)
                                     ELSE half
             /\ Server!WritesLand(far)
          \/ /\ crossed = bi
             /\ Done'.dataRegion = Server!StoreCells(fs2.region,
                                                     Done.inodeTable[inum].direct[bi],
                                                     rem, nbytes, dup, 0)
             /\ Server!WritesLand(near)
  <2> HIDE DEF half, near, far
  <2>1. /\ Done'.dataBitmap = fs2.bm
        /\ Done'.inodeTable = [Done.inodeTable EXCEPT ![inum] = fs2.inode]
    BY <1>1, <1>20, <1>22
  <2>2. CASE crossed = bi
    BY <1>1, <1>18, <1>22, <1>24, <2>1, <2>2 DEF inode
  <2>3. CASE crossed # bi
    BY <1>19, <1>22, <1>24, <2>1, <2>3 DEF Ptrs
  <2> QED
    BY <2>2, <2>3
<1>26. fs0 = [bm |-> Done.dataBitmap, region |-> Done.dataRegion, inode |-> Done.inodeTable[inum]]
  BY <1>1 DEF fs0, inode
<1>27. Server!WriteServed(inum, offset, nbytes, buf)
  <2> DEFINE ServedBy(b, d, f1, f2) ==
        /\ Done'.dataBitmap = f2.bm
        /\ Done'.inodeTable = [Done.inodeTable EXCEPT ![inum] = f2.inode]
        /\ \/ /\ crossed # bi
              /\ Done'.dataRegion =
                   IF crossed \in Server!Ptrs
                     THEN Server!StoreCells(
                            Server!StoreCells(f2.region, f2.inode.direct[bi], rem, before, d, 0),
                            f2.inode.direct[crossed], 0, nbytes - before, d, before)
                     ELSE Server!StoreCells(f2.region, f2.inode.direct[bi], rem, before, d, 0)
              /\ Server!WritesLand({<<f2.inode.direct[bi], rem .. rem + before - 1>>} \cup
                                   {<<f2.inode.direct[k], 0 .. nbytes - before - 1>> :
                                      k \in {crossed} \cap Server!Ptrs})
           \/ /\ crossed = bi
              /\ Done'.dataRegion = Server!StoreCells(f2.region,
                                                      Done.inodeTable[inum].direct[bi],
                                                      rem, nbytes, d, 0)
              /\ Server!WritesLand({<<Done.inodeTable[inum].direct[bi],
                                      rem .. rem + nbytes - 1>>})
  <2>1. ServedBy(beyond, dup, fs1, fs2)
    BY <1>1, <1>25 DEF inode, Ptrs
  <2>2. (\E b \in BOOLEAN, d \in Server!Duplicates(buf, nbytes) :
         \E f1 \in Server!FillHole(fs0, bi, b) :
         \E f2 \in IF crossed # bi THEN Server!FillHole(f1, crossed, b) ELSE {f1} :
            ServedBy(b, d, f1, f2))
        => Server!WriteServed(inum, offset, nbytes, buf)
    BY <1>26 DEF Server!WriteServed, bi, crossed, rem, before
  <2> HIDE DEF ServedBy
  <2>3. \E f2 \in IF crossed # bi THEN Server!FillHole(fs1, crossed, beyond) ELSE {fs1} :
            ServedBy(beyond, dup, fs1, f2)
    BY <1>12, <2>1
  <2>4. \E f1 \in Server!FillHole(fs0, bi, beyond) :
        \E f2 \in IF crossed # bi THEN Server!FillHole(f1, crossed, beyond) ELSE {f1} :
            ServedBy(beyond, dup, f1, f2)
    BY <1>11, <2>3
  <2> QED
    BY <1>5, <2>2, <2>4
<1>28. Done'.inodeBitmap = Done.inodeBitmap
  BY <1>1, <1>20, <1>22
<1>29. mode' \in {"up", "lost"}
  BY <1>23 DEF ModeAfter
<1> QED
  BY <1>2, <1>21, <1>23, <1>27, <1>28, <1>29 DEF Server!Write
-----------------------------------------------------------------------------
(***************************************************************************)
(* An image that is not torn has its shape, and so have the calls that the *)
(* running handler has still to make.                                      *)
(***************************************************************************)
ShapeInv ==
    /\ torn \in BOOLEAN
    /\ ~torn => /\ cache \in Shaped /\ todo \in Seq(Calls)
                /\ mode \in {"up", "down", "lost"}
                /\ mode = "down" => todo = <<>>

LEMMA ShapeInit ==
    ASSUME Init
    PROVE  ShapeInv /\ Server!Init
<1>1. PICK stale \in [Inums \ {0} -> StaleInodes], junk \in StackNames :
         cache = [frontIntact |-> TRUE, inodeBitmap |-> {0}, dataBitmap |-> {0},
                  inodeTable  |-> [i \in Inums |-> IF i = 0 THEN Server!RootInode
                                                   ELSE stale[i]],
                  dataRegion  |-> [b \in DataBlocks |->
                                     IF b = 0 THEN Server!RootBlock(junk)
                                     ELSE [j \in Slots |-> Server!ZeroCell]]]
  BY DEF Init, DataBlocks
<1> DEFINE table  == [i \in Inums |-> IF i = 0 THEN Server!RootInode ELSE stale[i]]
           region == [b \in DataBlocks |-> IF b = 0 THEN Server!RootBlock(junk)
                                           ELSE [j \in Slots |-> Server!ZeroCell]]
<1>2. table \in [Inums -> ShapedInodes]
  <2>1. Server!RootInode \in ShapedInodes
    <3>1. DataRegionAddr \in Server!Pointers
      BY Sizes, BlockHasAddress
    <3>2. [k \in Ptrs |-> IF k = 0 THEN DataRegionAddr ELSE -1] \in [Ptrs -> Server!Pointers]
      BY <3>1 DEF Server!Pointers
    <3> QED
      BY <3>2 DEF Server!RootInode, Server!MFS_DIRECTORY, ShapedInodes, Ptrs
  <2>2. ASSUME NEW i \in Inums \ {0}
        PROVE  stale[i] \in ShapedInodes
    <3> DEFINE ino == stale[i]
    <3>1. ino \in StaleInodes
      OBVIOUS
    <3> HIDE DEF ino
    <3>2. ino \in [type : Int, size : Int, direct : [Ptrs -> Int]]
      BY <3>1, ServerAssumption DEF Server!LeftoversAssumption, Ptrs
    <3>3. \A k \in Ptrs : ino.direct[k] \in Server!Pointers
      BY <3>1 DEF Server!LeftoverPtrs, Server!Pointers, Ptrs
    <3>4. ino.direct \in [Ptrs -> Server!Pointers]
      BY <3>2, <3>3
    <3>5. ino \in ShapedInodes
      BY <3>2, <3>4 DEF ShapedInodes
    <3> QED
      BY <3>5 DEF ino
  <2> QED
    BY <2>1, <2>2
<1>3. region \in Regions
  <2>1. /\ junk \in Server!EntryNames /\ "." \in Server!EntryNames
        /\ ".." \in Server!EntryNames /\ "" \in Server!EntryNames
    BY DEF Server!EntryNames
  <2>2. ASSUME NEW name \in Server!EntryNames, NEW n \in Int
        PROVE  Server!Entry(name, n) \in Server!Cells
    BY DEF Server!Entry, Server!Cells
  <2>3. Server!RootBlock(junk) \in [Slots -> Server!Cells]
    <3>1. 0 \in Int /\ -1 \in Int
      OBVIOUS
    <3>2. Server!Entry(".", 0) \in Server!Cells
      BY <2>1, <2>2, <3>1
    <3>3. Server!Entry("..", 0) \in Server!Cells
      BY <2>1, <2>2, <3>1
    <3>4. Server!Entry(junk, -1) \in Server!Cells
      BY <2>1, <2>2, <3>1
    <3> QED
      BY <3>2, <3>3, <3>4 DEF Server!RootBlock, Slots
  <2>4. [j \in Slots |-> Server!ZeroCell] \in [Slots -> Server!Cells]
    <3>1. Server!ZeroCell \in Server!Cells
      BY DEF Server!ZeroCell, Server!Entry, Server!Cells, Server!EntryNames
    <3> QED
      BY <3>1
  <2> QED
    BY <2>3, <2>4 DEF Regions, Server!Blocks, Slots
<1> HIDE DEF table, region
<1>4. cache = [frontIntact |-> TRUE, inodeBitmap |-> {0}, dataBitmap |-> {0},
               inodeTable |-> table, dataRegion |-> region]
  BY <1>1 DEF table, region
<1>5. cache \in Shaped
  <2>1. {0} \in SUBSET Inums /\ {0} \in Bitmaps
    BY Sizes DEF Bitmaps
  <2> QED
    BY <1>2, <1>3, <1>4, <2>1 DEF Shaped
<1>6. mode = "down" /\ todo = <<>> /\ torn = FALSE /\ m = [mtype |-> "INIT", rc |-> 0]
  BY DEF Init
<1>7. Done = cache
  BY <1>6, AfterNone DEF Done
<1>8. ShapeInv
  <2>1. <<>> \in Seq(Calls)
    OBVIOUS
  <2> QED
    BY <1>5, <1>6, <2>1 DEF ShapeInv
<1>9. Server!Init
  <2>1. /\ Done.frontIntact = TRUE /\ Done.inodeBitmap = {0} /\ Done.dataBitmap = {0}
        /\ Done.inodeTable = table /\ Done.dataRegion = region
    BY <1>4, <1>7
  <2>2. \E s \in [Server!Inums \ {0} -> StaleInodes] :
          Done.inodeTable = [i \in Server!Inums |-> IF i = 0 THEN Server!RootInode ELSE s[i]]
    BY <2>1 DEF table, Inums
  <2>3. \E j \in StackNames :
          Done.dataRegion = [b \in Server!DataBlocks |->
                               IF b = 0 THEN Server!RootBlock(j)
                               ELSE [l \in Server!Slots |-> Server!ZeroCell]]
    BY <2>1 DEF region, DataBlocks, Slots
  <2> QED
    BY <1>6, <2>1, <2>2, <2>3 DEF Server!Init
<1> QED
  BY <1>8, <1>9

Handled ==
    \/ Server!Next
    \/ todo # <<>> /\ mode' = "down"
    \/ torn'

(* An idle server's image, left alone, is the one that is served.          *)
LEMMA NothingToDo ==
    ASSUME todo = <<>>, todo' = <<>>, cache' = cache
    PROVE  Done = cache /\ Done' = Done
BY AfterNone DEF Done

LEMMA ShapeStep ==
    ASSUME ShapeInv, [Next]_vars
    PROVE  ShapeInv' /\ (Handled \/ UNCHANGED Server!vars)
<1>1. CASE torn
  <2>1. torn' = TRUE
    <3>1. CASE PowerLoss
      BY <1>1, <3>1 DEF PowerLoss, ShapeInv
    <3>2. CASE torn' = torn
      BY <1>1, <3>2 DEF ShapeInv
    <3>3. ASSUME NEW i \in Inums,
                 \/ Stat(i)
                 \/ \E name \in Names, type \in CreatTypes : Creat(i, type, name)
                 \/ \E offset \in Offsets, nbytes \in Lengths :
                      \E buf \in Server!Buffers(nbytes) : Write(i, offset, nbytes, buf)
          PROVE  torn' = torn
      BY <3>3 DEF Stat, Creat, Write
    <3>4. Start \/ Interrupt \/ Shutdown \/ Call \/ Sync \/ UNCHANGED vars => torn' = torn
      BY DEF Start, Interrupt, Shutdown, Call, Sync, vars
    <3> QED
      BY <3>1, <3>2, <3>3, <3>4 DEF Next
  <2> QED
    BY <2>1 DEF ShapeInv, Handled
<1>2. CASE ~torn
  <2>1. /\ cache \in Shaped /\ todo \in Seq(Calls) /\ mode \in {"up", "down", "lost"}
        /\ mode = "down" => todo = <<>>
    BY <1>2 DEF ShapeInv
  <2>2. <<>> \in Seq(Calls) /\ <<Fsync>> \in Seq(Calls)
    BY AfterOne DEF Calls
  <2>3. CASE Start
    <3>1. /\ mode = "down" /\ todo = <<>> /\ todo' = <<>> /\ cache' = cache /\ m' = m
          /\ mode' = IF cache.frontIntact THEN "up" ELSE "lost"
          /\ torn' = torn
      BY <1>2, <2>1, <2>3 DEF Start
    <3>2. Done = cache /\ Done' = Done
      BY <3>1, NothingToDo
    <3>3. Server!Start
      BY <3>1, <3>2 DEF Server!Start, Server!disk
    <3>4. ShapeInv'
      BY <1>2, <2>1, <2>2, <3>1 DEF ShapeInv
    <3> QED
      BY <3>3, <3>4 DEF Handled, Server!Next
  <2>4. CASE Interrupt
    <3>1. /\ mode # "down" /\ mode' = "down" /\ todo' = <<>> /\ cache' = cache /\ m' = m
          /\ torn' = torn
      BY <2>4 DEF Interrupt
    <3>2. ShapeInv'
      BY <1>2, <2>1, <2>2, <3>1 DEF ShapeInv
    <3>3. CASE todo = <<>>
      <4>1. Done = cache /\ Done' = Done
        BY <3>1, <3>3, NothingToDo
      <4>2. Server!Shutdown
        BY <2>1, <3>1, <4>1 DEF Server!Shutdown, Server!disk
      <4> QED
        BY <3>2, <4>2 DEF Handled, Server!Next
    <3>4. CASE todo # <<>>
      BY <3>1, <3>2, <3>4 DEF Handled
    <3> QED
      BY <3>3, <3>4
  <2>5. CASE Shutdown
    <3>1. /\ mode = "up" /\ mode' = "down" /\ todo = <<>> /\ todo' = <<>> /\ cache' = cache
          /\ m' = m /\ torn' = torn
      BY <2>5 DEF Shutdown
    <3>2. Done = cache /\ Done' = Done
      BY <3>1, NothingToDo
    <3>3. Server!Shutdown
      BY <3>1, <3>2 DEF Server!Shutdown, Server!disk
    <3>4. ShapeInv'
      BY <1>2, <2>1, <2>2, <3>1 DEF ShapeInv
    <3> QED
      BY <3>3, <3>4 DEF Handled, Server!Next
  <2>6. CASE PowerLoss
    <3>1. PICK img \in Leftovers : cache' = img /\ torn' = (torn \/ todo # <<>> \/ img # cache)
      BY <2>6 DEF PowerLoss
    <3>2. mode' = "down" /\ todo' = <<>> /\ m' = m
      BY <2>6 DEF PowerLoss
    <3>3. CASE todo # <<>> \/ img # cache
      BY <3>1, <3>3 DEF ShapeInv, Handled
    <3>4. CASE todo = <<>> /\ img = cache
      <4>1. torn' = FALSE /\ cache' = cache
        BY <1>2, <3>1, <3>4 DEF ShapeInv
      <4>2. Done = cache /\ Done' = Done
        BY <3>2, <3>4, <4>1, NothingToDo
      <4>3. ShapeInv'
        BY <2>1, <2>2, <3>2, <4>1 DEF ShapeInv
      <4>4. CASE mode = "down"
        BY <3>2, <4>2, <4>3, <4>4 DEF Server!vars, Server!disk
      <4>5. CASE mode # "down"
        <5>1. Server!Shutdown
          BY <2>1, <3>2, <4>2, <4>5 DEF Server!Shutdown, Server!disk
        <5> QED
          BY <4>3, <5>1 DEF Handled, Server!Next
      <4> QED
        BY <4>4, <4>5
    <3> QED
      BY <3>3, <3>4
  <2>7. CASE Call \/ Sync
    <3>1. /\ mode' = mode /\ m' = m /\ torn' = torn /\ mode # "down" /\ todo # <<>>
          /\ todo' = Tail(todo)
      BY <2>1, <2>7 DEF Call, Sync
    <3>2. cache' = Effect(cache, Head(todo))
      <4>1. CASE Call
        BY <4>1 DEF Call
      <4>2. CASE Sync
        <5>1. Head(todo).to = "disk" /\ cache' = cache
          BY <4>2 DEF Sync
        <5> QED
          BY <5>1 DEF Effect
      <4> QED
        BY <2>7, <4>1, <4>2
    <3>3. Head(todo) \in Calls /\ Tail(todo) \in Seq(Calls)
      BY <2>1, <3>1
    <3>4. Effect(cache, Head(todo)) \in Shaped
      BY <2>1, <3>3, CallKeepsShape
    <3>5. ShapeInv'
      BY <1>2, <3>1, <3>2, <3>3, <3>4 DEF ShapeInv
    <3>6. After(cache, todo) = After(Effect(cache, Head(todo)), Tail(todo))
      BY <2>1, <3>1, AfterFirst
    <3>7. Done' = Done
      BY <3>1, <3>2, <3>6 DEF Done
    <3> QED
      BY <3>1, <3>5, <3>7 DEF Server!vars, Server!disk
  <2>8. ASSUME NEW i \in Inums, Stat(i)
        PROVE  ShapeInv' /\ Handled
    <3>1. /\ mode = "up" /\ todo = <<>> /\ i \in cache.inodeBitmap /\ todo' = <<Fsync>>
          /\ m' = [mtype |-> "STAT", inum |-> i, rc |-> 0,
                   size |-> cache.inodeTable[i].size, type |-> cache.inodeTable[i].type]
          /\ mode' = mode /\ cache' = cache /\ torn' = torn
      BY <2>8 DEF Stat, Idle
    <3>2. Done = cache
      BY <3>1, AfterNone DEF Done
    <3>3. Done' = cache
      <4>1. After(cache, <<Fsync>>) = cache
        BY AfterOne, EffectOfFsync
      <4> QED
        BY <3>1, <4>1 DEF Done
    <3>4. Server!Stat(i)
      BY <3>1, <3>2, <3>3 DEF Server!Stat, Server!disk
    <3>5. i \in Server!ReqInums
      BY DEF Server!ReqInums, Inums
    <3>6. ShapeInv'
      BY <1>2, <2>1, <2>2, <3>1 DEF ShapeInv
    <3> QED
      BY <3>4, <3>5, <3>6 DEF Handled, Server!Next
  <2>9. ASSUME NEW i \in Inums, NEW name \in Names, NEW type \in CreatTypes, Creat(i, type, name)
        PROVE  ShapeInv' /\ Handled
    <3>1. todo' \in Seq(Calls) /\ mode' \in {"up", "lost"} /\ Server!Creat(i, type, name)
      BY <2>1, <2>9, CreatImplemented
    <3>2. cache' = cache /\ torn' = torn
      BY <2>9 DEF Creat, Idle
    <3>3. i \in Server!ReqInums
      BY DEF Server!ReqInums, Inums
    <3>4. ShapeInv'
      BY <1>2, <2>1, <3>1, <3>2 DEF ShapeInv
    <3> QED
      BY <3>1, <3>3, <3>4 DEF Handled, Server!Next
  <2>10. ASSUME NEW i \in Inums, NEW offset \in Offsets, NEW nbytes \in Lengths,
                NEW buf \in Server!Buffers(nbytes), Write(i, offset, nbytes, buf)
         PROVE  ShapeInv' /\ Handled
    <3>1. /\ todo' \in Seq(Calls) /\ mode' \in {"up", "lost"}
          /\ Server!Write(i, offset, nbytes, buf)
      BY <2>1, <2>10, WriteImplemented
    <3>2. cache' = cache /\ torn' = torn
      BY <2>10 DEF Write, Idle
    <3>3. i \in Server!ReqInums
      BY DEF Server!ReqInums, Inums
    <3>4. ShapeInv'
      BY <1>2, <2>1, <3>1, <3>2 DEF ShapeInv
    <3> QED
      BY <3>1, <3>3, <3>4 DEF Handled, Server!Next
  <2>11. CASE UNCHANGED vars
    <3>1. UNCHANGED <<mode, cache, todo, m, torn>>
      BY <2>11 DEF vars
    <3>2. Done' = Done
      BY <3>1 DEF Done
    <3> QED
      BY <3>1, <3>2 DEF ShapeInv, Server!vars, Server!disk
  <2> QED
    BY <2>3, <2>4, <2>5, <2>6, <2>7, <2>8, <2>9, <2>10, <2>11 DEF Next
<1> QED
  BY <1>1, <1>2

(* The calls that run_cret, run_write and the fsync of the other handlers  *)
(* make one by one add up to what MFSServer says of the whole handler,     *)
(* whatever the kernel's memory, a full disk or stale pointers do to it.   *)
(* The only steps that MFSServer does not know are the ones that end the   *)
(* server between two calls and what follows a power failure in a handler. *)
THEOREM HandlersAreImplemented == Spec => HandlersImplemented
<1>1. Init => ShapeInv /\ Server!Init
  BY ShapeInit
<1>2. ShapeInv /\ [Next]_vars => ShapeInv' /\ [Handled]_(Server!vars)
  BY ShapeStep
<1> QED
  BY <1>1, <1>2, PTL DEF Spec, HandlersImplemented, Handled
=============================================================================
