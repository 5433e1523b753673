------------------------- MODULE MFSServerTreeProofs -------------------------
(***************************************************************************)
(* The server implements the tree of MFSTree while blocks last: its first  *)
(* image is the first tree, and each handler's whole step on the image is  *)
(* the step of that name on the tree.                                      *)
(***************************************************************************)
EXTENDS MFSServerTree, MFSServerDirProofs

(* What every step starts from while blocks last.                          *)
Ready ==
    /\ Support /\ DirsInv /\ LiveInodesPassDataCheck
    /\ dataBitmap # DataBlocks

LEMMA MapsAt ==
    ASSUME TypeOK
    PROVE  /\ inodeBitmap \subseteq Inums /\ Inums \subseteq Nat
           /\ inodeBitmap = LiveDirs \cup LiveFiles /\ LiveDirs \cap LiveFiles = {}
           /\ Tree!Dirs = LiveDirs /\ Tree!Files = LiveFiles
           /\ DOMAIN KindOf = inodeBitmap
           /\ Tree!FileEnd = MaxOffset
<1>1. inodeBitmap \subseteq Inums /\ Inums \subseteq Nat
  BY SizesAssumption DEF TypeOK, Inums
<1>2. \A i \in inodeBitmap : inodeTable[i].type \in {MFS_DIRECTORY, MFS_REGULAR_FILE}
  BY DEF TypeOK
<1>3. inodeBitmap = LiveDirs \cup LiveFiles /\ LiveDirs \cap LiveFiles = {}
  BY <1>2 DEF LiveDirs, LiveFiles, MFS_DIRECTORY, MFS_REGULAR_FILE
<1>4. Tree!Dirs = LiveDirs /\ Tree!Files = LiveFiles
  BY DEF Tree!Dirs, Tree!Files, NamesOf, TextOf
<1>5. DOMAIN KindOf = inodeBitmap
  BY DEF KindOf
<1>6. Tree!FileEnd = MaxOffset
  BY DEF Tree!FileEnd, MaxOffset
<1> QED
  BY <1>1, <1>3, <1>4, <1>5, <1>6

LEMMA StatStep ==
    ASSUME TypeOK, NEW i \in ReqInums, Stat(i)
    PROVE  Tree!Stat(i)
<1>1. UNCHANGED <<KindOf, NamesOf, RoomOf, TextOf>>
  BY DEF Stat, disk, KindOf, NamesOf, RoomOf, TextOf, LiveDirs, LiveFiles, Resolves,
         FreeSlots, Backing
<1>2. /\ m'.mtype = "STAT" /\ m'.inum = i
      /\ \/ i \in inodeBitmap /\ m'.rc = 0 /\ m'.type = inodeTable[i].type
         \/ i \notin inodeBitmap /\ m'.rc = -1
  BY DEF Stat
<1> QED
  BY <1>1, <1>2 DEF Tree!Stat, Tree!Answers, Tree!tree, KindOf

(* What a lookup answers in a live directory.                              *)
LEMMA NamesAt ==
    ASSUME TypeOK, NEW d \in LiveDirs, WellLinked(d), NEW name \in Names \cup {".", ".."}
    PROVE  /\ Tree!Dirs = LiveDirs /\ DOMAIN NamesOf[d] = Resolves(d)
           /\ IF name \in Resolves(d)
                THEN NamesOf[d][name] = LookupResult(dataRegion, inodeTable[d], name)
                ELSE LookupResult(dataRegion, inodeTable[d], name) \in {Unset, -1}
<1>1. Scanned(inodeTable[d]) = {0}
  BY OnlyFirstIsScanned DEF WellLinked
<1>2. LookupResult(dataRegion, inodeTable[d], name)
        = IF Hits(DirBlock(d), name) = {} THEN Unset
          ELSE DirBlock(d)[Min(Hits(DirBlock(d), name))].inum
  BY <1>1, LookupInOneBlock DEF DirBlock
<1>3. Slots \subseteq Nat
  BY SizesAssumption DEF Slots
<1>4. CASE Hits(DirBlock(d), name) # {}
  <2>1. Min(Hits(DirBlock(d), name)) \in Slots
    BY <1>3, <1>4, MinIsLeast DEF Hits
  <2>2. LookupResult(dataRegion, inodeTable[d], name) \in inodeBitmap \cup {-1}
    BY <1>2, <1>4, <2>1 DEF WellLinked
  <2> QED
    BY <2>2, MapsAt DEF Resolves, NamesOf
<1>5. CASE Hits(DirBlock(d), name) = {}
  <2>1. LookupResult(dataRegion, inodeTable[d], name) = Unset
    BY <1>2, <1>5
  <2> QED
    BY <2>1, MapsAt DEF Resolves, NamesOf
<1> QED
  BY <1>4, <1>5

LEMMA ServedIsLive ==
    ASSUME Ready, NEW i
    PROVE  Served(i) <=> i \in inodeBitmap
BY DEF Ready, Served, LiveInodesPassDataCheck, Exhausted

LEMMA LookupStep ==
    ASSUME Ready, NEW d \in ReqInums, NEW name \in Names, Lookup(d, name)
    PROVE  Tree!Lookup(d, name)
<1>1. UNCHANGED <<KindOf, NamesOf, RoomOf, TextOf>>
  BY DEF Lookup, disk, KindOf, NamesOf, RoomOf, TextOf, LiveDirs, LiveFiles, Resolves,
         FreeSlots, Backing
<1>2. NoLeftovers /\ TypeOK
  BY DEF Ready, Support
<1>3. CASE d \in LiveDirs
  <2>1. m' = [mtype |-> "LOOKUP", inum |-> d, name |-> name, rc |-> 0,
              found |-> LookupResult(dataRegion, inodeTable[d], name)]
    <3>1. \A seen \in Views(dataRegion) : seen = dataRegion
      BY <1>2, NothingElseSeen DEF TypeOK, Regions
    <3> QED
      BY <1>3, <3>1, ServedIsLive DEF Lookup, LiveDirs, MFS_DIRECTORY, MFS_REGULAR_FILE
  <2>2. WellLinked(d)
    BY <1>3 DEF Ready, DirsInv, Exhausted
  <2>3. /\ Tree!Dirs = LiveDirs /\ DOMAIN NamesOf[d] = Resolves(d)
        /\ IF name \in Resolves(d)
             THEN NamesOf[d][name] = LookupResult(dataRegion, inodeTable[d], name)
             ELSE LookupResult(dataRegion, inodeTable[d], name) \in {Unset, -1}
    BY <1>2, <1>3, <2>2, NamesAt
  <2> QED
    BY <1>1, <1>3, <2>1, <2>3 DEF Tree!Lookup, Tree!Answers, Tree!tree
<1>4. CASE d \notin LiveDirs
  <2>1. PICK found \in {Unset, -1} :
          m' = [mtype |-> "LOOKUP", inum |-> d, name |-> name, rc |-> -1, found |-> found]
    <3>1. ~(Served(d) /\ inodeTable[d].type # MFS_REGULAR_FILE)
      BY <1>2, <1>4, ServedIsLive DEF TypeOK, LiveDirs
    <3> QED
      BY <3>1 DEF Lookup
  <2> QED
    BY <1>1, <1>2, <1>4, <2>1, MapsAt DEF Tree!Lookup, Tree!Answers, Tree!tree
<1> QED
  BY <1>3, <1>4

LEMMA UnlinkStep ==
    ASSUME NEW d \in ReqInums, NEW name \in Names, Unlink(d, name)
    PROVE  Tree!Unlink(d, name)
<1>1. UNCHANGED <<KindOf, NamesOf, RoomOf, TextOf>>
  BY DEF Unlink, disk, KindOf, NamesOf, RoomOf, TextOf, LiveDirs, LiveFiles, Resolves,
         FreeSlots, Backing
<1>2. PICK rc \in {0, -1} :
        m' = [mtype |-> "UNLINK", inum |-> d, name |-> name, rc |-> rc]
  BY DEF Unlink
<1> QED
  BY <1>1, <1>2 DEF Tree!Unlink, Tree!Answers, Tree!tree
-----------------------------------------------------------------------------
(***************************************************************************)
(* Reads.                                                                  *)
(***************************************************************************)

(* The positions that a file has, by the block they lie in.                *)
LEMMA BackedPosition ==
    ASSUME NEW i, NEW pos \in Nat
    PROVE  /\ pos \in Backing(i) <=>
                pos \div BlockSize \in Ptrs /\ ~Hole(inodeTable[i].direct[pos \div BlockSize])
           /\ pos \div BlockSize \in Ptrs <=> pos < MaxOffset
<1> DEFINE k == pos \div BlockSize
<1>1. k \in Nat /\ k * BlockSize <= pos /\ pos < (k + 1) * BlockSize
  BY DivideByBlock
<1> HIDE DEF k
<1>2. k < DirectPtrs => pos < DirectPtrs * BlockSize
  <2>1. k < DirectPtrs => (k + 1) * BlockSize <= DirectPtrs * BlockSize
    BY <1>1, SizesAssumption
  <2>2. (k + 1) * BlockSize \in Nat /\ DirectPtrs * BlockSize \in Nat
    BY <1>1, SizesAssumption
  <2> QED
    BY <1>1, <2>1, <2>2
<1>3. k >= DirectPtrs => pos >= DirectPtrs * BlockSize
  <2>1. k >= DirectPtrs => k * BlockSize >= DirectPtrs * BlockSize
    BY <1>1, SizesAssumption
  <2>2. k * BlockSize \in Nat /\ DirectPtrs * BlockSize \in Nat
    BY <1>1, SizesAssumption
  <2> QED
    BY <1>1, <2>1, <2>2
<1>4. k \in Ptrs <=> pos < MaxOffset
  BY <1>1, <1>2, <1>3, SizesAssumption DEF Ptrs, MaxOffset
<1>5. pos \in 0 .. MaxOffset - 1 <=> pos < MaxOffset
  BY SizesAssumption DEF MaxOffset
<1> QED
  BY <1>4, <1>5 DEF Backing, k

LEMMA TextAt ==
    ASSUME TypeOK, NEW i \in LiveFiles
    PROVE  /\ Tree!Files = LiveFiles /\ Tree!FileEnd = MaxOffset
           /\ DOMAIN TextOf[i] = Backing(i)
           /\ \A pos \in Backing(i) :
                TextOf[i][pos] = FileCell(inodeTable, dataRegion, i, pos)
BY MapsAt DEF TextOf

(* A request names a position in a file, or the end that no file has.      *)
LEMMA EdgesAre ==
    ASSUME NEW offset \in Nat, NEW nbytes \in 0 .. BlockSize
    PROVE  /\ Tree!Edges(offset, nbytes) = {offset, offset + nbytes}
           /\ offset + nbytes \in Nat /\ MaxOffset \in Nat
BY SizesAssumption DEF Tree!Edges, MaxOffset

LEMMA ReadStep ==
    ASSUME Ready, NEW i \in ReqInums, NEW offset \in Offsets, NEW nbytes \in Lengths,
           Read(i, offset, nbytes)
    PROVE  Tree!Read(i, offset, nbytes)
<1>1. UNCHANGED <<KindOf, NamesOf, RoomOf, TextOf>>
  BY DEF Read, disk, KindOf, NamesOf, RoomOf, TextOf, LiveDirs, LiveFiles, Resolves,
         FreeSlots, Backing
<1>2. NoLeftovers /\ TypeOK /\ offset \in Nat /\ nbytes \in 0 .. BlockSize
  BY RequestsAssumption DEF Ready, Support
<1>a. \A seen \in Views(dataRegion) : seen = dataRegion
  BY <1>2, NothingElseSeen DEF TypeOK, Regions
<1>3. PICK beyond \in BOOLEAN :
        LET ok == Served(i) /\ Readable(inodeTable[i], offset, nbytes, beyond)
        IN  m' = [mtype |-> "READ", inum |-> i, offset |-> offset,
                  nbytes |-> nbytes, rc |-> IF ok THEN 0 ELSE -1,
                  buffer |-> IF ok THEN ReadCells(dataRegion, inodeTable[i], offset, nbytes)
                             ELSE Unset]
  BY <1>a DEF Read
<1> DEFINE ok == Served(i) /\ Readable(inodeTable[i], offset, nbytes, beyond)
           answer(rc, buffer) == [mtype |-> "READ", inum |-> i, offset |-> offset,
                                  nbytes |-> nbytes, rc |-> rc, buffer |-> buffer]
<1>4. m'.mtype = "READ" /\ m'.inum = i
  BY <1>3
<1>5. CASE i \in LiveDirs
  BY <1>1, <1>2, <1>4, <1>5, MapsAt DEF Tree!Read, Tree!Answers, Tree!tree
<1>6. CASE i \notin LiveDirs /\ i \notin LiveFiles
  <2>1. m' = answer(-1, Unset)
    <3>1. ~Served(i)
      BY <1>2, <1>6, MapsAt, ServedIsLive
    <3> QED
      BY <1>3, <3>1
  <2>2. i \notin Tree!Dirs /\ i \notin Tree!Files
    BY <1>2, <1>6, MapsAt
  <2> QED
    BY <1>1, <1>4, <2>1, <2>2 DEF Tree!Read, Tree!Answers, Tree!tree
<1>7. CASE i \in LiveFiles
  <2> DEFINE end == offset + nbytes
             edges == Tree!Edges(offset, nbytes)
  <2>1. /\ i \in Tree!Files /\ i \notin Tree!Dirs /\ DOMAIN TextOf[i] = Backing(i)
        /\ Tree!FileEnd = MaxOffset /\ Served(i)
    BY <1>2, <1>7, MapsAt, TextAt, ServedIsLive
  <2>2. edges = {offset, end} /\ end \in Nat /\ MaxOffset \in Nat
    BY <1>2, EdgesAre
  <2>3. /\ \A e \in edges : e \in Backing(i) <=> /\ e \div BlockSize \in Ptrs
                                               /\ ~Hole(inodeTable[i].direct[e \div BlockSize])
        /\ \A e \in edges : e \div BlockSize \in Ptrs <=> e < MaxOffset
    BY <1>2, <2>2, BackedPosition
  <2>4. BlockIndex(offset) \in Ptrs <=> BlockIndex(offset) < DirectPtrs
    BY <1>2, DivideByBlock, SizesAssumption DEF BlockIndex, Ptrs
  <2>5. CASE ~ok
    <3>1. m' = answer(-1, Unset)
      BY <1>3, <2>5
    <3>2. ~(edges \subseteq Backing(i))
      <4>1. ~Readable(inodeTable[i], offset, nbytes, beyond)
        BY <2>1, <2>5
      <4> QED
        BY <2>2, <2>3, <2>4, <4>1 DEF Readable, BlockIndex, CrossedIndex
    <3> QED
      BY <1>1, <1>4, <2>1, <3>1, <3>2 DEF Tree!Read, Tree!Answers, Tree!tree
  <2>6. CASE ok
    <3>1. /\ end <= MaxOffset
          /\ offset \in Backing(i)
          /\ end \in Backing(i) \/ end = MaxOffset
      BY <2>2, <2>3, <2>4, <2>6 DEF Readable, BlockIndex, CrossedIndex
    <3>2. offset # MaxOffset
      BY <2>2, <2>3, <3>1
    <3>3. ASSUME NEW z \in 0 .. nbytes - 1
          PROVE  ReadCells(dataRegion, inodeTable[i], offset, nbytes)[z] = TextOf[i][offset + z]
      <4>1. (offset + z) \div BlockSize \in {BlockIndex(offset), CrossedIndex(offset, nbytes)}
        BY <1>2, PlaceInWrite
      <4>2. offset + z \in Nat /\ offset + z < end
        BY <1>2
      <4>3. offset + z \in Backing(i)
        <5>1. (offset + z) \div BlockSize \in Ptrs
          BY <2>2, <3>1, <4>2, BackedPosition
        <5>2. ~Hole(inodeTable[i].direct[(offset + z) \div BlockSize])
          BY <2>6, <4>1, <5>1 DEF Readable
        <5> QED
          BY <4>2, <5>1, <5>2, BackedPosition
      <4>4. TextOf[i][offset + z] = FileCell(inodeTable, dataRegion, i, offset + z)
        BY <1>2, <1>7, <4>3, TextAt
      <4> QED
        BY <4>4 DEF ReadCells, FileCell
    <3>4. ReadCells(dataRegion, inodeTable[i], offset, nbytes)
            = [z \in 0 .. nbytes - 1 |-> TextOf[i][offset + z]]
      BY <3>3 DEF ReadCells
    <3>5. m' = answer(0, [z \in 0 .. nbytes - 1 |-> TextOf[i][offset + z]])
      BY <1>3, <2>6, <3>4
    <3>6. edges \subseteq Backing(i) \cup {MaxOffset}
      BY <2>2, <3>1
    <3> QED
      BY <1>1, <1>4, <2>1, <3>1, <3>2, <3>5, <3>6 DEF Tree!Read, Tree!Answers, Tree!tree
  <2> QED
    BY <2>5, <2>6
<1> QED
  BY <1>5, <1>6, <1>7
-----------------------------------------------------------------------------
(***************************************************************************)
(* Creates.                                                                *)
(***************************************************************************)

(* A name that resolves to no inode is in free entries only.               *)
LEMMA UnresolvedIsFree ==
    ASSUME NoLeftovers, TypeOK, NEW d \in LiveDirs, WellLinked(d), NEW name,
           LookupResult(dataRegion, inodeTable[d], name) \notin Inums,
           NEW p \in Hits(DirBlock(d), name)
    PROVE  DirBlock(d)[p].inum = -1
<1> DEFINE least == Min(Hits(DirBlock(d), name))
<1>1. LookupResult(dataRegion, inodeTable[d], name) = DirBlock(d)[least].inum
  <2>1. Scanned(inodeTable[d]) = {0}
    BY OnlyFirstIsScanned DEF WellLinked
  <2> QED
    BY <2>1, LookupInOneBlock DEF DirBlock
<1>2. least \in Hits(DirBlock(d), name) /\ least <= p /\ Slots \subseteq Nat
  <2>1. Slots \subseteq Nat
    BY SizesAssumption DEF Slots
  <2> QED
    BY <2>1, MinIsLeast DEF Hits
<1> HIDE DEF least
<1>3. DirBlock(d)[least].inum = -1
  BY <1>1, <1>2 DEF WellLinked, Hits, TypeOK
<1>4. least \in Nat /\ p \in Nat /\ least \in Slots /\ p \in Slots
  BY <1>2 DEF Hits
<1>5. CASE least = p
  BY <1>3, <1>5
<1>6. CASE least # p
  <2>1. least < p
    BY <1>2, <1>4, <1>6
  <2> QED
    BY <1>3, <1>4, <2>1 DEF WellLinked
<1> QED
  BY <1>5, <1>6

(* The entry that a create adds makes its name resolve if it did not, and  *)
(* no other name.                                                          *)
LEMMA ParentNames ==
    ASSUME NoLeftovers, TypeOK, NEW d \in LiveDirs, WellLinked(d), inodeTable'[d] = inodeTable[d],
           NEW name \in Names, NEW inum \in Inums,
           FirstFreeFilled(d, Entry(name, inum)), inum \in inodeBitmap',
           NEW q
    PROVE  LET old == LookupResult(dataRegion, inodeTable[d], q)
               new == LookupResult(dataRegion', inodeTable'[d], q)
           IN  IF old \in Inums THEN new = old
               ELSE IF q = name THEN new = inum ELSE new \notin Inums
<1> DEFINE old == LookupResult(dataRegion, inodeTable[d], q)
           new == LookupResult(dataRegion', inodeTable'[d], q)
           was == Hits(DirBlock(d), q)
           is  == Hits(DirBlock(d)', q)
<1>1. PICK j \in Slots :
        /\ DirBlock(d)[j].inum = -1
        /\ \A l \in Slots : l < j => DirBlock(d)[l].inum # -1
        /\ DirBlock(d)' = [DirBlock(d) EXCEPT ![j] = Entry(name, inum)]
  BY DEF FirstFreeFilled
<1>2. DirBlock(d) \in Blocks /\ Slots \subseteq Nat
  BY DirBlockIsBlock
<1>3. CASE old \in Inums
  <2>1. Entry(name, inum) \in [name : Names, inum : inodeBitmap']
    BY DEF Entry
  <2>2. KeptOrExtended(d)
    BY <1>1, <2>1 DEF KeptOrExtended
  <2> QED
    BY <1>3, <2>2, ResolvedNameKept
<1>4. new = IF is = {} THEN Unset ELSE DirBlock(d)'[Min(is)].inum
  <2>1. Scanned(inodeTable'[d]) = {0}
    BY OnlyFirstIsScanned DEF WellLinked
  <2> QED
    BY <2>1, LookupInOneBlock DEF DirBlock
<1>5. is = IF name = q THEN was \cup {j} ELSE was \ {j}
  <2>1. Entry(name, inum).name = name
    BY DEF Entry
  <2>2. \A l \in Slots : DirBlock(d)'[l].name = IF l = j THEN name ELSE DirBlock(d)[l].name
    BY <1>1, <1>2, <2>1 DEF Blocks
  <2> QED
    BY <2>2 DEF Hits
<1>6. is # {} => Min(is) \in is /\ \A y \in is : Min(is) <= y
  <2>1. is \in SUBSET Nat
    BY <1>2 DEF Hits
  <2> QED
    BY <2>1, MinIsLeast
<1>7. /\ DirBlock(d)'[j].inum = inum
      /\ \A l \in Slots : l # j => DirBlock(d)'[l] = DirBlock(d)[l]
  BY <1>1, <1>2 DEF Blocks, Entry
<1>8. \A y \in was : y \in Slots
  BY DEF Hits
<1> HIDE DEF old, new, was, is
<1>9. CASE old \notin Inums
  <2>1. \A p \in was : DirBlock(d)[p].inum = -1
    BY <1>9, UnresolvedIsFree DEF old, was
  <2>2. CASE q = name
    <3>1. Min(is) = j
      <4>1. is = was \cup {j} /\ j \in is /\ Min(is) \in is /\ Min(is) <= j
        BY <1>5, <1>6, <2>2
      <4>2. CASE Min(is) \in was
        <5>1. ~(Min(is) < j)
          BY <1>1, <1>8, <2>1, <4>2
        <5>2. Min(is) \in Nat /\ j \in Nat
          BY <1>2, <1>8, <4>2
        <5> QED
          BY <4>1, <5>1, <5>2
      <4> QED
        BY <4>1, <4>2
    <3> QED
      BY <1>4, <1>5, <1>7, <1>9, <2>2, <3>1 DEF old, new
  <2>3. CASE q # name
    <3>1. is # {} => DirBlock(d)'[Min(is)].inum = -1
      BY <1>5, <1>6, <1>7, <1>8, <2>1, <2>3
    <3>2. Unset \notin Inums /\ -1 \notin Inums
      BY RequestsAssumption, SizesAssumption DEF Inums
    <3> QED
      BY <1>4, <1>9, <2>3, <3>1, <3>2 DEF old, new
  <2> QED
    BY <2>2, <2>3
<1> QED
  BY <1>3, <1>9 DEF old, new

(* How many names a directory has room for.                                *)
FreeIn(block) == {j \in Slots : block[j].inum = -1}

LEMMA RoomInOneBlock ==
    ASSUME NEW region, NEW inode, Scanned(inode) = {0}
    PROVE  LET block == region[Rel(inode.direct[0])]
               free  == {s \in Scanned(inode) \X Slots :
                           EntryAt(region, inode, s[1], s[2]).inum = -1}
           IN  /\ IsFiniteSet(FreeIn(block)) /\ Cardinality(FreeIn(block)) \in Nat
               /\ Cardinality(free) = Cardinality(FreeIn(block))
<1> DEFINE block == region[Rel(inode.direct[0])]
           free  == {s \in Scanned(inode) \X Slots :
                       EntryAt(region, inode, s[1], s[2]).inum = -1}
<1>1. free = {0} \X FreeIn(block)
  BY DEF EntryAt, FreeIn
<1> HIDE DEF block, free
<1>2. IsFiniteSet(FreeIn(block))
  <2>1. IsFiniteSet(Slots)
    BY SizesAssumption, FS_Interval DEF Slots
  <2> QED
    BY <2>1, FS_Subset DEF FreeIn
<1>3. IsFiniteSet({0}) /\ Cardinality({0}) = 1
  BY FS_Singleton
<1>4. Cardinality(FreeIn(block)) \in Nat
  BY <1>2, FS_CardinalityType
<1>5. Cardinality({0} \X FreeIn(block)) = 1 * Cardinality(FreeIn(block))
  BY <1>2, <1>3, FS_Product
<1>6. Cardinality(free) = Cardinality(FreeIn(block))
  BY <1>1, <1>4, <1>5
<1> QED
  BY <1>2, <1>4, <1>6 DEF block, free

LEMMA OneRoomLess ==
    ASSUME NoLeftovers, TypeOK, NEW d \in LiveDirs, WellLinked(d), NEW entry,
           FirstFreeFilled(d, entry), entry.inum # -1
    PROVE  /\ Cardinality(FreeIn(DirBlock(d))) > 0
           /\ Cardinality(FreeIn(DirBlock(d)')) = Cardinality(FreeIn(DirBlock(d))) - 1
<1>1. PICK j \in Slots :
        /\ DirBlock(d)[j].inum = -1
        /\ DirBlock(d)' = [DirBlock(d) EXCEPT ![j] = entry]
  BY DEF FirstFreeFilled
<1>2. DirBlock(d) \in Blocks
  BY DirBlockIsBlock
<1>3. FreeIn(DirBlock(d)') = FreeIn(DirBlock(d)) \ {j} /\ j \in FreeIn(DirBlock(d))
  BY <1>1, <1>2 DEF FreeIn, Blocks
<1>4. IsFiniteSet(FreeIn(DirBlock(d)))
  <2>1. Scanned(inodeTable[d]) = {0}
    BY OnlyFirstIsScanned DEF WellLinked
  <2> QED
    BY <2>1, RoomInOneBlock DEF DirBlock
<1>5. Cardinality(FreeIn(DirBlock(d)')) = Cardinality(FreeIn(DirBlock(d))) - 1
  BY <1>3, <1>4, FS_RemoveElement
<1>6. Cardinality(FreeIn(DirBlock(d))) \in Nat /\ Cardinality(FreeIn(DirBlock(d))) # 0
  BY <1>3, <1>4, FS_CardinalityType, FS_EmptySet
<1> QED
  BY <1>5, <1>6

(* A new directory has its two names and no room: what lies behind them    *)
(* are entries of the root without a name.                                 *)
LEMMA NewNames ==
    ASSUME Ready, TypeOK', ZeroCell.name \notin Names, NEW pinum \in LiveDirs, NEW name,
           NEW inum, NEW nb, CreatedWithRoom(pinum, MFS_DIRECTORY, name, inum, nb),
           LiveDirs \subseteq LiveDirs', inum \in LiveDirs'
    PROVE  NamesOf'[inum] = Tree!Dots(inum, pinum) /\ RoomOf'[inum] = 0
<1> DEFINE block == DirBlock(inum)'
           answer(q) == LookupResult(dataRegion', inodeTable'[inum], q)
<1>1. /\ WellLinked(inum)'
      /\ \A j \in Slots : block[j] = IF j = 0 THEN Entry(".", inum)
                                      ELSE IF j = 1 THEN Entry("..", pinum)
                                      ELSE ZeroCell
  BY NewWellLinked DEF Ready
<1>2. Scanned(inodeTable'[inum]) = {0}
  BY <1>1, OnlyFirstIsScanned DEF WellLinked
<1>3. \A q : answer(q) = IF Hits(block, q) = {} THEN Unset ELSE block[Min(Hits(block, q))].inum
  BY <1>2, LookupInOneBlock DEF DirBlock
<1>4. {0, 1} \subseteq Slots /\ inum \in Inums /\ pinum \in Inums
  BY ZeroAndOneAreSlots DEF CreatedWithRoom, LiveDirs, Ready, Support, TypeOK
<1> HIDE DEF block, answer
<1>5. /\ Entry(".", inum).name = "." /\ Entry(".", inum).inum = inum
      /\ Entry("..", pinum).name = ".." /\ Entry("..", pinum).inum = pinum
      /\ ZeroCell.inum = 0
  BY DEF Entry, ZeroCell
<1>a. ZeroCell.name # "." /\ ZeroCell.name # ".."
  BY Zenon DEF Entry, ZeroCell
<1>6. /\ block[0].name = "." /\ block[1].name = ".."
      /\ block[0].inum = inum /\ block[1].inum = pinum
      /\ \A j \in Slots \ {0, 1} : block[j] = ZeroCell
  BY <1>1, <1>4, <1>5
<1>7. \A j \in Slots : j = 0 \/ j = 1 \/ j \in Slots \ {0, 1}
  OBVIOUS
<1>8. answer(".") = inum /\ answer("..") = pinum
  <2>1. Hits(block, ".") = {0}
    BY <1>4, <1>a, <1>5, <1>6, <1>7 DEF Hits
  <2>2. Hits(block, "..") = {1}
    BY <1>4, <1>a, <1>5, <1>6, <1>7 DEF Hits
  <2>3. Min({0}) = 0
    BY MinIsLeast
  <2>4. Min({1}) = 1
    BY MinIsLeast
  <2> QED
    BY <1>3, <1>6, <2>1, <2>2, <2>3, <2>4
<1>9. ASSUME NEW q \in Names \cup {".", ".."}, q # ".", q # ".."
      PROVE  answer(q) = Unset
  <2>1. Hits(block, q) = {}
    BY <1>a, <1>5, <1>6, <1>7, <1>9 DEF Hits
  <2> QED
    BY <1>3, <2>1
<1>10. \A q \in Names \cup {".", ".."} : answer(q) \in Inums <=> q \in {".", ".."}
  <2>1. Unset \notin Inums
    BY RequestsAssumption DEF Inums
  <2>2. answer(".") \in Inums /\ answer("..") \in Inums
    BY <1>4, <1>8
  <2> QED
    BY <1>9, <2>1, <2>2
<1>11. Resolves(inum)' = {".", ".."}
  BY <1>10 DEF Resolves, answer
<1>12. NamesOf'[inum] = [q \in {".", ".."} |-> answer(q)]
  BY <1>11 DEF NamesOf, answer
<1>13. NamesOf'[inum] = Tree!Dots(inum, pinum)
  BY <1>8, <1>12 DEF Tree!Dots
<1>14. FreeIn(block) = {}
  <2>1. inum # -1 /\ pinum # -1
    BY <1>4, SizesAssumption DEF Inums
  <2>2. \A j \in Slots : block[j].inum # -1
    BY <1>a, <1>5, <1>6, <1>7, <2>1
  <2> QED
    BY <2>2 DEF FreeIn
<1>15. FreeSlots(inum)' = {}
  BY <1>2, <1>14 DEF FreeSlots, EntryAt, FreeIn, DirBlock, block
<1> QED
  BY <1>13, <1>15, FS_EmptySet DEF RoomOf

(* A create leaves every file as it was.                                   *)
LEMMA CreatKeepsFiles ==
    ASSUME NoLeftovers, TypeOK, Owned(inodeTable, dataBitmap), dataBitmap # DataBlocks,
           NEW pinum \in LiveDirs, NEW type, NEW name, NEW inum, NEW nb,
           CreatedWithRoom(pinum, type, name, inum, nb),
           \/ EntryDropped(pinum)
           \/ \E k, j : EntryAdded(pinum, Entry(name, inum), k, j),
           NEW i \in LiveFiles, i \in LiveFiles'
    PROVE  TextOf'[i] = TextOf[i]
<1>1. i \in Inums /\ pinum \in Inums /\ i # pinum /\ inodeTable'[i] = inodeTable[i]
  BY DEF CreatedWithRoom, LiveDirs, LiveFiles, TypeOK, MFS_DIRECTORY, MFS_REGULAR_FILE
<1>2. ASSUME NEW k \in Ptrs, ~Hole(inodeTable[i].direct[k])
      PROVE  dataRegion'[Rel(inodeTable[i].direct[k])] = dataRegion[Rel(inodeTable[i].direct[k])]
  <2> DEFINE b == Rel(inodeTable[i].direct[k])
  <2>1. b \in dataBitmap
    BY <1>1, <1>2 DEF Owned
  <2>2. CASE EntryDropped(pinum)
    BY <2>1, <2>2 DEF EntryDropped
  <2>3. ASSUME NEW l, NEW j, EntryAdded(pinum, Entry(name, inum), l, j)
        PROVE  dataRegion'[b] = dataRegion[b]
    <3>1. l \in Ptrs /\ ~Hole(inodeTable[pinum].direct[l])
      BY <1>1, <2>3, ScannedBlocks DEF EntryAdded, TypeOK
    <3>2. inodeTable[i].direct[k] # inodeTable[pinum].direct[l]
      BY <1>1, <1>2, <3>1 DEF Owned
    <3>3. inodeTable[i].direct[k] \in Pointers /\ inodeTable[pinum].direct[l] \in Pointers
      BY <1>1, <3>1 DEF TypeOK, Inodes
    <3>4. /\ inodeTable[i].direct[k] = b + DataRegionAddr
          /\ inodeTable[pinum].direct[l] = Rel(inodeTable[pinum].direct[l]) + DataRegionAddr
      BY <1>2, <3>1, <3>3, PointerIsToBlock
    <3>5. b # Rel(inodeTable[pinum].direct[l])
      BY <3>2, <3>4
    <3> QED
      BY <2>1, <2>3, <3>5 DEF EntryAdded
  <2> QED
    BY <2>2, <2>3
<1>3. Backing(i)' = Backing(i)
  BY <1>1 DEF Backing
<1>4. ASSUME NEW pos \in Backing(i)
      PROVE  FileCell(inodeTable', dataRegion', i, pos) = FileCell(inodeTable, dataRegion, i, pos)
  <2>1. pos \in Nat
    BY SizesAssumption DEF Backing, MaxOffset
  <2>2. pos \div BlockSize \in Ptrs /\ ~Hole(inodeTable[i].direct[pos \div BlockSize])
    BY <2>1, BackedPosition
  <2> QED
    BY <1>1, <1>2, <2>2 DEF FileCell
<1> QED
  BY <1>3, <1>4 DEF TextOf

(* A new file has its first block, of zeros.                               *)
LEMMA NewText ==
    ASSUME Ready, TypeOK', NEW pinum, NEW type, type # MFS_DIRECTORY, NEW name,
           NEW inum, NEW nb, CreatedWithRoom(pinum, type, name, inum, nb),
           inum \in LiveFiles'
    PROVE  TextOf'[inum] = [p \in Tree!BlockOf(0) |-> ZeroCell]
<1>1. /\ inum \in Inums \ inodeBitmap /\ nb \in DataBlocks \ dataBitmap
      /\ inodeTable'[inum].direct = [inodeTable[inum].direct EXCEPT ![0] = nb + DataRegionAddr]
      /\ dataRegion'[nb] = dataRegion[nb]
  BY DEF CreatedWithRoom, ChildBlock
<1>2. 0 \in Ptrs /\ inodeTable[inum].direct \in [Ptrs -> Pointers]
  BY <1>1, ZeroAndOneAreSlots DEF Ready, Support, TypeOK, Inodes
<1>3. \A k \in Ptrs : Hole(inodeTable'[inum].direct[k]) <=> k # 0
  BY <1>1, <1>2, AddressOfBlock DEF Ready, Support, SizesInv
<1>4. Rel(inodeTable'[inum].direct[0]) = nb
  BY <1>1, <1>2, AddressOfBlock
<1>5. dataRegion'[nb] = ZeroBlock
  BY <1>1 DEF Ready, DirsInv, Exhausted
<1>6. ASSUME NEW p \in 0 .. MaxOffset - 1
      PROVE  /\ p \in Backing(inum)' <=> p \in Tree!BlockOf(0)
             /\ p \in Backing(inum)' =>
                  FileCell(inodeTable', dataRegion', inum, p) = ZeroCell
  <2>1. p \in Nat /\ 0 \div BlockSize = 0
    BY SizesAssumption DEF MaxOffset
  <2>2. p \div BlockSize \in Ptrs /\ p % BlockSize \in Slots
    <3>1. p < MaxOffset
      BY SizesAssumption DEF MaxOffset
    <3> QED
      BY <2>1, <3>1, BackedPosition, PlaceOfPosition
  <2>3. p \in Backing(inum)' <=> p \div BlockSize = 0
    BY <1>3, <2>2 DEF Backing
  <2> QED
    BY <1>4, <1>5, <2>1, <2>2, <2>3
    DEF Tree!BlockOf, Tree!FileEnd, MaxOffset, FileCell, ZeroBlock
<1>7. Backing(inum)' = Tree!BlockOf(0)
  BY <1>6 DEF Backing, Tree!BlockOf, Tree!FileEnd, MaxOffset
<1>8. TextOf'[inum] = [p \in Backing(inum)' |-> FileCell(inodeTable', dataRegion', inum, p)]
  BY DEF TextOf
<1>9. \A p \in Backing(inum)' : FileCell(inodeTable', dataRegion', inum, p) = ZeroCell
  BY <1>6 DEF Backing
<1> QED
  BY <1>7, <1>8, <1>9

(* How a function with one value more is recognised.                       *)
IsFunction(f) == f = [z \in DOMAIN f |-> f[z]]

LEMMA MapsAreFunctions ==
    /\ IsFunction(NamesOf) /\ DOMAIN NamesOf = LiveDirs
    /\ IsFunction(RoomOf) /\ DOMAIN RoomOf = LiveDirs
    /\ IsFunction(TextOf) /\ DOMAIN TextOf = LiveFiles
    /\ \A d \in LiveDirs : IsFunction(NamesOf[d]) /\ DOMAIN NamesOf[d] = Resolves(d)
BY DEF IsFunction, NamesOf, RoomOf, TextOf

LEMMA OneMore ==
    ASSUME NEW f, NEW g, IsFunction(g), NEW x, x \notin DOMAIN f,
           DOMAIN g = DOMAIN f \cup {x}, \A z \in DOMAIN f : g[z] = f[z]
    PROVE  g = Tree!Adding(f, x, g[x])
BY DEF IsFunction, Tree!Adding

LEMMA SameFunction ==
    ASSUME NEW f, NEW g, IsFunction(f), IsFunction(g), DOMAIN g = DOMAIN f,
           \A z \in DOMAIN f : g[z] = f[z]
    PROVE  g = f
BY DEF IsFunction

LEMMA CreatStep ==
    ASSUME Ready, TypeOK', dataBitmap' # DataBlocks, ZeroCell.name \notin Names,
           NEW d \in ReqInums, NEW type \in CreatTypes, NEW name \in Names,
           Creat(d, type, name)
    PROVE  Tree!Creat(d, type, name)
<1> DEFINE answer(rc) == [mtype |-> "CRET", inum |-> d, ftype |-> type, name |-> name,
                          rc |-> rc]
<1>1. /\ NoLeftovers /\ TypeOK /\ Support /\ DirsInv /\ dataBitmap # DataBlocks
      /\ Owned(inodeTable, dataBitmap)
  BY DEF Ready, Support
<1>2. m'.mtype = "CRET" /\ m'.inum = d
  BY DEF Creat
<1>3. Creatable(d) <=> d \in LiveDirs /\ inodeBitmap # Inums
  BY <1>1, ServedIsLive DEF Creatable, LiveDirs, TypeOK, MFS_DIRECTORY, MFS_REGULAR_FILE
<1>4. CASE ~Creatable(d)
  <2>1. m' = answer(-1) /\ UNCHANGED <<inodeBitmap, dataBitmap, inodeTable, dataRegion>>
    BY <1>4 DEF Creat, disk
  <2>2. UNCHANGED <<KindOf, NamesOf, RoomOf, TextOf>>
    BY <2>1 DEF KindOf, NamesOf, RoomOf, TextOf, LiveDirs, LiveFiles, Resolves,
                FreeSlots, Backing
  <2>3. d \notin Tree!Dirs \/ DOMAIN KindOf = Inums
    BY <1>1, <1>3, <1>4, MapsAt
  <2> QED
    BY <1>2, <2>1, <2>2, <2>3 DEF Tree!Creat, Tree!Answers, Tree!tree
<1>5. CASE Creatable(d)
  <2>1. m' = answer(0) /\ CreatServed(d, type, name) /\ d \in LiveDirs /\ d \in inodeBitmap
    BY <1>3, <1>5 DEF Creat, LiveDirs
  <2>2. PICK inum, nb :
          /\ CreatedWithRoom(d, type, name, inum, nb)
          /\ \/ EntryDropped(d)
             \/ \E k, j : EntryAdded(d, Entry(name, inum), k, j)
    BY <1>1, <1>3, <1>5, <2>1, CreatWithRoom DEF LiveDirs
  <2>3. /\ inum \in Inums \ inodeBitmap /\ inodeBitmap' = inodeBitmap \cup {inum}
        /\ \A i \in inodeBitmap : inodeTable'[i] = inodeTable[i]
        /\ inodeTable'[inum].type = IF type = MFS_DIRECTORY THEN MFS_DIRECTORY
                                    ELSE MFS_REGULAR_FILE
    BY <1>1, <2>2 DEF CreatedWithRoom, TypeOK
  <2>4. /\ LiveDirs' = IF type = MFS_DIRECTORY THEN LiveDirs \cup {inum} ELSE LiveDirs
        /\ LiveFiles' = IF type = MFS_DIRECTORY THEN LiveFiles ELSE LiveFiles \cup {inum}
    BY <2>3 DEF LiveDirs, LiveFiles, MFS_DIRECTORY, MFS_REGULAR_FILE
  <2>5. inum \notin LiveDirs /\ inum \notin LiveFiles
    BY <2>3 DEF LiveDirs, LiveFiles
  <2>6. /\ \A i \in LiveDirs : /\ inodeTable'[i] = inodeTable[i]
                               /\ i # d => DirBlock(i)' = DirBlock(i)
        /\ FirstFreeFilled(d, Entry(name, inum)) \/ NoneFree(d)
        /\ \A i \in LiveDirs : KeptOrExtended(i)
    BY <1>1, <2>1, <2>2, CreatKeepsDirs
  <2>7. \A i \in LiveDirs : WellLinked(i)
    BY <1>1 DEF DirsInv, Exhausted
  <2> DEFINE linked == [NamesOf EXCEPT ![d] = IF RoomOf[d] > 0 THEN Tree!Adding(@, name, inum)
                                              ELSE @]
             left   == [RoomOf EXCEPT ![d] = IF @ > 0 THEN @ - 1 ELSE 0]
  <2>8. ASSUME NEW i \in LiveDirs PROVE NamesOf'[i] = linked[i] /\ RoomOf'[i] = left[i]
    <3>1. WellLinked(i) /\ i \in LiveDirs' /\ inodeTable'[i] = inodeTable[i]
      BY <2>4, <2>6, <2>7
    <3>2. Scanned(inodeTable[i]) = {0}
      BY <3>1, OnlyFirstIsScanned DEF WellLinked
    <3>3. /\ RoomOf[i] = Cardinality(FreeIn(DirBlock(i)))
          /\ RoomOf'[i] = Cardinality(FreeIn(DirBlock(i)'))
          /\ RoomOf[i] \in Nat
      <4>1. RoomOf[i] = Cardinality(FreeIn(DirBlock(i))) /\ RoomOf[i] \in Nat
        BY <3>2, RoomInOneBlock DEF RoomOf, FreeSlots, DirBlock
      <4>2. RoomOf'[i] = Cardinality(FreeIn(DirBlock(i)'))
        BY <3>1, <3>2, RoomInOneBlock DEF RoomOf, FreeSlots, DirBlock
      <4> QED
        BY <4>1, <4>2
    <3>4. /\ NamesOf[i] = [q \in Resolves(i) |-> LookupResult(dataRegion, inodeTable[i], q)]
          /\ NamesOf'[i] = [q \in Resolves(i)' |-> LookupResult(dataRegion', inodeTable'[i], q)]
          /\ linked[i] = IF i = d /\ RoomOf[d] > 0 THEN Tree!Adding(NamesOf[d], name, inum)
                         ELSE NamesOf[i]
          /\ left[i] = IF i = d THEN IF RoomOf[d] > 0 THEN RoomOf[d] - 1 ELSE 0
                       ELSE RoomOf[i]
      BY <2>1, <3>1 DEF NamesOf, RoomOf, linked, left
    <3>5. CASE DirBlock(i)' = DirBlock(i) /\ (i = d => NoneFree(d))
      <4>1. \A q : LookupResult(dataRegion', inodeTable'[i], q)
                     = LookupResult(dataRegion, inodeTable[i], q)
        BY <3>1, <3>2, <3>5, LookupInOneBlock DEF DirBlock
      <4>2. NamesOf'[i] = NamesOf[i]
        BY <3>4, <4>1 DEF Resolves
      <4>3. i = d => RoomOf[i] = 0
        <5>1. NoneFree(d) => FreeIn(DirBlock(d)) = {}
          BY DEF NoneFree, FreeIn
        <5> QED
          BY <3>3, <3>5, <5>1, FS_EmptySet
      <4> QED
        BY <3>3, <3>4, <3>5, <4>2, <4>3
    <3>6. CASE i = d /\ FirstFreeFilled(d, Entry(name, inum))
      <4>1. /\ Cardinality(FreeIn(DirBlock(d))) > 0
            /\ Cardinality(FreeIn(DirBlock(d)')) = Cardinality(FreeIn(DirBlock(d))) - 1
        <5>1. Entry(name, inum).inum # -1
          BY <2>3, SizesAssumption DEF Entry, Inums
        <5> QED
          BY <1>1, <2>1, <3>1, <3>6, <5>1, OneRoomLess
      <4>2. ASSUME NEW q
            PROVE  LET old == LookupResult(dataRegion, inodeTable[d], q)
                       new == LookupResult(dataRegion', inodeTable'[d], q)
                   IN  IF old \in Inums THEN new = old
                       ELSE IF q = name THEN new = inum ELSE new \notin Inums
        BY <1>1, <2>1, <2>3, <3>1, <3>6, ParentNames
      <4>3. Resolves(d)' = Resolves(d) \cup {name}
        BY <2>3, <4>2 DEF Resolves
      <4>4. NamesOf'[d] = Tree!Adding(NamesOf[d], name, inum)
        <5>1. \A q \in Resolves(d) : LookupResult(dataRegion, inodeTable[d], q) \in Inums
          BY DEF Resolves
        <5>2. name \notin Resolves(d) => LookupResult(dataRegion, inodeTable[d], name) \notin Inums
          BY DEF Resolves
        <5> QED
          BY <3>4, <3>6, <4>2, <4>3, <5>1, <5>2 DEF Tree!Adding
      <4> QED
        BY <3>3, <3>4, <3>6, <4>1, <4>4
    <3> QED
      BY <2>6, <3>5, <3>6 DEF NoneFree
  <2>9. /\ IsFunction(NamesOf') /\ DOMAIN NamesOf' = LiveDirs'
        /\ IsFunction(RoomOf') /\ DOMAIN RoomOf' = LiveDirs'
        /\ IsFunction(TextOf') /\ DOMAIN TextOf' = LiveFiles'
        /\ IsFunction(linked) /\ DOMAIN linked = LiveDirs
        /\ IsFunction(left) /\ DOMAIN left = LiveDirs
        /\ IsFunction(TextOf) /\ DOMAIN TextOf = LiveFiles
    BY MapsAreFunctions DEF IsFunction, NamesOf, RoomOf, TextOf
  <2> HIDE DEF linked, left
  <2>10. \A i \in LiveFiles : TextOf'[i] = TextOf[i]
    BY <1>1, <2>1, <2>2, <2>4, CreatKeepsFiles
  <2>11. KindOf' = Tree!Adding(KindOf, inum, IF type = MFS_DIRECTORY THEN MFS_DIRECTORY
                                             ELSE MFS_REGULAR_FILE)
    BY <2>3 DEF KindOf, Tree!Adding
  <2>12. inum \in Inums \ DOMAIN KindOf /\ d \in Tree!Dirs
    BY <1>1, <2>1, <2>3, MapsAt
  <2>13. CASE type = MFS_DIRECTORY
    <3>1. NamesOf'[inum] = Tree!Dots(inum, d) /\ RoomOf'[inum] = 0
      BY <2>1, <2>2, <2>4, <2>13, NewNames
    <3>2. NamesOf' = Tree!Adding(linked, inum, Tree!Dots(inum, d))
      BY <2>4, <2>5, <2>8, <2>9, <2>13, <3>1, OneMore
    <3>3. RoomOf' = Tree!Adding(left, inum, 0)
      BY <2>4, <2>5, <2>8, <2>9, <2>13, <3>1, OneMore
    <3>4. TextOf' = TextOf
      BY <2>4, <2>9, <2>10, <2>13, SameFunction
    <3> QED
      BY <1>2, <2>1, <2>11, <2>12, <2>13, <3>2, <3>3, <3>4
      DEF linked, left, Tree!Creat, Tree!Answers, Tree!MFS_DIRECTORY, MFS_DIRECTORY
  <2>14. CASE type # MFS_DIRECTORY
    <3>1. TextOf'[inum] = [p \in Tree!BlockOf(0) |-> ZeroCell]
      BY <2>2, <2>4, <2>14, NewText
    <3>2. NamesOf' = linked
      BY <2>4, <2>8, <2>9, <2>14, SameFunction
    <3>3. RoomOf' = left
      BY <2>4, <2>8, <2>9, <2>14, SameFunction
    <3>4. TextOf' = Tree!Adding(TextOf, inum, [p \in Tree!BlockOf(0) |-> ZeroCell])
      BY <2>4, <2>5, <2>9, <2>10, <2>14, <3>1, OneMore
    <3> QED
      BY <1>2, <2>1, <2>11, <2>12, <2>14, <3>2, <3>3, <3>4
      DEF linked, left, Tree!Creat, Tree!Answers, Tree!MFS_DIRECTORY, MFS_DIRECTORY,
          Tree!MFS_REGULAR_FILE, MFS_REGULAR_FILE
  <2> QED
    BY <2>13, <2>14
<1> QED
  BY <1>4, <1>5
-----------------------------------------------------------------------------
(***************************************************************************)
(* Writes.                                                                 *)
(***************************************************************************)

(* A served write fills the holes its range begins and ends in, no other.  *)
LEMMA HolesLeft ==
    ASSUME TypeOK, NEW inum \in Inums, NEW offset \in Nat, NEW nbytes, NEW buf, NEW dup,
           NEW fs1, NEW fs2, WriteOutcome(inum, offset, nbytes, buf, dup, fs1, fs2),
           NEW k \in Ptrs, k # BlockIndex(offset), k # CrossedIndex(offset, nbytes)
    PROVE  fs2.inode.direct[k] = inodeTable[inum].direct[k]
<1> DEFINE fs0 == [bm |-> dataBitmap, region |-> dataRegion, inode |-> inodeTable[inum]]
<1>1. HoleFilled(fs0, BlockIndex(offset), fs1) /\ HoleFilled(fs1, CrossedIndex(offset, nbytes), fs2)
  BY DEF WriteOutcome
<1>2. fs0.inode = inodeTable[inum]
  OBVIOUS
<1> HIDE DEF fs0
<1>3. fs1.inode.direct[k] = fs0.inode.direct[k]
  BY <1>1 DEF HoleFilled
<1>4. fs2.inode.direct[k] = fs1.inode.direct[k]
  BY <1>1 DEF HoleFilled
<1> QED
  BY <1>2, <1>3, <1>4

(* The cells of the written file outside the range: those it had, and      *)
(* zeros in the blocks it was given.                                       *)
LEMMA CellsAround ==
    ASSUME Ready, dataBitmap' # DataBlocks, Owned(inodeTable', dataBitmap'),
           NEW inum \in inodeBitmap, NEW offset \in Nat, NEW nbytes \in 0 .. BlockSize,
           NEW buf \in Buffers(nbytes), Writable(inum, offset, nbytes), NEW dup,
           NEW fs1, NEW fs2, WriteOutcome(inum, offset, nbytes, buf, dup, fs1, fs2),
           NEW pos \in Nat, pos \div BlockSize \in Ptrs,
           ~Hole(fs2.inode.direct[pos \div BlockSize]),
           \/ pos \notin offset .. offset + nbytes - 1
           \/ dataRegion' = dataRegion
    PROVE  FileCell(inodeTable', dataRegion', inum, pos)
             = IF pos \in Backing(inum) THEN FileCell(inodeTable, dataRegion, inum, pos)
               ELSE ZeroCell
<1> DEFINE k == pos \div BlockSize
           j == pos % BlockSize
           b == Rel(fs2.inode.direct[k])
<1>1. /\ NoLeftovers /\ TypeOK /\ inum \in Inums /\ nbytes \in Nat /\ Owned(inodeTable, dataBitmap)
      /\ j \in Slots /\ pos = k * BlockSize + j
  BY SizesAssumption, PlaceOfPosition DEF Ready, Support, TypeOK
<1>2. /\ fs2 \in Halfway /\ fs2.region = dataRegion
      /\ \A l \in Ptrs : PointerKept(inodeTable[inum].direct[l], fs2.inode.direct[l],
                                     dataBitmap, dataBitmap')
  BY <1>1, WriteWithRoom
<1>3. inodeTable'[inum] = fs2.inode
  BY <1>1 DEF WriteOutcome, TypeOK
<1>4. b \in DataBlocks /\ fs2.inode.direct[k] = b + DataRegionAddr
  BY <1>1, <1>2, PointerIsToBlock DEF Halfway, Inodes
<1>5. FileCell(inodeTable', dataRegion', inum, pos) = dataRegion'[b][j]
  BY <1>3 DEF FileCell
<1>6. pos \in Backing(inum) <=> ~Hole(inodeTable[inum].direct[k])
  BY BackedPosition
<1> HIDE DEF k, j, b
<1>7. dataRegion'[b][j] = dataRegion[b][j]
  <2>1. SUFFICES ASSUME dataRegion'[b][j] # dataRegion[b][j] PROVE FALSE
    OBVIOUS
  <2>2. PICK p \in offset .. offset + nbytes - 1 :
            /\ p \in Nat /\ p % BlockSize = j
            /\ p \div BlockSize \in Ptrs
            /\ fs2.inode.direct[p \div BlockSize] = b + DataRegionAddr
    <3>1. /\ TypeOK /\ inum \in Inums /\ j \in Slots /\ b \in DataBlocks
          /\ offset \in Nat /\ nbytes \in 0 .. BlockSize
          /\ Writable(inum, offset, nbytes)
          /\ WriteOutcome(inum, offset, nbytes, buf, dup, fs1, fs2)
          /\ dataBitmap' # DataBlocks
      BY <1>1, <1>4
    <3>2. InRange(fs2.inode, offset, nbytes, b, j)
      BY <2>1, <3>1, ChangedCellIsInRange
    <3> QED
      BY ONLY <3>2 DEF InRange
  <2>3. p \div BlockSize = k
    <3>1. k \in Ptrs /\ ~Hole(fs2.inode.direct[k])
      BY DEF k
    <3> QED
      BY <1>1, <1>3, <1>4, <2>2, <3>1 DEF Owned
  <2>4. p = pos
    BY <1>1, <2>2, <2>3, PlaceOfPosition
  <2> QED
    BY <2>1, <2>2, <2>4
<1>8. k \in Ptrs /\ ~Hole(fs2.inode.direct[k])
  BY DEF k
<1>9. CASE ~Hole(inodeTable[inum].direct[k])
  <2>1. inodeTable[inum].direct[k] = fs2.inode.direct[k]
    BY <1>2, <1>8, <1>9 DEF PointerKept
  <2>2. FileCell(inodeTable, dataRegion, inum, pos) = dataRegion[b][j]
    BY <2>1 DEF FileCell, k, b, j
  <2> QED
    BY <1>5, <1>6, <1>7, <1>9, <2>2
<1>10. CASE Hole(inodeTable[inum].direct[k])
  <2>1. PICK n \in dataBitmap' \ dataBitmap : fs2.inode.direct[k] = n + DataRegionAddr
    BY <1>2, <1>8, <1>10 DEF PointerKept
  <2>2. b \in DataBlocks \ dataBitmap
    <3>1. dataBitmap' \subseteq DataBlocks
      BY <1>2 DEF WriteOutcome, Halfway
    <3> QED
      BY <1>4, <2>1, <3>1, SizesAssumption DEF DataBlocks
  <2>3. dataRegion[b] = ZeroBlock
    BY <2>2 DEF Ready, DirsInv, Exhausted
  <2> QED
    BY <1>1, <1>5, <1>6, <1>7, <1>10, <2>3 DEF ZeroBlock, j
<1> QED
  BY <1>9, <1>10

(* A write leaves every other file as it was.                              *)
LEMMA WriteKeepsFiles ==
    ASSUME Ready, dataBitmap' # DataBlocks, Owned(inodeTable', dataBitmap'),
           NEW inum \in inodeBitmap, NEW offset \in Nat, NEW nbytes \in 0 .. BlockSize,
           NEW buf \in Buffers(nbytes), Writable(inum, offset, nbytes), NEW dup,
           NEW fs1, NEW fs2, WriteOutcome(inum, offset, nbytes, buf, dup, fs1, fs2),
           NEW i \in LiveFiles, i \in LiveFiles', i # inum
    PROVE  TextOf'[i] = TextOf[i]
<1>1. /\ NoLeftovers /\ TypeOK /\ inum \in Inums /\ i \in Inums /\ nbytes \in Nat
  BY SizesAssumption DEF Ready, Support, TypeOK, LiveFiles
<1>2. fs2 \in Halfway /\ inodeTable' = [inodeTable EXCEPT ![inum] = fs2.inode]
  BY <1>1, WriteWithRoom DEF WriteOutcome
<1>3. inodeTable'[i] = inodeTable[i] /\ inodeTable'[inum] = fs2.inode
  BY <1>1, <1>2 DEF TypeOK
<1>4. Backing(i)' = Backing(i)
  BY <1>3 DEF Backing
<1>5. ASSUME NEW pos \in Backing(i)
      PROVE  FileCell(inodeTable', dataRegion', i, pos) = FileCell(inodeTable, dataRegion, i, pos)
  <2> DEFINE k == pos \div BlockSize
             j == pos % BlockSize
             b == Rel(inodeTable[i].direct[k])
  <2>1. pos \in Nat
    BY SizesAssumption DEF Backing, MaxOffset
  <2>2. k \in Ptrs /\ ~Hole(inodeTable[i].direct[k]) /\ j \in Slots
    BY <2>1, BackedPosition, PlaceOfPosition
  <2>3. b \in DataBlocks /\ inodeTable[i].direct[k] = b + DataRegionAddr
    BY <1>1, <2>2, PointerIsToBlock DEF TypeOK, Inodes
  <2> HIDE DEF k, j, b
  <2>4. dataRegion'[b][j] = dataRegion[b][j]
    <3>1. SUFFICES ASSUME dataRegion'[b][j] # dataRegion[b][j] PROVE FALSE
      OBVIOUS
    <3>2. PICK p \in offset .. offset + nbytes - 1 :
              /\ p \div BlockSize \in Ptrs
              /\ fs2.inode.direct[p \div BlockSize] = b + DataRegionAddr
      BY <1>1, <2>2, <2>3, <3>1, ChangedCellIsInRange DEF InRange
    <3> QED
      BY <1>1, <1>3, <2>2, <2>3, <3>2 DEF Owned
  <2> QED
    BY <1>3, <2>4 DEF FileCell, k, j, b
<1> QED
  BY <1>4, <1>5 DEF TextOf

(* A write leaves the tree of directories as it was.                       *)
LEMMA WriteKeepsTree ==
    ASSUME Ready, dataBitmap' # DataBlocks, UNCHANGED inodeBitmap,
           NEW inum \in inodeBitmap, NEW offset \in Nat, NEW nbytes \in 0 .. BlockSize,
           NEW buf \in Buffers(nbytes), Writable(inum, offset, nbytes),
           WriteServed(inum, offset, nbytes, buf)
    PROVE  /\ UNCHANGED <<KindOf, NamesOf, RoomOf>>
           /\ LiveFiles' = LiveFiles /\ inum \in LiveFiles
<1>1. /\ NoLeftovers /\ TypeOK /\ inum \in Inums /\ nbytes \in Nat /\ Owned(inodeTable, dataBitmap)
  BY SizesAssumption DEF Ready, Support, TypeOK
<1>2. PICK dup, fs1, fs2 : WriteOutcome(inum, offset, nbytes, buf, dup, fs1, fs2)
  BY <1>1, ServedWrite
<1>3. \A i \in inodeBitmap : inodeTable'[i].type = inodeTable[i].type
  <2>1. fs1.inode.type = inodeTable[inum].type /\ fs2.inode.type = fs1.inode.type
    BY <1>2 DEF WriteOutcome, HoleFilled
  <2>2. \A i \in Inums : inodeTable'[i] = IF i = inum THEN fs2.inode ELSE inodeTable[i]
    BY <1>1, <1>2 DEF WriteOutcome, TypeOK
  <2> QED
    BY <1>1, <2>1, <2>2 DEF TypeOK
<1>4. KindOf' = KindOf /\ LiveFiles' = LiveFiles
  BY <1>3 DEF KindOf, LiveFiles
<1>5. inum \in LiveFiles
  BY DEF Writable, LiveFiles, Ready, Support, TypeOK
<1>6. /\ LiveDirs' = LiveDirs
      /\ \A i \in LiveDirs : inodeTable'[i] = inodeTable[i]
      /\ \A i \in LiveDirs, k \in Ptrs : ~Hole(inodeTable[i].direct[k]) =>
           dataRegion'[Rel(inodeTable[i].direct[k])]
             = dataRegion[Rel(inodeTable[i].direct[k])]
  BY <1>1, WriteLeavesDirs
<1>7. ASSUME NEW d \in LiveDirs
      PROVE  /\ Scanned(inodeTable[d]) = {0}
             /\ inodeTable'[d] = inodeTable[d]
             /\ DirBlock(d)' = DirBlock(d)
  <2>1. WellLinked(d)
    BY DEF Ready, DirsInv, Exhausted
  <2>2. Scanned(inodeTable[d]) = {0}
    BY <2>1, OnlyFirstIsScanned DEF WellLinked
  <2> QED
    BY <1>6, <2>1, <2>2, ZeroAndOneAreSlots DEF WellLinked, DirBlock
<1>8. \A d \in LiveDirs : \A q : LookupResult(dataRegion', inodeTable'[d], q)
                                  = LookupResult(dataRegion, inodeTable[d], q)
  BY <1>7, LookupInOneBlock DEF DirBlock
<1>9. NamesOf' = NamesOf
  BY <1>6, <1>8 DEF NamesOf, Resolves
<1>10. ASSUME NEW d \in LiveDirs
       PROVE  Cardinality(FreeSlots(d))' = Cardinality(FreeSlots(d))
  BY <1>7, RoomInOneBlock DEF FreeSlots, DirBlock
<1>11. RoomOf' = RoomOf
  BY <1>6, <1>10 DEF RoomOf
<1> QED
  BY <1>4, <1>5, <1>9, <1>11

(* The positions that a file has after a write.                            *)
LEMMA BackedAfterWrite ==
    ASSUME Ready, dataBitmap' # DataBlocks,
           NEW inum \in inodeBitmap, NEW offset \in Nat, NEW nbytes \in 0 .. BlockSize,
           NEW buf, Writable(inum, offset, nbytes), NEW dup,
           NEW fs1, NEW fs2, WriteOutcome(inum, offset, nbytes, buf, dup, fs1, fs2)
    PROVE  /\ \A pos \in Nat : pos \in Backing(inum)' <=>
                /\ pos \div BlockSize \in Ptrs
                /\ ~Hole(fs2.inode.direct[pos \div BlockSize])
           /\ Backing(inum)' = Backing(inum) \cup
                UNION {Tree!BlockOf(e) : e \in Tree!Edges(offset, nbytes)}
<1> DEFINE bi      == BlockIndex(offset)
           crossed == CrossedIndex(offset, nbytes)
<1>1. TypeOK /\ inum \in Inums
  BY DEF Ready, Support, TypeOK
<1>2. inodeTable'[inum] = fs2.inode
  BY <1>1 DEF WriteOutcome, TypeOK
<1>3. bi \in Ptrs
  BY DivideByBlock, SizesAssumption DEF Writable, BlockIndex, Ptrs
<1>4. /\ ~Hole(fs2.inode.direct[bi])
      /\ crossed \in Ptrs => ~Hole(fs2.inode.direct[crossed])
      /\ \A k \in Ptrs : PointerKept(inodeTable[inum].direct[k], fs2.inode.direct[k],
                                     dataBitmap, dataBitmap')
      /\ \A k \in Ptrs : k # bi /\ k # crossed =>
            fs2.inode.direct[k] = inodeTable[inum].direct[k]
  BY <1>1, <1>3, WrittenPointers, WriteWithRoom, HolesLeft
<1>5. \A k \in Ptrs : ~Hole(fs2.inode.direct[k]) <=>
           ~Hole(inodeTable[inum].direct[k]) \/ k = bi \/ k = crossed
  BY <1>4 DEF PointerKept
<1>6. ASSUME NEW pos \in Nat
      PROVE  pos \in Backing(inum)' <=> /\ pos \div BlockSize \in Ptrs
                                        /\ ~Hole(fs2.inode.direct[pos \div BlockSize])
  <2>1. pos \div BlockSize \in Ptrs <=> pos < MaxOffset
    BY BackedPosition
  <2>2. pos \in 0 .. MaxOffset - 1 <=> pos < MaxOffset
    BY SizesAssumption DEF MaxOffset
  <2> QED
    BY <1>2, <2>1, <2>2 DEF Backing
<1>7. Tree!Edges(offset, nbytes) = {offset, offset + nbytes}
  BY EdgesAre
<1>8. ASSUME NEW pos \in 0 .. MaxOffset - 1
      PROVE  pos \in UNION {Tree!BlockOf(e) : e \in Tree!Edges(offset, nbytes)} <=>
               pos \div BlockSize \in {bi, crossed}
  <2>1. \A e : pos \in Tree!BlockOf(e) <=> pos \div BlockSize = e \div BlockSize
    BY DEF Tree!BlockOf, Tree!FileEnd, MaxOffset
  <2> QED
    BY <1>7, <2>1 DEF BlockIndex, CrossedIndex
<1> HIDE DEF bi, crossed
<1>9. ASSUME NEW pos \in 0 .. MaxOffset - 1
      PROVE  pos \in Backing(inum)' <=>
               \/ pos \in Backing(inum)
               \/ pos \in UNION {Tree!BlockOf(e) : e \in Tree!Edges(offset, nbytes)}
  <2>1. pos \in Nat /\ pos < MaxOffset
    BY SizesAssumption DEF MaxOffset
  <2>2. pos \div BlockSize \in Ptrs
    BY <2>1, BackedPosition
  <2>3. pos \in Backing(inum) <=> ~Hole(inodeTable[inum].direct[pos \div BlockSize])
    BY <2>1, <2>2, BackedPosition
  <2> QED
    BY <1>5, <1>6, <1>8, <2>1, <2>2, <2>3
<1>10. /\ Backing(inum)' \subseteq 0 .. MaxOffset - 1
       /\ Backing(inum) \subseteq 0 .. MaxOffset - 1
       /\ UNION {Tree!BlockOf(e) : e \in Tree!Edges(offset, nbytes)} \subseteq 0 .. MaxOffset - 1
  BY DEF Backing, Tree!BlockOf, Tree!FileEnd, MaxOffset
<1> QED
  BY <1>6, <1>9, <1>10

(* Without leftovers every pointer of a file's range is to a data block.   *)
LEMMA AllInPlace ==
    ASSUME NoLeftovers, TypeOK, NEW i \in Inums, NEW offset \in Nat,
           NEW nbytes \in 0 .. BlockSize, offset + nbytes <= MaxOffset
    PROVE  InPlace(inodeTable[i], offset, nbytes)
<1> SUFFICES ASSUME NEW z \in 0 .. nbytes - 1,
                    ~Hole(inodeTable[i].direct[(offset + z) \div BlockSize])
             PROVE  inodeTable[i].direct[(offset + z) \div BlockSize] \in DataAddrs
  BY DEF InPlace
<1>1. offset + z \in Nat /\ offset + z < MaxOffset
  <2>1. MaxOffset \in Nat /\ nbytes \in Nat
    BY SizesAssumption DEF MaxOffset
  <2> QED
    BY <2>1
<1>2. (offset + z) \div BlockSize \in Ptrs
  BY <1>1, BackedPosition
<1>3. inodeTable[i].direct[(offset + z) \div BlockSize] \in Pointers
  BY <1>2 DEF TypeOK, Inodes
<1> QED
  BY <1>3, NoOtherPointer

LEMMA WriteStep ==
    ASSUME Ready, Owned(inodeTable', dataBitmap'), dataBitmap' # DataBlocks,
           NEW i \in ReqInums, NEW offset \in Offsets, NEW nbytes \in Lengths,
           NEW buf \in Buffers(nbytes), Write(i, offset, nbytes, buf)
    PROVE  Tree!Write(i, offset, nbytes, buf)
<1> DEFINE answer(rc) == [mtype |-> "WRITE", inum |-> i, offset |-> offset,
                          nbytes |-> nbytes, buffer |-> buf, rc |-> rc]
           old    == TextOf[i]
           blocks == DOMAIN old \cup UNION {Tree!BlockOf(e) : e \in Tree!Edges(offset, nbytes)}
           grown  == [p \in blocks |-> IF p \in DOMAIN old THEN old[p] ELSE ZeroCell]
           range  == offset .. offset + nbytes - 1
           inside == offset + nbytes \in Tree!BlockOf(offset)
           Stored(dup) == [TextOf EXCEPT ![i] =
                             [p \in blocks |-> IF p \in range THEN dup[p - offset]
                                               ELSE grown[p]]]
           Lost   == [TextOf EXCEPT ![i] = grown]
<1>1. /\ NoLeftovers /\ TypeOK /\ offset \in Nat /\ nbytes \in 0 .. BlockSize /\ nbytes \in Nat
  BY RequestsAssumption, SizesAssumption DEF Ready, Support
<1>2. m'.mtype = "WRITE" /\ m'.inum = i
  BY DEF Write
<1>3. MaxOffset \in Nat /\ offset + nbytes \in Nat
  BY <1>1, EdgesAre
<1>4. /\ BlockIndex(offset) \in Nat
      /\ BlockIndex(offset) < DirectPtrs <=> offset < MaxOffset
      /\ BlockIndex(offset) \in Ptrs <=> BlockIndex(offset) < DirectPtrs
  <2>1. BlockIndex(offset) \in Nat
    BY <1>1, DivideByBlock DEF BlockIndex
  <2>2. BlockIndex(offset) \in Ptrs <=> BlockIndex(offset) < DirectPtrs
    BY <2>1, SizesAssumption DEF Ptrs
  <2>3. BlockIndex(offset) \in Ptrs <=> offset < MaxOffset
    BY <1>1, BackedPosition DEF BlockIndex
  <2> QED
    BY <2>1, <2>2, <2>3
<1>5. Writable(i, offset, nbytes) <=>
        i \in LiveFiles /\ offset + nbytes <= MaxOffset /\ offset # MaxOffset
  <2>1. Served(i) /\ inodeTable[i].type # MFS_DIRECTORY <=> i \in LiveFiles
    BY <1>1, ServedIsLive DEF LiveFiles, TypeOK, MFS_DIRECTORY, MFS_REGULAR_FILE
  <2>2. offset + nbytes <= MaxOffset => (offset # MaxOffset <=> offset < MaxOffset)
    BY <1>1, <1>3
  <2> QED
    BY <1>4, <2>1, <2>2 DEF Writable
<1>6. Tree!Files = LiveFiles /\ Tree!FileEnd = MaxOffset
  BY <1>1, MapsAt
<1>7. CASE ~Writable(i, offset, nbytes)
  <2>1. m' = answer(-1) /\ UNCHANGED disk /\ UNCHANGED inodeBitmap
    BY <1>7 DEF Write
  <2>2. UNCHANGED <<KindOf, NamesOf, RoomOf, TextOf>>
    BY <2>1 DEF disk, KindOf, NamesOf, RoomOf, TextOf, LiveDirs, LiveFiles, Resolves,
                FreeSlots, Backing
  <2>3. i \notin LiveFiles \/ offset + nbytes > MaxOffset \/ offset = MaxOffset
    BY <1>3, <1>5, <1>7
  <2> QED
    BY <1>2, <1>6, <2>1, <2>2, <2>3 DEF Tree!Write, Tree!Answers
<1>8. CASE Writable(i, offset, nbytes)
  <2>1. m' = answer(0) /\ WriteServed(i, offset, nbytes, buf) /\ UNCHANGED inodeBitmap
    BY <1>8 DEF Write
  <2>2. /\ i \in LiveFiles /\ offset + nbytes <= MaxOffset /\ offset # MaxOffset
        /\ i \in inodeBitmap /\ i \in Inums /\ BlockIndex(offset) \in Ptrs
    BY <1>1, <1>3, <1>4, <1>5, <1>8 DEF LiveFiles, TypeOK
  <2>3. /\ UNCHANGED <<KindOf, NamesOf, RoomOf>> /\ LiveFiles' = LiveFiles
    BY <1>1, <1>8, <2>1, <2>2, WriteKeepsTree
  <2>4. PICK dup, fs1, fs2 : WriteOutcome(i, offset, nbytes, buf, dup, fs1, fs2)
    BY <1>1, <2>1, <2>2, ServedWrite
  <2>5. DOMAIN old = Backing(i)
        /\ \A p \in Backing(i) : old[p] = FileCell(inodeTable, dataRegion, i, p)
    BY <1>1, <2>2, TextAt
  <2>6. /\ \A p \in Nat : p \in Backing(i)' <=>
             p \div BlockSize \in Ptrs /\ ~Hole(fs2.inode.direct[p \div BlockSize])
        /\ Backing(i)' = blocks
    BY <1>1, <1>8, <2>2, <2>4, <2>5, BackedAfterWrite
  <2>7. ASSUME NEW p \in blocks, p \notin range \/ dataRegion' = dataRegion
        PROVE  FileCell(inodeTable', dataRegion', i, p) = grown[p]
    <3>1. p \in Nat
      BY <2>6, SizesAssumption DEF Backing, MaxOffset
    <3>2. p \div BlockSize \in Ptrs /\ ~Hole(fs2.inode.direct[p \div BlockSize])
      BY <2>6, <2>7, <3>1
    <3>3. FileCell(inodeTable', dataRegion', i, p)
            = IF p \in Backing(i) THEN FileCell(inodeTable, dataRegion, i, p) ELSE ZeroCell
      BY <1>1, <1>8, <2>2, <2>4, <2>7, <3>1, <3>2, CellsAround
    <3>4. grown[p] = IF p \in DOMAIN old THEN old[p] ELSE ZeroCell
      BY <2>7
    <3> QED
      BY <2>5, <3>3, <3>4
  <2>8. /\ TextOf'[i] = [p \in Backing(i)' |-> FileCell(inodeTable', dataRegion', i, p)]
        /\ IsFunction(TextOf') /\ DOMAIN TextOf' = LiveFiles
        /\ \A f \in LiveFiles : f # i => TextOf'[f] = TextOf[f]
    <3>1. \A f \in LiveFiles : f # i => TextOf'[f] = TextOf[f]
      BY <1>1, <1>8, <2>2, <2>3, <2>4, WriteKeepsFiles
    <3> QED
      BY <2>2, <2>3, <3>1 DEF TextOf, IsFunction
  <2>9. offset \in DOMAIN old <=> ~Hole(inodeTable[i].direct[BlockIndex(offset)])
    BY <1>1, <2>2, <2>5, BackedPosition DEF BlockIndex
  <2>10. inside <=> CrossedIndex(offset, nbytes) = BlockIndex(offset)
    <3>1. offset + nbytes \in 0 .. MaxOffset - 1 <=> (offset + nbytes) \div BlockSize \in Ptrs
      BY <1>3, BackedPosition
    <3> QED
      BY <2>2, <3>1 DEF Tree!BlockOf, Tree!FileEnd, MaxOffset, BlockIndex, CrossedIndex
  <2>11. dup \in Tree!Sent(buf, nbytes)
    BY <1>1, <2>4 DEF WriteOutcome, Duplicates, Tree!Sent
  <2> HIDE DEF old, blocks, grown, inside
  <2>12. CASE offset \in DOMAIN old \/ ~inside
    <3>1. ASSUME NEW p \in blocks, p \in range
          PROVE  FileCell(inodeTable', dataRegion', i, p) = dup[p - offset]
      <4>1. p - offset \in 0 .. nbytes - 1 /\ offset + (p - offset) = p
        BY <1>1, <3>1
      <4>2. InPlace(inodeTable[i], offset, nbytes)
        BY <1>1, <2>2, AllInPlace
      <4> QED
        BY <1>1, <1>8, <2>2, <2>4, <2>9, <2>10, <2>12, <4>1, <4>2, WriteStores
    <3>2. TextOf'[i] = [p \in blocks |-> IF p \in range THEN dup[p - offset] ELSE grown[p]]
      BY <2>6, <2>7, <2>8, <3>1
    <3>3. TextOf' = Stored(dup)
      <4>1. IsFunction(Stored(dup)) /\ DOMAIN Stored(dup) = LiveFiles
        BY DEF IsFunction, TextOf
      <4>2. \A f \in LiveFiles : TextOf'[f] = Stored(dup)[f]
        BY <2>2, <2>8, <3>2 DEF TextOf
      <4> QED
        BY <2>8, <4>1, <4>2, SameFunction
    <3> QED
      BY <1>2, <1>6, <2>1, <2>2, <2>3, <2>11, <2>12, <3>3
      DEF Tree!Write, Tree!Answers, old, blocks, grown, inside
  <2>13. CASE offset \notin DOMAIN old /\ inside
    <3>1. dataRegion' = dataRegion
      <4>1. CrossedIndex(offset, nbytes) = BlockIndex(offset)
        BY <2>10, <2>13
      <4>2. inodeTable[i].direct[BlockIndex(offset)] \notin DataAddrs
        <5>1. Hole(inodeTable[i].direct[BlockIndex(offset)])
          BY <2>9, <2>13
        <5> QED
          BY ONLY <5>1, SizesAssumption DEF Hole, DataAddrs, DataBlocks
      <4>3. fs2.region = dataRegion
        BY <1>1, <2>2, <2>4, WriteWithRoom
      <4>4. CellsStored(i, offset, nbytes, dup, fs2)
        BY <2>4 DEF WriteOutcome
      <4> QED
        BY <4>1, <4>2, <4>3, <4>4 DEF CellsStored, StoreCells
    <3>2. TextOf'[i] = grown
      BY <2>6, <2>7, <2>8, <3>1 DEF grown
    <3>3. TextOf' = Lost
      <4>1. IsFunction(Lost) /\ DOMAIN Lost = LiveFiles
        BY DEF IsFunction, TextOf
      <4>2. \A f \in LiveFiles : TextOf'[f] = Lost[f]
        BY <2>2, <2>8, <3>2 DEF TextOf
      <4> QED
        BY <2>8, <4>1, <4>2, SameFunction
    <3> QED
      BY <1>2, <1>6, <2>1, <2>2, <2>3, <2>13, <3>3
      DEF Tree!Write, Tree!Answers, old, blocks, grown, inside
  <2> QED
    BY <2>12, <2>13
<1> QED
  BY <1>7, <1>8
-----------------------------------------------------------------------------
(***************************************************************************)
(* The behaviours.                                                         *)
(***************************************************************************)

(* The image of mkfs is a root directory with its two names.               *)
LEMMA TreeStart ==
    ASSUME Init, ZeroCell.name \notin Names
    PROVE  Tree!Init
<1>1. PICK stale \in [Inums \ {0} -> StaleInodes] :
        inodeTable = [i \in Inums |-> IF i = 0 THEN RootInode ELSE stale[i]]
  BY DEF Init
<1>2. PICK junk \in StackNames :
        dataRegion = [b \in DataBlocks |-> IF b = 0 THEN RootBlock(junk)
                                           ELSE [j \in Slots |-> ZeroCell]]
  BY DEF Init
<1>3. 0 \in Inums /\ 0 \in Ptrs /\ 0 \in DataBlocks /\ {0, 1} \subseteq Slots
  BY ZeroAndOneAreSlots
<1>4. inodeTable[0] = RootInode /\ LiveDirs = {0} /\ LiveFiles = {}
  BY <1>1, <1>3 DEF Init, LiveDirs, LiveFiles, RootInode, MFS_DIRECTORY, MFS_REGULAR_FILE
<1>5. Scanned(inodeTable[0]) = {0}
  BY <1>3, <1>4, SizesAssumption, OnlyFirstIsScanned DEF RootInode, Hole
<1>6. \A j \in Slots : DirBlock(0)[j] = IF j = 0 THEN Entry(".", 0)
                                        ELSE IF j = 1 THEN Entry("..", 0)
                                        ELSE Entry(junk, -1)
  BY <1>2, <1>3, <1>4, SizesAssumption DEF DirBlock, RootBlock, RootInode, Rel
<1>7. /\ DirBlock(0)[0].name = "." /\ DirBlock(0)[0].inum = 0
      /\ DirBlock(0)[1].name = ".." /\ DirBlock(0)[1].inum = 0
      /\ \A j \in Slots \ {0, 1} : DirBlock(0)[j].inum = -1
  BY <1>3, <1>6 DEF Entry
<1>8. \A name : LookupResult(dataRegion, inodeTable[0], name)
                  = IF Hits(DirBlock(0), name) = {} THEN Unset
                    ELSE DirBlock(0)[Min(Hits(DirBlock(0), name))].inum
  BY <1>5, LookupInOneBlock DEF DirBlock
<1>9. Slots \subseteq Nat
  BY SizesAssumption DEF Slots
<1>10. ASSUME NEW name \in {".", ".."}
       PROVE  LookupResult(dataRegion, inodeTable[0], name) = 0
  <2>1. /\ Hits(DirBlock(0), name) # {} /\ Hits(DirBlock(0), name) \subseteq Nat
        /\ \E j \in Hits(DirBlock(0), name) : j <= 1
    <3>1. \E j \in {0, 1} : DirBlock(0)[j].name = name
      BY <1>7
    <3>2. PICK j \in {0, 1} : j \in Hits(DirBlock(0), name)
      BY <1>3, <3>1 DEF Hits
    <3>3. Hits(DirBlock(0), name) \subseteq Nat
      BY <1>9 DEF Hits
    <3> QED
      BY <3>2, <3>3
  <2>2. Min(Hits(DirBlock(0), name)) \in {0, 1}
    <3> DEFINE least == Min(Hits(DirBlock(0), name))
    <3>1. least \in Nat /\ \A j \in Hits(DirBlock(0), name) : least <= j
      BY <2>1, MinIsLeast
    <3> HIDE DEF least
    <3>2. least \in {0, 1}
      BY <2>1, <3>1
    <3> QED
      BY <3>2 DEF least
  <2> QED
    BY <1>7, <1>8, <2>1, <2>2
<1>11. ASSUME NEW name \in Names, name \notin {".", ".."}
       PROVE  LookupResult(dataRegion, inodeTable[0], name) \notin Inums
  <2>1. Hits(DirBlock(0), name) \subseteq Slots \ {0, 1}
    BY <1>7, <1>11 DEF Hits
  <2>2. CASE Hits(DirBlock(0), name) = {}
    BY <1>8, <2>2, RequestsAssumption, SizesAssumption DEF Inums
  <2>3. CASE Hits(DirBlock(0), name) # {}
    <3>1. Min(Hits(DirBlock(0), name)) \in Slots \ {0, 1}
      BY <1>9, <2>1, <2>3, MinIsLeast
    <3> QED
      BY <1>7, <1>8, <2>3, <3>1, SizesAssumption DEF Inums
  <2> QED
    BY <2>2, <2>3
<1>12. Resolves(0) = {".", ".."}
  BY <1>3, <1>10, <1>11 DEF Resolves
<1>13. NamesOf = [d \in {0} |-> Tree!Dots(0, 0)]
  <2>1. NamesOf[0] = Tree!Dots(0, 0)
    BY <1>4, <1>10, <1>12 DEF NamesOf, Tree!Dots
  <2> QED
    BY <1>4, <2>1 DEF NamesOf
<1>14. FreeIn(DirBlock(0)) = 2 .. BlockSize - 1
  BY <1>7, SizesAssumption DEF FreeIn, Slots
<1>15. Cardinality(FreeSlots(0)) = BlockSize - 2
  <2>1. Cardinality(FreeSlots(0)) = Cardinality(FreeIn(DirBlock(0)))
    BY <1>5, RoomInOneBlock DEF FreeSlots, DirBlock
  <2>2. Cardinality(2 .. BlockSize - 1) = BlockSize - 2
    BY SizesAssumption, FS_Interval
  <2> QED
    BY <1>14, <2>1, <2>2
<1>16. RoomOf = [d \in {0} |-> BlockSize - 2]
  BY <1>4, <1>15 DEF RoomOf
<1>17. KindOf = [i \in {0} |-> Tree!MFS_DIRECTORY]
  BY <1>4 DEF KindOf, Init, RootInode, MFS_DIRECTORY, Tree!MFS_DIRECTORY
<1>18. TextOf = <<>>
  BY <1>4 DEF TextOf
<1>19. m = [mtype |-> "INIT", rc |-> 0]
  BY DEF Init
<1> QED
  BY <1>13, <1>16, <1>17, <1>18, <1>19 DEF Tree!Init

(* Every step of the server after which a block is left is one of the      *)
(* tree, or leaves the tree and the answer alone.                          *)
LEMMA TreeStep ==
    ASSUME Support, Support', DirsInv, LiveInodesPassDataCheck, [Next]_vars,
           dataBitmap' # DataBlocks, ZeroCell.name \notin Names
    PROVE  Tree!Next \/ UNCHANGED Tree!vars
<1>1. dataBitmap # DataBlocks
  BY DirSteps
<1>2. Ready /\ TypeOK /\ TypeOK' /\ Owned(inodeTable', dataBitmap')
  BY <1>1 DEF Ready, Support
<1>3. CASE UNCHANGED <<disk, m>>
  <2>1. UNCHANGED <<KindOf, NamesOf, RoomOf, TextOf, m>>
    BY <1>3 DEF disk, KindOf, NamesOf, RoomOf, TextOf, LiveDirs, LiveFiles, Resolves,
                FreeSlots, Backing
  <2> QED
    BY <2>1 DEF Tree!vars, Tree!tree
<1>4. CASE Start \/ Shutdown \/ UNCHANGED vars
  BY <1>3, <1>4 DEF Start, Shutdown, vars
<1>5. ASSUME NEW i \in ReqInums, Stat(i)
      PROVE  Tree!Next
  BY <1>2, <1>5, StatStep DEF Tree!Next
<1>6. ASSUME NEW i \in ReqInums, NEW name \in Names, Lookup(i, name) \/ Unlink(i, name)
      PROVE  Tree!Next
  BY <1>2, <1>6, LookupStep, UnlinkStep DEF Tree!Next
<1>7. ASSUME NEW i \in ReqInums, NEW name \in Names, NEW type \in CreatTypes,
             Creat(i, type, name)
      PROVE  Tree!Next
  BY <1>2, <1>7, CreatStep DEF Tree!Next
<1>8. ASSUME NEW i \in ReqInums, NEW offset \in Offsets, NEW nbytes \in Lengths,
             Read(i, offset, nbytes)
      PROVE  Tree!Next
  BY <1>2, <1>8, ReadStep DEF Tree!Next
<1>9. ASSUME NEW i \in ReqInums, NEW offset \in Offsets, NEW nbytes \in Lengths,
             NEW buf \in Buffers(nbytes), Write(i, offset, nbytes, buf)
      PROVE  Tree!Next
  <2>1. Tree!Write(i, offset, nbytes, buf)
    BY <1>2, <1>9, WriteStep
  <2>2. buf \in [0 .. nbytes - 1 -> Payload]
    BY DEF Buffers
  <2> QED
    BY <2>1, <2>2 DEF Tree!Next
<1> QED
  BY <1>4, <1>5, <1>6, <1>7, <1>8, <1>9 DEF Next

(* The server implements MFSTree until its last block is taken: whatever   *)
(* requests and restarts came before, every lookup, stat and read is       *)
(* answered from the names and cells that the earlier creates and writes   *)
(* made.  An empty name must not be asked for: the entries that mkfs and   *)
(* the server leave behind ".." of a new directory have it.                *)
THEOREM ServerIsTree ==
    ASSUME NoLeftovers, ZeroCell.name \notin Names
    PROVE  Spec => ImplementsTree
<1> DEFINE Step == Tree!Next \/ dataBitmap' = DataBlocks
<1>1. Init => Tree!Init
  BY TreeStart
<1>2. Support /\ Support' /\ DirsInv /\ LiveInodesPassDataCheck /\ [Next]_vars
        => [Step]_(Tree!vars)
  BY TreeStep
<1>3. Spec => Tree!Init /\ [][Step]_(Tree!vars)
  <2> HIDE DEF Step
  <2> QED
    BY <1>1, <1>2, SupportHolds, DirsHold, DataCheckIsHarmless, PTL DEF Spec
<1> QED
  BY <1>3 DEF ImplementsTree
=============================================================================
