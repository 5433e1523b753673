---------------------------- MODULE MFSServerTree ----------------------------
(***************************************************************************)
(* The server implements MFSTree while blocks last: what tree an image is, *)
(* and the step from one to the other.                                     *)
(***************************************************************************)
EXTENDS MFSServerProps

Resolves(d) == {name \in Names \cup {".", ".."} :
                   LookupResult(dataRegion, inodeTable[d], name) \in Inums}
FreeSlots(d) == {s \in Scanned(inodeTable[d]) \X Slots :
                   EntryAt(dataRegion, inodeTable[d], s[1], s[2]).inum = -1}
Backing(i) == {pos \in 0 .. MaxOffset - 1 :
                   ~Hole(inodeTable[i].direct[pos \div BlockSize])}

KindOf  == [i \in inodeBitmap |-> inodeTable[i].type]
NamesOf == [d \in LiveDirs |-> [name \in Resolves(d) |->
              LookupResult(dataRegion, inodeTable[d], name)]]
RoomOf  == [d \in LiveDirs |-> Cardinality(FreeSlots(d))]
TextOf  == [i \in LiveFiles |-> [pos \in Backing(i) |->
              FileCell(inodeTable, dataRegion, i, pos)]]

Tree == INSTANCE MFSTree WITH
    kind <- KindOf, names <- NamesOf, room <- RoomOf, text <- TextOf, reply <- m

(* Whatever requests come in which order, with restarts between them, the  *)
(* blocks, bitmaps and pointers of server.c behave as the tree of MFSTree: *)
(* its answers to lookups and reads are those that the creates and writes  *)
(* so far make right, until the last data block is taken.                  *)
ImplementsTree ==
    Tree!Init /\ [][ Tree!Next \/ dataBitmap' = DataBlocks ]_(Tree!vars)
=============================================================================
