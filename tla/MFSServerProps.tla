--------------------------- MODULE MFSServerProps ---------------------------
(***************************************************************************)
(* What the server's handlers keep true of the image and, at the end, what *)
(* they do not although a comment of the code says so.                     *)
(***************************************************************************)
EXTENDS MFSServer

(* The handlers leave the image in its format: only existing inodes and    *)
(* blocks are marked; no inode has a pointer but to a data block or one    *)
(* that mkfs left in it; an inode in use is a file or a directory with a   *)
(* size of at least 0, whatever mkfs left there; an answer is 0 or -1.     *)
TypeOK ==
    /\ mode \in {"up", "down", "lost"}
    /\ frontIntact \in BOOLEAN
    /\ inodeBitmap \subseteq Inums
    /\ dataBitmap \subseteq DataBlocks
    /\ inodeTable \in [Inums -> Inodes]
    /\ \A i \in inodeBitmap : /\ inodeTable[i].type \in {MFS_DIRECTORY, MFS_REGULAR_FILE}
                              /\ inodeTable[i].size \in Nat
    /\ dataRegion \in [DataBlocks -> Blocks]
    /\ m.rc \in {0, -1}

(* No block is free: from here on every allocation fails, and the handlers *)
(* that ignore it work on data block 0.                                    *)
Exhausted == dataBitmap = DataBlocks

LiveDirs  == {i \in inodeBitmap : inodeTable[i].type = MFS_DIRECTORY}
LiveFiles == {i \in inodeBitmap : inodeTable[i].type = MFS_REGULAR_FILE}

(* A step in which the server handles a request; its message is m'.        *)
Request == mode = "up" /\ mode' = "up"

(* The direct pointers in use, <<inode, index>>.                           *)
Refs == {r \in inodeBitmap \X Ptrs : ~Hole(inodeTable[r[1]].direct[r[2]])}
Target(r) == inodeTable[r[1]].direct[r[2]]

(* Both allocators take the first clear bit and no handler clears one, so  *)
(* a bitmap is an initial segment: what a restarted server finds free is   *)
(* all of the rest.                                                        *)
Dense(S) == \A x \in S : \A y \in 0 .. x : y \in S
BitmapsDense == Dense(inodeBitmap) /\ Dense(dataBitmap)

(* run_write, run_read, run_lookup and run_cret look an inode's number up  *)
(* in the bitmap of the data blocks as well.  It never refuses a live      *)
(* inode: a create takes at least one block while there is one, so inode   *)
(* numbers stay behind block numbers until every bit is set.               *)
LiveInodesPassDataCheck ==
    \A i \in inodeBitmap : i \in dataBitmap \/ Exhausted

(* Over all histories of creates and writes, no two pointers of live       *)
(* inodes name the same block and every block in use is marked, except     *)
(* that the callers of a failed allocation share data block 0.             *)
NoSharedBlocks ==
    /\ \A r \in Refs : Rel(Target(r)) \in dataBitmap
    /\ \A r, s \in Refs :
         r # s /\ Target(r) = Target(s) => Exhausted /\ Target(r) = DataRegionAddr

(* Every directory starts with its own "." and a ".." that names an older  *)
(* live directory, so that ".." leads from everywhere to the root.         *)
DirectoriesLeadToRoot ==
    \A i \in LiveDirs : ~Exhausted =>
        LET block == dataRegion[Rel(inodeTable[i].direct[0])]
        IN  /\ block[0] = Entry(".", i)
            /\ block[1].name = ".."
            /\ block[1].inum \in LiveDirs
            /\ block[1].inum < i \/ i = 0

(* Every entry that a lookup can meet names a live inode or is free.       *)
EntriesNameLiveInodes ==
    \A i \in LiveDirs : ~Exhausted =>
        \A k \in Scanned(inodeTable[i]), j \in Slots :
            EntryAt(dataRegion, inodeTable[i], k, j).inum \in inodeBitmap \cup {-1}

(* A name that resolves to an inode keeps resolving to it whatever is      *)
(* created or written later, other files of that name included, whatever   *)
(* else is unlinked, and across restarts: an old entry is never shadowed   *)
(* or replaced.  What an unlink does to its own name is UnlinkRemovesName. *)
UnlinkOf(msg, i, name) == msg.mtype = "UNLINK" /\ msg.inum = i /\ msg.name = name
ResolvedNamesStable ==
    [][ dataBitmap' # DataBlocks =>
          \A i \in LiveDirs, name \in Names \cup {".", ".."} :
            LookupResult(dataRegion, inodeTable[i], name) \in Inums
              /\ ~UnlinkOf(m', i, name) =>
              LookupResult(dataRegion', inodeTable'[i], name)
                = LookupResult(dataRegion, inodeTable[i], name) ]_vars

(* The cells of block b that a request may change: a write those of its    *)
(* range in its file's blocks, a create an unused entry of its parent.     *)
Touched(msg, b) ==
    IF msg.mtype = "WRITE"
      THEN {z % BlockSize : z \in {y \in msg.offset .. msg.offset + msg.nbytes - 1 :
                inodeTable[msg.inum].direct[y \div BlockSize] = b + DataRegionAddr}}
      ELSE {j \in Slots : /\ dataRegion[b][j].inum = -1
                          /\ \E k \in Ptrs : inodeTable[msg.inum].direct[k]
                                               = b + DataRegionAddr}

(* A request changes nothing of what is already on the image but what it   *)
(* is about: of the marked blocks only the cells named above, and of the   *)
(* live inodes only that of the file written.  In particular one file's    *)
(* data never moves into another's, and a write never alters a directory.  *)
(* Leftover pointers are pointers here.  It holds until a write through    *)
(* one of them goes to the bitmaps or the inode table.                     *)
OthersUntouched ==
    [][ dataBitmap' # DataBlocks /\ mode' # "lost" =>
          /\ \A b \in dataBitmap, j \in Slots :
               dataRegion'[b][j] # dataRegion[b][j] => j \in Touched(m', b)
          /\ \A i \in inodeBitmap :
               inodeTable'[i] # inodeTable[i] =>
                 i \in LiveFiles /\ m'.mtype = "WRITE" /\ m'.inum = i ]_vars

(* The cell at a position of a file, in an image.                          *)
FileCell(table, region, inum, pos) ==
    region[Rel(table[inum].direct[pos \div BlockSize])][pos % BlockSize]

(* A served write whose first block was there already, or that reaches the *)
(* end of its first block, is on the image when it is answered, and only   *)
(* there: every cell of its range up to the first NUL in the buffer, on    *)
(* both sides of a block boundary, and never the super block.  The blocks  *)
(* of its range must be holes or data blocks: a leftover pointer to        *)
(* another place is where the write goes then.                             *)
Backed(table, msg) ==
    LET direct == table[msg.inum].direct IN
    /\ \/ ~Hole(direct[BlockIndex(msg.offset)])
       \/ CrossedIndex(msg.offset, msg.nbytes) # BlockIndex(msg.offset)
    /\ \A z \in 0 .. msg.nbytes - 1 :
          LET addr == direct[(msg.offset + z) \div BlockSize]
          IN  Hole(addr) \/ addr \in DataAddrs
BackedWriteLands ==
    [][ (/\ Request /\ m'.mtype = "WRITE" /\ m'.rc = 0
         /\ dataBitmap' # DataBlocks
         /\ Backed(inodeTable, m')) =>
          /\ frontIntact' = frontIntact
          /\ \A z \in 0 .. m'.nbytes - 1 :
               (\A y \in 0 .. z : m'.buffer[y] \notin NulCells) =>
                 FileCell(inodeTable', dataRegion', m'.inum, m'.offset + z)
                   = m'.buffer[z] ]_vars

(* The size of a file is a whole number of blocks and never less than the  *)
(* blocks its writes added; it is more only by the block that each write   *)
(* up to the last byte of the file's last block takes and drops.           *)
SizeCoversBlocks ==
    \A i \in LiveFiles :
        LET added == Cardinality({k \in Ptrs \ {0} : ~Hole(inodeTable[i].direct[k])})
        IN  /\ inodeTable[i].size % BlockSize = 0
            /\ inodeTable[i].size >= added * BlockSize
            /\ inodeTable[i].size > added * BlockSize =>
                 ~Hole(inodeTable[i].direct[DirectPtrs - 1])
-----------------------------------------------------------------------------
(***************************************************************************)
(* What comments promise and the code does not do.                         *)
(***************************************************************************)

(* server.c:1011, run_cret "makes a file ... in the parent directory       *)
(* specified by pinum of name name": every inode a create handed out is    *)
(* named by an entry that a lookup in some live directory can meet.        *)
EveryInodeIsNamed ==
    \A i \in inodeBitmap :
        \E d \in LiveDirs : \E k \in Scanned(inodeTable[d]), j \in Slots :
            EntryAt(dataRegion, inodeTable[d], k, j) # Entry(".", i)
              /\ EntryAt(dataRegion, inodeTable[d], k, j).inum = i

(* mkfs.c:62, "presumed: block 0 is the super block": a server restarted   *)
(* after any history of requests finds the geometry of its image there.    *)
RestartFindsGeometry == mode # "lost"

(* server.c:1012, run_cret "Returns 0 on success, -1 on failure": creates  *)
(* answered with 0 have not cost the root directory its own entries.       *)
RootSurvives ==
    m.rc = 0 => LookupResult(dataRegion, inodeTable[0], ".") = 0

(* server.c:612, run_write's "not a regular file (because you can't write  *)
(* to directories)": after a write every directory still begins with the   *)
(* "." it was created with.                                                *)
WritesSpareDirectories ==
    m.mtype = "WRITE" =>
        \A i \in LiveDirs : Exhausted \/
            dataRegion[Rel(inodeTable[i].direct[0])][0] = Entry(".", i)

(* server.c:1086, run_unlink "removes the file or directory name from the  *)
(* directory specified by pinum"; it may fail when "pinum does not exist,  *)
(* directory is NOT empty", which is not so for a file in a live directory:*)
(* after an unlink a lookup of its name there yields no file.              *)
UnlinkRemovesName ==
    m.mtype = "UNLINK" /\ m.inum \in LiveDirs =>
        LookupResult(dataRegion, inodeTable[m.inum], m.name) \notin LiveFiles
=============================================================================
