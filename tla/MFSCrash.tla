------------------------------- MODULE MFSCrash -------------------------------
(***************************************************************************)
(* The handlers of server.c that change the image, taken apart into their  *)
(* write and fsync calls, with what may happen between any two of them:    *)
(* SIGINT ends the server (intHandler), the kernel writes a page of its    *)
(* cache to the disk, the power fails.  Requests that are refused write    *)
(* nothing and are left to MFSServer.                                      *)
(*                                                                         *)
(* A handler reads the image, which nobody else writes, before it writes;  *)
(* todo is what it has still to do.  The kernel's page cache is what every *)
(* read sees, a disk block of it is written as a whole.                    *)
(***************************************************************************)
EXTENDS Integers, SequencesExt, UFSStore

CONSTANTS NumInodes, NumData, DirectPtrs, BlockSize, DataRegionAddr,
          Names, CreatTypes, Payload, Offsets, Lengths, MaxSize, NulCells,
          HeapCells, StaleInodes, StackNames, StackBlocks, StackInts,
          OutsideBlocks, Unset,   \* all these as in MFSServer
          InodesPerBlock,   \* UFS_BLOCK_SIZE / sizeof(inode_t)
          MaxDirty,         \* bound of the model: handlers that write begin with at
                            \* most so many dirty writes
          MaxCuts           \* bound of the model: handlers cut off by SIGINT

ASSUME CrashAssumption ==
    InodesPerBlock \in Nat \ {0} /\ MaxDirty \in Nat /\ MaxCuts \in Nat

VARIABLES
    mode,       \* "up", "down", "lost" as in MFSServer, "lost" from the beginning
                \* of the handler on; "torn": up on a torn image
    platter,    \* the image that the last fsync left on the disk
    cache,      \* the image as the server reads it: with the kernel's dirty pages
    dirty,      \* the writes since that fsync, in order
    todo,       \* the calls that the handler has still to make
    m,          \* the last request that was not refused, with its reply
    acked,      \* history: the image when a request was last answered
    writing,    \* history: inodes that writes were begun to since then
    cuts,       \* handlers cut off by SIGINT so far
    full,       \* history: the last data block was taken
    torn        \* history: the power failed in a handler or lost a dirty page

vars == <<mode, platter, cache, dirty, todo, m, acked, writing, cuts, full, torn>>
-----------------------------------------------------------------------------
(* The image after some calls; the one when the handler will be done, if   *)
(* nothing cuts it off.                                                    *)
After(img, calls) == FoldLeft(Effect, img, calls)
Done == After(cache, todo)

(* MFSServer as seen from here: a handler takes effect when it begins.     *)
Server == INSTANCE MFSServer WITH
            frontIntact <- Done.frontIntact,
            inodeBitmap <- Done.inodeBitmap,  dataBitmap <- Done.dataBitmap,
            inodeTable  <- Done.inodeTable,   dataRegion <- Done.dataRegion

ASSUME ServerAssumption ==
    Server!SizesAssumption /\ Server!RequestsAssumption /\ Server!LeftoversAssumption

Inums == Server!Inums
Ptrs  == Server!Ptrs
Slots == Server!Slots

Init ==
    /\ mode = "down"
    /\ \E stale \in [Inums \ {0} -> StaleInodes], junk \in StackNames :
         cache = [frontIntact |-> TRUE, inodeBitmap |-> {0}, dataBitmap |-> {0},
                  inodeTable  |-> [i \in Inums |-> IF i = 0 THEN Server!RootInode
                                                   ELSE stale[i]],
                  dataRegion  |-> [b \in Server!DataBlocks |->
                                     IF b = 0 THEN Server!RootBlock(junk)
                                     ELSE [j \in Slots |-> Server!ZeroCell]]]
    /\ platter = cache /\ acked = cache
    /\ dirty = <<>> /\ todo = <<>>
    /\ m = [mtype |-> "INIT", rc |-> 0]
    /\ writing = {}
    /\ cuts = 0 /\ full = (Server!DataBlocks = {0}) /\ torn = FALSE
-----------------------------------------------------------------------------
(***************************************************************************)
(* The calls of each handler, in order.  An operator yields the set of     *)
(* possible outcomes: uninitialised memory makes for more than one.        *)
(***************************************************************************)

(* A block for the caller, as region has it: the write of its bit comes    *)
(* with it, if there was one to take.                                      *)
TakeBlock(bm, region, uninit) ==
    {[bm |-> got.bm, num |-> got.num, buf |-> got.buf,
      mark |-> IF got.bm = bm THEN <<>> ELSE <<DataBit(got.num)>>] :
       got \in Server!GetFreeDataBlock(bm, region, uninit)}

(* write(fd, ...) of cells into the block at addr: the call that its place *)
(* makes of it, and none for what lies behind the data region.             *)
CellCalls(addr, cells) ==
    IF addr \in Server!DataAddrs THEN <<PutCells(Server!Rel(addr), cells)>>
    ELSE IF Server!Spoils(addr, DOMAIN cells) THEN <<PutFront(addr)>> ELSE <<>>

(* The handler that makes these calls is the last one that is followed, if *)
(* one of them goes astray.                                                *)
ModeAfter(calls) ==
    IF \E n \in DOMAIN calls : calls[n].to = "front" /\ calls[n].at # 0
      THEN "lost" ELSE mode

(* The parent's side of a create: the entry into a free slot seen, or into *)
(* the first slot of a block just taken.                                   *)
EntryCalls(bm, seen, pinode, entry) ==
    LET open == Server!BlocksWithSlot(seen, pinode) IN
    IF open # {}
      THEN LET k == Min(open)
               j == Server!FirstSlotIn(seen, pinode, k)
           IN  {[bm |-> bm, calls |-> CellCalls(pinode.direct[k], [l \in {j} |-> entry])]}
      ELSE {[bm |-> got.bm,
             calls |-> got.mark \o CellCalls(got.num + DataRegionAddr,
                                            [got.buf EXCEPT ![0] = entry])] :
              got \in TakeBlock(bm, cache.dataRegion, StackInts)}

(* Mutants: the inode points to the block before it has its contents, or   *)
(* before the block's bit is set.                                          *)
ChildOrder_InodeBeforeBlock(mark, block, inode) == mark \o inode \o block
ChildOrder_InodeBeforeMark(mark, block, inode)  == block \o inode \o mark

(* The child's side: its first block, then its inode for the second time.  *)
(* The block is read from region, with the parent's entry on the image.    *)
ChildOrder(mark, block, inode) == mark \o block \o inode
ChildCalls(bm, region, inum, pinum, type) ==
    LET isDir == type = Server!MFS_DIRECTORY IN
    {ChildOrder(
       got.mark,
       <<PutCells(got.num,
           IF isDir THEN [got.buf EXCEPT ![0] = Server!Entry(".", inum),
                                         ![1] = Server!Entry("..", pinum)]
           ELSE got.buf)>>,
       <<PutInode(inum,
           [type   |-> IF isDir THEN Server!MFS_DIRECTORY ELSE Server!MFS_REGULAR_FILE,
            size   |-> 0,
            direct |-> [cache.inodeTable[inum].direct EXCEPT
                          ![0] = got.num + DataRegionAddr]])>>) :
       got \in TakeBlock(bm, region, {0})}

(* run_write's block for a hole at index k: its bit and its old contents.  *)
(* The pointer goes into the handler's copy of the inode.                  *)
FillCalls(st, k, beyond) ==
    IF IF k \in Ptrs THEN ~Server!Hole(st.inode.direct[k]) ELSE ~beyond
      THEN {st}
      ELSE {[bm    |-> got.bm,
             calls |-> st.calls \o Append(got.mark, PutCells(got.num, got.buf)),
             inode |-> [st.inode EXCEPT
                          !.size = @ + BlockSize,
                          !.direct = [l \in Ptrs |-> IF l = k THEN got.num + DataRegionAddr
                                                     ELSE @[l]]]] :
              got \in TakeBlock(st.bm, cache.dataRegion, {0})}

(* n cells of dup from first on, at cell rem of the block at addr.         *)
DataCalls(addr, rem, n, dup, first) ==
    CellCalls(addr, [j \in rem .. rem + n - 1 |-> dup[first + j - rem]])
-----------------------------------------------------------------------------
(***************************************************************************)
(* The handlers begin.  todo is empty then, so that Server's image is the  *)
(* one in the cache.                                                       *)
(***************************************************************************)
Idle == mode = "up" /\ todo = <<>>

(* Mutants: the entry, or the child, before the inode is reserved; the     *)
(* fsync before the data.                                                  *)
CreatOrder_EntryFirst(reserve, entry, child)  == entry \o reserve \o child \o <<Fsync>>
CreatOrder_ChildFirst(reserve, entry, child)  == child \o reserve \o entry \o <<Fsync>>
WriteOrder_FsyncEarly(blocks, inode, data)    == blocks \o inode \o <<Fsync>> \o data

(* run_cret: the inode's bit, the inode with the type asked for and the    *)
(* pointers it had, then the parent's and the child's side; neither if the *)
(* parent has a type that is neither, as a create that was cut off leaves. *)
CreatOrder(reserve, entry, child) == reserve \o entry \o child \o <<Fsync>>
Creat(pinum, type, name) ==
    /\ Idle
    /\ Len(dirty) <= MaxDirty
    /\ Server!Creatable(pinum)
    /\ LET inum == Min(Inums \ cache.inodeBitmap)
           pinode == cache.inodeTable[pinum]
           reserve == <<InodeBit(inum),
                        PutInode(inum, [type |-> type, size |-> 0,
                                        direct |-> cache.inodeTable[inum].direct])>>
       IN  IF pinode.type = Server!MFS_DIRECTORY
             THEN \E seen \in Server!Views(cache.dataRegion) :
                  \E linked \in EntryCalls(cache.dataBitmap, seen, pinode,
                                           Server!Entry(name, inum)) :
                  \E made \in ChildCalls(linked.bm, After(cache, linked.calls).dataRegion,
                                         inum, pinum, type) :
                     todo' = CreatOrder(reserve, linked.calls, made)
             ELSE todo' = CreatOrder(reserve, <<>>, <<>>)
    /\ mode' = ModeAfter(todo')
    /\ m' = [mtype |-> "CRET", inum |-> pinum, ftype |-> type, name |-> name, rc |-> 0]
    /\ UNCHANGED <<platter, cache, dirty, acked, writing, cuts, full, torn>>

(* run_write: up to two new blocks, the inode, then the data.              *)
WriteOrder(blocks, inode, data) == blocks \o inode \o data \o <<Fsync>>
Write(inum, offset, nbytes, buf) ==
    LET bi      == Server!BlockIndex(offset)
        crossed == Server!CrossedIndex(offset, nbytes)
        rem     == offset - bi * BlockSize
        before  == (bi + 1) * BlockSize - offset
    IN
    /\ Idle
    /\ Len(dirty) <= MaxDirty
    /\ Server!Writable(inum, offset, nbytes)
    /\ cache.inodeTable[inum].size < MaxSize
    /\ \E beyond \in BOOLEAN, dup \in Server!Duplicates(buf, nbytes) :
       LET inode == cache.inodeTable[inum] IN
       \E st1 \in FillCalls([bm |-> cache.dataBitmap, calls |-> <<>>, inode |-> inode],
                            bi, beyond) :
       \E st2 \in IF crossed # bi THEN FillCalls(st1, crossed, beyond) ELSE {st1} :
          todo' = WriteOrder(
                    st2.calls, <<PutInode(inum, st2.inode)>>,
                    IF crossed = bi THEN DataCalls(inode.direct[bi], rem, nbytes, dup, 0)
                    ELSE DataCalls(st2.inode.direct[bi], rem, before, dup, 0) \o
                         IF crossed \in Ptrs
                           THEN DataCalls(st2.inode.direct[crossed], 0, nbytes - before,
                                          dup, before)
                           ELSE <<>>)
    /\ mode' = ModeAfter(todo')
    /\ m' = [mtype |-> "WRITE", inum |-> inum, offset |-> offset, nbytes |-> nbytes,
             buffer |-> buf, rc |-> 0]
    /\ writing' = writing \cup {inum}
    /\ UNCHANGED <<platter, cache, dirty, acked, cuts, full, torn>>

(* The others write nothing, but end in an fsync when they succeed: here   *)
(* run_stat, which does so on every live inode.                            *)
Stat(inum) ==
    /\ Idle
    /\ inum \in cache.inodeBitmap
    /\ todo' = <<Fsync>>
    /\ m' = [mtype |-> "STAT", inum |-> inum, rc |-> 0,
             size |-> cache.inodeTable[inum].size, type |-> cache.inodeTable[inum].type]
    /\ UNCHANGED <<mode, platter, cache, dirty, acked, writing, cuts, full, torn>>

(* The running handler makes its next call.  After the last one it answers.*)
Answering == Len(todo) = 1

Call ==
    /\ todo # <<>> /\ Head(todo).to # "disk"
    /\ cache' = Effect(cache, Head(todo))
    /\ dirty' = Append(dirty, Head(todo))
    /\ todo' = Tail(todo)
    /\ acked' = IF Answering THEN cache' ELSE acked
    /\ writing' = IF Answering THEN {} ELSE writing
    /\ full' = (full \/ cache'.dataBitmap = Server!DataBlocks)
    /\ UNCHANGED <<mode, platter, m, cuts, torn>>

Sync ==
    /\ todo # <<>> /\ Head(todo).to = "disk"
    /\ platter' = cache
    /\ dirty' = <<>>
    /\ todo' = Tail(todo)
    /\ acked' = IF Answering THEN cache ELSE acked
    /\ writing' = IF Answering THEN {} ELSE writing
    /\ UNCHANGED <<mode, cache, m, cuts, full, torn>>
-----------------------------------------------------------------------------
(***************************************************************************)
(* What comes between the calls.                                           *)
(***************************************************************************)

(* SIGINT: intHandler exits, and what was written stays in the cache.      *)
Interrupt ==
    /\ mode # "down"
    /\ mode' = "down"
    /\ todo' = <<>>
    /\ cuts' = IF todo = <<>> THEN cuts ELSE cuts + 1
    /\ cuts' <= MaxCuts
    /\ UNCHANGED <<platter, cache, dirty, m, acked, writing, full, torn>>

(* run_shutdown: fsync, then exit.                                         *)
Shutdown ==
    /\ mode = "up" /\ todo = <<>>
    /\ mode' = "down"
    /\ platter' = cache
    /\ dirty' = <<>>
    /\ UNCHANGED <<cache, todo, m, acked, writing, cuts, full, torn>>

(* The disk block that a write dirties.                                    *)
Page(call) ==
    CASE call.to = "inodeTable" -> <<call.to, call.at \div InodesPerBlock>>
      [] call.to \in {"dataRegion", "front"} -> <<call.to, call.at>>
      [] OTHER                  -> <<call.to, 0>>

(* The images a power failure can leave: the kernel writes a dirty block   *)
(* whenever it likes, as it is at that time, and the blocks in any order.  *)
Leftovers ==
    {FoldLeftDomain(LAMBDA img, n : IF n \in kept THEN Effect(img, dirty[n]) ELSE img,
                    platter, dirty) :
       kept \in {K \in SUBSET DOMAIN dirty :
                   \A n \in K : \A l \in 1 .. n : Page(dirty[l]) = Page(dirty[n]) => l \in K}}

(* The power fails; what is on the disk is all that is left.               *)
PowerLoss ==
    /\ mode' = "down"
    /\ todo' = <<>>
    /\ \E img \in Leftovers :
         /\ platter' = img
         /\ cache' = img
         /\ torn' = (torn \/ todo # <<>> \/ img # cache)
    /\ dirty' = <<>>
    /\ UNCHANGED <<m, acked, writing, cuts, full>>

(* A server is started; on a torn image it is not followed further.        *)
Start ==
    /\ mode = "down"
    /\ mode' = IF torn THEN "torn" ELSE IF cache.frontIntact THEN "up" ELSE "lost"
    /\ UNCHANGED <<platter, cache, dirty, todo, m, acked, writing, cuts, full, torn>>

Next ==
    \/ Start \/ Interrupt \/ Shutdown \/ PowerLoss \/ Call \/ Sync
    \/ \E i \in Inums :
         \/ Stat(i)
         \/ \E name \in Names, type \in CreatTypes : Creat(i, type, name)
         \/ \E offset \in Offsets, nbytes \in Lengths :
              \E buf \in Server!Buffers(nbytes) : Write(i, offset, nbytes, buf)

Spec == Init /\ [][Next]_vars
-----------------------------------------------------------------------------
(***************************************************************************)
(* Properties.  An image is bad for nothing once the last data block is    *)
(* taken (see Exhausted in MFSServerProps) or once it is torn.             *)
(***************************************************************************)
Sound == ~torn /\ ~full

(* The calls of run_cret and run_write add up to what MFSServer says of    *)
(* the whole handler, and a server that is ended between two of them is    *)
(* the only thing MFSServer does not know.                                 *)
HandlersImplemented ==
    Server!Init /\
    [][ \/ Server!Next
        \/ todo # <<>> /\ mode' = "down"
        \/ torn' ]_(Server!vars)

LiveDirs(img)    == {i \in img.inodeBitmap : img.inodeTable[i].type = Server!MFS_DIRECTORY}
Refs(img)        == {r \in img.inodeBitmap \X Ptrs :
                        ~Server!Hole(img.inodeTable[r[1]].direct[r[2]])}
Target(img, r)   == img.inodeTable[r[1]].direct[r[2]]

(* Wherever SIGINT ends a handler, each block that a live inode points to  *)
(* is marked and has no other owner: an interrupted handler loses blocks,  *)
(* but a later one never hands out a block that is in use.                 *)
UsedBlocksAreMarked ==
    Sound => /\ \A r \in Refs(cache) : Server!Rel(Target(cache, r)) \in cache.dataBitmap
             /\ \A r, s \in Refs(cache) : r # s => Target(cache, r) # Target(cache, s)

(* Wherever SIGINT ends a handler, a lookup yields no inode that is free:  *)
(* a later create cannot make it another file under the old name.          *)
EntriesNameReservedInodes ==
    Sound => \A d \in LiveDirs(cache) :
               \A k \in Server!Scanned(cache.inodeTable[d]), j \in Slots :
                  Server!EntryAt(cache.dataRegion, cache.inodeTable[d], k, j).inum
                    \in cache.inodeBitmap \cup {-1}

(* A directory whose create was cut off may have no block; if it has one,  *)
(* it starts with "." and a ".." to an older directory.                    *)
BegunDirectoriesLeadToRoot ==
    Sound => \A i \in LiveDirs(cache) :
               ~Server!Hole(cache.inodeTable[i].direct[0]) =>
                 LET block == cache.dataRegion[Server!Rel(cache.inodeTable[i].direct[0])]
                 IN  /\ block[0] = Server!Entry(".", i)
                     /\ block[1].name = ".."
                     /\ block[1].inum \in LiveDirs(cache)
                     /\ block[1].inum < i \/ i = 0

(* What was on the image when a request was last answered outlives the     *)
(* server's end and a power failure at any time, with the blocks of a      *)
(* later request half on the disk: names keep their inodes, and files      *)
(* their blocks and cells unless a write to them was begun since.          *)
Resolve(img, d, name) == Server!LookupResult(img.dataRegion, img.inodeTable[d], name)
AckedSurvives ==
    [][ ~full' /\ ~torn =>
          /\ \A d \in LiveDirs(acked), name \in Names \cup {".", ".."} :
               Resolve(acked, d, name) \in Inums =>
                 Resolve(cache', d, name) = Resolve(acked, d, name)
          /\ \A r \in Refs(acked) :
               /\ acked.inodeTable[r[1]].type = Server!MFS_REGULAR_FILE
               /\ r[1] \notin writing
               => /\ Target(cache', r) = Target(acked, r)
                  /\ LET b == Server!Rel(Target(acked, r))
                     IN  cache'.dataRegion[b] = acked.dataRegion[b] ]_vars
=============================================================================
