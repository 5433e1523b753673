# A verification project for the cs537 distributed file system

The program is a file server over UDP: `server.c` keeps a Unix-like file system
in an image file that `mkfs.c` lays out; programs use it through `libmfs.c`,
which sends one message per call and waits for the answer. This directory holds
a TLA+ model of it, the TLC runs that check it on small instances and proofs
for TLAPS.

To check: `tlc -config Dirs.cfg MCServer` (`Calls.cfg` and `StaleAnswer.cfg` go
with `MFSProtocol.tla`, `Crash.cfg` with `MCCrash.tla`,
`Image.cfg` with `MCImage.tla`, every other `.cfg` with `MCServer.tla`); to prove:
`tlapm MFSServerProofs.tla`, and the same for `MFSServerDataProofs`,
`MFSServerDirProofs`, `MFSServerTreeProofs`, `MFSCrashProofs`, `MFSProtocolProofs`,
`UFSLayoutProofs` and `UFSImageProofs`.

## The system

| Part | Source | State it keeps | Operations |
|---|---|---|---|
| File server | `server.c` | the image file: super block, inode bitmap, data bitmap, inode table, data blocks; in memory only the super block read at start | a handler per message type (`run_lookup`, `run_stat`, `run_write`, `run_read`, `run_cret`, `run_unlink`, `run_shutdown`), `readImage`, the receive loop, the SIGINT handler |
| Image formatter | `mkfs.c` | writes a fresh image and exits | region layout, bitmaps, root inode, root directory |
| Client library | `libmfs.c` | one socket, two addresses | `MFS_Init` .. `MFS_Shutdown`: check the parameters, send, wait for one datagram |
| UDP wrapper | `udp.c` | none | open, send, receive, close |
| Formats | `ufs.h`, `mfs.h`, `message.h` | none | the on-disk structures; one `message_t` for request and reply |
| Drivers | `main.c`, `client.c` | none | straight-line callers |
| Inspectors | `server-fs.c`, `server-fs2.c` | none | print the super block |
| Experiments | `playGroundTestFile/` | none | stand-alone |

**Interaction.** Client programs share nothing with the server but datagrams.
The server is one process with one thread: it receives a message, runs the
handler of its type to the end, puts the handler's return code in the same
message and sends it back. Handlers go to the image for everything, with
`lseek`, `read` and `write`; nothing is cached but the super block. A later
server picks the image up where the former left it.

**What is hard.** There is no concurrency inside the server. The difficulty is
in long sequences of requests against persistent state with two numberings of
blocks (relative to the data region in the bitmap, absolute in an inode), in
exact block boundaries, in what happens when inodes or blocks run out, in
leftovers of uninitialised memory that reach the disk, in interruption of a
handler between two writes, and in a client that neither repeats nor matches
its datagrams. `PROJECT.json` lists each such hazard at its line.

**What makes each part correct.**

- Server, blocks: every block in use is marked and has one owner; a block of a
  directory is never written as file data and conversely.
- Server, names: every directory leads to the root by "..", its entries name
  live inodes, a name keeps its meaning, a created inode has a name, an unlinked
  name is gone, a lookup always answers.
- Server, data: a write answered with 0 is on the image and nothing else moved;
  reads return it; the size covers it.
- Server, restart: the super block is the one mkfs wrote; a handler that was cut
  off gives nothing away that is in use; what was answered survives a power failure.
- mkfs: regions are disjoint and hold what they are for; the server finds in them
  an empty root directory and nothing else.
- Server, arithmetic: each bit, inode, block and cell is read where it is written.
- libmfs: the answer a call returns is the answer to that call; a call returns.

## Modules

| Module | Content |
|---|---|
| `MFSTree` | what a program may expect of the server while blocks last: directories and files without blocks; an abstract specification |
| `MFSServer` | the server over its image, with mkfs's image as initial state; one action per handler |
| `MFSServerProps` | its invariants and action properties, and the promises of comments that it does not keep |
| `MFSServerTree` | the refinement: which tree an image is |
| `MCServer` | values of constants for TLC, the view and the symmetry of the runs |
| `MFSServerProofs` | theorems about the server: types, bitmaps, owners of blocks |
| `MFSServerDataProofs` | what a request may touch, what a write stores, what a size covers |
| `MFSServerDirProofs` | directories, their entries, the names that resolve |
| `MFSServerTreeProofs` | the server implements `MFSTree`, step by step |
| `UFSStore` | the calls that change an image, and the effect of each |
| `MFSCrash` | the handlers as sequences of these calls, with signals and power failures between them; implements `MFSServer` |
| `MCCrash` | its constants and view for TLC |
| `MFSCrashProofs` | theorems about interrupted handlers; uninterrupted, they implement `MFSServer` |
| `UFSLayout` | the regions of mkfs.c, the offset and bit arithmetic of server.c |
| `UFSImage` | the image as a file of words: mkfs, and the calls of `UFSStore` made by offset and bit |
| `MCImage` | its constants and view for TLC |
| `UFSLayoutProofs` | theorems about the layout |
| `UFSImageProofs` | the length of the image file, for all sizes |
| `MFSCall` | what a program expects of a call of the library: an abstract specification |
| `MFSProtocol` | clients, the server's loop and the network between them; its properties |
| `MFSProtocolProofs` | theorems about the protocol |

The modules about the image form a chain. From the bottom:

    UFSImage    words of a file     CallsHaveTheirEffect: each call has the
       |                            effect UFSStore says, and no other
    MFSCrash    calls of UFSStore   HandlersImplemented: uninterrupted, they add
       |                            up to a handler of MFSServer
    MFSServer   whole handlers      ImplementsTree: while blocks last, the
       |                            handlers answer as the tree does
    MFSTree     names and files

`MFSProtocol` shares no variable with them: `MFSServer` takes its requests one at a
time, from anywhere; `MFSProtocol` says when and how often a request of a client
is handled and which answer it gets, whatever the handler does to the image.

### MFSServer

Variables: `inodeBitmap`, `dataBitmap` (the sets of numbers whose bit is set),
`inodeTable`, `dataRegion` (the image), `frontIntact` (no write through a wrong
block number went in front of the data region, where the super block, the
bitmaps and the inode table lie), `mode` (`"up"`, `"down"`, and `"lost"`, see below)
and `m`, the last message with its reply.

Actions, one per handler, each with everything the handler does to the image:

| Action | Code |
|---|---|
| `Lookup`, `Stat`, `Read` | `run_lookup`, `run_stat`, `run_read`: change only the reply |
| `Write` | `run_write`: its checks (`Writable`), the allocations (`FillHole`, twice for a write that crosses), the inode, then the data (`WriteServed`) |
| `Creat` | `run_cret` with `addDirEntryToDirectoryInode`: the inode's bit, the parent's entry (`AddDirEntry`), the child's block and inode (`AddChild`); neither for a parent whose type is neither (server.c:452, `Populate`), which only an interrupted create makes |
| `Unlink` | `run_unlink`: no change, an answer that depends on an uninitialised buffer |
| `Shutdown`, `Start` | `run_shutdown` or SIGINT between requests; `main` and `readImage` |

How data is abstracted:

- A *cell* is `sizeof(dir_ent_t)` = 32 bytes, the unit of offsets, lengths and
  block contents. A cell is a record of a name and an inode number; a cell of
  file text is one with a number no directory uses. Sizes are in cells.
- Bitmaps are sets; the inode table is a function. The arithmetic that locates
  a bit or an inode is in `UFSLayout` and `UFSImage`.
- An allocation yields a record of the new bitmap, the block number and the
  buffer. When no block is left the outcome is the unchanged bitmap, the number
  the caller's variable already held (0, or one of `StackInts` where it is
  uninitialised) and one of `StackBlocks`.
- `direct[30]`, which `run_write` and `run_read` reach when a request ends at
  the last byte of the last block, lies behind the array: whether it reads as a
  hole is chosen by `beyond`.
- What mkfs leaves in unused inodes is chosen from `StaleInodes`: any type, size
  and pointers; in the names of unused root entries from `StackNames`. mkfs.c:157
  leaves it in the first block of the table only; the model allows it in all.
- A pointer or a block number that was never set may be any integer. `WritesLand`
  says what a handler's writes through one do. In the data region they are writes
  like any other. Behind it they change nothing that is modelled. In front of it they
  clear `frontIntact`: at block 0 in the cells of the super block the damage shows at
  the next start; at another number, negative ones included (`lseek` fails and
  the cells go to where the file stood), the write is `Astray`, in a bitmap or in the inode
  table as a rule, and the handler that makes it is the last one followed.
- What is read through a pointer out of the data region is any of `OutsideBlocks`,
  and something else each time (`Views`).
- Behind a NUL byte a written buffer continues with any of `HeapCells`.
- Requests are those libmfs lets through: no negative inode number or offset,
  at most a block of data. The reply's copy of a directory entry
  (`c_received_mfs_dirent`), which libmfs drops, is left out.
- `"lost"` is a server that was started on an overwritten super block or one whose
  write went astray. It only stops: what a handler does with a garbage geometry
  or garbage tables is not modelled.

One bound is in the specification itself: `MaxSize`. A file's size grows with
every write of the last byte of its last block, so that `Write` takes requests
only for inodes smaller than `MaxSize`. The theorems hold for every `MaxSize`.

### MFSTree

State: the `kind` of each inode in use, the `names` of each directory, its `room`
for more of them, the cells (`text`) of each file. It promises what the code
keeps: a create in a directory without room makes an inode without a name (only
the root has room, its free slots); an existing name keeps its inode when it is
created again; a write gives its file the blocks of its first position and of the
one behind its last, of zeros, and puts its data there unless it lies inside a
block that was missing; a read answers with the file's cells if both positions
have a block. `MFSServerTree` reads this state off an image. Left open are the size
a stat answers, a read of a directory, the answer of an unlink, and the inode number
in the answer to a lookup that found nothing, except that it is none of the tree.

### UFSStore and MFSCrash

A handler that writes becomes the sequence of its calls (`todo`): `InodeBit`,
`DataBit`, `PutInode`, `PutCells`, `PutFront`, `Fsync`. `CreatOrder`, `ChildOrder` and
`WriteOrder` say in which order; the contents of each call are computed when the
handler begins, since nobody else writes the image while it runs. What a handler
reads back after its own writes is read from `After(cache, calls)`: the block for
a child, once the parent's entry is on the image. `CellCalls` is the place where a
block's address decides which call a write is: `PutCells` in the data region, `PutFront`
before it, none behind it; a handler with a call astray is `"lost"` from its
beginning (`ModeAfter`), as in `MFSServer`. `Call` and `Sync`
make the next one. Requests that are refused write nothing and are left to `MFSServer`.

| Action | Code |
|---|---|
| `Creat`, `Write`, `Stat` | the handlers begin: what they will write, and in which order |
| `Call`, `Sync` | the next `write` or `fsync` of the running handler |
| `Interrupt` | SIGINT at any time: `intHandler` exits, the kernel's cache stays |
| `Shutdown`, `Start` | `run_shutdown`; `main` and `readImage` |
| `PowerLoss` | external: what is left is what the last fsync wrote and some of the writes since |

The fault model. `cache` is the file as every process reads it, `platter` what is on
the disk, `dirty` the writes since the last fsync. A page of the cache is a
block of the image and is written as a whole, whenever the kernel likes, in any
order; `Leftovers` are the images that this can leave. That a disk writes a block of
4096 bytes whole or not at all is an assumption. SIGINT loses nothing of the cache.
After a power failure in the middle of a handler, or one that lost a dirty page, the
image is `torn`: what it still holds of the answered requests is checked
(`AckedSurvives`), and a server started on it is not followed further, since what
reached the disk may contradict itself in any way.

`Server` is `MFSServer` on the image as it will be when the running handler is done:
a handler takes effect when it begins. A handler that is cut off is the one
thing `MFSServer` does not know.

What the checks show: the order of the writes is such that an interruption costs
something but damages nothing. A create that is cut off may leave an inode
without a name, a block without an owner, a directory without a block. It never
leaves a block owned and unmarked, nor an entry for an inode that is free. What it
does break is said under hazards: inode numbers can then overtake block numbers.

### UFSLayout and UFSImage

`UFSLayout` has no state: the addresses and lengths of the regions, as mkfs.c
computes them, and the places of bits and inodes, as server.c does. Its unit is
the word of a bitmap. `UFSImage` has the file itself (`image`), how far mkfs is
(`stage`), the super block that a running server has read (`super`) and the last call.

| Action | Code |
|---|---|
| `Mkfs`, `Truncate` | the next pwrite of mkfs.c; its `open` with `O_TRUNC` on an image that is there |
| `Start`, `Stop` | `readImage`; the server ends |
| `SetInodeBit`, `SetDataBit` | `setOneToBitMap`: read a block, set a bit, write the block |
| `AddInode`, `AddBlock`, `WriteCell` | `addInodeToInodeTable`; the writes of whole blocks; those of an entry or of a file's cells |

`Store` is the image as the server reads it, through `get_bit`,
`getInodeCopyFromInodeTable` and its block reads. Any call may come at any time
here, those that no handler makes included. A name is one word.

### MFSProtocol

Variables: of the server `mode`; of each client `pc` (`"idle"` or `"waiting"` in
`UDP_Read`), `call` (its number of calls), `answer` (the call whose answer it was
last given) and the count `giveUps`; `effects`, how often the server ran a handler
for it; of the network how many datagrams of each request and reply are in
flight, `shutdowns`, `dups`, and whether something was `lost`.

| Action | Code |
|---|---|
| `Send`, `Receive` | a call of `libmfs.c` up to its `UDP_Read`, and from there |
| `GiveUp` | `UDP_Read` fails and the call returns -1; or the program ends while it waits and another one binds its port |
| `AskShutdown` | `MFS_Shutdown`: sends, waits for nothing |
| `Serve` | one round of `main`'s loop: receive, `message_parser`, send back |
| `ServeShutdown`, `Interrupt`, `Start` | `run_shutdown`, `intHandler`, `main` up to its loop |
| `Lose`, `Duplicate` | the network |

A round is one action. A signal between its steps is `Lose` before or after it:
the request is gone without an effect, or the reply with it. The queue of a
socket is part of the network: a server that exits with requests queued is
`Interrupt` and `Lose`. Counts of datagrams carry no order, so that any
reordering is covered. All calls but `MFS_Shutdown` have the same form, so that
the type of a request is left out.

`MFSCall` is the library as a program sees it: a client asks, the server acts for
it once, the call returns with the answer to it. `MFSProtocol` implements it with
`phase` read off as `phaseBar`: a waiting client has been acted for when its
effects have caught up with its calls; `call`, `effects` and `answer` are the same.

## Runs

The first three runs use `MCServer`. `StackBlocks` is a buffer of zeros or of ones.

| Run | Instance | Shows |
|---|---|---|
| `dirs` | 5 inodes, 7 blocks of 4 entries, 2 direct pointers, names {a, b}, only empty writes | over every history of creates and restarts: types, dense bitmaps, the double check of the bitmaps never refuses a live inode, no block with two owners, every directory leads to the root, entries name live inodes, a resolved name keeps its inode, a create changes one unused entry of its parent and nothing else; the server implements `MFSTree` |
| `files` | 3 inodes, 7 blocks of 2 cells, writes of 1 and 2 cells at offsets 0 to 3 | no block with two owners, no request changes cells or inodes other than its own, the size covers the blocks that writes added; the server implements `MFSTree`, its reads of files included |
| `leftovers` | 3 inodes, 5 blocks of 2 cells, three payloads, one with a NUL byte, every offset and length; mkfs leaves inodes of type 7 and size -1 with pointers that are holes, lead to a data block, into the inode table or behind the image | no pointer but to data blocks or what mkfs left, live inodes are files or directories, a request changes its own until a write goes astray; a write whose first block exists or that reaches a block's end lands whole, up to its first NUL, if its blocks are data blocks |
| `crash` | 3 inodes, 5 blocks of 3 cells, two inodes to a block of the table, writes of 2 cells, 2 handlers cut off by SIGINT, power failures at any time | wherever handlers are cut off, blocks in use are marked and have one owner, entries name taken inodes, a directory that has a block leads to the root; what was answered survives the power; uninterrupted, the calls are the handlers of `MFSServer` |
| `image` | 4 inodes of 4 words, 2 blocks of 12 words, words of 2 bits, any calls on any bit, inode, block, two cells of each block | each call, by offset and bit, has its effect of `UFSStore` and no other; a fresh image reads as an empty root; the file keeps the length mkfs gave it |
| `calls` | 2 clients of 2 calls, 1 shutdown in flight, 1 duplicate, 1 wait given up, losses, restarts | a call returns if nothing is lost and the server stays up; until the first duplicate or given-up wait a client has at most one datagram in flight and none when idle, and the protocol implements `MFSCall`; from then on a client's datagrams beyond the one it waits for, and the second effects of a call, number no more than these faults |

Why these bounds: four entries make the root's block fill up (two free slots)
and leave room for a create after that, five inodes give a directory in a
directory in a directory, seven blocks let both inodes and blocks run out in
some history. Two direct pointers give every case of a write: inside a block,
across into an existing or missing block, to the end of the last block.
Blocks are exhausted in `dirs`, and in `files` by writes; the properties say what they
claim then. `dirs` takes for an uninitialised block number (`AnyNumber`) the root's, one
in the inode table, the super block's and one behind the image; the other runs take 0,
as there the number matters only with a full disk and a directory without a free slot
at once. In `leftovers` one pointer of each kind is enough, since every unused inode draws
its own. `dirs`, `files` and `leftovers` use a VIEW without `m`: no handler reads the
former message, so the view identifies states with the same future, and action
properties speak only of `m'`; TLC checks them on every transition it generates.
(What `TypeOK` says of `m` is checked in the first state of each view only;
`TypeCorrect` proves it.)

Bounds of `crash`: `MaxCuts` = 2 lets a second interruption meet what the first left.
`MaxDirty` = 3 lets a handler that writes begin on top of an unsynced half of
another one, of up to three calls: a create's bit, inode and entry; longer ones are interrupted too, but the server then shuts down, syncs in a
stat, or loses its power before it writes again. One block of the inode table
holds two inodes, so that a page mixes an old inode with a new one. Three inodes
give a directory in the root and a file beside it or in it. `torn` states are one in
the view, since nothing is said of what follows.

Bounds of `image`: an inode table of two blocks, of which the second is not full; bits
in two words; a data block number for which absolute and relative differ. `UsedSlots`
takes the first cell of a block and one that, in block 0, lies behind the
super block. One inode and one cell of contents are enough: a call puts in what
it was given, and the question is where. The action properties read `last`, which
the view leaves out, only primed, or as "no call since mkfs", which is in the view.

Bounds of the protocol: clients meet only in the server's address of the round's
sender and in shutdowns, for which two of them are enough; the second call is the
first that an old reply could reach; one fault of each kind makes every case of
`SurplusFromFaults` tight. The theorems hold for all bounds.

Fairness (`FairSpec`, used by `calls`): weak fairness of the server's round, since its
loop reads again after every reply, and of each client's receive, since
`recvfrom` wakes up a client for which a datagram has arrived. Nothing is assumed
of programs, of operators who start the server, or of the network; `CallReturns` has
as its premise that the server stays up from some time on and that nothing is lost. That
no client is starved by another rests on the bound of calls; in the code, on the
order of the socket's queue.

Runs that expect a violation; each shows a promise of a comment that the code
breaks (`findings` in `PROJECT.json` quotes it):

| Run | What happens |
|---|---|
| `unnamed` | a create in any directory but the root answers 0 and its entry is lost |
| `hole_restart` | a write inside a missing block goes to the super block; a restarted server reads a garbage geometry |
| `exhausted` | with no block left a create answers 0 and overwrites the root directory |
| `stale_pointers` | a file is created on an inode with a leftover pointer to a free block, a directory gets this block, a write to the file overwrites the directory's "." |
| `unlinked` | a file is created and unlinked, and its name still resolves |
| `stale_answer` | after a duplicated datagram or a failed `UDP_Read` a call returns the answer to an earlier one |

Other differences from the comments are plain in one handler and in the model,
and no run is spent on them: the write of `hole_restart` also answers 0 without
its file getting the data; a write up to the last byte of the last block allocates
and counts a block that it drops, so that the same write again changes the
image again (server.c:712, 767 "Idempotency from writeup"; `FillHole` with `beyond`);
a read that ends at the end of a block fails if the next one does not exist
(server.c:884; `Edges` in `MFSTree`); a lookup that finds nothing leaves the inode number of
the reply unassigned (`Unset` in `LookupResult`; server.c:946 promises -1);
a file written in its first block only has size 0 (ufs.h:13 "bytes"); a written
buffer continues with heap contents behind its first NUL byte; a create never
looks its name up and so makes a second inode and entry of an existing one
(server.c:1013, "If name already exists, return success."). `ResolvedNamesStable`
lets an unlink remove its own name and nothing else: the code removes none, which is
what `unlinked` is about, and `MFSTree` follows the code, not the comment.

Deadlock is checked in every run: a server can always be stopped or started, an
image be formatted again.
That the client waits for ever after a loss is the premise of `CallReturns`.

## Proofs

All theorems hold for every value of the constants that the named assumptions of
the modules allow; what a theorem assumes beyond that is in its own statement:

- `NoLeftovers`: mkfs leaves no pointers in unused inodes (their type and size may
  still be anything). mkfs.c:157 writes the table from a variable that it never
  clears, so that this is a property of the build and not of the code; run
  `stale_pointers` shows what happens without it.
- `ZeroCell.name \notin Names` (`ServerIsTree`): nobody asks for the empty name. The
  entries that the server leaves behind ".." of a new directory are zero, so
  that a lookup of the empty name finds the root in every directory.

`TypeCorrect`, `BitmapsStayDense`, `DataCheckIsHarmless`, `RequestsTouchTheirOwn`,
`ServedWritesLand`, `HandlersAreImplemented` and the theorems about the protocol and
the layout assume neither: there leftover pointers, uninitialised numbers and what is
read through them are any integers and any blocks.

### The server

`MFSServerProofs` starts from the assumptions in `MFSServer` (positive sizes, at
least two entries per block, requests of the right type; leftovers are any integers):

| Theorem | States |
|---|---|
| `TypeCorrect` | `Spec => []TypeOK` |
| `BitmapsStayDense` | `Spec => []BitmapsDense` |
| `DataCheckIsHarmless` | `Spec => []LiveInodesPassDataCheck` |
| `BlocksHaveOneOwner` | `Spec => []NoSharedBlocks`, with `NoLeftovers` |

The argument. Lemmas first say what each helper returns: `GotBlock` (an
allocation marks the least clear block, or nothing when there is none),
`AddedDirEntry`, `AddedChild`, `FilledHole`, `StoredCells`, each as a named
predicate (`Allocation`, `ChildAdded`, `HoleFilled`, `Grows`). `ServedWrite` and
`ServedCreat` put them together: a served write fills at most two holes of one
inode, a served create takes one inode, at most one block for the entry and one
for the child. `ImageSteps` reduces `Next` to these two cases and steps that
leave the image alone; every theorem then has three cases.

- Types need the arithmetic of a write across a boundary (`WriteArithmetic`): the
  buffer is never read past its end, the first part ends with its block.
- Density is inductive: the least clear bit is added to an initial segment.
- `LiveInodesPassDataCheck` is inductive over types, though not obviously: the
  new inode number is the least free one, so all below it are live and, by the
  invariant, marked as blocks; if its own number is not marked, it is the least
  free block, and the create takes the least free block. Writes only add blocks.
- `NoSharedBlocks` speaks of live inodes only, and a create makes an inode live
  with the pointers the table happened to hold. The inductive form, `Owned`,
  says the same of every inode of the table; `PointerAdded` shows that one more
  pointer, to a block just allocated, keeps it. `NoLeftovers` is needed: after
  the first create of `stale_pointers` an unmarked block has an owner.

`MFSServerDataProofs` and `MFSServerDirProofs` go on from these lemmas:

| Theorem | States | Assumes |
|---|---|---|
| `RequestsTouchTheirOwn` | `Spec => OthersUntouched` | |
| `ServedWritesLand` | `Spec => BackedWriteLands` | |
| `SizesCoverBlocks` | `Spec => []SizeCoversBlocks` | `NoLeftovers` |
| `DotDotLeadsToRoot` | `Spec => []DirectoriesLeadToRoot` | `NoLeftovers` |
| `EntriesNameInodes` | `Spec => []EntriesNameLiveInodes` | `NoLeftovers` |
| `NamesStayResolved` | `Spec => ResolvedNamesStable` | `NoLeftovers` |

- A request touches its own: blocks taken by a request were clear, so that
  nothing marked is written but through a pointer that was there, at the cells the
  division of the offset gives. A leftover pointer is one that was there; a write
  through it into a bitmap or the table is the one the property exempts. `RequestSteps` reduces every step to a write
  outcome, a create outcome or an untouched image, here and below.
- A write lands: `WriteStores` follows each cell of the buffer through the two
  parts of a write to the block and slot that its position divides into.
- `SizeCoversBlocks` is not inductive, since the create of a file inherits what
  the table held: `SizesInv` adds that inodes out of use have no pointers and that a
  file has its first block. `OneBlockMore` is the step that counts.
- The two properties of directories need each other, and more: an entry is only
  as good as the block it is read from. `DirsInv` says that a live directory has one
  block and no other pointer (the block a create takes for a full parent is never
  linked), its own "." and an older ".." in it, only entries of live inodes, the free
  ones last, and that every clear block is zero, which is why the cells behind
  a new ".." name the root and no stranger. It is inductive over `Support`, the
  invariants before it: with a shared block a write would break it.
- A name stays resolved, whatever else is unlinked, because entries are only taken at the first free cell
  and free cells come last (`KeptOrExtended`): no entry comes before an older one.

`MFSServerTreeProofs` proves `ServerIsTree`, `Spec => ImplementsTree`. `TreeStart` maps
mkfs's image to the first tree; then one lemma per handler, for a state that is
`Ready` (the invariants above, blocks left), shows the step on the tree that
`MFSServerTree` reads off the image before and after. A create splits by whether
its parent has a free cell; a write by which of its two blocks are missing, since
the tree says for each what becomes of the data. A step that takes the last
block is not followed any further, as `ImplementsTree` says.

### Interrupted handlers

`MFSCrashProofs` is about `MFSCrash`, any number of cuts and of dirty pages:

| Theorem | States |
|---|---|
| `InterruptsKeepBlocks` | `Spec => []UsedBlocksAreMarked` |
| `InterruptsKeepNames` | `Spec => []EntriesNameReservedInodes` |
| `InterruptsKeepTree` | `Spec => []BegunDirectoriesLeadToRoot` |
| `HandlersAreImplemented` | `Spec => HandlersImplemented`: uninterrupted, the handlers are those of `MFSServer` |

The first three assume `NoLeftovers`; a create may ask for any type, and one that is cut
off may leave it behind as a parent that gets no entries (server.c:452). None of
these properties is inductive: the next call of a running handler puts down a pointer
or an entry, and is harmless only because of the calls before it. `OrderInv` therefore
speaks of what is still to be done. `InOrder(img)` is the part about one image, weaker
than `DirsInv` since it holds between any two calls: pointers are to marked blocks
with one owner, a free inode has none, a directory has no block yet or one that is in
order, entries name taken inodes, clear blocks hold zeros. `Guarded(img, calls, last)`
says that each of the calls, one after the other from `img`, leaves an image in
order or a full one. `OrderInv` is that `todo` is guarded from `cache`. Then

- a `Call` takes the first image of the chain, and what remains is guarded;
- an `Interrupt` drops `todo`: the image is in order as it is, which is the point;
- a `PowerLoss` that is not torn keeps the answered image;
- a handler that begins has to show its whole chain: `CreatGuarded` (the inode's
  bit, the entry, the block's bit, the block, the inode, in each of the orders that
  run_cret has), `WriteGuarded` (`FillKeepsFilling` for each of the two allocations,
  `InodeGuarded`, `DataGuarded`), with one lemma per kind of call that says when
  it keeps an image in order.

A full image is allowed everything, because the properties claim nothing from
then on. For the proof `full` is TRUE from the start on an image with a single
data block, which mkfs has used up.

`HandlersAreImplemented` is a refinement under the mapping that `Server` is instantiated
with, and assumes nothing: leftover pointers and numbers of any value, other types and a full
disk, where the handlers misbehave, are in it, because `MFSServer` is to misbehave alike. The image that
`MFSServer` sees is `Done`, a fold of `Effect` over the calls left, and the community
modules define the fold by a CHOOSE of a recursive function. `FoldTableExists` shows
that there is such a function (by the least length of sequences without one), which
gives `AfterFirst` and `AfterMore`: the fold takes off the first call, and goes on over
a concatenation. From there

- `Call` and `Sync` leave `Done` alone: the call moves from `todo` into `cache`;
- a handler that begins jumps to the image after all its calls, and each part of
  them is matched with an operator of `MFSServer`: `TakenShape` with the allocator,
  `EntryImplemented` with `AddDirEntry`, `ChildImplemented` with `AddChild`,
  `FillImplemented` with `FillHole`, `DataImplemented` with `StoreCells`,
  `CellsImplemented` with a write to any address, in front of the data region and behind
  it; `ModeAfterFronts` and `LandsBoth` say that the calls astray are those of `WritesLand`.
  What is uninitialised in one is the same choice in the other;
- `MFSServer` takes the second block of a write from a region that has the first one
  in it, `FillCalls` from the cache: `Filled` keeps that free blocks are the same in
  both (`SameFree`);
- an `Interrupt` in a handler and a torn image are the two exceptions the property
  makes; all other steps are steps of `MFSServer` or change nothing there.

The invariant, `ShapeInv`, is about shape alone: an image that is not torn has its
five parts with the pointers of `MFSServer`, and the calls left are calls that keep it so
(`CallKeepsShape`).

### Protocol, layout, image file

`MFSProtocolProofs` does the same for the protocol, from natural numbers as bounds:

| Theorem | States |
|---|---|
| `ProtocolTypeCorrect` | `Spec => []TypeOK` |
| `AtMostOneOutstanding` | `Spec => []OneOutstanding` |
| `SurplusComesFromFaults` | `Spec => []SurplusFromFaults` |
| `LibraryImplementsCalls` | `Spec => LibraryKeepsCalls` |

`OneOutstanding` is not inductive: it says nothing of a client with nothing in
flight, which could be idle with an effect missing. `AllInStep` adds that the
effects of an idle client equal its calls, and lag by at most one while it
waits; one lemma per action keeps it (`SendInStep`, `ReceiveInStep`, `ServeInStep`,
`LoseInStep`). From it each step is one of `MFSCall` or changes nothing there
(`StepImplementsCall`) as long as no datagram was duplicated and no wait given up, which
is then so of all earlier states too (`NoFaultBefore`). `stale_answer` shows what a
call may return after such a fault.

`SurplusFromFaults` is inductive as it stands, but about sums: `SumFunction` folds a
function in the order of a CHOOSE. `SumsExist` shows that the table the fold looks its
result up in exists, by the least size of sets for which it would not;
`OneMoreInAll` that one datagram more is one more in the sum, by a smallest set
on which it is not. After that every action is an addition.

`UFSLayoutProofs` is about the arithmetic alone, for every number and size of inodes,
blocks, words and bits, as long as inodes divide a block (`LayoutAssumption`):

| Theorem | States |
|---|---|
| `RegionsFillTheImage` | the regions follow one another from block 1 to the end of the image and are large enough |
| `InodesLieInTheirRegion`, `InodesAreDisjoint` | every inode is inside the table, and no two overlap |
| `InodeIsReadWhereWritten` | reading by block and index and writing by byte offset meet |
| `BitsAreDistinct`, `OneBlockIsIndexed` | numbers and bits correspond; the one block that is read holds a number exactly if it is less than `bits_per_block` |
| `OffsetsFitInt` | with the sizes of ufs.h, an image with bitmaps of one block ends in front of 2^31 bytes |

They rest on `Division` and `DivisionIsUnique`; `BlocksForIsCeiling` is mkfs's way of
rounding up.

`UFSImageProofs` puts them to use in `ImageKeepsItsLength`, `Spec => []FileKeepsItsLength`
of `UFSImage`, for every layout that `LayoutAssumption` and `StructuresAssumption`
allow. The inductive invariant `LengthByStage` says how long the file is after each
pwrite of mkfs, and that a server runs only on a finished file and by the super
block that mkfs wrote. `ZeroingGrowsTheFile` is the step where the file grows; the
calls of a server come down to `CallInside`, each by the theorem about the region it
writes to. It leaves to the run `image` that the calls have their effect inside the file.

### Model-checked only

- `CallReturns`: liveness under fairness, out of the prover's reach, as ENABLED is.
- `AckedSurvives` of `MFSCrash`: it needs the images that a power failure can leave, a
  fold over any part of the dirty writes that keeps the order in each page.
- `CallsHaveTheirEffect` and `FreshImageIsEmptyRoot` of `UFSImage`.

What a RECURSIVE operator computes is out of reach too; no module here has one. The two
folds in use, over a sequence and over a function, are reasoned about by least
counterexamples.

## Not modelled

- What a server does on a super block that file data overwrote, on bitmaps or an
  inode table that a write went astray into, and on an image that a power failure
  tore or that an unfinished mkfs left: anything.
- Images with bitmaps of more than one block: the server leaves its buffer
  there (`OneBlockBitmaps`).
- Which request of `MFSProtocol` is which request of `MFSServer`: a second effect
  of a call is counted there; what it does to the image is a second step of `MFSTree`.
- Numbers wider than an int in a request, name lengths, system-call failures: see
  the notes of the hazards.
- The dead helpers `setZeroToBitMap`, `findParentName`, `offsetToFile`,
  `offsetToDirectory`; drivers, inspectors, experiments, which keep no state.

## Plan

Done: `MFSServer`, its properties, runs and first theorems; `MFSProtocol` and
`MFSCall` with the refinement and its proof; `MFSCrash` over `UFSStore`; `UFSLayout`,
its theorems, `UFSImage` and the length of its file; `MFSTree` and its refinement as a property of two runs.

Proved since: every invariant and action property of `MFSServer`, its refinement of
`MFSTree`, the invariants of `MFSCrash` and its refinement of `MFSServer`,
`SurplusFromFaults` of `MFSProtocol`.

Left, in this order, all of them proofs:

1. `CallsHaveTheirEffect` and `FreshImageIsEmptyRoot` of `UFSImage`, from the theorems of
   `UFSLayoutProofs`: with them the chain of modules is proved from words to names.
2. `AckedSurvives` of `MFSCrash`: an invariant that relates `platter`, `acked` and `dirty`,
   by the page each write goes to.
