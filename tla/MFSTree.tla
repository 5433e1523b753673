------------------------------- MODULE MFSTree -------------------------------
(***************************************************************************)
(* What a program may expect of the file server while blocks last: a tree  *)
(* of directories whose names keep their meaning, and files that are read  *)
(* as they were written.  There are no blocks, bitmaps or pointers here,   *)
(* and no restart: a server that is stopped and started is the same tree.  *)
(*                                                                         *)
(* The promises are those the code keeps, not all that its comments make:  *)
(* a directory has room for few names, a write may extend a file only.     *)
(***************************************************************************)
EXTENDS Integers

CONSTANTS Inums, ReqInums, Names, CreatTypes, Payload, Offsets, Lengths,
          NulCells, HeapCells, ZeroCell, BlockSize, DirectPtrs, Unset

VARIABLES
    kind,       \* MFS_DIRECTORY or MFS_REGULAR_FILE of each inode in use
    names,      \* the inodes that the names of a directory stand for
    room,       \* how many more names a directory can take
    text,       \* the cells of a file; not every position of a file has one
    reply       \* the last answer, with what was asked

tree == <<kind, names, room, text>>
vars == <<tree, reply>>

MFS_DIRECTORY    == 0
MFS_REGULAR_FILE == 1

Dirs  == DOMAIN names
Files == DOMAIN text

FileEnd      == DirectPtrs * BlockSize
BlockOf(pos) == {p \in 0 .. FileEnd - 1 : p \div BlockSize = pos \div BlockSize}

(* f with y for x, unless it has a value there.                            *)
Adding(f, x, y) == [z \in DOMAIN f \cup {x} |-> IF z \in DOMAIN f THEN f[z] ELSE y]
Dots(i, parent) == [name \in {".", ".."} |-> IF name = "." THEN i ELSE parent]

Init ==
    /\ kind = [i \in {0} |-> MFS_DIRECTORY]
    /\ names = [d \in {0} |-> Dots(0, 0)]
    /\ room = [d \in {0} |-> BlockSize - 2]
    /\ text = <<>>
    /\ reply = [mtype |-> "INIT", rc |-> 0]
-----------------------------------------------------------------------------
Answers(mtype, i) == reply'.mtype = mtype /\ reply'.inum = i

(* A name stands for the same inode for ever.  What the answer says of a   *)
(* name that stands for none is open, but that it is not an inode.         *)
Lookup(d, name) ==
    /\ Answers("LOOKUP", d)
    /\ \/ /\ d \in Dirs /\ name \in DOMAIN names[d]
          /\ reply' = [mtype |-> "LOOKUP", inum |-> d, name |-> name,
                       rc |-> 0, found |-> names[d][name]]
       \/ /\ d \notin Dirs \/ name \notin DOMAIN names[d]
          /\ \E found \in {Unset, -1} :
               reply' = [mtype |-> "LOOKUP", inum |-> d, name |-> name,
                         rc |-> IF d \in Dirs THEN 0 ELSE -1, found |-> found]
    /\ UNCHANGED tree

(* The size that the answer gives is open: see SizeCoversBlocks.           *)
Stat(i) ==
    /\ Answers("STAT", i)
    /\ \/ i \in DOMAIN kind /\ reply'.rc = 0 /\ reply'.type = kind[i]
       \/ i \notin DOMAIN kind /\ reply'.rc = -1
    /\ UNCHANGED tree

(* The positions that a request needs: its first, and the one behind its   *)
(* last, which may lie behind the end of every file.                       *)
Edges(offset, nbytes) == {offset, offset + nbytes}

(* A read answers with the file's cells.  That of a directory is open.     *)
Read(i, offset, nbytes) ==
    LET answer(rc, buffer) == [mtype |-> "READ", inum |-> i, offset |-> offset,
                               nbytes |-> nbytes, rc |-> rc, buffer |-> buffer]
    IN
    /\ Answers("READ", i)
    /\ \/ i \in Dirs
       \/ /\ i \notin Dirs
          /\ i \notin Files \/ ~(Edges(offset, nbytes) \subseteq DOMAIN text[i])
          /\ reply' = answer(-1, Unset)
       \/ /\ i \in Files
          /\ offset + nbytes <= FileEnd
          /\ Edges(offset, nbytes) \subseteq DOMAIN text[i] \cup {FileEnd}
          /\ offset # FileEnd
          /\ reply' = answer(0, [z \in 0 .. nbytes - 1 |-> text[i][offset + z]])
    /\ UNCHANGED tree

(* The buffer up to its first NUL, then anything.                          *)
Sent(buf, nbytes) ==
    {dup \in [0 .. nbytes - 1 -> Payload \cup HeapCells] :
        \A z \in 0 .. nbytes - 1 :
           (\A y \in 0 .. z : buf[y] \notin NulCells) => dup[z] = buf[z]}

(* A write gives the file the blocks of its edges, of zeros, if they were  *)
(* not there.  It puts the buffer into them, unless it lies inside a block *)
(* that was not there: then it is lost.                                    *)
Write(i, offset, nbytes, buf) ==
    /\ Answers("WRITE", i)
    /\ \/ /\ i \in Files /\ offset + nbytes <= FileEnd /\ offset # FileEnd
          /\ LET old    == text[i]
                 blocks == DOMAIN old \cup UNION {BlockOf(e) : e \in Edges(offset, nbytes)}
                 grown  == [p \in blocks |-> IF p \in DOMAIN old THEN old[p] ELSE ZeroCell]
                 range  == offset .. offset + nbytes - 1
                 inside == offset + nbytes \in BlockOf(offset)
             IN  \/ /\ offset \in DOMAIN old \/ ~inside
                    /\ \E dup \in Sent(buf, nbytes) :
                         text' = [text EXCEPT ![i] =
                           [p \in blocks |-> IF p \in range THEN dup[p - offset]
                                             ELSE grown[p]]]
                 \/ /\ offset \notin DOMAIN old /\ inside
                    /\ text' = [text EXCEPT ![i] = grown]
          /\ reply' = [mtype |-> "WRITE", inum |-> i, offset |-> offset,
                       nbytes |-> nbytes, buffer |-> buf, rc |-> 0]
       \/ /\ i \notin Files \/ offset + nbytes > FileEnd \/ offset = FileEnd
          /\ reply' = [mtype |-> "WRITE", inum |-> i, offset |-> offset,
                       nbytes |-> nbytes, buffer |-> buf, rc |-> -1]
          /\ UNCHANGED text
    /\ UNCHANGED <<kind, names, room>>

(* A create makes an inode that was not in use: a file with a block of     *)
(* zeros, or a directory without room.  It enters the name if there is     *)
(* room for one more, and leaves it to what it stood for before.           *)
Creat(d, type, name) ==
    LET answer(rc) == [mtype |-> "CRET", inum |-> d, ftype |-> type, name |-> name,
                       rc |-> rc]
    IN
    /\ Answers("CRET", d)
    /\ \/ \E i \in Inums \ DOMAIN kind :
          /\ d \in Dirs
          /\ LET linked == [names EXCEPT ![d] =
                              IF room[d] > 0 THEN Adding(@, name, i) ELSE @]
                 left   == [room EXCEPT ![d] = IF @ > 0 THEN @ - 1 ELSE 0]
             IN  \/ /\ type = MFS_DIRECTORY
                    /\ kind' = Adding(kind, i, MFS_DIRECTORY)
                    /\ names' = Adding(linked, i, Dots(i, d))
                    /\ room' = Adding(left, i, 0)
                    /\ UNCHANGED text
                 \/ /\ type # MFS_DIRECTORY
                    /\ kind' = Adding(kind, i, MFS_REGULAR_FILE)
                    /\ names' = linked
                    /\ room' = left
                    /\ text' = Adding(text, i, [p \in BlockOf(0) |-> ZeroCell])
          /\ reply' = answer(0)
       \/ /\ d \notin Dirs \/ DOMAIN kind = Inums
          /\ reply' = answer(-1)
          /\ UNCHANGED tree

Unlink(d, name) ==
    /\ Answers("UNLINK", d)
    /\ \E rc \in {0, -1} :
         reply' = [mtype |-> "UNLINK", inum |-> d, name |-> name, rc |-> rc]
    /\ UNCHANGED tree

Next ==
    \E i \in ReqInums :
      \/ Stat(i)
      \/ \E name \in Names : Lookup(i, name) \/ Unlink(i, name)
      \/ \E name \in Names, type \in CreatTypes : Creat(i, type, name)
      \/ \E offset \in Offsets, nbytes \in Lengths :
           \/ Read(i, offset, nbytes)
           \/ \E buf \in [0 .. nbytes - 1 -> Payload] : Write(i, offset, nbytes, buf)

Spec == Init /\ [][Next]_vars
=============================================================================
