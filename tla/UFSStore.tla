------------------------------ MODULE UFSStore ------------------------------
(***************************************************************************)
(* An image as the handlers of server.c think of it, two sets of numbers   *)
(* and two tables, and what each call that writes to it is for.  MFSCrash  *)
(* puts the handlers together from these calls; UFSImage makes the calls   *)
(* with the offsets and bit positions that the code computes.              *)
(***************************************************************************)

(* setOneToBitMap, addInodeToInodeTable, the writes to a data block (whole *)
(* or in part), one of these that goes to a block in front of them, fsync. *)
InodeBit(i)      == [to |-> "inodeBitmap", at |-> i]
DataBit(b)       == [to |-> "dataBitmap", at |-> b]
PutInode(i, ino) == [to |-> "inodeTable", at |-> i, what |-> ino]
PutCells(b, c)   == [to |-> "dataRegion", at |-> b, what |-> c]
PutFront(addr)   == [to |-> "front", at |-> addr]
Fsync            == [to |-> "disk"]

(* Cells over those of a block, and the image after a call.                *)
Over(cells, block) == [j \in DOMAIN block \cup DOMAIN cells |->
                         IF j \in DOMAIN cells THEN cells[j] ELSE block[j]]

Effect(img, call) ==
    CASE call.to = "inodeBitmap" -> [img EXCEPT !.inodeBitmap = @ \cup {call.at}]
      [] call.to = "dataBitmap"  -> [img EXCEPT !.dataBitmap = @ \cup {call.at}]
      [] call.to = "inodeTable"  -> [img EXCEPT !.inodeTable[call.at] = call.what]
      [] call.to = "dataRegion"  -> [img EXCEPT !.dataRegion[call.at] = Over(call.what, @)]
      [] call.to = "front"       -> [img EXCEPT !.frontIntact = FALSE]
      [] call.to = "disk"        -> img
=============================================================================
