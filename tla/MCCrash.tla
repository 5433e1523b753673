------------------------------- MODULE MCCrash -------------------------------
(***************************************************************************)
(* Values for the constants of MFSCrash that a .cfg cannot write.          *)
(***************************************************************************)
EXTENDS MFSCrash

(* A cell of file data, told apart from every entry the server writes.     *)
Text    == {[name |-> "", inum |-> -2]}
NoCells == {}

(* An uninitialised buffer: ones.                                          *)
OnesBlock == [j \in 0 .. BlockSize - 1 |-> [name |-> "", inum |-> -1]]
Ones      == {OnesBlock}

(* Inodes that mkfs leaves, of a type and a size that no handler writes.   *)
NoPointers == {[type |-> 7, size |-> -1, direct |-> [k \in 0 .. DirectPtrs - 1 |-> 0]]}

(* No handler and no property reads the message before, and nothing is     *)
(* said of what follows on a torn image.                                   *)
Image == IF torn THEN <<mode>>
         ELSE <<mode, platter, cache, dirty, todo, acked, writing, cuts, full>>
=============================================================================
