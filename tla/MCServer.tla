------------------------------ MODULE MCServer ------------------------------
(***************************************************************************)
(* Values for the constants of MFSServer that a .cfg cannot write.         *)
(***************************************************************************)
EXTENDS MFSServerTree, TLC

(* Cells of file data, told apart from every entry the server writes; the  *)
(* last of them has a NUL byte, and the heap behind it holds the first.    *)
TextA    == Entry("", -2)
TextB    == Entry("", -3)
TextNul  == Entry("", -4)
Text     == {TextA}
AllTexts == {TextA, TextB, TextNul}
NulText  == {TextNul}

(* A buffer of 0xff bytes, as an exhausted server was seen to write, and   *)
(* one of zeros.                                                           *)
OnesBlock  == [j \in Slots |-> Entry("", -1)]
ZeroBlock  == [j \in Slots |-> ZeroCell]
OnesOrZero == {OnesBlock, ZeroBlock}

NoCells == {}

(* A block number that was never set: the root's block, one in the inode   *)
(* table, the super block's, one behind the data region.                   *)
AnyNumber == {0, -1, -DataRegionAddr, NumData}

(* Inodes that mkfs may leave, of a type and a size that no handler        *)
(* writes: without pointers, or with pointers that are a hole of the other *)
(* kind, lead to a data block, to the inode table or behind the data       *)
(* region.                                                                 *)
Leftover(p) == [type |-> 7, size |-> -1, direct |-> [k \in Ptrs |-> p]]
NoPointers  == {Leftover(0)}
ToDataBlock == {Leftover(DataRegionAddr + 2)}
AnyPointers == {Leftover(p) : p \in {0, -1, DataRegionAddr + 3, DataRegionAddr - 1,
                                    DataRegionAddr + NumData}}

(* No handler reads the message before: what a run that says VIEW explores *)
(* is every image, and its action properties are checked on every request  *)
(* in every image.  Such a run states nothing about the unprimed m.        *)
Image == <<mode, disk>>

AnyNames == Permutations(Names)
=============================================================================
