------------------------------ MODULE UFSLayout ------------------------------
(***************************************************************************)
(* Where things lie in an image: the regions that mkfs.c lays out for the  *)
(* sizes on its command line, and the arithmetic by which server.c finds a *)
(* bit, an inode and a block in them.                                      *)
(*                                                                         *)
(* The unit of space is the word of a bitmap, sizeof(unsigned int); every  *)
(* structure of ufs.h is a whole number of words.                          *)
(***************************************************************************)
EXTENDS Integers

CONSTANTS
    NumInodes,      \* mkfs -i
    NumData,        \* mkfs -d
    BlockWords,     \* UFS_BLOCK_SIZE; 1024 words in the code
    InodeWords,     \* sizeof(inode_t); 32 words
    WordBits        \* 8 * sizeof(unsigned int); 32

ASSUME LayoutAssumption ==
    /\ NumInodes \in Nat \ {0}
    /\ NumData \in Nat \ {0}
    /\ BlockWords \in Nat \ {0}
    /\ InodeWords \in Nat \ {0}
    /\ WordBits \in Nat \ {0}
    /\ BlockWords % InodeWords = 0
-----------------------------------------------------------------------------
(***************************************************************************)
(* mkfs.c                                                                  *)
(***************************************************************************)
bits_per_block == WordBits * BlockWords

BlocksFor_Floor(n, perBlock) == n \div perBlock     \* mutant: no block for the rest

(* The blocks that hold n things of which perBlock fit into one.           *)
BlocksFor(n, perBlock) ==
    n \div perBlock + (IF n % perBlock # 0 THEN 1 ELSE 0)

inode_bitmap_addr == 1
inode_bitmap_len  == BlocksFor(NumInodes, bits_per_block)
data_bitmap_addr  == inode_bitmap_addr + inode_bitmap_len
data_bitmap_len   == BlocksFor(NumData, bits_per_block)
inode_region_addr == data_bitmap_addr + data_bitmap_len
inode_region_len  == BlocksFor(NumInodes * InodeWords, BlockWords)
data_region_addr  == inode_region_addr + inode_region_len
data_region_len   == NumData

total_blocks == 1 + inode_bitmap_len + data_bitmap_len + inode_region_len
                  + data_region_len
-----------------------------------------------------------------------------
(***************************************************************************)
(* server.c.  Regions are those of the super block it read at its start.   *)
(***************************************************************************)
BlockOffset(block) == block * BlockWords

ShiftOf_FromRight(position) == position % WordBits   \* mutant: numbered from the right

(* get_bit and set_bit_to_one: the word of a bit, and how far it is from   *)
(* the right end of that word.                                             *)
WordOf(position)  == position \div WordBits
ShiftOf(position) == WordBits - 1 - (position % WordBits)

(* The block of the inode table that holds an inode.                       *)
InodeBlock(inum) == (inum * InodeWords) \div BlockWords

(* getInodeCopyFromInodeTable reads that block and takes one of its inodes.*)
InodeIndex(inum) ==
    (inum * InodeWords - InodeBlock(inum) * BlockWords) \div InodeWords
InodeReadOffset(region, inum) ==
    BlockOffset(region + InodeBlock(inum)) + InodeIndex(inum) * InodeWords

(* Mutant: the offset is that of the table's beginning.                    *)
InodeWriteOffset_FirstBlock(region, inum) ==
    BlockOffset(region) + (inum * InodeWords - InodeBlock(inum) * BlockWords)

(* addInodeToInodeTable seeks to the inode itself.                         *)
InodeWriteOffset(region, inum) ==
    BlockOffset(region + InodeBlock(inum))
      + (inum * InodeWords - InodeBlock(inum) * BlockWords)
=============================================================================
