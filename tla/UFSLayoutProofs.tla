--------------------------- MODULE UFSLayoutProofs ---------------------------
(***************************************************************************)
(* For every size that mkfs is given: its regions hold what they are for   *)
(* and fill the image, and the arithmetic of server.c finds distinct       *)
(* things in distinct places of their region.                              *)
(***************************************************************************)
EXTENDS UFSLayout, TLAPS

AllInums == 0 .. NumInodes - 1
-----------------------------------------------------------------------------
(***************************************************************************)
(* Division.                                                               *)
(***************************************************************************)
LEMMA Division ==
    ASSUME NEW n \in Nat, NEW d \in Nat \ {0}
    PROVE  /\ n \div d \in Nat
           /\ n % d \in 0 .. d - 1
           /\ n = d * (n \div d) + (n % d)
  OBVIOUS

LEMMA DivisionIsUnique ==
    ASSUME NEW n \in Nat, NEW d \in Nat \ {0},
           NEW q \in Nat, NEW r \in 0 .. d - 1, n = d * q + r
    PROVE  n \div d = q /\ n % d = r
  OBVIOUS

LEMMA TimesIsMonotone ==
    ASSUME NEW d \in Nat, NEW a \in Nat, NEW b \in Nat, a <= b
    PROVE  a * d <= b * d
  OBVIOUS

(* The blocks that mkfs counts are enough, and none of them is empty.      *)
LEMMA BlocksForIsCeiling ==
    ASSUME NEW n \in Nat, NEW d \in Nat \ {0}
    PROVE  /\ BlocksFor(n, d) \in Nat
           /\ n <= BlocksFor(n, d) * d
           /\ BlocksFor(n, d) * d < n + d
<1> DEFINE q == n \div d
           r == n % d
<1>1. q \in Nat /\ r \in 0 .. d - 1 /\ n = d * q + r
  BY Division
<1>2. BlocksFor(n, d) = q + (IF r # 0 THEN 1 ELSE 0)
  BY DEF BlocksFor
<1> HIDE DEF q, r
<1>3. CASE r = 0
  BY <1>1, <1>2, <1>3
<1>4. CASE r # 0
  BY <1>1, <1>2, <1>4
<1> QED
  BY <1>3, <1>4

LEMMA LayoutTypes ==
    /\ bits_per_block \in Nat \ {0}
    /\ inode_bitmap_addr = 1
    /\ inode_bitmap_len \in Nat /\ data_bitmap_len \in Nat
    /\ inode_region_len \in Nat /\ data_region_len \in Nat
    /\ data_bitmap_addr \in Nat /\ inode_region_addr \in Nat /\ data_region_addr \in Nat
    /\ NumInodes * InodeWords \in Nat
<1>1. bits_per_block \in Nat \ {0} /\ NumInodes * InodeWords \in Nat
  BY LayoutAssumption DEF bits_per_block
<1>2. inode_bitmap_len \in Nat /\ data_bitmap_len \in Nat /\ inode_region_len \in Nat
  BY <1>1, LayoutAssumption, BlocksForIsCeiling
  DEF inode_bitmap_len, data_bitmap_len, inode_region_len
<1> QED
  BY <1>1, <1>2, LayoutAssumption
  DEF inode_bitmap_addr, data_bitmap_addr, inode_region_addr, data_region_addr,
      data_region_len
-----------------------------------------------------------------------------
(* mkfs.c:65-94: the regions begin behind the super block, none is empty,  *)
(* they end with the image, and each is large enough for what it holds.    *)
THEOREM RegionsFillTheImage ==
    /\ 0 < inode_bitmap_addr
    /\ inode_bitmap_addr < data_bitmap_addr
    /\ data_bitmap_addr < inode_region_addr
    /\ inode_region_addr < data_region_addr
    /\ data_region_addr < total_blocks
    /\ total_blocks = data_region_addr + data_region_len
    /\ NumInodes <= inode_bitmap_len * bits_per_block
    /\ NumData <= data_bitmap_len * bits_per_block
    /\ NumInodes * InodeWords <= inode_region_len * BlockWords
<1>1. /\ NumInodes <= inode_bitmap_len * bits_per_block
      /\ NumData <= data_bitmap_len * bits_per_block
      /\ NumInodes * InodeWords <= inode_region_len * BlockWords
  BY LayoutTypes, LayoutAssumption, BlocksForIsCeiling
  DEF inode_bitmap_len, data_bitmap_len, inode_region_len
<1>2. NumInodes * InodeWords > 0
  BY LayoutAssumption
<1>3. inode_bitmap_len > 0 /\ data_bitmap_len > 0 /\ inode_region_len > 0
  BY <1>1, <1>2, LayoutTypes, LayoutAssumption
<1>4. total_blocks = data_region_addr + data_region_len
  BY LayoutTypes
  DEF total_blocks, data_bitmap_addr, inode_region_addr, data_region_addr
<1> QED
  BY <1>1, <1>3, <1>4, LayoutTypes, LayoutAssumption
  DEF data_bitmap_addr, inode_region_addr, data_region_addr, data_region_len

(* Where addInodeToInodeTable puts an inode: the table is an array.        *)
LEMMA InodeTableIsArray ==
    ASSUME NEW i \in Nat, NEW region \in Nat
    PROVE  InodeWriteOffset(region, i) = region * BlockWords + i * InodeWords
<1>1. i * InodeWords \in Nat /\ InodeBlock(i) \in Nat
  BY LayoutAssumption, Division DEF InodeBlock
<1> QED
  BY <1>1, LayoutAssumption DEF InodeWriteOffset, BlockOffset

(* server.c:149-163 and 360-384: reading an inode and writing it go by two *)
(* different computations, and arrive at the same place.                   *)
THEOREM InodeIsReadWhereWritten ==
    ASSUME NEW i \in Nat, NEW region \in Nat
    PROVE  InodeReadOffset(region, i) = InodeWriteOffset(region, i)
<1> DEFINE K == BlockWords \div InodeWords
           n == i * InodeWords
           q == n \div BlockWords
           r == n % BlockWords
<1>1. K \in Nat /\ BlockWords = InodeWords * K
  BY LayoutAssumption, Division
<1>2. n \in Nat
  BY LayoutAssumption
<1>3. q \in Nat /\ r \in 0 .. BlockWords - 1 /\ n = BlockWords * q + r
  BY <1>2, LayoutAssumption, Division
<1>4. InodeBlock(i) = q
  BY DEF InodeBlock
<1>5. n - q * BlockWords = r
  BY <1>2, <1>3, LayoutAssumption
<1>6. r = InodeWords * (i - q * K)
  <2>1. q * BlockWords = InodeWords * (q * K)
    BY <1>1, <1>3, LayoutAssumption
  <2> QED
    BY <2>1, <1>1, <1>3, <1>5, LayoutAssumption
<1>7. i - q * K \in Nat
  <2> HIDE DEF K, q, r
  <2> SUFFICES ASSUME i - q * K < 0
               PROVE  FALSE
    BY <1>1, <1>3
  <2> QED
    BY <1>1, <1>3, <1>6, LayoutAssumption
<1>8. r \div InodeWords = i - q * K
  <2> DEFINE p == i - q * K
  <2>1. p \in Nat /\ r = InodeWords * p + 0 /\ r \in Nat
    BY <1>3, <1>6, <1>7, LayoutAssumption
  <2> HIDE DEF p, r
  <2>2. r \div InodeWords = p
    BY <2>1, DivisionIsUnique, LayoutAssumption
  <2> QED
    BY <2>2 DEF p
<1>9. InodeIndex(i) * InodeWords = r
  BY <1>1, <1>3, <1>4, <1>5, <1>6, <1>7, <1>8, LayoutAssumption DEF InodeIndex
<1> QED
  BY <1>4, <1>5, <1>9 DEF InodeReadOffset, InodeWriteOffset

(* Every inode that mkfs was asked for lies in the inode table as a whole, *)
(* in front of the data region.                                            *)
THEOREM InodesLieInTheirRegion ==
    ASSUME NEW i \in AllInums
    PROVE  /\ BlockOffset(inode_region_addr) <= InodeWriteOffset(inode_region_addr, i)
           /\ InodeWriteOffset(inode_region_addr, i) + InodeWords
                <= BlockOffset(data_region_addr)
<1>1. i \in Nat /\ i + 1 <= NumInodes
  BY LayoutAssumption DEF AllInums
<1>2. (i + 1) * InodeWords <= NumInodes * InodeWords
  BY <1>1, TimesIsMonotone, LayoutAssumption
<1>3. (i + 1) * InodeWords = i * InodeWords + InodeWords
  BY <1>1, LayoutAssumption
<1>4. i * InodeWords \in Nat
  BY <1>1, LayoutAssumption
<1>5. InodeWriteOffset(inode_region_addr, i)
        = inode_region_addr * BlockWords + i * InodeWords
  BY <1>1, InodeTableIsArray, LayoutTypes
<1>6. data_region_addr * BlockWords
        = inode_region_addr * BlockWords + inode_region_len * BlockWords
  BY LayoutTypes, LayoutAssumption DEF data_region_addr
<1>7. inode_region_addr * BlockWords \in Nat /\ inode_region_len * BlockWords \in Nat
  BY LayoutTypes, LayoutAssumption
<1> QED
  BY <1>2, <1>3, <1>4, <1>5, <1>6, <1>7, RegionsFillTheImage, LayoutTypes,
     LayoutAssumption
  DEF BlockOffset

(* Writing one inode changes no other, whichever blocks they lie in.       *)
THEOREM InodesAreDisjoint ==
    ASSUME NEW i \in AllInums, NEW j \in AllInums, i < j
    PROVE  InodeWriteOffset(inode_region_addr, i) + InodeWords
             <= InodeWriteOffset(inode_region_addr, j)
<1>1. i \in Nat /\ j \in Nat /\ i + 1 <= j
  BY LayoutAssumption DEF AllInums
<1>2. (i + 1) * InodeWords <= j * InodeWords
  BY <1>1, TimesIsMonotone, LayoutAssumption
<1>3. (i + 1) * InodeWords = i * InodeWords + InodeWords
  BY <1>1, LayoutAssumption
<1>4. /\ InodeWriteOffset(inode_region_addr, i)
           = inode_region_addr * BlockWords + i * InodeWords
      /\ InodeWriteOffset(inode_region_addr, j)
           = inode_region_addr * BlockWords + j * InodeWords
  BY <1>1, InodeTableIsArray, LayoutTypes
<1>5. /\ i * InodeWords \in Nat /\ j * InodeWords \in Nat /\ InodeWords \in Nat
      /\ inode_region_addr * BlockWords \in Nat
  BY <1>1, LayoutTypes, LayoutAssumption
<1> QED
  BY <1>2, <1>3, <1>4, <1>5

(* get_bit and set_bit_to_one, server.c:48-65: two numbers share a bit of  *)
(* a bitmap only if they are equal.                                        *)
THEOREM BitsAreDistinct ==
    ASSUME NEW x \in Nat, NEW y \in Nat,
           WordOf(x) = WordOf(y), ShiftOf(x) = ShiftOf(y)
    PROVE  x = y
<1>1. WordBits \in Nat \ {0}
  BY LayoutAssumption
<1>2. /\ x = WordBits * (x \div WordBits) + (x % WordBits)
      /\ x % WordBits \in 0 .. WordBits - 1
  BY <1>1, Division
<1>3. /\ y = WordBits * (y \div WordBits) + (y % WordBits)
      /\ y % WordBits \in 0 .. WordBits - 1
  BY <1>1, Division
<1>4. x % WordBits = y % WordBits
  BY <1>1, <1>2, <1>3 DEF ShiftOf
<1>5. x \div WordBits = y \div WordBits
  BY DEF WordOf
<1> QED
  BY <1>2, <1>3, <1>4, <1>5

(* The handlers read one block of a bitmap and index it with any number:   *)
(* they stay inside just as long as one block is all the bitmap there is.  *)
THEOREM OneBlockIsIndexed ==
    ASSUME NEW x \in Nat
    PROVE  /\ ShiftOf(x) \in 0 .. WordBits - 1
           /\ WordOf(x) < BlockWords <=> x < bits_per_block
<1> DEFINE q == x \div WordBits
           r == x % WordBits
<1>1. q \in Nat /\ r \in 0 .. WordBits - 1 /\ x = WordBits * q + r
  BY Division, LayoutAssumption
<1>2. ShiftOf(x) \in 0 .. WordBits - 1
  BY <1>1, LayoutAssumption DEF ShiftOf
<1>3. WordOf(x) = q
  BY DEF WordOf
<1> HIDE DEF q, r
<1>4. q < BlockWords => x < WordBits * BlockWords
  <2> SUFFICES ASSUME q + 1 <= BlockWords
               PROVE  x < WordBits * BlockWords
    BY <1>1, LayoutAssumption
  <2>1. (q + 1) * WordBits <= BlockWords * WordBits
    BY <1>1, TimesIsMonotone, LayoutAssumption
  <2> QED
    BY <2>1, <1>1, LayoutAssumption
<1>5. q >= BlockWords => x >= WordBits * BlockWords
  <2> SUFFICES ASSUME BlockWords <= q
               PROVE  x >= WordBits * BlockWords
    OBVIOUS
  <2>1. BlockWords * WordBits <= q * WordBits
    BY <1>1, TimesIsMonotone, LayoutAssumption
  <2> QED
    BY <2>1, <1>1, LayoutAssumption
<1> QED
  BY <1>1, <1>2, <1>3, <1>4, <1>5, LayoutAssumption DEF bits_per_block

(* The offsets that server.c computes are ints.  With the sizes of ufs.h   *)
(* and bitmaps of one block none of them overflows: the largest image that *)
(* the server can index ends in front of 2^31 bytes.                       *)
THEOREM OffsetsFitInt ==
    ASSUME BlockWords = 1024, InodeWords = 32, WordBits = 32,
           NumInodes <= bits_per_block, NumData <= bits_per_block
    PROVE  4 * (total_blocks * BlockWords) < 2147483648
<1>1. bits_per_block = 32768
  BY DEF bits_per_block
<1>2. inode_bitmap_len * 32768 < NumInodes + 32768
  BY <1>1, LayoutAssumption, BlocksForIsCeiling DEF inode_bitmap_len
<1>3. data_bitmap_len * 32768 < NumData + 32768
  BY <1>1, LayoutAssumption, BlocksForIsCeiling DEF data_bitmap_len
<1>4. inode_region_len * 1024 < NumInodes * 32 + 1024
  BY LayoutTypes, LayoutAssumption, BlocksForIsCeiling DEF inode_region_len
<1> QED
  BY <1>1, <1>2, <1>3, <1>4, LayoutTypes, LayoutAssumption
  DEF total_blocks, data_region_len
=============================================================================
