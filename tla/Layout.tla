------------------------------- MODULE Layout -------------------------------
(***************************************************************************)
(* The on-disk layout of an fsfs image: inode blocks, data blocks and      *)
(* indirect blocks, and the arithmetic that relates a file's length to the *)
(* number of blocks it occupies.                                           *)
(*                                                                         *)
(* The unit of data is the 32-bit word, the size of a block pointer: a     *)
(* block is BlockSize words, and offsets and lengths are counted in words. *)
(* A word of a data block, a pointer of an inode and a pointer of an       *)
(* indirect block are all elements of Words, because the program reads one *)
(* as another: a recycled data block may become an indirect block with its *)
(* old words still in place.                                               *)
(***************************************************************************)
EXTENDS Integers, Sequences

CONSTANTS
  NInodes,     \* MB.n_inode_blocks, which is also the number of inodes
  NData,       \* MB.n_data_blocks
  BlockSize,   \* words in a block: get_n_addreses_in_block()
  NDirect,     \* meta_n_direct_ptrs
  CutBlocks,   \* data blocks the image has lost since it was formatted
  Words,       \* the words a block can hold
  HeapWords    \* the words that memory outside a buffer may happen to hold

Null    == -1                \* fs_nullptr, 0xFFFFFFFF as an int32_t
InodeNs == 0 .. NInodes - 1
DataNs  == 0 .. NData - 1

(* A host that cuts the image off behind whole blocks leaves the super     *)
(* block, and so the numbers a call accepts, as they were: a transfer of a *)
(* block that is gone throws.  Here the last block alone may be gone; what *)
(* else happens to the stream when more are is the matter of Disk.         *)
StoredNs == DataNs \ CutBlocks

ASSUME LayoutAssumption ==
  /\ NInodes \in Nat \ {0}
  /\ NData \in Nat \ {0}
  /\ BlockSize \in Nat \ {0, 1}
  /\ NDirect \in Nat \ {0}
  /\ CutBlocks \subseteq {NData - 1}
  /\ Words \subseteq Int
  /\ DataNs \cup {Null} \subseteq Words
  /\ HeapWords \subseteq Words

Slots     == 0 .. BlockSize - 1
Block     == [Slots -> Words]
ZeroBlock == [k \in Slots |-> 0]

InodeBlock == [status             : {"Free", "Used"},
               file_len           : Nat,
               direct_ptr         : [0 .. NDirect - 1 -> Words],
               indirect_inode_ptr : Words]

(* An inode whose 64 bytes are all zero: a fresh image, a cleared object.  *)
ZeroInode == [status             |-> "Free",
              file_len           |-> 0,
              direct_ptr         |-> [k \in 0 .. NDirect - 1 |-> 0],
              indirect_inode_ptr |-> 0]

(* The inode that alloc_new prepares for a new, empty file.                *)
NewInode == [status             |-> "Used",
             file_len           |-> 0,
             direct_ptr         |-> [k \in 0 .. NDirect - 1 |-> Null],
             indirect_inode_ptr |-> Null]

Smaller(a, b) == IF a <= b THEN a ELSE b

(* Blocks that hold len words; a negative length counts as zero.           *)
BytesToBlocks(len) ==
  IF len <= 0 THEN 0
  ELSE len \div BlockSize + (IF len % BlockSize = 0 THEN 0 ELSE 1)

(* Pointers in an indirect block; its last word links to the next one.     *)
PtrsPerIndirect == BlockSize - 1
LinkSlot        == BlockSize - 1

NIndirectPtrs(ino) == BytesToBlocks(ino.file_len) - NDirect
HasMoreIndirect(ino) == NIndirectPtrs(ino) > 1 /\ ino.indirect_inode_ptr # Null  \* mutant
HasIndirect(ino)   == NIndirectPtrs(ino) > 0 /\ ino.indirect_inode_ptr # Null

(* Block blk with words written over it from slot at on.                   *)
PatchFromStart(blk, at, words) ==                                \* mutant
  [k \in Slots |-> IF k < Len(words) THEN words[k + 1] ELSE blk[k]]
Patch(blk, at, words) ==
  [k \in Slots |-> IF at <= k /\ k < at + Len(words) THEN words[k - at + 1]
                   ELSE blk[k]]
=============================================================================
