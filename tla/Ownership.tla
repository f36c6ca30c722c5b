----------------------------- MODULE Ownership ------------------------------
(***************************************************************************)
(* What the image means: which blocks an inode owns and which words its    *)
(* file holds, the invariants that tie the image, the bitmaps and the      *)
(* inode object together, and the refinement of FileStore.                 *)
(*                                                                         *)
(* The code keeps these only for callers that stay away from certain       *)
(* calls; the disciplines at the end say from which, and module Misuse     *)
(* shows what happens without each part of them.                           *)
(***************************************************************************)
EXTENDS FileSystem, FiniteSets

(* The chain of indirect blocks, first one first, that an inode's length   *)
(* calls for, and the pointers to its data blocks.                         *)
NChain(ino) == IF HasIndirect(ino)
               THEN (NIndirectPtrs(ino) - 1) \div PtrsPerIndirect + 1 ELSE 0

Chain(ino) ==
  LET link[k \in 1 .. NChain(ino)] ==
        IF k = 1 THEN ino.indirect_inode_ptr
        ELSE IF link[k - 1] \in DataNs THEN blocks[link[k - 1]][LinkSlot]
        ELSE Null
  IN  link

IndirectPtr(chain, k) ==
  LET b == chain[k \div PtrsPerIndirect + 1]
  IN  IF b \in DataNs THEN blocks[b][k % PtrsPerIndirect] ELSE Null

Ptrs(ino) ==
  LET chain == Chain(ino)
  IN  [i \in 1 .. BytesToBlocks(ino.file_len) |->
         IF i <= NDirect THEN ino.direct_ptr[i - 1]
         ELSE IF HasIndirect(ino) THEN IndirectPtr(chain, i - 1 - NDirect)
         ELSE Null]

(* The blocks inode n owns, in its data slots and in its chain.            *)
Owned(n)    == Ptrs(inodes[n]) \o Chain(inodes[n])
UsedInodes  == {n \in InodeNs : inodes[n].status = "Used"}
OwnedBlocks == UNION {LET owned == Owned(n) IN {owned[i] : i \in DOMAIN owned} :
                        n \in UsedInodes}

FileWords(n) ==
  LET owned == Owned(n)
      Word(k) == LET b == owned[k \div BlockSize + 1]
                 IN  IF b \in DataNs THEN blocks[b][k % BlockSize] ELSE Null
  IN  [k \in 1 .. inodes[n].file_len |-> Word(k - 1)]

-----------------------------------------------------------------------------
(* At every step, and so after a crash at any step: no pointer of a used   *)
(* inode is dangling, and no block is in two files, twice in one file, or  *)
(* both a data block and an indirect block.                                *)
NoSharing ==
  \A n, m \in UsedInodes :
    LET of_n == Owned(n)
        of_m == Owned(m)
    IN  \A i \in DOMAIN of_n, j \in DOMAIN of_m :
          /\ of_n[i] \in DataNs
          /\ of_n[i] = of_m[j] => n = m /\ i = j

(* Between two calls the bitmaps that next_free allocates from agree with  *)
(* the image: no inode or block in use is free for allocation ...          *)
BitmapsSafe ==
  pc = "idle" => inode_bitmap = UsedInodes /\ OwnedBlocks \subseteq data_bitmap

(* ... and no block is marked used that no file owns.                      *)
NoLeak == pc = "idle" => data_bitmap \subseteq OwnedBlocks

(* Between two calls the inode object, which load() leaves as it is when   *)
(* it already holds the inode, agrees with the image, down to the list of  *)
(* indirect pointers and the chain (which grows at its head).              *)
ObjectCoherent ==
  pc = "idle" /\ loaded_inode_n # Null =>
    LET ino == inodes[loaded_inode_n] IN
    /\ inode = ino
    /\ inode_buf = ino
    /\ HasIndirect(ino) =>
         /\ indirect_ptrs_list = SubSeq(Ptrs(ino), NDirect + 1,
                                        BytesToBlocks(ino.file_len))
         /\ indirect_block_n = [k \in 1 .. NChain(ino) |->
                                  Chain(ino)[NChain(ino) + 1 - k]]

(* What a call finds in the inode object is the inode it was called for,   *)
(* as it is on the image, from its load to its commit: never one that an   *)
(* earlier call has changed, loaded in part or left there under another    *)
(* number, and after a removal has freed the inode, the freed one.         *)
CallsHoldTheirInode ==
  pc \in AfterLoad \cup {"mark_indirect", "edit_rest", "tail", "store"} =>
    loaded_inode_n = call.inode_n /\ inode = inodes[call.inode_n]

(* commit puts the new pointers behind those the file has, into a list it  *)
(* makes longer by their number: the list must hold the old ones by then,  *)
(* or it is indexed past its end, there and when its words are stored.     *)
ListCoversFile ==
  /\ pc = "fill" => NIndirectPtrs(inode) <= Len(indirect_ptrs_list)
  /\ pc \in {"extend", "extend_store"} =>
       call.i + call.left <= Len(indirect_ptrs_list)

(* A write stores less than it was given only when no block is left.       *)
ShortWriteMeansFull ==
  [][pc = "writeback" /\ call.op = "write" /\ result'.how = "ok" =>
       result'.n = Len(call.data) \/ FreeBlocks = {}]_vars

-----------------------------------------------------------------------------
(* The files, requests and replies of FileStore that a state stands for.   *)
StoreFiles ==
  [n \in InodeNs |-> [present |-> n \in UsedInodes,
                      words   |-> IF n \in UsedInodes THEN FileWords(n)
                                  ELSE <<>>]]

StoreRequest ==
  [op     |-> IF call.op = "none" THEN pc ELSE call.op,
   n      |-> IF call.op \in {"mount", "format"} THEN 0 ELSE call.inode_n,
   offset |-> call.offset, length |-> call.length, data |-> call.data]

Store == INSTANCE FileStore WITH
  Files <- InodeNs, Words <- Words,
  files <- StoreFiles, request <- StoreRequest, reply <- result

(* Seen by its caller, and by whoever mounts the image after a crash, the  *)
(* program behaves as FileStore: writes, reads and removals do what they   *)
(* should to their own file, and nothing to the others.                    *)
ImplementsStore == Store!StoreSpec

-----------------------------------------------------------------------------
(* The calls a discipline speaks about: those that get past their first    *)
(* tests in this step.  The inode is the one on the image.                 *)
Starts(op) == call.op = "none" /\ call'.op = op

Target     == inodes[call'.inode_n]
NEdit      == Smaller(Len(call'.data), call'.offset)
NAppend    == Len(call'.data) - NEdit
NewLen     == Target.file_len + NAppend
EditAt     == Target.file_len - call'.offset
FreeWords  == BytesToBlocks(Target.file_len) * BlockSize - Target.file_len

(* edit_data looks up one pointer per BlockSize of what it edits, besides  *)
(* the first: they must all exist.                                         *)
EditStaysInside ==
  Starts("write") =>
    \/ EditAt < 0 \/ NEdit = 0
    \/ (EditAt % BlockSize) + NEdit <= BlockSize
    \/ (EditAt \div BlockSize) + BytesToBlocks(NEdit)
         < BytesToBlocks(Target.file_len)

(* write always fills the last block up.                                   *)
AppendFillsTail ==
  Starts("write") => EditAt < 0 \/ NAppend = 0 \/ NAppend >= FreeWords

(* read looks up the block at offset even when the file ends there.        *)
ReadHasBlock ==
  Starts("read") => \/ call'.offset # Target.file_len
                    \/ Target.file_len % BlockSize # 0

(* Files that never outgrow their direct pointers.                         *)
DirectOnly == Starts("write") => BytesToBlocks(NewLen) <= NDirect

(* Files with indirect blocks: none is filled to its last pointer, whose   *)
(* link load() would follow; there is room for all the blocks of a write;  *)
(* a file gets its first indirect block while the inode object holds no    *)
(* list of another file; and a file of several indirect blocks is not      *)
(* removed, because load() follows the chain of a free inode as well.      *)
NewPtrs    == BytesToBlocks(NewLen) - NDirect
NewChain   == IF NewPtrs > 0 THEN (NewPtrs - 1) \div PtrsPerIndirect + 1 ELSE 0
BlocksToGo == BytesToBlocks(NewLen) - BytesToBlocks(Target.file_len)
                + NewChain - NChain(Target)

LastPtrUnused ==
  Starts("write") => NewPtrs <= 0 \/ NewPtrs % PtrsPerIndirect # 0
RoomForAll == Starts("write") => BlocksToGo <= Cardinality(FreeBlocks)
ListsFresh ==
  Starts("write") => NewPtrs <= 0 \/ HasIndirect(Target) \/ indirect_block_n = <<>>
ShortChainsRemoved == Starts("remove") => NChain(Target) <= 1

-----------------------------------------------------------------------------
(* The two disciplines under which the properties above hold.              *)
Careful == EditStaysInside /\ AppendFillsTail /\ ReadHasBlock

DirectSpec == Init /\ [][Next /\ Careful /\ DirectOnly]_vars

ChainNext ==
  \/ /\ FileCall /\ Careful
     /\ LastPtrUnused /\ RoomForAll /\ ListsFresh /\ ShortChainsRemoved
  \/ MountCall \/ FormatCall \/ Step \/ Crash

ChainSpec == Init /\ [][ChainNext]_vars
=============================================================================
