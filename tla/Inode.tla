------------------------------- MODULE Inode --------------------------------
(***************************************************************************)
(* The Inode and IndirectInode objects: a one-entry cache of an inode and  *)
(* of its chain of indirect blocks, loaded from the image and committed    *)
(* back to it.  Both objects are owned by a FileSystem, whose calls run    *)
(* the sub-procedures of this module; pc says where the running call is,   *)
(* and each step reads or writes at most one block of the image, so that   *)
(* the program can be stopped between any two writes.                      *)
(***************************************************************************)
EXTENDS Layout

VARIABLES
  inodes,              \* image: the inode blocks
  blocks,              \* image: the data blocks
  data_bitmap,         \* FileSystem: data blocks marked used
  loaded_inode_n,      \* Inode: which inode the object holds
  inode,               \* Inode: the inode as loaded
  inode_buf,           \* Inode: the copy that meta() edits and commit writes
  ptrs_to_allocate,    \* Inode: new data blocks, in the order of add_data
  indirect_block_n,    \* IndirectInode: chain of indirect blocks, last first
  indirect_ptrs_list,  \* IndirectInode: the pointers the chain holds
  pc,                  \* the step the running call is at
  call,                \* its arguments and local variables
  result               \* how the last call ended; Pending while one runs

image  == <<inodes, blocks>>
lists  == <<indirect_block_n, indirect_ptrs_list>>
object == <<loaded_inode_n, inode, inode_buf, ptrs_to_allocate, lists>>

Ops    == {"none", "mount", "format", "write", "read", "remove", "rename",
           "length", "name"}
Labels == {"off", "idle", "load", "return", "scan", "scan_check", "mark_load",
           "mark", "mark_indirect", "read", "edit", "edit_rest", "tail",
           "store", "unlink", "format", "format_reset", "commit", "fill",
           "extend", "extend_store", "writeback"}

NoCall == [op |-> "none", inode_n |-> 0, offset |-> 0, length |-> 0,
           data |-> <<>>, n_edited |-> 0, n_written |-> 0, free_bytes |-> 0,
           left |-> 0, i |-> 0, n_ptrs |-> 0, next |-> "idle"]

Call == [op : Ops, inode_n : 0 .. NInodes, offset : Nat, length : Nat,
         data : Seq(Words), n_edited : Nat, n_written : Nat, free_bytes : Nat,
         left : Nat, i : Nat, n_ptrs : Int, next : Labels]

(* How a call ends: a count or an inode number with the words read, or     *)
(* fs_nullptr, or an exception.                                            *)
Result  == [how : {"none", "ok", "refused", "threw"}, n : Int,
            data : Seq(Words)]
Ok(n)   == [how |-> "ok", n |-> n, data |-> <<>>]
Pending == [how |-> "none", n |-> 0, data |-> <<>>]
Refused == [how |-> "refused", n |-> Null, data |-> <<>>]
Threw   == [how |-> "threw", n |-> 0, data |-> <<>>]

(* A mount or a format that throws leaves no usable file system behind.    *)
Return(r) == pc' = "idle" /\ call' = NoCall /\ result' = r
Throw     == /\ pc' = IF call.op \in {"mount", "format"} THEN "off" ELSE "idle"
             /\ call' = NoCall
             /\ result' = Threw

(* What ptr(i) may return: a direct pointer, a pointer of the list, or,    *)
(* past the end of the list, whatever the heap holds there.                *)
Ptr(i) == IF i < NDirect THEN {inode.direct_ptr[i]}
          ELSE IF i - NDirect < Len(indirect_ptrs_list)
               THEN {indirect_ptrs_list[i - NDirect + 1]}
               ELSE HeapWords

(* What commit may find at position k of a list that it has written to:    *)
(* past its end, what was there, or a pointer written behind it.           *)
ListWords(list, k) == IF k <= Len(list) THEN {list[k]}
                      ELSE HeapWords \cup DataNs

(* next_free(0): the lowest block that is not marked used.  A loop that    *)
(* allocates stops when call.left are done, or when no block is free.      *)
FreeBlocksWithPadding == (DataNs \cup {NData}) \ data_bitmap   \* mutant
FreeBlocks            == DataNs \ data_bitmap
NextFree(b)           == \A c \in FreeBlocks : b <= c

StopsAtCount          == call.left = 0                          \* mutant
StopsOneEarly         == call.left <= 1 \/ FreeBlocks = {}      \* mutant
StopsAllocating       == call.left = 0 \/ FreeBlocks = {}

ClearLists == indirect_block_n' = <<>> /\ indirect_ptrs_list' = <<>>

ClearButPending == /\ loaded_inode_n' = Null                    \* mutant
                   /\ inode' = ZeroInode /\ inode_buf' = ZeroInode
                   /\ UNCHANGED ptrs_to_allocate
                   /\ ClearLists
ClearNothing    == UNCHANGED object                             \* mutant
Clear           == /\ loaded_inode_n' = Null
                   /\ inode' = ZeroInode /\ inode_buf' = ZeroInode
                   /\ ptrs_to_allocate' = <<>>
                   /\ ClearLists

-----------------------------------------------------------------------------
(* load(n), after which call c goes on at label.  The object is left as it *)
(* is when it already holds inode n.  Otherwise the inode is read; when it *)
(* has no indirect block the lists of the previous inode stay in place.    *)
LoadCached(n) == /\ loaded_inode_n = n
                 /\ UNCHANGED <<loaded_inode_n, inode, inode_buf, lists>>

LoadDirect(n) == /\ loaded_inode_n # n
                 /\ inode' = inodes[n]
                 /\ inode_buf' = inodes[n]

LoadInode(c, n, label) ==
  /\ UNCHANGED <<image, data_bitmap, ptrs_to_allocate>>
  /\ result' = Pending
  /\ \/ /\ LoadCached(n)
        /\ pc' = label
        /\ call' = c
     \/ /\ LoadDirect(n)
        /\ ~HasIndirect(inodes[n])
        /\ loaded_inode_n' = n
        /\ pc' = label
        /\ call' = c
        /\ UNCHANGED lists
     \/ /\ LoadDirect(n)
        /\ HasIndirect(inodes[n])
        /\ indirect_block_n' = <<inodes[n].indirect_inode_ptr>>
        /\ indirect_ptrs_list' = [k \in 1 .. NIndirectPtrs(inodes[n]) |-> 0]
        /\ pc' = "load"
        /\ call' = [c EXCEPT !.next = label]
        /\ UNCHANGED loaded_inode_n

(* One iteration of IndirectInode::load.  indirect_block_n grows by the    *)
(* link of every full block, also by that of the last one.  The object     *)
(* counts as loaded only when the whole chain has been read: when it throws *)
(* before, the new inode stays in the object under the old number.         *)
NReadPtrs == (Len(indirect_block_n) - 1) * PtrsPerIndirect
NLeftPtrs == Len(indirect_ptrs_list) - NReadPtrs

ListWithShift(n, words) ==                                      \* mutant
  [k \in 1 .. Len(indirect_ptrs_list) |->
     IF n < k /\ k <= n + PtrsPerIndirect THEN words[k - n]
     ELSE indirect_ptrs_list[k]]
ListWithoutOffset(n, words) ==                                  \* mutant
  [k \in 1 .. Len(indirect_ptrs_list) |->
     IF k <= PtrsPerIndirect THEN words[k - 1] ELSE indirect_ptrs_list[k]]
ListWith(n, words) ==
  [k \in 1 .. Len(indirect_ptrs_list) |->
     IF n < k /\ k <= n + PtrsPerIndirect THEN words[k - n - 1]
     ELSE indirect_ptrs_list[k]]

Loaded == /\ loaded_inode_n' = call.inode_n
          /\ pc' = call.next
          /\ call' = [call EXCEPT !.next = "idle"]

LoadFullBlock ==
  LET b == Head(indirect_block_n)
  IN  /\ NLeftPtrs >= PtrsPerIndirect
      /\ b \in StoredNs
      /\ indirect_ptrs_list' = ListWith(NReadPtrs, blocks[b])
      /\ indirect_block_n' = <<blocks[b][LinkSlot]>> \o indirect_block_n
      /\ UNCHANGED <<loaded_inode_n, pc, call, result>>

LoadLastBlock ==
  LET b == Head(indirect_block_n)
  IN  /\ 0 < NLeftPtrs /\ NLeftPtrs < PtrsPerIndirect
      /\ b \in StoredNs
      /\ indirect_ptrs_list' = ListWith(NReadPtrs, blocks[b])
      /\ Loaded
      /\ UNCHANGED <<indirect_block_n, result>>

LoadDone ==
  /\ NLeftPtrs = 0
  /\ Loaded
  /\ UNCHANGED <<lists, result>>

LoadFails ==
  /\ NLeftPtrs > 0
  /\ Head(indirect_block_n) \notin StoredNs
  /\ Throw
  /\ UNCHANGED <<loaded_inode_n, lists>>

LoadIndirect ==
  /\ pc = "load"
  /\ LoadFullBlock \/ LoadLastBlock \/ LoadDone \/ LoadFails
  /\ UNCHANGED <<image, data_bitmap, inode, inode_buf, ptrs_to_allocate>>

-----------------------------------------------------------------------------
(* Inode::commit up to the indirect pointers: the pending blocks fill the  *)
(* direct slots from the first one past the old length.  When some are     *)
(* left they go to the indirect chain, whose first block is allocated when *)
(* the inode has none; without a free block they stay out of the inode.    *)
CommitDirect ==
  LET used     == BytesToBlocks(inode.file_len)
      n_direct == Smaller(Len(ptrs_to_allocate),
                          IF used < NDirect THEN NDirect - used ELSE 0)
      rest     == SubSeq(ptrs_to_allocate, n_direct + 1, Len(ptrs_to_allocate))
      direct   == [k \in 0 .. NDirect - 1 |->
                     IF used <= k /\ k < used + n_direct
                     THEN ptrs_to_allocate[k - used + 1]
                     ELSE inode_buf.direct_ptr[k]]
  IN  /\ pc = "commit"
      /\ call' = [call EXCEPT !.n_ptrs = n_direct]
      /\ ptrs_to_allocate' = rest
      /\ \/ /\ rest = <<>> \/ (inode.indirect_inode_ptr = Null /\ FreeBlocks = {})
            /\ inode_buf' = [inode_buf EXCEPT !.direct_ptr = direct]
            /\ pc' = "writeback"
            /\ UNCHANGED <<inode, data_bitmap>>
         \/ /\ rest # <<>> /\ inode.indirect_inode_ptr # Null
            /\ inode_buf' = [inode_buf EXCEPT !.direct_ptr = direct]
            /\ pc' = "fill"
            /\ UNCHANGED <<inode, data_bitmap>>
         \/ /\ rest # <<>> /\ inode.indirect_inode_ptr = Null
            /\ \E b \in FreeBlocks :
                 /\ NextFree(b)
                 /\ data_bitmap' = data_bitmap \cup {b}
                 /\ inode' = [inode EXCEPT !.indirect_inode_ptr = b]
                 /\ inode_buf' = [inode_buf EXCEPT !.direct_ptr = direct,
                                                   !.indirect_inode_ptr = b]
            /\ pc' = "fill"
      /\ UNCHANGED <<image, loaded_inode_n, lists, result>>

(* IndirectInode::commit, steps 1 and 2: the pending pointers move to the  *)
(* list, and as many as fit are written behind the used ones of the block  *)
(* at the head of the chain.  The list grows by the number of the new      *)
(* pointers, whatever it held before: when it was shorter than n_used they *)
(* are stored, and read again, behind its end.  call.i is                  *)
(* n_used_indirect_ptrs, call.left is n_ptrs_left_to_write.                *)
FillIndirect ==
  LET n_used  == IF NIndirectPtrs(inode) > 0 THEN NIndirectPtrs(inode) ELSE 0
      n_new   == Len(ptrs_to_allocate)
      at      == n_used % PtrsPerIndirect
      n_write == Smaller(PtrsPerIndirect - at, n_new)
      chain   == IF indirect_block_n = <<>> THEN <<inode.indirect_inode_ptr>>
                 ELSE indirect_block_n
      old     == Len(indirect_ptrs_list)
      list    == [k \in 1 .. old + n_new |->
                    IF n_used < k /\ k <= n_used + n_new
                    THEN ptrs_to_allocate[k - n_used]
                    ELSE IF k <= old THEN indirect_ptrs_list[k] ELSE 0]
      b       == Head(chain)
  IN  /\ pc = "fill"
      /\ ptrs_to_allocate' = <<>>
      /\ indirect_block_n' = chain
      /\ indirect_ptrs_list' = list
      /\ \/ /\ b \in StoredNs
            /\ \E words \in [1 .. n_write -> Words] :
                 /\ \A k \in 1 .. n_write : words[k] \in ListWords(list, n_used + k)
                 /\ blocks' = [blocks EXCEPT ![b] = Patch(@, at, words)]
            /\ call' = [call EXCEPT !.left = n_new - n_write,
                                    !.i = n_used + n_write,
                                    !.n_ptrs = @ + n_new]
            /\ pc' = "extend"
            /\ UNCHANGED result
         \/ /\ b \notin StoredNs
            /\ Throw
            /\ UNCHANGED blocks
      /\ UNCHANGED <<inodes, data_bitmap, loaded_inode_n, inode, inode_buf>>

(* Step 3, first half: a new indirect block, linked from the old head.     *)
(* The loop ends when every pointer is written or no block is free.        *)
ExtendChain ==
  /\ pc = "extend"
  /\ \/ /\ StopsAllocating
        /\ ClearLists
        /\ call' = [call EXCEPT !.n_ptrs = @ - call.left, !.left = 0, !.i = 0]
        /\ pc' = "writeback"
        /\ UNCHANGED <<blocks, data_bitmap>>
     \/ /\ call.left > 0
        /\ \E b \in FreeBlocks :
             /\ NextFree(b)
             /\ data_bitmap' = data_bitmap \cup {b}
             /\ blocks' = [blocks EXCEPT ![Head(indirect_block_n)][LinkSlot] = b]
             /\ indirect_block_n' = <<b>> \o indirect_block_n
        /\ pc' = "extend_store"
        /\ UNCHANGED <<call, indirect_ptrs_list>>
  /\ UNCHANGED <<inodes, loaded_inode_n, inode, inode_buf, ptrs_to_allocate,
                 result>>

(* Step 3, second half: the next pointers go into the new block.  When it  *)
(* cannot be written the object keeps its lists and its number.            *)
StoreIndirect ==
  LET n_write == Smaller(PtrsPerIndirect, call.left)
      b       == Head(indirect_block_n)
  IN  /\ pc = "extend_store"
      /\ \/ /\ b \in StoredNs
            /\ \E words \in [1 .. n_write -> Words] :
                 /\ \A k \in 1 .. n_write :
                      words[k] \in ListWords(indirect_ptrs_list, call.i + k)
                 /\ blocks' = [blocks EXCEPT ![b] = Patch(@, 0, words)]
            /\ call' = [call EXCEPT !.left = @ - n_write, !.i = @ + n_write]
            /\ pc' = "extend"
            /\ UNCHANGED result
         \/ /\ b \notin StoredNs
            /\ Throw
            /\ UNCHANGED blocks
      /\ UNCHANGED <<inodes, data_bitmap, object>>
=============================================================================
