---------------------------- MODULE DirectFiles -----------------------------
(***************************************************************************)
(* Why the properties of Ownership hold for files on direct pointers: what *)
(* is true of the image, the bitmaps and the inode object at every step of *)
(* a call, also where the bitmaps are rebuilt by a mount, while a removal  *)
(* has freed the inode but not its blocks, and while a write holds blocks  *)
(* that no inode points to yet.                                            *)
(***************************************************************************)
EXTENDS Ownership

(* The disciplines are about images that have all their blocks.            *)
ASSUME WholeImage == CutBlocks = {}

NBlocks(ino) == BytesToBlocks(ino.file_len)
PtrSlots(n)  == 0 .. NBlocks(inodes[n]) - 1

(* From the moment a removal has written its inode as free until it has    *)
(* cleared the last bit, the blocks are still held on behalf of the call.  *)
Releasing == call.op = "remove" /\ pc \in {"mark_load", "mark", "mark_indirect"}
Holders   == UsedInodes \cup (IF Releasing THEN {call.inode_n} ELSE {})

(* The pointers of holder n whose blocks the bitmap is to have: all, but   *)
(* for those a removal has cleared and those a mount has not yet set.      *)
MarkedSlots(n) ==
  IF call.op = "mount" /\ n >= call.inode_n
  THEN IF n > call.inode_n \/ pc \in {"scan", "scan_check"} THEN {}
       ELSE IF pc = "mark" THEN 0 .. call.i - 1 ELSE PtrSlots(n)
  ELSE IF Releasing /\ n = call.inode_n
  THEN IF pc = "mark_indirect" THEN {} ELSE call.i .. NBlocks(inodes[n]) - 1
  ELSE PtrSlots(n)

(* The new blocks of a write: pending, or in the inode about to be written *)
NewSlots == NBlocks(inode) .. NBlocks(inode_buf) - 1
Fresh    == IF pc = "writeback" /\ call.op = "write"
            THEN {inode_buf.direct_ptr[i] : i \in NewSlots}
            ELSE {ptrs_to_allocate[k] : k \in 1 .. Len(ptrs_to_allocate)}

-----------------------------------------------------------------------------
(* The steps belong to their calls, and none deals with indirect blocks.   *)
StepsOfCalls ==
  /\ pc \notin {"load", "fill", "extend", "extend_store"}
  /\ pc = "return"      => call.op \in {"length", "name"}
  /\ pc = "read"        => call.op = "read"
  /\ pc \in {"edit", "edit_rest", "tail", "store"} => call.op = "write"
  /\ pc = "unlink"      => call.op = "remove"
  /\ pc = "mark_load"   => call.op = "remove" /\ call.i = 0
  /\ pc \in {"mark", "mark_indirect"}     => call.op \in {"remove", "mount"}
  /\ pc = "mark"        => call.i <= NBlocks(inodes[call.inode_n])
  /\ pc = "mark_indirect" => call.i = 0
  /\ pc \in {"scan", "scan_check"}        => call.op = "mount" /\ call.i = 0
  /\ pc \in {"format", "format_reset"}    => call.op = "format"
  /\ pc \in {"commit", "writeback"}       => call.op \in {"write", "rename",
                                                          "remove", "format"}

(* Files are short, the lists empty, and the object is the inode on the    *)
(* image, with a copy that differs only from its change to its writeback.  *)
ObjectTracks ==
  /\ \A n \in InodeNs : NBlocks(inodes[n]) <= NDirect
  /\ indirect_block_n = <<>> /\ indirect_ptrs_list = <<>>
  /\ loaded_inode_n # Null => inode = inodes[loaded_inode_n]
  /\ pc \notin {"commit", "writeback"} => inode_buf = inode

(* What the copy differs in, by call.                                      *)
BufferTracks ==
  pc \in {"commit", "writeback"} =>
    /\ inode_buf.status = IF call.op \in {"remove", "format"} THEN "Free"
                          ELSE inode.status
    /\ inode_buf.file_len = CASE call.op = "format" -> 0
                              [] call.op = "write"  -> inode.file_len + call.n_written
                              [] OTHER              -> inode.file_len
    /\ pc = "commit" => inode_buf.direct_ptr = inode.direct_ptr
    /\ \A i \in 0 .. NDirect - 1 :
         i \notin NewSlots => inode_buf.direct_ptr[i] = inode.direct_ptr[i]

(* A write stays within the direct pointers, and it stops at the end of    *)
(* the data or for want of a free block, nowhere else.                     *)
NAdded == Len(call.data) - EditLen
NDone  == call.n_edited + call.n_written

WriteTracks ==
  /\ pc \in {"edit", "edit_rest", "tail", "store"} =>
       BytesToBlocks(inode.file_len + NAdded) <= NDirect
  /\ pc = "edit" => call.n_edited = 0 /\ call.data # <<>>
  /\ pc \in {"edit", "edit_rest", "tail"} =>
       /\ call.n_written = 0
       /\ \/ call.offset > inode.file_len \/ NAdded = 0
          \/ NAdded >= NBlocks(inode) * BlockSize - inode.file_len
  /\ pc \in {"edit_rest", "tail", "store"} => call.offset <= inode.file_len
  /\ pc = "edit_rest" => EditLen - call.n_edited <= call.left * BlockSize
  /\ pc \in {"tail", "store"} => call.n_edited = EditLen /\ NAdded > 0
  /\ pc = "store" =>
       /\ NDone <= Len(call.data)
       /\ call.left = BytesToBlocks(Len(call.data) - NDone)
       /\ NDone = Len(call.data) \/ (inode.file_len + call.n_written) % BlockSize = 0
  /\ pc \in {"store", "commit"} /\ call.op = "write" =>
       Len(ptrs_to_allocate) =
         BytesToBlocks(inode.file_len + call.n_written) - NBlocks(inode)
  /\ pc \in {"commit", "writeback"} /\ call.op = "write" =>
       /\ BytesToBlocks(inode.file_len + call.n_written) <= NDirect
       /\ NDone = Len(call.data) \/ (NDone < Len(call.data) /\ FreeBlocks = {})
  /\ pc = "commit" /\ call.op # "write" => ptrs_to_allocate = <<>>
  /\ pc = "writeback" => ptrs_to_allocate = <<>>

-----------------------------------------------------------------------------
(* No two pointers of holders are the same, and none dangles.              *)
PtrsApart ==
  \A n, m \in Holders : \A i \in PtrSlots(n), j \in PtrSlots(m) :
    /\ inodes[n].direct_ptr[i] \in DataNs
    /\ inodes[n].direct_ptr[i] = inodes[m].direct_ptr[j] => n = m /\ i = j

(* The new blocks of a write are all different, and nobody holds them.     *)
FreshApart ==
  /\ \A k, l \in 1 .. Len(ptrs_to_allocate) :
       ptrs_to_allocate[k] = ptrs_to_allocate[l] => k = l
  /\ pc = "writeback" /\ call.op = "write" =>
       \A i, j \in NewSlots : /\ inode_buf.direct_ptr[i] \in DataNs
                              /\ inode_buf.direct_ptr[i] = inode_buf.direct_ptr[j]
                                   => i = j
  /\ \A n \in Holders : \A i \in PtrSlots(n) : inodes[n].direct_ptr[i] \notin Fresh

(* The bitmaps are those of the holders, up to where the call has come.    *)
InodesTracked ==
  /\ call.op \in {"length", "name", "read", "write", "rename", "remove"} =>
       call.inode_n \in Holders
  /\ pc \in {"mark", "mark_indirect"} => call.inode_n \in Holders
  /\ Releasing => call.inode_n \notin UsedInodes
  /\ pc # "off" /\ call.op # "format" =>
       inode_bitmap = IF call.op # "mount" THEN Holders
                      ELSE {n \in UsedInodes :
                              \/ n < call.inode_n
                              \/ n = call.inode_n /\ pc \in {"mark", "mark_indirect"}}

BlocksTracked ==
  pc # "off" /\ call.op # "format" =>
    \A b \in DataNs :
      b \in data_bitmap <=>
        \/ b \in Fresh
        \/ \E n \in Holders : \E i \in MarkedSlots(n) : inodes[n].direct_ptr[i] = b

DirectInv ==
  /\ StepsOfCalls /\ ObjectTracks /\ BufferTracks /\ WriteTracks
  /\ PtrsApart /\ FreshApart /\ InodesTracked /\ BlocksTracked

-----------------------------------------------------------------------------
(* What carries the promise of FileStore through a call: that nothing will *)
(* throw, and that the words written so far are where the file will have   *)
(* them.  FileBlock(j) is block j of the file as it will be.               *)
FileBlock(j) == IF j < NBlocks(inode) THEN inode.direct_ptr[j]
                ELSE IF pc = "writeback" THEN inode_buf.direct_ptr[j]
                ELSE ptrs_to_allocate[j - NBlocks(inode) + 1]
FileWord(k)  == blocks[FileBlock(k \div BlockSize)][k % BlockSize]

EditFrom == inode.file_len - call.offset

RepliesPending == call.op # "none" => result = Pending

LookupsInside ==
  /\ pc = "read" => \/ call.offset # inode.file_len
                    \/ inode.file_len % BlockSize # 0
  /\ pc = "edit" => \/ EditFrom < 0 \/ EditLen = 0
                    \/ (EditFrom % BlockSize) + EditLen <= BlockSize
                    \/ (EditFrom \div BlockSize) + BytesToBlocks(EditLen) < NBlocks(inode)
  /\ pc = "edit_rest" /\ call.left > 0 => call.i + call.left <= NBlocks(inode)

(* Behind its first block an edit goes on with the first slot of a block.  *)
EditAligned ==
  pc = "edit_rest" /\ call.n_edited < EditLen =>
    EditFrom + call.n_edited = call.i * BlockSize

EditedWords ==
  /\ EditAligned
  /\ pc \in {"edit_rest", "tail", "store", "commit", "writeback"} /\ call.op = "write" =>
       /\ call.offset <= inode.file_len
       /\ \A k \in 0 .. call.n_edited - 1 : FileWord(EditFrom + k) = call.data[k + 1]

AppendedWords ==
  /\ pc \in {"edit", "edit_rest", "tail"} => call.free_bytes = 0
  /\ pc \in {"store", "commit", "writeback"} /\ call.op = "write" =>
       /\ call.n_edited = EditLen
       /\ call.free_bytes = NBlocks(inode) * BlockSize - inode.file_len
       /\ call.free_bytes <= call.n_written
       /\ \A k \in 0 .. call.n_written - 1 :
            FileWord(inode.file_len + k) = call.data[EditLen + k + 1]
       /\ pc = "writeback" => call.n_ptrs = NBlocks(inode_buf) - NBlocks(inode)

FormattedSoFar == call.op = "format" => \A n \in UsedInodes : n >= call.inode_n

(* The words of a write are in place, step by step, before its inode makes *)
(* them part of the file: each edited and each appended word lies where    *)
(* the pointers of the object, the pending ones included, will have it.    *)
(* No lookup that is still ahead throws, and a format frees from 0 up.     *)
WordsTracked == /\ RepliesPending /\ LookupsInside
                /\ EditedWords /\ AppendedWords /\ FormattedSoFar
=============================================================================
