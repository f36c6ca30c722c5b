----------------------------- MODULE FileSystem -----------------------------
(***************************************************************************)
(* The FileSystem class: the calls of its interface and, for each, the     *)
(* steps in which it reads and writes the image through the Inode object.  *)
(* The program is sequential: one call runs at a time, and what makes it   *)
(* hard is that a call is many block writes, that it may throw between any *)
(* two of them, that the process may stop there (Crash), and that the      *)
(* bitmaps and the inode object outlive the call.                          *)
(*                                                                         *)
(* Names are abstracted to whether they pass the length test.  The inputs  *)
(* are those of Payloads, Offsets and ReadLengths; MaxLen bounds the files *)
(* the caller makes.                                                       *)
(***************************************************************************)
EXTENDS Inode

CONSTANTS
  Payloads,      \* the data a write may be given
  Offsets,       \* the offsets of a write (from the end) and of a read
  ReadLengths,   \* the lengths a read may ask for
  MaxLen,        \* bound: no write is made that could lengthen the inode
                 \* it finds beyond this
  MaxPending     \* bound: nor when so many blocks are pending already

ASSUME InputAssumption ==
  /\ Payloads \subseteq Seq(Words)
  /\ Offsets \subseteq Nat
  /\ ReadLengths \subseteq Nat
  /\ MaxLen \in Nat /\ MaxPending \in Nat \ {0}

VARIABLE inode_bitmap    \* inodes marked used

vars == <<image, data_bitmap, object, pc, call, result, inode_bitmap>>

bitmaps == <<inode_bitmap, data_bitmap>>

(* An image as format leaves it, less the blocks cut off, and no process.  *)
Init ==
  /\ inodes = [n \in InodeNs |-> ZeroInode]
  /\ blocks = [b \in DataNs |-> ZeroBlock]
  /\ inode_bitmap = {} /\ data_bitmap = {}
  /\ loaded_inode_n = Null
  /\ inode = ZeroInode /\ inode_buf = ZeroInode
  /\ ptrs_to_allocate = <<>>
  /\ indirect_block_n = <<>> /\ indirect_ptrs_list = <<>>
  /\ pc = "off" /\ call = NoCall /\ result = Pending

(* A call that ends at once, without touching the image or the object.     *)
Answer(r) == /\ result' = r
             /\ UNCHANGED <<image, bitmaps, object, pc, call>>

(* A call on inode n that starts by loading it.                            *)
Start(op, n, c, label) ==
  /\ LoadInode([c EXCEPT !.op = op, !.inode_n = n], n, label)
  /\ UNCHANGED inode_bitmap

-----------------------------------------------------------------------------
(* get_file_length and get_file_name, which returns the inode number and   *)
(* gives the name through its argument.                                    *)
LookupCall(op, n) ==
  /\ pc = "idle"
  /\ \/ n \notin inode_bitmap /\ Answer(Refused)
     \/ n \in inode_bitmap /\ Start(op, n, NoCall, "return")

LookupReturn ==
  /\ pc = "return"
  /\ Return(Ok(IF call.op = "length" THEN inode_buf.file_len ELSE call.inode_n))
  /\ UNCHANGED <<image, bitmaps, object>>

ReadCall(n, offset, length) ==
  /\ pc = "idle"
  /\ \/ n \notin inode_bitmap /\ Answer(Refused)
     \/ n \in inode_bitmap /\ length = 0 /\ Answer(Ok(0))
     \/ /\ n \in inode_bitmap /\ length > 0
        /\ Start("read", n,
                 [NoCall EXCEPT !.offset = offset, !.length = length], "read")

(* The blocks that hold the words from offset on are read one by one; the  *)
(* first one is looked up, but not read, when there is nothing to read.    *)
ReadBlocks ==
  LET len  == Smaller(call.length, inode_buf.file_len - call.offset)
      used == call.offset \div BlockSize ..
                (call.offset + (IF len = 0 THEN 0 ELSE len - 1)) \div BlockSize
      found == IF len = 0 THEN DataNs ELSE StoredNs
  IN  /\ pc = "read"
      /\ \/ call.offset > inode_buf.file_len /\ Return(Refused)
         \/ /\ call.offset <= inode_buf.file_len
            /\ \E p \in [used -> found] :
                 /\ \A i \in used : p[i] \in Ptr(i)
                 /\ Return([how |-> "ok", n |-> len, data |->
                      [k \in 1 .. len |->
                         LET at == call.offset + k - 1
                         IN  blocks[p[at \div BlockSize]][at % BlockSize]]])
         \/ /\ call.offset <= inode_buf.file_len
            /\ \E i \in used : ~(Ptr(i) \subseteq found)
            /\ Throw
      /\ UNCHANGED <<image, bitmaps, object>>

-----------------------------------------------------------------------------
(* create_file: one block write, so one step.                              *)
CreateFile(long_name) ==
  /\ pc = "idle"
  /\ \/ (inode_bitmap = InodeNs \/ long_name) /\ Answer(Refused)
     \/ /\ ~long_name
        /\ \E n \in InodeNs \ inode_bitmap :
             /\ \A m \in InodeNs \ inode_bitmap : n <= m
             /\ inodes' = [inodes EXCEPT ![n] = NewInode]
             /\ inode_bitmap' = inode_bitmap \cup {n}
             /\ result' = Ok(n)
        /\ Clear
        /\ UNCHANGED <<blocks, data_bitmap, pc, call>>

RenameCall(n, long_name) ==
  /\ pc = "idle"
  /\ \/ (n \notin inode_bitmap \/ long_name) /\ Answer(Refused)
     \/ /\ n \in inode_bitmap /\ ~long_name
        /\ Start("rename", n, NoCall, "commit")

(* remove_file: the inode is committed as Free before its blocks are       *)
(* released, and loaded once more to find them.                            *)
RemoveCall(n) ==
  /\ pc = "idle"
  /\ \/ n \notin inode_bitmap /\ Answer(Refused)
     \/ n \in inode_bitmap /\ Start("remove", n, NoCall, "unlink")

Unlink ==
  /\ pc = "unlink"
  /\ inode_buf' = [inode_buf EXCEPT !.status = "Free"]
  /\ pc' = "commit"
  /\ UNCHANGED <<image, bitmaps, loaded_inode_n, inode, ptrs_to_allocate,
                 lists, call, result>>

MarkLoad ==
  /\ pc = "mark_load"
  /\ LoadInode(call, call.inode_n, "mark")
  /\ UNCHANGED inode_bitmap

(* set_data_blocks_status: remove clears the blocks' bits, mount sets them *)
ClearStatus(b) == data_bitmap' = data_bitmap \ {b}              \* mutant
RaiseStatus(b) == data_bitmap' = data_bitmap \cup {b}           \* mutant
SetStatus(b) == data_bitmap' = IF call.op = "remove" THEN data_bitmap \ {b}
                               ELSE data_bitmap \cup {b}

Mark ==
  /\ pc = "mark"
  /\ \/ /\ call.i = BytesToBlocks(inode_buf.file_len)
        /\ pc' = "mark_indirect"
        /\ call' = [call EXCEPT !.i = 0]
        /\ UNCHANGED <<data_bitmap, result>>
     \/ /\ call.i < BytesToBlocks(inode_buf.file_len)
        /\ \E b \in Ptr(call.i) \cap DataNs : SetStatus(b)
        /\ call' = [call EXCEPT !.i = @ + 1]
        /\ UNCHANGED <<pc, result>>
     \/ /\ call.i < BytesToBlocks(inode_buf.file_len)
        /\ ~(Ptr(call.i) \subseteq DataNs)
        /\ Throw
        /\ UNCHANGED data_bitmap
  /\ UNCHANGED <<image, inode_bitmap, object>>

(* last_indirect_ptr: the chain is followed from its last block, up to its *)
(* end or to the first Null in it.                                         *)
NoChainBlock   == Null                                          \* mutant
SkipsLastBlock == IF call.i + 1 < Len(indirect_block_n)         \* mutant
                  THEN indirect_block_n[call.i + 2] ELSE Null
ChainBlock == IF call.i < Len(indirect_block_n)
              THEN indirect_block_n[call.i + 1] ELSE Null

MarkIndirect ==
  /\ pc = "mark_indirect"
  /\ \/ /\ ChainBlock \in DataNs
        /\ SetStatus(ChainBlock)
        /\ call' = [call EXCEPT !.i = @ + 1]
        /\ UNCHANGED <<inode_bitmap, pc, result>>
     \/ /\ ChainBlock \notin DataNs \cup {Null}
        /\ Throw
        /\ UNCHANGED bitmaps
     \/ /\ ChainBlock = Null /\ call.op = "remove"
        /\ inode_bitmap' = inode_bitmap \ {call.inode_n}
        /\ Return(Ok(call.inode_n))
        /\ UNCHANGED data_bitmap
     \/ /\ ChainBlock = Null /\ call.op = "mount"
        /\ pc' = "scan"
        /\ call' = [call EXCEPT !.inode_n = @ + 1, !.i = 0]
        /\ UNCHANGED <<bitmaps, result>>
  /\ UNCHANGED <<image, object>>

-----------------------------------------------------------------------------
(* write: the last offset words of the file are overwritten with the first *)
(* words of the data (edit_data), the rest is appended.                    *)
LengthSeen(n) == IF loaded_inode_n = n THEN inode_buf.file_len
                 ELSE inodes[n].file_len
WriteCall(n, offset, data) ==
  /\ pc = "idle"
  /\ \/ n \notin inode_bitmap /\ Answer(Refused)
     \/ n \in inode_bitmap /\ data = <<>> /\ Answer(Ok(0))
     \/ /\ n \in inode_bitmap /\ data # <<>>
        /\ LengthSeen(n) + Len(data) <= MaxLen
        /\ Len(ptrs_to_allocate) < MaxPending
        /\ Start("write", n,
                 [NoCall EXCEPT !.offset = offset, !.data = data], "edit")

EditAll == Len(call.data)                                       \* mutant
EditLen == Smaller(Len(call.data), call.offset)

(* edit_data's first block, or its early returns.                          *)
EditFirst ==
  LET abs_offset == inode_buf.file_len - call.offset
      first      == abs_offset % BlockSize
      n_write    == Smaller(BlockSize - first, EditLen)
  IN  /\ pc = "edit"
      /\ \/ /\ call.offset = 0
            /\ pc' = "tail"
            /\ UNCHANGED <<blocks, call, result>>
         \/ /\ call.offset > 0 /\ abs_offset < 0
            /\ Return(Refused)
            /\ UNCHANGED blocks
         \/ /\ call.offset > 0 /\ abs_offset >= 0
            /\ \E b \in Ptr(abs_offset \div BlockSize) \cap StoredNs :
                 blocks' = [blocks EXCEPT
                              ![b] = Patch(@, first, SubSeq(call.data, 1, n_write))]
            /\ call' = [call EXCEPT
                          !.n_edited = n_write,
                          !.i = abs_offset \div BlockSize + 1,
                          !.left = IF EditLen > n_write THEN BytesToBlocks(EditLen)
                                   ELSE 0]
            /\ pc' = "edit_rest"
            /\ UNCHANGED result
         \/ /\ call.offset > 0 /\ abs_offset >= 0
            /\ ~(Ptr(abs_offset \div BlockSize) \subseteq StoredNs)
            /\ Throw
            /\ UNCHANGED blocks
      /\ UNCHANGED <<inodes, bitmaps, object>>

(* edit_data's loop over the next blocks, and write's test of its result.  *)
(* The pointer is looked up even when no word is left to write; then the   *)
(* block itself is left alone.                                             *)
EditRest ==
  LET n_write == Smaller(BlockSize, EditLen - call.n_edited)
      words   == SubSeq(call.data, call.n_edited + 1, call.n_edited + n_write)
      found   == IF n_write = 0 THEN DataNs ELSE StoredNs
  IN  /\ pc = "edit_rest"
      /\ \/ /\ call.left > 0
            /\ \E b \in Ptr(call.i) \cap found :
                 blocks' = [blocks EXCEPT ![b] = Patch(@, 0, words)]
            /\ call' = [call EXCEPT !.n_edited = @ + n_write, !.i = @ + 1,
                                    !.left = @ - 1]
            /\ UNCHANGED <<pc, result>>
         \/ /\ call.left > 0
            /\ ~(Ptr(call.i) \subseteq found)
            /\ Throw
            /\ UNCHANGED blocks
         \/ /\ call.left = 0 /\ call.n_edited = Len(call.data)
            /\ Return(Ok(call.n_edited))
            /\ UNCHANGED blocks
         \/ /\ call.left = 0 /\ call.n_edited # Len(call.data)
            /\ pc' = "tail"
            /\ UNCHANGED <<blocks, call, result>>
      /\ UNCHANGED <<inodes, bitmaps, object>>

(* The free words of the last block are all written, with what lies behind *)
(* the caller's data in memory when the data is shorter than that.         *)
WriteTail ==
  LET n_ptr_used == BytesToBlocks(inode_buf.file_len)
      free       == n_ptr_used * BlockSize - inode_buf.file_len
      rest       == SubSeq(call.data, call.n_edited + 1, Len(call.data))
      n_behind   == IF free > Len(rest) THEN free - Len(rest) ELSE 0
  IN  /\ pc = "tail"
      /\ \/ /\ free = 0
            /\ call' = [call EXCEPT !.left = BytesToBlocks(Len(rest))]
            /\ pc' = "store"
            /\ UNCHANGED <<blocks, result>>
         \/ /\ free > 0
            /\ \E b \in Ptr(n_ptr_used - 1) \cap StoredNs,
                  behind \in [1 .. n_behind -> HeapWords] :
                 blocks' = [blocks EXCEPT
                              ![b] = Patch(@, BlockSize - free,
                                           SubSeq(rest \o behind, 1, free))]
            /\ call' = [call EXCEPT !.n_written = free, !.free_bytes = free,
                                    !.left = BytesToBlocks(Len(rest) - free)]
            /\ pc' = "store"
            /\ UNCHANGED result
         \/ /\ free > 0
            /\ ~(Ptr(n_ptr_used - 1) \subseteq StoredNs)
            /\ Throw
            /\ UNCHANGED blocks
      /\ UNCHANGED <<inodes, bitmaps, object>>

(* New blocks, one by one, until the data ends or no block is free; then   *)
(* the length is updated and the inode committed.  A block is marked used  *)
(* and pending before it is written: when it is one that the image lacks,  *)
(* the write throws and leaves it so, with those before it.                *)
StoreBlocks ==
  LET at      == call.n_edited + call.n_written
      n_write == Smaller(Len(call.data) - at, BlockSize)
  IN  /\ pc = "store"
      /\ \/ /\ call.left > 0
            /\ \E b \in FreeBlocks :
                 /\ NextFree(b)
                 /\ data_bitmap' = data_bitmap \cup {b}
                 /\ ptrs_to_allocate' = Append(ptrs_to_allocate, b)
                 /\ \/ /\ b \in StoredNs
                       /\ blocks' = [blocks EXCEPT ![b] =
                            Patch(@, 0, SubSeq(call.data, at + 1, at + n_write))]
                       /\ call' = [call EXCEPT !.n_written = @ + n_write,
                                               !.left = @ - 1]
                       /\ UNCHANGED <<pc, result>>
                    \/ /\ b \notin StoredNs
                       /\ Throw
                       /\ UNCHANGED blocks
            /\ UNCHANGED inode_buf
         \/ /\ StopsAllocating
            /\ inode_buf' = [inode_buf EXCEPT !.file_len = @ + call.n_written]
            /\ pc' = "commit"
            /\ UNCHANGED <<blocks, data_bitmap, ptrs_to_allocate, call, result>>
      /\ UNCHANGED <<inodes, inode_bitmap, loaded_inode_n, inode, lists>>

-----------------------------------------------------------------------------
(* The end of Inode::commit, and what each call does after it.             *)
AfterCommit ==
  \/ /\ call.op = "write"
     /\ call.n_ptrs = BytesToBlocks(call.n_written - call.free_bytes)
     /\ Return(Ok(call.n_written + call.n_edited))
  \/ /\ call.op = "write"
     /\ call.n_ptrs # BytesToBlocks(call.n_written - call.free_bytes)
     /\ Throw
  \/ /\ call.op = "rename"
     /\ Return(Ok(call.inode_n))
  \/ /\ call.op = "remove"
     /\ pc' = "mark_load"
     /\ call' = [call EXCEPT !.i = 0]
     /\ UNCHANGED result
  \/ /\ call.op = "format"
     /\ pc' = "format"
     /\ call' = [call EXCEPT !.inode_n = @ + 1]
     /\ UNCHANGED result

Writeback ==
  /\ pc = "writeback"
  /\ inodes' = [inodes EXCEPT ![loaded_inode_n] = inode_buf]
  /\ Clear
  /\ AfterCommit
  /\ UNCHANGED <<blocks, bitmaps>>

-----------------------------------------------------------------------------
(* mount: with a new FileSystem object, or once more with the same one,    *)
(* whose bitmaps are reset and whose inode object is kept.                 *)
MountCall ==
  /\ \/ pc = "off" /\ Clear
     \/ pc = "idle" /\ UNCHANGED object
  /\ inode_bitmap' = {} /\ data_bitmap' = {}
  /\ pc' = "scan"
  /\ call' = [NoCall EXCEPT !.op = "mount"]
  /\ result' = Pending
  /\ UNCHANGED image

(* scan_blocks, for the next inode: a free one is loaded too.              *)
Scan ==
  /\ pc = "scan"
  /\ \/ /\ call.inode_n < NInodes
        /\ LoadInode(call, call.inode_n, "scan_check")
     \/ /\ call.inode_n = NInodes
        /\ Return(Ok(0))
        /\ UNCHANGED <<image, data_bitmap, object>>
  /\ UNCHANGED inode_bitmap

ScanCheck ==
  /\ pc = "scan_check"
  /\ \/ /\ inode_buf.status # "Used"
        /\ pc' = "scan"
        /\ call' = [call EXCEPT !.inode_n = @ + 1]
        /\ UNCHANGED inode_bitmap
     \/ /\ inode_buf.status = "Used"
        /\ inode_bitmap' = inode_bitmap \cup {call.inode_n}
        /\ pc' = "mark"
        /\ UNCHANGED call
  /\ UNCHANGED <<image, data_bitmap, object, result>>

(* format, with an inode object and a bitmap of its own: every inode is    *)
(* loaded, reset and committed.  It divides an image that has been cut     *)
(* anew, into other numbers of inodes and blocks, which are constants      *)
(* here: only the format of an image that has kept its size is modelled.   *)
FormatCall ==
  /\ pc = "off"
  /\ CutBlocks = {}
  /\ Clear
  /\ pc' = "format"
  /\ call' = [NoCall EXCEPT !.op = "format"]
  /\ result' = Pending
  /\ inode_bitmap' = {} /\ data_bitmap' = {}
  /\ UNCHANGED image

Format ==
  /\ pc = "format"
  /\ \/ /\ call.inode_n < NInodes
        /\ LoadInode(call, call.inode_n, "format_reset")
     \/ /\ call.inode_n = NInodes
        /\ pc' = "off" /\ call' = NoCall /\ result' = Ok(0)
        /\ UNCHANGED <<image, data_bitmap, object>>
  /\ UNCHANGED inode_bitmap

FormatReset ==
  /\ pc = "format_reset"
  /\ inode_buf' = [inode_buf EXCEPT !.status = "Free", !.file_len = 0]
  /\ pc' = "commit"
  /\ UNCHANGED <<image, bitmaps, loaded_inode_n, inode, ptrs_to_allocate,
                 lists, call, result>>

(* The process ends, at rest or between any two steps: only the image      *)
(* stays.  Every block write reaches the image before the next step.       *)
Crash ==
  /\ pc # "off"
  /\ Clear
  /\ inode_bitmap' = {} /\ data_bitmap' = {}
  /\ pc' = "off" /\ call' = NoCall /\ result' = Pending
  /\ UNCHANGED image

-----------------------------------------------------------------------------
FileCall ==
  \/ \E n \in InodeNs :
       RemoveCall(n) \/ \E op \in {"length", "name"} : LookupCall(op, n)
  \/ \E n \in InodeNs, offset \in Offsets, length \in ReadLengths :
       ReadCall(n, offset, length)
  \/ \E n \in InodeNs, offset \in Offsets, data \in Payloads :
       WriteCall(n, offset, data)
  \/ \E long_name \in BOOLEAN :
       CreateFile(long_name) \/ \E n \in InodeNs : RenameCall(n, long_name)

Invoke == FileCall \/ MountCall \/ FormatCall

InodeStep ==
  /\ LoadIndirect \/ CommitDirect \/ FillIndirect \/ ExtendChain
     \/ StoreIndirect
  /\ UNCHANGED inode_bitmap

Step ==
  \/ InodeStep \/ Writeback
  \/ LookupReturn \/ ReadBlocks
  \/ EditFirst \/ EditRest \/ WriteTail \/ StoreBlocks
  \/ Unlink \/ MarkLoad \/ Mark \/ MarkIndirect
  \/ Scan \/ ScanCheck \/ Format \/ FormatReset

Next == Invoke \/ Step \/ Crash

Spec == Init /\ [][Next]_vars

(* A call that has started goes on: the code waits for nobody.             *)
FairSpec == Spec /\ WF_vars(Step)

-----------------------------------------------------------------------------
(* Every variable keeps its type, whatever the image has come to hold.     *)
TypeOK ==
  /\ inodes \in [InodeNs -> InodeBlock]
  /\ blocks \in [DataNs -> Block]
  /\ inode_bitmap \subseteq InodeNs
  /\ data_bitmap \subseteq DataNs
  /\ loaded_inode_n \in InodeNs \cup {Null}
  /\ inode \in InodeBlock
  /\ inode_buf \in InodeBlock
  /\ ptrs_to_allocate \in Seq(DataNs)
  /\ indirect_block_n \in Seq(Words)
  /\ indirect_ptrs_list \in Seq(Words)
  /\ pc \in Labels
  /\ call \in Call
  /\ result \in Result

(* meta() and ptr() throw when no inode is loaded.  They never do: every   *)
(* step of a call that uses the inode object finds it under the number of  *)
(* the inode the call is about.  That is no more than the number: after a  *)
(* load that threw, the inode under it is another one.                     *)
AfterLoad == {"return", "read", "edit", "unlink", "mark", "scan_check",
              "format_reset", "commit"}
InUse     == AfterLoad \cup {"mark_indirect", "edit_rest", "tail", "store", "fill",
                            "extend", "extend_store", "writeback"}

NumberLoaded == pc \in InUse => loaded_inode_n = call.inode_n

(* Blocks wait for allocation from the first one a write stores to the end *)
(* of its commit.  Of all the ways a call can end, by an error, for want   *)
(* of blocks, on a corrupt chain, one alone leaves blocks pending for the  *)
(* next commit, of whichever inode: the write of a block the image lacks.  *)
NoneButCut ==
  \/ ptrs_to_allocate = <<>>
  \/ \E k \in 1 .. Len(ptrs_to_allocate) : ptrs_to_allocate[k] \in CutBlocks

NothingPending ==
  /\ pc \notin {"store", "commit", "fill", "writeback"} => NoneButCut
  /\ pc \in {"off", "idle"} => call = NoCall

(* The counters of a running call stay within what they index: the data of *)
(* the caller, the part of it that edit_data writes, the inodes of the     *)
(* image.  The list of pointers is not among them: see ListCoversFile.     *)
LocalsInRange ==
  /\ call.n_edited <= Len(call.data) /\ call.n_edited <= call.offset
  /\ pc \notin {"off", "idle", "scan", "format"} => call.inode_n \in InodeNs
  /\ pc = "load" => call.next \in AfterLoad

(* Every call comes to an end: the loops of load, edit_data, write, commit *)
(* and scan_blocks all make progress, on any image they may meet.          *)
CallsEnd == pc \notin {"off", "idle"} ~> pc \in {"off", "idle"}
=============================================================================
