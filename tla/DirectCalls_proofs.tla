------------------------- MODULE DirectCalls_proofs -------------------------
(***************************************************************************)
(* Lemmas for DirectFiles_proofs: the invariant of files on direct         *)
(* pointers is kept by the start and the end of every call, by all of a    *)
(* write up to its last block, and by the first half of Inode::commit.     *)
(***************************************************************************)
EXTENDS DirectFiles, FileSystem_proofs

(* An image that has all its blocks: every write reaches its block, and no *)
(* call leaves blocks pending.                                             *)
LEMMA AllStored == StoredNs = DataNs /\ (NoneButCut => ptrs_to_allocate = <<>>)
  BY WholeImage DEF StoredNs, NoneButCut

(* The inductive invariant: Inv of every call sequence, and DirectInv.     *)
Tracked == Inv /\ DirectInv

LEMMA InitTracked == Init => Tracked
  <1> SUFFICES ASSUME Init PROVE Tracked
    OBVIOUS
  <1>1. Inv
    BY InitInv
  <1>2. \A n \in InodeNs : inodes[n] = ZeroInode /\ inodes[n].file_len = 0
                           /\ inodes[n].status = "Free"
    BY DEF Init, ZeroInode
  <1>3. UsedInodes = {}
    BY <1>2 DEF UsedInodes
  <1>4. pc = "off" /\ call.op = "none" /\ ptrs_to_allocate = <<>>
        /\ loaded_inode_n = Null /\ inode = inode_buf
        /\ indirect_block_n = <<>> /\ indirect_ptrs_list = <<>>
    BY DEF Init, NoCall
  <1>5. Holders = {}
    BY <1>3, <1>4 DEF Holders, Releasing
  <1>6. \A n \in InodeNs : NBlocks(inodes[n]) <= NDirect
    BY <1>2, LayoutAssumption DEF NBlocks, BytesToBlocks
  <1>7. StepsOfCalls /\ ObjectTracks /\ BufferTracks /\ WriteTracks
    BY <1>4, <1>6 DEF StepsOfCalls, ObjectTracks, BufferTracks, WriteTracks
  <1>8. PtrsApart /\ FreshApart /\ InodesTracked /\ BlocksTracked
    BY <1>4, <1>5 DEF PtrsApart, FreshApart, InodesTracked, BlocksTracked,
                          Releasing
  <1> QED
    BY <1>1, <1>7, <1>8 DEF Tracked, DirectInv

(* An inode of the image has all its blocks in its direct pointers.        *)
LEMMA ShortInode ==
  ASSUME Tracked, NEW n \in InodeNs
  PROVE  /\ inodes[n] \in InodeBlock /\ NBlocks(inodes[n]) \in 0 .. NDirect
         /\ ~HasIndirect(inodes[n]) /\ PtrSlots(n) \subseteq 0 .. NDirect - 1
  <1>1. inodes[n] \in InodeBlock
    BY DEF Tracked, Inv, TypeOK
  <1>2. NBlocks(inodes[n]) \in Nat
    BY <1>1, BlocksType DEF NBlocks, InodeBlock
  <1>3. NBlocks(inodes[n]) <= NDirect
    BY DEF Tracked, DirectInv, ObjectTracks
  <1> QED
    BY <1>1, <1>2, <1>3, LayoutAssumption
    DEF PtrSlots, HasIndirect, NIndirectPtrs, NBlocks

(* So a load is one step, and afterwards object and copy are the inode.    *)
LEMMA ShortLoad ==
  ASSUME Tracked, pc \notin {"commit", "writeback"}, NEW n \in InodeNs,
         NEW c, NEW label, LoadInode(c, n, label)
  PROVE  /\ inode' = inodes[n] /\ inode_buf' = inodes[n] /\ loaded_inode_n' = n
         /\ UNCHANGED <<inodes, blocks, data_bitmap, ptrs_to_allocate>>
         /\ UNCHANGED <<indirect_block_n, indirect_ptrs_list>>
         /\ pc' = label /\ call' = c /\ result' = Pending
  <1>1. ~HasIndirect(inodes[n])
    BY ShortInode
  <1>2. n # Null
    BY DEF InodeNs, Null
  <1>3. loaded_inode_n = n => inode = inodes[n] /\ inode_buf = inodes[n]
    BY <1>2 DEF Tracked, DirectInv, ObjectTracks
  <1> QED
    BY <1>1, <1>3 DEF LoadInode, LoadCached, LoadDirect, image, lists

-----------------------------------------------------------------------------
(* At most steps the holders are the used inodes, all their blocks are     *)
(* marked, and the new blocks are the pending ones.                        *)
Ordinary == /\ call.op \notin {"mount", "format"} /\ ~Releasing
            /\ pc \notin {"off", "writeback", "mark", "mark_indirect"}

Pendings == {ptrs_to_allocate[k] : k \in 1 .. Len(ptrs_to_allocate)}

LEMMA WhenOrdinary ==
  Ordinary => /\ Holders = UsedInodes /\ Fresh = Pendings
              /\ \A n \in InodeNs : MarkedSlots(n) = PtrSlots(n)
  BY DEF Ordinary, Holders, Fresh, Pendings, MarkedSlots

(* A step between ordinary states that changes neither inodes nor bitmaps. *)
LEMMA QuietStep ==
  ASSUME Tracked, Ordinary, Ordinary',
         UNCHANGED <<inodes, inode_bitmap, data_bitmap, ptrs_to_allocate>>,
         call'.op \in {"length", "name", "read", "write", "rename", "remove"}
           => call'.inode_n \in UsedInodes
  PROVE  PtrsApart' /\ FreshApart' /\ InodesTracked' /\ BlocksTracked'
  <1>1. /\ Holders = UsedInodes /\ Fresh = Pendings
        /\ \A n \in InodeNs : MarkedSlots(n) = PtrSlots(n)
    BY WhenOrdinary
  <1>2. /\ Holders' = UsedInodes' /\ Fresh' = Pendings'
        /\ \A n \in InodeNs : MarkedSlots(n)' = PtrSlots(n)'
    BY DEF Ordinary, Holders, Fresh, Pendings, MarkedSlots
  <1>3. /\ UsedInodes' = UsedInodes /\ Pendings' = Pendings
        /\ \A n \in InodeNs : PtrSlots(n)' = PtrSlots(n)
    BY DEF UsedInodes, Pendings, PtrSlots
  <1>4. Holders' = Holders /\ Fresh' = Fresh /\ Holders \subseteq InodeNs
        /\ \A n \in InodeNs : MarkedSlots(n)' = MarkedSlots(n)
    BY <1>1, <1>2, <1>3 DEF UsedInodes
  <1>5. PtrsApart'
    BY <1>3, <1>4 DEF Tracked, DirectInv, PtrsApart
  <1>6. FreshApart'
    BY <1>3, <1>4 DEF Tracked, DirectInv, FreshApart, Ordinary
  <1>7. InodesTracked'
    BY <1>1, <1>4 DEF Tracked, DirectInv, InodesTracked, Ordinary
  <1>8. BlocksTracked'
    BY <1>4 DEF Tracked, DirectInv, BlocksTracked, Ordinary
  <1> QED
    BY <1>5, <1>6, <1>7, <1>8

(* Nothing of DirectInv is about the words of the blocks or the result.    *)
LEMMA UnchangedTracked ==
  ASSUME DirectInv, UNCHANGED <<inodes, bitmaps, object, pc, call>>
  PROVE  DirectInv'
  <1>1. StepsOfCalls' /\ ObjectTracks' /\ BufferTracks'
    BY DEF DirectInv, StepsOfCalls, ObjectTracks, BufferTracks, NBlocks, NewSlots,
           object, lists
  <1>2. WriteTracks'
    BY DEF DirectInv, WriteTracks, NBlocks, NAdded, NDone, EditLen, FreeBlocks,
           bitmaps, object
  <1>3. /\ Holders' = Holders /\ Fresh' = Fresh /\ UsedInodes' = UsedInodes
        /\ NewSlots' = NewSlots
    BY DEF Holders, Releasing, UsedInodes, Fresh, NewSlots, NBlocks, object
  <1>4. \A n \in Holders : PtrSlots(n)' = PtrSlots(n)
                           /\ MarkedSlots(n)' = MarkedSlots(n)
    BY DEF PtrSlots, NBlocks, MarkedSlots, Releasing
  <1>5. PtrsApart'
    BY <1>3, <1>4 DEF DirectInv, PtrsApart
  <1>6. FreshApart'
    BY <1>3, <1>4 DEF DirectInv, FreshApart, object
  <1>7. InodesTracked'
    BY <1>3, <1>4 DEF DirectInv, InodesTracked, bitmaps, Releasing
  <1>8. BlocksTracked'
    BY <1>3, <1>4 DEF DirectInv, BlocksTracked, bitmaps
  <1> QED
    BY <1>1, <1>2, <1>5, <1>6, <1>7, <1>8 DEF DirectInv

LEMMA AnswerTracked ==
  ASSUME DirectInv, NEW r, Answer(r)
  PROVE  DirectInv'
  BY UnchangedTracked DEF Answer, image

(* A call that ends in an ordinary state, well or not.                     *)
LEMMA EndTracked ==
  ASSUME Tracked, Ordinary, pc # "commit", pc' = "idle", call' = NoCall,
         UNCHANGED <<inodes, bitmaps, object>>
  PROVE  DirectInv'
  <1>1. Ordinary' /\ call'.op = "none"
    BY DEF Ordinary, Releasing, NoCall
  <1>2. PtrsApart' /\ FreshApart' /\ InodesTracked' /\ BlocksTracked'
    BY <1>1, QuietStep DEF bitmaps, object
  <1>3. StepsOfCalls' /\ BufferTracks' /\ WriteTracks'
    BY DEF StepsOfCalls, BufferTracks, WriteTracks
  <1>4. ObjectTracks'
    BY DEF Tracked, DirectInv, ObjectTracks, Ordinary, object, lists, NBlocks
  <1> QED
    BY <1>2, <1>3, <1>4 DEF DirectInv

(* The calls that begin by loading their inode.                            *)
LEMMA StartTracked ==
  ASSUME Tracked, pc = "idle", NEW op \in {"length", "name", "read", "rename", "remove"},
         NEW n \in inode_bitmap, NEW c, c \in Call, NEW label,
         Start(op, n, c, label),
         \/ op \in {"length", "name"} /\ label = "return"
         \/ op = "read" /\ label = "read"
         \/ op = "rename" /\ label = "commit"
         \/ op = "remove" /\ label = "unlink"
  PROVE  DirectInv'
  <1> DEFINE d == [c EXCEPT !.op = op, !.inode_n = n]
  <1>1. call = NoCall /\ call.op = "none" /\ ptrs_to_allocate = <<>>
    BY AllStored DEF Tracked, Inv, NothingPending, NoCall
  <1>2. d.op = op /\ d.inode_n = n
    BY DEF Call
  <1>3. Ordinary
    BY <1>1 DEF Ordinary, Releasing
  <1>4. inode_bitmap = UsedInodes /\ n \in UsedInodes /\ n \in InodeNs
    BY <1>1, <1>3, WhenOrdinary DEF Tracked, DirectInv, InodesTracked, UsedInodes
  <1>5. LoadInode(d, n, label) /\ UNCHANGED inode_bitmap
    BY DEF Start
  <1> HIDE DEF d
  <1>6. /\ inode' = inodes[n] /\ inode_buf' = inodes[n] /\ loaded_inode_n' = n
        /\ UNCHANGED <<inodes, blocks, data_bitmap, ptrs_to_allocate>>
        /\ UNCHANGED <<indirect_block_n, indirect_ptrs_list>>
        /\ pc' = label /\ call' = d
    BY <1>4, <1>5, ShortLoad
  <1>7. call'.op = op /\ call'.inode_n = n
    BY <1>2, <1>6
  <1>8. Ordinary'
    BY <1>6, <1>7 DEF Ordinary, Releasing
  <1>9. PtrsApart' /\ FreshApart' /\ InodesTracked' /\ BlocksTracked'
    <2>1. UNCHANGED <<inodes, inode_bitmap, data_bitmap, ptrs_to_allocate>>
      BY <1>5, <1>6
    <2>2. UsedInodes' = UsedInodes
      BY <1>6 DEF UsedInodes
    <2> QED
      BY <1>3, <1>4, <1>7, <1>8, <2>1, <2>2, QuietStep
  <1>10. StepsOfCalls'
    BY <1>6, <1>7 DEF StepsOfCalls
  <1>11. ObjectTracks'
    BY <1>6 DEF Tracked, DirectInv, ObjectTracks, NBlocks
  <1>12. BufferTracks'
    BY <1>6, <1>7 DEF BufferTracks
  <1>13. WriteTracks'
    BY <1>1, <1>6, <1>7 DEF WriteTracks
  <1> QED
    BY <1>9, <1>10, <1>11, <1>12, <1>13 DEF DirectInv

LEMMA LookupCallTracked ==
  ASSUME Tracked, NEW op \in {"length", "name"}, NEW n \in InodeNs, LookupCall(op, n)
  PROVE  DirectInv'
  BY AnswerTracked, StartTracked, ConstantTypes DEF LookupCall, Tracked

LEMMA ReadCallTracked ==
  ASSUME Tracked, NEW n \in InodeNs, NEW offset \in Nat, NEW length \in Nat,
         ReadCall(n, offset, length)
  PROVE  DirectInv'
  <1> DEFINE c == [NoCall EXCEPT !.offset = offset, !.length = length]
  <1>1. c \in Call
    BY ConstantTypes DEF Call, NoCall
  <1>2. pc = "idle" /\ (\/ \E r : Answer(r)
                        \/ n \in inode_bitmap /\ Start("read", n, c, "read"))
    BY DEF ReadCall
  <1> HIDE DEF c
  <1> QED
    BY <1>1, <1>2, AnswerTracked, StartTracked DEF Tracked

LEMMA RenameCallTracked ==
  ASSUME Tracked, NEW n \in InodeNs, NEW long_name \in BOOLEAN,
         RenameCall(n, long_name)
  PROVE  DirectInv'
  BY AnswerTracked, StartTracked, ConstantTypes DEF RenameCall, Tracked

LEMMA RemoveCallTracked ==
  ASSUME Tracked, NEW n \in InodeNs, RemoveCall(n)
  PROVE  DirectInv'
  BY AnswerTracked, StartTracked, ConstantTypes DEF RemoveCall, Tracked

LEMMA LookupReturnTracked ==
  ASSUME Tracked, LookupReturn
  PROVE  DirectInv'
  <1>1. Ordinary
    BY DEF LookupReturn, Tracked, DirectInv, StepsOfCalls, Ordinary, Releasing
  <1> QED
    BY <1>1, EndTracked DEF LookupReturn, Return, image

LEMMA ThrowEnds ==
  ASSUME Ordinary, Throw
  PROVE  pc' = "idle" /\ call' = NoCall
  BY DEF Ordinary, Throw

LEMMA ReadBlocksTracked ==
  ASSUME Tracked, ReadBlocks
  PROVE  DirectInv'
  <1>1. Ordinary /\ pc = "read"
    BY DEF ReadBlocks, Tracked, DirectInv, StepsOfCalls, Ordinary, Releasing
  <1>2. pc' = "idle" /\ call' = NoCall
    BY <1>1, ThrowEnds DEF ReadBlocks, Return
  <1> QED
    BY <1>1, <1>2, EndTracked DEF ReadBlocks, image

LEMMA UnlinkTracked ==
  ASSUME Tracked, Unlink
  PROVE  DirectInv'
  <1>1. /\ pc = "unlink" /\ call.op = "remove" /\ pc' = "commit" /\ call' = call
        /\ UNCHANGED <<inodes, blocks, bitmaps, loaded_inode_n, inode,
                       ptrs_to_allocate, lists>>
        /\ inode_buf = inode /\ inode_buf' = [inode_buf EXCEPT !.status = "Free"]
        /\ ptrs_to_allocate = <<>>
    BY AllStored
    DEF Unlink, image, Tracked, Inv, NothingPending, DirectInv, StepsOfCalls,
        ObjectTracks
  <1>2. Ordinary /\ Ordinary'
    BY <1>1 DEF Ordinary, Releasing
  <1>3. call.inode_n \in UsedInodes /\ UsedInodes' = UsedInodes
    BY <1>1, <1>2, WhenOrdinary DEF UsedInodes, Tracked, DirectInv, InodesTracked
  <1>4. PtrsApart' /\ FreshApart' /\ InodesTracked' /\ BlocksTracked'
    BY <1>1, <1>2, <1>3, QuietStep DEF bitmaps
  <1>5. inode \in InodeBlock /\ inode_buf \in InodeBlock
    BY DEF Tracked, Inv, TypeOK
  <1>6. BufferTracks'
    BY <1>1, <1>5 DEF BufferTracks, InodeBlock
  <1>7. ObjectTracks' /\ StepsOfCalls' /\ WriteTracks'
    BY <1>1 DEF Tracked, DirectInv, ObjectTracks, StepsOfCalls, WriteTracks, NBlocks,
                lists
  <1> QED
    BY <1>4, <1>6, <1>7 DEF DirectInv

-----------------------------------------------------------------------------
(* write, from the discipline it starts with to its last block.            *)
LEMMA WriteCallTracked ==
  ASSUME Tracked, NEW n \in InodeNs, NEW offset \in Nat, NEW data \in Seq(Words),
         WriteCall(n, offset, data), Careful, DirectOnly
  PROVE  DirectInv'
  <1> DEFINE c == [NoCall EXCEPT !.offset = offset, !.data = data]
             d == [c EXCEPT !.op = "write", !.inode_n = n]
  <1>1. CASE \E r : Answer(r)
    BY <1>1, AnswerTracked DEF Tracked
  <1>2. CASE n \in inode_bitmap /\ data # <<>> /\ Start("write", n, c, "edit")
    <2>1. pc = "idle" /\ call = NoCall /\ call.op = "none" /\ ptrs_to_allocate = <<>>
      BY AllStored DEF WriteCall, Tracked, Inv, NothingPending, NoCall
    <2>2. /\ d.op = "write" /\ d.inode_n = n /\ d.offset = offset /\ d.data = data
          /\ d.n_edited = 0 /\ d.n_written = 0
      BY DEF NoCall
    <2>3. Ordinary
      BY <2>1 DEF Ordinary, Releasing
    <2>4. n \in UsedInodes
      BY <1>2, <2>1, <2>3, WhenOrdinary
      DEF Tracked, DirectInv, InodesTracked, UsedInodes
    <2>5. LoadInode(d, n, "edit") /\ UNCHANGED inode_bitmap
      BY <1>2 DEF Start
    <2> HIDE DEF d, c
    <2>6. /\ inode' = inodes[n] /\ inode_buf' = inodes[n] /\ loaded_inode_n' = n
          /\ UNCHANGED <<inodes, blocks, data_bitmap, ptrs_to_allocate>>
          /\ UNCHANGED <<indirect_block_n, indirect_ptrs_list>>
          /\ pc' = "edit" /\ call' = d
      BY <2>1, <2>5, ShortLoad
    <2>7. Ordinary'
      BY <2>2, <2>6 DEF Ordinary, Releasing
    <2>8. PtrsApart' /\ FreshApart' /\ InodesTracked' /\ BlocksTracked'
      <3>1. UNCHANGED <<inodes, inode_bitmap, data_bitmap, ptrs_to_allocate>>
        BY <2>5, <2>6
      <3>2. UsedInodes' = UsedInodes
        BY <2>6 DEF UsedInodes
      <3> QED
        BY <2>2, <2>3, <2>4, <2>6, <2>7, <3>1, <3>2, QuietStep
    <2>9. StepsOfCalls'
      BY <2>2, <2>6 DEF StepsOfCalls
    <2>10. ObjectTracks'
      BY <2>6 DEF Tracked, DirectInv, ObjectTracks, NBlocks
    <2>11. BufferTracks'
      BY <2>6 DEF BufferTracks
    <2>12. Starts("write") /\ Target = inodes[n]
      BY <2>1, <2>2, <2>6 DEF Starts, Target
    <2>13. /\ NAdded' = NAppend /\ inode' = Target
           /\ BytesToBlocks(inode'.file_len + NAdded') <= NDirect
      BY <2>2, <2>6, <2>12
      DEF NAdded, EditLen, NAppend, NEdit, NewLen, DirectOnly
    <2>14. \/ EditAt < 0 \/ NAppend = 0 \/ NAppend >= FreeWords
      BY <2>12 DEF Careful, AppendFillsTail
    <2>15. EditAt < 0 => offset > inode'.file_len
      <3>1. inodes[n].file_len \in Nat /\ offset \in Nat
        BY DEF Tracked, Inv, TypeOK, InodeBlock
      <3> QED
        BY <2>2, <2>6, <2>12, <3>1 DEF EditAt
    <2>16. WriteTracks'
      BY <1>2, <2>1, <2>2, <2>6, <2>13, <2>14, <2>15
      DEF WriteTracks, FreeWords, NBlocks
    <2> QED
      BY <2>8, <2>9, <2>10, <2>11, <2>16 DEF DirectInv
  <1> QED
    BY <1>1, <1>2 DEF WriteCall

(* What is known of the numbers of a write that has begun.                 *)
LEMMA WriteNumbers ==
  ASSUME Tracked, pc \in {"edit", "edit_rest", "tail", "store"}
  PROVE  /\ inode = inode_buf /\ inode \in InodeBlock /\ inode.file_len \in Nat
         /\ call \in Call /\ call.offset \in Nat /\ Len(call.data) \in Nat
         /\ call.n_edited \in Nat /\ call.n_written \in Nat /\ call.left \in Nat
         /\ EditLen \in Nat /\ EditLen <= Len(call.data) /\ EditLen <= call.offset
         /\ call.n_edited <= EditLen
         /\ NAdded \in Nat /\ NAdded = Len(call.data) - EditLen
         /\ call.op = "write" /\ Ordinary /\ call.inode_n \in UsedInodes
  <1>1. inode \in InodeBlock /\ call \in Call /\ inode = inode_buf
    BY DEF Tracked, Inv, TypeOK, DirectInv, ObjectTracks
  <1>2. /\ call.offset \in Nat /\ Len(call.data) \in Nat /\ call.n_edited \in Nat
        /\ call.n_written \in Nat /\ call.left \in Nat /\ inode.file_len \in Nat
    BY <1>1 DEF Call, InodeBlock
  <1>3. call.n_edited <= Len(call.data) /\ call.n_edited <= call.offset
    BY DEF Tracked, Inv, LocalsInRange
  <1>4. call.op = "write" /\ Ordinary
    BY DEF Tracked, DirectInv, StepsOfCalls, Ordinary, Releasing
  <1>5. call.inode_n \in UsedInodes
    BY <1>4, WhenOrdinary DEF Tracked, DirectInv, InodesTracked
  <1> QED
    BY <1>1, <1>2, <1>3, <1>4, <1>5 DEF EditLen, Smaller, NAdded

(* A step of write that leaves the inodes, the object and the bitmaps.     *)
LEMMA WriteStepTracked ==
  ASSUME Tracked, pc \in {"edit", "edit_rest", "tail"},
         pc' \in {"edit_rest", "tail", "store"},
         UNCHANGED <<inodes, bitmaps, object>>,
         call'.op = call.op, call'.inode_n = call.inode_n, WriteTracks'
  PROVE  DirectInv'
  <1>1. call.op = "write" /\ Ordinary /\ call.inode_n \in UsedInodes
    BY WriteNumbers
  <1>2. Ordinary' /\ UsedInodes' = UsedInodes
    BY <1>1 DEF Ordinary, Releasing, UsedInodes
  <1>3. PtrsApart' /\ FreshApart' /\ InodesTracked' /\ BlocksTracked'
    BY <1>1, <1>2, QuietStep DEF bitmaps, object
  <1>4. StepsOfCalls' /\ BufferTracks'
    BY <1>1 DEF StepsOfCalls, BufferTracks
  <1>5. ObjectTracks'
    BY DEF Tracked, DirectInv, ObjectTracks, object, lists, NBlocks
  <1> QED
    BY <1>3, <1>4, <1>5 DEF DirectInv

LEMMA EditFirstTracked ==
  ASSUME Tracked, EditFirst
  PROVE  DirectInv'
  <1>1. pc = "edit" /\ UNCHANGED <<inodes, bitmaps, object>> /\ Ordinary
    BY WriteNumbers DEF EditFirst
  <1>2. CASE (pc' = "idle" /\ call' = NoCall) \/ Throw
    BY <1>1, <1>2, ThrowEnds, EndTracked
  <1>3. CASE call.offset = 0 /\ pc' = "tail" /\ UNCHANGED call
    <2>1. call.n_edited = 0 /\ call.data # <<>>
      BY <1>1 DEF Tracked, DirectInv, WriteTracks
    <2>2. EditLen = 0
      BY <1>1, <1>3, WriteNumbers
    <2>3. call.data \in Seq(Words)
      BY <1>1, WriteNumbers DEF Call
    <2>4. NAdded > 0
      BY <1>1, <2>1, <2>2, <2>3, WriteNumbers
    <2>5. WriteTracks'
      BY <1>1, <1>3, <2>1, <2>2, <2>4, WriteNumbers
      DEF Tracked, DirectInv, WriteTracks, NAdded, EditLen, NBlocks, object
    <2> QED
      BY <1>1, <1>3, <2>5, WriteStepTracked
  <1>4. CASE /\ call.offset > 0 /\ inode_buf.file_len - call.offset >= 0
             /\ pc' = "edit_rest"
             /\ LET abs_offset == inode_buf.file_len - call.offset
                    first      == abs_offset % BlockSize
                    n_write    == Smaller(BlockSize - first, EditLen)
                IN  call' = [call EXCEPT
                          !.n_edited = n_write,
                          !.i = abs_offset \div BlockSize + 1,
                          !.left = IF EditLen > n_write THEN BytesToBlocks(EditLen)
                                   ELSE 0]
    <2>1. PICK w \in Nat, l \in Nat :
            /\ call'.n_edited = w /\ call'.left = l /\ w <= EditLen
            /\ EditLen - w <= l * BlockSize
      <3> DEFINE w == Smaller(BlockSize - ((inode_buf.file_len - call.offset) % BlockSize),
                              EditLen)
                 l == IF EditLen > w THEN BytesToBlocks(EditLen) ELSE 0
      <3>1. BlockSize \in Nat \ {0, 1} /\ inode_buf.file_len - call.offset \in Nat
            /\ EditLen \in Nat /\ call \in Call
        BY <1>1, <1>4, WriteNumbers, LayoutAssumption
      <3>2. (inode_buf.file_len - call.offset) % BlockSize \in 0 .. BlockSize - 1
        BY <3>1, DivByBlock
      <3>3. w \in Nat /\ w <= EditLen
        BY <3>1, <3>2 DEF Smaller
      <3>4. l \in Nat /\ EditLen - w <= l * BlockSize
        <4>1. CASE EditLen > w
          BY <3>1, <3>3, <4>1, BlocksCover
        <4>2. CASE ~(EditLen > w)
          BY <3>1, <3>3, <4>2
        <4> QED
          BY <4>1, <4>2
      <3>5. PICK k : call' = [call EXCEPT !.n_edited = w, !.i = k, !.left = l]
        BY <1>4
      <3> HIDE DEF w, l
      <3>6. call'.n_edited = w /\ call'.left = l
        BY <3>1, <3>5 DEF Call
      <3> QED
        BY <3>3, <3>4, <3>6
    <2>2. /\ call'.op = call.op /\ call'.inode_n = call.inode_n
          /\ call'.data = call.data /\ call'.offset = call.offset
          /\ call'.n_written = call.n_written
      BY <1>1, <1>4, WriteNumbers DEF Call
    <2>3. NAdded' = NAdded /\ EditLen' = EditLen /\ call.offset <= inode.file_len
      BY <1>1, <1>4, <2>2, WriteNumbers DEF NAdded, EditLen
    <2>4. WriteTracks'
      BY <1>1, <1>4, <2>1, <2>2, <2>3, WriteNumbers
      DEF Tracked, DirectInv, WriteTracks, NBlocks, object
    <2> QED
      BY <1>1, <1>4, <2>2, <2>4, WriteStepTracked
  <1> QED
    BY <1>2, <1>3, <1>4 DEF EditFirst, Return

LEMMA EditRestTracked ==
  ASSUME Tracked, EditRest
  PROVE  DirectInv'
  <1>1. pc = "edit_rest" /\ UNCHANGED <<inodes, bitmaps, object>> /\ Ordinary
    BY WriteNumbers DEF EditRest
  <1>2. CASE (pc' = "idle" /\ call' = NoCall) \/ Throw
    BY <1>1, <1>2, ThrowEnds, EndTracked
  <1>3. CASE /\ call.left > 0 /\ pc' = pc
             /\ LET n_write == Smaller(BlockSize, EditLen - call.n_edited)
                IN  call' = [call EXCEPT !.n_edited = @ + n_write, !.i = @ + 1,
                                         !.left = @ - 1]
    <2>1. PICK w \in Nat, l \in Nat :
            /\ call'.n_edited = w /\ call'.left = l /\ w <= EditLen
            /\ EditLen - w <= l * BlockSize
      <3> DEFINE w == call.n_edited + Smaller(BlockSize, EditLen - call.n_edited)
                 l == call.left - 1
      <3>1. BlockSize \in Nat \ {0, 1} /\ call.n_edited \in Nat /\ call.left \in Nat
            /\ EditLen \in Nat /\ call.n_edited <= EditLen /\ call \in Call
        BY <1>1, WriteNumbers, LayoutAssumption
      <3>2. w \in Nat /\ w <= EditLen /\ l \in Nat
        BY <1>3, <3>1 DEF Smaller
      <3>3. EditLen - call.n_edited <= call.left * BlockSize
        BY <1>1 DEF Tracked, DirectInv, WriteTracks
      <3>4. l * BlockSize = call.left * BlockSize - BlockSize
            /\ l * BlockSize \in Nat
        BY <3>1, <3>2
      <3>5. EditLen - w <= l * BlockSize
        BY <3>1, <3>3, <3>4 DEF Smaller
      <3>6. call'.n_edited = w /\ call'.left = l
        BY <1>3, <3>1 DEF Call
      <3> QED
        BY <3>2, <3>5, <3>6
    <2>2. /\ call'.op = call.op /\ call'.inode_n = call.inode_n
          /\ call'.data = call.data /\ call'.offset = call.offset
          /\ call'.n_written = call.n_written
      BY <1>1, <1>3, WriteNumbers DEF Call
    <2>3. NAdded' = NAdded /\ EditLen' = EditLen
      BY <2>2 DEF NAdded, EditLen
    <2>4. WriteTracks'
      BY <1>1, <1>3, <2>1, <2>2, <2>3
      DEF Tracked, DirectInv, WriteTracks, NBlocks, object
    <2> QED
      BY <1>1, <1>3, <2>2, <2>4, WriteStepTracked
  <1>4. CASE call.left = 0 /\ call.n_edited # Len(call.data) /\ pc' = "tail"
             /\ UNCHANGED call
    <2>1. EditLen - call.n_edited <= 0 * BlockSize
      BY <1>1, <1>4 DEF Tracked, DirectInv, WriteTracks
    <2>2. call.n_edited = EditLen /\ NAdded > 0
      BY <1>1, <1>4, <2>1, WriteNumbers, LayoutAssumption
    <2>3. WriteTracks'
      BY <1>1, <1>4, <2>2
      DEF Tracked, DirectInv, WriteTracks, NAdded, EditLen, NBlocks, object
    <2> QED
      BY <1>1, <1>4, <2>3, WriteStepTracked
  <1> QED
    BY <1>2, <1>3, <1>4 DEF EditRest, Return

(* After the edit the discipline leaves nothing to append, or enough to    *)
(* fill the last block up.                                                 *)
LEMMA WriteTailTracked ==
  ASSUME Tracked, WriteTail
  PROVE  DirectInv'
  <1> DEFINE free == BytesToBlocks(inode_buf.file_len) * BlockSize - inode_buf.file_len
             rest == SubSeq(call.data, call.n_edited + 1, Len(call.data))
             len  == inode.file_len
  <1>1. pc = "tail" /\ UNCHANGED <<inodes, bitmaps, object>> /\ Ordinary
    BY WriteNumbers DEF WriteTail
  <1>2. CASE Throw
    BY <1>1, <1>2, ThrowEnds, EndTracked
  <1>3. CASE ~Throw
    <2>1. /\ len \in Nat /\ inode_buf = inode /\ call \in Call
          /\ call.n_edited = EditLen /\ NAdded \in Nat \ {0} /\ EditLen \in Nat
          /\ Len(call.data) = EditLen + NAdded /\ call.offset <= len
          /\ call.n_written = 0 /\ BytesToBlocks(len + NAdded) <= NDirect
      BY <1>1, WriteNumbers DEF Tracked, DirectInv, WriteTracks
    <2>2. PICK full \in Nat :
            /\ full = BytesToBlocks(len) * BlockSize /\ full >= len
            /\ full % BlockSize = 0 /\ BytesToBlocks(full) = BytesToBlocks(len)
      BY <2>1, FilledUp
    <2>3. free = full - len /\ free \in Nat /\ len + free = full
      BY <2>1, <2>2
    <2>4. NAdded >= free
      <3>1. \/ call.offset > inode.file_len \/ NAdded = 0
            \/ NAdded >= NBlocks(inode) * BlockSize - inode.file_len
        BY <1>1 DEF Tracked, DirectInv, WriteTracks
      <3>2. ~(call.offset > inode.file_len) /\ NAdded # 0
        BY <1>1, <2>1, WriteNumbers
      <3> QED
        BY <2>2, <2>3, <3>1, <3>2 DEF NBlocks
    <2>5. Len(rest) = NAdded
      BY <2>1 DEF Call
    <2>6. /\ pc' = "store"
          /\ \/ free = 0
                /\ call' = [call EXCEPT !.left = BytesToBlocks(Len(rest))]
             \/ call' = [call EXCEPT !.n_written = free, !.free_bytes = free,
                                     !.left = BytesToBlocks(Len(rest) - free)]
      BY <1>3 DEF WriteTail
    <2> HIDE DEF free, rest
    <2>7. /\ call'.op = call.op /\ call'.inode_n = call.inode_n
          /\ call'.data = call.data /\ call'.offset = call.offset
          /\ call'.n_edited = EditLen /\ call'.n_written = free
          /\ call'.left = BytesToBlocks(NAdded - free)
      <3>1. CASE free = 0 /\ call' = [call EXCEPT !.left = BytesToBlocks(Len(rest))]
        BY <2>1, <2>5, <3>1 DEF Call
      <3>2. CASE call' = [call EXCEPT !.n_written = free, !.free_bytes = free,
                                      !.left = BytesToBlocks(Len(rest) - free)]
        BY <2>1, <2>5, <3>2 DEF Call
      <3> QED
        BY <2>6, <3>1, <3>2
    <2>8. NAdded' = NAdded /\ EditLen' = EditLen /\ NDone' = EditLen + free
          /\ UNCHANGED <<inode, ptrs_to_allocate>>
      BY <1>1, <2>7 DEF NAdded, EditLen, NDone, object
    <2>9. ptrs_to_allocate = <<>>
      BY <1>1, AllStored DEF Tracked, Inv, NothingPending
    <2>10. Len(call'.data) - NDone' = NAdded - free /\ NDone' <= Len(call'.data)
      <3>1. PICK e \in Nat, m \in Nat, f \in Nat : e = EditLen /\ m = NAdded /\ f = free
        BY <2>1, <2>3
      <3>2. Len(call'.data) = e + m /\ NDone' = e + f
        BY <2>1, <2>7, <2>8, <3>1
      <3>3. (e + m) - (e + f) = m - f /\ (f <= m => e + f <= e + m)
        OBVIOUS
      <3> QED
        BY <2>4, <3>1, <3>2, <3>3
    <2>11. Len(ptrs_to_allocate') =
             BytesToBlocks(inode'.file_len + call'.n_written) - NBlocks(inode')
      <3>1. BytesToBlocks(len) \in Nat
        BY <2>1, BlocksCover
      <3> QED
        BY <2>2, <2>3, <2>7, <2>8, <2>9, <3>1 DEF NBlocks
    <2>12. WriteTracks'
      BY <2>1, <2>2, <2>3, <2>6, <2>7, <2>8, <2>10, <2>11 DEF WriteTracks
    <2> QED
      BY <1>1, <2>6, <2>7, <2>12, WriteStepTracked
  <1> QED
    BY <1>2, <1>3

(* The numbers at which write's loop stands.                               *)
LEMMA StoreNumbers ==
  ASSUME Tracked, pc = "store"
  PROVE  /\ inode.file_len \in Nat /\ call.n_written \in Nat /\ NDone \in Nat
         /\ Len(call.data) - NDone \in Nat
         /\ call.n_written + (Len(call.data) - NDone) = NAdded
         /\ NAdded \in Nat /\ call.n_written <= NAdded
         /\ BytesToBlocks(inode.file_len + NAdded) <= NDirect
         /\ BytesToBlocks(inode.file_len + call.n_written)
              <= BytesToBlocks(inode.file_len + NAdded)
         /\ NBlocks(inode) \in Nat
         /\ BytesToBlocks(inode.file_len + call.n_written) \in Nat
         /\ NBlocks(inode) <= BytesToBlocks(inode.file_len + call.n_written)
  <1>1. /\ inode.file_len \in Nat /\ call.n_written \in Nat /\ EditLen \in Nat
        /\ Len(call.data) \in Nat /\ NAdded = Len(call.data) - EditLen /\ NAdded \in Nat
    BY WriteNumbers
  <1>2. /\ call.n_edited = EditLen /\ NDone <= Len(call.data)
        /\ BytesToBlocks(inode.file_len + NAdded) <= NDirect
    BY DEF Tracked, DirectInv, WriteTracks
  <1>3. /\ NDone \in Nat /\ Len(call.data) - NDone \in Nat
        /\ call.n_written + (Len(call.data) - NDone) = NAdded
        /\ call.n_written <= NAdded
    <2>1. PICK e \in Nat, w \in Nat, a \in Nat :
            e = EditLen /\ w = call.n_written /\ a = Len(call.data)
      BY <1>1
    <2>2. NDone = e + w /\ NAdded = a - e /\ e + w <= a
      BY <1>1, <1>2, <2>1 DEF NDone
    <2>3. /\ e + w \in Nat /\ a - (e + w) \in Nat
          /\ w + (a - (e + w)) = a - e /\ w <= a - e
      BY <2>2
    <2> QED
      BY <2>1, <2>2, <2>3
  <1>4. BytesToBlocks(inode.file_len + call.n_written)
          <= BytesToBlocks(inode.file_len + NAdded)
    <2>1. PICK a \in Nat : a = inode.file_len + call.n_written
      BY <1>1
    <2>2. PICK c \in Nat : c = inode.file_len + NAdded
      BY <1>1
    <2>3. a <= c
      BY <1>1, <1>3, <2>1, <2>2
    <2>4. BytesToBlocks(a) <= BytesToBlocks(c)
      BY <2>3, BlocksMonotone
    <2> QED
      BY <2>1, <2>2, <2>4
  <1>5. BytesToBlocks(inode.file_len + call.n_written) \in Nat
    <2>1. inode.file_len + call.n_written \in Nat
      BY <1>1
    <2> QED
      BY <2>1, BlocksCover
  <1>6. BytesToBlocks(inode.file_len) \in Nat
    BY <1>1, BlocksCover
  <1>7. BytesToBlocks(inode.file_len) <= BytesToBlocks(inode.file_len + call.n_written)
    <2>1. /\ inode.file_len + call.n_written \in Nat
          /\ inode.file_len <= inode.file_len + call.n_written
      BY <1>1
    <2> QED
      BY <1>1, <2>1, BlocksMonotone
  <1> QED
    BY <1>1, <1>2, <1>3, <1>4, <1>5, <1>6, <1>7 DEF NBlocks

(* The block that write allocates is nobody's yet: it joins the pending.   *)
LEMMA StoreAllocates ==
  ASSUME Tracked, pc = "store", pc' = pc, NEW b \in FreeBlocks,
         data_bitmap' = data_bitmap \cup {b},
         ptrs_to_allocate' = Append(ptrs_to_allocate, b),
         call'.op = call.op, call'.inode_n = call.inode_n,
         UNCHANGED <<inodes, inode_bitmap, inode, inode_buf>>
  PROVE  PtrsApart' /\ FreshApart' /\ InodesTracked' /\ BlocksTracked'
  <1>1. call.op = "write" /\ Ordinary /\ call.inode_n \in UsedInodes
    BY WriteNumbers
  <1>2. Ordinary'
    BY <1>1 DEF Ordinary, Releasing
  <1>3. /\ Holders = UsedInodes /\ Fresh = Pendings /\ Holders \subseteq InodeNs
        /\ \A n \in InodeNs : MarkedSlots(n) = PtrSlots(n)
    BY <1>1, WhenOrdinary DEF UsedInodes
  <1>4. /\ Holders' = Holders /\ Fresh' = Pendings'
        /\ \A n \in InodeNs : PtrSlots(n)' = PtrSlots(n)
                              /\ MarkedSlots(n)' = MarkedSlots(n)
    BY <1>2, <1>3 DEF Ordinary, Holders, Fresh, Pendings, MarkedSlots, UsedInodes,
                      PtrSlots
  <1>5. ptrs_to_allocate \in Seq(DataNs) /\ b \in DataNs /\ b \notin data_bitmap
    BY DEF Tracked, Inv, TypeOK, FreeBlocks
  <1>6. Pendings' = Pendings \cup {b}
    BY <1>5 DEF Pendings
  <1>7. /\ b \notin Pendings
        /\ \A n \in Holders : \A i \in PtrSlots(n) : inodes[n].direct_ptr[i] # b
    <2>1. \A n \in Holders : MarkedSlots(n) = PtrSlots(n)
      BY <1>3
    <2> QED
      BY <1>1, <1>3, <1>5, <2>1 DEF Tracked, DirectInv, BlocksTracked, Ordinary
  <1>8. PtrsApart'
    BY <1>3, <1>4 DEF Tracked, DirectInv, PtrsApart
  <1>9. FreshApart'
    <2>1. \A k, l \in 1 .. Len(ptrs_to_allocate') :
            ptrs_to_allocate'[k] = ptrs_to_allocate'[l] => k = l
      <3>1. \A k \in 1 .. Len(ptrs_to_allocate) :
              ptrs_to_allocate'[k] = ptrs_to_allocate[k] /\ ptrs_to_allocate[k] # b
        BY <1>5, <1>7 DEF Pendings
      <3>2. /\ Len(ptrs_to_allocate') = Len(ptrs_to_allocate) + 1
            /\ ptrs_to_allocate'[Len(ptrs_to_allocate) + 1] = b
            /\ Len(ptrs_to_allocate) \in Nat
        BY <1>5
      <3>3. \A k, l \in 1 .. Len(ptrs_to_allocate) :
              ptrs_to_allocate[k] = ptrs_to_allocate[l] => k = l
        BY DEF Tracked, DirectInv, FreshApart
      <3> QED
        BY <3>1, <3>2, <3>3
    <2>2. \A n \in Holders' : \A i \in PtrSlots(n)' :
            inodes'[n].direct_ptr[i] \notin Fresh'
      BY <1>3, <1>4, <1>6, <1>7 DEF Tracked, DirectInv, FreshApart
    <2> QED
      BY <1>2, <2>1, <2>2 DEF FreshApart, Ordinary
  <1>10. InodesTracked'
    BY <1>1, <1>3, <1>4 DEF Tracked, DirectInv, InodesTracked, Releasing
  <1>11. BlocksTracked'
    <2>1. \A n \in Holders : MarkedSlots(n)' = MarkedSlots(n)
      BY <1>3, <1>4
    <2>2. \A c \in DataNs :
            c \in data_bitmap <=>
              \/ c \in Pendings
              \/ \E n \in Holders : \E i \in MarkedSlots(n) : inodes[n].direct_ptr[i] = c
      BY <1>1, <1>3 DEF Tracked, DirectInv, BlocksTracked, Ordinary
    <2>3. \A c \in DataNs :
            c \in data_bitmap' <=>
              \/ c \in Pendings'
              \/ \E n \in Holders' : \E i \in MarkedSlots(n)' : inodes'[n].direct_ptr[i] = c
      BY <1>4, <1>6, <2>1, <2>2
    <2> QED
      BY <1>4, <2>3 DEF BlocksTracked
  <1> QED
    BY <1>8, <1>9, <1>10, <1>11

LEMMA StoreBlocksTracked ==
  ASSUME Tracked, StoreBlocks
  PROVE  DirectInv'
  <1> DEFINE len == inode.file_len
             all == Len(call.data)
  <1>1. /\ pc = "store" /\ UNCHANGED <<inodes, inode_bitmap, loaded_inode_n, inode>>
        /\ UNCHANGED <<indirect_block_n, indirect_ptrs_list>>
    BY DEF StoreBlocks, lists
  <1>2. /\ inode_buf = inode /\ inode \in InodeBlock /\ call \in Call
        /\ call.op = "write" /\ Ordinary /\ call.inode_n \in UsedInodes
    BY <1>1, WriteNumbers
  <1>3. /\ len \in Nat /\ call.n_written \in Nat /\ NDone \in Nat /\ all - NDone \in Nat
        /\ call.left = BytesToBlocks(all - NDone) /\ all \in Nat
        /\ NDone = all \/ (len + call.n_written) % BlockSize = 0
        /\ Len(ptrs_to_allocate) = BytesToBlocks(len + call.n_written) - NBlocks(inode)
        /\ ptrs_to_allocate \in Seq(DataNs)
    <2>1. ptrs_to_allocate \in Seq(DataNs)
      BY DEF Tracked, Inv, TypeOK
    <2> QED
      BY <1>1, <1>2, <2>1, StoreNumbers, WriteNumbers DEF Tracked, DirectInv, WriteTracks
  <1>4. CASE call.left > 0 /\ ~StopsAllocating
    <2>1. PICK b \in FreeBlocks :
            /\ data_bitmap' = data_bitmap \cup {b}
            /\ ptrs_to_allocate' = Append(ptrs_to_allocate, b)
      BY <1>4 DEF StoreBlocks
    <2>2. PICK w : /\ w = Smaller(all - NDone, BlockSize)
                   /\ call' = [call EXCEPT !.n_written = @ + w, !.left = @ - 1]
                   /\ UNCHANGED <<inode_buf, pc>>
      BY <1>4, AllStored DEF StoreBlocks, NDone, FreeBlocks
    <2>3. all - NDone \in Nat \ {0}
      BY <1>3, <1>4, BlocksZero
    <2>4. /\ w \in 1 .. BlockSize /\ w <= all - NDone
          /\ w = BlockSize \/ w = all - NDone
      BY <2>2, <2>3, LayoutAssumption DEF Smaller
    <2>5. /\ call'.op = call.op /\ call'.inode_n = call.inode_n
          /\ call'.data = call.data /\ call'.offset = call.offset
          /\ call'.n_edited = call.n_edited
          /\ call'.n_written = call.n_written + w /\ call'.left = call.left - 1
      BY <1>2, <2>2 DEF Call
    <2>6. NAdded' = NAdded /\ EditLen' = EditLen /\ NDone' = NDone + w
      <3>1. NAdded' = NAdded /\ EditLen' = EditLen
        BY <2>5 DEF NAdded, EditLen
      <3>2. PICK e \in Nat, v \in Nat, u \in Nat :
              e = call.n_edited /\ v = call.n_written /\ u = w
        BY <1>1, <1>3, <2>4, WriteNumbers, LayoutAssumption
      <3>3. NDone = e + v /\ NDone' = e + (v + u)
        BY <2>5, <3>2 DEF NDone
      <3>4. e + (v + u) = (e + v) + u
        OBVIOUS
      <3> QED
        BY <3>1, <3>2, <3>3, <3>4
    <2>7. BytesToBlocks(all - NDone - w) = BytesToBlocks(all - NDone) - 1
      BY <2>2, <2>3, OneBlockLess
    <2>8. PICK a \in Nat : a = len + call.n_written
      BY <1>3
    <2>9. /\ BytesToBlocks(a + w) = BytesToBlocks(a) + 1
          /\ w = BlockSize => (a + w) % BlockSize = 0
      <3>1. NDone # all
        BY <1>3, <2>3
      <3>2. a % BlockSize = 0
        BY <1>3, <2>8, <3>1
      <3> QED
        BY <2>4, <3>2, OneBlockMore
    <2>10. len + call'.n_written = a + w /\ all - NDone' = all - NDone - w
      <3>1. PICK l \in Nat, v \in Nat, u \in Nat, d \in Nat, t \in Nat :
              l = len /\ v = call.n_written /\ u = w /\ d = NDone /\ t = all
        BY <1>3, <2>4, LayoutAssumption
      <3>2. l + (v + u) = (l + v) + u /\ t - (d + u) = (t - d) - u
        OBVIOUS
      <3> QED
        BY <2>5, <2>6, <2>8, <3>1, <3>2
    <2>11. Len(ptrs_to_allocate') = BytesToBlocks(a + w) - NBlocks(inode)
      <3>1. NBlocks(inode) \in Nat /\ BytesToBlocks(a) \in Nat
        BY <1>1, <2>8, StoreNumbers
      <3> QED
        BY <1>3, <2>1, <2>8, <2>9, <3>1
    <2>12. WriteTracks'
      <3>1. /\ BytesToBlocks(inode.file_len + NAdded) <= NDirect
            /\ call.offset <= inode.file_len /\ call.n_edited = EditLen /\ NAdded > 0
        BY <1>1 DEF Tracked, DirectInv, WriteTracks
      <3>2. NDone' <= all /\ call'.left = BytesToBlocks(all - NDone')
        BY <1>3, <2>4, <2>5, <2>6, <2>7, <2>10
      <3>3. NDone' = all \/ (len + call'.n_written) % BlockSize = 0
        BY <1>3, <2>4, <2>6, <2>9, <2>10
      <3>4. Len(ptrs_to_allocate') = BytesToBlocks(len + call'.n_written) - NBlocks(inode)
        BY <2>10, <2>11
      <3> HIDE DEF len, all
      <3>5. pc' = "store" /\ inode' = inode /\ NBlocks(inode)' = NBlocks(inode)
            /\ len = inode.file_len /\ all = Len(call.data)
        BY <1>1, <2>2 DEF len, all
      <3> QED
        BY <1>1, <2>5, <2>6, <3>1, <3>2, <3>3, <3>4, <3>5 DEF WriteTracks
    <2>13. PtrsApart' /\ FreshApart' /\ InodesTracked' /\ BlocksTracked'
      BY <1>1, <2>1, <2>2, <2>5, StoreAllocates
    <2>14. StepsOfCalls' /\ ObjectTracks' /\ BufferTracks'
      BY <1>1, <1>2, <2>2, <2>5
      DEF Tracked, DirectInv, StepsOfCalls, ObjectTracks, BufferTracks, NBlocks
    <2> QED
      BY <2>12, <2>13, <2>14 DEF DirectInv
  <1>5. CASE StopsAllocating /\ pc' = "commit" /\ UNCHANGED <<data_bitmap, ptrs_to_allocate, call>>
             /\ inode_buf' = [inode_buf EXCEPT !.file_len = @ + call.n_written]
    <2>1. Ordinary' /\ UsedInodes' = UsedInodes
      BY <1>1, <1>2, <1>5 DEF Ordinary, Releasing, UsedInodes
    <2>2. PtrsApart' /\ FreshApart' /\ InodesTracked' /\ BlocksTracked'
      BY <1>1, <1>2, <1>5, <2>1, QuietStep
    <2>3. StepsOfCalls' /\ ObjectTracks'
      BY <1>1, <1>2, <1>5 DEF Tracked, DirectInv, StepsOfCalls, ObjectTracks, NBlocks
    <2>4. BufferTracks'
      BY <1>1, <1>2, <1>5 DEF BufferTracks, InodeBlock
    <2>5. /\ BytesToBlocks(len + call.n_written) <= NDirect
          /\ NDone = all \/ (NDone < all /\ FreeBlocks = {})
      <3>1. PICK x \in Nat, y \in Nat :
              /\ x = BytesToBlocks(len + call.n_written)
              /\ y = BytesToBlocks(len + NAdded)
        <4>1. len \in Nat /\ call.n_written \in Nat /\ NAdded \in Nat
          BY <1>1, StoreNumbers
        <4>2. len + call.n_written \in Nat /\ len + NAdded \in Nat
          BY <4>1
        <4> QED
          BY <4>2, BlocksCover
      <3>3. x <= y /\ y <= NDirect
        BY <1>1, <3>1, StoreNumbers
      <3>2. FreeBlocks = {} \/ all - NDone = 0
        BY <1>3, <1>5, BlocksZero DEF StopsAllocating
      <3> QED
        BY <1>3, <3>1, <3>2, <3>3, LayoutAssumption
    <2>6. WriteTracks'
      BY <1>1, <1>2, <1>3, <1>5, <2>5 DEF WriteTracks, NDone, NBlocks, FreeBlocks
    <2> QED
      BY <2>2, <2>3, <2>4, <2>6 DEF DirectInv
  <1> QED
    BY <1>1, <1>3, <1>4, <1>5 DEF StoreBlocks, StopsAllocating

-----------------------------------------------------------------------------
(* Inode::commit: the pending blocks go to the direct pointers, all of     *)
(* them; the new blocks are the same before and after.                     *)
LEMMA CommitDirectFacts ==
  ASSUME Tracked, CommitDirect
  PROVE  /\ pc = "commit" /\ pc' = "writeback" /\ call \in Call
         /\ inode \in InodeBlock /\ inode_buf \in InodeBlock
         /\ ptrs_to_allocate \in Seq(DataNs) /\ ptrs_to_allocate' = <<>>
         /\ call.op \in {"write", "rename", "remove", "format"}
         /\ UNCHANGED <<inodes, blocks, loaded_inode_n, indirect_block_n,
                        indirect_ptrs_list, inode, data_bitmap>>
         /\ NBlocks(inode) \in Nat /\ NBlocks(inode) <= NDirect /\ NDirect \in Nat
         /\ call.op # "write" => Len(ptrs_to_allocate) = 0
         /\ call.op = "write" =>
              /\ Len(ptrs_to_allocate) = NBlocks(inode_buf) - NBlocks(inode)
              /\ NBlocks(inode_buf) <= NDirect /\ NBlocks(inode_buf) \in Nat
         /\ call' = [call EXCEPT !.n_ptrs = Len(ptrs_to_allocate)]
         /\ inode_buf'.status = inode_buf.status
         /\ inode_buf'.file_len = inode_buf.file_len
         /\ \A k \in 0 .. NDirect - 1 :
              LET new == NBlocks(inode) .. NBlocks(inode) + Len(ptrs_to_allocate) - 1
              IN  /\ k \in new => inode_buf'.direct_ptr[k] =
                                    ptrs_to_allocate[k - NBlocks(inode) + 1]
                  /\ k \notin new => inode_buf'.direct_ptr[k] = inode.direct_ptr[k]
  <1> DEFINE used     == BytesToBlocks(inode.file_len)
             n_direct == Smaller(Len(ptrs_to_allocate),
                                 IF used < NDirect THEN NDirect - used ELSE 0)
             rest     == SubSeq(ptrs_to_allocate, n_direct + 1, Len(ptrs_to_allocate))
             direct   == [k \in 0 .. NDirect - 1 |->
                            IF used <= k /\ k < used + n_direct
                            THEN ptrs_to_allocate[k - used + 1]
                            ELSE inode_buf.direct_ptr[k]]
             size     == Len(ptrs_to_allocate)
  <1>1. /\ pc = "commit" /\ inode \in InodeBlock /\ inode_buf \in InodeBlock
        /\ ptrs_to_allocate \in Seq(DataNs) /\ call \in Call
        /\ call.op \in {"write", "rename", "remove", "format"}
        /\ UNCHANGED <<inodes, blocks, loaded_inode_n, indirect_block_n,
                       indirect_ptrs_list>>
    BY DEF CommitDirect, image, lists, Tracked, Inv, TypeOK, DirectInv, StepsOfCalls
  <1>2. /\ inode_buf.direct_ptr = inode.direct_ptr
        /\ inode.direct_ptr \in [0 .. NDirect - 1 -> Words]
        /\ inode.file_len \in Nat /\ inode_buf.file_len \in Nat
    BY <1>1 DEF Tracked, DirectInv, BufferTracks, InodeBlock
  <1>3. used \in Nat /\ used <= NDirect /\ size \in Nat /\ NDirect \in Nat
    <2>1. loaded_inode_n # Null => inode = inodes[loaded_inode_n]
      BY DEF Tracked, DirectInv, ObjectTracks
    <2>2. loaded_inode_n = call.inode_n /\ call.inode_n \in InodeNs
      BY <1>1 DEF Tracked, Inv, NumberLoaded, LocalsInRange, InUse, AfterLoad
    <2>3. inode = inodes[call.inode_n]
      BY <2>1, <2>2 DEF InodeNs, Null
    <2> QED
      BY <1>1, <2>2, <2>3, ShortInode, LayoutAssumption DEF NBlocks
  <1>4. /\ call.op # "write" => size = 0
        /\ call.op = "write" => size = NBlocks(inode_buf) - used
                                /\ NBlocks(inode_buf) <= NDirect
                                /\ NBlocks(inode_buf) \in Nat
    <2>1. CASE call.op = "write"
      <3>1. inode_buf.file_len = inode.file_len + call.n_written
        BY <1>1, <2>1 DEF Tracked, DirectInv, BufferTracks
      <3>2. NBlocks(inode_buf) \in Nat
        BY <1>2, BlocksCover DEF NBlocks
      <3> QED
        BY <1>1, <2>1, <3>1, <3>2 DEF Tracked, DirectInv, WriteTracks, NBlocks
    <2>2. CASE call.op # "write"
      BY <1>1, <2>2 DEF Tracked, DirectInv, WriteTracks
    <2> QED
      BY <2>1, <2>2
  <1>5. n_direct = size /\ rest = <<>>
    <2>1. size <= NDirect - used
      BY <1>3, <1>4
    <2>2. n_direct = size
      BY <1>3, <2>1 DEF Smaller
    <2> QED
      BY <1>1, <2>2
  <1>6. /\ ptrs_to_allocate' = <<>> /\ pc' = "writeback"
        /\ inode_buf' = [inode_buf EXCEPT !.direct_ptr = direct]
        /\ call' = [call EXCEPT !.n_ptrs = n_direct]
        /\ UNCHANGED <<inode, data_bitmap>>
    BY <1>5 DEF CommitDirect
  <1>7. /\ inode_buf'.status = inode_buf.status
        /\ inode_buf'.file_len = inode_buf.file_len
        /\ inode_buf'.direct_ptr = direct
    BY <1>1, <1>6 DEF InodeBlock
  <1> HIDE DEF n_direct, rest
  <1>8. /\ \A k \in 0 .. NDirect - 1 :
             /\ k \in used .. used + size - 1 => direct[k] = ptrs_to_allocate[k - used + 1]
             /\ k \notin used .. used + size - 1 => direct[k] = inode.direct_ptr[k]
    BY <1>2, <1>3, <1>5
  <1> QED
    BY <1>1, <1>3, <1>4, <1>5, <1>6, <1>7, <1>8 DEF NBlocks

LEMMA CommitDirectTracked ==
  ASSUME Tracked, CommitDirect, UNCHANGED inode_bitmap
  PROVE  DirectInv'
  <1> DEFINE used   == NBlocks(inode)
             size   == Len(ptrs_to_allocate)
             direct == inode_buf'.direct_ptr
  <1>1. /\ pc = "commit" /\ pc' = "writeback" /\ call \in Call
        /\ inode \in InodeBlock /\ inode_buf \in InodeBlock
        /\ ptrs_to_allocate \in Seq(DataNs) /\ ptrs_to_allocate' = <<>>
        /\ call.op \in {"write", "rename", "remove", "format"}
        /\ UNCHANGED <<inodes, blocks, loaded_inode_n, indirect_block_n,
                       indirect_ptrs_list, inode, data_bitmap>>
        /\ call' = [call EXCEPT !.n_ptrs = size]
    BY CommitDirectFacts
  <1>2. used \in Nat /\ used <= NDirect /\ size \in Nat /\ NDirect \in Nat
    BY <1>1, CommitDirectFacts
  <1>3. /\ call.op # "write" => size = 0
        /\ call.op = "write" => size = NBlocks(inode_buf) - used
                                /\ NBlocks(inode_buf) <= NDirect
                                /\ NBlocks(inode_buf) \in Nat
    BY CommitDirectFacts
  <1>4. /\ call'.op = call.op /\ call'.inode_n = call.inode_n
        /\ call'.data = call.data /\ call'.offset = call.offset
        /\ call'.n_edited = call.n_edited /\ call'.n_written = call.n_written
        /\ call'.i = call.i
    BY <1>1 DEF Call
  <1>5. /\ inode_buf'.status = inode_buf.status
        /\ inode_buf'.file_len = inode_buf.file_len
        /\ inode_buf'.direct_ptr = direct
    BY CommitDirectFacts
  <1>6. /\ \A k \in 0 .. NDirect - 1 :
             /\ k \in used .. used + size - 1 => direct[k] = ptrs_to_allocate[k - used + 1]
             /\ k \notin used .. used + size - 1 => direct[k] = inode.direct_ptr[k]
    BY CommitDirectFacts
  <1>7. /\ NBlocks(inode_buf') = NBlocks(inode_buf) /\ NBlocks(inode)' = used
        /\ NewSlots' = used .. NBlocks(inode_buf) - 1
    BY <1>1, <1>5 DEF NBlocks, NewSlots
  <1> HIDE DEF direct, used, size
  <1>8. StepsOfCalls' /\ ObjectTracks'
    BY <1>1, <1>4 DEF Tracked, DirectInv, StepsOfCalls, ObjectTracks, NBlocks
  <1>9. BufferTracks'
    <2>1. \A i \in 0 .. NDirect - 1 :
            i \notin NewSlots' => inode_buf'.direct_ptr[i] = inode'.direct_ptr[i]
      BY <1>1, <1>2, <1>3, <1>5, <1>6, <1>7
    <2> QED
      BY <1>1, <1>4, <1>5, <2>1 DEF Tracked, DirectInv, BufferTracks
  <1>10. WriteTracks'
    BY <1>1, <1>4
    DEF Tracked, DirectInv, WriteTracks, NDone, FreeBlocks
  <1>11. Holders = UsedInodes /\ Holders' = Holders /\ Holders \subseteq InodeNs
    BY <1>1, <1>4 DEF Holders, Releasing, UsedInodes
  <1>12. \A n \in InodeNs : PtrSlots(n)' = PtrSlots(n)
                           /\ MarkedSlots(n)' = MarkedSlots(n)
    BY <1>1, <1>4 DEF PtrSlots, MarkedSlots, Releasing
  <1>13. Fresh' = Fresh
    <2>1. Fresh = {ptrs_to_allocate[k] : k \in 1 .. size}
      BY <1>1 DEF Fresh, size
    <2>2. CASE call.op = "write"
      <3>1. Fresh' = {direct[i] : i \in used .. used + size - 1}
        BY <1>2, <1>3, <1>1, <1>4, <1>5, <1>7, <2>2 DEF Fresh
      <3>2. \A i \in used .. used + size - 1 :
              /\ i - used + 1 \in 1 .. size
              /\ direct[i] = ptrs_to_allocate[i - used + 1]
        BY <1>2, <1>3, <1>6, <2>2
      <3>3. \A k \in 1 .. size : /\ k + used - 1 \in used .. used + size - 1
                                 /\ (k + used - 1) - used + 1 = k
        BY <1>2
      <3>4. ASSUME NEW k \in 1 .. size
            PROVE  ptrs_to_allocate[k] \in Fresh'
        BY <3>1, <3>2, <3>3
      <3>5. \A i \in used .. used + size - 1 :
              direct[i] \in {ptrs_to_allocate[k] : k \in 1 .. size}
        BY <3>2
      <3> QED
        BY <2>1, <3>1, <3>4, <3>5
    <2>3. CASE call.op # "write"
      BY <1>2, <1>3, <1>1, <1>4, <2>1, <2>3 DEF Fresh
    <2> QED
      BY <2>2, <2>3
  <1>14. PtrsApart'
    BY <1>1, <1>11, <1>12 DEF Tracked, DirectInv, PtrsApart
  <1>15. FreshApart'
    <2>1. \A n \in Holders' : \A i \in PtrSlots(n)' :
            inodes'[n].direct_ptr[i] \notin Fresh'
      BY <1>1, <1>11, <1>12, <1>13 DEF Tracked, DirectInv, FreshApart
    <2>2. ASSUME call.op = "write", NEW i \in NewSlots', NEW j \in NewSlots'
          PROVE  /\ inode_buf'.direct_ptr[i] \in DataNs
                 /\ inode_buf'.direct_ptr[i] = inode_buf'.direct_ptr[j] => i = j
      <3>1. /\ i \in used .. used + size - 1 /\ j \in used .. used + size - 1
            /\ i \in 0 .. NDirect - 1 /\ j \in 0 .. NDirect - 1
        BY <1>2, <1>3, <1>7, <2>2
      <3>2. /\ i - used + 1 \in 1 .. size /\ j - used + 1 \in 1 .. size
            /\ i \in Int /\ j \in Int
        BY <1>2, <3>1
      <3>3. \A k, l \in 1 .. size : ptrs_to_allocate[k] = ptrs_to_allocate[l] => k = l
        BY DEF Tracked, DirectInv, FreshApart, size
      <3>4. \A k \in 1 .. size : ptrs_to_allocate[k] \in DataNs
        BY <1>1 DEF size
      <3>5. /\ inode_buf'.direct_ptr[i] = ptrs_to_allocate[i - used + 1]
            /\ inode_buf'.direct_ptr[j] = ptrs_to_allocate[j - used + 1]
        BY <1>5, <1>6, <3>1
      <3>6. i - used + 1 = j - used + 1 => i = j
        BY <1>2, <3>2
      <3> QED
        BY <3>2, <3>3, <3>4, <3>5, <3>6
    <2> QED
      BY <1>1, <1>4, <2>1, <2>2 DEF FreshApart
  <1>16. InodesTracked'
    <2>1. UsedInodes' = UsedInodes
      BY <1>1 DEF UsedInodes
    <2> QED
      BY <1>1, <1>4, <1>11, <2>1 DEF Tracked, DirectInv, InodesTracked, Releasing
  <1>17. BlocksTracked'
    BY <1>1, <1>4, <1>11, <1>12, <1>13 DEF Tracked, DirectInv, BlocksTracked
  <1> QED
    BY <1>8, <1>9, <1>10, <1>14, <1>15, <1>16, <1>17 DEF DirectInv

=============================================================================
