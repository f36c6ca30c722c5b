------------------------- MODULE DirectFiles_proofs -------------------------
(***************************************************************************)
(* Theorems about files on direct pointers: for every number of inodes and *)
(* blocks, every block size and every caller that keeps to the discipline, *)
(* no two files share a block, the bitmaps are those of the image, no      *)
(* block is lost, and the inode object is the inode on the image.  The     *)
(* inductive invariant is Tracked; the lemmas of DirectCalls_proofs and    *)
(* those below show, one by one, that each step keeps it.                  *)
(***************************************************************************)
EXTENDS DirectCalls_proofs

-----------------------------------------------------------------------------
(* Where the bitmaps are not yet, or no longer, those of the holders: the  *)
(* pointers stay apart as long as no holder is added.                      *)
LEMMA FewerHolders ==
  ASSUME Tracked, UNCHANGED inodes, Holders' \subseteq Holders,
         ptrs_to_allocate' = <<>>, pc' # "writeback"
  PROVE  PtrsApart' /\ FreshApart' /\ Fresh' = {}
  <1>1. \A n \in Holders' : n \in Holders /\ PtrSlots(n)' = PtrSlots(n)
    BY DEF PtrSlots
  <1>2. Fresh' = {}
    BY DEF Fresh
  <1>3. PtrsApart'
    BY <1>1 DEF Tracked, DirectInv, PtrsApart
  <1>4. FreshApart'
    BY <1>2 DEF FreshApart
  <1> QED
    BY <1>2, <1>3, <1>4

(* The object after Clear, or one that was left alone or loaded.           *)
LEMMA ObjectStays ==
  ASSUME Tracked, UNCHANGED inodes,
         \/ Clear
         \/ UNCHANGED object /\ pc \notin {"commit", "writeback"}
  PROVE  ObjectTracks'
  BY DEF Tracked, DirectInv, ObjectTracks, NBlocks, object, lists, Clear, ClearLists, Null

LEMMA CrashTracked ==
  ASSUME Tracked, Crash
  PROVE  DirectInv'
  <1>1. /\ pc' = "off" /\ call' = NoCall /\ call'.op = "none" /\ UNCHANGED inodes
        /\ ptrs_to_allocate' = <<>> /\ Clear
    BY DEF Crash, image, Clear, NoCall
  <1>2. Holders' \subseteq Holders
    BY <1>1 DEF Holders, Releasing, UsedInodes
  <1>3. ObjectTracks'
    BY <1>1, ObjectStays
  <1>4. PtrsApart' /\ FreshApart'
    BY <1>1, <1>2, FewerHolders
  <1> QED
    BY <1>1, <1>3, <1>4
    DEF DirectInv, StepsOfCalls, BufferTracks, WriteTracks, InodesTracked,
        BlocksTracked, Releasing

(* mount and format begin, with empty bitmaps.                             *)
LEMMA BeginTracked ==
  ASSUME Tracked, UNCHANGED inodes, inode_bitmap' = {}, data_bitmap' = {},
         NEW op \in {"mount", "format"}, call' = [NoCall EXCEPT !.op = op],
         pc' = IF op = "mount" THEN "scan" ELSE "format",
         \/ Clear
         \/ pc = "idle" /\ UNCHANGED object
  PROVE  DirectInv'
  <1>1. /\ call'.op = op /\ call'.inode_n = 0 /\ call'.i = 0
    BY DEF NoCall
  <1>2. Holders' \subseteq Holders /\ Holders' = UsedInodes'
    BY <1>1 DEF Holders, Releasing, UsedInodes
  <1>3. ptrs_to_allocate' = <<>>
    BY AllStored DEF Clear, object, Tracked, Inv, NothingPending
  <1>4. ObjectTracks'
    BY ObjectStays
  <1>5. PtrsApart' /\ FreshApart' /\ Fresh' = {}
    BY <1>2, <1>3, FewerHolders
  <1>6. \A n \in Holders' : n \in InodeNs /\ n >= 0
    BY <1>2 DEF UsedInodes, InodeNs
  <1>7. InodesTracked'
    <2>1. \A n \in UsedInodes' : ~(n < 0) /\ n \in InodeNs
      BY <1>2, <1>6 DEF InodeNs
    <2> QED
      BY <1>1, <2>1 DEF InodesTracked, Releasing
  <1>8. BlocksTracked'
    BY <1>1, <1>5, <1>6 DEF BlocksTracked, MarkedSlots, InodeNs
  <1> QED
    BY <1>1, <1>3, <1>4, <1>5, <1>7, <1>8
    DEF DirectInv, StepsOfCalls, BufferTracks, WriteTracks

LEMMA MountCallTracked ==
  ASSUME Tracked, MountCall
  PROVE  DirectInv'
  BY BeginTracked DEF MountCall, image

LEMMA FormatCallTracked ==
  ASSUME Tracked, FormatCall
  PROVE  DirectInv'
  BY BeginTracked DEF FormatCall, image

(* A step of mount that changes no bitmap bit: what is to be marked is the *)
(* same for the old and the new place of the scan.                         *)
LEMMA ScanStep ==
  ASSUME Tracked, call.op = "mount",
         UNCHANGED <<inodes, inode_bitmap, data_bitmap, ptrs_to_allocate>>,
         ptrs_to_allocate = <<>>, pc \notin {"off", "writeback"},
         pc' \notin {"off", "writeback"}, call'.op \in {"mount", "none"},
         pc' = "mark_indirect" => call.inode_n \in UsedInodes /\ call'.inode_n = call.inode_n,
         pc' # "mark",
         \A n \in UsedInodes : MarkedSlots(n)' = MarkedSlots(n),
         inode_bitmap = IF call'.op # "mount" THEN UsedInodes
                        ELSE {n \in UsedInodes :
                                \/ n < call'.inode_n
                                \/ n = call'.inode_n /\ pc' = "mark_indirect"}
  PROVE  PtrsApart' /\ FreshApart' /\ InodesTracked' /\ BlocksTracked'
  <1>1. Holders = UsedInodes /\ Holders' = Holders /\ UsedInodes' = UsedInodes
    BY DEF Holders, Releasing, UsedInodes
  <1>2. PtrsApart' /\ FreshApart' /\ Fresh' = {}
    BY <1>1, FewerHolders
  <1>3. Fresh = {}
    BY DEF Fresh
  <1>4. InodesTracked'
    BY <1>1 DEF InodesTracked, Releasing
  <1>5. BlocksTracked'
    BY <1>1, <1>2, <1>3 DEF Tracked, DirectInv, BlocksTracked
  <1> QED
    BY <1>2, <1>4, <1>5

LEMMA ScanTracked ==
  ASSUME Tracked, Scan
  PROVE  DirectInv'
  <1>1. /\ pc = "scan" /\ call.op = "mount" /\ call.i = 0 /\ UNCHANGED inode_bitmap
        /\ ptrs_to_allocate = <<>> /\ call.inode_n \in Nat
    BY AllStored
    DEF Scan, Tracked, Inv, NothingPending, DirectInv, StepsOfCalls, TypeOK, Call
  <1>2. inode_bitmap = {n \in UsedInodes : n < call.inode_n}
    BY <1>1 DEF Tracked, DirectInv, InodesTracked
  <1>3. CASE call.inode_n < NInodes /\ LoadInode(call, call.inode_n, "scan_check")
    <2>1. call.inode_n \in InodeNs
      BY <1>1, <1>3, LayoutAssumption DEF InodeNs
    <2>2. /\ inode' = inodes[call.inode_n] /\ inode_buf' = inodes[call.inode_n]
          /\ loaded_inode_n' = call.inode_n
          /\ UNCHANGED <<inodes, data_bitmap, ptrs_to_allocate>>
          /\ UNCHANGED <<indirect_block_n, indirect_ptrs_list>>
          /\ pc' = "scan_check" /\ call' = call
      BY <1>1, <1>3, <2>1, ShortLoad
    <2>3. \A n \in UsedInodes : MarkedSlots(n)' = MarkedSlots(n)
      BY <1>1, <2>2 DEF MarkedSlots, PtrSlots, Releasing
    <2>4. PtrsApart' /\ FreshApart' /\ InodesTracked' /\ BlocksTracked'
      BY <1>1, <1>2, <2>2, <2>3, ScanStep
    <2>5. ObjectTracks'
      BY <2>2 DEF Tracked, DirectInv, ObjectTracks, NBlocks
    <2> QED
      BY <1>1, <2>2, <2>4, <2>5 DEF DirectInv, StepsOfCalls, BufferTracks, WriteTracks
  <1>4. CASE /\ call.inode_n = NInodes /\ Return(Ok(0))
             /\ UNCHANGED <<image, data_bitmap, object>>
    <2>1. /\ pc' = "idle" /\ call' = NoCall /\ call'.op = "none"
          /\ UNCHANGED <<inodes, data_bitmap, object, ptrs_to_allocate>>
      BY <1>4 DEF Return, NoCall, image, object
    <2>2. \A n \in UsedInodes : n < call.inode_n /\ n \in Int
      BY <1>4, LayoutAssumption DEF UsedInodes, InodeNs
    <2>3. \A n \in UsedInodes : MarkedSlots(n)' = MarkedSlots(n)
      BY <1>1, <2>1, <2>2 DEF MarkedSlots, PtrSlots, Releasing
    <2>4. PtrsApart' /\ FreshApart' /\ InodesTracked' /\ BlocksTracked'
      BY <1>1, <1>2, <2>1, <2>2, <2>3, ScanStep
    <2>5. ObjectTracks'
      BY <1>1, <2>1, ObjectStays
    <2> QED
      BY <1>1, <2>1, <2>4, <2>5 DEF DirectInv, StepsOfCalls, BufferTracks, WriteTracks
  <1> QED
    BY <1>3, <1>4 DEF Scan

LEMMA ScanCheckTracked ==
  ASSUME Tracked, ScanCheck
  PROVE  DirectInv'
  <1>1. /\ pc = "scan_check" /\ call.op = "mount" /\ call.i = 0
        /\ UNCHANGED <<inodes, data_bitmap, object, ptrs_to_allocate>>
        /\ ptrs_to_allocate = <<>> /\ call \in Call
    BY AllStored
    DEF ScanCheck, image, object, Tracked, Inv, NothingPending, DirectInv,
           StepsOfCalls, TypeOK
  <1>2. /\ call.inode_n \in InodeNs /\ call.inode_n \in Int
        /\ inode_buf = inodes[call.inode_n]
    <2>1. call.inode_n \in InodeNs /\ loaded_inode_n = call.inode_n
      BY <1>1 DEF Tracked, Inv, NumberLoaded, LocalsInRange, InUse, AfterLoad
    <2> QED
      BY <1>1, <2>1 DEF Tracked, DirectInv, ObjectTracks, InodeNs, Null
  <1>3. inode_bitmap = {n \in UsedInodes : n < call.inode_n}
    BY <1>1 DEF Tracked, DirectInv, InodesTracked
  <1>4. UsedInodes \subseteq InodeNs /\ UsedInodes' = UsedInodes /\ UsedInodes \subseteq Int
    BY <1>1 DEF UsedInodes, InodeNs
  <1>5. ObjectTracks'
    BY <1>1, ObjectStays
  <1>6. CASE /\ inode_buf.status # "Used" /\ pc' = "scan" /\ UNCHANGED inode_bitmap
             /\ call' = [call EXCEPT !.inode_n = @ + 1]
    <2>1. call'.op = "mount" /\ call'.i = 0 /\ call'.inode_n = call.inode_n + 1
      BY <1>1, <1>6 DEF Call
    <2>2. call.inode_n \notin UsedInodes
      BY <1>2, <1>6 DEF UsedInodes
    <2>3. \A n \in UsedInodes : n < call.inode_n <=> n < call.inode_n + 1
      BY <1>2, <1>4, <2>2
    <2>4. \A n \in UsedInodes : MarkedSlots(n)' = MarkedSlots(n)
      <3>1. \A n \in UsedInodes :
              MarkedSlots(n) = IF n >= call.inode_n THEN {} ELSE PtrSlots(n)
        BY <1>1, <1>2, <1>4 DEF MarkedSlots, Releasing
      <3>2. \A n \in UsedInodes :
              MarkedSlots(n)' = IF n >= call.inode_n + 1 THEN {} ELSE PtrSlots(n)
        BY <1>1, <1>2, <1>4, <1>6, <2>1 DEF MarkedSlots, Releasing, PtrSlots
      <3> QED
        BY <1>2, <1>4, <2>2, <3>1, <3>2
    <2>5. PtrsApart' /\ FreshApart' /\ InodesTracked' /\ BlocksTracked'
      BY <1>1, <1>3, <1>6, <2>1, <2>3, <2>4, ScanStep
    <2> QED
      BY <1>1, <1>5, <1>6, <2>1, <2>5
      DEF DirectInv, StepsOfCalls, BufferTracks, WriteTracks
  <1>7. CASE /\ inode_buf.status = "Used" /\ pc' = "mark" /\ UNCHANGED call
             /\ inode_bitmap' = inode_bitmap \cup {call.inode_n}
    <2>1. call.inode_n \in UsedInodes
      BY <1>2, <1>7 DEF UsedInodes
    <2>2. Holders = UsedInodes /\ Holders' = UsedInodes
      BY <1>1, <1>4, <1>7 DEF Holders, Releasing
    <2>3. PtrsApart' /\ FreshApart' /\ Fresh' = {}
      BY <1>1, <1>7, <2>2, FewerHolders
    <2>4. InodesTracked'
      BY <1>1, <1>2, <1>3, <1>4, <1>7, <2>1, <2>2 DEF InodesTracked, Releasing
    <2>5. \A n \in UsedInodes : MarkedSlots(n)' = MarkedSlots(n)
      <3>1. \A n \in UsedInodes :
              MarkedSlots(n) = IF n >= call.inode_n THEN {} ELSE PtrSlots(n)
        BY <1>1, <1>2, <1>4 DEF MarkedSlots, Releasing
      <3>2. 0 .. call.i - 1 = {}
        BY <1>1
      <3>3. \A n \in UsedInodes : PtrSlots(n)' = PtrSlots(n)
        BY <1>1 DEF PtrSlots
      <3>4. ASSUME NEW n \in UsedInodes
            PROVE  MarkedSlots(n)' = IF n >= call.inode_n THEN {} ELSE PtrSlots(n)
        BY <1>1, <1>2, <1>4, <1>7, <3>2, <3>3 DEF MarkedSlots, Releasing
      <3> QED
        BY <3>1, <3>4
    <2>6. Fresh = {}
      BY <1>1 DEF Fresh
    <2>7. BlocksTracked'
      BY <1>1, <1>7, <2>2, <2>3, <2>5, <2>6 DEF Tracked, DirectInv, BlocksTracked
    <2>8. StepsOfCalls'
      <3>1. call.i <= NBlocks(inodes[call.inode_n])
        BY <1>1, <1>2, ShortInode
      <3> QED
        BY <1>1, <1>7, <3>1 DEF StepsOfCalls, NBlocks
    <2> QED
      BY <1>1, <1>5, <1>7, <2>3, <2>4, <2>7, <2>8
      DEF DirectInv, BufferTracks, WriteTracks
  <1> QED
    BY <1>6, <1>7 DEF ScanCheck

-----------------------------------------------------------------------------
(* remove loads the inode it has freed, to find its blocks.                *)
LEMMA MarkLoadTracked ==
  ASSUME Tracked, MarkLoad
  PROVE  DirectInv'
  <1>1. /\ pc = "mark_load" /\ call.op = "remove" /\ call.i = 0
        /\ call.inode_n \in InodeNs /\ ptrs_to_allocate = <<>>
        /\ LoadInode(call, call.inode_n, "mark") /\ UNCHANGED inode_bitmap
    BY AllStored
    DEF MarkLoad, Tracked, Inv, NothingPending, LocalsInRange, DirectInv, StepsOfCalls
  <1>2. /\ inode' = inodes[call.inode_n] /\ inode_buf' = inodes[call.inode_n]
        /\ loaded_inode_n' = call.inode_n
        /\ UNCHANGED <<inodes, data_bitmap, ptrs_to_allocate>>
        /\ UNCHANGED <<indirect_block_n, indirect_ptrs_list>>
        /\ pc' = "mark" /\ call' = call
    BY <1>1, ShortLoad
  <1>3. Releasing /\ Releasing' /\ UsedInodes' = UsedInodes /\ Holders' = Holders
    BY <1>1, <1>2 DEF Holders, Releasing, UsedInodes
  <1>4. PtrsApart' /\ FreshApart' /\ Fresh' = {} /\ Fresh = {}
    BY <1>1, <1>2, <1>3, FewerHolders DEF Fresh
  <1>5. \A n \in Holders : MarkedSlots(n)' = MarkedSlots(n)
    BY <1>1, <1>2, <1>3 DEF MarkedSlots, PtrSlots
  <1>6. InodesTracked'
    BY <1>1, <1>2, <1>3 DEF Tracked, DirectInv, InodesTracked, Holders
  <1>7. BlocksTracked'
    BY <1>1, <1>2, <1>3, <1>4, <1>5 DEF Tracked, DirectInv, BlocksTracked
  <1>8. ObjectTracks'
    BY <1>2 DEF Tracked, DirectInv, ObjectTracks, NBlocks
  <1>9. StepsOfCalls'
    <2>1. call.i <= NBlocks(inodes[call.inode_n])
      BY <1>1, ShortInode
    <2> QED
      BY <1>1, <1>2, <2>1 DEF StepsOfCalls, NBlocks
  <1> QED
    BY <1>1, <1>2, <1>4, <1>6, <1>7, <1>8, <1>9 DEF DirectInv, BufferTracks, WriteTracks

(* The facts of a step that marks: nothing but the bitmaps moves.          *)
LEMMA MarkFacts ==
  ASSUME Tracked, pc \in {"mark", "mark_indirect"}, UNCHANGED <<image, object>>
  PROVE  /\ call \in Call /\ call.op \in {"remove", "mount"} /\ call.i \in Nat
         /\ call.inode_n \in Holders /\ call.inode_n \in InodeNs
         /\ call.inode_n \in Int
         /\ inode = inodes[call.inode_n] /\ inode_buf = inodes[call.inode_n]
         /\ UsedInodes' = UsedInodes /\ Holders \subseteq InodeNs
         /\ UNCHANGED <<inodes, ptrs_to_allocate>> /\ ptrs_to_allocate = <<>>
         /\ Fresh = {} /\ ObjectTracks' /\ indirect_block_n = <<>>
  <1>1. call \in Call /\ call.op \in {"remove", "mount"} /\ call.i \in Nat
        /\ call.inode_n \in Holders /\ ptrs_to_allocate = <<>>
    BY AllStored
    DEF Tracked, Inv, TypeOK, NothingPending, Call, DirectInv, StepsOfCalls,
           InodesTracked
  <1>2. call.inode_n \in InodeNs /\ loaded_inode_n = call.inode_n
    BY DEF Tracked, Inv, NumberLoaded, LocalsInRange, InUse, AfterLoad
  <1>3. inode = inodes[call.inode_n] /\ inode_buf = inodes[call.inode_n]
        /\ indirect_block_n = <<>>
    BY <1>2 DEF Tracked, DirectInv, ObjectTracks, InodeNs, Null
  <1>4. UNCHANGED <<inodes, ptrs_to_allocate>> /\ UsedInodes' = UsedInodes
    BY DEF image, object, UsedInodes
  <1>5. Holders \subseteq InodeNs /\ call.inode_n \in Int
    BY <1>2 DEF Holders, UsedInodes, InodeNs
  <1> QED
    BY <1>1, <1>2, <1>3, <1>4, <1>5, ObjectStays DEF Fresh

LEMMA MarkTracked ==
  ASSUME Tracked, Mark
  PROVE  DirectInv'
  <1>1. pc = "mark" /\ UNCHANGED <<image, object>> /\ UNCHANGED inode_bitmap
    BY DEF Mark
  <1> PICK n \in InodeNs : n = call.inode_n
    BY <1>1, MarkFacts
  <1>2. /\ n = call.inode_n
        /\ call \in Call /\ call.op \in {"remove", "mount"} /\ call.i \in Nat
        /\ n \in Holders /\ n \in InodeNs /\ n \in Int
        /\ inode = inodes[n] /\ inode_buf = inodes[n]
        /\ UsedInodes' = UsedInodes /\ Holders \subseteq InodeNs
        /\ UNCHANGED <<inodes, ptrs_to_allocate>> /\ ptrs_to_allocate = <<>>
        /\ Fresh = {} /\ ObjectTracks'
    BY <1>1, MarkFacts
  <1>3. PICK size \in Nat : /\ size = NBlocks(inodes[n]) /\ size <= NDirect
                            /\ size = BytesToBlocks(inode_buf.file_len)
                            /\ call.i <= size
    <2>1. call.i <= NBlocks(inodes[n])
      BY <1>1 DEF Tracked, DirectInv, StepsOfCalls
    <2> QED
      BY <1>2, <2>1, ShortInode, LayoutAssumption DEF NBlocks
  <1>4. PtrSlots(n) = 0 .. size - 1
    BY <1>3 DEF PtrSlots
  <1>5. \A m \in Holders : PtrSlots(m)' = PtrSlots(m)
    BY <1>2 DEF PtrSlots
  <1>6. ASSUME call'.op = call.op, call'.inode_n = n, pc' \in {"mark", "mark_indirect"}
        PROVE  /\ Holders' = Holders /\ PtrsApart' /\ FreshApart' /\ Fresh' = {}
               /\ BufferTracks' /\ WriteTracks' /\ InodesTracked'
               /\ \A m \in Holders : m # n => MarkedSlots(m)' = MarkedSlots(m)
    <2>1. Holders' = Holders /\ (Releasing' <=> Releasing)
      BY <1>1, <1>2, <1>6 DEF Holders, Releasing
    <2>2. PtrsApart' /\ FreshApart' /\ Fresh' = {}
      BY <1>2, <1>6, <2>1, FewerHolders
    <2>3. InodesTracked'
      BY <1>1, <1>2, <1>6, <2>1 DEF Tracked, DirectInv, InodesTracked
    <2>4. ASSUME NEW m \in Holders, m # n PROVE MarkedSlots(m)' = MarkedSlots(m)
      <3>1. m \in Int
        BY <1>2 DEF InodeNs
      <3> QED
        BY <1>1, <1>2, <1>5, <1>6, <2>1, <2>4, <3>1 DEF MarkedSlots
    <2> QED
      BY <1>1, <1>2, <1>6, <2>1, <2>2, <2>3, <2>4 DEF BufferTracks, WriteTracks
  <1>7. MarkedSlots(n) = IF call.op = "mount" THEN 0 .. call.i - 1 ELSE call.i .. size - 1
    BY <1>1, <1>2, <1>3 DEF MarkedSlots, Releasing
  <1>8. CASE /\ call.i = size /\ pc' = "mark_indirect" /\ call' = [call EXCEPT !.i = 0]
             /\ UNCHANGED data_bitmap
    <2>1. call'.op = call.op /\ call'.inode_n = n /\ call'.i = 0
      BY <1>2, <1>8 DEF Call
    <2>2. MarkedSlots(n)' = MarkedSlots(n)
      <3>1. MarkedSlots(n)' = IF call.op = "mount" THEN PtrSlots(n) ELSE {}
        BY <1>2, <1>5, <1>8, <2>1 DEF MarkedSlots, Releasing
      <3>2. call.i .. size - 1 = {}
        BY <1>2, <1>3, <1>8
      <3> QED
        BY <1>4, <1>7, <1>8, <3>1, <3>2
    <2>3. BlocksTracked'
      BY <1>1, <1>2, <1>6, <1>8, <2>1, <2>2 DEF Tracked, DirectInv, BlocksTracked
    <2> QED
      BY <1>2, <1>6, <1>8, <2>1, <2>3 DEF DirectInv, StepsOfCalls
  <1>9. ASSUME call.i < size
        PROVE  /\ call.i \in PtrSlots(n) /\ inodes[n].direct_ptr[call.i] \in DataNs
               /\ Ptr(call.i) = {inodes[n].direct_ptr[call.i]}
    <2>1. call.i \in PtrSlots(n) /\ call.i < NDirect
      BY <1>2, <1>3, <1>4, <1>9, LayoutAssumption
    <2> QED
      BY <1>2, <2>1 DEF Ptr, Tracked, DirectInv, PtrsApart
  <1>10. CASE /\ call.i < size /\ call' = [call EXCEPT !.i = @ + 1] /\ UNCHANGED pc
              /\ \E b \in Ptr(call.i) \cap DataNs : SetStatus(b)
    <2>1. PICK b \in DataNs : b = inodes[n].direct_ptr[call.i] /\ SetStatus(b)
      BY <1>9, <1>10
    <2>2. call'.op = call.op /\ call'.inode_n = n /\ call'.i = call.i + 1
      BY <1>2, <1>10 DEF Call
    <2>3. MarkedSlots(n)' = IF call.op = "mount" THEN 0 .. call.i
                            ELSE call.i + 1 .. size - 1
      <3>1. PICK i \in Nat : i = call.i
        BY <1>2
      <3>2. (call.i + 1) - 1 = call.i
        BY <3>1
      <3>3. NBlocks(inodes'[n]) = size
        BY <1>2, <1>3
      <3> QED
        BY <1>1, <1>2, <1>10, <2>2, <3>2, <3>3 DEF MarkedSlots, Releasing
    <2>4. \A m \in Holders : m # n => MarkedSlots(m)' = MarkedSlots(m)
      BY <1>1, <1>6, <1>10, <2>2
    <2>5. \A m \in Holders : MarkedSlots(m) \subseteq PtrSlots(m)
      <3>1. ASSUME NEW m \in Holders, m # n PROVE MarkedSlots(m) \subseteq PtrSlots(m)
        <4>1. m \in Int
          BY <1>2 DEF InodeNs
        <4> QED
          BY <1>1, <1>2, <3>1, <4>1 DEF MarkedSlots
      <3>2. MarkedSlots(n) \subseteq PtrSlots(n)
        <4>1. 0 .. call.i - 1 \subseteq 0 .. size - 1 /\ call.i .. size - 1 \subseteq 0 .. size - 1
          BY <1>2, <1>3
        <4> QED
          BY <1>4, <1>7, <4>1
      <3> QED
        BY <3>1, <3>2
    <2>6. \A m \in Holders : \A i \in MarkedSlots(m) :
            inodes[m].direct_ptr[i] = b => m = n /\ i = call.i
      BY <1>2, <1>9, <1>10, <2>1, <2>5 DEF Tracked, DirectInv, PtrsApart
    <2>7. \A c \in DataNs :
            c \in data_bitmap <=>
              \E m \in Holders : \E i \in MarkedSlots(m) : inodes[m].direct_ptr[i] = c
      BY <1>1, <1>2 DEF Tracked, DirectInv, BlocksTracked
    <2>8. BlocksTracked'
      <3>1. \A c \in DataNs :
              c \in data_bitmap' <=>
                \E m \in Holders : \E i \in MarkedSlots(m)' : inodes[m].direct_ptr[i] = c
        <4>1. CASE call.op = "mount"
          <5>1. data_bitmap' = data_bitmap \cup {b}
            BY <2>1, <4>1 DEF SetStatus
          <5>2. MarkedSlots(n)' = MarkedSlots(n) \cup {call.i}
            BY <1>2, <1>7, <2>3, <4>1
          <5> QED
            BY <1>2, <2>1, <2>4, <2>7, <5>1, <5>2
        <4>2. CASE call.op = "remove"
          <5>1. data_bitmap' = data_bitmap \ {b}
            BY <2>1, <4>2 DEF SetStatus
          <5>2. MarkedSlots(n)' = MarkedSlots(n) \ {call.i} /\ call.i \in MarkedSlots(n)
            BY <1>2, <1>7, <1>10, <2>3, <4>2
          <5>3. \A m \in Holders : \A i \in MarkedSlots(m)' :
                  i \in MarkedSlots(m) /\ (m = n => i # call.i)
            BY <2>4, <5>2
          <5>4. \A m \in Holders : \A i \in MarkedSlots(m) :
                  i \in MarkedSlots(m)' \/ (m = n /\ i = call.i)
            BY <2>4, <5>2
          <5> QED
            BY <2>1, <2>6, <2>7, <5>1, <5>3, <5>4
        <4> QED
          BY <1>2, <4>1, <4>2
      <3> QED
        BY <1>1, <1>2, <1>6, <1>10, <2>2, <3>1 DEF BlocksTracked
    <2>9. StepsOfCalls'
      <3>1. call'.i <= NBlocks(inodes'[call'.inode_n])
        <4>1. call.i + 1 <= size
          BY <1>2, <1>3, <1>10
        <4>2. inodes'[call'.inode_n] = inodes[n]
          BY <1>2, <2>2
        <4> QED
          BY <1>3, <2>2, <4>1, <4>2
      <3> QED
        BY <1>1, <1>2, <1>10, <2>2, <3>1 DEF StepsOfCalls, NBlocks
    <2> QED
      BY <1>1, <1>2, <1>6, <1>10, <2>2, <2>8, <2>9 DEF DirectInv
  <1> QED
    BY <1>2, <1>3, <1>8, <1>9, <1>10 DEF Mark

(* The inode has no chain: the marking is over.                            *)
LEMMA MarkIndirectTracked ==
  ASSUME Tracked, MarkIndirect
  PROVE  DirectInv'
  <1>1. pc = "mark_indirect" /\ UNCHANGED <<image, object>>
    BY DEF MarkIndirect
  <1> PICK n \in InodeNs : n = call.inode_n
    BY <1>1, MarkFacts
  <1>2. /\ n = call.inode_n
        /\ call \in Call /\ call.op \in {"remove", "mount"} /\ call.i = 0
        /\ n \in Holders /\ n \in Int
        /\ UsedInodes' = UsedInodes /\ Holders \subseteq InodeNs
        /\ UNCHANGED <<inodes, ptrs_to_allocate>> /\ ptrs_to_allocate = <<>>
        /\ Fresh = {} /\ ObjectTracks' /\ indirect_block_n = <<>>
    BY <1>1, MarkFacts DEF Tracked, DirectInv, StepsOfCalls
  <1>3. ChainBlock = Null /\ Null \notin DataNs
    BY <1>2 DEF ChainBlock, Null, DataNs
  <1>4. \A m \in Holders : PtrSlots(m)' = PtrSlots(m)
    BY <1>2 DEF PtrSlots
  <1>5. \A c \in DataNs :
          c \in data_bitmap <=>
            \E m \in Holders : \E i \in MarkedSlots(m) : inodes[m].direct_ptr[i] = c
    BY <1>1, <1>2 DEF Tracked, DirectInv, BlocksTracked
  <1>6. CASE /\ call.op = "remove" /\ inode_bitmap' = inode_bitmap \ {n}
             /\ pc' = "idle" /\ call' = NoCall /\ UNCHANGED data_bitmap
    <2>1. call'.op = "none" /\ Releasing /\ ~Releasing'
      BY <1>1, <1>6 DEF Releasing, NoCall
    <2>2. Holders = UsedInodes \cup {n} /\ Holders' = UsedInodes /\ n \notin UsedInodes
      BY <1>2, <2>1 DEF Holders, Tracked, DirectInv, InodesTracked
    <2>3. PtrsApart' /\ FreshApart' /\ Fresh' = {}
      BY <1>2, <1>6, <2>2, FewerHolders
    <2>4. InodesTracked'
      BY <1>1, <1>6, <2>1, <2>2 DEF Tracked, DirectInv, InodesTracked
    <2>5. MarkedSlots(n) = {}
      BY <1>1, <1>2, <1>6, <2>1 DEF MarkedSlots
    <2>6. \A m \in UsedInodes : MarkedSlots(m)' = MarkedSlots(m)
      BY <1>2, <1>4, <1>6, <2>1, <2>2 DEF MarkedSlots
    <2>7. BlocksTracked'
      BY <1>2, <1>5, <1>6, <2>2, <2>3, <2>5, <2>6 DEF BlocksTracked
    <2> QED
      BY <1>2, <1>6, <2>1, <2>3, <2>4, <2>7
      DEF DirectInv, StepsOfCalls, BufferTracks, WriteTracks
  <1>7. CASE /\ call.op = "mount" /\ pc' = "scan" /\ UNCHANGED <<inode_bitmap, data_bitmap>>
             /\ call' = [call EXCEPT !.inode_n = @ + 1, !.i = 0]
    <2>1. call'.op = "mount" /\ call'.inode_n = n + 1 /\ call'.i = 0
      BY <1>2, <1>7 DEF Call
    <2>2. n \in UsedInodes /\ UsedInodes \subseteq Int
      BY <1>2, <1>7 DEF Holders, Releasing, UsedInodes, InodeNs
    <2>3. inode_bitmap = {m \in UsedInodes : m < n \/ m = n}
      BY <1>1, <1>2, <1>7 DEF Tracked, DirectInv, InodesTracked
    <2>4. inode_bitmap = {m \in UsedInodes : m < n + 1}
      BY <1>2, <2>2, <2>3
    <2>5. ASSUME NEW m \in UsedInodes PROVE MarkedSlots(m)' = MarkedSlots(m)
      <3>1. m \in Int /\ PtrSlots(m)' = PtrSlots(m)
        BY <1>2, <2>2 DEF PtrSlots
      <3>2. MarkedSlots(m) = IF m > n THEN {} ELSE PtrSlots(m)
        BY <1>1, <1>2, <1>7, <2>2, <3>1 DEF MarkedSlots, Releasing
      <3>3. MarkedSlots(m)' = IF m > n THEN {} ELSE PtrSlots(m)
        BY <1>2, <1>7, <2>1, <2>2, <3>1 DEF MarkedSlots, Releasing
      <3> QED
        BY <3>2, <3>3
    <2>6. PtrsApart' /\ FreshApart' /\ InodesTracked' /\ BlocksTracked'
      BY <1>1, <1>2, <1>7, <2>1, <2>4, <2>5, ScanStep
    <2> QED
      BY <1>2, <1>7, <2>1, <2>6
      DEF DirectInv, StepsOfCalls, BufferTracks, WriteTracks
  <1> QED
    BY <1>2, <1>3, <1>6, <1>7 DEF MarkIndirect, Return, bitmaps

-----------------------------------------------------------------------------
(* format has no bitmaps to keep.                                          *)
LEMMA FormatTracked ==
  ASSUME Tracked, Format
  PROVE  DirectInv'
  <1>1. /\ pc = "format" /\ call.op = "format" /\ ptrs_to_allocate = <<>>
        /\ call.inode_n \in Nat
    BY AllStored
    DEF Format, Tracked, Inv, NothingPending, DirectInv, StepsOfCalls, TypeOK, Call
  <1>2. CASE call.inode_n < NInodes /\ LoadInode(call, call.inode_n, "format_reset")
    <2>1. call.inode_n \in InodeNs
      BY <1>1, <1>2, LayoutAssumption DEF InodeNs
    <2>2. /\ inode' = inodes[call.inode_n] /\ inode_buf' = inodes[call.inode_n]
          /\ loaded_inode_n' = call.inode_n
          /\ UNCHANGED <<inodes, data_bitmap, ptrs_to_allocate>>
          /\ UNCHANGED <<indirect_block_n, indirect_ptrs_list>>
          /\ pc' = "format_reset" /\ call' = call
      BY <1>1, <1>2, <2>1, ShortLoad
    <2>3. Holders' \subseteq Holders
      BY <1>1, <2>2 DEF Holders, Releasing, UsedInodes
    <2>4. PtrsApart' /\ FreshApart'
      BY <1>1, <2>2, <2>3, FewerHolders
    <2>5. ObjectTracks'
      BY <2>2 DEF Tracked, DirectInv, ObjectTracks, NBlocks
    <2> QED
      BY <1>1, <2>2, <2>4, <2>5
      DEF DirectInv, StepsOfCalls, BufferTracks, WriteTracks, InodesTracked,
          BlocksTracked, Releasing
  <1>3. CASE /\ pc' = "off" /\ call' = NoCall /\ UNCHANGED <<inodes, object>>
    <2>1. ptrs_to_allocate' = <<>> /\ ObjectTracks' /\ call'.op = "none"
      BY <1>1, <1>3, ObjectStays DEF object, NoCall
    <2>2. Holders' \subseteq Holders
      BY <1>3 DEF Holders, Releasing, UsedInodes
    <2>3. PtrsApart' /\ FreshApart'
      BY <1>3, <2>1, <2>2, FewerHolders
    <2> QED
      BY <1>3, <2>1, <2>3
      DEF DirectInv, StepsOfCalls, BufferTracks, WriteTracks, InodesTracked,
          BlocksTracked, Releasing
  <1> QED
    BY <1>2, <1>3 DEF Format, image

LEMMA FormatResetTracked ==
  ASSUME Tracked, FormatReset
  PROVE  DirectInv'
  <1>1. /\ pc = "format_reset" /\ call.op = "format" /\ ptrs_to_allocate = <<>>
        /\ inode_buf = inode /\ inode_buf \in InodeBlock
        /\ UNCHANGED <<inodes, loaded_inode_n, inode, ptrs_to_allocate, call>>
        /\ UNCHANGED <<indirect_block_n, indirect_ptrs_list>> /\ pc' = "commit"
        /\ inode_buf' = [inode_buf EXCEPT !.status = "Free", !.file_len = 0]
    BY AllStored
    DEF FormatReset, image, lists, Tracked, Inv, NothingPending, TypeOK, DirectInv,
           StepsOfCalls, ObjectTracks
  <1>2. /\ inode_buf'.status = "Free" /\ inode_buf'.file_len = 0
        /\ inode_buf'.direct_ptr = inode.direct_ptr
    BY <1>1 DEF InodeBlock
  <1>3. Holders' \subseteq Holders
    BY <1>1 DEF Holders, Releasing, UsedInodes
  <1>4. PtrsApart' /\ FreshApart'
    BY <1>1, <1>3, FewerHolders
  <1>5. ObjectTracks'
    BY <1>1 DEF Tracked, DirectInv, ObjectTracks, NBlocks
  <1>6. BufferTracks'
    BY <1>1, <1>2 DEF BufferTracks
  <1> QED
    BY <1>1, <1>4, <1>5, <1>6
    DEF DirectInv, StepsOfCalls, WriteTracks, InodesTracked, BlocksTracked, Releasing

-----------------------------------------------------------------------------
(* create_file takes an inode that the bitmap, and so the image, has free. *)
LEMMA CreateFileTracked ==
  ASSUME Tracked, NEW long_name \in BOOLEAN, CreateFile(long_name)
  PROVE  DirectInv'
  <1>1. CASE \E r : Answer(r)
    BY <1>1, AnswerTracked DEF Tracked
  <1>2. CASE /\ \E n \in InodeNs \ inode_bitmap :
                  /\ inodes' = [inodes EXCEPT ![n] = NewInode]
                  /\ inode_bitmap' = inode_bitmap \cup {n}
             /\ Clear /\ UNCHANGED <<blocks, data_bitmap, pc, call>> /\ pc = "idle"
    <2>1. PICK n \in InodeNs \ inode_bitmap :
            /\ inodes' = [inodes EXCEPT ![n] = NewInode]
            /\ inode_bitmap' = inode_bitmap \cup {n}
      BY <1>2
    <2>2. /\ call = NoCall /\ call.op = "none" /\ ptrs_to_allocate = <<>>
          /\ ptrs_to_allocate' = <<>>
      BY <1>2, AllStored DEF Tracked, Inv, NothingPending, NoCall, Clear
    <2>3. Ordinary /\ Ordinary'
      BY <1>2, <2>2 DEF Ordinary, Releasing
    <2>4. /\ Holders = UsedInodes /\ Fresh = Pendings
          /\ \A m \in InodeNs : MarkedSlots(m) = PtrSlots(m)
      BY <2>3, WhenOrdinary
    <2>5. /\ Holders' = UsedInodes' /\ Fresh' = {} /\ Fresh = {}
          /\ \A m \in InodeNs : MarkedSlots(m)' = PtrSlots(m)'
      BY <1>2, <2>2, <2>3 DEF Ordinary, Holders, Fresh, MarkedSlots
    <2>6. inode_bitmap = UsedInodes
      BY <2>2, <2>3, <2>4 DEF Tracked, DirectInv, InodesTracked, Ordinary
    <2>7. inodes \in [InodeNs -> InodeBlock]
      BY DEF Tracked, Inv, TypeOK
    <2>8. /\ inodes'[n] = NewInode /\ NewInode.status = "Used" /\ NewInode.file_len = 0
          /\ \A m \in InodeNs : m # n => inodes'[m] = inodes[m]
      BY <2>1, <2>7 DEF NewInode
    <2>9. UsedInodes' = UsedInodes \cup {n} /\ UsedInodes \subseteq InodeNs
      BY <2>1, <2>8 DEF UsedInodes
    <2>10. /\ NBlocks(inodes'[n]) = 0 /\ PtrSlots(n)' = {}
           /\ \A m \in InodeNs : m # n => PtrSlots(m)' = PtrSlots(m)
      <3>1. NBlocks(inodes'[n]) = 0
        BY <2>8 DEF NBlocks, BytesToBlocks
      <3>2. PtrSlots(n)' = 0 .. NBlocks(inodes'[n]) - 1
        BY DEF PtrSlots, NBlocks
      <3> QED
        BY <2>8, <3>1, <3>2 DEF PtrSlots, NBlocks
    <2>11. PtrsApart'
      <3>1. \A m \in Holders' : \A i \in PtrSlots(m)' :
              m \in Holders /\ i \in PtrSlots(m) /\ inodes'[m] = inodes[m]
        BY <2>1, <2>4, <2>5, <2>8, <2>9, <2>10
      <3> QED
        BY <3>1 DEF Tracked, DirectInv, PtrsApart
    <2>12. FreshApart'
      BY <1>2, <2>2, <2>5 DEF FreshApart
    <2>13. InodesTracked'
      BY <1>2, <2>1, <2>2, <2>5, <2>6, <2>9 DEF InodesTracked, Releasing
    <2>14. BlocksTracked'
      <3>1. \A b \in DataNs :
              b \in data_bitmap <=>
                \E m \in UsedInodes : \E i \in PtrSlots(m) : inodes[m].direct_ptr[i] = b
        BY <2>2, <2>3, <2>4, <2>5, <2>9 DEF Tracked, DirectInv, BlocksTracked, Ordinary
      <3>2. \A b \in DataNs :
              (\E m \in UsedInodes : \E i \in PtrSlots(m) : inodes[m].direct_ptr[i] = b)
              <=> \E m \in UsedInodes' : \E i \in PtrSlots(m)' : inodes'[m].direct_ptr[i] = b
        BY <2>1, <2>6, <2>8, <2>9, <2>10
      <3>3. \A b \in DataNs :
              b \in data_bitmap' <=>
                \E m \in Holders' : \E i \in MarkedSlots(m)' : inodes'[m].direct_ptr[i] = b
        BY <1>2, <2>5, <2>9, <3>1, <3>2
      <3> QED
        BY <2>5, <3>3 DEF BlocksTracked
    <2>15. ObjectTracks'
      <3>1. \A m \in InodeNs : NBlocks(inodes'[m]) <= NDirect
        BY <2>8, <2>10, ShortInode, LayoutAssumption
      <3> QED
        BY <1>2, <3>1 DEF ObjectTracks, NBlocks, Clear, ClearLists
    <2> QED
      BY <1>2, <2>2, <2>11, <2>12, <2>13, <2>14, <2>15
      DEF DirectInv, StepsOfCalls, BufferTracks, WriteTracks
  <1> QED
    BY <1>1, <1>2 DEF CreateFile

-----------------------------------------------------------------------------
(* The inode reaches the image, and the call goes on or is over.           *)
LEMMA WritebackFacts ==
  ASSUME Tracked, Writeback
  PROVE  \E n \in InodeNs :
           /\ pc = "writeback" /\ n = call.inode_n /\ inode = inodes[n]
           /\ inodes \in [InodeNs -> InodeBlock] /\ inodes[n] \in InodeBlock
           /\ inode_buf \in InodeBlock /\ call \in Call
           /\ inodes' = [inodes EXCEPT ![n] = inode_buf]
           /\ Clear /\ ptrs_to_allocate' = <<>> /\ ptrs_to_allocate = <<>>
           /\ UNCHANGED <<inode_bitmap, data_bitmap>>
           /\ call.op \in {"write", "rename", "remove", "format"} /\ ~Releasing
           /\ Holders = UsedInodes
           /\ \A i \in 0 .. NDirect - 1 :
                i \notin NewSlots => inode_buf.direct_ptr[i] = inodes[n].direct_ptr[i]
           /\ PtrSlots(n)' = 0 .. NBlocks(inode_buf) - 1
           /\ NewSlots = NBlocks(inodes[n]) .. NBlocks(inode_buf) - 1
  <1>1. /\ pc = "writeback" /\ call \in Call /\ inode_buf \in InodeBlock
        /\ inodes \in [InodeNs -> InodeBlock] /\ ptrs_to_allocate' = <<>> /\ Clear
        /\ UNCHANGED <<inode_bitmap, data_bitmap>> /\ ptrs_to_allocate = <<>>
    BY DEF Writeback, bitmaps, Tracked, Inv, TypeOK, Clear, DirectInv, WriteTracks
  <1>2. PICK n \in InodeNs : n = call.inode_n /\ n = loaded_inode_n
    BY <1>1 DEF Tracked, Inv, NumberLoaded, LocalsInRange, InUse
  <1>3. inode = inodes[n]
    BY <1>2 DEF Tracked, DirectInv, ObjectTracks, InodeNs, Null
  <1>4. inodes' = [inodes EXCEPT ![n] = inode_buf]
    BY <1>2 DEF Writeback
  <1>5. call.op \in {"write", "rename", "remove", "format"} /\ ~Releasing
        /\ Holders = UsedInodes
    BY <1>1 DEF Tracked, DirectInv, StepsOfCalls, Releasing, Holders
  <1>6. \A i \in 0 .. NDirect - 1 :
          i \notin NewSlots => inode_buf.direct_ptr[i] = inodes[n].direct_ptr[i]
    BY <1>1, <1>3 DEF Tracked, DirectInv, BufferTracks
  <1>7. inodes'[n] = inode_buf
    BY <1>1, <1>4
  <1>8. PtrSlots(n)' = 0 .. NBlocks(inode_buf) - 1
    BY <1>7 DEF PtrSlots, NBlocks
  <1>9. NewSlots = NBlocks(inodes[n]) .. NBlocks(inode_buf) - 1
    BY <1>3 DEF NewSlots
  <1> QED
    BY <1>1, <1>2, <1>3, <1>4, <1>5, <1>6, <1>8, <1>9

(* What a Clear leaves is coherent, if the files stay short.               *)
LEMMA ClearedObject ==
  ASSUME Clear, \A n \in InodeNs : NBlocks(inodes'[n]) <= NDirect
  PROVE  ObjectTracks'
  BY DEF ObjectTracks, NBlocks, Clear, ClearLists

(* After a write: its inode has its old blocks and then the fresh ones.    *)
LEMMA WritebackWrite ==
  ASSUME Tracked, Writeback, call.op = "write"
  PROVE  DirectInv'
  <1> PICK n \in InodeNs :
        /\ pc = "writeback" /\ n = call.inode_n /\ inode = inodes[n]
        /\ inodes \in [InodeNs -> InodeBlock] /\ inodes[n] \in InodeBlock
        /\ inode_buf \in InodeBlock /\ call \in Call
        /\ inodes' = [inodes EXCEPT ![n] = inode_buf]
        /\ Clear /\ ptrs_to_allocate' = <<>> /\ ptrs_to_allocate = <<>>
        /\ UNCHANGED <<inode_bitmap, data_bitmap>>
        /\ ~Releasing /\ Holders = UsedInodes
        /\ \A i \in 0 .. NDirect - 1 :
             i \notin NewSlots => inode_buf.direct_ptr[i] = inodes[n].direct_ptr[i]
        /\ PtrSlots(n)' = 0 .. NBlocks(inode_buf) - 1
        /\ NewSlots = NBlocks(inodes[n]) .. NBlocks(inode_buf) - 1
    BY WritebackFacts
  <1>1. pc' = "idle" /\ call' = NoCall /\ call'.op = "none"
    BY DEF Writeback, AfterCommit, Return, Throw, NoCall
  <1>2. n \in UsedInodes
    BY DEF Tracked, DirectInv, InodesTracked
  <1>3. /\ inode_buf.status = "Used"
        /\ inode_buf.file_len = inodes[n].file_len + call.n_written
    BY <1>2 DEF Tracked, DirectInv, BufferTracks, UsedInodes
  <1>4. PICK s \in Nat : s = NBlocks(inodes[n]) /\ s <= NDirect
    BY ShortInode
  <1>5. PICK t \in Nat : t = NBlocks(inode_buf) /\ t <= NDirect
    <2>1. BytesToBlocks(inodes[n].file_len + call.n_written) <= NDirect
      BY DEF Tracked, DirectInv, WriteTracks
    <2>2. inode_buf.file_len \in Nat
      BY DEF InodeBlock
    <2> QED
      BY <1>3, <2>1, <2>2, BlocksCover DEF NBlocks
  <1>6. s <= t
    <2>1. inodes[n].file_len \in Nat /\ call.n_written \in Nat
          /\ inodes[n].file_len + call.n_written \in Nat
          /\ inodes[n].file_len <= inodes[n].file_len + call.n_written
      BY DEF InodeBlock, Call
    <2> QED
      BY <1>3, <1>4, <1>5, <2>1, BlocksMonotone DEF NBlocks
  <1>7. /\ PtrSlots(n) = 0 .. s - 1 /\ PtrSlots(n)' = 0 .. t - 1
        /\ NewSlots = s .. t - 1 /\ PtrSlots(n)' = PtrSlots(n) \cup NewSlots
        /\ PtrSlots(n) \cap NewSlots = {}
    BY <1>4, <1>5, <1>6 DEF PtrSlots
  <1>8. /\ inodes'[n] = inode_buf
        /\ \A m \in InodeNs : m # n => inodes'[m] = inodes[m]
    OBVIOUS
  <1>9. UsedInodes' = UsedInodes /\ UsedInodes \subseteq InodeNs
    BY <1>2, <1>3, <1>8 DEF UsedInodes
  <1>10. /\ Holders' = Holders /\ Fresh' = {}
         /\ \A m \in InodeNs : MarkedSlots(m)' = PtrSlots(m)'
    BY <1>1, <1>9 DEF Holders, Releasing, Fresh, MarkedSlots
  <1>11. \A m \in InodeNs : MarkedSlots(m) = PtrSlots(m)
    BY DEF MarkedSlots
  <1>12. \A m \in InodeNs : m # n => PtrSlots(m)' = PtrSlots(m)
    BY <1>8 DEF PtrSlots, NBlocks
  <1>13. \A i \in PtrSlots(n) : inodes'[n].direct_ptr[i] = inodes[n].direct_ptr[i]
    <2>1. \A i \in 0 .. s - 1 : i \in 0 .. NDirect - 1 /\ i \notin s .. t - 1
      BY <1>4, <1>5, LayoutAssumption
    <2>2. \A i \in PtrSlots(n) : i \in 0 .. NDirect - 1 /\ i \notin NewSlots
      BY <1>7, <2>1
    <2> QED
      BY <1>8, <2>2
  <1>14. \A i \in NewSlots : inodes'[n].direct_ptr[i] \in Fresh \cap DataNs
    BY <1>8 DEF Tracked, DirectInv, FreshApart, Fresh
  <1>15. Fresh = {inodes'[n].direct_ptr[i] : i \in NewSlots}
    BY <1>8 DEF Fresh
  <1>16. \A m \in Holders : \A i \in PtrSlots(m)' :
           IF i \in PtrSlots(m) THEN inodes'[m].direct_ptr[i] = inodes[m].direct_ptr[i]
           ELSE m = n /\ i \in NewSlots
    BY <1>7, <1>8, <1>9, <1>12, <1>13
  <1>17. PtrsApart'
    <2>1. ASSUME NEW m \in Holders, NEW i \in PtrSlots(m)'
          PROVE  inodes'[m].direct_ptr[i] \in DataNs
      BY <1>14, <1>16, <2>1 DEF Tracked, DirectInv, PtrsApart
    <2>2. ASSUME NEW m \in Holders, NEW k \in Holders,
                 NEW i \in PtrSlots(m)', NEW j \in PtrSlots(k)',
                 inodes'[m].direct_ptr[i] = inodes'[k].direct_ptr[j]
          PROVE  m = k /\ i = j
      <3>1. CASE i \in PtrSlots(m) /\ j \in PtrSlots(k)
        BY <1>16, <2>2, <3>1 DEF Tracked, DirectInv, PtrsApart
      <3>2. CASE i \in PtrSlots(m) /\ j \notin PtrSlots(k)
        BY <1>14, <1>16, <2>2, <3>2 DEF Tracked, DirectInv, FreshApart
      <3>3. CASE i \notin PtrSlots(m) /\ j \in PtrSlots(k)
        BY <1>14, <1>16, <2>2, <3>3 DEF Tracked, DirectInv, FreshApart
      <3>4. CASE i \notin PtrSlots(m) /\ j \notin PtrSlots(k)
        <4>1. m = n /\ k = n /\ i \in NewSlots /\ j \in NewSlots
          BY <1>16, <3>4
        <4> QED
          BY <1>8, <2>2, <4>1 DEF Tracked, DirectInv, FreshApart
      <3> QED
        BY <3>1, <3>2, <3>3, <3>4
    <2> QED
      BY <1>10, <2>1, <2>2 DEF PtrsApart
  <1>18. FreshApart'
    BY <1>1, <1>10 DEF FreshApart
  <1>19. InodesTracked'
    BY <1>1, <1>9, <1>10 DEF Tracked, DirectInv, InodesTracked, Releasing
  <1>20. BlocksTracked'
    <2>1. \A b \in DataNs :
            b \in data_bitmap <=>
              \/ b \in Fresh
              \/ \E m \in Holders : \E i \in PtrSlots(m) : inodes[m].direct_ptr[i] = b
      BY <1>9, <1>11 DEF Tracked, DirectInv, BlocksTracked
    <2>2. ASSUME NEW b \in DataNs, b \in Fresh
          PROVE  \E m \in Holders : \E i \in PtrSlots(m)' : inodes'[m].direct_ptr[i] = b
      BY <1>2, <1>7, <1>15, <2>2
    <2>3. ASSUME NEW b \in DataNs, NEW m \in Holders, NEW i \in PtrSlots(m),
                 inodes[m].direct_ptr[i] = b
          PROVE  i \in PtrSlots(m)' /\ inodes'[m].direct_ptr[i] = b
      <3>1. i \in PtrSlots(m)'
        BY <1>7, <1>9, <1>12
      <3> QED
        BY <1>16, <2>3, <3>1
    <2>4. ASSUME NEW b \in DataNs, NEW m \in Holders, NEW i \in PtrSlots(m)',
                 inodes'[m].direct_ptr[i] = b
          PROVE  b \in data_bitmap
      <3>1. CASE i \in PtrSlots(m)
        BY <1>16, <2>1, <2>4, <3>1
      <3>2. CASE i \notin PtrSlots(m)
        BY <1>14, <1>16, <2>1, <2>4, <3>2
      <3> QED
        BY <3>1, <3>2
    <2>5. \A b \in DataNs :
            b \in data_bitmap <=>
              \E m \in Holders : \E i \in PtrSlots(m)' : inodes'[m].direct_ptr[i] = b
      BY <2>1, <2>2, <2>3, <2>4
    <2> QED
      BY <1>9, <1>10, <2>5 DEF BlocksTracked
  <1>21. ObjectTracks'
    <2>1. \A m \in InodeNs : NBlocks(inodes'[m]) <= NDirect
      BY <1>5, <1>8, ShortInode, LayoutAssumption
    <2> QED
      BY <2>1, ClearedObject
  <1> QED
    BY <1>1, <1>17, <1>18, <1>19, <1>20, <1>21
    DEF DirectInv, StepsOfCalls, BufferTracks, WriteTracks

(* After any other call: the pointers of the inode are what they were.     *)
LEMMA WritebackKeeps ==
  ASSUME Tracked, Writeback, call.op # "write",
         NEW n \in InodeNs, n = call.inode_n
  PROVE  /\ inodes' = [inodes EXCEPT ![n] = inode_buf]
         /\ inodes \in [InodeNs -> InodeBlock] /\ inodes[n] \in InodeBlock
         /\ inodes'[n] = inode_buf /\ \A m \in InodeNs : m # n => inodes'[m] = inodes[m]
         /\ inode_buf.status = IF call.op \in {"remove", "format"} THEN "Free"
                               ELSE inodes[n].status
         /\ inode_buf.file_len = IF call.op = "format" THEN 0 ELSE inodes[n].file_len
         /\ PtrSlots(n)' = IF call.op = "format" THEN {} ELSE PtrSlots(n)
         /\ \A m \in InodeNs : m # n => PtrSlots(m)' = PtrSlots(m)
         /\ \A i \in 0 .. NDirect - 1 :
              inode_buf.direct_ptr[i] = inodes[n].direct_ptr[i]
         /\ Fresh = {} /\ Holders = UsedInodes /\ UsedInodes \subseteq InodeNs
         /\ ptrs_to_allocate' = <<>> /\ UNCHANGED <<inode_bitmap, data_bitmap>>
         /\ ObjectTracks' /\ call \in Call /\ ~Releasing /\ pc = "writeback"
         /\ call.op \in {"rename", "remove", "format"}
  <1>1. /\ pc = "writeback" /\ inode = inodes[n]
        /\ inodes \in [InodeNs -> InodeBlock] /\ inodes[n] \in InodeBlock
        /\ inode_buf \in InodeBlock /\ call \in Call
        /\ inodes' = [inodes EXCEPT ![n] = inode_buf]
        /\ Clear /\ ptrs_to_allocate' = <<>> /\ ptrs_to_allocate = <<>>
        /\ UNCHANGED <<inode_bitmap, data_bitmap>>
        /\ call.op \in {"rename", "remove", "format"} /\ ~Releasing
        /\ Holders = UsedInodes
        /\ \A i \in 0 .. NDirect - 1 :
             i \notin NewSlots => inode_buf.direct_ptr[i] = inodes[n].direct_ptr[i]
        /\ PtrSlots(n)' = 0 .. NBlocks(inode_buf) - 1
        /\ NewSlots = NBlocks(inodes[n]) .. NBlocks(inode_buf) - 1
    BY WritebackFacts
  <1>2. inodes'[n] = inode_buf /\ \A m \in InodeNs : m # n => inodes'[m] = inodes[m]
    BY <1>1
  <1>3. /\ inode_buf.status = IF call.op \in {"remove", "format"} THEN "Free"
                              ELSE inodes[n].status
        /\ inode_buf.file_len = IF call.op = "format" THEN 0 ELSE inodes[n].file_len
    BY <1>1 DEF Tracked, DirectInv, BufferTracks
  <1>4. PICK s \in Nat : s = NBlocks(inodes[n]) /\ s <= NDirect
    BY ShortInode
  <1>5. NBlocks(inode_buf) = IF call.op = "format" THEN 0 ELSE s
    BY <1>3, <1>4 DEF NBlocks, BytesToBlocks
  <1>6. NewSlots = {}
    BY <1>1, <1>4, <1>5
  <1>7. PtrSlots(n)' = IF call.op = "format" THEN {} ELSE PtrSlots(n)
    <2>1. PtrSlots(n) = 0 .. s - 1
      BY <1>4 DEF PtrSlots
    <2> QED
      BY <1>1, <1>5, <2>1
  <1>8. \A m \in InodeNs : m # n => PtrSlots(m)' = PtrSlots(m)
    BY <1>2 DEF PtrSlots, NBlocks
  <1>9. \A m \in InodeNs : NBlocks(inodes'[m]) <= NDirect
    BY <1>2, <1>4, <1>5, ShortInode, LayoutAssumption
  <1>10. ObjectTracks'
    BY <1>1, <1>9, ClearedObject
  <1>11. Fresh = {}
    BY <1>1 DEF Fresh
  <1>12. UsedInodes \subseteq InodeNs
    BY DEF UsedInodes
  <1> QED
    BY <1>1, <1>2, <1>3, <1>6, <1>7, <1>8, <1>10, <1>11, <1>12

LEMMA WritebackRename ==
  ASSUME Tracked, Writeback, call.op = "rename"
  PROVE  DirectInv'
  <1>1. PICK n \in InodeNs : n = call.inode_n
    BY WritebackFacts
  <1>2. /\ inodes'[n] = inode_buf /\ \A m \in InodeNs : m # n => inodes'[m] = inodes[m]
        /\ inode_buf.status = inodes[n].status
        /\ \A m \in InodeNs : PtrSlots(m)' = PtrSlots(m)
        /\ \A i \in 0 .. NDirect - 1 :
             inode_buf.direct_ptr[i] = inodes[n].direct_ptr[i]
        /\ Fresh = {} /\ Holders = UsedInodes /\ UsedInodes \subseteq InodeNs
        /\ ptrs_to_allocate' = <<>> /\ UNCHANGED <<inode_bitmap, data_bitmap>>
        /\ ObjectTracks' /\ ~Releasing /\ pc = "writeback"
    BY <1>1, WritebackKeeps
  <1>3. pc' = "idle" /\ call' = NoCall /\ call'.op = "none"
    BY DEF Writeback, AfterCommit, Return, NoCall
  <1>4. UsedInodes' = UsedInodes /\ Holders' = Holders /\ Fresh' = {} /\ ~Releasing'
    BY <1>2, <1>3 DEF UsedInodes, Holders, Releasing, Fresh
  <1>5. \A m \in Holders : \A i \in PtrSlots(m) :
          inodes'[m].direct_ptr[i] = inodes[m].direct_ptr[i]
    BY <1>2, ShortInode
  <1>6. \A m \in Holders : /\ PtrSlots(m)' = PtrSlots(m)
                           /\ MarkedSlots(m)' = PtrSlots(m)
                           /\ MarkedSlots(m) = PtrSlots(m)
    BY <1>2, <1>3, <1>4 DEF MarkedSlots
  <1>7. PtrsApart'
    BY <1>4, <1>5, <1>6 DEF Tracked, DirectInv, PtrsApart
  <1>8. FreshApart'
    BY <1>2, <1>3, <1>4 DEF FreshApart
  <1>9. InodesTracked'
    BY <1>2, <1>3, <1>4 DEF Tracked, DirectInv, InodesTracked
  <1>10. BlocksTracked'
    BY <1>2, <1>3, <1>4, <1>5, <1>6 DEF Tracked, DirectInv, BlocksTracked
  <1> QED
    BY <1>2, <1>3, <1>7, <1>8, <1>9, <1>10
    DEF DirectInv, StepsOfCalls, BufferTracks, WriteTracks

(* A removed inode is free, and its blocks are the call's.                 *)
LEMMA WritebackRemove ==
  ASSUME Tracked, Writeback, call.op = "remove"
  PROVE  DirectInv'
  <1>1. PICK n \in InodeNs : n = call.inode_n
    BY WritebackFacts
  <1>2. /\ inodes'[n] = inode_buf /\ \A m \in InodeNs : m # n => inodes'[m] = inodes[m]
        /\ inode_buf.status = "Free"
        /\ \A m \in InodeNs : PtrSlots(m)' = PtrSlots(m)
        /\ \A i \in 0 .. NDirect - 1 :
             inode_buf.direct_ptr[i] = inodes[n].direct_ptr[i]
        /\ Fresh = {} /\ Holders = UsedInodes /\ UsedInodes \subseteq InodeNs
        /\ ptrs_to_allocate' = <<>> /\ UNCHANGED <<inode_bitmap, data_bitmap>>
        /\ ObjectTracks' /\ ~Releasing /\ pc = "writeback" /\ call \in Call
    BY <1>1, WritebackKeeps
  <1>3. /\ pc' = "mark_load" /\ call'.op = "remove" /\ call'.i = 0 /\ call'.inode_n = n
    BY <1>1, <1>2 DEF Writeback, AfterCommit, Call
  <1>4. n \in Holders
    BY <1>1, <1>2 DEF Tracked, DirectInv, InodesTracked
  <1>5. /\ UsedInodes' = UsedInodes \ {n} /\ Releasing' /\ Fresh' = {}
    BY <1>2, <1>3 DEF UsedInodes, Releasing, Fresh
  <1>6. Holders' = Holders
    BY <1>2, <1>3, <1>4, <1>5 DEF Holders
  <1>7. \A m \in Holders : \A i \in PtrSlots(m) :
          inodes'[m].direct_ptr[i] = inodes[m].direct_ptr[i]
    BY <1>2, ShortInode
  <1>8. ASSUME NEW m \in Holders
        PROVE  /\ PtrSlots(m)' = PtrSlots(m)
               /\ MarkedSlots(m)' = PtrSlots(m) /\ MarkedSlots(m) = PtrSlots(m)
    <2>1. PtrSlots(m)' = PtrSlots(m) /\ PtrSlots(m)' = 0 .. NBlocks(inodes'[m]) - 1
      BY <1>2 DEF PtrSlots, NBlocks
    <2>2. MarkedSlots(m) = PtrSlots(m)
      BY <1>1, <1>2 DEF MarkedSlots, Tracked, DirectInv, StepsOfCalls
    <2>3. MarkedSlots(m)' = PtrSlots(m)'
      BY <1>3, <1>5, <2>1 DEF MarkedSlots, NBlocks
    <2> QED
      BY <2>1, <2>2, <2>3
  <1>9. PtrsApart'
    BY <1>6, <1>7, <1>8 DEF Tracked, DirectInv, PtrsApart
  <1>10. FreshApart'
    BY <1>2, <1>3, <1>5 DEF FreshApart
  <1>11. InodesTracked'
    BY <1>2, <1>3, <1>4, <1>5, <1>6 DEF Tracked, DirectInv, InodesTracked
  <1>12. BlocksTracked'
    BY <1>2, <1>3, <1>5, <1>6, <1>7, <1>8 DEF Tracked, DirectInv, BlocksTracked
  <1> QED
    BY <1>2, <1>3, <1>9, <1>10, <1>11, <1>12
    DEF DirectInv, StepsOfCalls, BufferTracks, WriteTracks

LEMMA WritebackFormat ==
  ASSUME Tracked, Writeback, call.op = "format"
  PROVE  DirectInv'
  <1>1. PICK n \in InodeNs : n = call.inode_n
    BY WritebackFacts
  <1>2. /\ inodes'[n] = inode_buf /\ \A m \in InodeNs : m # n => inodes'[m] = inodes[m]
        /\ inode_buf.status = "Free"
        /\ \A m \in InodeNs : m # n => PtrSlots(m)' = PtrSlots(m)
        /\ Holders = UsedInodes /\ UsedInodes \subseteq InodeNs
        /\ ptrs_to_allocate' = <<>> /\ ObjectTracks' /\ call \in Call
    BY <1>1, WritebackKeeps
  <1>3. pc' = "format" /\ call'.op = "format"
    BY <1>2 DEF Writeback, AfterCommit, Call
  <1>4. UsedInodes' = UsedInodes \ {n} /\ ~Releasing' /\ Fresh' = {}
    BY <1>2, <1>3 DEF UsedInodes, Releasing, Fresh
  <1>5. \A m \in Holders' : m \in Holders /\ PtrSlots(m)' = PtrSlots(m)
                            /\ inodes'[m] = inodes[m]
    BY <1>2, <1>4 DEF Holders
  <1>6. PtrsApart'
    BY <1>5 DEF Tracked, DirectInv, PtrsApart
  <1>7. FreshApart'
    BY <1>2, <1>3, <1>4 DEF FreshApart
  <1> QED
    BY <1>2, <1>3, <1>4, <1>6, <1>7
    DEF DirectInv, StepsOfCalls, BufferTracks, WriteTracks, InodesTracked, BlocksTracked

LEMMA WritebackTracked ==
  ASSUME Tracked, Writeback
  PROVE  DirectInv'
  BY WritebackFacts, WritebackWrite, WritebackRename, WritebackRemove, WritebackFormat

-----------------------------------------------------------------------------
LEMMA StepTracked ==
  ASSUME Tracked, Next, Careful, DirectOnly
  PROVE  DirectInv'
  <1>1. ASSUME NEW n \in InodeNs,
               RemoveCall(n) \/ \E op \in {"length", "name"} : LookupCall(op, n)
        PROVE  DirectInv'
    BY <1>1, LookupCallTracked, RemoveCallTracked
  <1>2. ASSUME NEW n \in InodeNs, NEW offset \in Offsets, NEW length \in ReadLengths,
               ReadCall(n, offset, length)
        PROVE  DirectInv'
    BY <1>2, ReadCallTracked, InputAssumption
  <1>3. ASSUME NEW n \in InodeNs, NEW offset \in Offsets, NEW data \in Payloads,
               WriteCall(n, offset, data), Careful, DirectOnly
        PROVE  DirectInv'
    BY <1>3, WriteCallTracked, InputAssumption
  <1>4. ASSUME NEW long_name \in BOOLEAN, CreateFile(long_name) PROVE DirectInv'
    BY <1>4, CreateFileTracked
  <1>5. ASSUME NEW long_name \in BOOLEAN, NEW n \in InodeNs, RenameCall(n, long_name)
        PROVE  DirectInv'
    BY <1>5, RenameCallTracked
  <1>6. CASE MountCall \/ FormatCall
    BY <1>6, MountCallTracked, FormatCallTracked
  <1>7. CASE InodeStep
    <2>1. ~LoadIndirect /\ ~FillIndirect /\ ~ExtendChain /\ ~StoreIndirect
      BY DEF Tracked, DirectInv, StepsOfCalls, LoadIndirect, FillIndirect, ExtendChain,
             StoreIndirect
    <2> QED
      BY <1>7, <2>1, CommitDirectTracked DEF InodeStep
  <1>8. CASE Writeback
    BY <1>8, WritebackTracked
  <1>9. CASE LookupReturn \/ ReadBlocks
    BY <1>9, LookupReturnTracked, ReadBlocksTracked
  <1>10. CASE EditFirst \/ EditRest \/ WriteTail \/ StoreBlocks
    BY <1>10, EditFirstTracked, EditRestTracked, WriteTailTracked, StoreBlocksTracked
  <1>11. CASE Unlink \/ MarkLoad \/ Mark \/ MarkIndirect
    BY <1>11, UnlinkTracked, MarkLoadTracked, MarkTracked, MarkIndirectTracked
  <1>12. CASE Scan \/ ScanCheck \/ Format \/ FormatReset
    BY <1>12, ScanTracked, ScanCheckTracked, FormatTracked, FormatResetTracked
  <1>13. CASE Crash
    BY <1>13, CrashTracked
  <1> QED
    BY <1>1, <1>2, <1>3, <1>4, <1>5, <1>6, <1>7, <1>8, <1>9, <1>10, <1>11, <1>12,
       <1>13 DEF Next, Invoke, FileCall, Step

LEMMA NextTracked == Tracked /\ [Next /\ Careful /\ DirectOnly]_vars => Tracked'
  <1> SUFFICES ASSUME Tracked, [Next /\ Careful /\ DirectOnly]_vars PROVE Tracked'
    OBVIOUS
  <1>1. Inv'
    BY NextInv DEF Tracked
  <1>2. CASE Next /\ Careful /\ DirectOnly
    BY <1>1, <1>2, StepTracked DEF Tracked
  <1>3. CASE UNCHANGED vars
    BY <1>1, <1>3, UnchangedTracked DEF Tracked, vars, bitmaps, image
  <1> QED
    BY <1>2, <1>3

LEMMA SpecTracked == DirectSpec => []Tracked
  <1> QED
    BY InitTracked, NextTracked, PTL DEF DirectSpec

-----------------------------------------------------------------------------
(* An inode without indirect blocks has an empty chain, and it owns what   *)
(* its direct pointers name.                                               *)
LEMMA NoChain ==
  ASSUME NEW ino, NChain(ino) = 0
  PROVE  Chain(ino) = <<>>
  <1> DEFINE Link(f) == [k \in 1 .. NChain(ino) |->
                           IF k = 1 THEN ino.indirect_inode_ptr
                           ELSE IF f[k - 1] \in DataNs THEN blocks[f[k - 1]][LinkSlot]
                           ELSE Null]
  <1>1. 1 .. NChain(ino) = {}
    OBVIOUS
  <1>2. \A f, g : Link(f) = Link(g)
    BY <1>1
  <1>3. Link(<<>>) = Link(Link(<<>>))
    BY <1>2
  <1>4. \E f : f = Link(f)
    BY <1>3
  <1>5. Chain(ino) = CHOOSE f : f = Link(f)
    BY DEF Chain
  <1>6. Chain(ino) = Link(Chain(ino))
    BY <1>4, <1>5
  <1>7. Chain(ino) = [k \in {} |-> 0]
    BY <1>1, <1>6
  <1> QED
    BY <1>7

LEMMA DirectOwned ==
  ASSUME Tracked, NEW n \in InodeNs
  PROVE  /\ Owned(n) \in Seq(Words) /\ DOMAIN Owned(n) = 1 .. NBlocks(inodes[n])
         /\ NBlocks(inodes[n]) \in Nat
         /\ \A i \in DOMAIN Owned(n) :
              i - 1 \in PtrSlots(n) /\ Owned(n)[i] = inodes[n].direct_ptr[i - 1]
         /\ \A i \in PtrSlots(n) :
              i + 1 \in DOMAIN Owned(n) /\ Owned(n)[i + 1] = inodes[n].direct_ptr[i]
  <1>1. PICK s \in Nat : s = NBlocks(inodes[n]) /\ s <= NDirect
    BY ShortInode
  <1>2. inodes[n] \in InodeBlock /\ ~HasIndirect(inodes[n])
    BY ShortInode
  <1>3. Chain(inodes[n]) = <<>>
    BY <1>2, NoChain DEF NChain
  <1>4. /\ Ptrs(inodes[n]) \in Seq(Words)
        /\ Ptrs(inodes[n]) = [i \in 1 .. s |-> inodes[n].direct_ptr[i - 1]]
    <2>1. \A i \in 1 .. s : i <= NDirect /\ i - 1 \in 0 .. NDirect - 1
      BY <1>1, LayoutAssumption
    <2>2. \A i \in 1 .. s : inodes[n].direct_ptr[i - 1] \in Words
      BY <1>2, <2>1 DEF InodeBlock
    <2>3. Ptrs(inodes[n]) = [i \in 1 .. s |-> inodes[n].direct_ptr[i - 1]]
      BY <1>1, <2>1 DEF Ptrs, NBlocks
    <2> QED
      BY <2>2, <2>3
  <1>5. Owned(n) = Ptrs(inodes[n])
    BY <1>3, <1>4 DEF Owned
  <1>6. PtrSlots(n) = 0 .. s - 1
    BY <1>1 DEF PtrSlots
  <1> QED
    BY <1>1, <1>4, <1>5, <1>6

LEMMA FilesApart ==
  ASSUME Tracked
  PROVE  NoSharing
  <1>1. ASSUME NEW n \in UsedInodes, NEW m \in UsedInodes,
               NEW i \in DOMAIN Owned(n), NEW j \in DOMAIN Owned(m)
        PROVE  /\ Owned(n)[i] \in DataNs
               /\ Owned(n)[i] = Owned(m)[j] => n = m /\ i = j
    <2>1. n \in Holders /\ m \in Holders /\ n \in InodeNs /\ m \in InodeNs
      BY DEF Holders, UsedInodes
    <2>2. /\ i - 1 \in PtrSlots(n) /\ Owned(n)[i] = inodes[n].direct_ptr[i - 1]
          /\ j - 1 \in PtrSlots(m) /\ Owned(m)[j] = inodes[m].direct_ptr[j - 1]
          /\ i \in Int /\ j \in Int
      BY <2>1, DirectOwned
    <2>3. i - 1 = j - 1 => i = j
      BY <2>2
    <2> QED
      BY <2>1, <2>2, <2>3 DEF Tracked, DirectInv, PtrsApart
  <1> QED
    BY <1>1 DEF NoSharing

(* Theorem: as long as every file stays within its direct pointers, no     *)
(* pointer of a used inode dangles and no block is in two places, at every *)
(* step of every call, and so whatever step the process stops at.          *)
THEOREM DirectFilesApart == DirectSpec => []NoSharing
  <1>1. Tracked => NoSharing
    BY FilesApart
  <1> QED
    BY <1>1, SpecTracked, PTL

(* A block is owned when a pointer in a slot of a used inode is to it.     *)
Owns(b) == \E n \in UsedInodes : \E i \in PtrSlots(n) : inodes[n].direct_ptr[i] = b

LEMMA OwnedIs ==
  ASSUME Tracked
  PROVE  \A b : b \in OwnedBlocks <=> Owns(b)
  <1>1. UsedInodes \subseteq InodeNs
    BY DEF UsedInodes
  <1>2. \A b : b \in OwnedBlocks <=>
          \E n \in UsedInodes : \E i \in DOMAIN Owned(n) : Owned(n)[i] = b
    BY DEF OwnedBlocks
  <1>3. ASSUME NEW b, b \in OwnedBlocks
        PROVE  \E n \in UsedInodes : \E i \in PtrSlots(n) : inodes[n].direct_ptr[i] = b
    <2>1. PICK n \in UsedInodes : \E i \in DOMAIN Owned(n) : Owned(n)[i] = b
      BY <1>2, <1>3
    <2>2. PICK i \in DOMAIN Owned(n) : Owned(n)[i] = b
      BY <2>1
    <2>3. i - 1 \in PtrSlots(n) /\ inodes[n].direct_ptr[i - 1] = b
      BY <1>1, <2>2, DirectOwned
    <2> QED
      BY <2>3
  <1>4. ASSUME NEW b, NEW n \in UsedInodes, NEW i \in PtrSlots(n),
               inodes[n].direct_ptr[i] = b
        PROVE  b \in OwnedBlocks
    <2>1. i + 1 \in DOMAIN Owned(n) /\ Owned(n)[i + 1] = b
      BY <1>1, <1>4, DirectOwned
    <2> QED
      BY <1>2, <2>1
  <1> QED
    BY <1>3, <1>4 DEF Owns

(* Between two calls the data bitmap is the blocks of the used inodes.     *)
LEMMA BitmapIsOwned ==
  ASSUME Tracked, pc = "idle"
  PROVE  inode_bitmap = UsedInodes /\ data_bitmap = OwnedBlocks
  <1>1. call.op = "none" /\ Ordinary /\ ptrs_to_allocate = <<>>
    BY AllStored DEF Tracked, Inv, NothingPending, NoCall, Ordinary, Releasing
  <1>2. /\ Holders = UsedInodes /\ Fresh = {}
        /\ \A n \in InodeNs : MarkedSlots(n) = PtrSlots(n)
    BY <1>1, WhenOrdinary DEF Pendings
  <1>3. inode_bitmap = UsedInodes /\ UsedInodes \subseteq InodeNs
    BY <1>1, <1>2 DEF Tracked, DirectInv, InodesTracked, UsedInodes
  <1>4. data_bitmap \subseteq DataNs
    BY DEF Tracked, Inv, TypeOK
  <1>5. \A b \in DataNs :
          b \in data_bitmap <=>
            \E n \in UsedInodes : \E i \in PtrSlots(n) : inodes[n].direct_ptr[i] = b
    BY <1>1, <1>2, <1>3 DEF Tracked, DirectInv, BlocksTracked
  <1>6. \A b : b \in OwnedBlocks <=>
          \E n \in UsedInodes : \E i \in PtrSlots(n) : inodes[n].direct_ptr[i] = b
    BY OwnedIs DEF Owns
  <1>7. \A n \in UsedInodes : \A i \in PtrSlots(n) : inodes[n].direct_ptr[i] \in DataNs
    BY <1>2 DEF Tracked, DirectInv, PtrsApart
  <1>8. \A b : b \in data_bitmap <=> b \in OwnedBlocks
    BY <1>4, <1>5, <1>6, <1>7
  <1> QED
    BY <1>3, <1>8

(* Theorem: between two calls no inode and no block that a file uses is    *)
(* free for next_free to hand out again.                                   *)
THEOREM DirectBitmapsSafe == DirectSpec => []BitmapsSafe
  <1>1. Tracked => BitmapsSafe
    BY BitmapIsOwned DEF BitmapsSafe
  <1> QED
    BY <1>1, SpecTracked, PTL

(* Theorem: between two calls no block is marked used that no file owns:   *)
(* write, remove_file and their failures give back what they do not keep.  *)
THEOREM DirectNoLeak == DirectSpec => []NoLeak
  <1>1. Tracked => NoLeak
    BY BitmapIsOwned DEF NoLeak
  <1> QED
    BY <1>1, SpecTracked, PTL

LEMMA ObjectIsImage ==
  ASSUME Tracked
  PROVE  ObjectCoherent
  <1>1. ASSUME pc = "idle", loaded_inode_n # Null
        PROVE  LET ino == inodes[loaded_inode_n]
               IN  inode = ino /\ inode_buf = ino /\ ~HasIndirect(ino)
    <2>1. loaded_inode_n \in InodeNs
      BY <1>1 DEF Tracked, Inv, TypeOK
    <2>2. inode = inodes[loaded_inode_n] /\ inode_buf = inode
      BY <1>1 DEF Tracked, DirectInv, ObjectTracks
    <2> QED
      BY <2>1, <2>2, ShortInode
  <1> QED
    BY <1>1 DEF ObjectCoherent

(* Theorem: the inode object that load() trusts when it holds the inode it *)
(* is asked for is, between two calls, the inode on the image.             *)
THEOREM DirectObjectCoherent == DirectSpec => []ObjectCoherent
  <1>1. Tracked => ObjectCoherent
    BY ObjectIsImage
  <1> QED
    BY <1>1, SpecTracked, PTL

(* Theorem: what a call on a file reads and changes through the object is  *)
(* the inode that the call is about, as it is on the image: the number     *)
(* and the content, at every step from the load to the commit.             *)
THEOREM CallsUseTheirInode == DirectSpec => []CallsHoldTheirInode
  <1>1. ASSUME Tracked
        PROVE  CallsHoldTheirInode
    <2>1. ASSUME pc \in AfterLoad \cup {"mark_indirect", "edit_rest", "tail", "store"}
          PROVE  loaded_inode_n = call.inode_n /\ inode = inodes[call.inode_n]
      <3>1. loaded_inode_n = call.inode_n /\ call.inode_n \in InodeNs
        BY <1>1, <2>1
        DEF Tracked, Inv, NumberLoaded, LocalsInRange, InUse, AfterLoad
      <3>2. loaded_inode_n # Null
        BY <3>1, LayoutAssumption DEF InodeNs, Null
      <3> QED
        BY <1>1, <3>1, <3>2 DEF Tracked, DirectInv, ObjectTracks
    <2> QED
      BY <2>1 DEF CallsHoldTheirInode
  <1> QED
    BY <1>1, SpecTracked, PTL

(* Theorem: the invariant that carries the four above.                     *)
THEOREM DirectFilesTracked == DirectSpec => []DirectInv
  <1>1. Tracked => DirectInv
    BY DEF Tracked
  <1> QED
    BY <1>1, SpecTracked, PTL

(* Theorem: a write reports fewer words than it was given only when the    *)
(* image has no free block left.                                           *)
THEOREM DirectShortWrites == DirectSpec => ShortWriteMeansFull
  <1> DEFINE Reported == pc = "writeback" /\ call.op = "write" /\ result'.how = "ok" =>
                           result'.n = Len(call.data) \/ FreeBlocks = {}
  <1>1. ASSUME Tracked, Next, pc = "writeback", call.op = "write", result'.how = "ok"
        PROVE  result'.n = Len(call.data) \/ FreeBlocks = {}
    <2>1. NDone = Len(call.data) \/ FreeBlocks = {}
      BY <1>1 DEF Tracked, DirectInv, WriteTracks
    <2>2. ~Invoke
      BY <1>1 DEF Invoke, FileCall, RemoveCall, LookupCall, ReadCall, WriteCall,
                  CreateFile, RenameCall, MountCall, FormatCall
    <2>3. Step => Writeback
      BY <1>1 DEF Step, InodeStep, LoadIndirect, CommitDirect, FillIndirect, ExtendChain,
                  StoreIndirect, LookupReturn, ReadBlocks, EditFirst, EditRest, WriteTail,
                  StoreBlocks, Unlink, MarkLoad, Mark, MarkIndirect, Scan, ScanCheck,
                  Format, FormatReset
    <2>4. ~Crash
      BY <1>1 DEF Crash, Pending
    <2>5. result' = Ok(call.n_written + call.n_edited)
      BY <1>1, <2>2, <2>3, <2>4 DEF Next, Writeback, AfterCommit, Return, Throw, Threw
    <2>6. call.n_written + call.n_edited = NDone
      <3>1. call.n_written \in Nat /\ call.n_edited \in Nat
        BY <1>1 DEF Tracked, Inv, TypeOK, Call
      <3> QED
        BY <3>1 DEF NDone
    <2> QED
      BY <2>1, <2>5, <2>6 DEF Ok
  <1>2. Tracked /\ [Next /\ Careful /\ DirectOnly]_vars => [Reported]_vars
    BY <1>1 DEF Reported
  <1> HIDE DEF Reported
  <1>3. DirectSpec => [][Reported]_vars
    BY <1>2, SpecTracked, PTL DEF DirectSpec
  <1> QED
    BY <1>3 DEF ShortWriteMeansFull, Reported
=============================================================================
