---------------------------- MODULE Store_proofs -----------------------------
(***************************************************************************)
(* Theorem: with files on direct pointers the file system implements       *)
(* FileStore.  Every step of a call changes the files as one step of the   *)
(* abstract request does, or leaves them alone.  What is known between the *)
(* steps is Tracked, of the blocks, and WordsTracked, of the words.        *)
(***************************************************************************)
EXTENDS DirectFiles_proofs

(* Word k of the file of inode n, and the files in these words.            *)
At(n, k) == blocks[inodes[n].direct_ptr[k \div BlockSize]][k % BlockSize]

FileOf(n) == [present |-> n \in UsedInodes,
              words   |-> IF n \in UsedInodes
                          THEN [k \in 1 .. inodes[n].file_len |-> At(n, k - 1)]
                          ELSE <<>>]

TheWords == \A n \in InodeNs : StoreFiles[n] = FileOf(n)

LEMMA WordInside ==
  ASSUME Tracked, NEW n \in UsedInodes, NEW k \in Nat, k < inodes[n].file_len
  PROVE  /\ n \in InodeNs /\ n \in Holders /\ inodes[n].file_len \in Nat
         /\ k \div BlockSize \in PtrSlots(n) /\ k % BlockSize \in Slots
         /\ inodes[n].direct_ptr[k \div BlockSize] \in DataNs
         /\ At(n, k) \in Words
  <1>1. n \in InodeNs /\ n \in Holders
    BY DEF UsedInodes, Holders
  <1>2. inodes[n].file_len \in Nat
    BY <1>1, ShortInode DEF InodeBlock
  <1>3. k \div BlockSize \in Nat /\ k % BlockSize \in 0 .. BlockSize - 1
    BY SplitWord
  <1>4. k \div BlockSize < NBlocks(inodes[n]) /\ NBlocks(inodes[n]) \in Nat
    BY <1>1, <1>2, WordInBlocks, ShortInode DEF NBlocks
  <1>5. k \div BlockSize \in PtrSlots(n)
    BY <1>3, <1>4 DEF PtrSlots
  <1>6. inodes[n].direct_ptr[k \div BlockSize] \in DataNs
    BY <1>1, <1>5 DEF Tracked, DirectInv, PtrsApart
  <1>7. At(n, k) \in Words
    BY <1>3, <1>6 DEF At, Tracked, Inv, TypeOK, Block, Slots
  <1> QED
    BY <1>1, <1>2, <1>3, <1>5, <1>6, <1>7 DEF Slots

LEMMA TheWordsHold == Tracked => TheWords
  <1> SUFFICES ASSUME Tracked, NEW n \in InodeNs PROVE StoreFiles[n] = FileOf(n)
    BY DEF TheWords
  <1>1. CASE n \in UsedInodes
    <2> DEFINE owned == Owned(n)
               Word(k) == LET b == owned[k \div BlockSize + 1]
                          IN  IF b \in DataNs THEN blocks[b][k % BlockSize] ELSE Null
    <2>1. inodes[n].file_len \in Nat
      BY ShortInode DEF InodeBlock
    <2>2. ASSUME NEW k \in 1 .. inodes[n].file_len PROVE Word(k - 1) = At(n, k - 1)
      <3>1. PICK j \in Nat : j = k - 1 /\ j < inodes[n].file_len
        BY <2>1
      <3>2. PICK q \in Nat : /\ q = j \div BlockSize /\ q \in PtrSlots(n)
                             /\ inodes[n].direct_ptr[q] \in DataNs
        BY <1>1, <3>1, WordInside, SplitWord
      <3>3. owned[q + 1] = inodes[n].direct_ptr[q]
        BY <3>2, DirectOwned
      <3> QED
        BY <3>1, <3>2, <3>3 DEF At
    <2>3. FileWords(n) = [k \in 1 .. inodes[n].file_len |-> Word(k - 1)]
      BY DEF FileWords
    <2>4. FileWords(n) = [k \in 1 .. inodes[n].file_len |-> At(n, k - 1)]
      BY <2>2, <2>3
    <2> QED
      BY <1>1, <2>4 DEF StoreFiles, FileOf
  <1>2. CASE n \notin UsedInodes
    BY <1>2 DEF StoreFiles, FileOf
  <1> QED
    BY <1>1, <1>2

LEMMA TheWordsNext == Tracked' => TheWords'
  BY TheWordsHold, PTL

(* Two states whose used inodes hold the same words stand for the same     *)
(* files; and one file may differ.                                         *)
LEMMA FileStays ==
  ASSUME Tracked, Tracked', NEW n \in InodeNs,
         n \in UsedInodes' <=> n \in UsedInodes,
         n \in UsedInodes => /\ inodes'[n].file_len = inodes[n].file_len
                             /\ \A k \in Nat : k < inodes[n].file_len => At(n, k)' = At(n, k)
  PROVE  StoreFiles'[n] = StoreFiles[n]
  <1>1. StoreFiles[n] = FileOf(n) /\ StoreFiles'[n] = FileOf(n)'
    BY TheWordsHold, TheWordsNext DEF TheWords
  <1>2. CASE n \in UsedInodes
    <2>1. inodes[n].file_len \in Nat
      BY ShortInode DEF InodeBlock
    <2>2. \A k \in 1 .. inodes[n].file_len : At(n, k - 1)' = At(n, k - 1)
      BY <1>2, <2>1
    <2> QED
      BY <1>1, <1>2, <2>2 DEF FileOf
  <1> QED
    BY <1>1, <1>2 DEF FileOf

LEMMA FilesStay ==
  ASSUME Tracked, Tracked', UNCHANGED inodes,
         \A n \in UsedInodes : \A k \in Nat : k < inodes[n].file_len => At(n, k)' = At(n, k)
  PROVE  StoreFiles' = StoreFiles
  <1>1. UsedInodes' = UsedInodes
    BY DEF UsedInodes
  <1>2. \A n \in InodeNs : StoreFiles'[n] = StoreFiles[n]
    BY <1>1, FileStays
  <1>3. StoreFiles = [n \in InodeNs |-> StoreFiles[n]]
        /\ StoreFiles' = [n \in InodeNs |-> StoreFiles'[n]]
    BY DEF StoreFiles
  <1> QED
    BY <1>2, <1>3

LEMMA ImageStays ==
  ASSUME Tracked, Tracked', UNCHANGED image
  PROVE  StoreFiles' = StoreFiles
  BY FilesStay DEF image, At

LEMMA OneFileChanges ==
  ASSUME Tracked, Tracked', NEW n \in InodeNs,
         \A m \in InodeNs : m # n =>
           /\ m \in UsedInodes' <=> m \in UsedInodes
           /\ m \in UsedInodes =>
                /\ inodes'[m].file_len = inodes[m].file_len
                /\ \A k \in Nat : k < inodes[m].file_len => At(m, k)' = At(m, k)
  PROVE  StoreFiles' = [StoreFiles EXCEPT ![n] = FileOf(n)']
  <1>1. \A m \in InodeNs : m # n => StoreFiles'[m] = StoreFiles[m]
    BY FileStays
  <1>2. StoreFiles'[n] = FileOf(n)'
    BY TheWordsNext DEF TheWords
  <1>3. StoreFiles = [m \in InodeNs |-> StoreFiles[m]]
        /\ StoreFiles' = [m \in InodeNs |-> StoreFiles'[m]]
    BY DEF StoreFiles
  <1> QED
    BY <1>1, <1>2, <1>3

-----------------------------------------------------------------------------
(* The invariant, and what each step is to show.                           *)
Promised == Tracked /\ WordsTracked

Kept == WordsTracked' /\ [Store!StoreNext]_<<StoreRequest, result, StoreFiles>>

(* Between two calls nothing is tracked, and neither is anything of the    *)
(* words while a call other than a write runs.                             *)
LEMMA WordsAtRest ==
  ASSUME pc' \in {"off", "idle"}, call'.op = "none"
  PROVE  WordsTracked'
  BY DEF WordsTracked, RepliesPending, LookupsInside, EditedWords, EditAligned, AppendedWords,
         FormattedSoFar

LEMMA WordsOfOthers ==
  ASSUME Tracked', call'.op # "write", result' = Pending,
         pc' = "read" => \/ call'.offset # inode'.file_len
                         \/ inode'.file_len % BlockSize # 0,
         call'.op = "format" => \A n \in UsedInodes' : n >= call'.inode_n
  PROVE  WordsTracked'
  <1>1. pc' \notin {"edit", "edit_rest", "tail", "store"}
    BY DEF Tracked, DirectInv, StepsOfCalls
  <1> QED
    BY <1>1 DEF WordsTracked, RepliesPending, LookupsInside, EditedWords, EditAligned, AppendedWords,
                FormattedSoFar

LEMMA NoRequestAtRest ==
  /\ call = NoCall => StoreRequest = Store!NoRequest(pc)
  /\ call' = NoCall => StoreRequest' = Store!NoRequest(pc')
  BY DEF StoreRequest, Store!NoRequest, NoCall

LEMMA RequestStays ==
  ASSUME call.op # "none", call'.op = call.op, call'.offset = call.offset,
         call'.length = call.length, call'.data = call.data,
         \/ call'.inode_n = call.inode_n
         \/ call.op \in {"mount", "format"}
  PROVE  StoreRequest' = StoreRequest
  BY DEF StoreRequest

(* The request while a call runs.                                          *)
LEMMA RunningRequest ==
  ASSUME call.op # "none"
  PROVE  /\ StoreRequest.op = call.op /\ StoreRequest.offset = call.offset
         /\ StoreRequest.length = call.length /\ StoreRequest.data = call.data
         /\ call.op \notin {"mount", "format"} => StoreRequest.n = call.inode_n
  BY DEF StoreRequest

(* A step that the caller cannot see.                                      *)
LEMMA Unseen ==
  ASSUME Tracked, Tracked', RepliesPending, call.op # "none",
         result' \in {result, Pending}, call'.op = call.op, call'.offset = call.offset,
         call'.length = call.length, call'.data = call.data,
         \/ call'.inode_n = call.inode_n
         \/ call.op \in {"mount", "format"},
         UNCHANGED image
  PROVE  UNCHANGED <<StoreRequest, result, StoreFiles>>
  BY RequestStays, ImageStays DEF RepliesPending

LEMMA AnswerKept ==
  ASSUME Promised, Tracked', pc = "idle", NEW r \in {Ok(0), Refused}, Answer(r)
  PROVE  Kept
  <1>1. call = NoCall /\ call' = NoCall /\ pc' = "idle" /\ result' = r
        /\ UNCHANGED image
    BY DEF Answer, Promised, Tracked, Inv, NothingPending
  <1>2. WordsTracked'
    BY <1>1, WordsAtRest DEF NoCall
  <1>3. StoreFiles' = StoreFiles
    BY <1>1, ImageStays DEF Promised
  <1>4. StoreRequest = Store!NoRequest("idle") /\ StoreRequest' = StoreRequest
    BY <1>1, NoRequestAtRest
  <1>5. Store!AnswerAtOnce
    BY <1>1, <1>3, <1>4
    DEF Store!AnswerAtOnce, Store!NoRequest, Store!Replies, Ok, Refused, Null
  <1> QED
    BY <1>2, <1>5 DEF Kept, Store!StoreNext

(* A call on an inode that is in use asks for its file.                    *)
LEMMA StartAsks ==
  ASSUME Promised, Tracked', pc = "idle", NEW n \in inode_bitmap, NEW c \in Call,
         NEW op \in {"write", "read", "remove", "rename", "length", "name"},
         NEW label, Start(op, n, c, label)
  PROVE  /\ Store!Ask
         /\ inode' = inodes[n] /\ loaded_inode_n' = n /\ UNCHANGED <<inodes, blocks>>
         /\ pc' = label /\ result' = Pending
         /\ call'.op = op /\ call'.inode_n = n /\ call'.offset = c.offset
         /\ call'.data = c.data /\ call'.free_bytes = c.free_bytes
  <1> DEFINE d == [c EXCEPT !.op = op, !.inode_n = n]
  <1>1. call = NoCall /\ n \in UsedInodes /\ n \in InodeNs
    BY BitmapIsOwned DEF Promised, Tracked, Inv, NothingPending, UsedInodes
  <1>2. /\ d.op = op /\ d.inode_n = n /\ d.offset = c.offset /\ d.length = c.length
        /\ d.data = c.data /\ d.free_bytes = c.free_bytes
        /\ c.offset \in Nat /\ c.length \in Nat /\ c.data \in Seq(Words)
    BY DEF Call
  <1>3. LoadInode(d, n, label)
    BY DEF Start
  <1> HIDE DEF d
  <1>4. /\ inode' = inodes[n] /\ loaded_inode_n' = n /\ UNCHANGED <<inodes, blocks>>
        /\ pc' = label /\ call' = d /\ result' = Pending
    BY <1>1, <1>3, ShortLoad DEF Promised
  <1>5. StoreFiles' = StoreFiles
    BY <1>4, ImageStays DEF Promised, image
  <1>6. StoreRequest = Store!NoRequest("idle")
    BY <1>1, NoRequestAtRest
  <1>7. StoreRequest' = [op |-> op, n |-> n, offset |-> c.offset,
                         length |-> c.length, data |-> c.data]
    BY <1>2, <1>4 DEF StoreRequest
  <1>8. StoreRequest' \in Store!Requests
    BY <1>1, <1>2, <1>7 DEF Store!Requests, Store!OfFiles
  <1>9. StoreFiles[n].present
    BY <1>1 DEF StoreFiles
  <1>10. Store!Ask
    BY <1>4, <1>5, <1>6, <1>7, <1>8, <1>9
    DEF Store!Ask, Store!NoRequest, Store!OfFiles, Store!Replies, Pending
  <1> QED
    BY <1>2, <1>4, <1>10

LEMMA LookupCallKept ==
  ASSUME Promised, Tracked', NEW op \in {"length", "name"}, NEW n \in InodeNs,
         LookupCall(op, n)
  PROVE  Kept
  <1>1. CASE Answer(Refused)
    BY <1>1, AnswerKept DEF LookupCall
  <1>2. CASE n \in inode_bitmap /\ Start(op, n, NoCall, "return")
    <2>1. Store!Ask /\ pc' = "return" /\ result' = Pending /\ call'.op = op
      BY <1>2, StartAsks, ConstantTypes DEF LookupCall
    <2> QED
      BY <2>1, WordsOfOthers DEF Kept, Store!StoreNext
  <1> QED
    BY <1>1, <1>2 DEF LookupCall

LEMMA RenameCallKept ==
  ASSUME Promised, Tracked', NEW n \in InodeNs, NEW long_name \in BOOLEAN,
         RenameCall(n, long_name)
  PROVE  Kept
  <1>1. CASE Answer(Refused)
    BY <1>1, AnswerKept DEF RenameCall
  <1>2. CASE n \in inode_bitmap /\ Start("rename", n, NoCall, "commit")
    <2>1. Store!Ask /\ pc' = "commit" /\ result' = Pending /\ call'.op = "rename"
      BY <1>2, StartAsks, ConstantTypes DEF RenameCall
    <2> QED
      BY <2>1, WordsOfOthers DEF Kept, Store!StoreNext
  <1> QED
    BY <1>1, <1>2 DEF RenameCall

LEMMA RemoveCallKept ==
  ASSUME Promised, Tracked', NEW n \in InodeNs, RemoveCall(n)
  PROVE  Kept
  <1>1. CASE Answer(Refused)
    BY <1>1, AnswerKept DEF RemoveCall
  <1>2. CASE n \in inode_bitmap /\ Start("remove", n, NoCall, "unlink")
    <2>1. Store!Ask /\ pc' = "unlink" /\ result' = Pending /\ call'.op = "remove"
      BY <1>2, StartAsks, ConstantTypes DEF RemoveCall
    <2> QED
      BY <2>1, WordsOfOthers DEF Kept, Store!StoreNext
  <1> QED
    BY <1>1, <1>2 DEF RemoveCall

(* A read starts inside its file, or where it will be refused.             *)
LEMMA ReadCallKept ==
  ASSUME Promised, Tracked', NEW n \in InodeNs, NEW offset \in Nat, NEW length \in Nat,
         ReadCall(n, offset, length), ReadHasBlock
  PROVE  Kept
  <1> DEFINE c == [NoCall EXCEPT !.offset = offset, !.length = length]
  <1>1. CASE Answer(Refused) \/ Answer(Ok(0))
    BY <1>1, AnswerKept DEF ReadCall
  <1>2. CASE n \in inode_bitmap /\ Start("read", n, c, "read")
    <2>1. pc = "idle" /\ call.op = "none"
      BY DEF NoCall, ReadCall, Promised, Tracked, Inv, NothingPending
    <2>2. c \in Call
      BY ConstantTypes DEF Call
    <2> HIDE DEF c
    <2>3. /\ Store!Ask /\ pc' = "read" /\ result' = Pending /\ inode' = inodes[n]
          /\ call'.op = "read" /\ call'.inode_n = n
      BY <1>2, <2>1, <2>2, StartAsks
    <2>4. \/ call'.offset # inode'.file_len
          \/ inode'.file_len % BlockSize # 0
      BY <1>2, <2>1, <2>2, <2>3, StartAsks DEF ReadHasBlock, Starts, Target
    <2> QED
      BY <2>3, <2>4, WordsOfOthers DEF Kept, Store!StoreNext
  <1> QED
    BY <1>1, <1>2 DEF ReadCall

(* The discipline of edits is known of the request from its start.         *)
LEMMA WriteCallKept ==
  ASSUME Promised, Tracked', NEW n \in InodeNs, NEW offset \in Nat, NEW data \in Seq(Words),
         WriteCall(n, offset, data), EditStaysInside
  PROVE  Kept
  <1> DEFINE c == [NoCall EXCEPT !.offset = offset, !.data = data]
  <1>1. CASE Answer(Refused) \/ Answer(Ok(0))
    BY <1>1, AnswerKept DEF WriteCall
  <1>2. CASE n \in inode_bitmap /\ Start("write", n, c, "edit")
    <2>1. pc = "idle" /\ call.op = "none" /\ c.free_bytes = 0
      BY DEF NoCall, WriteCall, Promised, Tracked, Inv, NothingPending
    <2>2. c \in Call
      BY ConstantTypes DEF Call
    <2> HIDE DEF c
    <2>3. /\ Store!Ask /\ pc' = "edit" /\ result' = Pending
          /\ inode' = inodes[n] /\ inodes' = inodes
          /\ call'.op = "write" /\ call'.inode_n = n /\ call'.free_bytes = 0
      BY <1>2, <2>1, <2>2, StartAsks
    <2>4. EditFrom' = EditAt /\ EditLen' = NEdit /\ NBlocks(inode)' = BytesToBlocks(Target.file_len)
      BY <2>3 DEF EditFrom, EditAt, EditLen, NEdit, Target, NBlocks
    <2>5. \/ EditFrom' < 0 \/ EditLen' = 0
          \/ (EditFrom' % BlockSize) + EditLen' <= BlockSize
          \/ (EditFrom' \div BlockSize) + BytesToBlocks(EditLen') < NBlocks(inode)'
      BY <2>1, <2>3, <2>4 DEF EditStaysInside, Starts
    <2>6. WordsTracked'
      BY <2>3, <2>5
      DEF WordsTracked, RepliesPending, LookupsInside, EditedWords, EditAligned, AppendedWords,
          FormattedSoFar, NBlocks
    <2> QED
      BY <2>3, <2>6 DEF Kept, Store!StoreNext
  <1> QED
    BY <1>1, <1>2 DEF WriteCall

-----------------------------------------------------------------------------
(* mount and format leave every file as it is when they start; a crash     *)
(* does so too.                                                            *)
LEMMA BeginKept ==
  ASSUME Promised, Tracked', UNCHANGED image, result' = Pending,
         NEW op \in {"mount", "format"}, call' = [NoCall EXCEPT !.op = op],
         pc = "off" \/ (pc = "idle" /\ op = "mount")
  PROVE  Kept
  <1>1. call = NoCall /\ call'.op = op /\ call'.inode_n = 0 /\ pc \in {"off", "idle"}
    BY DEF Promised, Tracked, Inv, NothingPending, NoCall
  <1>2. StoreRequest = Store!NoRequest(pc)
    BY <1>1, NoRequestAtRest
  <1>3. StoreRequest' = [op |-> op, n |-> 0, offset |-> 0, length |-> 0, data |-> <<>>]
    BY DEF StoreRequest, NoCall
  <1>4. StoreRequest' \in Store!Requests
    BY <1>3, ConstantTypes DEF Store!Requests, Store!OfFiles
  <1>5. StoreFiles' = StoreFiles
    BY ImageStays DEF Promised
  <1>6. Store!Ask
    BY <1>1, <1>2, <1>3, <1>4, <1>5
    DEF Store!Ask, Store!NoRequest, Store!OfFiles, Store!Replies, Pending
  <1>7. \A n \in UsedInodes' : n >= 0
    BY DEF UsedInodes, InodeNs
  <1>8. pc' # "read"
    BY <1>1 DEF Tracked, DirectInv, StepsOfCalls
  <1> QED
    BY <1>1, <1>6, <1>7, <1>8, WordsOfOthers DEF Kept, Store!StoreNext

LEMMA MountCallKept ==
  ASSUME Promised, Tracked', MountCall
  PROVE  Kept
  BY BeginKept DEF MountCall

LEMMA FormatCallKept ==
  ASSUME Promised, Tracked', FormatCall
  PROVE  Kept
  BY BeginKept DEF FormatCall

LEMMA CrashKept ==
  ASSUME Promised, Tracked', Crash
  PROVE  Kept
  <1>1. pc' = "off" /\ call' = NoCall /\ result' = Pending /\ UNCHANGED image
    BY DEF Crash
  <1>2. StoreRequest' = Store!NoRequest("off")
    BY <1>1, NoRequestAtRest
  <1>3. StoreFiles' = StoreFiles
    BY <1>1, ImageStays DEF Promised
  <1>4. Store!Stop
    BY <1>1, <1>2, <1>3 DEF Store!Stop, Store!Ends, Store!Replies, Pending
  <1>5. WordsTracked'
    BY <1>1, WordsAtRest DEF NoCall
  <1> QED
    BY <1>4, <1>5 DEF Kept, Store!StoreNext

(* create_file takes the first absent file and makes it empty.             *)
LEMMA CreateFileKept ==
  ASSUME Promised, Tracked', NEW long_name \in BOOLEAN, CreateFile(long_name)
  PROVE  Kept
  <1>1. CASE Answer(Refused)
    BY <1>1, AnswerKept DEF CreateFile
  <1>2. CASE ~Answer(Refused)
    <2>1. PICK n \in InodeNs \ inode_bitmap :
             /\ \A m \in InodeNs \ inode_bitmap : n <= m
             /\ inodes' = [inodes EXCEPT ![n] = NewInode]
             /\ result' = Ok(n)
      BY <1>2 DEF CreateFile
    <2>2. pc = "idle" /\ pc' = "idle" /\ call = NoCall /\ call' = NoCall /\ UNCHANGED blocks
      BY <1>2 DEF CreateFile, Promised, Tracked, Inv, NothingPending
    <2>3. inode_bitmap = UsedInodes
      BY <2>2, BitmapIsOwned DEF Promised
    <2>4. inodes \in [InodeNs -> InodeBlock]
      BY DEF Promised, Tracked, Inv, TypeOK
    <2>5. /\ inodes'[n] = NewInode /\ NewInode.status = "Used" /\ NewInode.file_len = 0
          /\ \A m \in InodeNs : m # n => inodes'[m] = inodes[m]
      BY <2>1, <2>4 DEF NewInode
    <2>6. \A m \in InodeNs : m # n =>
            /\ m \in UsedInodes' <=> m \in UsedInodes
            /\ \A k : At(m, k)' = At(m, k)
      BY <2>2, <2>5 DEF UsedInodes, At
    <2>7. StoreFiles' = [StoreFiles EXCEPT ![n] = FileOf(n)']
      BY <2>1, <2>5, <2>6, OneFileChanges DEF Promised
    <2>8. FileOf(n)' = Store!File(<<>>)
      <3>1. [k \in 1 .. inodes'[n].file_len |-> At(n, k - 1)'] = <<>>
        <4>1. 1 .. inodes'[n].file_len = {}
          BY <2>5
        <4>2. [k \in 1 .. inodes'[n].file_len |-> At(n, k - 1)'] = [k \in {} |-> 0]
          BY <4>1
        <4> QED
          BY <4>2
      <3> QED
        BY <2>1, <2>5, <3>1 DEF FileOf, UsedInodes, Store!File
    <2>9. \A m \in InodeNs : StoreFiles[m].present <=> m \in UsedInodes
      BY DEF StoreFiles
    <2>10. \A m \in InodeNs : m < n => StoreFiles[m].present
      <3>1. \A m \in InodeNs : m < n => m \in inode_bitmap
        BY <2>1 DEF InodeNs
      <3> QED
        BY <2>3, <2>9, <3>1
    <2>11. StoreRequest = Store!NoRequest("idle") /\ StoreRequest' = StoreRequest
      BY <2>2, NoRequestAtRest
    <2>12. Store!Create
      BY <2>1, <2>3, <2>7, <2>8, <2>9, <2>10, <2>11
      DEF Store!Create, Store!NoRequest, Store!Replies, Ok
    <2>13. WordsTracked'
      BY <2>2, WordsAtRest DEF NoCall
    <2> QED
      BY <2>12, <2>13 DEF Kept, Store!StoreNext
  <1> QED
    BY <1>1, <1>2

-----------------------------------------------------------------------------
(* The calls that look at a file.                                          *)
LEMMA PartIs ==
  ASSUME NEW S, NEW s \in Seq(S), NEW m \in Nat, NEW n \in Nat, m + n <= Len(s)
  PROVE  SubSeq(s, m + 1, m + n) = [k \in 1 .. n |-> s[m + k]]
  <1>1. /\ SubSeq(s, m + 1, m + n) \in Seq(S)
        /\ Len(SubSeq(s, m + 1, m + n)) = n
        /\ \A k \in 1 .. n : SubSeq(s, m + 1, m + n)[k] = s[m + k]
    <2>1. SubSeq(s, m + 1, m + n) \in Seq(S)
      OBVIOUS
    <2>2. Len(SubSeq(s, m + 1, m + n)) = n
      OBVIOUS
    <2>3. ASSUME NEW k \in 1 .. n PROVE SubSeq(s, m + 1, m + n)[k] = s[m + k]
      OBVIOUS
    <2> QED
      BY <2>1, <2>2, <2>3
  <1>2. DOMAIN SubSeq(s, m + 1, m + n) = 1 .. n
    BY <1>1
  <1> QED
    BY <1>1, <1>2

LEMMA SeqIs ==
  ASSUME NEW S, NEW s \in Seq(S), NEW n, n = Len(s)
  PROVE  s = [k \in 1 .. n |-> s[k]]
  OBVIOUS

LEMMA JoinIs ==
  ASSUME NEW S, NEW s \in Seq(S), NEW r \in Seq(S)
  PROVE  s \o r = [k \in 1 .. Len(s) + Len(r) |->
                     IF k <= Len(s) THEN s[k] ELSE r[k - Len(s)]]
  <1>1. /\ s \o r \in Seq(S) /\ Len(s \o r) = Len(s) + Len(r)
        /\ \A k \in 1 .. Len(s) + Len(r) :
             (s \o r)[k] = IF k <= Len(s) THEN s[k] ELSE r[k - Len(s)]
    OBVIOUS
  <1>2. PICK x \in Seq(S) : x = s \o r
    BY <1>1
  <1>3. PICK n \in Nat : x = s \o r /\ n = Len(x) /\ n = Len(s) + Len(r)
    BY <1>1, <1>2
  <1>4. x = [k \in 1 .. n |-> x[k]]
    BY <1>3, SeqIs
  <1>5. \A k \in 1 .. n : x[k] = IF k <= Len(s) THEN s[k] ELSE r[k - Len(s)]
    BY <1>1, <1>3
  <1>6. x = [k \in 1 .. n |-> IF k <= Len(s) THEN s[k] ELSE r[k - Len(s)]]
    BY <1>4, <1>5
  <1> QED
    BY <1>3, <1>6

(* A running call is about a used inode, which the object holds.           *)
LEMMA CallsInode ==
  ASSUME Tracked, pc \in InUse
  PROVE  /\ call.inode_n \in InodeNs /\ inode = inodes[call.inode_n]
         /\ inode \in InodeBlock /\ inode.file_len \in Nat /\ call \in Call
         /\ pc \notin {"commit", "writeback"} => inode_buf = inode
  <1>1. call.inode_n \in InodeNs /\ loaded_inode_n = call.inode_n
    BY DEF Tracked, Inv, NumberLoaded, LocalsInRange, InUse, AfterLoad
  <1>2. inode \in InodeBlock /\ call \in Call
    BY DEF Tracked, Inv, TypeOK
  <1> QED
    BY <1>1, <1>2 DEF Tracked, DirectInv, ObjectTracks, InodeNs, Null, InodeBlock

LEMMA CallsFile ==
  ASSUME Tracked, ~Releasing,
         call.op \in {"length", "name", "read", "write", "rename", "remove"}
  PROVE  /\ call.inode_n \in UsedInodes /\ call.inode_n \in InodeNs
         /\ StoreRequest.n = call.inode_n
         /\ inodes[call.inode_n].file_len \in Nat
         /\ Store!Mine = [k \in 1 .. inodes[call.inode_n].file_len |->
                            At(call.inode_n, k - 1)]
         /\ Store!Mine \in Seq(Words) /\ Len(Store!Mine) = inodes[call.inode_n].file_len
  <1> PICK n : n = call.inode_n
    OBVIOUS
  <1>1. n \in UsedInodes /\ n \in InodeNs
    BY DEF Tracked, DirectInv, InodesTracked, Holders, UsedInodes
  <1>2. StoreRequest.n = n
    BY RunningRequest
  <1>3. inodes[n].file_len \in Nat
    BY <1>1, ShortInode DEF InodeBlock
  <1>4. Store!Mine = [k \in 1 .. inodes[n].file_len |-> At(n, k - 1)]
    <2>1. StoreFiles[n].words = FileOf(n).words
      BY <1>1, TheWordsHold DEF TheWords
    <2> QED
      BY <1>1, <1>2, <2>1 DEF Store!Mine, FileOf
  <1>5. \A k \in 1 .. inodes[n].file_len : At(n, k - 1) \in Words
    <2> TAKE k \in 1 .. inodes[n].file_len
    <2>1. PICK j \in Nat : j = k - 1 /\ j < inodes[n].file_len
      BY <1>3
    <2> QED
      BY <1>1, <2>1, WordInside
  <1> QED
    BY <1>1, <1>2, <1>3, <1>4, <1>5

LEMMA LookupReturnKept ==
  ASSUME Promised, Tracked', LookupReturn
  PROVE  Kept
  <1>1. /\ pc = "return" /\ pc' = "idle" /\ call' = NoCall /\ UNCHANGED image
        /\ call.op \in {"length", "name"} /\ ~Releasing
        /\ result' = Ok(IF call.op = "length" THEN inode_buf.file_len ELSE call.inode_n)
    BY DEF LookupReturn, Return, Promised, Tracked, DirectInv, StepsOfCalls, Releasing
  <1>2. inode_buf = inodes[call.inode_n]
    BY <1>1, CallsInode DEF Promised, InUse, AfterLoad
  <1>3. StoreRequest.op = call.op /\ StoreRequest.n = call.inode_n
        /\ Len(Store!Mine) = inodes[call.inode_n].file_len
    BY <1>1, CallsFile, RunningRequest DEF Promised
  <1>4. StoreFiles' = StoreFiles /\ StoreRequest' = Store!NoRequest("idle")
    BY <1>1, ImageStays, NoRequestAtRest DEF Promised
  <1>5. Store!LengthReply \/ Store!RenameReply
    BY <1>1, <1>2, <1>3, <1>4
    DEF Store!LengthReply, Store!RenameReply, Store!Ends, Store!Replies, Ok
  <1>6. WordsTracked'
    BY <1>1, WordsAtRest DEF NoCall
  <1> QED
    BY <1>5, <1>6 DEF Kept, Store!StoreNext

(* The pointers that a read looks up are all pointers of its file: the     *)
(* first one by the discipline, when there is nothing to read.             *)
LEMMA ReadLooksInside ==
  ASSUME Promised, pc = "read", call.offset <= inode.file_len,
         NEW len, len = Smaller(call.length, inode.file_len - call.offset),
         NEW i \in call.offset \div BlockSize ..
                     (call.offset + (IF len = 0 THEN 0 ELSE len - 1)) \div BlockSize
  PROVE  /\ Ptr(i) = {inodes[call.inode_n].direct_ptr[i]}
         /\ inodes[call.inode_n].direct_ptr[i] \in DataNs
  <1>1. /\ inode = inodes[call.inode_n] /\ inode.file_len \in Nat /\ call \in Call
        /\ call.inode_n \in InodeNs
    BY CallsInode DEF Promised, InUse, AfterLoad
  <1>2. PICK a \in Nat, o \in Nat, l \in Nat :
          a = inode.file_len /\ o = call.offset /\ l = call.length
    BY <1>1 DEF Call
  <1>3. len \in Nat /\ o + len <= a
    BY <1>2 DEF Smaller
  <1>4. PICK last \in Nat :
          last = call.offset + (IF len = 0 THEN 0 ELSE len - 1) /\ last >= o
    BY <1>2, <1>3
  <1>5. last \div BlockSize < BytesToBlocks(a)
    <2>1. CASE last < a
      BY <2>1, WordInBlocks
    <2>2. CASE ~(last < a)
      <3>1. o = a /\ last = a
        BY <1>2, <1>3, <1>4, <2>2
      <3>2. a % BlockSize # 0
        BY <1>2, <3>1 DEF Promised, WordsTracked, LookupsInside
      <3>3. a \div BlockSize \in Nat
        BY SplitWord
      <3>4. a # 0
        <4>1. 0 % BlockSize = 0
          BY LayoutAssumption
        <4> QED
          BY <3>2, <4>1
      <3>5. BytesToBlocks(a) = a \div BlockSize + 1
        BY <3>2, <3>4 DEF BytesToBlocks
      <3> QED
        BY <3>1, <3>3, <3>5
    <2> QED
      BY <2>1, <2>2
  <1>6. i \in Nat /\ i < NBlocks(inodes[call.inode_n])
    <2>1. o \div BlockSize \in Nat /\ last \div BlockSize \in Nat
      BY SplitWord
    <2>2. BytesToBlocks(a) = NBlocks(inodes[call.inode_n]) /\ BytesToBlocks(a) \in Nat
      BY <1>1, <1>2, BlocksCover DEF NBlocks
    <2> QED
      BY <1>2, <1>4, <1>5, <2>1, <2>2
  <1>7. i \in PtrSlots(call.inode_n) /\ NBlocks(inodes[call.inode_n]) \in 0 .. NDirect
    BY <1>1, <1>6, ShortInode DEF PtrSlots, Promised
  <1>8. call.inode_n \in Holders
    BY CallsFile DEF Promised, Tracked, DirectInv, StepsOfCalls, Releasing, Holders
  <1>9. i < NDirect
    BY <1>6, <1>7, LayoutAssumption
  <1>10. inodes[call.inode_n].direct_ptr[i] \in DataNs
    BY <1>7, <1>8 DEF Promised, Tracked, DirectInv, PtrsApart
  <1> QED
    BY <1>1, <1>9, <1>10 DEF Ptr

LEMMA ReadBlocksKept ==
  ASSUME Promised, Tracked', ReadBlocks
  PROVE  Kept
  <1> DEFINE len  == Smaller(call.length, inode.file_len - call.offset)
             used == call.offset \div BlockSize ..
                       (call.offset + (IF len = 0 THEN 0 ELSE len - 1)) \div BlockSize
             n    == call.inode_n
             data(p) == [k \in 1 .. len |->
                           LET at == call.offset + k - 1
                           IN  blocks[p[at \div BlockSize]][at % BlockSize]]
  <1>1. pc = "read" /\ UNCHANGED image /\ call.op = "read" /\ ~Releasing
    BY DEF ReadBlocks, Promised, Tracked, DirectInv, StepsOfCalls, Releasing
  <1>2. /\ inode = inodes[n] /\ inode_buf = inode /\ inode.file_len \in Nat /\ call \in Call
    BY <1>1, CallsInode DEF Promised, InUse, AfterLoad
  <1>3. call.offset \in Nat /\ call.length \in Nat
    BY <1>2 DEF Call
  <1>4. /\ StoreRequest.op = "read" /\ StoreRequest.offset = call.offset
        /\ StoreRequest.length = call.length
        /\ Store!Mine = [k \in 1 .. inodes[n].file_len |-> At(n, k - 1)]
        /\ Store!Mine \in Seq(Words) /\ Len(Store!Mine) = inode.file_len
    BY <1>1, <1>2, CallsFile, RunningRequest DEF Promised
  <1>5. StoreFiles' = StoreFiles
    BY <1>1, ImageStays DEF Promised
  <1>6. ASSUME NEW r, Return(r)
        PROVE  WordsTracked' /\ StoreRequest' = Store!NoRequest("idle") /\ result' = r
    BY <1>6, WordsAtRest, NoRequestAtRest DEF Return, NoCall
  <1>7. CASE call.offset > inode_buf.file_len /\ Return(Refused)
    <2>1. Store!RefuseOffset
      BY <1>2, <1>4, <1>5, <1>6, <1>7
      DEF Store!RefuseOffset, Store!Ends, Store!Replies, Refused, Null
    <2> QED
      BY <1>6, <1>7, <2>1 DEF Kept, Store!StoreNext
  <1>8. ASSUME call.offset <= inode_buf.file_len, NEW p \in [used -> DataNs],
               \A i \in used : p[i] \in Ptr(i),
               Return([how |-> "ok", n |-> len, data |-> data(p)])
        PROVE  Kept
    <2>1. PICK o \in Nat, l \in Nat, a \in Nat :
            o = call.offset /\ l = call.length /\ a = inode.file_len
      BY <1>2, <1>3
    <2>2. PICK L \in Nat : /\ L = len /\ o + L <= a
                           /\ L = IF o + l <= a THEN l ELSE a - o
      <3>1. o <= a
        BY <1>2, <1>8, <2>1
      <3>2. len = Smaller(l, a - o)
        BY <2>1
      <3>3. Smaller(l, a - o) = IF o + l <= a THEN l ELSE a - o
        BY DEF Smaller
      <3> HIDE DEF len
      <3> QED
        BY <3>1, <3>2, <3>3
    <2>3. PICK last \in Nat : /\ last = call.offset + (IF len = 0 THEN 0 ELSE len - 1)
                              /\ last = o + (IF L = 0 THEN 0 ELSE L - 1)
      BY <2>1, <2>2
    <2>4. ASSUME NEW k \in 1 .. L
          PROVE  data(p)[k] = Store!Mine[o + k]
      <3>1. PICK at \in Nat : /\ at = o + k - 1 /\ at >= o /\ at <= last
                              /\ at + 1 = o + k /\ at < a
        BY <2>2, <2>3
      <3>2. at \div BlockSize \in used
        <4>1. o \div BlockSize <= at \div BlockSize
          BY <3>1, LayoutAssumption, DivMonotone
        <4>2. at \div BlockSize <= last \div BlockSize
          BY <3>1, LayoutAssumption, DivMonotone
        <4>3. at \div BlockSize \in Nat /\ last \div BlockSize \in Nat
              /\ o \div BlockSize \in Nat
          BY SplitWord
        <4> QED
          BY <2>1, <2>3, <4>1, <4>2, <4>3
      <3>3. p[at \div BlockSize] = inodes[n].direct_ptr[at \div BlockSize]
        BY <1>1, <1>2, <1>8, <3>2, ReadLooksInside
      <3>4. data(p)[k] = At(n, at)
        BY <2>1, <2>2, <3>1, <3>3 DEF At
      <3>5. Store!Mine[at + 1] = At(n, at)
        <4>1. at + 1 \in 1 .. a /\ (at + 1) - 1 = at
          BY <3>1
        <4> QED
          BY <1>2, <1>4, <2>1, <4>1
      <3> QED
        BY <3>1, <3>4, <3>5
    <2>5. SubSeq(Store!Mine, o + 1, o + L) = [k \in 1 .. L |-> Store!Mine[o + k]]
      <3>1. Store!Mine \in Seq(Words) /\ o + L <= Len(Store!Mine)
        BY <1>4, <2>1, <2>2
      <3> HIDE DEF len, used, data, n
      <3> QED
        BY <3>1, PartIs
    <2>6. data(p) = [k \in 1 .. L |-> data(p)[k]]
      BY <2>2
    <2>7. data(p) = SubSeq(Store!Mine, o + 1, o + L)
      BY <2>4, <2>5, <2>6
    <2> HIDE DEF len, data
    <2>8. result' = [how |-> "ok", n |-> L, data |-> SubSeq(Store!Mine, o + 1, o + L)]
      BY <1>6, <1>8, <2>2, <2>7
    <2>9. Store!ReadReply
      BY <1>2, <1>4, <1>5, <1>6, <1>8, <2>1, <2>2, <2>8
      DEF Store!ReadReply, Store!Ends, Store!Replies
    <2> QED
      BY <1>6, <1>8, <2>9 DEF Kept, Store!StoreNext
  <1>9. ASSUME call.offset <= inode_buf.file_len, NEW i \in used
        PROVE  Ptr(i) \subseteq DataNs
    BY <1>1, <1>2, <1>9, ReadLooksInside
  <1> QED
    BY <1>2, <1>7, <1>8, <1>9, AllStored DEF ReadBlocks

-----------------------------------------------------------------------------
(* The steps of the other calls that the caller cannot see.                *)
LEMMA UnseenKept ==
  ASSUME Promised, Tracked', call.op \notin {"none", "write"}, pc' # "read",
         result' \in {result, Pending}, call'.op = call.op, call'.offset = call.offset,
         call'.length = call.length, call'.data = call.data,
         \/ call'.inode_n = call.inode_n
         \/ call.op = "mount",
         UNCHANGED image
  PROVE  Kept
  <1>1. RepliesPending /\ result = Pending
    BY DEF Promised, WordsTracked, RepliesPending
  <1>2. UNCHANGED <<StoreRequest, result, StoreFiles>>
    BY <1>1, Unseen DEF Promised
  <1>3. call'.op = "format" => \A n \in UsedInodes' : n >= call'.inode_n
    BY DEF Promised, WordsTracked, FormattedSoFar, UsedInodes, image
  <1>4. WordsTracked'
    BY <1>1, <1>3, WordsOfOthers
  <1> QED
    BY <1>2, <1>4 DEF Kept

LEMMA UnlinkKept ==
  ASSUME Promised, Tracked', Unlink
  PROVE  Kept
  <1>1. /\ pc' = "commit" /\ UNCHANGED <<image, call, result>> /\ call.op = "remove"
    BY DEF Unlink, Promised, Tracked, DirectInv, StepsOfCalls
  <1> QED
    BY <1>1, UnseenKept

LEMMA MarkLoadKept ==
  ASSUME Promised, Tracked', MarkLoad
  PROVE  Kept
  <1>1. /\ pc = "mark_load" /\ call.op = "remove" /\ call.inode_n \in InodeNs
        /\ LoadInode(call, call.inode_n, "mark")
    BY DEF MarkLoad, Promised, Tracked, Inv, LocalsInRange, DirectInv, StepsOfCalls
  <1>2. pc' = "mark" /\ call' = call /\ result' = Pending /\ UNCHANGED <<inodes, blocks>>
    BY <1>1, ShortLoad DEF Promised
  <1> QED
    BY <1>1, <1>2, UnseenKept DEF image

LEMMA MarkKept ==
  ASSUME Promised, Tracked', Mark
  PROVE  Kept
  <1> PICK n : n = call.inode_n
    OBVIOUS
  <1>1. pc = "mark" /\ UNCHANGED image /\ call.op \in {"remove", "mount"} /\ call \in Call
        /\ n \in Holders /\ n \in InodeNs /\ inode = inodes[n] /\ inode_buf = inode
    BY CallsInode
    DEF Mark, Promised, Tracked, DirectInv, StepsOfCalls, InodesTracked, InUse, AfterLoad
  <1>2. call.i < BytesToBlocks(inode_buf.file_len) => Ptr(call.i) \subseteq DataNs
    <2>1. PICK i \in Nat : i = call.i
      BY <1>1 DEF Call
    <2>2. PICK s \in Nat : s = NBlocks(inodes[n]) /\ s <= NDirect
      BY <1>1, ShortInode DEF Promised
    <2>3. CASE i < s
      <3>1. i \in PtrSlots(n) /\ i < NDirect
        BY <2>2, <2>3, LayoutAssumption DEF PtrSlots
      <3> QED
        BY <1>1, <2>1, <3>1 DEF Ptr, Promised, Tracked, DirectInv, PtrsApart
    <2> QED
      BY <1>1, <2>1, <2>2, <2>3 DEF NBlocks
  <1>3. UNCHANGED result /\ pc' \in {"mark", "mark_indirect"}
        /\ \E i : call' = [call EXCEPT !.i = i]
    BY <1>1, <1>2 DEF Mark
  <1>4. /\ call'.op = call.op /\ call'.offset = call.offset /\ call'.length = call.length
        /\ call'.data = call.data /\ call'.inode_n = call.inode_n
    BY <1>1, <1>3 DEF Call
  <1> QED
    BY <1>1, <1>3, <1>4, UnseenKept

LEMMA MarkIndirectKept ==
  ASSUME Promised, Tracked', MarkIndirect
  PROVE  Kept
  <1>1. /\ pc = "mark_indirect" /\ UNCHANGED image /\ call.op \in {"remove", "mount"}
        /\ call \in Call /\ indirect_block_n = <<>> /\ call.i = 0
    BY DEF MarkIndirect, Promised, Tracked, Inv, TypeOK, DirectInv, StepsOfCalls,
           ObjectTracks
  <1>2. ChainBlock = Null /\ Null \notin DataNs
    BY <1>1 DEF ChainBlock, Null, DataNs
  <1>3. CASE call.op = "remove" /\ Return(Ok(call.inode_n))
    <2>1. pc' = "idle" /\ call' = NoCall /\ result' = Ok(call.inode_n)
      BY <1>3 DEF Return
    <2>2. call.inode_n \notin UsedInodes
      BY <1>1, <1>3 DEF Promised, Tracked, DirectInv, InodesTracked, Releasing
    <2>3. StoreRequest.op = "remove" /\ StoreRequest.n = call.inode_n
      BY <1>3, RunningRequest
    <2>4. call.inode_n \in InodeNs
      BY <1>1, CallsInode DEF Promised, InUse
    <2>5. StoreFiles' = StoreFiles /\ StoreRequest' = Store!NoRequest("idle")
      BY <1>1, <2>1, ImageStays, NoRequestAtRest DEF Promised
    <2>6. Store!RemoveReply
      BY <2>1, <2>2, <2>3, <2>4, <2>5
      DEF Store!RemoveReply, Store!Ends, Store!Replies, Ok, StoreFiles
    <2>7. WordsTracked'
      BY <2>1, WordsAtRest DEF NoCall
    <2> QED
      BY <2>6, <2>7 DEF Kept, Store!StoreNext
  <1>4. CASE /\ call.op = "mount" /\ pc' = "scan" /\ UNCHANGED result
             /\ call' = [call EXCEPT !.inode_n = @ + 1, !.i = 0]
    <2>1. /\ call'.op = call.op /\ call'.offset = call.offset
          /\ call'.length = call.length /\ call'.data = call.data
      BY <1>1, <1>4 DEF Call
    <2> QED
      BY <1>1, <1>4, <2>1, UnseenKept
  <1> QED
    BY <1>2, <1>3, <1>4 DEF MarkIndirect

LEMMA ScanKept ==
  ASSUME Promised, Tracked', Scan
  PROVE  Kept
  <1>1. pc = "scan" /\ call.op = "mount" /\ call \in Call
    BY DEF Scan, Promised, Tracked, Inv, TypeOK, DirectInv, StepsOfCalls
  <1>2. CASE call.inode_n < NInodes /\ LoadInode(call, call.inode_n, "scan_check")
    <2>1. call.inode_n \in InodeNs
      BY <1>1, <1>2, LayoutAssumption DEF InodeNs, Call
    <2>2. /\ pc' = "scan_check" /\ call' = call /\ result' = Pending
          /\ UNCHANGED <<inodes, blocks>>
      BY <1>1, <1>2, <2>1, ShortLoad DEF Promised
    <2> QED
      BY <1>1, <2>2, UnseenKept DEF image
  <1>3. CASE Return(Ok(0)) /\ UNCHANGED image
    <2>1. pc' = "idle" /\ call' = NoCall /\ result' = Ok(0)
      BY <1>3 DEF Return
    <2>2. StoreRequest.op = "mount"
      BY <1>1, RunningRequest
    <2>3. StoreFiles' = StoreFiles /\ StoreRequest' = Store!NoRequest("idle")
      BY <1>3, <2>1, ImageStays, NoRequestAtRest DEF Promised
    <2>4. Store!MountReply
      BY <2>1, <2>2, <2>3 DEF Store!MountReply, Store!Ends, Store!Replies, Ok
    <2>5. WordsTracked'
      BY <2>1, WordsAtRest DEF NoCall
    <2> QED
      BY <2>4, <2>5 DEF Kept, Store!StoreNext
  <1> QED
    BY <1>2, <1>3 DEF Scan

LEMMA ScanCheckKept ==
  ASSUME Promised, Tracked', ScanCheck
  PROVE  Kept
  <1>1. /\ call.op = "mount" /\ call \in Call /\ UNCHANGED <<image, result>>
        /\ pc' \in {"scan", "mark"} /\ \E n : call' = [call EXCEPT !.inode_n = n]
    <2>1. call' = call => call' = [call EXCEPT !.inode_n = call.inode_n]
      BY DEF Promised, Tracked, Inv, TypeOK, Call
    <2> QED
      BY <2>1 DEF ScanCheck, Promised, Tracked, Inv, TypeOK, DirectInv, StepsOfCalls
  <1>2. /\ call'.op = call.op /\ call'.offset = call.offset
        /\ call'.length = call.length /\ call'.data = call.data
    BY <1>1 DEF Call
  <1> QED
    BY <1>1, <1>2, UnseenKept

(* After the last inode no file is left.                                   *)
LEMMA FormatKept ==
  ASSUME Promised, Tracked', Format
  PROVE  Kept
  <1>1. pc = "format" /\ call.op = "format" /\ call \in Call
    BY DEF Format, Promised, Tracked, Inv, TypeOK, DirectInv, StepsOfCalls
  <1>2. CASE call.inode_n < NInodes /\ LoadInode(call, call.inode_n, "format_reset")
    <2>1. call.inode_n \in InodeNs
      BY <1>1, <1>2, LayoutAssumption DEF InodeNs, Call
    <2>2. /\ pc' = "format_reset" /\ call' = call /\ result' = Pending
          /\ UNCHANGED <<inodes, blocks>>
      BY <1>1, <1>2, <2>1, ShortLoad DEF Promised
    <2> QED
      BY <1>1, <2>2, UnseenKept DEF image
  <1>3. CASE /\ call.inode_n = NInodes /\ pc' = "off" /\ call' = NoCall
             /\ result' = Ok(0) /\ UNCHANGED image
    <2>1. \A n \in UsedInodes : n >= NInodes /\ n \in InodeNs
      BY <1>1, <1>3 DEF Promised, WordsTracked, FormattedSoFar, UsedInodes
    <2>2. \A n \in InodeNs : ~StoreFiles[n].present
      <3>1. \A n \in InodeNs : ~(n >= NInodes)
        BY LayoutAssumption DEF InodeNs
      <3> QED
        BY <2>1, <3>1 DEF StoreFiles
    <2>3. StoreRequest.op = "format"
      BY <1>1, RunningRequest
    <2>4. StoreFiles' = StoreFiles /\ StoreRequest' = Store!NoRequest("off")
      BY <1>3, ImageStays, NoRequestAtRest DEF Promised
    <2>5. Store!FormatReply
      BY <1>3, <2>2, <2>3, <2>4 DEF Store!FormatReply, Store!Ends, Store!Replies, Ok
    <2>6. WordsTracked'
      BY <1>3, WordsAtRest DEF NoCall
    <2> QED
      BY <2>5, <2>6 DEF Kept, Store!StoreNext
  <1> QED
    BY <1>2, <1>3 DEF Format

LEMMA FormatResetKept ==
  ASSUME Promised, Tracked', FormatReset
  PROVE  Kept
  <1>1. pc' = "commit" /\ UNCHANGED <<image, call, result>> /\ call.op = "format"
    BY DEF FormatReset, Promised, Tracked, DirectInv, StepsOfCalls
  <1> QED
    BY <1>1, UnseenKept

-----------------------------------------------------------------------------
(* The end of a commit: what is pending is in the copy instead, so the     *)
(* words of a write are still where the file will have them.               *)
LEMMA CommitDirectKept ==
  ASSUME Promised, Tracked', CommitDirect
  PROVE  Kept
  <1>1. /\ pc = "commit" /\ pc' = "writeback" /\ call \in Call
        /\ call.op \in {"write", "rename", "remove", "format"}
        /\ UNCHANGED <<inodes, blocks, inode, result>>
        /\ call' = [call EXCEPT !.n_ptrs = Len(ptrs_to_allocate)]
    BY CommitDirectFacts DEF CommitDirect, Promised
  <1>2. /\ call'.op = call.op /\ call'.inode_n = call.inode_n
        /\ call'.data = call.data /\ call'.offset = call.offset
        /\ call'.length = call.length /\ call'.free_bytes = call.free_bytes
        /\ call'.n_edited = call.n_edited /\ call'.n_written = call.n_written
        /\ call'.n_ptrs = Len(ptrs_to_allocate)
    BY <1>1 DEF Call
  <1>3. CASE call.op # "write"
    BY <1>1, <1>2, <1>3, UnseenKept DEF image
  <1>4. CASE call.op = "write"
    <2>1. PICK s \in Nat, z \in Nat, l \in Nat, e \in Nat, w \in Nat, o \in Nat :
            /\ s = NBlocks(inode) /\ z = Len(ptrs_to_allocate) /\ s + z <= NDirect
            /\ z = NBlocks(inode_buf) - s
            /\ l = inode.file_len /\ e = call.n_edited /\ w = call.n_written
            /\ o = call.offset
      <3>1. inode.file_len \in Nat
        BY CommitDirectFacts DEF InodeBlock, Promised
      <3>2. call.n_edited \in Nat /\ call.n_written \in Nat /\ call.offset \in Nat
        BY <1>1 DEF Call
      <3>3. /\ NBlocks(inode) \in Nat /\ Len(ptrs_to_allocate) \in Nat
            /\ NBlocks(inode) + Len(ptrs_to_allocate) <= NDirect
            /\ Len(ptrs_to_allocate) = NBlocks(inode_buf) - NBlocks(inode)
        BY <1>4, CommitDirectFacts DEF Promised
      <3> QED
        BY <3>1, <3>2, <3>3
    <2>2. inode_buf.file_len = l + w
      BY <1>1, <1>4, <2>1 DEF Promised, Tracked, DirectInv, BufferTracks
    <2>3. BytesToBlocks(l + w) = s + z
      BY <2>1, <2>2, <1>4, CommitDirectFacts DEF NBlocks, Promised
    <2>4. ASSUME NEW k \in Nat, k < l + w
          PROVE  FileWord(k)' = FileWord(k)
      <3>1. PICK j \in Nat : j = k \div BlockSize /\ j < s + z
        <4>1. l + w \in Nat
          BY <2>1
        <4> QED
          BY <2>3, <2>4, <4>1, WordInBlocks, SplitWord
      <3>2. FileBlock(j)' = FileBlock(j)
        <4>1. NBlocks(inode)' = s
          BY <1>1, <2>1 DEF NBlocks
        <4>2. CASE j < s
          BY <1>1, <2>1, <4>1, <4>2 DEF FileBlock
        <4>3. CASE ~(j < s)
          <5>1. j \in 0 .. NDirect - 1 /\ j \in s .. s + z - 1
            BY <2>1, <3>1, <4>3, LayoutAssumption
          <5>2. inode_buf'.direct_ptr[j] = ptrs_to_allocate[j - s + 1]
            BY <2>1, <5>1, CommitDirectFacts DEF Promised
          <5> QED
            BY <1>1, <2>1, <4>1, <4>3, <5>2 DEF FileBlock
        <4> QED
          BY <4>2, <4>3
      <3> QED
        BY <1>1, <3>1, <3>2 DEF FileWord
    <2>5. /\ o <= l /\ e <= o /\ e = EditLen
          /\ call.free_bytes = s * BlockSize - l /\ call.free_bytes <= w
          /\ \A k \in 0 .. e - 1 : FileWord(l - o + k) = call.data[k + 1]
          /\ \A k \in 0 .. w - 1 : FileWord(l + k) = call.data[EditLen + k + 1]
      BY <1>1, <1>4, <2>1
      DEF Promised, WordsTracked, EditedWords, AppendedWords, EditFrom, Tracked, Inv,
          LocalsInRange
    <2>6. /\ \A k \in 0 .. e - 1 : FileWord(l - o + k)' = call.data[k + 1]
          /\ \A k \in 0 .. w - 1 : FileWord(l + k)' = call.data[EditLen + k + 1]
      <3>1. \A k \in 0 .. e - 1 : l - o + k \in Nat /\ l - o + k < l + w
        BY <2>1, <2>5
      <3>2. \A k \in 0 .. w - 1 : l + k \in Nat /\ l + k < l + w
        BY <2>1
      <3> QED
        BY <2>4, <2>5, <3>1, <3>2
    <2>7. /\ inode'.file_len = l /\ call'.n_edited = e /\ call'.n_written = w
          /\ call'.offset = o /\ NBlocks(inode)' = s /\ EditLen' = EditLen
          /\ EditFrom' = l - o /\ call'.n_ptrs = z
          /\ NBlocks(inode_buf)' = s + z
      BY <1>1, <1>2, <2>1, <2>2, <2>3, <1>4, CommitDirectFacts
      DEF NBlocks, EditLen, EditFrom, Promised
    <2>8. EditedWords' /\ AppendedWords'
      BY <1>1, <1>2, <2>1, <2>5, <2>6, <2>7 DEF EditedWords, EditAligned, AppendedWords
    <2>9. RepliesPending' /\ LookupsInside' /\ FormattedSoFar'
      BY <1>1, <1>2, <1>4
      DEF Promised, WordsTracked, RepliesPending, LookupsInside, FormattedSoFar
    <2>10. UNCHANGED <<StoreRequest, result, StoreFiles>>
      BY <1>1, <1>2, <1>4, Unseen DEF Promised, WordsTracked, image
    <2> QED
      BY <2>8, <2>9, <2>10 DEF Kept, WordsTracked
  <1> QED
    BY <1>3, <1>4

-----------------------------------------------------------------------------
(* The steps of a write.  A block of a file is written from slot r on:     *)
(* these words of this file change, and no other word of any file.         *)
Patches(n, q, r, ws) ==
  /\ UNCHANGED inodes
  /\ r + Len(ws) <= BlockSize
  /\ blocks' = [blocks EXCEPT ![inodes[n].direct_ptr[q]] = Patch(@, r, ws)]

LEMMA PatchFile ==
  ASSUME Tracked, NEW n \in UsedInodes, NEW q \in PtrSlots(n),
         NEW r \in Nat, NEW ws \in Seq(Words), Patches(n, q, r, ws),
         NEW m \in UsedInodes, NEW k \in Nat, k \div BlockSize \in PtrSlots(m)
  PROVE  At(m, k)' = IF m = n /\ k - (q * BlockSize + r) \in 0 .. Len(ws) - 1
                     THEN ws[k - (q * BlockSize + r) + 1] ELSE At(m, k)
  <1> DEFINE b == inodes[n].direct_ptr[q]
  <1>1. PICK j \in Nat, s \in 0 .. BlockSize - 1 :
          /\ j = k \div BlockSize /\ s = k % BlockSize /\ k = j * BlockSize + s
          /\ j \in PtrSlots(m)
    BY SplitWord
  <1> DEFINE c == inodes[m].direct_ptr[j]
  <1>2. m \in Holders /\ n \in Holders /\ n \in InodeNs
    BY DEF Holders, UsedInodes
  <1>3. b \in DataNs /\ c \in DataNs /\ (b = c => n = m /\ q = j)
    BY <1>1, <1>2 DEF Tracked, DirectInv, PtrsApart
  <1>4. blocks \in [DataNs -> Block] /\ BlockSize \in Nat \ {0, 1}
    BY LayoutAssumption DEF Tracked, Inv, TypeOK
  <1>5. q \in Nat
    BY <1>2, ShortInode DEF PtrSlots
  <1>6. q * BlockSize \in Nat /\ j * BlockSize \in Nat /\ Len(ws) \in Nat
    BY <1>1, <1>4, <1>5
  <1>7. At(m, k) = blocks[c][s] /\ At(m, k)' = blocks'[c][s]
    BY <1>1 DEF At, Patches
  <1>8. CASE m = n /\ j = q
    <2>1. k - (q * BlockSize + r) = s - r
      BY <1>1, <1>6, <1>8
    <2>2. blocks'[c] = Patch(blocks[c], r, ws)
      BY <1>3, <1>4, <1>8 DEF Patches
    <2>3. blocks'[c][s] = IF r <= s /\ s < r + Len(ws) THEN ws[s - r + 1]
                          ELSE blocks[c][s]
      BY <1>1, <2>2 DEF Patch, Slots
    <2>4. s - r \in 0 .. Len(ws) - 1 <=> r <= s /\ s < r + Len(ws)
      BY <1>1, <1>6, LayoutAssumption
    <2> HIDE DEF b, c
    <2> QED
      BY <1>7, <1>8, <2>1, <2>3, <2>4
  <1>9. CASE ~(m = n /\ j = q)
    <2>1. blocks'[c] = blocks[c]
      BY <1>3, <1>4, <1>9 DEF Patches
    <2>2. m = n => k - (q * BlockSize + r) \notin 0 .. Len(ws) - 1
      <3>1. SUFFICES ASSUME k - (q * BlockSize + r) \in 0 .. Len(ws) - 1 PROVE j = q
        BY <1>9
      <3>2. PICK u \in Nat, v \in Nat, z \in Nat, B \in Nat :
              u = q * BlockSize /\ v = j * BlockSize /\ z = Len(ws) /\ B = BlockSize
        BY <1>4, <1>6
      <3>3. r + z <= B /\ k - (u + r) \in 0 .. z - 1 /\ k = v + s /\ s \in 0 .. B - 1
        BY <1>1, <3>1, <3>2 DEF Patches
      <3>4. u < v + B /\ v < u + B
        BY <3>3
      <3>5. q <= j /\ j <= q
        BY <1>1, <1>5, <3>2, <3>4, WholeBlocks
      <3> QED
        BY <1>1, <1>5, <3>5
    <2> QED
      BY <1>7, <2>1, <2>2
  <1> QED
    BY <1>8, <1>9

(* A word of the old file, as the write sees it.                           *)
LEMMA OldWord ==
  ASSUME Tracked, pc \in InUse, NEW k \in Nat, k < inode.file_len
  PROVE  FileWord(k) = At(call.inode_n, k) /\ k \div BlockSize \in PtrSlots(call.inode_n)
  <1>1. inode = inodes[call.inode_n] /\ inode.file_len \in Nat /\ call.inode_n \in InodeNs
    BY CallsInode
  <1>2. k \div BlockSize < NBlocks(inode) /\ k \div BlockSize \in Nat
    BY <1>1, WordInBlocks, SplitWord DEF NBlocks
  <1>3. NBlocks(inodes[call.inode_n]) \in Nat
    BY <1>1, ShortInode
  <1> QED
    BY <1>1, <1>2, <1>3 DEF FileWord, FileBlock, At, PtrSlots

LEMMA OldWordNext ==
  ASSUME Tracked, pc \in InUse, UNCHANGED <<inodes, inode>>, NEW n, n = call.inode_n,
         NEW k \in Nat, k < inode.file_len
  PROVE  FileWord(k)' = At(n, k)'
  <1>1. inode = inodes[n] /\ inode.file_len \in Nat
    BY CallsInode
  <1>2. k \div BlockSize < NBlocks(inode)
    BY <1>1, WordInBlocks DEF NBlocks
  <1>3. NBlocks(inode)' = NBlocks(inode)
    BY DEF NBlocks
  <1> QED
    BY <1>1, <1>2, <1>3 DEF FileWord, FileBlock, At

(* An edit stands at its first e of all words, goes on with w words from   *)
(* slot r of block q of the file, and these are in the window.             *)
EditStands(l, o, e, all, n) ==
  /\ pc \in {"edit", "edit_rest"}
  /\ l = inode.file_len /\ o = call.offset /\ all = EditLen /\ n = call.inode_n
  /\ e = IF pc = "edit" THEN 0 ELSE call.n_edited

EditGoesOn(n, q, r, e, w) ==
  /\ pc' = "edit_rest" /\ UNCHANGED <<inodes, inode, result>>
  /\ blocks' = [blocks EXCEPT ![inodes[n].direct_ptr[q]] =
                  Patch(@, r, SubSeq(call.data, e + 1, e + w))]
  /\ call'.op = call.op /\ call'.inode_n = call.inode_n /\ call'.offset = call.offset
  /\ call'.length = call.length /\ call'.data = call.data
  /\ call'.free_bytes = call.free_bytes /\ call'.n_edited = e + w
  /\ EditAligned' /\ LookupsInside'

EditWindow(l, o, e, w, all, q, r) ==
  /\ o <= l /\ e + w <= all /\ all <= o /\ r + w <= BlockSize
  /\ w > 0 => q * BlockSize + r = l - o + e

(* It replaces some words of the window, or none at all.                   *)
LEMMA EditStores ==
  ASSUME Promised, Tracked',
         NEW l \in Nat, NEW o \in Nat, NEW e \in Nat, NEW w \in Nat, NEW all \in Nat,
         NEW n \in InodeNs, NEW q \in PtrSlots(n), NEW r \in Nat,
         EditStands(l, o, e, all, n), EditGoesOn(n, q, r, e, w),
         EditWindow(l, o, e, w, all, q, r)
  PROVE  Kept
  <1> DEFINE ws == SubSeq(call.data, e + 1, e + w)
  <1>1. /\ call.op = "write" /\ all <= Len(call.data) /\ Len(call.data) \in Nat
        /\ call \in Call /\ ~Releasing /\ pc \in InUse
    <2>1. pc \in {"edit", "edit_rest"} /\ all = EditLen
      BY DEF EditStands
    <2> QED
      BY <2>1, WriteNumbers DEF Promised, Releasing, InUse, AfterLoad
  <1>2. /\ n \in UsedInodes /\ n \in InodeNs /\ inode = inodes[n] /\ inode.file_len \in Nat
        /\ inodes[n].file_len = l
        /\ Store!Mine = [k \in 1 .. l |-> At(n, k - 1)] /\ Len(Store!Mine) = l
    BY <1>1, CallsFile, CallsInode DEF Promised, EditStands
  <1>3. /\ StoreRequest.op = "write" /\ StoreRequest.n = n /\ StoreRequest.offset = o
        /\ StoreRequest.data = call.data
        /\ StoreRequest' = StoreRequest
    BY <1>1, RunningRequest, RequestStays DEF EditStands, EditGoesOn
  <1>4. /\ ws \in Seq(Words) /\ Len(ws) = w
        /\ \A i \in 1 .. w : ws[i] = call.data[e + i]
    <2>1. call.data \in Seq(Words) /\ e + w <= Len(call.data)
      BY <1>1 DEF Call, EditWindow
    <2>2. ws = [i \in 1 .. w |-> call.data[e + i]]
      BY <2>1, PartIs
    <2>3. ws \in Seq(Words)
      BY <2>1
    <2>4. \A i \in 1 .. w : ws[i] = call.data[e + i]
      BY <2>2
    <2>5. Len(ws) = w
      <3>1. DOMAIN ws = 1 .. w
        BY <2>2
      <3> HIDE DEF ws
      <3> QED
        BY <2>3, <3>1
    <2> QED
      BY <2>3, <2>4, <2>5
  <1> HIDE DEF ws
  <1>5. ASSUME NEW m \in UsedInodes, NEW k \in Nat, k < inodes[m].file_len
        PROVE  At(m, k)' = IF m = n /\ k - (l - o) + 1 \in e + 1 .. e + w
                           THEN call.data[k - (l - o) + 1] ELSE At(m, k)
    <2>1. k \div BlockSize \in PtrSlots(m)
      BY <1>5, WordInside DEF Promised
    <2>2. At(m, k)' = IF m = n /\ k - (q * BlockSize + r) \in 0 .. w - 1
                      THEN ws[k - (q * BlockSize + r) + 1] ELSE At(m, k)
      <3>1. blocks' = [blocks EXCEPT ![inodes[n].direct_ptr[q]] = Patch(@, r, ws)]
        BY DEF ws, EditGoesOn
      <3>2. Patches(n, q, r, ws)
        BY <1>4, <3>1 DEF EditGoesOn, EditWindow, Patches
      <3>3. At(m, k)' = IF m = n /\ k - (q * BlockSize + r) \in 0 .. Len(ws) - 1
                        THEN ws[k - (q * BlockSize + r) + 1] ELSE At(m, k)
        BY <1>2, <1>4, <2>1, <3>2, PatchFile DEF Promised
      <3> QED
        BY <1>4, <3>3
    <2>3. CASE w = 0
      BY <2>2, <2>3
    <2>4. CASE w > 0
      <3>1. k - (q * BlockSize + r) = k - (l - o) - e
        BY <2>4 DEF EditWindow
      <3>2. PICK d \in Int : d = k - (l - o)
        OBVIOUS
      <3>3. d - e \in 0 .. w - 1 <=> d + 1 \in e + 1 .. e + w
        BY <3>2
      <3>4. d - e \in 0 .. w - 1 =>
              d - e + 1 \in 1 .. w /\ e + (d - e + 1) = d + 1
        BY <3>2
      <3>5. d - e \in 0 .. w - 1 => ws[d - e + 1] = call.data[d + 1]
        BY <1>4, <3>4
      <3> QED
        BY <2>2, <3>1, <3>2, <3>3, <3>5
    <2> QED
      BY <2>3, <2>4
  <1>6. EditedWords'
    <2>1. EditFrom' = l - o /\ call'.offset = o /\ inode'.file_len = l /\ o <= l
          /\ call'.n_edited = e + w /\ call'.data = call.data /\ EditAligned'
      BY DEF EditFrom, EditStands, EditGoesOn, EditWindow
    <2>2. ASSUME NEW k \in 0 .. e + w - 1
          PROVE  FileWord(l - o + k)' = call.data[k + 1]
      <3>1. PICK a \in Nat : a = l - o + k /\ a < l /\ a - (l - o) = k
        BY DEF EditWindow
      <3>2. FileWord(a)' = At(n, a)'
        BY <1>1, <3>1, OldWordNext DEF Promised, EditStands, EditGoesOn
      <3>3. CASE k < e
        <4>1. FileWord(a) = call.data[k + 1]
          <5>1. pc = "edit_rest" /\ k \in 0 .. call.n_edited - 1 /\ EditFrom = l - o
            BY <3>3 DEF EditFrom, EditStands
          <5> QED
            BY <1>1, <3>1, <5>1 DEF Promised, WordsTracked, EditedWords
        <4>2. FileWord(a) = At(n, a)
          BY <1>1, <3>1, OldWord DEF Promised, EditStands
        <4>3. At(n, a)' = At(n, a)
          <5>1. a - (l - o) + 1 \notin e + 1 .. e + w /\ a < inodes[n].file_len
            BY <1>2, <3>1, <3>3
          <5> QED
            BY <1>2, <1>5, <5>1
        <4> QED
          BY <3>1, <3>2, <4>1, <4>2, <4>3
      <3>4. CASE k >= e
        <4>1. k + 1 \in e + 1 .. e + w
          BY <3>4
        <4>2. At(n, a)' = call.data[k + 1]
          <5>1. a - (l - o) + 1 = k + 1 /\ a < inodes[n].file_len
            BY <1>2, <3>1
          <5> QED
            BY <1>2, <1>5, <4>1, <5>1
        <4> QED
          BY <3>1, <3>2, <4>2
      <3> QED
        BY <3>3, <3>4
    <2> QED
      BY <2>1, <2>2 DEF EditedWords
  <1>7. WordsTracked'
    <2>2. call.free_bytes = 0 /\ result = Pending
      BY <1>1 DEF Promised, WordsTracked, AppendedWords, RepliesPending, EditStands
    <2> QED
      BY <1>1, <1>6, <2>2
      DEF WordsTracked, RepliesPending, AppendedWords, FormattedSoFar, EditGoesOn
  <1>8. CASE w = 0
    <2>1. \A m \in UsedInodes : \A k \in Nat :
            k < inodes[m].file_len => At(m, k)' = At(m, k)
      BY <1>5, <1>8
    <2>2. StoreFiles' = StoreFiles
      BY <2>1, FilesStay DEF Promised, EditGoesOn
    <2> QED
      BY <1>3, <1>7, <2>2 DEF Kept, EditGoesOn
  <1>9. CASE w > 0
    <2>1. UsedInodes' = UsedInodes /\ inodes' = inodes
      BY DEF UsedInodes, EditGoesOn
    <2>2. StoreFiles' = [StoreFiles EXCEPT ![n] = FileOf(n)']
      <3>1. \A m \in UsedInodes : m # n =>
              \A k \in Nat : k < inodes[m].file_len => At(m, k)' = At(m, k)
        BY <1>5
      <3> QED
        BY <1>2, <2>1, <3>1, OneFileChanges DEF Promised
    <2>3. Store!Start = l - o /\ Store!NReplace = all
      BY <1>1, <1>2, <1>3 DEF Store!Start, Store!NReplace, EditStands, EditLen, Smaller
    <2>4. FileOf(n)' = Store!File([k \in 1 .. l |->
                         IF k - (l - o) \in e + 1 .. e + w THEN call.data[k - (l - o)]
                         ELSE Store!Mine[k]])
      <3>1. ASSUME NEW k \in 1 .. l
            PROVE  At(n, k - 1)' = IF k - (l - o) \in e + 1 .. e + w
                                   THEN call.data[k - (l - o)] ELSE Store!Mine[k]
        <4>1. PICK a \in Nat : a = k - 1 /\ a < l /\ a - (l - o) + 1 = k - (l - o)
          OBVIOUS
        <4>2. Store!Mine[k] = At(n, a)
          BY <1>2, <4>1
        <4>3. At(n, a)' = IF k - (l - o) \in e + 1 .. e + w
                          THEN call.data[k - (l - o)] ELSE At(n, a)
          BY <1>2, <1>5, <4>1
        <4> QED
          BY <4>1, <4>2, <4>3
      <3> QED
        BY <1>2, <2>1, <3>1 DEF FileOf, Store!File
    <2>5. e + 1 \in 1 .. all /\ e + w \in e + 1 .. all
      BY <1>9 DEF EditWindow
    <2>6. Store!ReplaceSome
      <3>1. Store!Start >= 0 /\ UNCHANGED <<StoreRequest, result>>
        BY <1>3, <2>3 DEF EditWindow, EditGoesOn
      <3>2. StoreFiles' = [StoreFiles EXCEPT ![StoreRequest.n] = Store!File(
              [k \in 1 .. Len(Store!Mine) |->
                 IF k - Store!Start \in e + 1 .. e + w
                 THEN StoreRequest.data[k - Store!Start] ELSE Store!Mine[k]])]
        BY <1>2, <1>3, <2>2, <2>3, <2>4
      <3> QED
        BY <1>3, <2>3, <2>5, <3>1, <3>2 DEF Store!ReplaceSome
    <2> QED
      BY <1>7, <2>6 DEF Kept, Store!StoreNext
  <1> QED
    BY <1>8, <1>9

(* The pointer of a block that the old file has.                           *)
LEMMA OldPtr ==
  ASSUME Tracked, pc \in {"edit", "edit_rest", "tail"}, NEW q \in Nat, q < NBlocks(inode)
  PROVE  /\ q \in PtrSlots(call.inode_n)
         /\ Ptr(q) = {inodes[call.inode_n].direct_ptr[q]}
         /\ Ptr(q) \subseteq DataNs
  <1>1. /\ inode = inodes[call.inode_n] /\ call.inode_n \in InodeNs
        /\ call.inode_n \in UsedInodes
    BY CallsInode, WriteNumbers DEF InUse, AfterLoad
  <1>2. NBlocks(inode) \in Nat /\ NBlocks(inode) <= NDirect
    BY <1>1, ShortInode
  <1>3. q \in PtrSlots(call.inode_n) /\ q < NDirect
    BY <1>1, <1>2, LayoutAssumption DEF PtrSlots
  <1>4. inodes[call.inode_n].direct_ptr[q] \in DataNs
    BY <1>1, <1>3 DEF Tracked, DirectInv, PtrsApart, Holders
  <1> QED
    BY <1>1, <1>3, <1>4 DEF Ptr

(* A step of write, outside its stores, that the caller cannot see.        *)
LEMMA ToTailKept ==
  ASSUME Promised, Tracked', pc \in {"edit", "edit_rest"}, pc' = "tail",
         UNCHANGED <<image, inode, call, result>>,
         call.offset <= inode.file_len, pc = "edit" => call.n_edited = 0
  PROVE  Kept
  <1>1. call.op = "write" /\ call.free_bytes = 0
    BY WriteNumbers DEF Promised, WordsTracked, AppendedWords
  <1>2. UNCHANGED <<StoreRequest, result, StoreFiles>>
    BY <1>1, Unseen DEF Promised, WordsTracked
  <1>3. NBlocks(inode)' = NBlocks(inode) /\ EditFrom' = EditFrom
    BY DEF NBlocks, EditFrom, image
  <1>4. ASSUME NEW k \in 0 .. call.n_edited - 1
        PROVE  FileWord(EditFrom + k)' = call.data[k + 1]
    <2>1. pc = "edit_rest"
      BY <1>4
    <2>2. FileWord(EditFrom + k) = call.data[k + 1]
      BY <1>1, <2>1 DEF Promised, WordsTracked, EditedWords
    <2>3. \A j : FileWord(j)' = FileWord(j) 
      <3>1. \A j : NBlocks(inode') = NBlocks(inode) /\ ptrs_to_allocate' = ptrs_to_allocate
        BY <1>3, WholeImage
        DEF Promised, Tracked, Inv, NothingPending, NoneButCut, NBlocks
      <3> QED
        BY <3>1 DEF FileWord, FileBlock, image, NBlocks
    <2> QED
      BY <1>3, <2>2, <2>3
  <1>5. EditedWords'
    BY <1>4 DEF EditedWords, EditAligned, EditFrom
  <1>6. WordsTracked'
    BY <1>1, <1>5
    DEF Promised, WordsTracked, RepliesPending, LookupsInside, AppendedWords,
        FormattedSoFar
  <1> QED
    BY <1>2, <1>6 DEF Kept

LEMMA EditFirstKept ==
  ASSUME Promised, Tracked', EditFirst
  PROVE  Kept
  <1>1. /\ pc = "edit" /\ inode_buf = inode /\ call \in Call /\ call.op = "write"
        /\ call.data # <<>> /\ call.n_edited = 0 /\ ~Releasing
        /\ UNCHANGED <<inodes, inode, indirect_ptrs_list>>
        /\ call.inode_n \in InodeNs
    <2>1. pc = "edit" /\ UNCHANGED <<inodes, object>>
      BY DEF EditFirst
    <2>2. call.data # <<>> /\ call.n_edited = 0
      BY <2>1 DEF Promised, Tracked, DirectInv, WriteTracks
    <2> QED
      BY <2>1, <2>2, WriteNumbers DEF object, lists, Promised, Releasing, UsedInodes
  <1>2. PICK l \in Nat, o \in Nat, all \in Nat, B \in Nat, z \in Nat :
          /\ l = inode.file_len /\ o = call.offset /\ all = EditLen
          /\ B = BlockSize /\ z = NBlocks(inode) /\ z = BytesToBlocks(l)
          /\ EditLen <= call.offset /\ BlockSize \in Nat \ {0, 1}
          /\ call.offset > 0 => EditLen > 0
    <2>1. /\ inode.file_len \in Nat /\ call.offset \in Nat /\ EditLen \in Nat
          /\ EditLen <= call.offset /\ BlockSize \in Nat \ {0, 1}
      BY <1>1, WriteNumbers, LayoutAssumption DEF Promised
    <2>2. NBlocks(inode) = BytesToBlocks(inode.file_len) /\ NBlocks(inode) \in Nat
      BY <2>1, BlocksCover DEF NBlocks
    <2>3. Len(call.data) # 0 /\ Len(call.data) \in Nat
      BY <1>1 DEF Call
    <2>4. call.offset > 0 => EditLen > 0
      BY <2>1, <2>3 DEF EditLen, Smaller
    <2> QED
      BY <2>1, <2>2, <2>4
  <1>3. CASE o = 0 /\ pc' = "tail" /\ UNCHANGED <<blocks, call, result>>
    BY <1>1, <1>2, <1>3, ToTailKept DEF image
  <1>4. CASE o > 0 /\ l - o < 0 /\ Return(Refused) /\ UNCHANGED blocks
    <2>1. pc' = "idle" /\ call' = NoCall /\ result' = Refused
      BY <1>4 DEF Return
    <2>2. StoreFiles' = StoreFiles /\ StoreRequest' = Store!NoRequest("idle")
      BY <1>1, <1>4, <2>1, ImageStays, NoRequestAtRest DEF Promised, image
    <2>3. StoreRequest.op = "write" /\ StoreRequest.offset = o
      BY <1>1, <1>2, RunningRequest
    <2>4. Len(Store!Mine) = l
      BY <1>1, <1>2, CallsFile, CallsInode DEF Promised, InUse, AfterLoad
    <2>5. Store!RefuseOffset
      BY <1>4, <2>1, <2>2, <2>3, <2>4
      DEF Store!RefuseOffset, Store!Ends, Store!Replies, Refused, Null
    <2>6. WordsTracked'
      BY <2>1, WordsAtRest DEF NoCall
    <2> QED
      BY <2>5, <2>6 DEF Kept, Store!StoreNext
  <1>5. CASE o > 0 /\ l - o >= 0
    <2>1. PICK a \in Nat : a = l - o /\ a < l
      BY <1>5
    <2>2. PICK q \in Nat, r \in Nat, u \in Nat :
            /\ q = a \div BlockSize /\ r = a % BlockSize /\ r < B
            /\ u = q * BlockSize /\ a = u + r /\ (q + 1) * BlockSize = u + B
      <3>1. BlockSize \in Nat /\ BlockSize = B
        BY <1>2
      <3>2. PICK q \in Nat, r \in Nat :
              /\ q = a \div BlockSize /\ r = a % BlockSize /\ r \in 0 .. BlockSize - 1
              /\ a = q * BlockSize + r
        BY SplitWord
      <3>3. PICK u \in Nat : u = q * BlockSize /\ (q + 1) * BlockSize = u + BlockSize
        BY <3>1
      <3> QED
        BY <3>1, <3>2, <3>3
    <2>3. /\ q \in PtrSlots(call.inode_n) /\ Ptr(q) \subseteq DataNs
          /\ Ptr(q) = {inodes[call.inode_n].direct_ptr[q]} /\ q < z
      <3>1. q < z
        BY <1>2, <2>1, <2>2, WordInBlocks
      <3> QED
        BY <1>1, <1>2, <3>1, OldPtr DEF Promised
    <2>4. PICK w \in Nat : /\ w = Smaller(B - r, all) /\ w <= all
                           /\ r + w <= B /\ (w < all => r + w = B)
      BY <2>2 DEF Smaller
    <2>5. /\ blocks' = [blocks EXCEPT ![inodes[call.inode_n].direct_ptr[q]] =
                          Patch(@, r, SubSeq(call.data, 1, w))]
          /\ call' = [call EXCEPT !.n_edited = w, !.i = q + 1,
                                  !.left = IF EditLen > w THEN BytesToBlocks(EditLen)
                                           ELSE 0]
          /\ pc' = "edit_rest" /\ UNCHANGED result
      <3> DEFINE abs_offset == inode_buf.file_len - call.offset
                 first      == abs_offset % BlockSize
                 n_write    == Smaller(BlockSize - first, EditLen)
      <3>1. abs_offset = a /\ first = r /\ n_write = w /\ abs_offset \div BlockSize = q
        BY <1>1, <1>2, <2>1, <2>2, <2>4
      <3>2. call.offset > 0 /\ abs_offset >= 0
        BY <1>1, <1>2, <1>5
      <3>3. /\ \E b \in Ptr(abs_offset \div BlockSize) \cap DataNs :
                 blocks' = [blocks EXCEPT
                              ![b] = Patch(@, first, SubSeq(call.data, 1, n_write))]
            /\ call' = [call EXCEPT
                          !.n_edited = n_write,
                          !.i = abs_offset \div BlockSize + 1,
                          !.left = IF EditLen > n_write THEN BytesToBlocks(EditLen)
                                   ELSE 0]
            /\ pc' = "edit_rest" /\ UNCHANGED result
        <4>1. Ptr(abs_offset \div BlockSize) \subseteq DataNs
          BY <2>3, <3>1
        <4>2. ~(call.offset = 0) /\ ~(abs_offset < 0)
          BY <1>2, <1>5, <2>1, <3>1, <3>2
        <4> HIDE DEF first, n_write
        <4> QED
          BY <4>1, <4>2, AllStored DEF EditFirst, first, n_write
      <3> HIDE DEF abs_offset, first, n_write
      <3> QED
        BY <2>3, <3>1, <3>3
    <2>6. /\ call'.op = call.op /\ call'.inode_n = call.inode_n
          /\ call'.offset = call.offset /\ call'.length = call.length
          /\ call'.data = call.data /\ call'.free_bytes = call.free_bytes
          /\ call'.n_edited = w /\ call'.i = q + 1
          /\ call'.left = IF EditLen > w THEN BytesToBlocks(EditLen) ELSE 0
      BY <1>1, <2>5 DEF Call
    <2>7. EditAligned'
      <3>1. EditFrom' = a /\ EditLen' = all
        BY <1>1, <1>2, <2>1, <2>6 DEF EditFrom, EditLen
      <3>2. w < all => a + w = (q + 1) * BlockSize
        BY <2>2, <2>4
      <3> QED
        BY <2>6, <3>1, <3>2 DEF EditAligned
    <2>8. LookupsInside'
      <3>1. NBlocks(inode)' = z
        BY <1>1, <1>2 DEF NBlocks
      <3>2. PICK t \in Nat : t = BytesToBlocks(all)
        BY <1>2, BlocksCover
      <3>3. w < all => q + t < z
        <4> SUFFICES ASSUME w < all PROVE q + t < z
          OBVIOUS
        <4>1. EditFrom = a
          BY <1>2, <2>1 DEF EditFrom
        <4>2. \/ a < 0 \/ all = 0 \/ r + all <= B \/ q + t < z
          BY <1>1, <1>2, <2>2, <3>2, <4>1 DEF Promised, WordsTracked, LookupsInside
        <4> QED
          BY <1>2, <2>1, <2>4, <4>2
      <3>4. call'.left > 0 => call'.i + call'.left <= z
        BY <1>2, <2>6, <3>2, <3>3
      <3> QED
        BY <2>5, <3>1, <3>4 DEF LookupsInside
    <2>9. EditStands(l, o, 0, all, call.inode_n)
      BY <1>1, <1>2 DEF EditStands
    <2>10. EditWindow(l, o, 0, w, all, q, r)
      <3>1. o <= l /\ a = l - o /\ all <= o /\ B = BlockSize
        BY <1>2, <1>5, <2>1
      <3> QED
        BY <2>2, <2>4, <3>1 DEF EditWindow
    <2>11. EditGoesOn(call.inode_n, q, r, 0, w)
      <3>1. 0 + 1 = 1 /\ 0 + w = w
        OBVIOUS
      <3> QED
        BY <1>1, <2>5, <2>6, <2>7, <2>8, <3>1 DEF EditGoesOn
    <2>12. 0 \in Nat
      OBVIOUS
    <2> QED
      BY <1>1, <2>3, <2>9, <2>10, <2>11, <2>12, EditStores
  <1> QED
    BY <1>1, <1>2, <1>3, <1>4, <1>5 DEF EditFirst

(* When the window is done, it holds the first words of the data.          *)
LEMMA WindowReplaced ==
  ASSUME Promised, call.op = "write", call.n_edited = EditLen,
         pc \in {"edit_rest", "tail", "store", "commit", "writeback"}
  PROVE  /\ Store!Start >= 0 /\ Store!Replaced /\ Store!NReplace = EditLen
         /\ EditLen \in Nat /\ EditLen <= Len(call.data) /\ Len(call.data) \in Nat
         /\ Store!Mine \in Seq(Words) /\ Len(Store!Mine) = inode.file_len
         /\ StoreFiles[call.inode_n] = Store!File(Store!Mine)
         /\ StoreRequest.data = call.data /\ StoreRequest.n = call.inode_n
         /\ call.inode_n \in UsedInodes
  <1> PICK n : n = call.inode_n
    OBVIOUS
  <1>1. pc \in InUse /\ ~Releasing
    BY DEF InUse, AfterLoad, Releasing
  <1>2. /\ n \in UsedInodes /\ n \in InodeNs /\ StoreRequest.n = n
        /\ inode = inodes[n] /\ call \in Call /\ inode.file_len \in Nat
        /\ Store!Mine = [k \in 1 .. inodes[n].file_len |-> At(n, k - 1)]
        /\ Store!Mine \in Seq(Words) /\ Len(Store!Mine) = inode.file_len
    BY <1>1, CallsFile, CallsInode DEF Promised
  <1>3. PICK l \in Nat, o \in Nat, c \in Nat : l = inode.file_len /\ o = call.offset
                                               /\ c = Len(call.data)
    BY <1>2 DEF Call
  <1>4. PICK all \in Nat : /\ all = EditLen /\ all = call.n_edited /\ all <= c /\ all <= o
                           /\ all = IF c <= o THEN c ELSE o
    BY <1>3 DEF EditLen, Smaller
  <1>5. /\ o <= l /\ EditFrom = l - o
        /\ \A k \in 0 .. all - 1 : FileWord(l - o + k) = call.data[k + 1]
    BY <1>3, <1>4 DEF Promised, WordsTracked, EditedWords, EditFrom
  <1>6. StoreRequest.offset = o /\ StoreRequest.data = call.data
    BY <1>3, RunningRequest
  <1>7. Store!Start = l - o /\ Store!NReplace = all
    BY <1>2, <1>3, <1>4, <1>6 DEF Store!Start, Store!NReplace
  <1>8. ASSUME NEW k \in 1 .. all
        PROVE  Store!Mine[l - o + k] = call.data[k]
    <2>1. PICK a \in Nat : a = l - o + (k - 1) /\ a < l /\ a + 1 = l - o + k
      BY <1>4, <1>5
    <2>2. FileWord(a) = call.data[k]
      <3>1. k - 1 \in 0 .. all - 1 /\ (k - 1) + 1 = k
        OBVIOUS
      <3> QED
        BY <1>5, <2>1, <3>1
    <2>3. FileWord(a) = At(n, a)
      BY <1>1, <1>3, <2>1, OldWord DEF Promised
    <2>4. a + 1 \in 1 .. inodes[n].file_len /\ (a + 1) - 1 = a
      <3>1. a + 1 \in 1 .. l /\ (a + 1) - 1 = a
        BY <2>1
      <3>2. inodes[n].file_len = l
        BY <1>2, <1>3
      <3> QED
        BY <3>1, <3>2
    <2>5. Store!Mine[a + 1] = At(n, a)
      BY <1>2, <2>4
    <2> QED
      BY <2>1, <2>2, <2>3, <2>5
  <1>9. Store!Replaced
    <2>1. PICK s \in Nat : s = l - o /\ s + all <= l
      BY <1>4, <1>5
    <2>2. SubSeq(Store!Mine, s + 1, s + all) = [k \in 1 .. all |-> Store!Mine[s + k]]
      <3>1. Store!Mine \in Seq(Words) /\ s + all <= Len(Store!Mine)
        BY <1>2, <1>3, <2>1
      <3> QED
        BY <3>1, PartIs
    <2>3. call.data \in Seq(Words) /\ 0 \in Nat
      BY <1>2 DEF Call
    <2>4. SubSeq(call.data, 0 + 1, 0 + all) = [k \in 1 .. all |-> call.data[0 + k]]
      BY <1>3, <1>4, <2>3, PartIs
    <2>5. SubSeq(call.data, 1, all) = [k \in 1 .. all |-> call.data[k]]
      BY <2>4
    <2>6. SubSeq(Store!Mine, s + 1, s + all) = SubSeq(call.data, 1, all)
      BY <1>8, <2>1, <2>2, <2>5
    <2> QED
      BY <1>6, <1>7, <2>1, <2>6 DEF Store!Replaced
  <1>10. StoreFiles[n] = Store!File(Store!Mine)
    <2>1. StoreFiles[n] = FileOf(n)
      BY <1>2, TheWordsHold DEF TheWords, Promised
    <2> QED
      BY <1>2, <2>1 DEF FileOf, Store!File
  <1> QED
    BY <1>2, <1>3, <1>4, <1>5, <1>6, <1>7, <1>9, <1>10

LEMMA EditRestKept ==
  ASSUME Promised, Tracked', EditRest
  PROVE  Kept
  <1> DEFINE n_write == Smaller(BlockSize, EditLen - call.n_edited)
  <1>1. /\ pc = "edit_rest" /\ call \in Call /\ call.op = "write"
        /\ UNCHANGED <<inodes, inode>> /\ ~Releasing
        /\ call.inode_n \in InodeNs
    <2>1. pc = "edit_rest" /\ UNCHANGED <<inodes, object>>
      BY DEF EditRest
    <2> QED
      BY <2>1, WriteNumbers DEF object, Promised, Releasing, UsedInodes
  <1>2. PICK l \in Nat, o \in Nat, all \in Nat, e \in Nat, z \in Nat, i \in Nat, d \in Nat :
          /\ l = inode.file_len /\ o = call.offset /\ all = EditLen
          /\ e = call.n_edited /\ z = NBlocks(inode) /\ i = call.i /\ d = call.left
          /\ EditLen <= call.offset /\ call.n_edited <= EditLen
          /\ call.offset <= inode.file_len
    <2>1. /\ inode.file_len \in Nat /\ call.offset \in Nat /\ EditLen \in Nat
          /\ EditLen <= call.offset /\ call.n_edited <= EditLen
      BY <1>1, WriteNumbers DEF Promised
    <2>2. NBlocks(inode) \in Nat
      BY <2>1, BlocksCover DEF NBlocks
    <2>3. call.n_edited \in Nat /\ call.i \in Nat /\ call.left \in Nat
      BY <1>1 DEF Call
    <2>4. call.offset <= inode.file_len
      BY <1>1 DEF Promised, WordsTracked, EditedWords
    <2> QED
      BY <2>1, <2>2, <2>3, <2>4
  <1>3. all <= o /\ e <= all /\ o <= l
    BY <1>2
  <1>4. d > 0 => /\ i + d <= z
                 /\ i \in PtrSlots(call.inode_n) /\ Ptr(i) \subseteq DataNs
                 /\ Ptr(i) = {inodes[call.inode_n].direct_ptr[i]}
    <2> SUFFICES ASSUME d > 0 PROVE i + d <= z /\ i < z
      BY <1>1, <1>2, OldPtr DEF Promised
    <2>1. i + d <= z
      BY <1>1, <1>2 DEF Promised, WordsTracked, LookupsInside
    <2> QED
      BY <2>1
  <1>5. CASE /\ d > 0 /\ UNCHANGED <<pc, result>>
             /\ \E b \in Ptr(i) \cap DataNs :
                  blocks' = [blocks EXCEPT ![b] = Patch(@, 0,
                     SubSeq(call.data, call.n_edited + 1, call.n_edited + n_write))]
             /\ call' = [call EXCEPT !.n_edited = @ + n_write, !.i = @ + 1, !.left = @ - 1]
    <2>1. PICK B \in Nat, u \in Nat : /\ B = BlockSize /\ u = i * BlockSize
                                      /\ (i + 1) * BlockSize = u + B
      BY LayoutAssumption
    <2>2. PICK w \in Nat : /\ w = n_write /\ e + w <= all /\ w <= B
                           /\ (e + w < all => w = B) /\ (w > 0 => e < all)
      <3>1. n_write = IF B <= all - e THEN B ELSE all - e
        BY <1>2, <2>1 DEF Smaller
      <3> HIDE DEF n_write
      <3>2. n_write \in Nat /\ e + n_write <= all /\ n_write <= B
        BY <1>3, <3>1
      <3>3. (e + n_write < all => n_write = B) /\ (n_write > 0 => e < all)
        BY <1>3, <3>1
      <3> QED
        BY <3>2, <3>3
    <2> HIDE DEF n_write
    <2>3. e < all => l - o + e = u
      BY <1>1, <1>2, <2>1
      DEF Promised, WordsTracked, EditedWords, EditAligned, EditFrom
    <2>4. /\ call'.op = call.op /\ call'.inode_n = call.inode_n
          /\ call'.offset = call.offset /\ call'.length = call.length
          /\ call'.data = call.data /\ call'.free_bytes = call.free_bytes
          /\ call'.n_edited = e + w /\ call'.i = i + 1 /\ call'.left = d - 1
      BY <1>1, <1>2, <1>5, <2>2 DEF Call
    <2>5. EditAligned'
      <3>1. EditFrom' = l - o /\ EditLen' = all
        BY <1>1, <1>2, <2>4 DEF EditFrom, EditLen
      <3>2. e + w < all => l - o + (e + w) = u + B
        BY <2>2, <2>3
      <3> QED
        BY <2>1, <2>4, <3>1, <3>2 DEF EditAligned
    <2>6. LookupsInside'
      <3>1. NBlocks(inode)' = z
        BY <1>1, <1>2 DEF NBlocks
      <3>2. (i + 1) + (d - 1) <= z
        BY <1>4, <1>5
      <3> QED
        BY <1>1, <1>5, <2>4, <3>1, <3>2 DEF LookupsInside
    <2>7. EditStands(l, o, e, all, call.inode_n)
      BY <1>1, <1>2 DEF EditStands
    <2>8. EditWindow(l, o, e, w, all, i, 0)
      <3>1. i * BlockSize + 0 = u
        BY <2>1
      <3> QED
        BY <1>3, <2>1, <2>2, <2>3, <3>1 DEF EditWindow
    <2>9. blocks' = [blocks EXCEPT ![inodes[call.inode_n].direct_ptr[i]] =
                       Patch(@, 0, SubSeq(call.data, e + 1, e + w))]
      BY <1>2, <1>4, <1>5, <2>2
    <2>10. EditGoesOn(call.inode_n, i, 0, e, w)
      BY <1>1, <1>5, <2>4, <2>5, <2>6, <2>9 DEF EditGoesOn
    <2>11. 0 \in Nat
      OBVIOUS
    <2> QED
      BY <1>1, <1>4, <1>5, <2>7, <2>8, <2>10, <2>11, EditStores
  <1>6. CASE d = 0 /\ e = Len(call.data) /\ Return(Ok(call.n_edited)) /\ UNCHANGED blocks
    <2>1. pc' = "idle" /\ call' = NoCall /\ result' = Ok(call.n_edited)
      BY <1>6 DEF Return
    <2>2. StoreFiles' = StoreFiles /\ StoreRequest' = Store!NoRequest("idle")
      BY <1>1, <1>6, <2>1, ImageStays, NoRequestAtRest DEF Promised, image
    <2>3. e = all /\ all = Len(call.data)
      BY <1>1, <1>2, <1>3, <1>6, WriteNumbers DEF Promised
    <2>4. /\ Store!Start >= 0 /\ Store!Replaced /\ Store!NReplace = all
          /\ StoreFiles[call.inode_n] = Store!File(Store!Mine)
          /\ Store!Mine \in Seq(Words)
          /\ StoreRequest.data = call.data /\ StoreRequest.n = call.inode_n
          /\ StoreRequest.op = "write"
      BY <1>1, <1>2, <2>3, WindowReplaced, RunningRequest
    <2>5. Store!Mine \o SubSeq(StoreRequest.data, all + 1, all) = Store!Mine
      <3>1. call.data \in Seq(Words)
        BY <1>1 DEF Call
      <3>2. SubSeq(call.data, all + 1, all) = <<>>
        BY <3>1
      <3> QED
        BY <2>4, <3>2
    <2>6. StoreFiles' = [StoreFiles EXCEPT ![StoreRequest.n] =
                           Store!File(Store!Mine \o SubSeq(StoreRequest.data, all + 1, all))]
      BY <2>2, <2>4, <2>5 DEF StoreFiles
    <2>7. Store!WriteReply
      <3>1. all \in all .. Len(call.data)
        BY <2>3
      <3>2. Store!Ends("idle") /\ Store!Replies("ok", all, <<>>)
        BY <1>2, <2>1, <2>2, <2>3 DEF Store!Ends, Store!Replies, Ok
      <3> QED
        BY <2>4, <2>6, <3>1, <3>2 DEF Store!WriteReply
    <2>8. WordsTracked'
      BY <2>1, WordsAtRest DEF NoCall
    <2> QED
      BY <2>7, <2>8 DEF Kept, Store!StoreNext
  <1>7. CASE pc' = "tail" /\ UNCHANGED <<blocks, call, result>>
    BY <1>1, <1>2, <1>7, ToTailKept DEF image
  <1> QED
    BY <1>1, <1>2, <1>4, <1>5, <1>6, <1>7, AllStored DEF EditRest

(* A step on the tail, or on new blocks, leaves the words of every file,   *)
(* and those of the window.                                                *)
OldWordsStay == \A m \in UsedInodes : \A k \in Nat :
                  k < inodes[m].file_len => At(m, k)' = At(m, k)

LEMMA WindowStays ==
  ASSUME Promised, call.op = "write", UNCHANGED <<inodes, inode>>, OldWordsStay,
         pc \in {"edit_rest", "tail", "store"}, pc' \in {"tail", "store", "commit"},
         call'.op = call.op, call'.data = call.data, call'.offset = call.offset,
         call'.n_edited = call.n_edited
  PROVE  EditedWords'
  <1> PICK n : n = call.inode_n
    OBVIOUS
  <1>1. pc \in InUse /\ n \in UsedInodes
    BY WriteNumbers, CallsFile DEF InUse, AfterLoad, Promised, Releasing
  <1>2. PICK l \in Nat, o \in Nat, e \in Nat : /\ l = inode.file_len /\ o = call.offset
                                               /\ e = call.n_edited
    BY <1>1, CallsInode DEF Call, Promised
  <1>3. e <= o
    BY <1>2 DEF Promised, Tracked, Inv, LocalsInRange
  <1>4. /\ call.offset <= inode.file_len /\ EditFrom = l - o
        /\ \A k \in 0 .. e - 1 : FileWord(l - o + k) = call.data[k + 1]
    BY <1>2 DEF Promised, WordsTracked, EditedWords, EditFrom
  <1>5. o <= l
    BY <1>2, <1>4
  <1>6. inodes[n] = inode
    BY <1>1, CallsInode DEF Promised
  <1>7. ASSUME NEW k \in 0 .. e - 1
        PROVE  FileWord(l - o + k)' = call.data[k + 1]
    <2>1. PICK a \in Nat : a = l - o + k /\ a < l
      BY <1>3, <1>5
    <2>2. FileWord(a)' = At(n, a)' /\ FileWord(a) = At(n, a)
      BY <1>1, <1>2, <2>1, OldWord, OldWordNext DEF Promised
    <2>3. At(n, a)' = At(n, a)
      BY <1>1, <1>2, <1>6, <2>1 DEF OldWordsStay
    <2> QED
      BY <1>4, <2>1, <2>2, <2>3
  <1>8. EditFrom' = l - o
    BY <1>2 DEF EditFrom
  <1> QED
    BY <1>2, <1>4, <1>7, <1>8 DEF EditedWords, EditAligned

(* The free words of the last block are written: they are not yet of any   *)
(* file, but they are where the file of the request will have them.        *)
LEMMA WriteTailKept ==
  ASSUME Promised, Tracked', WriteTail
  PROVE  Kept
  <1> DEFINE rest == SubSeq(call.data, call.n_edited + 1, Len(call.data))
             free == BytesToBlocks(inode_buf.file_len) * BlockSize - inode_buf.file_len
             n_behind == IF free > Len(rest) THEN free - Len(rest) ELSE 0
  <1> PICK n : n = call.inode_n
    OBVIOUS
  <1>1. /\ pc = "tail" /\ call \in Call /\ call.op = "write" /\ call.n_edited = EditLen
        /\ inode_buf = inode /\ UNCHANGED <<inodes, inode>> /\ ~Releasing /\ call.n_written = 0
        /\ call.free_bytes = 0 /\ result = Pending /\ n \in UsedInodes /\ pc \in InUse
    <2>1. pc = "tail" /\ UNCHANGED <<inodes, object>>
      BY DEF WriteTail
    <2> QED
      BY <2>1, WriteNumbers
      DEF object, Promised, WordsTracked, AppendedWords, RepliesPending, Tracked,
          DirectInv, WriteTracks, Releasing, InUse
  <1>2. PICK l \in Nat, e \in Nat, c \in Nat, z \in Nat, B \in Nat, u \in Nat :
          /\ l = inode.file_len /\ e = EditLen /\ c = Len(call.data) /\ e <= c
          /\ z = NBlocks(inode) /\ B = BlockSize /\ B > 1
          /\ u = z * BlockSize /\ l <= u /\ u < l + B
    <2>1. /\ inode.file_len \in Nat /\ EditLen \in Nat /\ Len(call.data) \in Nat
          /\ EditLen <= Len(call.data)
      BY <1>1, WriteNumbers DEF Promised
    <2>2. PICK l \in Nat, e \in Nat, c \in Nat, B \in Nat :
            /\ l = inode.file_len /\ e = EditLen /\ c = Len(call.data)
            /\ B = BlockSize /\ EditLen <= Len(call.data)
      BY <2>1, LayoutAssumption
    <2>3. PICK z \in Nat : /\ z = BytesToBlocks(l) /\ l <= z * BlockSize
                           /\ z * BlockSize < l + BlockSize
      BY BlocksCover
    <2>4. z = NBlocks(inode)
      BY <2>2, <2>3 DEF NBlocks
    <2>5. PICK u \in Nat : u = z * BlockSize
      BY LayoutAssumption
    <2>6. e <= c /\ B > 1 /\ l <= u /\ u < l + B
      BY <2>2, <2>3, <2>5, LayoutAssumption
    <2> QED
      BY <2>2, <2>4, <2>5, <2>6
  <1>3. PICK f \in Nat : f = free /\ f = u - l /\ l + f = u /\ f < B
    <2>1. u = z * BlockSize /\ l <= u /\ u < l + B
      BY <1>2
    <2>2. PICK f \in Nat : f = u - l
      BY <2>1
    <2>3. free = z * BlockSize - l
      BY <1>1, <1>2 DEF NBlocks
    <2> HIDE DEF free
    <2>4. f = free
      BY <2>1, <2>2, <2>3
    <2>5. l + f = u /\ f < B
      BY <2>1, <2>2
    <2> QED
      BY <2>2, <2>4, <2>5
  <1>4. f <= c - e
    <2>1. \/ call.offset > inode.file_len \/ NAdded = 0
          \/ NAdded >= NBlocks(inode) * BlockSize - inode.file_len
      BY <1>1 DEF Promised, Tracked, DirectInv, WriteTracks
    <2>2. NAdded > 0
      BY <1>1 DEF Promised, Tracked, DirectInv, WriteTracks
    <2>3. ~(call.offset > inode.file_len)
      <3>1. call.offset <= inode.file_len
        BY <1>1 DEF Promised, WordsTracked, EditedWords
      <3>2. PICK o \in Nat : o = call.offset
        BY <1>1 DEF Call
      <3> QED
        BY <1>2, <3>1, <3>2
    <2>4. NAdded = c - e
      BY <1>2 DEF NAdded
    <2>5. c - e >= u - l
      BY <1>2, <2>1, <2>2, <2>3, <2>4
    <2> QED
      BY <1>3, <2>5
  <1>5. /\ rest \in Seq(Words) /\ Len(rest) = c - e
        /\ \A i \in 1 .. c - e : rest[i] = call.data[e + i]
    <2>1. PICK s \in Seq(Words) : s = call.data
      BY <1>1 DEF Call
    <2>2. rest = SubSeq(s, e + 1, c) /\ c = Len(s) /\ e <= c
      BY <1>1, <1>2, <2>1
    <2> HIDE DEF rest
    <2>3. /\ SubSeq(s, e + 1, c) \in Seq(Words) /\ Len(SubSeq(s, e + 1, c)) = c - e
          /\ \A i \in 1 .. c - e : SubSeq(s, e + 1, c)[i] = s[e + i]
      BY <2>2
    <2> QED
      BY <2>1, <2>2, <2>3
  <1> HIDE DEF rest
  <1>6. n_behind = 0
    BY <1>3, <1>4, <1>5
  <1> HIDE DEF free, n_behind
  <1>7. ASSUME OldWordsStay, pc' = "store", UNCHANGED result, NEW left,
               call' = [call EXCEPT !.n_written = f, !.free_bytes = f, !.left = left],
               \A k \in 0 .. f - 1 : At(n, l + k)' = call.data[e + k + 1]
        PROVE  Kept
    <2>1. /\ call'.op = call.op /\ call'.inode_n = call.inode_n
          /\ call'.offset = call.offset /\ call'.length = call.length
          /\ call'.data = call.data /\ call'.n_edited = call.n_edited
          /\ call'.n_written = f /\ call'.free_bytes = f
      BY <1>1, <1>7 DEF Call
    <2>2. EditedWords'
      BY <1>1, <1>7, <2>1, WindowStays
    <2>3. NBlocks(inode)' = z /\ inode'.file_len = l /\ EditLen' = e
      BY <1>1, <1>2, <2>1 DEF NBlocks, EditLen
    <2>4. ASSUME NEW k \in 0 .. f - 1
          PROVE  FileWord(l + k)' = call.data[e + k + 1]
      <3>1. PICK a \in Nat : a = l + k /\ a < u
        BY <1>3
      <3>2. PICK j \in Nat, s \in Nat, v \in Nat : /\ j = a \div BlockSize /\ a = v + s
                                                   /\ v = j * BlockSize
        <4>1. PICK j \in Nat, s \in Nat : j = a \div BlockSize /\ a = j * BlockSize + s
          BY SplitWord
        <4>2. j * BlockSize \in Nat
          BY <4>1, LayoutAssumption
        <4> QED
          BY <4>1, <4>2
      <3>3. j < z
        <4> SUFFICES ASSUME z <= j PROVE FALSE
          OBVIOUS
        <4>1. u <= v
          BY <1>2, <3>2, LayoutAssumption, Z3
        <4> QED
          BY <3>1, <3>2, <4>1
      <3>4. FileBlock(j)' = inodes'[n].direct_ptr[j]
        BY <1>1, <1>7, <2>3, <3>3, CallsInode DEF FileBlock, Promised
      <3>5. FileWord(a)' = At(n, a)'
        BY <3>2, <3>4 DEF FileWord, At
      <3> QED
        BY <1>7, <3>1, <3>5
    <2>5. AppendedWords'
      BY <1>1, <1>2, <1>3, <1>7, <2>1, <2>3, <2>4 DEF AppendedWords
    <2>6. WordsTracked'
      BY <1>1, <1>7, <2>1, <2>2, <2>5
      DEF WordsTracked, RepliesPending, LookupsInside, FormattedSoFar
    <2>7. StoreFiles' = StoreFiles
      BY <1>1, <1>7, FilesStay DEF OldWordsStay, Promised
    <2>8. StoreRequest' = StoreRequest
      BY <1>1, <2>1, RequestStays
    <2> QED
      BY <1>7, <2>6, <2>7, <2>8 DEF Kept
  <1>8. CASE f = 0
    <2>1. /\ pc' = "store" /\ UNCHANGED <<blocks, result>>
          /\ call' = [call EXCEPT !.left = BytesToBlocks(Len(rest))]
      <3>1. free = 0 /\ ~(free > 0)
        BY <1>3, <1>8
      <3> QED
        BY <3>1 DEF WriteTail, rest, free
    <2>2. OldWordsStay
      BY <1>1, <2>1 DEF OldWordsStay, At
    <2>3. call' = [call EXCEPT !.n_written = f, !.free_bytes = f,
                               !.left = BytesToBlocks(Len(rest))]
      BY <1>1, <1>8, <2>1 DEF Call
    <2>4. \A k \in 0 .. f - 1 : At(n, l + k)' = call.data[e + k + 1]
      BY <1>8
    <2> QED
      BY <1>7, <2>1, <2>2, <2>3, <2>4
  <1>9. CASE f > 0
    <2>1. z # 0
      BY <1>2, <1>3, <1>9
    <2>2. PICK q \in Nat, r \in Nat : q = z - 1 /\ q < z /\ z = q + 1 /\ r = B - f
      <3>1. z - 1 \in Nat /\ z - 1 < z
        BY <2>1
      <3>2. B - f \in Nat
        BY <1>3
      <3> QED
        BY <3>1, <3>2
    <2>3. PICK v \in Nat : v = q * BlockSize /\ u = v + B /\ v + r = l
      <3>1. PICK v \in Nat : v = q * BlockSize
        BY LayoutAssumption
      <3>2. (q + 1) * BlockSize = q * BlockSize + BlockSize /\ z = q + 1
        BY <2>2, LayoutAssumption
      <3>3. u = z * BlockSize /\ B = BlockSize
        BY <1>2
      <3>4. u = v + B
        BY <3>1, <3>2, <3>3
      <3>5. v + r = l
        BY <1>3, <2>2, <3>4
      <3> QED
        BY <3>1, <3>4, <3>5
    <2>4. /\ q \in PtrSlots(n) /\ Ptr(q) \subseteq DataNs
          /\ Ptr(q) = {inodes[n].direct_ptr[q]}
      BY <1>1, <1>2, <2>2, OldPtr DEF Promised
    <2>5. BytesToBlocks(inode_buf.file_len) - 1 = q /\ BlockSize - free = r
      BY <1>1, <1>2, <1>3, <2>2 DEF NBlocks
    <2>6. PICK behind \in [1 .. n_behind -> HeapWords] :
            /\ blocks' = [blocks EXCEPT ![inodes[n].direct_ptr[q]] =
                            Patch(@, r, SubSeq(rest \o behind, 1, f))]
            /\ call' = [call EXCEPT !.n_written = f, !.free_bytes = f,
                                    !.left = BytesToBlocks(Len(rest) - f)]
            /\ pc' = "store" /\ UNCHANGED result
      <3>1. free > 0 /\ ~(free = 0)
        BY <1>3, <1>9
      <3>2. Ptr(BytesToBlocks(inode_buf.file_len) - 1) \subseteq DataNs
        BY <2>4, <2>5
      <3>3. \E behind \in [1 .. n_behind -> HeapWords] :
            /\ \E b \in Ptr(BytesToBlocks(inode_buf.file_len) - 1) \cap DataNs :
                 blocks' = [blocks EXCEPT
                              ![b] = Patch(@, BlockSize - free,
                                           SubSeq(rest \o behind, 1, free))]
            /\ call' = [call EXCEPT !.n_written = free, !.free_bytes = free,
                                    !.left = BytesToBlocks(Len(rest) - free)]
            /\ pc' = "store" /\ UNCHANGED result
        BY <3>1, <3>2, AllStored DEF WriteTail, rest, free, n_behind
      <3> QED
        BY <1>3, <2>4, <2>5, <3>3
    <2> DEFINE ws == SubSeq(rest \o behind, 1, f)
    <2>7. /\ ws \in Seq(Words) /\ Len(ws) = f
          /\ \A i \in 1 .. f : ws[i] = call.data[e + i]
      <3>1. behind = <<>>
        <4>1. DOMAIN behind = {} /\ behind = [i \in DOMAIN behind |-> behind[i]]
          BY <1>6, <2>6
        <4> QED
          BY <4>1
      <3>2. rest \o behind = rest
        BY <1>5, <3>1
      <3>3. ws \in Seq(Words) /\ Len(ws) = f /\ \A i \in 1 .. f : ws[i] = rest[i]
        BY <1>4, <1>5, <3>2
      <3> HIDE DEF ws
      <3>4. \A i \in 1 .. f : i \in 1 .. c - e
        BY <1>4
      <3> QED
        BY <1>5, <3>3, <3>4
    <2>8. Patches(n, q, r, ws)
      <3>1. r + f <= BlockSize
        <4>1. B = BlockSize
          BY <1>2
        <4>2. r + f <= B
          BY <1>3, <2>2
        <4> QED
          BY <4>1, <4>2
      <3>2. blocks' = [blocks EXCEPT ![inodes[n].direct_ptr[q]] = Patch(@, r, ws)]
        BY <2>6
      <3> HIDE DEF ws
      <3> QED
        BY <1>1, <2>7, <3>1, <3>2 DEF Patches
    <2> HIDE DEF ws
    <2>9. ASSUME NEW m \in UsedInodes, NEW k \in Nat, k \div BlockSize \in PtrSlots(m)
          PROVE  At(m, k)' = IF m = n /\ k - l \in 0 .. f - 1
                             THEN ws[k - l + 1] ELSE At(m, k)
      <3>1. At(m, k)' = IF m = n /\ k - (q * BlockSize + r) \in 0 .. Len(ws) - 1
                        THEN ws[k - (q * BlockSize + r) + 1] ELSE At(m, k)
        BY <1>1, <2>4, <2>7, <2>8, <2>9, PatchFile DEF Promised
      <3>2. q * BlockSize + r = l
        BY <2>3
      <3> QED
        BY <2>7, <3>1, <3>2
    <2>10. OldWordsStay
      <3> SUFFICES ASSUME NEW m \in UsedInodes, NEW k \in Nat, k < inodes[m].file_len
                   PROVE  At(m, k)' = At(m, k)
        BY DEF OldWordsStay
      <3>1. k \div BlockSize \in PtrSlots(m)
        BY WordInside DEF Promised
      <3>2. m = n => k < l
        BY <1>1, <1>2, CallsInode DEF Promised
      <3> QED
        BY <2>9, <3>1, <3>2
    <2>11. ASSUME NEW k \in 0 .. f - 1
           PROVE  At(n, l + k)' = call.data[e + k + 1]
      <3>1. PICK a \in Nat : /\ a = l + k /\ a - l = k /\ a = v + (r + k)
                             /\ r + k \in 0 .. B - 1
        <4>1. l + k \in Nat /\ (l + k) - l = k /\ l + k = v + (r + k)
          BY <2>3
        <4>2. r + k \in 0 .. B - 1
          BY <2>2
        <4> QED
          BY <4>1, <4>2
      <3>2. a \div BlockSize = q
        BY <1>2, <2>3, <3>1, JoinWord
      <3>3. At(n, a)' = ws[k + 1]
        BY <1>1, <2>4, <2>9, <3>1, <3>2
      <3>4. ws[k + 1] = call.data[e + k + 1]
        <4>1. k + 1 \in 1 .. f /\ e + (k + 1) = e + k + 1
          OBVIOUS
        <4> QED
          BY <2>7, <4>1
      <3> QED
        BY <3>1, <3>3, <3>4
    <2> QED
      BY <1>7, <2>6, <2>10, <2>11
  <1> QED
    BY <1>3, <1>8, <1>9


(* The block that a write allocates comes behind those that its file will  *)
(* have, and is none of them, nor of any other file.                       *)
ComesNext(b, t, ws) ==
  /\ OldWordsStay
  /\ \A j \in 0 .. t - 1 : /\ FileBlock(j)' = FileBlock(j)
                           /\ blocks'[FileBlock(j)] = blocks[FileBlock(j)]
  /\ FileBlock(t)' = b /\ blocks'[b] = Patch(blocks[b], 0, ws)

LEMMA FreshBlock ==
  ASSUME Promised, pc = "store", pc' = "store", NEW b \in FreeBlocks, NEW ws,
         UNCHANGED <<inodes, inode>>,
         blocks' = [blocks EXCEPT ![b] = Patch(@, 0, ws)],
         ptrs_to_allocate' = Append(ptrs_to_allocate, b),
         NEW z \in Nat, z = NBlocks(inode), NEW p \in Nat, p = Len(ptrs_to_allocate)
  PROVE  ComesNext(b, z + p, ws)
  <1> PICK n : n = call.inode_n
    OBVIOUS
  <1>1. /\ b \in DataNs /\ b \notin data_bitmap /\ blocks \in [DataNs -> Block]
        /\ ptrs_to_allocate \in Seq(DataNs)
    BY DEF FreeBlocks, Promised, Tracked, Inv, TypeOK
  <1>2. call.op = "write" /\ Ordinary /\ n \in UsedInodes /\ inode = inodes[n]
    BY WriteNumbers, CallsInode DEF Promised, InUse, AfterLoad
  <1>3. /\ Holders = UsedInodes /\ UsedInodes \subseteq InodeNs /\ Fresh = Pendings
        /\ \A m \in InodeNs : MarkedSlots(m) = PtrSlots(m)
    BY <1>2, WhenOrdinary DEF UsedInodes
  <1>4. \A m \in UsedInodes : \A i \in PtrSlots(m) :
          inodes[m].direct_ptr[i] \in DataNs /\ inodes[m].direct_ptr[i] # b
    <2>1. \A m \in Holders : MarkedSlots(m) = PtrSlots(m)
      BY <1>3
    <2>2. \A m \in Holders : \A i \in PtrSlots(m) : inodes[m].direct_ptr[i] # b
      BY <1>1, <1>2, <2>1 DEF Promised, Tracked, DirectInv, BlocksTracked, Ordinary
    <2> QED
      BY <1>3, <2>2 DEF Promised, Tracked, DirectInv, PtrsApart
  <1>5. \A i \in 1 .. p : ptrs_to_allocate[i] \in DataNs /\ ptrs_to_allocate[i] # b
    <2>1. b \notin Pendings
      BY <1>1, <1>2, <1>3 DEF Promised, Tracked, DirectInv, BlocksTracked, Ordinary
    <2> QED
      BY <1>1, <2>1 DEF Pendings
  <1>6. \A c \in DataNs : c # b => blocks'[c] = blocks[c]
    BY <1>1
  <1>7. OldWordsStay
    <2> SUFFICES ASSUME NEW m \in UsedInodes, NEW k \in Nat, k < inodes[m].file_len
                 PROVE  At(m, k)' = At(m, k)
      BY DEF OldWordsStay
    <2>1. k \div BlockSize \in PtrSlots(m)
      BY WordInside DEF Promised
    <2>2. PICK c : c = inodes[m].direct_ptr[k \div BlockSize] /\ blocks'[c] = blocks[c]
      BY <1>4, <1>6, <2>1
    <2> QED
      BY <2>2 DEF At
  <1>8. ASSUME NEW j \in 0 .. z + p - 1
        PROVE  FileBlock(j)' = FileBlock(j) /\ FileBlock(j) \in DataNs \ {b}
    <2>1. NBlocks(inode)' = z
      BY DEF NBlocks
    <2>2. CASE j < z
      <3>1. FileBlock(j) = inode.direct_ptr[j] /\ FileBlock(j)' = inode.direct_ptr[j]
        BY <2>1, <2>2 DEF FileBlock
      <3>2. j \in PtrSlots(n)
        BY <1>2, <2>2 DEF PtrSlots
      <3> QED
        BY <1>2, <1>4, <3>1, <3>2
    <2>3. CASE z <= j
      <3>1. j - z + 1 \in 1 .. p
        BY <2>3
      <3>2. /\ FileBlock(j) = ptrs_to_allocate[j - z + 1]
            /\ FileBlock(j)' = ptrs_to_allocate'[j - z + 1]
        BY <2>1, <2>3 DEF FileBlock
      <3>3. ptrs_to_allocate'[j - z + 1] = ptrs_to_allocate[j - z + 1]
        BY <1>1, <3>1
      <3> QED
        BY <1>5, <3>1, <3>2, <3>3
    <2> QED
      BY <2>2, <2>3
  <1>9. FileBlock(z + p)' = b
    <2>1. NBlocks(inode)' = z /\ ~(z + p < z) /\ (z + p) - z + 1 = p + 1
      BY DEF NBlocks
    <2>2. ptrs_to_allocate'[p + 1] = b
      BY <1>1
    <2> QED
      BY <2>1, <2>2 DEF FileBlock
  <1>10. blocks'[b] = Patch(blocks[b], 0, ws)
    BY <1>1
  <1> QED
    BY <1>6, <1>7, <1>8, <1>9, <1>10 DEF ComesNext

LEMMA StoreBlocksKept ==
  ASSUME Promised, Tracked', StoreBlocks
  PROVE  Kept
  <1> DEFINE n_write == Smaller(Len(call.data) - NDone, BlockSize)
  <1>1. /\ pc = "store" /\ call \in Call /\ call.op = "write" /\ call.n_edited = EditLen
        /\ UNCHANGED <<inodes, inode, result>> /\ result = Pending
        /\ call.left = BytesToBlocks(Len(call.data) - NDone)
    <2>1. pc = "store" /\ UNCHANGED <<inodes, inode, result>>
      BY AllStored DEF StoreBlocks, FreeBlocks
    <2> QED
      BY <2>1, WriteNumbers
      DEF Promised, WordsTracked, RepliesPending, Tracked, DirectInv, WriteTracks
  <1>2. PICK l \in Nat, v \in Nat, e \in Nat, d \in Nat, B \in Nat, z \in Nat, p \in Nat,
              f \in Nat :
          /\ l = inode.file_len /\ v = call.n_written /\ e = EditLen /\ B = BlockSize
          /\ d = Len(call.data) - NDone /\ z = NBlocks(inode)
          /\ p = Len(ptrs_to_allocate) /\ f = call.free_bytes
          /\ Len(ptrs_to_allocate) =
               BytesToBlocks(inode.file_len + call.n_written) - NBlocks(inode)
          /\ NDone = EditLen + call.n_written
          /\ call.free_bytes <= call.n_written
          /\ call.free_bytes = NBlocks(inode) * BlockSize - inode.file_len
          /\ BlockSize \in Nat \ {0, 1}
    <2>1. /\ inode.file_len \in Nat /\ call.n_written \in Nat /\ EditLen \in Nat
          /\ Len(call.data) - NDone \in Nat /\ NBlocks(inode) \in Nat
          /\ BlockSize \in Nat \ {0, 1} /\ call.free_bytes \in Nat
      BY <1>1, WriteNumbers, StoreNumbers, LayoutAssumption DEF Promised, Call
    <2>2. Len(ptrs_to_allocate) =
            BytesToBlocks(inode.file_len + call.n_written) - NBlocks(inode)
      BY <1>1 DEF Promised, Tracked, DirectInv, WriteTracks
    <2>3. Len(ptrs_to_allocate) \in Nat
      BY DEF Promised, Tracked, Inv, TypeOK
    <2>4. NDone = EditLen + call.n_written
      BY <1>1 DEF NDone
    <2>5. /\ call.free_bytes <= call.n_written
          /\ call.free_bytes = NBlocks(inode) * BlockSize - inode.file_len
      BY <1>1 DEF Promised, WordsTracked, AppendedWords
    <2> QED
      BY <2>1, <2>2, <2>3, <2>4, <2>5
  <1>3. /\ \A k \in 0 .. v - 1 : FileWord(l + k) = call.data[e + k + 1]
    BY <1>1, <1>2 DEF Promised, WordsTracked, AppendedWords
  <1>4. PICK a \in Nat : a = l + v /\ BytesToBlocks(a) = z + p
    <2>1. PICK a \in Nat : a = l + v
      OBVIOUS
    <2>2. PICK t \in Nat : t = BytesToBlocks(a)
      BY BlocksCover
    <2>3. p = t - z
      BY <1>2, <2>1, <2>2
    <2> QED
      BY <2>1, <2>2, <2>3
  <1>5. CASE /\ call.left > 0
             /\ \E b \in FreeBlocks :
                  /\ ptrs_to_allocate' = Append(ptrs_to_allocate, b)
                  /\ blocks' = [blocks EXCEPT ![b] =
                       Patch(@, 0, SubSeq(call.data, NDone + 1, NDone + n_write))]
             /\ call' = [call EXCEPT !.n_written = @ + n_write, !.left = @ - 1]
             /\ pc' = pc
    <2>1. d > 0
      BY <1>1, <1>2, <1>5, BlocksZero
    <2>2. PICK w \in Nat : w = n_write /\ w <= d /\ w <= B /\ w > 0
      <3>1. n_write = IF d <= B THEN d ELSE B
        BY <1>2 DEF Smaller
      <3>2. B > 1
        <4>1. B = BlockSize /\ BlockSize \in Nat \ {0, 1}
          BY <1>2
        <4> QED
          BY <4>1
      <3> HIDE DEF n_write
      <3> QED
        BY <2>1, <3>1, <3>2
    <2> HIDE DEF n_write
    <2> DEFINE ws == SubSeq(call.data, NDone + 1, NDone + w)
    <2>3. Len(ws) = w /\ \A i \in 1 .. w : ws[i] = call.data[e + v + i]
      <3>1. call.data \in Seq(Words) /\ e + v \in Nat /\ NDone = e + v
        <4>1. call.data \in Seq(Words)
          BY <1>1 DEF Call
        <4>2. NDone = e + v
          BY <1>2
        <4> QED
          BY <4>1, <4>2
      <3>2. e + v + w <= Len(call.data)
        <4>1. PICK c \in Nat : c = Len(call.data)
          BY <1>1 DEF Call
        <4>2. d = c - (e + v)
          BY <1>2, <3>1, <4>1
        <4> QED
          BY <2>2, <4>1, <4>2
      <3>3. ws = [i \in 1 .. w |-> call.data[e + v + i]]
        <4>1. PICK m \in Nat : m = e + v
          BY <3>1
        <4>2. m + w <= Len(call.data)
          BY <3>2, <4>1
        <4>3. SubSeq(call.data, m + 1, m + w) = [i \in 1 .. w |-> call.data[m + i]]
          <5>1. call.data \in Seq(Words)
            BY <3>1
          <5> HIDE DEF ws
          <5> QED
            BY <4>2, <5>1, PartIs
        <4> QED
          BY <3>1, <4>1, <4>3
      <3>4. ws \in Seq(Words) /\ DOMAIN ws = 1 .. w
        BY <3>1, <3>2, <3>3
      <3>5. \A i \in 1 .. w : ws[i] = call.data[e + v + i]
        BY <3>3
      <3> HIDE DEF ws
      <3> QED
        BY <3>4, <3>5
    <2>4. PICK b \in FreeBlocks :
            /\ ptrs_to_allocate' = Append(ptrs_to_allocate, b)
            /\ blocks' = [blocks EXCEPT ![b] = Patch(@, 0, ws)]
      BY <1>5, <2>2
    <2> HIDE DEF ws
    <2>5. /\ OldWordsStay
          /\ \A j \in 0 .. z + p - 1 : /\ FileBlock(j)' = FileBlock(j)
                                       /\ blocks'[FileBlock(j)] = blocks[FileBlock(j)]
          /\ FileBlock(z + p)' = b /\ blocks'[b] = Patch(blocks[b], 0, ws)
      <3>1. pc' = "store"
        BY <1>1, <1>5
      <3>2. z = NBlocks(inode) /\ p = Len(ptrs_to_allocate)
        BY <1>2
      <3>3. ComesNext(b, z + p, ws)
        BY <1>1, <2>4, <3>1, <3>2, FreshBlock
      <3> QED
        BY <3>3 DEF ComesNext
    <2>6. /\ call'.op = call.op /\ call'.inode_n = call.inode_n
          /\ call'.offset = call.offset /\ call'.length = call.length
          /\ call'.data = call.data /\ call'.n_edited = call.n_edited
          /\ call'.n_written = v + w /\ call'.free_bytes = call.free_bytes
      BY <1>1, <1>2, <1>5, <2>2 DEF Call
    <2>7. EditedWords'
      BY <1>1, <1>5, <2>5, <2>6, WindowStays
    <2>8. NBlocks(inode)' = z /\ inode'.file_len = l /\ EditLen' = e
      BY <1>1, <1>2, <2>6 DEF NBlocks, EditLen
    <2>9. ASSUME NEW k \in 0 .. v + w - 1
          PROVE  FileWord(l + k)' = call.data[e + k + 1]
      <3>1. CASE k < v
        <4>1. PICK x \in Nat : x = l + k /\ x < a
          BY <1>4, <3>1
        <4>2. x \div BlockSize \in 0 .. z + p - 1
          <5>1. PICK j \in Nat : j = x \div BlockSize
            BY SplitWord
          <5>2. j < z + p
            BY <1>4, <4>1, <5>1, WordInBlocks
          <5> QED
            BY <5>1, <5>2
        <4>3. FileWord(x)' = FileWord(x)
          BY <2>5, <4>2 DEF FileWord
        <4> QED
          BY <1>3, <3>1, <4>1, <4>3
      <3>2. CASE v <= k
        <4>1. PICK s \in Nat : s = k - v /\ s < w /\ k = v + s
          BY <3>2
        <4>2. s \in 0 .. BlockSize - 1 /\ s \in Slots
          <5>1. B = BlockSize
            BY <1>2
          <5>2. s \in 0 .. B - 1
            BY <2>2, <4>1
          <5> QED
            BY <5>1, <5>2 DEF Slots
        <4>3. a = (z + p) * BlockSize
          <5>1. a % BlockSize = 0
            <6>1. NDone # Len(call.data)
              BY <1>1, <1>2, <2>1, WriteNumbers DEF Promised
            <6>2. (inode.file_len + call.n_written) % BlockSize = 0
              BY <1>1, <6>1 DEF Promised, Tracked, DirectInv, WriteTracks
            <6> QED
              BY <1>2, <1>4, <6>2
          <5>2. PICK q \in Nat : a = q * BlockSize
            <6>1. PICK q \in Nat : q = a \div BlockSize /\ a = q * BlockSize + (a % BlockSize)
              BY SplitWord
            <6>2. q * BlockSize + 0 = q * BlockSize
              BY LayoutAssumption
            <6> QED
              BY <5>1, <6>1, <6>2
          <5>3. q * BlockSize \in Nat /\ q * BlockSize <= q * BlockSize
                /\ q * BlockSize < q * BlockSize + BlockSize
            BY <5>2, LayoutAssumption
          <5>4. BytesToBlocks(a) = q
            BY <5>2, <5>3, BlocksUnique
          <5> QED
            BY <1>4, <5>2, <5>4
        <4>4. /\ l + k = (z + p) * BlockSize + s
              /\ (l + k) \div BlockSize = z + p /\ (l + k) % BlockSize = s
          <5>1. l + k = a + s
            BY <1>4, <4>1
          <5>2. z + p \in Nat
            OBVIOUS
          <5> QED
            BY <4>2, <4>3, <5>1, <5>2, JoinWord
        <4>5. FileWord(l + k)' = blocks'[b][s]
          BY <2>5, <4>4 DEF FileWord
        <4>6. blocks'[b][s] = ws[s + 1]
          <5>1. 0 <= s /\ s < 0 + Len(ws) /\ s - 0 + 1 = s + 1
            BY <2>3, <4>1
          <5> QED
            BY <2>5, <4>2, <5>1 DEF Patch
        <4>7. ws[s + 1] = call.data[e + k + 1]
          <5>1. s + 1 \in 1 .. w /\ e + v + (s + 1) = e + k + 1
            BY <4>1
          <5> QED
            BY <2>3, <5>1
        <4> QED
          BY <4>5, <4>6, <4>7
      <3> QED
        BY <3>1, <3>2
    <2>10. AppendedWords'
      <3>1. call'.n_edited = e /\ call'.free_bytes = f /\ f <= v + w
        <4>1. call'.n_edited = e /\ call'.free_bytes = f
          BY <1>1, <1>2, <2>6
        <4>2. f <= v
          BY <1>2
        <4> QED
          BY <4>1, <4>2
      <3>2. f = z * BlockSize - l /\ pc' = "store"
        BY <1>1, <1>2, <1>5
      <3> QED
        BY <2>6, <2>8, <2>9, <3>1, <3>2 DEF AppendedWords
    <2>11. WordsTracked'
      BY <1>1, <1>5, <2>6, <2>7, <2>10
      DEF WordsTracked, RepliesPending, LookupsInside, FormattedSoFar
    <2>12. StoreFiles' = StoreFiles
      BY <1>1, <2>5, FilesStay DEF OldWordsStay, Promised
    <2>13. StoreRequest' = StoreRequest
      BY <1>1, <2>6, RequestStays
    <2> QED
      BY <1>1, <2>11, <2>12, <2>13 DEF Kept
  <1>6. CASE pc' = "commit" /\ UNCHANGED <<blocks, ptrs_to_allocate, call>>
    <2>1. OldWordsStay
      BY <1>1, <1>6 DEF OldWordsStay, At
    <2>2. EditedWords'
      BY <1>1, <1>6, <2>1, WindowStays
    <2>3. NBlocks(inode)' = z /\ inode'.file_len = l /\ EditLen' = e
      BY <1>1, <1>2, <1>6 DEF NBlocks, EditLen
    <2>4. \A j : FileBlock(j)' = FileBlock(j)
      BY <1>1, <1>2, <1>6, <2>3 DEF FileBlock
    <2>5. \A k : FileWord(k)' = FileWord(k)
      BY <1>6, <2>4 DEF FileWord
    <2>6. AppendedWords'
      BY <1>1, <1>2, <1>3, <1>6, <2>3, <2>5 DEF AppendedWords
    <2>7. WordsTracked'
      BY <1>1, <1>6, <2>2, <2>6
      DEF WordsTracked, RepliesPending, LookupsInside, FormattedSoFar
    <2>8. UNCHANGED <<StoreRequest, result, StoreFiles>>
      BY <1>1, <1>6, Unseen DEF Promised, WordsTracked, image
    <2> QED
      BY <2>7, <2>8 DEF Kept
  <1> QED
    BY <1>1, <1>5, <1>6, AllStored DEF StoreBlocks, NDone, FreeBlocks


-----------------------------------------------------------------------------
(* The inode reaches the image, and with it its file the caller.           *)
LEMMA WritebackOne ==
  ASSUME Tracked, Tracked', Writeback, NEW n \in InodeNs, n = call.inode_n
  PROVE  /\ StoreFiles' = [StoreFiles EXCEPT ![n] = FileOf(n)']
         /\ inodes'[n] = inode_buf /\ UNCHANGED blocks
         /\ \A m \in InodeNs : m # n => inodes'[m] = inodes[m]
         /\ UsedInodes' = IF inode_buf.status = "Used" THEN UsedInodes \cup {n}
                          ELSE UsedInodes \ {n}
  <1>1. /\ inodes' = [inodes EXCEPT ![n] = inode_buf] /\ UNCHANGED blocks
        /\ inodes \in [InodeNs -> InodeBlock]
    BY WritebackFacts DEF Writeback
  <1>2. inodes'[n] = inode_buf /\ \A m \in InodeNs : m # n => inodes'[m] = inodes[m]
    BY <1>1
  <1>3. UsedInodes' = IF inode_buf.status = "Used" THEN UsedInodes \cup {n}
                      ELSE UsedInodes \ {n}
    BY <1>2 DEF UsedInodes
  <1>4. \A m \in InodeNs : m # n =>
          /\ m \in UsedInodes' <=> m \in UsedInodes
          /\ m \in UsedInodes =>
               /\ inodes'[m].file_len = inodes[m].file_len
               /\ \A k \in Nat : k < inodes[m].file_len => At(m, k)' = At(m, k)
    BY <1>1, <1>2, <1>3 DEF At
  <1>5. StoreFiles' = [StoreFiles EXCEPT ![n] = FileOf(n)']
    BY <1>4, OneFileChanges
  <1> QED
    BY <1>1, <1>2, <1>3, <1>5

LEMMA WritebackRenameKept ==
  ASSUME Promised, Tracked', Writeback, call.op = "rename"
  PROVE  Kept
  <1>1. PICK n \in InodeNs : n = call.inode_n
    BY WritebackFacts DEF Promised
  <1>2. /\ inode_buf.status = inodes[n].status /\ inode_buf.file_len = inodes[n].file_len
        /\ \A i \in 0 .. NDirect - 1 :
             inode_buf.direct_ptr[i] = inodes[n].direct_ptr[i]
        /\ ~Releasing
    BY <1>1, WritebackKeeps DEF Promised
  <1>3. /\ inodes'[n] = inode_buf /\ UNCHANGED blocks
        /\ \A m \in InodeNs : m # n => inodes'[m] = inodes[m]
    BY <1>1, WritebackOne DEF Promised
  <1>4. /\ pc' = "idle" /\ call' = NoCall /\ result' = Ok(n)
        /\ StoreRequest.op = "rename" /\ StoreRequest.n = n
    BY <1>1, RunningRequest DEF Writeback, AfterCommit, Return
  <1>5. \A m \in InodeNs : StoreFiles'[m] = StoreFiles[m]
    <2> SUFFICES ASSUME NEW m \in InodeNs PROVE StoreFiles'[m] = StoreFiles[m]
      OBVIOUS
    <2>1. /\ m \in UsedInodes' <=> m \in UsedInodes
          /\ inodes'[m].file_len = inodes[m].file_len
      BY <1>2, <1>3 DEF UsedInodes
    <2>2. ASSUME m \in UsedInodes, NEW k \in Nat, k < inodes[m].file_len
          PROVE  At(m, k)' = At(m, k)
      <3>1. k \div BlockSize \in PtrSlots(m)
        BY <2>2, WordInside DEF Promised
      <3>2. k \div BlockSize \in 0 .. NDirect - 1
        <4>1. PICK z \in Nat : z = NBlocks(inodes[m]) /\ z <= NDirect
          BY ShortInode DEF Promised
        <4> QED
          BY <3>1, <4>1, LayoutAssumption DEF PtrSlots
      <3>3. inodes'[m].direct_ptr[k \div BlockSize] = inodes[m].direct_ptr[k \div BlockSize]
        BY <1>2, <1>3, <3>2
      <3> QED
        BY <1>3, <3>3 DEF At
    <2> QED
      BY <2>1, <2>2, FileStays DEF Promised
  <1>6. StoreFiles' = StoreFiles
    BY <1>5 DEF StoreFiles
  <1>7. StoreRequest' = Store!NoRequest("idle")
    BY <1>4, NoRequestAtRest
  <1>8. Store!RenameReply
    BY <1>4, <1>6, <1>7 DEF Store!RenameReply, Store!Ends, Store!Replies, Ok
  <1>9. WordsTracked'
    BY <1>4, WordsAtRest DEF NoCall
  <1> QED
    BY <1>8, <1>9 DEF Kept, Store!StoreNext

LEMMA WritebackRemoveKept ==
  ASSUME Promised, Tracked', Writeback, call.op = "remove"
  PROVE  Kept
  <1>1. PICK n \in InodeNs : n = call.inode_n
    BY WritebackFacts DEF Promised
  <1>2. inode_buf.status = "Free" /\ ~Releasing /\ call \in Call
    BY <1>1, WritebackKeeps DEF Promised
  <1>3. /\ StoreFiles' = [StoreFiles EXCEPT ![n] = FileOf(n)'] /\ n \notin UsedInodes'
    BY <1>1, <1>2, WritebackOne DEF Promised
  <1>4. FileOf(n)' = Store!Absent
    <2>1. (n \in UsedInodes') = FALSE
      BY <1>3
    <2>2. FileOf(n)' = [present |-> FALSE, words |-> <<>>]
      BY <2>1 DEF FileOf
    <2> QED
      BY <2>2 DEF Store!Absent
  <1>5. /\ pc' = "mark_load" /\ UNCHANGED result
        /\ call'.op = call.op /\ call'.inode_n = call.inode_n
        /\ call'.offset = call.offset /\ call'.length = call.length
        /\ call'.data = call.data
    BY <1>2 DEF Writeback, AfterCommit, Call
  <1>6. StoreRequest' = StoreRequest /\ StoreRequest.op = "remove" /\ StoreRequest.n = n
    BY <1>1, <1>5, RequestStays, RunningRequest
  <1>7. StoreFiles[n].present
    BY <1>1, <1>2, CallsFile DEF Promised, StoreFiles
  <1>8. Store!Unlink
    BY <1>3, <1>4, <1>5, <1>6, <1>7 DEF Store!Unlink
  <1>9. WordsTracked'
    BY <1>5, WordsOfOthers DEF Promised, WordsTracked, RepliesPending
  <1> QED
    BY <1>8, <1>9 DEF Kept, Store!StoreNext

LEMMA WritebackFormatKept ==
  ASSUME Promised, Tracked', Writeback, call.op = "format"
  PROVE  Kept
  <1>1. PICK n \in InodeNs : n = call.inode_n
    BY WritebackFacts DEF Promised
  <1>2. inode_buf.status = "Free" /\ ~Releasing /\ call \in Call
    BY <1>1, WritebackKeeps DEF Promised
  <1>3. /\ StoreFiles' = [StoreFiles EXCEPT ![n] = FileOf(n)']
        /\ UsedInodes' = UsedInodes \ {n}
    BY <1>1, <1>2, WritebackOne DEF Promised
  <1>4. FileOf(n)' = Store!Absent
    <2>1. (n \in UsedInodes') = FALSE
      BY <1>3
    <2>2. FileOf(n)' = [present |-> FALSE, words |-> <<>>]
      BY <2>1 DEF FileOf
    <2> QED
      BY <2>2 DEF Store!Absent
  <1>5. /\ pc' = "format" /\ UNCHANGED result
        /\ call'.op = call.op /\ call'.inode_n = call.inode_n + 1
        /\ call'.offset = call.offset /\ call'.length = call.length
        /\ call'.data = call.data
    BY <1>2 DEF Writeback, AfterCommit, Call
  <1>6. StoreRequest' = StoreRequest /\ StoreRequest.op = "format"
    BY <1>5, RequestStays, RunningRequest
  <1>7. Store!FormatOne
    BY <1>3, <1>4, <1>5, <1>6 DEF Store!FormatOne
  <1>8. \A m \in UsedInodes' : m >= n + 1
    <2>1. \A m \in UsedInodes : m >= n
      BY <1>1 DEF Promised, WordsTracked, FormattedSoFar
    <2>2. \A m \in UsedInodes : m \in Nat /\ n \in Nat
      BY DEF UsedInodes, InodeNs
    <2> QED
      BY <1>3, <2>1, <2>2
  <1>9. WordsTracked'
    BY <1>1, <1>5, <1>8, WordsOfOthers DEF Promised, WordsTracked, RepliesPending
  <1> QED
    BY <1>7, <1>9 DEF Kept, Store!StoreNext

(* The last step of a write: the blocks that its inode has got hold what   *)
(* was written to them, so the file is what the request calls for.         *)
LEMMA WritebackWriteKept ==
  ASSUME Promised, Tracked', Writeback, call.op = "write"
  PROVE  Kept
  <1>1. PICK n \in InodeNs :
          /\ n = call.inode_n /\ pc = "writeback" /\ inode = inodes[n]
          /\ inode_buf \in InodeBlock /\ call \in Call /\ ~Releasing
          /\ \A i \in 0 .. NDirect - 1 :
               i \notin NewSlots => inode_buf.direct_ptr[i] = inode.direct_ptr[i]
    BY WritebackFacts DEF Promised
  <1>2. /\ StoreFiles' = [StoreFiles EXCEPT ![n] = FileOf(n)'] /\ UNCHANGED blocks
        /\ inodes'[n] = inode_buf /\ n \in UsedInodes
        /\ inode_buf.status = "Used" /\ n \in UsedInodes'
    <2>1. n \in UsedInodes
      BY <1>1, CallsFile DEF Promised
    <2>2. inode_buf.status = "Used"
      BY <1>1, <2>1 DEF Promised, Tracked, DirectInv, BufferTracks, UsedInodes
    <2> QED
      BY <1>1, <2>1, <2>2, WritebackOne DEF Promised
  <1>3. PICK l \in Nat, w \in Nat, e \in Nat, s \in Nat, t \in Nat, f \in Nat, c \in Nat :
          /\ l = inode.file_len /\ w = call.n_written /\ e = EditLen
          /\ s = NBlocks(inode) /\ t = NBlocks(inode_buf) /\ f = call.free_bytes
          /\ c = Len(call.data) /\ inode_buf.file_len = inode.file_len + call.n_written
          /\ NBlocks(inode_buf) <= NDirect /\ call.n_edited = EditLen
          /\ call.free_bytes = NBlocks(inode) * BlockSize - inode.file_len
          /\ call.free_bytes <= call.n_written
          /\ call.n_ptrs = NBlocks(inode_buf) - NBlocks(inode)
          /\ call.n_edited + call.n_written <= Len(call.data)
    <2>1. inode.file_len \in Nat /\ call.n_written \in Nat /\ call.free_bytes \in Nat
          /\ EditLen \in Nat /\ Len(call.data) \in Nat /\ inode_buf.file_len \in Nat
      <3>1. inode.file_len \in Nat /\ inode_buf.file_len \in Nat
        BY <1>1, ShortInode DEF Promised, InodeBlock
      <3>2. call.n_written \in Nat /\ call.free_bytes \in Nat /\ call.n_edited \in Nat
            /\ Len(call.data) \in Nat
        BY <1>1 DEF Call
      <3>3. call.n_edited = EditLen
        BY <1>1 DEF Promised, WordsTracked, AppendedWords
      <3> QED
        BY <3>1, <3>2, <3>3
    <2>2. NBlocks(inode) \in Nat /\ NBlocks(inode_buf) \in Nat
      BY <2>1, BlocksCover DEF NBlocks
    <2>3. /\ inode_buf.file_len = inode.file_len + call.n_written
          /\ BytesToBlocks(inode.file_len + call.n_written) <= NDirect
          /\ NDone = Len(call.data) \/ NDone < Len(call.data)
      BY <1>1 DEF Promised, Tracked, DirectInv, BufferTracks, WriteTracks
    <2>4. NBlocks(inode_buf) <= NDirect
      BY <2>3 DEF NBlocks
    <2>5. call.n_edited + call.n_written <= Len(call.data)
      <3>1. PICK x \in Nat : x = NDone /\ x = call.n_edited + call.n_written
        BY <1>1 DEF NDone, Call
      <3> QED
        BY <2>1, <2>3, <3>1
    <2>6. /\ call.n_edited = EditLen
          /\ call.free_bytes = NBlocks(inode) * BlockSize - inode.file_len
          /\ call.free_bytes <= call.n_written
          /\ call.n_ptrs = NBlocks(inode_buf) - NBlocks(inode)
      BY <1>1 DEF Promised, WordsTracked, AppendedWords
    <2> QED
      BY <2>1, <2>2, <2>3, <2>4, <2>5, <2>6
  <1>4. PICK a \in Nat, u \in Nat : /\ a = l + w /\ u = s * BlockSize /\ f = u - l /\ f <= w
                                    /\ l + f = u /\ e + w <= c
    <2>1. PICK u \in Nat : u = s * BlockSize
      BY LayoutAssumption
    <2>2. f = u - l /\ f <= w /\ e + w <= c
      BY <1>3, <2>1
    <2>3. l + f = u /\ l + w \in Nat
      BY <2>2
    <2> QED
      BY <2>1, <2>2, <2>3
  <1>5. t = BytesToBlocks(a) /\ inode_buf.file_len = a
    BY <1>3, <1>4 DEF NBlocks
  <1>6. call.n_ptrs = BytesToBlocks(call.n_written - call.free_bytes)
    <2>1. PICK x \in Nat : x = w - f /\ a = u + x
      BY <1>4
    <2>2. PICK y \in Nat : y = BytesToBlocks(x)
      BY BlocksCover
    <2>3. t = s + y
      BY <1>4, <1>5, <2>1, <2>2, BlocksBehind
    <2>4. call.n_ptrs = t - s
      BY <1>3
    <2>5. call.n_written - call.free_bytes = x
      BY <1>3, <2>1
    <2> QED
      BY <2>2, <2>3, <2>4, <2>5
  <1>7. pc' = "idle" /\ call' = NoCall /\ result' = Ok(e + w)
    <2>1. Return(Ok(call.n_written + call.n_edited))
      BY <1>6 DEF Writeback, AfterCommit
    <2>2. call.n_written + call.n_edited = e + w
      BY <1>3
    <2> QED
      BY <2>1, <2>2 DEF Return
  <1>8. /\ Store!Start >= 0 /\ Store!Replaced /\ Store!NReplace = e
        /\ Store!Mine \in Seq(Words) /\ Len(Store!Mine) = l
        /\ Store!Mine = [k \in 1 .. l |-> At(n, k - 1)]
        /\ StoreRequest.data = call.data /\ StoreRequest.n = n
        /\ StoreRequest.op = "write"
    <2>1. /\ Store!Start >= 0 /\ Store!Replaced /\ Store!NReplace = EditLen
          /\ Store!Mine \in Seq(Words) /\ Len(Store!Mine) = inode.file_len
          /\ StoreRequest.data = call.data /\ StoreRequest.n = call.inode_n
      BY <1>1, <1>3, WindowReplaced
    <2>2. Store!Mine = [k \in 1 .. inode.file_len |-> At(n, k - 1)]
      BY <1>1, CallsFile DEF Promised
    <2> QED
      BY <1>1, <1>3, <2>1, <2>2, RunningRequest
  <1>9. ASSUME NEW k \in Nat, k < a
        PROVE  At(n, k)' = IF k < l THEN At(n, k) ELSE call.data[e + (k - l) + 1]
    <2>1. PICK j \in Nat : j = k \div BlockSize /\ j < t
      BY <1>5, <1>9, SplitWord, WordInBlocks
    <2>2. At(n, k)' = FileWord(k)
      <3>1. inode_buf.direct_ptr[j] = FileBlock(j)
        <4>1. CASE j < s
          <5>1. j \in 0 .. NDirect - 1 /\ j \notin NewSlots
            <6>1. t <= NDirect /\ NDirect \in Nat
              BY <1>3, LayoutAssumption
            <6>2. NewSlots = s .. t - 1
              BY <1>3 DEF NewSlots
            <6>3. j \in 0 .. NDirect - 1
              BY <2>1, <6>1
            <6>4. j \notin s .. t - 1
              BY <4>1
            <6> QED
              BY <6>2, <6>3, <6>4
          <5> QED
            BY <1>1, <1>3, <4>1, <5>1 DEF FileBlock
        <4>2. CASE ~(j < s)
          BY <1>1, <1>3, <4>2 DEF FileBlock
        <4> QED
          BY <4>1, <4>2
      <3> QED
        BY <1>2, <2>1, <3>1 DEF At, FileWord
    <2>3. CASE k < l
      <3>1. FileWord(k) = At(n, k)
        BY <1>1, <1>3, <2>3, OldWord DEF Promised, InUse, AfterLoad
      <3> QED
        BY <2>2, <2>3, <3>1
    <2>4. CASE ~(k < l)
      <3>1. PICK x \in Nat : x = k - l /\ x \in 0 .. w - 1 /\ l + x = k
        BY <1>4, <1>9, <2>4
      <3>2. FileWord(l + x) = call.data[e + x + 1]
        <4>1. \A i \in 0 .. w - 1 : FileWord(l + i) = call.data[e + i + 1]
          BY <1>1, <1>3 DEF Promised, WordsTracked, AppendedWords
        <4> QED
          BY <3>1, <4>1
      <3> QED
        BY <2>2, <2>4, <3>1, <3>2
    <2> QED
      BY <2>3, <2>4
  <1>10. FileOf(n)' = Store!File(Store!Mine \o SubSeq(StoreRequest.data, e + 1, e + w))
    <2>1. call.data \in Seq(Words) /\ e + w <= Len(call.data)
      BY <1>1, <1>3, <1>4 DEF Call
    <2> DEFINE new == SubSeq(call.data, e + 1, e + w)
    <2>2. new = [k \in 1 .. w |-> call.data[e + k]]
      BY <2>1, PartIs
    <2>3. new \in Seq(Words) /\ Len(new) = w /\ \A k \in 1 .. w : new[k] = call.data[e + k]
      <3>1. new \in Seq(Words) /\ DOMAIN new = 1 .. w
        BY <2>1, <2>2
      <3>2. \A k \in 1 .. w : new[k] = call.data[e + k]
        BY <2>2
      <3> HIDE DEF new
      <3> QED
        BY <3>1, <3>2
    <2> HIDE DEF new
    <2> DEFINE whole == Store!Mine \o new
    <2>4. whole = [k \in 1 .. a |-> IF k <= l THEN Store!Mine[k] ELSE new[k - l]]
      <3>1. whole = [k \in 1 .. Len(Store!Mine) + Len(new) |->
                       IF k <= Len(Store!Mine) THEN Store!Mine[k]
                       ELSE new[k - Len(Store!Mine)]]
        <4> HIDE DEF whole
        <4>1. Store!Mine \o new = [k \in 1 .. Len(Store!Mine) + Len(new) |->
                       IF k <= Len(Store!Mine) THEN Store!Mine[k]
                       ELSE new[k - Len(Store!Mine)]]
          <5>1. Store!Mine \in Seq(Words) /\ new \in Seq(Words)
            BY <1>8, <2>3
          <5> QED
            BY <5>1, JoinIs
        <4> QED
          BY <4>1 DEF whole
      <3> QED
        BY <1>4, <1>8, <2>3, <3>1
    <2>5. ASSUME NEW k \in 1 .. a
          PROVE  At(n, k - 1)' = IF k <= l THEN Store!Mine[k] ELSE new[k - l]
      <3>1. PICK x \in Nat : x = k - 1 /\ x < a /\ (x < l <=> k <= l)
        OBVIOUS
      <3>2. CASE k <= l
        BY <1>8, <1>9, <3>1, <3>2
      <3>3. CASE ~(k <= l)
        <4>1. k - l \in 1 .. w /\ e + (x - l) + 1 = e + (k - l)
          BY <1>4, <3>1, <3>3
        <4> QED
          BY <1>9, <2>3, <3>1, <3>3, <4>1
      <3> QED
        BY <3>2, <3>3
    <2>6. FileOf(n)' = [present |-> TRUE, words |-> [k \in 1 .. a |-> At(n, k - 1)']]
      BY <1>2, <1>5 DEF FileOf
    <2>7. [k \in 1 .. a |-> At(n, k - 1)'] = whole
      BY <2>4, <2>5
    <2> QED
      BY <1>8, <2>6, <2>7 DEF Store!File, new
  <1>11. StoreRequest' = Store!NoRequest("idle")
    BY <1>7, NoRequestAtRest
  <1>12. Store!WriteReply
    <2>1. e + w \in Store!NReplace .. Len(StoreRequest.data)
      <3>1. e + w \in e .. c
        BY <1>4
      <3>2. Store!NReplace = e /\ Len(StoreRequest.data) = c
        BY <1>3, <1>8
      <3> QED
        BY <3>1, <3>2
    <2>2. StoreFiles' = [StoreFiles EXCEPT ![StoreRequest.n] = Store!File(
            Store!Mine \o SubSeq(StoreRequest.data, Store!NReplace + 1, e + w))]
      BY <1>2, <1>8, <1>10
    <2>3. Store!Replies("ok", e + w, <<>>) /\ Store!Ends("idle")
      BY <1>7, <1>11 DEF Store!Replies, Store!Ends, Ok
    <2> QED
      BY <1>8, <2>1, <2>2, <2>3 DEF Store!WriteReply
  <1>13. WordsTracked'
    BY <1>7, WordsAtRest DEF NoCall
  <1> QED
    BY <1>12, <1>13 DEF Kept, Store!StoreNext

LEMMA WritebackKept ==
  ASSUME Promised, Tracked', Writeback
  PROVE  Kept
  <1>1. call.op \in {"write", "rename", "remove", "format"}
    BY WritebackFacts DEF Promised
  <1> QED
    BY <1>1, WritebackWriteKept, WritebackRenameKept, WritebackRemoveKept,
       WritebackFormatKept


-----------------------------------------------------------------------------
LEMMA StepKept ==
  ASSUME Promised, Tracked', Next, Careful
  PROVE  Kept
  <1>1. ASSUME NEW n \in InodeNs,
               RemoveCall(n) \/ \E op \in {"length", "name"} : LookupCall(op, n)
        PROVE  Kept
    BY <1>1, LookupCallKept, RemoveCallKept
  <1>2. ASSUME NEW n \in InodeNs, NEW offset \in Offsets, NEW length \in ReadLengths,
               ReadCall(n, offset, length)
        PROVE  Kept
    <2>1. offset \in Nat /\ length \in Nat /\ ReadHasBlock
      BY InputAssumption DEF Careful
    <2> QED
      BY <1>2, <2>1, ReadCallKept
  <1>3. ASSUME NEW n \in InodeNs, NEW offset \in Offsets, NEW data \in Payloads,
               WriteCall(n, offset, data)
        PROVE  Kept
    <2>1. offset \in Nat /\ data \in Seq(Words) /\ EditStaysInside
      BY InputAssumption DEF Careful
    <2> QED
      BY <1>3, <2>1, WriteCallKept
  <1>4. ASSUME NEW long_name \in BOOLEAN, CreateFile(long_name) PROVE Kept
    BY <1>4, CreateFileKept
  <1>5. ASSUME NEW long_name \in BOOLEAN, NEW n \in InodeNs, RenameCall(n, long_name)
        PROVE  Kept
    BY <1>5, RenameCallKept
  <1>6. CASE MountCall \/ FormatCall
    BY <1>6, MountCallKept, FormatCallKept
  <1>7. CASE InodeStep
    <2>1. ~LoadIndirect /\ ~FillIndirect /\ ~ExtendChain /\ ~StoreIndirect
      BY DEF Promised, Tracked, DirectInv, StepsOfCalls, LoadIndirect, FillIndirect,
             ExtendChain, StoreIndirect
    <2> QED
      BY <1>7, <2>1, CommitDirectKept DEF InodeStep
  <1>8. CASE Writeback
    BY <1>8, WritebackKept
  <1>9. CASE LookupReturn \/ ReadBlocks
    BY <1>9, LookupReturnKept, ReadBlocksKept
  <1>10. CASE EditFirst \/ EditRest \/ WriteTail \/ StoreBlocks
    BY <1>10, EditFirstKept, EditRestKept, WriteTailKept, StoreBlocksKept
  <1>11. CASE Unlink \/ MarkLoad \/ Mark \/ MarkIndirect
    BY <1>11, UnlinkKept, MarkLoadKept, MarkKept, MarkIndirectKept
  <1>12. CASE Scan \/ ScanCheck \/ Format \/ FormatReset
    BY <1>12, ScanKept, ScanCheckKept, FormatKept, FormatResetKept
  <1>13. CASE Crash
    BY <1>13, CrashKept
  <1> QED
    BY <1>1, <1>2, <1>3, <1>4, <1>5, <1>6, <1>7, <1>8, <1>9, <1>10, <1>11, <1>12,
       <1>13 DEF Next, Invoke, FileCall, Step

LEMMA NextKept == Promised /\ [Next /\ Careful /\ DirectOnly]_vars => Promised' /\ Kept
  <1> SUFFICES ASSUME Promised, [Next /\ Careful /\ DirectOnly]_vars
               PROVE  Promised' /\ Kept
    OBVIOUS
  <1>1. Tracked'
    BY NextTracked DEF Promised
  <1>2. CASE Next /\ Careful /\ DirectOnly
    BY <1>1, <1>2, StepKept DEF Promised, Kept
  <1>3. CASE UNCHANGED vars
    <2>1. /\ UNCHANGED <<inodes, blocks, inode, inode_buf, ptrs_to_allocate>>
          /\ UNCHANGED <<pc, call, result>>
      BY <1>3 DEF vars, image, object
    <2>2. StoreFiles' = StoreFiles /\ StoreRequest' = StoreRequest
      BY <1>1, <2>1, ImageStays DEF Promised, image, StoreRequest
    <2>3. \A k : FileWord(k)' = FileWord(k)
      BY <2>1 DEF FileWord, FileBlock, NBlocks
    <2>4. EditedWords' /\ AppendedWords'
      BY <2>1, <2>3
      DEF Promised, WordsTracked, EditedWords, EditAligned, AppendedWords, EditFrom,
          EditLen, NBlocks
    <2>5. RepliesPending' /\ LookupsInside' /\ FormattedSoFar'
      BY <2>1
      DEF Promised, WordsTracked, RepliesPending, LookupsInside, FormattedSoFar, EditFrom,
          EditLen, NBlocks, UsedInodes
    <2> QED
      BY <1>1, <2>1, <2>2, <2>4, <2>5 DEF Promised, Kept, WordsTracked
  <1> QED
    BY <1>2, <1>3

LEMMA InitKept == Init => Promised /\ Store!StoreInit
  <1> SUFFICES ASSUME Init PROVE Promised /\ Store!StoreInit
    OBVIOUS
  <1>1. Tracked
    BY InitTracked
  <1>2. pc = "off" /\ call = NoCall /\ result = Pending
        /\ \A n \in InodeNs : inodes[n] = ZeroInode
    BY DEF Init
  <1>3. WordsTracked
    BY <1>2
    DEF WordsTracked, RepliesPending, LookupsInside, EditedWords, EditAligned,
        AppendedWords, FormattedSoFar, NoCall
  <1>4. StoreFiles = [n \in InodeNs |-> Store!Absent]
    <2>1. UsedInodes = {}
      BY <1>2 DEF UsedInodes, ZeroInode
    <2>2. \A n \in InodeNs : (n \in UsedInodes) = FALSE
      BY <2>1
    <2>3. StoreFiles = [n \in InodeNs |-> [present |-> FALSE, words |-> <<>>]]
      BY <2>2 DEF StoreFiles
    <2> QED
      BY <2>3 DEF Store!Absent
  <1>5. StoreRequest = Store!NoRequest("off")
    BY <1>2, NoRequestAtRest
  <1> QED
    BY <1>1, <1>2, <1>3, <1>4, <1>5 DEF Promised, Store!StoreInit, Pending

LEMMA SpecPromised == DirectSpec => []Promised
  BY InitKept, NextKept, PTL DEF DirectSpec

(* Theorem: at every step of a write the words edited and appended so far  *)
(* are where the file is to have them, no pointer that is still to be      *)
(* looked up will throw, and a format has freed the inodes it has passed.  *)
THEOREM DirectWordsTracked == DirectSpec => []WordsTracked
  <1>1. Promised => WordsTracked
    BY DEF Promised
  <1> QED
    BY <1>1, SpecPromised, PTL

(* Theorem: with files on direct pointers, and for callers that keep to    *)
(* Careful, the file system is a FileStore: whatever the files and their   *)
(* words, through crashes and mounts, a write replaces and appends the     *)
(* words it was given in its own file, or as many as there was room for,   *)
(* a read returns what the file holds, and no call changes another file.   *)
THEOREM DirectFilesImplementStore == DirectSpec => ImplementsStore
  <1>1. Init => Store!StoreInit
    BY InitKept
  <1>2. Promised /\ [Next /\ Careful /\ DirectOnly]_vars =>
          [Store!StoreNext]_<<StoreRequest, result, StoreFiles>>
    BY NextKept DEF Kept
  <1>3. DirectSpec =>
          Store!StoreInit /\ [][Store!StoreNext]_<<StoreRequest, result, StoreFiles>>
    BY <1>1, <1>2, SpecPromised, PTL DEF DirectSpec
  <1> QED
    BY <1>3 DEF ImplementsStore, Store!StoreSpec, Store!storeVars
=============================================================================
