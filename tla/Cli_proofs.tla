----------------------------- MODULE Cli_proofs ------------------------------
(***************************************************************************)
(* Theorems about the commands.  Each call that an event makes is one that *)
(* the discipline of the file system allows, so that every step of it is   *)
(* one of FileStore; what a command has done and reports is then told from *)
(* the requests of FileStore it has made and the replies it has got.       *)
(***************************************************************************)
EXTENDS Commands, Store_proofs, FiniteSetTheorems

-----------------------------------------------------------------------------
(* A call runs exactly when pc is at a step of one.                        *)
LEMMA CallRuns ==
  ASSUME Tracked
  PROVE  call.op = "none" <=> pc \in {"off", "idle"}
  <1>1. pc \in {"off", "idle"} => call.op = "none"
    BY DEF Tracked, Inv, NothingPending, NoCall
  <1>2. pc \notin {"off", "idle"} => call.op # "none"
    BY DEF Tracked, Inv, TypeOK, Labels, DirectInv, StepsOfCalls
  <1> QED
    BY <1>1, <1>2

RunsOrRests == call.op = "none" <=> pc \in {"off", "idle"}

LEMMA CallRunsNext == Tracked' => RunsOrRests'
  <1>1. Tracked => RunsOrRests
    BY Zenon, CallRuns DEF RunsOrRests
  <1> QED
    BY <1>1, PTL

LEMMA StepRuns ==
  ASSUME Step
  PROVE  pc \notin {"off", "idle"}
  BY DEF Step, InodeStep, LoadIndirect, CommitDirect, FillIndirect, ExtendChain,
         StoreIndirect, Writeback, LookupReturn, ReadBlocks, EditFirst, EditRest,
         WriteTail, StoreBlocks, Unlink, MarkLoad, Mark, MarkIndirect, Scan, ScanCheck,
         Format, FormatReset

LEMMA StepPromised ==
  ASSUME Promised, Step
  PROVE  Promised' /\ Kept
  <1>1. call.op # "none"
    BY StepRuns, CallRuns DEF Promised
  <1>2. Next /\ Careful /\ DirectOnly
    BY <1>1
    DEF Next, Careful, DirectOnly, EditStaysInside, AppendFillsTail, ReadHasBlock, Starts
  <1> QED
    BY <1>2, NextKept

(* A step of a call ends the process only after a mount has failed or when *)
(* a format is done, and neither looks as if there had been no call.       *)
LEMMA StepNoCrash ==
  ASSUME Tracked, Step, pc' = "off"
  PROVE  result' # Pending
  <1>1. CASE InodeStep
    <2>1. ~LoadIndirect /\ ~FillIndirect /\ ~ExtendChain /\ ~StoreIndirect
      BY DEF Tracked, DirectInv, StepsOfCalls, LoadIndirect, FillIndirect, ExtendChain,
             StoreIndirect
    <2>2. ~CommitDirect
      BY DEF CommitDirect
    <2> QED
      BY <1>1, <2>1, <2>2 DEF InodeStep
  <1>2. CASE Writeback
    BY <1>2 DEF Writeback, AfterCommit, Return, Throw, Threw, Pending
  <1>3. CASE LookupReturn \/ ReadBlocks
    BY <1>3 DEF LookupReturn, ReadBlocks, Return, Throw, Threw, Pending
  <1>4. CASE EditFirst \/ EditRest \/ WriteTail \/ StoreBlocks
    BY <1>4 DEF EditFirst, EditRest, WriteTail, StoreBlocks, Return, Throw, Threw, Pending
  <1>5. CASE Unlink \/ MarkLoad
    BY <1>5 DEF Unlink, MarkLoad, LoadInode
  <1>6. CASE Mark \/ MarkIndirect
    BY <1>6 DEF Mark, MarkIndirect, Return, Throw, Threw, Pending
  <1>7. CASE Scan \/ ScanCheck \/ Format \/ FormatReset
    BY <1>7 DEF Scan, ScanCheck, Format, FormatReset, LoadInode, Return, Pending, Ok
  <1> QED
    BY <1>1, <1>2, <1>3, <1>4, <1>5, <1>6, <1>7 DEF Step

(* What FileStore may do for a request: go on, change its files, or reply. *)
StoreStutters == UNCHANGED <<StoreRequest, result, StoreFiles>>

LEMMA StepServes ==
  ASSUME Promised, Step
  PROVE  /\ Promised' /\ call.op # "none" /\ StoreRequest.op = call.op
         /\ \/ StoreStutters
            \/ call.op = "write" /\ (Store!ReplaceSome \/ Store!WriteReply \/ Store!RefuseOffset)
            \/ call.op = "read" /\ (Store!ReadReply \/ Store!RefuseOffset)
            \/ call.op = "length" /\ Store!LengthReply
            \/ call.op \in {"rename", "name"} /\ Store!RenameReply
            \/ call.op = "remove" /\ (Store!Unlink \/ Store!RemoveReply)
            \/ call.op = "format" /\ (Store!FormatOne \/ Store!FormatReply)
            \/ call.op = "mount" /\ Store!MountReply
  <1>1. Promised' /\ Kept /\ call.op # "none" /\ StoreRequest.op = call.op
    BY StepPromised, StepRuns, CallRuns, RunningRequest DEF Promised
  <1>2. call.op \notin {"idle", "off"}
    BY DEF Promised, Tracked, Inv, TypeOK, Call, Ops
  <1>3. ~Store!Stop
    <2>1. SUFFICES ASSUME Store!Stop PROVE FALSE
      OBVIOUS
    <2>2. StoreRequest'.op = "off" /\ result' = Pending
      BY <2>1 DEF Store!Stop, Store!Ends, Store!NoRequest, Store!Replies, Pending
    <2>3. call'.op = "none" /\ pc' = "off"
      BY <1>1, <2>2 DEF StoreRequest, Promised, Tracked, Inv, TypeOK, Call, Ops
    <2> QED
      BY <2>2, <2>3, StepNoCrash DEF Promised
  <1>4. StoreStutters \/ Store!StoreNext
    BY <1>1 DEF Kept, StoreStutters
  <1> QED
    BY <1>1, <1>2, <1>3, <1>4
    DEF Store!StoreNext, Store!Ask, Store!AnswerAtOnce, Store!Create, Store!ReplaceSome,
        Store!WriteReply, Store!RefuseOffset, Store!ReadReply, Store!LengthReply,
        Store!RenameReply, Store!Unlink, Store!RemoveReply, Store!FormatOne,
        Store!FormatReply, Store!MountReply


-----------------------------------------------------------------------------
(* What the files of FileStore are in terms of the image.                  *)
FilesAre ==
  \A n \in InodeNs :
    /\ StoreFiles[n].present <=> n \in UsedInodes
    /\ n \in UsedInodes =>
         /\ StoreFiles[n].words = FileWords(n) /\ FileWords(n) \in Seq(Words)
         /\ inodes[n].file_len \in Nat /\ Len(FileWords(n)) = inodes[n].file_len

LEMMA FilesAreWords == Tracked => FilesAre
  <1> SUFFICES ASSUME Tracked, NEW n \in InodeNs
               PROVE  /\ StoreFiles[n].present <=> n \in UsedInodes
                      /\ n \in UsedInodes =>
                           /\ StoreFiles[n].words = FileWords(n)
                           /\ FileWords(n) \in Seq(Words)
                           /\ inodes[n].file_len \in Nat
                           /\ Len(FileWords(n)) = inodes[n].file_len
    BY DEF FilesAre
  <1>1. StoreFiles[n] = [present |-> n \in UsedInodes,
                         words   |-> IF n \in UsedInodes THEN FileWords(n) ELSE <<>>]
    BY DEF StoreFiles
  <1>2. StoreFiles[n].present <=> n \in UsedInodes
    <2>1. CASE n \in UsedInodes
      <3>1. StoreFiles[n] = [present |-> TRUE, words |-> FileWords(n)]
        BY <1>1, <2>1
      <3> QED
        BY <2>1, <3>1
    <2>2. CASE n \notin UsedInodes
      <3>1. (n \in UsedInodes) = FALSE
        BY <2>2
      <3>2. StoreFiles[n] = [present |-> FALSE, words |-> <<>>]
        BY <1>1, <2>2, <3>1
      <3> QED
        BY <2>2, <3>2
    <2> QED
      BY <2>1, <2>2
  <1>3. ASSUME n \in UsedInodes
        PROVE  /\ StoreFiles[n].words = FileWords(n) /\ FileWords(n) \in Seq(Words)
               /\ inodes[n].file_len \in Nat /\ Len(FileWords(n)) = inodes[n].file_len
    <2>1. inodes[n].file_len \in Nat
      BY DEF Tracked, Inv, TypeOK, InodeBlock
    <2>2. StoreFiles[n].words = FileWords(n)
      BY <1>1, <1>3
    <2>3. TheWords
      BY TheWordsHold
    <2>4. StoreFiles[n] = FileOf(n)
      BY <2>3 DEF TheWords
    <2>5. FileWords(n) = [k \in 1 .. inodes[n].file_len |-> At(n, k - 1)]
      BY <1>3, <2>2, <2>4 DEF FileOf
    <2>6. PICK l \in Nat : l = inodes[n].file_len
      BY <2>1
    <2>7. \A k \in 1 .. l : At(n, k - 1) \in Words
      BY <1>3, <2>6, WordInside
    <2>8. FileWords(n) = [k \in 1 .. l |-> At(n, k - 1)]
      BY <2>5, <2>6
    <2>9. FileWords(n) \in Seq(Words) /\ Len(FileWords(n)) = l
      <3> DEFINE w == [k \in 1 .. l |-> At(n, k - 1)]
      <3>1. w \in Seq(Words) /\ Len(w) = l
        BY <2>7
      <3> QED
        BY <3>1, <2>8
    <2> QED
      BY <2>1, <2>2, <2>6, <2>9
  <1> QED
    BY <1>2, <1>3

LEMMA FilesAreNext == Tracked' => FilesAre'
  BY FilesAreWords, PTL

(* The files stay, in these terms.                                         *)
SameFiles ==
  /\ UsedInodes' = UsedInodes
  /\ \A n \in UsedInodes : /\ FileWords(n)' = FileWords(n)
                           /\ inodes'[n].file_len = inodes[n].file_len

LEMMA FilesSame ==
  ASSUME Tracked, Tracked', StoreFiles' = StoreFiles
  PROVE  SameFiles
  <1>1. FilesAre /\ FilesAre'
    BY FilesAreWords, FilesAreNext
  <1>2. UsedInodes \subseteq InodeNs /\ UsedInodes' \subseteq InodeNs
    BY DEF UsedInodes
  <1>3. UsedInodes' = UsedInodes
    BY <1>1, <1>2 DEF FilesAre
  <1>4. ASSUME NEW n \in UsedInodes
        PROVE  /\ FileWords(n)' = FileWords(n)
               /\ inodes'[n].file_len = inodes[n].file_len
    BY <1>1, <1>2, <1>3, <1>4 DEF FilesAre
  <1> QED
    BY <1>3, <1>4 DEF SameFiles

LEMMA ImageSame ==
  ASSUME Tracked, Tracked', UNCHANGED image
  PROVE  SameFiles
  BY ImageStays, FilesSame


-----------------------------------------------------------------------------
(* What a step does for its call: the call runs on, or it has ended.       *)
RunsOn ==
  /\ call'.op = call.op /\ call'.offset = call.offset
  /\ call'.length = call.length /\ call'.data = call.data
  /\ call.op \notin {"mount", "format"} => call'.inode_n = call.inode_n
  /\ result' = result

HasEnded ==
  /\ call'.op = "none" /\ pc' = IF call.op = "format" THEN "off" ELSE "idle"
  /\ result'.how \in {"ok", "refused"}

LEMMA RequestSame ==
  ASSUME Promised, Promised', call.op # "none", StoreRequest' = StoreRequest,
         result' = result
  PROVE  RunsOn
  <1>1. call.op \in Ops /\ call'.op \in Ops
    BY DEF Promised, Tracked, Inv, TypeOK, Call
  <1>2. /\ StoreRequest.op = call.op /\ StoreRequest.offset = call.offset
        /\ StoreRequest.length = call.length /\ StoreRequest.data = call.data
        /\ call.op \notin {"mount", "format"} => StoreRequest.n = call.inode_n
    BY RunningRequest
  <1>3. /\ StoreRequest'.op = IF call'.op = "none" THEN pc' ELSE call'.op
        /\ StoreRequest'.n = IF call'.op \in {"mount", "format"} THEN 0
                             ELSE call'.inode_n
        /\ StoreRequest'.offset = call'.offset
        /\ StoreRequest'.length = call'.length /\ StoreRequest'.data = call'.data
    BY DEF StoreRequest
  <1>4. call'.op = call.op
    <2>1. SUFFICES ASSUME call'.op = "none" PROVE FALSE
      BY <1>2, <1>3
    <2>2. pc' \in {"off", "idle"}
      BY <2>1, CallRunsNext DEF Promised, RunsOrRests
    <2> QED
      BY <1>1, <1>2, <1>3, <2>1, <2>2 DEF Ops
  <1> QED
    BY <1>2, <1>3, <1>4 DEF RunsOn

LEMMA RequestEnds ==
  ASSUME Promised', NEW s \in {"idle", "off"}, StoreRequest' = Store!NoRequest(s)
  PROVE  call'.op = "none" /\ pc' = s
  <1>1. call'.op \in Ops
    BY DEF Promised, Tracked, Inv, TypeOK, Call
  <1>2. StoreRequest'.op = IF call'.op = "none" THEN pc' ELSE call'.op
    BY DEF StoreRequest
  <1>3. StoreRequest'.op = s
    BY DEF Store!NoRequest
  <1> QED
    BY <1>1, <1>2, <1>3 DEF Ops

LEMMA StepGoesOn ==
  ASSUME Promised, Step
  PROVE  Promised' /\ call.op # "none" /\ (RunsOn \/ HasEnded)
  <1>1. Promised' /\ call.op # "none" /\ StoreRequest.op = call.op
    BY StepServes
  <1>2. call.op \notin {"idle", "off"}
    BY DEF Promised, Tracked, Inv, TypeOK, Call, Ops
  <1>3. CASE StoreRequest' = StoreRequest /\ result' = result
    BY <1>1, <1>3, RequestSame
  <1>4. CASE StoreRequest' = Store!NoRequest("idle") /\ call.op # "format"
             /\ result'.how \in {"ok", "refused"}
    <2>1. call'.op = "none" /\ pc' = "idle"
      BY <1>1, <1>4, RequestEnds
    <2> QED
      BY <1>1, <1>4, <2>1 DEF HasEnded
  <1>5. CASE StoreRequest' = Store!NoRequest("off") /\ call.op = "format"
             /\ result'.how \in {"ok", "refused"}
    <2>1. call'.op = "none" /\ pc' = "off"
      BY <1>1, <1>5, RequestEnds
    <2> QED
      BY <1>1, <1>5, <2>1 DEF HasEnded
  <1>6. CASE StoreStutters \/ Store!ReplaceSome \/ Store!Unlink \/ Store!FormatOne
    BY <1>3, <1>6 DEF StoreStutters, Store!ReplaceSome, Store!Unlink, Store!FormatOne
  <1>7. CASE Store!WriteReply \/ Store!RefuseOffset \/ Store!ReadReply
             \/ Store!LengthReply \/ Store!RenameReply \/ Store!RemoveReply
             \/ Store!MountReply
    <2>1. StoreRequest' = Store!NoRequest("idle") /\ result'.how \in {"ok", "refused"}
      BY <1>7 DEF Store!WriteReply, Store!RefuseOffset, Store!ReadReply, Store!LengthReply,
                  Store!RenameReply, Store!RemoveReply, Store!MountReply, Store!Ends,
                  Store!Replies
    <2>2. call.op # "format"
      BY <1>1, <1>7
      DEF Store!WriteReply, Store!RefuseOffset, Store!ReadReply, Store!LengthReply,
          Store!RenameReply, Store!RemoveReply, Store!MountReply
    <2> QED
      BY <1>4, <2>1, <2>2
  <1>8. CASE Store!FormatReply
    BY <1>1, <1>5, <1>8 DEF Store!FormatReply, Store!Ends, Store!Replies
  <1> QED
    BY <1>6, <1>7, <1>8, StepServes


(* The call's file, while it is not being removed.                         *)
LEMMA FileOfCall ==
  ASSUME Promised, call.op \in {"length", "name", "read", "write", "rename"}
  PROVE  /\ call.inode_n \in UsedInodes /\ call.inode_n \in InodeNs
         /\ StoreRequest.n = call.inode_n /\ Store!Mine = FileWords(call.inode_n)
         /\ FileWords(call.inode_n) \in Seq(Words)
         /\ inodes[call.inode_n].file_len \in Nat
         /\ Len(FileWords(call.inode_n)) = inodes[call.inode_n].file_len
  <1>1. ~Releasing
    BY DEF Releasing
  <1>2. /\ call.inode_n \in UsedInodes /\ call.inode_n \in InodeNs
        /\ StoreRequest.n = call.inode_n
    BY <1>1, CallsFile DEF Promised
  <1>3. FilesAre
    BY FilesAreWords DEF Promised
  <1> QED
    BY <1>2, <1>3 DEF FilesAre, Store!Mine

(* Calls that leave the files as they are.                                 *)
LEMMA ReadersKeepFiles ==
  ASSUME Promised, Step, call.op \in {"mount", "length", "name", "read", "rename"}
  PROVE  SameFiles
  <1>1. StoreFiles' = StoreFiles
    BY StepServes DEF StoreStutters, Store!ReadReply, Store!RefuseOffset, Store!LengthReply,
                      Store!RenameReply, Store!MountReply
  <1> QED
    BY <1>1, StepServes, FilesSame DEF Promised

LengthTold ==
  result'.how = "ok" /\ result'.n = inodes[call.inode_n].file_len

LEMMA LengthEnds ==
  ASSUME Promised, Step, call.op = "length", HasEnded
  PROVE  LengthTold
  <1>1. Store!LengthReply
    <2>1. ~StoreStutters
      <3>1. StoreRequest.op = "length" /\ Promised'
        BY StepServes
      <3>2. call'.op = "none" /\ pc' = "idle"
        BY DEF HasEnded
      <3>3. StoreRequest'.op = "idle"
        BY <3>2 DEF StoreRequest
      <3> QED
        BY <3>1, <3>3 DEF StoreStutters
    <2> QED
      BY <2>1, StepServes
  <1>2. result' = [how |-> "ok", n |-> Len(Store!Mine), data |-> <<>>]
    BY <1>1 DEF Store!LengthReply, Store!Replies
  <1> QED
    BY <1>2, FileOfCall DEF LengthTold

(* A read within its file ends with the words it asked for.                *)
WordsTold ==
  call.offset + call.length <= inodes[call.inode_n].file_len =>
    /\ result'.how = "ok"
    /\ result'.data = SubSeq(FileWords(call.inode_n), call.offset + 1,
                             call.offset + call.length)

LEMMA ReadEnds ==
  ASSUME Promised, Step, call.op = "read", HasEnded
  PROVE  WordsTold
  <1> DEFINE w == FileWords(call.inode_n)
  <1>1. StoreRequest.op = "read" /\ StoreRequest.offset = call.offset
        /\ StoreRequest.length = call.length
    BY RunningRequest
  <1>2. Store!ReadReply \/ Store!RefuseOffset
    <2>1. ~StoreStutters
      <3>1. StoreRequest'.op = "idle"
        BY DEF StoreRequest, HasEnded
      <3> QED
        BY <1>1, <3>1 DEF StoreStutters
    <2> QED
      BY <2>1, StepServes
  <1>3. Store!Mine = w /\ Len(w) = inodes[call.inode_n].file_len
    BY FileOfCall
  <1>4. PICK o \in Nat, l \in Nat, z \in Nat :
          o = call.offset /\ l = call.length /\ z = inodes[call.inode_n].file_len
    BY FileOfCall DEF Promised, Tracked, Inv, TypeOK, Call
  <1> HIDE DEF w
  <1>5. ASSUME o + l <= z
        PROVE  result'.how = "ok" /\ result'.data = SubSeq(w, o + 1, o + l)
    <2>1. ~(o > z)
      BY <1>5
    <2>2. Store!ReadReply
      BY <1>1, <1>2, <1>3, <1>4, <2>1 DEF Store!RefuseOffset
    <2> QED
      BY <1>1, <1>3, <1>4, <1>5, <2>2 DEF Store!ReadReply, Store!Replies
  <1> QED
    BY <1>4, <1>5 DEF WordsTold, w

LEMMA RemoveEnds ==
  ASSUME Promised, Step, call.op = "remove", HasEnded
  PROVE  call.inode_n \notin UsedInodes'
  <1>1. StoreRequest.op = "remove" /\ StoreRequest.n = call.inode_n /\ Promised'
    BY RunningRequest, StepServes
  <1>2. Store!RemoveReply
    <2>1. StoreRequest'.op = "idle"
      BY DEF StoreRequest, HasEnded
    <2>2. ~StoreStutters /\ ~Store!Unlink
      BY <1>1, <2>1 DEF StoreStutters, Store!Unlink
    <2> QED
      BY <2>2, StepServes
  <1>3. ~StoreFiles'[call.inode_n].present
    BY <1>1, <1>2 DEF Store!RemoveReply
  <1>4. FilesAre'
    BY <1>1, FilesAreNext DEF Promised
  <1>5. call.inode_n \in InodeNs => call.inode_n \notin UsedInodes'
    BY <1>3, <1>4 DEF FilesAre
  <1> QED
    BY <1>5 DEF UsedInodes

(* A write at the end of its file ends with a first part of its data       *)
(* appended.                                                               *)
Appended(n) ==
  /\ result'.how = "ok" /\ result'.n \in 0 .. Len(call.data)
  /\ UsedInodes' = UsedInodes /\ n \in UsedInodes
  /\ FileWords(n)' = FileWords(n) \o SubSeq(call.data, 1, result'.n)
  /\ inodes'[n].file_len = inodes[n].file_len + result'.n

LEMMA AppendRunsOrEnds ==
  ASSUME Promised, Step, call.op = "write", call.offset = 0, NEW n, n = call.inode_n
  PROVE  /\ RunsOn => SameFiles
         /\ HasEnded => Appended(n)
  <1>1. /\ StoreRequest.op = "write" /\ StoreRequest.offset = 0
        /\ StoreRequest.data = call.data
        /\ StoreRequest.n = n /\ Store!Mine = FileWords(n)
        /\ FileWords(n) \in Seq(Words) /\ Len(FileWords(n)) = inodes[n].file_len
        /\ n \in UsedInodes /\ n \in InodeNs
    BY RunningRequest, FileOfCall
  <1>2. call.data \in Seq(Words)
    BY DEF Promised, Tracked, Inv, TypeOK, Call
  <1>3. Len(Store!Mine) \in Nat /\ Len(call.data) \in Nat
    BY <1>1, <1>2
  <1>4. Store!NReplace = 0
    BY <1>1, <1>3 DEF Store!NReplace
  <1>5. ~Store!ReplaceSome
    BY <1>4 DEF Store!ReplaceSome
  <1>6. ~Store!RefuseOffset
    BY <1>1, <1>3 DEF Store!RefuseOffset
  <1>7. StoreStutters \/ Store!WriteReply
    BY <1>5, <1>6, StepServes
  <1>8. Promised'
    BY StepServes
  <1>9. ASSUME RunsOn PROVE SameFiles
    <2>1. ~Store!WriteReply
      <3>1. StoreRequest'.op = "write"
        BY <1>9 DEF StoreRequest, RunsOn
      <3> QED
        BY <3>1 DEF Store!WriteReply, Store!Ends, Store!NoRequest
    <2> QED
      BY <1>7, <1>8, <2>1, FilesSame DEF StoreStutters, Promised
  <1>10. ASSUME HasEnded PROVE Appended(n)
    <2>1. Store!WriteReply
      <3>1. StoreRequest'.op = "idle"
        BY <1>10 DEF StoreRequest, HasEnded
      <3> QED
        BY <1>1, <1>7, <3>1 DEF StoreStutters
    <2>2. PICK k \in 0 .. Len(call.data) :
            /\ StoreFiles' = [StoreFiles EXCEPT ![n] =
                                Store!File(FileWords(n) \o SubSeq(call.data, 1, k))]
            /\ result' = [how |-> "ok", n |-> k, data |-> <<>>]
      <3>1. PICK k \in 0 .. Len(call.data) :
              /\ StoreFiles' = [StoreFiles EXCEPT ![StoreRequest.n] =
                     Store!File(Store!Mine \o SubSeq(StoreRequest.data, 0 + 1, k))]
              /\ Store!Replies("ok", k, <<>>)
        BY <1>1, <1>4, <2>1 DEF Store!WriteReply
      <3>2. result' = [how |-> "ok", n |-> k, data |-> <<>>]
        BY <3>1 DEF Store!Replies
      <3>3. SubSeq(call.data, 0 + 1, k) = SubSeq(call.data, 1, k)
        OBVIOUS
      <3>4. StoreFiles' = [StoreFiles EXCEPT ![n] =
                             Store!File(FileWords(n) \o SubSeq(call.data, 1, k))]
        BY <1>1, <3>1, <3>3
      <3> QED
        BY <3>2, <3>4
    <2> DEFINE w == FileWords(n) \o SubSeq(call.data, 1, k)
    <2>3. result'.how = "ok" /\ result'.n = k
      BY <2>2
    <2>4. StoreFiles'[n] = Store!File(w) /\ \A m \in InodeNs : m # n =>
            StoreFiles'[m] = StoreFiles[m]
      BY <1>1, <2>2 DEF StoreFiles
    <2>5. StoreFiles'[n].present /\ StoreFiles'[n].words = w
      BY <2>4 DEF Store!File
    <2>6. FilesAre /\ FilesAre'
      BY <1>8, FilesAreWords, FilesAreNext DEF Promised
    <2>7. UsedInodes \subseteq InodeNs /\ UsedInodes' \subseteq InodeNs
      BY DEF UsedInodes
    <2>8. UsedInodes' = UsedInodes
      BY <1>1, <2>4, <2>5, <2>6, <2>7 DEF FilesAre
    <2>10. FileWords(n)' = w /\ inodes'[n].file_len = Len(w)
      BY <1>1, <2>5, <2>6, <2>8 DEF FilesAre
    <2>11. Len(w) = inodes[n].file_len + k
      <3>1. SubSeq(call.data, 1, k) \in Seq(Words) /\ Len(SubSeq(call.data, 1, k)) = k
        BY <1>2
      <3> QED
        BY <1>1, <3>1
    <2> QED
      BY <1>1, <2>2, <2>3, <2>8, <2>10, <2>11 DEF Appended
  <1> QED
    BY <1>9, <1>10


-----------------------------------------------------------------------------
LEMMA NeverThrows ==
  ASSUME Promised, Step
  PROVE  ~Throw
  <1>1. SUFFICES ASSUME Throw PROVE FALSE
    OBVIOUS
  <1>2. call'.op = "none" /\ result'.how = "threw"
    BY <1>1 DEF Throw, NoCall, Threw
  <1> QED
    BY <1>2, StepGoesOn DEF RunsOn, HasEnded

(* Outside of a call, and where a format stands between two inodes, the    *)
(* object is empty.                                                        *)
LEMMA UnloadedStays ==
  ASSUME Promised, Step, pc = "format" => loaded_inode_n = Null,
         pc' \in {"off", "format"}
  PROVE  loaded_inode_n' = Null
  <1>1. ~Throw
    BY NeverThrows
  <1>2. CASE InodeStep
    <2>1. ~LoadIndirect /\ ~FillIndirect /\ ~ExtendChain /\ ~StoreIndirect
      BY DEF Promised, Tracked, DirectInv, StepsOfCalls, LoadIndirect, FillIndirect,
             ExtendChain, StoreIndirect
    <2>2. ~CommitDirect
      BY DEF CommitDirect
    <2> QED
      BY <1>2, <2>1, <2>2 DEF InodeStep
  <1>3. CASE Writeback
    BY <1>3 DEF Writeback, Clear
  <1>4. CASE LookupReturn \/ ReadBlocks
    BY <1>1, <1>4 DEF LookupReturn, ReadBlocks, Return
  <1>5. CASE EditFirst \/ EditRest \/ WriteTail \/ StoreBlocks
    BY <1>1, <1>5 DEF EditFirst, EditRest, WriteTail, StoreBlocks, Return
  <1>6. CASE Unlink \/ MarkLoad
    BY <1>6 DEF Unlink, MarkLoad, LoadInode
  <1>7. CASE Mark \/ MarkIndirect
    BY <1>1, <1>7 DEF Mark, MarkIndirect, Return
  <1>8. CASE Scan \/ ScanCheck \/ FormatReset
    BY <1>8 DEF Scan, ScanCheck, FormatReset, LoadInode, Return
  <1>9. CASE Format
    BY <1>9 DEF Format, LoadInode, object
  <1> QED
    BY <1>2, <1>3, <1>4, <1>5, <1>6, <1>7, <1>8, <1>9 DEF Step

LEMMA ReadersKeepImage ==
  ASSUME Promised, Step, call.op \in {"mount", "length", "name", "read"}
  PROVE  UNCHANGED image
  <1>1. CASE InodeStep
    <2>1. ~LoadIndirect /\ ~FillIndirect /\ ~ExtendChain /\ ~StoreIndirect
      BY DEF Promised, Tracked, DirectInv, StepsOfCalls, LoadIndirect, FillIndirect,
             ExtendChain, StoreIndirect
    <2>2. ~CommitDirect
      BY DEF Promised, Tracked, DirectInv, StepsOfCalls, CommitDirect
    <2> QED
      BY <1>1, <2>1, <2>2 DEF InodeStep
  <1>2. ~Writeback /\ ~EditFirst /\ ~EditRest /\ ~WriteTail /\ ~StoreBlocks
    BY DEF Promised, Tracked, DirectInv, StepsOfCalls, Writeback, EditFirst, EditRest,
           WriteTail, StoreBlocks
  <1>3. CASE LookupReturn \/ ReadBlocks \/ Unlink \/ MarkLoad \/ Mark \/ MarkIndirect
    BY <1>3 DEF LookupReturn, ReadBlocks, Unlink, MarkLoad, LoadInode, Mark, MarkIndirect
  <1>4. CASE Scan \/ ScanCheck \/ Format \/ FormatReset
    BY <1>4 DEF Scan, ScanCheck, Format, FormatReset, LoadInode
  <1> QED
    BY <1>1, <1>2, <1>3, <1>4 DEF Step

-----------------------------------------------------------------------------
(* A write at the end of its file edits nothing, and what it appends ends  *)
(* with its data or with a block.  When no block is free and the last one  *)
(* of the file is full, it appends nothing.                                *)
Appending ==
  /\ call.op = "write" /\ call.offset = 0 /\ call.n_edited = 0 /\ pc # "edit_rest"
  /\ pc \in {"commit", "writeback"} =>
       \/ call.n_written = Len(call.data)
       \/ (inode.file_len + call.n_written) % BlockSize = 0

NoRoom ==
  FreeBlocks = {} /\ inode.file_len % BlockSize = 0 /\ call.n_written = 0

AppendGoesOn == Appending' /\ (NoRoom => NoRoom') /\ inode' = inode

AppendEnds ==
  /\ result' = Ok(call.n_written) /\ FreeBlocks' = FreeBlocks /\ call'.op = "none"
  /\ \/ call.n_written = Len(call.data)
     \/ /\ FreeBlocks = {} /\ call.n_written < Len(call.data)
        /\ (inode.file_len + call.n_written) % BlockSize = 0

LEMMA AppendStarts ==
  ASSUME Promised, Appending, EditFirst
  PROVE  AppendGoesOn
  <1>1. /\ pc' = "tail" /\ call' = call /\ UNCHANGED <<inode, data_bitmap>>
    BY DEF Appending, EditFirst, object, bitmaps
  <1> QED
    BY <1>1 DEF Appending, AppendGoesOn, NoRoom, FreeBlocks

LEMMA AppendTail ==
  ASSUME Promised, Appending, WriteTail
  PROVE  AppendGoesOn
  <1>1. pc = "tail" /\ inode_buf = inode /\ inode.file_len \in Nat /\ call \in Call
    BY WriteNumbers DEF Promised, WriteTail
  <1>2. ~Throw
    BY NeverThrows DEF Step
  <1>3. UNCHANGED <<inode, data_bitmap>> /\ pc' = "store"
    BY <1>2 DEF WriteTail, object, bitmaps
  <1>4. call'.op = call.op /\ call'.offset = call.offset /\ call'.data = call.data
        /\ call'.n_edited = call.n_edited
    BY <1>1, <1>2 DEF WriteTail, Call
  <1>5. Appending'
    BY <1>3, <1>4 DEF Appending
  <1>6. ASSUME NoRoom PROVE NoRoom'
    <2>1. PICK l \in Nat : l = inode.file_len
      BY <1>1
    <2>2. l % BlockSize = 0
      BY <1>6, <2>1 DEF NoRoom
    <2>3. BytesToBlocks(l) * BlockSize - l = 0
      <3>0. /\ l \div BlockSize \in Nat /\ l % BlockSize \in 0 .. BlockSize - 1
            /\ l = (l \div BlockSize) * BlockSize + (l % BlockSize)
        BY SplitWord
      <3>1. PICK q \in Nat, r \in Int : q = l \div BlockSize /\ r = l % BlockSize
                                        /\ l = q * BlockSize + r
        BY <3>0
      <3>2. l = q * BlockSize
        BY <2>2, <3>1, LayoutAssumption
      <3>3. BytesToBlocks(l) = IF l <= 0 THEN 0 ELSE q
        BY <2>2, <3>1 DEF BytesToBlocks
      <3>4. CASE l <= 0
        BY <3>3, <3>4, LayoutAssumption
      <3>5. CASE ~(l <= 0)
        BY <3>2, <3>3, <3>5, LayoutAssumption
      <3> QED
        BY <3>4, <3>5
    <2>4. BytesToBlocks(inode_buf.file_len) * BlockSize - inode_buf.file_len = 0
      BY <1>1, <2>1, <2>3
    <2>5. \E z : call' = [call EXCEPT !.left = z]
      BY <1>2, <2>4 DEF WriteTail
    <2>6. call'.n_written = call.n_written
      BY <1>1, <2>5 DEF Call
    <2> QED
      BY <1>3, <1>6, <2>6 DEF NoRoom, FreeBlocks
  <1> QED
    BY <1>3, <1>5, <1>6 DEF AppendGoesOn

LEMMA AppendStores ==
  ASSUME Promised, Appending, StoreBlocks
  PROVE  AppendGoesOn
  <1>1. pc = "store" /\ call \in Call
    BY DEF Promised, Tracked, Inv, TypeOK, StoreBlocks
  <1>2. NDone = Len(call.data) \/ (inode.file_len + call.n_written) % BlockSize = 0
    BY <1>1 DEF Promised, Tracked, DirectInv, WriteTracks
  <1>3. NDone = call.n_written
    <2>1. PICK w \in Nat : w = call.n_written
      BY <1>1 DEF Call
    <2>2. NDone = 0 + w
      BY <2>1 DEF NDone, Appending
    <2> QED
      BY <2>1, <2>2
  <1>4. UNCHANGED inode
    BY DEF StoreBlocks
  <1>5. CASE /\ StopsAllocating /\ pc' = "commit"
             /\ UNCHANGED <<data_bitmap, call>>
    BY <1>2, <1>3, <1>4, <1>5 DEF AppendGoesOn, Appending, NoRoom, FreeBlocks
  <1>6. CASE \E b \in FreeBlocks : TRUE /\ pc' = "store" /\ \E w, z :
               call' = [call EXCEPT !.n_written = w, !.left = z]
    <2>1. call'.op = call.op /\ call'.offset = call.offset /\ call'.n_edited = call.n_edited
      BY <1>1, <1>6 DEF Call
    <2> QED
      BY <1>4, <1>6, <2>1 DEF AppendGoesOn, Appending, NoRoom
  <1> QED
    BY <1>1, <1>5, <1>6, AllStored DEF StoreBlocks, FreeBlocks

LEMMA AppendCommits ==
  ASSUME Promised, Appending, CommitDirect
  PROVE  AppendGoesOn
  <1>1. /\ pc = "commit" /\ call \in Call /\ UNCHANGED <<inode, data_bitmap>>
        /\ call' = [call EXCEPT !.n_ptrs = Len(ptrs_to_allocate)]
    BY CommitDirectFacts DEF Promised
  <1>2. /\ call'.op = call.op /\ call'.offset = call.offset /\ call'.data = call.data
        /\ call'.n_edited = call.n_edited /\ call'.n_written = call.n_written
    BY <1>1 DEF Call
  <1>3. pc' # "edit_rest"
    BY DEF CommitDirect
  <1> QED
    BY <1>1, <1>2, <1>3 DEF AppendGoesOn, Appending, NoRoom, FreeBlocks

LEMMA AppendWritesBack ==
  ASSUME Promised, Appending, Writeback
  PROVE  AppendEnds
  <1>1. pc = "writeback" /\ call \in Call /\ call.op = "write"
    BY DEF Promised, Tracked, Inv, TypeOK, Writeback, Appending
  <1>2. ~Throw
    BY NeverThrows DEF Step
  <1>3. PICK w \in Nat, d \in Nat : w = call.n_written /\ d = Len(call.data)
    BY <1>1 DEF Call
  <1>4. result' = Ok(call.n_written + call.n_edited) /\ call' = NoCall
    BY <1>1, <1>2 DEF Writeback, AfterCommit, Return
  <1>5. call.n_written + call.n_edited = w
    BY <1>3 DEF Appending
  <1>6. NDone = w
    BY <1>3 DEF NDone, Appending
  <1>7. NDone = Len(call.data) \/ (NDone < Len(call.data) /\ FreeBlocks = {})
    BY <1>1 DEF Promised, Tracked, DirectInv, WriteTracks
  <1>8. w = d \/ (inode.file_len + call.n_written) % BlockSize = 0
    BY <1>1, <1>3 DEF Appending
  <1>9. FreeBlocks' = FreeBlocks
    BY DEF Writeback, FreeBlocks, bitmaps
  <1>10. call'.op = "none"
    BY <1>4 DEF NoCall
  <1> QED
    BY <1>3, <1>4, <1>5, <1>6, <1>7, <1>8, <1>9, <1>10 DEF AppendEnds


LEMMA AppendStep ==
  ASSUME Promised, Step, Appending
  PROVE  AppendGoesOn \/ (Writeback /\ AppendEnds)
  <1>1. ~LoadIndirect /\ ~FillIndirect /\ ~ExtendChain /\ ~StoreIndirect
    BY DEF Promised, Tracked, DirectInv, StepsOfCalls, LoadIndirect, FillIndirect,
           ExtendChain, StoreIndirect
  <1>2. ~LookupReturn /\ ~ReadBlocks /\ ~EditRest /\ ~Unlink /\ ~MarkLoad
    BY DEF Promised, Tracked, DirectInv, StepsOfCalls, Appending, LookupReturn, ReadBlocks,
           EditRest, Unlink, MarkLoad
  <1>3. ~Mark /\ ~MarkIndirect /\ ~Scan /\ ~ScanCheck /\ ~Format /\ ~FormatReset
    BY DEF Promised, Tracked, DirectInv, StepsOfCalls, Appending, Mark, MarkIndirect, Scan,
           ScanCheck, Format, FormatReset
  <1> QED
    BY <1>1, <1>2, <1>3, AppendStarts, AppendTail, AppendStores, AppendCommits,
       AppendWritesBack
    DEF Step, InodeStep

-----------------------------------------------------------------------------
(* What the calls begin with.                                              *)
LEMMA Stays ==
  ASSUME Promised, UNCHANGED vars
  PROVE  Promised' /\ SameFiles
  <1>1. Promised'
    BY NextKept
  <1> QED
    BY <1>1, ImageSame DEF Promised, vars

Rests == pc = "idle" /\ call.op = "none"

LEMMA Answers ==
  ASSUME Promised, pc = "idle", NEW r \in {Ok(0), Refused, Threw}, Answer(r)
  PROVE  Promised' /\ SameFiles /\ Rests' /\ result' = r /\ UNCHANGED image
  <1>1. r \in Result
    <2>1. Ok(0) \in Result
      BY DEF Ok, Result
    <2> QED
      BY <2>1, ConstantTypes
  <1>2. Tracked'
    BY <1>1, AnswerInv, AnswerTracked DEF Promised, Tracked
  <1>3. pc' = "idle" /\ call' = call /\ UNCHANGED image /\ result' = r
    BY DEF Answer
  <1>4. call.op = "none"
    BY CallRuns DEF Promised
  <1>5. WordsTracked'
    BY <1>3, <1>4, WordsAtRest
  <1> QED
    BY <1>2, <1>3, <1>4, <1>5, ImageSame DEF Promised, Rests

Asks(op, n) ==
  /\ call'.op = op /\ call'.inode_n = n /\ result' = Pending
  /\ pc' \notin {"off", "idle", "format"}

(* The request, in the words of the call that has made it.                 *)
LEMMA StartIs ==
  ASSUME Promised, pc = "idle", NEW n \in inode_bitmap, NEW c \in Call,
         NEW op \in {"write", "read", "remove", "rename", "length", "name"},
         NEW label \in {"return", "read", "unlink", "edit", "commit"},
         Start(op, n, c, label)
  PROVE  /\ Asks(op, n) /\ pc' = label /\ inode' = inodes[n]
         /\ call'.offset = c.offset /\ call'.length = c.length /\ call'.data = c.data
         /\ call'.n_edited = c.n_edited /\ call'.n_written = c.n_written
         /\ UNCHANGED <<inodes, blocks, data_bitmap>>
  <1>1. n \in InodeNs
    BY DEF Promised, Tracked, Inv, TypeOK
  <1> DEFINE d == [c EXCEPT !.op = op, !.inode_n = n]
  <1>2. /\ inode' = inodes[n] /\ UNCHANGED <<inodes, blocks, data_bitmap>>
        /\ pc' = label /\ call' = d /\ result' = Pending
    <2>1. LoadInode(d, n, label)
      BY DEF Start
    <2> HIDE DEF d
    <2> QED
      BY <1>1, <2>1, ShortLoad DEF Promised
  <1>3. /\ d.op = op /\ d.inode_n = n /\ d.offset = c.offset /\ d.length = c.length
        /\ d.data = c.data /\ d.n_edited = c.n_edited /\ d.n_written = c.n_written
    BY DEF Call
  <1> HIDE DEF d
  <1> QED
    BY <1>2, <1>3 DEF Asks

LEMMA UsedAtRest ==
  ASSUME Promised, pc = "idle"
  PROVE  inode_bitmap = UsedInodes /\ data_bitmap = OwnedBlocks
  BY BitmapIsOwned DEF Promised

LEMMA Lookups ==
  ASSUME Promised, NEW op \in {"length", "name"}, NEW n, LookupCall(op, n)
  PROVE  /\ Promised' /\ SameFiles /\ UNCHANGED image
         /\ IF n \in UsedInodes THEN Asks(op, n) ELSE Rests' /\ result' = Refused
  <1>1. pc = "idle" /\ inode_bitmap = UsedInodes /\ UsedInodes \subseteq InodeNs
    BY UsedAtRest DEF LookupCall, UsedInodes
  <1>2. CASE n \notin UsedInodes
    <2>1. Answer(Refused)
      BY <1>1, <1>2 DEF LookupCall
    <2> QED
      BY <1>1, <1>2, <2>1, Answers
  <1>3. CASE n \in UsedInodes
    <2>1. n \in InodeNs /\ Start(op, n, NoCall, "return")
      BY <1>1, <1>3, LayoutAssumption DEF LookupCall
    <2>2. Promised'
      <3>1. Tracked'
        BY <2>1, LookupCallInv, LookupCallTracked DEF Promised, Tracked
      <3> QED
        BY <2>1, <3>1, LookupCallKept DEF Promised, Kept
    <2>3. Asks(op, n) /\ UNCHANGED image
      BY <1>1, <1>3, <2>1, StartIs, ConstantTypes DEF image
    <2> QED
      BY <1>3, <2>2, <2>3, ImageSame DEF Promised
  <1> QED
    BY <1>2, <1>3

LEMMA Renames ==
  ASSUME Promised, NEW n \in InodeNs, NEW long \in BOOLEAN, RenameCall(n, long)
  PROVE  /\ Promised' /\ SameFiles /\ UNCHANGED image
         /\ Asks("rename", n) \/ (Rests' /\ result' = Refused)
  <1>1. pc = "idle" /\ inode_bitmap = UsedInodes
    BY UsedAtRest DEF RenameCall
  <1>2. CASE Answer(Refused)
    BY <1>1, <1>2, Answers
  <1>3. CASE n \in inode_bitmap /\ Start("rename", n, NoCall, "commit")
    <2>1. Promised'
      <3>1. Tracked'
        BY RenameCallInv, RenameCallTracked DEF Promised, Tracked
      <3> QED
        BY <3>1, RenameCallKept DEF Promised, Kept
    <2>2. Asks("rename", n) /\ UNCHANGED image
      BY <1>1, <1>3, StartIs, ConstantTypes DEF image
    <2> QED
      BY <2>1, <2>2, ImageSame DEF Promised
  <1> QED
    BY <1>2, <1>3 DEF RenameCall

LEMMA Removes ==
  ASSUME Promised, NEW n \in InodeNs, RemoveCall(n)
  PROVE  /\ Promised' /\ SameFiles /\ UNCHANGED image
         /\ IF n \in UsedInodes THEN Asks("remove", n) ELSE Rests' /\ result' = Refused
  <1>1. pc = "idle" /\ inode_bitmap = UsedInodes
    BY UsedAtRest DEF RemoveCall
  <1>2. CASE n \notin UsedInodes
    <2>1. Answer(Refused)
      BY <1>1, <1>2 DEF RemoveCall
    <2> QED
      BY <1>1, <1>2, <2>1, Answers
  <1>3. CASE n \in UsedInodes
    <2>1. Start("remove", n, NoCall, "unlink")
      BY <1>1, <1>3 DEF RemoveCall
    <2>2. Promised'
      <3>1. Tracked'
        BY RemoveCallInv, RemoveCallTracked DEF Promised, Tracked
      <3> QED
        BY <3>1, RemoveCallKept DEF Promised, Kept
    <2>3. Asks("remove", n) /\ UNCHANGED image
      BY <1>1, <1>3, <2>1, StartIs, ConstantTypes DEF image
    <2> QED
      BY <1>3, <2>2, <2>3, ImageSame DEF Promised
  <1> QED
    BY <1>2, <1>3


LEMMA Mounts ==
  ASSUME Promised, pc = "off", MountCall
  PROVE  /\ Promised' /\ SameFiles /\ UNCHANGED image
         /\ call'.op = "mount" /\ pc' = "scan" /\ result' = Pending
  <1>1. Promised'
    <2>1. Tracked'
      BY MountCallInv, MountCallTracked DEF Promised, Tracked
    <2> QED
      BY <2>1, MountCallKept DEF Promised, Kept
  <1>2. /\ UNCHANGED image /\ pc' = "scan" /\ result' = Pending
        /\ call' = [NoCall EXCEPT !.op = "mount"]
    BY DEF MountCall
  <1>3. call'.op = "mount"
    BY <1>2 DEF NoCall
  <1> QED
    BY <1>1, <1>2, <1>3, ImageSame DEF Promised

LEMMA Formats ==
  ASSUME Promised, FormatCall
  PROVE  /\ Promised' /\ SameFiles /\ UNCHANGED image /\ loaded_inode_n' = Null
         /\ call'.op = "format" /\ pc' = "format" /\ result' = Pending
  <1>1. Promised'
    <2>1. Tracked'
      BY FormatCallInv, FormatCallTracked DEF Promised, Tracked
    <2> QED
      BY <2>1, FormatCallKept DEF Promised, Kept
  <1>2. /\ UNCHANGED image /\ pc' = "format" /\ result' = Pending
        /\ call' = [NoCall EXCEPT !.op = "format"] /\ loaded_inode_n' = Null
    BY DEF FormatCall, Clear
  <1>3. call'.op = "format"
    BY <1>2 DEF NoCall
  <1> QED
    BY <1>1, <1>2, <1>3, ImageSame DEF Promised

LEMMA Ends ==
  ASSUME Promised, pc = "off" => loaded_inode_n = Null, EndProcess
  PROVE  /\ Promised' /\ SameFiles /\ UNCHANGED image /\ loaded_inode_n' = Null
         /\ call'.op = "none" /\ pc' = "off"
  <1>1. CASE pc = "off" /\ UNCHANGED vars
    <2>1. call.op = "none"
      BY <1>1, CallRuns DEF Promised
    <2> QED
      BY <1>1, <2>1, Stays DEF vars, object
  <1>2. CASE Crash
    <2>1. Promised'
      <3>1. Tracked'
        BY <1>2, CrashInv, CrashTracked DEF Promised, Tracked
      <3> QED
        BY <1>2, <3>1, CrashKept DEF Promised, Kept
    <2>2. UNCHANGED image /\ loaded_inode_n' = Null /\ call' = NoCall /\ pc' = "off"
      BY <1>2 DEF Crash, Clear
    <2>3. call'.op = "none"
      BY <2>2 DEF NoCall
    <2> QED
      BY <2>1, <2>2, <2>3, ImageSame DEF Promised
  <1> QED
    BY <1>1, <1>2 DEF EndProcess

(* The new file is empty, or there is none.                                *)
LEMMA Creates ==
  ASSUME Promised, CreateFile(FALSE)
  PROVE  /\ Promised' /\ Rests'
         /\ \/ result' = Refused
            \/ \E n \in InodeNs : /\ result' = Ok(n) /\ n \in UsedInodes'
                                  /\ FileWords(n)' = <<>> /\ inodes'[n].file_len = 0
  <1>1. pc = "idle"
    BY DEF CreateFile
  <1>2. CASE Answer(Refused)
    BY <1>1, <1>2, Answers
  <1>3. CASE ~Answer(Refused)
    <2>1. Promised'
      <3>1. Tracked'
        BY CreateFileInv, CreateFileTracked DEF Promised, Tracked
      <3> QED
        BY <3>1, CreateFileKept DEF Promised, Kept
    <2>2. PICK n \in InodeNs : result' = Ok(n) /\ inodes' = [inodes EXCEPT ![n] = NewInode]
      BY <1>3 DEF CreateFile
    <2>3. pc' = "idle" /\ call' = call
      BY <1>1, <1>3 DEF CreateFile
    <2>4. call.op = "none"
      BY <1>1, CallRuns DEF Promised
    <2>5. inodes'[n].status = "Used" /\ inodes'[n].file_len = 0
      <3>1. inodes'[n] = NewInode
        BY <2>2 DEF Promised, Tracked, Inv, TypeOK
      <3> QED
        BY <3>1 DEF NewInode
    <2>6. n \in UsedInodes'
      BY <2>5 DEF UsedInodes
    <2>7. FileWords(n)' = <<>>
      <3>1. FilesAre'
        BY <2>1, FilesAreNext DEF Promised
      <3>2. FileWords(n)' \in Seq(Words) /\ Len(FileWords(n)') = 0
        BY <2>5, <2>6, <3>1 DEF FilesAre
      <3> QED
        BY <3>2
    <2> QED
      BY <2>1, <2>2, <2>3, <2>4, <2>5, <2>6, <2>7 DEF Rests
  <1> QED
    BY <1>2, <1>3

(* A new image, before a format.                                           *)
LEMMA Empties ==
  ASSUME Promised, pc = "off", loaded_inode_n = Null,
         inodes' = [n \in InodeNs |-> ZeroInode],
         blocks' = [b \in DataNs |-> ZeroBlock],
         UNCHANGED <<bitmaps, object, pc, call, result>>
  PROVE  Promised'
  <1>1. call = NoCall /\ ptrs_to_allocate = <<>>
    BY AllStored DEF Promised, Tracked, Inv, NothingPending
  <1>2. UNCHANGED <<inode_bitmap, data_bitmap, loaded_inode_n, inode, inode_buf,
                    ptrs_to_allocate, indirect_block_n, indirect_ptrs_list>>
    BY DEF bitmaps, object, lists
  <1>3. Inv'
    <2>1. TypeOK'
      <3>1. inodes' \in [InodeNs -> InodeBlock] /\ blocks' \in [DataNs -> Block]
        BY ConstantTypes
      <3> QED
        BY <1>2, <3>1 DEF Promised, Tracked, Inv, TypeOK
    <2>2. NumberLoaded' /\ NothingPending' /\ LocalsInRange'
      BY <1>1, <1>2, RestInv DEF NoneButCut
    <2> QED
      BY <2>1, <2>2 DEF Inv
  <1>4. \A n \in InodeNs : inodes'[n].file_len = 0 /\ inodes'[n].status = "Free"
    BY DEF ZeroInode
  <1>5. UsedInodes' = {} /\ Holders' = {}
    <2>1. UsedInodes' = {}
      BY <1>4 DEF UsedInodes
    <2>2. call'.op = "none"
      BY <1>1 DEF NoCall
    <2> QED
      BY <2>1, <2>2 DEF Holders, Releasing
  <1>6. \A n \in InodeNs : NBlocks(inodes'[n]) <= NDirect
    BY <1>4, LayoutAssumption DEF NBlocks, BytesToBlocks
  <1>7. StepsOfCalls' /\ BufferTracks' /\ WriteTracks'
    BY <1>2 DEF StepsOfCalls, BufferTracks, WriteTracks
  <1>8. ObjectTracks'
    BY <1>2, <1>6 DEF ObjectTracks, Promised, Tracked, DirectInv
  <1>9. call'.op = "none" /\ pc' = "off"
    BY <1>1 DEF NoCall
  <1>10. PtrsApart' /\ FreshApart' /\ InodesTracked' /\ BlocksTracked'
    BY <1>1, <1>2, <1>5, <1>9 DEF PtrsApart, FreshApart, InodesTracked, BlocksTracked,
                                  Releasing
  <1>11. WordsTracked'
    BY <1>9, WordsAtRest
  <1> QED
    BY <1>3, <1>7, <1>8, <1>10, <1>11 DEF Promised, Tracked, DirectInv


-----------------------------------------------------------------------------
(* The discipline of Ownership speaks of reads and writes that start.      *)
Disciplined == Careful /\ DirectOnly

LEMMA NothingStarts ==
  ASSUME call.op # "none" \/ call'.op \notin {"read", "write"}
  PROVE  Disciplined
  BY DEF Disciplined, Careful, EditStaysInside, AppendFillsTail, ReadHasBlock, DirectOnly,
         Starts

LEMMA Reads ==
  ASSUME Promised, NEW n \in UsedInodes, NEW o \in Nat, NEW l \in Nat \ {0},
         o # inodes[n].file_len, ReadCall(n, o, l)
  PROVE  /\ Promised' /\ SameFiles /\ UNCHANGED image /\ Disciplined
         /\ Asks("read", n) /\ call'.offset = o /\ call'.length = l
  <1>1. pc = "idle" /\ inode_bitmap = UsedInodes /\ n \in InodeNs
    BY UsedAtRest DEF ReadCall, UsedInodes
  <1> DEFINE c == [NoCall EXCEPT !.offset = o, !.length = l]
  <1>2. c \in Call /\ c.offset = o /\ c.length = l
    BY ConstantTypes DEF NoCall, Call
  <1>3. Start("read", n, c, "read")
    BY <1>1 DEF ReadCall
  <1> HIDE DEF c
  <1>4. /\ Asks("read", n) /\ pc' = "read" /\ UNCHANGED <<inodes, blocks>>
        /\ call'.offset = o /\ call'.length = l
    BY <1>1, <1>2, <1>3, StartIs
  <1>5. call'.inode_n = n /\ call'.op = "read"
    BY <1>4 DEF Asks
  <1>6. ReadHasBlock
    BY <1>4, <1>5 DEF ReadHasBlock, Target
  <1>7. Disciplined
    BY <1>5, <1>6 DEF Disciplined, Careful, EditStaysInside, AppendFillsTail, DirectOnly,
                      Starts
  <1>8. Promised'
    <2>1. Tracked'
      BY <1>1, ReadCallInv, ReadCallTracked DEF Promised, Tracked
    <2> QED
      BY <1>1, <1>6, <2>1, ReadCallKept DEF Promised, Kept
  <1> QED
    BY <1>4, <1>7, <1>8, ImageSame DEF Promised, image

LEMMA Writes ==
  ASSUME Promised, NEW n \in InodeNs, NEW d \in Seq(Words), d # <<>>,
         n \in UsedInodes =>
           BytesToBlocks(inodes[n].file_len) * BlockSize - inodes[n].file_len <= Len(d),
         WriteCall(n, 0, d)
  PROVE  /\ Promised' /\ SameFiles /\ UNCHANGED image /\ Disciplined
         /\ IF n \notin UsedInodes THEN Rests' /\ result' = Refused
            ELSE /\ Asks("write", n) /\ call'.data = d /\ Appending'
                 /\ call'.n_written = 0 /\ FreeBlocks' = FreeBlocks
                 /\ inode' = inodes[n]
  <1>1. pc = "idle" /\ inode_bitmap = UsedInodes
    BY UsedAtRest DEF WriteCall
  <1>2. CASE n \notin UsedInodes
    <2>1. Answer(Refused)
      BY <1>1, <1>2 DEF WriteCall
    <2>2. Rests' /\ Promised' /\ SameFiles /\ UNCHANGED image /\ result' = Refused
      BY <1>1, <2>1, Answers
    <2> QED
      BY <1>2, <2>2, NothingStarts DEF Rests
  <1>3. CASE n \in UsedInodes
    <2> DEFINE c == [NoCall EXCEPT !.offset = 0, !.data = d]
    <2>1. c \in Call /\ c.offset = 0 /\ c.data = d /\ c.n_edited = 0 /\ c.n_written = 0
      BY ConstantTypes DEF NoCall, Call
    <2>2. Start("write", n, c, "edit") /\ inodes[n].file_len + Len(d) <= MaxLen
      <3>1. LengthSeen(n) = inodes[n].file_len
        BY <1>1, LayoutAssumption
        DEF LengthSeen, Promised, Tracked, DirectInv, ObjectTracks, InodeNs, Null
      <3> QED
        BY <1>1, <1>3, <3>1 DEF WriteCall
    <2> HIDE DEF c
    <2>3. /\ Asks("write", n) /\ pc' = "edit" /\ UNCHANGED <<inodes, blocks, data_bitmap>>
          /\ call'.offset = 0 /\ call'.data = d /\ call'.n_edited = 0
          /\ call'.n_written = 0 /\ inode' = inodes[n]
      BY <1>1, <1>3, <2>1, <2>2, StartIs
    <2>4. call'.inode_n = n /\ call'.op = "write"
      BY <2>3 DEF Asks
    <2>5. PICK l \in Nat, z \in Nat : l = inodes[n].file_len /\ z = Len(d)
      BY DEF Promised, Tracked, Inv, TypeOK, InodeBlock
    <2>6. NEdit = 0 /\ NAppend = z /\ NewLen = l + z
      <3>1. NEdit = 0
        BY <2>3, <2>5 DEF NEdit, Smaller
      <3>2. NAppend = z - 0
        BY <2>3, <2>5, <3>1 DEF NAppend
      <3>3. NewLen = l + NAppend
        BY <2>4, <2>5 DEF NewLen, Target
      <3> QED
        BY <3>1, <3>2, <3>3
    <2>7. EditStaysInside
      BY <2>6 DEF EditStaysInside
    <2>8. AppendFillsTail
      <3>1. FreeWords <= z
        BY <1>3, <2>4, <2>5 DEF FreeWords, Target
      <3>2. FreeWords \in Int
        <4>1. FreeWords = BytesToBlocks(l) * BlockSize - l
          BY <2>4, <2>5 DEF FreeWords, Target
        <4> QED
          BY <4>1, BlocksCover, LayoutAssumption
      <3> QED
        BY <2>6, <3>1, <3>2 DEF AppendFillsTail
    <2>9. DirectOnly
      <3>1. BytesToBlocks(l + z) <= BytesToBlocks(MaxLen)
        BY <2>2, <2>5, BlocksMonotone, InputAssumption
      <3>2. BytesToBlocks(l + z) \in Nat /\ BytesToBlocks(MaxLen) \in Nat
        BY BlocksCover, InputAssumption
      <3>3. BytesToBlocks(l + z) <= NDirect
        BY <3>1, <3>2, SizeAssumption, LayoutAssumption
      <3> QED
        BY <2>6, <3>3 DEF DirectOnly
    <2>10. ReadHasBlock
      BY <2>4 DEF ReadHasBlock, Starts
    <2>11. Promised'
      <3>1. Tracked'
        BY <2>7, <2>8, <2>9, <2>10, WriteCallInv, WriteCallTracked
        DEF Promised, Tracked, Careful
      <3> QED
        BY <2>7, <3>1, WriteCallKept DEF Promised, Kept
    <2>12. Appending'
      BY <2>3, <2>4 DEF Appending
    <2> QED
      BY <1>3, <2>3, <2>7, <2>8, <2>9, <2>10, <2>11, <2>12, ImageSame
      DEF Promised, image, Disciplined, Careful, FreeBlocks
  <1> QED
    BY <1>2, <1>3


-----------------------------------------------------------------------------
(* The inductive invariant of the commands.                                *)
Working == Promised /\ CommandInv

ControlInv == CliTypeOK /\ StepsOfEvents /\ EventsOfActions /\ ParsedSoFar
TrackedInv == /\ ImportTracked /\ ExportTracked /\ ListTracked /\ RemoveTracked
              /\ ImportIsWhole /\ ReportsAreTrue

LEMMA CommandInvIs == CommandInv <=> ControlInv /\ TrackedInv
  BY DEF CommandInv, ControlInv, TrackedInv

LEMMA CommandInvNextIs == CommandInv' <=> ControlInv' /\ TrackedInv'
  BY DEF CommandInv, ControlInv, TrackedInv

(* What is tracked for the events of other actions does not matter, and    *)
(* without a report nothing is claimed.                                    *)
LEMMA OthersIdle ==
  ASSUME EventsOfActions'
  PROVE  /\ cmd'.action_type # "WRITE_DATA" => ImportTracked' /\ ImportIsWhole'
         /\ cmd'.action_type # "READ_DATA" => ExportTracked'
         /\ cmd'.action_type \notin {"DISPLAY_FILES", "DISPLAY_STATS"} => ListTracked'
         /\ cmd'.action_type # "DELETE_FILE" => RemoveTracked'
         /\ report' # "done" => ImportIsWhole' /\ ReportsAreTrue'
  <1>1. step' \in {"exists", "ask", "import"} => cmd'.action_type = "WRITE_DATA"
    BY DEF EventsOfActions, ActionsOf
  <1>2. step' \in {"export_size", "export", "exported"} => cmd'.action_type = "READ_DATA"
    BY DEF EventsOfActions, ActionsOf
  <1>3. cmd'.action_type # "WRITE_DATA" => ImportTracked' /\ ImportIsWhole'
    BY <1>1 DEF ImportTracked, ImportIsWhole, StoredSoFar, Importing
  <1>4. cmd'.action_type # "READ_DATA" => ExportTracked'
    BY <1>2 DEF ExportTracked
  <1>5. cmd'.action_type \notin {"DISPLAY_FILES", "DISPLAY_STATS"} => ListTracked'
    BY DEF ListTracked
  <1>6. cmd'.action_type # "DELETE_FILE" => RemoveTracked'
    BY DEF RemoveTracked
  <1>7. report' # "done" => ImportIsWhole' /\ ReportsAreTrue'
    BY DEF ImportIsWhole, ReportsAreTrue
  <1> QED
    BY <1>3, <1>4, <1>5, <1>6, <1>7

(* An event that is over has nothing to track but the file it imported.    *)
LEMMA NothingTracked ==
  ASSUME step' \notin {"exists", "ask", "import", "export_size", "export", "exported",
                       "list", "named", "sized", "last"}, StoredSoFar'
  PROVE  ImportTracked' /\ ExportTracked' /\ ListTracked' /\ RemoveTracked'
  BY DEF ImportTracked, ExportTracked, ListTracked, RemoveTracked

SameButOut ==
  /\ DOMAIN local' = DOMAIN local /\ local'.inode_n = local.inode_n
  /\ local'.host = local.host /\ local'.n = local.n /\ local'.size = local.size
  /\ local'.before = local.before

LEMMA StoredStays ==
  ASSUME StoredSoFar, SameFiles, cmd' = cmd, local'.inode_n = local.inode_n,
         local'.host = local.host, local'.before = local.before,
         step' \notin {"exists", "ask", "import"}
  PROVE  StoredSoFar'
  <1>1. ASSUME Importing'
        PROVE  \E k \in 0 .. Len(local'.host) :
                 FileWords(local.inode_n)' = local'.before \o SubSeq(local'.host, 1, k)
    <2>1. PICK n : n = local.inode_n /\ n = local'.inode_n
      OBVIOUS
    <2>2. n \in UsedInodes /\ Importing
      BY <1>1, <2>1 DEF Importing, SameFiles
    <2>3. PICK k \in 0 .. Len(local.host) :
            FileWords(n) = local.before \o SubSeq(local.host, 1, k)
      BY <2>1, <2>2 DEF StoredSoFar
    <2>4. FileWords(n)' = FileWords(n)
      BY <2>2 DEF SameFiles
    <2> QED
      BY <2>1, <2>3, <2>4
  <1> QED
    BY <1>1 DEF StoredSoFar

LEMMA Finishes ==
  ASSUME Working, EndProcess, step' = "none", UNCHANGED <<disk, line, cmd>>, SameButOut,
         report' \in {"none", "help", "error", "declined", "absent", "done"},
         step = "parse" => local.n = Len(line),
         report' = "done" => ImportIsWhole' /\ ReportsAreTrue'
  PROVE  Working'
  <1>1. ControlInv /\ TrackedInv /\ Promised
    BY CommandInvIs DEF Working
  <1>2. pc = "off" => loaded_inode_n = Null
    BY <1>1 DEF ControlInv, StepsOfEvents
  <1>3. /\ Promised' /\ SameFiles /\ loaded_inode_n' = Null
        /\ call'.op = "none" /\ pc' = "off"
    BY <1>1, <1>2, Ends
  <1>4. CliTypeOK'
    BY <1>1, <1>3 DEF ControlInv, CliTypeOK, SameButOut
  <1>5. StepsOfEvents'
    BY <1>3 DEF StepsOfEvents, Calls
  <1>6. EventsOfActions'
    BY DEF EventsOfActions, ActionsOf
  <1>7. ParsedSoFar'
    <2>1. NParsed' = NParsed
      BY DEF NParsed
    <2> DEFINE T(k) == TakenBack(k)
    <2>2. \A k : TakenBack(k)' <=> TakenBack(k)
      BY DEF TakenBack, Letter, Unknown
    <2>3. \A k : Letter(k)' = Letter(k)
      BY DEF Letter
    <2> QED
      BY <1>1, <2>1, <2>2, <2>3 DEF ControlInv, ParsedSoFar
  <1>8. StoredSoFar'
    BY <1>1, <1>3, StoredStays DEF TrackedInv, ImportTracked, SameButOut
  <1>9. ImportTracked' /\ ExportTracked' /\ ListTracked' /\ RemoveTracked'
    BY <1>8, NothingTracked
  <1>10. ImportIsWhole' /\ ReportsAreTrue'
    BY <1>6, OthersIdle
  <1> QED
    BY <1>3, <1>4, <1>5, <1>6, <1>7, <1>9, <1>10, CommandInvNextIs
    DEF Working, ControlInv, TrackedInv


LEMMA FinishesOtherwise ==
  ASSUME Working, NEW r \in {"none", "help", "error", "declined", "absent"}, Finish(r),
         step = "parse" => local.n = Len(line)
  PROVE  Working'
  BY Finishes DEF Finish, SameButOut

LEMMA ParsedStays ==
  ASSUME ControlInv, step \notin {"parse", "none"}, step' # "parse",
         UNCHANGED <<line, cmd>>
  PROVE  ParsedSoFar'
  <1>1. NParsed' = NParsed
    BY DEF NParsed
  <1>2. \A k : TakenBack(k)' <=> TakenBack(k)
    BY DEF TakenBack, Letter, Unknown
  <1>3. \A k : Letter(k)' = Letter(k)
    BY DEF Letter
  <1> QED
    BY <1>1, <1>2, <1>3 DEF ControlInv, ParsedSoFar

LocalOK ==
  /\ DOMAIN local = DOMAIN NoLocal
  /\ local.inode_n \in Int /\ local.n \in Nat /\ local.size \in Nat
  /\ local.host \in Seq(Words) /\ local.before \in Seq(Words)

(* An event goes on at a step where calls are made.                        *)
GoesOn ==
  /\ UNCHANGED <<line, cmd, report>> /\ disk' \in {disk, "formatted"}
  /\ step \notin {"parse", "none"} /\ step' \in Calls
  /\ call'.op \in CallsOf[step'] \cup {"none"}
  /\ pc' \in {"off", "format"} => loaded_inode_n' = Null

LEMMA ControlGoesOn ==
  ASSUME Working, GoesOn, LocalOK',
         step' \in DOMAIN ActionsOf => cmd.action_type \in ActionsOf[step'],
         step' \in {"mounted", "formatting"} => local' = NoLocal
  PROVE  ControlInv'
  <1>1. ControlInv
    BY CommandInvIs DEF Working
  <1>2. CliTypeOK'
    BY <1>1 DEF ControlInv, CliTypeOK, GoesOn, LocalOK, StepsOfEvents, Calls
  <1>3. StepsOfEvents'
    <2>1. report' = "none"
      BY <1>1 DEF ControlInv, StepsOfEvents, GoesOn
    <2> QED
      BY <2>1 DEF StepsOfEvents, GoesOn, Calls
  <1>4. EventsOfActions'
    BY DEF EventsOfActions, GoesOn
  <1>5. ParsedSoFar'
    <2>1. step' # "parse"
      BY DEF GoesOn, Calls
    <2> QED
      BY <1>1, <2>1, ParsedStays DEF GoesOn
  <1> QED
    BY <1>2, <1>3, <1>4, <1>5 DEF ControlInv

LEMMA NoLocalOK ==
  ASSUME local' = NoLocal
  PROVE  /\ LocalOK' /\ local'.n = 0 /\ local'.inode_n = Null /\ local'.out = <<>>
         /\ local'.host = <<>> /\ local'.before = <<>>
  <1>1. /\ NoLocal.inode_n = Null /\ NoLocal.n = 0 /\ NoLocal.size = 0
        /\ NoLocal.host = <<>> /\ NoLocal.before = <<>> /\ NoLocal.out = <<>>
    BY DEF NoLocal
  <1>2. <<>> \in Seq(Words) /\ Null \in Int
    BY DEF Null
  <1> QED
    BY <1>1, <1>2 DEF LocalOK

-----------------------------------------------------------------------------
(* The steps that no action has to itself.                                 *)
LEMMA LaunchWorks ==
  ASSUME Working, NEW l \in CommandLines, Launch(l)
  PROVE  Working'
  <1>1. Promised' /\ ControlInv
    BY Stays, CommandInvIs DEF Working, Launch, vars
  <1>2. call'.op = "none" /\ pc' = "off" /\ loaded_inode_n' = Null
    BY <1>1 DEF ControlInv, StepsOfEvents, Launch, Calls, vars, object
  <1>3. CliTypeOK'
    <2>1. LocalOK'
      BY NoLocalOK DEF Launch
    <2> QED
      BY <1>1, <2>1 DEF ControlInv, CliTypeOK, LocalOK, Launch
  <1>4. local' = [NoLocal EXCEPT !.n = local'.n] /\ local'.n = 0
    BY DEF Launch, NoLocal
  <1>5. 0 <= Len(l)
    BY CliAssumption
  <1>6. StepsOfEvents'
    BY <1>2, <1>4, <1>5 DEF StepsOfEvents, Launch, Calls
  <1>7. EventsOfActions'
    BY DEF EventsOfActions, ActionsOf, Launch
  <1>8. ParsedSoFar'
    <2>1. NParsed' = 0
      BY <1>4 DEF NParsed, Launch
    <2>2. TakenBack(0)'
      BY DEF TakenBack
    <2>3. TakenBack(NParsed)'
      BY <2>1, <2>2
    <2> QED
      BY <2>3 DEF ParsedSoFar, Launch, NotSeen
  <1>9. cmd'.action_type = "INVALID_PARSING" /\ report' = "none"
    BY DEF Launch, NotSeen
  <1>10. TrackedInv'
    BY <1>7, <1>9, OthersIdle DEF TrackedInv
  <1> QED
    BY <1>1, <1>3, <1>6, <1>7, <1>8, <1>10, CommandInvNextIs DEF Working, ControlInv

LEMMA LinesAreSequences ==
  ASSUME Working
  PROVE  Len(line) \in Nat /\ DOMAIN line = 1 .. Len(line)
  <1>1. line \in CommandLines \cup {<<>>}
    BY DEF Working, CommandInv, CliTypeOK
  <1> QED
    BY <1>1, CliAssumption

(* What the parser makes of one more option.                               *)
LEMMA OptionParsed ==
  ASSUME NEW p, DOMAIN p = DOMAIN NotSeen, NEW opt
  PROVE  LET q == ParseOption(p, opt)
         IN  /\ DOMAIN q = DOMAIN NotSeen
             /\ \/ q.file_inode = p.file_inode
                \/ opt[1] = "n" /\ q.file_inode = opt[2]
             /\ q.action_type =
                  IF opt[1] \in DOMAIN Actions
                  THEN IF p.action_type = "INVALID_PARSING" THEN Actions[opt[1]]
                       ELSE p.action_type
                  ELSE IF opt[1] \in DOMAIN Args THEN p.action_type
                  ELSE "INVALID_PARSING"
  <1>1. CASE opt[1] \in DOMAIN Actions
    BY <1>1 DEF ParseOption, NotSeen
  <1>2. CASE opt[1] \notin DOMAIN Actions /\ opt[1] \in DOMAIN Args
    <2>1. DOMAIN Args = {"b", "s", "n", "i"}
      BY DEF Args
    <2>2. Args["b"] = "block_size" /\ Args["s"] = "length" /\ Args["n"] = "file_inode"
          /\ Args["i"] = "in_file_name"
      BY DEF Args
    <2>3. ParseOption(p, opt) = [p EXCEPT ![Args[opt[1]]] = opt[2]]
      BY <1>2 DEF ParseOption
    <2> QED
      BY <1>2, <2>1, <2>2, <2>3 DEF NotSeen
  <1>3. CASE opt[1] \notin DOMAIN Actions /\ opt[1] \notin DOMAIN Args
    BY <1>3 DEF ParseOption, NotSeen
  <1> QED
    BY <1>1, <1>2, <1>3


LEMMA ActionsAreKnown ==
  \A c \in DOMAIN Actions : Actions[c] # "INVALID_PARSING"
  BY DEF Actions

LEMMA ParseWorks ==
  ASSUME Working, Parse
  PROVE  Working'
  <1>1. Promised' /\ ControlInv
    BY Stays, CommandInvIs DEF Working, Parse, vars
  <1>2. /\ step = "parse" /\ step' = "parse" /\ line' = line /\ disk' = disk
        /\ report' = report /\ UNCHANGED vars
    BY DEF Parse
  <1>3. PICK n \in Nat : n = local.n /\ n < Len(line)
    BY <1>1 DEF ControlInv, CliTypeOK, Parse
  <1>4. Len(line) \in Nat /\ DOMAIN line = 1 .. Len(line)
    BY LinesAreSequences
  <1>5. local = [NoLocal EXCEPT !.n = n] /\ report = "none"
    BY <1>1, <1>2, <1>3 DEF ControlInv, StepsOfEvents
  <1>6. local' = [NoLocal EXCEPT !.n = n + 1] /\ local'.n = n + 1
    BY <1>3, <1>5 DEF Parse, NoLocal
  <1>7. LocalOK'
    <2>1. /\ local'.inode_n = Null /\ local'.size = 0 /\ local'.host = <<>>
          /\ local'.before = <<>> /\ DOMAIN local' = DOMAIN NoLocal
      BY <1>6 DEF NoLocal
    <2>2. <<>> \in Seq(Words) /\ Null \in Int /\ n + 1 \in Nat /\ 0 \in Nat
      BY DEF Null
    <2>3. local'.n = n + 1
      BY <1>6
    <2> QED
      BY <2>1, <2>2, <2>3 DEF LocalOK
  <1>8. CliTypeOK'
    BY <1>1, <1>2, <1>5, <1>7 DEF ControlInv, CliTypeOK, LocalOK
  <1>9. StepsOfEvents'
    <2>1. n + 1 <= Len(line)
      BY <1>3, <1>4
    <2>2. call'.op = "none" /\ pc' = "off" /\ loaded_inode_n' = Null
      BY <1>1, <1>2 DEF ControlInv, StepsOfEvents, Calls, vars, object
    <2> QED
      BY <1>2, <1>5, <1>6, <2>1, <2>2 DEF StepsOfEvents, Calls
  <1>10. EventsOfActions'
    BY <1>2 DEF EventsOfActions, ActionsOf
  <1>11. ParsedSoFar'
    <2> DEFINE opt == line[n + 1]
    <2>1. NParsed = n /\ NParsed' = n + 1
      BY <1>2, <1>3, <1>6 DEF NParsed
    <2>2. n + 1 \in DOMAIN line /\ Letter(n + 1) = opt[1]
      BY <1>3, <1>4 DEF Letter
    <2>3. (\A k : TakenBack(k)' <=> TakenBack(k)) /\ \A k : Letter(k)' = Letter(k)
      BY <1>2 DEF TakenBack, Letter, Unknown
    <2>4. cmd' = ParseOption(cmd, opt) /\ DOMAIN cmd = DOMAIN NotSeen
          /\ cmd.file_inode \in Int
      BY <1>1, <1>3 DEF Parse, ControlInv, ParsedSoFar
    <2>5. opt[1] = "n" => opt[2] \in Int
      <3>1. line \in CommandLines \cup {<<>>} /\ line # <<>>
        BY <1>1, <1>3 DEF ControlInv, CliTypeOK
      <3>2. \A k \in DOMAIN line : line[k][1] = "n" => line[k][2] \in Int
        BY <3>1, CliAssumption
      <3> QED
        BY <2>2, <3>2
    <2> HIDE DEF opt
    <2>6. /\ DOMAIN cmd' = DOMAIN NotSeen /\ cmd'.file_inode \in Int
          /\ cmd'.action_type =
               IF opt[1] \in DOMAIN Actions
               THEN IF cmd.action_type = "INVALID_PARSING" THEN Actions[opt[1]]
                    ELSE cmd.action_type
               ELSE IF opt[1] \in DOMAIN Args THEN cmd.action_type
               ELSE "INVALID_PARSING"
      BY <2>4, <2>5, OptionParsed
    <2>7. \/ cmd.action_type = "INVALID_PARSING" /\ TakenBack(n)
          \/ \E k \in 1 .. n : /\ Letter(k) \in DOMAIN Actions
                               /\ cmd.action_type = Actions[Letter(k)]
                               /\ TakenBack(k - 1)
      BY <1>1, <2>1 DEF ControlInv, ParsedSoFar
    <2> DEFINE Given(a) == \E k \in 1 .. n + 1 : /\ Letter(k) \in DOMAIN Actions
                                                 /\ a = Actions[Letter(k)]
                                                 /\ TakenBack(k - 1)
    <2>8. \/ cmd'.action_type = "INVALID_PARSING" /\ TakenBack(n + 1)
          \/ Given(cmd'.action_type)
      <3>1. CASE opt[1] \in DOMAIN Actions /\ cmd.action_type = "INVALID_PARSING"
        <4>1. TakenBack(n)
          BY <2>7, <3>1, ActionsAreKnown
        <4>2. (n + 1) - 1 = n /\ n + 1 \in 1 .. n + 1
          OBVIOUS
        <4>3. TakenBack((n + 1) - 1)
          BY <4>1, <4>2
        <4> QED
          BY <2>2, <2>6, <3>1, <4>2, <4>3
      <3>2. CASE opt[1] \in DOMAIN Actions /\ cmd.action_type # "INVALID_PARSING"
        BY <2>6, <2>7, <3>2
      <3>3. CASE opt[1] \notin DOMAIN Actions /\ opt[1] \in DOMAIN Args
        <4>1. ASSUME TakenBack(n) PROVE TakenBack(n + 1)
          <5>1. SUFFICES ASSUME NEW j \in 1 .. n + 1, Letter(j) \in DOMAIN Actions
                         PROVE  \E m \in Unknown : j < m /\ m <= n + 1
            BY DEF TakenBack
          <5>2. j \in 1 .. n
            BY <2>2, <3>3, <5>1
          <5>3. PICK m \in Unknown : j < m /\ m <= n
            BY <4>1, <5>1, <5>2 DEF TakenBack
          <5>4. m \in 1 .. Len(line)
            BY <1>4 DEF Unknown
          <5> QED
            BY <5>3, <5>4
        <4> QED
          BY <2>6, <2>7, <3>3, <4>1
      <3>4. CASE opt[1] \notin DOMAIN Actions /\ opt[1] \notin DOMAIN Args
        <4>1. n + 1 \in Unknown
          BY <2>2, <3>4 DEF Unknown
        <4>2. \A j \in 1 .. n + 1 : Letter(j) \in DOMAIN Actions => j < n + 1
          BY <2>2, <3>4
        <4>3. TakenBack(n + 1)
          BY <4>1, <4>2 DEF TakenBack
        <4> QED
          BY <2>6, <3>4, <4>3
      <3> QED
        BY <3>1, <3>2, <3>3, <3>4
    <2> QED
      BY <1>2, <2>1, <2>3, <2>6, <2>8 DEF ParsedSoFar
  <1>12. TrackedInv'
    <2>1. UsedInodes \subseteq InodeNs /\ Null \notin InodeNs
      BY LayoutAssumption DEF UsedInodes, InodeNs, Null
    <2>2. Null \notin UsedInodes'
      BY LayoutAssumption DEF UsedInodes, InodeNs, Null
    <2>3. local'.inode_n = Null
      BY <1>6 DEF NoLocal
    <2>4. ~Importing'
      BY <2>2, <2>3 DEF Importing
    <2>5. StoredSoFar'
      BY <2>4 DEF StoredSoFar
    <2>6. ImportTracked' /\ ExportTracked' /\ ListTracked' /\ RemoveTracked'
      BY <1>2, <2>5, NothingTracked
    <2> QED
      BY <1>2, <1>5, <1>10, <2>6, OthersIdle DEF TrackedInv
  <1> QED
    BY <1>1, <1>8, <1>9, <1>10, <1>11, <1>12, CommandInvNextIs DEF Working, ControlInv

LEMMA StartEventWorks ==
  ASSUME Working, StartEvent
  PROVE  Working'
  <1>1. ControlInv /\ step = "parse" /\ local.n = Len(line)
    BY CommandInvIs DEF Working, StartEvent
  <1>2. CASE Finish("help")
    BY <1>1, <1>2, FinishesOtherwise
  <1>3. CASE /\ cmd.action_type \in DOMAIN FirstSteps
             /\ Goto(FirstSteps[cmd.action_type])
             /\ local' = NoLocal /\ UNCHANGED vars
    <2>1. Promised'
      BY <1>3, Stays DEF Working
    <2>2. /\ step' \in {"open", "confirm", "create"} /\ step' # "parse"
          /\ step' = "confirm" => cmd.action_type = "FORMAT_DISK"
          /\ step' = "create" => cmd.action_type = "CREATE_DISK"
          /\ cmd.action_type # "INVALID_PARSING"
      BY <1>3 DEF Goto, FirstSteps
    <2>3. UNCHANGED <<disk, line, cmd, report>>
      BY <1>3 DEF Goto
    <2>4. LocalOK' /\ local'.inode_n = Null
      BY <1>3, NoLocalOK
    <2>5. report = "none" /\ call'.op = "none" /\ pc' = "off" /\ loaded_inode_n' = Null
      BY <1>1, <1>3 DEF ControlInv, StepsOfEvents, Calls, vars, object
    <2>6. CliTypeOK'
      BY <1>1, <2>2, <2>3, <2>4 DEF ControlInv, CliTypeOK, LocalOK
    <2>7. StepsOfEvents'
      BY <1>3, <2>2, <2>3, <2>5 DEF StepsOfEvents, Calls
    <2>8. EventsOfActions'
      BY <2>2, <2>3 DEF EventsOfActions, ActionsOf
    <2>9. ParsedSoFar'
      <3>1. NParsed' = NParsed
        BY <1>1, <2>2, <2>3 DEF NParsed
      <3>2. \A k : TakenBack(k)' <=> TakenBack(k)
        BY <2>3 DEF TakenBack, Letter, Unknown
      <3>3. \A k : Letter(k)' = Letter(k)
        BY <2>3 DEF Letter
      <3> QED
        BY <1>1, <2>2, <2>3, <3>1, <3>2, <3>3 DEF ControlInv, ParsedSoFar
    <2>10. ImportTracked' /\ ExportTracked' /\ ListTracked' /\ RemoveTracked'
      <3>1. Null \notin UsedInodes'
        BY LayoutAssumption DEF UsedInodes, InodeNs, Null
      <3>2. StoredSoFar'
        BY <2>4, <3>1 DEF StoredSoFar, Importing
      <3> QED
        BY <2>2, <3>2, NothingTracked
    <2>11. ImportIsWhole' /\ ReportsAreTrue'
      BY <2>3, <2>5, <2>8, OthersIdle
    <2> QED
      BY <2>1, <2>6, <2>7, <2>8, <2>9, <2>10, <2>11, CommandInvNextIs
      DEF Working, ControlInv, TrackedInv
  <1> QED
    BY <1>2, <1>3 DEF StartEvent


LEMMA NoReport ==
  ASSUME Working, step # "none"
  PROVE  report = "none"
  BY DEF Working, CommandInv, StepsOfEvents

(* At the start of an event nothing has been done.                         *)
LEMMA MountedWorks ==
  ASSUME Working, Promised', GoesOn, step' = "mounted", local' = NoLocal,
         report = "none"
  PROVE  Working'
  <1>1. LocalOK' /\ local'.inode_n = Null
    BY NoLocalOK
  <1>2. ControlInv'
    BY <1>1, ControlGoesOn DEF ActionsOf
  <1>3. StoredSoFar'
    <2>1. Null \notin UsedInodes'
      BY LayoutAssumption DEF UsedInodes, InodeNs, Null
    <2> QED
      BY <1>1, <2>1 DEF StoredSoFar, Importing
  <1>4. ImportTracked' /\ ExportTracked' /\ ListTracked' /\ RemoveTracked'
    BY <1>3, NothingTracked
  <1>5. ImportIsWhole' /\ ReportsAreTrue'
    BY <1>2, OthersIdle DEF GoesOn, ControlInv
  <1> QED
    BY <1>2, <1>4, <1>5, CommandInvNextIs DEF Working, TrackedInv

LEMMA OpenDiskWorks ==
  ASSUME Working, OpenDisk
  PROVE  Working'
  <1>1. ControlInv /\ step = "open" /\ Promised
    BY CommandInvIs DEF Working, OpenDisk
  <1>2. pc = "off" /\ local = NoLocal /\ report = "none"
    BY <1>1 DEF ControlInv, StepsOfEvents, Calls
  <1>3. CASE MountCall /\ Goto("mounted") /\ UNCHANGED local
    <2>1. Promised' /\ call'.op = "mount" /\ pc' = "scan"
      BY <1>1, <1>2, <1>3, Mounts
    <2>2. GoesOn
      BY <1>1, <1>3, <2>1 DEF GoesOn, Goto, Calls, CallsOf
    <2> QED
      BY <1>2, <1>3, <2>1, <2>2, MountedWorks DEF Goto
  <1>4. CASE Finish("error")
    BY <1>1, <1>4, FinishesOtherwise
  <1> QED
    BY <1>3, <1>4 DEF OpenDisk

LEMMA BadInodeAtStart ==
  ASSUME Working, step = "mounted", pc = "idle", NEW n, BadInode(n)
  PROVE  Working'
  <1>1. ControlInv /\ Promised
    BY CommandInvIs DEF Working
  <1>2. Promised' /\ Rests' /\ UNCHANGED cliVars
    BY <1>1, Answers DEF BadInode
  <1>3. local' = NoLocal /\ report = "none"
    BY <1>1, <1>2 DEF ControlInv, StepsOfEvents, cliVars
  <1>4. GoesOn
    BY <1>2 DEF GoesOn, cliVars, Calls, Rests
  <1> QED
    BY <1>2, <1>3, <1>4, MountedWorks DEF cliVars

(* The events that make a file system.                                     *)
LEMMA FormatAhead ==
  ASSUME Working, Promised', step \in {"confirm", "create"}, step' = "format",
         UNCHANGED <<line, cmd, local, report>>,
         disk' \in {"missing", "unusable", "blank", "formatted"},
         call'.op = "none", pc' = "off", loaded_inode_n' = Null
  PROVE  Working'
  <1>1. ControlInv
    BY CommandInvIs DEF Working
  <1>2. local' = NoLocal /\ report = "none"
        /\ cmd.action_type \in {"FORMAT_DISK", "CREATE_DISK"}
    BY <1>1 DEF ControlInv, StepsOfEvents, EventsOfActions, ActionsOf
  <1>3. CliTypeOK'
    BY <1>1 DEF ControlInv, CliTypeOK
  <1>4. StepsOfEvents'
    BY <1>2 DEF StepsOfEvents, Calls
  <1>5. EventsOfActions'
    BY <1>2 DEF EventsOfActions, ActionsOf
  <1>6. ParsedSoFar'
    BY <1>1, ParsedStays
  <1>7. TrackedInv'
    BY <1>2, <1>5, OthersIdle DEF TrackedInv
  <1> QED
    BY <1>3, <1>4, <1>5, <1>6, <1>7, CommandInvNextIs DEF Working, ControlInv

LEMMA FormatAnswerWorks ==
  ASSUME Working, NEW yes \in BOOLEAN, FormatAnswer(yes)
  PROVE  Working'
  <1>1. ControlInv /\ Promised /\ step = "confirm"
    BY CommandInvIs DEF Working, FormatAnswer
  <1>2. CASE Goto("format") /\ UNCHANGED <<vars, local>>
    <2>1. Promised' /\ UNCHANGED <<vars, local>>
      BY <1>1, <1>2, Stays
    <2>2. call'.op = "none" /\ pc' = "off" /\ loaded_inode_n' = Null
      BY <1>1, <2>1 DEF ControlInv, StepsOfEvents, Calls, vars, object
    <2>3. disk' \in {"missing", "unusable", "blank", "formatted"}
      BY <1>1, <1>2 DEF ControlInv, CliTypeOK, Goto
    <2> QED
      BY <1>1, <1>2, <2>1, <2>2, <2>3, FormatAhead DEF Goto
  <1>3. CASE Finish("declined")
    BY <1>1, <1>3, FinishesOtherwise
  <1> QED
    BY <1>2, <1>3 DEF FormatAnswer

LEMMA CreateDiskWorks ==
  ASSUME Working, CreateDisk
  PROVE  Working'
  <1>1. ControlInv /\ Promised /\ step = "create"
    BY CommandInvIs DEF Working, CreateDisk
  <1>2. pc = "off" /\ loaded_inode_n = Null /\ call.op = "none"
    BY <1>1 DEF ControlInv, StepsOfEvents, Calls
  <1>3. Promised'
    BY <1>1, <1>2, Empties DEF CreateDisk
  <1>4. UNCHANGED <<pc, call, loaded_inode_n, line, cmd, local, report>>
        /\ disk' \in {"blank", "unusable"} /\ step' = "format"
    BY DEF CreateDisk, object
  <1> QED
    BY <1>1, <1>2, <1>3, <1>4, FormatAhead

(* While the image is formatted, only the step matters.                    *)
LEMMA FormattingWorks ==
  ASSUME Working, Promised', GoesOn, step \in {"format", "formatting"},
         step' = "formatting", local' = local
  PROVE  Working'
  <1>1. ControlInv
    BY CommandInvIs DEF Working
  <1>2. local' = NoLocal /\ report = "none"
        /\ cmd.action_type \in {"FORMAT_DISK", "CREATE_DISK"}
    BY <1>1 DEF ControlInv, StepsOfEvents, EventsOfActions, ActionsOf
  <1>3. ControlInv'
    BY <1>2, NoLocalOK, ControlGoesOn DEF ActionsOf
  <1>4. TrackedInv'
    BY <1>2, <1>3, OthersIdle DEF TrackedInv, ControlInv, GoesOn
  <1> QED
    BY <1>3, <1>4, CommandInvNextIs DEF Working

LEMMA FormatDiskWorks ==
  ASSUME Working, FormatDisk
  PROVE  Working'
  <1>1. Promised /\ step = "format"
    BY DEF Working, FormatDisk
  <1>2. CASE /\ FormatCall /\ disk' = "formatted" /\ step' = "formatting"
             /\ UNCHANGED <<line, cmd, report, local>>
    <2>1. Promised' /\ call'.op = "format" /\ loaded_inode_n' = Null
      BY <1>1, <1>2, Formats
    <2>2. GoesOn
      BY <1>1, <1>2, <2>1 DEF GoesOn, Calls, CallsOf
    <2> QED
      BY <1>1, <1>2, <2>1, <2>2, FormattingWorks
  <1>3. CASE Finish("error")
    BY <1>1, <1>3, FinishesOtherwise
  <1> QED
    BY <1>2, <1>3 DEF FormatDisk

(* An event whose report says nothing of the files.                        *)
LEMMA FinishesPlainly ==
  ASSUME Working, Finish("done"), step \notin {"parse", "none"},
         \/ cmd.action_type \in {"FORMAT_DISK", "CREATE_DISK", "RENAME_FILE"}
         \/ cmd.action_type = "DISPLAY_STATS" /\ cmd.file_inode # -1
  PROVE  Working'
  <1>1. cmd' = cmd
    BY DEF Finish
  <1>2. ImportIsWhole' /\ ReportsAreTrue'
    BY <1>1 DEF ImportIsWhole, ReportsAreTrue, Importing
  <1> QED
    BY <1>2, Finishes DEF Finish, SameButOut

LEMMA FormatDoneWorks ==
  ASSUME Working, FormatDone
  PROVE  Working'
  <1>1. ControlInv /\ step = "formatting" /\ Finish("done")
    BY CommandInvIs DEF Working, FormatDone
  <1>2. cmd.action_type \in {"FORMAT_DISK", "CREATE_DISK"}
    BY <1>1 DEF ControlInv, EventsOfActions, ActionsOf
  <1> QED
    BY <1>1, <1>2, FinishesPlainly

LEMMA CallThrewWorks ==
  ASSUME Working, CallThrew
  PROVE  Working'
  <1>1. step # "parse"
    BY DEF CallThrew, Calls
  <1> QED
    BY <1>1, FinishesOtherwise DEF CallThrew

LEMMA KillWorks ==
  ASSUME Working, Kill
  PROVE  Working'
  BY FinishesOtherwise DEF Kill


-----------------------------------------------------------------------------
(* A step of the call that an event waits for.                             *)
LEMMA Serves ==
  ASSUME Working, FileSystemStep
  PROVE  /\ Promised' /\ GoesOn /\ step' = step /\ local' = local
         /\ step \in Calls /\ call.op \in CallsOf[step] /\ call.op # "none"
         /\ RunsOn \/ HasEnded
         /\ LocalOK'
  <1>1. ControlInv /\ Promised /\ Step /\ UNCHANGED cliVars
    BY CommandInvIs DEF Working, FileSystemStep
  <1>2. Promised' /\ call.op # "none" /\ (RunsOn \/ HasEnded)
    BY <1>1, StepGoesOn
  <1>3. step \in Calls /\ call.op \in CallsOf[step]
    BY <1>1, <1>2 DEF ControlInv, StepsOfEvents
  <1>4. call'.op \in CallsOf[step'] \cup {"none"}
    BY <1>1, <1>2, <1>3 DEF RunsOn, HasEnded, cliVars
  <1>5. pc' \in {"off", "format"} => loaded_inode_n' = Null
    BY <1>1, UnloadedStays DEF ControlInv, StepsOfEvents
  <1>6. GoesOn
    BY <1>1, <1>3, <1>4, <1>5 DEF GoesOn, cliVars, Calls
  <1>7. LocalOK'
    BY <1>1 DEF ControlInv, CliTypeOK, LocalOK, cliVars
  <1> QED
    BY <1>1, <1>2, <1>3, <1>6, <1>7 DEF cliVars

(* The calls that are the last of their event.                             *)
LEMMA LastGoesOn ==
  ASSUME Working, Promised', GoesOn, step \in {"mounted", "last"}, step' = "last",
         local' = local, cmd.action_type \in {"DELETE_FILE", "RENAME_FILE"},
         RemoveTracked'
  PROVE  Working'
  <1>1. ControlInv
    BY CommandInvIs DEF Working
  <1>2. LocalOK'
    BY <1>1 DEF ControlInv, CliTypeOK, LocalOK
  <1>3. ControlInv'
    BY <1>2, ControlGoesOn DEF ActionsOf
  <1>4. report' = "none"
    BY NoReport DEF GoesOn
  <1>5. TrackedInv'
    BY <1>3, <1>4, OthersIdle DEF TrackedInv, ControlInv, GoesOn
  <1> QED
    BY <1>3, <1>5, CommandInvNextIs DEF Working

LEMMA CommandInode ==
  ASSUME Working
  PROVE  cmd.file_inode \in Int
  BY DEF Working, CommandInv, ParsedSoFar

LEMMA DeleteWorks ==
  ASSUME Working, Delete
  PROVE  Working'
  <1>1. Promised /\ step = "mounted" /\ pc = "idle" /\ cmd.action_type = "DELETE_FILE"
    BY DEF Working, Delete, Ready
  <1>2. CASE BadInode(cmd.file_inode)
    BY <1>1, <1>2, BadInodeAtStart
  <1>3. CASE cmd.file_inode \in InodeNs /\ RemoveCall(cmd.file_inode)
             /\ Goto("last") /\ UNCHANGED local
    <2>1. PICK n \in InodeNs : n = cmd.file_inode
      BY <1>3
    <2>2. /\ Promised' /\ SameFiles
          /\ IF n \in UsedInodes THEN Asks("remove", n) ELSE Rests' /\ result' = Refused
      BY <1>1, <1>3, <2>1, Removes
    <2>3. GoesOn
      BY <1>1, <1>3, <2>2 DEF GoesOn, Goto, Calls, CallsOf, Asks, Rests
    <2>4. RemoveTracked'
      BY <1>3, <2>1, <2>2 DEF RemoveTracked, Goto, Asks, Rests, SameFiles
    <2> QED
      BY <1>1, <1>3, <2>2, <2>3, <2>4, LastGoesOn DEF Goto
  <1> QED
    BY <1>2, <1>3 DEF Delete

LEMMA RenameWorks ==
  ASSUME Working, Rename
  PROVE  Working'
  <1>1. Promised /\ step = "mounted" /\ pc = "idle" /\ cmd.action_type = "RENAME_FILE"
    BY DEF Working, Rename, Ready
  <1>2. CASE BadInode(cmd.file_inode)
    BY <1>1, <1>2, BadInodeAtStart
  <1>3. CASE Finish("none")
    BY <1>1, <1>3, FinishesOtherwise
  <1>4. CASE /\ cmd.file_inode \in InodeNs
             /\ RenameCall(cmd.file_inode, cmd.in_file_name \in LongNames)
             /\ Goto("last") /\ UNCHANGED local
    <2>1. /\ Promised'
          /\ Asks("rename", cmd.file_inode) \/ (Rests' /\ result' = Refused)
      <3>1. PICK n \in InodeNs : n = cmd.file_inode
        BY <1>4
      <3>2. RenameCall(n, TRUE) \/ RenameCall(n, FALSE)
        BY <1>4, <3>1 DEF RenameCall
      <3> QED
        BY <1>1, <3>1, <3>2, Renames
    <2>2. GoesOn
      BY <1>1, <1>4, <2>1 DEF GoesOn, Goto, Calls, CallsOf, Asks, Rests
    <2>3. RemoveTracked'
      BY <1>1, <1>4 DEF RemoveTracked, Goto
    <2> QED
      BY <1>1, <1>4, <2>1, <2>2, <2>3, LastGoesOn DEF Goto
  <1> QED
    BY <1>2, <1>3, <1>4 DEF Rename

LEMMA LastCallWorks ==
  ASSUME Working, LastCall
  PROVE  Working'
  <1>1. ControlInv /\ TrackedInv /\ Promised
    BY CommandInvIs DEF Working
  <1>2. step = "last" /\ pc = "idle" /\ result.how # "threw" /\ Finish("done")
    BY DEF LastCall, Ready
  <1>3. cmd.action_type \in {"DELETE_FILE", "RENAME_FILE"}
    BY <1>1, <1>2 DEF ControlInv, EventsOfActions, ActionsOf
  <1>4. CASE cmd.action_type = "RENAME_FILE"
    BY <1>2, <1>4, FinishesPlainly
  <1>5. CASE cmd.action_type = "DELETE_FILE"
    <2>1. call.op = "none"
      BY <1>1, <1>2, CallRuns DEF Promised
    <2>2. cmd.file_inode \notin UsedInodes
      BY <1>1, <1>2, <1>5, <2>1 DEF TrackedInv, RemoveTracked
    <2>3. SameFiles /\ cmd' = cmd
      BY <1>1, <1>2, Ends DEF Finish, ControlInv, StepsOfEvents
    <2>4. ImportIsWhole' /\ ReportsAreTrue'
      BY <1>5, <2>2, <2>3 DEF ImportIsWhole, ReportsAreTrue, Importing, SameFiles
    <2> QED
      BY <1>2, <2>4, Finishes DEF Finish, SameButOut
  <1> QED
    BY <1>3, <1>4, <1>5

(* The calls whose events track nothing, or one file at most.              *)
LEMMA PlainCallWorks ==
  ASSUME Working, FileSystemStep, step \in {"mounted", "formatting", "last"}
  PROVE  Working'
  <1>1. /\ Promised' /\ GoesOn /\ step' = step /\ local' = local
        /\ call.op \in CallsOf[step] /\ call.op # "none" /\ (RunsOn \/ HasEnded)
    BY Serves
  <1>2. ControlInv /\ TrackedInv /\ report = "none"
    BY CommandInvIs, NoReport DEF Working
  <1>3. CASE step = "mounted"
    <2>1. local' = NoLocal
      BY <1>1, <1>2, <1>3 DEF ControlInv, StepsOfEvents
    <2> QED
      BY <1>1, <1>2, <1>3, <2>1, MountedWorks
  <1>4. CASE step = "formatting"
    BY <1>1, <1>4, FormattingWorks
  <1>5. CASE step = "last"
    <2>1. cmd.action_type \in {"DELETE_FILE", "RENAME_FILE"} /\ cmd' = cmd
      BY <1>1, <1>2, <1>5 DEF ControlInv, EventsOfActions, ActionsOf, GoesOn
    <2>2. RemoveTracked'
      <3>1. CASE RunsOn
        <4>1. call'.inode_n = call.inode_n /\ call'.op = call.op
          BY <1>1, <1>5, <3>1 DEF RunsOn, CallsOf
        <4> QED
          BY <1>1, <1>2, <1>5, <2>1, <4>1 DEF TrackedInv, RemoveTracked
      <3>2. CASE HasEnded
        <4>1. ASSUME cmd.action_type = "DELETE_FILE", call.op = "remove"
              PROVE  cmd.file_inode \notin UsedInodes'
          BY <1>2, <1>5, <3>2, <4>1, RemoveEnds
          DEF TrackedInv, RemoveTracked, Working, FileSystemStep
        <4>2. cmd.action_type = "DELETE_FILE" => call.op = "remove"
          BY <1>1, <1>2, <1>5 DEF TrackedInv, RemoveTracked
        <4> QED
          BY <2>1, <3>2, <4>1, <4>2 DEF RemoveTracked, HasEnded
      <3> QED
        BY <1>1, <3>1, <3>2
    <2> QED
      BY <1>1, <1>5, <2>1, <2>2, LastGoesOn
  <1> QED
    BY <1>3, <1>4, <1>5


-----------------------------------------------------------------------------
(* An export.  First what two parts of a sequence are together.            *)
JoinUp(s, a, b) == SubSeq(s, 1, a) \o SubSeq(s, a + 1, b) = SubSeq(s, 1, b)

LEMMA PartsJoin ==
  ASSUME NEW S, NEW s \in Seq(S), NEW a \in Nat, NEW b \in Nat, a <= b, b <= Len(s)
  PROVE  JoinUp(s, a, b)
  <1> DEFINE p == SubSeq(s, 1, a)
             q == SubSeq(s, a + 1, b)
             r == SubSeq(s, 1, b)
  <1>1. PICK d \in Nat : b = a + d
    <2>1. b - a \in Nat /\ b = a + (b - a)
      OBVIOUS
    <2> QED
      BY <2>1
  <1>2. p \in Seq(S) /\ Len(p) = a /\ \A k \in 1 .. a : p[k] = s[k]
    OBVIOUS
  <1>3. q \in Seq(S) /\ Len(q) = d /\ \A k \in 1 .. d : q[k] = s[a + k]
    BY <1>1
  <1>4. r \in Seq(S) /\ Len(r) = b /\ \A k \in 1 .. b : r[k] = s[k]
    OBVIOUS
  <1> HIDE DEF p, q, r
  <1>5. r = [k \in 1 .. b |-> r[k]]
    BY <1>4, SeqIs
  <1>6. p \o q = [k \in 1 .. a + d |-> IF k <= a THEN p[k] ELSE q[k - a]]
    <2> SUFFICES ASSUME NEW x \in Seq(S), NEW y \in Seq(S), Len(x) = a, Len(y) = d
                 PROVE  x \o y = [k \in 1 .. a + d |-> IF k <= a THEN x[k] ELSE y[k - a]]
      BY <1>2, <1>3
    <2>1. x \o y = [k \in 1 .. Len(x) + Len(y) |->
                      IF k <= Len(x) THEN x[k] ELSE y[k - Len(x)]]
      BY JoinIs
    <2> QED
      BY <2>1
  <1>7. \A k \in 1 .. a + d : (IF k <= a THEN p[k] ELSE q[k - a]) = r[k]
    <2>1. SUFFICES ASSUME NEW k \in 1 .. a + d
                   PROVE  (IF k <= a THEN p[k] ELSE q[k - a]) = r[k]
      OBVIOUS
    <2>2. r[k] = s[k]
      BY <1>1, <1>4
    <2>3. CASE k <= a
      BY <1>2, <2>2, <2>3
    <2>4. CASE ~(k <= a)
      <3>1. k - a \in 1 .. d /\ a + (k - a) = k
        BY <2>4
      <3> QED
        BY <1>3, <2>2, <2>4, <3>1
    <2> QED
      BY <2>3, <2>4
  <1>8. p \o q = r
    BY <1>1, <1>5, <1>6, <1>7
  <1> QED
    BY Zenon, <1>8 DEF p, q, r, JoinUp

LEMMA WholeIs ==
  ASSUME NEW S, NEW s \in Seq(S)
  PROVE  SubSeq(s, 1, Len(s)) = s /\ SubSeq(s, 1, 0) = <<>>
  <1>1. Len(s) \in Nat
    OBVIOUS
  <1>2. PICK z \in Nat : z = Len(s)
    BY <1>1
  <1> DEFINE r == SubSeq(s, 1, z)
  <1>3. r \in Seq(S) /\ Len(r) = z /\ \A k \in 1 .. z : r[k] = s[k]
    BY <1>2
  <1> HIDE DEF r
  <1>4. r = [k \in 1 .. z |-> r[k]] /\ s = [k \in 1 .. z |-> s[k]]
    BY <1>2, <1>3, SeqIs
  <1>5. r = s
    BY <1>3, <1>4
  <1>6. SubSeq(s, 1, 0) = <<>>
    OBVIOUS
  <1> QED
    BY <1>2, <1>5, <1>6 DEF r

LEMMA ExportGoesOn ==
  ASSUME Working, Promised', GoesOn, LocalOK',
         step' \in {"export_size", "export", "exported"},
         cmd.action_type = "READ_DATA", ExportTracked'
  PROVE  Working'
  <1>1. ControlInv'
    BY ControlGoesOn DEF ActionsOf
  <1>2. report' = "none"
    BY NoReport DEF GoesOn
  <1>3. TrackedInv'
    BY <1>1, <1>2, OthersIdle DEF TrackedInv, ControlInv, GoesOn
  <1> QED
    BY <1>1, <1>3, CommandInvNextIs DEF Working

LEMMA ExportOpenWorks ==
  ASSUME Working, ExportOpen
  PROVE  Working'
  <1>1. Promised /\ step = "mounted" /\ pc = "idle" /\ cmd.action_type = "READ_DATA"
    BY DEF Working, ExportOpen, Ready
  <1>2. CASE BadInode(cmd.file_inode)
    BY <1>1, <1>2, BadInodeAtStart
  <1>3. CASE cmd.file_inode \in InodeNs /\ LookupCall("length", cmd.file_inode)
             /\ Goto("export_size") /\ UNCHANGED local
    <2>1. PICK n \in InodeNs : n = cmd.file_inode
      BY <1>3
    <2>2. /\ Promised'
          /\ IF n \in UsedInodes THEN Asks("length", n) ELSE Rests' /\ result' = Refused
      BY <1>1, <1>3, <2>1, Lookups
    <2>3. GoesOn
      BY <1>1, <1>3, <2>2 DEF GoesOn, Goto, Calls, CallsOf, Asks, Rests
    <2>4. local' = NoLocal
      BY <1>1, <1>3 DEF Working, CommandInv, StepsOfEvents
    <2>5. ExportTracked'
      BY <1>3, <2>1, <2>2, <2>4 DEF ExportTracked, Goto, Asks, Rests, Refused
    <2> QED
      BY <1>1, <1>3, <2>2, <2>3, <2>4, <2>5, ExportGoesOn, NoLocalOK DEF Goto
  <1> QED
    BY <1>2, <1>3 DEF ExportOpen

LEMMA ExportSizeWorks ==
  ASSUME Working, ExportSize
  PROVE  Working'
  <1>1. Promised /\ step = "export_size" /\ pc = "idle" /\ ControlInv /\ ExportTracked
    BY DEF Working, ExportSize, Ready, CommandInv, ControlInv
  <1>2. CASE Finish("absent")
    BY <1>1, <1>2, FinishesOtherwise
  <1>3. CASE /\ result.how = "ok" /\ LookupCall("name", cmd.file_inode)
             /\ Goto("export") /\ local' = [local EXCEPT !.size = result.n]
    <2>1. call.op = "none"
      BY <1>1, CallRuns DEF Promised
    <2>2. PICK n \in UsedInodes : n = cmd.file_inode
      BY <1>1, <1>3, <2>1 DEF ExportTracked
    <2>3. PICK z : z = result.n /\ z = inodes[n].file_len
      BY <1>1, <1>3, <2>1, <2>2 DEF ExportTracked
    <2>4. local = NoLocal
      BY <1>1 DEF ExportTracked
    <2>5. Promised' /\ SameFiles /\ Asks("name", n)
      BY <1>1, <1>3, <2>2, Lookups
    <2>6. GoesOn
      BY <1>1, <1>3, <2>5 DEF GoesOn, Goto, Calls, CallsOf, Asks
    <2>7. /\ DOMAIN local' = DOMAIN NoLocal /\ local'.inode_n = Null /\ local'.n = 0
          /\ local'.host = <<>> /\ local'.before = <<>> /\ local'.out = <<>>
          /\ local'.size = z
      BY <1>3, <2>3, <2>4 DEF NoLocal
    <2>8. n \in UsedInodes' /\ inodes'[n].file_len = z /\ FileWords(n)' \in Seq(Words)
          /\ z \in Nat
      <3>1. FilesAre /\ FilesAre'
        BY <1>1, <2>5, FilesAreWords, FilesAreNext DEF Promised
      <3>2. n \in InodeNs
        BY DEF UsedInodes
      <3> QED
        BY <2>3, <2>5, <3>1, <3>2 DEF FilesAre, SameFiles
    <2>9. LocalOK'
      <3>1. <<>> \in Seq(Words) /\ Null \in Int /\ 0 \in Nat
        BY DEF Null
      <3> QED
        BY <2>7, <2>8, <3>1 DEF LocalOK
    <2>10. ExportTracked'
      <3>1. cmd' = cmd /\ step' = "export"
        BY <1>3 DEF Goto
      <3>2. Len(local'.out) = 0 /\ SubSeq(FileWords(n)', 1, 0) = <<>>
        BY <2>7, <2>8, WholeIs
      <3> QED
        BY <2>2, <2>7, <2>8, <3>1, <3>2 DEF ExportTracked
    <2> QED
      <3>1. cmd.action_type = "READ_DATA" /\ step' = "export"
        BY <1>1, <1>3 DEF ControlInv, EventsOfActions, ActionsOf, Goto
      <3> QED
        BY <2>5, <2>6, <2>9, <2>10, <3>1, ExportGoesOn
  <1> QED
    BY <1>1, <1>2, <1>3 DEF ExportSize


(* The words got so far, in numbers of their own.                          *)
LEMMA ExportNumbers ==
  ASSUME Working, step \in {"export", "exported"}
  PROVE  \E f \in UsedInodes, k \in Nat, n \in Nat, z \in Nat :
           /\ f = cmd.file_inode /\ n = local.n /\ z = local.size
           /\ k = Len(local.out) /\ k <= n /\ n <= z /\ z = inodes[f].file_len
           /\ FileWords(f) \in Seq(Words) /\ Len(FileWords(f)) = z
           /\ local.out = SubSeq(FileWords(f), 1, k)
           /\ step = "export" => k = n
           /\ cmd.action_type = "READ_DATA"
  <1>1. Promised /\ ControlInv /\ ExportTracked
    BY DEF Working, CommandInv, ControlInv
  <1>2. PICK f \in UsedInodes : f = cmd.file_inode
    BY <1>1 DEF ExportTracked
  <1>3. FileWords(f) \in Seq(Words) /\ inodes[f].file_len \in Nat
        /\ Len(FileWords(f)) = inodes[f].file_len
    <2>1. FilesAre /\ f \in InodeNs
      BY <1>1, FilesAreWords DEF Promised, UsedInodes
    <2> QED
      BY <2>1 DEF FilesAre
  <1>4. PICK n \in Nat, z \in Nat :
          n = local.n /\ z = local.size /\ z = inodes[f].file_len
    BY <1>1, <1>2, <1>3 DEF ExportTracked, ControlInv, CliTypeOK
  <1>5. Len(local.out) <= n /\ n <= z /\ local.out = SubSeq(FileWords(f), 1, Len(local.out))
        /\ (step = "export" => Len(local.out) = n)
    BY <1>1, <1>2, <1>4 DEF ExportTracked
  <1>6. Len(local.out) \in Nat
    BY <1>3, <1>5
  <1>7. PICK k \in Nat : k = Len(local.out)
    BY <1>6
  <1>8. cmd.action_type = "READ_DATA"
    BY <1>1 DEF ControlInv, EventsOfActions, ActionsOf
  <1> QED
    BY <1>2, <1>3, <1>4, <1>5, <1>7, <1>8


(* What is said of the files, for one of them.                             *)
LEMMA ThatFileStays ==
  ASSUME Promised, Promised', SameFiles, NEW f \in UsedInodes
  PROVE  /\ f \in UsedInodes' /\ FileWords(f)' = FileWords(f)
         /\ inodes'[f].file_len = inodes[f].file_len
  BY DEF SameFiles

LEMMA ExportChunkWorks ==
  ASSUME Working, ExportChunk
  PROVE  Working' /\ Disciplined
  <1>1. Promised /\ step = "export" /\ pc = "idle"
    BY DEF Working, ExportChunk, Ready
  <1>2. PICK f \in UsedInodes, k \in Nat, n \in Nat, z \in Nat :
          /\ f = cmd.file_inode /\ n = local.n /\ z = local.size
          /\ k = Len(local.out) /\ k = n /\ n <= z /\ z = inodes[f].file_len
          /\ FileWords(f) \in Seq(Words) /\ Len(FileWords(f)) = z
          /\ local.out = SubSeq(FileWords(f), 1, k)
          /\ cmd.action_type = "READ_DATA"
    BY <1>1, ExportNumbers
  <1>3. CASE Finish("error")
    <2>1. call'.op = "none"
      BY <1>1, <1>3, Ends DEF Finish
    <2> QED
      BY <1>1, <1>3, <2>1, FinishesOtherwise, NothingStarts
  <1>4. CASE local.n = local.size /\ Finish("done")
    <2>1. Promised' /\ SameFiles /\ call'.op = "none"
      BY <1>1, <1>4, Ends DEF Finish
    <2>2. local.out = FileWords(f)
      <3>1. FileWords(f) \in Seq(Words)
        BY <1>2
      <3>2. SubSeq(FileWords(f), 1, Len(FileWords(f))) = FileWords(f)
        BY Zenon, <3>1, WholeIs
      <3>3. k = Len(FileWords(f)) /\ local.out = SubSeq(FileWords(f), 1, k)
        BY <1>2, <1>4
      <3> QED
        BY <3>2, <3>3
    <2>3. local'.out = FileWords(f)' /\ f \in UsedInodes' /\ cmd' = cmd
      BY <1>1, <1>4, <2>1, <2>2, ThatFileStays DEF Finish
    <2>4. ReportsAreTrue'
      BY <1>2, <2>3 DEF ReportsAreTrue
    <2>5. ImportIsWhole'
      BY <1>2, <2>3 DEF ImportIsWhole, Importing
    <2> QED
      BY <1>1, <1>4, <2>1, <2>4, <2>5, Finishes, NothingStarts DEF Finish, SameButOut
  <1>5. CASE LET d == Smaller(ChunkSize, local.size - local.n)
             IN  /\ local.n < local.size
                 /\ ReadCall(cmd.file_inode, ExportOffset, d)
                 /\ Goto("exported")
                 /\ local' = [local EXCEPT !.n = @ + d]
    <2>1. PICK d \in Nat \ {0} :
            /\ n < z /\ n + d <= z /\ ReadCall(f, n, d)
            /\ local' = [local EXCEPT !.n = n + d]
      <3>1. PICK d : d = Smaller(ChunkSize, z - n)
        OBVIOUS
      <3>2. n < z
        BY <1>2, <1>5
      <3>3. d \in Nat \ {0} /\ n + d <= z
        BY <3>1, <3>2, CliAssumption DEF Smaller
      <3>4. ReadCall(f, n, d) /\ local' = [local EXCEPT !.n = n + d]
        BY <1>2, <1>5, <3>1 DEF ExportOffset
      <3> QED
        BY <3>2, <3>3, <3>4
    <2>2. /\ Promised' /\ SameFiles /\ Asks("read", f) /\ Disciplined
          /\ call'.offset = n /\ call'.length = d
      <3>1. n # inodes[f].file_len
        BY <1>2, <2>1
      <3> QED
        BY <1>1, <2>1, <3>1, Reads
    <2>3. step' = "exported" /\ cmd' = cmd
      BY <1>5 DEF Goto
    <2>4. GoesOn
      BY <1>1, <1>5, <2>2 DEF GoesOn, Goto, Calls, CallsOf, Asks
    <2>5. LocalOK /\ local'.n = n + d /\ local'.size = z /\ local'.out = local.out
          /\ local'.inode_n = local.inode_n /\ local'.host = local.host
          /\ local'.before = local.before /\ DOMAIN local' = DOMAIN NoLocal
      BY <1>2, <2>1 DEF Working, CommandInv, CliTypeOK, LocalOK, NoLocal
    <2>6. LocalOK'
      BY <1>2, <2>1, <2>5 DEF LocalOK
    <2>7. f \in UsedInodes' /\ FileWords(f)' = FileWords(f) /\ inodes'[f].file_len = z
      BY <1>1, <1>2, <2>2, ThatFileStays
    <2>8. call'.op = "read" /\ call'.inode_n = f /\ (n + d) - n = d
      BY <2>2 DEF Asks
    <2>9. ExportTracked'
      <3>1. local'.out = SubSeq(FileWords(f)', 1, n) /\ Len(local'.out) = n /\ n <= n + d
        BY <1>2, <2>5, <2>7
      <3> QED
        BY <1>2, <2>1, <2>2, <2>3, <2>5, <2>7, <2>8, <3>1 DEF ExportTracked
    <2> QED
      BY <1>2, <2>2, <2>3, <2>4, <2>6, <2>9, ExportGoesOn
  <1> QED
    BY <1>1, <1>3, <1>4, <1>5 DEF ExportChunk

LEMMA ExportWriteWorks ==
  ASSUME Working, ExportWrite
  PROVE  Working'
  <1>1. Promised /\ step = "exported" /\ pc = "idle" /\ ExportTracked
    BY DEF Working, CommandInv, ExportWrite, Ready
  <1>2. PICK f \in UsedInodes, k \in Nat, n \in Nat, z \in Nat :
          /\ f = cmd.file_inode /\ n = local.n /\ z = local.size
          /\ k = Len(local.out) /\ k <= n /\ n <= z /\ z = inodes[f].file_len
          /\ FileWords(f) \in Seq(Words) /\ Len(FileWords(f)) = z
          /\ local.out = SubSeq(FileWords(f), 1, k)
          /\ cmd.action_type = "READ_DATA"
    BY <1>1, ExportNumbers
  <1>3. CASE Finish("error")
    BY <1>1, <1>3, FinishesOtherwise
  <1>4. CASE /\ result.how = "ok" /\ Goto("export")
             /\ local' = [local EXCEPT !.out = @ \o result.data]
             /\ UNCHANGED vars
    <2>1. Promised' /\ SameFiles
      BY <1>1, <1>4, Stays
    <2>2. call.op = "none" /\ call'.op = "none" /\ pc' = "idle"
      BY <1>1, <1>4, CallRuns DEF Promised, vars
    <2>3. result.data = SubSeq(FileWords(f), k + 1, n)
      BY <1>1, <1>2, <1>4, <2>2 DEF ExportTracked
    <2>4. PICK x : /\ local' = [local EXCEPT !.out = x] /\ x = SubSeq(FileWords(f), 1, n)
                   /\ Len(x) = n
      <3> PICK w \in Seq(Words) : w = FileWords(f) /\ Len(w) = z
        BY <1>2
      <3>4. /\ SubSeq(w, 1, k) \o SubSeq(w, k + 1, n) = SubSeq(w, 1, n)
            /\ Len(SubSeq(w, 1, n)) = n
        <4>1. k <= n /\ n <= Len(w)
          BY <1>2
        <4>2. JoinUp(w, k, n)
          BY <4>1, PartsJoin
        <4>3. Len(SubSeq(w, 1, n)) = n
          BY <4>1
        <4> QED
          BY Zenon, <4>2, <4>3 DEF JoinUp
      <3>1. PICK x : x = local.out \o result.data
        OBVIOUS
      <3>2. x = SubSeq(FileWords(f), 1, n) /\ Len(x) = n
        BY <1>2, <2>3, <3>1, <3>4
      <3>3. local' = [local EXCEPT !.out = x]
        BY <1>4, <3>1
      <3> QED
        BY <3>2, <3>3
    <2>5. LocalOK /\ local'.n = n /\ local'.size = z /\ local'.out = x
          /\ local'.inode_n = local.inode_n /\ local'.host = local.host
          /\ local'.before = local.before /\ DOMAIN local' = DOMAIN NoLocal
      BY <1>2, <2>4 DEF Working, CommandInv, CliTypeOK, LocalOK, NoLocal
    <2>6. LocalOK'
      BY <1>2, <2>5 DEF LocalOK
    <2>7. f \in UsedInodes' /\ FileWords(f)' = FileWords(f) /\ inodes'[f].file_len = z
      BY <1>1, <1>2, <2>1, ThatFileStays
    <2>8. GoesOn
      BY <1>1, <1>4, <2>2 DEF GoesOn, Goto, Calls, CallsOf
    <2>9. step' = "export" /\ cmd' = cmd
      BY <1>4 DEF Goto
    <2>10. ExportTracked'
      BY <1>2, <2>4, <2>5, <2>7, <2>9 DEF ExportTracked
    <2> QED
      BY <1>2, <2>1, <2>6, <2>8, <2>9, <2>10, ExportGoesOn
  <1> QED
    BY <1>1, <1>3, <1>4 DEF ExportWrite


LEMMA ExportCallWorks ==
  ASSUME Working, FileSystemStep, step \in {"export_size", "export", "exported"}
  PROVE  Working'
  <1>1. /\ Promised' /\ GoesOn /\ step' = step /\ local' = local
        /\ call.op \in CallsOf[step] /\ call.op # "none" /\ (RunsOn \/ HasEnded)
        /\ LocalOK'
    BY Serves
  <1>2. Promised /\ Step /\ ControlInv /\ ExportTracked /\ cmd' = cmd
    BY DEF Working, CommandInv, ControlInv, FileSystemStep, cliVars
  <1>3. cmd.action_type = "READ_DATA"
    BY <1>2 DEF ControlInv, EventsOfActions, ActionsOf
  <1>4. SameFiles
    BY <1>1, <1>2, ReadersKeepFiles DEF CallsOf
  <1>5. CASE step = "export_size"
    <2>1. call.op = "length"
      BY <1>1, <1>5 DEF CallsOf
    <2>2. PICK f : f = cmd.file_inode /\ f = call.inode_n
      BY <1>2, <1>5, <2>1 DEF ExportTracked
    <2>3. local = NoLocal
      BY <1>2, <1>5 DEF ExportTracked
    <2>4. CASE RunsOn
      <3>1. call'.op = "length" /\ call'.inode_n = f
        BY <2>1, <2>2, <2>4 DEF RunsOn
      <3>2. ExportTracked'
        BY <1>1, <1>2, <1>5, <2>2, <2>3, <3>1 DEF ExportTracked
      <3> QED
        BY <1>1, <1>3, <1>5, <3>2, ExportGoesOn
    <2>5. CASE HasEnded
      <3>1. f \in UsedInodes /\ f \in UsedInodes'
            /\ inodes'[f].file_len = inodes[f].file_len
        BY <1>1, <1>2, <1>4, <2>1, <2>2, FileOfCall, ThatFileStays
      <3>2. result'.n = inodes'[f].file_len
        BY <1>2, <2>1, <2>2, <2>5, <3>1, LengthEnds DEF LengthTold
      <3>3. call'.op = "none"
        BY <2>5 DEF HasEnded
      <3>4. ExportTracked'
        BY <1>1, <1>2, <1>5, <2>2, <2>3, <3>1, <3>2, <3>3 DEF ExportTracked
      <3> QED
        BY <1>1, <1>3, <1>5, <3>4, ExportGoesOn
    <2> QED
      BY <1>1, <2>4, <2>5
  <1>6. CASE step \in {"export", "exported"}
    <2>1. PICK f \in UsedInodes, k \in Nat, n \in Nat, z \in Nat :
            /\ f = cmd.file_inode /\ n = local.n /\ z = local.size
            /\ k = Len(local.out) /\ k <= n /\ n <= z /\ z = inodes[f].file_len
            /\ FileWords(f) \in Seq(Words) /\ Len(FileWords(f)) = z
            /\ local.out = SubSeq(FileWords(f), 1, k)
            /\ (step = "export" => k = n)
      BY <1>6, ExportNumbers
    <2>2. f \in UsedInodes' /\ FileWords(f)' = FileWords(f) /\ inodes'[f].file_len = z
      BY <1>1, <1>2, <1>4, <2>1, ThatFileStays
    <2>3. CASE step = "export"
      <3>1. ExportTracked'
        BY <1>1, <1>2, <2>1, <2>2, <2>3 DEF ExportTracked
      <3> QED
        BY <1>1, <1>3, <1>6, <3>1, ExportGoesOn
    <2>4. CASE step = "exported"
      <3>1. call.op = "read"
        BY <1>1, <2>4 DEF CallsOf
      <3>2. call.inode_n = f /\ call.offset = k /\ call.length = n - k
        BY <1>2, <2>1, <2>4, <3>1 DEF ExportTracked
      <3>3. CASE RunsOn
        <4>1. call'.op = "read" /\ call'.inode_n = f /\ call'.offset = k
              /\ call'.length = n - k
          BY <3>1, <3>2, <3>3 DEF RunsOn
        <4>2. ExportTracked'
          BY <1>1, <1>2, <2>1, <2>2, <2>4, <4>1 DEF ExportTracked
        <4> QED
          BY <1>1, <1>3, <1>6, <4>2, ExportGoesOn
      <3>4. CASE HasEnded
        <4>1. WordsTold
          BY <1>2, <3>1, <3>4, ReadEnds
        <4>2. k + (n - k) = n
          BY <2>1
        <4>3. result'.data = SubSeq(FileWords(f), k + 1, n)
          BY <2>1, <3>2, <4>1, <4>2 DEF WordsTold
        <4>4. call'.op = "none"
          BY <3>4 DEF HasEnded
        <4>5. ExportTracked'
          BY <1>1, <1>2, <2>1, <2>2, <2>4, <4>3, <4>4 DEF ExportTracked
        <4> QED
          BY <1>1, <1>3, <1>6, <4>5, ExportGoesOn
      <3> QED
        BY <1>1, <3>3, <3>4
    <2> QED
      BY <1>6, <2>3, <2>4
  <1> QED
    BY <1>5, <1>6


-----------------------------------------------------------------------------
(* The lists of the disk: its numbers, its files, or one file.             *)
LEMMA OwnedIsNext == Tracked' => (\A b : b \in OwnedBlocks <=> Owns(b))'
  <1>1. Tracked => \A b : b \in OwnedBlocks <=> Owns(b)
    BY OwnedIs
  <1> QED
    BY <1>1, PTL

LEMMA OwnedStays ==
  ASSUME Tracked, Tracked', UNCHANGED image
  PROVE  OwnedBlocks' = OwnedBlocks
  <1>1. \A b : Owns(b)' <=> Owns(b)
    BY DEF Owns, image, UsedInodes, PtrSlots, NBlocks
  <1>2. \A b : b \in OwnedBlocks' <=> b \in OwnedBlocks
    BY <1>1, OwnedIs, OwnedIsNext
  <1> QED
    BY <1>2

LEMMA ListGoesOn ==
  ASSUME Working, Promised', GoesOn, LocalOK', step' \in {"list", "named", "sized"},
         cmd.action_type \in {"DISPLAY_STATS", "DISPLAY_FILES"}, ListTracked'
  PROVE  Working'
  <1>1. ControlInv'
    BY ControlGoesOn DEF ActionsOf
  <1>2. report' = "none"
    BY NoReport DEF GoesOn
  <1>3. TrackedInv'
    BY <1>1, <1>2, OthersIdle DEF TrackedInv, ControlInv, GoesOn
  <1> QED
    BY <1>1, <1>3, CommandInvNextIs DEF Working

(* What keeps the other variables of the event.                            *)
LEMMA LocalStays ==
  ASSUME Working, NEW n \in Nat, NEW z \in Nat, NEW x,
         local' = [local EXCEPT !.n = n, !.size = z, !.out = x]
  PROVE  /\ LocalOK' /\ local'.n = n /\ local'.size = z /\ local'.out = x
         /\ local'.inode_n = local.inode_n /\ local'.host = local.host
         /\ local'.before = local.before /\ DOMAIN local' = DOMAIN local
  <1>1. LocalOK
    BY DEF Working, CommandInv, CliTypeOK, LocalOK
  <1>2. /\ local'.n = n /\ local'.size = z /\ local'.out = x
        /\ local'.inode_n = local.inode_n /\ local'.host = local.host
        /\ local'.before = local.before /\ DOMAIN local' = DOMAIN local
    BY <1>1 DEF LocalOK, NoLocal
  <1> QED
    BY <1>1, <1>2 DEF LocalOK

LEMMA StatsWorks ==
  ASSUME Working, Stats
  PROVE  Working'
  <1>1. /\ Promised /\ step = "mounted" /\ pc = "idle" /\ local = NoLocal
        /\ cmd.action_type = "DISPLAY_STATS" /\ LocalOK
    BY DEF Working, CommandInv, StepsOfEvents, CliTypeOK, LocalOK, Stats, Ready
  <1>2. CASE /\ cmd.file_inode = -1
             /\ EndProcess
             /\ step' = "none" /\ report' = "done"
             /\ local' = [local EXCEPT !.out = <<Cardinality(inode_bitmap),
                                                 Cardinality(data_bitmap)>>]
             /\ UNCHANGED <<disk, line, cmd>>
    <2>1. Promised' /\ SameFiles /\ UNCHANGED image
      BY <1>1, <1>2, Ends
    <2>2. inode_bitmap = UsedInodes' /\ data_bitmap = OwnedBlocks'
      BY <1>1, <2>1, UsedAtRest, OwnedStays DEF SameFiles, Promised
    <2>3. PICK x : /\ local' = [local EXCEPT !.out = x]
                   /\ x = <<Cardinality(inode_bitmap), Cardinality(data_bitmap)>>
      BY <1>2
    <2>4. local'.out = x /\ SameButOut
      BY <1>1, <2>3 DEF LocalOK, NoLocal, SameButOut
    <2>5. local'.out = <<Cardinality(UsedInodes)', Cardinality(OwnedBlocks)'>>
      BY <2>2, <2>3, <2>4
    <2>6. ImportIsWhole' /\ ReportsAreTrue'
      BY <1>1, <1>2, <2>5 DEF ImportIsWhole, Importing, ReportsAreTrue
    <2> QED
      BY <1>1, <1>2, <2>4, <2>6, Finishes
  <1>3. CASE BadInode(cmd.file_inode)
    BY <1>1, <1>3, BadInodeAtStart
  <1>4. CASE cmd.file_inode \in InodeNs \ inode_bitmap /\ Finish("done")
    <2>1. cmd.file_inode # -1
      BY <1>4, LayoutAssumption DEF InodeNs
    <2> QED
      BY <1>1, <1>4, <2>1, FinishesPlainly
  <1>5. CASE /\ cmd.file_inode \in inode_bitmap
             /\ LookupCall("name", cmd.file_inode)
             /\ Goto("named")
             /\ local' = [local EXCEPT !.n = cmd.file_inode, !.size = cmd.file_inode + 1]
    <2>1. PICK n \in Nat : n = cmd.file_inode /\ n # -1
      BY <1>1, <1>5, LayoutAssumption DEF InodeNs, Promised, Tracked, Inv, TypeOK
    <2>2. /\ Promised'
          /\ IF n \in UsedInodes THEN Asks("name", n) ELSE Rests' /\ result' = Refused
      BY <1>1, <1>5, <2>1, Lookups
    <2>3. GoesOn
      BY <1>1, <1>5, <2>2 DEF GoesOn, Goto, Calls, CallsOf, Asks, Rests
    <2>4. LocalOK'
      <3>1. n + 1 \in Nat
        OBVIOUS
      <3>2. PICK z \in Nat : z = n + 1 /\ local' = [local EXCEPT !.n = n, !.size = z]
        BY <1>5, <2>1, <3>1
      <3>3. local' = [local EXCEPT !.n = n, !.size = z, !.out = local.out]
        BY <1>1, <3>2 DEF LocalOK, NoLocal
      <3> QED
        BY <3>3, LocalStays
    <2>5. step' = "named" /\ cmd' = cmd
      BY <1>5 DEF Goto
    <2>6. ListTracked'
      BY <1>1, <2>1, <2>5 DEF ListTracked
    <2> QED
      BY <1>1, <2>2, <2>3, <2>4, <2>5, <2>6, ListGoesOn
  <1> QED
    BY <1>1, <1>2, <1>3, <1>4, <1>5 DEF Stats


LEMMA ListedStays ==
  ASSUME SameFiles, NEW n, Listed(n), local'.out = local.out
  PROVE  Listed(n)'
  <1>1. {m \in UsedInodes : m < n}' = {m \in UsedInodes : m < n}
    BY DEF SameFiles
  <1>2. ASSUME NEW m \in UsedInodes', m < n
        PROVE  \E k \in DOMAIN local'.out : local'.out[k] = <<m, inodes'[m].file_len>>
    BY <1>2 DEF Listed, SameFiles
  <1> QED
    BY <1>1, <1>2 DEF Listed

(* The next inode is passed over or, with its length, put on the list.     *)
LEMMA PassedOver ==
  ASSUME SameFiles, NEW n \in Nat, Listed(n), n \notin UsedInodes,
         local'.out = local.out
  PROVE  Listed(n + 1)'
  <1>1. UsedInodes \subseteq Nat
    BY LayoutAssumption DEF UsedInodes, InodeNs
  <1>2. Listed(n)'
    BY ListedStays
  <1>3. \A m \in UsedInodes' : m < n + 1 <=> m < n
    BY <1>1 DEF SameFiles
  <1>4. {m \in UsedInodes' : m < n + 1} = {m \in UsedInodes' : m < n}
    BY <1>3
  <1> QED
    BY <1>2, <1>3, <1>4 DEF Listed

LEMMA CountNext ==
  ASSUME NEW U \in SUBSET Nat, NEW n \in U
  PROVE  Cardinality({m \in U : m < n + 1}) = Cardinality({m \in U : m < n}) + 1
  <1> DEFINE S == {m \in U : m < n}
  <1>1. IsFiniteSet(S)
    <2>1. 0 \in Int /\ n \in Int
      OBVIOUS
    <2>2. IsFiniteSet(0 .. n)
      BY <2>1, FS_Interval
    <2>3. \A m \in S : m \in 0 .. n
      OBVIOUS
    <2> HIDE DEF S
    <2> QED
      BY <2>2, <2>3, FS_Subset
  <1>2. {m \in U : m < n + 1} = S \cup {n} /\ n \notin S
    <2>1. \A m \in U : m < n + 1 <=> m < n \/ m = n
      OBVIOUS
    <2>2. ~(n < n)
      OBVIOUS
    <2> QED
      BY <2>1, <2>2
  <1> HIDE DEF S
  <1>3. Cardinality(S \cup {n}) = Cardinality(S) + 1
    BY <1>1, <1>2, FS_AddElement
  <1> QED
    BY <1>2, <1>3 DEF S

LEMMA AppendIs ==
  ASSUME NEW S, NEW s \in Seq(S), NEW e \in S
  PROVE  /\ Append(s, e) \in Seq(S) /\ Len(Append(s, e)) = Len(s) + 1
         /\ DOMAIN Append(s, e) = 1 .. Len(s) + 1
         /\ Append(s, e)[Len(s) + 1] = e
         /\ \A k \in 1 .. Len(s) : Append(s, e)[k] = s[k]
  OBVIOUS

LEMMA PutOnList ==
  ASSUME SameFiles, NEW n \in Nat, Listed(n), n \in UsedInodes,
         NEW s, s = local.out, NEW e \in InodeNs \X Nat,
         e = <<n, inodes[n].file_len>>, local'.out = Append(s, e)
  PROVE  Listed(n + 1)'
  <1>1. UsedInodes \in SUBSET Nat
    BY LayoutAssumption DEF UsedInodes, InodeNs
  <1>2. s \in Seq(InodeNs \X Nat) /\ Len(s) = Cardinality({m \in UsedInodes : m < n})
        /\ \A m \in UsedInodes : m < n =>
             \E k \in DOMAIN s : s[k] = <<m, inodes[m].file_len>>
    BY DEF Listed
  <1>3. PICK t : t = Append(s, e)
    OBVIOUS
  <1>4. /\ t \in Seq(InodeNs \X Nat) /\ t = local'.out /\ Len(t) = Len(s) + 1
        /\ t[Len(s) + 1] = e /\ DOMAIN t = 1 .. Len(s) + 1
        /\ \A k \in 1 .. Len(s) : t[k] = s[k]
    <2>1. t = local'.out
      BY <1>3
    <2> DEFINE Put(r, d, x) == /\ x \in Seq(InodeNs \X Nat) /\ Len(x) = Len(r) + 1
                               /\ x[Len(r) + 1] = d /\ DOMAIN x = 1 .. Len(r) + 1
                               /\ \A k \in 1 .. Len(r) : x[k] = r[k]
    <2>2. \A r \in Seq(InodeNs \X Nat), d \in InodeNs \X Nat : Put(r, d, Append(r, d))
      BY AppendIs
    <2> HIDE DEF Put
    <2>3. Put(s, e, Append(s, e))
      BY <1>2, <2>2
    <2>4. Put(s, e, t)
      BY <1>3, <2>3
    <2> QED
      BY <2>1, <2>4 DEF Put
  <1>5. Len(t) = Cardinality({m \in UsedInodes : m < n + 1})
    BY <1>1, <1>2, <1>4, CountNext
  <1>6. ASSUME NEW m \in UsedInodes', m < n + 1
        PROVE  \E k \in DOMAIN t : t[k] = <<m, inodes'[m].file_len>>
    <2>1. m \in UsedInodes /\ inodes'[m].file_len = inodes[m].file_len
      BY DEF SameFiles
    <2>2. CASE m = n
      <3>1. Len(s) \in Nat
        BY <1>2
      <3>2. PICK k : k = Len(s) + 1 /\ k \in DOMAIN t /\ t[k] = e
        BY <1>4, <3>1
      <3> QED
        BY <2>1, <2>2, <3>2
    <2>3. CASE m # n
      <3>1. m < n
        BY <1>1, <1>6, <2>1, <2>3
      <3>2. PICK k \in DOMAIN s : s[k] = <<m, inodes[m].file_len>>
        BY <1>2, <2>1, <3>1
      <3>3. k \in 1 .. Len(s) /\ k \in DOMAIN t
        BY <1>2, <1>4, <3>2
      <3> QED
        BY <1>4, <2>1, <3>2, <3>3
    <2> QED
      BY <2>2, <2>3
  <1>7. Len(local'.out) = Cardinality({m \in UsedInodes : m < n + 1})'
    BY <1>4, <1>5 DEF SameFiles
  <1> QED
    BY <1>4, <1>6, <1>7 DEF Listed

(* The list is complete when it has come to the last inode.                *)
LEMMA AllListed ==
  ASSUME Listed(NInodes)
  PROVE  /\ Len(local.out) = Cardinality(UsedInodes)
         /\ \A m \in UsedInodes :
              \E k \in DOMAIN local.out : local.out[k] = <<m, inodes[m].file_len>>
  <1>1. \A m \in UsedInodes : m < NInodes
    BY LayoutAssumption DEF UsedInodes, InodeNs
  <1>2. {m \in UsedInodes : m < NInodes} = UsedInodes
    BY <1>1
  <1> QED
    BY <1>1, <1>2 DEF Listed

AllOnList ==
  Listed(NInodes) =>
    /\ Len(local.out) = Cardinality(UsedInodes)
    /\ \A m \in UsedInodes :
         \E k \in DOMAIN local.out : local.out[k] = <<m, inodes[m].file_len>>

LEMMA AllListedNext == AllOnList'
  <1>1. AllOnList
    BY AllListed DEF AllOnList
  <1> QED
    BY <1>1, PTL


LEMMA FilesWorks ==
  ASSUME Working, Files
  PROVE  Working'
  <1>1. /\ Promised /\ step = "mounted" /\ pc = "idle" /\ local = NoLocal
        /\ cmd.action_type = "DISPLAY_FILES"
    BY DEF Working, CommandInv, StepsOfEvents, Files, Ready
  <1>2. step' = "list" /\ cmd' = cmd /\ local' = [local EXCEPT !.size = NInodes]
        /\ UNCHANGED vars
    BY DEF Files, Goto
  <1>3. Promised' /\ SameFiles /\ call'.op = "none" /\ pc' = "idle"
    BY <1>1, <1>2, Stays, CallRuns DEF Promised, vars
  <1>4. GoesOn
    BY <1>1, <1>2, <1>3 DEF GoesOn, Files, Goto, Calls
  <1>5. LocalOK' /\ local'.n = 0 /\ local'.size = NInodes /\ local'.out = <<>>
    <2>1. PICK z \in Nat : z = NInodes
      BY LayoutAssumption
    <2>2. local' = [NoLocal EXCEPT !.size = z]
      BY <1>1, <1>2, <2>1
    <2>3. /\ DOMAIN local' = DOMAIN NoLocal /\ local'.inode_n = Null /\ local'.n = 0
          /\ local'.host = <<>> /\ local'.before = <<>> /\ local'.out = <<>>
          /\ local'.size = z
      BY <2>2 DEF NoLocal
    <2>4. <<>> \in Seq(Words) /\ Null \in Int /\ 0 \in Nat
      BY DEF Null
    <2> QED
      BY <2>1, <2>3, <2>4 DEF LocalOK
  <1>6. ASSUME NEW n, n = 0 PROVE Listed(n)'
    <2>1. {m \in UsedInodes' : m < 0} = {}
      BY LayoutAssumption DEF UsedInodes, InodeNs
    <2>2. Len(local'.out) = Cardinality({m \in UsedInodes : m < 0})'
          /\ local'.out \in Seq(InodeNs \X Nat)
      <3>1. Cardinality({}) = 0
        BY FS_EmptySet
      <3>2. local'.out \in Seq(InodeNs \X Nat) /\ Len(local'.out) = 0
        BY <1>5
      <3> QED
        BY <2>1, <3>1, <3>2
    <2>3. \A m \in UsedInodes' : ~(m < 0)
      BY <2>1
    <2> QED
      BY <1>6, <2>2, <2>3 DEF Listed
  <1>7. ListTracked'
    <2>1. 0 <= NInodes
      BY LayoutAssumption
    <2> QED
      BY <1>1, <1>2, <1>5, <1>6, <2>1 DEF ListTracked
  <1> QED
    BY <1>1, <1>2, <1>3, <1>4, <1>5, <1>7, ListGoesOn

(* Where a list is.                                                        *)
LEMMA ListNumbers ==
  ASSUME Working, step \in {"list", "named", "sized"}
  PROVE  \E n \in Nat, z \in Nat :
           /\ n = local.n /\ z = local.size
           /\ cmd.action_type \in {"DISPLAY_STATS", "DISPLAY_FILES"}
           /\ cmd.action_type = "DISPLAY_STATS" => cmd.file_inode # -1
           /\ cmd.action_type = "DISPLAY_FILES" =>
                /\ z = NInodes /\ n <= z /\ Listed(n)
                /\ step \in {"named", "sized"} => n \in UsedInodes
  <1>1. ControlInv /\ ListTracked
    BY DEF Working, CommandInv, ControlInv
  <1>2. PICK n \in Nat, z \in Nat : n = local.n /\ z = local.size
    BY <1>1 DEF ControlInv, CliTypeOK
  <1>3. cmd.action_type \in {"DISPLAY_STATS", "DISPLAY_FILES"}
    BY <1>1 DEF ControlInv, EventsOfActions, ActionsOf
  <1> QED
    BY <1>1, <1>2, <1>3 DEF ListTracked

LEMMA ListNextWorks ==
  ASSUME Working, ListNext
  PROVE  Working'
  <1>1. Promised /\ step = "list" /\ pc = "idle" /\ call.op = "none"
    BY CallRuns DEF Working, Promised, ListNext, Ready
  <1>2. PICK n \in Nat, z \in Nat :
          /\ n = local.n /\ z = local.size
          /\ cmd.action_type \in {"DISPLAY_STATS", "DISPLAY_FILES"}
          /\ cmd.action_type = "DISPLAY_STATS" => cmd.file_inode # -1
          /\ cmd.action_type = "DISPLAY_FILES" => z = NInodes /\ n <= z /\ Listed(n)
    BY <1>1, ListNumbers
  <1>3. inode_bitmap = UsedInodes
    BY <1>1, UsedAtRest
  <1>4. CASE local.n = local.size /\ Finish("done")
    <2>1. CASE cmd.action_type = "DISPLAY_STATS"
      BY <1>1, <1>2, <1>4, <2>1, FinishesPlainly
    <2>2. CASE cmd.action_type = "DISPLAY_FILES"
      <3>1. SameFiles /\ local' = local /\ cmd' = cmd
        BY <1>1, <1>4, Ends DEF Finish
      <3>2. Listed(NInodes)'
        BY <1>2, <1>4, <2>2, <3>1, ListedStays
      <3>3. ReportsAreTrue'
        BY <2>2, <3>1, <3>2, AllListedNext DEF AllOnList, ReportsAreTrue
      <3>4. ImportIsWhole'
        BY <2>2, <3>1 DEF ImportIsWhole, Importing
      <3> QED
        BY <1>1, <1>4, <3>3, <3>4, Finishes DEF Finish, SameButOut
    <2> QED
      BY <1>2, <2>1, <2>2
  <1>5. CASE /\ local.n < local.size /\ local.n \notin inode_bitmap
             /\ Goto("list")
             /\ local' = [local EXCEPT !.n = NextInode]
             /\ UNCHANGED vars
    <2>1. step' = "list" /\ cmd' = cmd /\ Promised' /\ SameFiles
          /\ call'.op = "none" /\ pc' = "idle"
      BY <1>1, <1>5, Stays DEF Goto, vars
    <2>2. GoesOn
      BY <1>1, <1>5, <2>1 DEF GoesOn, Goto, Calls
    <2>3. PICK x : x = local.out
      OBVIOUS
    <2>4. local' = [local EXCEPT !.n = n + 1, !.size = z, !.out = x]
      BY <1>2, <1>5, <2>3 DEF NextInode, Working, CommandInv, CliTypeOK, NoLocal
    <2>5. LocalOK' /\ local'.n = n + 1 /\ local'.size = z /\ local'.out = local.out
      <3>1. n + 1 \in Nat
        OBVIOUS
      <3> QED
        BY <2>3, <2>4, <3>1, LocalStays
    <2>6. ListTracked'
      <3>1. cmd.action_type = "DISPLAY_FILES" => Listed(n + 1)' /\ n + 1 <= z
        BY <1>2, <1>3, <1>5, <2>1, <2>5, PassedOver
      <3>2. PICK k : k = n + 1
        OBVIOUS
      <3>3. cmd.action_type = "DISPLAY_FILES" => Listed(k)' /\ k <= z
        BY <3>1, <3>2
      <3>4. local'.n = k
        BY <2>5, <3>2
      <3> QED
        BY <1>2, <2>1, <2>5, <3>3, <3>4 DEF ListTracked
    <2> QED
      BY <1>2, <2>1, <2>2, <2>5, <2>6, ListGoesOn
  <1>6. CASE /\ local.n < local.size /\ local.n \in inode_bitmap
             /\ LookupCall("name", local.n)
             /\ Goto("named") /\ UNCHANGED local
    <2>1. Promised' /\ SameFiles /\ Asks("name", n) /\ n \in UsedInodes
      BY <1>1, <1>2, <1>3, <1>6, Lookups
    <2>2. step' = "named" /\ cmd' = cmd /\ local' = local
      BY <1>6 DEF Goto
    <2>3. GoesOn
      BY <1>1, <1>6, <2>1 DEF GoesOn, Goto, Calls, CallsOf, Asks
    <2>4. LocalOK'
      BY <2>2 DEF Working, CommandInv, CliTypeOK, LocalOK
    <2>5. ListTracked'
      <3>1. n \in UsedInodes'
        BY <2>1 DEF SameFiles
      <3>2. cmd.action_type = "DISPLAY_FILES" => Listed(n)'
        BY <1>2, <2>1, <2>2, ListedStays
      <3> QED
        BY <1>2, <2>2, <3>1, <3>2 DEF ListTracked
    <2> QED
      BY <1>2, <2>1, <2>2, <2>3, <2>4, <2>5, ListGoesOn
  <1> QED
    BY <1>4, <1>5, <1>6 DEF ListNext

LEMMA ListNameWorks ==
  ASSUME Working, ListName
  PROVE  Working'
  <1>1. Promised /\ step = "named" /\ pc = "idle"
    BY DEF Working, ListName, Ready
  <1>2. PICK n \in Nat, z \in Nat :
          /\ n = local.n /\ z = local.size
          /\ cmd.action_type \in {"DISPLAY_STATS", "DISPLAY_FILES"}
          /\ cmd.action_type = "DISPLAY_STATS" => cmd.file_inode # -1
          /\ cmd.action_type = "DISPLAY_FILES" =>
               z = NInodes /\ n <= z /\ Listed(n) /\ n \in UsedInodes
    BY <1>1, ListNumbers
  <1>3. LookupCall("length", n) /\ Goto("sized") /\ local' = local
    BY <1>2 DEF ListName
  <1>4. /\ Promised' /\ SameFiles
        /\ IF n \in UsedInodes THEN Asks("length", n) ELSE Rests' /\ result' = Refused
    BY <1>1, <1>3, Lookups
  <1>5. step' = "sized" /\ cmd' = cmd
    BY <1>3 DEF Goto
  <1>6. GoesOn
    BY <1>1, <1>3, <1>4 DEF GoesOn, Goto, Calls, CallsOf, Asks, Rests
  <1>7. LocalOK'
    BY <1>3 DEF Working, CommandInv, CliTypeOK, LocalOK
  <1>8. ListTracked'
    <2>1. cmd.action_type = "DISPLAY_FILES" =>
            /\ Listed(n)' /\ n \in UsedInodes'
            /\ call'.op = "length" /\ call'.inode_n = n
      BY <1>2, <1>3, <1>4, ListedStays DEF SameFiles, Asks
    <2> QED
      BY <1>2, <1>3, <1>5, <2>1 DEF ListTracked
  <1> QED
    BY <1>2, <1>4, <1>5, <1>6, <1>7, <1>8, ListGoesOn

LEMMA ListLengthWorks ==
  ASSUME Working, ListLength
  PROVE  Working'
  <1>1. Promised /\ step = "sized" /\ pc = "idle" /\ call.op = "none"
    BY CallRuns DEF Working, Promised, ListLength, Ready
  <1>2. PICK n \in Nat, z \in Nat :
          /\ n = local.n /\ z = local.size
          /\ cmd.action_type \in {"DISPLAY_STATS", "DISPLAY_FILES"}
          /\ cmd.action_type = "DISPLAY_STATS" => cmd.file_inode # -1
          /\ cmd.action_type = "DISPLAY_FILES" =>
               z = NInodes /\ n <= z /\ Listed(n) /\ n \in UsedInodes
    BY <1>1, ListNumbers
  <1>3. step' = "list" /\ cmd' = cmd /\ Promised' /\ SameFiles
        /\ call'.op = "none" /\ pc' = "idle"
    BY <1>1, Stays DEF ListLength, Goto, vars
  <1>4. GoesOn
    BY <1>1, <1>3 DEF ListLength, GoesOn, Goto, Calls
  <1>5. PICK s, e, x :
          s = local.out /\ e = <<n, result.n>> /\ x = Append(s, e)
    OBVIOUS
  <1>6. local' = [local EXCEPT !.n = n + 1, !.size = z, !.out = x]
    BY <1>2, <1>5 DEF ListLength, Working, CommandInv, CliTypeOK, NoLocal
  <1>7. LocalOK' /\ local'.n = n + 1 /\ local'.size = z /\ local'.out = x
    <2>1. n + 1 \in Nat
      OBVIOUS
    <2> QED
      BY <1>6, <2>1, LocalStays
  <1>8. ListTracked'
    <2>1. ASSUME cmd.action_type = "DISPLAY_FILES"
          PROVE  Listed(n + 1)' /\ n + 1 <= z
      <3>1. result.n = inodes[n].file_len
        BY <1>1, <1>2, <2>1 DEF Working, CommandInv, ListTracked
      <3>2. n \in InodeNs /\ inodes[n].file_len \in Nat
        BY <1>1, <1>2, <2>1, FilesAreWords DEF FilesAre, Promised, UsedInodes
      <3>3. e \in InodeNs \X Nat /\ e = <<n, inodes[n].file_len>>
        BY <1>5, <3>1, <3>2
      <3>4. Listed(n + 1)'
        BY <1>2, <1>3, <1>5, <1>7, <2>1, <3>3, PutOnList
      <3>5. n < z
        BY <1>2, <2>1, LayoutAssumption DEF UsedInodes, InodeNs
      <3> QED
        BY <3>4, <3>5
    <2>2. PICK k : k = n + 1
      OBVIOUS
    <2>3. cmd.action_type = "DISPLAY_FILES" => Listed(k)' /\ k <= z
      BY <2>1, <2>2
    <2>4. local'.n = k
      BY <1>7, <2>2
    <2> QED
      BY <1>2, <1>3, <1>7, <2>3, <2>4 DEF ListTracked
  <1> QED
    BY <1>2, <1>3, <1>4, <1>7, <1>8, ListGoesOn

LEMMA ListCallWorks ==
  ASSUME Working, FileSystemStep, step \in {"list", "named", "sized"}
  PROVE  Working'
  <1>1. /\ Promised' /\ GoesOn /\ step' = step /\ local' = local
        /\ call.op \in CallsOf[step] /\ call.op # "none" /\ (RunsOn \/ HasEnded)
        /\ LocalOK'
    BY Serves
  <1>2. Promised /\ Step /\ ListTracked /\ cmd' = cmd
    BY DEF Working, CommandInv, FileSystemStep, cliVars
  <1>3. PICK n \in Nat, z \in Nat :
          /\ n = local.n /\ z = local.size
          /\ cmd.action_type \in {"DISPLAY_STATS", "DISPLAY_FILES"}
          /\ cmd.action_type = "DISPLAY_STATS" => cmd.file_inode # -1
          /\ cmd.action_type = "DISPLAY_FILES" =>
               /\ z = NInodes /\ n <= z /\ Listed(n)
               /\ step \in {"named", "sized"} => n \in UsedInodes
    BY ListNumbers
  <1>4. SameFiles
    BY <1>1, <1>2, ReadersKeepFiles DEF CallsOf
  <1>5. cmd.action_type = "DISPLAY_FILES" =>
          /\ Listed(n)'
          /\ step \in {"named", "sized"} =>
               n \in UsedInodes' /\ inodes'[n].file_len = inodes[n].file_len
    BY <1>1, <1>3, <1>4, ListedStays DEF SameFiles
  <1>6. ASSUME cmd.action_type = "DISPLAY_FILES", step = "sized"
        PROVE  /\ call'.op = "length" => call'.inode_n = n
               /\ call'.op = "none" => result'.n = inodes'[n].file_len
    <2>1. call.op = "length" /\ call.inode_n = n
      BY <1>1, <1>2, <1>3, <1>6 DEF CallsOf, ListTracked
    <2>2. CASE RunsOn
      BY <2>1, <2>2 DEF RunsOn
    <2>3. CASE HasEnded
      <3>1. result'.n = inodes[n].file_len
        BY <1>2, <2>1, <2>3, LengthEnds DEF LengthTold
      <3> QED
        BY <1>5, <1>6, <2>3, <3>1 DEF HasEnded
    <2> QED
      BY <1>1, <2>2, <2>3
  <1>7. ListTracked'
    BY <1>1, <1>2, <1>3, <1>5, <1>6 DEF ListTracked
  <1> QED
    BY <1>1, <1>3, <1>7, ListGoesOn


-----------------------------------------------------------------------------
(* An import.  First what sequences it puts together.                      *)
LEMMA JoinFacts ==
  ASSUME NEW S, NEW s \in Seq(S), NEW r \in Seq(S), NEW x \in Nat, NEW y \in Nat,
         x = Len(s), y = Len(r)
  PROVE  /\ s \o r \in Seq(S) /\ Len(s \o r) = x + y
         /\ \A k \in 1 .. x + y : (s \o r)[k] = IF k <= x THEN s[k] ELSE r[k - x]
  OBVIOUS

Associate(p, q, r) == (p \o q) \o r = p \o (q \o r)

LEMMA JoinsAssociate ==
  ASSUME NEW S, NEW p \in Seq(S), NEW q \in Seq(S), NEW r \in Seq(S)
  PROVE  Associate(p, q, r)
  <1>1. PICK x \in Nat, y \in Nat, z \in Nat : x = Len(p) /\ y = Len(q) /\ z = Len(r)
    OBVIOUS
  <1>2. PICK pq, qr, l, m : pq = p \o q /\ qr = q \o r /\ l = pq \o r /\ m = p \o qr
    OBVIOUS
  <1>3. /\ pq \in Seq(S) /\ Len(pq) = x + y
        /\ \A k \in 1 .. x + y : pq[k] = IF k <= x THEN p[k] ELSE q[k - x]
    BY <1>1, <1>2, JoinFacts
  <1>4. /\ qr \in Seq(S) /\ Len(qr) = y + z
        /\ \A k \in 1 .. y + z : qr[k] = IF k <= y THEN q[k] ELSE r[k - y]
    BY <1>1, <1>2, JoinFacts
  <1>5. PICK u \in Nat, v \in Nat, n \in Nat :
          u = x + y /\ v = y + z /\ n = u + z /\ n = x + v
    OBVIOUS
  <1>6. /\ l \in Seq(S) /\ Len(l) = n
        /\ \A k \in 1 .. n : l[k] = IF k <= u THEN pq[k] ELSE r[k - u]
    <2>1. u = Len(pq) /\ z = Len(r) /\ pq \in Seq(S)
      BY <1>1, <1>3, <1>5
    <2>2. /\ pq \o r \in Seq(S) /\ Len(pq \o r) = u + z
          /\ \A k \in 1 .. u + z : (pq \o r)[k] = IF k <= u THEN pq[k] ELSE r[k - u]
      BY <2>1, JoinFacts
    <2> QED
      BY <1>2, <1>5, <2>2
  <1>7. /\ m \in Seq(S) /\ Len(m) = n
        /\ \A k \in 1 .. n : m[k] = IF k <= x THEN p[k] ELSE qr[k - x]
    <2>1. x = Len(p) /\ v = Len(qr) /\ qr \in Seq(S)
      BY <1>1, <1>4, <1>5
    <2>2. /\ p \o qr \in Seq(S) /\ Len(p \o qr) = x + v
          /\ \A k \in 1 .. x + v : (p \o qr)[k] = IF k <= x THEN p[k] ELSE qr[k - x]
      BY <2>1, JoinFacts
    <2> QED
      BY <1>2, <1>5, <2>2
  <1>8. ASSUME NEW k \in 1 .. n
        PROVE  l[k] = m[k]
    <2>1. CASE k <= x
      <3>1. k \in 1 .. x + y /\ k <= u
        BY <1>5, <2>1
      <3> QED
        BY <1>3, <1>6, <1>7, <2>1, <3>1
    <2>2. CASE ~(k <= x) /\ k <= u
      <3>1. k \in 1 .. x + y /\ k - x \in 1 .. y + z /\ k - x <= y
        BY <1>5, <2>2
      <3> QED
        BY <1>3, <1>4, <1>6, <1>7, <2>2, <3>1
    <2>3. CASE ~(k <= u)
      <3>1. ~(k <= x) /\ k - x \in 1 .. y + z /\ ~(k - x <= y) /\ k - u = (k - x) - y
        BY <1>5, <2>3
      <3> QED
        BY <1>4, <1>6, <1>7, <2>3, <3>1
    <2> QED
      BY <2>1, <2>2, <2>3
  <1>9. l = [k \in 1 .. n |-> l[k]] /\ m = [k \in 1 .. n |-> m[k]]
    BY <1>6, <1>7, SeqIs
  <1>10. l = m
    BY <1>8, <1>9
  <1> QED
    BY Zenon, <1>2, <1>10 DEF Associate

LEMMA PartIsSeq ==
  ASSUME NEW S, NEW s \in Seq(S), NEW m \in Nat, NEW d \in Nat, m + d <= Len(s)
  PROVE  /\ SubSeq(s, m + 1, m + d) \in Seq(S) /\ Len(SubSeq(s, m + 1, m + d)) = d
         /\ \A k \in 1 .. d : SubSeq(s, m + 1, m + d)[k] = s[m + k]
  OBVIOUS

LEMMA PartOfPart ==
  ASSUME NEW S, NEW s \in Seq(S), NEW m \in Nat, NEW d \in Nat, NEW w \in Nat,
         w <= d, m + d <= Len(s)
  PROVE  SubSeq(SubSeq(s, m + 1, m + d), 1, w) = SubSeq(s, m + 1, m + w)
  <1>1. PICK t : t = SubSeq(s, m + 1, m + d)
    OBVIOUS
  <1>2. t \in Seq(S) /\ Len(t) = d /\ \A k \in 1 .. d : t[k] = s[m + k]
    BY <1>1, PartIsSeq
  <1>3. SubSeq(s, m + 1, m + w) = [k \in 1 .. w |-> s[m + k]]
    <2>1. m + w <= Len(s)
      OBVIOUS
    <2> QED
      BY <2>1, PartIs
  <1>4. SubSeq(t, 0 + 1, 0 + w) = [k \in 1 .. w |-> t[0 + k]]
    <2>1. 0 \in Nat /\ 0 + w <= Len(t)
      BY <1>2
    <2> QED
      BY <1>2, <2>1, PartIs
  <1>5. SubSeq(t, 1, w) = [k \in 1 .. w |-> t[k]]
    BY <1>4
  <1>6. \A k \in 1 .. w : t[k] = s[m + k]
    BY <1>2
  <1> QED
    BY <1>1, <1>3, <1>5, <1>6

AddsTo(b, h, m, d, w) ==
  (b \o SubSeq(h, 1, m)) \o SubSeq(SubSeq(h, m + 1, m + d), 1, w)
    = b \o SubSeq(h, 1, m + w)

LEMMA MoreStored ==
  ASSUME NEW b \in Seq(Words), NEW h \in Seq(Words),
         NEW m \in Nat, NEW d \in Nat, NEW w \in Nat, w <= d, m + d <= Len(h)
  PROVE  AddsTo(b, h, m, d, w)
  <1>1. SubSeq(SubSeq(h, m + 1, m + d), 1, w) = SubSeq(h, m + 1, m + w)
    BY PartOfPart
  <1>2. m + w \in Nat /\ m <= m + w /\ m + w <= Len(h)
    OBVIOUS
  <1>3. SubSeq(h, 1, m) \o SubSeq(h, m + 1, m + w) = SubSeq(h, 1, m + w)
    <2>1. JoinUp(h, m, m + w)
      BY <1>2, PartsJoin
    <2> QED
      BY Zenon, <2>1 DEF JoinUp
  <1>4. SubSeq(h, 1, m) \in Seq(Words) /\ SubSeq(h, m + 1, m + w) \in Seq(Words)
    BY <1>2
  <1>5. (b \o SubSeq(h, 1, m)) \o SubSeq(h, m + 1, m + w)
          = b \o (SubSeq(h, 1, m) \o SubSeq(h, m + 1, m + w))
    <2>1. \A p, q \in Seq(Words) : Associate(b, p, q)
      BY JoinsAssociate
    <2>2. Associate(b, SubSeq(h, 1, m), SubSeq(h, m + 1, m + w))
      BY Zenon, <1>4, <2>1
    <2> QED
      BY Zenon, <2>2 DEF Associate
  <1>6. (b \o SubSeq(h, 1, m)) \o SubSeq(SubSeq(h, m + 1, m + d), 1, w)
          = b \o SubSeq(h, 1, m + w)
    BY <1>1, <1>3, <1>5
  <1> QED
    BY Zenon, <1>6 DEF AddsTo

LEMMA NothingJoined ==
  ASSUME NEW S, NEW s \in Seq(S)
  PROVE  s \o <<>> = s /\ <<>> \o s = s
  OBVIOUS


(* And what the numbers of an import are.                                  *)
LEMMA Divides ==
  ASSUME NEW a \in Nat, NEW m \in Nat \ {0}
  PROVE  \E q \in Nat, p \in 0 .. m - 1 : p = a % m /\ a = q * m + p
  BY Z3

LEMMA RemainderIs ==
  ASSUME NEW m \in Nat \ {0}, NEW q \in Nat, NEW p \in 0 .. m - 1, NEW a \in Nat,
         a = q * m + p
  PROVE  a % m = p
  BY Z3

LEMMA RowsAdded ==
  ASSUME NEW m \in Nat \ {0}, NEW q \in Nat, NEW j \in Nat, NEW p \in 0 .. m - 1
  PROVE  (q * m + p + j * m) % m = p
  <1>1. (q + j) * m = q * m + j * m /\ q * m \in Nat /\ j * m \in Nat
    BY Z3
  <1>2. PICK u \in Nat : u = q + j
    OBVIOUS
  <1>3. PICK t \in Nat : t = q * m + p + j * m /\ t = u * m + p
    <2>1. PICK x \in Nat, y \in Nat : x = q * m /\ y = j * m
      BY <1>1
    <2>2. u * m = x + y
      BY <1>1, <1>2, <2>1
    <2>3. x + p + y = (x + y) + p /\ x + p + y \in Nat
      OBVIOUS
    <2> QED
      BY <2>1, <2>2, <2>3
  <1>4. t % m = p
    <2>1. t = u * m + p
      BY <1>3
    <2> QED
      BY <2>1, RemainderIs
  <1> QED
    BY <1>3, <1>4

LEMMA MultipleAdded ==
  ASSUME NEW a \in Nat, NEW c \in Nat, NEW m \in Nat \ {0}, c % m = 0
  PROVE  (a + c) % m = a % m
  <1>1. PICK q \in Nat, p \in 0 .. m - 1 : p = a % m /\ a = q * m + p
    BY Divides
  <1>2. PICK j \in Nat : c = j * m
    <2>1. PICK j \in Nat, r \in 0 .. m - 1 : r = c % m /\ c = j * m + r
      BY Divides
    <2> QED
      BY <2>1
  <1>3. (q * m + p + j * m) % m = p
    BY RowsAdded
  <1> QED
    BY <1>1, <1>2, <1>3

SameRest(l, w) == (l + w) % BlockSize = l % BlockSize

LEMMA ChunkKeepsRow ==
  ASSUME NEW l \in Nat, NEW w \in Nat, w = ChunkSize
  PROVE  SameRest(l, w)
  <1>1. w % BlockSize = 0 /\ BlockSize \in Nat \ {0}
    BY SizeAssumption, LayoutAssumption
  <1> QED
    BY Zenon, <1>1, MultipleAdded DEF SameRest

LEMMA RestOfBlock ==
  ASSUME NEW l \in Nat, NEW r, r = l % BlockSize
  PROVE  BytesToBlocks(l) * BlockSize - l = IF r = 0 THEN 0 ELSE BlockSize - r
  <1>1. BlockSize \in Nat \ {0, 1}
    BY LayoutAssumption
  <1>2. PICK q \in Nat : r \in Nat /\ q = l \div BlockSize /\ l = q * BlockSize + r
    BY SplitWord
  <1>3. q * BlockSize \in Nat /\ (q + 1) * BlockSize = q * BlockSize + BlockSize
    BY <1>1, Z3
  <1>4. PICK x, y : x \in Nat /\ x = q * BlockSize /\ y = BytesToBlocks(l) * BlockSize
    BY <1>3
  <1>5. x \in Nat /\ l = x + r
    BY <1>2, <1>4
  <1>6. y = IF r = 0 THEN x ELSE x + BlockSize
    <2>1. CASE l <= 0
      <3>1. l = 0 /\ BytesToBlocks(l) = 0
        BY <2>1 DEF BytesToBlocks
      <3>2. r = 0 /\ x = 0 /\ 0 * BlockSize = 0
        BY <1>1, <1>2, <1>5, <3>1
      <3> QED
        BY <1>4, <3>1, <3>2
    <2>2. CASE ~(l <= 0)
      <3>1. BytesToBlocks(l) = q + (IF r = 0 THEN 0 ELSE 1)
        BY <1>2, <2>2 DEF BytesToBlocks
      <3>2. CASE r = 0
        <4>1. BytesToBlocks(l) = q
          BY <1>2, <3>1, <3>2
        <4> QED
          BY <1>4, <3>2, <4>1
      <3>3. CASE r # 0
        BY <1>3, <1>4, <3>1, <3>3
      <3> QED
        BY <3>2, <3>3
    <2> QED
      BY <2>1, <2>2
  <1>7. y - l = IF r = 0 THEN 0 ELSE BlockSize - r
    BY <1>1, <1>2, <1>5, <1>6
  <1> QED
    BY <1>4, <1>7

(* The next chunk is whole or the last one, and no shorter than that.      *)
LEMMA ChunkIs ==
  ASSUME NEW n \in Nat, NEW L \in Nat, n < L, n % ChunkSize = 0,
         NEW d, d = Smaller(ChunkSize, L - n)
  PROVE  /\ d \in Nat \ {0} /\ n + d <= L
         /\ d = ChunkSize \/ n + d = L
         /\ n + d = L \/ (n + d) % ChunkSize = 0
         /\ ((L - 1) % ChunkSize) + 1 <= d
  <1>1. PICK C \in Nat \ {0} : C = ChunkSize
    BY CliAssumption
  <1>2. d \in Nat \ {0} /\ n + d <= L /\ (d = C \/ n + d = L)
    BY <1>1 DEF Smaller
  <1>3. CASE d = C
    <2>1. (n + d) % C = n % C
      <3>1. C % C = 0
        BY Z3
      <3> QED
        BY <1>3, <3>1, MultipleAdded
    <2>2. (L - 1) % C \in 0 .. C - 1
      <3>1. L - 1 \in Nat
        OBVIOUS
      <3> QED
        BY <3>1, DivByBlock
    <2> QED
      BY <1>1, <1>2, <1>3, <2>1, <2>2
  <1>4. CASE n + d = L /\ d # C
    <2>1. d - 1 \in 0 .. C - 1 /\ L - 1 = (d - 1) + n
      BY <1>1, <1>2, <1>4 DEF Smaller
    <2>2. ((d - 1) + n) % C = (d - 1) % C
      BY <1>1, <2>1, MultipleAdded
    <2>3. (d - 1) % C = d - 1
      <3>1. 0 * C = 0 /\ d - 1 = 0 * C + (d - 1) /\ d - 1 \in Nat
        BY <2>1, Z3
      <3> QED
        BY <2>1, <3>1, RemainderIs
    <2>4. PICK e : e = d - 1 /\ (L - 1) % C = e
      BY <2>1, <2>2, <2>3
    <2>5. ((L - 1) % C) + 1 = d
      BY <1>2, <2>4
    <2> QED
      BY <1>1, <1>2, <1>4, <2>5
  <1> QED
    BY <1>2, <1>3, <1>4


LEMMA ImportGoesOn ==
  ASSUME Working, Promised', GoesOn, LocalOK', step' \in {"exists", "import"},
         cmd.action_type = "WRITE_DATA", ImportTracked'
  PROVE  Working'
  <1>1. ControlInv'
    BY ControlGoesOn DEF ActionsOf
  <1>2. report' = "none"
    BY NoReport DEF GoesOn
  <1>3. TrackedInv'
    BY <1>1, <1>2, OthersIdle DEF TrackedInv, ControlInv, GoesOn
  <1> QED
    BY <1>1, <1>3, CommandInvNextIs DEF Working

(* Without a file to import into there is nothing to say.                  *)
LEMMA NoImport ==
  ASSUME ~Importing', step' = "import", call'.op # "write", local'.n <= Len(local'.host),
         local'.n = Len(local'.host) \/ local'.n % ChunkSize = 0
  PROVE  ImportTracked'
  BY DEF ImportTracked, ChunkWritten, StoredSoFar

LEMMA OpenedIs ==
  ASSUME local = NoLocal, NEW i \in Int, NEW h \in Seq(Words), NEW b \in Seq(Words),
         local' = [local EXCEPT !.inode_n = i, !.host = h, !.before = b]
  PROVE  /\ LocalOK' /\ local'.n = 0 /\ local'.inode_n = i /\ local'.host = h
         /\ local'.before = b
  <1>1. /\ DOMAIN local' = DOMAIN NoLocal /\ local'.inode_n = i /\ local'.host = h
        /\ local'.before = b /\ local'.n = 0 /\ local'.size = 0
    BY DEF NoLocal
  <1>2. 0 \in Nat
    OBVIOUS
  <1> QED
    BY <1>1, <1>2 DEF LocalOK

LEMMA ImportOpenWorks ==
  ASSUME Working, ImportOpen
  PROVE  Working'
  <1> DEFINE f == cmd.file_inode
             before == IF f \in UsedInodes THEN FileWords(f) ELSE <<>>
             opened == [local EXCEPT !.inode_n = f, !.host = HostFiles[cmd.in_file_name],
                                     !.before = before]
  <1>1. /\ Promised /\ step = "mounted" /\ pc = "idle" /\ local = NoLocal /\ FilesAre
        /\ cmd.action_type = "WRITE_DATA" /\ f \in Int
    BY CommandInode, FilesAreWords
    DEF Working, CommandInv, StepsOfEvents, ImportOpen, Ready, Promised
  <1>2. CASE Finish("error")
    BY <1>1, <1>2, FinishesOtherwise
  <1>3. CASE BadInode(f)
    BY <1>1, <1>3, BadInodeAtStart
  <1>4. CASE /\ cmd.in_file_name \in DOMAIN HostFiles /\ f = -1 /\ CreateFile(FALSE)
             /\ Goto("import") /\ local' = [opened EXCEPT !.inode_n = result'.n]
    <2>1. /\ Promised' /\ Rests'
          /\ \/ result' = Refused
             \/ \E n \in InodeNs : /\ result' = Ok(n) /\ n \in UsedInodes'
                                   /\ FileWords(n)' = <<>> /\ inodes'[n].file_len = 0
      BY <1>1, <1>4, Creates
    <2>2. PICK h \in Seq(Words) : h = HostFiles[cmd.in_file_name] /\ Len(h) \in Nat
      BY <1>4, CliAssumption
    <2>3. f \notin UsedInodes
      BY <1>4, LayoutAssumption DEF UsedInodes, InodeNs
    <2>4. <<>> \in Seq(Words)
      OBVIOUS
    <2>5. PICK i \in Int :
            /\ i = result'.n
            /\ i \in UsedInodes' => FileWords(i)' = <<>> /\ inodes'[i].file_len = 0
      <3>1. CASE result' = Refused
        <4>1. result'.n = -1
          BY <3>1 DEF Refused, Null
        <4>2. -1 \notin UsedInodes'
          BY LayoutAssumption DEF UsedInodes, InodeNs
        <4> QED
          BY <4>1, <4>2
      <3>2. CASE \E n \in InodeNs : /\ result' = Ok(n) /\ n \in UsedInodes'
                                    /\ FileWords(n)' = <<>> /\ inodes'[n].file_len = 0
        <4>1. PICK n \in InodeNs : /\ result' = Ok(n) /\ n \in UsedInodes'
                                   /\ FileWords(n)' = <<>> /\ inodes'[n].file_len = 0
          BY <3>2
        <4>2. result'.n = n /\ n \in Int
          BY <4>1, LayoutAssumption DEF Ok, InodeNs
        <4> QED
          BY <4>1, <4>2
      <3> QED
        BY <2>1, <3>1, <3>2
    <2>6. local' = [local EXCEPT !.inode_n = i, !.host = h, !.before = <<>>]
      BY <1>1, <1>4, <2>2, <2>3, <2>5 DEF NoLocal
    <2>7. /\ LocalOK' /\ local'.n = 0 /\ local'.inode_n = i /\ local'.host = h
          /\ local'.before = <<>>
      BY <1>1, <2>4, <2>6, OpenedIs
    <2>8. GoesOn /\ step' = "import" /\ call'.op = "none"
      BY <1>1, <1>4, <2>1 DEF GoesOn, Goto, Calls, Rests
    <2>9. ImportTracked'
      <3>1. 0 <= Len(h) /\ 0 % ChunkSize = 0 /\ 0 % BlockSize = 0
        BY <2>2, CliAssumption, LayoutAssumption
      <3>2. StoredSoFar'
        <4>1. SubSeq(h, 1, 0) = <<>> /\ <<>> \o <<>> = <<>> /\ 0 \in 0 .. Len(h)
          BY <2>2, <2>4, WholeIs, NothingJoined
        <4>2. ASSUME Importing'
              PROVE  FileWords(i)' = local'.before \o SubSeq(local'.host, 1, 0)
          BY <2>5, <2>7, <4>1, <4>2 DEF Importing
        <4> QED
          BY <2>7, <2>8, <4>1, <4>2 DEF StoredSoFar, Handed
      <3>3. Importing' => TailFits'
        BY <2>5, <2>7, <3>1 DEF Importing, TailFits
      <3> QED
        BY <2>7, <2>8, <3>1, <3>2, <3>3 DEF ImportTracked, ChunkWritten
    <2> QED
      BY <1>1, <2>1, <2>7, <2>8, <2>9, ImportGoesOn
  <1>5. CASE /\ cmd.in_file_name \in DOMAIN HostFiles /\ f \in InodeNs
             /\ LookupCall("length", f) /\ Goto("exists") /\ local' = opened
    <2>1. PICK n \in InodeNs : n = f
      BY <1>5
    <2>2. /\ Promised' /\ SameFiles
          /\ IF n \in UsedInodes THEN Asks("length", n) ELSE Rests' /\ result' = Refused
      BY <1>1, <1>5, <2>1, Lookups
    <2>3. PICK h \in Seq(Words) : h = HostFiles[cmd.in_file_name] /\ Len(h) \in Nat
      BY <1>5, CliAssumption
    <2>4. PICK b \in Seq(Words) : b = before
      <3>1. f \in UsedInodes => FileWords(f) \in Seq(Words)
        BY <1>1, <1>5 DEF FilesAre
      <3>2. <<>> \in Seq(Words)
        OBVIOUS
      <3> QED
        BY <3>1, <3>2
    <2>5. local' = [local EXCEPT !.inode_n = n, !.host = h, !.before = b]
      BY <1>5, <2>1, <2>3, <2>4
    <2>6. /\ LocalOK' /\ local'.n = 0 /\ local'.inode_n = n /\ local'.host = h
          /\ local'.before = b
      BY <1>1, <2>1, <2>5, OpenedIs
    <2>7. GoesOn /\ step' = "exists"
      BY <1>1, <1>5, <2>2 DEF GoesOn, Goto, Calls, CallsOf, Asks, Rests
    <2>8. ImportTracked'
      <3>1. StoredSoFar'
        <4>1. SubSeq(h, 1, 0) = <<>> /\ b \o <<>> = b /\ 0 \in 0 .. Len(h)
          BY <2>3, WholeIs, NothingJoined
        <4>2. ASSUME Importing'
              PROVE  FileWords(n)' = local'.before \o SubSeq(local'.host, 1, 0)
          <5>1. n \in UsedInodes
            BY <2>2, <2>6, <4>2 DEF Importing, SameFiles
          <5>2. FileWords(n)' = FileWords(n) /\ b = FileWords(n)
            BY <2>1, <2>2, <2>4, <5>1 DEF SameFiles
          <5> QED
            BY <2>6, <4>1, <5>2
        <4> QED
          BY <2>6, <2>7, <4>1, <4>2 DEF StoredSoFar
      <3>2. call'.op = "length" => call'.inode_n = n
        BY <2>2 DEF Asks, Rests
      <3>3. call'.op = "none" /\ result'.how # "ok" => ~Importing'
        BY <2>2, <2>6 DEF Asks, Importing, SameFiles
      <3> QED
        BY <2>6, <2>7, <3>1, <3>2, <3>3 DEF ImportTracked
    <2> QED
      BY <1>1, <2>2, <2>6, <2>7, <2>8, ImportGoesOn
  <1> QED
    BY <1>2, <1>3, <1>4, <1>5 DEF ImportOpen


LEMMA ImportNumbers ==
  ASSUME Working, step \in {"exists", "ask", "import"}
  PROVE  \E i \in Int, n \in Nat, h \in Seq(Words), b \in Seq(Words), L \in Nat :
           /\ i = local.inode_n /\ n = local.n /\ h = local.host /\ b = local.before
           /\ L = Len(h) /\ cmd.action_type = "WRITE_DATA"
           /\ step # "import" => n = 0
           /\ step = "import" => n <= L /\ (n = L \/ n % ChunkSize = 0)
  <1>1. ControlInv /\ ImportTracked
    BY DEF Working, CommandInv, ControlInv
  <1>2. PICK i \in Int, n \in Nat, h \in Seq(Words), b \in Seq(Words) :
          i = local.inode_n /\ n = local.n /\ h = local.host /\ b = local.before
    BY <1>1 DEF ControlInv, CliTypeOK
  <1>3. PICK L \in Nat : L = Len(h)
    OBVIOUS
  <1>4. cmd.action_type = "WRITE_DATA"
    BY <1>1 DEF ControlInv, EventsOfActions, ActionsOf
  <1>5. step # "import" => n = 0
    BY <1>1, <1>2 DEF ImportTracked
  <1>6. step = "import" => n <= L /\ (n = L \/ n % ChunkSize = 0)
    BY <1>1, <1>2, <1>3 DEF ImportTracked
  <1> QED
    BY <1>2, <1>3, <1>4, <1>5, <1>6

(* While the files stay, and the event's variables, what is stored stays;  *)
(* nothing of it comes from the file of the host before the first chunk.   *)
LEMMA NothingStoredYet ==
  ASSUME StoredSoFar, SameFiles, step \in {"exists", "ask"}, cmd' = cmd, local' = local,
         local.n = 0, step' \in {"ask", "import"}, call'.op = "none"
  PROVE  StoredSoFar'
  <1>1. ASSUME Importing'
        PROVE  \E k \in 0 .. Len(local'.host) :
                 /\ FileWords(local.inode_n)' = local'.before \o SubSeq(local'.host, 1, k)
                 /\ k = 0
    <2>1. PICK n : n = local.inode_n /\ n = local'.inode_n
      OBVIOUS
    <2>2. n \in UsedInodes /\ Importing
      BY <1>1, <2>1 DEF Importing, SameFiles
    <2>3. PICK k \in 0 .. Len(local.host) :
            FileWords(n) = local.before \o SubSeq(local.host, 1, k) /\ k = 0
      BY <2>1, <2>2 DEF StoredSoFar
    <2>4. FileWords(n)' = FileWords(n)
      BY <2>2 DEF SameFiles
    <2> QED
      BY <2>1, <2>3, <2>4
  <1>2. Handed' = 0
    BY DEF Handed
  <1> QED
    BY <1>1, <1>2 DEF StoredSoFar

LEMMA ImportExistsWorks ==
  ASSUME Working, ImportExists
  PROVE  Working'
  <1>1. /\ Promised /\ step = "exists" /\ pc = "idle" /\ call.op = "none"
        /\ ControlInv /\ ImportTracked
    BY CallRuns DEF Working, Promised, CommandInv, ControlInv, ImportExists, Ready
  <1>2. /\ Promised' /\ SameFiles /\ local' = local /\ cmd' = cmd
        /\ call'.op = "none" /\ pc' = "idle" /\ UNCHANGED <<line, disk, report>>
    BY <1>1, Stays DEF ImportExists, Goto, vars
  <1>3. PICK n, L \in Nat : /\ n = 0 /\ n = local.n /\ L = Len(local.host)
                            /\ cmd.action_type = "WRITE_DATA"
    BY <1>1, ImportNumbers
  <1>4. StoredSoFar
    BY <1>1 DEF ImportTracked
  <1>5. LocalOK'
    BY <1>1, <1>2 DEF ControlInv, CliTypeOK, LocalOK
  <1>6. CASE result.how = "ok"
    <2>1. step' = "ask"
      BY <1>6 DEF ImportExists, Goto
    <2>2. StoredSoFar'
      BY <1>1, <1>2, <1>3, <1>4, <2>1, NothingStoredYet
    <2>3. ImportTracked'
      BY <1>2, <1>3, <2>1, <2>2 DEF ImportTracked
    <2>4. report' = "none"
      BY <1>1, <1>2, NoReport
    <2>5. CliTypeOK'
      BY <1>1, <1>2, <1>5, <2>1, <2>4 DEF ControlInv, CliTypeOK, LocalOK
    <2>6. StepsOfEvents'
      BY <1>2, <2>1, <2>4 DEF StepsOfEvents, Calls
    <2>7. EventsOfActions'
      BY <1>2, <1>3, <2>1 DEF EventsOfActions, ActionsOf
    <2>8. ParsedSoFar'
      BY <1>1, <1>2, <2>1, ParsedStays
    <2>9. TrackedInv'
      BY <1>2, <1>3, <2>3, <2>4, <2>7, OthersIdle DEF TrackedInv
    <2> QED
      BY <1>2, <2>5, <2>6, <2>7, <2>8, <2>9, CommandInvNextIs DEF Working, ControlInv
  <1>7. CASE result.how # "ok"
    <2>1. step' = "import"
      BY <1>7 DEF ImportExists, Goto
    <2>2. GoesOn
      BY <1>1, <1>2, <2>1 DEF GoesOn, Calls
    <2>3. ~Importing'
      <3>1. ~Importing
        BY <1>1, <1>7 DEF ImportTracked
      <3> QED
        BY <1>2, <3>1 DEF Importing, SameFiles
    <2>4. local'.n <= Len(local'.host) /\ local'.n % ChunkSize = 0
      <3>1. 0 % ChunkSize = 0
        BY CliAssumption
      <3>2. 0 <= L
        OBVIOUS
      <3> QED
        BY <1>2, <1>3, <3>1, <3>2
    <2>5. ImportTracked'
      BY <1>2, <2>1, <2>3, <2>4, NoImport
    <2> QED
      BY <1>2, <1>3, <1>5, <2>1, <2>2, <2>5, ImportGoesOn
  <1> QED
    BY <1>6, <1>7

LEMMA ImportAnswerWorks ==
  ASSUME Working, NEW yes \in BOOLEAN, ImportAnswer(yes), Appends
  PROVE  Working'
  <1>1. CASE Finish("declined")
    BY <1>1, FinishesOtherwise DEF ImportAnswer
  <1>2. CASE Goto("import") /\ UNCHANGED <<vars, local>>
    <2>1. /\ Promised /\ step = "ask" /\ pc = "idle" /\ call.op = "none"
          /\ ControlInv /\ ImportTracked /\ FilesAre
      BY CallRuns, FilesAreWords
      DEF Working, Promised, CommandInv, ControlInv, StepsOfEvents, ImportAnswer
    <2>2. /\ Promised' /\ SameFiles /\ local' = local /\ cmd' = cmd /\ step' = "import"
          /\ call'.op = "none" /\ pc' = "idle" /\ UNCHANGED <<line, disk, report, inodes>>
      BY <1>2, <2>1, Stays DEF Goto, vars, image
    <2>3. PICK i \in Int, n \in Nat, h \in Seq(Words), L \in Nat :
            /\ i = local.inode_n /\ n = 0 /\ n = local.n /\ h = local.host /\ L = Len(h)
            /\ cmd.action_type = "WRITE_DATA"
      BY <2>1, ImportNumbers
    <2>4. StoredSoFar'
      BY <2>1, <2>2, <2>3, NothingStoredYet DEF ImportTracked
    <2>5. GoesOn
      BY <2>1, <2>2 DEF GoesOn, Calls
    <2>6. LocalOK'
      BY <2>1, <2>2 DEF ControlInv, CliTypeOK, LocalOK
    <2>7. ASSUME Importing', 0 < L
          PROVE  TailFits'
      <3>1. i \in UsedInodes
        BY <2>2, <2>3, <2>7 DEF Importing, SameFiles
      <3>2. PICK l \in Nat : l = inodes[i].file_len
        BY <2>1, <3>1 DEF FilesAre, UsedInodes
      <3>3. PICK c, r : c = LastChunk /\ r = l % BlockSize
        OBVIOUS
      <3>4. c >= BytesToBlocks(l) * BlockSize - l
        <4>1. h # <<>>
          BY <2>3, <2>7
        <4> QED
          BY <2>1, <2>2, <2>3, <3>2, <3>3, <4>1 DEF Appends
      <3>5. c \in Int
        <4>1. L - 1 \in Nat
          BY <2>7
        <4>2. (L - 1) % ChunkSize \in Nat
          BY <4>1, DivByBlock, CliAssumption
        <4> QED
          BY <2>3, <3>3, <4>2 DEF LastChunk
      <3>6. r \in Nat
        BY <3>3, SplitWord, LayoutAssumption
      <3>7. r = 0 \/ BlockSize - r <= c
        BY <3>3, <3>4, <3>5, <3>6, RestOfBlock, LayoutAssumption
      <3>8. LastChunk' = c
        BY <2>2, <3>3 DEF LastChunk
      <3>9. inodes'[local'.inode_n].file_len % BlockSize = r
        BY <2>2, <2>3, <3>2, <3>3
      <3> QED
        BY <3>7, <3>8, <3>9 DEF TailFits
    <2>8. ImportTracked'
      <3>1. 0 <= L /\ 0 % ChunkSize = 0
        BY CliAssumption
      <3> QED
        BY <2>2, <2>3, <2>4, <2>7, <3>1 DEF ImportTracked, ChunkWritten
    <2> QED
      BY <2>2, <2>3, <2>5, <2>6, <2>8, ImportGoesOn
  <1> QED
    BY <1>1, <1>2 DEF ImportAnswer

LEMMA ImportDoneWorks ==
  ASSUME Working, ImportDone
  PROVE  Working'
  <1>1. /\ Promised /\ step = "import" /\ pc = "idle" /\ call.op = "none"
        /\ ImportTracked
    BY CallRuns DEF Working, Promised, CommandInv, ImportDone, Ready
  <1>2. CASE Finish("error")
    BY <1>1, <1>2, FinishesOtherwise
  <1>3. CASE Finish("done")
    <2>1. PICK i \in Int, n \in Nat, h \in Seq(Words), b \in Seq(Words), L \in Nat :
            /\ i = local.inode_n /\ n = local.n /\ h = local.host /\ b = local.before
            /\ L = Len(h) /\ cmd.action_type = "WRITE_DATA"
      BY <1>1, ImportNumbers
    <2>2. n = L
      BY <2>1 DEF ImportDone
    <2>3. /\ Promised' /\ SameFiles /\ UNCHANGED image /\ local' = local /\ cmd' = cmd
          /\ report' = "done"
      BY <1>1, <1>3, Ends DEF Finish
    <2>4. ReportsAreTrue'
      BY <2>1, <2>3 DEF ReportsAreTrue
    <2>5. ASSUME Importing'
          PROVE  FileWords(i)' = b \o h \/ OwnedBlocks' = DataNs
      <3>1. Importing /\ i \in UsedInodes
        BY <2>1, <2>3, <2>5 DEF Importing, SameFiles
      <3>2. Handed = n
        BY <1>1, <2>1 DEF Handed
      <3>3. PICK k \in 0 .. L : /\ FileWords(i) = b \o SubSeq(h, 1, k)
                                /\ k = n \/ Full
        BY <1>1, <2>1, <3>1, <3>2 DEF ImportTracked, StoredSoFar
      <3>4. CASE k = n
        <4>1. SubSeq(h, 1, k) = h
          BY <2>1, <2>2, <3>4, WholeIs
        <4>2. FileWords(i)' = b \o h
          BY <2>3, <3>1, <3>3, <4>1 DEF SameFiles
        <4> QED
          BY <4>2
      <3>5. CASE Full
        <4>1. data_bitmap = OwnedBlocks /\ data_bitmap \subseteq DataNs
          BY <1>1, UsedAtRest DEF Promised, Tracked, Inv, TypeOK
        <4>2. OwnedBlocks = DataNs
          BY <3>5, <4>1 DEF Full, FreeBlocks
        <4> QED
          BY <1>1, <2>3, <4>2, OwnedStays DEF Promised
      <3> QED
        BY <3>3, <3>4, <3>5
    <2>6. ImportIsWhole'
      BY <2>1, <2>3, <2>5 DEF ImportIsWhole
    <2> QED
      BY <1>1, <1>3, <2>4, <2>6, Finishes DEF Finish, SameButOut
  <1> QED
    BY <1>2, <1>3 DEF ImportDone


(* A chunk is given to write().                                            *)
LEMMA ChunkKeepsRest ==
  ASSUME Working, step = "import", NEW d \in Nat,
         local' = [local EXCEPT !.n = @ + d]
  PROVE  /\ LocalOK' /\ local'.n = local.n + d /\ local'.inode_n = local.inode_n
         /\ local'.host = local.host /\ local'.before = local.before
  <1>1. LocalOK
    BY DEF Working, CommandInv, CliTypeOK, LocalOK
  <1>2. PICK n \in Nat : n = local.n + d
    BY <1>1 DEF LocalOK
  <1>3. local' = [local EXCEPT !.n = n]
    BY <1>2
  <1>4. /\ local'.n = n /\ local'.size = local.size /\ local'.inode_n = local.inode_n
        /\ local'.host = local.host /\ local'.before = local.before
        /\ DOMAIN local' = DOMAIN local
    BY <1>1, <1>3 DEF LocalOK, NoLocal
  <1> QED
    BY <1>1, <1>2, <1>4 DEF LocalOK

(* What a chunk leaves of the file: before the first word of it is stored, *)
(* all that is stored was handed over before.                              *)
LEMMA ChunkStoresNothingYet ==
  ASSUME ImportTracked, SameFiles, UNCHANGED image, step = "import", step' = "import",
         cmd' = cmd, call.op = "none",
         NEW i, NEW n \in Nat, NEW h \in Seq(Words), NEW L \in Nat, NEW d \in Nat,
         i = local.inode_n, n = local.n, h = local.host, L = Len(h),
         local'.inode_n = i, local'.host = h, local'.before = local.before,
         local'.n = n + d, n < L,
         call'.op = "write", call'.inode_n = i, Len(call'.data) = d,
         call'.n_written = 0, FreeBlocks' = FreeBlocks
  PROVE  StoredSoFar'
  <1>1. Handed = n
    BY DEF Handed
  <1>2. Handed' = n
    <2>1. Handed' = n + d - d
      BY DEF Handed
    <2> QED
      BY <2>1
  <1>3. ASSUME Importing'
        PROVE  \E k \in 0 .. L : /\ FileWords(i)' = local.before \o SubSeq(h, 1, k)
                                 /\ k = n \/ (k < n /\ Full')
    <2>1. i \in UsedInodes /\ Importing
      BY <1>3 DEF Importing, SameFiles
    <2>2. PICK k \in 0 .. L : /\ FileWords(i) = local.before \o SubSeq(h, 1, k)
                              /\ k = n \/ (k < n /\ Full)
      BY <1>1, <2>1 DEF ImportTracked, StoredSoFar
    <2>3. FileWords(i)' = FileWords(i)
      BY <2>1 DEF SameFiles
    <2>4. Full => Full'
      BY DEF Full, image
    <2> QED
      BY <2>2, <2>3, <2>4
  <1> QED
    BY <1>2, <1>3 DEF StoredSoFar

LEMMA ImportChunkWorks ==
  ASSUME Working, ImportChunk
  PROVE  Working' /\ Disciplined
  <1>1. /\ Promised /\ step = "import" /\ pc = "idle" /\ call.op = "none"
        /\ ImportTracked /\ FilesAre /\ LocalOK
    BY CallRuns, FilesAreWords
    DEF Working, Promised, CommandInv, CliTypeOK, LocalOK, ImportChunk, Ready
  <1>2. PICK i \in Int, n \in Nat, h \in Seq(Words), L \in Nat :
          /\ i = local.inode_n /\ n = local.n /\ h = local.host /\ L = Len(h)
          /\ cmd.action_type = "WRITE_DATA" /\ n <= L /\ (n = L \/ n % ChunkSize = 0)
    BY <1>1, ImportNumbers
  <1>3. n < L /\ n % ChunkSize = 0
    BY <1>2 DEF ImportChunk
  <1>4. CASE BadInode(i)
    <2>1. /\ Promised' /\ SameFiles /\ Rests' /\ i \notin InodeNs
          /\ cmd' = cmd /\ local' = local /\ step' = "import"
          /\ UNCHANGED <<line, disk, report>>
      BY <1>1, <1>4, Answers DEF BadInode, cliVars
    <2>2. ~Importing'
      BY <1>2, <2>1 DEF Importing, SameFiles, UsedInodes
    <2>3. ImportTracked'
      BY <1>2, <1>3, <2>1, <2>2, NoImport DEF Rests
    <2>4. GoesOn
      BY <1>1, <2>1 DEF GoesOn, Rests, Calls
    <2>5. LocalOK'
      BY <1>1, <2>1 DEF LocalOK
    <2> QED
      BY <1>2, <2>1, <2>3, <2>4, <2>5, ImportGoesOn, NothingStarts DEF Rests
  <1>5. CASE Finish("error")
    <2>1. call'.op = "none"
      BY <1>1, <1>5, Ends DEF Finish, EndProcess
    <2> QED
      BY <1>1, <1>5, <2>1, FinishesOtherwise, NothingStarts
  <1>6. CASE /\ i \in InodeNs
             /\ WriteCall(i, 0, SubSeq(h, n + 1, n + NextChunk))
             /\ Goto("import") /\ local' = [local EXCEPT !.n = @ + NextChunk]
    <2>1. PICK d : d = NextChunk /\ d = Smaller(ChunkSize, L - n)
      BY <1>2 DEF NextChunk
    <2>2. /\ d \in Nat \ {0} /\ n + d <= L /\ (d = ChunkSize \/ n + d = L)
          /\ n + d = L \/ (n + d) % ChunkSize = 0
          /\ LastChunk <= d
      <3>1. /\ d \in Nat \ {0} /\ n + d <= L /\ (d = ChunkSize \/ n + d = L)
            /\ n + d = L \/ (n + d) % ChunkSize = 0
            /\ ((L - 1) % ChunkSize) + 1 <= d
        BY <1>3, <2>1, ChunkIs
      <3> QED
        BY <1>2, <3>1 DEF LastChunk
    <2>3. PICK s : s = SubSeq(h, n + 1, n + d)
      OBVIOUS
    <2>4. s \in Seq(Words) /\ Len(s) = d
      <3>1. n + d <= Len(h) /\ d \in Nat
        BY <1>2, <2>2
      <3> QED
        BY <2>3, <3>1, PartIsSeq
    <2>5. s # <<>>
      BY <2>2, <2>4
    <2>6. WriteCall(i, 0, s)
      BY <1>6, <2>1, <2>3
    <2>7. ASSUME i \in UsedInodes
          PROVE  BytesToBlocks(inodes[i].file_len) * BlockSize - inodes[i].file_len <= d
      <3>1. PICK l \in Nat : l = inodes[i].file_len
        BY <1>1, <1>6, <2>7 DEF FilesAre
      <3>2. PICK r : r = l % BlockSize
        OBVIOUS
      <3>3. TailFits
        BY <1>1, <1>2, <1>3, <2>7 DEF ImportTracked, Importing
      <3>4. r = 0 \/ BlockSize - r <= LastChunk
        BY <1>2, <3>1, <3>2, <3>3 DEF TailFits
      <3>5. r \in Nat /\ BlockSize \in Nat
        BY <3>2, SplitWord, LayoutAssumption
      <3>6. LastChunk \in Int
        <4>1. PICK e \in Nat : e = L - 1
          BY <1>3
        <4>2. e % ChunkSize \in Nat
          BY DivByBlock, CliAssumption
        <4> QED
          BY <1>2, <4>1, <4>2 DEF LastChunk
      <3>7. (IF r = 0 THEN 0 ELSE BlockSize - r) <= d
        BY <2>2, <3>4, <3>5, <3>6
      <3> QED
        BY <3>1, <3>2, <3>7, RestOfBlock
    <2>8. /\ Promised' /\ SameFiles /\ UNCHANGED image /\ Disciplined
          /\ IF i \notin UsedInodes THEN Rests' /\ result' = Refused
             ELSE /\ Asks("write", i) /\ call'.data = s /\ Appending'
                  /\ call'.n_written = 0 /\ FreeBlocks' = FreeBlocks
                  /\ inode' = inodes[i]
      BY <1>1, <1>6, <2>4, <2>5, <2>6, <2>7, Writes
    <2>9. local' = [local EXCEPT !.n = @ + d]
      BY <1>6, <2>1
    <2>10. /\ LocalOK' /\ local'.n = n + d /\ local'.inode_n = i
           /\ local'.host = h /\ local'.before = local.before
      BY <1>1, <1>2, <2>2, <2>9, ChunkKeepsRest
    <2>11. step' = "import" /\ cmd' = cmd /\ UNCHANGED <<line, disk, report>>
      BY <1>6 DEF Goto
    <2>12. GoesOn
      BY <1>1, <2>8, <2>11 DEF GoesOn, Asks, Rests, Calls, CallsOf
    <2>13. ImportTracked'
      <3>1. CASE i \notin UsedInodes
        <4>1. ~Importing' /\ call'.op = "none"
          BY <2>8, <2>10, <3>1 DEF Importing, SameFiles, Rests
        <4> QED
          BY <1>2, <2>2, <2>10, <2>11, <4>1, NoImport
      <3>2. CASE i \in UsedInodes
        <4>1. /\ call'.op = "write" /\ call'.inode_n = i /\ call'.data = s
              /\ call'.n_written = 0 /\ FreeBlocks' = FreeBlocks
          BY <2>8, <3>2 DEF Asks
        <4>2. StoredSoFar'
          BY <1>1, <1>2, <1>3, <2>2, <2>4, <2>8, <2>10, <2>11, <4>1,
             ChunkStoresNothingYet
        <4>3. ChunkWritten'
          <5>1. /\ call'.offset = 0 /\ call'.n_edited = 0 /\ pc' # "edit_rest"
                /\ pc' \in {"commit", "writeback"} =>
                     \/ call'.n_written = Len(call'.data)
                     \/ (inode'.file_len + call'.n_written) % BlockSize = 0
            BY <2>8, <3>2 DEF Appending
          <5>2. n + d - d = n /\ d <= n + d
            BY <2>2
          <5>3. /\ Len(call'.data) <= local'.n
                /\ call'.data = SubSeq(local'.host, local'.n - Len(call'.data) + 1, local'.n)
                /\ Len(call'.data) = ChunkSize \/ local'.n = Len(local'.host)
            <6>1. Len(call'.data) = d /\ local'.n = n + d /\ local'.host = h
              BY <2>4, <2>10, <4>1
            <6>2. PICK x, y, g : x = local'.n /\ y = Len(call'.data) /\ g = local'.host
              OBVIOUS
            <6>3. x = n + d /\ y = d /\ g = h /\ x \in Nat /\ y \in Nat
              BY <2>2, <6>1, <6>2
            <6>4. x - y = n
              BY <6>3
            <6>5. call'.data = SubSeq(g, x - y + 1, x)
              BY <2>3, <4>1, <6>3, <6>4
            <6>6. y <= x /\ (y = ChunkSize \/ x = Len(g))
              BY <1>2, <2>2, <5>2, <6>3
            <6> QED
              BY Zenon, <6>2, <6>5, <6>6
          <5> QED
            BY <2>10, <4>1, <5>1, <5>3 DEF ChunkWritten
        <4>4. ASSUME Importing', n + d < L
              PROVE  TailFits'
          <5>1. TailFits
            BY <1>1, <1>2, <1>3, <2>8, <2>10, <2>11, <4>4
            DEF ImportTracked, Importing, SameFiles
          <5>2. LastChunk' = LastChunk
            BY <1>2, <2>10 DEF LastChunk
          <5> QED
            BY <1>2, <2>8, <2>10, <5>1, <5>2 DEF TailFits, image
        <4> QED
          BY <1>2, <2>2, <2>10, <2>11, <4>2, <4>3, <4>4 DEF ImportTracked
      <3> QED
        BY <3>1, <3>2
    <2> QED
      BY <1>2, <2>8, <2>10, <2>11, <2>12, <2>13, ImportGoesOn
  <1>7. BadInode(i) \/ Finish("error")
        \/ /\ i \in InodeNs
           /\ WriteCall(i, 0, SubSeq(h, n + 1, n + NextChunk))
           /\ Goto("import") /\ local' = [local EXCEPT !.n = @ + NextChunk]
    <2>1. PICK put, go : put = SubSeq(h, n + 1, n + NextChunk)
                         /\ go = [local EXCEPT !.n = @ + NextChunk]
      OBVIOUS
    <2>2. put = SubSeq(local.host, ReadFrom + 1, ReadFrom + NextChunk)
      BY <1>2, <2>1 DEF ReadFrom
    <2> QED
      BY <1>2, <2>1, <2>2 DEF ImportChunk
  <1> QED
    BY <1>4, <1>5, <1>6, <1>7


(* While the chunk is being written, the object is its inode.              *)
LEMMA WriteInUse ==
  ASSUME Promised, call.op = "write"
  PROVE  pc \in InUse
  <1>1. pc \notin {"off", "idle"}
    BY CallRuns DEF Promised
  <1>2. pc \notin {"load", "return", "read", "unlink", "mark_load", "mark",
                   "mark_indirect", "scan", "scan_check", "format", "format_reset"}
    BY DEF Promised, Tracked, DirectInv, StepsOfCalls
  <1> QED
    BY <1>1, <1>2 DEF Promised, Tracked, Inv, TypeOK, InUse, AfterLoad, Labels

LEMMA ChunkRunsOn ==
  ASSUME Promised, Promised', Appending, SameFiles, RunsOn, AppendGoesOn, ImportTracked,
         step = "import", step' = "import", cmd' = cmd, local' = local
  PROVE  ImportTracked'
  <1>1. PICK i : i = local.inode_n
    OBVIOUS
  <1>2. /\ call.op = "write" /\ call'.op = "write" /\ call.inode_n = i /\ call'.inode_n = i
        /\ call'.data = call.data /\ call'.offset = call.offset
    BY <1>1 DEF Appending, RunsOn, ImportTracked, ChunkWritten
  <1>3. i \in UsedInodes /\ inode = inodes[i]
    BY <1>2, FileOfCall, WriteInUse, CallsInode DEF Promised
  <1>4. /\ i \in UsedInodes' /\ inodes'[i].file_len = inodes[i].file_len
        /\ FileWords(i)' = FileWords(i) /\ (Importing' <=> Importing)
    BY <1>1, <1>3 DEF SameFiles, Importing
  <1>5. Full => Full'
    BY <1>1, <1>2, <1>3, <1>4 DEF AppendGoesOn, NoRoom, Full
  <1>6. Handed' = Handed
    BY <1>2 DEF Handed
  <1>7. StoredSoFar'
    <2>1. ASSUME Importing'
          PROVE  \E k \in 0 .. Len(local'.host) :
                   /\ FileWords(i)' = local'.before \o SubSeq(local'.host, 1, k)
                   /\ k = Handed' \/ (k < Handed' /\ Full')
      <3>1. PICK k \in 0 .. Len(local.host) :
              /\ FileWords(i) = local.before \o SubSeq(local.host, 1, k)
              /\ k = Handed \/ (k < Handed /\ Full)
        BY <1>1, <1>4, <2>1 DEF ImportTracked, StoredSoFar
      <3> QED
        BY <1>4, <1>5, <1>6, <3>1
    <2> QED
      BY <1>1, <2>1 DEF StoredSoFar
  <1>8. ChunkWritten'
    BY <1>2 DEF ImportTracked, ChunkWritten, AppendGoesOn, Appending
  <1>9. TailFits => TailFits'
    BY <1>1, <1>4 DEF TailFits, LastChunk
  <1> QED
    BY <1>4, <1>7, <1>8, <1>9 DEF ImportTracked

LEMMA ChunkEnds ==
  ASSUME Promised, Promised', Appending, AppendEnds, ImportTracked, FilesAre,
         step = "import", step' = "import", cmd' = cmd, local' = local,
         NEW i, i = call.inode_n, Appended(i),
         NEW n \in Nat, NEW h \in Seq(Words), NEW b \in Seq(Words), NEW L \in Nat,
         n = local.n, h = local.host, b = local.before, L = Len(h),
         cmd.action_type = "WRITE_DATA"
  PROVE  ImportTracked'
  <1>1. /\ call.op = "write" /\ call'.op = "none" /\ i = local.inode_n /\ ChunkWritten
    BY DEF Appending, AppendEnds, ImportTracked, ChunkWritten
  <1>2. PICK d \in Nat, w \in Nat, m \in Nat :
          /\ d = Len(call.data) /\ w = call.n_written /\ w <= d /\ n = m + d
          /\ call.data = SubSeq(h, m + 1, m + d)
    <2>1. call \in Call
      BY DEF Promised, Tracked, Inv, TypeOK
    <2>2. PICK d \in Nat : d = Len(call.data)
      BY <2>1 DEF Call
    <2>3. PICK w \in Nat : w = call.n_written
      BY <2>1 DEF Call
    <2>4. w <= d
      BY <2>2, <2>3 DEF AppendEnds
    <2>5. d <= n /\ call.data = SubSeq(h, n - d + 1, n)
      BY <1>1, <2>2 DEF ChunkWritten
    <2>6. PICK m \in Nat : m = n - d /\ n = m + d
      BY <2>5
    <2> QED
      BY <2>2, <2>3, <2>4, <2>5, <2>6
  <1>3. /\ i \in UsedInodes /\ UsedInodes' = UsedInodes
        /\ FileWords(i)' = FileWords(i) \o SubSeq(call.data, 1, w)
        /\ inodes'[i].file_len = inodes[i].file_len + w
    <2>1. result'.n = w
      BY <1>2 DEF AppendEnds, Ok
    <2> QED
      BY <2>1 DEF Appended
  <1>4. PICK l \in Nat : l = inodes[i].file_len /\ inode.file_len = l
    <2>1. inode = inodes[i] /\ inodes[i].file_len \in Nat
      BY <1>1, <1>3, WriteInUse, CallsInode DEF Promised, FilesAre, UsedInodes
    <2> QED
      BY <2>1
  <1>5. w = d \/ (FreeBlocks = {} /\ w < d /\ (l + w) % BlockSize = 0)
    BY <1>2, <1>4 DEF AppendEnds
  <1>6. Importing /\ Importing'
    BY <1>1, <1>3 DEF Importing
  <1>7. n <= L /\ (n = L \/ n % ChunkSize = 0) /\ (n < L => d = ChunkSize /\ TailFits)
    BY <1>1, <1>2, <1>6 DEF ImportTracked, ChunkWritten
  <1>8. w < d => Full'
    BY <1>1, <1>3, <1>4, <1>5 DEF Full, AppendEnds
  <1>9. Handed = m /\ Handed' = n
    <2>1. n - d = m
      BY <1>2
    <2> QED
      BY <1>1, <1>2, <2>1 DEF Handed
  <1>10. PICK k \in 0 .. L : /\ FileWords(i) = b \o SubSeq(h, 1, k)
                             /\ k = m \/ (k < m /\ Full)
    BY <1>1, <1>6, <1>9 DEF ImportTracked, StoredSoFar
  <1>11. \E j \in 0 .. L : /\ FileWords(i)' = b \o SubSeq(h, 1, j)
                           /\ j = n \/ (j < n /\ Full')
    <2>1. CASE k = m
      <3>1. w <= d /\ m + d <= Len(h)
        BY <1>2, <1>7
      <3>2. FileWords(i)' = b \o SubSeq(h, 1, m + w)
        <4>1. (b \o SubSeq(h, 1, m)) \o SubSeq(SubSeq(h, m + 1, m + d), 1, w)
                = b \o SubSeq(h, 1, m + w)
          <5>1. AddsTo(b, h, m, d, w)
            BY <3>1, MoreStored
          <5> QED
            BY Zenon, <5>1 DEF AddsTo
        <4>2. FileWords(i) = b \o SubSeq(h, 1, m)
          BY <1>10, <2>1
        <4>3. call.data = SubSeq(h, m + 1, m + d)
          BY <1>2
        <4>4. FileWords(i)' = FileWords(i) \o SubSeq(call.data, 1, w)
          BY <1>3
        <4> QED
          BY <4>1, <4>2, <4>3, <4>4
      <3>3. m + w \in 0 .. L /\ (m + w = n \/ (m + w < n /\ w < d))
        <4>1. w <= d /\ n = m + d /\ n <= L
          BY <1>2, <1>7
        <4> QED
          BY <4>1
      <3> QED
        BY <1>8, <3>2, <3>3
    <2>2. CASE k < m /\ Full
      <3>1. w = 0 /\ FreeBlocks = {} /\ l % BlockSize = 0
        BY <1>1, <1>2, <1>4, <2>2 DEF Full
      <3>2. SubSeq(call.data, 1, 0) = <<>>
        <4>1. call.data \in Seq(Words)
          BY DEF Promised, Tracked, Inv, TypeOK, Call
        <4> QED
          BY <4>1, WholeIs
      <3>3. FileWords(i)' = FileWords(i)
        <4>1. FileWords(i) \in Seq(Words)
          BY <1>1, <1>3 DEF FilesAre, UsedInodes
        <4> QED
          BY <1>3, <3>1, <3>2, <4>1, NothingJoined
      <3>4. Full'
        <4>1. l + 0 = l
          OBVIOUS
        <4> QED
          BY <1>1, <1>3, <1>4, <3>1, <4>1 DEF Full, AppendEnds
      <3>5. k < n
        BY <1>2, <2>2
      <3> QED
        BY <1>10, <3>3, <3>4, <3>5
    <2> QED
      BY <1>10, <2>1, <2>2
  <1>12. StoredSoFar'
    BY <1>1, <1>9, <1>11 DEF StoredSoFar
  <1>13. ASSUME n < L
         PROVE  TailFits'
    <2>1. PICK r, c : r = l % BlockSize /\ c = LastChunk /\ c = LastChunk'
      BY DEF LastChunk
    <2>2. r = 0 \/ BlockSize - r <= c
      BY <1>1, <1>4, <1>7, <1>13, <2>1 DEF TailFits
    <2>3. (l + w) % BlockSize = r \/ (l + w) % BlockSize = 0
      <3>1. CASE w = d
        <4> QED
          <5>1. SameRest(l, w)
            BY <1>7, <1>13, <3>1, ChunkKeepsRow
          <5> QED
            BY <2>1, <5>1 DEF SameRest
      <3> QED
        BY <1>5, <3>1
    <2>4. inodes'[i].file_len = l + w
      BY <1>3, <1>4
    <2> QED
      BY <1>1, <2>1, <2>2, <2>3, <2>4 DEF TailFits
  <1> QED
    BY <1>1, <1>7, <1>12, <1>13 DEF ImportTracked, ChunkWritten

LEMMA ImportCallWorks ==
  ASSUME Working, FileSystemStep, step \in {"exists", "import"}
  PROVE  Working'
  <1>1. /\ Promised' /\ GoesOn /\ step' = step /\ local' = local
        /\ call.op \in CallsOf[step] /\ call.op # "none" /\ (RunsOn \/ HasEnded)
        /\ LocalOK'
    BY Serves
  <1>2. Promised /\ Step /\ ImportTracked /\ cmd' = cmd /\ FilesAre
    BY FilesAreWords DEF Working, CommandInv, FileSystemStep, cliVars, Promised
  <1>3. PICK i \in Int, n \in Nat, h \in Seq(Words), b \in Seq(Words), L \in Nat :
          /\ i = local.inode_n /\ n = local.n /\ h = local.host /\ b = local.before
          /\ L = Len(h) /\ cmd.action_type = "WRITE_DATA"
          /\ step # "import" => n = 0
    BY ImportNumbers
  <1>4. CASE step = "exists"
    <2>1. call.op = "length" /\ call.inode_n = i
      BY <1>1, <1>2, <1>3, <1>4 DEF CallsOf, ImportTracked
    <2>2. SameFiles
      BY <1>2, <2>1, ReadersKeepFiles
    <2>3. i \in UsedInodes
      BY <1>2, <2>1, FileOfCall
    <2>4. StoredSoFar'
      <3>1. ASSUME Importing'
            PROVE  FileWords(i)' = local'.before \o SubSeq(local'.host, 1, 0)
        <4>1. FileWords(i) = local.before \o SubSeq(local.host, 1, 0)
          <5>1. Importing
            BY <1>3, <2>3 DEF Importing
          <5> QED
            BY <1>2, <1>3, <1>4, <5>1 DEF ImportTracked, StoredSoFar
        <4>2. FileWords(i)' = FileWords(i)
          BY <2>2, <2>3 DEF SameFiles
        <4> QED
          BY <1>1, <4>1, <4>2
      <3>2. 0 \in 0 .. Len(h)
        BY <1>3
      <3> QED
        BY <1>1, <1>3, <1>4, <3>1, <3>2 DEF StoredSoFar
    <2>5. call'.op = "length" => call'.inode_n = i
      BY <1>1, <2>1 DEF RunsOn, HasEnded
    <2>6. call'.op = "none" => result'.how = "ok"
      BY <1>1, <1>2, <2>1, LengthEnds DEF RunsOn, LengthTold
    <2>7. ImportTracked'
      BY <1>1, <1>3, <1>4, <2>4, <2>5, <2>6 DEF ImportTracked
    <2> QED
      BY <1>1, <1>3, <1>4, <2>7, ImportGoesOn
  <1>5. CASE step = "import"
    <2>1. call.op = "write" /\ call.offset = 0 /\ Appending
      <3>1. call.op = "write"
        BY <1>1, <1>5 DEF CallsOf
      <3> QED
        BY <1>2, <1>5, <3>1 DEF ImportTracked, ChunkWritten, Appending
    <2>2. PICK m : m = call.inode_n
      OBVIOUS
    <2>3. /\ RunsOn => SameFiles
          /\ HasEnded => Appended(m)
      BY <1>2, <2>1, <2>2, AppendRunsOrEnds
    <2>4. AppendGoesOn \/ AppendEnds
      BY <1>2, <2>1, AppendStep
    <2>5. ImportTracked'
      <3>1. CASE RunsOn
        <4>1. AppendGoesOn
          BY <2>1, <2>4, <3>1 DEF RunsOn, AppendEnds
        <4> QED
          BY <1>1, <1>2, <1>5, <2>1, <2>3, <3>1, <4>1, ChunkRunsOn
      <3>2. CASE HasEnded
        <4>1. AppendEnds
          BY <2>4, <3>2 DEF HasEnded, AppendGoesOn, Appending
        <4> QED
          BY <1>1, <1>2, <1>3, <1>5, <2>1, <2>2, <2>3, <3>2, <4>1, ChunkEnds
      <3> QED
        BY <1>1, <3>1, <3>2
    <2> QED
      BY <1>1, <1>3, <1>5, <2>5, ImportGoesOn
  <1> QED
    BY <1>4, <1>5


-----------------------------------------------------------------------------
(* The commands keep their invariant.                                      *)
LEMMA CallWorks ==
  ASSUME Working, FileSystemStep
  PROVE  Working'
  <1>1. step \in Calls
    BY Serves
  <1>2. CASE step \in {"mounted", "formatting", "last"}
    BY <1>2, PlainCallWorks
  <1>3. CASE step \in {"exists", "import"}
    BY <1>3, ImportCallWorks
  <1>4. CASE step \in {"list", "named", "sized"}
    BY <1>4, ListCallWorks
  <1>5. CASE step \in {"export_size", "export", "exported"}
    BY <1>5, ExportCallWorks
  <1> QED
    BY <1>1, <1>2, <1>3, <1>4, <1>5 DEF Calls

LEMMA EventWorks ==
  ASSUME Working, EventStep
  PROVE  Working'
  <1>1. CASE Parse \/ StartEvent \/ OpenDisk \/ CallThrew
    BY <1>1, ParseWorks, StartEventWorks, OpenDiskWorks, CallThrewWorks
  <1>2. CASE Stats \/ Files \/ ListNext \/ ListName \/ ListLength
    BY <1>2, StatsWorks, FilesWorks, ListNextWorks, ListNameWorks, ListLengthWorks
  <1>3. CASE ImportOpen \/ ImportExists \/ ImportChunk \/ ImportDone
    BY <1>3, ImportOpenWorks, ImportExistsWorks, ImportChunkWorks, ImportDoneWorks
  <1>4. CASE ExportOpen \/ ExportSize \/ ExportChunk \/ ExportWrite
    BY <1>4, ExportOpenWorks, ExportSizeWorks, ExportChunkWorks, ExportWriteWorks
  <1>5. CASE Delete \/ Rename \/ LastCall
    BY <1>5, DeleteWorks, RenameWorks, LastCallWorks
  <1>6. CASE CreateDisk \/ FormatDisk \/ FormatDone
    BY <1>6, CreateDiskWorks, FormatDiskWorks, FormatDoneWorks
  <1> QED
    BY <1>1, <1>2, <1>3, <1>4, <1>5, <1>6 DEF EventStep

LEMMA PauseWorks ==
  ASSUME Working, UNCHANGED allVars
  PROVE  Working'
  <1>1. Promised'
    BY Stays DEF Working, allVars
  <1>2. UNCHANGED <<inodes, blocks, inode_bitmap, data_bitmap, loaded_inode_n, inode, pc,
                    call, result, disk, line, cmd, step, local, report>>
    BY DEF allVars, vars, cliVars, image, bitmaps, object
  <1>3. UsedInodes' = UsedInodes /\ \A n : FileWords(n)' = FileWords(n)
    BY <1>2 DEF UsedInodes, FileWords, Owned, Ptrs, Chain, NChain, IndirectPtr, HasIndirect,
                NIndirectPtrs
  <1>5. CliTypeOK' /\ StepsOfEvents' /\ EventsOfActions'
    BY <1>2 DEF Working, CommandInv, CliTypeOK, StepsOfEvents, EventsOfActions
  <1>6. ParsedSoFar'
    <2>1. NParsed' = NParsed /\ \A k : Letter(k)' = Letter(k)
      BY <1>2 DEF NParsed, Letter
    <2>2. \A k : TakenBack(k)' <=> TakenBack(k)
      BY <1>2 DEF TakenBack, Letter, Unknown
    <2> QED
      BY <1>2, <2>1, <2>2 DEF Working, CommandInv, ParsedSoFar
  <1>7. ImportTracked'
    <2>1. Handed' = Handed /\ (Full' <=> Full) /\ (Importing' <=> Importing)
      BY <1>2, <1>3 DEF Handed, Full, FreeBlocks, Importing
    <2>2. FileWords(local.inode_n)' = FileWords(local.inode_n)
      BY <1>2 DEF UsedInodes, FileWords, Owned, Ptrs, Chain, NChain, IndirectPtr,
                  HasIndirect, NIndirectPtrs
    <2>3. StoredSoFar' <=> StoredSoFar
      BY <1>2, <2>1, <2>2 DEF StoredSoFar
    <2>4. (ChunkWritten' <=> ChunkWritten) /\ (TailFits' <=> TailFits)
      BY <1>2 DEF ChunkWritten, TailFits, LastChunk
    <2> QED
      BY <1>2, <2>1, <2>3, <2>4 DEF Working, CommandInv, ImportTracked
  <1>8. ExportTracked'
    <2>1. FileWords(cmd.file_inode)' = FileWords(cmd.file_inode)
      BY <1>2 DEF UsedInodes, FileWords, Owned, Ptrs, Chain, NChain, IndirectPtr,
                  HasIndirect, NIndirectPtrs
    <2> QED
      BY <1>2, <1>3, <2>1 DEF Working, CommandInv, ExportTracked
  <1>9. ListTracked' /\ RemoveTracked'
    <2>1. Listed(local.n)' <=> Listed(local.n)
      BY <1>2, <1>3 DEF Listed
    <2> QED
      BY <1>2, <1>3, <2>1 DEF Working, CommandInv, ListTracked, RemoveTracked
  <1>10. ImportIsWhole' /\ ReportsAreTrue'
    <2>1. OwnedBlocks' = OwnedBlocks
      BY <1>1, <1>2, OwnedStays DEF Working, Promised, image
    <2>2. /\ FileWords(local.inode_n)' = FileWords(local.inode_n)
          /\ FileWords(cmd.file_inode)' = FileWords(cmd.file_inode)
      BY <1>2 DEF UsedInodes, FileWords, Owned, Ptrs, Chain, NChain, IndirectPtr,
                  HasIndirect, NIndirectPtrs
    <2>3. ImportIsWhole'
      BY <1>2, <1>3, <2>1, <2>2 DEF Working, CommandInv, ImportIsWhole, Importing
    <2>4. ReportsAreTrue'
      BY <1>2, <1>3, <2>1, <2>2 DEF Working, CommandInv, ReportsAreTrue
    <2> QED
      BY <2>3, <2>4
  <1> QED
    BY <1>1, <1>5, <1>6, <1>7, <1>8, <1>9, <1>10 DEF Working, CommandInv

LEMMA NextWorks == Working /\ [CliNext /\ Appends]_allVars => Working'
  <1> SUFFICES ASSUME Working, [CliNext /\ Appends]_allVars
               PROVE  Working'
    OBVIOUS
  <1>1. CASE FileSystemStep
    BY <1>1, CallWorks
  <1>2. CASE EventStep
    BY <1>2, EventWorks
  <1>3. ASSUME NEW l \in CommandLines, Launch(l) PROVE Working'
    BY <1>3, LaunchWorks
  <1>4. ASSUME NEW yes \in BOOLEAN, ImportAnswer(yes), Appends PROVE Working'
    BY <1>4, ImportAnswerWorks
  <1>5. ASSUME NEW yes \in BOOLEAN, FormatAnswer(yes) PROVE Working'
    BY <1>5, FormatAnswerWorks
  <1>6. CASE Kill
    BY <1>6, KillWorks
  <1>7. CASE UNCHANGED allVars
    BY <1>7, PauseWorks
  <1> QED
    BY <1>1, <1>2, <1>3, <1>4, <1>5, <1>6, <1>7 DEF CliNext, UserStep

LEMMA InitWorks == CliInit => Working
  <1> SUFFICES ASSUME CliInit PROVE Working
    OBVIOUS
  <1>1. /\ Promised /\ pc = "off" /\ loaded_inode_n = Null /\ call.op = "none"
    BY InitKept DEF CliInit, Init, NoCall
  <1>2. /\ disk = "missing" /\ line = <<>> /\ cmd = NotSeen /\ step = "none"
        /\ local = NoLocal /\ report = "none"
    BY DEF CliInit
  <1>3. LocalOK /\ local.inode_n = Null
    <2>1. /\ NoLocal.inode_n = Null /\ NoLocal.n = 0 /\ NoLocal.size = 0
          /\ NoLocal.host = <<>> /\ NoLocal.before = <<>>
      BY DEF NoLocal
    <2>2. <<>> \in Seq(Words) /\ Null \in Int /\ 0 \in Nat
      BY DEF Null
    <2> QED
      BY <1>2, <2>1, <2>2 DEF LocalOK
  <1>4. CliTypeOK
    BY <1>1, <1>2, <1>3 DEF CliTypeOK, LocalOK
  <1>5. StepsOfEvents
    BY <1>1, <1>2 DEF StepsOfEvents, Calls
  <1>6. EventsOfActions
    BY <1>2 DEF EventsOfActions, ActionsOf
  <1>7. ParsedSoFar
    <2>1. /\ cmd.file_inode \in Int /\ cmd.action_type = "INVALID_PARSING"
      BY <1>2 DEF NotSeen
    <2>2. NParsed = 0
      BY <1>2 DEF NParsed
    <2>3. TakenBack(0)
      BY DEF TakenBack
    <2> QED
      BY <1>2, <2>1, <2>2, <2>3 DEF ParsedSoFar
  <1>8. ~Importing /\ report # "done"
    BY <1>2 DEF Importing, NotSeen
  <1>9. ImportTracked /\ ExportTracked /\ ListTracked /\ RemoveTracked
    BY <1>2, <1>8 DEF ImportTracked, StoredSoFar, ExportTracked, ListTracked, RemoveTracked
  <1>10. ImportIsWhole /\ ReportsAreTrue
    BY <1>8 DEF ImportIsWhole, ReportsAreTrue
  <1> QED
    BY <1>1, <1>4, <1>5, <1>6, <1>7, <1>9, <1>10 DEF Working, CommandInv

LEMMA CliWorks == CliSpec => []Working
  BY InitWorks, NextWorks, PTL DEF CliSpec


(* A read or a write begins in the steps that hand a chunk over; all other *)
(* steps that lead to where one may run make no call of it.                *)
LEMMA EndsNothing ==
  ASSUME EndProcess
  PROVE  Disciplined
  <1>1. CASE Crash
    <2>1. call' = NoCall
      BY <1>1 DEF Crash
    <2> QED
      BY <2>1, NothingStarts DEF NoCall
  <1>2. CASE UNCHANGED vars
    BY <1>2, NothingStarts DEF vars
  <1> QED
    BY <1>1, <1>2 DEF EndProcess

LEMMA ElsewhereNothingStarts ==
  ASSUME Working', step' \notin {"import", "exported"}
  PROVE  Disciplined
  <1>1. call'.op \notin {"read", "write"}
    BY DEF Working, CommandInv, StepsOfEvents, Calls, CallsOf
  <1> QED
    BY <1>1, NothingStarts

LEMMA ImportStepsCareful ==
  ASSUME Working, ImportOpen \/ ImportExists \/ ImportChunk \/ ImportDone, Working'
  PROVE  Disciplined
  <1>1. CASE ImportOpen
    <2>1. CASE CreateFile(FALSE)
      <3>1. call'.op = "none"
        BY <2>1, Creates DEF Working, Rests
      <3> QED
        BY <3>1, NothingStarts
    <2>2. CASE step' # "import" /\ step' # "exported"
      BY <2>2, ElsewhereNothingStarts
    <2> QED
      BY <1>1, <2>1, <2>2 DEF ImportOpen, Finish, BadInode, Ready, Goto, cliVars
  <1>2. CASE ImportExists
    <2>1. call' = call
      BY <1>2 DEF ImportExists, vars
    <2> QED
      BY <2>1, NothingStarts
  <1>3. CASE ImportChunk
    BY <1>3, ImportChunkWorks
  <1>4. CASE ImportDone
    BY <1>4, EndsNothing DEF ImportDone, Finish
  <1> QED
    BY <1>1, <1>2, <1>3, <1>4

LEMMA EventStepsCareful ==
  ASSUME Working, EventStep, Working'
  PROVE  Disciplined
  <1>1. CASE ImportOpen \/ ImportExists \/ ImportChunk \/ ImportDone
    BY <1>1, ImportStepsCareful
  <1>2. CASE ExportChunk
    BY <1>2, ExportChunkWorks
  <1>3. CASE EndProcess
    BY <1>3, EndsNothing
  <1>4. CASE step' \notin {"import", "exported"}
    BY <1>4, ElsewhereNothingStarts
  <1>5. CASE Parse \/ StartEvent \/ OpenDisk \/ CallThrew
    BY <1>3, <1>4, <1>5
    DEF Parse, StartEvent, OpenDisk, CallThrew, Goto, Finish, FirstSteps
  <1>6. CASE Stats \/ Files \/ ListNext \/ ListName \/ ListLength
    BY <1>3, <1>4, <1>6
    DEF Stats, Files, ListNext, ListName, ListLength, Goto, Finish, BadInode, Ready, cliVars
  <1>7. CASE ExportOpen \/ ExportSize \/ ExportWrite
    BY <1>3, <1>4, <1>7
    DEF ExportOpen, ExportSize, ExportWrite, Goto, Finish, BadInode, Ready, cliVars
  <1>8. CASE Delete \/ Rename \/ LastCall
    BY <1>3, <1>4, <1>8
    DEF Delete, Rename, LastCall, Goto, Finish, BadInode, Ready, cliVars
  <1>9. CASE CreateDisk \/ FormatDisk \/ FormatDone
    BY <1>3, <1>4, <1>9 DEF CreateDisk, FormatDisk, FormatDone, Goto, Finish
  <1> QED
    BY <1>1, <1>2, <1>5, <1>6, <1>7, <1>8, <1>9 DEF EventStep

LEMMA StepsCareful ==
  Working /\ [CliNext /\ Appends]_allVars => [Careful /\ DirectOnly]_vars
  <1> SUFFICES ASSUME Working, CliNext, Appends
               PROVE  Disciplined \/ UNCHANGED vars
    BY DEF allVars, Disciplined
  <1>1. Working'
    BY NextWorks
  <1>2. CASE FileSystemStep
    <2>1. call.op # "none"
      BY <1>2, Serves
    <2> QED
      BY <2>1, NothingStarts
  <1>3. CASE EventStep
    BY <1>1, <1>3, EventStepsCareful
  <1>4. CASE UserStep
    BY <1>4, EndsNothing DEF UserStep, Launch, ImportAnswer, FormatAnswer, Finish
  <1>5. CASE Kill
    BY <1>5, EndsNothing DEF Kill, Finish
  <1> QED
    BY <1>2, <1>3, <1>4, <1>5 DEF CliNext

-----------------------------------------------------------------------------
(* Which commands may change the image.                                    *)
Writers == {"WRITE_DATA", "DELETE_FILE", "RENAME_FILE", "FORMAT_DISK", "CREATE_DISK"}

LEMMA EndsKeepImage ==
  ASSUME EndProcess
  PROVE  UNCHANGED image
  BY DEF EndProcess, Crash, vars, image

LEMMA LookupsKeepImage ==
  ASSUME Working, NEW op \in {"length", "name"}, NEW n, LookupCall(op, n)
  PROVE  UNCHANGED image
  BY Lookups DEF Working

LEMMA OthersKeepImage ==
  ASSUME Working, CliNext, cmd.action_type \notin Writers \/ step \in {"parse", "none"}
  PROVE  UNCHANGED image
  <1>1. CASE FileSystemStep
    <2>1. /\ step \in Calls \ {"import", "last", "formatting"}
          /\ call.op \in CallsOf[step] /\ Step
      BY <1>1, Serves
      DEF Working, CommandInv, EventsOfActions, ActionsOf, Calls, Writers, FileSystemStep
    <2>2. call.op \in {"mount", "length", "name", "read"}
      BY <2>1 DEF CallsOf, Calls
    <2> QED
      BY <2>1, <2>2, ReadersKeepImage DEF Working
  <1>2. CASE EndProcess
    BY <1>2, EndsKeepImage
  <1>3. CASE UNCHANGED vars
    BY <1>3 DEF vars
  <1>4. ASSUME NEW op \in {"length", "name"}, NEW n, LookupCall(op, n)
        PROVE  UNCHANGED image
    BY <1>4, LookupsKeepImage
  <1>5. ASSUME NEW n, BadInode(n)
        PROVE  UNCHANGED image
    BY <1>5 DEF BadInode, Answer
  <1>6. CASE Parse \/ StartEvent \/ CallThrew
    BY <1>2, <1>3, <1>6 DEF Parse, StartEvent, CallThrew, Finish
  <1>7. CASE OpenDisk
    <2>1. CASE MountCall
      BY <2>1 DEF MountCall
    <2> QED
      BY <1>2, <1>7, <2>1 DEF OpenDisk, Finish
  <1>8. CASE Stats \/ Files \/ ListNext \/ ListName \/ ListLength
    BY <1>2, <1>3, <1>4, <1>5, <1>8 DEF Stats, Files, ListNext, ListName, ListLength, Finish
  <1>9. CASE ExportOpen \/ ExportSize \/ ExportWrite
    BY <1>2, <1>3, <1>4, <1>5, <1>9 DEF ExportOpen, ExportSize, ExportWrite, Finish
  <1>10. CASE ExportChunk
    <2>1. ASSUME NEW n, NEW o, NEW l, ReadCall(n, o, l)
          PROVE  UNCHANGED image
      BY <2>1 DEF ReadCall, Answer, Start, LoadInode
    <2> QED
      BY <1>2, <1>10, <2>1 DEF ExportChunk, Finish
  <1>11. EventsOfActions
    BY DEF Working, CommandInv
  <1>12. ~ImportOpen /\ ~ImportExists /\ ~ImportChunk /\ ~ImportDone /\ ~Delete /\ ~Rename
    <2>1. ~ImportOpen /\ ~Delete /\ ~Rename
      BY DEF Writers, ImportOpen, Delete, Rename, Ready
    <2>2. step \in {"exists", "import"} => cmd.action_type \in Writers
      BY <1>11 DEF EventsOfActions, ActionsOf, Writers
    <2>3. ~ImportExists
      BY <2>2 DEF ImportExists, Ready
    <2>4. ~ImportChunk /\ ~ImportDone
      BY <2>2 DEF ImportChunk, ImportDone, Ready
    <2> QED
      BY <2>1, <2>3, <2>4
  <1>13. ~LastCall /\ ~CreateDisk /\ ~FormatDisk /\ ~FormatDone
    BY <1>11 DEF EventsOfActions, ActionsOf, Writers, LastCall, CreateDisk, FormatDisk,
                 FormatDone, Ready
  <1>14. CASE UserStep \/ Kill
    BY <1>2, <1>3, <1>14 DEF UserStep, Kill, Launch, ImportAnswer, FormatAnswer, Finish
  <1> QED
    BY <1>1, <1>6, <1>7, <1>8, <1>9, <1>10, <1>12, <1>13, <1>14 DEF CliNext, EventStep

LEMMA WritersAsked ==
  ASSUME Working, cmd.action_type \in Writers, step \notin {"parse", "none"}
  PROVE  \E k \in DOMAIN line :
           /\ Letter(k) \in {"w", "d", "q", "f", "c"}
           /\ \A j \in 1 .. k - 1 : Letter(j) \in {"h", "r", "x", "l"} =>
                \E m \in Unknown : j < m /\ m < k
  <1>1. NParsed = Len(line) /\ DOMAIN line = 1 .. Len(line) /\ Len(line) \in Nat
    BY LinesAreSequences DEF NParsed, Working, CommandInv, CliTypeOK
  <1>2. PICK k \in 1 .. NParsed :
          /\ Letter(k) \in DOMAIN Actions /\ cmd.action_type = Actions[Letter(k)]
          /\ TakenBack(k - 1)
    BY DEF Working, CommandInv, ParsedSoFar
  <1>3. Letter(k) \in {"w", "d", "q", "f", "c"}
    BY <1>2 DEF Actions, Writers
  <1>4. ASSUME NEW j \in 1 .. k - 1, Letter(j) \in {"h", "r", "x", "l"}
        PROVE  \E m \in Unknown : j < m /\ m < k
    <2>1. Letter(j) \in DOMAIN Actions
      BY <1>4 DEF Actions
    <2>2. PICK m \in Unknown : j < m /\ m <= k - 1
      BY <1>2, <1>4, <2>1 DEF TakenBack
    <2>3. m \in Nat /\ k \in Nat
      BY <1>1, <1>2 DEF Unknown
    <2> QED
      BY <2>2, <2>3
  <1> QED
    BY <1>1, <1>2, <1>3, <1>4

LEMMA WritersOnlyWrite ==
  Working /\ [CliNext /\ Appends]_allVars =>
    [image' # image =>
       \E k \in DOMAIN line :
         /\ Letter(k) \in {"w", "d", "q", "f", "c"}
         /\ \A j \in 1 .. k - 1 : Letter(j) \in {"h", "r", "x", "l"} =>
              \E m \in Unknown : j < m /\ m < k]_allVars
  BY OthersKeepImage, WritersAsked

-----------------------------------------------------------------------------
(* Theorem: the variables of the commands have their types, and a process  *)
(* that is over leaves no object behind.                                   *)
THEOREM CliTypesKept == CliSpec => []CliTypeOK
  BY CliWorks, PTL DEF Working, CommandInv

(* Theorem: whatever the command lines and the files of the host, at every *)
(* step of an event its variables agree with the request it has made and   *)
(* with the files on the image.  This is the inductive invariant of Cli.   *)
THEOREM CommandsTracked == CliSpec => []CommandInv
  BY CliWorks, PTL DEF Working

(* Theorem: an import, also one that was killed or has failed on the way,  *)
(* leaves in its file the words of before, followed by a first part of the *)
(* file of the host: no chunk is lost before another, or stored twice.     *)
THEOREM ImportsAppendPrefix == CliSpec => []ImportIsPrefix
  <1>1. Working => ImportIsPrefix
    BY DEF Working, CommandInv, ImportTracked, StoredSoFar, ImportIsPrefix
  <1> QED
    BY <1>1, CliWorks, PTL

(* Theorem: an import that reports success has stored the whole file of    *)
(* the host, or no block is free any more, for users that keep to Appends. *)
THEOREM ImportsAreWhole == CliSpec => []ImportIsWhole
  BY CliWorks, PTL DEF Working, CommandInv

(* Theorem: an export that reports success has got exactly the words of    *)
(* its file, a list names every file with its length and nothing else, the *)
(* numbers of used inodes and blocks are those of the image, and the file  *)
(* of a removal is gone.                                                   *)
THEOREM CommandsReportTruly == CliSpec => []ReportsAreTrue
  BY CliWorks, PTL DEF Working, CommandInv

(* Theorem: the commands are callers that keep to the discipline of        *)
(* Ownership.  Every call they make is one for which DirectSpec's theorems *)
(* hold: an export reads no block behind the end of its file, and no chunk *)
(* of an import leaves a block half full that another one follows.         *)
THEOREM CommandsAreCareful == CliSpec => CallsAreCareful
  BY CliWorks, StepsCareful, PTL DEF CliSpec, CallsAreCareful

(* Theorem: a command line changes the image only for an option that asks  *)
(* for a change, before which no reading action stands in force.           *)
THEOREM OnlyWritersWrite == CliSpec => ReadersOnlyRead
  BY CliWorks, WritersOnlyWrite, PTL DEF CliSpec, ReadersOnlyRead

(* Theorem: through all commands, kills, formats and new images the files  *)
(* on the image stay apart, and whenever no call runs the bitmaps and the  *)
(* object of a mounted image agree with them.                              *)
THEOREM CommandsKeepFiles ==
  CliSpec => [](NoSharing /\ BitmapsSafe /\ NoLeak /\ ObjectCoherent)
  <1>1. Working => NoSharing /\ BitmapsSafe /\ NoLeak /\ ObjectCoherent
    BY FilesApart, BitmapIsOwned, ObjectIsImage DEF Working, Promised, BitmapsSafe, NoLeak
  <1> QED
    BY <1>1, CliWorks, PTL
=============================================================================
