------------------------- MODULE FileSystem_proofs --------------------------
(***************************************************************************)
(* Theorems about FileSystem, for every value of the constants, behind the *)
(* arithmetic of lengths and blocks: BytesToBlocks is the number of whole  *)
(* blocks that a length needs, neither more nor less.                      *)
(***************************************************************************)
EXTENDS FileSystem, TLAPS

(* The blocks of a length hold it, and one block less would not.           *)
LEMMA BlocksCover ==
  ASSUME NEW a \in Nat
  PROVE  /\ BytesToBlocks(a) \in Nat
         /\ a <= BytesToBlocks(a) * BlockSize
         /\ BytesToBlocks(a) * BlockSize < a + BlockSize
  <1>1. BlockSize \in Nat \ {0, 1}
    BY LayoutAssumption
  <1>2. PICK q \in Nat, p \in Nat : /\ q = a \div BlockSize /\ p = a % BlockSize
                                    /\ p < BlockSize /\ a = q * BlockSize + p
    BY <1>1, Z3
  <1>3. (q + 1) * BlockSize = q * BlockSize + BlockSize /\ q * BlockSize \in Nat
    BY <1>1
  <1>4. CASE a = 0
    <2>1. BytesToBlocks(a) = 0 
      BY <1>4 DEF BytesToBlocks
    <2> QED
      BY <1>1, <1>4, <2>1
  <1>5. CASE a # 0 /\ p = 0
    <2>1. BytesToBlocks(a) = q
      BY <1>2, <1>5 DEF BytesToBlocks
    <2> QED
      BY <1>1, <1>2, <1>3, <1>5, <2>1
  <1>6. CASE a # 0 /\ p # 0
    <2>1. BytesToBlocks(a) = q + 1
      BY <1>2, <1>6 DEF BytesToBlocks
    <2> QED
      BY <1>1, <1>2, <1>3, <1>6, <2>1
  <1> QED
    BY <1>4, <1>5, <1>6

(* Comparing numbers of blocks by the words in them.                       *)
LEMMA WholeBlocks ==
  ASSUME NEW j \in Nat, NEW k \in Nat, j * BlockSize < k * BlockSize + BlockSize
  PROVE  j <= k
  <1>1. BlockSize \in Nat \ {0, 1}
    BY LayoutAssumption
  <1> QED
    BY <1>1, Z3

(* No other number of blocks does.                                        *)
LEMMA BlocksUnique ==
  ASSUME NEW a \in Nat, NEW k \in Nat, a <= k * BlockSize, k * BlockSize < a + BlockSize
  PROVE  BytesToBlocks(a) = k
  <1>1. BlockSize \in Nat \ {0, 1}
    BY LayoutAssumption
  <1>2. PICK j \in Nat : j = BytesToBlocks(a)
    BY BlocksCover
  <1>3. a <= j * BlockSize /\ j * BlockSize < a + BlockSize
    BY <1>2, BlocksCover
  <1>4. j * BlockSize \in Nat /\ k * BlockSize \in Nat
    BY <1>1
  <1>5. j <= k /\ k <= j
    BY <1>1, <1>3, <1>4, WholeBlocks
  <1> QED
    BY <1>2, <1>5

(* A longer file has no fewer blocks, and only an empty one has none.      *)
LEMMA BlocksMonotone ==
  ASSUME NEW a \in Nat, NEW c \in Nat, a <= c
  PROVE  BytesToBlocks(a) <= BytesToBlocks(c)
  <1>1. BlockSize \in Nat \ {0, 1}
    BY LayoutAssumption
  <1>2. PICK j \in Nat : j = BytesToBlocks(a)
    BY BlocksCover
  <1>3. PICK k \in Nat : k = BytesToBlocks(c)
    BY BlocksCover
  <1>4. j * BlockSize < a + BlockSize /\ c <= k * BlockSize
    BY <1>2, <1>3, BlocksCover
  <1>5. j * BlockSize \in Nat /\ k * BlockSize \in Nat
    BY <1>1
  <1> QED
    BY <1>1, <1>2, <1>3, <1>4, <1>5, WholeBlocks

LEMMA BlocksZero ==
  ASSUME NEW a \in Nat
  PROVE  BytesToBlocks(a) = 0 <=> a = 0
  <1>1. BlockSize \in Nat \ {0, 1}
    BY LayoutAssumption
  <1>2. a = 0 => BytesToBlocks(a) = 0
    BY DEF BytesToBlocks
  <1>3. BytesToBlocks(a) = 0 => a <= 0 * BlockSize
    BY BlocksCover
  <1> QED
    BY <1>1, <1>2, <1>3

(* What write's loops count with: each iteration takes one block's worth   *)
(* off what is left, and adds one block to a file that ends with a block.  *)
LEMMA OneBlockLess ==
  ASSUME NEW a \in Nat \ {0}
  PROVE  BytesToBlocks(a - Smaller(a, BlockSize)) = BytesToBlocks(a) - 1
  <1>1. BlockSize \in Nat \ {0, 1}
    BY LayoutAssumption
  <1>2. PICK k \in Nat : k = BytesToBlocks(a)
    BY BlocksCover
  <1>3. a <= k * BlockSize /\ k * BlockSize < a + BlockSize /\ k # 0
    BY <1>2, BlocksCover, BlocksZero
  <1>4. k * BlockSize \in Nat /\ (k - 1) * BlockSize = k * BlockSize - BlockSize
        /\ k - 1 \in Nat
    BY <1>1, <1>3
  <1>5. CASE a <= BlockSize
    <2>1. Smaller(a, BlockSize) = a /\ a - a = 0
      BY <1>1, <1>5 DEF Smaller
    <2>2. k = 1
      BY <1>1, <1>3, <1>4, <1>5, WholeBlocks
    <2> QED
      BY <1>2, <2>1, <2>2, BlocksZero
  <1>6. CASE a > BlockSize
    <2>1. Smaller(a, BlockSize) = BlockSize /\ a - BlockSize \in Nat
      BY <1>1, <1>6 DEF Smaller
    <2>2. BytesToBlocks(a - BlockSize) = k - 1
      BY <1>1, <1>3, <1>4, <2>1, BlocksUnique
    <2> QED
      BY <1>2, <2>1, <2>2
  <1> QED
    BY <1>1, <1>5, <1>6

LEMMA OneBlockMore ==
  ASSUME NEW a \in Nat, a % BlockSize = 0, NEW w \in 1 .. BlockSize
  PROVE  /\ BytesToBlocks(a + w) = BytesToBlocks(a) + 1
         /\ w = BlockSize => (a + w) % BlockSize = 0
  <1>1. BlockSize \in Nat \ {0, 1}
    BY LayoutAssumption
  <1>2. PICK q \in Nat : a = q * BlockSize
    BY <1>1, Z3
  <1>3. (q + 1) * BlockSize = q * BlockSize + BlockSize /\ q * BlockSize \in Nat
    BY <1>1
  <1>4. BytesToBlocks(a) = q /\ BytesToBlocks(a + w) = q + 1
    BY <1>1, <1>2, <1>3, BlocksUnique
  <1>5. ((q + 1) * BlockSize) % BlockSize = 0
    BY <1>1, Z3
  <1> QED
    BY <1>2, <1>3, <1>4, <1>5

(* A file whose last block has been filled up keeps its blocks.            *)
LEMMA FilledUp ==
  ASSUME NEW a \in Nat
  PROVE  LET full == BytesToBlocks(a) * BlockSize
         IN  /\ full \in Nat /\ full >= a /\ full % BlockSize = 0
             /\ BytesToBlocks(full) = BytesToBlocks(a)
  <1>1. BlockSize \in Nat \ {0, 1}
    BY LayoutAssumption
  <1>2. PICK k \in Nat : k = BytesToBlocks(a)
    BY BlocksCover
  <1>3. k * BlockSize \in Nat /\ a <= k * BlockSize
    BY <1>1, <1>2, BlocksCover
  <1>4. (k * BlockSize) % BlockSize = 0
    BY <1>1, Z3
  <1>5. BytesToBlocks(k * BlockSize) = k
    BY <1>1, <1>3, BlocksUnique
  <1> QED
    BY <1>2, <1>3, <1>4, <1>5

-----------------------------------------------------------------------------
(* Word k of a file is word k % BlockSize of its block k \div BlockSize.    *)
LEMMA SplitWord ==
  ASSUME NEW k \in Nat
  PROVE  /\ k \div BlockSize \in Nat /\ k % BlockSize \in 0 .. BlockSize - 1
         /\ k = (k \div BlockSize) * BlockSize + (k % BlockSize)
  <1>1. BlockSize \in Nat \ {0, 1}
    BY LayoutAssumption
  <1> QED
    BY <1>1, Z3

LEMMA JoinWord ==
  ASSUME NEW j \in Nat, NEW s \in 0 .. BlockSize - 1
  PROVE  /\ j * BlockSize + s \in Nat
         /\ (j * BlockSize + s) \div BlockSize = j
         /\ (j * BlockSize + s) % BlockSize = s
  <1>1. BlockSize \in Nat \ {0, 1}
    BY LayoutAssumption
  <1>2. PICK k \in Nat : k = j * BlockSize + s
    BY <1>1
  <1>3. PICK i \in Nat, t \in 0 .. BlockSize - 1 :
          i = k \div BlockSize /\ t = k % BlockSize /\ k = i * BlockSize + t
    BY <1>2, SplitWord
  <1>4. i * BlockSize \in Nat /\ j * BlockSize \in Nat
    BY <1>1
  <1>5. i <= j /\ j <= i
    BY <1>1, <1>2, <1>3, <1>4, WholeBlocks
  <1>6. i = j /\ t = s
    BY <1>2, <1>3, <1>4, <1>5
  <1> QED
    BY <1>2, <1>3, <1>6

(* A word that the file has is in a block that the file has.               *)
LEMMA WordInBlocks ==
  ASSUME NEW a \in Nat, NEW k \in Nat, k < a
  PROVE  k \div BlockSize < BytesToBlocks(a)
  <1>1. BlockSize \in Nat \ {0, 1}
    BY LayoutAssumption
  <1>2. PICK n \in Nat : n = BytesToBlocks(a) /\ a <= n * BlockSize
    BY BlocksCover
  <1>3. PICK j \in Nat, t \in 0 .. BlockSize - 1 :
          j = k \div BlockSize /\ k = j * BlockSize + t
    BY SplitWord
  <1>4. CASE n <= j
    <2>1. n * BlockSize <= j * BlockSize /\ j * BlockSize \in Nat /\ n * BlockSize \in Nat
      BY <1>1, <1>4, Z3
    <2> QED
      BY <1>1, <1>2, <1>3, <2>1
  <1> QED
    BY <1>2, <1>3, <1>4

(* What is written behind a full last block counts in blocks of its own.   *)
LEMMA BlocksBehind ==
  ASSUME NEW n \in Nat, NEW x \in Nat
  PROVE  BytesToBlocks(n * BlockSize + x) = n + BytesToBlocks(x)
  <1>1. BlockSize \in Nat \ {0, 1}
    BY LayoutAssumption
  <1>2. PICK j \in Nat : /\ j = BytesToBlocks(x) /\ x <= j * BlockSize
                         /\ j * BlockSize < x + BlockSize
    BY BlocksCover
  <1>3. /\ (n + j) * BlockSize = n * BlockSize + j * BlockSize /\ n + j \in Nat
        /\ n * BlockSize \in Nat /\ j * BlockSize \in Nat
    BY <1>1
  <1>4. n * BlockSize + x \in Nat
    BY <1>3
  <1> QED
    BY <1>1, <1>2, <1>3, <1>4, BlocksUnique

-----------------------------------------------------------------------------
(* Dividing a word number by the block size.                               *)
LEMMA DivByBlock ==
  ASSUME NEW a \in Nat, NEW b \in Nat \ {0}
  PROVE  a \div b \in Nat /\ a % b \in 0 .. b - 1
  OBVIOUS

LEMMA DivMonotone ==
  ASSUME NEW a \in Nat, NEW c \in Nat, a <= c, NEW b \in Nat \ {0}
  PROVE  a \div b <= c \div b
  OBVIOUS

LEMMA BlocksType ==
  ASSUME NEW len \in Int
  PROVE  BytesToBlocks(len) \in Nat
  BY LayoutAssumption, DivByBlock DEF BytesToBlocks

LEMMA PatchType ==
  ASSUME NEW blk \in Block, NEW at \in Int, NEW words \in Seq(Words)
  PROVE  Patch(blk, at, words) \in Block
  BY LayoutAssumption DEF Patch, Block, Slots

LEMMA PartOfSeq ==
  ASSUME NEW S, NEW s \in Seq(S), NEW m \in Nat \ {0}, NEW n \in Int, n <= Len(s)
  PROVE  SubSeq(s, m, n) \in Seq(S)
  OBVIOUS

-----------------------------------------------------------------------------
(* The values that variables are set to have their types.                  *)
LEMMA ConstantTypes ==
  /\ 0 \in Words /\ Null \in Words /\ Null \notin DataNs
  /\ 0 \in InodeNs
  /\ ZeroInode \in InodeBlock /\ NewInode \in InodeBlock
  /\ ZeroBlock \in Block
  /\ NoCall \in Call
  /\ Pending \in Result /\ Refused \in Result /\ Threw \in Result
  <1>1. 0 \in Words /\ Null \in Words /\ Null \notin DataNs /\ 0 \in InodeNs
    BY LayoutAssumption DEF Null, DataNs, InodeNs
  <1>2. ZeroInode \in InodeBlock /\ NewInode \in InodeBlock
    BY <1>1 DEF ZeroInode, NewInode, InodeBlock
  <1>3. ZeroBlock \in Block
    BY <1>1 DEF ZeroBlock, Block
  <1>4. NoCall \in Call
    BY LayoutAssumption DEF NoCall, Call, Ops, Labels
  <1>5. Pending \in Result /\ Refused \in Result /\ Threw \in Result
    BY DEF Pending, Refused, Threw, Result, Null
  <1> QED
    BY <1>1, <1>2, <1>3, <1>4, <1>5

LEMMA StoredType == StoredNs \subseteq DataNs /\ DataNs \ StoredNs = CutBlocks
  <1>1. CutBlocks \subseteq DataNs
    BY LayoutAssumption DEF DataNs
  <1> QED
    BY <1>1 DEF StoredNs

(* The inductive invariant.  TypeOK alone is not inductive: the types of   *)
(* the lists, of the counters and of the inode number rest on the ranges   *)
(* of LocalsInRange, and these and NumberLoaded need each other.           *)
Inv == TypeOK /\ NumberLoaded /\ NothingPending /\ LocalsInRange

LEMMA InitInv == Init => Inv
  BY ConstantTypes, LayoutAssumption
  DEF Init, Inv, TypeOK, NumberLoaded, NothingPending, LocalsInRange,
      InUse, AfterLoad, Labels, NoCall

LEMMA StutterInv == Inv /\ UNCHANGED vars => Inv'
  BY DEF NoneButCut, Inv, vars, image, object, lists, TypeOK, NumberLoaded,
         NothingPending, LocalsInRange

LEMMA ClearType ==
  ASSUME Clear
  PROVE  /\ loaded_inode_n' \in InodeNs \cup {Null}
         /\ inode' \in InodeBlock /\ inode_buf' \in InodeBlock
         /\ ptrs_to_allocate' = <<>> /\ ptrs_to_allocate' \in Seq(DataNs)
         /\ NoneButCut'
         /\ indirect_block_n' \in Seq(Words)
         /\ indirect_ptrs_list' \in Seq(Words)
  BY ConstantTypes DEF Clear, ClearLists, NoneButCut

(* load(n), on behalf of a call that has just started or goes on.          *)
LEMMA LoadInodeInv ==
  ASSUME Inv, NEW n \in InodeNs, NEW c \in Call, NEW label \in AfterLoad,
         c.inode_n = n, c.n_edited <= Len(c.data), c.n_edited <= c.offset,
         NoneButCut, LoadInode(c, n, label), UNCHANGED inode_bitmap
  PROVE  Inv'
  <1> DEFINE NewList == [k \in 1 .. NIndirectPtrs(inodes[n]) |-> 0]
  <1>a. inodes[n] \in InodeBlock
    BY DEF Inv, TypeOK
  <1>b. HasIndirect(inodes[n]) => NewList \in Seq(Words)
    <2>1. BytesToBlocks(inodes[n].file_len) \in Nat
      BY <1>a, BlocksType DEF InodeBlock
    <2>2. NIndirectPtrs(inodes[n]) \in Int
      BY <2>1, LayoutAssumption DEF NIndirectPtrs
    <2> QED
      BY <2>2, ConstantTypes DEF HasIndirect
  <1>c. /\ indirect_block_n' \in Seq(Words)
        /\ indirect_ptrs_list' \in Seq(Words)
    <2>1. CASE UNCHANGED lists
      BY <2>1 DEF Inv, TypeOK, lists
    <2>2. CASE /\ HasIndirect(inodes[n])
               /\ indirect_block_n' = <<inodes[n].indirect_inode_ptr>>
               /\ indirect_ptrs_list' = NewList
      BY <2>2, <1>a, <1>b DEF InodeBlock
    <2> QED
      BY <2>1, <2>2 DEF LoadInode, LoadCached, lists
  <1>d. [c EXCEPT !.next = label] \in Call
    BY DEF Call, InUse, AfterLoad, Labels
  <1>e. pc' \in Labels /\ call' \in Call
    BY <1>d DEF LoadInode, InUse, AfterLoad, Labels
  <1>1. TypeOK'
    BY <1>a, <1>c, <1>e, ConstantTypes
    DEF Inv, TypeOK, LoadInode, LoadCached, LoadDirect, image
  <1>2. NumberLoaded'
    BY DEF Inv, NumberLoaded, LoadInode, LoadCached, LoadDirect, InUse, AfterLoad
  <1>3. NothingPending'
    BY
    DEF NoneButCut, Inv, NothingPending, LoadInode, LoadCached, LoadDirect, InUse, AfterLoad
  <1>4. LocalsInRange'
    BY
    DEF LocalsInRange, LoadInode, LoadCached, LoadDirect, InUse, AfterLoad, Call
  <1> QED
    BY <1>1, <1>2, <1>3, <1>4 DEF Inv

-----------------------------------------------------------------------------
(* The ways a call ends.                                                   *)
LEMMA AnswerInv ==
  ASSUME Inv, NEW r \in Result, Answer(r)
  PROVE  Inv'
  BY DEF NoneButCut, Answer, Inv, image, bitmaps, object, lists, TypeOK,
         NumberLoaded, NothingPending, LocalsInRange

LEMMA ReturnType ==
  ASSUME NEW r \in Result, Return(r)
  PROVE  pc' = "idle" /\ call' = NoCall /\ call' \in Call /\ result' \in Result
  BY ConstantTypes DEF Return

LEMMA ThrowType ==
  ASSUME Throw
  PROVE  /\ pc' \in {"off", "idle"} /\ call' = NoCall
         /\ call' \in Call /\ result' \in Result
  BY ConstantTypes DEF Throw

(* At rest, and between the iterations of scan and format, the parts of    *)
(* Inv that speak of a running call hold of themselves.                    *)
LEMMA RestInv ==
  ASSUME pc' \in {"off", "idle"}, call' = NoCall, NoneButCut'
  PROVE  NumberLoaded' /\ NothingPending' /\ LocalsInRange'
  BY DEF NumberLoaded, NothingPending, LocalsInRange, InUse, AfterLoad, NoCall

-----------------------------------------------------------------------------
(* The calls that start by loading their inode.                            *)
LEMMA StartInv ==
  ASSUME Inv, pc = "idle", NEW op \in Ops, NEW n \in InodeNs, NEW c \in Call,
         NEW label \in {"return", "read", "edit", "commit", "unlink"},
         c.n_edited = 0, Start(op, n, c, label)
  PROVE  Inv'
  <1> DEFINE d == [c EXCEPT !.op = op, !.inode_n = n]
  <1>1. d \in Call /\ d.inode_n = n /\ d.n_edited = 0
    <2>1. n \in 0 .. NInodes
      BY LayoutAssumption DEF InodeNs
    <2> QED
      BY <2>1 DEF Call
  <1>2. 0 <= Len(d.data) /\ 0 <= d.offset
    BY <1>1 DEF Call
  <1>3. NoneButCut
    BY DEF Inv, NothingPending
  <1>4. LoadInode(d, n, label) /\ UNCHANGED inode_bitmap
    BY DEF Start
  <1> HIDE DEF d
  <1> QED
    BY <1>1, <1>2, <1>3, <1>4, LoadInodeInv DEF InUse, AfterLoad

LEMMA LookupCallInv ==
  ASSUME Inv, NEW op \in {"length", "name"}, NEW n \in InodeNs, LookupCall(op, n)
  PROVE  Inv'
  BY ConstantTypes, AnswerInv, StartInv DEF LookupCall, NoCall, Ops

LEMMA ReadCallInv ==
  ASSUME Inv, NEW n \in InodeNs, NEW offset \in Nat, NEW length \in Nat,
         ReadCall(n, offset, length)
  PROVE  Inv'
  <1> DEFINE c == [NoCall EXCEPT !.offset = offset, !.length = length]
  <1>1. c \in Call /\ c.n_edited = 0
    BY ConstantTypes DEF Call, NoCall
  <1>2. Ok(0) \in Result
    BY DEF Ok, Result
  <1> QED
    BY <1>1, <1>2, ConstantTypes, AnswerInv, StartInv DEF ReadCall, Ops

LEMMA WriteCallInv ==
  ASSUME Inv, NEW n \in InodeNs, NEW offset \in Nat, NEW data \in Seq(Words),
         WriteCall(n, offset, data)
  PROVE  Inv'
  <1> DEFINE c == [NoCall EXCEPT !.offset = offset, !.data = data]
  <1>1. c \in Call /\ c.n_edited = 0
    BY ConstantTypes DEF Call, NoCall
  <1>2. Ok(0) \in Result
    BY DEF Ok, Result
  <1> QED
    BY <1>1, <1>2, ConstantTypes, AnswerInv, StartInv DEF WriteCall, Ops

LEMMA RenameCallInv ==
  ASSUME Inv, NEW n \in InodeNs, NEW long_name \in BOOLEAN,
         RenameCall(n, long_name)
  PROVE  Inv'
  BY ConstantTypes, AnswerInv, StartInv DEF RenameCall, NoCall, Ops

LEMMA RemoveCallInv ==
  ASSUME Inv, NEW n \in InodeNs, RemoveCall(n)
  PROVE  Inv'
  BY ConstantTypes, AnswerInv, StartInv DEF RemoveCall, NoCall, Ops

LEMMA CreateFileInv ==
  ASSUME Inv, NEW long_name \in BOOLEAN, CreateFile(long_name)
  PROVE  Inv'
  <1>1. CASE Answer(Refused)
    BY <1>1, ConstantTypes, AnswerInv
  <1>2. CASE ~Answer(Refused)
    <2>1. PICK n \in InodeNs :
            /\ inodes' = [inodes EXCEPT ![n] = NewInode]
            /\ inode_bitmap' = inode_bitmap \cup {n}
            /\ result' = Ok(n)
      BY <1>2 DEF CreateFile
    <2>2. Clear /\ pc = "idle" /\ UNCHANGED <<blocks, data_bitmap, pc, call>>
      BY <1>2 DEF CreateFile
    <2>3. Ok(n) \in Result
      BY DEF Ok, Result, InodeNs
    <2>4. TypeOK'
      BY <2>1, <2>2, <2>3, ConstantTypes, ClearType DEF Inv, TypeOK
    <2>5. call' = NoCall /\ pc' = "idle"
      BY <2>2 DEF Inv, NothingPending
    <2> QED
      BY <2>2, <2>4, <2>5, ClearType, RestInv DEF Inv
  <1> QED
    BY <1>1, <1>2

-----------------------------------------------------------------------------
(* mount, scan_blocks, format and a crash.                                 *)
LEMMA MountCallInv ==
  ASSUME Inv, MountCall
  PROVE  Inv'
  <1> DEFINE c == [NoCall EXCEPT !.op = "mount"]
  <1>1. c \in Call /\ c.n_edited = 0 /\ Len(c.data) = 0 /\ c.offset = 0
    BY ConstantTypes DEF Call, NoCall, Ops
  <1>2. call' = c /\ pc' = "scan" /\ result' = Pending
    BY DEF MountCall
  <1>3. /\ loaded_inode_n' \in InodeNs \cup {Null}
        /\ inode' \in InodeBlock /\ inode_buf' \in InodeBlock
        /\ NoneButCut' /\ ptrs_to_allocate' \in Seq(DataNs)
        /\ indirect_block_n' \in Seq(Words)
        /\ indirect_ptrs_list' \in Seq(Words)
    BY ClearType
    DEF MountCall, Inv, TypeOK, NothingPending, NoneButCut, object, lists
  <1>4. TypeOK'
    BY <1>1, <1>2, <1>3, ConstantTypes
    DEF MountCall, Inv, TypeOK, image, Labels
  <1>5. NumberLoaded' /\ NothingPending' /\ LocalsInRange'
    BY <1>1, <1>2, <1>3
    DEF NumberLoaded, NothingPending, LocalsInRange, InUse, AfterLoad
  <1> QED
    BY <1>4, <1>5 DEF Inv

LEMMA FormatCallInv ==
  ASSUME Inv, FormatCall
  PROVE  Inv'
  <1> DEFINE c == [NoCall EXCEPT !.op = "format"]
  <1>1. c \in Call /\ c.n_edited = 0 /\ Len(c.data) = 0 /\ c.offset = 0
    BY ConstantTypes DEF Call, NoCall, Ops
  <1>2. call' = c /\ pc' = "format" /\ result' = Pending
    BY DEF FormatCall
  <1>3. TypeOK'
    BY <1>1, <1>2, ConstantTypes, ClearType
    DEF FormatCall, Inv, TypeOK, image, Labels
  <1>4. NumberLoaded' /\ NothingPending' /\ LocalsInRange'
    BY <1>1, <1>2, ClearType
    DEF FormatCall, NumberLoaded, NothingPending, LocalsInRange, InUse, AfterLoad
  <1> QED
    BY <1>3, <1>4 DEF Inv

LEMMA CrashInv ==
  ASSUME Inv, Crash
  PROVE  Inv'
  <1>1. TypeOK'
    BY ConstantTypes, ClearType DEF Crash, Inv, TypeOK, image, Labels
  <1> QED
    BY <1>1, ClearType, RestInv DEF Crash, Inv

LEMMA ScanInv ==
  ASSUME Inv, Scan
  PROVE  Inv'
  <1>1. NoneButCut /\ call \in Call
    BY DEF Scan, Inv, NothingPending, TypeOK
  <1>2. CASE call.inode_n < NInodes /\ LoadInode(call, call.inode_n, "scan_check")
    <2>1. call.inode_n \in InodeNs
      BY <1>1, <1>2, LayoutAssumption DEF Call, InodeNs
    <2> QED
      BY <1>1, <1>2, <2>1, LoadInodeInv
      DEF Scan, Inv, LocalsInRange, InUse, AfterLoad
  <1>3. CASE Return(Ok(0)) /\ UNCHANGED <<image, data_bitmap, object>>
    <2>1. Ok(0) \in Result
      BY DEF Ok, Result
    <2>2. TypeOK'
      BY <1>3, <2>1, ReturnType
      DEF Scan, Inv, TypeOK, image, object, lists, Labels
    <2> QED
      BY <1>1, <1>3, <2>1, <2>2, ReturnType, RestInv DEF NoneButCut, Inv, object
  <1> QED
    BY <1>2, <1>3 DEF Scan

LEMMA ScanCheckInv ==
  ASSUME Inv, ScanCheck
  PROVE  Inv'
  <1>1. call \in Call /\ call.inode_n \in InodeNs
    BY DEF ScanCheck, Inv, TypeOK, LocalsInRange
  <1>2. call' \in Call
    <2>1. call.inode_n + 1 \in 0 .. NInodes
      BY <1>1, LayoutAssumption DEF InodeNs
    <2> QED
      BY <1>1, <2>1 DEF ScanCheck, Call
  <1>3. TypeOK'
    BY <1>1, <1>2 DEF ScanCheck, Inv, TypeOK, image, object, lists, Labels
  <1>4. NumberLoaded' /\ NothingPending' /\ LocalsInRange'
    BY <1>1
    DEF NoneButCut, ScanCheck, Inv, object, lists, NumberLoaded, NothingPending,
                LocalsInRange, InUse, AfterLoad, Call
  <1> QED
    BY <1>3, <1>4 DEF Inv

LEMMA FormatInv ==
  ASSUME Inv, Format
  PROVE  Inv'
  <1>1. NoneButCut /\ call \in Call
    BY DEF Format, Inv, NothingPending, TypeOK
  <1>2. CASE call.inode_n < NInodes /\ LoadInode(call, call.inode_n, "format_reset")
    <2>1. call.inode_n \in InodeNs
      BY <1>1, <1>2, LayoutAssumption DEF Call, InodeNs
    <2> QED
      BY <1>1, <1>2, <2>1, LoadInodeInv
      DEF Format, Inv, LocalsInRange, InUse, AfterLoad
  <1>3. CASE /\ pc' = "off" /\ call' = NoCall /\ result' = Ok(0)
             /\ UNCHANGED <<image, data_bitmap, object>>
    <2>1. Ok(0) \in Result
      BY DEF Ok, Result
    <2>2. TypeOK'
      BY <1>3, <2>1, ConstantTypes
      DEF Format, Inv, TypeOK, image, object, lists, Labels
    <2> QED
      BY <1>1, <1>3, <2>2, RestInv DEF NoneButCut, Inv, object
  <1> QED
    BY <1>2, <1>3 DEF Format

LEMMA FormatResetInv ==
  ASSUME Inv, FormatReset
  PROVE  Inv'
  <1>1. TypeOK'
    BY DEF FormatReset, Inv, TypeOK, InodeBlock, image, bitmaps, lists, Labels
  <1>2. NumberLoaded' /\ NothingPending' /\ LocalsInRange'
    BY DEF FormatReset, Inv, NumberLoaded, NothingPending, LocalsInRange,
           InUse, AfterLoad, lists
  <1> QED
    BY <1>1, <1>2 DEF Inv

-----------------------------------------------------------------------------
(* IndirectInode::load.                                                    *)
LEMMA ListWithType ==
  ASSUME NEW n \in Int, NEW words \in Block, indirect_ptrs_list \in Seq(Words)
  PROVE  ListWith(n, words) \in Seq(Words)
  <1>1. Len(indirect_ptrs_list) \in Nat
    OBVIOUS
  <1>2. ASSUME NEW k \in 1 .. Len(indirect_ptrs_list), n < k, k <= n + PtrsPerIndirect
        PROVE  words[k - n - 1] \in Words
    BY <1>1, <1>2, LayoutAssumption DEF PtrsPerIndirect, Block, Slots
  <1> QED
    BY <1>1, <1>2, LayoutAssumption DEF ListWith, PtrsPerIndirect

LEMMA LoadIndirectInv ==
  ASSUME Inv, LoadIndirect, UNCHANGED inode_bitmap
  PROVE  Inv'
  <1>1. /\ call \in Call /\ call.next \in AfterLoad /\ call.inode_n \in InodeNs
        /\ NoneButCut
        /\ indirect_block_n \in Seq(Words) /\ indirect_ptrs_list \in Seq(Words)
        /\ blocks \in [DataNs -> Block]
        /\ loaded_inode_n \in InodeNs \cup {Null}
    BY DEF LoadIndirect, Inv, TypeOK, LocalsInRange, NothingPending
  <1>2. NReadPtrs \in Int
    BY <1>1, LayoutAssumption DEF NReadPtrs, PtrsPerIndirect
  <1>3. ASSUME NEW b \in StoredNs
        PROVE  /\ ListWith(NReadPtrs, blocks[b]) \in Seq(Words)
               /\ blocks[b][LinkSlot] \in Words
    BY <1>1, <1>2, StoredType, ListWithType, LayoutAssumption
    DEF Block, LinkSlot, Slots
  <1>4. /\ indirect_block_n' \in Seq(Words)
        /\ indirect_ptrs_list' \in Seq(Words)
    <2>1. CASE LoadFullBlock
      BY <1>1, <1>3, <2>1 DEF LoadFullBlock
    <2>2. CASE LoadLastBlock
      BY <1>1, <1>3, <2>2 DEF LoadLastBlock
    <2>3. CASE UNCHANGED lists
      BY <1>1, <2>3 DEF lists
    <2> QED
      BY <2>1, <2>2, <2>3 DEF LoadIndirect, LoadDone, LoadFails, lists
  <1>5. ASSUME Loaded
        PROVE  /\ call' \in Call /\ pc' = call.next /\ pc' \in AfterLoad
               /\ loaded_inode_n' = call.inode_n
               /\ call'.inode_n = call.inode_n /\ call'.n_edited = call.n_edited
               /\ call'.data = call.data /\ call'.offset = call.offset
               /\ call' = [call EXCEPT !.next = "idle"]
    BY <1>1, <1>5 DEF Loaded, Call, Labels
  <1>6. CASE LoadFullBlock
    <2>1. TypeOK'
      BY <1>1, <1>4, <1>6 DEF LoadIndirect, LoadFullBlock, Inv, TypeOK, image
    <2> QED
      BY <1>1, <1>6, <2>1
      DEF NoneButCut, LoadIndirect, LoadFullBlock, Inv, NumberLoaded,
          NothingPending,
          LocalsInRange, InUse, AfterLoad
  <1>7. CASE Loaded /\ UNCHANGED result
    <2>1. TypeOK'
      BY <1>1, <1>4, <1>5, <1>7
      DEF LoadIndirect, Inv, TypeOK, image, Labels, AfterLoad
    <2> QED
      BY <1>1, <1>5, <1>7, <2>1
      DEF NoneButCut, LoadIndirect, Inv, NumberLoaded, NothingPending,
          LocalsInRange,
          InUse, AfterLoad
  <1>8. CASE Throw /\ UNCHANGED loaded_inode_n
    <2>1. TypeOK'
      BY <1>1, <1>4, <1>8, ThrowType DEF LoadIndirect, Inv, TypeOK, image, Labels
    <2> QED
      BY <1>1, <1>8, <2>1, ThrowType, RestInv DEF NoneButCut, LoadIndirect, Inv
  <1> QED
    BY <1>6, <1>7, <1>8
    DEF LoadIndirect, LoadFullBlock, LoadLastBlock, LoadDone, LoadFails

-----------------------------------------------------------------------------
(* Inode::commit and IndirectInode::commit.                                *)
LEMMA CommitDirectInv ==
  ASSUME Inv, CommitDirect, UNCHANGED inode_bitmap
  PROVE  Inv'
  <1> DEFINE used     == BytesToBlocks(inode.file_len)
             n_direct == Smaller(Len(ptrs_to_allocate),
                                 IF used < NDirect THEN NDirect - used ELSE 0)
             rest     == SubSeq(ptrs_to_allocate, n_direct + 1,
                                Len(ptrs_to_allocate))
             direct   == [k \in 0 .. NDirect - 1 |->
                            IF used <= k /\ k < used + n_direct
                            THEN ptrs_to_allocate[k - used + 1]
                            ELSE inode_buf.direct_ptr[k]]
  <1>1. /\ call \in Call /\ call.inode_n \in InodeNs /\ pc = "commit"
        /\ loaded_inode_n = call.inode_n
        /\ ptrs_to_allocate \in Seq(DataNs)
        /\ inode \in InodeBlock /\ inode_buf \in InodeBlock
    BY
    DEF CommitDirect, Inv, TypeOK, LocalsInRange, NumberLoaded, InUse, AfterLoad
  <1>2. used \in Nat
    BY <1>1, BlocksType DEF InodeBlock
  <1>3. n_direct \in Nat /\ n_direct <= Len(ptrs_to_allocate)
    BY <1>1, <1>2, LayoutAssumption DEF Smaller
  <1>4. rest \in Seq(DataNs)
    BY <1>1, <1>3, PartOfSeq
  <1>5. direct \in [0 .. NDirect - 1 -> Words]
    <2>1. ASSUME NEW k \in 0 .. NDirect - 1, used <= k, k < used + n_direct
          PROVE  ptrs_to_allocate[k - used + 1] \in Words
      BY <1>1, <1>2, <1>3, <2>1, LayoutAssumption
    <2> QED
      BY <1>1, <2>1 DEF InodeBlock
  <1>6. /\ call' = [call EXCEPT !.n_ptrs = n_direct]
        /\ ptrs_to_allocate' = rest
        /\ pc' \in {"writeback", "fill"}
        /\ UNCHANGED <<image, loaded_inode_n, lists, result, inode_bitmap>>
    BY DEF CommitDirect
  <1>7. /\ inode' \in InodeBlock /\ inode_buf' \in InodeBlock
        /\ data_bitmap' \subseteq DataNs
    <2>1. CASE /\ inode_buf' = [inode_buf EXCEPT !.direct_ptr = direct]
               /\ UNCHANGED <<inode, data_bitmap>>
      BY <1>1, <1>5, <2>1 DEF Inv, TypeOK, InodeBlock
    <2>2. CASE \E b \in FreeBlocks :
                 /\ data_bitmap' = data_bitmap \cup {b}
                 /\ inode' = [inode EXCEPT !.indirect_inode_ptr = b]
                 /\ inode_buf' = [inode_buf EXCEPT !.direct_ptr = direct,
                                                   !.indirect_inode_ptr = b]
      <3>1. PICK b \in FreeBlocks :
              /\ data_bitmap' = data_bitmap \cup {b}
              /\ inode' = [inode EXCEPT !.indirect_inode_ptr = b]
              /\ inode_buf' = [inode_buf EXCEPT !.direct_ptr = direct,
                                                !.indirect_inode_ptr = b]
        BY <2>2
      <3>2. b \in DataNs /\ b \in Words
        BY LayoutAssumption DEF FreeBlocks
      <3> QED
        BY <1>1, <1>5, <3>1, <3>2 DEF Inv, TypeOK, InodeBlock
    <2> QED
      BY <2>1, <2>2 DEF CommitDirect
  <1> HIDE DEF n_direct, rest
  <1>8. call' \in Call
    <2>1. n_direct \in Int /\ call' = [call EXCEPT !.n_ptrs = n_direct]
      BY <1>3, <1>6
    <2> QED
      BY <1>1, <2>1 DEF Call
  <1>9. TypeOK'
    BY <1>4, <1>6, <1>7, <1>8 DEF Inv, TypeOK, image, lists, Labels
  <1>10. NumberLoaded' /\ NothingPending' /\ LocalsInRange'
    BY <1>1, <1>6 DEF Inv, NumberLoaded, NothingPending, LocalsInRange, InUse,
                      AfterLoad, Call
  <1> QED
    BY <1>9, <1>10 DEF Inv

LEMMA FillIndirectInv ==
  ASSUME Inv, FillIndirect, UNCHANGED inode_bitmap
  PROVE  Inv'
  <1> DEFINE n_used  == IF NIndirectPtrs(inode) > 0 THEN NIndirectPtrs(inode) ELSE 0
             n_new   == Len(ptrs_to_allocate)
             at      == n_used % PtrsPerIndirect
             n_write == Smaller(PtrsPerIndirect - at, n_new)
             chain   == IF indirect_block_n = <<>>
                        THEN <<inode.indirect_inode_ptr>> ELSE indirect_block_n
             old     == Len(indirect_ptrs_list)
             list    == [k \in 1 .. old + n_new |->
                           IF n_used < k /\ k <= n_used + n_new
                           THEN ptrs_to_allocate[k - n_used]
                           ELSE IF k <= old THEN indirect_ptrs_list[k] ELSE 0]
             b       == Head(chain)
  <1>1. /\ call \in Call /\ call.inode_n \in InodeNs /\ pc = "fill"
        /\ loaded_inode_n = call.inode_n /\ inode \in InodeBlock
        /\ ptrs_to_allocate \in Seq(DataNs) /\ ptrs_to_allocate \in Seq(Words)
        /\ indirect_block_n \in Seq(Words) /\ indirect_ptrs_list \in Seq(Words)
        /\ blocks \in [DataNs -> Block]
    BY LayoutAssumption
    DEF FillIndirect, Inv, TypeOK, LocalsInRange, NumberLoaded, InUse
  <1>2. n_used \in Nat /\ n_new \in Nat /\ old \in Nat
    <2>1. BytesToBlocks(inode.file_len) \in Nat
      BY <1>1, BlocksType DEF InodeBlock
    <2> QED
      BY <1>1, <2>1, LayoutAssumption DEF NIndirectPtrs
  <1>3. n_write \in Nat /\ n_write <= n_new
    <2>1. PtrsPerIndirect \in Nat \ {0}
      BY LayoutAssumption DEF PtrsPerIndirect
    <2>2. at \in 0 .. PtrsPerIndirect - 1
      BY <1>2, <2>1, DivByBlock
    <2> HIDE DEF at, n_new
    <2> QED
      BY <1>2, <2>1, <2>2 DEF Smaller
  <1>4. chain \in Seq(Words)
    BY <1>1 DEF InodeBlock
  <1> HIDE DEF n_used, n_write, chain
  <1>5. list \in Seq(Words)
    <2>1. ASSUME NEW k \in 1 .. old + n_new, n_used < k, k <= n_used + n_new
          PROVE  ptrs_to_allocate[k - n_used] \in Words
      BY <1>1, <1>2, <2>1
    <2>2. ASSUME NEW k \in 1 .. old + n_new, k <= old
          PROVE  indirect_ptrs_list[k] \in Words
      BY <1>1, <1>2, <2>2
    <2>3. \A k \in 1 .. old + n_new : list[k] \in Words
      BY <2>1, <2>2, ConstantTypes
    <2>4. old + n_new \in Nat
      BY <1>2
    <2> QED
      BY <2>3, <2>4
  <1> HIDE DEF list, n_new, old
  <1>6. /\ ptrs_to_allocate' = <<>>
        /\ indirect_block_n' = chain
        /\ indirect_ptrs_list' = list
        /\ UNCHANGED <<inodes, data_bitmap, loaded_inode_n, inode, inode_buf,
                      inode_bitmap>>
    BY DEF FillIndirect, chain, list, n_used, n_new, old
  <1>7. CASE /\ b \in StoredNs
             /\ \E words \in [1 .. n_write -> Words] :
                  blocks' = [blocks EXCEPT ![b] = Patch(@, at, words)]
             /\ call' = [call EXCEPT !.left = n_new - n_write,
                                     !.i = n_used + n_write,
                                     !.n_ptrs = @ + n_new]
             /\ pc' = "extend"
             /\ UNCHANGED result
    <2>0. /\ n_new - n_write \in Nat /\ n_used + n_write \in Nat
          /\ call.n_ptrs + n_new \in Int
      BY <1>1, <1>2, <1>3 DEF Call
    <2>1. call' \in Call
      BY <1>1, <1>7, <2>0 DEF Call
    <2>2. PICK words \in [1 .. n_write -> Words] :
            blocks' = [blocks EXCEPT ![b] = Patch(@, at, words)]
      BY <1>7
    <2>3. blocks' \in [DataNs -> Block]
      <3>1. PtrsPerIndirect \in Nat \ {0}
        BY LayoutAssumption DEF PtrsPerIndirect
      <3>2. at \in Int
        BY <1>2, <3>1, DivByBlock
      <3>3. words \in Seq(Words)
        BY <1>3
      <3> HIDE DEF at, b
      <3>4. Patch(blocks[b], at, words) \in Block
        BY <1>1, <1>7, <3>2, <3>3, PatchType, StoredType
      <3> QED
        BY <1>1, <2>2, <3>4
    <2>4. TypeOK'
      BY <1>4, <1>5, <1>6, <1>7, <2>1, <2>3 DEF Inv, TypeOK, Labels
    <2>5. NumberLoaded' /\ NothingPending' /\ LocalsInRange'
      BY <1>1, <1>5, <1>6, <1>7, <2>1
      DEF NoneButCut, Inv, NumberLoaded, NothingPending, LocalsInRange, InUse,
          Call
    <2> QED
      BY <2>4, <2>5 DEF Inv
  <1>8. CASE Throw /\ UNCHANGED blocks
    <2>1. TypeOK'
      BY <1>4, <1>5, <1>6, <1>8, ThrowType DEF Inv, TypeOK, Labels
    <2> QED
      BY <1>6, <1>8, <2>1, ThrowType, RestInv DEF NoneButCut, Inv
  <1> QED
    BY <1>7, <1>8 DEF FillIndirect, chain, n_used, n_new, n_write

LEMMA ExtendChainInv ==
  ASSUME Inv, ExtendChain, UNCHANGED inode_bitmap
  PROVE  Inv'
  <1>1. /\ call \in Call /\ call.inode_n \in InodeNs /\ pc = "extend"
        /\ loaded_inode_n = call.inode_n
        /\ NoneButCut
        /\ indirect_block_n \in Seq(Words) /\ indirect_ptrs_list \in Seq(Words)
        /\ blocks \in [DataNs -> Block]
    BY DEF ExtendChain, Inv, TypeOK, LocalsInRange, NumberLoaded,
           NothingPending, InUse
  <1>2. CASE /\ ClearLists
             /\ call' = [call EXCEPT !.n_ptrs = @ - call.left, !.left = 0, !.i = 0]
             /\ pc' = "writeback"
             /\ UNCHANGED <<blocks, data_bitmap>>
    <2>1. call' \in Call
      <3>1. call.n_ptrs - call.left \in Int
        BY <1>1 DEF Call
      <3> QED
        BY <1>1, <1>2, <3>1 DEF Call
    <2>2. TypeOK'
      BY <1>2, <2>1, ConstantTypes
      DEF ExtendChain, Inv, TypeOK, ClearLists, Labels
    <2>3. NumberLoaded' /\ NothingPending' /\ LocalsInRange'
      BY <1>1, <1>2 DEF ExtendChain, Inv, NumberLoaded, NothingPending,
                        LocalsInRange, InUse, Call
    <2> QED
      BY <2>2, <2>3 DEF Inv
  <1>3. CASE /\ \E b \in FreeBlocks :
                  /\ data_bitmap' = data_bitmap \cup {b}
                  /\ blocks' = [blocks EXCEPT ![Head(indirect_block_n)][LinkSlot] = b]
                  /\ indirect_block_n' = <<b>> \o indirect_block_n
             /\ pc' = "extend_store"
             /\ UNCHANGED <<call, indirect_ptrs_list>>
    <2>1. PICK b \in FreeBlocks :
            /\ data_bitmap' = data_bitmap \cup {b}
            /\ blocks' = [blocks EXCEPT ![Head(indirect_block_n)][LinkSlot] = b]
            /\ indirect_block_n' = <<b>> \o indirect_block_n
      BY <1>3
    <2>2. b \in DataNs /\ b \in Words
      BY LayoutAssumption DEF FreeBlocks
    <2>3. blocks' \in [DataNs -> Block]
      BY <1>1, <2>1, <2>2 DEF Block
    <2>4. indirect_block_n' \in Seq(Words)
      BY <1>1, <2>1, <2>2
    <2>5. TypeOK'
      BY <1>3, <2>1, <2>2, <2>3, <2>4 DEF ExtendChain, Inv, TypeOK, Labels
    <2>6. NumberLoaded' /\ NothingPending' /\ LocalsInRange'
      BY <1>1, <1>3
      DEF NoneButCut, ExtendChain, Inv, NumberLoaded, NothingPending,
                        LocalsInRange, InUse
    <2> QED
      BY <2>5, <2>6 DEF Inv
  <1> QED
    BY <1>2, <1>3 DEF ExtendChain

LEMMA StoreIndirectInv ==
  ASSUME Inv, StoreIndirect, UNCHANGED inode_bitmap
  PROVE  Inv'
  <1> DEFINE n_write == Smaller(PtrsPerIndirect, call.left)
             b       == Head(indirect_block_n)
  <1>1. /\ call \in Call /\ call.inode_n \in InodeNs /\ pc = "extend_store"
        /\ loaded_inode_n = call.inode_n /\ NoneButCut'
        /\ blocks \in [DataNs -> Block]
        /\ UNCHANGED <<inodes, data_bitmap, inode_bitmap, object>>
    BY DEF StoreIndirect, Inv, TypeOK, LocalsInRange, NumberLoaded,
           NothingPending, NoneButCut, InUse, object
  <1>2. call.left \in Nat /\ call.i \in Nat
    BY <1>1 DEF Call
  <1>3. n_write \in Nat /\ n_write <= call.left
    BY <1>2, LayoutAssumption DEF PtrsPerIndirect, Smaller
  <1> HIDE DEF n_write, b
  <1>4. CASE /\ b \in StoredNs
             /\ \E words \in [1 .. n_write -> Words] :
                  blocks' = [blocks EXCEPT ![b] = Patch(@, 0, words)]
             /\ call' = [call EXCEPT !.left = @ - n_write, !.i = @ + n_write]
             /\ pc' = "extend"
             /\ UNCHANGED result
    <2>1. blocks' \in [DataNs -> Block]
      <3>1. PICK words \in [1 .. n_write -> Words] :
              blocks' = [blocks EXCEPT ![b] = Patch(@, 0, words)]
        BY <1>4
      <3>2. words \in Seq(Words) /\ 0 \in Int
        BY <1>3
      <3>3. Patch(blocks[b], 0, words) \in Block
        BY <1>1, <1>4, <3>2, PatchType, StoredType
      <3> QED
        BY <1>1, <3>1, <3>3
    <2>2. /\ call' \in Call /\ call'.inode_n = call.inode_n
          /\ call'.data = call.data /\ call'.offset = call.offset
          /\ call'.n_edited = call.n_edited
      <3>1. call.left - n_write \in Nat /\ call.i + n_write \in Nat
        BY <1>2, <1>3
      <3>2. call' = [call EXCEPT !.left = call.left - n_write,
                                 !.i = call.i + n_write]
        BY <1>4
      <3> QED
        BY <1>1, <3>1, <3>2 DEF Call
    <2>3. TypeOK'
      BY <1>1, <1>4, <2>1, <2>2 DEF Inv, TypeOK, object, lists, Labels
    <2>4. NumberLoaded' /\ NothingPending' /\ LocalsInRange'
      BY <1>1, <1>4, <2>2 DEF Inv, NumberLoaded, NothingPending, LocalsInRange,
                              InUse, AfterLoad, object, lists
    <2> QED
      BY <2>3, <2>4 DEF Inv
  <1>5. CASE Throw /\ UNCHANGED blocks
    <2>1. TypeOK'
      BY <1>1, <1>5, ThrowType DEF Inv, TypeOK, object, lists, Labels
    <2> QED
      BY <1>1, <1>5, <2>1, ThrowType, RestInv DEF Inv
  <1> QED
    BY <1>4, <1>5 DEF StoreIndirect, n_write, b

LEMMA WritebackInv ==
  ASSUME Inv, Writeback
  PROVE  Inv'
  <1>1. /\ call \in Call /\ call.inode_n \in InodeNs
        /\ call.n_edited <= Len(call.data) /\ call.n_edited <= call.offset
        /\ inodes' \in [InodeNs -> InodeBlock]
    BY DEF Writeback, Inv, TypeOK, LocalsInRange
  <1>2. Clear /\ UNCHANGED <<blocks, bitmaps>> /\ NoneButCut'
    BY ClearType DEF Writeback
  <1>3. CASE \/ \E r \in Result : Return(r)
             \/ Throw
    <2>1. TypeOK'
      BY <1>1, <1>2, <1>3, ClearType, ReturnType, ThrowType
      DEF Inv, TypeOK, bitmaps, Labels
    <2> QED
      BY <1>2, <1>3, <2>1, ReturnType, ThrowType, RestInv DEF Inv
  <1>4. CASE /\ pc' = "mark_load"
             /\ call' = [call EXCEPT !.i = 0]
             /\ UNCHANGED result
    <2>1. call' \in Call
      BY <1>1, <1>4 DEF Call
    <2>2. TypeOK'
      BY <1>1, <1>2, <1>4, <2>1, ClearType DEF Inv, TypeOK, bitmaps, Labels
    <2>3. NumberLoaded' /\ NothingPending' /\ LocalsInRange'
      BY <1>1, <1>2, <1>4 DEF NumberLoaded, NothingPending, LocalsInRange,
                              InUse, AfterLoad, Call
    <2> QED
      BY <2>2, <2>3 DEF Inv
  <1>5. CASE /\ pc' = "format"
             /\ call' = [call EXCEPT !.inode_n = @ + 1]
             /\ UNCHANGED result
    <2>1. call' \in Call
      <3>1. call.inode_n + 1 \in 0 .. NInodes
        BY <1>1, LayoutAssumption DEF InodeNs
      <3> QED
        BY <1>1, <1>5, <3>1 DEF Call
    <2>2. TypeOK'
      BY <1>1, <1>2, <1>5, <2>1, ClearType DEF Inv, TypeOK, bitmaps, Labels
    <2>3. NumberLoaded' /\ NothingPending' /\ LocalsInRange'
      BY <1>1, <1>2, <1>5 DEF NumberLoaded, NothingPending, LocalsInRange,
                              InUse, AfterLoad, Call
    <2> QED
      BY <2>2, <2>3 DEF Inv
  <1>6. /\ Ok(call.n_written + call.n_edited) \in Result
        /\ Ok(call.inode_n) \in Result
    BY <1>1 DEF Ok, Result, Call, InodeNs
  <1> QED
    BY <1>3, <1>4, <1>5, <1>6 DEF Writeback, AfterCommit

-----------------------------------------------------------------------------
(* The steps of the calls that only look at the inode object.              *)
LEMMA LookupReturnInv ==
  ASSUME Inv, LookupReturn
  PROVE  Inv'
  <1>1. /\ Ok(inode_buf.file_len) \in Result
        /\ Ok(call.inode_n) \in Result
    BY LayoutAssumption DEF Inv, TypeOK, InodeBlock, Call, Ok, Result
  <1>2. NoneButCut'
    BY DEF LookupReturn, Inv, NothingPending, NoneButCut, object
  <1>3. TypeOK'
    BY <1>1, ReturnType DEF LookupReturn, Inv, TypeOK, image, bitmaps, object,
                            lists, Labels
  <1> QED
    BY <1>1, <1>2, <1>3, ReturnType, RestInv DEF LookupReturn, Inv

LEMMA ReadBlocksInv ==
  ASSUME Inv, ReadBlocks
  PROVE  Inv'
  <1> DEFINE len  == Smaller(call.length, inode_buf.file_len - call.offset)
             used == call.offset \div BlockSize ..
                (call.offset + (IF len = 0 THEN 0 ELSE len - 1)) \div BlockSize
             found == IF len = 0 THEN DataNs ELSE StoredNs
             read(p) == [k \in 1 .. len |->
                           LET at == call.offset + k - 1
                           IN  blocks[p[at \div BlockSize]][at % BlockSize]]
  <1>1. /\ call.offset \in Nat /\ call.length \in Nat
        /\ inode_buf.file_len \in Nat
        /\ blocks \in [DataNs -> Block]
        /\ NoneButCut'
        /\ UNCHANGED <<image, bitmaps, object>>
    BY DEF ReadBlocks, Inv, TypeOK, NothingPending, NoneButCut, Call, InodeBlock,
           object
  <1>2. ASSUME NEW p \in [used -> DataNs], call.offset <= inode_buf.file_len
        PROVE  [how |-> "ok", n |-> len, data |-> read(p)] \in Result
    <2>1. len \in Nat
      BY <1>1, <1>2 DEF Smaller
    <2> HIDE DEF len
    <2>2. ASSUME NEW k \in 1 .. len
          PROVE  read(p)[k] \in Words
      <3> DEFINE at == call.offset + k - 1
      <3>1. /\ at \in Nat /\ call.offset <= at /\ at <= call.offset + (len - 1)
            /\ call.offset + (len - 1) \in Nat /\ len # 0
        BY <1>1, <2>1
      <3> HIDE DEF at
      <3>2. at \div BlockSize \in used /\ at % BlockSize \in Slots
        <4>1. BlockSize \in Nat \ {0}
          BY LayoutAssumption
        <4>2. at \div BlockSize \in Nat /\ at % BlockSize \in Slots
          BY <3>1, <4>1, DivByBlock DEF Slots
        <4>3. call.offset \div BlockSize <= at \div BlockSize
          BY <1>1, <3>1, <4>1, DivMonotone
        <4>4. at \div BlockSize <= (call.offset + (len - 1)) \div BlockSize
          BY <3>1, <4>1, DivMonotone
        <4>5. /\ call.offset \div BlockSize \in Nat
              /\ (call.offset + (len - 1)) \div BlockSize \in Nat
          BY <1>1, <3>1, <4>1, DivByBlock
        <4> QED
          BY <3>1, <4>2, <4>3, <4>4, <4>5
      <3>3. blocks[p[at \div BlockSize]][at % BlockSize] \in Words
        BY <1>1, <1>2, <3>2 DEF Block
      <3> QED
        BY <3>3 DEF at
    <2>3. read(p) \in Seq(Words)
      BY <2>1, <2>2
    <2> QED
      BY <2>1, <2>3 DEF Result
  <1>3. \/ \E r \in Result : Return(r)
        \/ Throw
    <2>1. \A p \in [used -> found] : p \in [used -> DataNs]
      BY StoredType
    <2> HIDE DEF found
    <2> QED
      BY <1>2, <2>1, ConstantTypes DEF ReadBlocks, found
  <1>4. TypeOK'
    BY <1>1, <1>3, ReturnType, ThrowType
    DEF Inv, TypeOK, image, bitmaps, object, lists, Labels
  <1> QED
    BY <1>1, <1>3, <1>4, ReturnType, ThrowType, RestInv DEF Inv

(* The steps that mark blocks used or free.                                *)
LEMMA UnlinkInv ==
  ASSUME Inv, Unlink
  PROVE  Inv'
  <1>1. TypeOK'
    BY DEF Unlink, Inv, TypeOK, InodeBlock, image, bitmaps, lists, Labels
  <1>2. NumberLoaded' /\ NothingPending' /\ LocalsInRange'
    BY DEF Unlink, Inv, NumberLoaded, NothingPending, LocalsInRange,
           InUse, AfterLoad, lists
  <1> QED
    BY <1>1, <1>2 DEF Inv

LEMMA MarkLoadInv ==
  ASSUME Inv, MarkLoad
  PROVE  Inv'
  BY LoadInodeInv
  DEF MarkLoad, Inv, TypeOK, NothingPending, LocalsInRange, AfterLoad

LEMMA SetStatusType ==
  ASSUME NEW b \in DataNs, data_bitmap \subseteq DataNs, SetStatus(b)
  PROVE  data_bitmap' \subseteq DataNs
  BY DEF SetStatus

LEMMA MarkInv ==
  ASSUME Inv, Mark
  PROVE  Inv'
  <1>1. /\ call \in Call /\ call.inode_n \in InodeNs /\ pc = "mark"
        /\ call.n_edited <= Len(call.data) /\ call.n_edited <= call.offset
        /\ loaded_inode_n = call.inode_n /\ NoneButCut
        /\ UNCHANGED <<image, inode_bitmap, object>>
    BY DEF Mark, Inv, TypeOK, LocalsInRange, NumberLoaded, NothingPending,
           InUse, AfterLoad
  <1>2. data_bitmap' \subseteq DataNs
    BY SetStatusType DEF Mark, Inv, TypeOK
  <1>3. CASE /\ pc' \in {"mark", "mark_indirect"}
             /\ call' = [call EXCEPT !.i = 0] \/ call' = [call EXCEPT !.i = @ + 1]
             /\ UNCHANGED result
    <2>1. call' \in Call
      <3>1. CASE call' = [call EXCEPT !.i = 0]
        BY <1>1, <3>1 DEF Call
      <3>2. CASE call' = [call EXCEPT !.i = @ + 1]
        BY <1>1, <3>2 DEF Call
      <3> QED
        BY <1>3, <3>1, <3>2
    <2>2. TypeOK'
      BY <1>1, <1>2, <1>3, <2>1 DEF Inv, TypeOK, image, object, lists, Labels
    <2>3. NumberLoaded' /\ NothingPending' /\ LocalsInRange'
      BY <1>1, <1>3
      DEF NoneButCut, NumberLoaded, NothingPending, LocalsInRange, InUse,
                        AfterLoad, Call, object
    <2> QED
      BY <2>2, <2>3 DEF Inv
  <1>4. CASE Throw
    <2>1. TypeOK'
      BY <1>1, <1>2, <1>4, ThrowType DEF Inv, TypeOK, image, object, lists, Labels
    <2> QED
      BY <1>1, <1>4, <2>1, ThrowType, RestInv DEF NoneButCut, Inv, object
  <1> QED
    BY <1>1, <1>3, <1>4 DEF Mark

LEMMA MarkIndirectInv ==
  ASSUME Inv, MarkIndirect
  PROVE  Inv'
  <1>1. /\ call \in Call /\ call.inode_n \in InodeNs /\ pc = "mark_indirect"
        /\ call.n_edited <= Len(call.data) /\ call.n_edited <= call.offset
        /\ loaded_inode_n = call.inode_n /\ NoneButCut
        /\ UNCHANGED <<image, object>>
    BY DEF MarkIndirect, Inv, TypeOK, LocalsInRange, NumberLoaded,
           NothingPending, InUse
  <1>2. data_bitmap' \subseteq DataNs /\ inode_bitmap' \subseteq InodeNs
    BY SetStatusType DEF MarkIndirect, bitmaps, Inv, TypeOK
  <1>3. CASE /\ call' = [call EXCEPT !.i = @ + 1]
             /\ UNCHANGED <<pc, result>>
    <2>1. call' \in Call
      BY <1>1, <1>3 DEF Call
    <2>2. TypeOK'
      BY <1>1, <1>2, <1>3, <2>1 DEF Inv, TypeOK, image, object, lists, Labels
    <2>3. NumberLoaded' /\ NothingPending' /\ LocalsInRange'
      BY <1>1, <1>3
      DEF NoneButCut, NumberLoaded, NothingPending, LocalsInRange, InUse,
                        AfterLoad, Call, object
    <2> QED
      BY <2>2, <2>3 DEF Inv
  <1>4. CASE /\ pc' = "scan"
             /\ call' = [call EXCEPT !.inode_n = @ + 1, !.i = 0]
             /\ UNCHANGED <<bitmaps, result>>
    <2>1. call' \in Call
      <3>1. call.inode_n + 1 \in 0 .. NInodes
        BY <1>1, LayoutAssumption DEF InodeNs
      <3> QED
        BY <1>1, <1>4, <3>1 DEF Call
    <2>2. TypeOK'
      BY <1>1, <1>2, <1>4, <2>1 DEF Inv, TypeOK, image, object, lists, Labels
    <2>3. NumberLoaded' /\ NothingPending' /\ LocalsInRange'
      BY <1>1, <1>4
      DEF NoneButCut, NumberLoaded, NothingPending, LocalsInRange, InUse,
                        AfterLoad, Call, object
    <2> QED
      BY <2>2, <2>3 DEF Inv
  <1>5. CASE \/ \E r \in Result : Return(r)
             \/ Throw
    <2>1. TypeOK'
      BY <1>1, <1>2, <1>5, ReturnType, ThrowType
      DEF Inv, TypeOK, image, object, lists, Labels
    <2> QED
      BY <1>1, <1>5, <2>1, ReturnType, ThrowType, RestInv
      DEF NoneButCut, Inv, object
  <1>6. Ok(call.inode_n) \in Result
    BY <1>1 DEF Ok, Result, InodeNs
  <1> QED
    BY <1>3, <1>4, <1>5, <1>6 DEF MarkIndirect

-----------------------------------------------------------------------------
(* The steps of write.  What edit_data may write is bounded by EditLen.    *)
LEMMA EditLenRange ==
  ASSUME call \in Call
  PROVE  /\ Len(call.data) \in Nat /\ call.offset \in Nat
         /\ call.n_edited \in Nat /\ call.n_written \in Nat
         /\ call.left \in Nat /\ call.i \in Nat
         /\ EditLen \in Nat /\ EditLen <= Len(call.data) /\ EditLen <= call.offset
         /\ call.n_edited <= Len(call.data) /\ call.n_edited <= call.offset
              => call.n_edited <= EditLen
  BY DEF Call, EditLen, Smaller

(* A step of edit_data or write that writes words into a data block leaves *)
(* the data blocks well typed.                                             *)
LEMMA WriteBlockType ==
  ASSUME blocks \in [DataNs -> Block], NEW b \in DataNs, NEW at \in Int,
         NEW words \in Seq(Words), blocks' = [blocks EXCEPT ![b] = Patch(@, at, words)]
  PROVE  blocks' \in [DataNs -> Block]
  <1>1. Patch(blocks[b], at, words) \in Block
    BY PatchType
  <1> QED
    BY <1>1

(* When such a step ends the call, or goes on within it, the rest of Inv   *)
(* depends only on how it changes call and pc.                             *)
LEMMA WriteStepInv ==
  ASSUME Inv, pc \in {"edit", "edit_rest", "tail"},
         blocks' \in [DataNs -> Block], UNCHANGED <<inodes, bitmaps, object>>,
         \/ \E r \in Result : Return(r)
         \/ Throw
         \/ /\ pc' \in {"edit_rest", "tail", "store"}
            /\ call' \in Call /\ UNCHANGED result
            /\ call'.inode_n = call.inode_n
            /\ call'.n_edited <= Len(call'.data) /\ call'.n_edited <= call'.offset
  PROVE  Inv'
  <1>1. NoneButCut /\ call.inode_n \in InodeNs
        /\ loaded_inode_n = call.inode_n
    BY DEF Inv, NothingPending, LocalsInRange, NumberLoaded, InUse, AfterLoad
  <1>2. CASE \/ \E r \in Result : Return(r)
             \/ Throw
    <2>1. TypeOK'
      BY <1>2, ReturnType, ThrowType
      DEF Inv, TypeOK, bitmaps, object, lists, Labels
    <2> QED
      BY <1>1, <1>2, <2>1, ReturnType, ThrowType, RestInv
      DEF NoneButCut, Inv, object
  <1>3. CASE /\ pc' \in {"edit_rest", "tail", "store"}
             /\ call' \in Call /\ UNCHANGED result
             /\ call'.inode_n = call.inode_n
             /\ call'.n_edited <= Len(call'.data) /\ call'.n_edited <= call'.offset
    <2>1. TypeOK'
      BY <1>3 DEF Inv, TypeOK, bitmaps, object, lists, Labels
    <2>2. NumberLoaded' /\ NothingPending' /\ LocalsInRange'
      BY <1>1, <1>3
      DEF NoneButCut, NumberLoaded, NothingPending, LocalsInRange, object
    <2> QED
      BY <2>1, <2>2 DEF Inv
  <1> QED
    BY <1>2, <1>3

LEMMA EditFirstInv ==
  ASSUME Inv, EditFirst
  PROVE  Inv'
  <1> DEFINE abs_offset == inode_buf.file_len - call.offset
             first      == abs_offset % BlockSize
             n_write    == Smaller(BlockSize - first, EditLen)
             words      == SubSeq(call.data, 1, n_write)
             n_blocks   == IF EditLen > n_write THEN BytesToBlocks(EditLen) ELSE 0
  <1>1. /\ call \in Call /\ pc = "edit" /\ blocks \in [DataNs -> Block]
        /\ call.n_edited <= Len(call.data) /\ call.n_edited <= call.offset
        /\ call.data \in Seq(Words) /\ inode_buf.file_len \in Nat
        /\ UNCHANGED <<inodes, bitmaps, object>>
    BY DEF EditFirst, Inv, TypeOK, LocalsInRange, Call, InodeBlock
  <1>2. CASE /\ blocks' = blocks
             /\ \/ pc' = "tail" /\ UNCHANGED <<call, result>>
                \/ Return(Refused)
                \/ Throw
    BY <1>1, <1>2, ConstantTypes, WriteStepInv
  <1>3. CASE /\ abs_offset >= 0
             /\ \E b \in Ptr(abs_offset \div BlockSize) \cap StoredNs :
                  blocks' = [blocks EXCEPT ![b] = Patch(@, first, words)]
             /\ call' = [call EXCEPT !.n_edited = n_write,
                                     !.i = abs_offset \div BlockSize + 1,
                                     !.left = n_blocks]
             /\ pc' = "edit_rest"
             /\ UNCHANGED result
    <2>1. abs_offset \in Nat
      BY <1>1, <1>3, EditLenRange
    <2>2. BlockSize \in Nat \ {0}
      BY LayoutAssumption
    <2> HIDE DEF abs_offset
    <2>3. abs_offset \div BlockSize + 1 \in Nat /\ first \in 0 .. BlockSize - 1
      <3>1. abs_offset \div BlockSize \in Nat /\ first \in 0 .. BlockSize - 1
        BY <2>1, <2>2, DivByBlock
      <3> HIDE DEF first
      <3> QED
        BY <3>1
    <2> HIDE DEF first
    <2>4. n_write \in Nat /\ n_write <= EditLen
      BY <1>1, <2>2, <2>3, EditLenRange DEF Smaller
    <2> HIDE DEF n_write
    <2>5. words \in Seq(Words)
      BY <1>1, <2>4, EditLenRange, PartOfSeq
    <2>6. n_blocks \in Nat
      BY <1>1, BlocksType, EditLenRange
    <2> HIDE DEF words, n_blocks
    <2>7. blocks' \in [DataNs -> Block]
      <3>1. PICK b \in DataNs : blocks' = [blocks EXCEPT ![b] = Patch(@, first, words)]
        BY <1>3, StoredType
      <3>2. first \in Int
        BY <2>2, <2>3
      <3> QED
        BY <1>1, <2>5, <3>1, <3>2, WriteBlockType
    <2>8. /\ call' \in Call /\ call'.inode_n = call.inode_n
          /\ call'.n_edited <= Len(call'.data) /\ call'.n_edited <= call'.offset
      <3>1. /\ call' \in Call /\ call'.inode_n = call.inode_n
            /\ call'.n_edited = n_write
            /\ call'.data = call.data /\ call'.offset = call.offset
        BY <1>1, <1>3, <2>3, <2>4, <2>6 DEF Call
      <3> QED
        BY <1>1, <2>4, <3>1, EditLenRange
    <2> QED
      BY <1>1, <1>3, <2>7, <2>8, WriteStepInv
  <1> QED
    BY <1>1, <1>2, <1>3 DEF EditFirst

LEMMA EditRestInv ==
  ASSUME Inv, EditRest
  PROVE  Inv'
  <1> DEFINE n_write == Smaller(BlockSize, EditLen - call.n_edited)
             words   == SubSeq(call.data, call.n_edited + 1, call.n_edited + n_write)
             found   == IF n_write = 0 THEN DataNs ELSE StoredNs
  <1>1. /\ call \in Call /\ pc = "edit_rest" /\ blocks \in [DataNs -> Block]
        /\ call.n_edited <= Len(call.data) /\ call.n_edited <= call.offset
        /\ call.data \in Seq(Words)
        /\ UNCHANGED <<inodes, bitmaps, object>>
    BY DEF EditRest, Inv, TypeOK, LocalsInRange, Call
  <1>2. CASE /\ blocks' = blocks
             /\ \/ pc' = "tail" /\ UNCHANGED <<call, result>>
                \/ Return(Ok(call.n_edited))
                \/ Throw
    <2>1. Ok(call.n_edited) \in Result
      BY <1>1, EditLenRange DEF Ok, Result
    <2> QED
      BY <1>1, <1>2, <2>1, WriteStepInv
  <1>3. CASE /\ call.left > 0
             /\ \E b \in Ptr(call.i) \cap found :
                  blocks' = [blocks EXCEPT ![b] = Patch(@, 0, words)]
             /\ call' = [call EXCEPT !.n_edited = @ + n_write, !.i = @ + 1,
                                     !.left = @ - 1]
             /\ UNCHANGED <<pc, result>>
    <2>1. n_write \in Nat /\ call.n_edited + n_write <= EditLen
      BY <1>1, EditLenRange, LayoutAssumption DEF Smaller
    <2> HIDE DEF n_write
    <2>2. words \in Seq(Words)
      BY <1>1, <2>1, EditLenRange, PartOfSeq
    <2> HIDE DEF words
    <2>3. blocks' \in [DataNs -> Block]
      <3>1. PICK b \in DataNs : blocks' = [blocks EXCEPT ![b] = Patch(@, 0, words)]
        BY <1>3, StoredType
      <3>2. 0 \in Int
        OBVIOUS
      <3> QED
        BY <1>1, <2>2, <3>1, <3>2, WriteBlockType
    <2>4. /\ call' \in Call /\ call'.inode_n = call.inode_n
          /\ call'.n_edited <= Len(call'.data) /\ call'.n_edited <= call'.offset
      <3>1. /\ call.n_edited + n_write \in Nat /\ call.i + 1 \in Nat
            /\ call.left - 1 \in Nat
        BY <1>1, <1>3, <2>1, EditLenRange
      <3>2. /\ call' \in Call /\ call'.inode_n = call.inode_n
            /\ call'.n_edited = call.n_edited + n_write
            /\ call'.data = call.data /\ call'.offset = call.offset
        BY <1>1, <1>3, <3>1 DEF Call
      <3> QED
        BY <1>1, <2>1, <3>2, EditLenRange
    <2> QED
      BY <1>1, <1>3, <2>3, <2>4, WriteStepInv
  <1> QED
    BY <1>1, <1>2, <1>3 DEF EditRest

LEMMA WriteTailInv ==
  ASSUME Inv, WriteTail
  PROVE  Inv'
  <1> DEFINE n_ptr_used == BytesToBlocks(inode_buf.file_len)
             free       == n_ptr_used * BlockSize - inode_buf.file_len
             rest       == SubSeq(call.data, call.n_edited + 1, Len(call.data))
             n_behind   == IF free > Len(rest) THEN free - Len(rest) ELSE 0
  <1>1. /\ call \in Call /\ pc = "tail" /\ blocks \in [DataNs -> Block]
        /\ call.n_edited <= Len(call.data) /\ call.n_edited <= call.offset
        /\ call.data \in Seq(Words) /\ inode_buf.file_len \in Nat
        /\ UNCHANGED <<inodes, bitmaps, object>>
    BY DEF WriteTail, Inv, TypeOK, LocalsInRange, Call, InodeBlock
  <1>2. free \in Int
    <2>1. n_ptr_used \in Int
      BY <1>1, BlocksType
    <2>2. BlockSize \in Int
      BY LayoutAssumption
    <2> HIDE DEF n_ptr_used
    <2> QED
      BY <1>1, <2>1, <2>2
  <1>3. rest \in Seq(Words) /\ Len(rest) \in Nat
    <2>1. rest \in Seq(Words)
      BY <1>1, EditLenRange, PartOfSeq
    <2> QED
      BY <2>1
  <1> HIDE DEF free, rest
  <1>4. CASE blocks' = blocks /\ Throw
    BY <1>1, <1>4, WriteStepInv
  <1>5. CASE /\ blocks' = blocks
             /\ call' = [call EXCEPT !.left = BytesToBlocks(Len(rest))]
             /\ pc' = "store"
             /\ UNCHANGED result
    <2>1. call' \in Call /\ call'.inode_n = call.inode_n
          /\ call'.n_edited <= Len(call'.data) /\ call'.n_edited <= call'.offset
      <3>1. BytesToBlocks(Len(rest)) \in Nat
        BY <1>3, BlocksType
      <3> QED
        BY <1>1, <1>5, <3>1 DEF Call
    <2> QED
      BY <1>1, <1>5, <2>1, WriteStepInv
  <1>6. CASE /\ free > 0
             /\ \E b \in Ptr(n_ptr_used - 1) \cap StoredNs,
                   behind \in [1 .. n_behind -> HeapWords] :
                  blocks' = [blocks EXCEPT
                               ![b] = Patch(@, BlockSize - free,
                                            SubSeq(rest \o behind, 1, free))]
             /\ call' = [call EXCEPT !.n_written = free, !.free_bytes = free,
                                     !.left = BytesToBlocks(Len(rest) - free)]
             /\ pc' = "store"
             /\ UNCHANGED result
    <2>1. free \in Nat /\ n_behind \in Nat /\ free <= Len(rest) + n_behind
      BY <1>2, <1>3, <1>6
    <2> HIDE DEF n_behind
    <2>2. ASSUME NEW behind \in [1 .. n_behind -> HeapWords]
          PROVE  SubSeq(rest \o behind, 1, free) \in Seq(Words)
      <3>1. behind \in Seq(Words) /\ Len(behind) = n_behind
        <4>1. behind \in [1 .. n_behind -> Words]
          BY <2>2, LayoutAssumption
        <4> QED
          BY <2>1, <4>1
      <3>2. /\ rest \o behind \in Seq(Words)
            /\ Len(rest \o behind) = Len(rest) + n_behind
        BY <1>3, <3>1
      <3> QED
        BY <2>1, <3>2, PartOfSeq
    <2>3. blocks' \in [DataNs -> Block]
      <3>1. PICK b \in DataNs, behind \in [1 .. n_behind -> HeapWords] :
              blocks' = [blocks EXCEPT ![b] = Patch(@, BlockSize - free,
                                                    SubSeq(rest \o behind, 1, free))]
        BY <1>6, StoredType
      <3>2. BlockSize - free \in Int
        BY <1>2, LayoutAssumption
      <3>3. SubSeq(rest \o behind, 1, free) \in Seq(Words)
        BY <2>2
      <3> QED
        BY <1>1, <3>1, <3>2, <3>3, WriteBlockType
    <2>4. BytesToBlocks(Len(rest) - free) \in Nat
      BY <1>2, <1>3, BlocksType
    <2>5. call' \in Call /\ call'.inode_n = call.inode_n
          /\ call'.n_edited <= Len(call'.data) /\ call'.n_edited <= call'.offset
      BY <1>1, <1>6, <2>1, <2>4 DEF Call
    <2> QED
      BY <1>1, <1>6, <2>3, <2>5, WriteStepInv
  <1> QED
    BY <1>1, <1>4, <1>5, <1>6 DEF WriteTail, free, rest

LEMMA StoreBlocksInv ==
  ASSUME Inv, StoreBlocks
  PROVE  Inv'
  <1> DEFINE at      == call.n_edited + call.n_written
             n_write == Smaller(Len(call.data) - at, BlockSize)
             words   == SubSeq(call.data, at + 1, at + n_write)
  <1>1. /\ call \in Call /\ pc = "store" /\ blocks \in [DataNs -> Block]
        /\ call.inode_n \in InodeNs /\ loaded_inode_n = call.inode_n
        /\ call.n_edited <= Len(call.data) /\ call.n_edited <= call.offset
        /\ call.data \in Seq(Words) /\ inode_buf \in InodeBlock
        /\ ptrs_to_allocate \in Seq(DataNs)
        /\ UNCHANGED <<inodes, inode_bitmap, loaded_inode_n, inode, lists>>
    BY DEF StoreBlocks, Inv, TypeOK, LocalsInRange, NumberLoaded, InUse, Call
  <1>2. CASE /\ call.left > 0
             /\ \E b \in FreeBlocks :
                  /\ data_bitmap' = data_bitmap \cup {b}
                  /\ ptrs_to_allocate' = Append(ptrs_to_allocate, b)
                  /\ blocks' = [blocks EXCEPT ![b] = Patch(@, 0, words)]
                  /\ call' = [call EXCEPT !.n_written = @ + n_write, !.left = @ - 1]
                  /\ UNCHANGED <<pc, result>>
             /\ UNCHANGED inode_buf
    <2>1. PICK b \in FreeBlocks :
            /\ data_bitmap' = data_bitmap \cup {b}
            /\ ptrs_to_allocate' = Append(ptrs_to_allocate, b)
            /\ blocks' = [blocks EXCEPT ![b] = Patch(@, 0, words)]
      BY <1>2
    <2>2. b \in DataNs
      BY DEF FreeBlocks
    <2>3. /\ at \in Nat /\ n_write \in Int /\ at + n_write <= Len(call.data)
          /\ call.n_written + n_write \in Nat
      <3>1. /\ Len(call.data) \in Nat /\ call.n_edited \in Nat
            /\ call.n_written \in Nat /\ BlockSize \in Nat
        BY <1>1, EditLenRange, LayoutAssumption
      <3>2. at \in Nat
        BY <3>1
      <3>3. CASE n_write = BlockSize /\ BlockSize < Len(call.data) - at
        BY <3>1, <3>2, <3>3
      <3>4. CASE n_write = Len(call.data) - at
        <4>1. /\ Len(call.data) - at \in Int
              /\ at + (Len(call.data) - at) = Len(call.data)
              /\ call.n_written + (Len(call.data) - at)
                   = Len(call.data) - call.n_edited
          BY <3>1, <3>2
        <4>2. Len(call.data) - call.n_edited \in Nat
          BY <1>1, <3>1
        <4> HIDE DEF at, n_write
        <4> QED
          BY <3>1, <3>2, <3>4, <4>1, <4>2
      <3>5. \/ n_write = BlockSize /\ BlockSize < Len(call.data) - at
            \/ n_write = Len(call.data) - at
        <4> HIDE DEF at
        <4> QED
          BY <3>1, <3>2 DEF Smaller
      <3> QED
        BY <3>3, <3>4, <3>5
    <2> HIDE DEF at, n_write
    <2>4. words \in Seq(Words)
      BY <1>1, <2>3, EditLenRange, PartOfSeq
    <2> HIDE DEF words
    <2>5. blocks' \in [DataNs -> Block]
      <3>1. 0 \in Int
        OBVIOUS
      <3> QED
        BY <1>1, <2>1, <2>2, <2>4, <3>1, WriteBlockType
    <2>6. /\ call' \in Call /\ call'.inode_n = call.inode_n
          /\ call'.n_edited = call.n_edited
          /\ call'.data = call.data /\ call'.offset = call.offset
      <3>1. call.left - 1 \in Nat
        BY <1>1, <1>2, EditLenRange
      <3> QED
        BY <1>1, <1>2, <2>3, <3>1 DEF Call
    <2>7. TypeOK'
      BY <1>1, <1>2, <2>1, <2>2, <2>5, <2>6 DEF Inv, TypeOK, lists
    <2>8. NumberLoaded' /\ NothingPending' /\ LocalsInRange'
      BY <1>1, <1>2, <2>6 DEF NumberLoaded, NothingPending, LocalsInRange
    <2> QED
      BY <2>7, <2>8 DEF Inv
  <1>3. CASE /\ inode_buf' = [inode_buf EXCEPT !.file_len = @ + call.n_written]
             /\ pc' = "commit"
             /\ UNCHANGED <<blocks, data_bitmap, ptrs_to_allocate, call, result>>
    <2>1. inode_buf' \in InodeBlock
      <3>1. inode_buf.file_len + call.n_written \in Nat
        BY <1>1, EditLenRange DEF InodeBlock
      <3> QED
        BY <1>1, <1>3, <3>1 DEF InodeBlock
    <2>2. TypeOK'
      BY <1>1, <1>3, <2>1 DEF Inv, TypeOK, lists, Labels
    <2>3. NumberLoaded' /\ NothingPending' /\ LocalsInRange'
      BY <1>1, <1>3 DEF NumberLoaded, NothingPending, LocalsInRange
    <2> QED
      BY <2>2, <2>3 DEF Inv
  <1>4. CASE /\ \E b \in FreeBlocks \ StoredNs :
                  /\ data_bitmap' = data_bitmap \cup {b}
                  /\ ptrs_to_allocate' = Append(ptrs_to_allocate, b)
             /\ Throw
             /\ UNCHANGED <<blocks, inode_buf>>
    <2>1. PICK b \in FreeBlocks \ StoredNs :
            /\ data_bitmap' = data_bitmap \cup {b}
            /\ ptrs_to_allocate' = Append(ptrs_to_allocate, b)
      BY <1>4
    <2>2. b \in DataNs /\ b \in CutBlocks
      BY StoredType DEF FreeBlocks
    <2>3. /\ ptrs_to_allocate' \in Seq(DataNs)
          /\ Len(ptrs_to_allocate') = Len(ptrs_to_allocate) + 1
          /\ ptrs_to_allocate'[Len(ptrs_to_allocate')] = b
      BY <1>1, <2>1, <2>2
    <2>4. NoneButCut'
      <3>1. Len(ptrs_to_allocate') \in 1 .. Len(ptrs_to_allocate')
        BY <1>1, <2>3
      <3> QED
        BY <2>2, <2>3, <3>1 DEF NoneButCut
    <2>5. TypeOK'
      BY <1>1, <1>4, <2>1, <2>2, <2>3, ThrowType DEF Inv, TypeOK, lists, Labels
    <2> QED
      BY <1>4, <2>4, <2>5, ThrowType, RestInv DEF Inv
  <1> QED
    BY <1>2, <1>3, <1>4 DEF StoreBlocks

-----------------------------------------------------------------------------
(* Every step keeps Inv: one step of the proof per action.                 *)
LEMMA NextInv == Inv /\ [Next]_vars => Inv'
  <1> SUFFICES ASSUME Inv, [Next]_vars PROVE Inv'
    OBVIOUS
  <1>1. ASSUME NEW n \in InodeNs,
               RemoveCall(n) \/ \E op \in {"length", "name"} : LookupCall(op, n)
        PROVE  Inv'
    BY <1>1, LookupCallInv, RemoveCallInv
  <1>2. ASSUME NEW n \in InodeNs, NEW offset \in Offsets, NEW length \in ReadLengths,
               ReadCall(n, offset, length)
        PROVE  Inv'
    BY <1>2, ReadCallInv, InputAssumption
  <1>3. ASSUME NEW n \in InodeNs, NEW offset \in Offsets, NEW data \in Payloads,
               WriteCall(n, offset, data)
        PROVE  Inv'
    BY <1>3, WriteCallInv, InputAssumption
  <1>4. ASSUME NEW long_name \in BOOLEAN, CreateFile(long_name) PROVE Inv'
    BY <1>4, CreateFileInv
  <1>5. ASSUME NEW long_name \in BOOLEAN, NEW n \in InodeNs, RenameCall(n, long_name)
        PROVE  Inv'
    BY <1>5, RenameCallInv
  <1>6. CASE MountCall \/ FormatCall
    BY <1>6, MountCallInv, FormatCallInv
  <1>7. CASE InodeStep
    BY <1>7, LoadIndirectInv, CommitDirectInv, FillIndirectInv, ExtendChainInv,
       StoreIndirectInv DEF InodeStep
  <1>8. CASE Writeback
    BY <1>8, WritebackInv
  <1>9. CASE LookupReturn \/ ReadBlocks
    BY <1>9, LookupReturnInv, ReadBlocksInv
  <1>10. CASE EditFirst \/ EditRest \/ WriteTail \/ StoreBlocks
    BY <1>10, EditFirstInv, EditRestInv, WriteTailInv, StoreBlocksInv
  <1>11. CASE Unlink \/ MarkLoad \/ Mark \/ MarkIndirect
    BY <1>11, UnlinkInv, MarkLoadInv, MarkInv, MarkIndirectInv
  <1>12. CASE Scan \/ ScanCheck \/ Format \/ FormatReset
    BY <1>12, ScanInv, ScanCheckInv, FormatInv, FormatResetInv
  <1>13. CASE Crash
    BY <1>13, CrashInv
  <1>14. CASE UNCHANGED vars
    BY <1>14, StutterInv
  <1> QED
    BY <1>1, <1>2, <1>3, <1>4, <1>5, <1>6, <1>7, <1>8, <1>9, <1>10, <1>11, <1>12,
       <1>13, <1>14 DEF Next, Invoke, FileCall, Step

LEMMA SpecInv == Spec => []Inv
  BY InitInv, NextInv, PTL DEF Spec

-----------------------------------------------------------------------------
(* Whatever the image holds, and however many calls have thrown or been    *)
(* cut off: every variable keeps its type, so that the bitmaps mark no     *)
(* block outside the disk, no pointer to one is pending, and no word is    *)
(* stored that is not one of the caller's, a pointer, or what memory       *)
(* happened to hold.                                                       *)
THEOREM TypeCorrect == Spec => []TypeOK
  BY SpecInv, PTL DEF Inv

(* Whatever the image holds or lacks: of all the endings of a call, only   *)
(* the throw of a write to a block that the image lacks, which write has   *)
(* marked and added before, leaves blocks pending in the object, where the *)
(* next commit, of whichever inode, takes them for its own.                *)
THEOREM PendingAfterCutOnly == Spec => []NothingPending
  BY SpecInv, PTL DEF Inv

(* So with an image that has all its blocks no call leaves any, on chains  *)
(* however corrupt, by whatever other throw, and for want of blocks.       *)
THEOREM WholeImagesLeaveNothing ==
  ASSUME CutBlocks = {}
  PROVE  Spec => [](pc \notin {"store", "commit", "fill", "writeback"} =>
                      ptrs_to_allocate = <<>>)
  <1>1. NothingPending => (pc \notin {"store", "commit", "fill", "writeback"} =>
                             ptrs_to_allocate = <<>>)
    BY DEF NoneButCut, NothingPending
  <1> QED
    BY <1>1, PendingAfterCutOnly, PTL

(* edit_data stays within the caller's data and the part of it that lies   *)
(* before the end of the file, and the scans within the inodes.  Nothing   *)
(* is said of the list of pointers, which commit does index past its end   *)
(* when an earlier write found no room for its pointers.                   *)
THEOREM CountersStayInRange == Spec => []LocalsInRange
  BY SpecInv, PTL DEF Inv
=============================================================================
