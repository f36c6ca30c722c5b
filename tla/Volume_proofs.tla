--------------------------- MODULE Volume_proofs ----------------------------
(***************************************************************************)
(* Theorems about Volume, for every value of the constants: the mounts,    *)
(* then the types, the super block of a mounted image and the block cache. *)
(***************************************************************************)
EXTENDS Volume, TLAPS

(* The inductive invariant for the mount count.  MountsAccounted alone is  *)
(* not inductive: a new Disk starts the count at 0, which is right because *)
(* no FileSystem outlives its Disk (Owned) and one that does not live has  *)
(* no mounts to undo.                                                      *)
CountsTyped ==
  /\ mounted \in Nat /\ leaked \in Nat
  /\ fs \in [live : BOOLEAN, ready : BOOLEAN, mounts : Nat]

Owned ==
  /\ block_size = 0 => ~fs.live
  /\ ~fs.live => fs.mounts = 0

MountInv == CountsTyped /\ Owned /\ MountsAccounted

LEMMA InitMounts == Init => MountInv
  BY DEF Init, MountInv, CountsTyped, Owned, MountsAccounted, NoFs

LEMMA SameCounts ==
  ASSUME MountInv, UNCHANGED <<mounted, leaked, fs, block_size>>
  PROVE  MountInv'
  BY DEF MountInv, CountsTyped, Owned, MountsAccounted

(* A Disk that comes or goes has no FileSystem on it.                      *)
LEMMA DiskMounts ==
  ASSUME MountInv, (\E b \in BlockSizes : MakeDisk(b)) \/ DropDisk
  PROVE  MountInv'
  BY VolumeAssumption
  DEF MountInv, CountsTyped, Owned, MountsAccounted,
      MakeDisk, NewDisk, DropDisk, DeleteDisk

(* With the two values of fs.live apart.                                   *)
LEMMA LiveCount ==
  ASSUME MountInv, fs.live
  PROVE  mounted = 1 + fs.mounts + leaked /\ block_size # 0
  BY DEF MountInv, Owned, MountsAccounted

LEMMA CountLive ==
  ASSUME fs' \in [live : BOOLEAN, ready : BOOLEAN, mounts : Nat],
         mounted' \in Nat, leaked' \in Nat, fs'.live,
         block_size' # 0, mounted' = 1 + fs'.mounts + leaked'
  PROVE  MountInv'
  BY DEF MountInv, CountsTyped, Owned, MountsAccounted

LEMMA CountNone ==
  ASSUME fs' = NoFs, NEW k \in Nat, mounted' = k, leaked' = k
  PROVE  MountInv'
  <1>1. CountsTyped'
    BY DEF CountsTyped, NoFs
  <1>2. fs'.live = FALSE /\ fs'.mounts = 0
    BY DEF NoFs
  <1>3. Owned'
    BY <1>2 DEF Owned
  <1>4. MountsAccounted'
    <2>1. (IF fs'.live THEN 1 ELSE 0) = 0
      BY <1>2
    <2> QED
      BY <1>2, <2>1 DEF MountsAccounted
  <1> QED
    BY <1>1, <1>3, <1>4 DEF MountInv

LEMMA ConstructMounts ==
  ASSUME MountInv, Construct
  PROVE  MountInv'
  <1>1. fs.live = FALSE /\ fs.mounts = 0 /\ mounted \in Nat /\ leaked \in Nat
    BY DEF MountInv, CountsTyped, Owned, Construct
  <1>2. mounted = leaked
    BY <1>1 DEF MountInv, MountsAccounted, Construct
  <1>3. fs' \in [live : BOOLEAN, ready : BOOLEAN, mounts : Nat]
        /\ fs'.live /\ fs'.mounts = 0
    BY DEF Construct, NoFs
  <1>4. /\ mounted' = mounted + 1 /\ leaked' = leaked
        /\ block_size' = block_size /\ block_size # 0
    BY DEF Construct
  <1> QED
    BY <1>1, <1>2, <1>3, <1>4, CountLive

(* The count under a living object is at least its own, so that taking one *)
(* away never stops at zero.                                               *)
LEMMA DestroyMounts ==
  ASSUME MountInv, Destroy
  PROVE  MountInv'
  <1>1. /\ mounted = 1 + fs.mounts + leaked
        /\ fs.mounts \in Nat /\ leaked \in Nat
    BY LiveCount DEF MountInv, CountsTyped, Destroy
  <1>2. mounted' = fs.mounts + leaked /\ leaked' = leaked + fs.mounts
    BY <1>1 DEF Destroy, OneLess
  <1>3. fs.mounts + leaked \in Nat /\ leaked' = fs.mounts + leaked
    BY <1>1, <1>2
  <1> QED
    BY <1>2, <1>3, CountNone DEF Destroy

LEMMA UnmountMounts ==
  ASSUME MountInv, Unmount, Careful
  PROVE  MountInv'
  <1>1. fs.mounts > 0
    BY DEF Unmount, Ends, Idle, Careful
  <1>2. /\ mounted = 1 + fs.mounts + leaked /\ block_size # 0
        /\ fs.mounts \in Nat /\ leaked \in Nat /\ fs.ready \in BOOLEAN
    BY LiveCount DEF MountInv, CountsTyped, Unmount
  <1>3. mounted' = fs.mounts + leaked
    BY <1>1, <1>2 DEF Unmount, OneLess
  <1>4. fs' \in [live : BOOLEAN, ready : BOOLEAN, mounts : Nat]
        /\ fs'.live /\ fs'.mounts = fs.mounts - 1
    BY <1>1 DEF MountInv, CountsTyped, Unmount
  <1>5. leaked' = leaked /\ block_size' = block_size
    BY DEF Unmount
  <1> QED
    BY <1>1, <1>2, <1>3, <1>4, <1>5, CountLive

(* Whatever a mount throws for, what it has taken is counted as leaked.    *)
LEMMA MountMounts ==
  ASSUME MountInv, MountNoSuperBlock \/ MountNoInodes \/ MountScan
  PROVE  MountInv'
  <1>1. /\ mounted = 1 + fs.mounts + leaked /\ block_size # 0 /\ mounted \in Nat
        /\ fs.mounts \in Nat /\ leaked \in Nat
        /\ fs \in [live : BOOLEAN, ready : BOOLEAN, mounts : Nat] /\ fs.live = TRUE
    BY LiveCount DEF MountInv, CountsTyped, MountNoSuperBlock, MountNoInodes, MountScan
  <1>2. /\ block_size' = block_size
        /\ \/ /\ mounted' = mounted + 2 /\ leaked' = leaked + 2
              /\ fs' = [fs EXCEPT !.ready = FALSE]
           \/ /\ mounted' = mounted + 1 /\ leaked' = leaked + 1
              /\ fs' = [fs EXCEPT !.ready = FALSE]
           \/ /\ mounted' = mounted + 1 /\ leaked' = leaked
              /\ fs' = [fs EXCEPT !.ready = TRUE, !.mounts = @ + 1]
    BY DEF MountNoSuperBlock, MountNoInodes, MountScan
  <1>3. CASE fs' = [fs EXCEPT !.ready = FALSE] /\ mounted' - leaked' = mounted - leaked
             /\ mounted' \in Nat /\ leaked' \in Nat
    <2>1. fs' \in [live : BOOLEAN, ready : BOOLEAN, mounts : Nat]
          /\ fs'.live /\ fs'.mounts = fs.mounts
      BY <1>1, <1>3
    <2> QED
      BY <1>1, <1>2, <1>3, <2>1, CountLive
  <1>4. CASE /\ fs' = [fs EXCEPT !.ready = TRUE, !.mounts = @ + 1]
             /\ mounted' = mounted + 1 /\ leaked' = leaked
    <2>1. fs.mounts + 1 \in Nat
      BY <1>1
    <2>2. fs' = [fs EXCEPT !.ready = TRUE, !.mounts = fs.mounts + 1]
      BY <1>1, <1>4
    <2>3. fs' \in [live : BOOLEAN, ready : BOOLEAN, mounts : Nat]
          /\ fs'.live /\ fs'.mounts = fs.mounts + 1
      BY <1>1, <2>1, <2>2
    <2> QED
      BY <1>1, <1>2, <1>4, <2>3, CountLive
  <1> QED
    BY <1>1, <1>2, <1>3, <1>4

(* A transfer of the Block, however it ends, takes and gives no mount.     *)
LEMMA TransferKeeps ==
  ASSUME NEW op, NEW kind, NEW n, NEW at, NEW data, NEW b,
         Transfer(op, kind, n, at, data, b)
  PROVE  UNCHANGED <<mounted, leaked, fs, block_size, disk_img_size>>
  BY DEF Transfer, BlockRead, BlockWrite, Refuses, Nothing, Fails, diskVars

LEMMA NextMounts == MountInv /\ [Next /\ Careful]_vars => MountInv'
  <1> SUFFICES ASSUME MountInv, [Next /\ Careful]_vars
               PROVE  MountInv'
    OBVIOUS
  <1>1. CASE (\E b \in BlockSizes : MakeDisk(b)) \/ DropDisk
    BY <1>1, DiskMounts
  <1>2. CASE \E f \in {file} \cup InitialFiles : Open(f)
    BY <1>2, SameCounts DEF Open, OpenImage, OpenRefused, diskVars
  <1>3. CASE \E image \in NewImages : Create(image[1], image[2])
    BY <1>3, SameCounts DEF Create, CreateImage
  <1>4. CASE \E n \in RawBlocks : RawRead(n)
    BY <1>4, SameCounts DEF RawRead
  <1>5. CASE Construct
    BY <1>5, ConstructMounts
  <1>6. CASE Destroy
    BY <1>6, DestroyMounts
  <1>7. CASE Unmount /\ Careful
    BY <1>7, UnmountMounts
  <1>8. CASE MountNoSuperBlock \/ MountNoInodes \/ MountScan
    BY <1>8, MountMounts
  <1>9. CASE Format
    BY <1>9, SameCounts DEF Format
  <1>10. CASE \E op \in {"read", "write"}, n \in Numbers :
                \/ \E v \in Values : TransferInode(op, n, v)
                \/ \E at \in Offsets, data \in Data : TransferData(op, n, at, data)
    <2>1. ASSUME NEW op, NEW n, NEW v, TransferInode(op, n, v)
          PROVE  MountInv'
      BY <2>1, TransferKeeps, SameCounts DEF TransferInode
    <2>2. ASSUME NEW op, NEW n, NEW at, NEW data, TransferData(op, n, at, data)
          PROVE  MountInv'
      BY <2>2, TransferKeeps, SameCounts DEF TransferData
    <2> QED
      BY <1>10, <2>1, <2>2
  <1>11. CASE UNCHANGED vars
    BY <1>11, SameCounts DEF vars, diskVars
  <1> QED
    BY <1>1, <1>2, <1>3, <1>4, <1>5, <1>6, <1>7, <1>8, <1>9, <1>10, <1>11 DEF Next

LEMMA SpecMounts == Spec => []MountInv
  BY InitMounts, NextMounts, PTL DEF Spec

(* However mounts fail, and with any number of them, the mount count of    *)
(* the Disk is what FileSystem and its calls have taken and not given back.*)
THEOREM MountsAreAccounted == Spec => []MountsAccounted
  BY SpecMounts, PTL DEF MountInv

-----------------------------------------------------------------------------
(* The inductive invariant for the image: the size that the Disk knows is  *)
(* the size of the image that is open, as an int32_t, and without a Disk   *)
(* none is open.                                                           *)
Kinds    == {"missing", "ragged", "whole"}
IsImage(f) == \E S : f \in [kind : Kinds, data : Seq(S)]

SizeInv ==
  /\ IsImage(file)
  /\ disk_img # "closed" => disk_img_size = Wrap(Len(file.data))
  /\ block_size = 0 => disk_img = "closed"

(* Overwriting fragments in place leaves an image of the same length.      *)
LEMMA SameLength ==
  ASSUME NEW S, NEW s \in Seq(S), NEW t, DOMAIN t = DOMAIN s,
         t = [k \in DOMAIN t |-> t[k]]
  PROVE  (\E T : t \in Seq(T)) /\ Len(t) = Len(s)
  <1>1. Len(s) \in Nat /\ DOMAIN s = 1 .. Len(s)
    OBVIOUS
  <1>2. t \in [1 .. Len(s) -> {t[k] : k \in 1 .. Len(s)}]
    BY <1>1
  <1>3. t \in Seq({t[k] : k \in 1 .. Len(s)})
    BY <1>1, <1>2
  <1>4. Len(t) = Len(s)
    BY <1>1, <1>2, <1>3
  <1> QED
    BY <1>3, <1>4

LEMMA Overwritten ==
  ASSUME NEW f, IsImage(f), NEW t, DOMAIN t = DOMAIN f.data,
         t = [k \in DOMAIN t |-> t[k]]
  PROVE  IsImage([f EXCEPT !.data = t]) /\ Len([f EXCEPT !.data = t].data) = Len(f.data)
  <1>1. PICK S : f \in [kind : Kinds, data : Seq(S)]
    BY DEF IsImage
  <1>2. f.data \in Seq(S)
    BY <1>1
  <1>3. PICK T : t \in Seq(T)
    BY <1>2, SameLength
  <1>4. Len(t) = Len(f.data)
    BY <1>2, SameLength
  <1>5. [f EXCEPT !.data = t] \in [kind : Kinds, data : Seq(T)]
    BY <1>1, <1>3
  <1>6. [f EXCEPT !.data = t].data = t
    BY <1>1
  <1> QED
    BY <1>4, <1>5, <1>6 DEF IsImage

LEMMA StoredImage ==
  ASSUME IsImage(file), NEW n, NEW data
  PROVE  /\ IsImage(Stored(n, data))
         /\ Len(Stored(n, data).data) = Len(file.data)
         /\ Stored(n, data) # file => disk_img # "closed"
  <1>1. CASE Streams /\ Fits(n, Len(data))
    <2> DEFINE t == [k \in DOMAIN file.data |->
                       IF Offset(n) < k /\ k <= Offset(n) + Cut(n, Len(data))
                       THEN data[k - Offset(n)] ELSE file.data[k]]
    <2>1. Stored(n, data) = [file EXCEPT !.data = t]
      BY <1>1 DEF Stored
    <2>2. DOMAIN t = DOMAIN file.data /\ t = [k \in DOMAIN t |-> t[k]]
      OBVIOUS
    <2>3. disk_img # "closed"
      BY <1>1 DEF Streams
    <2> HIDE DEF t
    <2> QED
      BY <2>1, <2>2, <2>3, Overwritten
  <1>2. CASE ~(Streams /\ Fits(n, Len(data)))
    BY <1>2 DEF Stored
  <1> QED
    BY <1>1, <1>2

LEMMA InitSize == Init => SizeInv
  BY VolumeAssumption DEF Init, SizeInv, IsImage, Kinds

LEMMA SameSize ==
  ASSUME SizeInv, UNCHANGED <<file, disk_img_size, block_size>>,
         disk_img = "closed" => disk_img' = "closed"
  PROVE  SizeInv'
  BY DEF SizeInv, IsImage

LEMMA DiskSize ==
  ASSUME SizeInv, (\E b \in BlockSizes : MakeDisk(b)) \/ DropDisk
  PROVE  SizeInv'
  BY DEF SizeInv, IsImage, MakeDisk, NewDisk, DropDisk, DeleteDisk

LEMMA OpenSize ==
  ASSUME SizeInv, NEW f \in {file} \cup InitialFiles, Open(f)
  PROVE  SizeInv'
  <1>1. IsImage(f)
    BY VolumeAssumption DEF SizeInv, IsImage, Kinds
  <1>2. CASE OpenImage(f)
    <2>1. f.kind \in Kinds
      BY <1>1 DEF IsImage
    <2>2. file' = f /\ block_size' = block_size /\ block_size # 0
      BY <1>2 DEF Open, OpenImage
    <2>3. disk_img' # "closed" => disk_img_size' = Wrap(Len(f.data))
      BY <1>2, <2>1 DEF OpenImage, Kinds
    <2> QED
      BY <1>1, <2>2, <2>3 DEF SizeInv, IsImage
  <1>3. CASE OpenRefused
    BY <1>3, SameSize DEF OpenRefused, diskVars
  <1> QED
    BY <1>2, <1>3 DEF Open

LEMMA CreateSize ==
  ASSUME SizeInv, NEW n \in Nat, NEW b \in Nat, Create(n, b), disk_img = "closed"
  PROVE  SizeInv'
  <1> DEFINE size == Wrap(b * n)
  <1>1. size \in Int
    <2>1. b * n \in Int
      OBVIOUS
    <2>2. ASSUME NEW x \in Int PROVE Wrap(x) \in Int
      BY DiskAssumption DEF Wrap
    <2> QED
      BY <2>1, <2>2
  <1>2. disk_img = "closed" /\ disk_img' = "closed"
    BY DEF SizeInv, Create, CreateImage
  <1>3. IsImage(file')
    <2>1. ASSUME size > 0 PROVE Zeros(size) \in Seq({<<0>>})
      <3> HIDE DEF size
      <3> QED
        BY <1>1, <2>1 DEF Zeros
    <2>2. file' = [kind |-> "whole", data |-> IF size > 0 THEN Zeros(size) ELSE <<>>]
      BY DEF Create, CreateImage, Whole
    <2>3. file' \in [kind : Kinds, data : Seq({<<0>>})]
      BY <2>1, <2>2 DEF Kinds
    <2> QED
      BY <2>3 DEF IsImage
  <1> QED
    BY <1>2, <1>3 DEF SizeInv, IsImage

(* A stream fails only once it is open.                                    *)
LEMMA ClosedStays ==
  ASSUME NEW n, NEW len, disk_img = "closed"
  PROVE  StreamAfter(n, len) = "closed"
  BY DEF StreamAfter, Mounted

LEMMA MountSize ==
  ASSUME SizeInv, MountNoSuperBlock \/ MountNoInodes \/ MountScan
  PROVE  SizeInv'
  BY SameSize DEF MountNoSuperBlock, MountNoInodes, MountScan,
                  SuperBlockSound, SuperBlockRead

LEMMA FormatImage ==
  ASSUME SizeInv, Format
  PROVE  /\ SizeInv'
         /\ Len(file'.data) = Len(file.data)
  <1> DEFINE sealed == Stored(0, <<Fragment(NewMB)>>)
  <1> DEFINE places == {((n \div block_size) + 1) * block_size + (n % block_size) + 1 :
                          n \in 0 .. InodeBlocks - 1}
  <1> DEFINE t == [k \in DOMAIN sealed.data |->
                     IF k \in places THEN <<0>> ELSE sealed.data[k]]
  <1>1. /\ IsImage(sealed) /\ Len(sealed.data) = Len(file.data)
        /\ sealed # file => disk_img # "closed"
    BY StoredImage DEF SizeInv
  <1>2. UNCHANGED <<disk_img, disk_img_size, block_size>>
    BY DEF Format
  <1>3. file' = sealed \/ (file' = [sealed EXCEPT !.data = t] /\ Streams)
    BY DEF Format
  <1>4. DOMAIN t = DOMAIN sealed.data /\ t = [k \in DOMAIN t |-> t[k]]
    OBVIOUS
  <1>5. /\ IsImage(file') /\ Len(file'.data) = Len(file.data)
        /\ file' # file => disk_img # "closed"
    <2>1. CASE file' = sealed
      BY <1>1, <2>1
    <2>2. CASE file' = [sealed EXCEPT !.data = t] /\ Streams
      <3> HIDE DEF t, sealed
      <3>1. disk_img # "closed"
        BY <2>2 DEF Streams
      <3> QED
        BY <1>1, <1>4, <2>2, <3>1, Overwritten
    <2> QED
      BY <1>3, <2>1, <2>2
  <1> QED
    BY <1>2, <1>5 DEF SizeInv, IsImage

(* A transfer, and only one that writes, changes the image in place.       *)
LEMMA TransferImage ==
  ASSUME SizeInv, NEW op \in {"read", "write"}, NEW kind, NEW n, NEW at, NEW data, NEW b,
         Transfer(op, kind, n, at, data, b)
  PROVE  /\ SizeInv'
         /\ file' # file => call'.op = "write" /\ Len(file'.data) = Len(file.data)
  <1> DEFINE c == [op |-> op, kind |-> kind, n |-> n, at |-> at, data |-> data,
                   how |-> "ok"]
  <1>1. UNCHANGED <<disk_img_size, block_size>>
    BY TransferKeeps
  <1>2. disk_img = "closed" => disk_img' = "closed"
    BY ClosedStays
    DEF Transfer, BlockRead, BlockWrite, Refuses, Nothing, Fails, diskVars,
        StreamAfterBlock
  <1>3. \/ UNCHANGED file
        \/ /\ op = "write" /\ Mounted /\ \E m : file' = Stored(m, rwbuffer')
           /\ \E d, how : call' = [op |-> op, kind |-> kind, n |-> n, at |-> at,
                                   data |-> d, how |-> how]
    BY DEF Transfer, BlockRead, BlockWrite, Refuses, Nothing, Fails, Threw, diskVars
  <1>4. CASE UNCHANGED file
    BY <1>1, <1>2, <1>4, SameSize
  <1>5. CASE op = "write" /\ Mounted /\ \E m : file' = Stored(m, rwbuffer')
    <2>1. /\ IsImage(file') /\ Len(file'.data) = Len(file.data)
      BY <1>5, StoredImage DEF SizeInv
    <2>2. disk_img # "closed"
      BY <1>5 DEF Mounted
    <2>3. file' # file => call'.op = "write"
      BY <1>3
    <2> QED
      BY <1>1, <1>2, <2>1, <2>2, <2>3 DEF SizeInv, IsImage
  <1> QED
    BY <1>3, <1>4, <1>5

ImageStep ==
  fs.live /\ fs'.live /\ disk_img # "closed" /\ file' # file =>
    /\ call'.op \in {"write", "format"}
    /\ Len(file'.data) = Len(file.data)

LEMMA NextSize ==
  MountInv /\ SizeInv /\ [Next /\ Careful]_vars => SizeInv' /\ [ImageStep]_vars
  <1> SUFFICES ASSUME MountInv, SizeInv, [Next /\ Careful]_vars
               PROVE  SizeInv' /\ ImageStep
    OBVIOUS
  <1>1. CASE (\E b \in BlockSizes : MakeDisk(b)) \/ DropDisk
    <2>1. file' = file
      BY <1>1 DEF MakeDisk, NewDisk, DropDisk, DeleteDisk
    <2> QED
      BY <1>1, <2>1, DiskSize DEF ImageStep
  <1>2. CASE \E f \in {file} \cup InitialFiles : Open(f)
    <2>1. fs.live => file' = file
      BY <1>2, LiveCount
      DEF Open, OpenImage, OpenRefused, CanOpen, diskVars, MountInv, CountsTyped
    <2> QED
      BY <1>2, <2>1, OpenSize DEF ImageStep
  <1>3. CASE \E image \in NewImages : Create(image[1], image[2])
    <2>1. CASE Careful
      <3>1. call'.op = "create"
        BY <1>3 DEF Create, Ends, Idle
      <3>2. disk_img = "closed"
        BY <2>1, <3>1 DEF Careful
      <3> QED
        BY <1>3, <3>2, VolumeAssumption, CreateSize DEF ImageStep
    <2>2. CASE UNCHANGED vars
      BY <2>2, SameSize DEF vars, diskVars, ImageStep
    <2> QED
      BY <2>1, <2>2
  <1>4. CASE \E n \in RawBlocks : RawRead(n)
    BY <1>4, SameSize, ClosedStays DEF RawRead, ImageStep
  <1>5. CASE Construct \/ Destroy \/ Unmount
    BY <1>5, SameSize DEF Construct, Destroy, Unmount, ImageStep
  <1>6. CASE MountNoSuperBlock \/ MountNoInodes \/ MountScan
    <2>1. file' = file
      BY <1>6 DEF MountNoSuperBlock, MountNoInodes, MountScan
    <2> QED
      BY <1>6, <2>1, MountSize DEF ImageStep
  <1>7. CASE Format
    <2>1. call'.op = "format"
      BY <1>7 DEF Format, Ends, Idle
    <2> QED
      BY <1>7, <2>1, FormatImage DEF ImageStep
  <1>8. CASE \E op \in {"read", "write"}, n \in Numbers :
                \/ \E v \in Values : TransferInode(op, n, v)
                \/ \E at \in Offsets, data \in Data : TransferData(op, n, at, data)
    <2>1. ASSUME NEW op \in {"read", "write"}, NEW n, NEW v, TransferInode(op, n, v)
          PROVE  SizeInv' /\ ImageStep
      BY <2>1, TransferImage DEF TransferInode, ImageStep
    <2>2. ASSUME NEW op \in {"read", "write"}, NEW n, NEW at, NEW data,
                 TransferData(op, n, at, data)
          PROVE  SizeInv' /\ ImageStep
      BY <2>2, TransferImage DEF TransferData, ImageStep
    <2> QED
      BY <1>8, <2>1, <2>2
  <1>9. CASE UNCHANGED vars
    BY <1>9, SameSize DEF vars, diskVars, ImageStep
  <1> QED
    BY <1>1, <1>2, <1>3, <1>4, <1>5, <1>6, <1>7, <1>8, <1>9 DEF Next

(* No image that is open is exchanged or resized under a FileSystem: with  *)
(* its Block the Disk is mounted, and a mounted Disk refuses to open       *)
(* another image; an image is not created over an open one (Careful).      *)
THEOREM ImageIsKept == Spec => ImageKept
  <1>1. MountInv /\ SizeInv /\ [Next /\ Careful]_vars => (MountInv /\ SizeInv)'
    BY NextMounts, NextSize
  <1>2. Init => MountInv /\ SizeInv
    BY InitMounts, InitSize
  <1> QED
    BY <1>1, <1>2, NextSize, PTL DEF Spec, ImageKept, ImageStep

-----------------------------------------------------------------------------
LEMMA ShareOf ==
  ASSUME NEW a \in Nat, NEW s \in Nat \ {0}
  PROVE  a \div s \in 0 .. a
  OBVIOUS

LEMMA FormatDivides ==
  ASSUME block_size \in Nat \ {0}, GetDiskSize \in Nat \ {0}
  PROVE  Divided(NewMB)
  <1>1. RealSize \in Nat /\ GetDiskSize = 1 + RealSize
    BY DEF RealSize
  <1>2. InodeBlocks \in 0 .. RealSize
    <2> HIDE DEF RealSize
    <2> QED
      BY <1>1, VolumeAssumption, ShareOf DEF InodeBlocks, Quotient
  <1>3. /\ NewMB.block_size = block_size /\ NewMB.n_blocks = GetDiskSize
        /\ NewMB.n_inode_blocks = InodeBlocks
        /\ NewMB.n_data_blocks = RealSize - InodeBlocks
    BY DEF NewMB
  <1> QED
    BY <1>1, <1>2, <1>3 DEF Divided

LEMMA InSameBlock ==
  ASSUME NEW a \in Nat, NEW c \in Nat, NEW b \in Nat \ {0},
         a \div b = c \div b, a % b = c % b
  PROVE  a = c
  BY Z3

(* On a disk that is divided so, whatever its size, the address functions  *)
(* of Block stay on the disk, off the super block, and give no two inodes  *)
(* or data blocks the same place.                                          *)
THEOREM AddressesApart ==
  ASSUME Divided(MB),
         NEW n \in Int, NEW m \in Int, HasInodeN(n), HasInodeN(m),
         NEW d \in Int, NEW e \in Int, HasDataN(d), HasDataN(e)
  PROVE  /\ HasBlockN(InodeBlockN(n)) /\ HasBlockN(DataBlockN(d))
         /\ InodeBlockN(n) > 0 /\ InodeBlockN(n) < DataBlockN(d)
         /\ n # m => \/ InodeBlockN(n) # InodeBlockN(m)
                     \/ n % NInodesInBlock # m % NInodesInBlock
         /\ d # e => DataBlockN(d) # DataBlockN(e)
  <1>1. /\ n \in Nat /\ m \in Nat /\ n < MB.n_inode_blocks
        /\ MB.block_size \in Nat \ {0}
    BY DEF Divided, HasInodeN
  <1>2. n \div MB.block_size \in 0 .. n /\ m \div MB.block_size \in 0 .. m
    BY <1>1, ShareOf
  <1>3. /\ HasBlockN(InodeBlockN(n)) /\ HasBlockN(DataBlockN(d))
        /\ InodeBlockN(n) > 0 /\ InodeBlockN(n) < DataBlockN(d)
    BY <1>1, <1>2
    DEF Divided, HasDataN, HasBlockN, InodeBlockN, DataBlockN, NInodesInBlock
  <1>4. ASSUME n # m, InodeBlockN(n) = InodeBlockN(m)
        PROVE  n % NInodesInBlock # m % NInodesInBlock
    <2>1. n \div MB.block_size = m \div MB.block_size
      BY <1>2, <1>4 DEF InodeBlockN, NInodesInBlock
    <2> QED
      BY <1>1, <1>4, <2>1, InSameBlock DEF NInodesInBlock
  <1>5. d # e => DataBlockN(d) # DataBlockN(e)
    BY DEF Divided, DataBlockN
  <1> QED
    BY <1>3, <1>4, <1>5

-----------------------------------------------------------------------------
(* An offset below Int32 is not wrapped around.                            *)
LEMMA SmallModulus ==
  ASSUME NEW a \in Nat, NEW m \in Nat, a < m
  PROVE  a % m = a
  BY Z3

LEMMA WrapSmall ==
  ASSUME NEW x \in -Int32 .. Int32 - 1
  PROVE  Wrap(x) = x
  <1>1. PICK w \in Nat \ {0} : w = Int32
    BY DiskAssumption
  <1>2. x + w \in Nat /\ 2 * w \in Nat /\ x + w < 2 * w
    BY <1>1
  <1>3. (x + w) % (2 * w) = x + w
    BY <1>2, SmallModulus
  <1> QED
    BY <1>1, <1>3 DEF Wrap

LEMMA WrapBounds ==
  ASSUME NEW x \in Int
  PROVE  Wrap(x) \in -Int32 .. Int32 - 1
  <1>1. PICK w \in Nat \ {0} : w = Int32
    BY DiskAssumption
  <1>2. PICK a \in Int : a = x + w
    BY <1>1
  <1>3. PICK m \in Nat \ {0} : m = 2 * w
    BY <1>1
  <1>4. a % m \in 0 .. m - 1
    BY <1>3
  <1> QED
    BY <1>1, <1>2, <1>3, <1>4 DEF Wrap

(* The size that open finds is the length of the image, if an int32_t      *)
(* holds it.                                                               *)
LEMMA SizeIsLength ==
  ASSUME SizeInv, Len(file.data) \in Nat, Len(file.data) < Int32, disk_img # "closed"
  PROVE  disk_img_size = Len(file.data)
  <1>1. Len(file.data) \in -Int32 .. Int32 - 1
    BY DiskAssumption
  <1> QED
    BY <1>1, WrapSmall DEF SizeInv

LEMMA DivMod ==
  ASSUME NEW a \in Nat, NEW m \in Nat \ {0}
  PROVE  \E q \in Nat, p \in 0 .. m - 1 :
           q = a \div m /\ p = a % m /\ a = q * m + p
  BY Z3

(* Block b of n blocks lies before the end of the n blocks.                *)
LEMMA BlockEnds ==
  ASSUME NEW n \in Nat, NEW b \in 0 .. n - 1, NEW size \in Nat
  PROVE  /\ b * size \in Nat /\ n * size \in Nat
         /\ b * size + size <= n * size
  <1>1. PICK d \in Nat : n = b + 1 + d
    <2>1. n - b - 1 \in Nat /\ n = b + 1 + (n - b - 1)
      OBVIOUS
    <2> QED
      BY <2>1
  <1>2. d * size \in Nat /\ b * size \in Nat
    BY <1>1
  <1>3. n * size = b * size + size + d * size
    BY <1>1
  <1> QED
    BY <1>2, <1>3

(* A block of an image that is cut off at the end of some block is all     *)
(* there, or not at all.                                                   *)
LEMMA CutBetween ==
  ASSUME NEW len \in Nat, NEW size \in Nat \ {0}, len % size = 0, NEW b \in Nat
  PROVE  b * size + size <= len \/ len <= b * size
  <1>1. PICK q \in Nat, p \in 0 .. size - 1 :
          q = len \div size /\ p = len % size /\ len = q * size + p
    BY DivMod
  <1>2. CASE b < q
    <2>1. q \in Nat /\ b \in 0 .. q - 1
      BY <1>2
    <2> QED
      BY <1>1, <2>1, BlockEnds
  <1>3. CASE q <= b
    <2>1. PICK d \in Nat : b = q + d
      <3>1. b - q \in Nat /\ b = q + (b - q)
        BY <1>3
      <3> QED
        BY <3>1
    <2>2. b * size = q * size + d * size /\ d * size \in Nat /\ q * size \in Nat
      BY <2>1
    <2> QED
      BY <1>1, <2>2
  <1> QED
    BY <1>2, <1>3

-----------------------------------------------------------------------------
(* The image and its stream: what VolumeTypeOK says of them, that only a   *)
(* whole image is opened, and that a seal vouches for the blocks.          *)
Streamed == {"closed", "good", "failed", "refused"}

ImageInv ==
  /\ file \in [kind : Kinds, data : Seq(Seq(Int))]
  /\ disk_img \in Streamed /\ (disk_img = "good" => file.kind = "whole")
  /\ disk_img_size \in -Int32 .. Int32 - 1 /\ block_size \in Nat
  /\ SoundImage(file)

LEMMA SuperBlockTyped ==
  ASSUME NEW f \in Seq(Int)
  PROVE  /\ SuperBlock(f) \in [sealed : BOOLEAN, block_size : Int, n_blocks : Int,
                               n_inode_blocks : Int, n_data_blocks : Int]
         /\ SuperBlock(f).sealed <=> Len(f) = 4
  <1>1. CASE Len(f) = 4
    <2>1. \A k \in 1 .. Len(f) : f[k] \in Int
      OBVIOUS
    <2>2. f[1] \in Int /\ f[2] \in Int /\ f[3] \in Int /\ f[4] \in Int
      BY <1>1, <2>1
    <2> QED
      BY <1>1, <2>2 DEF SuperBlock
  <1>2. CASE Len(f) # 4
    BY <1>2 DEF SuperBlock
  <1> QED
    BY <1>1, <1>2

(* What a read of block b of the file system brings: all of the block, or  *)
(* nothing at all.                                                         *)
LEMMA BlockOnDisk ==
  ASSUME ImageInv, disk_img_size = Len(file.data), Len(file.data) < Int32,
         disk_img = "good", Formatted, Geometry.n_blocks > 0, Geometry.block_size = block_size,
         NEW b \in 0 .. Geometry.n_blocks - 1
  PROVE  /\ b * block_size \in Nat /\ Offset(b) = b * block_size
         /\ \/ /\ b * block_size + block_size <= Len(file.data)
               /\ Fits(b, block_size) /\ Cut(b, block_size) = block_size
            \/ /\ Len(file.data) <= b * block_size
               /\ Cut(b, block_size) = Len(file.data) - b * block_size
  <1>1. PICK w \in Nat \ {0} : w = Int32
    BY DiskAssumption
  <1>2. /\ Len(file.data) \in Nat /\ Len(file.data) < Int32
        /\ file.data # <<>> /\ file.data[1] \in Seq(Int)
    BY DEF ImageInv, Formatted
  <1>3. Geometry.sealed
    BY <1>2, SuperBlockTyped DEF Formatted, Geometry
  <1>4. /\ Divided(Geometry) /\ Geometry.n_blocks * Geometry.block_size < Int32
        /\ \/ Geometry.n_blocks * Geometry.block_size <= Len(file.data)
           \/ Len(file.data) % Geometry.block_size = 0
    BY <1>3 DEF ImageInv, SoundImage, Formatted, Geometry
  <1>5. PICK n \in Nat \ {0}, size \in Nat \ {0} :
          n = Geometry.n_blocks /\ size = block_size
    BY <1>4 DEF Divided
  <1>6. PICK at \in Nat : at = b * size /\ at + size <= n * size /\ n * size \in Nat
    BY <1>5, BlockEnds
  <1>7. at + size < w /\ at < w
    BY <1>1, <1>4, <1>5, <1>6
  <1>8. PICK len \in Nat : len = Len(file.data) /\ len < w
    BY <1>1, <1>2
  <1>9. at + size <= len \/ len <= at
    <2>1. CASE n * size <= len
      BY <1>6, <2>1
    <2>2. CASE len % size = 0
      <3>1. b \in Nat
        OBVIOUS
      <3> QED
        BY <1>6, <1>8, <2>2, <3>1, CutBetween
    <2> QED
      BY <1>4, <1>5, <1>8, <2>1, <2>2
  <1>10. Offset(b) = at
    BY <1>1, <1>5, <1>6, <1>7, WrapSmall DEF Offset
  <1>11. Wrap(at + size) = at + size /\ Wrap(len - (at + size)) = len - (at + size)
    <2>1. at + size \in -Int32 .. Int32 - 1 /\ len - (at + size) \in -Int32 .. Int32 - 1
      BY <1>1, <1>7, <1>8
    <2> QED
      BY <2>1, WrapSmall
  <1>12. Cut(b, size) = size + Least(0, len - (at + size))
    BY <1>8, <1>10, <1>11 DEF Cut
  <1>13. CASE at + size <= len
    <2>1. Cut(b, size) = size
      BY <1>12, <1>13 DEF Least
    <2> QED
      BY <1>5, <1>6, <1>8, <1>10, <1>13, <2>1 DEF Fits
  <1>14. CASE len <= at
    <2>1. Cut(b, size) = len - at
      BY <1>5, <1>12, <1>14 DEF Least
    <2> QED
      BY <1>5, <1>6, <1>8, <1>10, <1>14, <2>1
  <1> QED
    BY <1>9, <1>13, <1>14

(* The cache: what it names is what it holds, and a file system that is    *)
(* ready has read a block with its mount.  What it believes of the image   *)
(* is what the image says, so that its blocks lie where they did.  An      *)
(* int32_t holds the length of an image that it has mounted (Careful).     *)
Ready ==
  /\ fs.live /\ disk_img # "closed" /\ Len(file.data) < Int32
  /\ Formatted /\ MB = Geometry /\ MB.n_blocks > 0 /\ MB.block_size = block_size
  /\ casched_block \in Nat /\ Len(rwbuffer) = MB.block_size
  /\ \A k \in 1 .. MB.block_size :
       /\ casched_block * MB.block_size + k \in 1 .. Len(file.data)
       /\ file.data[casched_block * MB.block_size + k] = rwbuffer[k]

CacheInv ==
  /\ casched_block \in Nat \cup {NoBlock} /\ rwbuffer \in Seq(Seq(Int))
  /\ fs.ready => Ready

VolumeInv == MountInv /\ SizeInv /\ ImageInv /\ CacheInv

LEMMA CacheIsCoherent == VolumeInv => CacheCoherent
  <1> SUFFICES ASSUME VolumeInv, fs.ready
               PROVE  /\ Len(rwbuffer) = MB.block_size
                      /\ \A k \in DOMAIN rwbuffer :
                           LET at == casched_block * MB.block_size + k
                           IN  at \in DOMAIN file.data /\ file.data[at] = rwbuffer[k]
    BY DEF CacheCoherent
  <1>1. /\ DOMAIN rwbuffer = 1 .. Len(rwbuffer)
        /\ DOMAIN file.data = 1 .. Len(file.data)
    BY DEF VolumeInv, CacheInv, ImageInv
  <1> QED
    BY <1>1 DEF VolumeInv, CacheInv, Ready

LEMMA SuperBlockIsKept == VolumeInv => SuperBlockKept
  BY DEF VolumeInv, ImageInv, CacheInv, Ready, SuperBlockKept, NoBlock

LEMMA IsVolumeTypeOK == VolumeInv => VolumeTypeOK
  BY DEF VolumeInv, MountInv, CountsTyped, ImageInv, CacheInv, VolumeTypeOK,
         Kinds, Streamed

LEMMA InitVolume == Init => VolumeInv
  <1> SUFFICES ASSUME Init PROVE VolumeInv
    OBVIOUS
  <1>1. ImageInv
    <2>1. /\ file \in InitialFiles /\ disk_img = "closed"
          /\ disk_img_size = 0 /\ block_size = 0
      BY DEF Init
    <2> QED
      BY <2>1, VolumeAssumption, ImageAssumption, DiskAssumption
      DEF ImageInv, Kinds, Streamed
  <1>2. CacheInv
    BY DEF Init, CacheInv, NoFs
  <1> QED
    BY <1>1, <1>2, InitMounts, InitSize DEF VolumeInv

(* A function on the first n numbers is a sequence.                        *)
LEMMA SeqOf ==
  ASSUME NEW S, NEW n \in Nat, NEW t, t = [k \in 1 .. n |-> t[k]],
         \A k \in 1 .. n : t[k] \in S
  PROVE  t \in Seq(S) /\ Len(t) = n
  <1>1. t \in [1 .. n -> S]
    OBVIOUS
  <1> QED
    BY <1>1

(* A part of a sequence.                                                   *)
LEMMA Part ==
  ASSUME NEW S, NEW s \in Seq(S), NEW a \in Nat, NEW n \in Nat \ {0}, a + n <= Len(s)
  PROVE  /\ Len(SubSeq(s, a + 1, a + n)) = n
         /\ SubSeq(s, a + 1, a + n) = [k \in 1 .. n |-> s[a + k]]
         /\ \A k \in 1 .. n : s[a + k] \in S
  <1>1. PICK len \in Nat : len = Len(s) /\ DOMAIN s = 1 .. len
    OBVIOUS
  <1>2. \A k \in 1 .. n : a + k \in 1 .. len
    BY <1>1
  <1>3. \A k \in 1 .. n : s[a + k] \in S
    BY <1>1, <1>2
  <1>4. (a + n) - (a + 1) + 1 = n /\ \A k \in 1 .. n : a + 1 + k - 1 = a + k
    OBVIOUS
  <1>5. SubSeq(s, a + 1, a + n) = [k \in 1 .. ((a + n) - (a + 1) + 1) |-> s[a + 1 + k - 1]]
    BY <1>1, <1>3
  <1>6. SubSeq(s, a + 1, a + n) = [k \in 1 .. n |-> s[a + k]]
    BY <1>4, <1>5
  <1>7. [k \in 1 .. n |-> s[a + k]] \in [1 .. n -> S]
    BY <1>3
  <1>8. Len([k \in 1 .. n |-> s[a + k]]) = n
    BY <1>7
  <1> QED
    BY <1>3, <1>6, <1>8

(* What is known of a file system that is ready and about to transfer.     *)
LEMMA Geometric ==
  ASSUME VolumeInv, fs.ready
  PROVE  /\ Ready /\ Divided(MB) /\ MB.n_blocks > 0 /\ MB.block_size = block_size
         /\ MB.block_size \in Nat \ {0} /\ MB.n_blocks \in Nat
         /\ MB.n_inode_blocks \in Nat /\ MB.n_data_blocks \in Nat
         /\ disk_img_size = Len(file.data) /\ mounted \in Nat \ {0}
         /\ Len(file.data) < Int32
  <1>1. Ready
    BY DEF VolumeInv, CacheInv
  <1>2. disk_img_size = Len(file.data) /\ Len(file.data) < Int32
    <2>1. Len(file.data) \in Nat
      BY DEF VolumeInv, ImageInv
    <2> QED
      BY <1>1, <2>1, SizeIsLength DEF VolumeInv, Ready
  <1>3. mounted \in Nat \ {0}
    BY <1>1, LiveCount DEF VolumeInv, MountInv, CountsTyped, Ready
  <1>4. file.data # <<>> /\ file.data[1] \in Seq(Int) /\ Len(file.data[1]) = 4
    BY <1>1 DEF VolumeInv, ImageInv, Ready, Formatted
  <1>5. Geometry.sealed
    BY <1>4, SuperBlockTyped DEF Geometry
  <1>6. Divided(MB)
    BY <1>1, <1>5 DEF VolumeInv, ImageInv, SoundImage, Ready, Formatted, Geometry
  <1> QED
    BY <1>1, <1>2, <1>3, <1>6 DEF Divided, Ready

LEMMA ReadBlock ==
  ASSUME VolumeInv, fs.ready, disk_img = "good", NEW b \in 0 .. MB.n_blocks - 1
  PROVE  /\ BufferWith(b) \in Seq(Seq(Int)) /\ Len(BufferWith(b)) = MB.block_size
         /\ StreamAfterBlock(b) \in {"good", "failed"}
         /\ ReadsBlock(b) =>
              /\ b * block_size \in Nat /\ Offset(b) = b * block_size
              /\ b * block_size + MB.block_size <= Len(file.data)
              /\ Fits(b, MB.block_size) /\ Count(b, MB.block_size) = MB.block_size
              /\ StreamAfterBlock(b) = "good"
              /\ \A k \in 1 .. MB.block_size :
                   BufferWith(b)[k] = file.data[b * block_size + k]
         /\ ~ReadsBlock(b) => BufferWith(b) = rwbuffer
  <1>1. /\ Ready /\ MB.block_size = block_size /\ MB.block_size \in Nat \ {0}
        /\ disk_img_size = Len(file.data) /\ mounted \in Nat \ {0}
        /\ Len(file.data) < Int32
    BY Geometric
  <1>2. PICK size \in Nat \ {0} : size = MB.block_size /\ size = block_size
    BY <1>1
  <1>3. /\ rwbuffer \in Seq(Seq(Int)) /\ Len(rwbuffer) = size
        /\ DOMAIN rwbuffer = 1 .. size /\ rwbuffer = [k \in 1 .. size |-> rwbuffer[k]]
    BY <1>1, <1>2 DEF VolumeInv, CacheInv, Ready
  <1>4. PICK len \in Nat : len = Len(file.data)
    BY DEF VolumeInv, ImageInv
  <1>5. file.data \in Seq(Seq(Int))
    BY DEF VolumeInv, ImageInv
  <1>6. Mounted /\ Streams
    BY <1>1 DEF Mounted, Streams
  <1>7. PICK at \in Nat :
          /\ at = b * size /\ Offset(b) = at
          /\ \/ at + size <= len /\ Fits(b, size) /\ Cut(b, size) = size
             \/ len <= at /\ Cut(b, size) = len - at
    <2>1. /\ Formatted /\ Geometry.n_blocks > 0 /\ Geometry.block_size = block_size
          /\ b \in 0 .. Geometry.n_blocks - 1
      BY <1>1 DEF Ready
    <2> QED
      BY <1>1, <1>2, <1>4, <2>1, BlockOnDisk DEF VolumeInv
  <1>8. CASE Hit(b)
    <2>1. BufferWith(b) = rwbuffer
      BY <1>2, <1>3, <1>8 DEF BufferWith
    <2>2. StreamAfterBlock(b) = "good" /\ ReadsBlock(b)
      BY <1>8 DEF StreamAfterBlock, ReadsBlock
    <2>3. \A k \in 1 .. size : at + k \in 1 .. len /\ file.data[at + k] = rwbuffer[k]
      BY <1>1, <1>2, <1>4, <1>7, <1>8 DEF Ready, Hit
    <2>4. at + size <= len
      <3>1. at + size \in 1 .. len
        BY <1>2, <2>3
      <3> QED
        BY <3>1
    <2>5. Fits(b, size) /\ Cut(b, size) = size
      BY <1>2, <1>7, <2>4
    <2>6. Count(b, size) = size
      BY <1>6, <2>5 DEF Count
    <2> QED
      BY <1>2, <1>3, <1>4, <1>7, <2>1, <2>2, <2>3, <2>4, <2>5, <2>6
  <1>9. CASE ~Hit(b) /\ at + size <= len /\ Fits(b, size) /\ Cut(b, size) = size
    <2>1. Count(b, size) = size
      BY <1>6, <1>9 DEF Count
    <2>2. StreamAfterBlock(b) = "good" /\ ReadsBlock(b)
      BY <1>2, <1>9, <2>1 DEF StreamAfterBlock, StreamAfter, ReadsBlock
    <2>3. Fetched(b, size) = SubSeq(file.data, at + 1, at + size)
      BY <1>6, <1>7, <1>9 DEF Fetched
    <2>4. /\ Len(Fetched(b, size)) = size
          /\ Fetched(b, size) = [k \in 1 .. size |-> file.data[at + k]]
          /\ \A k \in 1 .. size : file.data[at + k] \in Seq(Int)
      BY <1>4, <1>5, <1>9, <2>3, Part
    <2>5. /\ BufferWith(b) = [k \in 1 .. size |-> Fetched(b, size)[k]]
      BY <1>2, <1>3, <1>6, <1>9, <2>4 DEF BufferWith
    <2>6. BufferWith(b) = [k \in 1 .. size |-> file.data[at + k]]
      BY <2>4, <2>5
    <2>7. \A k \in 1 .. size : BufferWith(b)[k] = file.data[at + k]
      BY <2>6
    <2>8. BufferWith(b) \in Seq(Seq(Int)) /\ Len(BufferWith(b)) = size
      <3>1. BufferWith(b) = [k \in 1 .. size |-> BufferWith(b)[k]]
        BY <2>6
      <3>2. \A k \in 1 .. size : BufferWith(b)[k] \in Seq(Int)
        BY <2>4, <2>7
      <3> QED
        BY <3>1, <3>2, SeqOf
    <2> QED
      BY <1>2, <1>4, <1>7, <1>9, <2>1, <2>2, <2>7, <2>8
  <1>10. CASE ~Hit(b) /\ len <= at /\ Cut(b, size) = len - at
    <2>1. Count(b, size) # size
      BY <1>2, <1>6, <1>10 DEF Count
    <2>2. ~ReadsBlock(b) /\ StreamAfterBlock(b) \in {"good", "failed"}
      BY <1>2, <1>10, <2>1 DEF StreamAfterBlock, StreamAfter, ReadsBlock
    <2>3. Fetched(b, size) = <<>>
      <3>1. CASE Fits(b, size)
        <4>1. at = len /\ Cut(b, size) = 0
          BY <1>10, <3>1 DEF Fits
        <4> QED
          BY <1>4, <1>5, <1>6, <1>7, <3>1, <4>1 DEF Fetched
      <3>2. CASE ~Fits(b, size)
        BY <3>2 DEF Fetched
      <3> QED
        BY <3>1, <3>2
    <2>4. BufferWith(b) = rwbuffer
      BY <1>2, <1>3, <2>3 DEF BufferWith
    <2> QED
      BY <1>2, <1>3, <2>2, <2>4
  <1> QED
    BY <1>7, <1>8, <1>9, <1>10

(* The inodes m of which the block is on a disk of len fragments.          *)
LEMMA FullUpTo ==
  ASSUME NEW len \in Nat, NEW size \in Nat \ {0}, NEW m \in Nat
  PROVE  ((m \div size) + 1) * size + size <= len <=> m < (len \div size - 1) * size
  <1>1. PICK q \in Nat, p \in 0 .. size - 1 : q = len \div size /\ len = q * size + p
    BY DivMod
  <1>2. PICK r \in Nat, t \in 0 .. size - 1 : r = m \div size /\ m = r * size + t
    BY DivMod
  <1>3. CASE r + 2 <= q
    <2>1. PICK d \in Nat : q = r + 2 + d
      <3>1. q - r - 2 \in Nat /\ q = r + 2 + (q - r - 2)
        BY <1>3
      <3> QED
        BY <3>1
    <2>2. PICK x \in Nat, y \in Nat : x = r * size /\ y = d * size
      <3>1. r * size \in Nat /\ d * size \in Nat
        OBVIOUS
      <3> QED
        BY <3>1
    <2>3. /\ q * size = x + size + size + y /\ (q - 1) * size = x + size + y
          /\ (r + 1) * size = x + size
      BY <2>1, <2>2
    <2> QED
      BY <1>1, <1>2, <2>2, <2>3
  <1>4. CASE q < r + 2
    <2>1. PICK d \in Nat : r + 1 = q + d
      <3>1. r + 1 - q \in Nat /\ r + 1 = q + (r + 1 - q)
        BY <1>4
      <3> QED
        BY <3>1
    <2>2. PICK x \in Nat, y \in Nat, z \in Nat :
            x = r * size /\ y = d * size /\ z = q * size
      <3>1. r * size \in Nat /\ d * size \in Nat /\ q * size \in Nat
        OBVIOUS
      <3> QED
        BY <3>1
    <2>3. /\ (r + 1) * size = x + size /\ (q - 1) * size = z - size
          /\ (r + 1) * size = z + y
      BY <2>1, <2>2
    <2> QED
      BY <1>1, <1>2, <2>2, <2>3
  <1> QED
    BY <1>3, <1>4

(* What a mount finds that gets as far as to scan the blocks.              *)
LEMMA SealedImage ==
  ASSUME VolumeInv, fs.live, SuperBlockSound, disk_img = "good",
         Len(file.data) < Int32
  PROVE  /\ Formatted /\ Seen = Geometry /\ Divided(Geometry)
         /\ disk_img_size = Len(file.data)
  <1>1. Seen = Geometry
    BY DEF Seen, Streams, Geometry
  <1>2. disk_img_size = Len(file.data) /\ file.kind = "whole"
    <2>1. Len(file.data) \in Nat /\ file.kind = "whole"
      BY DEF VolumeInv, ImageInv
    <2> QED
      BY <2>1, SizeIsLength DEF VolumeInv
  <1>3. file.data # <<>>
    <2> SUFFICES ASSUME Len(file.data) = 0
                 PROVE  FALSE
      BY DEF VolumeInv, ImageInv
    <2>1. PICK w \in Nat \ {0} : w = Int32
      BY DiskAssumption
    <2>2. Wrap(0) = 0 /\ 0 * block_size = 0
      BY <2>1, WrapSmall DEF VolumeInv, ImageInv
    <2>3. Wrap(0 - Wrap(0 + 1)) < 0
      <3>1. CASE w = 1
        BY <2>1, <3>1 DEF Wrap
      <3>2. CASE w # 1
        <4>1. Wrap(1) = 1 /\ Wrap(-1) = -1
          BY <2>1, <3>2, WrapSmall
        <4> QED
          BY <4>1
      <3> QED
        BY <3>1, <3>2
    <2>4. Wrap(0 - Wrap(0 + 1)) \in Int
      <3>1. Wrap(1) \in Int
        BY WrapBounds, <2>1
      <3> QED
        BY <3>1, WrapBounds, <2>1
    <2>5. Cut(0, 1) < 1
      BY <1>2, <2>2, <2>3, <2>4 DEF Cut, Offset, Least
    <2> QED
      BY <2>5 DEF SuperBlockSound, SuperBlockRead
  <1>4. file.data[1] \in Seq(Int)
    BY <1>3 DEF VolumeInv, ImageInv
  <1>5. Geometry.sealed /\ Geometry.n_blocks > 0
    BY <1>1 DEF SuperBlockSound
  <1>6. Len(file.data[1]) = 4
    BY <1>4, <1>5, SuperBlockTyped DEF Geometry
  <1> QED
    BY <1>1, <1>2, <1>3, <1>5, <1>6
    DEF Formatted, VolumeInv, ImageInv, SoundImage, Geometry

(* The block of each inode is on the disk by the super block; whether it   *)
(* is there is found out when it is read.                                  *)
LEMMA ScanBlocks ==
  ASSUME VolumeInv, fs.live, SuperBlockSound, disk_img = "good",
         Len(file.data) < Int32, Seen.block_size = block_size, NEW n \in InodesSeen
  PROVE  /\ ScanBlock(n) \in Nat /\ ScanBlock(n) = (n \div block_size) + 1
         /\ ScanBlock(n) \in 0 .. Geometry.n_blocks - 1
         /\ Full(n) <=> ScanBlock(n) * block_size + block_size <= Len(file.data)
         /\ Full(n) =>
              /\ Fits(ScanBlock(n), block_size)
              /\ Offset(ScanBlock(n)) = ScanBlock(n) * block_size
              /\ ScanBlock(n) * block_size \in Nat
              /\ Cut(ScanBlock(n), block_size) = block_size
  <1>1. /\ Formatted /\ Seen = Geometry /\ Divided(Geometry)
        /\ disk_img_size = Len(file.data)
    BY SealedImage
  <1>2. PICK size \in Nat \ {0} : size = block_size /\ size = Geometry.block_size
    BY <1>1 DEF Divided
  <1>3. PICK N \in Nat, D \in Nat : /\ N = Geometry.n_inode_blocks
                                    /\ Geometry.n_blocks = 1 + N + D
    BY <1>1 DEF Divided
  <1>4. n \in 0 .. N - 1
    BY <1>1, <1>3 DEF InodesSeen
  <1>5. PICK r \in Nat : r = n \div size /\ r <= n
    BY <1>4, ShareOf
  <1>6. ScanBlock(n) = r + 1
    BY <1>1, <1>2, <1>5 DEF ScanBlock
  <1>7. r + 1 \in 0 .. Geometry.n_blocks - 1
    BY <1>3, <1>4, <1>5
  <1>8. Geometry.n_blocks > 0
    BY <1>3
  <1>9. PICK at \in Nat, len \in Nat :
          /\ at = (r + 1) * size /\ len = Len(file.data)
    <2>1. (r + 1) * size \in Nat
      OBVIOUS
    <2>2. Len(file.data) \in Nat
      BY DEF VolumeInv, ImageInv
    <2> QED
      BY <2>1, <2>2
  <1>10. /\ Offset(r + 1) = at
         /\ \/ at + size <= len /\ Fits(r + 1, size) /\ Cut(r + 1, size) = size
            \/ len <= at /\ Cut(r + 1, size) = len - at
    BY <1>1, <1>2, <1>7, <1>8, <1>9, BlockOnDisk DEF VolumeInv
  <1>11. Full(n) <=> Cut(r + 1, size) = size
    BY <1>1, <1>2, <1>6 DEF Full
  <1>12. /\ ScanBlock(n) = (n \div block_size) + 1 /\ ScanBlock(n) \in Nat
        /\ ScanBlock(n) \in 0 .. Geometry.n_blocks - 1
    BY <1>2, <1>5, <1>6, <1>7
  <1>13. ScanBlock(n) * block_size = at
    BY <1>2, <1>6, <1>9
  <1>14. CASE at + size <= len /\ Fits(r + 1, size) /\ Cut(r + 1, size) = size
    BY <1>2, <1>6, <1>9, <1>10, <1>11, <1>14, <1>12, <1>13
  <1>15. CASE len <= at /\ Cut(r + 1, size) = len - at
    <2>1. Cut(r + 1, size) # size /\ ~(at + size <= len)
      BY <1>2, <1>15
    <2> QED
      BY <1>2, <1>6, <1>9, <1>11, <1>12, <1>13, <2>1
  <1> QED
    BY <1>10, <1>14, <1>15

(* The inodes that are scanned are the first ones, if there are any: one   *)
(* of them is the last.                                                    *)
LEMMA LastScanned ==
  ASSUME VolumeInv, fs.live, SuperBlockSound, disk_img = "good",
         Len(file.data) < Int32, Seen.block_size = block_size, Scanned # {}
  PROVE  \E n \in Scanned : n + 1 \notin Scanned
  <1>1. Formatted /\ Seen = Geometry /\ Divided(Geometry)
    BY SealedImage
  <1>2. PICK size \in Nat \ {0}, N \in Nat :
          size = block_size /\ N = Seen.n_inode_blocks
    BY <1>1 DEF Divided
  <1>3. PICK len \in Nat : len = Len(file.data)
    BY DEF VolumeInv, ImageInv
  <1>4. PICK q \in Nat : q = len \div size
    BY DivMod
  <1>5. PICK c \in Int : c = (q - 1) * size
    OBVIOUS
  <1>6. \A m \in InodesSeen : Full(m) <=> m < c
    <2> SUFFICES ASSUME NEW m \in InodesSeen
                 PROVE  Full(m) <=> m < c
      OBVIOUS
    <2>1. m \in Nat
      BY <1>2 DEF InodesSeen
    <2>2. Full(m) <=> ((m \div size) + 1) * size + size <= len
      BY <1>2, <1>3, ScanBlocks
    <2> QED
      BY <1>4, <1>5, <2>1, <2>2, FullUpTo
  <1>7. PICK k \in Scanned : TRUE
    OBVIOUS
  <1>8. k \in 0 .. N - 1 /\ InodesSeen = 0 .. N - 1
    BY <1>2 DEF Scanned, InodesSeen
  <1>9. 0 < c
    <2>1. Full(0) /\ 0 \in InodesSeen
      BY <1>8 DEF Scanned
    <2> QED
      BY <1>6, <2>1
  <1>10. \A n \in 0 .. N - 1 : n < c => n \in Scanned
    BY <1>6, <1>8 DEF Scanned
  <1>11. \A n \in Scanned : n < c /\ n \in 0 .. N - 1
    BY <1>6, <1>8 DEF Scanned
  <1>12. CASE c <= N
    <2>1. c - 1 \in 0 .. N - 1 /\ c - 1 < c /\ ~((c - 1) + 1 < c)
      BY <1>9, <1>12
    <2> QED
      BY <1>10, <1>11, <2>1
  <1>13. CASE N < c
    <2>1. N - 1 \in 0 .. N - 1 /\ N - 1 < c /\ (N - 1) + 1 \notin 0 .. N - 1
      BY <1>8, <1>13
    <2> QED
      BY <1>10, <1>11, <2>1
  <1> QED
    BY <1>12, <1>13

LEMMA FullFetched ==
  ASSUME VolumeInv, fs.live, SuperBlockSound, disk_img = "good",
         Len(file.data) < Int32, Seen.block_size = block_size, NEW n \in InodesSeen, Full(n)
  PROVE  LET b     == ScanBlock(n)
             words == Fetched(b, Seen.block_size)
         IN  /\ b \in Nat /\ words \in Seq(Seq(Int)) /\ Len(words) = block_size
             /\ words # <<>>
             /\ \A k \in 1 .. block_size : /\ b * block_size + k \in 1 .. Len(file.data)
                                           /\ file.data[b * block_size + k] = words[k]
  <1> DEFINE words == Fetched(ScanBlock(n), Seen.block_size)
  <1>1. Formatted /\ Seen = Geometry /\ Divided(Geometry)
    BY SealedImage
  <1>2. PICK size \in Nat \ {0} : size = block_size
    BY <1>1 DEF Divided
  <1>3. PICK len \in Nat : len = Len(file.data)
    BY DEF VolumeInv, ImageInv
  <1>4. PICK b \in Nat : b = ScanBlock(n)
    BY ScanBlocks
  <1>5. PICK at \in Nat : at = b * size /\ at + size <= len
    BY <1>2, <1>3, <1>4, ScanBlocks
  <1>6. Fits(b, size) /\ Offset(b) = at /\ Cut(b, size) = size
    BY <1>2, <1>4, <1>5, ScanBlocks
  <1>7. words = SubSeq(file.data, at + 1, at + size)
    BY <1>2, <1>4, <1>6 DEF Fetched, Streams
  <1> HIDE DEF words
  <1>8. /\ Len(words) = size /\ words = [k \in 1 .. size |-> file.data[at + k]]
        /\ \A k \in 1 .. size : file.data[at + k] \in Seq(Int)
    <2>1. file.data \in Seq(Seq(Int))
      BY DEF VolumeInv, ImageInv
    <2>2. at + size <= Len(file.data)
      BY <1>3, <1>5
    <2> DEFINE part == SubSeq(file.data, at + 1, at + size)
    <2>3. /\ Len(part) = size /\ part = [k \in 1 .. size |-> file.data[at + k]]
          /\ \A k \in 1 .. size : file.data[at + k] \in Seq(Int)
      BY <2>1, <2>2, Part
    <2> HIDE DEF part
    <2>4. words = part
      BY <1>7 DEF part
    <2> QED
      BY <2>3, <2>4
  <1>9. \A k \in 1 .. size : words[k] = file.data[at + k]
    BY <1>8
  <1>10. words \in Seq(Seq(Int))
    <2>1. words = [k \in 1 .. size |-> words[k]]
      BY <1>8
    <2> QED
      BY <1>8, <1>9, <2>1, SeqOf
  <1>11. words # <<>>
    BY <1>8
  <1>12. \A k \in 1 .. size : at + k \in 1 .. len
    BY <1>5
  <1>13. \A k \in 1 .. block_size : /\ b * block_size + k \in 1 .. Len(file.data)
                                    /\ file.data[b * block_size + k] = words[k]
    <2>1. b * block_size = at
      BY <1>2, <1>5
    <2> QED
      BY <1>2, <1>3, <1>9, <1>12, <2>1
  <1> QED
    BY <1>2, <1>4, <1>8, <1>10, <1>11, <1>13 DEF words

LEMMA ResizedTyped ==
  ASSUME rwbuffer \in Seq(Seq(Int)), NEW size \in Nat
  PROVE  Resized(size) \in Seq(Seq(Int))
  <1>1. \A k \in 1 .. size : Resized(size)[k] \in Seq(Int)
    <2> SUFFICES ASSUME NEW k \in 1 .. size
                 PROVE  Resized(size)[k] \in Seq(Int)
      OBVIOUS
    <2>1. CASE k <= Len(rwbuffer)
      <3>1. k \in 1 .. Len(rwbuffer)
        BY <2>1
      <3> QED
        BY <2>1, <3>1 DEF Resized
    <2>2. CASE ~(k <= Len(rwbuffer))
      <3>1. <<0>> \in Seq(Int)
        OBVIOUS
      <3> QED
        BY <2>2, <3>1 DEF Resized
    <2> QED
      BY <2>1, <2>2
  <1>2. Resized(size) = [k \in 1 .. size |-> Resized(size)[k]]
    BY DEF Resized
  <1> QED
    BY <1>1, <1>2, SeqOf

(* A stream stays what it is, or fails.                                    *)
LEMMA KeepsImage ==
  ASSUME ImageInv, UNCHANGED <<file, disk_img_size, block_size>>,
         disk_img' \in {disk_img, "failed"}
  PROVE  ImageInv'
  BY DEF ImageInv, SoundImage, Streamed

(* Only a scan that gets to its end makes a file system ready; it has the  *)
(* last block of inodes in its cache then.                                 *)
LEMMA ScanVolume ==
  ASSUME VolumeInv, MountScan, Careful
  PROVE  ImageInv' /\ CacheInv'
  <1> DEFINE ok    == Scanned = InodesSeen
  <1> DEFINE last  == IF Scanned = {} THEN NoBlock
                      ELSE ScanBlock(CHOOSE n \in Scanned : n + 1 \notin Scanned)
  <1> DEFINE words == IF last = NoBlock THEN <<>> ELSE Fetched(last, Seen.block_size)
  <1>1. call'.op = "mount"
    BY DEF MountScan, Ends, Idle
  <1>2. /\ fs.live /\ SuperBlockSound /\ disk_img = "good"
        /\ Seen.block_size = block_size /\ Seen.n_inode_blocks > 0
        /\ Len(file.data) < Int32
    BY <1>1 DEF MountScan, Careful, SuperBlockSound, SuperBlockRead
  <1>3. Formatted /\ Seen = Geometry /\ Divided(Geometry)
    BY <1>2, SealedImage
  <1>4. PICK size \in Nat \ {0} : size = block_size
    BY <1>2, <1>3 DEF Divided
  <1>5. /\ MB' = Seen /\ casched_block' = last
        /\ rwbuffer' = (IF words = <<>> THEN Resized(Seen.block_size) ELSE words)
        /\ disk_img' \in {disk_img, "failed"}
        /\ fs' = (IF ok THEN [fs EXCEPT !.ready = TRUE, !.mounts = @ + 1]
                  ELSE [fs EXCEPT !.ready = FALSE])
        /\ UNCHANGED <<file, disk_img_size, block_size>>
    BY DEF MountScan
  <1>6. ImageInv'
    BY <1>5, KeepsImage DEF VolumeInv
  <1>7. \/ last = NoBlock /\ words = <<>> /\ Scanned = {}
        \/ \E n \in Scanned : /\ n + 1 \notin Scanned /\ last = ScanBlock(n)
                              /\ words = Fetched(last, Seen.block_size)
    <2>1. CASE Scanned = {}
      BY <2>1
    <2>2. CASE Scanned # {}
      <3>1. \E n \in Scanned : n + 1 \notin Scanned
        BY <1>2, <2>2, LastScanned
      <3>2. PICK n \in Scanned : /\ n + 1 \notin Scanned
                                 /\ n = CHOOSE m \in Scanned : m + 1 \notin Scanned
        BY <3>1
      <3>3. last = ScanBlock(n)
        BY <2>2, <3>2
      <3>4. ScanBlock(n) \in Nat
        BY <1>2, ScanBlocks DEF Scanned
      <3>5. words = Fetched(last, Seen.block_size)
        BY <3>3, <3>4 DEF NoBlock
      <3> QED
        BY <3>2, <3>3, <3>5
    <2> QED
      BY <2>1, <2>2
  <1> HIDE DEF last, words
  <1>8. Resized(Seen.block_size) \in Seq(Seq(Int))
    BY <1>2, <1>4, ResizedTyped DEF VolumeInv, CacheInv
  <1>9. CASE last = NoBlock /\ words = <<>> /\ Scanned = {}
    <2>1. 0 \in InodesSeen
      BY <1>2, <1>3 DEF InodesSeen, Divided
    <2>2. ~ok
      BY <1>9, <2>1
    <2>3. fs'.ready = FALSE
      BY <1>5, <2>2 DEF VolumeInv, MountInv, CountsTyped
    <2> QED
      BY <1>5, <1>6, <1>8, <1>9, <2>3 DEF CacheInv
  <1>10. ASSUME NEW n \in Scanned, n + 1 \notin Scanned, last = ScanBlock(n),
                words = Fetched(last, Seen.block_size)
         PROVE  CacheInv'
    <2>1. n \in InodesSeen /\ Full(n)
      <3>1. n \in InodesSeen /\ n \in Nat /\ \A m \in 0 .. n : Full(m)
        BY <1>2, <1>3 DEF Scanned, InodesSeen, Divided
      <3> QED
        BY <3>1
    <2>2. /\ last \in Nat /\ words \in Seq(Seq(Int)) /\ Len(words) = block_size
          /\ words # <<>>
          /\ \A k \in 1 .. block_size :
               /\ last * block_size + k \in 1 .. Len(file.data)
               /\ file.data[last * block_size + k] = words[k]
      <3>1. LET b       == ScanBlock(n)
                fetched == Fetched(b, Seen.block_size)
            IN  /\ b \in Nat /\ fetched \in Seq(Seq(Int)) /\ Len(fetched) = block_size
                /\ fetched # <<>>
                /\ \A k \in 1 .. block_size :
                     /\ b * block_size + k \in 1 .. Len(file.data)
                     /\ file.data[b * block_size + k] = fetched[k]
        BY <1>2, <2>1, FullFetched
      <3> QED
        BY <1>10, <3>1
    <2>3. rwbuffer' = words
      BY <1>5, <2>2
    <2>4. Formatted' /\ Geometry' = Geometry
      BY <1>3, <1>5 DEF Formatted, Geometry
    <2>5. fs'.live
      BY <1>2, <1>5 DEF VolumeInv, MountInv, CountsTyped
    <2>6. MB' = Geometry' /\ MB'.n_blocks > 0 /\ MB'.block_size = block_size
      BY <1>2, <1>3, <1>5, <2>4 DEF SuperBlockSound
    <2>7. disk_img' # "closed"
      BY <1>2, <1>5
    <2>8. Ready'
      BY <1>2, <1>5, <2>2, <2>3, <2>4, <2>5, <2>6, <2>7 DEF Ready
    <2> QED
      BY <1>5, <2>2, <2>3, <2>8 DEF CacheInv
  <1> QED
    BY <1>6, <1>7, <1>9, <1>10

LEMMA NotReady ==
  ASSUME CacheInv, ~fs'.ready, UNCHANGED <<casched_block, rwbuffer>>
  PROVE  CacheInv'
  BY DEF CacheInv

LEMMA KeepsCache ==
  ASSUME CacheInv, UNCHANGED <<file, block_size, blockVars>>,
         fs'.ready => fs.ready /\ fs'.live,
         disk_img' = "closed" => disk_img = "closed"
  PROVE  CacheInv'
  BY DEF CacheInv, Ready, Formatted, Geometry, blockVars

LEMMA ReadyLives ==
  ASSUME VolumeInv, fs.ready
  PROVE  fs.live /\ block_size # 0 /\ mounted > 0 /\ mounted # 0
  <1>1. fs.live
    BY DEF VolumeInv, CacheInv, Ready
  <1>2. mounted = 1 + fs.mounts + leaked /\ block_size # 0
    BY <1>1, LiveCount DEF VolumeInv
  <1>3. fs.mounts \in Nat /\ leaked \in Nat
    BY DEF VolumeInv, MountInv, CountsTyped
  <1> QED
    BY <1>1, <1>2, <1>3

LEMMA DiskVolume ==
  ASSUME VolumeInv, (\E b \in BlockSizes : MakeDisk(b)) \/ DropDisk
  PROVE  ImageInv' /\ CacheInv'
  <1>1. /\ fs' = fs /\ UNCHANGED blockVars /\ ~fs.ready /\ file' = file
        /\ disk_img' = "closed"
    BY ReadyLives DEF MakeDisk, NewDisk, DropDisk, DeleteDisk
  <1>2. block_size' \in Nat
    BY VolumeAssumption
    DEF VolumeInv, ImageInv, MakeDisk, NewDisk, DropDisk, DeleteDisk
  <1>3. disk_img_size' \in -Int32 .. Int32 - 1
    BY DiskAssumption
    DEF VolumeInv, ImageInv, MakeDisk, NewDisk, DropDisk, DeleteDisk
  <1>4. ImageInv'
    BY <1>1, <1>2, <1>3 DEF VolumeInv, ImageInv, SoundImage, Streamed
  <1> QED
    BY <1>1, <1>4, NotReady DEF VolumeInv, blockVars

LEMMA OpenVolume ==
  ASSUME VolumeInv, NEW f \in {file} \cup InitialFiles, Open(f)
  PROVE  ImageInv' /\ CacheInv'
  <1>1. f \in [kind : Kinds, data : Seq(Seq(Int))] /\ SoundImage(f)
    BY VolumeAssumption, ImageAssumption DEF VolumeInv, ImageInv, Kinds
  <1>2. CASE OpenImage(f)
    <2>1. /\ ~fs.ready /\ fs' = fs /\ UNCHANGED <<blockVars, block_size>> /\ file' = f
      BY <1>2, ReadyLives DEF Open, OpenImage, CanOpen
    <2>2. disk_img' \in Streamed /\ (disk_img' = "good" => f.kind = "whole")
      <3>1. f.kind \in Kinds
        BY <1>1
      <3> QED
        BY <1>2, <3>1 DEF OpenImage, Kinds, Streamed
    <2>3. disk_img_size' \in -Int32 .. Int32 - 1
      <3>1. Wrap(Len(f.data)) \in -Int32 .. Int32 - 1
        BY <1>1, WrapBounds
      <3>2. -1 \in -Int32 .. Int32 - 1
        BY DiskAssumption
      <3> QED
        BY <1>2, <3>1, <3>2 DEF OpenImage
    <2>4. ImageInv'
      BY <1>1, <2>1, <2>2, <2>3 DEF VolumeInv, ImageInv, SoundImage
    <2> QED
      BY <2>1, <2>4, NotReady DEF VolumeInv, blockVars
  <1>3. CASE OpenRefused
    BY <1>3, KeepsImage, KeepsCache
    DEF Open, OpenRefused, VolumeInv, CacheInv, Ready, diskVars
  <1> QED
    BY <1>2, <1>3 DEF Open

LEMMA Zero == <<0>> \in Seq(Int) /\ Len(<<0>>) = 1
  OBVIOUS

LEMMA NewImage ==
  ASSUME VolumeInv, NEW n, NEW b, Create(n, b), disk_img = "closed",
         NEW data \in Seq(Seq(Int)), file' = Whole(data)
  PROVE  data = <<>> \/ data[1] = <<0>> => ImageInv' /\ CacheInv'
  <1> HAVE data = <<>> \/ data[1] = <<0>>
  <1>1. ~SuperBlock(<<0>>).sealed
    BY Zero DEF SuperBlock
  <1>2. SoundImage(file')
    BY <1>1 DEF SoundImage, Whole
  <1>3. file' \in [kind : Kinds, data : Seq(Seq(Int))]
    BY DEF Whole, Kinds
  <1>4. file'.kind = "whole"
    BY DEF Whole
  <1>5. /\ UNCHANGED <<disk_img, disk_img_size, block_size, blockVars, fs>>
        /\ ~fs.ready
    BY DEF Create, CreateImage, VolumeInv, CacheInv, Ready
  <1>6. ImageInv'
    BY <1>2, <1>3, <1>4, <1>5 DEF VolumeInv, ImageInv, SoundImage
  <1> QED
    BY <1>5, <1>6, NotReady DEF VolumeInv, blockVars

LEMMA CreateVolume ==
  ASSUME VolumeInv, NEW n \in Nat, NEW b \in Nat, Create(n, b), disk_img = "closed"
  PROVE  ImageInv' /\ CacheInv'
  <1>1. PICK size \in -Int32 .. Int32 - 1 : size = Wrap(b * n)
    <2>1. b * n \in Int
      OBVIOUS
    <2> QED
      BY <2>1, WrapBounds
  <1>2. PICK w \in Nat \ {0} : w = Int32
    BY DiskAssumption
  <1>3. CASE size > 0
    <2>1. file' = Whole(Zeros(size)) /\ size \in Nat
      BY <1>1, <1>2, <1>3 DEF Create, CreateImage
    <2>2. /\ Zeros(size) = [k \in 1 .. size |-> Zeros(size)[k]]
          /\ \A k \in 1 .. size : Zeros(size)[k] = <<0>>
      BY DEF Zeros
    <2>3. Zeros(size) \in Seq(Seq(Int)) /\ Len(Zeros(size)) = size
      <3>1. \A k \in 1 .. size : Zeros(size)[k] \in Seq(Int)
        BY <2>2, Zero
      <3> QED
        BY <2>1, <2>2, <3>1, SeqOf
    <2>4. Zeros(size)[1] = <<0>>
      BY <1>3, <2>1, <2>2
    <2> QED
      BY <2>1, <2>3, <2>4, NewImage
  <1>4. CASE ~(size > 0)
    <2>1. file' = Whole(<<>>)
      BY <1>1, <1>4 DEF Create, CreateImage
    <2>2. <<>> \in Seq(Seq(Int))
      OBVIOUS
    <2> QED
      BY <2>1, <2>2, NewImage
  <1> QED
    BY <1>3, <1>4

LEMMA ObjectVolume ==
  ASSUME VolumeInv, Construct \/ Destroy
  PROVE  ImageInv' /\ CacheInv'
  <1>1. /\ ~fs'.ready /\ casched_block' = NoBlock /\ rwbuffer' = <<>>
        /\ UNCHANGED <<file, disk_img, disk_img_size, block_size>>
    BY DEF Construct, Destroy, NoFs
  <1> QED
    BY <1>1, KeepsImage DEF VolumeInv, CacheInv

LEMMA RestVolume ==
  ASSUME VolumeInv,
         Unmount \/ MountNoSuperBlock \/ MountNoInodes \/ \E n \in RawBlocks : RawRead(n)
  PROVE  ImageInv' /\ CacheInv'
  <1>0. fs.ready \in BOOLEAN /\ fs \in [live : BOOLEAN, ready : BOOLEAN, mounts : Nat]
    BY DEF VolumeInv, MountInv, CountsTyped
  <1>1. CASE Unmount
    <2>1. fs'.ready = fs.ready /\ fs'.live = fs.live
      BY <1>0, <1>1 DEF Unmount
    <2>2. UNCHANGED <<file, disk_img, disk_img_size, block_size, blockVars>>
      BY <1>1 DEF Unmount
    <2> QED
      BY <2>1, <2>2, KeepsImage, KeepsCache DEF VolumeInv, CacheInv, Ready
  <1>2. CASE MountNoSuperBlock \/ MountNoInodes
    <2>1. /\ ~fs'.ready
          /\ UNCHANGED <<file, disk_img, disk_img_size, block_size, casched_block, rwbuffer>>
      BY <1>0, <1>2 DEF MountNoSuperBlock, MountNoInodes
    <2> QED
      BY <2>1, KeepsImage, NotReady DEF VolumeInv
  <1>3. CASE \E n \in RawBlocks : RawRead(n)
    <2>1. /\ UNCHANGED <<file, disk_img_size, block_size, blockVars, fs>>
          /\ disk_img' \in {disk_img, "failed"}
      BY <1>3 DEF RawRead, StreamAfter
    <2> QED
      BY <2>1, KeepsImage, KeepsCache DEF VolumeInv, CacheInv, Ready
  <1> QED
    BY <1>1, <1>2, <1>3

(* Fragments behind the super block may change.                            *)
LEMMA BehindSuperBlock ==
  ASSUME ImageInv, UNCHANGED <<disk_img_size, block_size>>,
         disk_img' \in {disk_img, "failed"},
         NEW t \in Seq(Seq(Int)), Len(t) = Len(file.data), t[1] = file.data[1],
         file' = [file EXCEPT !.data = t]
  PROVE  ImageInv' /\ (Formatted => Formatted' /\ Geometry' = Geometry)
  <1>1. /\ file' \in [kind : Kinds, data : Seq(Seq(Int))]
        /\ file'.kind = file.kind /\ file'.data = t
    BY DEF ImageInv
  <1>2. t # <<>> <=> file.data # <<>>
    BY DEF ImageInv
  <1>3. SoundImage(file')
    BY <1>1, <1>2 DEF ImageInv, SoundImage
  <1>4. Formatted => Formatted' /\ Geometry' = Geometry
    BY <1>1, <1>2 DEF Formatted, Geometry
  <1> QED
    BY <1>1, <1>3, <1>4 DEF ImageInv, SoundImage, Streamed

LEMMA WriteVolume ==
  ASSUME VolumeInv, fs.ready, disk_img = "good", NEW b \in 1 .. MB.n_blocks - 1,
         NEW offset \in Int, NEW data \in Seq(Seq(Int)), ReadsBlock(b),
         UNCHANGED <<disk_img_size, block_size, MB, fs>>,
         casched_block' = b,
         rwbuffer' = [k \in DOMAIN rwbuffer |->
           IF At(offset) < k /\ k <= At(offset) + Least(Len(data), Space(offset))
           THEN data[k - At(offset)] ELSE BufferWith(b)[k]],
         file' = IF Mounted THEN Stored(b, rwbuffer') ELSE file,
         disk_img' = IF StreamAfterBlock(b) = "failed" THEN "failed"
                     ELSE StreamAfter(b, MB.block_size)
  PROVE  /\ ImageInv' /\ CacheInv' /\ Formatted' /\ Geometry' = Geometry
         /\ Len(file'.data) = Len(file.data)
         /\ \A k \in 1 .. Len(file.data) :
              file'.data[k] = IF b * block_size < k /\ k <= b * block_size + block_size
                              THEN rwbuffer'[k - b * block_size] ELSE file.data[k]
  <1>1. /\ Ready /\ MB.block_size = block_size /\ MB.block_size \in Nat \ {0}
        /\ disk_img_size = Len(file.data) /\ mounted \in Nat \ {0}
        /\ Len(file.data) < Int32
    BY Geometric
  <1>2. PICK size \in Nat \ {0} : size = MB.block_size /\ size = block_size
    BY <1>1
  <1>3. DOMAIN rwbuffer = 1 .. size
    BY <1>1, <1>2 DEF VolumeInv, CacheInv, Ready
  <1>4. /\ BufferWith(b) \in Seq(Seq(Int)) /\ Len(BufferWith(b)) = size
        /\ b * block_size \in Nat /\ Offset(b) = b * block_size
        /\ b * block_size + size <= Len(file.data)
        /\ Fits(b, size) /\ Count(b, size) = size /\ StreamAfterBlock(b) = "good"
    BY <1>2, ReadBlock
  <1>5. PICK at \in Nat : at = b * size /\ Offset(b) = at /\ at = b * block_size
    BY <1>2, <1>4
  <1>6. PICK len \in Nat : len = Len(file.data) /\ at + size <= len
    <2>1. Len(file.data) \in Nat
      BY DEF VolumeInv, ImageInv
    <2> QED
      BY <1>4, <1>5, <2>1
  <1>7. Mounted /\ Streams
    BY <1>1 DEF Mounted, Streams
  <1>8. Cut(b, size) = size
    BY <1>4, <1>7 DEF Count
  <1>9. PICK new : new = rwbuffer'
    OBVIOUS
  <1>10. new \in Seq(Seq(Int)) /\ Len(new) = size
    <2>1. PICK from \in Int : from = At(offset)
      BY <1>2 DEF At
    <2>2. PICK n \in Int : n = Least(Len(data), Space(offset)) /\ n <= Len(data)
      <3>1. Space(offset) \in Int /\ Len(data) \in Nat
        BY <1>2, <2>1 DEF Space
      <3> QED
        BY <3>1 DEF Least
    <2>3. new = [k \in 1 .. size |->
                   IF from < k /\ k <= from + n THEN data[k - from]
                   ELSE BufferWith(b)[k]]
      BY <1>3, <1>9, <2>1, <2>2
    <2>4. \A k \in 1 .. size : new[k] \in Seq(Int)
      <3> SUFFICES ASSUME NEW k \in 1 .. size
                   PROVE  new[k] \in Seq(Int)
        OBVIOUS
      <3>1. CASE from < k /\ k <= from + n
        <4>1. k - from \in 1 .. Len(data)
          BY <2>2, <3>1
        <4>2. data[k - from] \in Seq(Int)
          BY <4>1
        <4> QED
          BY <2>3, <3>1, <4>2
      <3>2. CASE ~(from < k /\ k <= from + n)
        <4>1. k \in 1 .. Len(BufferWith(b))
          BY <1>4
        <4>2. BufferWith(b)[k] \in Seq(Int)
          BY <1>4, <4>1
        <4> QED
          BY <2>3, <3>2, <4>2
      <3> QED
        BY <3>1, <3>2
    <2>5. new = [k \in 1 .. size |-> new[k]]
      BY <2>3
    <2> QED
      BY <2>4, <2>5, SeqOf
  <1> DEFINE t == [k \in 1 .. len |-> IF at < k /\ k <= at + size
                                      THEN new[k - at] ELSE file.data[k]]
  <1>11. file' = [file EXCEPT !.data = t]
    <2>1. DOMAIN file.data = 1 .. len
      BY <1>6 DEF VolumeInv, ImageInv
    <2>2. Fits(b, Len(new)) /\ Cut(b, Len(new)) = size /\ file' = Stored(b, new)
      BY <1>4, <1>7, <1>8, <1>9, <1>10
    <2> QED
      BY <1>5, <1>7, <2>1, <2>2 DEF Stored
  <1>12. t \in Seq(Seq(Int)) /\ Len(t) = len
    <2>1. \A k \in 1 .. len : t[k] \in Seq(Int)
      <3> SUFFICES ASSUME NEW k \in 1 .. len
                   PROVE  t[k] \in Seq(Int)
        OBVIOUS
      <3>1. CASE at < k /\ k <= at + size
        <4>1. k - at \in 1 .. Len(new)
          BY <1>10, <3>1
        <4>2. new[k - at] \in Seq(Int)
          BY <1>10, <4>1
        <4> QED
          BY <3>1, <4>2
      <3>2. CASE ~(at < k /\ k <= at + size)
        <4>1. file.data[k] \in Seq(Int)
          BY <1>6 DEF VolumeInv, ImageInv
        <4> QED
          BY <3>2, <4>1
      <3> QED
        BY <3>1, <3>2
    <2>2. t = [k \in 1 .. len |-> t[k]]
      OBVIOUS
    <2> HIDE DEF t
    <2> QED
      BY <2>1, <2>2, SeqOf
  <1>13. 1 <= at
    <2>1. b \in Nat /\ 0 \in 0 .. b - 1
      BY <1>1
    <2>2. 0 * size + size <= b * size
      BY <2>1, BlockEnds
    <2>3. 0 * size = 0
      OBVIOUS
    <2> QED
      BY <1>5, <2>2, <2>3
  <1>14. t[1] = file.data[1]
    BY <1>2, <1>6, <1>13
  <1>15. disk_img' = "good"
    BY <1>2, <1>4, <1>7 DEF StreamAfter
  <1>16. \A k \in 1 .. size : at + k \in 1 .. len /\ t[at + k] = rwbuffer'[k]
    BY <1>6, <1>9
  <1>17. \A k \in 1 .. len : t[k] = IF at < k /\ k <= at + size
                                    THEN rwbuffer'[k - at] ELSE file.data[k]
    BY <1>9
  <1> HIDE DEF t
  <1>18. ImageInv' /\ (Formatted => Formatted' /\ Geometry' = Geometry)
    BY <1>6, <1>11, <1>12, <1>14, <1>15, BehindSuperBlock DEF VolumeInv
  <1>19. file'.data = t
    BY <1>11 DEF VolumeInv, ImageInv
  <1>20. \A k \in 1 .. MB'.block_size :
           /\ casched_block' * MB'.block_size + k \in 1 .. Len(file'.data)
           /\ file'.data[casched_block' * MB'.block_size + k] = rwbuffer'[k]
    <2>1. MB'.block_size = size /\ casched_block' * MB'.block_size = at
      BY <1>2, <1>5
    <2> QED
      BY <1>12, <1>19, <1>16, <2>1
  <1>21. Len(file'.data) < Int32
    BY <1>1, <1>4, <1>6, <1>12, <1>19
  <1>22. Ready'
    BY <1>1, <1>2, <1>9, <1>10, <1>15, <1>18, <1>20, <1>21 DEF Ready
  <1>23. CacheInv' /\ Formatted' /\ Geometry' = Geometry
    BY <1>1, <1>9, <1>10, <1>18, <1>22 DEF CacheInv, Ready
  <1>24. /\ Len(file'.data) = Len(file.data)
         /\ \A k \in 1 .. Len(file.data) :
              file'.data[k] = IF b * block_size < k /\ k <= b * block_size + block_size
                              THEN rwbuffer'[k - b * block_size] ELSE file.data[k]
    <2>1. b * block_size = at /\ block_size = size
      BY <1>2, <1>5
    <2> QED
      BY <1>6, <1>12, <1>19, <1>17, <2>1
  <1> QED
    BY <1>18, <1>23, <1>24

LEMMA TransferVolume ==
  ASSUME VolumeInv, Careful, NEW op \in {"read", "write"}, NEW kind, NEW n \in Int,
         NEW at \in Int, NEW data \in Seq(Seq(Int)), NEW b \in Int,
         fs.ready /\ n >= 0 => b > 0, Transfer(op, kind, n, at, data, b)
  PROVE  ImageInv' /\ CacheInv'
  <1> DEFINE c    == [op |-> op, kind |-> kind, n |-> n, at |-> at, data |-> data,
                      how |-> "ok"]
  <1> DEFINE from == IF kind = "inode" THEN n % MB.block_size ELSE at
  <1>1. fs.ready /\ fs' = fs /\ UNCHANGED <<mounted, leaked, block_size, disk_img_size>>
    BY TransferKeeps DEF Transfer
  <1>2. disk_img = "good"
    <2>1. call'.op = op
      BY DEF Transfer, BlockRead, BlockWrite, Refuses, Nothing, Fails, Threw
    <2> QED
      BY <2>1 DEF Careful
  <1>3. MB.block_size \in Nat \ {0} /\ MB.n_blocks \in Nat
    BY <1>1, Geometric
  <1>4. from \in Int
    BY <1>3
  <1>5. \/ UNCHANGED <<diskVars, blockVars>>
        \/ /\ b \in 1 .. MB.n_blocks - 1
           /\ BlockRead(b, from, Len(data), c) \/ BlockWrite(b, from, data, c)
    <2>1. ASSUME 0 <= n, BlockRead(b, from, Len(data), c) \/ BlockWrite(b, from, data, c)
          PROVE  UNCHANGED <<diskVars, blockVars>> \/ b \in 1 .. MB.n_blocks - 1
      BY <1>1, <1>3, <2>1 DEF BlockRead, BlockWrite, BadBlock, HasBlockN, Refuses
    <2> QED
      BY <2>1 DEF Transfer, Refuses, HasInodeN, HasDataN
  <1> HIDE DEF from, c
  <1>6. CASE UNCHANGED <<diskVars, blockVars>>
    BY <1>1, <1>6, KeepsImage, KeepsCache
    DEF VolumeInv, CacheInv, Ready, diskVars
  <1>7. CASE /\ b \in 1 .. MB.n_blocks - 1
             /\ BlockRead(b, from, Len(data), c) \/ BlockWrite(b, from, data, c)
    <2>1. b \in 0 .. MB.n_blocks - 1
      BY <1>3, <1>7
    <2>2. CASE UNCHANGED <<diskVars, blockVars>>
      BY <1>1, <2>2, KeepsImage, KeepsCache
      DEF VolumeInv, CacheInv, Ready, diskVars
    <2>3. CASE Fails(b, c)
      <3>1. BufferWith(b) = rwbuffer /\ StreamAfterBlock(b) \in {"good", "failed"}
        BY <1>1, <1>2, <2>1, <2>3, ReadBlock DEF Fails
      <3>2. /\ disk_img' \in {disk_img, "failed"}
            /\ UNCHANGED <<file, disk_img_size, block_size, blockVars>>
        BY <1>2, <2>3, <3>1 DEF Fails, StillNamed, blockVars
      <3> QED
        BY <1>1, <1>2, <3>2, KeepsImage, KeepsCache DEF VolumeInv, CacheInv, Ready
    <2>4. CASE /\ ReadsBlock(b) /\ casched_block' = b /\ rwbuffer' = BufferWith(b)
               /\ disk_img' = StreamAfterBlock(b) /\ UNCHANGED <<file, MB>>
      <3>1. /\ Ready /\ MB.block_size = block_size
            /\ BufferWith(b) \in Seq(Seq(Int)) /\ Len(BufferWith(b)) = MB.block_size
            /\ StreamAfterBlock(b) = "good" /\ b * block_size \in Nat
            /\ b * block_size + MB.block_size <= Len(file.data)
            /\ \A k \in 1 .. MB.block_size :
                 BufferWith(b)[k] = file.data[b * block_size + k]
        BY <1>1, <1>2, <2>1, <2>4, ReadBlock, Geometric
      <3>2. ImageInv'
        BY <1>1, <1>2, <2>4, <3>1, KeepsImage DEF VolumeInv
      <3>3. PICK size \in Nat \ {0}, p \in Nat, len \in Nat :
              /\ size = MB.block_size /\ p = b * size /\ p = b * block_size
              /\ len = Len(file.data) /\ p + size <= len
        <4>1. Len(file.data) \in Nat
          BY DEF VolumeInv, ImageInv
        <4> QED
          BY <1>3, <3>1, <4>1
      <3>4. \A k \in 1 .. size : p + k \in 1 .. len /\ file.data[p + k] = BufferWith(b)[k]
        <4>1. \A k \in 1 .. size : BufferWith(b)[k] = file.data[p + k]
          BY <3>1, <3>3
        <4>2. p + size <= len
          BY <3>3
        <4>3. \A k \in 1 .. size : p + k \in 1 .. len
          BY <4>2
        <4> QED
          BY <4>1, <4>3
      <3>5. /\ Formatted' /\ MB' = Geometry' /\ MB'.n_blocks > 0
            /\ MB'.block_size = block_size' /\ disk_img' # "closed" /\ fs'.live
            /\ Len(file'.data) < Int32
        BY <1>1, <2>4, <3>1 DEF Ready, Formatted, Geometry
      <3>6. \A k \in 1 .. MB'.block_size :
              /\ casched_block' * MB'.block_size + k \in 1 .. Len(file'.data)
              /\ file'.data[casched_block' * MB'.block_size + k] = rwbuffer'[k]
        <4>1. MB'.block_size = size /\ casched_block' * MB'.block_size = p
          BY <2>4, <3>3
        <4> QED
          BY <2>4, <3>3, <3>4, <4>1
      <3>7. Len(rwbuffer') = MB'.block_size /\ casched_block' \in Nat
        BY <2>1, <2>4, <3>1
      <3>8. Ready'
        BY <3>5, <3>6, <3>7 DEF Ready
      <3> QED
        BY <2>1, <2>4, <3>1, <3>2, <3>8 DEF CacheInv
    <2>5. CASE /\ ReadsBlock(b) /\ casched_block' = b
               /\ rwbuffer' = [k \in DOMAIN rwbuffer |->
                    IF At(from) < k /\ k <= At(from) + Least(Len(data), Space(from))
                    THEN data[k - At(from)] ELSE BufferWith(b)[k]]
               /\ file' = (IF Mounted THEN Stored(b, rwbuffer') ELSE file)
               /\ disk_img' = (IF StreamAfterBlock(b) = "failed" THEN "failed"
                               ELSE StreamAfter(b, MB.block_size))
               /\ UNCHANGED MB
      BY <1>1, <1>2, <1>4, <1>7, <2>5, WriteVolume
    <2> QED
      BY <1>7, <2>2, <2>3, <2>4, <2>5
      DEF BlockRead, BlockWrite, Refuses, Nothing
  <1> QED
    BY <1>5, <1>6, <1>7

(* The super block that format makes of a disk of any size is sound.       *)
LEMMA SealTyped ==
  ASSUME block_size \in Nat \ {0}, disk_img_size \in Nat
  PROVE  /\ Fragment(NewMB) \in Seq(Int) /\ InodeBlocks \in Int
         /\ LET mb == SuperBlock(Fragment(NewMB))
            IN  \/ mb.n_blocks = 0 /\ mb.n_inode_blocks = 0 /\ mb.n_data_blocks = -1
                \/ /\ Divided(mb)
                   /\ mb.n_blocks * mb.block_size \in Nat
                   /\ mb.n_blocks * mb.block_size <= disk_img_size
  <1>1. PICK size \in Nat \ {0}, len \in Nat : size = block_size /\ len = disk_img_size
    OBVIOUS
  <1>2. PICK q \in Nat, p \in 0 .. size - 1 : q = len \div size /\ len = q * size + p
    BY DivMod
  <1>3. GetDiskSize = q
    BY <1>1, <1>2 DEF GetDiskSize, Quotient
  <1>4. PICK r \in Int : r = RealSize /\ r = q - 1
    BY <1>3 DEF RealSize
  <1>5. /\ InodeBlocks \in Int
        /\ r < 0 => InodeBlocks = 0
    <2>1. CASE r >= 0
      <3>1. r \div InodeShare \in Int
        BY <2>1, VolumeAssumption, ShareOf
      <3> QED
        BY <1>4, <2>1, <3>1 DEF InodeBlocks, Quotient
    <2>2. CASE r < 0
      <3>1. r = -1 /\ -r = 1
        BY <1>2, <1>4, <2>2
      <3>2. 1 \div InodeShare = 0
        BY VolumeAssumption
      <3> QED
        BY <1>4, <3>1, <3>2 DEF InodeBlocks, Quotient
    <2> QED
      BY <2>1, <2>2
  <1>6. PICK i \in Int :
          /\ i = InodeBlocks
          /\ NewMB.block_size = size /\ NewMB.n_blocks = q
          /\ NewMB.n_inode_blocks = i /\ NewMB.n_data_blocks = r - i
    BY <1>1, <1>3, <1>4, <1>5 DEF NewMB
  <1>7. Fragment(NewMB) = <<size, q, i, r - i>>
    BY <1>6 DEF Fragment
  <1>8. /\ Fragment(NewMB) \in Seq(Int)
        /\ SuperBlock(Fragment(NewMB)) =
             [sealed |-> TRUE, block_size |-> size, n_blocks |-> q,
              n_inode_blocks |-> i, n_data_blocks |-> r - i]
    BY <1>7 DEF SuperBlock
  <1>9. q = 0 => i = 0 /\ r - i = -1
    BY <1>4, <1>5, <1>6
  <1>10. q > 0 => Divided(SuperBlock(Fragment(NewMB)))
    <2>1. q > 0 => Divided(NewMB)
      BY <1>3, FormatDivides
    <2> QED
      BY <1>6, <1>8, <2>1 DEF Divided
  <1>11. q * size \in Nat /\ q * size <= len
    BY <1>2
  <1>12. CASE q = 0
    BY <1>5, <1>8, <1>9, <1>12
  <1>13. CASE q > 0
    BY <1>1, <1>5, <1>8, <1>10, <1>11, <1>13
  <1> QED
    BY <1>12, <1>13

(* What format makes of an image with room for a super block: a seal, and  *)
(* inodes that are reset when it gets that far.                            *)
Reset == {((n \div block_size) + 1) * block_size + (n % block_size) + 1 :
            n \in 0 .. InodeBlocks - 1}
FormatThrows == RealSize <= 0 \/ (disk_img = "closed" /\ InodeBlocks > 0)

LEMMA FormatSeals ==
  ASSUME VolumeInv, Format, disk_img = "good", file.data # <<>>,
         Len(file.data) < Int32
  PROVE  /\ file'.kind = "whole" /\ file'.data \in Seq(Seq(Int))
         /\ file' \in [kind : Kinds, data : Seq(Seq(Int))]
         /\ Len(file'.data) = Len(file.data) /\ file'.data[1] = Fragment(NewMB)
         /\ \A k \in 2 .. Len(file.data) :
              file'.data[k] = IF k \in Reset /\ ~FormatThrows THEN <<0>> ELSE file.data[k]
  <1>1. block_size # 0
    BY DEF Format
  <1>2. PICK size \in Nat \ {0}, len \in Nat \ {0} :
          /\ size = block_size /\ len = Len(file.data) /\ len = disk_img_size
    <2>1. file.data \in Seq(Seq(Int))
      BY DEF VolumeInv, ImageInv
    <2>2. Len(file.data) \in Nat \ {0}
      BY <2>1
    <2>3. disk_img_size = Len(file.data)
      BY <2>2, SizeIsLength DEF VolumeInv
    <2> QED
      BY <1>1, <2>2, <2>3 DEF VolumeInv, ImageInv
  <1>3. PICK w \in Nat \ {0} : w = Int32 /\ len < w
    BY <1>2, DiskAssumption DEF VolumeInv, ImageInv
  <1>4. file.kind = "whole" /\ file.data \in Seq(Seq(Int)) /\ DOMAIN file.data = 1 .. len
    <2>1. file.kind = "whole" /\ file.data \in Seq(Seq(Int))
      BY DEF VolumeInv, ImageInv
    <2>2. DOMAIN file.data = 1 .. Len(file.data)
      BY <2>1
    <2> QED
      BY <1>2, <2>1, <2>2
  <1> DEFINE seal == Fragment(NewMB)
  <1> DEFINE t0 == [k \in 1 .. len |-> IF k = 1 THEN seal ELSE file.data[k]]
  <1> DEFINE t1 == [k \in 1 .. len |-> IF k \in Reset THEN <<0>> ELSE t0[k]]
  <1>5. seal \in Seq(Int) /\ InodeBlocks \in Int
    BY <1>2, SealTyped
  <1>6. /\ Offset(0) = 0 /\ Cut(0, 1) = 1 /\ Fits(0, 1)
    <2>1. Wrap(0) = 0 /\ Wrap(0 + 1) = 1 /\ Wrap(len - 1) = len - 1 /\ 0 * size = 0
      BY <1>3, WrapSmall
    <2>2. Offset(0) = 0
      BY <1>2, <2>1 DEF Offset
    <2>3. Cut(0, 1) = 1
      BY <1>2, <2>1, <2>2 DEF Cut, Least
    <2> QED
      BY <2>2, <2>3 DEF Fits
  <1>7. Stored(0, <<seal>>) = [file EXCEPT !.data = t0]
    <2> HIDE DEF seal
    <2>1. Len(<<seal>>) = 1 /\ <<seal>>[1] = seal
      OBVIOUS
    <2>2. Streams
      BY DEF Streams
    <2>3. t0 = [k \in DOMAIN file.data |->
                  IF 0 < k /\ k <= 0 + 1 THEN <<seal>>[k - 0] ELSE file.data[k]]
      BY <1>4, <2>1
    <2> HIDE DEF t0
    <2> QED
      BY <1>6, <2>1, <2>2, <2>3 DEF Stored
  <1>8. 1 \notin Reset
    <2> SUFFICES ASSUME NEW n \in 0 .. InodeBlocks - 1
                 PROVE  ((n \div block_size) + 1) * block_size + (n % block_size) + 1 # 1
      BY DEF Reset
    <2>1. PICK a \in Nat, c \in 0 .. size - 1 : a = n \div size /\ c = n % size
      <3>1. n \in Nat
        BY <1>5
      <3> QED
        BY <3>1, DivMod
    <2>2. (a + 1) * size = a * size + size /\ a * size \in Nat
      OBVIOUS
    <2>3. (a + 1) * size + c + 1 # 1
      BY <2>2
    <2> QED
      BY <1>2, <2>1, <2>3
  <1>9. /\ t0 \in Seq(Seq(Int)) /\ Len(t0) = len /\ t0[1] = seal
        /\ t1 \in Seq(Seq(Int)) /\ Len(t1) = len /\ t1[1] = seal
    <2> HIDE DEF seal
    <2>1. \A k \in 1 .. len : t0[k] \in Seq(Int)
      BY <1>4, <1>5
    <2>2. \A k \in 1 .. len : t1[k] \in Seq(Int)
      BY <2>1, Zero
    <2>3. t0 = [k \in 1 .. len |-> t0[k]] /\ t1 = [k \in 1 .. len |-> t1[k]]
      OBVIOUS
    <2>4. 1 \in 1 .. len
      BY <1>2
    <2>5. t0[1] = seal /\ t1[1] = seal
      BY <1>8, <2>4
    <2> HIDE DEF t0, t1
    <2> QED
      BY <2>1, <2>2, <2>3, <2>5, SeqOf
  <1>10. file' = [file EXCEPT !.data = IF FormatThrows THEN t0 ELSE t1]
    <2>1. Streams
      BY DEF Streams
    <2>2. file' = IF FormatThrows THEN Stored(0, <<seal>>)
                  ELSE [Stored(0, <<seal>>) EXCEPT !.data =
                          [k \in DOMAIN @ |-> IF k \in Reset THEN <<0>> ELSE @[k]]]
      BY <2>1 DEF Format, Reset, FormatThrows
    <2>3. [file EXCEPT !.data = t0].data = t0 /\ DOMAIN t0 = 1 .. len
      BY DEF VolumeInv, ImageInv
    <2> HIDE DEF seal
    <2>4. [[file EXCEPT !.data = t0] EXCEPT !.data =
             [k \in DOMAIN @ |-> IF k \in Reset THEN <<0>> ELSE @[k]]]
          = [file EXCEPT !.data = t1]
      BY <2>3 DEF VolumeInv, ImageInv
    <2> QED
      BY <1>7, <2>2, <2>4
  <1>11. \A k \in 2 .. len :
           (IF FormatThrows THEN t0 ELSE t1)[k] =
             IF k \in Reset /\ ~FormatThrows THEN <<0>> ELSE file.data[k]
    <2> HIDE DEF seal
    <2>1. \A k \in 2 .. len : k \in 1 .. len /\ k # 1
      OBVIOUS
    <2> QED
      BY <2>1
  <1> HIDE DEF t0, t1, seal
  <1>12. PICK t \in Seq(Seq(Int)) :
           /\ t = IF FormatThrows THEN t0 ELSE t1
           /\ Len(t) = len /\ t[1] = seal
    BY <1>9
  <1>13. file' = [file EXCEPT !.data = t]
    BY <1>10, <1>12
  <1>14. /\ file' \in [kind : Kinds, data : Seq(Seq(Int))]
         /\ file'.kind = "whole" /\ file'.data = t
    BY <1>4, <1>13 DEF VolumeInv, ImageInv
  <1> QED
    BY <1>2, <1>11, <1>12, <1>14 DEF seal

LEMMA FormatVolume ==
  ASSUME VolumeInv, Format, Careful
  PROVE  ImageInv' /\ CacheInv'
  <1>1. call'.op = "format"
    BY DEF Format, Ends, Idle
  <1>2. disk_img = "good" /\ ~fs.ready /\ Len(file.data) < Int32
    BY <1>1 DEF Careful
  <1>3. UNCHANGED <<disk_img, disk_img_size, block_size, blockVars, fs>> /\ block_size # 0
    BY DEF Format
  <1>4. CacheInv'
    BY <1>2, <1>3, NotReady DEF VolumeInv, blockVars
  <1>5. PICK size \in Nat \ {0}, len \in Nat :
          /\ size = block_size /\ len = Len(file.data) /\ len = disk_img_size
    <2>1. Len(file.data) \in Nat
      BY DEF VolumeInv, ImageInv
    <2> QED
      BY <1>2, <1>3, <2>1, SizeIsLength DEF VolumeInv, ImageInv
  <1>6. PICK w \in Nat \ {0} : w = Int32 /\ len < w
    BY <1>2, <1>5, DiskAssumption
  <1>7. file.kind = "whole" /\ file.data \in Seq(Seq(Int))
    BY <1>2 DEF VolumeInv, ImageInv
  <1>8. CASE len = 0
    <2>1. IsImage(file') /\ Len(file'.data) = 0
      BY <1>5, <1>8, FormatImage DEF VolumeInv, SizeInv
    <2>2. PICK S : file' \in [kind : Kinds, data : Seq(S)]
      BY <2>1 DEF IsImage
    <2>3. file'.data = <<>>
      BY <2>1, <2>2
    <2>4. file' \in [kind : Kinds, data : Seq(Seq(Int))]
      BY <2>2, <2>3
    <2>5. file'.kind = "whole"
      BY <1>7 DEF Format, Stored, VolumeInv, ImageInv
    <2> QED
      BY <1>3, <1>4, <1>6, <2>1, <2>3, <2>4, <2>5 DEF VolumeInv, ImageInv, SoundImage
  <1>9. CASE len # 0
    <2> DEFINE seal == Fragment(NewMB)
    <2>1. /\ file'.kind = "whole" /\ file' \in [kind : Kinds, data : Seq(Seq(Int))]
          /\ Len(file'.data) = len /\ file'.data[1] = seal
      <3>1. file.data # <<>>
        BY <1>5, <1>9
      <3> QED
        BY <1>2, <1>5, <3>1, FormatSeals
    <2>2. LET mb == SuperBlock(seal)
          IN  \/ mb.n_blocks = 0 /\ mb.n_inode_blocks = 0 /\ mb.n_data_blocks = -1
              \/ /\ Divided(mb) /\ mb.n_blocks * mb.block_size \in Nat
                 /\ mb.n_blocks * mb.block_size <= len
      BY <1>5, SealTyped
    <2> HIDE DEF seal
    <2>3. LET mb == SuperBlock(seal)
          IN  \/ mb.n_blocks = 0 /\ mb.n_inode_blocks = 0 /\ mb.n_data_blocks = -1
              \/ /\ Divided(mb) /\ mb.n_blocks * mb.block_size < Int32
                 /\ mb.n_blocks * mb.block_size <= Len(file'.data)
      BY <1>6, <2>1, <2>2
    <2>4. SoundImage(file')
      BY <2>1, <2>3 DEF SoundImage
    <2> QED
      BY <1>3, <1>4, <1>6, <2>1, <2>4 DEF VolumeInv, ImageInv
  <1> QED
    BY <1>8, <1>9

LEMMA NextVolume == VolumeInv /\ [Next /\ Careful]_vars => VolumeInv'
  <1> SUFFICES ASSUME VolumeInv, [Next /\ Careful]_vars
               PROVE  ImageInv' /\ CacheInv'
    BY NextMounts, NextSize DEF VolumeInv
  <1>1. CASE (\E b \in BlockSizes : MakeDisk(b)) \/ DropDisk
    BY <1>1, DiskVolume
  <1>2. CASE \E f \in {file} \cup InitialFiles : Open(f)
    BY <1>2, OpenVolume
  <1>3. ASSUME Careful, NEW image \in NewImages, Create(image[1], image[2])
        PROVE  ImageInv' /\ CacheInv'
    <2>1. call'.op = "create"
      BY <1>3 DEF Create, Ends, Idle
    <2>2. disk_img = "closed"
      BY <1>3, <2>1 DEF Careful
    <2> QED
      BY <1>3, <2>2, VolumeAssumption, CreateVolume
  <1>4. CASE Construct \/ Destroy
    BY <1>4, ObjectVolume
  <1>5. CASE \/ Unmount \/ MountNoSuperBlock \/ MountNoInodes
             \/ \E n \in RawBlocks : RawRead(n)
    BY <1>5, RestVolume
  <1>6. CASE MountScan /\ Careful
    BY <1>6, ScanVolume
  <1>7. CASE Format /\ Careful
    BY <1>7, FormatVolume
  <1>8. ASSUME Careful, NEW op \in {"read", "write"}, NEW n \in Numbers,
               NEW v \in Values, TransferInode(op, n, v)
        PROVE  ImageInv' /\ CacheInv'
    <2>1. fs.ready /\ n \in Int /\ <<v>> \in Seq(Seq(Int)) /\ 0 \in Int
      BY <1>8, VolumeAssumption DEF TransferInode, Transfer
    <2>2. PICK size \in Nat \ {0} : size = MB.block_size
      BY <2>1, Geometric
    <2>3. PICK r \in Int : r = n \div size
      BY <2>1
    <2>4. n >= 0 => r \in Nat
      BY <2>1, <2>3, ShareOf
    <2>5. InodeBlockN(n) \in Int /\ (n >= 0 => InodeBlockN(n) > 0)
      BY <2>2, <2>3, <2>4 DEF InodeBlockN, NInodesInBlock
    <2> QED
      BY <1>8, <2>1, <2>5, TransferVolume DEF TransferInode
  <1>9. ASSUME Careful, NEW op \in {"read", "write"}, NEW n \in Numbers,
               NEW at \in Offsets, NEW data \in Data, TransferData(op, n, at, data)
        PROVE  ImageInv' /\ CacheInv'
    <2>1. fs.ready /\ n \in Int /\ data \in Seq(Seq(Int)) /\ at \in Int
      BY <1>9, VolumeAssumption DEF TransferData, Transfer
    <2>2. DataBlockN(n) \in Int /\ (n >= 0 => DataBlockN(n) > 0)
      BY <2>1, Geometric DEF DataBlockN
    <2> QED
      BY <1>9, <2>1, <2>2, TransferVolume DEF TransferData
  <1>10. CASE UNCHANGED vars
    BY <1>10, KeepsImage, KeepsCache DEF vars, diskVars, VolumeInv, CacheInv, Ready
  <1> QED
    BY <1>1, <1>2, <1>3, <1>4, <1>5, <1>6, <1>7, <1>8, <1>9, <1>10 DEF Next

LEMMA SpecVolume == Spec => []VolumeInv
  BY InitVolume, NextVolume, PTL DEF Spec

(* The size that a Disk keeps is one that an int32_t holds, for images of  *)
(* any length: open narrows it.  Counts stay natural numbers, images and   *)
(* buffers are made of fragments, whatever the disks and transfers.        *)
THEOREM VolumeTypeCorrect == Spec => []VolumeTypeOK
  BY SpecVolume, IsVolumeTypeOK, PTL

(* No inode or data block is written over the super block, and no mount,   *)
(* format or change of the image leaves a file system that is ready with   *)
(* block counts and sizes other than those of the image.                   *)
THEOREM SuperBlockStays == Spec => []SuperBlockKept
  BY SpecVolume, SuperBlockIsKept, PTL

(* What Block::read_block serves from its cache is that block of the       *)
(* image, through refused calls, mounts again, other images and reads that *)
(* fail, on images that end with a whole block (ImageAssumption).          *)
THEOREM CacheIsTheDisk == Spec => []CacheCoherent
  BY SpecVolume, CacheIsCoherent, PTL
=============================================================================
