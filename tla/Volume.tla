------------------------------- MODULE Volume -------------------------------
(***************************************************************************)
(* A FileSystem object on a Disk: its Block, the super block, mount,       *)
(* unmount and format, and the block transfers that its calls are made of  *)
(* (what they transfer is the matter of Inode and FileSystem).  Each       *)
(* action is one call of the program's interface, and each transfer one    *)
(* read or write of an inode or of part of a data block.                   *)
(***************************************************************************)
EXTENDS Block

CONSTANTS
  InodeShare,    \* one block in so many is for inodes: 10, as format has it
  InitialFiles,  \* the images a host may have
  BlockSizes,    \* the block sizes a Disk may be made with
  NewImages,     \* the sizes an image may be created with: <<blocks, size>>
  Numbers, Values, Offsets, Data,   \* the inodes and data transferred
  RawBlocks,     \* the blocks a user of Disk alone may read
  MaxMounts      \* bound: no mount when the count is this

ASSUME VolumeAssumption ==
  /\ InodeShare \in Nat \ {0, 1}
  /\ BlockSizes \subseteq Nat \ {0}
  /\ NewImages \subseteq Nat \X Nat
  /\ InitialFiles \subseteq [kind : {"missing", "ragged", "whole"},
                             data : Seq(Seq(Int))]
  /\ Numbers \subseteq Int /\ Offsets \subseteq Int /\ RawBlocks \subseteq Int
  /\ Values \subseteq Seq(Int) /\ Data \subseteq Seq(Seq(Int))

VARIABLES
  fs,       \* the FileSystem object: whether there is one, whether mount has
            \* sized its bitmaps, and how many mounts are to be unmounted
  leaked    \* history: mounts that nobody will undo

vars == <<diskVars, blockVars, fs, leaked, call>>

NoFs  == [live |-> FALSE, ready |-> FALSE, mounts |-> 0]
Idle  == [op |-> "none", kind |-> "none", n |-> 0, at |-> 0, data |-> <<>>,
          how |-> "ok"]
Ends(op, how) == call' = [Idle EXCEPT !.op = op, !.how = how]

(* A super block is a fragment of four numbers, sealed with the magic      *)
(* number and the checksum, which no other fragment carries.               *)
Fragment(mb) == <<mb.block_size, mb.n_blocks, mb.n_inode_blocks, mb.n_data_blocks>>
SuperBlock(f) ==
  IF Len(f) = 4
  THEN [sealed |-> TRUE, block_size |-> f[1], n_blocks |-> f[2],
        n_inode_blocks |-> f[3], n_data_blocks |-> f[4]]
  ELSE [sealed |-> FALSE, block_size |-> 0, n_blocks |-> 0,
        n_inode_blocks |-> 0, n_data_blocks |-> 0]
NoMB == [SuperBlock(<<0>>) EXCEPT !.block_size = -1]

(* What format divides a disk into: the super block, the inode blocks and  *)
(* the data blocks are all of it.                                          *)
Divided(mb) ==
  /\ mb.block_size \in Nat \ {0}
  /\ mb.n_inode_blocks \in Nat /\ mb.n_data_blocks \in Nat
  /\ mb.n_blocks = 1 + mb.n_inode_blocks + mb.n_data_blocks

(* An image with a seal has been formatted, when it had all the blocks of  *)
(* its super block, or was too small for one; since then the host may have *)
(* cut off some, whole ones.                                               *)
SoundImage(f) ==
  LET mb   == SuperBlock(f.data[1])
      size == mb.n_blocks * mb.block_size
  IN  f.kind = "whole" /\ f.data # <<>> =>
        (mb.sealed =>
           \/ mb.n_blocks = 0 /\ mb.n_inode_blocks = 0 /\ mb.n_data_blocks = -1
           \/ /\ Divided(mb) /\ size < Int32
              /\ size <= Len(f.data) \/ Len(f.data) % mb.block_size = 0)

ASSUME ImageAssumption == \A f \in InitialFiles : SoundImage(f)

Init ==
  /\ file \in InitialFiles
  /\ disk_img = "closed" /\ disk_img_size = 0 /\ mounted = 0 /\ block_size = 0
  /\ MB = NoMB /\ casched_block = NoBlock /\ rwbuffer = <<>>
  /\ fs = NoFs /\ leaked = 0 /\ call = Idle

-----------------------------------------------------------------------------
(* Disk by itself: a new object in a new process, an image opened or made, *)
(* and a block read past the file system.                                  *)
MakeDisk(b) ==
  /\ NewDisk(b)
  /\ leaked' = 0
  /\ Ends("disk", IF b % Quant = 0 THEN "ok" ELSE "threw")
  /\ UNCHANGED <<blockVars, fs>>

DropDisk ==
  /\ ~fs.live
  /\ DeleteDisk
  /\ Ends("drop", "ok")
  /\ UNCHANGED <<blockVars, fs, leaked>>

Open(f) ==
  /\ block_size # 0
  /\ \/ OpenImage(f) /\ Ends("open", IF f.kind = "whole" THEN "ok" ELSE "threw")
     \/ OpenRefused /\ Ends("open", "threw")
  /\ UNCHANGED <<blockVars, fs, leaked>>

Create(n, b) ==
  /\ CreateImage(n, b)
  /\ Ends("create", "ok")
  /\ UNCHANGED <<blockVars, fs, leaked>>

RawRead(n) ==
  /\ block_size # 0
  /\ disk_img' = StreamAfter(n, block_size)
  /\ Ends("raw", IF Mounted THEN "ok" ELSE "refused")
  /\ UNCHANGED <<file, disk_img_size, mounted, block_size, blockVars, fs, leaked>>

-----------------------------------------------------------------------------
(* The FileSystem object: its Block holds the disk mounted for as long as  *)
(* the object lives, and unmount does not give that up.                    *)
Construct ==
  /\ block_size # 0 /\ ~fs.live
  /\ fs' = [NoFs EXCEPT !.live = TRUE]
  /\ mounted' = mounted + 1
  /\ MB' = NoMB /\ casched_block' = NoBlock /\ rwbuffer' = <<>>
  /\ Ends("construct", "ok")
  /\ UNCHANGED <<file, disk_img, disk_img_size, block_size, leaked>>

NoneLess == mounted                                             \* mutant
OneLess  == IF mounted > 0 THEN mounted - 1 ELSE 0

Destroy ==
  /\ fs.live
  /\ fs' = NoFs /\ leaked' = leaked + fs.mounts
  /\ mounted' = OneLess
  /\ MB' = NoMB /\ casched_block' = NoBlock /\ rwbuffer' = <<>>
  /\ Ends("destroy", "ok")
  /\ UNCHANGED <<file, disk_img, disk_img_size, block_size>>

Unmount ==
  /\ fs.live
  /\ mounted' = OneLess
  /\ fs' = [fs EXCEPT !.mounts = @ - 1]
  /\ Ends("unmount", "ok")
  /\ UNCHANGED <<file, disk_img, disk_img_size, block_size, blockVars, leaked>>

(* read_super_block: a read that brings nothing leaves MB as it is.        *)
Seen == IF Streams THEN SuperBlock(file.data[1]) ELSE MB
SuperBlockRead  == disk_img # "closed" /\ Cut(0, 1) = 1
SuperBlockSound == /\ SuperBlockRead /\ Seen.sealed
                   /\ Seen.block_size % Quant = 0 /\ Seen.n_blocks > 0

(* mount counts the disk up, and so does read_super_block for its own      *)
(* time: when it throws both counts stay.                                  *)
MountNoSuperBlock ==
  /\ fs.live /\ ~SuperBlockSound
  /\ MB' = IF SuperBlockRead THEN Seen ELSE MB
  /\ mounted' = mounted + 2 /\ leaked' = leaked + 2
  /\ fs' = [fs EXCEPT !.ready = FALSE]
  /\ Ends("mount", "threw")
  /\ UNCHANGED <<file, disk_img, disk_img_size, block_size, casched_block, rwbuffer>>

(* A bitmap for no inodes cannot be made: then the count of mount stays.   *)
MountNoInodes ==
  /\ fs.live /\ SuperBlockSound /\ Seen.n_inode_blocks = 0
  /\ MB' = Seen
  /\ mounted' = mounted + 1 /\ leaked' = leaked + 1
  /\ fs' = [fs EXCEPT !.ready = FALSE]
  /\ Ends("mount", "threw")
  /\ UNCHANGED <<file, disk_img, disk_img_size, block_size, casched_block, rwbuffer>>

(* scan_blocks reads the blocks of all inodes in turn, and throws at one   *)
(* that is not there; the last one it has read stays in the cache.         *)
ScanBlock(n)  == (n \div Seen.block_size) + 1
InodesSeen    == 0 .. Seen.n_inode_blocks - 1
Full(n)       == Cut(ScanBlock(n), Seen.block_size) = Seen.block_size
Scanned       == {n \in InodesSeen : \A m \in 0 .. n : Full(m)}
Tried         == {n \in InodesSeen : \A m \in 0 .. n - 1 : Full(m)}

MountScan ==
  LET last  == IF Scanned = {} THEN NoBlock
               ELSE ScanBlock(CHOOSE n \in Scanned : n + 1 \notin Scanned)
      words == IF last = NoBlock THEN <<>> ELSE Fetched(last, Seen.block_size)
      ok    == Scanned = InodesSeen
  IN  /\ fs.live /\ SuperBlockSound /\ Seen.n_inode_blocks > 0
      /\ MB' = Seen
      /\ casched_block' = last
      /\ rwbuffer' = IF words = <<>> THEN Resized(Seen.block_size) ELSE words
      /\ disk_img' = IF \E n \in Tried : ~Fits(ScanBlock(n), Seen.block_size)
                     THEN "failed" ELSE disk_img
      /\ mounted' = mounted + 1
      /\ leaked' = IF ok THEN leaked ELSE leaked + 1
      /\ fs' = IF ok THEN [fs EXCEPT !.ready = TRUE, !.mounts = @ + 1]
               ELSE [fs EXCEPT !.ready = FALSE]
      /\ Ends("mount", IF ok THEN "ok" ELSE "threw")
      /\ UNCHANGED <<file, disk_img_size, block_size>>

-----------------------------------------------------------------------------
(* The super block that format makes: one block of InodeShare is for the   *)
(* inodes, the product in double cut toward zero.                          *)
RealSize    == GetDiskSize - 1
InodeBlocks == Quotient(RealSize, InodeShare)
NewMB == [sealed |-> TRUE, block_size |-> block_size, n_blocks |-> GetDiskSize,
          n_inode_blocks |-> InodeBlocks, n_data_blocks |-> RealSize - InodeBlocks]

(* format writes it, then resets every inode through a Block of its own,   *)
(* which has the disk mounted meanwhile.  A bitmap for no blocks throws.   *)
Format ==
  LET sealed == Stored(0, <<Fragment(NewMB)>>)
      places == {((n \div block_size) + 1) * block_size + (n % block_size) + 1 :
                   n \in 0 .. InodeBlocks - 1}
      threw  == RealSize <= 0 \/ (disk_img = "closed" /\ InodeBlocks > 0)
  IN  /\ block_size # 0
      /\ file' = IF threw \/ ~Streams THEN sealed
                 ELSE [sealed EXCEPT !.data =
                         [k \in DOMAIN @ |-> IF k \in places THEN <<0>> ELSE @[k]]]
      /\ Ends("format", IF threw THEN "threw" ELSE "ok")
      /\ UNCHANGED <<disk_img, disk_img_size, mounted, block_size, blockVars,
                     fs, leaked>>

-----------------------------------------------------------------------------
(* One transfer of a call: an inode is loaded or committed, or a part of a *)
(* data block is read or written.  For a number that is not one of the     *)
(* super block's, the address functions throw.                             *)
Transfer(op, kind, n, at, data, b) ==
  LET c     == [op |-> op, kind |-> kind, n |-> n, at |-> at, data |-> data,
                how |-> "ok"]
      known == IF kind = "inode" THEN HasInodeN(n) ELSE HasDataN(n)
      from  == IF kind = "inode" THEN n % MB.block_size ELSE at
  IN  /\ fs.ready
      /\ \/ ~known /\ Refuses(c)
         \/ known /\ op = "read"  /\ BlockRead(b, from, Len(data), c)
         \/ known /\ op = "write" /\ BlockWrite(b, from, data, c)
      /\ UNCHANGED <<fs, leaked>>

TransferInode(op, n, value) ==
  Transfer(op, "inode", n, 0, <<value>>, InodeBlockN(n))

TransferData(op, n, at, data) ==
  Transfer(op, "data", n, at, data, DataBlockN(n))

-----------------------------------------------------------------------------
Next ==
  \/ \E b \in BlockSizes : MakeDisk(b)
  \/ DropDisk
  \/ \E f \in {file} \cup InitialFiles : Open(f)
  \/ \E image \in NewImages : Create(image[1], image[2])
  \/ \E n \in RawBlocks : RawRead(n)
  \/ Construct \/ Destroy \/ Unmount
  \/ MountNoSuperBlock \/ MountNoInodes \/ MountScan
  \/ Format
  \/ \E op \in {"read", "write"}, n \in Numbers :
       \/ \E v \in Values : TransferInode(op, n, v)
       \/ \E at \in Offsets, data \in Data : TransferData(op, n, at, data)

(* The discipline of a caller: a mounted file system is not formatted, it  *)
(* is unmounted as often as it was mounted at most, the image is mounted   *)
(* with the block size it was formatted with, and the Disk is used only    *)
(* after an open that did not throw, and after a read outside the image    *)
(* only once it is opened again.  An image is created before the Disk has  *)
(* it open, and one whose length an int32_t cannot hold may be opened and  *)
(* read past the file system, but is not formatted or mounted.  MaxMounts  *)
(* bounds the mounts.                                                      *)
Careful ==
  /\ call'.op = "create" => disk_img = "closed"
  /\ call'.op = "format" => ~fs.ready
  /\ call'.op = "unmount" => fs.mounts > 0
  /\ call'.op = "mount" => /\ mounted < MaxMounts
                           /\ SuperBlockSound => Seen.block_size = block_size
                           /\ disk_img \in {"closed", "good"}
  /\ call'.op \in {"format", "read", "write"} => disk_img = "good"
  /\ call'.op \in {"format", "mount"} => Len(file.data) < Int32

Spec == Init /\ [][Next /\ Careful]_vars

-----------------------------------------------------------------------------
VolumeTypeOK ==
  /\ file.kind \in {"missing", "ragged", "whole"} /\ file.data \in Seq(Seq(Int))
  /\ disk_img \in {"closed", "good", "failed", "refused"}
  /\ disk_img_size \in -Int32 .. Int32 - 1 /\ mounted \in Nat /\ block_size \in Nat
  /\ casched_block \in Nat \cup {NoBlock} /\ rwbuffer \in Seq(Seq(Int))
  /\ fs \in [live : BOOLEAN, ready : BOOLEAN, mounts : Nat] /\ leaked \in Nat

(* The mount count is what the object and its calls have taken and given   *)
(* back, and what a mount that threw has left behind: it never falls to    *)
(* zero under a FileSystem, whose transfers would then all fail.           *)
MountsAccounted ==
  block_size # 0 => mounted = (IF fs.live THEN 1 ELSE 0) + fs.mounts + leaked

(* The image that a FileSystem has open, mounted or not, is never          *)
(* exchanged under it: only its format and its own transfers change what   *)
(* it finds there, and they leave its length, which open has found.        *)
ImageKept ==
  [][fs.live /\ fs'.live /\ disk_img # "closed" /\ file' # file =>
       /\ call'.op \in {"write", "format"}
       /\ Len(file'.data) = Len(file.data)]_vars

(* What the cache calls block casched_block is that block of the image,    *)
(* also after reads that failed for blocks missing as a whole.  A block    *)
(* cut off inside would leave parts of two blocks in the buffer; there is  *)
(* none in the images here (SoundImage).                                   *)
CacheCoherent ==
  fs.ready /\ casched_block # NoBlock =>
    /\ Len(rwbuffer) = MB.block_size
    /\ \A k \in DOMAIN rwbuffer :
         LET at == casched_block * MB.block_size + k
         IN  at \in DOMAIN file.data /\ file.data[at] = rwbuffer[k]

(* The places of the device, by the layout of a formatted image: block 0   *)
(* is the super block's, then the inodes side by side, then the data.      *)
Formatted == file.kind = "whole" /\ file.data # <<>> /\ Len(file.data[1]) = 4
Geometry  == SuperBlock(file.data[1])

(* A file system that is ready goes by the super block of the open image,  *)
(* on a Disk of its block size: a transfer never overwrites it, and no     *)
(* mount that fails leaves the bitmaps of another one usable.              *)
SuperBlockKept ==
  /\ SoundImage(file)
  /\ fs.ready =>
       /\ fs.live /\ disk_img # "closed" /\ casched_block # NoBlock
       /\ Formatted /\ MB = Geometry
       /\ MB.n_blocks > 0 /\ MB.block_size = block_size

AllPlaces ==
  ({"inode"} \X (0 .. Geometry.n_inode_blocks - 1) \X {0}) \cup
  ({"data"} \X (0 .. Geometry.n_data_blocks - 1) \X (0 .. Geometry.block_size - 1))

PlaceAt(p) ==
  IF p[1] = "inode" THEN Geometry.block_size + p[2] + 1
  ELSE (1 + Geometry.n_inode_blocks + p[2]) * Geometry.block_size + p[3] + 1

PlaceSet ==
  IF Formatted THEN {p \in AllPlaces : PlaceAt(p) <= Len(file.data)} ELSE {}

Places == [p \in PlaceSet |-> file.data[PlaceAt(p)]]
Width  == IF Formatted THEN Geometry.block_size ELSE 0

Device == INSTANCE BlockDevice WITH places <- Places, width <- Width, call <- call

(* Through the cache, the offsets, the address functions and any number of *)
(* mounts, an inode or a data block is what was last written to it, and no *)
(* write touches another one.                                              *)
ImplementsDevice == Device!DeviceSpec
=============================================================================
