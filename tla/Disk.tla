-------------------------------- MODULE Disk --------------------------------
(***************************************************************************)
(* The Disk class: an image file of the host, the stream that is open on   *)
(* it, and the count of those who have it mounted.                         *)
(*                                                                         *)
(* The unit is the fragment of meta_fragm_size_bytes (64 bytes), the size  *)
(* of an inode and of a super block: an image is a sequence of fragments,  *)
(* sizes and offsets count them, and Int32 of them are 2^31 bytes.  A      *)
(* fragment is a tuple: <<0>> when its bytes are zero.                     *)
(***************************************************************************)
EXTENDS Integers, Sequences

CONSTANTS
  Quant,       \* quant_block_size
  Int32,       \* the first size that an int32_t cannot hold
  StaleSizes   \* what disk_img_size may happen to be before the first open

ASSUME DiskAssumption ==
  /\ Quant \in Nat \ {0}
  /\ Int32 \in Nat \ {0}
  /\ StaleSizes \subseteq -Int32 .. Int32 - 1

VARIABLES
  file,            \* the image: its kind, and what it holds
  disk_img,        \* the stream: "closed", "good", "failed", or "refused"
  disk_img_size,
  mounted,
  block_size       \* of the Disk object; 0 when there is none

diskVars == <<file, disk_img, disk_img_size, mounted, block_size>>

Whole(data) == [kind |-> "whole", data |-> data]
Zeros(n)    == [k \in 1 .. n |-> <<0>>]
Least(a, b) == IF a <= b THEN a ELSE b

(* C++ division, toward zero.                                              *)
Quotient(a, b) == IF a >= 0 THEN a \div b ELSE -((-a) \div b)

(* int32_t arithmetic.                                                     *)
WrapNot(x) == x                                                 \* mutant
Wrap(x) == ((x + Int32) % (2 * Int32)) - Int32

-----------------------------------------------------------------------------
(* write and read cut what reaches past the end of the image: Cut is the   *)
(* length they go on with and return.  When it is negative, or the offset  *)
(* is, the stream fails, and from then on nothing is transferred at all,   *)
(* while the same lengths are returned.                                    *)
Offset(n)    == Wrap(n * block_size)
Cut(n, len)  == len + Least(0, Wrap(disk_img_size - Wrap(Offset(n) + len)))
Fits(n, len) == Offset(n) >= 0 /\ Cut(n, len) >= 0

Streams      == disk_img \in {"good", "refused"}
Mounted      == disk_img # "closed" /\ mounted > 0
Count(n, len)       == IF Mounted THEN Cut(n, len) ELSE -1
StreamAfter(n, len) == IF Mounted /\ ~Fits(n, len) THEN "failed" ELSE disk_img

(* What a read brings from a mounted disk, and the image after a write.    *)
Fetched(n, len) ==
  IF Streams /\ Fits(n, len)
  THEN SubSeq(file.data, Offset(n) + 1, Offset(n) + Cut(n, len)) ELSE <<>>

Stored(n, data) ==
  IF Streams /\ Fits(n, Len(data))
  THEN [file EXCEPT !.data =
          [k \in DOMAIN @ |->
             IF Offset(n) < k /\ k <= Offset(n) + Cut(n, Len(data))
             THEN data[k - Offset(n)] ELSE @[k]]]
  ELSE file

-----------------------------------------------------------------------------
(* The constructor; it throws when the block size does not fit.            *)
NewDisk(b) ==
  /\ block_size = 0
  /\ block_size' = IF b % Quant = 0 THEN b ELSE 0
  /\ disk_img' = "closed"
  /\ disk_img_size' \in StaleSizes
  /\ mounted' = 0
  /\ UNCHANGED file

DeleteDisk ==
  /\ block_size # 0
  /\ block_size' = 0
  /\ disk_img' = "closed"
  /\ UNCHANGED <<file, disk_img_size, mounted>>

(* open refuses while an image is mounted.  When it throws for the size of *)
(* the new image f, the stream stays open on it all the same.  The size of *)
(* an image of any length is narrowed to an int32_t.                       *)
CanOpenAlways == TRUE                                           \* mutant
CanOpen       == mounted = 0

OpenRefused == ~CanOpen /\ UNCHANGED diskVars

OpenImage(f) ==
  /\ CanOpen
  /\ file' = f
  /\ disk_img' = CASE f.kind = "missing" -> "closed"
                   [] f.kind = "ragged"  -> "refused"
                   [] f.kind = "whole"   -> "good"
  /\ disk_img_size' = IF f.kind = "missing" THEN -1 ELSE Wrap(Len(f.data))
  /\ UNCHANGED <<mounted, block_size>>

(* create makes a new, empty file and writes its last byte.  The size may  *)
(* wrap around; when it is not positive nothing is written.  It is static: *)
(* a Disk may exist, be open and be mounted, and is not told.              *)
CreateImage(n, b) ==
  /\ file' = Whole(IF Wrap(b * n) > 0 THEN Zeros(Wrap(b * n)) ELSE <<>>)
  /\ UNCHANGED <<disk_img, disk_img_size, mounted, block_size>>

GetDiskSize == Quotient(disk_img_size, block_size)
=============================================================================
