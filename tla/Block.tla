-------------------------------- MODULE Block -------------------------------
(***************************************************************************)
(* The Block class: read and write within one block of the disk, through a *)
(* cache of one block, and where the inodes and the data blocks are.  MB   *)
(* is the super block of the file system that owns the object.             *)
(***************************************************************************)
EXTENDS Disk

VARIABLES
  MB, casched_block, rwbuffer,
  call      \* the last call of the object's owner, and how it has ended

blockVars == <<MB, casched_block, rwbuffer>>

NoBlock == -1        \* fs_nullptr
Resized(size) == [k \in 1 .. size |-> IF k <= Len(rwbuffer) THEN rwbuffer[k]
                                      ELSE <<0>>]

(* get_n_inodes_in_block: an inode is one fragment.                        *)
NInodesInBlock  == MB.block_size
InodeBlockN0(n) == n \div NInodesInBlock                          \* mutant
InodeBlockN(n)  == (n \div NInodesInBlock) + 1
DataBlockN0(n)  == n + MB.n_inode_blocks                         \* mutant
DataBlockN(n)   == n + MB.n_inode_blocks + 1

HasInodeN(n) == 0 <= n /\ n < MB.n_inode_blocks
HasDataN(n)  == 0 <= n /\ n < MB.n_data_blocks
HasBlockN(b) == 0 <= b /\ b < MB.n_blocks

(* read_block: a block that is in the cache is not read again.  A read     *)
(* that brings less than a block throws, with the number of the old block  *)
(* still on a buffer that is partly the new one.                           *)
Hit(b)     == b = casched_block
ReadsBlock(b) == Hit(b) \/ Count(b, MB.block_size) = MB.block_size

BufferWith(b) ==
  LET words == IF Hit(b) \/ ~Mounted THEN <<>> ELSE Fetched(b, MB.block_size)
  IN  [k \in DOMAIN rwbuffer |-> IF k <= Len(words) THEN words[k]
                                 ELSE rwbuffer[k]]

StreamAfterBlock(b) ==
  IF Hit(b) THEN disk_img ELSE StreamAfter(b, MB.block_size)

-----------------------------------------------------------------------------
(* A read or write on behalf of the call c, which asks for c.data, or for  *)
(* as much of it; it leaves in call how that ended and what was done.      *)
At(offset)    == IF offset >= 0 THEN offset ELSE MB.block_size + offset
Space(offset) == MB.block_size - At(offset)

BadBlock(b, offset) ==
  ~HasBlockN(b) \/ offset >= MB.block_size \/ -offset >= MB.block_size

Threw(c)   == call' = [c EXCEPT !.how = "threw"]
Refuses(c) == Threw(c) /\ UNCHANGED <<diskVars, blockVars>>
Nothing(c) == call' = c /\ UNCHANGED <<diskVars, blockVars>>

NamedTooSoon(b) == b                                            \* mutant
StillNamed(b)   == casched_block

Fails(b, c) ==
  /\ ~ReadsBlock(b)
  /\ Threw(c)
  /\ rwbuffer' = BufferWith(b)
  /\ casched_block' = StillNamed(b)
  /\ disk_img' = StreamAfterBlock(b)
  /\ UNCHANGED <<file, disk_img_size, mounted, block_size, MB>>

BlockRead(b, offset, length, c) ==
  \/ BadBlock(b, offset) /\ Refuses(c)
  \/ ~BadBlock(b, offset) /\ length > Space(offset) /\ Refuses(c)
  \/ ~BadBlock(b, offset) /\ length = 0 /\ Nothing(c)
  \/ /\ ~BadBlock(b, offset) /\ length \in 1 .. Space(offset)
     /\ \/ Fails(b, c)
        \/ /\ ReadsBlock(b)
           /\ casched_block' = b /\ rwbuffer' = BufferWith(b)
           /\ disk_img' = StreamAfterBlock(b)
           /\ call' = [c EXCEPT !.data = SubSeq(rwbuffer', At(offset) + 1,
                                               At(offset) + length)]
           /\ UNCHANGED <<file, disk_img_size, mounted, block_size, MB>>

(* A write goes on with what has room in the block.  It changes the cache  *)
(* first and then stores all of it; the disk may have less room than that. *)
BlockWrite(b, offset, data, c) ==
  LET n == Least(Len(data), Space(offset))
  IN  \/ BadBlock(b, offset) /\ Refuses(c)
      \/ ~BadBlock(b, offset) /\ data = <<>> /\ Nothing(c)
      \/ /\ ~BadBlock(b, offset) /\ data # <<>>
         /\ \/ Fails(b, c)
            \/ /\ ReadsBlock(b)
               /\ casched_block' = b
               /\ rwbuffer' = [k \in DOMAIN rwbuffer |->
                    IF At(offset) < k /\ k <= At(offset) + n
                    THEN data[k - At(offset)] ELSE BufferWith(b)[k]]
               /\ file' = IF Mounted THEN Stored(b, rwbuffer') ELSE file
               /\ disk_img' = IF StreamAfterBlock(b) = "failed" THEN "failed"
                              ELSE StreamAfter(b, MB.block_size)
               /\ IF Count(b, MB.block_size) = MB.block_size
                  THEN call' = [c EXCEPT !.data = SubSeq(data, 1, n)] ELSE Threw(c)
               /\ UNCHANGED <<disk_img_size, mounted, block_size, MB>>
=============================================================================
