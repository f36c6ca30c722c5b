------------------------------- MODULE Misuse -------------------------------
(***************************************************************************)
(* What the repository says of the program and the program does not do.    *)
(* Each specification below drops one part of a discipline of Ownership    *)
(* and keeps the others, and each property is violated by that dropped     *)
(* part alone: together they show that every part is needed.               *)
(***************************************************************************)
EXTENDS Ownership

(* An edit that reaches the end of the file from an earlier block.         *)
AnyEditSpec   == Init /\ [][/\ Next /\ AppendFillsTail /\ ReadHasBlock
                            /\ DirectOnly]_vars

(* An indirect block filled to its last pointer.                           *)
AnyLengthSpec == Init /\ [][/\ Next /\ Careful
                            /\ RoomForAll /\ ListsFresh
                            /\ ShortChainsRemoved]_vars

(* A first indirect block while the object holds the list of another file. *)
AnyOrderSpec  == Init /\ [][/\ Next /\ Careful
                            /\ LastPtrUnused /\ RoomForAll
                            /\ ShortChainsRemoved]_vars

(* A write for which the disk has no room.                                 *)
AnySpaceSpec  == Init /\ [][/\ Next /\ Careful
                            /\ LastPtrUnused /\ ListsFresh
                            /\ ShortChainsRemoved]_vars

(* The removal of a file of several indirect blocks.                       *)
AnyRemoveSpec == Init /\ [][/\ Next /\ Careful
                            /\ LastPtrUnused /\ RoomForAll /\ ListsFresh]_vars

-----------------------------------------------------------------------------
(* An edit within the file writes all it was given: edit_data does not     *)
(* throw when it has found that there is something to edit.                *)
EditSucceeds ==
  [][(pc = "edit" \/ pc = "edit_rest") => result'.how # "threw"]_vars

(* New pointers go into a block that is allocated as an indirect block of  *)
(* this file: the block they are written to holds nothing of a used file   *)
(* but pointers past its length.                                           *)
FillsOwnIndirectBlock ==
  [][pc = "fill" => \A n \in UsedInodes : FileWords(n)' = FileWords(n)]_vars

(* The same, of the chain the block is taken from: it is the one of the    *)
(* inode that is being committed.                                          *)
FillsOwnChain ==
  pc = "fill" /\ indirect_block_n # <<>> =>
    /\ HasIndirect(inodes[loaded_inode_n])
    /\ Head(indirect_block_n) =
         Chain(inodes[loaded_inode_n])[NChain(inodes[loaded_inode_n])]

(* Every block of a file that is within its length has a pointer.          *)
StoredPointersExist ==
  pc = "idle" => \A n \in UsedInodes :
    \A i \in DOMAIN Ptrs(inodes[n]) : Ptrs(inodes[n])[i] # Null

(* An image the program has written can be mounted and formatted.         *)
ImageStaysUsable ==
  [][call.op \in {"mount", "format"} => result'.how # "threw"]_vars
=============================================================================
