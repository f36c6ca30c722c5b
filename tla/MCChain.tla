------------------------------- MODULE MCChain ------------------------------
(***************************************************************************)
(* Two files with NDirect = 1 and three-word blocks: an indirect block     *)
(* holds two pointers, so a file of two blocks has an indirect block and   *)
(* one of four blocks has two.                                             *)
(***************************************************************************)
EXTENDS Ownership

MCWords    == -1 .. 6
MCHeap     == {-1}
MCPayloads == {<<1, 1, 1, 2, 2, 2>>}
MCOffsets  == {0, 3}
MCLengths  == {7}
=============================================================================
