------------------------------ MODULE MCDirect ------------------------------
(***************************************************************************)
(* Two files of up to three direct blocks each, on a disk of three blocks. *)
(***************************************************************************)
EXTENDS DirectFiles

MCWords    == -1 .. 2
MCHeap     == {0}
MCPayloads == {<<1, 2, 1>>}
MCOffsets  == {0, 1, 4}
MCLengths  == {2}
=============================================================================
