------------------------------ MODULE MCMisuse ------------------------------
(***************************************************************************)
(* Instances for Misuse: on direct blocks only, and with indirect blocks.  *)
(* A word may also be a pointer that leads out of the disk.                *)
(***************************************************************************)
EXTENDS Misuse

MCWords        == -1 .. 6
MCHeap         == {-1}
SmallPayloads  == {<<1>>, <<1, 2, 1>>}
LargePayloads  == {<<6, 1, 6>>, <<6, 1, 6, 1, 6, 1>>}
TwoBlocks      == {<<6, 1, 6, 1, 6, 1>>}
MCOffsets      == {0, 3}
MCLengths      == {2}
=============================================================================
