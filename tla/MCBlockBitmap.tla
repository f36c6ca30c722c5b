--------------------------- MODULE MCBlockBitmap ---------------------------
(***************************************************************************)
(* Rows of three bits, and sizes of no block, of less than a row, of whole *)
(* rows and of one block more.                                             *)
(***************************************************************************)
EXTENDS BlockBitmap

MCSizes    == {-1, 0, 1, 2, 3, 4, 6, 7}
AnyOffset  == {-1, 0, 2, 4, 7}
=============================================================================
