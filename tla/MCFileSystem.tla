--------------------------- MODULE MCFileSystem ---------------------------
(***************************************************************************)
(* The instance of FileSystem that the runs without a calling discipline   *)
(* check: one file, NDirect = 1, blocks of two words, so that an indirect  *)
(* block holds one pointer and its link, the last of four blocks cut off,  *)
(* and the image becomes corrupt in a few calls.                           *)
(***************************************************************************)
EXTENDS FileSystem

MCWords    == -1 .. 4
MCHeap     == {-1, 1}
MCPayloads == {<<>>, <<1, 4, 1>>, <<1, 4, 1, 4, 1>>}
MCOffsets  == {0, 3}
MCLengths  == {0, 4}
=============================================================================
