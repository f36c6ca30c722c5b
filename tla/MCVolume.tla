------------------------------ MODULE MCVolume ------------------------------
(***************************************************************************)
(* Images of five blocks of two fragments, two inodes and two data blocks  *)
(* when formatted; one that has lost its last block, one that has lost all *)
(* but the super block; one too long for an int32_t; sizes that wrap.      *)
(***************************************************************************)
EXTENDS Volume

MCFiles ==
  { [kind |-> "missing", data |-> <<>>], [kind |-> "ragged", data |-> Zeros(3)],
    Whole(<<<<2, 5, 2, 2>>>> \o Zeros(7)), Whole(<<<<2, 5, 2, 2>>>> \o Zeros(1)),
    Whole(Zeros(13)) }
MCNewImages == {<<5, 2>>, <<1, 2>>, <<6, 2>>, <<16, 2>>}
MCOffsets   == {0, -1, -2}
MCData      == {<<>>, <<<<1>>>>, <<<<1>>, <<2>>>>}
MCStale     == {7, -3}
MCRaw       == {-1, 0, 5, 6}
MCValues    == {<<3>>}

(* No guard reads the record of the last call, so two states that differ   *)
(* only in it have the same next steps.                                    *)
StateView == <<diskVars, blockVars, fs, leaked>>
=============================================================================
