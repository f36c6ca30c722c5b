------------------------------- MODULE MCCli --------------------------------
(***************************************************************************)
(* One disk of two inodes and two blocks of three words, and command lines *)
(* of every action: complete ones, with an argument missing, with two      *)
(* actions, with an option that the parser does not know.                  *)
(***************************************************************************)
EXTENDS Commands

MCWords == -1 .. 2
MCHeap  == {0}
b       == <<"b", 1024>>
n(k)    == <<"n", k>>
i(f)    == <<"i", f>>

MCHostFiles == [one |-> <<1>>, five |-> <<1, 2, 1, 2, 1>>]
MCLongNames == {"long"}
MCLines ==
  { <<>>, <<<<"h", "x">>>>,
    <<b, <<"c", "disk">>, <<"s", 6>>>>, <<<<"c", "disk">>, <<"s", 6>>>>,
    <<<<"f", "disk">>, b>>,
    <<<<"l", "disk">>, b>>, <<<<"x", "disk">>, b>>,
    <<<<"x", "disk">>, b, n(0)>>, <<<<"x", "disk">>, b, n(2)>>,
    <<<<"w", "disk">>, b, i("one")>>, <<<<"w", "disk">>, b, i("five")>>,
    <<<<"w", "disk">>, b, i("five"), n(0)>>, <<<<"w", "disk">>, b, i("gone")>>,
    <<<<"r", "disk">>, b, n(0)>>, <<<<"r", "disk">>, b, n(1)>>, <<<<"r", "disk">>, b>>,
    <<<<"d", "disk">>, b, n(0)>>, <<<<"l", "disk">>, <<"d", "disk">>, b, n(0)>>,
    <<<<"d", "disk">>, <<"o", "x">>, <<"r", "disk">>, b, n(0)>>,
    <<<<"q", "disk">>, b, n(0), i("long")>>, <<<<"q", "disk">>, b, n(0), i("one")>>,
    <<<<"q", "disk">>, b, n(0)>> }

(* A disk is made, a file imported, and another one appended to it.        *)
AppendLines == { <<b, <<"c", "disk">>, <<"s", 6>>>>,
                 <<<<"w", "disk">>, b, i("one")>>, <<<<"w", "disk">>, b, i("one"), n(0)>> }
=============================================================================
