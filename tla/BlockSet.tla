------------------------------ MODULE BlockSet ------------------------------
(***************************************************************************)
(* What a block bitmap is for: a set of used blocks out of size, and the   *)
(* lowest block that is not in it.  A search that does not start at block  *)
(* 0 changes nothing; what it returns is left open.                        *)
(***************************************************************************)
EXTENDS Integers

VARIABLES
  used,      \* the blocks in use
  size,      \* how many blocks there are; -1 before the first resize
  answer     \* the last call, its argument, and what it returned

setVars == <<used, size, answer>>

Blocks == 0 .. size - 1
Answers(fn, arg, n) ==
  answer' = [fn |-> fn, arg |-> arg, threw |-> FALSE, n |-> n]

SetInit == /\ used = {} /\ size = -1
           /\ answer = [fn |-> "resize", arg |-> -1, threw |-> FALSE, n |-> 0]

Resize == /\ size' \in Nat \ {0}
          /\ used' = {}
          /\ Answers("resize", size', 0)

Change == \E b \in Blocks :
            /\ used' = used \cup {b} \/ used' = used \ {b}
            /\ Answers("set_status", b, 0)
            /\ UNCHANGED size

Query == \E b \in Blocks :
           /\ Answers("get_status", b, IF b \in used THEN 1 ELSE 0)
           /\ UNCHANGED <<used, size>>

Lowest == /\ size > 0
          /\ \/ Blocks \subseteq used /\ Answers("next_free", 0, -1)
             \/ \E b \in Blocks \ used :
                  /\ \A c \in Blocks \ used : b <= c
                  /\ Answers("next_free", 0, b)
          /\ UNCHANGED <<used, size>>

SearchElsewhere == /\ answer'.fn = "next_free" /\ answer'.arg # 0
                   /\ UNCHANGED <<used, size>>

(* A block or a size out of range.                                         *)
Reject == /\ answer'.threw
          /\ IF answer'.fn = "resize" THEN answer'.arg <= 0
             ELSE answer'.arg \notin Blocks
          /\ UNCHANGED <<used, size>>

SetNext == Resize \/ Change \/ Query \/ Lowest \/ SearchElsewhere \/ Reject

SetSpec == SetInit /\ [][SetNext]_setVars
=============================================================================
