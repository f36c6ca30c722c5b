---------------------------- MODULE BlockBitmap -----------------------------
(***************************************************************************)
(* The BlockBitmap class: the status bits of the blocks, packed in rows of *)
(* RowLength bits.  A row is modelled as the set of its bits that are 1.   *)
(* Both bitmaps of a FileSystem are of this class, and next_free is the    *)
(* only allocator of inodes and of blocks.                                 *)
(***************************************************************************)
EXTENDS Integers

CONSTANTS
  RowLength,    \* bitmap_row_length: 64 in the code
  Sizes,        \* the sizes resize() is called with
  MaxBlock,     \* bound: calls name blocks up to this one
  Offsets       \* the offsets next_free() is called with

ASSUME BitmapAssumption ==
  /\ RowLength \in Nat \ {0, 1}
  /\ Sizes \subseteq Int
  /\ MaxBlock \in Nat
  /\ Offsets \subseteq Int

VARIABLES
  n_blocks,     \* the number of blocks, -1 before the first resize
  bitmap,       \* row number -> set of bits
  answer        \* the last call, its argument, and what it returned

vars == <<n_blocks, bitmap, answer>>

Bits == 0 .. RowLength - 1
Rows == DOMAIN bitmap

Row(b)      == b \div RowLength
calc_pos(b) == b % RowLength

(* mask >> (RowLength - calc_pos): position p is bit p - 1.  For position  *)
(* 0 the shift is as long as the row, which C++ leaves undefined; the      *)
(* machine shifts by RowLength modulo RowLength, so it is the top bit.     *)
BitByPos(b) == calc_pos(b)                                      \* mutant
Bit(b)      == IF calc_pos(b) = 0 THEN RowLength - 1 ELSE calc_pos(b) - 1

InRange(b) == 0 <= b /\ b < n_blocks
IsSet(b)   == Bit(b) \in bitmap[Row(b)]

Calls == {"resize", "set_status", "get_status", "next_free"}
Returns(fn, arg, n) == answer' = [fn |-> fn, arg |-> arg, threw |-> FALSE, n |-> n]
Throws(fn, arg)     == answer' = [fn |-> fn, arg |-> arg, threw |-> TRUE, n |-> 0]

Init == /\ n_blocks = -1
        /\ bitmap = <<>>
        /\ answer = [fn |-> "resize", arg |-> -1, threw |-> FALSE, n |-> 0]

(* resize: all bits are cleared but those of the last row that belong to   *)
(* no block, which count as used.  They are n_unused_bits bits, from the   *)
(* second highest down.                                                    *)
NoPadding(n, map_size) == {}                                    \* mutant
Padding(n, map_size) ==
  LET n_unused_bits == map_size * RowLength - n
  IN  RowLength - n_unused_bits - 1 .. RowLength - 2

WholeRows(n) == Row(n)                                          \* mutant
MapSize(n)   == Row(n) + (IF calc_pos(n) = 0 THEN 0 ELSE 1)

resize(n) ==
  LET last == MapSize(n) - 1
  IN  \/ /\ n <= 0
         /\ Throws("resize", n)
         /\ UNCHANGED <<n_blocks, bitmap>>
      \/ /\ n > 0
         /\ n_blocks' = n
         /\ bitmap' = [r \in 0 .. last |-> IF r = last THEN Padding(n, last + 1)
                                           ELSE {}]
         /\ Returns("resize", n, 0)

set_status(b, status) ==
  \/ /\ InRange(b)
     /\ bitmap' = [bitmap EXCEPT ![Row(b)] = IF status THEN @ \cup {Bit(b)}
                                             ELSE @ \ {Bit(b)}]
     /\ Returns("set_status", b, 0)
     /\ UNCHANGED n_blocks
  \/ ~InRange(b) /\ Throws("set_status", b) /\ UNCHANGED <<n_blocks, bitmap>>

get_status(b) ==
  /\ \/ InRange(b) /\ Returns("get_status", b, IF IsSet(b) THEN 1 ELSE 0)
     \/ ~InRange(b) /\ Throws("get_status", b)
  /\ UNCHANGED <<n_blocks, bitmap>>

(* next_free: the first row that is not full, and in it the first clear    *)
(* bit from the position of the offset on; the search of a row that has    *)
(* none there ends at the first block of the next row.                     *)
RowsWithSpace(offset) == {r \in Rows : r >= Row(offset) /\ bitmap[r] # Bits}
AllSet(from, to)      == \A b \in from .. to : InRange(b) /\ IsSet(b)

next_free(offset) ==
  /\ \/ /\ ~InRange(offset)
        /\ Throws("next_free", offset)
     \/ /\ InRange(offset)
        /\ RowsWithSpace(offset) = {}
        /\ Returns("next_free", offset, -1)
     \/ /\ InRange(offset)
        /\ \E row \in RowsWithSpace(offset) :
             LET first == row * RowLength + calc_pos(offset)
                 next  == (row + 1) * RowLength
             IN  /\ \A r \in RowsWithSpace(offset) : row <= r
                 /\ \/ \E b \in first .. next - 1 :
                         /\ AllSet(first, b - 1)
                         /\ \/ InRange(b) /\ ~IsSet(b) /\ Returns("next_free", offset, b)
                            \/ ~InRange(b) /\ Throws("next_free", offset)
                    \/ AllSet(first, next - 1) /\ Returns("next_free", offset, next)
  /\ UNCHANGED <<n_blocks, bitmap>>

Next ==
  \/ \E n \in Sizes : resize(n)
  \/ \E b \in -1 .. MaxBlock :
       get_status(b) \/ \E status \in BOOLEAN : set_status(b, status)
  \/ \E offset \in Offsets : next_free(offset)

Spec == Init /\ [][Next]_vars

-----------------------------------------------------------------------------
(* Rows hold bits, and there are as many as the blocks need.               *)
BitmapTypeOK ==
  /\ n_blocks \in Int
  /\ bitmap \in [Rows -> SUBSET Bits]
  /\ \A b \in 0 .. n_blocks - 1 : Row(b) \in Rows
  /\ answer \in [fn : Calls, arg : Int, threw : BOOLEAN, n : Int]

(* A full row is one whose blocks are all used: a bit that belongs to no   *)
(* block is 1 for good, so next_free(0) neither returns such a block nor   *)
(* overlooks the last free one.                                            *)
PaddingStaysSet ==
  \A r \in Rows, bit \in Bits :
    bit \in bitmap[r] \/ \E b \in 0 .. n_blocks - 1 : Row(b) = r /\ Bit(b) = bit

UsedSet == {b \in 0 .. n_blocks - 1 : IsSet(b)}

Set == INSTANCE BlockSet WITH used <- UsedSet, size <- n_blocks

(* The bitmap is a set of blocks: no two blocks share a bit, resize        *)
(* empties it, and next_free(0), the only search the program makes,        *)
(* returns its lowest free block, or -1 when there is none.                *)
ImplementsSet == Set!SetSpec
=============================================================================
