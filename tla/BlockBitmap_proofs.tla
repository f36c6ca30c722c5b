------------------------- MODULE BlockBitmap_proofs -------------------------
(***************************************************************************)
(* Theorems about BlockBitmap, for every row length and every size: the    *)
(* packed bitmap is a set of blocks with a lowest-first search.            *)
(***************************************************************************)
EXTENDS BlockBitmap, TLAPS

(* A block number is its row and its position in it.                       *)
LEMMA RowAndPos ==
  ASSUME NEW b \in Nat
  PROVE  /\ Row(b) \in Nat /\ calc_pos(b) \in 0 .. RowLength - 1
         /\ b = Row(b) * RowLength + calc_pos(b)
  BY BitmapAssumption, Z3 DEF Row, calc_pos

LEMMA BlockOfRowAndPos ==
  ASSUME NEW r \in Nat, NEW p \in 0 .. RowLength - 1
  PROVE  /\ r * RowLength + p \in Nat
         /\ Row(r * RowLength + p) = r /\ calc_pos(r * RowLength + p) = p
  <1> DEFINE b == r * RowLength + p
  <1>1. RowLength \in Nat \ {0, 1} /\ p \in Nat
    BY BitmapAssumption
  <1>2. r * RowLength \in Nat
    BY <1>1
  <1>3. b \in Nat
    BY <1>1, <1>2
  <1>4. PICK q \in Nat, s \in 0 .. RowLength - 1 :
          q = b \div RowLength /\ s = b % RowLength /\ b = q * RowLength + s
    BY <1>1, <1>3, Z3
  <1>5. /\ q * RowLength < r * RowLength + RowLength
        /\ r * RowLength < q * RowLength + RowLength
    <2>1. PICK x \in Nat, y \in Nat : x = q * RowLength /\ y = r * RowLength
      BY <1>1, <1>2
    <2>2. x + s = y + p /\ s < RowLength /\ p < RowLength
      BY <1>1, <1>4, <2>1
    <2> QED
      BY <1>1, <2>1, <2>2
  <1>6. q = r
    <2>1. \A j, k \in Nat : j * RowLength < k * RowLength + RowLength => j <= k
      BY <1>1, Z3
    <2> QED
      BY <1>5, <2>1
  <1>7. s = p
    BY <1>1, <1>2, <1>4, <1>6
  <1> QED
    BY <1>3, <1>4, <1>6, <1>7 DEF Row, calc_pos

(* The bit of a block tells its position, and the other way round.         *)
LEMMA BitType ==
  ASSUME NEW b \in Nat
  PROVE  Bit(b) \in Bits
  <1>1. calc_pos(b) \in 0 .. RowLength - 1 /\ RowLength \in Nat
    BY BitmapAssumption, RowAndPos
  <1> QED
    BY <1>1 DEF Bit, Bits

LEMMA SameBit ==
  ASSUME NEW b \in Nat, NEW c \in Nat, Row(b) = Row(c), Bit(b) = Bit(c)
  PROVE  b = c
  <1>1. calc_pos(b) = calc_pos(c)
    <2>1. calc_pos(b) \in 0 .. RowLength - 1 /\ calc_pos(c) \in 0 .. RowLength - 1
      BY RowAndPos
    <2>2. RowLength \in Nat
      BY BitmapAssumption
    <2> QED
      BY <2>1, <2>2 DEF Bit
  <1>2. /\ b = Row(b) * RowLength + calc_pos(b)
        /\ c = Row(c) * RowLength + calc_pos(c)
    BY RowAndPos
  <1>3. Row(b) * RowLength = Row(c) * RowLength
    OBVIOUS
  <1>4. Row(b) * RowLength \in Int /\ calc_pos(b) \in Int
    BY RowAndPos, BitmapAssumption
  <1> QED
    BY <1>1, <1>2, <1>3, <1>4

(* The block that a bit of a row stands for.                               *)
PosOfBit(bit)   == IF bit = RowLength - 1 THEN 0 ELSE bit + 1
BlockAt(r, bit) == r * RowLength + PosOfBit(bit)

LEMMA BlockAtBit ==
  ASSUME NEW r \in Nat, NEW bit \in Bits
  PROVE  /\ PosOfBit(bit) \in 0 .. RowLength - 1 /\ BlockAt(r, bit) \in Nat
         /\ Row(BlockAt(r, bit)) = r /\ Bit(BlockAt(r, bit)) = bit
  <1>1. PosOfBit(bit) \in 0 .. RowLength - 1
    BY BitmapAssumption DEF Bits, PosOfBit
  <1>2. /\ BlockAt(r, bit) \in Nat /\ Row(BlockAt(r, bit)) = r
        /\ calc_pos(BlockAt(r, bit)) = PosOfBit(bit)
    BY <1>1, BlockOfRowAndPos DEF BlockAt
  <1>3. Bit(BlockAt(r, bit)) = bit
    BY <1>2, BitmapAssumption DEF Bit, PosOfBit, Bits
  <1> QED
    BY <1>1, <1>2, <1>3

(* As many rows as the blocks need, and the last of them holds a block.    *)
LEMMA RowsForBlocks ==
  ASSUME NEW n \in Nat \ {0}
  PROVE  /\ MapSize(n) \in Nat \ {0}
         /\ (MapSize(n) - 1) * RowLength < n /\ n <= MapSize(n) * RowLength
         /\ \A b \in 0 .. n - 1 : Row(b) \in 0 .. MapSize(n) - 1
  <1>1. RowLength \in Nat \ {0, 1}
    BY BitmapAssumption
  <1>2. /\ Row(n) \in Nat /\ calc_pos(n) \in 0 .. RowLength - 1
        /\ n = Row(n) * RowLength + calc_pos(n)
    BY RowAndPos
  <1>3. Row(n) = 0 => calc_pos(n) # 0
    BY <1>1, <1>2
  <1>4. MapSize(n) \in Nat \ {0}
    BY <1>2, <1>3 DEF MapSize
  <1>5. (MapSize(n) - 1) * RowLength < n /\ n <= MapSize(n) * RowLength
    <2>1. CASE calc_pos(n) = 0
      <3>1. MapSize(n) = Row(n)
        BY <1>2, <2>1 DEF MapSize
      <3>2. (Row(n) - 1) * RowLength = Row(n) * RowLength - RowLength
        BY <1>1, <1>2
      <3> QED
        BY <1>1, <1>2, <2>1, <3>1, <3>2
    <2>2. CASE calc_pos(n) # 0
      <3>1. MapSize(n) = Row(n) + 1
        BY <1>2, <2>2 DEF MapSize
      <3>2. (Row(n) + 1) * RowLength = Row(n) * RowLength + RowLength
        BY <1>1, <1>2
      <3> QED
        BY <1>1, <1>2, <2>2, <3>1, <3>2
    <2> QED
      BY <2>1, <2>2
  <1>6. ASSUME NEW b \in 0 .. n - 1
        PROVE  Row(b) \in 0 .. MapSize(n) - 1
    <2>1. /\ b \in Nat /\ Row(b) \in Nat /\ calc_pos(b) \in 0 .. RowLength - 1
          /\ b = Row(b) * RowLength + calc_pos(b)
      BY RowAndPos
    <2>2. Row(b) * RowLength < MapSize(n) * RowLength
      BY <1>1, <1>4, <1>5, <2>1
    <2>3. Row(b) < MapSize(n)
      BY <1>1, <1>4, <2>1, <2>2, Z3
    <2> QED
      BY <1>4, <2>1, <2>3
  <1> QED
    BY <1>4, <1>5, <1>6

(* The padding of the last row is exactly the bits of no block.            *)
LEMMA PaddingBits ==
  ASSUME NEW n \in Nat \ {0}
  PROVE  LET last == MapSize(n) - 1
         IN  /\ Padding(n, last + 1) \subseteq Bits
             /\ \A bit \in Bits : bit \in Padding(n, last + 1)
                                    <=> BlockAt(last, bit) >= n
  <1> DEFINE last == MapSize(n) - 1
  <1>1. /\ RowLength \in Nat \ {0, 1} /\ last \in Nat
        /\ last * RowLength < n /\ n <= (last + 1) * RowLength
    BY RowsForBlocks, BitmapAssumption
  <1> HIDE DEF last
  <1>2. PICK k \in Nat : k = last * RowLength
    BY <1>1
  <1>3. (last + 1) * RowLength = k + RowLength
    BY <1>1, <1>2
  <1>4. Padding(n, last + 1) = n - k - 1 .. RowLength - 2
    BY <1>1, <1>2, <1>3 DEF Padding
  <1>5. Padding(n, last + 1) \subseteq Bits
    BY <1>1, <1>2, <1>4 DEF Bits
  <1>6. ASSUME NEW bit \in Bits
        PROVE  bit \in Padding(n, last + 1) <=> BlockAt(last, bit) >= n
    BY <1>1, <1>2, <1>4 DEF Bits, BlockAt, PosOfBit
  <1> QED
    BY <1>5, <1>6 DEF last

-----------------------------------------------------------------------------
(* The inductive invariant.  BitmapTypeOK does not bound the rows above,   *)
(* and without their number PaddingStaysSet would not survive a resize.    *)
RowsMatchSize == \/ n_blocks = -1 /\ bitmap = <<>>
                 \/ n_blocks > 0 /\ Rows = 0 .. MapSize(n_blocks) - 1

BitmapInv == BitmapTypeOK /\ RowsMatchSize /\ PaddingStaysSet

LEMMA InitBitmap == Init => BitmapInv
  BY DEF Init, BitmapInv, BitmapTypeOK, RowsMatchSize, PaddingStaysSet, Rows, Calls

(* What the invariant says of a block in range and of a bit without one.   *)
LEMMA BlockInRange ==
  ASSUME BitmapInv, NEW b \in Int, InRange(b)
  PROVE  /\ n_blocks \in Nat \ {0} /\ b \in Nat /\ b \in 0 .. n_blocks - 1
         /\ Row(b) \in Rows /\ Rows = 0 .. MapSize(n_blocks) - 1
         /\ bitmap[Row(b)] \subseteq Bits /\ Bit(b) \in Bits
  <1>1. n_blocks \in Nat \ {0} /\ b \in Nat /\ b \in 0 .. n_blocks - 1
    BY DEF BitmapInv, BitmapTypeOK, InRange
  <1>2. Row(b) \in Rows /\ Rows = 0 .. MapSize(n_blocks) - 1
    BY <1>1 DEF BitmapInv, BitmapTypeOK, RowsMatchSize
  <1>3. bitmap[Row(b)] \subseteq Bits
    BY <1>2 DEF BitmapInv, BitmapTypeOK
  <1> QED
    BY <1>1, <1>2, <1>3, BitType

(* Calls that leave the bitmap as it is: the queries, and those refused.   *)
LEMMA QueryBitmap ==
  ASSUME BitmapInv, UNCHANGED <<n_blocks, bitmap>>,
         answer' \in [fn : Calls, arg : Int, threw : BOOLEAN, n : Int]
  PROVE  BitmapInv'
  BY DEF BitmapInv, BitmapTypeOK, RowsMatchSize, PaddingStaysSet, Rows

LEMMA ResizeBitmap ==
  ASSUME BitmapInv, NEW n \in Sizes, resize(n)
  PROVE  BitmapInv'
  <1>1. n \in Int
    BY BitmapAssumption
  <1>2. CASE n <= 0 /\ Throws("resize", n) /\ UNCHANGED <<n_blocks, bitmap>>
    BY <1>1, <1>2
    DEF BitmapInv, BitmapTypeOK, RowsMatchSize, PaddingStaysSet, Rows, Throws, Calls
  <1>3. CASE n > 0
    <2> DEFINE last == MapSize(n) - 1
    <2>1. n \in Nat \ {0} /\ last \in Nat
      BY <1>1, <1>3, RowsForBlocks
    <2>2. /\ Padding(n, last + 1) \subseteq Bits
          /\ \A bit \in Bits : bit \in Padding(n, last + 1)
                                 <=> BlockAt(last, bit) >= n
      BY <2>1, PaddingBits
    <2>3. \A b \in 0 .. n - 1 : Row(b) \in 0 .. last
      BY <2>1, RowsForBlocks
    <2>4. /\ n_blocks' = n /\ Returns("resize", n, 0)
          /\ bitmap' = [r \in 0 .. last |-> IF r = last THEN Padding(n, last + 1)
                                            ELSE {}]
      BY <1>1, <1>3 DEF resize
    <2>5. last + 1 = MapSize(n)
      BY <2>1, RowsForBlocks
    <2> HIDE DEF last
    <2>6. BitmapTypeOK'
      BY <1>1, <2>2, <2>3, <2>4 DEF BitmapTypeOK, Rows, Returns, Calls
    <2>7. RowsMatchSize'
      BY <2>1, <2>4, <2>5 DEF RowsMatchSize, Rows
    <2>8. PaddingStaysSet'
      <3> SUFFICES ASSUME NEW r \in 0 .. last, NEW bit \in Bits,
                          bit \notin bitmap'[r]
                   PROVE  \E b \in 0 .. n - 1 : Row(b) = r /\ Bit(b) = bit
        BY <2>4 DEF PaddingStaysSet, Rows
      <3>1. r \in Nat
        BY <2>1
      <3>2. /\ BlockAt(r, bit) \in Nat /\ Row(BlockAt(r, bit)) = r
            /\ Bit(BlockAt(r, bit)) = bit
        BY <3>1, BlockAtBit
      <3>3. BlockAt(r, bit) < n
        <4>1. CASE r = last
          BY <1>1, <2>2, <2>4, <3>2, <4>1
        <4>2. CASE r # last
          <5>1. /\ RowLength \in Nat \ {0, 1} /\ last * RowLength < n
                /\ PosOfBit(bit) \in 0 .. RowLength - 1
            BY <2>1, <2>5, <3>1, RowsForBlocks, BitmapAssumption, BlockAtBit
          <5>2. (r + 1) * RowLength <= last * RowLength
            BY <2>1, <3>1, <4>2, <5>1, Z3
          <5>3. (r + 1) * RowLength = r * RowLength + RowLength
            BY <3>1, <5>1
          <5>4. /\ r * RowLength \in Nat /\ last * RowLength \in Nat
                /\ BlockAt(r, bit) = r * RowLength + PosOfBit(bit)
            BY <2>1, <3>1, <5>1 DEF BlockAt
          <5> QED
            BY <2>1, <5>1, <5>2, <5>3, <5>4
        <4> QED
          BY <4>1, <4>2
      <3> QED
        BY <2>1, <3>2, <3>3
    <2> QED
      BY <2>6, <2>7, <2>8 DEF BitmapInv
  <1> QED
    BY <1>1, <1>2, <1>3 DEF resize

(* set_status changes one bit, which is that of a block in range.          *)
LEMMA SetStatusBitmap ==
  ASSUME BitmapInv, NEW b \in -1 .. MaxBlock, NEW status \in BOOLEAN,
         set_status(b, status)
  PROVE  BitmapInv'
  <1>1. b \in Int
    BY BitmapAssumption
  <1>2. CASE InRange(b)
    <2>1. /\ b \in 0 .. n_blocks - 1 /\ Row(b) \in Rows
          /\ bitmap[Row(b)] \subseteq Bits /\ Bit(b) \in Bits
      BY <1>1, <1>2, BlockInRange
    <2>2. PICK row \in SUBSET Bits :
            /\ bitmap' = [bitmap EXCEPT ![Row(b)] = row]
            /\ \A bit : bit # Bit(b) => (bit \in row <=> bit \in bitmap[Row(b)])
      <3>1. CASE status
        BY <1>2, <2>1, <3>1 DEF set_status
      <3>2. CASE ~status
        BY <1>2, <2>1, <3>2 DEF set_status
      <3> QED
        BY <3>1, <3>2
    <2>3. n_blocks' = n_blocks /\ Returns("set_status", b, 0)
      BY <1>2 DEF set_status
    <2>4. Rows' = Rows
      BY <2>2 DEF Rows
    <2>5. BitmapTypeOK'
      BY <1>1, <2>1, <2>2, <2>3, <2>4 DEF BitmapInv, BitmapTypeOK, Returns, Calls, Rows
    <2>6. RowsMatchSize'
      BY <2>1, <2>2, <2>3, <2>4 DEF BitmapInv, RowsMatchSize, InRange
    <2>7. PaddingStaysSet'
      <3> SUFFICES ASSUME NEW r \in Rows, NEW bit \in Bits, bit \notin bitmap'[r]
                   PROVE  \E c \in 0 .. n_blocks - 1 : Row(c) = r /\ Bit(c) = bit
        BY <2>3, <2>4 DEF PaddingStaysSet
      <3>1. CASE r = Row(b) /\ bit = Bit(b)
        BY <2>1, <3>1
      <3>2. CASE ~(r = Row(b) /\ bit = Bit(b))
        <4>1. bit \notin bitmap[r]
          BY <2>1, <2>2, <3>2 DEF BitmapInv, BitmapTypeOK
        <4> QED
          BY <4>1 DEF BitmapInv, PaddingStaysSet
      <3> QED
        BY <3>1, <3>2
    <2> QED
      BY <2>5, <2>6, <2>7 DEF BitmapInv
  <1>3. CASE ~InRange(b)
    <2>1. Throws("set_status", b) /\ UNCHANGED <<n_blocks, bitmap>>
      BY <1>3 DEF set_status
    <2>2. answer' \in [fn : Calls, arg : Int, threw : BOOLEAN, n : Int]
      BY <1>1, <2>1 DEF Throws, Calls
    <2> QED
      BY <2>1, <2>2, QueryBitmap
  <1> QED
    BY <1>2, <1>3

LEMMA GetStatusBitmap ==
  ASSUME BitmapInv, NEW b \in -1 .. MaxBlock, get_status(b)
  PROVE  BitmapInv'
  <1>1. b \in Int
    BY BitmapAssumption
  <1>2. answer' \in [fn : Calls, arg : Int, threw : BOOLEAN, n : Int]
    <2>1. CASE Returns("get_status", b, 1)
      BY <1>1, <2>1 DEF Returns, Calls
    <2>2. CASE Returns("get_status", b, 0)
      BY <1>1, <2>2 DEF Returns, Calls
    <2>3. CASE Throws("get_status", b)
      BY <1>1, <2>3 DEF Throws, Calls
    <2> QED
      BY <2>1, <2>2, <2>3 DEF get_status
  <1> QED
    BY <1>2, QueryBitmap DEF get_status

LEMMA NextFreeBitmap ==
  ASSUME BitmapInv, NEW offset \in Offsets, next_free(offset)
  PROVE  BitmapInv'
  <1>1. offset \in Int
    BY BitmapAssumption
  <1>2. UNCHANGED <<n_blocks, bitmap>>
    BY DEF next_free
  <1>3. ASSUME NEW k \in Int, Returns("next_free", offset, k)
        PROVE  BitmapInv'
    BY <1>1, <1>2, <1>3, QueryBitmap DEF Returns, Calls
  <1>4. ASSUME Throws("next_free", offset)
        PROVE  BitmapInv'
    BY <1>1, <1>2, <1>4, QueryBitmap DEF Throws, Calls
  <1>5. ASSUME InRange(offset), NEW row \in RowsWithSpace(offset)
        PROVE  /\ row * RowLength + calc_pos(offset) \in Int
               /\ (row + 1) * RowLength \in Int
    <2>1. row \in Nat
      <3>1. n_blocks \in Nat \ {0} /\ Rows = 0 .. MapSize(n_blocks) - 1
        BY <1>1, <1>5, BlockInRange
      <3>2. MapSize(n_blocks) \in Nat
        BY <3>1, RowsForBlocks
      <3>3. row \in Rows
        BY DEF RowsWithSpace
      <3> QED
        BY <3>1, <3>2, <3>3
    <2>2. calc_pos(offset) \in Int /\ RowLength \in Int
      BY <1>1, <1>5, BlockInRange, RowAndPos, BitmapAssumption
    <2> QED
      BY <2>1, <2>2
  <1> QED
    BY <1>3, <1>4, <1>5 DEF next_free

LEMMA NextBitmap == BitmapInv /\ [Next]_vars => BitmapInv'
  <1> SUFFICES ASSUME BitmapInv, [Next]_vars
               PROVE  BitmapInv'
    OBVIOUS
  <1>1. CASE UNCHANGED vars
    BY <1>1 DEF vars, BitmapInv, BitmapTypeOK, RowsMatchSize, PaddingStaysSet, Rows
  <1>2. CASE Next
    BY <1>2, ResizeBitmap, SetStatusBitmap, GetStatusBitmap, NextFreeBitmap DEF Next
  <1> QED
    BY <1>1, <1>2

LEMMA SpecBitmap == Spec => []BitmapInv
  BY InitBitmap, NextBitmap, PTL DEF Spec

(* BitmapTypeOK: the rows hold bits of a row and there is a row for every  *)
(* block, so no call reads past the end of the vector of rows.             *)
THEOREM BitmapTypeCorrect == Spec => []BitmapTypeOK
  BY SpecBitmap, PTL DEF BitmapInv

(* PaddingStaysSet: the bits behind the last block are 1 for good, and a   *)
(* row that next_free finds not to be full has a free block in it.         *)
THEOREM PaddingIsKept == Spec => []PaddingStaysSet
  BY SpecBitmap, PTL DEF BitmapInv

-----------------------------------------------------------------------------
(* The refinement of BlockSet, call by call.                               *)
LEMMA InitSet == Init => Set!SetInit
  BY DEF Init, Set!SetInit, UsedSet

LEMMA ResizeSet ==
  ASSUME BitmapInv, NEW n \in Sizes, resize(n)
  PROVE  Set!Resize \/ Set!Reject
  <1>1. n \in Int
    BY BitmapAssumption
  <1>2. CASE n <= 0
    BY <1>1, <1>2 DEF resize, Throws, UsedSet, IsSet, Set!Reject
  <1>3. CASE n > 0
    <2> DEFINE last == MapSize(n) - 1
    <2>1. n \in Nat \ {0} /\ last \in Nat
      BY <1>1, <1>3, RowsForBlocks
    <2>2. /\ \A bit \in Bits : bit \in Padding(n, last + 1)
                                 <=> BlockAt(last, bit) >= n
      BY <2>1, PaddingBits
    <2>3. \A b \in 0 .. n - 1 : Row(b) \in 0 .. last
      BY <2>1, RowsForBlocks
    <2>4. /\ n_blocks' = n /\ Returns("resize", n, 0)
          /\ bitmap' = [r \in 0 .. last |-> IF r = last THEN Padding(n, last + 1)
                                            ELSE {}]
      BY <1>1, <1>3 DEF resize
    <2> HIDE DEF last
    <2>5. ASSUME NEW b \in 0 .. n - 1, Bit(b) \in bitmap'[Row(b)]
          PROVE  FALSE
      <3>1. b \in Nat /\ Row(b) = last /\ Bit(b) \in Padding(n, last + 1)
        BY <2>1, <2>3, <2>4, <2>5
      <3>2. Bit(b) \in Bits
        BY <3>1, BitType
      <3>3. /\ BlockAt(last, Bit(b)) \in Nat /\ BlockAt(last, Bit(b)) >= n
            /\ Row(BlockAt(last, Bit(b))) = last
            /\ Bit(BlockAt(last, Bit(b))) = Bit(b)
        BY <2>1, <2>2, <3>1, <3>2, BlockAtBit
      <3>4. b = BlockAt(last, Bit(b))
        BY <3>1, <3>3, SameBit
      <3> QED
        BY <2>1, <3>1, <3>3, <3>4
    <2>6. UsedSet' = {}
      BY <2>4, <2>5 DEF UsedSet, IsSet
    <2> QED
      BY <2>1, <2>4, <2>6 DEF Set!Resize, Set!Answers, Returns
  <1> QED
    BY <1>1, <1>2, <1>3

(* A block or an offset out of range is refused, whichever the call.       *)
LEMMA OutOfRangeSet ==
  ASSUME BitmapInv, NEW b \in Int, ~InRange(b), NEW fn \in Calls \ {"resize"},
         Throws(fn, b), UNCHANGED <<n_blocks, bitmap>>
  PROVE  Set!Reject
  BY DEF BitmapInv, BitmapTypeOK, InRange, Throws, Set!Reject, Set!Blocks,
         UsedSet, IsSet, Calls

LEMMA SetStatusSet ==
  ASSUME BitmapInv, NEW b \in -1 .. MaxBlock, NEW status \in BOOLEAN,
         set_status(b, status)
  PROVE  Set!Change \/ Set!Reject
  <1>1. b \in Int
    BY BitmapAssumption
  <1>2. CASE InRange(b)
    <2>1. /\ b \in 0 .. n_blocks - 1 /\ b \in Nat /\ Row(b) \in Rows
          /\ n_blocks \in Nat
      BY <1>1, <1>2, BlockInRange
    <2>2. /\ bitmap' = [bitmap EXCEPT ![Row(b)] = IF status THEN @ \cup {Bit(b)}
                                                 ELSE @ \ {Bit(b)}]
          /\ n_blocks' = n_blocks /\ Returns("set_status", b, 0)
      BY <1>2 DEF set_status
    <2>3. ASSUME NEW c \in 0 .. n_blocks - 1, c # b
          PROVE  Bit(c) \in bitmap'[Row(c)] <=> Bit(c) \in bitmap[Row(c)]
      <3>1. c \in Nat /\ Row(c) \in Rows
        BY <2>1 DEF BitmapInv, BitmapTypeOK
      <3>2. Row(c) # Row(b) \/ Bit(c) # Bit(b)
        BY <2>1, <2>3, <3>1, SameBit
      <3> QED
        BY <2>1, <2>2, <3>1, <3>2 DEF BitmapInv, BitmapTypeOK
    <2>4. Bit(b) \in bitmap'[Row(b)] <=> status
      BY <2>1, <2>2 DEF BitmapInv, BitmapTypeOK
    <2>5. UsedSet' = IF status THEN UsedSet \cup {b} ELSE UsedSet \ {b}
      BY <2>1, <2>2, <2>3, <2>4 DEF UsedSet, IsSet
    <2> QED
      BY <2>1, <2>2, <2>5 DEF Set!Change, Set!Blocks, Set!Answers, Returns
  <1>3. CASE ~InRange(b)
    BY <1>1, <1>3, OutOfRangeSet DEF set_status, Calls
  <1> QED
    BY <1>2, <1>3

LEMMA GetStatusSet ==
  ASSUME BitmapInv, NEW b \in -1 .. MaxBlock, get_status(b)
  PROVE  Set!Query \/ Set!Reject
  <1>1. b \in Int /\ UNCHANGED <<n_blocks, bitmap>>
    BY BitmapAssumption DEF get_status
  <1>2. CASE InRange(b)
    <2>1. b \in 0 .. n_blocks - 1 /\ (b \in UsedSet <=> IsSet(b))
      BY <1>1, <1>2, BlockInRange DEF UsedSet
    <2>2. answer' = [fn |-> "get_status", arg |-> b, threw |-> FALSE,
                     n |-> IF b \in UsedSet THEN 1 ELSE 0]
      BY <1>2, <2>1 DEF get_status, Returns
    <2>3. UsedSet' = UsedSet
      BY <1>1 DEF UsedSet, IsSet
    <2> QED
      BY <1>1, <2>1, <2>2, <2>3 DEF Set!Query, Set!Blocks, Set!Answers
  <1>3. CASE ~InRange(b)
    BY <1>1, <1>3, OutOfRangeSet DEF get_status, Calls
  <1> QED
    BY <1>2, <1>3

(* A row whose blocks are all used is full: its other bits are 1 anyway.   *)
LEMMA RowIsFull ==
  ASSUME BitmapInv, NEW r \in Rows,
         \A b \in 0 .. n_blocks - 1 : Row(b) = r => IsSet(b)
  PROVE  bitmap[r] = Bits
  <1>1. bitmap[r] \subseteq Bits
    BY DEF BitmapInv, BitmapTypeOK
  <1>2. \A bit \in Bits : bit \in bitmap[r]
    BY DEF BitmapInv, PaddingStaysSet, IsSet
  <1> QED
    BY <1>1, <1>2

(* The blocks of a row lie between its first position and the next row's.  *)
LEMMA BlocksOfRow ==
  ASSUME NEW b \in Nat
  PROVE  b \in Row(b) * RowLength .. (Row(b) + 1) * RowLength - 1
  <1>1. /\ Row(b) \in Nat /\ calc_pos(b) \in 0 .. RowLength - 1
        /\ b = Row(b) * RowLength + calc_pos(b) /\ RowLength \in Nat
    BY RowAndPos, BitmapAssumption
  <1>2. (Row(b) + 1) * RowLength = Row(b) * RowLength + RowLength
    BY <1>1
  <1>3. Row(b) * RowLength \in Nat
    BY <1>1
  <1> QED
    BY <1>1, <1>2, <1>3

(* next_free(0) finds the lowest free block, and never ends past the last  *)
(* block or at the next row: the row it searches has a free block.         *)
LEMMA LowestFree ==
  ASSUME BitmapInv, InRange(0), next_free(0)
  PROVE  Set!Lowest
  <1>1. /\ n_blocks \in Nat \ {0} /\ Rows = 0 .. MapSize(n_blocks) - 1
        /\ MapSize(n_blocks) \in Nat
        /\ \A b \in 0 .. n_blocks - 1 : b \in Nat /\ Row(b) \in Rows
    BY BlockInRange, RowsForBlocks
  <1>2. Row(0) = 0 /\ calc_pos(0) = 0 /\ RowLength \in Nat
    BY BlockOfRowAndPos, BitmapAssumption DEF Row, calc_pos
  <1>3. RowsWithSpace(0) = {r \in Rows : bitmap[r] # Bits}
    BY <1>1, <1>2 DEF RowsWithSpace
  <1>4. ASSUME NEW b \in 0 .. n_blocks - 1, ~IsSet(b)
        PROVE  Row(b) \in RowsWithSpace(0)
    BY <1>1, <1>3, <1>4, BitType DEF IsSet
  <1>5. UNCHANGED <<UsedSet, n_blocks>>
    BY DEF next_free, UsedSet, IsSet
  <1>6. CASE RowsWithSpace(0) = {}
    <2>1. \A b \in 0 .. n_blocks - 1 : b \in UsedSet
      BY <1>4, <1>6 DEF UsedSet
    <2>2. Returns("next_free", 0, -1)
      BY <1>6 DEF next_free
    <2> QED
      BY <1>1, <1>5, <2>1, <2>2 DEF Set!Lowest, Set!Blocks, Set!Answers, Returns
  <1>7. CASE RowsWithSpace(0) # {}
    <2> DEFINE first(row) == row * RowLength + calc_pos(0)
               next(row)  == (row + 1) * RowLength
    <2>1. PICK row \in RowsWithSpace(0) :
            /\ \A r \in RowsWithSpace(0) : row <= r
            /\ \/ \E b \in first(row) .. next(row) - 1 :
                    /\ AllSet(first(row), b - 1)
                    /\ \/ InRange(b) /\ ~IsSet(b) /\ Returns("next_free", 0, b)
                       \/ ~InRange(b) /\ Throws("next_free", 0)
               \/ AllSet(first(row), next(row) - 1)
                  /\ Returns("next_free", 0, next(row))
      BY <1>7 DEF next_free
    <2>2. row \in Rows /\ row \in Nat /\ bitmap[row] # Bits
      BY <1>1, <1>3
    <2>3. PICK k \in Nat : k = row * RowLength
      BY <1>2, <2>2
    <2>4. PICK l \in Nat : l = (row + 1) * RowLength
      BY <1>2, <2>2
    <2>5. first(row) = k /\ next(row) = l
      BY <1>2, <2>3, <2>4
    <2>6. \A b \in Nat : Row(b) = row => b \in k .. l - 1
      BY <2>3, <2>4, BlocksOfRow
    <2> HIDE DEF first, next
    <2>7. PICK c \in 0 .. n_blocks - 1 : Row(c) = row /\ ~IsSet(c)
      BY <2>2, RowIsFull
    <2>8. c \in Nat /\ c \in k .. l - 1
      BY <1>1, <2>6, <2>7
    <2>9. ~AllSet(k, l - 1)
      BY <2>7, <2>8 DEF AllSet
    <2>10. PICK b \in k .. l - 1 :
             /\ AllSet(k, b - 1)
             /\ \/ InRange(b) /\ ~IsSet(b) /\ Returns("next_free", 0, b)
                \/ ~InRange(b) /\ Throws("next_free", 0)
      BY <2>1, <2>5, <2>9
    <2>11. b <= c
      BY <2>7, <2>8, <2>10 DEF AllSet
    <2>12. InRange(b) /\ ~IsSet(b) /\ Returns("next_free", 0, b)
      BY <1>1, <2>8, <2>10, <2>11 DEF InRange
    <2>13. ASSUME NEW d \in 0 .. n_blocks - 1, ~IsSet(d)
           PROVE  b <= d
      <3>1. Row(d) \in Nat /\ row <= Row(d) /\ d \in Nat
        BY <1>1, <1>4, <2>1, <2>13, RowAndPos
      <3>2. CASE Row(d) = row
        BY <2>6, <2>10, <2>13, <3>1, <3>2 DEF AllSet
      <3>3. CASE Row(d) # row
        <4>1. d >= Row(d) * RowLength
          BY <1>2, <3>1, BlocksOfRow
        <4>2. (row + 1) * RowLength <= Row(d) * RowLength
          BY <1>2, <2>2, <3>1, <3>3, Z3
        <4>3. Row(d) * RowLength \in Nat
          BY <1>2, <3>1
        <4> QED
          BY <2>4, <2>10, <3>1, <4>1, <4>2, <4>3
      <3> QED
        BY <3>2, <3>3
    <2>14. b \in (0 .. n_blocks - 1) \ UsedSet
      BY <1>1, <2>10, <2>12 DEF InRange, UsedSet
    <2>15. \A d \in (0 .. n_blocks - 1) \ UsedSet : b <= d
      BY <2>13 DEF UsedSet
    <2>16. n_blocks > 0 /\ answer' = [fn |-> "next_free", arg |-> 0,
                                      threw |-> FALSE, n |-> b]
      BY <1>1, <2>12 DEF Returns
    <2> QED
      BY <1>5, <2>14, <2>15, <2>16
      DEF Set!Lowest, Set!Blocks, Set!Answers
  <1> QED
    BY <1>6, <1>7

LEMMA NextFreeSet ==
  ASSUME BitmapInv, NEW offset \in Offsets, next_free(offset)
  PROVE  Set!Lowest \/ Set!SearchElsewhere \/ Set!Reject
  <1>1. offset \in Int /\ UNCHANGED <<n_blocks, bitmap>>
    BY BitmapAssumption DEF next_free
  <1>2. CASE ~InRange(offset)
    BY <1>1, <1>2, OutOfRangeSet DEF next_free, Calls
  <1>3. CASE InRange(offset) /\ offset = 0
    BY <1>3, LowestFree
  <1>4. CASE InRange(offset) /\ offset # 0
    <2>1. UsedSet' = UsedSet
      BY <1>1 DEF UsedSet, IsSet
    <2>2. answer'.fn = "next_free" /\ answer'.arg = offset
      BY DEF next_free, Returns, Throws
    <2> QED
      BY <1>1, <1>4, <2>1, <2>2 DEF Set!SearchElsewhere
  <1> QED
    BY <1>2, <1>3, <1>4

LEMMA NextSet == BitmapInv /\ [Next]_vars => [Set!SetNext]_(Set!setVars)
  <1> SUFFICES ASSUME BitmapInv, [Next]_vars
               PROVE  [Set!SetNext]_(Set!setVars)
    OBVIOUS
  <1>1. CASE UNCHANGED vars
    BY <1>1 DEF vars, Set!setVars, UsedSet, IsSet
  <1>2. CASE Next
    BY <1>2, ResizeSet, SetStatusSet, GetStatusSet, NextFreeSet
    DEF Next, Set!SetNext
  <1> QED
    BY <1>1, <1>2

(* ImplementsSet: seen through UsedSet the packed rows are a set: resize   *)
(* empties it, a status changes one block and no other, and next_free(0)   *)
(* is its lowest free block, or -1 when there is none.                     *)
THEOREM BitmapIsASet == Spec => ImplementsSet
  BY InitSet, NextSet, SpecBitmap, PTL DEF Spec, ImplementsSet, Set!SetSpec

=============================================================================
