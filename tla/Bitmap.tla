-------------------------------- MODULE Bitmap --------------------------------
(***************************************************************************)
(* The bitmap routines of kernel/bitmap.asm.                               *)
(*                                                                         *)
(* A long word is the set of its set bits.  ByteBits is the width of a     *)
(* byte (8 in the code): a word is two bytes and a long word two words.    *)
(***************************************************************************)
EXTENDS Integers, FiniteSetsExt

CONSTANT ByteBits

ASSUME ByteBitsAssumption == ByteBits \in Nat \ {0}

LongBits == 4 * ByteBits
Bits == 0..(LongBits - 1)

(* The bit that bit number b of a bitmap addresses: its low bits select    *)
(* the bit (and #$1f), the others the long word (lsr #5, lsl #2).          *)
(* (Mutant: the bit number is not masked to the word.)                     *)
BitOf_NoMask(b) == [long |-> b \div LongBits, bit |-> b]
BitOf(b) == [long |-> b \div LongBits, bit |-> b % LongBits]

bitmap_set(longs, b) ==
  [longs EXCEPT ![BitOf(b).long] = @ \cup {BitOf(b).bit}]
bitmap_clear(longs, b) ==
  [longs EXCEPT ![BitOf(b).long] = @ \ {BitOf(b).bit}]
bitmap_flip(longs, b) ==
  [longs EXCEPT ![BitOf(b).long] = SymDiff(@, {BitOf(b).bit})]

(* lsr.l #n *)
Shift(d, n) == {b - n : b \in {c \in d : c >= n}}

(* The unrolled tests of the low byte of d1; first is the number of its    *)
(* lowest bit in the long word.                                            *)
find_bit_in_byte(first, d1) ==
  LET clear == 0..(ByteBits - 1) \ d1
  IN  IF clear = {} THEN -1 ELSE first + Min(clear)

LowByteSet(d) == 0..(ByteBits - 1) \subseteq d
LowWordSet(d) == 0..(2 * ByteBits - 1) \subseteq d

(* Binary search for the first byte that is not all ones.  (Mutant: the    *)
(* high word is shifted down by one byte only.)                            *)
bitmap_find_clear_HalfShift(d1) ==
  IF ~LowWordSet(d1)
  THEN IF ~LowByteSet(d1) THEN find_bit_in_byte(0, d1)
       ELSE find_bit_in_byte(ByteBits, Shift(d1, ByteBits))
  ELSE find_bit_in_byte(2 * ByteBits, Shift(d1, ByteBits))
bitmap_find_clear(d1) ==
  IF ~LowWordSet(d1)
  THEN IF ~LowByteSet(d1) THEN find_bit_in_byte(0, d1)
       ELSE find_bit_in_byte(ByteBits, Shift(d1, ByteBits))
  ELSE LET high == Shift(d1, 2 * ByteBits)
       IN  IF ~LowByteSet(high) THEN find_bit_in_byte(2 * ByteBits, high)
           ELSE find_bit_in_byte(3 * ByteBits, Shift(high, ByteBits))

(* One turn of the loop of bitmap_find_n_clear; the top bit that lsr       *)
(* clears is set again.  (Mutant: it is not.)                              *)
Turn_NoTop(d) == [d2 |-> Shift(d.d2, 1), d1 |-> d.d1 \cup Shift(d.d2, 1)]
Turn(d) ==
  LET d2 == Shift(d.d2, 1) \cup {LongBits - 1}
  IN  [d2 |-> d2, d1 |-> d.d1 \cup d2]

(* How often the loop runs.  n is taken down by one as a byte, and dbra    *)
(* counts in the whole word: a word whose high byte is $FF, the rest of an *)
(* earlier result of -1, and an n of zero, make it run $FF00 + n - 1 and   *)
(* $FF times.  Both are more than LongBits, after which nothing changes.   *)
Turns(n, stale) == IF stale \/ n = 0 \/ n > LongBits THEN LongBits ELSE n - 1

bitmap_find_n_clear(bitmap, n, stale) ==
  LET after[k \in 0..LongBits] ==
        IF k = 0 THEN [d1 |-> bitmap, d2 |-> bitmap] ELSE Turn(after[k - 1])
  IN  bitmap_find_clear(after[Turns(n, stale)].d1)

-----------------------------------------------------------------------------
(* What bitmap.h says is found: the first bit of a run of n clear bits.    *)
FirstRun(bitmap, n) ==
  LET starts == {b \in Bits : b + n <= LongBits /\ b..(b + n - 1) \cap bitmap = {}}
  IN  IF starts = {} THEN -1 ELSE Min(starts)

(* Two long words, each all clear or all set, and the numbers of the bits  *)
(* that are set in them.                                                   *)
Longs == [{0, 1} -> {{}, Bits}]
Numbers(longs) == longs[0] \cup {b + LongBits : b \in longs[1]}

(* bitmap_set, bitmap_clear and bitmap_flip change the one bit they are    *)
(* given and no other, in whatever long word it is (bitmap.h: "Not limited *)
(* to a single 32-bit").                                                   *)
ChangesAgree ==
  \A longs \in Longs, b \in 0..(2 * LongBits - 1) :
    /\ Numbers(bitmap_set(longs, b)) = Numbers(longs) \cup {b}
    /\ Numbers(bitmap_clear(longs, b)) = Numbers(longs) \ {b}
    /\ Numbers(bitmap_flip(longs, b)) = SymDiff(Numbers(longs), {b})

(* bitmap_find_clear finds the lowest clear bit, which bitmap_find_n_clear *)
(* relies on, and -1 exactly when there is none.                           *)
ClearAgrees ==
  \A bitmap \in SUBSET Bits : bitmap_find_clear(bitmap) = FirstRun(bitmap, 1)

(* bitmap_find_n_clear finds the lowest run of n clear bits, never one     *)
(* that leaves the long word, and -1 exactly when there is none; an n of   *)
(* zero or of more than a long word finds nothing.                         *)
RunAgrees ==
  \A bitmap \in SUBSET Bits :
    /\ \A n \in 1..(LongBits + 1) :
         bitmap_find_n_clear(bitmap, n, FALSE) = FirstRun(bitmap, n)
    /\ bitmap_find_n_clear(bitmap, 0, FALSE) = -1
=============================================================================
