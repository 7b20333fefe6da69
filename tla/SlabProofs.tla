----------------------------- MODULE SlabProofs -----------------------------
(***************************************************************************)
(* The bitmap searches of kernel/bitmap.asm, for every long word, and the  *)
(* slab allocator (kernel/slab.asm) that rests on them, for any number of  *)
(* pages and blocks.                                                       *)
(***************************************************************************)
EXTENDS Integers, Slab, ListLemmas

LEMMA Widths ==
  /\ ByteBits \in Nat /\ ByteBits >= 1
  /\ LongBits = 4 * ByteBits /\ LongBits \in Nat /\ LongBits >= 4
  /\ \A b : b \in Bits <=> b \in Nat /\ b < LongBits
  BY ByteBitsAssumption DEF LongBits, Bits

LEMMA ShiftIn ==
  ASSUME NEW d \in SUBSET Nat, NEW n \in Nat, NEW b \in Nat
  PROVE  b \in Shift(d, n) <=> b + n \in d
  <1>1. ASSUME b + n \in d PROVE b \in Shift(d, n)
    <2>1. b + n \in {c \in d : c >= n} /\ b = (b + n) - n
      BY <1>1
    <2> QED BY <2>1 DEF Shift
  <1>2. ASSUME b \in Shift(d, n) PROVE b + n \in d
    <2>1. PICK c \in {c \in d : c >= n} : b = c - n
      BY <1>2 DEF Shift
    <2>2. b + n = c
      BY <2>1
    <2> QED BY <2>1, <2>2
  <1> QED BY <1>1, <1>2

LEMMA ShiftNat ==
  ASSUME NEW d \in SUBSET Nat, NEW n \in Nat
  PROVE  Shift(d, n) \in SUBSET Nat
  BY DEF Shift

-----------------------------------------------------------------------------
(* The lowest clear bit of a long word. *)
Lowest(d) == IF Bits \ d = {} THEN -1 ELSE Min(Bits \ d)

(* The byte e, whose lowest bit is number first of the long word d, below  *)
(* which all is set.                                                       *)
LEMMA InByte ==
  ASSUME NEW d \in SUBSET Bits, NEW first \in Nat, NEW e \in SUBSET Nat,
         first + ByteBits <= LongBits,
         \A b \in 0..(ByteBits - 1) : b \in e <=> b + first \in d,
         \A y \in Nat : y < first => y \in d
  PROVE  /\ ~LowByteSet(e) => find_bit_in_byte(first, e) = Lowest(d)
         /\ LowByteSet(e) => find_bit_in_byte(first, e) = -1
                             /\ \A y \in Nat : y < first + ByteBits => y \in d
  <1> DEFINE clear == 0..(ByteBits - 1) \ e
  <1>0. clear = {} <=> LowByteSet(e)
    BY DEF LowByteSet
  <1>1. ASSUME LowByteSet(e)
        PROVE  find_bit_in_byte(first, e) = -1
               /\ \A y \in Nat : y < first + ByteBits => y \in d
    <2>1. find_bit_in_byte(first, e) = -1
      BY <1>0, <1>1 DEF find_bit_in_byte
    <2>2. ASSUME NEW y \in Nat, y < first + ByteBits, y >= first
          PROVE  y \in d
      <3>1. y - first \in 0..(ByteBits - 1) /\ (y - first) + first = y
        BY <2>2, Widths
      <3>2. y - first \in e
        BY <1>1, <3>1 DEF LowByteSet
      <3> QED BY <3>1, <3>2
    <2> QED BY <2>1, <2>2
  <1>2. ASSUME ~LowByteSet(e)
        PROVE  find_bit_in_byte(first, e) = Lowest(d)
    <2> DEFINE m == Min(clear)
    <2>1. m \in clear /\ \A y \in clear : m <= y
      <3>1. clear \in SUBSET Nat /\ clear # {}
        BY <1>0, <1>2, Widths
      <3> HIDE DEF clear
      <3> QED BY <3>1, MinIsLeast
    <2>2. find_bit_in_byte(first, e) = first + m
      BY <1>0, <1>2 DEF find_bit_in_byte
    <2> HIDE DEF m
    <2>3. first + m \in Bits \ d
      <3>1. m \in Nat /\ m < ByteBits /\ m \notin e
        BY <2>1, Widths
      <3>2. m + first \notin d
        BY <3>1, Widths
      <3>3. first + m \in Bits /\ first + m = m + first
        BY <3>1, Widths
      <3> QED BY <3>2, <3>3
    <2>4. ASSUME NEW y \in Bits \ d PROVE first + m <= y
      <3>1. y \in Nat /\ y >= first
        BY Widths
      <3>2. CASE y >= first + ByteBits
        BY <2>1, <3>1, <3>2, Widths
      <3>3. CASE y < first + ByteBits
        <4>1. y - first \in 0..(ByteBits - 1) /\ (y - first) + first = y
          BY <3>1, <3>3, Widths
        <4>2. y - first \notin e
          BY <4>1
        <4>3. m <= y - first
          BY <2>1, <4>1, <4>2
        <4> QED BY <2>1, <3>1, <4>3
      <3> QED BY <3>1, <3>2, <3>3, Widths
    <2>5. Bits \ d \in SUBSET Nat /\ Bits \ d # {}
      BY <2>3, Widths
    <2>6. Min(Bits \ d) = first + m
      BY <2>3, <2>4, <2>5, MinIs
    <2> QED BY <2>2, <2>5, <2>6 DEF Lowest
  <1> QED BY <1>1, <1>2

(* The binary search of bitmap_find_clear finds the lowest clear bit. *)
LEMMA FindsLowest ==
  ASSUME NEW d \in SUBSET Bits
  PROVE  bitmap_find_clear(d) = Lowest(d)
  <1> DEFINE d1 == Shift(d, ByteBits)
             d2 == Shift(d, 2 * ByteBits)
             d3 == Shift(d2, ByteBits)
  <1>0. d \in SUBSET Nat /\ d1 \in SUBSET Nat /\ d2 \in SUBSET Nat /\ d3 \in SUBSET Nat
    BY Widths, ShiftNat
  <1>s. ASSUME NEW b \in Nat
        PROVE  /\ b \in d1 <=> b + ByteBits \in d
               /\ b \in d2 <=> b + 2 * ByteBits \in d
               /\ b \in d3 <=> b + 3 * ByteBits \in d
    <2>1. /\ b \in d1 <=> b + ByteBits \in d
          /\ b \in d2 <=> b + 2 * ByteBits \in d
      BY <1>0, Widths, ShiftIn
    <2>2. b \in d3 <=> b + ByteBits \in d2
      BY <1>0, Widths, ShiftIn
    <2>3. b + ByteBits \in d2 <=> (b + ByteBits) + 2 * ByteBits \in d
      BY <1>0, Widths, ShiftIn
    <2>4. (b + ByteBits) + 2 * ByteBits = b + 3 * ByteBits
      BY Widths
    <2> QED BY <2>1, <2>2, <2>3, <2>4
  <1>d. bitmap_find_clear(d) =
          IF ~LowWordSet(d)
          THEN IF ~LowByteSet(d) THEN find_bit_in_byte(0, d) ELSE find_bit_in_byte(ByteBits, d1)
          ELSE IF ~LowByteSet(d2) THEN find_bit_in_byte(2 * ByteBits, d2)
               ELSE find_bit_in_byte(3 * ByteBits, d3)
    BY DEF bitmap_find_clear
  <1> HIDE DEF d1, d2, d3
  <1>1. CASE ~LowByteSet(d)
    <2>1. ~LowWordSet(d)
      BY <1>1, Widths DEF LowByteSet, LowWordSet
    <2>2. find_bit_in_byte(0, d) = Lowest(d)
      BY <1>0, <1>1, Widths, InByte
    <2> QED BY <1>d, <1>1, <2>1, <2>2
  <1>2. CASE LowByteSet(d) /\ ~LowWordSet(d)
    <2>1. \A y \in Nat : y < ByteBits => y \in d
      BY <1>2, Widths DEF LowByteSet
    <2>2. ~LowByteSet(d1)
      <3> SUFFICES ASSUME LowByteSet(d1) PROVE LowWordSet(d)
        BY <1>2
      <3>1. ASSUME NEW y \in 0..(2 * ByteBits - 1), y >= ByteBits PROVE y \in d
        <4>1. y - ByteBits \in 0..(ByteBits - 1) /\ y - ByteBits \in Nat
              /\ (y - ByteBits) + ByteBits = y
          BY <3>1, Widths
        <4>2. y - ByteBits \in d1
          BY <4>1 DEF LowByteSet
        <4> QED BY <1>s, <4>1, <4>2
      <3> QED BY <2>1, <3>1, Widths DEF LowWordSet
    <2>3. find_bit_in_byte(ByteBits, d1) = Lowest(d)
      <3>1. \A b \in 0..(ByteBits - 1) : b \in d1 <=> b + ByteBits \in d
        BY <1>s
      <3> QED BY <1>0, <2>1, <2>2, <3>1, Widths, InByte
    <2> QED BY <1>d, <1>2, <2>3
  <1>3. CASE LowWordSet(d)
    <2>1. \A y \in Nat : y < 2 * ByteBits => y \in d
      BY <1>3, Widths DEF LowWordSet
    <2>2. \A b \in 0..(ByteBits - 1) : b \in d2 <=> b + 2 * ByteBits \in d
      BY <1>s
    <2>3. /\ ~LowByteSet(d2) => find_bit_in_byte(2 * ByteBits, d2) = Lowest(d)
          /\ LowByteSet(d2) => \A y \in Nat : y < 2 * ByteBits + ByteBits => y \in d
      <3>1. 2 * ByteBits \in Nat /\ 2 * ByteBits + ByteBits <= LongBits
        BY Widths
      <3> QED BY <1>0, <2>1, <2>2, <3>1, InByte
    <2>4. ASSUME LowByteSet(d2) PROVE find_bit_in_byte(3 * ByteBits, d3) = Lowest(d)
      <3>1. /\ 3 * ByteBits \in Nat /\ 3 * ByteBits + ByteBits <= LongBits
            /\ \A y \in Nat : y < 3 * ByteBits => y \in d
        BY <2>3, <2>4, Widths
      <3>2. \A b \in 0..(ByteBits - 1) : b \in d3 <=> b + 3 * ByteBits \in d
        BY <1>s
      <3>3. /\ ~LowByteSet(d3) => find_bit_in_byte(3 * ByteBits, d3) = Lowest(d)
            /\ LowByteSet(d3) => /\ find_bit_in_byte(3 * ByteBits, d3) = -1
                                 /\ \A y \in Nat : y < 3 * ByteBits + ByteBits => y \in d
        BY <1>0, <3>1, <3>2, InByte
      <3>4. LowByteSet(d3) => Bits \ d = {}
        BY <3>3, Widths
      <3> QED BY <3>3, <3>4 DEF Lowest
    <2> QED BY <1>d, <1>3, <2>3, <2>4
  <1> QED BY <1>1, <1>2, <1>3

-----------------------------------------------------------------------------
(* The search for a run.  After k turns of its loop, d2 is the long word   *)
(* shifted down by k with ones moved in, and d1 has a bit clear where a    *)
(* run of k + 1 clear bits begins.                                         *)
Shifted(bm, k) == {b \in Bits : b + k \in bm \/ b + k >= LongBits}
Covered(bm, k) == {b \in Bits : \E j \in 0..k : b + j \in bm \/ b + j >= LongBits}

LEMMA TurnShifts ==
  ASSUME NEW bm \in SUBSET Bits, NEW k \in Nat
  PROVE  Turn([d1 |-> Covered(bm, k), d2 |-> Shifted(bm, k)])
           = [d1 |-> Covered(bm, k + 1), d2 |-> Shifted(bm, k + 1)]
  <1> DEFINE d == Shift(Shifted(bm, k), 1) \cup {LongBits - 1}
  <1>0. bm \in SUBSET Nat /\ Shifted(bm, k) \in SUBSET Nat
    BY Widths DEF Shifted
  <1>1. ASSUME NEW b PROVE b \in d <=> b \in Shifted(bm, k + 1)
    <2>0. b \in d => b \in Bits
      <3>1. ASSUME NEW c \in Shifted(bm, k), c >= 1 PROVE c - 1 \in Bits
        BY <3>1, Widths DEF Shifted
      <3>2. Shift(Shifted(bm, k), 1) \subseteq Bits
        BY <3>1 DEF Shift
      <3> QED BY <3>2, Widths
    <2>1. ASSUME b \in Bits PROVE b \in d <=> b \in Shifted(bm, k + 1)
      <3>1. b \in Nat /\ b < LongBits /\ LongBits \in Nat
        BY <2>1, Widths
      <3>2. b \in Shift(Shifted(bm, k), 1) <=> b + 1 \in Shifted(bm, k)
        BY <1>0, <3>1, ShiftIn
      <3>3. b + 1 \in Shifted(bm, k)
              <=> b + 1 < LongBits /\ (b + 1 + k \in bm \/ b + 1 + k >= LongBits)
        BY <3>1, Widths DEF Shifted
      <3>4. b + 1 + k = b + (k + 1)
        BY <3>1
      <3>5. b \in Shifted(bm, k + 1) <=> b + (k + 1) \in bm \/ b + (k + 1) >= LongBits
        BY <2>1 DEF Shifted
      <3>6. b + 1 >= LongBits <=> b = LongBits - 1
        BY <3>1
      <3>7. b + 1 >= LongBits => b + (k + 1) >= LongBits
        BY <3>1
      <3> QED BY <3>1, <3>2, <3>3, <3>4, <3>5, <3>6, <3>7
    <2> QED BY <2>0, <2>1 DEF Shifted
  <1>2. d = Shifted(bm, k + 1)
    <2> HIDE DEF d
    <2> QED BY <1>1
  <1>3. Covered(bm, k) \cup Shifted(bm, k + 1) = Covered(bm, k + 1)
    <2>1. 0..(k + 1) = 0..k \cup {k + 1}
      OBVIOUS
    <2> QED BY <2>1 DEF Covered, Shifted
  <1> QED BY <1>2, <1>3 DEF Turn

LEMMA LoopComputes ==
  ASSUME NEW bm \in SUBSET Bits, NEW n, NEW stale,
         Turns(n, stale) \in 0..LongBits
  PROVE  bitmap_find_n_clear(bm, n, stale) = Lowest(Covered(bm, Turns(n, stale)))
  <1> DEFINE Body(f) == [k \in 0..LongBits |->
                           IF k = 0 THEN [d1 |-> bm, d2 |-> bm] ELSE Turn(f[k - 1])]
             after == CHOOSE f : f = Body(f)
             G == [k \in 0..LongBits |-> [d1 |-> Covered(bm, k), d2 |-> Shifted(bm, k)]]
  <1>0. LongBits \in Nat
    BY Widths
  <1>1. G[0] = [d1 |-> bm, d2 |-> bm]
    <2>1. Covered(bm, 0) = bm /\ Shifted(bm, 0) = bm
      BY Widths DEF Covered, Shifted
    <2> QED BY <1>0, <2>1
  <1>2. ASSUME NEW k \in 0..LongBits, k # 0 PROVE G[k] = Turn(G[k - 1])
    <2>1. k - 1 \in Nat /\ k - 1 \in 0..LongBits /\ (k - 1) + 1 = k
      BY <1>0, <1>2
    <2>2. G[k - 1] = [d1 |-> Covered(bm, k - 1), d2 |-> Shifted(bm, k - 1)]
      BY <2>1
    <2>3. Turn(G[k - 1]) = [d1 |-> Covered(bm, (k - 1) + 1), d2 |-> Shifted(bm, (k - 1) + 1)]
      BY <2>1, <2>2, TurnShifts
    <2> QED BY <2>1, <2>3
  <1>3. G = Body(G)
    <2>1. ASSUME NEW k \in 0..LongBits PROVE G[k] = Body(G)[k]
      <3> HIDE DEF G
      <3> QED BY <1>1, <1>2
    <2>2. /\ G = [k \in 0..LongBits |-> G[k]]
          /\ Body(G) = [k \in 0..LongBits |-> Body(G)[k]]
      OBVIOUS
    <2> HIDE DEF G, Body
    <2> QED BY <2>1, <2>2
  <1>4. after = Body(after)
    <2> HIDE DEF Body, G
    <2> QED BY <1>3
  <1>5. \A k \in 0..LongBits : after[k] = G[k]
    <2> DEFINE S == {k \in Nat : k <= LongBits => after[k] = G[k]}
    <2>1. 0 \in S
      <3>1. Body(after)[0] = [d1 |-> bm, d2 |-> bm]
        <4> HIDE DEF after
        <4> QED BY <1>0
      <3> HIDE DEF after, G, Body
      <3> QED BY <1>1, <1>4, <3>1
    <2>2. ASSUME NEW k \in Nat, k \in S PROVE k + 1 \in S
      <3> SUFFICES ASSUME k + 1 <= LongBits PROVE after[k + 1] = G[k + 1]
        OBVIOUS
      <3>1. k + 1 \in 0..LongBits /\ k + 1 # 0 /\ (k + 1) - 1 = k /\ k <= LongBits
        BY <1>0
      <3>2. Body(after)[k + 1] = Turn(after[(k + 1) - 1])
        <4> HIDE DEF after
        <4> QED BY <3>1
      <3> HIDE DEF after, G, Body
      <3>3. after[k] = G[k]
        BY <2>2, <3>1
      <3> QED BY <1>2, <1>4, <3>1, <3>2, <3>3
    <2> HIDE DEF S
    <2>3. Nat \subseteq S
      BY <2>1, <2>2, Induction
    <2>4. ASSUME NEW k \in 0..LongBits PROVE after[k] = G[k]
      <3>1. k \in S /\ k <= LongBits
        BY <1>0, <2>3
      <3> HIDE DEF after, G
      <3> QED BY <3>1 DEF S
    <2> QED BY <2>4
  <1>6. bitmap_find_n_clear(bm, n, stale) = bitmap_find_clear(after[Turns(n, stale)].d1)
    BY DEF bitmap_find_n_clear
  <1> HIDE DEF after
  <1>7. after[Turns(n, stale)].d1 = Covered(bm, Turns(n, stale))
    <2> DEFINE t == Turns(n, stale)
    <2>1. t \in 0..LongBits
      OBVIOUS
    <2> HIDE DEF t
    <2>2. G[t].d1 = Covered(bm, t)
      BY <2>1
    <2> HIDE DEF G
    <2>3. after[t].d1 = Covered(bm, t)
      BY <1>5, <2>1, <2>2
    <2> QED BY <2>3 DEF t
  <1>8. Covered(bm, Turns(n, stale)) \in SUBSET Bits
    BY DEF Covered
  <1> QED BY <1>6, <1>7, <1>8, FindsLowest

LEMMA AllCovered ==
  ASSUME NEW bm \in SUBSET Bits
  PROVE  Lowest(Covered(bm, LongBits)) = -1
  <1>1. ASSUME NEW b \in Bits PROVE b \in Covered(bm, LongBits)
    <2>1. LongBits \in 0..LongBits /\ b + LongBits >= LongBits
      BY Widths
    <2> QED BY <2>1 DEF Covered
  <1> QED BY <1>1 DEF Lowest

(* A search with a stale count, and one for nothing, find nothing. *)
LEMMA FindsNothing ==
  ASSUME NEW bm \in SUBSET Bits, NEW n, NEW stale, stale = TRUE \/ n = 0
  PROVE  bitmap_find_n_clear(bm, n, stale) = -1
  <1>1. Turns(n, stale) = LongBits
    BY DEF Turns
  <1>2. LongBits \in 0..LongBits
    BY Widths
  <1> QED BY <1>1, <1>2, LoopComputes, AllCovered

LEMMA FindsRun ==
  ASSUME NEW bm \in SUBSET Bits, NEW n \in Nat \ {0}
  PROVE  bitmap_find_n_clear(bm, n, FALSE) = FirstRun(bm, n)
  <1> DEFINE starts == {b \in Bits : b + n <= LongBits /\ b..(b + n - 1) \cap bm = {}}
  <1>0. FirstRun(bm, n) = IF starts = {} THEN -1 ELSE Min(starts)
    BY DEF FirstRun
  <1>1. CASE n > LongBits
    <2>1. Turns(n, FALSE) = LongBits /\ LongBits \in 0..LongBits
      BY <1>1, Widths DEF Turns
    <2>2. starts = {}
      BY <1>1, Widths
    <2> QED BY <1>0, <2>1, <2>2, LoopComputes, AllCovered
  <1>2. CASE n <= LongBits
    <2>1. Turns(n, FALSE) = n - 1 /\ n - 1 \in 0..LongBits
      BY <1>2, Widths DEF Turns
    <2>2. ASSUME NEW b \in Bits
          PROVE  b \in starts <=> b \notin Covered(bm, n - 1)
      <3>0. b \in Nat /\ LongBits \in Nat
        BY Widths
      <3>1. ASSUME b \in starts, b \in Covered(bm, n - 1) PROVE FALSE
        <4>1. PICK j \in 0..(n - 1) : b + j \in bm \/ b + j >= LongBits
          BY <3>1 DEF Covered
        <4>2. b + j \in b..(b + n - 1) /\ b + j < LongBits
          BY <3>0, <3>1, <4>1
        <4> QED BY <3>0, <3>1, <4>1, <4>2
      <3>2. ASSUME b \notin Covered(bm, n - 1) PROVE b \in starts
        <4>1. \A j \in 0..(n - 1) : b + j \notin bm /\ ~(b + j >= LongBits)
          BY <3>2 DEF Covered
        <4>2. b + n <= LongBits
          <5>1. n - 1 \in 0..(n - 1)
            OBVIOUS
          <5>2. ~(b + (n - 1) >= LongBits)
            BY <4>1, <5>1
          <5> QED BY <3>0, <5>2
        <4>3. ASSUME NEW x \in b..(b + n - 1), x \in bm PROVE FALSE
          <5>1. x - b \in 0..(n - 1) /\ b + (x - b) = x
            BY <3>0
          <5> QED BY <4>1, <4>3, <5>1
        <4> QED BY <4>2, <4>3
      <3> QED BY <3>1, <3>2
    <2>3. starts = Bits \ Covered(bm, n - 1)
      BY <2>2
    <2> HIDE DEF starts
    <2>4. FirstRun(bm, n) = Lowest(Covered(bm, n - 1))
      BY <1>0, <2>3 DEF Lowest
    <2> QED BY <2>1, <2>4, LoopComputes
  <1>3. n > LongBits \/ n <= LongBits
    <2>1. LongBits \in Nat
      BY Widths
    <2> QED BY <2>1
  <1> QED BY <1>1, <1>2, <1>3

LEMMA FirstRunOfOne ==
  ASSUME NEW bm \in SUBSET Bits
  PROVE  FirstRun(bm, 1) = Lowest(bm)
  <1> DEFINE starts == {b \in Bits : b + 1 <= LongBits /\ b..(b + 1 - 1) \cap bm = {}}
  <1>1. ASSUME NEW b \in Bits PROVE b \in starts <=> b \notin bm
    <2>1. b \in Nat /\ b + 1 <= LongBits /\ b..(b + 1 - 1) = {b}
      BY Widths
    <2> QED BY <2>1
  <1>2. starts = Bits \ bm
    BY <1>1
  <1>3. FirstRun(bm, 1) = IF starts = {} THEN -1 ELSE Min(starts)
    BY DEF FirstRun
  <1> QED BY <1>2, <1>3 DEF Lowest

(* The searches of bitmap.asm return what bitmap.h says, for every long    *)
(* word of any width.                                                      *)
LEMMA SearchesAgree == ClearAgrees /\ RunAgrees
  <1>1. ClearAgrees
    BY FindsLowest, FirstRunOfOne DEF ClearAgrees
  <1>2. ASSUME NEW bm \in SUBSET Bits, NEW n \in 1..(LongBits + 1)
        PROVE  bitmap_find_n_clear(bm, n, FALSE) = FirstRun(bm, n)
    <2>1. n \in Nat \ {0}
      BY Widths
    <2> QED BY <2>1, FindsRun
  <1>3. ASSUME NEW bm \in SUBSET Bits
        PROVE  bitmap_find_n_clear(bm, 0, FALSE) = -1
    BY FindsNothing
  <1> QED BY <1>1, <1>2, <1>3 DEF RunAgrees

LEMMA DivMod ==
  ASSUME NEW n \in Nat, NEW l \in Nat \ {0}, n < 2 * l
  PROVE  IF n < l THEN n \div l = 0 /\ n % l = n ELSE n \div l = 1 /\ n % l = n - l
  <1>1. n = l * (n \div l) + (n % l) /\ (n % l) \in 0..(l - 1) /\ n \div l \in Int
    OBVIOUS
  <1>2. ASSUME NEW x \in Int, NEW y \in 0..(l - 1), n = l * x + y
        PROVE  IF n < l THEN x = 0 /\ y = n ELSE x = 1 /\ y = n - l
    <2>1. x <= -1 => l * x <= -l
      OBVIOUS
    <2>2. x >= 2 => l * x >= 2 * l
      OBVIOUS
    <2>3. x = 0 \/ x = 1
      BY <1>2, <2>1, <2>2
    <2> QED BY <1>2, <2>3
  <1> DEFINE q == n \div l
             r == n % l
  <1>3. n = l * q + r /\ r \in 0..(l - 1) /\ q \in Int
    BY <1>1
  <1> HIDE DEF q, r
  <1>4. IF n < l THEN q = 0 /\ r = n ELSE q = 1 /\ r = n - l
    BY <1>2, <1>3
  <1> QED BY <1>4 DEF q, r

LEMMA BitSplit ==
  ASSUME NEW b \in 0..(2 * LongBits - 1)
  PROVE  \/ b < LongBits /\ BitOf(b) = [long |-> 0, bit |-> b]
         \/ b >= LongBits /\ BitOf(b) = [long |-> 1, bit |-> b - LongBits]
  <1>1. LongBits \in Nat \ {0} /\ b \in Nat /\ b < 2 * LongBits
    BY Widths
  <1>2. b < LongBits \/ b >= LongBits
    BY <1>1
  <1>3. IF b < LongBits THEN b \div LongBits = 0 /\ b % LongBits = b
                        ELSE b \div LongBits = 1 /\ b % LongBits = b - LongBits
    BY <1>1, DivMod
  <1> QED BY <1>1, <1>2, <1>3 DEF BitOf

(* The single bit operations change the bit they are given. *)
LEMMA ChangesHold == ChangesAgree
  <1> SUFFICES ASSUME NEW longs \in Longs, NEW b \in 0..(2 * LongBits - 1)
               PROVE  /\ Numbers(bitmap_set(longs, b)) = Numbers(longs) \cup {b}
                      /\ Numbers(bitmap_clear(longs, b)) = Numbers(longs) \ {b}
                      /\ Numbers(bitmap_flip(longs, b)) = SymDiff(Numbers(longs), {b})
    BY DEF ChangesAgree
  <1> DEFINE Two == [{0, 1} -> SUBSET Bits]
  <1>0. longs \in Two
    BY DEF Longs
  <1>1. ASSUME NEW l \in Two, NEW x
        PROVE  x \in Numbers(l) <=>
                 \/ x \in Bits /\ x \in l[0]
                 \/ x \in LongBits..(2 * LongBits - 1) /\ x - LongBits \in l[1]
    <2>0. l[0] \in SUBSET Bits /\ l[1] \in SUBSET Bits
      OBVIOUS
    <2>1. ASSUME NEW c \in l[1]
          PROVE  /\ c + LongBits \in LongBits..(2 * LongBits - 1)
                 /\ (c + LongBits) - LongBits = c
      BY <2>0, Widths
    <2>2. ASSUME x \in LongBits..(2 * LongBits - 1), x - LongBits \in l[1]
          PROVE  x \in {c + LongBits : c \in l[1]}
      <3>1. x = (x - LongBits) + LongBits
        BY <2>2, Widths
      <3> QED BY <2>2, <3>1
    <2>3. x \in Numbers(l) <=> x \in l[0] \/ x \in {c + LongBits : c \in l[1]}
      BY DEF Numbers
    <2> QED BY <2>0, <2>1, <2>2, <2>3
  <1> DEFINE k == BitOf(b).long
             c == BitOf(b).bit
  <1>2. /\ k \in {0, 1} /\ c \in Bits
        /\ b < LongBits => k = 0 /\ c = b
        /\ b >= LongBits => k = 1 /\ c = b - LongBits
    BY BitSplit, Widths
  <1>3. ASSUME NEW D \in SUBSET Bits, NEW x,
               \A y \in Bits : y # c => (y \in D <=> y \in longs[k])
        PROVE  x \in Numbers([longs EXCEPT ![k] = D])
                 <=> IF x = b THEN c \in D ELSE x \in Numbers(longs)
    <2> DEFINE l == [longs EXCEPT ![k] = D]
    <2> SUFFICES x \in Numbers(l) <=> IF x = b THEN c \in D ELSE x \in Numbers(longs)
      OBVIOUS
    <2>0. l \in Two /\ l[k] = D /\ \A j \in {0, 1} : j # k => l[j] = longs[j]
      BY <1>0, <1>2
    <2> HIDE DEF l, Two, k, c
    <2>1. /\ x \in Numbers(l) <=>
               \/ x \in Bits /\ x \in l[0]
               \/ x \in LongBits..(2 * LongBits - 1) /\ x - LongBits \in l[1]
          /\ x \in Numbers(longs) <=>
               \/ x \in Bits /\ x \in longs[0]
               \/ x \in LongBits..(2 * LongBits - 1) /\ x - LongBits \in longs[1]
      BY <1>0, <1>1, <2>0
    <2>2. b \in Nat /\ LongBits \in Nat /\ b < 2 * LongBits
      BY Widths
    <2>3. CASE k = 0
      <3>1. b < LongBits /\ c = b
        BY <1>2, <2>2, <2>3
      <3> QED BY <1>3, <2>0, <2>1, <2>2, <2>3, <3>1, Widths
    <2>4. CASE k = 1
      <3>1. b >= LongBits /\ c = b - LongBits
        BY <1>2, <2>2, <2>4
      <3>2. ASSUME x \in LongBits..(2 * LongBits - 1), x # b
            PROVE  x - LongBits \in Bits /\ x - LongBits # c
        BY <2>2, <3>1, <3>2, Widths
      <3> QED BY <1>3, <2>0, <2>1, <2>2, <2>4, <3>1, <3>2, Widths
    <2> QED BY <1>2, <2>3, <2>4
  <1>4. b \in Numbers(longs) <=> c \in longs[k]
    <2> HIDE DEF Two
    <2>1. b \in Nat /\ LongBits \in Nat /\ b < 2 * LongBits
      BY Widths
    <2> QED BY <1>0, <1>1, <1>2, <2>1, Widths
  <1>5. longs[k] \in SUBSET Bits
    BY <1>0, <1>2
  <1> HIDE DEF k, c, Two
  <1>6. Numbers(bitmap_set(longs, b)) = Numbers(longs) \cup {b}
    <2>1. bitmap_set(longs, b) = [longs EXCEPT ![k] = longs[k] \cup {c}]
      BY DEF bitmap_set, k, c
    <2>2. longs[k] \cup {c} \in SUBSET Bits
      BY <1>2, <1>5
    <2> QED BY <1>3, <2>1, <2>2
  <1>7. Numbers(bitmap_clear(longs, b)) = Numbers(longs) \ {b}
    <2>1. bitmap_clear(longs, b) = [longs EXCEPT ![k] = longs[k] \ {c}]
      BY DEF bitmap_clear, k, c
    <2>2. longs[k] \ {c} \in SUBSET Bits
      BY <1>5
    <2> QED BY <1>3, <2>1, <2>2
  <1>8. Numbers(bitmap_flip(longs, b)) = SymDiff(Numbers(longs), {b})
    <2>1. bitmap_flip(longs, b) = [longs EXCEPT ![k] = SymDiff(longs[k], {c})]
      BY DEF bitmap_flip, k, c
    <2>2. SymDiff(longs[k], {c}) \in SUBSET Bits
      BY <1>2, <1>5 DEF SymDiff
    <2> QED BY <1>3, <1>4, <2>1, <2>2, ZenonT(40) DEF SymDiff
  <1> QED BY <1>6, <1>7, <1>8

-----------------------------------------------------------------------------
(* The allocator.  What the properties leave open is that blocks are only  *)
(* held of slabs that are on a list: a page of the pool has no user.       *)
HeldInSlabs == \A h \in held : h.page \in Slabs
SlabInv == TypeOK /\ BlocksApart /\ PageOnce /\ SlabsInUse /\ HeldInSlabs

LEMMA Meta == MetaBlock \in Bits /\ MetaBlock \in Nat /\ MetaBlock >= 3
              /\ LongBits = MetaBlock + 1 /\ SLAB_INIT_BMP = {MetaBlock}
              /\ SLAB_INIT_BMP # Bits
  <1>1. MetaBlock \in Bits /\ MetaBlock \in Nat /\ MetaBlock >= 3 /\ LongBits = MetaBlock + 1
    BY Widths DEF MetaBlock
  <1>2. 0 \in Bits
    BY Widths
  <1> QED BY <1>1, <1>2 DEF SLAB_INIT_BMP

LEMMA RunIn ==
  ASSUME NEW f \in Nat, NEW n \in Nat \ {0}
  PROVE  f \in Run(f, n) /\ \A b : b \in Run(f, n) <=> b \in Nat /\ f <= b /\ b < f + n
  BY DEF Run

LEMMA FirstRunFits ==
  ASSUME NEW bm \in SUBSET Bits, NEW n \in Nat \ {0}, FirstRun(bm, n) # -1
  PROVE  /\ FirstRun(bm, n) \in Nat /\ FirstRun(bm, n) + n <= LongBits
         /\ Run(FirstRun(bm, n), n) \cap bm = {}
  <1> DEFINE starts == {b \in Bits : b + n <= LongBits /\ b..(b + n - 1) \cap bm = {}}
  <1>1. starts # {} /\ FirstRun(bm, n) = Min(starts)
    BY DEF FirstRun
  <1>2. starts \in SUBSET Nat
    BY Widths
  <1>3. Min(starts) \in starts
    <2> HIDE DEF starts
    <2> QED BY <1>1, <1>2, MinIsLeast
  <1> QED BY <1>1, <1>2, <1>3 DEF Run

(* Only the first slab of the list is ever found to have room: for the     *)
(* others the search runs with a stale count, and finds nothing.           *)
LEMMA OnlyHead ==
  ASSUME TypeOK, NEW n \in Nat \ {0}
  PROVE  /\ Fitting(n) # {} => /\ partial_slabs # <<>> /\ Min(Fitting(n)) = 1
                               /\ Found(n, 1) = FirstRun(bitmap[Head(partial_slabs)], n)
                               /\ HeadFits(n)
         /\ Fitting(n) = {} => ~HeadFits(n)
  <1>0. partial_slabs \in Seq(Pages) /\ bitmap \in [Pages -> SUBSET Bits]
    BY DEF TypeOK
  <1>1. ASSUME NEW i \in DOMAIN partial_slabs
        PROVE  /\ i \in Nat /\ bitmap[partial_slabs[i]] \in SUBSET Bits
               /\ i > 1 => Found(n, i) = -1
               /\ i = 1 => Found(n, i) = FirstRun(bitmap[partial_slabs[i]], n)
    <2>1. i \in Nat /\ partial_slabs[i] \in Pages /\ bitmap[partial_slabs[i]] \in SUBSET Bits
      BY <1>0
    <2>2. CASE i > 1
      <3>1. (i > 1) = TRUE
        BY <2>2, Zenon
      <3>2. Found(n, i) = bitmap_find_n_clear(bitmap[partial_slabs[i]], n, TRUE)
        BY <3>1 DEF Found
      <3>3. bitmap_find_n_clear(bitmap[partial_slabs[i]], n, TRUE) = -1
        BY <2>1, FindsNothing
      <3>4. Found(n, i) = -1
        BY <3>2, <3>3, Zenon
      <3> QED BY <2>1, <2>2, <3>4
    <2>3. CASE i = 1
      <3>1. (i > 1) = FALSE
        BY <2>3
      <3>2. Found(n, i) = bitmap_find_n_clear(bitmap[partial_slabs[i]], n, FALSE)
        BY <3>1 DEF Found
      <3>3. bitmap_find_n_clear(bitmap[partial_slabs[i]], n, FALSE)
              = FirstRun(bitmap[partial_slabs[i]], n)
        BY <2>1, FindsRun
      <3>4. Found(n, i) = FirstRun(bitmap[partial_slabs[i]], n)
        BY <3>2, <3>3, Zenon
      <3> QED BY <2>1, <2>3, <3>4
    <2>4. i >= 1
      BY <1>0
    <2> QED BY <2>1, <2>2, <2>3, <2>4
  <1>2. Fitting(n) \subseteq {1}
    <2>1. \A i \in DOMAIN partial_slabs : i \in Nat /\ i >= 1
      BY <1>0
    <2> QED BY <1>1, <2>1 DEF Fitting
  <1>3. partial_slabs # <<>> => 1 \in DOMAIN partial_slabs /\ Head(partial_slabs) = partial_slabs[1]
    BY <1>0
  <1>4. 1 \in DOMAIN partial_slabs => partial_slabs # <<>>
    OBVIOUS
  <1>5. ASSUME Fitting(n) # {}
        PROVE  /\ partial_slabs # <<>> /\ Min(Fitting(n)) = 1
               /\ Found(n, 1) = FirstRun(bitmap[Head(partial_slabs)], n)
               /\ HeadFits(n)
    <2>1. Fitting(n) = {1} /\ 1 \in DOMAIN partial_slabs /\ Found(n, 1) # -1
      BY <1>2, <1>5 DEF Fitting
    <2>2. Min({1}) = 1
      BY MinIs
    <2> QED BY <1>1, <1>3, <1>4, <2>1, <2>2 DEF HeadFits
  <1>6. ASSUME HeadFits(n) PROVE Fitting(n) # {}
    BY <1>1, <1>3, <1>6 DEF HeadFits, Fitting
  <1> QED BY <1>5, <1>6

(* The lists after .alloc_block on slab p, the head of q: a slab that is   *)
(* full has changed lists, and no list has it twice.                       *)
LEMMA AllocLists ==
  ASSUME NEW q \in Seq(Pages), NEW p \in Pages, NEW f, NEW n, NEW used,
         full_slabs \in Seq(Pages), bitmap \in [Pages -> SUBSET Bits],
         q # <<>>, p = Head(q), IsInjective(q), IsInjective(full_slabs),
         ToSet(q) \cap ToSet(full_slabs) = {},
         \A r \in ToSet(q) : r # p => bitmap[r] # Bits,
         alloc_block(q, p, f, n, used)
  PROVE  /\ {partial_slabs', full_slabs'} \subseteq Seq(Pages)
         /\ IsInjective(partial_slabs') /\ IsInjective(full_slabs')
         /\ ToSet(partial_slabs') \cap ToSet(full_slabs') = {}
         /\ Slabs' = ToSet(q) \cup ToSet(full_slabs)
         /\ \A r \in ToSet(partial_slabs') : bitmap'[r] # Bits
  <1> DEFINE now == used \cup Run(f, n)
  <1>b. /\ bitmap' = [bitmap EXCEPT ![p] = now]
        /\ IF now = Bits
           THEN partial_slabs' = Tail(q) /\ full_slabs' = <<Head(q)>> \o full_slabs
           ELSE partial_slabs' = q /\ full_slabs' = full_slabs
    BY DEF alloc_block
  <1>p. p = Head(q)
    OBVIOUS
  <1>s. Slabs' = ToSet(partial_slabs') \cup ToSet(full_slabs')
    BY DEF Slabs
  <1>q. /\ Tail(q) \in Seq(Pages) /\ ToSet(q) = ToSet(Tail(q)) \cup {p}
        /\ IsInjective(Tail(q)) /\ p \notin ToSet(Tail(q))
    BY DeleteHead
  <1>f. /\ <<p>> \o full_slabs \in Seq(Pages)
        /\ ToSet(<<p>> \o full_slabs) = ToSet(full_slabs) \cup {p}
        /\ IsInjective(<<p>> \o full_slabs)
    BY <1>q, AddHead
  <1>1. ToSet(q) \subseteq Pages
    BY Positions
  <1>2. \A r \in Pages : bitmap'[r] = IF r = p THEN now ELSE bitmap[r]
    BY <1>b
  <1> HIDE DEF now
  <1>3. CASE now = Bits
    <2>1. partial_slabs' = Tail(q) /\ full_slabs' = <<p>> \o full_slabs
      BY <1>b, <1>p, <1>3
    <2> QED BY <1>s, <1>q, <1>f, <1>1, <1>2, <2>1
  <1>4. CASE now # Bits
    <2>1. partial_slabs' = q /\ full_slabs' = full_slabs
      BY <1>b, <1>4
    <2> QED BY <1>s, <1>q, <1>1, <1>2, <1>4, <2>1
  <1> QED BY <1>3, <1>4

(* What is held of a page, when h is one of the blocks that are held. *)
LEMMA RunsIn ==
  ASSUME NEW p, NEW b
  PROVE  b \in RunsOf(p) <=> \E h \in held : h.page = p /\ b \in Run(h.first, h.n)
  BY DEF RunsOf

LEMMA AllocBlock ==
  ASSUME SlabInv,
         NEW q \in Seq(Pages), NEW p \in Pages, NEW f \in Nat, NEW n \in 1..MetaBlock,
         NEW used \in SUBSET Bits,
         q # <<>>, p = Head(q), IsInjective(q),
         ToSet(q) \cap ToSet(full_slabs) = {},
         ToSet(q) \cup ToSet(full_slabs) = Slabs \cup {p},
         \A r \in ToSet(q) : r # p => bitmap[r] # Bits,
         used = SLAB_INIT_BMP \cup RunsOf(p),
         f + n <= LongBits, Run(f, n) \cap used = {},
         alloc_block(q, p, f, n, used),
         pool' = pool \ {p}
  PROVE  SlabInv'
  <1> DEFINE new == [page |-> p, first |-> f, n |-> n]
             all == ToSet(q) \cup ToSet(full_slabs)
  <1>t. /\ full_slabs \in Seq(Pages) /\ bitmap \in [Pages -> SUBSET Bits]
        /\ pool \subseteq Pages /\ held \subseteq [page : Pages, first : Bits, n : 1..MetaBlock]
        /\ IsInjective(full_slabs) /\ Slabs = Pages \ pool
    BY DEF SlabInv, TypeOK, PageOnce
  <1>n. n \in Nat \ {0} /\ f \in Bits
    BY Meta, Widths
  <1>1. /\ {partial_slabs', full_slabs'} \subseteq Seq(Pages)
        /\ IsInjective(partial_slabs') /\ IsInjective(full_slabs')
        /\ ToSet(partial_slabs') \cap ToSet(full_slabs') = {}
        /\ Slabs' = all
        /\ \A r \in ToSet(partial_slabs') : bitmap'[r] # Bits
    BY <1>t, AllocLists
  <1>2. /\ bitmap' = [bitmap EXCEPT ![p] = used \cup Run(f, n)]
        /\ held' = held \cup {new} /\ failed' = 0
    BY DEF alloc_block
  <1>3. Run(f, n) \subseteq Bits /\ MetaBlock \notin Run(f, n)
        /\ Run(f, n) \cap RunsOf(p) = {}
    <2>1. Run(f, n) \subseteq Bits
      BY <1>n, RunIn, Widths, SMTT(30)
    <2>2. MetaBlock \in used
      BY Meta
    <2> QED BY <2>1, <2>2
  <1>h. new.page = p /\ new.first = f /\ new.n = n
        /\ new \in [page : Pages, first : Bits, n : 1..MetaBlock]
    BY <1>n
  <1> HIDE DEF new, all
  <1>4. TypeOK'
    <2>1. bitmap' \in [Pages -> SUBSET Bits]
      BY <1>t, <1>2, <1>3
    <2>2. pool' \subseteq Pages
      BY <1>t
    <2>3. held' \subseteq [page : Pages, first : Bits, n : 1..MetaBlock]
      BY <1>t, <1>2, <1>h
    <2> QED BY <1>1, <1>2, <2>1, <2>2, <2>3 DEF TypeOK
  <1>5. ASSUME NEW r
        PROVE  RunsOf(r)' = IF r = p THEN RunsOf(p) \cup Run(f, n) ELSE RunsOf(r)
    <2>1. ASSUME NEW b
          PROVE  b \in RunsOf(r)' <=> \E h \in held' : h.page = r /\ b \in Run(h.first, h.n)
      BY DEF RunsOf
    <2>2. ASSUME NEW b
          PROVE  b \in RunsOf(r)' <=> b \in RunsOf(r) \/ (r = p /\ b \in Run(f, n))
      BY <1>2, <1>h, <2>1, RunsIn
    <2> QED BY <2>2
  <1>6. BlocksApart'
    <2>1. ASSUME NEW g \in held', NEW h \in held', g # h, g.page = h.page
          PROVE  Run(g.first, g.n) \cap Run(h.first, h.n) = {}
      <3>1. ASSUME NEW x \in held, x.page = p
            PROVE  Run(x.first, x.n) \cap Run(f, n) = {}
        BY <1>3, <3>1, RunsIn
      <3>2. CASE g \in held /\ h \in held
        BY <2>1, <3>2 DEF SlabInv, BlocksApart
      <3>3. CASE g = new /\ h \in held
        BY <1>h, <2>1, <3>1, <3>3
      <3>4. CASE h = new /\ g \in held
        BY <1>h, <2>1, <3>1, <3>4
      <3> QED BY <1>2, <2>1, <3>2, <3>3, <3>4
    <2>2. ASSUME NEW h \in held' PROVE MetaBlock \notin Run(h.first, h.n)
      BY <1>2, <1>3, <1>h DEF SlabInv, BlocksApart
    <2>3. ASSUME NEW r \in Slabs' PROVE bitmap'[r] = SLAB_INIT_BMP \cup RunsOf(r)'
      <3>0. r \in Slabs \cup {p} /\ r \in Pages
        BY <1>t, <1>1 DEF all
      <3>1. CASE r = p
        BY <1>t, <1>2, <1>5, <3>1
      <3>2. CASE r # p
        <4>1. bitmap[r] = SLAB_INIT_BMP \cup RunsOf(r)
          BY <3>0, <3>2 DEF SlabInv, BlocksApart
        <4> QED BY <1>t, <1>2, <1>5, <3>0, <3>2, <4>1
      <3> QED BY <3>1, <3>2
    <2>4. \A g, h \in held' :
            g # h /\ g.page = h.page => Run(g.first, g.n) \cap Run(h.first, h.n) = {}
      BY <2>1
    <2>5. \A h \in held' : MetaBlock \notin Run(h.first, h.n)
      BY <2>2
    <2>6. \A r \in Slabs' : bitmap'[r] = SLAB_INIT_BMP \cup RunsOf(r)'
      BY <2>3
    <2> QED BY <2>4, <2>5, <2>6 DEF BlocksApart
  <1>7. PageOnce'
    <2>1. Slabs' = Pages \ pool'
      BY <1>t, <1>1 DEF all
    <2> QED BY <1>1, <2>1 DEF PageOnce
  <1>8. SlabsInUse'
    <2>1. ASSUME NEW r \in Slabs' PROVE \E h \in held' : h.page = r
      <3>1. r \in Slabs \/ r = p
        BY <1>1 DEF all
      <3> QED BY <1>2, <1>h, <3>1 DEF SlabInv, SlabsInUse
    <2> QED BY <1>1, <2>1 DEF SlabsInUse
  <1>9. HeldInSlabs'
    BY <1>1, <1>2, <1>h DEF SlabInv, HeldInSlabs, all
  <1> QED BY <1>4, <1>6, <1>7, <1>8, <1>9 DEF SlabInv

LEMMA AllocPartialInv ==
  ASSUME SlabInv, NEW n \in Requests, AllocPartial(n)
  PROVE  SlabInv' /\ \A h \in held' \ held : h.page \notin pool
  <1> DEFINE p == Head(partial_slabs)
             f == FirstRun(bitmap[p], n)
  <1>t. /\ partial_slabs \in Seq(Pages) /\ full_slabs \in Seq(Pages)
        /\ bitmap \in [Pages -> SUBSET Bits]
        /\ IsInjective(partial_slabs)
        /\ ToSet(partial_slabs) \cap ToSet(full_slabs) = {} /\ Slabs = Pages \ pool
        /\ Slabs = ToSet(partial_slabs) \cup ToSet(full_slabs)
        /\ \A r \in ToSet(partial_slabs) : bitmap[r] # Bits
    BY DEF SlabInv, TypeOK, PageOnce, SlabsInUse, Slabs
  <1>n. n \in 1..MetaBlock /\ n \in Nat \ {0}
    BY Meta DEF AllocPartial
  <1>1. /\ partial_slabs # <<>> /\ Min(Fitting(n)) = 1 /\ Found(n, 1) = f /\ HeadFits(n)
    BY <1>n, OnlyHead DEF AllocPartial, SlabInv
  <1>2. p \in Pages /\ p \in ToSet(partial_slabs) /\ p = partial_slabs[1]
    <2>1. p \in Pages /\ ToSet(partial_slabs) = ToSet(Tail(partial_slabs)) \cup {p}
      BY <1>t, <1>1, DeleteHead
    <2> QED BY <1>t, <1>1, <2>1
  <1>3. alloc_block(partial_slabs, p, f, n, bitmap[p]) /\ pool' = pool
    BY <1>1, <1>2 DEF AllocPartial
  <1>4. bitmap[p] \in SUBSET Bits /\ bitmap[p] = SLAB_INIT_BMP \cup RunsOf(p)
    BY <1>t, <1>2 DEF SlabInv, BlocksApart
  <1>5. f \in Nat /\ f + n <= LongBits /\ Run(f, n) \cap bitmap[p] = {}
    BY <1>n, <1>1, <1>4, FirstRunFits DEF HeadFits
  <1>6. ToSet(partial_slabs) \cup ToSet(full_slabs) = Slabs \cup {p} /\ pool' = pool \ {p}
    BY <1>t, <1>2, <1>3
  <1>7. held' = held \cup {[page |-> p, first |-> f, n |-> n]}
    BY <1>3 DEF alloc_block
  <1> HIDE DEF p, f
  <1>8. SlabInv'
    BY <1>t, <1>n, <1>1, <1>2, <1>3, <1>4, <1>5, <1>6, AllocBlock DEF p
  <1>9. p \notin pool
    BY <1>t, <1>2
  <1> QED BY <1>7, <1>8, <1>9

LEMMA AllocSlabInv ==
  ASSUME SlabInv, NEW n \in Requests, AllocSlab(n)
  PROVE  SlabInv'
  <1>1. PICK p \in pool : /\ pool' = pool \ {p}
                          /\ alloc_block(<<p>> \o partial_slabs, p, 0, n, SLAB_INIT_BMP)
    BY DEF AllocSlab
  <1> DEFINE q == <<p>> \o partial_slabs
  <1>t. /\ partial_slabs \in Seq(Pages) /\ full_slabs \in Seq(Pages)
        /\ pool \subseteq Pages /\ IsInjective(partial_slabs)
        /\ ToSet(partial_slabs) \cap ToSet(full_slabs) = {} /\ Slabs = Pages \ pool
        /\ Slabs = ToSet(partial_slabs) \cup ToSet(full_slabs)
        /\ \A r \in ToSet(partial_slabs) : bitmap[r] # Bits
        /\ \A h \in held : h.page \in Slabs
    BY DEF SlabInv, TypeOK, PageOnce, SlabsInUse, Slabs, HeldInSlabs
  <1>n. n \in 1..MetaBlock /\ n \in Nat \ {0}
    BY Meta DEF AllocSlab
  <1>2. p \in Pages /\ p \notin Slabs
    BY <1>t, <1>1
  <1>3. /\ q \in Seq(Pages) /\ ToSet(q) = ToSet(partial_slabs) \cup {p} /\ IsInjective(q)
        /\ q # <<>> /\ Head(q) = p
    <2>1. /\ q \in Seq(Pages) /\ ToSet(q) = ToSet(partial_slabs) \cup {p} /\ IsInjective(q)
      BY <1>t, <1>2, AddHead
    <2>2. q # <<>> /\ Head(q) = p
      BY <1>t, <1>2
    <2> QED BY <2>1, <2>2
  <1>4. RunsOf(p) = {}
    BY <1>t, <1>2, RunsIn
  <1>5. 0 + n <= LongBits /\ Run(0, n) \cap SLAB_INIT_BMP = {} /\ SLAB_INIT_BMP \in SUBSET Bits
    <2>1. \A b : b \in Run(0, n) <=> b \in Nat /\ 0 <= b /\ b < 0 + n
      BY <1>n, RunIn
    <2> QED BY <1>n, <2>1, Meta
  <1> HIDE DEF q
  <1>6. SLAB_INIT_BMP = SLAB_INIT_BMP \cup RunsOf(p)
    BY <1>4
  <1>7. ToSet(q) \cup ToSet(full_slabs) = Slabs \cup {p}
        /\ ToSet(q) \cap ToSet(full_slabs) = {}
    BY <1>t, <1>2, <1>3
  <1>8. \A r \in ToSet(q) : r # p => bitmap[r] # Bits
    BY <1>t, <1>3
  <1>9. alloc_block(q, p, 0, n, SLAB_INIT_BMP) /\ pool' = pool \ {p}
    BY <1>1 DEF q
  <1> QED BY <1>n, <1>2, <1>3, <1>5, <1>6, <1>7, <1>8, <1>9, AllocBlock

(* Freed blocks leave the bitmap; a slab goes back to the pool exactly     *)
(* when the block was the last one held of it.                             *)
LEMMA FreeInv ==
  ASSUME SlabInv, NEW h \in held, slab_free(h)
  PROVE  SlabInv'
  <1> DEFINE p == h.page
             run == Run(h.first, h.n)
             empty == bitmap'[p] = SLAB_INIT_BMP
  <1>t. /\ partial_slabs \in Seq(Pages) /\ full_slabs \in Seq(Pages)
        /\ bitmap \in [Pages -> SUBSET Bits]
        /\ pool \subseteq Pages /\ held \subseteq [page : Pages, first : Bits, n : 1..MetaBlock]
        /\ IsInjective(partial_slabs) /\ IsInjective(full_slabs)
        /\ ToSet(partial_slabs) \cap ToSet(full_slabs) = {} /\ Slabs = Pages \ pool
        /\ Slabs = ToSet(partial_slabs) \cup ToSet(full_slabs)
        /\ \A r \in ToSet(partial_slabs) : bitmap[r] # Bits
    BY DEF SlabInv, TypeOK, PageOnce, SlabsInUse, Slabs
  <1>h. \A g \in held : /\ g.page \in Slabs /\ MetaBlock \notin Run(g.first, g.n)
                        /\ g.page \in Pages /\ g.first \in Nat /\ g.n \in Nat \ {0}
                        /\ g.first \in Run(g.first, g.n)
    <2>1. \A g \in held : g.page \in Slabs /\ MetaBlock \notin Run(g.first, g.n)
      BY DEF SlabInv, BlocksApart, HeldInSlabs
    <2>2. \A g \in held : g.page \in Pages /\ g.first \in Nat /\ g.n \in Nat \ {0}
      BY <1>t, Widths, Meta
    <2> QED BY <2>1, <2>2, RunIn
  <1>1. /\ bitmap' = [bitmap EXCEPT ![p] = bitmap[p] \ run] /\ held' = held \ {h} /\ failed' = 0
        /\ IF empty
           THEN /\ partial_slabs' = RemoveFirst(partial_slabs, p)
                /\ full_slabs' = RemoveFirst(full_slabs, p)
                /\ pool' = pool \cup {p}
           ELSE UNCHANGED <<partial_slabs, full_slabs, pool>>
    BY DEF slab_free
  <1>b. \A r \in Pages : bitmap'[r] = IF r = p THEN bitmap[p] \ run ELSE bitmap[r]
    BY <1>t, <1>1
  <1>2. ASSUME NEW r PROVE RunsOf(r)' = IF r = p THEN RunsOf(p) \ run ELSE RunsOf(r)
    <2>1. ASSUME NEW b
          PROVE  b \in RunsOf(r)' <=> \E g \in held' : g.page = r /\ b \in Run(g.first, g.n)
      BY DEF RunsOf
    <2>2. ASSUME NEW g \in held, g # h, g.page = p PROVE Run(g.first, g.n) \cap run = {}
      BY <2>2 DEF SlabInv, BlocksApart
    <2>3. ASSUME NEW b
          PROVE  b \in RunsOf(r)' <=> b \in RunsOf(r) /\ ~(r = p /\ b \in run)
      BY <1>1, <2>1, <2>2, RunsIn
    <2> QED BY <2>3
  <1>3. bitmap'[p] = SLAB_INIT_BMP \cup RunsOf(p)'
    <2>1. bitmap[p] = SLAB_INIT_BMP \cup RunsOf(p)
      BY <1>h DEF SlabInv, BlocksApart
    <2>2. SLAB_INIT_BMP \cap run = {}
      BY <1>h, Meta
    <2>3. p \in Pages
      BY <1>h
    <2> QED BY <1>b, <1>2, <2>1, <2>2, <2>3
  <1>4. empty <=> \A g \in held' : g.page # p
    <2>1. ASSUME NEW g \in held', g.page = p PROVE ~empty
      <3>1. g \in held
        BY <1>1
      <3>2. g.first \in RunsOf(p)'
        BY <1>h, <2>1, <3>1 DEF RunsOf
      <3>3. g.first # MetaBlock
        BY <1>h, <3>1
      <3> QED BY <1>3, <3>2, <3>3, Meta
    <2>2. ASSUME \A g \in held' : g.page # p PROVE empty
      <3>1. RunsOf(p)' = {}
        BY <2>2 DEF RunsOf
      <3> QED BY <1>3, <3>1
    <2> QED BY <2>1, <2>2
  <1>5. /\ {partial_slabs', full_slabs'} \subseteq Seq(Pages) /\ pool' \subseteq Pages
        /\ IsInjective(partial_slabs') /\ IsInjective(full_slabs')
        /\ ToSet(partial_slabs') \subseteq ToSet(partial_slabs)
        /\ ToSet(partial_slabs') \cap ToSet(full_slabs') = {}
        /\ Slabs' = Pages \ pool' /\ Slabs' = IF empty THEN Slabs \ {p} ELSE Slabs
    <2>s. Slabs' = ToSet(partial_slabs') \cup ToSet(full_slabs')
      BY DEF Slabs
    <2> HIDE DEF p
    <2>1. CASE empty
      <3>1. /\ partial_slabs' \in Seq(Pages)
            /\ ToSet(partial_slabs') = ToSet(partial_slabs) \ {p}
            /\ IsInjective(partial_slabs')
        BY <1>t, <1>1, <2>1, DeleteFirst
      <3>2. /\ full_slabs' \in Seq(Pages)
            /\ ToSet(full_slabs') = ToSet(full_slabs) \ {p}
            /\ IsInjective(full_slabs')
        BY <1>t, <1>1, <2>1, DeleteFirst
      <3>3. p \in Slabs /\ pool' = pool \cup {p}
        BY <1>1, <1>h, <2>1 DEF p
      <3> QED BY <1>t, <2>s, <2>1, <3>1, <3>2, <3>3
    <2>2. CASE ~empty
      BY <1>t, <1>1, <2>s, <2>2
    <2> QED BY <2>1, <2>2
  <1>6. TypeOK'
    <2>1. bitmap' \in [Pages -> SUBSET Bits]
      BY <1>t, <1>1
    <2> QED BY <1>t, <1>1, <1>5, <2>1 DEF TypeOK
  <1> HIDE DEF p, empty
  <1>7. BlocksApart'
    <2>1. \A g, k \in held' :
            g # k /\ g.page = k.page => Run(g.first, g.n) \cap Run(k.first, k.n) = {}
      BY <1>1 DEF SlabInv, BlocksApart
    <2>2. \A g \in held' : MetaBlock \notin Run(g.first, g.n)
      BY <1>1, <1>h
    <2>3. ASSUME NEW r \in Slabs' PROVE bitmap'[r] = SLAB_INIT_BMP \cup RunsOf(r)'
      <3>1. r \in Slabs /\ r \in Pages
        BY <1>t, <1>5
      <3>2. bitmap[r] = SLAB_INIT_BMP \cup RunsOf(r)
        BY <3>1 DEF SlabInv, BlocksApart
      <3> QED BY <1>b, <1>2, <1>3, <3>1, <3>2
    <2> QED BY <2>1, <2>2, <2>3 DEF BlocksApart
  <1>8. PageOnce'
    BY <1>5 DEF PageOnce
  <1>9. SlabsInUse'
    <2>1. ASSUME NEW r \in ToSet(partial_slabs') PROVE bitmap'[r] # Bits
      <3>1. r \in Pages /\ bitmap[r] # Bits /\ bitmap[r] \in SUBSET Bits
        BY <1>t, <1>5
      <3>2. CASE r = p
        BY <1>b, <3>1, <3>2
      <3>3. CASE r # p
        BY <1>b, <3>1, <3>3
      <3> QED BY <3>2, <3>3
    <2>2. ASSUME NEW r \in Slabs' PROVE \E g \in held' : g.page = r
      <3>1. r \in Slabs /\ (r = p => ~empty)
        BY <1>5
      <3>2. CASE r = p
        BY <1>4, <3>1, <3>2
      <3>3. CASE r # p
        <4>1. PICK g \in held : g.page = r
          BY <3>1 DEF SlabInv, SlabsInUse
        <4>2. g # h
          BY <3>3, <4>1 DEF p
        <4> QED BY <1>1, <4>1, <4>2
      <3> QED BY <3>2, <3>3
    <2> QED BY <2>1, <2>2 DEF SlabsInUse
  <1>10. HeldInSlabs'
    BY <1>1, <1>4, <1>5, <1>h DEF HeldInSlabs
  <1> QED BY <1>6, <1>7, <1>8, <1>9, <1>10 DEF SlabInv

LEMMA SlabInit == Init => SlabInv
  <1> SUFFICES ASSUME Init PROVE SlabInv
    OBVIOUS
  <1>1. partial_slabs = <<>> /\ full_slabs = <<>> /\ held = {} /\ pool = Pages /\ failed = 0
        /\ bitmap = [p \in Pages |-> {}]
    BY DEF Init
  <1>2. <<>> \in Seq(Pages) /\ ToSet(<<>>) = {} /\ IsInjective(<<>>)
    BY DEF ToSet, IsInjective
  <1>3. Slabs = {}
    BY <1>1, <1>2 DEF Slabs
  <1>4. TypeOK
    BY <1>1, <1>2 DEF TypeOK
  <1>5. BlocksApart /\ SlabsInUse /\ HeldInSlabs
    BY <1>1, <1>2, <1>3 DEF BlocksApart, SlabsInUse, HeldInSlabs
  <1>6. PageOnce
    BY <1>1, <1>2, <1>3 DEF PageOnce
  <1> QED BY <1>4, <1>5, <1>6 DEF SlabInv

LEMMA SlabNext ==
  ASSUME SlabInv, [Next]_vars
  PROVE  SlabInv'
  <1>1. ASSUME NEW n \in Requests, AllocNull(n) PROVE SlabInv'
    <2>1. /\ UNCHANGED <<partial_slabs, full_slabs, bitmap, pool, held>>
          /\ failed' \in Requests
      BY <1>1 DEF AllocNull
    <2>2. TypeOK'
      BY <2>1 DEF SlabInv, TypeOK
    <2>3. Slabs' = Slabs /\ \A p : RunsOf(p)' = RunsOf(p)
      BY <2>1 DEF Slabs, RunsOf
    <2>4. BlocksApart' /\ PageOnce' /\ SlabsInUse' /\ HeldInSlabs'
      BY <2>1, <2>3 DEF SlabInv, BlocksApart, PageOnce, SlabsInUse, HeldInSlabs
    <2> QED BY <2>2, <2>4 DEF SlabInv
  <1>2. CASE UNCHANGED vars
    <2>1. UNCHANGED <<partial_slabs, full_slabs, bitmap, pool, held, failed>>
      BY <1>2 DEF vars
    <2>2. TypeOK'
      BY <2>1 DEF SlabInv, TypeOK
    <2>3. Slabs' = Slabs /\ \A p : RunsOf(p)' = RunsOf(p)
      BY <2>1 DEF Slabs, RunsOf
    <2>4. BlocksApart' /\ PageOnce' /\ SlabsInUse' /\ HeldInSlabs'
      BY <2>1, <2>3 DEF SlabInv, BlocksApart, PageOnce, SlabsInUse, HeldInSlabs
    <2> QED BY <2>2, <2>4 DEF SlabInv
  <1> QED BY <1>1, <1>2, AllocPartialInv, AllocSlabInv, FreeInv DEF Next

(* The lists hold pages, a bitmap has bits of the long word only, and what *)
(* callers hold has between 1 and 31 blocks.                               *)
THEOREM SlabTypes == Spec => []TypeOK
  <1>1. SlabInv => TypeOK
    BY DEF SlabInv
  <1> QED BY <1>1, SlabInit, SlabNext, PTL DEF Spec

(* For any number of pages and callers, slab_alloc never hands out a block *)
(* that is held or the one with the metadata, and the bitmaps are exactly  *)
(* what is held.                                                           *)
THEOREM BlocksKeptApart == Spec => []BlocksApart
  <1>1. SlabInv => BlocksApart
    BY DEF SlabInv
  <1> QED BY <1>1, SlabInit, SlabNext, PTL DEF Spec

(* Every page stays with the pool or on one list, once: the node that      *)
(* slab_free hands to list_node_delete is always linked.                   *)
THEOREM PagesKept == Spec => []PageOnce
  <1>1. SlabInv => PageOnce
    BY DEF SlabInv
  <1> QED BY <1>1, SlabInit, SlabNext, PTL DEF Spec

(* No slab on the partial list is full, although .alloc_block moves the    *)
(* head of the list without a look at which slab it has filled; and none   *)
(* without a user is kept.                                                 *)
THEOREM SlabsNotIdle == Spec => []SlabsInUse
  <1>1. SlabInv => SlabsInUse
    BY DEF SlabInv
  <1> QED BY <1>1, SlabInit, SlabNext, PTL DEF Spec

(* The bitmap routines do what bitmap.h says for every long word of any    *)
(* width, runs at its ends included.                                       *)
THEOREM BitmapsRight == Spec => []BitmapsAgree
  <1>1. BitmapsAgree
    BY SearchesAgree, ChangesHold DEF BitmapsAgree
  <1> QED BY <1>1, PTL

(* A new slab is taken only when the head of the list has no room, and     *)
(* NULL returned only when there is no page either.                        *)
THEOREM HeadAlwaysTried == Spec => HeadTried
  <1>1. ASSUME SlabInv, [Next]_vars
        PROVE  [/\ \A h \in held' \ held : h.page \in pool => ~HeadFits(h.n)
                /\ failed' \in 1..MetaBlock => pool = {} /\ ~HeadFits(failed')]_vars
    <2> SUFFICES ASSUME Next
                 PROVE  /\ \A h \in held' \ held : h.page \in pool => ~HeadFits(h.n)
                        /\ failed' \in 1..MetaBlock => pool = {} /\ ~HeadFits(failed')
      BY <1>1
    <2>0. TypeOK /\ ~(0 \in 1..MetaBlock) /\ \A n \in 1..MetaBlock : n \in Nat \ {0}
      BY <1>1, Meta DEF SlabInv
    <2>1. ASSUME NEW n \in Requests, AllocPartial(n)
          PROVE  failed' = 0 /\ \A h \in held' \ held : h.page \notin pool
      BY <1>1, <2>1, AllocPartialInv DEF AllocPartial, alloc_block
    <2>2. ASSUME NEW n \in Requests, AllocSlab(n)
          PROVE  failed' = 0 /\ \A h \in held' \ held : ~HeadFits(h.n)
      <3>1. Fitting(n) = {} /\ n \in 1..MetaBlock
        BY <2>2 DEF AllocSlab
      <3>2. ~HeadFits(n)
        BY <2>0, <3>1, OnlyHead
      <3>3. failed' = 0 /\ \A h \in held' \ held : h.n = n
        BY <2>2 DEF AllocSlab, alloc_block
      <3> QED BY <3>2, <3>3
    <2>3. ASSUME NEW n \in Requests, AllocNull(n)
          PROVE  /\ held' = held
                 /\ failed' \in 1..MetaBlock => pool = {} /\ ~HeadFits(failed')
      <3>1. held' = held /\ failed' = n /\ (n \in 1..MetaBlock => Fitting(n) = {} /\ pool = {})
        BY <2>3 DEF AllocNull
      <3> QED BY <2>0, <3>1, OnlyHead
    <2>4. ASSUME NEW h \in held, slab_free(h)
          PROVE  failed' = 0 /\ held' \subseteq held
      BY <2>4 DEF slab_free
    <2> QED BY <2>0, <2>1, <2>2, <2>3, <2>4 DEF Next
  <1> QED BY <1>1, SlabInit, SlabNext, PTL DEF Spec, HeadTried
=============================================================================
