------------------------------ MODULE PmmProofs ------------------------------
(***************************************************************************)
(* The physical memory manager (kernel/pmm.c), for any layout of RAM and   *)
(* any sequence of calls: free blocks and callers always tile RAM, and the *)
(* manager implements the pool of bytes that pmm.h promises (PmmAbs).      *)
(*                                                                         *)
(* The argument: a state is a tiling of RAM with pieces, each a free block *)
(* or what a caller owns, and every pass replaces some pieces by others    *)
(* that cover the same bytes.                                              *)
(***************************************************************************)
EXTENDS Integers, Pmm, ListLemmas, FiniteSetTheorems

(* The requests the theorems are about: pmm_alloc does not refuse zero     *)
(* bytes, nor a size that rounding up takes past 32 bits to zero.          *)
Sensible == \A n \in Requests : RoundUp(n) # 0

Aligned(n) == n % Unit = 0

FreeAddrs == ToSet(addr_list) \cup (IF freeing = NoFrame THEN {} ELSE {freeing.addr})
FreePiece(a) == [addr |-> a, size |-> node[a], req |-> 0]
HeldPiece(b) == [addr |-> b.addr, size |-> RoundUp(b.size), req |-> b.size]
Pieces == {FreePiece(a) : a \in FreeAddrs} \cup {HeldPiece(b) : b \in held}

Whole(p) ==
  /\ p.addr \in Nat /\ Aligned(p.addr)
  /\ p.size \in Nat \ {0} /\ Aligned(p.size)
  /\ Bytes(p) \subseteq RAM
Tiling(P) ==
  /\ \A p \in P : Whole(p)
  /\ \A p, q \in P : p # q => Bytes(p) \cap Bytes(q) = {}
  /\ \A x \in RAM : \E p \in P : x \in Bytes(p)

(* No two listed blocks are neighbours, not even while one is freed. *)
Apart == \A a \in ToSet(addr_list) : a + node[a] \notin ToSet(addr_list)

(* The local variable size is stale only after the block above was merged: *)
(* by then there is no neighbour left, below or above.                     *)
Frame ==
  freeing # NoFrame =>
    /\ freeing.size \in 1..node[freeing.addr]
    /\ freeing.size # node[freeing.addr] =>
         /\ \A a \in ToSet(addr_list) : a + node[a] # freeing.addr
         /\ freeing.addr + node[freeing.addr] \notin ToSet(addr_list)

(* What callers hold was rounded up without wrapping. *)
HeldSizes == \A b \in held : RoundUp(b.size) # 0

PmmInv == ListsAgree /\ Tiling(Pieces) /\ Apart /\ Frame /\ HeldSizes

-----------------------------------------------------------------------------
(* Rounding. *)
LEMMA Constants ==
  /\ Unit \in Nat \ {0} /\ MaxUint \in Nat /\ Aligned(MaxUint + 1)
  /\ Requests \subseteq 0..MaxUint
  BY UnitAssumption, RequestsAssumption DEF Aligned

LEMMA Multiple ==
  ASSUME NEW a \in Int, NEW k \in Nat, a >= 1
  PROVE  k * a >= k
  OBVIOUS

LEMMA DivIs ==
  ASSUME NEW x \in Nat, NEW k \in Nat \ {0}, NEW a \in Int, NEW b \in 0..(k - 1),
         x = k * a + b
  PROVE  x \div k = a /\ x % k = b
  <1> DEFINE q == x \div k
             r == x % k
  <1>1. x = k * q + r /\ r \in 0..(k - 1) /\ q \in Int
    OBVIOUS
  <1> HIDE DEF q, r
  <1>2. k * (q - a) = b - r
    BY <1>1
  <1>3. ~(q - a >= 1)
    <2>1. q - a >= 1 => k * (q - a) >= k
      BY <1>1, Multiple
    <2> QED BY <1>1, <1>2, <2>1
  <1>4. ~(a - q >= 1)
    <2>1. a - q >= 1 => k * (a - q) >= k
      BY <1>1, Multiple
    <2>2. k * (a - q) = r - b
      BY <1>1
    <2> QED BY <1>1, <2>1, <2>2
  <1>5. q = a
    BY <1>1, <1>3, <1>4
  <1>6. r = b
    BY <1>1, <1>5
  <1> QED BY <1>5, <1>6 DEF q, r

LEMMA AlignedIs ==
  ASSUME NEW x \in Nat
  PROVE  Aligned(x) <=> \E q \in Nat : x = Unit * q
  <1>0. Unit \in Nat \ {0}
    BY Constants
  <1>1. ASSUME Aligned(x) PROVE \E q \in Nat : x = Unit * q
    <2> DEFINE q == x \div Unit
    <2>1. x = Unit * q + (x % Unit) /\ q \in Nat
      BY <1>0
    <2>2. x % Unit = 0
      BY <1>1 DEF Aligned
    <2> HIDE DEF q
    <2>3. x = Unit * q
      BY <1>0, <2>1, <2>2
    <2> QED BY <2>1, <2>3
  <1>2. ASSUME NEW q \in Nat, x = Unit * q PROVE Aligned(x)
    <2>1. 0 \in 0..(Unit - 1) /\ x = Unit * q + 0 /\ q \in Int
      BY <1>0, <1>2
    <2> QED BY <1>0, <2>1, DivIs DEF Aligned
  <1> QED BY <1>1, <1>2

LEMMA AlignedSum ==
  ASSUME NEW x \in Nat, NEW y \in Nat, Aligned(x), Aligned(y)
  PROVE  Aligned(x + y) /\ (x >= y => Aligned(x - y))
  <1>0. Unit \in Nat \ {0}
    BY Constants
  <1>1. PICK p \in Nat : x = Unit * p
    BY AlignedIs
  <1>2. PICK q \in Nat : y = Unit * q
    BY AlignedIs
  <1>3. x + y = Unit * (p + q) /\ p + q \in Nat /\ x + y \in Nat
    BY <1>0, <1>1, <1>2
  <1>4. ASSUME x >= y PROVE Aligned(x - y)
    <2>1. x - y = Unit * (p - q) /\ x - y \in Nat
      BY <1>0, <1>1, <1>2, <1>4
    <2>2. ~(q - p >= 1)
      <3>1. q - p >= 1 => Unit * (q - p) >= Unit
        BY <1>0, Multiple
      <3>2. Unit * (q - p) = y - x
        BY <1>0, <1>1, <1>2
      <3> QED BY <1>0, <1>4, <3>1, <3>2
    <2>3. p - q \in Nat
      BY <2>2
    <2> QED BY <2>1, <2>3, AlignedIs
  <1> QED BY <1>3, <1>4, AlignedIs

(* The three ways to round: in 32-bit arithmetic, in what a caller owns,   *)
(* and in the promise of PmmAbs.                                           *)
LEMMA Rounding ==
  ASSUME NEW n \in 0..MaxUint, RoundUp(n) # 0
  PROVE  /\ RoundUp(n) \in Nat \ {0} /\ RoundUp(n) <= MaxUint /\ Aligned(RoundUp(n))
         /\ Unit * ((n + Unit - 1) \div Unit) = RoundUp(n)
         /\ Abs!Units(n) = RoundUp(n)
  <1>0. Unit \in Nat \ {0} /\ MaxUint \in Nat /\ n \in Nat /\ n <= MaxUint
    BY Constants
  <1> DEFINE q == n \div Unit
             r == n % Unit
             up == (n + Unit - 1) \div Unit
  <1>1. n = Unit * q + r /\ r \in 0..(Unit - 1) /\ q \in Int
    BY <1>0
  <1>2. q \in Nat
    BY <1>0
  <1>d. /\ RoundUp(n) = IF r = 0 THEN n ELSE ((n - r) + Unit) % (MaxUint + 1)
        /\ Abs!Units(n) = IF r = 0 THEN n ELSE (q + 1) * Unit
        /\ Aligned(n) <=> r = 0
    BY DEF RoundUp, Abs!Units, Aligned
  <1>u. ASSUME NEW a \in Int, NEW b \in 0..(Unit - 1), n + Unit - 1 = Unit * a + b
        PROVE  up = a
    <2>1. n + Unit - 1 \in Nat
      BY <1>0
    <2> QED BY <1>0, <1>u, <2>1, DivIs
  <1> HIDE DEF q, r, up
  <1>3. CASE r = 0
    <2>1. RoundUp(n) = n /\ Abs!Units(n) = n /\ Aligned(n)
      BY <1>d, <1>3
    <2>2. n + Unit - 1 = Unit * q + (Unit - 1) /\ Unit - 1 \in 0..(Unit - 1)
      BY <1>0, <1>1, <1>3
    <2>3. up = q
      BY <1>1, <1>u, <2>2
    <2>4. Unit * up = n
      BY <1>0, <1>1, <1>3, <2>3
    <2> QED BY <1>0, <2>1, <2>4 DEF up
  <1>4. CASE r # 0
    <2> DEFINE t == Unit * (q + 1)
    <2>1. t \in Nat /\ (n - r) + Unit = t /\ t > n
      BY <1>0, <1>1, <1>2
    <2>2. PICK m \in Nat : MaxUint + 1 = Unit * m
      <3>1. MaxUint + 1 \in Nat
        BY <1>0
      <3> QED BY <3>1, Constants, AlignedIs
    <2>3. ~(q - m >= 0)
      <3>1. q - m >= 0 => Unit * (q - m) >= 0
        BY <1>0, <1>2, <2>2
      <3>2. Unit * (q - m) = (n - r) - (MaxUint + 1)
        BY <1>0, <1>1, <1>2, <2>2
      <3> QED BY <1>0, <1>1, <3>1, <3>2
    <2>4. t <= MaxUint + 1
      <3>1. m - (q + 1) >= 0
        BY <1>2, <2>3
      <3>2. m - (q + 1) >= 0 => Unit * (m - (q + 1)) >= 0
        BY <1>0, <1>2
      <3>3. Unit * (m - (q + 1)) = (MaxUint + 1) - t
        BY <1>0, <1>2, <2>2
      <3> QED BY <1>0, <2>1, <3>1, <3>2, <3>3
    <2>5. RoundUp(n) = t % (MaxUint + 1) /\ Abs!Units(n) = t
      <3>1. (q + 1) * Unit = t
        BY <1>0, <1>2
      <3> QED BY <1>d, <1>4, <2>1, <3>1
    <2>6. Aligned(t)
      BY <1>2, <2>1, AlignedIs
    <2>7. up = q + 1
      <3>1. n + Unit - 1 = Unit * (q + 1) + (r - 1) /\ r - 1 \in 0..(Unit - 1)
        BY <1>0, <1>1, <1>2, <1>4
      <3> QED BY <1>2, <1>u, <3>1
    <2>8. Unit * up = t
      BY <2>7
    <2> HIDE DEF t
    <2>9. t # MaxUint + 1
      <3> SUFFICES ASSUME t = MaxUint + 1 PROVE FALSE
        OBVIOUS
      <3>1. t \in Nat \ {0} /\ 1 \in Int /\ 0 \in 0..(t - 1) /\ t = t * 1 + 0
        BY <1>0, <2>1
      <3>2. t % t = 0
        BY <3>1, DivIs
      <3> QED BY <2>5, <3>2
    <2>10. RoundUp(n) = t
      <3>1. t \in 0..MaxUint
        BY <1>0, <2>1, <2>4, <2>9
      <3> QED BY <1>0, <2>5, <3>1
    <2> QED BY <1>0, <2>1, <2>4, <2>5, <2>6, <2>8, <2>9, <2>10 DEF up
  <1> QED BY <1>3, <1>4

(* A size that is already a multiple is left alone. *)
LEMMA RoundedAlready ==
  ASSUME NEW n, Aligned(n)
  PROVE  RoundUp(n) = n
  BY DEF Aligned, RoundUp

-----------------------------------------------------------------------------
(* Pieces and tilings. *)
LEMMA RamBounds ==
  \A x \in RAM : x \in Nat /\ x >= 1 /\ x < MaxUint
  <1>1. ASSUME NEW r \in Regions, NEW x \in Bytes(r)
        PROVE  x \in Nat /\ x >= 1 /\ x < MaxUint
    <2>1. r.addr \in Nat \ {0} /\ r.size \in Nat \ {0} /\ r.addr + r.size <= MaxUint
      BY RegionsAssumption
    <2> QED BY <2>1, Constants DEF Bytes
  <1> QED BY <1>1 DEF RAM

LEMMA ByteIn ==
  ASSUME NEW p, p.addr \in Nat, p.size \in Nat
  PROVE  \A x : x \in Bytes(p) <=> x \in Nat /\ p.addr <= x /\ x < p.addr + p.size
  BY DEF Bytes

LEMMA WholeBounds ==
  ASSUME NEW p, Whole(p)
  PROVE  /\ p.addr \in Nat /\ p.size \in Nat \ {0}
         /\ p.addr \in Bytes(p) /\ p.addr \in Boundaries
         /\ p.addr + p.size <= MaxUint /\ p.size <= MaxUint
  <1>1. p.addr \in Nat /\ p.size \in Nat \ {0} /\ Bytes(p) \subseteq RAM /\ Aligned(p.addr)
    BY DEF Whole
  <1>2. p.addr \in Bytes(p) /\ p.addr + p.size - 1 \in Bytes(p)
    BY <1>1, ByteIn
  <1>3. p.addr + p.size - 1 < MaxUint
    BY <1>1, <1>2, RamBounds
  <1> QED BY <1>1, <1>2, <1>3, Constants DEF Boundaries, Aligned

(* Two pieces of a tiling: one is below the other. *)
LEMMA BelowOrAbove ==
  ASSUME NEW P, Tiling(P), NEW p \in P, NEW q \in P, p # q
  PROVE  /\ p.addr + p.size <= q.addr \/ q.addr + q.size <= p.addr
         /\ p.addr # q.addr
  <1>1. Whole(p) /\ Whole(q) /\ Bytes(p) \cap Bytes(q) = {}
    BY DEF Tiling
  <1>2. /\ p.addr \in Nat /\ p.size \in Nat \ {0} /\ p.addr \in Bytes(p)
        /\ q.addr \in Nat /\ q.size \in Nat \ {0} /\ q.addr \in Bytes(q)
    BY <1>1, WholeBounds
  <1>3. q.addr \notin Bytes(p) /\ p.addr \notin Bytes(q)
    BY <1>1, <1>2
  <1>4. /\ ~(p.addr <= q.addr /\ q.addr < p.addr + p.size)
        /\ ~(q.addr <= p.addr /\ p.addr < q.addr + q.size)
    BY <1>2, <1>3, ByteIn
  <1> QED BY <1>2, <1>4

(* Some pieces replaced by others that cover the same bytes. *)
Covers(In, Out) ==
  /\ \A p \in In : Whole(p)
  /\ \A p, q \in In : p # q => Bytes(p) \cap Bytes(q) = {}
  /\ \A x : (\E p \in In : x \in Bytes(p)) <=> (\E p \in Out : x \in Bytes(p))

LEMMA Retile ==
  ASSUME NEW P, Tiling(P), NEW Out \in SUBSET P, NEW In, Covers(In, Out)
  PROVE  Tiling((P \ Out) \cup In)
  <1>0. /\ \A p \in In : Whole(p)
        /\ \A p, q \in In : p # q => Bytes(p) \cap Bytes(q) = {}
        /\ \A x : (\E p \in In : x \in Bytes(p)) <=> (\E p \in Out : x \in Bytes(p))
    BY DEF Covers
  <1>1. \A p \in (P \ Out) \cup In : Whole(p)
    BY <1>0 DEF Tiling
  <1>2. ASSUME NEW p \in P \ Out, NEW q \in In PROVE Bytes(p) \cap Bytes(q) = {}
    <2> SUFFICES ASSUME NEW x, x \in Bytes(p), x \in Bytes(q) PROVE FALSE
      OBVIOUS
    <2>1. PICK r \in Out : x \in Bytes(r)
      BY <1>0
    <2> QED BY <2>1 DEF Tiling
  <1>3. ASSUME NEW p \in (P \ Out) \cup In, NEW q \in (P \ Out) \cup In, p # q
        PROVE  Bytes(p) \cap Bytes(q) = {}
    <2>1. CASE p \in P \ Out /\ q \in P \ Out
      BY <1>3, <2>1 DEF Tiling
    <2>2. CASE p \in In /\ q \in In
      BY <1>0, <1>3, <2>2
    <2> QED BY <1>2, <1>3, <2>1, <2>2
  <1>4. ASSUME NEW x \in RAM PROVE \E p \in (P \ Out) \cup In : x \in Bytes(p)
    <2>1. PICK p \in P : x \in Bytes(p)
      BY DEF Tiling
    <2> QED BY <1>0, <2>1
  <1> QED BY <1>1, <1>3, <1>4 DEF Tiling

(* What an action does to the pieces: F and H go, G and K come. *)
Change(F, G, H, K) ==
  /\ F \subseteq FreeAddrs /\ H \subseteq held
  /\ FreeAddrs' = (FreeAddrs \ F) \cup G
  /\ held' = (held \ H) \cup K
  /\ \A a \in FreeAddrs \ F : node'[a] = node[a]
Gone(F, H) == {FreePiece(a) : a \in F} \cup {HeldPiece(b) : b \in H}
Come(size, G, K) == {[addr |-> a, size |-> size[a], req |-> 0] : a \in G}
                    \cup {HeldPiece(b) : b \in K}

LEMMA PiecesChange ==
  ASSUME NEW F, NEW G, NEW H, NEW K, TypeOK, HeldSizes, Change(F, G, H, K)
  PROVE  /\ Gone(F, H) \subseteq Pieces
         /\ Pieces' = (Pieces \ Gone(F, H)) \cup Come(node', G, K)
  <1> DEFINE Out == {FreePiece(a) : a \in F} \cup {HeldPiece(b) : b \in H}
             In == {[addr |-> a, size |-> node'[a], req |-> 0] : a \in G}
                   \cup {HeldPiece(b) : b \in K}
             New(a) == [addr |-> a, size |-> node'[a], req |-> 0]
  <1>c. /\ F \subseteq FreeAddrs /\ H \subseteq held
        /\ FreeAddrs' = (FreeAddrs \ F) \cup G
        /\ held' = (held \ H) \cup K
        /\ \A a \in FreeAddrs \ F : node'[a] = node[a]
    BY DEF Change
  <1>0. Pieces' = {New(a) : a \in FreeAddrs'} \cup {HeldPiece(b) : b \in held'}
    BY DEF Pieces, FreePiece, HeldPiece
  <1>1. ASSUME NEW b \in held PROVE b.size # 0 /\ b = [addr |-> b.addr, size |-> b.size]
    <2>1. b.size # 0
      <3>1. RoundUp(0) = 0
        BY Constants DEF RoundUp
      <3> QED BY <3>1 DEF HeldSizes
    <2>2. b = [addr |-> b.addr, size |-> b.size]
      BY DEF TypeOK
    <2> QED BY <2>1, <2>2
  <1>2. ASSUME NEW b \in held, NEW c \in held, HeldPiece(b) = HeldPiece(c) PROVE b = c
    <2>1. b.addr = c.addr /\ b.size = c.size
      BY <1>2 DEF HeldPiece
    <2> QED BY <1>1, <2>1
  <1>3. ASSUME NEW b \in held, NEW a PROVE HeldPiece(b) # FreePiece(a)
    BY <1>1 DEF HeldPiece, FreePiece
  <1>4. ASSUME NEW a, NEW c, FreePiece(a) = FreePiece(c) PROVE a = c
    BY <1>4 DEF FreePiece
  <1>5. ASSUME NEW a \in FreeAddrs \ F PROVE New(a) = FreePiece(a)
    BY <1>c DEF FreePiece
  <1> HIDE DEF New
  <1>6. Pieces \ Out = {FreePiece(a) : a \in FreeAddrs \ F} \cup {HeldPiece(b) : b \in held \ H}
    BY <1>c, <1>2, <1>3, <1>4 DEF Pieces
  <1>7. In = {New(a) : a \in G} \cup {HeldPiece(b) : b \in K}
    BY DEF New
  <1>8. {New(a) : a \in FreeAddrs'} = {FreePiece(a) : a \in FreeAddrs \ F} \cup {New(a) : a \in G}
    BY <1>c, <1>5
  <1>9. {HeldPiece(b) : b \in held'} = {HeldPiece(b) : b \in held \ H} \cup {HeldPiece(b) : b \in K}
    BY <1>c
  <1>s. Out \subseteq Pieces
    BY <1>c DEF Pieces
  <1> HIDE DEF In, Out
  <1>10. Pieces' = (Pieces \ Out) \cup In
    BY <1>0, <1>6, <1>7, <1>8, <1>9
  <1> QED BY <1>s, <1>10 DEF In, Out, Gone, Come

-----------------------------------------------------------------------------
(* Searches along the lists. *)
LEMMA FoundIs ==
  ASSUME addr_list \in Seq(Boundaries)
  PROVE  /\ Found = 0 => \A i \in 1..Len(addr_list) : ~Stop(addr_list[i])
         /\ Found # 0 => /\ Found \in 1..Len(addr_list) /\ Stop(addr_list[Found])
                         /\ \A i \in 1..Len(addr_list) : i < Found => ~Stop(addr_list[i])
  <1> DEFINE hits == {i \in DOMAIN addr_list : Stop(addr_list[i])}
  <1>1. Found = IF hits = {} THEN 0 ELSE Min(hits)
    BY DEF Found, FirstIndex
  <1>2. DOMAIN addr_list = 1..Len(addr_list) /\ hits \in SUBSET Nat
    OBVIOUS
  <1>3. hits # {} => Min(hits) \in hits /\ \A i \in hits : Min(hits) <= i
    <2> HIDE DEF hits
    <2> QED BY <1>2, MinIsLeast
  <1>4. CASE hits = {}
    BY <1>1, <1>2, <1>4
  <1>5. CASE hits # {}
    <2>1. Found \in hits /\ \A i \in hits : Found <= i
      <3> HIDE DEF hits
      <3> QED BY <1>1, <1>3, <1>5
    <2>2. Found \in 1..Len(addr_list) /\ Stop(addr_list[Found])
      BY <1>2, <2>1
    <2>3. ASSUME NEW i \in 1..Len(addr_list), i < Found PROVE i \notin hits
      BY <2>1, <2>2, <2>3
    <2> QED BY <1>2, <2>2, <2>3
  <1> QED BY <1>4, <1>5

LEMMA FitIs ==
  ASSUME size_list \in Seq(Boundaries), NEW n
  PROVE  /\ Fit(n) = 0 => \A i \in 1..Len(size_list) : ~(node[size_list[i]] >= RoundUp(n))
         /\ Fit(n) # 0 => Fit(n) \in 1..Len(size_list) /\ node[size_list[Fit(n)]] >= RoundUp(n)
  <1> DEFINE hits == {i \in DOMAIN size_list : node[size_list[i]] >= RoundUp(n)}
  <1>1. Fit(n) = IF hits = {} THEN 0 ELSE Min(hits)
    BY DEF Fit, FirstIndex
  <1>2. DOMAIN size_list = 1..Len(size_list) /\ hits \in SUBSET Nat
    OBVIOUS
  <1>3. hits # {} => Min(hits) \in hits
    <2> HIDE DEF hits
    <2> QED BY <1>2, MinIsLeast
  <1>4. CASE hits = {}
    BY <1>1, <1>2, <1>4
  <1>5. CASE hits # {}
    <2>1. Fit(n) \in hits
      <3> HIDE DEF hits
      <3> QED BY <1>1, <1>3, <1>5
    <2> QED BY <1>2, <2>1
  <1> QED BY <1>4, <1>5

(* The block is put into the size list before a block of some index, or at *)
(* the end.                                                                *)
LEMMA SizePlace ==
  ASSUME size_list \in Seq(Boundaries)
  PROVE  LET Bigger(c) == node[c] > freeing.size
             k == FirstIndex(size_list, Bigger)
         IN  k = 0 \/ k \in 1..Len(size_list)
  <1> DEFINE hits == {i \in DOMAIN size_list : node[size_list[i]] > freeing.size}
             Larger(c) == node[c] > freeing.size
  <1>1. FirstIndex(size_list, Larger) = IF hits = {} THEN 0 ELSE Min(hits)
    BY DEF FirstIndex
  <1>2. DOMAIN size_list = 1..Len(size_list) /\ hits \in SUBSET Nat
    OBVIOUS
  <1>3. hits # {} => Min(hits) \in hits
    <2> HIDE DEF hits
    <2> QED BY <1>2, MinIsLeast
  <1>4. FirstIndex(size_list, Larger) = 0 \/ FirstIndex(size_list, Larger) \in 1..Len(size_list)
    BY <1>1, <1>2, <1>3
  <1> QED BY <1>4

Ascending(s) == \A i, j \in 1..Len(s) : i < j => s[i] < s[j]

LEMMA AscendingOnce ==
  ASSUME NEW s \in Seq(Boundaries), Ascending(s)
  PROVE  /\ IsInjective(s)
         /\ \A i, j \in 1..Len(s) : s[i] < s[j] => i < j
  <1>0. Boundaries \subseteq Nat
    BY RamBounds DEF Boundaries
  <1>1. \A i \in 1..Len(s) : s[i] \in Nat
    <2>1. \A i \in 1..Len(s) : s[i] \in Boundaries
      OBVIOUS
    <2> QED BY <1>0, <2>1
  <1>2. ASSUME NEW i \in 1..Len(s), NEW j \in 1..Len(s), s[i] <= s[j] PROVE i <= j
    <2> SUFFICES ASSUME j < i PROVE FALSE
      OBVIOUS
    <2>1. s[j] < s[i]
      BY DEF Ascending
    <2> QED BY <1>1, <1>2, <2>1
  <1>3. ASSUME NEW i \in 1..Len(s), NEW j \in 1..Len(s), s[i] = s[j] PROVE i = j
    <2>1. i <= j /\ j <= i
      BY <1>1, <1>2, <1>3
    <2> QED BY <2>1
  <1>4. IsInjective(s)
    BY <1>3, Positions
  <1>5. ASSUME NEW i \in 1..Len(s), NEW j \in 1..Len(s), s[i] < s[j] PROVE i < j
    <2>1. i <= j /\ i # j
      BY <1>1, <1>2, <1>5
    <2> QED BY <2>1
  <1> QED BY <1>4, <1>5

LEMMA DeleteAscending ==
  ASSUME NEW s \in Seq(Boundaries), Ascending(s), NEW c
  PROVE  Ascending(RemoveFirst(s, c))
  <1>1. CASE RemoveFirst(s, c) = s
    BY <1>1
  <1>2. ASSUME NEW k \in 1..Len(s), RemoveFirst(s, c) = RemoveAt(s, k)
        PROVE  Ascending(RemoveFirst(s, c))
    <2> DEFINE r == RemoveAt(s, k)
               old(i) == IF i < k THEN i ELSE i + 1
    <2> HIDE DEF r
    <2>1. /\ r \in Seq(Boundaries) /\ Len(r) = Len(s) - 1
          /\ \A i \in 1..(k - 1) : i \in 1..Len(r) /\ r[i] = s[i]
          /\ \A i \in k..Len(r) : i + 1 \in 1..Len(s) /\ r[i] = s[i + 1]
      BY DeletePositions DEF r
    <2>n. Len(s) \in Nat /\ k \in Nat /\ k >= 1 /\ k <= Len(s)
      OBVIOUS
    <2>2. ASSUME NEW i \in 1..Len(r) PROVE old(i) \in 1..Len(s) /\ r[i] = s[old(i)]
      <3>1. CASE i < k
        <4>1. i \in 1..(k - 1) /\ old(i) = i /\ i \in 1..Len(s)
          BY <2>n, <2>1, <3>1
        <4> QED BY <2>1, <4>1
      <3>2. CASE i >= k
        <4>1. i \in k..Len(r) /\ old(i) = i + 1
          BY <2>n, <2>1, <3>2
        <4> QED BY <2>1, <4>1
      <3> QED BY <2>n, <3>1, <3>2
    <2>3. ASSUME NEW i \in 1..Len(r), NEW j \in 1..Len(r), i < j PROVE old(i) < old(j)
      BY <2>n, <2>1, <2>3
    <2> HIDE DEF old
    <2>4. Ascending(r)
      BY <2>2, <2>3 DEF Ascending
    <2> QED BY <1>2, <2>4 DEF r
  <1> QED BY <1>1, <1>2, RemoveFirstAt

LEMMA UnlinkLists ==
  ASSUME ListsAgree, NEW c, Unlink(c)
  PROVE  /\ addr_list' \in Seq(Boundaries) /\ size_list' \in Seq(Boundaries)
         /\ Ascending(addr_list') /\ IsInjective(size_list')
         /\ ToSet(addr_list') = ToSet(addr_list) \ {c}
         /\ ToSet(size_list') = ToSet(size_list) \ {c}
  <1>1. /\ addr_list \in Seq(Boundaries) /\ size_list \in Seq(Boundaries)
        /\ Ascending(addr_list) /\ IsInjective(size_list)
    BY DEF ListsAgree, TypeOK, Ascending
  <1>2. addr_list' = RemoveFirst(addr_list, c) /\ size_list' = RemoveFirst(size_list, c)
    BY DEF Unlink
  <1>3. IsInjective(addr_list)
    BY <1>1, AscendingOnce
  <1>4. /\ addr_list' \in Seq(Boundaries) /\ ToSet(addr_list') = ToSet(addr_list) \ {c}
    BY <1>1, <1>2, <1>3, DeleteFirst
  <1>5. /\ size_list' \in Seq(Boundaries) /\ ToSet(size_list') = ToSet(size_list) \ {c}
        /\ IsInjective(size_list')
    BY <1>1, <1>2, DeleteFirst
  <1>6. Ascending(addr_list')
    BY <1>1, <1>2, DeleteAscending
  <1> QED BY <1>4, <1>5, <1>6

-----------------------------------------------------------------------------
(* The invariant, piece by piece. *)
LEMMA Listed ==
  ASSUME PmmInv
  PROVE  /\ addr_list \in Seq(Boundaries) /\ size_list \in Seq(Boundaries)
         /\ Ascending(addr_list) /\ IsInjective(size_list)
         /\ ToSet(addr_list) = ToSet(size_list)
         /\ ToSet(addr_list) \subseteq FreeAddrs
         /\ freeing # NoFrame => freeing.addr \in FreeAddrs /\ freeing.addr \notin ToSet(addr_list)
  BY DEF PmmInv, ListsAgree, TypeOK, Ascending, FreeAddrs

LEMMA FreeFacts ==
  ASSUME PmmInv, NEW a \in FreeAddrs
  PROVE  /\ FreePiece(a) \in Pieces /\ Whole(FreePiece(a))
         /\ FreePiece(a).addr = a /\ FreePiece(a).size = node[a]
         /\ a \in Nat /\ node[a] \in Nat \ {0} /\ Aligned(a) /\ Aligned(node[a])
         /\ a + node[a] <= MaxUint /\ node[a] <= MaxUint /\ a \in Boundaries
         /\ Bytes(FreePiece(a)) \subseteq RAM
  <1>1. FreePiece(a) \in Pieces /\ FreePiece(a).addr = a /\ FreePiece(a).size = node[a]
    BY DEF Pieces, FreePiece
  <1>2. Whole(FreePiece(a))
    BY <1>1 DEF PmmInv, Tiling
  <1>3. /\ a \in Nat /\ node[a] \in Nat \ {0} /\ Aligned(a) /\ Aligned(node[a])
        /\ Bytes(FreePiece(a)) \subseteq RAM
    BY <1>1, <1>2 DEF Whole
  <1>4. a + node[a] <= MaxUint /\ node[a] <= MaxUint /\ a \in Boundaries
    BY <1>1, <1>2, WholeBounds
  <1> QED BY <1>1, <1>2, <1>3, <1>4

LEMMA HeldFacts ==
  ASSUME PmmInv, NEW b \in held
  PROVE  /\ HeldPiece(b) \in Pieces /\ Whole(HeldPiece(b))
         /\ HeldPiece(b).addr = b.addr /\ HeldPiece(b).size = RoundUp(b.size)
         /\ b.addr \in Boundaries /\ b.size \in 0..MaxUint /\ b.size # 0
         /\ b.addr \in Nat /\ RoundUp(b.size) \in Nat \ {0} /\ RoundUp(b.size) <= MaxUint
         /\ Aligned(b.addr) /\ Aligned(RoundUp(b.size))
         /\ \A a \in FreeAddrs : HeldPiece(b) # FreePiece(a) /\ a # b.addr
  <1>1. /\ HeldPiece(b) \in Pieces
        /\ HeldPiece(b).addr = b.addr /\ HeldPiece(b).size = RoundUp(b.size)
    BY DEF Pieces, HeldPiece
  <1>2. Whole(HeldPiece(b))
    BY <1>1 DEF PmmInv, Tiling
  <1>3. /\ b.addr \in Boundaries /\ b.addr \in Nat /\ RoundUp(b.size) \in Nat \ {0}
        /\ Aligned(b.addr) /\ Aligned(RoundUp(b.size)) /\ RoundUp(b.size) <= MaxUint
    BY <1>1, <1>2, WholeBounds DEF Whole
  <1>4. b.size \in 0..MaxUint
    BY DEF PmmInv, ListsAgree, TypeOK
  <1>5. b.size # 0
    BY <1>3, Constants DEF RoundUp
  <1>6. ASSUME NEW a \in FreeAddrs PROVE HeldPiece(b) # FreePiece(a) /\ a # b.addr
    <2>1. HeldPiece(b) # FreePiece(a)
      BY <1>5 DEF HeldPiece, FreePiece
    <2>2. FreePiece(a) \in Pieces /\ FreePiece(a).addr = a
      BY FreeFacts
    <2> QED BY <1>1, <2>1, <2>2, BelowOrAbove DEF PmmInv
  <1> QED BY <1>1, <1>2, <1>3, <1>4, <1>5, <1>6

LEMMA FreeApart ==
  ASSUME PmmInv, NEW a \in FreeAddrs, NEW c \in FreeAddrs, a # c
  PROVE  a + node[a] <= c \/ c + node[c] <= a
  <1>1. /\ FreePiece(a) \in Pieces /\ FreePiece(a).addr = a /\ FreePiece(a).size = node[a]
        /\ FreePiece(c) \in Pieces /\ FreePiece(c).addr = c /\ FreePiece(c).size = node[c]
    BY FreeFacts
  <1>2. FreePiece(a) # FreePiece(c)
    BY <1>1
  <1> QED BY <1>1, <1>2, BelowOrAbove DEF PmmInv

(* The block above is adjacent: a stale size would point into the block    *)
(* that is being freed.                                                    *)
LEMMA HigherAdjacent ==
  ASSUME PmmInv, freeing # NoFrame, NEW c \in ToSet(addr_list), Higher(c)
  PROVE  c = freeing.addr + node[freeing.addr] /\ freeing.size = node[freeing.addr]
  <1> DEFINE f == freeing.addr
  <1>1. f \in FreeAddrs /\ c \in FreeAddrs /\ f # c
    BY Listed
  <1>2. f \in Nat /\ node[f] \in Nat \ {0} /\ c \in Nat /\ node[c] \in Nat \ {0}
    BY <1>1, FreeFacts
  <1>3. c = f + freeing.size /\ freeing.size \in 1..node[f]
    BY DEF Higher, PmmInv, Frame
  <1>4. f + node[f] <= c \/ c + node[c] <= f
    BY <1>1, FreeApart
  <1> HIDE DEF f
  <1>5. c = f + node[f] /\ freeing.size = node[f]
    BY <1>2, <1>3, <1>4
  <1> QED BY <1>5 DEF f

(* So is the block below, and the size is not stale then. *)
LEMMA LowerAdjacent ==
  ASSUME PmmInv, freeing # NoFrame, NEW c \in ToSet(addr_list), Lower(c)
  PROVE  c + node[c] = freeing.addr /\ freeing.size = node[freeing.addr]
  <1> DEFINE f == freeing.addr
  <1>1. f \in FreeAddrs /\ c \in FreeAddrs /\ f # c
    BY Listed
  <1>2. f \in Nat /\ c \in Nat /\ node[c] \in Nat \ {0} /\ c = f - node[c]
    BY <1>1, FreeFacts DEF Lower
  <1>3. c + node[c] = f
    BY <1>2
  <1>4. freeing.size = node[f]
    BY <1>3 DEF PmmInv, Frame
  <1> QED BY <1>3, <1>4

LEMMA TileStep ==
  ASSUME PmmInv, NEW F, NEW G, NEW H, NEW K, Change(F, G, H, K),
         Covers(Come(node', G, K), Gone(F, H))
  PROVE  Tiling(Pieces)'
  <1>1. TypeOK /\ HeldSizes /\ Tiling(Pieces)
    BY DEF PmmInv, ListsAgree
  <1>2. Gone(F, H) \subseteq Pieces /\ Pieces' = (Pieces \ Gone(F, H)) \cup Come(node', G, K)
    BY <1>1, PiecesChange
  <1>3. Tiling((Pieces \ Gone(F, H)) \cup Come(node', G, K))
    BY <1>1, <1>2, Retile
  <1> QED BY <1>2, <1>3 DEF Tiling

(* The free bytes are those of the free pieces, before and after a step. *)
LEMMA UnionBytes ==
  ASSUME NEW A, NEW nd
  PROVE  \A x : x \in UNION {Bytes(b) : b \in {[addr |-> a, size |-> nd[a]] : a \in A}}
                <=> \E a \in A : x \in a..(a + nd[a] - 1)
  <1> DEFINE Block(a) == [addr |-> a, size |-> nd[a]]
  <1>1. \A a : Bytes(Block(a)) = a..(a + nd[a] - 1)
    BY DEF Bytes
  <1> HIDE DEF Block
  <1>2. \A x : x \in UNION {Bytes(b) : b \in {Block(a) : a \in A}}
               <=> \E a \in A : x \in a..(a + nd[a] - 1)
    BY <1>1
  <1> QED BY <1>2 DEF Block

LEMMA FreeBlocksAre ==
  FreeBlocks \cup InFlight = {[addr |-> a, size |-> node[a]] : a \in FreeAddrs}
  <1>1. CASE freeing = NoFrame
    BY <1>1 DEF FreeBlocks, InFlight, FreeBlock, FreeAddrs
  <1>2. CASE freeing # NoFrame
    BY <1>2 DEF FreeBlocks, InFlight, FreeBlock, FreeAddrs
  <1> QED BY <1>1, <1>2

LEMMA FreeBytesAre ==
  /\ \A x : x \in FreeBytes <=> \E a \in FreeAddrs : x \in a..(a + node[a] - 1)
  /\ \A x : x \in FreeBytes' <=> \E a \in FreeAddrs' : x \in a..(a + node'[a] - 1)
  <1>1. FreeBlocks \cup InFlight = {[addr |-> a, size |-> node[a]] : a \in FreeAddrs}
    BY FreeBlocksAre
  <1>2. (FreeBlocks \cup InFlight)' = {[addr |-> a, size |-> node'[a]] : a \in FreeAddrs'}
    <2>1. CASE freeing' = NoFrame
      BY <2>1 DEF FreeBlocks, InFlight, FreeBlock, FreeAddrs
    <2>2. CASE freeing' # NoFrame
      BY <2>2 DEF FreeBlocks, InFlight, FreeBlock, FreeAddrs
    <2> QED BY <2>1, <2>2
  <1>3. \A x : x \in FreeBytes <=> \E a \in FreeAddrs : x \in a..(a + node[a] - 1)
    BY <1>1, UnionBytes DEF FreeBytes
  <1>4. \A x : x \in FreeBytes' <=> \E a \in FreeAddrs' : x \in a..(a + node'[a] - 1)
    BY <1>2, UnionBytes DEF FreeBytes
  <1> QED BY <1>3, <1>4

LEMMA FrameRecord ==
  ASSUME NEW a \in Nat, NEW s \in Nat
  PROVE  [addr |-> a, size |-> s] # NoFrame
  BY NoFrameAssumption

(* pmm_free, up to its loop: what the caller owned is a free piece now.    *)
LEMMA FreeStarts ==
  ASSUME PmmInv, NEW b \in held, pmm_free(b)
  PROVE  /\ PmmInv'
         /\ FreeBytes' = FreeBytes \cup b.addr..(b.addr + RoundUp(b.size) - 1)
  <1> DEFINE f == b.addr
             R == RoundUp(b.size)
  <1>b. /\ HeldPiece(b) \in Pieces /\ Whole(HeldPiece(b))
        /\ HeldPiece(b).addr = f /\ HeldPiece(b).size = R
        /\ f \in Boundaries /\ f \in Nat /\ R \in Nat \ {0} /\ R <= MaxUint
        /\ Aligned(f) /\ Aligned(R) /\ \A a \in FreeAddrs : a # f
    BY HeldFacts
  <1>1. /\ freeing = NoFrame /\ held' = held \ {b}
        /\ freeing' = [addr |-> f, size |-> R] /\ node' = [node EXCEPT ![f] = R]
        /\ UNCHANGED <<addr_list, size_list, null>>
    BY DEF pmm_free, StartFree
  <1>t. /\ node \in [Boundaries -> 0..MaxUint] /\ null \in BOOLEAN
        /\ held \subseteq [addr : Boundaries, size : 0..MaxUint]
    BY DEF PmmInv, ListsAgree, TypeOK
  <1> HIDE DEF f, R
  <1>2. freeing' # NoFrame /\ freeing'.addr = f /\ freeing'.size = R
    BY <1>b, <1>1, FrameRecord
  <1>3. FreeAddrs = ToSet(addr_list) /\ FreeAddrs' = FreeAddrs \cup {f}
    BY <1>1, <1>2 DEF FreeAddrs
  <1>4. FreeAddrs \subseteq Boundaries
    BY FreeFacts
  <1>5. node'[f] = R /\ \A a \in FreeAddrs : node'[a] = node[a]
    BY <1>b, <1>1, <1>t, <1>4
  <1>6. Tiling(Pieces)'
    <2> DEFINE p == [addr |-> f, size |-> R, req |-> 0]
    <2>1. Change({}, {f}, {b}, {})
      BY <1>1, <1>3, <1>5 DEF Change
    <2>2. Gone({}, {b}) = {HeldPiece(b)}
      BY DEF Gone
    <2>3. Come(node', {f}, {}) = {p}
      BY <1>5 DEF Come
    <2>4. Bytes(p) = Bytes(HeldPiece(b)) /\ p.addr = f /\ p.size = R
      BY <1>b DEF Bytes
    <2>5. Whole(p)
      BY <1>b, <2>4 DEF Whole
    <2> HIDE DEF p
    <2>6. Covers({p}, {HeldPiece(b)})
      BY <2>4, <2>5 DEF Covers
    <2> QED BY <2>1, <2>2, <2>3, <2>6, TileStep
  <1>7. ListsAgree'
    <2>1. TypeOK'
      BY <1>b, <1>1, <1>t DEF PmmInv, ListsAgree, TypeOK
    <2>2. f \notin ToSet(addr_list)
      BY <1>b, <1>3
    <2> QED BY <1>1, <1>2, <2>1, <2>2 DEF PmmInv, ListsAgree
  <1>8. Apart'
    BY <1>1, <1>3, <1>5 DEF PmmInv, Apart
  <1>9. Frame'
    BY <1>b, <1>2, <1>5 DEF Frame
  <1>10. HeldSizes'
    BY <1>1 DEF PmmInv, HeldSizes
  <1>11. FreeBytes' = FreeBytes \cup f..(f + R - 1)
    <2>2. \A x : x \in FreeBytes' <=> x \in FreeBytes \/ x \in f..(f + R - 1)
      BY <1>3, <1>5, FreeBytesAre
    <2> QED BY <2>2
  <1> QED BY <1>6, <1>7, <1>8, <1>9, <1>10, <1>11 DEF PmmInv, f, R

-----------------------------------------------------------------------------
(* The passes of the loop. *)

(* A piece made of two neighbours, and a piece cut in two. *)
LEMMA Joined ==
  ASSUME NEW p, NEW q, NEW r, Whole(p), Whole(q),
         q.addr = p.addr + p.size, r.addr = p.addr, r.size = p.size + q.size
  PROVE  Covers({r}, {p, q})
  <1>1. /\ p.addr \in Nat /\ p.size \in Nat \ {0} /\ Aligned(p.addr) /\ Aligned(p.size)
        /\ q.addr \in Nat /\ q.size \in Nat \ {0} /\ Aligned(q.size)
        /\ Bytes(p) \subseteq RAM /\ Bytes(q) \subseteq RAM
    BY DEF Whole
  <1>2. r.addr \in Nat /\ r.size \in Nat \ {0} /\ Aligned(r.addr) /\ Aligned(r.size)
    <2>1. Aligned(p.size + q.size)
      BY <1>1, AlignedSum
    <2>2. r.addr \in Nat /\ r.size \in Nat \ {0}
      BY <1>1
    <2>3. Aligned(r.addr) /\ Aligned(r.size)
      BY <1>1, <2>1
    <2> QED BY <2>2, <2>3
  <1>3. \A x : x \in Bytes(r) <=> x \in Bytes(p) \/ x \in Bytes(q)
    <2>1. \A x : x \in Bytes(p) <=> x \in Nat /\ p.addr <= x /\ x < p.addr + p.size
      BY <1>1, ByteIn
    <2>2. \A x : x \in Bytes(q) <=> x \in Nat /\ q.addr <= x /\ x < q.addr + q.size
      BY <1>1, ByteIn
    <2>3. \A x : x \in Bytes(r) <=> x \in Nat /\ r.addr <= x /\ x < r.addr + r.size
      BY <1>2, ByteIn
    <2> QED BY <1>1, <2>1, <2>2, <2>3
  <1>4. Whole(r)
    BY <1>1, <1>2, <1>3 DEF Whole
  <1> QED BY <1>3, <1>4 DEF Covers

LEMMA Cut ==
  ASSUME NEW p, NEW q, NEW r, Whole(r),
         p.addr = r.addr, p.size \in Nat \ {0}, Aligned(p.size), p.size < r.size,
         q.addr = p.addr + p.size, q.size = r.size - p.size
  PROVE  Covers({p, q}, {r})
  <1>1. /\ r.addr \in Nat /\ r.size \in Nat \ {0} /\ Aligned(r.addr) /\ Aligned(r.size)
        /\ Bytes(r) \subseteq RAM
    BY DEF Whole
  <1>2. /\ q.addr \in Nat /\ q.size \in Nat \ {0} /\ Aligned(q.addr) /\ Aligned(q.size)
    BY <1>1, AlignedSum, SMTT(30)
  <1>3. \A x : x \in Bytes(p) <=> x \in Nat /\ p.addr <= x /\ x < p.addr + p.size
    BY <1>1, ByteIn
  <1>4. \A x : x \in Bytes(q) <=> x \in Nat /\ q.addr <= x /\ x < q.addr + q.size
    BY <1>2, ByteIn
  <1>5. \A x : x \in Bytes(r) <=> x \in Nat /\ r.addr <= x /\ x < r.addr + r.size
    BY <1>1, ByteIn
  <1>6. \A x : x \in Bytes(r) <=> x \in Bytes(p) \/ x \in Bytes(q)
    BY <1>1, <1>3, <1>4, <1>5
  <1>7. Bytes(p) \cap Bytes(q) = {}
    BY <1>1, <1>3, <1>4
  <1>8. Whole(p) /\ Whole(q)
    BY <1>1, <1>2, <1>6 DEF Whole
  <1> QED BY <1>6, <1>7, <1>8 DEF Covers

(* What a pass has found. *)
LEMMA FoundListed ==
  ASSUME PmmInv, Found # 0
  PROVE  /\ Found \in 1..Len(addr_list) /\ addr_list[Found] \in ToSet(addr_list)
         /\ \A a \in ToSet(addr_list) : a < addr_list[Found] => ~Stop(a)
  <1>0. addr_list \in Seq(Boundaries) /\ Ascending(addr_list)
    BY Listed
  <1>1. /\ Found \in 1..Len(addr_list)
        /\ \A i \in 1..Len(addr_list) : i < Found => ~Stop(addr_list[i])
    BY <1>0, FoundIs
  <1>2. \A x : x \in ToSet(addr_list) <=> \E i \in 1..Len(addr_list) : x = addr_list[i]
    BY <1>0, Positions
  <1>3. ASSUME NEW a \in ToSet(addr_list), a < addr_list[Found] PROVE ~Stop(a)
    <2>1. PICK i \in 1..Len(addr_list) : a = addr_list[i]
      BY <1>2
    <2>2. i < Found
      BY <1>0, <1>1, <1>3, <2>1, AscendingOnce
    <2> QED BY <1>1, <2>1, <2>2
  <1> QED BY <1>1, <1>2, <1>3

LEMMA HigherPass ==
  ASSUME PmmInv, CoalesceHigher
  PROVE  PmmInv' /\ FreeBytes' = FreeBytes
  <1> DEFINE f == freeing.addr
             c == addr_list[Found]
             total == node[f] + node[c]
  <1>1. /\ freeing # NoFrame /\ Found # 0 /\ Higher(c) /\ Unlink(c)
        /\ node' = [node EXCEPT ![f] = total]
        /\ UNCHANGED <<freeing, held, null>>
    BY DEF CoalesceHigher
  <1>2. c \in ToSet(addr_list) /\ \A a \in ToSet(addr_list) : a < c => ~Stop(a)
    BY <1>1, FoundListed
  <1>3. c = f + node[f] /\ freeing.size = node[f]
    BY <1>1, <1>2, HigherAdjacent
  <1>4. /\ f \in FreeAddrs /\ c \in FreeAddrs /\ f # c /\ f \notin ToSet(addr_list)
        /\ FreeAddrs = ToSet(addr_list) \cup {f}
    BY <1>1, <1>2, Listed DEF FreeAddrs
  <1>t. /\ node \in [Boundaries -> 0..MaxUint] /\ null \in BOOLEAN
        /\ held \subseteq [addr : Boundaries, size : 0..MaxUint]
        /\ freeing \in [addr : Boundaries, size : 0..MaxUint] \cup {NoFrame}
    BY DEF PmmInv, ListsAgree, TypeOK
  <1>f. /\ f \in Nat /\ node[f] \in Nat \ {0} /\ f \in Boundaries
        /\ c \in Nat /\ node[c] \in Nat \ {0} /\ c + node[c] <= MaxUint
        /\ Whole(FreePiece(f)) /\ FreePiece(f).addr = f /\ FreePiece(f).size = node[f]
        /\ Whole(FreePiece(c)) /\ FreePiece(c).addr = c /\ FreePiece(c).size = node[c]
    BY <1>4, FreeFacts
  <1>u. /\ addr_list' \in Seq(Boundaries) /\ size_list' \in Seq(Boundaries)
        /\ Ascending(addr_list') /\ IsInjective(size_list')
        /\ ToSet(addr_list') = ToSet(addr_list) \ {c}
        /\ ToSet(size_list') = ToSet(size_list) \ {c}
    BY <1>1, UnlinkLists DEF PmmInv
  <1> HIDE DEF f, c
  <1>5. FreeAddrs' = FreeAddrs \ {c}
    <2>1. FreeAddrs' = ToSet(addr_list') \cup {f}
      BY <1>1 DEF FreeAddrs, f
    <2> QED BY <1>4, <1>u, <2>1
  <1>6. FreeAddrs \subseteq Boundaries
    BY FreeFacts
  <1>7. node'[f] = total /\ \A a \in FreeAddrs : a # f => node'[a] = node[a]
    BY <1>1, <1>t, <1>f, <1>6
  <1>m. total \in Nat \ {0} /\ total <= MaxUint /\ total # node[f] /\ node[f] <= total
    BY <1>3, <1>f, Constants
  <1>8. Tiling(Pieces)'
    <2> DEFINE p == [addr |-> f, size |-> total, req |-> 0]
    <2>1. Change({f, c}, {f}, {}, {})
      BY <1>1, <1>4, <1>5, <1>7 DEF Change
    <2>2. Gone({f, c}, {}) = {FreePiece(f), FreePiece(c)}
      BY DEF Gone
    <2>3. Come(node', {f}, {}) = {p}
      BY <1>7 DEF Come
    <2>4. p.addr = f /\ p.size = total
      OBVIOUS
    <2> HIDE DEF p
    <2>5. Covers({p}, {FreePiece(f), FreePiece(c)})
      BY <1>3, <1>f, <2>4, Joined
    <2> QED BY <2>1, <2>2, <2>3, <2>5, TileStep
  <1>9. ListsAgree'
    <2>1. node' \in [Boundaries -> 0..MaxUint]
      <3>1. total \in 0..MaxUint
        BY <1>m, Constants
      <3> HIDE DEF total
      <3> QED BY <1>1, <1>t, <3>1
    <2>2. TypeOK'
      BY <1>1, <1>t, <1>u, <2>1 DEF TypeOK
    <2>3. ToSet(addr_list') = ToSet(size_list') /\ f \notin ToSet(addr_list')
      BY <1>4, <1>u, Listed
    <2>4. DOMAIN addr_list' = 1..Len(addr_list')
      BY <1>u
    <2> QED BY <1>1, <1>u, <2>2, <2>3, <2>4 DEF ListsAgree, Ascending, f
  <1>10. Apart'
    <2>1. ASSUME NEW a \in ToSet(addr_list') PROVE a + node'[a] \notin ToSet(addr_list')
      <3>1. a \in ToSet(addr_list) /\ a # f /\ a \in FreeAddrs
        BY <1>4, <1>u
      <3> QED BY <1>7, <1>u, <3>1 DEF PmmInv, Apart
    <2> QED BY <2>1 DEF Apart
  <1>11. Frame'
    <2>1. freeing'.addr = f /\ freeing'.size = node[f]
      BY <1>1, <1>3 DEF f
    <2>2. ASSUME NEW a \in ToSet(addr_list'), a + node'[a] = f PROVE FALSE
      <3>1. a \in ToSet(addr_list) /\ a # f /\ a \in FreeAddrs
        BY <1>4, <1>u
      <3>2. a \in Nat /\ node[a] \in Nat \ {0} /\ a + node[a] = f
        BY <1>7, <2>2, <3>1, FreeFacts
      <3>3. a < c /\ a = f - node[a]
        BY <1>3, <1>f, <3>2
      <3>4. Stop(a)
        BY <3>3 DEF Stop, Lower, f
      <3> QED BY <1>2, <3>1, <3>3, <3>4
    <2>3. f + node'[f] \notin ToSet(addr_list')
      <3>1. f + node'[f] = c + node[c]
        BY <1>3, <1>7, <1>f
      <3>2. c + node[c] \notin ToSet(addr_list)
        BY <1>2 DEF PmmInv, Apart
      <3> QED BY <1>u, <3>1, <3>2
    <2>4. freeing'.size \in 1..node'[f]
      BY <1>f, <1>m, <1>7, <2>1
    <2> QED BY <2>1, <2>2, <2>3, <2>4 DEF Frame
  <1>12. HeldSizes'
    BY <1>1 DEF PmmInv, HeldSizes
  <1>13. FreeBytes' = FreeBytes
    <2>1. \A x : x \in f..(f + total - 1) <=> x \in f..(f + node[f] - 1) \/ x \in c..(c + node[c] - 1)
      BY <1>3, <1>f
    <2>2. \A x : (\E a \in FreeAddrs' : x \in a..(a + node'[a] - 1))
                 <=> (\E a \in FreeAddrs : x \in a..(a + node[a] - 1))
      BY <1>4, <1>5, <1>7, <2>1
    <2>3. \A x : x \in FreeBytes' <=> x \in FreeBytes
      BY <2>2, FreeBytesAre
    <2> QED BY <2>3
  <1> QED BY <1>8, <1>9, <1>10, <1>11, <1>12, <1>13 DEF PmmInv

(* The pass that merges the block below: after it the size is fresh.       *)
LEMMA LowerPass ==
  ASSUME PmmInv, CoalesceLower
  PROVE  PmmInv' /\ FreeBytes' = FreeBytes
  <1> DEFINE f == freeing.addr
             c == addr_list[Found]
             total == freeing.size + node[c]
  <1>1. /\ freeing # NoFrame /\ Found # 0 /\ Lower(c) /\ Unlink(c)
        /\ freeing' = [addr |-> c, size |-> total]
        /\ node' = [node EXCEPT ![c] = total]
        /\ UNCHANGED <<held, null>>
    BY DEF CoalesceLower
  <1>2. c \in ToSet(addr_list)
    BY <1>1, FoundListed
  <1>3. c + node[c] = f /\ freeing.size = node[f]
    BY <1>1, <1>2, LowerAdjacent
  <1>4. /\ f \in FreeAddrs /\ c \in FreeAddrs /\ f # c /\ f \notin ToSet(addr_list)
        /\ FreeAddrs = ToSet(addr_list) \cup {f}
    BY <1>1, <1>2, Listed DEF FreeAddrs
  <1>t. /\ node \in [Boundaries -> 0..MaxUint] /\ null \in BOOLEAN
        /\ held \subseteq [addr : Boundaries, size : 0..MaxUint]
    BY DEF PmmInv, ListsAgree, TypeOK
  <1>f. /\ f \in Nat /\ node[f] \in Nat \ {0} /\ f + node[f] <= MaxUint
        /\ c \in Nat /\ node[c] \in Nat \ {0} /\ c \in Boundaries
        /\ Whole(FreePiece(f)) /\ FreePiece(f).addr = f /\ FreePiece(f).size = node[f]
        /\ Whole(FreePiece(c)) /\ FreePiece(c).addr = c /\ FreePiece(c).size = node[c]
    BY <1>4, FreeFacts
  <1>u. /\ addr_list' \in Seq(Boundaries) /\ size_list' \in Seq(Boundaries)
        /\ Ascending(addr_list') /\ IsInjective(size_list')
        /\ ToSet(addr_list') = ToSet(addr_list) \ {c}
        /\ ToSet(size_list') = ToSet(size_list) \ {c}
    BY <1>1, UnlinkLists DEF PmmInv
  <1> HIDE DEF f, c
  <1>m. total \in Nat \ {0} /\ total \in 0..MaxUint /\ total = node[c] + node[f]
    BY <1>3, <1>f, Constants
  <1> HIDE DEF total
  <1>n. freeing' # NoFrame /\ freeing'.addr = c /\ freeing'.size = total
    BY <1>1, <1>f, <1>m, FrameRecord
  <1>5. FreeAddrs' = FreeAddrs \ {f}
    <2>1. FreeAddrs' = ToSet(addr_list') \cup {c}
      BY <1>n DEF FreeAddrs
    <2> QED BY <1>2, <1>4, <1>u, <2>1
  <1>6. FreeAddrs \subseteq Boundaries
    BY FreeFacts
  <1>7. node'[c] = total /\ \A a \in FreeAddrs : a # c => node'[a] = node[a]
    BY <1>1, <1>t, <1>f, <1>6
  <1>8. Tiling(Pieces)'
    <2> DEFINE p == [addr |-> c, size |-> total, req |-> 0]
    <2>1. Change({c, f}, {c}, {}, {})
      BY <1>1, <1>4, <1>5, <1>7 DEF Change
    <2>2. Gone({c, f}, {}) = {FreePiece(c), FreePiece(f)}
      BY DEF Gone
    <2>3. Come(node', {c}, {}) = {p}
      BY <1>7 DEF Come
    <2>4. p.addr = c /\ p.size = total
      OBVIOUS
    <2> HIDE DEF p
    <2>5. Covers({p}, {FreePiece(c), FreePiece(f)})
      BY <1>3, <1>f, <1>m, <2>4, Joined
    <2> QED BY <2>1, <2>2, <2>3, <2>5, TileStep
  <1>9. ListsAgree'
    <2>1. node' \in [Boundaries -> 0..MaxUint]
      BY <1>1, <1>t, <1>m
    <2>2. TypeOK'
      BY <1>1, <1>t, <1>f, <1>m, <1>u, <2>1 DEF TypeOK
    <2>3. ToSet(addr_list') = ToSet(size_list') /\ c \notin ToSet(addr_list')
      BY <1>u, Listed
    <2>4. DOMAIN addr_list' = 1..Len(addr_list')
      BY <1>u
    <2> QED BY <1>n, <1>u, <2>2, <2>3, <2>4 DEF ListsAgree, Ascending
  <1>10. Apart'
    <2>1. ASSUME NEW a \in ToSet(addr_list') PROVE a + node'[a] \notin ToSet(addr_list')
      <3>1. a \in ToSet(addr_list) /\ a # c /\ a \in FreeAddrs
        BY <1>4, <1>u
      <3> QED BY <1>7, <1>u, <3>1 DEF PmmInv, Apart
    <2> QED BY <2>1 DEF Apart
  <1>11. Frame'
    BY <1>m, <1>n, <1>7 DEF Frame
  <1>12. HeldSizes'
    BY <1>1 DEF PmmInv, HeldSizes
  <1>13. FreeBytes' = FreeBytes
    <2>1. \A x : x \in c..(c + total - 1) <=> x \in f..(f + node[f] - 1) \/ x \in c..(c + node[c] - 1)
      BY <1>3, <1>f, <1>m
    <2>2. \A x : (\E a \in FreeAddrs' : x \in a..(a + node'[a] - 1))
                 <=> (\E a \in FreeAddrs : x \in a..(a + node[a] - 1))
      BY <1>4, <1>5, <1>7, <2>1
    <2>3. \A x : x \in FreeBytes' <=> x \in FreeBytes
      BY <2>2, FreeBytesAre
    <2> QED BY <2>3
  <1> QED BY <1>8, <1>9, <1>10, <1>11, <1>12, <1>13 DEF PmmInv

(* Where the block goes on a list. *)
LEMMA InsertedOnce ==
  ASSUME NEW s \in Seq(Boundaries), NEW k, k = 0 \/ k \in 1..Len(s), NEW e \in Boundaries
  PROVE  /\ InsertBefore(s, k, e) \in Seq(Boundaries)
         /\ ToSet(InsertBefore(s, k, e)) = ToSet(s) \cup {e}
         /\ e \notin ToSet(s) /\ IsInjective(s) => IsInjective(InsertBefore(s, k, e))
  <1>1. CASE k = 0
    <2>1. InsertBefore(s, k, e) = Append(s, e)
      BY <1>1 DEF InsertBefore
    <2> QED BY <2>1, AddTail
  <1>2. CASE k \in 1..Len(s)
    <2>1. InsertBefore(s, k, e) = InsertAt(s, k, e)
      BY <1>2 DEF InsertBefore
    <2> QED BY <1>2, <2>1, AddNode
  <1> QED BY <1>1, <1>2

LEMMA InsertedAscending ==
  ASSUME NEW s \in Seq(Boundaries), Ascending(s), NEW k, NEW e \in Boundaries,
         k = 0 => \A i \in 1..Len(s) : s[i] < e,
         k # 0 => /\ k \in 1..Len(s) /\ e < s[k]
                  /\ \A i \in 1..Len(s) : i < k => s[i] < e
  PROVE  Ascending(InsertBefore(s, k, e))
  <1>n. /\ \A i \in 1..Len(s) : s[i] \in Nat
        /\ e \in Nat /\ Len(s) \in Nat
    <2>1. \A x \in Boundaries : x \in Nat
      BY RamBounds DEF Boundaries
    <2>2. \A i \in 1..Len(s) : s[i] \in Boundaries
      OBVIOUS
    <2> QED BY <2>1, <2>2
  <1>1. CASE k = 0
    <2> DEFINE r == Append(s, e)
    <2>1. Len(r) = Len(s) + 1 /\ r[Len(s) + 1] = e /\ \A i \in 1..Len(s) : r[i] = s[i]
      OBVIOUS
    <2> HIDE DEF r
    <2>2. ASSUME NEW i \in 1..Len(r), NEW j \in 1..Len(r), i < j PROVE r[i] < r[j]
      <3>1. i \in 1..Len(s) /\ r[i] = s[i]
        BY <1>n, <2>1, <2>2
      <3>2. CASE j = Len(s) + 1
        BY <1>1, <2>1, <3>1, <3>2
      <3>3. CASE j # Len(s) + 1
        <4>1. j \in 1..Len(s) /\ r[j] = s[j]
          BY <1>n, <2>1, <3>3
        <4> QED BY <2>2, <3>1, <4>1 DEF Ascending
      <3> QED BY <3>2, <3>3
    <2> QED BY <1>1, <2>2 DEF Ascending, InsertBefore, r
  <1>2. CASE k # 0
    <2> DEFINE r == InsertAt(s, k, e)
    <2>k. k \in 1..Len(s)
      BY <1>2
    <2> HIDE DEF r
    <2>1. /\ Len(r) = Len(s) + 1 /\ r[k] = e
          /\ \A i \in 1..(k - 1) : r[i] = s[i]
          /\ \A i \in (k + 1)..Len(r) : i - 1 \in k..Len(s) /\ r[i] = s[i - 1]
      BY <2>k, InsertPositions DEF r
    <2>2. ASSUME NEW i \in 1..Len(s), k <= i PROVE e < s[i]
      <3>1. CASE i = k
        BY <1>2, <3>1
      <3>2. CASE k < i
        <4>1. s[k] < s[i] /\ e < s[k]
          BY <1>2, <2>k, <3>2 DEF Ascending
        <4> QED BY <1>n, <2>k, <4>1
      <3> QED BY <2>k, <2>2, <3>1, <3>2
    <2>3. ASSUME NEW i \in 1..Len(r), NEW j \in 1..Len(r), i < j PROVE r[i] < r[j]
      <3>1. CASE i < k /\ j < k
        <4>1. i \in 1..Len(s) /\ j \in 1..Len(s) /\ r[i] = s[i] /\ r[j] = s[j]
          BY <1>n, <2>k, <2>1, <3>1
        <4> QED BY <2>3, <4>1 DEF Ascending
      <3>2. CASE i < k /\ j = k
        <4>1. i \in 1..Len(s) /\ r[i] = s[i] /\ r[j] = e
          BY <1>n, <2>k, <2>1, <3>2
        <4> QED BY <1>2, <3>2, <4>1
      <3>3. CASE i < k /\ j > k
        <4>1. i \in 1..Len(s) /\ r[i] = s[i]
          BY <1>n, <2>k, <2>1, <3>3
        <4>2. j - 1 \in 1..Len(s) /\ r[j] = s[j - 1] /\ k <= j - 1
          BY <1>n, <2>k, <2>1, <3>3
        <4>3. i < j - 1
          BY <2>k, <3>3, <4>2
        <4> QED BY <4>1, <4>2, <4>3 DEF Ascending
      <3>4. CASE i = k
        <4>1. j - 1 \in 1..Len(s) /\ r[j] = s[j - 1] /\ k <= j - 1
          BY <1>n, <2>k, <2>1, <2>3, <3>4
        <4> QED BY <2>1, <2>2, <3>4, <4>1
      <3>5. CASE i > k
        <4>1. i - 1 \in 1..Len(s) /\ r[i] = s[i - 1]
          BY <1>n, <2>k, <2>1, <3>5
        <4>2. j - 1 \in 1..Len(s) /\ r[j] = s[j - 1]
          BY <1>n, <2>k, <2>1, <2>3, <3>5
        <4>3. i - 1 < j - 1
          BY <2>3
        <4> QED BY <4>1, <4>2, <4>3 DEF Ascending
      <3> QED BY <2>k, <3>1, <3>2, <3>3, <3>4, <3>5
    <2> QED BY <1>2, <2>3 DEF Ascending, InsertBefore, r
  <1> QED BY <1>1, <1>2

(* The pass that finds no neighbour: there is none on the list. *)
LEMMA NoNeighbour ==
  ASSUME PmmInv, freeing # NoFrame,
         Found # 0 => ~Higher(addr_list[Found]) /\ ~Lower(addr_list[Found])
  PROVE  /\ \A a \in ToSet(addr_list) : a + node[a] # freeing.addr
         /\ freeing.addr + node[freeing.addr] \notin ToSet(addr_list)
         /\ Found = 0 => \A i \in 1..Len(addr_list) : addr_list[i] < freeing.addr
         /\ Found # 0 =>
              /\ Found \in 1..Len(addr_list) /\ freeing.addr < addr_list[Found]
              /\ \A i \in 1..Len(addr_list) : i < Found => addr_list[i] < freeing.addr
  <1> DEFINE f == freeing.addr
  <1>0. addr_list \in Seq(Boundaries) /\ f \in FreeAddrs /\ f \notin ToSet(addr_list)
    BY Listed
  <1>1. \A x : x \in ToSet(addr_list) <=> \E i \in 1..Len(addr_list) : x = addr_list[i]
    BY <1>0, Positions
  <1>2. ASSUME NEW a \in ToSet(addr_list)
        PROVE  /\ a \in FreeAddrs /\ a # f /\ a \in Nat /\ node[a] \in Nat \ {0}
               /\ f \in Nat /\ node[f] \in Nat \ {0}
    <2>1. a \in FreeAddrs
      BY Listed
    <2> QED BY <1>0, <2>1, FreeFacts
  <1>3. /\ Found = 0 => \A i \in 1..Len(addr_list) : ~Stop(addr_list[i])
        /\ Found # 0 => /\ Found \in 1..Len(addr_list) /\ Stop(addr_list[Found])
                        /\ \A i \in 1..Len(addr_list) : i < Found => ~Stop(addr_list[i])
    BY <1>0, FoundIs
  <1>4. ASSUME NEW a \in ToSet(addr_list), ~Stop(a) PROVE a < f
    BY <1>2, <1>4 DEF Stop, Past
  <1>5. Found # 0 => f < addr_list[Found]
    <2> SUFFICES ASSUME Found # 0 PROVE f < addr_list[Found]
      OBVIOUS
    <2>1. Past(addr_list[Found])
      BY <1>3 DEF Stop
    <2>2. addr_list[Found] \in ToSet(addr_list)
      BY <1>1, <1>3
    <2> QED BY <1>2, <2>1, <2>2 DEF Past
  <1>6. \A i \in 1..Len(addr_list) : addr_list[i] \in ToSet(addr_list)
    BY <1>1
  <1> HIDE DEF f
  <1>7. ASSUME NEW a \in ToSet(addr_list), a < f PROVE ~Stop(a)
    <2>1. PICK i \in 1..Len(addr_list) : a = addr_list[i]
      BY <1>1
    <2>2. CASE Found = 0
      BY <1>3, <2>1, <2>2
    <2>3. CASE Found # 0
      <3>1. a < addr_list[Found]
        <4>1. addr_list[Found] \in ToSet(addr_list) /\ f < addr_list[Found]
          BY <1>3, <1>5, <1>6, <2>3
        <4> QED BY <1>2, <1>7, <4>1
      <3> QED BY <2>3, <3>1, FoundListed
    <2> QED BY <2>2, <2>3
  <1>8. ASSUME NEW a \in ToSet(addr_list), a + node[a] = f PROVE FALSE
    <2>1. a < f /\ a = f - node[a]
      BY <1>2, <1>8
    <2>2. Stop(a)
      BY <2>1 DEF Stop, Lower, f
    <2> QED BY <1>7, <2>1, <2>2
  <1>9. ASSUME f + node[f] \in ToSet(addr_list) PROVE FALSE
    <2> DEFINE c == f + node[f]
    <2>1. c \in Nat /\ f \in Nat /\ node[f] \in Nat \ {0} /\ node[c] \in Nat \ {0} /\ f < c
      BY <1>2, <1>9
    <2>2. freeing.size = node[f]
      BY <1>9 DEF PmmInv, Frame, f
    <2>3. Higher(c)
      BY <2>2 DEF Higher, f
    <2>4. PICK i \in 1..Len(addr_list) : c = addr_list[i]
      BY <1>1, <1>9
    <2>5. Stop(c)
      BY <2>3 DEF Stop
    <2>6. Found # 0 /\ ~(i < Found) /\ i # Found
      <3>1. Found # 0 /\ ~(i < Found)
        BY <1>3, <2>4, <2>5
      <3>2. i # Found
        BY <2>3, <2>4, <3>1
      <3> QED BY <3>1, <3>2
    <2>7. addr_list[Found] < c
      <3>1. Found < i /\ Found \in 1..Len(addr_list)
        BY <1>3, <2>6
      <3>2. Ascending(addr_list)
        BY Listed
      <3> QED BY <2>4, <3>1, <3>2 DEF Ascending
    <2>8. addr_list[Found] \in ToSet(addr_list) /\ f < addr_list[Found]
      BY <1>3, <1>5, <1>6, <2>6
    <2> DEFINE v == addr_list[Found]
    <2>9. v \in FreeAddrs /\ v # f /\ v \in Nat /\ node[v] \in Nat \ {0} /\ f \in FreeAddrs
      BY <1>0, <1>2, <2>8 DEF f
    <2>10. f + node[f] <= v \/ v + node[v] <= f
      BY <2>9, FreeApart
    <2> HIDE DEF v
    <2>11. f < v /\ v < f + node[f]
      BY <2>7, <2>8 DEF v
    <2> QED BY <2>1, <2>9, <2>10, <2>11
  <1>10. \A i \in 1..Len(addr_list) : ~Stop(addr_list[i]) => addr_list[i] < f
    BY <1>4, <1>6 DEF f
  <1> QED BY <1>3, <1>5, <1>8, <1>9, <1>10 DEF f

(* The last pass puts the block on both lists: the pieces are the same. *)
LEMMA FinishPass ==
  ASSUME PmmInv, FinishFree
  PROVE  PmmInv' /\ FreeBytes' = FreeBytes
  <1> DEFINE f == freeing.addr
             Bigger(c) == node[c] > freeing.size
             k == FirstIndex(size_list, Bigger)
  <1>1. /\ freeing # NoFrame /\ freeing' = NoFrame
        /\ Found # 0 => ~Higher(addr_list[Found]) /\ ~Lower(addr_list[Found])
        /\ addr_list' = InsertBefore(addr_list, Found, f)
        /\ size_list' = InsertBefore(size_list, k, f)
        /\ UNCHANGED <<node, held, null>>
    BY DEF FinishFree
  <1>t. TypeOK /\ addr_list \in Seq(Boundaries) /\ size_list \in Seq(Boundaries)
    BY DEF PmmInv, ListsAgree, TypeOK
  <1>k. k = 0 \/ k \in 1..Len(size_list)
    BY <1>t, SizePlace
  <1> HIDE DEF k
  <1>2. /\ Ascending(addr_list) /\ IsInjective(size_list)
        /\ ToSet(addr_list) = ToSet(size_list)
        /\ f \in FreeAddrs /\ f \notin ToSet(addr_list)
    BY <1>1, Listed
  <1>3. f \in Boundaries /\ FreeAddrs = ToSet(addr_list) \cup {f}
    BY <1>1, <1>2, FreeFacts DEF FreeAddrs
  <1>n. /\ \A a \in ToSet(addr_list) : a + node[a] # f
        /\ f + node[f] \notin ToSet(addr_list)
        /\ Found = 0 => \A i \in 1..Len(addr_list) : addr_list[i] < f
        /\ Found # 0 =>
             /\ Found \in 1..Len(addr_list) /\ f < addr_list[Found]
             /\ \A i \in 1..Len(addr_list) : i < Found => addr_list[i] < f
    BY <1>1, NoNeighbour
  <1> HIDE DEF f
  <1>4. addr_list' \in Seq(Boundaries) /\ ToSet(addr_list') = ToSet(addr_list) \cup {f}
    BY <1>1, <1>t, <1>3, <1>n, InsertedOnce
  <1>5. Ascending(addr_list')
    BY <1>1, <1>t, <1>2, <1>3, <1>n, InsertedAscending
  <1>6. /\ size_list' \in Seq(Boundaries) /\ ToSet(size_list') = ToSet(size_list) \cup {f}
        /\ IsInjective(size_list')
    BY <1>1, <1>t, <1>k, <1>2, <1>3, InsertedOnce
  <1>7. FreeAddrs' = FreeAddrs
    BY <1>1, <1>3, <1>4 DEF FreeAddrs
  <1>8. Tiling(Pieces)'
    <2>1. Pieces' = Pieces
      BY <1>1, <1>7 DEF Pieces, FreePiece, HeldPiece
    <2> QED BY <2>1 DEF PmmInv, Tiling
  <1>9. ListsAgree'
    <2>1. TypeOK'
      BY <1>1, <1>t, <1>4, <1>6 DEF TypeOK
    <2>2. DOMAIN addr_list' = 1..Len(addr_list')
      BY <1>4
    <2> QED BY <1>1, <1>2, <1>4, <1>5, <1>6, <2>1, <2>2 DEF ListsAgree, Ascending
  <1>10. Apart'
    <2>1. ASSUME NEW a \in FreeAddrs, NEW c \in FreeAddrs, a + node[a] = c PROVE FALSE
      <3>1. f + node[f] # f
        BY <1>2, FreeFacts DEF f
      <3> QED BY <1>3, <1>n, <2>1, <3>1 DEF PmmInv, Apart
    <2>2. ToSet(addr_list') = FreeAddrs
      BY <1>3, <1>4
    <2> QED BY <1>1, <2>1, <2>2 DEF Apart
  <1>11. Frame' /\ HeldSizes'
    BY <1>1 DEF PmmInv, Frame, HeldSizes
  <1>12. FreeBytes' = FreeBytes
    <2>1. \A x : x \in FreeBytes' <=> x \in FreeBytes
      BY <1>1, <1>7, FreeBytesAre
    <2> QED BY <2>1
  <1> QED BY <1>8, <1>9, <1>10, <1>11, <1>12 DEF PmmInv

-----------------------------------------------------------------------------
(* pmm_alloc. *)
LEMMA FitListed ==
  ASSUME PmmInv, NEW n, Fit(n) # 0
  PROVE  /\ size_list[Fit(n)] \in ToSet(addr_list)
         /\ node[size_list[Fit(n)]] >= RoundUp(n)
  <1>1. size_list \in Seq(Boundaries) /\ ToSet(addr_list) = ToSet(size_list)
    BY Listed
  <1>2. Fit(n) \in 1..Len(size_list) /\ node[size_list[Fit(n)]] >= RoundUp(n)
    BY <1>1, FitIs
  <1>3. size_list[Fit(n)] \in ToSet(size_list)
    BY <1>1, <1>2, Positions
  <1> QED BY <1>1, <1>2, <1>3

(* The block found is cut at the rounded size, unless it is all needed.    *)
LEMMA AllocTakes ==
  ASSUME PmmInv, NEW n \in 0..MaxUint, RoundUp(n) # 0, pmm_alloc(n), Fit(n) # 0
  PROVE  LET c == size_list[Fit(n)]
             run == c..(c + RoundUp(n) - 1)
         IN  /\ PmmInv'
             /\ c \in Boundaries /\ run \subseteq FreeBytes /\ FreeBytes' = FreeBytes \ run
             /\ held' = held \cup {[addr |-> c, size |-> n]} /\ null' = FALSE
  <1> DEFINE c == size_list[Fit(n)]
             R == RoundUp(n)
             b == [addr |-> c, size |-> n]
             g == c + R
             rem == node[c] - R
  <1>r. R \in Nat \ {0} /\ R <= MaxUint /\ Aligned(R)
    BY Rounding
  <1>1. /\ freeing = NoFrame /\ Unlink(c) /\ null' = FALSE /\ held' = held \cup {b}
        /\ node[c] > R => /\ freeing' = [addr |-> g, size |-> RoundUp(rem)]
                          /\ node' = [node EXCEPT ![g] = RoundUp(rem)]
        /\ ~(node[c] > R) => UNCHANGED <<freeing, node>>
    BY DEF pmm_alloc, StartFree
  <1>2. c \in ToSet(addr_list) /\ node[c] >= R
    BY FitListed
  <1>b. b.addr = c /\ b.size = n
    OBVIOUS
  <1>t. /\ node \in [Boundaries -> 0..MaxUint] /\ freeing = NoFrame
        /\ held \subseteq [addr : Boundaries, size : 0..MaxUint]
    BY <1>1 DEF PmmInv, ListsAgree, TypeOK
  <1>3. c \in FreeAddrs /\ FreeAddrs = ToSet(addr_list)
    BY <1>1, <1>2 DEF FreeAddrs
  <1>f. /\ c \in Nat /\ node[c] \in Nat \ {0} /\ c \in Boundaries
        /\ Aligned(c) /\ Aligned(node[c]) /\ node[c] <= MaxUint
        /\ Whole(FreePiece(c)) /\ FreePiece(c).addr = c /\ FreePiece(c).size = node[c]
        /\ Bytes(FreePiece(c)) \subseteq RAM
    BY <1>3, FreeFacts
  <1>u. /\ addr_list' \in Seq(Boundaries) /\ size_list' \in Seq(Boundaries)
        /\ Ascending(addr_list') /\ IsInjective(size_list')
        /\ ToSet(addr_list') = ToSet(addr_list) \ {c}
        /\ ToSet(size_list') = ToSet(size_list) \ {c}
    BY <1>1, UnlinkLists DEF PmmInv
  <1>p. HeldPiece(b) = [addr |-> c, size |-> R, req |-> n]
    BY <1>b DEF HeldPiece
  <1> HIDE DEF c, R, b
  <1>h. b \in [addr : Boundaries, size : 0..MaxUint]
    BY <1>f DEF b
  <1>s. HeldSizes'
    BY <1>1, <1>b DEF PmmInv, HeldSizes
  <1>l. ToSet(addr_list') = ToSet(size_list') /\ DOMAIN addr_list' = 1..Len(addr_list')
    BY <1>u, Listed
  <1>o. \A a \in FreeAddrs : a \in Boundaries /\ a \in Nat /\ node[a] \in Nat \ {0}
    BY FreeFacts
  <1>a. \A a \in FreeAddrs : a # c => a + node[a] <= c \/ c + node[c] <= a
    BY <1>3, FreeApart
  <1>i. \A x \in c..(c + R - 1) : x \in FreeBytes
    <2>1. \A x \in c..(c + R - 1) : x \in c..(c + node[c] - 1)
      BY <1>r, <1>2, <1>f
    <2> QED BY <1>3, <2>1, FreeBytesAre
  <1>4. CASE ~(node[c] > R)
    <2>1. node[c] = R /\ freeing' = NoFrame /\ node' = node
      BY <1>1, <1>2, <1>4, <1>f, <1>r
    <2>2. FreeAddrs' = FreeAddrs \ {c}
      BY <1>3, <1>u, <2>1 DEF FreeAddrs
    <2>3. Tiling(Pieces)'
      <3>1. Change({c}, {}, {}, {b})
        BY <1>1, <1>3, <2>1, <2>2 DEF Change
      <3>2. Gone({c}, {}) = {FreePiece(c)} /\ Come(node', {}, {b}) = {HeldPiece(b)}
        BY DEF Gone, Come
      <3>3. HeldPiece(b).addr = c /\ HeldPiece(b).size = R
        BY <1>p
      <3>4. Bytes(HeldPiece(b)) = Bytes(FreePiece(c))
        BY <1>f, <2>1, <3>3 DEF Bytes
      <3>5. Whole(HeldPiece(b))
        BY <1>f, <2>1, <3>3, <3>4 DEF Whole
      <3>6. Covers({HeldPiece(b)}, {FreePiece(c)})
        BY <3>4, <3>5 DEF Covers
      <3> QED BY <3>1, <3>2, <3>6, TileStep
    <2>4. ListsAgree'
      <3>1. TypeOK'
        BY <1>1, <1>t, <1>u, <1>h, <2>1 DEF TypeOK
      <3> QED BY <1>u, <1>l, <2>1, <3>1 DEF ListsAgree, Ascending
    <2>5. Apart' /\ Frame'
      BY <1>u, <2>1 DEF PmmInv, Apart, Frame
    <2>6. FreeBytes' = FreeBytes \ c..(c + R - 1)
      <3>1. \A x : x \in FreeBytes' <=> \E a \in FreeAddrs : a # c /\ x \in a..(a + node[a] - 1)
        BY <2>1, <2>2, FreeBytesAre
      <3>2. ASSUME NEW a \in FreeAddrs, a # c, NEW x \in a..(a + node[a] - 1)
            PROVE  x \notin c..(c + R - 1)
        BY <1>a, <1>f, <1>o, <2>1, <3>2
      <3>3. \A x : x \in FreeBytes' <=> x \in FreeBytes /\ x \notin c..(c + R - 1)
        BY <2>1, <3>1, <3>2, FreeBytesAre
      <3> QED BY <3>3
    <2>7. PmmInv'
      BY <1>s, <2>3, <2>4, <2>5 DEF PmmInv
    <2> QED BY <1>1, <1>f, <1>i, <2>6, <2>7 DEF c, R, b
  <1>5. CASE node[c] > R
    <2>r. rem \in Nat \ {0} /\ rem <= MaxUint /\ Aligned(rem) /\ g \in Nat /\ Aligned(g)
      <3>1. Aligned(rem)
        BY <1>r, <1>2, <1>f, AlignedSum
      <3>2. Aligned(g)
        BY <1>r, <1>f, AlignedSum
      <3> QED BY <1>r, <1>5, <1>f, <3>1, <3>2, Constants
    <2>g. g \in Boundaries /\ g \notin FreeAddrs
      <3>1. g \in Bytes(FreePiece(c))
        BY <1>r, <1>5, <1>f, ByteIn
      <3>2. g \in RAM
        BY <1>f, <3>1
      <3>3. g \notin FreeAddrs
        BY <1>r, <1>5, <1>f, <1>a, <1>o
      <3> QED BY <2>r, <3>2, <3>3 DEF Boundaries, Aligned
    <2>e. c + node[c] = g + rem /\ g # c /\ g > c
      BY <1>r, <1>f
    <2>d. g = c + R /\ rem = node[c] - R
      OBVIOUS
    <2> HIDE DEF g, rem
    <2>1. freeing' = [addr |-> g, size |-> rem] /\ node' = [node EXCEPT ![g] = rem]
      BY <1>1, <1>5, <2>r, RoundedAlready
    <2>n. freeing' # NoFrame /\ freeing'.addr = g /\ freeing'.size = rem
      BY <2>r, <2>1, FrameRecord
    <2>2. FreeAddrs' = (FreeAddrs \ {c}) \cup {g}
      BY <1>3, <1>u, <2>n DEF FreeAddrs
    <2>3. node'[g] = rem /\ \A a \in FreeAddrs : node'[a] = node[a]
      BY <1>t, <1>o, <2>g, <2>1
    <2>4. Tiling(Pieces)'
      <3> DEFINE q == [addr |-> g, size |-> rem, req |-> 0]
      <3>1. Change({c}, {g}, {}, {b})
        BY <1>1, <1>3, <2>2, <2>3 DEF Change
      <3>2. Gone({c}, {}) = {FreePiece(c)}
        BY DEF Gone
      <3>3. Come(node', {g}, {b}) = {HeldPiece(b), q}
        BY <2>3 DEF Come
      <3>4. HeldPiece(b).addr = c /\ HeldPiece(b).size = R /\ q.addr = g /\ q.size = rem
        BY <1>p
      <3> HIDE DEF q
      <3>5. Covers({HeldPiece(b), q}, {FreePiece(c)})
        BY <1>r, <1>5, <1>f, <2>d, <3>4, Cut
      <3> QED BY <3>1, <3>2, <3>3, <3>5, TileStep
    <2>5. ListsAgree'
      <3>1. node' \in [Boundaries -> 0..MaxUint]
        <4>1. rem \in 0..MaxUint
          BY <2>r, Constants
        <4> QED BY <1>t, <2>1, <4>1
      <3>2. freeing' \in [addr : Boundaries, size : 0..MaxUint]
        BY <2>r, <2>g, <2>1, Constants
      <3>3. TypeOK'
        BY <1>1, <1>t, <1>u, <1>h, <3>1, <3>2 DEF TypeOK
      <3>4. g \notin ToSet(addr_list')
        BY <1>3, <1>u, <2>g
      <3> QED BY <1>u, <1>l, <2>n, <3>3, <3>4 DEF ListsAgree, Ascending
    <2>6. Apart'
      <3>1. ASSUME NEW a \in ToSet(addr_list') PROVE a + node'[a] \notin ToSet(addr_list')
        <4>1. a \in ToSet(addr_list) /\ node'[a] = node[a]
          BY <1>3, <1>u, <2>3
        <4> QED BY <1>u, <4>1 DEF PmmInv, Apart
      <3> QED BY <3>1 DEF Apart
    <2>7. Frame'
      BY <2>r, <2>n, <2>3 DEF Frame
    <2>8. FreeBytes' = FreeBytes \ c..(c + R - 1)
      <3>1. \A x : x \in FreeBytes' <=> \/ x \in g..(g + rem - 1)
                                        \/ \E a \in FreeAddrs : a # c /\ x \in a..(a + node[a] - 1)
        <4>1. \A x : x \in FreeBytes' <=> \E a \in FreeAddrs' : x \in a..(a + node'[a] - 1)
          BY FreeBytesAre
        <4> QED BY <2>2, <2>3, <4>1
      <3>2. ASSUME NEW a \in FreeAddrs, a # c, NEW x \in a..(a + node[a] - 1)
            PROVE  x \notin c..(c + R - 1)
        BY <1>a, <1>f, <1>o, <1>r, <1>5, <3>2
      <3>3. \A x : x \in g..(g + rem - 1) <=> x \in c..(c + node[c] - 1) /\ x \notin c..(c + R - 1)
        BY <1>f, <1>r, <1>5, <2>d
      <3>4. \A x : x \in FreeBytes <=> \/ x \in c..(c + node[c] - 1)
                                       \/ \E a \in FreeAddrs : a # c /\ x \in a..(a + node[a] - 1)
        BY <1>3, FreeBytesAre
      <3>5. \A x : x \in FreeBytes' <=> x \in FreeBytes /\ x \notin c..(c + R - 1)
        BY <3>1, <3>2, <3>3, <3>4
      <3> QED BY <3>5
    <2>9. PmmInv'
      BY <1>s, <2>4, <2>5, <2>6, <2>7 DEF PmmInv
    <2> QED BY <1>1, <1>f, <1>i, <2>8, <2>9 DEF c, R, b
  <1> QED BY <1>4, <1>5

(* pmm_alloc gives up only when there is no run of free bytes: a run that  *)
(* is too long for the block it starts in would go on into the next one,   *)
(* but no two free blocks are neighbours.                                  *)
LEMMA FailsForLack ==
  ASSUME PmmInv, freeing = NoFrame, NEW n \in 0..MaxUint, RoundUp(n) # 0, Fit(n) = 0,
         NEW a \in Nat
  PROVE  ~(a..(a + RoundUp(n) - 1) \subseteq FreeBytes)
  <1> DEFINE R == RoundUp(n)
  <1>r. R \in Nat \ {0}
    BY Rounding
  <1> SUFFICES ASSUME a..(a + R - 1) \subseteq FreeBytes PROVE FALSE
    OBVIOUS
  <1> HIDE DEF R
  <1>1. /\ size_list \in Seq(Boundaries) /\ ToSet(addr_list) = ToSet(size_list)
        /\ FreeAddrs = ToSet(addr_list)
    BY Listed DEF FreeAddrs
  <1>2. ASSUME NEW c \in FreeAddrs PROVE ~(node[c] >= R)
    <2>1. PICK i \in 1..Len(size_list) : c = size_list[i]
      BY <1>1, Positions
    <2> QED BY <1>1, <2>1, FitIs DEF R
  <1>3. a \in FreeBytes
    BY <1>r
  <1>4. PICK c \in FreeAddrs : a \in c..(c + node[c] - 1)
    BY <1>3, FreeBytesAre
  <1>5. c \in Nat /\ node[c] \in Nat \ {0} /\ node[c] < R
    BY <1>r, <1>2, FreeFacts
  <1>6. c + node[c] \in FreeBytes
    <2>1. c + node[c] \in a..(a + R - 1)
      BY <1>r, <1>4, <1>5
    <2> QED BY <2>1
  <1>7. PICK d \in FreeAddrs : c + node[c] \in d..(d + node[d] - 1)
    BY <1>6, FreeBytesAre
  <1>8. d \in Nat /\ node[d] \in Nat \ {0} /\ d # c
    <2>1. d \in Nat /\ node[d] \in Nat \ {0}
      BY FreeFacts
    <2> QED BY <1>5, <1>7, <2>1
  <1>9. c + node[c] <= d \/ d + node[d] <= c
    BY <1>8, FreeApart
  <1>10. d = c + node[c]
    BY <1>5, <1>7, <1>8, <1>9
  <1> QED BY <1>1, <1>10 DEF PmmInv, Apart

-----------------------------------------------------------------------------
(* The invariant holds throughout. *)
LEMMA AtStart ==
  ASSUME Init
  PROVE  PmmInv
  <1>1. /\ addr_list = <<>> /\ size_list = <<>> /\ freeing = NoFrame /\ held = Regions
        /\ node = [a \in Boundaries |-> 0] /\ null = FALSE
    BY DEF Init
  <1>2. ASSUME NEW r \in Regions
        PROVE  /\ r.addr \in Nat /\ r.size \in Nat \ {0} /\ RoundUp(r.size) = r.size
               /\ Aligned(r.addr) /\ Aligned(r.size) /\ r.addr + r.size <= MaxUint
               /\ r.size \in 0..MaxUint /\ Bytes(r) \subseteq RAM
    <2>1. /\ r.addr \in Nat \ {0} /\ r.size \in Nat \ {0}
          /\ Aligned(r.addr) /\ Aligned(r.size) /\ r.addr + r.size <= MaxUint
      BY RegionsAssumption DEF Aligned
    <2>2. RoundUp(r.size) = r.size
      BY <2>1, RoundedAlready
    <2>3. Bytes(r) \subseteq RAM
      BY DEF RAM
    <2>4. r.size \in 0..MaxUint
      BY <2>1, Constants
    <2> QED BY <2>1, <2>2, <2>3, <2>4
  <1>3. ASSUME NEW r \in Regions
        PROVE  /\ HeldPiece(r).addr = r.addr /\ HeldPiece(r).size = r.size
               /\ Bytes(HeldPiece(r)) = Bytes(r) /\ Whole(HeldPiece(r))
    <2>1. HeldPiece(r).addr = r.addr /\ HeldPiece(r).size = r.size
      BY <1>2 DEF HeldPiece
    <2>2. Bytes(HeldPiece(r)) = Bytes(r)
      BY <2>1 DEF Bytes
    <2> QED BY <1>2, <2>1, <2>2 DEF Whole
  <1>4. ToSet(addr_list) = {} /\ ToSet(size_list) = {}
    BY <1>1 DEF ToSet
  <1>5. FreeAddrs = {} /\ Pieces = {HeldPiece(r) : r \in Regions}
    BY <1>1, <1>4 DEF FreeAddrs, Pieces
  <1>6. Tiling(Pieces)
    <2>1. \A p \in Pieces : Whole(p)
      BY <1>3, <1>5
    <2>2. ASSUME NEW p \in Pieces, NEW q \in Pieces, p # q PROVE Bytes(p) \cap Bytes(q) = {}
      <3>1. PICK r \in Regions : p = HeldPiece(r)
        BY <1>5
      <3>2. PICK s \in Regions : q = HeldPiece(s)
        BY <1>5
      <3>3. r # s
        BY <2>2, <3>1, <3>2
      <3>4. Bytes(r) \cap Bytes(s) = {}
        BY <3>3, RegionsAssumption
      <3> QED BY <1>3, <3>1, <3>2, <3>4
    <2>3. ASSUME NEW x \in RAM PROVE \E p \in Pieces : x \in Bytes(p)
      <3>1. PICK r \in Regions : x \in Bytes(r)
        BY DEF RAM
      <3> QED BY <1>3, <1>5, <3>1
    <2> QED BY <2>1, <2>2, <2>3 DEF Tiling
  <1>7. ListsAgree
    <2>1. held \subseteq [addr : Boundaries, size : 0..MaxUint]
      <3>1. ASSUME NEW r \in Regions PROVE r \in [addr : Boundaries, size : 0..MaxUint]
        <4>1. r.addr \in Boundaries
          BY <1>3, WholeBounds
        <4>2. r \in [addr : Nat, size : Nat]
          BY RegionsAssumption
        <4> QED BY <1>2, <4>1, <4>2
      <3> QED BY <1>1, <3>1
    <2>2. TypeOK
      <3>1. 0 \in 0..MaxUint /\ <<>> \in Seq(Boundaries)
        BY Constants
      <3>2. node \in [Boundaries -> 0..MaxUint]
        BY <1>1, <3>1
      <3> QED BY <1>1, <2>1, <3>1, <3>2 DEF TypeOK
    <2>3. IsInjective(size_list)
      BY <1>1 DEF IsInjective
    <2> QED BY <1>1, <1>4, <2>2, <2>3 DEF ListsAgree
  <1>8. Apart /\ Frame
    BY <1>1, <1>4 DEF Apart, Frame
  <1>9. HeldSizes
    BY <1>1, <1>2 DEF HeldSizes
  <1> QED BY <1>6, <1>7, <1>8, <1>9 DEF PmmInv

LEMMA Unmoved ==
  ASSUME PmmInv, UNCHANGED <<addr_list, size_list, node, freeing, held>>, null' \in BOOLEAN
  PROVE  PmmInv' /\ FreeBytes' = FreeBytes
  <1>1. FreeAddrs' = FreeAddrs
    BY DEF FreeAddrs
  <1>2. Pieces' = Pieces
    BY <1>1 DEF Pieces, FreePiece, HeldPiece
  <1>3. Tiling(Pieces)'
    BY <1>2 DEF PmmInv, Tiling
  <1>4. ListsAgree'
    BY DEF PmmInv, ListsAgree, TypeOK
  <1>5. Apart' /\ Frame' /\ HeldSizes'
    BY DEF PmmInv, Apart, Frame, HeldSizes
  <1>6. FreeBytes' = FreeBytes
    <2>1. \A x : x \in FreeBytes' <=> x \in FreeBytes
      BY <1>1, FreeBytesAre
    <2> QED BY <2>1
  <1> QED BY <1>3, <1>4, <1>5, <1>6 DEF PmmInv

LEMMA EveryStep ==
  ASSUME Sensible, PmmInv, [Next]_vars
  PROVE  PmmInv'
  <1>1. ASSUME NEW b \in held, pmm_free(b) PROVE PmmInv'
    BY <1>1, FreeStarts
  <1>2. ASSUME NEW n \in Requests, pmm_alloc(n) PROVE PmmInv'
    <2>1. n \in 0..MaxUint /\ RoundUp(n) # 0
      BY Constants DEF Sensible
    <2>2. CASE Fit(n) # 0
      BY <1>2, <2>1, <2>2, AllocTakes
    <2>3. CASE Fit(n) = 0
      <3>1. UNCHANGED <<addr_list, size_list, node, freeing, held>> /\ null' = TRUE
        BY <1>2, <2>3 DEF pmm_alloc
      <3> QED BY <3>1, Unmoved
    <2> QED BY <2>2, <2>3
  <1>3. ASSUME FreePass PROVE PmmInv'
    BY <1>3, HigherPass, LowerPass, FinishPass DEF FreePass
  <1>4. ASSUME UNCHANGED vars PROVE PmmInv'
    <2>1. null \in BOOLEAN
      BY DEF PmmInv, ListsAgree, TypeOK
    <2> QED BY <1>4, <2>1, Unmoved DEF vars
  <1> QED BY <1>1, <1>2, <1>3, <1>4 DEF Next

(* Every tiling is a partition. *)
LEMMA TiledOnce ==
  ASSUME PmmInv
  PROVE  Partition
  <1> SUFFICES ASSUME NEW x \in RAM
               PROVE  Cardinality({b \in FreeBlocks \cup InFlight : x \in Bytes(b)})
                        + Cardinality({b \in held : x \in Owned(b)}) = 1
    BY DEF Partition
  <1> DEFINE Block(a) == [addr |-> a, size |-> node[a]]
             Blocks == {b \in FreeBlocks \cup InFlight : x \in Bytes(b)}
             Owners == {b \in held : x \in Owned(b)}
  <1>1. PICK p \in Pieces : x \in Bytes(p)
    BY DEF PmmInv, Tiling
  <1>2. \A q \in Pieces : x \in Bytes(q) => q = p
    BY <1>1 DEF PmmInv, Tiling
  <1>3. ASSUME NEW a PROVE Bytes(Block(a)) = Bytes(FreePiece(a))
    BY DEF Bytes, FreePiece
  <1>4. ASSUME NEW b \in held PROVE Owned(b) = Bytes(HeldPiece(b))
    <2>1. b.size \in 0..MaxUint /\ RoundUp(b.size) # 0
      BY HeldFacts DEF PmmInv, HeldSizes
    <2>2. Unit * ((b.size + Unit - 1) \div Unit) = RoundUp(b.size)
      BY <2>1, Rounding
    <2> QED BY <2>2 DEF Owned, Bytes, HeldPiece
  <1>5. FreeBlocks \cup InFlight = {Block(a) : a \in FreeAddrs}
    BY FreeBlocksAre
  <1> HIDE DEF Block
  <1>6. \A y : y \in Blocks <=> \E a \in FreeAddrs : y = Block(a) /\ FreePiece(a) = p
    <2>1. \A a \in FreeAddrs : x \in Bytes(Block(a)) <=> FreePiece(a) = p
      BY <1>1, <1>2, <1>3, FreeFacts
    <2> QED BY <1>5, <2>1
  <1>7. \A y : y \in Owners <=> y \in held /\ HeldPiece(y) = p
    BY <1>1, <1>2, <1>4, HeldFacts
  <1> HIDE DEF Blocks, Owners
  <1>8. CASE \E a \in FreeAddrs : p = FreePiece(a)
    <2>1. PICK a \in FreeAddrs : p = FreePiece(a)
      BY <1>8
    <2>2. ASSUME NEW c \in FreeAddrs, FreePiece(c) = p PROVE c = a
      BY <2>1, <2>2 DEF FreePiece
    <2>3. Blocks = {Block(a)}
      BY <1>6, <2>1, <2>2
    <2>4. Owners = {}
      BY <1>7, <2>1, HeldFacts
    <2>5. Cardinality(Blocks) = 1 /\ Cardinality(Owners) = 0
      BY <2>3, <2>4, FS_Singleton, FS_EmptySet
    <2> QED BY <2>5 DEF Blocks, Owners
  <1>9. CASE \E b \in held : p = HeldPiece(b)
    <2>1. PICK b \in held : p = HeldPiece(b)
      BY <1>9
    <2>2. ASSUME NEW c \in held, HeldPiece(c) = p PROVE c = b
      <3>1. c.addr = b.addr /\ c.size = b.size
        BY <2>1, <2>2 DEF HeldPiece
      <3>2. /\ b \in [addr : Boundaries, size : 0..MaxUint]
            /\ c \in [addr : Boundaries, size : 0..MaxUint]
        BY DEF PmmInv, ListsAgree, TypeOK
      <3> QED BY <3>1, <3>2
    <2>3. Owners = {b}
      BY <1>7, <2>1, <2>2
    <2>4. Blocks = {}
      BY <1>6, <2>1, HeldFacts
    <2>5. Cardinality(Owners) = 1 /\ Cardinality(Blocks) = 0
      BY <2>3, <2>4, FS_Singleton, FS_EmptySet
    <2> QED BY <2>5 DEF Blocks, Owners
  <1> QED BY <1>8, <1>9 DEF Pieces

(* pmm.c, "it manages free memory as two sorted lists": whatever is freed  *)
(* and allocated, the address list ascends and both lists hold the same    *)
(* blocks, each once.                                                      *)
THEOREM ListsKept ==
  ASSUME Sensible
  PROVE  Spec => []ListsAgree
  <1>1. Init => PmmInv
    BY AtStart
  <1>2. PmmInv /\ [Next]_vars => PmmInv'
    BY EveryStep
  <1>3. PmmInv => ListsAgree
    BY DEF PmmInv
  <1> QED BY <1>1, <1>2, <1>3, PTL DEF Spec

(* No sequence of pmm_alloc and pmm_free leaks a byte of RAM or hands it   *)
(* out twice, between calls and between the passes of pmm_free.            *)
THEOREM MemoryPartitioned ==
  ASSUME Sensible
  PROVE  Spec => []Partition
  <1>1. Init => PmmInv
    BY AtStart
  <1>2. PmmInv /\ [Next]_vars => PmmInv'
    BY EveryStep
  <1>3. PmmInv => Partition
    BY TiledOnce
  <1> QED BY <1>1, <1>2, <1>3, PTL DEF Spec

(* When pmm_free has returned, no two free blocks are neighbours, although *)
(* the loop compares with a size that it does not keep up to date.         *)
THEOREM NothingLeftToMerge ==
  ASSUME Sensible
  PROVE  Spec => []Coalesced
  <1>1. Init => PmmInv
    BY AtStart
  <1>2. PmmInv /\ [Next]_vars => PmmInv'
    BY EveryStep
  <1>3. PmmInv => Coalesced
    BY DEF PmmInv, Apart, Coalesced
  <1> QED BY <1>1, <1>2, <1>3, PTL DEF Spec

-----------------------------------------------------------------------------
(* The promise of pmm.h. *)
LEMMA AbsTerms ==
  /\ Abs!Addresses = RAM
  /\ \A a, n : Abs!Run(a, n) = a..(a + Abs!Units(n) - 1)
  <1>1. Abs!Addresses = RAM
    BY DEF Abs!Addresses, RAM, Bytes
  <1> QED BY <1>1 DEF Abs!Run

LEMMA AbsInit ==
  ASSUME Init
  PROVE  Abs!Init
  <1>1. freeing = NoFrame /\ addr_list = <<>> /\ held = Regions /\ null = FALSE
    BY DEF Init
  <1>2. FreeAddrs = {}
    BY <1>1 DEF FreeAddrs, ToSet
  <1>3. FreeBytes = {}
    <2>1. \A x : x \notin FreeBytes
      BY <1>2, FreeBytesAre
    <2> QED BY <2>1
  <1> QED BY <1>1, <1>3 DEF Abs!Init

LEMMA AbsStep ==
  ASSUME Sensible, PmmInv, [Next]_vars
  PROVE  [Abs!Next]_<<FreeBytes, held, null>>
  <1>1. ASSUME NEW b \in held, pmm_free(b) PROVE Abs!Next
    <2>1. FreeBytes' = FreeBytes \cup b.addr..(b.addr + RoundUp(b.size) - 1)
      BY <1>1, FreeStarts
    <2>2. b.size \in 0..MaxUint /\ RoundUp(b.size) # 0
      BY HeldFacts DEF PmmInv, HeldSizes
    <2>3. Abs!Units(b.size) = RoundUp(b.size)
      BY <2>2, Rounding
    <2>4. FreeBytes' = FreeBytes \cup Abs!Run(b.addr, b.size)
      BY <2>1, <2>3, AbsTerms
    <2>5. held' = held \ {b} /\ null' = null
      BY <1>1 DEF pmm_free
    <2>6. Abs!Free(b)
      BY <2>4, <2>5 DEF Abs!Free
    <2> QED BY <2>6 DEF Abs!Next
  <1>2. ASSUME NEW n \in Requests, pmm_alloc(n) PROVE Abs!Next
    <2>1. n \in 0..MaxUint /\ RoundUp(n) # 0
      BY Constants DEF Sensible
    <2>u. Abs!Units(n) = RoundUp(n)
      BY <2>1, Rounding
    <2>2. CASE Fit(n) # 0
      <3> DEFINE c == size_list[Fit(n)]
      <3>1. /\ c \in Boundaries /\ c..(c + RoundUp(n) - 1) \subseteq FreeBytes
            /\ FreeBytes' = FreeBytes \ c..(c + RoundUp(n) - 1)
            /\ held' = held \cup {[addr |-> c, size |-> n]} /\ null' = FALSE
        BY <1>2, <2>1, <2>2, AllocTakes
      <3> HIDE DEF c
      <3>2. c \in RAM /\ c % Unit = 0
        BY <3>1 DEF Boundaries
      <3>3. Abs!Run(c, n) = c..(c + RoundUp(n) - 1)
        BY <2>u, AbsTerms
      <3>4. Abs!Alloc(n, c)
        BY <3>1, <3>2, <3>3 DEF Abs!Alloc
      <3> QED BY <3>2, <3>4, AbsTerms DEF Abs!Next
    <2>3. CASE Fit(n) = 0
      <3>1. /\ UNCHANGED <<addr_list, size_list, node, freeing, held>> /\ null' = TRUE
            /\ freeing = NoFrame
        BY <1>2, <2>3 DEF pmm_alloc
      <3>2. FreeBytes' = FreeBytes
        BY <3>1, Unmoved
      <3>3. ASSUME NEW a \in Abs!Addresses PROVE ~(Abs!Run(a, n) \subseteq FreeBytes)
        <4>1. a \in Nat
          BY AbsTerms, RamBounds
        <4>2. ~(a..(a + RoundUp(n) - 1) \subseteq FreeBytes)
          BY <2>1, <2>3, <3>1, <4>1, FailsForLack
        <4> QED BY <2>u, <4>2, AbsTerms
      <3>4. Abs!AllocFails(n)
        BY <3>1, <3>2, <3>3 DEF Abs!AllocFails
      <3> QED BY <3>4 DEF Abs!Next
    <2> QED BY <2>2, <2>3
  <1>3. ASSUME FreePass PROVE UNCHANGED <<FreeBytes, held, null>>
    <2>1. FreeBytes' = FreeBytes
      BY <1>3, HigherPass, LowerPass, FinishPass DEF FreePass
    <2>2. UNCHANGED <<held, null>>
      BY <1>3 DEF FreePass, CoalesceHigher, CoalesceLower, FinishFree
    <2> QED BY <2>1, <2>2
  <1>4. ASSUME UNCHANGED vars PROVE UNCHANGED <<FreeBytes, held, null>>
    <2>1. null' \in BOOLEAN
      BY <1>4 DEF vars, PmmInv, ListsAgree, TypeOK
    <2>2. FreeBytes' = FreeBytes
      BY <1>4, <2>1, Unmoved DEF vars
    <2> QED BY <1>4, <2>2 DEF vars
  <1> QED BY <1>1, <1>2, <1>3, <1>4 DEF Next

(* pmm_alloc and pmm_free implement the pool of bytes of pmm.h: a call     *)
(* takes or returns whole units in one step, whatever the passes of its    *)
(* loop, and an allocation fails only when no run of free bytes is long    *)
(* enough.                                                                 *)
THEOREM PoolImplemented ==
  ASSUME Sensible
  PROVE  Spec => ImplementsAbs
  <1>1. Init => PmmInv /\ Abs!Init
    BY AtStart, AbsInit
  <1>2. PmmInv /\ [Next]_vars => PmmInv' /\ [Abs!Next]_<<FreeBytes, held, null>>
    BY EveryStep, AbsStep
  <1> QED BY <1>1, <1>2, PTL DEF Spec, ImplementsAbs, Abs!Spec, Abs!avars
=============================================================================
