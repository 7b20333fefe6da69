---------------------------- MODULE XansitermProofs ----------------------------
(***************************************************************************)
(* Proofs about the Xosera console, for every set of text modes and every  *)
(* sequence of characters: the types (each of the driver's 16 bit words    *)
(* stays one), the bounds of csi_parms, the input cursor that never stays  *)
(* in the text, the wrap that is due at the left margin only, and the      *)
(* places where the drawing address can go astray.                         *)
(***************************************************************************)
EXTENDS Xansiterm, TLAPS

Cursors == [x : Words, y : Words, lcf : BOOLEAN, addr : Words]
Screens == [cols : Sizes, rows : Sizes]
(* A wrap is due at the left margin only. *)
AtMargin(c) == c.lcf => c.x = 0

(* Cursors with some fields changed. *)
WithX(c, v) == [c EXCEPT !.x = v]
WithY(c, v) == [c EXCEPT !.y = v]
WithXAddr(c, v, a) == [c EXCEPT !.x = v, !.addr = a]
WithYAddr(c, v, a) == [c EXCEPT !.y = v, !.addr = a]
WithXY(c, v, w) == [c EXCEPT !.x = v, !.y = w]
ClearedX(c, v) == [c EXCEPT !.lcf = FALSE, !.x = v]
ClearedXY(c, v, w) == [c EXCEPT !.lcf = FALSE, !.x = v, !.y = w]
ClearedYAddr(c, v, a) == [c EXCEPT !.lcf = FALSE, !.y = v, !.addr = a]

-----------------------------------------------------------------------------
LEMMA WNat == W \in Nat /\ W > 1
BY DEF W

LEMMA U16Word ==
  ASSUME NEW n \in Int
  PROVE  U16(n) \in Words
BY WNat DEF U16, Words

LEMMA U16Arith ==
  ASSUME NEW m \in Words, NEW n \in Words
  PROVE  /\ U16(m + n) \in Words /\ U16(m - n) \in Words
         /\ U16(m + 1) \in Words /\ U16(m - 1) \in Words
<1>1. m \in Int /\ n \in Int
  BY WNat DEF Words
<1> QED BY <1>1, U16Word

LEMMA WordsInt == Words \subseteq Int /\ Sizes \subseteq Words /\ 0 \in Words
BY WNat DEF Words, Sizes

LEMMA Least3 ==
  ASSUME NEW m \in Words, NEW n \in Words
  PROVE  Least(m, n) \in Words /\ (m = 0 => Least(m, n) = 0)
BY DEF Least, Words

LEMMA Product ==
  ASSUME NEW m \in Int, NEW n \in Int
  PROVE  m * n \in Int
OBVIOUS

LEMMA Fields ==
  ASSUME NEW c \in Cursors
  PROVE  c.x \in Words /\ c.y \in Words /\ c.lcf \in BOOLEAN /\ c.addr \in Words
BY Zenon DEF Cursors

LEMMA CursorOf ==
  ASSUME NEW x \in Words, NEW y \in Words, NEW lcf \in BOOLEAN, NEW a \in Words
  PROVE  [x |-> x, y |-> y, lcf |-> lcf, addr |-> a] \in Cursors
BY Zenon DEF Cursors

LEMMA SetX ==
  ASSUME NEW c \in Cursors, NEW v \in Words
  PROVE  LET d == WithX(c, v)
         IN  d \in Cursors /\ d.x = v /\ d.y = c.y /\ d.lcf = c.lcf /\ d.addr = c.addr
BY DEF Cursors, WithX

LEMMA SetY ==
  ASSUME NEW c \in Cursors, NEW v \in Words
  PROVE  LET d == WithY(c, v)
         IN  d \in Cursors /\ d.x = c.x /\ d.y = v /\ d.lcf = c.lcf /\ d.addr = c.addr
BY DEF Cursors, WithY

LEMMA SetAddr ==
  ASSUME NEW c \in Cursors, NEW v \in Words
  PROVE  LET d == [c EXCEPT !.addr = v]
         IN  d \in Cursors /\ d.x = c.x /\ d.y = c.y /\ d.lcf = c.lcf /\ d.addr = v
BY DEF Cursors

LEMMA ClearLcf ==
  ASSUME NEW c \in Cursors
  PROVE  LET d == [c EXCEPT !.lcf = FALSE]
         IN  d \in Cursors /\ d.x = c.x /\ d.y = c.y /\ d.lcf = FALSE /\ d.addr = c.addr
BY DEF Cursors

LEMMA ScreenSizes ==
  ASSUME NEW s \in Screens
  PROVE  /\ s.cols \in Sizes /\ s.rows \in Sizes
         /\ s.cols \in Int /\ s.rows \in Int
         /\ s.cols - 1 \in Words /\ s.rows - 1 \in Words /\ Size(s) \in Words
<1>1. s.cols \in Sizes /\ s.rows \in Sizes
  BY DEF Screens
<1>2. s.cols \in Int /\ s.rows \in Int
  BY <1>1, WordsInt
<1>3. s.cols * s.rows \in Int
  BY <1>2, Product
<1>4. Size(s) \in Words
  BY <1>3, U16Word DEF Size
<1>5. s.cols - 1 \in Words /\ s.rows - 1 \in Words
  BY <1>1, WNat DEF Words, Sizes
<1> QED BY <1>1, <1>2, <1>4, <1>5

LEMMA AddrWord ==
  ASSUME NEW s \in Screens, NEW x \in Words, NEW y \in Words
  PROVE  calc_addr(s, x, y) \in Words
<1>1. y * s.cols \in Int
  BY ScreenSizes, WordsInt, Product
<1>2. y * s.cols + x \in Int
  BY <1>1, WordsInt
<1> QED BY <1>2, U16Word DEF calc_addr

LEMMA CalcCurAddr ==
  ASSUME NEW c \in Cursors, NEW s \in Screens
  PROVE  /\ calc_cur_addr(c, s) \in Cursors
         /\ AtMargin(c) => AtMargin(calc_cur_addr(c, s))
<1>1. calc_addr(s, c.x, c.y) \in Words
  BY Fields, AddrWord
<1> QED BY <1>1, SetAddr DEF calc_cur_addr, AtMargin

LEMMA CheckLcf ==
  ASSUME NEW c \in Cursors, NEW s \in Screens
  PROVE  LET d == check_lcf(c, s)
         IN  d \in Cursors /\ d.lcf = FALSE /\ d.x = c.x /\ d.y = c.y
<1>1. U16(Size(s) - s.cols) \in Words
  BY ScreenSizes, WordsInt, U16Arith
<1>2. CASE ~c.lcf
  <2>1. c.lcf = FALSE
    BY <1>2, Fields, Zenon
  <2>2. check_lcf(c, s) = c
    BY <1>2 DEF check_lcf
  <2> QED BY <2>1, <2>2
<1>3. CASE c.lcf
  <2> DEFINE b == [c EXCEPT !.lcf = FALSE]
             a == IF c.addr >= Size(s) THEN U16(Size(s) - s.cols) ELSE c.addr
  <2>1. a \in Words
    BY <1>1, Fields
  <2>2. b \in Cursors /\ b.x = c.x /\ b.y = c.y /\ b.lcf = FALSE /\ b.addr = c.addr
    BY ClearLcf
  <2>3. check_lcf(c, s) = [b EXCEPT !.addr = a]
    BY <1>3, <2>2 DEF check_lcf, Cursors
  <2> HIDE DEF b, a
  <2> QED BY <2>1, <2>2, <2>3, SetAddr
<1> QED BY <1>2, <1>3

LEMMA SetXAddr ==
  ASSUME NEW c \in Cursors, NEW v \in Words, NEW a \in Words
  PROVE  LET d == WithXAddr(c, v, a)
         IN  d \in Cursors /\ d.x = v /\ d.y = c.y /\ d.lcf = c.lcf /\ d.addr = a
BY DEF Cursors, WithXAddr

LEMMA SetYAddr ==
  ASSUME NEW c \in Cursors, NEW v \in Words, NEW a \in Words
  PROVE  LET d == WithYAddr(c, v, a)
         IN  d \in Cursors /\ d.x = c.x /\ d.y = v /\ d.lcf = c.lcf /\ d.addr = a
BY DEF Cursors, WithYAddr

LEMMA SetXY ==
  ASSUME NEW c \in Cursors, NEW v \in Words, NEW w \in Words
  PROVE  LET d == WithXY(c, v, w)
         IN  d \in Cursors /\ d.x = v /\ d.y = w /\ d.lcf = c.lcf /\ d.addr = c.addr
BY DEF Cursors, WithXY

LEMMA ClearX ==
  ASSUME NEW c \in Cursors, NEW v \in Words
  PROVE  LET d == ClearedX(c, v)
         IN  d \in Cursors /\ d.x = v /\ d.y = c.y /\ d.lcf = FALSE /\ d.addr = c.addr
BY DEF Cursors, ClearedX

LEMMA ClearXY ==
  ASSUME NEW c \in Cursors, NEW v \in Words, NEW w \in Words
  PROVE  LET d == ClearedXY(c, v, w)
         IN  d \in Cursors /\ d.x = v /\ d.y = w /\ d.lcf = FALSE /\ d.addr = c.addr
BY DEF Cursors, ClearedXY

LEMMA ClearYAddr ==
  ASSUME NEW c \in Cursors, NEW v \in Words, NEW a \in Words
  PROVE  LET d == ClearedYAddr(c, v, a)
         IN  d \in Cursors /\ d.x = c.x /\ d.y = v /\ d.lcf = FALSE /\ d.addr = a
BY DEF Cursors, ClearedYAddr

-----------------------------------------------------------------------------
(* The operators of the driver. *)
LEMMA DrawChar ==
  ASSUME NEW c0 \in Cursors, NEW s \in Screens, NEW nowrap \in BOOLEAN
  PROVE  drawchar(c0, s, nowrap) \in Cursors /\ AtMargin(drawchar(c0, s, nowrap))
<1> DEFINE c == check_lcf(c0, s)
           nx == U16(c.x + 1)
           ny == U16(c.y + 1)
           y  == IF ny >= s.rows THEN s.rows - 1 ELSE ny
<1>1. c \in Cursors /\ c.lcf = FALSE
  BY CheckLcf
<1>2. nx \in Words /\ ny \in Words /\ U16(c.addr + 1) \in Words
  BY <1>1, Fields, U16Arith
<1>3. y \in Words /\ s.cols - 1 \in Words
  BY <1>2, ScreenSizes
<1>4. drawchar(c0, s, nowrap) =
        IF nx < s.cols THEN WithXAddr(c, nx, U16(c.addr + 1))
        ELSE IF nowrap THEN WithX(c, s.cols - 1)
        ELSE [x |-> 0, y |-> y, lcf |-> TRUE, addr |-> U16(c.addr + 1)]
  BY DEF drawchar, WithXAddr, WithX
<1> HIDE DEF c, nx, ny, y
<1>5. CASE nx < s.cols
  <2> DEFINE a == U16(c.addr + 1)
             d == WithXAddr(c, nx, a)
  <2>1. drawchar(c0, s, nowrap) = d
    BY <1>4, <1>5
  <2>2. a \in Words
    BY <1>2
  <2> HIDE DEF a
  <2>3. d \in Cursors /\ d.lcf = c.lcf
    BY <1>1, <1>2, <2>2, SetXAddr
  <2> HIDE DEF d
  <2> QED BY <1>1, <2>1, <2>3 DEF AtMargin
<1>6. CASE ~(nx < s.cols) /\ nowrap
  BY <1>1, <1>3, <1>4, <1>6, SetX DEF AtMargin
<1>7. CASE ~(nx < s.cols) /\ ~nowrap
  <2>1. drawchar(c0, s, nowrap) = [x |-> 0, y |-> y, lcf |-> TRUE, addr |-> U16(c.addr + 1)]
    BY <1>4, <1>7
  <2>2. drawchar(c0, s, nowrap) \in Cursors
    BY <2>1, <1>2, <1>3, WordsInt, CursorOf, Zenon
  <2> QED BY <2>1, <2>2 DEF AtMargin
<1> QED BY <1>5, <1>6, <1>7

LEMMA SettledCursor ==
  ASSUME NEW c \in Cursors, NEW s \in Screens
  PROVE  Settled(c, s) \in Cursors /\ Settled(c, s).lcf = FALSE
<1>1. CASE c.y >= s.rows
  <2>1. c.y - 1 \in Words
    <3>1. c.y \in Words /\ s.rows \in Sizes
      BY Fields, ScreenSizes
    <3> QED BY <1>1, <3>1, WNat DEF Words, Sizes
  <2> DEFINE y == c.y - 1
             a == U16(c.addr - s.cols)
  <2>2. a \in Words
    BY Fields, ScreenSizes, WordsInt, U16Arith
  <2>3. Settled(c, s) = ClearedYAddr(c, y, a)
    BY <1>1 DEF Settled, ClearedYAddr
  <2>4. y \in Words
    BY <2>1
  <2> HIDE DEF y, a
  <2> DEFINE d == ClearedYAddr(c, y, a)
  <2>5. d \in Cursors /\ d.lcf = FALSE
    BY <2>2, <2>4, ClearYAddr, ZenonT(40)
  <2> HIDE DEF d
  <2> QED BY <2>3, <2>5 DEF d
<1>2. CASE ~(c.y >= s.rows)
  BY <1>2, ClearLcf DEF Settled
<1> QED BY <1>1, <1>2

LEMMA BackspaceCursor ==
  ASSUME NEW c \in Cursors
  PROVE  Backspace(c) \in Cursors /\ (AtMargin(c) => AtMargin(Backspace(c)))
<1>1. CASE c.x = 0
  BY <1>1 DEF Backspace
<1>2. CASE c.x # 0
  <2>1. c.x - 1 \in Words
    BY <1>2, Fields, WNat DEF Words
  <2>2. U16(c.addr - 1) \in Words
    BY Fields, U16Arith
  <2>3. Backspace(c) = WithXAddr(c, c.x - 1, U16(c.addr - 1))
    BY <1>2 DEF Backspace, WithXAddr
  <2> QED BY <1>2, <2>1, <2>2, <2>3, SetXAddr DEF AtMargin
<1> QED BY <1>1, <1>2

LEMMA ToMarginCursor ==
  ASSUME NEW c \in Cursors
  PROVE  ToMargin(c) \in Cursors /\ ToMargin(c).x = 0
<1>1. U16(c.addr - c.x) \in Words /\ 0 \in Words
  BY Fields, U16Arith, WordsInt
<1>2. ToMargin(c) = WithXAddr(c, 0, U16(c.addr - c.x))
  BY DEF ToMargin, WithXAddr
<1> QED BY <1>1, <1>2, SetXAddr

LEMMA LineDownCursor ==
  ASSUME NEW c \in Cursors, NEW s \in Screens
  PROVE  LineDown(c, s) \in Cursors
<1>1. U16(c.addr + s.cols) \in Words /\ U16(c.y + 1) \in Words
  BY Fields, ScreenSizes, U16Arith, WordsInt
<1>2. LineDown(c, s) = WithYAddr(c, U16(c.y + 1), U16(c.addr + s.cols))
  BY DEF LineDown, WithYAddr
<1> QED BY <1>1, <1>2, SetYAddr

LEMMA LineUpCursor ==
  ASSUME NEW c \in Cursors, NEW s \in Screens
  PROVE  LineUp(c, s) \in Cursors
<1>1. U16(c.addr - s.cols) \in Words /\ U16(c.y - 1) \in Words
  BY Fields, ScreenSizes, U16Arith, WordsInt
<1>2. \/ LineUp(c, s) = c
      \/ LineUp(c, s) = WithYAddr(c, U16(c.y - 1), U16(c.addr - s.cols))
  BY DEF LineUp, WithYAddr
<1> QED BY <1>1, <1>2, SetYAddr

LEMMA TabCursor ==
  ASSUME NEW c \in Cursors, NEW s \in Screens
  PROVE  Tab(c, s) \in Cursors
<1> DEFINE stop == (c.x \div TabStop) * TabStop
           nx == U16(stop + TabStop)
           a == U16(c.addr + nx - c.x)
<1>1. TabStop \in Nat \ {0} /\ c.x \in Int /\ c.addr \in Int
  BY XansiAssumption, WNat, Fields DEF Sizes, Words
<1>2. c.x \div TabStop \in Int
  BY <1>1
<1>3. stop \in Int
  BY <1>1, <1>2, Product
<1> HIDE DEF stop
<1>4. stop + TabStop \in Int
  BY <1>1, <1>3
<1>5. nx \in Words
  BY <1>4, U16Word
<1>6. nx \in Int
  BY <1>5, WordsInt
<1> HIDE DEF nx
<1>7. c.addr + nx - c.x \in Int
  BY <1>1, <1>6
<1>8. a \in Words
  BY <1>7, U16Word
<1>9. \/ Tab(c, s) = WithXAddr(c, nx, a)
      \/ Tab(c, s) = LineDown(ToMargin(c), s)
  BY DEF Tab, WithXAddr, nx, stop
<1>10. LineDown(ToMargin(c), s) \in Cursors
  BY ToMarginCursor, LineDownCursor
<1> HIDE DEF a
<1> QED BY <1>5, <1>8, <1>9, <1>10, SetXAddr

LEMMA HomeCursor == Home \in Cursors /\ Home.lcf = FALSE
<1>1. Home \in Cursors
  BY WordsInt, CursorOf, Zenon DEF Home
<1> QED BY <1>1 DEF Home

LEMMA ClampCursor ==
  ASSUME NEW c \in Cursors, NEW s \in Screens
  PROVE  ClampTo(c, s) \in Cursors /\ (AtMargin(c) => AtMargin(ClampTo(c, s)))
<1> DEFINE x == Least(c.x, s.cols - 1)
           y == Least(c.y, s.rows - 1)
           d == WithXY(c, x, y)
<1>1. x \in Words /\ y \in Words /\ (c.x = 0 => x = 0)
  BY Fields, ScreenSizes, Least3
<1>2. ClampTo(c, s) = calc_cur_addr(d, s)
  BY DEF ClampTo, WithXY
<1> HIDE DEF x, y
<1>3. d \in Cursors /\ d.x = x /\ d.lcf = c.lcf
  BY <1>1, SetXY
<1> HIDE DEF d
<1>4. AtMargin(c) => AtMargin(d)
  BY <1>1, <1>3, Zenon DEF AtMargin
<1> QED BY <1>2, <1>3, <1>4, CalcCurAddr

LEMMA CtrlCursor ==
  ASSUME NEW c \in Cursors, NEW s \in Screens, NEW newline \in BOOLEAN, NEW ch \in CtrlChars
  PROVE  /\ processctrl(ch, c, s, newline) \in Cursors
         /\ AtMargin(c) => AtMargin(processctrl(ch, c, s, newline))
<1> DEFINE down == IF newline THEN ToMargin(LineDown(c, s)) ELSE LineDown(c, s)
           Fine(d) == d \in Cursors /\ (AtMargin(c) => AtMargin(d))
<1>1. ASSUME NEW d \in Cursors
      PROVE  Fine(Settled(d, s))
  BY SettledCursor, Zenon DEF AtMargin
<1>2. down \in Cursors
  <2>1. LineDown(c, s) \in Cursors /\ ToMargin(LineDown(c, s)) \in Cursors
    BY LineDownCursor, ToMarginCursor
  <2> QED BY <2>1
<1>3. Tab(c, s) \in Cursors /\ LineUp(c, s) \in Cursors /\ ToMargin(c) \in Cursors
  BY TabCursor, LineUpCursor, ToMarginCursor
<1>4. Fine(Home) /\ Fine(c) /\ Fine(Backspace(c))
  BY HomeCursor, BackspaceCursor, Zenon DEF AtMargin
<1>5. processctrl(ch, c, s, newline) \in
        {Backspace(c), Settled(Tab(c, s), s), Settled(down, s), Settled(LineUp(c, s), s),
         Home, Settled(ToMargin(c), s), c}
  BY DEF processctrl, CtrlChars
<1> HIDE DEF down
<1>6. \A d \in {Backspace(c), Settled(Tab(c, s), s), Settled(down, s), Settled(LineUp(c, s), s),
                Home, Settled(ToMargin(c), s), c} : Fine(d)
  BY <1>1, <1>2, <1>3, <1>4
<1> QED BY <1>5, <1>6

-----------------------------------------------------------------------------
(* The movements of escape and control sequences. *)
Saves == [x : Words, y : Words, lcf : BOOLEAN]
(* No parameter is so large that a movement to the left passes the screen. *)
NarrowParms == \A n \in Parms, g \in Geoms : n + g.cols <= W

LEMMA ParmWord ==
  ASSUME NEW n \in Parms \cup {0}
  PROVE  OrOne(n) \in Words /\ OrOne(n) # 0 /\ FromOne(n) \in Words
<1>1. n \in Words
  BY XansiAssumption, WordsInt
<1> QED BY <1>1, WNat DEF Words, OrOne, FromOne

LEMMA ParmValues ==
  ASSUME NEW i, NEW n \in Parm(i)
  PROVE  n \in Parms \cup {0}
BY DEF Parm

LEMMA Vertical ==
  ASSUME cur \in Cursors, scr \in Screens, NEW n \in Words,
         NEW d \in {CursorUp(n), CursorDown(n), EscDown, EscUp}
  PROVE  d \in Cursors /\ (AtMargin(cur) => AtMargin(d))
<1> DEFINE u == IF U16(cur.y - n) >= scr.rows THEN 0 ELSE U16(cur.y - n)
           v == IF U16(cur.y + n) >= scr.rows THEN scr.rows - 1 ELSE U16(cur.y + n)
           w == U16(cur.y + 1)
           e == cur.y - 1
<1>1. u \in Words /\ v \in Words /\ w \in Words
  BY Fields, ScreenSizes, WordsInt, U16Arith
<1>2. CursorUp(n) = WithY(cur, u) /\ CursorDown(n) = WithY(cur, v)
  BY DEF CursorUp, CursorDown, WithY
<1>3. EscDown = cur \/ EscDown = WithY(cur, w)
  BY DEF EscDown, WithY
<1>4. EscUp = cur \/ (EscUp = WithY(cur, e) /\ ~(U16(cur.y - 1) >= scr.rows))
  BY DEF EscUp, WithY
<1>5. ~(U16(cur.y - 1) >= scr.rows) => e \in Words
  <2>1. cur.y \in Words /\ scr.rows \in Sizes
    BY Fields, ScreenSizes
  <2>2. CASE cur.y = 0
    <3>1. U16(-1) = W - 1
      BY WNat DEF U16
    <3> QED BY <2>1, <2>2, <3>1, WNat DEF Sizes
  <2>3. CASE cur.y # 0
    BY <2>1, <2>3, WNat DEF Words
  <2> QED BY <2>2, <2>3
<1> HIDE DEF u, v, w, e
<1>6. d = cur \/ \E y \in Words : d = WithY(cur, y)
  BY <1>1, <1>2, <1>3, <1>4, <1>5
<1>7. CASE d = cur
  BY <1>7
<1>8. CASE \E y \in Words : d = WithY(cur, y)
  <2>1. PICK y \in Words : d = WithY(cur, y)
    BY <1>8
  <2>2. d \in Cursors /\ d.x = cur.x /\ d.lcf = cur.lcf
    BY <2>1, SetY
  <2> QED BY <2>2, Zenon DEF AtMargin
<1> QED BY <1>6, <1>7, <1>8

LEMMA NextLine ==
  ASSUME cur \in Cursors, scr \in Screens
  PROVE  EscNextLine \in Cursors /\ AtMargin(EscNextLine)
<1> DEFINE v == IF U16(cur.y + 1) >= scr.cols THEN scr.cols - 1 ELSE U16(cur.y + 1)
           z == 0
           d == WithXY(cur, z, v)
<1>1. v \in Words /\ z \in Words
  BY Fields, ScreenSizes, WordsInt, U16Arith
<1>2. EscNextLine = d
  BY DEF EscNextLine, WithXY
<1> HIDE DEF v
<1>3. d \in Cursors /\ d.x = 0
  BY <1>1, SetXY
<1> HIDE DEF d
<1> QED BY <1>2, <1>3, Zenon DEF AtMargin

LEMMA Rightwards ==
  ASSUME cur \in Cursors, scr \in Screens, NEW n \in Words
  PROVE  CursorRight(n) \in Cursors /\ AtMargin(CursorRight(n))
<1> DEFINE v == IF U16(cur.x + n) >= scr.cols THEN scr.cols - 1 ELSE U16(cur.x + n)
           d == ClearedX(cur, v)
<1>1. v \in Words
  BY Fields, ScreenSizes, WordsInt, U16Arith
<1>2. CursorRight(n) = d
  BY DEF CursorRight, ClearedX
<1> HIDE DEF v
<1>3. d \in Cursors /\ d.lcf = FALSE
  BY <1>1, ClearX
<1> HIDE DEF d
<1> QED BY <1>2, <1>3, Zenon DEF AtMargin

LEMMA Leftwards ==
  ASSUME cur \in Cursors, scr \in Screens, NEW n \in Words, n # 0
  PROVE  /\ CursorLeft(n) \in Cursors
         /\ n + scr.cols <= W /\ AtMargin(cur) => AtMargin(CursorLeft(n))
<1> DEFINE v == IF U16(cur.x - n) >= scr.cols THEN 0 ELSE U16(cur.x - n)
           d == WithX(cur, v)
<1>1. v \in Words
  BY Fields, ScreenSizes, WordsInt, U16Arith
<1>2. CursorLeft(n) = d
  BY DEF CursorLeft, WithX
<1>3. n + scr.cols <= W /\ cur.x = 0 => v = 0
  <2>1. SUFFICES ASSUME n + scr.cols <= W, cur.x = 0
                 PROVE  v = 0
    OBVIOUS
  <2>2. U16(0 - n) = W - n
    BY WNat DEF U16, Words
  <2>3. scr.cols \in Int /\ n \in Int
    BY ScreenSizes, WordsInt
  <2> QED BY <2>1, <2>2, <2>3, WNat
<1> HIDE DEF v
<1>4. d \in Cursors /\ d.x = v /\ d.lcf = cur.lcf
  BY <1>1, SetX
<1> HIDE DEF d
<1> QED BY <1>2, <1>3, <1>4, Zenon DEF AtMargin

LEMMA ToPosition ==
  ASSUME cur \in Cursors, scr \in Screens, NEW row \in Parms \cup {0}, NEW col \in Parms \cup {0}
  PROVE  CursorTo(row, col) \in Cursors /\ AtMargin(CursorTo(row, col))
<1> DEFINE x == Least(FromOne(col), scr.cols - 1)
           y == Least(FromOne(row), scr.rows - 1)
           d == ClearedXY(cur, x, y)
<1>1. x \in Words /\ y \in Words
  BY ParmWord, ScreenSizes, Least3
<1>2. CursorTo(row, col) = d
  BY DEF CursorTo, ClearedXY
<1> HIDE DEF x, y
<1>3. d \in Cursors /\ d.lcf = FALSE
  BY <1>1, ClearXY, ZenonT(40)
<1> HIDE DEF d
<1> QED BY <1>2, <1>3, Zenon DEF AtMargin

LEMMA RestoredCursor ==
  ASSUME save \in Saves, scr \in Screens
  PROVE  Restored \in Cursors /\ (AtMargin(save) => AtMargin(Restored))
<1> DEFINE d == [x |-> save.x, y |-> save.y, lcf |-> save.lcf, addr |-> 0]
<1>1. save.x \in Words /\ save.y \in Words /\ save.lcf \in BOOLEAN
  BY Zenon DEF Saves
<1>2. d \in Cursors
  BY <1>1, WordsInt, CursorOf, Zenon
<1>3. d.x = save.x /\ d.lcf = save.lcf
  OBVIOUS
<1>4. Restored = calc_cur_addr(d, scr)
  BY DEF Restored
<1> HIDE DEF d
<1>5. AtMargin(save) => AtMargin(d)
  BY <1>3, Zenon DEF AtMargin
<1> QED BY <1>2, <1>4, <1>5, CalcCurAddr

-----------------------------------------------------------------------------
(* What a step does to the cursor, to the screen and to the saved cursor.  *)
Margins ==
  /\ WrapAtMargin
  /\ AtMargin(save)
  /\ \E g \in Geoms : scr.cols = g.cols
Placed == cur \in Cursors /\ scr \in Screens /\ save \in Saves

LEMMA ModeScreen ==
  ASSUME NEW g \in Geoms
  PROVE  /\ [cols |-> g.cols, rows |-> g.rows] \in Screens
         /\ [cols |-> g.cols, rows |-> g.rows].cols = g.cols
BY XansiAssumption DEF Screens

LEMMA SavedCursor ==
  ASSUME cur \in Cursors, SaveCursor
  PROVE  save' \in Saves /\ (WrapAtMargin => AtMargin(save'))
<1>1. save' \in Saves
  BY Fields, Zenon DEF SaveCursor, Saves
<1>2. save'.x = cur.x /\ save'.lcf = cur.lcf
  BY DEF SaveCursor
<1> QED BY <1>1, <1>2, Zenon DEF WrapAtMargin, AtMargin

LEMMA ResetCursor ==
  ASSUME NEW c \in Cursors, reset(c)
  PROVE  /\ cur' \in Cursors /\ scr' \in Screens
         /\ AtMargin(c) => WrapAtMargin'
         /\ \E g \in Geoms : scr'.cols = g.cols
<1>1. PICK g \in Geoms : scr' = [cols |-> g.cols, rows |-> g.rows] /\ cur' = ClampTo(c, scr')
  BY DEF reset
<1>2. scr' \in Screens /\ scr'.cols = g.cols
  BY <1>1, ModeScreen
<1>3. cur' \in Cursors /\ (AtMargin(c) => AtMargin(cur'))
  BY <1>1, <1>2, ClampCursor
<1> QED BY <1>2, <1>3 DEF WrapAtMargin, AtMargin

LEMMA DrawPlaced ==
  ASSUME Placed, Draw
  PROVE  Placed' /\ (Margins => Margins')
<1>1. ("nowrap" \in flags) \in BOOLEAN
  OBVIOUS
<1>2. cur' \in Cursors /\ AtMargin(cur')
  BY <1>1, DrawChar DEF Draw, Placed
<1> QED BY <1>2 DEF Draw, Placed, Margins, WrapAtMargin, AtMargin

LEMMA CtrlPlaced ==
  ASSUME Placed, NEW ch \in CtrlChars, PrintCtrl(ch)
  PROVE  Placed' /\ (Margins => Margins')
<1> DEFINE nl == "newline" \in flags
<1>1. nl \in BOOLEAN
  OBVIOUS
<1>2. save' = save
  BY DEF PrintCtrl
<1>3. CASE regs = "resized"
  <2>1. PICK g \in Geoms :
          /\ scr' = [cols |-> g.cols, rows |-> g.rows]
          /\ cur' = processctrl(ch, ClampTo(cur, scr'), scr', nl)
    BY <1>3 DEF PrintCtrl
  <2>2. scr' \in Screens /\ scr'.cols = g.cols
    BY <2>1, ModeScreen
  <2> DEFINE c == ClampTo(cur, scr')
  <2>3. c \in Cursors /\ (AtMargin(cur) => AtMargin(c))
    BY <2>2, ClampCursor DEF Placed
  <2>4. cur' = processctrl(ch, c, scr', nl)
    BY <2>1
  <2> HIDE DEF c, nl
  <2>5. cur' \in Cursors /\ (AtMargin(c) => AtMargin(cur'))
    BY <1>1, <2>2, <2>3, <2>4, CtrlCursor
  <2> QED BY <1>2, <2>2, <2>3, <2>5 DEF Placed, Margins, WrapAtMargin, AtMargin
<1>4. CASE regs # "resized"
  <2>1. cur' = processctrl(ch, cur, scr, nl) /\ scr' = scr
    BY <1>4 DEF PrintCtrl
  <2> HIDE DEF nl
  <2>2. cur' \in Cursors /\ (AtMargin(cur) => AtMargin(cur'))
    BY <1>1, <2>1, CtrlCursor DEF Placed
  <2> QED BY <1>2, <2>1, <2>2 DEF Placed, Margins, WrapAtMargin, AtMargin
<1> QED BY <1>3, <1>4

LEMMA EscPlaced ==
  ASSUME Placed, EscReset \/ EscFont \/ EscSave \/ EscMove
  PROVE  Placed' /\ (Margins => Margins')
<1> USE DEF Placed, Margins
<1>1. CASE EscReset
  <2>1. AtMargin(Home) /\ Home \in Cursors
    BY HomeCursor, Zenon DEF AtMargin
  <2> QED BY <1>1, <2>1, ResetCursor DEF EscReset
<1>2. CASE EscFont
  <2>1. AtMargin(cur) <=> WrapAtMargin
    BY DEF AtMargin, WrapAtMargin
  <2> QED BY <1>2, <2>1, ResetCursor DEF EscFont
<1>3. CASE EscSave
  <2>1. save' \in Saves /\ (WrapAtMargin => AtMargin(save'))
    BY <1>3, SavedCursor DEF EscSave
  <2>2. WrapAtMargin => WrapAtMargin'
    BY <1>3 DEF EscSave, WrapAtMargin
  <2> QED BY <1>3, <2>1, <2>2 DEF EscSave
<1>4. CASE EscMove
  <2> DEFINE Fine(d) == d \in Cursors /\ (AtMargin(cur) /\ AtMargin(save) => AtMargin(d))
  <2>1. Fine(EscDown) /\ Fine(EscUp) /\ Fine(EscNextLine) /\ Fine(Restored)
    <3>1. 0 \in Words
      BY WordsInt
    <3> QED BY <3>1, Vertical, NextLine, RestoredCursor
  <2>2. Fine(calc_cur_addr(EscDown, scr)) /\ Fine(calc_cur_addr(EscUp, scr))
        /\ Fine(calc_cur_addr(EscNextLine, scr))
    BY <2>1, CalcCurAddr
  <2>3. cur' \in {Restored, calc_cur_addr(EscDown, scr), calc_cur_addr(EscUp, scr),
                  calc_cur_addr(EscNextLine, scr)}
    BY <1>4 DEF EscMove
  <2>4. Fine(cur')
    BY <2>1, <2>2, <2>3
  <2> QED BY <1>4, <2>4 DEF EscMove, WrapAtMargin, AtMargin
<1> QED BY <1>1, <1>2, <1>3, <1>4

LEMMA CsiMovePlaced ==
  ASSUME Placed, CsiMove
  PROVE  Placed' /\ (NarrowParms /\ Margins => Margins')
<1> DEFINE Fine(d) == /\ d \in Cursors
                      /\ NarrowParms /\ Margins => AtMargin(d)
<1> USE DEF Placed
<1>1. Margins => AtMargin(cur) /\ AtMargin(save)
  BY DEF Margins, WrapAtMargin, AtMargin
<1>2. ASSUME NEW d, Fine(d)
      PROVE  Fine(calc_cur_addr(d, scr))
  BY <1>2, CalcCurAddr
<1>3. ASSUME NEW n \in Parm(0)
      PROVE  Fine(CursorUp(OrOne(n))) /\ Fine(CursorDown(OrOne(n)))
             /\ Fine(CursorRight(OrOne(n))) /\ Fine(CursorLeft(OrOne(n)))
  <2> DEFINE k == OrOne(n)
  <2>1. n \in Parms \cup {0}
    BY <1>3, ParmValues
  <2>2. k \in Words /\ k # 0
    BY <2>1, ParmWord
  <2>3. NarrowParms /\ Margins => k + scr.cols <= W
    <3>1. SUFFICES ASSUME NarrowParms, Margins
                   PROVE  k + scr.cols <= W
      OBVIOUS
    <3>2. PICK g \in Geoms : scr.cols = g.cols
      BY <3>1 DEF Margins
    <3>3. g.cols \in Sizes
      BY XansiAssumption
    <3>4. CASE n = 0
      BY <3>2, <3>3, <3>4, WNat DEF OrOne, Sizes
    <3>5. CASE n # 0
      <4>1. n \in Parms
        BY <2>1, <3>5
      <4> QED BY <3>1, <3>2, <3>5, <4>1 DEF NarrowParms, OrOne
    <3> QED BY <3>4, <3>5
  <2> HIDE DEF k
  <2>4. Fine(CursorUp(k)) /\ Fine(CursorDown(k))
    BY <1>1, <2>2, Vertical
  <2>5. Fine(CursorRight(k)) /\ Fine(CursorLeft(k))
    BY <1>1, <2>2, <2>3, Rightwards, Leftwards
  <2> QED BY <2>4, <2>5 DEF k
<1>4. ASSUME NEW row \in Parm(0), NEW col \in Parm(1)
      PROVE  Fine(CursorTo(row, col))
  <2>1. row \in Parms \cup {0} /\ col \in Parms \cup {0}
    BY <1>4, ParmValues
  <2> QED BY <2>1, ToPosition
<1>5. Fine(Restored)
  BY <1>1, RestoredCursor
<1>6. Fine(cur')
  <2>1. CASE \E n \in Parm(0) : \E c \in {CursorUp(OrOne(n)), CursorDown(OrOne(n)),
                                        CursorRight(OrOne(n)), CursorLeft(OrOne(n))} :
               cur' = calc_cur_addr(c, scr)
    <3>1. PICK n \in Parm(0) : \E c \in {CursorUp(OrOne(n)), CursorDown(OrOne(n)),
                                        CursorRight(OrOne(n)), CursorLeft(OrOne(n))} :
                                 cur' = calc_cur_addr(c, scr)
      BY <2>1
    <3>2. PICK c \in {CursorUp(OrOne(n)), CursorDown(OrOne(n)),
                      CursorRight(OrOne(n)), CursorLeft(OrOne(n))} : cur' = calc_cur_addr(c, scr)
      BY <3>1
    <3>3. Fine(c)
      BY <1>3
    <3> HIDE DEF Fine
    <3> QED BY <1>2, <3>2, <3>3
  <2>2. CASE \E row \in Parm(0), col \in Parm(1) : cur' = calc_cur_addr(CursorTo(row, col), scr)
    <3>1. PICK row \in Parm(0), col \in Parm(1) : cur' = calc_cur_addr(CursorTo(row, col), scr)
      BY <2>2
    <3>2. Fine(CursorTo(row, col))
      BY <1>4
    <3> HIDE DEF Fine
    <3> QED BY <1>2, <3>1, <3>2
  <2> QED BY <1>5, <2>1, <2>2 DEF CsiMove
<1>7. UNCHANGED <<scr, save>>
  BY DEF CsiMove
<1> QED BY <1>6, <1>7 DEF Margins, WrapAtMargin, AtMargin

LEMMA CsiPlaced ==
  ASSUME Placed, CsiSave \/ CsiOther \/ CsiRendition \/ CsiWrap \/ CsiFlag \/ CsiVideo
  PROVE  Placed' /\ (Margins => Margins')
<1> USE DEF Placed, Margins
<1>1. AtMargin(cur) <=> WrapAtMargin
  BY DEF AtMargin, WrapAtMargin
<1>2. AtMargin(cur') <=> WrapAtMargin'
  BY DEF AtMargin, WrapAtMargin
<1>3. CASE CsiVideo
  <2>1. AtMargin(Home) /\ Home \in Cursors
    BY HomeCursor, Zenon DEF AtMargin
  <2> QED BY <1>3, <2>1, ResetCursor DEF CsiVideo
<1>4. CASE CsiWrap
  <2> DEFINE d == check_lcf(cur, scr)
  <2>1. d \in Cursors /\ d.lcf = FALSE
    BY CheckLcf
  <2>2. cur' = calc_cur_addr(d, scr)
    BY <1>4 DEF CsiWrap
  <2> HIDE DEF d
  <2>3. AtMargin(d)
    BY <2>1, Zenon DEF AtMargin
  <2>4. cur' \in Cursors /\ AtMargin(cur')
    BY <2>1, <2>2, <2>3, CalcCurAddr
  <2> QED BY <1>2, <1>4, <2>4 DEF CsiWrap
<1>5. CASE CsiSave \/ CsiOther \/ CsiRendition \/ CsiFlag
  <2>1. cur' = calc_cur_addr(cur, scr) /\ scr' = scr
    BY <1>5 DEF CsiSave, CsiOther, CsiRendition, CsiFlag
  <2>2. cur' \in Cursors /\ (AtMargin(cur) => AtMargin(cur'))
    BY <2>1, CalcCurAddr
  <2>3. save' \in Saves /\ (AtMargin(cur) /\ AtMargin(save) => AtMargin(save'))
    <3>1. CASE CsiSave
      BY <1>1, <3>1, SavedCursor DEF CsiSave
    <3>2. CASE CsiOther \/ CsiRendition \/ CsiFlag
      BY <3>2 DEF CsiOther, CsiRendition, CsiFlag
    <3> QED BY <1>5, <3>1, <3>2
  <2> QED BY <1>1, <1>2, <2>1, <2>2, <2>3
<1> QED BY <1>3, <1>4, <1>5

LEMMA UpdatePlaced ==
  ASSUME Placed, NEW on \in BOOLEAN, UPDATECURSOR(on)
  PROVE  Placed' /\ (Margins => Margins')
<1>1. cur' \in Cursors /\ cur'.lcf = FALSE
  BY CheckLcf DEF UPDATECURSOR, Placed
<1>2. WrapAtMargin'
  BY <1>1, Zenon DEF WrapAtMargin
<1>3. UNCHANGED <<scr, save>>
  BY DEF UPDATECURSOR
<1> QED BY <1>1, <1>2, <1>3 DEF Placed, Margins

LEMMA StepPlaced ==
  ASSUME Placed, Next
  PROVE  Placed' /\ (NarrowParms /\ Margins => Margins')
<1>1. CASE PrintChar
  BY <1>1, DrawPlaced DEF PrintChar
<1>2. CASE \E ch \in CtrlChars : PrintCtrl(ch)
  BY <1>2, CtrlPlaced
<1>3. CASE \E st \in {"esc", "csi"} : PrintEsc(st)
  <2>1. CASE Draw
    BY <2>1, DrawPlaced
  <2>2. CASE UNCHANGED <<cur, scr, save>>
    BY <2>2 DEF Placed, Margins, WrapAtMargin
  <2> QED BY <1>3, <2>1, <2>2 DEF PrintEsc, begin_csi_or_esc
<1>4. CASE \/ PrintCancel \/ (\E final \in BOOLEAN : IllegalChar(final))
           \/ EscCsi \/ EscDel \/ EscIgnored
           \/ CsiEaten \/ CsiDigit \/ CsiSemicolon \/ CsiIntermediate
           \/ (\E show \in BOOLEAN : SETCURSOR(show)) \/ ERASECURSOR \/ Program
  <2>1. UNCHANGED <<cur, scr, save>>
    BY <1>4 DEF PrintCancel, IllegalChar, EscCsi, EscDel, EscIgnored, begin_csi_or_esc, CsiEaten,
                CsiDigit, CsiSemicolon, CsiIntermediate, SETCURSOR, ERASECURSOR, Program
  <2> QED BY <2>1 DEF Placed, Margins, WrapAtMargin
<1>5. CASE EscReset \/ EscFont \/ EscSave \/ EscMove
  BY <1>5, EscPlaced
<1>6. CASE CsiMove
  BY <1>6, CsiMovePlaced
<1>7. CASE CsiSave \/ CsiOther \/ CsiRendition \/ CsiWrap \/ CsiFlag \/ CsiVideo
  BY <1>7, CsiPlaced
<1>8. CASE \E on \in BOOLEAN : UPDATECURSOR(on)
  BY <1>8, UpdatePlaced
<1> QED BY <1>1, <1>2, <1>3, <1>4, <1>5, <1>6, <1>7, <1>8 DEF Next, PRINT

-----------------------------------------------------------------------------
(* The parser. *)
Parsing ==
  /\ state \in {"normal", "illegal", "esc", "csi"}
  /\ num_parms \in 0..MaxParms /\ intermediate \in {"none", "?", "other"}
  /\ ParmsInArray

LEMMA StepParsing ==
  ASSUME Parsing, Next
  PROVE  Parsing'
<1> USE DEF Parsing, ParmsInArray
<1>1. ASSUME NEW st \in {"normal", "illegal", "esc", "csi"}, ToState(st)
      PROVE  Parsing'
  BY <1>1, XansiAssumption DEF ToState
<1>2. CASE UNCHANGED <<state, num_parms, intermediate>>
  BY <1>2
<1>3. CASE CsiDigit
  BY <1>3, XansiAssumption DEF CsiDigit
<1>4. CASE CsiSemicolon
  <2>1. CASE num_parms + 1 >= MaxParms
    BY <1>1, <1>4, <2>1 DEF CsiSemicolon, NextParm
  <2>2. CASE ~(num_parms + 1 >= MaxParms)
    BY <1>4, <2>2, XansiAssumption DEF CsiSemicolon, NextParm
  <2> QED BY <2>1, <2>2
<1>5. CASE CsiIntermediate
  <2>1. CASE ToState("illegal")
    BY <1>1, <2>1
  <2>2. CASE intermediate' \in {"?", "other"} /\ UNCHANGED <<state, num_parms>>
    BY <2>2
  <2> QED BY <1>5, <2>1, <2>2 DEF CsiIntermediate
<1>6. CASE PrintChar \/ (\E st \in {"esc", "csi"} : PrintEsc(st)) \/ PrintCancel
           \/ (\E final \in BOOLEAN : IllegalChar(final))
  <2>1. \E st \in {"normal", "illegal", "esc", "csi"} : ToState(st)
    BY <1>6 DEF PrintChar, PrintEsc, PrintCancel, IllegalChar, Draw, begin_csi_or_esc
  <2> QED BY <1>1, <2>1
<1>7. CASE EscCsi \/ EscDel \/ EscIgnored \/ EscReset \/ EscFont \/ EscSave \/ EscMove
  <2>1. \E st \in {"normal", "illegal", "esc", "csi"} : ToState(st)
    BY <1>7 DEF EscCsi, EscDel, EscIgnored, EscReset, EscFont, EscSave, EscMove, begin_csi_or_esc
  <2> QED BY <1>1, <2>1
<1>8. CASE CsiMove \/ CsiSave \/ CsiOther \/ CsiRendition \/ CsiWrap \/ CsiFlag \/ CsiVideo
  <2>1. ToState("normal")
    BY <1>8 DEF CsiMove, CsiSave, CsiOther, CsiRendition, CsiWrap, CsiFlag, CsiVideo, InCsi
  <2> QED BY <1>1, <2>1
<1>9. CASE \/ (\E ch \in CtrlChars : PrintCtrl(ch)) \/ CsiEaten
           \/ (\E show \in BOOLEAN : SETCURSOR(show))
           \/ (\E on \in BOOLEAN : UPDATECURSOR(on)) \/ ERASECURSOR \/ Program
  <2>1. UNCHANGED <<state, num_parms, intermediate>>
    BY <1>9 DEF PrintCtrl, CsiEaten, SETCURSOR, UPDATECURSOR, ERASECURSOR, Program
  <2> QED BY <1>2, <2>1
<1> QED BY <1>3, <1>4, <1>5, <1>6, <1>7, <1>8, <1>9 DEF Next, PRINT

-----------------------------------------------------------------------------
(* The input cursor: it is drawn only when no wrap is due, so that settling *)
(* a wrap cannot move the address away from under it.                       *)
Drawn ==
  /\ cursor_drawn \in BOOLEAN /\ glyphs \subseteq Words
  /\ NoFossil
  /\ cursor_drawn => cur.lcf = FALSE

LEMMA OutputErases ==
  ASSUME PRINT \/ (\E show \in BOOLEAN : SETCURSOR(show)) \/ ERASECURSOR
  PROVE  erase_cursor
BY DEF PRINT, PrintChar, PrintCtrl, PrintEsc, PrintCancel, IllegalChar, InEsc, EscCsi, EscDel,
       EscIgnored, EscReset, EscFont, EscSave, EscMove, CsiEaten, CsiDigit, CsiSemicolon,
       CsiIntermediate, InCsi, CsiMove, CsiSave, CsiOther, CsiRendition, CsiWrap, CsiFlag,
       CsiVideo, SETCURSOR, ERASECURSOR

LEMMA StepDrawn ==
  ASSUME Placed, Drawn, Next
  PROVE  Drawn'
<1>1. CASE erase_cursor
  <2>1. cursor_drawn' = FALSE /\ glyphs' = {}
    BY <1>1 DEF erase_cursor, Drawn, NoFossil
  <2> QED BY <2>1 DEF Drawn, NoFossil
<1>2. CASE Program
  <2>1. UNCHANGED <<cur, cursor_drawn, glyphs>>
    BY <1>2 DEF Program
  <2> QED BY <2>1 DEF Drawn, NoFossil
<1>3. ASSUME NEW on \in BOOLEAN, UPDATECURSOR(on)
      PROVE  Drawn'
  <2>1. cur' \in Cursors /\ cur'.lcf = FALSE
    BY <1>3, CheckLcf DEF UPDATECURSOR, Placed
  <2>2. cur'.addr \in Words
    BY <2>1, Fields
  <2>3. cursor_drawn => cur' = cur
    BY <1>3 DEF UPDATECURSOR, check_lcf, Drawn
  <2>4. CASE cursor_drawn' = cursor_drawn /\ glyphs' = glyphs
    BY <2>1, <2>3, <2>4 DEF Drawn, NoFossil
  <2>5. CASE ~cursor_drawn /\ cursor_drawn' = TRUE /\ glyphs' = glyphs \cup {cur'.addr}
    <3>1. glyphs' = {cur'.addr}
      BY <2>5 DEF Drawn, NoFossil
    <3> QED BY <2>1, <2>2, <2>5, <3>1 DEF Drawn, NoFossil
  <2>6. CASE /\ cursor_drawn' = FALSE
             /\ glyphs' = IF cursor_drawn THEN glyphs \ {cur'.addr} ELSE glyphs
    <3>1. glyphs' = {}
      BY <2>3, <2>6 DEF Drawn, NoFossil
    <3> QED BY <2>6, <3>1 DEF Drawn, NoFossil
  <2> QED BY <1>3, <2>4, <2>5, <2>6 DEF UPDATECURSOR
<1> QED BY <1>1, <1>2, <1>3, OutputErases DEF Next

-----------------------------------------------------------------------------
Modes == flags \subseteq Flags /\ regs \in {"same", "moved", "resized"}

LEMMA StepModes ==
  ASSUME Modes, Next
  PROVE  Modes'
<1> USE DEF Modes
<1>1. flags' \subseteq Flags
  <2>1. CASE CsiWrap \/ CsiFlag
    BY <2>1 DEF CsiWrap, CsiFlag, SetFlag, Flags
  <2>2. CASE CsiRendition
    BY <2>2 DEF CsiRendition, Flags
  <2>3. CASE \E show \in BOOLEAN : SETCURSOR(show)
    BY <2>3 DEF SETCURSOR, Flags
  <2>4. CASE flags' \in {flags, {}}
    BY <2>4
  <2> QED
    BY <2>1, <2>2, <2>3, <2>4
    DEF Next, PRINT, PrintChar, PrintCtrl, PrintEsc, PrintCancel, IllegalChar, EscCsi, EscDel,
        EscIgnored, EscReset, EscFont, EscSave, EscMove, CsiEaten, CsiDigit, CsiSemicolon,
        CsiIntermediate, CsiMove, CsiSave, CsiOther, CsiVideo, UPDATECURSOR, ERASECURSOR, Program,
        Draw, begin_csi_or_esc
<1>2. regs' \in {"same", "moved", "resized"}
  <2>1. \A g : RegsAfter(g) \subseteq {"same", "moved", "resized"}
    BY DEF RegsAfter
  <2>2. ASSUME NEW c, reset(c)
        PROVE  regs' \in {"same", "moved", "resized"}
    BY <2>1, <2>2 DEF reset
  <2>3. CASE EscReset \/ EscFont \/ CsiVideo
    BY <2>2, <2>3 DEF EscReset, EscFont, CsiVideo
  <2>4. CASE \E ch \in CtrlChars : PrintCtrl(ch)
    BY <2>1, <2>4 DEF PrintCtrl
  <2>5. CASE CsiRendition \/ Program
    BY <2>5 DEF CsiRendition, Program
  <2>6. CASE regs' = regs
    BY <2>6
  <2> QED
    BY <2>3, <2>4, <2>5, <2>6
    DEF Next, PRINT, PrintChar, PrintEsc, PrintCancel, IllegalChar, EscCsi, EscDel, EscIgnored,
        EscSave, EscMove, CsiEaten, CsiDigit, CsiSemicolon, CsiIntermediate, CsiMove, CsiSave,
        CsiOther, CsiWrap, CsiFlag, SETCURSOR, UPDATECURSOR, ERASECURSOR, Draw, begin_csi_or_esc
<1> QED BY <1>1, <1>2

(* The inductive invariant. *)
TermInv == Placed /\ Parsing /\ Drawn /\ Modes

LEMMA InitPlaced ==
  ASSUME Init
  PROVE  Placed /\ Margins
<1>1. PICK g \in Geoms : scr = [cols |-> g.cols, rows |-> g.rows]
  BY DEF Init
<1>2. scr \in Screens /\ scr.cols = g.cols
  BY <1>1, ModeScreen
<1>3. cur \in Cursors /\ cur.lcf = FALSE
  BY HomeCursor DEF Init
<1>4. save \in Saves
  BY WordsInt, Zenon DEF Init, Saves
<1>5. save.lcf = FALSE
  BY DEF Init
<1> QED BY <1>2, <1>3, <1>4, <1>5, Zenon DEF Placed, Margins, WrapAtMargin, AtMargin

LEMMA InitTerm ==
  ASSUME Init
  PROVE  TermInv
<1>1. Placed
  BY InitPlaced
<1>2. Parsing
  BY XansiAssumption DEF Init, Parsing, ParmsInArray
<1>3. Drawn
  BY DEF Init, Drawn, NoFossil
<1>4. Modes
  BY DEF Init, Modes, RegsAfter
<1> QED BY <1>1, <1>2, <1>3, <1>4 DEF TermInv

LEMMA StepTerm ==
  ASSUME TermInv, [Next]_vars
  PROVE  TermInv'
<1>1. CASE Next
  BY <1>1, StepPlaced, StepParsing, StepDrawn, StepModes DEF TermInv
<1>2. CASE UNCHANGED vars
  BY <1>2 DEF vars, TermInv, Placed, Parsing, Drawn, Modes, ParmsInArray, NoFossil
<1> QED BY <1>1, <1>2

(* The words of the driver are 16 bit words, the parser never counts more  *)
(* parameters than csi_parms has room for, and the input cursor is in the  *)
(* text exactly where the driver thinks it is: after any sequence of       *)
(* characters, mode changes and cursor updates.                            *)
THEOREM CursorNotLeftBehind == Spec => [](TypeOK /\ ParmsInArray /\ NoFossil)
<1>1. Init => TermInv
  BY InitTerm
<1>2. TermInv /\ [Next]_vars => TermInv'
  BY StepTerm
<1>3. TermInv => TypeOK /\ ParmsInArray /\ NoFossil
  BY DEF TermInv, Placed, Parsing, Drawn, Modes, TypeOK, Cursors, Screens, Saves
<1> QED BY <1>1, <1>2, <1>3, PTL DEF Spec

(* The words of the driver stay 16 bit words, whatever the text asks for.  *)
THEOREM WordsKept == Spec => []TypeOK
<1>1. TermInv => TypeOK
  BY DEF TermInv, Placed, Parsing, Drawn, Modes, TypeOK, Cursors, Screens, Saves
<1> QED BY <1>1, InitTerm, StepTerm, PTL DEF Spec

(* A CSI sequence with more parameters than csi_parms has room for never   *)
(* moves the parser's index past the array.                                *)
THEOREM ParmsKept == Spec => []ParmsInArray
<1>1. TermInv => ParmsInArray
  BY DEF TermInv, Parsing
<1> QED BY <1>1, InitTerm, StepTerm, PTL DEF Spec

(* The comment that backspace relies on holds: a wrap is due only at the   *)
(* left margin, whatever moved, saved or restored the cursor, as long as   *)
(* no parameter takes the cursor left around to the right of the screen.   *)
THEOREM WrapDueAtMargin ==
  ASSUME \A n \in Parms, g \in Geoms : n + g.cols <= W
  PROVE  Spec => []WrapAtMargin
<1>1. NarrowParms
  BY DEF NarrowParms
<1>2. Init => Placed /\ Margins
  BY InitPlaced
<1>3. Placed /\ Margins /\ [Next]_vars => Placed' /\ Margins'
  <2>1. ASSUME Placed, Margins, Next
        PROVE  Placed' /\ Margins'
    BY <1>1, <2>1, StepPlaced
  <2>2. ASSUME Placed, Margins, UNCHANGED vars
        PROVE  Placed' /\ Margins'
    BY <2>2 DEF vars, Placed, Margins, WrapAtMargin
  <2> QED BY <2>1, <2>2
<1>4. Margins => WrapAtMargin
  BY DEF Margins
<1> QED BY <1>2, <1>3, <1>4, PTL DEF Spec

-----------------------------------------------------------------------------
(* The address beside the position.  Exact: it is the one of x and y.      *)
Exact(c, s) == c.addr = calc_addr(s, c.x, c.y)
AtEnd(c, s) == c.lcf /\ c.addr = Size(s) /\ c.y = s.rows - 1 /\ c.x = 0

LEMMA U16Add ==
  ASSUME NEW a \in Int, NEW b \in Int
  PROVE  U16(U16(a) + b) = U16(a + b)
<1>1. ((a % 65536) + b) % 65536 = (a + b) % 65536
  OBVIOUS
<1> QED BY <1>1 DEF U16, W

LEMMA U16Same ==
  ASSUME NEW a \in Words
  PROVE  U16(a) = a
<1>1. a \in Int /\ 0 <= a /\ a < 65536
  <2>1. a \in Int /\ 0 <= a /\ a < W
    BY WNat DEF Words
  <2>2. W = 65536
    BY DEF W
  <2> QED BY <2>1, <2>2
<1>2. a % 65536 = a
  BY <1>1
<1> QED BY <1>2 DEF U16, W

LEMMA U16Below ==
  ASSUME NEW a \in Int, a < 0, a >= -65536
  PROVE  U16(a) = a + 65536
<1>1. a % 65536 = a + 65536
  OBVIOUS
<1> QED BY <1>1 DEF U16, W

LEMMA Rows ==
  ASSUME NEW y \in Int, NEW n \in Int
  PROVE  (y + 1) * n = y * n + n /\ (y - 1) * n = y * n - n
OBVIOUS

(* Address and position are moved by the same amount. *)
LEMMA Moved ==
  ASSUME NEW c \in Cursors, NEW d \in Cursors, NEW s \in Screens, NEW k \in Int, Exact(c, s),
         d.addr = U16(c.addr + k), d.y * s.cols + d.x = c.y * s.cols + c.x + k
  PROVE  Exact(d, s)
<1> DEFINE a == c.y * s.cols + c.x
<1>1. c.x \in Int /\ c.y \in Int /\ s.cols \in Int
  BY Fields, ScreenSizes, WordsInt
<1>2. c.y * s.cols \in Int
  BY <1>1, Product
<1>3. a \in Int
  BY <1>1, <1>2
<1>4. c.addr = U16(a) /\ d.y * s.cols + d.x = a + k
  BY DEF Exact, calc_addr
<1> HIDE DEF a
<1>5. d.addr = U16(a + k)
  BY <1>3, <1>4, U16Add
<1> QED BY <1>4, <1>5 DEF Exact, calc_addr

LEMMA CalcExact ==
  ASSUME NEW c \in Cursors, NEW s \in Screens
  PROVE  Exact(calc_cur_addr(c, s), s)
<1> DEFINE a == calc_addr(s, c.x, c.y)
<1>1. a \in Words
  BY Fields, AddrWord
<1> DEFINE d == calc_cur_addr(c, s)
<1>2. d = [c EXCEPT !.addr = a]
  BY DEF calc_cur_addr
<1> HIDE DEF a
<1>3. d.x = c.x /\ d.y = c.y /\ d.addr = a
  BY <1>1, <1>2, SetAddr
<1> HIDE DEF d
<1>4. Exact(d, s)
  BY <1>3 DEF Exact, a
<1> QED BY <1>4 DEF d

LEMMA HomeExact ==
  ASSUME NEW s \in Screens
  PROVE  Exact(Home, s)
<1>1. s.cols \in Int
  BY ScreenSizes
<1>2. calc_addr(s, 0, 0) = 0
  BY <1>1, WordsInt, U16Same DEF calc_addr
<1> QED BY <1>2 DEF Exact, Home

LEMMA SettledExact ==
  ASSUME NEW c \in Cursors, NEW s \in Screens, Exact(c, s)
  PROVE  Exact(Settled(c, s), s)
<1>0. c.x \in Int /\ c.y \in Words /\ c.y \in Int /\ s.cols \in Int /\ c.addr \in Int
  BY Fields, ScreenSizes, WordsInt
<1>1. CASE c.y >= s.rows
  <2> DEFINE y == c.y - 1
             a == U16(c.addr - s.cols)
  <2>1. y \in Words
    <3>1. s.rows \in Sizes
      BY ScreenSizes
    <3> QED BY <1>0, <1>1, <3>1, WNat DEF Words, Sizes
  <2>2. a \in Words
    BY Fields, ScreenSizes, WordsInt, U16Arith
  <2>3. Settled(c, s) = ClearedYAddr(c, y, a)
    BY <1>1 DEF Settled, ClearedYAddr
  <2>4. y * s.cols = c.y * s.cols - s.cols
    BY <1>0, Rows
  <2> HIDE DEF y, a
  <2> DEFINE d == ClearedYAddr(c, y, a)
  <2>5. d \in Cursors /\ d.x = c.x /\ d.y = y /\ d.addr = a
    BY <2>1, <2>2 DEF Cursors, ClearedYAddr
  <2> HIDE DEF d
  <2>6. a = U16(c.addr + (-s.cols)) /\ (-s.cols) \in Int
    BY <1>0 DEF a
  <2>7. d.y * s.cols + d.x = c.y * s.cols + c.x + (-s.cols)
    <3>1. c.y * s.cols \in Int
      BY <1>0, Product
    <3> QED BY <1>0, <2>4, <2>5, <3>1
  <2>8. Exact(d, s)
    BY <2>5, <2>6, <2>7, Moved
  <2> QED BY <2>3, <2>8 DEF d
<1>2. CASE ~(c.y >= s.rows)
  <2> DEFINE d == [c EXCEPT !.lcf = FALSE]
  <2>1. Settled(c, s) = d
    BY <1>2 DEF Settled
  <2>2. d.x = c.x /\ d.y = c.y /\ d.addr = c.addr
    BY ClearLcf
  <2> HIDE DEF d
  <2> QED BY <2>1, <2>2 DEF Exact
<1> QED BY <1>1, <1>2

LEMMA ToMarginExact ==
  ASSUME NEW c \in Cursors, NEW s \in Screens, Exact(c, s)
  PROVE  Exact(ToMargin(c), s) /\ ToMargin(c).y = c.y
<1> DEFINE a == U16(c.addr - c.x)
           d == WithXAddr(c, 0, a)
<1>0. c.x \in Int /\ c.y \in Int /\ s.cols \in Int /\ c.addr \in Int /\ c.y * s.cols \in Int
  BY Fields, ScreenSizes, WordsInt, Product
<1>1. a \in Words /\ 0 \in Words
  BY Fields, U16Arith, WordsInt
<1>2. ToMargin(c) = d
  BY DEF ToMargin, WithXAddr
<1>3. a = U16(c.addr + (-c.x)) /\ -c.x \in Int
  BY <1>0
<1> HIDE DEF a
<1>4. d \in Cursors /\ d.x = 0 /\ d.y = c.y /\ d.addr = a
  BY <1>1, SetXAddr
<1> HIDE DEF d
<1>5. d.y * s.cols + d.x = c.y * s.cols + c.x + (-c.x)
  BY <1>0, <1>4
<1>6. Exact(d, s)
  BY <1>3, <1>4, <1>5, Moved
<1> QED BY <1>2, <1>4, <1>6

LEMMA LineDownExact ==
  ASSUME NEW c \in Cursors, NEW s \in Screens, Exact(c, s), c.y < s.rows
  PROVE  Exact(LineDown(c, s), s)
<1> DEFINE a == U16(c.addr + s.cols)
           y == U16(c.y + 1)
           d == WithYAddr(c, y, a)
<1>0. /\ c.x \in Int /\ c.y \in Int /\ s.cols \in Int /\ c.addr \in Int /\ c.y * s.cols \in Int
      /\ c.y \in Words /\ s.rows \in Sizes
  BY Fields, ScreenSizes, WordsInt, Product
<1>1. a \in Words
  BY Fields, ScreenSizes, U16Arith, WordsInt
<1>2. y = c.y + 1 /\ c.y + 1 \in Words
  <2>1. c.y + 1 \in Words
    BY <1>0, WNat DEF Words, Sizes
  <2> QED BY <2>1, U16Same
<1>3. LineDown(c, s) = d
  BY DEF LineDown, WithYAddr
<1> HIDE DEF y
<1>4. a = U16(c.addr + s.cols)
  OBVIOUS
<1> HIDE DEF a
<1>5. d \in Cursors /\ d.x = c.x /\ d.y = y /\ d.addr = a
  BY <1>1, <1>2, SetYAddr
<1> HIDE DEF d
<1>6. (c.y + 1) * s.cols = c.y * s.cols + s.cols
  BY <1>0, Rows
<1>7. d.y * s.cols + d.x = c.y * s.cols + c.x + s.cols
  BY <1>0, <1>2, <1>5, <1>6
<1>8. Exact(d, s)
  BY <1>0, <1>4, <1>5, <1>7, Moved
<1> QED BY <1>3, <1>8

LEMMA LineUpExact ==
  ASSUME NEW c \in Cursors, NEW s \in Screens, Exact(c, s)
  PROVE  Exact(LineUp(c, s), s)
<1> DEFINE a == U16(c.addr - s.cols)
           y == U16(c.y - 1)
           d == WithYAddr(c, y, a)
<1>0. /\ c.x \in Int /\ c.y \in Int /\ s.cols \in Int /\ c.addr \in Int /\ c.y * s.cols \in Int
      /\ c.y \in Words /\ s.rows \in Sizes
  BY Fields, ScreenSizes, WordsInt, Product
<1>1. CASE y >= s.rows
  <2>1. LineUp(c, s) = c
    BY <1>1 DEF LineUp
  <2> QED BY <2>1
<1>2. CASE ~(y >= s.rows)
  <2>1. c.y # 0
    <3>1. ASSUME c.y = 0
          PROVE  y = 65535
      <4>1. c.y - 1 \in Int /\ c.y - 1 < 0 /\ c.y - 1 >= -65536 /\ (c.y - 1) + 65536 = 65535
        BY <3>1
      <4> QED BY <4>1, U16Below
    <3>2. W - 1 = 65535
      BY DEF W
    <3>3. s.rows <= 65535
      BY <1>0, <3>2 DEF Sizes
    <3> QED BY <1>0, <1>2, <3>1, <3>3
  <2>2. y = c.y - 1 /\ c.y - 1 \in Words
    <3>1. c.y - 1 \in Words
      BY <1>0, <2>1, WNat DEF Words
    <3> QED BY <3>1, U16Same
  <2>3. LineUp(c, s) = d
    BY <1>2 DEF LineUp, WithYAddr
  <2>4. a \in Words /\ a = U16(c.addr + (-s.cols)) /\ (-s.cols) \in Int
    BY <1>0, Fields, ScreenSizes, U16Arith, WordsInt
  <2> HIDE DEF a, y
  <2>5. d \in Cursors /\ d.x = c.x /\ d.y = y /\ d.addr = a
    BY <2>2, <2>4, SetYAddr
  <2> HIDE DEF d
  <2>6. (c.y - 1) * s.cols = c.y * s.cols - s.cols
    BY <1>0, Rows
  <2>7. d.y * s.cols + d.x = c.y * s.cols + c.x + (-s.cols)
    BY <1>0, <2>2, <2>5, <2>6
  <2>8. Exact(d, s)
    BY <2>4, <2>5, <2>7, Moved
  <2> QED BY <2>3, <2>8
<1> QED BY <1>1, <1>2

LEMMA BackspaceExact ==
  ASSUME NEW c \in Cursors, NEW s \in Screens, Exact(c, s)
  PROVE  Exact(Backspace(c), s)
<1>0. /\ c.x \in Words /\ c.x \in Int /\ c.y \in Int /\ s.cols \in Int /\ c.addr \in Int
      /\ c.y * s.cols \in Int
  BY Fields, ScreenSizes, WordsInt, Product
<1>1. CASE c.x = 0
  BY <1>1 DEF Backspace
<1>2. CASE c.x # 0
  <2> DEFINE a == U16(c.addr - 1)
             x == c.x - 1
             d == WithXAddr(c, x, a)
  <2>1. x \in Words
    BY <1>2, Fields, WNat DEF Words
  <2>2. a \in Words /\ a = U16(c.addr + (-1))
    BY <1>0, Fields, U16Arith
  <2>3. Backspace(c) = d
    BY <1>2 DEF Backspace, WithXAddr
  <2>4. x = c.x - 1
    OBVIOUS
  <2> HIDE DEF a, x
  <2>5. d \in Cursors /\ d.x = x /\ d.y = c.y /\ d.addr = a
    BY <2>1, <2>2, SetXAddr
  <2> HIDE DEF d
  <2>6. d.y * s.cols + d.x = c.y * s.cols + c.x + (-1)
    BY <1>0, <2>4, <2>5
  <2>7. Exact(d, s)
    BY <2>2, <2>5, <2>6, Moved
  <2> QED BY <2>3, <2>7
<1> QED BY <1>1, <1>2

LEMMA TabExact ==
  ASSUME NEW c \in Cursors, NEW s \in Screens, Exact(c, s), c.y < s.rows
  PROVE  Exact(Tab(c, s), s)
<1> DEFINE stop == (c.x \div TabStop) * TabStop
           nx == U16(stop + TabStop)
           a == U16(c.addr + nx - c.x)
           d == WithXAddr(c, nx, a)
<1>0. /\ c.x \in Int /\ c.y \in Int /\ s.cols \in Int /\ c.addr \in Int /\ c.y * s.cols \in Int
      /\ TabStop \in Nat \ {0}
  <2>1. TabStop \in Nat \ {0}
    BY XansiAssumption, WNat DEF Sizes
  <2> QED BY <2>1, Fields, ScreenSizes, WordsInt, Product
<1>1. c.x \div TabStop \in Int
  BY <1>0
<1>2. stop \in Int
  BY <1>0, <1>1, Product
<1>3. \/ Tab(c, s) = d
      \/ Tab(c, s) = LineDown(ToMargin(c), s)
  BY DEF Tab, WithXAddr
<1> HIDE DEF stop
<1>4. stop + TabStop \in Int
  BY <1>0, <1>2
<1>5. nx \in Words
  BY <1>4, U16Word
<1> HIDE DEF nx
<1>6. nx \in Int
  BY <1>5, WordsInt
<1>7. nx - c.x \in Int /\ c.addr + nx - c.x = c.addr + (nx - c.x) /\ c.addr + nx - c.x \in Int
  BY <1>0, <1>6
<1>8. a \in Words /\ a = U16(c.addr + (nx - c.x))
  BY <1>7, U16Word
<1> HIDE DEF a
<1>9. d \in Cursors /\ d.x = nx /\ d.y = c.y /\ d.addr = a
  BY <1>5, <1>8, SetXAddr
<1> HIDE DEF d
<1>10. d.y * s.cols + d.x = c.y * s.cols + c.x + (nx - c.x)
  BY <1>0, <1>6, <1>9
<1>11. Exact(d, s)
  BY <1>7, <1>8, <1>9, <1>10, Moved
<1>12. Exact(LineDown(ToMargin(c), s), s)
  BY ToMarginCursor, ToMarginExact, LineDownExact
<1> QED BY <1>3, <1>11, <1>12

LEMMA CtrlExact ==
  ASSUME NEW c \in Cursors, NEW s \in Screens, NEW newline \in BOOLEAN, NEW ch \in CtrlChars,
         Exact(c, s), c.y < s.rows
  PROVE  Exact(processctrl(ch, c, s, newline), s)
<1> DEFINE down == IF newline THEN ToMargin(LineDown(c, s)) ELSE LineDown(c, s)
<1>1. down \in Cursors /\ Exact(down, s)
  <2>1. LineDown(c, s) \in Cursors /\ Exact(LineDown(c, s), s)
    BY LineDownCursor, LineDownExact
  <2>2. ToMargin(LineDown(c, s)) \in Cursors /\ Exact(ToMargin(LineDown(c, s)), s)
    BY <2>1, ToMarginCursor, ToMarginExact
  <2> QED BY <2>1, <2>2
<1>2. processctrl(ch, c, s, newline) \in
        {Backspace(c), Settled(Tab(c, s), s), Settled(down, s), Settled(LineUp(c, s), s),
         Home, Settled(ToMargin(c), s), c}
  BY DEF processctrl, CtrlChars
<1> HIDE DEF down
<1>3. Exact(Settled(Tab(c, s), s), s) /\ Exact(Settled(down, s), s) /\ Exact(Settled(LineUp(c, s), s), s)
      /\ Exact(Settled(ToMargin(c), s), s)
  BY <1>1, TabCursor, LineUpCursor, ToMarginCursor, TabExact, LineUpExact, ToMarginExact, SettledExact
<1>4. Exact(Backspace(c), s) /\ Exact(Home, s)
  BY BackspaceExact, HomeExact
<1> QED BY <1>2, <1>3, <1>4

(* xansi_reset puts the cursor on the screen. *)
LEMMA ClampExact ==
  ASSUME NEW c \in Cursors, NEW s \in Screens
  PROVE  Exact(ClampTo(c, s), s) /\ ClampTo(c, s).y < s.rows
<1> DEFINE x == Least(c.x, s.cols - 1)
           y == Least(c.y, s.rows - 1)
<1>1. x \in Words /\ y \in Words /\ y < s.rows
  <2>1. x \in Words /\ y \in Words
    BY Fields, ScreenSizes, Least3
  <2>2. c.y \in Int /\ s.rows \in Int
    BY Fields, ScreenSizes, WordsInt
  <2> QED BY <2>1, <2>2 DEF Least
<1>2. ClampTo(c, s) = calc_cur_addr(WithXY(c, x, y), s)
  BY DEF ClampTo, WithXY
<1> HIDE DEF x, y
<1> DEFINE d == WithXY(c, x, y)
<1>3. d \in Cursors /\ d.y = y
  BY <1>1 DEF Cursors, WithXY
<1> HIDE DEF d
<1>4. Exact(calc_cur_addr(d, s), s)
  BY <1>3, CalcExact
<1>5. calc_cur_addr(d, s).y = d.y
  BY <1>3 DEF calc_cur_addr, Cursors
<1> QED BY <1>1, <1>2, <1>3, <1>4, <1>5 DEF d

(* On a screen whose cells can be counted in 16 bits, a position on it has *)
(* an address before its end.                                              *)
LEMMA Below ==
  ASSUME NEW y \in Int, NEW m \in Int, NEW n \in Int, 0 <= y, y < m, 0 < n
  PROVE  y * n + n <= n * m /\ 0 <= y * n
<1>1. (y + 1) * n = y * n + n
  BY Rows
<1>2. y + 1 <= m
  OBVIOUS
<1>3. (m - (y + 1)) * n >= 0
  BY <1>2
<1>4. (m - (y + 1)) * n = m * n - (y + 1) * n
  OBVIOUS
<1> QED BY <1>1, <1>3, <1>4

LEMMA OnScreen ==
  ASSUME NEW c \in Cursors, NEW s \in Screens, Exact(c, s), c.x < s.cols, c.y < s.rows,
         s.cols * s.rows < W
  PROVE  /\ c.y * s.cols \in Int /\ c.addr = c.y * s.cols + c.x
         /\ Size(s) = s.cols * s.rows /\ c.y * s.cols + s.cols <= Size(s)
         /\ c.addr < Size(s)
<1>0. /\ c.x \in Int /\ c.y \in Int /\ s.cols \in Int /\ s.rows \in Int /\ c.y * s.cols \in Int
      /\ s.cols * s.rows \in Int
  BY Fields, ScreenSizes, WordsInt, Product
<1>1. 0 <= c.x /\ 0 <= c.y /\ 0 < s.cols
  BY Fields, ScreenSizes DEF Words, Sizes
<1>2. c.y * s.cols + s.cols <= s.cols * s.rows /\ 0 <= c.y * s.cols
  BY <1>0, <1>1, Below
<1>3. s.cols * s.rows \in Words /\ c.y * s.cols + c.x \in Words /\ c.y * s.cols + c.x < s.cols * s.rows
  BY <1>0, <1>1, <1>2, WNat DEF Words
<1>4. Size(s) = s.cols * s.rows /\ c.addr = c.y * s.cols + c.x
  BY <1>3, U16Same DEF Size, Exact, calc_addr
<1> QED BY <1>0, <1>2, <1>3, <1>4

(* Settling a wrap that is due on the screen leaves the address alone. *)
LEMMA CheckExact ==
  ASSUME NEW c \in Cursors, NEW s \in Screens, Exact(c, s), c.x < s.cols, c.y < s.rows,
         s.cols * s.rows < W
  PROVE  LET d == check_lcf(c, s)
         IN  d \in Cursors /\ d.x = c.x /\ d.y = c.y /\ d.addr = c.addr
<1>1. c.addr < Size(s) /\ c.addr \in Int /\ Size(s) \in Int
  BY OnScreen, Fields, ScreenSizes, WordsInt
<1>2. CASE ~c.lcf
  BY <1>2 DEF check_lcf
<1>3. CASE c.lcf
  <2> DEFINE e == [c EXCEPT !.lcf = FALSE]
             a == IF c.addr >= Size(s) THEN U16(Size(s) - s.cols) ELSE c.addr
  <2>1. e \in Cursors /\ e.x = c.x /\ e.y = c.y /\ e.addr = c.addr
    BY ClearLcf
  <2>2. check_lcf(c, s) = [e EXCEPT !.addr = a]
    BY <1>3, <2>1 DEF check_lcf, Cursors
  <2>3. a = c.addr /\ a \in Words
    BY <1>1, Fields
  <2> HIDE DEF e, a
  <2> QED BY <2>1, <2>2, <2>3, SetAddr
<1> QED BY <1>2, <1>3

LEMMA DrawAgrees ==
  ASSUME NEW c0 \in Cursors, NEW s \in Screens, NEW nowrap \in BOOLEAN,
         Exact(c0, s), c0.x < s.cols, c0.y < s.rows, s.cols * s.rows < W
  PROVE  LET d == drawchar(c0, s, nowrap) IN Exact(d, s) \/ AtEnd(d, s)
<1> DEFINE c == check_lcf(c0, s)
           nx == U16(c.x + 1)
           ny == U16(c.y + 1)
           y  == IF ny >= s.rows THEN s.rows - 1 ELSE ny
           a  == U16(c.addr + 1)
<1>1. c \in Cursors /\ c.x = c0.x /\ c.y = c0.y /\ c.addr = c0.addr
  BY CheckExact
<1>2. drawchar(c0, s, nowrap) =
        IF nx < s.cols THEN WithXAddr(c, nx, a)
        ELSE IF nowrap THEN WithX(c, s.cols - 1)
        ELSE [x |-> 0, y |-> y, lcf |-> TRUE, addr |-> a]
  BY DEF drawchar, WithXAddr, WithX
<1> HIDE DEF c
<1>3. Exact(c, s) /\ c.x < s.cols /\ c.y < s.rows
  BY <1>1 DEF Exact
<1>4. /\ c.x \in Words /\ c.y \in Words /\ s.cols \in Sizes /\ s.rows \in Sizes
      /\ c.x \in Int /\ c.y \in Int /\ s.cols \in Int /\ s.rows \in Int /\ c.addr \in Words
      /\ c.y * s.cols \in Int
  BY <1>1, Fields, ScreenSizes, WordsInt, Product
<1>5. nx = c.x + 1 /\ ny = c.y + 1 /\ nx \in Words /\ ny \in Words
  <2>1. c.x + 1 \in Words /\ c.y + 1 \in Words
    BY <1>3, <1>4, WNat DEF Words, Sizes
  <2> QED BY <2>1, U16Same
<1>6. a \in Words
  BY <1>4, U16Arith
<1>7. CASE nx < s.cols
  <2>1. a = U16(c.addr + 1)
    OBVIOUS
  <2> HIDE DEF nx, a
  <2> DEFINE d == WithXAddr(c, nx, a)
  <2>2. d \in Cursors /\ d.x = nx /\ d.y = c.y /\ d.addr = a
    BY <1>1, <1>5, <1>6, SetXAddr
  <2>3. drawchar(c0, s, nowrap) = d
    BY <1>2, <1>7
  <2> HIDE DEF d
  <2>4. d.y * s.cols + d.x = c.y * s.cols + c.x + 1
    BY <1>4, <1>5, <2>2
  <2>5. Exact(d, s)
    BY <1>1, <1>3, <2>1, <2>2, <2>4, Moved
  <2> QED BY <2>3, <2>5
<1>8. CASE ~(nx < s.cols) /\ nowrap
  <2>1. c.x = s.cols - 1
    BY <1>3, <1>4, <1>5, <1>8
  <2> DEFINE d == WithX(c, s.cols - 1)
  <2>2. d.x = c.x /\ d.y = c.y /\ d.addr = c.addr
    BY <1>1, <1>4, <2>1, SetX
  <2>3. drawchar(c0, s, nowrap) = d
    BY <1>2, <1>8
  <2> HIDE DEF d
  <2> QED BY <1>3, <2>2, <2>3 DEF Exact
<1>9. CASE ~(nx < s.cols) /\ ~nowrap
  <2>1. c.x = s.cols - 1
    BY <1>3, <1>4, <1>5, <1>9
  <2>2. c.addr = c.y * s.cols + c.x /\ c.y * s.cols + s.cols <= Size(s) /\ Size(s) = s.cols * s.rows
    BY <1>1, <1>3, OnScreen
  <2>3. c.addr + 1 = c.y * s.cols + s.cols
    BY <1>4, <2>1, <2>2
  <2>4. (c.y + 1) * s.cols = c.y * s.cols + s.cols
    BY <1>4, Rows
  <2>5. a = U16((c.y + 1) * s.cols)
    BY <2>3, <2>4
  <2>6. drawchar(c0, s, nowrap) = [x |-> 0, y |-> y, lcf |-> TRUE, addr |-> a]
    BY <1>2, <1>9
  <2>7. CASE ny >= s.rows
    <3>1. c.y = s.rows - 1 /\ y = s.rows - 1
      BY <1>3, <1>4, <1>5, <2>7
    <3>2. (c.y + 1) * s.cols = s.cols * s.rows
      BY <1>4, <3>1
    <3>3. a = Size(s)
      BY <2>5, <3>2 DEF Size
    <3> HIDE DEF a, y
    <3> QED BY <2>6, <3>1, <3>3 DEF AtEnd
  <2>8. CASE ~(ny >= s.rows)
    <3>1. y = c.y + 1
      BY <1>5, <2>8
    <3>2. calc_addr(s, 0, y) = U16((c.y + 1) * s.cols)
      BY <1>4, <2>4, <3>1 DEF calc_addr
    <3>3. calc_addr(s, 0, y) = a
      BY <2>5, <3>2
    <3> HIDE DEF a, y
    <3> QED BY <2>6, <3>3 DEF Exact
  <2> QED BY <2>7, <2>8
<1> QED BY <1>7, <1>8, <1>9

(* The screen is one of the modes, and its cells can be counted. *)
InMode == \E g \in Geoms : scr = [cols |-> g.cols, rows |-> g.rows]
SmallModes == \A g \in Geoms : g.cols * g.rows < W

LEMMA ModeKept ==
  ASSUME InMode, [Next]_vars
  PROVE  InMode'
<1>1. CASE scr' = scr
  BY <1>1 DEF InMode
<1>2. CASE EscReset \/ EscFont \/ CsiVideo
  BY <1>2 DEF EscReset, EscFont, CsiVideo, reset, InMode
<1>3. CASE \E ch \in CtrlChars : PrintCtrl(ch)
  BY <1>1, <1>3 DEF PrintCtrl, InMode
<1> QED
  BY <1>1, <1>2, <1>3
  DEF Next, PRINT, PrintChar, PrintEsc, PrintCancel, IllegalChar, EscCsi, EscDel, EscIgnored,
      EscSave, EscMove, CsiEaten, CsiDigit, CsiSemicolon, CsiIntermediate, CsiMove, CsiSave,
      CsiOther, CsiRendition, CsiWrap, CsiFlag, SETCURSOR, UPDATECURSOR, ERASECURSOR, Program, Draw,
      begin_csi_or_esc, vars

(* Sequences that move the cursor compute the address again. *)
LEMMA ComputedAgain ==
  ASSUME Placed, EscMove \/ CsiMove \/ CsiSave \/ CsiOther \/ CsiRendition \/ CsiWrap \/ CsiFlag
  PROVE  scr' = scr /\ \E c \in Cursors : cur' = calc_cur_addr(c, scr)
<1> USE DEF Placed
<1>0. 0 \in Words
  BY WordsInt
<1>r. \E c \in Cursors : Restored = calc_cur_addr(c, scr)
  <2> DEFINE d == [x |-> save.x, y |-> save.y, lcf |-> save.lcf, addr |-> 0]
  <2>1. save.x \in Words /\ save.y \in Words /\ save.lcf \in BOOLEAN
    BY Zenon DEF Saves
  <2>2. d \in Cursors
    BY <1>0, <2>1, CursorOf, Zenon
  <2>3. Restored = calc_cur_addr(d, scr)
    BY DEF Restored
  <2> HIDE DEF d
  <2> QED BY <2>2, <2>3
<1>1. CASE EscMove
  <2>1. EscDown \in Cursors /\ EscUp \in Cursors /\ EscNextLine \in Cursors
    BY <1>0, Vertical, NextLine
  <2>2. cur' \in {Restored, calc_cur_addr(EscDown, scr), calc_cur_addr(EscUp, scr),
                  calc_cur_addr(EscNextLine, scr)}
    BY <1>1 DEF EscMove
  <2> QED BY <1>1, <1>r, <2>1, <2>2 DEF EscMove
<1>2. CASE CsiMove
  <2>1. ASSUME NEW n \in Parm(0)
        PROVE  {CursorUp(OrOne(n)), CursorDown(OrOne(n)), CursorRight(OrOne(n)),
                CursorLeft(OrOne(n))} \subseteq Cursors
    <3> DEFINE k == OrOne(n)
    <3>1. n \in Parms \cup {0}
      BY <2>1, ParmValues
    <3>2. k \in Words /\ k # 0
      BY <3>1, ParmWord
    <3> HIDE DEF k
    <3>3. CursorUp(k) \in Cursors /\ CursorDown(k) \in Cursors
      BY <3>2, Vertical
    <3>4. CursorRight(k) \in Cursors /\ CursorLeft(k) \in Cursors
      BY <3>2, Rightwards, Leftwards
    <3> QED BY <3>3, <3>4 DEF k
  <2>2. ASSUME NEW row \in Parm(0), NEW col \in Parm(1)
        PROVE  CursorTo(row, col) \in Cursors
    <3>1. row \in Parms \cup {0} /\ col \in Parms \cup {0}
      BY <2>2, ParmValues
    <3> QED BY <3>1, ToPosition
  <2>3. CASE \E n \in Parm(0) : \E c \in {CursorUp(OrOne(n)), CursorDown(OrOne(n)),
                                        CursorRight(OrOne(n)), CursorLeft(OrOne(n))} :
               cur' = calc_cur_addr(c, scr)
    BY <1>2, <2>1, <2>3 DEF CsiMove
  <2>4. CASE \E row \in Parm(0), col \in Parm(1) : cur' = calc_cur_addr(CursorTo(row, col), scr)
    BY <1>2, <2>2, <2>4 DEF CsiMove
  <2>5. CASE cur' = Restored
    BY <1>2, <1>r, <2>5 DEF CsiMove
  <2> QED BY <1>2, <2>3, <2>4, <2>5 DEF CsiMove
<1>3. CASE CsiSave \/ CsiOther \/ CsiRendition \/ CsiFlag
  BY <1>3 DEF CsiSave, CsiOther, CsiRendition, CsiFlag
<1>4. CASE CsiWrap
  BY <1>4, CheckLcf DEF CsiWrap
<1> QED BY <1>1, <1>2, <1>3, <1>4

LEMMA ResetExact ==
  ASSUME NEW c \in Cursors, reset(c)
  PROVE  Exact(cur', scr')
<1>1. PICK g \in Geoms : scr' = [cols |-> g.cols, rows |-> g.rows] /\ cur' = ClampTo(c, scr')
  BY DEF reset
<1>2. scr' \in Screens
  BY <1>1, ModeScreen
<1> QED BY <1>1, <1>2, ClampExact

LEMMA CtrlAgrees ==
  ASSUME Placed, NEW ch \in CtrlChars, PrintCtrl(ch), Exact(cur, scr), cur.y < scr.rows
  PROVE  Exact(cur', scr')
<1> DEFINE nl == "newline" \in flags
<1>1. nl \in BOOLEAN
  OBVIOUS
<1>2. CASE regs = "resized"
  <2>1. PICK g \in Geoms :
          /\ scr' = [cols |-> g.cols, rows |-> g.rows]
          /\ cur' = processctrl(ch, ClampTo(cur, scr'), scr', nl)
    BY <1>2 DEF PrintCtrl
  <2>2. scr' \in Screens
    BY <2>1, ModeScreen
  <2> DEFINE c == ClampTo(cur, scr')
  <2>3. c \in Cursors /\ Exact(c, scr') /\ c.y < scr'.rows
    BY <2>2, ClampCursor, ClampExact DEF Placed
  <2>4. cur' = processctrl(ch, c, scr', nl)
    BY <2>1
  <2> HIDE DEF c, nl
  <2> QED BY <1>1, <2>2, <2>3, <2>4, CtrlExact
<1>3. CASE regs # "resized"
  <2>1. cur' = processctrl(ch, cur, scr, nl) /\ scr' = scr
    BY <1>3 DEF PrintCtrl
  <2> HIDE DEF nl
  <2> QED BY <1>1, <2>1, CtrlExact DEF Placed
<1> QED BY <1>2, <1>3

LEMMA StepAgrees ==
  ASSUME SmallModes, Placed, InMode, Next, Exact(cur, scr), cur.x < scr.cols, cur.y < scr.rows
  PROVE  Exact(cur', scr') \/ AtEnd(cur', scr')
<1>0. scr.cols * scr.rows < W
  BY DEF SmallModes, InMode
<1>1. CASE UNCHANGED <<cur, scr>>
  BY <1>1
<1>2. CASE Draw
  <2>1. ("nowrap" \in flags) \in BOOLEAN
    OBVIOUS
  <2> DEFINE d == drawchar(cur, scr, "nowrap" \in flags)
  <2>2. Exact(d, scr) \/ AtEnd(d, scr)
    BY <1>0, <2>1, DrawAgrees DEF Placed
  <2>3. cur' = d /\ scr' = scr
    BY <1>2 DEF Draw
  <2> HIDE DEF d
  <2> QED BY <2>2, <2>3
<1>3. CASE \E ch \in CtrlChars : PrintCtrl(ch)
  BY <1>3, CtrlAgrees
<1>4. CASE EscReset \/ EscFont \/ CsiVideo
  <2>1. reset(Home) \/ reset(cur)
    BY <1>4 DEF EscReset, EscFont, CsiVideo
  <2> QED BY <2>1, HomeCursor, ResetExact DEF Placed
<1>5. CASE EscMove \/ CsiMove \/ CsiSave \/ CsiOther \/ CsiRendition \/ CsiWrap \/ CsiFlag
  <2>1. scr' = scr /\ \E c \in Cursors : cur' = calc_cur_addr(c, scr)
    BY <1>5, ComputedAgain
  <2> QED BY <2>1, CalcExact DEF Placed
<1>6. CASE \E on \in BOOLEAN : UPDATECURSOR(on)
  <2>1. cur' = check_lcf(cur, scr) /\ scr' = scr
    BY <1>6 DEF UPDATECURSOR
  <2> DEFINE d == check_lcf(cur, scr)
  <2>2. d.x = cur.x /\ d.y = cur.y /\ d.addr = cur.addr
    BY <1>0, CheckExact DEF Placed
  <2>3. cur' = d
    BY <2>1
  <2> HIDE DEF d
  <2> QED BY <2>1, <2>2, <2>3 DEF Exact
<1> QED
  BY <1>1, <1>2, <1>3, <1>4, <1>5, <1>6
  DEF Next, PRINT, PrintChar, PrintEsc, PrintCancel, IllegalChar, EscCsi, EscDel, EscIgnored,
      EscSave, CsiEaten, CsiDigit, CsiSemicolon, CsiIntermediate, SETCURSOR, ERASECURSOR, Program,
      begin_csi_or_esc

(* Whatever is printed, the drawing address goes astray of the position    *)
(* only from the end of the screen with a wrap due, or from a cursor that  *)
(* has left the screen; on screens whose cells can be counted in 16 bits.  *)
THEOREM AstrayOnlyAtEdges ==
  ASSUME \A g \in Geoms : g.cols * g.rows < W
  PROVE  Spec => LostOnlyAtEdges
<1>0. SmallModes
  BY DEF SmallModes
<1>1. Init => TermInv /\ InMode
  BY InitTerm DEF Init, InMode
<1>2. TermInv /\ InMode /\ [Next]_vars => TermInv' /\ InMode'
  BY StepTerm, ModeKept
<1>3. ASSUME TermInv, InMode, [Next]_vars
      PROVE  [Agrees /\ ~Agrees' => \/ cur.lcf /\ cur.addr = Size(scr)
                                    \/ cur.x >= scr.cols
                                    \/ cur.y >= scr.rows]_vars
  <2>1. SUFFICES ASSUME Next, Agrees, ~(cur.lcf /\ cur.addr = Size(scr)), ~(cur.x >= scr.cols),
                        ~(cur.y >= scr.rows)
                 PROVE  Agrees'
    BY <1>3 DEF vars
  <2>2. Placed
    BY <1>3 DEF TermInv
  <2>3. cur.x < scr.cols /\ cur.y < scr.rows
    <3>1. cur.x \in Int /\ cur.y \in Int /\ scr.cols \in Int /\ scr.rows \in Int
      BY <2>2, Fields, ScreenSizes, WordsInt DEF Placed
    <3> QED BY <2>1, <3>1
  <2>4. Exact(cur, scr)
    BY <2>1 DEF Agrees, Exact
  <2>5. Exact(cur', scr') \/ AtEnd(cur', scr')
    BY <1>0, <1>3, <2>1, <2>2, <2>3, <2>4, StepAgrees
  <2> QED BY <2>5 DEF Agrees, Exact, AtEnd, calc_addr, Size
<1>4. TermInv /\ InMode /\ [Next]_vars
        => [Agrees /\ ~Agrees' => \/ cur.lcf /\ cur.addr = Size(scr)
                                  \/ cur.x >= scr.cols
                                  \/ cur.y >= scr.rows]_vars
  BY <1>3
<1> QED BY <1>1, <1>2, <1>4, PTL DEF Spec, LostOnlyAtEdges
=============================================================================
