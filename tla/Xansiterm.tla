------------------------------- MODULE Xansiterm -------------------------------
(***************************************************************************)
(* The Xosera ANSI console (stage1/videoXoseraANSI): the escape sequence   *)
(* parser, the cursor position with its delayed wrap at the last column,   *)
(* the drawing address that is kept beside it, and the input cursor that   *)
(* is drawn into the text and has to be taken out of it again.             *)
(*                                                                         *)
(* One step is one call of the driver: a character printed (a string is a  *)
(* sequence of such calls, since nothing runs in between), or the input    *)
(* routine updating the cursor.  Addresses are relative to vram_base.      *)
(* Colours, the text itself, the bell and the replies to queries are left  *)
(* out.  A parameter of a control sequence is any number, but one that was *)
(* not sent is zero.                                                       *)
(***************************************************************************)
EXTENDS Integers

CONSTANTS
  Geoms,      \* [cols, rows, scaled]: the text modes a reset may find
  TabStop,    \* 8 in the code
  MaxParms,   \* MAX_CSI_PARMS
  Parms,      \* bound: values of parameters
  MaxX,       \* bound: column a tab may start from
  MaxAddr     \* bound: address a character is drawn at

(* The driver counts in 16 bit words. *)
W == 65536
U16(n) == n % W
Words == 0..(W - 1)
Sizes == 1..(W - 1)

ASSUME XansiAssumption ==
  /\ \A g \in Geoms : g.cols \in Sizes /\ g.rows \in Sizes /\ g.scaled \in BOOLEAN
  /\ TabStop \in Sizes /\ MaxParms \in Nat \ {0, 1} /\ Parms \subseteq Words
  /\ MaxX \in Nat /\ MaxAddr \in Nat

VARIABLES
  cur,           \* x, y, lcf and cur_addr
  scr,           \* cols and rows of the mode that was set last
  save,          \* save_x, save_y and save_lcf
  state,         \* state of the parser
  num_parms,     \* parameters so far; it and the next count in state "csi" only
  intermediate,  \* intermediate_char: "none", "?" or "other"
  flags,         \* the flags that are set
  regs,          \* Xosera's registers: "same" as the driver set them; changed so
                 \* that control characters find out ("resized", which takes a
                 \* line_len of zero) or that only the cursor does ("moved")
  cursor_drawn,
  glyphs         \* the addresses that show the input cursor

vars == <<cur, scr, save, state, num_parms, intermediate, flags, regs,
          cursor_drawn, glyphs>>

Flags == {"newline", "nowrap", "hide", "passthru"}

-----------------------------------------------------------------------------
(* The cursor: operators from cursor c and screen s to a cursor. *)
Size(s) == U16(s.cols * s.rows)
calc_addr(s, x, y) == U16(y * s.cols + x)
calc_cur_addr(c, s) == [c EXCEPT !.addr = calc_addr(s, c.x, c.y)]
Home == [x |-> 0, y |-> 0, lcf |-> FALSE, addr |-> 0]

(* A wrap that is due: at the end of the screen, the address goes back to  *)
(* the bottom line and the screen is scrolled.                             *)
check_lcf(c, s) ==
  IF ~c.lcf THEN c
  ELSE [c EXCEPT !.lcf = FALSE,
                 !.addr = IF @ >= Size(s) THEN U16(Size(s) - s.cols) ELSE @]

Least(m, n) == IF m < n THEN m ELSE n

drawchar(c0, s, nowrap) ==
  LET c  == check_lcf(c0, s)
      nx == U16(c.x + 1)
      ny == U16(c.y + 1)
  IN  IF nx < s.cols THEN [c EXCEPT !.x = nx, !.addr = U16(@ + 1)]
      ELSE IF nowrap THEN [c EXCEPT !.x = s.cols - 1]
      ELSE [x |-> 0, y |-> IF ny >= s.rows THEN s.rows - 1 ELSE ny,
            lcf |-> TRUE, addr |-> U16(c.addr + 1)]

(* The end of xansi_processctrl for the characters that move the cursor. *)
Settled(c, s) ==
  IF c.y >= s.rows
  THEN [c EXCEPT !.lcf = FALSE, !.y = @ - 1, !.addr = U16(@ - s.cols)]
  ELSE [c EXCEPT !.lcf = FALSE]

(* (Mutant: beyond the left margin.) *)
Backspace_NoTest(c) == [c EXCEPT !.x = @ - 1, !.addr = U16(@ - 1)]
Backspace(c) == IF c.x = 0 THEN c ELSE [c EXCEPT !.x = @ - 1, !.addr = U16(@ - 1)]
(* (Mutant: the address stays where it is.) *)
ToMargin_KeepsAddr(c) == [c EXCEPT !.x = 0]
ToMargin(c) == [c EXCEPT !.x = 0, !.addr = U16(@ - c.x)]
LineDown(c, s) == [c EXCEPT !.y = U16(@ + 1), !.addr = U16(@ + s.cols)]
Tab(c, s) ==
  LET nx == U16((c.x \div TabStop) * TabStop + TabStop)
  IN  IF U16(s.cols - nx) >= TabStop
      THEN [c EXCEPT !.x = nx, !.addr = U16(@ + nx - c.x)]
      ELSE LineDown(ToMargin(c), s)
LineUp(c, s) ==
  IF U16(c.y - 1) >= s.rows THEN c
  ELSE [c EXCEPT !.y = U16(@ - 1), !.addr = U16(@ - s.cols)]

(* xansi_processctrl. *)
CtrlChars == {"BEL", "BS", "HT", "LF", "VT", "FF", "CR", "other"}
processctrl(ch, c, s, newline) ==
  CASE ch = "BS" -> Backspace(c)
    [] ch = "HT" -> Settled(Tab(c, s), s)
    [] ch = "LF" -> Settled(IF newline THEN ToMargin(LineDown(c, s)) ELSE LineDown(c, s), s)
    [] ch = "VT" -> Settled(LineUp(c, s), s)
    [] ch = "FF" -> Home
    [] ch = "CR" -> Settled(ToMargin(c), s)
    [] OTHER -> c

(* xansi_reset keeps the cursor on the screen, and a wrap that is due. *)
ClampTo(c, s) ==
  calc_cur_addr([c EXCEPT !.x = Least(@, s.cols - 1), !.y = Least(@, s.rows - 1)], s)

-----------------------------------------------------------------------------
(* With fractional scaling the sizes that were stored are not the ones     *)
(* that are compared later, so a change is seen at once.                   *)
RegsAfter(g) == IF g.scaled THEN {"moved", "resized"} ELSE {"same"}

Init ==
  /\ \E g \in Geoms : scr = [cols |-> g.cols, rows |-> g.rows] /\ regs \in RegsAfter(g)
  /\ cur = Home
  /\ save = [x |-> 0, y |-> 0, lcf |-> FALSE]
  /\ state = "normal" /\ num_parms = 0 /\ intermediate = "none"
  /\ flags = {}
  /\ cursor_drawn = FALSE /\ glyphs = {}

(* Every output call first takes the cursor out of the text (mutant: not   *)
(* so); the cell is written back only if it still shows the cursor.        *)
erase_cursor_Kept == cursor_drawn' = FALSE /\ glyphs' = glyphs
erase_cursor ==
  /\ cursor_drawn' = FALSE
  /\ glyphs' = IF cursor_drawn THEN glyphs \ {cur.addr} ELSE glyphs

(* The mode a reset computes depends on registers that programs write. *)
reset(c) ==
  \E g \in Geoms :
    /\ scr' = [cols |-> g.cols, rows |-> g.rows]
    /\ cur' = ClampTo(c, scr')
    /\ regs' \in RegsAfter(g)

ToState(st) == state' = st /\ num_parms' = 0 /\ intermediate' = "none"
begin_csi_or_esc(st) ==
  /\ ToState(st)
  /\ UNCHANGED <<cur, scr, save, flags, regs>>

Draw ==
  /\ cur.addr <= MaxAddr
  /\ cur' = drawchar(cur, scr, "nowrap" \in flags)
  /\ ToState("normal")
  /\ UNCHANGED <<scr, save, flags, regs>>

(* A printable character, or any but ESC and CSI in pass-through mode. *)
PrintChar ==
  /\ state = "normal"
  /\ erase_cursor
  /\ Draw

PrintCtrl(ch) ==
  /\ state = "normal" /\ "passthru" \notin flags
  /\ ch = "HT" => cur.x <= MaxX
  /\ erase_cursor
  /\ IF regs = "resized"
     THEN \E g \in Geoms :
            /\ scr' = [cols |-> g.cols, rows |-> g.rows]
            /\ cur' = processctrl(ch, ClampTo(cur, scr'), scr', "newline" \in flags)
            /\ regs' \in RegsAfter(g)
     ELSE /\ cur' = processctrl(ch, cur, scr, "newline" \in flags)
          /\ UNCHANGED <<scr, regs>>
  /\ UNCHANGED <<save, state, num_parms, intermediate, flags>>

(* ESC or the eight bit CSI: sent twice in pass-through mode, it is drawn. *)
PrintEsc(st) ==
  /\ erase_cursor
  /\ IF state \in {"esc", "csi"} /\ "passthru" \in flags
     THEN Draw
     ELSE begin_csi_or_esc(st)

PrintCancel ==
  /\ state # "normal"
  /\ erase_cursor
  /\ begin_csi_or_esc("normal")

IllegalChar(final) ==
  /\ state = "illegal"
  /\ erase_cursor
  /\ begin_csi_or_esc(IF final THEN "normal" ELSE "illegal")

-----------------------------------------------------------------------------
(* xansi_process_esc. *)
SaveCursor == save' = [x |-> cur.x, y |-> cur.y, lcf |-> cur.lcf]
Restored == calc_cur_addr([x |-> save.x, y |-> save.y, lcf |-> save.lcf, addr |-> 0], scr)

EscDown == IF U16(cur.y + 1) >= scr.rows THEN cur ELSE [cur EXCEPT !.y = U16(@ + 1)]
EscUp == IF U16(cur.y - 1) >= scr.rows THEN cur ELSE [cur EXCEPT !.y = @ - 1]
(* Next line looks for the last column where the last row is meant. *)
EscNextLine ==
  [cur EXCEPT !.x = 0,
              !.y = IF U16(@ + 1) >= scr.cols THEN scr.cols - 1 ELSE U16(@ + 1)]

InEsc == state = "esc" /\ erase_cursor
EscCsi == InEsc /\ begin_csi_or_esc("csi")
EscDel == InEsc /\ begin_csi_or_esc("esc")
EscIgnored == InEsc /\ begin_csi_or_esc("normal")
EscReset ==
  /\ InEsc /\ ToState("normal")
  /\ flags' = {}
  /\ reset(Home)
  /\ UNCHANGED save
EscFont ==
  /\ InEsc /\ ToState("normal")
  /\ reset(cur)
  /\ UNCHANGED <<save, flags>>
EscSave ==
  /\ InEsc /\ ToState("normal")
  /\ SaveCursor
  /\ UNCHANGED <<cur, scr, flags, regs>>
EscMove ==
  /\ InEsc /\ ToState("normal")
  /\ cur' \in {Restored} \cup {calc_cur_addr(c, scr) : c \in {EscDown, EscUp, EscNextLine}}
  /\ UNCHANGED <<scr, save, flags, regs>>

-----------------------------------------------------------------------------
(* xansi_parse_csi. *)
CsiEaten == state = "csi" /\ erase_cursor
            /\ UNCHANGED <<cur, scr, save, state, num_parms, intermediate, flags, regs>>

CsiDigit ==
  /\ state = "csi" /\ erase_cursor
  /\ num_parms' = IF num_parms = 0 THEN 1 ELSE num_parms
  /\ UNCHANGED <<cur, scr, save, state, intermediate, flags, regs>>

(* (Mutant: one parameter more.) *)
NextParm_OffByOne ==
  IF num_parms + 1 > MaxParms
  THEN ToState("illegal")
  ELSE num_parms' = num_parms + 1 /\ UNCHANGED <<state, intermediate>>
NextParm ==
  IF num_parms + 1 >= MaxParms
  THEN ToState("illegal")
  ELSE num_parms' = num_parms + 1 /\ UNCHANGED <<state, intermediate>>
CsiSemicolon ==
  /\ state = "csi" /\ erase_cursor
  /\ NextParm
  /\ UNCHANGED <<cur, scr, save, flags, regs>>

(* $20-$2F replace an intermediate character; of "?", "<", "=" and ">"     *)
(* only the first is taken; ":" is illegal.                                *)
CsiIntermediate ==
  /\ state = "csi" /\ erase_cursor
  /\ \/ intermediate' = "other" /\ UNCHANGED <<state, num_parms>>
     \/ intermediate = "none" /\ intermediate' = "?" /\ UNCHANGED <<state, num_parms>>
     \/ ToState("illegal")
  /\ UNCHANGED <<cur, scr, save, flags, regs>>

(* xansi_process_csi: the parameters that were sent, zero for the others.  *)
Parm(i) == IF i < num_parms THEN Parms ELSE {0}
OrOne(n) == IF n = 0 THEN 1 ELSE n
FromOne(n) == IF n = 0 THEN 0 ELSE n - 1

CursorUp(n) == [cur EXCEPT !.y = IF U16(@ - n) >= scr.rows THEN 0 ELSE U16(@ - n)]
CursorDown(n) == [cur EXCEPT !.y = IF U16(@ + n) >= scr.rows THEN scr.rows - 1 ELSE U16(@ + n)]
(* (Mutant: the wrap that is due is kept.) *)
CursorRight_KeepsWrap(n) ==
  [cur EXCEPT !.x = IF U16(@ + n) >= scr.cols THEN scr.cols - 1 ELSE U16(@ + n)]
CursorRight(n) ==
  [cur EXCEPT !.lcf = FALSE,
              !.x = IF U16(@ + n) >= scr.cols THEN scr.cols - 1 ELSE U16(@ + n)]
CursorLeft(n) == [cur EXCEPT !.x = IF U16(@ - n) >= scr.cols THEN 0 ELSE U16(@ - n)]
CursorTo(row, col) ==
  [cur EXCEPT !.lcf = FALSE, !.x = Least(FromOne(col), scr.cols - 1),
              !.y = Least(FromOne(row), scr.rows - 1)]

InCsi == state = "csi" /\ erase_cursor /\ ToState("normal")
CsiMove ==
  /\ InCsi
  /\ \/ \E n \in Parm(0) : \E c \in {CursorUp(OrOne(n)), CursorDown(OrOne(n)),
                                     CursorRight(OrOne(n)), CursorLeft(OrOne(n))} :
          cur' = calc_cur_addr(c, scr)
     \/ \E row \in Parm(0), col \in Parm(1) : cur' = calc_cur_addr(CursorTo(row, col), scr)
     \/ cur' = Restored
  /\ UNCHANGED <<scr, save, flags, regs>>
CsiSave ==
  /\ InCsi
  /\ SaveCursor
  /\ cur' = calc_cur_addr(cur, scr)
  /\ UNCHANGED <<scr, flags, regs>>
(* Erasing, queries and unknown sequences. *)
CsiOther ==
  /\ InCsi
  /\ cur' = calc_cur_addr(cur, scr)
  /\ UNCHANGED <<scr, save, flags, regs>>
(* Colours, pass-through on and off; from four parameters on, the settings *)
(* that the next reset uses.                                               *)
CsiRendition ==
  /\ InCsi
  /\ cur' = calc_cur_addr(cur, scr)
  /\ \E pass \in IF num_parms = 0 THEN {FALSE} ELSE BOOLEAN :
       flags' = IF pass THEN flags \cup {"passthru"} ELSE flags \ {"passthru"}
  /\ \/ UNCHANGED regs
     \/ num_parms >= 4 /\ regs' \in {"moved", "resized"}
  /\ UNCHANGED <<scr, save>>
SetFlag(f) == flags' = flags \cup {f} \/ flags' = flags \ {f}
(* ?7 settles a wrap that is due, and the address is computed again. *)
CsiWrap ==
  /\ InCsi /\ intermediate = "?" /\ num_parms > 0
  /\ cur' = calc_cur_addr(check_lcf(cur, scr), scr)
  /\ SetFlag("nowrap")
  /\ UNCHANGED <<scr, save, regs>>
CsiFlag ==
  /\ InCsi /\ num_parms > 0
  /\ SetFlag(IF intermediate = "?" THEN "hide" ELSE "newline")
  /\ cur' = calc_cur_addr(cur, scr)
  /\ UNCHANGED <<scr, save, regs>>
CsiVideo ==
  /\ InCsi /\ intermediate = "?" /\ num_parms > 0
  /\ reset(Home)
  /\ UNCHANGED <<save, flags>>

-----------------------------------------------------------------------------
SETCURSOR(show) ==
  /\ erase_cursor
  /\ flags' = IF show THEN flags \ {"hide"} ELSE flags \cup {"hide"}
  /\ UNCHANGED <<cur, scr, save, state, num_parms, intermediate, regs>>

(* While a character is waited for: settle the wrap, then blink. *)
UPDATECURSOR(on) ==
  /\ "hide" \notin flags
  /\ cur' = check_lcf(cur, scr)
  /\ IF on
     THEN IF cursor_drawn \/ regs # "same"
          THEN UNCHANGED <<cursor_drawn, glyphs>>
          ELSE cursor_drawn' = TRUE /\ glyphs' = glyphs \cup {cur'.addr}
     ELSE /\ cursor_drawn' = FALSE
          /\ glyphs' = IF cursor_drawn THEN glyphs \ {cur'.addr} ELSE glyphs
  /\ UNCHANGED <<scr, save, state, num_parms, intermediate, flags, regs>>

ERASECURSOR ==
  /\ erase_cursor
  /\ UNCHANGED <<cur, scr, save, state, num_parms, intermediate, flags, regs>>

(* A program writes Xosera's registers without the driver knowing. *)
Program ==
  /\ regs' \in {"moved", "resized"}
  /\ UNCHANGED <<cur, scr, save, state, num_parms, intermediate, flags,
                 cursor_drawn, glyphs>>

PRINT ==
  \/ PrintChar
  \/ \E ch \in CtrlChars : PrintCtrl(ch)
  \/ \E st \in {"esc", "csi"} : PrintEsc(st)
  \/ PrintCancel
  \/ \E final \in BOOLEAN : IllegalChar(final)
  \/ EscCsi \/ EscDel \/ EscIgnored \/ EscReset \/ EscFont \/ EscSave \/ EscMove
  \/ CsiEaten \/ CsiDigit \/ CsiSemicolon \/ CsiIntermediate
  \/ CsiMove \/ CsiSave \/ CsiOther \/ CsiRendition \/ CsiWrap \/ CsiFlag \/ CsiVideo

Next ==
  \/ PRINT
  \/ \E show \in BOOLEAN : SETCURSOR(show)
  \/ \E on \in BOOLEAN : UPDATECURSOR(on)
  \/ ERASECURSOR
  \/ Program

Spec == Init /\ [][Next]_vars

-----------------------------------------------------------------------------
TypeOK ==
  /\ cur \in [x : Words, y : Words, lcf : BOOLEAN, addr : Words]
  /\ scr \in [cols : Sizes, rows : Sizes]
  /\ save \in [x : Words, y : Words, lcf : BOOLEAN]
  /\ state \in {"normal", "illegal", "esc", "csi"}
  /\ num_parms \in 0..MaxParms /\ intermediate \in {"none", "?", "other"}
  /\ flags \subseteq Flags /\ regs \in {"same", "moved", "resized"}
  /\ cursor_drawn \in BOOLEAN /\ glyphs \subseteq Words

(* The digits of a sequence are stored in csi_parms[num_parms - 1], and    *)
(* the final character reads csi_parms[0 .. num_parms - 1]: both stay in   *)
(* the array however many parameters are sent.                             *)
ParmsInArray == state = "csi" => num_parms < MaxParms

(* The comment in xansi_processctrl relied on by backspace: a wrap is due  *)
(* only at the left margin, whatever moved, saved or restored the cursor.  *)
(* (With parameters up to 65536 - cols: a larger one takes the cursor left *)
(* around to the right of the screen.)                                     *)
WrapAtMargin == cur.lcf => cur.x = 0

(* The input cursor is in the text exactly where the driver thinks it is:  *)
(* it never stays behind when the text moves on, and none is drawn twice.  *)
NoFossil == glyphs = IF cursor_drawn THEN {cur.addr} ELSE {}

(* xansi_assert_xy_valid, the assertion of the debug build before and      *)
(* after every character: the address is that of x and y, or one line      *)
(* further while a wrap is due.                                            *)
XYValid ==
  LET cx == cur.addr % scr.cols
      cy == cur.addr \div scr.cols
  IN  (cur.x = cx /\ cur.y = cy) \/ (cur.lcf /\ cy = cur.y + 1)

(* The address is that of x and y, or the end of the screen with a wrap    *)
(* due: what all movements are written to keep.                            *)
Agrees ==
  \/ cur.addr = calc_addr(scr, cur.x, cur.y)
  \/ cur.lcf /\ cur.addr = Size(scr) /\ cur.y = scr.rows - 1 /\ cur.x = 0

(* Agreement is lost in two ways only: while a wrap is due at the end of   *)
(* the screen (by the control characters, which drop the wrap and keep the *)
(* address), and when a cursor that has left the screen (by a tab, a       *)
(* position saved in a larger mode, the next line sequence) is moved on.   *)
LostOnlyAtEdges ==
  [][Agrees /\ ~Agrees' => \/ cur.lcf /\ cur.addr = Size(scr)
                          \/ cur.x >= scr.cols
                          \/ cur.y >= scr.rows]_vars
=============================================================================
