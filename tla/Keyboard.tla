------------------------------- MODULE Keyboard -------------------------------
(***************************************************************************)
(* Keyboard detection (stage1/keyboard.c): a dialogue of commands and      *)
(* answers over the second serial port, each character of an answer        *)
(* awaited for TIMEOUT_TICKS.  The keyboard (external, as the code uses    *)
(* it) answers commands in order and at its own pace, so an answer may     *)
(* come after its time-out, and after a reset of the machine even in the   *)
(* middle of the next dialogue.  What else is connected may send           *)
(* characters that have nothing to do with it.                             *)
(*                                                                         *)
(* The nine characters of the ident string are two here, and the key       *)
(* count, LED count and capabilities, any characters, are one.             *)
(***************************************************************************)
EXTENDS Naturals, Sequences

CONSTANTS
  MaxStray    \* bound: characters that another device sends

ASSUME KeyboardAssumption == MaxStray \in Nat

VARIABLES
  port,       \* the device on the port
  kbd_mode,   \* the keyboard's mode
  kbd_out,    \* what the keyboard has still to send
  uart,       \* the characters that were received and not read
  kbd,        \* detection: how many characters it has got, or its end
  installed,  \* the keyboard handlers are installed
  stray       \* characters the other device has sent

kbdVars == <<port, kbd_mode, kbd_out, uart, kbd, installed, stray>>

(* What a character may be: of the ident string, a mode number, a count    *)
(* (anything), zero, an acknowledgement.                                   *)
Chars == {"r", "k", "mode", "count", "zero", "ack"}
IdentAnswer == <<"r", "k", "mode", "count", "zero", "zero", "ack">>
(* try_reset_keyboard: mouse stream off, four LEDs, then ASCII mode. *)
ResetCommands == 6
Dialogue == IdentAnswer \o [i \in 1..ResetCommands |-> "ack"]
Last == Len(Dialogue)
Ended == Last + 1     \* detect_keyboard has returned
Over == Last + 2      \* initialize_keyboard has returned

KeyboardInit ==
  /\ port \in {"none", "keyboard", "other"}
  /\ kbd_mode = "scan"
  /\ kbd_out = <<>> /\ uart = <<>>
  /\ kbd = 0 /\ installed = FALSE
  /\ stray = 0

(* CHAR_DEV_SENDCHAR: the command for answer character i is sent. *)
Command(answer) == kbd_out' = IF port = "keyboard" THEN kbd_out \o answer ELSE kbd_out

(* initialize_keyboard returns at once: there is no second serial port. *)
NoDevice ==
  /\ kbd = 0 /\ port = "none"
  /\ kbd' = Over
  /\ UNCHANGED <<port, kbd_mode, kbd_out, uart, installed, stray>>

(* Clear the buffer, send IDENT. *)
StartDetect ==
  /\ kbd = 0
  /\ uart' = <<>>
  /\ Command(IdentAnswer)
  /\ kbd' = 1
  /\ UNCHANGED <<port, kbd_mode, installed, stray>>

(* The last reset command is the mode. *)
NextCommand(i) ==
  IF i < Len(IdentAnswer) \/ i = Last THEN UNCHANGED kbd_out
  ELSE Command(<<IF i + 1 = Last THEN "ackmode" ELSE "ack">>)

(* A count is taken whatever it is. *)
Expected(i) == IF Dialogue[i] = "count" THEN Chars ELSE {Dialogue[i]}

(* try_get_char, and the comparison: the next command, the end, or failure *)
(* at the first character that is not the right one.  (Mutant: a command   *)
(* that is not acknowledged is skipped.)                                   *)
GotChar ==
  /\ kbd \in 1..Last /\ uart # <<>>
  /\ uart' = Tail(uart)
  /\ IF Head(uart) \in Expected(kbd)
     THEN /\ kbd' = kbd + 1
          /\ NextCommand(kbd)
          /\ installed' = (kbd = Last)
     ELSE /\ kbd' = Ended
          /\ UNCHANGED <<kbd_out, installed>>
  /\ UNCHANGED <<port, kbd_mode, stray>>

TimedOut_Skip ==
  /\ kbd \in 1..Last /\ uart = <<>>
  /\ IF kbd > Len(IdentAnswer)
     THEN /\ kbd' = kbd + 1
          /\ NextCommand(kbd)
          /\ installed' = (kbd = Last)
     ELSE kbd' = Ended /\ UNCHANGED <<kbd_out, installed>>
  /\ UNCHANGED <<port, kbd_mode, uart, stray>>
TimedOut ==
  /\ kbd \in 1..Last /\ uart = <<>>
  /\ kbd' = Ended
  /\ UNCHANGED <<port, kbd_mode, kbd_out, uart, installed, stray>>

(* The end of initialize_keyboard. *)
MopUp ==
  /\ kbd = Ended
  /\ uart' = <<>>
  /\ kbd' = Over
  /\ UNCHANGED <<port, kbd_mode, kbd_out, installed, stray>>

(* The keyboard sends what is due, and has then done what it was told to. *)
KeyboardSends ==
  /\ kbd_out # <<>>
  /\ kbd_out' = Tail(kbd_out)
  /\ uart' = Append(uart, IF Head(kbd_out) = "ackmode" THEN "ack" ELSE Head(kbd_out))
  /\ kbd_mode' = IF Head(kbd_out) = "ackmode" THEN "ascii" ELSE kbd_mode
  /\ UNCHANGED <<port, kbd, installed, stray>>

StrayChar ==
  /\ port = "other" /\ stray < MaxStray
  /\ \E c \in Chars : uart' = Append(uart, c)
  /\ stray' = stray + 1
  /\ UNCHANGED <<port, kbd_mode, kbd_out, kbd, installed>>

DetectStep == NoDevice \/ StartDetect \/ GotChar \/ TimedOut \/ MopUp

(* The machine is reset: the keyboard is not. *)
KeyboardReset ==
  /\ kbd' = 0 /\ installed' = FALSE
  /\ UNCHANGED <<port, kbd_mode, kbd_out, uart, stray>>

KeyboardNext == DetectStep \/ KeyboardSends \/ StrayChar \/ KeyboardReset

KeyboardSpec == KeyboardInit /\ [][KeyboardNext]_kbdVars

-----------------------------------------------------------------------------
KeyboardTypeOK ==
  /\ port \in {"none", "keyboard", "other"} /\ kbd_mode \in {"scan", "ascii"}
  /\ kbd_out \in Seq(Chars \cup {"ackmode"}) /\ uart \in Seq(Chars)
  /\ kbd \in 0..Over /\ installed \in BOOLEAN /\ stray \in 0..MaxStray

(* The handlers, which take what they receive for ASCII, are installed     *)
(* only over a keyboard that is in ASCII mode: no answer that came late,   *)
(* to an earlier command or an earlier dialogue, is taken for a later one. *)
(* (Another device that happens to send the whole dialogue would pass for  *)
(* a keyboard: MaxStray is less than that.)                                *)
InstalledInAscii == installed => port = "keyboard" /\ kbd_mode = "ascii"
=============================================================================
