------------------------------ MODULE Kmachine ------------------------------
(***************************************************************************)
(* Interrupt masking in the ROM kernel (kernel/kmachine.asm).              *)
(*                                                                         *)
(* The interrupt state of the machine is a record                          *)
(*   count  : disable_intr_count, one global word shared by every task     *)
(*   masked : the priority field of SR, abstracted to "7" (TRUE: the       *)
(*            timer and the devices cannot interrupt) or "0" (FALSE)       *)
(*                                                                         *)
(* The two calls are functions from interrupt state to interrupt state so  *)
(* that a caller's sequence of calls is their composition.                 *)
(***************************************************************************)
EXTENDS Naturals

IntrState == [count : Nat, masked : BOOLEAN]

(* SR is masked before the counter is touched. *)
disable_interrupts(i) == [count |-> i.count + 1, masked |-> TRUE]

(* Plausible defects of enable_interrupts, used as mutants: the zero test  *)
(* is missing; the counter is not consulted.                               *)
enable_interrupts_NoZeroTest(i) ==
  [count |-> i.count - 1, masked |-> IF i.count = 1 THEN FALSE ELSE i.masked]
enable_interrupts_Flat(i) ==
  [count |-> IF i.count = 0 THEN 0 ELSE i.count - 1, masked |-> FALSE]

(* The counter stops at zero, and SR is only unmasked by the call that     *)
(* takes it from one to zero: with the counter already at zero the call    *)
(* does nothing at all, whatever SR holds.                                 *)
enable_interrupts(i) ==
  IF i.count = 0
  THEN i
  ELSE [count  |-> i.count - 1,
        masked |-> IF i.count = 1 THEN FALSE ELSE i.masked]

(* What a routine of the form disable ... enable leaves behind. *)
Bracketed(i) == enable_interrupts(disable_interrupts(i))

(* rte and "move.w (a7)+,sr" load SR from the stack. *)
SetSR(i, m) == [i EXCEPT !.masked = m]
=============================================================================
