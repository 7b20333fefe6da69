-------------------------------- MODULE Sdcard --------------------------------
(***************************************************************************)
(* The SD card driver (stage1/blockdev/bbsd.c): card initialisation with   *)
(* its retries and card types, block reads and block writes.               *)
(*                                                                         *)
(* A step is one command, or one round of a retry loop, with the answer    *)
(* that the card gives; 16#FF, no answer in time, is always possible.  The *)
(* card (external, as the driver uses it) may be changed at any time; a    *)
(* card that was put in answers nothing until it has seen CMD0.  Block     *)
(* contents are left out: a transfer is known by the block of the card     *)
(* that it reached.                                                        *)
(***************************************************************************)
EXTENDS Naturals

CONSTANTS
  BlockBytes,       \* 512
  AddrLimit,        \* 2^32: the argument of a command wraps
  Blocks,           \* bound: block numbers that are asked for
  MaxIdleRetries,   \* BBSD_MAX_IDLE_RETRIES
  MaxAcmd41Retries  \* BBSD_MAX_ACMD41_RETRIES

ASSUME SdAssumption ==
  /\ BlockBytes \in Nat \ {0} /\ AddrLimit \in Nat \ {0} /\ Blocks \subseteq Nat
  /\ MaxIdleRetries \in Nat \ {0} /\ MaxAcmd41Retries \in Nat \ {0}

VARIABLES
  card,        \* the card: its kind, and how far it is initialised
  sd,          \* the caller's SDCard struct: initialized and type
  sd_init,     \* where BBSD_initialize is: step, card_type and tries
  sd_status,   \* what it returned last; "none" before the first call
  ocr_failed,  \* it left early, since CMD58 failed
  sd_io        \* the last transfer that was reported done: the block asked
               \* for and the block of the card, if it reached one

sdVars == <<card, sd, sd_init, sd_status, ocr_failed, sd_io>>

Kinds == {"none", "V1", "V2", "SDHC"}
CardTypes == {"V1", "V2", "SDHC", "unknown"}
Statuses == {"none", "OK", "IDLE_FAILED", "CMD8_FAILED", "ACMD41_FAILED"}
NoBlock == AddrLimit
NoIO == [block |-> 0, at |-> 0]

(* At "idle" the card type is not known yet. *)
AtStep(step, type, tries) == [step |-> step, type |-> type, tries |-> tries]
NotIn == AtStep("out", "unknown", 0)

SdInit ==
  /\ card \in [kind : Kinds, st : {"off"}]
  /\ sd = [initialized |-> FALSE, type |-> "unknown"]
  /\ sd_init = NotIn
  /\ sd_status = "none"
  /\ ocr_failed = FALSE
  /\ sd_io = NoIO

-----------------------------------------------------------------------------
(* BBSD_initialize, with a struct that was used before or, as the one on   *)
(* the stack of sd_load_kernel, was never set and may hold anything.       *)
BBSD_initialize ==
  /\ sd_init.step = "out"
  /\ sd_init' = AtStep("idle", "unknown", 1)
  /\ sd' \in [initialized : BOOLEAN, type : CardTypes]
  /\ ocr_failed' = FALSE
  /\ sd_io' = NoIO
  /\ UNCHANGED <<card, sd_status>>

Leave(status) == sd_init' = NotIn /\ sd_status' = status

(* reset_card and send_idle.  A CMD0 may reach the card and the answer be  *)
(* lost.                                                                   *)
SendIdle ==
  /\ sd_init.step = "idle" /\ card.kind # "none"
  /\ card' = [card EXCEPT !.st = "idle"]
  /\ sd_init' = AtStep("type", "unknown", 0)
  /\ UNCHANGED <<sd, sd_status, ocr_failed, sd_io>>
(* (Mutants: the tries are not limited; they are not counted.) *)
SendIdleFails_NoLimit ==
  /\ sd_init.step = "idle"
  /\ card' \in {card, [card EXCEPT !.st = IF card.kind = "none" THEN @ ELSE "idle"]}
  /\ sd_init' = [sd_init EXCEPT !.tries = @ + 1]
  /\ UNCHANGED <<sd, sd_status, ocr_failed, sd_io>>
SendIdleFails_NotCounted ==
  /\ sd_init.step = "idle"
  /\ card' \in {card, [card EXCEPT !.st = IF card.kind = "none" THEN @ ELSE "idle"]}
  /\ UNCHANGED <<sd, sd_init, sd_status, ocr_failed, sd_io>>
SendIdleFails ==
  /\ sd_init.step = "idle"
  /\ card' \in {card, [card EXCEPT !.st = IF card.kind = "none" THEN @ ELSE "idle"]}
  /\ IF sd_init.tries = MaxIdleRetries
     THEN Leave("IDLE_FAILED")
     ELSE sd_init' = [sd_init EXCEPT !.tries = @ + 1] /\ UNCHANGED sd_status
  /\ UNCHANGED <<sd, ocr_failed, sd_io>>

(* get_card_type.  No answer has the illegal command bit set, too: it is   *)
(* taken for a V1 card.  Only the last byte of an answer counts.           *)
CardTypesSeen ==
  {"V1"} \cup (IF card.kind \in {"V2", "SDHC"} /\ card.st # "off" THEN {"V2", "unknown"} ELSE {})
GetCardType ==
  /\ sd_init.step = "type"
  /\ \E t \in CardTypesSeen :
       IF t = "unknown"
       THEN Leave("CMD8_FAILED")
       ELSE sd_init' = AtStep("acmd41", t, 0) /\ UNCHANGED sd_status
  /\ UNCHANGED <<card, sd, ocr_failed, sd_io>>

(* try_acmd41.  A high capacity card does not become ready for a host that *)
(* does not say that it supports them.  (Mutant: it always says so.)       *)
Supports_Always == TRUE
Supports == sd_init.type = "V2"
CanGetReady ==
  card.st = "ready" \/ (card.st = "idle" /\ (card.kind = "SDHC" => Supports))

Done(type) ==
  /\ sd' = [initialized |-> TRUE, type |-> type]
  /\ Leave("OK")
TryAcmd41 ==
  /\ sd_init.step = "acmd41" /\ CanGetReady
  /\ card' = [card EXCEPT !.st = "ready"]
  /\ IF sd_init.type = "V2"
     THEN sd_init' = AtStep("ocr", "V2", 0) /\ UNCHANGED <<sd, sd_status>>
     ELSE Done(sd_init.type)
  /\ UNCHANGED <<ocr_failed, sd_io>>
TryAcmd41Fails ==
  /\ sd_init.step = "acmd41"
  /\ card' \in {card, [card EXCEPT !.st = IF CanGetReady THEN "ready" ELSE @]}
  /\ IF sd_init.tries + 1 = MaxAcmd41Retries
     THEN Leave("ACMD41_FAILED")
     ELSE sd_init' = [sd_init EXCEPT !.tries = @ + 1] /\ UNCHANGED sd_status
  /\ UNCHANGED <<sd, ocr_failed, sd_io>>

(* CMD58: if it fails, the function leaves with the OK that result was set *)
(* to at first, and nothing is stored in the struct.                       *)
ReadOcr ==
  /\ sd_init.step = "ocr" /\ card.st = "ready"
  /\ Done(IF card.kind = "SDHC" THEN "SDHC" ELSE "V2")
  /\ UNCHANGED <<card, ocr_failed, sd_io>>
ReadOcrFails ==
  /\ sd_init.step = "ocr"
  /\ ocr_failed' = TRUE
  /\ Leave("OK")
  /\ UNCHANGED <<card, sd, sd_io>>

InitStep == SendIdle \/ SendIdleFails \/ GetCardType \/ TryAcmd41 \/ TryAcmd41Fails
            \/ ReadOcr \/ ReadOcrFails

-----------------------------------------------------------------------------
(* BBSD_read_block and BBSD_write_block. *)
Address(b) == IF sd.type = "SDHC" THEN b ELSE (b * BlockBytes) % AddrLimit

(* The blocks of the card at an address: one, or none (an address error,   *)
(* or beyond the end of the card, wherever that is).                       *)
Reached(a) ==
  IF card.st # "ready" THEN {}
  ELSE IF card.kind = "SDHC" THEN {a}
  ELSE IF a % BlockBytes = 0 THEN {a \div BlockBytes} ELSE {}

(* Callers use a struct after an initialisation that reported success. *)
MayUse == sd_init.step = "out" /\ sd_status = "OK"

BBSD_read_block(b) ==
  /\ MayUse /\ sd.initialized
  /\ \E at \in Reached(Address(b)) : sd_io' = [block |-> b, at |-> at]
  /\ UNCHANGED <<card, sd, sd_init, sd_status, ocr_failed>>

(* The card's answer to the data is not read: a block that the card has    *)
(* refused is reported as written.                                         *)
BBSD_write_block(b) ==
  /\ MayUse /\ sd.initialized
  /\ \E at \in Reached(Address(b)) \cup {NoBlock} :
       /\ Reached(Address(b)) # {}
       /\ sd_io' = [block |-> b, at |-> at]
  /\ UNCHANGED <<card, sd, sd_init, sd_status, ocr_failed>>

(* Not initialised, an error, or no answer in time. *)
SdFails ==
  /\ MayUse
  /\ sd_io' = NoIO
  /\ UNCHANGED <<card, sd, sd_init, sd_status, ocr_failed>>

(* The caller's struct is gone, and with it what was known of the card. *)
SdDropped ==
  /\ sd' = [initialized |-> FALSE, type |-> "unknown"]
  /\ sd_init' = NotIn /\ sd_status' = "none"
  /\ ocr_failed' = FALSE /\ sd_io' = NoIO
  /\ UNCHANGED card

ChangeCard(k) ==
  /\ card' = [kind |-> k, st |-> "off"]
  /\ UNCHANGED <<sd, sd_init, sd_status, ocr_failed, sd_io>>

SdNext ==
  \/ BBSD_initialize
  \/ InitStep
  \/ \E b \in Blocks : BBSD_read_block(b) \/ BBSD_write_block(b)
  \/ SdFails
  \/ SdDropped
  \/ \E k \in Kinds : ChangeCard(k)

SdSpec == SdInit /\ [][SdNext]_sdVars

-----------------------------------------------------------------------------
SdTypeOK ==
  /\ card \in [kind : Kinds, st : {"off", "idle", "ready"}]
  /\ sd \in [initialized : BOOLEAN, type : CardTypes]
  /\ sd_init \in [step : {"out", "idle", "type", "acmd41", "ocr"}, type : CardTypes,
                  tries : 0..(MaxIdleRetries + MaxAcmd41Retries)]
  /\ sd_status \in Statuses /\ ocr_failed \in BOOLEAN
  /\ sd_io \in [block : Nat, at : Nat]

(* A transfer that is reported done has reached the block that was asked   *)
(* for, or none: the card type, put together from three answers any of     *)
(* which may be missing, is the right one for addressing, for a card that  *)
(* was changed after the struct was set up as well.  Two exceptions: an    *)
(* initialisation that left at CMD58, and, for a card that is addressed by *)
(* bytes, blocks whose address does not fit into 32 bits.                  *)
RightBlock ==
  \/ sd_io.at \in {sd_io.block, NoBlock}
  \/ ocr_failed
  \/ sd.type # "SDHC" /\ sd_io.block * BlockBytes >= AddrLimit
=============================================================================
