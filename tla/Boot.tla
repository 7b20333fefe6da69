---------------------------------- MODULE Boot ----------------------------------
(***************************************************************************)
(* The way from a reset to a program (stage1/main1.c, stage2/main2.c and   *)
(* its SD and IDE loaders), over the keyboard dialogue, the ATA and SD     *)
(* drivers and the loaders, with programs that use the drivers and exit to *)
(* a warm boot, and resets at any time.                                    *)
(*                                                                         *)
(* The file systems read through the same driver calls as programs; here   *)
(* a load is one call of load_kernel and what its steps store.             *)
(***************************************************************************)
EXTENDS Keyboard, Ata, Sdcard, Load

CONSTANTS
  Machines     \* configurations: the device on the keyboard port, the cards that
               \* may be put in, the drives that are there, the media with a
               \* program, an Xosera board, and as bounds the drivers that
               \* programs call, and how many resets there are

(* The partition tables are within the bounds on sectors and blocks. *)
ASSUME TablesAssumption ==
  Drives \subseteq DeviceNums /\ 0 \in Lbas /\ 1 <= MaxNum /\ 0 \in Blocks
ASSUME BootAssumption ==
  \A m \in Machines :
    /\ m.port \in {"none", "keyboard", "other"}
    /\ m.cards # {} /\ m.cards \subseteq Kinds /\ m.drives \subseteq Drives
    /\ m.files \subseteq Media
    /\ m.xosera \in BOOLEAN /\ m.calls \subseteq {"ata", "sd"} /\ m.resets \in Nat

VARIABLES
  machine,     \* the configuration
  pc,          \* how far the boot has come
  found,       \* ata_m and ata_s: the drives that ata_probe has identified
  resets

driverVars == <<kbdVars, ataVars, sdVars, loadVars>>
vars == <<driverVars, machine, pc, found, resets>>

Stages == {"kbd", "probe0", "probing0", "probe1", "probing1", "stage2", "menu", "choice", "waiting",
           "sd", "sd_init", "sd_part", "sd_file", "ide0", "ide0_part", "ide1", "ide1_part",
           "loading", "romfs", "kermit", "start", "kernel", "halted"}

BootInit ==
  /\ machine \in Machines
  /\ KeyboardInit /\ port = machine.port
  /\ SdInit /\ card.kind \in machine.cards
  /\ AtaInit /\ \A d \in Drives : drives[d].st # "gone" <=> d \in machine.drives
  /\ LoadInit
  /\ pc = "kbd" /\ found = {} /\ resets = 0

(* One part takes a step; the others do not. *)
OnlyKeyboard == UNCHANGED <<ataVars, sdVars, loadVars, machine, found, resets>>
OnlyAta == UNCHANGED <<kbdVars, sdVars, loadVars, machine, resets>>
OnlySd == UNCHANGED <<kbdVars, ataVars, loadVars, machine, found, resets>>
OnlyLoad == UNCHANGED <<kbdVars, ataVars, sdVars, machine, found, resets>>
OnlyPc == UNCHANGED <<driverVars, machine, found, resets>>

-----------------------------------------------------------------------------
(* main1: initialize_keyboard, then ata_init. *)
DetectKeyboard ==
  /\ pc = "kbd"
  /\ DetectStep
  /\ pc' = IF kbd' = Over THEN "probe0" ELSE "kbd"
  /\ OnlyKeyboard

(* ata_probe, if the interface answers at all. *)
NoInterface == pc = "probe0" /\ pc' = "stage2" /\ OnlyPc
Probe(d, at, during) ==
  /\ pc = at
  /\ ata_identify(d)
  /\ pc' = during
  /\ UNCHANGED found /\ OnlyAta
Probed(d, during, next) ==
  /\ pc = during /\ Idle
  /\ pc' = next
  /\ found' = IF Returned = 1 THEN found \cup {d} ELSE found
  /\ UNCHANGED <<driverVars, machine, resets>>

(* default_program_loader: stage 2 is decompressed and started, or cannot  *)
(* be.                                                                     *)
ProgramLoader ==
  /\ pc = "stage2"
  /\ \/ Stage2Start /\ pc' = IF machine.xosera THEN "menu" ELSE "sd"
     \/ pc' = "halted" /\ UNCHANGED loadVars
  /\ OnlyLoad

(* handle_boot_menu: no menu (or no valid one), or one with five seconds   *)
(* on its timer.                                                           *)
BootMenu ==
  /\ pc = "menu"
  /\ \/ MenuText /\ pc' \in {"choice", "sd"}
     \/ UNCHANGED loadVars /\ pc' = "sd"
  /\ OnlyLoad
(* What was selected is a program in the ROM file system, or to go on. *)
Selection ==
  \/ RomfsLoad("menu") /\ pc' = IF ld'.at = "loaded" THEN "start" ELSE "loading"
  \/ pc' = "sd" /\ UNCHANGED loadVars
MenuExpires == pc = "choice" /\ Selection /\ OnlyLoad
(* Somebody at the keys: the selection is moved, which stops the timer for *)
(* good, or confirmed, or a Kermit transfer begins.                        *)
MenuInput ==
  /\ pc \in {"choice", "waiting"}
  /\ Selection \/ (pc' \in {"waiting", "kermit"} /\ UNCHANGED loadVars)
  /\ OnlyLoad

(* load_kernel, on a medium that may hold a program. *)
FindFile(m) == load_kernel(m) /\ (ld'.at # "failed" => m \in machine.files)

(* sd_load_kernel: the card, its partition table, and load_kernel. *)
SdStart == pc = "sd" /\ BBSD_initialize /\ pc' = "sd_init" /\ OnlySd
SdStarted ==
  /\ pc = "sd_init" /\ sd_init.step = "out"
  /\ IF sd_status = "OK" /\ sd.type # "unknown"
     THEN pc' = "sd_part" /\ UNCHANGED sdVars
     ELSE pc' = "ide0" /\ SdDropped
  /\ OnlySd
SdTable == pc = "sd_part" /\ (BBSD_read_block(0) \/ SdFails) /\ pc' = "sd_file" /\ OnlySd
SdFile ==
  /\ pc = "sd_file"
  /\ \/ sd_io # NoIO /\ FindFile("sd") /\ pc' = "loading"
     \/ UNCHANGED loadVars /\ pc' = "ide0"
  /\ SdDropped
  /\ UNCHANGED <<kbdVars, ataVars, machine, found, resets>>

(* try_boot: ATA_init, the partition table, and load_kernel. *)
TryBoot(d, at, part, next) ==
  /\ pc = at
  /\ IF d \in found
     THEN ata_read(d, 0, 1) /\ pc' = part
     ELSE UNCHANGED ataVars /\ pc' = next
  /\ UNCHANGED found /\ OnlyAta
IdePartitions(part, m, next) ==
  /\ pc = part /\ Idle
  /\ \/ Returned = 1 /\ FindFile(m) /\ pc' = "loading"
     \/ UNCHANGED loadVars /\ pc' = next
  /\ OnlyLoad

AfterMedium ==
  [menu |-> "sd", sd |-> "ide0", ide0 |-> "ide1", ide1 |-> "romfs", romfs |-> "kermit"]
(* A file is loaded: to the program, or to the next medium. *)
Loading ==
  /\ pc = "loading"
  /\ \/ FileStep /\ pc' = IF ld'.at = "loaded" THEN "start" ELSE "loading"
     \/ NextMedium /\ pc' = AfterMedium[ld.medium]
  /\ OnlyLoad

RomfsKernel ==
  /\ pc = "romfs"
  /\ RomfsLoad("romfs")
  /\ pc' = IF ld'.at = "loaded" THEN "start" ELSE "loading"
  /\ OnlyLoad

(* Kermit, again and again. *)
Receive ==
  /\ pc = "kermit"
  /\ receive_kernel
  /\ pc' = IF ld'.at = "loaded" THEN "start" ELSE "kermit"
  /\ OnlyLoad

(* kernel_entry(sdb): from here on memory is the program's. *)
CallKernel == pc = "start" /\ Stage2Start /\ pc' = "kernel" /\ OnlyLoad

(* The steps of a driver call that has begun. *)
AtaStep == DriverStep /\ UNCHANGED <<pc, found>> /\ OnlyAta
SdStep == InitStep /\ UNCHANGED pc /\ OnlySd

BootStep ==
  \/ DetectKeyboard
  \/ NoInterface
  \/ Probe(0, "probe0", "probing0") \/ Probed(0, "probing0", "probe1")
  \/ Probe(1, "probe1", "probing1") \/ Probed(1, "probing1", "stage2")
  \/ ProgramLoader
  \/ BootMenu \/ MenuExpires
  \/ SdStart \/ SdStarted \/ SdTable \/ SdFile
  \/ TryBoot(0, "ide0", "ide0_part", "ide1") \/ IdePartitions("ide0_part", "ide0", "ide1")
  \/ TryBoot(1, "ide1", "ide1_part", "romfs") \/ IdePartitions("ide1_part", "ide1", "romfs")
  \/ Loading
  \/ RomfsKernel
  \/ CallKernel
  \/ AtaStep
  \/ SdStep

-----------------------------------------------------------------------------
(* A program calls the drivers, exits to pre_warm_boot (or returns, which  *)
(* is the end).                                                            *)
NoCall == Idle /\ sd_init.step = "out"
ProgramAta ==
  /\ pc = "kernel" /\ "ata" \in machine.calls /\ NoCall
  /\ AtaCall
  /\ UNCHANGED <<pc, found>> /\ OnlyAta
ProgramSd ==
  /\ pc = "kernel" /\ "sd" \in machine.calls /\ NoCall
  /\ \/ BBSD_initialize
     \/ \E b \in Blocks : BBSD_read_block(b) \/ BBSD_write_block(b)
     \/ SdFails
  /\ UNCHANGED pc /\ OnlySd
ProgramExit ==
  /\ pc = "kernel" /\ NoCall
  /\ pc' \in {"stage2", "halted"}
  /\ SdDropped /\ AtaDropped
  /\ UNCHANGED <<kbdVars, loadVars, machine, found, resets>>

(* The devices. *)
Devices ==
  /\ \/ (KeyboardSends \/ StrayChar) /\ OnlyKeyboard
     \/ (\E d \in Drives : DriveWorks(d)) /\ UNCHANGED found /\ OnlyAta
     \/ (\E k \in machine.cards : ChangeCard(k)) /\ OnlySd
  /\ UNCHANGED pc

(* A reset: the firmware starts over; the keyboard and the card do not. *)
Reset ==
  /\ resets < machine.resets
  /\ resets' = resets + 1
  /\ pc' = "kbd" /\ found' = {}
  /\ KeyboardReset
  /\ AtaReset
  /\ SdDropped
  /\ Stage2Start
  /\ UNCHANGED machine

BootNext ==
  BootStep \/ MenuInput \/ Receive \/ ProgramAta \/ ProgramSd \/ ProgramExit \/ Devices \/ Reset

BootSpec == BootInit /\ [][BootNext]_vars
(* The processor runs on, and so does the timer of the menu; people,       *)
(* programs and devices need not do anything.                              *)
FairBoot == BootSpec /\ WF_vars(BootStep)

-----------------------------------------------------------------------------
BootTypeOK ==
  /\ KeyboardTypeOK /\ AtaTypeOK /\ SdTypeOK /\ LoadTypeOK
  /\ machine \in Machines /\ pc \in Stages /\ found \subseteq Drives
  /\ resets \in 0..machine.resets

(* Every boot gets somewhere: to a program, to the Kermit loop, to a halt  *)
(* or to somebody at the menu whose key has stopped its timer, whatever    *)
(* the keyboard, the drives and the card do or fail to do, and whatever    *)
(* state they were left in, unless a load has destroyed stage 2.           *)
BootEnds == []<>(pc \in {"kermit", "kernel", "halted", "waiting"} \/ ld.at = "overrun")
=============================================================================
