---------------------------------- MODULE Ata ----------------------------------
(***************************************************************************)
(* The ATA driver (stage1/blockdev/ata.c): two drives on one cable, polled *)
(* with time-outs.  The drives (external, as the driver uses them) work on *)
(* by themselves: a command that the driver has given up on may still      *)
(* finish later, in the middle of a later call or while the other drive is *)
(* selected.                                                               *)
(*                                                                         *)
(* A step of the driver is a register access that a drive can answer in    *)
(* more than one way; what lies between two of them is one step.  A        *)
(* time-out is possible as long as the drive is busy.  Sector contents are *)
(* left out: what is read is known by the drive and the number it came     *)
(* from.                                                                   *)
(***************************************************************************)
EXTENDS Naturals, Sequences

CONSTANTS
  LbaLimit,    \* 2^28: the sectors that the LBA registers can number
  Lbas,        \* bound: first sectors that are asked for
  MaxNum,      \* bound: sectors of one call
  DeviceNums   \* the device_num of the ATADevice structs that are passed in

ASSUME AtaAssumption ==
  /\ LbaLimit \in Nat \ {0} /\ Lbas \subseteq Nat /\ MaxNum \in Nat
  /\ DeviceNums \subseteq Nat

Drives == {0, 1}         \* ATA_MASTER, ATA_SLAVE
NoDrive == 255

VARIABLES
  selected_drive,  \* the driver's idea of the drive that is selected
  devsel,          \* the drive that is selected
  drives,          \* what each drive is at
  call,            \* the call in progress
  buf              \* the sectors the current or last call has put in the buffer

ataVars == <<selected_drive, devsel, drives, call, buf>>

(* A drive is idle, busy with a command, has a data transfer to offer, or  *)
(* has the error bit set; "gone": there is none.                           *)
Commands == {"none", "identify", "read", "write", "flush"}
DriveStates == [st : {"gone", "idle", "busy", "drq", "err"}, cmd : Commands, lba : Nat]
Drive(st, cmd, lba) == [st |-> st, cmd |-> cmd, lba |-> lba]

(* A call: the next thing to be polled for ("ready" or "poll"), or that it *)
(* has returned ("done"), and the sectors done so far.                     *)
Call(cmd, drive, lba, num, done, at) ==
  [cmd |-> cmd, drive |-> drive, lba |-> lba, num |-> num, done |-> done, at |-> at]
Calls == [cmd : {"identify", "read", "write"}, drive : Nat, lba : Nat, num : Nat,
          done : Nat, at : {"ready", "poll", "done"}]
Idle == call.at = "done"
(* The number of sectors, or for identify whether it worked. *)
Returned == call.done

(* A sector that was read, known by the drive and the number. *)
Sectors == [drive : Drives, lba : Nat]

NoCallYet == Call("identify", 0, 0, 1, 0, "done")

AtaInit ==
  /\ selected_drive = NoDrive /\ devsel = 0
  /\ drives \in [Drives -> {Drive("gone", "none", 0), Drive("idle", "none", 0)}]
  /\ call = NoCallYet
  /\ buf = <<>>

ata_select_drive(d) ==
  IF d = selected_drive THEN UNCHANGED <<selected_drive, devsel>>
  ELSE selected_drive' = d /\ devsel' = IF d = 0 THEN 0 ELSE 1

Begin(cmd, d, lba, num) ==
  /\ Idle
  /\ ata_select_drive(d)
  /\ call' = Call(cmd, d, lba, num, 0, IF num = 0 THEN "done" ELSE "ready")
  /\ buf' = <<>>
  /\ UNCHANGED drives

ata_identify(d) == Begin("identify", d, 0, 1)
ata_read(d, lba, num) == Begin("read", d, lba, num)
ata_write(d, lba, num) == Begin("write", d, lba, num)

-----------------------------------------------------------------------------
(* BSY clear and DRDY set; error and data request bits do not matter.      *)
(* (Mutant: BSY does not, either.)                                         *)
IsReady_NoBsy(d) == drives[d].st # "gone"
IsReady(d) == drives[d].st \in {"idle", "drq", "err"}
DriveValid == call.cmd = "identify" \/ call.drive \in Drives
Return == call' = [call EXCEPT !.at = "done"]

(* The number that goes into the registers.  (Mutant: always the first.)   *)
SectorNumber_First == call.lba % LbaLimit
SectorNumber == (call.lba + call.done) % LbaLimit

(* ata_await_ready was left with the drive ready: set up the registers,    *)
(* for a transfer the drive again, and send the command.                   *)
SendCommand ==
  /\ call.at = "ready" /\ DriveValid /\ IsReady(devsel)
  /\ devsel' = IF call.cmd = "identify" THEN devsel ELSE call.drive
  /\ drives' = [drives EXCEPT ![devsel'] =
                  Drive("busy", call.cmd, IF call.cmd = "identify" THEN 0 ELSE SectorNumber)]
  /\ call' = [call EXCEPT !.at = "poll"]
  /\ UNCHANGED <<selected_drive, buf>>

NeverReady ==
  /\ call.at = "ready"
  /\ ~IsReady(devsel) \/ ~DriveValid
  /\ Return
  /\ UNCHANGED <<selected_drive, devsel, drives, buf>>

(* ata_poll, or the end of ata_identify: an error, or BSY for too long. *)
GiveUp ==
  /\ call.at = "poll" /\ drives[devsel].st \in {"busy", "err", "gone"}
  /\ Return
  /\ UNCHANGED <<selected_drive, devsel, drives, buf>>

(* 256 words of data, and on to the next sector.  After the data of a      *)
(* write nothing is waited for or looked at.                               *)
Transfer ==
  /\ call.at = "poll" /\ drives[devsel].st = "drq"
  /\ drives' = [drives EXCEPT ![devsel] =
                  IF call.cmd = "write" THEN Drive("busy", "flush", drives[devsel].lba)
                  ELSE Drive("idle", "none", 0)]
  /\ buf' = IF call.cmd = "read"
            THEN Append(buf, [drive |-> devsel, lba |-> drives[devsel].lba]) ELSE buf
  /\ call' = [call EXCEPT !.done = @ + 1,
                          !.at = IF call.done + 1 < call.num THEN "ready" ELSE "done"]
  /\ UNCHANGED <<selected_drive, devsel>>

DriverStep == SendCommand \/ NeverReady \/ GiveUp \/ Transfer

(* A drive gets on with its command.  Data that could not be written is an *)
(* error that nobody asks for.                                             *)
DriveWorks(d) ==
  /\ drives[d].st = "busy"
  /\ \E st \in {IF drives[d].cmd = "flush" THEN "idle" ELSE "drq", "err"} :
       drives' = [drives EXCEPT ![d].st = st]
  /\ UNCHANGED <<selected_drive, devsel, call, buf>>

(* The caller and its buffer are gone, with the program or in a reset.     *)
(* The drives may be on the reset line.                                    *)
AtaDropped ==
  /\ call' = NoCallYet /\ buf' = <<>>
  /\ UNCHANGED <<selected_drive, devsel, drives>>
AtaReset ==
  /\ call' = NoCallYet /\ buf' = <<>>
  /\ selected_drive' = NoDrive
  /\ \/ UNCHANGED <<devsel, drives>>
     \/ /\ devsel' = 0
        /\ drives' = [d \in Drives |-> IF drives[d].st = "gone" THEN drives[d]
                                        ELSE Drive("idle", "none", 0)]

(* The calls of start-up, of the stage 2 loader and of programs. *)
AtaCall ==
  \E d \in DeviceNums :
    \/ ata_identify(d)
    \/ \E lba \in Lbas, num \in 0..MaxNum : ata_read(d, lba, num) \/ ata_write(d, lba, num)

AtaNext ==
  \/ AtaCall
  \/ DriverStep
  \/ \E d \in Drives : DriveWorks(d)
  \/ AtaDropped
  \/ AtaReset

AtaSpec == AtaInit /\ [][AtaNext]_ataVars

-----------------------------------------------------------------------------
AtaTypeOK ==
  /\ selected_drive \in Nat /\ devsel \in Drives
  /\ drives \in [Drives -> DriveStates]
  /\ call \in Calls
  /\ buf \in Seq(Sectors)

(* The data in the buffer are the sectors that were asked for, in order    *)
(* and from the right drive, and as many as the call returns: whatever     *)
(* was given up before, and whichever drive finishes when.  (The numbers   *)
(* of sectors from 2^28 on do not fit into the registers.)                 *)
RightSectors ==
  call.cmd = "read" =>
    /\ Len(buf) = call.done
    /\ \A i \in 1..Len(buf) :
         call.lba + i <= LbaLimit =>
           buf[i] = [drive |-> call.drive, lba |-> call.lba + i - 1]

(* A drive that is busy never gets another command: the drive that is      *)
(* waited for is the one that the command goes to, although the selection  *)
(* is cached and two drives are used in turn.                              *)
BusyLeftAlone ==
  [][\A d \in Drives :
       drives[d].st = "busy" /\ drives'[d].st = "busy" => drives'[d] = drives[d]]_ataVars
=============================================================================
