------------------------------ MODULE BootProofs ------------------------------
(***************************************************************************)
(* The two block device drivers, for any number of sectors, blocks and     *)
(* retries; the loaders; keyboard detection, for any number of late        *)
(* answers; and the boot as a composition: each driver, as                 *)
(* the boot and programs use it, behaves as its own specification says, so *)
(* what is proved of the drivers and loaders holds of the whole machine.   *)
(***************************************************************************)
EXTENDS Integers, Boot, TLAPS

-----------------------------------------------------------------------------
(* The ATA driver. *)
LEMMA AppendType ==
  ASSUME NEW S, NEW s \in Seq(S), NEW e \in S
  PROVE  /\ Append(s, e) \in Seq(S)
         /\ Len(Append(s, e)) = Len(s) + 1 /\ Append(s, e)[Len(s) + 1] = e
         /\ \A i \in 1..Len(s) : Append(s, e)[i] = s[i]
OBVIOUS

LEMMA ModSmall ==
  ASSUME NEW n \in Nat, NEW k \in Nat, n < k
  PROVE  n % k = n
OBVIOUS

LEMMA CallType ==
  ASSUME NEW c \in Calls, NEW at \in {"ready", "poll", "done"}
  PROVE  [c EXCEPT !.done = @ + 1, !.at = at] \in Calls
<1>1. [c EXCEPT !.done = @ + 1] \in Calls
  BY DEF Calls
<1>2. ASSUME NEW b \in Calls PROVE [b EXCEPT !.at = at] \in Calls
  BY DEF Calls
<1> QED BY <1>1, <1>2

(* ATA.  The cached selection is the drive that is selected, unless it is  *)
(* the number of no drive; a call that polls has its own command in the    *)
(* drive, with the number of the sector that is due.                       *)
Selected == selected_drive \in Drives => devsel = selected_drive
CallSelected == call.at # "done" => selected_drive = call.drive
OwnCommand ==
  call.at = "poll" =>
    /\ DriveValid
    /\ drives[devsel].cmd = call.cmd
    /\ call.cmd # "identify" => drives[devsel].lba = SectorNumber
AtaInv == AtaTypeOK /\ Selected /\ CallSelected /\ OwnCommand /\ RightSectors

(* A call in progress has selected the drive it is for. *)
LEMMA CallDrive ==
  ASSUME AtaInv, call.at # "done", DriveValid, call.cmd # "identify"
  PROVE  call.drive \in Drives /\ devsel = call.drive
BY DEF AtaInv, Selected, CallSelected, DriveValid

LEMMA AtaInitInv == AtaInit => AtaInv
BY AtaAssumption DEF AtaInit, AtaInv, AtaTypeOK, Selected, CallSelected, OwnCommand, RightSectors,
   NoDrive, Drives, DriveStates, Drive, Commands, Calls, Call, NoCallYet

LEMMA BeginInv ==
  ASSUME AtaInv, NEW cmd \in {"identify", "read", "write"}, NEW d \in Nat, NEW lba \in Nat,
         NEW num \in Nat, Begin(cmd, d, lba, num)
  PROVE  AtaInv'
<1> USE DEF Begin, ata_select_drive
<1>1. AtaTypeOK'
  BY DEF AtaInv, AtaTypeOK, Calls, Call, Drives
<1>2. Selected' /\ CallSelected'
  BY DEF AtaInv, AtaTypeOK, Selected, CallSelected, Call, Drives
<1>3. OwnCommand' /\ RightSectors'
  BY DEF AtaInv, AtaTypeOK, OwnCommand, RightSectors, Call
<1> QED BY <1>1, <1>2, <1>3 DEF AtaInv

LEMMA SendCommandInv ==
  ASSUME AtaInv, SendCommand
  PROVE  AtaInv' /\ devsel' = devsel
<1> USE DEF SendCommand
<1>1. devsel' = devsel
  BY CallDrive
<1>2. SectorNumber \in Nat
  BY AtaAssumption DEF AtaInv, AtaTypeOK, Calls, SectorNumber
<1>3. call' = [call EXCEPT !.at = "poll"] /\ call \in Calls /\ devsel \in Drives
      /\ drives \in [Drives -> DriveStates]
  BY DEF AtaInv, AtaTypeOK
<1>4. AtaTypeOK'
  BY <1>1, <1>2, <1>3 DEF AtaInv, AtaTypeOK, Calls, Drive, DriveStates, Commands
<1>5. Selected' /\ CallSelected'
  BY <1>1, <1>3 DEF AtaInv, Selected, CallSelected, Calls
<1>6. SectorNumber' = SectorNumber
  BY <1>3 DEF SectorNumber, Calls
<1>7. OwnCommand'
  BY <1>1, <1>3, <1>6 DEF OwnCommand, DriveValid, Calls, Drive, DriveStates
<1>8. RightSectors'
  BY <1>3 DEF AtaInv, RightSectors, Calls
<1> QED BY <1>1, <1>4, <1>5, <1>7, <1>8 DEF AtaInv

LEMMA ReturnInv ==
  ASSUME AtaInv, Return, UNCHANGED <<selected_drive, devsel, drives, buf>>
  PROVE  AtaInv'
BY DEF Return, AtaInv, AtaTypeOK, Calls, Selected, CallSelected, OwnCommand, RightSectors

LEMMA TransferInv ==
  ASSUME AtaInv, Transfer
  PROVE  AtaInv'
<1> USE DEF Transfer
<1>1. /\ call \in Calls /\ devsel \in Drives /\ drives \in [Drives -> DriveStates]
      /\ buf \in Seq(Sectors) /\ selected_drive \in Nat
      /\ LbaLimit \in Nat \ {0}
  BY AtaAssumption DEF AtaInv, AtaTypeOK
<1>2. PICK at \in {"ready", "done"} : call' = [call EXCEPT !.done = @ + 1, !.at = at]
  OBVIOUS
<1>3. AtaTypeOK'
  <2>1. drives' \in [Drives -> DriveStates]
    BY <1>1 DEF Drive, DriveStates, Commands
  <2>2. buf' \in Seq(Sectors)
    <3>1. [drive |-> devsel, lba |-> drives[devsel].lba] \in Sectors
      BY <1>1 DEF DriveStates, Sectors
    <3> HIDE DEF Transfer
    <3>2. buf' \in {buf, Append(buf, [drive |-> devsel, lba |-> drives[devsel].lba])}
      BY DEF Transfer
    <3> QED BY <1>1, <3>1, <3>2, AppendType
  <2>3. call' \in Calls
    <3> HIDE DEF Transfer
    <3> QED BY <1>1, <1>2, CallType
  <2> QED BY <1>1, <2>1, <2>2, <2>3 DEF AtaTypeOK
<1>4. Selected' /\ CallSelected' /\ OwnCommand'
  BY <1>1, <1>2 DEF AtaInv, Selected, CallSelected, OwnCommand, Calls
<1>5. ASSUME call'.cmd = "read" PROVE RightSectors'
  <2> DEFINE e == [drive |-> devsel, lba |-> drives[devsel].lba]
  <2>1. call.cmd = "read" /\ buf' = Append(buf, e) /\ call'.done = call.done + 1
        /\ call'.lba = call.lba /\ call'.drive = call.drive
    BY <1>1, <1>2, <1>5 DEF Calls
  <2>2. devsel = call.drive /\ drives[devsel].lba = (call.lba + call.done) % LbaLimit
    <3>1. DriveValid
      BY DEF AtaInv, OwnCommand
    <3> QED BY <2>1, <3>1, CallDrive DEF AtaInv, OwnCommand, SectorNumber
  <2>3. Len(buf) = call.done /\ call.done \in Nat /\ call.lba \in Nat
    BY <1>1, <2>1 DEF AtaInv, RightSectors, Calls
  <2>4. Len(buf') = call.done + 1 /\ buf'[call.done + 1] = e
        /\ \A i \in 1..call.done : buf'[i] = buf[i]
    <3>1. e \in Sectors
      BY <1>1 DEF DriveStates, Sectors
    <3> HIDE DEF Transfer, e
    <3> QED BY <1>1, <2>1, <2>3, <3>1, AppendType
  <2>5. call.lba + (call.done + 1) <= LbaLimit => e = [drive |-> call.drive, lba |-> call.lba + call.done]
    <3> HIDE DEF Transfer
    <3>1. call.lba + call.done \in Nat /\ LbaLimit \in Nat
      BY <1>1, <2>3
    <3>2. call.lba + call.done < LbaLimit => drives[devsel].lba = call.lba + call.done
      BY <2>2, <3>1, ModSmall
    <3> QED BY <1>1, <2>2, <2>3, <3>2
  <2>6. ASSUME NEW i \in 1..(call.done + 1), call.lba + i <= LbaLimit
        PROVE  buf'[i] = [drive |-> call.drive, lba |-> call.lba + i - 1]
    <3>1. CASE i = call.done + 1
      BY <3>1, <2>3, <2>4, <2>5, <2>6
    <3>2. CASE i \in 1..call.done
      BY <3>2, <2>1, <2>3, <2>4, <2>6 DEF AtaInv, RightSectors
    <3> QED BY <3>1, <3>2, <2>3
  <2> QED BY <2>1, <2>3, <2>4, <2>6 DEF RightSectors
<1> QED BY <1>3, <1>4, <1>5 DEF AtaInv, RightSectors

LEMMA DriveWorksInv ==
  ASSUME AtaInv, NEW d \in Drives, DriveWorks(d)
  PROVE  AtaInv'
<1>1. PICK st \in {"idle", "drq", "err"} : drives' = [drives EXCEPT ![d].st = st]
  BY DEF DriveWorks
<1> QED BY <1>1 DEF DriveWorks, AtaInv, AtaTypeOK, DriveStates, Selected, CallSelected,
                    OwnCommand, DriveValid, SectorNumber, RightSectors

LEMMA AtaForgetInv ==
  ASSUME AtaInv, AtaDropped \/ AtaReset
  PROVE  AtaInv'
<1>1. AtaTypeOK'
  <2>0. call' \in Calls /\ selected_drive' \in Nat /\ buf' = <<>>
    BY DEF AtaInv, AtaTypeOK, AtaDropped, AtaReset, NoCallYet, Call, Calls, NoDrive
  <2>1. drives' \in [Drives -> DriveStates] /\ devsel' \in Drives
    BY DEF AtaInv, AtaTypeOK, AtaDropped, AtaReset, Drives, Drive, DriveStates, Commands
  <2> QED BY <2>0, <2>1 DEF AtaTypeOK
<1> QED BY <1>1 DEF AtaInv, AtaDropped, AtaReset, NoCallYet, Call, NoDrive, Drives, Selected,
                    CallSelected, OwnCommand, RightSectors

LEMMA AtaNextInv == AtaInv /\ [AtaNext]_ataVars => AtaInv'
<1> SUFFICES ASSUME AtaInv, [AtaNext]_ataVars PROVE AtaInv'
  OBVIOUS
<1>1. CASE AtaCall
  <2>1. PICK d \in DeviceNums :
          \/ Begin("identify", d, 0, 1)
          \/ \E lba \in Lbas, num \in 0..MaxNum :
               Begin("read", d, lba, num) \/ Begin("write", d, lba, num)
    BY <1>1 DEF AtaCall, ata_identify, ata_read, ata_write
  <2> QED BY <2>1, BeginInv, AtaAssumption
<1>2. CASE SendCommand
  BY <1>2, SendCommandInv
<1>3. CASE NeverReady \/ GiveUp
  BY <1>3, ReturnInv DEF NeverReady, GiveUp
<1>4. CASE Transfer
  BY <1>4, TransferInv
<1>5. CASE \E d \in Drives : DriveWorks(d)
  BY <1>5, DriveWorksInv
<1>6. CASE AtaDropped \/ AtaReset
  BY <1>6, AtaForgetInv
<1>7. CASE UNCHANGED ataVars
  BY <1>7 DEF ataVars, AtaInv, AtaTypeOK, Selected, CallSelected, OwnCommand, DriveValid,
              SectorNumber, RightSectors
<1> QED BY <1>1, <1>2, <1>3, <1>4, <1>5, <1>6, <1>7 DEF AtaNext, DriverStep

(* A read returns the sectors that were asked for, in order and from the   *)
(* right drive, whatever commands were given up before (ata.c).            *)
THEOREM SectorsRight == AtaSpec => [](AtaTypeOK /\ RightSectors)
<1>1. AtaSpec => []AtaInv
  BY AtaInitInv, AtaNextInv, PTL DEF AtaSpec
<1>2. AtaInv => AtaTypeOK /\ RightSectors
  BY DEF AtaInv
<1> QED BY <1>1, <1>2, PTL

LEMMA BusyStep ==
  ASSUME AtaInv, AtaNext, NEW d \in Drives, drives[d].st = "busy", drives'[d].st = "busy"
  PROVE  drives'[d] = drives[d]
<1> USE DEF AtaInv, AtaTypeOK, DriveStates
<1>1. CASE SendCommand
  <2>1. devsel' = devsel /\ IsReady(devsel)
    BY <1>1, SendCommandInv DEF SendCommand
  <2>2. d # devsel
    BY <2>1 DEF IsReady
  <2> QED BY <1>1, <2>1, <2>2 DEF SendCommand
<1>2. CASE Transfer
  BY <1>2 DEF Transfer
<1>3. CASE \E c \in Drives : DriveWorks(c)
  <2>1. PICK c \in Drives, st \in {"idle", "drq", "err"} : drives' = [drives EXCEPT ![c].st = st]
    BY <1>3 DEF DriveWorks
  <2>2. c # d
    BY <2>1
  <2> QED BY <2>1, <2>2
<1>4. CASE AtaReset
  BY <1>4 DEF AtaReset, Drive
<1>5. CASE UNCHANGED drives
  BY <1>5
<1> QED BY <1>1, <1>2, <1>3, <1>4, <1>5
        DEF AtaNext, AtaCall, ata_identify, ata_read, ata_write, Begin, DriverStep, NeverReady,
            GiveUp, AtaDropped

(* No command is sent to a drive that is busy, although the selection is   *)
(* cached and ata_await_ready looks at the drive that is selected before   *)
(* the registers are set up.                                               *)
THEOREM BusyKept == AtaSpec => BusyLeftAlone
<1>1. AtaSpec => []AtaInv
  BY AtaInitInv, AtaNextInv, PTL DEF AtaSpec
<1>2. AtaInv /\ [AtaNext]_ataVars
      => [\A d \in Drives : drives[d].st = "busy" /\ drives'[d].st = "busy"
                             => drives'[d] = drives[d]]_ataVars
  BY BusyStep
<1> QED BY <1>1, <1>2, PTL DEF AtaSpec, BusyLeftAlone

-----------------------------------------------------------------------------
(* The SD card.  A card that is ready was made so by the initialisation    *)
(* that is under way, or by one that has stored how it is addressed; one   *)
(* that was put in later is not ready.                                     *)
Addressing == card.kind = "SDHC" <=> sd.type = "SDHC"
SdInv ==
  /\ SdTypeOK
  /\ sd_init.step = "type" => card.st # "ready"
  /\ sd_init.step = "acmd41" =>
       sd_init.type \in {"V1", "V2"} /\ (card.st = "ready" /\ card.kind = "SDHC" => sd_init.type = "V2")
  /\ sd_init.step = "idle" => sd_init.tries <= MaxIdleRetries
  /\ sd_init.step = "acmd41" => sd_init.tries < MaxAcmd41Retries
  /\ sd_init.step = "out" /\ sd_status = "OK" /\ ~ocr_failed /\ card.st = "ready" => Addressing
  /\ sd_init.step # "out" => ~ocr_failed /\ sd_io = NoIO
  /\ RightBlock

LEMMA Multiple ==
  ASSUME NEW a \in Int, NEW k \in Nat, a >= 1
  PROVE  a * k >= k
OBVIOUS

(* A byte address that was not cut off leads back to its block. *)
LEMMA BlockOf ==
  ASSUME NEW b \in Nat, NEW k \in Nat \ {0}
  PROVE  (b * k) % k = 0 /\ (b * k) \div k = b
<1> DEFINE n == b * k
<1> DEFINE q == n \div k
<1> DEFINE r == n % k
<1>1. n \in Nat
  OBVIOUS
<1>2. n = k * q + r /\ r \in 0..(k - 1) /\ q \in Int
  <2> HIDE DEF n
  <2> QED BY <1>1
<1>3. r = (b - q) * k
  <2> HIDE DEF q, r
  <2> QED BY <1>2
<1>4. ~(b - q >= 1)
  <2> HIDE DEF q, r, n
  <2>1. b - q \in Int
    BY <1>2
  <2> QED BY <1>2, <1>3, <2>1, Multiple
<1>5. ~(b - q <= -1)
  <2> HIDE DEF q, r, n
  <2>1. q - b \in Int
    BY <1>2
  <2>2. q - b >= 1 => (q - b) * k >= k
    BY <2>1, Multiple
  <2>3. (q - b) * k = -r
    BY <1>2, <1>3, <2>1
  <2> QED BY <1>2, <2>2, <2>3
<1>6. b = q
  <2> HIDE DEF q, r, n
  <2> QED BY <1>2, <1>4, <1>5
<1>7. r = 0
  <2> HIDE DEF q, r, n
  <2>1. (b - q) = 0
    BY <1>2, <1>6
  <2> QED BY <1>2, <1>3, <2>1
<1> QED BY <1>6, <1>7

LEMMA SdInitInv == SdInit => SdInv
<1> SUFFICES ASSUME SdInit PROVE SdInv
  OBVIOUS
<1>1. SdTypeOK
  <2>1. sd \in [initialized : BOOLEAN, type : CardTypes] /\ ocr_failed \in BOOLEAN
    BY Zenon DEF SdInit, CardTypes
  <2>2. sd_init \in [step : {"out", "idle", "type", "acmd41", "ocr"}, type : CardTypes,
                     tries : 0..(MaxIdleRetries + MaxAcmd41Retries)]
    BY SdAssumption DEF SdInit, NotIn, AtStep, CardTypes
  <2> QED BY <2>1, <2>2 DEF SdInit, SdTypeOK, NoIO, Kinds, Statuses
<1>2. RightBlock /\ sd_init.step = "out" /\ sd_status # "OK"
  BY DEF SdInit, RightBlock, NotIn, AtStep, NoIO
<1> QED BY <1>1, <1>2 DEF SdInv

(* The block that an address leads to is the one that was asked for, if    *)
(* the card is addressed the way the struct says.                          *)
LEMMA ReachedBlock ==
  ASSUME Addressing, NEW b \in Nat, NEW at \in Reached(Address(b)),
         sd.type # "SDHC" => b * BlockBytes < AddrLimit
  PROVE  at = b
<1>1. CASE sd.type = "SDHC"
  BY <1>1 DEF Addressing, Reached, Address
<1>2. CASE sd.type # "SDHC"
  <2>1. b * BlockBytes \in Nat /\ AddrLimit \in Nat
    BY SdAssumption
  <2>2. Address(b) = b * BlockBytes
    BY <1>2, <2>1, ModSmall DEF Address
  <2>3. (b * BlockBytes) \div BlockBytes = b
    BY SdAssumption, BlockOf
  <2> QED BY <1>2, <2>2, <2>3 DEF Addressing, Reached
<1> QED BY <1>1, <1>2

LEMMA ReachedType ==
  ASSUME SdTypeOK, NEW b \in Nat, NEW at \in Reached(Address(b))
  PROVE  at \in Nat
<1>1. Address(b) \in Nat
  BY SdAssumption DEF Address
<1>2. Address(b) \div BlockBytes \in Nat
  <2> HIDE DEF Address
  <2> QED BY <1>1, SdAssumption
<1> QED BY <1>1, <1>2 DEF Reached

(* A transfer that is done. *)
LEMMA TransferDone ==
  ASSUME SdInv, MayUse, NEW b \in Nat, NEW at \in Reached(Address(b)) \cup {NoBlock},
         sd_io' = [block |-> b, at |-> at], Reached(Address(b)) # {},
         UNCHANGED <<card, sd, sd_init, sd_status, ocr_failed>>
  PROVE  SdInv'
<1>1. at \in Nat
  BY ReachedType, SdAssumption DEF SdInv, NoBlock
<1>2. card.st = "ready"
  BY DEF Reached
<1>3. RightBlock'
  <2> SUFFICES ASSUME at # NoBlock, ~ocr_failed,
                      ~(sd.type # "SDHC" /\ b * BlockBytes >= AddrLimit)
               PROVE  at = b
    BY DEF RightBlock
  <2>1. Addressing
    BY <1>2 DEF SdInv, MayUse
  <2>2. sd.type # "SDHC" => b * BlockBytes < AddrLimit
    <3>1. b * BlockBytes \in Nat
      BY SdAssumption
    <3> QED BY <3>1, SdAssumption
  <2> QED BY <2>1, <2>2, ReachedBlock
<1>4. SdTypeOK'
  BY <1>1 DEF SdInv, SdTypeOK
<1> QED BY <1>3, <1>4 DEF SdInv, Addressing, MayUse

LEMMA SdNextInv == SdInv /\ [SdNext]_sdVars => SdInv'
<1> SUFFICES ASSUME SdInv, [SdNext]_sdVars PROVE SdInv'
  OBVIOUS
<1> USE SdAssumption DEF SdInv, SdTypeOK, RightBlock, Addressing, NotIn, AtStep, NoIO, Leave, Done
<1>1. CASE BBSD_initialize
  <2>1. SdTypeOK'
    <3>1. ocr_failed' \in BOOLEAN
      BY <1>1, Zenon DEF BBSD_initialize
    <3> QED BY <1>1, <3>1 DEF BBSD_initialize, CardTypes
  <2>2. RightBlock' /\ sd_init'.step = "idle" /\ sd_init'.tries <= MaxIdleRetries
    BY <1>1 DEF BBSD_initialize
  <2>3. ~ocr_failed' /\ sd_io' = NoIO
    BY <1>1 DEF BBSD_initialize
  <2> HIDE DEF SdTypeOK, RightBlock
  <2> QED BY <2>1, <2>2, <2>3
<1>2. CASE SendIdle
  BY <1>2 DEF SendIdle, CardTypes
<1>3. CASE SendIdleFails
  BY <1>3 DEF SendIdleFails, CardTypes, Statuses
<1>4. CASE GetCardType
  BY <1>4 DEF GetCardType, CardTypesSeen, CardTypes, Statuses
<1>5. CASE TryAcmd41
  <2>1. CASE sd_init.type = "V2"
    BY <1>5, <2>1 DEF TryAcmd41, CardTypes
  <2>2. CASE sd_init.type # "V2"
    <3>1. sd_init.type = "V1" /\ card.kind # "SDHC"
      BY <1>5, <2>2 DEF TryAcmd41, CanGetReady, Supports
    <3>2. /\ sd' = [initialized |-> TRUE, type |-> "V1"] /\ sd_status' = "OK"
          /\ sd_init' = [step |-> "out", type |-> "unknown", tries |-> 0]
          /\ card' = [card EXCEPT !.st = "ready"] /\ UNCHANGED <<ocr_failed, sd_io>>
      BY <1>5, <2>2, <3>1 DEF TryAcmd41
    <3>3. card'.kind = card.kind /\ card' \in [kind : Kinds, st : {"off", "idle", "ready"}]
      BY <3>2
    <3> QED BY <3>1, <3>2, <3>3 DEF CardTypes, Statuses
  <2> QED BY <2>1, <2>2
<1>6. CASE TryAcmd41Fails
  BY <1>6 DEF TryAcmd41Fails, CanGetReady, Supports, CardTypes, Statuses
<1>7. CASE ReadOcr
  BY <1>7 DEF ReadOcr, CardTypes, Statuses
<1>8. CASE ReadOcrFails
  BY <1>8 DEF ReadOcrFails, CardTypes, Statuses
<1>9. CASE \E b \in Blocks : BBSD_read_block(b) \/ BBSD_write_block(b)
  <2> HIDE DEF SdInv
  <2> QED BY <1>9, TransferDone DEF BBSD_read_block, BBSD_write_block
<1>10. CASE SdFails
  BY <1>10 DEF SdFails
<1>11. CASE SdDropped
  <2>1. sd' \in [initialized : BOOLEAN, type : CardTypes] /\ ocr_failed' \in BOOLEAN
    BY <1>11, Zenon DEF SdDropped, CardTypes
  <2>2. SdTypeOK'
    BY <1>11, <2>1 DEF SdDropped, CardTypes, Statuses
  <2>3. RightBlock' /\ sd_init'.step = "out" /\ sd_status' # "OK"
    BY <1>11 DEF SdDropped
  <2> HIDE DEF SdTypeOK, RightBlock
  <2> QED BY <2>2, <2>3
<1>12. CASE \E k \in Kinds : ChangeCard(k)
  BY <1>12 DEF ChangeCard
<1>13. CASE UNCHANGED sdVars
  BY <1>13 DEF sdVars
<1> QED BY <1>1, <1>2, <1>3, <1>4, <1>5, <1>6, <1>7, <1>8, <1>9, <1>10, <1>11, <1>12, <1>13
        DEF SdNext, InitStep

(* A transfer reaches the block that was asked for or none, whichever      *)
(* answers are missing and whenever the card is changed (bbsd.c).          *)
THEOREM BlocksRight == SdSpec => [](SdTypeOK /\ RightBlock)
<1>1. SdSpec => []SdInv
  BY SdInitInv, SdNextInv, PTL DEF SdSpec
<1>2. SdInv => SdTypeOK /\ RightBlock
  BY DEF SdInv
<1> QED BY <1>1, <1>2, PTL

-----------------------------------------------------------------------------
(* The loaders. *)

(* Before something is loaded the entry point is the load address: an ELF  *)
(* file that fails leaves it alone.                                        *)
EntryKept == ld.at # "loaded" => kernel_entry = KernelLoad
FromMedium == ld.at # "out" => ld.medium \in Media
LoadInv == LoadTypeOK /\ FirmwareIntact /\ EntryKept /\ FromMedium /\ StartsImage

(* What load_range_allowed lets through is apart from every reserved area, *)
(* and so is any part of it from its start.                                *)
LEMMA RangeApart ==
  ASSUME NEW a \in Addresses, NEW n \in Addresses, load_range_allowed(a, n), NEW k \in 0..n
  PROVE  Covered(a, k) \cap Reserved = {}
<1> SUFFICES ASSUME NEW b \in Reserved
             PROVE  ~((a <= b /\ b < a + k) \/ b + AddrLimit32 < a + k)
  BY DEF Covered
<1> QED BY LoadAssumption DEF load_range_allowed, Reserved, Addresses

(* A flat program ends below stage 2. *)
LEMMA FlatApart ==
  ASSUME NEW n \in Sizes
  PROVE  Covered(KernelLoad, n) \cap Reserved = {}
<1> SUFFICES ASSUME NEW b \in Reserved
             PROVE  ~((KernelLoad <= b /\ b < KernelLoad + n) \/ b + AddrLimit32 < KernelLoad + n)
  BY DEF Covered
<1> QED BY LoadAssumption, FilesAssumption DEF Reserved

LEMMA ReservedAddresses == Reserved \subseteq Addresses /\ KernelLoad \in Addresses \ Reserved
BY LoadAssumption DEF Reserved, Addresses

LEMMA StoredType ==
  ASSUME LoadTypeOK, NEW m \in Media, NEW a, NEW n
  PROVE  Stored(a, n, m) \in [Addresses -> Media \cup {"fw", "old"}]
BY DEF LoadTypeOK, Stored

LEMMA StoredApart ==
  ASSUME FirmwareIntact, ld.at # "overrun", NEW m, NEW a, NEW n,
         Covered(a, n) \cap Reserved = {},
         mem' = Stored(a, n, m)
  PROVE  FirmwareIntact'
BY ReservedAddresses DEF FirmwareIntact, Stored

(* A flat program of some bytes is in memory where it is entered. *)
LEMMA FlatStored ==
  ASSUME NEW m, NEW n \in Sizes, n > 0
  PROVE  Stored(KernelLoad, n, m)[KernelLoad] = m
<1>1. KernelLoad <= KernelLoad /\ KernelLoad < KernelLoad + n
  BY LoadAssumption, FilesAssumption
<1> QED BY <1>1, ReservedAddresses DEF Stored, Covered

LEMMA ImageType ==
  ASSUME NEW m \in Media \cup {"none"}, NEW n \in Nat, NEW w \in BOOLEAN
  PROVE  Flat(m, n, w) \in Images /\ Elf(m, n) \in Images
<1>1. KernelLoad \in Nat /\ 0 \in Nat
  BY LoadAssumption
<1> QED BY <1>1, Zenon DEF Flat, Elf, Images

LEMMA NoImageType == NoImage \in Images
<1>1. 0 \in Nat
  OBVIOUS
<1> QED BY <1>1, ImageType, Zenon DEF NoImage

LEMMA LoadInitInv == LoadInit => LoadInv
BY ReservedAddresses, LoadAssumption, FilesAssumption, NoImageType
   DEF LoadInit, LoadInv, LoadTypeOK, FirmwareIntact, EntryKept, FromMedium, StartsImage, Ld

(* Every loader stores apart from the firmware. *)
LEMMA StoresApart ==
  ASSUME LoadInv, LoadNext
  PROVE  FirmwareIntact' /\ mem' \in [Addresses -> Media \cup {"fw", "old"}]
<1> USE DEF LoadInv
<1>1. CASE Stage2Start
  BY <1>1, ReservedAddresses DEF Stage2Start, FirmwareIntact
<1>0. ~Stage2Start => ld.at # "overrun"
  BY DEF LoadNext, load_kernel, RomfsLoad, FileStep, load_kernel_bin, BadElf, LoadSegment, CutOff,
         ElfEntry, MenuText, receive_kernel, NextMedium, LoadIdle
<1>2. CASE UNCHANGED mem
  BY <1>0, <1>1, <1>2 DEF FirmwareIntact, LoadTypeOK
<1>3. CASE ~Stage2Start /\ \E n \in Sizes, m \in Media : mem' = Stored(KernelLoad, n, m)
  BY <1>0, <1>3, FlatApart, StoredApart, StoredType
<1>4. CASE LoadSegment \/ CutOff
  <2>1. ld.medium \in Media /\ ld.at = "elf"
    BY <1>4 DEF LoadSegment, CutOff, FromMedium
  <2>2. PICK p \in Segments, k \in 0..(AddrLimit32 - 1) :
          /\ load_range_allowed(p.p_vaddr, p.p_memsz)
          /\ mem' = Stored(p.p_vaddr, k, ld.medium)
          /\ k <= p.p_memsz \/ Covered(p.p_vaddr, k) \cap Reserved = {} \/ ld'.at = "overrun"
    <3>1. CASE LoadSegment
      <4>1. PICK p \in Segments :
              /\ load_range_allowed(p.p_vaddr, p.p_memsz)
              /\ IF p.p_filesz <= p.p_memsz
                 THEN mem' = Stored(p.p_vaddr, p.p_memsz, ld.medium)
                 ELSE mem' = Stored(p.p_vaddr, p.p_filesz, ld.medium) /\ Overrun
        BY <3>1 DEF LoadSegment
      <4>2. p.p_memsz \in 0..(AddrLimit32 - 1) /\ p.p_filesz \in 0..(AddrLimit32 - 1)
        BY FilesAssumption
      <4>3. Overrun => ld'.at = "overrun"
        BY DEF Overrun, LoadTypeOK
      <4>4. p.p_memsz <= p.p_memsz
        BY <4>2
      <4> QED BY <4>1, <4>2, <4>3, <4>4
    <3>2. CASE CutOff
      <4>0. \A p \in Segments : p.p_memsz \in Nat /\ p.p_filesz \in 0..(AddrLimit32 - 1)
        BY FilesAssumption, LoadAssumption
      <4>1. PICK p \in Segments, k \in 0..(AddrLimit32 - 1) :
              /\ load_range_allowed(p.p_vaddr, p.p_memsz)
              /\ mem' = Stored(p.p_vaddr, k, ld.medium)
              /\ IF k > p.p_memsz /\ Covered(p.p_vaddr, k) \cap Reserved # {} THEN Overrun ELSE Fail
        BY <3>2, <4>0, LoadAssumption DEF CutOff
      <4>2. p.p_memsz \in Nat /\ k \in Nat
        BY <4>0
      <4>3. Overrun => ld'.at = "overrun"
        BY DEF Overrun, LoadTypeOK
      <4>4. k > p.p_memsz \/ k <= p.p_memsz
        BY <4>2
      <4> QED BY <4>1, <4>2, <4>3, <4>4
    <3> QED BY <1>4, <3>1, <3>2
  <2>3. p.p_vaddr \in Addresses /\ p.p_memsz \in Addresses
    BY FilesAssumption DEF Addresses
  <2>4. k <= p.p_memsz => Covered(p.p_vaddr, k) \cap Reserved = {}
    <3>1. k <= p.p_memsz => k \in 0..p.p_memsz
      BY <2>3, LoadAssumption DEF Addresses
    <3> QED BY <2>2, <2>3, <3>1, RangeApart
  <2>5. FirmwareIntact'
    <3>1. CASE ld'.at = "overrun"
      BY <3>1 DEF FirmwareIntact
    <3>2. CASE Covered(p.p_vaddr, k) \cap Reserved = {}
      BY <2>1, <2>2, <3>2, StoredApart
    <3> QED BY <2>2, <2>4, <3>1, <3>2
  <2> QED BY <2>1, <2>2, <2>5, StoredType
<1>5. CASE load_kernel_bin
  BY <1>1, <1>3, <1>5 DEF load_kernel_bin, FromMedium
<1>6. CASE MenuText \/ receive_kernel
  BY <1>1, <1>3, <1>6 DEF MenuText, receive_kernel, Media
<1>7. CASE \E m \in Media : RomfsLoad(m)
  BY <1>1, <1>3, <1>7 DEF RomfsLoad
<1> QED BY <1>1, <1>2, <1>4, <1>5, <1>6, <1>7
        DEF LoadNext, load_kernel, FileStep, BadElf, ElfEntry, NextMedium

(* What is started is what was loaded. *)
LEMMA StartsLoaded ==
  ASSUME LoadInv, LoadNext
  PROVE  EntryKept' /\ FromMedium' /\ StartsImage'
<1> USE DEF LoadInv, EntryKept, FromMedium, StartsImage, LoadTypeOK
<1>1. CASE Stage2Start
  BY <1>1 DEF Stage2Start, Ld
<1>2. CASE \E m \in Media : load_kernel(m)
  BY <1>2 DEF load_kernel, Ld, LoadIdle
<1>3. CASE \E m \in Media : RomfsLoad(m)
  BY <1>3, FlatStored, FilesAssumption DEF RomfsLoad, Ld, LoadIdle, Flat
<1>4. CASE load_kernel_bin
  BY <1>4, FlatStored, FilesAssumption DEF load_kernel_bin, Succeed, Fail, Flat
<1>5. CASE BadElf \/ LoadSegment \/ CutOff
  BY <1>5 DEF BadElf, LoadSegment, CutOff, Fail, Overrun
<1>6. CASE ElfEntry
  BY <1>6 DEF ElfEntry, Succeed, Fail, Elf
<1>7. CASE MenuText
  BY <1>7 DEF MenuText, LoadIdle
<1>8. CASE receive_kernel
  BY <1>8, FlatStored, FilesAssumption DEF receive_kernel, Ld, LoadIdle, Flat, Media
<1>9. CASE NextMedium
  BY <1>9 DEF NextMedium, Ld
<1> QED BY <1>1, <1>2, <1>3, <1>4, <1>5, <1>6, <1>7, <1>8, <1>9 DEF LoadNext, FileStep

LEMMA LoadTypes ==
  ASSUME LoadInv, LoadNext
  PROVE  /\ kernel_entry' \in Nat
         /\ image' \in Images
         /\ ld' \in [at : {"out", "bin", "elf", "failed", "loaded", "overrun"},
                     medium : Media \cup {"none"}, seg : 0..MaxSegments]
<1>0. /\ image \in Images /\ KernelLoad \in Nat /\ MaxSegments \in Nat
      /\ Sizes \subseteq Nat /\ Entries \subseteq Nat
      /\ ld.at \in {"bin", "elf"} => ld.medium \in Media
  BY LoadAssumption, FilesAssumption DEF LoadInv, LoadTypeOK, FromMedium
<1> USE DEF LoadInv, LoadTypeOK
<1>1. CASE Stage2Start
  BY <1>1, <1>0, NoImageType DEF Stage2Start, Ld
<1>2. CASE \E m \in Media : load_kernel(m)
  BY <1>2, <1>0 DEF load_kernel, Ld
<1>3. CASE \E m \in Media : RomfsLoad(m)
  <2>1. PICK m \in Media : RomfsLoad(m)
    BY <1>3
  <2>2. \A n \in Sizes : Flat(m, n, TRUE) \in Images
    BY <1>0, ImageType, Zenon
  <2>3. image' \in Images
    BY <1>0, <2>1, <2>2, Zenon DEF RomfsLoad
  <2>4. kernel_entry' = kernel_entry /\ \E at \in {"loaded", "failed"} : ld' = Ld(at, m, 0)
    BY <2>1, Zenon DEF RomfsLoad
  <2> QED BY <1>0, <2>3, <2>4 DEF Ld
<1>4. CASE load_kernel_bin
  <2>1. \A n \in Sizes : Flat(ld.medium, n, TRUE) \in Images
    BY <1>4, <1>0, ImageType, Zenon DEF load_kernel_bin
  <2>2. image' \in Images
    BY <1>4, <1>0, <2>1, Zenon DEF load_kernel_bin, Succeed, Fail
  <2>3. kernel_entry' = kernel_entry
        /\ \E at \in {"loaded", "failed"} : ld' = [ld EXCEPT !.at = at]
    BY <1>4, Zenon DEF load_kernel_bin, Succeed, Fail
  <2> QED BY <1>0, <2>2, <2>3
<1>5. CASE BadElf \/ LoadSegment \/ CutOff
  BY <1>5, <1>0 DEF BadElf, LoadSegment, CutOff, Fail, Overrun
<1>6. CASE ElfEntry
  <2>1. image' \in Images
    <3>1. \A e \in Entries : Elf(ld.medium, e) \in Images
      BY <1>6, <1>0, ImageType, Zenon DEF ElfEntry
    <3> QED BY <1>6, <1>0, <3>1 DEF ElfEntry, Succeed, Fail
  <2> QED BY <1>6, <1>0, <2>1 DEF ElfEntry, Succeed, Fail
<1>7. CASE MenuText
  BY <1>7 DEF MenuText
<1>8. CASE receive_kernel
  <2>1. \A n \in Sizes : \A end : Flat("kermit", n, end = "whole") \in Images
    <3>1. "kermit" \in Media
      BY DEF Media
    <3>2. \A end : (end = "whole") \in BOOLEAN
      BY Zenon
    <3> QED BY <1>0, <3>1, <3>2, ImageType, Zenon
  <2>2. image' \in Images
    BY <1>8, <1>0, <2>1, Zenon DEF receive_kernel
  <2> QED BY <1>8, <1>0, <2>2 DEF receive_kernel, Ld, Media
<1>9. CASE NextMedium
  BY <1>9, <1>0 DEF NextMedium, Ld
<1> QED BY <1>1, <1>2, <1>3, <1>4, <1>5, <1>6, <1>7, <1>8, <1>9 DEF LoadNext, FileStep

LEMMA LoadNextInv == LoadInv /\ [LoadNext]_loadVars => LoadInv'
<1>1. ASSUME LoadInv, LoadNext PROVE LoadInv'
  BY <1>1, StoresApart, StartsLoaded, LoadTypes DEF LoadInv, LoadTypeOK
<1>2. ASSUME LoadInv, UNCHANGED loadVars PROVE LoadInv'
  BY <1>2 DEF loadVars, LoadInv, LoadTypeOK, FirmwareIntact, EntryKept, FromMedium, StartsImage
<1> QED BY <1>1, <1>2

(* No loader touches the firmware, stage 2 or the stack, unless it has     *)
(* stored a segment beyond the range that was tested, and what is started  *)
(* is what was loaded last (load.c, romfs, kermit_support.c).              *)
THEOREM LoadsSafely == LoadSpec => [](LoadTypeOK /\ FirmwareIntact /\ StartsImage)
<1>1. LoadSpec => []LoadInv
  BY LoadInitInv, LoadNextInv, PTL DEF LoadSpec
<1>2. LoadInv => LoadTypeOK /\ FirmwareIntact /\ StartsImage
  BY DEF LoadInv
<1> QED BY <1>1, <1>2, PTL

-----------------------------------------------------------------------------
LEMMA ConcatAt ==
  ASSUME NEW S, NEW s \in Seq(S), NEW t \in Seq(S)
  PROVE  /\ Len(s \o t) = Len(s) + Len(t)
         /\ \A i \in 1..Len(s) : (s \o t)[i] = s[i]
         /\ \A i \in 1..Len(t) : (s \o t)[Len(s) + i] = t[i]
OBVIOUS

(* The keyboard dialogue: thirteen characters, the last seven of them      *)
(* acknowledgements.                                                       *)
LEMMA TheDialogue ==
  /\ Last = 13 /\ Ended = 14 /\ Over = 15 /\ Len(IdentAnswer) = 7
  /\ \A i \in 7..13 : Dialogue[i] = "ack"
<1>1. IdentAnswer \in Seq(Chars) /\ Len(IdentAnswer) = 7 /\ IdentAnswer[7] = "ack"
  BY DEF IdentAnswer, Chars
<1> DEFINE R == [i \in 1..ResetCommands |-> "ack"]
<1>2. R \in Seq(Chars) /\ Len(R) = 6 /\ \A i \in 1..6 : R[i] = "ack"
  BY DEF ResetCommands, Chars
<1>3. Dialogue = IdentAnswer \o R
  BY DEF Dialogue
<1> HIDE DEF R
<1>c. /\ Len(Dialogue) = Len(IdentAnswer) + Len(R)
      /\ \A i \in 1..Len(IdentAnswer) : Dialogue[i] = IdentAnswer[i]
      /\ \A i \in 1..Len(R) : Dialogue[Len(IdentAnswer) + i] = R[i]
  <2>1. IdentAnswer \in Seq(Chars) /\ R \in Seq(Chars)
    BY <1>1, <1>2
  <2> QED BY <1>3, <2>1, ConcatAt
<1>4. Last = 13
  BY <1>1, <1>2, <1>c DEF Last
<1>5. \A i \in 7..13 : Dialogue[i] = "ack"
  <2>1. Dialogue[7] = "ack"
    BY <1>1, <1>c
  <2>2. ASSUME NEW i \in 8..13
        PROVE  Dialogue[i] = "ack"
    <3>1. i - 7 \in 1..6 /\ 7 + (i - 7) = i
      OBVIOUS
    <3> QED BY <1>1, <1>2, <1>c, <3>1
  <2> QED BY <2>1, <2>2
<1> QED BY <1>1, <1>4, <1>5 DEF Ended, Over

(* What a command adds to the keyboard's queue. *)
LEMMA CommandType ==
  ASSUME KeyboardTypeOK, NEW answer \in Seq(Chars \cup {"ackmode"}), Command(answer)
  PROVE  kbd_out' \in Seq(Chars \cup {"ackmode"})
BY DEF KeyboardTypeOK, Command

LEMMA NextCommandType ==
  ASSUME KeyboardTypeOK, NEW i \in 1..Last, NextCommand(i)
  PROVE  kbd_out' \in Seq(Chars \cup {"ackmode"})
<1>1. <<"ack">> \in Seq(Chars \cup {"ackmode"}) /\ <<"ackmode">> \in Seq(Chars \cup {"ackmode"})
  BY DEF Chars
<1> QED BY <1>1, CommandType DEF NextCommand, KeyboardTypeOK

LEMMA KeyboardTypeNext ==
  ASSUME KeyboardTypeOK, [KeyboardNext]_kbdVars
  PROVE  KeyboardTypeOK'
<1> USE KeyboardAssumption
<1>0. Last = 13 /\ Ended = 14 /\ Over = 15
  BY TheDialogue
<1>e. <<>> \in Seq(Chars)
  OBVIOUS
<1>1. CASE NoDevice \/ TimedOut \/ MopUp \/ KeyboardReset
  <2>1. installed' \in BOOLEAN
    BY <1>1, Zenon DEF NoDevice, TimedOut, MopUp, KeyboardReset, KeyboardTypeOK
  <2>2. uart' \in Seq(Chars)
    BY <1>e, <1>1 DEF NoDevice, TimedOut, MopUp, KeyboardReset, KeyboardTypeOK
  <2>3. kbd' \in 0..Over
    BY <1>0, <1>1 DEF NoDevice, TimedOut, MopUp, KeyboardReset
  <2> QED BY <1>1, <2>1, <2>2, <2>3 DEF NoDevice, TimedOut, MopUp, KeyboardReset, KeyboardTypeOK
<1>2. CASE StartDetect
  <2>1. IdentAnswer \in Seq(Chars \cup {"ackmode"})
    BY DEF IdentAnswer, Chars
  <2>2. kbd_out' \in Seq(Chars \cup {"ackmode"})
    BY <1>2, <2>1, CommandType DEF StartDetect
  <2> QED BY <1>0, <1>e, <1>2, <2>2 DEF StartDetect, KeyboardTypeOK
<1>3. CASE GotChar
  <2>1. kbd_out' \in Seq(Chars \cup {"ackmode"})
    <3>1. CASE NextCommand(kbd)
      BY <1>3, <3>1, NextCommandType DEF GotChar
    <3>2. CASE UNCHANGED kbd_out
      BY <3>2 DEF KeyboardTypeOK
    <3> QED BY <1>3, <3>1, <3>2 DEF GotChar
  <2>2. uart' \in Seq(Chars)
    BY <1>3 DEF GotChar, KeyboardTypeOK
  <2>3. kbd' \in 0..Over
    BY <1>0, <1>3, SMTT(30) DEF GotChar, KeyboardTypeOK
  <2>4. installed' \in BOOLEAN
    BY <1>3, Zenon DEF GotChar, KeyboardTypeOK
  <2> QED BY <1>3, <2>1, <2>2, <2>3, <2>4 DEF GotChar, KeyboardTypeOK
<1>4. CASE KeyboardSends
  <2>1. kbd_out' \in Seq(Chars \cup {"ackmode"}) /\ Head(kbd_out) \in Chars \cup {"ackmode"}
    BY <1>4 DEF KeyboardSends, KeyboardTypeOK
  <2>2. uart' \in Seq(Chars)
    BY <1>4, <2>1 DEF KeyboardSends, KeyboardTypeOK, Chars
  <2> QED BY <1>4, <2>1, <2>2 DEF KeyboardSends, KeyboardTypeOK
<1>5. CASE StrayChar
  <2>1. uart' \in Seq(Chars)
    BY <1>5 DEF StrayChar, KeyboardTypeOK
  <2> QED BY <1>5, <2>1 DEF StrayChar, KeyboardTypeOK
<1>6. CASE UNCHANGED kbdVars
  BY <1>6 DEF kbdVars, KeyboardTypeOK
<1> QED BY <1>1, <1>2, <1>3, <1>4, <1>5, <1>6 DEF KeyboardNext, DetectStep

LEMMA KeyboardTypeInit == KeyboardInit => KeyboardTypeOK
<1>1. Over = 15
  BY TheDialogue
<1>2. <<>> \in Seq(Chars) /\ <<>> \in Seq(Chars \cup {"ackmode"})
  OBVIOUS
<1>3. KeyboardInit => installed \in BOOLEAN
  BY Zenon DEF KeyboardInit
<1>4. 0 \in 0..Over /\ 0 \in 0..MaxStray
  BY <1>1, KeyboardAssumption
<1> QED BY <1>2, <1>3, <1>4 DEF KeyboardInit, KeyboardTypeOK

(* The acknowledgements that detection has already taken: that of IDENT    *)
(* and those of the commands after it.                                     *)
Taken == IF kbd \in 8..Last THEN kbd - 7 ELSE 0

(* t acknowledgements, what was received, and what will be sent. *)
Span(t, u, o) == t + Len(u) + Len(o)
Run(t, u, o) ==
  [i \in 1..Span(t, u, o) |->
     IF i <= t THEN "ack" ELSE IF i <= t + Len(u) THEN u[i - t] ELSE o[i - t - Len(u)]]

(* There are never seven acknowledgements in a row, in scan mode, and at   *)
(* the end there are no more than this dialogue has asked for.             *)
NotSeven(s, n) == \A i \in 1..n : i + 6 <= n => \E k \in i..(i + 6) : s[k] # "ack"
EndsIn(s, n, m) == n > m => \E k \in (n - m)..n : s[k] # "ack"

Calm(t, u, o) == NotSeven(Run(t, u, o), Span(t, u, o))
Ends(t, u, o, m) == EndsIn(Run(t, u, o), Span(t, u, o), m)

Answers ==
  port = "keyboard" /\ kbd_mode = "scan" =>
    /\ Calm(Taken, uart, kbd_out)
    /\ kbd \in 1..12 => Ends(Taken, uart, kbd_out, Taken + 1)

(* Other devices do not answer, and have sent what was read. *)
Strays ==
  /\ port # "keyboard" => kbd_out = <<>>
  /\ port = "none" => uart = <<>>
  /\ port = "other" /\ kbd \in 1..Last => kbd - 1 + Len(uart) <= stray

DetectInv == KeyboardTypeOK /\ Answers /\ Strays /\ InstalledInAscii

(* A part of the stream that is read or thrown away, from the front. *)
LEMMA SuffixNotSeven ==
  ASSUME NEW s, NEW t, NEW n \in Nat, NEW d \in 0..n, NotSeven(s, n),
         \A i \in 1..(n - d) : t[i] = s[i + d]
  PROVE  NotSeven(t, n - d)
<1> SUFFICES ASSUME NEW i \in 1..(n - d), i + 6 <= n - d
             PROVE  \E k \in i..(i + 6) : t[k] # "ack"
  BY DEF NotSeven
<1>1. PICK k \in (i + d)..(i + d + 6) : s[k] # "ack"
  <2>1. i + d \in 1..n /\ (i + d) + 6 <= n
    OBVIOUS
  <2> QED BY <2>1 DEF NotSeven
<1>2. k - d \in i..(i + 6) /\ k - d \in 1..(n - d) /\ (k - d) + d = k
  BY <1>1
<1>3. t[k - d] # "ack"
  BY <1>1, <1>2
<1> QED BY <1>2, <1>3

LEMMA SuffixEnds ==
  ASSUME NEW s, NEW t, NEW n \in Nat, NEW d \in 0..n, NEW m \in Nat, EndsIn(s, n, m),
         \A i \in 1..(n - d) : t[i] = s[i + d]
  PROVE  EndsIn(t, n - d, m)
<1> SUFFICES ASSUME n - d > m
             PROVE  \E k \in (n - d - m)..(n - d) : t[k] # "ack"
  BY DEF EndsIn
<1>1. PICK k \in (n - m)..n : s[k] # "ack"
  BY DEF EndsIn
<1>2. k - d \in (n - d - m)..(n - d) /\ k - d \in 1..(n - d) /\ (k - d) + d = k
  BY <1>1
<1>3. t[k - d] # "ack"
  BY <1>1, <1>2
<1> QED BY <1>2, <1>3

(* One more answer at the end. *)
LEMMA LongerNotSeven ==
  ASSUME NEW s, NEW t, NEW n \in Nat, NotSeven(s, n), \A i \in 1..n : t[i] = s[i],
         t[n + 1] # "ack" \/ EndsIn(s, n, 5)
  PROVE  NotSeven(t, n + 1)
<1> SUFFICES ASSUME NEW i \in 1..(n + 1), i + 6 <= n + 1
             PROVE  \E k \in i..(i + 6) : t[k] # "ack"
  BY DEF NotSeven
<1>1. CASE i + 6 <= n
  <2>1. PICK k \in i..(i + 6) : s[k] # "ack"
    BY <1>1 DEF NotSeven
  <2> QED BY <1>1, <2>1
<1>2. CASE i + 6 = n + 1 /\ t[n + 1] # "ack"
  BY <1>2
<1>3. CASE i + 6 = n + 1 /\ EndsIn(s, n, 5)
  <2>1. PICK k \in (n - 5)..n : s[k] # "ack"
    BY <1>3 DEF EndsIn
  <2> QED BY <1>3, <2>1
<1> QED BY <1>1, <1>2, <1>3

LEMMA LongerEnds ==
  ASSUME NEW s, NEW t, NEW n \in Nat, NEW m \in Nat, EndsIn(s, n, m), \A i \in 1..n : t[i] = s[i]
  PROVE  EndsIn(t, n + 1, m + 1)
<1> SUFFICES ASSUME n + 1 > m + 1
             PROVE  \E k \in (n - m)..(n + 1) : t[k] # "ack"
  BY DEF EndsIn
<1>1. PICK k \in (n - m)..n : s[k] # "ack"
  BY DEF EndsIn
<1> QED BY <1>1

(* The whole answer to IDENT. *)
LEMMA IdentNotSeven ==
  ASSUME NEW s, NEW t, NEW n \in Nat, NotSeven(s, n), \A i \in 1..n : t[i] = s[i],
         \A j \in 1..7 : t[n + j] = IdentAnswer[j]
  PROVE  NotSeven(t, n + 7) /\ EndsIn(t, n + 7, 1)
<1>1. \A j \in 1..6 : t[n + j] # "ack"
  BY DEF IdentAnswer
<1>2. ASSUME NEW i \in 1..(n + 7), i + 6 <= n + 7
      PROVE  \E k \in i..(i + 6) : t[k] # "ack"
  <2>1. CASE i + 6 <= n
    <3>1. PICK k \in i..(i + 6) : s[k] # "ack"
      BY <2>1 DEF NotSeven
    <3> QED BY <2>1, <3>1
  <2>2. CASE i + 6 > n
    <3>1. CASE i + 6 = n + 7
      <4>1. t[n + 1] # "ack" /\ n + 1 \in i..(i + 6)
        BY <1>1, <3>1
      <4> QED BY <4>1
    <3>2. CASE i + 6 <= n + 6
      <4>1. i + 6 - n \in 1..6 /\ n + (i + 6 - n) = i + 6
        BY <2>2, <3>2
      <4> QED BY <1>1, <4>1
    <3> QED BY <1>2, <3>1, <3>2
  <2> QED BY <2>1, <2>2
<1>3. EndsIn(t, n + 7, 1)
  <2>1. t[n + 6] # "ack" /\ n + 6 \in (n + 7 - 1)..(n + 7)
    BY <1>1
  <2> QED BY <2>1 DEF EndsIn
<1> QED BY <1>2, <1>3 DEF NotSeven


(* How the stream changes when its front is forgotten, ... *)
LEMMA Forgotten ==
  ASSUME NEW S, NEW t \in Nat, NEW u \in Seq(S), NEW o \in Seq(S), Calm(t, u, o)
  PROVE  /\ Calm(0, u, o) /\ Calm(0, <<>>, o)
         /\ u # <<>> => Calm(0, Tail(u), o)
<1> USE DEF Calm
<1>1. Calm(0, u, o)
  <2>1. \A i \in 1..(Span(t, u, o) - t) : Run(0, u, o)[i] = Run(t, u, o)[i + t]
    BY DEF Run, Span
  <2>2. Span(0, u, o) = Span(t, u, o) - t /\ t \in 0..Span(t, u, o) /\ Span(t, u, o) \in Nat
    BY DEF Span
  <2> QED BY <2>1, <2>2, SuffixNotSeven
<1>2. Calm(0, <<>>, o)
  <2>1. \A i \in 1..(Span(t, u, o) - (t + Len(u))) : Run(0, <<>>, o)[i] = Run(t, u, o)[i + (t + Len(u))]
    BY DEF Run, Span
  <2>2. /\ Span(0, <<>>, o) = Span(t, u, o) - (t + Len(u))
        /\ t + Len(u) \in 0..Span(t, u, o) /\ Span(t, u, o) \in Nat
    BY DEF Span
  <2> QED BY <2>1, <2>2, SuffixNotSeven
<1>3. ASSUME u # <<>>
      PROVE  Calm(0, Tail(u), o)
  <2>0. Tail(u) \in Seq(S) /\ Len(Tail(u)) = Len(u) - 1 /\ Len(u) \in Nat \ {0} /\ Len(o) \in Nat
    BY <1>3
  <2>a. \A i \in 1..Len(Tail(u)) : Tail(u)[i] = u[i + 1]
    BY <1>3
  <2>1. \A i \in 1..(Span(t, u, o) - (t + 1)) : Run(0, Tail(u), o)[i] = Run(t, u, o)[i + (t + 1)]
    BY <2>0, <2>a DEF Run, Span
  <2>2. /\ Span(0, Tail(u), o) = Span(t, u, o) - (t + 1)
        /\ t + 1 \in 0..Span(t, u, o) /\ Span(t, u, o) \in Nat
    BY <2>0 DEF Span
  <2> QED BY <2>1, <2>2, SuffixNotSeven
<1> QED BY <1>1, <1>2, <1>3

(* ... when the end of a run without acknowledgements taken is read on, *)
LEMMA ReadOn ==
  ASSUME NEW S, NEW u \in Seq(S), NEW o \in Seq(S), u # <<>>, NEW m \in Nat, Ends(0, u, o, m)
  PROVE  Ends(0, Tail(u), o, m)
<1>0. Tail(u) \in Seq(S) /\ Len(Tail(u)) = Len(u) - 1 /\ Len(u) \in Nat \ {0} /\ Len(o) \in Nat
  OBVIOUS
<1>a. \A i \in 1..Len(Tail(u)) : Tail(u)[i] = u[i + 1]
  OBVIOUS
<1>1. \A i \in 1..(Span(0, u, o) - 1) : Run(0, Tail(u), o)[i] = Run(0, u, o)[i + 1]
  BY <1>0, <1>a DEF Run, Span
<1>2. Span(0, Tail(u), o) = Span(0, u, o) - 1 /\ 1 \in 0..Span(0, u, o) /\ Span(0, u, o) \in Nat
  BY <1>0 DEF Span
<1> QED BY <1>1, <1>2, SuffixEnds DEF Ends

(* ... when an acknowledgement is taken, and when a character arrives:     *)
(* not at all.                                                             *)
LEMMA TakenOne ==
  ASSUME NEW S, NEW t \in Nat, NEW u \in Seq(S), NEW o \in Seq(S), u # <<>>, Head(u) = "ack"
  PROVE  Run(t + 1, Tail(u), o) = Run(t, u, o) /\ Span(t + 1, Tail(u), o) = Span(t, u, o)
<1>0. Tail(u) \in Seq(S) /\ Len(Tail(u)) = Len(u) - 1 /\ Len(u) \in Nat \ {0} /\ Len(o) \in Nat
  OBVIOUS
<1>1. \A i \in 1..Len(Tail(u)) : Tail(u)[i] = u[i + 1]
  OBVIOUS
<1>2. u[1] = "ack"
  OBVIOUS
<1>3. Span(t + 1, Tail(u), o) = Span(t, u, o)
  BY <1>0 DEF Span
<1>4. ASSUME NEW i \in 1..Span(t, u, o)
      PROVE  Run(t + 1, Tail(u), o)[i] = Run(t, u, o)[i]
  <2>1. CASE i <= t
    BY <1>0, <1>3, <2>1 DEF Run, Span
  <2>2. CASE i = t + 1
    BY <1>0, <1>2, <1>3, <2>2 DEF Run, Span
  <2>3. CASE i > t + 1 /\ i <= t + Len(u)
    <3>1. i - (t + 1) \in 1..Len(Tail(u)) /\ (i - (t + 1)) + 1 = i - t
      BY <1>0, <2>3
    <3> QED BY <1>0, <1>1, <1>3, <2>3, <3>1 DEF Run, Span
  <2>4. CASE i > t + Len(u)
    <3>1. i - (t + 1) - Len(Tail(u)) = i - t - Len(u)
      BY <1>0
    <3> QED BY <1>0, <1>3, <2>4, <3>1 DEF Run, Span
  <2> QED BY <1>0, <2>1, <2>2, <2>3, <2>4
<1>5. Run(t + 1, Tail(u), o) = Run(t, u, o)
  BY <1>3, <1>4 DEF Run
<1> QED BY <1>3, <1>5

LEMMA Arrived ==
  ASSUME NEW S, NEW t \in Nat, NEW u \in Seq(S), NEW o \in Seq(S), o # <<>>
  PROVE  /\ Run(t, Append(u, Head(o)), Tail(o)) = Run(t, u, o)
         /\ Span(t, Append(u, Head(o)), Tail(o)) = Span(t, u, o)
<1> DEFINE v == Append(u, Head(o))
<1>0. /\ Tail(o) \in Seq(S) /\ Len(Tail(o)) = Len(o) - 1 /\ Len(o) \in Nat \ {0} /\ Len(u) \in Nat
      /\ Len(v) = Len(u) + 1
  OBVIOUS
<1>1. \A i \in 1..Len(Tail(o)) : Tail(o)[i] = o[i + 1]
  OBVIOUS
<1>2. (\A i \in 1..Len(u) : v[i] = u[i]) /\ v[Len(u) + 1] = o[1]
  OBVIOUS
<1> HIDE DEF v
<1>3. Span(t, v, Tail(o)) = Span(t, u, o)
  BY <1>0 DEF Span
<1>4. ASSUME NEW i \in 1..Span(t, u, o)
      PROVE  Run(t, v, Tail(o))[i] = Run(t, u, o)[i]
  <2>1. CASE i <= t
    BY <1>0, <1>3, <2>1 DEF Run, Span
  <2>2. CASE i > t /\ i <= t + Len(u)
    <3>1. i - t \in 1..Len(u) /\ ~(i <= t) /\ i <= t + Len(v)
      BY <1>0, <2>2
    <3>2. Run(t, v, Tail(o))[i] = v[i - t] /\ Run(t, u, o)[i] = u[i - t]
      BY <1>3, <2>2, <3>1 DEF Run
    <3> QED BY <1>2, <3>1, <3>2
  <2>3. CASE i = t + Len(u) + 1
    <3>1. i - t = Len(u) + 1 /\ i - t - Len(u) = 1
      BY <1>0, <2>3
    <3> QED BY <1>0, <1>2, <1>3, <2>3, <3>1 DEF Run, Span
  <2>4. CASE i > t + Len(u) + 1
    <3>1. i - t - Len(v) \in 1..Len(Tail(o)) /\ (i - t - Len(v)) + 1 = i - t - Len(u)
      BY <1>0, <2>4 DEF Span
    <3> QED BY <1>0, <1>1, <1>3, <2>4, <3>1 DEF Run, Span
  <2> QED BY <1>0, <2>1, <2>2, <2>3, <2>4
<1>5. Run(t, v, Tail(o)) = Run(t, u, o)
  BY <1>3, <1>4 DEF Run
<1> QED BY <1>3, <1>5 DEF v

(* ... and when commands are sent. *)
Extended(t, u, o, a) ==
  /\ Span(t, u, o \o a) = Span(t, u, o) + Len(a) /\ Span(t, u, o) \in Nat
  /\ \A i \in 1..Span(t, u, o) : Run(t, u, o \o a)[i] = Run(t, u, o)[i]
  /\ \A j \in 1..Len(a) : Run(t, u, o \o a)[Span(t, u, o) + j] = a[j]

LEMMA Commanded ==
  ASSUME NEW S, NEW t \in Nat, NEW u \in Seq(S), NEW o \in Seq(S), NEW a \in Seq(S)
  PROVE  Extended(t, u, o, a)
<1> DEFINE p == o \o a
<1>0. Len(p) = Len(o) + Len(a) /\ Len(o) \in Nat /\ Len(a) \in Nat /\ Len(u) \in Nat
  OBVIOUS
<1>1. (\A i \in 1..Len(o) : p[i] = o[i]) /\ (\A i \in 1..Len(a) : p[Len(o) + i] = a[i])
  OBVIOUS
<1> HIDE DEF p
<1>2. Span(t, u, p) = Span(t, u, o) + Len(a) /\ Span(t, u, o) \in Nat
  BY <1>0 DEF Span
<1>3. ASSUME NEW i \in 1..Span(t, u, o)
      PROVE  Run(t, u, p)[i] = Run(t, u, o)[i]
  <2>1. CASE i <= t + Len(u)
    BY <1>0, <2>1 DEF Run, Span
  <2>2. CASE i > t + Len(u)
    <3>1. i - t - Len(u) \in 1..Len(o) /\ ~(i <= t) /\ ~(i <= t + Len(u))
      BY <1>0, <2>2 DEF Span
    <3>2. i \in 1..Span(t, u, p)
      BY <1>0, <1>2
    <3>3. Run(t, u, p)[i] = p[i - t - Len(u)] /\ Run(t, u, o)[i] = o[i - t - Len(u)]
      BY <3>1, <3>2 DEF Run
    <3> QED BY <1>1, <3>1, <3>3
  <2> QED BY <1>0, <2>1, <2>2
<1>4. ASSUME NEW j \in 1..Len(a)
      PROVE  Run(t, u, p)[Span(t, u, o) + j] = a[j]
  <2> DEFINE i == Span(t, u, o) + j
  <2>1. i \in 1..Span(t, u, p) /\ ~(i <= t) /\ ~(i <= t + Len(u)) /\ i - t - Len(u) = Len(o) + j
    BY <1>0 DEF Span
  <2> HIDE DEF i
  <2>2. Run(t, u, p)[i] = p[i - t - Len(u)]
    BY <2>1 DEF Run
  <2>3. Run(t, u, p)[i] = a[j]
    BY <1>1, <2>1, <2>2
  <2> QED BY <2>3 DEF i
<1> QED BY <1>2, <1>3, <1>4 DEF p, Extended

(* A command of one character: the next answer but one is no seventh       *)
(* acknowledgement as long as the stream does not end in six.              *)
LEMMA CommandedOne ==
  ASSUME NEW S, NEW t \in Nat, NEW u \in Seq(S), NEW o \in Seq(S), NEW c \in S,
         Calm(t, u, o), c # "ack" \/ Ends(t, u, o, 5)
  PROVE  /\ Calm(t, u, o \o <<c>>)
         /\ \A m \in Nat : Ends(t, u, o, m) => Ends(t, u, o \o <<c>>, m + 1)
<1> DEFINE a == <<c>>
<1>1. a \in Seq(S) /\ Len(a) = 1 /\ a[1] = c
  OBVIOUS
<1> HIDE DEF a
<1>2. /\ Span(t, u, o \o a) = Span(t, u, o) + 1 /\ Span(t, u, o) \in Nat
      /\ \A i \in 1..Span(t, u, o) : Run(t, u, o \o a)[i] = Run(t, u, o)[i]
      /\ Run(t, u, o \o a)[Span(t, u, o) + 1] = c
  <2>1. Extended(t, u, o, a)
    BY <1>1, Commanded
  <2> QED BY <1>1, <2>1 DEF Extended
<1>3. Calm(t, u, o \o a)
  BY <1>2, LongerNotSeven DEF Calm, Ends
<1>4. \A m \in Nat : Ends(t, u, o, m) => Ends(t, u, o \o a, m + 1)
  BY <1>2, LongerEnds DEF Ends
<1> QED BY <1>3, <1>4 DEF a

LEMMA EndsLater ==
  ASSUME NEW t \in Nat, NEW S, NEW u \in Seq(S), NEW o \in Seq(S),
         NEW m \in Nat, NEW n \in Nat, m <= n, Ends(t, u, o, m)
  PROVE  Ends(t, u, o, n)
BY DEF Ends, EndsIn, Span

LEMMA DetectInitInv == KeyboardInit => DetectInv
<1> SUFFICES ASSUME KeyboardInit
             PROVE  DetectInv
  OBVIOUS
<1>1. Calm(Taken, uart, kbd_out)
  BY DEF KeyboardInit, Calm, NotSeven, Span, Taken
<1> QED BY <1>1, KeyboardTypeInit DEF KeyboardInit, DetectInv, Answers, Strays, InstalledInAscii

Answer == Chars \cup {"ackmode"}

LEMMA QueueTypes ==
  ASSUME KeyboardTypeOK
  PROVE  uart \in Seq(Answer) /\ kbd_out \in Seq(Answer) /\ <<>> \in Seq(Answer) /\ Taken \in 0..6
<1>1. uart \in Seq(Answer)
  BY DEF KeyboardTypeOK, Answer
<1>2. Taken \in 0..6
  BY TheDialogue DEF KeyboardTypeOK, Taken
<1> QED BY <1>1, <1>2 DEF KeyboardTypeOK, Answer

(* Detection is over or begins again. *)
LEMMA DetectStops ==
  ASSUME DetectInv, NoDevice \/ TimedOut \/ KeyboardReset \/ MopUp
  PROVE  Answers' /\ Strays' /\ InstalledInAscii'
<1>0. kbd' \notin 1..13 /\ Taken' = 0 /\ Last = 13
  BY TheDialogue DEF NoDevice, TimedOut, KeyboardReset, MopUp, Taken
<1>1. /\ UNCHANGED <<port, kbd_mode, kbd_out, stray>> /\ uart' \in {uart, <<>>}
      /\ installed' => installed
  BY DEF NoDevice, TimedOut, KeyboardReset, MopUp
<1>2. Calm(Taken, uart, kbd_out) => Calm(0, uart', kbd_out')
  BY <1>1, QueueTypes, Forgotten DEF DetectInv
<1>3. Answers'
  BY <1>0, <1>1, <1>2 DEF DetectInv, Answers
<1>4. Strays'
  BY <1>0, <1>1 DEF DetectInv, Strays
<1> QED BY <1>1, <1>3, <1>4 DEF DetectInv, InstalledInAscii

LEMMA DetectStarts ==
  ASSUME DetectInv, StartDetect
  PROVE  Answers' /\ Strays' /\ InstalledInAscii'
<1>0. kbd' = 1 /\ Taken' = 0 /\ Last = 13 /\ uart' = <<>> /\ UNCHANGED <<port, kbd_mode, installed, stray>>
  BY TheDialogue DEF StartDetect, Taken
<1>1. ASSUME port = "keyboard", kbd_mode = "scan"
      PROVE  Calm(0, <<>>, kbd_out') /\ Ends(0, <<>>, kbd_out', 1)
  <2>1. kbd_out' = kbd_out \o IdentAnswer
    BY <1>1 DEF StartDetect, Command
  <2>2. IdentAnswer \in Seq(Answer) /\ Len(IdentAnswer) = 7
    BY DEF IdentAnswer, Answer, Chars
  <2>3. Calm(0, <<>>, kbd_out)
    BY <1>1, QueueTypes, Forgotten DEF DetectInv, Answers
  <2> DEFINE n == Span(0, <<>>, kbd_out)
  <2>4. /\ Span(0, <<>>, kbd_out \o IdentAnswer) = n + 7 /\ n \in Nat
        /\ \A i \in 1..n : Run(0, <<>>, kbd_out \o IdentAnswer)[i] = Run(0, <<>>, kbd_out)[i]
        /\ \A j \in 1..7 : Run(0, <<>>, kbd_out \o IdentAnswer)[n + j] = IdentAnswer[j]
    <3>1. Extended(0, <<>>, kbd_out, IdentAnswer)
      BY <2>2, QueueTypes, Commanded DEF DetectInv
    <3> QED BY <2>2, <3>1 DEF Extended
  <2> HIDE DEF n
  <2>5. NotSeven(Run(0, <<>>, kbd_out), n)
    BY <2>3 DEF Calm, n
  <2>6. /\ NotSeven(Run(0, <<>>, kbd_out \o IdentAnswer), n + 7)
        /\ EndsIn(Run(0, <<>>, kbd_out \o IdentAnswer), n + 7, 1)
    BY <2>4, <2>5, IdentNotSeven
  <2> QED BY <2>1, <2>4, <2>6 DEF Calm, Ends
<1>2. Answers'
  BY <1>0, <1>1 DEF Answers
<1>3. Strays'
  <2>1. port # "keyboard" => kbd_out' = <<>>
    BY DEF StartDetect, Command, DetectInv, Strays
  <2>2. Len(uart') = 0 /\ stray' >= 0
    BY <1>0, KeyboardAssumption DEF DetectInv, KeyboardTypeOK
  <2> QED BY <1>0, <2>1, <2>2 DEF Strays
<1> QED BY <1>0, <1>2, <1>3 DEF DetectInv, InstalledInAscii

LEMMA DetectHears ==
  ASSUME DetectInv, KeyboardSends \/ StrayChar
  PROVE  Answers' /\ Strays' /\ InstalledInAscii'
<1>1. CASE StrayChar
  <2>1. Len(uart') = Len(uart) + 1 /\ stray' = stray + 1 /\ Len(uart) \in Nat /\ stray \in Nat /\ kbd \in Nat
    BY <1>1, TheDialogue, KeyboardAssumption DEF StrayChar, DetectInv, KeyboardTypeOK
  <2>2. port = "other" /\ UNCHANGED <<port, kbd_mode, kbd_out, kbd, installed>>
    BY <1>1 DEF StrayChar
  <2> QED BY <2>1, <2>2, TheDialogue DEF DetectInv, Answers, Strays, InstalledInAscii
<1>2. CASE KeyboardSends
  <2>0. port = "keyboard" /\ UNCHANGED <<port, kbd, installed, stray>> /\ Taken' = Taken
    BY <1>2 DEF KeyboardSends, DetectInv, Strays, Taken
  <2>1. ASSUME kbd_mode' = "scan"
        PROVE  /\ kbd_mode = "scan" /\ Run(Taken, uart', kbd_out') = Run(Taken, uart, kbd_out)
               /\ Span(Taken, uart', kbd_out') = Span(Taken, uart, kbd_out)
    <3>1. /\ kbd_mode = "scan" /\ kbd_out # <<>> /\ kbd_out' = Tail(kbd_out)
          /\ uart' = Append(uart, Head(kbd_out))
      BY <1>2, <2>1 DEF KeyboardSends
    <3>2. Taken \in Nat /\ uart \in Seq(Answer) /\ kbd_out \in Seq(Answer)
      BY QueueTypes DEF DetectInv
    <3> QED BY <3>1, <3>2, Arrived
  <2>2. Answers'
    BY <2>0, <2>1 DEF DetectInv, Answers, Calm, Ends
  <2>3. Strays'
    BY <2>0 DEF Strays
  <2>4. kbd_mode = "ascii" => kbd_mode' = "ascii"
    BY <1>2 DEF KeyboardSends
  <2> QED BY <2>0, <2>2, <2>3, <2>4 DEF DetectInv, InstalledInAscii
<1> QED BY <1>1, <1>2

(* Seven acknowledgements were taken or are at the front. *)
LEMMA NoSeventh ==
  ASSUME NEW S, NEW u \in Seq(S), NEW o \in Seq(S), u # <<>>, Head(u) = "ack"
  PROVE  ~Calm(6, u, o)
<1>1. Span(6, u, o) >= 7 /\ Span(6, u, o) \in Nat /\ Len(u) \in Nat \ {0} /\ u[1] = "ack"
  BY DEF Span
<1>2. \A k \in 1..7 : Run(6, u, o)[k] = "ack"
  <2> TAKE k \in 1..7
  <2>1. k \in 1..Span(6, u, o)
    BY <1>1
  <2>2. CASE k <= 6
    BY <2>1, <2>2 DEF Run
  <2>3. CASE k = 7
    <3>1. ~(k <= 6) /\ k <= 6 + Len(u) /\ k - 6 = 1
      BY <1>1, <2>3
    <3> QED BY <1>1, <2>1, <3>1 DEF Run
  <2> QED BY <2>2, <2>3
<1>3. 1 \in 1..Span(6, u, o) /\ 1 + 6 <= Span(6, u, o)
  BY <1>1
<1> QED BY <1>2, <1>3 DEF Calm, NotSeven

(* From the answer to IDENT on, only acknowledgements are right. *)
LEMMA ExpectAck ==
  ASSUME NEW i \in 7..13
  PROVE  Expected(i) = {"ack"}
BY TheDialogue DEF Expected

LEMMA CalmAfter ==
  ASSUME DetectInv, GotChar, port = "keyboard", kbd_mode = "scan"
  PROVE  Calm(Taken', uart', kbd_out') /\ (kbd' \in 1..12 => Ends(Taken', uart', kbd_out', Taken' + 1))
<1> DEFINE t == Taken
<1>0. /\ uart \in Seq(Answer) /\ kbd_out \in Seq(Answer) /\ t \in 0..6 /\ uart # <<>> /\ uart' = Tail(uart)
      /\ kbd \in 1..13 /\ Last = 13 /\ Ended = 14 /\ Len(IdentAnswer) = 7
      /\ Tail(uart) \in Seq(Answer)
  BY QueueTypes, TheDialogue DEF DetectInv, GotChar
<1>1. Calm(t, uart, kbd_out) /\ (kbd \in 1..12 => Ends(t, uart, kbd_out, t + 1))
  BY DEF DetectInv, Answers
<1>2. CASE Head(uart) \notin Expected(kbd)
  <2>1. Taken' = 0 /\ kbd_out' = kbd_out /\ kbd' \notin 1..12
    BY <1>0, <1>2 DEF GotChar, Taken
  <2> QED BY <1>0, <1>1, <2>1, Forgotten
<1>3. CASE Head(uart) \in Expected(kbd) /\ kbd \in 1..6
  <2>1. t = 0 /\ Taken' = 0 /\ kbd_out' = kbd_out
    BY <1>0, <1>3 DEF GotChar, NextCommand, Taken
  <2>2. Calm(0, Tail(uart), kbd_out)
    BY <1>0, <1>1, Forgotten
  <2>3. Ends(0, Tail(uart), kbd_out, 1)
    <3>1. Ends(0, uart, kbd_out, 1)
      BY <1>1, <1>3, <2>1
    <3> QED BY <1>0, <3>1, ReadOn
  <2> QED BY <1>0, <2>1, <2>2, <2>3
<1>4. CASE Head(uart) \in Expected(kbd) /\ kbd \in 7..12
  <2>1. Head(uart) = "ack"
    BY <1>4, ExpectAck
  <2>2. t = kbd - 7 /\ Taken' = t + 1 /\ kbd' = kbd + 1
    BY <1>0, <1>4 DEF GotChar, Taken
  <2>3. Run(t + 1, Tail(uart), kbd_out) = Run(t, uart, kbd_out) /\ Span(t + 1, Tail(uart), kbd_out) = Span(t, uart, kbd_out)
    <3>1. t \in Nat
      BY <1>0
    <3> HIDE DEF t
    <3> QED BY <1>0, <2>1, <3>1, TakenOne
  <2>4. Calm(t + 1, uart', kbd_out) /\ Ends(t + 1, uart', kbd_out, t + 1)
    BY <1>0, <1>1, <1>4, <2>3 DEF Calm, Ends
  <2> DEFINE c == IF kbd + 1 = 13 THEN "ackmode" ELSE "ack"
  <2>5. kbd_out' = kbd_out \o <<c>>
    BY <1>0, <1>4 DEF GotChar, NextCommand, Command
  <2>6. c \in Answer /\ (kbd # 12 => c = "ack") /\ (kbd = 12 => c = "ackmode")
    BY <1>4 DEF Answer, Chars
  <2> HIDE DEF c, t
  <2>7. c # "ack" \/ Ends(t + 1, uart', kbd_out, 5)
    <3>1. CASE kbd = 12
      BY <2>6, <3>1
    <3>2. CASE kbd # 12
      <4>1. t + 1 <= 5 /\ t + 1 \in Nat
        BY <1>4, <2>2, <3>2
      <4> QED BY <1>0, <2>4, <4>1, EndsLater
    <3> QED BY <3>1, <3>2
  <2>8. /\ Calm(t + 1, uart', kbd_out')
        /\ \A m \in Nat : Ends(t + 1, uart', kbd_out, m) => Ends(t + 1, uart', kbd_out', m + 1)
    <3>1. t + 1 \in Nat /\ uart' \in Seq(Answer)
      BY <1>0
    <3> QED BY <1>0, <2>4, <2>5, <2>6, <2>7, <3>1, CommandedOne
  <2>9. Ends(t + 1, uart', kbd_out', (t + 1) + 1)
    BY <1>0, <2>4, <2>8
  <2> QED BY <2>2, <2>8, <2>9
<1>5. CASE Head(uart) \in Expected(kbd) /\ kbd = 13
  <2>1. Head(uart) = "ack" /\ t = 6
    BY <1>0, <1>5, ExpectAck DEF Taken
  <2> QED BY <1>0, <1>1, <2>1, NoSeventh
<1> QED BY <1>0, <1>2, <1>3, <1>4, <1>5

LEMMA DetectCompares ==
  ASSUME MaxStray < Last, DetectInv, GotChar
  PROVE  Answers' /\ Strays' /\ InstalledInAscii'
<1>0. /\ Last = 13 /\ Ended = 14 /\ kbd \in 1..13 /\ uart # <<>> /\ uart \in Seq(Answer)
      /\ UNCHANGED <<port, kbd_mode, stray>> /\ uart' = Tail(uart) /\ stray \in 0..MaxStray
      /\ MaxStray \in Nat
  BY TheDialogue, QueueTypes, KeyboardAssumption DEF GotChar, DetectInv, KeyboardTypeOK
<1>1. Len(uart) \in Nat \ {0} /\ Len(uart') = Len(uart) - 1
  BY <1>0
<1>2. Answers'
  BY <1>0, CalmAfter DEF Answers
<1>3. Strays'
  <2>1. port # "keyboard" => kbd_out' = <<>>
    BY DEF GotChar, NextCommand, Command, DetectInv, Strays
  <2>2. port # "none"
    BY <1>0 DEF DetectInv, Strays
  <2>3. port = "other" /\ kbd' \in 1..13 => kbd' - 1 + Len(uart') <= stray
    BY <1>0, <1>1 DEF GotChar, DetectInv, Strays
  <2> QED BY <1>0, <2>1, <2>2, <2>3 DEF Strays
<1>4. InstalledInAscii'
  <2> SUFFICES ASSUME installed' = TRUE, ~installed
               PROVE  port = "keyboard" /\ kbd_mode = "ascii"
    BY <1>0 DEF InstalledInAscii, DetectInv
  <2>1. kbd = 13 /\ Head(uart) \in Expected(kbd)
    BY <1>0 DEF GotChar
  <2>2. Head(uart) = "ack"
    BY <2>1, ExpectAck
  <2>3. port = "keyboard"
    BY <1>0, <1>1, <2>1 DEF DetectInv, Strays, KeyboardTypeOK
  <2>4. kbd_mode # "scan"
    <3>1. Taken = 6 /\ kbd_out \in Seq(Answer)
      BY <1>0, <2>1, QueueTypes DEF Taken, DetectInv
    <3> QED BY <1>0, <2>2, <2>3, <3>1, NoSeventh DEF DetectInv, Answers
  <2> QED BY <2>3, <2>4 DEF DetectInv, KeyboardTypeOK
<1> QED BY <1>2, <1>3, <1>4

LEMMA DetectNextInv ==
  ASSUME MaxStray < Last, DetectInv, [KeyboardNext]_kbdVars
  PROVE  DetectInv'
<1>1. KeyboardTypeOK'
  BY KeyboardTypeNext DEF DetectInv
<1>2. CASE KeyboardNext
  <2>1. Answers' /\ Strays' /\ InstalledInAscii'
    BY <1>2, DetectStops, DetectStarts, DetectHears, DetectCompares DEF KeyboardNext, DetectStep
  <2> QED BY <1>1, <2>1 DEF DetectInv
<1>3. CASE UNCHANGED kbdVars
  BY <1>1, <1>3 DEF kbdVars, DetectInv, Answers, Strays, InstalledInAscii, Taken
<1> QED BY <1>2, <1>3

(* The dialogue of keyboard.c cannot be completed by answers that came     *)
(* late, over any number of time-outs and resets: in scan mode the         *)
(* keyboard never acknowledges seven times in a row.  A device that is no  *)
(* keyboard and sends less than a dialogue is not taken for one.           *)
THEOREM KeyboardInAscii ==
  ASSUME MaxStray < Last
  PROVE  KeyboardSpec => []InstalledInAscii
<1>1. DetectInv => InstalledInAscii
  BY DEF DetectInv
<1>2. DetectInv /\ [KeyboardNext]_kbdVars => DetectInv'
  BY DetectNextInv
<1> QED BY <1>1, <1>2, DetectInitInv, PTL DEF KeyboardSpec

-----------------------------------------------------------------------------
(* A step of the boot is for each part a step of its own or none. *)
LEMMA BootUsesLoad ==
  ASSUME BootNext
  PROVE  LoadNext \/ UNCHANGED loadVars
<1> USE DEF OnlyKeyboard, OnlyAta, OnlySd, OnlyLoad, OnlyPc, driverVars
<1>1. CASE DetectKeyboard \/ NoInterface \/ AtaStep \/ SdStep \/ SdStart \/ SdStarted \/ SdTable
  BY <1>1 DEF DetectKeyboard, NoInterface, AtaStep, SdStep, SdStart, SdStarted, SdTable
<1>2. CASE \E d, at, during, next : Probe(d, at, during) \/ Probed(d, during, next)
  BY <1>2 DEF Probe, Probed
<1>3. CASE ProgramLoader \/ CallKernel
  BY <1>3 DEF ProgramLoader, CallKernel, LoadNext
<1>4. CASE BootMenu \/ MenuExpires \/ MenuInput
  <2>1. MenuText \/ RomfsLoad("menu") => LoadNext
    BY DEF LoadNext, Media
  <2>2. Selection => LoadNext \/ UNCHANGED loadVars
    BY <2>1 DEF Selection
  <2> QED BY <1>4, <2>1, <2>2 DEF BootMenu, MenuExpires, MenuInput
<1>5. CASE SdFile
  BY <1>5 DEF SdFile, FindFile, LoadNext, Media
<1>6. CASE \E d, at, part, next : TryBoot(d, at, part, next)
  BY <1>6 DEF TryBoot
<1>7. CASE \E part, next : IdePartitions(part, "ide0", next) \/ IdePartitions(part, "ide1", next)
  BY <1>7 DEF IdePartitions, FindFile, LoadNext, Media
<1>8. CASE Loading
  BY <1>8 DEF Loading, LoadNext
<1>9. CASE RomfsKernel
  BY <1>9 DEF RomfsKernel, LoadNext, Media
<1>10. CASE Receive
  BY <1>10 DEF Receive, LoadNext
<1>11. CASE ProgramAta \/ ProgramSd \/ ProgramExit \/ Devices
  BY <1>11 DEF ProgramAta, ProgramSd, ProgramExit, Devices
<1>12. CASE Reset
  BY <1>12 DEF Reset, LoadNext
<1> QED BY <1>1, <1>2, <1>3, <1>4, <1>5, <1>6, <1>7, <1>8, <1>9, <1>10, <1>11, <1>12
        DEF BootNext, BootStep

LEMMA BootUsesAta ==
  ASSUME BootNext
  PROVE  AtaNext \/ UNCHANGED ataVars
<1> USE DEF OnlyKeyboard, OnlyAta, OnlySd, OnlyLoad, OnlyPc, driverVars
<1>1. CASE DetectKeyboard \/ NoInterface \/ SdStep \/ SdStart \/ SdStarted \/ SdTable \/ SdFile
           \/ ProgramLoader \/ CallKernel \/ BootMenu \/ MenuExpires \/ MenuInput
           \/ Loading \/ RomfsKernel \/ Receive \/ ProgramSd
  BY <1>1 DEF DetectKeyboard, NoInterface, SdStep, SdStart, SdStarted, SdTable, SdFile,
              ProgramLoader, CallKernel, BootMenu, MenuExpires, MenuInput, Loading, RomfsKernel, Receive,
              ProgramSd
<1>2. CASE \E d \in Drives : \E at, during : Probe(d, at, during)
  BY <1>2, TablesAssumption DEF Probe, AtaNext, AtaCall
<1>3. CASE \E d, during, next : Probed(d, during, next)
  BY <1>3 DEF Probed
<1>4. CASE \E d \in Drives : \E at, part, next : TryBoot(d, at, part, next)
  <2>1. 1 \in 0..MaxNum
    BY TablesAssumption, AtaAssumption
  <2> QED BY <1>4, <2>1, TablesAssumption DEF TryBoot, AtaNext, AtaCall
<1>5. CASE \E part, m, next : IdePartitions(part, m, next)
  BY <1>5 DEF IdePartitions
<1>6. CASE AtaStep \/ ProgramAta \/ ProgramExit
  BY <1>6 DEF AtaStep, ProgramAta, ProgramExit, AtaNext
<1>7. CASE Devices
  BY <1>7 DEF Devices, AtaNext
<1>8. CASE Reset
  BY <1>8 DEF Reset, AtaNext
<1> QED BY <1>1, <1>2, <1>3, <1>4, <1>5, <1>6, <1>7, <1>8 DEF BootNext, BootStep, Drives

LEMMA BootUsesSd ==
  ASSUME BootNext, machine \in Machines
  PROVE  SdNext \/ UNCHANGED sdVars
<1> USE DEF OnlyKeyboard, OnlyAta, OnlySd, OnlyLoad, OnlyPc, driverVars
<1>1. CASE DetectKeyboard \/ NoInterface \/ AtaStep \/ ProgramLoader \/ CallKernel \/ BootMenu
           \/ MenuExpires \/ MenuInput \/ Loading \/ RomfsKernel \/ Receive \/ ProgramAta
  BY <1>1 DEF DetectKeyboard, NoInterface, AtaStep, ProgramLoader, CallKernel, BootMenu,
              MenuExpires, MenuInput, Loading, RomfsKernel, Receive, ProgramAta
<1>2. CASE \E d, at, during, next : Probe(d, at, during) \/ Probed(d, during, next)
  BY <1>2 DEF Probe, Probed
<1>3. CASE \E d, at, part, m, next : TryBoot(d, at, part, next) \/ IdePartitions(part, m, next)
  BY <1>3 DEF TryBoot, IdePartitions
<1>4. CASE SdStep \/ SdStart \/ SdStarted \/ SdFile
  BY <1>4 DEF SdStep, SdStart, SdStarted, SdFile, SdNext
<1>5. CASE SdTable
  BY <1>5, TablesAssumption DEF SdTable, SdNext
<1>6. CASE ProgramSd \/ ProgramExit
  BY <1>6 DEF ProgramSd, ProgramExit, SdNext
<1>7. CASE Devices
  <2>1. machine.cards \subseteq Kinds
    BY BootAssumption
  <2> QED BY <1>7, <2>1 DEF Devices, SdNext
<1>8. CASE Reset
  BY <1>8 DEF Reset, SdNext
<1> QED BY <1>1, <1>2, <1>3, <1>4, <1>5, <1>6, <1>7, <1>8 DEF BootNext, BootStep

LEMMA BootUsesKeyboard ==
  ASSUME BootNext
  PROVE  KeyboardNext \/ UNCHANGED kbdVars
<1> USE DEF OnlyKeyboard, OnlyAta, OnlySd, OnlyLoad, OnlyPc, driverVars
<1>1. CASE DetectKeyboard
  BY <1>1 DEF DetectKeyboard, KeyboardNext
<1>2. CASE NoInterface \/ AtaStep \/ SdStep \/ SdStart \/ SdStarted \/ SdTable \/ SdFile
           \/ ProgramLoader \/ CallKernel \/ BootMenu \/ MenuExpires \/ MenuInput
           \/ Loading \/ RomfsKernel \/ Receive \/ ProgramAta \/ ProgramSd \/ ProgramExit
  BY <1>2 DEF NoInterface, AtaStep, SdStep, SdStart, SdStarted, SdTable, SdFile, ProgramLoader,
              CallKernel, BootMenu, MenuExpires, MenuInput, Loading, RomfsKernel, Receive, ProgramAta,
              ProgramSd,              ProgramExit
<1>3. CASE \E d, at, during, next : Probe(d, at, during) \/ Probed(d, during, next)
  BY <1>3 DEF Probe, Probed
<1>4. CASE \E d, at, part, m, next : TryBoot(d, at, part, next) \/ IdePartitions(part, m, next)
  BY <1>4 DEF TryBoot, IdePartitions
<1>5. CASE Devices
  BY <1>5 DEF Devices, KeyboardNext
<1>6. CASE Reset
  BY <1>6 DEF Reset, KeyboardNext
<1> QED BY <1>1, <1>2, <1>3, <1>4, <1>5, <1>6 DEF BootNext, BootStep

LEMMA MachineKept ==
  ASSUME BootNext
  PROVE  machine' = machine
BY DEF BootNext, BootStep, OnlyKeyboard, OnlyAta, OnlySd, OnlyLoad, OnlyPc, driverVars,
       DetectKeyboard, NoInterface, Probe, Probed, ProgramLoader, BootMenu, MenuExpires, MenuInput, SdStart,
       SdStarted, SdTable, SdFile, TryBoot, IdePartitions, Loading, RomfsKernel, Receive,
       CallKernel, AtaStep, SdStep, ProgramAta, ProgramSd, ProgramExit, Devices, Reset

InMachines == machine \in Machines

(* The boot uses the drivers and loaders as their specifications say:      *)
(* nothing in main1.c, main2.c and the loaders of stage 2 goes past them.  *)
THEOREM BootImplements == BootSpec => KeyboardSpec /\ LoadSpec /\ AtaSpec /\ SdSpec
<1>1. BootInit => LoadInit
  BY DEF BootInit
<1>2. BootInit => AtaInit
  BY DEF BootInit
<1>3. BootInit => SdInit
  BY DEF BootInit
<1>4. BootInit => InMachines
  BY DEF BootInit, InMachines
<1>5. InMachines /\ [BootNext]_vars => InMachines'
  BY MachineKept DEF vars, InMachines
<1>6. InMachines /\ [BootNext]_vars => [LoadNext]_loadVars
  BY BootUsesLoad DEF vars, driverVars, InMachines
<1>7. InMachines /\ [BootNext]_vars => [AtaNext]_ataVars
  BY BootUsesAta DEF vars, driverVars, InMachines
<1>8. InMachines /\ [BootNext]_vars => [SdNext]_sdVars
  BY BootUsesSd DEF vars, driverVars, InMachines
<1>9. BootSpec => LoadSpec
  BY <1>1, <1>4, <1>5, <1>6, PTL DEF BootSpec, LoadSpec
<1>10. BootSpec => AtaSpec
  BY <1>2, <1>4, <1>5, <1>7, PTL DEF BootSpec, AtaSpec
<1>11. BootSpec => SdSpec
  BY <1>3, <1>4, <1>5, <1>8, PTL DEF BootSpec, SdSpec
<1>12. BootInit => KeyboardInit
  BY DEF BootInit
<1>13. InMachines /\ [BootNext]_vars => [KeyboardNext]_kbdVars
  BY BootUsesKeyboard DEF vars, driverVars, InMachines
<1>14. BootSpec => KeyboardSpec
  BY <1>4, <1>5, <1>12, <1>13, PTL DEF BootSpec, KeyboardSpec
<1> QED BY <1>9, <1>10, <1>11, <1>14

(* In every boot, with resets, card changes, drives that finish late and   *)
(* programs that call the drivers: no loader touches the firmware before a *)
(* segment was stored beyond the range that load_range_allowed was given.  *)
(* Nothing is assumed of the segments.                                     *)
THEOREM BootFirmwareIntact == BootSpec => []FirmwareIntact
BY BootImplements, LoadsSafely, PTL

(* That needs a segment with p_filesz > p_memsz, for which load.c has no   *)
(* test: on media without one, the reserved areas are never touched, as    *)
(* the comment in load_kernel_elf_phdr_load says.                          *)
THEOREM WellFormedIntact ==
  ASSUME \A p \in Segments : p.p_filesz <= p.p_memsz
  PROVE  BootSpec => [](\A a \in Reserved : mem[a] = "fw")
<1> DEFINE Never == LoadTypeOK /\ ld.at # "overrun"
<1>1. LoadInit => Never
  BY LoadInitInv DEF LoadInv, LoadInit, Ld
<1>2. LoadTypeOK' /\ Never /\ [LoadNext]_loadVars => Never'
  <2> SUFFICES ASSUME LoadTypeOK, ld.at # "overrun", [LoadNext]_loadVars PROVE ld'.at # "overrun"
    OBVIOUS
  <2> USE DEF LoadTypeOK
  <2>1. CASE LoadSegment
    BY <2>1 DEF LoadSegment
  <2>2. CASE CutOff
    <3>1. PICK p \in Segments, k \in Nat :
            /\ k <= p.p_filesz
            /\ IF k > p.p_memsz /\ Covered(p.p_vaddr, k) \cap Reserved # {} THEN Overrun ELSE Fail
      BY <2>2, FilesAssumption, LoadAssumption DEF CutOff
    <3>2. ~(k > p.p_memsz)
      <4>1. p.p_filesz <= p.p_memsz /\ p.p_filesz \in Nat /\ p.p_memsz \in Nat
        BY FilesAssumption, LoadAssumption
      <4> QED BY <3>1, <4>1
    <3> QED BY <3>1, <3>2 DEF Fail
  <2>3. CASE Stage2Start \/ MenuText \/ NextMedium
    BY <2>3 DEF Stage2Start, MenuText, NextMedium, Ld
  <2>4. CASE BadElf \/ ElfEntry \/ load_kernel_bin
    <3>1. \E at \in {"failed", "loaded"} : ld' = [ld EXCEPT !.at = at]
      BY <2>4, Zenon DEF BadElf, ElfEntry, load_kernel_bin, Fail, Succeed
    <3> QED BY <3>1
  <2>6. CASE receive_kernel
    <3>1. ld' = Ld("out", "none", 0) \/ ld' = Ld("loaded", "kermit", 0)
      BY <2>6, Zenon DEF receive_kernel
    <3> QED BY <3>1 DEF Ld
  <2>7. CASE \E m \in Media : load_kernel(m) \/ RomfsLoad(m)
    <3>1. \E m : \E at \in {"bin", "elf", "failed", "loaded"} : ld' = Ld(at, m, 0)
      <4>1. ASSUME NEW m, load_kernel(m) PROVE \E at \in {"bin", "elf", "failed"} : ld' = Ld(at, m, 0)
        BY <4>1 DEF load_kernel
      <4>2. ASSUME NEW m, RomfsLoad(m) PROVE ld' = Ld("loaded", m, 0) \/ ld' = Ld("failed", m, 0)
        BY <4>2, Zenon DEF RomfsLoad
      <4> QED BY <2>7, <4>1, <4>2
    <3> QED BY <3>1 DEF Ld
  <2>5. CASE UNCHANGED loadVars
    BY <2>5 DEF loadVars
  <2> QED BY <2>1, <2>2, <2>3, <2>4, <2>5, <2>6, <2>7 DEF LoadNext, FileStep
<1>3. Never /\ FirmwareIntact => \A a \in Reserved : mem[a] = "fw"
  BY DEF FirmwareIntact
<1> QED BY <1>1, <1>2, <1>3, BootImplements, LoadsSafely, PTL DEF LoadSpec

(* In every boot, what is started is what was loaded last, at its entry    *)
(* point.                                                                  *)
THEOREM BootStartsImage == BootSpec => []StartsImage
BY BootImplements, LoadsSafely, PTL

(* In every boot, and for the programs after it, sectors that were read    *)
(* are the ones that were asked for.                                       *)
THEOREM BootRightSectors == BootSpec => []RightSectors
BY BootImplements, SectorsRight, PTL

(* No drive gets a command while it is busy, over resets as well. *)
THEOREM BootBusyLeftAlone == BootSpec => BusyLeftAlone
BY BootImplements, BusyKept, PTL

(* SD transfers reach the block that was asked for, or none. *)
THEOREM BootRightBlock == BootSpec => []RightBlock
BY BootImplements, BlocksRight, PTL

(* In every boot, over resets in the middle of the dialogue, the keyboard  *)
(* handlers are installed over a keyboard in ASCII mode only.              *)
THEOREM BootKeyboardInAscii ==
  ASSUME MaxStray < Last
  PROVE  BootSpec => []InstalledInAscii
BY BootImplements, KeyboardInAscii, PTL

-----------------------------------------------------------------------------
(* The stages of the boot.  A file that is being loaded is on a medium     *)
(* that another one follows.                                               *)
BootFlow ==
  /\ InMachines /\ pc \in Stages /\ found \subseteq Drives
  /\ resets \in 0..machine.resets
  /\ pc = "loading" => ld.medium \in DOMAIN AfterMedium

LEMMA Following == \A m \in DOMAIN AfterMedium : AfterMedium[m] \in Stages \ {"loading"}
<1>1. DOMAIN AfterMedium = {"menu", "sd", "ide0", "ide1", "romfs"}
  BY DEF AfterMedium
<1> QED BY <1>1 DEF AfterMedium, Stages

LEMMA FileStepMedium ==
  ASSUME LoadTypeOK, FileStep
  PROVE  ld'.medium = ld.medium
BY DEF LoadTypeOK, FileStep, load_kernel_bin, BadElf, LoadSegment, CutOff, ElfEntry, Fail,
       Overrun, Succeed

LEMMA FlowNext ==
  ASSUME LoadTypeOK, BootFlow, BootNext
  PROVE  BootFlow'
<1> USE DEF OnlyKeyboard, OnlyAta, OnlySd, OnlyLoad, OnlyPc, driverVars, loadVars
<1>0. InMachines' /\ machine' = machine /\ machine.resets \in Nat
  BY MachineKept, BootAssumption DEF BootFlow, InMachines
<1>m. DOMAIN AfterMedium = {"menu", "sd", "ide0", "ide1", "romfs"}
  BY DEF AfterMedium
<1>1. CASE AtaStep \/ SdStep \/ ProgramAta \/ ProgramSd \/ Devices
  BY <1>0, <1>1 DEF AtaStep, SdStep, ProgramAta, ProgramSd, Devices, BootFlow
<1>2. CASE DetectKeyboard \/ NoInterface \/ SdStart \/ SdStarted \/ SdTable \/ ProgramLoader
           \/ CallKernel \/ BootMenu \/ Receive \/ ProgramExit
  <2>1. pc' \in Stages \ {"loading"} /\ UNCHANGED <<found, resets>>
    BY <1>2 DEF DetectKeyboard, NoInterface, SdStart, SdStarted, SdTable, ProgramLoader, CallKernel,
                BootMenu, Receive, ProgramExit, Stages
  <2> QED BY <1>0, <2>1 DEF BootFlow
<1>3. CASE Probe(0, "probe0", "probing0") \/ Probe(1, "probe1", "probing1")
           \/ Probed(0, "probing0", "probe1") \/ Probed(1, "probing1", "stage2")
  <2>1. pc' \in Stages \ {"loading"} /\ found' \subseteq Drives /\ UNCHANGED resets
    BY <1>3 DEF Probe, Probed, Stages, Drives, BootFlow
  <2> QED BY <1>0, <2>1 DEF BootFlow
<1>4. CASE TryBoot(0, "ide0", "ide0_part", "ide1") \/ TryBoot(1, "ide1", "ide1_part", "romfs")
  <2>1. pc' \in Stages \ {"loading"} /\ UNCHANGED <<found, resets>>
    BY <1>4 DEF TryBoot, Stages
  <2> QED BY <1>0, <2>1 DEF BootFlow
<1>5. CASE MenuExpires \/ MenuInput \/ RomfsKernel
  <2>0. Selection => pc' \in {"start", "loading", "sd"}
    BY DEF Selection
  <2>1. pc' \in Stages /\ UNCHANGED <<found, resets>>
    BY <1>5, <2>0 DEF MenuExpires, MenuInput, RomfsKernel, Stages
  <2>2. pc' = "loading" => ld'.medium \in {"menu", "romfs"}
    <3>1. \A m : RomfsLoad(m) => ld' = Ld("loaded", m, 0) \/ ld' = Ld("failed", m, 0)
      BY Zenon DEF RomfsLoad
    <3>2. \A m : RomfsLoad(m) => ld'.medium = m
      BY <3>1 DEF Ld
    <3>3. Selection /\ pc' = "loading" => ld'.medium = "menu"
      BY <3>2 DEF Selection
    <3>4. RomfsKernel => ld'.medium = "romfs"
      BY <3>2 DEF RomfsKernel
    <3>5. MenuExpires \/ MenuInput => Selection \/ pc' # "loading"
      BY DEF MenuExpires, MenuInput
    <3> QED BY <1>5, <3>3, <3>4, <3>5
  <2> QED BY <1>0, <1>m, <2>1, <2>2 DEF BootFlow
<1>6. CASE SdFile \/ IdePartitions("ide0_part", "ide0", "ide1") \/ IdePartitions("ide1_part", "ide1", "romfs")
  <2>1. pc' \in Stages /\ UNCHANGED <<found, resets>>
    BY <1>6 DEF SdFile, IdePartitions, Stages
  <2>2. pc' = "loading" => ld'.medium \in {"sd", "ide0", "ide1"}
    BY <1>6 DEF SdFile, IdePartitions, FindFile, load_kernel, Ld
  <2> QED BY <1>0, <1>m, <2>1, <2>2 DEF BootFlow
<1>7. CASE Loading
  <2>1. CASE FileStep /\ pc' = IF ld'.at = "loaded" THEN "start" ELSE "loading"
    BY <1>0, <1>7, <2>1, FileStepMedium DEF Loading, BootFlow, Stages
  <2>2. CASE NextMedium /\ pc' = AfterMedium[ld.medium]
    <3>1. pc' \in Stages \ {"loading"}
      BY <1>7, <2>2, Following DEF Loading, BootFlow
    <3> QED BY <1>0, <1>7, <3>1 DEF Loading, BootFlow
  <2> QED BY <1>7, <2>1, <2>2 DEF Loading
<1>8. CASE Reset
  BY <1>0, <1>8 DEF Reset, BootFlow, Stages
<1> QED BY <1>1, <1>2, <1>3, <1>4, <1>5, <1>6, <1>7, <1>8 DEF BootNext, BootStep

(* Whatever the devices do, the boot is at one of its stages, its drivers  *)
(* and loaders are in one of their states, and every medium that fails is  *)
(* followed by another one (main2.c).                                      *)
THEOREM BootTypes == BootSpec => []BootTypeOK
<1>1. BootInit => BootFlow
  BY BootAssumption DEF BootInit, BootFlow, InMachines, Stages
<1>2. LoadTypeOK /\ BootFlow /\ [BootNext]_vars => BootFlow'
  BY FlowNext DEF vars, driverVars, loadVars, BootFlow, InMachines
<1>3. KeyboardTypeOK /\ [KeyboardNext]_kbdVars => KeyboardTypeOK'
  BY KeyboardTypeNext
<1>4. KeyboardSpec => []KeyboardTypeOK
  BY <1>3, KeyboardTypeInit, PTL DEF KeyboardSpec
<1>5. BootSpec => []LoadTypeOK
  BY BootImplements, LoadsSafely, PTL
<1>6. BootSpec => []BootFlow
  BY <1>1, <1>2, <1>5, PTL DEF BootSpec
<1>7. KeyboardTypeOK /\ AtaTypeOK /\ SdTypeOK /\ LoadTypeOK /\ BootFlow => BootTypeOK
  BY DEF BootFlow, InMachines, BootTypeOK
<1> QED BY <1>4, <1>5, <1>6, <1>7, BootImplements, SectorsRight, BlocksRight, PTL
=============================================================================
