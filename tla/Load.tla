---------------------------------- MODULE Load ----------------------------------
(***************************************************************************)
(* The stage 2 program loaders: flat binaries and ELF files from FAT media *)
(* (stage2/load/load.c), files from the ROM file system (romfs/load.c) and *)
(* Kermit transfers (kermit/kermit_support.c).                             *)
(*                                                                         *)
(* Memory is known by what was loaded there last.  The file systems and    *)
(* the Kermit protocol (external, as the loaders use them) may fail at any *)
(* point, with any part of the data already stored.  A flat binary is      *)
(* loaded as long as it is; that it does not reach stage 2 is up to its    *)
(* author.                                                                 *)
(***************************************************************************)
EXTENDS Naturals

CONSTANTS
  AddrLimit32,   \* 2^32: addresses wrap
  LowEnd,        \* $2000: the end of vectors, system data and firmware data
  KernelLoad,    \* KERNEL_LOAD_ADDRESS
  Stage2Load, Stage2End,   \* STAGE2_LOAD, _end
  StackGuard,    \* stack_guard_start, a page below the stack in use
  MemSize,       \* sdb->memsize
  Segments,      \* loadable segments of ELF files: p_vaddr, p_filesz, p_memsz
  MaxSegments,   \* bound: program headers of a file
  Sizes,         \* sizes of flat binaries
  Entries        \* e_entry of ELF files

ASSUME LoadAssumption ==
  /\ AddrLimit32 \in Nat /\ LowEnd \in Nat /\ KernelLoad \in Nat /\ Stage2Load \in Nat
  /\ Stage2End \in Nat /\ StackGuard \in Nat /\ MemSize \in Nat
  /\ LowEnd <= KernelLoad /\ KernelLoad < Stage2Load /\ Stage2Load < Stage2End
  /\ Stage2End <= StackGuard /\ StackGuard < MemSize /\ MemSize <= AddrLimit32
ASSUME FilesAssumption ==
  /\ Segments \subseteq [p_vaddr : 0..(AddrLimit32 - 1), p_filesz : 0..(AddrLimit32 - 1),
                         p_memsz : 0..(AddrLimit32 - 1)]
  /\ Sizes \subseteq 0..(Stage2Load - KernelLoad) /\ Entries \subseteq Nat
  /\ MaxSegments \in Nat

VARIABLES
  mem,           \* the medium each byte was loaded from; "fw": the firmware's
  kernel_entry,
  image,         \* the last program that a loader has reported as loaded
  ld             \* the load in progress: its medium, the next program header
                 \* of an ELF file, and the result

loadVars == <<mem, kernel_entry, image, ld>>

Addresses == 0..(AddrLimit32 - 1)
Media == {"text", "menu", "sd", "ide0", "ide1", "romfs", "kermit"}

(* The areas load_range_allowed keeps: up to, not including, the end. *)
Reserved == 0..(LowEnd - 1) \cup Stage2Load..(Stage2End - 1) \cup StackGuard..(MemSize - 1)

(* A flat program is entered where it is loaded, an ELF file at e_entry. *)
Flat(m, n, whole) ==
  [medium |-> m, kind |-> "flat", entry |-> KernelLoad, size |-> n, whole |-> whole]
Elf(m, e) == [medium |-> m, kind |-> "elf", entry |-> e, size |-> 0, whole |-> TRUE]
Images == [medium : Media \cup {"none"}, kind : {"flat", "elf"}, entry : Nat, size : Nat,
           whole : BOOLEAN]
NoImage == Flat("none", 0, FALSE)
Ld(at, medium, seg) == [at |-> at, medium |-> medium, seg |-> seg]
LoadIdle == ld.at = "out"

LoadInit ==
  /\ mem = [a \in Addresses |-> IF a \in Reserved THEN "fw" ELSE "old"]
  /\ kernel_entry = KernelLoad
  /\ image = NoImage
  /\ ld = Ld("out", "none", 0)

(* Stage 2 is decompressed anew for every boot, its variables included;    *)
(* nothing else of an earlier load counts.                                 *)
Stage2Start ==
  /\ ld' = Ld("out", "none", 0)
  /\ kernel_entry' = KernelLoad
  /\ image' = NoImage
  /\ mem' = [a \in Addresses |-> IF a \in Reserved THEN "fw" ELSE "old"]

(* The n bytes from a on, and that they are stored by the load from m. *)
Covered(a, n) == {b \in Addresses : (a <= b /\ b < a + n) \/ b + AddrLimit32 < a + n}
Stored(a, n, m) == [b \in Addresses |-> IF b \in Covered(a, n) THEN m ELSE mem[b]]

Fail == ld' = [ld EXCEPT !.at = "failed"] /\ UNCHANGED <<kernel_entry, image>>
(* Stage 2 has overwritten itself, and what runs from here on is unknown. *)
Overrun == ld' = [ld EXCEPT !.at = "overrun"] /\ UNCHANGED <<kernel_entry, image>>
Succeed(entry, im) ==
  /\ ld' = [ld EXCEPT !.at = "loaded"]
  /\ kernel_entry' = entry
  /\ image' = im

-----------------------------------------------------------------------------
(* load_kernel: the partitions in turn.  A file is found on one of them,   *)
(* or none is, or a file system cannot be attached.                        *)
load_kernel(m) ==
  /\ LoadIdle
  /\ \E at \in {"bin", "elf", "failed"} : ld' = Ld(at, m, 0)
  /\ UNCHANGED <<mem, kernel_entry, image>>

(* The file is read until nothing is, which has to be its end. *)
load_kernel_bin ==
  /\ ld.at = "bin"
  /\ \E n \in Sizes, eof \in BOOLEAN :
       /\ mem' = Stored(KernelLoad, n, ld.medium)
       /\ IF eof /\ n > 0
          THEN Succeed(kernel_entry, Flat(ld.medium, n, TRUE))
          ELSE Fail

(* (Mutant: no test for the end of the address space.) *)
load_range_allowed_Wraps(start, size) ==
  LET last == (start + size - 1) % AddrLimit32
  IN  \/ size = 0
      \/ /\ ~(start < LowEnd)
         /\ ~(last >= Stage2Load /\ start < Stage2End)
         /\ ~(last >= StackGuard /\ start < MemSize)
load_range_allowed(start, size) ==
  LET last == start + size - 1
  IN  \/ size = 0
      \/ /\ start <= AddrLimit32 - size
         /\ ~(start < LowEnd)
         /\ ~(last >= Stage2Load /\ start < Stage2End)
         /\ ~(last >= StackGuard /\ start < MemSize)

(* The header, a program header or a segment cannot be read or is invalid. *)
BadElf ==
  /\ ld.at = "elf"
  /\ UNCHANGED mem
  /\ Fail

(* load_kernel_elf_phdr_load.  The range that is tested has p_memsz bytes, *)
(* the file p_filesz; if these are no more, the rest is cleared.  If they  *)
(* are, they are stored all the same, and the number of bytes to clear is  *)
(* negative: everything is.                                                *)
LoadSegment ==
  /\ ld.at = "elf" /\ ld.seg < MaxSegments
  /\ \E p \in Segments :
       /\ load_range_allowed(p.p_vaddr, p.p_memsz)
       /\ IF p.p_filesz <= p.p_memsz
          THEN /\ mem' = Stored(p.p_vaddr, p.p_memsz, ld.medium)
               /\ ld' = [ld EXCEPT !.seg = @ + 1]
               /\ UNCHANGED <<kernel_entry, image>>
          ELSE /\ mem' = Stored(p.p_vaddr, p.p_filesz, ld.medium)
               /\ Overrun

(* Or it is cut off by an error after k bytes. *)
CutOff ==
  /\ ld.at = "elf" /\ ld.seg < MaxSegments
  /\ \E p \in Segments : \E k \in 0..p.p_filesz :
       /\ load_range_allowed(p.p_vaddr, p.p_memsz)
       /\ k < p.p_filesz
       /\ mem' = Stored(p.p_vaddr, k, ld.medium)
       /\ IF k > p.p_memsz /\ Covered(p.p_vaddr, k) \cap Reserved # {} THEN Overrun ELSE Fail

(* (Mutant: the entry point is stored before it is tested.) *)
ElfEntry_Early ==
  /\ ld.at = "elf"
  /\ \E e \in Entries :
       IF e # 0 THEN Succeed(e, Elf(ld.medium, e))
       ELSE /\ ld' = [ld EXCEPT !.at = "failed"]
            /\ kernel_entry' = e
            /\ UNCHANGED image
  /\ UNCHANGED mem
ElfEntry ==
  /\ ld.at = "elf"
  /\ \E e \in Entries : IF e # 0 THEN Succeed(e, Elf(ld.medium, e)) ELSE Fail
  /\ UNCHANGED mem

-----------------------------------------------------------------------------
(* romfs_load_kernel, and a menu entry: the whole file, or a part of it    *)
(* and an error, or no such file.                                          *)
RomfsLoad(m) ==
  /\ LoadIdle
  /\ \E n \in Sizes, ok \in BOOLEAN :
       /\ mem' = Stored(KernelLoad, n, m)
       /\ IF ok /\ n > 0
          THEN /\ ld' = Ld("loaded", m, 0)
               /\ image' = Flat(m, n, TRUE)
          ELSE ld' = Ld("failed", m, 0) /\ UNCHANGED image
  /\ UNCHANGED kernel_entry

(* The menu text is stored where a program will be. *)
MenuText ==
  /\ LoadIdle
  /\ \E n \in Sizes : mem' = Stored(KernelLoad, n, "text")
  /\ UNCHANGED <<kernel_entry, image, ld>>

(* receive_kernel.  A file that the sender cancels is closed like one that *)
(* is complete, and an empty one is a success.                             *)
receive_kernel ==
  /\ LoadIdle
  /\ \E n \in Sizes, end \in {"whole", "cancelled", "error"} :
       /\ mem' = Stored(KernelLoad, n, "kermit")
       /\ IF end = "error"
          THEN ld' = Ld("out", "none", 0) /\ UNCHANGED image
          ELSE /\ ld' = Ld("loaded", "kermit", 0)
               /\ image' = Flat("kermit", n, end = "whole")
  /\ UNCHANGED kernel_entry

FileStep == load_kernel_bin \/ BadElf \/ LoadSegment \/ CutOff \/ ElfEntry
(* The caller goes on to the next medium. *)
NextMedium ==
  /\ ld.at = "failed"
  /\ ld' = Ld("out", "none", 0)
  /\ UNCHANGED <<mem, kernel_entry, image>>

LoadNext ==
  \/ Stage2Start
  \/ \E m \in Media : load_kernel(m) \/ RomfsLoad(m)
  \/ FileStep
  \/ MenuText
  \/ receive_kernel
  \/ NextMedium

LoadSpec == LoadInit /\ [][LoadNext]_loadVars

-----------------------------------------------------------------------------
LoadTypeOK ==
  /\ mem \in [Addresses -> Media \cup {"fw", "old"}]
  /\ kernel_entry \in Nat
  /\ image \in Images
  /\ ld \in [at : {"out", "bin", "elf", "failed", "loaded", "overrun"},
             medium : Media \cup {"none"}, seg : 0..MaxSegments]

(* load.c: "Don't allow overwriting firmware-reserved areas, stage2, or    *)
(* stack": no byte of them is touched, by any sequence of segments and     *)
(* attempts, at either end of the address space, and also if a load is     *)
(* cut off.  The exception is a segment that is longer in the file than in *)
(* memory and was stored beyond the range that was tested.                 *)
FirmwareIntact == ld.at # "overrun" => \A a \in Reserved : mem[a] = "fw"

(* The program that is started is the one that was reported as loaded      *)
(* last, at its own entry point, whatever earlier attempts have left       *)
(* behind; a flat one is complete, and in memory where it is entered.      *)
(* Kermit is the exception, for files that are empty or cancelled.         *)
StartsImage ==
  ld.at = "loaded" =>
    /\ kernel_entry = image.entry
    /\ image.medium = ld.medium
    /\ \/ image.whole /\ (image.kind = "flat" => mem[KernelLoad] = image.medium)
       \/ (image.medium = "kermit" /\ (image.size = 0 \/ ~image.whole))
=============================================================================
