-------------------------------- MODULE MCBoot --------------------------------
EXTENDS Boot

Machine(p, cs, ds, fs, x, c, r) ==
  [port |-> p, cards |-> cs, drives |-> ds, files |-> fs, xosera |-> x, calls |-> c, resets |-> r]
(* One part at a time in detail, and two machines with everything. *)
MCMachines ==
  { Machine("keyboard", {"none"}, {}, {}, FALSE, {}, 1),
    Machine("other", {"none"}, {}, {}, FALSE, {}, 1),
    Machine("none", Kinds, {}, {"sd"}, FALSE, {"sd"}, 1),
    Machine("none", {"none"}, {0, 1}, {}, FALSE, {"ata"}, 0),
    Machine("none", {"none"}, {0, 1}, {"ide0", "ide1"}, FALSE, {}, 1),
    Machine("none", {"none", "SDHC"}, {1}, {"sd", "ide1"}, TRUE, {}, 1) }

Segment(a, f, m) == [p_vaddr |-> a, p_filesz |-> f, p_memsz |-> m]
(* Segments at, below, across and above every reserved area, and up to and *)
(* beyond the end of the address space; the last two are longer in the     *)
(* file than in memory.                                                    *)
MCSegments ==
  { Segment(1, 0, 1), Segment(2, 0, 0), Segment(2, 1, 4), Segment(2, 2, 3), Segment(3, 2, 4),
    Segment(6, 0, 1), Segment(6, 1, 2), Segment(8, 1, 1), Segment(9, 2, 2), Segment(10, 0, 3),
    Segment(3, 4, 2), Segment(10, 1, 0) }
=============================================================================
