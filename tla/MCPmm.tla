-------------------------------- MODULE MCPmm --------------------------------
(* Two areas of RAM with a hole between them and, in the first, two blocks *)
(* that are handed over separately and are neighbours.                     *)
EXTENDS Pmm

MCRegions == {[addr |-> 4, size |-> 6], [addr |-> 10, size |-> 2],
              [addr |-> 14, size |-> 4]}
=============================================================================
