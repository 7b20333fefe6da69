-------------------------------- MODULE MCSlab --------------------------------
(* Three pages of seven blocks and a metadata block. *)
EXTENDS Slab, TLC

MCSymmetry == Permutations(Pages)
=============================================================================
