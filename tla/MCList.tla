-------------------------------- MODULE MCList --------------------------------
(* Two lists that pass three nodes between them. *)
EXTENDS List
=============================================================================
