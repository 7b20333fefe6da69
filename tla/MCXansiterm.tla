----------------------------- MODULE MCXansiterm -----------------------------
(* Two text modes whose width is not and is a multiple of the tab stop. *)
EXTENDS Xansiterm

MCGeoms == {[cols |-> 3, rows |-> 2, scaled |-> FALSE],
            [cols |-> 2, rows |-> 2, scaled |-> TRUE]}

(* A mode that tabs fit and that is as wide as it is high. *)
MCSquare == {[cols |-> 2, rows |-> 2, scaled |-> FALSE]}
=============================================================================
