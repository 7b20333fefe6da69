-------------------------------- MODULE PmmAbs --------------------------------
(***************************************************************************)
(* What kernel/pmm.h promises of the physical memory manager: a pool of    *)
(* free bytes.  An allocation takes a contiguous run of whole units out of *)
(* the pool and says where it is; it returns NULL (0) only when the pool   *)
(* has no such run.                                                        *)
(***************************************************************************)
EXTENDS Integers

CONSTANTS Unit, MaxUint, Regions, Requests

VARIABLES free, held, null

avars == <<free, held, null>>

(* The bytes a caller owns after asking for n of them. *)
Units(n) == IF n % Unit = 0 THEN n ELSE (n \div Unit + 1) * Unit
Run(a, n) == a .. (a + Units(n) - 1)
Addresses == UNION {r.addr .. (r.addr + r.size - 1) : r \in Regions}

Init == free = {} /\ held = Regions /\ null = FALSE

Free(b) ==
  /\ b \in held
  /\ held' = held \ {b}
  /\ free' = free \cup Run(b.addr, b.size)
  /\ UNCHANGED null

Alloc(n, a) ==
  /\ a % Unit = 0 /\ Run(a, n) \subseteq free
  /\ free' = free \ Run(a, n)
  /\ held' = held \cup {[addr |-> a, size |-> n]}
  /\ null' = FALSE

AllocFails(n) ==
  /\ \A a \in Addresses : a % Unit = 0 => ~(Run(a, n) \subseteq free)
  /\ null' = TRUE
  /\ UNCHANGED <<free, held>>

Next ==
  \/ \E b \in held : Free(b)
  \/ \E n \in Requests : AllocFails(n) \/ \E a \in Addresses : Alloc(n, a)

Spec == Init /\ [][Next]_avars
=============================================================================
