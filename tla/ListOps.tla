------------------------------- MODULE ListOps -------------------------------
(***************************************************************************)
(* The kernel's doubly linked lists (kernel/list.asm), as memory.          *)
(*                                                                         *)
(* A heap is a record of two functions, next and prev, from cells to       *)
(* cells.  A cell is a node, or one of the two overlapping dummy nodes     *)
(* that a List header is made of: its head (fields head, tail) and its     *)
(* tail (fields tail, tprev).  Routines are functions from heap to heap.   *)
(***************************************************************************)
EXTENDS Naturals, Sequences

CONSTANT Null    \* the NULL pointer

HeadOf(l) == <<"head", l>>
TailOf(l) == <<"tail", l>>
Cells(Nodes, Lists) ==
  Nodes \cup {HeadOf(l) : l \in Lists} \cup {TailOf(l) : l \in Lists}

(* list_init of every list.  head.prev and tail.next are one word, which   *)
(* stays zero.                                                             *)
list_init(Nodes, Lists) ==
  [next |-> [c \in Cells(Nodes, Lists) |->
               IF \E l \in Lists : c = HeadOf(l)
               THEN TailOf(CHOOSE l \in Lists : c = HeadOf(l)) ELSE Null],
   prev |-> [c \in Cells(Nodes, Lists) |->
               IF \E l \in Lists : c = TailOf(l)
               THEN HeadOf(CHOOSE l \in Lists : c = TailOf(l)) ELSE Null]]

(* A store through a pointer that the code tests for NULL first. *)
Store(f, c, v) == IF c = Null THEN f ELSE [f EXCEPT ![c] = v]

(* (Mutant: the successor keeps its old back link.) *)
list_node_insert_after_NoBackLink(h, t, x) ==
  [next |-> [h.next EXCEPT ![t] = x, ![x] = h.next[t]],
   prev |-> [h.prev EXCEPT ![x] = t]]
list_node_insert_after(h, t, x) ==
  LET n == h.next[t]
  IN  [next |-> [h.next EXCEPT ![t] = x, ![x] = n],
       prev |-> Store([h.prev EXCEPT ![x] = t], n, x)]

(* The links of the deleted node itself are left as they are. *)
list_node_delete(h, x) ==
  [next |-> Store(h.next, h.prev[x], h.next[x]),
   prev |-> Store(h.prev, h.next[x], h.prev[x])]

list_add_head(h, l, x) == list_node_insert_after(h, HeadOf(l), x)
list_add_tail(h, l, x) == list_node_insert_after(h, h.prev[TailOf(l)], x)

(* What list_delete_head and list_delete_tail return: NULL if the first    *)
(* (last) cell is the dummy node at the other end.  (Mutants: no test.)    *)
list_first_NoTest(h, l) == h.next[HeadOf(l)]
list_first(h, l) ==
  LET x == h.next[HeadOf(l)] IN IF h.next[x] = Null THEN Null ELSE x
list_last_NoTest(h, l) == h.prev[TailOf(l)]
list_last(h, l) ==
  LET x == h.prev[TailOf(l)] IN IF h.prev[x] = Null THEN Null ELSE x

(* What a list holds: the heap links exactly the cells of s, in order,     *)
(* between the two dummy nodes of l, forwards and backwards.               *)
Cell(l, s, i) == IF i = 0 THEN HeadOf(l)
                 ELSE IF i <= Len(s) THEN s[i] ELSE TailOf(l)
Holds(h, l, s) ==
  /\ \A i \in 0..Len(s) : /\ h.next[Cell(l, s, i)] = Cell(l, s, i + 1)
                         /\ h.prev[Cell(l, s, i + 1)] = Cell(l, s, i)
  /\ h.next[TailOf(l)] = Null /\ h.prev[HeadOf(l)] = Null
=============================================================================
