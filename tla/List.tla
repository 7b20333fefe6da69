--------------------------------- MODULE List ---------------------------------
(***************************************************************************)
(* Every sequence of calls on a set of kernel lists (kernel/list.asm), and *)
(* the sequences the lists stand for.  The scheduler, the memory managers  *)
(* and the IRQ chains of this project use the sequences; this module shows *)
(* that the links implement them.                                          *)
(***************************************************************************)
EXTENDS Naturals, Sequences, SequencesExt, ListOps

CONSTANTS Nodes, Lists

ASSUME ListAssumption ==
  /\ Null \notin Cells(Nodes, Lists)
  /\ \A l \in Lists : HeadOf(l) \notin Nodes /\ TailOf(l) \notin Nodes

VARIABLES
  heap,   \* the links
  seqs,   \* what the callers think each list holds
  ret,    \* what the last list_delete_head or list_delete_tail returned
  want    \* what it should have returned

vars == <<heap, seqs, ret, want>>

Linked == UNION {ToSet(seqs[l]) : l \in Lists}

Init ==
  /\ heap = list_init(Nodes, Lists)
  /\ seqs = [l \in Lists |-> <<>>]
  /\ ret = Null
  /\ want = Null

add_head(l, x) ==
  /\ x \notin Linked
  /\ heap' = list_add_head(heap, l, x)
  /\ seqs' = [seqs EXCEPT ![l] = <<x>> \o @]
  /\ UNCHANGED <<ret, want>>

add_tail(l, x) ==
  /\ x \notin Linked
  /\ heap' = list_add_tail(heap, l, x)
  /\ seqs' = [seqs EXCEPT ![l] = Append(@, x)]
  /\ UNCHANGED <<ret, want>>

(* list_node_insert_after of a node of the list. *)
insert_after(l, i, x) ==
  /\ x \notin Linked
  /\ heap' = list_node_insert_after(heap, seqs[l][i], x)
  /\ seqs' = [seqs EXCEPT ![l] = InsertAt(@, i + 1, x)]
  /\ UNCHANGED <<ret, want>>

delete_node(l, i) ==
  /\ heap' = list_node_delete(heap, seqs[l][i])
  /\ seqs' = [seqs EXCEPT ![l] = RemoveAt(@, i)]
  /\ UNCHANGED <<ret, want>>

delete_head(l) ==
  /\ ret' = list_first(heap, l)
  /\ heap' = IF ret' = Null THEN heap ELSE list_node_delete(heap, ret')
  /\ want' = IF seqs[l] = <<>> THEN Null ELSE Head(seqs[l])
  /\ seqs' = [seqs EXCEPT ![l] = IF @ = <<>> THEN @ ELSE Tail(@)]

delete_tail(l) ==
  /\ ret' = list_last(heap, l)
  /\ heap' = IF ret' = Null THEN heap ELSE list_node_delete(heap, ret')
  /\ want' = IF seqs[l] = <<>> THEN Null ELSE Last(seqs[l])
  /\ seqs' = [seqs EXCEPT ![l] = IF @ = <<>> THEN @ ELSE Front(@)]

Next ==
  \E l \in Lists :
    \/ \E x \in Nodes :
         \/ add_head(l, x)
         \/ add_tail(l, x)
         \/ \E i \in DOMAIN seqs[l] : insert_after(l, i, x)
    \/ \E i \in DOMAIN seqs[l] : delete_node(l, i)
    \/ delete_head(l)
    \/ delete_tail(l)

Spec == Init /\ [][Next]_vars

-----------------------------------------------------------------------------
TypeOK ==
  /\ heap \in [next : [Cells(Nodes, Lists) -> Cells(Nodes, Lists) \cup {Null}],
               prev : [Cells(Nodes, Lists) -> Cells(Nodes, Lists) \cup {Null}]]
  /\ seqs \in [Lists -> Seq(Nodes)]
  /\ {ret, want} \subseteq Nodes \cup {Null}

(* The links of every list are exactly its sequence, in both directions    *)
(* and whatever was done to the other lists: insertions and deletions at   *)
(* both ends and in the middle, with one test for NULL and no test for an  *)
(* empty list (list.asm, list_node_insert_after and list_node_delete).     *)
Faithful == \A l \in Lists : Holds(heap, l, seqs[l])

(* list_delete_head and list_delete_tail return the end they removed, or   *)
(* NULL exactly when the list was empty (list.h).                          *)
Returned == ret = want
=============================================================================
