------------------------------ MODULE ListProofs ------------------------------
(***************************************************************************)
(* The links of list.asm implement sequences, for every number of lists    *)
(* and nodes: Spec => []Faithful and Spec => []Returned.                   *)
(*                                                                         *)
(* Every insertion is one at a position k and every deletion is one of     *)
(* position k, so there is one lemma about the links for each; both need   *)
(* that no cell occurs twice, which is the third conjunct of the           *)
(* inductive invariant.                                                    *)
(***************************************************************************)
EXTENDS List, TLAPS

CellSet == Cells(Nodes, Lists)
Pointers == CellSet \cup {Null}
Heaps == [next : [CellSet -> Pointers], prev : [CellSet -> Pointers]]

(* r is s with x inserted after position k; r is s without position k. *)
Inserted(s, k, x, r) ==
  /\ r \in Seq(Nodes) /\ Len(r) = Len(s) + 1
  /\ \A j \in 1..k : r[j] = s[j]
  /\ r[k + 1] = x
  /\ \A j \in (k + 1)..Len(s) : r[j + 1] = s[j]
Removed(s, k, r) ==
  /\ r \in Seq(Nodes) /\ Len(r) = Len(s) - 1
  /\ \A j \in 1..(k - 1) : r[j] = s[j]
  /\ \A j \in k..Len(r) : r[j] = s[j + 1]

OneOf(s) == \A i, j \in 1..Len(s) : s[i] = s[j] => i = j
Absent(x, s) == \A i \in 1..Len(s) : s[i] # x
Apart(s, t) == \A i \in 1..Len(s), j \in 1..Len(t) : s[i] # t[j]

-----------------------------------------------------------------------------
(* Cells. *)

LEMMA Dummies ==
  ASSUME NEW l \in Lists, NEW m \in Lists
  PROVE  /\ HeadOf(l) \in CellSet /\ TailOf(l) \in CellSet
         /\ HeadOf(l) # TailOf(m)
         /\ l # m => HeadOf(l) # HeadOf(m) /\ TailOf(l) # TailOf(m)
         /\ HeadOf(l) \notin Nodes /\ TailOf(l) \notin Nodes
         /\ Null \notin CellSet /\ Nodes \subseteq CellSet
  <1>1. HeadOf(l) \in CellSet /\ TailOf(l) \in CellSet /\ Nodes \subseteq CellSet
    BY DEF CellSet, Cells
  <1>2. HeadOf(l) # TailOf(m)
    BY DEF HeadOf, TailOf
  <1>3. l # m => HeadOf(l) # HeadOf(m) /\ TailOf(l) # TailOf(m)
    BY DEF HeadOf, TailOf
  <1> QED BY <1>1, <1>2, <1>3, ListAssumption DEF CellSet

LEMMA CellKinds ==
  ASSUME NEW l \in Lists, NEW s \in Seq(Nodes)
  PROVE  /\ Cell(l, s, 0) = HeadOf(l) /\ Cell(l, s, Len(s) + 1) = TailOf(l)
         /\ \A i \in 1..Len(s) : Cell(l, s, i) = s[i] /\ s[i] \in Nodes
         /\ \A i \in 0..(Len(s) + 1) : Cell(l, s, i) \in CellSet /\ Cell(l, s, i) # Null
  <1>1. Cell(l, s, 0) = HeadOf(l) /\ Cell(l, s, Len(s) + 1) = TailOf(l)
    BY DEF Cell
  <1>2. \A i \in 1..Len(s) : Cell(l, s, i) = s[i] /\ s[i] \in Nodes
    BY DEF Cell
  <1>3. ASSUME NEW i \in 0..(Len(s) + 1)
        PROVE  Cell(l, s, i) \in CellSet /\ Cell(l, s, i) # Null
    <2>1. i = 0 \/ i = Len(s) + 1 \/ i \in 1..Len(s)
      OBVIOUS
    <2>2. Cell(l, s, i) \in CellSet
      BY <1>1, <1>2, <2>1, Dummies
    <2> QED BY <2>2, Dummies
  <1> QED BY <1>1, <1>2, <1>3

LEMMA CellsOnce ==
  ASSUME NEW l \in Lists, NEW s \in Seq(Nodes), OneOf(s),
         NEW i \in 0..(Len(s) + 1), NEW j \in 0..(Len(s) + 1),
         Cell(l, s, i) = Cell(l, s, j)
  PROVE  i = j
  <1>0. Len(s) \in Nat
    OBVIOUS
  <1>1. i = 0 \/ i = Len(s) + 1 \/ i \in 1..Len(s)
    OBVIOUS
  <1>2. j = 0 \/ j = Len(s) + 1 \/ j \in 1..Len(s)
    OBVIOUS
  <1>3. CASE i \in 1..Len(s)
    <2>1. Cell(l, s, i) \in Nodes
      BY <1>3, CellKinds
    <2>2. j \in 1..Len(s)
      BY <1>2, <2>1, CellKinds, Dummies
    <2>3. s[i] = s[j]
      BY <1>3, <2>2, CellKinds
    <2> QED BY <1>3, <2>2, <2>3 DEF OneOf
  <1>4. CASE i \notin 1..Len(s)
    <2>1. Cell(l, s, i) \notin Nodes
      BY <1>1, <1>4, CellKinds, Dummies
    <2>2. j \notin 1..Len(s)
      BY <2>1, CellKinds
    <2> QED BY <1>1, <1>2, <1>4, <2>2, CellKinds, Dummies
  <1> QED BY <1>3, <1>4

LEMMA CellsApart ==
  ASSUME NEW l \in Lists, NEW m \in Lists, l # m,
         NEW s \in Seq(Nodes), NEW t \in Seq(Nodes), Apart(s, t),
         NEW i \in 0..(Len(s) + 1), NEW j \in 0..(Len(t) + 1)
  PROVE  Cell(l, s, i) # Cell(m, t, j)
  <1>1. i = 0 \/ i = Len(s) + 1 \/ i \in 1..Len(s)
    OBVIOUS
  <1>2. j = 0 \/ j = Len(t) + 1 \/ j \in 1..Len(t)
    OBVIOUS
  <1>3. CASE i \in 1..Len(s) /\ j \in 1..Len(t)
    BY <1>3, CellKinds DEF Apart
  <1>4. CASE i \in 1..Len(s) /\ j \notin 1..Len(t)
    <2>1. Cell(l, s, i) \in Nodes /\ Cell(m, t, j) \notin Nodes
      BY <1>2, <1>4, CellKinds, Dummies
    <2> QED BY <2>1
  <1>5. CASE i \notin 1..Len(s) /\ j \in 1..Len(t)
    <2>1. Cell(m, t, j) \in Nodes /\ Cell(l, s, i) \notin Nodes
      BY <1>1, <1>5, CellKinds, Dummies
    <2> QED BY <2>1
  <1>6. CASE i \notin 1..Len(s) /\ j \notin 1..Len(t)
    <2>1. Cell(l, s, i) \in {HeadOf(l), TailOf(l)}
      BY <1>1, <1>6, CellKinds
    <2>2. Cell(m, t, j) \in {HeadOf(m), TailOf(m)}
      BY <1>2, <1>6, CellKinds
    <2> QED BY <2>1, <2>2, Dummies
  <1> QED BY <1>3, <1>4, <1>5, <1>6

-----------------------------------------------------------------------------
(* The links, after an insertion and after a deletion. *)

(* What list_node_insert_after stores, cell by cell. *)
LEMMA InsertStores ==
  ASSUME NEW h \in Heaps, NEW t \in CellSet, NEW x \in CellSet, t # x,
         h.next[t] \in CellSet, h.next[t] # x
  PROVE  LET g == list_node_insert_after(h, t, x)
             n == h.next[t]
         IN  /\ g \in Heaps
             /\ g.next[t] = x /\ g.next[x] = n
             /\ \A c \in CellSet \ {t, x} : g.next[c] = h.next[c]
             /\ g.prev[x] = t /\ g.prev[n] = x
             /\ \A c \in CellSet \ {n, x} : g.prev[c] = h.prev[c]
  <1> DEFINE n == h.next[t]
             nx == [h.next EXCEPT ![t] = x, ![x] = n]
             pv == [[h.prev EXCEPT ![x] = t] EXCEPT ![n] = x]
  <1>0. h.next \in [CellSet -> Pointers] /\ h.prev \in [CellSet -> Pointers]
    BY DEF Heaps
  <1>1. n # Null
    BY ListAssumption DEF CellSet
  <1>2. list_node_insert_after(h, t, x) = [next |-> nx, prev |-> pv]
    BY <1>1 DEF list_node_insert_after, Store
  <1>3. /\ nx \in [CellSet -> Pointers] /\ nx[t] = x /\ nx[x] = n
        /\ \A c \in CellSet \ {t, x} : nx[c] = h.next[c]
    BY <1>0 DEF Pointers
  <1>4. /\ pv \in [CellSet -> Pointers] /\ pv[x] = t /\ pv[n] = x
        /\ \A c \in CellSet \ {n, x} : pv[c] = h.prev[c]
    BY <1>0 DEF Pointers
  <1> HIDE DEF nx, pv
  <1> QED BY <1>2, <1>3, <1>4 DEF Heaps

(* What list_node_delete stores. *)
LEMMA DeleteStores ==
  ASSUME NEW h \in Heaps, NEW x \in CellSet,
         h.next[x] \in CellSet, h.prev[x] \in CellSet
  PROVE  LET g == list_node_delete(h, x)
             n == h.next[x]
             p == h.prev[x]
         IN  /\ g \in Heaps
             /\ g.next[p] = n /\ \A c \in CellSet \ {p} : g.next[c] = h.next[c]
             /\ g.prev[n] = p /\ \A c \in CellSet \ {n} : g.prev[c] = h.prev[c]
  <1> DEFINE n == h.next[x]
             p == h.prev[x]
             nx == [h.next EXCEPT ![p] = n]
             pv == [h.prev EXCEPT ![n] = p]
  <1>0. h.next \in [CellSet -> Pointers] /\ h.prev \in [CellSet -> Pointers]
    BY DEF Heaps
  <1>1. n # Null /\ p # Null
    BY ListAssumption DEF CellSet
  <1>2. list_node_delete(h, x) = [next |-> nx, prev |-> pv]
    BY <1>1 DEF list_node_delete, Store
  <1>3. /\ nx \in [CellSet -> Pointers] /\ nx[p] = n
        /\ \A c \in CellSet \ {p} : nx[c] = h.next[c]
    BY <1>0 DEF Pointers
  <1>4. /\ pv \in [CellSet -> Pointers] /\ pv[n] = p
        /\ \A c \in CellSet \ {n} : pv[c] = h.prev[c]
    BY <1>0 DEF Pointers
  <1> HIDE DEF nx, pv
  <1> QED BY <1>2, <1>3, <1>4 DEF Heaps

(* Insertion after position k links exactly the longer sequence. *)
LEMMA InsertHolds ==
  ASSUME NEW h \in Heaps, NEW l \in Lists, NEW s \in Seq(Nodes), OneOf(s),
         Holds(h, l, s), NEW k \in 0..Len(s), NEW x \in Nodes, Absent(x, s),
         NEW r, Inserted(s, k, x, r)
  PROVE  /\ list_node_insert_after(h, Cell(l, s, k), x) \in Heaps
         /\ Holds(list_node_insert_after(h, Cell(l, s, k), x), l, r)
  <1> DEFINE c(i) == Cell(l, s, i)
             d(i) == Cell(l, r, i)
             g == list_node_insert_after(h, c(k), x)
  <1>0. Len(s) \in Nat /\ Len(r) = Len(s) + 1 /\ r \in Seq(Nodes)
    BY DEF Inserted
  <1>1. \A i \in 0..(Len(s) + 1) : c(i) \in CellSet /\ c(i) # x
    <2> SUFFICES ASSUME NEW i \in 0..(Len(s) + 1) PROVE c(i) # x
      BY CellKinds
    <2>1. i = 0 \/ i = Len(s) + 1 \/ i \in 1..Len(s)
      OBVIOUS
    <2> QED BY <2>1, CellKinds, Dummies DEF Absent
  <1>2. \A i, j \in 0..(Len(s) + 1) : c(i) = c(j) => i = j
    BY CellsOnce
  <1>3. x \in CellSet
    BY Dummies
  <1>4. /\ \A i \in 0..k : d(i) = c(i)
        /\ d(k + 1) = x
        /\ \A i \in (k + 1)..(Len(s) + 1) : d(i + 1) = c(i)
    BY <1>0 DEF Inserted, Cell
  <1>5. /\ \A i \in 0..Len(s) : h.next[c(i)] = c(i + 1) /\ h.prev[c(i + 1)] = c(i)
        /\ h.next[TailOf(l)] = Null /\ h.prev[HeadOf(l)] = Null
    BY DEF Holds
  <1>6. k + 1 \in 0..(Len(s) + 1) /\ k \in 0..(Len(s) + 1) /\ h.next[c(k)] = c(k + 1)
    BY <1>0, <1>5
  <1>7. /\ g \in Heaps
        /\ g.next[c(k)] = x /\ g.next[x] = c(k + 1)
        /\ \A y \in CellSet \ {c(k), x} : g.next[y] = h.next[y]
        /\ g.prev[x] = c(k) /\ g.prev[c(k + 1)] = x
        /\ \A y \in CellSet \ {c(k + 1), x} : g.prev[y] = h.prev[y]
    BY <1>1, <1>3, <1>6, InsertStores
  <1>8. c(0) = HeadOf(l) /\ c(Len(s) + 1) = TailOf(l)
    BY CellKinds
  <1> HIDE DEF c, d, g
  <1>9. g.next[TailOf(l)] = Null /\ g.prev[HeadOf(l)] = Null
    <2>1. TailOf(l) \in CellSet \ {c(k), x}
      <3>1. Len(s) + 1 \in 0..(Len(s) + 1) /\ Len(s) + 1 # k
        BY <1>0
      <3> QED BY <1>1, <1>2, <1>6, <1>8, <3>1
    <2>2. HeadOf(l) \in CellSet \ {c(k + 1), x}
      <3>1. 0 \in 0..(Len(s) + 1) /\ 0 # k + 1
        BY <1>0
      <3> QED BY <1>1, <1>2, <1>6, <1>8, <3>1
    <2> QED BY <1>5, <1>7, <2>1, <2>2
  <1>10. ASSUME NEW i \in 0..Len(r)
         PROVE  g.next[d(i)] = d(i + 1) /\ g.prev[d(i + 1)] = d(i)
    <2>1. CASE i < k
      <3>1. /\ i \in 0..k /\ i + 1 \in 0..k /\ i \in 0..Len(s)
            /\ i \in 0..(Len(s) + 1) /\ i + 1 \in 0..(Len(s) + 1) /\ i # k /\ i + 1 # k + 1
        BY <1>0, <2>1
      <3>2. d(i) = c(i) /\ d(i + 1) = c(i + 1)
        BY <1>4, <3>1
      <3>3. c(i) # c(k) /\ c(i + 1) # c(k + 1)
        BY <1>2, <1>6, <3>1
      <3> QED BY <1>1, <1>5, <1>7, <3>1, <3>2, <3>3
    <2>2. CASE i = k
      <3>1. d(i) = c(k) /\ d(i + 1) = x
        BY <1>0, <1>4, <2>2
      <3> QED BY <1>7, <3>1
    <2>3. CASE i = k + 1
      <3>1. d(i) = x /\ d(i + 1) = c(k + 1)
        BY <1>0, <1>4, <2>3
      <3> QED BY <1>7, <3>1
    <2>4. CASE i > k + 1
      <3> DEFINE j == i - 1
      <3>1. /\ j \in (k + 1)..(Len(s) + 1) /\ j + 1 \in (k + 1)..(Len(s) + 1)
            /\ j \in 0..Len(s) /\ j \in 0..(Len(s) + 1) /\ j + 1 \in 0..(Len(s) + 1)
            /\ j # k /\ j + 1 # k + 1 /\ i = j + 1
        BY <1>0, <2>4
      <3> HIDE DEF j
      <3>2. d(i) = c(j) /\ d(i + 1) = c(j + 1)
        BY <1>4, <3>1
      <3>3. c(j) # c(k) /\ c(j + 1) # c(k + 1)
        BY <1>2, <1>6, <3>1
      <3> QED BY <1>1, <1>5, <1>7, <3>1, <3>2, <3>3
    <2> QED BY <1>0, <2>1, <2>2, <2>3, <2>4
  <1>11. Holds(g, l, r)
    BY <1>9, <1>10 DEF Holds, d
  <1> QED BY <1>7, <1>11 DEF g, c

(* Deletion of position k links exactly the shorter sequence. *)
LEMMA DeleteHolds ==
  ASSUME NEW h \in Heaps, NEW l \in Lists, NEW s \in Seq(Nodes), OneOf(s),
         Holds(h, l, s), NEW k \in 1..Len(s), NEW r, Removed(s, k, r)
  PROVE  /\ list_node_delete(h, s[k]) \in Heaps
         /\ Holds(list_node_delete(h, s[k]), l, r)
  <1> DEFINE c(i) == Cell(l, s, i)
             d(i) == Cell(l, r, i)
             g == list_node_delete(h, s[k])
  <1>0. Len(s) \in Nat /\ Len(r) = Len(s) - 1 /\ r \in Seq(Nodes)
    BY DEF Removed
  <1>1. \A i \in 0..(Len(s) + 1) : c(i) \in CellSet
    BY CellKinds
  <1>2. \A i, j \in 0..(Len(s) + 1) : c(i) = c(j) => i = j
    BY CellsOnce
  <1>3. c(k) = s[k]
    BY CellKinds
  <1>4. /\ \A i \in 0..(k - 1) : d(i) = c(i)
        /\ \A i \in k..Len(s) : d(i) = c(i + 1)
    BY <1>0 DEF Removed, Cell
  <1>5. /\ \A i \in 0..Len(s) : h.next[c(i)] = c(i + 1) /\ h.prev[c(i + 1)] = c(i)
        /\ h.next[TailOf(l)] = Null /\ h.prev[HeadOf(l)] = Null
    BY DEF Holds
  <1> HIDE DEF c
  <1>6. /\ k \in 0..Len(s) /\ k - 1 \in 0..Len(s) /\ (k - 1) + 1 = k
        /\ k \in 0..(Len(s) + 1) /\ k - 1 \in 0..(Len(s) + 1) /\ k + 1 \in 0..(Len(s) + 1)
    BY <1>0
  <1>7. h.next[s[k]] = c(k + 1) /\ h.prev[s[k]] = c(k - 1)
    BY <1>3, <1>5, <1>6
  <1>8. /\ g \in Heaps
        /\ g.next[c(k - 1)] = c(k + 1)
        /\ \A y \in CellSet \ {c(k - 1)} : g.next[y] = h.next[y]
        /\ g.prev[c(k + 1)] = c(k - 1)
        /\ \A y \in CellSet \ {c(k + 1)} : g.prev[y] = h.prev[y]
    BY <1>1, <1>3, <1>6, <1>7, DeleteStores
  <1>9. c(0) = HeadOf(l) /\ c(Len(s) + 1) = TailOf(l)
    BY CellKinds DEF c
  <1> HIDE DEF d, g
  <1>10. g.next[TailOf(l)] = Null /\ g.prev[HeadOf(l)] = Null
    <2>1. TailOf(l) \in CellSet \ {c(k - 1)}
      <3>1. Len(s) + 1 \in 0..(Len(s) + 1) /\ Len(s) + 1 # k - 1
        BY <1>0
      <3> QED BY <1>1, <1>2, <1>6, <1>9, <3>1
    <2>2. HeadOf(l) \in CellSet \ {c(k + 1)}
      <3>1. 0 \in 0..(Len(s) + 1) /\ 0 # k + 1
        BY <1>0
      <3> QED BY <1>1, <1>2, <1>6, <1>9, <3>1
    <2> QED BY <1>5, <1>8, <2>1, <2>2
  <1>11. ASSUME NEW i \in 0..Len(r)
         PROVE  g.next[d(i)] = d(i + 1) /\ g.prev[d(i + 1)] = d(i)
    <2>1. CASE i < k - 1
      <3>1. /\ i \in 0..(k - 1) /\ i + 1 \in 0..(k - 1) /\ i \in 0..Len(s)
            /\ i \in 0..(Len(s) + 1) /\ i + 1 \in 0..(Len(s) + 1)
            /\ i # k - 1 /\ i + 1 # k + 1
        BY <1>0, <2>1
      <3>2. d(i) = c(i) /\ d(i + 1) = c(i + 1)
        BY <1>4, <3>1
      <3>3. c(i) # c(k - 1) /\ c(i + 1) # c(k + 1)
        BY <1>2, <1>6, <3>1
      <3> QED BY <1>1, <1>5, <1>8, <3>1, <3>2, <3>3
    <2>2. CASE i = k - 1
      <3>1. i \in 0..(k - 1) /\ i + 1 = k /\ k \in k..Len(s)
        BY <1>0, <2>2
      <3>2. d(i) = c(k - 1) /\ d(i + 1) = c(k + 1)
        BY <1>4, <2>2, <3>1
      <3> QED BY <1>8, <3>2
    <2>3. CASE i >= k
      <3>1. /\ i \in k..Len(s) /\ i + 1 \in k..Len(s) /\ i + 1 \in 0..Len(s)
            /\ i + 1 \in 0..(Len(s) + 1) /\ (i + 1) + 1 \in 0..(Len(s) + 1)
            /\ i + 1 # k - 1 /\ (i + 1) + 1 # k + 1
        BY <1>0, <2>3
      <3>2. d(i) = c(i + 1) /\ d(i + 1) = c((i + 1) + 1)
        BY <1>4, <3>1
      <3>3. c(i + 1) # c(k - 1) /\ c((i + 1) + 1) # c(k + 1)
        BY <1>2, <1>6, <3>1
      <3> QED BY <1>1, <1>5, <1>8, <3>1, <3>2, <3>3
    <2> QED BY <1>0, <2>1, <2>2, <2>3
  <1>12. Holds(g, l, r)
    BY <1>10, <1>11 DEF Holds, d
  <1> QED BY <1>8, <1>12 DEF g

(* A list none of whose cells is stored to keeps its sequence. *)
LEMMA Untouched ==
  ASSUME NEW h \in Heaps, NEW g \in Heaps, NEW m \in Lists, NEW t \in Seq(Nodes),
         Holds(h, m, t),
         \A j \in 0..(Len(t) + 1) : /\ g.next[Cell(m, t, j)] = h.next[Cell(m, t, j)]
                                    /\ g.prev[Cell(m, t, j)] = h.prev[Cell(m, t, j)]
  PROVE  Holds(g, m, t)
  <1>0. Len(t) \in Nat
    OBVIOUS
  <1>1. Cell(m, t, 0) = HeadOf(m) /\ Cell(m, t, Len(t) + 1) = TailOf(m)
    BY CellKinds
  <1>2. g.next[TailOf(m)] = Null /\ g.prev[HeadOf(m)] = Null
    <2>1. 0 \in 0..(Len(t) + 1) /\ Len(t) + 1 \in 0..(Len(t) + 1)
      BY <1>0
    <2> QED BY <1>1, <2>1 DEF Holds
  <1>3. ASSUME NEW i \in 0..Len(t)
        PROVE  /\ g.next[Cell(m, t, i)] = Cell(m, t, i + 1)
               /\ g.prev[Cell(m, t, i + 1)] = Cell(m, t, i)
    <2>1. i \in 0..(Len(t) + 1) /\ i + 1 \in 0..(Len(t) + 1)
      BY <1>0
    <2> QED BY <2>1 DEF Holds
  <1> QED BY <1>2, <1>3 DEF Holds

LEMMA InsertElsewhere ==
  ASSUME NEW h \in Heaps, NEW l \in Lists, NEW s \in Seq(Nodes), OneOf(s),
         Holds(h, l, s), NEW k \in 0..Len(s), NEW x \in Nodes, Absent(x, s),
         NEW m \in Lists, m # l, NEW t \in Seq(Nodes), Apart(s, t), Absent(x, t),
         Holds(h, m, t)
  PROVE  Holds(list_node_insert_after(h, Cell(l, s, k), x), m, t)
  <1> DEFINE g == list_node_insert_after(h, Cell(l, s, k), x)
  <1>0. Len(s) \in Nat /\ Len(t) \in Nat
    OBVIOUS
  <1>1. k + 1 \in 0..(Len(s) + 1) /\ k \in 0..(Len(s) + 1)
    BY <1>0
  <1>2. h.next[Cell(l, s, k)] = Cell(l, s, k + 1)
    BY DEF Holds
  <1>3. /\ Cell(l, s, k) \in CellSet /\ Cell(l, s, k + 1) \in CellSet /\ x \in CellSet
        /\ Cell(l, s, k) # x /\ Cell(l, s, k + 1) # x
    <2>1. k = 0 \/ k \in 1..Len(s)
      OBVIOUS
    <2>2. k + 1 = Len(s) + 1 \/ k + 1 \in 1..Len(s)
      BY <1>0
    <2> QED BY <1>1, <2>1, <2>2, CellKinds, Dummies DEF Absent
  <1>4. /\ g \in Heaps
        /\ \A y \in CellSet \ {Cell(l, s, k), x} : g.next[y] = h.next[y]
        /\ \A y \in CellSet \ {Cell(l, s, k + 1), x} : g.prev[y] = h.prev[y]
    BY <1>2, <1>3, InsertStores
  <1> HIDE DEF g
  <1>5. ASSUME NEW j \in 0..(Len(t) + 1)
        PROVE  /\ g.next[Cell(m, t, j)] = h.next[Cell(m, t, j)]
               /\ g.prev[Cell(m, t, j)] = h.prev[Cell(m, t, j)]
    <2>1. Cell(l, s, k) # Cell(m, t, j) /\ Cell(l, s, k + 1) # Cell(m, t, j)
      BY <1>1, CellsApart
    <2>2. Cell(m, t, j) \in CellSet /\ Cell(m, t, j) # x
      <3>1. j = 0 \/ j = Len(t) + 1 \/ j \in 1..Len(t)
        BY <1>0
      <3> QED BY <3>1, CellKinds, Dummies DEF Absent
    <2> QED BY <1>4, <2>1, <2>2
  <1>6. Holds(g, m, t)
    BY <1>4, <1>5, Untouched
  <1> QED BY <1>6 DEF g

LEMMA DeleteElsewhere ==
  ASSUME NEW h \in Heaps, NEW l \in Lists, NEW s \in Seq(Nodes),
         Holds(h, l, s), NEW k \in 1..Len(s),
         NEW m \in Lists, m # l, NEW t \in Seq(Nodes), Apart(s, t), Holds(h, m, t)
  PROVE  Holds(list_node_delete(h, s[k]), m, t)
  <1> DEFINE g == list_node_delete(h, s[k])
  <1>0. Len(s) \in Nat /\ Len(t) \in Nat
    OBVIOUS
  <1>1. /\ k + 1 \in 0..(Len(s) + 1) /\ k \in 0..(Len(s) + 1) /\ k - 1 \in 0..(Len(s) + 1)
        /\ k \in 0..Len(s) /\ k - 1 \in 0..Len(s) /\ (k - 1) + 1 = k
    BY <1>0
  <1>2. Cell(l, s, k) = s[k]
    BY CellKinds
  <1>3. h.next[s[k]] = Cell(l, s, k + 1) /\ h.prev[s[k]] = Cell(l, s, k - 1)
    BY <1>1, <1>2 DEF Holds
  <1>4. s[k] \in CellSet /\ Cell(l, s, k + 1) \in CellSet /\ Cell(l, s, k - 1) \in CellSet
    BY <1>1, <1>2, CellKinds
  <1>5. /\ g \in Heaps
        /\ \A y \in CellSet \ {Cell(l, s, k - 1)} : g.next[y] = h.next[y]
        /\ \A y \in CellSet \ {Cell(l, s, k + 1)} : g.prev[y] = h.prev[y]
    BY <1>3, <1>4, DeleteStores
  <1> HIDE DEF g
  <1>6. ASSUME NEW j \in 0..(Len(t) + 1)
        PROVE  /\ g.next[Cell(m, t, j)] = h.next[Cell(m, t, j)]
               /\ g.prev[Cell(m, t, j)] = h.prev[Cell(m, t, j)]
    <2>1. Cell(l, s, k - 1) # Cell(m, t, j) /\ Cell(l, s, k + 1) # Cell(m, t, j)
      BY <1>1, CellsApart
    <2>2. Cell(m, t, j) \in CellSet
      BY CellKinds
    <2> QED BY <1>5, <2>1, <2>2
  <1>7. Holds(g, m, t)
    BY <1>5, <1>6, Untouched
  <1> QED BY <1>7 DEF g

-----------------------------------------------------------------------------
(* The sequences after each call. *)

LEMMA Joined ==
  ASSUME NEW a \in Seq(Nodes), NEW b \in Seq(Nodes)
  PROVE  /\ a \o b \in Seq(Nodes) /\ Len(a \o b) = Len(a) + Len(b)
         /\ \A i \in 1..Len(a) : (a \o b)[i] = a[i]
         /\ \A i \in 1..Len(b) : (a \o b)[Len(a) + i] = b[i]
  OBVIOUS

LEMMA Insertions ==
  ASSUME NEW s \in Seq(Nodes), NEW x \in Nodes
  PROVE  /\ Inserted(s, 0, x, <<x>> \o s)
         /\ Inserted(s, Len(s), x, Append(s, x))
         /\ \A k \in 1..Len(s) : Inserted(s, k, x, InsertAt(s, k + 1, x))
  <1>1. Inserted(s, 0, x, <<x>> \o s)
    BY DEF Inserted
  <1>2. Inserted(s, Len(s), x, Append(s, x))
    BY DEF Inserted
  <1>3. ASSUME NEW k \in 1..Len(s)
        PROVE  Inserted(s, k, x, InsertAt(s, k + 1, x))
    <2> DEFINE a == SubSeq(s, 1, k)
               b == SubSeq(s, k + 1, Len(s))
               r == a \o <<x>> \o b
    <2>0. Len(s) \in Nat /\ (k + 1) - 1 = k
      OBVIOUS
    <2>1. a \in Seq(Nodes) /\ Len(a) = k /\ \A j \in 1..k : a[j] = s[j]
      OBVIOUS
    <2>2. /\ b \in Seq(Nodes) /\ Len(b) = Len(s) - k
          /\ \A j \in 1..(Len(s) - k) : b[j] = s[k + j]
      OBVIOUS
    <2>3. InsertAt(s, k + 1, x) = r
      BY <2>0 DEF InsertAt
    <2> HIDE DEF a, b
    <2>4. /\ r \in Seq(Nodes) /\ Len(r) = Len(s) + 1
          /\ \A j \in 1..k : r[j] = a[j]
          /\ r[k + 1] = x
          /\ \A j \in 1..(Len(s) - k) : r[(k + 1) + j] = b[j]
      <3> DEFINE ax == a \o <<x>>
      <3>1. /\ ax \in Seq(Nodes) /\ Len(ax) = k + 1 /\ ax[k + 1] = x
            /\ \A j \in 1..k : ax[j] = a[j]
        BY <2>1
      <3> HIDE DEF ax
      <3>2. r = ax \o b
        BY DEF ax
      <3> HIDE DEF r
      <3>3. /\ r \in Seq(Nodes) /\ Len(r) = (k + 1) + Len(b)
            /\ \A j \in 1..(k + 1) : r[j] = ax[j]
            /\ \A j \in 1..Len(b) : r[(k + 1) + j] = b[j]
        <4>1. /\ ax \o b \in Seq(Nodes) /\ Len(ax \o b) = Len(ax) + Len(b)
              /\ \A j \in 1..Len(ax) : (ax \o b)[j] = ax[j]
              /\ \A j \in 1..Len(b) : (ax \o b)[Len(ax) + j] = b[j]
          BY <2>2, <3>1, Joined
        <4> QED BY <3>1, <3>2, <4>1
      <3>4. \A j \in 1..k : j \in 1..(k + 1)
        OBVIOUS
      <3>5. k + 1 \in 1..(k + 1) /\ (k + 1) + (Len(s) - k) = Len(s) + 1
        BY <2>0
      <3> QED BY <2>2, <3>1, <3>3, <3>4, <3>5
    <2> HIDE DEF r
    <2>5. ASSUME NEW j \in (k + 1)..Len(s)
          PROVE  r[j + 1] = s[j]
      <3>1. j - k \in 1..(Len(s) - k) /\ (k + 1) + (j - k) = j + 1 /\ k + (j - k) = j
        BY <2>0
      <3>2. r[(k + 1) + (j - k)] = b[j - k] /\ b[j - k] = s[k + (j - k)]
        BY <2>2, <2>4, <3>1
      <3> QED BY <3>1, <3>2
    <2> QED BY <2>1, <2>3, <2>4, <2>5 DEF Inserted
  <1> QED BY <1>1, <1>2, <1>3

LEMMA Removals ==
  ASSUME NEW s \in Seq(Nodes)
  PROVE  /\ \A k \in 1..Len(s) : Removed(s, k, RemoveAt(s, k))
         /\ s # <<>> => Removed(s, 1, Tail(s)) /\ Removed(s, Len(s), Front(s))
  <1>0. Len(s) \in Nat
    OBVIOUS
  <1>1. ASSUME s # <<>>
        PROVE  Removed(s, 1, Tail(s))
    <2>1. Len(s) >= 1 /\ Tail(s) \in Seq(Nodes) /\ Len(Tail(s)) = Len(s) - 1
      BY <1>1
    <2>2. \A j \in 1..Len(Tail(s)) : Tail(s)[j] = s[j + 1]
      BY <1>1, <2>1
    <2> QED BY <2>1, <2>2 DEF Removed
  <1>2. ASSUME s # <<>>
        PROVE  Removed(s, Len(s), Front(s))
    <2>1. Len(s) >= 1
      BY <1>2
    <2>2. /\ Front(s) \in Seq(Nodes) /\ Len(Front(s)) = Len(s) - 1
          /\ \A j \in 1..(Len(s) - 1) : Front(s)[j] = s[j]
      <3> DEFINE n == Len(s) - 1
      <3>1. n \in 0..Len(s)
        BY <2>1
      <3> HIDE DEF n
      <3>2. /\ SubSeq(s, 1, n) \in Seq(Nodes) /\ Len(SubSeq(s, 1, n)) = n
            /\ \A j \in 1..n : SubSeq(s, 1, n)[j] = s[j]
        BY <3>1
      <3> QED BY <3>2 DEF Front, n
    <2> QED BY <2>1, <2>2 DEF Removed
  <1>3. ASSUME NEW k \in 1..Len(s)
        PROVE  Removed(s, k, RemoveAt(s, k))
    <2> DEFINE a == SubSeq(s, 1, k - 1)
               b == SubSeq(s, k + 1, Len(s))
               r == a \o b
    <2>1. a \in Seq(Nodes) /\ Len(a) = k - 1 /\ \A j \in 1..(k - 1) : a[j] = s[j]
      BY <1>0
    <2>2. /\ b \in Seq(Nodes) /\ Len(b) = Len(s) - k
          /\ \A j \in 1..(Len(s) - k) : b[j] = s[k + j]
      BY <1>0
    <2>3. RemoveAt(s, k) = r
      BY DEF RemoveAt
    <2> HIDE DEF a, b
    <2>4. /\ r \in Seq(Nodes) /\ Len(r) = Len(s) - 1
          /\ \A j \in 1..(k - 1) : r[j] = a[j]
          /\ \A j \in 1..(Len(s) - k) : r[(k - 1) + j] = b[j]
      <3>1. /\ r \in Seq(Nodes) /\ Len(r) = Len(a) + Len(b)
            /\ \A j \in 1..Len(a) : r[j] = a[j]
            /\ \A j \in 1..Len(b) : r[Len(a) + j] = b[j]
        BY <2>1, <2>2, Joined
      <3> HIDE DEF r
      <3>2. (k - 1) + (Len(s) - k) = Len(s) - 1
        BY <1>0
      <3> QED BY <2>1, <2>2, <3>1, <3>2
    <2> HIDE DEF r
    <2>5. ASSUME NEW j \in k..Len(r)
          PROVE  r[j] = s[j + 1]
      <3>1. /\ (j + 1) - k \in 1..(Len(s) - k) /\ (k - 1) + ((j + 1) - k) = j
            /\ k + ((j + 1) - k) = j + 1
        BY <1>0, <2>4
      <3>2. r[(k - 1) + ((j + 1) - k)] = b[(j + 1) - k] /\ b[(j + 1) - k] = s[k + ((j + 1) - k)]
        BY <2>2, <2>4, <3>1
      <3> QED BY <3>1, <3>2
    <2> QED BY <2>1, <2>3, <2>4, <2>5 DEF Removed
  <1> QED BY <1>1, <1>2, <1>3

(* Members of the longer and of the shorter sequence. *)
LEMMA InsertedMembers ==
  ASSUME NEW s \in Seq(Nodes), NEW k \in 0..Len(s), NEW x \in Nodes, NEW r,
         Inserted(s, k, x, r), Absent(x, s)
  PROVE  /\ \A j \in 1..Len(r) : r[j] = x \/ \E i \in 1..Len(s) : r[j] = s[i]
         /\ OneOf(s) => OneOf(r)
  <1> DEFINE f(j) == IF j <= k THEN j ELSE j - 1
  <1>0. Len(s) \in Nat /\ Len(r) = Len(s) + 1
    BY DEF Inserted
  <1>1. ASSUME NEW j \in 1..Len(r), j # k + 1
        PROVE  f(j) \in 1..Len(s) /\ r[j] = s[f(j)]
    <2>1. CASE j <= k
      <3>1. j \in 1..k /\ j \in 1..Len(s) /\ f(j) = j
        BY <1>0, <2>1
      <3> QED BY <3>1 DEF Inserted
    <2>2. CASE j > k
      <3>1. /\ j - 1 \in (k + 1)..Len(s) /\ j - 1 \in 1..Len(s)
            /\ (j - 1) + 1 = j /\ f(j) = j - 1
        BY <1>0, <1>1, <2>2
      <3> QED BY <3>1 DEF Inserted
    <2> QED BY <1>0, <2>1, <2>2
  <1>2. r[k + 1] = x
    BY DEF Inserted
  <1>3. \A i, j \in 1..Len(r) : i # k + 1 /\ j # k + 1 /\ f(i) = f(j) => i = j
    BY <1>0
  <1> HIDE DEF f
  <1>4. ASSUME OneOf(s), NEW i \in 1..Len(r), NEW j \in 1..Len(r), r[i] = r[j]
        PROVE  i = j
    <2>1. CASE i = k + 1 \/ j = k + 1
      BY <1>1, <1>2, <1>4, <2>1 DEF Absent
    <2>2. CASE i # k + 1 /\ j # k + 1
      BY <1>1, <1>3, <1>4, <2>2 DEF OneOf
    <2> QED BY <2>1, <2>2
  <1> QED BY <1>1, <1>2, <1>4 DEF OneOf

LEMMA RemovedMembers ==
  ASSUME NEW s \in Seq(Nodes), NEW k \in 1..Len(s), NEW r, Removed(s, k, r)
  PROVE  /\ \A j \in 1..Len(r) : \E i \in 1..Len(s) : r[j] = s[i]
         /\ OneOf(s) => OneOf(r)
  <1> DEFINE f(j) == IF j < k THEN j ELSE j + 1
  <1>0. Len(s) \in Nat /\ Len(r) = Len(s) - 1
    BY DEF Removed
  <1>1. ASSUME NEW j \in 1..Len(r)
        PROVE  f(j) \in 1..Len(s) /\ r[j] = s[f(j)]
    <2>1. CASE j < k
      <3>1. j \in 1..(k - 1) /\ j \in 1..Len(s) /\ f(j) = j
        BY <1>0, <2>1
      <3> QED BY <3>1 DEF Removed
    <2>2. CASE j >= k
      <3>1. j \in k..Len(r) /\ j + 1 \in 1..Len(s) /\ f(j) = j + 1
        BY <1>0, <2>2
      <3> QED BY <3>1 DEF Removed
    <2> QED BY <1>0, <2>1, <2>2
  <1>2. \A i, j \in 1..Len(r) : f(i) = f(j) => i = j
    BY <1>0
  <1> HIDE DEF f
  <1>3. ASSUME OneOf(s), NEW i \in 1..Len(r), NEW j \in 1..Len(r), r[i] = r[j]
        PROVE  i = j
    BY <1>1, <1>2, <1>3 DEF OneOf
  <1> QED BY <1>1, <1>3 DEF OneOf

-----------------------------------------------------------------------------
(* The inductive invariant: Faithful, and that no node is linked twice. *)

Good(h, q) ==
  /\ h \in Heaps
  /\ q \in [Lists -> Seq(Nodes)]
  /\ \A l \in Lists : OneOf(q[l])
  /\ \A l, m \in Lists : l # m => Apart(q[l], q[m])
  /\ \A l \in Lists : Holds(h, l, q[l])

Inv ==
  /\ Good(heap, seqs)
  /\ ret \in Nodes \cup {Null}
  /\ ret = want

LEMMA GoodInsert ==
  ASSUME NEW h, NEW q, Good(h, q), NEW l \in Lists, NEW k \in 0..Len(q[l]),
         NEW x \in Nodes, \A m \in Lists : Absent(x, q[m]),
         NEW r, Inserted(q[l], k, x, r)
  PROVE  Good(list_node_insert_after(h, Cell(l, q[l], k), x), [q EXCEPT ![l] = r])
  <1> DEFINE g == list_node_insert_after(h, Cell(l, q[l], k), x)
             p == [q EXCEPT ![l] = r]
  <1>0. /\ h \in Heaps /\ q \in [Lists -> Seq(Nodes)]
        /\ \A m \in Lists : q[m] \in Seq(Nodes) /\ OneOf(q[m]) /\ Holds(h, m, q[m])
    BY DEF Good
  <1>1. r \in Seq(Nodes)
    BY DEF Inserted
  <1>2. /\ p \in [Lists -> Seq(Nodes)] /\ p[l] = r
        /\ \A m \in Lists : m # l => p[m] = q[m]
    BY <1>0, <1>1
  <1>3. g \in Heaps /\ Holds(g, l, r)
    BY <1>0, InsertHolds
  <1>4. ASSUME NEW m \in Lists, m # l
        PROVE  Holds(g, m, q[m])
    <2>1. Apart(q[l], q[m])
      BY <1>4 DEF Good
    <2> QED BY <1>0, <1>4, <2>1, InsertElsewhere
  <1>5. /\ \A j \in 1..Len(r) : r[j] = x \/ \E i \in 1..Len(q[l]) : r[j] = q[l][i]
        /\ OneOf(r)
    BY <1>0, InsertedMembers
  <1>6. ASSUME NEW m \in Lists, m # l
        PROVE  Apart(r, q[m]) /\ Apart(q[m], r)
    <2>1. Apart(q[l], q[m])
      BY <1>6 DEF Good
    <2> QED BY <1>5, <2>1 DEF Apart, Absent
  <1> HIDE DEF g, p
  <1>7. ASSUME NEW m \in Lists
        PROVE  OneOf(p[m]) /\ Holds(g, m, p[m])
    BY <1>0, <1>2, <1>3, <1>4, <1>5
  <1>8. ASSUME NEW m \in Lists, NEW n \in Lists, m # n
        PROVE  Apart(p[m], p[n])
    <2>1. CASE m = l
      BY <1>2, <1>6, <1>8, <2>1
    <2>2. CASE n = l
      BY <1>2, <1>6, <1>8, <2>2
    <2>3. CASE m # l /\ n # l
      BY <1>2, <1>8, <2>3 DEF Good
    <2> QED BY <2>1, <2>2, <2>3
  <1>9. Good(g, p)
    BY <1>2, <1>3, <1>7, <1>8 DEF Good
  <1> QED BY <1>9 DEF g, p

LEMMA GoodDelete ==
  ASSUME NEW h, NEW q, Good(h, q), NEW l \in Lists, NEW k \in 1..Len(q[l]),
         NEW r, Removed(q[l], k, r)
  PROVE  Good(list_node_delete(h, q[l][k]), [q EXCEPT ![l] = r])
  <1> DEFINE g == list_node_delete(h, q[l][k])
             p == [q EXCEPT ![l] = r]
  <1>0. /\ h \in Heaps /\ q \in [Lists -> Seq(Nodes)]
        /\ \A m \in Lists : q[m] \in Seq(Nodes) /\ OneOf(q[m]) /\ Holds(h, m, q[m])
    BY DEF Good
  <1>1. r \in Seq(Nodes)
    BY DEF Removed
  <1>2. /\ p \in [Lists -> Seq(Nodes)] /\ p[l] = r
        /\ \A m \in Lists : m # l => p[m] = q[m]
    BY <1>0, <1>1
  <1>3. g \in Heaps /\ Holds(g, l, r)
    BY <1>0, DeleteHolds
  <1>4. ASSUME NEW m \in Lists, m # l
        PROVE  Holds(g, m, q[m])
    <2>1. Apart(q[l], q[m])
      BY <1>4 DEF Good
    <2> QED BY <1>0, <1>4, <2>1, DeleteElsewhere
  <1>5. /\ \A j \in 1..Len(r) : \E i \in 1..Len(q[l]) : r[j] = q[l][i]
        /\ OneOf(r)
    BY <1>0, RemovedMembers
  <1>6. ASSUME NEW m \in Lists, m # l
        PROVE  Apart(r, q[m]) /\ Apart(q[m], r)
    <2>1. Apart(q[l], q[m])
      BY <1>6 DEF Good
    <2> QED BY <1>5, <2>1 DEF Apart
  <1> HIDE DEF g, p
  <1>7. ASSUME NEW m \in Lists
        PROVE  OneOf(p[m]) /\ Holds(g, m, p[m])
    BY <1>0, <1>2, <1>3, <1>4, <1>5
  <1>8. ASSUME NEW m \in Lists, NEW n \in Lists, m # n
        PROVE  Apart(p[m], p[n])
    <2>1. CASE m = l
      BY <1>2, <1>6, <1>8, <2>1
    <2>2. CASE n = l
      BY <1>2, <1>6, <1>8, <2>2
    <2>3. CASE m # l /\ n # l
      BY <1>2, <1>8, <2>3 DEF Good
    <2> QED BY <2>1, <2>2, <2>3
  <1>9. Good(g, p)
    BY <1>2, <1>3, <1>7, <1>8 DEF Good
  <1> QED BY <1>9 DEF g, p

(* The two ends: the dummy nodes make the test for an empty list. *)
LEMMA Ends ==
  ASSUME NEW h, NEW q, Good(h, q), NEW l \in Lists
  PROVE  /\ q[l] = <<>> => list_first(h, l) = Null /\ list_last(h, l) = Null
         /\ q[l] # <<>> => /\ Len(q[l]) \in 1..Len(q[l]) /\ 1 \in 1..Len(q[l])
                           /\ list_first(h, l) = q[l][1] /\ q[l][1] \in Nodes
                           /\ list_last(h, l) = q[l][Len(q[l])]
                           /\ q[l][Len(q[l])] \in Nodes
         /\ h.prev[TailOf(l)] = Cell(l, q[l], Len(q[l]))
  <1> DEFINE s == q[l]
             n == Len(s)
  <1>0. s \in Seq(Nodes) /\ Holds(h, l, s)
    BY DEF Good
  <1>00. n \in Nat
    BY <1>0
  <1> HIDE DEF s
  <1>1. /\ \A i \in 0..n : /\ h.next[Cell(l, s, i)] = Cell(l, s, i + 1)
                           /\ h.prev[Cell(l, s, i + 1)] = Cell(l, s, i)
        /\ h.next[TailOf(l)] = Null /\ h.prev[HeadOf(l)] = Null
    BY <1>0 DEF Holds
  <1>2. /\ Cell(l, s, 0) = HeadOf(l) /\ Cell(l, s, n + 1) = TailOf(l)
        /\ \A i \in 1..n : Cell(l, s, i) = s[i] /\ s[i] \in Nodes
        /\ \A i \in 0..(n + 1) : Cell(l, s, i) # Null
    BY <1>0, CellKinds
  <1> HIDE DEF n
  <1>3. h.prev[TailOf(l)] = Cell(l, s, n)
    BY <1>00, <1>1, <1>2
  <1>4. h.next[HeadOf(l)] = Cell(l, s, 1)
    BY <1>00, <1>1, <1>2
  <1>5. CASE s = <<>>
    <2>1. n = 0
      BY <1>5 DEF n
    <2> QED BY <1>1, <1>2, <1>3, <1>4, <1>5, <2>1 DEF list_first, list_last, s, n
  <1>6. CASE s # <<>>
    <2>1. n >= 1
      BY <1>0, <1>6 DEF n
    <2>2. /\ 1 \in 1..n /\ n \in 1..n /\ 1 \in 0..n /\ n - 1 \in 0..n /\ (n - 1) + 1 = n
          /\ 1 + 1 \in 0..(n + 1) /\ n - 1 \in 0..(n + 1)
      BY <1>00, <2>1
    <2>3. h.next[Cell(l, s, 1)] # Null /\ h.prev[Cell(l, s, n)] # Null
      <3>1. h.next[Cell(l, s, 1)] = Cell(l, s, 1 + 1)
        BY <1>1, <2>2
      <3>2. h.prev[Cell(l, s, n)] = Cell(l, s, n - 1)
        BY <1>1, <2>2
      <3> QED BY <1>2, <2>2, <3>1, <3>2
    <2>4. list_first(h, l) = s[1] /\ list_last(h, l) = s[n]
      BY <1>2, <1>3, <1>4, <2>2, <2>3 DEF list_first, list_last
    <2> QED BY <1>2, <1>3, <1>6, <2>2, <2>4 DEF s, n
  <1> QED BY <1>5, <1>6

-----------------------------------------------------------------------------
LEMMA InitInv ==
  ASSUME Init PROVE Inv
  <1>1. /\ heap.next = [c \in CellSet |->
                          IF \E l \in Lists : c = HeadOf(l)
                          THEN TailOf(CHOOSE l \in Lists : c = HeadOf(l)) ELSE Null]
        /\ heap.prev = [c \in CellSet |->
                          IF \E l \in Lists : c = TailOf(l)
                          THEN HeadOf(CHOOSE l \in Lists : c = TailOf(l)) ELSE Null]
        /\ heap = [next |-> heap.next, prev |-> heap.prev]
    BY DEF Init, list_init, CellSet
  <1>2. ASSUME NEW l \in Lists
        PROVE  /\ (CHOOSE m \in Lists : HeadOf(l) = HeadOf(m)) = l
               /\ (CHOOSE m \in Lists : TailOf(l) = TailOf(m)) = l
    BY Dummies
  <1>3. ASSUME NEW l \in Lists
        PROVE  /\ heap.next[HeadOf(l)] = TailOf(l) /\ heap.next[TailOf(l)] = Null
               /\ heap.prev[TailOf(l)] = HeadOf(l) /\ heap.prev[HeadOf(l)] = Null
    BY <1>1, <1>2, Dummies
  <1>4. heap \in Heaps
    <2>1. ASSUME NEW c \in CellSet
          PROVE  heap.next[c] \in Pointers /\ heap.prev[c] \in Pointers
      <3>1. \A l \in Lists : c = HeadOf(l) => heap.next[c] \in Pointers
        BY <1>3, Dummies DEF Pointers
      <3>2. \A l \in Lists : c = TailOf(l) => heap.prev[c] \in Pointers
        BY <1>3, Dummies DEF Pointers
      <3> QED BY <1>1, <3>1, <3>2 DEF Pointers
    <2> QED BY <1>1, <2>1 DEF Heaps
  <1>5. /\ seqs \in [Lists -> Seq(Nodes)]
        /\ \A l \in Lists : seqs[l] = <<>> /\ Len(seqs[l]) = 0
    BY DEF Init
  <1>6. \A l \in Lists : OneOf(seqs[l])
    BY <1>5 DEF OneOf
  <1>7. \A l, m \in Lists : Apart(seqs[l], seqs[m])
    BY <1>5 DEF Apart
  <1>8. ASSUME NEW l \in Lists
        PROVE  Holds(heap, l, seqs[l])
    BY <1>3, <1>5 DEF Holds, Cell
  <1>9. Good(heap, seqs)
    BY <1>4, <1>5, <1>6, <1>7, <1>8 DEF Good
  <1> QED BY <1>9 DEF Inv, Init

(* x \notin Linked, by position. *)
LEMMA Unlinked ==
  ASSUME seqs \in [Lists -> Seq(Nodes)], NEW x, x \notin Linked
  PROVE  \A m \in Lists : Absent(x, seqs[m])
  BY DEF Linked, ToSet, Absent

LEMMA NextInv ==
  ASSUME Inv, [Next]_vars PROVE Inv'
  <1>0. /\ Good(heap, seqs) /\ ret \in Nodes \cup {Null} /\ ret = want
        /\ seqs \in [Lists -> Seq(Nodes)]
        /\ \A l \in Lists : seqs[l] \in Seq(Nodes) /\ Len(seqs[l]) \in Nat
    BY DEF Inv, Good
  <1>1. ASSUME NEW l \in Lists, NEW x \in Nodes, add_head(l, x) PROVE Inv'
    <2>1. \A m \in Lists : Absent(x, seqs[m])
      BY <1>0, <1>1, Unlinked DEF add_head
    <2>2. 0 \in 0..Len(seqs[l]) /\ Cell(l, seqs[l], 0) = HeadOf(l)
      BY <1>0 DEF Cell
    <2>3. Inserted(seqs[l], 0, x, <<x>> \o seqs[l])
      BY <1>0, Insertions
    <2>4. Good(list_node_insert_after(heap, Cell(l, seqs[l], 0), x),
               [seqs EXCEPT ![l] = <<x>> \o seqs[l]])
      BY <1>0, <2>1, <2>2, <2>3, GoodInsert
    <2>5. Good(heap', seqs')
      BY <1>1, <2>2, <2>4 DEF add_head, list_add_head
    <2> QED BY <1>0, <1>1, <2>5 DEF Inv, add_head
  <1>2. ASSUME NEW l \in Lists, NEW x \in Nodes, add_tail(l, x) PROVE Inv'
    <2>1. \A m \in Lists : Absent(x, seqs[m])
      BY <1>0, <1>2, Unlinked DEF add_tail
    <2>2. Len(seqs[l]) \in 0..Len(seqs[l]) /\ heap.prev[TailOf(l)] = Cell(l, seqs[l], Len(seqs[l]))
      BY <1>0, Ends
    <2>3. Inserted(seqs[l], Len(seqs[l]), x, Append(seqs[l], x))
      BY <1>0, Insertions
    <2>4. Good(list_node_insert_after(heap, Cell(l, seqs[l], Len(seqs[l])), x),
               [seqs EXCEPT ![l] = Append(seqs[l], x)])
      BY <1>0, <2>1, <2>2, <2>3, GoodInsert
    <2>5. Good(heap', seqs')
      BY <1>2, <2>2, <2>4 DEF add_tail, list_add_tail
    <2> QED BY <1>0, <1>2, <2>5 DEF Inv, add_tail
  <1>3. ASSUME NEW l \in Lists, NEW x \in Nodes, NEW i \in DOMAIN seqs[l],
               insert_after(l, i, x)
        PROVE  Inv'
    <2>1. \A m \in Lists : Absent(x, seqs[m])
      BY <1>0, <1>3, Unlinked DEF insert_after
    <2>2. i \in 1..Len(seqs[l]) /\ i \in 0..Len(seqs[l]) /\ Cell(l, seqs[l], i) = seqs[l][i]
      BY <1>0 DEF Cell
    <2>3. Inserted(seqs[l], i, x, InsertAt(seqs[l], i + 1, x))
      BY <1>0, <2>2, Insertions
    <2>4. Good(list_node_insert_after(heap, Cell(l, seqs[l], i), x),
               [seqs EXCEPT ![l] = InsertAt(seqs[l], i + 1, x)])
      BY <1>0, <2>1, <2>2, <2>3, GoodInsert
    <2>5. Good(heap', seqs')
      BY <1>3, <2>2, <2>4 DEF insert_after
    <2> QED BY <1>0, <1>3, <2>5 DEF Inv, insert_after
  <1>4. ASSUME NEW l \in Lists, NEW i \in DOMAIN seqs[l], delete_node(l, i) PROVE Inv'
    <2>1. i \in 1..Len(seqs[l])
      BY <1>0
    <2>2. Removed(seqs[l], i, RemoveAt(seqs[l], i))
      BY <1>0, <2>1, Removals
    <2>3. Good(list_node_delete(heap, seqs[l][i]), [seqs EXCEPT ![l] = RemoveAt(seqs[l], i)])
      BY <1>0, <2>1, <2>2, GoodDelete
    <2>4. Good(heap', seqs')
      BY <1>4, <2>3 DEF delete_node
    <2> QED BY <1>0, <1>4, <2>4 DEF Inv, delete_node
  <1>5. ASSUME NEW l \in Lists, delete_head(l) PROVE Inv'
    <2>1. CASE seqs[l] = <<>>
      <3>1. ret' = Null /\ want' = Null /\ heap' = heap
        BY <1>0, <1>5, <2>1, Ends DEF delete_head
      <3>2. seqs' = seqs
        BY <1>0, <1>5, <2>1 DEF delete_head
      <3> QED BY <1>0, <3>1, <3>2 DEF Inv
    <2>2. CASE seqs[l] # <<>>
      <3>1. /\ 1 \in 1..Len(seqs[l]) /\ list_first(heap, l) = seqs[l][1]
            /\ seqs[l][1] \in Nodes /\ seqs[l][1] # Null
        BY <1>0, <2>2, Ends, Dummies
      <3>2. Head(seqs[l]) = seqs[l][1]
        BY <1>0, <2>2
      <3>3. /\ ret' = seqs[l][1] /\ want' = seqs[l][1]
            /\ heap' = list_node_delete(heap, seqs[l][1])
            /\ seqs' = [seqs EXCEPT ![l] = Tail(seqs[l])]
        BY <1>0, <1>5, <2>2, <3>1, <3>2 DEF delete_head
      <3>4. Removed(seqs[l], 1, Tail(seqs[l]))
        BY <1>0, <2>2, Removals
      <3>5. Good(list_node_delete(heap, seqs[l][1]), [seqs EXCEPT ![l] = Tail(seqs[l])])
        BY <1>0, <3>1, <3>4, GoodDelete
      <3> QED BY <3>1, <3>3, <3>5 DEF Inv
    <2> QED BY <2>1, <2>2
  <1>6. ASSUME NEW l \in Lists, delete_tail(l) PROVE Inv'
    <2>1. CASE seqs[l] = <<>>
      <3>1. ret' = Null /\ want' = Null /\ heap' = heap
        BY <1>0, <1>6, <2>1, Ends DEF delete_tail
      <3>2. seqs' = seqs
        BY <1>0, <1>6, <2>1 DEF delete_tail
      <3> QED BY <1>0, <3>1, <3>2 DEF Inv
    <2>2. CASE seqs[l] # <<>>
      <3> DEFINE n == Len(seqs[l])
      <3>1. /\ n \in 1..n /\ list_last(heap, l) = seqs[l][n]
            /\ seqs[l][n] \in Nodes /\ seqs[l][n] # Null
        BY <1>0, <2>2, Ends, Dummies
      <3>3. /\ ret' = seqs[l][n] /\ want' = seqs[l][n]
            /\ heap' = list_node_delete(heap, seqs[l][n])
            /\ seqs' = [seqs EXCEPT ![l] = Front(seqs[l])]
        BY <1>0, <1>6, <2>2, <3>1 DEF delete_tail, Last
      <3>4. Removed(seqs[l], n, Front(seqs[l]))
        BY <1>0, <2>2, Removals
      <3>5. Good(list_node_delete(heap, seqs[l][n]), [seqs EXCEPT ![l] = Front(seqs[l])])
        BY <1>0, <3>1, <3>4, GoodDelete
      <3> QED BY <3>1, <3>3, <3>5 DEF Inv
    <2> QED BY <2>1, <2>2
  <1>7. CASE UNCHANGED vars
    BY <1>0, <1>7 DEF Inv, vars
  <1> QED BY <1>1, <1>2, <1>3, <1>4, <1>5, <1>6, <1>7 DEF Next

(* Whatever the callers do with their lists, the links of list.asm are the *)
(* sequences the rest of this project uses for them.                       *)
THEOREM LinksFaithful == Spec => []Faithful
  <1>1. Init => Inv
    BY InitInv
  <1>2. Inv /\ [Next]_vars => Inv'
    BY NextInv
  <1>3. Inv => Faithful
    BY DEF Inv, Good, Faithful
  <1> QED BY <1>1, <1>2, <1>3, PTL DEF Spec

(* list_delete_head and list_delete_tail return the node they unlinked,    *)
(* and NULL only for an empty list.                                        *)
THEOREM EndsReturned == Spec => []Returned
  <1>1. Init => Inv
    BY InitInv
  <1>2. Inv /\ [Next]_vars => Inv'
    BY NextInv
  <1>3. Inv => Returned
    BY DEF Inv, Returned
  <1> QED BY <1>1, <1>2, <1>3, PTL DEF Spec

(* Every link leads to a node or to one of the dummies of a header, and    *)
(* what is returned is a node or NULL.                                     *)
THEOREM TypesKept == Spec => []TypeOK
  <1>1. Init => Inv
    BY InitInv
  <1>2. Inv /\ [Next]_vars => Inv'
    BY NextInv
  <1>3. Inv => TypeOK
    BY DEF Inv, Good, TypeOK, Heaps, Pointers, CellSet
  <1> QED BY <1>1, <1>2, <1>3, PTL DEF Spec
=============================================================================
