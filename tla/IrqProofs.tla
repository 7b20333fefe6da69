------------------------------ MODULE IrqProofs ------------------------------
(***************************************************************************)
(* IRQ chains (kernel/kmachine.asm), for any number of handlers and levels *)
(* and any depth of nesting: the walk of a chain calls only handlers that  *)
(* are registered and skips none, although the chain changes under it.     *)
(*                                                                         *)
(* The chains are kernel lists, and what their links hold is taken from    *)
(* ListProofs: a registration is an add_tail of List, a removal a          *)
(* delete_node.  What is proved here is where each walk is on its chain.   *)
(***************************************************************************)
EXTENDS Integers, Irq, ListLemmas

L == INSTANCE ListProofs
       WITH Nodes <- Handlers, Lists <- Levels, seqs <- chains, ret <- Null, want <- Null

(* The programs the theorems are about: handlers remove nobody but         *)
(* themselves, and do not both register and remove.  Both are needed: a    *)
(* removed handler that is still being walked keeps its old link, and      *)
(* another one that goes meanwhile is called through it.                   *)
Polite == \A k \in Kinds : "remove_other" \notin k /\ ~({"register", "remove_self"} \subseteq k)

(* Position i is where the walk of f is: the link it will load leads to    *)
(* the next position, and who is due comes later.                          *)
InPlace(f, i) ==
  /\ heap.next[f.a0] = Cell(f.irq, chains[f.irq], i + 1)
  /\ \A x \in f.due : \E j \in 1..Len(chains[f.irq]) : j > i /\ x = chains[f.irq][j]
OnChain(f, i) == f.a0 = Cell(f.irq, chains[f.irq], i)

(* The handler that is running has removed itself: irq_remove has masked   *)
(* every interrupt and they stay masked until the walk is over.            *)
Gone(k) == /\ k = Len(stack) /\ ipl = 7 /\ "remove_self" \in may
           /\ stack[k].a0 \in Handlers \ Registered

Walking ==
  \A k \in DOMAIN stack :
    stack[k].next # "old" =>
      \E i \in 0..Len(chains[stack[k].irq]) :
        InPlace(stack[k], i) /\ (OnChain(stack[k], i) \/ Gone(k))

(* Without registrations by handlers, which unmask interrupts, a chain is  *)
(* not walked twice at once.                                               *)
Nested ==
  "remove_self" \in may =>
    /\ \A k \in DOMAIN stack : stack[k].irq <= ipl
    /\ \A j, k \in DOMAIN stack : j < k => /\ stack[j].irq < stack[k].irq
                                           /\ stack[j].irq <= stack[k].sr

Chained == L!Good(heap, chains)

IrqInv == TypeOK /\ Chained /\ Walking /\ Nested /\ NoneSkipped /\ open <= count

-----------------------------------------------------------------------------
(* A frame that is not the last one is below it.                           *)
LEMMA Below == ASSUME NEW n \in Nat, NEW k \in 1..n, k # n PROVE k < n
  OBVIOUS

(* The chains, as kernel lists. *)
LEMMA Params ==
  /\ Levels \subseteq 1..6 /\ MaxNest \in Nat \ {0} /\ MaxCount \in Nat \ {0}
  /\ Null \notin L!Cells(Handlers, Levels)
  /\ \A l \in Levels : L!HeadOf(l) \notin Handlers /\ L!TailOf(l) \notin Handlers
  <1>1. L!Cells(Handlers, Levels) = Cells(Handlers, Levels)
    BY DEF L!Cells, Cells, L!HeadOf, HeadOf, L!TailOf, TailOf
  <1>2. \A l : L!HeadOf(l) = HeadOf(l) /\ L!TailOf(l) = TailOf(l)
    BY DEF L!HeadOf, HeadOf, L!TailOf, TailOf
  <1> QED BY <1>1, <1>2, IrqAssumption

LEMMA SameCells ==
  /\ L!Cells(Handlers, Levels) = Cells(Handlers, Levels)
  /\ \A l, s, i : L!Cell(l, s, i) = Cell(l, s, i)
  /\ \A l : L!HeadOf(l) = HeadOf(l) /\ L!TailOf(l) = TailOf(l)
  <1>1. L!Cells(Handlers, Levels) = Cells(Handlers, Levels)
    BY DEF L!Cells, Cells, L!HeadOf, HeadOf, L!TailOf, TailOf
  <1>2. \A l : L!HeadOf(l) = HeadOf(l) /\ L!TailOf(l) = TailOf(l)
    BY DEF L!HeadOf, HeadOf, L!TailOf, TailOf
  <1>3. \A l, s, i : L!Cell(l, s, i) = Cell(l, s, i)
    BY <1>2 DEF L!Cell, Cell
  <1> QED BY <1>1, <1>2, <1>3

LEMMA SameRoutines ==
  /\ \A h, x : L!list_node_delete(h, x) = list_node_delete(h, x)
  /\ \A h, l, x : L!list_add_tail(h, l, x) = list_add_tail(h, l, x)
  /\ L!list_init(Handlers, Levels) = list_init(Handlers, Levels)
  <1>1. \A h, x : L!list_node_delete(h, x) = list_node_delete(h, x)
    BY DEF L!list_node_delete, list_node_delete, L!Store, Store
  <1>2. \A h, t, x : L!list_node_insert_after(h, t, x) = list_node_insert_after(h, t, x)
    BY DEF L!list_node_insert_after, list_node_insert_after, L!Store, Store
  <1>3. \A h, l, x : L!list_add_tail(h, l, x) = list_add_tail(h, l, x)
    BY <1>2, SameCells DEF L!list_add_tail, list_add_tail
  <1>4. L!list_init(Handlers, Levels) = list_init(Handlers, Levels)
    BY DEF L!list_init, list_init, L!Cells, Cells, L!HeadOf, HeadOf, L!TailOf, TailOf
  <1> QED BY <1>1, <1>3, <1>4

LEMMA GoodFacts ==
  ASSUME NEW h, NEW q, L!Good(h, q)
  PROVE  /\ h \in [next : [Cells(Handlers, Levels) -> Cells(Handlers, Levels) \cup {Null}],
                   prev : [Cells(Handlers, Levels) -> Cells(Handlers, Levels) \cup {Null}]]
         /\ q \in [Levels -> Seq(Handlers)]
         /\ \A l \in Levels : /\ q[l] \in Seq(Handlers) /\ Len(q[l]) \in Nat
                              /\ \A i, j \in 1..Len(q[l]) : q[l][i] = q[l][j] => i = j
         /\ \A l, m \in Levels :
              l # m => \A i \in 1..Len(q[l]), j \in 1..Len(q[m]) : q[l][i] # q[m][j]
         /\ \A l \in Levels : \A i \in 0..Len(q[l]) :
              /\ h.next[Cell(l, q[l], i)] = Cell(l, q[l], i + 1)
              /\ h.prev[Cell(l, q[l], i + 1)] = Cell(l, q[l], i)
  <1>1. h \in L!Heaps /\ q \in [Levels -> Seq(Handlers)]
    BY DEF L!Good
  <1>2. L!Heaps = [next : [Cells(Handlers, Levels) -> Cells(Handlers, Levels) \cup {Null}],
                   prev : [Cells(Handlers, Levels) -> Cells(Handlers, Levels) \cup {Null}]]
    BY SameCells DEF L!Heaps, L!Pointers, L!CellSet
  <1>3. \A l \in Levels : q[l] \in Seq(Handlers) /\ Len(q[l]) \in Nat
    BY <1>1
  <1>4. \A l \in Levels : \A i, j \in 1..Len(q[l]) : q[l][i] = q[l][j] => i = j
    BY DEF L!Good, L!OneOf
  <1>5. \A l, m \in Levels :
          l # m => \A i \in 1..Len(q[l]), j \in 1..Len(q[m]) : q[l][i] # q[m][j]
    BY DEF L!Good, L!Apart
  <1>6. ASSUME NEW l \in Levels, NEW i \in 0..Len(q[l])
        PROVE  /\ h.next[Cell(l, q[l], i)] = Cell(l, q[l], i + 1)
               /\ h.prev[Cell(l, q[l], i + 1)] = Cell(l, q[l], i)
    <2>1. L!Holds(h, l, q[l])
      BY DEF L!Good
    <2> QED BY <2>1, SameCells DEF L!Holds
  <1> QED BY <1>1, <1>2, <1>3, <1>4, <1>5, <1>6

(* What is at a position: the head, a handler, the tail; nothing is there  *)
(* twice.                                                                  *)
LEMMA PositionsAre ==
  ASSUME NEW l \in Levels, NEW s \in Seq(Handlers)
  PROVE  /\ Cell(l, s, 0) = HeadOf(l) /\ Cell(l, s, Len(s) + 1) = TailOf(l)
         /\ \A i \in 1..Len(s) : Cell(l, s, i) = s[i] /\ s[i] \in Handlers
         /\ HeadOf(l) \notin Handlers /\ TailOf(l) \notin Handlers /\ HeadOf(l) # TailOf(l)
  <1>1. /\ Cell(l, s, 0) = HeadOf(l) /\ Cell(l, s, Len(s) + 1) = TailOf(l)
        /\ \A i \in 1..Len(s) : Cell(l, s, i) = s[i] /\ s[i] \in Handlers
    BY DEF Cell
  <1>2. HeadOf(l) # TailOf(l)
    BY DEF HeadOf, TailOf
  <1> QED BY <1>1, <1>2, IrqAssumption

LEMMA OnLists ==
  ASSUME chains \in [Levels -> Seq(Handlers)]
  PROVE  \A x : x \in Registered <=> \E l \in Levels : \E i \in 1..Len(chains[l]) : x = chains[l][i]
  <1>1. \A l \in Levels : \A x : x \in ToSet(chains[l]) <=> \E i \in 1..Len(chains[l]) : x = chains[l][i]
    BY Positions
  <1> QED BY <1>1 DEF Registered

LEMMA ChainsInit ==
  ASSUME Init PROVE Chained
  <1>1. heap = list_init(Handlers, Levels) /\ chains = [l \in Levels |-> <<>>]
    BY DEF Init
  <1>2. L!Init
    BY <1>1, SameRoutines DEF L!Init
  <1>3. L!Inv
    BY <1>2, Params, L!InitInv
  <1> QED BY <1>3 DEF Chained, L!Inv

LEMMA ChainsRegister ==
  ASSUME Chained, NEW h \in Handlers, NEW l \in Levels, h \notin Registered,
         heap' = list_add_tail(heap, l, h), chains' = [chains EXCEPT ![l] = Append(@, h)]
  PROVE  Chained'
  <1>0. h \notin L!Linked
    BY DEF L!Linked, Registered, L!ToSet, ToSet
  <1>1. L!add_tail(l, h)
    BY <1>0, SameRoutines DEF L!add_tail
  <1>2. L!Inv
    BY DEF Chained, L!Inv
  <1>3. L!Next
    BY <1>1 DEF L!Next
  <1>4. L!Inv'
    BY <1>2, <1>3, Params, L!NextInv
  <1> QED BY <1>4 DEF Chained, L!Inv

(* irq_remove of the handler at position i of level l: the node keeps its  *)
(* link to the one that followed it.                                       *)
LEMMA ChainsRemove ==
  ASSUME Chained, NEW l \in Levels, NEW i \in 1..Len(chains[l]),
         heap' = list_node_delete(heap, chains[l][i]),
         chains' = [m \in Levels |-> RemoveFirst(chains[m], chains[l][i])]
  PROVE  /\ Chained'
         /\ chains' = [chains EXCEPT ![l] = RemoveAt(@, i)]
         /\ heap'.next[chains[l][i]] = heap.next[chains[l][i]]
  <1> DEFINE s == chains[l]
             h == s[i]
  <1>1. /\ chains \in [Levels -> Seq(Handlers)] /\ s \in Seq(Handlers) /\ Len(s) \in Nat
        /\ \A j, k \in 1..Len(s) : s[j] = s[k] => j = k
        /\ \A m \in Levels : m # l => \A j \in 1..Len(chains[m]) : chains[m][j] # h
    BY GoodFacts DEF Chained
  <1>2. RemoveFirst(s, h) = RemoveAt(s, i)
    <2>1. h \in ToSet(s)
      BY <1>1, Positions
    <2>2. PICK k \in 1..Len(s) : s[k] = h /\ RemoveFirst(s, h) = RemoveAt(s, k)
      BY <1>1, <2>1, RemoveFirstAt
    <2> QED BY <1>1, <2>2
  <1>3. ASSUME NEW m \in Levels, m # l PROVE RemoveFirst(chains[m], h) = chains[m]
    <2>0. chains[m] \in Seq(Handlers)
      BY <1>1
    <2>1. h \notin ToSet(chains[m])
      BY <1>1, <1>3, <2>0, Positions
    <2>2. ~\E k \in 1..Len(chains[m]) : chains[m][k] = h
      BY <1>1, <1>3
    <2> QED BY <2>0, <2>2, RemoveFirstAt
  <1>4. chains' = [chains EXCEPT ![l] = RemoveAt(@, i)]
    <2>1. chains' = [m \in Levels |-> RemoveFirst(chains[m], h)]
      OBVIOUS
    <2>2. chains' = [m \in Levels |-> IF m = l THEN RemoveAt(s, i) ELSE chains[m]]
      <3> HIDE DEF s, h
      <3>1. RemoveFirst(chains[l], h) = RemoveAt(s, i)
        BY <1>2 DEF s
      <3> QED BY <1>3, <2>1, <3>1
    <2> QED BY <1>1, <2>2
  <1>5. L!delete_node(l, i)
    <2>1. L!RemoveAt(s, i) = RemoveAt(s, i)
      BY DEF L!RemoveAt, RemoveAt
    <2> QED BY <1>4, <2>1, SameRoutines DEF L!delete_node
  <1>6. L!Inv
    BY DEF Chained, L!Inv
  <1>7. L!Next
    <2>1. i \in DOMAIN chains[l]
      BY <1>1
    <2> QED BY <1>5, <2>1 DEF L!Next
  <1>8. Chained'
    <2>1. L!Inv'
      BY <1>6, <1>7, Params, L!NextInv
    <2> QED BY <2>1 DEF Chained, L!Inv
  <1>9. heap'.next[h] = heap.next[h]
    <2>1. /\ i - 1 \in 0..Len(s) /\ i - 1 + 1 = i /\ i \in 0..(Len(s) + 1) /\ i - 1 \in 0..(Len(s) + 1)
      BY <1>1
    <2>2. /\ heap.prev[Cell(l, s, i - 1 + 1)] = Cell(l, s, i - 1)
          /\ heap \in [next : [Cells(Handlers, Levels) -> Cells(Handlers, Levels) \cup {Null}],
                       prev : [Cells(Handlers, Levels) -> Cells(Handlers, Levels) \cup {Null}]]
      BY <2>1, GoodFacts DEF Chained
    <2>3. Cell(l, s, i) = h /\ h \in Handlers
      BY <1>1, PositionsAre
    <2>4. heap.prev[h] = Cell(l, s, i - 1)
      BY <2>1, <2>2, <2>3
    <2>5. Cell(l, s, i - 1) # h
      <3>1. CASE i = 1
        <4>1. Cell(l, s, i - 1) = HeadOf(l)
          BY <1>1, <3>1, PositionsAre
        <4> QED BY <1>1, <2>3, <4>1, PositionsAre
      <3>2. CASE i # 1
        <4>1. i - 1 \in 1..Len(s) /\ i - 1 # i
          BY <1>1, <3>2
        <4>2. Cell(l, s, i - 1) = s[i - 1]
          BY <1>1, <4>1, PositionsAre
        <4> QED BY <1>1, <4>1, <4>2
      <3> QED BY <3>1, <3>2
    <2>6. heap'.next = Store(heap.next, heap.prev[h], heap.next[h])
      BY DEF list_node_delete
    <2>7. heap.prev[h] # h /\ h \in Cells(Handlers, Levels)
      BY <2>3, <2>4, <2>5 DEF Cells
    <2> HIDE DEF h, s
    <2> QED BY <2>2, <2>6, <2>7 DEF Store
  <1> QED BY <1>4, <1>8, <1>9

-----------------------------------------------------------------------------
(* The frames of the interrupts in progress. *)
LEMMA FrameIn ==
  ASSUME TypeOK
  PROVE  /\ Len(stack) \in Nat /\ DOMAIN stack = 1..Len(stack) /\ stack \in Seq(Frames)
         /\ \A k \in 1..Len(stack) :
              /\ stack[k] \in Frames
              /\ stack[k].irq \in Levels /\ stack[k].irq \in 1..6 /\ stack[k].sr \in 0..7
              /\ stack[k].a0 \in Handlers \cup {HeadOf(l) : l \in Levels}
              /\ stack[k].next \in {"load", "handler", "old"}
              /\ stack[k].due \in SUBSET Handlers
  <1>1. /\ Len(stack) \in Nat /\ DOMAIN stack = 1..Len(stack) /\ stack \in Seq(Frames)
        /\ \A k \in 1..Len(stack) : stack[k] \in Frames
    BY DEF TypeOK
  <1>2. \A f \in Frames : /\ f.irq \in Levels /\ f.sr \in 0..7
                          /\ f.a0 \in Handlers \cup {HeadOf(l) : l \in Levels}
                          /\ f.next \in {"load", "handler", "old"}
                          /\ f.due \in SUBSET Handlers
    BY DEF Frames
  <1>3. \A l \in Levels : l \in 1..6
    BY Params
  <1> QED BY <1>1, <1>2, <1>3

LEMMA ChainsStay ==
  ASSUME Chained, UNCHANGED <<heap, chains>> PROVE Chained'
  BY DEF Chained

LEMMA RegisterKeeps ==
  ASSUME Polite, IrqInv, NEW h \in Handlers, NEW l \in Levels, irq_register(h, l),
         stack = <<>> \/ "register" \in may
  PROVE  IrqInv'
  <1>1. /\ h \notin Registered /\ heap' = list_add_tail(heap, l, h)
        /\ chains' = [chains EXCEPT ![l] = Append(@, h)]
        /\ count' = count /\ ipl' \in {0, 7} /\ UNCHANGED <<stack, open, may>>
    BY DEF irq_register, DisableEnable
  <1>2. Chained /\ Chained'
    BY <1>1, ChainsRegister DEF IrqInv
  <1>3. stack # <<>> => "remove_self" \notin may
    BY DEF Polite, IrqInv, TypeOK
  <1>t. TypeOK /\ \A k \in 1..Len(stack) : stack[k].irq \in Levels
    BY FrameIn DEF IrqInv
  <1>n. DOMAIN stack = 1..Len(stack) /\ Len(stack) \in Nat
    BY FrameIn DEF IrqInv
  <1>q. /\ chains \in [Levels -> Seq(Handlers)]
        /\ heap' \in [next : [Cells(Handlers, Levels) -> Cells(Handlers, Levels) \cup {Null}],
                      prev : [Cells(Handlers, Levels) -> Cells(Handlers, Levels) \cup {Null}]]
        /\ chains' \in [Levels -> Seq(Handlers)]
    BY <1>2, GoodFacts DEF Chained
  <1>4. TypeOK'
    BY <1>1, <1>t, <1>q DEF TypeOK
  <1>5. ASSUME NEW k \in DOMAIN stack, stack[k].next # "old"
        PROVE  \E i \in 0..Len(chains'[stack[k].irq]) :
                 /\ heap'.next[stack[k].a0] = Cell(stack[k].irq, chains'[stack[k].irq], i + 1)
                 /\ \A x \in stack[k].due :
                      \E j \in 1..Len(chains'[stack[k].irq]) : j > i /\ x = chains'[stack[k].irq][j]
                 /\ stack[k].a0 = Cell(stack[k].irq, chains'[stack[k].irq], i)
    <2> DEFINE m == stack[k].irq
               s == chains[m]
               r == chains'[m]
    <2>0. k \in 1..Len(stack) /\ m \in Levels /\ stack # <<>>
      BY <1>t, <1>n
    <2>1. PICK i \in 0..Len(s) :
            InPlace(stack[k], i) /\ (OnChain(stack[k], i) \/ Gone(k))
      BY <1>5 DEF IrqInv, Walking
    <2>2. stack[k].a0 = Cell(m, s, i)
      BY <1>3, <2>0, <2>1 DEF OnChain, Gone
    <2>3. \A x \in stack[k].due : \E j \in 1..Len(s) : j > i /\ x = s[j]
      BY <2>1 DEF InPlace
    <2>4. s \in Seq(Handlers) /\ Len(s) \in Nat /\ (r = s \/ r = Append(s, h))
      <3> HIDE DEF m
      <3>1. s \in Seq(Handlers) /\ Len(s) \in Nat
        BY <1>q, <2>0
      <3>2. chains'[m] = IF m = l THEN Append(chains[m], h) ELSE chains[m]
        BY <1>1, <1>q, <2>0
      <3> QED BY <3>1, <3>2
    <2> HIDE DEF s, r, m
    <2>5. /\ Len(r) \in Nat /\ Len(s) <= Len(r) /\ i \in 0..Len(r)
          /\ \A j \in 1..Len(s) : j \in 1..Len(r) /\ r[j] = s[j]
      BY <2>4
    <2>6. Cell(m, r, i) = Cell(m, s, i)
      BY <2>4, <2>5 DEF Cell
    <2>7. heap'.next[Cell(m, r, i)] = Cell(m, r, i + 1)
      BY <1>2, <2>0, <2>5, GoodFacts DEF Chained, r
    <2>8. \A x \in stack[k].due : \E j \in 1..Len(r) : j > i /\ x = r[j]
      BY <2>3, <2>5
    <2>9. heap'.next[stack[k].a0] = Cell(m, r, i + 1) /\ stack[k].a0 = Cell(m, r, i)
      BY <2>2, <2>6, <2>7
    <2> QED BY <2>5, <2>8, <2>9 DEF m, r
  <1>6. Walking'
    BY <1>1, <1>5 DEF Walking, InPlace, OnChain
  <1>7. Nested'
    BY <1>1, <1>3, <1>n DEF Nested
  <1>8. NoneSkipped' /\ (open <= count)'
    BY <1>1 DEF IrqInv, NoneSkipped
  <1> QED BY <1>2, <1>4, <1>6, <1>7, <1>8 DEF IrqInv

(* A removal: by the program while no interrupt is in progress, or by the  *)
(* handler that is running.                                                *)
LEMMA RemoveKeeps ==
  ASSUME IrqInv, NEW h \in Handlers, irq_remove(h),
         \/ stack = <<>>
         \/ InHandler /\ h = Top.a0 /\ "remove_self" \in may
  PROVE  IrqInv'
  <1>1. /\ h \in Registered /\ heap' = list_node_delete(heap, h)
        /\ chains' = [l \in Levels |-> RemoveFirst(chains[l], h)]
        /\ stack' = [k \in DOMAIN stack |-> [stack[k] EXCEPT !.due = @ \ {h}]]
        /\ count < MaxCount /\ count' = count + 1 /\ ipl' = 7 /\ UNCHANGED <<open, may>>
    BY DEF irq_remove, Disable
  <1>f. /\ Len(stack) \in Nat /\ DOMAIN stack = 1..Len(stack) /\ stack \in Seq(Frames)
        /\ \A k \in 1..Len(stack) :
             /\ stack[k] \in Frames
             /\ stack[k].irq \in Levels /\ stack[k].irq \in 1..6 /\ stack[k].sr \in 0..7
    BY FrameIn DEF IrqInv
  <1>t. TypeOK /\ Chained
    BY DEF IrqInv
  <1>q. /\ chains \in [Levels -> Seq(Handlers)]
        /\ \A m \in Levels : /\ chains[m] \in Seq(Handlers) /\ Len(chains[m]) \in Nat
                             /\ \A i, j \in 1..Len(chains[m]) : chains[m][i] = chains[m][j] => i = j
        /\ \A m, n \in Levels :
             m # n => \A i \in 1..Len(chains[m]), j \in 1..Len(chains[n]) : chains[m][i] # chains[n][j]
    BY <1>t, GoodFacts DEF Chained
  <1>2. PICK l \in Levels : \E p \in 1..Len(chains[l]) : h = chains[l][p]
    BY <1>1, <1>q, OnLists
  <1>3. PICK p \in 1..Len(chains[l]) : h = chains[l][p]
    BY <1>2
  <1>4. /\ Chained' /\ chains' = [chains EXCEPT ![l] = RemoveAt(@, p)]
        /\ heap'.next[h] = heap.next[h]
    BY <1>1, <1>3, <1>t, ChainsRemove
  <1>p. /\ heap' \in [next : [Cells(Handlers, Levels) -> Cells(Handlers, Levels) \cup {Null}],
                      prev : [Cells(Handlers, Levels) -> Cells(Handlers, Levels) \cup {Null}]]
        /\ chains' \in [Levels -> Seq(Handlers)]
    BY <1>4, GoodFacts DEF Chained
  <1>s. /\ stack' \in Seq(Frames) /\ Len(stack') = Len(stack) /\ DOMAIN stack' = 1..Len(stack)
        /\ \A k \in 1..Len(stack) :
             /\ stack'[k].irq = stack[k].irq /\ stack'[k].a0 = stack[k].a0
             /\ stack'[k].next = stack[k].next /\ stack'[k].sr = stack[k].sr
             /\ stack'[k].due = stack[k].due \ {h}
    <2>1. \A f \in Frames : /\ [f EXCEPT !.due = @ \ {h}] \in Frames
                            /\ [f EXCEPT !.due = @ \ {h}].irq = f.irq
                            /\ [f EXCEPT !.due = @ \ {h}].a0 = f.a0
                            /\ [f EXCEPT !.due = @ \ {h}].next = f.next
                            /\ [f EXCEPT !.due = @ \ {h}].sr = f.sr
                            /\ [f EXCEPT !.due = @ \ {h}].due = f.due \ {h}
      BY DEF Frames
    <2>2. stack' = [k \in 1..Len(stack) |-> [stack[k] EXCEPT !.due = @ \ {h}]]
      BY <1>1, <1>f
    <2>3. \A k \in 1..Len(stack) : stack'[k] = [stack[k] EXCEPT !.due = @ \ {h}]
      BY <2>2
    <2>4. \A k \in 1..Len(stack) : stack'[k] \in Frames
      BY <1>f, <2>1, <2>3
    <2>5. stack' \in Seq(Frames) /\ Len(stack') = Len(stack) /\ DOMAIN stack' = 1..Len(stack)
      BY <1>f, <2>2, <2>4
    <2> QED BY <1>f, <2>1, <2>3, <2>5
  <1>5. TypeOK'
    <2>1. count' \in 0..MaxCount /\ open' \in 0..MaxCount /\ ipl' \in 0..7 /\ may' \in Kinds
      BY <1>1, <1>t, Params DEF TypeOK
    <2>2. \A m \in Levels : chains'[m] \in Seq(Handlers)
      BY <1>p
    <2> QED BY <1>p, <1>s, <2>1, <2>2 DEF TypeOK
  <1>6. Nested'
    <2>1. \A k \in 1..Len(stack) : stack[k].irq <= 7
      BY <1>f
    <2>2. "remove_self" \in may =>
            \A j, k \in 1..Len(stack) : j < k => /\ stack[j].irq < stack[k].irq
                                                /\ stack[j].irq <= stack[k].sr
      BY <1>f DEF IrqInv, Nested
    <2>3. "remove_self" \in may =>
            \A j, k \in 1..Len(stack) : j < k => /\ stack'[j].irq < stack'[k].irq
                                                /\ stack'[j].irq <= stack'[k].sr
      BY <1>s, <2>2
    <2>4. \A k \in 1..Len(stack) : stack'[k].irq <= ipl'
      BY <1>1, <1>s, <2>1
    <2>5. DOMAIN stack' = 1..Len(stack) /\ may' = may
      BY <1>1, <1>s
    <2> QED BY <2>3, <2>4, <2>5 DEF Nested
  <1>7. NoneSkipped'
    BY <1>f, <1>s DEF IrqInv, NoneSkipped
  <1>8. (open <= count)'
    BY <1>1, <1>t DEF IrqInv, TypeOK
  <1>w. ASSUME NEW k \in 1..Len(stack), stack[k].next # "old"
        PROVE  \E i \in 0..Len(chains'[stack[k].irq]) :
                 /\ heap'.next[stack[k].a0] = Cell(stack[k].irq, chains'[stack[k].irq], i + 1)
                 /\ \A x \in stack[k].due \ {h} :
                      \E j \in 1..Len(chains'[stack[k].irq]) : j > i /\ x = chains'[stack[k].irq][j]
                 /\ \/ stack[k].a0 = Cell(stack[k].irq, chains'[stack[k].irq], i)
                    \/ k = Len(stack) /\ stack[k].a0 \in Handlers \ Registered'
    <2> DEFINE n == Len(stack)
               s == chains[l]
               r == chains'[l]
    <2>0. /\ n \in 1..Len(stack) /\ h = stack[n].a0 /\ stack[n].next = "handler"
          /\ "remove_self" \in may
      <3>1. stack # <<>>
        BY <1>f
      <3> QED BY <1>f, <3>1 DEF InHandler, Top
    <2>s. s \in Seq(Handlers) /\ Len(s) \in Nat /\ p \in 1..Len(s) /\ h = s[p]
      BY <1>q, <1>3
    <2>r. /\ r = RemoveAt(s, p) /\ \A m \in Levels : m # l => chains'[m] = chains[m]
      BY <1>4, <1>q
    <2>d. /\ r \in Seq(Handlers) /\ Len(r) = Len(s) - 1
          /\ \A i \in 1..(p - 1) : i \in 1..Len(r) /\ r[i] = s[i]
          /\ \A i \in p..Len(r) : i + 1 \in 1..Len(s) /\ r[i] = s[i + 1]
      <3> HIDE DEF s, r
      <3> QED BY <2>s, <2>r, DeletePositions
    <2>1. stack[n].irq = l /\ InPlace(stack[n], p)
      <3> DEFINE m == stack[n].irq
      <3>1. PICK i \in 0..Len(chains[m]) :
              InPlace(stack[n], i) /\ (OnChain(stack[n], i) \/ Gone(n))
        BY <1>f, <2>0 DEF IrqInv, Walking
      <3>2. m \in Levels /\ h = Cell(m, chains[m], i)
        BY <1>1, <1>f, <2>0, <3>1 DEF OnChain, Gone
      <3>3. chains[m] \in Seq(Handlers) /\ Len(chains[m]) \in Nat
        BY <1>q, <3>2
      <3>4. i # 0
        BY <3>2, <3>3, PositionsAre
      <3>5. i \in 1..Len(chains[m])
        BY <3>3, <3>4
      <3>6. h = chains[m][i]
        BY <3>2, <3>3, <3>5, PositionsAre
      <3> HIDE DEF m
      <3>7. m = l
        BY <1>q, <1>3, <3>2, <3>5, <3>6
      <3>8. i = p
        BY <1>q, <1>3, <3>5, <3>6, <3>7
      <3> QED BY <3>1, <3>7, <3>8 DEF m
    <2>2. CASE k = n
      <3>1. /\ heap.next[h] = Cell(l, s, p + 1)
            /\ \A x \in stack[k].due : \E j \in 1..Len(s) : j > p /\ x = s[j]
        BY <2>0, <2>1, <2>2 DEF InPlace
      <3>2. Cell(l, r, p) = Cell(l, s, p + 1)
        <4> HIDE DEF s, r
        <4>1. CASE p <= Len(r)
          <5>1. p \in p..Len(r) /\ p \in 1..Len(r)
            BY <2>s, <2>d, <4>1
          <5>2. p + 1 \in 1..Len(s) /\ r[p] = s[p + 1]
            BY <2>d, <5>1
          <5> QED BY <2>s, <2>d, <5>1, <5>2, PositionsAre
        <4>2. CASE ~(p <= Len(r))
          <5>1. p = Len(r) + 1 /\ p = Len(s)
            BY <2>s, <2>d, <4>2
          <5>2. Cell(l, r, Len(r) + 1) = TailOf(l) /\ Cell(l, s, Len(s) + 1) = TailOf(l)
            BY <2>s, <2>d, PositionsAre
          <5> QED BY <5>1, <5>2
        <4> QED BY <4>1, <4>2
      <3>3. ASSUME NEW x \in stack[k].due PROVE \E j \in 1..Len(r) : j > p - 1 /\ x = r[j]
        <4>1. PICK j \in 1..Len(s) : j > p /\ x = s[j]
          BY <3>1
        <4> HIDE DEF s, r
        <4>2. j - 1 \in p..Len(r) /\ j - 1 \in 1..Len(r) /\ j - 1 > p - 1 /\ j - 1 + 1 = j
          BY <2>s, <2>d, <4>1
        <4>3. r[j - 1] = s[j - 1 + 1]
          BY <2>d, <4>2
        <4> QED BY <4>1, <4>2, <4>3
      <3>4. h \notin Registered'
        <4> SUFFICES ASSUME h \in Registered' PROVE FALSE
          OBVIOUS
        <4>1. PICK m \in Levels : h \in ToSet(chains'[m])
          BY DEF Registered
        <4>2. chains'[m] \in Seq(Handlers)
          BY <1>p
        <4>3. PICK j \in 1..Len(chains'[m]) : h = chains'[m][j]
          BY <4>1, <4>2, Positions
        <4>4. CASE m # l
          <5>1. chains'[m] = chains[m]
            BY <2>r, <4>4
          <5>2. j \in 1..Len(chains[m]) /\ h = chains[m][j]
            BY <4>3, <5>1
          <5> QED BY <1>q, <1>3, <4>4, <5>2
        <4>5. CASE m = l
          <5>1. h = r[j] /\ j \in 1..Len(r)
            BY <4>3, <4>5
          <5> HIDE DEF s, r
          <5>u. \A a, b \in 1..Len(s) : s[a] = s[b] => a = b
            BY <1>q DEF s
          <5>2. CASE j < p
            <6>1. j \in 1..(p - 1) /\ j \in 1..Len(s) /\ j # p
              BY <2>s, <2>d, <5>1, <5>2
            <6> QED BY <2>s, <2>d, <5>1, <5>u, <6>1
          <5>3. CASE j >= p
            <6>1. j \in p..Len(r) /\ j + 1 \in 1..Len(s) /\ j + 1 # p
              BY <2>s, <2>d, <5>1, <5>3
            <6> QED BY <2>s, <2>d, <5>1, <5>u, <6>1
          <5> QED BY <2>s, <2>d, <5>1, <5>2, <5>3
        <4> QED BY <4>4, <4>5
      <3>5. heap'.next[stack[k].a0] = Cell(l, r, p - 1 + 1) /\ stack[k].irq = l
        <4>1. p - 1 + 1 = p
          BY <2>s
        <4> QED BY <1>4, <2>0, <2>1, <2>2, <3>1, <3>2, <4>1
      <3>6. p - 1 \in 0..Len(r)
        BY <2>s, <2>d
      <3>7. stack[k].a0 \in Handlers \ Registered' /\ k = Len(stack)
        BY <2>0, <2>2, <3>4
      <3> DEFINE m == stack[k].irq
      <3>8. chains'[m] = r /\ m = l
        BY <3>5
      <3> HIDE DEF r, m
      <3>9. /\ p - 1 \in 0..Len(chains'[m])
            /\ heap'.next[stack[k].a0] = Cell(m, chains'[m], p - 1 + 1)
            /\ \A x \in stack[k].due \ {h} : \E j \in 1..Len(chains'[m]) : j > p - 1 /\ x = chains'[m][j]
        BY <3>3, <3>5, <3>6, <3>8
      <3> QED BY <3>7, <3>9 DEF m
    <2>3. CASE k # n
      <3> DEFINE m == stack[k].irq
      <3>1. k < n /\ k \in DOMAIN stack /\ n \in DOMAIN stack
        <4>1. Len(stack) \in Nat /\ DOMAIN stack = 1..Len(stack)
          BY <1>f
        <4>2. n \in DOMAIN stack
          BY <2>0, <4>1
        <4> QED BY <2>3, <4>1, <4>2, Below
      <3>2. m < stack[n].irq
        BY <2>0, <3>1 DEF IrqInv, Nested
      <3>3. m \in Levels /\ m # l
        BY <1>f, <2>1, <3>2
      <3>4. PICK i \in 0..Len(chains[m]) :
              InPlace(stack[k], i) /\ (OnChain(stack[k], i) \/ Gone(k))
        BY <1>w, <3>1 DEF IrqInv, Walking
      <3>5. /\ stack[k].a0 = Cell(m, chains[m], i)
            /\ \A x \in stack[k].due : \E j \in 1..Len(chains[m]) : j > i /\ x = chains[m][j]
        BY <2>3, <3>4 DEF InPlace, OnChain, Gone
      <3> HIDE DEF m
      <3>6. chains'[m] = chains[m]
        BY <2>r, <3>3
      <3>7. heap'.next[Cell(m, chains'[m], i)] = Cell(m, chains'[m], i + 1)
        <4>1. i \in 0..Len(chains'[m])
          BY <3>6
        <4>2. L!Good(heap', chains')
          BY <1>4 DEF Chained
        <4> QED BY <3>3, <4>1, <4>2, GoodFacts
      <3>8. /\ i \in 0..Len(chains'[m])
            /\ heap'.next[stack[k].a0] = Cell(m, chains'[m], i + 1)
            /\ \A x \in stack[k].due \ {h} : \E j \in 1..Len(chains'[m]) : j > i /\ x = chains'[m][j]
            /\ stack[k].a0 = Cell(m, chains'[m], i)
        BY <3>5, <3>6, <3>7
      <3> QED BY <3>8 DEF m
    <2> QED BY <2>2, <2>3
  <1>9. Walking'
    <2> SUFFICES ASSUME NEW k \in DOMAIN stack', stack'[k].next # "old"
                 PROVE  \E i \in 0..Len(chains'[stack'[k].irq]) :
                          InPlace(stack[k], i)' /\ (OnChain(stack[k], i)' \/ Gone(k)')
      BY DEF Walking
    <2>1. k \in 1..Len(stack) /\ stack[k].next # "old"
      BY <1>s
    <2>2. "remove_self" \in may
      BY <1>f, <2>1
    <2>3. PICK i \in 0..Len(chains'[stack[k].irq]) :
                 /\ heap'.next[stack[k].a0] = Cell(stack[k].irq, chains'[stack[k].irq], i + 1)
                 /\ \A x \in stack[k].due \ {h} :
                      \E j \in 1..Len(chains'[stack[k].irq]) : j > i /\ x = chains'[stack[k].irq][j]
                 /\ \/ stack[k].a0 = Cell(stack[k].irq, chains'[stack[k].irq], i)
                    \/ k = Len(stack) /\ stack[k].a0 \in Handlers \ Registered'
      BY <1>w, <2>1
    <2>4. InPlace(stack[k], i)'
      BY <1>s, <2>1, <2>3, SMTT(30) DEF InPlace
    <2>5. OnChain(stack[k], i)' \/ Gone(k)'
      BY <1>1, <1>s, <2>1, <2>2, <2>3 DEF OnChain, Gone
    <2>6. i \in 0..Len(chains'[stack'[k].irq])
      BY <1>s, <2>1
    <2> QED BY <2>4, <2>5, <2>6
  <1> QED BY <1>4, <1>5, <1>6, <1>7, <1>8, <1>9 DEF IrqInv

(* Steps that replace the innermost frame, push one and pop one: the other *)
(* walks are on their chains.                                              *)
Located(f, i) ==
  /\ InPlace(f, i)
  /\ \/ OnChain(f, i)
     \/ ipl = 7 /\ "remove_self" \in may /\ f.a0 \in Handlers \ Registered

LEMMA WalkOf ==
  ASSUME IrqInv, NEW k \in 1..Len(stack), stack[k].next # "old"
  PROVE  \E i \in 0..Len(chains[stack[k].irq]) :
           Located(stack[k], i) /\ (k # Len(stack) \/ ipl # 7 => OnChain(stack[k], i))
  <1>1. k \in DOMAIN stack
    BY FrameIn DEF IrqInv
  <1>2. PICK i \in 0..Len(chains[stack[k].irq]) :
          InPlace(stack[k], i) /\ (OnChain(stack[k], i) \/ Gone(k))
    BY <1>1 DEF IrqInv, Walking
  <1> QED BY <1>2 DEF Located, Gone

LEMMA TopKeeps ==
  ASSUME IrqInv, stack # <<>>, NEW f \in Frames, f.irq = Top.irq, f.sr = Top.sr,
         stack' = [stack EXCEPT ![Len(stack)] = f],
         UNCHANGED <<heap, chains, count, ipl, open, may>>,
         f.next = "old" => f.due = {},
         f.next # "old" => \E i \in 0..Len(chains[f.irq]) : Located(f, i)
  PROVE  IrqInv'
  <1> DEFINE n == Len(stack)
  <1>f. /\ Len(stack) \in Nat /\ DOMAIN stack = 1..Len(stack) /\ stack \in Seq(Frames)
    BY FrameIn DEF IrqInv
  <1>n. n \in 1..Len(stack)
    BY <1>f
  <1>s. /\ stack' \in Seq(Frames) /\ Len(stack') = n /\ DOMAIN stack' = 1..n
        /\ stack'[n] = f /\ \A k \in 1..n : k # n => stack'[k] = stack[k]
    <2>1. stack' = [k \in 1..Len(stack) |-> IF k = Len(stack) THEN f ELSE stack[k]]
      BY <1>f
    <2>2. \A k \in 1..Len(stack) : stack[k] \in Frames
      BY <1>f
    <2>3. \A k \in 1..Len(stack) : stack'[k] = IF k = Len(stack) THEN f ELSE stack[k]
      BY <2>1
    <2>4. \A k \in 1..Len(stack) : stack'[k] \in Frames
      BY <2>2, <2>3
    <2>5. stack' \in Seq(Frames) /\ Len(stack') = Len(stack) /\ DOMAIN stack' = 1..Len(stack)
      <3>1. stack' \in [1..Len(stack) -> Frames]
        BY <2>1, <2>4
      <3> QED BY <1>f, <3>1
    <2> QED BY <1>n, <2>3, <2>5
  <1>i. \A k \in 1..n : stack'[k].irq = stack[k].irq /\ stack'[k].sr = stack[k].sr
    BY <1>s DEF Top
  <1> HIDE DEF n
  <1>1. TypeOK'
    BY <1>s DEF IrqInv, TypeOK
  <1>2. Chained'
    BY ChainsStay DEF IrqInv
  <1>3. Nested'
    <2>1. "remove_self" \in may =>
            /\ \A k \in 1..n : stack[k].irq <= ipl
            /\ \A j, k \in 1..n : j < k => stack[j].irq < stack[k].irq /\ stack[j].irq <= stack[k].sr
      BY <1>f DEF IrqInv, Nested, n
    <2>2. "remove_self" \in may =>
            /\ \A k \in 1..n : stack'[k].irq <= ipl
            /\ \A j, k \in 1..n : j < k => stack'[j].irq < stack'[k].irq /\ stack'[j].irq <= stack'[k].sr
      BY <1>i, <2>1
    <2> QED BY <1>s, <2>2 DEF Nested
  <1>4. NoneSkipped'
    <2>1. ASSUME NEW k \in 1..n, stack'[k].next = "old" PROVE stack'[k].due = {}
      <3>1. CASE k = n
        BY <1>s, <2>1, <3>1
      <3>2. CASE k # n
        BY <1>f, <1>s, <2>1, <3>2 DEF IrqInv, NoneSkipped, n
      <3> QED BY <3>1, <3>2
    <2> QED BY <1>s, <2>1 DEF NoneSkipped
  <1>5. Walking'
    <2> SUFFICES ASSUME NEW k \in DOMAIN stack', stack'[k].next # "old"
                 PROVE  \E i \in 0..Len(chains'[stack'[k].irq]) :
                          InPlace(stack[k], i)' /\ (OnChain(stack[k], i)' \/ Gone(k)')
      BY DEF Walking
    <2>0. k \in 1..n /\ chains' = chains
      BY <1>s
    <2>1. PICK i \in 0..Len(chains[stack'[k].irq]) :
            /\ InPlace(stack'[k], i)
            /\ OnChain(stack'[k], i) \/ (/\ k = n /\ ipl = 7 /\ "remove_self" \in may
                                         /\ stack'[k].a0 \in Handlers \ Registered)
      <3>1. CASE k = n
        <4>1. stack'[k] = f /\ f.next # "old"
          BY <1>s, <3>1
        <4>2. PICK i \in 0..Len(chains[f.irq]) : Located(f, i)
          BY <4>1
        <4>3. /\ InPlace(f, i)
              /\ OnChain(f, i) \/ (/\ k = n /\ ipl = 7 /\ "remove_self" \in may
                                   /\ f.a0 \in Handlers \ Registered)
          BY <3>1, <4>2 DEF Located
        <4> QED BY <4>1, <4>3
      <3>2. CASE k # n
        <4>1. stack'[k] = stack[k] /\ k \in 1..Len(stack) /\ k # Len(stack)
          BY <1>s, <2>0, <3>2 DEF n
        <4>2. PICK i \in 0..Len(chains[stack[k].irq]) : Located(stack[k], i) /\ OnChain(stack[k], i)
          BY <4>1, WalkOf
        <4>3. InPlace(stack[k], i)
          BY <4>2 DEF Located
        <4> QED BY <4>1, <4>2, <4>3
      <3> QED BY <3>1, <3>2
    <2>2. InPlace(stack[k], i)'
      BY <2>1 DEF InPlace
    <2>3. Registered' = Registered
      BY DEF Registered
    <2>4. OnChain(stack[k], i)' \/ Gone(k)'
      BY <1>s, <2>1, <2>3 DEF OnChain, Gone
    <2> QED BY <2>0, <2>1, <2>2, <2>4
  <1>6. (open <= count)'
    BY DEF IrqInv
  <1> QED BY <1>1, <1>2, <1>3, <1>4, <1>5, <1>6 DEF IrqInv

(* The frames that stay, when the chains stay, are still on them. *)
LEMMA RestKeeps ==
  ASSUME IrqInv, UNCHANGED <<heap, chains>>,
         NEW k \in 1..Len(stack), k # Len(stack) \/ ipl # 7,
         stack'[k] = stack[k], stack[k].next # "old"
  PROVE  \E i \in 0..Len(chains'[stack'[k].irq]) :
           InPlace(stack[k], i)' /\ (OnChain(stack[k], i)' \/ Gone(k)')
  <1>2. PICK i \in 0..Len(chains[stack[k].irq]) : Located(stack[k], i) /\ OnChain(stack[k], i)
    BY WalkOf
  <1>3. InPlace(stack[k], i)' /\ OnChain(stack[k], i)'
    BY <1>2 DEF Located, InPlace, OnChain
  <1> QED BY <1>2, <1>3

LEMMA TopIs ==
  ASSUME IrqInv, stack # <<>>
  PROVE  /\ Len(stack) \in 1..Len(stack) /\ Top = stack[Len(stack)] /\ Top \in Frames
         /\ Top.irq \in Levels /\ Top.a0 \in Handlers \cup {HeadOf(l) : l \in Levels}
         /\ Top.due \in SUBSET Handlers
  <1>1. Len(stack) \in 1..Len(stack)
    BY FrameIn DEF IrqInv
  <1> QED BY <1>1, FrameIn DEF IrqInv, Top

(* What Load finds: the tail, with nobody left, or the next handler. *)
LEMMA LoadFinds ==
  ASSUME IrqInv, stack # <<>>, Top.next = "load"
  PROVE  LET x == heap.next[Top.a0]
             l == Top.irq
         IN  /\ x = TailOf(l) => Top.due = {}
             /\ x # TailOf(l) =>
                  \E i \in 1..Len(chains[l]) :
                    /\ x = chains[l][i] /\ x \in Handlers
                    /\ heap.next[x] = Cell(l, chains[l], i + 1)
                    /\ x = Cell(l, chains[l], i)
                    /\ \A y \in Top.due \ {x} : \E j \in 1..Len(chains[l]) : j > i /\ y = chains[l][j]
  <1> DEFINE x == heap.next[Top.a0]
             l == Top.irq
             s == chains[l]
  <1>1. Len(stack) \in 1..Len(stack) /\ Top = stack[Len(stack)] /\ l \in Levels
    BY TopIs
  <1>2. PICK i \in 0..Len(s) : Located(Top, i)
    BY <1>1, WalkOf
  <1>3. x = Cell(l, s, i + 1) /\ \A y \in Top.due : \E j \in 1..Len(s) : j > i /\ y = s[j]
    BY <1>2 DEF Located, InPlace
  <1>4. s \in Seq(Handlers) /\ Len(s) \in Nat /\ \A j \in 0..Len(s) : heap.next[Cell(l, s, j)] = Cell(l, s, j + 1)
    BY <1>1, GoodFacts DEF IrqInv, Chained
  <1> HIDE DEF x, l, s
  <1>5. CASE i = Len(s)
    <2>1. x = TailOf(l)
      BY <1>1, <1>3, <1>4, <1>5, PositionsAre
    <2>2. Top.due = {}
      <3>1. ASSUME NEW y \in Top.due PROVE FALSE
        BY <1>3, <1>4, <1>5
      <3> QED BY <3>1
    <2> QED BY <2>1, <2>2 DEF x, l
  <1>6. CASE i # Len(s)
    <2> DEFINE p == i + 1
    <2>1. p \in 1..Len(s) /\ p \in 0..Len(s)
      BY <1>4, <1>6
    <2>2. x = s[p] /\ x \in Handlers /\ x = Cell(l, s, p)
      BY <1>1, <1>3, <1>4, <2>1, PositionsAre
    <2>3. x # TailOf(l)
      BY <1>1, <1>4, <2>2, PositionsAre
    <2>4. heap.next[x] = Cell(l, s, p + 1)
      BY <1>4, <2>1, <2>2
    <2>5. ASSUME NEW y \in Top.due \ {x} PROVE \E j \in 1..Len(s) : j > p /\ y = s[j]
      <3>1. PICK j \in 1..Len(s) : j > i /\ y = s[j]
        BY <1>3
      <3>2. j # p
        BY <2>2, <3>1
      <3> QED BY <3>1, <3>2
    <2> HIDE DEF p
    <2> QED BY <2>1, <2>2, <2>3, <2>4, <2>5 DEF x, l, s
  <1> QED BY <1>5, <1>6

LEMMA LoadKeeps ==
  ASSUME IrqInv, Load PROVE IrqInv'
  <1> DEFINE x == heap.next[Top.a0]
             l == Top.irq
             f == IF x = TailOf(l) THEN [Top EXCEPT !.next = "old"]
                  ELSE [Top EXCEPT !.a0 = x, !.next = "handler", !.due = @ \ {x}]
  <1>1. /\ stack # <<>> /\ Top.next = "load" /\ stack' = [stack EXCEPT ![Len(stack)] = f]
        /\ UNCHANGED <<heap, chains, count, ipl, open, may>>
    BY DEF Load, SetTop
  <1>2. Top \in Frames /\ l \in Levels
    BY <1>1, TopIs
  <1>3. CASE x = TailOf(l)
    <2>1. Top.due = {}
      BY <1>1, <1>3, LoadFinds
    <2>2. f = [Top EXCEPT !.next = "old"]
      BY <1>3
    <2>3. f \in Frames /\ f.irq = Top.irq /\ f.sr = Top.sr /\ f.next = "old" /\ f.due = {}
      BY <1>2, <2>1, <2>2 DEF Frames
    <2> HIDE DEF f
    <2> QED BY <1>1, <2>3, TopKeeps
  <1>4. CASE x # TailOf(l)
    <2>1. PICK i \in 1..Len(chains[l]) :
                    /\ x = chains[l][i] /\ x \in Handlers
                    /\ heap.next[x] = Cell(l, chains[l], i + 1)
                    /\ x = Cell(l, chains[l], i)
                    /\ \A y \in Top.due \ {x} : \E j \in 1..Len(chains[l]) : j > i /\ y = chains[l][j]
      BY <1>1, <1>4, LoadFinds
    <2>2. f = [Top EXCEPT !.a0 = x, !.next = "handler", !.due = @ \ {x}]
      BY <1>4
    <2> HIDE DEF x
    <2>3. /\ f \in Frames /\ f.irq = l /\ f.sr = Top.sr /\ f.next = "handler"
          /\ f.a0 = x /\ f.due = Top.due \ {x}
      BY <1>2, <2>1, <2>2 DEF Frames
    <2> HIDE DEF f, l
    <2>4. Located(f, i)
      BY <2>1, <2>3 DEF Located, InPlace, OnChain
    <2>5. \E j \in 0..Len(chains[f.irq]) : Located(f, j)
      BY <2>1, <2>3, <2>4
    <2> QED BY <1>1, <2>3, <2>5, TopKeeps DEF l
  <1> QED BY <1>3, <1>4

LEMMA ReturnKeeps ==
  ASSUME IrqInv, NEW handled \in BOOLEAN, Return(handled) PROVE IrqInv'
  <1> DEFINE f == IF handled THEN [Top EXCEPT !.next = "old", !.due = {}]
                             ELSE [Top EXCEPT !.next = "load"]
  <1>1. /\ stack # <<>> /\ Top.next = "handler" /\ stack' = [stack EXCEPT ![Len(stack)] = f]
        /\ UNCHANGED <<heap, chains, count, ipl, open, may>>
    BY DEF Return, SetTop, InHandler
  <1>2. Top \in Frames /\ Len(stack) \in 1..Len(stack) /\ Top = stack[Len(stack)]
    BY <1>1, TopIs
  <1>3. CASE handled
    <2>1. f = [Top EXCEPT !.next = "old", !.due = {}]
      BY <1>3
    <2>2. f \in Frames /\ f.irq = Top.irq /\ f.sr = Top.sr /\ f.next = "old" /\ f.due = {}
      BY <1>2, <2>1 DEF Frames
    <2> HIDE DEF f
    <2> QED BY <1>1, <2>2, TopKeeps
  <1>4. CASE ~handled
    <2>1. f = [Top EXCEPT !.next = "load"]
      BY <1>4
    <2>2. /\ f \in Frames /\ f.irq = Top.irq /\ f.sr = Top.sr /\ f.next = "load"
          /\ f.a0 = Top.a0 /\ f.due = Top.due
      BY <1>2, <2>1 DEF Frames
    <2> HIDE DEF f
    <2>3. PICK i \in 0..Len(chains[Top.irq]) : Located(Top, i)
      BY <1>1, <1>2, WalkOf
    <2>4. Located(f, i) /\ i \in 0..Len(chains[f.irq])
      BY <2>2, <2>3 DEF Located, InPlace, OnChain
    <2>5. \E j \in 0..Len(chains[f.irq]) : Located(f, j)
      BY <2>4
    <2> QED BY <1>1, <2>2, <2>5, TopKeeps
  <1> QED BY <1>3, <1>4

(* An interrupt that comes finds every walk on its chain: the one whose    *)
(* handler has gone runs with interrupts masked.                           *)
LEMMA IrqKeeps ==
  ASSUME IrqInv, NEW l \in Levels, irq(l) PROVE IrqInv'
  <1> DEFINE n == Len(stack)
             f == [irq |-> l, a0 |-> HeadOf(l), next |-> "load", sr |-> ipl, due |-> ToSet(chains[l])]
             s == chains[l]
  <1>1. /\ l > ipl /\ ipl' = l /\ stack' = Append(stack, f)
        /\ UNCHANGED <<heap, chains, count, open, may>>
    BY DEF irq
  <1>f. /\ n \in Nat /\ DOMAIN stack = 1..n /\ stack \in Seq(Frames) /\ ipl \in 0..7
        /\ \A k \in 1..n : stack[k] \in Frames /\ stack[k].irq \in 1..6
        /\ l \in 1..6 /\ ipl # 7
    <2>1. n \in Nat /\ DOMAIN stack = 1..n /\ stack \in Seq(Frames)
          /\ \A k \in 1..n : stack[k] \in Frames /\ stack[k].irq \in 1..6
      BY FrameIn DEF IrqInv
    <2>2. ipl \in 0..7 /\ l \in 1..6
      BY Params DEF IrqInv, TypeOK
    <2> QED BY <1>1, <2>1, <2>2
  <1>q. /\ s \in Seq(Handlers) /\ Len(s) \in Nat /\ 0 \in 0..Len(s)
        /\ heap.next[Cell(l, s, 0)] = Cell(l, s, 0 + 1) /\ Cell(l, s, 0) = HeadOf(l)
    <2>1. s \in Seq(Handlers) /\ Len(s) \in Nat
      BY GoodFacts DEF IrqInv, Chained
    <2>2. 0 \in 0..Len(s)
      BY <2>1
    <2>3. heap.next[Cell(l, s, 0)] = Cell(l, s, 0 + 1)
      BY <2>2, GoodFacts DEF IrqInv, Chained
    <2> QED BY <2>1, <2>2, <2>3, PositionsAre
  <1>d. \A x : x \in ToSet(s) <=> \E j \in 1..Len(s) : x = s[j]
    BY <1>q, Positions
  <1>2. /\ f \in Frames /\ f.irq = l /\ f.a0 = HeadOf(l) /\ f.next = "load" /\ f.sr = ipl
        /\ f.due = ToSet(s)
    <2>1. ToSet(s) \subseteq Handlers
      BY <1>q, <1>d
    <2> QED BY <1>f, <2>1 DEF Frames
  <1> HIDE DEF f, s
  <1>s. /\ stack' \in Seq(Frames) /\ Len(stack') = n + 1 /\ DOMAIN stack' = 1..(n + 1)
        /\ stack'[n + 1] = f /\ \A k \in 1..n : stack'[k] = stack[k]
    BY <1>1, <1>f, <1>2
  <1> HIDE DEF n
  <1>3. TypeOK'
    BY <1>1, <1>s, <1>f DEF IrqInv, TypeOK
  <1>4. Chained'
    BY <1>1, ChainsStay DEF IrqInv
  <1>5. Nested'
    <2>1. "remove_self" \in may =>
            /\ \A k \in 1..n : stack[k].irq <= ipl
            /\ \A j, k \in 1..n : j < k => stack[j].irq < stack[k].irq /\ stack[j].irq <= stack[k].sr
      BY <1>f DEF IrqInv, Nested
    <2>2. ASSUME "remove_self" \in may, NEW k \in 1..(n + 1) PROVE stack'[k].irq <= ipl'
      <3>1. CASE k = n + 1
        BY <1>1, <1>2, <1>f, <1>s, <3>1
      <3>2. CASE k # n + 1
        BY <1>1, <1>f, <1>s, <2>1, <2>2, <3>2
      <3> QED BY <3>1, <3>2
    <2>3. ASSUME "remove_self" \in may, NEW j \in 1..(n + 1), NEW k \in 1..(n + 1), j < k
          PROVE  stack'[j].irq < stack'[k].irq /\ stack'[j].irq <= stack'[k].sr
      <3>1. j \in 1..n /\ stack'[j] = stack[j]
        BY <1>f, <1>s, <2>3
      <3>2. CASE k = n + 1
        <4>1. stack'[k].irq = l /\ stack'[k].sr = ipl /\ stack[j].irq <= ipl
          BY <1>2, <1>s, <2>1, <2>3, <3>1, <3>2
        <4> QED BY <1>1, <1>f, <3>1, <4>1, SMTT(30)
      <3>3. CASE k # n + 1
        <4>1. k \in 1..n /\ stack'[k] = stack[k]
          BY <1>f, <1>s, <3>3
        <4> QED BY <2>1, <2>3, <3>1, <4>1
      <3> QED BY <3>2, <3>3
    <2> QED BY <1>1, <1>s, <2>2, <2>3 DEF Nested
  <1>6. NoneSkipped'
    <2>1. ASSUME NEW k \in 1..(n + 1), stack'[k].next = "old" PROVE stack'[k].due = {}
      <3>1. k # n + 1
        BY <1>2, <1>s, <2>1
      <3>2. k \in 1..n /\ stack'[k] = stack[k]
        BY <1>f, <1>s, <3>1
      <3> QED BY <1>f, <2>1, <3>2 DEF IrqInv, NoneSkipped
    <2> QED BY <1>s, <2>1 DEF NoneSkipped
  <1>7. Walking'
    <2> SUFFICES ASSUME NEW k \in DOMAIN stack', stack'[k].next # "old"
                 PROVE  \E i \in 0..Len(chains'[stack'[k].irq]) :
                          InPlace(stack[k], i)' /\ (OnChain(stack[k], i)' \/ Gone(k)')
      BY DEF Walking
    <2>1. CASE k = n + 1
      <3>1. stack'[k] = f /\ chains'[l] = s /\ heap' = heap
        BY <1>1, <1>s, <2>1 DEF s
      <3>2. InPlace(stack[k], 0)'
        <4>1. \A x \in f.due : \E j \in 1..Len(s) : j > 0 /\ x = s[j]
          BY <1>2, <1>d, <1>q
        <4> QED BY <1>2, <1>q, <3>1, <4>1 DEF InPlace
      <3>3. OnChain(stack[k], 0)'
        BY <1>2, <1>q, <3>1 DEF OnChain
      <3>4. 0 \in 0..Len(chains'[stack'[k].irq])
        BY <1>2, <1>q, <3>1
      <3> QED BY <3>2, <3>3, <3>4
    <2>2. CASE k # n + 1
      <3>1. k \in 1..Len(stack) /\ stack'[k] = stack[k]
        BY <1>f, <1>s, <2>2 DEF n
      <3> QED BY <1>1, <1>f, <3>1, RestKeeps
    <2> QED BY <2>1, <2>2
  <1>8. (open <= count)'
    BY <1>1 DEF IrqInv
  <1> QED BY <1>3, <1>4, <1>5, <1>6, <1>7, <1>8 DEF IrqInv

LEMMA RteKeeps ==
  ASSUME IrqInv, Rte PROVE IrqInv'
  <1> DEFINE n == Len(stack)
  <1>1. /\ stack # <<>> /\ ipl' = stack[n].sr /\ stack' = Front(stack)
        /\ UNCHANGED <<heap, chains, count, open, may>>
    BY DEF Rte, Top
  <1>f. /\ n \in Nat /\ DOMAIN stack = 1..n /\ stack \in Seq(Frames) /\ n \in 1..n
        /\ \A k \in 1..n : stack[k].sr \in 0..7 /\ stack[k].irq \in 1..6
    <2>1. n \in 1..n
      BY <1>1, TopIs
    <2> QED BY <2>1, FrameIn DEF IrqInv
  <1>s. /\ stack' \in Seq(Frames) /\ Len(stack') = n - 1 /\ DOMAIN stack' = 1..(n - 1)
        /\ \A k \in 1..(n - 1) : k \in 1..n /\ k # n /\ k < n /\ stack'[k] = stack[k]
    <2>1. stack' = SubSeq(stack, 1, n - 1)
      BY <1>1 DEF Front
    <2> HIDE DEF n
    <2>2. n - 1 \in 0..n /\ n = Len(stack)
      BY <1>f DEF n
    <2>3. stack' \in Seq(Frames) /\ Len(stack') = n - 1 /\ DOMAIN stack' = 1..(n - 1)
      BY <1>f, <2>1, <2>2
    <2>4. \A k \in 1..(n - 1) : stack'[k] = stack[k]
      BY <1>f, <2>1, <2>2
    <2> QED BY <1>f, <2>3, <2>4
  <1> HIDE DEF n
  <1>3. TypeOK'
    BY <1>1, <1>s, <1>f DEF IrqInv, TypeOK
  <1>4. Chained'
    BY <1>1, ChainsStay DEF IrqInv
  <1>5. Nested'
    <2>1. "remove_self" \in may =>
            \A j, k \in 1..n : j < k => stack[j].irq < stack[k].irq /\ stack[j].irq <= stack[k].sr
      BY <1>f DEF IrqInv, Nested
    <2>2. "remove_self" \in may => \A k \in 1..(n - 1) : stack'[k].irq <= ipl'
      BY <1>1, <1>f, <1>s, <2>1
    <2>3. "remove_self" \in may =>
            \A j, k \in 1..(n - 1) : j < k => /\ stack'[j].irq < stack'[k].irq
                                              /\ stack'[j].irq <= stack'[k].sr
      BY <1>s, <2>1
    <2> QED BY <1>1, <1>s, <2>2, <2>3 DEF Nested
  <1>6. NoneSkipped'
    BY <1>f, <1>s DEF IrqInv, NoneSkipped
  <1>7. Walking'
    <2> SUFFICES ASSUME NEW k \in DOMAIN stack', stack'[k].next # "old"
                 PROVE  \E i \in 0..Len(chains'[stack'[k].irq]) :
                          InPlace(stack[k], i)' /\ (OnChain(stack[k], i)' \/ Gone(k)')
      BY DEF Walking
    <2>1. k \in 1..Len(stack) /\ k # Len(stack) /\ stack'[k] = stack[k]
      BY <1>s DEF n
    <2> QED BY <1>1, <2>1, RestKeeps
  <1>8. (open <= count)'
    BY <1>1 DEF IrqInv
  <1> QED BY <1>3, <1>4, <1>5, <1>6, <1>7, <1>8 DEF IrqInv

(* disable_interrupts and enable_interrupts of the program. *)
LEMMA MaskKeeps ==
  ASSUME IrqInv, TaskDisable \/ TaskEnable PROVE IrqInv'
  <1>1. /\ stack = <<>> /\ UNCHANGED <<heap, chains, stack, may>>
    BY DEF TaskDisable, TaskEnable
  <1>t. /\ count \in 0..MaxCount /\ open \in 0..MaxCount /\ open <= count /\ ipl \in 0..7
        /\ MaxCount \in Nat
    BY Params DEF IrqInv, TypeOK
  <1>2. count' \in 0..MaxCount /\ open' \in 0..MaxCount /\ open' <= count' /\ ipl' \in 0..7
    <2>1. CASE TaskDisable
      BY <1>t, <2>1 DEF TaskDisable, Disable
    <2>2. CASE TaskEnable
      BY <1>t, <2>2 DEF TaskEnable, Enable
    <2> QED BY <2>1, <2>2
  <1>3. TypeOK'
    BY <1>1, <1>2 DEF IrqInv, TypeOK
  <1>4. Chained'
    BY <1>1, ChainsStay DEF IrqInv
  <1>5. DOMAIN stack' = {}
    BY <1>1
  <1>6. Walking' /\ Nested' /\ NoneSkipped'
    BY <1>5 DEF Walking, Nested, NoneSkipped
  <1> QED BY <1>2, <1>3, <1>4, <1>6 DEF IrqInv

-----------------------------------------------------------------------------
LEMMA IrqInit ==
  ASSUME Init PROVE IrqInv
  <1>1. /\ count = 0 /\ ipl = 0 /\ open = 0 /\ stack = <<>> /\ may \in Kinds
    BY DEF Init
  <1>2. Chained
    BY ChainsInit
  <1>3. TypeOK
    <2>1. /\ heap \in [next : [Cells(Handlers, Levels) -> Cells(Handlers, Levels) \cup {Null}],
                       prev : [Cells(Handlers, Levels) -> Cells(Handlers, Levels) \cup {Null}]]
          /\ \A l \in Levels : chains[l] \in Seq(Handlers)
      BY <1>2, GoodFacts DEF Chained
    <2>2. 0 \in 0..MaxCount /\ stack \in Seq(Frames)
      BY <1>1, Params
    <2> QED BY <1>1, <2>1, <2>2 DEF TypeOK
  <1>4. DOMAIN stack = {}
    BY <1>1
  <1>5. Walking /\ Nested /\ NoneSkipped
    BY <1>4 DEF Walking, Nested, NoneSkipped
  <1> QED BY <1>1, <1>2, <1>3, <1>5 DEF IrqInv

LEMMA IrqNext ==
  ASSUME Polite, IrqInv, [Next]_vars PROVE IrqInv'
  <1>1. ASSUME NEW h \in Handlers, NEW l \in Levels, TaskRegister(h, l) PROVE IrqInv'
    BY <1>1, RegisterKeeps DEF TaskRegister
  <1>2. ASSUME NEW h \in Handlers, TaskRemove(h) PROVE IrqInv'
    BY <1>2, RemoveKeeps DEF TaskRemove
  <1>3. ASSUME TaskDisable \/ TaskEnable PROVE IrqInv'
    BY <1>3, MaskKeeps
  <1>4. ASSUME NEW l \in Levels, irq(l) PROVE IrqInv'
    BY <1>4, IrqKeeps
  <1>5. ASSUME Dispatch PROVE IrqInv'
    BY <1>5, LoadKeeps, ReturnKeeps, RteKeeps DEF Dispatch
  <1>6. ASSUME NEW h \in Handlers, NEW l \in Levels, HandlerRegister(h, l) PROVE IrqInv'
    <2>1. irq_register(h, l) /\ "register" \in may
      BY <1>6 DEF HandlerRegister
    <2> QED BY <2>1, RegisterKeeps
  <1>7. ASSUME NEW h \in Handlers, HandlerRemove(h) PROVE IrqInv'
    <2>1. "remove_other" \notin may
      BY DEF Polite, IrqInv, TypeOK
    <2>2. irq_remove(h) /\ InHandler /\ h = Top.a0 /\ "remove_self" \in may
      BY <1>7, <2>1 DEF HandlerRemove
    <2> QED BY <2>2, RemoveKeeps
  <1>8. ASSUME UNCHANGED vars PROVE IrqInv'
    <2>1. UNCHANGED <<heap, chains, count, ipl, stack, open, may>>
      BY <1>8 DEF vars
    <2>2. Chained'
      BY <2>1, ChainsStay DEF IrqInv
    <2>3. TypeOK' /\ Nested' /\ NoneSkipped' /\ (open <= count)'
      BY <2>1 DEF IrqInv, TypeOK, Nested, NoneSkipped
    <2>4. Walking'
      BY <2>1 DEF IrqInv, Walking, InPlace, OnChain, Gone, Registered
    <2> QED BY <2>2, <2>3, <2>4 DEF IrqInv
  <1> QED BY <1>1, <1>2, <1>3, <1>4, <1>5, <1>6, <1>7, <1>8 DEF Next, Program

(* Only Load calls a handler, and it calls one of the chain. *)
LEMMA CallStep ==
  ASSUME IrqInv, Next, NEW k \in DOMAIN stack \cap DOMAIN stack',
         stack[k].next = "load", stack'[k].next = "handler"
  PROVE  stack'[k].a0 \in ToSet(chains[stack[k].irq])
  <1>f. /\ Len(stack) \in Nat /\ DOMAIN stack = 1..Len(stack) /\ stack \in Seq(Frames)
        /\ \A j \in 1..Len(stack) : stack[j] \in Frames /\ stack[j].irq \in Levels
    BY FrameIn DEF IrqInv
  <1>k. k \in 1..Len(stack) /\ stack # <<>>
    BY <1>f
  <1>1. CASE UNCHANGED stack
    BY <1>1
  <1>2. ASSUME NEW h, irq_remove(h) PROVE FALSE
    <2>1. stack' = [j \in DOMAIN stack |-> [stack[j] EXCEPT !.due = @ \ {h}]]
      BY <1>2 DEF irq_remove
    <2>2. stack'[k] = [stack[k] EXCEPT !.due = @ \ {h}]
      BY <2>1
    <2>3. stack'[k].next = stack[k].next
      BY <1>f, <1>k, <2>2 DEF Frames
    <2> QED BY <2>3
  <1>3. ASSUME NEW f, stack' = Append(stack, f) PROVE FALSE
    <2>1. stack'[k] = stack[k]
      BY <1>f, <1>k, <1>3
    <2> QED BY <2>1
  <1>4. ASSUME Rte PROVE FALSE
    <2>1. stack' = SubSeq(stack, 1, Len(stack) - 1) /\ Len(stack) - 1 \in 0..Len(stack)
      BY <1>f, <1>k, <1>4 DEF Rte, Front
    <2>2. DOMAIN stack' = 1..(Len(stack) - 1)
      BY <1>f, <2>1
    <2>3. k \in 1..(Len(stack) - 1)
      BY <2>2
    <2>4. stack'[k] = stack[k]
      BY <1>f, <2>1, <2>3
    <2> QED BY <2>4
  <1>5. ASSUME NEW f, stack' = [stack EXCEPT ![Len(stack)] = f], f.next = "handler" => Top.next = "load"
        PROVE  k = Len(stack) /\ Top.next = "load" /\ stack'[k] = f
    <2>1. k = Len(stack)
      <3> SUFFICES ASSUME k # Len(stack) PROVE FALSE
        OBVIOUS
      <3>1. stack'[k] = stack[k]
        BY <1>f, <1>k, <1>5
      <3> QED BY <3>1
    <2>2. stack'[k] = f
      BY <1>f, <1>k, <1>5, <2>1
    <2> QED BY <1>5, <2>1, <2>2
  <1>6. ASSUME NEW handled \in BOOLEAN, Return(handled) PROVE FALSE
    <2> DEFINE f == IF handled THEN [Top EXCEPT !.next = "old", !.due = {}]
                               ELSE [Top EXCEPT !.next = "load"]
    <2>1. stack' = [stack EXCEPT ![Len(stack)] = f]
      BY <1>6 DEF Return, SetTop
    <2>2. Top \in Frames
      BY <1>k, TopIs
    <2>3. f.next # "handler"
      BY <2>2 DEF Frames
    <2> HIDE DEF f
    <2>4. stack'[k] = f
      BY <1>5, <2>1, <2>3
    <2> QED BY <2>3, <2>4
  <1>7. ASSUME Load PROVE stack'[k].a0 \in ToSet(chains[stack[k].irq])
    <2> DEFINE x == heap.next[Top.a0]
               l == Top.irq
               f == IF x = TailOf(l) THEN [Top EXCEPT !.next = "old"]
                    ELSE [Top EXCEPT !.a0 = x, !.next = "handler", !.due = @ \ {x}]
    <2>1. stack' = [stack EXCEPT ![Len(stack)] = f] /\ Top.next = "load"
      BY <1>7 DEF Load, SetTop
    <2>2. Top \in Frames /\ Top = stack[Len(stack)] /\ l \in Levels
      BY <1>k, TopIs
    <2>3. k = Len(stack) /\ stack'[k] = f
      <3> HIDE DEF f
      <3> QED BY <1>5, <2>1
    <2>4. x # TailOf(l)
      <3> SUFFICES ASSUME x = TailOf(l) PROVE FALSE
        OBVIOUS
      <3>1. f = [Top EXCEPT !.next = "old"]
        OBVIOUS
      <3>2. f.next = "old"
        BY <2>2, <3>1 DEF Frames
      <3> QED BY <2>3, <3>2
    <2>5. f = [Top EXCEPT !.a0 = x, !.next = "handler", !.due = @ \ {x}]
      BY <2>4
    <2>6. f.a0 = x
      BY <2>2, <2>5 DEF Frames
    <2>7. \E i \in 1..Len(chains[l]) : x = chains[l][i]
      BY <1>k, <2>1, <2>4, LoadFinds
    <2>8. chains[l] \in Seq(Handlers)
      BY <2>2, GoodFacts DEF IrqInv, Chained
    <2>9. x \in ToSet(chains[l])
      BY <2>7, <2>8, Positions
    <2> QED BY <2>2, <2>3, <2>6, <2>9
  <1>8. \/ UNCHANGED stack
        \/ \E h \in Handlers : irq_remove(h)
        \/ \E f : stack' = Append(stack, f)
        \/ Load \/ Rte \/ \E handled \in BOOLEAN : Return(handled)
    BY DEF Next, Program, Dispatch, TaskRegister, TaskRemove, TaskDisable, TaskEnable,
           HandlerRegister, HandlerRemove, irq_register, irq
  <1> QED BY <1>1, <1>2, <1>3, <1>4, <1>6, <1>7, <1>8

(* Whatever the nesting of interrupts, the walk stays on the links: its    *)
(* node is a handler or the head of a level's list, never the tail or      *)
(* NULL (run_handler_chain).                                               *)
THEOREM IrqTypes ==
  ASSUME Polite
  PROVE  Spec => []TypeOK
  <1>1. Init => IrqInv
    BY IrqInit
  <1>2. IrqInv /\ [Next]_vars => IrqInv'
    BY IrqNext
  <1>3. IrqInv => TypeOK
    BY DEF IrqInv
  <1> QED BY <1>1, <1>2, <1>3, PTL DEF Spec

(* run_handler_chain offers an interrupt that nobody claims to every       *)
(* handler that was on the chain when it came and still is, although       *)
(* handlers remove themselves, or register others, during the walk.        *)
THEOREM EveryHandlerAsked ==
  ASSUME Polite
  PROVE  Spec => []NoneSkipped
  <1>1. Init => IrqInv
    BY IrqInit
  <1>2. IrqInv /\ [Next]_vars => IrqInv'
    BY IrqNext
  <1>3. IrqInv => NoneSkipped
    BY DEF IrqInv
  <1> QED BY <1>1, <1>2, <1>3, PTL DEF Spec

(* run_handler_chain calls a handler only while it is registered on the    *)
(* level that interrupted, even when it got there through the link of a    *)
(* node that list_node_delete had taken off the chain.                     *)
THEOREM OnlyRegisteredCalled ==
  ASSUME Polite
  PROVE  Spec => CallsRegistered
  <1>1. Init => IrqInv
    BY IrqInit
  <1>2. IrqInv /\ [Next]_vars => IrqInv'
    BY IrqNext
  <1>3. IrqInv /\ [Next]_vars =>
          [\A k \in DOMAIN stack \cap DOMAIN stack' :
             stack[k].next = "load" /\ stack'[k].next = "handler"
               => stack'[k].a0 \in ToSet(chains[stack[k].irq])]_vars
    BY CallStep
  <1> QED BY <1>1, <1>2, <1>3, PTL DEF Spec, CallsRegistered
=============================================================================
