--------------------------------- MODULE Pmm ---------------------------------
(***************************************************************************)
(* The physical memory manager of the ROM kernel (kernel/pmm.c): free      *)
(* blocks on two lists, one kept in address order so that neighbours can   *)
(* be merged, one meant to be kept in size order.                          *)
(*                                                                         *)
(* Both calls run with interrupts masked and leave the interrupt state as  *)
(* Bracketed of Kmachine does, so no two calls interleave.  pmm_free is    *)
(* still one action per pass of its coalescing loop: while a call is in    *)
(* progress ("freeing" is not NoFrame) its own next pass is the only step  *)
(* there is.                                                               *)
(***************************************************************************)
EXTENDS Integers, Sequences, SequencesExt, FiniteSets, FiniteSetsExt

CONSTANTS
  Unit,       \* PMM_MIN_SIZE
  MaxUint,    \* the largest uintptr_t
  Regions,    \* the blocks of RAM that start-up hands to pmm_free
  Requests,   \* the sizes callers ask for
  NoFrame     \* freeing, when no pmm_free is in progress

Bytes(b) == b.addr .. (b.addr + b.size - 1)
RAM == UNION {Bytes(r) : r \in Regions}
Boundaries == {a \in RAM : a % Unit = 0}

ASSUME UnitAssumption == Unit \in Nat \ {0} /\ MaxUint \in Nat /\ ((MaxUint + 1) % Unit) = 0
ASSUME RequestsAssumption == Requests \subseteq 0..MaxUint
ASSUME RegionsAssumption ==
  /\ Regions \subseteq [addr : Nat, size : Nat]
  /\ \A r \in Regions : /\ r.addr \in Nat \ {0} /\ r.addr % Unit = 0
                        /\ r.size \in Nat \ {0} /\ r.size % Unit = 0
                        /\ r.addr + r.size <= MaxUint
  /\ \A r, s \in Regions : r # s => Bytes(r) \cap Bytes(s) = {}
ASSUME NoFrameAssumption == NoFrame \notin [addr : Nat, size : Nat]

VARIABLES
  addr_list,  \* pmm_addr_list, as the addresses of its blocks
  size_list,  \* pmm_size_list, likewise (its nodes are one ListNode further)
  node,       \* the size field stored in the two nodes of a free block
  freeing,    \* the locals addr and size of the pmm_free in progress
  held,       \* the blocks callers hold, with the size they asked for
  null        \* whether the last pmm_alloc returned NULL

vars == <<addr_list, size_list, node, freeing, held, null>>

(* The start of both calls: round up to whole units, in 32-bit arithmetic. *)
(* (Mutant: a size that is not a multiple is rounded down.)                *)
RoundUp_Down(n) == n - (n % Unit)
RoundUp(n) == IF n % Unit = 0 THEN n
              ELSE ((n - (n % Unit)) + Unit) % (MaxUint + 1)

Init ==
  /\ addr_list = <<>>
  /\ size_list = <<>>
  /\ node = [a \in Boundaries |-> 0]
  /\ freeing = NoFrame
  /\ held = Regions
  /\ null = FALSE

-----------------------------------------------------------------------------
(* The first entry of a list that satisfies a test, or 0. *)
FirstIndex(s, Test(_)) ==
  LET hits == {i \in DOMAIN s : Test(s[i])}
  IN  IF hits = {} THEN 0 ELSE Min(hits)

(* list_node_insert_after(current->prev, x), or list_add_tail when the     *)
(* loop ran off the end.                                                   *)
InsertBefore(s, i, x) == IF i = 0 THEN Append(s, x) ELSE InsertAt(s, i, x)

(* Unlink a block from both lists. *)
Unlink(c) ==
  /\ addr_list' = RemoveFirst(addr_list, c)
  /\ size_list' = RemoveFirst(size_list, c)

(* pmm_free up to its loop: the two nodes are set up within the block. *)
StartFree(addr, size) ==
  /\ freeing' = [addr |-> addr, size |-> RoundUp(size)]
  /\ node' = [node EXCEPT ![addr] = RoundUp(size)]

pmm_free(b) ==
  /\ freeing = NoFrame /\ b \in held
  /\ held' = held \ {b}
  /\ StartFree(b.addr, b.size)
  /\ UNCHANGED <<addr_list, size_list, null>>

(* The three tests of the loop, in the order in which they are made.       *)
(* (Mutant: the size of the wrong block is added.)                         *)
Higher_WrongSize(c) == c = freeing.addr + node[c]
Higher(c) == c = freeing.addr + freeing.size
Lower(c)  == c = freeing.addr - node[c]
Past(c)   == c > freeing.addr
Stop(c) == Higher(c) \/ Lower(c) \/ Past(c)
Found == FirstIndex(addr_list, Stop)

(* One pass that merges the block above.  The nodes get the new size, the  *)
(* local variable size does not.  (Mutant: the merged block is not taken   *)
(* off the lists, and is found again.)                                     *)
CoalesceHigher_NoDelete ==
  /\ freeing # NoFrame /\ Found # 0
  /\ LET c == addr_list[Found]
     IN  /\ Higher(c)
         /\ node' = [node EXCEPT ![freeing.addr] = freeing.size + node[c]]
  /\ UNCHANGED <<addr_list, size_list, freeing, held, null>>
CoalesceHigher ==
  /\ freeing # NoFrame /\ Found # 0
  /\ LET c == addr_list[Found]
     IN  /\ Higher(c)
         /\ Unlink(c)
         /\ node' = [node EXCEPT ![freeing.addr] = @ + node[c]]
  /\ UNCHANGED <<freeing, held, null>>

(* One pass that merges the block below, which becomes the block to free.  *)
(* (Mutant: the block below stays on its lists.)                           *)
CoalesceLower_NoDelete ==
  /\ freeing # NoFrame /\ Found # 0
  /\ LET c == addr_list[Found]
         total == freeing.size + node[c]
     IN  /\ ~Higher(c) /\ Lower(c)
         /\ freeing' = [addr |-> c, size |-> total]
         /\ node' = [node EXCEPT ![c] = total]
  /\ UNCHANGED <<addr_list, size_list, held, null>>
CoalesceLower ==
  /\ freeing # NoFrame /\ Found # 0
  /\ LET c == addr_list[Found]
         total == freeing.size + node[c]
     IN  /\ ~Higher(c) /\ Lower(c)
         /\ Unlink(c)
         /\ freeing' = [addr |-> c, size |-> total]
         /\ node' = [node EXCEPT ![c] = total]
  /\ UNCHANGED <<held, null>>

(* The pass that finds nothing to merge: the block goes before the first   *)
(* one of a higher address, and before the first one whose size exceeds    *)
(* the local variable size.                                                *)
(* (Mutant: the block is inserted in the address list after the entry      *)
(* found.)                                                                 *)
FinishFree_After ==
  /\ freeing # NoFrame
  /\ Found # 0 => ~Higher(addr_list[Found]) /\ ~Lower(addr_list[Found])
  /\ addr_list' = IF Found = 0 \/ Found = Len(addr_list)
                  THEN Append(addr_list, freeing.addr)
                  ELSE InsertAt(addr_list, Found + 1, freeing.addr)
  /\ LET Bigger(c) == node[c] > freeing.size
     IN  size_list' = InsertBefore(size_list, FirstIndex(size_list, Bigger),
                                   freeing.addr)
  /\ freeing' = NoFrame
  /\ UNCHANGED <<node, held, null>>
FinishFree ==
  /\ freeing # NoFrame
  /\ Found # 0 => ~Higher(addr_list[Found]) /\ ~Lower(addr_list[Found])
  /\ addr_list' = InsertBefore(addr_list, Found, freeing.addr)
  /\ LET Bigger(c) == node[c] > freeing.size
     IN  size_list' = InsertBefore(size_list, FirstIndex(size_list, Bigger),
                                   freeing.addr)
  /\ freeing' = NoFrame
  /\ UNCHANGED <<node, held, null>>

-----------------------------------------------------------------------------
(* pmm_alloc takes the first block of the size list that is large enough;  *)
(* what it does not need goes back through pmm_free before it returns.     *)
(* (Mutant: the block is split at the size before rounding.)               *)
Fit(n) ==
  LET Large(c) == node[c] >= RoundUp(n)
  IN  FirstIndex(size_list, Large)

pmm_alloc_SplitUnrounded(n) ==
  /\ freeing = NoFrame /\ Fit(n) # 0
  /\ LET c == size_list[Fit(n)]
     IN  /\ Unlink(c)
         /\ null' = FALSE
         /\ held' = held \cup {[addr |-> c, size |-> n]}
         /\ IF node[c] > n THEN StartFree(c + n, node[c] - n)
                           ELSE UNCHANGED <<freeing, node>>
pmm_alloc(n) ==
  /\ freeing = NoFrame
  /\ IF Fit(n) = 0
     THEN /\ null' = TRUE
          /\ UNCHANGED <<addr_list, size_list, node, freeing, held>>
     ELSE LET c == size_list[Fit(n)]
          IN  /\ Unlink(c)
              /\ null' = FALSE
              /\ held' = held \cup {[addr |-> c, size |-> n]}
              /\ IF node[c] > RoundUp(n)
                 THEN StartFree(c + RoundUp(n), node[c] - RoundUp(n))
                 ELSE UNCHANGED <<freeing, node>>

FreePass == CoalesceHigher \/ CoalesceLower \/ FinishFree

Next ==
  \/ \E b \in held : pmm_free(b)
  \/ \E n \in Requests : pmm_alloc(n)
  \/ FreePass

Spec == Init /\ [][Next]_vars

(* The processor does not stop in the middle of pmm_free. *)
FairSpec == Spec /\ WF_vars(FreePass)

-----------------------------------------------------------------------------
(* Properties. *)

FreeBlock(a) == [addr |-> a, size |-> node[a]]
FreeBlocks == {FreeBlock(a) : a \in ToSet(addr_list)}
InFlight == IF freeing = NoFrame THEN {} ELSE {FreeBlock(freeing.addr)}

(* The bytes a caller that asked for b.size bytes may use: whole units. *)
Owned(b) == b.addr .. (b.addr + Unit * ((b.size + Unit - 1) \div Unit) - 1)

TypeOK ==
  /\ addr_list \in Seq(Boundaries)
  /\ size_list \in Seq(Boundaries)
  /\ node \in [Boundaries -> 0..MaxUint]
  /\ freeing \in [addr : Boundaries, size : 0..MaxUint] \cup {NoFrame}
  /\ held \subseteq [addr : Boundaries, size : 0..MaxUint]
  /\ null \in BOOLEAN

(* pmm.c: "it manages free memory as two sorted lists, one by address":    *)
(* the address list ascends strictly, which is what lets one pass find     *)
(* both neighbours of a block and the place where it goes, and both lists  *)
(* hold the same blocks, each once, and not the one that is being freed:   *)
(* the pmm unlinks a block from both by its address alone.                 *)
ListsAgree ==
  /\ TypeOK
  /\ \A i, j \in DOMAIN addr_list : i < j => addr_list[i] < addr_list[j]
  /\ IsInjective(size_list)
  /\ ToSet(addr_list) = ToSet(size_list)
  /\ freeing # NoFrame => freeing.addr \notin ToSet(addr_list)

(* Every byte of RAM belongs to exactly one free block or one caller: no   *)
(* sequence of splits and merges leaks memory or hands it out twice.       *)
Partition ==
  \A x \in RAM :
    Cardinality({b \in FreeBlocks \cup InFlight : x \in Bytes(b)})
      + Cardinality({b \in held : x \in Owned(b)}) = 1

(* Between calls no two free blocks are neighbours: one multi-pass merge   *)
(* leaves nothing to merge.                                                *)
Coalesced ==
  freeing = NoFrame =>
    \A a \in ToSet(addr_list) : a + node[a] \notin ToSet(addr_list)

(* pmm.c: "The memory blocks, ordered by size (ascending)". *)
SizeSorted ==
  freeing = NoFrame =>
    \A i, j \in DOMAIN size_list : i < j => node[size_list[i]] <= node[size_list[j]]

(* pmm_free returns: its coalescing loop, "while (1)", always reaches a    *)
(* pass that merges nothing.                                               *)
FreeReturns == freeing # NoFrame ~> freeing = NoFrame

(* The promise made to callers (PmmAbs): the free bytes are those of the   *)
(* listed blocks and of the block being freed.                             *)
FreeBytes == UNION {Bytes(b) : b \in FreeBlocks \cup InFlight}
Abs == INSTANCE PmmAbs WITH free <- FreeBytes
ImplementsAbs == Abs!Spec
=============================================================================
