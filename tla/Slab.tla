--------------------------------- MODULE Slab ---------------------------------
(***************************************************************************)
(* The slab allocator (kernel/slab.asm): system objects of n 32-byte       *)
(* blocks, out of 1KiB slabs that come from the physical memory manager.   *)
(*                                                                         *)
(* The last block of a slab holds its metadata: the list node that links   *)
(* it into partial_slabs or full_slabs, and the bitmap of its blocks.      *)
(* Both calls run from disable_interrupts to enable_interrupts, so each is *)
(* one action.  The physical memory manager (module Pmm) is the set of     *)
(* pages it could hand out: pmm_alloc(SLAB_SIZE) returns one of them, and  *)
(* NULL when there is none.  Lists are sequences (module List).            *)
(***************************************************************************)
EXTENDS Naturals, Sequences, SequencesExt, Bitmap

CONSTANTS
  Pages,     \* the 1KiB pages of the machine
  Requests   \* block counts the callers ask for

ASSUME RequestsAssumption == Requests \subseteq Nat

VARIABLES
  partial_slabs, full_slabs,
  bitmap,    \* the bitmap in the metadata block of each page
  pool,      \* the pages the physical memory manager has
  held,      \* what the callers hold: [page, first, n]
  failed     \* the block count of the last call, if it returned NULL

vars == <<partial_slabs, full_slabs, bitmap, pool, held, failed>>

MetaBlock == LongBits - 1              \* SLAB_META_START
SLAB_INIT_BMP == {MetaBlock}
Run(first, n) == first..(first + n - 1)

Init ==
  /\ partial_slabs = <<>> /\ full_slabs = <<>>
  /\ bitmap = [p \in Pages |-> {}]
  /\ pool = Pages
  /\ held = {}
  /\ failed = 0

(* What bitmap_find_n_clear returns for the i-th slab of the list.  Only   *)
(* the low byte of d0 is set to n for the call, and after a slab that did  *)
(* not fit d0 is -1: from the second slab on, the rest of it is stale.     *)
(* (Mutants: the whole of d0 is set; the search asks for one block less.)  *)
Found_Clean(n, i) == bitmap_find_n_clear(bitmap[partial_slabs[i]], n, FALSE)
Found_OneLess(n, i) ==
  bitmap_find_n_clear(bitmap[partial_slabs[i]], IF n = 1 THEN 1 ELSE n - 1, i > 1)
Found_OneMore(n, i) == bitmap_find_n_clear(bitmap[partial_slabs[i]], n + 1, i > 1)
Found(n, i) == bitmap_find_n_clear(bitmap[partial_slabs[i]], n, i > 1)

Fitting(n) == {i \in DOMAIN partial_slabs : Found(n, i) # -1}

(* .alloc_block: mark the blocks of slab p, which is on the list partial.  *)
(* If p is full now, the head of that list is deleted and what             *)
(* list_delete_head returned goes to the head of full_slabs: the code does *)
(* not look whether that is p.  (Mutant: the head is not deleted.)         *)
alloc_block_Keep(partial, p, first, n, used) ==
  LET now == used \cup Run(first, n)
  IN  /\ bitmap' = [bitmap EXCEPT ![p] = now]
      /\ IF now = Bits
         THEN partial_slabs' = partial /\ full_slabs' = <<Head(partial)>> \o full_slabs
         ELSE partial_slabs' = partial /\ full_slabs' = full_slabs
      /\ held' = held \cup {[page |-> p, first |-> first, n |-> n]}
      /\ failed' = 0
alloc_block(partial, p, first, n, used) ==
  LET now == used \cup Run(first, n)
  IN  /\ bitmap' = [bitmap EXCEPT ![p] = now]
      /\ IF now = Bits
         THEN /\ partial_slabs' = Tail(partial)
              /\ full_slabs' = <<Head(partial)>> \o full_slabs
         ELSE partial_slabs' = partial /\ full_slabs' = full_slabs
      /\ held' = held \cup {[page |-> p, first |-> first, n |-> n]}
      /\ failed' = 0

AllocPartial(n) ==
  /\ n \in 1..MetaBlock
  /\ Fitting(n) # {}
  /\ LET i == Min(Fitting(n))
         p == partial_slabs[i]
     IN  alloc_block(partial_slabs, p, Found(n, i), n, bitmap[p])
  /\ UNCHANGED pool

(* (Mutant: a count of 32 passes the test.) *)
AllocSlab_Limit(n) ==
  /\ n \in 1..LongBits
  /\ Fitting(n) = {}
  /\ \E p \in pool :
       /\ pool' = pool \ {p}
       /\ alloc_block(<<p>> \o partial_slabs, p, 0, n, SLAB_INIT_BMP)
AllocSlab(n) ==
  /\ n \in 1..MetaBlock
  /\ Fitting(n) = {}
  /\ \E p \in pool :
       /\ pool' = pool \ {p}
       /\ alloc_block(<<p>> \o partial_slabs, p, 0, n, SLAB_INIT_BMP)

(* No memory, or a count of zero or of more than 31. *)
AllocNull(n) ==
  /\ n \in 1..MetaBlock => Fitting(n) = {} /\ pool = {}
  /\ failed' = n
  /\ UNCHANGED <<partial_slabs, full_slabs, bitmap, pool, held>>

(* The node is deleted from the list that it is on, and a slab without a   *)
(* block in use goes back to the physical memory manager.  A slab that is  *)
(* not empty stays where it is.  (Mutant: the slab is never given back.)   *)
slab_free_Keep(h) ==
  /\ h \in held
  /\ bitmap' = [bitmap EXCEPT ![h.page] = @ \ Run(h.first, h.n)]
  /\ held' = held \ {h}
  /\ failed' = 0
  /\ UNCHANGED <<partial_slabs, full_slabs, pool>>
slab_free(h) ==
  /\ h \in held
  /\ bitmap' = [bitmap EXCEPT ![h.page] = @ \ Run(h.first, h.n)]
  /\ held' = held \ {h}
  /\ failed' = 0
  /\ IF bitmap'[h.page] = SLAB_INIT_BMP
     THEN /\ partial_slabs' = RemoveFirst(partial_slabs, h.page)
          /\ full_slabs' = RemoveFirst(full_slabs, h.page)
          /\ pool' = pool \cup {h.page}
     ELSE UNCHANGED <<partial_slabs, full_slabs, pool>>

Next ==
  \/ \E n \in Requests : AllocPartial(n) \/ AllocSlab(n) \/ AllocNull(n)
  \/ \E h \in held : slab_free(h)

Spec == Init /\ [][Next]_vars

-----------------------------------------------------------------------------
Slabs == ToSet(partial_slabs) \cup ToSet(full_slabs)
RunsOf(p) == UNION {Run(h.first, h.n) : h \in {g \in held : g.page = p}}

TypeOK ==
  /\ {partial_slabs, full_slabs} \subseteq Seq(Pages)
  /\ bitmap \in [Pages -> SUBSET Bits]
  /\ pool \subseteq Pages
  /\ held \subseteq [page : Pages, first : Bits, n : 1..MetaBlock]
  /\ failed \in Requests \cup {0}

(* The bitmap of a slab is exactly what its users hold and the metadata    *)
(* block, and no two of them hold the same block: otherwise an object      *)
(* overwrites another one or the list node of the slab.                    *)
BlocksApart ==
  /\ \A g, h \in held :
       g # h /\ g.page = h.page => Run(g.first, g.n) \cap Run(h.first, h.n) = {}
  /\ \A h \in held : MetaBlock \notin Run(h.first, h.n)
  /\ \A p \in Slabs : bitmap[p] = SLAB_INIT_BMP \cup RunsOf(p)

(* Every page is with the physical memory manager or is one slab on one    *)
(* list, so that list_node_delete in slab_free, which is given the node    *)
(* and not the list, finds it linked.                                      *)
PageOnce ==
  /\ IsInjective(partial_slabs) /\ IsInjective(full_slabs)
  /\ ToSet(partial_slabs) \cap ToSet(full_slabs) = {}
  /\ Slabs = Pages \ pool

(* A search never meets a slab with no clear bit (bitmap.asm: "In the slab *)
(* alloc, this should never happen"): the slab that was filled is the one  *)
(* that left the list, although slab_alloc deletes the head of             *)
(* partial_slabs without a look at which slab that is.  And memory is not  *)
(* kept for nothing (slab.h: "where this results in slabs becoming empty,  *)
(* they will also have their physical memory freed").                      *)
SlabsInUse ==
  /\ \A p \in ToSet(partial_slabs) : bitmap[p] # Bits
  /\ \A p \in Slabs : \E h \in held : h.page = p

(* slab_alloc takes a new slab only if the slab at the head of the list    *)
(* has no room for the request, and returns NULL for a count of 1 to 31    *)
(* only if there is no page left either.                                   *)
HeadFits(n) == partial_slabs # <<>> /\ FirstRun(bitmap[Head(partial_slabs)], n) # -1
HeadTried ==
  [][/\ \A h \in held' \ held : h.page \in pool => ~HeadFits(h.n)
     /\ failed' \in 1..MetaBlock => pool = {} /\ ~HeadFits(failed')]_vars

(* The bitmap routines under the allocator, over every long word (module   *)
(* Bitmap): bitmap_set, bitmap_clear and bitmap_flip change only the bit   *)
(* given; bitmap_find_clear and bitmap_find_n_clear find the lowest clear  *)
(* bit and the lowest run of n, or -1, runs at both ends of the long word  *)
(* included.  This does not depend on the state, and is evaluated where no *)
(* block is held.                                                          *)
BitmapsAgree == held = {} => ChangesAgree /\ ClearAgrees /\ RunAgrees

(* slab.h: "Will attempt to allocate in a partial block, and will allocate *)
(* a new block if there isn't one with enough space."  First for the slabs *)
(* of the partial list, then for the slabs of the full list, which may     *)
(* have had blocks freed.                                                  *)
NewOnlyIfPartialFull ==
  [][\A h \in held' \ held :
       h.page \in pool => \A p \in ToSet(partial_slabs) : FirstRun(bitmap[p], h.n) = -1]_vars
NewOnlyIfAllFull ==
  [][\A h \in held' \ held :
       h.page \in pool => \A p \in ToSet(full_slabs) : FirstRun(bitmap[p], h.n) = -1]_vars
=============================================================================
