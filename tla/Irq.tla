---------------------------------- MODULE Irq ----------------------------------
(***************************************************************************)
(* IRQ chains (kernel/kmachine.asm): handlers are registered on the list   *)
(* of their level; an interrupt walks the list, node by node, and calls    *)
(* each handler until one returns true, then the handler that the vector   *)
(* had before irq_init.  Interrupts nest, and a handler may itself         *)
(* register and remove handlers: the kernel's README does not mark these   *)
(* calls "not interrupt safe".                                             *)
(*                                                                         *)
(* The walk is modelled link by link, because a list may change under it.  *)
(* Level 7 cannot be masked and is left out: see the README.               *)
(***************************************************************************)
EXTENDS Naturals, Sequences, SequencesExt, ListOps

CONSTANTS
  Handlers,    \* IrqHandler structs
  Levels,      \* interrupt levels in use, of 1..6
  Kinds,       \* what the handlers of a program do, a set of the sets it may be:
               \* of "register", "remove_self", "remove_other"
  MaxNest,     \* bound: interrupts in progress
  MaxCount     \* bound: disable_intr_count

ASSUME IrqAssumption ==
  /\ Levels \subseteq 1..6
  /\ \A k \in Kinds : k \subseteq {"register", "remove_self", "remove_other"}
  /\ MaxNest \in Nat \ {0} /\ MaxCount \in Nat \ {0}
  /\ Null \notin Cells(Handlers, Levels)
  /\ \A l \in Levels : HeadOf(l) \notin Handlers /\ TailOf(l) \notin Handlers

VARIABLES
  heap,    \* the links of the handlers and of the level lists
  chains,  \* the handlers that are registered, in order, by level
  count,   \* disable_intr_count
  ipl,     \* the interrupt priority level in SR
  stack,   \* the interrupts in progress, the innermost last
  open,    \* how many calls of disable_interrupts the program has not undone
  may      \* what this program's handlers do; never changes

vars == <<heap, chains, count, ipl, stack, open, may>>

(* An interrupt: its level; a0, the node the walk is at; what is next:     *)
(* load the next node, or the handler at a0 returns, or the old handler;   *)
(* SR before it; the handlers that are still to be called.                 *)
Frames == [irq : Levels, a0 : Handlers \cup {HeadOf(l) : l \in Levels},
           next : {"load", "handler", "old"}, sr : 0..7, due : SUBSET Handlers]

Top == stack[Len(stack)]
InHandler == stack # <<>> /\ Top.next = "handler"
Registered == UNION {ToSet(chains[l]) : l \in Levels}

(* irq_init, and the program then runs with interrupts enabled. *)
Init ==
  /\ heap = list_init(Handlers, Levels)
  /\ chains = [l \in Levels |-> <<>>]
  /\ count = 0 /\ ipl = 0 /\ open = 0
  /\ stack = <<>>
  /\ may \in Kinds

Disable == count < MaxCount /\ count' = count + 1 /\ ipl' = 7
Enable ==
  /\ count' = IF count = 0 THEN 0 ELSE count - 1
  /\ ipl' = IF count = 1 THEN 0 ELSE ipl

(* disable_interrupts ... enable_interrupts: SR is zero after it unless    *)
(* the caller, or a leak, has the counter above zero.                      *)
DisableEnable ==
  /\ count' = count
  /\ ipl' = IF count = 0 THEN 0 ELSE 7

irq_register(h, l) ==
  /\ h \notin Registered
  /\ heap' = list_add_tail(heap, l, h)
  /\ chains' = [chains EXCEPT ![l] = Append(@, h)]
  /\ DisableEnable
  /\ UNCHANGED <<stack, open, may>>

(* The branch to list_node_delete does not come back for the enable.       *)
(* (Mutant: the branch is missing.)                                        *)
irq_remove_NoDelete(h) ==
  /\ h \in Registered
  /\ chains' = [l \in Levels |-> RemoveFirst(chains[l], h)]
  /\ stack' = [k \in DOMAIN stack |-> [stack[k] EXCEPT !.due = @ \ {h}]]
  /\ DisableEnable
  /\ UNCHANGED <<heap, open, may>>
irq_remove(h) ==
  /\ h \in Registered
  /\ heap' = list_node_delete(heap, h)
  /\ chains' = [l \in Levels |-> RemoveFirst(chains[l], h)]
  /\ stack' = [k \in DOMAIN stack |-> [stack[k] EXCEPT !.due = @ \ {h}]]
  /\ Disable
  /\ UNCHANGED <<open, may>>

-----------------------------------------------------------------------------
(* The program, outside interrupts. *)
TaskRegister(h, l) == stack = <<>> /\ irq_register(h, l)
TaskRemove(h) == stack = <<>> /\ irq_remove(h)
TaskDisable ==
  /\ stack = <<>>
  /\ Disable
  /\ open' = open + 1
  /\ UNCHANGED <<heap, chains, stack, may>>
TaskEnable ==
  /\ stack = <<>>
  /\ Enable
  /\ open' = IF open = 0 THEN 0 ELSE open - 1
  /\ UNCHANGED <<heap, chains, stack, may>>

-----------------------------------------------------------------------------
(* Interrupts. *)
irq(l) ==
  /\ l > ipl /\ Len(stack) < MaxNest
  /\ ipl' = l
  /\ stack' = Append(stack, [irq |-> l, a0 |-> HeadOf(l), next |-> "load",
                             sr |-> ipl, due |-> ToSet(chains[l])])
  /\ UNCHANGED <<heap, chains, count, open, may>>

SetTop(f) == stack' = [stack EXCEPT ![Len(stack)] = f]

(* One turn of the loop of run_handler_chain, up to the call.  (Mutants:   *)
(* the walk does not stop at the tail; a0 is lost in the call.)            *)
Load_NoTail ==
  /\ stack # <<>> /\ Top.next = "load"
  /\ LET x == heap.next[Top.a0]
     IN  SetTop([Top EXCEPT !.a0 = x, !.next = "handler", !.due = @ \ {x}])
  /\ UNCHANGED <<heap, chains, count, ipl, open, may>>
Load_Restart ==
  /\ stack # <<>> /\ Top.next = "load"
  /\ LET x == heap.next[HeadOf(Top.irq)]
     IN  SetTop(IF x = TailOf(Top.irq)
                THEN [Top EXCEPT !.next = "old"]
                ELSE [Top EXCEPT !.a0 = x, !.next = "handler", !.due = @ \ {x}])
  /\ UNCHANGED <<heap, chains, count, ipl, open, may>>
Load ==
  /\ stack # <<>> /\ Top.next = "load"
  /\ LET x == heap.next[Top.a0]
     IN  SetTop(IF x = TailOf(Top.irq)
                THEN [Top EXCEPT !.next = "old"]
                ELSE [Top EXCEPT !.a0 = x, !.next = "handler", !.due = @ \ {x}])
  /\ UNCHANGED <<heap, chains, count, ipl, open, may>>

(* The handler returns false: go on; or true: nobody else is called.       *)
(* (Mutant: the test is the wrong way round.)                              *)
Return_Swapped(handled) ==
  /\ InHandler
  /\ SetTop(IF handled THEN [Top EXCEPT !.next = "load"]
                       ELSE [Top EXCEPT !.next = "old"])
  /\ UNCHANGED <<heap, chains, count, ipl, open, may>>
Return(handled) ==
  /\ InHandler
  /\ SetTop(IF handled THEN [Top EXCEPT !.next = "old", !.due = {}]
                       ELSE [Top EXCEPT !.next = "load"])
  /\ UNCHANGED <<heap, chains, count, ipl, open, may>>

(* The old handler runs and returns through the frame that was made for    *)
(* it, which holds the SR of now; the second rte restores SR.              *)
Rte ==
  /\ stack # <<>> /\ Top.next = "old"
  /\ ipl' = Top.sr
  /\ stack' = Front(stack)
  /\ UNCHANGED <<heap, chains, count, open, may>>

(* What a handler does before it returns.  A struct is not registered      *)
(* again while its handler is running.                                     *)
HandlerRegister(h, l) ==
  /\ InHandler /\ "register" \in may
  /\ \A k \in DOMAIN stack : stack[k].a0 # h
  /\ irq_register(h, l)
HandlerRemove(h) ==
  /\ InHandler
  /\ (IF h = Top.a0 THEN "remove_self" ELSE "remove_other") \in may
  /\ irq_remove(h)

Program ==
  \/ \E h \in Handlers, l \in Levels : TaskRegister(h, l)
  \/ \E h \in Handlers : TaskRemove(h)
  \/ TaskDisable
  \/ TaskEnable

Dispatch ==
  \/ Load
  \/ \E handled \in BOOLEAN : Return(handled)
  \/ Rte

Next ==
  \/ Program
  \/ \E l \in Levels : irq(l)
  \/ Dispatch
  \/ \E h \in Handlers, l \in Levels : HandlerRegister(h, l)
  \/ \E h \in Handlers : HandlerRemove(h)

Spec == Init /\ [][Next]_vars

(* The walk is not stopped, and handlers return. *)
FairSpec == Spec /\ WF_vars(Dispatch)

-----------------------------------------------------------------------------
TypeOK ==
  /\ heap \in [next : [Cells(Handlers, Levels) -> Cells(Handlers, Levels) \cup {Null}],
               prev : [Cells(Handlers, Levels) -> Cells(Handlers, Levels) \cup {Null}]]
  /\ \A l \in Levels : chains[l] \in Seq(Handlers)
  /\ count \in 0..MaxCount /\ open \in 0..MaxCount /\ ipl \in 0..7
  /\ stack \in Seq(Frames)
  /\ may \in Kinds

(* A handler is only ever called while it is registered on the level that  *)
(* interrupted, even though list_node_delete leaves the links of a deleted *)
(* node and the walk goes on from there.                                   *)
CallsRegistered ==
  [][\A k \in DOMAIN stack \cap DOMAIN stack' :
       stack[k].next = "load" /\ stack'[k].next = "handler"
         => stack'[k].a0 \in ToSet(chains[stack[k].irq])]_vars

(* An interrupt that no handler claims was offered to every handler that   *)
(* was registered when it came and is still registered.                    *)
NoneSkipped == \A k \in DOMAIN stack : stack[k].next = "old" => stack[k].due = {}

(* The walk ends: the innermost interrupt, which nothing can interrupt,    *)
(* returns, whatever its handlers register and remove.                     *)
WalkEnds == Len(stack) = MaxNest ~> Len(stack) < MaxNest

(* kernel/README.md: the counter of disable_interrupts and                 *)
(* enable_interrupts is "a counter of disables": between calls it is the   *)
(* number of calls of disable_interrupts that were not undone.             *)
DisablesCounted == stack = <<>> => count = open
=============================================================================
