-------------------------------- MODULE Sched --------------------------------
(***************************************************************************)
(* The scheduler of the rosco_m68k ROM kernel: kernel/task.asm (context    *)
(* switch, wait, signal, tick) and kernel/sched.c (schedule, exit).        *)
(*                                                                         *)
(* One CPU runs one thread at a time.  An action is a kernel routine that  *)
(* runs with interrupts masked and so cannot be interrupted.  The one      *)
(* routine that is not masked throughout is the exit path: task_done       *)
(* enables interrupts and only then jumps to task_yield, whose suspend,    *)
(* scan, list_delete_head and switch run as they are.  It is split         *)
(* wherever an interrupt finds or leaves something different; where one    *)
(* would meet a half written word or link (Tear) the model stops.          *)
(***************************************************************************)
EXTENDS Kmachine, Sequences, SequencesExt

CONSTANTS
  Tasks,       \* Task structs that can be created and scheduled
  InitTask,    \* tinit, the task start_tasking enters first
  Idle,        \* tidle, the static Task that is run when nothing else can be
  Null,        \* the NULL pointer, in current_task_var during an exit
  Prio,        \* the priority argument of task_new, one byte per task
  Signals,     \* the bits of a signal mask
  Quantum,     \* QUANTUM_TICKS
  MaxCount,    \* bound on disable_intr_count and on a task's nesting
  Mortal,      \* the tasks whose entry point returns
  Sleepers,    \* the tasks that call task_wait
  SleepInCS,   \* TRUE: tasks may wait and return inside a critical section
  IrqInExit    \* TRUE: interrupts may arrive while an exit runs unmasked

ASSUME TasksAssumption ==
  /\ InitTask \notin Tasks /\ Idle \notin Tasks /\ Null \notin Tasks
  /\ InitTask # Idle /\ InitTask # Null /\ Idle # Null
ASSUME PrioAssumption == Prio \in [Tasks -> 0..255]
ASSUME QuantumAssumption == Quantum \in Nat \ {0}
ASSUME CountAssumption == MaxCount \in Nat
ASSUME EnvAssumption ==
  /\ Mortal \subseteq Tasks /\ Sleepers \subseteq Tasks
  /\ SleepInCS \in BOOLEAN /\ IrqInExit \in BOOLEAN

VARIABLES
  current,     \* current_task_var
  runq,        \* runnable_list_0 .. runnable_list_3
  sleeping,    \* sleeping_list
  intr,        \* SR and disable_intr_count (see Kmachine)
  ticks,       \* tick_counter
  ctx,         \* what TASK_STACK(t) points at: how t resumes when switched to
  waits,       \* Task.sig_wait
  ret,         \* the D0 slot of a sleeping task: what its task_wait returns
  live,        \* the Task structs and stacks that are allocated
  depth,       \* how many disable_interrupts a task has not yet matched
  pc,          \* "run", or where the CPU is in the exit path
  arg,         \* the exiting task ("done"), or the next one ("found", "picked")
  level,       \* the queue an exit looks at ("scan", "found")
  late         \* history: tasks that were readied on a queue an exit had passed

vars == <<current, runq, sleeping, intr, ticks, ctx, waits, ret, live, depth,
          pc, arg, level, late>>

Levels == 0..3
Threads == Tasks \cup {InitTask, Idle}

(* How a thread that is not running will resume:                           *)
(*   "tramp"  first entry through task_trampoline or idle_trampoline       *)
(*   "tick"   at the end of tick_handler                                   *)
(*   "wait"   at the end of task_wait                                      *)
(*   "stuck"  on a frame of a stack that was already freed                 *)
(*   "none"   the frame was consumed: the thread is running, or never ran  *)
(* ctx[Null] is the word at TASK_STACK(NULL), address $10: "lost" once a   *)
(* context was stored there.                                               *)
Contexts == {"none", "tramp", "tick", "wait", "stuck", "lost"}
PCs == {"run", "done", "suspend", "scan", "found", "picked", "load", "torn"}

TypeOK ==
  /\ current \in Threads \cup {Null}
  /\ runq \in [Levels -> Seq(Tasks)]
  /\ sleeping \in Seq(Tasks)
  /\ intr \in IntrState
  /\ ticks \in 1..Quantum
  /\ ctx \in [Threads \cup {Null} -> Contexts]
  /\ waits \in [Tasks -> SUBSET Signals]
  /\ ret \in [Tasks -> SUBSET Signals]
  /\ live \in SUBSET (Tasks \cup {InitTask})
  /\ depth \in [Tasks -> Nat]
  /\ pc \in PCs
  /\ arg \in Threads \cup {Null}
  /\ level \in Levels
  /\ late \in SUBSET Tasks

(* "and.b #3" on the priority byte, in task_new and in every queue lookup. *)
Queue(t) == Prio[t] % 4

Members(q) == UNION {ToSet(q[p]) : p \in Levels}
Ready == Members(runq)
Asleep == ToSet(sleeping)

-----------------------------------------------------------------------------
(* The end of task_kick_off: init has been entered with SR masked and one  *)
(* disable_interrupts outstanding; idle's stack is teed up.                *)
Init ==
  /\ current = InitTask
  /\ runq = [p \in Levels |-> <<>>]
  /\ sleeping = <<>>
  /\ intr = disable_interrupts([count |-> 0, masked |-> TRUE])
  /\ ticks = Quantum
  /\ ctx = [t \in Threads \cup {Null} |-> IF t = Idle THEN "tramp" ELSE "none"]
  /\ waits = [t \in Tasks |-> {}]
  /\ ret = [t \in Tasks |-> {}]
  /\ live = {InitTask}
  /\ depth = [t \in Tasks |-> 0]
  /\ pc = "run"
  /\ arg = Null
  /\ level = 3
  /\ late = {}

-----------------------------------------------------------------------------
(* task_switch_next: scan the queues from priority 3 down.  (Mutant: the   *)
(* scan goes upwards.)                                                     *)
Candidates(q) == {p \in Levels : q[p] # <<>>}
Top_Upwards(q) == CHOOSE p \in Candidates(q) : \A r \in Candidates(q) : p <= r
Top(q) == CHOOSE p \in Candidates(q) : \A r \in Candidates(q) : r <= p
NextTask(q) == IF Candidates(q) = {} THEN Idle ELSE Head(q[Top(q)])
Dequeued(q) == IF Candidates(q) = {} THEN q ELSE [q EXCEPT ![Top(q)] = Tail(@)]

(* The interrupt state once a thread is back in its own code.  switch_a1   *)
(* loads the SR that suspend or task_tee stacked ($2700); every resume     *)
(* path then calls enable_interrupts, and those that end in rte load the   *)
(* SR of the interrupted (or brand new) code, which is unmasked.           *)
(* (Mutant: task_wait forgets its enable.)                                 *)
Resumed_NoEnable(kind, i) ==
  IF kind = "wait" THEN SetSR(i, TRUE) ELSE SetSR(enable_interrupts(i), FALSE)
Resumed(kind, i) ==
  LET e == enable_interrupts(SetSR(i, TRUE))
  IN  IF kind = "wait" THEN e ELSE SetSR(e, FALSE)

(* switch_a1: make u current and continue it. *)
SwitchTo(u, q, c, i) ==
  /\ current' = u
  /\ runq' = q
  /\ ctx' = [c EXCEPT ![u] = IF @ = "stuck" THEN @ ELSE "none"]
  /\ intr' = Resumed(c[u], i)
  /\ pc' = "run"
  /\ arg' = Null
  /\ level' = 3
  /\ late' = {}

(* task_yield, reached with the current thread's context of kind k saved   *)
(* through current_task_var, followed by the switch.  (Mutants: it is not  *)
(* queued; it is queued at the head.)                                      *)
task_yield_Forget(k, i) ==
  SwitchTo(NextTask(runq), Dequeued(runq), [ctx EXCEPT ![current] = k], i)
task_yield_Head(k, i) ==
  LET q == IF current \in Tasks
           THEN [runq EXCEPT ![Queue(current)] = <<current>> \o @]
           ELSE runq
  IN  SwitchTo(NextTask(q), Dequeued(q), [ctx EXCEPT ![current] = k], i)
task_yield(k, i) ==
  LET q == IF current \in Tasks
           THEN [runq EXCEPT ![Queue(current)] = Append(@, current)]
           ELSE runq
      c == [ctx EXCEPT ![current] = k]
  IN  SwitchTo(NextTask(q), Dequeued(q), c, i)

-----------------------------------------------------------------------------
(* Calls made by the running thread. *)

Running(t) == pc = "run" /\ current = t /\ ctx[t] # "stuck"
MayLeave(t) == SleepInCS \/ depth[t] = 0

(* The task opens and closes a critical section. *)
Disable(t) ==
  /\ Running(t) /\ intr.count < MaxCount /\ depth[t] < MaxCount
  /\ intr' = disable_interrupts(intr)
  /\ depth' = [depth EXCEPT ![t] = @ + 1]
  /\ UNCHANGED <<current, runq, sleeping, ticks, ctx, waits, ret, live,
                 pc, arg, level, late>>

Enable(t) ==
  /\ Running(t) /\ depth[t] > 0
  /\ intr' = enable_interrupts(intr)
  /\ depth' = [depth EXCEPT ![t] = @ - 1]
  /\ UNCHANGED <<current, runq, sleeping, ticks, ctx, waits, ret, live,
                 pc, arg, level, late>>

(* task_new and task_schedule of a Task struct that is not in use. *)
task_schedule(t, u) ==
  /\ Running(t) /\ u \notin live
  /\ live' = live \cup {u}
  /\ ctx' = [ctx EXCEPT ![u] = "tramp"]
  /\ runq' = [runq EXCEPT ![Queue(u)] = <<u>> \o @]
  /\ depth' = [depth EXCEPT ![u] = 0]
  /\ intr' = Bracketed(intr)
  /\ UNCHANGED <<current, sleeping, ticks, waits, ret, pc, arg, level, late>>

(* The calling task goes to the head of the sleeping list and the CPU to   *)
(* the next runnable task.                                                 *)
task_wait(t, mask) ==
  /\ Running(t) /\ MayLeave(t)
  /\ waits' = [waits EXCEPT ![t] = mask]
  /\ sleeping' = <<t>> \o sleeping
  /\ SwitchTo(NextTask(runq), Dequeued(runq), [ctx EXCEPT ![t] = "wait"],
              disable_interrupts(intr))
  /\ UNCHANGED <<ticks, ret, live, depth>>

(* list_node_delete of a node that is on the list. *)
Unlink(q, u) == RemoveAt(q, CHOOSE i \in DOMAIN q : q[i] = u)

(* What task_signal does to the lists: a sleeping target that waits for    *)
(* one of the signals moves to the head of its queue, and will find the    *)
(* whole mask in D0; any other target is left alone.  (Mutant: the masks   *)
(* are not compared.)                                                      *)
Wakes(u, mask) == u \in Asleep /\ waits[u] \cap mask # {}
Deliver_AnySignal(u, mask) ==
  IF u \in Asleep
  THEN /\ sleeping' = Unlink(sleeping, u)
       /\ ret' = [ret EXCEPT ![u] = mask]
       /\ runq' = [runq EXCEPT ![Queue(u)] = <<u>> \o @]
  ELSE UNCHANGED <<sleeping, ret, runq>>
Deliver(u, mask) ==
  IF Wakes(u, mask)
  THEN /\ sleeping' = Unlink(sleeping, u)
       /\ ret' = [ret EXCEPT ![u] = mask]
       /\ runq' = [runq EXCEPT ![Queue(u)] = <<u>> \o @]
  ELSE UNCHANGED <<sleeping, ret, runq>>

task_signal(t, u, mask) ==
  /\ Running(t)
  /\ Deliver(u, mask)
  /\ intr' = Bracketed(intr)
  /\ UNCHANGED <<current, ticks, ctx, waits, live, depth, pc, arg, level, late>>

-----------------------------------------------------------------------------
(* Interrupts. *)

Interruptible == ~intr.masked /\ (pc = "run" \/ (IrqInExit /\ pc # "torn"))

(* tick_handler.  The timer's own handler is chained first; SR is restored *)
(* by the final rte.  In the exit path the context that is saved is that   *)
(* of a stack already freed: stored at address $10 while current_task_var  *)
(* is NULL, and over the new task's own context once it has been set.      *)
(* Nothing ever resumes it: the exit ends where the tick found it.         *)
Tick ==
  /\ Interruptible
  /\ IF ticks > 1
     THEN /\ ticks' = ticks - 1
          /\ intr' = SetSR(Bracketed(intr), FALSE)
          /\ UNCHANGED <<current, runq, ctx, pc, arg, level, late>>
     ELSE /\ ticks' = Quantum
          /\ task_yield(IF current = Null THEN "lost"
                        ELSE IF pc = "load" \/ ctx[current] = "stuck" THEN "stuck"
                        ELSE "tick",
                        disable_interrupts(intr))
  /\ UNCHANGED <<sleeping, waits, ret, live, depth>>

(* A device interrupt whose handler calls task_signal.  Its suspend stores *)
(* the stack pointer in current's TASK_STACK, which matters only while     *)
(* switch_a1 has yet to read it.                                           *)
PassedBy(u) ==
  \/ pc = "picked"
  \/ pc \in {"scan", "found"} /\ Queue(u) > level
IrqSignal(u, mask) ==
  /\ Interruptible
  /\ Deliver(u, mask)
  /\ intr' = SetSR(Bracketed(intr), FALSE)
  /\ ctx' = [ctx EXCEPT ![current] = IF current = Null THEN "lost"
                                     ELSE IF pc = "load" THEN "stuck" ELSE @]
  /\ late' = IF Wakes(u, mask) /\ PassedBy(u) THEN late \cup {u} ELSE late
  /\ UNCHANGED <<current, ticks, waits, live, depth, pc, arg, level>>

-----------------------------------------------------------------------------
(* task_done, where the entry point of a task returns to. *)

(* current_task_var is cleared while interrupts may still be enabled.      *)
(* (Mutant: it keeps pointing at the Task that is about to be freed.)      *)
ExitClear_Keep(t) ==
  /\ Running(t) /\ (t \in Tasks => MayLeave(t))
  /\ pc' = "done"
  /\ arg' = t
  /\ UNCHANGED <<current, runq, sleeping, intr, ticks, ctx, waits, ret, live, depth,
                 level, late>>
ExitClear(t) ==
  /\ Running(t) /\ (t \in Tasks => MayLeave(t))
  /\ current' = Null
  /\ pc' = "done"
  /\ arg' = t
  /\ UNCHANGED <<runq, sleeping, intr, ticks, ctx, waits, ret, live, depth,
                 level, late>>

(* The stack and the Task are freed between disable and enable. *)
ExitFree ==
  /\ pc = "done"
  /\ live' = live \ {arg}
  /\ intr' = Bracketed(intr)
  /\ pc' = "suspend"
  /\ arg' = Null
  /\ UNCHANGED <<current, runq, sleeping, ticks, ctx, waits, ret, depth,
                 level, late>>

(* "jmp task_yield", with whatever SR the enable left.  suspend stores     *)
(* through the NULL current_task_var; the null task is not queued; the     *)
(* scan starts at the top.                                                 *)
ExitSuspend ==
  /\ pc = "suspend"
  /\ ctx' = [ctx EXCEPT ![Null] = "lost"]
  /\ pc' = "scan"
  /\ UNCHANGED <<current, runq, sleeping, intr, ticks, waits, ret, live, depth,
                 arg, level, late>>

(* task_find_next on one queue: nothing there, so the one below is next, *)
ExitNextLevel ==
  /\ pc = "scan" /\ runq[level] = <<>> /\ level > 0
  /\ level' = level - 1
  /\ UNCHANGED <<current, runq, sleeping, intr, ticks, ctx, waits, ret, live, depth,
                 pc, arg, late>>

(* ... or idle, below them all; *)
ExitIdle ==
  /\ pc = "scan" /\ runq[level] = <<>> /\ level = 0
  /\ pc' = "picked"
  /\ arg' = Idle
  /\ level' = 3
  /\ UNCHANGED <<current, runq, sleeping, intr, ticks, ctx, waits, ret, live, depth,
                 late>>

(* ... or list_delete_head reads the address of the first node, *)
ExitFound ==
  /\ pc = "scan" /\ runq[level] # <<>>
  /\ pc' = "found"
  /\ arg' = Head(runq[level])
  /\ UNCHANGED <<current, runq, sleeping, intr, ticks, ctx, waits, ret, live, depth,
                 level, late>>

(* ... and list_node_delete unlinks it, which need not be first any more:  *)
(* an interrupt may have put a task before it.  (Mutant: the first node is *)
(* unlinked, whichever it is by then.)                                     *)
ExitDelete_Head ==
  /\ pc = "found"
  /\ runq' = [runq EXCEPT ![level] = Tail(@)]
  /\ pc' = "picked"
  /\ level' = 3
  /\ UNCHANGED <<current, sleeping, intr, ticks, ctx, waits, ret, live, depth,
                 arg, late>>
ExitDelete ==
  /\ pc = "found"
  /\ runq' = [runq EXCEPT ![level] = Unlink(@, arg)]
  /\ pc' = "picked"
  /\ level' = 3
  /\ UNCHANGED <<current, sleeping, intr, ticks, ctx, waits, ret, live, depth,
                 arg, late>>

(* It becomes current_task_var ... *)
ExitSetCurrent ==
  /\ pc = "picked"
  /\ current' = arg
  /\ pc' = "load"
  /\ arg' = Null
  /\ late' = {}
  /\ UNCHANGED <<runq, sleeping, intr, ticks, ctx, waits, ret, live, depth, level>>

(* ... and its stack is loaded. *)
ExitSwitch ==
  /\ pc = "load"
  /\ SwitchTo(current, runq, ctx, intr)
  /\ UNCHANGED <<sleeping, ticks, waits, ret, live, depth>>

ExitStep ==
  \/ ExitFree \/ ExitSuspend
  \/ ExitNextLevel \/ ExitIdle \/ ExitFound \/ ExitDelete
  \/ ExitSetCurrent \/ ExitSwitch

(* An interrupt that comes between two stores of the exit that belong      *)
(* together, or between a load and the store that relies on it.  In        *)
(* suspend, another suspend overwrites the return address it keeps in a    *)
(* static word.  In list_node_delete, the switch of a tick or a signal     *)
(* that readies a task of this level works on a list of which one link is  *)
(* already changed and the other is not, or on links that have been read.  *)
(* What the lists hold from then on is not modelled.  (In the other places *)
(* of both routines the same interrupts are Tick and IrqSignal.)           *)
Tear ==
  /\ \/ pc = "torn"
     \/ /\ Interruptible
        /\ \/ pc = "suspend"
           \/ pc = "found" /\ ticks = 1
           \/ pc = "found" /\ \E u \in Asleep : Queue(u) = level /\ waits[u] # {}
  /\ pc' = "torn"
  /\ arg' = Null
  /\ level' = 3
  /\ late' = {}
  /\ UNCHANGED <<current, runq, sleeping, intr, ticks, ctx, waits, ret, live, depth>>

(* A thread whose TASK_STACK points at a frame of switch_a1 itself loads   *)
(* the same frame again and again, through the end of tick_handler.        *)
StuckLoop ==
  /\ pc = "run" /\ ctx[current] = "stuck"
  /\ intr' = Resumed("tick", intr)
  /\ UNCHANGED <<current, runq, sleeping, ticks, ctx, waits, ret, live, depth,
                 pc, arg, level, late>>

-----------------------------------------------------------------------------
TaskStep(t) ==
  \/ Disable(t)
  \/ Enable(t)
  \/ \E u \in Tasks : task_schedule(t, u)
  \/ \E u \in Tasks, m \in SUBSET Signals : task_signal(t, u, m)

WaitStep(t) == \E m \in SUBSET Signals : task_wait(t, m)

(* init only schedules tasks and returns: task.h forbids it anything else. *)
InitStep ==
  \/ \E u \in Tasks : task_schedule(InitTask, u)
  \/ ExitClear(InitTask)

Next ==
  \/ \E t \in Tasks : TaskStep(t)
  \/ \E t \in Sleepers : WaitStep(t)
  \/ \E t \in Mortal : ExitClear(t)
  \/ InitStep
  \/ Tick
  \/ \E u \in Tasks, m \in SUBSET Signals : IrqSignal(u, m)
  \/ ExitStep
  \/ Tear
  \/ StuckLoop

Spec == Init /\ [][Next]_vars

-----------------------------------------------------------------------------
(* Properties. *)

(* No interrupt has met a half done suspend or list_node_delete. *)
Intact == pc # "torn"

(* The task an exit has taken off its queue (in "found" it is still on it). *)
Taken == IF pc = "found" THEN Null ELSE arg

(* No Task struct is linked twice: a task is in at most one queue, at most *)
(* once, never both runnable and sleeping, and neither the running task    *)
(* nor the one an exit has just dequeued is on a list; while an exit is    *)
(* about to unlink a task, that task is where it was found.  The nodes are *)
(* embedded in the Task (task.asm, list_add_head / list_add_tail), so a    *)
(* second insertion would corrupt both lists.                              *)
QueuesDisjoint(q) ==
  /\ \A p \in Levels : IsInjective(q[p])
  /\ \A p, r \in Levels : p # r => ToSet(q[p]) \cap ToSet(q[r]) = {}
LinkedOnce ==
  Intact =>
    /\ QueuesDisjoint(runq)
    /\ IsInjective(sleeping)
    /\ Ready \cap Asleep = {}
    /\ {current, Taken} \cap (Ready \cup Asleep) = {}
    /\ pc = "found" => arg \in ToSet(runq[level])

(* A Task that was freed by task_done is not reachable by the scheduler:   *)
(* everything on a list, running, or about to run, is allocated.           *)
FreedUnreachable ==
  Intact => (Ready \cup Asleep \cup {current, arg}) \ {Idle, Null} \subseteq live

(* An allocated task that is neither runnable, nor sleeping, nor running,  *)
(* nor being switched to, is lost: nothing will ever run it again.  The    *)
(* only step that loses one is the interrupt of an exit, between clearing  *)
(* current_task_var and disabling (the exiting Task, never freed) or       *)
(* between unlinking the next task and making it current (that task): not  *)
(* a tick, wait, signal or exit elsewhere.                                 *)
Lost == live \ (Ready \cup Asleep \cup {current, arg})
OnlyExitsLose ==
  [][Lost' \ Lost \subseteq IF pc \in {"done", "picked"} THEN {arg} ELSE {}]_vars

(* Mutual exclusion of critical sections (syncprintf in kernel_test): a    *)
(* task between disable_interrupts and the matching enable_interrupts is   *)
(* the running one and cannot be interrupted, although the counter is one  *)
(* global word that every switch also uses.  Needs SleepInCS = FALSE.      *)
CriticalSection ==
  \A t \in Tasks : depth[t] > 0 => current = t /\ pc = "run" /\ intr.masked

(* A task that returns from task_wait was sent a signal it waited for, and *)
(* is told so: whoever was sleeping and is runnable again has a mask in    *)
(* its D0 slot that meets the mask it stored in sig_wait.                  *)
WokenBySignal ==
  Intact => \A t \in Ready : ctx[t] = "wait" => waits[t] \cap ret[t] # {}

(* README.md: "A runnable process of a given priority will only be given   *)
(* time if no higher-priority process is runnable".  Checked at the moment *)
(* a thread is given the CPU by a switch.  The scan of an exit can be      *)
(* interrupted: it may overlook the tasks that were readied on a queue it  *)
(* had passed, and only those.                                             *)
HighestFirst ==
  [][current' # current /\ current' # Null =>
       LET overlooked == IF pc' = "load" THEN late ELSE {}
       IN  \A p \in Levels : ToSet(runq'[p]) \subseteq overlooked
                              \/ (current' # Idle /\ p <= Queue(current'))]_vars

(* Where the exit path stands: current_task_var is NULL from the moment    *)
(* task_done clears it until switch_a1 sets it, and only a task or idle is *)
(* ever switched to.                                                       *)
ExitShape ==
  /\ pc = "run" => current # Null /\ arg = Null
  /\ pc = "done" => current = Null /\ arg \in Tasks \cup {InitTask}
  /\ pc \in {"suspend", "scan", "torn"} => current = Null /\ arg = Null
  /\ pc = "found" => current = Null /\ arg \in Tasks
  /\ pc = "picked" => current = Null /\ arg \in Tasks \cup {Idle}
  /\ pc = "load" => current \in Tasks \cup {Idle} /\ arg = Null

(* disable_intr_count is exactly what the running thread holds: its own    *)
(* nested sections, or the one disable of task_kick_off while init runs    *)
(* and exits.  Needs SleepInCS = FALSE.                                    *)
CountBalanced ==
  intr.count =
    CASE pc = "run"  -> IF current = InitTask THEN 1
                        ELSE IF current \in Tasks THEN depth[current] ELSE 0
      [] pc = "done" -> IF arg = InitTask THEN 1 ELSE 0
      [] OTHER       -> IF intr.masked THEN 1 ELSE 0

(* init, and its exit, hold exactly the disable of task_kick_off. *)
InitMasked == InitTask \in {current, arg} => intr.masked /\ intr.count = 1

(* init is never suspended. *)
InitCtx == ctx[InitTask] = "none"

(* A thread caught on a freed stack holds no critical section. *)
StuckOutside == \A t \in Tasks : depth[t] > 0 => ctx[t] # "stuck"

(* README.md: enable_interrupts "is re-entrant, a counter of disables is   *)
(* kept, and only when this is zero are interrupts actually enabled".      *)
EnabledOnlyAtZero == pc = "run" /\ ~intr.masked => intr.count = 0

(* task.asm on task_yield: "**must** be called with interrupts disabled".  *)
YieldMasked == pc = "suspend" => intr.masked

-----------------------------------------------------------------------------
(* Fairness.  A timer interrupt stays pending until it is taken and is     *)
(* taken at the first instruction that runs unmasked, so it is enough that *)
(* it is enabled again and again (strong fairness).  The CPU does not stop *)
(* in the middle of task_done, and init returns, as task.h requires.  Each *)
(* task is assumed to leave the critical sections it enters: it does not   *)
(* stay in one for ever, nor nest another one in it again and again.       *)
Fairness ==
  /\ SF_vars(Tick)
  /\ WF_vars(ExitClear(InitTask))
  /\ WF_vars(ExitStep)
  /\ \A t \in Tasks : WF_vars(Enable(t)) /\ SF_vars(depth[t] = 1 /\ Enable(t))

FairSpec == Spec /\ Fairness

(* The tasks of the highest level in use. *)
TopTasks == {t \in Tasks : \A u \in Tasks : Queue(u) <= Queue(t)}

(* Round robin: a runnable task of the highest level in use gets the CPU.  *)
(* A woken or new task goes to the head of its queue, so this holds only   *)
(* while no two tasks of the level can keep waking each other, and no task *)
(* returns (see Preemptible): Mortal = {} and at most one sleeper a level. *)
RoundRobin == \A t \in TopTasks : t \in Ready ~> current = t

(* README.md: the scheduler is "pre-emptive" and "run once per quantum,    *)
(* driven from the 100Hz system timer": the timer can always interrupt     *)
(* again.                                                                  *)
Preemptible == []<>(~intr.masked)
=============================================================================
