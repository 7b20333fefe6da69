---------------------------- MODULE SchedProofs ----------------------------
(***************************************************************************)
(* Theorems about Sched, for every set of tasks, every priority            *)
(* assignment, quantum and signal set.                                     *)
(***************************************************************************)
EXTENDS Sched, ListLemmas

USE TasksAssumption, PrioAssumption, QuantumAssumption, CountAssumption,
    EnvAssumption

-----------------------------------------------------------------------------
(* The run queues. *)

WellFormed(q) == q \in [Levels -> Seq(Tasks)] /\ QueuesDisjoint(q)

(* Every task has a queue ("and.b #3"). *)
LEMMA QueueLevel == ASSUME NEW t \in Tasks PROVE Queue(t) \in Levels
  <1>1. Prio[t] \in 0..255
    OBVIOUS
  <1> QED BY <1>1 DEF Queue, Levels

(* The members of a set of queues, by level. *)
LEMMA MembersByLevel ==
  ASSUME NEW q, NEW x
  PROVE  x \in Members(q) <=> \E p \in Levels : x \in ToSet(q[p])
  BY DEF Members

(* Queueing a task that is on no queue, given what the list insertion did  *)
(* to the one queue it touched.                                            *)
LEMMA Enqueue ==
  ASSUME NEW q, WellFormed(q), NEW u \in Tasks, u \notin Members(q),
         NEW s \in Seq(Tasks), ToSet(s) = ToSet(q[Queue(u)]) \cup {u},
         IsInjective(q[Queue(u)]) => IsInjective(s)
  PROVE  /\ WellFormed([q EXCEPT ![Queue(u)] = s])
         /\ Members([q EXCEPT ![Queue(u)] = s]) = Members(q) \cup {u}
  <1> DEFINE d == [q EXCEPT ![Queue(u)] = s]
  <1>1. Queue(u) \in Levels
    BY QueueLevel
  <1>2. /\ d \in [Levels -> Seq(Tasks)]
        /\ d[Queue(u)] = s
        /\ \A p \in Levels : p # Queue(u) => d[p] = q[p]
    BY <1>1 DEF WellFormed
  <1> HIDE DEF d
  <1>3. QueuesDisjoint(d)
    <2>1. \A p \in Levels : IsInjective(d[p])
      BY <1>1, <1>2 DEF WellFormed, QueuesDisjoint
    <2>2. ASSUME NEW p \in Levels, NEW r \in Levels, p # r
          PROVE  ToSet(d[p]) \cap ToSet(d[r]) = {}
      <3>1. ToSet(q[p]) \cap ToSet(q[r]) = {}
        BY <2>2 DEF WellFormed, QueuesDisjoint
      <3>2. u \notin ToSet(q[p]) /\ u \notin ToSet(q[r])
        BY MembersByLevel
      <3>3. CASE p = Queue(u)
        BY <1>2, <2>2, <3>1, <3>2, <3>3
      <3>4. CASE r = Queue(u)
        BY <1>2, <2>2, <3>1, <3>2, <3>4
      <3>5. CASE p # Queue(u) /\ r # Queue(u)
        BY <1>2, <3>1, <3>5
      <3> QED BY <3>3, <3>4, <3>5
    <2> QED BY <2>1, <2>2 DEF QueuesDisjoint
  <1>4. ASSUME NEW x PROVE x \in Members(d) <=> x \in Members(q) \/ x = u
    BY <1>1, <1>2, MembersByLevel
  <1> QED BY <1>2, <1>3, <1>4 DEF d, WellFormed

(* list_add_head and list_add_tail on the queue of a task. *)
LEMMA EnqueueHead ==
  ASSUME NEW q, WellFormed(q), NEW u \in Tasks, u \notin Members(q)
  PROVE  LET d == [q EXCEPT ![Queue(u)] = <<u>> \o @]
         IN  WellFormed(d) /\ Members(d) = Members(q) \cup {u}
  <1>1. Queue(u) \in Levels /\ q[Queue(u)] \in Seq(Tasks)
    BY QueueLevel DEF WellFormed
  <1>2. u \notin ToSet(q[Queue(u)])
    BY <1>1, MembersByLevel
  <1> DEFINE s == <<u>> \o q[Queue(u)]
  <1>3. s \in Seq(Tasks) /\ ToSet(s) = ToSet(q[Queue(u)]) \cup {u}
        /\ (IsInjective(q[Queue(u)]) => IsInjective(s))
    BY <1>1, <1>2, AddHead
  <1> HIDE DEF s
  <1>4. /\ WellFormed([q EXCEPT ![Queue(u)] = s])
        /\ Members([q EXCEPT ![Queue(u)] = s]) = Members(q) \cup {u}
    BY <1>3, Enqueue
  <1> QED BY <1>4 DEF s

LEMMA EnqueueTail ==
  ASSUME NEW q, WellFormed(q), NEW u \in Tasks, u \notin Members(q)
  PROVE  LET d == [q EXCEPT ![Queue(u)] = Append(@, u)]
         IN  WellFormed(d) /\ Members(d) = Members(q) \cup {u}
  <1>1. Queue(u) \in Levels /\ q[Queue(u)] \in Seq(Tasks)
    BY QueueLevel DEF WellFormed
  <1>2. u \notin ToSet(q[Queue(u)])
    BY <1>1, MembersByLevel
  <1> DEFINE s == Append(q[Queue(u)], u)
  <1>3. s \in Seq(Tasks) /\ ToSet(s) = ToSet(q[Queue(u)]) \cup {u}
        /\ (IsInjective(q[Queue(u)]) => IsInjective(s))
    BY <1>1, <1>2, AddTail
  <1> HIDE DEF s
  <1>4. /\ WellFormed([q EXCEPT ![Queue(u)] = s])
        /\ Members([q EXCEPT ![Queue(u)] = s]) = Members(q) \cup {u}
    BY <1>3, Enqueue
  <1> QED BY <1>4 DEF s

(* The scan from level 3 down finds the highest non-empty queue. *)
LEMMA TopQueue ==
  ASSUME NEW q, Candidates(q) # {}
  PROVE  Top(q) \in Candidates(q) /\ \A r \in Candidates(q) : r <= Top(q)
  <1> DEFINE C == Candidates(q)
  <1>1. C \subseteq {0, 1, 2, 3} /\ C # {}
    BY DEF Candidates, Levels
  <1> HIDE DEF C
  <1>2. \E p \in C : \A r \in C : r <= p
    <2>1. CASE 3 \in C
      BY <1>1, <2>1
    <2>2. CASE 3 \notin C /\ 2 \in C
      BY <1>1, <2>2
    <2>3. CASE 3 \notin C /\ 2 \notin C /\ 1 \in C
      BY <1>1, <2>3
    <2>4. CASE 3 \notin C /\ 2 \notin C /\ 1 \notin C
      <3>1. 0 \in C /\ \A r \in C : r = 0
        BY <1>1, <2>4, ZenonT(40)
      <3> QED BY <3>1
    <2> QED BY <2>1, <2>2, <2>3, <2>4
  <1> QED BY <1>2 DEF C, Top

(* Unlinking a task from the queue p it is on, given what that did to the  *)
(* one queue it touched.                                                   *)
LEMMA Removed ==
  ASSUME NEW q, NEW d, NEW p \in Levels, NEW n \in Tasks, NEW s \in Seq(Tasks),
         WellFormed(q), d = [q EXCEPT ![p] = s],
         ToSet(q[p]) = ToSet(s) \cup {n}, IsInjective(s), n \notin ToSet(s)
  PROVE  WellFormed(d) /\ n \notin Members(d) /\ Members(q) = Members(d) \cup {n}
  <1>1. /\ d \in [Levels -> Seq(Tasks)] /\ d[p] = s
        /\ \A r \in Levels : r # p => d[r] = q[r]
    BY DEF WellFormed
  <1>2. \A r \in Levels : ToSet(d[r]) \subseteq ToSet(q[r])
    BY <1>1
  <1>3. QueuesDisjoint(d)
    <2>1. \A r \in Levels : IsInjective(d[r])
      BY <1>1 DEF WellFormed, QueuesDisjoint
    <2> QED BY <1>2, <2>1 DEF WellFormed, QueuesDisjoint
  <1>4. n \notin Members(d)
    <2> SUFFICES ASSUME NEW r \in Levels, n \in ToSet(d[r]) PROVE FALSE
      BY MembersByLevel
    <2>1. r # p
      BY <1>1
    <2>2. n \in ToSet(q[r]) /\ n \in ToSet(q[p])
      BY <1>1, <2>1
    <2> QED BY <2>1, <2>2 DEF WellFormed, QueuesDisjoint
  <1>5. ASSUME NEW x PROVE x \in Members(q) <=> x \in Members(d) \/ x = n
    <2>1. ASSUME NEW r \in Levels, x \in ToSet(q[r])
          PROVE  x \in ToSet(d[r]) \/ x = n
      BY <1>1, <2>1
    <2>2. n \in ToSet(q[p])
      OBVIOUS
    <2> QED BY <1>2, <2>1, <2>2, MembersByLevel
  <1> QED BY <1>1, <1>3, <1>4, <1>5 DEF WellFormed

(* list_node_delete of a task that is on the list. *)
LEMMA UnlinkNode ==
  ASSUME NEW s \in Seq(Tasks), IsInjective(s), NEW e \in ToSet(s)
  PROVE  /\ Unlink(s, e) \in Seq(Tasks)
         /\ ToSet(s) = ToSet(Unlink(s, e)) \cup {e}
         /\ IsInjective(Unlink(s, e)) /\ e \notin ToSet(Unlink(s, e))
  <1> DEFINE k == CHOOSE i \in DOMAIN s : s[i] = e
  <1>1. k \in 1..Len(s) /\ s[k] = e
    <2>1. \E i \in DOMAIN s : s[i] = e
      BY DEF ToSet
    <2> QED BY <2>1
  <1>2. Unlink(s, e) = RemoveAt(s, k)
    BY DEF Unlink
  <1> HIDE DEF k
  <1> QED BY <1>1, <1>2, DeleteNode

(* task_switch_next takes one task off the queues, or picks idle. *)
LEMMA Dequeue ==
  ASSUME NEW q, WellFormed(q)
  PROVE  /\ WellFormed(Dequeued(q))
         /\ NextTask(q) \in Tasks \cup {Idle}
         /\ NextTask(q) \notin Members(Dequeued(q))
         /\ Members(q) \cup {Idle} =
            Members(Dequeued(q)) \cup {NextTask(q), Idle}
  <1>1. CASE Candidates(q) = {}
    <2>1. Dequeued(q) = q /\ NextTask(q) = Idle
      BY <1>1 DEF Dequeued, NextTask
    <2>2. ASSUME NEW x \in Members(q) PROVE x \in Tasks
      <3>1. PICK p \in Levels : x \in ToSet(q[p])
        BY MembersByLevel
      <3>2. q[p] \in Seq(Tasks)
        BY DEF WellFormed
      <3> QED BY <3>1, <3>2, Positions
    <2> QED BY <2>1, <2>2
  <1>2. CASE Candidates(q) # {}
    <2> DEFINE p == Top(q)
               n == Head(q[p])
               s == Tail(q[p])
               d == [q EXCEPT ![p] = s]
    <2>1. p \in Levels /\ q[p] # <<>> /\ q[p] \in Seq(Tasks)
      BY <1>2, TopQueue DEF Candidates, WellFormed
    <2>2. Dequeued(q) = d /\ NextTask(q) = n
      BY <1>2 DEF Dequeued, NextTask
    <2> HIDE DEF p
    <2>3. IsInjective(q[p])
      BY <2>1 DEF WellFormed, QueuesDisjoint
    <2>4. /\ n \in Tasks /\ s \in Seq(Tasks)
          /\ ToSet(q[p]) = ToSet(s) \cup {n}
          /\ IsInjective(s) /\ n \notin ToSet(s)
      BY <2>1, <2>3, DeleteHead
    <2>d. d = [q EXCEPT ![p] = s]
      OBVIOUS
    <2> HIDE DEF n, s, d
    <2>5. /\ WellFormed(d) /\ n \notin Members(d)
          /\ Members(q) = Members(d) \cup {n}
      BY <2>1, <2>4, <2>d, Removed
    <2> QED BY <2>2, <2>4, <2>5
  <1> QED BY <1>1, <1>2

-----------------------------------------------------------------------------
(* The inductive invariant.  Allocation and the shape of the exit path are *)
(* part of it: that a task is linked once depends on a new Task being one  *)
(* that no list holds, and on NULL never being queued.                     *)
(* After a Tear the lists of the model stand still, so that its parts hold  *)
(* there too; they say something of the code only while Intact does.       *)
Linked ==
  /\ QueuesDisjoint(runq)
  /\ IsInjective(sleeping)
  /\ Ready \cap Asleep = {}
  /\ {current, Taken} \cap (Ready \cup Asleep) = {}
FoundLinked == pc = "found" => arg \in ToSet(runq[level])
Allocated ==
  (Ready \cup Asleep \cup {current, Taken}) \ {Idle, Null} \subseteq live
Woken == \A t \in Ready : ctx[t] = "wait" => waits[t] \cap ret[t] # {}
Inv == TypeOK /\ ExitShape /\ Linked /\ FoundLinked /\ Allocated /\ Woken

(* The variables that say where each task is. *)
PlaceInv(q, sl, cu, ar, lv) ==
  /\ WellFormed(q)
  /\ sl \in Seq(Tasks) /\ IsInjective(sl)
  /\ Members(q) \cap ToSet(sl) = {}
  /\ {cu, ar} \cap (Members(q) \cup ToSet(sl)) = {}
  /\ (Members(q) \cup ToSet(sl) \cup {cu, ar}) \ {Idle, Null} \subseteq lv

LEMMA InvPlaces ==
  Inv => PlaceInv(runq, sleeping, current, Taken, live)
  BY DEF Inv, TypeOK, Linked, Allocated, PlaceInv, WellFormed,
         Ready, Asleep

(* The members of the queues and of the sleeping list are tasks. *)
LEMMA MembersAreTasks ==
  ASSUME NEW q, WellFormed(q) PROVE Members(q) \subseteq Tasks
  <1> SUFFICES ASSUME NEW x \in Members(q) PROVE x \in Tasks
    OBVIOUS
  <1>1. PICK p \in Levels : x \in ToSet(q[p])
    BY MembersByLevel
  <1>2. q[p] \in Seq(Tasks)
    BY DEF WellFormed
  <1> QED BY <1>1, <1>2, Positions

LEMMA ListOfTasks ==
  ASSUME NEW s \in Seq(Tasks) PROVE ToSet(s) \subseteq Tasks
  BY Positions

(* The interrupt state stays a word and a mask through every call. *)
LEMMA IntrTypes ==
  ASSUME NEW i \in IntrState
  PROVE  /\ disable_interrupts(i) \in IntrState
         /\ enable_interrupts(i) \in IntrState
         /\ \A m \in BOOLEAN : SetSR(i, m) \in IntrState
  <1>0. i.count \in Nat /\ i.masked \in BOOLEAN
    BY DEF IntrState
  <1>1. disable_interrupts(i) \in IntrState
    BY <1>0 DEF IntrState, disable_interrupts
  <1>2. enable_interrupts(i) \in IntrState
    <2>1. CASE i.count = 0
      BY <2>1 DEF enable_interrupts
    <2>2. CASE i.count = 1
      BY <1>0, <2>2 DEF IntrState, enable_interrupts
    <2>3. CASE i.count > 1
      <3>1. i.count - 1 \in Nat /\ i.count # 0 /\ i.count # 1
        BY <1>0, <2>3
      <3>2. enable_interrupts(i) = [count |-> i.count - 1, masked |-> i.masked]
        BY <3>1 DEF enable_interrupts
      <3> QED BY <1>0, <3>1, <3>2 DEF IntrState
    <2> QED BY <1>0, <2>1, <2>2, <2>3
  <1>3. \A m \in BOOLEAN : SetSR(i, m) \in IntrState
    BY DEF IntrState, SetSR
  <1> QED BY <1>1, <1>2, <1>3

LEMMA IntrCompositions ==
  ASSUME NEW i \in IntrState, NEW k
  PROVE  /\ Bracketed(i) \in IntrState
         /\ SetSR(Bracketed(i), FALSE) \in IntrState
         /\ Resumed(k, i) \in IntrState
         /\ Resumed(k, disable_interrupts(i)) \in IntrState
  <1>1. Bracketed(i) \in IntrState
    BY IntrTypes DEF Bracketed
  <1>2. ASSUME NEW j \in IntrState PROVE Resumed(k, j) \in IntrState
    <2>1. SetSR(j, TRUE) \in IntrState
      BY IntrTypes
    <2>2. enable_interrupts(SetSR(j, TRUE)) \in IntrState
      BY <2>1, IntrTypes
    <2> QED BY <2>2, IntrTypes DEF Resumed
  <1> QED BY <1>1, <1>2, IntrTypes

(* A switch that takes the next task off well-formed queues q, with the    *)
(* sleeping list sl, when nobody but the members of q and sl needs a place.*)
LEMMA SwitchPlaces ==
  ASSUME NEW q, NEW sl, NEW lv,
         PlaceInv(q, sl, Null, Null, lv)
  PROVE  PlaceInv(Dequeued(q), sl, NextTask(q), Null, lv)
  <1>1. /\ WellFormed(Dequeued(q))
        /\ NextTask(q) \in Tasks \cup {Idle}
        /\ NextTask(q) \notin Members(Dequeued(q))
        /\ Members(q) \cup {Idle} = Members(Dequeued(q)) \cup {NextTask(q), Idle}
    BY Dequeue DEF PlaceInv
  <1>2. Members(q) \subseteq Tasks /\ ToSet(sl) \subseteq Tasks
        /\ Members(Dequeued(q)) \subseteq Tasks
    BY <1>1, MembersAreTasks, ListOfTasks DEF PlaceInv
  <1>3. Members(Dequeued(q)) \subseteq Members(q)
    BY <1>1, <1>2
  <1>4. NextTask(q) # Idle => NextTask(q) \in Members(q)
    BY <1>1
  <1> QED BY <1>1, <1>2, <1>3, <1>4 DEF PlaceInv

(* The invariant holds in the next state if the places, the types, the     *)
(* exit path and the wake-ups are right there.                             *)
LEMMA InvNext ==
  ASSUME TypeOK', ExitShape', Woken', FoundLinked',
         PlaceInv(runq', sleeping', current', Taken', live')
  PROVE  Inv'
  BY DEF Inv, Linked, Allocated, PlaceInv, WellFormed, Ready, Asleep

(* Delivering a signal moves the target from the sleeping list to the head *)
(* of its queue, or does nothing.                                          *)
LEMMA DeliverPlaces ==
  ASSUME Inv, NEW u \in Tasks, NEW m \in SUBSET Signals, Deliver(u, m)
  PROVE  /\ PlaceInv(runq', sleeping', current, Taken, live)
         /\ ret' \in [Tasks -> SUBSET Signals]
         /\ Members(runq') \subseteq Members(runq) \cup {u}
         /\ Members(runq') \cup ToSet(sleeping') = Ready \cup Asleep
         /\ \A t \in Tasks : t # u => ret'[t] = ret[t]
         /\ u \in Members(runq') => u \in Ready \/ waits[u] \cap ret'[u] # {}
         /\ u \in Ready => ret'[u] = ret[u]
         /\ \A p \in Levels : ToSet(runq[p]) \subseteq ToSet(runq'[p])
  <1>0. PlaceInv(runq, sleeping, current, Taken, live)
    BY InvPlaces
  <1>1. CASE u \in Asleep /\ waits[u] \cap m # {}
    <2>2. /\ sleeping' = Unlink(sleeping, u)
          /\ ret' = [ret EXCEPT ![u] = m]
          /\ runq' = [runq EXCEPT ![Queue(u)] = <<u>> \o @]
      BY <1>1 DEF Deliver, Wakes
    <2>3. /\ sleeping' \in Seq(Tasks) /\ IsInjective(sleeping')
          /\ Asleep = ToSet(sleeping') \cup {u} /\ u \notin ToSet(sleeping')
      BY <1>0, <1>1, <2>2, UnlinkNode DEF PlaceInv, Asleep
    <2>4. u \notin Members(runq)
      BY <1>0, <1>1 DEF PlaceInv, Asleep
    <2>5. WellFormed(runq') /\ Members(runq') = Members(runq) \cup {u}
      BY <1>0, <2>2, <2>4, EnqueueHead DEF PlaceInv
    <2>6. PlaceInv(runq', sleeping', current, Taken, live)
      BY <1>0, <1>1, <2>3, <2>4, <2>5 DEF PlaceInv, Asleep
    <2>7. ret' \in [Tasks -> SUBSET Signals] /\ ret'[u] = m
          /\ \A t \in Tasks : t # u => ret'[t] = ret[t]
      BY <2>2 DEF Inv, TypeOK
    <2>8. \A p \in Levels : ToSet(runq[p]) \subseteq ToSet(runq'[p])
      <3>1. Queue(u) \in Levels /\ runq \in [Levels -> Seq(Tasks)]
        BY <1>0, QueueLevel DEF PlaceInv, WellFormed
      <3>2. ToSet(<<u>> \o runq[Queue(u)]) = ToSet(runq[Queue(u)]) \cup {u}
        BY <3>1, AddHead
      <3> QED BY <2>2, <3>1, <3>2
    <2> QED BY <1>1, <2>3, <2>4, <2>5, <2>6, <2>7, <2>8 DEF Ready, Asleep
  <1>2. CASE ~(u \in Asleep /\ waits[u] \cap m # {})
    <2>1. UNCHANGED <<sleeping, ret, runq>>
      BY <1>2 DEF Deliver, Wakes
    <2> QED BY <1>0, <2>1 DEF Inv, TypeOK, Ready, Asleep
  <1> QED BY <1>1, <1>2

(* What a switch leaves, as far as types, the exit path and wake-ups go. *)
LEMMA SwitchTypes ==
  ASSUME NEW u \in Tasks \cup {Idle}, NEW q, NEW i \in IntrState,
         NEW c \in [Threads \cup {Null} -> Contexts],
         SwitchTo(u, q, c, i)
  PROVE  /\ current' = u /\ runq' = q /\ pc' = "run" /\ arg' = Null
         /\ current' \in Threads \cup {Null} /\ u # Null
         /\ ctx' \in [Threads \cup {Null} -> Contexts]
         /\ \A t \in Threads : ctx'[t] = "wait" => c[t] = "wait"
         /\ intr' \in IntrState
         /\ pc' \in PCs /\ arg' \in Threads \cup {Null}
         /\ ExitShape' /\ FoundLinked' /\ Taken' = Null
         /\ level' \in Levels /\ late' \in SUBSET Tasks
  <1>1. u \in Threads /\ u # Null
    BY DEF Threads
  <1>2. intr' \in IntrState
    BY IntrCompositions DEF SwitchTo
  <1>3. ctx' \in [Threads \cup {Null} -> Contexts]
    BY <1>1 DEF SwitchTo, Contexts
  <1>4. \A t \in Threads : ctx'[t] = "wait" => c[t] = "wait"
    BY <1>1 DEF SwitchTo, Contexts
  <1> QED BY <1>1, <1>2, <1>3, <1>4
          DEF SwitchTo, PCs, ExitShape, FoundLinked, Taken, Levels

LEMMA InitInv == Init => Inv
  <1> SUFFICES ASSUME Init PROVE Inv
    OBVIOUS
  <1>1. TypeOK
    <2>1. intr \in IntrState
      BY DEF Init, IntrState, disable_interrupts
    <2>2. runq \in [Levels -> Seq(Tasks)] /\ sleeping \in Seq(Tasks)
      BY DEF Init
    <2> QED BY <2>1, <2>2 DEF Init, TypeOK, Threads, Contexts, PCs, Levels
  <1>2. \A p \in Levels : runq[p] = <<>>
    BY DEF Init
  <1>3. ToSet(<<>>) = {} /\ IsInjective(<<>>)
    BY DEF ToSet, IsInjective
  <1>4. Ready = {} /\ Asleep = {}
    BY <1>2, <1>3 DEF Ready, Members, Asleep, Init
  <1>5. QueuesDisjoint(runq) /\ IsInjective(sleeping)
    BY <1>2, <1>3 DEF QueuesDisjoint, Init
  <1> QED BY <1>1, <1>4, <1>5
          DEF Inv, Init, ExitShape, Linked, FoundLinked, Allocated, Woken, Taken

LEMMA ScheduleInv ==
  ASSUME Inv, NEW t \in Threads, NEW u \in Tasks, task_schedule(t, u)
  PROVE  Inv'
  <1>0. PlaceInv(runq, sleeping, current, Taken, live)
    BY InvPlaces
  <1>r. pc = "run" /\ pc' = "run" /\ Taken' = Taken
    BY DEF task_schedule, Running, Taken
  <1>1. u \notin Members(runq) /\ u \notin ToSet(sleeping)
        /\ u # current /\ u # Taken
    BY <1>0 DEF PlaceInv, task_schedule
  <1>2. WellFormed(runq') /\ Members(runq') = Members(runq) \cup {u}
    BY <1>0, <1>1, EnqueueHead DEF PlaceInv, task_schedule
  <1>a. UNCHANGED <<sleeping, current>> /\ live' = live \cup {u}
    BY DEF task_schedule
  <1>3. PlaceInv(runq', sleeping', current', Taken', live')
    BY <1>0, <1>1, <1>2, <1>a, <1>r DEF PlaceInv
  <1>4. TypeOK'
    <2>1. intr' \in IntrState
      BY IntrCompositions DEF Inv, TypeOK, task_schedule
    <2>2. ctx' \in [Threads \cup {Null} -> Contexts]
      BY DEF Inv, TypeOK, task_schedule, Contexts
    <2>3. depth' \in [Tasks -> Nat]
      BY DEF Inv, TypeOK, task_schedule
    <2>4. live' \in SUBSET (Tasks \cup {InitTask})
      BY DEF Inv, TypeOK, task_schedule
    <2> QED BY <1>2, <2>1, <2>2, <2>3, <2>4
            DEF Inv, TypeOK, task_schedule, WellFormed
  <1>5. ExitShape' /\ FoundLinked'
    BY <1>r DEF Inv, ExitShape, FoundLinked, task_schedule
  <1>6. Woken'
    <2> SUFFICES ASSUME NEW x \in Members(runq'), ctx'[x] = "wait"
                 PROVE  waits'[x] \cap ret'[x] # {}
      BY DEF Woken, Ready
    <2>1. x \in Tasks
      BY <1>2, MembersAreTasks
    <2>2. x # u
      BY <2>1 DEF Inv, TypeOK, task_schedule, Threads
    <2>3. x \in Ready /\ ctx[x] = "wait"
      BY <1>2, <2>1, <2>2 DEF Inv, TypeOK, task_schedule, Threads, Ready
    <2> QED BY <2>3 DEF Inv, Woken, task_schedule
  <1> QED BY <1>3, <1>4, <1>5, <1>6, InvNext

LEMMA WaitInv ==
  ASSUME Inv, NEW t \in Tasks, NEW m \in SUBSET Signals, task_wait(t, m)
  PROVE  Inv'
  <1>0. PlaceInv(runq, sleeping, t, Null, live) /\ current = t
    BY InvPlaces DEF task_wait, Running, Inv, ExitShape, Taken
  <1> DEFINE sl == <<t>> \o sleeping
             c == [ctx EXCEPT ![t] = "wait"]
  <1>1. sl \in Seq(Tasks) /\ IsInjective(sl) /\ ToSet(sl) = ToSet(sleeping) \cup {t}
    BY <1>0, AddHead DEF PlaceInv
  <1> HIDE DEF sl
  <1>2. PlaceInv(runq, sl, Null, Null, live)
    <2>1. Members(runq) \subseteq Tasks /\ ToSet(sl) \subseteq Tasks
      BY <1>0, <1>1, MembersAreTasks, ListOfTasks DEF PlaceInv
    <2> QED BY <1>0, <1>1, <2>1 DEF PlaceInv
  <1>3. PlaceInv(Dequeued(runq), sl, NextTask(runq), Null, live)
    BY <1>2, SwitchPlaces
  <1>4. NextTask(runq) \in Tasks \cup {Idle} /\ WellFormed(Dequeued(runq))
        /\ Members(Dequeued(runq)) \cup {NextTask(runq), Idle} = Members(runq) \cup {Idle}
    BY <1>0, Dequeue DEF PlaceInv
  <1>5. /\ SwitchTo(NextTask(runq), Dequeued(runq), c, disable_interrupts(intr))
        /\ sleeping' = sl /\ waits' = [waits EXCEPT ![t] = m]
        /\ UNCHANGED <<ticks, ret, live, depth>>
    BY DEF task_wait, sl
  <1>6. c \in [Threads \cup {Null} -> Contexts] /\ disable_interrupts(intr) \in IntrState
    BY IntrTypes DEF Inv, TypeOK, Threads, Contexts
  <1>7. /\ current' = NextTask(runq) /\ runq' = Dequeued(runq) /\ arg' = Null
        /\ pc' \in PCs /\ ExitShape' /\ intr' \in IntrState
        /\ FoundLinked' /\ Taken' = Null /\ level' \in Levels /\ late' \in SUBSET Tasks
        /\ current' \in Threads \cup {Null} /\ arg' \in Threads \cup {Null}
        /\ ctx' \in [Threads \cup {Null} -> Contexts]
        /\ \A x \in Threads : ctx'[x] = "wait" => c[x] = "wait"
    BY <1>4, <1>5, <1>6, SwitchTypes
  <1>8. TypeOK'
    BY <1>1, <1>4, <1>5, <1>7 DEF Inv, TypeOK, WellFormed
  <1>9. Woken'
    <2> SUFFICES ASSUME NEW x \in Members(runq'), ctx'[x] = "wait"
                 PROVE  waits'[x] \cap ret'[x] # {}
      BY DEF Woken, Ready
    <2>1. x \in Tasks
      BY <1>4, <1>7, MembersAreTasks
    <2>2. x \in Members(runq)
      BY <1>4, <1>7, <2>1
    <2>3. x # t
      BY <1>0, <2>2 DEF PlaceInv
    <2>4. ctx[x] = "wait"
      BY <1>7, <2>1, <2>3 DEF Inv, TypeOK, Threads
    <2>5. waits[x] \cap ret[x] # {}
      BY <2>2, <2>4 DEF Inv, Woken, Ready
    <2> QED BY <1>5, <2>1, <2>3, <2>5 DEF Inv, TypeOK
  <1> QED BY <1>3, <1>5, <1>7, <1>8, <1>9, InvNext

(* Both callers of task_signal leave everything else alone that matters. *)
LEMMA DeliverInv ==
  ASSUME Inv, NEW u \in Tasks, NEW m \in SUBSET Signals, Deliver(u, m),
         intr' \in IntrState, ctx' \in [Threads \cup {Null} -> Contexts],
         \A t \in Threads : ctx'[t] = "wait" => ctx[t] = "wait",
         late' \in SUBSET Tasks,
         UNCHANGED <<current, ticks, waits, live, depth, pc, arg, level>>
  PROVE  Inv'
  <1>1. /\ PlaceInv(runq', sleeping', current, Taken, live)
        /\ ret' \in [Tasks -> SUBSET Signals]
        /\ Members(runq') \subseteq Members(runq) \cup {u}
        /\ \A t \in Tasks : t # u => ret'[t] = ret[t]
        /\ u \in Members(runq') => u \in Ready \/ waits[u] \cap ret'[u] # {}
        /\ u \in Ready => ret'[u] = ret[u]
        /\ \A p \in Levels : ToSet(runq[p]) \subseteq ToSet(runq'[p])
    BY DeliverPlaces
  <1>2. TypeOK'
    BY <1>1 DEF Inv, TypeOK, PlaceInv, WellFormed
  <1>3. ExitShape' /\ FoundLinked' /\ Taken' = Taken
    BY <1>1 DEF Inv, TypeOK, ExitShape, FoundLinked, Taken
  <1>4. Woken'
    <2> SUFFICES ASSUME NEW x \in Members(runq'), ctx'[x] = "wait"
                 PROVE  waits'[x] \cap ret'[x] # {}
      BY DEF Woken, Ready
    <2>1. x \in Tasks /\ x \in Threads
      BY <1>1, MembersAreTasks DEF PlaceInv, Threads
    <2>2. CASE x \in Ready
      <3>1. waits[x] \cap ret[x] # {}
        BY <2>1, <2>2 DEF Inv, Woken
      <3>2. ret'[x] = ret[x]
        BY <1>1, <2>1, <2>2
      <3> QED BY <3>1, <3>2
    <2>3. CASE x \notin Ready
      BY <1>1, <2>1, <2>3 DEF Ready
    <2> QED BY <2>2, <2>3
  <1> QED BY <1>1, <1>2, <1>3, <1>4, InvNext

(* The running thread goes to the tail of its queue unless it is idle or   *)
(* NULL, and the next one is taken: nobody loses or doubles a place.       *)
LEMMA YieldInv ==
  ASSUME Inv, NEW k \in Contexts \ {"wait"}, NEW i \in IntrState, task_yield(k, i),
         ticks' \in 1..Quantum, UNCHANGED <<sleeping, waits, ret, live, depth>>
  PROVE  Inv'
  <1>0. PlaceInv(runq, sleeping, current, Taken, live)
    BY InvPlaces
  <1> DEFINE q == IF current \in Tasks
                  THEN [runq EXCEPT ![Queue(current)] = Append(@, current)]
                  ELSE runq
             c == [ctx EXCEPT ![current] = k]
  <1>1. /\ WellFormed(q)
        /\ Members(q) = Members(runq) \cup ({current} \cap Tasks)
    <2>1. CASE current \in Tasks
      <3>1. current \notin Members(runq) /\ WellFormed(runq)
        BY <1>0 DEF PlaceInv
      <3>2. {current} \cap Tasks = {current}
        BY <2>1
      <3> QED BY <2>1, <3>1, <3>2, EnqueueTail
    <2>2. CASE current \notin Tasks
      BY <1>0, <2>2 DEF PlaceInv
    <2> QED BY <2>1, <2>2
  <1>2. SwitchTo(NextTask(q), Dequeued(q), c, i)
    BY DEF task_yield
  <1>3. c \in [Threads \cup {Null} -> Contexts]
    BY DEF Inv, TypeOK
  <1>c. \A t \in Threads : c[t] = "wait" => ctx[t] = "wait" /\ t # current
    BY DEF Inv, TypeOK
  <1> HIDE DEF q, c
  <1>4. PlaceInv(q, sleeping, Null, Null, live)
    <2>1. Members(q) \subseteq Tasks /\ ToSet(sleeping) \subseteq Tasks
      BY <1>0, <1>1, MembersAreTasks, ListOfTasks DEF PlaceInv
    <2> QED BY <1>0, <1>1, <2>1 DEF PlaceInv
  <1>5. PlaceInv(Dequeued(q), sleeping, NextTask(q), Null, live)
    BY <1>4, SwitchPlaces
  <1>6. NextTask(q) \in Tasks \cup {Idle} /\ WellFormed(Dequeued(q))
        /\ Members(Dequeued(q)) \cup {NextTask(q), Idle} = Members(q) \cup {Idle}
    BY <1>1, Dequeue
  <1>7. /\ current' = NextTask(q) /\ runq' = Dequeued(q) /\ arg' = Null
        /\ pc' \in PCs /\ ExitShape' /\ intr' \in IntrState
        /\ FoundLinked' /\ Taken' = Null /\ level' \in Levels /\ late' \in SUBSET Tasks
        /\ current' \in Threads \cup {Null} /\ arg' \in Threads \cup {Null}
        /\ ctx' \in [Threads \cup {Null} -> Contexts]
        /\ \A x \in Threads : ctx'[x] = "wait" => c[x] = "wait"
    BY <1>2, <1>3, <1>6, SwitchTypes
  <1>8. TypeOK'
    BY <1>6, <1>7 DEF Inv, TypeOK, WellFormed
  <1>9. Woken'
    <2> SUFFICES ASSUME NEW x \in Members(runq'), ctx'[x] = "wait"
                 PROVE  waits'[x] \cap ret'[x] # {}
      BY DEF Woken, Ready
    <2>1. x \in Tasks /\ x \in Threads
      BY <1>6, <1>7, MembersAreTasks DEF Threads
    <2>2. ctx[x] = "wait" /\ x # current
      BY <1>c, <1>7, <2>1
    <2>3. x \in Ready
      BY <1>1, <1>6, <1>7, <2>1, <2>2 DEF Ready
    <2> QED BY <2>2, <2>3 DEF Inv, Woken
  <1> QED BY <1>5, <1>7, <1>8, <1>9, InvNext

LEMMA TickInv == ASSUME Inv, Tick PROVE Inv'
  <1>1. CASE ticks > 1
    <2>1. /\ ticks' = ticks - 1 /\ intr' = SetSR(Bracketed(intr), FALSE)
          /\ UNCHANGED <<current, runq, ctx, pc, arg, level, late, sleeping, waits, ret,
                         live, depth>>
      BY <1>1 DEF Tick
    <2>2. intr' \in IntrState
      BY <2>1, IntrCompositions DEF Inv, TypeOK
    <2>3. ticks' \in 1..Quantum
      BY <1>1, <2>1 DEF Inv, TypeOK
    <2>4. TypeOK'
      BY <2>1, <2>2, <2>3 DEF Inv, TypeOK
    <2>5. ExitShape' /\ Woken' /\ FoundLinked' /\ Taken' = Taken
      BY <2>1 DEF Inv, ExitShape, Woken, Ready, FoundLinked, Taken
    <2> QED BY <2>1, <2>4, <2>5, InvPlaces, InvNext
  <1>2. CASE ~(ticks > 1)
    <2> DEFINE k == IF current = Null THEN "lost"
                    ELSE IF pc = "load" \/ ctx[current] = "stuck" THEN "stuck"
                    ELSE "tick"
    <2>1. k \in Contexts \ {"wait"}
      BY DEF Contexts
    <2>2. task_yield(k, disable_interrupts(intr)) /\ ticks' = Quantum
          /\ UNCHANGED <<sleeping, waits, ret, live, depth>>
      BY <1>2 DEF Tick
    <2> HIDE DEF k
    <2>3. disable_interrupts(intr) \in IntrState
      BY IntrTypes DEF Inv, TypeOK
    <2>4. Quantum \in 1..Quantum
      OBVIOUS
    <2> QED BY <2>1, <2>2, <2>3, <2>4, YieldInv
  <1> QED BY <1>1, <1>2

(* Steps that leave every list alone. *)
LEMMA QuietInv ==
  ASSUME Inv, UNCHANGED <<runq, sleeping, waits, ret>>,
         TypeOK', ExitShape', FoundLinked',
         \A t \in Tasks : ctx'[t] = ctx[t],
         {current', Taken'} \ {Null, Idle} \subseteq {current, Taken},
         live \subseteq live' \cup ({Taken} \ {current', Taken'})
  PROVE  Inv'
  <1>0. PlaceInv(runq, sleeping, current, Taken, live)
    BY InvPlaces
  <1>1. Members(runq) \subseteq Tasks /\ ToSet(sleeping) \subseteq Tasks
    BY <1>0, MembersAreTasks, ListOfTasks DEF PlaceInv
  <1>2. PlaceInv(runq', sleeping', current', Taken', live')
    <2>1. {current', Taken'} \cap (Members(runq) \cup ToSet(sleeping)) = {}
      BY <1>0, <1>1 DEF PlaceInv
    <2>2. Taken \notin Members(runq) \cup ToSet(sleeping)
      BY <1>0 DEF PlaceInv
    <2>3. (Members(runq) \cup ToSet(sleeping) \cup {current', Taken'}) \ {Idle, Null}
             \subseteq live'
      BY <1>0, <2>2 DEF PlaceInv
    <2> QED BY <1>0, <2>1, <2>3 DEF PlaceInv
  <1>3. Woken'
    <2> SUFFICES ASSUME NEW x \in Ready, ctx'[x] = "wait"
                 PROVE  waits[x] \cap ret[x] # {}
      BY DEF Woken, Ready
    <2>1. x \in Tasks
      BY <1>1 DEF Ready
    <2> QED BY <2>1 DEF Inv, Woken
  <1> QED BY <1>2, <1>3, InvNext

(* list_node_delete in the exit path: the task found moves from its queue, *)
(* wherever on it it is by now, into the hands of the exit.                *)
LEMMA DeleteInv == ASSUME Inv, ExitDelete PROVE Inv'
  <1> DEFINE r == Unlink(runq[level], arg)
  <1>0. /\ PlaceInv(runq, sleeping, Null, Null, live) /\ current = Null
        /\ level \in Levels /\ arg \in ToSet(runq[level]) /\ arg \in Tasks
        /\ WellFormed(runq)
    BY InvPlaces DEF Inv, TypeOK, ExitShape, FoundLinked, ExitDelete, Taken, PlaceInv
  <1>1. runq[level] \in Seq(Tasks) /\ IsInjective(runq[level])
    BY <1>0 DEF WellFormed, QueuesDisjoint
  <1>2. /\ r \in Seq(Tasks) /\ ToSet(runq[level]) = ToSet(r) \cup {arg}
        /\ IsInjective(r) /\ arg \notin ToSet(r)
    BY <1>0, <1>1, UnlinkNode
  <1>3. runq' = [runq EXCEPT ![level] = r]
    BY DEF ExitDelete
  <1> HIDE DEF r
  <1>4. /\ WellFormed(runq') /\ arg \notin Members(runq')
        /\ Members(runq) = Members(runq') \cup {arg}
    BY <1>0, <1>2, <1>3, Removed
  <1>5. /\ pc' = "picked" /\ level' = 3 /\ Taken' = arg
        /\ UNCHANGED <<current, sleeping, intr, ticks, ctx, waits, ret, live, depth,
                       arg, late>>
    BY DEF ExitDelete, Taken
  <1>6. PlaceInv(runq', sleeping', current', Taken', live')
    <2>1. Members(runq') \subseteq Tasks
      BY <1>4, MembersAreTasks
    <2> QED BY <1>0, <1>4, <1>5, <2>1 DEF PlaceInv
  <1>7. TypeOK'
    BY <1>4, <1>5 DEF Inv, TypeOK, WellFormed, PCs, Levels
  <1>8. ExitShape' /\ FoundLinked'
    BY <1>0, <1>5 DEF ExitShape, FoundLinked
  <1>9. Woken'
    BY <1>4, <1>5 DEF Inv, Woken, Ready
  <1> QED BY <1>6, <1>7, <1>8, <1>9, InvNext

LEMMA ExitSwitchInv == ASSUME Inv, ExitSwitch PROVE Inv'
  <1>0. current \in Tasks \cup {Idle} /\ arg = Null /\ pc = "load" /\ Taken = Null
    BY DEF Inv, ExitShape, ExitSwitch, Taken
  <1>1. SwitchTo(current, runq, ctx, intr)
        /\ UNCHANGED <<sleeping, ticks, waits, ret, live, depth>>
    BY DEF ExitSwitch
  <1>2. /\ current' = current /\ runq' = runq /\ arg' = Null
        /\ pc' \in PCs /\ ExitShape' /\ intr' \in IntrState
        /\ FoundLinked' /\ Taken' = Null /\ level' \in Levels /\ late' \in SUBSET Tasks
        /\ current' \in Threads \cup {Null} /\ arg' \in Threads \cup {Null}
        /\ ctx' \in [Threads \cup {Null} -> Contexts]
        /\ \A x \in Threads : ctx'[x] = "wait" => ctx[x] = "wait"
    BY <1>0, <1>1, SwitchTypes, ZenonT(40) DEF Inv, TypeOK
  <1>3. TypeOK'
    BY <1>1, <1>2 DEF Inv, TypeOK
  <1>4. PlaceInv(runq', sleeping', current', Taken', live')
    BY <1>0, <1>1, <1>2, InvPlaces
  <1>5. Woken'
    <2> SUFFICES ASSUME NEW x \in Members(runq), ctx'[x] = "wait"
                 PROVE  waits[x] \cap ret[x] # {}
      BY <1>1, <1>2 DEF Woken, Ready
    <2>1. x \in Threads
      BY MembersAreTasks, InvPlaces DEF PlaceInv, Threads
    <2> QED BY <1>2, <2>1 DEF Inv, Woken, Ready
  <1> QED BY <1>2, <1>3, <1>4, <1>5, InvNext

(* Every step preserves the invariant: one case per operation. *)
LEMMA NextInv == Inv /\ [Next]_vars => Inv'
  <1> SUFFICES ASSUME Inv, [Next]_vars PROVE Inv'
    OBVIOUS
  <1>0. Sleepers \subseteq Tasks /\ Mortal \subseteq Tasks /\ Tasks \subseteq Threads
        /\ InitTask \in Threads
    BY DEF Threads
  <1>1. CASE UNCHANGED vars
    BY <1>1 DEF Inv, vars, TypeOK, ExitShape, Linked, FoundLinked, Allocated,
                Woken, Ready, Asleep, Taken
  <1>2. ASSUME NEW t \in Tasks, Disable(t) PROVE Inv'
    <2>1. intr' \in IntrState
      BY <1>2, IntrTypes DEF Disable, Inv, TypeOK
    <2>2. TypeOK' /\ ExitShape' /\ FoundLinked' /\ Taken' = Taken
      BY <1>2, <2>1 DEF Disable, Running, Inv, TypeOK, ExitShape, FoundLinked, Taken
    <2> QED BY <1>2, <2>2, QuietInv DEF Disable
  <1>3. ASSUME NEW t \in Tasks, Enable(t) PROVE Inv'
    <2>1. intr' \in IntrState
      BY <1>3, IntrTypes DEF Enable, Inv, TypeOK
    <2>2. TypeOK' /\ ExitShape' /\ FoundLinked' /\ Taken' = Taken
      BY <1>3, <2>1 DEF Enable, Running, Inv, TypeOK, ExitShape, FoundLinked, Taken
    <2> QED BY <1>3, <2>2, QuietInv DEF Enable
  <1>4. ASSUME NEW t \in Threads, NEW u \in Tasks, task_schedule(t, u) PROVE Inv'
    BY <1>4, ScheduleInv
  <1>5. ASSUME NEW t \in Tasks, NEW m \in SUBSET Signals, task_wait(t, m) PROVE Inv'
    BY <1>5, WaitInv
  <1>6. ASSUME NEW t \in Tasks, NEW u \in Tasks, NEW m \in SUBSET Signals,
               task_signal(t, u, m)
        PROVE  Inv'
    <2>1. intr' \in IntrState
      BY <1>6, IntrCompositions DEF task_signal, Inv, TypeOK
    <2> QED BY <1>6, <2>1, DeliverInv DEF task_signal, Inv, TypeOK
  <1>7. CASE Tick
    BY <1>7, TickInv
  <1>8. ASSUME NEW u \in Tasks, NEW m \in SUBSET Signals, IrqSignal(u, m) PROVE Inv'
    <2>1. intr' \in IntrState
      BY <1>8, IntrCompositions DEF IrqSignal, Inv, TypeOK
    <2>2. ctx' \in [Threads \cup {Null} -> Contexts]
          /\ \A x \in Threads : ctx'[x] = "wait" => ctx[x] = "wait"
      BY <1>8 DEF IrqSignal, Inv, TypeOK, Contexts
    <2>3. late' \in SUBSET Tasks
      BY <1>8 DEF IrqSignal, Inv, TypeOK
    <2> QED BY <1>8, <2>1, <2>2, <2>3, DeliverInv DEF IrqSignal
  <1>9. ASSUME NEW t \in Tasks \cup {InitTask}, ExitClear(t) PROVE Inv'
    <2>1. /\ TypeOK' /\ ExitShape' /\ FoundLinked' /\ current = t
          /\ current' = Null /\ Taken' = t
      BY <1>9 DEF ExitClear, Running, Inv, TypeOK, ExitShape, FoundLinked, PCs,
                  Threads, Taken
    <2> QED BY <1>9, <2>1, QuietInv DEF ExitClear
  <1>10. CASE ExitFree
    <2>1. intr' \in IntrState
      BY <1>10, IntrCompositions DEF ExitFree, Inv, TypeOK
    <2>2. /\ TypeOK' /\ ExitShape' /\ FoundLinked' /\ current = Null
          /\ Taken = arg /\ arg # Null /\ Taken' = Null
      BY <1>10, <2>1 DEF ExitFree, Inv, TypeOK, ExitShape, FoundLinked, PCs, Taken
    <2> QED BY <1>10, <2>2, QuietInv DEF ExitFree
  <1>11. CASE ExitSuspend
    <2>1. /\ TypeOK' /\ ExitShape' /\ FoundLinked' /\ Taken' = Taken
          /\ \A t \in Tasks : ctx'[t] = ctx[t]
      BY <1>11 DEF ExitSuspend, Inv, TypeOK, ExitShape, FoundLinked, PCs, Taken,
                   Threads, Contexts
    <2> QED BY <1>11, <2>1, QuietInv DEF ExitSuspend
  <1>12. CASE ExitNextLevel
    <2>1. TypeOK' /\ ExitShape' /\ FoundLinked' /\ Taken' = Taken
      BY <1>12 DEF ExitNextLevel, Inv, TypeOK, ExitShape, FoundLinked, Taken, Levels
    <2> QED BY <1>12, <2>1, QuietInv DEF ExitNextLevel
  <1>13. CASE ExitIdle
    <2>1. TypeOK' /\ ExitShape' /\ FoundLinked' /\ Taken' = Idle /\ Taken = Null
      BY <1>13 DEF ExitIdle, Inv, TypeOK, ExitShape, FoundLinked, PCs, Threads,
                   Taken, Levels
    <2> QED BY <1>13, <2>1, QuietInv DEF ExitIdle
  <1>14. CASE ExitFound
    <2>1. runq[level] \in Seq(Tasks) /\ runq[level] # <<>>
      BY <1>14 DEF ExitFound, Inv, TypeOK
    <2>2. Head(runq[level]) \in Tasks /\ Head(runq[level]) \in ToSet(runq[level])
      BY <2>1, DeleteHead
    <2>3. TypeOK' /\ ExitShape' /\ FoundLinked' /\ Taken' = Null
      BY <1>14, <2>2 DEF ExitFound, Inv, TypeOK, ExitShape, FoundLinked, PCs,
                         Threads, Taken
    <2>4. current' = current /\ live' = live /\ Taken = Null
      BY <1>14 DEF ExitFound, Inv, ExitShape, Taken
    <2> QED BY <1>14, <2>3, <2>4, QuietInv DEF ExitFound
  <1>15. CASE ExitDelete
    BY <1>15, DeleteInv
  <1>16. CASE ExitSetCurrent
    <2>1. /\ TypeOK' /\ ExitShape' /\ FoundLinked'
          /\ Taken = arg /\ current' = arg /\ Taken' = Null
      BY <1>16 DEF ExitSetCurrent, Inv, TypeOK, ExitShape, FoundLinked, PCs, Threads,
                   Taken
    <2> QED BY <1>16, <2>1, QuietInv DEF ExitSetCurrent
  <1>17. CASE ExitSwitch
    BY <1>17, ExitSwitchInv
  <1>18. CASE Tear
    <2>1. TypeOK' /\ ExitShape' /\ FoundLinked' /\ Taken' = Null /\ Taken = Null
      BY <1>18 DEF Tear, Inv, TypeOK, ExitShape, FoundLinked, PCs, Threads, Taken,
                   Levels
    <2> QED BY <1>18, <2>1, QuietInv DEF Tear
  <1>19. CASE StuckLoop
    <2>1. intr' \in IntrState
      BY <1>19, IntrCompositions DEF StuckLoop, Inv, TypeOK
    <2>2. TypeOK' /\ ExitShape' /\ FoundLinked' /\ Taken' = Taken
      BY <1>19, <2>1 DEF StuckLoop, Inv, TypeOK, ExitShape, FoundLinked, Taken
    <2> QED BY <1>19, <2>2, QuietInv DEF StuckLoop
  <1> QED BY <1>0, <1>1, <1>2, <1>3, <1>4, <1>5, <1>6, <1>7, <1>8, <1>9, <1>10,
             <1>11, <1>12, <1>13, <1>14, <1>15, <1>16, <1>17, <1>18, <1>19
          DEF Next, TaskStep, WaitStep, InitStep, ExitStep

(* The scheduler's lists are sound in every reachable state, whatever      *)
(* interrupts an exit meets between its steps and whatever tasks do with   *)
(* their critical sections: no Task is linked twice, and the one an exit   *)
(* is about to unlink is still linked.  The exception is explicit: an      *)
(* interrupt inside suspend or between the stores of list_node_delete.     *)
THEOREM ListsSound == Spec => [](TypeOK /\ LinkedOnce)
  <1>1. Inv => TypeOK /\ LinkedOnce
    BY DEF Inv, LinkedOnce, Linked, FoundLinked
  <1> QED BY <1>1, InitInv, NextInv, PTL DEF Spec

(* Nor was anything on a list or on the CPU freed: slab_free in task_done  *)
(* never takes a Task that can still be reached, nor one that an exit      *)
(* which other interrupts hold up has found or unlinked (same exception).  *)
THEOREM NothingFreedReached == Spec => []FreedUnreachable
  <1>1. Inv => FreedUnreachable
    <2> SUFFICES ASSUME Inv
                 PROVE  (Ready \cup Asleep \cup {current, arg}) \ {Idle, Null} \subseteq live
      BY DEF FreedUnreachable
    <2>1. CASE pc = "found"
      <3>1. arg \in Ready
        BY <2>1, MembersByLevel DEF Inv, TypeOK, FoundLinked, Ready
      <3> QED BY <3>1 DEF Inv, Allocated
    <2>2. CASE pc # "found"
      BY <2>2 DEF Inv, Allocated, Taken
    <2> QED BY <2>1, <2>2
  <1> QED BY <1>1, InitInv, NextInv, PTL DEF Spec

(* A task that is runnable after task_wait was sent a signal it waited     *)
(* for: no exit, however interrupted, dequeues a sleeping task (same       *)
(* exception).                                                             *)
THEOREM WokenRightly == Spec => []WokenBySignal
  <1>1. Inv => WokenBySignal
    BY DEF Inv, Woken, WokenBySignal
  <1> QED BY <1>1, InitInv, NextInv, PTL DEF Spec

-----------------------------------------------------------------------------
(* init holds the one disable of task_kick_off until it has exited. *)
LEMMA InitMaskedNext == Inv /\ InitMasked /\ InitCtx /\ [Next]_vars => InitMasked'
  <1> SUFFICES ASSUME Inv, InitMasked, InitCtx, [Next]_vars, InitTask \in {current', arg'}
               PROVE  intr'.masked /\ intr'.count = 1
    BY DEF InitMasked
  <1>0. Sleepers \subseteq Tasks /\ Mortal \subseteq Tasks
    OBVIOUS
  <1>1. \A q : WellFormed(q) => NextTask(q) # InitTask
    BY Dequeue
  <1>w. WellFormed(runq)
    BY InvPlaces DEF PlaceInv
  <1>b. ASSUME intr.masked, intr.count = 1
        PROVE  Bracketed(intr).masked /\ Bracketed(intr).count = 1
    BY <1>b DEF Bracketed, disable_interrupts, enable_interrupts
  <1>3. CASE UNCHANGED vars
    BY <1>3 DEF vars, InitMasked
  <1>4. ASSUME NEW t \in Tasks, Disable(t) \/ Enable(t) PROVE FALSE
    BY <1>4 DEF Disable, Enable, Running, Inv, ExitShape
  <1>5. ASSUME NEW t \in Threads, NEW u \in Tasks, task_schedule(t, u)
        PROVE  intr'.masked /\ intr'.count = 1
    BY <1>5, <1>b DEF task_schedule, InitMasked
  <1>6. ASSUME NEW t \in Tasks, NEW m \in SUBSET Signals, task_wait(t, m)
        PROVE  FALSE
    BY <1>6, <1>1, <1>w DEF task_wait, SwitchTo
  <1>7. ASSUME NEW t \in Tasks, NEW u \in Tasks, NEW m \in SUBSET Signals,
               task_signal(t, u, m)
        PROVE  FALSE
    BY <1>7 DEF task_signal, Running, Inv, ExitShape
  <1>8. CASE Tick
    <2>1. current # InitTask /\ arg # InitTask
      BY <1>8 DEF Tick, Interruptible, InitMasked
    <2>2. CASE ticks > 1
      BY <1>8, <2>1, <2>2 DEF Tick
    <2>3. CASE ~(ticks > 1)
      <3> DEFINE q == IF current \in Tasks
                      THEN [runq EXCEPT ![Queue(current)] = Append(@, current)]
                      ELSE runq
      <3>1. WellFormed(q)
        <4>1. CASE current \in Tasks
          <5>1. current \notin Members(runq)
            BY InvPlaces DEF PlaceInv
          <5> QED BY <1>w, <4>1, <5>1, EnqueueTail
        <4>2. CASE current \notin Tasks
          BY <1>w, <4>2
        <4> QED BY <4>1, <4>2
      <3>2. current' = NextTask(q) /\ arg' = Null
        BY <1>8, <2>3 DEF Tick, task_yield, SwitchTo
      <3> HIDE DEF q
      <3> QED BY <1>1, <3>1, <3>2
    <2> QED BY <2>2, <2>3
  <1>9. ASSUME NEW u \in Tasks, NEW m \in SUBSET Signals, IrqSignal(u, m)
        PROVE  FALSE
    BY <1>9 DEF IrqSignal, Interruptible, InitMasked
  <1>10. ASSUME NEW t \in Tasks \cup {InitTask}, ExitClear(t)
         PROVE  intr'.masked /\ intr'.count = 1
    BY <1>10 DEF ExitClear, Running, InitMasked
  <1>11. CASE ExitFree
    BY <1>11 DEF ExitFree, Inv, ExitShape
  <1>12. ASSUME ExitSuspend \/ ExitNextLevel \/ ExitIdle \/ ExitDelete \/ Tear
         PROVE  FALSE
    BY <1>12 DEF ExitSuspend, ExitNextLevel, ExitIdle, ExitDelete, Tear,
                 Interruptible, InitMasked, Inv, ExitShape
  <1>16. CASE ExitFound
    <2>1. Head(runq[level]) \in Tasks
      BY <1>16 DEF ExitFound, Inv, TypeOK
    <2> QED BY <1>16, <2>1 DEF ExitFound, Inv, ExitShape
  <1>13. CASE ExitSetCurrent
    BY <1>13 DEF ExitSetCurrent, Inv, ExitShape
  <1>14. CASE ExitSwitch
    BY <1>14 DEF ExitSwitch, SwitchTo, Inv, ExitShape
  <1>15. CASE StuckLoop
    BY <1>15 DEF StuckLoop, InitCtx, Inv, ExitShape
  <1> QED BY <1>0, <1>3, <1>4, <1>5, <1>6, <1>7, <1>8, <1>9, <1>10,
             <1>11, <1>12, <1>13, <1>14, <1>15, <1>16
          DEF Next, TaskStep, WaitStep, InitStep, ExitStep, Threads

(* init is never suspended, so nothing resumes it. *)
LEMMA InitCtxNext == Inv /\ InitMasked /\ InitCtx /\ [Next]_vars => InitCtx'
  <1> SUFFICES ASSUME Inv, InitMasked, InitCtx, [Next]_vars PROVE InitCtx'
    OBVIOUS
  <1>0. Sleepers \subseteq Tasks /\ Mortal \subseteq Tasks
        /\ InitTask \in Threads /\ Tasks \subseteq Threads
    BY DEF Threads
  <1>w. WellFormed(runq) /\ \A q : WellFormed(q) => NextTask(q) # InitTask
    BY InvPlaces, Dequeue DEF PlaceInv
  <1>s. ASSUME NEW u, NEW q, NEW i, NEW c \in [Threads \cup {Null} -> Contexts],
               u # InitTask, c[InitTask] = "none", SwitchTo(u, q, c, i)
        PROVE  InitCtx'
    BY <1>s, <1>0 DEF SwitchTo, InitCtx
  <1>4. CASE Tick
    <2>1. current # InitTask
      BY <1>4 DEF Tick, Interruptible, InitMasked
    <2>2. CASE ticks > 1
      BY <1>4, <2>2 DEF Tick, InitCtx
    <2>3. CASE ~(ticks > 1)
      <3> DEFINE q == IF current \in Tasks
                      THEN [runq EXCEPT ![Queue(current)] = Append(@, current)]
                      ELSE runq
                 k == IF current = Null THEN "lost"
                      ELSE IF pc = "load" \/ ctx[current] = "stuck" THEN "stuck"
                      ELSE "tick"
                 c == [ctx EXCEPT ![current] = k]
      <3>1. WellFormed(q)
        <4>1. CASE current \in Tasks
          <5>1. current \notin Members(runq)
            BY InvPlaces DEF PlaceInv
          <5> QED BY <1>w, <4>1, <5>1, EnqueueTail
        <4>2. CASE current \notin Tasks
          BY <1>w, <4>2
        <4> QED BY <4>1, <4>2
      <3>2. SwitchTo(NextTask(q), Dequeued(q), c, disable_interrupts(intr))
        BY <1>4, <2>3 DEF Tick, task_yield
      <3>3. k \in Contexts
        BY DEF Contexts
      <3>4. c \in [Threads \cup {Null} -> Contexts] /\ c[InitTask] = "none"
        BY <1>0, <2>1, <3>3 DEF Inv, TypeOK, InitCtx
      <3> HIDE DEF q, c, k
      <3> QED BY <1>w, <1>s, <3>1, <3>2, <3>4
    <2> QED BY <2>2, <2>3
  <1>5. ASSUME NEW t \in Tasks, NEW m \in SUBSET Signals, task_wait(t, m)
        PROVE  InitCtx'
    <2> DEFINE c == [ctx EXCEPT ![t] = "wait"]
    <2>1. SwitchTo(NextTask(runq), Dequeued(runq), c, disable_interrupts(intr))
      BY <1>5 DEF task_wait
    <2>2. c \in [Threads \cup {Null} -> Contexts] /\ c[InitTask] = "none"
      BY <1>0 DEF Inv, TypeOK, Contexts, InitCtx
    <2> HIDE DEF c
    <2> QED BY <1>w, <1>s, <2>1, <2>2
  <1>6. CASE ExitSwitch
    <2>1. SwitchTo(current, runq, ctx, intr) /\ current # InitTask
      BY <1>6 DEF ExitSwitch, Inv, ExitShape
    <2> QED BY <1>s, <2>1 DEF Inv, TypeOK, InitCtx
  <1>7. ASSUME NEW u \in Tasks, NEW m \in SUBSET Signals, IrqSignal(u, m)
        PROVE  InitCtx'
    BY <1>0, <1>7 DEF IrqSignal, Interruptible, InitMasked, InitCtx, Inv, TypeOK
  <1>8. ASSUME NEW t \in Threads, NEW u \in Tasks, task_schedule(t, u)
        PROVE  InitCtx'
    BY <1>0, <1>8 DEF task_schedule, InitCtx, Inv, TypeOK
  <1>9. CASE ExitSuspend
    BY <1>0, <1>9 DEF ExitSuspend, InitCtx, Inv, TypeOK
  <1>10. ASSUME UNCHANGED ctx PROVE InitCtx'
    BY <1>10 DEF InitCtx
  <1> QED BY <1>0, <1>4, <1>5, <1>6, <1>7, <1>8, <1>9, <1>10
          DEF Next, TaskStep, WaitStep, InitStep, ExitStep, vars, Disable, Enable,
              task_signal, ExitClear, ExitFree, ExitNextLevel, ExitIdle, ExitFound,
              ExitDelete, ExitSetCurrent, Tear, StuckLoop

LEMMA InitHolds == Spec => [](Inv /\ InitMasked /\ InitCtx)
  <1>1. Init => InitMasked /\ InitCtx
    BY DEF Init, InitMasked, InitCtx, disable_interrupts, Threads
  <1> QED BY <1>1, InitInv, NextInv, InitMaskedNext, InitCtxNext, PTL DEF Spec

(* What a step may lose: the task in the hands of an exit that is          *)
(* interrupted where nothing else holds it.                                *)
LossStep == Lost' \ Lost \subseteq IF pc \in {"done", "picked"} THEN {arg} ELSE {}

(* A step loses nobody if everybody who was held by a list or by a pointer *)
(* still is, the exit's own task in "done" and "picked" excepted.          *)
LEMMA NobodyLost ==
  ASSUME live' \subseteq live \cup Ready' \cup Asleep' \cup {current', arg'},
         (Ready \cup Asleep \cup {current, arg}) \cap live'
           \subseteq Ready' \cup Asleep' \cup {current', arg'}
                     \cup (IF pc \in {"done", "picked"} THEN {arg} ELSE {})
  PROVE  LossStep
  BY DEF LossStep, Lost

LEMMA LossNext == Inv /\ InitMasked /\ [Next]_vars => LossStep
  <1> SUFFICES ASSUME Inv, InitMasked, [Next]_vars PROVE LossStep
    OBVIOUS
  <1>0. Sleepers \subseteq Tasks /\ Mortal \subseteq Tasks
        /\ InitTask \in Threads /\ Tasks \subseteq Threads
    BY DEF Threads
  <1>l. live \subseteq Tasks \cup {InitTask} /\ live' \subseteq Tasks \cup {InitTask}
    BY NextInv DEF Inv, TypeOK
  <1>w. WellFormed(runq)
    BY InvPlaces DEF PlaceInv
  <1>d. ASSUME NEW q, WellFormed(q)
        PROVE  Members(q) \subseteq Members(Dequeued(q)) \cup {NextTask(q)}
    <2>1. Members(q) \subseteq Tasks
      BY <1>d, MembersAreTasks
    <2> QED BY <1>d, <2>1, Dequeue
  <1>q. ASSUME UNCHANGED <<runq, sleeping, live>>,
               {current, arg} \subseteq {current', arg', Null, Idle}
        PROVE  LossStep
    BY <1>q, <1>l, NobodyLost DEF Ready, Asleep
  <1>1. CASE Tick
    <2>1. CASE ticks > 1
      BY <1>1, <1>q, <2>1 DEF Tick
    <2>2. CASE ~(ticks > 1)
      <3> DEFINE q == IF current \in Tasks
                      THEN [runq EXCEPT ![Queue(current)] = Append(@, current)]
                      ELSE runq
      <3>1. WellFormed(q) /\ Members(q) = Members(runq) \cup ({current} \cap Tasks)
        <4>1. CASE current \in Tasks
          <5>1. current \notin Members(runq) /\ {current} \cap Tasks = {current}
            BY <4>1, InvPlaces DEF PlaceInv
          <5> QED BY <1>w, <4>1, <5>1, EnqueueTail
        <4>2. CASE current \notin Tasks
          BY <1>w, <4>2
        <4> QED BY <4>1, <4>2
      <3>2. current' = NextTask(q) /\ runq' = Dequeued(q)
            /\ UNCHANGED <<sleeping, live>>
        BY <1>1, <2>2 DEF Tick, task_yield, SwitchTo
      <3> HIDE DEF q
      <3>3. Members(q) \subseteq Members(runq') \cup {current'}
        BY <1>d, <3>1, <3>2
      <3>4. current # InitTask
        BY <1>1 DEF Tick, Interruptible, InitMasked
      <3>5. \/ arg = Null
            \/ pc = "found" /\ arg \in Members(runq)
            \/ pc \in {"done", "picked"}
        <4>1. pc = "found" => arg \in Members(runq)
          BY MembersByLevel DEF Inv, TypeOK, FoundLinked
        <4> QED BY <4>1 DEF Inv, TypeOK, ExitShape, PCs
      <3> QED BY <1>l, <3>1, <3>2, <3>3, <3>4, <3>5, NobodyLost DEF Ready, Asleep
    <2> QED BY <2>1, <2>2
  <1>2. ASSUME NEW t \in Tasks, NEW m \in SUBSET Signals, task_wait(t, m)
        PROVE  LossStep
    <2>1. current = t /\ arg = Null
      BY <1>2 DEF task_wait, Running, Inv, ExitShape
    <2>2. /\ current' = NextTask(runq) /\ runq' = Dequeued(runq) /\ live' = live
          /\ sleeping' = <<t>> \o sleeping
      BY <1>2 DEF task_wait, SwitchTo
    <2>3. ToSet(sleeping') = ToSet(sleeping) \cup {t}
      BY <2>2, AddHead DEF Inv, TypeOK
    <2>4. Members(runq) \subseteq Members(runq') \cup {current'}
      BY <1>d, <1>w, <2>2
    <2> QED BY <1>l, <2>1, <2>2, <2>3, <2>4, NobodyLost DEF Ready, Asleep
  <1>3. ASSUME NEW u \in Tasks, NEW m \in SUBSET Signals, Deliver(u, m),
               UNCHANGED <<current, arg, live>>
        PROVE  LossStep
    <2>1. Members(runq') \cup ToSet(sleeping') = Ready \cup Asleep
      BY <1>3, DeliverPlaces
    <2> QED BY <1>3, <2>1, NobodyLost DEF Ready, Asleep
  <1>4. ASSUME NEW t \in Threads, NEW u \in Tasks, task_schedule(t, u)
        PROVE  LossStep
    <2>1. u \notin Members(runq)
      BY <1>4, InvPlaces DEF PlaceInv, task_schedule
    <2>2. Members(runq') = Members(runq) \cup {u}
      BY <1>4, <1>w, <2>1, EnqueueHead DEF task_schedule
    <2> QED BY <1>4, <2>2, NobodyLost DEF Ready, Asleep, task_schedule
  <1>5. CASE ExitFree
    BY <1>5, NobodyLost DEF ExitFree, Ready, Asleep
  <1>6. CASE ExitFound
    <2>1. arg = Null /\ UNCHANGED <<runq, sleeping, live, current>>
      BY <1>6 DEF ExitFound, Inv, ExitShape
    <2> QED BY <1>q, <2>1
  <1>7. CASE ExitIdle
    <2>1. arg = Null /\ UNCHANGED <<runq, sleeping, live, current>>
      BY <1>7 DEF ExitIdle, Inv, ExitShape
    <2> QED BY <1>q, <2>1
  <1>8. CASE ExitDelete
    <2>1. runq[level] \in Seq(Tasks) /\ IsInjective(runq[level])
          /\ arg \in ToSet(runq[level]) /\ arg \in Tasks /\ level \in Levels
      BY <1>8, <1>w DEF ExitDelete, Inv, TypeOK, FoundLinked, ExitShape, WellFormed,
                        QueuesDisjoint
    <2> DEFINE r == Unlink(runq[level], arg)
    <2>2. /\ r \in Seq(Tasks) /\ ToSet(runq[level]) = ToSet(r) \cup {arg}
          /\ IsInjective(r) /\ arg \notin ToSet(r)
      BY <2>1, UnlinkNode
    <2>3. runq' = [runq EXCEPT ![level] = r]
          /\ UNCHANGED <<sleeping, live, current, arg>>
      BY <1>8 DEF ExitDelete
    <2> HIDE DEF r
    <2>4. Members(runq) = Members(runq') \cup {arg}
      BY <1>w, <2>1, <2>2, <2>3, Removed
    <2> QED BY <2>3, <2>4, NobodyLost DEF Ready, Asleep
  <1>9. CASE ExitSetCurrent
    BY <1>9, <1>q DEF ExitSetCurrent, Inv, ExitShape
  <1>10. CASE ExitSwitch
    BY <1>10, <1>q DEF ExitSwitch, SwitchTo, Inv, ExitShape
  <1>11. ASSUME NEW t \in Tasks \cup {InitTask}, ExitClear(t) PROVE LossStep
    BY <1>11, <1>q DEF ExitClear, Running, Inv, ExitShape
  <1>12. CASE Tear
    <2>1. CASE pc = "found"
      <3>1. arg \in Members(runq)
        BY <2>1, MembersByLevel DEF Inv, TypeOK, FoundLinked
      <3> QED BY <1>12, <3>1, NobodyLost DEF Tear, Ready, Asleep
    <2>2. CASE pc # "found"
      BY <1>12, <1>q, <2>2 DEF Tear, Inv, ExitShape
    <2> QED BY <2>1, <2>2
  <1>13. ASSUME UNCHANGED <<runq, sleeping, live, current, arg>> PROVE LossStep
    BY <1>13, <1>q
  <1> QED BY <1>0, <1>1, <1>2, <1>3, <1>4, <1>5, <1>6, <1>7, <1>8, <1>9, <1>10,
             <1>11, <1>12, <1>13
          DEF Next, TaskStep, WaitStep, InitStep, ExitStep, vars, Disable, Enable,
              task_signal, IrqSignal, ExitSuspend, ExitNextLevel, StuckLoop

(* No tick, wait, signal or exit ever loses an allocated task, except the  *)
(* interrupt of an exit that holds one in its registers only, and that one *)
(* task is all it loses.                                                   *)
THEOREM TasksKept == Spec => OnlyExitsLose
  <1>1. Inv /\ InitMasked /\ [Next]_vars
        => [Lost' \ Lost \subseteq IF pc \in {"done", "picked"} THEN {arg} ELSE {}]_vars
    BY LossNext DEF LossStep
  <1> QED BY <1>1, InitHolds, PTL DEF Spec, OnlyExitsLose

-----------------------------------------------------------------------------
(* What disable ... enable leaves: the counter, and a mask that says        *)
(* whether the counter is zero, whatever SR held before.                    *)
LEMMA BracketedValue ==
  ASSUME NEW i \in IntrState
  PROVE  Bracketed(i).count = i.count /\ (Bracketed(i).masked <=> i.count # 0)
  <1>1. i.count \in Nat
    BY DEF IntrState
  <1> QED BY <1>1 DEF Bracketed, disable_interrupts, enable_interrupts

(* A thread that is resumed with at most one disable outstanding has none. *)
LEMMA ResumedCount ==
  ASSUME NEW i \in IntrState, i.count <= 1, NEW k
  PROVE  Resumed(k, i).count = 0
  <1>1. i.count \in Nat /\ SetSR(i, TRUE).count = i.count
    BY DEF IntrState, SetSR
  <1> DEFINE j == SetSR(i, TRUE)
  <1>a. j.count \in Nat /\ j.count <= 1
    BY <1>1
  <1> HIDE DEF j
  <1>b. j.count = 0 => enable_interrupts(j).count = 0
    BY DEF enable_interrupts
  <1>c. j.count = 1 => enable_interrupts(j).count = 0
    BY DEF enable_interrupts
  <1>d. enable_interrupts(j).count = 0
    BY <1>a, <1>b, <1>c
  <1>2. enable_interrupts(SetSR(i, TRUE)).count = 0
    BY <1>d DEF j
  <1>3. enable_interrupts(SetSR(i, TRUE)) \in IntrState
    BY IntrTypes
  <1>4. SetSR(enable_interrupts(SetSR(i, TRUE)), FALSE).count = 0
    BY <1>2, <1>3 DEF SetSR, IntrState
  <1> QED BY <1>2, <1>4 DEF Resumed

SectionInv == CriticalSection /\ CountBalanced /\ StuckOutside

(* The counter, case by case. *)
LEMMA CountCases ==
  ASSUME CountBalanced, TypeOK
  PROVE  /\ pc = "run" /\ current = InitTask => intr.count = 1
         /\ pc = "run" /\ current \in Tasks => intr.count = depth[current]
         /\ pc = "run" /\ current \notin Tasks \cup {InitTask} => intr.count = 0
         /\ pc = "done" /\ arg = InitTask => intr.count = 1
         /\ pc = "done" /\ arg # InitTask => intr.count = 0
         /\ pc \notin {"run", "done"} /\ intr.masked => intr.count = 1
         /\ pc \notin {"run", "done"} /\ ~intr.masked => intr.count = 0
  BY DEF CountBalanced

(* A switch to a task or to idle, with no section open and at most one     *)
(* disable outstanding, leaves the counter at zero.                        *)
LEMMA SwitchSections ==
  ASSUME Inv, \A t \in Tasks : depth[t] = 0, UNCHANGED depth,
         NEW u \in Tasks \cup {Idle}, NEW q, NEW c, NEW i \in IntrState,
         i.count <= 1, SwitchTo(u, q, c, i)
  PROVE  SectionInv'
  <1>1. current' = u /\ pc' = "run" /\ intr'.count = 0
    BY ResumedCount DEF SwitchTo
  <1>2. \A t \in Tasks : depth'[t] = 0
    OBVIOUS
  <1>3. CriticalSection' /\ StuckOutside'
    BY <1>2 DEF CriticalSection, StuckOutside
  <1>4. CountBalanced'
    BY <1>1, <1>2 DEF CountBalanced
  <1> QED BY <1>3, <1>4 DEF SectionInv

LEMMA SectionNext ==
  ~SleepInCS /\ Inv /\ InitMasked /\ InitCtx /\ SectionInv /\ [Next]_vars
    => SectionInv'
  <1> SUFFICES ASSUME ~SleepInCS, Inv, InitMasked, InitCtx, SectionInv,
                      [Next]_vars
               PROVE  SectionInv'
    OBVIOUS
  <1>0. Sleepers \subseteq Tasks /\ Mortal \subseteq Tasks
        /\ InitTask \in Threads /\ Tasks \subseteq Threads
    BY DEF Threads
  <1>t. intr \in IntrState /\ intr.count \in Nat /\ depth \in [Tasks -> Nat]
        /\ TypeOK
    BY DEF Inv, TypeOK, IntrState
  <1>w. WellFormed(runq) /\ \A q : WellFormed(q) => NextTask(q) \in Tasks \cup {Idle}
    BY InvPlaces, Dequeue DEF PlaceInv
  <1>c. /\ pc = "run" /\ current = InitTask => intr.count = 1
        /\ pc = "run" /\ current \in Tasks => intr.count = depth[current]
        /\ pc = "run" /\ current \notin Tasks \cup {InitTask} => intr.count = 0
        /\ pc = "done" /\ arg = InitTask => intr.count = 1
        /\ pc = "done" /\ arg # InitTask => intr.count = 0
        /\ pc \notin {"run", "done"} /\ intr.masked => intr.count = 1
        /\ pc \notin {"run", "done"} /\ ~intr.masked => intr.count = 0
    BY <1>t, CountCases DEF SectionInv
  \* Who can hold a section.
  <1>h. ASSUME ~intr.masked \/ pc # "run" \/ current \notin Tasks
               \/ (current \in Tasks /\ depth[current] = 0)
        PROVE  \A t \in Tasks : depth[t] = 0
    BY <1>h, <1>t DEF SectionInv, CriticalSection
  <1>u. ASSUME ~intr.masked PROVE intr.count = 0
    <2>1. current # InitTask /\ arg # InitTask
      BY <1>u DEF InitMasked
    <2> QED BY <1>c, <1>h, <1>u, <2>1
  <1>b. Bracketed(intr).count = intr.count /\ (Bracketed(intr).masked <=> intr.count # 0)
    BY <1>t, BracketedValue
  <1>1. CASE UNCHANGED vars
    BY <1>1 DEF vars, SectionInv, CriticalSection, CountBalanced, StuckOutside
  <1>2. ASSUME NEW t \in Tasks, Disable(t) PROVE SectionInv'
    <2>1. /\ pc = "run" /\ current = t /\ ctx[t] # "stuck"
          /\ intr'.count = intr.count + 1 /\ intr'.masked
          /\ depth' = [depth EXCEPT ![t] = @ + 1]
          /\ UNCHANGED <<current, ctx, pc, arg>>
      BY <1>2 DEF Disable, Running, disable_interrupts
    <2>2. \A x \in Tasks : x # t => depth[x] = 0
      BY <1>t, <2>1 DEF SectionInv, CriticalSection
    <2>3. CriticalSection' /\ StuckOutside'
      BY <1>t, <2>1, <2>2 DEF CriticalSection, StuckOutside
    <2>4. CountBalanced'
      BY <1>t, <1>c, <2>1 DEF CountBalanced
    <2> QED BY <2>3, <2>4 DEF SectionInv
  <1>3. ASSUME NEW t \in Tasks, Enable(t) PROVE SectionInv'
    <2>1. /\ pc = "run" /\ current = t /\ ctx[t] # "stuck"
          /\ depth[t] > 0 /\ intr' = enable_interrupts(intr)
          /\ depth' = [depth EXCEPT ![t] = @ - 1]
          /\ UNCHANGED <<current, ctx, pc, arg>>
      BY <1>3 DEF Enable, Running
    <2>2. intr.count = depth[t] /\ intr.masked
      BY <1>c, <2>1 DEF SectionInv, CriticalSection
    <2>3. intr'.count = depth[t] - 1 /\ (depth[t] # 1 => intr'.masked)
      BY <1>t, <2>1, <2>2 DEF enable_interrupts
    <2>4. \A x \in Tasks : x # t => depth[x] = 0
      BY <1>t, <2>1 DEF SectionInv, CriticalSection
    <2>5. depth'[t] = depth[t] - 1 /\ \A x \in Tasks : x # t => depth'[x] = 0
      BY <1>t, <2>1, <2>4
    <2>6. CriticalSection' /\ StuckOutside'
      BY <1>t, <2>1, <2>3, <2>5 DEF CriticalSection, StuckOutside
    <2>7. CountBalanced'
      BY <1>t, <2>1, <2>3, <2>5 DEF CountBalanced
    <2> QED BY <2>6, <2>7 DEF SectionInv
  <1>4. ASSUME NEW t \in Threads, NEW u \in Tasks, task_schedule(t, u)
        PROVE  SectionInv'
    <2>1. /\ pc = "run" /\ current = t /\ u # t
          /\ intr' = Bracketed(intr) /\ depth' = [depth EXCEPT ![u] = 0]
          /\ ctx' = [ctx EXCEPT ![u] = "tramp"] /\ UNCHANGED <<current, pc, arg>>
      BY <1>4 DEF task_schedule, Running, Inv, Allocated
    <2>2. \A x \in Tasks : x # u => depth'[x] = depth[x] /\ ctx'[x] = ctx[x]
      BY <1>t, <2>1 DEF TypeOK, Threads
    <2>3. depth'[u] = 0
      BY <1>t, <2>1
    <2>4. CriticalSection' /\ StuckOutside'
      BY <1>t, <1>b, <1>c, <2>1, <2>2, <2>3
         DEF SectionInv, CriticalSection, StuckOutside
    <2>5. CountBalanced'
      BY <1>b, <1>c, <1>t, <2>1, <2>2 DEF CountBalanced
    <2> QED BY <2>4, <2>5 DEF SectionInv
  <1>5. ASSUME NEW t \in Tasks, NEW m \in SUBSET Signals, task_wait(t, m)
        PROVE  SectionInv'
    <2>1. pc = "run" /\ current = t /\ depth[t] = 0 /\ UNCHANGED depth
          /\ SwitchTo(NextTask(runq), Dequeued(runq), [ctx EXCEPT ![t] = "wait"],
                      disable_interrupts(intr))
      BY <1>5 DEF task_wait, Running, MayLeave
    <2>2. \A x \in Tasks : depth[x] = 0
      BY <1>h, <2>1
    <2>3. disable_interrupts(intr) \in IntrState /\ disable_interrupts(intr).count <= 1
      BY <1>t, <1>c, <2>1, IntrTypes DEF disable_interrupts
    <2>4. NextTask(runq) \in Tasks \cup {Idle}
      BY <1>w
    <2> QED BY <2>1, <2>2, <2>3, <2>4, SwitchSections
  <1>6. ASSUME NEW t \in Tasks, NEW u \in Tasks, NEW m \in SUBSET Signals,
               task_signal(t, u, m)
        PROVE  SectionInv'
    <2>1. pc = "run" /\ current = t /\ intr' = Bracketed(intr)
          /\ UNCHANGED <<current, pc, arg, ctx, depth>>
      BY <1>6 DEF task_signal, Running
    <2> QED BY <1>t, <1>b, <1>c, <2>1
            DEF SectionInv, CriticalSection, StuckOutside, CountBalanced
  <1>7. CASE Tick
    <2>1. ~intr.masked /\ intr.count = 0 /\ \A x \in Tasks : depth[x] = 0
      BY <1>7, <1>h, <1>u DEF Tick, Interruptible
    <2>2. CASE ticks > 1
      <3>1. intr' = SetSR(Bracketed(intr), FALSE)
            /\ UNCHANGED <<current, pc, arg, ctx, depth>>
        BY <1>7, <2>2 DEF Tick
      <3>2. intr'.count = 0 /\ intr'.masked = FALSE
        BY <1>t, <1>b, <2>1, <3>1, IntrCompositions DEF SetSR, IntrState
      <3>3. current # InitTask /\ arg # InitTask
        BY <2>1 DEF InitMasked
      <3> QED BY <2>1, <3>1, <3>2, <3>3
              DEF SectionInv, CriticalSection, StuckOutside, CountBalanced
    <2>3. CASE ~(ticks > 1)
      <3> DEFINE q == IF current \in Tasks
                      THEN [runq EXCEPT ![Queue(current)] = Append(@, current)]
                      ELSE runq
                 k == IF current = Null THEN "lost"
                      ELSE IF pc = "load" \/ ctx[current] = "stuck" THEN "stuck"
                      ELSE "tick"
      <3>1. WellFormed(q)
        <4>1. CASE current \in Tasks
          <5>1. current \notin Members(runq)
            BY InvPlaces DEF PlaceInv
          <5> QED BY <1>w, <4>1, <5>1, EnqueueTail
        <4>2. CASE current \notin Tasks
          BY <1>w, <4>2
        <4> QED BY <4>1, <4>2
      <3>2. SwitchTo(NextTask(q), Dequeued(q), [ctx EXCEPT ![current] = k],
                     disable_interrupts(intr))
            /\ UNCHANGED depth
        BY <1>7, <2>3 DEF Tick, task_yield
      <3> HIDE DEF q, k
      <3>a. disable_interrupts(intr) \in IntrState
        BY <1>t, IntrTypes
      <3>b. disable_interrupts(intr).count = 1
        BY <2>1 DEF disable_interrupts
      <3>3. disable_interrupts(intr) \in IntrState /\ disable_interrupts(intr).count <= 1
        BY <3>a, <3>b
      <3>4. NextTask(q) \in Tasks \cup {Idle}
        BY <1>w, <3>1
      <3> QED BY <2>1, <3>2, <3>3, <3>4, SwitchSections
    <2> QED BY <2>2, <2>3
  <1>8. ASSUME NEW u \in Tasks, NEW m \in SUBSET Signals, IrqSignal(u, m)
        PROVE  SectionInv'
    <2>1. ~intr.masked /\ intr.count = 0 /\ \A x \in Tasks : depth[x] = 0
      BY <1>8, <1>h, <1>u DEF IrqSignal, Interruptible
    <2>2. intr' = SetSR(Bracketed(intr), FALSE) /\ UNCHANGED <<current, pc, arg, depth>>
      BY <1>8 DEF IrqSignal
    <2>3. intr'.count = 0 /\ intr'.masked = FALSE
      BY <1>t, <1>b, <2>1, <2>2, IntrCompositions DEF SetSR, IntrState
    <2>4. current # InitTask /\ arg # InitTask
      BY <2>1 DEF InitMasked
    <2> QED BY <2>1, <2>2, <2>3, <2>4
            DEF SectionInv, CriticalSection, StuckOutside, CountBalanced
  <1>9. ASSUME NEW t \in Tasks \cup {InitTask}, ExitClear(t) PROVE SectionInv'
    <2>1. pc = "run" /\ current = t /\ (t \in Tasks => depth[t] = 0)
          /\ pc' = "done" /\ arg' = t /\ UNCHANGED <<intr, ctx, depth>>
      BY <1>9 DEF ExitClear, Running, MayLeave
    <2>2. \A x \in Tasks : depth[x] = 0
      BY <1>h, <2>1
    <2>3. CountBalanced'
      BY <1>c, <2>1, <2>2 DEF CountBalanced
    <2> QED BY <2>1, <2>2, <2>3 DEF SectionInv, CriticalSection, StuckOutside
  <1>10. CASE ExitFree
    <2>1. pc = "done" /\ pc' = "suspend" /\ intr' = Bracketed(intr)
          /\ UNCHANGED <<ctx, depth>>
      BY <1>10 DEF ExitFree
    <2>2. \A x \in Tasks : depth[x] = 0
      BY <1>h, <2>1
    <2>3. intr.count = 0 \/ intr.count = 1
      BY <1>c, <2>1
    <2>4. CountBalanced'
      BY <1>b, <2>1, <2>3 DEF CountBalanced
    <2> QED BY <2>1, <2>2, <2>4 DEF SectionInv, CriticalSection, StuckOutside
  <1>11. ASSUME ExitSuspend \/ ExitNextLevel \/ ExitIdle \/ ExitFound \/ ExitDelete
                \/ ExitSetCurrent \/ Tear
         PROVE  SectionInv'
    <2>0. Tear => pc \notin {"run", "done"}
      BY DEF Tear
    <2>1. pc \notin {"run", "done"} /\ pc' \notin {"run", "done"}
          /\ UNCHANGED <<intr, depth>>
      BY <1>11, <2>0 DEF ExitSuspend, ExitNextLevel, ExitIdle, ExitFound, ExitDelete,
                         ExitSetCurrent, Tear
    <2>2. \A x \in Tasks : depth[x] = 0
      BY <1>h, <2>1
    <2>3. CountBalanced'
      BY <1>c, <2>1 DEF CountBalanced
    <2> QED BY <2>1, <2>2, <2>3 DEF SectionInv, CriticalSection, StuckOutside
  <1>12. CASE ExitSwitch
    <2>1. pc = "load" /\ current \in Tasks \cup {Idle} /\ UNCHANGED depth
          /\ SwitchTo(current, runq, ctx, intr)
      BY <1>12 DEF ExitSwitch, Inv, ExitShape
    <2>2. \A x \in Tasks : depth[x] = 0
      BY <1>h, <2>1
    <2>3. intr.count <= 1
      BY <1>c, <2>1
    <2> QED BY <1>t, <2>1, <2>2, <2>3, SwitchSections
  <1>13. CASE StuckLoop
    <2>1. pc = "run" /\ ctx[current] = "stuck" /\ intr' = Resumed("tick", intr)
          /\ UNCHANGED <<current, pc, arg, ctx, depth>>
      BY <1>13 DEF StuckLoop
    <2>2. current # InitTask /\ (current \in Tasks => depth[current] = 0)
      BY <1>t, <2>1 DEF InitCtx, SectionInv, StuckOutside
    <2>3. intr.count = 0 /\ \A x \in Tasks : depth[x] = 0
      BY <1>c, <1>h, <2>1, <2>2
    <2>4. intr'.count = 0
      BY <1>t, <2>1, <2>3, ResumedCount
    <2> QED BY <2>1, <2>2, <2>3, <2>4
            DEF SectionInv, CriticalSection, StuckOutside, CountBalanced
  <1> QED BY <1>0, <1>1, <1>2, <1>3, <1>4, <1>5, <1>6, <1>7, <1>8, <1>9, <1>10,
             <1>11, <1>12, <1>13
          DEF Next, TaskStep, WaitStep, InitStep, ExitStep

(* Mutual exclusion of critical sections, for tasks that neither wait nor  *)
(* return inside one: the one global counter is enough, although every     *)
(* switch increments it in one thread and decrements it in another, and    *)
(* even though an exit skips the increment.                                *)
THEOREM SectionsExclusive == ~SleepInCS => (Spec => []CriticalSection)
  <1> SUFFICES ASSUME ~SleepInCS PROVE Spec => []CriticalSection
    OBVIOUS
  <1>1. Init => SectionInv
    BY DEF Init, SectionInv, CriticalSection, CountBalanced, StuckOutside,
           disable_interrupts
  <1>2. Inv /\ InitMasked /\ InitCtx /\ SectionInv /\ [Next]_vars => SectionInv'
    BY SectionNext
  <1>3. SectionInv => CriticalSection
    BY DEF SectionInv
  <1> QED BY <1>1, <1>2, <1>3, InitHolds, PTL DEF Spec

-----------------------------------------------------------------------------
(* Priorities. *)

(* Every task is on the queue of its own level. *)
Sorted(q) == \A p \in Levels : \A t \in ToSet(q[p]) : Queue(t) = p
(* Nobody on q is more urgent than u. *)
Outranks(u, q) == \A p \in Levels : q[p] # <<>> => u # Idle /\ p <= Queue(u)

LEMMA EnqueueSorted ==
  ASSUME NEW q, WellFormed(q), Sorted(q), NEW u \in Tasks,
         NEW s, ToSet(s) = ToSet(q[Queue(u)]) \cup {u}
  PROVE  Sorted([q EXCEPT ![Queue(u)] = s])
  <1> DEFINE d == [q EXCEPT ![Queue(u)] = s]
  <1>1. Queue(u) \in Levels /\ DOMAIN q = Levels
    BY QueueLevel DEF WellFormed
  <1>2. d[Queue(u)] = s /\ \A p \in Levels : p # Queue(u) => d[p] = q[p]
    BY <1>1
  <1> HIDE DEF d
  <1>3. Sorted(d)
    BY <1>1, <1>2 DEF Sorted
  <1> QED BY <1>3 DEF d

LEMMA HeadSorted ==
  ASSUME NEW q, WellFormed(q), Sorted(q), NEW u \in Tasks
  PROVE  Sorted([q EXCEPT ![Queue(u)] = <<u>> \o @])
  <1> DEFINE s == <<u>> \o q[Queue(u)]
  <1>1. q[Queue(u)] \in Seq(Tasks)
    BY QueueLevel DEF WellFormed
  <1>2. ToSet(s) = ToSet(q[Queue(u)]) \cup {u}
    BY <1>1, AddHead
  <1> HIDE DEF s
  <1>3. Sorted([q EXCEPT ![Queue(u)] = s])
    BY <1>2, EnqueueSorted
  <1> QED BY <1>3 DEF s

LEMMA TailSorted ==
  ASSUME NEW q, WellFormed(q), Sorted(q), NEW u \in Tasks
  PROVE  Sorted([q EXCEPT ![Queue(u)] = Append(@, u)])
  <1> DEFINE s == Append(q[Queue(u)], u)
  <1>1. q[Queue(u)] \in Seq(Tasks)
    BY QueueLevel DEF WellFormed
  <1>2. ToSet(s) = ToSet(q[Queue(u)]) \cup {u}
    BY <1>1, AddTail
  <1> HIDE DEF s
  <1>3. Sorted([q EXCEPT ![Queue(u)] = s])
    BY <1>2, EnqueueSorted
  <1> QED BY <1>3 DEF s

(* task_switch_next picks the head of the highest queue in use. *)
LEMMA PicksHighest ==
  ASSUME NEW q, WellFormed(q), Sorted(q)
  PROVE  Sorted(Dequeued(q)) /\ Outranks(NextTask(q), Dequeued(q))
  <1>1. CASE Candidates(q) = {}
    BY <1>1 DEF Dequeued, Outranks, Candidates
  <1>2. CASE Candidates(q) # {}
    <2> DEFINE p == Top(q)
               n == Head(q[p])
               d == [q EXCEPT ![p] = Tail(q[p])]
    <2>1. p \in Levels /\ q[p] # <<>> /\ q[p] \in Seq(Tasks)
          /\ \A r \in Levels : q[r] # <<>> => r <= p
      BY <1>2, TopQueue DEF Candidates, WellFormed
    <2>2. Dequeued(q) = d /\ NextTask(q) = n
      BY <1>2 DEF Dequeued, NextTask
    <2> HIDE DEF p
    <2>3. n \in Tasks /\ ToSet(q[p]) = ToSet(Tail(q[p])) \cup {n}
      BY <2>1, DeleteHead
    <2>4. d[p] = Tail(q[p]) /\ \A r \in Levels : r # p => d[r] = q[r]
      BY <2>1 DEF WellFormed
    <2> HIDE DEF n, d
    <2>5. Sorted(d)
      BY <2>3, <2>4 DEF Sorted
    <2>6. Queue(n) = p /\ n # Idle
      BY <2>1, <2>3 DEF Sorted
    <2>7. Outranks(n, d)
      BY <2>1, <2>4, <2>6 DEF Outranks
    <2> QED BY <2>2, <2>5, <2>7
  <1> QED BY <1>1, <1>2

(* An exit has left the queues above the one it looks at (or above the one *)
(* it took a task from, or all of them for idle) empty: whoever is there   *)
(* now was readied later.                                                  *)
ScanInv ==
  /\ pc \notin {"scan", "found"} => level = 3
  /\ pc \in {"scan", "found"} =>
       \A p \in Levels : p > level => ToSet(runq[p]) \subseteq late
  /\ pc = "picked" =>
       \A p \in Levels : ToSet(runq[p]) \subseteq late \/ (arg # Idle /\ p <= Queue(arg))
RankInv == Sorted(runq) /\ ScanInv
RankStep ==
  current' # current /\ current' # Null =>
    LET overlooked == IF pc' = "load" THEN late ELSE {}
    IN  \A p \in Levels : ToSet(runq'[p]) \subseteq overlooked
                           \/ (current' # Idle /\ p <= Queue(current'))

LEMMA DeliverSorted ==
  ASSUME Inv, Sorted(runq), NEW u \in Tasks, NEW m, Deliver(u, m)
  PROVE  Sorted(runq')
  <1>1. WellFormed(runq)
    BY InvPlaces DEF PlaceInv
  <1>2. CASE runq' = runq
    BY <1>2
  <1>3. CASE runq' = [runq EXCEPT ![Queue(u)] = <<u>> \o @]
    BY <1>1, <1>3, HeadSorted
  <1> QED BY <1>2, <1>3 DEF Deliver

LEMMA SwitchRank ==
  ASSUME NEW q, WellFormed(q), Sorted(q), NEW c, NEW i,
         SwitchTo(NextTask(q), Dequeued(q), c, i)
  PROVE  RankInv' /\ RankStep
  <1>1. current' = NextTask(q) /\ runq' = Dequeued(q) /\ pc' = "run" /\ level' = 3
    BY DEF SwitchTo
  <1>2. Sorted(runq') /\ Outranks(current', runq')
    BY <1>1, PicksHighest
  <1>3. ASSUME NEW p \in Levels
        PROVE  ToSet(runq'[p]) \subseteq {} \/ (current' # Idle /\ p <= Queue(current'))
    <2>1. runq'[p] = <<>> => ToSet(runq'[p]) = {}
      BY DEF ToSet
    <2> QED BY <1>2, <2>1 DEF Outranks
  <1> QED BY <1>1, <1>2, <1>3 DEF RankInv, ScanInv, RankStep

LEMMA TickRank ==
  ASSUME Inv, RankInv, Tick
  PROVE  RankInv' /\ RankStep
  <1>0. WellFormed(runq) /\ Sorted(runq)
    BY InvPlaces DEF PlaceInv, RankInv
  <1>1. CASE ticks > 1
    BY <1>0, <1>1 DEF Tick, RankInv, ScanInv, RankStep
  <1>2. CASE ~(ticks > 1)
    <2> DEFINE q == IF current \in Tasks
                    THEN [runq EXCEPT ![Queue(current)] = Append(@, current)]
                    ELSE runq
    <2>1. PICK k, i : task_yield(k, i)
      BY <1>2 DEF Tick
    <2>2. SwitchTo(NextTask(q), Dequeued(q), [ctx EXCEPT ![current] = k], i)
      BY <2>1 DEF task_yield
    <2>3. WellFormed(q) /\ Sorted(q)
      <3>1. CASE current \in Tasks
        <4>1. current \notin Members(runq)
          BY InvPlaces DEF PlaceInv
        <4> QED BY <1>0, <3>1, <4>1, EnqueueTail, TailSorted
      <3>2. CASE current \notin Tasks
        BY <1>0, <3>2
      <3> QED BY <3>1, <3>2
    <2> HIDE DEF q
    <2> QED BY <2>2, <2>3, SwitchRank
  <1> QED BY <1>1, <1>2

(* A signal of an interrupt handler: a task it puts on a queue the exit    *)
(* has passed is recorded.                                                 *)
LEMMA IrqRank ==
  ASSUME Inv, RankInv, NEW u \in Tasks, NEW m, IrqSignal(u, m)
  PROVE  RankInv' /\ RankStep
  <1>1. Deliver(u, m) /\ UNCHANGED <<current, pc, arg, level>>
        /\ late' = IF Wakes(u, m) /\ PassedBy(u) THEN late \cup {u} ELSE late
    BY DEF IrqSignal
  <1>2. Sorted(runq')
    BY <1>1, DeliverSorted DEF RankInv
  <1>3. runq \in [Levels -> Seq(Tasks)] /\ Queue(u) \in Levels
    BY QueueLevel DEF Inv, TypeOK
  <1>4. ASSUME NEW p \in Levels
        PROVE  \/ ToSet(runq'[p]) = ToSet(runq[p])
               \/ p = Queue(u) /\ Wakes(u, m) /\ ToSet(runq'[p]) = ToSet(runq[p]) \cup {u}
    <2>1. CASE Wakes(u, m)
      <3>1. runq' = [runq EXCEPT ![Queue(u)] = <<u>> \o @]
        BY <1>1, <2>1 DEF Deliver
      <3>2. ToSet(<<u>> \o runq[Queue(u)]) = ToSet(runq[Queue(u)]) \cup {u}
        BY <1>3, AddHead
      <3> QED BY <1>3, <2>1, <3>1, <3>2
    <2>2. CASE ~Wakes(u, m)
      BY <1>1, <2>2 DEF Deliver
    <2> QED BY <2>1, <2>2
  <1>5. late \subseteq late' /\ (Wakes(u, m) /\ PassedBy(u) => u \in late')
    BY <1>1
  <1>6. ScanInv'
    <2>1. ASSUME pc \in {"scan", "found"}, NEW p \in Levels, p > level
          PROVE  ToSet(runq'[p]) \subseteq late'
      <3>1. ToSet(runq[p]) \subseteq late
        BY <2>1 DEF RankInv, ScanInv
      <3>2. p = Queue(u) => PassedBy(u)
        BY <2>1 DEF PassedBy
      <3> QED BY <1>4, <1>5, <3>1, <3>2
    <2>2. ASSUME pc = "picked", NEW p \in Levels
          PROVE  ToSet(runq'[p]) \subseteq late' \/ (arg # Idle /\ p <= Queue(arg))
      <3>1. ToSet(runq[p]) \subseteq late \/ (arg # Idle /\ p <= Queue(arg))
        BY <2>2 DEF RankInv, ScanInv
      <3>2. PassedBy(u)
        BY <2>2 DEF PassedBy
      <3> QED BY <1>4, <1>5, <3>1, <3>2
    <2> QED BY <1>1, <2>1, <2>2 DEF RankInv, ScanInv
  <1> QED BY <1>1, <1>2, <1>6 DEF RankInv, RankStep

(* The scan of an exit, step by step. *)
LEMMA ScanRank ==
  ASSUME Inv, RankInv, ExitNextLevel \/ ExitIdle \/ ExitFound
  PROVE  RankInv' /\ RankStep
  <1>0. level \in 0..3 /\ pc = "scan" /\ UNCHANGED <<current, runq, late>>
    BY DEF Inv, TypeOK, Levels, ExitNextLevel, ExitIdle, ExitFound
  <1>1. \A p \in Levels : p > level => ToSet(runq[p]) \subseteq late
    BY <1>0 DEF RankInv, ScanInv
  <1>2. runq[level] = <<>> => \A p \in Levels : p >= level => ToSet(runq[p]) \subseteq late
    <2>1. runq[level] = <<>> => ToSet(runq[level]) = {}
      BY DEF ToSet
    <2> QED BY <1>0, <1>1, <2>1 DEF Levels
  <1>3. CASE ExitNextLevel
    <2>1. \A p \in Levels : p > level - 1 => p >= level
      BY <1>0 DEF Levels
    <2> QED BY <1>0, <1>2, <1>3, <2>1 DEF ExitNextLevel, RankInv, ScanInv, RankStep
  <1>4. CASE ExitIdle
    <2>1. \A p \in Levels : p >= 0
      BY DEF Levels
    <2> QED BY <1>0, <1>2, <1>4, <2>1 DEF ExitIdle, RankInv, ScanInv, RankStep
  <1>5. CASE ExitFound
    BY <1>0, <1>1, <1>5 DEF ExitFound, RankInv, ScanInv, RankStep
  <1> QED BY <1>3, <1>4, <1>5

LEMMA DeleteRank == ASSUME Inv, RankInv, ExitDelete PROVE RankInv' /\ RankStep
  <1>1. /\ pc = "found" /\ pc' = "picked" /\ level' = 3
        /\ UNCHANGED <<current, arg, late>>
        /\ runq' = [runq EXCEPT ![level] = Unlink(runq[level], arg)]
    BY DEF ExitDelete
  <1>2. /\ level \in Levels /\ arg \in ToSet(runq[level]) /\ arg # Idle
        /\ runq \in [Levels -> Seq(Tasks)] /\ IsInjective(runq[level])
    BY <1>1, InvPlaces
       DEF Inv, TypeOK, FoundLinked, ExitShape, PlaceInv, WellFormed, QueuesDisjoint
  <1>3. Queue(arg) = level
    BY <1>2 DEF RankInv, Sorted
  <1>4. ToSet(Unlink(runq[level], arg)) \subseteq ToSet(runq[level])
    BY <1>2, UnlinkNode
  <1>5. \A p \in Levels : ToSet(runq'[p]) \subseteq ToSet(runq[p])
    BY <1>1, <1>2, <1>4
  <1>6. Sorted(runq')
    BY <1>5 DEF RankInv, Sorted
  <1>7. ASSUME NEW p \in Levels
        PROVE  ToSet(runq'[p]) \subseteq late \/ (arg # Idle /\ p <= Queue(arg))
    <2>1. CASE p > level
      BY <1>1, <1>5, <2>1 DEF RankInv, ScanInv
    <2>2. CASE ~(p > level)
      BY <1>2, <1>3, <2>2 DEF Levels
    <2> QED BY <2>1, <2>2
  <1> QED BY <1>1, <1>6, <1>7 DEF RankInv, ScanInv, RankStep

LEMMA RankNext ==
  ASSUME Inv, RankInv, [Next]_vars
  PROVE  RankInv' /\ RankStep
  <1>0. WellFormed(runq) /\ Sorted(runq)
    BY InvPlaces DEF PlaceInv, RankInv
  <1>1. CASE UNCHANGED vars
    BY <1>1 DEF vars, RankInv, ScanInv, RankStep
  <1>2. ASSUME NEW t, Disable(t) \/ Enable(t) PROVE RankInv' /\ RankStep
    BY <1>2 DEF Disable, Enable, RankInv, ScanInv, RankStep
  <1>3. ASSUME NEW t, NEW u \in Tasks, task_schedule(t, u) PROVE RankInv' /\ RankStep
    <2>1. Sorted(runq')
      BY <1>0, <1>3, HeadSorted DEF task_schedule
    <2> QED BY <1>3, <2>1 DEF task_schedule, Running, RankInv, ScanInv, RankStep
  <1>4. ASSUME NEW t, NEW u \in Tasks, NEW m, task_signal(t, u, m) PROVE RankInv' /\ RankStep
    <2>1. Sorted(runq')
      BY <1>0, <1>4, DeliverSorted DEF task_signal
    <2> QED BY <1>4, <2>1 DEF task_signal, Running, RankInv, ScanInv, RankStep
  <1>5. ASSUME NEW t, NEW m, task_wait(t, m) PROVE RankInv' /\ RankStep
    BY <1>0, <1>5, SwitchRank DEF task_wait
  <1>6. CASE Tick
    BY <1>6, TickRank
  <1>7. ASSUME NEW u \in Tasks, NEW m, IrqSignal(u, m) PROVE RankInv' /\ RankStep
    BY <1>7, IrqRank
  <1>8. ASSUME NEW t, ExitClear(t) PROVE RankInv' /\ RankStep
    BY <1>8 DEF ExitClear, Running, RankInv, ScanInv, RankStep
  <1>9. CASE ExitFree \/ StuckLoop
    BY <1>9 DEF ExitFree, StuckLoop, RankInv, ScanInv, RankStep
  <1>10. CASE ExitSuspend
    <2>1. \A p \in Levels : ~(p > 3)
      BY DEF Levels
    <2> QED BY <1>10, <2>1 DEF ExitSuspend, RankInv, ScanInv, RankStep
  <1>11. ASSUME ExitNextLevel \/ ExitIdle \/ ExitFound PROVE RankInv' /\ RankStep
    BY <1>11, ScanRank
  <1>12. CASE ExitDelete
    BY <1>12, DeleteRank
  <1>13. CASE ExitSetCurrent
    BY <1>13 DEF ExitSetCurrent, RankInv, ScanInv, RankStep
  <1>14. CASE ExitSwitch
    BY <1>14 DEF ExitSwitch, SwitchTo, RankInv, ScanInv, RankStep
  <1>15. CASE Tear
    BY <1>15 DEF Tear, RankInv, ScanInv, RankStep
  <1> QED BY <1>1, <1>2, <1>3, <1>4, <1>5, <1>6, <1>7, <1>8, <1>9, <1>10, <1>11, <1>12,
             <1>13, <1>14, <1>15
          DEF Next, TaskStep, WaitStep, InitStep, ExitStep

(* README.md's promise on priorities: whoever is given the CPU by a switch *)
(* is of the highest level that has a runnable task.  The tick, the wait   *)
(* and the exit keep it; all that an interrupted exit may overlook is a    *)
(* task that was readied behind its scan.                                  *)
THEOREM HighestGoesFirst == Spec => HighestFirst
  <1>1. Init => RankInv
    BY DEF Init, RankInv, ScanInv, Sorted, ToSet
  <1>2. Inv /\ RankInv /\ [Next]_vars => RankInv'
    BY RankNext
  <1>3. Inv /\ RankInv /\ [Next]_vars
        => [current' # current /\ current' # Null =>
              LET overlooked == IF pc' = "load" THEN late ELSE {}
              IN  \A p \in Levels : ToSet(runq'[p]) \subseteq overlooked
                                     \/ (current' # Idle /\ p <= Queue(current'))]_vars
    BY RankNext DEF RankStep
  <1> QED BY <1>1, <1>2, <1>3, InitInv, NextInv, PTL DEF Spec, HighestFirst
=============================================================================
