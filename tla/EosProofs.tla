----------------------------- MODULE EosProofs -----------------------------
(***************************************************************************)
(* The kernel's scheduling invariants, for every set of tasks, priorities, *)
(* periods, semaphores and calls: types, the bitmap and the ready queues   *)
(* agree, a most urgent task runs, and the idle task is always there; the  *)
(* wait queues are in the order of their priorities and the alarms in the  *)
(* order in which they expire.  Then where the tasks are: in every system  *)
(* whose sleeps end, no task is lost; and as long as no task waits with a  *)
(* timeout, a task is in one place, no wake-up is lost and a sleep lasts.  *)
(* At the end applications: their message queues lose no slot, and are     *)
(* FIFO queues between one sender and one receiver; and an application     *)
(* with more tasks than queues, whose tasks wait without a limit, never    *)
(* stops.  (EosRunsProofs applies all this to the systems that are run.)   *)
(***************************************************************************)
EXTENDS EosApp, FiniteSetTheorems, SequenceTheorems, WellFoundedInduction, TLAPS

-----------------------------------------------------------------------------
(* What the operations do, for every bitmap *)

\* A priority is a byte index and a bit index, and is put together from them.
LEMMA PriorityParts ==
  /\ \A p \in Priorities : /\ p \div 8 \in Byte /\ p % 8 \in Byte
                           /\ p = 8 * (p \div 8) + (p % 8)
  /\ \A y, x \in Byte : /\ 8 * y + x \in Priorities
                        /\ (8 * y + x) \div 8 = y /\ (8 * y + x) % 8 = x
  BY DEF Priorities, Byte

\* The CHOOSE in Unmap finds the lowest bit of every byte that is not 0.
LEMMA UnmapLowest ==
  ASSUME NEW bits \in SUBSET Byte, bits # {}
  PROVE  /\ Unmap(bits) \in bits
         /\ \A c \in bits : Unmap(bits) <= c
<1>1. \E b \in bits : \A c \in bits : b <= c
  <2>1. \A n \in Byte : (n \in bits /\ \A m \in Byte : m < n => m \notin bits)
                         => \A c \in bits : n <= c
    BY DEF Byte
  <2>2. \E n \in Byte : n \in bits /\ \A m \in Byte : m < n => m \notin bits
    <3>1. PICK b \in bits : TRUE
      OBVIOUS
    <3>2. SUFFICES ASSUME \A n \in Byte : n \in bits =>
                            \E m \in Byte : m < n /\ m \in bits
                   PROVE  FALSE
      OBVIOUS
    <3>3. 0 \notin bits
      BY <3>2 DEF Byte
    <3>4. 1 \notin bits
      BY <3>2, <3>3 DEF Byte
    <3>5. 2 \notin bits
      BY <3>2, <3>3, <3>4 DEF Byte
    <3>6. 3 \notin bits
      BY <3>2, <3>3, <3>4, <3>5 DEF Byte
    <3>7. 4 \notin bits
      BY <3>2, <3>3, <3>4, <3>5, <3>6 DEF Byte
    <3>8. 5 \notin bits
      BY <3>2, <3>3, <3>4, <3>5, <3>6, <3>7 DEF Byte
    <3>9. 6 \notin bits
      BY <3>2, <3>3, <3>4, <3>5, <3>6, <3>7, <3>8 DEF Byte
    <3>10. 7 \notin bits
      BY <3>2, <3>3, <3>4, <3>5, <3>6, <3>7, <3>8, <3>9 DEF Byte
    <3>. QED
      BY <3>1, <3>3, <3>4, <3>5, <3>6, <3>7, <3>8, <3>9, <3>10 DEF Byte
  <2>. QED
    BY <2>1, <2>2
<1>. QED
  BY <1>1 DEF Unmap

\* Everything the scheduler relies on when it sets a bit.
LEMMA SetReadyEffect ==
  ASSUME NEW b \in Bitmaps, NEW p \in Priorities, GroupAgrees(b)
  PROVE  /\ SetReady(b, p) \in Bitmaps
         /\ GroupAgrees(SetReady(b, p))
         /\ ReadySet(SetReady(b, p)) = ReadySet(b) \cup {p}
<1> DEFINE y == p \div 8
           x == p % 8
           new == SetReady(b, p)
<1>1. y \in Byte /\ x \in Byte
  BY PriorityParts
<1>2. new.group = b.group \cup {y} /\ new.table = [b.table EXCEPT ![y] = @ \cup {x}]
  BY DEF SetReady
<1>3. \A z \in Byte : new.table[z] = IF z = y THEN b.table[z] \cup {x} ELSE b.table[z]
  BY <1>1, <1>2 DEF Bitmaps
<1>4. new \in Bitmaps
  BY <1>1 DEF SetReady, Bitmaps
<1>5. GroupAgrees(new)
  BY <1>1, <1>2, <1>3 DEF GroupAgrees
<1>6. ASSUME NEW q \in Priorities
      PROVE  q % 8 \in new.table[q \div 8] <=> q % 8 \in b.table[q \div 8] \/ q = p
  <2>1. q = p <=> q \div 8 = y /\ q % 8 = x
    BY PriorityParts
  <2>2. q \div 8 \in Byte
    BY PriorityParts
  <2>. QED
    BY <1>1, <1>3, <2>1, <2>2
<1>7. ReadySet(new) = ReadySet(b) \cup {p}
  BY <1>6 DEF ReadySet
<1>. QED
  BY <1>4, <1>5, <1>7

\* ... and when it clears one.
LEMMA UnsetReadyEffect ==
  ASSUME NEW b \in Bitmaps, NEW p \in Priorities, GroupAgrees(b)
  PROVE  /\ UnsetReady(b, p) \in Bitmaps
         /\ GroupAgrees(UnsetReady(b, p))
         /\ ReadySet(UnsetReady(b, p)) = ReadySet(b) \ {p}
<1> DEFINE y == p \div 8
           x == p % 8
           rest == b.table[y] \ {x}
           new == UnsetReady(b, p)
<1>1. y \in Byte /\ x \in Byte
  BY PriorityParts
<1>2. /\ new.group = IF rest = {} THEN b.group \ {y} ELSE b.group
      /\ new.table = [b.table EXCEPT ![y] = rest]
  BY DEF UnsetReady
<1>3. \A z \in Byte : new.table[z] = IF z = y THEN rest ELSE b.table[z]
  BY <1>1, <1>2 DEF Bitmaps
<1>4. new \in Bitmaps
  BY <1>1 DEF UnsetReady, Bitmaps
<1>5. GroupAgrees(new)
  BY <1>1, <1>2, <1>3 DEF GroupAgrees
<1>6. ASSUME NEW q \in Priorities
      PROVE  q % 8 \in new.table[q \div 8] <=> q % 8 \in b.table[q \div 8] /\ q # p
  <2>1. q = p <=> q \div 8 = y /\ q % 8 = x
    BY PriorityParts
  <2>2. q \div 8 \in Byte
    BY PriorityParts
  <2>. QED
    BY <1>1, <1>3, <2>1, <2>2
<1>7. ReadySet(new) = ReadySet(b) \ {p}
  BY <1>6 DEF ReadySet
<1>. QED
  BY <1>4, <1>5, <1>7

\* _os_get_highest_priority returns the smallest ready priority, when there is
\* one: the property HighestRuns of the kernel rests on it.
THEOREM HighestPriorityCorrect ==
  ASSUME NEW b \in Bitmaps, GroupAgrees(b), ReadySet(b) # {}
  PROVE  /\ HighestPriority(b) \in ReadySet(b)
         /\ \A q \in ReadySet(b) : HighestPriority(b) <= q
<1> DEFINE y == Unmap(b.group)
           x == Unmap(b.table[y])
<1>1. b.group \in SUBSET Byte /\ b.table \in [Byte -> SUBSET Byte]
  BY DEF Bitmaps
<1>2. \A q \in ReadySet(b) : q \div 8 \in b.group
  BY PriorityParts DEF GroupAgrees, ReadySet
<1>3. y \in b.group /\ \A z \in b.group : y <= z
  BY <1>1, <1>2, UnmapLowest
<1>4. y \in Byte /\ b.table[y] # {} /\ b.table[y] \in SUBSET Byte
  BY <1>1, <1>3 DEF GroupAgrees
<1>5. x \in b.table[y] /\ \A c \in b.table[y] : x <= c
  BY <1>4, UnmapLowest
<1>6. HighestPriority(b) = 8 * y + x
  BY DEF HighestPriority
<1>7. 8 * y + x \in ReadySet(b)
  BY <1>4, <1>5, PriorityParts DEF ReadySet
<1>8. ASSUME NEW q \in ReadySet(b)
      PROVE  8 * y + x <= q
  <2>1. /\ q \in Priorities /\ q \div 8 \in Byte /\ q % 8 \in Byte
        /\ q = 8 * (q \div 8) + (q % 8) /\ q % 8 \in b.table[q \div 8]
    BY PriorityParts DEF ReadySet
  <2>2. y <= q \div 8
    BY <1>2, <1>3
  <2>3. q \div 8 = y => x <= q % 8
    BY <1>5, <2>1
  <2>4. x \in Byte
    BY <1>4, <1>5
  <2>. QED
    BY <1>4, <2>1, <2>2, <2>3, <2>4 DEF Byte
<1>. QED
  BY <1>6, <1>7, <1>8
-----------------------------------------------------------------------------
(* The kernel *)

States == {"NEW", "READY", "RUNNING", "WAITING"}

\* Ready queues and a bitmap that describe the same set of ready tasks, each
\* task in the queue of its own priority.
Consistent(rq, b) ==
  /\ rq \in [Priorities -> Seq(Tasks)]
  /\ b \in Bitmaps
  /\ GroupAgrees(b)
  /\ ReadySet(b) = {p \in Priorities : rq[p] # <<>>}
  /\ \A p \in Priorities : \A i \in 1..Len(rq[p]) : Prio[rq[p][i]] = p

In(t, q) == \E i \in 1..Len(q) : q[i] = t

\* The part of the inductive invariant about scheduling.
KernelOK ==
  /\ state \in [Tasks -> States]
  /\ cur \in Tasks \cup {NoTask}
  /\ Consistent(readyq, bm)
  /\ HighestRuns
  /\ state[Idle] = "NEW" \/ (cur = Idle /\ state[Idle] = "RUNNING") \/ In(Idle, readyq[63])
  /\ cur # NoTask => state[Idle] # "NEW"

\* The rest of it is typing.
RestOK ==
  /\ alarms \in Seq(Alarms)
  /\ count \in [Sems -> Nat]
  /\ waitq \in [Sems -> Seq(Waiters)]
  /\ pc \in [Tasks -> Contexts]
  /\ fault \in Faults

IInv == KernelOK /\ RestOK

-----------------------------------------------------------------------------
(* The ready queues *)

LEMMA PrioType == \A t \in Tasks : Prio[t] \in Priorities
  BY TaskAssumption

\* eos_create_task and _os_wakeup_sleeping_task: the bit and the node together
\* keep the bitmap and the queues consistent, and nobody leaves a queue.
LEMMA PushConsistent ==
  ASSUME NEW rq, NEW b, NEW t \in Tasks, Consistent(rq, b)
  PROVE  /\ Consistent(PushReady(rq, t), SetReady(b, Prio[t]))
         /\ In(t, PushReady(rq, t)[Prio[t]])
         /\ \A u \in Tasks, p \in Priorities :
              In(u, rq[p]) => In(u, PushReady(rq, t)[p])
<1> DEFINE p0 == Prio[t]
           longer == Append(rq[p0], t)
           new == PushReady(rq, t)
           nb == SetReady(b, p0)
<1>1. /\ p0 \in Priorities /\ Prio[t] = p0 /\ rq \in [Priorities -> Seq(Tasks)]
      /\ b \in Bitmaps /\ GroupAgrees(b)
  BY PrioType DEF Consistent
<1>2. \A p \in Priorities : new[p] = IF p = p0 THEN longer ELSE rq[p]
  BY <1>1 DEF PushReady
<1>3. /\ longer \in Seq(Tasks)
      /\ longer # <<>>
      /\ Len(longer) = Len(rq[p0]) + 1
      /\ \A i \in 1..Len(rq[p0]) : longer[i] = rq[p0][i]
      /\ longer[Len(rq[p0]) + 1] = t
      /\ Len(rq[p0]) \in Nat
  BY <1>1, AppendProperties, LenProperties
<1>4. new \in [Priorities -> Seq(Tasks)]
  BY <1>1, <1>3 DEF PushReady
<1>5. nb \in Bitmaps /\ GroupAgrees(nb) /\ ReadySet(nb) = ReadySet(b) \cup {p0}
  BY <1>1, SetReadyEffect
<1> HIDE DEF p0, longer, new, nb
<1>6. ReadySet(nb) = {p \in Priorities : new[p] # <<>>}
  BY <1>1, <1>2, <1>3, <1>5 DEF Consistent
<1>7. ASSUME NEW p \in Priorities, NEW i \in 1..Len(new[p])
      PROVE  Prio[new[p][i]] = p
  <2>1. CASE p # p0
    BY <1>2, <2>1 DEF Consistent
  <2>2. CASE p = p0
    <3>1. i \in 1..Len(rq[p0]) \/ i = Len(rq[p0]) + 1
      BY <1>2, <1>3, <2>2
    <3>. QED
      BY <1>1, <1>2, <1>3, <2>2, <3>1 DEF Consistent
  <2>. QED
    BY <2>1, <2>2
<1>8. In(t, new[p0])
  BY <1>1, <1>2, <1>3 DEF In
<1>9. ASSUME NEW u \in Tasks, NEW p \in Priorities, In(u, rq[p])
      PROVE  In(u, new[p])
  <2>1. CASE p # p0
    BY <1>2, <1>9, <2>1
  <2>2. CASE p = p0
    BY <1>2, <1>3, <1>9, <2>2 DEF In
  <2>. QED
    BY <2>1, <2>2
<1>10. Consistent(new, nb)
  BY <1>4, <1>5, <1>6, <1>7 DEF Consistent
<1>. QED
  BY <1>8, <1>9, <1>10 DEF p0, new, nb

\* The second half of eos_schedule, from any state with the idle task queued:
\* the queue the bitmap points to has a task, and the task that runs next is
\* a most urgent one.
LEMMA SwitchStep ==
  ASSUME NEW rq, NEW b, NEW st \in [Tasks -> States],
         Consistent(rq, b), In(Idle, rq[63]), st[Idle] # "NEW",
         SwitchToHighest(rq, b, st)
  PROVE  KernelOK' /\ cur' \in Tasks
<1> DEFINE p == HighestPriority(b)
           next == Head(rq[p])
<1>1. rq \in [Priorities -> Seq(Tasks)] /\ b \in Bitmaps /\ GroupAgrees(b)
  BY DEF Consistent
<1>2. 63 \in Priorities /\ rq[63] # <<>>
  BY <1>1, EmptySeq DEF Priorities, In
<1>3. p \in ReadySet(b) /\ \A q \in ReadySet(b) : p <= q
  BY <1>1, <1>2, HighestPriorityCorrect DEF Consistent
<1>4. p \in Priorities /\ rq[p] # <<>> /\ rq[p] \in Seq(Tasks)
  BY <1>1, <1>3 DEF Consistent
<1>5. /\ next \in Tasks /\ next = rq[p][1]
      /\ Tail(rq[p]) \in Seq(Tasks)
      /\ Len(rq[p]) \in Nat \ {0}
      /\ Len(Tail(rq[p])) = Len(rq[p]) - 1
      /\ \A i \in 1..Len(Tail(rq[p])) : Tail(rq[p])[i] = rq[p][i + 1]
  BY <1>4, HeadTailProperties, EmptySeq
<1>6. Prio[next] = p
  BY <1>4, <1>5 DEF Consistent
<1>7. /\ readyq' = [rq EXCEPT ![p] = Tail(@)]
      /\ bm' = IF Tail(rq[p]) = <<>> THEN UnsetReady(b, p) ELSE b
      /\ cur' = next
      /\ state' = [st EXCEPT ![next] = "RUNNING"]
  BY DEF SwitchToHighest
<1> HIDE DEF p, next
<1>8. \A q \in Priorities : readyq'[q] = IF q = p THEN Tail(rq[p]) ELSE rq[q]
  BY <1>1, <1>7
<1>9. Consistent(readyq', bm')
  <2>1. readyq' \in [Priorities -> Seq(Tasks)]
    BY <1>1, <1>5, <1>7
  <2>2. /\ bm' \in Bitmaps /\ GroupAgrees(bm')
        /\ ReadySet(bm') = IF Tail(rq[p]) = <<>> THEN ReadySet(b) \ {p} ELSE ReadySet(b)
    BY <1>1, <1>4, <1>7, UnsetReadyEffect
  <2>3. ReadySet(bm') = {q \in Priorities : readyq'[q] # <<>>}
    BY <1>4, <1>8, <2>2 DEF Consistent
  <2>4. ASSUME NEW q \in Priorities, NEW i \in 1..Len(readyq'[q])
        PROVE  Prio[readyq'[q][i]] = q
    <3>1. CASE q # p
      BY <1>8, <3>1 DEF Consistent
    <3>2. CASE q = p
      <4>1. readyq'[q] = Tail(rq[p])
        BY <1>8, <3>2
      <4>2. i \in 1..Len(Tail(rq[p]))
        BY <4>1
      <4>3. i + 1 \in 1..Len(rq[p]) /\ Tail(rq[p])[i] = rq[p][i + 1]
        BY <1>5, <4>2
      <4>. QED
        BY <1>4, <3>2, <4>1, <4>3 DEF Consistent
    <3>. QED
      BY <3>1, <3>2
  <2>. QED
    BY <2>1, <2>2, <2>3, <2>4 DEF Consistent
<1>10. ASSUME NEW q \in Priorities, q < p
       PROVE  readyq'[q] = <<>>
  <2>1. q \notin ReadySet(b)
    BY <1>3, <1>4, <1>10 DEF Priorities
  <2>2. rq[q] = <<>> /\ q # p
    BY <1>4, <1>10, <2>1 DEF Consistent, Priorities
  <2>. QED
    BY <1>8, <2>2
<1>11. HighestRuns'
  BY <1>6, <1>7, <1>10 DEF HighestRuns, Booted
<1>12. (cur' = Idle /\ state'[Idle] = "RUNNING") \/ In(Idle, readyq'[63])
  <2>1. CASE next = Idle
    BY <1>5, <1>7, <2>1
  <2>2. CASE next # Idle /\ p # 63
    BY <1>2, <1>8, <2>2
  <2>3. CASE next # Idle /\ p = 63
    <3>1. PICK i \in 1..Len(rq[63]) : rq[63][i] = Idle
      BY DEF In
    <3>2. i # 1
      BY <1>5, <2>3, <3>1
    <3>3. i - 1 \in 1..Len(Tail(rq[63])) /\ Tail(rq[63])[i - 1] = Idle
      BY <1>5, <2>3, <3>1, <3>2
    <3>. QED
      BY <1>2, <1>8, <2>3, <3>3 DEF In
  <2>. QED
    BY <2>1, <2>2, <2>3
<1>13. state' \in [Tasks -> States] /\ state'[Idle] # "NEW"
  BY <1>5, <1>7, TaskAssumption DEF States
<1>. QED
  BY <1>5, <1>7, <1>9, <1>11, <1>12, <1>13 DEF KernelOK

\* All of eos_schedule: the idle task must be running or queued already.
LEMMA ScheduleStep ==
  ASSUME NEW rq, NEW b, NEW st \in [Tasks -> States],
         cur \in Tasks \cup {NoTask},
         Consistent(rq, b), st[Idle] # "NEW",
         (cur = Idle /\ st[Idle] = "RUNNING") \/ In(Idle, rq[63]),
         Schedule(rq, b, st)
  PROVE  KernelOK' /\ cur' \in Tasks
<1>1. CASE cur # NoTask /\ st[cur] = "RUNNING"
  <2> DEFINE rq1 == PushReady(rq, cur)
             b1 == SetReady(b, Prio[cur])
             st1 == [st EXCEPT ![cur] = "READY"]
  <2>1. cur \in Tasks
    BY <1>1
  <2>2. /\ Consistent(rq1, b1)
        /\ In(cur, rq1[Prio[cur]])
        /\ \A u \in Tasks, p \in Priorities : In(u, rq[p]) => In(u, rq1[p])
    BY <2>1, PushConsistent
  <2>3. In(Idle, rq1[63])
    BY <2>2, TaskAssumption DEF Priorities
  <2>4. st1 \in [Tasks -> States] /\ st1[Idle] # "NEW"
    BY <2>1, TaskAssumption DEF States
  <2>5. SwitchToHighest(rq1, b1, st1)
    BY <1>1 DEF Schedule
  <2>. QED
    BY <2>2, <2>3, <2>4, <2>5, SwitchStep
<1>2. CASE ~(cur # NoTask /\ st[cur] = "RUNNING")
  <2>1. In(Idle, rq[63])
    BY <1>2, TaskAssumption
  <2>2. SwitchToHighest(rq, b, st)
    BY <1>2 DEF Schedule
  <2>. QED
    BY <2>1, <2>2, SwitchStep
<1>. QED
  BY <1>1, <1>2

\* _os_wakeup_sleeping_task, for a task in any state.
LEMMA WakeUpStep ==
  ASSUME KernelOK, cur \in Tasks, NEW t \in Tasks, WakeUp(t)
  PROVE  KernelOK' /\ cur' \in Tasks
<1> DEFINE rq == PushReady(readyq, t)
           b == SetReady(bm, Prio[t])
           st == [state EXCEPT ![t] = "READY"]
<1>1. /\ Consistent(rq, b)
      /\ In(t, rq[Prio[t]])
      /\ \A u \in Tasks, p \in Priorities : In(u, readyq[p]) => In(u, rq[p])
  BY PushConsistent DEF KernelOK
<1>2. state[Idle] # "NEW" /\ Idle \in Tasks /\ Prio[Idle] = 63 /\ cur # NoTask
  BY TaskAssumption DEF KernelOK
<1>3. st \in [Tasks -> States] /\ st[Idle] # "NEW"
  BY <1>2 DEF KernelOK, States
<1>4. (cur = Idle /\ st[Idle] = "RUNNING") \/ In(Idle, rq[63])
  <2>1. CASE t = Idle
    BY <1>1, <1>2, <2>1
  <2>2. CASE t # Idle
    BY <1>1, <1>2, <2>2 DEF KernelOK, Priorities
  <2>. QED
    BY <2>1, <2>2
<1>5. Schedule(rq, b, st)
  BY DEF WakeUp
<1> HIDE DEF rq, b, st
<1>. QED
  BY <1>1, <1>3, <1>4, <1>5, ScheduleStep

\* Every way to wait: the running task, never the idle one, becomes WAITING.
LEMMA SuspendStep ==
  ASSUME KernelOK, cur \in Tasks, cur # Idle, Suspend
  PROVE  KernelOK' /\ cur' \in Tasks
<1> DEFINE st == [state EXCEPT ![cur] = "WAITING"]
<1>1. state[Idle] # "NEW" /\ Idle \in Tasks /\ cur # NoTask
  BY TaskAssumption DEF KernelOK
<1>2. st \in [Tasks -> States] /\ st[Idle] # "NEW"
  BY <1>1 DEF KernelOK, States
<1>3. Consistent(readyq, bm) /\ In(Idle, readyq[63])
  BY <1>1 DEF KernelOK
<1>4. Schedule(readyq, bm, st)
  BY DEF Suspend
<1> HIDE DEF st
<1>. QED
  BY <1>2, <1>3, <1>4, ScheduleStep

\* eos_schedule called for its own sake.
LEMMA PlainScheduleStep ==
  ASSUME KernelOK, state[Idle] # "NEW", Schedule(readyq, bm, state)
  PROVE  KernelOK' /\ cur' \in Tasks
  BY ScheduleStep DEF KernelOK

LEMMA UnchangedKernel ==
  ASSUME KernelOK, UNCHANGED kernel
  PROVE  KernelOK' /\ cur' = cur
  BY DEF KernelOK, kernel, HighestRuns, Booted

-----------------------------------------------------------------------------
(* The lists of alarms and waiters *)

\* _os_add_node_priority returns a queue over the same kind of nodes.
LEMMA AddByPriorityType ==
  ASSUME NEW S, NEW q \in Seq(S), NEW node \in S
  PROVE  AddByPriority(q, node) \in Seq(S)
<1> DEFINE FirstLarger(k) == /\ q[k].prio > node.prio
                             /\ \A j \in 1..(k - 1) : q[j].prio <= node.prio
           at == CHOOSE k \in 1..Len(q) : FirstLarger(k)
<1>1. CASE ~ \E k \in 1..Len(q) : FirstLarger(k)
  BY <1>1, AppendProperties DEF AddByPriority
<1>2. CASE \E k \in 1..Len(q) : FirstLarger(k)
  <2>1. Len(q) \in Nat /\ \A i \in 1..Len(q) : q[i] \in S
    BY LenProperties, ElementOfSeq
  <2>2. ASSUME NEW k \in 1..Len(q)
        PROVE  InsertAt(q, k, node) \in Seq(S)
    <3>1. SubSeq(q, 1, k - 1) \in Seq(S)
      BY <2>1, SubSeqProperties
    <3>2. SubSeq(q, k, Len(q)) \in Seq(S)
      BY <2>1, SubSeqProperties
    <3>3. <<node>> \in Seq(S)
      OBVIOUS
    <3>. QED
      BY <3>1, <3>2, <3>3, ConcatProperties DEF InsertAt
  <2>3. at \in 1..Len(q)
    BY <1>2
  <2>4. AddByPriority(q, node) = InsertAt(q, at, node)
    BY <1>2 DEF AddByPriority
  <2>. QED
    BY <2>2, <2>3, <2>4
<1>. QED
  BY <1>1, <1>2

\* _os_remove_node only takes a node out.
LEMMA RemoveAlarmType ==
  ASSUME NEW q \in Seq(Alarms), NEW t
  PROVE  RemoveAlarm(q, t) \in Seq(Alarms)
<1> DEFINE at == CHOOSE i \in 1..Len(q) : q[i].task = t
<1>1. CASE \E i \in 1..Len(q) : q[i].task = t
  <2>1. Len(q) \in Nat /\ \A i \in 1..Len(q) : q[i] \in Alarms
    BY LenProperties, ElementOfSeq
  <2>2. ASSUME NEW k \in 1..Len(q)
        PROVE  RemoveAt(q, k) \in Seq(Alarms)
    <3>1. SubSeq(q, 1, k - 1) \in Seq(Alarms)
      BY <2>1, SubSeqProperties
    <3>2. SubSeq(q, k + 1, Len(q)) \in Seq(Alarms)
      BY <2>1, SubSeqProperties
    <3>. QED
      BY <3>1, <3>2, ConcatProperties DEF RemoveAt
  <2>3. at \in 1..Len(q)
    BY <1>1
  <2>. QED
    BY <1>1, <2>2, <2>3 DEF RemoveAlarm
<1>2. CASE ~ \E i \in 1..Len(q) : q[i].task = t
  BY <1>2 DEF RemoveAlarm
<1>. QED
  BY <1>1, <1>2

\* eos_set_alarm, for every key that fits the unsigned type.
LEMMA SetAlarmType ==
  ASSUME NEW q \in Seq(Alarms), NEW t \in Tasks, NEW key \in Nat
  PROVE  SetAlarm(q, t, key) \in Seq(Alarms)
<1> DEFINE node == [task |-> t, timeout |-> key \div 64, prio |-> key]
<1>1. RemoveAlarm(q, t) \in Seq(Alarms)
  BY RemoveAlarmType
<1>2. node \in Alarms
  BY DEF Alarms
<1> HIDE DEF node
<1>3. AddByPriority(RemoveAlarm(q, t), node) \in Seq(Alarms)
  BY <1>1, <1>2, AddByPriorityType
<1>. QED
  BY <1>1, <1>3 DEF SetAlarm, node

\* Counting down keeps both unsigned fields natural numbers: they wrap.
LEMMA CountDownType ==
  ASSUME NEW q \in Seq(Alarms)
  PROVE  CountDown(q) \in Seq(Alarms)
<1> DEFINE older(i) == [q[i] EXCEPT !.timeout = (@ - 1) % Wrap, !.prio = (@ - 64) % Wrap]
<1>1. Len(q) \in Nat /\ \A i \in 1..Len(q) : q[i] \in Alarms
  BY LenProperties, ElementOfSeq
<1>2. Wrap \in Nat \ {0}
  BY ParameterAssumption
<1>3. ASSUME NEW i \in 1..Len(q)
      PROVE  older(i) \in Alarms
  <2>1. \A n \in Int : n % Wrap \in Nat
    BY <1>2
  <2>2. q[i].timeout - 1 \in Int /\ q[i].prio - 64 \in Int
    BY <1>1 DEF Alarms
  <2>. QED
    BY <1>1, <2>1, <2>2 DEF Alarms
<1>4. CountDown(q) = [i \in 1..Len(q) |-> older(i)]
  BY DEF CountDown
<1> HIDE DEF older
<1>5. CountDown(q) \in [1..Len(q) -> Alarms]
  BY <1>3, <1>4
<1>. QED
  BY <1>1, <1>5, SeqDef

\* Joining a wait queue, in either order.
LEMMA EnqueueType ==
  ASSUME RestOK, cur \in Tasks, NEW s \in Sems, NEW by \in {"timed", "block"},
         Enqueue(s, by)
  PROVE  waitq' \in [Sems -> Seq(Waiters)]
<1> DEFINE node == [task |-> cur, prio |-> Prio[cur], by |-> by]
<1>1. node \in Waiters
  BY PrioType DEF Waiters
<1>2. waitq[s] \in Seq(Waiters)
  BY DEF RestOK
<1> HIDE DEF node
<1>3. /\ Append(waitq[s], node) \in Seq(Waiters)
      /\ AddByPriority(waitq[s], node) \in Seq(Waiters)
  BY <1>1, <1>2, AppendProperties, AddByPriorityType
<1>. QED
  BY <1>3 DEF Enqueue, RestOK, node
-----------------------------------------------------------------------------
(* Every step keeps the invariant: a lemma for each action *)

LEMMA InitInvariant ==
  ASSUME Init
  PROVE  IInv
<1>1. /\ EmptyBitmap \in Bitmaps /\ GroupAgrees(EmptyBitmap)
      /\ ReadySet(EmptyBitmap) = {}
  BY DEF EmptyBitmap, Bitmaps, Byte, GroupAgrees, ReadySet, Priorities
<1>2. /\ readyq \in [Priorities -> Seq(Tasks)]
      /\ \A p \in Priorities : readyq[p] = <<>>
  BY EmptySeq DEF Init
<1>3. Consistent(readyq, bm)
  BY <1>1, <1>2 DEF Consistent, Init
<1>4. KernelOK
  BY <1>3, TaskAssumption DEF KernelOK, Init, HighestRuns, Booted, States
<1>5. RestOK
  BY SemAssumption, EmptySeq DEF RestOK, Init, Contexts, UserContext, Faults
<1>. QED
  BY <1>4, <1>5 DEF IInv

LEMMA ContinueType ==
  ASSUME RestOK, cur \in Tasks, NEW context \in Contexts, Continue(context)
  PROVE  pc' \in [Tasks -> Contexts]
  BY DEF RestOK, Continue

LEMMA TakeTokenType ==
  ASSUME RestOK, NEW s \in Sems, TakeToken(s)
  PROVE  count' \in [Sems -> Nat]
  BY DEF RestOK, TakeToken

\* A call is made by a task other than the idle one.
LEMMA Caller ==
  ASSUME IInv, CanCall
  PROVE  cur \in Tasks /\ cur # Idle /\ state[Idle] # "NEW"
  BY DEF IInv, KernelOK, CanCall, InUserCode

LEMMA ContextTypes ==
  /\ UserContext \in Contexts /\ TickContext \in Contexts
  /\ \A s \in Sems : /\ [at |-> "timed", sem |-> s] \in Contexts
                     /\ [at |-> "block", sem |-> s] \in Contexts
  BY DEF UserContext, TickContext, Contexts

\* The contexts that wait name a semaphore.
LEMMA WaitContext ==
  ASSUME IInv, cur \in Tasks, pc[cur].at \in {"timed", "block"}
  PROVE  pc[cur].sem \in Sems
<1>1. pc[cur] \in Contexts
  BY DEF IInv, RestOK
<1>. QED
  BY <1>1 DEF Contexts

LEMMA CreateTaskStep ==
  ASSUME IInv, NEW t \in Tasks, CreateTask(t)
  PROVE  IInv'
<1>1. /\ Consistent(PushReady(readyq, t), SetReady(bm, Prio[t]))
      /\ In(t, PushReady(readyq, t)[Prio[t]])
      /\ \A u \in Tasks, p \in Priorities : In(u, readyq[p]) => In(u, PushReady(readyq, t)[p])
  BY PushConsistent DEF IInv, KernelOK
<1>2. readyq' = PushReady(readyq, t) /\ bm' = SetReady(bm, Prio[t]) /\ cur' = NoTask
  BY DEF CreateTask
<1>3. state' = [state EXCEPT ![t] = "READY"] /\ cur = NoTask
  BY DEF CreateTask
<1>4. state' \in [Tasks -> States] /\ HighestRuns'
  BY <1>2, <1>3 DEF IInv, KernelOK, States, HighestRuns, Booted
<1>5. state'[Idle] = "NEW" \/ In(Idle, readyq'[63])
  <2>1. CASE t = Idle
    BY <1>1, <1>2, <2>1, TaskAssumption
  <2>2. CASE t # Idle
    <3>1. state[Idle] = "NEW" \/ In(Idle, readyq[63])
      BY <1>3, TaskAssumption DEF IInv, KernelOK
    <3>. QED
      BY <1>1, <1>2, <1>3, <2>2, <3>1, TaskAssumption DEF IInv, KernelOK, Priorities
  <2>. QED
    BY <2>1, <2>2
<1>6. RestOK'
  BY DEF IInv, RestOK, CreateTask
<1>. QED
  BY <1>1, <1>2, <1>4, <1>5, <1>6 DEF IInv, KernelOK

LEMMA StartMultitaskingStep ==
  ASSUME IInv, StartMultitasking
  PROVE  IInv'
<1>1. state[Idle] # "NEW"
  BY TaskAssumption DEF StartMultitasking
<1>2. KernelOK'
  BY <1>1, PlainScheduleStep DEF IInv, StartMultitasking
<1>3. RestOK'
  BY DEF IInv, RestOK, StartMultitasking
<1>. QED
  BY <1>2, <1>3 DEF IInv

LEMMA YieldStep ==
  ASSUME IInv, Yield
  PROVE  IInv'
<1>1. KernelOK'
  BY Caller, PlainScheduleStep DEF IInv, Yield
<1>2. RestOK'
  BY DEF IInv, RestOK, Yield
<1>. QED
  BY <1>1, <1>2 DEF IInv

\* eos_sleep, in whatever context it was called: the task is suspended and
\* the alarm it sets has a key that fits.
LEMMA SleepForStep ==
  ASSUME IInv, CanCall, NEW tick \in Nat, NEW context \in Contexts, SleepFor(tick, context)
  PROVE  KernelOK' /\ alarms' \in Seq(Alarms) /\ pc' \in [Tasks -> Contexts]
<1> DEFINE timeout == IF tick > 0 THEN tick ELSE Period[cur]
           key == (64 * timeout + Prio[cur]) % Wrap
<1>1. cur \in Tasks /\ cur # Idle
  BY Caller
<1>2. timeout \in Nat /\ Prio[cur] \in Nat /\ Wrap \in Nat \ {0}
  BY <1>1, TaskAssumption, ParameterAssumption DEF Priorities
<1>3. key \in Nat
  BY <1>2
<1>4. alarms' = IF timeout > 0 THEN SetAlarm(alarms, cur, key) ELSE alarms
  BY DEF SleepFor
<1> HIDE DEF timeout, key
<1>5. alarms' \in Seq(Alarms)
  BY <1>1, <1>3, <1>4, SetAlarmType DEF IInv, RestOK
<1>6. pc' \in [Tasks -> Contexts]
  BY <1>1, ContinueType DEF IInv, SleepFor
<1>7. KernelOK'
  BY <1>1, SuspendStep DEF IInv, SleepFor
<1>. QED
  BY <1>5, <1>6, <1>7

LEMMA SleepStep ==
  ASSUME IInv, NEW tick \in SleepTicks, Sleep(tick)
  PROVE  IInv'
<1>1. tick \in Nat
  BY ParameterAssumption
<1>2. KernelOK' /\ alarms' \in Seq(Alarms) /\ pc' \in [Tasks -> Contexts]
  BY <1>1, SleepForStep, ContextTypes DEF Sleep
<1>. QED
  BY <1>2 DEF IInv, RestOK, Sleep

LEMMA AcquireAtOnceStep ==
  ASSUME IInv, NEW s \in Sems, AcquireAtOnce(s)
  PROVE  IInv'
<1>1. KernelOK'
  BY UnchangedKernel DEF IInv, AcquireAtOnce
<1>2. count' \in [Sems -> Nat]
  BY TakeTokenType DEF IInv, AcquireAtOnce
<1>. QED
  BY <1>1, <1>2 DEF IInv, RestOK, AcquireAtOnce

LEMMA AcquireTimedStep ==
  ASSUME IInv, NEW s \in Sems, NEW timeout \in Timeouts, AcquireTimed(s, timeout)
  PROVE  IInv'
<1>1. timeout \in Nat /\ cur \in Tasks
  BY Caller, ParameterAssumption DEF AcquireTimed
<1>2. KernelOK' /\ alarms' \in Seq(Alarms) /\ pc' \in [Tasks -> Contexts]
  BY <1>1, SleepForStep, ContextTypes DEF AcquireTimed
<1>3. waitq' \in [Sems -> Seq(Waiters)]
  BY <1>1, EnqueueType DEF IInv, AcquireTimed
<1>. QED
  BY <1>2, <1>3 DEF IInv, RestOK, AcquireTimed

LEMMA AcquireBlockStep ==
  ASSUME IInv, NEW s \in Sems, NEW timeout \in Timeouts, AcquireBlock(s, timeout)
  PROVE  IInv'
<1>1. cur \in Tasks /\ cur # Idle
  BY Caller DEF AcquireBlock
<1>2. KernelOK'
  BY <1>1, SuspendStep DEF IInv, AcquireBlock
<1>3. pc' \in [Tasks -> Contexts]
  BY <1>1, ContinueType, ContextTypes DEF IInv, AcquireBlock
<1>4. waitq' \in [Sems -> Seq(Waiters)]
  BY <1>1, EnqueueType DEF IInv, AcquireBlock
<1>. QED
  BY <1>2, <1>3, <1>4 DEF IInv, RestOK, AcquireBlock

LEMMA ReleaseStep ==
  ASSUME IInv, NEW s \in Sems, Release(s)
  PROVE  IInv'
<1>1. cur \in Tasks /\ waitq[s] \in Seq(Waiters)
  BY Caller DEF IInv, RestOK, Release
<1>2. count' \in [Sems -> Nat]
  BY DEF IInv, RestOK, Release
<1>3. CASE waitq[s] = <<>> /\ UNCHANGED <<kernel, waitq>>
  <2>1. KernelOK'
    BY <1>3, UnchangedKernel DEF IInv
  <2>. QED
    BY <1>2, <1>3, <2>1 DEF IInv, RestOK, Release
<1>4. CASE /\ waitq[s] # <<>>
           /\ waitq' = [waitq EXCEPT ![s] = Tail(@)]
           /\ WakeUp(Head(waitq[s]).task)
  <2>1. Head(waitq[s]) \in Waiters /\ Tail(waitq[s]) \in Seq(Waiters)
    BY <1>1, <1>4, HeadTailProperties
  <2>2. Head(waitq[s]).task \in Tasks
    BY <2>1 DEF Waiters
  <2>3. KernelOK'
    BY <1>1, <1>4, <2>2, WakeUpStep DEF IInv
  <2>4. waitq' \in [Sems -> Seq(Waiters)]
    BY <1>4, <2>1 DEF IInv, RestOK
  <2>. QED
    BY <1>2, <2>3, <2>4 DEF IInv, RestOK, Release
<1>. QED
  BY <1>3, <1>4 DEF Release

LEMMA AcquireTimedResumeStep ==
  ASSUME IInv, AcquireTimedResume
  PROVE  IInv'
<1>1. cur \in Tasks
  BY DEF IInv, KernelOK, AcquireTimedResume, Resumed
<1>2. pc[cur].sem \in Sems
  BY <1>1, WaitContext DEF AcquireTimedResume, Resumed
<1>3. KernelOK'
  BY UnchangedKernel DEF IInv, AcquireTimedResume
<1>4. count' \in [Sems -> Nat]
  BY <1>2, TakeTokenType DEF IInv, RestOK, AcquireTimedResume
<1>5. pc' \in [Tasks -> Contexts]
  BY <1>1, ContinueType, ContextTypes DEF IInv, AcquireTimedResume
<1>. QED
  BY <1>3, <1>4, <1>5 DEF IInv, RestOK, AcquireTimedResume

LEMMA AcquireBlockTakeStep ==
  ASSUME IInv, AcquireBlockTake
  PROVE  IInv'
<1>1. cur \in Tasks
  BY DEF IInv, KernelOK, AcquireBlockTake, Resumed
<1>2. pc[cur].sem \in Sems
  BY <1>1, WaitContext DEF AcquireBlockTake, Resumed
<1>3. KernelOK'
  BY UnchangedKernel DEF IInv, AcquireBlockTake
<1>4. count' \in [Sems -> Nat]
  BY <1>2, TakeTokenType DEF IInv, AcquireBlockTake
<1>5. pc' \in [Tasks -> Contexts]
  BY <1>1, ContinueType, ContextTypes DEF IInv, AcquireBlockTake
<1>. QED
  BY <1>3, <1>4, <1>5 DEF IInv, RestOK, AcquireBlockTake

LEMMA AcquireBlockRetryStep ==
  ASSUME IInv, AcquireBlockRetry
  PROVE  IInv'
<1>1. KernelOK'
  BY UnchangedKernel DEF IInv, AcquireBlockRetry
<1>2. fault' \in Faults
  BY DEF AcquireBlockRetry, Faults
<1>. QED
  BY <1>1, <1>2 DEF IInv, RestOK, AcquireBlockRetry

\* The second loop of eos_trigger_counter, from any queue of alarms.
LEMMA TriggerLoopStep ==
  ASSUME IInv, cur \in Tasks, NEW q \in Seq(Alarms), TriggerLoop(q)
  PROVE  KernelOK' /\ alarms' \in Seq(Alarms) /\ pc' \in [Tasks -> Contexts]
<1>1. CASE /\ alarms' = q
           /\ Continue(UserContext)
           /\ UNCHANGED kernel
  BY <1>1, UnchangedKernel, ContinueType, ContextTypes DEF IInv
<1>2. CASE /\ Expired(q)
           /\ alarms' = Tail(q)
           /\ Continue(TickContext)
           /\ WakeUp(Head(q).task)
  <2>1. Head(q) \in Alarms /\ Tail(q) \in Seq(Alarms)
    BY <1>2, HeadTailProperties DEF Expired
  <2>2. Head(q).task \in Tasks
    BY <2>1 DEF Alarms
  <2>3. KernelOK'
    BY <1>2, <2>2, WakeUpStep DEF IInv
  <2>4. pc' \in [Tasks -> Contexts]
    BY <1>2, ContinueType, ContextTypes DEF IInv
  <2>. QED
    BY <1>2, <2>1, <2>3, <2>4
<1>. QED
  BY <1>1, <1>2 DEF TriggerLoop

LEMMA TickStep ==
  ASSUME IInv, Tick
  PROVE  IInv'
<1>1. cur \in Tasks
  BY DEF IInv, KernelOK, Tick, InUserCode
<1>2. CASE TriggerLoop(CountDown(alarms)) /\ UNCHANGED fault
  <2>1. CountDown(alarms) \in Seq(Alarms)
    BY CountDownType DEF IInv, RestOK
  <2>2. KernelOK' /\ alarms' \in Seq(Alarms) /\ pc' \in [Tasks -> Contexts]
    BY <1>1, <1>2, <2>1, TriggerLoopStep
  <2>. QED
    BY <1>2, <2>2 DEF IInv, RestOK, Tick
<1>3. CASE fault' = "no_alarm" /\ UNCHANGED <<kernel, alarms, pc>>
  <2>1. KernelOK'
    BY <1>3, UnchangedKernel DEF IInv
  <2>. QED
    BY <1>3, <2>1 DEF IInv, RestOK, Faults, Tick
<1>. QED
  BY <1>2, <1>3 DEF Tick

LEMMA TickResumeStep ==
  ASSUME IInv, TickResume
  PROVE  IInv'
<1>1. cur \in Tasks
  BY DEF IInv, KernelOK, TickResume, Resumed
<1>2. KernelOK' /\ alarms' \in Seq(Alarms) /\ pc' \in [Tasks -> Contexts]
  BY <1>1, TriggerLoopStep DEF IInv, RestOK, TickResume
<1>. QED
  BY <1>2 DEF IInv, RestOK, TickResume

LEMMA StutterStep ==
  ASSUME IInv, UNCHANGED vars
  PROVE  IInv'
<1>1. KernelOK'
  BY UnchangedKernel DEF IInv, vars, kernel
<1>. QED
  BY <1>1 DEF IInv, RestOK, vars

LEMMA NextInvariant ==
  ASSUME IInv, [Next]_vars
  PROVE  IInv'
<1>1. CASE Boot
  BY <1>1, CreateTaskStep, StartMultitaskingStep DEF Boot
<1>2. CASE Call
  BY <1>2, YieldStep, SleepStep, AcquireAtOnceStep, AcquireTimedStep,
     AcquireBlockStep, ReleaseStep DEF Call
<1>3. CASE Resume
  BY <1>3, AcquireTimedResumeStep, AcquireBlockTakeStep, AcquireBlockRetryStep,
     TickResumeStep DEF Resume
<1>4. CASE Tick
  BY <1>4, TickStep
<1>5. CASE UNCHANGED vars
  BY <1>5, StutterStep
<1>. QED
  BY <1>1, <1>2, <1>3, <1>4, <1>5 DEF Next

-----------------------------------------------------------------------------
(* The theorems *)

\* The inductive invariant holds always: what TypeOK, BitmapMatchesQueues,
\* HighestRuns and IdleAvailable say follows from it.
THEOREM KernelInvariant == Spec => []IInv
<1>1. Init => IInv
  BY InitInvariant
<1>2. IInv /\ [Next]_vars => IInv'
  BY NextInvariant
<1>. QED
  BY <1>1, <1>2, PTL DEF Spec

\* Type correctness of the kernel: no call and no tick puts anything but tasks
\* into the ready queues, or a key that does not fit into the alarm queue.
THEOREM TypeCorrect == Spec => []TypeOK
<1>1. IInv => TypeOK
  BY DEF IInv, KernelOK, RestOK, Consistent, States, TypeOK
<1>. QED
  BY <1>1, KernelInvariant, PTL

\* The ready bitmap and the ready queues always agree, whatever tasks create,
\* schedule, sleep, wait, release and tick in whatever order.
THEOREM BitmapAlwaysMatchesQueues == Spec => []BitmapMatchesQueues
<1>1. IInv => BitmapMatchesQueues
  BY DEF IInv, KernelOK, Consistent, BitmapMatchesQueues
<1>. QED
  BY <1>1, KernelInvariant, PTL

\* Scheduling is by priority: no ready task is more urgent than the running one.
THEOREM HighestAlwaysRuns == Spec => []HighestRuns
<1>1. IInv => HighestRuns
  BY DEF IInv, KernelOK
<1>. QED
  BY <1>1, KernelInvariant, PTL

\* eos_schedule always finds a task: the idle task runs or is queued.
THEOREM IdleAlwaysAvailable == Spec => []IdleAvailable
<1>1. ASSUME IInv
      PROVE  IdleAvailable
  <2>1. readyq[63] \in Seq(Tasks)
    BY <1>1 DEF IInv, KernelOK, Consistent, Priorities
  <2>2. In(Idle, readyq[63]) => Idle \in ToSet(readyq[63])
    BY <2>1, LenProperties DEF In, ToSet
  <2>. QED
    BY <1>1, <2>2 DEF IInv, KernelOK, Booted, IdleAvailable
<1>. QED
  BY <1>1, KernelInvariant, PTL

-----------------------------------------------------------------------------
(* The order of the alarms and of the waiters *)

\* The queues that _os_add_node_priority builds are in the order of their keys.
Sorted(q) == \A i, j \in 1..Len(q) : i <= j => q[i].prio <= q[j].prio

\* A nonempty set of natural numbers has a least element.
LEMMA LeastIndex ==
  ASSUME NEW A \in SUBSET Nat, A # {}
  PROVE  \E m \in A : \A j \in A : m <= j
<1>1. IsWellFoundedOn(OpToRel(<, Nat), Nat)
  BY NatLessThanWellFounded
<1>2. PICK m \in A : \A j \in A : <<j, m>> \notin OpToRel(<, Nat)
  BY <1>1, WFMin
<1>3. \A j \in A : m <= j
  <2>1. \A x, y \in Nat : <<x, y>> \in OpToRel(<, Nat) <=> x < y
    BY DEF OpToRel
  <2>2. \A j \in A : ~(j < m)
    BY <1>2, <2>1, Zenon
  <2>. QED
    BY <2>2
<1>. QED
  BY <1>3

\* r is q with the node e put in as the k-th, or with the k-th taken out.
Inserted(q, k, e, r) ==
  /\ Len(r) = Len(q) + 1
  /\ \A i \in 1..(Len(q) + 1) : r[i] = IF i < k THEN q[i] ELSE IF i = k THEN e ELSE q[i - 1]
Removed(q, k, r) ==
  /\ Len(r) = Len(q) - 1
  /\ \A i \in 1..(Len(q) - 1) : r[i] = IF i < k THEN q[i] ELSE q[i + 1]

LEMMA InsertAtItems ==
  ASSUME NEW S, NEW q \in Seq(S), NEW k \in 1..Len(q), NEW e \in S
  PROVE  /\ InsertAt(q, k, e) \in Seq(S)
         /\ Inserted(q, k, e, InsertAt(q, k, e))
<1> DEFINE before == SubSeq(q, 1, k - 1)
           after == SubSeq(q, k, Len(q))
<1>1. Len(q) \in Nat /\ k \in Nat /\ k >= 1 /\ k <= Len(q) /\ \A i \in 1..Len(q) : q[i] \in S
  BY LenProperties, ElementOfSeq
<1>2. /\ before \in Seq(S) /\ Len(before) = k - 1
      /\ \A i \in 1..(k - 1) : before[i] = q[i]
  BY <1>1, SubSeqProperties
<1>3. /\ after \in Seq(S) /\ Len(after) = Len(q) - k + 1
      /\ \A i \in 1..(Len(q) - k + 1) : after[i] = q[k + i - 1]
  BY <1>1, SubSeqProperties
<1>4. <<e>> \in Seq(S) /\ Len(<<e>>) = 1 /\ <<e>>[1] = e
  OBVIOUS
<1> HIDE DEF before, after
<1> DEFINE middle == before \o <<e>>
<1>5. /\ middle \in Seq(S) /\ Len(middle) = k
      /\ \A i \in 1..k : middle[i] = IF i < k THEN q[i] ELSE e
  <2>1. /\ middle \in Seq(S) /\ Len(middle) = Len(before) + Len(<<e>>)
        /\ \A i \in 1..(Len(before) + Len(<<e>>)) :
             middle[i] = IF i <= Len(before) THEN before[i] ELSE <<e>>[i - Len(before)]
    BY <1>2, <1>4, ConcatProperties
  <2>. QED
    BY <1>1, <1>2, <1>4, <2>1
<1> HIDE DEF middle
<1>6. /\ middle \o after \in Seq(S) /\ Len(middle \o after) = Len(middle) + Len(after)
      /\ \A i \in 1..(Len(middle) + Len(after)) :
           (middle \o after)[i] = IF i <= Len(middle) THEN middle[i] ELSE after[i - Len(middle)]
  BY <1>3, <1>5, ConcatProperties
<1>7. InsertAt(q, k, e) = middle \o after
  BY DEF InsertAt, middle, before, after
<1>8. ASSUME NEW i \in 1..(Len(q) + 1)
      PROVE  (middle \o after)[i] = IF i < k THEN q[i] ELSE IF i = k THEN e ELSE q[i - 1]
  <2>1. CASE i <= k
    <3>1. i \in 1..k /\ i \in 1..(Len(middle) + Len(after)) /\ i <= Len(middle)
      BY <1>1, <1>3, <1>5, <2>1
    <3>2. (middle \o after)[i] = middle[i]
      BY <1>6, <3>1
    <3>. QED
      BY <1>1, <1>5, <2>1, <3>1, <3>2
  <2>2. CASE i > k
    <3>1. i - k \in 1..(Len(q) - k + 1)
      BY <1>1, <2>2
    <3>2. i \in 1..(Len(middle) + Len(after)) /\ ~(i <= Len(middle)) /\ Len(middle) = k
      BY <1>1, <1>3, <1>5, <2>2
    <3>3. (middle \o after)[i] = after[i - k]
      BY <1>6, <3>2
    <3>4. after[i - k] = q[k + (i - k) - 1]
      BY <1>3, <3>1
    <3>5. k + (i - k) - 1 = i - 1
      BY <1>1
    <3>6. ~(i < k) /\ i # k
      BY <1>1, <2>2
    <3>. QED
      BY <3>3, <3>4, <3>5, <3>6
  <2>3. i <= k \/ i > k
    BY <1>1
  <2>. QED
    BY <2>1, <2>2, <2>3, Zenon
<1>9. Len(q) + 1 = Len(middle) + Len(after)
  BY <1>1, <1>3, <1>5
<1>. QED
  BY <1>6, <1>7, <1>8, <1>9 DEF Inserted

LEMMA RemoveAtItems ==
  ASSUME NEW S, NEW q \in Seq(S), NEW k \in 1..Len(q)
  PROVE  /\ RemoveAt(q, k) \in Seq(S)
         /\ Removed(q, k, RemoveAt(q, k))
<1> DEFINE before == SubSeq(q, 1, k - 1)
           after == SubSeq(q, k + 1, Len(q))
<1>1. Len(q) \in Nat /\ k \in Nat /\ k >= 1 /\ k <= Len(q) /\ \A i \in 1..Len(q) : q[i] \in S
  BY LenProperties, ElementOfSeq
<1>2. /\ before \in Seq(S) /\ Len(before) = k - 1
      /\ \A i \in 1..(k - 1) : before[i] = q[i]
  BY <1>1, SubSeqProperties
<1>3. /\ after \in Seq(S) /\ Len(after) = Len(q) - k
      /\ \A i \in 1..(Len(q) - k) : after[i] = q[k + i]
  BY <1>1, SubSeqProperties
<1> HIDE DEF before, after
<1>4. /\ before \o after \in Seq(S) /\ Len(before \o after) = Len(before) + Len(after)
      /\ \A i \in 1..(Len(before) + Len(after)) :
           (before \o after)[i] = IF i <= Len(before) THEN before[i] ELSE after[i - Len(before)]
  BY <1>2, <1>3, ConcatProperties
<1>5. RemoveAt(q, k) = before \o after
  BY DEF RemoveAt, before, after
<1>6. ASSUME NEW i \in 1..(Len(q) - 1)
      PROVE  (before \o after)[i] = IF i < k THEN q[i] ELSE q[i + 1]
  <2>1. CASE i < k
    <3>1. i \in 1..(k - 1) /\ i \in 1..(Len(before) + Len(after)) /\ i <= Len(before)
      BY <1>1, <1>2, <1>3, <2>1
    <3>. QED
      BY <1>2, <1>4, <2>1, <3>1
  <2>2. CASE i >= k
    <3>1. i - (k - 1) \in 1..(Len(q) - k)
      BY <1>1, <2>2
    <3>2. i \in 1..(Len(before) + Len(after)) /\ ~(i <= Len(before)) /\ Len(before) = k - 1
      BY <1>1, <1>2, <1>3, <2>2
    <3>3. (before \o after)[i] = after[i - (k - 1)]
      BY <1>4, <3>2
    <3>4. after[i - (k - 1)] = q[k + (i - (k - 1))]
      BY <1>3, <3>1
    <3>5. k + (i - (k - 1)) = i + 1 /\ ~(i < k)
      BY <1>1, <2>2
    <3>. QED
      BY <3>3, <3>4, <3>5
  <2>3. i < k \/ i >= k
    BY <1>1
  <2>. QED
    BY <2>1, <2>2, <2>3, Zenon
<1>7. Len(q) - 1 = Len(before) + Len(after)
  BY <1>1, <1>2, <1>3
<1>. QED
  BY <1>4, <1>5, <1>6, <1>7 DEF Removed

\* Where _os_add_node_priority links a node: behind every node that is not
\* larger up to there, and in before of one that is, if any.
LEMMA AddByPriorityItems ==
  ASSUME NEW S, NEW q \in Seq(S), NEW node \in S, \A n \in S : n.prio \in Nat
  PROVE  \E k \in 1..(Len(q) + 1) :
           /\ AddByPriority(q, node) \in Seq(S)
           /\ Inserted(q, k, node, AddByPriority(q, node))
           /\ \A j \in 1..(k - 1) : q[j].prio <= node.prio
           /\ k <= Len(q) => q[k].prio > node.prio
<1> DEFINE r == AddByPriority(q, node)
           FirstLarger(k) == /\ q[k].prio > node.prio
                             /\ \A j \in 1..(k - 1) : q[j].prio <= node.prio
<1>1. Len(q) \in Nat /\ \A i \in 1..Len(q) : q[i] \in S /\ q[i].prio \in Nat
  BY LenProperties, ElementOfSeq
<1>2. CASE \E k \in 1..Len(q) : FirstLarger(k)
  <2>1. PICK k \in 1..Len(q) : k = CHOOSE x \in 1..Len(q) : FirstLarger(x)
    BY <1>2
  <2>2. FirstLarger(k)
    BY <1>2, <2>1
  <2>3. r = InsertAt(q, k, node)
    BY <1>2, <2>1 DEF AddByPriority
  <2>4. InsertAt(q, k, node) \in Seq(S) /\ Inserted(q, k, node, InsertAt(q, k, node))
    BY InsertAtItems
  <2>5. /\ k \in 1..(Len(q) + 1) /\ q[k].prio > node.prio
        /\ \A j \in 1..(k - 1) : q[j].prio <= node.prio
    BY <1>1, <2>2
  <2>. QED
    BY <2>3, <2>4, <2>5
<1>3. CASE ~ \E k \in 1..Len(q) : FirstLarger(k)
  <2>1. r = Append(q, node)
    BY <1>3 DEF AddByPriority
  <2>2. \A j \in 1..Len(q) : q[j].prio <= node.prio
    <3>1. SUFFICES ASSUME NEW x \in 1..Len(q), q[x].prio > node.prio
                   PROVE  FALSE
      BY <1>1
    <3> DEFINE A == {i \in 1..Len(q) : q[i].prio > node.prio}
    <3>2. A \in SUBSET Nat /\ A # {}
      BY <1>1, <3>1
    <3> HIDE DEF A
    <3>3. PICK m \in A : \A j \in A : m <= j
      BY <3>2, LeastIndex
    <3>4. m \in 1..Len(q) /\ q[m].prio > node.prio
      BY <3>3 DEF A
    <3>5. \A j \in 1..(m - 1) : q[j].prio <= node.prio
      BY <1>1, <3>3, <3>4 DEF A
    <3>. QED
      BY <1>3, <3>4, <3>5
  <2>3. Append(q, node) \in Seq(S) /\ Inserted(q, Len(q) + 1, node, Append(q, node))
    BY <1>1, AppendProperties DEF Inserted
  <2>4. Len(q) + 1 \in 1..(Len(q) + 1) /\ ~(Len(q) + 1 <= Len(q)) /\ (Len(q) + 1) - 1 = Len(q)
    BY <1>1
  <2>. QED
    BY <2>1, <2>2, <2>3, <2>4
<1>. QED
  BY <1>2, <1>3

\* So it keeps a sorted queue sorted.
LEMMA AddByPrioritySorted ==
  ASSUME NEW S, NEW q \in Seq(S), NEW node \in S, \A n \in S : n.prio \in Nat, Sorted(q)
  PROVE  Sorted(AddByPriority(q, node))
<1> DEFINE r == AddByPriority(q, node)
<1>0. PICK k \in 1..(Len(q) + 1) :
        /\ Inserted(q, k, node, r)
        /\ \A j \in 1..(k - 1) : q[j].prio <= node.prio
        /\ k <= Len(q) => q[k].prio > node.prio
  BY AddByPriorityItems
<1>1. /\ k \in 1..(Len(q) + 1)
      /\ Len(r) = Len(q) + 1
      /\ \A i \in 1..(Len(q) + 1) :
           r[i] = IF i < k THEN q[i] ELSE IF i = k THEN node ELSE q[i - 1]
      /\ \A j \in 1..(k - 1) : q[j].prio <= node.prio
      /\ k <= Len(q) => q[k].prio > node.prio
  BY <1>0 DEF Inserted
<1>2. Len(q) \in Nat /\ node.prio \in Nat /\ \A i \in 1..Len(q) : q[i].prio \in Nat
  BY LenProperties, ElementOfSeq
<1> HIDE DEF r
<1>3. \A j \in 1..Len(q) : k <= j => node.prio <= q[j].prio
  BY <1>1, <1>2 DEF Sorted
<1>4. ASSUME NEW i \in 1..Len(r), NEW j \in 1..Len(r), i <= j
      PROVE  r[i].prio <= r[j].prio
  <2>0. /\ i \in 1..(Len(q) + 1) /\ j \in 1..(Len(q) + 1)
        /\ r[i] = IF i < k THEN q[i] ELSE IF i = k THEN node ELSE q[i - 1]
        /\ r[j] = IF j < k THEN q[j] ELSE IF j = k THEN node ELSE q[j - 1]
    BY <1>1
  <2>1. CASE j < k
    <3>1. i \in 1..Len(q) /\ j \in 1..Len(q) /\ i < k
      BY <1>1, <1>2, <1>4, <2>0, <2>1
    <3>. QED
      BY <1>4, <2>0, <2>1, <3>1 DEF Sorted
  <2>2. CASE i < k /\ j = k
    <3>1. i \in 1..(k - 1) /\ ~(j < k)
      BY <1>1, <1>2, <2>0, <2>2
    <3>. QED
      BY <1>1, <2>0, <2>2, <3>1
  <2>3. CASE i < k /\ j > k
    <3>1. i \in 1..Len(q) /\ j - 1 \in 1..Len(q) /\ i <= j - 1 /\ ~(j < k) /\ j # k
      BY <1>1, <1>2, <2>0, <2>3
    <3>. QED
      BY <2>0, <2>3, <3>1 DEF Sorted
  <2>4. CASE i = k /\ j > k
    <3>1. j - 1 \in 1..Len(q) /\ k <= j - 1 /\ ~(j < k) /\ j # k /\ ~(i < k)
      BY <1>1, <1>2, <2>0, <2>4
    <3>. QED
      BY <1>3, <2>0, <2>4, <3>1
  <2>5. CASE i = k /\ j = k
    BY <1>2, <2>0, <2>5
  <2>6. CASE i > k
    <3>1. /\ i - 1 \in 1..Len(q) /\ j - 1 \in 1..Len(q) /\ i - 1 <= j - 1
          /\ ~(i < k) /\ i # k /\ ~(j < k) /\ j # k
      BY <1>1, <1>2, <1>4, <2>0, <2>6
    <3>. QED
      BY <2>0, <3>1 DEF Sorted
  <2>7. \/ j < k \/ (i < k /\ j = k) \/ (i < k /\ j > k)
        \/ (i = k /\ j > k) \/ (i = k /\ j = k) \/ i > k
    BY <1>1, <1>2, <1>4, <2>0
  <2>. QED
    BY <2>1, <2>2, <2>3, <2>4, <2>5, <2>6, <2>7, Zenon
<1>. QED
  BY <1>4 DEF Sorted, r

\* Taking the head off keeps it sorted.
LEMMA TailSorted ==
  ASSUME NEW S, NEW q \in Seq(S), q # <<>>, Sorted(q)
  PROVE  Sorted(Tail(q))
<1>1. /\ Tail(q) \in Seq(S) /\ Len(Tail(q)) = Len(q) - 1 /\ Len(q) \in Nat
      /\ \A i \in 1..Len(Tail(q)) : Tail(q)[i] = q[i + 1]
  BY HeadTailProperties, LenProperties
<1>. QED
  BY <1>1 DEF Sorted

LEMMA AddByPriorityMembers ==
  ASSUME NEW S, NEW q \in Seq(S), NEW node \in S, \A n \in S : n.prio \in Nat
  PROVE  /\ In(node, AddByPriority(q, node))
         /\ \A n : In(n, q) => In(n, AddByPriority(q, node))
         /\ \A n : In(n, AddByPriority(q, node)) => n = node \/ In(n, q)
<1> DEFINE r == AddByPriority(q, node)
<1>0. PICK k \in 1..(Len(q) + 1) : Inserted(q, k, node, r)
  BY AddByPriorityItems
<1>1. /\ k \in 1..(Len(q) + 1)
      /\ Len(r) = Len(q) + 1
      /\ \A i \in 1..(Len(q) + 1) :
           r[i] = IF i < k THEN q[i] ELSE IF i = k THEN node ELSE q[i - 1]
  BY <1>0 DEF Inserted
<1>2. Len(q) \in Nat
  BY LenProperties
<1> HIDE DEF r
<1>3. In(node, r)
  BY <1>1, <1>2 DEF In
<1>4. ASSUME NEW n, In(n, q)
      PROVE  In(n, r)
  <2>1. PICK i \in 1..Len(q) : q[i] = n
    BY <1>4 DEF In
  <2>2. CASE i < k
    <3>1. i \in 1..Len(r) /\ r[i] = q[i]
      BY <1>1, <1>2, <2>2
    <3>. QED
      BY <2>1, <3>1 DEF In
  <2>3. CASE i >= k
    <3>1. i + 1 \in 1..(Len(q) + 1) /\ ~(i + 1 < k) /\ i + 1 # k /\ (i + 1) - 1 = i
      BY <1>1, <1>2, <2>3
    <3>2. r[i + 1] = q[i]
      BY <1>1, <3>1
    <3>. QED
      BY <1>1, <2>1, <3>1, <3>2 DEF In
  <2>. QED
    BY <2>2, <2>3
<1>5. ASSUME NEW n, In(n, r)
      PROVE  n = node \/ In(n, q)
  <2>1. PICK i \in 1..(Len(q) + 1) : r[i] = n
    BY <1>1, <1>5 DEF In
  <2>2. r[i] = IF i < k THEN q[i] ELSE IF i = k THEN node ELSE q[i - 1]
    BY <1>1
  <2>3. CASE i < k
    <3>1. i \in 1..Len(q)
      BY <1>1, <1>2, <2>3
    <3>. QED
      BY <2>1, <2>2, <2>3, <3>1 DEF In
  <2>4. CASE i > k
    <3>1. i - 1 \in 1..Len(q) /\ ~(i < k) /\ i # k
      BY <1>1, <1>2, <2>4
    <3>. QED
      BY <2>1, <2>2, <3>1 DEF In
  <2>. QED
    BY <1>1, <1>2, <2>1, <2>2, <2>3, <2>4
<1>. QED
  BY <1>3, <1>4, <1>5 DEF r

LEMMA RemoveAlarmItems ==
  ASSUME NEW q \in Seq(Alarms), NEW t
  PROVE  \/ /\ RemoveAlarm(q, t) = q
            /\ \A i \in 1..Len(q) : q[i].task # t
         \/ \E k \in 1..Len(q) : q[k].task = t /\ Removed(q, k, RemoveAlarm(q, t))
<1> DEFINE r == RemoveAlarm(q, t)
<1>1. CASE \E i \in 1..Len(q) : q[i].task = t
  <2>1. PICK k \in 1..Len(q) : k = CHOOSE i \in 1..Len(q) : q[i].task = t
    BY <1>1
  <2>2. q[k].task = t
    BY <1>1, <2>1
  <2>3. r = RemoveAt(q, k)
    BY <1>1, <2>1 DEF RemoveAlarm
  <2>4. Removed(q, k, RemoveAt(q, k))
    BY RemoveAtItems
  <2>. QED
    BY <2>2, <2>3, <2>4
<1>2. CASE ~ \E i \in 1..Len(q) : q[i].task = t
  BY <1>2 DEF RemoveAlarm
<1>. QED
  BY <1>1, <1>2

\* Only alarms of t are taken out, and what is left is in the same order.
LEMMA RemoveAlarmMembers ==
  ASSUME NEW q \in Seq(Alarms), NEW t
  PROVE  /\ \A n : In(n, RemoveAlarm(q, t)) => In(n, q)
         /\ \A n : In(n, q) /\ n.task # t => In(n, RemoveAlarm(q, t))
         /\ Sorted(q) => Sorted(RemoveAlarm(q, t))
<1> DEFINE r == RemoveAlarm(q, t)
<1>1. Len(q) \in Nat
  BY LenProperties
<1>2. CASE r = q
  BY <1>2
<1>0. ASSUME NEW k \in 1..Len(q), q[k].task = t, Removed(q, k, r)
      PROVE  /\ \A n : In(n, r) => In(n, q)
             /\ \A n : In(n, q) /\ n.task # t => In(n, r)
             /\ Sorted(q) => Sorted(r)
  <2> HIDE DEF r
  <2>0. /\ Len(r) = Len(q) - 1 /\ k \in 1..Len(q) /\ q[k].task = t
        /\ \A i \in 1..(Len(q) - 1) : r[i] = IF i < k THEN q[i] ELSE q[i + 1]
    BY <1>0 DEF Removed
  <2>1. ASSUME NEW n, In(n, r)
        PROVE  In(n, q)
    <3>1. PICK i \in 1..(Len(q) - 1) : r[i] = n
      BY <2>0, <2>1 DEF In
    <3>2. i \in 1..Len(q) /\ i + 1 \in 1..Len(q) /\ r[i] = IF i < k THEN q[i] ELSE q[i + 1]
      BY <1>1, <2>0
    <3>. QED
      BY <3>1, <3>2 DEF In
  <2>2. ASSUME NEW n, In(n, q), n.task # t
        PROVE  In(n, r)
    <3>1. PICK i \in 1..Len(q) : q[i] = n
      BY <2>2 DEF In
    <3>2. i # k
      BY <2>0, <2>2, <3>1
    <3>3. CASE i < k
      <4>1. i \in 1..(Len(q) - 1) /\ i \in 1..Len(r)
        BY <1>1, <2>0, <3>3
      <4>2. r[i] = q[i]
        BY <2>0, <3>3, <4>1
      <4>. QED
        BY <3>1, <4>1, <4>2 DEF In
    <3>4. CASE i > k
      <4>1. i - 1 \in 1..(Len(q) - 1) /\ i - 1 \in 1..Len(r) /\ ~(i - 1 < k) /\ (i - 1) + 1 = i
        BY <1>1, <2>0, <3>4
      <4>2. r[i - 1] = q[i]
        BY <2>0, <4>1
      <4>. QED
        BY <3>1, <4>1, <4>2 DEF In
    <3>. QED
      BY <3>2, <3>3, <3>4
  <2>3. ASSUME Sorted(q), NEW i \in 1..Len(r), NEW j \in 1..Len(r), i <= j
        PROVE  r[i].prio <= r[j].prio
    <3> DEFINE ii == IF i < k THEN i ELSE i + 1
               jj == IF j < k THEN j ELSE j + 1
    <3>1. ii \in 1..Len(q) /\ jj \in 1..Len(q) /\ ii <= jj
      BY <1>1, <2>0, <2>3
    <3>2. i \in 1..(Len(q) - 1) /\ j \in 1..(Len(q) - 1)
      BY <2>0
    <3>3. r[i] = q[ii] /\ r[j] = q[jj]
      BY <2>0, <3>2
    <3> HIDE DEF ii, jj
    <3>. QED
      BY <2>3, <3>1, <3>3 DEF Sorted
  <2>. QED
    BY <2>1, <2>2, <2>3 DEF Sorted
<1>. QED
  BY <1>0, <1>2, RemoveAlarmItems

\* A release takes the head of a wait queue, and everybody joins it at the place
\* of their priority.
LEMMA EnqueueOrder ==
  ASSUME RestOK, WaitersInOrder, cur \in Tasks, NEW s \in Sems,
         NEW by \in {"timed", "block"}, Enqueue(s, by)
  PROVE  WaitersInOrder'
<1> DEFINE node == [task |-> cur, prio |-> Prio[cur], by |-> by]
<1>1. node \in Waiters /\ \A n \in Waiters : n.prio \in Nat
  BY PrioType DEF Waiters, Priorities
<1>2. \A u \in Sems : waitq[u] \in Seq(Waiters) /\ DOMAIN waitq[u] = 1..Len(waitq[u])
  BY LenProperties DEF RestOK
<1>3. ASSUME NEW u \in Sems, QueueType[u] = 1
      PROVE  Sorted(waitq[u])
  BY <1>2, <1>3 DEF WaitersInOrder, Sorted
<1> HIDE DEF node
<1>4. waitq' \in [Sems -> Seq(Waiters)]
  BY EnqueueType
<1>5. waitq' = [waitq EXCEPT ![s] = IF QueueType[s] = 0 THEN Append(@, node)
                                                         ELSE AddByPriority(@, node)]
  BY DEF Enqueue, node
<1>6. ASSUME NEW u \in Sems, QueueType[u] = 1
      PROVE  Sorted(waitq'[u])
  <2>1. CASE u # s
    BY <1>3, <1>5, <1>6, <2>1 DEF RestOK
  <2>2. CASE u = s
    <3>1. waitq'[u] = AddByPriority(waitq[u], node)
      BY <1>5, <1>6, <2>2 DEF RestOK
    <3>2. Sorted(AddByPriority(waitq[u], node))
      BY <1>1, <1>2, <1>3, <1>6, AddByPrioritySorted
    <3>. QED
      BY <3>1, <3>2
  <2>. QED
    BY <2>1, <2>2
<1>7. \A u \in Sems : DOMAIN waitq'[u] = 1..Len(waitq'[u])
  BY <1>4, LenProperties
<1>. QED
  BY <1>6, <1>7 DEF WaitersInOrder, Sorted

LEMMA ReleaseOrder ==
  ASSUME IInv, WaitersInOrder, NEW s \in Sems, Release(s)
  PROVE  WaitersInOrder'
<1>1. CASE UNCHANGED waitq
  BY <1>1 DEF WaitersInOrder
<1>2. CASE waitq[s] # <<>> /\ waitq' = [waitq EXCEPT ![s] = Tail(@)]
  <2>1. \A u \in Sems : waitq[u] \in Seq(Waiters) /\ DOMAIN waitq[u] = 1..Len(waitq[u])
    BY LenProperties DEF IInv, RestOK
  <2>2. Tail(waitq[s]) \in Seq(Waiters) /\ DOMAIN Tail(waitq[s]) = 1..Len(Tail(waitq[s]))
    BY <1>2, <2>1, HeadTailProperties, LenProperties
  <2>3. waitq'[s] = Tail(waitq[s]) /\ \A u \in Sems : u # s => waitq'[u] = waitq[u]
    BY <1>2 DEF IInv, RestOK
  <2>4. QueueType[s] = 1 => Sorted(Tail(waitq[s]))
    <3>1. QueueType[s] = 1 => Sorted(waitq[s])
      BY <2>1 DEF WaitersInOrder, Sorted
    <3>. QED
      BY <1>2, <2>1, <3>1, TailSorted
  <2>5. ASSUME NEW u \in Sems, QueueType[u] = 1,
               NEW i \in DOMAIN waitq'[u], NEW j \in DOMAIN waitq'[u], i <= j
        PROVE  waitq'[u][i].prio <= waitq'[u][j].prio
    <3>1. CASE u # s
      BY <2>3, <2>5, <3>1 DEF WaitersInOrder
    <3>2. CASE u = s
      BY <2>2, <2>3, <2>4, <2>5, <3>2 DEF Sorted
    <3>. QED
      BY <3>1, <3>2
  <2>. QED
    BY <2>5 DEF WaitersInOrder
<1>. QED
  BY <1>1, <1>2 DEF Release

\* A release wakes the waiter it should: a wait queue that is ordered by priority
\* is in that order after every sequence of waits, timeouts and releases.
THEOREM WaitersAlwaysInOrder == Spec => []WaitersInOrder
<1>1. Init => WaitersInOrder
  <2>1. SUFFICES ASSUME Init, NEW s \in Sems
                 PROVE  DOMAIN waitq[s] = {}
    BY DEF WaitersInOrder
  <2>2. waitq[s] = <<>>
    BY <2>1 DEF Init
  <2>. QED
    BY <2>2
<1>2. IInv /\ WaitersInOrder /\ [Next]_vars => WaitersInOrder'
  <2> SUFFICES ASSUME IInv, WaitersInOrder, [Next]_vars
               PROVE  WaitersInOrder'
    OBVIOUS
  <2>1. CASE UNCHANGED waitq
    BY <2>1 DEF WaitersInOrder
  <2>2. ASSUME NEW s \in Sems, NEW timeout \in Timeouts, AcquireTimed(s, timeout)
        PROVE  WaitersInOrder'
    BY <2>2, Caller, EnqueueOrder DEF AcquireTimed, IInv
  <2>3. ASSUME NEW s \in Sems, NEW timeout \in Timeouts, AcquireBlock(s, timeout)
        PROVE  WaitersInOrder'
    BY <2>3, Caller, EnqueueOrder DEF AcquireBlock, IInv
  <2>4. ASSUME NEW s \in Sems, Release(s)
        PROVE  WaitersInOrder'
    BY <2>4, ReleaseOrder
  <2>5. CASE Boot \/ Resume \/ Tick \/ UNCHANGED vars
    BY <2>1, <2>5 DEF Boot, CreateTask, StartMultitasking, Resume, AcquireTimedResume,
       AcquireBlockTake, AcquireBlockRetry, TickResume, Tick, vars
  <2>6. CASE Call
    BY <2>1, <2>2, <2>3, <2>4, <2>6 DEF Call, Yield, Sleep, AcquireAtOnce
  <2>. QED
    BY <2>5, <2>6 DEF Next
<1>. QED
  BY <1>1, <1>2, KernelInvariant, PTL DEF Spec

-----------------------------------------------------------------------------
(* Alarms in time *)

\* No key overflows int32u_t: a sleep of 64 * timeout + priority fits.
Fits(timeout) == 64 * timeout + 63 < Wrap
SleepsFit ==
  /\ \A tick \in SleepTicks : Fits(tick)
  /\ \A timeout \in Timeouts : Fits(timeout)
  /\ \A t \in Tasks : Fits(Period[t])

\* The key of an alarm is its tick count and, below it, a priority.
Keyed(a) == /\ 64 * a.timeout <= a.prio
            /\ a.prio < 64 * a.timeout + 64
            /\ a.prio < Wrap

\* A queue of alarms in order; and one in which none has expired.
InOrder(q) == Sorted(q) /\ \A i \in 1..Len(q) : Keyed(q[i])
Pending(q) == \A i \in 1..Len(q) : q[i].timeout > 0

AlarmsOK == InOrder(alarms) /\ (ExpiredAlarmsHandled => Pending(alarms))

LEMMA KeyParts ==
  ASSUME NEW n \in Nat, NEW p \in 0..63
  PROVE  64 * n + p \in Nat /\ (64 * n + p) \div 64 = n
  OBVIOUS

LEMMA KeyDown ==
  ASSUME NEW n \in Nat, NEW k \in Nat, 64 * n <= k, k < 64 * n + 64
  PROVE  64 * (n - 1) <= k - 64 /\ k - 64 < 64 * (n - 1) + 64
  OBVIOUS

LEMMA ModSmall ==
  ASSUME NEW n \in Nat, NEW m \in Nat \ {0}, n < m
  PROVE  n % m = n
  OBVIOUS

\* eos_set_alarm with a sleep that fits.
LEMMA SetAlarmOrder ==
  ASSUME NEW q \in Seq(Alarms), NEW t \in Tasks,
         NEW timeout \in Nat \ {0}, Fits(timeout),
         NEW r, r = SetAlarm(q, t, (64 * timeout + Prio[t]) % Wrap)
  PROVE  /\ InOrder(q) => InOrder(r)
         /\ Pending(q) => Pending(r)
         /\ \E n \in Alarms : n.task = t /\ In(n, r)
         /\ \A n : In(n, q) /\ n.task # t => In(n, r)
         /\ \A n : In(n, r) => n.task = t \/ In(n, q)
<1> DEFINE key == 64 * timeout + Prio[t]
           node == [task |-> t, timeout |-> key \div 64, prio |-> key]
           rest == RemoveAlarm(q, t)
<1>1. Prio[t] \in 0..63 /\ Wrap \in Nat \ {0}
  BY PrioType, ParameterAssumption DEF Priorities
<1>2. key \in Nat /\ key \div 64 = timeout /\ key < Wrap /\ key # 0
  <2>1. key \in Nat /\ key \div 64 = timeout
    BY <1>1, KeyParts
  <2>. QED
    BY <1>1, <2>1 DEF Fits
<1>3. key % Wrap = key
  BY <1>1, <1>2, ModSmall
<1>4. r = AddByPriority(rest, node)
  BY <1>2, <1>3 DEF SetAlarm
<1>5. node \in Alarms /\ Keyed(node) /\ node.timeout > 0 /\ node.task = t
  BY <1>1, <1>2 DEF Alarms, Keyed
<1>6. /\ rest \in Seq(Alarms) /\ (Sorted(q) => Sorted(rest))
      /\ \A n : In(n, rest) => In(n, q)
      /\ \A n : In(n, q) /\ n.task # t => In(n, rest)
  BY RemoveAlarmType, RemoveAlarmMembers
<1>7. \A n \in Alarms : n.prio \in Nat
  BY DEF Alarms
<1> HIDE DEF node, rest
<1>8. /\ In(node, r)
      /\ \A n : In(n, rest) => In(n, r)
      /\ \A n : In(n, r) => n = node \/ In(n, rest)
  <2>1. /\ In(node, AddByPriority(rest, node))
        /\ \A n : In(n, rest) => In(n, AddByPriority(rest, node))
        /\ \A n : In(n, AddByPriority(rest, node)) => n = node \/ In(n, rest)
    BY <1>5, <1>6, <1>7, AddByPriorityMembers
  <2>. QED
    BY <1>4, <2>1
<1>9. Sorted(q) => Sorted(r)
  <2>1. Sorted(q) => Sorted(AddByPriority(rest, node))
    BY <1>5, <1>6, <1>7, AddByPrioritySorted
  <2>. QED
    BY <1>4, <2>1
<1>10. ASSUME NEW i \in 1..Len(r)
       PROVE  r[i] = node \/ \E j \in 1..Len(q) : r[i] = q[j]
  <2>1. In(r[i], r)
    BY DEF In
  <2>2. r[i] = node \/ In(r[i], q)
    BY <1>6, <1>8, <2>1
  <2>. QED
    BY <2>2 DEF In
<1>11. (InOrder(q) => InOrder(r)) /\ (Pending(q) => Pending(r))
  BY <1>5, <1>9, <1>10, SMTT(30) DEF InOrder, Pending
<1>12. \E n \in Alarms : n.task = t /\ In(n, r)
  BY <1>5, <1>8
<1>13. /\ \A n : In(n, q) /\ n.task # t => In(n, r)
       /\ \A n : In(n, r) => n.task = t \/ In(n, q)
  BY <1>5, <1>6, <1>8
<1>. QED
  BY <1>11, <1>12, <1>13

LEMMA TailMembers ==
  ASSUME NEW S, NEW q \in Seq(S), q # <<>>
  PROVE  /\ \A n : In(n, q) => n = Head(q) \/ In(n, Tail(q))
         /\ \A n : In(n, Tail(q)) => In(n, q)
<1>1. /\ Tail(q) \in Seq(S) /\ Len(Tail(q)) = Len(q) - 1 /\ Len(q) \in Nat \ {0}
      /\ Head(q) = q[1]
      /\ \A i \in 1..(Len(q) - 1) : Tail(q)[i] = q[i + 1]
  BY HeadTailProperties, EmptySeq
<1>2. ASSUME NEW n, In(n, q)
      PROVE  n = Head(q) \/ In(n, Tail(q))
  <2>1. PICK i \in 1..Len(q) : q[i] = n
    BY <1>2 DEF In
  <2>2. CASE i = 1
    BY <1>1, <2>1, <2>2
  <2>3. CASE i # 1
    <3>1. i - 1 \in 1..(Len(q) - 1) /\ (i - 1) + 1 = i
      BY <1>1, <2>3
    <3>2. Tail(q)[i - 1] = n
      BY <1>1, <2>1, <3>1
    <3>. QED
      BY <1>1, <3>1, <3>2 DEF In
  <2>. QED
    BY <2>2, <2>3
<1>3. ASSUME NEW n, In(n, Tail(q))
      PROVE  In(n, q)
  <2>1. PICK i \in 1..(Len(q) - 1) : Tail(q)[i] = n
    BY <1>1, <1>3 DEF In
  <2>2. i + 1 \in 1..Len(q) /\ q[i + 1] = n
    BY <1>1, <2>1
  <2>. QED
    BY <2>2 DEF In
<1>. QED
  BY <1>2, <1>3

\* One tick, as long as no expired alarm is queued: nothing wraps, the order of
\* the keys stays, and every alarm is still there.
LEMMA CountDownOrder ==
  ASSUME NEW q \in Seq(Alarms), InOrder(q), Pending(q)
  PROVE  InOrder(CountDown(q))
<1> DEFINE r == CountDown(q)
<1>1. Len(q) \in Nat /\ \A i \in 1..Len(q) : q[i] \in Alarms
  BY LenProperties, ElementOfSeq
<1>2. Wrap \in Nat \ {0}
  BY ParameterAssumption
<1>3. r \in Seq(Alarms) /\ DOMAIN r = 1..Len(r)
  BY CountDownType, LenProperties
<1>4. DOMAIN r = 1..Len(q)
  BY DEF CountDown
<1>5. Len(r) = Len(q)
  BY <1>1, <1>3, <1>4, LenProperties
<1>6. ASSUME NEW i \in 1..Len(q)
      PROVE  r[i].prio = q[i].prio - 64 /\ r[i].timeout = q[i].timeout - 1
  <2>1. q[i] \in Alarms /\ Keyed(q[i]) /\ q[i].timeout > 0
    BY <1>1 DEF InOrder, Pending
  <2>2. /\ q[i].prio - 64 \in Nat /\ q[i].prio - 64 < Wrap
        /\ q[i].timeout - 1 \in Nat /\ q[i].timeout - 1 < Wrap
    BY <1>2, <2>1, SMTT(30) DEF Keyed, Alarms
  <2>3. (q[i].prio - 64) % Wrap = q[i].prio - 64 /\ (q[i].timeout - 1) % Wrap = q[i].timeout - 1
    BY <1>2, <2>2, ModSmall
  <2>4. r[i] = [q[i] EXCEPT !.timeout = (@ - 1) % Wrap, !.prio = (@ - 64) % Wrap]
    BY DEF CountDown
  <2>5. r[i].prio = (q[i].prio - 64) % Wrap /\ r[i].timeout = (q[i].timeout - 1) % Wrap
    BY <2>1, <2>4 DEF Alarms
  <2>. QED
    BY <2>3, <2>5
<1> HIDE DEF r
<1>7. Sorted(r)
  <2>1. ASSUME NEW i \in 1..Len(r), NEW j \in 1..Len(r), i <= j
        PROVE  r[i].prio <= r[j].prio
    <3>1. q[i].prio <= q[j].prio /\ q[i].prio \in Nat /\ q[j].prio \in Nat
      BY <1>1, <1>5, <2>1 DEF InOrder, Sorted, Alarms
    <3>. QED
      BY <1>5, <1>6, <3>1
  <2>. QED
    BY <2>1 DEF Sorted
<1>8. ASSUME NEW i \in 1..Len(r)
      PROVE  Keyed(r[i])
  <2>1. q[i] \in Alarms /\ Keyed(q[i]) /\ q[i].timeout > 0
    BY <1>1, <1>5 DEF InOrder, Pending
  <2>2. q[i].prio \in Nat /\ q[i].timeout \in Nat
    BY <2>1 DEF Alarms
  <2>3. r[i].prio = q[i].prio - 64 /\ r[i].timeout = q[i].timeout - 1
    BY <1>5, <1>6
  <2>4. /\ 64 * q[i].timeout <= q[i].prio /\ q[i].prio < 64 * q[i].timeout + 64
        /\ q[i].prio < Wrap
    BY <2>1 DEF Keyed
  <2>5. /\ 64 * (q[i].timeout - 1) <= q[i].prio - 64
        /\ q[i].prio - 64 < 64 * (q[i].timeout - 1) + 64
    BY <2>2, <2>4, KeyDown
  <2>6. q[i].prio - 64 < Wrap
    BY <1>2, <2>2, <2>4
  <2>. QED
    BY <2>3, <2>5, <2>6 DEF Keyed
<1>. QED
  BY <1>7, <1>8 DEF InOrder, r

\* When the head of an ordered queue has not expired, nothing has.
LEMMA NothingExpired ==
  ASSUME NEW q \in Seq(Alarms), InOrder(q), ~Expired(q)
  PROVE  Pending(q)
<1>1. SUFFICES ASSUME NEW i \in 1..Len(q)
               PROVE  q[i].timeout > 0
  BY DEF Pending
<1>2. Len(q) \in Nat /\ q[i] \in Alarms /\ 1 \in 1..Len(q) /\ q[1] \in Alarms
  BY LenProperties, ElementOfSeq
<1>3. q # <<>> /\ Head(q) = q[1]
  BY <1>2
<1>4. q[1].timeout > 0
  BY <1>2, <1>3 DEF Expired, Alarms
<1>5. q[1].prio <= q[i].prio /\ Keyed(q[1]) /\ Keyed(q[i])
  BY <1>2 DEF InOrder, Sorted
<1>. QED
  BY <1>2, <1>4, <1>5 DEF Keyed, Alarms

LEMMA TriggerLoopOrder ==
  ASSUME RestOK, cur \in Tasks, NEW q \in Seq(Alarms), InOrder(q), TriggerLoop(q)
  PROVE  AlarmsOK'
<1>1. CASE ~Expired(q) /\ alarms' = q
  <2>1. Pending(q)
    BY <1>1, NothingExpired
  <2>2. alarms' = q
    BY <1>1
  <2>. QED
    BY <2>1, <2>2 DEF AlarmsOK, InOrder, Sorted, Pending
<1>2. CASE Expired(q) /\ alarms' = Tail(q) /\ Continue(TickContext)
  <2>1. q # <<>>
    BY <1>2 DEF Expired
  <2>2. Sorted(Tail(q))
    BY <2>1, TailSorted DEF InOrder
  <2>3. \A i \in 1..Len(Tail(q)) : Keyed(Tail(q)[i])
    <3>1. /\ Len(q) \in Nat /\ Len(Tail(q)) = Len(q) - 1
          /\ \A i \in 1..Len(Tail(q)) : Tail(q)[i] = q[i + 1]
      BY <2>1, HeadTailProperties, LenProperties
    <3>. QED
      BY <3>1 DEF InOrder
  <2>4. pc'[cur] = TickContext
    BY <1>2 DEF Continue, RestOK
  <2>5. ~ExpiredAlarmsHandled'
    BY <2>4 DEF ExpiredAlarmsHandled, TickContext
  <2>6. InOrder(Tail(q))
    BY <2>2, <2>3 DEF InOrder
  <2>7. alarms' = Tail(q)
    BY <1>2
  <2>8. InOrder(alarms)'
    BY <2>6, <2>7 DEF InOrder, Sorted
  <2>. QED
    BY <2>5, <2>8 DEF AlarmsOK
<1>. QED
  BY <1>1, <1>2 DEF TriggerLoop

\* Falling asleep, from the task's own code or inside a timed wait.
LEMMA SleepForOrder ==
  ASSUME IInv, AlarmsOK, CanCall, NEW tick \in Nat, Fits(tick), Fits(Period[cur]),
         NEW context \in Contexts, context.at # "tick", SleepFor(tick, context)
  PROVE  AlarmsOK'
<1> DEFINE timeout == IF tick > 0 THEN tick ELSE Period[cur]
<1>1. cur \in Tasks /\ alarms \in Seq(Alarms) /\ pc \in [Tasks -> Contexts]
  BY Caller DEF IInv, RestOK
<1>2. timeout \in Nat /\ Fits(timeout)
  BY <1>1, TaskAssumption
<1>3. alarms' = IF timeout > 0
                THEN SetAlarm(alarms, cur, (64 * timeout + Prio[cur]) % Wrap) ELSE alarms
  BY DEF SleepFor
<1>4. ExpiredAlarmsHandled' => ExpiredAlarmsHandled
  BY <1>1 DEF SleepFor, Continue, ExpiredAlarmsHandled, CanCall, InUserCode
<1> HIDE DEF timeout
<1>5. InOrder(alarms') /\ (Pending(alarms) => Pending(alarms'))
  <2>1. CASE timeout > 0
    BY <1>1, <1>2, <1>3, <2>1, SetAlarmOrder DEF AlarmsOK
  <2>2. CASE ~(timeout > 0)
    BY <1>3, <2>2 DEF AlarmsOK
  <2>. QED
    BY <2>1, <2>2
<1>6. InOrder(alarms)' /\ (Pending(alarms) => Pending(alarms)')
  BY <1>5 DEF InOrder, Sorted, Pending
<1>. QED
  BY <1>4, <1>6 DEF AlarmsOK

\* The order of the alarms survives every step, when no tick comes while expired
\* alarms are still queued and no sleep is too long for its key.
LEMMA AlarmsStep ==
  ASSUME ~Overrun, SleepsFit, IInv, AlarmsOK, [Next]_vars
  PROVE  AlarmsOK'
<1>1. CASE UNCHANGED alarms /\ (ExpiredAlarmsHandled' => ExpiredAlarmsHandled)
  BY <1>1 DEF AlarmsOK, InOrder, Sorted, Pending
<1>2. ASSUME NEW tick \in SleepTicks, Sleep(tick)
      PROVE  AlarmsOK'
  <2>1. tick \in Nat /\ Fits(tick) /\ Fits(Period[cur]) /\ UserContext.at # "tick"
    BY <1>2, Caller, ParameterAssumption DEF SleepsFit, Sleep, UserContext
  <2>. QED
    BY <1>2, <2>1, ContextTypes, SleepForOrder DEF Sleep
<1>3. ASSUME NEW s \in Sems, NEW timeout \in Timeouts, AcquireTimed(s, timeout)
      PROVE  AlarmsOK'
  <2>1. timeout \in Nat /\ Fits(timeout) /\ Fits(Period[cur])
    BY <1>3, Caller, ParameterAssumption DEF SleepsFit, AcquireTimed
  <2>2. [at |-> "timed", sem |-> s] \in Contexts /\ [at |-> "timed", sem |-> s].at # "tick"
    BY ContextTypes
  <2>. QED
    BY <1>3, <2>1, <2>2, SleepForOrder DEF AcquireTimed
<1>4. CASE Tick
  <2>1. cur \in Tasks /\ alarms \in Seq(Alarms) /\ RestOK
    BY <1>4 DEF IInv, KernelOK, RestOK, Tick, InUserCode
  <2>2. CASE TriggerLoop(CountDown(alarms))
    <3>1. CountDown(alarms) \in Seq(Alarms) /\ InOrder(CountDown(alarms))
      BY <1>4, <2>1, CountDownType, CountDownOrder DEF Tick, AlarmsOK
    <3>. QED
      BY <2>1, <2>2, <3>1, TriggerLoopOrder
  <2>3. CASE UNCHANGED <<kernel, alarms, pc>>
    BY <1>1, <2>3 DEF ExpiredAlarmsHandled
  <2>. QED
    BY <1>4, <2>2, <2>3 DEF Tick
<1>5. CASE TickResume
  <2>1. cur \in Tasks /\ alarms \in Seq(Alarms) /\ RestOK
    BY <1>5 DEF IInv, KernelOK, RestOK, TickResume, Resumed
  <2>. QED
    BY <1>5, <2>1, TriggerLoopOrder DEF TickResume, AlarmsOK
<1>6. CASE Boot \/ UNCHANGED vars
  BY <1>1, <1>6 DEF Boot, CreateTask, StartMultitasking, vars, ExpiredAlarmsHandled
<1>7. CASE AcquireTimedResume \/ AcquireBlockTake \/ AcquireBlockRetry
  <2>1. cur \in Tasks /\ pc \in [Tasks -> Contexts] /\ UNCHANGED alarms
    BY <1>7 DEF IInv, KernelOK, RestOK, AcquireTimedResume, AcquireBlockTake,
       AcquireBlockRetry, Resumed
  <2>2. pc[cur].at # "tick"
    BY <1>7 DEF AcquireTimedResume, AcquireBlockTake,
       AcquireBlockRetry, Resumed
  <2>3. ExpiredAlarmsHandled' => ExpiredAlarmsHandled
    BY <1>7, <2>1, <2>2 DEF AcquireTimedResume, AcquireBlockTake,
       AcquireBlockRetry, Continue, ExpiredAlarmsHandled
  <2>. QED
    BY <1>1, <2>1, <2>3
<1>8. ASSUME NEW s \in Sems, NEW timeout \in Timeouts, AcquireBlock(s, timeout)
      PROVE  AlarmsOK'
  <2>1. cur \in Tasks /\ pc \in [Tasks -> Contexts] /\ UNCHANGED alarms /\ pc[cur].at # "tick"
    BY <1>8, Caller DEF IInv, RestOK, AcquireBlock, CanCall, InUserCode
  <2>2. ExpiredAlarmsHandled' => ExpiredAlarmsHandled
    BY <1>8, <2>1 DEF AcquireBlock, Continue, ExpiredAlarmsHandled
  <2>. QED
    BY <1>1, <2>1, <2>2
<1>9. CASE Call
  BY <1>1, <1>2, <1>3, <1>8, <1>9 DEF Call, Yield, AcquireAtOnce, Release, ExpiredAlarmsHandled
<1>. QED
  BY <1>4, <1>5, <1>6, <1>7, <1>9 DEF Next, Resume

\* The alarm queue is in the order in which the alarms expire, and after
\* eos_trigger_counter no expired one is left: for every set of tasks, periods
\* and sleeps whose keys fit, as long as a tick's work ends before the next tick.
THEOREM AlarmsAlwaysOnTime ==
  ASSUME ~Overrun, SleepsFit
  PROVE  Spec => []AlarmsOnTime
<1>1. Init => AlarmsOK
  BY DEF Init, AlarmsOK, InOrder, Sorted, Pending
<1>2. IInv /\ AlarmsOK /\ [Next]_vars => AlarmsOK'
  BY AlarmsStep
<1>3. ASSUME IInv, AlarmsOK
      PROVE  AlarmsOnTime
  <2>1. DOMAIN alarms = 1..Len(alarms) /\ \A i \in 1..Len(alarms) : alarms[i] \in Alarms
    BY <1>3, LenProperties, ElementOfSeq DEF IInv, RestOK
  <2>2. ASSUME NEW i \in DOMAIN alarms, NEW j \in DOMAIN alarms, i <= j
        PROVE  alarms[i].prio <= alarms[j].prio /\ alarms[i].timeout <= alarms[j].timeout
    <3>1. alarms[i] \in Alarms /\ alarms[j] \in Alarms /\ Keyed(alarms[i]) /\ Keyed(alarms[j])
      BY <1>3, <2>1 DEF AlarmsOK, InOrder
    <3>2. alarms[i].prio <= alarms[j].prio
      BY <1>3, <2>1, <2>2 DEF AlarmsOK, InOrder, Sorted
    <3>. QED
      BY <3>1, <3>2 DEF Keyed, Alarms
  <2>. QED
    BY <1>3, <2>1, <2>2 DEF AlarmsOnTime, AlarmsOK, Pending
<1>. QED
  BY <1>1, <1>2, <1>3, KernelInvariant, PTL DEF Spec

-----------------------------------------------------------------------------
(* Where the tasks are *)

\* Every sleep has an end: eos_sleep(0) is only called by tasks with a period.
SleepsEnd == \A t \in Tasks \ {Idle}, tick \in SleepTicks : tick > 0 \/ Period[t] > 0

-----------------------------------------------------------------------------
(* What eos_schedule does to the states of the tasks *)

\* Every ready task is in the queue of its priority.
Placed(rq, st) == \A t \in Tasks : st[t] = "READY" => In(t, rq[Prio[t]])

\* The queues hold ready tasks only, and each once.
Distinct(q) == \A i, j \in 1..Len(q) : q[i] = q[j] => i = j
ReadyOnly(rq, st) ==
  \A p \in Priorities : /\ Distinct(rq[p])
                        /\ \A i \in 1..Len(rq[p]) : st[rq[p][i]] = "READY"

\* A switch from the states st: one task runs, the ready ones are queued, and
\* nobody starts to wait; where the queues hold ready tasks only, nobody stops.
Switched(rq, st) ==
  /\ cur' \in Tasks
  /\ \A t \in Tasks : state'[t] = "RUNNING" <=> t = cur'
  /\ Placed(readyq', state')
  /\ \A t \in Tasks : state'[t] \in {"NEW", "WAITING"} => st[t] = state'[t]
  /\ ReadyOnly(rq, st) => /\ ReadyOnly(readyq', state')
                          /\ \A t \in Tasks : st[t] = "WAITING" => state'[t] = "WAITING"

LEMMA SwitchPlaces ==
  ASSUME NEW rq, NEW bits, NEW st \in [Tasks -> States],
         Consistent(rq, bits), In(Idle, rq[63]),
         \A t \in Tasks : st[t] # "RUNNING", Placed(rq, st),
         SwitchToHighest(rq, bits, st)
  PROVE  Switched(rq, st)
<1> DEFINE p == HighestPriority(bits)
           next == Head(rq[p])
<1>1. rq \in [Priorities -> Seq(Tasks)] /\ bits \in Bitmaps /\ GroupAgrees(bits)
  BY DEF Consistent
<1>2. 63 \in Priorities /\ rq[63] # <<>>
  BY <1>1, EmptySeq DEF Priorities, In
<1>3. p \in ReadySet(bits)
  BY <1>1, <1>2, HighestPriorityCorrect DEF Consistent
<1>4. p \in Priorities /\ rq[p] # <<>> /\ rq[p] \in Seq(Tasks)
  BY <1>1, <1>3 DEF Consistent
<1>5. /\ next \in Tasks /\ next = rq[p][1]
      /\ Len(rq[p]) \in Nat \ {0}
      /\ Len(Tail(rq[p])) = Len(rq[p]) - 1
      /\ \A i \in 1..Len(Tail(rq[p])) : Tail(rq[p])[i] = rq[p][i + 1]
  BY <1>4, HeadTailProperties, EmptySeq
<1>6. /\ readyq' = [rq EXCEPT ![p] = Tail(@)]
      /\ cur' = next
      /\ state' = [st EXCEPT ![next] = "RUNNING"]
  BY DEF SwitchToHighest
<1>7. /\ \A n : In(n, rq[p]) => n = next \/ In(n, Tail(rq[p]))
      /\ \A n : In(n, Tail(rq[p])) => In(n, rq[p])
  BY <1>4, TailMembers
<1> HIDE DEF p, next
<1>8. \A q \in Priorities : readyq'[q] = IF q = p THEN Tail(rq[p]) ELSE rq[q]
  BY <1>1, <1>6
<1>9. \A t \in Tasks : state'[t] = IF t = next THEN "RUNNING" ELSE st[t]
  BY <1>6
<1>10. Placed(readyq', state')
  <2>1. SUFFICES ASSUME NEW t \in Tasks, state'[t] = "READY"
                 PROVE  In(t, readyq'[Prio[t]])
    BY DEF Placed
  <2>2. t # next /\ st[t] = "READY" /\ In(t, rq[Prio[t]]) /\ Prio[t] \in Priorities
    BY <1>9, <2>1, PrioType DEF Placed
  <2>. QED
    BY <1>7, <1>8, <2>2
<1>11. ASSUME ReadyOnly(rq, st)
       PROVE  /\ ReadyOnly(readyq', state')
              /\ \A t \in Tasks : st[t] = "WAITING" => state'[t] = "WAITING"
  <2>1. 1 \in 1..Len(rq[p]) /\ st[next] = "READY"
    BY <1>4, <1>5, <1>11 DEF ReadyOnly
  <2>2. ASSUME NEW q \in Priorities
        PROVE  Distinct(readyq'[q])
    <3>1. CASE q # p
      BY <1>8, <1>11, <3>1 DEF ReadyOnly
    <3>2. CASE q = p
      <4>1. Distinct(rq[p]) /\ readyq'[q] = Tail(rq[p])
        BY <1>4, <1>8, <1>11, <3>2 DEF ReadyOnly
      <4>. QED
        BY <1>5, <4>1 DEF Distinct
    <3>. QED
      BY <3>1, <3>2
  <2>3. ASSUME NEW q \in Priorities, NEW i \in 1..Len(readyq'[q])
        PROVE  state'[readyq'[q][i]] = "READY"
    <3>1. CASE q # p
      <4>1. readyq'[q] = rq[q] /\ rq[q][i] \in Tasks /\ st[rq[q][i]] = "READY" /\ Prio[rq[q][i]] = q
        BY <1>1, <1>8, <1>11, <3>1, ElementOfSeq DEF ReadyOnly, Consistent
      <4>2. Prio[next] = p
        BY <1>4, <1>5, <2>1 DEF Consistent
      <4>. QED
        BY <1>9, <3>1, <4>1, <4>2
    <3>2. CASE q = p
      <4>1. i \in 1..Len(Tail(rq[p])) /\ readyq'[q] = Tail(rq[p])
        BY <1>8, <3>2
      <4>2. i + 1 \in 1..Len(rq[p]) /\ i + 1 # 1 /\ readyq'[q][i] = rq[p][i + 1]
        BY <1>5, <4>1
      <4>3. rq[p][i + 1] \in Tasks /\ st[rq[p][i + 1]] = "READY" /\ rq[p][i + 1] # next
        BY <1>4, <1>5, <1>11, <2>1, <4>2, ElementOfSeq DEF ReadyOnly, Distinct
      <4>. QED
        BY <1>9, <4>2, <4>3
    <3>. QED
      BY <3>1, <3>2
  <2>. QED
    BY <1>9, <2>1, <2>2, <2>3 DEF ReadyOnly
<1>12. \A t \in Tasks : state'[t] = "RUNNING" <=> t = cur'
  BY <1>6, <1>9
<1>. QED
  BY <1>5, <1>6, <1>9, <1>10, <1>11, <1>12 DEF Switched

\* Putting a task behind its queue.
LEMMA PushPlaces ==
  ASSUME NEW rq, NEW bits, NEW t \in Tasks, Consistent(rq, bits),
         NEW st \in [Tasks -> States], NEW st1, st1 = [st EXCEPT ![t] = "READY"]
  PROVE  /\ Placed(rq, st) => Placed(PushReady(rq, t), st1)
         /\ ReadyOnly(rq, st) /\ st[t] # "READY" => ReadyOnly(PushReady(rq, t), st1)
<1> DEFINE new == PushReady(rq, t)
<1>1. /\ \A u \in Tasks, p \in Priorities : In(u, rq[p]) => In(u, new[p])
      /\ In(t, new[Prio[t]])
  BY PushConsistent
<1>2. /\ Prio[t] \in Priorities
      /\ \A p \in Priorities : rq[p] \in Seq(Tasks)
      /\ \A p \in Priorities : new[p] = IF p = Prio[t] THEN Append(rq[p], t) ELSE rq[p]
  BY PrioType DEF Consistent, PushReady
<1> HIDE DEF new
<1>3. \A u \in Tasks : st1[u] = IF u = t THEN "READY" ELSE st[u]
  OBVIOUS
<1>4. Placed(rq, st) => Placed(new, st1)
  BY <1>1, <1>3, PrioType DEF Placed
<1>5. ASSUME ReadyOnly(rq, st), st[t] # "READY", NEW p \in Priorities
      PROVE  Distinct(new[p]) /\ \A i \in 1..Len(new[p]) : st1[new[p][i]] = "READY"
  <2>1. \A i \in 1..Len(rq[p]) : rq[p][i] \in Tasks /\ st[rq[p][i]] = "READY"
    BY <1>2, <1>5, ElementOfSeq DEF ReadyOnly
  <2>2. CASE p # Prio[t]
    <3>1. new[p] = rq[p]
      BY <1>2, <2>2
    <3>. QED
      BY <1>3, <1>5, <2>1, <3>1 DEF ReadyOnly
  <2>3. CASE p = Prio[t]
    <3> DEFINE q == rq[p]
    <3>0. q \in Seq(Tasks) /\ new[p] = Append(q, t)
      BY <1>2, <2>3
    <3>1. /\ new[p] = Append(q, t) /\ Len(q) \in Nat
          /\ Len(Append(q, t)) = Len(q) + 1
          /\ \A i \in 1..Len(q) : Append(q, t)[i] = q[i]
          /\ Append(q, t)[Len(q) + 1] = t
      <4> HIDE DEF q
      <4>. QED
        BY <3>0, AppendProperties, LenProperties
    <3>2. Distinct(q) /\ \A i \in 1..Len(q) : q[i] # t
      BY <1>5, <2>1 DEF ReadyOnly
    <3> HIDE DEF q
    <3>3. Distinct(Append(q, t))
      BY <3>1, <3>2 DEF Distinct
    <3>4. \A i \in 1..(Len(q) + 1) : i \in 1..Len(q) \/ i = Len(q) + 1
      BY <3>1
    <3>5. \A i \in 1..Len(q) : st1[q[i]] = "READY"
      BY <1>3, <2>1 DEF q
    <3>6. ASSUME NEW i \in 1..Len(new[p])
          PROVE  st1[new[p][i]] = "READY"
      <4>1. i \in 1..Len(q) \/ i = Len(q) + 1
        BY <3>1, <3>4
      <4>. QED
        BY <1>3, <3>1, <3>5, <4>1
    <3>. QED
      BY <3>1, <3>3, <3>6
  <2>. QED
    BY <2>2, <2>3
<1>. QED
  BY <1>4, <1>5 DEF ReadyOnly, new

\* All of eos_schedule.
LEMMA SchedulePlaces ==
  ASSUME NEW rq, NEW bits, NEW st \in [Tasks -> States],
         cur \in Tasks \cup {NoTask}, Consistent(rq, bits),
         (cur = Idle /\ st[Idle] = "RUNNING") \/ In(Idle, rq[63]),
         \A t \in Tasks : st[t] = "RUNNING" => t = cur, Placed(rq, st),
         Schedule(rq, bits, st)
  PROVE  Switched(rq, st)
<1>1. CASE cur # NoTask /\ st[cur] = "RUNNING"
  <2> DEFINE rq1 == PushReady(rq, cur)
             b1 == SetReady(bits, Prio[cur])
             st1 == [st EXCEPT ![cur] = "READY"]
  <2>1. cur \in Tasks
    BY <1>1
  <2>2. /\ Consistent(rq1, b1)
        /\ In(cur, rq1[Prio[cur]])
        /\ \A u \in Tasks, p \in Priorities : In(u, rq[p]) => In(u, rq1[p])
    BY <2>1, PushConsistent
  <2>3. In(Idle, rq1[63])
    BY <2>2, TaskAssumption DEF Priorities
  <2>4. st1 \in [Tasks -> States] /\ \A t \in Tasks : st1[t] = IF t = cur THEN "READY" ELSE st[t]
    BY <2>1 DEF States
  <2>5. SwitchToHighest(rq1, b1, st1)
    BY <1>1 DEF Schedule
  <2>6. Placed(rq1, st1) /\ (ReadyOnly(rq, st) => ReadyOnly(rq1, st1))
    BY <1>1, <2>1, PushPlaces
  <2> HIDE DEF rq1, b1, st1
  <2>7. Switched(rq1, st1)
    BY <2>2, <2>3, <2>4, <2>5, <2>6, SwitchPlaces
  <2>8. \A t \in Tasks : state'[t] \in {"NEW", "WAITING"} => st[t] = state'[t]
    BY <2>4, <2>7 DEF Switched
  <2>9. \A t \in Tasks : st[t] = "WAITING" => st1[t] = "WAITING"
    BY <1>1, <2>4
  <2>. QED
    BY <2>6, <2>7, <2>8, <2>9 DEF Switched
<1>2. CASE ~(cur # NoTask /\ st[cur] = "RUNNING")
  <2>1. In(Idle, rq[63]) /\ \A t \in Tasks : st[t] # "RUNNING"
    BY <1>2, TaskAssumption
  <2>2. SwitchToHighest(rq, bits, st)
    BY <1>2 DEF Schedule
  <2>. QED
    BY <2>1, <2>2, SwitchPlaces
<1>. QED
  BY <1>1, <1>2

LEMMA WakeUpPlaces ==
  ASSUME KernelOK, cur \in Tasks, NEW t \in Tasks, WakeUp(t),
         \A u \in Tasks : state[u] = "RUNNING" => u = cur, Placed(readyq, state)
  PROVE  /\ Switched(PushReady(readyq, t), [state EXCEPT ![t] = "READY"])
         /\ ReadyOnly(readyq, state) /\ state[t] # "READY"
              => ReadyOnly(PushReady(readyq, t), [state EXCEPT ![t] = "READY"])
<1> DEFINE rq == PushReady(readyq, t)
           bits == SetReady(bm, Prio[t])
           st == [state EXCEPT ![t] = "READY"]
<1>1. /\ Consistent(readyq, bm) /\ Consistent(rq, bits)
      /\ In(t, rq[Prio[t]])
      /\ \A u \in Tasks, p \in Priorities : In(u, readyq[p]) => In(u, rq[p])
  BY PushConsistent DEF KernelOK
<1>2. Idle \in Tasks /\ Prio[Idle] = 63 /\ 63 \in Priorities
  BY TaskAssumption DEF Priorities
<1>3. /\ state \in [Tasks -> States] /\ st \in [Tasks -> States]
      /\ \A u \in Tasks : st[u] = IF u = t THEN "READY" ELSE state[u]
  BY DEF KernelOK, States
<1>4. (cur = Idle /\ st[Idle] = "RUNNING") \/ In(Idle, rq[63])
  <2>1. CASE t = Idle
    BY <1>1, <1>2, <2>1
  <2>2. CASE t # Idle
    <3>1. state[Idle] # "NEW"
      BY TaskAssumption DEF KernelOK
    <3>. QED
      BY <1>1, <1>2, <1>3, <2>2, <3>1 DEF KernelOK
  <2>. QED
    BY <2>1, <2>2
<1>5. /\ Placed(readyq, state) => Placed(rq, st)
      /\ ReadyOnly(readyq, state) /\ state[t] # "READY" => ReadyOnly(rq, st)
  BY <1>1, <1>3, PushPlaces
<1>6. Schedule(rq, bits, st)
  BY DEF WakeUp
<1>7. \A u \in Tasks : st[u] = "RUNNING" => u = cur
  BY <1>3
<1> HIDE DEF rq, bits, st
<1>8. Switched(rq, st)
  BY <1>1, <1>3, <1>4, <1>5, <1>6, <1>7, SchedulePlaces
<1>. QED
  BY <1>5, <1>8 DEF rq, st

LEMMA SuspendPlaces ==
  ASSUME KernelOK, cur \in Tasks, cur # Idle, Suspend,
         \A u \in Tasks : state[u] = "RUNNING" => u = cur, Placed(readyq, state)
  PROVE  Switched(readyq, [state EXCEPT ![cur] = "WAITING"])
<1> DEFINE st == [state EXCEPT ![cur] = "WAITING"]
<1>1. Consistent(readyq, bm) /\ In(Idle, readyq[63])
  BY TaskAssumption DEF KernelOK
<1>2. /\ st \in [Tasks -> States]
      /\ \A u \in Tasks : st[u] = IF u = cur THEN "WAITING" ELSE state[u]
  BY DEF KernelOK, States
<1>3. Schedule(readyq, bm, st)
  BY DEF Suspend
<1> HIDE DEF st
<1>4. Placed(readyq, st) /\ \A u \in Tasks : st[u] = "RUNNING" => u = cur
  BY <1>2 DEF Placed
<1>5. Switched(readyq, st)
  BY <1>1, <1>2, <1>3, <1>4, SchedulePlaces
<1>. QED
  BY <1>5 DEF st

-----------------------------------------------------------------------------
(* No task is lost *)

\* An alarm or a release will find t.
Waits(al, wq, t) ==
  \/ \E n \in Alarms : n.task = t /\ In(n, al)
  \/ \E s \in Sems, n \in Waiters : n.task = t /\ n.by = "block" /\ In(n, wq[s])

Kept ==
  /\ \A t \in Tasks : state[t] = "RUNNING" => t = cur
  /\ Placed(readyq, state)
  /\ \A t \in Tasks : state[t] = "WAITING" => Waits(alarms, waitq, t)
  /\ cur # NoTask => \A t \in Tasks : state[t] # "NEW"

\* A switch loses no task when every task that waits in st can be found.
LEMMA SwitchKept ==
  ASSUME NEW rq, NEW st, Switched(rq, st), \A t \in Tasks : st[t] # "NEW",
         \A t \in Tasks : st[t] = "WAITING" => Waits(alarms', waitq', t)
  PROVE  Kept'
<1>1. /\ \A t \in Tasks : state'[t] = "RUNNING" => t = cur'
      /\ \A t \in Tasks : state'[t] # "NEW"
      /\ \A t \in Tasks : state'[t] = "WAITING" => Waits(alarms', waitq', t)
  BY DEF Switched
<1>2. Placed(readyq, state)'
  BY DEF Switched, Placed
<1>. QED
  BY <1>1, <1>2 DEF Kept, Waits

\* A step of the running task that calls no scheduler and drops no alarm.
LEMMA CalmKept ==
  ASSUME Kept, UNCHANGED <<kernel, alarms, waitq>>
  PROVE  Kept'
  BY DEF Kept, kernel, Placed, Waits

LEMMA Running ==
  ASSUME IInv, cur # NoTask
  PROVE  cur \in Tasks
  BY DEF IInv, KernelOK

\* The running task falls asleep with a sleep that ends; wq is what becomes of
\* the wait queues.
LEMMA SleepForKept ==
  ASSUME IInv, Kept, CanCall, NEW tick \in Nat, NEW context, SleepFor(tick, context),
         LET timeout == IF tick > 0 THEN tick ELSE Period[cur]
         IN  timeout > 0 /\ Fits(timeout),
         \A s \in Sems, n \in Waiters : In(n, waitq[s]) => In(n, waitq'[s])
  PROVE  Kept'
<1> DEFINE timeout == IF tick > 0 THEN tick ELSE Period[cur]
           st == [state EXCEPT ![cur] = "WAITING"]
<1>1. cur \in Tasks /\ cur # Idle /\ cur # NoTask /\ alarms \in Seq(Alarms)
  BY Caller, TaskAssumption DEF IInv, RestOK
<1>2. timeout \in Nat \ {0} /\ Fits(timeout)
  BY <1>1, TaskAssumption
<1>3. alarms' = SetAlarm(alarms, cur, (64 * timeout + Prio[cur]) % Wrap)
  BY <1>2 DEF SleepFor
<1>4. Switched(readyq, st)
  BY <1>1, SuspendPlaces DEF SleepFor, IInv, Kept
<1>5. \A t \in Tasks : st[t] = IF t = cur THEN "WAITING" ELSE state[t]
  BY DEF IInv, KernelOK
<1> HIDE DEF timeout, st
<1>6. /\ \E n \in Alarms : n.task = cur /\ In(n, alarms')
      /\ \A n : In(n, alarms) /\ n.task # cur => In(n, alarms')
  BY <1>1, <1>2, <1>3, SetAlarmOrder
<1>7. ASSUME NEW t \in Tasks, st[t] = "WAITING"
      PROVE  Waits(alarms', waitq', t)
  <2>1. CASE t = cur
    BY <1>6, <2>1 DEF Waits
  <2>2. CASE t # cur
    <3>1. Waits(alarms, waitq, t)
      BY <1>5, <1>7, <2>2 DEF Kept
    <3>. QED
      BY <1>6, <2>2, <3>1 DEF Waits
  <2>. QED
    BY <2>1, <2>2
<1>8. \A t \in Tasks : st[t] # "NEW"
  BY <1>1, <1>5 DEF Kept
<1>. QED
  BY <1>4, <1>7, <1>8, SwitchKept

\* What a task joins stays a wait queue of everybody else.
LEMMA EnqueueMembers ==
  ASSUME IInv, cur \in Tasks, NEW s \in Sems, NEW by \in {"timed", "block"}, Enqueue(s, by)
  PROVE  /\ \A u \in Sems, n \in Waiters : In(n, waitq[u]) => In(n, waitq'[u])
         /\ \E n \in Waiters : n.task = cur /\ n.by = by /\ In(n, waitq'[s])
         /\ \A u \in Sems, n \in Waiters :
              In(n, waitq'[u]) => In(n, waitq[u]) \/ (u = s /\ n.task = cur /\ n.by = by)
<1> DEFINE node == [task |-> cur, prio |-> Prio[cur], by |-> by]
           q == waitq[s]
<1>1. node \in Waiters /\ node.task = cur /\ node.by = by
  BY PrioType DEF Waiters
<1>2. \A n \in Waiters : n.prio \in Nat
  BY DEF Waiters, Priorities
<1>3. q \in Seq(Waiters) /\ waitq \in [Sems -> Seq(Waiters)]
  BY DEF IInv, RestOK
<1>4. waitq' = [waitq EXCEPT ![s] = IF QueueType[s] = 0 THEN Append(@, node)
                                    ELSE AddByPriority(@, node)]
  BY DEF Enqueue
<1> HIDE DEF node, q
<1>5. /\ \A n : In(n, q) => In(n, AddByPriority(q, node))
      /\ In(node, AddByPriority(q, node))
      /\ \A n : In(n, AddByPriority(q, node)) => n = node \/ In(n, q)
  BY <1>1, <1>2, <1>3, AddByPriorityMembers
<1>6. /\ \A n : In(n, q) => In(n, Append(q, node))
      /\ In(node, Append(q, node))
      /\ \A n : In(n, Append(q, node)) => n = node \/ In(n, q)
  <2>1. /\ Len(q) \in Nat /\ Len(Append(q, node)) = Len(q) + 1
        /\ \A i \in 1..Len(q) : Append(q, node)[i] = q[i]
        /\ Append(q, node)[Len(q) + 1] = node
    BY <1>1, <1>3, AppendProperties, LenProperties
  <2>2. \A i \in 1..(Len(q) + 1) : i \in 1..Len(q) \/ i = Len(q) + 1
    BY <2>1
  <2>. QED
    BY <2>1, <2>2 DEF In
<1>7. /\ waitq'[s] = Append(q, node) \/ waitq'[s] = AddByPriority(q, node)
      /\ \A u \in Sems : u # s => waitq'[u] = waitq[u]
  BY <1>3, <1>4 DEF q
<1>8. /\ \A n : In(n, q) => In(n, waitq'[s])
      /\ In(node, waitq'[s])
      /\ \A n : In(n, waitq'[s]) => n = node \/ In(n, q)
  BY <1>5, <1>6, <1>7
<1>. QED
  BY <1>1, <1>7, <1>8 DEF q

LEMMA SleepKept ==
  ASSUME SleepsFit, SleepsEnd, IInv, Kept, NEW tick \in SleepTicks, Sleep(tick)
  PROVE  Kept'
<1>1. cur \in Tasks /\ cur # Idle /\ tick \in Nat
  BY Caller, ParameterAssumption DEF Sleep
<1>2. (IF tick > 0 THEN tick ELSE Period[cur]) > 0
  BY <1>1 DEF SleepsEnd
<1>3. Fits(IF tick > 0 THEN tick ELSE Period[cur])
  BY <1>1 DEF SleepsFit
<1>. QED
  BY <1>1, <1>2, <1>3, SleepForKept DEF Sleep

LEMMA AcquireTimedKept ==
  ASSUME SleepsFit, IInv, Kept, NEW s \in Sems, NEW timeout \in Timeouts,
         AcquireTimed(s, timeout)
  PROVE  Kept'
<1>1. cur \in Tasks /\ cur # Idle /\ timeout \in Nat /\ timeout > 0
  BY Caller, ParameterAssumption DEF AcquireTimed
<1>2. \A u \in Sems, n \in Waiters : In(n, waitq[u]) => In(n, waitq'[u])
  BY <1>1, EnqueueMembers DEF AcquireTimed
<1>3. LET sleep == IF timeout > 0 THEN timeout ELSE Period[cur]
      IN  sleep > 0 /\ Fits(sleep)
  BY <1>1 DEF SleepsFit
<1>. QED
  BY <1>1, <1>2, <1>3, SleepForKept DEF AcquireTimed

LEMMA AcquireBlockKept ==
  ASSUME IInv, Kept, NEW s \in Sems, NEW timeout \in Timeouts, AcquireBlock(s, timeout)
  PROVE  Kept'
<1> DEFINE st == [state EXCEPT ![cur] = "WAITING"]
<1>1. cur \in Tasks /\ cur # Idle /\ cur # NoTask
  BY Caller, TaskAssumption DEF AcquireBlock
<1>2. Switched(readyq, st)
  BY <1>1, SuspendPlaces DEF AcquireBlock, IInv, Kept
<1>3. \A t \in Tasks : st[t] = IF t = cur THEN "WAITING" ELSE state[t]
  BY DEF IInv, KernelOK
<1> HIDE DEF st
<1>4. /\ \A u \in Sems, n \in Waiters : In(n, waitq[u]) => In(n, waitq'[u])
      /\ \E n \in Waiters : n.task = cur /\ n.by = "block" /\ In(n, waitq'[s])
  BY <1>1, EnqueueMembers DEF AcquireBlock
<1>5. UNCHANGED alarms
  BY DEF AcquireBlock
<1>6. ASSUME NEW t \in Tasks, st[t] = "WAITING"
      PROVE  Waits(alarms', waitq', t)
  <2>1. CASE t = cur
    BY <1>4, <2>1 DEF Waits
  <2>2. CASE t # cur
    <3>1. Waits(alarms, waitq, t)
      BY <1>3, <1>6, <2>2 DEF Kept
    <3>. QED
      BY <1>4, <1>5, <3>1 DEF Waits
  <2>. QED
    BY <2>1, <2>2
<1>7. \A t \in Tasks : st[t] # "NEW"
  BY <1>1, <1>3 DEF Kept
<1>. QED
  BY <1>2, <1>6, <1>7, SwitchKept

\* Waking t, when the alarms and wait nodes of everybody else are still there.
LEMMA WakeUpKept ==
  ASSUME IInv, Kept, cur \in Tasks, NEW t \in Tasks, WakeUp(t),
         \A u \in Tasks : u # t /\ state[u] = "WAITING" => Waits(alarms', waitq', u)
  PROVE  Kept'
<1> DEFINE st == [state EXCEPT ![t] = "READY"]
<1>1. Switched(PushReady(readyq, t), st)
  BY WakeUpPlaces DEF IInv, Kept
<1>2. \A u \in Tasks : st[u] = IF u = t THEN "READY" ELSE state[u]
  BY DEF IInv, KernelOK
<1>3. \A u \in Tasks : state[u] # "NEW"
  BY TaskAssumption DEF Kept
<1> HIDE DEF st
<1>4. \A u \in Tasks : st[u] # "NEW"
  BY <1>2, <1>3
<1>5. \A u \in Tasks : st[u] = "WAITING" => Waits(alarms', waitq', u)
  BY <1>2
<1>. QED
  BY <1>1, <1>4, <1>5, SwitchKept

LEMMA ReleaseKept ==
  ASSUME IInv, Kept, NEW s \in Sems, Release(s)
  PROVE  Kept'
<1>1. cur \in Tasks /\ waitq \in [Sems -> Seq(Waiters)] /\ UNCHANGED alarms
  BY Caller DEF IInv, RestOK, Release
<1>2. CASE waitq[s] = <<>> /\ UNCHANGED <<kernel, waitq>>
  BY <1>1, <1>2, CalmKept
<1>3. CASE /\ waitq[s] # <<>>
           /\ waitq' = [waitq EXCEPT ![s] = Tail(@)]
           /\ WakeUp(Head(waitq[s]).task)
  <2> DEFINE t == Head(waitq[s]).task
  <2>1. Head(waitq[s]) \in Waiters /\ waitq[s] \in Seq(Waiters)
    BY <1>1, <1>3, HeadTailProperties
  <2>2. t \in Tasks
    BY <2>1 DEF Waiters
  <2>3. \A n : In(n, waitq[s]) => n = Head(waitq[s]) \/ In(n, Tail(waitq[s]))
    BY <1>3, <2>1, TailMembers
  <2>4. waitq'[s] = Tail(waitq[s]) /\ \A u \in Sems : u # s => waitq'[u] = waitq[u]
    BY <1>1, <1>3
  <2>5. ASSUME NEW u \in Tasks, u # t, state[u] = "WAITING"
        PROVE  Waits(alarms', waitq', u)
    <3>1. Waits(alarms, waitq, u)
      BY <2>5 DEF Kept
    <3>2. ASSUME NEW x \in Sems, NEW n \in Waiters, n.task = u, In(n, waitq[x])
          PROVE  In(n, waitq'[x])
      BY <2>3, <2>4, <2>5, <3>2
    <3>. QED
      BY <1>1, <3>1, <3>2 DEF Waits
  <2>6. WakeUp(t)
    BY <1>3
  <2> HIDE DEF t
  <2>. QED
    BY <1>1, <2>2, <2>5, <2>6, WakeUpKept
<1>. QED
  BY <1>2, <1>3 DEF Release

\* The second loop of eos_trigger_counter, over a queue with every alarm in it.
LEMMA TriggerLoopKept ==
  ASSUME IInv, Kept, cur \in Tasks, NEW q \in Seq(Alarms), TriggerLoop(q), UNCHANGED waitq,
         \A t \in Tasks : state[t] = "WAITING" => Waits(q, waitq, t)
  PROVE  Kept'
<1>1. CASE alarms' = q /\ UNCHANGED kernel
  BY <1>1 DEF Kept, kernel, Placed, Waits
<1>2. CASE Expired(q) /\ alarms' = Tail(q) /\ WakeUp(Head(q).task)
  <2> DEFINE t == Head(q).task
  <2>1. Head(q) \in Alarms /\ q # <<>>
    BY <1>2, HeadTailProperties DEF Expired
  <2>2. t \in Tasks
    BY <2>1 DEF Alarms
  <2>3. \A n : In(n, q) => n = Head(q) \/ In(n, Tail(q))
    BY <2>1, TailMembers
  <2>4. ASSUME NEW u \in Tasks, u # t, state[u] = "WAITING"
        PROVE  Waits(alarms', waitq', u)
    <3>1. Waits(q, waitq, u)
      BY <2>4
    <3>2. ASSUME NEW n \in Alarms, n.task = u, In(n, q)
          PROVE  In(n, alarms')
      BY <1>2, <2>3, <2>4, <3>2
    <3>. QED
      BY <3>1, <3>2 DEF Waits
  <2>5. WakeUp(t)
    BY <1>2
  <2> HIDE DEF t
  <2>. QED
    BY <2>2, <2>4, <2>5, WakeUpKept
<1>. QED
  BY <1>1, <1>2 DEF TriggerLoop

\* Counting down changes the times and keys, not whose alarms there are.
LEMMA CountDownMembers ==
  ASSUME NEW q \in Seq(Alarms), NEW n \in Alarms, In(n, q)
  PROVE  \E m \in Alarms : m.task = n.task /\ In(m, CountDown(q))
<1> DEFINE r == CountDown(q)
<1>1. PICK i \in 1..Len(q) : q[i] = n
  BY DEF In
<1>2. r \in Seq(Alarms) /\ DOMAIN r = 1..Len(r) /\ DOMAIN r = 1..Len(q)
  <2>1. r \in Seq(Alarms)
    BY CountDownType
  <2>. QED
    BY <2>1, LenProperties DEF CountDown
<1>3. i \in 1..Len(r)
  BY <1>2
<1>4. r[i] = [n EXCEPT !.timeout = (@ - 1) % Wrap, !.prio = (@ - 64) % Wrap]
  BY <1>1 DEF CountDown
<1>5. r[i].task = n.task
  BY <1>4 DEF Alarms
<1> HIDE DEF r
<1>6. r[i] \in Alarms /\ In(r[i], r)
  BY <1>2, <1>3, ElementOfSeq DEF In
<1>. QED
  BY <1>5, <1>6 DEF r

LEMMA KeptStep ==
  ASSUME SleepsFit, SleepsEnd, IInv, Kept, [Next]_vars
  PROVE  Kept'
<1>1. CASE UNCHANGED <<kernel, alarms, waitq>>
  BY <1>1, CalmKept
<1>2. ASSUME NEW t \in Tasks, CreateTask(t)
      PROVE  Kept'
  <2>1. Consistent(readyq, bm) /\ state \in [Tasks -> States]
    BY DEF IInv, KernelOK
  <2>2. /\ readyq' = PushReady(readyq, t) /\ state' = [state EXCEPT ![t] = "READY"]
        /\ UNCHANGED <<cur, alarms, waitq>> /\ cur = NoTask
    BY <1>2 DEF CreateTask
  <2>3. Placed(readyq, state) => Placed(readyq', state')
    BY <2>1, <2>2, PushPlaces
  <2>4. Placed(readyq, state)'
    BY <2>3 DEF Kept, Placed
  <2>. QED
    BY <2>1, <2>2, <2>4 DEF Kept, Waits
<1>3. ASSUME Schedule(readyq, bm, state), \A t \in Tasks : state[t] # "NEW",
             UNCHANGED <<alarms, waitq>>
      PROVE  Kept'
  <2>1. Switched(readyq, state)
    BY <1>3, TaskAssumption, SchedulePlaces DEF IInv, KernelOK, Kept
  <2>2. \A t \in Tasks : state[t] = "WAITING" => Waits(alarms', waitq', t)
    BY <1>3 DEF Kept, Waits
  <2>. QED
    BY <1>3, <2>1, <2>2, SwitchKept
<1>4. CASE StartMultitasking
  BY <1>3, <1>4 DEF StartMultitasking
<1>5. CASE Yield
  BY <1>3, <1>5, TaskAssumption DEF Yield, CanCall, InUserCode, Kept
<1>6. CASE Tick
  <2>1. cur \in Tasks /\ alarms \in Seq(Alarms) /\ UNCHANGED waitq
    BY <1>6, Running DEF Tick, InUserCode, IInv, RestOK
  <2>2. CASE TriggerLoop(CountDown(alarms))
    <3>1. CountDown(alarms) \in Seq(Alarms)
      BY <2>1, CountDownType
    <3>2. ASSUME NEW t \in Tasks, state[t] = "WAITING"
          PROVE  Waits(CountDown(alarms), waitq, t)
      BY <2>1, <3>2, CountDownMembers DEF Kept, Waits
    <3>. QED
      BY <2>1, <2>2, <3>1, <3>2, TriggerLoopKept
  <2>3. CASE UNCHANGED <<kernel, alarms, pc>>
    BY <1>1, <2>1, <2>3
  <2>. QED
    BY <1>6, <2>2, <2>3 DEF Tick
<1>7. CASE TickResume
  <2>1. cur \in Tasks /\ alarms \in Seq(Alarms)
    BY <1>7, Running DEF TickResume, Resumed, IInv, RestOK
  <2>. QED
    BY <1>7, <2>1, TriggerLoopKept DEF TickResume, Kept
<1>8. CASE Call
  BY <1>1, <1>5, <1>8, SleepKept, AcquireTimedKept, AcquireBlockKept, ReleaseKept
     DEF Call, AcquireAtOnce
<1>9. CASE Resume
  BY <1>1, <1>7, <1>9 DEF Resume, AcquireTimedResume, AcquireBlockTake, AcquireBlockRetry
<1>10. CASE UNCHANGED vars
  BY <1>1, <1>10 DEF vars, kernel
<1>. QED
  BY <1>2, <1>4, <1>6, <1>8, <1>9, <1>10 DEF Next, Boot

\* No task is lost, with any tasks, semaphores and timeouts, and however often a
\* timed wait leaves its alarm or its wait node behind: each task runs, is in the
\* queue of its priority, or waits where an alarm or a release will find it.
THEOREM NoTaskEverLost ==
  ASSUME SleepsFit, SleepsEnd
  PROVE  Spec => []NoTaskLost
<1>1. Init => Kept
  BY DEF Init, Kept, Placed
<1>2. IInv /\ Kept /\ [Next]_vars => Kept'
  BY KeptStep
<1>3. ASSUME IInv, Kept
      PROVE  NoTaskLost
  <2>1. SUFFICES ASSUME NEW t \in Tasks, cur # NoTask
                 PROVE  CASE state[t] = "RUNNING" -> t = cur
                          [] state[t] = "READY"   -> Queued(t)
                          [] state[t] = "WAITING" -> HasAlarm(t) \/ \E s \in Sems : WaitsOn(t, s)
                          [] OTHER                -> FALSE
    BY DEF NoTaskLost, Booted
  <2>2. state[t] \in {"READY", "RUNNING", "WAITING"}
    BY <1>3, <2>1 DEF IInv, KernelOK, States, Kept
  <2>3. ASSUME state[t] = "READY"
        PROVE  Queued(t)
    <3>1. readyq[Prio[t]] \in Seq(Tasks) /\ In(t, readyq[Prio[t]])
      BY <1>3, <2>3, PrioType DEF IInv, KernelOK, Consistent, Kept, Placed
    <3>. QED
      BY <3>1, LenProperties DEF Queued, ToSet, In
  <2>4. ASSUME state[t] = "WAITING"
        PROVE  HasAlarm(t) \/ \E s \in Sems : WaitsOn(t, s)
    <3>1. Waits(alarms, waitq, t)
      BY <1>3, <2>4 DEF Kept
    <3>2. DOMAIN alarms = 1..Len(alarms) /\ \A s \in Sems : DOMAIN waitq[s] = 1..Len(waitq[s])
      BY <1>3, LenProperties DEF IInv, RestOK
    <3>. QED
      BY <3>1, <3>2 DEF Waits, HasAlarm, WaitsOn, In
  <2>5. state[t] = "RUNNING" => t = cur
    BY <1>3 DEF Kept
  <2>. QED
    BY <2>2, <2>3, <2>4, <2>5
<1>. QED
  BY <1>1, <1>2, <1>3, KernelInvariant, PTL DEF Spec

-----------------------------------------------------------------------------
(* As long as no task waits with a timeout, nothing is left behind *)

\* No two nodes of a queue are of one task.
OneEach(q) == \A i, j \in 1..Len(q) : q[i].task = q[j].task => i = j

\* Alarms are those of tasks in eos_sleep, and wait nodes those of tasks that
\* wait on that semaphore.
AlarmsTidy(al, st, at) ==
  /\ OneEach(al)
  /\ \A n \in Alarms : In(n, al) => st[n.task] = "WAITING" /\ at[n.task].at = "user"
WaitsTidy(wq, st, at) ==
  \A s \in Sems :
    /\ OneEach(wq[s])
    /\ \A n \in Waiters : In(n, wq[s]) =>
         /\ st[n.task] = "WAITING"
         /\ n.by = "block"
         /\ at[n.task] = [at |-> "block", sem |-> s]

Tidy ==
  /\ cur # NoTask => state[cur] = "RUNNING"
  /\ \A t \in Tasks : pc[t].at # "timed"
  /\ ReadyOnly(readyq, state)
  /\ AlarmsTidy(alarms, state, pc)
  /\ WaitsTidy(waitq, state, pc)

\* A queue with one node more, of a task that had none, or without its head.
LEMMA InsertedOneEach ==
  ASSUME NEW S, NEW q \in Seq(S), NEW e \in S, NEW r, NEW k \in 1..(Len(q) + 1),
         Inserted(q, k, e, r), OneEach(q), \A i \in 1..Len(q) : q[i].task # e.task
  PROVE  OneEach(r)
<1>1. /\ Len(q) \in Nat /\ Len(r) = Len(q) + 1 /\ k \in 1..(Len(q) + 1)
      /\ \A i \in 1..(Len(q) + 1) :
           r[i] = IF i < k THEN q[i] ELSE IF i = k THEN e ELSE q[i - 1]
  BY LenProperties DEF Inserted
<1>2. ASSUME NEW i \in 1..Len(r)
      PROVE  \/ i < k /\ i \in 1..Len(q) /\ r[i] = q[i]
             \/ i = k /\ r[i] = e
             \/ i > k /\ i - 1 \in 1..Len(q) /\ r[i] = q[i - 1]
  <2>1. r[i] = IF i < k THEN q[i] ELSE IF i = k THEN e ELSE q[i - 1]
    BY <1>1
  <2>2. CASE i < k
    BY <1>1, <2>1, <2>2
  <2>3. CASE i = k
    BY <1>1, <2>1, <2>3
  <2>4. CASE i > k
    <3>1. i - 1 \in 1..Len(q) /\ ~(i < k) /\ i # k
      BY <1>1, <2>4
    <3>. QED
      BY <2>1, <2>4, <3>1
  <2>. QED
    BY <1>1, <2>2, <2>3, <2>4
<1>3. SUFFICES ASSUME NEW i \in 1..Len(r), NEW j \in 1..Len(r), r[i].task = r[j].task
               PROVE  i = j
  BY DEF OneEach
<1>4. i \in Int /\ j \in Int /\ k \in Int
  BY <1>1
<1> DEFINE origin(x) == IF x < k THEN x ELSE x - 1
<1>5. ASSUME NEW x \in 1..Len(r), x # k
      PROVE  origin(x) \in 1..Len(q) /\ r[x] = q[origin(x)]
  <2>1. x \in Int
    BY <1>1
  <2>. QED
    BY <1>2, <1>4, <1>5, <2>1
<1>6. i # k /\ j # k => origin(i) = origin(j)
  BY <1>3, <1>5 DEF OneEach
<1>7. i # k /\ j # k => i = j
  BY <1>4, <1>6
<1>8. ~(i = k /\ j # k) /\ ~(i # k /\ j = k)
  <2>1. r[k] = e
    <3>1. k \in 1..(Len(q) + 1) /\ ~(k < k)
      BY <1>1, <1>4
    <3>. QED
      BY <1>1, <3>1
  <2>2. ASSUME NEW x \in 1..Len(r), x # k
        PROVE  r[x].task # e.task
    BY <1>5, <2>2
  <2>. QED
    BY <1>3, <2>1, <2>2
<1>. QED
  BY <1>7, <1>8

LEMMA TailOneEach ==
  ASSUME NEW S, NEW q \in Seq(S), q # <<>>, OneEach(q)
  PROVE  /\ OneEach(Tail(q))
         /\ \A n : In(n, Tail(q)) => n.task # Head(q).task
<1>1. /\ Len(Tail(q)) = Len(q) - 1 /\ Len(q) \in Nat \ {0}
      /\ Head(q) = q[1]
      /\ \A i \in 1..(Len(q) - 1) : Tail(q)[i] = q[i + 1]
  BY HeadTailProperties, EmptySeq
<1>2. \A i \in 1..(Len(q) - 1) : i + 1 \in 1..Len(q) /\ i + 1 # 1 /\ 1 \in 1..Len(q)
  BY <1>1
<1>3. OneEach(Tail(q))
  BY <1>1, <1>2 DEF OneEach
<1>4. ASSUME NEW n, In(n, Tail(q))
      PROVE  n.task # Head(q).task
  <2>1. PICK i \in 1..(Len(q) - 1) : Tail(q)[i] = n
    BY <1>1, <1>4 DEF In
  <2>2. n = q[i + 1] /\ i + 1 \in 1..Len(q) /\ i + 1 # 1 /\ 1 \in 1..Len(q)
    BY <1>1, <1>2, <2>1
  <2>. QED
    BY <1>1, <2>2 DEF OneEach
<1>. QED
  BY <1>3, <1>4

LEMMA AddByPriorityOneEach ==
  ASSUME NEW S, NEW q \in Seq(S), NEW node \in S, \A n \in S : n.prio \in Nat, OneEach(q),
         \A n \in S : In(n, q) => n.task # node.task
  PROVE  OneEach(AddByPriority(q, node))
<1>1. PICK k \in 1..(Len(q) + 1) : Inserted(q, k, node, AddByPriority(q, node))
  BY AddByPriorityItems
<1>2. \A i \in 1..Len(q) : q[i].task # node.task
  BY ElementOfSeq DEF In
<1>. QED
  BY <1>1, <1>2, InsertedOneEach

\* Setting the alarm of a task that has none.
LEMMA SetAlarmOneEach ==
  ASSUME NEW q \in Seq(Alarms), NEW t \in Tasks, NEW key \in Nat, OneEach(q),
         \A n \in Alarms : In(n, q) => n.task # t
  PROVE  OneEach(SetAlarm(q, t, key))
<1> DEFINE node == [task |-> t, timeout |-> key \div 64, prio |-> key]
<1>1. RemoveAlarm(q, t) = q
  <2>1. \A i \in 1..Len(q) : q[i].task # t
    BY ElementOfSeq DEF In
  <2>. QED
    BY <2>1 DEF RemoveAlarm
<1>2. node \in Alarms /\ node.task = t /\ \A n \in Alarms : n.prio \in Nat
  BY DEF Alarms
<1>3. SetAlarm(q, t, key) = IF key = 0 THEN q ELSE AddByPriority(q, node)
  BY <1>1 DEF SetAlarm
<1> HIDE DEF node
<1>4. OneEach(AddByPriority(q, node))
  BY <1>2, AddByPriorityOneEach
<1>. QED
  BY <1>3, <1>4

LEMMA CountDownOneEach ==
  ASSUME NEW q \in Seq(Alarms), OneEach(q)
  PROVE  /\ OneEach(CountDown(q))
         /\ \A m \in Alarms : In(m, CountDown(q)) =>
              \E n \in Alarms : n.task = m.task /\ In(n, q)
<1> DEFINE r == CountDown(q)
<1>1. r \in Seq(Alarms) /\ DOMAIN r = 1..Len(r) /\ DOMAIN r = 1..Len(q) /\ Len(q) \in Nat
  <2>1. r \in Seq(Alarms)
    BY CountDownType
  <2>. QED
    BY <2>1, LenProperties DEF CountDown
<1>2. Len(r) = Len(q)
  BY <1>1, LenProperties
<1>3. ASSUME NEW i \in 1..Len(q)
      PROVE  q[i] \in Alarms /\ r[i].task = q[i].task
  <2>1. q[i] \in Alarms
    BY ElementOfSeq
  <2>2. r[i] = [q[i] EXCEPT !.timeout = (@ - 1) % Wrap, !.prio = (@ - 64) % Wrap]
    BY DEF CountDown
  <2>. QED
    BY <2>1, <2>2 DEF Alarms
<1> HIDE DEF r
<1>4. OneEach(r)
  BY <1>2, <1>3 DEF OneEach
<1>5. \A m \in Alarms : In(m, r) => \E n \in Alarms : n.task = m.task /\ In(n, q)
  BY <1>2, <1>3 DEF In
<1>. QED
  BY <1>4, <1>5 DEF r

LEMMA SwitchTidy ==
  ASSUME NEW rq, NEW st, Switched(rq, st), ReadyOnly(rq, st),
         \A t \in Tasks : pc'[t].at # "timed",
         AlarmsTidy(alarms', st, pc'), WaitsTidy(waitq', st, pc')
  PROVE  Tidy'
<1>1. /\ cur' \in Tasks /\ state'[cur'] = "RUNNING"
      /\ ReadyOnly(readyq', state')
      /\ \A t \in Tasks : st[t] = "WAITING" => state'[t] = "WAITING"
  BY DEF Switched
<1>2. AlarmsTidy(alarms', state', pc')
  <2>1. \A n \in Alarms : n.task \in Tasks
    BY DEF Alarms
  <2>. QED
    BY <1>1, <2>1 DEF AlarmsTidy
<1>3. WaitsTidy(waitq', state', pc')
  <2>1. \A n \in Waiters : n.task \in Tasks
    BY DEF Waiters
  <2>. QED
    BY <1>1, <2>1 DEF WaitsTidy
<1>4. ReadyOnly(readyq, state)' /\ AlarmsTidy(alarms, state, pc)' /\ WaitsTidy(waitq, state, pc)'
  BY <1>1, <1>2, <1>3 DEF ReadyOnly, AlarmsTidy, WaitsTidy
<1>. QED
  BY <1>1, <1>4 DEF Tidy

\* The running task has neither an alarm nor a wait node, so that it may change
\* its context, and wait.
LEMMA NothingLeft ==
  ASSUME IInv, Tidy, cur \in Tasks
  PROVE  /\ state[cur] = "RUNNING"
         /\ \A n \in Alarms : In(n, alarms) => n.task # cur
         /\ \A s \in Sems, n \in Waiters : In(n, waitq[s]) => n.task # cur
<1>1. cur # NoTask
  BY TaskAssumption
<1>. QED
  BY <1>1 DEF Tidy, AlarmsTidy, WaitsTidy

LEMMA ContinueTidy ==
  ASSUME IInv, Tidy, cur \in Tasks, NEW context, Continue(context), UNCHANGED <<kernel, alarms, waitq>>,
         context.at # "timed"
  PROVE  Tidy'
<1>1. /\ \A n \in Alarms : In(n, alarms) => n.task # cur
      /\ \A s \in Sems, n \in Waiters : In(n, waitq[s]) => n.task # cur
  BY NothingLeft
<1>2. \A t \in Tasks : pc'[t] = IF t = cur THEN context ELSE pc[t]
  BY DEF Continue, IInv, RestOK
<1>3. \A n \in Alarms : n.task \in Tasks
  BY DEF Alarms
<1>4. \A n \in Waiters : n.task \in Tasks
  BY DEF Waiters
<1>5. UNCHANGED <<cur, state, readyq, alarms, waitq>>
  BY DEF kernel
<1>6. AlarmsTidy(alarms, state, pc)'
  BY <1>1, <1>2, <1>3, <1>5 DEF Tidy, AlarmsTidy
<1>7. WaitsTidy(waitq, state, pc)'
  BY <1>1, <1>2, <1>4, <1>5 DEF Tidy, WaitsTidy
<1>. QED
  BY <1>2, <1>5, <1>6, <1>7 DEF Tidy, ReadyOnly

LEMMA CalmTidy ==
  ASSUME Tidy, UNCHANGED <<kernel, alarms, waitq, pc>>
  PROVE  Tidy'
  BY DEF Tidy, kernel, ReadyOnly, AlarmsTidy, WaitsTidy

\* The running task suspends itself in a context of its own.
LEMMA SuspendTidy ==
  ASSUME IInv, Kept, Tidy, cur \in Tasks, cur # Idle, Suspend, NEW context, Continue(context),
         context.at # "timed",
         NEW st, st = [state EXCEPT ![cur] = "WAITING"],
         AlarmsTidy(alarms', st, pc'), WaitsTidy(waitq', st, pc')
  PROVE  Tidy'
<1>1. Switched(readyq, st)
  BY SuspendPlaces DEF IInv, Kept
<1>2. ReadyOnly(readyq, st)
  <2>1. \A t \in Tasks : st[t] = IF t = cur THEN "WAITING" ELSE state[t]
    BY DEF IInv, KernelOK
  <2>2. \A p \in Priorities : readyq[p] \in Seq(Tasks)
    BY DEF IInv, KernelOK, Consistent
  <2>3. ASSUME NEW p \in Priorities, NEW i \in 1..Len(readyq[p])
        PROVE  st[readyq[p][i]] = "READY"
    <3>1. readyq[p][i] \in Tasks /\ state[readyq[p][i]] = "READY"
      BY <2>2, ElementOfSeq DEF Tidy, ReadyOnly
    <3>. QED
      BY <2>1, <3>1, NothingLeft
  <2>. QED
    BY <2>3 DEF Tidy, ReadyOnly
<1>3. \A t \in Tasks : pc'[t].at # "timed"
  BY DEF Continue, IInv, RestOK, Tidy
<1>. QED
  BY <1>1, <1>2, <1>3, SwitchTidy

LEMMA ModType ==
  ASSUME NEW n \in Nat, NEW m \in Nat \ {0}
  PROVE  n % m \in Nat
  OBVIOUS

LEMMA SleepTidy ==
  ASSUME SleepsFit, SleepsEnd, IInv, Kept, Tidy, NEW tick \in SleepTicks, Sleep(tick)
  PROVE  Tidy'
<1> DEFINE timeout == IF tick > 0 THEN tick ELSE Period[cur]
           st == [state EXCEPT ![cur] = "WAITING"]
<1>1. cur \in Tasks /\ cur # Idle /\ cur # NoTask /\ alarms \in Seq(Alarms) /\ tick \in Nat
  BY Caller, TaskAssumption, ParameterAssumption DEF IInv, RestOK, Sleep
<1>2. timeout \in Nat \ {0} /\ Fits(timeout)
  BY <1>1, TaskAssumption DEF SleepsEnd, SleepsFit
<1>3. alarms' = SetAlarm(alarms, cur, (64 * timeout + Prio[cur]) % Wrap)
  BY <1>2 DEF Sleep, SleepFor
<1>4. Suspend /\ Continue(UserContext) /\ UNCHANGED waitq
  BY DEF Sleep, SleepFor
<1>5. \A t \in Tasks : st[t] = IF t = cur THEN "WAITING" ELSE state[t]
  BY DEF IInv, KernelOK
<1>6. \A t \in Tasks : pc'[t] = IF t = cur THEN UserContext ELSE pc[t]
  BY <1>4 DEF Continue, IInv, RestOK
<1> HIDE DEF timeout, st
<1>7. (64 * timeout + Prio[cur]) % Wrap \in Nat
  <2>1. timeout \in Nat /\ Prio[cur] \in 0..63 /\ Wrap \in Nat \ {0}
    <3>1. Prio[cur] \in 0..63
      BY <1>1, PrioType DEF Priorities
    <3>2. Wrap \in Nat \ {0}
      BY ParameterAssumption
    <3>. QED
      BY <1>2, <3>1, <3>2
  <2>2. 64 * timeout + Prio[cur] \in Nat
    BY <2>1
  <2>. QED
    BY <2>1, <2>2, ModType
<1>8. /\ state[cur] = "RUNNING"
      /\ \A n \in Alarms : In(n, alarms) => n.task # cur
      /\ \A s \in Sems, n \in Waiters : In(n, waitq[s]) => n.task # cur
  BY <1>1, NothingLeft
<1>9. AlarmsTidy(alarms', st, pc')
  <2>1. OneEach(alarms')
    BY <1>1, <1>3, <1>7, <1>8, SetAlarmOneEach DEF Tidy, AlarmsTidy
  <2>2. ASSUME NEW n \in Alarms, In(n, alarms')
        PROVE  st[n.task] = "WAITING" /\ pc'[n.task].at = "user"
    <3>1. n.task = cur \/ In(n, alarms)
      BY <1>1, <1>2, <1>3, <2>2, SetAlarmOrder
    <3>2. n.task \in Tasks
      BY DEF Alarms
    <3>. QED
      BY <1>5, <1>6, <1>8, <3>1, <3>2 DEF Tidy, AlarmsTidy, UserContext
  <2>. QED
    BY <2>1, <2>2 DEF AlarmsTidy
<1>10. WaitsTidy(waitq', st, pc')
  <2>1. \A n \in Waiters : n.task \in Tasks
    BY DEF Waiters
  <2>. QED
    BY <1>4, <1>5, <1>6, <1>8, <2>1 DEF Tidy, WaitsTidy
<1>11. UserContext.at # "timed"
  BY DEF UserContext
<1>12. st = [state EXCEPT ![cur] = "WAITING"]
  BY DEF st
<1>. QED
  BY <1>1, <1>4, <1>9, <1>10, <1>11, <1>12, SuspendTidy

LEMMA AppendOneEach ==
  ASSUME NEW S, NEW q \in Seq(S), NEW node \in S, OneEach(q),
         \A n \in S : In(n, q) => n.task # node.task
  PROVE  OneEach(Append(q, node))
<1>1. /\ Len(q) \in Nat /\ Len(Append(q, node)) = Len(q) + 1
      /\ \A i \in 1..Len(q) : Append(q, node)[i] = q[i]
      /\ Append(q, node)[Len(q) + 1] = node
  BY AppendProperties, LenProperties
<1>2. \A i \in 1..(Len(q) + 1) : i \in 1..Len(q) \/ i = Len(q) + 1
  BY <1>1
<1>3. \A i \in 1..Len(q) : q[i].task # node.task
  BY ElementOfSeq DEF In
<1>. QED
  BY <1>1, <1>2, <1>3 DEF OneEach

LEMMA AcquireBlockTidy ==
  ASSUME IInv, Kept, Tidy, NEW s \in Sems, NEW timeout \in Timeouts, AcquireBlock(s, timeout)
  PROVE  Tidy'
<1> DEFINE st == [state EXCEPT ![cur] = "WAITING"]
           context == [at |-> "block", sem |-> s]
           node == [task |-> cur, prio |-> Prio[cur], by |-> "block"]
<1>1. cur \in Tasks /\ cur # Idle
  BY Caller DEF AcquireBlock
<1>2. /\ Enqueue(s, "block") /\ Continue(context) /\ Suspend
      /\ UNCHANGED alarms
  BY DEF AcquireBlock
<1>3. /\ state[cur] = "RUNNING"
      /\ \A n \in Alarms : In(n, alarms) => n.task # cur
      /\ \A u \in Sems, n \in Waiters : In(n, waitq[u]) => n.task # cur
  BY <1>1, NothingLeft
<1>4. \A u \in Sems, n \in Waiters :
        In(n, waitq'[u]) => In(n, waitq[u]) \/ (u = s /\ n.task = cur /\ n.by = "block")
  BY <1>1, <1>2, EnqueueMembers
<1>5. ASSUME NEW u \in Sems
      PROVE  OneEach(waitq'[u])
  <2>1. /\ node \in Waiters /\ node.task = cur
        /\ \A n \in Waiters : n.prio \in Nat
    BY <1>1, PrioType DEF Waiters, Priorities
  <2>2. waitq \in [Sems -> Seq(Waiters)] /\ waitq[s] \in Seq(Waiters)
    BY DEF IInv, RestOK
  <2>3. waitq' = [waitq EXCEPT ![s] = IF QueueType[s] = 0 THEN Append(@, node)
                                      ELSE AddByPriority(@, node)]
    BY <1>2 DEF Enqueue
  <2>4. \A x \in Sems : OneEach(waitq[x])
    BY DEF Tidy, WaitsTidy
  <2> HIDE DEF node
  <2>5. OneEach(Append(waitq[s], node))
    BY <1>3, <2>1, <2>2, <2>4, AppendOneEach
  <2>6. OneEach(AddByPriority(waitq[s], node))
    BY <1>3, <2>1, <2>2, <2>4, AddByPriorityOneEach
  <2>. QED
    BY <2>2, <2>3, <2>4, <2>5, <2>6
<1>6. \A t \in Tasks : st[t] = IF t = cur THEN "WAITING" ELSE state[t]
  BY DEF IInv, KernelOK
<1>7. \A t \in Tasks : pc'[t] = IF t = cur THEN context ELSE pc[t]
  BY <1>2 DEF Continue, IInv, RestOK
<1>8. st = [state EXCEPT ![cur] = "WAITING"] /\ context.at # "timed"
  OBVIOUS
<1>9. context = [at |-> "block", sem |-> s]
  OBVIOUS
<1> HIDE DEF st, context, node
<1>10. AlarmsTidy(alarms', st, pc')
  <2>1. \A n \in Alarms : n.task \in Tasks
    BY DEF Alarms
  <2>. QED
    BY <1>2, <1>3, <1>6, <1>7, <2>1 DEF Tidy, AlarmsTidy
<1>11. WaitsTidy(waitq', st, pc')
  <2>1. ASSUME NEW u \in Sems, NEW n \in Waiters, In(n, waitq'[u])
        PROVE  st[n.task] = "WAITING" /\ n.by = "block"
               /\ pc'[n.task] = [at |-> "block", sem |-> u]
    <3>1. n.task \in Tasks
      BY DEF Waiters
    <3>2. CASE In(n, waitq[u])
      <4>1. /\ n.task # cur /\ state[n.task] = "WAITING" /\ n.by = "block"
            /\ pc[n.task] = [at |-> "block", sem |-> u]
        BY <1>3, <3>2 DEF Tidy, WaitsTidy
      <4>. QED
        BY <1>6, <1>7, <3>1, <4>1
    <3>3. CASE u = s /\ n.task = cur /\ n.by = "block"
      BY <1>6, <1>7, <1>9, <3>1, <3>3
    <3>. QED
      BY <1>4, <2>1, <3>2, <3>3
  <2>. QED
    BY <1>5, <2>1 DEF WaitsTidy
<1>. QED
  BY <1>1, <1>2, <1>8, <1>10, <1>11, SuspendTidy

\* Waking a task that waits, when nothing of it is left in the queues.
LEMMA WakeUpTidy ==
  ASSUME IInv, Kept, Tidy, cur \in Tasks, NEW t \in Tasks, WakeUp(t), state[t] = "WAITING",
         \A u \in Tasks : pc'[u].at # "timed",
         NEW st, st = [state EXCEPT ![t] = "READY"],
         AlarmsTidy(alarms', st, pc'), WaitsTidy(waitq', st, pc')
  PROVE  Tidy'
<1>1. /\ Switched(PushReady(readyq, t), st)
      /\ ReadyOnly(PushReady(readyq, t), st)
  BY WakeUpPlaces DEF IInv, Kept, Tidy
<1>. QED
  BY <1>1, SwitchTidy

LEMMA ReleaseTidy ==
  ASSUME IInv, Kept, Tidy, NEW s \in Sems, Release(s)
  PROVE  Tidy'
<1>1. cur \in Tasks /\ waitq \in [Sems -> Seq(Waiters)] /\ UNCHANGED <<alarms, pc>>
  BY Caller DEF IInv, RestOK, Release
<1>2. CASE waitq[s] = <<>> /\ UNCHANGED <<kernel, waitq>>
  BY <1>1, <1>2, CalmTidy
<1>3. CASE /\ waitq[s] # <<>>
           /\ waitq' = [waitq EXCEPT ![s] = Tail(@)]
           /\ WakeUp(Head(waitq[s]).task)
  <2> DEFINE t == Head(waitq[s]).task
             st == [state EXCEPT ![t] = "READY"]
  <2>1. Head(waitq[s]) \in Waiters /\ waitq[s] \in Seq(Waiters) /\ In(Head(waitq[s]), waitq[s])
    BY <1>1, <1>3, HeadTailProperties, EmptySeq DEF In
  <2>2. t \in Tasks /\ state[t] = "WAITING" /\ pc[t] = [at |-> "block", sem |-> s]
    BY <2>1 DEF Waiters, Tidy, WaitsTidy
  <2>3. /\ OneEach(Tail(waitq[s]))
        /\ \A n : In(n, Tail(waitq[s])) => n.task # t
    BY <1>3, <2>1, TailOneEach DEF Tidy, WaitsTidy
  <2>4. \A n : In(n, Tail(waitq[s])) => In(n, waitq[s])
    BY <1>3, <2>1, TailMembers
  <2>5. waitq'[s] = Tail(waitq[s]) /\ \A u \in Sems : u # s => waitq'[u] = waitq[u]
    BY <1>1, <1>3
  <2>6. \A u \in Tasks : st[u] = IF u = t THEN "READY" ELSE state[u]
    BY DEF IInv, KernelOK
  <2>7. WakeUp(t) /\ st = [state EXCEPT ![t] = "READY"]
    BY <1>3
  <2> HIDE DEF t, st
  <2>8. AlarmsTidy(alarms', st, pc')
    <3>1. \A n \in Alarms : n.task \in Tasks
      BY DEF Alarms
    <3>2. \A n \in Alarms : In(n, alarms) => n.task # t
      BY <2>2 DEF Tidy, AlarmsTidy
    <3>. QED
      BY <1>1, <2>6, <3>1, <3>2 DEF Tidy, AlarmsTidy
  <2>9. WaitsTidy(waitq', st, pc')
    <3>1. ASSUME NEW u \in Sems, NEW n \in Waiters, In(n, waitq'[u])
          PROVE  n.task \in Tasks /\ n.task # t /\ In(n, waitq[u])
      <4>1. CASE u = s
        BY <2>3, <2>4, <2>5, <3>1, <4>1 DEF Waiters
      <4>2. CASE u # s
        <5>1. In(n, waitq[u])
          BY <2>5, <3>1, <4>2
        <5>2. pc[n.task] = [at |-> "block", sem |-> u]
          BY <5>1 DEF Tidy, WaitsTidy
        <5>. QED
          BY <2>2, <4>2, <5>1, <5>2 DEF Waiters
      <4>. QED
        BY <4>1, <4>2
    <3>2. \A u \in Sems : OneEach(waitq'[u])
      <4>1. \A u \in Sems : OneEach(waitq[u])
        BY DEF Tidy, WaitsTidy
      <4>2. OneEach(waitq'[s])
        BY <2>3, <2>5
      <4>. QED
        BY <2>5, <4>1, <4>2
    <3>. QED
      BY <1>1, <2>6, <3>1, <3>2 DEF Tidy, WaitsTidy
  <2>10. \A u \in Tasks : pc'[u].at # "timed"
    BY <1>1 DEF Tidy
  <2>. QED
    BY <1>1, <2>2, <2>7, <2>8, <2>9, <2>10, WakeUpTidy
<1>. QED
  BY <1>2, <1>3 DEF Release

\* The second loop of eos_trigger_counter, over the alarms of waiting tasks, in
\* its first pass and when it is resumed.
LEMMA TriggerLoopTidy ==
  ASSUME IInv, Kept, Tidy, cur \in Tasks, NEW q \in Seq(Alarms), TriggerLoop(q),
         UNCHANGED waitq, AlarmsTidy(q, state, pc), pc[cur].at \in {"user", "tick"}
  PROVE  Tidy'
<1>1. /\ state[cur] = "RUNNING"
      /\ \A n \in Alarms : In(n, q) => n.task # cur
      /\ \A s \in Sems, n \in Waiters : In(n, waitq[s]) => n.task # cur
  <2>1. cur # NoTask
    BY TaskAssumption
  <2>. QED
    BY <2>1, NothingLeft DEF AlarmsTidy, Tidy
<1>2. PICK context \in {UserContext, TickContext} :
        \A t \in Tasks : pc'[t] = IF t = cur THEN context ELSE pc[t]
  BY DEF TriggerLoop, Continue, IInv, RestOK
<1>3. \A t \in Tasks : pc'[t].at # "timed"
  BY <1>2 DEF UserContext, TickContext, Tidy
<1>4. WaitsTidy(waitq', state, pc')
  <2>1. \A n \in Waiters : n.task \in Tasks
    BY DEF Waiters
  <2>. QED
    BY <1>1, <1>2, <2>1 DEF Tidy, WaitsTidy
<1>5. AlarmsTidy(q, state, pc')
  <2>1. \A n \in Alarms : n.task \in Tasks
    BY DEF Alarms
  <2>. QED
    BY <1>1, <1>2, <2>1 DEF AlarmsTidy
<1>6. CASE alarms' = q /\ UNCHANGED kernel
  <2>1. AlarmsTidy(alarms, state, pc)' /\ WaitsTidy(waitq, state, pc)'
    BY <1>4, <1>5, <1>6 DEF kernel, AlarmsTidy, WaitsTidy
  <2>2. ReadyOnly(readyq, state)' /\ UNCHANGED <<cur, state>>
    BY <1>6 DEF kernel, Tidy, ReadyOnly
  <2>. QED
    BY <1>1, <1>3, <2>1, <2>2 DEF Tidy
<1>7. CASE Expired(q) /\ alarms' = Tail(q) /\ WakeUp(Head(q).task)
  <2> DEFINE t == Head(q).task
             st == [state EXCEPT ![t] = "READY"]
  <2>1. Head(q) \in Alarms /\ q # <<>> /\ In(Head(q), q)
    BY <1>7, HeadTailProperties, EmptySeq DEF Expired, In
  <2>2. t \in Tasks /\ state[t] = "WAITING" /\ pc[t].at = "user"
    <3>1. t # cur /\ t \in Tasks
      BY <1>1, <2>1 DEF Alarms
    <3>2. state[t] = "WAITING" /\ pc'[t].at = "user"
      BY <1>5, <2>1 DEF AlarmsTidy
    <3>. QED
      BY <1>2, <3>1, <3>2
  <2>3. OneEach(Tail(q)) /\ \A n : In(n, Tail(q)) => n.task # t
    BY <2>1, TailOneEach DEF AlarmsTidy
  <2>4. \A n : In(n, Tail(q)) => In(n, q)
    BY <2>1, TailMembers
  <2>5. \A u \in Tasks : st[u] = IF u = t THEN "READY" ELSE state[u]
    BY DEF IInv, KernelOK
  <2>6. WakeUp(t) /\ st = [state EXCEPT ![t] = "READY"]
    BY <1>7
  <2> HIDE DEF t, st
  <2>7. AlarmsTidy(alarms', st, pc')
    <3>1. \A n \in Alarms : n.task \in Tasks
      BY DEF Alarms
    <3>. QED
      BY <1>5, <1>7, <2>3, <2>4, <2>5, <3>1 DEF AlarmsTidy
  <2>8. WaitsTidy(waitq', st, pc')
    <3>1. ASSUME NEW s \in Sems, NEW n \in Waiters, In(n, waitq[s])
          PROVE  n.task \in Tasks /\ pc[n.task].at = "block"
      <4>1. pc[n.task] = [at |-> "block", sem |-> s]
        BY <3>1 DEF Tidy, WaitsTidy
      <4>2. n.task \in Tasks
        BY DEF Waiters
      <4>. QED
        BY <4>1, <4>2
    <3>2. \A s \in Sems, n \in Waiters : In(n, waitq[s]) => n.task \in Tasks /\ n.task # t
      BY <2>2, <3>1
    <3>. QED
      BY <1>4, <2>5, <3>2 DEF WaitsTidy
  <2>. QED
    BY <1>3, <2>2, <2>6, <2>7, <2>8, WakeUpTidy
<1>. QED
  BY <1>6, <1>7 DEF TriggerLoop

LEMMA TidyStep ==
  ASSUME SleepsFit, SleepsEnd, IInv, Kept, Tidy, UntimedNext \/ UNCHANGED vars
  PROVE  Tidy'
<1>1. CASE UNCHANGED <<kernel, alarms, waitq, pc>>
  BY <1>1, CalmTidy
<1>2. ASSUME NEW t \in Tasks, CreateTask(t)
      PROVE  Tidy'
  <2>1. Consistent(readyq, bm) /\ state \in [Tasks -> States] /\ state[t] = "NEW"
    BY <1>2 DEF IInv, KernelOK, CreateTask
  <2>2. /\ readyq' = PushReady(readyq, t) /\ state' = [state EXCEPT ![t] = "READY"]
        /\ UNCHANGED <<cur, alarms, waitq, pc>> /\ cur = NoTask
    BY <1>2 DEF CreateTask
  <2>3. ReadyOnly(readyq', state')
    BY <2>1, <2>2, PushPlaces DEF Tidy
  <2>4. \A u \in Tasks : state'[u] = IF u = t THEN "READY" ELSE state[u]
    BY <2>1, <2>2
  <2>5. ReadyOnly(readyq, state)'
    BY <2>3 DEF ReadyOnly
  <2>6. AlarmsTidy(alarms, state, pc)'
    <3>1. \A n \in Alarms : n.task \in Tasks
      BY DEF Alarms
    <3>. QED
      BY <2>1, <2>2, <2>4, <3>1 DEF Tidy, AlarmsTidy
  <2>7. WaitsTidy(waitq, state, pc)'
    <3>1. \A n \in Waiters : n.task \in Tasks
      BY DEF Waiters
    <3>. QED
      BY <2>1, <2>2, <2>4, <3>1 DEF Tidy, WaitsTidy
  <2>. QED
    BY <2>2, <2>5, <2>6, <2>7 DEF Tidy
<1>3. ASSUME Schedule(readyq, bm, state), \A t \in Tasks : state[t] # "NEW",
             UNCHANGED <<alarms, waitq, pc>>
      PROVE  Tidy'
  <2>1. Switched(readyq, state)
    BY <1>3, TaskAssumption, SchedulePlaces DEF IInv, KernelOK, Kept
  <2>2. ReadyOnly(readyq, state) /\ \A t \in Tasks : pc'[t].at # "timed"
    BY <1>3 DEF Tidy
  <2>3. AlarmsTidy(alarms', state, pc') /\ WaitsTidy(waitq', state, pc')
    BY <1>3 DEF Tidy
  <2>. QED
    BY <2>1, <2>2, <2>3, SwitchTidy
<1>4. CASE Boot
  BY <1>2, <1>3, <1>4 DEF Boot, StartMultitasking
<1>5. CASE Yield
  BY <1>3, <1>5, TaskAssumption DEF Yield, CanCall, InUserCode, Kept
<1>6. ASSUME Tick PROVE Tidy'
  <2>1. cur \in Tasks /\ alarms \in Seq(Alarms) /\ UNCHANGED waitq /\ pc[cur].at = "user"
    BY <1>6, Running DEF Tick, InUserCode, IInv, RestOK
  <2>2. CASE TriggerLoop(CountDown(alarms))
    <3>1. CountDown(alarms) \in Seq(Alarms)
      BY <2>1, CountDownType
    <3>2. AlarmsTidy(CountDown(alarms), state, pc)
      <4>1. OneEach(alarms)
        BY DEF Tidy, AlarmsTidy
      <4>2. /\ OneEach(CountDown(alarms))
            /\ \A m \in Alarms : In(m, CountDown(alarms)) =>
                 \E n \in Alarms : n.task = m.task /\ In(n, alarms)
        BY <2>1, <4>1, CountDownOneEach
      <4>. QED
        BY <4>2 DEF Tidy, AlarmsTidy
    <3>. QED
      BY <2>1, <2>2, <3>1, <3>2, TriggerLoopTidy
  <2>3. CASE UNCHANGED <<kernel, alarms, pc>>
    BY <1>1, <2>1, <2>3
  <2>. QED
    BY <1>6, <2>2, <2>3 DEF Tick
<1>7. ASSUME TickResume PROVE Tidy'
  <2>1. cur \in Tasks /\ alarms \in Seq(Alarms) /\ UNCHANGED waitq /\ pc[cur].at = "tick"
        /\ TriggerLoop(alarms)
    BY <1>7, Running DEF TickResume, Resumed, IInv, RestOK
  <2>2. AlarmsTidy(alarms, state, pc)
    BY DEF Tidy
  <2>. QED
    BY <2>1, <2>2, TriggerLoopTidy
<1>8. ASSUME NEW s \in Sems, NEW timeout \in Timeouts, AcquireTimed(s, timeout),
             \A t \in Tasks : pc'[t].at # "timed"
      PROVE  FALSE
  <2>1. cur \in Tasks
    BY <1>8, Caller DEF AcquireTimed
  <2>2. pc'[cur] = [at |-> "timed", sem |-> s]
    BY <1>8, <2>1 DEF AcquireTimed, SleepFor, Continue, IInv, RestOK
  <2>. QED
    BY <1>8, <2>1, <2>2
<1>9. CASE Call /\ \A t \in Tasks : pc'[t].at # "timed"
  BY <1>1, <1>5, <1>8, <1>9, SleepTidy, AcquireBlockTidy, ReleaseTidy DEF Call, AcquireAtOnce
<1>10. CASE Resume
  <2>1. CASE AcquireTimedResume
    <3>1. cur \in Tasks /\ pc[cur].at = "timed"
      BY <2>1, Running DEF AcquireTimedResume, Resumed
    <3>. QED
      BY <3>1 DEF Tidy
  <2>2. CASE AcquireBlockTake
    <3>1. /\ cur \in Tasks /\ Continue(UserContext)
          /\ UNCHANGED <<kernel, alarms, waitq>>
      BY <2>2, Running DEF AcquireBlockTake, Resumed
    <3>2. UserContext.at # "timed"
      BY DEF UserContext
    <3>. QED
      BY <3>1, <3>2, ContinueTidy
  <2>3. CASE AcquireBlockRetry
    <3>1. UNCHANGED <<kernel, alarms, waitq, pc>>
      BY <2>3 DEF AcquireBlockRetry
    <3>. QED
      BY <1>1, <3>1
  <2>. QED
    BY <1>7, <1>10, <2>1, <2>2, <2>3 DEF Resume
<1>11. CASE UNCHANGED vars
  BY <1>1, <1>11 DEF vars, kernel
<1>. QED
  BY <1>4, <1>6, <1>9, <1>10, <1>11 DEF UntimedNext, Next

-----------------------------------------------------------------------------
(* A task is in one place *)

LEMMA PlacesMembers ==
  ASSUME NEW t, NEW x
  PROVE  x \in Places(t) <=>
           \/ x = <<"processor">> /\ cur = t
           \/ \E i \in DOMAIN readyq[Prio[t]] : readyq[Prio[t]][i] = t /\ x = <<"ready", i>>
           \/ \E i \in DOMAIN alarms : alarms[i].task = t /\ x = <<"alarm", i>>
           \/ \E s \in Sems : \E i \in DOMAIN waitq[s] :
                waitq[s][i].task = t /\ x = <<"wait", s, i>>
<1> DEFINE run == {<<"processor">> : u \in {cur} \cap {t}}
           ready == {<<"ready", i>> : i \in {j \in DOMAIN readyq[Prio[t]] : readyq[Prio[t]][j] = t}}
           alarm == {<<"alarm", i>> : i \in {j \in DOMAIN alarms : alarms[j].task = t}}
           node(s) == {<<"wait", s, i>> : i \in {j \in DOMAIN waitq[s] : waitq[s][j].task = t}}
<1>1. x \in run <=> x = <<"processor">> /\ cur = t
  BY Zenon
<1>2. x \in ready <=> \E i \in DOMAIN readyq[Prio[t]] : readyq[Prio[t]][i] = t /\ x = <<"ready", i>>
  BY Zenon
<1>3. x \in alarm <=> \E i \in DOMAIN alarms : alarms[i].task = t /\ x = <<"alarm", i>>
  BY Zenon
<1>4. \A s \in Sems : x \in node(s) <=>
        \E i \in DOMAIN waitq[s] : waitq[s][i].task = t /\ x = <<"wait", s, i>>
  BY Zenon
<1>5. Places(t) = run \cup ready \cup alarm \cup UNION {node(s) : s \in Sems}
  BY Zenon DEF Places
<1> HIDE DEF run, ready, alarm, node
<1>6. x \in UNION {node(s) : s \in Sems} <=> \E s \in Sems : x \in node(s)
  BY Zenon
<1>. QED
  BY <1>1, <1>2, <1>3, <1>4, <1>5, <1>6

LEMMA JustOne ==
  ASSUME NEW S, NEW e, \A x : x \in S <=> x = e
  PROVE  \E x : S = {x}
<1>1. S = {e}
  OBVIOUS
<1>. QED
  BY <1>1

LEMMA OnePlaceHolds ==
  ASSUME IInv, Kept, Tidy
  PROVE  OnePlace
<1>1. SUFFICES ASSUME cur # NoTask, NEW t \in Tasks
               PROVE  \E x : Places(t) = {x}
  <2>1. \A x : Cardinality({x}) = 1
    BY FS_Singleton
  <2>. QED
    BY <1>1, <2>1 DEF OnePlace, Booted
<1>2. /\ DOMAIN alarms = 1..Len(alarms)
      /\ readyq[Prio[t]] \in Seq(Tasks) /\ DOMAIN readyq[Prio[t]] = 1..Len(readyq[Prio[t]])
      /\ \A s \in Sems : DOMAIN waitq[s] = 1..Len(waitq[s])
  <2>1. alarms \in Seq(Alarms) /\ \A s \in Sems : waitq[s] \in Seq(Waiters)
    BY DEF IInv, RestOK
  <2>2. readyq[Prio[t]] \in Seq(Tasks)
    BY PrioType DEF IInv, KernelOK, Consistent
  <2>. QED
    BY <2>1, <2>2, LenProperties
<1>3. /\ cur = t <=> state[t] = "RUNNING"
      /\ Distinct(readyq[Prio[t]])
      /\ \A i \in DOMAIN readyq[Prio[t]] : readyq[Prio[t]][i] = t => state[t] = "READY"
  BY <1>1, <1>2, PrioType DEF Kept, Tidy, ReadyOnly
<1>4. /\ OneEach(alarms)
      /\ \A i \in DOMAIN alarms : alarms[i].task = t => state[t] = "WAITING" /\ pc[t].at = "user"
  <2>1. \A i \in DOMAIN alarms : alarms[i] \in Alarms /\ In(alarms[i], alarms)
    BY <1>2, ElementOfSeq DEF In, IInv, RestOK
  <2>. QED
    BY <2>1 DEF Tidy, AlarmsTidy
<1>5. \A s \in Sems :
        /\ OneEach(waitq[s])
        /\ \A i \in DOMAIN waitq[s] : waitq[s][i].task = t =>
             state[t] = "WAITING" /\ pc[t] = [at |-> "block", sem |-> s]
  <2>1. ASSUME NEW s \in Sems, NEW i \in DOMAIN waitq[s]
        PROVE  waitq[s][i] \in Waiters /\ In(waitq[s][i], waitq[s])
    BY <1>2, ElementOfSeq DEF In, IInv, RestOK
  <2>. QED
    BY <2>1 DEF Tidy, WaitsTidy
<1>6. CASE state[t] = "RUNNING"
  <2>1. PICK place : place = <<"processor">>
    OBVIOUS
  <2>2. \A x : x \in Places(t) <=> x = place
    BY <1>3, <1>4, <1>5, <1>6, <2>1, PlacesMembers
  <2>. QED
    BY <2>2, JustOne
<1>7. CASE state[t] = "READY"
  <2>1. PICK i \in DOMAIN readyq[Prio[t]] : readyq[Prio[t]][i] = t
    BY <1>2, <1>7 DEF Kept, Placed, In
  <2>2. \A j \in DOMAIN readyq[Prio[t]] : readyq[Prio[t]][j] = t => j = i
    BY <1>2, <1>3, <2>1 DEF Distinct
  <2>3. PICK place : place = <<"ready", i>>
    OBVIOUS
  <2>4. \A x : x \in Places(t) <=> x = place
    BY <1>3, <1>4, <1>5, <1>7, <2>1, <2>2, <2>3, PlacesMembers
  <2>. QED
    BY <2>4, JustOne
<1>8. CASE state[t] = "WAITING"
  <2>1. Waits(alarms, waitq, t)
    BY <1>8 DEF Kept
  <2>2. CASE \E i \in DOMAIN alarms : alarms[i].task = t
    <3>1. PICK i \in DOMAIN alarms : alarms[i].task = t
      BY <2>2
    <3>2. \A j \in DOMAIN alarms : alarms[j].task = t => j = i
      BY <1>2, <1>4, <3>1 DEF OneEach
    <3>3. \A s \in Sems : \A j \in DOMAIN waitq[s] : waitq[s][j].task # t
      <4>1. \A s \in Sems : \A j \in DOMAIN waitq[s] :
              waitq[s][j].task = t => pc[t].at = "block"
        <5>1. \A s \in Sems : [at |-> "block", sem |-> s].at = "block"
          OBVIOUS
        <5>. QED
          BY <1>5, <5>1
      <4>. QED
        BY <1>4, <3>1, <4>1
    <3>4. PICK place : place = <<"alarm", i>>
      OBVIOUS
    <3>5. \A x : x \in Places(t) <=> x = place
      BY <1>3, <1>8, <3>1, <3>2, <3>3, <3>4, PlacesMembers
    <3>. QED
      BY <3>5, JustOne
  <2>3. CASE \A i \in DOMAIN alarms : alarms[i].task # t
    <3>1. PICK s \in Sems, n \in Waiters : n.task = t /\ In(n, waitq[s])
      <4>1. ~\E n \in Alarms : n.task = t /\ In(n, alarms)
        BY <1>2, <2>3 DEF In
      <4>. QED
        BY <2>1, <4>1 DEF Waits
    <3>2. PICK i \in DOMAIN waitq[s] : waitq[s][i].task = t
      BY <1>2, <3>1 DEF In
    <3>3. \A j \in DOMAIN waitq[s] : waitq[s][j].task = t => j = i
      <4>1. OneEach(waitq[s]) /\ DOMAIN waitq[s] = 1..Len(waitq[s])
        BY <1>2, <1>5, <3>1
      <4>2. i \in 1..Len(waitq[s])
        BY <3>2, <4>1
      <4>. QED
        BY <3>2, <4>1, <4>2 DEF OneEach
    <3>4. ASSUME NEW u \in Sems, NEW j \in DOMAIN waitq[u], waitq[u][j].task = t
          PROVE  u = s
      <4>1. pc[t] = [at |-> "block", sem |-> s] /\ pc[t] = [at |-> "block", sem |-> u]
        BY <1>5, <3>2, <3>4
      <4>. QED
        BY <4>1
    <3>5. PICK place : place = <<"wait", s, i>>
      OBVIOUS
    <3>6. \A x : x \in Places(t) <=> x = place
      BY <1>3, <1>8, <2>3, <3>2, <3>3, <3>4, <3>5, PlacesMembers
    <3>. QED
      BY <3>6, JustOne
  <2>. QED
    BY <2>2, <2>3
<1>. QED
  <2>1. state[t] \in {"READY", "RUNNING", "WAITING"}
    BY <1>1 DEF IInv, KernelOK, States, Kept
  <2>. QED
    BY <1>6, <1>7, <1>8, <2>1

-----------------------------------------------------------------------------
(* No wake-up is lost *)

\* Counting woken tasks: all of S, all of it and one more, or all but one.
LEMMA CountedWoken ==
  ASSUME NEW S, NEW T, IsFiniteSet(S), IsFiniteSet(T), NEW k \in Nat, k <= Cardinality(S)
  PROVE  /\ S \subseteq T => k <= Cardinality(T)
         /\ \A x : x \notin S /\ S \cup {x} \subseteq T => k + 1 <= Cardinality(T)
         /\ \A x : S \ {x} \subseteq T => k - 1 <= Cardinality(T)
<1>1. Cardinality(S) \in Nat /\ Cardinality(T) \in Nat
  BY FS_CardinalityType
<1>2. \A U \in SUBSET T : Cardinality(U) <= Cardinality(T)
  BY FS_Subset
<1>3. ASSUME NEW x, x \notin S, S \cup {x} \subseteq T
      PROVE  k + 1 <= Cardinality(T)
  <2>1. Cardinality(S \cup {x}) = Cardinality(S) + 1
    BY <1>3, FS_AddElement
  <2>. QED
    BY <1>1, <1>2, <1>3, <2>1
<1>4. ASSUME NEW x, S \ {x} \subseteq T
      PROVE  k - 1 <= Cardinality(T)
  <2>1. Cardinality(S \ {x}) \in {Cardinality(S), Cardinality(S) - 1}
    BY FS_RemoveElement
  <2>. QED
    BY <1>1, <1>2, <1>4, <2>1
<1>. QED
  BY <1>1, <1>2, <1>3, <1>4

\* The tasks that are woken when the wait queues are wq and the contexts are at.
BlockedOn(wq, t, s) == \E i \in DOMAIN wq[s] : wq[s][i].task = t /\ wq[s][i].by = "block"
WokenOf(at, wq, s) == {t \in Tasks : at[t] = [at |-> "block", sem |-> s] /\ ~BlockedOn(wq, t, s)}

LEMMA WokenTasks ==
  /\ \A s : Woken(s) = WokenOf(pc, waitq, s)
  /\ \A s : Woken(s)' = WokenOf(pc', waitq', s)
  BY DEF Woken, WokenOf, WaitsOn, BlockedOn

\* A step that takes no task out of a wait queue adds no token, and only a woken
\* task that takes a token counts as one less; a release adds a token and the
\* task it takes out.
LEMMA WokenCounted ==
  ASSUME IsFiniteSet(Tasks), NEW S \in SUBSET Tasks, NEW T \in SUBSET Tasks,
         NEW k \in Nat, NEW m \in Nat, k <= Cardinality(S),
         \/ m <= k /\ S \subseteq T
         \/ m = k + 1 /\ \E t \in Tasks : t \notin S /\ S \cup {t} \subseteq T
         \/ m = k - 1 /\ \E t \in Tasks : S \ {t} \subseteq T
  PROVE  m <= Cardinality(T)
<1>1. IsFiniteSet(S) /\ IsFiniteSet(T)
  BY FS_Subset
<1>2. /\ S \subseteq T => k <= Cardinality(T)
      /\ \A x : x \notin S /\ S \cup {x} \subseteq T => k + 1 <= Cardinality(T)
      /\ \A x : S \ {x} \subseteq T => k - 1 <= Cardinality(T)
  BY <1>1, CountedWoken
<1>3. Cardinality(T) \in Nat
  BY <1>1, FS_CardinalityType
<1>. QED
  BY <1>2, <1>3

LEMMA WakeUpsStep ==
  ASSUME IsFiniteSet(Tasks), IInv, Tidy, IInv', NoLostWakeUp,
         UntimedNext \/ UNCHANGED vars
  PROVE  NoLostWakeUp'
<1>0. \A s \in Sems : /\ WokenOf(pc, waitq, s) \in SUBSET Tasks
                     /\ WokenOf(pc', waitq', s) \in SUBSET Tasks
  BY DEF WokenOf
<1>1. \A s \in Sems : count[s] \in Nat /\ count'[s] \in Nat
  BY DEF IInv, RestOK
<1>bound. \A s \in Sems : waitq[s] # <<>> => count[s] <= Cardinality(WokenOf(pc, waitq, s))
  BY WokenTasks DEF NoLostWakeUp
<1> DEFINE Goal == \A s \in Sems :
             waitq'[s] # <<>> => count'[s] <= Cardinality(WokenOf(pc', waitq', s))
<1>2. ASSUME UNCHANGED waitq, \A s \in Sems : count'[s] <= count[s],
             \A t \in Tasks : pc[t].at = "block" => pc'[t] = pc[t]
      PROVE  Goal
  <2>1. ASSUME NEW s \in Sems, waitq'[s] # <<>>
        PROVE  count'[s] <= Cardinality(WokenOf(pc', waitq', s))
    <3>1. WokenOf(pc, waitq, s) \subseteq WokenOf(pc', waitq', s)
      BY <1>2 DEF WokenOf
    <3>. QED
      BY <1>0, <1>1, <1>bound, <1>2, <2>1, <3>1, WokenCounted
  <2>. QED
    BY <2>1
<1>calm. ASSUME UNCHANGED <<count, waitq>>,
                \A t \in Tasks : pc[t].at = "block" => pc'[t] = pc[t]
         PROVE  Goal
  <2>1. \A s \in Sems : count'[s] <= count[s]
    BY <1>1, <1>calm
  <2>. QED
    BY <1>2, <1>calm, <2>1
<1>still. ASSUME UNCHANGED <<count, waitq, pc>> PROVE Goal
  BY <1>calm, <1>still
<1>. SUFFICES Goal
  BY WokenTasks DEF NoLostWakeUp
<1> HIDE DEF Goal
<1>3. ASSUME NEW context, cur \in Tasks, Continue(context), pc[cur].at # "block"
      PROVE  \A t \in Tasks : pc[t].at = "block" => pc'[t] = pc[t]
  BY <1>3 DEF Continue, IInv, RestOK
<1>4. CASE Boot
  BY <1>still, <1>4 DEF Boot, CreateTask, StartMultitasking
<1>5. CASE Yield
  BY <1>still, <1>5 DEF Yield
<1>6. ASSUME NEW tick \in SleepTicks, Sleep(tick)
      PROVE  Goal
  <2>1. cur \in Tasks /\ pc[cur].at = "user" /\ Continue(UserContext) /\ UNCHANGED <<count, waitq>>
    BY <1>6, Caller DEF Sleep, SleepFor, CanCall, InUserCode
  <2>. QED
    BY <1>3, <1>calm, <2>1
<1>7. ASSUME NEW s \in Sems, AcquireAtOnce(s)
      PROVE  Goal
  <2>1. \A u \in Sems : count'[u] <= count[u]
    BY <1>1, <1>7 DEF AcquireAtOnce, TakeToken, IInv, RestOK
  <2>. QED
    BY <1>2, <1>7, <2>1 DEF AcquireAtOnce
<1>8. ASSUME NEW s \in Sems, NEW timeout \in Timeouts, AcquireBlock(s, timeout)
      PROVE  Goal
  <2>1. cur \in Tasks /\ pc[cur].at = "user" /\ Continue([at |-> "block", sem |-> s])
        /\ count[s] = 0 /\ UNCHANGED count /\ Enqueue(s, "block")
    BY <1>8, Caller DEF AcquireBlock, CanCall, InUserCode
  <2>2. \A t \in Tasks : pc[t].at = "block" => pc'[t] = pc[t]
    BY <1>3, <2>1
  <2>3. \A u \in Sems : u # s => waitq'[u] = waitq[u]
    BY <2>1 DEF Enqueue, IInv, RestOK
  <2>4. ASSUME NEW u \in Sems, waitq'[u] # <<>>
        PROVE  count'[u] <= Cardinality(WokenOf(pc', waitq', u))
    <3>1. CASE u = s
      <4>1. PICK after : after = WokenOf(pc', waitq', s)
        OBVIOUS
      <4>2. after \subseteq Tasks
        BY <4>1 DEF WokenOf
      <4>3. Cardinality(after) \in Nat
        BY <4>2, FS_Subset, FS_CardinalityType
      <4>. QED
        BY <2>1, <3>1, <4>1, <4>3
    <3>2. CASE u # s
      <4>1. waitq'[u] = waitq[u]
        BY <2>3, <3>2
      <4>2. WokenOf(pc, waitq, u) \subseteq WokenOf(pc', waitq', u)
        BY <2>2, <4>1 DEF WokenOf, BlockedOn
      <4>. QED
        BY <1>0, <1>1, <1>bound, <2>1, <2>4, <4>1, <4>2, WokenCounted
    <3>. QED
      BY <3>1, <3>2
  <2>. QED
    BY <2>4 DEF Goal
<1>9. ASSUME NEW s \in Sems, Release(s)
      PROVE  Goal
  <2>1. UNCHANGED pc /\ waitq \in [Sems -> Seq(Waiters)]
        /\ count'[s] = count[s] + 1 /\ \A u \in Sems : u # s => count'[u] = count[u]
    BY <1>9 DEF Release, IInv, RestOK
  <2>2. ASSUME NEW u \in Sems, u # s, waitq'[u] = waitq[u], waitq'[u] # <<>>
        PROVE  count'[u] <= Cardinality(WokenOf(pc', waitq', u))
    <3>1. WokenOf(pc, waitq, u) \subseteq WokenOf(pc', waitq', u)
      BY <2>1, <2>2 DEF WokenOf, BlockedOn
    <3>2. count'[u] <= count[u] /\ waitq[u] # <<>>
      BY <1>1, <2>1, <2>2
    <3>. QED
      BY <1>0, <1>1, <1>bound, <3>1, <3>2, WokenCounted
  <2>3. CASE waitq[s] = <<>> /\ UNCHANGED waitq
    BY <2>2, <2>3 DEF Goal
  <2>4. CASE waitq[s] # <<>> /\ waitq' = [waitq EXCEPT ![s] = Tail(@)]
    <3>1. waitq'[s] = Tail(waitq[s]) /\ \A u \in Sems : u # s => waitq'[u] = waitq[u]
      BY <2>1, <2>4
    <3> DEFINE t == Head(waitq[s]).task
    <3>2. Head(waitq[s]) \in Waiters /\ waitq[s] \in Seq(Waiters) /\ In(Head(waitq[s]), waitq[s])
      BY <2>1, <2>4, HeadTailProperties, EmptySeq DEF In
    <3>3. t \in Tasks /\ pc[t] = [at |-> "block", sem |-> s] /\ Head(waitq[s]).by = "block"
      BY <3>2 DEF Waiters, Tidy, WaitsTidy
    <3>4. OneEach(waitq[s]) /\ Tail(waitq[s]) \in Seq(Waiters)
      BY <2>4, <3>2, HeadTailProperties DEF Tidy, WaitsTidy
    <3>5. \A n : In(n, Tail(waitq[s])) => n.task # t /\ In(n, waitq[s])
      BY <2>4, <3>2, <3>4, TailOneEach, TailMembers
    <3>6. /\ DOMAIN waitq[s] = 1..Len(waitq[s])
          /\ DOMAIN Tail(waitq[s]) = 1..Len(Tail(waitq[s]))
      BY <3>2, <3>4, LenProperties
    <3> HIDE DEF t
    <3>7. t \notin WokenOf(pc, waitq, s)
      <4>1. BlockedOn(waitq, t, s)
        BY <3>2, <3>3, <3>6 DEF In, BlockedOn, t
      <4>. QED
        BY <4>1 DEF WokenOf
    <3>8. t \in WokenOf(pc', waitq', s)
      <4>1. ~BlockedOn(waitq', t, s)
        BY <3>1, <3>5, <3>6 DEF In, BlockedOn
      <4>. QED
        BY <2>1, <3>3, <4>1 DEF WokenOf
    <3>9. WokenOf(pc, waitq, s) \subseteq WokenOf(pc', waitq', s)
      <4>1. \A u \in Tasks : BlockedOn(waitq', u, s) => BlockedOn(waitq, u, s)
        BY <3>1, <3>5, <3>6 DEF In, BlockedOn
      <4>. QED
        BY <2>1, <4>1 DEF WokenOf
    <3>12. \E x \in Tasks : /\ x \notin WokenOf(pc, waitq, s)
                            /\ WokenOf(pc, waitq, s) \cup {x} \subseteq WokenOf(pc', waitq', s)
      BY <3>3, <3>7, <3>8, <3>9
    <3>10. count'[s] <= Cardinality(WokenOf(pc', waitq', s))
      BY <1>0, <1>1, <1>bound, <2>1, <2>4, <3>12, WokenCounted
    <3>. QED
      BY <2>2, <3>1, <3>10 DEF Goal
  <2>. QED
    BY <1>9, <2>3, <2>4 DEF Release
<1>10. CASE AcquireBlockTake
  <2>1. /\ cur \in Tasks /\ pc[cur].at = "block" /\ TakeToken(pc[cur].sem)
        /\ Continue(UserContext) /\ UNCHANGED waitq
    BY <1>10, Running DEF AcquireBlockTake, Resumed
  <2>2. PICK s \in Sems : s = pc[cur].sem
    BY <2>1, WaitContext DEF IInv, RestOK
  <2>3. pc[cur] = [at |-> "block", sem |-> s]
    BY <2>1, <2>2, ContextTypes DEF IInv, RestOK, Contexts
  <2>4. count'[s] = count[s] - 1 /\ \A u \in Sems : u # s => count'[u] = count[u]
    BY <2>1, <2>2 DEF TakeToken, IInv, RestOK
  <2>5. \A t \in Tasks : t # cur => pc'[t] = pc[t]
    BY <2>1 DEF Continue, IInv, RestOK
  <2>6. ASSUME NEW u \in Sems, waitq'[u] # <<>>
        PROVE  count'[u] <= Cardinality(WokenOf(pc', waitq', u))
    <3>1. CASE u = s
      <4>1. WokenOf(pc, waitq, s) \ {cur} \subseteq WokenOf(pc', waitq', s)
        BY <2>1, <2>5 DEF WokenOf
      <4>. QED
        BY <1>0, <1>1, <1>bound, <2>1, <2>4, <2>6, <3>1, <4>1, WokenCounted
    <3>2. CASE u # s
      <4>1. cur \notin WokenOf(pc, waitq, u)
        BY <2>3, <3>2 DEF WokenOf
      <4>2. WokenOf(pc, waitq, u) \subseteq WokenOf(pc', waitq', u)
        BY <2>1, <2>5, <4>1 DEF WokenOf
      <4>. QED
        BY <1>0, <1>1, <1>bound, <2>1, <2>4, <2>6, <3>2, <4>2, WokenCounted
    <3>. QED
      BY <3>1, <3>2
  <2>. QED
    BY <2>6 DEF Goal
<1>11. CASE AcquireTimedResume \/ AcquireBlockRetry
  <2>1. ~AcquireTimedResume
    BY Running DEF AcquireTimedResume, Resumed, Tidy
  <2>. QED
    BY <1>still, <1>11, <2>1 DEF AcquireBlockRetry
<1>12. CASE Tick \/ TickResume
  <2>1. cur \in Tasks /\ pc[cur].at # "block" /\ UNCHANGED <<count, waitq>>
    BY <1>12, Running DEF Tick, TickResume, InUserCode, Resumed
  <2>2. UNCHANGED pc \/ \E context : Continue(context)
    BY <1>12 DEF Tick, TickResume, TriggerLoop
  <2>3. ASSUME NEW context, Continue(context) PROVE Goal
    BY <1>3, <1>calm, <2>1, <2>3
  <2>4. UNCHANGED pc => Goal
    BY <1>still, <2>1
  <2>. QED
    BY <2>2, <2>3, <2>4
<1>13. ASSUME NEW s \in Sems, NEW timeout \in Timeouts, AcquireTimed(s, timeout),
              \A t \in Tasks : pc'[t].at # "timed"
       PROVE  FALSE
  <2>1. cur \in Tasks
    BY <1>13, Caller DEF AcquireTimed
  <2>2. pc'[cur] = [at |-> "timed", sem |-> s]
    BY <1>13, <2>1 DEF AcquireTimed, SleepFor, Continue, IInv, RestOK
  <2>. QED
    BY <1>13, <2>1, <2>2
<1>14. CASE Call /\ \A t \in Tasks : pc'[t].at # "timed"
  BY <1>5, <1>6, <1>7, <1>8, <1>9, <1>13, <1>14 DEF Call
<1>15. CASE UNCHANGED vars
  BY <1>still, <1>15 DEF vars
<1>. QED
  BY <1>4, <1>10, <1>11, <1>12, <1>14, <1>15 DEF UntimedNext, Next, Resume

-----------------------------------------------------------------------------
(* Applications: what the tasks of EosApp do to the message queues *)

Users == Tasks \ {Idle}
Busy  == {"copy", "advance", "release"}

Act(t) == Program[t][step[t]]
\* A task that waits in eos_acquire_semaphore has no token yet.
Position(t) == IF pc[t].at \in {"timed", "block"} THEN "away" ELSE stage[t]

Comm(t) == Act(t).op \in {"send", "receive"} /\ Act(t).q \in Queues
AwaitedBy(t)   == IF Act(t).op = "send" THEN PutSem[Act(t).q] ELSE GetSem[Act(t).q]
SignalledBy(t) == IF Act(t).op = "send" THEN GetSem[Act(t).q] ELSE PutSem[Act(t).q]

AppTypes ==
  /\ step \in [Tasks -> Nat]
  /\ \A t \in Users : step[t] \in 1..Len(Program[t])
  /\ stage \in [Tasks -> Busy \cup {"acquire"}]
  /\ \A t \in Users : stage[t] \in Busy => Comm(t)
  /\ \A t \in Tasks : pc[t].at \in {"timed", "block"} =>
       t \in Users /\ stage[t] = "copy" /\ pc[t].sem = AwaitedBy(t)

AppInv == IInv /\ AppTypes

\* A step changes at most what one task c is doing.
OthersStay(c) == \A t \in Users \ {c} : Act(t)' = Act(t) /\ Position(t)' = Position(t)

\* A step of the task c from one part of a send or receive to another
Moves(c) == c \in Users /\ OthersStay(c) /\ Comm(c)

\* The five kinds of steps: one that leaves every queue alone; one that gets a
\* token; copies the message; advances the index; and one that returns a token.
Rests ==
  /\ UNCHANGED <<count, front, rear, buffer, got>>
  /\ \A t \in Users : \/ Act(t)' = Act(t) /\ Position(t)' = Position(t)
                      \/ Position(t) \notin Busy /\ Position(t)' \notin Busy

Takes(c) ==
  /\ Moves(c) /\ Act(c)' = Act(c)
  /\ Position(c) \notin Busy /\ Position(c)' = "copy"
  /\ count[AwaitedBy(c)] > 0
  /\ count' = [count EXCEPT ![AwaitedBy(c)] = @ - 1]
  /\ UNCHANGED <<front, rear, buffer, got>>

WritesSlot(c) == /\ Act(c).op = "send" /\ UNCHANGED got
                /\ \E m \in Msgs : buffer' = [buffer EXCEPT ![Act(c).q][rear[Act(c).q]] = m]
ReadsSlot(c) == /\ Act(c).op = "receive" /\ UNCHANGED buffer
                /\ got' = [got EXCEPT ![c] = buffer[Act(c).q][front[Act(c).q]]]
Copies(c) ==
  /\ Moves(c) /\ Act(c)' = Act(c)
  /\ Position(c) = "copy" /\ Position(c)' = "advance"
  /\ WritesSlot(c)\/ ReadsSlot(c)
  /\ UNCHANGED <<count, front, rear>>

Advances(c) ==
  /\ Moves(c) /\ Act(c)' = Act(c)
  /\ Position(c) = "advance" /\ Position(c)' = "release"
  /\ \/ /\ Act(c).op = "send" /\ UNCHANGED front
        /\ rear' = [rear EXCEPT ![Act(c).q] = Advance(@, Act(c).q)]
     \/ /\ Act(c).op = "receive" /\ UNCHANGED rear
        /\ front' = [front EXCEPT ![Act(c).q] = Advance(@, Act(c).q)]
  /\ UNCHANGED <<count, buffer, got>>

Gives(c) ==
  /\ Moves(c)
  /\ Position(c) = "release" /\ Position(c)' \notin Busy
  /\ count' = [count EXCEPT ![SignalledBy(c)] = @ + 1]
  /\ UNCHANGED <<front, rear, buffer, got>>

LEMMA ActType ==
  ASSUME AppTypes, NEW t \in Users
  PROVE  /\ Len(Program[t]) \in Nat \ {0}
         /\ Act(t) \in Operations
         /\ Act(t).op \in {"send", "receive", "sleep"}
         /\ Act(t).op = "sleep" => Act(t).tick \in SleepTicks
         /\ Act(t).op # "sleep" => Act(t).timeout \in Timeouts /\ Comm(t)
<1>1. Program[t] \in Seq(Operations) /\ Program[t] # <<>>
  BY ProgramAssumption DEF Users
<1>2. Len(Program[t]) \in Nat \ {0} /\ Act(t) \in Operations
  BY <1>1, EmptySeq, LenProperties, ElementOfSeq DEF AppTypes, Act
<1>. QED
  BY <1>2 DEF Operations, Comm

LEMMA CommSems ==
  ASSUME NEW t \in Users, Comm(t)
  PROVE  AwaitedBy(t) \in Sems /\ SignalledBy(t) \in Sems
  BY QueueAssumption DEF Comm, AwaitedBy, SignalledBy

\* The steps of an application are steps of the kernel.
LEMMA AppIsKernel ==
  ASSUME AppInv, [AppNext]_appVars
  PROVE  [Next]_vars
<1>1. ASSUME CanCall
      PROVE  cur \in Users /\ Op = Act(cur)
  BY <1>1, Caller DEF AppInv, Users, Op, Act
<1>2. CASE AppSleep
  <2>1. Op.tick \in SleepTicks /\ Sleep(Op.tick)
    BY <1>1, <1>2, ActType DEF AppSleep, AppInv
  <2>. QED
    BY <2>1 DEF Next, Call
<1>3. CASE AppAcquire
  <2>1. cur \in Users /\ Op.timeout \in Timeouts /\ Awaited = AwaitedBy(cur) /\ Comm(cur)
    BY <1>1, <1>3, ActType DEF AppAcquire, At, AppInv, Awaited, AwaitedBy
  <2>2. Awaited \in Sems
    BY <2>1, CommSems
  <2>. QED
    BY <1>3, <2>1, <2>2 DEF AppAcquire, Next, Call
<1>4. CASE AppGiveUp \/ AppCopy \/ AppAdvance \/ UNCHANGED appVars
  BY <1>4 DEF AppGiveUp, AppCopy, AppAdvance, appVars
<1>5. CASE AppRelease
  <2>1. cur \in Users /\ Signalled = SignalledBy(cur) /\ Comm(cur)
    BY <1>1, <1>5, ActType DEF AppRelease, At, AppInv, Signalled, SignalledBy
  <2>2. Signalled \in Sems
    BY <2>1, CommSems
  <2>. QED
    BY <1>5, <2>2 DEF AppRelease, Next, Call
<1>6. CASE AppTimedResume \/ AcquireBlockTake \/ AcquireBlockRetry \/ TickResume \/ Boot \/ Tick
  BY <1>6 DEF AppTimedResume, Next, Resume
<1>. QED
  BY <1>2, <1>3, <1>4, <1>5, <1>6 DEF AppNext, Processor, Timer

-----------------------------------------------------------------------------
\* What only concerns the running task c
OnlyOne(c) == \A t \in Tasks \ {c} : /\ step'[t] = step[t] /\ stage'[t] = stage[t]
                                     /\ pc'[t] = pc[t]
AppTyped   == step' \in [Tasks -> Nat] /\ stage' \in [Tasks -> Busy \cup {"acquire"}]
OneTyped(c) == /\ c \in Users => step[c] \in 1..Len(Program[c]) /\ (stage[c] \in Busy => Comm(c))
               /\ pc[c].at \in {"timed", "block"} =>
                    c \in Users /\ stage[c] = "copy" /\ pc[c].sem = AwaitedBy(c)

LEMMA OthersTyped ==
  ASSUME AppTypes, NEW c, OnlyOne(c), AppTyped, OneTyped(c)'
  PROVE  AppTypes' /\ OthersStay(c)
<1>1. \A t \in Tasks \ {c} : /\ Act(t)' = Act(t) /\ Position(t)' = Position(t)
                             /\ Comm(t)' = Comm(t) /\ AwaitedBy(t)' = AwaitedBy(t)
  BY DEF OnlyOne, Act, Position, Comm, AwaitedBy
<1>2. \A t \in Tasks \ {c} : OneTyped(t)'
  BY <1>1 DEF OnlyOne, AppTypes, OneTyped, Users
<1>3. \A t \in Tasks : OneTyped(t)'
  <2>1. PICK d : d = c OBVIOUS
  <2>2. OneTyped(d)' BY <2>1 DEF OneTyped, Comm, AwaitedBy, Act
  <2>. QED BY <1>2, <2>1, <2>2
<1>4. AppTypes'
  BY <1>3 DEF AppTypes, AppTyped, OneTyped, Users
<1>. QED
  BY <1>1, <1>4 DEF OthersStay, Users

LEMMA Following ==
  ASSUME NEW x \in Nat, NEW n \in Nat \ {0}
  PROVE  (x % n) + 1 \in 1..n
OBVIOUS

LEMMA NextOpStep ==
  ASSUME AppTypes, cur \in Users, NextOp
  PROVE  /\ AppTyped
         /\ step'[cur] \in 1..Len(Program[cur]) /\ stage'[cur] = "acquire"
         /\ \A t \in Tasks \ {cur} : step'[t] = step[t] /\ stage'[t] = stage[t]
<1>1. Len(Program[cur]) \in Nat \ {0}
  BY ActType
<1>2. cur \in Tasks /\ step \in [Tasks -> Nat] /\ stage \in [Tasks -> Busy \cup {"acquire"}]
  BY DEF AppTypes, Users
<1>3. (step[cur] % Len(Program[cur])) + 1 \in 1..Len(Program[cur])
  BY <1>1, <1>2, Following
<1>. QED
  BY <1>1, <1>2, <1>3 DEF NextOp, AppTyped

LEMMA ReachStep ==
  ASSUME AppTypes, cur \in Users, NEW next \in Busy, Reach(next)
  PROVE  /\ AppTyped /\ UNCHANGED step /\ stage'[cur] = next
         /\ \A t \in Tasks \ {cur} : stage'[t] = stage[t]
  BY DEF Reach, AppTypes, AppTyped, Users

LEMMA ContinueStep ==
  ASSUME IInv, cur \in Tasks, NEW context, Continue(context)
  PROVE  pc'[cur] = context /\ \A t \in Tasks \ {cur} : pc'[t] = pc[t]
  BY DEF IInv, RestOK, Continue

AppStep == AppTypes' /\ (Rests \/ \E c \in Users : Takes(c) \/ Copies(c) \/ Advances(c) \/ Gives(c))

\* The processor goes on with the operation that follows, or with another task.
LEMMA RestStep ==
  ASSUME AppTypes, NEW c, OnlyOne(c), AppTyped, OneTyped(c)',
         c \in Users => \/ Act(c)' = Act(c) /\ Position(c)' = Position(c)
                        \/ Position(c) \notin Busy /\ Position(c)' \notin Busy,
         UNCHANGED <<count, front, rear, buffer, got>>
  PROVE  AppStep
<1>1. AppTypes' /\ OthersStay(c)
  BY OthersTyped
<1>2. \A t \in Users : \/ Act(t)' = Act(t) /\ Position(t)' = Position(t)
                       \/ Position(t) \notin Busy /\ Position(t)' \notin Busy
  <2>1. PICK d : d = c OBVIOUS
  <2>2. d \in Users => \/ Act(d)' = Act(d) /\ Position(d)' = Position(d)
                       \/ Position(d) \notin Busy /\ Position(d)' \notin Busy
    BY <2>1 DEF Act, Position
  <2>. QED BY <1>1, <2>1, <2>2 DEF OthersStay
<1>. QED
  BY <1>1, <1>2 DEF AppStep, Rests

LEMMA AppSleepStep ==
  ASSUME AppInv, AppSleep
  PROVE  AppStep
<1>1. cur \in Users /\ Op = Act(cur) /\ pc[cur].at = "user" /\ NextOp /\ Op.op = "sleep"
  BY Caller DEF AppInv, Users, Op, Act, AppSleep, CanCall, InUserCode
<1>2. Continue(UserContext) /\ UNCHANGED <<count, front, rear, buffer, got>>
  BY DEF AppSleep, Sleep, SleepFor, queues
<1>3. AppTypes /\ cur \in Tasks
  BY <1>1 DEF AppInv, Users
<1>4. stage[cur] = "acquire"
  BY <1>1, <1>3 DEF AppTypes, Comm
<1>5. pc'[cur] = UserContext /\ \A t \in Tasks \ {cur} : pc'[t] = pc[t]
  BY <1>2, <1>3, ContinueStep DEF AppInv
<1>6. /\ AppTyped
      /\ step'[cur] \in 1..Len(Program[cur]) /\ stage'[cur] = "acquire"
      /\ \A t \in Tasks \ {cur} : step'[t] = step[t] /\ stage'[t] = stage[t]
  BY <1>1, <1>3, NextOpStep
<1>7. PICK c : c = cur OBVIOUS
<1>8. OnlyOne(c)
  BY <1>5, <1>6, <1>7 DEF OnlyOne
<1>9. OneTyped(c)'
  BY <1>5, <1>6, <1>7 DEF OneTyped, UserContext, Busy
<1>10. Position(c) \notin Busy /\ Position(c)' \notin Busy
  BY <1>1, <1>4, <1>5, <1>6, <1>7 DEF Position, UserContext, Busy
<1>. QED
  BY <1>2, <1>3, <1>6, <1>8, <1>9, <1>10, RestStep

\* A task that is between two calls of a send or receive
LEMMA Communicating ==
  ASSUME AppInv, NEW st, At(st)
  PROVE  /\ cur \in Users /\ cur \in Tasks /\ AppTypes /\ Comm(cur)
         /\ Op = Act(cur) /\ Awaited = AwaitedBy(cur) /\ Signalled = SignalledBy(cur)
         /\ pc[cur].at = "user" /\ stage[cur] = st /\ Position(cur) = st
<1>1. cur \in Users /\ cur \in Tasks /\ AppTypes /\ Op = Act(cur) /\ pc[cur].at = "user"
  BY Caller DEF AppInv, Users, Op, Act, At, CanCall, InUserCode
<1>2. Comm(cur) /\ stage[cur] = st
  BY <1>1, ActType DEF At
<1>. QED
  BY <1>1, <1>2 DEF Position, Awaited, Signalled, AwaitedBy, SignalledBy

LEMMA AppAcquireStep ==
  ASSUME AppInv, AppAcquire
  PROVE  AppStep
<1>1. /\ cur \in Users /\ cur \in Tasks /\ AppTypes /\ Comm(cur)
      /\ Op = Act(cur) /\ Awaited = AwaitedBy(cur)
      /\ pc[cur].at = "user" /\ stage[cur] = "acquire" /\ Position(cur) = "acquire"
  BY Communicating DEF AppAcquire
<1>2. /\ AppTyped /\ UNCHANGED step /\ stage'[cur] = "copy"
      /\ \A t \in Tasks \ {cur} : stage'[t] = stage[t]
  BY <1>1, ReachStep DEF AppAcquire, Busy
<1>3. UNCHANGED <<front, rear, buffer, got>>
  BY DEF AppAcquire, queues
<1>4. PICK c : c = cur OBVIOUS
<1>5. Act(c)' = Act(c) /\ Comm(c)' /\ AwaitedBy(c)' = AwaitedBy(c)
  BY <1>1, <1>2, <1>4 DEF Act, Comm, AwaitedBy
<1>6. CASE AcquireAtOnce(Awaited)
  <2>1. UNCHANGED pc /\ TakeToken(Awaited)
    BY <1>6 DEF AcquireAtOnce
  <2>2. OnlyOne(c)
    BY <1>2, <1>4, <2>1 DEF OnlyOne
  <2>3. OneTyped(c)'
    BY <1>1, <1>2, <1>4, <1>5, <2>1 DEF OneTyped, AppTypes
  <2>4. AppTypes' /\ OthersStay(c)
    BY <1>1, <1>2, <2>2, <2>3, OthersTyped
  <2>5. Position(c) \notin Busy /\ Position(c)' = "copy"
    BY <1>1, <1>2, <1>4, <2>1 DEF Position, Busy
  <2>6. count[AwaitedBy(c)] > 0 /\ count' = [count EXCEPT ![AwaitedBy(c)] = @ - 1]
    BY <1>1, <1>4, <2>1 DEF TakeToken
  <2>7. c \in Users /\ Comm(c) BY <1>1, <1>4
  <2>8. Takes(c)
    BY <1>3, <1>5, <2>4, <2>5, <2>6, <2>7 DEF Takes, Moves
  <2>. QED BY <2>4, <2>7, <2>8 DEF AppStep
<1>7. CASE AcquireTimed(Awaited, Op.timeout) \/ AcquireBlock(Awaited, Op.timeout)
  <2>1. PICK by \in {"timed", "block"} : Continue([at |-> by, sem |-> Awaited]) /\ UNCHANGED count
    BY <1>7 DEF AcquireTimed, AcquireBlock, SleepFor
  <2>2. pc'[cur] = [at |-> by, sem |-> Awaited] /\ \A t \in Tasks \ {cur} : pc'[t] = pc[t]
    BY <1>1, <2>1, ContinueStep DEF AppInv
  <2>3. OnlyOne(c)
    BY <1>2, <1>4, <2>2 DEF OnlyOne
  <2>4. OneTyped(c)'
    BY <1>1, <1>2, <1>4, <1>5, <2>2 DEF OneTyped, AppTypes
  <2>5. Position(c) \notin Busy /\ Position(c)' \notin Busy
    BY <1>1, <1>2, <1>4, <2>2 DEF Position, Busy
  <2>. QED BY <1>1, <1>2, <1>3, <2>1, <2>3, <2>4, <2>5, RestStep
<1>. QED
  BY <1>6, <1>7 DEF AppAcquire

LEMMA AppGiveUpStep ==
  ASSUME AppInv, AppGiveUp
  PROVE  AppStep
<1>1. /\ cur \in Users /\ cur \in Tasks /\ AppTypes
      /\ pc[cur].at = "user" /\ stage[cur] = "acquire" /\ Position(cur) = "acquire"
  BY Communicating DEF AppGiveUp
<1>2. UNCHANGED <<pc, count, front, rear, buffer, got>> /\ NextOp
  BY DEF AppGiveUp, vars, queues
<1>3. /\ AppTyped
      /\ step'[cur] \in 1..Len(Program[cur]) /\ stage'[cur] = "acquire"
      /\ \A t \in Tasks \ {cur} : step'[t] = step[t] /\ stage'[t] = stage[t]
  BY <1>1, <1>2, NextOpStep
<1>4. PICK c : c = cur OBVIOUS
<1>5. OnlyOne(c)
  BY <1>2, <1>3, <1>4 DEF OnlyOne
<1>6. OneTyped(c)'
  BY <1>1, <1>2, <1>3, <1>4 DEF OneTyped, Busy
<1>7. Position(c) \notin Busy /\ Position(c)' \notin Busy
  BY <1>1, <1>2, <1>3, <1>4 DEF Position, Busy
<1>. QED
  BY <1>1, <1>2, <1>3, <1>5, <1>6, <1>7, RestStep

LEMMA AppCopyStep ==
  ASSUME AppInv, AppCopy
  PROVE  AppStep
<1>1. /\ cur \in Users /\ cur \in Tasks /\ AppTypes /\ Comm(cur) /\ Op = Act(cur)
      /\ pc[cur].at = "user" /\ Position(cur) = "copy"
  BY Communicating DEF AppCopy
<1>2. /\ AppTyped /\ UNCHANGED step /\ stage'[cur] = "advance"
      /\ \A t \in Tasks \ {cur} : stage'[t] = stage[t]
  BY <1>1, ReachStep DEF AppCopy, Busy
<1>3. UNCHANGED <<pc, count, front, rear>>
  BY DEF AppCopy, vars
<1>4. PICK c : c = cur OBVIOUS
<1>5. Act(c)' = Act(c) /\ Comm(c)' /\ c \in Users /\ Comm(c)
  BY <1>1, <1>2, <1>4 DEF Act, Comm
<1>6. OnlyOne(c)
  BY <1>2, <1>3, <1>4 DEF OnlyOne
<1>7. OneTyped(c)'
  BY <1>1, <1>2, <1>3, <1>4, <1>5 DEF OneTyped, AppTypes
<1>8. AppTypes' /\ OthersStay(c)
  BY <1>1, <1>2, <1>6, <1>7, OthersTyped
<1>9. Position(c) = "copy" /\ Position(c)' = "advance"
  BY <1>1, <1>2, <1>3, <1>4 DEF Position
<1>10. WritesSlot(c) \/ ReadsSlot(c)
  BY <1>1, <1>4 DEF AppCopy, WritesSlot, ReadsSlot
<1>11. Copies(c)
  BY <1>3, <1>5, <1>8, <1>9, <1>10 DEF Copies, Moves
<1>. QED
  BY <1>5, <1>8, <1>11 DEF AppStep

LEMMA AppAdvanceStep ==
  ASSUME AppInv, AppAdvance
  PROVE  AppStep
<1>1. /\ cur \in Users /\ cur \in Tasks /\ AppTypes /\ Comm(cur) /\ Op = Act(cur)
      /\ pc[cur].at = "user" /\ Position(cur) = "advance"
  BY Communicating DEF AppAdvance
<1>2. /\ AppTyped /\ UNCHANGED step /\ stage'[cur] = "release"
      /\ \A t \in Tasks \ {cur} : stage'[t] = stage[t]
  BY <1>1, ReachStep DEF AppAdvance, Busy
<1>3. UNCHANGED <<pc, count, buffer, got>>
  BY DEF AppAdvance, vars
<1>4. PICK c : c = cur OBVIOUS
<1>5. Act(c)' = Act(c) /\ Comm(c)' /\ c \in Users /\ Comm(c)
  BY <1>1, <1>2, <1>4 DEF Act, Comm
<1>6. OnlyOne(c)
  BY <1>2, <1>3, <1>4 DEF OnlyOne
<1>7. OneTyped(c)'
  BY <1>1, <1>2, <1>3, <1>4, <1>5 DEF OneTyped, AppTypes
<1>8. AppTypes' /\ OthersStay(c)
  BY <1>1, <1>2, <1>6, <1>7, OthersTyped
<1>9. Position(c) = "advance" /\ Position(c)' = "release"
  BY <1>1, <1>2, <1>3, <1>4 DEF Position
<1>10. \/ /\ Act(c).op = "send" /\ UNCHANGED front
          /\ rear' = [rear EXCEPT ![Act(c).q] = Advance(@, Act(c).q)]
       \/ /\ Act(c).op = "receive" /\ UNCHANGED rear
          /\ front' = [front EXCEPT ![Act(c).q] = Advance(@, Act(c).q)]
  BY <1>1, <1>4 DEF AppAdvance
<1>11. Advances(c)
  BY <1>3, <1>5, <1>8, <1>9, <1>10 DEF Advances, Moves
<1>. QED
  BY <1>5, <1>8, <1>11 DEF AppStep

LEMMA AppReleaseStep ==
  ASSUME AppInv, AppRelease
  PROVE  AppStep
<1>1. /\ cur \in Users /\ cur \in Tasks /\ AppTypes /\ Comm(cur) /\ Signalled = SignalledBy(cur)
      /\ pc[cur].at = "user" /\ Position(cur) = "release"
  BY Communicating DEF AppRelease
<1>2. /\ UNCHANGED <<pc, front, rear, buffer, got>> /\ NextOp
      /\ count' = [count EXCEPT ![Signalled] = @ + 1]
  BY DEF AppRelease, Release, queues
<1>3. /\ AppTyped
      /\ step'[cur] \in 1..Len(Program[cur]) /\ stage'[cur] = "acquire"
      /\ \A t \in Tasks \ {cur} : step'[t] = step[t] /\ stage'[t] = stage[t]
  BY <1>1, <1>2, NextOpStep
<1>4. PICK c : c = cur OBVIOUS
<1>5. OnlyOne(c)
  BY <1>2, <1>3, <1>4 DEF OnlyOne
<1>6. OneTyped(c)'
  BY <1>1, <1>2, <1>3, <1>4 DEF OneTyped, Busy
<1>7. Position(c) = "release" /\ Position(c)' \notin Busy
  BY <1>1, <1>2, <1>3, <1>4 DEF Position, Busy
<1>8. AppTypes' /\ OthersStay(c)
  BY <1>1, <1>3, <1>5, <1>6, OthersTyped
<1>9. c \in Users /\ Comm(c) /\ count' = [count EXCEPT ![SignalledBy(c)] = @ + 1]
  BY <1>1, <1>2, <1>4
<1>10. Gives(c)
  BY <1>2, <1>7, <1>8, <1>9 DEF Gives, Moves
<1>. QED
  BY <1>8, <1>9, <1>10 DEF AppStep

\* A task that was woken in eos_acquire_semaphore has its token when it goes on.
LEMMA ResumedWaiting ==
  ASSUME AppInv, NEW at \in {"timed", "block"}, Resumed(at)
  PROVE  /\ cur \in Users /\ cur \in Tasks /\ AppTypes /\ Comm(cur)
         /\ pc[cur].at = at /\ stage[cur] = "copy" /\ pc[cur].sem = AwaitedBy(cur)
         /\ Position(cur) = "away"
  BY Running DEF AppInv, AppTypes, Resumed, Position, Busy

LEMMA ResumedTakes ==
  ASSUME AppInv, NEW at \in {"timed", "block"}, Resumed(at),
         TakeToken(pc[cur].sem), Continue(UserContext),
         UNCHANGED <<step, stage, front, rear, buffer, got>>
  PROVE  AppStep
<1>1. /\ cur \in Users /\ cur \in Tasks /\ AppTypes /\ Comm(cur)
      /\ stage[cur] = "copy" /\ pc[cur].sem = AwaitedBy(cur) /\ Position(cur) = "away"
  BY ResumedWaiting
<1>2. pc'[cur] = UserContext /\ \A t \in Tasks \ {cur} : pc'[t] = pc[t]
  BY <1>1, ContinueStep DEF AppInv
<1>3. PICK c : c = cur OBVIOUS
<1>4. OnlyOne(c) /\ AppTyped
  BY <1>1, <1>2, <1>3 DEF OnlyOne, AppTyped, AppTypes
<1>5. Act(c)' = Act(c) /\ Comm(c)' /\ c \in Users /\ Comm(c)
  BY <1>1, <1>3 DEF Act, Comm
<1>6. OneTyped(c)'
  BY <1>1, <1>2, <1>3, <1>5 DEF OneTyped, AppTypes, UserContext
<1>7. AppTypes' /\ OthersStay(c)
  BY <1>1, <1>4, <1>6, OthersTyped
<1>8. Position(c) \notin Busy /\ Position(c)' = "copy"
  BY <1>1, <1>2, <1>3 DEF Position, UserContext, Busy
<1>9. count[AwaitedBy(c)] > 0 /\ count' = [count EXCEPT ![AwaitedBy(c)] = @ - 1]
  BY <1>1, <1>3 DEF TakeToken
<1>10. Takes(c)
  BY <1>5, <1>7, <1>8, <1>9 DEF Takes, Moves
<1>. QED
  BY <1>5, <1>7, <1>10 DEF AppStep

LEMMA AppTimedResumeStep ==
  ASSUME AppInv, AppTimedResume
  PROVE  AppStep
<1>1. Resumed("timed") /\ Continue(UserContext) /\ UNCHANGED <<front, rear, buffer, got>>
  BY DEF AppTimedResume, AcquireTimedResume, queues
<1>2. /\ cur \in Users /\ cur \in Tasks /\ AppTypes /\ pc[cur].sem = AwaitedBy(cur) /\ Comm(cur)
      /\ Position(cur) = "away"
  BY <1>1, ResumedWaiting
<1>3. CASE TakeToken(pc[cur].sem)
  <2>1. count[pc[cur].sem] # 0
    BY <1>3, <1>2, CommSems DEF TakeToken, AppInv, IInv, RestOK
  <2>2. UNCHANGED <<step, stage>>
    BY <2>1 DEF AppTimedResume
  <2>. QED BY <1>1, <1>3, <2>2, ResumedTakes
<1>4. CASE count[pc[cur].sem] = 0 /\ UNCHANGED count
  <2>1. NextOp
    BY <1>4 DEF AppTimedResume
  <2>2. pc'[cur] = UserContext /\ \A t \in Tasks \ {cur} : pc'[t] = pc[t]
    BY <1>1, <1>2, ContinueStep DEF AppInv
  <2>3. /\ AppTyped
        /\ step'[cur] \in 1..Len(Program[cur]) /\ stage'[cur] = "acquire"
        /\ \A t \in Tasks \ {cur} : step'[t] = step[t] /\ stage'[t] = stage[t]
    BY <1>2, <2>1, NextOpStep
  <2>4. PICK c : c = cur OBVIOUS
  <2>5. OnlyOne(c)
    BY <2>2, <2>3, <2>4 DEF OnlyOne
  <2>6. OneTyped(c)'
    BY <1>2, <2>2, <2>3, <2>4 DEF OneTyped, Busy, UserContext
  <2>7. Position(c) \notin Busy /\ Position(c)' \notin Busy
    BY <1>2, <2>2, <2>3, <2>4 DEF Position, Busy, UserContext
  <2>. QED BY <1>1, <1>2, <1>4, <2>3, <2>5, <2>6, <2>7, RestStep
<1>. QED
  BY <1>3, <1>4 DEF AppTimedResume, AcquireTimedResume

\* Ticks, start-up, and a woken task without a token leave the queues alone.
LEMMA KernelStep ==
  ASSUME AppInv, UNCHANGED <<count, app>>, NEW c \in Tasks, \A t \in Tasks \ {c} : pc'[t] = pc[t],
         UNCHANGED pc \/ (pc[c].at \in {"user", "tick"} /\ pc'[c].at \in {"user", "tick"})
  PROVE  AppStep
<1>1. UNCHANGED <<step, stage, front, rear, buffer, got>> /\ AppTypes
  BY DEF app, AppInv
<1>2. OnlyOne(c) /\ AppTyped
  BY <1>1 DEF OnlyOne, AppTyped, AppTypes
<1>3. Act(c)' = Act(c) /\ (Comm(c) <=> Comm(c)') /\ AwaitedBy(c)' = AwaitedBy(c)
  BY <1>1 DEF Act, Comm, AwaitedBy
<1>4. OneTyped(c)'
  BY <1>1, <1>3 DEF OneTyped, AppTypes
<1>5. Position(c)' = Position(c)
  BY <1>1 DEF Position
<1>. QED
  BY <1>1, <1>2, <1>3, <1>4, <1>5, RestStep

LEMMA OtherSteps ==
  ASSUME AppInv, \/ (Boot \/ AcquireBlockTake \/ AcquireBlockRetry \/ TickResume) /\ UNCHANGED app
                 \/ Timer \/ UNCHANGED appVars
  PROVE  AppStep
<1>1. CASE Boot /\ UNCHANGED app
  <2>1. UNCHANGED <<pc, count>>
    BY <1>1 DEF Boot, CreateTask, StartMultitasking
  <2>. QED BY <1>1, <2>1, KernelStep, TaskAssumption
<1>2. CASE AcquireBlockTake /\ UNCHANGED app
  BY <1>2, ResumedTakes DEF AcquireBlockTake, app
<1>3. CASE AcquireBlockRetry /\ UNCHANGED app
  BY <1>3, KernelStep, TaskAssumption DEF AcquireBlockRetry
<1>4. CASE UNCHANGED appVars
  BY <1>4, KernelStep, TaskAssumption DEF appVars, vars
<1>5. ASSUME NEW q, TriggerLoop(q), cur \in Tasks, pc[cur].at \in {"user", "tick"},
             UNCHANGED <<count, app>>
      PROVE  AppStep
  <2>1. PICK context \in {UserContext, TickContext} : Continue(context)
    BY <1>5 DEF TriggerLoop
  <2>2. pc'[cur] = context /\ \A t \in Tasks \ {cur} : pc'[t] = pc[t]
    BY <1>5, <2>1, ContinueStep DEF AppInv
  <2>3. pc'[cur].at \in {"user", "tick"}
    BY <2>2 DEF UserContext, TickContext
  <2>. QED BY <1>5, <2>2, <2>3, KernelStep
<1>6. CASE TickResume /\ UNCHANGED app
  <2>1. TriggerLoop(alarms) /\ UNCHANGED count /\ cur \in Tasks /\ pc[cur].at = "tick"
    BY <1>6, Running DEF TickResume, Resumed, AppInv
  <2>. QED BY <1>5, <1>6, <2>1
<1>7. CASE Timer
  <2>1. UNCHANGED <<count, app>> /\ cur \in Tasks /\ pc[cur].at = "user"
    BY <1>7, Running DEF Timer, Tick, InUserCode, AppInv
  <2>2. CASE TriggerLoop(CountDown(alarms))
    BY <1>5, <2>1, <2>2
  <2>3. CASE UNCHANGED pc
    BY <2>1, <2>3, KernelStep
  <2>. QED BY <1>7, <2>2, <2>3 DEF Timer, Tick
<1>. QED
  BY <1>1, <1>2, <1>3, <1>4, <1>6, <1>7

\* Every step is of one of the five kinds.
LEMMA AppNextStep ==
  ASSUME AppInv, [AppNext]_appVars
  PROVE  AppInv' /\ AppStep
<1>1. IInv'
  BY AppIsKernel, NextInvariant DEF AppInv
<1>2. AppStep
  BY AppSleepStep, AppAcquireStep, AppGiveUpStep, AppCopyStep, AppAdvanceStep,
     AppReleaseStep, AppTimedResumeStep, OtherSteps DEF AppNext, Processor
<1>. QED
  BY <1>1, <1>2 DEF AppInv, AppStep

LEMMA AppInitTypes == AppInit => AppInv
<1>1. SUFFICES ASSUME AppInit PROVE AppInv OBVIOUS
<1>2. IInv BY <1>1, InitInvariant DEF AppInit
<1>3. \A t \in Users : 1 \in 1..Len(Program[t])
  <2>1. ASSUME NEW t \in Users PROVE Len(Program[t]) \in Nat \ {0}
    BY ProgramAssumption, EmptySeq, LenProperties DEF Users
  <2>. QED BY <2>1
<1>4. AppTypes
  BY <1>1, <1>3 DEF AppInit, Init, AppTypes, Users, Busy, UserContext
<1>. QED BY <1>2, <1>4 DEF AppInv

-----------------------------------------------------------------------------
(* How many tasks are in each part of a send or receive *)

One(op, q, st) == Cardinality(InStage(op, q, {st}))
Does(t, op, q, st) == Act(t).op = op /\ Act(t).q = q /\ Position(t) = st

LEMMA InOne ==
  ASSUME NEW op, NEW q, NEW st \in Busy
  PROVE  /\ InStage(op, q, {st}) = {t \in Users : Does(t, op, q, st)}
         /\ InStage(op, q, {st})' = {t \in Users : Does(t, op, q, st)'}
  BY DEF InStage, Does, Act, Position, Busy, Users

LEMMA OneType ==
  ASSUME IsFiniteSet(Tasks), NEW op, NEW q, NEW st
  PROVE  IsFiniteSet(InStage(op, q, {st})) /\ One(op, q, st) \in Nat
<1>1. InStage(op, q, {st}) \in SUBSET Tasks
  BY DEF InStage
<1>. QED
  BY <1>1, FS_Subset, FS_CardinalityType DEF One

\* What the step of one task does to the numbers
LEMMA CountOne ==
  ASSUME IsFiniteSet(Tasks), NEW c \in Users, OthersStay(c),
         NEW op, NEW q, NEW st \in Busy
  PROVE  /\ (Does(c, op, q, st) <=> Does(c, op, q, st)') => One(op, q, st)' = One(op, q, st)
         /\ Does(c, op, q, st) /\ ~Does(c, op, q, st)' => One(op, q, st)' = One(op, q, st) - 1
         /\ ~Does(c, op, q, st) /\ Does(c, op, q, st)' => One(op, q, st)' = One(op, q, st) + 1
<1> DEFINE S == InStage(op, q, {st})
<1>1. PICK T : T = S' OBVIOUS
<1>2. IsFiniteSet(S) /\ One(op, q, st) = Cardinality(S) /\ One(op, q, st)' = Cardinality(T)
  BY <1>1, OneType DEF One
<1>3. \A t \in Users \ {c} : Does(t, op, q, st)' = Does(t, op, q, st)
  BY DEF OthersStay, Does
<1>4. S = {t \in Users : Does(t, op, q, st)} /\ T = {t \in Users : Does(t, op, q, st)'}
  BY <1>1, InOne
<1>5. c \in S <=> Does(c, op, q, st)
  BY <1>4
<1>6. Does(c, op, q, st)' => T = S \cup {c}
  BY <1>3, <1>4
<1>7. ~Does(c, op, q, st)' => T = S \ {c}
  BY <1>3, <1>4
<1> HIDE DEF S
<1>8. Cardinality(S \cup {c}) = IF c \in S THEN Cardinality(S) ELSE Cardinality(S) + 1
  BY <1>2, FS_AddElement
<1>9. Cardinality(S \ {c}) = IF c \in S THEN Cardinality(S) - 1 ELSE Cardinality(S)
  BY <1>2, FS_RemoveElement
<1>. QED
  BY <1>2, <1>5, <1>6, <1>7, <1>8, <1>9

LEMMA RestCounts ==
  ASSUME Rests, NEW op, NEW q, NEW st \in Busy
  PROVE  One(op, q, st)' = One(op, q, st)
<1>1. \A t \in Users : Does(t, op, q, st) <=> Does(t, op, q, st)'
  BY DEF Rests, Does
<1>2. InStage(op, q, {st})' = InStage(op, q, {st})
  BY <1>1, InOne
<1>. QED
  BY <1>2 DEF One

\* All but the tasks in one part of the operation of c
Elsewhere(c, sts) ==
  \A op, q : \A st \in Busy :
    ~(op = Act(c).op /\ q = Act(c).q /\ st \in sts) => One(op, q, st)' = One(op, q, st)

LEMMA TakeCounts ==
  ASSUME IsFiniteSet(Tasks), NEW c \in Users, Takes(c)
  PROVE  /\ Elsewhere(c, {"copy"})
         /\ \A op, q : op = Act(c).op /\ q = Act(c).q =>
              One(op, q, "copy")' = One(op, q, "copy") + 1
<1>1. OthersStay(c) /\ Act(c)' = Act(c) /\ Position(c) \notin Busy /\ Position(c)' = "copy"
  BY DEF Takes, Moves
<1>2. PICK a : a = Act(c) OBVIOUS
<1>3. \A op, q, st : /\ Does(c, op, q, st)' <=> (a.op = op /\ a.q = q /\ st = "copy")
                     /\ st \in Busy => ~Does(c, op, q, st)
  BY <1>1, <1>2 DEF Does
<1>4. Elsewhere(c, {"copy"})
  BY <1>1, <1>2, <1>3, CountOne DEF Elsewhere
<1>5. One(a.op, a.q, "copy")' = One(a.op, a.q, "copy") + 1
  BY <1>1, <1>3, CountOne DEF Busy
<1>. QED
  BY <1>2, <1>4, <1>5

LEMMA MoveCounts ==
  ASSUME IsFiniteSet(Tasks), NEW c \in Users, OthersStay(c), Act(c)' = Act(c),
         NEW from \in Busy, NEW to \in Busy, from # to,
         Position(c) = from, Position(c)' = to
  PROVE  /\ Elsewhere(c, {from, to})
         /\ \A op, q : op = Act(c).op /\ q = Act(c).q =>
              /\ One(op, q, from)' = One(op, q, from) - 1
              /\ One(op, q, to)' = One(op, q, to) + 1
<1>1. PICK a : a = Act(c) OBVIOUS
<1>2. \A op, q, st : /\ Does(c, op, q, st)' <=> (a.op = op /\ a.q = q /\ st = to)
                     /\ Does(c, op, q, st) <=> (a.op = op /\ a.q = q /\ st = from)
  BY <1>1 DEF Does
<1>3. Elsewhere(c, {from, to})
  BY <1>1, <1>2, CountOne DEF Elsewhere
<1>4. /\ One(a.op, a.q, from)' = One(a.op, a.q, from) - 1
      /\ One(a.op, a.q, to)' = One(a.op, a.q, to) + 1
  BY <1>2, CountOne
<1>. QED
  BY <1>1, <1>3, <1>4

LEMMA GiveCounts ==
  ASSUME IsFiniteSet(Tasks), NEW c \in Users, Gives(c)
  PROVE  /\ Elsewhere(c, {"release"})
         /\ \A op, q : op = Act(c).op /\ q = Act(c).q =>
              One(op, q, "release")' = One(op, q, "release") - 1
<1>1. OthersStay(c) /\ Position(c) = "release" /\ Position(c)' \notin Busy
  BY DEF Gives, Moves
<1>2. PICK a : a = Act(c) OBVIOUS
<1>3. \A op, q, st : /\ Does(c, op, q, st) <=> (a.op = op /\ a.q = q /\ st = "release")
                     /\ st \in Busy => ~Does(c, op, q, st)'
  BY <1>1, <1>2 DEF Does
<1>4. Elsewhere(c, {"release"})
  BY <1>1, <1>2, <1>3, CountOne DEF Elsewhere
<1>5. One(a.op, a.q, "release")' = One(a.op, a.q, "release") - 1
  BY <1>1, <1>3, CountOne DEF Busy
<1>. QED
  BY <1>2, <1>4, <1>5

\* The tasks in any part of a send or receive
Handled(op, q) == One(op, q, "copy") + One(op, q, "advance") + One(op, q, "release")
SlotsOK == \A q \in Queues :
  count[PutSem[q]] + count[GetSem[q]] + Handled("send", q) + Handled("receive", q) = Size[q]

LEMMA CountTypes ==
  ASSUME IsFiniteSet(Tasks), IInv
  PROVE  /\ \A s \in Sems : count[s] \in Nat
         /\ \A op, q, st : One(op, q, st) \in Nat
  BY OneType DEF IInv, RestOK

LEMMA SemCounts ==
  ASSUME AppInv, NEW s \in Sems, NEW n, count' = [count EXCEPT ![s] = n]
  PROVE  \A r \in Sems : count'[r] = IF r = s THEN n ELSE count[r]
  BY DEF AppInv, IInv, RestOK

\* The queues have no semaphore in common, and none two.
LEMMA OwnSems ==
  ASSUME NEW q \in Queues, NEW r \in Queues
  PROVE  /\ PutSem[q] \in Sems /\ GetSem[q] \in Sems /\ Size[q] \in Nat \ {0}
         /\ PutSem[q] # GetSem[r] /\ GetSem[q] # PutSem[r]
         /\ q # r => PutSem[q] # PutSem[r] /\ GetSem[q] # GetSem[r]
  BY QueueAssumption

LEMMA TakeSlots ==
  ASSUME IsFiniteSet(Tasks), AppInv, SlotsOK, NEW c \in Users, Takes(c)
  PROVE  SlotsOK'
<1>1. PICK o \in {"send", "receive"}, r \in Queues : o = Act(c).op /\ r = Act(c).q
  BY DEF Takes, Moves, Comm
<1>2. PICK s : s = AwaitedBy(c) OBVIOUS
<1>3. s = (IF o = "send" THEN PutSem[r] ELSE GetSem[r]) /\ s \in Sems
  BY <1>1, <1>2, OwnSems DEF AwaitedBy
<1>4. count' = [count EXCEPT ![s] = count[s] - 1]
  BY <1>2 DEF Takes
<1>5. /\ Elsewhere(c, {"copy"})
      /\ One(o, r, "copy")' = One(o, r, "copy") + 1
  BY <1>1, TakeCounts
<1>6. \A x \in Sems : count'[x] = IF x = s THEN count[s] - 1 ELSE count[x]
  BY <1>3, <1>4, SemCounts
<1>7. SUFFICES ASSUME NEW q \in Queues
      PROVE  count'[PutSem[q]] + count'[GetSem[q]] + Handled("send", q)' + Handled("receive", q)' = Size[q]
  BY DEF SlotsOK
<1>8. /\ \A x \in Sems : count[x] \in Nat
      /\ \A op, st : One(op, q, st) \in Nat
      /\ count[PutSem[q]] + count[GetSem[q]] + Handled("send", q) + Handled("receive", q) = Size[q]
  BY CountTypes DEF AppInv, SlotsOK
<1>9. CASE q # r
  <2>1. \A op : \A st \in Busy : One(op, q, st)' = One(op, q, st)
    BY <1>1, <1>5, <1>9 DEF Elsewhere
  <2>2. count'[PutSem[q]] = count[PutSem[q]] /\ count'[GetSem[q]] = count[GetSem[q]]
    BY <1>3, <1>6, <1>9, OwnSems
  <2>. QED BY <1>8, <2>1, <2>2 DEF Handled, Busy
<1>10. CASE q = r /\ o = "send"
  <2>1. /\ One("send", q, "copy")' = One("send", q, "copy") + 1
        /\ \A st \in Busy \ {"copy"} : One("send", q, st)' = One("send", q, st)
        /\ \A st \in Busy : One("receive", q, st)' = One("receive", q, st)
    BY <1>1, <1>5, <1>10 DEF Elsewhere
  <2>2. count'[PutSem[q]] = count[PutSem[q]] - 1 /\ count'[GetSem[q]] = count[GetSem[q]]
    BY <1>3, <1>6, <1>10, OwnSems
  <2>3. count[PutSem[q]] \in Nat /\ count[GetSem[q]] \in Nat
    BY <1>8, OwnSems
  <2>. QED BY <1>8, <2>1, <2>2, <2>3 DEF Handled, Busy
<1>11. CASE q = r /\ o = "receive"
  <2>1. /\ One("receive", q, "copy")' = One("receive", q, "copy") + 1
        /\ \A st \in Busy \ {"copy"} : One("receive", q, st)' = One("receive", q, st)
        /\ \A st \in Busy : One("send", q, st)' = One("send", q, st)
    BY <1>1, <1>5, <1>11 DEF Elsewhere
  <2>2. count'[GetSem[q]] = count[GetSem[q]] - 1 /\ count'[PutSem[q]] = count[PutSem[q]]
    BY <1>3, <1>6, <1>11, OwnSems
  <2>3. count[PutSem[q]] \in Nat /\ count[GetSem[q]] \in Nat
    BY <1>8, OwnSems
  <2>. QED BY <1>8, <2>1, <2>2, <2>3 DEF Handled, Busy
<1>. QED
  BY <1>9, <1>10, <1>11

LEMMA GiveSlots ==
  ASSUME IsFiniteSet(Tasks), AppInv, SlotsOK, NEW c \in Users, Gives(c)
  PROVE  SlotsOK'
<1>1. PICK o \in {"send", "receive"}, r \in Queues : o = Act(c).op /\ r = Act(c).q
  BY DEF Gives, Moves, Comm
<1>2. PICK s : s = SignalledBy(c) OBVIOUS
<1>3. s = (IF o = "send" THEN GetSem[r] ELSE PutSem[r]) /\ s \in Sems
  BY <1>1, <1>2, OwnSems DEF SignalledBy
<1>4. count' = [count EXCEPT ![s] = count[s] + 1]
  BY <1>2 DEF Gives
<1>5. /\ Elsewhere(c, {"release"})
      /\ One(o, r, "release")' = One(o, r, "release") - 1
  BY <1>1, GiveCounts
<1>6. \A x \in Sems : count'[x] = IF x = s THEN count[s] + 1 ELSE count[x]
  BY <1>3, <1>4, SemCounts
<1>7. SUFFICES ASSUME NEW q \in Queues
      PROVE  count'[PutSem[q]] + count'[GetSem[q]] + Handled("send", q)' + Handled("receive", q)' = Size[q]
  BY DEF SlotsOK
<1>8. /\ \A x \in Sems : count[x] \in Nat
      /\ \A op, st : One(op, q, st) \in Nat
      /\ count[PutSem[q]] + count[GetSem[q]] + Handled("send", q) + Handled("receive", q) = Size[q]
  BY CountTypes DEF AppInv, SlotsOK
<1>9. CASE q # r
  <2>1. \A op : \A st \in Busy : One(op, q, st)' = One(op, q, st)
    BY <1>1, <1>5, <1>9 DEF Elsewhere
  <2>2. count'[PutSem[q]] = count[PutSem[q]] /\ count'[GetSem[q]] = count[GetSem[q]]
    BY <1>3, <1>6, <1>9, OwnSems
  <2>. QED BY <1>8, <2>1, <2>2 DEF Handled, Busy
<1>10. CASE q = r /\ o = "send"
  <2>1. /\ One("send", q, "release")' = One("send", q, "release") - 1
        /\ \A st \in Busy \ {"release"} : One("send", q, st)' = One("send", q, st)
        /\ \A st \in Busy : One("receive", q, st)' = One("receive", q, st)
    BY <1>1, <1>5, <1>10 DEF Elsewhere
  <2>2. count'[GetSem[q]] = count[GetSem[q]] + 1 /\ count'[PutSem[q]] = count[PutSem[q]]
    BY <1>3, <1>6, <1>10, OwnSems
  <2>3. count[PutSem[q]] \in Nat /\ count[GetSem[q]] \in Nat
    BY <1>8, OwnSems
  <2>. QED BY <1>8, <2>1, <2>2, <2>3 DEF Handled, Busy
<1>11. CASE q = r /\ o = "receive"
  <2>1. /\ One("receive", q, "release")' = One("receive", q, "release") - 1
        /\ \A st \in Busy \ {"release"} : One("receive", q, st)' = One("receive", q, st)
        /\ \A st \in Busy : One("send", q, st)' = One("send", q, st)
    BY <1>1, <1>5, <1>11 DEF Elsewhere
  <2>2. count'[PutSem[q]] = count[PutSem[q]] + 1 /\ count'[GetSem[q]] = count[GetSem[q]]
    BY <1>3, <1>6, <1>11, OwnSems
  <2>3. count[PutSem[q]] \in Nat /\ count[GetSem[q]] \in Nat
    BY <1>8, OwnSems
  <2>. QED BY <1>8, <2>1, <2>2, <2>3 DEF Handled, Busy
<1>. QED
  BY <1>9, <1>10, <1>11

\* Copying and advancing the index move a task from one part to the next.
LEMMA MoveSlots ==
  ASSUME IsFiniteSet(Tasks), AppInv, SlotsOK, NEW c \in Users,
         Copies(c) \/ Advances(c)
  PROVE  SlotsOK'
<1>1. PICK o \in {"send", "receive"}, r \in Queues : o = Act(c).op /\ r = Act(c).q
  BY DEF Copies, Advances, Moves, Comm
<1>2. UNCHANGED count
  BY DEF Copies, Advances
<1>3. PICK from \in Busy, to \in Busy :
        /\ from # to /\ OthersStay(c) /\ Act(c)' = Act(c)
        /\ Position(c) = from /\ Position(c)' = to
  BY DEF Copies, Advances, Moves, Busy
<1>4. /\ Elsewhere(c, {from, to})
      /\ \A op, q : op = Act(c).op /\ q = Act(c).q =>
              /\ One(op, q, from)' = One(op, q, from) - 1
              /\ One(op, q, to)' = One(op, q, to) + 1
  BY <1>3, MoveCounts
<1>5. SUFFICES ASSUME NEW q \in Queues
      PROVE  Handled("send", q)' = Handled("send", q) /\ Handled("receive", q)' = Handled("receive", q)
  BY <1>2 DEF SlotsOK
<1>6. \A op, st : One(op, q, st) \in Nat
  BY CountTypes DEF AppInv
<1>7. ASSUME NEW op PROVE Handled(op, q)' = Handled(op, q)
  <2>1. CASE op = o /\ q = r
    <3>1. /\ One(op, q, from)' = One(op, q, from) - 1
          /\ One(op, q, to)' = One(op, q, to) + 1
          /\ \A st \in Busy \ {from, to} : One(op, q, st)' = One(op, q, st)
      BY <1>1, <1>4, <2>1 DEF Elsewhere
    <3>. QED BY <1>3, <1>6, <3>1 DEF Handled, Busy
  <2>2. CASE ~(op = o /\ q = r)
    BY <1>1, <1>4, <2>2 DEF Elsewhere, Handled, Busy
  <2>. QED BY <2>1, <2>2
<1>. QED
  BY <1>7

LEMMA RestSlots ==
  ASSUME SlotsOK, Rests
  PROVE  SlotsOK'
<1>1. \A op, q : Handled(op, q)' = Handled(op, q)
  BY RestCounts DEF Handled, Busy
<1>2. UNCHANGED count
  BY DEF Rests
<1>. QED
  BY <1>1, <1>2 DEF SlotsOK

LEMMA SlotsStep ==
  ASSUME IsFiniteSet(Tasks), AppInv, SlotsOK, AppStep
  PROVE  SlotsOK'
  BY TakeSlots, GiveSlots, MoveSlots, RestSlots DEF AppStep

LEMMA NobodyBusy ==
  ASSUME AppInit, NEW op, NEW q, NEW st \in Busy
  PROVE  One(op, q, st) = 0
<1>1. InStage(op, q, {st}) = {}
  BY DEF AppInit, InStage, Busy
<1>. QED
  BY <1>1, FS_EmptySet DEF One

LEMMA InitSlots == AppInit => SlotsOK
<1>1. SUFFICES ASSUME AppInit, NEW q \in Queues
      PROVE  count[PutSem[q]] + count[GetSem[q]] + Handled("send", q) + Handled("receive", q) = Size[q]
  BY DEF SlotsOK
<1>2. \A op : Handled(op, q) = 0
  BY <1>1, NobodyBusy DEF Handled, Busy
<1>3. count[PutSem[q]] = Size[q] /\ count[GetSem[q]] = 0
  BY <1>1, QueueAssumption DEF AppInit, Init
<1>. QED
  BY <1>2, <1>3, OwnSems

\* The parts add up.
LEMMA TwoParts ==
  ASSUME IsFiniteSet(Tasks), NEW op, NEW q, NEW a, NEW b, a \cap b = {}
  PROVE  Cardinality(InStage(op, q, a \cup b)) =
           Cardinality(InStage(op, q, a)) + Cardinality(InStage(op, q, b))
<1>1. /\ InStage(op, q, a) \in SUBSET Tasks /\ InStage(op, q, b) \in SUBSET Tasks
      /\ InStage(op, q, a) \cap InStage(op, q, b) = {}
      /\ InStage(op, q, a \cup b) = InStage(op, q, a) \cup InStage(op, q, b)
  BY DEF InStage
<1>2. /\ IsFiniteSet(InStage(op, q, a)) /\ IsFiniteSet(InStage(op, q, b))
      /\ Cardinality(InStage(op, q, a)) \in Nat /\ Cardinality(InStage(op, q, b)) \in Nat
  BY <1>1, FS_Subset, FS_CardinalityType
<1>3. Cardinality({}) = 0
  BY FS_EmptySet
<1>4. ASSUME NEW S, NEW T, IsFiniteSet(S), IsFiniteSet(T), S \cap T = {},
             Cardinality(S) \in Nat, Cardinality(T) \in Nat
      PROVE  Cardinality(S \cup T) = Cardinality(S) + Cardinality(T)
  <2>1. Cardinality(S \cup T) = Cardinality(S) + Cardinality(T) - Cardinality(S \cap T)
    BY <1>4, FS_Union, Zenon
  <2>2. Cardinality(S \cap T) = 0
    BY <1>3, <1>4, Zenon
  <2>3. ASSUME NEW x, NEW y \in Nat, NEW z \in Nat, NEW w, x = y + z - w, w = 0
        PROVE  x = y + z
    BY <2>3
  <2>. QED BY <1>4, <2>1, <2>2, <2>3, Zenon
<1>. QED
  BY <1>1, <1>2, <1>4

PartsOK == \A op, q :
  /\ Cardinality(InStage(op, q, {"copy", "advance", "release"})) = Handled(op, q)
  /\ Cardinality(InStage(op, q, {"advance", "release"})) =
       One(op, q, "advance") + One(op, q, "release")

LEMMA Parts ==
  ASSUME IsFiniteSet(Tasks)
  PROVE  PartsOK
<1>1. SUFFICES ASSUME NEW op, NEW q
      PROVE  /\ Cardinality(InStage(op, q, {"copy", "advance", "release"})) = Handled(op, q)
             /\ Cardinality(InStage(op, q, {"advance", "release"})) =
                  One(op, q, "advance") + One(op, q, "release")
  BY DEF PartsOK
<1>2. /\ {"advance"} \cap {"release"} = {} /\ {"copy"} \cap {"advance", "release"} = {}
      /\ {"advance"} \cup {"release"} = {"advance", "release"}
      /\ {"copy"} \cup {"advance", "release"} = {"copy", "advance", "release"}
  OBVIOUS
<1>3. Cardinality(InStage(op, q, {"advance", "release"})) = One(op, q, "advance") + One(op, q, "release")
  BY <1>2, TwoParts DEF One
<1>4. Cardinality(InStage(op, q, {"copy", "advance", "release"})) =
        One(op, q, "copy") + Cardinality(InStage(op, q, {"advance", "release"}))
  BY <1>2, TwoParts DEF One
<1>5. /\ One(op, q, "copy") \in Nat /\ One(op, q, "advance") \in Nat
      /\ One(op, q, "release") \in Nat
  BY OneType
<1>. QED
  BY <1>3, <1>4, <1>5 DEF Handled

LEMMA AppInvariant ==
  ASSUME IsFiniteSet(Tasks)
  PROVE  AppSpec => [](AppInv /\ SlotsOK /\ PartsOK)
<1>1. AppInit => AppInv /\ SlotsOK
  BY AppInitTypes, InitSlots
<1>2. AppInv /\ SlotsOK /\ [AppNext]_appVars => (AppInv /\ SlotsOK)'
  BY AppNextStep, SlotsStep
<1>3. PartsOK
  BY Parts
<1>. QED
  BY <1>1, <1>2, <1>3, PTL DEF AppSpec

\* The slots of a message queue are conserved: its two semaphores and the tasks
\* inside eos_send_message and eos_receive_message always account for all of
\* them, for any programs, any number of senders and receivers, and ticks that
\* come between any two stages.
THEOREM SlotsAlwaysConserved ==
  ASSUME IsFiniteSet(Tasks)
  PROVE  AppSpec => []SlotsConserved
<1>1. SlotsOK /\ PartsOK => SlotsConserved
  BY DEF SlotsOK, PartsOK, SlotsConserved
<1>. QED
  BY <1>1, AppInvariant, PTL

-----------------------------------------------------------------------------
(* The ring buffers, with one sender and one receiver on each queue *)

OnePair ==
  \A t, u \in Users : \A i \in DOMAIN Program[t], j \in DOMAIN Program[u] :
    /\ Program[t][i].op \in {"send", "receive"} /\ Program[u][j].op = Program[t][i].op
    /\ Program[u][j].q = Program[t][i].q
    => t = u

\* The slots between front and rear, the messages that can be received, and
\* whether front lags behind by one.
InRing(q) == count[GetSem[q]] + One("send", q, "release")
             + One("receive", q, "copy") + One("receive", q, "advance")
Full(q) == count[GetSem[q]] + One("send", q, "advance") + One("send", q, "release")
           + One("receive", q, "copy")
Lag(q) == One("receive", q, "advance")

SameNumbers(q) == InRing(q)' = InRing(q) /\ Full(q)' = Full(q) /\ Lag(q)' = Lag(q)

LEMMA OnlyTask ==
  ASSUME OnePair, AppTypes, NEW c \in Users, Comm(c), NEW st \in Busy, Position(c) = st
  PROVE  \A s \in Busy : One(Act(c).op, Act(c).q, s) = IF s = st THEN 1 ELSE 0
<1>1. SUFFICES ASSUME NEW s \in Busy
      PROVE  One(Act(c).op, Act(c).q, s) = IF s = st THEN 1 ELSE 0
  OBVIOUS
<1>2. \A u \in Users : step[u] \in DOMAIN Program[u]
  <2>1. \A u \in Users : Program[u] \in Seq(Operations)
    BY ProgramAssumption DEF Users
  <2>. QED BY <2>1 DEF AppTypes
<1>3. \A u \in Users : Act(u).op = Act(c).op /\ Act(u).q = Act(c).q => u = c
  BY <1>2 DEF OnePair, Comm, Act
<1>4. InStage(Act(c).op, Act(c).q, {s}) = {t \in Users : Does(t, Act(c).op, Act(c).q, s)}
  BY InOne, ZenonT(40)
<1>5. CASE s = st
  <2>1. InStage(Act(c).op, Act(c).q, {s}) = {c}
    BY <1>3, <1>4, <1>5 DEF Does
  <2>. QED BY <1>5, <2>1, FS_Singleton DEF One
<1>6. CASE s # st
  <2>1. InStage(Act(c).op, Act(c).q, {s}) = {}
    BY <1>3, <1>4, <1>6 DEF Does
  <2>. QED BY <1>6, <2>1, FS_EmptySet DEF One
<1>. QED
  BY <1>5, <1>6

LEMMA TakeNumbers ==
  ASSUME IsFiniteSet(Tasks), AppInv, NEW c \in Users, Takes(c), NEW q \in Queues
  PROVE  SameNumbers(q)
<1>1. PICK o \in {"send", "receive"}, r \in Queues : o = Act(c).op /\ r = Act(c).q
  BY DEF Takes, Moves, Comm
<1>2. PICK s : s = AwaitedBy(c) OBVIOUS
<1>3. s = (IF o = "send" THEN PutSem[r] ELSE GetSem[r]) /\ s \in Sems
  BY <1>1, <1>2, OwnSems DEF AwaitedBy
<1>4. count' = [count EXCEPT ![s] = count[s] - 1]
  BY <1>2 DEF Takes
<1>5. /\ Elsewhere(c, {"copy"})
      /\ One(o, r, "copy")' = One(o, r, "copy") + 1
  BY <1>1, TakeCounts
<1>6. \A x \in Sems : count'[x] = IF x = s THEN count[s] - 1 ELSE count[x]
  BY <1>3, <1>4, SemCounts
<1>7. GetSem[q] \in Sems /\ count[GetSem[q]] \in Nat /\ \A op, st : One(op, q, st) \in Nat
  BY CountTypes, OwnSems DEF AppInv
<1>8. \A st \in Busy : One("send", q, st)' = One("send", q, st) \/ st = "copy"
  BY <1>5 DEF Elsewhere
<1>9. \A st \in Busy \ {"copy"} : One("receive", q, st)' = One("receive", q, st)
  BY <1>5 DEF Elsewhere
<1>10. CASE o = "receive" /\ q = r
  <2>1. count'[GetSem[q]] = count[GetSem[q]] - 1
    BY <1>3, <1>6, <1>7, <1>10
  <2>2. One("receive", q, "copy")' = One("receive", q, "copy") + 1
    BY <1>5, <1>10
  <2>. QED BY <1>7, <1>8, <1>9, <2>1, <2>2 DEF SameNumbers, InRing, Full, Lag, Busy
<1>11. CASE ~(o = "receive" /\ q = r)
  <2>1. count'[GetSem[q]] = count[GetSem[q]]
    BY <1>1, <1>3, <1>6, <1>7, <1>11, OwnSems
  <2>2. One("receive", q, "copy")' = One("receive", q, "copy")
    BY <1>1, <1>5, <1>11 DEF Elsewhere, Busy
  <2>. QED BY <1>7, <1>8, <1>9, <2>1, <2>2 DEF SameNumbers, InRing, Full, Lag, Busy
<1>. QED
  BY <1>10, <1>11

LEMMA GiveNumbers ==
  ASSUME IsFiniteSet(Tasks), AppInv, NEW c \in Users, Gives(c), NEW q \in Queues
  PROVE  SameNumbers(q)
<1>1. PICK o \in {"send", "receive"}, r \in Queues : o = Act(c).op /\ r = Act(c).q
  BY DEF Gives, Moves, Comm
<1>2. PICK s : s = SignalledBy(c) OBVIOUS
<1>3. s = (IF o = "send" THEN GetSem[r] ELSE PutSem[r]) /\ s \in Sems
  BY <1>1, <1>2, OwnSems DEF SignalledBy
<1>4. count' = [count EXCEPT ![s] = count[s] + 1]
  BY <1>2 DEF Gives
<1>5. /\ Elsewhere(c, {"release"})
      /\ One(o, r, "release")' = One(o, r, "release") - 1
  BY <1>1, GiveCounts
<1>6. \A x \in Sems : count'[x] = IF x = s THEN count[s] + 1 ELSE count[x]
  BY <1>3, <1>4, SemCounts
<1>7. GetSem[q] \in Sems /\ count[GetSem[q]] \in Nat /\ \A op, st : One(op, q, st) \in Nat
  BY CountTypes, OwnSems DEF AppInv
<1>8. \A op : \A st \in Busy \ {"release"} : One(op, q, st)' = One(op, q, st)
  BY <1>5 DEF Elsewhere
<1>9. CASE o = "send" /\ q = r
  <2>1. count'[GetSem[q]] = count[GetSem[q]] + 1
    BY <1>3, <1>6, <1>7, <1>9
  <2>2. One("send", q, "release")' = One("send", q, "release") - 1
    BY <1>5, <1>9
  <2>. QED BY <1>7, <1>8, <2>1, <2>2 DEF SameNumbers, InRing, Full, Lag, Busy
<1>10. CASE ~(o = "send" /\ q = r)
  <2>1. count'[GetSem[q]] = count[GetSem[q]]
    BY <1>1, <1>3, <1>6, <1>7, <1>10, OwnSems
  <2>2. One("send", q, "release")' = One("send", q, "release")
    BY <1>1, <1>5, <1>10 DEF Elsewhere, Busy
  <2>. QED BY <1>7, <1>8, <2>1, <2>2 DEF SameNumbers, InRing, Full, Lag, Busy
<1>. QED
  BY <1>9, <1>10

LEMMA CopyNumbers ==
  ASSUME IsFiniteSet(Tasks), AppInv, NEW c \in Users, Copies(c), NEW q \in Queues
  PROVE  /\ q # Act(c).q => SameNumbers(q)
         /\ q = Act(c).q /\ Act(c).op = "send" =>
              InRing(q)' = InRing(q) /\ Full(q)' = Full(q) + 1 /\ Lag(q)' = Lag(q)
         /\ q = Act(c).q /\ Act(c).op = "receive" =>
              InRing(q)' = InRing(q) /\ Full(q)' = Full(q) - 1 /\ Lag(q)' = Lag(q) + 1
<1>1. PICK o \in {"send", "receive"}, r \in Queues : o = Act(c).op /\ r = Act(c).q
  BY DEF Copies, Moves, Comm
<1>2. /\ Elsewhere(c, {"copy", "advance"})
      /\ One(o, r, "copy")' = One(o, r, "copy") - 1
      /\ One(o, r, "advance")' = One(o, r, "advance") + 1
  BY <1>1, MoveCounts DEF Copies, Moves, Busy
<1>3. count[GetSem[q]] \in Nat /\ UNCHANGED count /\ \A op, st : One(op, q, st) \in Nat
  BY CountTypes, OwnSems DEF AppInv, Copies
<1>4. CASE q # r
  <2>1. \A op : \A st \in Busy : One(op, q, st)' = One(op, q, st)
    BY <1>1, <1>2, <1>4 DEF Elsewhere
  <2>. QED BY <1>1, <1>3, <1>4, <2>1 DEF SameNumbers, InRing, Full, Lag, Busy
<1>5. CASE q = r /\ o = "send"
  <2>1. /\ One("send", q, "advance")' = One("send", q, "advance") + 1
        /\ One("send", q, "release")' = One("send", q, "release")
        /\ \A st \in Busy : One("receive", q, st)' = One("receive", q, st)
    BY <1>1, <1>2, <1>5 DEF Elsewhere, Busy
  <2>. QED BY <1>1, <1>3, <1>5, <2>1 DEF SameNumbers, InRing, Full, Lag, Busy
<1>6. CASE q = r /\ o = "receive"
  <2>1. /\ One("receive", q, "advance")' = One("receive", q, "advance") + 1
        /\ One("receive", q, "copy")' = One("receive", q, "copy") - 1
        /\ \A st \in Busy : One("send", q, st)' = One("send", q, st)
    BY <1>1, <1>2, <1>6 DEF Elsewhere, Busy
  <2>. QED BY <1>1, <1>3, <1>6, <2>1 DEF SameNumbers, InRing, Full, Lag, Busy
<1>. QED
  BY <1>4, <1>5, <1>6

LEMMA AdvanceNumbers ==
  ASSUME IsFiniteSet(Tasks), AppInv, NEW c \in Users, Advances(c), NEW q \in Queues
  PROVE  /\ q # Act(c).q => SameNumbers(q)
         /\ q = Act(c).q /\ Act(c).op = "send" =>
              InRing(q)' = InRing(q) + 1 /\ Full(q)' = Full(q) /\ Lag(q)' = Lag(q)
         /\ q = Act(c).q /\ Act(c).op = "receive" =>
              InRing(q)' = InRing(q) - 1 /\ Full(q)' = Full(q) /\ Lag(q)' = Lag(q) - 1
<1>1. PICK o \in {"send", "receive"}, r \in Queues : o = Act(c).op /\ r = Act(c).q
  BY DEF Advances, Moves, Comm
<1>2. /\ Elsewhere(c, {"advance", "release"})
      /\ One(o, r, "advance")' = One(o, r, "advance") - 1
      /\ One(o, r, "release")' = One(o, r, "release") + 1
  BY <1>1, MoveCounts DEF Advances, Moves, Busy
<1>3. count[GetSem[q]] \in Nat /\ UNCHANGED count /\ \A op, st : One(op, q, st) \in Nat
  BY CountTypes, OwnSems DEF AppInv, Advances
<1>4. CASE q # r
  <2>1. \A op : \A st \in Busy : One(op, q, st)' = One(op, q, st)
    BY <1>1, <1>2, <1>4 DEF Elsewhere
  <2>. QED BY <1>1, <1>3, <1>4, <2>1 DEF SameNumbers, InRing, Full, Lag, Busy
<1>5. CASE q = r /\ o = "send"
  <2>1. /\ One("send", q, "advance")' = One("send", q, "advance") - 1
        /\ One("send", q, "release")' = One("send", q, "release") + 1
        /\ \A st \in Busy : One("receive", q, st)' = One("receive", q, st)
    BY <1>1, <1>2, <1>5 DEF Elsewhere, Busy
  <2>. QED BY <1>1, <1>3, <1>5, <2>1 DEF SameNumbers, InRing, Full, Lag, Busy
<1>6. CASE q = r /\ o = "receive"
  <2>1. /\ One("receive", q, "advance")' = One("receive", q, "advance") - 1
        /\ One("receive", q, "copy")' = One("receive", q, "copy")
        /\ \A st \in Busy : One("send", q, st)' = One("send", q, st)
    BY <1>1, <1>2, <1>6 DEF Elsewhere, Busy
  <2>. QED BY <1>1, <1>3, <1>6, <2>1 DEF SameNumbers, InRing, Full, Lag, Busy
<1>. QED
  BY <1>4, <1>5, <1>6

LEMMA RestNumbers ==
  ASSUME Rests, NEW q \in Queues
  PROVE  SameNumbers(q)
<1>1. \A op : \A st \in Busy : One(op, q, st)' = One(op, q, st)
  BY RestCounts
<1>. QED
  BY <1>1 DEF Rests, SameNumbers, InRing, Full, Lag, Busy

-----------------------------------------------------------------------------
(* Rings *)

Wrapped(x, size) == IF x < size THEN x ELSE x - size
CellsOf(f, x, n, size) == [i \in 1..n |-> f[(x + i - 1) % size]]

LEMMA WrappedMod ==
  ASSUME NEW size \in Nat \ {0}, NEW x \in 0..(2 * size - 1)
  PROVE  x % size = Wrapped(x, size) /\ Wrapped(x, size) \in 0..size - 1
  BY DEF Wrapped

LEMMA CellIndex ==
  ASSUME NEW size \in Nat \ {0}, NEW x \in 0..size, NEW n \in 0..size, NEW i \in 1..n
  PROVE  /\ (x + i - 1) % size = Wrapped(x + i - 1, size)
         /\ Wrapped(x + i - 1, size) \in 0..size - 1
<1> DEFINE y == x + i - 1
<1>1. y \in 0..(2 * size - 1) OBVIOUS
<1> HIDE DEF y
<1>2. y % size = Wrapped(y, size) /\ Wrapped(y, size) \in 0..size - 1
  BY <1>1, WrappedMod
<1>. QED BY <1>2 DEF y

\* s is the sequence of n cells of f from x on.
AreCells(s, M, f, x, n, size) ==
  /\ s \in Seq(M) /\ Len(s) = n
  /\ \A i \in 1..n : s[i] = f[Wrapped(x + i - 1, size)]

LEMMA CellsSeq ==
  ASSUME NEW M, NEW size \in Nat \ {0}, NEW f \in [0..size - 1 -> M],
         NEW x \in 0..size, NEW n \in 0..size
  PROVE  AreCells(CellsOf(f, x, n, size), M, f, x, n, size)
<1>1. \A i \in 1..n : /\ (x + i - 1) % size = Wrapped(x + i - 1, size)
                      /\ Wrapped(x + i - 1, size) \in 0..size - 1
  BY CellIndex
<1>2. \A i \in 1..n : f[(x + i - 1) % size] \in M
  BY <1>1
<1>3. CellsOf(f, x, n, size) \in [1..n -> M] /\ n \in Nat
  BY <1>2 DEF CellsOf
<1>4. \A i \in 1..n : CellsOf(f, x, n, size)[i] = f[Wrapped(x + i - 1, size)]
  BY <1>1 DEF CellsOf
<1>. QED
  BY <1>3, <1>4 DEF AreCells

\* A message written behind the last one
WriteAt(M, size, f, x, n, m, w) ==
  /\ size \in Nat \ {0} /\ f \in [0..size - 1 -> M] /\ x \in 0..size
  /\ n \in 0..size - 1 /\ m \in M /\ w = Wrapped(x + n, size)
Appended(size, f, x, n, m, w) ==
  CellsOf([f EXCEPT ![w] = m], x, n + 1, size) = Append(CellsOf(f, x, n, size), m)

LEMMA CellsAppend ==
  ASSUME NEW M, NEW size, NEW f, NEW x, NEW n, NEW m, NEW w, WriteAt(M, size, f, x, n, m, w)
  PROVE  Appended(size, f, x, n, m, w)
<1>0. /\ size \in Nat \ {0} /\ f \in [0..size - 1 -> M] /\ x \in 0..size
      /\ n \in 0..size - 1 /\ m \in M /\ w = Wrapped(x + n, size)
  BY DEF WriteAt
<1> DEFINE g == [f EXCEPT ![w] = m]
           s == CellsOf(f, x, n, size)
           t == CellsOf(g, x, n + 1, size)
<1>1. w \in 0..size - 1 /\ \A i \in 1..n : Wrapped(x + i - 1, size) # w
  BY <1>0 DEF Wrapped
<1>2. g \in [0..size - 1 -> M] /\ g[w] = m /\ \A v \in 0..size - 1 : v # w => g[v] = f[v]
  BY <1>0, <1>1
<1>3. \A i \in 1..n + 1 : Wrapped(x + i - 1, size) \in 0..size - 1
  BY <1>0 DEF Wrapped
<1> HIDE DEF g
<1>13. n \in 0..size /\ n + 1 \in 0..size /\ size \in Nat \ {0}
  BY <1>0
<1>14. AreCells(s, M, f, x, n, size) /\ AreCells(t, M, g, x, n + 1, size)
  BY <1>0, <1>2, <1>13, CellsSeq
<1> HIDE DEF s, t
<1>4. /\ s \in Seq(M) /\ Len(s) = n
      /\ \A i \in 1..n : s[i] = f[Wrapped(x + i - 1, size)]
  BY <1>14 DEF AreCells
<1>5. /\ t \in Seq(M) /\ Len(t) = n + 1
      /\ \A i \in 1..n + 1 : t[i] = g[Wrapped(x + i - 1, size)]
  BY <1>14 DEF AreCells
<1>6. t[n + 1] = m
  BY <1>0, <1>2, <1>5
<1>7. \A i \in 1..n : t[i] = s[i]
  BY <1>0, <1>1, <1>2, <1>3, <1>4, <1>5
<1>8. PICK u : u = Append(s, m) OBVIOUS
<1>9. /\ u \in Seq(M) /\ Len(u) = n + 1 /\ u[n + 1] = m
      /\ \A i \in 1..n : u[i] = s[i]
  BY <1>0, <1>4, <1>8
<1>10. \A i \in 1..Len(t) : t[i] = u[i]
  <2>1. \A i \in 1..n : t[i] = u[i]
    BY <1>7, <1>9
  <2>2. t[n + 1] = u[n + 1]
    BY <1>6, <1>9
  <2>3. \A i \in 1..n + 1 : i \in 1..n \/ i = n + 1
    BY <1>0
  <2>. QED BY <1>5, <2>1, <2>2, <2>3
<1>11. t = u
  BY <1>0, <1>5, <1>9, <1>10, SeqEqual
<1>. QED
  BY <1>8, <1>11 DEF Appended, s, t, g

\* The oldest message is read.
ReadAt(M, size, f, x, n) == /\ size \in Nat \ {0} /\ f \in [0..size - 1 -> M]
                            /\ x \in 0..size - 1 /\ n \in 1..size
OldestTaken(size, f, x, n) ==
  LET s == CellsOf(f, x, n, size)
  IN  s # <<>> /\ Head(s) = f[x] /\ Tail(s) = CellsOf(f, x + 1, n - 1, size)

LEMMA CellsTail ==
  ASSUME NEW M, NEW size, NEW f, NEW x, NEW n, ReadAt(M, size, f, x, n)
  PROVE  OldestTaken(size, f, x, n)
<1>0. /\ size \in Nat \ {0} /\ f \in [0..size - 1 -> M]
      /\ x \in 0..size - 1 /\ n \in 1..size
  BY DEF ReadAt
<1> DEFINE s == CellsOf(f, x, n, size)
           t == CellsOf(f, x + 1, n - 1, size)
<1>11. x \in 0..size /\ x + 1 \in 0..size /\ n \in 0..size /\ n - 1 \in 0..size
  BY <1>0
<1>12. AreCells(s, M, f, x, n, size) /\ AreCells(t, M, f, x + 1, n - 1, size)
  BY <1>0, <1>11, CellsSeq
<1> HIDE DEF s, t
<1>1. /\ s \in Seq(M) /\ Len(s) = n
      /\ \A i \in 1..n : s[i] = f[Wrapped(x + i - 1, size)]
  BY <1>12 DEF AreCells
<1>2. /\ t \in Seq(M) /\ Len(t) = n - 1
      /\ \A i \in 1..n - 1 : t[i] = f[Wrapped(x + 1 + i - 1, size)]
  BY <1>12 DEF AreCells
<1>3. \A i \in 1..n - 1 : t[i] = s[i + 1]
  BY <1>0, <1>1, <1>2
<1>4. s # <<>> /\ Head(s) = s[1]
  BY <1>0, <1>1
<1>5. Wrapped(x + 1 - 1, size) = x
  BY <1>0 DEF Wrapped
<1>6. PICK u : u = Tail(s) OBVIOUS
<1>7. u \in Seq(M) /\ Len(u) = n - 1 /\ \A i \in 1..n - 1 : u[i] = s[i + 1]
  BY <1>0, <1>1, <1>4, <1>6, HeadTailProperties
<1>8. \A i \in 1..Len(t) : t[i] = u[i]
  BY <1>0, <1>2, <1>3, <1>7
<1>9. t = u
  BY <1>0, <1>2, <1>7, <1>8, SeqEqual
<1>10. Head(s) = f[x]
  BY <1>0, <1>1, <1>4, <1>5
<1>. QED
  BY <1>4, <1>6, <1>9, <1>10 DEF OldestTaken, s, t

\* The index comes around.
LEMMA CellsAround ==
  ASSUME NEW f, NEW size \in Nat \ {0}, NEW n \in 0..size
  PROVE  CellsOf(f, size, n, size) = CellsOf(f, 0, n, size)
<1>1. \A i \in 1..n : Wrapped(size + i - 1, size) = Wrapped(0 + i - 1, size)
  BY DEF Wrapped
<1>2. \A i \in 1..n : /\ (size + i - 1) % size = Wrapped(size + i - 1, size)
                      /\ (0 + i - 1) % size = Wrapped(0 + i - 1, size)
  <2>1. size \in 0..size /\ 0 \in 0..size
    OBVIOUS
  <2>. QED BY <2>1, CellIndex, Zenon
<1>3. \A i \in 1..n : (size + i - 1) % size = (0 + i - 1) % size
  BY <1>1, <1>2
<1>. QED
  BY <1>3 DEF CellsOf

-----------------------------------------------------------------------------
(* The ring of each queue *)

Stored == Msgs \cup {NoMsg}
QueueOK(q) ==
  /\ front[q] \in 0..Size[q] - 1
  /\ rear[q] = Wrapped(front[q] + InRing(q), Size[q])
  /\ buffer[q] \in [0..Size[q] - 1 -> Stored]
RingOK ==
  /\ front \in [Queues -> Nat] /\ rear \in [Queues -> Nat]
  /\ buffer \in [Queues -> UNION {[0..n - 1 -> Stored] : n \in Nat}]
  /\ \A q \in Queues : QueueOK(q)

\* A sender that has not advanced rear yet is in none of the numbers of the ring.
LEMMA RingNumbers ==
  ASSUME IsFiniteSet(Tasks), AppInv, SlotsOK, NEW q \in Queues
  PROVE  /\ Size[q] \in Nat \ {0}
         /\ InRing(q) \in 0..Size[q] /\ Full(q) \in 0..Size[q] /\ Lag(q) \in 0..InRing(q)
         /\ InRing(q) + One("send", q, "advance") = Full(q) + Lag(q)
         /\ One("send", q, "copy") > 0 \/ One("send", q, "advance") > 0 => InRing(q) < Size[q]
         /\ One("send", q, "copy") > 0 => Full(q) < Size[q]
         /\ One("receive", q, "copy") > 0 => Full(q) > 0
<1>1. /\ count[PutSem[q]] \in Nat /\ count[GetSem[q]] \in Nat /\ Size[q] \in Nat \ {0}
      /\ \A op, st : One(op, q, st) \in Nat
  BY CountTypes, OwnSems DEF AppInv
<1>2. count[PutSem[q]] + count[GetSem[q]] + Handled("send", q) + Handled("receive", q) = Size[q]
  BY DEF SlotsOK
<1>. QED
  BY <1>1, <1>2 DEF Handled, InRing, Full, Lag

LEMMA AdvanceWraps ==
  ASSUME NEW q \in Queues, NEW x \in 0..Size[q] - 1
  PROVE  /\ Advance(x, q) \in 0..Size[q] - 1
         /\ Advance(x, q) = Wrapped(x + 1, Size[q])
  BY OwnSems DEF Advance, Wrapped

LEMMA QuietRing ==
  ASSUME RingOK, UNCHANGED <<front, rear, buffer>>, \A q \in Queues : InRing(q)' = InRing(q)
  PROVE  RingOK'
  BY DEF RingOK, QueueOK

LEMMA CopyRing ==
  ASSUME IsFiniteSet(Tasks), AppInv, SlotsOK, RingOK, NEW c \in Users, Copies(c)
  PROVE  RingOK'
<1>1. PICK o \in {"send", "receive"}, r \in Queues : o = Act(c).op /\ r = Act(c).q
  BY DEF Copies, Moves, Comm
<1>2. \A q \in Queues : InRing(q)' = InRing(q)
  BY <1>1, CopyNumbers DEF SameNumbers
<1>3. UNCHANGED <<front, rear>>
  BY DEF Copies
<1>4. CASE UNCHANGED buffer
  BY <1>2, <1>3, <1>4, QuietRing
<1>5. CASE WritesSlot(c)
  <2>1. PICK m \in Msgs : buffer' = [buffer EXCEPT ![r][rear[r]] = m]
    BY <1>1, <1>5 DEF WritesSlot
  <2>2. PICK b : b = [buffer[r] EXCEPT ![rear[r]] = m]
    OBVIOUS
  <2>3. /\ buffer[r] \in [0..Size[r] - 1 -> Stored] /\ Size[r] \in Nat
        /\ buffer \in [Queues -> UNION {[0..n - 1 -> Stored] : n \in Nat}]
    BY OwnSems DEF RingOK, QueueOK
  <2>4. b \in [0..Size[r] - 1 -> Stored]
    BY <2>2, <2>3 DEF Stored
  <2>5. buffer' = [buffer EXCEPT ![r] = b]
    BY <2>1, <2>2
  <2>6. b \in UNION {[0..n - 1 -> Stored] : n \in Nat}
    BY <2>3, <2>4
  <2>7. /\ buffer' \in [Queues -> UNION {[0..n - 1 -> Stored] : n \in Nat}]
        /\ \A q \in Queues : buffer'[q] = IF q = r THEN b ELSE buffer[q]
    BY <2>3, <2>5, <2>6
  <2>8. \A q \in Queues : QueueOK(q)'
    BY <1>2, <1>3, <2>4, <2>7 DEF RingOK, QueueOK
  <2>. QED BY <1>3, <2>7, <2>8 DEF RingOK
<1>. QED
  BY <1>4, <1>5 DEF Copies, ReadsSlot

LEMMA AdvanceRing ==
  ASSUME IsFiniteSet(Tasks), OnePair, AppInv, SlotsOK, RingOK, NEW c \in Users, Advances(c)
  PROVE  RingOK'
<1>1. PICK o \in {"send", "receive"}, r \in Queues : o = Act(c).op /\ r = Act(c).q
  BY DEF Advances, Moves, Comm
<1>2. \A q \in Queues \ {r} : InRing(q)' = InRing(q)
  BY <1>1, AdvanceNumbers DEF SameNumbers
<1>3. One(o, r, "advance") = 1
  BY <1>1, OnlyTask DEF Advances, Moves, AppInv, Busy
<1>4. /\ Size[r] \in Nat \ {0} /\ InRing(r) \in 0..Size[r]
      /\ Lag(r) \in 0..InRing(r) /\ Lag(r) = One("receive", r, "advance")
      /\ One("send", r, "advance") > 0 => InRing(r) < Size[r]
  BY RingNumbers DEF Lag
<1>5. /\ front \in [Queues -> Nat] /\ rear \in [Queues -> Nat] /\ UNCHANGED buffer
      /\ QueueOK(r)
  BY DEF RingOK, Advances
<1>6. front[r] \in 0..Size[r] - 1 /\ rear[r] = Wrapped(front[r] + InRing(r), Size[r])
  BY <1>5 DEF QueueOK
<1>7. rear[r] \in 0..Size[r] - 1
  BY <1>4, <1>6 DEF Wrapped
<1>8. CASE o = "send"
  <2>1. InRing(r)' = InRing(r) + 1 /\ InRing(r) < Size[r]
    <3>1. InRing(r)' = InRing(r) + 1
      BY <1>1, <1>8, AdvanceNumbers
    <3>2. One("send", r, "advance") = 1
      BY <1>3, <1>8
    <3>. QED BY <1>4, <3>1, <3>2
  <2>2. UNCHANGED front /\ rear' = [rear EXCEPT ![r] = Advance(rear[r], r)]
    BY <1>1, <1>8 DEF Advances
  <2>3. Advance(rear[r], r) \in 0..Size[r] - 1 /\ Advance(rear[r], r) = Wrapped(rear[r] + 1, Size[r])
    BY <1>7, AdvanceWraps
  <2>4. /\ rear' \in [Queues -> Nat] /\ rear'[r] = Advance(rear[r], r)
        /\ \A q \in Queues \ {r} : rear'[q] = rear[q]
    BY <1>5, <2>2, <2>3
  <2>5. Wrapped(rear[r] + 1, Size[r]) = Wrapped(front[r] + (InRing(r) + 1), Size[r])
    BY <1>4, <1>6, <2>1 DEF Wrapped
  <2>6. QueueOK(r)'
    BY <1>5, <2>1, <2>2, <2>3, <2>4, <2>5 DEF QueueOK
  <2>7. \A q \in Queues \ {r} : QueueOK(q)'
    BY <1>2, <1>5, <2>2, <2>4 DEF RingOK, QueueOK
  <2>. QED BY <1>5, <2>2, <2>4, <2>6, <2>7 DEF RingOK
<1>9. CASE o = "receive"
  <2>1. InRing(r)' = InRing(r) - 1 /\ InRing(r) >= 1
    <3>1. InRing(r)' = InRing(r) - 1
      BY <1>1, <1>9, AdvanceNumbers
    <3>2. One("receive", r, "advance") = 1
      BY <1>3, <1>9
    <3>. QED BY <1>4, <3>1, <3>2
  <2>2. UNCHANGED rear /\ front' = [front EXCEPT ![r] = Advance(front[r], r)]
    BY <1>1, <1>9 DEF Advances
  <2>3. Advance(front[r], r) \in 0..Size[r] - 1 /\ Advance(front[r], r) = Wrapped(front[r] + 1, Size[r])
    BY <1>6, AdvanceWraps
  <2>4. /\ front' \in [Queues -> Nat] /\ front'[r] = Advance(front[r], r)
        /\ \A q \in Queues \ {r} : front'[q] = front[q]
    BY <1>5, <2>2, <2>3
  <2>5. rear[r] = Wrapped(Wrapped(front[r] + 1, Size[r]) + (InRing(r) - 1), Size[r])
    BY <1>4, <1>6, <2>1 DEF Wrapped
  <2>6. QueueOK(r)'
    BY <1>5, <2>1, <2>2, <2>3, <2>4, <2>5 DEF QueueOK
  <2>7. \A q \in Queues \ {r} : QueueOK(q)'
    BY <1>2, <1>5, <2>2, <2>4 DEF RingOK, QueueOK
  <2>. QED BY <1>5, <2>2, <2>4, <2>6, <2>7 DEF RingOK
<1>. QED
  BY <1>8, <1>9

LEMMA RingStep ==
  ASSUME IsFiniteSet(Tasks), OnePair, AppInv, SlotsOK, RingOK, AppStep
  PROVE  RingOK'
<1>1. CASE Rests
  BY <1>1, QuietRing, RestNumbers DEF Rests, SameNumbers
<1>2. ASSUME NEW c \in Users, Takes(c) PROVE RingOK'
  BY <1>2, QuietRing, TakeNumbers DEF Takes, SameNumbers
<1>3. ASSUME NEW c \in Users, Gives(c) PROVE RingOK'
  BY <1>3, QuietRing, GiveNumbers DEF Gives, SameNumbers
<1>. QED
  BY <1>1, <1>2, <1>3, CopyRing, AdvanceRing DEF AppStep

LEMMA InitRing == AppInit => RingOK /\ \A q \in Queues : Full(q) = 0
<1>1. SUFFICES ASSUME AppInit PROVE RingOK /\ \A q \in Queues : Full(q) = 0
  OBVIOUS
<1>2. \A q \in Queues : count[GetSem[q]] = 0 /\ Size[q] \in Nat \ {0}
  BY <1>1, QueueAssumption DEF AppInit, Init
<1>3. \A q \in Queues : InRing(q) = 0 /\ Full(q) = 0
  BY <1>1, <1>2, NobodyBusy DEF InRing, Full, Busy
<1>4. \A q \in Queues : [i \in 0..Size[q] - 1 |-> NoMsg] \in [0..Size[q] - 1 -> Stored]
  BY DEF Stored
<1>5. \A q \in Queues : [i \in 0..Size[q] - 1 |-> NoMsg] \in UNION {[0..n - 1 -> Stored] : n \in Nat}
  BY <1>2, <1>4
<1>6. \A q \in Queues : QueueOK(q)
  BY <1>1, <1>2, <1>3, <1>4 DEF AppInit, QueueOK, Wrapped
<1>. QED
  BY <1>1, <1>3, <1>5, <1>6 DEF AppInit, RingOK

-----------------------------------------------------------------------------
(* The rings implement queues *)

Bar(q) == CellsOf(buffer[q], front[q] + Lag(q), Full(q), Size[q])

LEMMA ContentsBar ==
  ASSUME IsFiniteSet(Tasks), PartsOK, IInv, NEW q \in Queues
  PROVE  Contents(q) = Bar(q)
<1>1. /\ Cardinality(InStage("send", q, {"advance", "release"})) =
            One("send", q, "advance") + One("send", q, "release")
      /\ Cardinality(InStage("receive", q, {"copy"})) = One("receive", q, "copy")
      /\ Cardinality(InStage("receive", q, {"advance"})) = Lag(q)
  BY DEF PartsOK, One, Lag
<1>2. count[GetSem[q]] \in Nat /\ \A op, st : One(op, q, st) \in Nat
  BY CountTypes, OwnSems
<1>3. count[GetSem[q]] + Cardinality(InStage("send", q, {"advance", "release"}))
        + Cardinality(InStage("receive", q, {"copy"})) = Full(q)
  BY <1>1, <1>2 DEF Full
<1>. QED
  BY <1>1, <1>3 DEF Contents, Bar, CellsOf

QuietStep == UNCHANGED got /\ \A q \in Queues : Bar(q)' = Bar(q)
SendStep(q, m) == /\ Len(Bar(q)) < Size[q] /\ Bar(q)' = Append(Bar(q), m) /\ UNCHANGED got
                  /\ \A r \in Queues \ {q} : Bar(r)' = Bar(r)
ReceiveStep(t, q) == /\ Bar(q) # <<>> /\ Bar(q)' = Tail(Bar(q))
                     /\ got' = [got EXCEPT ![t] = Head(Bar(q))]
                     /\ \A r \in Queues \ {q} : Bar(r)' = Bar(r)
QueueStep == \/ QuietStep
             \/ \E q \in Queues : \/ \E m \in Msgs : SendStep(q, m)
                                  \/ \E t \in Tasks : ReceiveStep(t, q)

LEMMA SameBar ==
  ASSUME NEW q \in Queues, SameNumbers(q), buffer'[q] = buffer[q], front'[q] = front[q]
  PROVE  Bar(q)' = Bar(q)
  BY DEF SameNumbers, Bar

LEMMA QuietBars ==
  ASSUME IsFiniteSet(Tasks), AppInv, Rests \/ \E c \in Users : Takes(c) \/ Gives(c)
  PROVE  QuietStep
<1>1. \A q \in Queues : SameNumbers(q)
  BY RestNumbers, TakeNumbers, GiveNumbers
<1>2. UNCHANGED <<front, buffer, got>>
  BY DEF Rests, Takes, Gives
<1>. QED
  BY <1>1, <1>2, SameBar DEF QuietStep

\* At most one receiver has copied a message and not advanced front yet.
LEMMA LagOne ==
  ASSUME IsFiniteSet(Tasks), OnePair, AppTypes, NEW q \in Queues
  PROVE  Lag(q) \in {0, 1}
<1>1. InStage("receive", q, {"advance"}) = {t \in Users : Does(t, "receive", q, "advance")}
  BY InOne DEF Busy
<1>2. CASE InStage("receive", q, {"advance"}) = {}
  BY <1>2, FS_EmptySet DEF Lag, One
<1>3. CASE InStage("receive", q, {"advance"}) # {}
  <2>1. PICK t \in Users : Does(t, "receive", q, "advance")
    BY <1>1, <1>3
  <2>2. Comm(t) /\ Position(t) = "advance" /\ Act(t).op = "receive" /\ Act(t).q = q
    BY <2>1 DEF Does, Comm
  <2>3. One("receive", q, "advance") = 1
    BY <2>2, OnlyTask DEF Busy
  <2>. QED BY <2>3 DEF Lag
<1>. QED
  BY <1>2, <1>3

LEMMA SendBars ==
  ASSUME IsFiniteSet(Tasks), OnePair, AppInv, SlotsOK, RingOK,
         NEW c \in Users, Copies(c), WritesSlot(c)
  PROVE  \E q \in Queues, m \in Msgs : SendStep(q, m)
<1>1. PICK r \in Queues : r = Act(c).q /\ Act(c).op = "send"
  BY DEF Copies, Moves, Comm, WritesSlot
<1>2. PICK m \in Msgs : buffer' = [buffer EXCEPT ![r][rear[r]] = m] /\ UNCHANGED got
  BY <1>1 DEF WritesSlot
<1>3. \A s \in Busy : One("send", r, s) = IF s = "copy" THEN 1 ELSE 0
  BY <1>1, OnlyTask DEF Copies, Moves, AppInv, Busy
<1>4. One("send", r, "copy") = 1 /\ One("send", r, "advance") = 0
  BY <1>3 DEF Busy
<1>5. /\ Size[r] \in Nat \ {0} /\ Full(r) \in 0..Size[r] /\ Lag(r) \in 0..InRing(r)
      /\ InRing(r) \in 0..Size[r]
      /\ InRing(r) + One("send", r, "advance") = Full(r) + Lag(r)
      /\ One("send", r, "copy") > 0 => Full(r) < Size[r]
  BY RingNumbers
<1>6. Full(r) \in 0..Size[r] - 1 /\ InRing(r) = Full(r) + Lag(r)
  BY <1>4, <1>5
<1>7. Full(r)' = Full(r) + 1 /\ Lag(r)' = Lag(r)
  BY <1>1, CopyNumbers
<1>8. \A q \in Queues \ {r} : SameNumbers(q)
  BY <1>1, CopyNumbers
<1>9. QueueOK(r) /\ UNCHANGED front /\ DOMAIN buffer = Queues
  BY DEF RingOK, Copies
<1>10. /\ buffer'[r] = [buffer[r] EXCEPT ![rear[r]] = m]
       /\ \A q \in Queues \ {r} : buffer'[q] = buffer[q]
  BY <1>2, <1>9
<1>11. /\ front[r] + Lag(r) \in 0..Size[r] /\ rear[r] = Wrapped(front[r] + Lag(r) + Full(r), Size[r])
       /\ buffer[r] \in [0..Size[r] - 1 -> Stored] /\ m \in Stored
  <2>1. Lag(r) \in {0, 1}
    BY LagOne DEF AppInv
  <2>2. front[r] \in 0..Size[r] - 1 /\ rear[r] = Wrapped(front[r] + InRing(r), Size[r])
        /\ buffer[r] \in [0..Size[r] - 1 -> Stored]
    BY <1>9 DEF QueueOK
  <2>3. front[r] + Lag(r) \in 0..Size[r] /\ front[r] + InRing(r) = front[r] + Lag(r) + Full(r)
    BY <1>5, <1>6, <2>1, <2>2
  <2>. QED BY <2>2, <2>3 DEF Stored
<1>12. CellsOf([buffer[r] EXCEPT ![rear[r]] = m], front[r] + Lag(r), Full(r) + 1, Size[r])
         = Append(CellsOf(buffer[r], front[r] + Lag(r), Full(r), Size[r]), m)
  <2>1. PICK x : x = front[r] + Lag(r) OBVIOUS
  <2>2. PICK n : n = Full(r) OBVIOUS
  <2>3. PICK size : size = Size[r] OBVIOUS
  <2>4. PICK f : f = buffer[r] OBVIOUS
  <2>5. PICK w : w = rear[r] OBVIOUS
  <2>6. WriteAt(Stored, size, f, x, n, m, w)
    BY <1>5, <1>6, <1>11, <2>1, <2>2, <2>3, <2>4, <2>5 DEF WriteAt
  <2>7. Appended(size, f, x, n, m, w)
    BY <2>6, CellsAppend, Zenon
  <2>. QED BY <2>1, <2>2, <2>3, <2>4, <2>5, <2>7 DEF Appended
<1>13. Bar(r)' = Append(Bar(r), m)
  BY <1>7, <1>9, <1>10, <1>12 DEF Bar
<1>14. Len(Bar(r)) < Size[r]
  <2>1. AreCells(CellsOf(buffer[r], front[r] + Lag(r), Full(r), Size[r]), Stored,
                 buffer[r], front[r] + Lag(r), Full(r), Size[r])
    BY <1>5, <1>11, CellsSeq
  <2>2. Len(Bar(r)) = Full(r)
    BY <2>1 DEF Bar, AreCells
  <2>. QED BY <1>5, <1>6, <2>2
<1>15. \A q \in Queues \ {r} : Bar(q)' = Bar(q)
  BY <1>8, <1>9, <1>10, SameBar
<1>. QED
  BY <1>2, <1>13, <1>14, <1>15 DEF SendStep

LEMMA ReceiveBars ==
  ASSUME IsFiniteSet(Tasks), OnePair, AppInv, SlotsOK, RingOK,
         NEW c \in Users, Copies(c), ReadsSlot(c)
  PROVE  \E q \in Queues : ReceiveStep(c, q)
<1>1. PICK r \in Queues : r = Act(c).q /\ Act(c).op = "receive"
  BY DEF Copies, Moves, Comm, ReadsSlot
<1>2. got' = [got EXCEPT ![c] = buffer[r][front[r]]] /\ UNCHANGED <<buffer, front>>
  BY <1>1 DEF ReadsSlot, Copies
<1>3. \A s \in Busy : One("receive", r, s) = IF s = "copy" THEN 1 ELSE 0
  BY <1>1, OnlyTask DEF Copies, Moves, AppInv, Busy
<1>4. One("receive", r, "copy") = 1 /\ Lag(r) = 0
  BY <1>3 DEF Busy, Lag
<1>5. /\ Size[r] \in Nat \ {0} /\ Full(r) \in 0..Size[r]
      /\ One("receive", r, "copy") > 0 => Full(r) > 0
  BY RingNumbers
<1>6. Full(r) \in 1..Size[r]
  BY <1>4, <1>5
<1>7. Full(r)' = Full(r) - 1 /\ Lag(r)' = 1
  <2>1. Full(r)' = Full(r) - 1 /\ Lag(r)' = Lag(r) + 1
    BY <1>1, CopyNumbers
  <2>. QED BY <1>4, <2>1
<1>8. \A q \in Queues \ {r} : SameNumbers(q)
  BY <1>1, CopyNumbers
<1>9. front[r] \in 0..Size[r] - 1 /\ buffer[r] \in [0..Size[r] - 1 -> Stored]
  BY DEF RingOK, QueueOK
<1>10. Bar(r) = CellsOf(buffer[r], front[r], Full(r), Size[r])
  <2>1. front[r] + Lag(r) = front[r]
    BY <1>4, <1>5, <1>9
  <2>. QED BY <2>1 DEF Bar
<1>11. Bar(r)' = CellsOf(buffer[r], front[r] + 1, Full(r) - 1, Size[r])
  BY <1>2, <1>7 DEF Bar
<1>12. OldestTaken(Size[r], buffer[r], front[r], Full(r))
  <2>1. ReadAt(Stored, Size[r], buffer[r], front[r], Full(r))
    BY <1>5, <1>6, <1>9 DEF ReadAt
  <2>. QED BY <2>1, CellsTail, Zenon
<1>13. Bar(r) # <<>> /\ Head(Bar(r)) = buffer[r][front[r]] /\ Tail(Bar(r)) = Bar(r)'
  <2>1. PICK s : s = CellsOf(buffer[r], front[r], Full(r), Size[r])
    OBVIOUS
  <2>2. /\ s # <<>> /\ Head(s) = buffer[r][front[r]]
        /\ Tail(s) = CellsOf(buffer[r], front[r] + 1, Full(r) - 1, Size[r])
    BY <1>12, <2>1 DEF OldestTaken
  <2>. QED BY <1>10, <1>11, <2>1, <2>2
<1>14. \A q \in Queues \ {r} : Bar(q)' = Bar(q)
  BY <1>2, <1>8, SameBar
<1>. QED
  BY <1>2, <1>13, <1>14 DEF ReceiveStep

\* Advancing rear was counted with the copy, and so was advancing front.
LEMMA AdvanceBars ==
  ASSUME IsFiniteSet(Tasks), OnePair, AppInv, SlotsOK, RingOK, NEW c \in Users, Advances(c)
  PROVE  QuietStep
<1>1. PICK o \in {"send", "receive"}, r \in Queues : o = Act(c).op /\ r = Act(c).q
  BY DEF Advances, Moves, Comm
<1>2. UNCHANGED <<buffer, got>>
  BY DEF Advances
<1>3. \A q \in Queues \ {r} : SameNumbers(q)
  BY <1>1, AdvanceNumbers
<1>4. front \in [Queues -> Nat] /\ front[r] \in 0..Size[r] - 1
  BY DEF RingOK, QueueOK
<1>5. CASE o = "send"
  <2>1. Full(r)' = Full(r) /\ Lag(r)' = Lag(r) /\ UNCHANGED front
    BY <1>1, <1>5, AdvanceNumbers DEF Advances
  <2>2. Bar(r)' = Bar(r)
    BY <1>2, <2>1 DEF Bar
  <2>3. \A q \in Queues \ {r} : Bar(q)' = Bar(q)
    BY <1>2, <1>3, <2>1, SameBar
  <2>. QED BY <1>2, <2>2, <2>3 DEF QuietStep
<1>6. CASE o = "receive"
  <2>1. front' = [front EXCEPT ![r] = Advance(front[r], r)]
    BY <1>1, <1>6 DEF Advances
  <2>2. One("receive", r, "advance") = 1
    BY <1>1, <1>6, OnlyTask DEF Advances, Moves, AppInv, Busy
  <2>3. Full(r)' = Full(r) /\ Lag(r)' = Lag(r) - 1
    BY <1>1, <1>6, AdvanceNumbers
  <2>4. Lag(r) = 1 /\ Lag(r)' = 0
    BY <2>2, <2>3 DEF Lag
  <2>5. Size[r] \in Nat \ {0} /\ Full(r) \in 0..Size[r]
    BY RingNumbers
  <2>6. /\ front'[r] = Wrapped(front[r] + 1, Size[r])
        /\ \A q \in Queues \ {r} : front'[q] = front[q]
    BY <1>4, <2>1, AdvanceWraps
  <2>7. Bar(r) = CellsOf(buffer[r], front[r] + 1, Full(r), Size[r])
    BY <2>4 DEF Bar
  <2>8. front'[r] + 0 = Wrapped(front[r] + 1, Size[r])
    BY <1>4, <2>5, <2>6 DEF Wrapped
  <2>9. Bar(r)' = CellsOf(buffer[r], Wrapped(front[r] + 1, Size[r]), Full(r), Size[r])
    BY <1>2, <2>3, <2>4, <2>8 DEF Bar
  <2>10. Bar(r)' = Bar(r)
    <3>1. CASE front[r] + 1 < Size[r]
      BY <2>7, <2>9, <3>1 DEF Wrapped
    <3>2. CASE ~ (front[r] + 1 < Size[r])
      <4>1. front[r] + 1 = Size[r] /\ Wrapped(front[r] + 1, Size[r]) = 0
        BY <1>4, <2>5, <3>2 DEF Wrapped
      <4>2. CellsOf(buffer[r], Size[r], Full(r), Size[r]) = CellsOf(buffer[r], 0, Full(r), Size[r])
        BY <2>5, CellsAround
      <4>. QED BY <2>7, <2>9, <4>1, <4>2
    <3>. QED BY <3>1, <3>2
  <2>11. \A q \in Queues \ {r} : Bar(q)' = Bar(q)
    BY <1>2, <1>3, <2>6, SameBar
  <2>. QED BY <1>2, <2>10, <2>11 DEF QuietStep
<1>. QED
  BY <1>5, <1>6

LEMMA BarStep ==
  ASSUME IsFiniteSet(Tasks), OnePair, AppInv, SlotsOK, RingOK, AppStep
  PROVE  QueueStep
<1>1. CASE Rests \/ \E c \in Users : Takes(c) \/ Gives(c)
  BY <1>1, QuietBars DEF QueueStep
<1>2. ASSUME NEW c \in Users, Advances(c) PROVE QueueStep
  BY <1>2, AdvanceBars DEF QueueStep
<1>3. ASSUME NEW c \in Users, Copies(c) PROVE QueueStep
  <2>1. CASE WritesSlot(c)
    BY <1>3, <2>1, SendBars DEF QueueStep
  <2>2. CASE ReadsSlot(c)
    BY <1>3, <2>2, ReceiveBars DEF QueueStep, Users
  <2>. QED BY <1>3, <2>1, <2>2 DEF Copies
<1>. QED
  BY <1>1, <1>2, <1>3 DEF AppStep

BarsOK == \A q \in Queues : Contents(q) = Bar(q)

LEMMA RingInvariant ==
  ASSUME IsFiniteSet(Tasks), OnePair
  PROVE  AppSpec => [](AppInv /\ SlotsOK /\ RingOK /\ BarsOK)
<1>1. AppInit => AppInv /\ SlotsOK /\ RingOK
  BY AppInitTypes, InitSlots, InitRing
<1>2. AppInv /\ SlotsOK /\ RingOK /\ [AppNext]_appVars => (AppInv /\ SlotsOK /\ RingOK)'
  BY AppNextStep, SlotsStep, RingStep
<1>3. PartsOK
  BY Parts
<1>4. AppInv /\ PartsOK => BarsOK
  BY ContentsBar DEF AppInv, BarsOK
<1>. QED
  BY <1>1, <1>2, <1>3, <1>4, PTL DEF AppSpec

\* What the queues hold
Held == [q \in Queues |-> Bar(q)]

LEMMA BarsInit == AppInit /\ BarsOK => Queue!Init
<1>1. SUFFICES ASSUME AppInit, BarsOK PROVE Queue!Init
  OBVIOUS
<1>2. \A q \in Queues : Full(q) = 0
  BY <1>1, InitRing
<1>3. \A q \in Queues : Bar(q) = <<>>
  BY <1>2 DEF Bar, CellsOf
<1>4. \A q \in Queues : Contents(q) = <<>>
  BY <1>1, <1>3 DEF BarsOK
<1>. QED
  BY <1>1, <1>4 DEF AppInit, Queue!Init

LEMMA HeldStep ==
  ASSUME QueueStep
  PROVE  \/ Held' = Held /\ UNCHANGED got
         \/ \E q \in Queues :
              \/ \E m \in Msgs : /\ Len(Held[q]) < Size[q] /\ UNCHANGED got
                                 /\ Held' = [Held EXCEPT ![q] = Append(Held[q], m)]
              \/ \E t \in Tasks : /\ Held[q] # <<>>
                                  /\ got' = [got EXCEPT ![t] = Head(Held[q])]
                                  /\ Held' = [Held EXCEPT ![q] = Tail(Held[q])]
<1>1. CASE QuietStep
  BY <1>1 DEF QuietStep, Held
<1>2. ASSUME NEW q \in Queues, NEW m \in Msgs, SendStep(q, m)
      PROVE  /\ Len(Held[q]) < Size[q] /\ UNCHANGED got
             /\ Held' = [Held EXCEPT ![q] = Append(Held[q], m)]
  BY <1>2 DEF SendStep, Held
<1>3. ASSUME NEW q \in Queues, NEW t \in Tasks, ReceiveStep(t, q)
      PROVE  /\ Held[q] # <<>> /\ got' = [got EXCEPT ![t] = Head(Held[q])]
             /\ Held' = [Held EXCEPT ![q] = Tail(Held[q])]
  BY <1>3 DEF ReceiveStep, Held
<1>. QED
  BY <1>1, <1>2, <1>3 DEF QueueStep

LEMMA BarsAreQueues ==
  ASSUME BarsOK, BarsOK', QueueStep
  PROVE  [Queue!Next]_<<[q \in Queues |-> Contents(q)], got>>
<1>1. Held = [q \in Queues |-> Contents(q)]
  BY DEF Held, BarsOK
<1>2. Held' = [q \in Queues |-> Contents(q)']
  BY DEF Held, BarsOK
<1>3. CASE Held' = Held /\ UNCHANGED got
  BY <1>1, <1>2, <1>3
<1>4. ASSUME NEW q \in Queues, NEW m \in Msgs, Len(Held[q]) < Size[q], UNCHANGED got,
             Held' = [Held EXCEPT ![q] = Append(Held[q], m)]
      PROVE  Queue!Send(q, m)
  BY <1>1, <1>2, <1>4 DEF Queue!Send
<1>5. ASSUME NEW q \in Queues, NEW t \in Tasks, Held[q] # <<>>,
             got' = [got EXCEPT ![t] = Head(Held[q])],
             Held' = [Held EXCEPT ![q] = Tail(Held[q])]
      PROVE  Queue!Receive(t, q)
  BY <1>1, <1>2, <1>5 DEF Queue!Receive
<1>. QED
  BY <1>3, <1>4, <1>5, HeldStep DEF Queue!Next

\* The ring buffers and their semaphores implement bounded FIFO queues, for any
\* size, messages and priorities, when every queue has one sender and one
\* receiver: nothing is overwritten, skipped, delivered twice or read before it
\* is written, wherever the ticks come.
THEOREM QueuesImplementFifo ==
  ASSUME IsFiniteSet(Tasks), OnePair
  PROVE  AppSpec => ImplementsFifo
<1>1. AppInit /\ BarsOK => Queue!Init
  BY BarsInit
<1>2. /\ AppInv /\ SlotsOK /\ RingOK /\ BarsOK /\ BarsOK'
      /\ [AppNext]_appVars
      => [Queue!Next]_<<[q \in Queues |-> Contents(q)], got>>
  BY AppNextStep, BarStep, BarsAreQueues
<1>. QED
  BY <1>1, <1>2, RingInvariant, PTL DEF AppSpec, ImplementsFifo, Queue!Spec

-----------------------------------------------------------------------------
(* Applications that never stop *)

\* The tasks are more urgent than the idle task and wait without a limit, or not
\* at all; a tick comes while the idle task runs.
Patient ==
  /\ \A t \in Users : Prio[t] < 63
  /\ \A timeout \in Timeouts : timeout <= 0
  /\ Interruptible \subseteq {Idle}

\* A task that was woken finds its token: nobody else takes it.
TokensDue ==
  \A t \in Users : pc[t].at = "block" /\ ~BlockedOn(waitq, t, pc[t].sem) => count[pc[t].sem] > 0

Roomy == IsFiniteSet(Queues) /\ Cardinality(Queues) < Cardinality(Users)

\* What an application needs to never stop.
Cooperative ==
  IsFiniteSet(Tasks) /\ Roomy /\ OnePair /\ Patient /\ SleepsFit /\ SleepsEnd

Calm == /\ AppInv /\ SlotsOK /\ Kept /\ Tidy /\ NoLostWakeUp
        /\ TokensDue /\ NoFault

\* Only one task waits on a semaphore.
LEMMA OnlyWaiter ==
  ASSUME OnePair, AppTypes, NEW t \in Users, NEW u \in Users, Comm(t), Comm(u),
         AwaitedBy(t) = AwaitedBy(u)
  PROVE  t = u
<1>1. /\ Act(t).op \in {"send", "receive"} /\ Act(t).q \in Queues
      /\ Act(u).op \in {"send", "receive"} /\ Act(u).q \in Queues
  BY DEF Comm
<1>2. Act(t).op = Act(u).op /\ Act(t).q = Act(u).q
  BY <1>1, OwnSems DEF AwaitedBy
<1>3. step[t] \in DOMAIN Program[t] /\ step[u] \in DOMAIN Program[u]
  <2>1. Program[t] \in Seq(Operations) /\ Program[u] \in Seq(Operations)
    BY ProgramAssumption DEF Users
  <2>. QED BY <2>1 DEF AppTypes
<1>. QED
  BY <1>1, <1>2, <1>3 DEF OnePair, Act

\* Without a timeout no step starts a timed wait.
LEMMA NeverTimed ==
  ASSUME Patient, AppInv, Tidy, [AppNext]_appVars
  PROVE  UntimedNext \/ UNCHANGED vars
<1>. SUFFICES \A t \in Tasks : pc'[t].at # "timed"
  BY AppIsKernel DEF UntimedNext
<1>1. ASSUME NEW context, cur \in Tasks, Continue(context), context.at # "timed"
      PROVE  \A t \in Tasks : pc'[t].at # "timed"
  BY <1>1 DEF Continue, AppInv, IInv, RestOK, Tidy
<1>2. UNCHANGED pc => \A t \in Tasks : pc'[t].at # "timed"
  BY DEF Tidy
<1>3. UserContext.at = "user" /\ TickContext.at = "tick"
  BY DEF UserContext, TickContext
<1>4. ASSUME CanCall
      PROVE  cur \in Users /\ cur \in Tasks /\ Op = Act(cur)
  BY <1>4, Caller DEF AppInv, Users, Op, Act
<1>5. CASE AppSleep
  BY <1>1, <1>3, <1>4, <1>5 DEF AppSleep, Sleep, SleepFor
<1>6. CASE AppAcquire
  <2>1. cur \in Tasks /\ Op.timeout <= 0
    <3>1. cur \in Users /\ cur \in Tasks /\ Op.timeout \in Timeouts
      BY <1>4, <1>6, ActType DEF AppAcquire, At, AppInv
    <3>. QED BY <3>1 DEF Patient
  <2>2. ~(Op.timeout > 0)
    <3>1. Op.timeout \in Int
      BY <1>4, <1>6, ActType, ParameterAssumption DEF AppAcquire, At, AppInv
    <3>. QED BY <2>1, <3>1
  <2>3. UNCHANGED pc \/ Continue([at |-> "block", sem |-> Awaited])
    BY <1>6, <2>2 DEF AppAcquire, AcquireAtOnce, AcquireTimed, AcquireBlock
  <2>. QED BY <1>1, <1>2, <2>1, <2>3
<1>7. CASE AppGiveUp \/ AppCopy \/ AppAdvance \/ UNCHANGED appVars
  BY <1>2, <1>7 DEF AppGiveUp, AppCopy, AppAdvance, appVars, vars
<1>8. CASE AppRelease
  BY <1>2, <1>8 DEF AppRelease, Release
<1>9. ASSUME cur \in Tasks, AcquireBlockTake PROVE \A t \in Tasks : pc'[t].at # "timed"
  BY <1>1, <1>3, <1>9 DEF AcquireBlockTake
<1>10. CASE Boot \/ AcquireBlockRetry
  BY <1>2, <1>10 DEF Boot, CreateTask, StartMultitasking, AcquireBlockRetry
<1>11. ASSUME cur \in Tasks, Tick \/ TickResume PROVE \A t \in Tasks : pc'[t].at # "timed"
  BY <1>1, <1>2, <1>3, <1>11 DEF Tick, TickResume, TriggerLoop
<1>12. ~AppTimedResume
  BY Running DEF AppTimedResume, AcquireTimedResume, Resumed, Tidy, AppInv
<1>13. Tick \/ TickResume \/ AcquireBlockTake => cur \in Tasks
  BY Running DEF Tick, TickResume, AcquireBlockTake, InUserCode, Resumed, AppInv
<1>. QED
  BY <1>5, <1>6, <1>7, <1>8, <1>9, <1>10, <1>11, <1>12, <1>13 DEF AppNext, Processor, Timer

\* No token is taken from under a task that goes on waiting for it.
LEMMA NotTaken ==
  ASSUME OnePair, AppInv, AppStep, NEW t \in Users, pc[t].at = "block", pc'[t] = pc[t]
  PROVE  count'[pc[t].sem] >= count[pc[t].sem]
<1>1. t \in Tasks /\ stage[t] = "copy" /\ pc[t].sem = AwaitedBy(t) /\ Comm(t) /\ AppTypes
  BY DEF AppInv, AppTypes, Busy, Users
<1>2. PICK s \in Sems : s = pc[t].sem
  BY <1>1, CommSems
<1>3. count \in [Sems -> Nat]
  BY DEF AppInv, IInv, RestOK
<1>4. CASE UNCHANGED count
  BY <1>2, <1>3, <1>4
<1>5. ASSUME NEW c \in Users, Takes(c) PROVE count'[s] = count[s]
  <2>1. Comm(c) /\ Position(c)' = "copy" /\ count' = [count EXCEPT ![AwaitedBy(c)] = @ - 1]
    BY <1>5 DEF Takes, Moves
  <2>2. c # t
    BY <2>1 DEF Position
  <2>3. AwaitedBy(c) # s
    BY <1>1, <1>2, <2>1, <2>2, OnlyWaiter
  <2>. QED BY <1>3, <2>1, <2>3
<1>6. ASSUME NEW c \in Users, Gives(c) PROVE count'[s] >= count[s]
  <2>1. count' = [count EXCEPT ![SignalledBy(c)] = @ + 1]
    BY <1>6 DEF Gives
  <2>2. count'[s] = count[s] \/ count'[s] = count[s] + 1
    BY <1>3, <2>1
  <2>. QED BY <1>3, <2>2
<1>7. \A c \in Users : Copies(c) \/ Advances(c) => UNCHANGED count
  BY DEF Copies, Advances
<1>8. Rests => UNCHANGED count
  BY DEF Rests
<1>9. count[s] \in Nat
  BY <1>3
<1>. QED
  BY <1>2, <1>4, <1>5, <1>6, <1>7, <1>8, <1>9 DEF AppStep

\* A step that puts no task to wait and wakes none.
LEMMA DueQuiet ==
  ASSUME IInv, TokensDue, UNCHANGED waitq,
         \A t \in Users : pc'[t].at = "block" => pc'[t] = pc[t] /\ count'[pc[t].sem] >= count[pc[t].sem],
         count' \in [Sems -> Nat]
  PROVE  TokensDue'
<1>1. SUFFICES ASSUME NEW t \in Users, pc'[t].at = "block", ~BlockedOn(waitq', t, pc'[t].sem)
      PROVE  count'[pc'[t].sem] > 0
  BY DEF TokensDue, BlockedOn
<1>2. pc'[t] = pc[t] /\ count'[pc[t].sem] >= count[pc[t].sem]
  BY <1>1
<1>3. pc[t] \in Contexts
  BY DEF IInv, RestOK, Users
<1>4. pc[t].sem \in Sems
  BY <1>1, <1>2, <1>3 DEF Contexts
<1>5. count[pc[t].sem] > 0
  BY <1>1, <1>2 DEF TokensDue, BlockedOn
<1>6. count[pc[t].sem] \in Nat /\ count'[pc[t].sem] \in Nat
  BY <1>4 DEF IInv, RestOK
<1>. QED
  BY <1>2, <1>5, <1>6

LEMMA DueStep ==
  ASSUME IInv, IInv', TokensDue, UntimedNext \/ UNCHANGED vars, Tidy,
         \A t \in Users : pc[t].at = "block" /\ pc'[t] = pc[t] =>
           count'[pc[t].sem] >= count[pc[t].sem]
  PROVE  TokensDue'
<1>1. count' \in [Sems -> Nat] /\ count \in [Sems -> Nat] /\ pc \in [Tasks -> Contexts]
  BY DEF IInv, RestOK
<1>2. ASSUME UNCHANGED waitq, \A t \in Users : pc'[t].at = "block" => pc'[t] = pc[t]
      PROVE  TokensDue'
  BY <1>1, <1>2, DueQuiet
<1>still. ASSUME UNCHANGED <<waitq, pc>> PROVE TokensDue'
  BY <1>2, <1>still
<1>3. ASSUME NEW context, cur \in Tasks, Continue(context), context.at # "block", UNCHANGED waitq
      PROVE  TokensDue'
  <2>1. \A t \in Users : pc'[t].at = "block" => pc'[t] = pc[t]
    BY <1>3 DEF Continue, IInv, RestOK, Users
  <2>. QED BY <1>2, <1>3, <2>1
<1>user. UserContext.at = "user" /\ TickContext.at = "tick"
  BY DEF UserContext, TickContext
<1>4. CASE Boot \/ Yield
  BY <1>still, <1>4 DEF Boot, CreateTask, StartMultitasking, Yield
<1>5. ASSUME NEW tick \in SleepTicks, Sleep(tick) PROVE TokensDue'
  <2>1. cur \in Tasks /\ Continue(UserContext) /\ UNCHANGED waitq
    BY <1>5, Caller DEF Sleep, SleepFor
  <2>. QED BY <1>3, <1>user, <2>1
<1>6. ASSUME NEW s \in Sems, AcquireAtOnce(s) PROVE TokensDue'
  BY <1>still, <1>6 DEF AcquireAtOnce
<1>7. ASSUME NEW s \in Sems, NEW timeout \in Timeouts, AcquireBlock(s, timeout) PROVE TokensDue'
  <2>1. cur \in Tasks /\ Continue([at |-> "block", sem |-> s]) /\ UNCHANGED count /\ Enqueue(s, "block")
    BY <1>7, Caller DEF AcquireBlock
  <2>2. pc'[cur] = [at |-> "block", sem |-> s] /\ \A t \in Tasks \ {cur} : pc'[t] = pc[t]
    BY <2>1, ContinueStep
  <2>3. /\ \A u \in Sems, n \in Waiters : In(n, waitq[u]) => In(n, waitq'[u])
        /\ \E n \in Waiters : n.task = cur /\ n.by = "block" /\ In(n, waitq'[s])
    BY <2>1, EnqueueMembers
  <2>4. \A u \in Sems : DOMAIN waitq[u] = 1..Len(waitq[u]) /\ DOMAIN waitq'[u] = 1..Len(waitq'[u])
    BY LenProperties DEF IInv, RestOK
  <2>5. BlockedOn(waitq', cur, s)
    BY <2>3, <2>4 DEF BlockedOn, In
  <2>6. \A t \in Tasks, u \in Sems : BlockedOn(waitq, t, u) => BlockedOn(waitq', t, u)
    <3>1. SUFFICES ASSUME NEW t \in Tasks, NEW u \in Sems, BlockedOn(waitq, t, u)
          PROVE  BlockedOn(waitq', t, u)
      OBVIOUS
    <3>2. PICK i \in 1..Len(waitq[u]) : waitq[u][i].task = t /\ waitq[u][i].by = "block"
      BY <2>4, <3>1 DEF BlockedOn
    <3>3. waitq[u][i] \in Waiters /\ In(waitq[u][i], waitq[u])
      BY <3>2, ElementOfSeq DEF IInv, RestOK, In
    <3>4. In(waitq[u][i], waitq'[u])
      BY <2>3, <3>3
    <3>. QED BY <2>4, <3>2, <3>4 DEF BlockedOn, In
  <2>7. ASSUME NEW t \in Users, pc'[t].at = "block", ~BlockedOn(waitq', t, pc'[t].sem)
        PROVE  count'[pc'[t].sem] > 0
    <3>1. t # cur /\ t \in Tasks
      BY <2>2, <2>5, <2>7 DEF Users
    <3>2. pc'[t] = pc[t] /\ pc[t].sem \in Sems
      BY <1>1, <2>2, <2>7, <3>1 DEF Contexts
    <3>3. ~BlockedOn(waitq, t, pc[t].sem)
      BY <2>6, <2>7, <3>1, <3>2
    <3>. QED BY <2>1, <2>7, <3>2, <3>3 DEF TokensDue
  <2>. QED BY <2>7 DEF TokensDue, BlockedOn
<1>8. ASSUME NEW s \in Sems, Release(s) PROVE TokensDue'
  <2>1. UNCHANGED pc /\ count'[s] = count[s] + 1 /\ \A u \in Sems \ {s} : count'[u] = count[u]
    BY <1>1, <1>8 DEF Release
  <2>2. \A u \in Sems \ {s} : waitq'[u] = waitq[u]
    BY <1>8 DEF Release, IInv, RestOK
  <2>3. ASSUME NEW t \in Users, pc'[t].at = "block", ~BlockedOn(waitq', t, pc'[t].sem)
        PROVE  count'[pc'[t].sem] > 0
    <3>1. pc'[t] = pc[t] /\ pc[t].sem \in Sems
      BY <1>1, <2>1, <2>3 DEF Contexts, Users
    <3>2. CASE pc[t].sem = s
      BY <1>1, <2>1, <3>1, <3>2
    <3>3. CASE pc[t].sem # s
      <4>1. ~BlockedOn(waitq, t, pc[t].sem)
        BY <2>2, <2>3, <3>1, <3>3 DEF BlockedOn
      <4>. QED BY <2>1, <2>3, <3>1, <3>3, <4>1 DEF TokensDue
    <3>. QED BY <3>2, <3>3
  <2>. QED BY <2>3 DEF TokensDue, BlockedOn
<1>9. ASSUME NEW s \in Sems, NEW timeout \in Timeouts, AcquireTimed(s, timeout),
             \A t \in Tasks : pc'[t].at # "timed"
      PROVE  FALSE
  <2>1. cur \in Tasks
    BY <1>9, Caller DEF AcquireTimed
  <2>2. pc'[cur] = [at |-> "timed", sem |-> s]
    BY <1>9, <2>1 DEF AcquireTimed, SleepFor, Continue, IInv, RestOK
  <2>. QED BY <1>9, <2>1, <2>2
<1>10. CASE AcquireBlockTake
  <2>1. cur \in Tasks /\ Continue(UserContext) /\ UNCHANGED waitq
    BY <1>10, Running DEF AcquireBlockTake, Resumed
  <2>. QED BY <1>3, <1>user, <2>1
<1>11. CASE AcquireTimedResume \/ AcquireBlockRetry
  <2>1. ~AcquireTimedResume
    BY Running DEF AcquireTimedResume, Resumed, Tidy
  <2>. QED BY <1>still, <1>11, <2>1 DEF AcquireBlockRetry
<1>12. CASE Tick \/ TickResume
  <2>1. cur \in Tasks /\ UNCHANGED waitq
    BY <1>12, Running DEF Tick, TickResume, InUserCode, Resumed
  <2>2. UNCHANGED pc \/ Continue(UserContext) \/ Continue(TickContext)
    BY <1>12 DEF Tick, TickResume, TriggerLoop
  <2>. QED BY <1>3, <1>still, <1>user, <2>1, <2>2
<1>13. CASE UNCHANGED vars
  BY <1>still, <1>13 DEF vars
<1>. QED
  BY <1>4, <1>5, <1>6, <1>7, <1>8, <1>9, <1>10, <1>11, <1>12, <1>13 DEF UntimedNext, Next, Call, Resume

-----------------------------------------------------------------------------
\* While the idle task runs all others wait, so nobody has a slot of a queue in hand,
\* and of the two semaphores of a queue one has tokens.

\* All tasks wait on semaphores.
AllBlocked == \A t \in Users : pc[t].at = "block" /\ BlockedOn(waitq, t, pc[t].sem)

LEMMA NoAlarmAllBlocked ==
  ASSUME Patient, AppInv, Kept, Tidy, cur = Idle, alarms = <<>>
  PROVE  AllBlocked
<1>1. SUFFICES ASSUME NEW t \in Users
      PROVE  pc[t].at = "block" /\ BlockedOn(waitq, t, pc[t].sem)
  BY DEF AllBlocked
<1>2. t \in Tasks /\ t # cur /\ cur # NoTask /\ Prio[t] < 63 /\ Prio[cur] = 63 /\ Prio[t] \in Priorities
  BY TaskAssumption, PrioType DEF Users, Patient
<1>3. HighestRuns /\ state[t] \in States
  BY <1>2 DEF AppInv, IInv, KernelOK
<1>4. readyq[Prio[t]] = <<>>
  BY <1>2, <1>3 DEF HighestRuns, Booted
<1>5. ~In(t, readyq[Prio[t]])
  BY <1>4 DEF In
<1>6. state[t] = "WAITING"
  BY <1>2, <1>3, <1>5 DEF States, Kept, Placed
<1>7. Waits(alarms, waitq, t)
  BY <1>2, <1>6 DEF Kept
<1>8. \A n : ~In(n, alarms)
  BY DEF In
<1>9. PICK s \in Sems, n \in Waiters : n.task = t /\ n.by = "block" /\ In(n, waitq[s])
  BY <1>7, <1>8 DEF Waits
<1>10. pc[t] = [at |-> "block", sem |-> s]
  BY <1>9 DEF Tidy, WaitsTidy
<1>11. DOMAIN waitq[s] = 1..Len(waitq[s])
  BY LenProperties DEF AppInv, IInv, RestOK
<1>. QED
  BY <1>9, <1>10, <1>11 DEF BlockedOn, In

\* Then each of them waits on a semaphore without a token, and nobody is inside an
\* operation.
LEMMA BlockedHaveNone ==
  ASSUME IsFiniteSet(Tasks), AppInv, NoLostWakeUp, AllBlocked, NEW t \in Users
  PROVE  count[AwaitedBy(t)] = 0 /\ Comm(t)
<1>1. /\ \A u \in Tasks : pc[u].at = "block" => u \in Users
      /\ pc[t].at = "block" /\ pc[t].sem = AwaitedBy(t) /\ Comm(t)
  BY DEF AppInv, AppTypes, AllBlocked, Users, Busy
<1>2. PICK s \in Sems : s = AwaitedBy(t)
  BY <1>1, CommSems
<1>3. WokenOf(pc, waitq, s) = {}
  BY <1>1 DEF WokenOf, AllBlocked
<1>4. Cardinality(WokenOf(pc, waitq, s)) = 0
  BY <1>3, FS_EmptySet
<1>5. waitq[s] # <<>>
  BY <1>1, <1>2 DEF AllBlocked, BlockedOn
<1>6. count[s] <= Cardinality(WokenOf(pc, waitq, s))
  BY <1>5, WokenTasks DEF NoLostWakeUp
<1>7. count[s] \in Nat
  BY DEF AppInv, IInv, RestOK
<1>. QED
  BY <1>1, <1>2, <1>4, <1>6, <1>7

LEMMA BlockedSlots ==
  ASSUME AppInv, SlotsOK, AllBlocked, NEW q \in Queues
  PROVE  count[PutSem[q]] + count[GetSem[q]] > 0
<1>1. \A op, st : st \in Busy => InStage(op, q, {st}) = {}
  BY DEF AllBlocked, InStage, Users
<1>2. \A op : One(op, q, "copy") = 0 /\ One(op, q, "advance") = 0 /\ One(op, q, "release") = 0
  BY <1>1, FS_EmptySet DEF One, Busy
<1>3. \A op : Handled(op, q) = 0
  BY <1>2 DEF Handled
<1>4. count[PutSem[q]] \in Nat /\ count[GetSem[q]] \in Nat /\ Size[q] \in Nat \ {0}
  BY OwnSems DEF AppInv, IInv, RestOK
<1>5. count[PutSem[q]] + count[GetSem[q]] + Handled("send", q) + Handled("receive", q) = Size[q]
  BY DEF SlotsOK
<1>. QED
  BY <1>3, <1>4, <1>5

\* So no two wait for the same queue, and there are not enough queues for all.
LEMMA NotAllBlocked ==
  ASSUME IsFiniteSet(Tasks), Roomy, OnePair, AppInv, SlotsOK, NoLostWakeUp
  PROVE  ~AllBlocked
<1>1. SUFFICES ASSUME AllBlocked PROVE FALSE
  OBVIOUS
<1>2. PICK f : f = [t \in Users |-> Act(t).q]
  OBVIOUS
<1>3. ASSUME NEW t \in Users, NEW u \in Users, Act(t).q = Act(u).q
      PROVE  t = u
  <2>1. Comm(t) /\ Comm(u) /\ count[AwaitedBy(t)] = 0 /\ count[AwaitedBy(u)] = 0
    BY <1>1, BlockedHaveNone
  <2>2. PICK q \in Queues : q = Act(t).q /\ q = Act(u).q
    BY <1>3, <2>1 DEF Comm
  <2>3. count[PutSem[q]] + count[GetSem[q]] > 0
    BY <1>1, BlockedSlots
  <2>4. AwaitedBy(t) = AwaitedBy(u)
    BY <2>1, <2>2, <2>3 DEF AwaitedBy, Comm
  <2>. QED BY <2>1, <2>4, OnlyWaiter DEF AppInv
<1>4. \A t \in Users : Act(t).q \in Queues
  BY <1>1, BlockedHaveNone DEF Comm
<1>5. f \in Injection(Users, Queues)
  <2>1. f \in [Users -> Queues] /\ \A t, u \in Users : f[t] = f[u] => t = u
    BY <1>2, <1>3, <1>4
  <2>. QED BY <2>1 DEF Injection, IsInjective
<1>6. Cardinality(Users) <= Cardinality(Queues)
  BY <1>5, FS_Injection DEF Roomy
<1>7. Cardinality(Users) \in Nat /\ Cardinality(Queues) \in Nat
  <2>1. IsFiniteSet(Users)
    BY FS_Subset DEF Users
  <2>. QED BY <2>1, FS_CardinalityType DEF Roomy
<1>. QED
  BY <1>6, <1>7 DEF Roomy

\* Nothing goes wrong in a step: a tick finds an alarm, a woken task a token.
LEMMA FaultFree ==
  ASSUME IsFiniteSet(Tasks), Roomy, OnePair, Patient, Calm, [AppNext]_appVars
  PROVE  NoFault'
<1>1. CASE UNCHANGED fault
  BY <1>1 DEF Calm, NoFault
<1>2. ~AcquireBlockRetry
  <2>1. SUFFICES ASSUME AcquireBlockRetry PROVE FALSE
    OBVIOUS
  <2>2. Resumed("block") /\ count[pc[cur].sem] = 0 /\ cur # NoTask
    BY <2>1 DEF AcquireBlockRetry, Resumed
  <2>3. cur \in Users /\ cur \in Tasks /\ pc[cur].at = "block" /\ state[cur] = "RUNNING"
    BY <2>2, ResumedWaiting DEF Calm, Tidy
  <2>4. PICK s \in Sems : s = pc[cur].sem
    BY <2>3, WaitContext DEF Calm, AppInv
  <2>5. ~BlockedOn(waitq, cur, s)
    <3>1. SUFFICES ASSUME NEW i \in DOMAIN waitq[s], waitq[s][i].task = cur PROVE FALSE
      BY DEF BlockedOn
    <3>2. waitq[s] \in Seq(Waiters) /\ DOMAIN waitq[s] = 1..Len(waitq[s])
      BY LenProperties DEF Calm, AppInv, IInv, RestOK
    <3>3. waitq[s][i] \in Waiters /\ In(waitq[s][i], waitq[s])
      BY <3>2, ElementOfSeq DEF In
    <3>. QED BY <2>3, <3>1, <3>3 DEF Calm, Tidy, WaitsTidy
  <2>6. count[s] > 0
    BY <2>3, <2>4, <2>5 DEF Calm, TokensDue
  <2>. QED BY <2>2, <2>4, <2>6
<1>3. Tick => UNCHANGED fault
  <2>1. SUFFICES ASSUME Tick, alarms = <<>> PROVE FALSE
    BY DEF Tick
  <2>2. cur = Idle
    BY <2>1 DEF Tick, Patient
  <2>3. AllBlocked
    BY <2>1, <2>2, NoAlarmAllBlocked DEF Calm
  <2>. QED BY <2>3, NotAllBlocked DEF Calm
<1>4. AppNext => UNCHANGED fault
  <2>1. AppSleep \/ AppAcquire \/ AppRelease => UNCHANGED fault
    BY DEF AppSleep, AppAcquire, AppRelease, Sleep, AcquireAtOnce, AcquireTimed, AcquireBlock, Release
  <2>2. AppGiveUp \/ AppCopy \/ AppAdvance => UNCHANGED fault
    BY DEF AppGiveUp, AppCopy, AppAdvance, vars
  <2>3. AppTimedResume \/ Boot \/ AcquireBlockTake \/ TickResume => UNCHANGED fault
    BY DEF AppTimedResume, AcquireTimedResume, Boot, CreateTask, StartMultitasking, AcquireBlockTake, TickResume
  <2>. QED BY <1>2, <1>3, <2>1, <2>2, <2>3 DEF AppNext, Processor, Timer
<1>. QED
  BY <1>1, <1>4 DEF appVars, vars

LEMMA CalmStep ==
  ASSUME Cooperative, Calm, [AppNext]_appVars
  PROVE  Calm'
<1>. USE DEF Cooperative
<1>1. UntimedNext \/ UNCHANGED vars
  BY NeverTimed DEF Calm
<1>2. [Next]_vars
  BY AppIsKernel DEF Calm
<1>3. AppInv' /\ AppStep /\ IInv /\ IInv'
  BY AppNextStep DEF Calm, AppInv
<1>4. SlotsOK'
  BY <1>3, SlotsStep DEF Calm
<1>5. Kept'
  BY <1>2, <1>3, KeptStep DEF Calm
<1>6. Tidy'
  BY <1>1, <1>3, TidyStep DEF Calm
<1>7. NoLostWakeUp'
  BY <1>1, <1>3, WakeUpsStep DEF Calm
<1>8. TokensDue'
  <2>1. \A t \in Users : pc[t].at = "block" /\ pc'[t] = pc[t] => count'[pc[t].sem] >= count[pc[t].sem]
    BY <1>3, NotTaken DEF Calm
  <2>. QED BY <1>1, <1>3, <2>1, DueStep DEF Calm
<1>9. NoFault'
  BY FaultFree
<1>. QED
  BY <1>3, <1>4, <1>5, <1>6, <1>7, <1>8, <1>9 DEF Calm

LEMMA CalmInit == AppInit => Calm
<1>1. SUFFICES ASSUME AppInit PROVE Calm
  OBVIOUS
<1>2. AppInv /\ SlotsOK
  BY <1>1, AppInitTypes, InitSlots
<1>3. Init
  BY <1>1 DEF AppInit
<1>4. Kept
  BY <1>3 DEF Init, Kept, Placed
<1>5. Tidy
  BY <1>3 DEF Init, Tidy, ReadyOnly, Distinct, AlarmsTidy, WaitsTidy, OneEach, In, UserContext
<1>6. NoLostWakeUp /\ TokensDue /\ NoFault
  BY <1>3 DEF Init, NoLostWakeUp, TokensDue, NoFault, Users, UserContext
<1>. QED
  BY <1>2, <1>4, <1>5, <1>6 DEF Calm

\* An application whose tasks wait without a limit, one sender and one receiver for
\* each queue, with more tasks than queues and sleeps that have an end, never stops:
\* the tasks are never all waiting for each other, so every tick finds an alarm; and
\* a woken task always finds its token, so no wait node is freed twice.
THEOREM AppNeverStops ==
  ASSUME Cooperative
  PROVE  AppSpec => []NoFault
<1>1. AppInit => Calm
  BY CalmInit
<1>2. Calm /\ [AppNext]_appVars => Calm'
  BY CalmStep
<1>3. Calm => NoFault
  BY DEF Calm
<1>. QED
  BY <1>1, <1>2, <1>3, PTL DEF AppSpec
=============================================================================
