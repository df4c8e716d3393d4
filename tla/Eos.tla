-------------------------------- MODULE Eos --------------------------------
(***************************************************************************)
(* The eOS kernel: tasks, ready queues, alarms and semaphores              *)
(* (MiniOS/eOS_student/core task.c, timer.c, sync.c, scheduler.c).         *)
(*                                                                         *)
(* One processor runs `cur'.  A step is what the processor does from one   *)
(* point in a task to the next: a kernel call by the running task up to    *)
(* its return or to the context switch in eos_schedule, a timer tick that  *)
(* interrupts the running task's own code, or the rest of a kernel call    *)
(* resumed when eos_schedule switches back into it.  pc[t] says where the  *)
(* saved context of t will continue.  Ticks that hit kernel code itself    *)
(* are outside this model.                                                 *)
(***************************************************************************)
EXTENDS Integers, Sequences, FiniteSets, SequencesExt, ReadyBitmap

CONSTANTS
  Tasks, Idle,      \* the tasks, the idle task among them
  NoTask, NoSem,    \* NULL
  Prio,             \* tcb->priority
  Period,           \* tcb->period
  Sems,             \* the semaphores
  InitCount,        \* initial_count of each
  QueueType,        \* queue_type of each: 0 is first come first served
  SleepTicks,       \* the arguments of eos_sleep
  Timeouts,         \* the timeout arguments of eos_acquire_semaphore
  Wrap,             \* 2^w, for the width w of int32u_t
  Interruptible,    \* the tasks whose own code a tick may interrupt
  Overrun,          \* may a tick come while expired alarms are still queued
  MaxCount,         \* bound: no release beyond this count
  MaxWaiters        \* bound: no wait queue longer than this

ASSUME TaskAssumption ==
  /\ Idle \in Tasks
  /\ NoTask \notin Tasks
  /\ Prio \in [Tasks -> Priorities]
  /\ Prio[Idle] = 63
  /\ Period \in [Tasks -> Nat]
ASSUME SemAssumption ==
  /\ NoSem \notin Sems
  /\ InitCount \in [Sems -> Nat]
  /\ QueueType \in [Sems -> {0, 1}]
ASSUME ParameterAssumption ==
  /\ SleepTicks \subseteq Nat
  /\ Timeouts \subseteq Int
  /\ Wrap \in Nat \ {0}
  /\ Interruptible \subseteq Tasks
  /\ Overrun \in BOOLEAN
  /\ MaxCount \in Nat /\ MaxWaiters \in Nat

VARIABLES
  state,     \* tcb->state, "NEW" before eos_create_task
  readyq,    \* _os_ready_queue
  bm,        \* _os_ready_group and _os_ready_table
  cur,       \* _os_current_task
  alarms,    \* system_timer.alarm_queue, head first
  count,     \* sem->count
  waitq,     \* sem->wait_queue, head first
  pc,        \* where the saved context of each task continues
  fault      \* the undefined behaviour that stopped the system, or "none"
kernel == <<state, readyq, bm, cur>>
vars == <<state, readyq, bm, cur, alarms, count, waitq, pc, fault>>

\* A context continues in the task's own code, in the loop of
\* eos_trigger_counter, or behind the switch in eos_acquire_semaphore.
Contexts == [at : {"user", "tick"}, sem : {NoSem}]
            \cup [at : {"timed", "block"}, sem : Sems]
UserContext == [at |-> "user", sem |-> NoSem]
TickContext == [at |-> "tick", sem |-> NoSem]

\* alarm_queue_node.priority is the key of the alarm queue.
Alarms == [task : Tasks, timeout : Nat, prio : Nat]
\* A wait queue node and the call that queued it: one with a timeout, or one
\* that waits until it is woken and then frees the node itself.
Waiters == [task : Tasks, prio : Priorities, by : {"timed", "block"}]

Faults == {"none", "no_alarm", "double_free", "freed_in_queue"}

-----------------------------------------------------------------------------
(* Lists (common.c) *)

\* Mutant: priorities ignored
AddByPriorityAtTail(q, node) == Append(q, node)

\* _os_add_node_priority: in front of the first node of a larger key
AddByPriority(q, node) ==
  LET FirstLarger(k) == /\ q[k].prio > node.prio
                        /\ \A j \in 1..(k - 1) : q[j].prio <= node.prio
  IN  IF \E k \in 1..Len(q) : FirstLarger(k)
      THEN InsertAt(q, CHOOSE k \in 1..Len(q) : FirstLarger(k), node)
      ELSE Append(q, node)

\* _os_remove_node of the alarm of t, nothing when it is not linked
RemoveAlarm(q, t) ==
  IF \E i \in 1..Len(q) : q[i].task = t
  THEN RemoveAt(q, CHOOSE i \in 1..Len(q) : q[i].task = t)
  ELSE q

-----------------------------------------------------------------------------
(* Scheduling (task.c) *)

PushReady(rq, t) == [rq EXCEPT ![Prio[t]] = Append(@, t)]

\* Mutant: the bit of an emptied queue is left set
SwitchKeepsBit(rq, b, st) ==
  LET p    == HighestPriority(b)
      next == Head(rq[p])
  IN  /\ readyq' = [rq EXCEPT ![p] = Tail(@)]
      /\ bm' = b
      /\ cur' = next
      /\ state' = [st EXCEPT ![next] = "RUNNING"]

\* The second half of eos_schedule: run the head of the most urgent queue.
SwitchToHighest(rq, b, st) ==
  LET p    == HighestPriority(b)
      next == Head(rq[p])
  IN  /\ readyq' = [rq EXCEPT ![p] = Tail(@)]
      /\ bm' = IF Tail(rq[p]) = <<>> THEN UnsetReady(b, p) ELSE b
      /\ cur' = next
      /\ state' = [st EXCEPT ![next] = "RUNNING"]

\* Mutant: the preempted task is not put back
ScheduleDropsCurrent(rq, b, st) == SwitchToHighest(rq, b, st)

\* eos_schedule: a task that is still RUNNING goes to the tail of its queue.
Schedule(rq, b, st) ==
  IF cur # NoTask /\ st[cur] = "RUNNING"
  THEN SwitchToHighest(PushReady(rq, cur), SetReady(b, Prio[cur]),
                       [st EXCEPT ![cur] = "READY"])
  ELSE SwitchToHighest(rq, b, st)

\* Mutant: no call of eos_schedule after waking a task
WakeUpWithoutSchedule(t) ==
  /\ readyq' = PushReady(readyq, t)
  /\ bm' = SetReady(bm, Prio[t])
  /\ state' = [state EXCEPT ![t] = "READY"]
  /\ UNCHANGED cur

\* _os_wakeup_sleeping_task, whatever state t is in
WakeUp(t) ==
  Schedule(PushReady(readyq, t), SetReady(bm, Prio[t]),
           [state EXCEPT ![t] = "READY"])

\* The running task gives up the processor until someone wakes it.
Suspend == Schedule(readyq, bm, [state EXCEPT ![cur] = "WAITING"])

Continue(context) == pc' = [pc EXCEPT ![cur] = context]

-----------------------------------------------------------------------------
(* Start-up (main.c): the tasks are created, the idle task first, and then *)
(* the first one is switched to.                                           *)

CreateTask(t) ==
  /\ cur = NoTask
  /\ state[t] = "NEW"
  /\ t = Idle \/ state[Idle] # "NEW"
  /\ state' = [state EXCEPT ![t] = "READY"]
  /\ readyq' = PushReady(readyq, t)
  /\ bm' = SetReady(bm, Prio[t])
  /\ UNCHANGED <<cur, alarms, count, waitq, pc, fault>>

StartMultitasking ==
  /\ cur = NoTask
  /\ \A t \in Tasks : state[t] # "NEW"
  /\ Schedule(readyq, bm, state)
  /\ UNCHANGED <<alarms, count, waitq, pc, fault>>

-----------------------------------------------------------------------------
(* Calls of the running task; the idle task makes none.                    *)

InUserCode == fault = "none" /\ cur # NoTask /\ pc[cur].at = "user"
CanCall == InUserCode /\ cur # Idle

\* eos_schedule called by a task
Yield ==
  /\ CanCall
  /\ Schedule(readyq, bm, state)
  /\ UNCHANGED <<alarms, count, waitq, pc, fault>>

\* eos_set_alarm: the key is the tick count and, below it, the priority
SetAlarm(q, t, key) ==
  LET rest == RemoveAlarm(q, t)
  IN  IF key = 0 THEN rest
      ELSE AddByPriority(rest, [task |-> t, timeout |-> key \div 64, prio |-> key])

\* Mutant: eos_sleep(0) does not fall back on the period
SleepForNoPeriod(tick, context) ==
  /\ alarms' = IF tick > 0 THEN SetAlarm(alarms, cur, (64 * tick + Prio[cur]) % Wrap)
               ELSE alarms
  /\ Continue(context)
  /\ Suspend

\* eos_sleep, for the call that continues in the given context
SleepFor(tick, context) ==
  LET timeout == IF tick > 0 THEN tick ELSE Period[cur]
  IN  /\ alarms' = IF timeout > 0
                   THEN SetAlarm(alarms, cur, (64 * timeout + Prio[cur]) % Wrap)
                   ELSE alarms
      /\ Continue(context)
      /\ Suspend

Sleep(tick) ==
  /\ CanCall
  /\ SleepFor(tick, UserContext)
  /\ UNCHANGED <<count, waitq, fault>>

\* The beginning of a wait in eos_acquire_semaphore
Enqueue(s, by) ==
  LET node == [task |-> cur, prio |-> Prio[cur], by |-> by]
  IN  /\ Len(waitq[s]) < MaxWaiters
      /\ waitq' = [waitq EXCEPT ![s] = IF QueueType[s] = 0
                                       THEN Append(@, node)
                                       ELSE AddByPriority(@, node)]

\* Mutants: the count is not tested, or not decremented
TakeTokenUntested(s) == count' = [count EXCEPT ![s] = @ - 1]
TakeTokenKeepsCount(s) == count[s] > 0 /\ UNCHANGED count
TakeToken(s) == count[s] > 0 /\ count' = [count EXCEPT ![s] = @ - 1]

AcquireAtOnce(s) ==
  /\ CanCall
  /\ TakeToken(s)
  /\ UNCHANGED <<kernel, alarms, waitq, pc, fault>>

\* timeout > 0: queue up and sleep
AcquireTimed(s, timeout) ==
  /\ CanCall
  /\ count[s] = 0
  /\ timeout > 0
  /\ Enqueue(s, "timed")
  /\ SleepFor(timeout, [at |-> "timed", sem |-> s])
  /\ UNCHANGED <<count, fault>>

\* Any other timeout but -1: queue up and wait.  (-1 returns 0 at once and
\* changes nothing, so it has no action.)
AcquireBlock(s, timeout) ==
  /\ CanCall
  /\ count[s] = 0
  /\ timeout <= 0 /\ timeout # -1
  /\ Enqueue(s, "block")
  /\ Continue([at |-> "block", sem |-> s])
  /\ Suspend
  /\ UNCHANGED <<alarms, count, fault>>

\* Mutants: the woken task stays in the wait queue; only the first token wakes
\* a task; no task is woken
ReleaseKeepsNode(s) ==
  /\ CanCall
  /\ count[s] < MaxCount
  /\ count' = [count EXCEPT ![s] = @ + 1]
  /\ IF waitq[s] = <<>> THEN UNCHANGED kernel ELSE WakeUp(Head(waitq[s]).task)
  /\ UNCHANGED <<alarms, waitq, pc, fault>>
ReleaseWakesOnce(s) ==
  /\ CanCall
  /\ count[s] < MaxCount
  /\ count' = [count EXCEPT ![s] = @ + 1]
  /\ IF waitq[s] = <<>> \/ count[s] > 0 THEN UNCHANGED <<kernel, waitq>>
     ELSE /\ waitq' = [waitq EXCEPT ![s] = Tail(@)]
          /\ WakeUp(Head(waitq[s]).task)
  /\ UNCHANGED <<alarms, pc, fault>>
ReleaseWakesNobody(s) ==
  /\ CanCall
  /\ count[s] < MaxCount
  /\ count' = [count EXCEPT ![s] = @ + 1]
  /\ UNCHANGED <<kernel, waitq, alarms, pc, fault>>

Release(s) ==
  /\ CanCall
  /\ count[s] < MaxCount
  /\ count' = [count EXCEPT ![s] = @ + 1]
  /\ \/ /\ waitq[s] = <<>>
        /\ UNCHANGED <<kernel, waitq>>
     \/ /\ waitq[s] # <<>>
        /\ waitq' = [waitq EXCEPT ![s] = Tail(@)]
        /\ WakeUp(Head(waitq[s]).task)
  /\ UNCHANGED <<alarms, pc, fault>>

-----------------------------------------------------------------------------
(* Calls resumed by a context switch                                       *)

Resumed(at) == fault = "none" /\ cur # NoTask /\ pc[cur].at = at

\* The wait with a timeout is over, by the alarm or by a release: one try.
AcquireTimedResume ==
  /\ Resumed("timed")
  /\ \/ TakeToken(pc[cur].sem)
     \/ count[pc[cur].sem] = 0 /\ UNCHANGED count
  /\ Continue(UserContext)
  /\ UNCHANGED <<kernel, alarms, waitq, fault>>

AcquireBlockTake ==
  /\ Resumed("block")
  /\ TakeToken(pc[cur].sem)
  /\ Continue(UserContext)
  /\ UNCHANGED <<kernel, alarms, waitq, fault>>

\* No token left for the woken task: free(node) in sync.c.  A release has
\* freed the node already, unless something else woke the task, and then the
\* node is still linked.  Neither can go on.
AcquireBlockRetry ==
  /\ Resumed("block")
  /\ count[pc[cur].sem] = 0
  /\ fault' = IF \E i \in DOMAIN waitq[pc[cur].sem] :
                    /\ waitq[pc[cur].sem][i].task = cur
                    /\ waitq[pc[cur].sem][i].by = "block"
              THEN "freed_in_queue" ELSE "double_free"
  /\ UNCHANGED <<kernel, alarms, count, waitq, pc>>

-----------------------------------------------------------------------------
(* The timer interrupt (timer.c), taken on the stack of the running task   *)

\* The second loop of eos_trigger_counter up to its end or to the context
\* switch in the handler of the first expired alarm.
Expired(q) == q # <<>> /\ Head(q).timeout = 0
\* Mutant: one expired alarm per tick
TriggerFirstOnly(q) ==
  \/ /\ ~Expired(q)
     /\ alarms' = q
     /\ Continue(UserContext)
     /\ UNCHANGED kernel
  \/ /\ Expired(q)
     /\ alarms' = Tail(q)
     /\ Continue(UserContext)
     /\ WakeUp(Head(q).task)
TriggerLoop(q) ==
  \/ /\ ~Expired(q)
     /\ alarms' = q
     /\ Continue(UserContext)
     /\ UNCHANGED kernel
  \/ /\ Expired(q)
     /\ alarms' = Tail(q)                  \* eos_set_alarm(.., 0, NULL, NULL)
     /\ Continue(TickContext)
     /\ WakeUp(Head(q).task)

\* The first loop of eos_trigger_counter: both fields are unsigned.
CountDown(q) ==
  [i \in 1..Len(q) |-> [q[i] EXCEPT !.timeout = (@ - 1) % Wrap,
                                    !.prio = (@ - 64) % Wrap]]

ExpiredAlarmsHandled == \A t \in Tasks : pc[t].at # "tick"

Tick ==
  /\ InUserCode
  /\ cur \in Interruptible
  /\ Overrun \/ ExpiredAlarmsHandled
  /\ \/ /\ alarms # <<>>
        /\ TriggerLoop(CountDown(alarms))
        /\ UNCHANGED fault
     \/ /\ alarms = <<>>          \* alarm_queue->ptr_data of a NULL queue
        /\ fault' = "no_alarm"
        /\ UNCHANGED <<kernel, alarms, pc>>
  /\ UNCHANGED <<count, waitq>>

TickResume ==
  /\ Resumed("tick")
  /\ TriggerLoop(alarms)
  /\ UNCHANGED <<count, waitq, fault>>

-----------------------------------------------------------------------------
Init ==
  /\ state = [t \in Tasks |-> "NEW"]
  /\ readyq = [p \in Priorities |-> <<>>]
  /\ bm = EmptyBitmap
  /\ cur = NoTask
  /\ alarms = <<>>
  /\ count = InitCount
  /\ waitq = [s \in Sems |-> <<>>]
  /\ pc = [t \in Tasks |-> UserContext]
  /\ fault = "none"

Boot == (\E t \in Tasks : CreateTask(t)) \/ StartMultitasking

Call ==
  \/ Yield
  \/ \E tick \in SleepTicks : Sleep(tick)
  \/ \E s \in Sems :
       \/ AcquireAtOnce(s)
       \/ \E timeout \in Timeouts : AcquireTimed(s, timeout) \/ AcquireBlock(s, timeout)
       \/ Release(s)

Resume ==
  AcquireTimedResume \/ AcquireBlockTake \/ AcquireBlockRetry \/ TickResume

Next == Boot \/ Call \/ Resume \/ Tick

\* The systems in which no task waits with a timeout
UntimedNext == Next /\ \A t \in Tasks : pc'[t].at # "timed"

Spec == Init /\ [][Next]_vars
-----------------------------------------------------------------------------
(* Properties *)

TypeOK ==
  /\ state \in [Tasks -> {"NEW", "READY", "RUNNING", "WAITING"}]
  /\ readyq \in [Priorities -> Seq(Tasks)]
  /\ bm \in Bitmaps
  /\ cur \in Tasks \cup {NoTask}
  /\ alarms \in Seq(Alarms)
  /\ count \in [Sems -> Nat]
  /\ waitq \in [Sems -> Seq(Waiters)]
  /\ pc \in [Tasks -> Contexts]
  /\ fault \in Faults

Booted == cur # NoTask

\* The bit of a priority is set exactly while its ready queue has a task, so
\* that eos_schedule neither follows a bit to a NULL queue nor overlooks a
\* ready task: eos_create_task, eos_schedule and _os_wakeup_sleeping_task
\* change the queue and the two bytes one after the other.
BitmapMatchesQueues ==
  /\ GroupAgrees(bm)
  /\ ReadySet(bm) = {p \in Priorities : readyq[p] # <<>>}

\* The running task is one of the most urgent: nothing ready has a smaller
\* priority number.  It may only fail if a task were made ready without a
\* call of eos_schedule behind it.
HighestRuns ==
  Booted => \A p \in Priorities : p < Prio[cur] => readyq[p] = <<>>

\* The idle task is running or queued, so eos_schedule always has a task to
\* switch to: nothing may leave it waiting or lose its node.
IdleAvailable ==
  Booted => \/ cur = Idle /\ state[Idle] = "RUNNING"
            \/ Idle \in ToSet(readyq[63])

Queued(t) == t \in ToSet(readyq[Prio[t]])
HasAlarm(t) == \E i \in DOMAIN alarms : alarms[i].task = t
WaitsOn(t, s) ==
  \E i \in DOMAIN waitq[s] : waitq[s][i].task = t /\ waitq[s][i].by = "block"

\* No task is lost: it runs, is queued, or waits where an alarm or a release
\* will find it (for programs whose every sleep has an end).
NoTaskLost ==
  \A t \in Tasks :
    Booted /\ fault = "none" =>
      CASE state[t] = "RUNNING" -> t = cur
        [] state[t] = "READY"   -> Queued(t)
        [] state[t] = "WAITING" -> HasAlarm(t) \/ \E s \in Sems : WaitsOn(t, s)
        [] OTHER                -> FALSE

\* Without timed waits a task is in one place: it runs, is queued once, has
\* its alarm set, or waits on one semaphore, and a task that runs or is queued
\* has neither an alarm nor a wait node left behind.
Places(t) ==
  {<<"processor">> : u \in {cur} \cap {t}}
  \cup {<<"ready", i>> : i \in {j \in DOMAIN readyq[Prio[t]] : readyq[Prio[t]][j] = t}}
  \cup {<<"alarm", i>> : i \in {j \in DOMAIN alarms : alarms[j].task = t}}
  \cup UNION {{<<"wait", s, i>> : i \in {j \in DOMAIN waitq[s] : waitq[s][j].task = t}} : s \in Sems}
OnePlace == Booted => \A t \in Tasks : Cardinality(Places(t)) = 1

\* No wake-up is lost: while a task is queued on a semaphore, every token of
\* that semaphore is on its way to a task that was woken and has not tried yet.
Woken(s) == {t \in Tasks : pc[t] = [at |-> "block", sem |-> s] /\ ~WaitsOn(t, s)}
NoLostWakeUp ==
  \A s \in Sems : waitq[s] # <<>> => count[s] <= Cardinality(Woken(s))

\* A release wakes the waiter it should: by priority when queue_type is not 0.
WaitersInOrder ==
  \A s \in Sems : QueueType[s] = 1 =>
    \A i, j \in DOMAIN waitq[s] : i <= j => waitq[s][i].prio <= waitq[s][j].prio

\* Once eos_trigger_counter is through, no expired alarm is left behind and the
\* queue is in the order in which the alarms expire.
AlarmsOnTime ==
  /\ ExpiredAlarmsHandled => \A i \in DOMAIN alarms : alarms[i].timeout > 0
  /\ \A i, j \in DOMAIN alarms :
       i <= j => /\ alarms[i].prio <= alarms[j].prio
                 /\ alarms[i].timeout <= alarms[j].timeout

\* eos_sleep waits that amount of time: a task in eos_sleep becomes ready only
\* when its alarm has expired and left the queue.
SleepLasts ==
  \A t \in Tasks :
    state[t] = "WAITING" /\ pc[t].at = "user" /\ state'[t] # "WAITING" => ~HasAlarm(t)'
SleepNotCutShort == [][SleepLasts]_vars
=============================================================================
