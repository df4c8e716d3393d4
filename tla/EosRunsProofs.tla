--------------------------- MODULE EosRunsProofs ----------------------------
(***************************************************************************)
(* What EosProofs says of the systems that are checked: the ready bitmap   *)
(* on its own, the kernel of MCEosModes with and without timed waits, and  *)
(* the two applications of MCEosApps.  The tasks, semaphores, programs and *)
(* parameters of all but user/work.c are arbitrary.                        *)
(***************************************************************************)
EXTENDS EosProofs, MCEosModes, MCEosApps

CONSTANT Universe
VARIABLE highest
BM == INSTANCE BitmapScheduler

-----------------------------------------------------------------------------
(* The ready bitmap *)

LEMMA SameBitmap ==
  /\ BM!Byte = Byte /\ BM!Priorities = Priorities /\ BM!Bitmaps = Bitmaps
  /\ BM!EmptyBitmap = EmptyBitmap
  /\ \A b : BM!ReadySet(b) = ReadySet(b) /\ (BM!GroupAgrees(b) <=> GroupAgrees(b))
  /\ \A b, p : BM!SetReady(b, p) = SetReady(b, p) /\ BM!UnsetReady(b, p) = UnsetReady(b, p)
  /\ \A b : BM!HighestPriority(b) = HighestPriority(b)
<1>1. /\ BM!Byte = Byte /\ BM!Priorities = Priorities
      /\ \A bits : BM!Unmap(bits) = Unmap(bits)
  BY DEF BM!Byte, Byte, BM!Priorities, Priorities, BM!Unmap, Unmap
<1>2. \A b : BM!HighestPriority(b) = HighestPriority(b)
  BY <1>1 DEF BM!HighestPriority, HighestPriority
<1>3. \A b : BM!ReadySet(b) = ReadySet(b) /\ (BM!GroupAgrees(b) <=> GroupAgrees(b))
  BY <1>1 DEF BM!ReadySet, ReadySet, BM!GroupAgrees, GroupAgrees
<1>4. \A b, p : BM!SetReady(b, p) = SetReady(b, p) /\ BM!UnsetReady(b, p) = UnsetReady(b, p)
  BY DEF BM!SetReady, SetReady, BM!UnsetReady, UnsetReady
<1>. QED
  BY <1>1, <1>2, <1>3, <1>4 DEF BM!Bitmaps, Bitmaps, BM!EmptyBitmap, EmptyBitmap

\* A call changes the set of priorities that are ready, or asks for its minimum.
LEMMA BitmapCall ==
  ASSUME BM!UniverseInPriorities, BM!GroupMatchesTable, [BM!Next]_BM!vars
  PROVE  /\ BM!GroupMatchesTable'
         /\ [BM!Abstract!Next]_<<BM!ReadySet(bm), highest>>
<1>1. bm \in Bitmaps /\ GroupAgrees(bm)
  BY SameBitmap DEF BM!GroupMatchesTable
<1>2. BM!GroupMatchesTable' <=> bm' \in Bitmaps /\ GroupAgrees(bm')
  <2>1. BM!GroupMatchesTable' <=> bm' \in BM!Bitmaps /\ BM!GroupAgrees(bm')
    BY DEF BM!GroupMatchesTable, BM!GroupAgrees, BM!Byte, BM!Bitmaps
  <2>. QED BY <2>1, SameBitmap
<1>3. BM!ReadySet(bm) = ReadySet(bm) /\ BM!ReadySet(bm)' = ReadySet(bm')
  <2>1. BM!ReadySet(bm)' = BM!ReadySet(bm')
    BY DEF BM!ReadySet, BM!Priorities
  <2>. QED BY <2>1, SameBitmap
<1>4. ASSUME NEW p \in Universe, BM!Set(p)
      PROVE  BM!GroupMatchesTable' /\ BM!Abstract!Add(p)
  <2>1. p \in Priorities /\ bm' = SetReady(bm, p) /\ highest' = highest
    BY <1>4, SameBitmap DEF BM!Set, BM!UniverseInPriorities
  <2>. QED BY <1>1, <1>2, <1>3, <2>1, SetReadyEffect DEF BM!Abstract!Add
<1>5. ASSUME NEW p \in Universe, BM!Unset(p)
      PROVE  BM!GroupMatchesTable' /\ BM!Abstract!Remove(p)
  <2>1. p \in Priorities /\ bm' = UnsetReady(bm, p) /\ highest' = highest
    BY <1>5, SameBitmap DEF BM!Unset, BM!UniverseInPriorities
  <2>. QED BY <1>1, <1>2, <1>3, <2>1, UnsetReadyEffect DEF BM!Abstract!Remove
<1>6. ASSUME BM!Highest
      PROVE  BM!GroupMatchesTable' /\ BM!Abstract!Query
  <2>1. ReadySet(bm) # {} /\ highest' = HighestPriority(bm) /\ bm' = bm
    BY <1>6, SameBitmap DEF BM!Highest
  <2>. QED BY <1>1, <1>2, <1>3, <2>1, HighestPriorityCorrect DEF BM!Abstract!Query
<1>7. CASE UNCHANGED BM!vars
  BY <1>1, <1>2, <1>3, <1>7 DEF BM!vars
<1>. QED
  BY <1>4, <1>5, <1>6, <1>7 DEF BM!Next, BM!Abstract!Next

\* The group byte and the table agree after every call of _os_set_ready and
\* _os_unset_ready.
THEOREM GroupMatchesTableAlways ==
  ASSUME BM!UniverseInPriorities
  PROVE  BM!Spec => []BM!GroupMatchesTable
<1>1. BM!Init => BM!GroupMatchesTable
  BY DEF BM!Init, BM!GroupMatchesTable, BM!EmptyBitmap, BM!Bitmaps, BM!GroupAgrees, BM!Byte
<1>2. BM!GroupMatchesTable /\ [BM!Next]_BM!vars => BM!GroupMatchesTable'
  BY BitmapCall
<1>. QED
  BY <1>1, <1>2, PTL DEF BM!Spec

\* Every call is the operation of the same name on the abstract set, and
\* _os_get_highest_priority returns its minimum.
THEOREM BitmapImplementsPrioritySet ==
  ASSUME BM!UniverseInPriorities
  PROVE  BM!Spec => BM!ImplementsPrioritySet
<1>1. BM!Init => BM!Abstract!Init
  BY DEF BM!Init, BM!Abstract!Init, BM!ReadySet, BM!EmptyBitmap, BM!Byte, BM!Priorities
<1>2. BM!GroupMatchesTable /\ [BM!Next]_BM!vars => [BM!Abstract!Next]_<<BM!ReadySet(bm), highest>>
  BY BitmapCall
<1>. QED
  BY <1>1, <1>2, GroupMatchesTableAlways, PTL
     DEF BM!Spec, BM!ImplementsPrioritySet, BM!Abstract!Spec

-----------------------------------------------------------------------------
(* The systems of MCEosModes *)

ModesInv == IInv /\ (~timed => Kept /\ Tidy)

LEMMA ModesStep ==
  ASSUME SleepsFit, SleepsEnd, ModesInv, [ModesNext]_<<vars, timed>>
  PROVE  ModesInv' /\ (~timed => ~timed' /\ (UntimedNext \/ UNCHANGED vars))
<1>1. [Next]_vars /\ UNCHANGED timed /\ (~timed => UntimedNext \/ UNCHANGED vars)
  BY DEF ModesNext, UntimedNext, Next, Call
<1>2. IInv'
  BY <1>1, NextInvariant DEF ModesInv
<1>3. ~timed => Kept'
  BY <1>1, KeptStep DEF ModesInv
<1>4. ~timed => Tidy'
  BY <1>1, TidyStep DEF ModesInv
<1>. QED
  BY <1>1, <1>2, <1>3, <1>4 DEF ModesInv

LEMMA ModesInvariant ==
  ASSUME SleepsFit, SleepsEnd
  PROVE  ModesSpec => []ModesInv
<1>1. ModesInit => ModesInv
  <2>1. SUFFICES ASSUME Init PROVE IInv /\ Kept /\ Tidy
    BY DEF ModesInit, ModesInv
  <2>2. IInv
    BY <2>1, InitInvariant
  <2>3. Kept
    BY <2>1 DEF Init, Kept, Placed
  <2>4. Tidy
    BY <2>1 DEF Init, Tidy, ReadyOnly, Distinct, AlarmsTidy, WaitsTidy, OneEach, In, UserContext
  <2>. QED
    BY <2>2, <2>3, <2>4
<1>2. ModesInv /\ [ModesNext]_<<vars, timed>> => ModesInv'
  BY ModesStep
<1>. QED
  BY <1>1, <1>2, PTL DEF ModesSpec

\* As long as no task waits with a timeout, a task is in one place: it runs, is
\* queued once, has its one alarm set or waits on one semaphore.
THEOREM EachTaskInOnePlace ==
  ASSUME SleepsFit, SleepsEnd
  PROVE  ModesSpec => []OnePlaceUntimed
<1>1. ModesInv => OnePlaceUntimed
  BY OnePlaceHolds DEF ModesInv, OnePlaceUntimed
<1>. QED
  BY <1>1, ModesInvariant, PTL

\* As long as no task waits with a timeout, a token of a semaphore somebody waits
\* on is on its way to a task that was woken: no wake-up is lost.
THEOREM NoWakeUpLost ==
  ASSUME SleepsFit, SleepsEnd, IsFiniteSet(Tasks)
  PROVE  ModesSpec => []NoLostWakeUpUntimed
<1>1. ModesInit => NoLostWakeUpUntimed
  BY DEF ModesInit, Init, NoLostWakeUpUntimed, NoLostWakeUp
<1>2. ModesInv /\ ModesInv' /\ NoLostWakeUpUntimed /\ [ModesNext]_<<vars, timed>>
        => NoLostWakeUpUntimed'
  <2>1. SUFFICES ASSUME ModesInv, ModesInv', NoLostWakeUpUntimed, [ModesNext]_<<vars, timed>>,
                        ~timed'
                 PROVE  NoLostWakeUp'
    BY DEF NoLostWakeUpUntimed
  <2>2. ~timed /\ (UntimedNext \/ UNCHANGED vars)
    BY <2>1, ModesStep DEF ModesNext
  <2>3. NoLostWakeUp /\ IInv /\ Tidy /\ IInv'
    BY <2>1, <2>2 DEF ModesInv, NoLostWakeUpUntimed
  <2>. QED
    BY <2>2, <2>3, WakeUpsStep
<1>. QED
  BY <1>1, <1>2, ModesInvariant, PTL DEF ModesSpec

\* As long as no task waits with a timeout, a task in eos_sleep becomes ready only
\* when its alarm has expired and left the queue.
THEOREM SleepsLast ==
  ASSUME SleepsFit, SleepsEnd
  PROVE  ModesSpec => SleepUntimed
<1>1. ModesInv /\ ModesInv' /\ [ModesNext]_<<vars, timed>> => [~timed => SleepLasts]_<<vars, timed>>
  <2>1. SUFFICES ASSUME ModesInv, ModesInv', [ModesNext]_<<vars, timed>>, ~timed,
                        NEW t \in Tasks, state'[t] # "WAITING", HasAlarm(t)'
                 PROVE  FALSE
    BY DEF SleepLasts
  <2>2. IInv' /\ Tidy'
    BY <2>1, ModesStep DEF ModesInv
  <2>3. PICK i \in DOMAIN alarms' : alarms'[i].task = t
    BY <2>1 DEF HasAlarm
  <2>4. alarms' \in Seq(Alarms)
    BY <2>2 DEF IInv, RestOK
  <2>5. alarms'[i] \in Alarms /\ In(alarms'[i], alarms')
    BY <2>3, <2>4, ElementOfSeq, LenProperties DEF In
  <2>6. AlarmsTidy(alarms', state', pc')
    BY <2>2 DEF Tidy
  <2>. QED
    BY <2>1, <2>3, <2>5, <2>6 DEF AlarmsTidy
<1>. QED
  BY <1>1, ModesInvariant, PTL DEF ModesSpec, SleepUntimed

-----------------------------------------------------------------------------
(* The two applications: MCEosApps adds user/work.c to an arbitrary one *)

LEMMA PairStep ==
  ASSUME [Nexts]_<<appVars, work>>, ~work'
  PROVE  ~work /\ [AppNext]_appVars
  BY DEF Nexts, Work, Pair

PairInv == ~work => AppInv /\ SlotsOK
PairRings == ~work => AppInv /\ SlotsOK /\ RingOK /\ BarsOK

LEMMA PairInvariant ==
  ASSUME IsFiniteSet(Tasks)
  PROVE  Specs => [](PairInv /\ PartsOK)
<1>1. Inits => PairInv
  BY AppInitTypes, InitSlots DEF Inits, PairInv
<1>2. PairInv /\ [Nexts]_<<appVars, work>> => PairInv'
  BY PairStep, AppNextStep, SlotsStep DEF PairInv
<1>3. PartsOK
  BY Parts
<1>. QED
  BY <1>1, <1>2, <1>3, PTL DEF Specs

\* The same for the application that runs beside user/work.c in the checked
\* model, whatever its tasks, queues and programs are.
THEOREM PairSlotsConserved ==
  ASSUME IsFiniteSet(Tasks)
  PROVE  Specs => []PairSlots
<1>1. PairInv /\ PartsOK => PairSlots
  BY DEF PairInv, SlotsOK, PartsOK, SlotsConserved, PairSlots
<1>. QED
  BY <1>1, PairInvariant, PTL

LEMMA PairRingInvariant ==
  ASSUME IsFiniteSet(Tasks), OnePair
  PROVE  Specs => []PairRings
<1>1. Inits => (~work => AppInv /\ SlotsOK /\ RingOK)
  BY AppInitTypes, InitSlots, InitRing DEF Inits
<1>2. (~work => AppInv /\ SlotsOK /\ RingOK) /\ [Nexts]_<<appVars, work>>
      => (~work => AppInv /\ SlotsOK /\ RingOK)'
  BY PairStep, AppNextStep, SlotsStep, RingStep
<1>3. PartsOK
  BY Parts
<1>4. (~work => AppInv /\ SlotsOK /\ RingOK) /\ PartsOK => PairRings
  BY ContentsBar DEF AppInv, BarsOK, PairRings
<1>. QED
  BY <1>1, <1>2, <1>3, <1>4, PTL DEF Specs

\* And its ring buffers implement FIFO queues, when every queue has one sender
\* and one receiver.
THEOREM PairImplementsFifo ==
  ASSUME IsFiniteSet(Tasks), OnePair
  PROVE  Specs => PairFifo
<1>1. Inits /\ PairRings => (~work => Queue!Init)
  BY BarsInit DEF Inits, PairRings
<1>2. PairRings /\ PairRings' /\ [Nexts]_<<appVars, work>>
      => [~work => Queue!Next]_<<[q \in Queues |-> Contents(q)], got>>
  <2>1. ASSUME PairRings, PairRings', [Nexts]_<<appVars, work>>, ~work, ~work'
        PROVE  [Queue!Next]_<<[q \in Queues |-> Contents(q)], got>>
    BY <2>1, PairStep, AppNextStep, BarStep, BarsAreQueues DEF PairRings
  <2>2. ASSUME [Nexts]_<<appVars, work>> PROVE work' = work
    BY <2>2 DEF Nexts, Work, Pair
  <2>. QED BY <2>1, <2>2
<1>. QED
  BY <1>1, <1>2, PairRingInvariant, PTL DEF Specs, PairFifo

-----------------------------------------------------------------------------
(* user/work.c.  W, the application the runs check, and WP, the application *)
(* the proofs are about, are instances with the same constants: each        *)
(* operation of the one is that operation of the other.                     *)

WP == INSTANCE EosProofs WITH
        Tasks <- WorkTasks, Prio <- WorkPrio, Period <- WorkPeriod,
        Sems <- WorkSems, InitCount <- WorkCount, QueueType <- WorkTypes,
        Timeouts <- Zero, Interruptible <- OnlyIdle, MaxCount <- 5,
        Queues <- WorkQueues, Size <- WorkSize, PutSem <- WorkPut,
        GetSem <- WorkGet, Msgs <- WorkMsgs, Program <- WorkProgram

LEMMA SameSets ==
  \A S : /\ WP!IsFiniteSet(S) <=> IsFiniteSet(S)
         /\ WP!Cardinality(S) = Cardinality(S) /\ W!Cardinality(S) = Cardinality(S)
  BY DEF WP!IsFiniteSet, W!IsFiniteSet, IsFiniteSet,
         WP!Cardinality, W!Cardinality, Cardinality

LEMMA SameBits ==
  /\ W!Priorities = WP!Priorities
  /\ W!EmptyBitmap = WP!EmptyBitmap
  /\ \A b : W!HighestPriority(b) = WP!HighestPriority(b)
  /\ \A b, p : /\ W!SetReady(b, p) = WP!SetReady(b, p)
               /\ W!UnsetReady(b, p) = WP!UnsetReady(b, p)
  BY DEF W!Priorities, WP!Priorities, W!Byte, WP!Byte, W!EmptyBitmap, WP!EmptyBitmap,
         W!SetReady, WP!SetReady, W!UnsetReady, WP!UnsetReady,
         W!HighestPriority, WP!HighestPriority, W!Unmap, WP!Unmap

LEMMA SameLists ==
  /\ \A q, node : W!AddByPriority(q, node) = WP!AddByPriority(q, node)
  /\ \A q, t : W!RemoveAlarm(q, t) = WP!RemoveAlarm(q, t)
  BY DEF W!AddByPriority, WP!AddByPriority, W!RemoveAlarm, WP!RemoveAlarm,
         W!InsertAt, WP!InsertAt, W!RemoveAt, WP!RemoveAt

LEMMA SameSchedule ==
  /\ \A rq, t : W!PushReady(rq, t) = WP!PushReady(rq, t)
  /\ \A rq, b, st : W!Schedule(rq, b, st) <=> WP!Schedule(rq, b, st)
  /\ \A t : W!WakeUp(t) <=> WP!WakeUp(t)
  /\ W!Suspend <=> WP!Suspend
<1>1. /\ \A rq, t : W!PushReady(rq, t) = WP!PushReady(rq, t)
      /\ \A rq, b, st : W!Schedule(rq, b, st) <=> WP!Schedule(rq, b, st)
  BY SameBits DEF W!PushReady, WP!PushReady, W!Schedule, WP!Schedule,
                  W!SwitchToHighest, WP!SwitchToHighest
<1>. QED
  BY <1>1, SameBits DEF W!WakeUp, WP!WakeUp, W!Suspend, WP!Suspend

LEMMA SameTests ==
  /\ W!CanCall <=> WP!CanCall
  /\ W!InUserCode <=> WP!InUserCode
  /\ \A at : W!Resumed(at) <=> WP!Resumed(at)
  /\ \A c : W!Continue(c) <=> WP!Continue(c)
  /\ W!UserContext = WP!UserContext /\ W!TickContext = WP!TickContext
  /\ W!ExpiredAlarmsHandled <=> WP!ExpiredAlarmsHandled
  BY DEF W!CanCall, WP!CanCall, W!InUserCode, WP!InUserCode, W!Resumed, WP!Resumed,
         W!Continue, WP!Continue, W!UserContext, WP!UserContext,
         W!TickContext, WP!TickContext, W!ExpiredAlarmsHandled, WP!ExpiredAlarmsHandled

LEMMA SameCalls ==
  /\ \A tick : W!Sleep(tick) <=> WP!Sleep(tick)
  /\ \A s : W!AcquireAtOnce(s) <=> WP!AcquireAtOnce(s)
  /\ \A s, to : W!AcquireTimed(s, to) <=> WP!AcquireTimed(s, to)
  /\ \A s, to : W!AcquireBlock(s, to) <=> WP!AcquireBlock(s, to)
  /\ \A s : W!Release(s) <=> WP!Release(s)
<1>1. \A tick, c : W!SleepFor(tick, c) <=> WP!SleepFor(tick, c)
  BY SameLists, SameSchedule, SameTests DEF W!SleepFor, WP!SleepFor, W!SetAlarm, WP!SetAlarm
<1>. QED
  BY <1>1, SameLists, SameSchedule, SameTests
  DEF W!Sleep, WP!Sleep, W!AcquireAtOnce, WP!AcquireAtOnce, W!AcquireTimed, WP!AcquireTimed,
      W!AcquireBlock, WP!AcquireBlock, W!Release, WP!Release, W!TakeToken, WP!TakeToken,
      W!Enqueue, WP!Enqueue, W!kernel, WP!kernel

LEMMA SameResumed ==
  /\ W!Boot <=> WP!Boot
  /\ W!AcquireTimedResume <=> WP!AcquireTimedResume
  /\ W!AcquireBlockTake <=> WP!AcquireBlockTake
  /\ W!AcquireBlockRetry <=> WP!AcquireBlockRetry
  /\ W!TickResume <=> WP!TickResume
  /\ W!Tick <=> WP!Tick
<1>1. W!Boot <=> WP!Boot
  BY SameBits, SameSchedule DEF W!Boot, WP!Boot, W!CreateTask, WP!CreateTask,
                                W!StartMultitasking, WP!StartMultitasking
<1>2. \A q : W!TriggerLoop(q) <=> WP!TriggerLoop(q)
  BY SameSchedule, SameTests DEF W!TriggerLoop, WP!TriggerLoop, W!Expired, WP!Expired,
                                 W!kernel, WP!kernel
<1>. QED
  BY <1>1, <1>2, SameTests
  DEF W!AcquireTimedResume, WP!AcquireTimedResume, W!AcquireBlockTake, WP!AcquireBlockTake,
      W!AcquireBlockRetry, WP!AcquireBlockRetry, W!TakeToken, WP!TakeToken,
      W!TickResume, WP!TickResume, W!Tick, WP!Tick, W!CountDown, WP!CountDown,
      W!kernel, WP!kernel

LEMMA SameApplication ==
  /\ W!AppInit <=> WP!AppInit
  /\ W!AppNext <=> WP!AppNext
  /\ W!NoFault <=> WP!NoFault
  /\ W!SlotsConserved <=> WP!SlotsConserved
<1>1. W!AppInit <=> WP!AppInit
  BY SameBits, SameTests DEF W!AppInit, WP!AppInit, W!Init, WP!Init
<1>2. /\ W!Op = WP!Op /\ (W!NextOp <=> WP!NextOp)
      /\ \A st : (W!Reach(st) <=> WP!Reach(st)) /\ (W!At(st) <=> WP!At(st))
      /\ W!Awaited = WP!Awaited /\ W!Signalled = WP!Signalled
      /\ (UNCHANGED W!queues <=> UNCHANGED WP!queues)
      /\ (UNCHANGED W!vars <=> UNCHANGED WP!vars)
      /\ (UNCHANGED W!app <=> UNCHANGED WP!app)
  BY SameTests DEF W!Op, WP!Op, W!NextOp, WP!NextOp, W!Reach, WP!Reach, W!At, WP!At,
                   W!Awaited, WP!Awaited, W!Signalled, WP!Signalled,
                   W!queues, WP!queues, W!vars, WP!vars, W!app, WP!app
<1>3. W!AppSleep <=> WP!AppSleep
  BY <1>2, SameTests, SameCalls DEF W!AppSleep, WP!AppSleep
<1>4. W!AppAcquire <=> WP!AppAcquire
  BY <1>2, SameCalls DEF W!AppAcquire, WP!AppAcquire
<1>5. W!AppGiveUp <=> WP!AppGiveUp
  BY <1>2 DEF W!AppGiveUp, WP!AppGiveUp, W!queues, WP!queues, W!vars, WP!vars
<1>6. W!AppCopy <=> WP!AppCopy
  BY <1>2 DEF W!AppCopy, WP!AppCopy, W!vars, WP!vars
<1>7. W!AppAdvance <=> WP!AppAdvance
  BY <1>2 DEF W!AppAdvance, WP!AppAdvance, W!Advance, WP!Advance, W!vars, WP!vars
<1>8. W!AppRelease <=> WP!AppRelease
  BY <1>2, SameCalls DEF W!AppRelease, WP!AppRelease
<1>9. W!AppTimedResume <=> WP!AppTimedResume
  BY <1>2, SameResumed DEF W!AppTimedResume, WP!AppTimedResume
<1>10. W!AppNext <=> WP!AppNext
  BY <1>2, <1>3, <1>4, <1>5, <1>6, <1>7, <1>8, <1>9, SameResumed
  DEF W!AppNext, WP!AppNext, W!Processor, WP!Processor, W!Timer, WP!Timer
<1>11. W!NoFault <=> WP!NoFault
  BY DEF W!NoFault, WP!NoFault
<1>12. W!SlotsConserved <=> WP!SlotsConserved
  BY SameSets DEF W!SlotsConserved, WP!SlotsConserved, W!InStage, WP!InStage
<1>. QED
  BY <1>1, <1>10, <1>11, <1>12

\* What the configuration says: the model values are different, both applications
\* have the same idle task, the tasks call eos_sleep(0), and a word holds the keys of
\* their alarms.
WorkValues ==
  /\ idle # t1 /\ idle # t2 /\ idle # t3 /\ t1 # t2 /\ t1 # t3 /\ t2 # t3
  /\ p1 # g1 /\ p1 # p2 /\ p1 # g2 /\ g1 # p2 /\ g1 # g2 /\ p2 # g2
  /\ Idle = idle /\ NoTask \notin WorkTasks /\ NoSem \notin WorkSems
  /\ SleepTicks = Zero /\ Wrap > 64 * 6 + 63

LEMMA WorkNumbers ==
  ASSUME WorkValues
  PROVE  /\ WorkPrio \in [WorkTasks -> 0..63] /\ WorkPrio[idle] = 63
         /\ WorkPeriod \in [WorkTasks -> 0..6]
         /\ \A t \in {t1, t2, t3} : WorkPrio[t] < 63 /\ WorkPeriod[t] > 0
         /\ WorkCount \in [WorkSems -> Nat] /\ WorkCount[p1] = 5 /\ WorkCount[g1] = 0
         /\ WorkCount[p2] = 5 /\ WorkCount[g2] = 0
         /\ WorkTypes \in [WorkSems -> {0, 1}]
  BY DEF WorkValues, WorkTasks, WorkPrio, WorkPeriod, WorkSems, WorkCount, WorkTypes

LEMMA WorkOperations ==
  ASSUME WorkValues
  PROVE  /\ WorkTasks \ {Idle} = {t1, t2, t3}
         /\ DOMAIN WorkProgram = {t1, t2, t3}
         /\ WorkProgram[t1] = <<Send(1, 0), Send(2, 0), SleepOp(0)>>
         /\ WorkProgram[t2] = <<Receive(1, 0), SleepOp(0)>>
         /\ WorkProgram[t3] = <<Receive(2, 0), SleepOp(0)>>
  BY DEF WorkValues, WorkTasks, WorkProgram

\* user/work.c meets the assumptions of the kernel and the applications,
LEMMA WorkAssumptions ==
  ASSUME WorkValues
  PROVE  /\ WP!TaskAssumption /\ WP!SemAssumption /\ WP!ParameterAssumption
         /\ WP!QueueAssumption /\ WP!ProgramAssumption
<1>1. WP!TaskAssumption
  BY WorkNumbers DEF WorkValues, WorkTasks, WP!TaskAssumption, WP!Priorities
<1>2. WP!SemAssumption
  BY WorkNumbers DEF WorkValues, WorkSems, WP!SemAssumption
<1>3. WP!ParameterAssumption
  BY ParameterAssumption DEF WorkValues, WorkTasks, Zero, OnlyIdle, WP!ParameterAssumption
<1>4. WP!QueueAssumption
  BY WorkNumbers
  DEF WorkValues, WorkSems, WorkQueues, WorkSize, WorkPut, WorkGet, WP!QueueAssumption
<1>5. WP!ProgramAssumption
  <2>1. SleepOp(0) \in WP!Operations
    BY DEF WorkValues, SleepOp, Zero, WP!Operations
  <2>2. \A q \in WorkQueues : Send(q, 0) \in WP!Operations /\ Receive(q, 0) \in WP!Operations
    BY DEF Send, Receive, Zero, WP!Operations
  <2>3. /\ <<Send(1, 0), Send(2, 0), SleepOp(0)>> \in Seq(WP!Operations) \ {<<>>}
        /\ <<Receive(1, 0), SleepOp(0)>> \in Seq(WP!Operations) \ {<<>>}
        /\ <<Receive(2, 0), SleepOp(0)>> \in Seq(WP!Operations) \ {<<>>}
    BY <2>1, <2>2 DEF WorkQueues
  <2>4. WorkProgram = [t \in {t1, t2, t3} |-> WorkProgram[t]]
    BY DEF WorkProgram, WorkTasks, WorkValues
  <2>. QED BY <2>3, <2>4, WorkOperations DEF WP!ProgramAssumption
<1>. QED
  BY <1>1, <1>2, <1>3, <1>4, <1>5

\* and it has three tasks, which wait without a limit, two queues with one sender and
\* one receiver each, and periods, which eos_sleep(0) sleeps for.
LEMMA WorkCooperates ==
  ASSUME WorkValues
  PROVE  WP!Cooperative
<1>1. IsFiniteSet({t1, t2, t3}) /\ Cardinality({t1, t2, t3}) = 3
  <2>1. IsFiniteSet({t1}) /\ Cardinality({t1}) = 1
    BY FS_Singleton
  <2>2. {t1, t2} = {t1} \cup {t2} /\ t2 \notin {t1}
    BY DEF WorkValues
  <2>3. IsFiniteSet({t1, t2}) /\ Cardinality({t1, t2}) = 2
    BY <2>1, <2>2, FS_AddElement
  <2>4. {t1, t2, t3} = {t1, t2} \cup {t3} /\ t3 \notin {t1, t2}
    BY DEF WorkValues
  <2>. QED BY <2>3, <2>4, FS_AddElement
<1>2. WP!IsFiniteSet(WorkTasks)
  <2>1. WorkTasks = {t1, t2, t3} \cup {idle}
    BY DEF WorkTasks
  <2>2. IsFiniteSet(WorkTasks)
    BY <1>1, <2>1, FS_AddElement
  <2>. QED BY <2>2, SameSets
<1>3. WP!Roomy
  <2>1. IsFiniteSet({1}) /\ Cardinality({1}) = 1
    BY FS_Singleton
  <2>2. IsFiniteSet(WorkQueues) /\ Cardinality(WorkQueues) = 2
    BY <2>1, FS_AddElement DEF WorkQueues
  <2>. QED BY <1>1, <2>2, SameSets, WorkOperations DEF WP!Roomy, WP!Users
<1>4. WP!OnePair
  BY WorkOperations DEF WP!OnePair, WP!Users, Send, Receive, SleepOp
<1>5. WP!Patient
  BY WorkNumbers, WorkOperations DEF WP!Patient, WP!Users, Zero, OnlyIdle, WorkValues
<1>6. WP!SleepsFit
  BY WorkNumbers, ParameterAssumption DEF WP!SleepsFit, WP!Fits, WorkValues, Zero
<1>7. WP!SleepsEnd
  BY WorkNumbers, WorkOperations DEF WP!SleepsEnd
<1>. QED
  BY <1>2, <1>3, <1>4, <1>5, <1>6, <1>7 DEF WP!Cooperative

LEMMA WorkCalm ==
  ASSUME WorkValues
  PROVE  Specs => [](work => WP!Calm)
<1>. USE WorkAssumptions, WorkCooperates
     DEF WP!TaskAssumption, WP!SemAssumption, WP!ParameterAssumption,
         WP!QueueAssumption, WP!ProgramAssumption
<1>1. WP!AppInit => WP!Calm
  BY WP!CalmInit
<1>2. WP!Calm /\ [WP!AppNext]_(WP!appVars) => WP!Calm'
  BY WP!CalmStep
<1>3. Inits => (work => WP!Calm)
  BY ONLY <1>1, SameApplication DEF Inits
<1>4. (work => WP!Calm) /\ [Nexts]_<<appVars, work>> => (work => WP!Calm)'
  <2>1. [Nexts]_<<appVars, work>> /\ work' => work /\ [WP!AppNext]_(WP!appVars)
    BY ONLY SameApplication DEF Nexts, Work, Pair, appVars, app, vars,
       WP!appVars, WP!app, WP!vars
  <2>. QED BY ONLY <1>2, <2>1
<1>. QED
  BY ONLY <1>3, <1>4, PTL DEF Specs

\* user/work.c never stops in a fault, however long it runs: the idle task's ticks
\* always find an alarm, and each wait node is freed once (sync.c, timer.c, work.c).
THEOREM WorkNeverFaults ==
  ASSUME WorkValues
  PROVE  Specs => []WorkNoFault
<1>1. (work => WP!Calm) => WorkNoFault
  BY SameApplication DEF WP!Calm, WorkNoFault
<1>. QED
  BY <1>1, WorkCalm, PTL

\* And no slot of its two message queues is ever lost or handed out twice (comm.c).
THEOREM WorkSlotsConserved ==
  ASSUME WorkValues
  PROVE  Specs => []WorkSlots
<1>1. (work => WP!Calm) => WorkSlots
  <2>1. WP!PartsOK
    BY WP!Parts, WorkAssumptions, WorkCooperates
    DEF WP!TaskAssumption, WP!SemAssumption, WP!ParameterAssumption,
        WP!QueueAssumption, WP!ProgramAssumption, WP!Cooperative
  <2>2. WP!SlotsOK /\ WP!PartsOK => WP!SlotsConserved
    BY DEF WP!SlotsOK, WP!PartsOK, WP!SlotsConserved
  <2>. QED BY <2>1, <2>2, SameApplication DEF WP!Calm, WorkSlots
<1>. QED
  BY <1>1, WorkCalm, PTL
=============================================================================
