----------------------------- MODULE MCEosModes -----------------------------
(***************************************************************************)
(* Small systems of the kernel: the idle task and two or three user tasks. *)
(* In one run three user tasks work in two ways: either no task waits with *)
(* a timeout, or two of them do and the third only yields.                 *)
(***************************************************************************)
EXTENDS Eos, TLC

CONSTANTS idleTask, taskA, taskB, taskC, semA, semB

Three == {idleTask, taskA, taskB}
Four  == {idleTask, taskA, taskB, taskC}

\* 63 and 10 are in different groups of the bitmap, 10 and 12 in the same one
PrioThree  == idleTask :> 63 @@ taskA :> 10 @@ taskB :> 20
PrioFour   == idleTask :> 63 @@ taskA :> 10 @@ taskB :> 12 @@ taskC :> 12
PeriodThree == idleTask :> 0 @@ taskA :> 1 @@ taskB :> 2
PeriodFour  == idleTask :> 0 @@ taskA :> 1 @@ taskB :> 2 @@ taskC :> 2

TwoSems == {semA, semB}
CountTwo  == semA :> 1 @@ semB :> 0
MixedTypes == semA :> 1 @@ semB :> 0

UpToTwo  == 0..2
EveryKind == {-1, 0, 2}
Timed == {0, 2}
-----------------------------------------------------------------------------
CONSTANT MaxLeft   \* bounds the nodes that timed waits can pile up in a queue

VARIABLE timed

ModesInit == Init /\ timed \in BOOLEAN

ModesNext ==
  /\ UNCHANGED timed
  /\ \/ ~timed /\ UntimedNext
     \/ /\ timed
        /\ \/ cur # taskC /\ Next
           \/ cur = taskC /\ (Yield \/ Resume \/ Tick)
        /\ \A s \in Sems : Len(waitq'[s]) <= MaxLeft
        /\ \A p \in Priorities : Len(readyq'[p]) <= MaxLeft

ModesSpec == ModesInit /\ [][ModesNext]_<<vars, timed>>
-----------------------------------------------------------------------------
\* What the wait nodes and alarms that a timed acquire leaves behind break: a
\* task is in one place (task.c), a token wakes a waiter that needs it (sync.c),
\* and a sleep lasts (task.c).  Without timed waits all three hold.
OnePlaceUntimed == ~timed => OnePlace
NoLostWakeUpUntimed == ~timed => NoLostWakeUp
SleepUntimed == [][~timed => SleepLasts]_<<vars, timed>>
=============================================================================
