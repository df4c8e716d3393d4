----------------------------- MODULE MCEosApps -----------------------------
(***************************************************************************)
(* Two applications of the kernel: user/work.c, which is W, and a sender    *)
(* and a receiver that use every kind of timeout, which the constants of    *)
(* the configuration give.                                                  *)
(***************************************************************************)
EXTENDS EosApp, TLC
CONSTANTS idle, t1, t2, t3, p1, g1, p2, g2, m1, m2

WorkTasks == {idle, t1, t2, t3}
OnlyIdle == {idle}
WorkPrio == [t \in WorkTasks |-> CASE t = t1 -> 50 [] t = t2 -> 10 [] t = t3 -> 20 [] OTHER -> 63]
WorkPeriod == [t \in WorkTasks |-> CASE t = t1 -> 2 [] t = t2 -> 4 [] t = t3 -> 6 [] OTHER -> 0]
WorkSems == {p1, g1, p2, g2}
WorkQueues == {1, 2}
WorkPut == <<p1, p2>>
WorkGet == <<g1, g2>>
WorkSize == <<5, 5>>
WorkCount == [s \in WorkSems |-> IF s \in {p1, p2} THEN 5 ELSE 0]
WorkTypes == [s \in WorkSems |-> 1]
WorkMsgs == {m1}

Send(n, to)    == [op |-> "send", q |-> n, timeout |-> to]
Receive(n, to) == [op |-> "receive", q |-> n, timeout |-> to]
SleepOp(n)     == [op |-> "sleep", tick |-> n]

\* sender_task, receiver_task1 and receiver_task2
WorkProgram ==
  [t \in WorkTasks \ {idle} |->
     CASE t = t1 -> <<Send(1, 0), Send(2, 0), SleepOp(0)>>
       [] t = t2 -> <<Receive(1, 0), SleepOp(0)>>
       [] t = t3 -> <<Receive(2, 0), SleepOp(0)>>]

\* One sender and one receiver, every kind of timeout, two different messages
\* and a small queue
PairTasks == {idle, t1, t2}
PairPrio == idle :> 63 @@ t1 :> 20 @@ t2 :> 10
PairPeriod == idle :> 0 @@ t1 :> 1 @@ t2 :> 2
PairSems == {p1, g1}
PairQueues == {1}
PairPut == <<p1>>
PairGet == <<g1>>
PairSize == <<2>>
PairCount == p1 :> 2 @@ g1 :> 0
PairTypes == p1 :> 0 @@ g1 :> 1
PairMsgs == {m1, m2}
PairProgram ==
  t1 :> <<Send(1, 2), SleepOp(0), Send(1, 0), Send(1, 1), Send(1, -1)>> @@
  t2 :> <<Receive(1, 0), SleepOp(0)>>

Zero == {0}
AllTimeouts == -1..2

W == INSTANCE EosApp WITH
       Tasks <- WorkTasks, Prio <- WorkPrio, Period <- WorkPeriod,
       Sems <- WorkSems, InitCount <- WorkCount, QueueType <- WorkTypes,
       Timeouts <- Zero, Interruptible <- OnlyIdle, MaxCount <- 5,
       Queues <- WorkQueues, Size <- WorkSize, PutSem <- WorkPut,
       GetSem <- WorkGet, Msgs <- WorkMsgs, Program <- WorkProgram

VARIABLE work        \* whether the application is user/work.c

Inits == work \in BOOLEAN /\ IF work THEN W!AppInit ELSE AppInit
Work == work /\ UNCHANGED work
Pair == ~work /\ UNCHANGED work
Nexts == \/ Work /\ W!AppNext
         \/ Pair /\ AppNext

\* The processor never stops, and the timer goes on ticking.
Specs == /\ Inits /\ [][Nexts]_<<appVars, work>>
         /\ WF_<<appVars, work>>(Work /\ W!Processor)
         /\ WF_<<appVars, work>>(Work /\ W!Timer)
-----------------------------------------------------------------------------
\* user/work.c never runs into a fault: no tick finds the alarm queue empty, and
\* no wait node is freed twice or while it is linked.
WorkNoFault == work => W!NoFault

\* In both applications every slot of a queue is free, holds a message, or is in
\* the hands of exactly one sender or receiver.
WorkSlots == work => W!SlotsConserved
PairSlots == ~work => SlotsConserved

\* The ring buffers and semaphores of the pair implement bounded FIFO queues:
\* nothing is overwritten, skipped, delivered twice or read before it is written.
PairFifo == /\ ~work => Queue!Init
            /\ [][~work => Queue!Next]_<<[q \in Queues |-> Contents(q)], got>>

\* So do those of user/work.c, and every task of it keeps finishing operations:
\* none starves, and none waits for ever.
WorkDelivers ==
  /\ work => W!Queue!Init
  /\ [][work => W!Queue!Next]_<<[q \in WorkQueues |-> W!Contents(q)], got>>
  /\ \A t \in WorkTasks \ {idle} : []<>(work => step[t] = 1) /\ []<>(work => step[t] # 1)
=============================================================================
