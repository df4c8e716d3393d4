------------------------------- MODULE EosApp -------------------------------
(***************************************************************************)
(* Tasks with fixed programs on the eOS kernel: the message queues of      *)
(* core/comm.c and applications such as user/work.c.                       *)
(*                                                                         *)
(* A program is a cycle of operations: sending to or receiving from a      *)
(* message queue, or sleeping.  Sending and receiving are not atomic: a    *)
(* tick may come, and another task run, between any two stages of them.    *)
(***************************************************************************)
EXTENDS Eos

CONSTANTS
  Queues,          \* the message queues
  Size,            \* mq->queue_size
  PutSem, GetSem,  \* mq->putsem and mq->getsem, members of Sems
  Msgs, NoMsg,     \* message contents, and what a slot holds at first
  Program          \* the cycle of operations of each task

Operations == [op : {"send", "receive"}, q : Queues, timeout : Timeouts]
              \cup [op : {"sleep"}, tick : SleepTicks]

ASSUME QueueAssumption ==
  /\ Size \in [Queues -> Nat \ {0}]
  /\ PutSem \in [Queues -> Sems] /\ GetSem \in [Queues -> Sems]
  \* eos_init_mqueue
  /\ \A q \in Queues : InitCount[PutSem[q]] = Size[q] /\ InitCount[GetSem[q]] = 0
  \* each eos_mqueue_t has its own two
  /\ \A q, r \in Queues : q # r => PutSem[q] # PutSem[r] /\ GetSem[q] # GetSem[r]
ASSUME ProgramAssumption == Program \in [Tasks \ {Idle} -> Seq(Operations) \ {<<>>}]

VARIABLES
  step,            \* the operation each task is at
  stage,           \* how far it is in it
  front, rear,     \* mq->front and mq->rear
  buffer,          \* the slots of each queue
  got              \* the message each task received last
queues == <<front, rear, buffer, got>>
app == <<step, stage, front, rear, buffer, got>>
appVars == <<vars, app>>

Op == Program[cur][step[cur]]
NextOp == /\ step' = [step EXCEPT ![cur] = (@ % Len(Program[cur])) + 1]
          /\ stage' = [stage EXCEPT ![cur] = "acquire"]
Reach(next) == stage' = [stage EXCEPT ![cur] = next] /\ UNCHANGED step
At(st) == CanCall /\ Op.op \in {"send", "receive"} /\ stage[cur] = st

\* eos_send_message waits for a free slot, eos_receive_message for a message;
\* both then signal the other side.
Awaited   == IF Op.op = "send" THEN PutSem[Op.q] ELSE GetSem[Op.q]
Signalled == IF Op.op = "send" THEN GetSem[Op.q] ELSE PutSem[Op.q]

AppSleep ==
  /\ CanCall /\ Op.op = "sleep"
  /\ Sleep(Op.tick)
  /\ NextOp
  /\ UNCHANGED queues

\* The call of eos_acquire_semaphore.  When it has to wait, the task goes on
\* at the next stage as soon as it is resumed with a token.
AppAcquire ==
  /\ At("acquire")
  /\ \/ AcquireAtOnce(Awaited)
     \/ AcquireTimed(Awaited, Op.timeout)
     \/ AcquireBlock(Awaited, Op.timeout)
  /\ Reach("copy")
  /\ UNCHANGED queues

\* timeout -1 and no token: the call returns 0, and so does the operation
AppGiveUp ==
  /\ At("acquire")
  /\ Op.timeout = -1 /\ count[Awaited] = 0
  /\ NextOp
  /\ UNCHANGED <<vars, queues>>

\* memcpy to or from the slot
AppCopy ==
  /\ At("copy")
  /\ LET q == Op.q
     IN  \/ /\ Op.op = "send"
            /\ \E m \in Msgs : buffer' = [buffer EXCEPT ![q][rear[q]] = m]
            /\ UNCHANGED got
         \/ /\ Op.op = "receive"
            /\ got' = [got EXCEPT ![cur] = buffer[q][front[q]]]
            /\ UNCHANGED buffer
  /\ Reach("advance")
  /\ UNCHANGED <<vars, front, rear>>

\* Mutant: the last slot is never used
AdvanceShort(index, q) == IF index < Size[q] - 2 THEN index + 1 ELSE 0
Advance(index, q) == IF index < Size[q] - 1 THEN index + 1 ELSE 0

AppAdvance ==
  /\ At("advance")
  /\ LET q == Op.q
     IN  \/ /\ Op.op = "send"
            /\ rear' = [rear EXCEPT ![q] = Advance(@, q)]
            /\ UNCHANGED front
         \/ /\ Op.op = "receive"
            /\ front' = [front EXCEPT ![q] = Advance(@, q)]
            /\ UNCHANGED rear
  /\ Reach("release")
  /\ UNCHANGED <<vars, buffer, got>>

AppRelease ==
  /\ At("release")
  /\ Release(Signalled)
  /\ NextOp
  /\ UNCHANGED queues

\* A timed wait that ends without a token makes the operation return 0.
AppTimedResume ==
  /\ AcquireTimedResume
  /\ IF count[pc[cur].sem] = 0 THEN NextOp ELSE UNCHANGED <<step, stage>>
  /\ UNCHANGED queues

AppInit ==
  /\ Init
  /\ step = [t \in Tasks |-> 1]
  /\ stage = [t \in Tasks |-> "acquire"]
  /\ front = [q \in Queues |-> 0]
  /\ rear = [q \in Queues |-> 0]
  /\ buffer = [q \in Queues |-> [i \in 0..(Size[q] - 1) |-> NoMsg]]
  /\ got = [t \in Tasks |-> NoMsg]

Processor ==
  \/ AppSleep \/ AppAcquire \/ AppGiveUp \/ AppCopy \/ AppAdvance \/ AppRelease
  \/ AppTimedResume
  \/ (Boot \/ AcquireBlockTake \/ AcquireBlockRetry \/ TickResume) /\ UNCHANGED app

Timer == Tick /\ UNCHANGED app

AppNext == Processor \/ Timer

\* The processor never stops, and the timer goes on ticking.
AppSpec == AppInit /\ [][AppNext]_appVars
           /\ WF_appVars(Processor) /\ WF_appVars(Timer)
-----------------------------------------------------------------------------
(* Properties *)

\* No tick finds the alarm queue empty and no wait node is freed twice or while
\* it is linked: with the programs given, the system keeps running.
NoFault == fault = "none"

\* The tasks in a stage of an operation on q, with the token of its first half
InStage(op, q, stages) ==
  {t \in Tasks \ {Idle} :
     LET o == Program[t][step[t]]
     IN  /\ o.op = op /\ o.q = q
         /\ stage[t] \in stages
         /\ pc[t].at \notin {"timed", "block"}}

\* The slots of a queue are conserved: every one is free, holds a message, or is
\* in the hands of exactly one sender or receiver.
SlotsConserved ==
  \A q \in Queues :
    count[PutSem[q]] + count[GetSem[q]]
    + Cardinality(InStage("send", q, {"copy", "advance", "release"}))
    + Cardinality(InStage("receive", q, {"copy", "advance", "release"}))
      = Size[q]

\* The messages a receiver can still get from q, oldest first.
Contents(q) ==
  LET first == front[q] + Cardinality(InStage("receive", q, {"advance"}))
      n == count[GetSem[q]] + Cardinality(InStage("send", q, {"advance", "release"}))
                            + Cardinality(InStage("receive", q, {"copy"}))
  IN  [i \in 1..n |-> buffer[q][(first + i - 1) % Size[q]]]

\* The ring buffers and their semaphores implement bounded queues: nothing is
\* overwritten, delivered twice, skipped or read before it is written.
Queue == INSTANCE Fifo WITH queue <- [q \in Queues |-> Contents(q)]
ImplementsFifo == Queue!Spec
=============================================================================
