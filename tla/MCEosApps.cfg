SPECIFICATION Specs
CONSTANTS
  idle = idle
  t1 = t1
  t2 = t2
  t3 = t3
  p1 = p1
  g1 = g1
  p2 = p2
  g2 = g2
  m1 = m1
  m2 = m2
  NoTask = NoTask
  NoSem = NoSem
  NoMsg = NoMsg
  Idle <- idle
  Tasks <- PairTasks
  Prio <- PairPrio
  Period <- PairPeriod
  Sems <- PairSems
  InitCount <- PairCount
  QueueType <- PairTypes
  SleepTicks <- Zero
  Timeouts <- AllTimeouts
  Wrap = 1048576
  Interruptible <- PairTasks
  Overrun = FALSE
  MaxCount = 2
  MaxWaiters = 4
  Queues <- PairQueues
  Size <- PairSize
  PutSem <- PairPut
  GetSem <- PairGet
  Msgs <- PairMsgs
  Program <- PairProgram
INVARIANTS WorkNoFault WorkSlots PairSlots
PROPERTIES PairFifo WorkDelivers
CHECK_DEADLOCK FALSE
