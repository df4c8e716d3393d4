SPECIFICATION ModesSpec
CONSTANTS
  idleTask = idleTask
  taskA = taskA
  taskB = taskB
  taskC = taskC
  semA = semA
  semB = semB
  NoTask = NoTask
  NoSem = NoSem
  Idle <- idleTask
  Tasks <- Three
  Prio <- PrioThree
  Period <- PeriodThree
  Sems <- TwoSems
  InitCount <- CountTwo
  QueueType <- MixedTypes
  SleepTicks <- UpToTwo
  Timeouts <- Timed
  Wrap = 4096
  Interruptible <- Three
  Overrun = FALSE
  MaxCount = 2
  MaxWaiters = 2
  MaxLeft = 2
CHECK_DEADLOCK FALSE
PROPERTY SleepNotCutShort
