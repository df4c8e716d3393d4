SPECIFICATION ModesSpec
CONSTANTS
  idleTask = idleTask
  taskA = taskA
  taskB = taskB
  taskC = taskC
  semA = semA
  semB = semB
  NoTask = NoTask
  NoSem = NoSem
  Idle <- idleTask
  Tasks <- Four
  Prio <- PrioFour
  Period <- PeriodFour
  Sems <- TwoSems
  InitCount <- CountTwo
  QueueType <- MixedTypes
  SleepTicks <- UpToTwo
  Timeouts <- EveryKind
  Wrap = 4096
  Interruptible <- Four
  Overrun = FALSE
  MaxCount = 2
  MaxWaiters = 3
  MaxLeft = 2
INVARIANTS TypeOK BitmapMatchesQueues HighestRuns IdleAvailable NoTaskLost WaitersInOrder AlarmsOnTime OnePlaceUntimed NoLostWakeUpUntimed
PROPERTY SleepUntimed
CHECK_DEADLOCK FALSE
