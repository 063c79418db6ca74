SPECIFICATION FairSpec
CONSTANTS
  NumTask = 3
  NumTcb = 0
  Mutex = {}
  Sema = {}
  Barrier = {}
  MaxLock = 0
  MaxSleep = 2
  MaxUnits = 2
  Counts = {}
  Modes = {"auto"}
  Misuse = {"killWaiter"}
PROPERTY ReadyTasksRun
PROPERTY SleepersWake
