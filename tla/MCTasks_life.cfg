SPECIFICATION Spec
CONSTANTS
  NumTask = 3
  NumTcb = 1
  Mutex = {}
  Sema = {}
  Barrier = {}
  MaxLock = 0
  MaxSleep = 1
  MaxUnits = 2
  Counts = {}
  Modes = {"auto", "zombie", "junk"}
  Misuse = {"killWaiter"}
INVARIANT LinkedOnce
INVARIANT StatusMatchesQueue
INVARIANT KernelResponsive
INVARIANT NoneLost
INVARIANT ExitedHasNoWaiters
PROPERTY NoResurrection
