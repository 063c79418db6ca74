SPECIFICATION Spec
SYMMETRY Interchangeable
CONSTANTS
  NumTask = 3
  NumTcb = 0
  Mutex = {m1, m2}
  Sema = {s1}
  Barrier = {b1}
  MaxLock = 2
  MaxSleep = 0
  MaxUnits = 2
  Counts = {1, 3}
  Modes = {"auto"}
  Misuse = {"tableFull"}
CHECK_DEADLOCK FALSE
INVARIANT TypeOK
INVARIANT MutualExclusion
INVARIANT KilledHoldNothing
PROPERTY NoOvertaking
PROPERTY BarrierTogether
