SPECIFICATION FairSpec
CONSTANTS
  NumHart = 2
  NumProc = 2
  Val = {0, 1}
  Depth = 2
INVARIANT Exclusion
INVARIANT OnOneHart
INVARIANT ContextPreserved
INVARIANT StackEmptied
PROPERTY LockFreed
