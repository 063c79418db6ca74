SPECIFICATION Spec
CONSTANTS
  Task = {t1, t2, t3}
  Sender = {t1}
  Receiver = {t2, t3}
  NumMbox = 2
  Name = {n1, n2}
  NoName = NoName
  Capacity = 2
  Byte = {0}
  Sizes = {1, 2}
  CloseShared = FALSE
CHECK_DEADLOCK FALSE
INVARIANT NoLostWakeup
INVARIANT MutualBlock
INVARIANT Rendezvous
SYMMETRY Interchangeable
