SPECIFICATION LiveSpec
CHECK_DEADLOCK FALSE
CONSTANTS
  Task = {t1, t2, t3}
  Sender = {t1, t2}
  Receiver = {t3}
  NumMbox = 1
  Name = {n1}
  NoName = NoName
  Capacity = 3
  Byte = {0, 1}
  Sizes = {1, 2}
  CloseShared = FALSE
PROPERTY IsByteQueue
PROPERTY ReceiverServed
