CONSTANTS
  QSize = 2
  IdxMod = 4
  Queues = {"rx"}
  Modes <- PlainOnly
  Resets <- PlainOnly
  Sizes = {1}
  Backlog = 1
  MaxBatch = 3
SPECIFICATION Spec
INVARIANT NoRxAfterReset
