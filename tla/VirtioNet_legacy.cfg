CONSTANTS
  QSize = 2
  IdxMod = 4
  Queues = {"rx"}
  Modes <- LegacyOnly
  Resets = {}
  Sizes = {1}
  Backlog = 1
  MaxBatch = 3
SPECIFICATION FairSpec
PROPERTY RxBegins
CHECK_DEADLOCK FALSE
