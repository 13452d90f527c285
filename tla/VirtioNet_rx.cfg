CONSTANTS
  QSize = 2
  IdxMod = 4
  Queues = {"rx"}
  Modes <- RxModes
  Resets = {}
  Sizes = {1, 2}
  Backlog = 1
  MaxBatch = 2
SPECIFICATION FairSpec
INVARIANT TypeOK
INVARIANT ChainsConserved
INVARIANT NoLostNotification
PROPERTY RxDelivers
CHECK_DEADLOCK FALSE
