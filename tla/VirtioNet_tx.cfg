CONSTANTS
  QSize = 2
  IdxMod = 4
  Queues = {"tx"}
  Modes <- PlainLegacy
  Resets <- PlainOnly
  Sizes = {1}
  Backlog = 0
  MaxBatch = 3
SPECIFICATION FairSpec
INVARIANT ChainsConserved
PROPERTY TxCompletes
PROPERTY ResetCompletes
