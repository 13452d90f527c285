CONSTANTS
  Elems = {e1, e2, e3, e4}
  Workers = {w1, w2}
  Reqs = {r1, r2}
  Offsets = {0, 1}
  Features = {"cancel", "pause", "close"}
SPECIFICATION Spec
INVARIANT TypeOK
INVARIANT OneElementPerRequest
INVARIANT NoOverrun
INVARIANT NoStuckQueue
INVARIANT StopsCleanly
SYMMETRY Symmetry
CHECK_DEADLOCK FALSE
