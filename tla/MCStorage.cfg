CONSTANTS
  NumSlots = 2
  MaxChunks = 2
  Intrs = {"poll", "intx", "shared", "own"}
  GuestOps = 1
  Elems = {"e1", "e2", "e3", "e4"}
  Workers = {"v1", "v2"}
  Reqs = {"r1", "r2"}
SPECIFICATION StorageSpec
INVARIANT CommandsAccounted
INVARIANT CompletionsAnnounced
PROPERTY CommandsImplement
PROPERTY CommandsEnd
CHECK_DEADLOCK FALSE
