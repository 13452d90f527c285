CONSTANTS
  NumVcpus = 2
  Backend = "vmx"
  Others = {}
  Ioctls = {"suspend", "stop", "resume", "nmi"}
  Exits = {"user", "handled", "hlt_off", "ioapic"}
  SuspChk = FALSE
  Budget = 2
  BootActive = {0, 1}
SPECIFICATION LiveSpec
INVARIANT RendezvousBarrier
PROPERTY SuspendCompletes
PROPERTY RendezvousCompletes
PROPERTY HltWakesUp
