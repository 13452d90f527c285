CONSTANTS
  NumVcpus = 2
  Backend = "vmx"
  Others = {dev}
  Ioctls = {"memmap"}
  Exits = {"ioapic"}
  SuspChk = FALSE
  Budget = 1
  BootActive = {0, 1}
SPECIFICATION FairSpec
PROPERTY RendezvousCompletes
