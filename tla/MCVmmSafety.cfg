CONSTANTS
  NumVcpus = 2
  Backend = "vmx"
  Others = {dev}
  Ioctls = {"suspend", "stop", "resume", "nmi", "intr"}
  Exits = {"user", "handled", "hlt_on", "hlt_off", "ioapic", "triplefault", "ast"}
  SuspChk = FALSE
  Budget = 2
  BootActive = {0, 1}
SPECIFICATION SafetySpec
INVARIANT TypeOK
INVARIANT SingleOwner
INVARIANT WholeVmExclusive
INVARIANT SuspendedNeverRuns
INVARIANT NoLostWakeup
INVARIANT NoLostKick
PROPERTY HaltDetectionExact
