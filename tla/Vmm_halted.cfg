CONSTANTS
  NumVcpus = 2
  Backend = "vmx"
  Others = {}
  Ioctls = {}
  Exits = {"hlt_off"}
  SuspChk = TRUE
  Budget = 0
  BootActive = {0, 1}
SPECIFICATION Spec
INVARIANT HaltedAssert
