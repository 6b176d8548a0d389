SPECIFICATION FairSpec
CONSTANTS
  Jobs = {1, 2}
  Loads <- mcLoads
  Regs <- mcRegs
  Box = "mailbox"
  MaxFaults = 2
INVARIANTS TypeOK HonestWhenAlone DeviceLeftClean SuccessIsAudited
PROPERTIES JobsEnd
CHECK_DEADLOCK FALSE
