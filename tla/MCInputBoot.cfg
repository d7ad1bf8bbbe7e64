CONSTANTS
  NumBanks = 2
  NumEncoders = 1
  NumVmaps = 1
  EncMax = 1
  CCMax = 1
  LsbSpan = 2
  SideMode <- NextOnly
  SwMode <- NoSwitches
  VmapMode <- AllToggle
  Cfg <- NoMidi
  InitPos <- FromZero
  StoredActive <- AllFirst
  FlashEncoder <- FlashInTurn
  Factors = {1}
  OutSize = 2
  AnimSize = 4
  HostMessages <- NoHost
  InRoom = 0
  BootScans = 1
  UsbMayFail = FALSE
SPECIFICATION Spec
INVARIANT UpToDateUnlessRequested
