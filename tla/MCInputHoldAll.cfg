CONSTANTS
  NumBanks = 2
  NumEncoders = 1
  NumVmaps = 2
  EncMax = 1
  CCMax = 1
  LsbSpan = 2
  SideMode <- HoldAndNext
  SwMode <- AllCycle
  VmapMode <- AllToggle
  Cfg <- NoMidi
  InitPos <- FromZero
  StoredActive <- AllFirst
  FlashEncoder <- FlashInTurn
  Factors = {}
  OutSize = 2
  AnimSize = 4
  HostMessages <- NoHost
  InRoom = 0
  BootScans = 0
  UsbMayFail = FALSE
SPECIFICATION Spec
PROPERTY HoldRestoresAll
