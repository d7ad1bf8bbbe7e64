CONSTANTS
  NumBanks = 1
  NumEncoders = 1
  NumVmaps = 1
  EncMax = 7
  CCMax = 3
  LsbSpan = 4
  SideMode <- NoSides
  SwMode <- NoSwitches
  VmapMode <- AllToggle
  Cfg <- PartPerEncoder
  InitPos <- FromZero
  StoredActive <- AllFirst
  FlashEncoder <- FlashInTurn
  Factors = {1}
  OutSize = 3
  AnimSize = 4
  HostMessages <- HostOn0
  InRoom = 1
  BootScans = 0
  UsbMayFail = FALSE
SPECIFICATION Spec
INVARIANT PositionInRange
