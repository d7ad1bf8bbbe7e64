CONSTANTS
  NumBanks = 1
  NumEncoders = 1
  NumVmaps = 3
  EncMax = 2
  CCMax = 2
  LsbSpan = 2
  SideMode <- CycleOnly
  SwMode <- ResetOnPress
  VmapMode <- AllOverlay
  Cfg <- FinePartMute
  InitPos <- FromZero
  StoredActive <- AllFirst
  FlashEncoder <- FlashInTurn
  Factors = {1}
  OutSize = 3
  AnimSize = 4
  HostMessages <- HostInRange
  InRoom = 1
  BootScans = 2
  UsbMayFail = TRUE
SPECIFICATION Spec
INVARIANT WireCurrent
