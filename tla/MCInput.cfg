CONSTANTS
  NumBanks = 2
  NumEncoders = 1
  NumVmaps = 2
  EncMax = 1
  CCMax = 1
  LsbSpan = 2
  SideMode <- HoldPrevNext
  SwMode <- CycleInFirst
  VmapMode <- OverlayInSecond
  Cfg <- SecondSends
  InitPos <- FromZero
  StoredActive <- AllFirst
  FlashEncoder <- FlashInTurn
  Factors = {1}
  OutSize = 2
  AnimSize = 4
  HostMessages <- NoHost
  InRoom = 0
  BootScans = 0
  UsbMayFail = FALSE
SPECIFICATION Spec
INVARIANTS UpToDateUnlessRequested VelocityFreshAfterScan HostHearsTurn
PROPERTY HoldRestores
