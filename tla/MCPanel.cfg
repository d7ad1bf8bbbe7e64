CONSTANTS
  EncMax = 255
  CCMax = 127
  LsbSpan = 128
  NumFrames = 32
  BcmMax = 31
  Bounds = {0, 20, 64, 127}
  Stops = {0, 63, 127, 255}
  Levels = {0, 1, 128, 200, 255}
  HueStride = 1
  MaxEdges = 1
  Reach = 12
  NumBytes = 2
  ByteSize = 4
  Thresholds <- ShortThresholds
  MaxTicks = 40
  Switches = {1, 2, 3}
  Samples = 4
  ResetSwitches = {2, 3}
SPECIFICATION PanelSpec
INVARIANTS
  ValueInRange BarIsProportional ColourAsDefined NoDrift
  PressedWhenSteady EdgesAlternate FactorFitsPace TornOnlyAtCarry
PROPERTIES
  TurnIsMonotone HostValueKept DetentGrowsOutward BrighterNeverDims
  StepsFollowShaft ResetWhenTogether
