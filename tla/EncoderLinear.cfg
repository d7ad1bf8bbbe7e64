CONSTANTS
  EncMax = 255
  CCMax = 127
  LsbSpan = 128
  NumFrames = 32
  BcmMax = 31
  Bounds = {0, 20, 64, 127}
  Stops = {0, 63, 127, 255}
  Levels = {0, 1, 2}
  HueStride = 97
SPECIFICATION LinearSpec
INVARIANT HueInRange
