CONSTANTS
  r = r
  R = R
  c = c
  space = space
  sys = sys
  console = console
  NULL = NULL
  NoDescriptor = NoDescriptor
  Chars <- MCChars
  Space = space
  Fold <- MCFold
  ResetName <- MCReset
  ConfigResetName <- MCConfigReset
  LineSize = 4
  SysSize = 3
  MaxPosts = 3
SPECIFICATION Spec
INVARIANT EndpointsBelowFive
