CONSTANTS
  sysex = sysex
  input = input
  tail1 = tail1
  tail2 = tail2
  sys = sys
  console = console
  NULL = NULL
  Handlers <- SysHandlers
  Priority <- SysPriority
  QueueSize = 4
  OneHandler = TRUE
  StaticHandler = sys
  Reusable = {}
  MaxPosts = 5
SPECIFICATION Spec
PROPERTY ConsoleSubscribed
