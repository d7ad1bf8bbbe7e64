CONSTANTS
  sysex = sysex
  input = input
  tail1 = tail1
  tail2 = tail2
  sys = sys
  console = console
  NULL = NULL
  Handlers <- TailHandlers
  Priority <- TailPriority
  QueueSize = 3
  OneHandler = FALSE
  StaticHandler = NULL
  Reusable = {tail1}
  MaxPosts = 2
SPECIFICATION Spec
INVARIANT ListWellFormed
