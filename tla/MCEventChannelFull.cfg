CONSTANTS
  sysex = sysex
  input = input
  tail1 = tail1
  tail2 = tail2
  sys = sys
  console = console
  NULL = NULL
  Handlers <- MidiHandlers
  Priority <- MidiPriority
  QueueSize = 3
  OneHandler = FALSE
  StaticHandler = NULL
  Reusable = {}
  MaxPosts = 3
SPECIFICATION Spec
INVARIANT RefusedOnlyWhenFull
