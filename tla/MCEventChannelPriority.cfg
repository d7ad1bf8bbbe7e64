CONSTANTS
  sysex = sysex
  input = input
  tail1 = tail1
  tail2 = tail2
  sys = sys
  console = console
  NULL = NULL
  Handlers <- MidiHandlers
  Priority <- MidiPriority
  QueueSize = 2
  OneHandler = FALSE
  StaticHandler = NULL
  Reusable = {}
  MaxPosts = 1
SPECIFICATION Spec
INVARIANT DocumentedPriorityOrder
