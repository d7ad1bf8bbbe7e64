CONSTANTS
  sysex = sysex
  input = input
  tail1 = tail1
  tail2 = tail2
  sys = sys
  console = console
  NULL = NULL
  Handlers <- MidiHandlers
  Priority <- MidiPriority
  QueueSize = 4
  OneHandler = FALSE
  StaticHandler = NULL
  Reusable = {sysex, input}
  MaxPosts = 4
SPECIFICATION FairSpec
INVARIANTS NoOverrun QueueHoldsPending ListWellFormed
PROPERTIES BusSpec EventuallyDelivered
