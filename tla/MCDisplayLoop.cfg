CONSTANTS
  NumBanks = 2
  NumEncoders = 2
  NumFrames = 2
  NumSlots = 2
  LastStep = 1
  FlashEncoder <- FlashInTurn
  LooksOf <- TwoLooks
  AskRoom = 2
SPECIFICATION LoopSpec
PROPERTIES DisplayCatchesUp DisplaySettles
