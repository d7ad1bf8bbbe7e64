CONSTANTS
  NumBanks = 2
  NumEncoders = 2
  NumFrames = 2
  NumSlots = 2
  LastStep = 1
  FlashEncoder <- FlashInTurn
  LooksOf <- LookPerBank
  AskRoom = 1
SPECIFICATION Spec
INVARIANTS ShownAsDrawn WholeDrawing FlashShowsBank
