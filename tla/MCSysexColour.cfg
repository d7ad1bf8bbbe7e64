CONSTANTS
  NumBanks = 1
  NumEncoders = 2
  NumVmaps = 1
  InSize = 8
  OutSize = 4
  UsbSize = 6
  Requests <- Colours
  MaxRequests = 1
  MaxExtras = 0
SPECIFICATION FairSpec
PROPERTY EventuallyAnswered
