CONSTANTS
  NumBanks = 1
  NumEncoders = 2
  NumVmaps = 1
  InSize = 4
  OutSize = 3
  UsbSize = 4
  Requests <- Mixed
  MaxRequests = 2
  MaxExtras = 1
SPECIFICATION FairSpec
PROPERTIES ServerSpec EventuallyAnswered
