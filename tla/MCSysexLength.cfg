CONSTANTS
  NumBanks = 1
  NumEncoders = 2
  NumVmaps = 1
  InSize = 4
  OutSize = 3
  UsbSize = 4
  Requests <- Good
  MaxRequests = 2
  MaxExtras = 0
SPECIFICATION Spec
INVARIANT LengthChecked
