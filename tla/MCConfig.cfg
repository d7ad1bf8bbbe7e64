CONSTANTS
  NumSettings = 3
  Kind <- KindOf
  Default <- DefaultOf
  Choices <- ChoicesOf
  BySwitch <- SwitchSettings
  Foreign = Foreign
  Garbled = Garbled
  SysSize = 3
  PowerMayFail = TRUE
  MaxRestarts = 2
SPECIFICATION FairSpec
INVARIANT ResetForgets
PROPERTIES UntouchedSurvives ResetCompletes SettingsReachStorage
