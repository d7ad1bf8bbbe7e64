---------------------------- MODULE ConfigProofs ----------------------------
(***************************************************************************)
(* Theorems about the configuration, for any number of settings, of either *)
(* kind, any number of power cuts and any garbage they leave behind.       *)
(***************************************************************************)
EXTENDS Config, TLAPS

-----------------------------------------------------------------------------
(* A reset.  Wherever the power is cut, either the next boot begins the    *)
(* erasing again or everything has been erased.  Up to the loading the RAM *)
(* has the defaults, but for the settings the switches change.             *)
Fresh(s) == stored[s] \in {Encode(s, Default[s]), Erased(s), Garbled}

Defaults == \A s \in Settings \ BySwitch : ram[s] = Default[s]

ResetInv ==
  /\ DOMAIN stored = Settings /\ DOMAIN ram = Settings
  /\ pc \in {"window", "erase_version", "erase_flag", "erase", "flag",
             "store", "load", "run", "save"}
  /\ pos \in Nat \ {0}
  /\ hold # <<>> => hold[1] \in BySwitch
  /\ pc \notin {"run", "save"} => Defaults
  /\ pc \in {"run", "save"} => ~forgotten
  /\ pc \in {"erase_flag", "erase"} => ~version
  /\ pc = "erase" => \A s \in Settings \ BySwitch : s < pos => Fresh(s)
  /\ \/ pc \in {"flag", "store", "load"}
     \/ version /\ ~reset_pending
     => (forgotten => \A s \in Settings \ BySwitch : Fresh(s))
  /\ pc \in {"erase_flag", "erase", "flag", "store"} => forgotten

LEMMA ResetInvInit == Init => ResetInv
BY ConfigAssumption DEF Init, ResetInv, Defaults, Settings

(* Steps that write no setting and do not move on.                         *)
LEMMA ResetInvSame ==
  ASSUME ResetInv,
         UNCHANGED <<pc, pos, version, reset_pending, stored, ram, hold, forgotten>>
  PROVE  ResetInv'
BY DEF ResetInv, Defaults, Fresh

(* What the controls do before the loading they do to BySwitch only.       *)
LEMMA ResetInvControls ==
  ASSUME ResetInv, PressInWindow \/ Change \/ HoldPressed \/ HoldReleased
  PROVE  ResetInv'
<1>1. /\ UNCHANGED <<pc, pos, version, reset_pending, stored, forgotten>>
      /\ DOMAIN ram' = Settings
  BY DEF ResetInv, PressInWindow, Change, HoldPressed, HoldReleased, eeprom, history
<1>2. hold' # <<>> => hold'[1] \in BySwitch
  <2>1. CASE HoldPressed  BY <2>1 DEF HoldPressed
  <2>2. CASE PressInWindow \/ Change \/ HoldReleased
    BY <2>2 DEF ResetInv, PressInWindow, Change, HoldReleased
  <2> QED  BY <2>1, <2>2
<1>3. pc \notin {"run", "save"} => Defaults'
  <2>1. CASE Change  BY <2>1 DEF Change
  <2>2. CASE PressInWindow \/ HoldPressed \/ HoldReleased
    BY <2>2 DEF ResetInv, Defaults, PressInWindow, HoldPressed, HoldReleased
  <2> QED  BY <2>1, <2>2
<1> QED  BY <1>1, <1>2, <1>3 DEF ResetInv, Fresh

(* A restart without or with a power cut keeps the defaults in RAM.        *)
LEMMA ResetInvRestart ==
  ASSUME ResetInv, ConsoleReset \/ HandleResetRequest \/ PowerCut
  PROVE  ResetInv'
<1>1. /\ pc' = "window" /\ pos' = 1 /\ ram' = Default /\ hold' = <<>>
      /\ version' = version
  BY DEF ConsoleReset, HandleResetRequest, PowerCut, Restart, eeprom
<1>2. DOMAIN stored' = Settings /\ \A s \in Settings : Fresh(s) => Fresh(s)'
  BY DEF ResetInv, ConsoleReset, HandleResetRequest, PowerCut, eeprom, Fresh
<1>3. version /\ ~reset_pending' /\ forgotten' => \A s \in Settings \ BySwitch : Fresh(s)
  BY DEF ResetInv, ConsoleReset, HandleResetRequest, PowerCut, eeprom, history
<1>4. DOMAIN ram' = Settings /\ Defaults'
  BY <1>1, ConfigAssumption DEF Defaults, Settings
<1> QED  BY <1>1, <1>2, <1>3, <1>4 DEF ResetInv

LEMMA ResetInvBoot ==
  ASSUME ResetInv, Boot
  PROVE  ResetInv'
<1> USE DEF ResetInv, Defaults, Fresh, eeprom, history
<1>1. CASE WindowEnds  BY <1>1 DEF WindowEnds, MustInit
<1>2. CASE EraseVersion  BY <1>2 DEF EraseVersion
<1>3. CASE EraseFlag  BY <1>3 DEF EraseFlag, Settings
<1>4. CASE EraseSetting  BY <1>4 DEF EraseSetting, Settings
<1>5. CASE WriteVersion  BY <1>5, ConfigAssumption DEF WriteVersion, Settings
<1>6. CASE ClearFlag  BY <1>6 DEF ClearFlag
<1>7. CASE InitDone  BY <1>7 DEF InitDone
<1>8. CASE Load  BY <1>8 DEF Load
<1> QED  BY <1>1, <1>2, <1>3, <1>4, <1>5, <1>6, <1>7, <1>8 DEF Boot

LEMMA ResetInvSave ==
  ASSUME ResetInv, SaveDue \/ StoreSetting \/ SaveDone
  PROVE  ResetInv'
<1> USE DEF ResetInv, Defaults, Fresh, eeprom, history
<1>1. CASE SaveDue  BY <1>1 DEF SaveDue
<1>2. CASE StoreSetting  BY <1>2 DEF StoreSetting, Settings, Encode
<1>3. CASE SaveDone  BY <1>3 DEF SaveDone
<1> QED  BY <1>1, <1>2, <1>3

LEMMA ResetInvNext == ResetInv /\ [Next]_vars => ResetInv'
<1> SUFFICES ASSUME ResetInv, [Next]_vars PROVE ResetInv'
  OBVIOUS
<1>1. CASE Boot  BY <1>1, ResetInvBoot
<1>2. CASE SaveDue \/ StoreSetting \/ SaveDone  BY <1>2, ResetInvSave
<1>3. CASE PressInWindow \/ Change \/ HoldPressed \/ HoldReleased
  BY <1>3, ResetInvControls
<1>4. CASE ConsoleReset \/ HandleResetRequest \/ PowerCut  BY <1>4, ResetInvRestart
<1>5. CASE ConsoleConfigReset \/ HandleResponse
  BY <1>5, ResetInvSame DEF ConsoleConfigReset, HandleResponse, eeprom, history
<1>6. CASE UNCHANGED vars  BY <1>6, ResetInvSame DEF vars
<1> QED  BY <1>1, <1>2, <1>3, <1>4, <1>5, <1>6 DEF Next, Save, HandleSys

(* A reset that was accepted leaves nothing of the old settings to load,   *)
(* wherever the power is cut and however often.                            *)
THEOREM ResetForgetsAlways == Spec => []ResetForgets
<1>1. Init => ResetInv  BY ResetInvInit
<1>2. ResetInv /\ [Next]_vars => ResetInv'  BY ResetInvNext
<1>3. ResetInv => ResetForgets  BY DEF ResetInv, ResetForgets, Fresh
<1> QED  BY <1>1, <1>2, <1>3, PTL DEF Spec

-----------------------------------------------------------------------------
(* What is kept.  Once the settings have been loaded, one that was not     *)
(* changed since all were saved has its value in the EEPROM and, in the    *)
(* main loop, in RAM; and a save that goes on has stored what it passed.   *)
Plain == {s \in Settings : Kind[s] = "plain"}

Legal(s) == {0, Default[s]} \cup Choices[s]

Holds(s) == IF stored[s] \in {Foreign, Garbled} THEN Garbled ELSE stored[s][1]

KeepTypes ==
  /\ DOMAIN saved = Settings /\ touched \subseteq Settings
  /\ \A s \in Plain :
       /\ ram[s] \in Legal(s) \cup {Garbled}
       /\ stored[s] \in {<<v>> : v \in Legal(s)} \cup {Foreign, Garbled}
  /\ hold # <<>> /\ hold[1] \in Plain => hold[2] \in Legal(hold[1]) \cup {Garbled}

Kept ==
  /\ ~forgotten => \A s \in Plain \ touched :
       /\ Holds(s) = saved[s]
       /\ pc \in {"run", "save"} => ram[s] = saved[s]
  /\ pc = "save" => \A s \in Plain : s < pos => Holds(s) = ram[s]

KeepInv == ResetInv /\ KeepTypes /\ Kept

LEMMA LegalApart ==
  ASSUME NEW s \in Plain, NEW v \in Legal(s)
  PROVE  v # Garbled /\ <<v>> \notin {Foreign, Garbled} /\ Encode(s, v) = <<v>>
BY ConfigAssumption, GarbageApart DEF Plain, Legal, Encode

(* What the EEPROM holds after a setting has been written.                 *)
LEMMA WrittenHolds ==
  ASSUME NEW s \in Plain, NEW v \in Legal(s) \cup {Garbled}, stored'[s] = Encode(s, v)
  PROVE  Holds(s)' = v
<1>1. CASE v = Garbled  BY <1>1 DEF Encode, Holds
<1>2. CASE v # Garbled
  <2>1. Encode(s, v) = <<v>> /\ <<v>> \notin {Foreign, Garbled}
    BY <1>2, LegalApart
  <2> QED  BY <2>1 DEF Holds
<1> QED  BY <1>1, <1>2

LEMMA KeepInvInit == Init => KeepInv
<1> SUFFICES ASSUME Init PROVE KeepInv
  OBVIOUS
<1>1. KeepTypes
  BY ConfigAssumption DEF Init, KeepTypes, Plain, Legal
<1> QED  BY <1>1, ResetInvInit DEF KeepInv, Kept, Init

(* Every step keeps the types.                                             *)
LEMMA KeepTypesNext == ResetInv /\ KeepTypes /\ [Next]_vars => KeepTypes'
<1> SUFFICES ASSUME ResetInv, KeepTypes, [Next]_vars PROVE KeepTypes'
  OBVIOUS
<1> USE DEF KeepTypes
<1>1. CASE UNCHANGED <<stored, ram, hold>> /\ UNCHANGED <<saved, touched>>
  BY <1>1
<1>2. CASE PressInWindow \/ Change
  BY <1>2 DEF PressInWindow, Change, ResetInv, Legal, Plain, history, eeprom
<1>3. CASE HoldPressed
  <2>1. PICK s \in BySwitch :
          \E v \in Choices[s] : hold' = <<s, ram[s]>> /\ ram' = [ram EXCEPT ![s] = v]
    BY <1>3 DEF HoldPressed
  <2>2. hold'[1] = s /\ hold'[2] = ram[s] /\ s \in Settings
    BY <2>1, ConfigAssumption
  <2>3. \A t \in Plain : ram'[t] \in Legal(t) \cup {Garbled}
    BY <2>1 DEF ResetInv, Legal, Plain
  <2>4. UNCHANGED <<stored, saved>> /\ touched' = touched \cup {s}
    BY <1>3, <2>2 DEF HoldPressed, eeprom
  <2> QED  BY <2>2, <2>3, <2>4
<1>4. CASE HoldReleased
  <2>1. \A t \in Plain : ram'[t] \in Legal(t) \cup {Garbled}
    BY <1>4 DEF HoldReleased, ResetInv, Plain
  <2>2. hold[1] \in Settings
    BY <1>4, ConfigAssumption DEF HoldReleased, ResetInv
  <2> QED  BY <1>4, <2>1, <2>2 DEF HoldReleased, eeprom
<1>5. CASE EraseSetting
  BY <1>5 DEF EraseSetting, ResetInv, Erased, Legal, Plain, history
<1>6. CASE StoreSetting
  <2>1. ASSUME NEW s \in Plain PROVE stored'[s] \in {<<v>> : v \in Legal(s)} \cup {Foreign, Garbled}
    <3>1. Encode(s, ram[s]) \in {<<v>> : v \in Legal(s)} \cup {Foreign, Garbled}
      BY LegalApart DEF Encode
    <3> QED  BY <1>6, <3>1 DEF StoreSetting, ResetInv, Plain
  <2> QED  BY <1>6, <2>1 DEF StoreSetting, history
<1>7. CASE SaveDone
  BY <1>7 DEF SaveDone, ResetInv, eeprom
<1>8. CASE Load
  <2>1. ASSUME NEW s \in Plain PROVE ram'[s] \in Legal(s) \cup {Garbled}
    <3>1. ram'[s] = IF stored[s] \in {Foreign, Garbled} THEN Garbled ELSE stored[s][1]
      BY <1>8 DEF Load, Decode, Plain
    <3> QED  BY <3>1
  <2> QED  BY <1>8, <2>1 DEF Load, eeprom
<1>9. CASE ConsoleReset \/ HandleResetRequest
  BY <1>9 DEF ConsoleReset, HandleResetRequest, Restart, Legal, Plain, eeprom, history
<1>10. CASE PowerCut
  BY <1>10 DEF PowerCut, Restart, Legal, Plain, history
<1>11. CASE \/ WindowEnds \/ EraseVersion \/ EraseFlag \/ WriteVersion \/ ClearFlag \/ InitDone
            \/ SaveDue \/ ConsoleConfigReset \/ HandleResponse \/ UNCHANGED vars
  BY <1>11, <1>1 DEF WindowEnds, EraseVersion, EraseFlag, WriteVersion, ClearFlag, InitDone,
              SaveDue, ConsoleConfigReset, HandleResponse, vars, eeprom, history
<1> QED  BY <1>2, <1>3, <1>4, <1>5, <1>6, <1>7, <1>8, <1>9, <1>10, <1>11
         DEF Next, Boot, Save, HandleSys

(* A power cut garbles only what differs from what is being written.       *)
LEMMA KeptPowerCut ==
  ASSUME KeepInv, PowerCut
  PROVE  Kept'
<1>1. pc' = "window" /\ UNCHANGED <<forgotten, saved, touched>>
  BY DEF PowerCut, Restart, history
<1>2. ASSUME ~forgotten, NEW s \in Plain \ touched
      PROVE  Holds(s)' = saved[s]
  <2>1. Holds(s) = saved[s]  BY <1>2 DEF KeepInv, Kept
  <2>2. CASE stored'[s] = stored[s]  BY <2>1, <2>2 DEF Holds
  <2>3. CASE stored'[s] # stored[s]
    <3>1. stored'[s] = Garbled /\ s \in BeingWritten
      BY <2>3 DEF PowerCut, Plain
    <3>2. pc = "save" /\ stored[s] # Encode(s, ram[s])
      BY <1>2, <3>1 DEF BeingWritten, KeepInv, ResetInv
    <3>3. ram[s] = saved[s]  BY <1>2, <3>2 DEF KeepInv, Kept
    <3>4. stored[s] \in {Foreign, Garbled}
      <4> SUFFICES ASSUME stored[s] \notin {Foreign, Garbled} PROVE FALSE
        OBVIOUS
      <4>1. PICK v \in Legal(s) : stored[s] = <<v>>
        BY DEF KeepInv, KeepTypes
      <4>2. ram[s] = v  BY <2>1, <3>3, <4>1 DEF Holds
      <4> QED  BY <3>2, <4>1, <4>2, LegalApart
    <3> QED  BY <2>1, <3>1, <3>4 DEF Holds
  <2> QED  BY <2>2, <2>3
<1> QED  BY <1>1, <1>2 DEF Kept

LEMMA KeptStore ==
  ASSUME KeepInv, StoreSetting
  PROVE  Kept'
<1>1. CASE pc = "store"
  <2>1. forgotten' /\ pc' = "store"
    BY <1>1 DEF StoreSetting, KeepInv, ResetInv, history
  <2> QED  BY <2>1 DEF Kept
<1>2. CASE pc = "save"
  <2>1. /\ UNCHANGED <<pc, ram, forgotten, saved, touched>>
        /\ pos \in Settings /\ pos' = pos + 1
    BY DEF StoreSetting, history
  <2>2. ASSUME NEW s \in Plain, s = pos PROVE Holds(s)' = ram[s]
    <3>1. stored'[s] = Encode(s, ram[s]) /\ ram[s] \in Legal(s) \cup {Garbled}
      BY <2>2 DEF StoreSetting, KeepInv, ResetInv, KeepTypes, Plain
    <3> QED  BY <3>1, WrittenHolds
  <2>3. ASSUME NEW s \in Plain, s # pos PROVE Holds(s)' = Holds(s)
    BY <2>3 DEF StoreSetting, KeepInv, ResetInv, Holds, Plain
  <2>4. \A s \in Plain : s < pos + 1 => s < pos \/ s = pos
    BY <2>1 DEF Plain, Settings
  <2> QED  BY <1>2, <2>1, <2>2, <2>3, <2>4 DEF KeepInv, Kept
<1> QED  BY <1>1, <1>2 DEF StoreSetting

LEMMA KeptNext == KeepInv /\ [Next]_vars => Kept'
<1> SUFFICES ASSUME KeepInv, [Next]_vars PROVE Kept'
  OBVIOUS
<1> USE DEF KeepInv, Kept
<1>1. CASE PressInWindow \/ Change \/ HoldPressed \/ HoldReleased
  BY <1>1 DEF PressInWindow, Change, HoldPressed, HoldReleased, ResetInv, Holds, Plain,
              eeprom, history
<1>2. CASE \/ WindowEnds \/ ConsoleReset \/ HandleResetRequest
           \/ ConsoleConfigReset \/ HandleResponse \/ UNCHANGED vars
  BY <1>2 DEF WindowEnds, ConsoleReset, HandleResetRequest, Restart,
              ConsoleConfigReset, HandleResponse, vars, Holds, eeprom, history
<1>3. CASE \/ EraseVersion \/ EraseFlag \/ EraseSetting \/ WriteVersion
           \/ ClearFlag \/ InitDone
  BY <1>3 DEF EraseVersion, EraseFlag, EraseSetting, WriteVersion, ClearFlag, InitDone,
              ResetInv, history
<1>4. CASE SaveDue
  BY <1>4 DEF SaveDue, ResetInv, Plain, Settings, Holds, eeprom, history
<1>5. CASE StoreSetting  BY <1>5, KeptStore
<1>6. CASE SaveDone
  <2>1. \A s \in Plain : s < pos
    BY <1>6, ConfigAssumption DEF SaveDone, ResetInv, Plain, Settings
  <2> QED  BY <1>6, <2>1 DEF SaveDone, Holds, eeprom
<1>7. CASE Load
  <2>1. \A s \in Plain : ram'[s] = Holds(s)
    BY <1>7 DEF Load, Decode, Holds, Plain
  <2> QED  BY <1>7, <2>1 DEF Load, Holds, eeprom
<1>8. CASE PowerCut  BY <1>8, KeptPowerCut
<1> QED  BY <1>1, <1>2, <1>3, <1>4, <1>5, <1>6, <1>7, <1>8 DEF Next, Boot, Save, HandleSys

(* What was not changed since the last save is loaded as it was saved,     *)
(* whichever later save the power has cut off.                             *)
THEOREM UntouchedSurvivesAlways == Spec => UntouchedSurvives
<1>1. Init => KeepInv  BY KeepInvInit
<1>2. KeepInv /\ [Next]_vars => KeepInv'
  BY ResetInvNext, KeepTypesNext, KeptNext DEF KeepInv
<1>3. KeepInv /\ [Next]_vars =>
        [Load /\ ~forgotten =>
           \A s \in Settings \ touched : Kind[s] = "plain" => ram'[s] = saved[s]]_vars
  <2> SUFFICES ASSUME KeepInv, Load, ~forgotten, NEW s \in Plain \ touched
               PROVE  ram'[s] = saved[s]
    BY DEF Plain
  <2>1. ram'[s] = Holds(s)  BY DEF Load, Decode, Holds, Plain
  <2> QED  BY <2>1 DEF KeepInv, Kept
<1> QED  BY <1>1, <1>2, <1>3, PTL DEF Spec, UntouchedSurvives
=============================================================================
