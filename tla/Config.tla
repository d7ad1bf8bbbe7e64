------------------------------- MODULE Config -------------------------------
(***************************************************************************)
(* config/config.c and the boot sequence of main.c: how the settings of    *)
(* the encoders reach the EEPROM and come back, with the power cut at any  *)
(* step.                                                                   *)
(*                                                                         *)
(* A setting is a group of bytes of struct eeprom; settings are numbered   *)
(* in address order, which is the order both the erasing loop and          *)
(* cfg_store write them in.  A plain setting is stored as it is; a proto   *)
(* setting is a struct proto_cfg, which encode_proto_cfg and               *)
(* decode_proto_cfg convert.  The firmware does nothing else while it      *)
(* erases, stores or loads.                                                *)
(***************************************************************************)
EXTENDS Naturals, Sequences

CONSTANTS
  NumSettings,
  Kind,         \* "plain" or "proto", by setting
  Default,      \* what sw_encoder_init gives each setting
  Choices,      \* what the user may set it to
  BySwitch,     \* settings that pressing a switch changes (vmap_active)
  Foreign,      \* what a device holds that never ran this version
  Garbled,      \* what a write leaves that lost its power half-way
  SysSize,      \* queue_size of SYS
  PowerMayFail, \* whether the power may be cut
  MaxRestarts   \* bound on restarts and power cuts

Settings == 1 .. NumSettings

(* enum protocol_type *)
PROTOCOL_NONE == 0
PROTOCOL_MIDI == 1

NoProto == [type |-> PROTOCOL_NONE, mode |-> 0, channel |-> 0, raw |-> 0]

Protos == [type : {PROTOCOL_NONE, PROTOCOL_MIDI}, mode : 0 .. 4,
           channel : 0 .. 15, raw : 0 .. 127]

Values(s) == {Garbled} \cup IF Kind[s] = "plain" THEN Nat ELSE Protos

ASSUME ConfigAssumption ==
  /\ NumSettings \in Nat \ {0}
  /\ Kind \in [Settings -> {"plain", "proto"}]
  /\ DOMAIN Default = Settings
  /\ \A s \in Settings :
       /\ Default[s] \in Values(s) \ {Garbled}
       /\ Choices[s] \subseteq Values(s) \ {Garbled}
  /\ BySwitch \subseteq Settings
  /\ SysSize \in Nat \ {0} /\ MaxRestarts \in Nat /\ PowerMayFail \in BOOLEAN

(* No setting looks like what Foreign and Garbled stand for.               *)
ASSUME GarbageApart ==
  /\ 0 # Garbled
  /\ \A s \in Settings : Kind[s] = "plain" =>
       \A v \in {0, Default[s]} \cup Choices[s] : <<v>> \notin {Foreign, Garbled}

VARIABLES
  pc,             \* where the firmware is
  pos,            \* the setting the erasing or storing loop has come to
  version,        \* eeprom_data.version = EE_VERSION
  reset_pending,  \* eeprom_data.reset_pending = 1
  stored,         \* the settings in the EEPROM
  ram,            \* the settings in gENCODERS
  hold,           \* prev_vmap_active, while hold is pressed
  sys,            \* the queue of the SYS channel
  restarts,       \* restarts so far
  forgotten,      \* history: the settings before a reset are to be forgotten
  saved,          \* history: the settings when they were last all saved
  touched         \* history: settings changed since

eeprom == <<version, reset_pending, stored>>
history == <<forgotten, saved, touched>>
vars == <<pc, pos, version, reset_pending, stored, ram, hold, sys, restarts,
          forgotten, saved, touched>>

-----------------------------------------------------------------------------
(* encode_encoder and encode_proto_cfg: the type of a MIDI setting is not  *)
(* stored, its first byte holds mode and channel.                          *)
Encode(s, v) ==
  IF v = Garbled THEN Garbled
  ELSE IF Kind[s] = "plain" THEN <<v>>
  ELSE IF v.type = PROTOCOL_NONE THEN <<0, 0>>
  ELSE <<v.channel + 16 * v.mode, v.raw>>

Erased(s) == IF Kind[s] = "plain" THEN <<0>> ELSE <<0, 0>>

(* decode_encoder and decode_proto_cfg, which takes that first byte for    *)
(* the type, and leaves the setting as it was when it knows no such type.  *)
DecodeProto(bytes, was) ==
  CASE bytes[1] = PROTOCOL_NONE -> NoProto
    [] bytes[1] = PROTOCOL_MIDI ->
         [type |-> PROTOCOL_MIDI, mode |-> bytes[1] \div 16,
          channel |-> bytes[1] % 16, raw |-> bytes[2]]
    [] OTHER -> was

(* Bytes no encoder has written may mean any value: Garbled stands for it. *)
Decode(s) ==
  IF stored[s] \in {Foreign, Garbled} THEN Garbled
  ELSE IF Kind[s] = "plain" THEN stored[s][1]
  ELSE DecodeProto(stored[s], ram[s])

-----------------------------------------------------------------------------
Init ==
  /\ pc = "window" /\ pos = 1
  /\ version = FALSE
  /\ reset_pending \in BOOLEAN
  /\ stored = [s \in Settings |-> Foreign]
  /\ ram = Default
  /\ hold = <<>>
  /\ sys = <<>>
  /\ restarts = 0
  /\ forgotten = TRUE /\ saved = Default /\ touched = {}

(* The boot window of main: only input_update runs, so that switches work, *)
(* until 200 ms are over or the two reset switches are down.               *)
PressInWindow ==
  /\ pc = "window"
  /\ \E s \in BySwitch : \E v \in Choices[s] : ram' = [ram EXCEPT ![s] = v]
  /\ UNCHANGED <<pc, pos, hold, eeprom, sys, restarts, history>>

(* SIDE_SW_MODE_ALL_VMAP_HOLD: its press keeps the setting for the release *)
(* and changes it, in the window and in the main loop.                     *)
HoldPressed ==
  /\ pc \in {"window", "run"}
  /\ hold = <<>>
  /\ \E s \in BySwitch : \E v \in Choices[s] \ {ram[s]} :
       hold' = <<s, ram[s]>> /\ ram' = [ram EXCEPT ![s] = v]
  /\ touched' = touched \cup {hold'[1]}
  /\ UNCHANGED <<pc, pos, eeprom, sys, restarts, forgotten, saved>>

HoldReleased ==
  /\ pc \in {"window", "run"}
  /\ hold # <<>> /\ hold' = <<>>
  /\ ram' = [ram EXCEPT ![hold[1]] = hold[2]]
  /\ touched' = touched \cup {hold[1]}
  /\ UNCHANGED <<pc, pos, eeprom, sys, restarts, forgotten, saved>>

(* Fault: the flag of a requested reset is not looked at.                  *)
MustInitUnflagged(reset) == reset \/ ~version

(* cfg_init *)
MustInit(reset) == reset_pending \/ reset \/ ~version

WindowEnds ==
  /\ pc = "window"
  /\ \E reset \in BOOLEAN :
       pc' = IF MustInit(reset) THEN "erase_version" ELSE "load"
  /\ UNCHANGED <<hold, pos, eeprom, ram, sys, restarts, history>>

(* Fault: the version stays until everything else has been erased.         *)
EraseVersionLast ==
  /\ pc = "erase_version"
  /\ version' = version
  /\ pc' = "erase_flag"
  /\ forgotten' = TRUE
  /\ UNCHANGED <<hold, pos, reset_pending, stored, ram, sys, restarts, saved, touched>>

(* init_eeprom: erase from the lowest address up ...                       *)
EraseVersion ==
  /\ pc = "erase_version"
  /\ version' = FALSE
  /\ pc' = "erase_flag"
  /\ forgotten' = TRUE
  /\ UNCHANGED <<hold, pos, reset_pending, stored, ram, sys, restarts, saved, touched>>

EraseFlag ==
  /\ pc = "erase_flag"
  /\ reset_pending' = FALSE
  /\ pc' = "erase"
  /\ pos' = 1
  /\ UNCHANGED <<hold, version, stored, ram, sys, restarts, history>>

EraseSetting ==
  /\ pc = "erase" /\ pos \in Settings
  /\ stored' = [stored EXCEPT ![pos] = Erased(pos)]
  /\ pos' = pos + 1
  /\ UNCHANGED <<hold, pc, version, reset_pending, ram, sys, restarts, history>>

(* ... then the version, the flag and the settings as they are in RAM.     *)
WriteVersion ==
  /\ pc = "erase" /\ pos \notin Settings
  /\ version' = TRUE
  /\ pc' = "flag"
  /\ UNCHANGED <<hold, pos, reset_pending, stored, ram, sys, restarts, history>>

ClearFlag ==
  /\ pc = "flag"
  /\ reset_pending' = FALSE
  /\ pc' = "store" /\ pos' = 1
  /\ UNCHANGED <<hold, version, stored, ram, sys, restarts, history>>

(* Fault: the loop of cfg_store ends one setting early.                    *)
StoreAllButLast ==
  /\ pc \in {"store", "save"} /\ pos \in Settings
  /\ stored' = IF pos = NumSettings THEN stored
               ELSE [stored EXCEPT ![pos] = Encode(pos, ram[pos])]
  /\ pos' = pos + 1
  /\ UNCHANGED <<hold, pc, version, reset_pending, ram, sys, restarts, history>>

(* cfg_store *)
StoreSetting ==
  /\ pc \in {"store", "save"} /\ pos \in Settings
  /\ stored' = [stored EXCEPT ![pos] = Encode(pos, ram[pos])]
  /\ pos' = pos + 1
  /\ UNCHANGED <<hold, pc, version, reset_pending, ram, sys, restarts, history>>

PostSys(evt) == IF Len(sys) < SysSize - 1 THEN Append(sys, evt) ELSE sys

InitDone ==
  /\ pc = "store" /\ pos \notin Settings
  /\ pc' = "load"
  /\ sys' = PostSys("RES_CFG_RESET")
  /\ UNCHANGED <<hold, pos, eeprom, ram, restarts, history>>

SaveDone ==
  /\ pc = "save" /\ pos \notin Settings
  /\ pc' = "run"
  /\ saved' = ram /\ touched' = {}
  /\ UNCHANGED <<hold, pos, eeprom, ram, sys, restarts, forgotten>>

(* cfg_load *)
Load ==
  /\ pc = "load"
  /\ ram' = [s \in Settings |-> Decode(s)]
  /\ pc' = "run"
  /\ forgotten' = FALSE
  /\ saved' = ram' /\ touched' = {}
  /\ UNCHANGED <<hold, pos, eeprom, sys, restarts>>

-----------------------------------------------------------------------------
(* The main loop: a control, the console or a sysex message changes a      *)
(* setting; cfg_update saves now and then, whether or not one has changed. *)
Change ==
  /\ pc = "run"
  /\ \E s \in Settings : \E v \in Choices[s] :
       /\ ram' = [ram EXCEPT ![s] = v]
       /\ touched' = touched \cup {s}
  /\ UNCHANGED <<hold, pc, pos, eeprom, sys, restarts, forgotten, saved>>

SaveDue ==
  /\ pc = "run"
  /\ pc' = "save" /\ pos' = 1
  /\ UNCHANGED <<hold, eeprom, ram, sys, restarts, history>>

(* hal_system_reset, and the boot that follows it or a power cut.          *)
Restart ==
  /\ restarts' = restarts + 1
  /\ pc' = "window" /\ pos' = 1
  /\ ram' = Default /\ hold' = <<>>
  /\ sys' = <<>>

ConsoleReset ==
  /\ pc = "run" /\ restarts < MaxRestarts
  /\ Restart
  /\ UNCHANGED <<eeprom, history>>

ConsoleConfigReset ==
  /\ pc = "run" /\ restarts < MaxRestarts
  /\ sys' = PostSys("REQ_CFG_RESET")
  /\ UNCHANGED <<hold, pc, pos, eeprom, ram, restarts, history>>

(* The handler of sys.c: the response it posts is lost in the restart      *)
(* mf_cfg_reset makes; it has no use for the responses it receives.        *)
HandleResetRequest ==
  /\ pc = "run" /\ sys # <<>> /\ Head(sys) = "REQ_CFG_RESET"
  /\ reset_pending' = TRUE
  /\ forgotten' = TRUE
  /\ Restart
  /\ UNCHANGED <<version, stored, saved, touched>>

HandleResponse ==
  /\ pc = "run" /\ sys # <<>> /\ Head(sys) = "RES_CFG_RESET"
  /\ sys' = Tail(sys)
  /\ UNCHANGED <<hold, pc, pos, eeprom, ram, restarts, history>>

(* Fault: cfg_store writes every byte, eeprom_write_block for _update_.    *)
AlwaysWritten == {s \in Settings : s = pos /\ pc \in {"erase", "store", "save"}}

(* The power may go at any step; a setting being written then is garbled.  *)
(* eeprom_write_byte writes whatever is there, eeprom_update_block only    *)
(* the bytes that differ.                                                  *)
BeingWritten ==
  {s \in Settings :
     /\ s = pos
     /\ \/ pc = "erase"
        \/ pc \in {"store", "save"} /\ stored[s] # Encode(s, ram[s])}

PowerCut ==
  /\ PowerMayFail
  /\ restarts < MaxRestarts
  /\ \E lost \in SUBSET BeingWritten :
       stored' = [s \in Settings |-> IF s \in lost THEN Garbled ELSE stored[s]]
  /\ Restart
  /\ UNCHANGED <<version, reset_pending, history>>

-----------------------------------------------------------------------------
Boot ==
  \/ WindowEnds
  \/ EraseVersion \/ EraseFlag \/ EraseSetting
  \/ WriteVersion \/ ClearFlag \/ InitDone
  \/ Load

Save == SaveDue \/ StoreSetting \/ SaveDone

HandleSys == HandleResetRequest \/ HandleResponse

Next ==
  \/ Boot \/ Save \/ HandleSys
  \/ PressInWindow \/ Change
  \/ HoldPressed \/ HoldReleased
  \/ ConsoleReset \/ ConsoleConfigReset
  \/ PowerCut

Spec == Init /\ [][Next]_vars

(* The boot window has an end, the loops end, and the main loop calls      *)
(* event_update and cfg_update for ever.                                   *)
Fairness == WF_vars(Boot) /\ SF_vars(HandleSys) /\ SF_vars(SaveDue)
            /\ WF_vars(StoreSetting \/ SaveDone)

FairSpec == Spec /\ Fairness
-----------------------------------------------------------------------------
(* Every variable stays in its type.                                       *)
TypeOK ==
  /\ pc \in {"window", "erase_version", "erase_flag", "erase", "flag",
             "store", "load", "run", "save"}
  /\ pos \in 1 .. NumSettings + 1
  /\ version \in BOOLEAN /\ reset_pending \in BOOLEAN
  /\ \A s \in Settings : ram[s] \in Values(s) /\ saved[s] \in Values(s)
  /\ DOMAIN stored = Settings
  /\ Len(sys) < SysSize
  /\ restarts \in 0 .. MaxRestarts + 1
  /\ forgotten \in BOOLEAN
  /\ touched \subseteq Settings
  /\ hold # <<>> => hold[1] \in BySwitch /\ hold[2] \in Values(hold[1])

(* Once a reset has been accepted (its flag is in the EEPROM, or erasing   *)
(* has begun), or on a device of another version, nothing of the old       *)
(* contents is ever loaded, wherever the power is cut and however often.   *)
ResetForgets ==
  pc = "load" /\ forgotten =>
    \A s \in Settings \ BySwitch :
      stored[s] \in {Encode(s, Default[s]), Erased(s), Garbled}

(* A setting that was not changed since all were last saved has the same   *)
(* value after a restart, also when a later save was cut off half-way.     *)
UntouchedSurvives ==
  [][ Load /\ ~forgotten =>
        \A s \in Settings \ touched :
          Kind[s] = "plain" => ram'[s] = saved[s] ]_vars

(* After a reset, and on a new device, every setting has its default, but  *)
(* for those that pressing a switch in the boot window has changed.        *)
DefaultsAfterReset ==
  [][ Load /\ forgotten =>
        \A s \in Settings \ BySwitch : ram'[s] = Default[s] ]_vars

(* A reset that was accepted is carried out, once.                         *)
ResetCompletes == reset_pending ~> pc = "run" /\ ~reset_pending

(* The settings in use are in the EEPROM again and again.                  *)
SettingsReachStorage ==
  []<>(\A s \in Settings : stored[s] = Encode(s, ram[s]))

-----------------------------------------------------------------------------
(* What the comments of the code say and the code does not do.             *)

(* main.c: "Load configuration - either defaults if reset occurred, or     *)
(* existing from EEPROM": the settings of the last save come back.         *)
SettingsSurviveRestart ==
  [][ Load /\ ~forgotten =>
        \A s \in Settings \ touched : ram'[s] = saved[s] ]_vars

(* hardware.h: "Temporarily change vmaps on all encoders while held": what *)
(* is saved meanwhile is the setting that the release will put back.       *)
HoldIsTemporary ==
  [][ StoreSetting /\ hold # <<>> =>
        stored'[hold[1]] \in {stored[hold[1]], Encode(hold[1], hold[2])} ]_vars

(* input_manager.c: "Store current vmap for each encoder to restore later":*)
(* a hold that began in the boot window gives way to what is loaded.       *)
HoldRestoresCurrent ==
  [][ Load /\ hold # <<>> => hold'[2] = ram'[hold[1]] ]_vars
=============================================================================
