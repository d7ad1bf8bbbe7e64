------------------------------ MODULE Debounce ------------------------------
(***************************************************************************)
(* io/switch.c: the debouncing of one context of 8 or 16 switches, with    *)
(* the edges hw_enc_switch_state and hw_side_switch_state report, and      *)
(* is_reset_pressed of the input manager, which looks at two of them.      *)
(*                                                                         *)
(* The main loop samples every switch once per turn, and the sample is     *)
(* debounced at once.  A bit field is the set of its switches.             *)
(***************************************************************************)
EXTENDS Integers, FiniteSets

CONSTANTS
  Switches,       \* switches of the context
  Samples,        \* SWITCH_DEBOUNCE_SAMPLES
  ResetSwitches   \* the encoder switches is_reset_pressed looks at

ASSUME DebounceAssumption ==
  /\ Samples \in Nat \ {0}
  /\ ResetSwitches \subseteq Switches /\ ResetSwitches # {}

VARIABLES
  buf,        \* ctx->buf: switches found closed, by slot
  index,      \* ctx->index: slot of the next sample
  current,    \* ctx->current: debounced state
  previous,   \* ctx->previous
  run,        \* history: samples since a switch was last found open
  reported    \* history: last edge reported for a switch

switchvars == <<buf, index, current, previous, run, reported>>

Slots == 0 .. Samples - 1

Pressed == "pressed"
Released == "released"

-----------------------------------------------------------------------------
SwitchInit ==
  /\ buf = [i \in Slots |-> {}]
  /\ index = 0
  /\ current = {} /\ previous = {}
  /\ run = [s \in Switches |-> 0]
  /\ reported = [s \in Switches |-> Released]

(* ctx->raw                                                                *)
Raw == (current \ previous) \cup (previous \ current)

(* switchx16_was_pressed, switchx16_was_released                           *)
WasPressed(s) == s \in Raw /\ s \in current
WasReleased(s) == s \in Raw /\ s \notin current

(* is_reset_pressed                                                        *)
ResetPressed == \A s \in ResetSwitches : WasPressed(s)

NextRun(closed) ==
  [s \in Switches |-> IF s \notin closed THEN 0
                      ELSE IF run[s] < Samples THEN run[s] + 1 ELSE Samples]

NextReported ==
  [s \in Switches |-> CASE WasPressed(s)' -> Pressed
                        [] WasReleased(s)' -> Released
                        [] OTHER -> reported[s]]

History(closed) ==
  /\ run' = NextRun(closed)
  /\ reported' = NextReported

(* Faults: the oldest sample is left out, the state before is not kept.    *)
UpdateIgnoresOldest(closed) ==
  /\ buf' = [buf EXCEPT ![index] = closed]
  /\ index' = (index + 1) % Samples
  /\ previous' = current
  /\ current' = {s \in Switches : \A i \in Slots \ {index'} : s \in buf'[i]}
  /\ History(closed)

UpdateKeepsPrevious(closed) ==
  /\ buf' = [buf EXCEPT ![index] = closed]
  /\ index' = (index + 1) % Samples
  /\ previous' = previous
  /\ current' = {s \in Switches : \A i \in Slots : s \in buf'[i]}
  /\ History(closed)

(* switch_x16_update with switch_x16_debounce                              *)
Update(closed) ==
  /\ buf' = [buf EXCEPT ![index] = closed]
  /\ index' = (index + 1) % Samples
  /\ previous' = current
  /\ current' = {s \in Switches : \A i \in Slots : s \in buf'[i]}
  /\ History(closed)

SwitchNext == \E closed \in SUBSET Switches : Update(closed)

SwitchSpec == SwitchInit /\ [][SwitchNext]_switchvars
-----------------------------------------------------------------------------
(* Every variable stays in its type.                                       *)
SwitchTypeOK ==
  /\ buf \in [Slots -> SUBSET Switches]
  /\ index \in Slots
  /\ current \in SUBSET Switches /\ previous \in SUBSET Switches
  /\ run \in [Switches -> 0 .. Samples]
  /\ reported \in [Switches -> {Pressed, Released}]

(* The ring of samples: a switch counts as pressed just when each of the   *)
(* last Samples samples found it closed ("AND the new state with EVERY     *)
(* debounce sample").                                                      *)
PressedWhenSteady == \A s \in Switches : s \in current <=> run[s] = Samples

(* No edge is missed and none reported twice: the last one reported for a  *)
(* switch is the state it is in, so that presses and releases alternate.   *)
EdgesAlternate == \A s \in Switches : s \in current <=> reported[s] = Pressed

(* A reset is seen by one scan only: the one with which all reset switches *)
(* have been closed for exactly Samples samples.  Switches that closed in  *)
(* different scans never ask for one, however long both are held.          *)
ResetWhenTogether ==
  [][ (\A s \in ResetSwitches : run[s] = Samples - 1 /\ run'[s] = Samples)
        <=> ResetPressed' ]_switchvars
=============================================================================
