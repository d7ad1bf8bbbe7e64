------------------------------- MODULE Input -------------------------------
(***************************************************************************)
(* io/input_manager.c in the main loop of main.c: the encoders and side    *)
(* switches of three banks, the controller messages they send to the host, *)
(* and the ones the host sends back.                                       *)
(*                                                                         *)
(* One turn of the loop is input_update (encoders, then side switches),    *)
(* event_update (MIDI_IN, MIDI_OUT, ANIMATION), display_update and         *)
(* midi_update.  The firmware is one thread, so the turn is the order of   *)
(* the steps; each loop iteration over an encoder, a mapping, a switch or  *)
(* a queued message is a step.  What the user does to a control is chosen  *)
(* where the code reads that control.                                      *)
(***************************************************************************)
EXTENDS Virtmap, Sequences, FiniteSets

CONSTANTS
  NumBanks, NumEncoders, NumVmaps,  \* NUM_ENC_BANKS, NUM_ENCODERS, NUM_VMAPS_PER_ENC
  SideMode,     \* side_switch.mode by switch index, 0 ..
  SwMode,       \* encoder.sw_mode by <<bank, encoder>>
  VmapMode,     \* encoder.vmap_mode by <<bank, encoder>>
  Cfg,          \* the mapping (see Virtmap) by <<bank, encoder, vmap>>
  InitPos,      \* curr_pos after sw_encoder_init, by <<bank, encoder, vmap>>
  StoredActive, \* vmap_active in the EEPROM, by <<bank, encoder>>
  FlashEncoder, \* encoder that flashes when a bank is shown, by bank
  Factors,      \* acceleration factors encoder_movement_update may choose
  OutSize,      \* queue_size of MIDI_OUT
  AnimSize,     \* queue_size of ANIMATION
  HostMessages, \* controller changes the host may send
  InRoom,       \* bound on host messages per turn (MIDI_IN accepts as many)
  BootScans,    \* bound on the scans of the boot window before the loop
  UsbMayFail    \* whether sending to the host may fail

Bank == 0 .. NumBanks - 1
Enc == 0 .. NumEncoders - 1
VIdx == 0 .. NumVmaps - 1
BankEnc == Bank \X Enc
Vmap == Bank \X Enc \X VIdx
Side == DOMAIN SideMode

MappingType ==
  [mode : {"NONE", "MUTE", "CC", "CC_14"}, cc : Nat, lower : Int, upper : Int,
   start : 0 .. EncMax, stop : 0 .. EncMax]

ASSUME InputAssumption ==
  /\ NumBanks \in Nat \ {0} /\ NumEncoders \in Nat \ {0} /\ NumVmaps \in Nat \ {0}
  /\ Side \subseteq Nat
  /\ \A s, t \in Side :
       SideMode[s] = "ALL_VMAP_HOLD" /\ SideMode[t] = "ALL_VMAP_HOLD" => s = t
  /\ SwMode \in [BankEnc -> {"NONE", "VMAP_CYCLE", "RESET_ON_PRESS", "RESET_ON_RELEASE"}]
  /\ VmapMode \in [BankEnc -> {"TOGGLE", "OVERLAY"}]
  /\ Cfg \in [Vmap -> MappingType]
  /\ \A vm \in Vmap : Cfg[vm].mode # "NONE" =>
       Cfg[vm].start # Cfg[vm].stop /\ Cfg[vm].lower # Cfg[vm].upper
  /\ InitPos \in [Vmap -> 0 .. EncMax]
  /\ StoredActive \in [BankEnc -> VIdx]
  /\ FlashEncoder \in [Bank -> Enc]
  /\ Factors \subseteq 1 .. 7
  /\ HostMessages \subseteq [cc : Nat, value : Int]
  /\ OutSize \in Nat \ {0} /\ AnimSize \in Nat \ {0}
  /\ InRoom \in Nat /\ BootScans \in Nat /\ UsbMayFail \in BOOLEAN

VARIABLES
  phase,          \* which part of the loop runs
  boot,           \* scans of the boot window left; 0 in the main loop
  at,             \* the encoder or side switch the scan has come to
  todo,           \* vmaps of encoder at still to be moved
  bank,           \* gRT.curr_bank
  vmap_active, velocity, curr_pos, curr_val,
  redraw,         \* encoders with update_display # 0
  prev_vmap_active, \* of the side switch in hold mode
  encHeld,        \* encoder switches pressed (debounced state)
  sideHeld,       \* side switches pressed (debounced state)
  frame,          \* what the LEDs of each encoder show
  flashing,       \* the encoder an animation runs on, or none
  tinted,         \* encoders an animation has drawn over
  in, out, anim,  \* queues of MIDI_IN, MIDI_OUT and ANIMATION
  moved,          \* history: encoders turned in this scan
  shifted,        \* history: vmaps whose position a turn moved in this scan
  holdFrom,       \* history: bank and its vmaps when hold was pressed
  wire,           \* last value sent to the host, by controller
  host,           \* last value either side has told the other
  lagging         \* history: vmaps whose last value was lost in full or part

devices == <<bank, vmap_active, velocity, curr_pos, curr_val, prev_vmap_active>>
leds == <<redraw, frame, flashing, tinted>>
switches == <<encHeld, sideHeld>>
queues == <<in, out, anim>>
link == <<wire, host>>
history == <<moved, shifted, holdFrom, lagging>>
vars == <<phase, boot, at, todo, bank, vmap_active, velocity, curr_pos, curr_val,
          redraw, prev_vmap_active, encHeld, sideHeld, frame, flashing, tinted,
          in, out, anim, moved, shifted, holdFrom, wire, host, lagging>>

Controllers == UNION {CcsOf(Cfg[vm]) : vm \in Vmap}

Dark == <<>>
NotHeld == <<>>

(* mf_draw_encoder shows the bank's active vmap of an encoder.             *)
View(b, e, active, position) == <<b, active, position[<<b, e, active>>]>>

(* event_post: the last slot of a queue is never used.                     *)
HasRoom(queue, size) == Len(queue) < size - 1
Post(queue, size, msg) == IF HasRoom(queue, size) THEN Append(queue, msg) ELSE queue

-----------------------------------------------------------------------------
(* sw_encoder_init, sw_side_switch_init and display_init, which asks for a *)
(* redraw of the first bank.  BootScans = 0 stands for a boot window in    *)
(* which no control is touched.                                            *)
Init ==
  /\ phase = "encoders" /\ at = 0 /\ todo = {}
  /\ boot = BootScans
  /\ bank = 0
  /\ vmap_active = IF BootScans = 0 THEN StoredActive ELSE [be \in BankEnc |-> 0]
  /\ velocity = [be \in BankEnc |-> 0]
  /\ curr_pos = InitPos
  /\ curr_val = [vm \in Vmap |-> 0]
  /\ redraw = {0} \X Enc
  /\ prev_vmap_active = [e \in Enc |-> 0]
  /\ encHeld = {} /\ sideHeld = {}
  /\ frame = [e \in Enc |-> Dark] /\ flashing = {} /\ tinted = {}
  /\ in = <<>> /\ out = <<>> /\ anim = <<>>
  /\ moved = {} /\ shifted = {} /\ holdFrom = NotHeld /\ lagging = {}
  /\ wire = [c \in Controllers |-> 0]
  /\ host = [c \in Controllers |-> 0]

-----------------------------------------------------------------------------
(* sw_encoder_update, one encoder of the current bank.                     *)

(* The edges a debounced switch can report in this scan.                   *)
Edges(heldNow) == IF heldNow THEN {"idle", "released"} ELSE {"idle", "pressed"}

HeldAfter(held, s, edge) ==
  CASE edge = "pressed" -> held \cup {s}
    [] edge = "released" -> held \ {s}
    [] OTHER -> held

Resets(mode, edge) ==
  \/ mode = "RESET_ON_PRESS" /\ edge = "pressed"
  \/ mode = "RESET_ON_RELEASE" /\ edge = "released"

AtEncoder == phase = "encoders" /\ at \in Enc /\ todo = {}

(* Fault: cycling the vmap does not draw the encoder.                      *)
EncoderSwitchUndrawn(be, edge) ==
  LET cycles == SwMode[be] = "VMAP_CYCLE" /\ edge = "pressed"
      next == (vmap_active[be] + 1) % NumVmaps
  IN  /\ encHeld' = HeldAfter(encHeld, at, edge)
      /\ vmap_active' = IF cycles THEN [vmap_active EXCEPT ![be] = next]
                                  ELSE vmap_active
      /\ UNCHANGED <<frame, tinted>>
      /\ curr_pos' = IF Resets(SwMode[be], edge)
                     THEN [curr_pos EXCEPT ![<<bank, at, vmap_active[be]>>] = 0]
                     ELSE curr_pos

(* The switch: cycle to the next vmap and draw it, or reset the position.  *)
EncoderSwitch(be, edge) ==
  LET cycles == SwMode[be] = "VMAP_CYCLE" /\ edge = "pressed"
      next == (vmap_active[be] + 1) % NumVmaps
  IN  /\ encHeld' = HeldAfter(encHeld, at, edge)
      /\ vmap_active' = IF cycles THEN [vmap_active EXCEPT ![be] = next]
                                  ELSE vmap_active
      /\ frame' = IF cycles THEN [frame EXCEPT ![at] = View(bank, at, next, curr_pos)]
                            ELSE frame
      /\ tinted' = IF cycles THEN tinted \ {at} ELSE tinted
      /\ curr_pos' = IF Resets(SwMode[be], edge)
                     THEN [curr_pos EXCEPT ![<<bank, at, vmap_active[be]>>] = 0]
                     ELSE curr_pos

(* Fault: the velocity of an encoder at rest is left alone.                *)
EncoderStillCoasts ==
  /\ AtEncoder
  /\ \E edge \in Edges(at \in encHeld) : EncoderSwitch(<<bank, at>>, edge)
  /\ velocity' = velocity
  /\ at' = at + 1
  /\ UNCHANGED <<phase, boot, todo, bank, curr_val, prev_vmap_active, redraw,
                 flashing, sideHeld, queues, link, history>>

(* The rotation, when quadrature_direction reports none: velocity falls    *)
(* back to 0.                                                              *)
EncoderStill ==
  /\ AtEncoder
  /\ \E edge \in Edges(at \in encHeld) : EncoderSwitch(<<bank, at>>, edge)
  /\ velocity' = [velocity EXCEPT ![<<bank, at>>] = 0]
  /\ at' = at + 1
  /\ UNCHANGED <<phase, boot, todo, bank, curr_val, prev_vmap_active, redraw,
                 flashing, sideHeld, queues, link, history>>

(* ... and when it reports one: the vmaps to move are chosen after the     *)
(* switch has been handled.                                                *)
EncoderTurns ==
  /\ AtEncoder
  /\ \E edge \in Edges(at \in encHeld) : EncoderSwitch(<<bank, at>>, edge)
  /\ \E dir \in {-1, 1}, factor \in Factors :
       velocity' = [velocity EXCEPT ![<<bank, at>>] = dir * factor]
  /\ todo' = IF VmapMode[<<bank, at>>] = "TOGGLE"
             THEN {vmap_active'[<<bank, at>>]} ELSE VIdx
  /\ moved' = moved \cup {<<bank, at>>}
  /\ redraw' = redraw \cup {<<bank, at>>}
  /\ UNCHANGED <<phase, boot, at, bank, curr_val, prev_vmap_active, flashing,
                 sideHeld, queues, link, shifted, holdFrom, lagging>>

(* vmap_update, one vmap of the encoder that turned.                       *)
NextVmap(v) ==
  /\ phase = "encoders"
  /\ v \in todo /\ \A w \in todo : v <= w
  /\ todo' = todo \ {v}
  /\ at' = IF todo = {v} THEN at + 1 ELSE at
  /\ UNCHANGED <<phase, boot, bank, vmap_active, velocity, prev_vmap_active,
                 leds, switches, in, anim, link, moved, holdFrom>>

Target(vm) == NewPosition(Cfg[vm], curr_pos[vm], velocity[<<bank, at>>])

VmapStays(v) ==
  LET vm == <<bank, at, v>> IN
  /\ NextVmap(v)
  /\ ~TakesPosition(Cfg[vm], curr_pos[vm], Target(vm))
  /\ UNCHANGED <<curr_pos, curr_val, out, shifted, lagging>>

(* The position moves but its value is the one last sent, or none is.      *)
VmapMovesSilently(v) ==
  LET vm == <<bank, at, v>> IN
  /\ NextVmap(v)
  /\ TakesPosition(Cfg[vm], curr_pos[vm], Target(vm))
  /\ \/ ~Sends(Cfg[vm])
     \/ MidiValue(Cfg[vm], Target(vm)) = curr_val[vm]
  /\ curr_pos' = [curr_pos EXCEPT ![vm] = Target(vm)]
  /\ shifted' = shifted \cup {vm}
  /\ UNCHANGED <<curr_val, out, lagging>>

(* Faults: the value of the old position is sent, or the low byte of a     *)
(* 14-bit value never is.                                                  *)
VmapSendsOldValue(v) ==
  LET vm == <<bank, at, v>>
      val == MidiValue(Cfg[vm], Target(vm))
      msgs == Messages(Cfg[vm], MidiValue(Cfg[vm], curr_pos[vm]))
      once == Post(out, OutSize, msgs[1])
  IN
  /\ NextVmap(v)
  /\ TakesPosition(Cfg[vm], curr_pos[vm], Target(vm))
  /\ Sends(Cfg[vm]) /\ val # curr_val[vm]
  /\ curr_pos' = [curr_pos EXCEPT ![vm] = Target(vm)]
  /\ shifted' = shifted \cup {vm}
  /\ curr_val' = [curr_val EXCEPT ![vm] = val]
  /\ out' = IF Len(msgs) = 1 THEN once ELSE Post(once, OutSize, msgs[2])
  /\ lagging' = IF Len(out') = Len(out) + Len(msgs)
                THEN lagging \ {vm} ELSE lagging \cup {vm}

VmapSendsHighByte(v) ==
  LET vm == <<bank, at, v>>
      val == MidiValue(Cfg[vm], Target(vm))
  IN
  /\ NextVmap(v)
  /\ TakesPosition(Cfg[vm], curr_pos[vm], Target(vm))
  /\ Sends(Cfg[vm]) /\ val # curr_val[vm]
  /\ curr_pos' = [curr_pos EXCEPT ![vm] = Target(vm)]
  /\ shifted' = shifted \cup {vm}
  /\ curr_val' = [curr_val EXCEPT ![vm] = val]
  /\ out' = Post(out, OutSize, Messages(Cfg[vm], val)[1])
  /\ lagging' = IF HasRoom(out, OutSize) THEN lagging \ {vm}
                                        ELSE lagging \cup {vm}

(* The value is stored before its messages are posted, and the result of   *)
(* event_post is ignored.                                                  *)
VmapMovesAndSends(v) ==
  LET vm == <<bank, at, v>>
      val == MidiValue(Cfg[vm], Target(vm))
      msgs == Messages(Cfg[vm], val)
      once == Post(out, OutSize, msgs[1])
  IN
  /\ NextVmap(v)
  /\ TakesPosition(Cfg[vm], curr_pos[vm], Target(vm))
  /\ Sends(Cfg[vm]) /\ val # curr_val[vm]
  /\ curr_pos' = [curr_pos EXCEPT ![vm] = Target(vm)]
  /\ shifted' = shifted \cup {vm}
  /\ curr_val' = [curr_val EXCEPT ![vm] = val]
  /\ out' = IF Len(msgs) = 1 THEN once ELSE Post(once, OutSize, msgs[2])
  /\ lagging' = IF Len(out') = Len(out) + Len(msgs)
                THEN lagging \ {vm} ELSE lagging \cup {vm}

EncodersDone ==
  /\ phase = "encoders" /\ at = NumEncoders
  /\ phase' = "switches"
  /\ at' = 0
  /\ UNCHANGED <<boot, todo, devices, leds, switches, queues, link, history>>

-----------------------------------------------------------------------------
(* sw_side_switch_update, one side switch.                                 *)
AtSide(edge) ==
  /\ phase = "switches" /\ at \in Side
  /\ edge \in Edges(at \in sideHeld)
  /\ sideHeld' = HeldAfter(sideHeld, at, edge)
  /\ at' = at + 1
  /\ UNCHANGED <<phase, boot, todo, velocity, curr_pos, curr_val, redraw,
                 flashing, encHeld, in, out, link, moved, shifted, lagging>>

DrawBank(b, active) ==
  /\ frame' = [e \in Enc |-> View(b, e, active[<<b, e>>], curr_pos)]
  /\ tinted' = {}

CycleBank ==
  [be \in BankEnc |-> IF be[1] = bank THEN (vmap_active[be] + 1) % NumVmaps
                                      ELSE vmap_active[be]]

SideNothing ==
  /\ \E edge \in {"idle", "pressed", "released"} :
       /\ AtSide(edge)
       /\ \/ edge = "idle"
          \/ SideMode[at] = "NONE"
          \/ edge = "released" /\ SideMode[at] # "ALL_VMAP_HOLD"
  /\ UNCHANGED <<bank, vmap_active, prev_vmap_active, frame, tinted, anim, holdFrom>>

CyclePressed ==
  /\ AtSide("pressed") /\ SideMode[at] = "ALL_VMAP_CYCLE"
  /\ vmap_active' = CycleBank
  /\ DrawBank(bank, CycleBank)
  /\ UNCHANGED <<bank, prev_vmap_active, anim, holdFrom>>

(* Fault: the vmaps are remembered after they have been changed.           *)
HoldRemembersLate ==
  /\ AtSide("pressed") /\ SideMode[at] = "ALL_VMAP_HOLD"
  /\ prev_vmap_active' = [e \in Enc |-> CycleBank[<<bank, e>>]]
  /\ vmap_active' = CycleBank
  /\ DrawBank(bank, CycleBank)
  /\ holdFrom' = <<bank, vmap_active>>
  /\ UNCHANGED <<bank, anim>>

HoldPressed ==
  /\ AtSide("pressed") /\ SideMode[at] = "ALL_VMAP_HOLD"
  /\ prev_vmap_active' = [e \in Enc |-> vmap_active[<<bank, e>>]]
  /\ vmap_active' = CycleBank
  /\ DrawBank(bank, CycleBank)
  /\ holdFrom' = <<bank, vmap_active>>
  /\ UNCHANGED <<bank, anim>>

(* The vmaps go back into whatever bank is shown now.                      *)
RestoreBank ==
  [be \in BankEnc |-> IF be[1] = bank THEN prev_vmap_active[be[2]]
                                      ELSE vmap_active[be]]

HoldReleased ==
  /\ AtSide("released") /\ SideMode[at] = "ALL_VMAP_HOLD"
  /\ vmap_active' = RestoreBank
  /\ DrawBank(bank, RestoreBank)
  /\ holdFrom' = NotHeld
  /\ UNCHANGED <<bank, prev_vmap_active, anim>>

(* The other bank is shown and drawn, and its animation requested.         *)
ShowBank(new) ==
  /\ AtSide("pressed")
  /\ bank' = new
  /\ anim' = Post(anim, AnimSize, new)
  /\ DrawBank(new, vmap_active)
  /\ UNCHANGED <<vmap_active, prev_vmap_active, holdFrom>>

BankPrevPressed ==
  /\ phase = "switches" /\ at \in Side /\ SideMode[at] = "BANK_PREV"
  /\ ShowBank(IF bank > 0 THEN bank - 1 ELSE NumBanks - 1)

BankNextPressed ==
  /\ phase = "switches" /\ at \in Side /\ SideMode[at] = "BANK_NEXT"
  /\ ShowBank((bank + 1) % NumBanks)

-----------------------------------------------------------------------------
(* main: a new turn begins with a new scan.                                *)
NextScan ==
  /\ phase' = "encoders" /\ at' = 0
  /\ moved' = {} /\ shifted' = {}

(* After a scan of the boot window comes another scan, or the end of the   *)
(* window.                                                                 *)
BootScanAgain ==
  /\ phase = "switches" /\ at \notin Side
  /\ boot > 1
  /\ boot' = boot - 1
  /\ NextScan
  /\ UNCHANGED <<todo, devices, leds, switches, queues, link, holdFrom, lagging>>

(* cfg_init and cfg_load bring back what the EEPROM holds, or, when it had *)
(* to be initialised, the present state; then hw_led_init clears the frame *)
(* buffer ...                                                              *)
BootDone ==
  /\ phase = "switches" /\ at \notin Side
  /\ boot > 0
  /\ boot' = 0
  /\ vmap_active' \in {StoredActive, vmap_active}
  /\ frame' = [e \in Enc |-> Dark]
  /\ NextScan
  /\ UNCHANGED <<todo, bank, velocity, curr_pos, curr_val, prev_vmap_active,
                 redraw, flashing, tinted, switches, queues, link,
                 holdFrom, lagging>>

(* ... and in the main loop event_update follows a scan.                   *)
ScanDone ==
  /\ phase = "switches" /\ at \notin Side
  /\ boot = 0
  /\ phase' = "midi_in" /\ at' = 0
  /\ UNCHANGED <<boot, todo, devices, leds, switches, queues, link, history>>

(* midi_in_handler: every mapping of the controller takes the position, in *)
(* every bank, also one that sends nothing, except those of encoders with  *)
(* a velocity.                                                             *)
HandleHostMessage ==
  /\ phase = "midi_in" /\ in # <<>>
  /\ in' = Tail(in)
  /\ curr_pos' = [vm \in Vmap |->
       IF /\ Cfg[vm].mode # "NONE" /\ Cfg[vm].cc = Head(in).cc
          /\ velocity[<<vm[1], vm[2]>>] = 0
       THEN HostPosition(Cfg[vm], Head(in).value) ELSE curr_pos[vm]]
  /\ UNCHANGED <<phase, boot, at, todo, bank, vmap_active, velocity, curr_val,
                 prev_vmap_active, leds, switches, out, anim, link, history>>

MidiInDone ==
  /\ phase = "midi_in" /\ in = <<>>
  /\ phase' = "midi_out"
  /\ UNCHANGED <<boot, at, todo, devices, leds, switches, queues, link, history>>

(* midi_out_handler: the message reaches the host, or the send fails and   *)
(* nobody looks at its result.                                             *)
SendMessage ==
  /\ phase = "midi_out" /\ out # <<>>
  /\ out' = Tail(out)
  /\ wire' = [wire EXCEPT ![Head(out).cc] = Head(out).value]
  /\ host' = [host EXCEPT ![Head(out).cc] = Head(out).value]
  /\ UNCHANGED <<phase, boot, at, todo, devices, leds, switches, in, anim, history>>

SendFails ==
  /\ UsbMayFail
  /\ phase = "midi_out" /\ out # <<>>
  /\ out' = Tail(out)
  /\ lagging' = IF \E k \in 1 .. Len(out') : out'[k].cc = Head(out).cc
                THEN lagging
                ELSE lagging \cup {vm \in Vmap : Head(out).cc \in CcsOf(Cfg[vm])}
  /\ UNCHANGED <<phase, boot, at, todo, devices, leds, switches, in, anim, link,
                 moved, shifted, holdFrom>>

(* animation_start_bank_change: an animation in progress is cancelled and  *)
(* the encoder it ran on, in the bank shown now, redrawn.                  *)
StartFlash ==
  /\ phase = "midi_out" /\ out = <<>> /\ anim # <<>>
  /\ anim' = Tail(anim)
  /\ flashing' = {FlashEncoder[Head(anim)]}
  /\ redraw' = redraw \cup {bank} \X flashing
  /\ UNCHANGED <<phase, boot, at, todo, devices, frame, tinted, switches, in, out,
                 link, history>>

EventsDone ==
  /\ phase = "midi_out" /\ out = <<>> /\ anim = <<>>
  /\ phase' = "display"
  /\ UNCHANGED <<boot, at, todo, devices, leds, switches, queues, link, history>>

(* display_update: while an animation plays nothing else is drawn; a new   *)
(* animation frame also asks for a redraw of its encoder ...               *)
FlashPlays ==
  /\ phase = "display" /\ flashing # {}
  /\ tinted' = tinted \cup flashing
  /\ redraw' \in {redraw, redraw \cup {bank} \X flashing}
  /\ phase' = "midi"
  /\ UNCHANGED <<boot, at, todo, devices, frame, flashing, switches, queues,
                 link, history>>

(* ... and so does its end.                                                *)
FlashEnds ==
  /\ phase = "display" /\ flashing # {}
  /\ flashing' = {}
  /\ redraw' = redraw \cup {bank} \X flashing
  /\ phase' = "midi"
  /\ UNCHANGED <<boot, at, todo, devices, frame, tinted, switches, queues,
                 link, history>>

(* Otherwise the encoders of the bank shown whose request is old enough    *)
(* are drawn.                                                              *)
Requested == {e \in Enc : <<bank, e>> \in redraw}

Draw(due) ==
  /\ phase = "display" /\ flashing = {}
  /\ redraw' = redraw \ ({bank} \X due)
  /\ frame' = [e \in Enc |-> IF e \in due
                             THEN View(bank, e, vmap_active[<<bank, e>>], curr_pos)
                             ELSE frame[e]]
  /\ tinted' = tinted \ due
  /\ phase' = "midi"
  /\ UNCHANGED <<boot, at, todo, devices, flashing, switches, queues, link, history>>

DrawRequested == \E due \in SUBSET Requested : Draw(due)

(* midi_update: what the host has sent is queued for the next turn.        *)
HostSends ==
  /\ phase = "midi" /\ Len(in) < InRoom
  /\ \E msg \in HostMessages :
       /\ in' = Append(in, msg)
       /\ host' = [host EXCEPT ![msg.cc] = msg.value]
  /\ UNCHANGED <<phase, boot, at, todo, devices, leds, switches, out, anim,
                 wire, history>>

TurnDone ==
  /\ phase = "midi"
  /\ NextScan
  /\ UNCHANGED <<boot, todo, devices, leds, switches, queues, link, holdFrom, lagging>>

-----------------------------------------------------------------------------
InputUpdate ==
  \/ EncoderStill \/ EncoderTurns
  \/ \E v \in VIdx : VmapStays(v) \/ VmapMovesSilently(v) \/ VmapMovesAndSends(v)
  \/ EncodersDone
  \/ SideNothing \/ CyclePressed \/ HoldPressed \/ HoldReleased
  \/ BankPrevPressed \/ BankNextPressed

EventUpdate ==
  \/ HandleHostMessage \/ MidiInDone
  \/ SendMessage \/ SendFails
  \/ StartFlash \/ EventsDone

DisplayUpdate == FlashPlays \/ FlashEnds \/ DrawRequested

Next ==
  \/ InputUpdate
  \/ BootScanAgain \/ BootDone \/ ScanDone
  \/ EventUpdate
  \/ DisplayUpdate
  \/ HostSends \/ TurnDone

Spec == Init /\ [][Next]_vars

-----------------------------------------------------------------------------
(* Every variable stays in its type.                                       *)
TypeOK ==
  /\ phase \in {"encoders", "switches", "midi_in", "midi_out", "display", "midi"}
  /\ boot \in 0 .. BootScans
  /\ at \in Nat
  /\ todo \subseteq VIdx
  /\ bank \in Bank
  /\ vmap_active \in [BankEnc -> VIdx]
  /\ velocity \in [BankEnc -> -7 .. 7]
  /\ curr_pos \in [Vmap -> 0 .. EncMax]
  /\ curr_val \in [Vmap -> Int]
  /\ prev_vmap_active \in [Enc -> VIdx]
  /\ redraw \subseteq BankEnc
  /\ encHeld \subseteq Enc /\ sideHeld \subseteq Side
  /\ flashing \subseteq Enc /\ tinted \subseteq Enc
  /\ Len(in) <= InRoom /\ Len(out) < OutSize /\ Len(anim) < AnimSize
  /\ moved \subseteq BankEnc /\ shifted \subseteq Vmap /\ lagging \subseteq Vmap

(* What the host will have been told once the queue is empty is curr_val,  *)
(* both bytes of it, for every mapping none of whose last messages was     *)
(* refused by the queue or by USB.                                         *)
LastTold(c) ==
  LET told == {k \in 1 .. Len(out) : out[k].cc = c}
  IN  IF told = {} THEN wire[c]
      ELSE out[CHOOSE k \in told : \A j \in told : j <= k].value

WireCurrent ==
  \A vm \in Vmap \ lagging : Sends(Cfg[vm]) =>
    LET msgs == Messages(Cfg[vm], curr_val[vm])
    IN  \A k \in 1 .. Len(msgs) : LastTold(msgs[k].cc) = msgs[k].value

(* After the events of a turn of the loop the host holds the value of      *)
(* every position that was turned in it.                                   *)
HostHearsTurn ==
  phase = "display" =>
    \A vm \in shifted \ lagging :
      Cfg[vm].mode = "CC" => host[Cfg[vm].cc] = MidiValue(Cfg[vm], curr_pos[vm])

(* Releasing the hold switch brings back the vmaps that were active when   *)
(* it was pressed, whatever the encoder switches did in between, as long   *)
(* as the same bank is shown.                                              *)
HoldRestores ==
  [][ HoldReleased /\ holdFrom[1] = bank =>
        \A e \in Enc : vmap_active'[<<bank, e>>] = holdFrom[2][<<bank, e>>] ]_vars

(* After the encoders have been read, those of the bank shown have a       *)
(* velocity just when they were turned in this very scan.                  *)
VelocityFreshAfterScan ==
  phase = "switches" /\ at = 0 =>
    \A e \in Enc : velocity[<<bank, e>>] # 0 <=> <<bank, e>> \in moved

(* The LEDs of every encoder show its active vmap's position and no        *)
(* remains of an animation, or a redraw has been asked for.                *)
UpToDate(e) ==
  /\ frame[e] = View(bank, e, vmap_active[<<bank, e>>], curr_pos)
  /\ e \notin tinted

UpToDateUnlessRequested ==
  todo = {} => \A e \in Enc : UpToDate(e) \/ e \in flashing \/ e \in Requested

-----------------------------------------------------------------------------
(* What the comments of the code say and the code does not do.             *)

(* virtmap.h: "the absolute values determining where the virtual encoder   *)
(* begins and ends".                                                       *)
PositionInRange ==
  \A vm \in Vmap :
    Cfg[vm].mode # "NONE" => InRange(curr_pos[vm], Cfg[vm].start, Cfg[vm].stop)

(* input_manager.c: "do not update if the encoder is moving."              *)
HostIgnoredOnlyWhileTurning ==
  phase = "midi_in" =>
    \A be \in BankEnc : velocity[be] # 0 => be \in moved

(* input_manager.c: "Restore original vmap for each encoder"; hardware.h:  *)
(* "Temporarily change vmaps on all encoders while held".                  *)
HoldRestoresAll ==
  [][ HoldReleased =>
        \A e \in Enc : vmap_active'[<<holdFrom[1], e>>]
                         = holdFrom[2][<<holdFrom[1], e>>] ]_vars
=============================================================================
