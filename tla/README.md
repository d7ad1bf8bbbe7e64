# Formal models of the Neon Samurai firmware

This directory holds TLA+ models of the firmware in `src/src/`, a MIDI controller
with 16 rotary encoders, 6 side switches and RGB LEDs on an 8-bit ATxmega128A4U.
TLC checks the models on small instances, and TLAPS proves some of the theorems
for every value of the constants. `PROJECT.json` maps every definition to the
lines it stands for and lists the runs, the hazards and the findings.

## 1. The system

The firmware is one thread. `main.c` initialises the parts, spends up to 200 ms
in a *boot window* in which only the controls are scanned, initialises and loads
the configuration, and then calls, for ever,

    input_update, event_update, display_update, midi_update,
    usb_update, cfg_update, console_update

Two interrupts run beside it: the 1 ms clock and the LED refresh. Everything else
that looks concurrent is the *order* of these calls and the *nesting* of handler
calls: events posted in one part of the loop are handled in another, by handlers
that may post again.

| Component | Sources | State | Operations | What makes it correct |
|---|---|---|---|---|
| Event channels | `event/event.c` | array of events, `head`, linked list of handlers | register, subscribe, unsubscribe, post, post_rt, process | no overrun; each accepted event reaches each handler once and in order; the list survives every subscription |
| Input manager | `io/input_manager.c` | bank, vmaps active, positions, values, hold memory | scan of encoders and side switches, host controller changes | the host hears every position; the LEDs show the state; hold restores what it changed |
| Virtual mappings | `virtmap.h`, `utility.h`, `input_manager.c` | ranges of a mapping | position to value and back | values within their range, monotone, reversible |
| Quadrature decoder | `encoder/quadrature.c`, `hardware.c` | rotation state, direction | scan | no step lost or invented |
| Encoder movement | `encoder/encoder.c` | velocity, time of last edge | update | acceleration fits the pace, also when the clock wraps |
| Switches | `io/switch.c`, `hw_switch.c` | ring of samples, debounced state | update, was_pressed, was_released | edges alternate; a press is a steady one |
| System time | `system/systime.c` | 32-bit clock | interrupt, read | a read is a time that was |
| Animation | `animation/animation.c` | 4 animation slots | start, update, draw | only the bank shown is marked, the marking ends, and a slot is always free |
| LED drawing | `led/led.c` | what is written to the frame buffer | draw an encoder | the ring is as long as the position says, in every display mode |
| Frame buffer | `led/hw_led.c`, `hal/dma.c` | 32 frames of 16 words, frame counter | draw, interrupt, DMA transfer | the lamps have the brightness drawn, and no encoder is left with parts of two drawings |
| Colours | `led/color.c`, `led/hsv2rgb.c` | hue, saturation, value of a mapping | set, convert | the colour of the definition; brighter is never darker |
| Configuration | `config/config.c`, `main.c` | EEPROM, RAM copy, reset flag | init, load, store, reset | a reset is carried out; settings survive; power may fail at any step |
| System events | `system/sys.c` | SYS queue | reset request | the request reaches the EEPROM |
| MIDI over USB | `midi/midi_lufa.c` | MIDI_IN, MIDI_OUT queues | receive, send | every packet is queued or dropped whole |
| Sysex | `midi/sysex.c` | reassembly buffer | collect, check, write, reply | a message is taken as sent, or not at all |
| Console | `console/console.c` | line buffer, prompt | typing, erasing, commands | Enter runs what the terminal shows; a reset asked for is carried out |
| USB glue | `usb/usb_lufa.c`, `LUFAConfig.h` | state of the device, line state of the port | requests for descriptors, configuration, line state, bus reset | the device answers where its descriptors say, and knows of an open port |
| Analog converter | `hal/adc.c`, `hal/signature.c`, `system/rng.c` | converter set-up, flag, result | measurement at boot and from the console | a reading belongs to its request |
| Pins, timers, serial ports, boot | `hal/gpio.c`, `hal/timer.c`, `hal/usart.c`, `hal/boot.c` | registers | | outside the models |

**How they interact.** The scan posts controller changes to MIDI_OUT and bank
changes to ANIMATION; `event_update` handles MIDI_IN (filled by `midi_update` in
the previous turn), then MIDI_OUT, then ANIMATION; `display_update` draws what
the scan, or an animation that ended, has asked for; `cfg_update` saves whatever
is in RAM every five seconds. `usb_update` answers one request of the host, and
`console_update` takes one byte from it. `gENCODERS` and `gRT` are shared by the scan, the
host's messages, the animation, the display, the console and the configuration.

**What is hard.** Queues at their limit with the results of posts ignored; a bank
change in the middle of what belongs to one bank (a turn, a hold, an animation);
two copies of one fact that drift apart (`curr_pos` and `curr_val`, the position
and the LEDs, RAM and EEPROM); power cuts between two EEPROM writes; messages in
three-byte packets of which some are lost; a multi-byte clock read against its
interrupt; a frame buffer sent by interrupt and DMA while it is written; a host that
resets the bus or closes its port in the middle of a line; 8- and 16-bit
arithmetic. `PROJECT.json` lists these as hazards, each
at its line.

## 2. The modules

| Module | What it models | Extended or checked by |
|---|---|---|
| `EventBus` | the promise of a channel: numbered events, delivered to every member in order | refined by `EventChannel` |
| `EventChannel` | `event.c` | `MCEventChannel`, `EventChannelProofs` |
| `SettingServer` | the promise to a host that changes settings: its requests served in their order, each once | refined by `Sysex` |
| `Virtmap` | the arithmetic of mappings | `Led`, `Input` |
| `Led` | the lamps of a ring in each frame | `EncoderCheck` |
| `Color` | hue, saturation and value to three lamps | `EncoderCheck` |
| `EncoderCheck` | mapping, ring, colour and frame timer of one encoder on the real widths | `MCPanel`, `EncoderProofs` |
| `Input` | scan, events, display and host in the order of the main loop | `MCInput`, `InputProofs` |
| `Display` | bank changes, animation, drawing byte by byte, interrupt and DMA | `MCDisplay`, `DisplayProofs` |
| `Config` | boot sequence, hold and EEPROM with power cuts | `MCConfig`, `ConfigProofs` |
| `Usb` | descriptors, endpoints, callbacks of the USB stack | `Console` |
| `Adc` | the converter and the two requests for it | `Console` |
| `Console` | boot, line editor and commands over the SYS channel (an instance of `EventChannel`), the USB port and the converter | `MCConsole`, `ConsoleProofs` |
| `Quadrature` | decoder against the shaft it follows | `MCPanel`, `PanelProofs` |
| `Debounce` | debouncing and the reset combination | `MCPanel`, `PanelProofs` |
| `Sysex` | packets, reassembly, checks, replies | `MCSysex`, `SysexProofs` |
| `SysTime` | clock, torn reads, acceleration | `MCPanel`, `PanelProofs` |

Operators whose comment begins with *Fault* are no part of a model. Each is a
plausible mistake in the definition that follows it; replacing the definition by
it must violate the property `PROJECT.json` pairs it with.

### How the modules correspond to the code

* **EventChannel.** `first`, `next`, `queue`, `head` are the fields of
  `struct event_channel` and of the handlers; the payload of an event is its
  number. `event_channel_process` is split where a handler is called (`StartPass`,
  `CallHandler`, `HandlerReturns`, `NextSlot`, `EndPass`), since only there can
  another post come in. `event_channel_register` is called once per channel and empties it;
  one given a bad definition is refused (`Register`). The variables `accepted`, `base`, `members`, `fresh`,
  `seen` and `called` are history: no guard on program state reads them, except
  that a handler is not subscribed twice, which no caller does.
* **Virtmap / Input.** One turn of the main loop is a sequence of steps: one per
  encoder (switch and rotation), one per mapping of an encoder that turned, one
  per side switch, one per queued message, one for the display. What the user does
  to a control is chosen where the code reads that control. Banks, encoders,
  mappings, ranges and queue sizes are constants. The LEDs of an encoder are
  abstracted to what they show: bank, mapping and position. A redraw request is a
  flag; the age it must reach is the choice of `DrawRequested`. MIDI channels are
  left out: `sw_encoder_init` puts every mapping on channel 0. A mapping's `mode` is
  "CC" or "CC_14", "MUTE" for the MIDI modes that send nothing (disabled, relative,
  note) and yet follow the host, or "NONE" for a protocol without a controller.
* **Led / Color / EncoderCheck.** A frame is the set of lamps lit in it; the word
  the code writes is its complement, bit by bit. The three colours of a mapping, the
  two of a detent and the ring go through the formulas of the code in its integer
  widths. The build takes `fast_hsv2rgb_8bit` from assembly; `Linear` is the C of the
  same function, whose corrections and exchanges the assembly repeats one by one.
  A state of `EncoderCheck` is one mapping, one ring, one colour or one compare value
  of the LED timer (`subject`), and its actions are the calls that change it. `MCPanel`
  puts the shaft, the clock and the switches beside it as further subjects: they share no
  state, so a behaviour of the run looks at one of them.
* **Display.** The buffer has a word per frame and encoder, and `WriteByte` is one
  store of the main loop: for a `volatile` 16-bit word, low byte first. Between any two
  of them the interrupt or a DMA byte may come. What a word says is abstracted to the
  look it was drawn from, the tint (own colour, or white or none of an animation) and
  the frame. `TimerInterrupt` waits for the transfer before it: 32 bytes at 8 MHz take
  32 us of the 256 us between two interrupts. `Input` has the display as one step;
  `Display` is that step in detail, with the scan reduced to what it asks of it. Each
  encoder's request is met on its own, as each has its own age. The main loop reads
  nothing of what the interrupt and the DMA controller change, so what it gets
  round to is checked on the main loop alone (`LoopSpec`).
* **Config.** A setting is a group of EEPROM bytes that one write of the code
  covers. `pc` is the place in the boot sequence or in a save; a power cut may come
  at any step and garble the setting being written. `PressInWindow` is the scan of
  the boot window, `Change` any change in the main loop. `hold` is what the hold switch
  remembers of the active mapping, in the window and in the main loop.
* **Console.** It declares the variables of `EventChannel` and takes that module
  as `Ch`, with the two handlers of SYS, so that a request goes the whole way:
  `event_post`, the pass, the handler of `sys.c`, the flag, the restart, `cfg_init`.
  A turn of the loop is a pass, `usb_update` and one byte for `console_update`; before
  it comes the boot, with the converter's first measurement, as `stage` says. One
  `usb_update` answers one control request. The USB stack, the host and the converter
  are external: `Usb` and `Adc` model them from how the code uses them.
  `shown` is what the console has sent behind the prompt; that the host takes it is
  left to the USB driver. Commands that print, the empty line, Tab and unknown
  commands are one action, `RunOther`: they leave the same state. The console's own
  handler can never be called, as its subscription is refused; `HandleResponse` has
  its effect all the same.
* **Quadrature.** `shaft` is the real position in edges, `rot` and `dir` the
  decoder. `MaxEdges` says how far the shaft moves between two scans.
* **Debounce.** A bit field is the set of its switches; `run` counts the samples
  since a switch was last open.
* **Sysex.** Bytes are modelled, as the checks look at bytes in fixed places. The
  host cuts messages of `RequestType` into packets; `of` and `nth` of a packet, the
  message and the place it was cut from, are history, `hurt` remembers the
  messages one of whose packets MIDI_IN refused, `served` is the last message
  whose end the handler took, and `unheard` has those whose reply MIDI_OUT or USB
  did not take: `midi_out_handler` looks at no result of `lufa_transmit`. A message
  may name indices outside `gENCODERS` in the code; what such a write does is not
  modelled.
* **SysTime.** A clock of `NumBytes` bytes of `ByteSize` values is loaded a byte
  at a time; at most one tick falls into a read.

## 3. The runs

The *passing* runs finish without error. A *violation* run checks what a
comment says of the program against what the code does; its counterexample is
a finding in `PROJECT.json`.

| Run | Shows | Bounds and why they are enough |
|---|---|---|
| `channel` | array, list and delivery under nested posts; under `FairSpec`, events arrive | 3 handlers with distinct and zero priorities, a 4-slot array, 4 posts: every case of the insertion and the removal, a full array, and a post in a handler before and after the last slot occur |
| `channel_priority` | violation: a handler of priority 1 is called behind one of priority 2, against event.h:46 | the handlers of MIDI_IN with one of priority 0, a 2-slot array |
| `console` | the terminal shows what Enter will run; only reset_cfg resets the settings, and it does, under `FairSpec`; the device is what its descriptors say; a temperature is of this request | 4 characters, one of them another's upper case, a line of 3, commands of 1 and 2 letters: full and empty lines, names that are a prefix of another, arguments. SYS has 2 usable slots: at most one response and one request wait in it, and a restart empties it, so `MaxPosts` 3 cuts nothing off. The host may enumerate, open, close and reset the bus at any time, without a bound; all but the liveness is proved without the others |
| `console_endpoints` | violation: with the console built in, endpoint 5 is in use, and `usb_lufa.h:66` wants less than 5 | the instance of `console` |
| `panel` | values in range, monotone, host round trip; the length of the ring; colours; the decoder follows the shaft; debouncing and the reset combination; acceleration and torn reads | the encoder on real widths: a grid of range ends including the extremes, every position of a ring in every mode, every hue over a grid of saturations and values; `MaxEdges` 1, 12 edges either way, all rest positions; 3 switches, 4 samples; a clock of 2 bytes of 4 values, 40 ticks, so that it wraps twice. The proofs remove all of these bounds but `MaxEdges` |
| `input` | velocity and LEDs under turns, cycling, hold and bank changes; the host hears every turn; hold restores | 2 banks, one with a switch that cycles and one with an overlay of two sending mappings, 1 encoder, 2 mappings, 2 positions: two values are enough for an LED or a value to be stale. More encoders of a bank do not share state but in the queues; the proofs remove the bounds |
| `display` | the LEDs show each drawing at its brightness; no drawing is left half-done; the animation marks the bank shown | 2 banks that flash different encoders, 2 encoders, 2 frames, 2 slots: the interrupt can fall between any two bytes of a word, of a frame and of an encoder, and a bank change on an animation in progress. One look per encoder and bank, so a change of look is a change of bank; the three properties are proved without these bounds |
| `display_loop` | under `LoopSpec`: each encoder shows its own look again and again, also when others are turned, by turns and for ever; and all of them for good when the user leaves them alone | the same panel without the interrupts, with two looks for every encoder of a bank, so that turns change them; up to 2 bank changes (`AskRoom`) and a turn in one scan |
| `input_midi` | 14-bit, 7-bit and mute mappings and host messages | 1 bank, 1 encoder, 3 mappings, a side switch that cycles, 3 positions, 2 scans of the boot window, a queue with one slot less than a turn can fill, USB that fails |
| `config` | power cuts everywhere; resets complete and settings are saved, under `FairSpec` | 3 settings of both kinds, 2 restarts: a cut during the recovery from a cut. The same passes with 3 (1,031,244 states); two of the properties are proved without a bound |
| `config_load` | violation: a MIDI configuration does not survive a restart | 1 restart |
| `sysex` | reassembly under loss, as a refinement of `SettingServer`; under `FairSpec`, replies, or their loss in MIDI_OUT or USB | 2 messages of up to 4 packets and one other packet, MIDI_IN with 3 usable slots: every packet of a message can be lost, the end of the first with the second behind it, and what is left be passed over or spoilt; the refinement is proved for any messages the device and the host agree about |

Bounds named in the models: `MaxPosts`, `InRoom`, `BootScans`, `AskRoom`,
`MaxRestarts`, `Reach`, `MaxRequests`, `MaxExtras`, `MaxTicks`.

The type invariants (`TypeOK`) of `EventChannel`, `Input`, `Config`, `Sysex`
and `Console` hold when added to the configurations of their runs, which list only
properties of behaviour.

**Fairness.** The main loop has no blocking call that depends on the user or the
host, so its steps are weakly fair. `EventChannel` needs strong fairness of
`StartPass`, as posts come and go between passes, but the loop calls
`event_update` on every turn whatever else happens. `Display` needs strong fairness
of the end of an animation (its duration is fixed) or the start of the next one, as bank
changes may start others for ever, and, for each encoder on its own, of meeting its
request: `display_update` tests the age of each, which turning again does not renew. That
all encoders are right at one moment does not follow while they are turned by turns, and is
claimed only for a panel left alone (`DisplaySettles`). `Config` needs
it of the SYS handler and of the periodic save, which the loop calls on every
turn; of `Console` only that the boot and the loop go on, and that the converter ends
its conversions. No fairness is assumed of the user, the host, the interrupts or the
power supply.

**Deadlock** is checked in every run.

## 4. Proofs

`EventChannelProofs` proves, for all handlers, priorities and queue sizes:

* `TypeCorrect`, `NoOverrunAlways` and `QueueHoldsPendingAlways` without further
  assumption. `QueueInv`, their inductive invariant, adds to the properties what
  ties the program counter to the slot (`mode`, `i`, `cur`, `inCall`): a pass is
  inside the used part of the array whenever it holds a handler.
* `ListWellFormedAlways`, `SortedDownwardsAlways` (a larger priority number in front of a
  smaller one, the reverse of what the header says and `channel_priority` refutes),
  `EveryHandlerCalledOnceAlways` and `ImplementsBus` under
  `NoStaleReuse == \A h \in Reusable : Priority[h] # 0`. `MCEventChannelReuse.cfg`
  shows that the assumption is needed; the firmware meets it, since it never
  removes a handler. `ListInv` adds where in the list a walk has come to: the
  handlers called are those in front of `cur`. From it follow that every handler is
  called once, and that each step of a pass is a delivery of `EventBus` or a
  stutter.

`PanelProofs` proves what the hardware of the panel is read through. It extends
`Quadrature`, `SysTime` and `Debounce`, whose specifications are therefore named apart
(`DecoderSpec`, `ClockSpec`, `SwitchSpec`).

* `NoDriftAlways`, `StepsFollowShaftAlways`: with at most one edge per scan
  (`NoEdgeMissed`) the decoder never drifts and reports the shaft's steps. The invariant
  `Tracks` relates the decoder's state to the shaft's position modulo four; it is needed
  because the difference of steps and position alone does not tell which half-step is
  under way.
* `FactorFitsPaceAlways`, for a clock of any width and range. `Ordered` says that a time
  read later is of a later tick, `Paced` that the time kept is the remainder of the tick
  it was read at. That the difference of two such remainders is the gap between the
  ticks, also when the clock has wrapped between them, is the lemma `DeltaIsGap`.
* `TornOnlyAtCarryAlways`, for a clock of any number of bytes. `Loads` says that the bytes
  loaded so far amount to the lower digits of the tick the read began at, unless the one it
  met carried. What a byte counts (`Place`) is a recursive function; that it is one, is
  positive and divides the places above it are inductions. They are done over sets, with
  `Induct`, which comes from the well-foundedness of the naturals in
  `WellFoundedInduction` without a predicate to instantiate. The step is arithmetic: a digit
  more of the remainder (`NextDigit`), and no change of the upper digits without a carry
  (`NoCarry`).
* All four properties of `Debounce`, for any number of switches and samples.
  `DebounceInv` describes the ring: the slot written `k` scans ago holds a switch just
  when its run is longer than `k`.

`ConsoleProofs` proves, for every alphabet, line length, queue size and any number of
restarts:

* `DescribedAlways`. `UsbInv` says that the host can only have read the one
  configuration there is, that a configured device has opened what its drivers name,
  and that an open port was announced to the interface the driver listens on. What is
  left is finite: the endpoints of the four descriptors are those of the drivers, and
  all are below the limit of the stack.
* `ReadingFreshAlways`. `AdcInv` says that outside the two waits no conversion is under
  way and the flag is clear; the property alone does not survive a request, since it
  does not say that no flag is left over for it.
* `OnlyAskedResetsAlways`. `ResetInv` adds that every request in the queue, and the
  step between the handler and the restart, stem from a command, and that a booting
  device has an empty queue. Its other half, `SysOK`, is about the array of the SYS
  channel: what is in it, and that a pass is inside it.
* `ShownIsLineAlways`. `LineInv`: what the terminal will show when the next byte is
  taken is an end of the line, and all of it if nothing was left over from an earlier
  connection. The second half of a proof step is that no other handler can ask for a
  prompt: `SysAlone`, the console's is never on the list of SYS.

`ConfigProofs` proves, for any number of settings and restarts, under
`ConfigAssumption` and `GarbageApart` (no legal setting is what the model calls foreign
or garbled bytes):

* `ResetForgetsAlways`. `ResetInv` follows the erasing: below `pos` everything is
  erased, and from the moment the version is valid again with the flag clear all
  settings are erased or default. While neither holds, the next boot begins anew.
* `UntouchedSurvivesAlways`. `KeepInv` adds that a setting that was not touched has its
  saved value in EEPROM and RAM, and that a save in progress has stored what it passed.
  Garbling spares it, since `eeprom_update_block` does not write equal bytes.

`DisplayProofs` proves, for any panel, any number of frames and slots:

* `FlashShowsBankAlways`. `FlashInv`: only the first slot is ever used, and either the
  animation is of the bank shown or the last of the queued changes is.
* `WholeDrawingAlways`. `DrawInv`: of the encoder being drawn, all words in front of the
  place of writing belong to the new drawing; and if an animation is drawing, all keep
  the indicators of one look, as it writes the colour only. Every other encoder is
  whole. An animation that overwrites another's half is excluded by `FlashInv`.
* `ShownAsDrawnAlways`. `LatchInv`: while nothing has been written, the bytes shifted out
  so far are those of the frame being sent, and the `k`-th of the frames latched since
  is the one sent that many interrupts ago. `DrawInv` provides the types and that a word
  of a frame carries its number.

`InputProofs` proves, for any number of banks, encoders and mappings, any modes of the
switches, ranges of the mappings and sizes of the queues:

* `TypeCorrect`, with the strengthening `Types`: what the queues hold, and that mappings
  are left to move only while an encoder is read. No range is too wide for it, since
  the conversion wraps to 16 bits.
* `HoldRestoresAlways`. `HoldInv`: while the hold switch is held, `prev_vmap_active` is
  what was active in the bank it was pressed in. The property does not mention what
  the firmware remembers, and so is not inductive.
* `VelocityFreshAlways`. `FreshInv` says the same of the encoders already read while
  a scan is under way, and that the others have not been turned in it.
* `UpToDateAlways`, under `Undisturbed`: the host sends nothing, the panel is left alone in the
  boot window, and no encoder switch resets its position. `sw_encoder_init` gives every
  switch the cycling mode; for the other two, section 5 has the counterexamples.
  `DrawnInv` adds the encoder of a bank-change animation, whose
  LEDs show the animation until its end asks for a redraw.
* `WireCurrentAlways`, under `OwnControllers`: no two mappings send to one controller
  (`sw_encoder_init` numbers them through). The property is inductive as it stands, with
  the types; the work is in the queue, where what the host will be told last is the last
  of the messages with that controller, and a 14-bit value needs two of them.
* `HostHearsTurnAlways`, under `Listening`: `OwnControllers`, a silent host (for one
  that sends, see section 5), value ranges of a data byte, and
  `FitsInt16 == EncMax * CCMax <= 32767`, which the firmware's 255 * 127 meets. `HeardInv`
  says of every mapping turned in this scan that it has the value of its position and
  will not move again; together with `WireCurrent` the host then has it.

`EncoderProofs` proves the safety and action properties of `EncoderCheck` under
`EncoderCheckAssumption`: ranges within 0 .. `EncMax` and 0 .. `CCMax`, a product of the two
that fits an `int` of 16 bits (255 * 127), levels of a byte, a gamma table with an entry for
every level of the BCM, and at most 256 frames, since `led.c` counts the brightness of an
indicator in 256ths.

* `ValueInRangeAlways`, `TurnIsMonotoneAlways`, `HostValueKeptAlways`. `MapInv`: the mapping is
  one the firmware can hold and the position is within its range. `ConvertIsScale` reduces
  the C arithmetic, with its 16-bit wrap and its quotient towards zero, to
  `Scale(x, from, to) == (x * to) \div from`; range, monotonicity and the way back
  (`RoundTrip`) are then facts about quotients.
* `ColourAsDefinedAlways`, `BrighterNeverDimsAlways`. `Coloring` bounds hue, saturation
  and value. A level comes of a product that is divided by 256 twice, each time with a
  correction added first;
  `ScaledNear` bounds its error and `ScaledGrows` shows that it grows with the value. The
  six sextants of the hue are one case, after `LinearPlaced` has named the roles of the three
  lamps. `GammaTable` and `BcmGrows` carry the second property through the table.
* `BarIsProportionalAlways`, `DetentGrowsOutwardAlways`. `RingInv` and `MapInv`. The bar is
  counted as pairs of lamp and frame (`BarLight`): those of the indicators in front of
  the leading one, and the frames of the leading one. The leading indicator and its
  brightness come from two formulas; `BarBetween` ties them together.

`SysexProofs` proves, for any number of messages, of other packets, any sizes of the queues
and any loss on the way, under `SysexAssumption`:

* `TakenAsSentAlways` (a message that reaches MIDI_IN whole changes the settings as it asks, at
  its last packet and not before), under `\A r \in Requests : Proper(r)`: every message is a `SET` with
  the data its field has room for, or cannot be taken for one of ours (not a byte of the
  maker's identity is in its place, or the command or the parameter is another), and
  fits the buffer. What it excludes is what section 5 and the notes behind it are about:
  a cousin of the maker, a length nothing checks, the colour that never fits, and a `GET`
  or a `STOP`, which write. The messages of the `sysex` run are all proper.
* The invariant, `Sound`, is about the packets on their way from the host to the handler,
  as one queue: each is a piece of a message sent; before a piece of a message that is
  not hurt comes the piece it was cut from, or the end of a message; if it is the first,
  the buffer holds what went before (`Begun`). Other packets may lie in between, so all
  is said of *consecutive* packets of messages (`Pair`, `IsFirst`, `IsLast`), whose laws for
  two queues one behind the other are the lemma `Joined`. A packet dropped at MIDI_IN takes
  the end away from under its successor, which is why `hurt` has the next message as well:
  `SoundDropped` shows that no other is touched.
* `ImplementsServer`, under the same condition: the device implements `SettingServer`, where a
  request is served in one step and in its turn, and only a lost one is passed over or spoils a
  field. `TurnInv` says of the same queue that what comes *behind* belongs to the same message
  or a later one (`Rises`), that all of it is not yet served (`Unserved`), and that of each
  message that is not hurt the end is still among it (`Whole`). The step that serves a message
  then passes over hurt ones only, and what MIDI_IN drops is a loss of one not yet served.
  `StepTaken`, of `TakenAsSentAlways`, gives what serving one that is not hurt does.
* `SizesKept`, without a condition on the messages: `TypeOK`, that no queue and not the
  buffer exceeds its array and that the settings stay in their types, whatever is sent.

**Only model-checked:**

* all liveness (`EventuallyDelivered`, `ResetCarriedOut`, `DisplayCatchesUp`, `DisplaySettles`,
  `ResetCompletes`, `SettingsReachStorage`, `EventuallyAnswered`), which is beyond the prover.

The properties of the violation runs and of section 5 fail.


## 5. What the models say about the code

The three findings in `PROJECT.json` (the order of the priorities, the number of endpoints,
the decoding of a stored MIDI configuration) have violation runs. The models
show other disagreements between the code and what is written about it. Each has
a property, which TLC ends with a counterexample; they are not among the runs. "In
X" means: put the property in the place of those of `X.cfg` (as `INVARIANT`, or as
`PROPERTY` where it has the form `[][..]_v`), with `SPECIFICATION Spec`, or `PanelSpec`
in `MCPanel`.

| Configuration, property | What the code does | What is written |
|---|---|---|
| `MCEventChannelFull`, `RefusedOnlyWhenFull` | `event_post` (event.c:194) refuses with one slot still free | event.h:165: "ERR_NO_MEM queue is full" |
| `MCEventChannelReuse`, `ListWellFormed` | a priority-0 handler subscribed again keeps the `next` field of its first time (event.c:121): the list becomes a circle. No handler is removed today | event.h:99 documents subscribing as adding to the channel |
| `MCEventChannelConsole`, `ConsoleSubscribed` | SYS allows one handler and has it; `console_init` ignores the refusal | console.c:148: "Subscribe to system events" |
| `ReversedRangeReduces` in `MCPanel` | a descending range is converted and then mirrored again (input_manager.c:288) | virtmap.h:55: "the output will start at 5000 and reduce as the encoder is rotated clockwise" |
| `MCInputHoldAll`, `HoldRestoresAll` | on release the remembered mappings are written into the bank shown then (input_manager.c:488) | input_manager.c:488: "Restore original vmap for each encoder" |
| `MCInputFrozen`, `HostIgnoredOnlyWhileTurning` | an encoder turned in the scan that changes the bank keeps its velocity, and ignores the host until its bank is shown again | input_manager.c:378: "do not update if the encoder is moving" |
| `HostHearsTurn` in `MCInputHostDraw` | the host's messages move `curr_pos` and not `curr_val`, so a turn back to the last value sent is not sent (input_manager.c:292) | virtmap.h:44: the range of "the numerical values that will be generated by the virtual encoder as it is rotated" |
| `MCInputHostDraw`, `UpToDateUnlessRequested` | a position the host sets is not drawn | hardware.h:129: "A value of 0 means the display is up-to-date" |
| `MCInputBoot`, `UpToDateUnlessRequested` | `hw_led_init` clears what a switch has drawn in the boot window | the same |
| `MCInputOut`, `PositionInRange` | a host value outside the value range gives a position outside the position range (input_manager.c:386) | virtmap.h:70: "the absolute values determining where the virtual encoder begins and ends" |
| `DefaultsAfterReset` in `MCConfigLoad` | `init_eeprom` writes the version before the settings; after a cut in between zeros count as settings (config.c:307) | config.c:116: "On a completely new device the EEPROM will be initialised with basic values" |
| `HoldIsTemporary` in `MCConfigLoad` | a save while hold is pressed stores the mapping hold has made active (config.c:196) | hardware.h:57: "Temporarily change vmaps on all encoders while held" |
| `HoldRestoresCurrent` in `MCConfigLoad` | hold pressed in the boot window remembers the default, and its release after `cfg_load` puts that in the place of what was loaded | input_manager.c:434: "Store current vmap for each encoder to restore later" |
| `EncoderLinear`, `HueInRange` | a negative difference is divided as an unsigned 16-bit word (color.c:150), and where green or blue leads the quotient gives a hue beyond the last. Nothing calls `color_set_vmap_rgb_linear` | color.h:40: "0-1535 (0-360 degrees)" |
| `FrameEvery32Ticks` in `MCPanel` | the compare value wraps at 255 and the timer at 256: one frame in eight is a tick longer (hw_led.c:134) | hw_led.c:130: "This ISR needs to trigger every 32 ticks" |
| `ActiveIsAsserted` in `MCConsole` | `vser_active` is only changed by a line-state request; a bus reset or a new connection leaves it set (usb_lufa.c:572) | usb_lufa.c:614: "Function to check if the virtual serial port is active (DTR asserted)" |
| `PromptIsDue` in `MCConsole` | for the same reason the console does not notice a disconnection, and the next terminal gets no prompt | console.c:155: "Reset prompt state if disconnected" |
| `PrescalerKept` in `MCConsole` | `adc_init` never marks the converter as initialised, so each `temp` command sets it up again, with another prescaler | adc.c:65: "ADC already initialized, no need to reconfigure" |
| `MCSysexColour`, `EventuallyAnswered` | the longest message never fits, as the guard leaves out the two framing bytes (sysex.c:121) | sysex.c:95: "Buffer to stream incoming sysex, +2 for start and end sysex bytes" |
| `MCSysexMaker`, `OwnMessagesOnly` | three inequalities joined with `&&`: one right byte is enough (sysex.c:162) | sysex.c:161: "Validate the manufacturer ID is correct (SAM)" |
| `MCSysexLength`, `LengthChecked` | `expected_len` is computed and never compared (sysex.c:149) | sysex.c:148: "Check the expected length based on the parameter enum data length" |
| `ReadsCurrentTime` in `MCPanel` | `systime_ms` reads four bytes with the interrupt enabled (systime.c:47) | time.h:25: "Current time in milliseconds" |

Seen while modelling, and contradicted by no document:

* a sysex `GET` and a `STOP` write the setting as a `SET` does; a `GET` without
  data writes the end byte. The passing runs send `SET`s and messages to be refused;
* a redraw request is the time it was made at, and at time 0 it is none
  (input_manager.c:255);
* a press needs equal samples, a release a single one;
* the range of a mapping is `i8`, the example in `virtmap.h` has 1000 and 5000;
* a line begun before the terminal went away is still there when it comes back,
  behind a prompt that does not show it;
* `set_vmap_hsv` does not check the saturation and value its help limits, and takes
  the low byte of a larger number; the hue is clamped by `color_set_vmap_hsv`;
* `cfg_update` saves every 5 s whether or not something changed, its comment says
  every second if something has;
* `init_eeprom` erases from EEPROM address 0, which is where the linker puts
  `eeprom_data` as the only EEPROM variable;
* the defaults stored after a reset are the ones in RAM, after the switches of the
  boot window have had their effect.

## 6. Plan

Done, in this order: event channels with their proofs, mappings, input, configuration,
console, quadrature, debouncing, sysex, system time; then the ring, the colours and the
frame timer on real widths (`Led`, `Color`, `EncoderCheck`), the frame buffer against
interrupt and DMA with the animations (`Display`), USB port and converter under the
console (`Usb`, `Adc`), hold across saving and loading (in `Config`), and the proofs
about `Console`, `Config`, `Display`, `Input`, `EncoderCheck`, `Sysex` and `SysTime`.

Left:

1. An abstract specification of the controller, one value per mapping that user and
   host share, refined by `Input` where it keeps that promise.
2. Several channels in one loop, for the events a sysex message and a turn post in the
   same turn.

**Not modelled and why.** `hal/gpio.c` and `hal/usart.c` write registers once at boot and
keep no state; nothing calls `hal/timer.c`, `adc_enable`, `adc_disable`,
`adc_channel_config`, `animation_start_custom` or the setters of colours by BCM values.
The value of the random seed is left out: it is made of shifts wider than `int`, whose
result the language does not define, and nothing draws from it but a command that
prints it. The text of
descriptors and of console output is data. The bootloader leaves the program. The LFO is
a stub. The MIDI and CDC class drivers, the USB stack and the host are external, modelled
as far as the firmware's calls need them.
