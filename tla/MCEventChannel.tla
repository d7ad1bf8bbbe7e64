--------------------------- MODULE MCEventChannel ---------------------------
(* Small channels for TLC.                                                 *)
EXTENDS EventChannel

CONSTANTS sysex, input, tail1, tail2, sys, console

(* MIDI_IN of the firmware, where the input manager's handler has priority *)
(* 1 and the sysex parser's has 2, with a handler of priority 0 beside     *)
(* them.                                                                   *)
MidiHandlers == {sysex, input, tail1}
MidiPriority == [h \in MidiHandlers |->
                   CASE h = sysex -> 2 [] h = input -> 1 [] OTHER -> 0]

(* Two handlers of priority 0, one of them subscribed a second time.       *)
TailHandlers == {tail1, tail2}
TailPriority == [h \in TailHandlers |-> 0]

(* SYS of the firmware: sys.c wires its handler into the definition and    *)
(* sets onehandler; the console asks for a place beside it.                *)
SysHandlers == {sys, console}
SysPriority == [h \in SysHandlers |-> 0]

(* console.c: "Subscribe to system events": after the call of console_init *)
(* the console's handler is on the list.                                   *)
ConsoleSubscribed == [][Subscribe(console) => console \in members']_vars
=============================================================================
