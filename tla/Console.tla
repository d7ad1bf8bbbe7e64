------------------------------ MODULE Console ------------------------------
(***************************************************************************)
(* console/console.c over the SYS channel and the USB port: the line the   *)
(* user edits over the virtual serial port, the commands it runs, and the  *)
(* way of a reset_cfg command through event.c, sys.c and cfg_init.         *)
(*                                                                         *)
(* A turn of the main loop is a pass over SYS, usb_update, in which the    *)
(* host may make one request, and console_update, which takes one byte.    *)
(* The host resets the bus at any time.  SYS is an EventChannel with the   *)
(* names of its variables.                                                 *)
(***************************************************************************)
EXTENDS Naturals, SequencesExt, Usb, Adc

CONSTANTS
  Chars,          \* printable characters
  Space,
  Fold,           \* strcasecmp compares Fold[c]
  ResetName,      \* commands[]: "reset"
  ConfigResetName, \* "reset_cfg"
  LineSize,       \* CONSOLE_LINE_BUFFER_SIZE
  SysSize,        \* SYS_EVENT_QUEUE_SIZE
  MaxPosts,       \* bound on the events SYS accepts between restarts
  sys,            \* sys_event_handler
  console,        \* console_sys_evt_handler_def
  NULL

Handlers == {sys, console}

ASSUME ConsoleAssumption ==
  /\ Space \in Chars /\ Fold \in [Chars -> Chars]
  /\ ResetName \in Seq(Chars) /\ ConfigResetName \in Seq(Chars)
  /\ LineSize \in Nat \ {0} /\ SysSize \in Nat \ {0} /\ MaxPosts \in Nat
  /\ sys # console /\ NULL \notin Handlers

VARIABLES
  registered, first, next, queue, head, mode, i, cur, inCall, ret,
  accepted, base, members, fresh, seen, called,   \* of EventChannel
  stage,          \* where main is
  type,           \* the type of each event accepted
  reset_pending,  \* eeprom_data.reset_pending, which outlives a restart
  line,           \* line_buffer up to line_buffer_index
  needs_prompt,
  shown,          \* what was echoed behind the last prompt
  prompted,       \* history: the terminal that is there has seen a prompt
  clean,          \* history: line was empty when the terminal came
  asked           \* history: reset_cfg was run, the reset is to come

Ch == INSTANCE EventChannel WITH
  QueueSize <- SysSize, OneHandler <- TRUE, StaticHandler <- sys,
  Priority <- [h \in Handlers |-> IF h = sys THEN 0 ELSE 1], Reusable <- {}

channel == <<registered, first, next, queue, head, mode, i, cur, inCall, ret,
             accepted, base, members, fresh, seen, called>>
editor == <<line, needs_prompt, shown, prompted, clean>>
reset == <<reset_pending, asked>>
vars == <<channel, stage, type, reset, usb, adc, editor>>

-----------------------------------------------------------------------------
Init ==
  /\ Ch!Init
  /\ stage = "avr_init"
  /\ type = <<>>
  /\ reset_pending = FALSE
  /\ UsbInit /\ AdcInit
  /\ line = <<>> /\ needs_prompt = TRUE
  /\ shown = <<>> /\ prompted = FALSE /\ clean = TRUE
  /\ asked = FALSE

(* hal_system_reset: RAM is again as the C startup code leaves it.         *)
Restart ==
  /\ registered' = FALSE /\ first' = sys /\ next' = [h \in Handlers |-> NULL]
  /\ queue' = [s \in Ch!Slots |-> 0] /\ head' = 0 /\ ret' = "OK"
  /\ mode' = "idle" /\ i' = 0 /\ cur' = NULL /\ inCall' = FALSE
  /\ accepted' = 0 /\ base' = 0 /\ members' = {sys} /\ fresh' = {console}
  /\ seen' = [h \in Handlers |-> 0] /\ called' = {}
  /\ stage' = "avr_init"
  /\ type' = <<>>
  /\ UsbRestart /\ AdcRestart
  /\ line' = <<>> /\ needs_prompt' = TRUE
  /\ shown' = <<>> /\ prompted' = FALSE /\ clean' = TRUE

Post(evt) ==
  IF Ch!QueueFull
  THEN Ch!PostRejected /\ UNCHANGED type
  ELSE Ch!PostAccepted /\ type' = Append(type, evt)

-----------------------------------------------------------------------------
(* The boot sequence, in the order of main.                                *)
AvrInit ==
  /\ stage = "avr_init" /\ stage' = "rng_init"
  /\ AdcSetUp
  /\ UNCHANGED <<channel, type, reset, usb, editor>>

RngInit ==
  /\ stage = "rng_init" /\ stage' = "rng_wait"
  /\ MeasureForSeed
  /\ UNCHANGED <<channel, type, reset, usb, editor>>

RngSeeded ==
  /\ stage = "rng_wait" /\ stage' = "event_init"
  /\ ReadResult
  /\ UNCHANGED <<channel, type, reset, usb, editor>>

EventInit ==
  /\ stage = "event_init" /\ stage' = "console_init"
  /\ Ch!Register(TRUE)
  /\ UNCHANGED <<type, reset, usb, adc, editor>>

(* The result of the subscription is ignored.                              *)
ConsoleInit ==
  /\ stage = "console_init" /\ stage' = "cfg_init"
  /\ Ch!SubscribeRefused(console)
  /\ line' = <<>> /\ needs_prompt' = TRUE
  /\ UNCHANGED <<type, reset, usb, adc, shown, prompted, clean>>

(* cfg_init erases when asked by the flag, by the two switches or by       *)
(* another version in the EEPROM.                                          *)
CfgInit ==
  /\ stage = "cfg_init" /\ stage' = "event_update"
  /\ \E other \in BOOLEAN :
       IF reset_pending \/ other
       THEN /\ reset_pending' = FALSE /\ asked' = FALSE
            /\ Post("RES_CFG_RESET")
       ELSE UNCHANGED <<channel, type, reset>>
  /\ UNCHANGED <<usb, adc, editor>>

-----------------------------------------------------------------------------
(* event_update: the pass over SYS.                                        *)
PassBegins ==
  /\ stage = "event_update" /\ stage' = "sys"
  /\ Ch!StartPass
  /\ UNCHANGED <<type, reset, usb, adc, editor>>

PassGoesOn ==
  /\ stage = "sys"
  /\ Ch!NextSlot \/ Ch!CallHandler
  /\ UNCHANGED <<stage, type, reset, usb, adc, editor>>

PassIsOver ==
  /\ stage = "sys" /\ stage' = "usb_update"
  /\ Ch!EndPass
  /\ UNCHANGED <<type, reset, usb, adc, editor>>

(* Fault: the response is taken for a request.                             *)
IsAnyReset == cur = sys

IsRequest == cur = sys /\ type[queue[i]] = "REQ_CFG_RESET"

(* The handler of sys.c: the response first ...                            *)
PostResponse ==
  /\ stage = "sys" /\ inCall /\ IsRequest
  /\ stage' = "mf_cfg_reset"
  /\ Post("RES_CFG_RESET")
  /\ UNCHANGED <<reset, usb, adc, editor>>

(* ... then the flag and the restart.                                      *)
FlagAndRestart ==
  /\ stage = "mf_cfg_reset"
  /\ reset_pending' = TRUE
  /\ Restart
  /\ UNCHANGED asked

(* It has no use for a response.  The console's handler would ask for a    *)
(* prompt, were it on the list.                                            *)
HandleResponse ==
  /\ stage = "sys" /\ inCall /\ ~IsRequest
  /\ Ch!HandlerReturns
  /\ needs_prompt' = (needs_prompt \/ cur = console)
  /\ UNCHANGED <<stage, type, reset, usb, adc, line, shown, prompted, clean>>

-----------------------------------------------------------------------------
(* usb_update: one request of the host, or none.                           *)
UsbUpdate(kept) ==
  /\ stage = "usb_update" /\ stage' = "console_update"
  /\ UNCHANGED <<channel, type, reset, adc, line, needs_prompt, kept>>

NoRequest ==
  UsbUpdate(<<usb, shown, prompted, clean>>)

HostReadsDevice ==
  UsbUpdate(<<shown, prompted, clean>>) /\ ReadDevice

HostReadsConfiguration ==
  UsbUpdate(<<shown, prompted, clean>>) /\ ReadConfiguration

HostConfigures ==
  UsbUpdate(<<shown, prompted, clean>>) /\ SetConfiguration

TerminalComes ==
  /\ UsbUpdate(<<>>) /\ PortOpened
  /\ shown' = <<>> /\ prompted' = FALSE
  /\ clean' = (line = <<>>)

TerminalGoes ==
  UsbUpdate(<<shown, prompted, clean>>) /\ PortClosed

(* An interrupt; the stack is up once main is past usb_init.               *)
HostResetsBus ==
  /\ stage \notin {"avr_init", "rng_init", "rng_wait", "event_init"}
  /\ usb_state # "default"
  /\ BusReset
  /\ UNCHANGED <<channel, stage, type, reset, adc, editor>>

-----------------------------------------------------------------------------
(* console_update                                                          *)
NotConnected ==
  /\ stage = "console_update" /\ stage' = "event_update"
  /\ ~vser_active
  /\ needs_prompt' = TRUE
  /\ UNCHANGED <<channel, type, reset, usb, adc, line, shown, prompted, clean>>

(* The prompt is printed before the byte is taken.                         *)
Prompted == IF needs_prompt THEN <<>> ELSE shown

Taking ==
  /\ stage = "console_update" /\ vser_active
  /\ prompted' = (prompted \/ (needs_prompt /\ Delivered))
  /\ UNCHANGED <<usb, clean>>

(* CDC_Device_ReceiveByte has a byte.                                      *)
Typed == Taking /\ terminal

Echoed ==
  /\ stage' = "event_update"
  /\ needs_prompt' = FALSE
  /\ UNCHANGED <<channel, type, reset, adc>>

(* No byte, one that is not printable, or one there is nothing to erase    *)
(* or no room for.                                                         *)
NothingTaken ==
  /\ Taking /\ Echoed
  /\ shown' = Prompted
  /\ UNCHANGED line

Store ==
  /\ Typed /\ Echoed
  /\ Len(line) < LineSize - 1
  /\ \E c \in Chars : line' = Append(line, c) /\ shown' = Append(Prompted, c)

Shorter(s) == SubSeq(s, 1, Len(s) - 1)

(* The terminal cannot erase what it does not show.                        *)
Erase ==
  /\ Typed /\ Echoed
  /\ line # <<>>
  /\ line' = Shorter(line)
  /\ shown' = IF Prompted = <<>> THEN <<>> ELSE Shorter(Prompted)

(* Fault: the index is not set back.                                       *)
LineKept == line' = line /\ needs_prompt' = TRUE /\ shown' = <<>>

NewLine == line' = <<>> /\ needs_prompt' = TRUE /\ shown' = <<>>

(* process_line: the name ends at the first space.                         *)
NameEnd(l) == {n \in 0 .. Len(l) : /\ \A k \in 1 .. n : l[k] # Space
                                   /\ n = Len(l) \/ l[n + 1] = Space}

Runs(l, name) ==
  l # <<>> /\ \E n \in NameEnd(l) :
    Len(name) = n /\ \A k \in 1 .. n : Fold[l[k]] = Fold[name[k]]

(* Tab, an empty line, a command that only prints or changes a setting,    *)
(* or one that is unknown.                                                 *)
RunOther ==
  /\ Typed /\ stage' = "event_update"
  /\ NewLine
  /\ UNCHANGED <<channel, type, reset, adc>>

(* temp: the loop stands still until the converter has its result.         *)
RunTemperature ==
  /\ Typed /\ stage' = "temp_wait"
  /\ line # <<>>
  /\ NewLine
  /\ MeasureForConsole
  /\ UNCHANGED <<channel, type, reset>>

TemperatureShown ==
  /\ stage = "temp_wait" /\ stage' = "event_update"
  /\ ReadResult
  /\ UNCHANGED <<channel, type, reset, usb, editor>>

RunReset ==
  /\ stage = "console_update" /\ Delivered
  /\ Runs(line, ResetName)
  /\ Restart
  /\ UNCHANGED reset

RunConfigReset ==
  /\ Typed /\ stage' = "event_update"
  /\ Runs(line, ConfigResetName)
  /\ NewLine
  /\ Post("REQ_CFG_RESET")
  /\ asked' = TRUE
  /\ UNCHANGED <<reset_pending, adc>>

-----------------------------------------------------------------------------
Converter ==
  ConversionEnds /\ UNCHANGED <<channel, stage, type, reset, usb, editor>>

Boot == AvrInit \/ RngInit \/ RngSeeded \/ EventInit \/ ConsoleInit \/ CfgInit

EventUpdate ==
  \/ PassBegins \/ PassGoesOn \/ PassIsOver
  \/ PostResponse \/ FlagAndRestart \/ HandleResponse

UsbTask ==
  \/ NoRequest
  \/ HostReadsDevice \/ HostReadsConfiguration \/ HostConfigures
  \/ TerminalComes \/ TerminalGoes

ConsoleUpdate ==
  \/ NotConnected
  \/ NothingTaken \/ Store \/ Erase
  \/ RunOther \/ RunTemperature \/ TemperatureShown
  \/ RunReset \/ RunConfigReset

Main == Boot \/ EventUpdate \/ UsbTask \/ ConsoleUpdate

Next == Main \/ Converter \/ HostResetsBus

Spec == Init /\ [][Next]_vars

(* main never stops calling its parts; none of them waits for the user or  *)
(* for the host.  A conversion that was begun ends.                        *)
Fairness == WF_vars(Main) /\ WF_vars(Converter)

FairSpec == Spec /\ Fairness
-----------------------------------------------------------------------------
(* Every variable stays in its type; the line leaves room for the          *)
(* terminator.                                                             *)
TypeOK ==
  /\ Ch!TypeOK
  /\ stage \in {"avr_init", "rng_init", "rng_wait", "event_init", "console_init", "cfg_init", "event_update",
                "sys", "mf_cfg_reset", "usb_update", "console_update", "temp_wait"}
  /\ type \in Seq({"REQ_CFG_RESET", "RES_CFG_RESET"}) /\ Len(type) = accepted
  /\ reset_pending \in BOOLEAN /\ asked \in BOOLEAN
  /\ line \in Seq(Chars) /\ Len(line) < LineSize
  /\ needs_prompt \in BOOLEAN /\ shown \in Seq(Chars) /\ clean \in BOOLEAN
  /\ prompted \in BOOLEAN /\ vser_active \in BOOLEAN /\ opened \in SUBSET (MidiEndpoints \cup CdcEndpoints)

(* What the terminal shows behind the prompt is the end of the line that   *)
(* Enter will run, after any typing, erasing, disconnecting and restart;   *)
(* it is the whole line unless a line was begun on an earlier connection.  *)
ShownIsLine ==
  terminal /\ ~needs_prompt =>
    /\ IsSuffix(shown, line)
    /\ clean => shown = line

(* A terminal that has not been prompted is going to be: what console.c    *)
(* says of its reset of the prompt "if disconnected".                      *)
PromptIsDue == terminal /\ ~prompted => needs_prompt

(* The settings are forgotten only if reset_cfg was run: the response of   *)
(* one reset does not bring about the next, and a plain reset does not     *)
(* either.                                                                 *)
OnlyAskedResets == reset_pending => asked

(* A reset_cfg command is carried out: the request finds room in SYS, its  *)
(* handler is still the one sys.c has wired in, and cfg_init sees the      *)
(* flag after the restart.                                                 *)
ResetCarriedOut == asked ~> ~asked
=============================================================================
