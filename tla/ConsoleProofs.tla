--------------------------- MODULE ConsoleProofs ---------------------------
(***************************************************************************)
(* Theorems about the console, the USB port and the converter, for every   *)
(* alphabet, every size of line and queue and any number of restarts.      *)
(***************************************************************************)
EXTENDS Console, FiniteSetTheorems, TLAPS

(* A step of the whole is one of the host's or nothing to the port.        *)
LEMMA UsbStep ==
  [Next]_vars =>
    \/ UNCHANGED usb
    \/ UsbRestart \/ BusReset \/ ReadDevice \/ ReadConfiguration
    \/ SetConfiguration \/ PortOpened \/ PortClosed
<1> SUFFICES ASSUME [Next]_vars
             PROVE  \/ UNCHANGED usb
                    \/ UsbRestart \/ BusReset \/ ReadDevice \/ ReadConfiguration
                    \/ SetConfiguration \/ PortOpened \/ PortClosed
  OBVIOUS
<1>1. CASE UNCHANGED vars  BY <1>1 DEF vars
<1>2. CASE Boot
  BY <1>2 DEF Boot, AvrInit, RngInit, RngSeeded, EventInit, ConsoleInit, CfgInit
<1>3. CASE EventUpdate
  BY <1>3 DEF EventUpdate, PassBegins, PassGoesOn, PassIsOver, PostResponse,
              FlagAndRestart, Restart, HandleResponse
<1>4. CASE UsbTask
  BY <1>4 DEF UsbTask, NoRequest, HostReadsDevice, HostReadsConfiguration,
              HostConfigures, TerminalComes, TerminalGoes, UsbUpdate
<1>5. CASE ConsoleUpdate
  BY <1>5 DEF ConsoleUpdate, NotConnected, NothingTaken, Store, Erase, Typed, Taking,
              RunOther, RunTemperature, TemperatureShown, RunReset, Restart,
              RunConfigReset
<1>6. CASE Converter \/ HostResetsBus
  BY <1>6 DEF Converter, HostResetsBus
<1> QED  BY <1>1, <1>2, <1>3, <1>4, <1>5, <1>6 DEF Next, Main

-----------------------------------------------------------------------------
(* The port.  What the host has read is what the descriptors say, and a    *)
(* program has the port open only on a configured device that knows it.    *)
Answering == {e \in MidiEndpoints \cup CdcEndpoints : e.number <= MaxEndpointIndex}

UsbInv ==
  /\ read_config \in {NoDescriptor, desc_cfg}
  /\ usb_state = "configured" => read_config = desc_cfg /\ opened = Answering
  /\ terminal => usb_state = "configured" /\ vser_active

(* The four interfaces, one by one.                                        *)
AudioControl == [number |-> Interface.MIDI_AC, class |-> "audio control", endpoints |-> {}]
MidiStreaming ==
  [number |-> Interface.MIDI_AS, class |-> "MIDI streaming",
   endpoints |-> {Out(EndpointNumber.MIDI_OUT, 64), In(EndpointNumber.MIDI_IN, 64)}]
CdcControl ==
  [number |-> Interface.CCI, class |-> "CDC",
   endpoints |-> {In(EndpointNumber.CDC_NOTIFICATION, 8)}]
CdcData ==
  [number |-> Interface.CDI, class |-> "CDC data",
   endpoints |-> {Out(EndpointNumber.CDC_OUT, 16), In(EndpointNumber.CDC_IN, 16)}]

LEMMA Interfaces ==
  /\ desc_cfg.interfaces = {AudioControl, MidiStreaming, CdcControl, CdcData}
  /\ AudioControl.number = 2 /\ MidiStreaming.number = 3
  /\ CdcControl.number = 0 /\ CdcData.number = 1
  /\ AudioControl.class # "CDC" /\ MidiStreaming.class # "CDC" /\ CdcData.class # "CDC"
  /\ AudioControl.endpoints = {}
  /\ MidiStreaming.endpoints = {Out(2, 64), In(1, 64)}
  /\ CdcControl.endpoints = {In(3, 8)}
  /\ CdcData.endpoints = {Out(5, 16), In(4, 16)}
<1>1. desc_cfg.interfaces = {AudioControl, MidiStreaming} \cup {CdcControl, CdcData}
  BY DEF desc_cfg, MidiInterfaces, CdcInterfaces,
         AudioControl, MidiStreaming, CdcControl, CdcData
<1>2. AudioControl.number = 2 /\ AudioControl.class # "CDC" /\ AudioControl.endpoints = {}
  BY DEF AudioControl, Interface
<1>3. /\ MidiStreaming.number = 3 /\ MidiStreaming.class # "CDC"
      /\ MidiStreaming.endpoints = {Out(2, 64), In(1, 64)}
  BY DEF MidiStreaming, Interface, EndpointNumber
<1>4. CdcControl.number = 0 /\ CdcControl.endpoints = {In(3, 8)}
  BY DEF CdcControl, Interface, EndpointNumber
<1>5. /\ CdcData.number = 1 /\ CdcData.class # "CDC"
      /\ CdcData.endpoints = {Out(5, 16), In(4, 16)}
  BY DEF CdcData, Interface, EndpointNumber
<1> QED  BY <1>1, <1>2, <1>3, <1>4, <1>5

(* The interface the host takes for the serial port is the one whose       *)
(* requests the driver takes.                                              *)
LEMMA PortInterface ==
  ASSUME NEW f \in desc_cfg.interfaces, f.class = "CDC"
  PROVE  f.number = ControlInterfaceNumber
BY Interfaces DEF ControlInterfaceNumber

(* The four descriptors name the endpoints that are opened.                *)
LEMMA EndpointsDescribed ==
  UNION {f.endpoints : f \in desc_cfg.interfaces} = Answering
<1>1. Answering = {In(1, 64), Out(2, 64), In(3, 8), In(4, 16), Out(5, 16)}
  BY DEF Answering, MidiEndpoints, CdcEndpoints, EndpointNumber, MaxEndpointIndex, In, Out
<1>2. ASSUME NEW e \in Answering
      PROVE  \E f \in desc_cfg.interfaces : e \in f.endpoints
  BY <1>1, Interfaces
<1>3. ASSUME NEW f \in desc_cfg.interfaces, NEW e \in f.endpoints
      PROVE  e \in Answering
  BY <1>1, <1>3, Interfaces
<1> QED  BY <1>2, <1>3

LEMMA AddressesDiffer ==
  ASSUME NEW e \in Answering, NEW f \in Answering, e.number = f.number
  PROVE  e = f
BY DEF Answering, MidiEndpoints, CdcEndpoints, EndpointNumber, In, Out

LEMMA InterfacesNumbered ==
  {f.number : f \in desc_cfg.interfaces} = 0 .. desc_cfg.total - 1
<1>1. Cardinality(DOMAIN Interface) = 4
  <2> DEFINE S1 == {} \cup {"CCI"}
             S2 == S1 \cup {"CDI"}
             S3 == S2 \cup {"MIDI_AC"}
             S4 == S3 \cup {"MIDI_AS"}
  <2>1. IsFiniteSet({}) /\ Cardinality({}) = 0  BY FS_EmptySet
  <2>2. IsFiniteSet(S1) /\ Cardinality(S1) = 1  BY <2>1, FS_AddElement
  <2>3. "CDI" \notin S1 /\ "MIDI_AC" \notin S2 /\ "MIDI_AS" \notin S3  OBVIOUS
  <2> HIDE DEF S1
  <2>4. IsFiniteSet(S2) /\ Cardinality(S2) = 2  BY <2>2, <2>3, FS_AddElement
  <2> HIDE DEF S2
  <2>5. IsFiniteSet(S3) /\ Cardinality(S3) = 3  BY <2>4, <2>3, FS_AddElement
  <2> HIDE DEF S3
  <2>6. IsFiniteSet(S4) /\ Cardinality(S4) = 4  BY <2>5, <2>3, FS_AddElement
  <2>7. DOMAIN Interface = S4  BY DEF Interface, S1, S2, S3, S4
  <2> QED  BY <2>6, <2>7
<1>2. {f.number : f \in desc_cfg.interfaces} = {2, 3, 0, 1}
  BY Interfaces
<1>3. desc_cfg.total = 4  BY <1>1 DEF desc_cfg
<1> QED  BY <1>2, <1>3

LEMMA UsbInvInit == Init => UsbInv
BY DEF Init, UsbInit, UsbInv

LEMMA UsbInvNext == UsbInv /\ [Next]_vars => UsbInv'
<1> SUFFICES ASSUME UsbInv, [Next]_vars PROVE UsbInv'
  OBVIOUS
<1> USE DEF UsbInv
<1>1. CASE UNCHANGED usb  BY <1>1 DEF usb
<1>2. CASE UsbRestart \/ BusReset  BY <1>2 DEF UsbRestart, BusReset
<1>3. CASE ReadDevice  BY <1>3 DEF ReadDevice
<1>4. CASE ReadConfiguration
  <2>1. CALLBACK_USB_GetDescriptor("configuration") = desc_cfg
    BY DEF CALLBACK_USB_GetDescriptor, desc_strings
  <2> QED  BY <1>4, <2>1 DEF ReadConfiguration
<1>5. CASE SetConfiguration  BY <1>5 DEF SetConfiguration, Answering
<1>6. CASE PortOpened
  <2>1. PICK f \in read_config.interfaces : f.class = "CDC" /\ SetLineState(f.number, TRUE)
    BY <1>6 DEF PortOpened
  <2>2. usb_state = "configured" /\ read_config = desc_cfg
    BY <1>6 DEF PortOpened
  <2>3. f.number = ControlInterfaceNumber  BY <2>1, <2>2, PortInterface
  <2> QED  BY <2>1, <2>2, <2>3 DEF SetLineState
<1>7. CASE PortClosed  BY <1>7 DEF PortClosed, SetLineState
<1> QED  BY UsbStep, <1>1, <1>2, <1>3, <1>4, <1>5, <1>6, <1>7

LEMMA UsbInvMeets == UsbInv => DeviceAsDescribed
<1> SUFFICES ASSUME UsbInv PROVE DeviceAsDescribed
  OBVIOUS
<1>1. PipesMeet
  BY EndpointsDescribed, AddressesDiffer, InterfacesNumbered DEF UsbInv, PipesMeet
<1>2. TerminalIsSeen  BY DEF UsbInv, TerminalIsSeen
<1> QED  BY <1>1, <1>2 DEF DeviceAsDescribed

(* Whatever the order of requests, bus resets and restarts, the host finds *)
(* the pipes it was told of, and an open port is known to the console.     *)
THEOREM DescribedAlways == Spec => []DeviceAsDescribed
<1>1. Init => UsbInv  BY UsbInvInit
<1>2. UsbInv /\ [Next]_vars => UsbInv'  BY UsbInvNext
<1>3. UsbInv => DeviceAsDescribed  BY UsbInvMeets
<1> QED  BY <1>1, <1>2, <1>3, PTL DEF Spec

-----------------------------------------------------------------------------
(* The converter.  Once main has set it up it stays so; only while main    *)
(* waits is a conversion under way, or its flag set; and what is in the    *)
(* result register when the flag is set belongs to this request.           *)
Waiting == stage \in {"rng_wait", "temp_wait"}

AdcInv ==
  /\ stage = "avr_init" => ready = {}
  /\ stage # "avr_init" => ready = AdcConfigured \cup {"temp"}
  /\ ~Waiting => ~flag /\ ~converting
  /\ flag => ~converting /\ result = "fresh"
  /\ flag \in BOOLEAN /\ converting \in BOOLEAN
  /\ reading \in {"none", "fresh"}

LEMMA AdcInvInit == Init => AdcInv
BY DEF Init, AdcInit, AdcReset, AdcInv, Waiting

(* Steps in which main neither waits nor touches the converter.            *)
LEMMA AdcInvQuiet ==
  ASSUME AdcInv, UNCHANGED adc, stage # "avr_init", stage' # "avr_init",
         ~Waiting \/ stage' = stage
  PROVE  AdcInv'
BY DEF AdcInv, adc, Waiting

LEMMA AdcInvRestart ==
  ASSUME Restart
  PROVE  AdcInv'
BY DEF Restart, AdcRestart, AdcReset, AdcInv, Waiting

LEMMA AdcInvNext == AdcInv /\ [Next]_vars => AdcInv'
<1> SUFFICES ASSUME AdcInv, [Next]_vars PROVE AdcInv'
  OBVIOUS
<1>1. CASE UNCHANGED vars  BY <1>1 DEF vars, adc, AdcInv, Waiting
<1>2. CASE Boot
  <2>1. CASE AvrInit  BY <2>1 DEF AvrInit, AdcSetUp, AdcInv, Waiting
  <2>2. CASE RngInit
    BY <2>2 DEF RngInit, MeasureForSeed, StartConversion, AdcInv, Waiting
  <2>3. CASE RngSeeded  BY <2>3 DEF RngSeeded, ReadResult, AdcInv, Waiting
  <2>4. CASE EventInit \/ ConsoleInit \/ CfgInit
    BY <2>4, AdcInvQuiet DEF EventInit, ConsoleInit, CfgInit, Waiting
  <2> QED  BY <1>2, <2>1, <2>2, <2>3, <2>4 DEF Boot
<1>3. CASE EventUpdate
  <2>1. CASE FlagAndRestart  BY <2>1, AdcInvRestart DEF FlagAndRestart
  <2>2. CASE PassBegins \/ PassGoesOn \/ PassIsOver \/ PostResponse \/ HandleResponse
    BY <2>2, AdcInvQuiet
       DEF PassBegins, PassGoesOn, PassIsOver, PostResponse, HandleResponse, Waiting
  <2> QED  BY <1>3, <2>1, <2>2 DEF EventUpdate
<1>4. CASE UsbTask
  BY <1>4, AdcInvQuiet
     DEF UsbTask, NoRequest, HostReadsDevice, HostReadsConfiguration,
         HostConfigures, TerminalComes, TerminalGoes, UsbUpdate, Waiting
<1>5. CASE ConsoleUpdate
  <2>1. CASE RunTemperature
    BY <2>1 DEF RunTemperature, Typed, Taking, MeasureForConsole, StartConversion,
                AdcInv, Waiting
  <2>2. CASE TemperatureShown
    BY <2>2 DEF TemperatureShown, ReadResult, AdcInv, Waiting
  <2>3. CASE RunReset  BY <2>3, AdcInvRestart DEF RunReset
  <2>4. CASE NotConnected \/ NothingTaken \/ Store \/ Erase \/ RunOther \/ RunConfigReset
    BY <2>4, AdcInvQuiet
       DEF NotConnected, NothingTaken, Store, Erase, RunOther, RunConfigReset,
           Typed, Taking, Echoed, Waiting
  <2> QED  BY <1>5, <2>1, <2>2, <2>3, <2>4 DEF ConsoleUpdate
<1>6. CASE Converter
  BY <1>6 DEF Converter, ConversionEnds, AdcInv, Waiting
<1>7. CASE HostResetsBus
  BY <1>7, AdcInvQuiet DEF HostResetsBus
<1> QED  BY <1>1, <1>2, <1>3, <1>4, <1>5, <1>6, <1>7 DEF Next, Main

(* No request gets the result of an earlier one, or of a converter that is *)
(* not set up.                                                             *)
THEOREM ReadingFreshAlways == Spec => []ReadingIsFresh
<1>1. Init => AdcInv  BY AdcInvInit
<1>2. AdcInv /\ [Next]_vars => AdcInv'  BY AdcInvNext
<1>3. AdcInv => ReadingIsFresh  BY DEF AdcInv, ReadingIsFresh
<1> QED  BY <1>1, <1>2, <1>3, PTL DEF Spec

-----------------------------------------------------------------------------
(* The reset of the settings.  A request waits in SYS, or is being handled,*)
(* only while reset_cfg is asked for; what a pass hands out is an event    *)
(* that was posted.                                                        *)
Events == {"REQ_CFG_RESET", "RES_CFG_RESET"}

SysOK ==
  /\ type \in Seq(Events) /\ accepted = Len(type)
  /\ queue \in [Ch!Slots -> Nat] /\ head \in Ch!Slots /\ i \in Nat
  /\ \A s \in Ch!Slots : s < head => queue[s] \in 1 .. accepted
  /\ cur # NULL => i < head
  /\ inCall => cur # NULL /\ mode # "idle"

Booting ==
  stage \in {"avr_init", "rng_init", "rng_wait", "event_init", "console_init", "cfg_init"}

RequestsAsked ==
  /\ \A k \in 1 .. Len(type) : type[k] = "REQ_CFG_RESET" => asked
  /\ stage = "mf_cfg_reset" => asked
  /\ reset_pending => asked
  /\ Booting => type = <<>>

ResetInv == SysOK /\ RequestsAsked

LEMMA ResetInvInit == Init => ResetInv
<1> SUFFICES ASSUME Init PROVE ResetInv
  OBVIOUS
<1>1. 0 \in Ch!Slots  BY ConsoleAssumption DEF Ch!Slots
<1>2. SysOK
  <2>1. type \in Seq(Events) /\ accepted = Len(type)
    BY DEF Init, Ch!Init
  <2>2. queue \in [Ch!Slots -> Nat] /\ \A s \in Ch!Slots : ~(s < head)
    BY DEF Init, Ch!Init, Ch!Slots
  <2>3. head \in Ch!Slots /\ i \in Nat /\ cur = NULL /\ ~inCall
    BY <1>1 DEF Init, Ch!Init
  <2> QED  BY <2>1, <2>2, <2>3 DEF SysOK
<1>3. RequestsAsked  BY DEF Init, RequestsAsked
<1> QED  BY <1>2, <1>3 DEF ResetInv

(* A restart leaves nothing of the queue.                                  *)
LEMMA RestartEmpties ==
  ASSUME Restart
  PROVE  SysOK' /\ type' = <<>> /\ stage' = "avr_init"
<1>1. 0 \in Ch!Slots  BY ConsoleAssumption DEF Ch!Slots
<1> QED  BY <1>1 DEF Restart, SysOK, Ch!Slots

(* Appending keeps what is there.                                          *)
LEMMA AppendOne ==
  ASSUME type \in Seq(Events), NEW evt \in Events
  PROVE  /\ Append(type, evt) \in Seq(Events)
         /\ Len(Append(type, evt)) = Len(type) + 1
         /\ \A k \in 1 .. Len(type) + 1 :
              Append(type, evt)[k] = IF k = Len(type) + 1 THEN evt ELSE type[k]
         /\ Len(type) \in Nat
OBVIOUS

(* A post fills the slot at head, or is refused.                           *)
LEMMA PostKeeps ==
  ASSUME SysOK, NEW evt \in Events, Post(evt)
  PROVE  /\ SysOK'
         /\ \A k \in 1 .. Len(type') :
              type'[k] = "REQ_CFG_RESET" =>
                \/ evt = "REQ_CFG_RESET"
                \/ k \in 1 .. Len(type) /\ type[k] = "REQ_CFG_RESET"
<1>1. CASE Ch!QueueFull
  BY <1>1 DEF Post, Ch!PostRejected, Ch!chan, Ch!walk, Ch!hist, SysOK, Ch!Slots
<1>2. CASE ~Ch!QueueFull
  <2>1. /\ type' = Append(type, evt)
        /\ queue' = [queue EXCEPT ![head] = accepted + 1]
        /\ head' = head + 1 /\ accepted' = accepted + 1
        /\ UNCHANGED <<mode, i, cur, inCall>>
    BY <1>2 DEF Post, Ch!PostAccepted, Ch!walk
  <2>2. head \in Nat /\ head + 1 \in Ch!Slots /\ accepted \in Nat
    BY <1>2, ConsoleAssumption DEF Ch!QueueFull, SysOK, Ch!Slots
  <2>3. type \in Seq(Events)  BY DEF SysOK
  <2>4. type' \in Seq(Events) /\ Len(type') = Len(type) + 1 /\ Len(type) \in Nat
    BY <2>1, <2>3, AppendOne
  <2>5. queue' \in [Ch!Slots -> Nat]
    BY <2>1, <2>2 DEF SysOK
  <2>6. ASSUME NEW s \in Ch!Slots, s < head'
        PROVE  queue'[s] \in 1 .. accepted'
    <3>1. CASE s = head  BY <2>1, <2>2, <3>1 DEF SysOK
    <3>2. CASE s # head
      <4>1. s < head  BY <2>1, <2>2, <2>6, <3>2 DEF Ch!Slots
      <4>2. queue'[s] = queue[s]  BY <2>1, <3>2 DEF SysOK
      <4> QED  BY <2>1, <2>2, <2>6, <4>1, <4>2 DEF SysOK
    <3> QED  BY <3>1, <3>2
  <2>7. (cur # NULL => i < head)'
    BY <2>1, <2>2 DEF SysOK
  <2>8. SysOK'
    BY <2>1, <2>2, <2>4, <2>5, <2>6, <2>7 DEF SysOK, Ch!Slots
  <2>9. \A k \in 1 .. Len(type') :
          type'[k] = "REQ_CFG_RESET" =>
            \/ evt = "REQ_CFG_RESET"
            \/ k \in 1 .. Len(type) /\ type[k] = "REQ_CFG_RESET"
    BY <2>1, <2>3, <2>4, AppendOne
  <2> QED  BY <2>8, <2>9
<1> QED  BY <1>1, <1>2

(* Steps that leave the queue, the reset and what leads to it alone.       *)
LEMMA ResetInvQuiet ==
  ASSUME ResetInv, UNCHANGED <<queue, head, mode, i, cur, inCall, accepted, type, reset>>,
         stage' # "mf_cfg_reset" \/ stage' = stage, Booting' => Booting
  PROVE  ResetInv'
BY DEF ResetInv, SysOK, RequestsAsked, reset, Ch!Slots

LEMMA ResetInvPass ==
  ASSUME ResetInv,
         PassBegins \/ PassGoesOn \/ PassIsOver \/ HandleResponse
  PROVE  ResetInv'
<1>1. UNCHANGED <<type, reset, queue, accepted>> /\ ~Booting' /\ stage' # "mf_cfg_reset"
  BY DEF PassBegins, PassGoesOn, PassIsOver, HandleResponse, Ch!StartPass, Ch!NextSlot,
         Ch!CallHandler, Ch!EndPass, Ch!HandlerReturns, Ch!chan, Ch!hist, Booting
<1>2. RequestsAsked'
  BY <1>1 DEF ResetInv, RequestsAsked, reset
<1>3. SysOK'
  <2> USE <1>1 DEF ResetInv, SysOK, Ch!Slots, Ch!chan
  <2>1. CASE PassBegins  BY <2>1 DEF PassBegins, Ch!StartPass
  <2>2. CASE PassGoesOn  BY <2>2 DEF PassGoesOn, Ch!NextSlot, Ch!CallHandler
  <2>3. CASE PassIsOver  BY <2>3, ConsoleAssumption DEF PassIsOver, Ch!EndPass
  <2>4. CASE HandleResponse  BY <2>4 DEF HandleResponse, Ch!HandlerReturns
  <2> QED  BY <2>1, <2>2, <2>3, <2>4
<1> QED  BY <1>2, <1>3 DEF ResetInv

LEMMA ResetInvNext == ResetInv /\ [Next]_vars => ResetInv'
<1> SUFFICES ASSUME ResetInv, [Next]_vars PROVE ResetInv'
  OBVIOUS
<1>1. CASE UNCHANGED vars
  BY <1>1, ResetInvQuiet DEF vars, channel, Booting
<1>2. CASE Boot
  <2>1. CASE AvrInit \/ RngInit \/ RngSeeded
    BY <2>1, ResetInvQuiet DEF AvrInit, RngInit, RngSeeded, channel, Booting
  <2>2. CASE EventInit
    BY <2>2, ResetInvQuiet DEF EventInit, Ch!Register, Ch!walk, Ch!hist, Booting
  <2>3. CASE ConsoleInit
    BY <2>3, ResetInvQuiet
       DEF ConsoleInit, Ch!SubscribeRefused, Ch!Refused, Ch!chan, Ch!walk, Ch!hist, Booting
  <2>4. CASE CfgInit
    <3>1. CASE UNCHANGED <<channel, type, reset>>
      BY <2>4, <3>1, ResetInvQuiet DEF CfgInit, channel, Booting
    <3>2. CASE reset_pending' = FALSE /\ asked' = FALSE /\ Post("RES_CFG_RESET")
      <4>1. SysOK /\ type = <<>> /\ "RES_CFG_RESET" \in Events
        BY <2>4 DEF ResetInv, RequestsAsked, Booting, CfgInit, Events
      <4>2. SysOK' /\ \A k \in 1 .. Len(type') : type'[k] # "REQ_CFG_RESET"
        BY <3>2, <4>1, PostKeeps
      <4> QED  BY <2>4, <3>2, <4>2 DEF CfgInit, ResetInv, RequestsAsked, Booting
    <3> QED  BY <2>4, <3>1, <3>2 DEF CfgInit
  <2> QED  BY <1>2, <2>1, <2>2, <2>3, <2>4 DEF Boot
<1>3. CASE EventUpdate
  <2>1. CASE PassBegins \/ PassGoesOn \/ PassIsOver \/ HandleResponse
    BY <2>1, ResetInvPass
  <2>2. CASE PostResponse
    <3>1. queue[i] \in 1 .. Len(type) /\ type[queue[i]] = "REQ_CFG_RESET"
      <4>1. cur # NULL /\ i < head /\ i \in Nat /\ head \in 0 .. SysSize - 1
        BY <2>2 DEF PostResponse, ResetInv, SysOK, Ch!Slots
      <4>2. i \in Ch!Slots  BY <4>1, ConsoleAssumption DEF Ch!Slots
      <4> QED  BY <2>2, <4>1, <4>2 DEF PostResponse, IsRequest, ResetInv, SysOK
    <3>2. asked  BY <3>1 DEF ResetInv, RequestsAsked
    <3>3. SysOK'  BY <2>2, PostKeeps DEF PostResponse, ResetInv, Events
    <3>4. RequestsAsked'
      BY <2>2, <3>2 DEF PostResponse, RequestsAsked, reset, Booting
    <3> QED  BY <3>3, <3>4 DEF ResetInv
  <2>3. CASE FlagAndRestart
    <3>1. asked'  BY <2>3 DEF FlagAndRestart, ResetInv, RequestsAsked
    <3> QED  BY <2>3, <3>1, RestartEmpties DEF FlagAndRestart, ResetInv, RequestsAsked
  <2> QED  BY <1>3, <2>1, <2>2, <2>3 DEF EventUpdate
<1>4. CASE UsbTask
  BY <1>4, ResetInvQuiet
     DEF UsbTask, NoRequest, HostReadsDevice, HostReadsConfiguration,
         HostConfigures, TerminalComes, TerminalGoes, UsbUpdate, channel, Booting
<1>5. CASE ConsoleUpdate
  <2>1. CASE RunConfigReset
    <3>1. SysOK'  BY <2>1, PostKeeps DEF RunConfigReset, ResetInv, Events
    <3>2. asked' /\ ~Booting' /\ stage' # "mf_cfg_reset"
      BY <2>1 DEF RunConfigReset, Typed, Booting
    <3> QED  BY <3>1, <3>2 DEF ResetInv, RequestsAsked
  <2>2. CASE RunReset
    <3>1. UNCHANGED reset /\ Restart  BY <2>2 DEF RunReset
    <3> QED  BY <3>1, RestartEmpties DEF ResetInv, RequestsAsked, reset
  <2>3. CASE \/ NotConnected \/ NothingTaken \/ Store \/ Erase \/ RunOther
             \/ RunTemperature \/ TemperatureShown
    BY <2>3, ResetInvQuiet
       DEF NotConnected, NothingTaken, Store, Erase, RunOther, RunTemperature,
           TemperatureShown, Typed, Taking, Echoed, channel, Booting
  <2> QED  BY <1>5, <2>1, <2>2, <2>3 DEF ConsoleUpdate
<1>6. CASE Converter \/ HostResetsBus
  BY <1>6, ResetInvQuiet DEF Converter, HostResetsBus, channel, Booting
<1> QED  BY <1>1, <1>2, <1>3, <1>4, <1>5, <1>6 DEF Next, Main

(* The flag that makes cfg_init forget the settings is set only by a       *)
(* reset_cfg command that has not been carried out: never by the response  *)
(* of an earlier one.                                                      *)
THEOREM OnlyAskedResetsAlways == Spec => []OnlyAskedResets
<1>1. Init => ResetInv  BY ResetInvInit
<1>2. ResetInv /\ [Next]_vars => ResetInv'  BY ResetInvNext
<1>3. ResetInv => OnlyAskedResets  BY DEF ResetInv, RequestsAsked, OnlyAskedResets
<1> QED  BY <1>1, <1>2, <1>3, PTL DEF Spec

-----------------------------------------------------------------------------
(* The line and the terminal.  Ends of sequences.                          *)
Ends(s, t) ==
  /\ Len(s) <= Len(t)
  /\ \A k \in 0 .. Len(s) - 1 : s[Len(s) - k] = t[Len(t) - k]

LEMMA Reversed ==
  ASSUME NEW S, NEW s \in Seq(S)
  PROVE  /\ Reverse(s) \in Seq(S) /\ Len(Reverse(s)) = Len(s) /\ Len(s) \in Nat
         /\ \A k \in 1 .. Len(s) : Reverse(s)[k] = s[(Len(s) - k) + 1]
<1>1. Len(s) \in Nat  OBVIOUS
<1>2. \A k \in 1 .. Len(s) : (Len(s) - k) + 1 \in 1 .. Len(s)  BY <1>1
<1>3. \A k \in 1 .. Len(s) : s[(Len(s) - k) + 1] \in S  BY <1>2
<1>4. Reverse(s) \in [1 .. Len(s) -> S]  BY <1>3 DEF Reverse
<1>5. Reverse(s) \in Seq(S) /\ Len(Reverse(s)) = Len(s)
  BY <1>1, <1>4
<1> QED  BY <1>1, <1>5 DEF Reverse

LEMMA SuffixEnds ==
  ASSUME NEW S, NEW s \in Seq(S), NEW t \in Seq(S)
  PROVE  IsSuffix(s, t) <=> Ends(s, t)
<1>1. PICK a \in Seq(S), b \in Seq(S) : a = Reverse(s) /\ b = Reverse(t)
  BY Reversed
<1>2. PICK m \in Nat, n \in Nat : m = Len(s) /\ n = Len(t)
  BY Reversed
<1>3. /\ Len(a) = m /\ Len(b) = n
      /\ \A k \in 1 .. m : a[k] = s[(m - k) + 1]
      /\ \A k \in 1 .. n : b[k] = t[(n - k) + 1]
  BY <1>1, <1>2, Reversed
<1>4. m <= n => (SubSeq(a, 1, m) = SubSeq(b, 1, m) <=> \A k \in 1 .. m : a[k] = b[k])
  <2> SUFFICES ASSUME m <= n
               PROVE  SubSeq(a, 1, m) = SubSeq(b, 1, m) <=> \A k \in 1 .. m : a[k] = b[k]
    OBVIOUS
  <2>1. /\ SubSeq(a, 1, m) = [k \in 1 .. m |-> a[k]]
        /\ SubSeq(b, 1, m) = [k \in 1 .. m |-> b[k]]
    BY <1>3
  <2> QED  BY <2>1
<1>5. m <= n =>
        ((\A k \in 1 .. m : a[k] = b[k]) <=> \A k \in 0 .. m - 1 : s[m - k] = t[n - k])
  <2> SUFFICES ASSUME m <= n
               PROVE  (\A k \in 1 .. m : a[k] = b[k])
                        <=> \A k \in 0 .. m - 1 : s[m - k] = t[n - k]
    OBVIOUS
  <2>1. ASSUME \A k \in 1 .. m : a[k] = b[k], NEW k \in 0 .. m - 1
        PROVE  s[m - k] = t[n - k]
    <3>1. k + 1 \in 1 .. m /\ k + 1 \in 1 .. n
          /\ (m - (k + 1)) + 1 = m - k /\ (n - (k + 1)) + 1 = n - k
      OBVIOUS
    <3>2. a[k + 1] = b[k + 1]  BY <2>1, <3>1
    <3> QED  BY <1>3, <3>1, <3>2
  <2>2. ASSUME \A k \in 0 .. m - 1 : s[m - k] = t[n - k], NEW k \in 1 .. m
        PROVE  a[k] = b[k]
    <3>1. k - 1 \in 0 .. m - 1 /\ k \in 1 .. n
          /\ m - (k - 1) = (m - k) + 1 /\ n - (k - 1) = (n - k) + 1
      OBVIOUS
    <3>2. s[m - (k - 1)] = t[n - (k - 1)]  BY <2>2, <3>1
    <3> QED  BY <1>3, <3>1, <3>2
  <2> QED  BY <2>1, <2>2
<1>6. IsSuffix(s, t) <=> m <= n /\ SubSeq(a, 1, m) = SubSeq(b, 1, m)
  BY <1>1, <1>3 DEF IsSuffix, IsPrefix
<1> QED  BY <1>2, <1>4, <1>5, <1>6 DEF Ends

(* What is typed is added to both ends, and erased from both.              *)
LEMMA EndsGrow ==
  ASSUME NEW S, NEW s \in Seq(S), NEW t \in Seq(S), NEW c \in S, Ends(s, t)
  PROVE  Ends(Append(s, c), Append(t, c))
<1>1. PICK m \in Nat, n \in Nat : m = Len(s) /\ n = Len(t)
  OBVIOUS
<1>2. PICK u \in Seq(S), v \in Seq(S) :
        /\ u = Append(s, c) /\ v = Append(t, c)
        /\ Len(u) = m + 1 /\ Len(v) = n + 1
        /\ u[m + 1] = c /\ v[n + 1] = c
        /\ \A k \in 1 .. m : u[k] = s[k]
        /\ \A k \in 1 .. n : v[k] = t[k]
  <2>1. /\ Append(s, c) \in Seq(S) /\ Len(Append(s, c)) = m + 1
        /\ Append(s, c)[m + 1] = c /\ \A k \in 1 .. m : Append(s, c)[k] = s[k]
    BY <1>1
  <2>2. /\ Append(t, c) \in Seq(S) /\ Len(Append(t, c)) = n + 1
        /\ Append(t, c)[n + 1] = c /\ \A k \in 1 .. n : Append(t, c)[k] = t[k]
    BY <1>1
  <2> QED  BY <2>1, <2>2, Zenon
<1>3. m <= n /\ \A k \in 0 .. m - 1 : s[m - k] = t[n - k]
  BY <1>1 DEF Ends
<1>4. ASSUME NEW k \in 0 .. m PROVE u[(m + 1) - k] = v[(n + 1) - k]
  <2>1. CASE k = 0  BY <1>2, <2>1
  <2>2. CASE k # 0
    <3>1. k - 1 \in 0 .. m - 1 /\ m - (k - 1) = (m + 1) - k /\ n - (k - 1) = (n + 1) - k
          /\ (m + 1) - k \in 1 .. m /\ (n + 1) - k \in 1 .. n
      BY <1>3, <2>2
    <3>2. s[m - (k - 1)] = t[n - (k - 1)]  BY <1>3, <3>1
    <3> QED  BY <1>2, <3>1, <3>2
  <2> QED  BY <2>1, <2>2
<1>5. Ends(u, v)
  <2>1. /\ Len(u) <= Len(v)
        /\ \A k \in 0 .. Len(u) - 1 : u[Len(u) - k] = v[Len(v) - k]
    BY <1>2, <1>3, <1>4
  <2> QED  BY <2>1 DEF Ends
<1> QED  BY <1>2, <1>5

LEMMA EndsShrink ==
  ASSUME NEW S, NEW s \in Seq(S), NEW t \in Seq(S), s # <<>>, Ends(s, t)
  PROVE  Ends(Shorter(s), Shorter(t))
<1>1. PICK m \in Nat, n \in Nat : m = Len(s) /\ n = Len(t) /\ m # 0 /\ m <= n
  BY DEF Ends
<1>2. PICK u, v : u = Shorter(s) /\ v = Shorter(t)
  OBVIOUS
<1>3. /\ u = [k \in 1 .. m - 1 |-> s[k]] /\ Len(u) = m - 1
      /\ v = [k \in 1 .. n - 1 |-> t[k]] /\ Len(v) = n - 1
  BY <1>1, <1>2 DEF Shorter
<1>4. ASSUME NEW k \in 0 .. (m - 1) - 1 PROVE u[(m - 1) - k] = v[(n - 1) - k]
  <2>1. k + 1 \in 0 .. m - 1 /\ (m - 1) - k \in 1 .. m - 1 /\ (n - 1) - k \in 1 .. n - 1
        /\ m - (k + 1) = (m - 1) - k /\ n - (k + 1) = (n - 1) - k
    BY <1>1
  <2>2. s[m - (k + 1)] = t[n - (k + 1)]  BY <1>1, <2>1 DEF Ends
  <2> QED  BY <1>3, <2>1, <2>2
<1>5. m - 1 <= n - 1  BY <1>1
<1>6. Ends(u, v)
  <2>1. Len(u) = m - 1 /\ Len(v) = n - 1  BY <1>3
  <2> QED  BY <1>4, <1>5, <2>1, Zenon DEF Ends
<1> QED  BY <1>2, <1>6

LEMMA EndsTrivial ==
  ASSUME NEW S, NEW s \in Seq(S)
  PROVE  Ends(<<>>, s) /\ Ends(s, s)
<1>1. Len(s) \in Nat /\ Len(<<>>) = 0  OBVIOUS
<1> QED  BY <1>1 DEF Ends

LEMMA ShorterSeq ==
  ASSUME NEW S, NEW s \in Seq(S), s # <<>>
  PROVE  Shorter(s) \in Seq(S)
BY DEF Shorter

(* The handler of the console never gets onto the list of SYS, so that it  *)
(* never asks for a prompt.                                                *)
SysAlone == first = sys /\ next[sys] = NULL /\ cur \in {NULL, sys}

LEMMA SysAloneStep == ResetInv /\ SysAlone /\ [Next]_vars => SysAlone'
<1> SUFFICES ASSUME ResetInv, SysAlone, [Next]_vars PROVE SysAlone'
  OBVIOUS
<1> USE DEF SysAlone
<1>1. CASE UNCHANGED <<first, next, cur>>  BY <1>1
<1>2. CASE Restart  BY <1>2 DEF Restart, Handlers
<1>3. ASSUME NEW evt, Post(evt) PROVE SysAlone'
  BY <1>3 DEF Post, Ch!PostRejected, Ch!PostAccepted, Ch!chan, Ch!walk
<1>4. CASE Boot
  <2>1. CASE AvrInit \/ RngInit \/ RngSeeded
    BY <1>1, <2>1 DEF AvrInit, RngInit, RngSeeded, channel
  <2>2. CASE EventInit  BY <1>1, <2>2 DEF EventInit, Ch!Register, Ch!walk
  <2>3. CASE ConsoleInit
    BY <1>1, <2>3 DEF ConsoleInit, Ch!SubscribeRefused, Ch!Refused, Ch!chan, Ch!walk
  <2>4. CASE CfgInit  BY <1>1, <1>3, <2>4 DEF CfgInit, channel
  <2> QED  BY <1>4, <2>1, <2>2, <2>3, <2>4 DEF Boot
<1>5. CASE EventUpdate
  <2>1. CASE PassBegins  BY <2>1 DEF PassBegins, Ch!StartPass, Ch!chan
  <2>2. CASE PassGoesOn
    BY <2>2 DEF PassGoesOn, Ch!NextSlot, Ch!CallHandler, Ch!chan
  <2>3. CASE PassIsOver  BY <2>3 DEF PassIsOver, Ch!EndPass, Ch!chan
  <2>4. CASE PostResponse  BY <1>3, <2>4 DEF PostResponse
  <2>5. CASE FlagAndRestart  BY <1>2, <2>5 DEF FlagAndRestart
  <2>6. CASE HandleResponse
    <3>1. cur = sys  BY <2>6 DEF HandleResponse, Ch!HandlerReturns, ResetInv, SysOK
    <3> QED  BY <2>6, <3>1 DEF HandleResponse, Ch!HandlerReturns, Ch!chan
  <2> QED  BY <1>5, <2>1, <2>2, <2>3, <2>4, <2>5, <2>6 DEF EventUpdate
<1>6. CASE UsbTask
  BY <1>1, <1>6 DEF UsbTask, NoRequest, HostReadsDevice, HostReadsConfiguration,
                    HostConfigures, TerminalComes, TerminalGoes, UsbUpdate, channel
<1>7. CASE ConsoleUpdate
  <2>1. CASE RunReset  BY <1>2, <2>1 DEF RunReset
  <2>2. CASE RunConfigReset  BY <1>3, <2>2 DEF RunConfigReset
  <2>3. CASE \/ NotConnected \/ NothingTaken \/ Store \/ Erase \/ RunOther
             \/ RunTemperature \/ TemperatureShown
    BY <1>1, <2>3 DEF NotConnected, NothingTaken, Store, Erase, RunOther,
                      RunTemperature, TemperatureShown, Echoed, channel
  <2> QED  BY <1>7, <2>1, <2>2, <2>3 DEF ConsoleUpdate
<1>8. CASE Converter \/ HostResetsBus \/ UNCHANGED vars
  BY <1>1, <1>8 DEF Converter, HostResetsBus, vars, channel
<1> QED  BY <1>4, <1>5, <1>6, <1>7, <1>8 DEF Next, Main

(* What will stand behind the prompt when the next byte is taken is an end *)
(* of the line.                                                            *)
LineInv ==
  /\ line \in Seq(Chars) /\ shown \in Seq(Chars)
  /\ terminal => Ends(Prompted, line) /\ (clean => Prompted = line)

LEMMA LineInvInit == Init => SysAlone /\ LineInv
BY DEF Init, Ch!Init, UsbInit, SysAlone, LineInv, Handlers

(* Steps that touch neither the line nor the terminal, but for a prompt to *)
(* come where nobody looks.                                                *)
LEMMA LineInvSame ==
  ASSUME LineInv, UNCHANGED <<line, shown, clean>>, terminal' => terminal,
         needs_prompt' = needs_prompt \/ ~terminal
  PROVE  LineInv'
BY DEF LineInv, Prompted

LEMMA LineInvFresh ==
  ASSUME line' = <<>>, needs_prompt' = TRUE, shown' = <<>>
  PROVE  LineInv'
<1>1. <<>> \in Seq(Chars)  OBVIOUS
<1> QED  BY <1>1, EndsTrivial DEF LineInv, Prompted

LEMMA LineInvTyping ==
  ASSUME LineInv, NothingTaken \/ Store \/ Erase
  PROVE  LineInv'
<1>1. Prompted' = shown' /\ UNCHANGED <<terminal, clean>>
  BY DEF NothingTaken, Store, Erase, Typed, Taking, Echoed, Prompted, usb
<1>2. PICK p \in Seq(Chars) : p = Prompted
  <2>1. <<>> \in Seq(Chars) /\ shown \in Seq(Chars)  BY DEF LineInv
  <2>2. Prompted \in Seq(Chars)
    <3>1. CASE needs_prompt  BY <2>1, <3>1, Zenon DEF Prompted
    <3>2. CASE ~needs_prompt  BY <2>1, <3>2, Zenon DEF Prompted
    <3> QED  BY <3>1, <3>2
  <2> QED  BY <2>2, Zenon
<1>3. CASE NothingTaken
  BY <1>1, <1>2, <1>3 DEF NothingTaken, LineInv
<1>4. CASE Store
  <2>1. PICK c \in Chars : line' = Append(line, c) /\ shown' = Append(p, c)
    BY <1>2, <1>4 DEF Store
  <2>2. line \in Seq(Chars) /\ terminal => Ends(p, line) /\ (clean => p = line)
    BY <1>2 DEF LineInv
  <2>3. line \in Seq(Chars)  BY DEF LineInv
  <2>4. Append(line, c) \in Seq(Chars) /\ Append(p, c) \in Seq(Chars)
    BY <2>3
  <2>5. terminal => Ends(Append(p, c), Append(line, c))
    BY <2>2, <2>3, EndsGrow
  <2> QED  BY <1>1, <2>1, <2>2, <2>3, <2>4, <2>5, Zenon DEF LineInv
<1>5. CASE Erase
  <2>1. line # <<>> /\ line' = Shorter(line) /\ terminal
        /\ shown' = IF p = <<>> THEN <<>> ELSE Shorter(p)
    BY <1>2, <1>5 DEF Erase, Typed
  <2>2. line \in Seq(Chars) /\ Ends(p, line) /\ (clean => p = line)
    BY <1>2, <2>1 DEF LineInv
  <2>3. line' \in Seq(Chars)  BY <2>1, <2>2, ShorterSeq
  <2>4. CASE p = <<>>
    <3>1. shown' = <<>> /\ ~clean  BY <2>1, <2>2, <2>4
    <3>2. shown' \in Seq(Chars) /\ Ends(shown', line')
      BY <2>3, <3>1, EndsTrivial
    <3> QED  BY <1>1, <2>3, <3>1, <3>2 DEF LineInv
  <2>5. CASE p # <<>>
    <3>1. shown' = Shorter(p)  BY <2>1, <2>5
    <3>2. shown' \in Seq(Chars)  BY <2>5, <3>1, ShorterSeq
    <3>3. Ends(shown', line')  BY <2>1, <2>2, <2>5, <3>1, EndsShrink
    <3>4. clean => shown' = line'  BY <2>1, <2>2, <3>1
    <3> QED  BY <1>1, <2>3, <3>2, <3>3, <3>4 DEF LineInv
  <2> QED  BY <2>4, <2>5
<1> QED  BY <1>3, <1>4, <1>5

LEMMA LineInvStep == UsbInv /\ SysAlone /\ LineInv /\ [Next]_vars => LineInv'
<1> SUFFICES ASSUME UsbInv, SysAlone, LineInv, [Next]_vars PROVE LineInv'
  OBVIOUS
<1>1. CASE Restart  BY <1>1, LineInvFresh DEF Restart
<1>2. CASE UNCHANGED vars
  BY <1>2, LineInvSame DEF vars, usb, editor
<1>3. CASE Boot
  <2>1. CASE AvrInit \/ RngInit \/ RngSeeded \/ EventInit \/ CfgInit
    <3>1. UNCHANGED <<usb, editor>>
      BY <2>1, Zenon DEF AvrInit, RngInit, RngSeeded, EventInit, CfgInit
    <3> QED  BY <3>1, LineInvSame DEF usb, editor
  <2>2. CASE ConsoleInit
    <3>1. line' = <<>> /\ needs_prompt' = TRUE /\ UNCHANGED <<terminal, clean, shown>>
      BY <2>2 DEF ConsoleInit, usb
    <3>2. Prompted' = <<>>  BY <3>1 DEF Prompted
    <3>3. <<>> \in Seq(Chars)  OBVIOUS
    <3> QED  BY <3>1, <3>2, <3>3, EndsTrivial DEF LineInv
  <2> QED  BY <1>3, <2>1, <2>2 DEF Boot
<1>4. CASE EventUpdate
  <2>1. CASE FlagAndRestart  BY <1>1, <2>1 DEF FlagAndRestart
  <2>2. CASE HandleResponse
    <3>1. cur # console  BY ConsoleAssumption DEF SysAlone, Handlers
    <3>2. needs_prompt' = (needs_prompt \/ cur = console)
      BY <2>2 DEF HandleResponse
    <3>3. UNCHANGED <<line, shown, clean, terminal>>
      BY <2>2 DEF HandleResponse, usb
    <3>4. Prompted' = Prompted  BY <3>1, <3>2, <3>3 DEF Prompted
    <3> QED  BY <3>3, <3>4 DEF LineInv
  <2>3. CASE PassBegins \/ PassGoesOn \/ PassIsOver \/ PostResponse
    BY <2>3, LineInvSame
       DEF PassBegins, PassGoesOn, PassIsOver, PostResponse, usb, editor
  <2> QED  BY <1>4, <2>1, <2>2, <2>3 DEF EventUpdate
<1>5. CASE UsbTask
  <2>1. CASE TerminalComes
    <3>1. /\ line' = line /\ needs_prompt' = needs_prompt
          /\ shown' = <<>> /\ clean' = (line = <<>>)
      BY <2>1 DEF TerminalComes, UsbUpdate
    <3>2. Prompted' = <<>>  BY <3>1 DEF Prompted
    <3>3. <<>> \in Seq(Chars) /\ line \in Seq(Chars)  BY DEF LineInv
    <3> QED  BY <3>1, <3>2, <3>3, EndsTrivial DEF LineInv
  <2>2. CASE \/ NoRequest \/ HostReadsDevice \/ HostReadsConfiguration
             \/ HostConfigures \/ TerminalGoes
    <3>1. terminal' => terminal
      BY <2>2 DEF NoRequest, HostReadsDevice, HostReadsConfiguration, HostConfigures,
                  TerminalGoes, UsbUpdate, usb, ReadDevice, ReadConfiguration,
                  SetConfiguration, PortClosed, SetLineState
    <3>2. UNCHANGED <<line, shown, clean, needs_prompt>>
      BY <2>2 DEF NoRequest, HostReadsDevice, HostReadsConfiguration, HostConfigures,
                  TerminalGoes, UsbUpdate
    <3> QED  BY <3>1, <3>2, LineInvSame
  <2> QED  BY <1>5, <2>1, <2>2 DEF UsbTask
<1>6. CASE ConsoleUpdate
  <2>1. CASE NotConnected
    <3>1. ~terminal /\ ~terminal'
      BY <2>1 DEF NotConnected, UsbInv, usb
    <3> QED  BY <2>1, <3>1, LineInvSame DEF NotConnected
  <2>2. CASE NothingTaken \/ Store \/ Erase  BY <2>2, LineInvTyping
  <2>3. CASE RunOther \/ RunTemperature \/ RunConfigReset
    BY <2>3, LineInvFresh DEF RunOther, RunTemperature, RunConfigReset, NewLine
  <2>4. CASE TemperatureShown
    BY <2>4, LineInvSame DEF TemperatureShown, usb, editor
  <2>5. CASE RunReset  BY <1>1, <2>5 DEF RunReset
  <2> QED  BY <1>6, <2>1, <2>2, <2>3, <2>4, <2>5 DEF ConsoleUpdate
<1>7. CASE Converter
  BY <1>7, LineInvSame DEF Converter, ConversionEnds, usb, editor
<1>8. CASE HostResetsBus
  BY <1>8, LineInvSame DEF HostResetsBus, BusReset, editor
<1> QED  BY <1>2, <1>3, <1>4, <1>5, <1>6, <1>7, <1>8 DEF Next, Main

(* What the user sees behind the prompt is what Enter will run, however    *)
(* connections, erasing, commands and restarts come after one another.     *)
THEOREM ShownIsLineAlways == Spec => []ShownIsLine
<1>1. Init => UsbInv /\ ResetInv /\ SysAlone /\ LineInv
  BY UsbInvInit, ResetInvInit, LineInvInit
<1>2. (UsbInv /\ ResetInv /\ SysAlone /\ LineInv) /\ [Next]_vars
        => (UsbInv /\ ResetInv /\ SysAlone /\ LineInv)'
  BY UsbInvNext, ResetInvNext, SysAloneStep, LineInvStep
<1>3. LineInv => ShownIsLine
  BY SuffixEnds DEF LineInv, Prompted, ShownIsLine
<1> QED  BY <1>1, <1>2, <1>3, PTL DEF Spec
=============================================================================
