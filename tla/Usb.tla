-------------------------------- MODULE Usb --------------------------------
(***************************************************************************)
(* usb/usb_lufa.c: the descriptors a host reads, the endpoints the drivers *)
(* of MIDI and of the virtual serial port open, and the callbacks of the   *)
(* USB stack.  The stack and the host are external: the host enumerates,   *)
(* opens the pipes the descriptors name, and asserts DTR while a program   *)
(* has the port open.                                                      *)
(***************************************************************************)
EXTENDS Naturals, FiniteSets

CONSTANT NoDescriptor

VARIABLES
  usb_state,     \* USB_DeviceState
  read_device,   \* what the host got for the device descriptor ...
  read_config,   \* ... and for the configuration descriptor
  opened,        \* endpoints the device answers at
  terminal,      \* a program has the port open on this connection
  vser_active    \* the last line state had DTR

usb == <<usb_state, read_device, read_config, opened, terminal, vser_active>>

-----------------------------------------------------------------------------
(* Fault: MIDI comes first, as in a build without the console.             *)
MidiFirst == [MIDI_AC |-> 0, MIDI_AS |-> 1, CCI |-> 2, CDI |-> 3]

(* enum usb_interface and enum usb_endpoint, with the console built in.    *)
Interface == [CCI |-> 0, CDI |-> 1, MIDI_AC |-> 2, MIDI_AS |-> 3]

EndpointNumber ==
  [MIDI_IN |-> 1, MIDI_OUT |-> 2, CDC_NOTIFICATION |-> 3, CDC_IN |-> 4, CDC_OUT |-> 5]

MaxEndpointIndex == 5   \* MAX_ENDPOINT_INDEX

In(number, size) == [number |-> number, dir |-> "in", size |-> size]
Out(number, size) == [number |-> number, dir |-> "out", size |-> size]

(* The endpoints in the two drivers.                                       *)
MidiEndpoints == {In(EndpointNumber.MIDI_IN, 64), Out(EndpointNumber.MIDI_OUT, 64)}
CdcEndpoints ==
  {In(EndpointNumber.CDC_NOTIFICATION, 8), In(EndpointNumber.CDC_IN, 16),
   Out(EndpointNumber.CDC_OUT, 16)}

(* The driver of the serial port takes the requests to this interface.     *)
ControlInterfaceNumber == 0

-----------------------------------------------------------------------------
(* The descriptors: which endpoints belong to which interface.             *)
desc_device ==
  [configurations |-> 1, endpoint0 |-> 64, strings |-> {"manufacturer", "product"}]

MidiInterfaces ==
  { [number |-> Interface.MIDI_AC, class |-> "audio control", endpoints |-> {}],
    [number |-> Interface.MIDI_AS, class |-> "MIDI streaming",
     endpoints |-> {Out(EndpointNumber.MIDI_OUT, 64), In(EndpointNumber.MIDI_IN, 64)}] }

CdcInterfaces ==
  { [number |-> Interface.CCI, class |-> "CDC",
     endpoints |-> {In(EndpointNumber.CDC_NOTIFICATION, 8)}],
    [number |-> Interface.CDI, class |-> "CDC data",
     endpoints |-> {Out(EndpointNumber.CDC_OUT, 16), In(EndpointNumber.CDC_IN, 16)}] }

desc_cfg == [total |-> Cardinality(DOMAIN Interface),
             interfaces |-> MidiInterfaces \cup CdcInterfaces]

desc_strings == {"language", "manufacturer", "product", "serial"}

CALLBACK_USB_GetDescriptor(wanted) ==
  CASE wanted = "device" -> desc_device
    [] wanted = "configuration" -> desc_cfg
    [] wanted \in desc_strings -> [string |-> wanted]
    [] OTHER -> NoDescriptor

-----------------------------------------------------------------------------
UsbInit ==
  /\ usb_state = "default"
  /\ read_device = NoDescriptor /\ read_config = NoDescriptor
  /\ opened = {} /\ terminal = FALSE
  /\ vser_active = FALSE

(* The device as its own restart leaves it.                                *)
UsbRestart ==
  /\ usb_state' = "default"
  /\ read_device' = NoDescriptor /\ read_config' = NoDescriptor
  /\ opened' = {} /\ terminal' = FALSE
  /\ vser_active' = FALSE

(* The host resets the bus, in an interrupt.  The callbacks for connection *)
(* and disconnection are empty.                                            *)
BusReset ==
  /\ usb_state' = "default"
  /\ read_device' = NoDescriptor /\ read_config' = NoDescriptor
  /\ opened' = {} /\ terminal' = FALSE
  /\ UNCHANGED vser_active

(* USB_USBTask answers one control request.                                *)
ReadDevice ==
  /\ usb_state = "default"
  /\ read_device' = CALLBACK_USB_GetDescriptor("device")
  /\ usb_state' = "addressed"
  /\ UNCHANGED <<read_config, opened, terminal, vser_active>>

(* The host gives up on a device that does not have every string it names. *)
ReadConfiguration ==
  /\ usb_state = "addressed" /\ read_config = NoDescriptor
  /\ \A s \in {"language"} \cup read_device.strings :
       CALLBACK_USB_GetDescriptor(s) # NoDescriptor
  /\ read_config' = CALLBACK_USB_GetDescriptor("configuration")
  /\ UNCHANGED <<usb_state, read_device, opened, terminal, vser_active>>

(* EVENT_USB_Device_ConfigurationChanged: each driver opens its endpoints, *)
(* those that the stack has a buffer for.                                  *)
SetConfiguration ==
  /\ usb_state = "addressed" /\ read_config # NoDescriptor
  /\ usb_state' = "configured"
  /\ opened' = {e \in MidiEndpoints \cup CdcEndpoints : e.number <= MaxEndpointIndex}
  /\ UNCHANGED <<read_device, read_config, terminal, vser_active>>

(* EVENT_USB_Device_ControlRequest and, from the driver it is meant for,   *)
(* EVENT_CDC_Device_ControLineStateChanged.                                *)
SetLineState(interface, dtr) ==
  /\ usb_state = "configured"
  /\ terminal' = dtr
  /\ vser_active' = IF interface = ControlInterfaceNumber THEN dtr ELSE vser_active
  /\ UNCHANGED <<usb_state, read_device, read_config, opened>>

(* The host addresses the interface that the configuration calls CDC.      *)
PortOpened ==
  /\ ~terminal
  /\ usb_state = "configured"
  /\ \E i \in read_config.interfaces : i.class = "CDC" /\ SetLineState(i.number, TRUE)

PortClosed ==
  /\ terminal
  /\ \E i \in read_config.interfaces : i.class = "CDC" /\ SetLineState(i.number, FALSE)

(* console_puts, println: what is written has a reader.                    *)
Delivered == vser_active /\ terminal

-----------------------------------------------------------------------------
(* Every pipe of the configuration the host has chosen is one the device   *)
(* answers at, in the same direction and with the same size; no two share  *)
(* an address, and the interfaces are numbered without a gap.  The         *)
(* descriptors, the drivers and the stack's limit say this in four files.  *)
PipesMeet ==
  usb_state = "configured" =>
    /\ UNION {i.endpoints : i \in read_config.interfaces} = opened
    /\ \A e, f \in opened : e.number = f.number => e = f
    /\ {i.number : i \in read_config.interfaces} = 0 .. read_config.total - 1

(* While a program has the port open the device knows it: the request it   *)
(* makes to the interface described is one the driver of the port takes.   *)
TerminalIsSeen == terminal => vser_active

(* The device is what its descriptors tell the host, through any sequence  *)
(* of bus resets and enumerations.                                         *)
DeviceAsDescribed == PipesMeet /\ TerminalIsSeen

(* What usb_lufa.c says of usb_cdc_is_active, "DTR asserted".              *)
ActiveIsAsserted == vser_active => terminal

(* usb_lufa.h of USB_EP_NB, which is one more than the last endpoint:      *)
(* "must be less than 5".  Even if that were meant of the endpoints        *)
(* themselves, none in use may have number 5.                              *)
EndpointsBelowFive == \A e \in opened : e.number < 5
=============================================================================
