------------------------------- MODULE Sysex -------------------------------
(***************************************************************************)
(* midi/sysex.c with the queues of midi/midi_lufa.c: settings the host     *)
(* changes with system exclusive messages.                                 *)
(*                                                                         *)
(* USB carries a message in packets of three bytes.  midi_update moves the *)
(* packets to MIDI_IN, which drops what does not fit; the handler collects *)
(* them in one buffer, and on the last one checks the buffer, writes the   *)
(* setting it names and posts a reply to MIDI_OUT.                         *)
(*                                                                         *)
(* The host, the USB endpoint and the rest of the loop are external: the   *)
(* host sends messages whose bytes are those of the packed structs of      *)
(* sysex.h, and the encoders fill MIDI_OUT as they like.                   *)
(***************************************************************************)
EXTENDS Integers, Sequences, FiniteSets

CONSTANTS
  NumBanks, NumEncoders, NumVmaps,  \* NUM_ENC_BANKS, NUM_ENCODERS, NUM_VMAPS_PER_ENC
  InSize, OutSize,  \* MIDI_EVENT_QUEUE_SIZE, of MIDI_IN and of MIDI_OUT
  UsbSize,          \* packets the endpoint holds
  Requests,         \* messages the host may send (see RequestType)
  MaxRequests,      \* bound on the messages the host sends
  MaxExtras         \* bound on its other packets

(* MIDI_STATUS_SYSTEM_EXCLUSIVE, MIDI_STATUS_END_OF_EXCLUSIVE, MIDI_MFR_ID *)
Start == 240
End == 247
Maker == <<83, 65, 77>>

(* enum mf_sysex_cmd                                                       *)
GET == 0
GET_RESPONSE == 1
SET == 2
SET_RESPONSE == 3
STOP == 4

(* enum mf_sysex_param: of an encoder, of a mapping, of the device         *)
EncoderParams == 0 .. 7
VmapParams == 8 .. 12
DeviceParams == 13 .. 14

(* sysex_data_info: bytes of the field a parameter is copied to            *)
DataLen ==
  [p \in EncoderParams \cup VmapParams |->
     CASE p \in 0 .. 6 -> 1
       [] p \in {7, 12} -> 4
       [] p \in {8, 9, 11} -> 2
       [] p = 10 -> 3]

(* The fields a message can name: parameter and indices.                   *)
Fields ==
  {<<p, b, e>> : p \in EncoderParams, b \in 0 .. NumBanks - 1, e \in 0 .. NumEncoders - 1}
    \cup {<<p, b, e, v>> : p \in VmapParams, b \in 0 .. NumBanks - 1,
                           e \in 0 .. NumEncoders - 1, v \in 0 .. NumVmaps - 1}

(* sizeof(mf_sysex_msg_s), whose longest parameter is the RGB of a mapping *)
MaxPktSize == 3 + 2 + 9
MinPktSize == 3 + 2

Byte == 0 .. 255
RequestType == [maker : [1 .. 3 -> Byte], cmd : Byte, field : Seq(Byte), data : Seq(Byte)]

ASSUME SysexAssumption ==
  /\ NumBanks \in Nat \ {0} /\ NumEncoders \in Nat \ {0} /\ NumVmaps \in Nat \ {0}
  /\ InSize \in Nat \ {0} /\ OutSize \in Nat \ {0} /\ UsbSize \in Nat \ {0}
  /\ Requests \subseteq RequestType
  /\ MaxRequests \in Nat /\ MaxExtras \in Nat

VARIABLES
  phase,    \* which part of the loop runs
  usb,      \* packets in the endpoint
  in, out,  \* queues of MIDI_IN and MIDI_OUT
  buffer,   \* buffer up to buffer_idx (0 beyond)
  setting,  \* the fields of gENCODERS
  sent,     \* host: the messages it has sent, or is sending
  rest,     \* host: packets of the last message still to go
  extras,   \* host: other packets it may still send
  hurt,     \* history: messages a packet of which was dropped, and those
            \* before which the last packet of the previous one was
  served,   \* history: the last message whose end was taken
  acted,    \* history: the buffer last acted upon
  answered, \* history: messages the host has a reply to
  unheard   \* history: messages whose reply MIDI_OUT or USB did not take

device == <<in, out, buffer, setting>>
hostvars == <<sent, rest, extras>>
history == <<hurt, served, acted, answered, unheard>>
vars == <<phase, usb, device, hostvars, history>>

-----------------------------------------------------------------------------
Init ==
  /\ phase = "receive"
  /\ usb = <<>> /\ in = <<>> /\ out = <<>> /\ buffer = <<>>
  /\ setting = [f \in Fields |-> [i \in 1 .. DataLen[f[1]] |-> 0]]
  /\ sent = <<>> /\ rest = <<>> /\ extras = 0
  /\ hurt = {} /\ served = 0 /\ acted = <<>> /\ answered = {} /\ unheard = {}

-----------------------------------------------------------------------------
(* The host.                                                               *)

Bytes(r) == <<Start>> \o r.maker \o <<r.cmd>> \o r.field \o r.data \o <<End>>

(* A message in packets of three bytes, the last one possibly shorter; of  *)
(* and nth are history, last is the kind of event in the USB packet.       *)
Pieces(m) == (Len(m) + 2) \div 3

Piece(m, k, j) ==
  [kind |-> "sysex", last |-> j = Pieces(m), of |-> k, nth |-> j,
   bytes |-> SubSeq(m, 3 * j - 2, IF j = Pieces(m) THEN Len(m) ELSE 3 * j)]

Cut(m, k) == [j \in 1 .. Pieces(m) |-> Piece(m, k, j)]

HostStarts(r) ==
  /\ rest = <<>> /\ Len(sent) < MaxRequests
  /\ sent' = Append(sent, r)
  /\ rest' = Cut(Bytes(r), Len(sent) + 1)
  /\ UNCHANGED <<phase, usb, device, extras, history>>

HostSends ==
  /\ rest # <<>> /\ Len(usb) < UsbSize
  /\ usb' = Append(usb, Head(rest))
  /\ rest' = Tail(rest)
  /\ UNCHANGED <<phase, device, sent, extras, history>>

(* A controller change between messages, or a packet midi_update does not  *)
(* know (a clock, a note) at any time.                                     *)
HostSendsExtra(kind) ==
  /\ extras < MaxExtras /\ Len(usb) < UsbSize
  /\ kind = "cc" => rest = <<>>
  /\ usb' = Append(usb, [kind |-> kind])
  /\ extras' = extras + 1
  /\ UNCHANGED <<phase, device, sent, rest, history>>

-----------------------------------------------------------------------------
(* midi_update                                                             *)

(* event_post: a queue keeps one slot spare.                               *)
HasRoom(queue, size) == Len(queue) + 1 < size

Received(kind) == phase = "receive" /\ usb # <<>> /\ Head(usb).kind = kind

ReceiveFragment ==
  /\ Received("sysex")
  /\ usb' = Tail(usb)
  /\ LET f == Head(usb)
     IN  IF HasRoom(in, InSize)
           THEN in' = Append(in, f) /\ UNCHANGED hurt
           ELSE /\ hurt' = hurt \cup {f.of} \cup {k \in {f.of + 1} : f.last}
                /\ UNCHANGED in
  /\ UNCHANGED <<phase, out, buffer, setting, hostvars, served, acted, answered,
                 unheard>>

ReceiveController ==
  /\ Received("cc")
  /\ usb' = Tail(usb)
  /\ in' = IF HasRoom(in, InSize) THEN Append(in, Head(usb)) ELSE in
  /\ UNCHANGED <<phase, out, buffer, setting, hostvars, history>>

(* Fault: a packet that ends the loop is left for the next turn.           *)
ReceiveOtherKept ==
  /\ Received("other")
  /\ phase' = "input"
  /\ UNCHANGED <<usb, device, hostvars, history>>

(* Any other packet ends the loop with the rest still in the endpoint.     *)
ReceiveOther ==
  /\ Received("other")
  /\ usb' = Tail(usb)
  /\ phase' = "input"
  /\ UNCHANGED <<device, hostvars, history>>

ReceiveDone ==
  /\ phase = "receive" /\ usb = <<>>
  /\ phase' = "input"
  /\ UNCHANGED <<usb, device, hostvars, history>>

(* input_update, which posts as many messages as the controls call for.    *)
InputPosts(n) ==
  /\ phase = "input"
  /\ n < OutSize
  /\ out' = [i \in 1 .. n |-> [kind |-> "cc"]]
  /\ phase' = "take"
  /\ UNCHANGED <<usb, in, buffer, setting, hostvars, history>>

-----------------------------------------------------------------------------
(* midi_in_handler, called for every event of MIDI_IN                      *)

At(b, i) == IF i <= Len(b) THEN b[i] ELSE 0

Cmd(b) == At(b, 5)
Param(b) == At(b, 6)

Acceptable(b) ==
  /\ Len(b) >= MinPktSize
  /\ b[1] = Start /\ b[Len(b)] = End
  /\ \E i \in 1 .. 3 : At(b, i + 1) = Maker[i]
  /\ Cmd(b) \in {GET, SET, STOP}
  /\ Param(b) \in EncoderParams \cup VmapParams \cup DeviceParams

(* The settings after the message in b.  Nothing is written for a setting  *)
(* of the device.  What a write beyond gENCODERS does is not modelled.     *)
Written(b) ==
  LET n == IF Param(b) \in EncoderParams THEN 3 ELSE 4
      field == [i \in 1 .. n |-> At(b, i + 5)]
  IN  IF field \in Fields
        THEN [setting EXCEPT ![field] =
                [i \in 1 .. DataLen[Param(b)] |-> At(b, i + 5 + n)]]
        ELSE setting

Fragment == Head(in)
Collected == buffer \o Fragment.bytes
TooLong == Len(Collected) > MaxPktSize

Takes(kind) == phase = "take" /\ in # <<>> /\ Fragment.kind = kind

(* No room in the buffer: it is emptied, and the fragment is not kept.     *)
FragmentDropped ==
  /\ Takes("sysex") /\ TooLong
  /\ in' = Tail(in)
  /\ buffer' = <<>>
  /\ served' = IF Fragment.last THEN Fragment.of ELSE served
  /\ UNCHANGED <<phase, usb, out, setting, hostvars, hurt, acted, answered, unheard>>

FragmentKept ==
  /\ Takes("sysex") /\ ~ TooLong /\ ~ Fragment.last
  /\ in' = Tail(in)
  /\ buffer' = Collected
  /\ UNCHANGED <<phase, usb, out, setting, hostvars, history>>

(* Fault: a message that is refused stays in the buffer.                   *)
MessageRefusedUnclean ==
  /\ Takes("sysex") /\ ~ TooLong /\ Fragment.last
  /\ ~ Acceptable(Collected)
  /\ in' = Tail(in)
  /\ buffer' = Collected
  /\ served' = Fragment.of
  /\ UNCHANGED <<phase, usb, out, setting, hostvars, hurt, acted, answered, unheard>>

MessageRefused ==
  /\ Takes("sysex") /\ ~ TooLong /\ Fragment.last
  /\ ~ Acceptable(Collected)
  /\ in' = Tail(in)
  /\ buffer' = <<>>
  /\ served' = Fragment.of
  /\ UNCHANGED <<phase, usb, out, setting, hostvars, hurt, acted, answered, unheard>>

(* The field is written whatever the command; a STOP gets no reply.        *)
MessageTaken ==
  /\ Takes("sysex") /\ ~ TooLong /\ Fragment.last
  /\ Acceptable(Collected)
  /\ in' = Tail(in)
  /\ buffer' = <<>>
  /\ setting' = Written(Collected)
  /\ acted' = Collected
  /\ served' = Fragment.of
  /\ LET k == Fragment.of
         reply == [kind |-> "reply", param |-> Param(Collected), of |-> k,
                   cmd |-> IF Cmd(Collected) = GET THEN GET_RESPONSE ELSE SET_RESPONSE]
     IN  CASE Cmd(Collected) = STOP -> UNCHANGED <<out, unheard>>
           [] Cmd(Collected) # STOP /\ HasRoom(out, OutSize) ->
                out' = Append(out, reply) /\ UNCHANGED unheard
           [] OTHER -> unheard' = unheard \cup {k} /\ UNCHANGED out
  /\ UNCHANGED <<phase, usb, hostvars, hurt, answered>>

ControllerIgnored ==
  /\ Takes("cc")
  /\ in' = Tail(in)
  /\ UNCHANGED <<phase, usb, buffer, out, setting, hostvars, history>>

TakeDone ==
  /\ phase = "take" /\ in = <<>>
  /\ phase' = "send"
  /\ UNCHANGED <<usb, device, hostvars, history>>

TakeNext ==
  \/ FragmentDropped \/ FragmentKept \/ MessageRefused \/ MessageTaken
  \/ ControllerIgnored \/ TakeDone

-----------------------------------------------------------------------------
(* midi_out_handler                                                        *)

SendController ==
  /\ phase = "send" /\ out # <<>> /\ Head(out).kind = "cc"
  /\ out' = Tail(out)
  /\ UNCHANGED <<phase, usb, in, buffer, setting, hostvars, history>>

(* The reply goes to USB in several packets, and nobody looks at what      *)
(* becomes of any of them: it reaches the host, or is lost for good.       *)
SendReply ==
  /\ phase = "send" /\ out # <<>> /\ Head(out).kind = "reply"
  /\ out' = Tail(out)
  /\ \/ answered' = answered \cup {Head(out).of} /\ UNCHANGED unheard
     \/ unheard' = unheard \cup {Head(out).of} /\ UNCHANGED answered
  /\ UNCHANGED <<phase, usb, in, buffer, setting, hostvars, hurt, served, acted>>

SendDone ==
  /\ phase = "send" /\ out = <<>>
  /\ phase' = "receive"
  /\ UNCHANGED <<usb, device, hostvars, history>>

-----------------------------------------------------------------------------
Device ==
  \/ ReceiveFragment \/ ReceiveController \/ ReceiveOther \/ ReceiveDone
  \/ \E n \in 0 .. OutSize - 1 : InputPosts(n)
  \/ TakeNext
  \/ SendController \/ SendReply \/ SendDone

Host ==
  \/ \E r \in Requests : HostStarts(r)
  \/ HostSends
  \/ \E kind \in {"cc", "other"} : HostSendsExtra(kind)

Next == Device \/ Host

Spec == Init /\ [][Next]_vars

(* The main loop never waits for the host.                                 *)
FairSpec == Spec /\ WF_vars(Device)

-----------------------------------------------------------------------------
(* Properties                                                              *)

(* The queues and the buffer keep within their arrays, whatever the host   *)
(* sends and whatever is lost on the way (sysex.c:121 guards the buffer).  *)
TypeOK ==
  /\ phase \in {"receive", "input", "take", "send"}
  /\ Len(usb) <= UsbSize /\ Len(in) < InSize /\ Len(out) < OutSize
  /\ buffer \in Seq(Byte) /\ Len(buffer) <= MaxPktSize
  /\ \A f \in Fields : setting[f] \in [1 .. DataLen[f[1]] -> Byte]
  /\ hurt \subseteq 1 .. Len(sent) + 1
  /\ answered \cup unheard \subseteq 1 .. Len(sent) /\ served \in 0 .. Len(sent)

(* What a message asks for: a SET from the maker of the device gives one   *)
(* field its data; anything else changes nothing.                          *)
Asks(r) == r.maker = Maker /\ r.cmd = SET /\ r.field \in Fields

Promise(r, s) == IF Asks(r) THEN [s EXCEPT ![r.field] = r.data] ELSE s

(* A message that reaches MIDI_IN whole, after the end of the one before   *)
(* it did, changes the settings as it asks, at its last packet and not     *)
(* before, no matter what happened to earlier messages: nothing an earlier *)
(* message left in the buffer can corrupt it (the cleanup of sysex.c).     *)
TakenAsSent ==
  [][Takes("sysex") /\ in' # in /\ Fragment.of \notin hurt =>
       setting' = IF Fragment.last THEN Promise(sent[Fragment.of], setting)
                                   ELSE setting]_vars

(* The device serves the messages of the host in their order, each once    *)
(* and as a whole, and passes over none all of whose packets reached       *)
(* MIDI_IN, wherever the others were lost and the turns of the loop fell.  *)
Server == INSTANCE SettingServer WITH
  requested <- sent, lost <- hurt, Writing <- {r \in Requests : Asks(r)}

ServerSpec == Server!Spec

(* Every SET the host has sent to the end is answered, unless MIDI_IN had  *)
(* no room for one of its packets, MIDI_OUT none for the reply, or USB     *)
(* refused the reply, which is never sent again: a lost packet costs at    *)
(* most its own message and the next, and a packet that ends the receive   *)
(* loop early costs nothing but time.                                      *)
EventuallyAnswered ==
  \A k \in 1 .. MaxRequests :
    (/\ k <= Len(sent) /\ Asks(sent[k])
     /\ k < Len(sent) \/ rest = <<>>)
      ~> k \in answered \cup hurt \cup unheard

(* sysex.c:161: "Validate the manufacturer ID is correct (SAM)".           *)
OwnMessagesOnly == acted # <<>> => SubSeq(acted, 2, 4) = Maker

(* sysex.c:148: "Check the expected length based on the parameter enum     *)
(* data length".                                                           *)
LengthChecked ==
  acted # <<>> /\ Param(acted) \in DOMAIN DataLen =>
    Len(acted) = 2 + MinPktSize + DataLen[Param(acted)]
                   + (IF Param(acted) \in EncoderParams THEN 2 ELSE 3)
=============================================================================
