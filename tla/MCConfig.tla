------------------------------ MODULE MCConfig ------------------------------
(* Three settings for TLC: the active mapping of an encoder, which its     *)
(* switch changes, another plain setting, and the MIDI configuration of a  *)
(* mapping.                                                                *)
EXTENDS Config

(* Controller 1 on channel 0, as sw_encoder_init numbers them.             *)
DefaultProto == [type |-> PROTOCOL_MIDI, mode |-> 1, channel |-> 0, raw |-> 1]
OtherProto == [type |-> PROTOCOL_MIDI, mode |-> 1, channel |-> 2, raw |-> 20]

KindOf == <<"plain", "plain", "proto">>
DefaultOf == <<1, 1, DefaultProto>>
ChoicesOf == <<{1, 2}, {1, 2}, {DefaultProto, OtherProto, NoProto}>>
SwitchSettings == {1}
=============================================================================
