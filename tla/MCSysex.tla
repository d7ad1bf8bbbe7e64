------------------------------ MODULE MCSysex ------------------------------
(* Messages for TLC: SETs of a detent, a range and a colour, as the packed *)
(* structs of sysex.h lay them out, and messages to be refused.            *)
EXTENDS Sysex

Message(maker, cmd, field, data) ==
  [maker |-> maker, cmd |-> cmd, field |-> field, data |-> data]

SetDetent == Message(Maker, SET, <<0, 0, 1>>, <<1>>)
SetRange == Message(Maker, SET, <<8, 0, 0, 0>>, <<2, 100>>)
(* The colour is three 16-bit numbers in mf_sysex_vmap_param_s.            *)
SetColour == Message(Maker, SET, <<10, 0, 0, 0>>, <<1, 0, 2, 0, 3, 0>>)
(* Of another maker, two bytes of whose identity are ours.                 *)
SetCousin == Message(<<83, 65, 2>>, SET, <<0, 0, 1>>, <<1>>)
SetForeign == Message(<<1, 2, 3>>, SET, <<0, 0, 1>>, <<1>>)
(* A response of ours come back.                                           *)
Echo == Message(Maker, SET_RESPONSE, <<0, 0, 1>>, <<1>>)
BadParam == Message(Maker, SET, <<15, 0, 1>>, <<1>>)

Good == {SetDetent, SetRange}
Mixed == {SetDetent, SetRange, SetForeign, Echo, BadParam}
Colours == {SetDetent, SetColour}
Cousins == {SetDetent, SetCousin}
=============================================================================
