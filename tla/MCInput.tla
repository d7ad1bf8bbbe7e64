------------------------------ MODULE MCInput ------------------------------
(* Small panels for TLC.                                                   *)
EXTENDS Input, TLC

(* Mappings.                                                               *)
Silent == [mode |-> "NONE", cc |-> 0, lower |-> 0, upper |-> 1,
           start |-> 0, stop |-> EncMax]
Coarse(n) == [mode |-> "CC", cc |-> n, lower |-> 0, upper |-> CCMax,
              start |-> 0, stop |-> EncMax]
Part(n) == [mode |-> "CC", cc |-> n, lower |-> 1, upper |-> 2,
            start |-> 0, stop |-> 1]
Mute(n) == [Part(n) EXCEPT !.mode = "MUTE"]
Fine(n) == [mode |-> "CC_14", cc |-> n, lower |-> 0, upper |-> 3,
            start |-> 0, stop |-> EncMax]

(* The side switches, sw_side_switch_init, without those of mode NONE.     *)
HoldPrevNext == 0 :> "ALL_VMAP_HOLD" @@ 1 :> "BANK_PREV" @@ 2 :> "BANK_NEXT"
CycleOnly == 0 :> "ALL_VMAP_CYCLE"
HoldAndNext == 0 :> "ALL_VMAP_HOLD" @@ 1 :> "BANK_NEXT"
NextOnly == 0 :> "BANK_NEXT"
NoSides == <<>>

(* The encoders' switches and the way their mappings move: the two banks   *)
(* of a panel differ.                                                      *)
AllCycle == [be \in BankEnc |-> "VMAP_CYCLE"]
CycleInFirst == [be \in BankEnc |-> IF be[1] = 0 THEN "VMAP_CYCLE" ELSE "NONE"]
ResetOnPress == [be \in BankEnc |-> "RESET_ON_PRESS"]
NoSwitches == [be \in BankEnc |-> "NONE"]
AllToggle == [be \in BankEnc |-> "TOGGLE"]
AllOverlay == [be \in BankEnc |-> "OVERLAY"]
OverlayInSecond == [be \in BankEnc |-> IF be[1] = 0 THEN "TOGGLE" ELSE "OVERLAY"]

NoMidi == [vm \in Vmap |-> Silent]
SecondSends == [vm \in Vmap |-> IF vm[1] = 1 THEN Coarse(vm[3]) ELSE Silent]
PerEncoder == [vm \in Vmap |-> Coarse(vm[2])]
PartPerEncoder == [vm \in Vmap |-> Part(vm[2])]
FinePartMute == [vm \in Vmap |-> IF vm[3] = 0 THEN Fine(0)
                                 ELSE IF vm[3] = 1 THEN Part(1) ELSE Mute(1)]

FromZero == [vm \in Vmap |-> 0]
AllFirst == [be \in BankEnc |-> 0]
FlashInTurn == [b \in Bank |-> (NumEncoders - 1 - b) % NumEncoders]

NoHost == {}
HostOn0 == [cc : {0}, value : {0, CCMax}]
HostInRange == [cc : {0}, value : {0, CCMax}] \cup [cc : {1}, value : {1, 2}]
=============================================================================
