------------------------------ MODULE MCPanel ------------------------------
(***************************************************************************)
(* The controls of the panel for TLC: the arithmetic of an encoder, the    *)
(* decoder behind its shaft, the clock behind its acceleration, and the    *)
(* switches.  They share no state, so that each behaviour looks at one of  *)
(* them, as subject says; the others stay as they begin.                   *)
(***************************************************************************)
EXTENDS EncoderCheck, Quadrature, SysTime, Debounce

(* Thresholds in proportion to a clock of sixteen values.                  *)
ShortThresholds == <<1, 2, 5, 9>>

EncoderAtRest ==
  /\ subject \in {"shaft", "clock", "switches"}
  /\ map = Whole /\ pos = 0 /\ turned = FALSE
  /\ ring = Plain /\ hsv = Black /\ ccb = 32

PanelInit ==
  /\ Init \/ EncoderAtRest
  /\ DecoderInit /\ (subject # "shaft" => origin = 0)
  /\ ClockInit
  /\ SwitchInit

PanelNext ==
  \/ Next /\ UNCHANGED <<decodervars, clockvars, switchvars>>
  \/ /\ subject = "shaft"
     /\ DecoderNext
     /\ UNCHANGED <<vars, clockvars, switchvars>>
  \/ /\ subject = "clock"
     /\ ClockNext
     /\ UNCHANGED <<vars, decodervars, switchvars>>
  \/ /\ subject = "switches"
     /\ SwitchNext
     /\ UNCHANGED <<vars, decodervars, clockvars>>

PanelSpec ==
  PanelInit /\ [][PanelNext]_<<vars, decodervars, clockvars, switchvars>>
=============================================================================
