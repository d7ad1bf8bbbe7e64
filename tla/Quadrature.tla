----------------------------- MODULE Quadrature -----------------------------
(***************************************************************************)
(* encoder/quadrature.c: the half-step decoder of one rotary encoder.      *)
(*                                                                         *)
(* The shaft passes four positions per detent cycle; at each the channels  *)
(* A and B have another two-bit code.  hw_encoder_scan samples the codes   *)
(* once per turn of the main loop and steps the decoder.  The shaft moves  *)
(* whenever it likes, so that a scan may find it some edges further than   *)
(* the last one did.                                                       *)
(***************************************************************************)
EXTENDS Integers

CONSTANTS
  MaxEdges,   \* edges the shaft passes at most between two scans
  Reach       \* bound on the way of the shaft, in edges

ASSUME QuadratureAssumption == MaxEdges \in Nat /\ Reach \in Nat

VARIABLES
  rot,        \* ctx->rot & 0x0F
  dir,        \* quadrature_direction(ctx)
  shaft,      \* where the shaft is, in edges clockwise
  scanned,    \* where the last scan found it
  origin,     \* history: where the first scan found it
  steps       \* history: the directions reported so far, added up

decodervars == <<rot, dir, shaft, scanned, origin, steps>>

States == {"START", "CCW", "CW", "MIDDLE", "MID_CW", "MID_CCW"}

(* (ch_b << 1) | ch_a at each position: 3, 1, 0, 2 clockwise.              *)
Code(position) ==
  CASE position % 4 = 0 -> 3
    [] position % 4 = 1 -> 1
    [] position % 4 = 2 -> 0
    [] OTHER -> 2

(* Fault: both ways into the start position count as clockwise.            *)
QuadStatesOneWay(state, code) ==
  CASE code = 3 -> IF state \in {"MID_CW", "MID_CCW"}
                   THEN <<"START", 1>> ELSE <<"START", 0>>
    [] code = 0 -> CASE state = "CCW" -> <<"MIDDLE", -1>>
                     [] state = "CW" -> <<"MIDDLE", 1>>
                     [] OTHER -> <<"MIDDLE", 0>>
    [] code = 1 -> CASE state \in {"START", "CW"} -> <<"CW", 0>>
                     [] state = "CCW" -> <<"START", 0>>
                     [] state = "MID_CW" -> <<"MIDDLE", 0>>
                     [] OTHER -> <<"MID_CCW", 0>>
    [] code = 2 -> CASE state \in {"START", "CCW"} -> <<"CCW", 0>>
                     [] state = "CW" -> <<"START", 0>>
                     [] state = "MID_CCW" -> <<"MIDDLE", 0>>
                     [] OTHER -> <<"MID_CW", 0>>

(* quad_states: the next state and the direction reported, by the code.    *)
QuadStates(state, code) ==
  CASE code = 3 -> CASE state = "MID_CW" -> <<"START", 1>>
                     [] state = "MID_CCW" -> <<"START", -1>>
                     [] OTHER -> <<"START", 0>>
    [] code = 0 -> CASE state = "CCW" -> <<"MIDDLE", -1>>
                     [] state = "CW" -> <<"MIDDLE", 1>>
                     [] OTHER -> <<"MIDDLE", 0>>
    [] code = 1 -> CASE state \in {"START", "CW"} -> <<"CW", 0>>
                     [] state = "CCW" -> <<"START", 0>>
                     [] state = "MID_CW" -> <<"MIDDLE", 0>>
                     [] OTHER -> <<"MID_CCW", 0>>
    [] code = 2 -> CASE state \in {"START", "CCW"} -> <<"CCW", 0>>
                     [] state = "CW" -> <<"START", 0>>
                     [] state = "MID_CCW" -> <<"MIDDLE", 0>>
                     [] OTHER -> <<"MID_CW", 0>>

-----------------------------------------------------------------------------
(* hw_encoder_init starts the decoder at START wherever the shaft is; the  *)
(* state shown here is the one after the first scan.                       *)
DecoderInit ==
  /\ origin \in 0 .. 3
  /\ shaft = origin /\ scanned = origin
  /\ rot = QuadStates("START", Code(origin))[1]
  /\ dir = 0 /\ steps = 0

(* The shaft passes an edge, a bounce of the contact included.             *)
PassEdge(d) ==
  /\ shaft + d \in -Reach .. Reach
  /\ shaft + d - scanned \in -MaxEdges .. MaxEdges
  /\ shaft' = shaft + d
  /\ UNCHANGED <<rot, dir, scanned, origin, steps>>

(* Fault: the direction stays when the state does.                         *)
ScanReportsTwice ==
  LET new == QuadStates(rot, Code(shaft)) IN
  /\ rot' = new[1]
  /\ dir' = IF new[2] = 0 /\ new[1] = rot THEN dir ELSE new[2]
  /\ steps' = steps + dir'
  /\ scanned' = shaft
  /\ UNCHANGED <<shaft, origin>>

(* quadrature_update, from hw_encoder_scan                                 *)
Scan ==
  LET new == QuadStates(rot, Code(shaft)) IN
  /\ rot' = new[1]
  /\ dir' = new[2]
  /\ steps' = steps + new[2]
  /\ scanned' = shaft
  /\ UNCHANGED <<shaft, origin>>

DecoderNext == PassEdge(1) \/ PassEdge(-1) \/ Scan

DecoderSpec == DecoderInit /\ [][DecoderNext]_decodervars
-----------------------------------------------------------------------------
(* Every variable stays in its type.                                       *)
DecoderTypeOK ==
  /\ rot \in States
  /\ dir \in {-1, 0, 1}
  /\ shaft \in Int /\ scanned \in Int /\ steps \in Int
  /\ origin \in 0 .. 3
  /\ shaft - scanned \in -MaxEdges .. MaxEdges

(* While no scan misses an edge, the steps reported never drift from the   *)
(* way of the shaft, two edges to a step, however it turns to and fro.     *)
NoDrift == scanned - origin - 2 * steps \in -2 .. 2

(* A step is reported only by a scan that finds the shaft further on in    *)
(* its direction, so never by an encoder at rest.                          *)
StepsFollowShaft ==
  [][ /\ steps' > steps => scanned' > scanned
      /\ steps' < steps => scanned' < scanned ]_decodervars
=============================================================================
