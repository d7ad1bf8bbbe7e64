-------------------------------- MODULE Led --------------------------------
(***************************************************************************)
(* mf_draw_encoder (led/led.c): the lamps of one encoder that are lit in   *)
(* each of the frames the interrupt sends in turn.  A lamp lit in n of the *)
(* NumFrames frames is seen at brightness n.                               *)
(*                                                                         *)
(* The ring has the indicators 1 .. 11.  A frame is the set of lamps that  *)
(* are lit, the word of the frame buffer before it is inverted.            *)
(***************************************************************************)
EXTENDS Virtmap, FiniteSets

CONSTANT NumFrames      \* NUM_PWM_FRAMES

ASSUME LedAssumption == NumFrames \in Nat \ {0}

NumIndicators == 11
Centre == 6
Middle == EncMax \div 2
Indicators == 1 .. NumIndicators
Frames == 0 .. NumFrames - 1

DisplayModes == {"SINGLE", "MULTI", "MULTI_PWM"}

(* Fault: the plain quotient.                                              *)
LeadingIndicatorFloor(pos) == Clamp((pos * NumIndicators) \div EncMax, 1, NumIndicators)

(* led_index: the indicator a position has come to.                        *)
LeadingIndicator(pos) ==
  IF pos = 0 THEN 1
  ELSE IF pos >= EncMax THEN NumIndicators
  ELSE (pos * NumIndicators + EncMax - 1) \div EncMax

(* Fault: the share is not taken of the leading indicator alone.           *)
LeadingBrightnessOfRing(pos) ==
  IF pos = EncMax THEN NumFrames - 1
  ELSE Clamp((pos * NumFrames) \div EncMax, 0, NumFrames - 1)

(* pwm_brightness: how far the position has come within it.                *)
LeadingBrightness(pos) ==
  LET scaled == (pos * NumIndicators * 256) \div EncMax
      within == scaled - (LeadingIndicator(pos) - 1) * 256
  IN  IF pos = EncMax THEN NumFrames - 1
      ELSE IF pos = 0 \/ within < 0 THEN 0
      ELSE Clamp((within * NumFrames) \div 256, 0, NumFrames - 1)

(* BAR_GRAPH_MASKS and CENTER_OUT_MASKS                                    *)
Bar(i) == 1 .. i
CentreOut(i) == IF i < Centre THEN i .. (Centre - 1) ELSE (Centre + 1) .. i

(* base_indicator_state: with a detent the centre is lit but in the middle.*)
Pattern(mode, detent, pos) ==
  LET i == LeadingIndicator(pos)
      base == IF mode = "SINGLE" THEN {i}
              ELSE IF detent THEN CentreOut(i) ELSE Bar(i)
  IN  IF ~detent THEN base
      ELSE IF pos = Middle THEN base \ {Centre} ELSE base \cup {Centre}

(* apply_pwm_dimming                                                       *)
Dims(mode, detent, pos) ==
  mode = "MULTI_PWM"
    /\ ~(detent /\ pos # Middle /\ LeadingIndicator(pos) = Centre)

(* Fault: the left half of a detent is dimmed like the right one.          *)
DimsFromUnturned(detent, pos) == LeadingBrightness(pos)

(* effective_pwm_brightness: left of a detent the ring grows to the left.  *)
DimsFrom(detent, pos) ==
  IF detent /\ LeadingIndicator(pos) < Centre
  THEN NumFrames - 1 - LeadingBrightness(pos) ELSE LeadingBrightness(pos)

Ring(mode, detent, pos, f) ==
  Pattern(mode, detent, pos) \
    (IF Dims(mode, detent, pos) /\ f >= DimsFrom(detent, pos)
     THEN {LeadingIndicator(pos)} ELSE {})

(* The lamps of the colour, and those of the detent when it is reached.    *)
Coloured(rgb, f) == {lamp \in DOMAIN rgb : rgb[lamp] > f}

DetentLamps(rb, detent, pos, f) ==
  IF detent /\ pos = Middle THEN Coloured(rb, f) ELSE {}

(* mf_draw_encoder: an unknown display mode draws nothing.                 *)
MfDrawEncoder(old, mode, detent, pos, rgb, rb) ==
  IF mode \notin DisplayModes THEN old
  ELSE [f \in Frames |->
         Ring(mode, detent, pos, f) \cup Coloured(rgb, f)
           \cup DetentLamps(rb, detent, pos, f)]

(* TCD0_CCB_vect: the tick of the timer at which the next frame is sent.   *)
NextCompare(ccb) == (ccb + 32) % 255
=============================================================================
