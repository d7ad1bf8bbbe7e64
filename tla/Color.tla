------------------------------- MODULE Color -------------------------------
(***************************************************************************)
(* The colour of a mapping (led/color.c and led/hsv2rgb.c): from hue,      *)
(* saturation and value to the brightness of the red, green and blue lamp. *)
(* fast_hsv2rgb_8bit is there in C and, for the build, in assembly, which  *)
(* computes the same.                                                      *)
(***************************************************************************)
EXTENDS Integers, Sequences, FiniteSets

CONSTANT BcmMax         \* NUM_PWM_FRAMES - 1

ASSUME ColorAssumption == BcmMax \in Nat

HueSteps == 1536        \* HSV_HUE_STEPS
Lamps == {"red", "green", "blue"}

Word(x) == x % 65536
HighByte(x) == (x \div 256) % 256

(* The error corrections of a product, and what is left of v by it.        *)
Corrected(w) == Word(w + w \div 256)
Scaled(v, w) == HighByte(v * (255 - HighByte(Corrected(w))) + v \div 2)

(* The lowest level of a colour, and the one that rises or falls with the  *)
(* hue: up in an even sextant, down in an odd one.                         *)
Bottom(s, v) == HighByte(Corrected(v * (255 - s) + 1))

(* Fault: hues that begin a sextant are not taken apart.                   *)
SlopeAtZeroLost(s, v, sextant, fraction) ==
  IF sextant % 2 = 0
  THEN Scaled(v, s * ((256 - fraction) % 256))
  ELSE Scaled(v, s * fraction)

Slope(s, v, sextant, fraction) ==
  IF sextant % 2 = 0
  THEN Scaled(v, IF fraction = 0 THEN s * 256 ELSE s * (256 - fraction))
  ELSE Scaled(v, s * fraction)

(* Faults: the sextants in which red and green change places.              *)
RolesSwapped(sextant) ==
  CASE sextant = 0 -> <<"green", "red", "blue">>
    [] sextant = 1 -> <<"green", "red", "blue">>
    [] sextant = 2 -> <<"green", "blue", "red">>
    [] sextant = 3 -> <<"blue", "green", "red">>
    [] sextant = 4 -> <<"blue", "red", "green">>
    [] OTHER -> <<"red", "blue", "green">>

(* HSV_POINTER_SWAP: the lamp of the highest level, of the sloping one and *)
(* of the lowest.                                                          *)
Roles(sextant) ==
  CASE sextant = 0 -> <<"red", "green", "blue">>
    [] sextant = 1 -> <<"green", "red", "blue">>
    [] sextant = 2 -> <<"green", "blue", "red">>
    [] sextant = 3 -> <<"blue", "green", "red">>
    [] sextant = 4 -> <<"blue", "red", "green">>
    [] OTHER -> <<"red", "blue", "green">>

(* fast_hsv2rgb_8bit: without saturation all lamps are alike; a hue beyond *)
(* the last sextant counts as that sextant's.                              *)
Linear(h, s, v) ==
  LET sextant == IF h \div 256 > 5 THEN 5 ELSE h \div 256
      roles == Roles(sextant)
      level == <<v, Slope(s, v, sextant, h % 256), Bottom(s, v)>>
  IN  IF s = 0 THEN [lamp \in Lamps |-> v]
      ELSE [lamp \in Lamps |-> level[CHOOSE k \in 1 .. 3 : roles[k] = lamp]]

(* gamma_lut, by the least inputs whose upper five bits are 1, 2, ...      *)
GammaSteps ==
  << 52, 72, 87, 99, 110, 119, 128, 136, 144, 151, 157, 164, 170, 176, 181,
     187, 192, 197, 202, 207, 211, 216, 220, 224, 229, 233, 237, 241, 245,
     248, 252 >>

(* Fault: half a step is added to round, and overflows at the top.         *)
BcmRounded(x) ==
  IF x >= 254 THEN 0 ELSE Cardinality({k \in DOMAIN GammaSteps : x + 2 >= GammaSteps[k]})

Bcm(x) ==
  LET step == Cardinality({k \in DOMAIN GammaSteps : x >= GammaSteps[k]})
  IN  IF step > BcmMax THEN BcmMax ELSE step

(* color_update_vmap_rgb                                                   *)
RgbOf(hsv) ==
  LET lin == Linear(hsv.hue, hsv.saturation, hsv.value)
  IN  [lamp \in Lamps |-> Bcm(lin[lamp])]

(* color_set_vmap_hsv on an existing mapping: the hue is clamped.          *)
SetHsv(h, s, v) ==
  [hue |-> IF h >= HueSteps THEN HueSteps - 1 ELSE h, saturation |-> s, value |-> v]

(* color_set_vmap_rgb_linear: the hue, saturation and value it derives.    *)
(* The quotients are those of unsigned 16-bit words.                       *)
HsvOfLinear(lin) ==
  LET top == CHOOSE x \in {lin[l] : l \in Lamps} : \A l \in Lamps : lin[l] <= x
      low == CHOOSE x \in {lin[l] : l \in Lamps} : \A l \in Lamps : lin[l] >= x
      part(a, b) == Word((lin[a] - lin[b]) * 256) \div (top - low)
      hue == IF lin["red"] = top THEN part("green", "blue") % HueSteps
             ELSE IF lin["green"] = top THEN Word(part("blue", "red") + 512)
             ELSE Word(part("red", "green") + 1024)
  IN  IF top = low THEN [hue |-> 0, saturation |-> 0, value |-> top]
      ELSE [hue |-> hue, saturation |-> (255 * (top - low)) \div top, value |-> top]
=============================================================================
