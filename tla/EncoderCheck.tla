---------------------------- MODULE EncoderCheck ----------------------------
(***************************************************************************)
(* The arithmetic behind one encoder on the real widths: what its position *)
(* sends (Virtmap), what its ring shows (Led) and which colour it has      *)
(* (Color).  A state is one mapping with one position, one ring, one       *)
(* colour, or one compare value of the timer that paces the frames.        *)
(***************************************************************************)
EXTENDS Led, Color, TLC

CONSTANTS
  Bounds,     \* value-range bounds to combine
  Stops,      \* position-range bounds to combine
  Levels,     \* saturations and values to combine
  HueStride   \* step between two hues

(* The product of convert_range_i16 fits its 16 bits: 255 * 127 does.  A   *)
(* lamp has at most as many levels as gamma_lut, and an indicator not more *)
(* than pwm_brightness, which counts in 256ths, can tell apart.            *)
ASSUME EncoderCheckAssumption ==
  /\ Bounds \subseteq 0 .. CCMax /\ Stops \subseteq 0 .. EncMax
  /\ EncMax * CCMax <= 32767
  /\ Levels \subseteq 0 .. 255 /\ HueStride \in Nat
  /\ BcmMax <= Len(GammaSteps) /\ NumFrames <= 256

VARIABLES
  subject,    \* what is looked at
  map,        \* the mapping
  pos,        \* its curr_pos
  turned,     \* whether a turn has brought it there
  ring,       \* display mode and detent of the encoder
  hsv,        \* the colour of the mapping
  ccb         \* compare value of the LED timer

vars == <<subject, map, pos, turned, ring, hsv, ccb>>

Mapping ==
  {m \in [mode : {"CC"}, cc : {0}, lower : Bounds, upper : Bounds,
          start : Stops, stop : Stops] :
     m.lower # m.upper /\ m.start < m.stop}

Whole == [mode |-> "CC", cc |-> 0, lower |-> 0, upper |-> CCMax,
          start |-> 0, stop |-> EncMax]
Ringed == [mode : DisplayModes, detent : BOOLEAN]
Plain == [mode |-> "SINGLE", detent |-> FALSE]
Black == [hue |-> 0, saturation |-> 0, value |-> 0]

Init ==
  /\ turned = FALSE /\ ccb = 32
  /\ \/ /\ subject = "mapping"
        /\ map \in Mapping /\ pos = map.start
        /\ ring = Plain /\ hsv = Black
     \/ /\ subject = "ring"
        /\ map = Whole /\ pos = 0
        /\ ring \in Ringed /\ hsv = Black
     \/ /\ subject = "colour"
        /\ map = Whole /\ pos = 0
        /\ ring = Plain
        /\ hsv \in [hue : {0}, saturation : Levels, value : Levels]
     \/ /\ subject = "frame"
        /\ map = Whole /\ pos = 0
        /\ ring = Plain /\ hsv = Black

(* One scan with the encoder turning clockwise or back.                    *)
Turn ==
  /\ subject \in {"mapping", "ring"}
  /\ \E velocity \in {-7, -1, 1, 7} :
       /\ TakesPosition(map, pos, NewPosition(map, pos, velocity))
       /\ pos' = NewPosition(map, pos, velocity)
  /\ turned' = TRUE
  /\ UNCHANGED <<subject, map, ring, hsv, ccb>>

(* A controller change from the host with a value of the mapping's range.  *)
Host ==
  /\ subject = "mapping"
  /\ \E value \in 0 .. CCMax :
       /\ value >= map.lower /\ value <= map.upper
       /\ pos' = HostPosition(map, value)
  /\ turned' = FALSE
  /\ UNCHANGED <<subject, map, ring, hsv, ccb>>

(* Colours set over the console or by sysex: the next hue, past the last   *)
(* one too ...                                                             *)
NextHue ==
  /\ subject = "colour"
  /\ hsv' = SetHsv(hsv.hue + HueStride, hsv.saturation, hsv.value)
  /\ UNCHANGED <<subject, map, pos, turned, ring, ccb>>

(* ... or a brighter one.                                                  *)
Brighten ==
  /\ subject = "colour"
  /\ \E v \in Levels :
       /\ v > hsv.value
       /\ hsv' = SetHsv(hsv.hue, hsv.saturation, v)
  /\ UNCHANGED <<subject, map, pos, turned, ring, ccb>>

(* The interrupt of the LED timer.                                         *)
Compare ==
  /\ subject = "frame" /\ ccb <= 255
  /\ ccb' = NextCompare(ccb)
  /\ UNCHANGED <<subject, map, pos, turned, ring, hsv>>

(* The colour is set as red, green and blue (a function nothing calls).    *)
SetLinear ==
  /\ subject = "colour"
  /\ hsv' \in {HsvOfLinear([red |-> r, green |-> g, blue |-> b]) :
                 r \in Levels, g \in Levels, b \in Levels}
  /\ UNCHANGED <<subject, map, pos, turned, ring, ccb>>

Next == Turn \/ Host \/ NextHue \/ Brighten \/ Compare

Spec == Init /\ [][Next]_vars

(* The same with the function nothing calls.                               *)
LinearSpec == Init /\ [][Next \/ SetLinear]_vars

-----------------------------------------------------------------------------
Straight == map.lower < map.upper

(* A turn never leaves the position range, and the value it sends is in    *)
(* the value range, with both ends reached (virtmap.h: "will output the    *)
(* value 1000 at the position.start point").                               *)
ValueInRange ==
  /\ InRange(pos, map.start, map.stop)
  /\ Straight =>
       /\ InRange(MidiValue(map, pos), map.lower, map.upper)
       /\ pos = map.start => MidiValue(map, pos) = map.lower
       /\ pos = map.stop => MidiValue(map, pos) = map.upper

(* Turning clockwise never lowers the value, turning back never raises it. *)
TurnIsMonotone ==
  [][ Straight /\ turned' =>
        IF pos' > pos THEN MidiValue(map, pos') >= MidiValue(map, pos)
                      ELSE MidiValue(map, pos') <= MidiValue(map, pos) ]_vars

(* A value from the host survives the way through the position within one  *)
(* step: the next turn continues from where the host left the controller.  *)
HostValueKept ==
  [][ ~turned' /\ Straight /\ map.stop - map.start >= map.upper - map.lower =>
        \A value \in map.lower .. map.upper :
          pos' = HostPosition(map, value) =>
            MidiValue(map, pos') \in {value - 1, value} ]_vars

-----------------------------------------------------------------------------
(* What the ring of an encoder shows.                                      *)
Drawing(r, p) ==
  MfDrawEncoder(<<>>, r.mode, r.detent, p,
                [red |-> 0, green |-> 0, blue |-> 0], [red |-> 0, blue |-> 0])

LightOf(r, p, lamps) ==
  LET drawing == Drawing(r, p)
  IN  Cardinality({lit \in lamps \X Frames : lit[1] \in drawing[lit[2]]})

Light(r, p) == LightOf(r, p, Indicators)

(* The bar of a ring without a detent is as long as the position says,     *)
(* within two brightness steps of a single indicator, though the lit       *)
(* indicators and the brightness of the last come from two formulas.       *)
BarIsProportional ==
  subject = "ring" /\ ring.mode = "MULTI_PWM" /\ ~ring.detent =>
    LET shown == Light(ring, pos) * EncMax
        exact == pos * NumIndicators * NumFrames
    IN  shown <= exact /\ exact - shown <= 2 * EncMax

(* A ring with a detent grows on the side the encoder is turned to and     *)
(* never shrinks while it is turned on; no other side is lit.              *)
Left == 1 .. Centre - 1
Right == Centre + 1 .. NumIndicators

DetentGrowsOutward ==
  [][ subject = "ring" /\ ring.detent /\ ring.mode # "SINGLE" =>
        /\ pos' > pos /\ pos >= Middle =>
             LightOf(ring, pos', Right) >= LightOf(ring, pos, Right)
        /\ pos' < pos /\ pos <= Middle =>
             LightOf(ring, pos', Left) >= LightOf(ring, pos, Left)
        /\ pos' > Middle => LightOf(ring, pos', Left) = 0
        /\ pos' < Middle => LightOf(ring, pos', Right) = 0 ]_vars

-----------------------------------------------------------------------------
(* The integer arithmetic on 16 bits gives the colour of the definition,   *)
(* the value less the share the saturation takes, by the distance of the   *)
(* hue from the lamp's own, within two steps of 255.                       *)
Peak == [red |-> 0, green |-> 512, blue |-> 1024]

Share(h, lamp) ==
  LET apart == (h - Peak[lamp]) % HueSteps
      distance == IF apart > HueSteps \div 2 THEN HueSteps - apart ELSE apart
  IN  Clamp(512 - distance, 0, 256)

ColourAsDefined ==
  subject = "colour" =>
    \A lamp \in Lamps :
      LET unit == 255 * 256
          exact == hsv.value * (unit - hsv.saturation * (256 - Share(hsv.hue, lamp)))
          got == Linear(hsv.hue, hsv.saturation, hsv.value)[lamp] * unit
      IN  got - exact <= 2 * unit /\ exact - got <= 2 * unit

(* No lamp becomes darker when the value is raised, through both roundings *)
(* and the gamma table; and at the full value the strongest lamp is lit in *)
(* all but the last frame.                                                 *)
BrighterNeverDims ==
  [][ subject = "colour" /\ hsv'.hue = hsv.hue =>
        \A lamp \in Lamps :
          /\ RgbOf(hsv')[lamp] >= RgbOf(hsv)[lamp]
          /\ hsv'.value = 255 => \E strong \in Lamps : RgbOf(hsv')[strong] = BcmMax ]_vars

-----------------------------------------------------------------------------
(* virtmap.h: "if the lower value is greater than the upper value then the *)
(* generated values will be in reverse order, i.e the output will start at *)
(* 5000 and reduce as the encoder is rotated clockwise."                   *)
ReversedRangeReduces ==
  [][ turned' /\ map.lower > map.upper /\ pos' > pos =>
        MidiValue(map, pos') <= MidiValue(map, pos) ]_vars

(* color.h: "Hue: 0-1535 (0-360 degrees)".                                 *)
HueInRange == hsv.hue \in 0 .. HueSteps - 1

(* hw_led.c: "This ISR needs to trigger every 32 ticks".                   *)
FrameEvery32Ticks == [][ subject = "frame" => (ccb' - ccb) % 256 = 32 ]_vars
=============================================================================
