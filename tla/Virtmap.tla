------------------------------ MODULE Virtmap ------------------------------
(***************************************************************************)
(* The arithmetic of a virtual mapping (struct virtmap): how a turn of the *)
(* encoder moves its position, which controller value the position stands  *)
(* for, and which position a value from the host stands for.               *)
(*                                                                         *)
(* A mapping m is a record with the fields lower, upper (the value range)  *)
(* and start, stop (the position range) of struct virtmap, and mode, cc    *)
(* (struct proto_cfg).  The fields lower # upper and start # stop: the     *)
(* code divides by their difference.  The mode is "NONE" for a protocol    *)
(* without a controller, and "MUTE" for the modes of MIDI that have a      *)
(* controller and send nothing: disabled, relative and note.               *)
(***************************************************************************)
EXTENDS Integers

CONSTANTS
  EncMax,     \* ENC_MAX, the largest position
  CCMax,      \* MIDI_CC_MAX, the largest controller value
  LsbSpan     \* 2^7: values of one data byte of a 14-bit controller

ASSUME VirtmapAssumption ==
  /\ EncMax \in Nat \ {0}
  /\ CCMax \in Nat \ {0}
  /\ LsbSpan \in Nat \ {0}

(* Division as C does it, towards zero.                                    *)
CQuotient(a, b) ==
  LET magnitude(x) == IF x < 0 THEN -x ELSE x
      q == magnitude(a) \div magnitude(b)
  IN  IF (a < 0) = (b < 0) THEN q ELSE -q

(* The int of the microcontroller has 16 bits.                             *)
Int16(x) == ((x + 32768) % 65536) - 32768

(* Fault: the lower end of the new range is not added.                     *)
ConvertWithoutOffset(c, omin, omax, nmin, nmax) ==
  Int16(CQuotient(Int16((c - omin) * (nmax - nmin)), omax - omin))

(* convert_range_i16                                                       *)
ConvertRange(c, omin, omax, nmin, nmax) ==
  Int16(CQuotient(Int16((c - omin) * (nmax - nmin)), omax - omin) + nmin)

(* CLAMP and IN_RANGE                                                      *)
Clamp(x, min, max) == IF x < min THEN min ELSE IF x > max THEN max ELSE x

InRange(x, min, max) == x >= min /\ x <= max

(* vmap_update: the position a turn asks for, and whether it is taken.     *)
NewPosition(m, pos, velocity) ==
  Clamp(Clamp(pos + velocity, 0, EncMax), m.start, m.stop)

TakesPosition(m, pos, newpos) ==
  pos # newpos /\ InRange(newpos, m.start, m.stop)

(* Fault: a range with lower > upper is the one that is not mirrored.      *)
MidiValueMirrored(m, pos) ==
  LET val == ConvertRange(pos, m.start, m.stop, m.lower, m.upper)
      top == IF m.mode = "CC_14" THEN LsbSpan * LsbSpan - 1 ELSE CCMax
  IN  IF m.lower > m.upper THEN val ELSE top - val

(* vmap_update: the value of a position.  A range with lower > upper is    *)
(* converted in that direction and then mirrored once more.                *)
MidiValue(m, pos) ==
  LET val == ConvertRange(pos, m.start, m.stop, m.lower, m.upper)
      top == IF m.mode = "CC_14" THEN LsbSpan * LsbSpan - 1 ELSE CCMax
  IN  IF m.lower > m.upper THEN top - val ELSE val

(* Fault: the host's value is spread over the whole turn of the encoder.   *)
HostPositionWhole(m, value) ==
  ConvertRange(value, m.lower, m.upper, 0, EncMax) % (EncMax + 1)

(* midi_in_handler: the position of a value, cut to the u8 of curr_pos.    *)
HostPosition(m, value) ==
  ConvertRange(value, m.lower, m.upper, m.start, m.stop) % (EncMax + 1)

Sends(m) == m.mode \in {"CC", "CC_14"}

(* The messages vmap_update posts for a value: one controller change, or   *)
(* the high and the low data byte of a 14-bit controller.                  *)
Messages(m, val) ==
  IF m.mode = "CC_14"
  THEN << [cc |-> m.cc, value |-> (val \div LsbSpan) % LsbSpan],
          [cc |-> m.cc + 32, value |-> val % LsbSpan] >>
  ELSE << [cc |-> m.cc, value |-> val % (CCMax + 1)] >>

(* The controllers a mapping sends to.                                     *)
CcsOf(m) ==
  CASE m.mode = "CC" -> {m.cc}
    [] m.mode = "CC_14" -> {m.cc, m.cc + 32}
    [] OTHER -> {}
=============================================================================
