------------------------------ MODULE SysTime ------------------------------
(***************************************************************************)
(* system/systime.c and encoder/encoder.c: the clock its interrupt moves,  *)
(* read a byte at a time by systime_ms, and the acceleration of an encoder *)
(* that depends on the time between two of its edges.                      *)
(*                                                                         *)
(* The processor is 8 bits wide, so the four bytes of thetime are loaded   *)
(* one after the other, the lowest first, and the interrupt may come       *)
(* between two loads.  A millisecond is some ten thousand instructions, so *)
(* at most one tick falls into a read.                                     *)
(***************************************************************************)
EXTENDS Integers

CONSTANTS
  NumBytes,     \* bytes of thetime
  ByteSize,     \* values of a byte
  Thresholds,   \* THR_FAST, THR_MEDIUM, THR_SLOW, THR_VERY_SLOW
  MaxTicks      \* bound on the ticks of a behaviour

ASSUME SysTimeAssumption ==
  /\ NumBytes \in Nat \ {0} /\ ByteSize \in Nat \ {0, 1}
  /\ Thresholds \in [1 .. 4 -> Nat \ {0}]
  /\ \A i \in 1 .. 3 : Thresholds[i] < Thresholds[i + 1]
  /\ MaxTicks \in Nat

VARIABLES
  ticks,        \* ticks since the clock started; thetime is their remainder
  loaded,       \* how many bytes of thetime a read has loaded
  value,        \* what they amount to
  last,         \* enc->last_update_time
  velocity, accel_factor,
  begun,        \* history: ticks when the read began
  lastAt,       \* history: ticks at the moment of which last is the time
  gap           \* history: ticks between the last two edges

clockvars == <<ticks, loaded, value, last, velocity, accel_factor, begun, lastAt, gap>>

Torn == -1

(* What a byte counts with n bytes below it.                               *)
Place[n \in Nat] == IF n = 0 THEN 1 ELSE ByteSize * Place[n - 1]

Modulus == Place[NumBytes]

thetime == ticks % Modulus

(* The byte of t with n bytes below it.                                    *)
ByteOf(t, n) == (t \div Place[n]) % ByteSize

-----------------------------------------------------------------------------
(* encoder_movement_init, at boot                                          *)
ClockInit ==
  /\ ticks = 0 /\ loaded = 0 /\ value = 0 /\ begun = 0
  /\ last = 0 /\ velocity = 0 /\ accel_factor = 1
  /\ lastAt = 0 /\ gap = Torn

(* Fault: the period is so short that a read meets several ticks.          *)
TickFaster ==
  /\ ticks < MaxTicks
  /\ ticks' = ticks + 1
  /\ UNCHANGED <<loaded, value, last, velocity, accel_factor, begun, lastAt, gap>>

(* TCE0_OVF_vect, with the period of systime_start                         *)
Tick ==
  /\ ticks < MaxTicks
  /\ loaded > 0 => ticks = begun
  /\ ticks' = ticks + 1
  /\ UNCHANGED <<loaded, value, last, velocity, accel_factor, begun, lastAt, gap>>

(* One load of systime_ms.                                                 *)
Load ==
  /\ loaded < NumBytes
  /\ loaded' = loaded + 1
  /\ value' = value + ByteOf(thetime, loaded) * Place[loaded]
  /\ begun' = IF loaded = 0 THEN ticks ELSE begun
  /\ UNCHANGED <<ticks, last, velocity, accel_factor, lastAt, gap>>

(* The acceleration for the time since the last edge.                      *)
FactorFor(delta) ==
  CASE delta < Thresholds[1] -> 7
    [] delta >= Thresholds[1] /\ delta < Thresholds[2] -> 5
    [] delta >= Thresholds[2] /\ delta < Thresholds[3] -> 3
    [] delta >= Thresholds[3] /\ delta < Thresholds[4] -> 2
    [] OTHER -> 1

(* Fault: the difference of two times is taken without wrapping around.    *)
DeltaSaturates(now, before) == IF now < before THEN 0 ELSE now - before

(* The difference of two u32.                                              *)
Delta(now, before) == (now - before) % Modulus

(* The moment of which the time read is the time, if there is one.         *)
ReadAt ==
  CASE value = begun % Modulus -> begun
    [] value # begun % Modulus /\ value = thetime -> ticks
    [] OTHER -> Torn

(* encoder_movement_update for an encoder the scan found still.            *)
EncoderStill ==
  /\ loaded = NumBytes
  /\ loaded' = 0 /\ value' = 0
  /\ velocity' = 0 /\ accel_factor' = 1
  /\ gap' = Torn
  /\ UNCHANGED <<ticks, last, begun, lastAt>>

(* encoder_movement_update for an edge.                                    *)
EncoderMoves(direction) ==
  /\ loaded = NumBytes
  /\ loaded' = 0 /\ value' = 0
  /\ last' = value
  /\ accel_factor' = FactorFor(Delta(value, last))
  /\ velocity' = direction * accel_factor'
  /\ lastAt' = ReadAt
  /\ gap' = IF Torn \in {lastAt, ReadAt} THEN Torn ELSE ReadAt - lastAt
  /\ UNCHANGED <<ticks, begun>>

ClockNext ==
  \/ Tick \/ Load
  \/ EncoderStill
  \/ \E direction \in {-1, 1} : EncoderMoves(direction)

ClockSpec == ClockInit /\ [][ClockNext]_clockvars

-----------------------------------------------------------------------------
(* The acceleration of encoder_movement_update is the one for the real     *)
(* time between the two edges, also when the 32-bit clock wrapped around   *)
(* between them, provided neither time was torn by the interrupt and less  *)
(* than the range of the clock has passed.                                 *)
FactorFitsPace ==
  gap # Torn /\ gap < Modulus => accel_factor = FactorFor(gap)

(* A time read is torn only when the tick it met carries out of a byte:    *)
(* of 256 milliseconds, one.                                               *)
TornOnlyAtCarry ==
  loaded = NumBytes /\ ReadAt = Torn => ticks % ByteSize = 0

(* system/time.h:23-25: "Get the system time.", "Current time in           *)
(* milliseconds.": a time that was the current one during the call.        *)
ReadsCurrentTime == loaded = NumBytes => ReadAt # Torn
=============================================================================
