-------------------------------- MODULE Adc --------------------------------
(***************************************************************************)
(* hal/adc.c and hal/signature.c: the converter that measures the          *)
(* temperature, for the seed at boot and for the console's temp command.   *)
(* The program waits in a loop for the converter's flag; the converter is  *)
(* external and takes its time.                                            *)
(***************************************************************************)
EXTENDS Naturals

VARIABLES
  prescaler,    \* ADCA.PRESCALER
  ready,        \* calibrated, enabled, and channel 0 at the sensor
  converting,   \* START was written, the conversion is not over
  flag,         \* CH0IF
  result,       \* CH0RES: a conversion of this request, of an earlier one
  reading       \* what the last request got

adc == <<prescaler, ready, converting, flag, result, reading>>

-----------------------------------------------------------------------------
AdcReset ==
  [prescaler |-> 4, ready |-> {}, converting |-> FALSE, flag |-> FALSE,
   result |-> "none", reading |-> "none"]

AdcInit ==
  /\ prescaler = AdcReset.prescaler /\ ready = AdcReset.ready
  /\ converting = AdcReset.converting /\ flag = AdcReset.flag
  /\ result = AdcReset.result /\ reading = AdcReset.reading

(* A software reset resets the converter too.                              *)
AdcRestart ==
  /\ prescaler' = AdcReset.prescaler /\ ready' = AdcReset.ready
  /\ converting' = AdcReset.converting /\ flag' = AdcReset.flag
  /\ result' = AdcReset.result /\ reading' = AdcReset.reading

(* What adc_init sees to; it is never marked as done.                      *)
AdcConfigured == {"calibrated", "enabled"}

(* avr_xmega128a4u_init                                                    *)
AdcSetUp ==
  /\ prescaler' = 64
  /\ ready' = ready \cup AdcConfigured \cup {"temp"}
  /\ UNCHANGED <<converting, flag, result, reading>>

(* What an earlier request left in the register is old from now on.        *)
Aged == IF result = "none" THEN "none" ELSE "old"

(* adc_read_temperature_float up to the start of the conversion.           *)
StartConversion ==
  /\ converting' = TRUE
  /\ result' = Aged
  /\ UNCHANGED <<flag, reading>>

(* For the seed the converter is used as the boot left it ...              *)
MeasureForSeed ==
  /\ StartConversion
  /\ ready' = ready \cup {"temp"}
  /\ UNCHANGED prescaler

(* ... for the temp command it is set up again.                            *)
MeasureForConsole ==
  /\ StartConversion
  /\ ready' = ready \cup AdcConfigured \cup {"temp"}
  /\ prescaler' = 256

(* Hardware.                                                               *)
ConversionEnds ==
  /\ converting /\ converting' = FALSE
  /\ flag' = TRUE
  /\ result' = IF ready = AdcConfigured \cup {"temp"} THEN "fresh" ELSE "other"
  /\ UNCHANGED <<prescaler, ready, reading>>

(* Fault: the flag is not cleared.                                         *)
ReadKeepsFlag ==
  /\ flag
  /\ reading' = result
  /\ UNCHANGED <<prescaler, ready, converting, flag, result>>

(* adc_wait_for_channel, then adc_read_result.                             *)
ReadResult ==
  /\ flag /\ flag' = FALSE
  /\ reading' = result
  /\ UNCHANGED <<prescaler, ready, converting, result>>

-----------------------------------------------------------------------------
(* A request gets the conversion it has started, of the right input and    *)
(* with the calibration loaded: never what an earlier one left in the      *)
(* result register.                                                        *)
ReadingIsFresh == reading \in {"none", "fresh"}

(* "ADC already initialized, no need to reconfigure": the prescaler of the *)
(* boot is kept.                                                           *)
PrescalerKept == [][prescaler = 64 => prescaler' # 256]_prescaler
=============================================================================
