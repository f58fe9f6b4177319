------------------------------- MODULE Tuning -------------------------------
(***************************************************************************)
(* How the tuning of a device comes about: which values of the per-device  *)
(* settings loadConfig accepts (config.go), which of them NewDevice takes  *)
(* for a device (device_opencl.go), the calibration of the work size when  *)
(* none is set (calibrate.go) and the idling of a throttled device         *)
(* (device.go).  Sizes are numbers of work items; 32-bit words wrap.       *)
(* Floating point is taken as exact.                                       *)
(***************************************************************************)
EXTENDS Integers, Sequences

CONSTANTS
    Word,           \* how many values a uint32 has (2^32)
    Granule,        \* a work size is a multiple of it (256)
    CalStart,       \* work size of the first calibration launch (2^10)
    CalCap,         \* no calibration launch is larger (2^30)
    MinIntensity,   \* minIntensity (8), with 2^MinIntensity = Granule
    MaxIntensity    \* maxIntensity (31), with 2^MaxIntensity = Word / 2

ASSUME WordAssumption == Word \in Nat \ {0} /\ Granule \in Nat \ {0}
ASSUME WidthAssumption ==
    /\ Word % Granule = 0
    /\ 2^MinIntensity = Granule
    /\ 2 * 2^MaxIntensity = Word
    /\ \E k \in MinIntensity..MaxIntensity : CalStart = 2^k
    /\ \E k \in MinIntensity..MaxIntensity : CalCap = 2^k
    /\ CalStart <= CalCap
    /\ Word = 4 * CalCap
\* What 2^k is, said to the provers, which do not know it.
ASSUME PowerAssumption ==
    /\ MinIntensity \in Nat /\ MaxIntensity \in Nat
    /\ \A k \in MinIntensity..MaxIntensity : 2^k \in Nat /\ 2^(k + 1) = 2 * 2^k

-----------------------------------------------------------------------------
(***************************************************************************)
(* Settings.  A setting is the sequence of integers parseInts read; an     *)
(* unset one is empty.                                                     *)
(***************************************************************************)
\* The conversion uint32(v) of an integer of any sign.
Uint32(v) == v % Word

\* Variant: the upper limit lets one more granule pass.
WorkSizeLimitGone(v) == Uint32(v) >= Granule

\* The limits are checked after the conversion, on what is left of v.
WorkSizeAccepted(v) ==
    /\ Uint32(v) >= Granule
    /\ Uint32(v) <= Word - Granule
    /\ Uint32(v) % Granule = 0

Given(values) == {values[i] : i \in 1..Len(values)}

\* loadConfig goes on with these settings.  No limit is put on autocalibrate.
Accepts(s) ==
    /\ \A v \in Given(s.intensity) : v \in MinIntensity..MaxIntensity
    /\ \A v \in Given(s.worksize) : WorkSizeAccepted(v)
    /\ \A v \in Given(s.dutycycle) : v \in 1..100

\* The first value applies to every device; a value at the device's own
\* position, counted from 0 over the devices used, overrides it.
OwnOrFirst(values, order) ==
    IF order < Len(values) THEN values[order + 1] ELSE values[1]
-----------------------------------------------------------------------------
(***************************************************************************)
(* Calibration.  time[ws] is what a launch of ws items was measured to     *)
(* take; nothing is assumed of how the measurements relate.                *)
(***************************************************************************)
CalSizes == {2^k : k \in MinIntensity..MaxIntensity} \cap (CalStart..CalCap)

Ceil(a, b) == (a + b - 1) \div b

\* Variant: rounded down to the granule.
ScaledDown(ws, target, elapsed) ==
    Uint32(Uint32((ws * target) \div (elapsed * Granule)) * Granule)

\* ws scaled by target / elapsed, rounded up to the granule; the product with
\* the granule is one of 32-bit words.
Scaled(ws, target, elapsed) ==
    Uint32(Uint32(Ceil(ws * target, elapsed * Granule)) * Granule)

\* The size doubles until a launch takes the target time or the cap is reached.
FirstLongEnough(target, time) ==
    LET stops(ws) == time[ws] >= target \/ ws = CalCap
    IN  CHOOSE ws \in CalSizes : stops(ws) /\ \A u \in CalSizes : u < ws => ~stops(u)

calcWorkSizeForMilliseconds(target, time) ==
    LET ws == FirstLongEnough(target, time)
    IN  Scaled(ws, target, time[ws])

\* The work size of the device at position order; worksize overrides intensity.
WorkSize(s, order, time) ==
    CASE s.worksize # <<>> -> Uint32(OwnOrFirst(s.worksize, order))
      [] s.worksize = <<>> /\ s.intensity # <<>> ->
            2^OwnOrFirst(s.intensity, order)
      [] OTHER ->
            calcWorkSizeForMilliseconds(OwnOrFirst(s.autocalibrate, order), time)

\* Variant: the rest of the percentage is taken of the launch.
IdleOfLaunch(elapsed, dutyCycle) == (elapsed * (100 - dutyCycle)) \div 100

\* How long a device idles after a launch that took elapsed.
idleFor(elapsed, dutyCycle) ==
    IF dutyCycle >= 100 \/ dutyCycle <= 0
      THEN 0
      ELSE (elapsed * (100 - dutyCycle)) \div dutyCycle
=============================================================================
