---------------------------- MODULE Calculations ----------------------------
(***************************************************************************)
(* What the program computes without a state of its own: the work size     *)
(* found by calibration, the idling of a throttled device, and the hash of *)
(* a header on the host and in the kernel.  A behaviour is one input; the  *)
(* properties say what is computed from it.                                *)
(***************************************************************************)
EXTENDS Tuning, Blake3

CONSTANTS
    CalCosts,       \* time units a work item may take
    CalOverheads,   \* time units a launch may take besides
    CalTargets,     \* target times of autocalibrate
    LaunchTimes,     \* what a throttled launch may take
    HeaderData      \* the headers: 48 words, as the device keeps them

ASSUME CalAssumption ==
    CalCosts \subseteq Nat \ {0} /\ CalOverheads \subseteq Nat /\ CalTargets \subseteq Nat \ {0}
ASSUME ElapsedAssumption == LaunchTimes \subseteq Nat
ASSUME HeaderAssumption == HeaderData \subseteq HeaderWords

VARIABLE input

Calibrations ==
    [of : {"calibration"}, cost : CalCosts, overhead : CalOverheads, target : CalTargets]
Idlings == [of : {"idling"}, elapsed : LaunchTimes, dutyCycle : 1..100]
Hashes == [of : {"hash"}, header : HeaderData]

CalcInit == input \in Calibrations \cup Idlings \cup Hashes
CalcSpec == CalcInit /\ [][UNCHANGED input]_input
-----------------------------------------------------------------------------
\* Calibration hits its target up to a granule of work, the fixed cost of a
\* launch, and three times that cost below it where the cap ended the doubling,
\* on every device that is not too fast for the target: the size found in one
\* launch from the ratio of two times is right although a launch does not take
\* a time proportional to its size.
CalibrationHitsTarget ==
    input.of = "calibration" =>
        LET time == [ws \in 0..Word |-> input.overhead + input.cost * ws]
            deviation == time[calcWorkSizeForMilliseconds(input.target, time)]
                            - input.target
        IN  input.target < time[Word - Granule] =>
                /\ deviation <= input.overhead + Granule * input.cost
                /\ deviation >= -3 * input.overhead

\* A throttled device hashes for its share of the time, and idles for no whole
\* time unit less than that leaves.
DutyCycleHeld ==
    input.of = "idling" =>
        LET idle == idleFor(input.elapsed, input.dutyCycle)
        IN  /\ input.dutyCycle * (input.elapsed + idle) <= 100 * input.elapsed
            /\ input.dutyCycle * (input.elapsed + idle + 1) > 100 * input.elapsed

\* The host's hash of a header, as device.go chains Block and FinalBlock, is the
\* one BLAKE3 defines.
HostHashIsBlake3 == input.of = "hash" => HashesAsDefined(input.header)

\* The kernel and the host agree on the last word of a header's hash: the tables
\* written out by hand in both, the words the kernel leaves out and the order of
\* its arguments come to the same function.
KernelAgreesWithHost == input.of = "hash" => KernelAgrees(input.header)
=============================================================================
