------------------------- MODULE CalculationsProofs -------------------------
(***************************************************************************)
(* The properties of Calculations, for every input: any header, any        *)
(* device's speed, target and share of the time, any width of the words.   *)
(***************************************************************************)
EXTENDS Calculations, TuningProofs, Blake3Proofs

LEMMA InputChosen == CalcSpec => [](input \in Calibrations \cup Idlings \cup Hashes)
<1> DEFINE Inputs == input \in Calibrations \cup Idlings \cup Hashes
<1>1. CalcInit => Inputs
  BY DEF CalcInit
<1>2. Inputs /\ [UNCHANGED input]_input => Inputs'
  BY DEF Calibrations, Idlings, Hashes
<1> QED
  BY <1>1, <1>2, PTL DEF CalcSpec

\* On a device that is not too fast for it, calibration comes as close to its
\* target time as CalibrationHitsTarget says.
THEOREM CalibrationHits == CalcSpec => []CalibrationHitsTarget
<1>1. ASSUME input \in Calibrations \cup Idlings \cup Hashes PROVE CalibrationHitsTarget
  <2> SUFFICES ASSUME input.of = "calibration" PROVE CalibrationHitsTarget
    BY DEF CalibrationHitsTarget
  <2> DEFINE cost == input.cost
             overhead == input.overhead
             target == input.target
             time == [ws \in 0..Word |-> overhead + cost * ws]
             size == calcWorkSizeForMilliseconds(target, time)
  <2>1. cost \in Nat \ {0} /\ overhead \in Nat /\ target \in Nat \ {0}
    BY <1>1, CalAssumption DEF Calibrations, Idlings, Hashes
  <2>2. \A ws \in 0..Word : time[ws] = overhead + cost * ws
    OBVIOUS
  <2>3. CalibrationHitsTarget <=>
          (target < time[Word - Granule] =>
              /\ time[size] - target <= overhead + Granule * cost
              /\ time[size] - target >= -3 * overhead)
    BY DEF CalibrationHitsTarget
  <2> HIDE DEF cost, overhead, target, time, size
  <2>4. Word - Granule \in 0..Word
    BY WordOfGranules, WordAssumption
  <2>5. \A ws \in CalSizes : time[ws] = overhead + cost * ws
    <3>1. \A ws \in CalSizes : ws \in 0..Word
      BY CalSizesLaunchable, WordAssumption DEF Launchable
    <3> QED
      BY <2>2, <3>1
  <2>6. ASSUME target < time[Word - Granule]
        PROVE  /\ time[size] - target <= overhead + Granule * cost
               /\ time[size] - target >= -3 * overhead
    <3>1. target < overhead + cost * (Word - Granule)
      BY <2>2, <2>4, <2>6
    <3>2. /\ Launchable(size)
          /\ overhead + cost * size - target <= overhead + Granule * cost
          /\ overhead + cost * size - target >= -3 * overhead
      BY <2>1, <2>5, <3>1, CalibrationIsClose DEF size
    <3>3. size \in 0..Word
      BY <3>2, WordAssumption DEF Launchable
    <3>4. time[size] = overhead + cost * size
      BY <2>2, <3>3
    <3>5. time[size] - target = overhead + cost * size - target
      <4>1. cost * size \in Int
        BY <2>1, <3>3, WordAssumption
      <4> QED
        BY <2>1, <3>4, <4>1
    <3> QED
      BY <3>2, <3>5
  <2> QED
    BY <2>3, <2>6
<1> QED
  BY <1>1, InputChosen, PTL

\* A throttled device hashes for exactly its share of the time.
THEOREM DutyCycleIsHeld == CalcSpec => []DutyCycleHeld
<1>1. ASSUME input \in Calibrations \cup Idlings \cup Hashes PROVE DutyCycleHeld
  <2> SUFFICES ASSUME input.of = "idling" PROVE DutyCycleHeld
    BY DEF DutyCycleHeld
  <2>1. input.elapsed \in Nat /\ input.dutyCycle \in 1..100
    BY <1>1, ElapsedAssumption DEF Calibrations, Idlings, Hashes
  <2> QED
    BY <2>1, IdleIsExact DEF DutyCycleHeld
<1> QED
  BY <1>1, InputChosen, PTL

LEMMA HeaderChosen ==
    ASSUME input \in Calibrations \cup Idlings \cup Hashes, input.of = "hash"
    PROVE  input.header \in HeaderWords
<1>1. input.header \in HeaderData
  BY DEF Calibrations, Idlings, Hashes
<1> QED
  BY <1>1, HeaderAssumption DEF HeaderWords

\* The host's hash of a header is BLAKE3's, for every header.
THEOREM HostComputesBlake3 == CalcSpec => []HostHashIsBlake3
<1>1. ASSUME input \in Calibrations \cup Idlings \cup Hashes PROVE HostHashIsBlake3
  BY <1>1, HeaderChosen, HostHashes DEF HostHashIsBlake3
<1> QED
  BY <1>1, InputChosen, PTL

\* The kernel reports a nonce exactly when the host's hash ends in a zero word,
\* for every header.
THEOREM KernelComputesHostHash == CalcSpec => []KernelAgreesWithHost
<1>1. ASSUME input \in Calibrations \cup Idlings \cup Hashes PROVE KernelAgreesWithHost
  BY <1>1, HeaderChosen, KernelFollowsHost DEF KernelAgreesWithHost
<1> QED
  BY <1>1, InputChosen, PTL
=============================================================================
