------------------------------ MODULE MCDevice ------------------------------
(***************************************************************************)
(* Device with small words: work sizes of 16..4080 items instead of        *)
(* 2^8..2^32; and the inputs of Calculations.  A state in which no device  *)
(* is used is for one such input.                                          *)
(***************************************************************************)
EXTENDS Device, Calculations

OneDevice == {0}
TwoDevices == {0, 1}

Unset == <<>>
SettingsOf(a, i, w) ==
    [autocalibrate |-> a, intensity |-> i, worksize |-> w, dutycycle |-> <<100>>]

\* A list with a value per device; a size that is no multiple of the granule,
\* and so refused; a calibration.
SearchSettings == {SettingsOf(<<500>>, Unset, <<16, -16>>),
                   SettingsOf(<<500>>, Unset, <<20>>),
                   SettingsOf(<<80>>, Unset, Unset)}

\* A target for which 7/4 of the largest work size would be needed: what the
\* default of 500 ms is to a card of 15 Gh/s.
CalibrationSettings == {SettingsOf(<<(7 * Word) \div 4>>, Unset, Unset)}
-----------------------------------------------------------------------------
SampleCosts == 1..3
SampleOverheads == {0, 7, 40}
SampleTargets == {1, 17, 100, 333, 1000, 2222, 4079, 7000}
SampleElapsed == 0..20

\* Headers of 48 words, none zero, the unused end of the last block included.
SampleHeaders ==
    {[i \in 1..48 |-> <<(7919 * i * k + 13 * i * i) % Half, (104729 + 31 * i * k * k) % Half>>] :
        k \in 1..4}

None == [of |-> "none"]

\* Bound: a run that calibrates has one device.
CalibratesOne == Calibrated => Cardinality(used) <= 1

MCInit ==
    /\ Init
    /\ CalibratesOne
    /\ \/ input = None
       \/ used = {} /\ CalcInit
MCNext == Next /\ UNCHANGED input
MCSpec == MCInit /\ [][MCNext]_<<vars, input>>
=============================================================================
