---------------------------- MODULE TuningProofs ----------------------------
(***************************************************************************)
(* What the functions of Tuning compute, for every argument and every      *)
(* width of the words.                                                     *)
(***************************************************************************)
EXTENDS Tuning, FiniteSetTheorems, WellFoundedInduction, TLAPS

USE WordAssumption
-----------------------------------------------------------------------------
(***************************************************************************)
(* Arithmetic.                                                             *)
(***************************************************************************)
LEMMA Division ==
    ASSUME NEW x \in Int, NEW b \in Nat \ {0}
    PROVE  /\ x \div b \in Int /\ x % b \in 0..(b - 1)
           /\ x = b * (x \div b) + (x % b)
OBVIOUS

LEMMA LessTimes ==
    ASSUME NEW x \in Int, NEW y \in Int, NEW b \in Nat \ {0}
    PROVE  b * x <= b * y <=> x <= y
OBVIOUS

LEMMA CeilBounds ==
    ASSUME NEW a \in Nat \ {0}, NEW b \in Nat \ {0}
    PROVE  /\ Ceil(a, b) \in Nat \ {0}
           /\ b * Ceil(a, b) >= a
           /\ b * Ceil(a, b) < a + b
<1> DEFINE x == a + b - 1
<1>1. x \in Int
  OBVIOUS
<1> HIDE DEF x
<1>2. /\ x \div b \in Int /\ x % b \in 0..(b - 1)
      /\ x = b * (x \div b) + (x % b)
  BY <1>1, Division
<1>3. Ceil(a, b) = x \div b /\ x = a + b - 1
  BY DEF Ceil, x
<1>4. b * Ceil(a, b) >= a /\ b * Ceil(a, b) < a + b /\ Ceil(a, b) \in Int
  BY <1>2, <1>3
<1>5. Ceil(a, b) > 0
  BY <1>4
<1> QED
  BY <1>4, <1>5

\* The first value of a set of naturals.
LEMMA SmallestElement ==
    ASSUME NEW T \in SUBSET Nat, T # {}
    PROVE  \E m \in T : \A k \in T : m <= k
<1> DEFINE below == {0..n : n \in T}
<1>1. below \subseteq FiniteSubsetsOf(Nat)
  <2> SUFFICES ASSUME NEW n \in T PROVE 0..n \in FiniteSubsetsOf(Nat)
    OBVIOUS
  <2>1. IsFiniteSet(0..n) /\ 0..n \in SUBSET Nat
    BY FS_Interval
  <2> QED
    BY <2>1 DEF FiniteSubsetsOf
<1>2. PICK b \in below : \A c \in below : <<c, b>> \notin StrictSubsetOrdering(Nat)
  <2>1. IsWellFoundedOn(StrictSubsetOrdering(Nat), FiniteSubsetsOf(Nat))
    BY FS_StrictSubsetOrderingWellFounded
  <2>2. below # {}
    OBVIOUS
  <2> HIDE DEF below
  <2> QED
    BY <1>1, <2>1, <2>2, WFMin
<1>3. PICK m \in T : b = 0..m
  OBVIOUS
<1>4. ASSUME NEW k \in T, k < m PROVE FALSE
  <2>1. 0..k \in below
    OBVIOUS
  <2>2. 0..k \subseteq Nat /\ 0..m \subseteq Nat /\ 0..k \subseteq 0..m /\ 0..k # 0..m
    <3>1. m \in 0..m /\ m \notin 0..k
      BY <1>4
    <3> QED
      BY <1>4, <3>1
  <2>3. <<0..k, b>> \in StrictSubsetOrdering(Nat)
    BY <1>3, <2>2 DEF StrictSubsetOrdering
  <2> QED
    BY <1>2, <2>1, <2>3
<1> QED
  BY <1>4
-----------------------------------------------------------------------------
(***************************************************************************)
(* Sizes.                                                                  *)
(***************************************************************************)
\* A launch OpenCL can execute.
Launchable(ws) == ws \in Granule..(Word - Granule) /\ ws % Granule = 0

LEMMA PowerTimesGranule ==
    ASSUME NEW k \in MinIntensity..MaxIntensity
    PROVE  \E q \in Nat \ {0} : 2^k = Granule * q
<1> USE PowerAssumption
<1> DEFINE P(n) == \E q \in Nat \ {0} : 2^n = Granule * q
           T == {n \in MinIntensity..MaxIntensity : ~P(n)}
<1>1. P(MinIntensity)
  BY WidthAssumption
<1>2. ASSUME NEW n \in MinIntensity..MaxIntensity, n + 1 \in MinIntensity..MaxIntensity, P(n)
      PROVE  P(n + 1)
  <2>1. PICK q \in Nat \ {0} : 2^n = Granule * q
    BY <1>2
  <2>2. 2^(n + 1) = Granule * (2 * q) /\ 2 * q \in Nat \ {0}
    BY <2>1
  <2> QED
    BY <2>2
<1> HIDE DEF P
<1>3. T = {}
  <2> SUFFICES ASSUME T # {} PROVE FALSE
    OBVIOUS
  <2>1. PICK m \in T : \A n \in T : m <= n
    <3>1. T \in SUBSET Nat
      OBVIOUS
    <3> HIDE DEF T
    <3> QED
      BY <3>1, SmallestElement
  <2>2. m # MinIntensity
    BY <1>1
  <2>3. m - 1 \in MinIntensity..MaxIntensity /\ P(m - 1) /\ (m - 1) + 1 = m
    BY <2>1, <2>2
  <2> QED
    BY <1>2, <2>3
<1> QED
  BY <1>3 DEF P

LEMMA PowerBelowLast ==
    ASSUME NEW k \in MinIntensity..MaxIntensity
    PROVE  2^k <= 2^MaxIntensity
<1> USE PowerAssumption
<1> DEFINE T == {n \in 0..(MaxIntensity - MinIntensity) :
                    ~(2^(MaxIntensity - n) <= 2^MaxIntensity)}
<1>1. T = {}
  <2> SUFFICES ASSUME T # {} PROVE FALSE
    OBVIOUS
  <2>1. PICK m \in T : \A n \in T : m <= n
    <3>1. T \in SUBSET Nat
      OBVIOUS
    <3> HIDE DEF T
    <3> QED
      BY <3>1, SmallestElement
  <2>2. m # 0
    OBVIOUS
  <2>3. m - 1 \in 0..(MaxIntensity - MinIntensity) /\ m - 1 \notin T
    BY <2>1, <2>2
  <2> DEFINE j == MaxIntensity - m
  <2>4. /\ j \in MinIntensity..MaxIntensity
        /\ MaxIntensity - (m - 1) = j + 1
        /\ MaxIntensity - (m - 1) \in MinIntensity..MaxIntensity
    BY <2>2
  <2>5. 2^(j + 1) <= 2^MaxIntensity
    BY <2>3, <2>4
  <2>6. 2^j \in Nat /\ 2^(j + 1) = 2 * 2^j /\ 2^MaxIntensity \in Nat
    BY <2>4
  <2>7. 2^j <= 2^MaxIntensity
    BY <2>5, <2>6
  <2> QED
    BY <2>7
<1>2. MaxIntensity - k \in 0..(MaxIntensity - MinIntensity) /\ MaxIntensity - (MaxIntensity - k) = k
  OBVIOUS
<1> QED
  BY <1>1, <1>2

LEMMA Intensities == MinIntensity <= MaxIntensity
  BY WidthAssumption, PowerAssumption

LEMMA WordOfGranules == \E n \in Nat : n >= 2 /\ Word = Granule * n
<1>1. PICK q \in Nat \ {0} : 2^MaxIntensity = Granule * q
  BY PowerTimesGranule, Intensities, PowerAssumption
<1>2. Word = Granule * (2 * q)
  BY <1>1, WidthAssumption
<1> QED
  BY <1>2

LEMMA GranulesLaunchable ==
    ASSUME NEW q \in Nat \ {0}, Granule * q < Word
    PROVE  Launchable(Granule * q)
<1>1. PICK n \in Nat : n >= 2 /\ Word = Granule * n
  BY WordOfGranules
<1>2. q + 1 <= n
  BY <1>1
<1>3. Granule * (q + 1) <= Word /\ Granule * q >= Granule
  BY <1>1, <1>2
<1>4. (Granule * q) % Granule = 0
  OBVIOUS
<1> QED
  BY <1>3, <1>4 DEF Launchable

LEMMA PowerLaunchable ==
    ASSUME NEW k \in MinIntensity..MaxIntensity
    PROVE  Launchable(2^k)
<1>1. PICK q \in Nat \ {0} : 2^k = Granule * q
  BY PowerTimesGranule
<1>2. 2^k < Word
  BY <1>1, PowerBelowLast, WidthAssumption, PowerAssumption
<1> QED
  BY <1>1, <1>2, GranulesLaunchable

LEMMA CalSizesLaunchable ==
    /\ \A ws \in CalSizes : Launchable(ws) /\ ws <= CalCap /\ ws \in Nat \ {0}
    /\ CalCap \in CalSizes
<1>1. \A ws \in CalSizes : Launchable(ws) /\ ws <= CalCap
  BY PowerLaunchable DEF CalSizes
<1>2. \A ws \in CalSizes : ws \in Nat \ {0}
  BY <1>1 DEF Launchable
<1>3. CalCap \in CalSizes
  BY WidthAssumption, PowerAssumption DEF CalSizes
<1> QED
  BY <1>1, <1>2, <1>3

\* The calibration's loop ends, at the first size that takes the target time
\* or at the cap.
LEMMA LoopEnds ==
    ASSUME NEW target \in Int, NEW time, \A ws \in CalSizes : time[ws] \in Int
    PROVE  LET ws == FirstLongEnough(target, time)
           IN  /\ ws \in CalSizes
               /\ time[ws] >= target \/ ws = CalCap
               /\ \A u \in CalSizes : u < ws => time[u] < target
<1> DEFINE stops(ws) == time[ws] >= target \/ ws = CalCap
           T == {ws \in CalSizes : stops(ws)}
<1>1. T \in SUBSET Nat /\ T # {}
  BY CalSizesLaunchable
<1>2. PICK m \in T : \A k \in T : m <= k
  <2> HIDE DEF T
  <2> QED
    BY <1>1, SmallestElement
<1>3. m \in CalSizes /\ stops(m) /\ \A u \in CalSizes : u < m => ~stops(u)
  BY <1>2, CalSizesLaunchable
<1>4. FirstLongEnough(target, time) =
        CHOOSE ws \in CalSizes : stops(ws) /\ \A u \in CalSizes : u < ws => ~stops(u)
  BY DEF FirstLongEnough
<1> DEFINE w == FirstLongEnough(target, time)
<1>5. w \in CalSizes /\ stops(w) /\ \A u \in CalSizes : u < w => ~stops(u)
  <2> HIDE DEF stops
  <2> QED
    BY <1>3, <1>4
<1> HIDE DEF w
<1>6. \A u \in CalSizes : ~stops(u) => time[u] < target
  OBVIOUS
<1>7. w \in CalSizes /\ (time[w] >= target \/ w = CalCap)
      /\ \A u \in CalSizes : u < w => time[u] < target
  BY <1>5, <1>6
<1> QED
  BY <1>7 DEF w
-----------------------------------------------------------------------------
(***************************************************************************)
(* What calibration finds.  A launch of ws items takes a fixed time and a  *)
(* time per item.                                                          *)
(***************************************************************************)
\* Nothing wraps as long as the wanted size fits a word.
LEMMA ScaledFits ==
    ASSUME NEW ws \in Nat \ {0}, NEW target \in Nat \ {0}, NEW elapsed \in Nat \ {0},
           ws * target <= elapsed * (Word - Granule)
    PROVE  LET size == Scaled(ws, target, elapsed)
           IN  /\ Launchable(size) /\ size \in Nat
               /\ elapsed * size >= ws * target
               /\ elapsed * size < ws * target + elapsed * Granule
<1> DEFINE a == ws * target
           b == elapsed * Granule
           c == Ceil(a, b)
<1>1. a \in Nat \ {0} /\ b \in Nat \ {0}
  OBVIOUS
<1>2. c \in Nat \ {0} /\ b * c >= a /\ b * c < a + b
  <2> HIDE DEF a, b
  <2> QED
    BY <1>1, CeilBounds
<1> HIDE DEF c
<1>3. b * c = elapsed * (Granule * c)
  BY <1>2
<1>4. Granule * c < Word
  <2>1. elapsed * (Granule * c) < elapsed * Word
    BY <1>2, <1>3
  <2>2. Granule * c \in Int /\ Word \in Int
    BY <1>2
  <2> QED
    BY <2>1, <2>2, LessTimes
<1>5. c < Word /\ c % Word = c
  BY <1>2, <1>4
<1>6. Scaled(ws, target, elapsed) = Granule * c
  <2>1. Uint32(c) = c
    BY <1>2, <1>5 DEF Uint32
  <2>2. c * Granule = Granule * c /\ Granule * c \in 0..(Word - 1)
    BY <1>2, <1>4
  <2>3. Uint32(Granule * c) = Granule * c
    BY <2>2 DEF Uint32
  <2> QED
    BY <2>1, <2>2, <2>3 DEF Scaled, c
<1>7. Launchable(Granule * c)
  BY <1>2, <1>4, GranulesLaunchable
<1> QED
  BY <1>2, <1>3, <1>6, <1>7

LEMMA NotTooFar ==
    ASSUME NEW ws \in Nat \ {0}, NEW cost \in Nat \ {0}, NEW overhead \in Nat,
           NEW target \in Nat \ {0}, ws <= Word - Granule,
           target < overhead + cost * (Word - Granule)
    PROVE  ws * target <= (overhead + cost * ws) * (Word - Granule)
<1> DEFINE w == Word - Granule
<1>1. w \in Nat
  OBVIOUS
<1> HIDE DEF w
<1>2. ws * target <= ws * (overhead + cost * w)
  BY <1>1 DEF w
<1>3. ws * (overhead + cost * w) = overhead * ws + (cost * ws) * w
  BY <1>1
<1>4. overhead * ws <= overhead * w
  BY <1>1 DEF w
<1>5. (overhead + cost * ws) * w = overhead * w + (cost * ws) * w
  BY <1>1
<1>6. ws * target <= (overhead + cost * ws) * w
  BY <1>1, <1>2, <1>3, <1>4, <1>5
<1> QED
  BY <1>6 DEF w

LEMMA NotTooLong ==
    ASSUME NEW elapsed \in Nat \ {0}, NEW size \in Nat, NEW ws \in Nat, NEW target \in Nat,
           NEW cost \in Nat \ {0}, cost * ws <= elapsed,
           elapsed * size < ws * target + elapsed * Granule
    PROVE  cost * size <= target + cost * Granule
<1>1. cost * (elapsed * size) <= cost * (ws * target + elapsed * Granule)
  OBVIOUS
<1>2. cost * (ws * target + elapsed * Granule)
        = (cost * ws) * target + elapsed * (cost * Granule)
  OBVIOUS
<1>3. (cost * ws) * target <= elapsed * target
  OBVIOUS
<1>4. elapsed * (cost * size) <= elapsed * (target + cost * Granule)
  <2>1. cost * (elapsed * size) = elapsed * (cost * size)
    OBVIOUS
  <2>2. elapsed * (target + cost * Granule) = elapsed * target + elapsed * (cost * Granule)
    OBVIOUS
  <2> QED
    BY <1>1, <1>2, <1>3, <2>1, <2>2
<1>5. cost * size \in Int /\ target + cost * Granule \in Int
  OBVIOUS
<1> QED
  BY <1>4, <1>5, LessTimes

LEMMA NotTooShort ==
    ASSUME NEW elapsed \in Nat \ {0}, NEW size \in Nat, NEW ws \in Nat, NEW target \in Nat,
           NEW cost \in Nat \ {0}, NEW overhead \in Nat, elapsed = overhead + cost * ws,
           elapsed * size >= ws * target, target <= 4 * elapsed
    PROVE  target <= 4 * overhead + cost * size
<1>1. cost * (elapsed * size) >= cost * (ws * target)
  OBVIOUS
<1>2. elapsed * (cost * size) >= (cost * ws) * target
  BY <1>1
<1>3. elapsed * target = overhead * target + (cost * ws) * target
  OBVIOUS
<1>4. overhead * target <= overhead * (4 * elapsed)
  OBVIOUS
<1>5. elapsed * (4 * overhead + cost * size)
        = overhead * (4 * elapsed) + elapsed * (cost * size)
  OBVIOUS
<1>6. elapsed * target <= elapsed * (4 * overhead + cost * size)
  <2> DEFINE p == elapsed * (cost * size)
             q == (cost * ws) * target
             r == overhead * target
             s == overhead * (4 * elapsed)
  <2>1. p \in Int /\ q \in Int /\ r \in Int /\ s \in Int
    OBVIOUS
  <2>2. p >= q /\ r <= s /\ elapsed * target = r + q
        /\ elapsed * (4 * overhead + cost * size) = s + p
    BY <1>2, <1>3, <1>4, <1>5
  <2> HIDE DEF p, q, r, s
  <2> QED
    BY <2>1, <2>2
<1>7. target \in Int /\ 4 * overhead + cost * size \in Int
  OBVIOUS
<1> QED
  BY <1>6, <1>7, LessTimes

\* A positive target that a launch of the largest size exceeds: the size is one
\* OpenCL can launch, and its launch misses the target by no more than a granule
\* of work and the fixed time of a launch above it and three times that below.
THEOREM CalibrationIsClose ==
    ASSUME NEW cost \in Nat \ {0}, NEW overhead \in Nat, NEW target \in Nat \ {0},
           NEW time, \A ws \in CalSizes : time[ws] = overhead + cost * ws,
           target < overhead + cost * (Word - Granule)
    PROVE  LET size == calcWorkSizeForMilliseconds(target, time)
               deviation == overhead + cost * size - target
           IN  /\ Launchable(size)
               /\ deviation <= overhead + Granule * cost
               /\ deviation >= -3 * overhead
<1> DEFINE ws == FirstLongEnough(target, time)
           elapsed == overhead + cost * ws
           size == Scaled(ws, target, elapsed)
<1>1. /\ ws \in CalSizes
      /\ time[ws] >= target \/ ws = CalCap
  <2>1. \A u \in CalSizes : time[u] \in Int
    BY CalSizesLaunchable
  <2> QED
    BY <2>1, LoopEnds
<1> HIDE DEF ws
<1>2. ws \in Nat \ {0} /\ ws <= Word - Granule /\ time[ws] = elapsed
  BY <1>1, CalSizesLaunchable DEF Launchable
<1>3. elapsed \in Nat \ {0} /\ cost * ws <= elapsed
  BY <1>2
<1>4. ws * target <= elapsed * (Word - Granule)
  BY <1>2, NotTooFar
<1>5. target <= 4 * elapsed
  <2>1. CASE time[ws] >= target
    BY <1>2, <1>3, <2>1
  <2>2. CASE ws = CalCap
    <3>1. cost * (Word - Granule) <= cost * Word /\ cost * Word = 4 * (cost * ws)
      BY <1>2, <2>2, WidthAssumption
    <3> QED
      BY <1>2, <3>1
  <2> QED
    BY <1>1, <2>1, <2>2
<1> HIDE DEF elapsed
<1>6. /\ Launchable(size) /\ size \in Nat
      /\ elapsed * size >= ws * target
      /\ elapsed * size < ws * target + elapsed * Granule
  BY <1>2, <1>3, <1>4, ScaledFits
<1> HIDE DEF size
<1>7. cost * size <= target + cost * Granule
  BY <1>2, <1>3, <1>6, NotTooLong
<1>8. target <= 4 * overhead + cost * size
  BY <1>2, <1>3, <1>5, <1>6, NotTooShort DEF elapsed
<1>9. calcWorkSizeForMilliseconds(target, time) = size
  BY <1>2 DEF calcWorkSizeForMilliseconds, ws, size, elapsed
<1>10. cost * size \in Int /\ cost * Granule = Granule * cost /\ Granule * cost \in Int
  BY <1>6
<1> QED
  BY <1>6, <1>7, <1>8, <1>9, <1>10

\* A throttled device hashes for its share of the time and idles for no whole
\* time unit less than that leaves.
THEOREM IdleIsExact ==
    ASSUME NEW elapsed \in Nat, NEW dutyCycle \in 1..100
    PROVE  LET idle == idleFor(elapsed, dutyCycle)
           IN  /\ dutyCycle * (elapsed + idle) <= 100 * elapsed
               /\ dutyCycle * (elapsed + idle + 1) > 100 * elapsed
<1>1. CASE dutyCycle = 100
  BY <1>1 DEF idleFor
<1>2. CASE dutyCycle < 100
  <2> DEFINE x == elapsed * (100 - dutyCycle)
             idle == x \div dutyCycle
  <2>1. x \in Int /\ dutyCycle \in Nat \ {0}
    OBVIOUS
  <2>2. /\ idle \in Int /\ x % dutyCycle \in 0..(dutyCycle - 1)
        /\ x = dutyCycle * idle + (x % dutyCycle)
    <3> HIDE DEF x
    <3> QED
      BY <2>1, Division
  <2>3. x = 100 * elapsed - dutyCycle * elapsed
    OBVIOUS
  <2>4. idleFor(elapsed, dutyCycle) = idle
    BY <1>2 DEF idleFor
  <2> HIDE DEF x, idle
  <2>5. /\ dutyCycle * (elapsed + idle) = dutyCycle * elapsed + dutyCycle * idle
        /\ dutyCycle * (elapsed + idle + 1)
             = dutyCycle * elapsed + dutyCycle * idle + dutyCycle
    BY <2>2
  <2>6. dutyCycle * idle \in Int /\ dutyCycle * elapsed \in Int
    BY <2>2
  <2> QED
    BY <2>1, <2>2, <2>3, <2>4, <2>5, <2>6
<1> QED
  BY <1>1, <1>2
-----------------------------------------------------------------------------
(***************************************************************************)
(* The size a device gets.                                                 *)
(***************************************************************************)
LEMMA OwnOrFirstIsGiven ==
    ASSUME NEW values \in Seq(Int), values # <<>>, NEW order \in Nat
    PROVE  OwnOrFirst(values, order) \in Given(values) /\ OwnOrFirst(values, order) \in Int
<1>1. Len(values) \in Nat \ {0}
  OBVIOUS
<1>2. CASE order < Len(values)
  BY <1>1, <1>2 DEF OwnOrFirst, Given
<1>3. CASE ~(order < Len(values))
  BY <1>1, <1>3 DEF OwnOrFirst, Given
<1> QED
  BY <1>2, <1>3

\* Accepted settings give a size OpenCL can launch; calibration does for a target
\* neither too short nor too long.
LEMMA WorkSizeLaunchable ==
    ASSUME NEW s, s.worksize \in Seq(Int), s.intensity \in Seq(Int),
           s.autocalibrate \in Seq(Int), s.autocalibrate # <<>>,
           Accepts(s), NEW order \in Nat,
           NEW cost \in Nat \ {0}, NEW overhead \in Nat,
           NEW time, \A ws \in CalSizes : time[ws] = overhead + cost * ws,
           s.worksize = <<>> /\ s.intensity = <<>> =>
              /\ OwnOrFirst(s.autocalibrate, order) > 0
              /\ OwnOrFirst(s.autocalibrate, order) < overhead + cost * (Word - Granule)
    PROVE  Launchable(WorkSize(s, order, time))
<1>1. CASE s.worksize # <<>>
  <2>1. WorkSizeAccepted(OwnOrFirst(s.worksize, order))
    BY <1>1, OwnOrFirstIsGiven DEF Accepts
  <2>2. Launchable(Uint32(OwnOrFirst(s.worksize, order)))
    <3>1. \A v \in Int : Uint32(v) \in Int
      BY DEF Uint32
    <3>2. OwnOrFirst(s.worksize, order) \in Int
      BY <1>1, OwnOrFirstIsGiven
    <3> QED
      BY <2>1, <3>1, <3>2 DEF WorkSizeAccepted, Launchable
  <2> QED
    BY <1>1, <2>2 DEF WorkSize
<1>2. CASE s.worksize = <<>> /\ s.intensity # <<>>
  <2>1. OwnOrFirst(s.intensity, order) \in MinIntensity..MaxIntensity
    BY <1>2, OwnOrFirstIsGiven DEF Accepts
  <2>2. Launchable(2^OwnOrFirst(s.intensity, order))
    BY <2>1, PowerLaunchable
  <2> QED
    BY <1>2, <2>2 DEF WorkSize
<1>3. CASE s.worksize = <<>> /\ s.intensity = <<>>
  <2> DEFINE target == OwnOrFirst(s.autocalibrate, order)
  <2>1. target \in Int
    BY OwnOrFirstIsGiven
  <2>2. target \in Nat \ {0}
    BY <1>3, <2>1
  <2>3. Launchable(calcWorkSizeForMilliseconds(target, time))
    <3> HIDE DEF target
    <3>1. target < overhead + cost * (Word - Granule)
      BY <1>3 DEF target
    <3> QED
      BY <2>2, <3>1, CalibrationIsClose
  <2> QED
    BY <1>3, <2>3 DEF WorkSize
<1> QED
  BY <1>1, <1>2, <1>3
=============================================================================
