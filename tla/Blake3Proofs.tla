---------------------------- MODULE Blake3Proofs ----------------------------
(***************************************************************************)
(* The host and the kernel compute BLAKE3 for every header.  The three     *)
(* compressions share the rounds; what has to be shown is that every round *)
(* is given the same 16 words.                                             *)
(***************************************************************************)
EXTENDS Blake3, SequenceTheorems, TLAPS

-----------------------------------------------------------------------------
(***************************************************************************)
(* The host's schedule.                                                    *)
(***************************************************************************)
LEMMA OrderIsPermuted ==
    /\ DefinedOrder[1] = [j \in 1..16 |-> j]
    /\ \A n \in 1..6 : DefinedOrder[n + 1] = Permuted(DefinedOrder[n])
<1> DEFINE o1 == [j \in 1..16 |-> j]
           o2 == Permuted(o1)  o3 == Permuted(o2)  o4 == Permuted(o3)
           o5 == Permuted(o4)  o6 == Permuted(o5)  o7 == Permuted(o6)
<1>1. DefinedOrder = <<o1, o2, o3, o4, o5, o6, o7>>
  BY DEF DefinedOrder
<1>2. /\ o2 = Permuted(o1) /\ o3 = Permuted(o2) /\ o4 = Permuted(o3)
      /\ o5 = Permuted(o4) /\ o6 = Permuted(o5) /\ o7 = Permuted(o6)
  OBVIOUS
<1>3. o1 = [j \in 1..16 |-> j]
  OBVIOUS
<1> HIDE DEF o1, o2, o3, o4, o5, o6, o7
<1> QED
  BY <1>1, <1>2, <1>3

LEMMA ScheduleIsPermuted ==
    ASSUME NEW n \in 1..6, NEW i \in 1..16
    PROVE  Schedule[n + 1][i] = Schedule[n][Permutation[i] + 1]
<1> USE DEF Schedule, Permutation
<1>1. CASE n = 1 BY <1>1
<1>2. CASE n = 2 BY <1>2
<1>3. CASE n = 3 BY <1>3
<1>4. CASE n = 4 BY <1>4
<1>5. CASE n = 5 BY <1>5
<1>6. CASE n = 6 BY <1>6
<1> QED
  BY <1>1, <1>2, <1>3, <1>4, <1>5, <1>6

LEMMA PermutationType == \A i \in 1..16 : Permutation[i] + 1 \in 1..16
BY DEF Permutation

\* The schedule written out in compress is the message permutation repeated.
LEMMA ScheduleIsDefined ==
    \A n \in 1..7 : \A i \in 1..16 : DefinedOrder[n][i] = Schedule[n][i] + 1
<1> DEFINE same(n) == \A i \in 1..16 : DefinedOrder[n][i] = Schedule[n][i] + 1
<1>1. same(1)
  BY OrderIsPermuted DEF Schedule
<1>2. ASSUME NEW n \in 1..6, same(n) PROVE same(n + 1)
  <2>1. DefinedOrder[n + 1] = Permuted(DefinedOrder[n])
    BY OrderIsPermuted
  <2> QED
    BY <1>2, <2>1, ScheduleIsPermuted, PermutationType DEF Permuted
<1> HIDE DEF same
<1>3. same(2) /\ same(3) /\ same(4)
  BY <1>1, <1>2
<1>4. same(5) /\ same(6) /\ same(7)
  BY <1>2, <1>3
<1> QED
  BY <1>1, <1>3, <1>4 DEF same

LEMMA ScheduleType == \A n \in 1..7 : \A i \in 1..16 : Schedule[n][i] \in 0..15
BY DEF Schedule

LEMMA HostWords ==
    ASSUME NEW block
    PROVE  WordsOf(Schedule, [j \in 0..15 |-> block[j + 1]]) = WordsOf(DefinedOrder, block)
BY ScheduleIsDefined, ScheduleType DEF WordsOf

\* The host's compression is the hash's, whatever it is given.
THEOREM CompressAsDefined ==
    ASSUME NEW cv, NEW block, NEW blockLen, NEW flags
    PROVE  compress(cv, block, blockLen, flags) = Compression(cv, block, blockLen, flags)
BY HostWords DEF compress, Compression

\* A slice of a header.
LEMMA Slices ==
    ASSUME NEW data \in HeaderWords, NEW from \in 1..48, NEW to \in 1..48, from <= to
    PROVE  /\ Len(SubSeq(data, from, to)) = to - from + 1
           /\ \A i \in 1..(to - from + 1) : SubSeq(data, from, to)[i] = data[from + i - 1]
<1>1. \A i \in from..to : data[i] \in Words32
  BY DEF HeaderWords
<1> HIDE DEF HeaderWords
<1> QED
  BY <1>1, SubSeqProperties

LEMMA FullBlock ==
    ASSUME NEW data \in HeaderWords, NEW from \in {1, 17}, NEW cv, NEW flags
    PROVE  Block(cv, SubSeq(data, from, from + 15), flags) =
             Compression(cv, [i \in 1..16 |-> data[from + i - 1]], 64, flags)
<1> DEFINE slice == SubSeq(data, from, from + 15)
<1>1. Len(slice) = 16 /\ \A i \in 1..16 : slice[i] = data[from + i - 1]
  BY Slices
<1> HIDE DEF slice
<1>2. intoWords(slice) = [i \in 1..16 |-> data[from + i - 1]] /\ 4 * Len(slice) = 64
  BY <1>1 DEF intoWords
<1>3. Block(cv, slice, flags) = Compression(cv, intoWords(slice), 4 * Len(slice), flags)
  BY CompressAsDefined DEF Block
<1> QED
  BY <1>2, <1>3 DEF slice

LEMMA LastBlock ==
    ASSUME NEW data \in HeaderWords
    PROVE  LET slice == SubSeq(data, 33, 45)
           IN  /\ intoWords(slice) = [i \in 1..16 |-> IF i <= 13 THEN data[32 + i] ELSE Zero]
               /\ 4 * Len(slice) = 52
<1> DEFINE slice == SubSeq(data, 33, 45)
<1>1. Len(slice) = 13 /\ \A i \in 1..13 : slice[i] = data[33 + i - 1]
  BY Slices
<1> HIDE DEF slice
<1>2. \A i \in 1..13 : 33 + i - 1 = 32 + i
  OBVIOUS
<1>3. intoWords(slice) = [i \in 1..16 |-> IF i <= 13 THEN data[32 + i] ELSE Zero]
  BY <1>1, <1>2 DEF intoWords
<1> QED
  BY <1>1, <1>3 DEF slice

\* The host's hash of a header is the one BLAKE3 defines, for every header.
THEOREM HostHashes ==
    ASSUME NEW data \in HeaderWords
    PROVE  HashesAsDefined(data)
<1> DEFINE words(from) == [i \in 1..16 |-> data[from + i - 1]]
           last == [i \in 1..16 |-> IF i <= 13 THEN data[32 + i] ELSE Zero]
           cv1 == Compression(IV, words(1), 64, FlagChunkStart)
           cv2 == Compression(cv1, words(17), 64, 0)
<1>1. Block(IV, SubSeq(data, 1, 16), FlagChunkStart) = cv1
  <2>1. 1 + 15 = 16
    OBVIOUS
  <2> QED
    BY <2>1, FullBlock
<1>2. Block(cv1, SubSeq(data, 17, 32), 0) = cv2
  <2>1. 17 + 15 = 32
    OBVIOUS
  <2> HIDE DEF cv1
  <2> QED
    BY <2>1, FullBlock
<1>3. Midstate(data) = cv2
  BY <1>1, <1>2 DEF Midstate
<1>4. FinalBlock(cv2, SubSeq(data, 33, 45)) = Compression(cv2, last, 52, flagChunkEnd + flagRoot)
  <2> HIDE DEF cv2
  <2> QED
    BY CompressAsDefined, LastBlock DEF FinalBlock, Block
<1>5. HeaderHash(data) = Compression(cv2, last, 52, flagChunkEnd + flagRoot)
  BY DEF HeaderHash
<1> QED
  BY <1>3, <1>4, <1>5 DEF HashesAsDefined, HostHash
-----------------------------------------------------------------------------
(***************************************************************************)
(* The kernel.                                                             *)
(***************************************************************************)
\* The kernel's schedule leaves out the words behind the end of the header.
LEMMA KernelRows ==
    ASSUME NEW n \in 1..7, NEW i \in 1..16
    PROVE  KernelSchedule[n][i] = IF Schedule[n][i] <= 12 THEN Schedule[n][i] ELSE No
<1> USE DEF Schedule, KernelSchedule, No
<1>1. CASE n = 1 BY <1>1
<1>2. CASE n = 2 BY <1>2
<1>3. CASE n = 3 BY <1>3
<1>4. CASE n = 4 BY <1>4
<1>5. CASE n = 5 BY <1>5
<1>6. CASE n = 6 BY <1>6
<1>7. CASE n = 7 BY <1>7
<1> QED
  BY <1>1, <1>2, <1>3, <1>4, <1>5, <1>6, <1>7

\* The host takes the last word of the same state.
LEMMA LastOutput == ASSUME NEW v PROVE Output(v)[8] = LastWord(v)
BY DEF Output, LastWord

\* For every header, midstate and nonce the kernel's last word is the host's.
THEOREM KernelFollowsHost ==
    ASSUME NEW data \in HeaderWords
    PROVE  KernelAgrees(data)
<1> DEFINE cv == SubSeq(data, 1, 8)
           block == SubSeq(data, 33, 48)
           args == setKernelArgs(block)
           nonce == block[Nonce0Word + 1]
           k == [j \in (0..12) \cup {No} |->
                    CASE j < Nonce0Word        -> args[j + 1]
                      [] j = Nonce0Word        -> nonce
                      [] j \in Nonce0Word+1..12 -> args[j]
                      [] j = No                -> Zero]
           padded == [i \in 1..16 |-> IF i <= 13 THEN data[32 + i] ELSE Zero]
           h == [j \in 0..15 |-> padded[j + 1]]
<1>1. \A j \in 1..16 : block[j] = data[32 + j]
  <2>1. \A j \in 1..16 : block[j] = data[33 + j - 1]
    BY Slices
  <2>2. \A j \in 1..16 : 33 + j - 1 = 32 + j
    OBVIOUS
  <2> QED
    BY <2>1, <2>2
<1>2. \A j \in 0..12 : k[j] = data[32 + j + 1]
  <2> HIDE DEF block
  <2>1. nonce = data[36]
    BY <1>1 DEF Nonce0Word
  <2>2. \A i \in 1..12 : args[i] = IF i <= 3 THEN data[32 + i] ELSE data[33 + i]
    BY <1>1 DEF setKernelArgs, Nonce0Word
  <2> HIDE DEF args, nonce
  <2> QED
    BY <2>1, <2>2 DEF Nonce0Word, No
<1>3. k[No] = Zero
  <2> HIDE DEF args, nonce
  <2> QED
    BY DEF No, Nonce0Word
<1>4. \A j \in 0..15 : h[j] = IF j <= 12 THEN data[32 + j + 1] ELSE Zero
  OBVIOUS
<1> HIDE DEF k, h
<1>5. WordsOf(KernelSchedule, k) = WordsOf(Schedule, h)
  <2>1. ASSUME NEW n \in 1..7, NEW i \in 1..16
        PROVE  k[KernelSchedule[n][i]] = h[Schedule[n][i]]
    <3>1. /\ Schedule[n][i] \in 0..15
          /\ KernelSchedule[n][i] = IF Schedule[n][i] <= 12 THEN Schedule[n][i] ELSE No
      BY KernelRows, ScheduleType
    <3> QED
      BY <1>2, <1>3, <1>4, <3>1
  <2> QED
    BY <2>1 DEF WordsOf
<1>6. search(cv, args, nonce) = LastWord(Rounds(StartState(cv, 52, 10), WordsOf(KernelSchedule, k)))
  <2> HIDE DEF cv, args, nonce
  <2> QED
    BY DEF search, k
<1>7. FinalBlock(cv, SubSeq(data, 33, 45)) =
        Output(Rounds(StartState(cv, 52, 10), WordsOf(Schedule, h)))
  <2>1. FinalBlock(cv, SubSeq(data, 33, 45)) = compress(cv, padded, 52, 10)
    <3> HIDE DEF cv
    <3>1. flagChunkEnd + flagRoot = 10
      BY DEF flagChunkEnd, flagRoot
    <3> QED
      BY <3>1, LastBlock DEF FinalBlock, Block
  <2> HIDE DEF cv, padded
  <2> QED
    BY <2>1 DEF compress, h
<1> QED
  BY <1>5, <1>6, <1>7, LastOutput DEF KernelAgrees
=============================================================================
