---------------------------- MODULE DeviceProofs ----------------------------
(***************************************************************************)
(* What holds of the devices for any number of them, any size of the       *)
(* output buffer, any width of the nonces and any bounds.                  *)
(***************************************************************************)
EXTENDS Device, TuningProofs

USE DevAssumption, NonceAssumption, SlotsAssumption, BoundAssumption
-----------------------------------------------------------------------------
(***************************************************************************)
(* Types.                                                                  *)
(***************************************************************************)
LEMMA DeviceBytes ==
    ASSUME ControlTypes, NEW d \in Dev
    PROVE  DeviceID(d) \in 0..(Byte - 1) /\ DeviceOffset(d) \in 0..(Byte - 1)
BY DEF DeviceID, DeviceOffset, ControlTypes

LEMMA RolloverType == ASSUME NEW v \in Nat PROVE RolloverExtraNonce(v) \in Nat
BY DEF RolloverExtraNonce

LEMMA SolutionsCounted ==
    ASSUME NEW S \in SUBSET (0..MaxNonce) PROVE Cardinality(S) \in Nat
<1>1. IsFiniteSet(0..MaxNonce)
  BY FS_Interval
<1> QED
  BY <1>1, FS_Subset, FS_CardinalityType

LEMMA TypeOKInit == Init => TypeOK
<1> SUFFICES ASSUME Init PROVE TypeOK
  OBVIOUS
<1> USE DEF Init
<1>1. ControlTypes
  BY DEF ControlTypes
<1>2. NonceTypes
  BY DEF NonceTypes, Headers
<1>3. ItemTypes
  BY DEF ItemTypes
<1>4. OutputTypes
  BY DEF OutputTypes
<1>5. HostTypes /\ SolutionTypes
  BY DEF HostTypes, SolutionTypes
<1> QED
  BY <1>1, <1>2, <1>3, <1>4, <1>5 DEF TypeOK

LEMMA ControlTypesNext == TypeOK /\ [Next]_vars => ControlTypes'
<1> SUFFICES ASSUME ControlTypes, [Next]_vars PROVE ControlTypes'
  BY DEF TypeOK
<1> USE DEF ControlTypes, envVars, Step
<1>1. CASE UNCHANGED vars
  BY <1>1 DEF vars
<1>2. ASSUME NEW d \in Dev, NewDevice(d) \/ NewDeviceFails(d) PROVE ControlTypes'
  BY <1>2 DEF NewDevice, NewDeviceFails
<1>3. ASSUME NEW d \in Dev, runDevice(d) PROVE ControlTypes'
  BY <1>3 DEF runDevice, initNonces, updateCurrentWork, Launch, ReadCount, StoreCount,
              WriteNonce, ReadOutput, foundCandidate, NextTurn, DeviceEnds
<1> QED
  BY <1>1, <1>2, <1>3 DEF Next

LEMMA NonceTypesNext == TypeOK /\ [Next]_vars => NonceTypes'
<1> SUFFICES ASSUME NonceTypes, ControlTypes, [Next]_vars PROVE NonceTypes'
  BY DEF TypeOK
<1>1. CASE UNCHANGED vars
  BY <1>1 DEF vars, nonceVars, NonceTypes
<1>2. ASSUME NEW d \in Dev, NewDevice(d) \/ NewDeviceFails(d) PROVE NonceTypes'
  BY <1>2 DEF NewDevice, NewDeviceFails, nonceVars, NonceTypes
<1>3. ASSUME NEW d \in Dev, initNonces(d) PROVE NonceTypes'
  <2>1. \A r \in LowNonces : DeviceOffset(d) * Low + r \in Nat
    BY DeviceBytes
  <2> QED
    BY <1>3, <2>1 DEF initNonces, NonceTypes
<1>4. ASSUME NEW d \in Dev, updateCurrentWork(d) PROVE NonceTypes'
  <2>1. \A w \in (work[d] + 1)..MaxWork : w \in Nat /\ HeaderOf(d, w) \in Headers
    <3> SUFFICES ASSUME NEW w \in (work[d] + 1)..MaxWork
                 PROVE  w \in Nat /\ HeaderOf(d, w) \in Headers
      OBVIOUS
    <3>1. w \in Nat
      BY DEF NonceTypes
    <3>2. /\ lastBlock[d] \in Headers /\ DeviceID(d) \in 0..(Byte - 1)
          /\ extraNonce[d] \in Nat /\ extraNonce2[d] \in Nat
      BY DeviceBytes DEF NonceTypes
    <3> QED
      BY <3>1, <3>2 DEF HeaderOf, Headers
  <2> QED
    BY <1>4, <2>1 DEF updateCurrentWork, NonceTypes
<1>5. ASSUME NEW d \in Dev, Launch(d) PROVE NonceTypes'
  <2>1. extraNonce2'[d] \in Nat /\ extraNonce2' \in [Dev -> Nat]
    BY <1>5, RolloverType DEF Launch, NonceTypes
  <2>2. lastBlock' \in [Dev -> Headers]
    <3>1. PICK t \in Times :
            lastBlock' = [lastBlock EXCEPT ![d].n2 = extraNonce2'[d], ![d].time = t]
      BY <1>5 DEF Launch
    <3>2. lastBlock[d] \in Headers /\ t \in Nat
      BY DEF NonceTypes
    <3>3. [[lastBlock[d] EXCEPT !.n2 = extraNonce2'[d]] EXCEPT !.time = t] \in Headers
      BY <2>1, <3>2 DEF Headers
    <3> QED
      BY <3>1, <3>3 DEF NonceTypes
  <2> QED
    BY <1>5, <2>1, <2>2 DEF Launch, NonceTypes
<1>6. ASSUME NEW d \in Dev, UNCHANGED nonceVars PROVE NonceTypes'
  BY <1>6 DEF nonceVars, NonceTypes
<1>7. ASSUME NEW d \in Dev, runDevice(d) PROVE NonceTypes'
  BY <1>3, <1>4, <1>5, <1>6, <1>7 DEF runDevice, ReadCount, StoreCount,
              WriteNonce, ReadOutput, foundCandidate, NextTurn, DeviceEnds
<1> QED
  BY <1>1, <1>2, <1>7 DEF Next

LEMMA ItemTypesNext == TypeOK /\ [Next]_vars => ItemTypes'
<1> SUFFICES ASSUME ItemTypes, OutputTypes, [Next]_vars PROVE ItemTypes'
  BY DEF TypeOK
<1>1. ASSUME UNCHANGED itemVars PROVE ItemTypes'
  BY <1>1 DEF itemVars, ItemTypes
<1>2. ASSUME NEW d \in Dev, Launch(d) PROVE ItemTypes'
  BY <1>2 DEF Launch, ItemTypes
<1>3. ASSUME NEW d \in Dev, ReadCount(d) PROVE ItemTypes'
  <2>1. PICK n \in loading[d] :
          /\ loading' = [loading EXCEPT ![d] = @ \ {n}]
          /\ storing' = [storing EXCEPT ![d] = @ \cup {[nonce |-> n, val |-> count[d]]}]
    BY <1>3 DEF ReadCount
  <2>2. [nonce |-> n, val |-> count[d]] \in Items
    BY DEF Items, ItemTypes, OutputTypes
  <2> QED
    BY <1>3, <2>1, <2>2 DEF ReadCount, ItemTypes
<1>4. ASSUME NEW d \in Dev, StoreCount(d) PROVE ItemTypes'
  BY <1>4 DEF StoreCount, SlotOf, ItemTypes, Items
<1>5. ASSUME NEW d \in Dev, WriteNonce(d) PROVE ItemTypes'
  BY <1>5 DEF WriteNonce, ItemTypes
<1> QED
  BY <1>1, <1>2, <1>3, <1>4, <1>5
     DEF Next, NewDevice, NewDeviceFails, runDevice, initNonces, updateCurrentWork,
         ReadOutput, foundCandidate, NextTurn, DeviceEnds, vars

LEMMA OutputTypesNext == TypeOK /\ [Next]_vars => OutputTypes'
<1> SUFFICES ASSUME ItemTypes, OutputTypes, [Next]_vars PROVE OutputTypes'
  BY DEF TypeOK
<1>1. ASSUME UNCHANGED outputVars PROVE OutputTypes'
  BY <1>1 DEF outputVars, OutputTypes
<1>2. ASSUME NEW d \in Dev, NewDevice(d) PROVE OutputTypes'
  BY <1>2 DEF NewDevice, OutputTypes
<1>3. ASSUME NEW d \in Dev, Launch(d) PROVE OutputTypes'
  BY <1>3 DEF Launch, ClearedCount, OutputTypes
<1>4. ASSUME NEW d \in Dev, StoreCount(d) PROVE OutputTypes'
  BY <1>4 DEF StoreCount, ItemTypes, OutputTypes, Items
<1>5. ASSUME NEW d \in Dev, WriteNonce(d) PROVE OutputTypes'
  <2>1. PICK item \in writing[d] :
          /\ buffer' = [buffer EXCEPT ![d] =
                [i \in 1..Slots |-> IF i = item.val THEN item.nonce ELSE buffer[d][i]]]
          /\ filled' = [filled EXCEPT ![d] = @ \cup {item.val}]
    BY <1>5 DEF WriteNonce, OutputTypes
  <2>2. item.nonce \in Nat /\ item.val \in Nat
    BY DEF ItemTypes, Items
  <2>3. [i \in 1..Slots |-> IF i = item.val THEN item.nonce ELSE buffer[d][i]]
            \in [1..Slots -> Nat]
    BY <2>2 DEF OutputTypes
  <2> QED
    BY <1>5, <2>1, <2>2, <2>3 DEF WriteNonce, OutputTypes
<1>6. ASSUME NEW d \in Dev, NextTurn(d) PROVE OutputTypes'
  BY <1>6 DEF NextTurn, OutputTypes
<1> QED
  BY <1>1, <1>2, <1>3, <1>4, <1>5, <1>6
     DEF Next, NewDeviceFails, runDevice, initNonces, updateCurrentWork, ReadCount,
         ReadOutput, foundCandidate, DeviceEnds, vars

LEMMA HostTypesNext == TypeOK /\ [Next]_vars => HostTypes'
<1> SUFFICES ASSUME HostTypes, [Next]_vars PROVE HostTypes'
  BY DEF TypeOK
<1>1. ASSUME UNCHANGED hostVars PROVE HostTypes'
  BY <1>1 DEF hostVars, HostTypes
<1>2. ASSUME NEW d \in Dev, ReadOutput(d) PROVE HostTypes'
  BY <1>2 DEF ReadOutput, HostTypes
<1>3. ASSUME NEW d \in Dev, foundCandidate(d) PROVE HostTypes'
  <2>1. next' \in [Dev -> Nat \ {0}]
    BY <1>3 DEF foundCandidate, HostTypes
  <2>2. shares' \in [Dev -> Nat]
    BY <1>3 DEF foundCandidate, HostTypes
  <2>3. hashMismatches' \in [Dev -> Nat]
    BY <1>3 DEF foundCandidate, HostTypes
  <2> QED
    BY <2>1, <2>2, <2>3 DEF HostTypes
<1>4. ASSUME NEW d \in Dev, NextTurn(d) PROVE HostTypes'
  BY <1>4 DEF NextTurn, HostTypes
<1> QED
  BY <1>1, <1>2, <1>3, <1>4
     DEF Next, NewDevice, NewDeviceFails, runDevice, initNonces, updateCurrentWork,
         Launch, ReadCount, StoreCount, WriteNonce, DeviceEnds, vars

LEMMA SolutionTypesNext == TypeOK /\ [Next]_vars => SolutionTypes'
<1> SUFFICES ASSUME SolutionTypes, [Next]_vars PROVE SolutionTypes'
  BY DEF TypeOK
<1>1. ASSUME UNCHANGED solutionVars PROVE SolutionTypes'
  BY <1>1 DEF solutionVars, SolutionTypes
<1>2. ASSUME NEW d \in Dev, Launch(d) PROVE SolutionTypes'
  BY <1>2, SolutionsCounted DEF Launch, SolutionTypes
<1>3. ASSUME NEW d \in Dev, NextTurn(d) PROVE SolutionTypes'
  BY <1>3 DEF NextTurn, SolutionTypes
<1> QED
  BY <1>1, <1>2, <1>3
     DEF Next, NewDevice, NewDeviceFails, runDevice, initNonces, updateCurrentWork,
         ReadCount, StoreCount, WriteNonce, ReadOutput, foundCandidate, DeviceEnds, vars

LEMMA TypeOKNext == TypeOK /\ [Next]_vars => TypeOK'
BY ControlTypesNext, NonceTypesNext, ItemTypesNext, OutputTypesNext, HostTypesNext,
   SolutionTypesNext DEF TypeOK

\* Every value keeps its type, and the byte of the device's index in the third
\* nonce word stays a byte.
THEOREM DeviceTypeCorrect == Spec => []TypeOK
<1>1. Init => TypeOK
  BY TypeOKInit
<1>2. TypeOK /\ [Next]_vars => TypeOK'
  BY TypeOKNext
<1> QED
  BY <1>1, <1>2, PTL DEF Spec
-----------------------------------------------------------------------------
(***************************************************************************)
(* The race on the count.  The invariant follows every solution of the     *)
(* launch: it is waiting to read the count, to store it or to be written,  *)
(* or it is in a slot, or another one has overwritten it there; and every  *)
(* slot up to the count has been written or is about to be.                *)
(***************************************************************************)
\* The devices only run when all are constructed.
AllBuilt ==
    (\E d \in Dev : pc[d] \notin {"new", "nonces", "done"}) => \A d \in Dev : pc[d] # "new"

Filled(d) == filled[d] \cap (1..Slots)

ItemsSolve(d) ==
    /\ loading[d] \subseteq winners[d]
    /\ \A item \in storing[d] \cup writing[d] : item.nonce \in winners[d]
    /\ \A i \in Filled(d) : buffer[d][i] \in winners[d]

Covered(d, n) == \A i \in 1..n : i \in filled[d] \/ \E item \in writing[d] : item.val = i

CountCovered(d) ==
    /\ Covered(d, count[d])
    /\ \A item \in storing[d] : Covered(d, item.val)

Once(d) ==
    /\ \A item \in storing[d] \cup writing[d] : item.nonce \notin loading[d]
    /\ \A s \in storing[d], w \in writing[d] : s.nonce # w.nonce
    /\ \A s, t \in storing[d] : s.nonce = t.nonce => s = t
    /\ \A w, v \in writing[d] : w.nonce = v.nonce => w = v
    /\ \A i \in Filled(d) :
            /\ buffer[d][i] \notin loading[d]
            /\ \A item \in storing[d] \cup writing[d] : item.nonce # buffer[d][i]
    /\ \A i, j \in Filled(d) : buffer[d][i] = buffer[d][j] => i = j

FirstPending(d) ==
    count[d] = 0 =>
        /\ writing[d] = {}
        /\ \A n \in winners[d] : n \in loading[d] \/ \E item \in storing[d] : item.nonce = n

Race(d) ==
    /\ pc[d] \in {"kernel", "candidates"} =>
            ItemsSolve(d) /\ CountCovered(d) /\ Once(d) /\ FirstPending(d)
    /\ pc[d] # "kernel" => loading[d] = {} /\ storing[d] = {} /\ writing[d] = {}

LEMMA AllBuiltNext == TypeOK /\ AllBuilt /\ [Next]_vars => AllBuilt'
<1> SUFFICES ASSUME ControlTypes, AllBuilt, [Next]_vars PROVE AllBuilt'
  BY DEF TypeOK
<1> USE DEF AllBuilt, ControlTypes, Step
<1>1. CASE UNCHANGED vars
  BY <1>1 DEF vars
<1>2. ASSUME NEW d \in Dev, NewDevice(d) \/ NewDeviceFails(d) PROVE AllBuilt'
  BY <1>2 DEF NewDevice, NewDeviceFails
<1>3. ASSUME NEW d \in Dev, runDevice(d) PROVE AllBuilt'
  <2>1. CASE pc' = pc
    BY <2>1
  <2>2. CASE initNonces(d)
    BY <2>2 DEF initNonces
  <2>3. CASE updateCurrentWork(d) \/ Launch(d) \/ ReadOutput(d) \/ NextTurn(d)
    BY <2>3 DEF updateCurrentWork, Launch, ReadOutput, NextTurn
  <2>4. CASE DeviceEnds(d)
    BY <2>4 DEF DeviceEnds
  <2> QED
    BY <1>3, <2>1, <2>2, <2>3, <2>4
       DEF runDevice, ReadCount, StoreCount, WriteNonce, foundCandidate
<1> QED
  BY <1>1, <1>2, <1>3 DEF Next

\* A step of another device leaves a device's race alone.
LEMMA RaceKept ==
    ASSUME NEW e \in Dev, Race(e), pc'[e] = pc[e],
           loading'[e] = loading[e], storing'[e] = storing[e], writing'[e] = writing[e],
           count'[e] = count[e], buffer'[e] = buffer[e], filled'[e] = filled[e],
           winners'[e] = winners[e]
    PROVE  Race(e)'
BY DEF Race, ItemsSolve, CountCovered, Covered, Once, FirstPending, Filled

\* Outside the kernel and the candidates only the items have to be gone.
LEMMA RaceElsewhere ==
    ASSUME NEW e \in Dev, Race(e), pc[e] # "kernel",
           pc'[e] \notin {"kernel", "candidates"}, UNCHANGED itemVars
    PROVE  Race(e)'
BY DEF Race, itemVars

LEMMA RaceLaunch ==
    ASSUME TypeOK, NEW d \in Dev, Race(d), Launch(d)
    PROVE  Race(d)'
<1>1. /\ pc[d] = "launch" /\ pc'[d] = "kernel"
      /\ loading'[d] = winners'[d] /\ storing' = storing /\ writing' = writing
      /\ count'[d] = 0 /\ filled'[d] = {}
  BY DEF Launch, Step, ClearedCount, TypeOK, ControlTypes, ItemTypes, OutputTypes, SolutionTypes
<1>2. storing[d] = {} /\ writing[d] = {}
  BY <1>1 DEF Race
<1>3. ItemsSolve(d)' /\ CountCovered(d)'
  BY <1>1, <1>2 DEF ItemsSolve, CountCovered, Covered, Filled
<1>4. Once(d)' /\ FirstPending(d)'
  BY <1>1, <1>2 DEF Once, FirstPending, Filled
<1> QED
  BY <1>1, <1>3, <1>4 DEF Race

LEMMA RaceReadCount ==
    ASSUME TypeOK, NEW d \in Dev, Race(d), ReadCount(d)
    PROVE  Race(d)'
<1> DEFINE item(n) == [nonce |-> n, val |-> count[d]]
<1>1. PICK n \in loading[d] :
        /\ loading' = [loading EXCEPT ![d] = @ \ {n}]
        /\ storing' = [storing EXCEPT ![d] = @ \cup {item(n)}]
  BY DEF ReadCount
<1>2. /\ pc' = pc /\ pc[d] = "kernel"
      /\ loading'[d] = loading[d] \ {n} /\ storing'[d] = storing[d] \cup {item(n)}
      /\ writing'[d] = writing[d] /\ count'[d] = count[d] /\ buffer'[d] = buffer[d]
      /\ filled'[d] = filled[d] /\ winners'[d] = winners[d]
  BY <1>1 DEF ReadCount, TypeOK, ItemTypes, outputVars, solutionVars
<1>3. item(n).nonce = n /\ item(n).val = count[d]
  OBVIOUS
<1> HIDE DEF item
<1>4. ItemsSolve(d) /\ CountCovered(d) /\ Once(d) /\ FirstPending(d)
  BY <1>2 DEF Race
<1>5. ItemsSolve(d)'
  BY <1>2, <1>3, <1>4 DEF ItemsSolve, Filled
<1>6. CountCovered(d)'
  BY <1>2, <1>3, <1>4 DEF CountCovered, Covered
<1>7. Once(d)'
  BY <1>2, <1>3, <1>4 DEF Once, Filled
<1>8. FirstPending(d)'
  BY <1>2, <1>3, <1>4 DEF FirstPending
<1> QED
  BY <1>2, <1>5, <1>6, <1>7, <1>8 DEF Race

LEMMA RaceStoreCount ==
    ASSUME TypeOK, NEW d \in Dev, Race(d), StoreCount(d)
    PROVE  Race(d)'
<1>1. PICK item \in storing[d] :
        /\ storing' = [storing EXCEPT ![d] = @ \ {item}]
        /\ count' = [count EXCEPT ![d] = item.val + 1]
        /\ writing' = [writing EXCEPT ![d] = @ \cup {[item EXCEPT !.val = SlotOf(item)]}]
  BY DEF StoreCount
<1> DEFINE stored == [item EXCEPT !.val = SlotOf(item)]
<1>2. /\ pc' = pc /\ pc[d] = "kernel"
      /\ loading'[d] = loading[d] /\ storing'[d] = storing[d] \ {item}
      /\ writing'[d] = writing[d] \cup {stored} /\ count'[d] = item.val + 1
      /\ buffer'[d] = buffer[d] /\ filled'[d] = filled[d] /\ winners'[d] = winners[d]
  BY <1>1 DEF StoreCount, TypeOK, ItemTypes, OutputTypes, solutionVars
<1>3. item.val \in Nat /\ stored.nonce = item.nonce /\ stored.val = item.val + 1
  BY DEF TypeOK, ItemTypes, Items, SlotOf
<1> HIDE DEF stored
<1>4. ItemsSolve(d) /\ CountCovered(d) /\ Once(d) /\ FirstPending(d)
  BY <1>2 DEF Race
<1>5. ItemsSolve(d)'
  BY <1>2, <1>3, <1>4 DEF ItemsSolve, Filled
<1>6. CountCovered(d)'
  <2>1. \A n \in Nat : Covered(d, n) => Covered(d, n)'
    BY <1>2 DEF Covered
  <2>2. Covered(d, item.val)
    BY <1>4 DEF CountCovered
  <2>3. Covered(d, item.val + 1)'
    BY <1>2, <1>3, <2>2 DEF Covered
  <2>4. \A s \in storing[d] : s.val \in Nat
    BY DEF TypeOK, ItemTypes, Items
  <2> QED
    BY <1>2, <1>4, <2>1, <2>3, <2>4 DEF CountCovered, Covered
<1>7. Once(d)'
  BY <1>2, <1>3, <1>4 DEF Once, Filled
<1>8. FirstPending(d)'
  BY <1>2, <1>3 DEF FirstPending
<1> QED
  BY <1>2, <1>5, <1>6, <1>7, <1>8 DEF Race

LEMMA RaceWriteNonce ==
    ASSUME TypeOK, NEW d \in Dev, Race(d), WriteNonce(d)
    PROVE  Race(d)'
<1>1. PICK item \in writing[d] :
        /\ writing' = [writing EXCEPT ![d] = @ \ {item}]
        /\ buffer' = [buffer EXCEPT ![d] =
              [i \in 1..Slots |-> IF i = item.val THEN item.nonce ELSE buffer[d][i]]]
        /\ filled' = [filled EXCEPT ![d] = @ \cup {item.val}]
  BY DEF WriteNonce, TypeOK, OutputTypes
<1>2. /\ pc' = pc /\ pc[d] = "kernel"
      /\ loading'[d] = loading[d] /\ storing'[d] = storing[d]
      /\ writing'[d] = writing[d] \ {item} /\ count'[d] = count[d]
      /\ filled'[d] = filled[d] \cup {item.val} /\ winners'[d] = winners[d]
  BY <1>1 DEF WriteNonce, TypeOK, ItemTypes, OutputTypes, solutionVars
<1>3. \A i \in 1..Slots :
        buffer'[d][i] = IF i = item.val THEN item.nonce ELSE buffer[d][i]
  BY <1>1 DEF TypeOK, OutputTypes
<1>4. ItemsSolve(d) /\ CountCovered(d) /\ Once(d) /\ FirstPending(d)
  BY <1>2 DEF Race
<1>5. ItemsSolve(d)'
  BY <1>2, <1>3, <1>4 DEF ItemsSolve, Filled
<1>6. CountCovered(d)'
  BY <1>2, <1>4 DEF CountCovered, Covered
<1>7. Once(d)'
  BY <1>2, <1>3, <1>4 DEF Once, Filled
<1>8. FirstPending(d)'
  BY <1>2, <1>4 DEF FirstPending
<1> QED
  BY <1>2, <1>5, <1>6, <1>7, <1>8 DEF Race

Races == \A d \in Dev : Race(d)

LEMMA RacesNext == TypeOK /\ AllBuilt /\ Races /\ [Next]_vars => Races'
<1> SUFFICES ASSUME TypeOK, AllBuilt, Races, [Next]_vars, NEW e \in Dev PROVE Race(e)'
  BY DEF Races
<1>1. Race(e)
  BY DEF Races
<1>2. CASE UNCHANGED vars
  BY <1>1, <1>2, RaceKept DEF vars, itemVars, outputVars, solutionVars
<1>3. ASSUME NEW d \in Dev, NewDevice(d) PROVE Race(e)'
  <2>1. pc[e] \in {"new", "nonces", "done"}
    BY <1>3 DEF NewDevice, Step, AllBuilt
  <2>2. pc'[e] \in {"new", "nonces", "done"}
    BY <1>3, <2>1 DEF NewDevice, Step, TypeOK, ControlTypes
  <2> QED
    BY <1>1, <1>3, <2>1, <2>2, RaceElsewhere DEF NewDevice
<1>4. ASSUME NEW d \in Dev, NewDeviceFails(d) PROVE Race(e)'
  <2>1. pc[e] # "kernel" /\ pc'[e] = "done"
    BY <1>4 DEF NewDeviceFails, AllBuilt
  <2> QED
    BY <1>1, <1>4, <2>1, RaceElsewhere DEF NewDeviceFails
<1>5. ASSUME NEW d \in Dev, runDevice(d), d # e PROVE Race(e)'
  <2> USE DEF TypeOK, ControlTypes, ItemTypes, OutputTypes, SolutionTypes, Step,
              itemVars, outputVars, solutionVars
  <2>1. pc'[e] = pc[e]
    BY <1>5 DEF runDevice, initNonces, updateCurrentWork, Launch, ReadCount, StoreCount,
                WriteNonce, ReadOutput, foundCandidate, NextTurn, DeviceEnds
  <2>2. loading'[e] = loading[e] /\ storing'[e] = storing[e] /\ writing'[e] = writing[e]
    BY <1>5 DEF runDevice, initNonces, updateCurrentWork, Launch, ReadCount, StoreCount,
                WriteNonce, ReadOutput, foundCandidate, NextTurn, DeviceEnds
  <2>3. /\ count'[e] = count[e] /\ buffer'[e] = buffer[e] /\ filled'[e] = filled[e]
        /\ winners'[e] = winners[e]
    BY <1>5 DEF runDevice, initNonces, updateCurrentWork, Launch, ReadCount, StoreCount,
                WriteNonce, ReadOutput, foundCandidate, NextTurn, DeviceEnds
  <2> QED
    BY <1>1, <2>1, <2>2, <2>3, RaceKept
<1>6. ASSUME runDevice(e) PROVE Race(e)'
  <2> USE DEF TypeOK, ControlTypes, Step
  <2>1. CASE initNonces(e) \/ updateCurrentWork(e) \/ NextTurn(e) \/ DeviceEnds(e)
    <3>1. pc[e] # "kernel" /\ pc'[e] \notin {"kernel", "candidates"} /\ UNCHANGED itemVars
      BY <2>1 DEF initNonces, updateCurrentWork, NextTurn, DeviceEnds
    <3> QED
      BY <1>1, <3>1, RaceElsewhere
  <2>2. CASE ReadOutput(e)
    <3>1. /\ pc[e] = "kernel" /\ pc'[e] = "candidates"
          /\ loading[e] = {} /\ storing[e] = {} /\ writing[e] = {}
          /\ UNCHANGED <<itemVars, outputVars, winners>>
      BY <2>2 DEF ReadOutput, solutionVars
    <3> QED
      BY <1>1, <3>1 DEF Race, ItemsSolve, CountCovered, Covered, Once, FirstPending,
                        Filled, itemVars, outputVars
  <2>3. CASE foundCandidate(e)
    BY <1>1, <2>3, RaceKept DEF foundCandidate, itemVars, outputVars, solutionVars
  <2> QED
    BY <1>1, <1>6, <2>1, <2>2, <2>3, RaceLaunch, RaceReadCount, RaceStoreCount,
       RaceWriteNonce DEF runDevice
<1> QED
  BY <1>2, <1>3, <1>4, <1>5, <1>6 DEF Next

RaceInv == TypeOK /\ AllBuilt /\ Races

LEMMA RaceInvariant == Spec => []RaceInv
<1>1. Init => RaceInv
  <2> SUFFICES ASSUME Init PROVE RaceInv
    OBVIOUS
  <2>1. AllBuilt /\ Races
    BY DEF Init, AllBuilt, Races, Race
  <2> QED
    BY <2>1, TypeOKInit DEF RaceInv
<1>2. RaceInv /\ [Next]_vars => RaceInv'
  BY TypeOKNext, AllBuiltNext, RacesNext DEF RaceInv
<1> QED
  BY <1>1, <1>2, PTL DEF Spec

\* What the host looks at, once the kernel is done.
LEMMA CandidatesRead ==
    ASSUME RaceInv, NEW d \in Dev, pc[d] = "candidates"
    PROVE  /\ Candidates(d) \in 0..Slots
           /\ \A i \in 1..Candidates(d) : i \in Filled(d) /\ buffer[d][i] \in winners[d]
<1>1. Candidates(d) \in 0..Slots /\ Candidates(d) <= count[d]
  BY DEF Candidates, RaceInv, TypeOK, OutputTypes
<1>2. ItemsSolve(d) /\ CountCovered(d) /\ writing[d] = {}
  BY DEF RaceInv, Races, Race
<1>3. \A i \in 1..Candidates(d) : i \in 1..count[d] /\ i \in 1..Slots
  BY <1>1 DEF RaceInv, TypeOK, OutputTypes
<1> QED
  BY <1>1, <1>2, <1>3 DEF ItemsSolve, CountCovered, Covered, Filled

\* No candidate is assessed twice, however many items race on the count.
THEOREM CandidatesAreDistinct == Spec => []CandidatesDistinct
<1>1. RaceInv => CandidatesDistinct
  <2> SUFFICES ASSUME RaceInv, NEW d \in Dev, pc[d] = "candidates"
               PROVE  \A i, j \in 1..Candidates(d) : buffer[d][i] = buffer[d][j] => i = j
    BY DEF CandidatesDistinct
  <2>1. Once(d)
    BY DEF RaceInv, Races, Race
  <2> QED
    BY <2>1, CandidatesRead DEF Once
<1> QED
  BY <1>1, RaceInvariant, PTL

\* A launch that solved its header reports a candidate: the first item to store
\* the count makes it positive, and no later one makes it 0 again.
THEOREM SolutionIsKept == Spec => []SomeSolutionKept
<1>1. RaceInv => SomeSolutionKept
  <2> SUFFICES ASSUME RaceInv, NEW d \in Dev, pc[d] = "candidates", winners[d] # {}
               PROVE  Candidates(d) > 0
    BY DEF SomeSolutionKept
  <2>1. FirstPending(d) /\ loading[d] = {} /\ storing[d] = {}
    BY DEF RaceInv, Races, Race
  <2>2. count[d] \in Nat /\ count[d] # 0
    BY <2>1 DEF FirstPending, RaceInv, TypeOK, OutputTypes
  <2> QED
    BY <2>2 DEF Candidates
<1> QED
  BY <1>1, RaceInvariant, PTL
-----------------------------------------------------------------------------
(***************************************************************************)
(* The header of a candidate.                                              *)
(***************************************************************************)
\* Once there is work, lastBlock is derived from it, and stays so.
HeaderKept ==
    \A d \in Dev :
        /\ work[d] # 0 => lastBlock[d].work = work[d] /\ lastBlock[d].n3 = DeviceID(d)
        /\ pc[d] \in {"launch", "kernel", "candidates"} => work[d] # 0

LEMMA HeaderKeptNext == TypeOK /\ HeaderKept /\ [Next]_vars => HeaderKept'
<1> SUFFICES ASSUME TypeOK, HeaderKept, [Next]_vars PROVE HeaderKept'
  OBVIOUS
<1> USE DEF TypeOK, ControlTypes, NonceTypes, Step, HeaderKept
<1>1. \A d \in Dev : offset2' = offset2 => DeviceID(d)' = DeviceID(d)
  BY DEF DeviceID
<1>2. CASE UNCHANGED vars
  BY <1>1, <1>2 DEF vars, envVars, nonceVars
<1>3. ASSUME NEW d \in Dev, NewDevice(d) \/ NewDeviceFails(d) PROVE HeaderKept'
  BY <1>1, <1>3 DEF NewDevice, NewDeviceFails, envVars, nonceVars
<1>4. ASSUME NEW d \in Dev, updateCurrentWork(d) PROVE HeaderKept'
  <2>1. CASE work[d] # 0 /\ UNCHANGED <<work, lastBlock, hashed, launches>>
    BY <1>1, <1>4, <2>1 DEF updateCurrentWork, envVars
  <2>2. ASSUME NEW w \in (work[d] + 1)..MaxWork,
               work' = [work EXCEPT ![d] = w],
               lastBlock' = [lastBlock EXCEPT ![d] = HeaderOf(d, w)]
        PROVE  HeaderKept'
    <3>1. w # 0 /\ HeaderOf(d, w).work = w /\ HeaderOf(d, w).n3 = DeviceID(d)
      <4>1. lastBlock[d] \in Headers
        OBVIOUS
      <4> QED
        BY <4>1 DEF HeaderOf, Headers
    <3>2. \A e \in Dev : work'[e] # 0 =>
            lastBlock'[e].work = work'[e] /\ lastBlock'[e].n3 = DeviceID(e)
      BY <2>2, <3>1
    <3>3. \A e \in Dev : pc'[e] \in {"launch", "kernel", "candidates"} => work'[e] # 0
      BY <1>4, <2>2, <3>1 DEF updateCurrentWork
    <3>4. \A e \in Dev : DeviceID(e)' = DeviceID(e)
      BY <1>1, <1>4 DEF updateCurrentWork, envVars
    <3> QED
      BY <3>2, <3>3, <3>4
  <2> QED
    BY <1>4, <2>1, <2>2 DEF updateCurrentWork
<1>5. ASSUME NEW d \in Dev, Launch(d) PROVE HeaderKept'
  <2>1. PICK t \in Times :
          lastBlock' = [lastBlock EXCEPT ![d].n2 = extraNonce2'[d], ![d].time = t]
    BY <1>5 DEF Launch
  <2>2. lastBlock[d] \in Headers
    OBVIOUS
  <2>3. lastBlock'[d].work = lastBlock[d].work /\ lastBlock'[d].n3 = lastBlock[d].n3
    BY <2>1, <2>2 DEF Headers
  <2>4. \A e \in Dev : e # d => lastBlock'[e] = lastBlock[e]
    BY <2>1
  <2> QED
    BY <1>1, <1>5, <2>3, <2>4 DEF Launch, envVars
<1>6. ASSUME NEW d \in Dev,
             \/ initNonces(d) \/ ReadCount(d) \/ StoreCount(d) \/ WriteNonce(d)
             \/ ReadOutput(d) \/ foundCandidate(d) \/ NextTurn(d) \/ DeviceEnds(d)
      PROVE  HeaderKept'
  <2>1. /\ UNCHANGED <<work, lastBlock, offset2>>
        /\ \A e \in Dev : pc'[e] \in {"launch", "kernel", "candidates"} =>
              pc[e] \in {"launch", "kernel", "candidates"}
    BY <1>6 DEF initNonces, ReadCount, StoreCount, WriteNonce, ReadOutput, foundCandidate,
                NextTurn, DeviceEnds, envVars, nonceVars
  <2> QED
    BY <1>1, <2>1
<1>7. ASSUME NEW d \in Dev, runDevice(d) PROVE HeaderKept'
  BY <1>4, <1>5, <1>6, <1>7 DEF runDevice
<1> QED
  BY <1>2, <1>3, <1>7 DEF Next

LEMMA HeaderMatches ==
    ASSUME RaceInv, HeaderKept, NEW d \in Dev, pc[d] = "candidates"
    PROVE  CandidateHeader(d) = lastBlock[d]
<1>1. /\ lastBlock[d] \in Headers
      /\ lastBlock[d].work = work[d] /\ lastBlock[d].n3 = DeviceID(d)
  BY DEF HeaderKept, RaceInv, TypeOK, NonceTypes
<1> QED
  BY <1>1 DEF CandidateHeader, Headers

LEMMA NoMismatchNext ==
    RaceInv /\ HeaderKept /\ NoMismatch /\ [Next]_vars => NoMismatch'
<1> SUFFICES ASSUME RaceInv, HeaderKept, NoMismatch, [Next]_vars PROVE NoMismatch'
  OBVIOUS
<1>1. ASSUME NEW d \in Dev, foundCandidate(d) PROVE hashMismatches' = hashMismatches
  <2>1. /\ pc[d] = "candidates" /\ next[d] \in Nat \ {0} /\ next[d] <= Candidates(d)
        /\ Candidates(d) \in Nat
    BY <1>1, CandidatesRead DEF foundCandidate, RaceInv, TypeOK, HostTypes
  <2>2. next[d] \in 1..Candidates(d)
    BY <2>1
  <2>3. HostAgrees(d)
    BY <2>1, <2>2, CandidatesRead, HeaderMatches DEF HostAgrees
  <2> QED
    BY <1>1, <2>3 DEF foundCandidate
<1>2. hashMismatches' = hashMismatches
  BY <1>1 DEF Next, NewDevice, NewDeviceFails, runDevice, initNonces, updateCurrentWork,
              Launch, ReadCount, StoreCount, WriteNonce, ReadOutput, NextTurn, DeviceEnds,
              vars, hostVars
<1> QED
  BY <1>2 DEF NoMismatch

\* The host never disagrees with the kernel about a candidate: the words it reads
\* were all written in this launch, by items that solved the header it rebuilds.
THEOREM HostNeverDisagrees == Spec => []NoMismatch
<1>1. Init => HeaderKept /\ NoMismatch
  BY DEF Init, HeaderKept, NoMismatch
<1>2. RaceInv /\ HeaderKept /\ [Next]_vars => HeaderKept'
  BY HeaderKeptNext DEF RaceInv
<1>3. RaceInv /\ HeaderKept /\ NoMismatch /\ [Next]_vars => NoMismatch'
  BY NoMismatchNext
<1> QED
  BY <1>1, <1>2, <1>3, RaceInvariant, PTL DEF Spec
-----------------------------------------------------------------------------
(***************************************************************************)
(* The search spaces.  What a device does to the second extra nonce stays  *)
(* within the Low values that begin with its own byte.                     *)
(***************************************************************************)
Band(b) == {b * Low + r : r \in 0..(Low - 1)}

LEMMA BandsDisjoint ==
    ASSUME NEW a \in Nat, NEW b \in Nat, a # b
    PROVE  Band(a) \cap Band(b) = {}
<1>1. ASSUME NEW x \in Nat, NEW y \in Nat, x < y PROVE x * Low + Low <= y * Low
  <2>1. y = x + 1 + (y - x - 1) /\ y - x - 1 \in Nat
    BY <1>1
  <2>2. y * Low = x * Low + Low + (y - x - 1) * Low
    BY <2>1
  <2>3. (y - x - 1) * Low >= 0
    BY <2>1
  <2> QED
    BY <2>2, <2>3
<1>2. a * Low \in Nat /\ b * Low \in Nat
  OBVIOUS
<1>3. a * Low + Low <= b * Low \/ b * Low + Low <= a * Low
  BY <1>1
<1> QED
  BY <1>2, <1>3 DEF Band

LEMMA RolloverInBand ==
    ASSUME NEW b \in Nat, NEW v \in Band(b)
    PROVE  RolloverExtraNonce(v) \in Band(b)
<1>1. PICK r \in 0..(Low - 1) : v = b * Low + r
  BY DEF Band
<1>2. b * Low \in Nat
  OBVIOUS
<1>3. v % Low = r
  BY <1>1
<1>4. CASE r = Low - 1
  <2>1. RolloverExtraNonce(v) = b * Low + 0
    BY <1>1, <1>2, <1>3, <1>4 DEF RolloverExtraNonce
  <2> QED
    BY <2>1 DEF Band
<1>5. CASE r # Low - 1
  <2>1. RolloverExtraNonce(v) = b * Low + (r + 1)
    BY <1>1, <1>2, <1>3, <1>5 DEF RolloverExtraNonce
  <2>2. r + 1 \in 0..(Low - 1)
    BY <1>5
  <2> QED
    BY <2>1, <2>2 DEF Band
<1> QED
  BY <1>4, <1>5

LEMMA Remainder ==
    ASSUME NEW x \in Nat
    PROVE  /\ x = (x \div Byte) * Byte + (x % Byte)
           /\ x \div Byte \in Nat /\ x % Byte \in 0..(Byte - 1)
  OBVIOUS

LEMMA MultipleOfByte ==
    ASSUME NEW x \in 0..(Byte - 1), NEW y \in 0..(Byte - 1), NEW k \in Int, x - y = k * Byte
    PROVE  x = y
<1>1. k >= 1 => k * Byte >= Byte
  OBVIOUS
<1>2. k <= -1 => k * Byte <= -Byte
  OBVIOUS
<1>3. k = 0 => k * Byte = 0
  OBVIOUS
<1> QED
  BY <1>1, <1>2, <1>3

LEMMA SameRemainder ==
    ASSUME NEW x \in Nat, NEW y \in Nat, x % Byte = y % Byte
    PROVE  \E k \in Int : x - y = k * Byte
<1> DEFINE k == (x \div Byte) - (y \div Byte)
<1>1. /\ x = (x \div Byte) * Byte + (x % Byte) /\ x \div Byte \in Nat
      /\ x % Byte \in 0..(Byte - 1)
  BY Remainder
<1>2. /\ y = (y \div Byte) * Byte + (y % Byte) /\ y \div Byte \in Nat
      /\ y % Byte \in 0..(Byte - 1)
  BY Remainder
<1>3. k \in Int
  BY <1>1, <1>2
<1>4. k * Byte = (x \div Byte) * Byte - (y \div Byte) * Byte
  BY <1>1, <1>2
<1>5. x - y = k * Byte
  BY <1>1, <1>2, <1>4
<1> QED
  BY <1>3, <1>5

\* Indexes that differ modulo a byte still do when the offset is added.
LEMMA OffsetsApart ==
    ASSUME TypeOK, NEW d \in Dev, NEW e \in Dev, d % Byte # e % Byte
    PROVE  DeviceOffset(d) # DeviceOffset(e)
<1> SUFFICES ASSUME DeviceOffset(d) = DeviceOffset(e) PROVE FALSE
  OBVIOUS
<1>1. d \in Nat /\ e \in Nat /\ offset1 \in Nat
  BY DEF TypeOK, ControlTypes
<1>2. PICK k \in Int : (d + offset1) - (e + offset1) = k * Byte
  <2>1. d + offset1 \in Nat /\ e + offset1 \in Nat
    BY <1>1
  <2> QED
    BY <2>1, SameRemainder DEF DeviceOffset
<1>3. /\ d = (d \div Byte) * Byte + (d % Byte) /\ d \div Byte \in Nat
      /\ d % Byte \in 0..(Byte - 1)
  BY <1>1, Remainder
<1>4. /\ e = (e \div Byte) * Byte + (e % Byte) /\ e \div Byte \in Nat
      /\ e % Byte \in 0..(Byte - 1)
  BY <1>1, Remainder
<1> DEFINE j == k - (d \div Byte) + (e \div Byte)
<1>5. j \in Int
  BY <1>3, <1>4
<1>6. j * Byte = k * Byte - (d \div Byte) * Byte + (e \div Byte) * Byte
  BY <1>3, <1>4
<1>7. k * Byte = d - e
  BY <1>1, <1>2
<1>8. (d % Byte) - (e % Byte) = j * Byte
  BY <1>3, <1>4, <1>6, <1>7
<1> HIDE DEF j
<1> QED
  BY <1>3, <1>4, <1>5, <1>8, MultipleOfByte

\* Once its nonces are initialized a device stays in its band, and so does what
\* it has hashed.
InBand ==
    \A d \in Dev :
        /\ pc[d] \in {"update", "launch", "kernel", "candidates"} =>
              extraNonce2[d] \in Band(DeviceOffset(d))
        /\ SecondNonces(d) \subseteq Band(DeviceOffset(d))

LEMMA InBandNext == TypeOK /\ InBand /\ [Next]_vars => InBand'
<1> SUFFICES ASSUME TypeOK, InBand, [Next]_vars PROVE InBand'
  OBVIOUS
<1> USE DEF TypeOK, ControlTypes, NonceTypes, Step, InBand
<1>1. offset1' = offset1 => \A e \in Dev : Band(DeviceOffset(e))' = Band(DeviceOffset(e))
  BY DEF DeviceOffset, Band
<1>2. hashed' = hashed => \A e \in Dev : SecondNonces(e)' = SecondNonces(e)
  BY DEF SecondNonces
<1>3. CASE UNCHANGED vars
  BY <1>1, <1>2, <1>3 DEF vars, envVars, nonceVars
<1>4. ASSUME NEW d \in Dev, initNonces(d) PROVE InBand'
  <2>1. PICK r \in LowNonces :
          extraNonce2' = [extraNonce2 EXCEPT ![d] = DeviceOffset(d) * Low + r]
    BY <1>4 DEF initNonces
  <2>2. extraNonce2'[d] \in Band(DeviceOffset(d))
    BY <2>1 DEF Band
  <2> QED
    BY <1>1, <1>2, <1>4, <2>1, <2>2 DEF initNonces, envVars
<1>5. ASSUME NEW d \in Dev, updateCurrentWork(d) PROVE InBand'
  <2>1. offset1' = offset1 /\ extraNonce2' = extraNonce2 /\ pc[d] = "update"
        /\ pc' = [pc EXCEPT ![d] = "launch"]
    BY <1>5 DEF updateCurrentWork, envVars
  <2>2. hashed' = hashed \/ hashed' = [hashed EXCEPT ![d] = {}]
    BY <1>5 DEF updateCurrentWork
  <2>3. ASSUME NEW e \in Dev PROVE SecondNonces(e)' \subseteq SecondNonces(e)
    BY <2>2 DEF SecondNonces
  <2> QED
    BY <1>1, <2>1, <2>3
<1>6. ASSUME NEW d \in Dev, Launch(d) PROVE InBand'
  <2>1. PICK t \in Times :
          lastBlock' = [lastBlock EXCEPT ![d].n2 = extraNonce2'[d], ![d].time = t]
    BY <1>6 DEF Launch
  <2>2. extraNonce2'[d] = RolloverExtraNonce(extraNonce2[d])
        /\ pc[d] = "launch" /\ extraNonce2[d] \in Band(DeviceOffset(d))
    BY <1>6 DEF Launch
  <2>3. extraNonce2'[d] \in Band(DeviceOffset(d))
    BY <2>2, DeviceBytes, RolloverInBand
  <2>4. lastBlock[d] \in Headers
    OBVIOUS
  <2>5. lastBlock'[d].n2 = extraNonce2'[d]
    BY <2>1, <2>4 DEF Headers
  <2>6. hashed' = [hashed EXCEPT ![d] = @ \cup {lastBlock'[d]}]
    BY <1>6 DEF Launch
  <2>7. SecondNonces(d)' \subseteq SecondNonces(d) \cup {extraNonce2'[d]}
    BY <2>5, <2>6 DEF SecondNonces
  <2>8. ASSUME NEW e \in Dev, e # d
        PROVE  SecondNonces(e)' = SecondNonces(e) /\ extraNonce2'[e] = extraNonce2[e]
               /\ pc'[e] = pc[e]
    BY <1>6, <2>6, <2>8 DEF SecondNonces, Launch
  <2>9. offset1' = offset1
    BY <1>6 DEF Launch, envVars
  <2> QED
    BY <1>1, <2>3, <2>7, <2>8, <2>9
<1>7. ASSUME NEW d \in Dev,
             \/ NewDevice(d) \/ NewDeviceFails(d) \/ ReadCount(d) \/ StoreCount(d)
             \/ WriteNonce(d) \/ ReadOutput(d) \/ foundCandidate(d) \/ NextTurn(d)
             \/ DeviceEnds(d)
      PROVE  InBand'
  <2>1. /\ UNCHANGED <<offset1, extraNonce2, hashed>>
        /\ \A e \in Dev : pc'[e] \in {"update", "launch", "kernel", "candidates"} =>
              pc[e] \in {"update", "launch", "kernel", "candidates"}
    BY <1>7 DEF NewDevice, NewDeviceFails, ReadCount, StoreCount, WriteNonce, ReadOutput,
                foundCandidate, NextTurn, DeviceEnds, envVars, nonceVars
  <2> QED
    BY <1>1, <1>2, <2>1
<1>8. ASSUME NEW d \in Dev, runDevice(d) PROVE InBand'
  BY <1>4, <1>5, <1>6, <1>7, <1>8 DEF runDevice
<1> QED
  BY <1>3, <1>7, <1>8 DEF Next

\* Two devices whose indexes differ modulo 256 never share a search space: their
\* second extra nonces stay in the bands of two different device bytes.
THEOREM DevicesSearchApart == Spec => []SpacesDisjoint
<1>1. Init => InBand
  BY DEF Init, InBand, SecondNonces
<1>2. TypeOK /\ InBand => SpacesDisjoint
  <2> SUFFICES ASSUME TypeOK, InBand, NEW d \in Dev, NEW e \in Dev, d % Byte # e % Byte
               PROVE  SecondNonces(d) \cap SecondNonces(e) = {}
    BY DEF SpacesDisjoint
  <2>1. DeviceOffset(d) # DeviceOffset(e)
    BY OffsetsApart
  <2>2. DeviceOffset(d) \in Nat /\ DeviceOffset(e) \in Nat
    BY DeviceBytes DEF TypeOK
  <2>3. Band(DeviceOffset(d)) \cap Band(DeviceOffset(e)) = {}
    BY <2>1, <2>2, BandsDisjoint
  <2> QED
    BY <2>3 DEF InBand
<1> QED
  BY <1>1, <1>2, InBandNext, DeviceTypeCorrect, PTL DEF Spec
-----------------------------------------------------------------------------
(***************************************************************************)
(* The sweep through a band.  What was hashed on the current work are the  *)
(* values up to extraNonce2, backwards as many as there were launches.     *)
(***************************************************************************)
\* How many launches before the one with c the value v was last due.
Ago(c, v) == IF v <= c THEN c - v ELSE c - v + Low

Recent(b, c, n) == {v \in Band(b) : Ago(c, v) < n}

LEMMA AgoType ==
    ASSUME NEW b \in Nat, NEW c \in Band(b), NEW v \in Band(b)
    PROVE  Ago(c, v) \in Nat
<1>1. PICK r \in 0..(Low - 1) : c = b * Low + r
  BY DEF Band
<1>2. PICK s \in 0..(Low - 1) : v = b * Low + s
  BY DEF Band
<1>3. b * Low \in Nat
  OBVIOUS
<1> QED
  BY <1>1, <1>2, <1>3 DEF Ago

LEMMA AgoRollover ==
    ASSUME NEW b \in Nat, NEW c \in Band(b), NEW v \in Band(b)
    PROVE  LET n == RolloverExtraNonce(c)
           IN  /\ Ago(c, n) = Low - 1
               /\ Ago(n, v) = IF v = n THEN 0 ELSE Ago(c, v) + 1
<1>1. PICK r \in 0..(Low - 1) : c = b * Low + r
  BY DEF Band
<1>2. PICK s \in 0..(Low - 1) : v = b * Low + s
  BY DEF Band
<1>3. b * Low \in Nat
  OBVIOUS
<1>4. c % Low = r
  BY <1>1
<1>5. RolloverExtraNonce(c) = IF r = Low - 1 THEN b * Low ELSE b * Low + r + 1
  BY <1>1, <1>3, <1>4 DEF RolloverExtraNonce
<1> DEFINE m == b * Low
<1> HIDE DEF m
<1>6. m \in Nat /\ c = m + r /\ v = m + s
      /\ RolloverExtraNonce(c) = IF r = Low - 1 THEN m ELSE m + r + 1
  BY <1>1, <1>2, <1>3, <1>5 DEF m
<1> QED
  BY <1>6 DEF Ago

LEMMA RecentGrows ==
    ASSUME NEW b \in Nat, NEW c \in Band(b), NEW n \in Nat
    PROVE  /\ Recent(b, c, 0) = {}
           /\ RolloverExtraNonce(c) \in Recent(b, c, n) <=> n >= Low
           /\ Recent(b, RolloverExtraNonce(c), n + 1)
                = Recent(b, c, n) \cup {RolloverExtraNonce(c)}
<1> DEFINE m == RolloverExtraNonce(c)
<1>1. m \in Band(b)
  BY RolloverInBand
<1>2. \A v \in Band(b) : Ago(c, v) \in Nat
  BY AgoType
<1>3. \A v \in Band(b) : Ago(m, v) = IF v = m THEN 0 ELSE Ago(c, v) + 1
  BY AgoRollover
<1>4. Ago(c, m) = Low - 1
  BY <1>1, AgoRollover
<1> HIDE DEF m
<1>5. Recent(b, c, 0) = {}
  BY <1>2 DEF Recent
<1>6. m \in Recent(b, c, n) <=> n >= Low
  BY <1>1, <1>4 DEF Recent
<1>7. \A v \in Band(b) : Ago(m, v) < n + 1 <=> Ago(c, v) < n \/ v = m
  BY <1>2, <1>3
<1>8. Recent(b, m, n + 1) = Recent(b, c, n) \cup {m}
  BY <1>1, <1>7 DEF Recent
<1> QED
  BY <1>5, <1>6, <1>8 DEF m

Sweeps(d) ==
    /\ pc[d] \in {"new", "nonces"} => launches[d] = 0
    /\ launches[d] = 0 => hashed[d] = {}
    /\ launches[d] > 0 =>
          SecondNonces(d) = Recent(DeviceOffset(d), extraNonce2[d], launches[d])
    /\ IsFiniteSet(SecondNonces(d))
    /\ Cardinality(SecondNonces(d)) = IF launches[d] < Low THEN launches[d] ELSE Low

Sweep == \A d \in Dev : Sweeps(d)

\* A device that has hashed nothing.
LEMMA SweepsNothing ==
    ASSUME NEW d \in Dev, hashed[d] = {}, launches[d] = 0 PROVE Sweeps(d)
<1>1. SecondNonces(d) = {}
  BY DEF SecondNonces
<1> QED
  BY <1>1, FS_EmptySet DEF Sweeps

\* A step that leaves alone what a device has hashed.
LEMMA SweepsKept ==
    ASSUME NEW d \in Dev, Sweeps(d), pc'[d] = pc[d] \/ pc'[d] \notin {"new", "nonces"}
                                     \/ launches[d] = 0,
           hashed'[d] = hashed[d], launches'[d] = launches[d], offset1' = offset1,
           extraNonce2'[d] = extraNonce2[d] \/ launches[d] = 0,
           launches[d] \in Nat
    PROVE  Sweeps(d)'
<1>1. SecondNonces(d)' = SecondNonces(d) /\ DeviceOffset(d)' = DeviceOffset(d)
  BY DEF SecondNonces, DeviceOffset
<1> QED
  BY <1>1 DEF Sweeps, Recent, Band, Ago

LEMMA SweepsLaunch ==
    ASSUME TypeOK, InBand, NEW d \in Dev, Sweeps(d), Launch(d)
    PROVE  Sweeps(d)'
<1> DEFINE b == DeviceOffset(d)
           c == extraNonce2[d]
           n == launches[d]
           S == SecondNonces(d)
           m == RolloverExtraNonce(c)
<1>1. b \in Nat /\ n \in Nat /\ c \in Band(b)
  BY DeviceBytes DEF TypeOK, NonceTypes, InBand, Launch, Step
<1>2. extraNonce2'[d] = m /\ launches'[d] = n + 1 /\ pc'[d] = "kernel"
      /\ DeviceOffset(d)' = b
  BY DEF Launch, Step, TypeOK, ControlTypes, NonceTypes, envVars, DeviceOffset
<1>3. SecondNonces(d)' = S \cup {m}
  <2>1. PICK t \in Times :
          lastBlock' = [lastBlock EXCEPT ![d].n2 = extraNonce2'[d], ![d].time = t]
    BY DEF Launch
  <2>2. lastBlock[d] \in Headers /\ lastBlock \in [Dev -> Headers]
    BY DEF TypeOK, NonceTypes
  <2>3. lastBlock'[d].n2 = m
    BY <1>2, <2>1, <2>2 DEF Headers
  <2>4. hashed'[d] = hashed[d] \cup {lastBlock'[d]}
    BY DEF Launch, TypeOK, NonceTypes
  <2> QED
    BY <2>3, <2>4 DEF SecondNonces
<1>4. S = Recent(b, c, n)
  <2>1. CASE n = 0
    <3>1. S = {}
      BY <2>1 DEF Sweeps, SecondNonces
    <3> QED
      BY <1>1, <2>1, <3>1, RecentGrows
  <2>2. CASE n # 0
    BY <1>1, <2>2 DEF Sweeps
  <2> QED
    BY <2>1, <2>2
<1>5. m \in S <=> n >= Low
  BY <1>1, <1>4, RecentGrows
<1>6. S \cup {m} = Recent(b, m, n + 1)
  BY <1>1, <1>4, RecentGrows
<1>7. IsFiniteSet(S) /\ Cardinality(S) = IF n < Low THEN n ELSE Low
  BY DEF Sweeps
<1>8. /\ IsFiniteSet(S \cup {m})
      /\ Cardinality(S \cup {m}) = IF m \in S THEN Cardinality(S) ELSE Cardinality(S) + 1
  BY <1>7, FS_AddElement
<1>9. SecondNonces(d)' = Recent(DeviceOffset(d), extraNonce2[d], launches[d])'
  <2>1. Recent(DeviceOffset(d), extraNonce2[d], launches[d])' = Recent(b, m, n + 1)
    BY <1>2 DEF Recent, Band, Ago
  <2> QED
    BY <1>3, <1>6, <2>1
<1> HIDE DEF b, c, n, S, m
<1>10. Cardinality(S \cup {m}) = IF n + 1 < Low THEN n + 1 ELSE Low
  BY <1>1, <1>5, <1>7, <1>8
<1> QED
  BY <1>1, <1>2, <1>3, <1>8, <1>9, <1>10 DEF Sweeps

LEMMA SweepNext == TypeOK /\ InBand /\ Sweep /\ [Next]_vars => Sweep'
<1> SUFFICES ASSUME TypeOK, InBand, Sweep, [Next]_vars, NEW e \in Dev
             PROVE  Sweeps(e)'
  BY DEF Sweep
<1> USE DEF Step
<1>1. /\ Sweeps(e) /\ launches[e] \in Nat
      /\ pc \in [Dev -> {"new", "nonces", "update", "launch", "kernel", "candidates", "done"}]
      /\ extraNonce2 \in [Dev -> Nat] /\ launches \in [Dev -> Nat]
      /\ hashed \in [Dev -> SUBSET Headers]
  BY DEF Sweep, TypeOK, NonceTypes, ControlTypes
<1>2. CASE UNCHANGED vars
  BY <1>1, <1>2, SweepsKept DEF vars, envVars, nonceVars
<1>3. ASSUME NEW d \in Dev, NewDevice(d) \/ NewDeviceFails(d) PROVE Sweeps(e)'
  <2>1. UNCHANGED <<hashed, launches, extraNonce2, offset1>>
    BY <1>3 DEF NewDevice, NewDeviceFails, envVars, nonceVars
  <2>2. pc'[e] = pc[e] \/ pc'[e] \notin {"new", "nonces"} \/ launches[e] = 0
    BY <1>1, <1>3 DEF NewDevice, NewDeviceFails, Sweeps
  <2> QED
    BY <1>1, <2>1, <2>2, SweepsKept
<1>4. ASSUME NEW d \in Dev, initNonces(d) PROVE Sweeps(e)'
  <2>1. UNCHANGED <<hashed, launches, offset1>>
    BY <1>4 DEF initNonces, envVars
  <2>2. /\ pc'[e] = pc[e] \/ pc'[e] \notin {"new", "nonces"}
        /\ extraNonce2'[e] = extraNonce2[e] \/ launches[e] = 0
    BY <1>1, <1>4 DEF initNonces, Sweeps
  <2> QED
    BY <1>1, <2>1, <2>2, SweepsKept
<1>5. ASSUME NEW d \in Dev, updateCurrentWork(d) PROVE Sweeps(e)'
  <2>1. /\ UNCHANGED <<offset1, extraNonce2>>
        /\ pc'[e] = pc[e] \/ pc'[e] \notin {"new", "nonces"}
    BY <1>1, <1>5 DEF updateCurrentWork, envVars
  <2>2. \/ hashed'[e] = hashed[e] /\ launches'[e] = launches[e]
        \/ hashed'[e] = {} /\ launches'[e] = 0
    BY <1>1, <1>5 DEF updateCurrentWork
  <2>3. CASE hashed'[e] = hashed[e] /\ launches'[e] = launches[e]
    BY <1>1, <2>1, <2>3, SweepsKept
  <2>4. CASE hashed'[e] = {} /\ launches'[e] = 0
    <3>1. SecondNonces(e)' = {}
      BY <2>4 DEF SecondNonces
    <3> QED
      BY <2>4, <3>1, FS_EmptySet DEF Sweeps
  <2> QED
    BY <2>2, <2>3, <2>4
<1>6. ASSUME NEW d \in Dev, Launch(d) PROVE Sweeps(e)'
  <2>1. CASE e = d
    BY <1>1, <1>6, <2>1, SweepsLaunch
  <2>2. CASE e # d
    <3>1. /\ hashed'[e] = hashed[e] /\ launches'[e] = launches[e] /\ offset1' = offset1
          /\ extraNonce2'[e] = extraNonce2[e] /\ pc'[e] = pc[e]
      BY <1>1, <1>6, <2>2 DEF Launch, envVars
    <3> QED
      BY <1>1, <3>1, SweepsKept
  <2> QED
    BY <2>1, <2>2
<1>7. ASSUME NEW d \in Dev,
             \/ ReadCount(d) \/ StoreCount(d) \/ WriteNonce(d) \/ ReadOutput(d)
             \/ foundCandidate(d) \/ NextTurn(d) \/ DeviceEnds(d)
      PROVE  Sweeps(e)'
  <2>1. /\ UNCHANGED <<hashed, launches, extraNonce2, offset1>>
        /\ pc'[e] = pc[e] \/ pc'[e] \notin {"new", "nonces"}
    BY <1>1, <1>7 DEF ReadCount, StoreCount, WriteNonce, ReadOutput, foundCandidate,
                      NextTurn, DeviceEnds, envVars, nonceVars
  <2> QED
    BY <1>1, <2>1, SweepsKept
<1>8. ASSUME NEW d \in Dev, runDevice(d) PROVE Sweeps(e)'
  BY <1>4, <1>5, <1>6, <1>7, <1>8 DEF runDevice
<1> QED
  BY <1>2, <1>3, <1>8 DEF Next

\* A device goes through its whole band on a piece of work before it uses a
\* second extra nonce again.
THEOREM BandIsSwept == Spec => []RangeBeforeRepeat
<1>1. Init => InBand
  BY DEF Init, InBand, SecondNonces
<1>2. Init => Sweep
  BY SweepsNothing DEF Init, Sweep
<1>3. Sweep => RangeBeforeRepeat
  BY DEF Sweep, Sweeps, RangeBeforeRepeat
<1> QED
  BY <1>1, <1>2, <1>3, InBandNext, SweepNext, DeviceTypeCorrect, PTL DEF Spec
-----------------------------------------------------------------------------
(***************************************************************************)
(* The work size, which newMinerDevs sets once.                            *)
(***************************************************************************)
SizeFor(d) == WorkSize(given, Order(d), [ws \in CalSizes |-> Elapsed(d, ws)])

Sized ==
    /\ given \in Settings /\ Accepts(given)
    /\ speed \in [Dev -> [cost : Costs, overhead : Overheads]]
    /\ workSize = [d \in Dev |-> workSize[d]]
    /\ \A d \in Dev : Built(d) => workSize[d] = SizeFor(d)

LEMMA SizedKept ==
    ASSUME Sized, UNCHANGED envVars, UNCHANGED workSize,
           \A e \in Dev : Built(e)' => Built(e)
    PROVE  Sized'
<1>1. \A d \in Dev : SizeFor(d)' = SizeFor(d)
  BY DEF SizeFor, Order, Elapsed, envVars
<1> QED
  BY <1>1 DEF Sized, envVars

LEMMA SizedNext == TypeOK /\ Sized /\ [Next]_vars => Sized'
<1> SUFFICES ASSUME TypeOK, Sized, [Next]_vars PROVE Sized'
  OBVIOUS
<1>1. pc \in [Dev -> {"new", "nonces", "update", "launch", "kernel", "candidates", "done"}]
  BY DEF TypeOK, ControlTypes
<1>2. CASE UNCHANGED vars
  BY <1>2, SizedKept DEF vars, Built
<1>3. ASSUME NEW d \in Dev, NewDevice(d) PROVE Sized'
  <2>1. /\ UNCHANGED envVars /\ pc' = [pc EXCEPT ![d] = "nonces"]
        /\ workSize' = [workSize EXCEPT ![d] = SizeFor(d)]
    BY <1>3 DEF NewDevice, Step, SizeFor
  <2>2. \A e \in Dev : SizeFor(e)' = SizeFor(e)
    BY <2>1 DEF SizeFor, Order, Elapsed, envVars
  <2>3. workSize' = [e \in Dev |-> workSize'[e]] /\ workSize'[d] = SizeFor(d)
    BY <2>1 DEF Sized
  <2>4. \A e \in Dev \ {d} : workSize'[e] = workSize[e] /\ (Built(e)' => Built(e))
    BY <1>1, <2>1 DEF Sized, Built
  <2> QED
    BY <2>1, <2>2, <2>3, <2>4 DEF Sized, envVars
<1>4. ASSUME NEW d \in Dev, NewDeviceFails(d) PROVE Sized'
  BY <1>4, SizedKept DEF NewDeviceFails, Built
<1>5. ASSUME NEW d \in Dev, runDevice(d) PROVE Sized'
  <2>1. UNCHANGED envVars /\ UNCHANGED workSize
    BY <1>5 DEF runDevice, initNonces, updateCurrentWork, Launch, ReadCount, StoreCount,
                WriteNonce, ReadOutput, foundCandidate, NextTurn, DeviceEnds
  <2>2. \A e \in Dev : Built(e)' => Built(e)
    BY <1>1, <1>5 DEF Built, Step, runDevice, initNonces, updateCurrentWork, Launch,
                ReadCount, StoreCount, WriteNonce, ReadOutput, foundCandidate, NextTurn,
                DeviceEnds
  <2> QED
    BY <2>1, <2>2, SizedKept
<1> QED
  BY <1>2, <1>3, <1>4, <1>5 DEF Next

LEMMA SizedIsUsable == TypeOK /\ Sized => WorkSizeUsable
<1> SUFFICES ASSUME TypeOK, Sized, NEW d \in Dev, Built(d),
                    ~(Calibrated /\ (Target(d) <= 0 \/ TooFast(d)))
             PROVE  Launchable(workSize[d])
  BY DEF WorkSizeUsable, Launchable
<1> DEFINE cost == speed[d].cost
           overhead == speed[d].overhead
           order == Order(d)
           time == [ws \in CalSizes |-> Elapsed(d, ws)]
<1>1. /\ given.worksize \in Seq(Int) /\ given.intensity \in Seq(Int)
      /\ given.autocalibrate \in Seq(Int) /\ given.autocalibrate # <<>>
  BY SettingsAssumption DEF Sized
<1>2. cost \in Nat \ {0} /\ overhead \in Nat
  BY SpeedAssumption DEF Sized
<1>3. order \in Nat
  <2>1. {e \in used : e < d} \subseteq Dev
    BY DEF TypeOK, ControlTypes
  <2> QED
    BY <2>1, FS_Subset, FS_CardinalityType DEF Order
<1>4. \A ws \in Int : Elapsed(d, ws) = overhead + cost * ws
  BY <1>2 DEF Elapsed
<1>5. \A ws \in CalSizes : time[ws] = overhead + cost * ws
  BY <1>4, CalSizesLaunchable
<1>6. Accepts(given) /\ workSize[d] = WorkSize(given, order, time)
  BY DEF Sized, SizeFor
<1>7. Target(d) = OwnOrFirst(given.autocalibrate, order)
  BY DEF Target
<1>8. Elapsed(d, Word - Granule) = overhead + cost * (Word - Granule)
  BY <1>4, WordAssumption
<1> HIDE DEF cost, overhead, order, time
<1>9. given.worksize = <<>> /\ given.intensity = <<>> =>
        /\ OwnOrFirst(given.autocalibrate, order) > 0
        /\ OwnOrFirst(given.autocalibrate, order) < overhead + cost * (Word - Granule)
  <2> DEFINE target == OwnOrFirst(given.autocalibrate, order)
             longest == overhead + cost * (Word - Granule)
  <2>1. target \in Int
    BY <1>1, <1>3, OwnOrFirstIsGiven
  <2>2. longest \in Int
    BY <1>2, WordAssumption
  <2>3. Calibrated => ~(target <= 0) /\ ~(target >= longest)
    BY <1>7, <1>8 DEF TooFast
  <2> HIDE DEF target, longest
  <2>4. Calibrated => target > 0 /\ target < longest
    BY <2>1, <2>2, <2>3
  <2> QED
    BY <2>4 DEF Calibrated, target, longest
<1>10. Launchable(WorkSize(given, order, time))
  BY <1>1, <1>2, <1>3, <1>5, <1>6, <1>9, WorkSizeLaunchable
<1> QED
  BY <1>6, <1>10

\* Every device OpenCL is asked to launch work on, however its size came about,
\* has a work size it can launch.
THEOREM WorkSizesUsable == Spec => []WorkSizeUsable
<1>1. Init => Sized
  BY DEF Init, Sized, Built
<1> QED
  BY <1>1, SizedNext, SizedIsUsable, DeviceTypeCorrect, PTL DEF Spec
-----------------------------------------------------------------------------
(***************************************************************************)
(* The contract of the launches.                                           *)
(***************************************************************************)
LInv == RaceInv /\ HeaderKept

LEMMA LInvariant == Spec => []LInv
<1>1. Init => HeaderKept
  BY DEF Init, HeaderKept
<1>2. RaceInv /\ HeaderKept /\ [Next]_vars => HeaderKept'
  BY HeaderKeptNext DEF RaceInv
<1> QED
  BY <1>1, <1>2, RaceInvariant, PTL DEF Spec, LInv

\* What is still to be assessed on one device.
PendingOf(d) == {buffer[d][i] : i \in {j \in next[d]..Candidates(d) : pc[d] = "candidates"}}

LEMMA PendingIs == Pending = [d \in Dev |-> PendingOf(d)]
BY DEF Pending, PendingOf

LEMMA NothingPending == ASSUME NEW d, pc[d] # "candidates" PROVE PendingOf(d) = {}
BY DEF PendingOf

\* A step of one device in the contract's variables.
LEMMA StageStep ==
    ASSUME TypeOK, NEW d \in Dev, NEW to, pc' = [pc EXCEPT ![d] = to]
    PROVE  Stage' = [Stage EXCEPT ![d] = StageOf(to)]
<1>1. \A e \in Dev : pc'[e] = IF e = d THEN to ELSE pc[e]
  BY DEF TypeOK, ControlTypes
<1>2. Stage' = [e \in Dev |-> StageOf(pc'[e])]
  BY DEF Stage, StageOf
<1>3. \A e \in Dev : StageOf(pc'[e]) = IF e = d THEN StageOf(to) ELSE StageOf(pc[e])
  BY <1>1
<1>4. Stage' = [e \in Dev |-> IF e = d THEN StageOf(to) ELSE StageOf(pc[e])]
  BY <1>2, <1>3
<1> QED
  BY <1>4 DEF Stage

LEMMA Stages ==
    /\ StageOf("new") = "starting" /\ StageOf("nonces") = "waiting"
    /\ StageOf("update") = "waiting" /\ StageOf("launch") = "waiting"
    /\ StageOf("kernel") = "searching" /\ StageOf("candidates") = "assessing"
    /\ StageOf("done") = "ended"
BY DEF StageOf

LEMMA PendingStep ==
    ASSUME NEW d \in Dev,
           \A e \in Dev \ {d} : /\ pc'[e] = pc[e] /\ next'[e] = next[e]
                                /\ count'[e] = count[e] /\ buffer'[e] = buffer[e]
    PROVE  Pending' = [Pending EXCEPT ![d] = PendingOf(d)']
<1>1. \A e \in Dev \ {d} : PendingOf(e)' = PendingOf(e)
  BY DEF PendingOf, Candidates
<1>2. Pending' = [e \in Dev |-> PendingOf(e)']
  BY DEF Pending, PendingOf
<1> QED
  BY <1>1, <1>2, PendingIs

\* A step of the devices' construction.
LEMMA ContractConstruction ==
    ASSUME LInv, NEW d \in Dev, NewDevice(d) \/ NewDeviceFails(d)
    PROVE  Contract!LNext
<1>1. TypeOK /\ AllBuilt
  BY DEF LInv, RaceInv
<1>2. pc[d] = "new" /\ UNCHANGED <<winners, shares, next, count>>
  BY DEF NewDevice, NewDeviceFails, Step, hostVars, solutionVars, outputVars
<1>3. Stage[d] = "starting"
  BY <1>2, Stages DEF Stage
<1>4. \A e \in Dev : pc[e] # "candidates" /\ pc'[e] # "candidates"
  <2>1. \A e \in Dev : pc[e] \in {"new", "nonces", "done"}
    BY <1>1, <1>2 DEF AllBuilt
  <2> QED
    BY <1>1, <2>1 DEF NewDevice, NewDeviceFails, Step, TypeOK, ControlTypes
<1>5. Pending' = Pending
  BY <1>4 DEF Pending
<1>6. CASE NewDevice(d)
  <2>1. Stage' = [Stage EXCEPT ![d] = "waiting"]
    <3>1. pc' = [pc EXCEPT ![d] = "nonces"]
      BY <1>6 DEF NewDevice, Step
    <3>2. Stage' = [Stage EXCEPT ![d] = StageOf("nonces")]
      BY <1>1, <3>1, StageStep
    <3> QED
      BY <3>2, Stages
  <2>2. Contract!Start(d)
    BY <1>2, <1>3, <1>5, <2>1 DEF Contract!Start, Contract!Move
  <2> QED
    BY <2>2 DEF Contract!LNext
<1>7. CASE NewDeviceFails(d)
  <2>1. Stage' = [e \in Dev |-> "ended"]
    <3>1. Stage' = [e \in Dev |-> StageOf(pc'[e])]
      BY DEF Stage, StageOf
    <3> QED
      BY <1>7, <3>1, Stages DEF NewDeviceFails
  <2>2. Contract!Abandon
    BY <1>2, <1>3, <1>5, <2>1 DEF Contract!Abandon
  <2> QED
    BY <2>2 DEF Contract!LNext
<1> QED
  BY <1>6, <1>7

\* Steps between the launches, and of the work items, which nobody sees.
LEMMA ContractUnseen ==
    ASSUME LInv, NEW d \in Dev,
           \/ initNonces(d) \/ updateCurrentWork(d)
           \/ ReadCount(d) \/ StoreCount(d) \/ WriteNonce(d)
    PROVE  UNCHANGED Contract!lvars
<1>1. TypeOK
  BY DEF LInv, RaceInv
<1>2. UNCHANGED <<winners, shares, next>>
  BY DEF initNonces, updateCurrentWork, ReadCount, StoreCount, WriteNonce, hostVars,
         solutionVars
<1>3. \A e \in Dev : StageOf(pc'[e]) = StageOf(pc[e])
  BY <1>1, Stages DEF initNonces, updateCurrentWork, ReadCount, StoreCount, WriteNonce,
                      Step, TypeOK, ControlTypes
<1>4. Stage' = Stage
  <2>1. Stage' = [e \in Dev |-> StageOf(pc'[e])]
    BY DEF Stage, StageOf
  <2> QED
    BY <1>3, <2>1 DEF Stage
<1>5. PendingOf(d) = {} /\ PendingOf(d)' = {}
  <2>1. pc[d] # "candidates" /\ pc'[d] # "candidates"
    BY <1>1 DEF initNonces, updateCurrentWork, ReadCount, StoreCount, WriteNonce,
                Step, TypeOK, ControlTypes
  <2> QED
    BY <2>1 DEF PendingOf
<1>6. Pending' = Pending
  <2>1. \A e \in Dev \ {d} : /\ pc'[e] = pc[e] /\ next'[e] = next[e]
                             /\ count'[e] = count[e] /\ buffer'[e] = buffer[e]
    BY <1>1, <1>2 DEF initNonces, updateCurrentWork, ReadCount, StoreCount, WriteNonce,
                Step, TypeOK, ControlTypes, OutputTypes, outputVars
  <2>2. Pending' = [Pending EXCEPT ![d] = PendingOf(d)']
    BY <2>1, PendingStep
  <2> QED
    BY <1>5, <2>2, PendingIs
<1> QED
  BY <1>2, <1>4, <1>6 DEF Contract!lvars

\* What a step of one device leaves alone of the others.
LEMMA OthersKept ==
    ASSUME TypeOK, NEW d \in Dev,
           Launch(d) \/ ReadOutput(d) \/ foundCandidate(d) \/ NextTurn(d) \/ DeviceEnds(d)
    PROVE  \A e \in Dev \ {d} : /\ pc'[e] = pc[e] /\ next'[e] = next[e]
                                /\ count'[e] = count[e] /\ buffer'[e] = buffer[e]
<1> USE DEF TypeOK, ControlTypes, OutputTypes, HostTypes, Step
<1>1. \A e \in Dev \ {d} : pc'[e] = pc[e]
  BY DEF Launch, ReadOutput, foundCandidate, NextTurn, DeviceEnds
<1>2. \A e \in Dev \ {d} : next'[e] = next[e]
  BY DEF Launch, ReadOutput, foundCandidate, NextTurn, DeviceEnds, hostVars
<1>3. \A e \in Dev \ {d} : count'[e] = count[e] /\ buffer'[e] = buffer[e]
  BY DEF Launch, ReadOutput, foundCandidate, NextTurn, DeviceEnds, outputVars
<1> QED
  BY <1>1, <1>2, <1>3

LEMMA ContractLaunch ==
    ASSUME LInv, NEW d \in Dev, Launch(d)
    PROVE  Contract!Search(d)
<1>1. TypeOK /\ AllBuilt
  BY DEF LInv, RaceInv
<1>2. pc[d] = "launch" /\ pc' = [pc EXCEPT ![d] = "kernel"] /\ shares' = shares
  BY DEF Launch, Step, hostVars
<1>3. Stage[d] = "waiting" /\ Stage' = [Stage EXCEPT ![d] = "searching"]
  <2>1. Stage' = [Stage EXCEPT ![d] = StageOf("kernel")]
    BY <1>1, <1>2, StageStep
  <2> QED
    BY <1>2, <2>1, Stages DEF Stage
<1>4. \A e \in Dev : Stage[e] # "starting"
  <2>1. \A e \in Dev : pc[e] \in {"nonces", "update", "launch", "kernel", "candidates", "done"}
    BY <1>1, <1>2 DEF AllBuilt, TypeOK, ControlTypes
  <2> QED
    BY <2>1, Stages DEF Stage
<1>5. Pending' = Pending
  <2>1. Pending' = [Pending EXCEPT ![d] = PendingOf(d)']
    BY <1>1, OthersKept, PendingStep
  <2>2. PendingOf(d) = {} /\ PendingOf(d)' = {}
    BY <1>1, <1>2 DEF PendingOf, TypeOK, ControlTypes
  <2> QED
    BY <2>1, <2>2, PendingIs
<1>6. winners' = [winners EXCEPT ![d] = winners'[d]] /\ winners'[d] \subseteq Nat
  BY <1>1 DEF Launch, TypeOK, SolutionTypes
<1> QED
  BY <1>2, <1>3, <1>4, <1>5, <1>6 DEF Contract!Search, Contract!Move

\* The candidates of a launch are some of its solutions, no more than there are slots.
LEMMA CandidatesReported ==
    ASSUME RaceInv, NEW d \in Dev, pc[d] = "candidates"
    PROVE  LET some == {buffer[d][i] : i \in 1..Candidates(d)}
           IN  /\ some \subseteq winners[d]
               /\ winners[d] # {} => some # {}
               /\ IsFiniteSet(some) /\ Cardinality(some) <= Slots
<1> DEFINE n == Candidates(d)
           slot == [i \in 1..n |-> buffer[d][i]]
           some == {buffer[d][i] : i \in 1..n}
<1>1. n \in 0..Slots /\ \A i \in 1..n : buffer[d][i] \in winners[d]
  BY CandidatesRead
<1>2. winners[d] # {} => n > 0
  <2>1. FirstPending(d) /\ loading[d] = {} /\ storing[d] = {}
    BY DEF RaceInv, Races, Race
  <2>2. winners[d] # {} => count[d] \in Nat /\ count[d] # 0
    BY <2>1 DEF FirstPending, RaceInv, TypeOK, OutputTypes
  <2> QED
    BY <2>2 DEF Candidates
<1> HIDE DEF n
<1>3. IsFiniteSet(1..n) /\ Cardinality(1..n) = n
  BY <1>1, FS_Interval
<1>4. slot \in Surjection(1..n, some)
  BY DEF Surjection
<1>5. IsFiniteSet(some) /\ Cardinality(some) <= Cardinality(1..n)
  <2> HIDE DEF slot, some
  <2> QED
    BY <1>3, <1>4, FS_Surjection
<1>6. Cardinality(some) <= Slots
  <2>1. Cardinality(some) \in Nat
    <3> HIDE DEF some
    <3> QED
      BY <1>5, FS_CardinalityType
  <2> QED
    BY <1>1, <1>3, <1>5, <2>1
<1> QED
  BY <1>1, <1>2, <1>5, <1>6 DEF n

ReportOf(d) == {buffer[d][i] : i \in 1..Candidates(d)}
Reported ==
    \A d \in Dev : pc[d] = "candidates" =>
        /\ ReportOf(d) \subseteq winners[d]
        /\ winners[d] # {} => ReportOf(d) # {}
        /\ IsFiniteSet(ReportOf(d)) /\ Cardinality(ReportOf(d)) <= Slots

LEMMA ReportedNext == RaceInv' => Reported'
<1>1. RaceInv => Reported
  BY CandidatesReported DEF Reported, ReportOf
<1> QED
  BY <1>1, PTL

\* The contract's module counts like this one.
LEMMA SameCardinality ==
    ASSUME NEW S
    PROVE  /\ Contract!IsFiniteSet(S) <=> IsFiniteSet(S)
           /\ Contract!Cardinality(S) = Cardinality(S)
BY DEF Contract!IsFiniteSet, IsFiniteSet, Contract!Cardinality, Cardinality

LEMMA ContractReport ==
    ASSUME LInv, LInv', NEW d \in Dev, ReadOutput(d)
    PROVE  Contract!Report(d)
<1>1. TypeOK /\ RaceInv'
  BY DEF LInv, RaceInv
<1>2. /\ pc[d] = "kernel" /\ pc' = [pc EXCEPT ![d] = "candidates"]
      /\ next' = [next EXCEPT ![d] = 1] /\ UNCHANGED <<shares, winners>>
  BY DEF ReadOutput, Step, solutionVars
<1>3. Stage[d] = "searching" /\ Stage' = [Stage EXCEPT ![d] = "assessing"]
  <2>1. Stage' = [Stage EXCEPT ![d] = StageOf("candidates")]
    BY <1>1, <1>2, StageStep
  <2> QED
    BY <1>2, <2>1, Stages DEF Stage
<1>4. pc'[d] = "candidates" /\ next'[d] = 1
  BY <1>1, <1>2 DEF TypeOK, ControlTypes, HostTypes
<1>5. Pending' = [Pending EXCEPT ![d] = PendingOf(d)']
  BY <1>1, OthersKept, PendingStep
<1>6. PendingOf(d)' = ReportOf(d)'
  BY <1>4 DEF PendingOf, ReportOf
<1>7. /\ ReportOf(d)' \subseteq winners'[d]
      /\ winners'[d] # {} => ReportOf(d)' # {}
      /\ IsFiniteSet(ReportOf(d)') /\ Cardinality(ReportOf(d)') <= Slots
  BY <1>1, <1>4, ReportedNext DEF Reported
<1>8. \E some \in SUBSET winners[d] :
        /\ winners[d] # {} => some # {}
        /\ IsFiniteSet(some) /\ Cardinality(some) <= Slots
        /\ Pending' = [Pending EXCEPT ![d] = some]
  <2>1. winners' = winners
    BY <1>2
  <2> QED
    BY <1>5, <1>6, <1>7, <2>1
<1> QED
  BY <1>2, <1>3, <1>8, SameCardinality DEF Contract!Report, Contract!Move

LEMMA ContractAssess ==
    ASSUME LInv, NEW d \in Dev, foundCandidate(d)
    PROVE  Contract!Assess(d)
<1>1. TypeOK /\ RaceInv
  BY DEF LInv, RaceInv
<1> DEFINE n == next[d]
           k == Candidates(d)
           slot(i) == buffer[d][i]
<1>2. /\ pc[d] = "candidates" /\ pc' = pc /\ n <= k
      /\ next' = [next EXCEPT ![d] = n + 1] /\ UNCHANGED <<count, buffer, winners>>
  BY DEF foundCandidate, outputVars, solutionVars
<1>3. n \in Nat \ {0} /\ k \in Nat /\ n \in 1..k
  <2>1. n \in Nat \ {0}
    BY <1>1 DEF TypeOK, HostTypes
  <2>2. k \in 0..Slots
    BY <1>1, <1>2, CandidatesRead
  <2> HIDE DEF n, k
  <2> QED
    BY <1>2, <2>1, <2>2
<1>4. HostAgrees(d)
  BY <1>1, <1>2, <1>3, CandidatesRead, HeaderMatches DEF HostAgrees, LInv
<1>5. shares' = IF slot(n) \in AboveLimit THEN shares ELSE [shares EXCEPT ![d] = @ + 1]
  BY <1>4 DEF foundCandidate
<1>6. \A i, j \in 1..k : slot(i) = slot(j) => i = j
  <2>1. Once(d)
    BY <1>1, <1>2 DEF RaceInv, Races, Race
  <2> QED
    BY <1>1, <1>2, <2>1, CandidatesRead DEF Once
<1>7. PendingOf(d) = {slot(i) : i \in n..k}
  BY <1>2 DEF PendingOf
<1>8. PendingOf(d)' = {slot(i) : i \in (n + 1)..k}
  BY <1>1, <1>2 DEF PendingOf, Candidates, TypeOK, HostTypes
<1>9. slot(n) \in PendingOf(d) /\ PendingOf(d)' = PendingOf(d) \ {slot(n)}
  <2> HIDE DEF n, k, slot
  <2>1. \A i \in n..k : i \in 1..k
    BY <1>3
  <2>2. n..k = {n} \cup ((n + 1)..k) /\ n \notin (n + 1)..k /\ n \in n..k
    BY <1>3
  <2> QED
    BY <1>6, <1>7, <1>8, <2>1, <2>2
<1>10. Pending' = [Pending EXCEPT ![d] = Pending[d] \ {slot(n)}] /\ slot(n) \in Pending[d]
  <2>1. Pending' = [Pending EXCEPT ![d] = PendingOf(d)']
    BY <1>1, OthersKept, PendingStep
  <2>2. Pending[d] = PendingOf(d)
    BY PendingIs
  <2> QED
    BY <1>9, <2>1, <2>2
<1>11. Stage[d] = "assessing" /\ Stage' = Stage
  BY <1>2, Stages DEF Stage, StageOf
<1> HIDE DEF n, slot
<1> QED
  BY <1>2, <1>5, <1>10, <1>11 DEF Contract!Assess

LEMMA ContractFinish ==
    ASSUME LInv, NEW d \in Dev, NextTurn(d)
    PROVE  Contract!Finish(d)
<1>1. TypeOK /\ RaceInv
  BY DEF LInv, RaceInv
<1>2. /\ pc[d] = "candidates" /\ pc' = [pc EXCEPT ![d] = "update"]
      /\ next[d] > Candidates(d) /\ winners' = [winners EXCEPT ![d] = {}] /\ shares' = shares
  BY DEF NextTurn, Step
<1>3. Stage[d] = "assessing" /\ Stage' = [Stage EXCEPT ![d] = "waiting"]
  <2>1. Stage' = [Stage EXCEPT ![d] = StageOf("update")]
    BY <1>1, <1>2, StageStep
  <2> QED
    BY <1>2, <2>1, Stages DEF Stage
<1>4. PendingOf(d) = {} /\ PendingOf(d)' = {}
  <2>1. next[d] \in Nat
    BY <1>1 DEF TypeOK, HostTypes
  <2>2. Candidates(d) \in 0..Slots
    BY <1>1, <1>2, CandidatesRead
  <2>3. next[d]..Candidates(d) = {}
    BY <1>2, <2>1, <2>2
  <2> QED
    BY <1>1, <1>2, <2>3 DEF PendingOf, TypeOK, ControlTypes
<1>5. Pending' = Pending /\ Pending[d] = {}
  <2>1. Pending' = [Pending EXCEPT ![d] = PendingOf(d)']
    BY <1>1, OthersKept, PendingStep
  <2> QED
    BY <1>4, <2>1, PendingIs
<1> QED
  BY <1>2, <1>3, <1>5 DEF Contract!Finish, Contract!Move

LEMMA ContractEnd ==
    ASSUME LInv, NEW d \in Dev, DeviceEnds(d)
    PROVE  Contract!End(d)
<1>1. TypeOK
  BY DEF LInv, RaceInv
<1>2. /\ pc[d] \in {"nonces", "update", "launch", "candidates"}
      /\ pc' = [pc EXCEPT ![d] = "done"] /\ UNCHANGED <<winners, shares>>
  BY DEF DeviceEnds, solutionVars, hostVars
<1>3. Stage[d] \in {"waiting", "assessing"} /\ Stage' = [Stage EXCEPT ![d] = "ended"]
  <2>1. Stage' = [Stage EXCEPT ![d] = StageOf("done")]
    BY <1>1, <1>2, StageStep
  <2> QED
    BY <1>2, <2>1, Stages DEF Stage
<1>4. Pending' = [Pending EXCEPT ![d] = {}]
  <2>1. Pending' = [Pending EXCEPT ![d] = PendingOf(d)']
    BY <1>1, OthersKept, PendingStep
  <2>2. PendingOf(d)' = {}
    BY <1>1, <1>2 DEF PendingOf, TypeOK, ControlTypes
  <2> QED
    BY <2>1, <2>2
<1> QED
  BY <1>2, <1>3, <1>4 DEF Contract!End

LEMMA LaunchContractStep == LInv /\ LInv' /\ [Next]_vars => [Contract!LNext]_(Contract!lvars)
<1> SUFFICES ASSUME LInv, LInv', [Next]_vars PROVE [Contract!LNext]_(Contract!lvars)
  OBVIOUS
<1>1. CASE UNCHANGED vars
  BY <1>1 DEF vars, hostVars, outputVars, solutionVars, Contract!lvars, Stage, Pending, Candidates
<1>2. ASSUME NEW d \in Dev, NewDevice(d) \/ NewDeviceFails(d) PROVE Contract!LNext
  BY <1>2, ContractConstruction
<1>3. ASSUME NEW d \in Dev, runDevice(d) PROVE [Contract!LNext]_(Contract!lvars)
  <2>1. CASE \/ initNonces(d) \/ updateCurrentWork(d)
             \/ ReadCount(d) \/ StoreCount(d) \/ WriteNonce(d)
    BY <2>1, ContractUnseen
  <2>2. CASE Launch(d) \/ ReadOutput(d) \/ foundCandidate(d) \/ NextTurn(d) \/ DeviceEnds(d)
    <3>1. \/ Contract!Search(d) \/ Contract!Report(d) \/ Contract!Assess(d)
          \/ Contract!Finish(d) \/ Contract!End(d)
      BY <2>2, ContractLaunch, ContractReport, ContractAssess, ContractFinish, ContractEnd
    <3> QED
      BY <3>1 DEF Contract!LNext
  <2> QED
    BY <1>3, <2>1, <2>2 DEF runDevice
<1> QED
  BY <1>1, <1>2, <1>3 DEF Next

\* The launches keep their contract, however their items race.
THEOREM LaunchesKeepContract == Spec => KeepsLaunchContract
<1>1. Init => Contract!LInit
  <2> SUFFICES ASSUME Init PROVE Contract!LInit
    OBVIOUS
  <2>1. Stage \in [Dev -> {"starting", "ended"}]
    BY Stages DEF Init, Stage
  <2>2. Pending = [d \in Dev |-> {}]
    BY DEF Init, Pending
  <2> QED
    BY <2>1, <2>2 DEF Init, Contract!LInit
<1> QED
  BY <1>1, LInvariant, LaunchContractStep, PTL DEF Spec, KeepsLaunchContract, Contract!LSpec
=============================================================================
