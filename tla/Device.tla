------------------------------- MODULE Device -------------------------------
(***************************************************************************)
(* The devices of one process from their construction on: NewDevice and    *)
(* the search loop of runDevice with its nonces (device.go,                *)
(* device_opencl.go, util.go), one kernel launch as the concurrent work    *)
(* items it consists of (blake3.cl), the read of the output buffer, and    *)
(* foundCandidate.  Module Miner has what this one leaves out of the loop: *)
(* the queues, the context, a block's way to the node and the idling.      *)
(*                                                                         *)
(* Work is numbered in the order it is published.  A header is a piece of  *)
(* work with the fields the device writes into it; its hash is abstract: a *)
(* launch picks the nonces that make it end in a zero word.                *)
(***************************************************************************)
EXTENDS Tuning, FiniteSets

CONSTANTS
    Dev,            \* indexes of the devices -l lists
    Byte,           \* how many values a byte has (256)
    Low,            \* how many values the low 3 bytes of a word have (2^24)
    Slots,          \* words of the output buffer behind the count (63)
    Settings,       \* the settings a user may give
    Costs,          \* time units a device may need per work item
    Overheads,      \* time units it may need for a launch besides
    Offsets,        \* values the random source may give for the two offsets
    ExtraNonces,    \* values the random source may give for extraNonce
    LowNonces,      \* values it may give for the low bytes of extraNonce2
    Times,          \* timestamps
    Garbage,        \* what calibration can leave in a word of the buffer
    AboveLimit,     \* nonces whose hash ends in a zero word and misses PowLimit
    MaxNonce,       \* bound: no larger nonce solves a header
    MaxSolved,      \* bound: nonces that solve a header, over all launches
    MaxWork,        \* bound: pieces of work
    MaxLaunches     \* bound: launches on one piece of work

ASSUME DevAssumption == Dev \subseteq Nat /\ IsFiniteSet(Dev)
ASSUME NonceAssumption ==
    /\ Byte \in Nat \ {0}
    /\ Low \in Nat \ {0}
    /\ Offsets \subseteq 0..(Byte - 1)
    /\ ExtraNonces \subseteq Nat
    /\ LowNonces \subseteq 0..(Low - 1)
    /\ Times \subseteq Nat
ASSUME SpeedAssumption == Costs \subseteq Nat \ {0} /\ Overheads \subseteq Nat
ASSUME SettingsAssumption ==
    Settings \subseteq [autocalibrate : Seq(Int) \ {<<>>}, intensity : Seq(Int),
                       worksize : Seq(Int), dutycycle : Seq(Int)]
ASSUME SlotsAssumption == Slots \in Nat \ {0} /\ Garbage \subseteq Nat
ASSUME BoundAssumption ==
    MaxNonce \in Nat /\ MaxSolved \in Nat /\ MaxWork \in Nat /\ MaxLaunches \in Nat

VARIABLES
    given,          \* the settings of cfg
    used,           \* the devices chosen, cfg.DeviceIDs or all
    speed,          \* speed[d]: what the hardware needs per item and launch
    offset1,        \* randDeviceOffset1
    offset2,        \* randDeviceOffset2
    pc,             \* where newMinerDevs or runDevice is with a device
    workSize,       \* Device.workSize
    extraNonce,     \* Device.extraNonce
    extraNonce2,    \* Device.extraNonce2
    work,           \* Device.work, 0 while hasWork is false
    lastBlock,      \* Device.lastBlock, the header the kernel is given
    loading,        \* solving items that have not read output[0] yet
    storing,        \* solving items that have, with the count they read
    writing,        \* solving items that have stored it, with their slot
    count,          \* output[0]
    buffer,         \* the words behind it
    next,           \* the candidate runDevice assesses next, i + 1
    shares,         \* Device.allDiffOneShares
    hashMismatches, \* Device.hashMismatches
    winners,        \* history: the nonces that solve lastBlock
    filled,         \* history: slots written in this launch
    hashed,         \* history: headers launched on the current work
    launches,       \* history: how many launches those were
    solved          \* history: how many nonces solved a header so far

envVars     == <<given, used, speed, offset1, offset2>>
nonceVars   == <<extraNonce, extraNonce2, work, lastBlock, hashed, launches>>
itemVars    == <<loading, storing, writing>>
outputVars  == <<count, buffer, filled>>
hostVars    == <<next, shares, hashMismatches>>
solutionVars == <<winners, solved>>
vars == <<envVars, pc, workSize, nonceVars, itemVars, outputVars, hostVars,
          solutionVars>>

Items == [nonce : Nat, val : Nat]
Headers == [work : Nat, time : Nat, n1 : Nat, n2 : Nat, n3 : 0..(Byte - 1)]

ControlTypes ==
    /\ used \in SUBSET Dev
    /\ offset1 \in 0..(Byte - 1) /\ offset2 \in 0..(Byte - 1)
    /\ pc \in [Dev -> {"new", "nonces", "update", "launch", "kernel",
                       "candidates", "done"}]
NonceTypes ==
    /\ extraNonce \in [Dev -> Nat] /\ extraNonce2 \in [Dev -> Nat]
    /\ work \in [Dev -> Nat]
    /\ lastBlock \in [Dev -> Headers]
    /\ hashed \in [Dev -> SUBSET Headers] /\ launches \in [Dev -> Nat]
ItemTypes ==
    /\ loading \in [Dev -> SUBSET Nat]
    /\ storing \in [Dev -> SUBSET Items] /\ writing \in [Dev -> SUBSET Items]
OutputTypes ==
    /\ count \in [Dev -> Nat]
    /\ buffer \in [Dev -> [1..Slots -> Nat]]
    /\ filled \in [Dev -> SUBSET Nat]
HostTypes ==
    /\ next \in [Dev -> Nat \ {0}]
    /\ shares \in [Dev -> Nat] /\ hashMismatches \in [Dev -> Nat]
SolutionTypes == winners \in [Dev -> SUBSET Nat] /\ solved \in Nat

\* The types.
TypeOK ==
    ControlTypes /\ NonceTypes /\ ItemTypes /\ OutputTypes /\ HostTypes /\ SolutionTypes

Init ==
    /\ given \in {s \in Settings : Accepts(s)}
    /\ used \in SUBSET Dev
    /\ speed \in [Dev -> [cost : Costs, overhead : Overheads]]
    /\ offset1 \in Offsets /\ offset2 \in Offsets
    /\ pc = [d \in Dev |-> IF d \in used THEN "new" ELSE "done"]
    /\ workSize = [d \in Dev |-> 0]
    /\ extraNonce = [d \in Dev |-> 0] /\ extraNonce2 = [d \in Dev |-> 0]
    /\ work = [d \in Dev |-> 0]
    /\ lastBlock = [d \in Dev |-> [work |-> 0, time |-> 0, n1 |-> 0, n2 |-> 0, n3 |-> 0]]
    /\ loading = [d \in Dev |-> {}]
    /\ storing = [d \in Dev |-> {}] /\ writing = [d \in Dev |-> {}]
    /\ count = [d \in Dev |-> 0]
    /\ buffer = [d \in Dev |-> [i \in 1..Slots |-> 0]]
    /\ next = [d \in Dev |-> 1]
    /\ shares = [d \in Dev |-> 0] /\ hashMismatches = [d \in Dev |-> 0]
    /\ winners = [d \in Dev |-> {}] /\ solved = 0
    /\ filled = [d \in Dev |-> {}]
    /\ hashed = [d \in Dev |-> {}] /\ launches = [d \in Dev |-> 0]

Step(d, from, to) == pc[d] = from /\ pc' = [pc EXCEPT ![d] = to]
-----------------------------------------------------------------------------
(***************************************************************************)
(* newMinerDevs constructs the devices one after the other, before any of  *)
(* them runs; one that fails ends the program.                             *)
(***************************************************************************)
\* What a launch of ws items takes on device d.
Elapsed(d, ws) == speed[d].overhead + ws * speed[d].cost

\* Its position among the devices used, from 0.
Order(d) == Cardinality({e \in used : e < d})

\* The calibration launches use the same output buffer and leave it dirty.
NewDevice(d) ==
    /\ \A e \in Dev : e < d => pc[e] # "new"
    /\ Step(d, "new", "nonces")
    /\ workSize' = [workSize EXCEPT ![d] =
            WorkSize(given, Order(d), [ws \in CalSizes |-> Elapsed(d, ws)])]
    /\ \E garbage \in [1..Slots -> Garbage] :
            buffer' = [buffer EXCEPT ![d] = garbage]
    /\ UNCHANGED <<envVars, nonceVars, itemVars, count, filled, hostVars, solutionVars>>

\* An OpenCL call or the build of the kernel fails.
NewDeviceFails(d) ==
    /\ pc[d] = "new"
    /\ pc' = [e \in Dev |-> "done"]
    /\ UNCHANGED <<envVars, workSize, nonceVars, itemVars, outputVars, hostVars, solutionVars>>
-----------------------------------------------------------------------------
(***************************************************************************)
(* Nonces.  The first byte of extraNonce2 and one byte of the third nonce  *)
(* word are the device's index, each with an offset of the process.        *)
(***************************************************************************)
\* Variant: the index is not reduced to a byte.
DeviceIDWhole(d) == d + offset2

DeviceOffset(d) == (d + offset1) % Byte
DeviceID(d) == (d + offset2) % Byte

initNonces(d) ==
    /\ \A e \in Dev : pc[e] # "new"
    /\ Step(d, "nonces", "update")
    /\ \E r \in ExtraNonces : extraNonce' = [extraNonce EXCEPT ![d] = r]
    /\ \E r \in LowNonces :
            extraNonce2' = [extraNonce2 EXCEPT ![d] = DeviceOffset(d) * Low + r]
    /\ UNCHANGED <<envVars, workSize, work, lastBlock, hashed, launches, itemVars,
                   outputVars, hostVars, solutionVars>>

\* Variant: it carries into the device's byte.
PlainIncrement(v) == (v + 1) % (Byte * Low)

\* Variant: it starts over one value early.
RolloverOneEarly(v) == IF v % Low >= Low - 2 THEN v - (v % Low) ELSE v + 1

RolloverExtraNonce(v) == IF v % Low = Low - 1 THEN v - (v % Low) ELSE v + 1

\* The header of new work, with the device's nonces written into it.
HeaderOf(d, w) ==
    [lastBlock[d] EXCEPT !.work = w,
                         !.n1 = extraNonce[d], !.n2 = extraNonce2[d], !.n3 = DeviceID(d)]

\* It blocks for the first work; later it looks whether there is newer.
updateCurrentWork(d) ==
    /\ Step(d, "update", "launch")
    /\ \/ /\ work[d] # 0
          /\ UNCHANGED <<work, lastBlock, hashed, launches>>
       \/ \E w \in (work[d] + 1)..MaxWork :
            /\ work' = [work EXCEPT ![d] = w]
            /\ lastBlock' = [lastBlock EXCEPT ![d] = HeaderOf(d, w)]
            /\ hashed' = [hashed EXCEPT ![d] = {}]
            /\ launches' = [launches EXCEPT ![d] = 0]
    /\ UNCHANGED <<envVars, workSize, extraNonce, extraNonce2, itemVars,
                   outputVars, hostVars, solutionVars>>
-----------------------------------------------------------------------------
(***************************************************************************)
(* One launch.  An item whose hash ends in a zero word executes            *)
(* output[++output[0]] = nonce, which is a read of the count, a store of   *)
(* the count and a store of the nonce, with no atomicity between items.    *)
(* Only the count is cleared before the launch.                            *)
(***************************************************************************)
\* Variant: the count is not cleared.
CountKept(d) == count[d]

ClearedCount(d) == 0

\* The rest of the loop before the kernel runs: roll the nonce over, read the
\* clock, set the arguments, clear the count, enqueue.
Launch(d) ==
    /\ Step(d, "launch", "kernel")
    /\ launches[d] < MaxLaunches
    /\ workSize[d] > 0
    /\ extraNonce2' = [extraNonce2 EXCEPT ![d] = RolloverExtraNonce(@)]
    /\ \E t \in Times :
            lastBlock' = [lastBlock EXCEPT ![d].n2 = extraNonce2'[d], ![d].time = t]
    /\ hashed' = [hashed EXCEPT ![d] = @ \cup {lastBlock'[d]}]
    /\ launches' = [launches EXCEPT ![d] = @ + 1]
    /\ \E solutions \in SUBSET {n \in 0..MaxNonce : n < workSize[d]} :
            /\ solved' = solved + Cardinality(solutions)
            /\ solved' <= MaxSolved
            /\ winners' = [winners EXCEPT ![d] = solutions]
            /\ loading' = [loading EXCEPT ![d] = solutions]
    /\ count' = [count EXCEPT ![d] = ClearedCount(d)]
    /\ filled' = [filled EXCEPT ![d] = {}]
    /\ UNCHANGED <<envVars, workSize, extraNonce, work, storing, writing, buffer, hostVars>>

ReadCount(d) ==
    /\ pc[d] = "kernel"
    /\ \E n \in loading[d] :
            /\ loading' = [loading EXCEPT ![d] = @ \ {n}]
            /\ storing' = [storing EXCEPT ![d] = @ \cup {[nonce |-> n, val |-> count[d]]}]
    /\ UNCHANGED <<envVars, pc, workSize, nonceVars, writing, outputVars, hostVars, solutionVars>>

\* Variant: the count is incremented after the nonce is stored.
SlotBeforeCount(item) == item.val

\* The slot of an item is the count it stores.
SlotOf(item) == item.val + 1

StoreCount(d) ==
    /\ pc[d] = "kernel"
    /\ \E item \in storing[d] :
            /\ storing' = [storing EXCEPT ![d] = @ \ {item}]
            /\ count' = [count EXCEPT ![d] = item.val + 1]
            /\ writing' = [writing EXCEPT ![d] = @ \cup {[item EXCEPT !.val = SlotOf(item)]}]
    /\ UNCHANGED <<envVars, pc, workSize, nonceVars, loading, buffer, filled, hostVars, solutionVars>>

\* A slot beyond the buffer is memory nobody reads here.
WriteNonce(d) ==
    /\ pc[d] = "kernel"
    /\ \E item \in writing[d] :
            /\ writing' = [writing EXCEPT ![d] = @ \ {item}]
            /\ buffer' = [buffer EXCEPT ![d] =
                            [i \in 1..Slots |-> IF i = item.val THEN item.nonce ELSE @[i]]]
            /\ filled' = [filled EXCEPT ![d] = @ \cup {item.val}]
    /\ UNCHANGED <<envVars, pc, workSize, nonceVars, loading, storing, count, hostVars, solutionVars>>

\* The blocking read returns when the last item is done.
ReadOutput(d) ==
    /\ Step(d, "kernel", "candidates")
    /\ loading[d] = {} /\ storing[d] = {} /\ writing[d] = {}
    /\ next' = [next EXCEPT ![d] = 1]
    /\ UNCHANGED <<envVars, workSize, nonceVars, itemVars, outputVars, shares,
                   hashMismatches, solutionVars>>
-----------------------------------------------------------------------------
(***************************************************************************)
(* The candidates.                                                         *)
(***************************************************************************)
\* Variant: the 1 is taken off after the minimum.
CandidatesOneLess(d) == (IF count[d] < Slots + 1 THEN count[d] ELSE Slots + 1) - 1

\* The count is not bounded by the kernel, so it is clamped here.
Candidates(d) == IF count[d] < Slots THEN count[d] ELSE Slots

\* The header as foundCandidate puts it together again, from the work and the
\* words of lastBlock it is called with.
CandidateHeader(d) ==
    [work |-> work[d], time |-> lastBlock[d].time, n1 |-> lastBlock[d].n1,
     n2 |-> lastBlock[d].n2, n3 |-> DeviceID(d)]

\* The host's own hash of the candidate ends in a zero word.
HostAgrees(d) ==
    /\ CandidateHeader(d) = lastBlock[d]
    /\ buffer[d][next[d]] \in winners[d]

\* A candidate the host agrees on counts as a share unless it misses the
\* network's minimum; whether it is a block as well is module Miner's.
foundCandidate(d) ==
    /\ pc[d] = "candidates"
    /\ next[d] <= Candidates(d)
    /\ next' = [next EXCEPT ![d] = @ + 1]
    /\ hashMismatches' = IF HostAgrees(d) THEN hashMismatches
                           ELSE [hashMismatches EXCEPT ![d] = @ + 1]
    /\ shares' = IF HostAgrees(d) /\ buffer[d][next[d]] \notin AboveLimit
                   THEN [shares EXCEPT ![d] = @ + 1] ELSE shares
    /\ UNCHANGED <<envVars, pc, workSize, nonceVars, itemVars, outputVars, solutionVars>>

\* What happened in the launch is forgotten.
NextTurn(d) ==
    /\ Step(d, "candidates", "update")
    /\ next[d] > Candidates(d)
    /\ next' = [next EXCEPT ![d] = 1]
    /\ winners' = [winners EXCEPT ![d] = {}]
    /\ filled' = [filled EXCEPT ![d] = {}]
    /\ UNCHANGED <<envVars, workSize, nonceVars, itemVars, count, buffer, shares,
                   hashMismatches, solved>>

\* The context is done, which the wait for the first work notices as well, or
\* the random source or an OpenCL call fails.  A launch that fails ends the
\* device before it is made, a read of the output before the first candidate.
DeviceEnds(d) ==
    /\ pc[d] \in {"nonces", "update", "launch", "candidates"}
    /\ \A e \in Dev : pc[e] # "new"
    /\ pc' = [pc EXCEPT ![d] = "done"]
    /\ UNCHANGED <<envVars, workSize, nonceVars, itemVars, outputVars, hostVars, solutionVars>>

runDevice(d) ==
    \/ initNonces(d) \/ updateCurrentWork(d) \/ Launch(d)
    \/ ReadCount(d) \/ StoreCount(d) \/ WriteNonce(d) \/ ReadOutput(d)
    \/ foundCandidate(d) \/ NextTurn(d) \/ DeviceEnds(d)

Next == \E d \in Dev : NewDevice(d) \/ NewDeviceFails(d) \/ runDevice(d)

Spec == Init /\ [][Next]_vars
-----------------------------------------------------------------------------
(***************************************************************************)
(* Properties.                                                             *)
(***************************************************************************)
\* The host's check of a candidate never fails: however the items of a launch
\* interleave on the count, and whatever earlier launches left in the buffer,
\* every slot the host looks at was written in this launch by an item that
\* solved the very header the host rebuilds.  So a mismatch does mean, as
\* foundCandidate says, that the two compute different hashes.
NoMismatch == \A d \in Dev : hashMismatches[d] = 0

\* No solution is assessed twice: losing candidates to the race never
\* duplicates one, so neither a block nor a share is counted double.
CandidatesDistinct ==
    \A d \in Dev : pc[d] = "candidates" =>
        \A i, j \in 1..Candidates(d) : buffer[d][i] = buffer[d][j] => i = j

\* Items can overwrite each other's candidates, but a launch that solved its
\* header reports at least one.
SomeSolutionKept ==
    \A d \in Dev : pc[d] = "candidates" /\ winners[d] # {} => Candidates(d) > 0

SecondNonces(d) == {h.n2 : h \in hashed[d]}

\* Two devices never hash the same header: the second extra nonce alone keeps
\* them apart, however often its low bytes roll over, unless their indexes
\* agree modulo 256.
SpacesDisjoint ==
    \A d, e \in Dev :
        d % Byte # e % Byte => SecondNonces(d) \cap SecondNonces(e) = {}

\* A device goes through all low values of extraNonce2 on a piece of work
\* before it uses one again, wherever it started.
RangeBeforeRepeat ==
    \A d \in Dev :
        Cardinality(SecondNonces(d)) =
            IF launches[d] < Low THEN launches[d] ELSE Low

Built(d) == pc[d] \notin {"new", "done"}

Calibrated == given.worksize = <<>> /\ given.intensity = <<>>
Target(d) == OwnOrFirst(given.autocalibrate, Order(d))

\* The size for the target would not fit a word.
TooFast(d) == Target(d) >= Elapsed(d, Word - Granule)

\* An accepted work size or intensity, and a calibration with a positive
\* target on a device that is not too fast for a 32-bit size, give a launch
\* OpenCL can execute: a positive multiple of the granule.
WorkSizeUsable ==
    \A d \in Dev : Built(d) /\ ~(Calibrated /\ (Target(d) <= 0 \/ TooFast(d))) =>
        workSize[d] \in Granule..(Word - Granule) /\ workSize[d] % Granule = 0

(***************************************************************************)
(* The contract of the launches, and how it is kept.                       *)
(***************************************************************************)
StageOf(at) ==
    CASE at = "new"                               -> "starting"
      [] at \in {"nonces", "update", "launch"}    -> "waiting"
      [] at = "kernel"                            -> "searching"
      [] at = "candidates"                        -> "assessing"
      [] at = "done"                              -> "ended"
Stage == [d \in Dev |-> StageOf(pc[d])]

Pending ==
    [d \in Dev |-> {buffer[d][i] : i \in {j \in next[d]..Candidates(d) : pc[d] = "candidates"}}]

Contract == INSTANCE LaunchContract WITH
    stage <- Stage, solutions <- winners, pending <- Pending, credited <- shares

\* Racing work items, a buffer that is never cleared and a candidate rebuilt by
\* the host come to launches that report solutions, each assessed once: a share
\* is counted for a solution and for nothing else, and no launch that has one
\* ends with nothing to assess.
KeepsLaunchContract == Contract!LSpec
-----------------------------------------------------------------------------
\* Without a work size set, a launch takes about the time asked for (README.md),
\* stated here as at least half of it.  What the code does not guarantee: the
\* size for a fast device wraps.
LaunchTakesTarget ==
    \A d \in Dev : Built(d) /\ Calibrated => 2 * Elapsed(d, workSize[d]) >= Target(d)
=============================================================================
