---------------------------- MODULE MinerProofs ----------------------------
(***************************************************************************)
(* What holds of the mining run for any number of devices, any capacities  *)
(* and any bounds.  The proofs go through four inductive invariants:       *)
(*   Typed    - the types, with what keeps the counters in their ranges;   *)
(*   Stopped  - who can have cancelled the run;                            *)
(*   Waiting  - which sources cannot be feeding;                           *)
(*   Fed      - what the feeds in progress still owe the devices;          *)
(* EveryBlockAccounted is inductive as it stands.                          *)
(***************************************************************************)
EXTENDS Miner, SequenceTheorems, TLAPS

\* A device with candidates to send has some left, a feed under way has work
\* to hand out, and expiryThread has not failed more often than it may.
Typed ==
    /\ TypeOK
    /\ \A d \in Devices : dpc[d] \in {"found", "send"} => left[d] # 0
    /\ \A s \in Sources : nextDev[s] # 0 => job[s] # 0
    /\ failures = MaxFailures => cancelled

\* A run that is cancelled has a reason; no thread ends before that.
Stopped ==
    /\ interrupted => cancelled
    /\ cancelled => interrupted \/ fatal
    /\ fatal => phase \in {"run", "returned"}
    /\ spc = "done" => cancelled
    /\ phase = "returned" => cancelled

\* A source that waits for a reply is not feeding the devices.
Waiting ==
    /\ phase \in Calling => job["init"] = 0
    /\ epc = "poll" => job["expiry"] = 0

\* As long as feeds have not overlapped there is at most one in progress, it
\* carries currentWork, and the devices it has passed have been given that.
Fed ==
    /\ ~raced =>
         /\ \A s, t \in Sources : nextDev[s] # 0 /\ nextDev[t] # 0 => s = t
         /\ \A s \in Sources : nextDev[s] # 0 => job[s] = currentWork
    /\ ~raced /\ ~cancelled =>
         \A d \in Devices :
            Handed(d) = currentWork \/ \E s \in Sources : nextDev[s] \in 1..d

USE DEF Devices, Sources, Templates, StatsDone, Calling
-----------------------------------------------------------------------------
(***************************************************************************)
(* Types.                                                                  *)
(***************************************************************************)
LEMMA TypedInit == Init => Typed
<1> SUFFICES ASSUME Init PROVE Typed
  OBVIOUS
<1> USE NumDevicesAssumption, CapAssumption, MaxFailuresAssumption,
        BoundsAssumption DEF Init
<1>1. FlagTypes
  BY DEF FlagTypes
<1>2. NodeTypes
  BY DEF NodeTypes
<1>3. WorkTypes
  BY DEF WorkTypes
<1>4. DeviceTypes
  BY DEF DeviceTypes
<1>5. SubmitTypes
  BY DEF SubmitTypes
<1>6. ThreadTypes
  BY DEF ThreadTypes
<1>7. (failures = MaxFailures) = FALSE
  OBVIOUS
<1>8. \A s \in Sources : nextDev[s] = 0
  OBVIOUS
<1> QED
  BY <1>1, <1>2, <1>3, <1>4, <1>5, <1>6, <1>7, <1>8 DEF Typed, TypeOK

LEMMA DeviceFrame ==
    ASSUME [Next]_vars
    PROVE  \/ UNCHANGED <<newWork, deviceVars>>
           \/ \E s \in Sources : SetWork(s)
           \/ \E d \in Devices : runDevice(d)
<1>1. CASE UNCHANGED vars
  BY <1>1 DEF vars
<1>2. CASE Environment \/ OnWork
  BY <1>2 DEF Environment, NewTemplate, NodeExit, Interrupt, Age, OnWork
<1>3. CASE \E s \in Sources : onSoloWork(s)
  BY <1>3 DEF onSoloWork, PublishWork
<1>4. CASE NewMiner \/ StartRun \/ RunReturn
  BY <1>4 DEF NewMiner, newSoloMiner, InitialWork, NewMinerFails, StartRun, RunReturn
<1>5. CASE workSubmitThread
  BY <1>5 DEF workSubmitThread, SubmitSelect, SubmitAccepted, SubmitRejected,
              PayeeFine, PayeeWrong, SubmitUnchanged
<1>6. CASE expiryThread
  BY <1>6 DEF expiryThread, ExpiryPoll, PollReply, PollFails, ExpiryStop, ExpiryUnchanged
<1>7. CASE nodeWatchThread \/ printStatsThread
  BY <1>7 DEF nodeWatchThread, NodeWatchUnchanged, printStatsThread, PrintStats,
              StatsTick, StatsStop, StatsUnchanged
<1> QED
  BY <1>1, <1>2, <1>3, <1>4, <1>5, <1>6, <1>7 DEF Next


LEMMA FlagsNext == Typed /\ [Next]_vars => FlagTypes'
<1> SUFFICES ASSUME FlagTypes, [Next]_vars PROVE FlagTypes'
  BY DEF Typed, TypeOK
<1> USE DEF FlagTypes, ctxVars, nodeVars, workVars, submitVars, EndRun
<1>1. CASE UNCHANGED vars
  BY <1>1 DEF vars
<1>2. CASE Environment \/ OnWork
  <2>1. CASE NewTemplate \/ OnWork
    BY <2>1 DEF NewTemplate, OnWork
  <2>2. CASE NodeExit \/ Interrupt \/ Age
    BY <2>2 DEF NodeExit, Interrupt, Age
  <2> QED
    BY <1>2, <2>1, <2>2 DEF Environment
<1>3. ASSUME NEW s \in Sources, onSoloWork(s) PROVE FlagTypes'
  BY <1>3 DEF onSoloWork, PublishWork, SetWork
<1>4. CASE NewMiner \/ StartRun \/ RunReturn
  <2>1. CASE newSoloMiner \/ InitialWork
    BY <2>1 DEF newSoloMiner, InitialWork
  <2>2. CASE NewMinerFails \/ StartRun \/ RunReturn
    BY <2>2 DEF NewMinerFails, StartRun, RunReturn
  <2> QED
    BY <1>4, <2>1, <2>2 DEF NewMiner
<1>5. ASSUME NEW d \in Devices, runDevice(d) PROVE FlagTypes'
  BY <1>5 DEF runDevice, initNonces, updateCurrentWork, runKernel, LockCandidate,
              SendCandidate, IdleWait, DeviceUnchanged
<1>6. CASE workSubmitThread
  BY <1>6 DEF workSubmitThread, SubmitSelect, SubmitAccepted, SubmitRejected,
              PayeeFine, PayeeWrong, SubmitUnchanged
<1>7. CASE expiryThread
  BY <1>7 DEF expiryThread, ExpiryPoll, PollReply, PollFails, ExpiryStop, ExpiryUnchanged
<1>8. CASE nodeWatchThread \/ printStatsThread
  BY <1>8 DEF nodeWatchThread, NodeWatchUnchanged, printStatsThread, PrintStats,
              StatsTick, StatsStop, StatsUnchanged
<1> QED
  BY <1>1, <1>2, <1>3, <1>4, <1>5, <1>6, <1>7, <1>8 DEF Next

LEMMA NodeFrame ==
    ASSUME [Next]_vars
    PROVE  \/ UNCHANGED <<tip, wire, lastRead>>
           \/ NewTemplate \/ OnWork \/ newSoloMiner \/ InitialWork \/ PollReply
<1> USE DEF nodeVars
<1>1. CASE UNCHANGED vars
  BY <1>1 DEF vars
<1>2. CASE Environment \/ OnWork
  BY <1>2 DEF Environment, NodeExit, Interrupt, Age
<1>3. CASE \E s \in Sources : onSoloWork(s)
  BY <1>3 DEF onSoloWork, PublishWork, SetWork
<1>4. CASE NewMiner \/ StartRun \/ RunReturn
  BY <1>4 DEF NewMiner, NewMinerFails, StartRun, RunReturn
<1>5. CASE \E d \in Devices : runDevice(d)
  BY <1>5 DEF runDevice, initNonces, updateCurrentWork, runKernel, LockCandidate,
              SendCandidate, IdleWait, DeviceUnchanged
<1>6. CASE workSubmitThread
  BY <1>6 DEF workSubmitThread, SubmitSelect, SubmitAccepted, SubmitRejected,
              PayeeFine, PayeeWrong, SubmitUnchanged
<1>7. CASE expiryThread
  BY <1>7 DEF expiryThread, ExpiryPoll, PollFails, ExpiryStop, ExpiryUnchanged
<1>8. CASE nodeWatchThread \/ printStatsThread
  BY <1>8 DEF nodeWatchThread, NodeWatchUnchanged, printStatsThread, PrintStats,
              StatsTick, StatsStop, StatsUnchanged
<1> QED
  BY <1>1, <1>2, <1>3, <1>4, <1>5, <1>6, <1>7, <1>8 DEF Next

\* The first template is never announced, so there is one before those that are.
LEMMA UnannouncedIsTemplate == NodeTypes => Unannounced \in Templates
<1> SUFFICES ASSUME NodeTypes PROVE Unannounced \in Templates
  OBVIOUS
<1> USE BoundsAssumption DEF NodeTypes, Unannounced
<1>1. CASE wire = <<>>
  BY <1>1
<1>2. CASE wire # <<>>
  <2>1. Head(wire) \in 2..MaxTemplate
    BY <1>2
  <2> QED
    BY <1>2, <2>1
<1> QED
  BY <1>1, <1>2

\* What a getwork reply carries is a template the node has built.
LEMMA RepliesAreTemplates == NodeTypes => Replies \subseteq Templates
BY UnannouncedIsTemplate, BoundsAssumption DEF NodeTypes, Replies

LEMMA NodeNext == Typed /\ [Next]_vars => NodeTypes'
<1> SUFFICES ASSUME NodeTypes, [Next]_vars PROVE NodeTypes'
  BY DEF Typed, TypeOK
<1> USE BoundsAssumption DEF NodeTypes
<1>1. CASE UNCHANGED <<tip, wire, lastRead>>
  BY <1>1
<1>2. CASE NewTemplate
  <2>1. tip' \in Templates
    BY <1>2 DEF NewTemplate
  <2>2. tip + 1 \in 2..MaxTemplate
    BY <1>2, <2>1 DEF NewTemplate
  <2>3. wire' = Append(wire, tip + 1) \/ wire' = wire
    BY <1>2 DEF NewTemplate
  <2>4. Append(wire, tip + 1) \in Seq(2..MaxTemplate)
    <3>1. wire \in Seq(2..MaxTemplate)
      OBVIOUS
    <3> QED
      BY <2>2, <3>1, AppendProperties
  <2>5. wire' \in Seq(2..MaxTemplate)
    BY <2>3, <2>4
  <2> QED
    BY <1>2, <2>1, <2>5 DEF NewTemplate
<1>3. CASE OnWork
  <2>1. Head(wire) \in Templates /\ Tail(wire) \in Seq(2..MaxTemplate)
    BY <1>3 DEF OnWork
  <2> QED
    BY <1>3, <2>1 DEF OnWork
<1>4. CASE newSoloMiner
  BY <1>4, UnannouncedIsTemplate DEF newSoloMiner
<1>5. CASE InitialWork
  BY <1>5, RepliesAreTemplates DEF InitialWork
<1>6. CASE PollReply
  BY <1>6, RepliesAreTemplates DEF PollReply
<1> QED
  BY <1>1, <1>2, <1>3, <1>4, <1>5, <1>6, NodeFrame

LEMMA WorkFrame ==
    ASSUME [Next]_vars
    PROVE  \/ UNCHANGED <<currentWork, job, nextDev, raced>>
           \/ OnWork \/ InitialWork \/ PollReply
           \/ \E s \in Sources : onSoloWork(s)
<1> USE DEF workVars
<1>1. CASE UNCHANGED vars
  BY <1>1 DEF vars
<1>2. CASE Environment
  BY <1>2 DEF Environment, NewTemplate, NodeExit, Interrupt, Age
<1>3. CASE NewMiner \/ StartRun \/ RunReturn
  BY <1>3 DEF NewMiner, newSoloMiner, NewMinerFails, StartRun, RunReturn
<1>4. CASE \E d \in Devices : runDevice(d)
  BY <1>4 DEF runDevice, initNonces, updateCurrentWork, runKernel, LockCandidate,
              SendCandidate, IdleWait, DeviceUnchanged
<1>5. CASE workSubmitThread
  BY <1>5 DEF workSubmitThread, SubmitSelect, SubmitAccepted, SubmitRejected,
              PayeeFine, PayeeWrong, SubmitUnchanged
<1>6. CASE expiryThread
  BY <1>6 DEF expiryThread, ExpiryPoll, PollFails, ExpiryStop, ExpiryUnchanged
<1>7. CASE nodeWatchThread \/ printStatsThread
  BY <1>7 DEF nodeWatchThread, NodeWatchUnchanged, printStatsThread, PrintStats,
              StatsTick, StatsStop, StatsUnchanged
<1> QED
  BY <1>1, <1>2, <1>3, <1>4, <1>5, <1>6, <1>7 DEF Next

LEMMA WorkNext == Typed /\ [Next]_vars => WorkTypes'
<1> SUFFICES ASSUME NodeTypes, WorkTypes, [Next]_vars PROVE WorkTypes'
  BY DEF Typed, TypeOK
<1> USE BoundsAssumption, NumDevicesAssumption DEF WorkTypes
<1>1. CASE UNCHANGED <<currentWork, job, nextDev, raced>>
  BY <1>1
<1>2. CASE OnWork
  <2>1. Head(wire) \in Templates
    BY <1>2 DEF OnWork, NodeTypes
  <2> QED
    BY <1>2, <2>1 DEF OnWork
<1>3. CASE InitialWork
  BY <1>3, RepliesAreTemplates DEF InitialWork
<1>4. CASE PollReply
  BY <1>4, RepliesAreTemplates DEF PollReply
<1>5. ASSUME NEW s \in Sources, PublishWork(s) PROVE WorkTypes'
  BY <1>5 DEF PublishWork
<1>6. ASSUME NEW s \in Sources, SetWork(s) PROVE WorkTypes'
  BY <1>6 DEF SetWork
<1> QED
  BY <1>1, <1>2, <1>3, <1>4, <1>5, <1>6, WorkFrame DEF onSoloWork

LEMMA FeedTarget ==
    ASSUME WorkTypes, NEW s \in Sources, nextDev[s] # 0, job[s] # 0
    PROVE  nextDev[s] \in Devices /\ job[s] \in Templates
<1>1. nextDev[s] \in 0..NumDevices /\ job[s] \in 0..MaxTemplate
  BY DEF WorkTypes
<1> QED
  BY <1>1, NumDevicesAssumption, BoundsAssumption

LEMMA DeviceNext == Typed /\ [Next]_vars => DeviceTypes'
<1> SUFFICES ASSUME DeviceTypes, WorkTypes, [Next]_vars,
                    \A d \in Devices : dpc[d] \in {"found", "send"} => left[d] # 0,
                    \A s \in Sources : nextDev[s] # 0 => job[s] # 0
             PROVE  DeviceTypes'
  BY DEF Typed, TypeOK
<1> USE CapAssumption, BoundsAssumption, NumDevicesAssumption DEF DeviceTypes
<1>1. CASE UNCHANGED <<newWork, deviceVars>>
  BY <1>1 DEF deviceVars
<1>2. ASSUME NEW s \in Sources, SetWork(s) PROVE DeviceTypes'
  <2> DEFINE d == nextDev[s]
  <2>a. nextDev[s] # 0 /\ UNCHANGED deviceVars
    BY <1>2 DEF SetWork
  <2>b. d \in Devices /\ job[s] \in Templates
    BY <2>a, FeedTarget
  <2>1. UNCHANGED <<work, dpc, left>>
    BY <2>a DEF deviceVars
  <2>2. CASE newWork' = newWork
    BY <2>1, <2>2
  <2>3. CASE Room(d) /\ newWork' = [newWork EXCEPT ![d] = Append(@, job[s])]
    <3> DEFINE q == newWork[d]
               w == job[s]
    <3>1. q \in Seq(Templates) /\ w \in Templates /\ Len(q) < NewWorkCap
      BY <2>b, <2>3 DEF Room
    <3>2. /\ Append(q, w) \in Seq(Templates)
          /\ Len(Append(q, w)) <= NewWorkCap
      <4> HIDE DEF q, w, DeviceTypes
      <4>1. Append(q, w) \in Seq(Templates) /\ Len(Append(q, w)) = Len(q) + 1
        BY <3>1, AppendProperties
      <4>2. Len(q) \in Nat
        BY <3>1
      <4> QED
        BY <3>1, <4>1, <4>2, CapAssumption
    <3> QED
      BY <2>b, <2>1, <2>3, <3>2
  <2> QED
    BY <1>2, <2>2, <2>3 DEF SetWork
<1>3. ASSUME NEW d \in Devices, runDevice(d) PROVE DeviceTypes'
  <2>1. CASE initNonces(d)
    BY <2>1 DEF initNonces
  <2>2. CASE updateCurrentWork(d)
    <3>1. newWork[d] # <<>> => /\ Head(newWork[d]) \in Templates
                               /\ Tail(newWork[d]) \in Seq(Templates)
                               /\ Len(Tail(newWork[d])) <= NewWorkCap
      OBVIOUS
    <3>2. newWork' \in [Devices -> Seq(Templates)]
      BY <2>2, <3>1 DEF updateCurrentWork
    <3>3. \A e \in Devices : Len(newWork'[e]) <= NewWorkCap
      BY <2>2, <3>1 DEF updateCurrentWork
    <3>4. work' \in [Devices -> 0..MaxTemplate]
      <4>1. \/ work' = work
            \/ newWork[d] # <<>> /\ work' = [work EXCEPT ![d] = Head(newWork[d])]
        BY <2>2 DEF updateCurrentWork
      <4>2. newWork[d] # <<>> => Head(newWork[d]) \in 0..MaxTemplate
        BY <3>1
      <4>3. \A w \in 0..MaxTemplate : [work EXCEPT ![d] = w] \in [Devices -> 0..MaxTemplate]
        OBVIOUS
      <4> QED
        BY <4>1, <4>2, <4>3
    <3>5. dpc' = [dpc EXCEPT ![d] = "done"] \/ dpc' = [dpc EXCEPT ![d] = "launch"]
      BY <2>2 DEF updateCurrentWork
    <3>6. left' = left
      BY <2>2 DEF updateCurrentWork
    <3> QED
      BY <3>2, <3>3, <3>4, <3>5, <3>6
  <2>3. CASE runKernel(d)
    <3>1. UNCHANGED <<newWork, work>> /\ left' \in [Devices -> Nat]
      <4>1. \A k \in 0..MaxPerLaunch : [left EXCEPT ![d] = k] \in [Devices -> Nat]
        OBVIOUS
      <4>2. left' = left \/ \E k \in 0..MaxPerLaunch : left' = [left EXCEPT ![d] = k]
        BY <2>3 DEF runKernel
      <4>3. UNCHANGED <<newWork, work>>
        BY <2>3 DEF runKernel
      <4> QED
        BY <4>1, <4>2, <4>3
    <3>2. dpc' \in [Devices -> {"init", "update", "launch", "found", "send",
                                "idle", "done"}]
      BY <2>3 DEF runKernel, AfterCandidates
    <3> QED
      BY <3>1, <3>2
  <2>4. CASE LockCandidate(d)
    BY <2>4 DEF LockCandidate
  <2>5. CASE SendCandidate(d)
    <3>1. UNCHANGED <<newWork, work>> /\ left' \in [Devices -> Nat]
      <4>1. /\ UNCHANGED <<newWork, work>>
            /\ left' = [left EXCEPT ![d] = @ - 1]
            /\ dpc[d] = "send"
        BY <2>5 DEF SendCandidate
      <4>2. left \in [Devices -> Nat] /\ left[d] # 0
        BY <4>1
      <4>3. left[d] - 1 \in Nat
        BY <4>2
      <4> HIDE DEF DeviceTypes
      <4> QED
        BY <4>1, <4>2, <4>3
    <3>2. dpc' \in [Devices -> {"init", "update", "launch", "found", "send",
                                "idle", "done"}]
      BY <2>5 DEF SendCandidate, AfterCandidates
    <3> QED
      BY <3>1, <3>2
  <2>6. CASE IdleWait(d)
    BY <2>6 DEF IdleWait
  <2> QED
    BY <1>3, <2>1, <2>2, <2>3, <2>4, <2>5, <2>6 DEF runDevice
<1> QED
  BY <1>1, <1>2, <1>3, DeviceFrame

LEMMA LeftNext ==
    Typed /\ [Next]_vars
        => \A d \in Devices : dpc'[d] \in {"found", "send"} => left'[d] # 0
<1> SUFFICES ASSUME DeviceTypes, [Next]_vars,
                    \A d \in Devices : dpc[d] \in {"found", "send"} => left[d] # 0
             PROVE  \A d \in Devices : dpc'[d] \in {"found", "send"} => left'[d] # 0
  BY DEF Typed, TypeOK
<1> USE DEF DeviceTypes
<1>1. CASE UNCHANGED <<newWork, deviceVars>>
  BY <1>1 DEF deviceVars
<1>2. CASE \E s \in Sources : SetWork(s)
  BY <1>2 DEF SetWork, deviceVars
<1>3. ASSUME NEW d \in Devices, runDevice(d), NEW e \in Devices,
             dpc'[e] \in {"found", "send"}
      PROVE  left'[e] # 0
  <2>1. CASE initNonces(d)
    BY <1>3, <2>1 DEF initNonces
  <2>2. CASE updateCurrentWork(d)
    BY <1>3, <2>2 DEF updateCurrentWork
  <2>3. CASE runKernel(d)
    <3>1. AfterCandidates(d) \notin {"found", "send"}
      BY DEF AfterCandidates
    <3>2. CASE e # d
      BY <1>3, <2>3, <3>2 DEF runKernel
    <3>3. CASE e = d
      BY <1>3, <2>3, <3>1, <3>3 DEF runKernel
    <3> QED
      BY <3>2, <3>3
  <2>4. CASE LockCandidate(d)
    BY <1>3, <2>4 DEF LockCandidate
  <2>5. CASE SendCandidate(d)
    BY <1>3, <2>5 DEF SendCandidate, AfterCandidates
  <2>6. CASE IdleWait(d)
    BY <1>3, <2>6 DEF IdleWait
  <2> QED
    BY <1>3, <2>1, <2>2, <2>3, <2>4, <2>5, <2>6 DEF runDevice
<1> QED
  BY <1>1, <1>2, <1>3, DeviceFrame

LEMMA SubmitFrame ==
    ASSUME [Next]_vars
    PROVE  \/ UNCHANGED <<workDone, sent, spc, validShares, invalidShares>>
           \/ workSubmitThread
           \/ \E d \in Devices : runDevice(d)
<1> USE DEF submitVars, queueVars
<1>1. CASE UNCHANGED vars
  BY <1>1 DEF vars
<1>2. CASE Environment \/ OnWork
  BY <1>2 DEF Environment, NewTemplate, NodeExit, Interrupt, Age, OnWork
<1>3. CASE \E s \in Sources : onSoloWork(s)
  BY <1>3 DEF onSoloWork, PublishWork, SetWork
<1>4. CASE NewMiner \/ StartRun \/ RunReturn
  BY <1>4 DEF NewMiner, newSoloMiner, InitialWork, NewMinerFails, StartRun, RunReturn
<1>5. CASE expiryThread
  BY <1>5 DEF expiryThread, ExpiryPoll, PollReply, PollFails, ExpiryStop, ExpiryUnchanged
<1>6. CASE nodeWatchThread \/ printStatsThread
  BY <1>6 DEF nodeWatchThread, NodeWatchUnchanged, printStatsThread, PrintStats,
              StatsTick, StatsStop, StatsUnchanged
<1> QED
  BY <1>1, <1>2, <1>3, <1>4, <1>5, <1>6 DEF Next

LEMMA SubmitNext ==
    SubmitTypes /\ EveryBlockAccounted /\ [Next]_vars
        => SubmitTypes' /\ EveryBlockAccounted'
<1> SUFFICES ASSUME SubmitTypes, EveryBlockAccounted, [Next]_vars
             PROVE  SubmitTypes' /\ EveryBlockAccounted'
  OBVIOUS
<1> USE CapAssumption DEF SubmitTypes, EveryBlockAccounted
<1>1. CASE UNCHANGED <<workDone, sent, spc, validShares, invalidShares>>
  BY <1>1
<1>2. CASE workSubmitThread
  <2>1. CASE SubmitSelect
    BY <2>1 DEF SubmitSelect, SubmitUnchanged
  <2>2. CASE SubmitAccepted
    BY <2>2 DEF SubmitAccepted, SubmitUnchanged
  <2>3. CASE SubmitRejected
    BY <2>3 DEF SubmitRejected, SubmitUnchanged
  <2>4. CASE PayeeFine
    BY <2>4 DEF PayeeFine, SubmitUnchanged
  <2>5. CASE PayeeWrong
    BY <2>5 DEF PayeeWrong, SubmitUnchanged
  <2> QED
    BY <1>2, <2>1, <2>2, <2>3, <2>4, <2>5 DEF workSubmitThread
<1>3. ASSUME NEW d \in Devices, runDevice(d)
      PROVE  SubmitTypes' /\ EveryBlockAccounted'
  <2>1. UNCHANGED submitVars
    BY <1>3 DEF runDevice, initNonces, updateCurrentWork, runKernel, LockCandidate,
                SendCandidate, IdleWait, DeviceUnchanged
  <2>2. \/ UNCHANGED queueVars
        \/ workDone < WorkDoneCap /\ workDone' = workDone + 1 /\ sent' = sent + 1
    BY <1>3 DEF runDevice, initNonces, updateCurrentWork, runKernel, LockCandidate,
                SendCandidate, IdleWait
  <2> QED
    BY <2>1, <2>2 DEF submitVars, queueVars
<1> QED
  BY <1>1, <1>2, <1>3, SubmitFrame

LEMMA PointersNext ==
    Typed /\ [Next]_vars => \A s \in Sources : nextDev'[s] # 0 => job'[s] # 0
<1> SUFFICES ASSUME NodeTypes, WorkTypes, [Next]_vars,
                    \A s \in Sources : nextDev[s] # 0 => job[s] # 0
             PROVE  \A s \in Sources : nextDev'[s] # 0 => job'[s] # 0
  BY DEF Typed, TypeOK
<1> USE DEF WorkTypes
<1>1. CASE UNCHANGED <<currentWork, job, nextDev, raced>>
  BY <1>1
<1>2. CASE OnWork
  <2>1. wire # <<>>
    BY <1>2 DEF OnWork
  <2>2. Head(wire) \in Templates
    BY <2>1, BoundsAssumption DEF NodeTypes
  <2>3. Head(wire) # 0
    BY <2>2, BoundsAssumption
  <2> QED
    BY <1>2, <2>3 DEF OnWork
<1>3. CASE InitialWork
  BY <1>3, RepliesAreTemplates DEF InitialWork
<1>4. CASE PollReply
  BY <1>4, RepliesAreTemplates DEF PollReply
<1>5. ASSUME NEW s \in Sources, PublishWork(s)
      PROVE  \A t \in Sources : nextDev'[t] # 0 => job'[t] # 0
  BY <1>5 DEF PublishWork
<1>6. ASSUME NEW s \in Sources, SetWork(s)
      PROVE  \A t \in Sources : nextDev'[t] # 0 => job'[t] # 0
  BY <1>6 DEF SetWork
<1> QED
  BY <1>1, <1>2, <1>3, <1>4, <1>5, <1>6, WorkFrame DEF onSoloWork

LEMMA ThreadNext == Typed /\ [Next]_vars => ThreadTypes'
<1> SUFFICES ASSUME ThreadTypes, [Next]_vars,
                    failures = MaxFailures => cancelled
             PROVE  ThreadTypes'
  BY DEF Typed, TypeOK
<1> USE MaxFailuresAssumption, NumDevicesAssumption DEF ThreadTypes
<1>1. CASE UNCHANGED vars
  BY <1>1 DEF vars, expiryVars
<1>2. CASE Environment \/ OnWork
  BY <1>2 DEF Environment, NewTemplate, NodeExit, Interrupt, Age, OnWork, expiryVars
<1>3. CASE \E s \in Sources : onSoloWork(s)
  BY <1>3 DEF onSoloWork, PublishWork, SetWork, expiryVars
<1>4. CASE NewMiner \/ StartRun \/ RunReturn
  BY <1>4 DEF NewMiner, newSoloMiner, InitialWork, NewMinerFails, StartRun, RunReturn,
              expiryVars
<1>5. CASE \E d \in Devices : runDevice(d)
  BY <1>5 DEF runDevice, initNonces, updateCurrentWork, runKernel, LockCandidate,
              SendCandidate, IdleWait, DeviceUnchanged, expiryVars
<1>6. CASE workSubmitThread
  BY <1>6 DEF workSubmitThread, SubmitSelect, SubmitAccepted, SubmitRejected,
              PayeeFine, PayeeWrong, SubmitUnchanged, expiryVars
<1>7. CASE expiryThread
  <2>1. CASE ExpiryPoll \/ PollReply \/ ExpiryStop
    BY <2>1 DEF ExpiryPoll, PollReply, ExpiryStop, ExpiryUnchanged
  <2>2. CASE PollFails
    <3>1. UNCHANGED <<phase, stats>> /\ epc' \in {"tick", "done"}
      BY <2>2 DEF PollFails, ExpiryUnchanged
    <3>2. failures' = failures \/ (~cancelled /\ failures' = failures + 1)
      BY <2>2 DEF PollFails
    <3> QED
      BY <3>1, <3>2
  <2> QED
    BY <1>7, <2>1, <2>2 DEF expiryThread
<1>8. CASE nodeWatchThread
  BY <1>8 DEF nodeWatchThread, NodeWatchUnchanged, expiryVars
<1>9. CASE printStatsThread
  BY <1>9 DEF printStatsThread, PrintStats, StatsTick, StatsStop, StatsUnchanged,
              expiryVars
<1> QED
  BY <1>1, <1>2, <1>3, <1>4, <1>5, <1>6, <1>7, <1>8, <1>9 DEF Next

\* Nothing un-cancels a run, and only a failed poll counts a failure.
LEMMA CancelledStays == [Next]_vars /\ cancelled => cancelled'
<1> SUFFICES ASSUME [Next]_vars, cancelled PROVE cancelled'
  OBVIOUS
<1> USE DEF ctxVars, EndRun
<1>1. CASE UNCHANGED vars
  BY <1>1 DEF vars
<1>2. CASE Environment \/ OnWork
  BY <1>2 DEF Environment, NewTemplate, NodeExit, Interrupt, Age, OnWork
<1>3. CASE \E s \in Sources : onSoloWork(s)
  BY <1>3 DEF onSoloWork, PublishWork, SetWork
<1>4. CASE NewMiner \/ StartRun \/ RunReturn
  BY <1>4 DEF NewMiner, newSoloMiner, InitialWork, NewMinerFails, StartRun, RunReturn
<1>5. CASE \E d \in Devices : runDevice(d)
  BY <1>5 DEF runDevice, initNonces, updateCurrentWork, runKernel, LockCandidate,
              SendCandidate, IdleWait, DeviceUnchanged
<1>6. CASE workSubmitThread
  BY <1>6 DEF workSubmitThread, SubmitSelect, SubmitAccepted, SubmitRejected,
              PayeeFine, PayeeWrong
<1>7. CASE expiryThread
  BY <1>7 DEF expiryThread, ExpiryPoll, PollReply, PollFails, ExpiryStop
<1>8. CASE nodeWatchThread \/ printStatsThread
  BY <1>8 DEF nodeWatchThread, printStatsThread, PrintStats, StatsTick, StatsStop,
              StatsUnchanged
<1> QED
  BY <1>1, <1>2, <1>3, <1>4, <1>5, <1>6, <1>7, <1>8 DEF Next

LEMMA FailureFrame ==
    ASSUME [Next]_vars
    PROVE  failures' = failures \/ PollReply \/ PollFails
<1> USE DEF expiryVars
<1>1. CASE UNCHANGED vars
  BY <1>1 DEF vars
<1>2. CASE Environment \/ OnWork
  BY <1>2 DEF Environment, NewTemplate, NodeExit, Interrupt, Age, OnWork
<1>3. CASE \E s \in Sources : onSoloWork(s)
  BY <1>3 DEF onSoloWork, PublishWork, SetWork
<1>4. CASE NewMiner \/ StartRun \/ RunReturn
  BY <1>4 DEF NewMiner, newSoloMiner, InitialWork, NewMinerFails, StartRun, RunReturn
<1>5. CASE \E d \in Devices : runDevice(d)
  BY <1>5 DEF runDevice, initNonces, updateCurrentWork, runKernel, LockCandidate,
              SendCandidate, IdleWait, DeviceUnchanged
<1>6. CASE workSubmitThread
  BY <1>6 DEF workSubmitThread, SubmitSelect, SubmitAccepted, SubmitRejected,
              PayeeFine, PayeeWrong, SubmitUnchanged
<1>7. CASE expiryThread
  BY <1>7 DEF expiryThread, ExpiryPoll, ExpiryStop
<1>8. CASE nodeWatchThread \/ printStatsThread
  BY <1>8 DEF nodeWatchThread, NodeWatchUnchanged, printStatsThread, PrintStats,
              StatsTick, StatsStop, StatsUnchanged
<1> QED
  BY <1>1, <1>2, <1>3, <1>4, <1>5, <1>6, <1>7, <1>8 DEF Next

LEMMA FailuresNext ==
    Typed /\ [Next]_vars => (failures' = MaxFailures => cancelled')
<1> SUFFICES ASSUME ThreadTypes, failures = MaxFailures => cancelled,
                    [Next]_vars, failures' = MaxFailures
             PROVE  cancelled'
  BY DEF Typed, TypeOK
<1> USE MaxFailuresAssumption
<1>1. CASE failures' = failures
  BY <1>1, CancelledStays
<1>2. CASE PollReply
  BY <1>2 DEF PollReply
<1>3. CASE PollFails
  <2>1. CASE cancelled
    BY <2>1, CancelledStays
  <2>2. CASE ~cancelled
    <3>1. IF failures' >= MaxFailures THEN EndRun ELSE UNCHANGED <<fatal, cancelled>>
      BY <1>3, <2>2 DEF PollFails
    <3>2. failures' >= MaxFailures
      OBVIOUS
    <3>3. EndRun
      BY <3>1, <3>2
    <3> QED
      BY <3>3 DEF EndRun
  <2> QED
    BY <2>1, <2>2
<1> QED
  BY <1>1, <1>2, <1>3, FailureFrame

LEMMA TypedNext == Typed /\ EveryBlockAccounted /\ [Next]_vars => Typed'
BY FlagsNext, NodeNext, WorkNext, DeviceNext, SubmitNext, ThreadNext, LeftNext,
   PointersNext, FailuresNext DEF Typed, TypeOK

LEMMA AlwaysTyped == Spec => [](Typed /\ EveryBlockAccounted)
<1>1. Init => Typed /\ EveryBlockAccounted
  BY TypedInit DEF Init, EveryBlockAccounted
<1>2. Typed /\ EveryBlockAccounted /\ [Next]_vars => (Typed /\ EveryBlockAccounted)'
  BY TypedNext, SubmitNext DEF Typed, TypeOK
<1> QED
  BY <1>1, <1>2, PTL DEF Spec

\* Every variable keeps its type and every queue its bound, for any capacities:
\* no feed overfills a newWork queue, and expiryThread never counts a failure
\* beyond the one that ends the run.
THEOREM TypeCorrect == Spec => []TypeOK
BY AlwaysTyped, PTL DEF Typed

\* workSubmitThread neither loses nor counts twice a block a device handed over,
\* whatever cancels the run in the middle of an RPC.
THEOREM BlocksAccounted == Spec => []EveryBlockAccounted
BY AlwaysTyped, PTL

LEMMA StoppedNext == Stopped /\ [Next]_vars => Stopped'
<1> SUFFICES ASSUME Stopped, [Next]_vars PROVE Stopped'
  OBVIOUS
<1> USE DEF Stopped, ctxVars, submitVars, EndRun
<1>1. CASE UNCHANGED vars
  BY <1>1 DEF vars
<1>2. CASE Environment \/ OnWork
  BY <1>2 DEF Environment, NewTemplate, NodeExit, Interrupt, Age, OnWork
<1>3. ASSUME NEW s \in Sources, onSoloWork(s) PROVE Stopped'
  BY <1>3 DEF onSoloWork, PublishWork, SetWork
<1>4. CASE NewMiner \/ StartRun
  BY <1>4 DEF NewMiner, newSoloMiner, InitialWork, NewMinerFails, StartRun
<1>5. CASE RunReturn
  BY <1>5 DEF RunReturn, AllDone, Running
<1>6. ASSUME NEW d \in Devices, runDevice(d) PROVE Stopped'
  BY <1>6 DEF runDevice, initNonces, updateCurrentWork, runKernel, LockCandidate,
              SendCandidate, IdleWait, DeviceUnchanged
<1>7. CASE workSubmitThread
  BY <1>7 DEF workSubmitThread, SubmitSelect, SubmitAccepted, SubmitRejected,
              PayeeFine, PayeeWrong, SubmitUnchanged, Running
<1>8. CASE expiryThread
  BY <1>8 DEF expiryThread, ExpiryPoll, PollReply, PollFails, ExpiryStop,
              ExpiryUnchanged, Running
<1>9. CASE nodeWatchThread \/ printStatsThread
  BY <1>9 DEF nodeWatchThread, NodeWatchUnchanged, printStatsThread, PrintStats,
              StatsTick, StatsStop, StatsUnchanged, Running
<1> QED
  BY <1>1, <1>2, <1>3, <1>4, <1>5, <1>6, <1>7, <1>8, <1>9 DEF Next

LEMMA AlwaysStopped == Spec => []Stopped
<1>1. Init => Stopped
  BY DEF Init, Stopped
<1> QED
  BY <1>1, StoppedNext, PTL DEF Spec

\* Run returns nil only after an interrupt: whatever a goroutine ends the run
\* for is in fatal by the time the last of them is done.
THEOREM CleanReturn == Spec => []CleanReturnMeansInterrupted
<1>1. Stopped => CleanReturnMeansInterrupted
  BY DEF Stopped, CleanReturnMeansInterrupted
<1> QED
  BY <1>1, AlwaysStopped, PTL

LEMMA DeadlockNext ==
    ASSUME Typed, Stopped, [Next]_vars, FeedDeadlock, ~cancelled'
    PROVE  FeedDeadlock'
<1>1. ~cancelled /\ ~interrupted /\ ~ReaderFree
  <2>1. ~cancelled
    BY CancelledStays
  <2>2. nextDev["push"] # 0
    BY NumDevicesAssumption DEF FeedDeadlock, Blocked
  <2> QED
    BY <2>1, <2>2 DEF Stopped, Typed, ReaderFree
<1> DEFINE Circle == {"push", "expiry"}
           Held == /\ \A s \in Circle : nextDev'[s] = nextDev[s]
                   /\ \A s \in Circle : newWork'[nextDev[s]] = newWork[nextDev[s]]
                   /\ \A s \in Circle : dpc'[nextDev[s]] = dpc[nextDev[s]]
                   /\ workDone' = workDone /\ spc' = spc
<1>2. SUFFICES Held
  <2> SUFFICES ASSUME Held PROVE FeedDeadlock'
    BY <1>2
  <2>1. ASSUME NEW s \in Circle PROVE (Blocked(s) /\ dpc[nextDev[s]] = "send")'
    BY <2>1 DEF FeedDeadlock, Blocked, Room
  <2> QED
    BY <2>1 DEF FeedDeadlock
<1> USE DEF nodeVars, ctxVars, workVars, deviceVars, submitVars, queueVars
<1>3. CASE UNCHANGED vars
  BY <1>3 DEF vars
<1>4. CASE Environment \/ OnWork
  BY <1>4 DEF Environment, NewTemplate, NodeExit, Interrupt, Age, OnWork
<1>5. ASSUME NEW s \in Sources, onSoloWork(s) PROVE Held
  <2>1. nextDev \in [Sources -> 0..NumDevices] /\ DOMAIN newWork = Devices
    BY DEF Typed, TypeOK, WorkTypes, DeviceTypes
  <2>2. CASE PublishWork(s)
    <3>1. s \notin Circle
      BY <2>2, NumDevicesAssumption DEF PublishWork, FeedDeadlock, Blocked
    <3> QED
      BY <2>1, <2>2, <3>1 DEF PublishWork
  <2>3. CASE SetWork(s)
    <3>1. ~FeedCtxDone(s)
      BY <1>1 DEF FeedCtxDone
    <3>2. Room(nextDev[s]) /\ newWork' = [newWork EXCEPT ![nextDev[s]] = Append(@, job[s])]
      BY <2>3, <3>1 DEF SetWork
    <3>3. \A t \in Circle : ~Room(nextDev[t]) /\ nextDev[t] \in Devices
      BY DEF FeedDeadlock, Blocked
    <3>4. s \notin Circle /\ \A t \in Circle : nextDev[t] # nextDev[s]
      BY <3>2, <3>3
    <3>5. \A t \in Circle : newWork'[nextDev[t]] = newWork[nextDev[t]]
      BY <2>1, <3>2, <3>3, <3>4
    <3>6. \A t \in Circle : nextDev'[t] = nextDev[t]
      BY <2>1, <2>3, <3>4 DEF SetWork
    <3> QED
      BY <2>3, <3>5, <3>6 DEF SetWork
  <2> QED
    BY <1>5, <2>2, <2>3 DEF onSoloWork
<1>6. CASE NewMiner \/ StartRun \/ RunReturn
  BY <1>6 DEF NewMiner, newSoloMiner, InitialWork, NewMinerFails, StartRun, RunReturn
<1>7. ASSUME NEW d \in Devices, runDevice(d) PROVE Held
  <2>1. dpc \in [Devices -> {"init", "update", "launch", "found", "send", "idle", "done"}]
        /\ DOMAIN newWork = Devices /\ workDone \in Nat
    BY CapAssumption DEF Typed, TypeOK, DeviceTypes, SubmitTypes
  <2>2. ~SendCandidate(d)
    BY <2>1, CapAssumption DEF SendCandidate, FeedDeadlock
  <2>3. /\ initNonces(d) \/ updateCurrentWork(d) \/ runKernel(d) \/ LockCandidate(d) \/ IdleWait(d)
        /\ dpc[d] # "send"
    BY <1>7, <2>2 DEF runDevice, initNonces, updateCurrentWork, runKernel, LockCandidate, IdleWait
  <2>4. \A t \in Circle : nextDev[t] \in Devices /\ nextDev[t] # d
    BY <2>3 DEF FeedDeadlock, Blocked
  <2>5. \A e \in Devices \ {d} : newWork'[e] = newWork[e] /\ dpc'[e] = dpc[e]
    BY <2>1, <2>3 DEF initNonces, updateCurrentWork, runKernel, LockCandidate, IdleWait
  <2>6. UNCHANGED <<nextDev, workDone, spc>>
    BY <2>3 DEF initNonces, updateCurrentWork, runKernel, LockCandidate, IdleWait,
                DeviceUnchanged
  <2> QED
    BY <2>4, <2>5, <2>6
<1>8. ~workSubmitThread
  BY <1>1 DEF FeedDeadlock, workSubmitThread, SubmitSelect, SubmitAccepted, SubmitRejected,
              PayeeFine, PayeeWrong, CanReply
<1>9. CASE expiryThread
  BY <1>9 DEF expiryThread, ExpiryPoll, PollReply, PollFails, ExpiryStop, ExpiryUnchanged
<1>10. CASE nodeWatchThread \/ printStatsThread
  BY <1>10 DEF nodeWatchThread, NodeWatchUnchanged, printStatsThread, PrintStats,
               StatsTick, StatsStop, StatsUnchanged
<1> QED
  BY <1>3, <1>4, <1>5, <1>6, <1>7, <1>8, <1>9, <1>10 DEF Next

\* Once the connection's reader, expiryThread, workSubmitThread and the devices
\* that send wait for one another they do so until the run is cancelled, for any
\* number of devices and any capacities: a larger queue only delays the deadlock.
THEOREM DeadlockIsFinal == Spec => DeadlockLasts
<1>1. Typed /\ Stopped /\ [Next]_vars =>
        [FeedDeadlock /\ ~cancelled' => FeedDeadlock']_vars
  BY DeadlockNext
<1> QED
  BY <1>1, AlwaysTyped, AlwaysStopped, PTL DEF Spec, DeadlockLasts

LEMMA WaitingNext == Typed /\ Waiting /\ [Next]_vars => Waiting'
<1> SUFFICES ASSUME WorkTypes, Waiting, [Next]_vars PROVE Waiting'
  BY DEF Typed, TypeOK
<1> USE DEF Waiting, WorkTypes, workVars, expiryVars
<1>1. CASE UNCHANGED vars
  BY <1>1 DEF vars
<1>2. CASE Environment
  BY <1>2 DEF Environment, NewTemplate, NodeExit, Interrupt, Age
<1>3. CASE OnWork
  BY <1>3 DEF OnWork
<1>4. ASSUME NEW s \in Sources, PublishWork(s) PROVE Waiting'
  BY <1>4 DEF PublishWork
<1>5. ASSUME NEW s \in Sources, SetWork(s) PROVE Waiting'
  BY <1>5 DEF SetWork
<1>6. CASE newSoloMiner \/ NewMinerFails \/ StartRun \/ RunReturn
  BY <1>6 DEF newSoloMiner, NewMinerFails, StartRun, RunReturn
<1>7. CASE InitialWork
  BY <1>7 DEF InitialWork
<1>8. ASSUME NEW d \in Devices, runDevice(d) PROVE Waiting'
  BY <1>8 DEF runDevice, initNonces, updateCurrentWork, runKernel, LockCandidate,
              SendCandidate, IdleWait, DeviceUnchanged
<1>9. CASE workSubmitThread
  BY <1>9 DEF workSubmitThread, SubmitSelect, SubmitAccepted, SubmitRejected,
              PayeeFine, PayeeWrong, SubmitUnchanged
<1>10. CASE ExpiryPoll \/ PollFails \/ ExpiryStop
  BY <1>10 DEF ExpiryPoll, PollFails, ExpiryStop, ExpiryUnchanged
<1>11. CASE PollReply /\ Running
  BY <1>11 DEF PollReply, ExpiryUnchanged, Running
<1>12. CASE nodeWatchThread \/ printStatsThread
  BY <1>12 DEF nodeWatchThread, NodeWatchUnchanged, printStatsThread, PrintStats,
               StatsTick, StatsStop, StatsUnchanged
<1> QED
  BY <1>1, <1>2, <1>3, <1>4, <1>5, <1>6, <1>7, <1>8, <1>9, <1>10, <1>11, <1>12
  DEF Next, onSoloWork, NewMiner, expiryThread

LEMMA LastOfTail ==
    ASSUME NEW S, NEW q \in Seq(S), q # <<>>, Len(q) # 1
    PROVE  Tail(q) # <<>> /\ Tail(q)[Len(Tail(q))] = q[Len(q)]
<1> DEFINE n == Len(q)
           m == Len(Tail(q))
<1>1. n \in Nat /\ n # 0
  BY EmptySeq
<1>2. m = n - 1 /\ \A i \in 1..m : Tail(q)[i] = q[i + 1]
  BY HeadTailProperties
<1>3. Tail(q) # <<>>
  <2>1. n - 1 # 0
    BY <1>1
  <2>2. Tail(q) = <<>> => m = 0
    BY EmptySeq
  <2> QED
    BY <1>2, <2>1, <2>2
<1> HIDE DEF n, m
<1>4. m \in 1..m /\ m + 1 = n
  BY <1>1, <1>2 DEF n
<1>5. Tail(q)[m] = q[m + 1]
  BY <1>2, <1>4
<1> QED
  BY <1>3, <1>4, <1>5 DEF n, m

LEMMA LastOfAppend ==
    ASSUME NEW S, NEW q \in Seq(S), NEW x \in S
    PROVE  Append(q, x) # <<>> /\ Append(q, x)[Len(Append(q, x))] = x
<1> DEFINE n == Len(Append(q, x))
<1>1. n = Len(q) + 1 /\ Append(q, x)[Len(q) + 1] = x /\ Append(q, x) # <<>>
  BY AppendProperties
<1> HIDE DEF n
<1>2. Append(q, x)[n] = x
  BY <1>1
<1> QED
  BY <1>1, <1>2 DEF n

\* A device's step never changes the newest work it has been handed: taking
\* work from its queue only moves it.
LEMMA HandedKept ==
    ASSUME DeviceTypes, NEW d \in Devices, runDevice(d), NEW e \in Devices
    PROVE  Handed(e)' = Handed(e)
<1> USE DEF DeviceTypes, Handed
<1>1. CASE UNCHANGED <<newWork, work>>
  BY <1>1
<1>2. CASE /\ newWork[d] # <<>>
           /\ newWork' = [newWork EXCEPT ![d] = Tail(newWork[d])]
           /\ work' = [work EXCEPT ![d] = Head(newWork[d])]
  <2>1. /\ newWork' = [newWork EXCEPT ![d] = Tail(newWork[d])]
        /\ work' = [work EXCEPT ![d] = Head(newWork[d])]
    BY <1>2
  <2>2. CASE e # d
    BY <2>1, <2>2
  <2>3. CASE e = d
    <3> DEFINE q == newWork[d]
    <3>1. newWork'[e] = Tail(q) /\ work'[e] = Head(q) /\ q \in Seq(Templates)
      BY <2>1, <2>3
    <3>2. CASE Len(q) = 1
      <4>1. Tail(q) = <<>> /\ Head(q) = q[Len(q)]
        BY <1>2, <3>1, <3>2
      <4> QED
        BY <1>2, <2>3, <3>1, <4>1
    <3>3. CASE Len(q) # 1
      <4>1. Tail(q) # <<>> /\ Tail(q)[Len(Tail(q))] = q[Len(q)]
        BY <1>2, <3>1, <3>3, LastOfTail
      <4> QED
        BY <1>2, <2>3, <3>1, <4>1
    <3> QED
      BY <3>2, <3>3
  <2> QED
    BY <2>2, <2>3
<1>3. updateCurrentWork(d) =>
        \/ UNCHANGED <<newWork, work>>
        \/ /\ newWork[d] # <<>>
           /\ newWork' = [newWork EXCEPT ![d] = Tail(newWork[d])]
           /\ work' = [work EXCEPT ![d] = Head(newWork[d])]
  BY DEF updateCurrentWork
<1> QED
  BY <1>1, <1>2, <1>3 DEF runDevice, initNonces, runKernel, LockCandidate,
                          SendCandidate, IdleWait

\* What SetWork does to the newest work of each device, in a run not cancelled.
LEMMA HandedBySetWork ==
    ASSUME Typed, Stopped, NEW s \in Sources, SetWork(s), ~cancelled,
           NEW e \in Devices
    PROVE  Handed(e)' = IF e = nextDev[s] THEN job[s] ELSE Handed(e)
<1> DEFINE d == nextDev[s]
<1> USE DEF Typed, TypeOK, DeviceTypes, WorkTypes
<1>1. d \in Devices /\ job[s] \in Templates
  <2>1. nextDev[s] # 0 /\ job[s] # 0
    BY DEF SetWork
  <2> QED
    BY <2>1, FeedTarget
<1>2. newWork' = [newWork EXCEPT ![d] = Append(@, job[s])] /\ work' = work
  <2>1. ~FeedCtxDone(s)
    BY DEF FeedCtxDone, Stopped
  <2> QED
    BY <2>1 DEF SetWork, deviceVars
<1>3. CASE e # d
  BY <1>2, <1>3 DEF Handed
<1>4. CASE e = d
  <2> DEFINE q == newWork[d]
  <2>1. q \in Seq(Templates) /\ newWork'[e] = Append(q, job[s])
    BY <1>1, <1>2, <1>4
  <2>2. Append(q, job[s]) # <<>> /\ Append(q, job[s])[Len(Append(q, job[s]))] = job[s]
    <3> DEFINE w == job[s]
    <3>1. q \in Seq(Templates) /\ w \in Templates
      BY <1>1, <2>1
    <3> HIDE DEF q, w, Templates, Typed, TypeOK, DeviceTypes, WorkTypes
    <3>2. Append(q, w) # <<>> /\ Append(q, w)[Len(Append(q, w))] = w
      BY <3>1, LastOfAppend
    <3> QED
      BY <3>2 DEF w
  <2> QED
    BY <1>4, <2>1, <2>2 DEF Handed
<1> QED
  BY <1>3, <1>4

LEMMA FedNext ==
    Typed /\ Stopped /\ Waiting /\ Fed /\ [Next]_vars => Fed'
<1> SUFFICES ASSUME Typed, Stopped, Waiting, Fed, [Next]_vars PROVE Fed'
  OBVIOUS
<1>typed. /\ WorkTypes /\ DeviceTypes
          /\ \A s \in Sources : nextDev[s] # 0 => job[s] # 0
  BY DEF Typed, TypeOK
<1>ctx. ~cancelled' => ~cancelled
  BY CancelledStays
\* A step that feeds nothing leaves what every device was handed.
<1>1. ASSUME nextDev' = nextDev, ~(\E s \in Sources : SetWork(s)), NEW e \in Devices
      PROVE  Handed(e)' = Handed(e)
  <2>1. CASE UNCHANGED <<newWork, deviceVars>>
    BY <2>1 DEF Handed, deviceVars
  <2>2. ASSUME NEW d \in Devices, runDevice(d) PROVE Handed(e)' = Handed(e)
    BY <2>2, <1>typed, HandedKept
  <2> QED
    BY <1>1, <2>1, <2>2, DeviceFrame
\* A source taking up a work while it feeds nobody.
<1>2. ASSUME UNCHANGED <<currentWork, nextDev, raced>>,
             \A s \in Sources : nextDev[s] # 0 => job'[s] = job[s],
             ~(\E s \in Sources : SetWork(s))
      PROVE  Fed'
  <2>1. \A e \in Devices : Handed(e)' = Handed(e)
    BY <1>1, <1>2
  <2>2. ~raced' =>
          /\ \A s, t \in Sources : nextDev'[s] # 0 /\ nextDev'[t] # 0 => s = t
          /\ \A s \in Sources : nextDev'[s] # 0 => job'[s] = currentWork'
    BY <1>2 DEF Fed
  <2>3. ASSUME ~raced', ~cancelled', NEW d \in Devices
        PROVE  Handed(d)' = currentWork' \/ \E s \in Sources : nextDev'[s] \in 1..d
    BY <1>2, <1>ctx, <2>1, <2>3 DEF Fed
  <2> QED
    BY <2>2, <2>3 DEF Fed
<1>3. CASE \E s \in Sources : SetWork(s)
  <2>1. PICK s \in Sources : SetWork(s)
    BY <1>3
  <2> DEFINE d == nextDev[s]
  <2>2. /\ d # 0
        /\ nextDev' = [nextDev EXCEPT ![s] = IF d = NumDevices THEN 0 ELSE d + 1]
        /\ job' = [job EXCEPT ![s] = IF d = NumDevices THEN 0 ELSE @]
        /\ currentWork' = currentWork
    BY <2>1 DEF SetWork
  <2>3. raced' = raced
    BY <2>1 DEF SetWork
  <2>4. ASSUME ~raced'
        PROVE  /\ \A t \in Sources \ {s} : nextDev'[t] = 0
               /\ nextDev'[s] # 0 => job'[s] = currentWork'
    BY <1>typed, <2>2, <2>3, <2>4 DEF Fed, WorkTypes
  <2>5. ASSUME ~raced', ~cancelled', NEW e \in Devices
        PROVE  Handed(e)' = currentWork' \/ \E t \in Sources : nextDev'[t] \in 1..e
    <3>1. Handed(e)' = IF e = d THEN job[s] ELSE Handed(e)
      BY <1>ctx, <2>1, <2>5, HandedBySetWork
    <3>2. CASE e = d
      <4>1. job[s] = currentWork
        BY <2>2, <2>3, <2>5 DEF Fed
      <4> QED
        BY <2>2, <3>1, <3>2, <4>1
    <3>3. CASE e # d /\ Handed(e) = currentWork
      BY <2>2, <3>1, <3>3
    <3>4. CASE e # d /\ Handed(e) # currentWork
      <4>1. PICK t \in Sources : nextDev[t] \in 1..e
        BY <1>ctx, <2>3, <2>5, <3>4 DEF Fed
      <4>2. t = s
        BY <2>2, <2>3, <2>5, <4>1 DEF Fed
      <4>3. d \in 1..e /\ d # e /\ d # NumDevices
        BY <3>4, <4>1, <4>2, NumDevicesAssumption
      <4>4. nextDev'[s] \in 1..e
        BY <1>typed, <2>2, <4>3, NumDevicesAssumption DEF WorkTypes
      <4> QED
        BY <4>4
    <3> QED
      BY <3>2, <3>3, <3>4
  <2> QED
    BY <2>4, <2>5 DEF Fed
<1>4. CASE /\ \E s \in Sources : PublishWork(s)
           /\ ~(\E s \in Sources : SetWork(s))
  <2>1. PICK s \in Sources : PublishWork(s)
    BY <1>4
  <2>2. /\ nextDev' = [nextDev EXCEPT ![s] = 1]
        /\ job' = job
        /\ currentWork' = job[s]
    BY <2>1 DEF PublishWork
  <2>3. raced' = (raced \/ \E t \in Sources \ {s} : nextDev[t] # 0)
    BY <2>1 DEF PublishWork
  <2>4. ASSUME ~raced' PROVE \A t \in Sources \ {s} : nextDev'[t] = 0
    BY <1>typed, <2>2, <2>3, <2>4 DEF WorkTypes
  <2>5. nextDev'[s] = 1
    BY <1>typed, <2>2 DEF WorkTypes
  <2>6. \A d \in Devices : nextDev'[s] \in 1..d
    BY <2>5
  <2>7. nextDev'[s] # 0 /\ job'[s] = currentWork'
    BY <2>2, <2>5
  <2> QED
    BY <2>4, <2>6, <2>7 DEF Fed
<1>5. CASE ~(\E s \in Sources : SetWork(s)) /\ UNCHANGED <<currentWork, job, nextDev, raced>>
  BY <1>2, <1>5
<1>6. CASE ~(\E s \in Sources : SetWork(s)) /\ OnWork
  <2>1. nextDev["push"] = 0
    BY <1>6, <1>typed DEF OnWork, ReaderFree
  <2>2. UNCHANGED <<currentWork, nextDev, raced>>
    BY <1>6 DEF OnWork
  <2>3. \A s \in Sources : nextDev[s] # 0 => job'[s] = job[s]
    BY <1>6, <1>typed, <2>1 DEF OnWork, WorkTypes
  <2> QED
    BY <1>2, <1>6, <2>2, <2>3
<1>7. CASE ~(\E s \in Sources : SetWork(s)) /\ InitialWork
  <2>1. nextDev["init"] = 0
    BY <1>7, <1>typed DEF InitialWork, Waiting
  <2>2. UNCHANGED <<currentWork, nextDev, raced>>
    BY <1>7 DEF InitialWork
  <2>3. \A s \in Sources : nextDev[s] # 0 => job'[s] = job[s]
    BY <1>7, <1>typed, <2>1 DEF InitialWork, WorkTypes
  <2> QED
    BY <1>2, <1>7, <2>2, <2>3
<1>8. CASE ~(\E s \in Sources : SetWork(s)) /\ PollReply
  <2>1. nextDev["expiry"] = 0
    BY <1>8, <1>typed DEF PollReply, Waiting
  <2>2. UNCHANGED <<currentWork, nextDev, raced>>
    BY <1>8 DEF PollReply
  <2>3. \A s \in Sources : nextDev[s] # 0 => job'[s] = job[s]
    BY <1>8, <1>typed, <2>1 DEF PollReply, WorkTypes
  <2> QED
    BY <1>2, <1>8, <2>2, <2>3
<1> QED
  BY <1>3, <1>4, <1>5, <1>6, <1>7, <1>8, WorkFrame DEF onSoloWork

LEMMA AlwaysFed == Spec => []Fed
<1>1. Init => Waiting /\ Fed
  <2> SUFFICES ASSUME Init PROVE Waiting /\ Fed
    OBVIOUS
  <2>1. \A s \in Sources : job[s] = 0 /\ nextDev[s] = 0
    BY DEF Init
  <2>2. \A d \in Devices : Handed(d) = 0
    BY DEF Init, Handed
  <2>3. currentWork = 0
    BY DEF Init
  <2>4. Waiting
    BY <2>1 DEF Waiting
  <2>5. Fed
    BY <2>1, <2>2, <2>3 DEF Fed
  <2> QED
    BY <2>4, <2>5
<1>2. Typed /\ Stopped /\ Waiting /\ Fed /\ [Next]_vars => (Waiting /\ Fed)'
  BY WaitingNext, FedNext
<1>3. Spec => [](Waiting /\ Fed)
  BY <1>1, <1>2, AlwaysTyped, AlwaysStopped, PTL DEF Spec
<1> QED
  BY <1>3, PTL

\* While feeds do not overlap, whichever notification, poll or device step
\* comes between two SetWork calls of onSoloWork, a finished feed leaves every
\* device with currentWork as its newest work.
THEOREM FeedsAgree == Spec => []DevicesAgree
<1>1. Fed => DevicesAgree
  BY DEF Fed, DevicesAgree
<1> QED
  BY <1>1, AlwaysFed, PTL

LEMMA ContractStutter ==
    ASSUME UNCHANGED <<phase, interrupted, fatal, dpc, sent, validShares, invalidShares>>
    PROVE  UNCHANGED Contract!cvars
BY DEF Contract!cvars, Stage, Verdict, Reasons, Hashing, Over, Running

\* A step of a device is seen as its stop, a find or nothing.
LEMMA DeviceContract ==
    ASSUME DeviceTypes, NEW d \in Devices, runDevice(d)
    PROVE  [Contract!CNext]_(Contract!cvars)
<1>1. /\ UNCHANGED <<phase, interrupted, fatal, validShares, invalidShares>>
      /\ Running
  BY DEF runDevice, initNonces, updateCurrentWork, runKernel, LockCandidate,
         SendCandidate, IdleWait, DeviceUnchanged, ctxVars, submitVars
<1>2. /\ UNCHANGED <<Stage, Verdict, Reasons>>
      /\ Stage = "mining"
  BY <1>1 DEF Stage, Verdict, Reasons, Over, Running
<1>3. /\ dpc \in [Devices -> {"init", "update", "launch", "found", "send", "idle", "done"}]
      /\ dpc[d] # "done"
  BY DEF DeviceTypes, runDevice, initNonces, updateCurrentWork, runKernel,
         LockCandidate, SendCandidate, IdleWait
<1>4. CASE dpc' = [dpc EXCEPT ![d] = "done"] /\ sent' = sent
  <2>1. d \in Hashing /\ Hashing' = Hashing \ {d}
    BY <1>3, <1>4 DEF Hashing
  <2>2. Contract!DeviceStops(d)
    BY <1>1, <1>2, <1>4, <2>1 DEF Contract!DeviceStops
  <2> QED
    BY <2>2 DEF Contract!CNext
<1>5. CASE \E x : x # "done" /\ dpc' = [dpc EXCEPT ![d] = x]
  <2>1. d \in Hashing /\ Hashing' = Hashing
    BY <1>3, <1>5 DEF Hashing
  <2>2. CASE sent' = sent
    BY <1>1, <1>2, <2>1, <2>2 DEF Contract!cvars
  <2>3. CASE sent' = sent + 1
    <3>1. Contract!Find
      BY <1>1, <1>2, <2>1, <2>3 DEF Contract!Find
    <3> QED
      BY <3>1 DEF Contract!CNext
  <2>4. sent' = sent \/ sent' = sent + 1
    BY DEF runDevice, initNonces, updateCurrentWork, runKernel, LockCandidate,
           SendCandidate, IdleWait, queueVars
  <2> QED
    BY <2>2, <2>3, <2>4
<1>6. \/ dpc' = [dpc EXCEPT ![d] = "done"] /\ sent' = sent
      \/ \E x : x # "done" /\ dpc' = [dpc EXCEPT ![d] = x]
  <2>1. CASE initNonces(d)
    BY <2>1 DEF initNonces, queueVars
  <2>2. CASE updateCurrentWork(d)
    BY <2>2 DEF updateCurrentWork, queueVars
  <2>3. CASE runKernel(d)
    <3>1. AfterCandidates(d) # "done"
      BY DEF AfterCandidates
    <3> QED
      BY <2>3, <3>1 DEF runKernel, queueVars
  <2>4. CASE LockCandidate(d)
    BY <2>4 DEF LockCandidate
  <2>5. CASE SendCandidate(d)
    <3>1. AfterCandidates(d) # "done"
      BY DEF AfterCandidates
    <3> QED
      BY <2>5, <3>1 DEF SendCandidate
  <2>6. CASE IdleWait(d)
    BY <2>6 DEF IdleWait, queueVars
  <2> QED
    BY <2>1, <2>2, <2>3, <2>4, <2>5, <2>6 DEF runDevice
<1> QED
  BY <1>4, <1>5, <1>6

\* A goroutine that ends the run by itself is seen as a fault.
LEMMA FaultContract ==
    ASSUME Running, UNCHANGED <<phase, interrupted, dpc, sent, validShares, invalidShares>>,
           fatal' = fatal \/ fatal' = TRUE
    PROVE  [Contract!CNext]_(Contract!cvars)
<1>1. CASE fatal' = fatal
  BY <1>1, ContractStutter
<1>2. CASE fatal' = TRUE
  <2>1. Stage = "mining" /\ Stage' = Stage /\ Verdict' = Verdict /\ Hashing' = Hashing
    BY <1>2 DEF Stage, Verdict, Hashing, Over, Running
  <2>2. \A r \in {"user", "fault"} : r \in Reasons' <=> r \in Reasons \/ r = "fault"
    BY <1>2 DEF Reasons
  <2>3. Reasons' = Reasons \cup {"fault"}
    BY <2>2 DEF Reasons
  <2>4. Contract!Stop("fault")
    BY <2>1, <2>3 DEF Contract!Stop
  <2> QED
    BY <2>4 DEF Contract!CNext
<1> QED
  BY <1>1, <1>2

LEMMA ContractStep ==
    Typed /\ Stopped /\ EveryBlockAccounted /\ [Next]_vars
        => [Contract!CNext]_(Contract!cvars)
<1> SUFFICES ASSUME Typed, Stopped, EveryBlockAccounted, [Next]_vars
             PROVE  [Contract!CNext]_(Contract!cvars)
  OBVIOUS
<1>typed. DeviceTypes /\ SubmitTypes
  BY DEF Typed, TypeOK
<1> USE DEF ctxVars, submitVars, queueVars, deviceVars
<1>1. CASE \/ UNCHANGED vars \/ NewTemplate \/ NodeExit \/ Age \/ OnWork
           \/ \E s \in Sources : onSoloWork(s)
           \/ printStatsThread
  BY <1>1, ContractStutter
  DEF vars, NewTemplate, NodeExit, Age, OnWork, onSoloWork, PublishWork, SetWork,
      printStatsThread, PrintStats, StatsTick, StatsStop, StatsUnchanged
<1>2. CASE Interrupt /\ ~Over
  <2>1. /\ UNCHANGED <<phase, fatal, dpc, sent, validShares, invalidShares>>
        /\ interrupted' = TRUE
    BY <1>2 DEF Interrupt
  <2>2. Stage # "over" /\ Stage' = Stage /\ Verdict' = Verdict /\ Hashing' = Hashing
    BY <1>2, <2>1 DEF Stage, Verdict, Hashing, Over, Running
  <2>3. \A r \in {"user", "fault"} : r \in Reasons' <=> r \in Reasons \/ r = "user"
    BY <2>1 DEF Reasons
  <2>4. Reasons' = Reasons \cup {"user"}
    BY <2>3 DEF Reasons
  <2>5. Contract!Stop("user")
    BY <2>1, <2>2, <2>4 DEF Contract!Stop
  <2> QED
    BY <2>5 DEF Contract!CNext
<1>3. CASE newSoloMiner \/ InitialWork
  <2>1. /\ UNCHANGED <<interrupted, fatal, dpc, sent, validShares, invalidShares>>
        /\ phase \in Calling /\ phase' \in Calling \cup {"feed"}
    BY <1>3 DEF newSoloMiner, InitialWork
  <2>2. UNCHANGED <<Stage, Verdict, Reasons, Hashing>>
    BY <2>1 DEF Stage, Verdict, Reasons, Hashing, Over, Running
  <2> QED
    BY <2>1, <2>2 DEF Contract!cvars
<1>4. CASE NewMinerFails
  <2>1. /\ UNCHANGED <<interrupted, fatal, dpc, sent, validShares, invalidShares>>
        /\ phase \in Calling /\ phase' = "failed"
    BY <1>4 DEF NewMinerFails
  <2>2. /\ Stage = "starting" /\ Stage' = "over" /\ Verdict' = "refused"
        /\ UNCHANGED <<Reasons, Hashing>>
    BY <2>1 DEF Stage, Verdict, Reasons, Hashing, Over, Running
  <2>3. Contract!Refuse
    BY <2>1, <2>2 DEF Contract!Refuse
  <2> QED
    BY <2>3 DEF Contract!CNext
<1>5. CASE StartRun
  <2>1. /\ UNCHANGED <<interrupted, fatal, dpc, sent, validShares, invalidShares>>
        /\ phase = "feed" /\ phase' = "run"
    BY <1>5 DEF StartRun
  <2>2. /\ Stage = "starting" /\ Stage' = "mining"
        /\ UNCHANGED <<Verdict, Reasons, Hashing>>
    BY <2>1 DEF Stage, Verdict, Reasons, Hashing, Over, Running
  <2>3. Contract!StartMining
    BY <2>1, <2>2 DEF Contract!StartMining
  <2> QED
    BY <2>3 DEF Contract!CNext
<1>6. CASE RunReturn
  <2>1. /\ UNCHANGED <<interrupted, fatal, dpc, sent, validShares, invalidShares>>
        /\ phase = "run" /\ phase' = "returned"
        /\ spc = "done" /\ \A d \in Devices : dpc[d] = "done"
    BY <1>6 DEF RunReturn, AllDone, Running
  <2>2. interrupted \/ fatal
    BY <2>1 DEF Stopped
  <2>3. Reasons # {} /\ ("fault" \in Reasons <=> fatal)
    BY <2>2 DEF Reasons
  <2>4. Hashing = {}
    BY <2>1 DEF Hashing
  <2>5. /\ Stage = "mining" /\ Stage' = "over"
        /\ UNCHANGED <<Reasons, Hashing>>
    BY <2>1 DEF Stage, Reasons, Hashing, Over, Running
  <2>6. Verdict' = IF fatal THEN "error" ELSE "ok"
    BY <2>1 DEF Verdict
  <2>7. Contract!Return
    BY <2>1, <2>3, <2>4, <2>5, <2>6 DEF Contract!Return
  <2> QED
    BY <2>7 DEF Contract!CNext
<1>7. ASSUME NEW d \in Devices, runDevice(d)
      PROVE  [Contract!CNext]_(Contract!cvars)
  BY <1>7, <1>typed, DeviceContract
<1>8. CASE expiryThread \/ nodeWatchThread
  <2>1. /\ Running
        /\ UNCHANGED <<phase, interrupted, dpc, sent, validShares, invalidShares>>
    BY <1>8 DEF expiryThread, ExpiryPoll, PollReply, PollFails, ExpiryStop,
                ExpiryUnchanged, nodeWatchThread, NodeWatchUnchanged
  <2>2. fatal' = fatal \/ fatal' = TRUE
    BY <1>8 DEF expiryThread, ExpiryPoll, PollReply, PollFails, ExpiryStop,
                nodeWatchThread, EndRun
  <2> QED
    BY <2>1, <2>2, FaultContract
<1>9. CASE workSubmitThread /\ ~SubmitAccepted /\ ~SubmitRejected
  <2>1. /\ Running
        /\ UNCHANGED <<phase, interrupted, dpc, sent, validShares, invalidShares>>
    BY <1>9 DEF workSubmitThread, SubmitSelect, PayeeFine, PayeeWrong, SubmitUnchanged
  <2>2. fatal' = fatal \/ fatal' = TRUE
    BY <1>9 DEF workSubmitThread, SubmitSelect, PayeeFine, PayeeWrong, EndRun
  <2> QED
    BY <2>1, <2>2, FaultContract
<1>10. CASE Running /\ (SubmitAccepted \/ SubmitRejected)
  <2>1. /\ UNCHANGED <<phase, interrupted, fatal, dpc, sent>>
        /\ spc = "submit"
    BY <1>10 DEF SubmitAccepted, SubmitRejected, SubmitUnchanged
  <2>2. validShares' + invalidShares' = validShares + invalidShares + 1
    BY <1>10, <1>typed DEF SubmitAccepted, SubmitRejected, SubmitTypes
  <2>3. workDone \in Nat /\ validShares + invalidShares \in Nat
    BY <1>typed, CapAssumption DEF SubmitTypes
  <2>4. sent = workDone + 1 + validShares + invalidShares
    BY <2>1 DEF EveryBlockAccounted
  <2>5. validShares + invalidShares < sent
    BY <1>typed, <2>3, <2>4 DEF SubmitTypes
  <2>6. /\ Stage = "mining"
        /\ UNCHANGED <<Stage, Verdict, Reasons, Hashing>>
    BY <1>10, <2>1 DEF Stage, Verdict, Reasons, Hashing, Over, Running
  <2>7. Contract!Settle
    BY <2>1, <2>2, <2>5, <2>6 DEF Contract!Settle
  <2> QED
    BY <2>7 DEF Contract!CNext
<1> QED
  BY <1>1, <1>2, <1>3, <1>4, <1>5, <1>6, <1>7, <1>8, <1>9, <1>10
  DEF Next, Environment, NewMiner, workSubmitThread

\* The goroutines of the run, however they interleave, implement the contract
\* monvarkMain relies on: one start, devices that stay stopped, a verdict that
\* names a fault, blocks settled at most once.
THEOREM Refinement == Spec => KeepsContract
<1>1. Init => Contract!CInit
  BY DEF Init, Contract!CInit, Stage, Verdict, Reasons, Hashing, Over, Running
<1>2. Spec => [](Typed /\ Stopped /\ EveryBlockAccounted)
  BY AlwaysTyped, AlwaysStopped, PTL
<1>3. Typed /\ Stopped /\ EveryBlockAccounted /\ [Next]_vars
        => [Contract!CNext]_(Contract!cvars)
  BY ContractStep
<1> QED
  BY <1>1, <1>2, <1>3, PTL DEF Spec, KeepsContract, Contract!CSpec
=============================================================================
