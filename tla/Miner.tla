------------------------------- MODULE Miner -------------------------------
(***************************************************************************)
(* The mining run of monvark: NewMiner and Miner.Run of miner.go, and the  *)
(* device loop of device.go and device_opencl.go, as concurrent goroutines *)
(* that share the per-device newWork queues, the workDone queue, the       *)
(* current work, the run's context and the device locks.                   *)
(*                                                                         *)
(* A piece of work is the number of the block template the node built it   *)
(* from: a larger number is a newer template, 0 is "no work".  A solved    *)
(* header on its way to the node is only counted.  Time appears as the     *)
(* events it causes: work growing older than workExpiry, a ticker firing,  *)
(* a deadline passing.                                                     *)
(***************************************************************************)
EXTENDS Naturals, Sequences

CONSTANTS
    NumDevices,       \* devices mined with; SetWork serves them in this order
    NewWorkCap,       \* capacity of a device's newWork queue (5 in NewDevice)
    WorkDoneCap,      \* capacity of the workDone queue (10 in monvarkMain)
    MaxFailures,      \* failed polls before expiryThread gives up (3)
    Throttled,        \* devices whose duty cycle is below 100
    Events,           \* the outside events a behaviour may contain
    MaxTemplate,      \* bound: templates the node ever builds
    MaxEarlyTemplate, \* bound: templates the node builds before Run starts
    MaxPerLaunch,     \* bound: blocks below target found by one kernel launch
    MaxSent           \* bound: a launch finds no block that would exceed this total

AllEvents ==
    { "interrupt",   \* the user's Ctrl+C or SIGTERM
      "nodeexit",    \* the node process exits by itself
      "lostpush",    \* a work notification never reaches monvark
      "age",         \* no work is published for longer than workExpiry
      "rpcerror",    \* the node answers an RPC with an error, or not in time
      "devicefail",  \* an OpenCL call or the random source of a device fails
      "badpayee" }   \* a block read back does not pay the user

ASSUME NumDevicesAssumption == NumDevices \in Nat \ {0}
ASSUME CapAssumption ==
    /\ NewWorkCap \in Nat \ {0}
    /\ WorkDoneCap \in Nat \ {0}
ASSUME MaxFailuresAssumption == MaxFailures \in Nat \ {0}
ASSUME EventsAssumption == Events \subseteq AllEvents
ASSUME BoundsAssumption ==
    /\ MaxTemplate \in Nat \ {0}
    /\ MaxEarlyTemplate \in 1..MaxTemplate
    /\ MaxPerLaunch \in Nat
    /\ MaxSent \in Nat

Devices == 1..NumDevices

ASSUME ThrottledAssumption == Throttled \subseteq Devices

\* The three callers of onSoloWork: NewMiner, the OnWork handler, expiryThread.
Sources == {"init", "push", "expiry"}

Templates == 1..MaxTemplate

VARIABLES
    phase,          \* where monvarkMain is between NewMiner and Run's return
    interrupted,    \* main's context is done
    cancelled,      \* the run's derived context is done
    fatal,          \* Miner.fatal
    nodeUp,         \* the node process is alive
    tip,            \* newest template the node has built
    wire,           \* work notifications on the connection, not read yet
    lastRead,       \* newest template read from the connection so far
    currentWork,    \* Miner.currentWork
    stale,          \* currentWork is older than workExpiry
    job,            \* job[s]: the work source s is publishing, 0 when idle
    nextDev,        \* nextDev[s]: next device s feeds, 0 before currentWork is set
    raced,          \* history: two feeds of the devices have overlapped
    newWork,        \* newWork[d]: Device.newWork
    work,           \* work[d]: Device.work, 0 while hasWork is false
    dpc,            \* dpc[d]: where runDevice is
    left,           \* left[d]: below-target candidates of the launch not sent yet
    workDone,       \* solved headers in the workDone queue
    spc,            \* where workSubmitThread is
    payeeChecked,   \* Miner.payeeChecked
    validShares,    \* Miner.validShares
    invalidShares,  \* Miner.invalidShares
    sent,           \* history: headers the devices put on workDone
    epc,            \* where expiryThread is
    failures,       \* expiryThread's failures
    watching,       \* nodeWatchThread has not returned
    stats           \* device printStatsThread reads next, 0 in its select

ctxVars    == <<interrupted, cancelled, fatal>>
nodeVars   == <<nodeUp, tip, wire, lastRead>>
workVars   == <<currentWork, stale, job, nextDev, raced>>
deviceVars == <<work, dpc, left>>
submitVars == <<spc, payeeChecked, validShares, invalidShares>>
queueVars  == <<workDone, sent>>
expiryVars == <<epc, failures>>
vars == <<phase, ctxVars, nodeVars, workVars, newWork, deviceVars, submitVars,
          queueVars, expiryVars, watching, stats>>

StatsDone == NumDevices + 1

\* The calls of NewMiner to the node, in their order.
Calling == {"connect", "notifywork", "notifyblocks", "getwork"}

FlagTypes ==
    /\ interrupted \in BOOLEAN
    /\ cancelled \in BOOLEAN
    /\ fatal \in BOOLEAN
    /\ nodeUp \in BOOLEAN
    /\ stale \in BOOLEAN
    /\ raced \in BOOLEAN
    /\ payeeChecked \in BOOLEAN
    /\ watching \in BOOLEAN

NodeTypes ==
    /\ tip \in Templates
    /\ wire \in Seq(2..MaxTemplate)
    /\ lastRead \in Templates

WorkTypes ==
    /\ currentWork \in 0..MaxTemplate
    /\ job \in [Sources -> 0..MaxTemplate]
    /\ nextDev \in [Sources -> 0..NumDevices]

DeviceTypes ==
    /\ newWork \in [Devices -> Seq(Templates)]
    /\ \A d \in Devices : Len(newWork[d]) <= NewWorkCap
    /\ work \in [Devices -> 0..MaxTemplate]
    /\ dpc \in [Devices -> {"init", "update", "launch", "found", "send",
                            "idle", "done"}]
    /\ left \in [Devices -> Nat]

SubmitTypes ==
    /\ workDone \in 0..WorkDoneCap
    /\ sent \in Nat
    /\ spc \in {"select", "submit", "payee", "done"}
    /\ validShares \in Nat
    /\ invalidShares \in Nat

ThreadTypes ==
    /\ phase \in Calling \cup {"feed", "run", "returned", "failed"}
    /\ epc \in {"tick", "poll", "done"}
    /\ failures \in 0..MaxFailures
    /\ stats \in 0..StatsDone

\* Every variable has its type and every queue and counter keeps its bound: no
\* newWork queue exceeds its capacity and expiryThread never counts past the
\* failure that ends the run.
TypeOK ==
    /\ FlagTypes
    /\ NodeTypes
    /\ WorkTypes
    /\ DeviceTypes
    /\ SubmitTypes
    /\ ThreadTypes

Init ==
    /\ phase = "connect"
    /\ interrupted = FALSE
    /\ cancelled = FALSE
    /\ fatal = FALSE
    /\ nodeUp = TRUE
    /\ tip = 1
    /\ wire = <<>>
    /\ lastRead = 1
    /\ currentWork = 0
    /\ stale = FALSE
    /\ job = [s \in Sources |-> 0]
    /\ nextDev = [s \in Sources |-> 0]
    /\ raced = FALSE
    /\ newWork = [d \in Devices |-> <<>>]
    /\ work = [d \in Devices |-> 0]
    /\ dpc = [d \in Devices |-> "init"]
    /\ left = [d \in Devices |-> 0]
    /\ workDone = 0
    /\ spc = "select"
    /\ payeeChecked = FALSE
    /\ validShares = 0
    /\ invalidShares = 0
    /\ sent = 0
    /\ epc = "tick"
    /\ failures = 0
    /\ watching = TRUE
    /\ stats = 1
-----------------------------------------------------------------------------
(***************************************************************************)
(* The node and the connection to it.  rpcclient reads the connection in   *)
(* one goroutine, which runs the OnWork handler itself: while the handler  *)
(* is blocked nothing else is read, replies to RPCs included.  A request   *)
(* pending when the node goes away is held open, not failed.               *)
(***************************************************************************)
Over == phase \in {"returned", "failed"}
Running == phase = "run"

\* The goroutine that reads the connection is not inside the OnWork handler.
ReaderFree == job["push"] = 0

\* Variants of Room: a queue one longer, a queue one shorter than its capacity.
RoomForOneMore(d) == Len(newWork[d]) <= NewWorkCap
RoomForOneLess(d) == Len(newWork[d]) + 1 < NewWorkCap

\* A send on device d's newWork queue would not block.
Room(d) == Len(newWork[d]) < NewWorkCap

\* A feed that cannot go on: the queue it must append to is full.
Blocked(s) == nextDev[s] \in Devices /\ ~Room(nextDev[s])

\* A reply to an RPC can be read from the connection.
CanReply == nodeUp /\ ReaderFree

\* The newest template older than the notifications not read yet.
Unannounced == IF wire = <<>> THEN tip ELSE Head(wire) - 1

\* The templates a getwork reply read now can carry: it was sent after the
\* messages already read and before the notifications not read yet.
Replies == lastRead .. Unannounced

\* The node may not have been asked for notifications yet, or not have noticed:
\* none has come.
Unsubscribed ==
    \/ phase = "connect"
    \/ phase = "notifywork" /\ wire = <<>> /\ ReaderFree /\ currentWork = 0

\* The node builds a new template and notifies monvark of it.
NewTemplate ==
    /\ nodeUp
    /\ tip < (IF Running THEN MaxTemplate ELSE MaxEarlyTemplate)
    /\ tip' = tip + 1
    /\ \/ phase # "connect" /\ wire' = Append(wire, tip + 1)
       \/ ("lostpush" \in Events \/ Unsubscribed) /\ wire' = wire
    /\ UNCHANGED <<phase, ctxVars, nodeUp, lastRead, workVars, newWork,
                   deviceVars, submitVars, queueVars, expiryVars, watching,
                   stats>>

NodeExit ==
    /\ "nodeexit" \in Events
    /\ nodeUp
    /\ nodeUp' = FALSE
    /\ UNCHANGED <<phase, ctxVars, tip, wire, lastRead, workVars, newWork,
                   deviceVars, submitVars, queueVars, expiryVars, watching,
                   stats>>

\* A signal ends main's context and with it the run's, which derives from it.
Interrupt ==
    /\ "interrupt" \in Events
    /\ ~interrupted
    /\ interrupted' = TRUE
    /\ cancelled' = TRUE
    /\ UNCHANGED <<phase, fatal, nodeVars, workVars, newWork, deviceVars,
                   submitVars, queueVars, expiryVars, watching, stats>>

\* workExpiry passes with nothing published.
Age ==
    /\ "age" \in Events
    /\ currentWork # 0
    /\ ~stale
    /\ stale' = TRUE
    /\ UNCHANGED <<phase, ctxVars, nodeVars, currentWork, job, nextDev, raced,
                   newWork, deviceVars, submitVars, queueVars, expiryVars,
                   watching, stats>>

\* The reader takes the next notification and enters the OnWork handler.
OnWork ==
    /\ ReaderFree
    /\ wire # <<>>
    /\ job' = [job EXCEPT !["push"] = Head(wire)]
    /\ lastRead' = Head(wire)
    /\ wire' = Tail(wire)
    /\ UNCHANGED <<phase, ctxVars, nodeUp, tip, currentWork, stale, nextDev,
                   raced, newWork, deviceVars, submitVars, queueVars,
                   expiryVars, watching, stats>>
-----------------------------------------------------------------------------
(***************************************************************************)
(* onSoloWork: publish currentWork under workMtx, then, without the mutex, *)
(* put the work on every device's queue in turn.  SetWork gives a device   *)
(* up only when the context the caller passed is done: main's for NewMiner *)
(* and the handler, the run's for expiryThread.                            *)
(***************************************************************************)
PublishWork(s) ==
    /\ job[s] # 0
    /\ nextDev[s] = 0
    /\ currentWork' = job[s]
    /\ stale' = FALSE
    /\ nextDev' = [nextDev EXCEPT ![s] = 1]
    /\ raced' = (raced \/ \E t \in Sources \ {s} : nextDev[t] # 0)
    /\ UNCHANGED <<phase, ctxVars, nodeVars, job, newWork, deviceVars,
                   submitVars, queueVars, expiryVars, watching, stats>>

\* Variants: a full queue is skipped, as in a select with a default case; the
\* poll's feed is passed main's context instead of the run's.
FeedSkipsFullQueue(s) == cancelled \/ Blocked(s)
FeedWithMainCtx(s) == interrupted

\* The context the caller of onSoloWork passed on is done.
FeedCtxDone(s) == IF s = "expiry" THEN cancelled ELSE interrupted

SetWork(s) ==
    /\ nextDev[s] # 0
    /\ LET d == nextDev[s]
       IN  /\ \/ /\ Room(d)
                 /\ newWork' = [newWork EXCEPT ![d] = Append(@, job[s])]
              \/ /\ FeedCtxDone(s)
                 /\ newWork' = newWork
           /\ nextDev' = [nextDev EXCEPT ![s] = IF d = NumDevices THEN 0 ELSE d + 1]
           /\ job' = [job EXCEPT ![s] = IF d = NumDevices THEN 0 ELSE @]
    /\ UNCHANGED <<phase, ctxVars, nodeVars, currentWork, stale, raced,
                   deviceVars, submitVars, queueVars, expiryVars, watching,
                   stats>>

onSoloWork(s) == PublishWork(s) \/ SetWork(s)
-----------------------------------------------------------------------------
(***************************************************************************)
(* NewMiner: connect and subscribe to work, ask for the first work, feed   *)
(* it to the devices, which are not running yet; then Run.                 *)
(***************************************************************************)
\* New, NotifyWork and NotifyBlocks, one call after the other.  A work read from
\* now on is no older than what the node had built by the end of the call.
newSoloMiner ==
    /\ \/ phase = "connect" /\ phase' = "notifywork"
       \/ phase = "notifywork" /\ phase' = "notifyblocks"
       \/ phase = "notifyblocks" /\ phase' = "getwork"
    /\ CanReply
    /\ lastRead' = Unannounced
    /\ UNCHANGED <<ctxVars, nodeUp, tip, wire, workVars, newWork, deviceVars,
                   submitVars, queueVars, expiryVars, watching, stats>>

InitialWork ==
    /\ phase = "getwork"
    /\ CanReply
    /\ \E w \in Replies :
         /\ job' = [job EXCEPT !["init"] = w]
         /\ lastRead' = w
    /\ phase' = "feed"
    /\ UNCHANGED <<ctxVars, nodeUp, tip, wire, currentWork, stale, nextDev,
                   raced, newWork, deviceVars, submitVars, queueVars,
                   expiryVars, watching, stats>>

\* An RPC error, an undecodable reply, a connection refused or an interrupt,
\* which New does not watch.
NewMinerFails ==
    /\ phase \in Calling
    /\ \/ interrupted /\ phase # "connect"
       \/ "rpcerror" \in Events /\ CanReply
       \/ phase = "connect" /\ ~nodeUp
    /\ phase' = "failed"
    /\ UNCHANGED <<ctxVars, nodeVars, workVars, newWork, deviceVars,
                   submitVars, queueVars, expiryVars, watching, stats>>

\* Run starts every goroutine.
StartRun ==
    /\ phase = "feed"
    /\ job["init"] = 0
    /\ phase' = "run"
    /\ UNCHANGED <<ctxVars, nodeVars, workVars, newWork, deviceVars,
                   submitVars, queueVars, expiryVars, watching, stats>>

\* Variant: the devices are missing from the wait group.
DevicesNotWaitedFor == spc = "done" /\ epc = "done" /\ ~watching /\ stats = StatsDone

\* Every goroutine Run started has called wg.Done.
AllDone ==
    /\ \A d \in Devices : dpc[d] = "done"
    /\ spc = "done"
    /\ epc = "done"
    /\ ~watching
    /\ stats = StatsDone

\* wg.Wait returns; the deferred cancel runs.
RunReturn ==
    /\ Running
    /\ AllDone
    /\ phase' = "returned"
    /\ cancelled' = TRUE
    /\ UNCHANGED <<interrupted, fatal, nodeVars, workVars, newWork, deviceVars,
                   submitVars, queueVars, expiryVars, watching, stats>>
-----------------------------------------------------------------------------
(***************************************************************************)
(* runDevice.  A launch is one kernel over the current work; its outcome   *)
(* here is how many of its candidates are blocks below the target.         *)
(***************************************************************************)
DeviceUnchanged == UNCHANGED <<phase, ctxVars, nodeVars, workVars, submitVars,
                               expiryVars, watching, stats>>

\* initNonces: the device ends at once when the random source fails.
initNonces(d) ==
    /\ dpc[d] = "init"
    /\ \/ dpc' = [dpc EXCEPT ![d] = "update"]
       \/ /\ "devicefail" \in Events
          /\ dpc' = [dpc EXCEPT ![d] = "done"]
    /\ UNCHANGED <<newWork, work, left, queueVars>>
    /\ DeviceUnchanged

\* updateCurrentWork and the check of the context behind it.  One queued work
\* is taken per turn; without work the device waits for some.
updateCurrentWork(d) ==
    /\ dpc[d] = "update"
    /\ \/ /\ newWork[d] # <<>>
          /\ work' = [work EXCEPT ![d] = Head(newWork[d])]
          /\ newWork' = [newWork EXCEPT ![d] = Tail(newWork[d])]
       \/ /\ IF work[d] = 0 THEN cancelled ELSE newWork[d] = <<>>
          /\ UNCHANGED <<work, newWork>>
    /\ dpc' = [dpc EXCEPT ![d] = IF cancelled THEN "done" ELSE "launch"]
    /\ UNCHANGED <<left, queueVars>>
    /\ DeviceUnchanged

\* Where the loop goes when a launch's candidates are dealt with (idleFor).
AfterCandidates(d) == IF d \in Throttled THEN "idle" ELSE "update"

\* setKernelArgs and runKernel: an OpenCL error ends the device.
runKernel(d) ==
    /\ dpc[d] = "launch"
    /\ \/ \E k \in 0..MaxPerLaunch :
            /\ k = 0 \/ sent + k <= MaxSent
            /\ left' = [left EXCEPT ![d] = k]
            /\ dpc' = [dpc EXCEPT ![d] = IF k = 0 THEN AfterCandidates(d) ELSE "found"]
       \/ /\ "devicefail" \in Events
          /\ dpc' = [dpc EXCEPT ![d] = "done"]
          /\ left' = left
    /\ UNCHANGED <<newWork, work, queueVars>>
    /\ DeviceUnchanged

\* foundCandidate takes the device lock and holds it over the send below.
LockCandidate(d) ==
    /\ dpc[d] = "found"
    /\ dpc' = [dpc EXCEPT ![d] = "send"]
    /\ UNCHANGED <<newWork, work, left, queueVars>>
    /\ DeviceUnchanged

\* d.workDone <- data: waits for room, whatever becomes of the context.
SendCandidate(d) ==
    /\ dpc[d] = "send"
    /\ workDone < WorkDoneCap
    /\ workDone' = workDone + 1
    /\ sent' = sent + 1
    /\ left' = [left EXCEPT ![d] = @ - 1]
    /\ dpc' = [dpc EXCEPT ![d] = IF left[d] = 1 THEN AfterCandidates(d) ELSE "found"]
    /\ UNCHANGED <<newWork, work>>
    /\ DeviceUnchanged

\* The duty cycle's wait ends when its time is up or the context is done.
IdleWait(d) ==
    /\ dpc[d] = "idle"
    /\ \/ dpc' = [dpc EXCEPT ![d] = "update"]
       \/ cancelled /\ dpc' = [dpc EXCEPT ![d] = "done"]
    /\ UNCHANGED <<newWork, work, left, queueVars>>
    /\ DeviceUnchanged

runDevice(d) ==
    /\ Running
    /\ \/ initNonces(d)
       \/ updateCurrentWork(d)
       \/ runKernel(d)
       \/ LockCandidate(d)
       \/ SendCandidate(d)
       \/ IdleWait(d)
-----------------------------------------------------------------------------
\* Variants: the run is cancelled without fatal; fatal is set, nothing else.
EndRunQuietly == cancelled' = TRUE /\ fatal' = fatal
EndRunUncancelled == cancelled' = cancelled /\ fatal' = TRUE

\* How a goroutine ends the run by itself: fatal is stored, then the run's
\* context cancelled.
EndRun == cancelled' = TRUE /\ fatal' = TRUE

(***************************************************************************)
(* workSubmitThread and checkPayee.  Both RPCs carry the run's context and *)
(* no deadline of their own.                                               *)
(***************************************************************************)
SubmitUnchanged == UNCHANGED <<phase, interrupted, nodeVars, workVars, newWork,
                               deviceVars, sent, expiryVars, watching, stats>>

SubmitSelect ==
    /\ spc = "select"
    /\ \/ /\ cancelled
          /\ spc' = "done"
          /\ workDone' = workDone
       \/ /\ workDone > 0
          /\ spc' = "submit"
          /\ workDone' = workDone - 1
    /\ UNCHANGED <<cancelled, fatal, payeeChecked, validShares, invalidShares>>
    /\ SubmitUnchanged

SubmitAccepted ==
    /\ spc = "submit"
    /\ CanReply
    /\ validShares' = validShares + 1
    /\ spc' = IF payeeChecked THEN "select" ELSE "payee"
    /\ UNCHANGED <<cancelled, fatal, payeeChecked, invalidShares, workDone>>
    /\ SubmitUnchanged

\* Variants: a failed call is not counted; it ends the thread.
SubmitUncounted ==
    /\ spc = "submit"
    /\ CanReply \/ cancelled
    /\ spc' = "select"
    /\ UNCHANGED <<cancelled, fatal, payeeChecked, validShares, invalidShares,
                   workDone>>
    /\ SubmitUnchanged

SubmitGivesUp ==
    /\ spc = "submit"
    /\ CanReply \/ cancelled
    /\ invalidShares' = invalidShares + 1
    /\ spc' = "done"
    /\ UNCHANGED <<cancelled, fatal, payeeChecked, validShares, workDone>>
    /\ SubmitUnchanged

\* The node rejects the block or fails the call, or the run is cancelled.
SubmitRejected ==
    /\ spc = "submit"
    /\ CanReply \/ cancelled
    /\ invalidShares' = invalidShares + 1
    /\ spc' = "select"
    /\ UNCHANGED <<cancelled, fatal, payeeChecked, validShares, workDone>>
    /\ SubmitUnchanged

\* checkPayee: the block is read back and pays the user, or cannot be read.
PayeeFine ==
    /\ spc = "payee"
    /\ \/ CanReply /\ payeeChecked' = TRUE
       \/ /\ cancelled \/ ("rpcerror" \in Events /\ CanReply)
          /\ payeeChecked' = payeeChecked
    /\ spc' = "select"
    /\ UNCHANGED <<cancelled, fatal, validShares, invalidShares, workDone>>
    /\ SubmitUnchanged

\* coinbasePays is false: the run ends, and with it this thread.
PayeeWrong ==
    /\ spc = "payee"
    /\ "badpayee" \in Events
    /\ CanReply
    /\ EndRun
    /\ spc' = "done"
    /\ UNCHANGED <<payeeChecked, validShares, invalidShares, workDone>>
    /\ SubmitUnchanged

workSubmitThread ==
    /\ Running
    /\ \/ SubmitSelect
       \/ SubmitAccepted
       \/ SubmitRejected
       \/ PayeeFine
       \/ PayeeWrong
-----------------------------------------------------------------------------
(***************************************************************************)
(* expiryThread.  A tick that finds the work fresh changes nothing and is  *)
(* left out; after a successful poll the thread is in onSoloWork until     *)
(* job["expiry"] is 0 again.                                               *)
(***************************************************************************)
ExpiryUnchanged == UNCHANGED <<phase, interrupted, newWork, deviceVars,
                               submitVars, queueVars, watching, stats>>

\* The ticker fires and finds the work stale: getwork with a 30s deadline.
ExpiryPoll ==
    /\ epc = "tick"
    /\ job["expiry"] = 0
    /\ stale
    /\ epc' = "poll"
    /\ UNCHANGED <<cancelled, fatal, nodeVars, workVars, failures>>
    /\ ExpiryUnchanged

\* The poll is answered; a reply that cannot be decoded is dropped.
PollReply ==
    /\ epc = "poll"
    /\ CanReply
    /\ failures' = 0
    /\ epc' = "tick"
    /\ \E w \in Replies :
         /\ lastRead' = w
         /\ \/ job' = [job EXCEPT !["expiry"] = w]
            \/ "rpcerror" \in Events /\ job' = job
    /\ UNCHANGED <<cancelled, fatal, nodeUp, tip, wire, currentWork, stale,
                   nextDev, raced>>
    /\ ExpiryUnchanged

\* Variant: the poll has no deadline.
PollWaits == cancelled \/ "rpcerror" \in Events \/ ~nodeUp

\* The poll can fail: the run is cancelled, the node answers with an error or
\* too late, it is gone, or its answer is behind a handler that is blocked.
PollCanFail ==
    \/ cancelled
    \/ "rpcerror" \in Events
    \/ ~nodeUp
    \/ Blocked("push")

\* The failed poll of a cancelled run ends the thread and is not counted.
PollFails ==
    /\ epc = "poll"
    /\ PollCanFail
    /\ IF cancelled
         THEN /\ epc' = "done"
              /\ UNCHANGED <<failures, fatal, cancelled>>
         ELSE /\ epc' = "tick"
              /\ failures' = failures + 1
              /\ IF failures' >= MaxFailures THEN EndRun
                                            ELSE UNCHANGED <<fatal, cancelled>>
    /\ UNCHANGED <<nodeVars, workVars>>
    /\ ExpiryUnchanged

ExpiryStop ==
    /\ epc = "tick"
    /\ job["expiry"] = 0
    /\ cancelled
    /\ epc' = "done"
    /\ UNCHANGED <<cancelled, fatal, nodeVars, workVars, failures>>
    /\ ExpiryUnchanged

expiryThread ==
    /\ Running
    /\ \/ ExpiryPoll
       \/ PollReply
       \/ PollFails
       \/ ExpiryStop
-----------------------------------------------------------------------------
(***************************************************************************)
(* nodeWatchThread and printStatsThread.                                   *)
(***************************************************************************)
NodeWatchUnchanged == UNCHANGED <<phase, interrupted, nodeVars, workVars,
                                  newWork, deviceVars, submitVars, queueVars,
                                  expiryVars, stats>>

nodeWatchThread ==
    /\ Running
    /\ watching
    /\ watching' = FALSE
    /\ \/ cancelled /\ UNCHANGED <<cancelled, fatal>>
       \/ ~nodeUp /\ EndRun
    /\ NodeWatchUnchanged

StatsUnchanged == UNCHANGED <<phase, ctxVars, nodeVars, workVars, newWork,
                              deviceVars, submitVars, queueVars, expiryVars,
                              watching>>

\* Device.Status takes the device's lock, which a blocked send holds; behind
\* the last device the thread is in its select.
PrintStats ==
    /\ stats \in Devices
    /\ dpc[stats] # "send"
    /\ stats' = IF stats = NumDevices THEN 0 ELSE stats + 1
    /\ StatsUnchanged

StatsTick ==
    /\ stats = 0
    /\ stats' = 1
    /\ StatsUnchanged

StatsStop ==
    /\ stats = 0
    /\ cancelled
    /\ stats' = StatsDone
    /\ StatsUnchanged

printStatsThread == Running /\ (PrintStats \/ StatsTick \/ StatsStop)
-----------------------------------------------------------------------------
NewMiner == newSoloMiner \/ InitialWork \/ NewMinerFails

Environment == NewTemplate \/ NodeExit \/ Interrupt \/ Age

Next ==
    /\ ~Over
    /\ \/ Environment
       \/ OnWork
       \/ \E s \in Sources : onSoloWork(s)
       \/ NewMiner
       \/ StartRun
       \/ \E d \in Devices : runDevice(d)
       \/ workSubmitThread
       \/ expiryThread
       \/ nodeWatchThread
       \/ printStatsThread
       \/ RunReturn

Spec == Init /\ [][Next]_vars

(***************************************************************************)
(* Fairness.  The Go scheduler runs every goroutine that can run, a kernel *)
(* launch returns, and a live node answers.  Of the environment's events   *)
(* one is sure to come: time passes, so work grows old while the reader is *)
(* blocked and no newer can be published.  Where a select has several      *)
(* ready cases Go picks one at random, so a done context is not passed     *)
(* over for ever.                                                          *)
(***************************************************************************)
Fairness ==
    /\ WF_vars(~Over /\ Blocked("push") /\ Age)
    /\ WF_vars(~Over /\ OnWork)
    /\ \A s \in Sources : WF_vars(~Over /\ onSoloWork(s))
    /\ WF_vars(NewMiner)
    /\ WF_vars(StartRun)
    /\ \A d \in Devices : WF_vars(runDevice(d))
    /\ WF_vars(workSubmitThread)
    /\ WF_vars(expiryThread)
    /\ SF_vars(Running /\ ExpiryStop)
    /\ WF_vars(nodeWatchThread)
    /\ WF_vars(printStatsThread)
    /\ SF_vars(Running /\ StatsStop)
    /\ WF_vars(RunReturn)

FairSpec == Spec /\ Fairness
-----------------------------------------------------------------------------
(***************************************************************************)
(* Properties.                                                             *)
(***************************************************************************)

\* Every header a device put on workDone is still queued, is the one being
\* submitted, or has been counted once, as accepted or as rejected: no path
\* through workSubmitThread drops a found block or counts it twice, whatever
\* cancels the run in the middle of an RPC.
EveryBlockAccounted ==
    sent = workDone + (IF spc = "submit" THEN 1 ELSE 0)
                    + validShares + invalidShares

\* Run returns nil only when the user stopped it: whatever ends the run by
\* itself is recorded in fatal before the last goroutine is done, so a fault
\* found while mining always surfaces as an error.
CleanReturnMeansInterrupted ==
    phase = "returned" /\ ~fatal => interrupted

\* The newest work device d has been handed, taken up or still queued.
Handed(d) == IF newWork[d] = <<>> THEN work[d]
                                  ELSE newWork[d][Len(newWork[d])]

\* As long as no two calls of onSoloWork have fed the devices at the same
\* time, a finished feed leaves the same work, currentWork, as the newest of
\* every device, also of one that has failed: nothing that comes between
\* reading a notification or a reply and the last SetWork can separate them.
DevicesAgree ==
    ~raced /\ ~cancelled /\ (\A s \in Sources : nextDev[s] = 0)
        => \A d \in Devices : Handed(d) = currentWork

\* What monvarkMain sees of the miner, in the terms of module RunContract.
Stage == IF Over THEN "over" ELSE IF Running THEN "mining" ELSE "starting"

Verdict == IF phase = "failed" THEN "refused"
           ELSE IF phase # "returned" THEN "none"
           ELSE IF fatal THEN "error" ELSE "ok"

Reasons == {r \in {"user", "fault"} : IF r = "user" THEN interrupted ELSE fatal}

Hashing == {d \in Devices : dpc[d] # "done"}

Contract == INSTANCE RunContract WITH
    Dev <- Devices, state <- Stage, verdict <- Verdict, reasons <- Reasons,
    hashing <- Hashing, found <- sent, settled <- validShares + invalidShares

\* Run keeps the contract: the way it stops devices, reports a fault and
\* settles blocks is what main, which only sees Run return, relies on.
KeepsContract == Contract!CSpec

\* A send no goroutine will ever make room for: workDone is full and
\* workSubmitThread has returned.
SendStuck == /\ spc = "done"
             /\ workDone = WorkDoneCap
             /\ \E d \in Devices : dpc[d] = "send"

\* A cancelled run ends, whichever goroutine is in an RPC, a full queue or a
\* wait at that moment; the only thing that can keep it from ending is a
\* device stuck sending a block after workSubmitThread has gone.
StopEndsRun == cancelled ~> (Over \/ SendStuck)

\* Once the devices are running, the death of the node ends the run.
NodeExitEndsRun == (Running /\ ~nodeUp) ~> (Over \/ SendStuck)

SomeDeviceDead == \E d \in Devices : dpc[d] = "done"

\* A running device keeps coming back to the work published last, through a
\* queue that fills up and feeds that wait for it.  Two overlapping feeds or
\* a device that has ended, whose queue nobody empties, can prevent it.  A
\* circular wait does not last: where a device sends to a full workDone,
\* workSubmitThread waits for a reply, and the reader that would bring it waits
\* for room in the device's newWork, the polls fail until they cancel the run.
FreshWorkReaches ==
    \A d \in Devices :
        []<>(\/ ~Running \/ cancelled \/ raced \/ SomeDeviceDead
             \/ work[d] = currentWork)

\* That circular wait with expiryThread in it as well: it feeds a device that
\* sends, so no poll is left to fail.
FeedDeadlock ==
    /\ \A s \in {"push", "expiry"} : Blocked(s) /\ dpc[nextDev[s]] = "send"
    /\ workDone = WorkDoneCap
    /\ spc \in {"submit", "payee"}

\* A found block is submitted as long as the run goes on, the node answers and
\* no device has ended, unless the goroutines wait for one another.
BlocksAreSubmitted ==
    []<>(\/ workDone = 0 \/ cancelled \/ ~nodeUp \/ SomeDeviceDead \/ Over
         \/ FeedDeadlock)

\* Nothing dissolves that deadlock, whatever the devices, the node and the other
\* goroutines do, but the end of the run's context.
DeadlockLasts == [][FeedDeadlock /\ ~cancelled' => FeedDeadlock']_vars

\* NewMiner's feed or the handler's waits for room in a queue that is full,
\* while the device behind it is not running yet.
StartStuck ==
    /\ ~Running /\ ~Over
    /\ \E s \in {"init", "push"} :
          nextDev[s] \in Devices /\ Len(newWork[nextDev[s]]) = NewWorkCap

\* NewMiner comes to an end while the node lives, whatever notifications
\* arrive before the devices run.  The one thing that can stop it for good is
\* more of them than a queue has room for, since nobody empties it yet.
StartupEnds == <>(Running \/ Over \/ ~nodeUp \/ []StartStuck)

-----------------------------------------------------------------------------
(***************************************************************************)
(* What comments and documents of the repository say and the code does not *)
(* guarantee; each is the subject of a run that ends in a counterexample.  *)
(***************************************************************************)

\* currentWork is the newest work handed to the devices (miner.go, the
\* comment on workMtx).
CurrentWorkIsNewest ==
    \A d \in Devices :
        /\ work[d] <= currentWork
        /\ \A i \in 1..Len(newWork[d]) : newWork[d][i] <= currentWork

\* Polls that keep failing until the run is given up mean an unhealthy node
\* (miner.go, the comment on expiryThread), stated for a node that answers
\* everything in time.
PollsFailOnlyWhenNodeDown == failures >= MaxFailures => ~nodeUp

\* A found block is submitted immediately (README.md), stated for a run that
\* goes on with a live node and with devices that work.
BlocksGoToNode ==
    []<>(workDone = 0 \/ cancelled \/ ~nodeUp \/ SomeDeviceDead \/ Over)

\* An interrupt stops the miner (README.md).
InterruptEndsRun == interrupted ~> Over

\* When the node dies monvark exits (the design document).
NodeExitEnds == ~nodeUp ~> Over
=============================================================================
