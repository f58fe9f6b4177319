----------------------------- MODULE Lifecycle -----------------------------
(***************************************************************************)
(* The life of the monvark process around the mining run: monvarkMain of   *)
(* main.go with the steps it takes in order (config.go, devices.go,        *)
(* payout.go, node.go), the signals that interrupt it, the node process it *)
(* starts and stops, and what a run leaves behind for the next one: the    *)
(* answers saved in monvark.conf, the node's certificate and a node that   *)
(* has not finished.  The mining run is what module RunContract promises   *)
(* of it.  The permissions of the files and what mond.conf contains can    *)
(* change at any time; a check of them passes or fails as it likes.        *)
(***************************************************************************)
EXTENDS FiniteSets, Integers

CONSTANTS
    MaxDevices,     \* how many OpenCL devices the machine can have
    DeviceFlags,    \* lists a user may give with --devices, which may be empty
    Addr,           \* what a user may give for a payout address
    Valid,          \* the addresses among it that validatePayout lets pass
    NoAddress,      \* the empty string
    Windows,        \* runtime.GOOS is "windows"
    MaxRuns         \* bound: how many times the program is started

ASSUME DevicesAssumption ==
    MaxDevices \in Nat /\ DeviceFlags \subseteq SUBSET (0..MaxDevices)
ASSUME AddressAssumption == Valid \subseteq Addr /\ NoAddress \notin Addr
ASSUME WindowsAssumption == Windows \in BOOLEAN
ASSUME RunsAssumption == MaxRuns \in Nat \ {0}

VARIABLES
    pc,             \* the call monvarkMain is in
    sig,            \* signals: "none", "first" (main's context is done) or
                    \* "restored" (default handling is back as well)
    err,            \* monvarkMain's err is not nil
    exit,           \* how the process ended: "none", "zero", "one", "killed"
                    \* or "profiler" (exited by the profiling server)
    fault,          \* history: Run returned an error before any signal
    node,           \* this run's node: "none", "starting", "up", "stopping",
                    \* "gone" (ended) or "reaped" (n.exited is closed)
    refused,        \* history: the stop RPC failed although the node is alive
    late,           \* connect has tried for five minutes
    interactive,    \* stdin and stdout are a terminal in this run
    listed,         \* the devices of the machine, numbered as -l lists them
    choice,         \* cfg.DeviceIDs; empty means every device
    blank,          \* history: --devices was given without a list
    fileMiningAddr, \* cfg.fileMiningAddr: what the file had for miningaddr
    miningAddr,     \* cfg.MiningAddr: the same, overridden by the command line
    edited,         \* history: the file's miningaddr has been edited since
    answered,       \* the device question was answered in this run
    devices,        \* the devices newMinerDevs built
    payee,          \* the address the node is started with
    savedDevices,   \* the devices line of monvark.conf, empty when absent
    savedPayout,    \* its miningaddr line
    cert,           \* the node has written its certificate
    built,          \* history: devices that have been built in some run
    leftover,       \* a node of an earlier run is still running
    runs            \* how often the program has been started

procVars  == <<pc, sig, err, exit, fault>>
nodeVars  == <<node, refused, late>>
addrVars  == <<fileMiningAddr, miningAddr, edited>>
devVars   == <<interactive, listed, choice, blank, answered, devices, payee>>
answerVars == <<savedDevices, savedPayout>>
diskVars  == <<answerVars, cert, built, leftover, runs>>
vars == <<procVars, nodeVars, addrVars, devVars, diskVars>>

\* Indexes a user may name; the last one never exists.
Ids == 0..MaxDevices
Machines == {0..(n - 1) : n \in 0..MaxDevices}

Connecting == {"connect", "connectRpc", "connectWait"}
Starting == {"resolveDevices", "promptDevices", "newMinerDevs", "saveDeviceChoice",
             "resolvePayout", "promptPayout", "nodeStart"}
Steps == Starting \cup Connecting \cup
         {"loadConfig", "WaitSynced", "syncWait", "NewMiner", "Run", "Stop",
          "StopWait", "return"}

ProcTypes ==
    /\ pc \in Steps \cup {"off"}
    /\ sig \in {"none", "first", "restored"}
    /\ err \in BOOLEAN
    /\ exit \in {"none", "zero", "one", "killed", "profiler"}
    /\ fault \in BOOLEAN
NodeTypes ==
    /\ node \in {"none", "starting", "up", "stopping", "gone", "reaped"}
    /\ refused \in BOOLEAN
    /\ late \in BOOLEAN
AddrTypes ==
    /\ fileMiningAddr \in Addr \cup {NoAddress}
    /\ miningAddr \in Addr \cup {NoAddress}
    /\ edited \in BOOLEAN
DevTypes ==
    /\ interactive \in BOOLEAN
    /\ listed \in Machines
    /\ choice \subseteq Ids
    /\ blank \in BOOLEAN
    /\ answered \in BOOLEAN
    /\ devices \subseteq listed
    /\ payee \in Addr \cup {NoAddress}
DiskTypes ==
    /\ savedDevices \subseteq Ids
    /\ savedPayout \in Addr \cup {NoAddress}
    /\ cert \in BOOLEAN
    /\ built \subseteq Ids
    /\ leftover \in BOOLEAN
    /\ runs \in 0..MaxRuns

\* The types, among them that a device is only mined with when it is listed.
TypeOK == ProcTypes /\ NodeTypes /\ AddrTypes /\ DevTypes /\ DiskTypes

\* A hand-written monvark.conf may have an address already.
Init ==
    /\ pc = "off" /\ sig = "none" /\ err = FALSE /\ exit = "none" /\ fault = FALSE
    /\ node = "none" /\ refused = FALSE /\ late = FALSE
    /\ fileMiningAddr = NoAddress /\ miningAddr = NoAddress /\ edited = FALSE
    /\ interactive = FALSE /\ listed = {} /\ choice = {} /\ blank = FALSE
    /\ answered = FALSE /\ devices = {} /\ payee = NoAddress
    /\ savedDevices = {} /\ savedPayout \in Addr \cup {NoAddress}
    /\ cert = FALSE /\ built = {} /\ leftover = FALSE /\ runs = 0

Interrupted == sig # "none"
NodeAlive == node \in {"starting", "up", "stopping"}

\* The call at p returns nil and main goes on to q, or returns an error and
\* main to its deferred functions.
Goto(p, q) == pc = p /\ pc' = q /\ UNCHANGED <<sig, err, exit, fault>>
Fail(p, q) == pc = p /\ pc' = q /\ err' = TRUE /\ UNCHANGED <<sig, exit, fault>>

\* The process is no more, nor is what it had in memory.
Exit(how) ==
    /\ pc' = "off" /\ exit' = how
    /\ late' = FALSE
    /\ fileMiningAddr' = NoAddress /\ miningAddr' = NoAddress
    /\ interactive' = FALSE /\ listed' = {} /\ choice' = {} /\ blank' = FALSE
    /\ answered' = FALSE /\ devices' = {}
    /\ UNCHANGED <<sig, err, fault, node, refused, edited, payee, diskVars>>
-----------------------------------------------------------------------------
(***************************************************************************)
(* Starting up.                                                            *)
(***************************************************************************)
\* A run of whatever machine and terminal there are now.
Launch ==
    /\ pc = "off"
    /\ runs < MaxRuns
    /\ runs' = runs + 1
    /\ pc' = "loadConfig" /\ sig' = "none" /\ err' = FALSE /\ exit' = "none" /\ fault' = FALSE
    /\ leftover' = (leftover \/ NodeAlive)
    /\ node' = "none" /\ refused' = FALSE /\ late' = FALSE
    /\ fileMiningAddr' = NoAddress /\ miningAddr' = NoAddress /\ edited' = FALSE
    /\ interactive' \in BOOLEAN /\ listed' \in Machines
    /\ choice' = {} /\ blank' = FALSE /\ answered' = FALSE /\ devices' = {}
    /\ payee' = NoAddress
    /\ UNCHANGED <<answerVars, cert, built>>

\* Variant: the devices line of the config file is not read back.
SavedChoiceIgnored == {}

\* The device choice of the config file.
ConfiguredDevices == savedDevices

\* The command line is parsed after the file and overrides it, also with an option
\* that is there and empty; any index and any address passes.
loadConfig ==
    /\ Goto("loadConfig", "resolveDevices")
    /\ \/ choice' = ConfiguredDevices /\ blank' = FALSE
       \/ choice' \in DeviceFlags /\ blank' = (choice' = {})
    /\ fileMiningAddr' = savedPayout
    /\ miningAddr' \in {savedPayout, NoAddress} \cup Addr
    /\ edited' = FALSE
    /\ UNCHANGED <<nodeVars, interactive, listed, answered, devices, payee, diskVars>>

\* A run it refuses ends before signals are handled.
Refused == pc = "loadConfig" /\ Exit("one")

\* It asks only where there is a choice, somebody to ask and no answer yet, and
\* where checkPerms lets the answer be written later.
resolveDevices ==
    /\ \/ /\ choice # {} \/ ~interactive \/ Cardinality(listed) < 2
          /\ Goto("resolveDevices", "newMinerDevs")
       \/ /\ choice = {} /\ interactive /\ Cardinality(listed) >= 2
          /\ Goto("resolveDevices", "promptDevices")
       \/ choice = {} /\ Fail("resolveDevices", "return")
    /\ UNCHANGED <<nodeVars, addrVars, devVars, diskVars>>

\* Variant: the answer is saved as soon as it is given.
PromptSavesAtOnce ==
    /\ Goto("promptDevices", "newMinerDevs")
    /\ choice' \in (SUBSET listed) \ {{}}
    /\ savedDevices' = choice'
    /\ answered' = TRUE
    /\ UNCHANGED <<nodeVars, addrVars, interactive, listed, blank, devices, payee,
                   savedPayout, cert, built, leftover, runs>>

\* The prompts read stdin and do not watch the context; an answer that is empty
\* or names a device that is not listed is an error.
promptDevices ==
    /\ \/ /\ Goto("promptDevices", "newMinerDevs")
          /\ choice' \in (SUBSET listed) \ {{}}
          /\ answered' = TRUE
       \/ /\ Fail("promptDevices", "return")
          /\ UNCHANGED <<choice, answered>>
    /\ UNCHANGED <<nodeVars, addrVars, interactive, listed, blank, devices, payee,
                   diskVars>>

\* Variant: devices counted from one.
ChosenFromOne == IF choice = {} THEN 1..Cardinality(listed) ELSE choice \cap listed

\* The devices newMinerDevs constructs; an index that is not listed is passed over.
Chosen == IF choice = {} THEN listed ELSE choice \cap listed

\* One device that cannot be built fails all of them; none is an error as well.
newMinerDevs ==
    /\ \/ /\ Goto("newMinerDevs", "saveDeviceChoice")
          /\ Chosen # {}
          /\ devices' = Chosen
          /\ built' = built \cup Chosen
       \/ /\ Fail("newMinerDevs", "return")
          /\ UNCHANGED <<devices, built>>
    /\ UNCHANGED <<nodeVars, addrVars, interactive, listed, choice, blank, answered,
                   payee, answerVars, cert, leftover, runs>>

\* The answer is saved, and an interrupt during the compile is noticed.
\* Benchmark mode goes on without an address and without a node.
saveDeviceChoice ==
    /\ \/ /\ IF Interrupted
               THEN Goto("saveDeviceChoice", "return")
               ELSE \E next \in {"resolvePayout", "NewMiner"} : Goto("saveDeviceChoice", next)
          /\ savedDevices' = IF answered THEN devices ELSE savedDevices
       \/ /\ answered
          /\ Fail("saveDeviceChoice", "return")
          /\ UNCHANGED savedDevices
    /\ UNCHANGED <<nodeVars, addrVars, devVars, savedPayout, cert, built, leftover, runs>>
-----------------------------------------------------------------------------
(***************************************************************************)
(* The payout address, from what loadConfig has read.                      *)
(***************************************************************************)
\* Variant: the command line wins.
FlagWins == FALSE

\* The two sources disagree.
Disagrees ==
    /\ NoAddress \notin {miningAddr, fileMiningAddr}
    /\ miningAddr # fileMiningAddr

\* checkPerms, payoutAddress and validatePayout.  An option that is there and
\* empty has the user asked, whatever the file says.
resolvePayout ==
    /\ \/ /\ miningAddr \in Valid
          /\ ~Disagrees
          /\ payee' = miningAddr
          /\ Goto("resolvePayout", "nodeStart")
       \/ /\ miningAddr = NoAddress
          /\ interactive
          /\ Goto("resolvePayout", "promptPayout")
          /\ UNCHANGED payee
       \/ Fail("resolvePayout", "return") /\ UNCHANGED payee
    /\ UNCHANGED <<nodeVars, addrVars, interactive, listed, choice, blank, answered,
                   devices, diskVars>>

\* The answer is validated before it is written.
promptPayout ==
    /\ \/ \E addr \in Valid :
             /\ Goto("promptPayout", "nodeStart")
             /\ savedPayout' = addr
             /\ payee' = addr
       \/ Fail("promptPayout", "return") /\ UNCHANGED <<savedPayout, payee>>
    /\ UNCHANGED <<nodeVars, addrVars, interactive, listed, choice, blank, answered,
                   devices, savedDevices, cert, built, leftover, runs>>
-----------------------------------------------------------------------------
(***************************************************************************)
(* The node.  nodeStart and connect hand it over with an RPC client;       *)
(* WaitSynced, NewMiner and Run then depend on it.  main's deferred        *)
(* node.Stop runs from the moment nodeStart has succeeded.                 *)
(***************************************************************************)
\* An existing mond.conf is checked and then written anew.
nodeStart ==
    /\ \/ Goto("nodeStart", "connect") /\ node' = "starting"
       \/ Fail("nodeStart", "return") /\ UNCHANGED node
    /\ UNCHANGED <<refused, late, addrVars, devVars, diskVars>>

\* Variant: only the context of main is relied on to reach the node.
AskNobody == node' = node

\* Without a client nodeStart itself stops the node, by a signal where that
\* exists.
AskBySignal ==
    node' = (IF Windows \/ ~NodeAlive THEN node ELSE "stopping")

\* Variant: attempts are not limited.
NoDeadline == FALSE

DeadlinePassed == late

\* One attempt: the client needs the certificate, which a first run has yet to
\* generate.
connect ==
    /\ \/ /\ DeadlinePassed \/ node = "reaped"
          /\ Fail("connect", "StopWait")
          /\ AskBySignal
       \/ /\ ~DeadlinePassed /\ node # "reaped"
          /\ Goto("connect", IF cert THEN "connectRpc" ELSE "connectWait")
          /\ UNCHANGED node
    /\ UNCHANGED <<refused, late, addrVars, devVars, diskVars>>

\* The call is bounded by the context alone, not by the deadline.
connectRpc ==
    /\ \/ node = "up" /\ ~Interrupted /\ Goto("connectRpc", "WaitSynced")
       \/ Goto("connectRpc", "connectWait")
    /\ UNCHANGED <<nodeVars, addrVars, devVars, diskVars>>

connectWait ==
    /\ \/ /\ ~Interrupted
          /\ Goto("connectWait", "connect")
          /\ UNCHANGED node
       \/ /\ Interrupted
          /\ Fail("connectWait", "StopWait")
          /\ AskBySignal
    /\ UNCHANGED <<refused, late, addrVars, devVars, diskVars>>

\* The node says whether it is still in its initial block download.  The RPC fails
\* when the context is done or the node is no longer there.
WaitSynced ==
    /\ \/ /\ ~Interrupted /\ node = "up"
          /\ \E next \in {"NewMiner", "syncWait"} : Goto("WaitSynced", next)
       \/ Fail("WaitSynced", "Stop")
    /\ UNCHANGED <<nodeVars, addrVars, devVars, diskVars>>

syncWait ==
    /\ \/ ~Interrupted /\ Goto("syncWait", "WaitSynced")
       \/ Interrupted /\ Fail("syncWait", "Stop")
    /\ UNCHANGED <<nodeVars, addrVars, devVars, diskVars>>

\* The node is nil.
Benchmark == node = "none"

\* Its connection is refused, its getwork fails or, as long as the node is
\* gone, is held open (module Miner).
NewMiner ==
    /\ \/ /\ Benchmark \/ node = "up"
          /\ Goto("NewMiner", "Run")
       \/ ~Benchmark /\ Fail("NewMiner", "Stop")
    /\ UNCHANGED <<nodeVars, addrVars, devVars, diskVars>>

\* What RunContract promises: nil after an interrupt, otherwise an error, for
\* the death of the node or another fault.  No thread of a benchmark run
\* reports one.
Run ==
    /\ pc = "Run"
    /\ IF Benchmark
         THEN Interrupted /\ pc' = "return" /\ UNCHANGED <<err, fault>>
         ELSE /\ pc' = "Stop"
              /\ err' \in IF Interrupted THEN BOOLEAN ELSE {TRUE}
              /\ fault' = ~Interrupted
    /\ UNCHANGED <<sig, exit, nodeVars, addrVars, devVars, diskVars>>

\* node.Stop with a client: the stop RPC, which fails when the node is gone or
\* does not answer within five seconds.
AskByRpc ==
    /\ pc = "Stop"
    /\ pc' = "StopWait"
    /\ \/ NodeAlive /\ node' = "stopping" /\ refused' = refused
       \/ node' = node /\ refused' = NodeAlive
    /\ UNCHANGED <<sig, err, exit, fault, late, addrVars, devVars, diskVars>>

\* Variant: the wait for the node has no bound.
WaitForever == pc = "StopWait" /\ node = "reaped"

\* The wait ends with the node or after 30 (without a client 5) seconds.
WaitEnds == pc = "StopWait"

StopWait ==
    /\ WaitEnds
    /\ pc' = "return"
    /\ UNCHANGED <<sig, err, exit, fault, nodeVars, addrVars, devVars, diskVars>>

\* Variant: main's deferred function does not look at the context.
ErrOnly == err

\* monvarkMain's err after its first deferred function: an interrupt clears it.
FinalErr == err /\ ~Interrupted

Return ==
    /\ pc = "return"
    /\ Exit(IF FinalErr THEN "one" ELSE "zero")
-----------------------------------------------------------------------------
(***************************************************************************)
(* Signals and the node's own life.  A Ctrl+C on the terminal reaches the  *)
(* node as well, which shares monvark's process group; SIGTERM does not.   *)
(***************************************************************************)
\* loadConfig is over before signals are handled.
FirstSignal ==
    /\ pc \notin {"off", "loadConfig"}
    /\ sig = "none"
    /\ sig' = "first"
    /\ node' \in {node} \cup (IF NodeAlive THEN {"stopping"} ELSE {})
    /\ UNCHANGED <<pc, err, exit, fault, refused, late, addrVars, devVars, diskVars>>

\* The goroutine of monvarkMain gives the signals their default effect back.
RestoreSignals ==
    /\ pc # "off"
    /\ sig = "first"
    /\ sig' = "restored"
    /\ UNCHANGED <<pc, err, exit, fault, nodeVars, addrVars, devVars, diskVars>>

\* A signal that nothing handles.
Killed ==
    /\ \/ pc = "loadConfig"
       \/ pc # "off" /\ sig = "restored"
    /\ Exit("killed")

\* A profiling server that cannot listen exits the process from its goroutine.
ProfilerExits ==
    /\ pc \notin {"off", "loadConfig"}
    /\ Exit("profiler")

\* The node writes its certificate, comes up and exits.
NodeStep ==
    /\ \/ node = "starting" /\ cert' = TRUE /\ UNCHANGED node
       \/ node = "starting" /\ cert /\ node' = "up" /\ UNCHANGED cert
       \/ NodeAlive /\ node' = "gone" /\ UNCHANGED cert
       \/ node = "gone" /\ pc # "off" /\ node' = "reaped" /\ UNCHANGED cert
    /\ UNCHANGED <<procVars, refused, late, addrVars, devVars, answerVars, built, leftover,
                   runs>>

\* A node left by an earlier run finishes; the five minutes of connect pass.
Elsewhere ==
    /\ \/ leftover /\ leftover' = FALSE /\ UNCHANGED late
       \/ pc \in Connecting /\ late' = TRUE /\ UNCHANGED leftover
    /\ UNCHANGED <<procVars, node, refused, addrVars, devVars, answerVars, cert, built, runs>>

\* The user edits the miningaddr line of monvark.conf.  Only loadConfig reads it
\* and only promptPayout adds to it, so an edit made between these two counts when
\* the question is open, any other one before the next start.
EditPayout ==
    /\ pc \in {"off", "promptPayout"}
    /\ savedPayout' \in Addr \cup {NoAddress}
    /\ edited' = TRUE
    /\ UNCHANGED <<procVars, nodeVars, fileMiningAddr, miningAddr, devVars, savedDevices,
                   cert, built, leftover, runs>>

\* Every call of monvarkMain that ends without the user's answer.
MainStep ==
    \/ loadConfig \/ Refused \/ resolveDevices \/ newMinerDevs \/ saveDeviceChoice \/ resolvePayout
    \/ nodeStart \/ connect \/ connectRpc \/ connectWait \/ WaitSynced \/ syncWait
    \/ NewMiner \/ AskByRpc \/ StopWait \/ Return

Prompt == promptDevices \/ promptPayout

Next ==
    \/ Launch
    \/ MainStep
    \/ Run
    \/ Prompt
    \/ FirstSignal \/ RestoreSignals \/ Killed \/ ProfilerExits
    \/ NodeStep
    \/ Elsewhere
    \/ EditPayout

Spec == Init /\ [][Next]_vars

\* Nothing is assumed of the user, of signals, of the node or of the mining
\* run.  Once the context is done every other call of monvarkMain returns: those
\* that take the context because of it, the rest because they are local or have
\* a deadline.  Without an interrupt only the steps between connect's calls to
\* the node are sure to end.
FairSpec ==
    /\ Spec
    /\ WF_vars(Interrupted /\ MainStep)
    /\ WF_vars(connect)
    /\ WF_vars(connectWait)
-----------------------------------------------------------------------------
(***************************************************************************)
(* Properties.                                                             *)
(***************************************************************************)
\* The exit code says whether the process was interrupted: zero after a
\* signal, wherever in the start, the run or the shutdown it arrived, and one
\* for everything else, since mining never ends by itself.
ExitCodeTellsInterrupt ==
    /\ exit = "zero" => Interrupted
    /\ exit = "one" => ~Interrupted

\* When monvarkMain returns, from whichever call, the node it started is gone
\* or has been asked to stop, unless the stop RPC itself failed.  On Windows,
\* where connect's failure leaves no way to ask, it does not hold.
NodeStoppedOnReturn ==
    exit \in {"zero", "one"} /\ NodeAlive => node = "stopping" \/ refused

\* A device choice in the config file has been built successfully at least
\* once, so a saved answer cannot be the reason every later run fails.
SavedDevicesWereBuilt == savedDevices \subseteq built

\* The node is only ever started for a valid address, and for the one the config
\* file has: the one it had when it was read, unless the user blanked it on the
\* command line, and the one it has now, unless somebody edited it in between.
NodePaysSavedAddress ==
    node # "none" =>
        /\ payee \in Valid
        /\ fileMiningAddr \in {NoAddress, payee} \/ miningAddr = NoAddress
        /\ savedPayout \in {NoAddress, payee} \/ edited

\* monvark replaces a saved answer only where the command line blanks the option,
\* or where the user edits the file while the question is open.
SavedAnswersStay ==
    [][pc' # pc =>
        /\ savedDevices \notin {{}, savedDevices'} => blank
        /\ savedPayout \notin {NoAddress, savedPayout'} =>
              miningAddr = NoAddress /\ (fileMiningAddr # NoAddress \/ edited)]_vars

\* A signal ends the process, whatever call it finds main in: what may still
\* hold it up are a prompt that waits for its answer and the mining run, whose
\* end module Miner is about.
InterruptExits ==
    Interrupted ~> (exit # "none" \/ pc \in {"promptDevices", "promptPayout", "Run"})

\* Once its five minutes are over connect ends, unless a call to the node never
\* returns: the deadline is looked at between the calls only.
DeadlineEnds ==
    late ~> (pc \notin Connecting \/ [](pc = "connectRpc"))

\* A fault found while mining is not masked: it surfaces in the exit code
\* (main.go, the comment on the deferred function).
FaultExitsOne == fault => exit # "zero"
=============================================================================
