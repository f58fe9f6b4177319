# monvark: a TLA+ model of the GPU miner

monvark mines one block chain with the OpenCL devices of one machine. It asks
two questions on its first run, starts its own node (`mond`), waits until the
node has synced, takes work from it, searches nonces on the devices and submits
what it finds. This directory holds a specification of that program in TLA+,
the TLC configurations that check it on small instances, and proofs, checked by
TLAPS, of what holds on every instance.

All paths in this file are relative to `src/`.

## Inventory

| Component | Source | State it keeps | Operations |
|---|---|---|---|
| Mining run | `miner.go` | `currentWork`, `fatal`, share counters, `payeeChecked`, two contexts, the wait group | `NewMiner`, `Run`, `onSoloWork`, `workSubmitThread`, `expiryThread`, `nodeWatchThread`, `printStatsThread` |
| Device loop | `device.go`, `device_opencl.go` | per device: `newWork` queue (5), `work`, `hasWork`, nonces, `allDiffOneShares` under the device lock | `runDevice`, `updateCurrentWork`, `foundCandidate`, `SetWork`, `Status` |
| Process lifecycle | `main.go` | main's context, `err`, the deferred functions | `monvarkMain`, signal handling, the profiling server |
| Node process | `node.go` | the child process, `exited`, an RPC client, `mond.conf` | `nodeStart`, `connect`, `WaitSynced`, `Stop` |
| First-run questions | `devices.go`, `payout.go` | `monvark.conf` | `resolveDevices`, `saveDeviceChoice`, `resolvePayout`, `checkPerms` |
| Configuration | `config.go` | `cfg` | `loadConfig` |
| Node connection | `rpcclient` (external) | one connection, one reader goroutine | RPCs, the `OnWork` notification |
| Work size calibration | `calibrate.go` | none | `calcWorkSizeForMilliseconds` |
| Hashing | `blake3/`, `blake3.cl` | the kernel's output buffer | `Block`, `FinalBlock`, the kernel |
| Helpers | `work/`, `util/`, `cl/`, `monitor.go`, `log.go`, `version.go` | none | |

How they interact. `monvarkMain` calls the rest in order and returns through its
deferred functions. The devices and the miner share two kinds of Go channels:
`newWork`, one queue per device, filled by `onSoloWork` and emptied by the
device, and `workDone`, one queue for all, filled by the devices and emptied by
`workSubmitThread`. `onSoloWork` has three callers on three goroutines: `NewMiner`
with the first getwork, rpcclient's reader with each pushed work, `expiryThread`
with the result of a poll. There are two contexts: main's, ended by a signal,
and the run's, derived from it and also ended by a goroutine that finds a fault
(after it has set `fatal`).

What is hard here:

* three publishers of work, whose feeds of the devices can interleave, and a
  poll whose answer is published some time after it was read;
* bounded queues between goroutines that end at different times: a device that
  has failed never empties its queue again, and `workSubmitThread` stops before
  the devices do;
* a notification handler that runs on the goroutine that reads the connection,
  so a handler that waits stops every RPC reply;
* RPCs that a dead node neither answers nor fails;
* a shutdown that any of four goroutines, a signal or the node can begin while
  the others are in an RPC, a full queue, a wait or a kernel launch;
* signals during start and shutdown, with the exit code decided by the context;
* what one run leaves for the next: saved answers and a node that still runs; and
  a config file read at the start, edited by anybody and appended to much later;
* goroutines that wait for one another: a device for room in `workDone`, the thread
  that empties it for a reply, the reader of replies for room in that device's
  queue;
* work items of a kernel that increment a common counter without an atomic
  operation, in a buffer of which only the counter is cleared;
* arithmetic in words: nonces that roll over beside a device's own byte, work
  sizes converted to 32 bits, a hash written out by hand twice.

What makes each component correct:

* Mining run: finished feeds leave every device with the current work; no found
  block is lost or counted twice; a fault always surfaces as an error; every
  goroutine ends when the run is to end; the start ends.
* Device loop: new work is taken up, found blocks are handed over, the loop ends
  when the run does; devices search different headers; what the host assesses
  are solutions of this launch, each once.
* Calibration and settings: a device gets a work size OpenCL can launch, of about
  the duration asked for, and idles as its duty cycle says.
* Hashing: host and kernel compute the same hash, BLAKE3.
* Lifecycle and node: the exit code says whether the process was interrupted, a
  node that was started is asked to stop on every way out, a signal is noticed
  by every call.
* Questions and answers: a saved answer is one that has worked, and it stays unless
  the user blanks or edits it; the node pays no other address.

`PROJECT.json` lists the hazards one by one, at their lines, with the properties
that cover them.

## Modules

| Module | What it is |
|---|---|
| `Miner` | The mining run, the device loops and the connection to the node, with the properties |
| `RunContract` | What the mining run promises to `monvarkMain`: the abstract specification `Miner` implements |
| `MinerProofs` | Theorems about `Miner`, with their proofs |
| `Lifecycle` | The process around the mining run, over several starts of the program |
| `LifecycleProofs` | Theorems about `Lifecycle` |
| `Tuning` | Settings, calibration and duty cycle of a device, as functions |
| `TuningProofs` | Theorems about `Tuning`, and lemmas about powers, quotients and least elements |
| `Device` | The devices from their construction on, with their nonces, launches and candidates (extends `Tuning`) |
| `LaunchContract` | What launches promise: the abstract specification `Device` implements |
| `DeviceProofs` | Theorems about `Device` |
| `Blake3` | The host's hash and the kernel's, on 32-bit words, and the definition of both |
| `Blake3Proofs` | Theorems about `Blake3` |
| `Calculations` | The properties of `Tuning` and `Blake3`, stated of any input |
| `CalculationsProofs` | Those properties as theorems |
| `MCMiner`, `MCLifecycle`, `MCDevice` | The values TLC uses; `MCDevice` puts `Device` and `Calculations` together |

`RunContract` is what ties `Miner` to `Lifecycle`: the one implements it, the other
takes `Run` from it. `Device` refines one spot of `Miner`, the outcome of a launch:
`Miner` says how many candidates are found and where they go, `Device` which
ones, and why. `LaunchContract` is what lies between the two: a launch ends with
some of its solutions, each to be assessed once, and what `Miner` counts in `left`
are those of them that are below the block's target.

### Miner

Every goroutine is a set of actions, and a variable says where it is:

* `dpc[d]` for `runDevice` of device `d`: `"init"` (`initNonces`), `"update"`
  (`updateCurrentWork` and the check of the context after it), `"launch"` (one
  kernel), `"found"` and `"send"` (a candidate below the target before and after
  it has the device lock; in `"send"` the device waits at `d.workDone <- data`),
  `"idle"` (the duty cycle's wait), `"done"`;
* `spc` for `workSubmitThread`: `"select"`, `"submit"` (in `GetWorkSubmit`), `"payee"`
  (in `GetBlockVerbose`), `"done"`;
* `epc` for `expiryThread`: `"tick"`, `"poll"` (in `GetWork`), `"done"`; it is inside
  `onSoloWork` while `job["expiry"]` is not 0;
* `watching` for `nodeWatchThread`, `stats` for `printStatsThread` (the device whose
  lock it takes next, 0 in its select);
* `phase` for main's goroutine: in one of the three calls of `newSoloMiner` (`New`,
  `NotifyWork`, `NotifyBlocks`), in the first `GetWork`, in its feed, in `wg.Wait`, or
  back in `monvarkMain`.

`onSoloWork` is two actions because the mutex is released between them:
`PublishWork` sets `currentWork`, `SetWork` serves one device. `job[s]` is the work
a caller `s` is publishing and `nextDev[s]` the device it serves next. `SetWork` can
append or, when the caller's context is done, give up; nothing else lets it out
of a full queue. The context differs between the callers (`FeedCtxDone`): the
handler closes over main's context, `expiryThread` passes the run's.

Work is the number of the template the node built it from, so "newer" is "larger".
Solved headers are counted, not told apart. A kernel launch is the number of its
candidates that are below the target; candidates that are not only matter to
the statistics. The share counters and the account `sent` are unbounded in the
model's definition; `MaxSent` bounds what a run explores.

Time is the events it causes. `stale` says that the current work is older than
`workExpiry`: publishing resets it, `Age` sets it. A poll fails when it can run
into its deadline: the node gone or answering badly, or the reader blocked.

In `Miner` three history variables carry no behaviour: `sent` counts the blocks handed over,
`raced` records that two feeds have overlapped, and `lastRead`, the newest
template read from the connection, limits what a reply that has not been read yet
can still contain (messages arrive in the order they were sent; each reply of
`newSoloMiner` moves it on). A template built before `NotifyWork` has reached the
node is not announced (`Unsubscribed`).

The node and rpcclient are external and modelled from their use and the comments
about them: one reader goroutine; a handler that waits stops it; a request
pending when the node dies is held open (`miner.go:328-332`). Reconnecting to a
node that comes back is not modelled: nobody restarts the node.

`Spec` lets everything happen; `Events` chooses the outside events of a run.

### RunContract

The run as `monvarkMain` sees it: it starts or is refused, devices stop and stay
stopped, reasons to end accumulate, blocks are found only while a device hashes
and settled at most once, and the return needs a reason, needs every device to
have stopped, and carries an error exactly when there was a fault. `Miner` maps its
variables with `Stage`, `Verdict`, `Reasons` and `Hashing`.

### Lifecycle

`pc` is the call `monvarkMain` is in; each action is a call returning, with its
possible outcomes. `Goto` is a call that returns nil, `Fail` one that returns an
error and takes main to its deferred functions, `Exit` the end of the process,
which forgets what it had in memory. `Run` is what `RunContract` promises. A run
in which `node` stays `"none"` up to `NewMiner` is benchmark mode.

* Settings and answers. `loadConfig` takes the device choice and the address from
  the command line or, without an option there, from the file, whose own address
  it keeps besides (`fileMiningAddr`, `miningAddr`). An option that is there and empty
  (`--devices=`, `--miningaddr=`) blanks the file's: `blank` records it for the devices,
  an empty `miningAddr` does for the address. `resolveDevices`, `promptDevices`,
  `newMinerDevs` and `saveDeviceChoice` are the question and its answer, which is
  saved only after the devices are built. `resolvePayout` takes the address or has
  `promptPayout` ask, and compares with what `loadConfig` has read, not with the file.
  An address is a member of `Addr`, one that `validatePayout` lets pass a member of
  `Valid`. An append to `monvark.conf` that fails is taken to have written nothing;
  one that succeeds replaces an earlier line of the same option, since the last
  one counts. `EditPayout` is a user's edit of the address: only `loadConfig` reads
  the file and only `promptPayout` writes that line, so an edit between the two is
  looked at while the question is open, any other one between two starts.
* The node. `connect`, `connectRpc` and `connectWait` are the retry loop: the check of
  the deadline and of the node, the call, the pause. `late` says the five minutes
  are over. `WaitSynced` and `syncWait` are the sync gate, where the node's answer is
  an outcome of the call.
* Permissions and `mond.conf`. Both can change at any moment, also between a check
  and the write it is for, so that a check tells nothing of the file later: the
  calls that check (`resolveDevices`, `resolvePayout`, `nodeStart`) fail or not as they
  like.
* Stopping. `AskByRpc` is `Stop` with a client, `AskBySignal` without one, `StopWait` the
  bounded wait of both. A context that is done and a reply that arrives at the
  same time are two outcomes of the call; once the context is done no call that
  takes it succeeds, since a success that was on its way can be ordered before
  the signal.
* Signals. One may arrive at any time before the exit; the second one kills the
  process once the goroutine of `monvarkMain` has restored the default handling,
  and so does the first one during `loadConfig`, before signals are handled. A
  Ctrl+C reaches the node as well, since it shares the terminal's process group,
  and a SIGTERM does not, so `FirstSignal` may or may not stop the node.
  `ProfilerExits` is the `os.Exit` of the profiling server's goroutine.

`Launch` starts the program again, on a machine whose devices and terminal may have
changed: it keeps what is on disk (`savedDevices`, `savedPayout`, `cert`) and, as
`leftover`, a node that has not finished. Five history variables, `fault`, `refused`,
`built`, `blank` and `edited`, record a fault before any signal, a failed stop RPC,
the devices that were ever built, an option given empty and an edit of the file,
for the properties.

### Tuning and Device

`Tuning` holds functions: which values `loadConfig` accepts, which one applies to a
device, the work size that comes of it, the idle time. The width of a word is
the constant `Word`, so that conversions wrap in small instances where `uint32`
does in the code. `calcWorkSizeForMilliseconds` scales the size at which the
doubling stops, `FirstLongEnough`, the smallest one that takes the target time or
is the cap, given the time each would take. Floating point is taken as exact: the
code's `float64` has 53 bits for products of a 30-bit size and a duration.

`Device` has one action per step of a device: `NewDevice`, `initNonces`,
`updateCurrentWork`, `Launch` (rollover, clock, arguments, cleared count), the steps of
the work items, `ReadOutput`, `foundCandidate` for each candidate, `NextTurn`. `pc[d]`
says where a device is. Headers are records of the fields a device writes, and
which nonces solve a header is chosen when it is launched; so the hash itself
is abstract here, and `Blake3` is about it.

`output[++output[0]] = m3` is three steps of a work item: `ReadCount`, `StoreCount`,
`WriteNonce`. The slot is the value the item stored, which compilers keep in a
register. The buffer is `volatile` and not atomic, so any interleaving of these
steps is possible. `buffer` starts with what calibration left (`Garbage`), and only
`count` is cleared by a launch. A slot past the end is memory the host never
reads; it reads `Slots` of them.

`foundCandidate` rebuilds a header from `work` and the words of `lastBlock`
(`CandidateHeader`); the host agrees with the kernel when that is the header
launched and the nonce one of its solutions. `AboveLimit` stands for solutions
that end in a zero word and still miss `PowLimit`.

`Contract` maps a device to `LaunchContract`: `Stage` joins the steps that are not
about a launch (`"waiting"`) and those of the work items (`"searching"`); `Pending`
are the words of the buffer the host still has to assess; `winners` are the
solutions and `shares` what is credited. In the contract there are no items, no
count and no buffer: `Report` picks a set of solutions, `Assess` takes one out.

In `Device` the history variables are `winners`, `filled`, `hashed`, `launches` and `solved`.
`TypeOK` says nothing of `workSize`; `WorkSizeUsable` does.

### Blake3

A word is a pair of 16-bit halves, since TLC's integers have 32 bits with sign.
`Xor` goes through the bits of two numbers: a sum is odd where they differ.
`Schedule` is the order of message words as written out in `compress`, round by
round; `KernelSchedule` the one of the kernel, with `No` where it adds nothing;
`setKernelArgs` the twelve words a device hands over. An addition the kernel
leaves out is one of `Zero` here, and the three versions share `g` and `Round`: what
is compared are the schedules, the states the rounds start from, the chaining of
the blocks, their lengths and flags, the padding and the order of the arguments.
`Compression` and `DefinedOrder` are the definition: seven rounds with the
permutation between them. `TestVector`, the published hash of the empty message,
shows that `g`, `Round` and the definition are BLAKE3's; TLC evaluates it in every
run of `MCDevice`.

### Calculations

What `Tuning` and `Blake3` compute has no state of its own. A behaviour of
`CalcSpec` is one `input`, a calibration, an idling or a header, and the four
properties say what comes of it.

## Checks

The capacities in the code are 5 (`newWork`), 10 (`workDone`) and 3 (`maxFailures`).
The passing runs use smaller ones, so that queues fill up and limits are reached
within few steps; every theorem below holds for any capacity. The runs that end
in a counterexample use the real ones, except `circularwait`, which needs two full
queues and more found blocks at the same time than TLC gets to with those.

| Run | Instance | What it shows |
|---|---|---|
| `feed` | 2 devices, queues of 1, templates 1..3, of which 2 before the start; lost pushes, ageing; fair | `DevicesAgree`, `FreshWorkReaches`, `StartupEnds` |
| `stop` | 1 throttled device, queues of 1, one template, 2 blocks, 2 failures; every event except a lost push; fair | `TypeOK`, `EveryBlockAccounted`, `CleanReturnMeansInterrupted`, `KeepsContract`, `StopEndsRun`, `NodeExitEndsRun` |
| `fresh` | 1 device, queues of 1, 3 templates, 3 blocks that one launch may find, 1 failure; ageing; fair | `FreshWorkReaches`, `BlocksAreSubmitted`, `DeadlockLasts` |
| `lifecycle` | machines of 0 to 2 devices that may fail to be built, a valid and an invalid address, options that are absent, given or empty, edits of the file, 2 starts with or without a terminal, not Windows; fair | exits and files: `TypeOK`, `ExitCodeTellsInterrupt`, `SavedDevicesWereBuilt`, `SavedAnswersStay`; the node: `NodeStoppedOnReturn`, `NodePaysSavedAddress`; ends: `InterruptExits`, `DeadlineEnds` |
| `device` | 2 devices, bytes of 2 values, 4 values of the extra nonce, 2 slots, nonces 0..2, 3 solutions, 2 pieces of work with 2 launches each; words of 4096 | search: `TypeOK`, `NoMismatch`, `CandidatesDistinct`, `SomeSolutionKept`, `SpacesDisjoint`, `RangeBeforeRepeat`; launches: `KeepsLaunchContract`; functions: `WorkSizeUsable`, `CalibrationHitsTarget`, `DutyCycleHeld`, `HostHashIsBlake3`, `KernelAgreesWithHost` |

Why the bounds are enough. Two devices are the least for two feeds to be at
different devices. Three templates give a first work, one that is pushed early and
one that is pushed or polled later; in `feed` the one early push, with the first
getwork, is already one more than the queue has room for, which is how a start can
hang. In `fresh` they fill the queue of a device that is in a send, block the reader
and leave one for expiryThread to be blocked with. Three blocks of one launch are
one being submitted, one queued and one in the send, the least for the circular
wait; one failure of a poll ends the run, so that the other way out of it is
short. One device is enough there: the wait involves one, and a feed that waits for
one device serves no other. In `stop` one template is enough: which work a device
has does not matter there, and a poll republishes the same one; two blocks in a
launch with room for one are what blocks a send, and two failures what a count
that is reset by a success needs. One device keeps its interleavings with five
goroutines, seven kinds of event and fairness within reach; its invariants and the
contract are theorems for any number of devices. Two starts are what a saved answer
and a leftover node need; two devices and a flag that names one that is not there
are what a wrong choice needs. Three solutions of one launch race for two slots,
so that the count passes the end of the buffer, and two launches, the second with
fewer solutions, leave stale slots. A byte of two values and a low part of two make
every rollover happen, and every carry that would be wrong.

In `device`, a run that calibrates its device has one device only (`CalibratesOne`):
what the calibration leaves behind, in the buffer and in the work size, concerns
one device, and two devices are there for what they share.

The properties of functions range over all inputs within the bounds of `MCDevice`:
each input is a state of its own in which no device is used (`input`). Durations
of 0..20 units with every duty cycle, costs of 1 to 3 units per item with and
without a fixed cost, and eight targets up to above what a word can hold go
through every branch of the calibration, its cap and its rounding. The words of
`Device` are small, those of `Blake3` have their real width; its inputs are four
headers with no word zero, the unused end of the last block included, on which
every wrong index of a message word or of an argument changes the result.

`CHECK_DEADLOCK FALSE` is said everywhere because these systems stop: a run returns,
the program is started a bounded number of times, and a device blocked in a send
can be the last thing that happens (see `fullqueue`).

Each property of a passing run has a mutant in `PROJECT.json`: a definition changed
as a plausible bug would change the code, under which TLC finds the property
violated. The changed forms stand before the definitions they replace and are
called variants there.

### Counterexamples

Seven runs check a statement of the repository and end in a counterexample.

* `newest` (`miner.go:56`, "currentWork, the newest work handed to the devices"):
  `expiryThread` reads a poll's answer; a push is read, published and handed out;
  then the poll's older work is published. Devices go back to the older template
  until the next push or poll.
* `deaddevice` (`miner.go:303`, "A GetWork that keeps failing means an unhealthy
  node"): one of two devices ends with an error; pushes fill its queue and the
  next one blocks the reader; the work ages, three polls time out, and the run is
  given up although the node answers. The property, about a count of failures that
  has reached its limit, is stated for runs without RPC errors. The circular wait
  below ends in the same way, without a failed device.
* `circularwait` (`README.md:203`, "A found block is still submitted immediately"; said
  of throttled devices, as of all): one launch finds more blocks than `workDone` has
  room for, so its device waits in the send (`device.go:196`); `workSubmitThread`
  waits in `GetWorkSubmit` (`miner.go:207`), which has no deadline, for a reply;
  the connection's reader waits in `OnWork` for room in that device's `newWork`
  (`device.go:203`). Nothing has failed, the node is up, and no block is submitted.
  When the work is old, `expiryThread` polls, its polls fail, and the run ends as if
  the node were unhealthy. If `expiryThread` is already waiting to feed the same
  device, nothing ends it (`FeedDeadlock`); `DeadlockIsFinal` proves that, for any
  capacities. Like `fullqueue` it takes a difficulty at which blocks come in numbers,
  where each one accepted also makes the node push new work.
* `fullqueue` (`README.md:97`, "Ctrl+C stops the miner and the node together"):
  one launch finds twelve blocks (the output buffer holds 63), the user
  interrupts, `workSubmitThread` ends, ten blocks fill the queue and the eleventh
  or twelfth send waits for ever. It takes a difficulty at which blocks come in
  numbers, as on a simulation network. A second signal ends the process.
* `nodedies` (design document, line 401, "When `mond` dies, `monvark` exits rather
  than continuing to hash"): the node dies while `NewMiner` waits for its first
  work, or for the reply to one of its two subscriptions before.
* `maskedfault` (`main.go:85`, "This does not mask a genuine fault"): the run ends
  with a fault, and the user presses Ctrl+C while `Stop` waits for the node.
* `calibration` (`README.md:194`, "monvark sizes the work to spend about this many
  milliseconds per kernel launch (default 500)"): the doubling stops at 2^30 items,
  and when a device needs more than 2^32 for the time, `adjMultiple256 * 256`
  (`calibrate.go:59`) wraps. The kernel's header lists cards of 14 Gh/s and more,
  for which the default asks for 7 * 10^9 items.

More things the models show have no run of their own. Devices whose indexes are
equal modulo 256 get the same byte twice, in `extraNonce2` and in the third nonce
word, since both are the index with an offset of the process: the "65536 devices"
of `device.go:112` are 256, and only the random extra nonces keep two such devices
apart. `SpacesDisjoint` is stated for the rest. A work size of -256 or of
2^32 + 256 is accepted, because the limits are checked after the conversion
(`config.go:284`); what is left is usable, which is what `WorkSizeUsable` says. And
`autocalibrate` has no limits: a target of zero or less gives an empty launch or a
negative number converted to a word, so the property asks for a positive one.

With `Windows = TRUE`,
`NodeStoppedOnReturn` fails: when the RPC server of the node does not come up, `Stop`
has no client and can ask nothing (`node.go:363-371` knows of it). The count
of failed polls is not reset by pushed work, so the third failure can end the run
just after a push was published.

An option that is given empty has its question asked again: with `--miningaddr=`
`payoutAddress` returns "" without a look at the file's address, and with `--devices=`
no device is chosen. The answer is appended behind the saved line and replaces it,
though `payout.go:19` says that an empty result means "neither source supplied one".
`SavedAnswersStay` and `NodePaysSavedAddress` say so in their exceptions.

More early pushes than a queue has room for hang the start for ever: `NewMiner` and
the handler both wait for devices that are not running yet. `StartupEnds` names it
(`StartStuck`), and run `feed` reaches it. With queues of 5 it takes five pushes
between the subscription and `Run`.

Two checks are made some calls before the write they are for: of the permissions
of `monvark.conf`, before the device question (`devices.go:97`), with the answer
written at `main.go:122`; and of `mond.conf` (`node.go:211`), written at `node.go:232`.
A change in between goes unnoticed, and edits of `mond.conf` other than those the
check looks for are overwritten by design (`node.go:81`). No property is stated of
either.

The exceptions of the liveness properties of `Miner` are named in them. `StopEndsRun`
and `NodeExitEndsRun` leave out what `fullqueue` shows (`SendStuck`);
`BlocksAreSubmitted` a dead device and what `circularwait` shows (`FeedDeadlock`);
`FreshWorkReaches` a dead device and an overlap of feeds, which the `FeedDeadlock`
always is. That the circular wait without `expiryThread` is no exception of theirs
is due to the failing polls, as the mutant `PollWaits` shows.

### Fairness

`Fairness` of `Miner` assumes that a goroutine that can take a step takes one (the
Go scheduler is preemptive), that a kernel launch returns, that a timed wait
ends, and that a live node answers. Nothing is assumed of signals, of the node's
death, of errors or of new templates. Of the environment one thing is assumed: time
passes, so that while the reader is blocked, and nothing can come in, the work
grows old (`Age`; a poll that publishes something makes it young again, and the
ticker of `expiryThread` comes round). Weak fairness is per goroutine, not per
action: which ready case of a select is taken stays open. Two goroutines need
more: `expiryThread` and `printStatsThread` sit in a select on the context and a
ticker, and when both are ready Go chooses at random, so the done context is taken
eventually (`SF_vars` on `ExpiryStop` and `StatsStop`). The same holds of
`workSubmitThread`, but needs no assumption: its other case empties a queue.

`FairSpec` of `Lifecycle` assumes that, once a signal has arrived, each call of
`monvarkMain` returns: those that take the context because of it, `newMinerDevs`
because compiling ends, `Stop` because its RPC and its wait have deadlines. The
prompts and the mining run are exempt. That the mining run ends is `StopEndsRun`.
Without a signal it assumes only that `connect`'s own steps are taken, the check at
the head of its loop and the pause of 250 ms; a call to the node need not return,
which is why `DeadlineEnds` makes an exception of it. Nothing is assumed of the
node, the user or the signals.

The properties of `Device` are all safety; its run assumes no fairness.

## Proofs

`MinerProofs` proves, for every number of devices, all capacities and all bounds,
from the assumptions named in `Miner` (capacities and bounds are positive, events
are events):

| Theorem | Statement |
|---|---|
| `TypeCorrect` | `Spec => []TypeOK` |
| `BlocksAccounted` | `Spec => []EveryBlockAccounted` |
| `CleanReturn` | `Spec => []CleanReturnMeansInterrupted` |
| `DeadlockIsFinal` | `Spec => DeadlockLasts` |
| `FeedsAgree` | `Spec => []DevicesAgree` |
| `Refinement` | `Spec => KeepsContract` |

The argument goes through inductive invariants, each of which TLC checked first
on the instances above:

* `Typed` adds to `TypeOK` what keeps it inductive: a device with candidates to send
  has some left (otherwise `left` would become negative), a feed in progress has
  work to hand out (otherwise 0 would be queued), and three failures cancel the
  run (otherwise the count would go on).
* `EveryBlockAccounted` is inductive by itself.
* `Stopped` says who can have cancelled the run: a cancelled run was interrupted or
  is fatal, and `workSubmitThread` ends only after that. `CleanReturnMeansInterrupted`
  follows, since the return sets `cancelled`; so does the `Return` step of the
  contract, which needs a reason.
* `DeadlockNext` goes through the steps that could end the circular wait: a feed that
  is blocked can only be let go by its context, and a run that is not cancelled
  was not interrupted either (`Stopped`); the send has no room, the
  reply no reader, and `expiryThread` is not at its select.
* `Waiting` says that a source that waits for a reply is not feeding, so that its
  `job` may change.
* `Fed` is `DevicesAgree` in the middle of a feed: without overlap there is at most
  one feed, it carries `currentWork`, and every device before `nextDev` has it as
  its newest work. `HandedKept` shows that a device that takes work from its
  queue does not change what it was handed, `HandedBySetWork` what one `SetWork`
  does.

For each group of variables a frame lemma (`DeviceFrame`, `WorkFrame`, ...) lists
the actions that can change it; the step lemmas then treat those only.
`Refinement` maps every action to a step of the contract or to a stutter:
`EndRun` to a fault, the end of a device to `DeviceStops`, a send to `Find`, a
counted submission to `Settle`, which needs `EveryBlockAccounted` to show that
no more is settled than was found.

`LifecycleProofs` proves, for any number of devices, addresses and starts:

| Theorem | Statement |
|---|---|
| `LifecycleTypeCorrect` | `Spec => []TypeOK` |
| `ExitCodeIsRight` | `Spec => []ExitCodeTellsInterrupt` |
| `NodePaysFileAddress` | `Spec => []NodePaysSavedAddress` |
| `NodeIsAsked` | `~Windows` gives `Spec => []NodeStoppedOnReturn` |
| `SavedChoiceWorked` | `Spec => []SavedDevicesWereBuilt` |
| `AnswersStay` | `Spec => SavedAnswersStay` |

Four invariants say what main knows at each call:

* `ExitInv`: no way leads to the deferred functions without an error or an
  interrupt, and `loadConfig` is not interrupted. The exit code follows.
* `NodeInv`: before `nodeStart` there is no node; up to the question what `loadConfig`
  has read is what the file has (`Unedited`); and at `nodeStart` `payee` is valid and
  agrees with what was read, unless that was blanked, and with the file, unless
  that was edited (`PayeeRight`).
* `StopInv`: from the wait of `Stop` on, a live node has been asked or has refused.
  On Windows a failed `connect` breaks it, which is why the theorem assumes
  otherwise.
* `AnswerInv`: while the device question is open or its answer not yet saved, the file
  has no devices line or the command line blanked it; devices about to be saved
  are built. `AnswersStay` follows with `AnswersWritten`, which names the actions
  that write, and with `NodeInv` for the address.

`DeviceProofs` proves, for any number of devices, work items, slots and widths:

| Theorem | Statement |
|---|---|
| `DeviceTypeCorrect` | `Spec => []TypeOK` |
| `HostNeverDisagrees` | `Spec => []NoMismatch` |
| `CandidatesAreDistinct` | `Spec => []CandidatesDistinct` |
| `SolutionIsKept` | `Spec => []SomeSolutionKept` |
| `DevicesSearchApart` | `Spec => []SpacesDisjoint` |
| `BandIsSwept` | `Spec => []RangeBeforeRepeat` |

* `RaceInv` is the invariant of a launch. All items in flight and all slots this
  launch wrote hold solutions (`ItemsSolve`), each of them in one place only
  (`Once`). `CountCovered` is the heart: every slot up to the count, and up to each
  count an item has read and not stored yet, has been written in this launch or
  is about to be. Items that lose an increment to another one can make the count
  smaller, never point it past what is covered. `FirstPending`: while the count is
  0 no solution is lost. When the launch is over, nothing is in flight and the
  three properties of the candidates follow.
* `HeaderKept`: the header given to the kernel is the one of `work`, with the
  device's byte, so `foundCandidate` rebuilds the same one.
* `InBand`: every `extraNonce2` a device uses lies in the band its first byte names.
  `RolloverInBand` shows that the rollover stays in it, `BandsDisjoint` and
  `OffsetsApart` that devices with different indexes modulo a byte have different
  bands.
* `Sweep`: what was hashed on the current work are the values of the band that are
  less than `launches` steps behind `extraNonce2` (`Recent`). `RecentGrows` shows that
  a rollover adds one value to them, a new one unless the band is used up.

* `Sized`: the work size of a built device is the one `WorkSize` computes from
  accepted settings and the hardware's speed, which both stay.

`DeviceProofs` also proves, from the assumptions of `Device` on settings and speeds:

| Theorem | Statement |
|---|---|
| `WorkSizesUsable` | `Spec => []WorkSizeUsable` |
| `LaunchesKeepContract` | `Spec => KeepsLaunchContract` |

`WorkSizesUsable` follows from `Sized` and from `WorkSizeLaunchable` of `TuningProofs`,
case by case of where the size comes from.

`LaunchesKeepContract` is a refinement step by step, under `RaceInv` and `HeaderKept`.
`NewDevice` is `Start`, a failed construction `Abandon`, `Launch` is `Search`. The steps
of the work items, and those of a device between launches, are stutters
(`ContractUnseen`). `ReadOutput` is `Report` (`ContractReport`): by `CandidatesRead`, what
the host finds in the buffer are solutions, at least one if there are any, and no
more than `Slots`. `foundCandidate` is `Assess` (`ContractAssess`): the slots hold
different nonces, so that one less slot is exactly one less pending solution, and
the host agrees with it, so that a share is credited unless it is above the limit.

`TuningProofs`, `Blake3Proofs` and `CalculationsProofs` are about functions, for every
input and every width of a word:

| Theorem | Statement |
|---|---|
| `CalibrationIsClose` | the calibrated size takes the target time, up to a granule and the cost of a launch |
| `IdleIsExact` | the duty cycle is held up to a time unit |
| `CompressAsDefined` | `compress` is the definition's compression, for every value, block, length and flags |
| `HostHashes`, `KernelFollowsHost` | `HashesAsDefined` and `KernelAgrees`, for every header |
| `CalibrationHits` | `CalcSpec => []CalibrationHitsTarget` |
| `DutyCycleIsHeld` | `CalcSpec => []DutyCycleHeld` |
| `HostComputesBlake3` | `CalcSpec => []HostHashIsBlake3` |
| `KernelComputesHostHash` | `CalcSpec => []KernelAgreesWithHost` |

* Calibration. `LoopEnds` shows that the doubling stops, at a size the loop can
  reach, which needs a least element of a set of numbers (`SmallestElement`; the
  library states it for operators the provers cannot instantiate). `ScaledFits`
  shows that the scaled size does not wrap when the device is not too fast, and
  so is a multiple of the granule above 0. `NotTooLong` and `NotTooShort` bound the
  time it takes. The lower bound uses that the target is no more than four times
  what the launch at the end of the doubling took: either that launch took the
  target time, or its size is the cap, a quarter of a word.
* Hashing. `ScheduleIsDefined` compares the 112 indexes written out in `compress`
  with the permutation applied again and again. `KernelRows` shows that the
  kernel's rows name the same words: an index behind the arguments stands for the
  nonce or for a word of the padding, which is zero. Host and kernel then run equal
  rounds from equal states. `Slices`, `FullBlock` and `LastBlock` say which words
  of a header each block holds. What the rounds do with the words is not opened:
  they are the same function in all three, and `TestVector` tells which.

Assumptions on constants. `WidthAssumption` relates the numbers of `calibrate.go`
and `config.go`: the smallest intensity is a granule, the largest half a word, the
cap a quarter of one (2^30 of 2^32), the first size a power of two in between.
`PowerAssumption` says what a power of two is, for those exponents; it is no
restriction, the provers just do not know exponentiation. `SpeedAssumption` says that an
item takes some time, `SettingsAssumption` that settings are lists of integers and
that `autocalibrate` has its default, `CalAssumption`, `ElapsedAssumption` and
`HeaderAssumption` give the inputs their types. `TestVector` is evaluated by TLC and
used in no proof.

Model-checked only: every liveness property, since temporal reasoning under
fairness and `ENABLED` are beyond the prover; and the value of the rounds on a
block, `TestVector`. Every invariant and every action property of a passing run
is a theorem. `CalibrationIsClose` and `CalibrationHits` are about devices that take a
fixed time per launch and a fixed time per item, not about any times measured.

## Not modelled

* In `Miner`, benchmark mode: it runs the device loop without a node, `expiryThread`
  and `nodeWatchThread`. `Lifecycle` has it.
* Numbers for show: hash rates, `Status`, `FormatHashRate`; the comparison of a hash
  with a block's target, which `Miner` takes as an outcome.
* The HTTP monitor, the CPU profile, logging and the version: no influence on the
  rest beyond the device lock, which `printStatsThread` already takes.
* The OpenCL bindings, which have no state of their own; `Release` after a device
  has ended.
* Reconnection of rpcclient to a live node, and handlers that run after `Run` has
  returned.
* Of the node: the choice of ports and whether they stay free until the node
  binds them, credentials, arguments, bootstrap peers; what a second node does
  with the data directory of one that has not finished, which is the node's own.
* File permissions and what `mond.conf` contains, beyond checks that pass or fail.
* What the node knows of the chain, beyond its answer to whether it has synced.
* Of the configuration: paths, networks, log level and addresses to listen on, and
  the runs that only print (`-l`, `-V`, `--help`). A devices line edited by hand to
  one that was never built is left out as well: `SavedDevicesWereBuilt` is about
  what monvark writes.
* Windows: the runs of `Lifecycle` set it to FALSE; the theorems, but for
  `NodeIsAsked`, cover both.

## Plan

Done: `RunContract`, `Miner`, `MinerProofs`; `Lifecycle`, `LifecycleProofs`; `Tuning`,
`Device`, `LaunchContract`, `Blake3`, `Calculations` and their proofs; the MC modules.

Left, in this order:

1. Benchmark mode as a constant of `Miner`.
2. The loop of `Miner` on top of `LaunchContract`: `runKernel`'s choice of a number as
   a mapping of `Report`, with the target of the block.
3. The choice of the node's ports: a port released by `freeAddr` and taken by
   somebody else before the node binds it.
