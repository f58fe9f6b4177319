-------------------------- MODULE LifecycleProofs --------------------------
(***************************************************************************)
(* Proofs about module Lifecycle, for any number of devices, any addresses *)
(* and any number of runs.                                                 *)
(***************************************************************************)
EXTENDS Lifecycle, TLAPS

USE DevicesAssumption, AddressAssumption, WindowsAssumption, RunsAssumption

-----------------------------------------------------------------------------
(***************************************************************************)
(* Types.                                                                  *)
(***************************************************************************)
LEMMA TypeOKInit == Init => TypeOK
<1>1. {} \in Machines
  <2>1. 0 \in 0..MaxDevices /\ 0..(0 - 1) = {}
    OBVIOUS
  <2> QED
    BY <2>1 DEF Machines
<1> SUFFICES ASSUME Init PROVE TypeOK
  OBVIOUS
<1> USE DEF Init
<1>2. ProcTypes
  BY DEF ProcTypes
<1>3. NodeTypes
  BY DEF NodeTypes
<1>4. AddrTypes /\ DevTypes
  BY <1>1 DEF AddrTypes, DevTypes
<1>5. DiskTypes
  <2>1. runs \in 0..MaxRuns /\ built \subseteq Ids /\ savedDevices \subseteq Ids
    OBVIOUS
  <2>2. savedPayout \in Addr \cup {NoAddress} /\ cert \in BOOLEAN /\ leftover \in BOOLEAN
    OBVIOUS
  <2> QED
    BY <2>1, <2>2 DEF DiskTypes
<1> QED
  BY <1>2, <1>3, <1>4, <1>5 DEF TypeOK

LEMMA ProcTypesNext == TypeOK /\ [Next]_vars => ProcTypes'
<1> SUFFICES ASSUME TypeOK, [Next]_vars PROVE ProcTypes'
  OBVIOUS
<1> USE DEF TypeOK, ProcTypes, procVars, Steps, Starting, Connecting, Goto, Fail, Exit
<1>1. CASE UNCHANGED vars
  BY <1>1 DEF vars
<1>2. CASE Launch \/ Run
  BY <1>2 DEF Launch, Run
<1>3. CASE \/ loadConfig \/ Refused \/ resolveDevices \/ newMinerDevs
           \/ saveDeviceChoice \/ resolvePayout \/ nodeStart
  BY <1>3 DEF loadConfig, Refused, resolveDevices, newMinerDevs, saveDeviceChoice,
              resolvePayout, nodeStart
<1>4. CASE \/ connect \/ connectRpc \/ connectWait \/ WaitSynced \/ syncWait
           \/ NewMiner \/ AskByRpc \/ StopWait \/ Return
  BY <1>4 DEF connect, connectRpc, connectWait, WaitSynced, syncWait, NewMiner,
              AskByRpc, StopWait, Return
<1>5. CASE Prompt
  BY <1>5 DEF Prompt, promptDevices, promptPayout
<1>6. CASE FirstSignal \/ RestoreSignals \/ Killed \/ ProfilerExits
  BY <1>6 DEF FirstSignal, RestoreSignals, Killed, ProfilerExits
<1>7. CASE NodeStep \/ Elsewhere \/ EditPayout
  BY <1>7 DEF NodeStep, Elsewhere, EditPayout
<1> QED
  BY <1>1, <1>2, <1>3, <1>4, <1>5, <1>6, <1>7 DEF Next, MainStep

LEMMA NodeTypesNext == TypeOK /\ [Next]_vars => NodeTypes'
<1> SUFFICES ASSUME TypeOK, [Next]_vars PROVE NodeTypes'
  OBVIOUS
<1> USE DEF TypeOK, NodeTypes, nodeVars, Exit
<1>1. CASE UNCHANGED vars
  BY <1>1 DEF vars
<1>2. CASE Launch \/ Run
  BY <1>2 DEF Launch, Run
<1>3. CASE \/ loadConfig \/ Refused \/ resolveDevices \/ newMinerDevs
           \/ saveDeviceChoice \/ resolvePayout \/ nodeStart
  BY <1>3 DEF loadConfig, Refused, resolveDevices, newMinerDevs, saveDeviceChoice,
              resolvePayout, nodeStart
<1>4. CASE \/ connect \/ connectRpc \/ connectWait \/ WaitSynced \/ syncWait
           \/ NewMiner \/ AskByRpc \/ StopWait \/ Return
  <2>1. AskBySignal => node' \in {node, "stopping"}
    BY DEF AskBySignal
  <2>2. CASE connect
    BY <2>1, <2>2 DEF connect
  <2>3. CASE connectWait
    BY <2>1, <2>3 DEF connectWait
  <2>4. CASE connectRpc \/ WaitSynced \/ syncWait \/ NewMiner \/ StopWait
    BY <2>4 DEF connectRpc, WaitSynced, syncWait, NewMiner, StopWait
  <2>5. CASE AskByRpc
    <3>1. NodeAlive \in BOOLEAN
      BY DEF NodeAlive
    <3>2. refused' \in BOOLEAN
      BY <2>5, <3>1 DEF AskByRpc
    <3>3. /\ node' \in {node, "stopping"}
          /\ UNCHANGED late
      BY <2>5 DEF AskByRpc
    <3> QED
      BY <3>2, <3>3
  <2>6. CASE Return
    BY <2>6 DEF Return
  <2> QED
    BY <1>4, <2>2, <2>3, <2>4, <2>5, <2>6
<1>5. CASE Prompt
  BY <1>5 DEF Prompt, promptDevices, promptPayout
<1>6. CASE FirstSignal \/ RestoreSignals \/ Killed \/ ProfilerExits
  BY <1>6 DEF FirstSignal, RestoreSignals, Killed, ProfilerExits, NodeAlive
<1>7. CASE NodeStep \/ Elsewhere \/ EditPayout
  BY <1>7 DEF NodeStep, Elsewhere, EditPayout, NodeAlive
<1> QED
  BY <1>1, <1>2, <1>3, <1>4, <1>5, <1>6, <1>7 DEF Next, MainStep

LEMMA AddrTypesNext == TypeOK /\ [Next]_vars => AddrTypes'
<1> SUFFICES ASSUME TypeOK, [Next]_vars PROVE AddrTypes'
  OBVIOUS
<1> USE DEF TypeOK, AddrTypes, DiskTypes, addrVars
<1>1. CASE UNCHANGED vars
  BY <1>1 DEF vars
<1>2. CASE Launch \/ loadConfig \/ EditPayout
  BY <1>2 DEF Launch, loadConfig, EditPayout
<1>3. CASE Refused \/ Return \/ Killed \/ ProfilerExits
  BY <1>3 DEF Refused, Return, Killed, ProfilerExits, Exit
<1>4. CASE \/ resolveDevices \/ promptDevices \/ newMinerDevs \/ saveDeviceChoice
           \/ resolvePayout \/ promptPayout \/ nodeStart
  BY <1>4 DEF resolveDevices, promptDevices, newMinerDevs, saveDeviceChoice,
              resolvePayout, promptPayout, nodeStart
<1>5. CASE \/ connect \/ connectRpc \/ connectWait \/ WaitSynced \/ syncWait \/ NewMiner
           \/ Run \/ AskByRpc \/ StopWait
           \/ FirstSignal \/ RestoreSignals \/ NodeStep \/ Elsewhere
  BY <1>5 DEF connect, connectRpc, connectWait, WaitSynced, syncWait, NewMiner, Run,
              AskByRpc, StopWait, FirstSignal, RestoreSignals, NodeStep, Elsewhere
<1> QED
  BY <1>1, <1>2, <1>3, <1>4, <1>5 DEF Next, MainStep, Prompt

LEMMA ListedAreIds == ASSUME NEW m \in Machines PROVE m \subseteq Ids
BY DEF Machines, Ids

LEMMA DevTypesNext == TypeOK /\ [Next]_vars => DevTypes'
<1> SUFFICES ASSUME TypeOK, [Next]_vars PROVE DevTypes'
  OBVIOUS
<1> USE DEF TypeOK, DevTypes, devVars
<1>1. CASE UNCHANGED vars
  BY <1>1 DEF vars
<1>2. ASSUME NEW how, Exit(how) PROVE DevTypes'
  <2>1. {} \in Machines
    <3>1. 0 \in 0..MaxDevices /\ 0..(0 - 1) = {}
      OBVIOUS
    <3> QED
      BY <3>1 DEF Machines
  <2> QED
    BY <1>2, <2>1 DEF Exit
<1>3. CASE Launch
  BY <1>3 DEF Launch
<1>4. CASE loadConfig
  BY <1>4 DEF loadConfig, ConfiguredDevices, DiskTypes, Ids
<1>5. CASE newMinerDevs
  BY <1>5, ListedAreIds DEF newMinerDevs, Chosen
<1>6. CASE promptDevices
  BY <1>6, ListedAreIds DEF promptDevices
<1>7. CASE resolvePayout \/ promptPayout
  BY <1>7 DEF resolvePayout, promptPayout
<1>8. CASE Refused \/ Return \/ Killed \/ ProfilerExits
  BY <1>2, <1>8 DEF Refused, Return, Killed, ProfilerExits
<1>9. CASE \/ resolveDevices \/ saveDeviceChoice \/ nodeStart \/ connect \/ connectRpc
           \/ connectWait \/ WaitSynced \/ syncWait \/ NewMiner \/ Run \/ AskByRpc \/ StopWait
           \/ FirstSignal \/ RestoreSignals \/ NodeStep \/ Elsewhere \/ EditPayout
  BY <1>9 DEF resolveDevices, saveDeviceChoice, nodeStart, connect, connectRpc,
              connectWait, WaitSynced, syncWait, NewMiner, Run, AskByRpc, StopWait,
              FirstSignal, RestoreSignals, NodeStep, Elsewhere, EditPayout
<1> QED
  BY <1>1, <1>3, <1>4, <1>5, <1>6, <1>7, <1>8, <1>9 DEF Next, MainStep, Prompt

LEMMA DiskTypesNext == TypeOK /\ [Next]_vars => DiskTypes'
<1> SUFFICES ASSUME TypeOK, [Next]_vars PROVE DiskTypes'
  OBVIOUS
<1> USE DEF TypeOK, AddrTypes, DevTypes, DiskTypes, diskVars, answerVars, Exit
<1>1. CASE UNCHANGED vars
  BY <1>1 DEF vars
<1>2. CASE Launch
  BY <1>2 DEF Launch, NodeAlive
<1>3. CASE newMinerDevs
  BY <1>3, ListedAreIds DEF newMinerDevs, Chosen
<1>4. CASE saveDeviceChoice
  BY <1>4, ListedAreIds DEF saveDeviceChoice
<1>5. CASE promptPayout \/ EditPayout
  BY <1>5 DEF promptPayout, EditPayout
<1>6. CASE nodeStart
  BY <1>6 DEF nodeStart
<1>7. CASE NodeStep \/ Elsewhere
  BY <1>7 DEF NodeStep, Elsewhere
<1>8. CASE \/ loadConfig \/ Refused \/ resolveDevices \/ promptDevices \/ resolvePayout
           \/ connect \/ connectRpc \/ connectWait \/ WaitSynced \/ syncWait \/ NewMiner
           \/ Run \/ AskByRpc \/ StopWait \/ Return
           \/ FirstSignal \/ RestoreSignals \/ Killed \/ ProfilerExits
  BY <1>8 DEF loadConfig, Refused, resolveDevices, promptDevices, resolvePayout,
              connect, connectRpc, connectWait, WaitSynced, syncWait, NewMiner, Run,
              AskByRpc, StopWait, Return, FirstSignal, RestoreSignals, Killed,
              ProfilerExits
<1> QED
  BY <1>1, <1>2, <1>3, <1>4, <1>5, <1>6, <1>7, <1>8 DEF Next, MainStep, Prompt

LEMMA TypeOKNext == TypeOK /\ [Next]_vars => TypeOK'
BY ProcTypesNext, NodeTypesNext, AddrTypesNext, DevTypesNext, DiskTypesNext DEF TypeOK

\* Whatever devices a run mines with are listed, in any number of runs on a
\* machine whose devices change between them.
THEOREM LifecycleTypeCorrect == Spec => []TypeOK
<1> QED
  BY TypeOKInit, TypeOKNext, PTL DEF Spec
-----------------------------------------------------------------------------
(***************************************************************************)
(* The exit code.  exit is set when the process ends, and main only gets   *)
(* to its deferred functions without an error after an interrupt.          *)
(***************************************************************************)
ExitInv ==
    /\ pc # "off" => exit = "none"
    /\ pc = "loadConfig" => ~Interrupted
    /\ pc \in {"Stop", "StopWait", "return"} => err \/ Interrupted
    /\ ExitCodeTellsInterrupt

LEMMA ExitInvNext == TypeOK /\ ExitInv /\ [Next]_vars => ExitInv'
<1> SUFFICES ASSUME TypeOK, ExitInv, [Next]_vars PROVE ExitInv'
  OBVIOUS
<1> USE DEF TypeOK, ProcTypes, ExitInv, ExitCodeTellsInterrupt, Interrupted, Goto, Fail, Exit
<1>1. CASE UNCHANGED vars
  BY <1>1 DEF vars, procVars
<1>2. CASE Launch \/ Run
  BY <1>2 DEF Launch, Run
<1>3. CASE \/ loadConfig \/ resolveDevices \/ newMinerDevs \/ saveDeviceChoice
           \/ resolvePayout \/ nodeStart \/ Prompt
  BY <1>3 DEF loadConfig, resolveDevices, newMinerDevs, saveDeviceChoice,
              resolvePayout, nodeStart, Prompt, promptDevices, promptPayout
<1>4. CASE \/ connect \/ connectRpc \/ connectWait \/ WaitSynced \/ syncWait
           \/ NewMiner \/ AskByRpc \/ StopWait
  BY <1>4 DEF connect, connectRpc, connectWait, WaitSynced, syncWait, NewMiner,
              AskByRpc, StopWait, WaitEnds
<1>5. CASE Return
  BY <1>5 DEF Return, FinalErr
<1>6. CASE FirstSignal \/ RestoreSignals \/ Killed \/ ProfilerExits
  BY <1>6 DEF FirstSignal, RestoreSignals, Killed, ProfilerExits
<1>7. CASE NodeStep \/ Elsewhere \/ EditPayout
  BY <1>7 DEF NodeStep, Elsewhere, EditPayout, procVars
<1>8. CASE Refused
  BY <1>8 DEF Refused
<1> QED
  BY <1>1, <1>2, <1>3, <1>4, <1>5, <1>6, <1>7, <1>8 DEF Next, MainStep

\* The exit code is zero exactly when a signal was handled before the end.
THEOREM ExitCodeIsRight == Spec => []ExitCodeTellsInterrupt
<1>1. Init => ExitInv
  BY DEF Init, ExitInv, ExitCodeTellsInterrupt
<1>2. ExitInv => ExitCodeTellsInterrupt
  BY DEF ExitInv
<1> QED
  BY <1>1, <1>2, ExitInvNext, LifecycleTypeCorrect, PTL DEF Spec
-----------------------------------------------------------------------------
(***************************************************************************)
(* The node.  Before nodeStart there is none; when main is past its Stop   *)
(* it has been asked; and it is started for the resolved address.          *)
(***************************************************************************)
Early == {"loadConfig"} \cup Starting

Asked == NodeAlive => node = "stopping" \/ refused

\* Until the question is open nobody has changed what loadConfig has read.
Unedited == savedPayout = fileMiningAddr /\ ~edited

PayeeRight ==
    /\ payee \in Valid
    /\ fileMiningAddr \in {NoAddress, payee} \/ miningAddr = NoAddress
    /\ savedPayout \in {NoAddress, payee} \/ edited

NodeInv ==
    /\ pc \in Early => node = "none"
    /\ pc \in Early \ {"loadConfig", "promptPayout", "nodeStart"} => Unedited
    /\ pc = "promptPayout" => miningAddr = NoAddress /\ (Unedited \/ edited)
    /\ pc = "nodeStart" => PayeeRight
    /\ NodePaysSavedAddress

LEMMA NodeInvNext == TypeOK /\ NodeInv /\ [Next]_vars => NodeInv'
<1> SUFFICES ASSUME TypeOK, NodeInv, [Next]_vars PROVE NodeInv'
  OBVIOUS
<1> USE DEF NodeInv, Early, Starting, Unedited, PayeeRight, NodePaysSavedAddress, Goto, Fail
<1>1. CASE UNCHANGED vars
  BY <1>1 DEF vars, procVars, nodeVars, addrVars, devVars, diskVars, answerVars
<1>2. CASE Launch
  BY <1>2 DEF Launch, answerVars
<1>3. ASSUME NEW how, Exit(how) PROVE NodeInv'
  BY <1>3 DEF Exit, diskVars, answerVars
<1>4. CASE loadConfig
  BY <1>4 DEF loadConfig, nodeVars, diskVars, answerVars
<1>5. CASE resolveDevices \/ newMinerDevs \/ promptDevices
  BY <1>5 DEF resolveDevices, newMinerDevs, promptDevices, nodeVars, addrVars, devVars,
              diskVars, answerVars
<1>6. CASE saveDeviceChoice
  BY <1>6 DEF saveDeviceChoice, nodeVars, addrVars, devVars
<1>7. CASE resolvePayout
  BY <1>7 DEF resolvePayout, Disagrees, nodeVars, addrVars, diskVars, answerVars
<1>8. CASE promptPayout
  BY <1>8 DEF promptPayout, nodeVars, addrVars
<1>9. CASE nodeStart
  BY <1>9 DEF nodeStart, addrVars, devVars, diskVars, answerVars
<1>10. CASE connect \/ connectWait
  <2>1. AskBySignal => node' \in {node, "stopping"} /\ (node' = "none" <=> node = "none")
    BY DEF AskBySignal, NodeAlive
  <2> QED
    BY <1>10, <2>1 DEF connect, connectWait, addrVars, devVars, diskVars, answerVars,
                       Connecting
<1>11. CASE connectRpc \/ WaitSynced \/ syncWait \/ NewMiner
  BY <1>11 DEF connectRpc, WaitSynced, syncWait, NewMiner, nodeVars, addrVars, devVars,
               diskVars, answerVars
<1>12. CASE AskByRpc
  BY <1>12 DEF AskByRpc, NodeAlive, addrVars, devVars, diskVars, answerVars
<1>13. CASE FirstSignal
  BY <1>13 DEF FirstSignal, NodeAlive, addrVars, devVars, diskVars, answerVars
<1>14. CASE NodeStep \/ Elsewhere
  BY <1>14 DEF NodeStep, Elsewhere, NodeAlive, procVars, addrVars, devVars, answerVars
<1>15. CASE EditPayout
  BY <1>15 DEF EditPayout, procVars, nodeVars, devVars
<1>16. CASE Refused \/ Return \/ Killed \/ ProfilerExits
  BY <1>3, <1>16 DEF Refused, Return, Killed, ProfilerExits
<1>17. CASE StopWait \/ RestoreSignals
  BY <1>17 DEF StopWait, WaitEnds, RestoreSignals, nodeVars, addrVars, devVars, diskVars,
               answerVars
<1>18. CASE Run
  BY <1>18 DEF Run, nodeVars, addrVars, devVars, diskVars, answerVars
<1> QED
  BY <1>1, <1>2, <1>4, <1>5, <1>6, <1>7, <1>8, <1>9, <1>10, <1>11, <1>12, <1>13, <1>14,
     <1>15, <1>16, <1>17, <1>18 DEF Next, MainStep, Prompt

LEMMA NodeInvariant == Spec => []NodeInv
<1>1. Init => NodeInv
  BY DEF Init, NodeInv, Early, Starting, NodePaysSavedAddress
<1> QED
  BY <1>1, NodeInvNext, LifecycleTypeCorrect, PTL DEF Spec

\* Whatever is given on the command line, blanked options included, whatever the
\* user answers and whenever the file is edited, the node is started for a valid
\* address that is the file's, as far as the file has one that still counts.
THEOREM NodePaysFileAddress == Spec => []NodePaysSavedAddress
<1>1. NodeInv => NodePaysSavedAddress
  BY DEF NodeInv
<1> QED
  BY <1>1, NodeInvariant, PTL

\* Past Stop the node has been asked, and so it has when the process has ended
\* by itself.
StopInv ==
    /\ pc \in Early => node = "none"
    /\ pc \in {"StopWait", "return"} => Asked
    /\ exit \in {"zero", "one"} => Asked
    /\ pc # "off" => exit = "none"

LEMMA StopInvNext ==
    ASSUME ~Windows PROVE TypeOK /\ StopInv /\ [Next]_vars => StopInv'
<1> SUFFICES ASSUME TypeOK, StopInv, [Next]_vars PROVE StopInv'
  OBVIOUS
<1> USE DEF StopInv, Asked, NodeAlive, Early, Starting, Goto, Fail
<1>1. CASE UNCHANGED vars
  BY <1>1 DEF vars, procVars, nodeVars
<1>2. CASE Launch
  BY <1>2 DEF Launch
<1>3. CASE \/ loadConfig \/ resolveDevices \/ newMinerDevs \/ promptDevices
           \/ saveDeviceChoice \/ resolvePayout \/ promptPayout
  BY <1>3 DEF loadConfig, resolveDevices, newMinerDevs, promptDevices, saveDeviceChoice,
              resolvePayout, promptPayout, nodeVars
<1>4. CASE nodeStart
  BY <1>4 DEF nodeStart
<1>5. CASE connect \/ connectWait
  <2>1. AskBySignal => Asked'
    BY DEF AskBySignal
  <2> QED
    BY <1>5, <2>1 DEF connect, connectWait
<1>6. CASE connectRpc \/ WaitSynced \/ syncWait \/ NewMiner \/ StopWait \/ RestoreSignals
  BY <1>6 DEF connectRpc, WaitSynced, syncWait, NewMiner, StopWait, WaitEnds,
              RestoreSignals, nodeVars
<1>7. CASE Run
  BY <1>7 DEF Run, Benchmark, nodeVars
<1>8. CASE AskByRpc
  BY <1>8 DEF AskByRpc
<1>9. CASE FirstSignal
  BY <1>9 DEF FirstSignal
<1>10. CASE NodeStep \/ Elsewhere \/ EditPayout
  BY <1>10 DEF NodeStep, Elsewhere, EditPayout, procVars, nodeVars
<1>11. CASE Refused \/ Return
  BY <1>11 DEF Refused, Return, Exit
<1>12. CASE Killed \/ ProfilerExits
  BY <1>12 DEF Killed, ProfilerExits, Exit
<1> QED
  BY <1>1, <1>2, <1>3, <1>4, <1>5, <1>6, <1>7, <1>8, <1>9, <1>10, <1>11, <1>12
     DEF Next, MainStep, Prompt

\* Where signals can be sent, no way through monvarkMain leaves a node running
\* that was not asked to stop.
THEOREM NodeIsAsked == ASSUME ~Windows PROVE Spec => []NodeStoppedOnReturn
<1>1. Init => StopInv
  BY DEF Init, StopInv, Early, Starting, Asked, NodeAlive
<1>2. TypeOK /\ StopInv /\ [Next]_vars => StopInv'
  BY StopInvNext
<1>3. StopInv => NodeStoppedOnReturn
  BY DEF StopInv, Asked, NodeStoppedOnReturn
<1> QED
  BY <1>1, <1>2, <1>3, LifecycleTypeCorrect, PTL DEF Spec
-----------------------------------------------------------------------------
(***************************************************************************)
(* The saved answers.                                                      *)
(***************************************************************************)
\* The device question is only open while nothing is saved or its option is
\* blank, and its answer is saved after the build.
Unanswered == savedDevices = {} \/ blank

AnswerInv ==
    /\ pc \in {"loadConfig", "resolveDevices"} => ~answered
    /\ pc = "resolveDevices" /\ choice = {} => Unanswered
    /\ pc = "promptDevices" => Unanswered
    /\ pc \in {"newMinerDevs", "saveDeviceChoice"} /\ answered => Unanswered
    /\ pc = "saveDeviceChoice" => devices \subseteq built
    /\ SavedDevicesWereBuilt

LEMMA AnswerInvNext == TypeOK /\ AnswerInv /\ [Next]_vars => AnswerInv'
<1> SUFFICES ASSUME TypeOK, AnswerInv, [Next]_vars PROVE AnswerInv'
  OBVIOUS
<1> USE DEF AnswerInv, Unanswered, SavedDevicesWereBuilt, Goto, Fail
<1>1. CASE UNCHANGED vars
  BY <1>1 DEF vars, procVars, devVars, diskVars, answerVars
<1>2. CASE Launch
  BY <1>2 DEF Launch, answerVars
<1>3. CASE loadConfig
  BY <1>3 DEF loadConfig, ConfiguredDevices, diskVars, answerVars
<1>4. CASE resolveDevices
  BY <1>4 DEF resolveDevices, devVars, diskVars, answerVars
<1>5. CASE promptDevices
  BY <1>5 DEF promptDevices, diskVars, answerVars
<1>6. CASE newMinerDevs
  BY <1>6 DEF newMinerDevs, answerVars
<1>7. CASE saveDeviceChoice
  BY <1>7 DEF saveDeviceChoice, devVars
<1>8. CASE resolvePayout
  BY <1>8 DEF resolvePayout, diskVars, answerVars
<1>9. CASE promptPayout \/ EditPayout
  BY <1>9 DEF promptPayout, EditPayout, procVars, devVars
<1>10. CASE nodeStart \/ connect \/ connectRpc \/ connectWait
  BY <1>10 DEF nodeStart, connect, connectRpc, connectWait, devVars, diskVars, answerVars
<1>11. CASE WaitSynced \/ syncWait \/ NewMiner \/ Run \/ AskByRpc \/ StopWait
  BY <1>11 DEF WaitSynced, syncWait, NewMiner, Run, AskByRpc, StopWait, WaitEnds, devVars,
               diskVars, answerVars
<1>12. ASSUME NEW how, Exit(how) PROVE AnswerInv'
  BY <1>12 DEF Exit, diskVars, answerVars
<1>13. CASE Refused \/ Return \/ Killed \/ ProfilerExits
  BY <1>12, <1>13 DEF Refused, Return, Killed, ProfilerExits
<1>14. CASE FirstSignal \/ RestoreSignals
  BY <1>14 DEF FirstSignal, RestoreSignals, devVars, diskVars, answerVars
<1>15. CASE NodeStep \/ Elsewhere
  BY <1>15 DEF NodeStep, Elsewhere, procVars, devVars, answerVars
<1> QED
  BY <1>1, <1>2, <1>3, <1>4, <1>5, <1>6, <1>7, <1>8, <1>9, <1>10, <1>11, <1>13, <1>14,
     <1>15 DEF Next, MainStep, Prompt

LEMMA AnswerInvariant == Spec => []AnswerInv
<1>1. Init => AnswerInv
  BY DEF Init, AnswerInv, SavedDevicesWereBuilt
<1> QED
  BY <1>1, AnswerInvNext, LifecycleTypeCorrect, PTL DEF Spec

\* Only a choice that has been built gets into the config file.
THEOREM SavedChoiceWorked == Spec => []SavedDevicesWereBuilt
<1>1. AnswerInv => SavedDevicesWereBuilt
  BY DEF AnswerInv
<1> QED
  BY <1>1, AnswerInvariant, PTL

\* The steps of the program that write an answer.
LEMMA AnswersWritten ==
    ASSUME [Next]_vars, pc' # pc
    PROVE  UNCHANGED answerVars \/ saveDeviceChoice \/ promptPayout
<1> USE DEF answerVars, diskVars
<1>1. CASE UNCHANGED vars
  BY <1>1 DEF vars
<1>2. CASE \/ Launch \/ loadConfig \/ resolveDevices \/ promptDevices \/ newMinerDevs
           \/ resolvePayout \/ nodeStart \/ connect \/ connectRpc \/ connectWait
  BY <1>2 DEF Launch, loadConfig, resolveDevices, promptDevices, newMinerDevs,
              resolvePayout, nodeStart, connect, connectRpc, connectWait
<1>3. CASE \/ WaitSynced \/ syncWait \/ NewMiner \/ Run \/ AskByRpc \/ StopWait \/ Return
           \/ Refused \/ FirstSignal \/ RestoreSignals \/ Killed \/ ProfilerExits
           \/ NodeStep \/ Elsewhere
  BY <1>3 DEF WaitSynced, syncWait, NewMiner, Run, AskByRpc, StopWait, Return, Refused,
              FirstSignal, RestoreSignals, Killed, ProfilerExits, NodeStep, Elsewhere, Exit
<1>4. CASE EditPayout
  BY <1>4 DEF EditPayout, procVars
<1> QED
  BY <1>1, <1>2, <1>3, <1>4 DEF Next, MainStep, Prompt

\* What is saved stays, over any number of starts, unless a command line blanks
\* the option or an edit is made while the question is open: those are the only
\* ways to a question whose answer supersedes a line that is there.
THEOREM AnswersStay == Spec => SavedAnswersStay
<1> DEFINE Kept ==
        pc' # pc =>
          /\ savedDevices \notin {{}, savedDevices'} => blank
          /\ savedPayout \notin {NoAddress, savedPayout'} =>
                miningAddr = NoAddress /\ (fileMiningAddr # NoAddress \/ edited)
<1>1. AnswerInv /\ NodeInv /\ [Next]_vars => [Kept]_vars
  <2> SUFFICES ASSUME AnswerInv, NodeInv, [Next]_vars, pc' # pc
               PROVE  /\ savedDevices \notin {{}, savedDevices'} => blank
                      /\ savedPayout \notin {NoAddress, savedPayout'} =>
                            miningAddr = NoAddress /\ (fileMiningAddr # NoAddress \/ edited)
    OBVIOUS
  <2>1. CASE UNCHANGED answerVars
    BY <2>1 DEF answerVars
  <2>2. CASE saveDeviceChoice
    BY <2>2 DEF saveDeviceChoice, AnswerInv, Unanswered, Goto, Fail
  <2>3. CASE promptPayout
    BY <2>3 DEF promptPayout, NodeInv, Unedited, Goto, Fail
  <2> QED
    BY <2>1, <2>2, <2>3, AnswersWritten
<1> QED
  BY <1>1, AnswerInvariant, NodeInvariant, PTL DEF Spec, SavedAnswersStay
=============================================================================
