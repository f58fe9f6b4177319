------------------------------ MODULE MCMiner ------------------------------
(***************************************************************************)
(* Miner with small values for TLC: the devices that are throttled and the *)
(* outside events of each run.                                             *)
(***************************************************************************)
EXTENDS Miner

NoThrottle == {}
FirstThrottled == {1}

BlockEvents == AllEvents \ {"lostpush"}
AgeEvents == {"age"}
FeedEvents == {"age", "lostpush"}
DeadDeviceEvents == {"age", "devicefail"}
InterruptEvents == {"interrupt"}
NodeExitEvents == {"nodeexit"}
=============================================================================
