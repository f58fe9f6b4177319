---------------------------- MODULE RunContract ----------------------------
(***************************************************************************)
(* What the miner promises to monvarkMain, whatever its goroutines do in   *)
(* the meantime: mining starts once, with every device, or is refused; a   *)
(* device that has stopped stays stopped; the run ends only for a reason   *)
(* and only when every device has stopped; its verdict names a fault if    *)
(* there was one; and a block is settled with the node at most once.       *)
(***************************************************************************)
EXTENDS Naturals

CONSTANT Dev    \* the devices

VARIABLES
    state,      \* "starting", "mining" or "over"
    verdict,    \* what main is told: "none" until the end, "refused" by
                \* NewMiner, "ok" or "error" from Run
    reasons,    \* why mining has to end: "user", "fault"
    hashing,    \* devices that have not stopped
    found,      \* blocks handed over for submission
    settled     \* blocks the node has accepted or refused

cvars == <<state, verdict, reasons, hashing, found, settled>>

CInit ==
    /\ state = "starting"
    /\ verdict = "none"
    /\ reasons = {}
    /\ hashing = Dev
    /\ found = 0
    /\ settled = 0

\* A reason to stop appears; only mining itself can discover a fault.
Stop(r) ==
    /\ state # "over"
    /\ r = "fault" => state = "mining"
    /\ reasons' = reasons \cup {r}
    /\ UNCHANGED <<state, verdict, hashing, found, settled>>

StartMining ==
    /\ state = "starting"
    /\ state' = "mining"
    /\ UNCHANGED <<verdict, reasons, hashing, found, settled>>

Refuse ==
    /\ state = "starting"
    /\ state' = "over"
    /\ verdict' = "refused"
    /\ UNCHANGED <<reasons, hashing, found, settled>>

\* A device stops: it failed, or the run is ending.
DeviceStops(d) ==
    /\ state = "mining"
    /\ d \in hashing
    /\ hashing' = hashing \ {d}
    /\ UNCHANGED <<state, verdict, reasons, found, settled>>

\* Only a device that is still hashing finds a block.
Find ==
    /\ state = "mining"
    /\ hashing # {}
    /\ found' = found + 1
    /\ UNCHANGED <<state, verdict, reasons, hashing, settled>>

Settle ==
    /\ state = "mining"
    /\ settled < found
    /\ settled' = settled + 1
    /\ UNCHANGED <<state, verdict, reasons, hashing, found>>

Return ==
    /\ state = "mining"
    /\ reasons # {}
    /\ hashing = {}
    /\ state' = "over"
    /\ verdict' = IF "fault" \in reasons THEN "error" ELSE "ok"
    /\ UNCHANGED <<reasons, hashing, found, settled>>

CNext ==
    \/ \E r \in {"user", "fault"} : Stop(r)
    \/ StartMining
    \/ Refuse
    \/ \E d \in Dev : DeviceStops(d)
    \/ Find
    \/ Settle
    \/ Return

CSpec == CInit /\ [][CNext]_cvars
=============================================================================
