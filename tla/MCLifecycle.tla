---------------------------- MODULE MCLifecycle ----------------------------
(* Lifecycle with a valid address and one of another network, and with a   *)
(* command line that may name a device that is never there, or none.       *)
EXTENDS Lifecycle

Addresses == {"mainnet", "testnet"}
ValidAddresses == {"mainnet"}
Flags == {{}, {1}, {0, 2}}
=============================================================================
