--------------------------- MODULE LaunchContract ---------------------------
(***************************************************************************)
(* What the devices promise about their launches, whatever the work items  *)
(* of a launch do to each other: no device searches before all of them are *)
(* built; a launch that has solutions reports some of them, and no more    *)
(* than fit the output buffer; each one reported is assessed once, and     *)
(* only as that a share is counted, for a solution that meets the limit.   *)
(***************************************************************************)
EXTENDS Naturals, FiniteSets

CONSTANTS
    Dev,            \* the devices
    Slots,          \* solutions a launch can report
    AboveLimit      \* solutions that do not count as a share

VARIABLES
    stage,          \* "starting", "waiting", "searching", "assessing", "ended"
    solutions,      \* solutions[d]: what solves the header of d's last launch
    pending,        \* pending[d]: solutions reported and not assessed yet
    credited        \* credited[d]: shares counted

lvars == <<stage, solutions, pending, credited>>

LInit ==
    /\ stage \in [Dev -> {"starting", "ended"}]
    /\ solutions = [d \in Dev |-> {}]
    /\ pending = [d \in Dev |-> {}]
    /\ credited = [d \in Dev |-> 0]

Move(d, from, to) == stage[d] = from /\ stage' = [stage EXCEPT ![d] = to]

Start(d) ==
    /\ Move(d, "starting", "waiting")
    /\ UNCHANGED <<solutions, pending, credited>>

\* One that cannot be built keeps all others from starting.
Abandon ==
    /\ \E d \in Dev : stage[d] = "starting"
    /\ stage' = [d \in Dev |-> "ended"]
    /\ UNCHANGED <<solutions, pending, credited>>

Search(d) ==
    /\ \A e \in Dev : stage[e] # "starting"
    /\ Move(d, "waiting", "searching")
    /\ solutions'[d] \subseteq Nat
    /\ solutions' = [solutions EXCEPT ![d] = solutions'[d]]
    /\ UNCHANGED <<pending, credited>>

Report(d) ==
    /\ Move(d, "searching", "assessing")
    /\ \E some \in SUBSET solutions[d] :
            /\ solutions[d] # {} => some # {}
            /\ IsFiniteSet(some) /\ Cardinality(some) <= Slots
            /\ pending' = [pending EXCEPT ![d] = some]
    /\ UNCHANGED <<solutions, credited>>

Assess(d) ==
    /\ stage[d] = "assessing"
    /\ \E n \in pending[d] :
            /\ pending' = [pending EXCEPT ![d] = @ \ {n}]
            /\ credited' = IF n \in AboveLimit THEN credited
                             ELSE [credited EXCEPT ![d] = @ + 1]
    /\ UNCHANGED <<stage, solutions>>

Finish(d) ==
    /\ Move(d, "assessing", "waiting")
    /\ pending[d] = {}
    /\ solutions' = [solutions EXCEPT ![d] = {}]
    /\ UNCHANGED <<pending, credited>>

\* Never in the middle of a launch; what is pending is dropped.
End(d) ==
    /\ stage[d] \in {"waiting", "assessing"}
    /\ stage' = [stage EXCEPT ![d] = "ended"]
    /\ pending' = [pending EXCEPT ![d] = {}]
    /\ UNCHANGED <<solutions, credited>>

LNext ==
    \/ Abandon
    \/ \E d \in Dev :
            Start(d) \/ Search(d) \/ Report(d) \/ Assess(d) \/ Finish(d) \/ End(d)

LSpec == LInit /\ [][LNext]_lvars
=============================================================================
