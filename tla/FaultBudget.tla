---------------------------- MODULE FaultBudget ----------------------------
(***************************************************************************)
(* A bounded number of faults, and a history of the kinds that happened.   *)
(* A specification says what each kind does; its properties say which kinds *)
(* they survive.                                                           *)
(***************************************************************************)
EXTENDS Naturals

CONSTANTS
    Faults,     \* the kinds of fault that may happen
    MaxFaults   \* bound on the number of faults in a behaviour

VARIABLES
    faultsLeft, \* how many more faults may happen
    faulted     \* history: the kinds of fault that happened

faultVars == <<faultsLeft, faulted>>

Fault(kind) ==
    /\ kind \in Faults
    /\ faultsLeft > 0
    /\ faultsLeft' = faultsLeft - 1
    /\ faulted' = faulted \union {kind}

NoFault == UNCHANGED faultVars

\* None of these kinds of fault has happened so far.
Without(kinds) == faulted \intersect kinds = {}

=============================================================================
