----------------------------- MODULE MCControl -----------------------------
(***************************************************************************)
(* Who may do what and when, for TLC: pairing and unpairing, generations   *)
(* of one Hub with the goroutines that stop it and wait for it, the slot   *)
(* Hub processes compete for, the dashboard's sessions and event stream,   *)
(* and a directory sent from the command line.  The parts share no         *)
(* variable; `topic' says which one a behaviour is about, the others keep  *)
(* their initial state.  Stop calls and readiness waiters are taken one    *)
(* kind at a time.                                                         *)
(***************************************************************************)
EXTENDS Pairing, HubLifecycle, RuntimeSlot, DashboardAccess, EventStream, MCDirectorySend, TLC

VARIABLE topic

controlVars == <<pairVars, lifeVars, slotVars, accessVars, streamVars, batchVars, topic>>

ControlInit ==
    /\ topic \in {"pairing", "stop", "ready", "slot", "access", "stream", "batch"}
    /\ PairingInit /\ LifecycleInit /\ SlotInit /\ AccessInit /\ StreamInit /\ BatchInit
    /\ topic # "pairing" => framed = [m \in Machines |-> TRUE] /\ auto = [m \in Machines |-> FALSE]
    /\ topic # "batch" => tree = [f \in Entries |-> "absent"] /\ rooted /\ ~keyed /\ ~flatten

PairingStep ==
    /\ topic = "pairing" /\ PairingNext
    /\ UNCHANGED <<lifeVars, slotVars, accessVars, streamVars, batchVars, topic>>
LifecycleStep ==
    /\ \/ topic = "stop" /\ waits' = waits
       \/ topic = "ready" /\ stops' = stops
    /\ LifecycleNext
    /\ UNCHANGED <<pairVars, slotVars, accessVars, streamVars, batchVars, topic>>
SlotStep ==
    /\ topic = "slot" /\ SlotNext
    /\ UNCHANGED <<pairVars, lifeVars, accessVars, streamVars, batchVars, topic>>
AccessStep ==
    /\ topic = "access" /\ AccessNext
    /\ UNCHANGED <<pairVars, lifeVars, slotVars, streamVars, batchVars, topic>>
StreamStep ==
    /\ topic = "stream" /\ StreamNext
    /\ UNCHANGED <<pairVars, lifeVars, slotVars, accessVars, batchVars, topic>>

BatchStep ==
    /\ topic = "batch" /\ BatchNext
    /\ UNCHANGED <<pairVars, lifeVars, slotVars, accessVars, streamVars, topic>>

ControlNext == PairingStep \/ LifecycleStep \/ SlotStep \/ AccessStep \/ StreamStep \/ BatchStep
ControlSpec == ControlInit /\ [][ControlNext]_controlVars

Interchangeable == Permutations(Machines) \cup Permutations(Starts)
=============================================================================
