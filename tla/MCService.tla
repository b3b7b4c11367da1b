------------------------------ MODULE MCService ------------------------------
(***************************************************************************)
(* The instance of DaemonService for TLC: two viewers with one fault while *)
(* launch at login stays as it is, and one viewer with all faults while it *)
(* is changed, from every combination of unit and configuration.           *)
(***************************************************************************)
EXTENDS DaemonService

CONSTANTS v1, v2

Together ==
    /\ alive = Viewer /\ changes = MaxChanges /\ faults = MaxFaults - 1
    /\ ~config /\ ~unit /\ ~parted
Alone == alive = {v1} /\ changes = 0 /\ faults = 0

MCInit ==
    /\ alive \in SUBSET Viewer /\ changes \in {0, MaxChanges}
    /\ subs = {} /\ turn = Nothing /\ flag = FALSE /\ prune = NotPruning
    /\ request = Nothing /\ queue = <<>> /\ work = Nothing
    /\ metering = FALSE /\ hung = FALSE
    /\ launch = [stage |-> "idle", to |-> FALSE]
    /\ config \in BOOLEAN /\ file = config
    /\ unit \in BOOLEAN /\ parted = (unit # config) /\ torn = FALSE
    /\ acked = {} /\ late = FALSE /\ lost = FALSE
    /\ faults \in 0..MaxFaults
    /\ Together \/ Alone

MCSpec == MCInit /\ [][Next]_vars /\ Fairness
=============================================================================
