------------------------------ MODULE MCNative ------------------------------
(***************************************************************************)
(* NativeEngine for TLC: at most MaxDisturbances events of the environment,*)
(* and any number of commands, service passes and clock ticks.             *)
(***************************************************************************)
EXTENDS NativeEngine

CONSTANTS d1, d2, MaxDisturbances

VARIABLE disturbances

Follow == [mode |-> "follow-default", stable_id |-> NoDevice, fallback_to_default |-> FALSE]
Select(d, f) == [mode |-> "selected", stable_id |-> d, fallback_to_default |-> f]
Config(active, input) == [active |-> active, input |-> input, output |-> "balanced"]

MCDevice == {d1, d2}
MCOneDevice == {d1}
MCStartStop == {Config(TRUE, Follow), Config(FALSE, Follow)}
MCConfigs == {Config(TRUE, Follow), Config(FALSE, Follow), Config(TRUE, Select(d1, FALSE))}

MCInit == Init /\ disturbances = 0
MCNext ==
    \/ Commands /\ UNCHANGED disturbances
    \/ ServiceNative /\ UNCHANGED disturbances
    \/ CaptureReset /\ UNCHANGED disturbances
    \/ Tick /\ UNCHANGED disturbances
    \/ /\ disturbances < MaxDisturbances
       /\ Disturbance
       /\ disturbances' = disturbances + 1

mcvars == <<vars, disturbances>>

MCSpec == MCInit /\ [][MCNext]_mcvars

\* The owner loop never stops (recv_timeout bounds its wait), time passes, and
\* a registry round trip with a running server completes.  Capture buffers
\* keep coming while a consumer or the meter holds the stream of an input that
\* is there, and only then.
MCFairness ==
    /\ WF_mcvars(Commands /\ UNCHANGED disturbances)
    /\ WF_mcvars(ServiceNative /\ UNCHANGED disturbances)
    /\ SF_mcvars(ServiceDelivering /\ UNCHANGED disturbances)
    /\ WF_mcvars(Tick /\ UNCHANGED disturbances)
    /\ WF_mcvars(CaptureReset /\ BuffersArrive /\ UNCHANGED disturbances)

MCFairSpec == MCSpec /\ MCFairness
=============================================================================
