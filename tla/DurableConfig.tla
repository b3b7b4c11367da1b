--------------------------- MODULE DurableConfig ---------------------------
(***************************************************************************)
(* What a configuration store promises across failures: the configuration  *)
(* a restart finds is the last one that was saved successfully, or one     *)
(* whose save was begun since and not acknowledged.  Somebody else may     *)
(* replace the files once; from then on a restart may find that as well.   *)
(***************************************************************************)
CONSTANTS
    Config,   \* valid configurations
    None      \* no daemon runs, no save is in progress

VARIABLES
    current,  \* the configuration the running daemon loaded or saved last
    saving,   \* the configuration being saved
    holds,    \* the configurations a restart may find
    edited    \* the files were replaced from outside

vars == <<current, saving, holds, edited>>

Init ==
    /\ current = None /\ saving = None
    /\ \E c \in Config : holds = {c}
    /\ edited = FALSE

\* A daemon starts with one of them.
Start ==
    /\ current = None
    /\ \E c \in holds : current' = c
    /\ UNCHANGED <<saving, holds, edited>>

Begin ==
    /\ current # None /\ saving = None
    /\ \E c \in Config : saving' = c
    /\ UNCHANGED <<current, holds, edited>>

\* From here on a restart may find the new configuration, or the old one.
Reach ==
    /\ saving # None
    /\ holds' = holds \cup {saving}
    /\ UNCHANGED <<current, saving, edited>>

\* Only when a restart cannot find another one is the save acknowledged.
Acknowledge ==
    /\ saving # None
    /\ holds' = {saving}
    /\ current' = saving
    /\ saving' = None
    /\ UNCHANGED edited

Fail ==
    /\ saving # None
    /\ saving' = None
    /\ UNCHANGED <<current, holds, edited>>

\* The process ends and the files stay as they are.
Exit ==
    /\ current # None
    /\ current' = None /\ saving' = None
    /\ UNCHANGED <<holds, edited>>

\* The machine stops: what was not forced to the disk is kept or lost.
PowerLoss ==
    /\ \E c \in holds : holds' = {c}
    /\ current' = None /\ saving' = None
    /\ UNCHANGED edited

Replace ==
    /\ ~edited /\ saving = None
    /\ \E new \in SUBSET Config : holds' = holds \cup new
    /\ edited' = TRUE
    /\ UNCHANGED <<current, saving>>

Next == Start \/ Begin \/ Reach \/ Acknowledge \/ Fail \/ Exit \/ PowerLoss \/ Replace

DCSpec == Init /\ [][Next]_vars
=============================================================================
