---------------------------- MODULE DaemonService ----------------------------
(***************************************************************************)
(* The D-Bus object of the daemon (service.rs) where its handlers overlap: *)
(* the subscribers of the meters with the monitor that prunes them, the    *)
(* requests that reach the audio owner thread for them, and                *)
(* set_launch_at_login, which awaits the systemd manager.                  *)
(*                                                                         *)
(* Handlers are tasks of a runtime with one thread.  They interleave where *)
(* they await: a mutex, the bus, the manager.  A request to the owner      *)
(* thread is no such point: the runtime's thread blocks in recv_timeout,   *)
(* and until it returns only the owner thread moves.  The daemon's other   *)
(* operations (ControlPlane) are one request here, "other".                *)
(***************************************************************************)
EXTENDS Integers, Sequences

CONSTANTS
    Viewer,       \* the clients, by their unique bus names
    Monitor,      \* the monitor task, as the one who switches the metering off
    Nothing,      \* no request, no command, no holder
    Capacity,     \* COMMAND_CAPACITY
    MaxFaults,    \* bound: timeouts, errors of the owner, the bus, the manager
    MaxChanges    \* bound: changes of launch at login

ASSUME ServiceAssumption ==
    Monitor \notin Viewer /\ Capacity \in Nat \ {0} /\ MaxFaults \in Nat /\ MaxChanges \in Nat

VARIABLES
    alive,     \* the clients that are on the bus
    subs,      \* meter_subscribers
    turn,      \* who holds the mutex of meter_subscribers across a request
    flag,      \* meter_monitoring of the service
    prune,     \* prune_meter_subscribers: the names still to ask for, the gone
    request,   \* the request in which the runtime's thread is blocked
    queue,     \* the bounded channel to the owner thread
    work,      \* the command the owner thread executes
    metering,  \* meter_monitoring of the owner thread
    hung,      \* the owner thread never returns from its command
    launch,    \* set_launch_at_login: where it awaits the manager
    config,    \* launch_at_login of the configuration the daemon runs with
    file,      \* launch_at_login of the saved one
    unit,      \* whether the user unit is enabled
    acked,     \* history: clients whose newest subscription was answered Ok
    late,      \* history: a switch of the metering timed out in execution, and
               \* none has been carried out for its caller since
    lost,      \* history: the bus failed to tell whether a client is there
    parted,    \* history: why unit and configuration may differ
    torn,      \* history: a save of launch at login failed, and the file has
               \* not been replaced since
    faults, changes

meters == <<alive, subs, turn, flag, prune, acked, lost>>
engine == <<request, queue, work, metering, hung, late>>
login == <<launch, config, file, unit, parted, torn, changes>>
vars == <<meters, engine, login, faults>>

Do == {"on", "off", "other"}
Command == [do : Do, cancelled : BOOLEAN]
Switch == [by : Viewer \cup {Monitor}, do : {"on", "off"}]
Request == [do : Do, reply : {Nothing, "ok", "err"}]
Stage == {"idle", "asked", "undoing"}

ASSUME NothingAssumption ==
    Nothing \notin Switch /\ Nothing \notin Command /\ Nothing \notin Request
    /\ Nothing \notin {"ok", "err"}

TypeOK ==
    /\ alive \subseteq Viewer /\ subs \subseteq Viewer /\ acked \subseteq Viewer
    /\ turn \in Switch \cup {Nothing}
    /\ flag \in BOOLEAN /\ metering \in BOOLEAN /\ hung \in BOOLEAN
    /\ prune \in [todo : SUBSET Viewer, gone : SUBSET Viewer, running : BOOLEAN]
    /\ request \in Request \cup {Nothing}
    /\ queue \in Seq(Command) /\ Len(queue) <= Capacity
    /\ work \in Command \cup {Nothing}
    /\ launch \in [stage : Stage, to : BOOLEAN]
    /\ config \in BOOLEAN /\ file \in BOOLEAN /\ unit \in BOOLEAN
    /\ late \in BOOLEAN /\ lost \in BOOLEAN /\ parted \in BOOLEAN /\ torn \in BOOLEAN
    /\ faults \in 0..MaxFaults /\ changes \in 0..MaxChanges

NotPruning == [todo |-> {}, gone |-> {}, running |-> FALSE]

\* The daemon runs with the file it found.  The unit may differ from it: it was
\* switched by hand, the configuration was replaced by the default, or a save
\* that failed had reached the file of the daemon before.
Init ==
    /\ alive = Viewer /\ subs = {} /\ turn = Nothing /\ flag = FALSE
    /\ prune = NotPruning
    /\ request = Nothing /\ queue = <<>> /\ work = Nothing
    /\ metering = FALSE /\ hung = FALSE
    /\ launch = [stage |-> "idle", to |-> FALSE]
    /\ config \in BOOLEAN /\ file = config
    /\ unit \in BOOLEAN /\ parted = (unit # config) /\ torn = FALSE
    /\ acked = {} /\ late = FALSE /\ lost = FALSE
    /\ faults = 0 /\ changes = 0

Fault == faults < MaxFaults /\ faults' = faults + 1
Blocked == request # Nothing          \* the only thread of the runtime
DaemonFree == launch.stage = "idle"   \* nobody awaits under its mutex
SetFree == turn = Nothing             \* the mutex of meter_subscribers

-----------------------------------------------------------------------------
(***************************************************************************)
(* Clients of the meters, and the monitor's pruning.                       *)
(***************************************************************************)
\* The set is locked until the request for the first subscriber is answered.
SubscribeMeters(v) ==
    /\ ~Blocked /\ SetFree /\ v \in alive
    /\ subs' = subs \cup {v}
    /\ IF v \notin subs /\ ~flag
       THEN turn' = [by |-> v, do |-> "on"] /\ UNCHANGED acked
       ELSE acked' = acked \cup {v} /\ UNCHANGED turn
    /\ UNCHANGED <<alive, flag, prune, lost, engine, login, faults>>

UnsubscribeMeters(v) ==
    /\ ~Blocked /\ SetFree /\ v \in alive
    /\ subs' = subs \ {v}
    /\ acked' = acked \ {v}
    /\ turn' = IF subs = {v} /\ flag THEN [by |-> v, do |-> "off"] ELSE turn
    /\ UNCHANGED <<alive, flag, prune, lost, engine, login, faults>>

\* A client leaves the bus; a unique name is never used again.
Disconnect(v) ==
    /\ v \in alive
    /\ alive' = alive \ {v}
    /\ UNCHANGED <<subs, turn, flag, prune, acked, lost, engine, login, faults>>

\* Mutant: prune_meter_subscribers stores what it kept of its copy.
PruneCopyReplaces ==
    /\ ~Blocked /\ SetFree /\ ~prune.running
    /\ prune' = [todo |-> subs, gone |-> Viewer \ subs, running |-> TRUE]
    /\ UNCHANGED <<alive, subs, turn, flag, acked, lost, engine, login, faults>>

\* A failure to create the bus proxy returns without a change.
PruneCopy ==
    /\ ~Blocked /\ SetFree /\ ~prune.running
    /\ prune' = [todo |-> subs, gone |-> {}, running |-> TRUE]
    /\ UNCHANGED <<alive, subs, turn, flag, acked, lost, engine, login, faults>>

\* An error of the bus counts as a name without an owner.
PruneAsk(v) ==
    /\ ~Blocked /\ v \in prune.todo
    /\ \/ /\ prune' = [prune EXCEPT !.todo = @ \ {v},
                                    !.gone = IF v \in alive THEN @ ELSE @ \cup {v}]
          /\ UNCHANGED <<lost, faults>>
       \/ /\ prune' = [prune EXCEPT !.todo = @ \ {v}, !.gone = @ \cup {v}]
          /\ lost' = TRUE /\ Fault
    /\ UNCHANGED <<alive, subs, turn, flag, acked, engine, login>>

\* Mutant: the metering is switched off only when the last name has just been removed.
PruneRemoveOnce ==
    /\ ~Blocked /\ SetFree /\ prune.running /\ prune.todo = {}
    /\ subs' = subs \ prune.gone
    /\ prune' = NotPruning
    /\ turn' = IF subs # {} /\ subs' = {} /\ flag
               THEN [by |-> Monitor, do |-> "off"] ELSE turn
    /\ UNCHANGED <<alive, flag, acked, lost, engine, login, faults>>

PruneRemove ==
    /\ ~Blocked /\ SetFree /\ prune.running /\ prune.todo = {}
    /\ subs' = subs \ prune.gone
    /\ prune' = NotPruning
    /\ turn' = IF subs' = {} /\ flag THEN [by |-> Monitor, do |-> "off"] ELSE turn
    /\ UNCHANGED <<alive, flag, acked, lost, engine, login, faults>>

\* What the holder of the set does with the answer to its request.
Settled(ok) ==
    /\ turn' = Nothing
    /\ flag' = IF ok THEN turn.do = "on" ELSE flag
    /\ subs' = IF ok \/ turn.by = Monitor THEN subs
               ELSE IF turn.do = "on" THEN subs \ {turn.by} ELSE subs \cup {turn.by}
    /\ acked' = IF ok /\ turn.do = "on" THEN acked \cup {turn.by} ELSE acked
    /\ UNCHANGED <<alive, prune, lost>>

-----------------------------------------------------------------------------
(***************************************************************************)
(* Requests: NativeAudioEngine::request_with_timeout and the owner thread. *)
(***************************************************************************)
Ready == ~Blocked /\ DaemonFree
TrySend(do) ==
    /\ Len(queue) < Capacity
    /\ queue' = Append(queue, [do |-> do, cancelled |-> FALSE])
    /\ request' = [do |-> do, reply |-> Nothing]
    /\ UNCHANGED <<work, metering, hung, late>>

SetMeterMonitoring ==
    /\ Ready /\ turn # Nothing
    /\ \/ TrySend(turn.do) /\ UNCHANGED meters
       \/ Len(queue) = Capacity /\ Settled(FALSE) /\ UNCHANGED engine
    /\ UNCHANGED <<login, faults>>

\* A full channel answers an error and changes nothing here.
OtherOperation == Ready /\ TrySend("other") /\ UNCHANGED <<meters, login, faults>>

\* recv_timeout gives up: the command is marked, wherever it is.
Cancel(command) == [command EXCEPT !.cancelled = TRUE]
\* Mutant: a command that is being executed is waited for.
TimeoutQueued ==
    /\ Blocked /\ request.reply = Nothing /\ queue # <<>>
    /\ request' = [request EXCEPT !.reply = "err"]
    /\ queue' = [i \in DOMAIN queue |-> Cancel(queue[i])]
    /\ \/ hung /\ UNCHANGED faults
       \/ ~hung /\ Fault
    /\ UNCHANGED <<meters, work, metering, hung, late, login>>

Timeout ==
    /\ Blocked /\ request.reply = Nothing
    /\ request' = [request EXCEPT !.reply = "err"]
    /\ queue' = [i \in DOMAIN queue |-> Cancel(queue[i])]
    /\ work' = IF work = Nothing THEN work ELSE Cancel(work)
    /\ late' = (late \/ (work # Nothing /\ ~work.cancelled /\ work.do # "other"))
    /\ \/ hung /\ UNCHANGED faults
       \/ ~hung /\ Fault
    /\ UNCHANGED <<meters, metering, hung, login>>

\* Another setting is saved with the whole configuration.
Resave ==
    /\ file' = config /\ torn' = FALSE
    /\ UNCHANGED <<launch, config, unit, parted, changes>>

Return ==
    /\ Blocked /\ request.reply # Nothing
    /\ request' = Nothing
    /\ IF request.do = "other" THEN UNCHANGED meters ELSE Settled(request.reply = "ok")
    /\ \/ UNCHANGED login
       \/ request = [do |-> "other", reply |-> "ok"] /\ Resave
    /\ UNCHANGED <<queue, work, metering, hung, late, faults>>

\* The owner thread skips a command that is cancelled when it is taken.
Take ==
    /\ ~hung /\ work = Nothing /\ queue # <<>>
    /\ queue' = Tail(queue)
    /\ work' = IF Head(queue).cancelled THEN Nothing ELSE Head(queue)
    /\ UNCHANGED <<meters, request, metering, hung, late, login, faults>>

Executed(ok) ==
    /\ ~hung /\ work # Nothing
    /\ metering' = IF ok /\ work.do # "other" THEN work.do = "on" ELSE metering
    /\ request' = IF work.cancelled THEN request
                  ELSE [request EXCEPT !.reply = IF ok THEN "ok" ELSE "err"]
    /\ late' = (late /\ (work.cancelled \/ work.do = "other" \/ ~ok))
    /\ work' = Nothing
    /\ UNCHANGED <<meters, queue, hung, login>>

Execute == \/ Executed(TRUE) /\ UNCHANGED faults
           \/ Executed(FALSE) /\ Fault

\* A call into PipeWire that never returns.
Hang ==
    /\ ~hung /\ work # Nothing /\ hung' = TRUE
    /\ UNCHANGED <<meters, request, queue, work, metering, late, login, faults>>

-----------------------------------------------------------------------------
(***************************************************************************)
(* Launch at login.  The manager changes the unit and is then told to      *)
(* reload; either may fail, and nobody is waited for longer.               *)
(***************************************************************************)
SetLaunchAtLogin ==
    /\ Ready
    /\ launch' = [stage |-> "asked", to |-> ~config]
    /\ changes < MaxChanges /\ changes' = changes + 1
    /\ UNCHANGED <<config, file, unit, parted, torn, meters, engine, faults>>

LaunchDone == launch' = [launch EXCEPT !.stage = "idle"]

\* set_enabled fails before or after the unit has changed: no rollback.
ManagerFails ==
    /\ launch.stage = "asked" /\ LaunchDone
    /\ unit' \in {unit, launch.to}
    /\ parted' = (parted \/ unit' # unit)
    /\ Fault /\ UNCHANGED <<config, file, torn, changes, meters, engine>>

Saved == config' = launch.to /\ file' = launch.to /\ parted' = FALSE /\ torn' = FALSE

\* What fails may be the sync after the rename: the file may be replaced already.
SaveFails ==
    /\ Fault
    /\ file' \in {file, launch.to} /\ torn' = TRUE
    /\ UNCHANGED <<config, parted>>

\* Mutant: a failed save is reported without a rollback.
ManagerSucceedsForGood ==
    /\ ~Blocked /\ launch.stage = "asked"
    /\ unit' = launch.to /\ LaunchDone
    /\ \/ Saved /\ UNCHANGED faults
       \/ SaveFails
    /\ UNCHANGED <<changes, meters, engine>>

ManagerSucceeds ==
    /\ ~Blocked /\ launch.stage = "asked"
    /\ unit' = launch.to
    /\ \/ Saved /\ LaunchDone /\ UNCHANGED faults
       \/ SaveFails /\ launch' = [launch EXCEPT !.stage = "undoing"]
    /\ UNCHANGED <<changes, meters, engine>>

\* The save failed.  The rollback's own failure is part of the error's text.
Rollback ==
    /\ ~Blocked /\ launch.stage = "undoing" /\ LaunchDone
    /\ \/ unit' = ~launch.to /\ parted' = FALSE /\ UNCHANGED faults
       \/ unit' \in {unit, ~launch.to} /\ parted' = TRUE /\ Fault
    /\ UNCHANGED <<config, file, torn, changes, meters, engine>>

-----------------------------------------------------------------------------
Owner == Take \/ Execute
Pruning == PruneCopy \/ PruneRemove \/ \E v \in Viewer : PruneAsk(v)

Next ==
    \/ \E v \in Viewer : SubscribeMeters(v) \/ UnsubscribeMeters(v) \/ Disconnect(v)
    \/ Pruning
    \/ SetMeterMonitoring \/ OtherOperation \/ Timeout \/ Return
    \/ Owner \/ Hang
    \/ SetLaunchAtLogin \/ ManagerFails \/ ManagerSucceeds \/ Rollback

\* The owner thread runs, the timer of a blocked request fires, and tasks get
\* their turn: tokio's mutexes are handed over in the order of arrival, which
\* makes a wait that is interrupted again and again end.  Nothing is assumed
\* of clients, of the bus or of the manager.
Fairness ==
    /\ WF_vars(Owner)
    /\ WF_vars(hung /\ Timeout)
    /\ WF_vars(Return)
    /\ SF_vars(SetMeterMonitoring)
    /\ SF_vars(PruneCopy)
    /\ SF_vars(PruneRemove)
    /\ \A v \in Viewer : SF_vars(PruneAsk(v))

Spec == Init /\ [][Next]_vars /\ Fairness

-----------------------------------------------------------------------------
\* A client that has been told it is subscribed stays subscribed as long as
\* it is there and does not unsubscribe, although prune_meter_subscribers
\* decides on a copy of the set: only an error of the bus removes it.
SubscriptionsStay == lost \/ (acked \cap alive) \subseteq subs

\* Except while a switch is asked for, the service's flag is the owner thread's,
\* and set as long as anybody subscribes: they differ only after a switch that
\* was carried out although it had been given up.
MonitoringAgrees ==
    SetFree => /\ subs # {} => flag
               /\ metering = flag \/ late

\* Whenever no change is in progress, the unit agrees with the configuration the
\* daemon runs with, unless the manager failed after it had changed the unit or
\* failed to change it back.  With the saved one, which the next daemon will run
\* with, it agrees except in these cases and after a save that was reported as
\* failed and rolled back, which the file may hold all the same.
UnitFollowsConfig ==
    DaemonFree => /\ unit # config => parted
                  /\ unit # file => parted \/ torn

\* When every client has gone the metering ends, and with it the capture:
\* prune_meter_subscribers asks again until the owner thread has confirmed it.
MetersReleased ==
    <>[](alive = {} /\ ~hung) /\ []<>DaemonFree => <>[](metering => late)

\* The mutex of the subscribers is released although the owner thread hangs
\* and the channel fills with cancelled commands: unless the manager leaves
\* set_launch_at_login without an answer.
CallsReturn == []<>DaemonFree => (turn # Nothing ~> turn = Nothing)
=============================================================================
