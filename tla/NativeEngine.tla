---------------------------- MODULE NativeEngine ----------------------------
(***************************************************************************)
(* The PipeWire owner thread of noired (crates/noired/src/native.rs): the  *)
(* loop run_native, which receives one command and then runs               *)
(* service_native, and everything those two call that changes state.       *)
(*                                                                         *)
(* The thread owns four things: the PipeWire connection (with its registry *)
(* monitor), the live graph, the last applied configuration and the        *)
(* observation clients read.  The environment owns the PipeWire server,    *)
(* the devices and the audio threads, and may act between any two steps of *)
(* the loop.  A command handler and a service pass are each one action:    *)
(* both run to completion on the one owner thread.                         *)
(***************************************************************************)
EXTENDS RecoveryOps, FiniteSets

CONSTANTS
    Device,            \* stable node names of physical inputs
    NoDevice,
    Configs,           \* the configurations clients may ask for
    NoConfig,          \* "applied" before the first command
    NoGraph,           \* "graph" when it is None
    COALESCE,          \* REGISTRY_COALESCE_MILLIS, in clock units
    RESET_INTERVAL     \* LIVE_FAILURE_RESET_INTERVAL, in clock units

InputPolicy ==
    [mode : {"selected", "follow-default"}, stable_id : Device \cup {NoDevice},
     fallback_to_default : BOOLEAN]

ASSUME ConfigAssumption ==
    /\ Configs \subseteq [active : BOOLEAN, input : InputPolicy, output : {"low", "balanced"}]
    /\ \A c \in Configs : c.input.mode = "selected" <=> c.input.stable_id # NoDevice
ASSUME AbsentAssumption ==
    /\ NoDevice \notin Device
    /\ NoConfig \notin Configs
ASSUME TimerAssumption ==
    /\ COALESCE \in Nat \ {0}
    /\ RESET_INTERVAL \in Nat \ {0}

VARIABLES
    world,       \* environment: PipeWire server, physical inputs, session default
    native,      \* connection, pending core failure, registry monitor, graph
    applied,     \* Option<Config>
    meter,       \* meter_monitoring
    obs,         \* Option<EngineObservation>
    rec,         \* the RecoveryController's schedule
    resetWait,   \* time until another live-failure reset is due
    at           \* where the loop is: waiting for a command, or about to service

vars == <<world, native, applied, meter, obs, rec, resetWait, at>>

View == [cands : SUBSET Device, def : Device \cup {NoDevice}]
Clean == -1    \* dirty_since_millis = None; otherwise the debounce time left

\* demand is the demand last served, running whether the capture stream is
\* asked to run, reset whether the generation command is ahead of the sink.
Graph == [target : Device, demand : BOOLEAN, meter : BOOLEAN, running : BOOLEAN,
          health : {"ok", "capture", "source"}, live : {"Running", "Failed"}, reset : BOOLEAN]
ASSUME GraphAssumption == NoGraph \notin Graph

Native == [conn : BOOLEAN, failure : BOOLEAN, view : View,
           dirty : {Clean} \cup 0..COALESCE, graph : Graph \cup {NoGraph}]

ErrorCode == {"pipewire-unavailable", "input-unavailable", "model-initialization-failed",
              "audio-graph-unavailable", "audio-meter-unavailable",
              "audio-stream-failed", "live-failed"}
\* "absent" is the None of Option<EngineObservation>; named says that the
\* input display name is not empty.
Observation == [state : {"absent", "Stopped", "Running", "Degraded"},
                fault : ErrorCode \cup {"none"}, named : BOOLEAN, devices : SUBSET Device]

\* One type invariant for the owner thread's state.
TypeOK ==
    /\ world \in [server : {"up", "refusing", "down"}, cands : SUBSET Device,
                  def : Device \cup {NoDevice}]
    /\ native \in Native
    /\ applied \in Configs \cup {NoConfig}
    /\ meter \in BOOLEAN
    /\ obs \in Observation
    /\ rec \in Schedule
    /\ resetWait \in 0..RESET_INTERVAL
    /\ at \in {"recv", "service"}

Init ==
    /\ world \in [server : {"up", "down"}, cands : {Device}, def : Device \cup {NoDevice}]
    /\ native = [conn |-> FALSE, failure |-> FALSE, view |-> [cands |-> {}, def |-> NoDevice],
                 dirty |-> Clean, graph |-> NoGraph]
    /\ applied = NoConfig
    /\ meter = FALSE
    /\ obs = [state |-> "absent", fault |-> "none", named |-> FALSE, devices |-> {}]
    /\ rec = Idle
    /\ resetWait = 0
    /\ at = "recv"

-----------------------------------------------------------------------------
(* The connection and its registry monitor.                                *)

\* The server answers on this connection.
Alive(n) == world.server # "down" /\ ~n.failure

\* A PipeWire call on the connection may be rejected.
MayReject(n) == world.server # "up" \/ n.failure

\* connect_default: the connections ensure_connection can return, none when it
\* fails.
EnsureConnection(n) ==
    IF n.conn THEN {n}
    ELSE IF world.server = "down" THEN {}
    ELSE {[n EXCEPT !.conn = TRUE, !.failure = FALSE, !.dirty = Clean,
                    !.view = [cands |-> {}, def |-> NoDevice]]}

\* upsert, remove and set_default_node_name mark the monitor dirty when they
\* change it, and the first change of a burst starts the debounce.
Updated(n, v) ==
    [n EXCEPT !.view = v, !.dirty = IF v # n.view /\ @ = Clean THEN COALESCE ELSE @]

\* Registry callbacks run by dispatch_once and refresh_registry: any of the
\* node events and of the default-metadata events still outstanding.
Dispatch(n) ==
    IF ~Alive(n) THEN {n}
    ELSE {Updated(n, [cands |-> c, def |-> d]) :
             c \in {n.view.cands, world.cands}, d \in {n.view.def, world.def}}

\* registry_snapshot_now, whose result is the view it leaves.
SnapshotNow(n) == [n EXCEPT !.dirty = Clean]

DefaultInput(v) == IF v.def \in v.cands THEN v.def ELSE NoDevice

\* RegistrySnapshot::resolve under the policy the input configuration gives.
Resolve(v, input) ==
    IF input.mode = "selected"
    THEN IF input.stable_id \in v.cands THEN input.stable_id
         ELSE IF input.fallback_to_default THEN DefaultInput(v)
         ELSE NoDevice
    ELSE DefaultInput(v)

-----------------------------------------------------------------------------
(* Observations.                                                           *)

OrDefault(o) == IF o.state = "absent" THEN [o EXCEPT !.state = "Stopped"] ELSE o

MarkDegraded(o, fault) ==
    [OrDefault(o) EXCEPT
        !.state = "Degraded",
        !.fault = CASE fault = "Core" -> "pipewire-unavailable"
                    [] fault \in {"CaptureStream", "SourceStream"} -> "audio-stream-failed"
                    [] OTHER -> "input-unavailable"]

ObserveGraph(g, active, named, devices) ==
    LET fault == IF active /\ g.live = "Failed" THEN "live-failed" ELSE "none"
    IN [state |-> IF ~active THEN "Stopped" ELSE IF fault = "none" THEN "Running" ELSE "Degraded",
        fault |-> fault, named |-> named, devices |-> devices]

ClassifyInitialFault(code) ==
    CASE code = "input-unavailable" -> "InputUnavailable"
      [] code = "audio-graph-unavailable" -> "CaptureStream"
      [] OTHER -> "Core"

-----------------------------------------------------------------------------
(* apply_native: the set of its outcomes [native, code, obs], where code   *)
(* is "ok" or the error it returns and obs is the Ok value.                *)

Outcome(n, code, o) == [native |-> n, code |-> code, obs |-> o]

StoppedOutcomes(n, prev, prevObs, cfg) ==
    LET stopped(devices) == [state |-> "Stopped", fault |-> "none", named |-> TRUE,
                             devices |-> devices]
        labelKept == /\ prev # NoConfig
                     /\ prev.input = cfg.input
                     /\ prevObs.named
    IN IF labelKept \/ EnsureConnection(n) = {}
       THEN {Outcome(n, "ok", stopped(prevObs.devices))}
       ELSE {Outcome(SnapshotNow(m), "ok", stopped(m.view.cands)) :
                m \in UNION {Dispatch(c) : c \in EnsureConnection(n)}}

\* The capture stream connects inactive, the source without a consumer.
NewGraph(target) == [target |-> target, demand |-> FALSE, meter |-> FALSE, running |-> FALSE,
                     health |-> "ok", live |-> "Running", reset |-> FALSE]

\* The rebuild branch: connection, registry round trip, resolution, model and
\* LiveGraph::connect_with_latency, each of which may return early.
Build(n, prevObs, cfg) ==
    IF EnsureConnection(n) = {}
    THEN {Outcome(n, "pipewire-unavailable", prevObs)}
    ELSE UNION {
        LET target == Resolve(m.view, cfg.input)
            kept   == SnapshotNow(m)
        IN IF target = NoDevice
           THEN {Outcome(kept, "input-unavailable", prevObs)}
           ELSE {Outcome([kept EXCEPT !.graph = NewGraph(target)], "ok",
                         [prevObs EXCEPT !.named = TRUE, !.devices = m.view.cands])}
                \cup IF MayReject(m)
                     THEN {Outcome(kept, code, prevObs) :
                             code \in {"model-initialization-failed", "audio-graph-unavailable"}}
                     ELSE {}
        : m \in UNION {Dispatch(c) : c \in EnsureConnection(n)}}

\* LiveGraph::set_meter_monitoring stores the flag, advances the capture
\* generation and only then asks PipeWire to change the stream's state.
SetGraphMeter(n, mtr) ==
    LET switched == [n EXCEPT !.graph.meter = mtr, !.graph.reset = TRUE]
    IN IF n.graph.meter = mtr
       THEN {[native |-> n, code |-> "ok"]}
       ELSE {[native |-> [switched EXCEPT !.graph.running = mtr \/ n.graph.demand], code |-> "ok"]}
            \cup IF MayReject(n) THEN {[native |-> switched, code |-> "audio-meter-unavailable"]}
                 ELSE {}

\* Mutant: a change of input alone reuses the old graph.
RebuildOnOutputOnly(n, prev, cfg) ==
    \/ n.graph = NoGraph
    \/ prev = NoConfig
    \/ prev.output # cfg.output

RequiresRebuild(n, prev, cfg) ==
    \/ n.graph = NoGraph
    \/ prev = NoConfig
    \/ prev.input # cfg.input
    \/ prev.output # cfg.output

\* The graph is dropped before the connection is touched, and the outcome of
\* a reused graph keeps the previous name and devices.
ApplyNative(n, prev, prevObs, cfg, mtr) ==
    IF ~cfg.active /\ ~mtr
    THEN StoppedOutcomes([n EXCEPT !.graph = NoGraph], prev, prevObs, cfg)
    ELSE LET built ==
               IF RequiresRebuild(n, prev, cfg)
               THEN Build([n EXCEPT !.graph = NoGraph], prevObs, cfg)
               ELSE {Outcome(n, "ok", [prevObs EXCEPT !.named = @ \/ prevObs.state = "absent"])}
             finish(b) ==
               {Outcome(s.native, s.code,
                        IF s.code = "ok"
                        THEN ObserveGraph(s.native.graph, cfg.active, b.obs.named, b.obs.devices)
                        ELSE prevObs) : s \in SetGraphMeter(b.native, mtr)}
         IN UNION {IF b.code = "ok" THEN finish(b) ELSE {b} : b \in built}

-----------------------------------------------------------------------------
(* The command handlers of run_native.  Each leaves the loop about to run  *)
(* service_native.                                                         *)

Received == at = "recv" /\ at' = "service"

HandleApply(cfg) ==
    /\ Received
    /\ \E o \in ApplyNative(native, applied, obs, cfg, meter) :
         \/ /\ o.code = "ok"
            /\ native' = o.native
            /\ applied' = cfg
            /\ obs' = o.obs
            /\ rec' = IF cfg.active THEN ScheduleRecovered(rec) ELSE ScheduleStop(rec)
         \/ /\ o.code # "ok"
            /\ applied # NoConfig
            /\ \E restored \in ApplyNative(o.native, NoConfig, obs, applied, meter) :
                 /\ native' = restored.native
                 /\ IF restored.code = "ok"
                    THEN obs' = restored.obs /\ rec' = ScheduleRecovered(rec)
                    ELSE UNCHANGED <<obs, rec>>
            /\ UNCHANGED applied
         \/ /\ o.code # "ok"
            /\ applied = NoConfig
            /\ native' = o.native
            /\ IF cfg.active
               THEN /\ applied' = cfg
                    /\ obs' = [obs EXCEPT !.state = "Degraded", !.fault = o.code]
                    /\ rec' = ScheduleFault(rec, ClassifyInitialFault(o.code))
               ELSE UNCHANGED <<applied, obs, rec>>
    /\ UNCHANGED <<world, meter, resetWait>>

HandleInputs ==
    /\ Received
    /\ IF EnsureConnection(native) = {}
       THEN UNCHANGED <<native, obs>>
       ELSE \E m \in UNION {Dispatch(c) : c \in EnsureConnection(native)} :
              /\ native' = SnapshotNow(m)
              /\ obs' = [OrDefault(obs) EXCEPT !.devices = m.view.cands,
                                               !.named = @ \/ obs.state = "absent"]
    /\ UNCHANGED <<world, applied, meter, rec, resetWait>>

Active == applied # NoConfig /\ applied.active

HandleObserve ==
    /\ Received
    /\ obs' = IF native.conn /\ native.graph # NoGraph /\ obs.state # "absent"
              THEN ObserveGraph(native.graph, Active, obs.named, obs.devices)
              ELSE OrDefault(obs)
    /\ UNCHANGED <<world, native, applied, meter, rec, resetWait>>

\* update_meter_monitoring: a configuration must have been applied for the
\* graph to change; the flag is stored only if it did not fail.
HandleMeter(enabled) ==
    /\ Received
    /\ IF applied = NoConfig
       THEN meter' = enabled /\ UNCHANGED <<native, obs>>
       ELSE \E o \in ApplyNative(native, applied, obs, applied, enabled) :
              /\ native' = o.native
              /\ obs' = o.obs
              /\ meter' = IF o.code = "ok" THEN enabled ELSE meter
    /\ UNCHANGED <<world, applied, rec, resetWait>>

\* recv_timeout expires after DISPATCH_QUANTUM without a command.
NoCommand == Received /\ UNCHANGED <<world, native, applied, meter, obs, rec, resetWait>>

-----------------------------------------------------------------------------
(* service_native.                                                         *)

\* Each stage takes and returns the owner's state as a record.
Owner == [native |-> native, obs |-> obs, rec |-> rec, resetWait |-> resetWait]

\* dispatch_once followed by take_failure.
AfterCoreFailure(s) ==
    IF s.native.conn /\ s.native.failure
    THEN [s EXCEPT !.native.conn = FALSE, !.native.failure = FALSE, !.native.graph = NoGraph,
                   !.native.dirty = Clean, !.native.view = [cands |-> {}, def |-> NoDevice],
                   !.obs = MarkDegraded(@, "Core"), !.rec = ScheduleFault(@, "Core")]
    ELSE s

\* registry_snapshot_if_due.
SnapshotDue(s) == s.native.conn /\ s.native.dirty = 0

AfterRegistry(s) ==
    IF SnapshotDue(s)
    THEN [s EXCEPT !.native = SnapshotNow(@),
                   !.obs.devices = IF s.obs.state = "absent" THEN @ ELSE s.native.view.cands]
    ELSE s

\* The fault that makes the graph unusable: its own health first, then a
\* published snapshot that resolves to another input or to none.
GraphFault(s, published) ==
    LET g == s.native.graph
        resolved == Resolve(s.native.view, applied.input)
    IN CASE g.health = "capture" -> "CaptureStream"
         [] g.health = "source" -> "SourceStream"
         [] g.health = "ok" /\ published /\ resolved = NoDevice -> "InputUnavailable"
         [] g.health = "ok" /\ published /\ resolved \notin {NoDevice, g.target} -> "DefaultChanged"
         [] OTHER -> NoFault

\* Mutant: the graph is discarded and no recovery scheduled.
DiscardedOnly(s, fault) ==
    [s EXCEPT !.native.graph = NoGraph, !.obs = MarkDegraded(@, fault)]

Invalidated(s, fault) ==
    [s EXCEPT !.native.graph = NoGraph, !.obs = MarkDegraded(@, fault),
              !.rec = ScheduleFault(@, fault)]

LiveFailureLatched(s) == s.native.graph.live = "Failed"
LiveFailureResetDue(s) == s.resetWait = 0

\* Mutant: the interval starts again on every pass that finds the failure.
NeverResetLive(s) ==
    IF LiveFailureLatched(s)
    THEN [s EXCEPT !.resetWait = RESET_INTERVAL]
    ELSE s

\* A live failure is reset by advancing the input generation, at most once
\* per RESET_INTERVAL.
AfterLiveFailure(s) ==
    IF LiveFailureLatched(s) /\ LiveFailureResetDue(s)
    THEN [s EXCEPT !.native.graph.reset = TRUE, !.resetWait = RESET_INTERVAL]
    ELSE s

\* LiveGraph::service_demand on a demand edge: the capture stream follows the
\* demand and forgets what it holds, except that it goes on for the meter.
KeepsRunning(n) == n.graph.demand /\ n.graph.meter

DemandEdge(n) ==
    IF KeepsRunning(n)
    THEN [n EXCEPT !.graph.demand = FALSE]
    ELSE [n EXCEPT !.graph.demand = ~@, !.graph.running = ~n.graph.demand, !.graph.reset = TRUE]

\* The graph stage.  Whether a demand edge is due is the consumers' choice; it
\* may be rejected by PipeWire if the capture stream is to follow it.
AfterGraph(s, published) ==
    IF s.native.graph = NoGraph \/ applied = NoConfig THEN {s}
    ELSE IF GraphFault(s, published) # NoFault
    THEN {Invalidated(s, GraphFault(s, published))}
    ELSE {AfterLiveFailure(s), AfterLiveFailure([s EXCEPT !.native = DemandEdge(@)])}
         \cup IF MayReject(s.native) /\ ~KeepsRunning(s.native)
              THEN {Invalidated(s, "CaptureStream")} ELSE {}

Wanted == applied # NoConfig /\ (applied.active \/ meter)

\* Mutant: a failed attempt is never reported to the controller, which stays
\* Attempting.
UnreportedFailure(s) ==
    IF ~Wanted THEN {[s EXCEPT !.rec = ScheduleStop(@)]}
    ELSE IF s.native.graph # NoGraph \/ ~PollDue(s.rec) THEN {s}
    ELSE {IF o.code = "ok"
          THEN [s EXCEPT !.native = o.native, !.obs = o.obs, !.rec = ScheduleRecovered(SchedulePoll(@))]
          ELSE [s EXCEPT !.native = o.native, !.obs = MarkDegraded(@, s.rec.fault),
                         !.rec = SchedulePoll(@)]
          : o \in ApplyNative(s.native, NoConfig, s.obs, applied, meter)}

\* The recovery stage.  The delay of a failed attempt counts from the time the
\* pass began, so the attempt's own duration is already part of it.
AfterRecovery(s) ==
    IF ~Wanted THEN {[s EXCEPT !.rec = ScheduleStop(@)]}
    ELSE IF s.native.graph # NoGraph \/ ~PollDue(s.rec) THEN {s}
    ELSE UNION {
        IF o.code = "ok"
        THEN {[s EXCEPT !.native = o.native, !.obs = o.obs, !.rec = ScheduleRecovered(SchedulePoll(@))]}
        ELSE {[s EXCEPT !.native = o.native, !.obs = MarkDegraded(@, s.rec.fault),
                        !.rec = ScheduleFailed(SchedulePoll(@), e)] : e \in 0..MaxElapsed}
        : o \in ApplyNative(s.native, NoConfig, s.obs, applied, meter)}

ServiceNative ==
    /\ at = "service" /\ at' = "recv"
    /\ \E n \in IF native.conn THEN Dispatch(native) ELSE {native} :
         LET dispatched == AfterCoreFailure([Owner EXCEPT !.native = n])
         IN \E g \in AfterGraph(AfterRegistry(dispatched), SnapshotDue(dispatched)) :
              \E s \in AfterRecovery(g) :
                /\ native' = s.native
                /\ obs' = s.obs
                /\ rec' = s.rec
                /\ resetWait' = s.resetWait
    /\ UNCHANGED <<world, applied, meter>>

-----------------------------------------------------------------------------
(* The environment.                                                        *)

\* The server stops, starts, or rejects what it is asked; stopping breaks an
\* open connection, which the next dispatch reports.
ServerChange(to) ==
    /\ world.server # to
    /\ world' = [world EXCEPT !.server = to]
    /\ native' = [native EXCEPT !.failure = @ \/ (native.conn /\ to = "down")]
    /\ UNCHANGED <<applied, meter, obs, rec, resetWait, at>>

\* An input is plugged in or out.
DeviceChange(d) ==
    /\ world' = [world EXCEPT !.cands = IF d \in @ THEN @ \ {d} ELSE @ \cup {d}]
    /\ UNCHANGED <<native, applied, meter, obs, rec, resetWait, at>>

DefaultChange(d) ==
    /\ world.def # d
    /\ world' = [world EXCEPT !.def = d]
    /\ UNCHANGED <<native, applied, meter, obs, rec, resetWait, at>>

\* A stream stops or rejects its format.
StreamFault(side) ==
    /\ native.graph # NoGraph
    /\ native' = [native EXCEPT !.graph.health = side]
    /\ UNCHANGED <<world, applied, meter, obs, rec, resetWait, at>>

\* A buffer may come: while the stream is asked to run, and also, for the last
\* ones, once it was stopped, which left the generation command ahead.
MayCapture == native.graph # NoGraph /\ (native.graph.running \/ native.graph.reset)

\* The capture callback latches a model or transport failure.
LiveFailure ==
    /\ MayCapture
    /\ native' = [native EXCEPT !.graph.live = "Failed"]
    /\ UNCHANGED <<world, applied, meter, obs, rec, resetWait, at>>

\* The next capture buffer applies an advanced input generation, which resets
\* the live sink.
CaptureReset ==
    /\ MayCapture
    /\ native.graph.reset
    /\ native' = [native EXCEPT !.graph.reset = FALSE, !.graph.live = "Running"]
    /\ UNCHANGED <<world, applied, meter, obs, rec, resetWait, at>>

\* Time passes for the backoff, the registry debounce and the reset interval.
Tick ==
    /\ rec.wait > 0 \/ native.dirty > 0 \/ resetWait > 0
    /\ rec' = TickDown(rec)
    /\ native' = [native EXCEPT !.dirty = IF @ > 0 THEN @ - 1 ELSE @]
    /\ resetWait' = SaturatingSub(resetWait, 1)
    /\ UNCHANGED <<world, applied, meter, obs, at>>

Commands ==
    \/ \E cfg \in Configs : HandleApply(cfg)
    \/ HandleInputs
    \/ HandleObserve
    \/ \E enabled \in BOOLEAN : HandleMeter(enabled)
    \/ NoCommand

Disturbance ==
    \/ \E to \in {"up", "refusing", "down"} : ServerChange(to)
    \/ \E d \in Device : DeviceChange(d)
    \/ \E d \in Device \cup {NoDevice} : DefaultChange(d)
    \/ \E side \in {"capture", "source"} : StreamFault(side)
    \/ LiveFailure

Next == Commands \/ ServiceNative \/ CaptureReset \/ Tick \/ Disturbance

Spec == Init /\ [][Next]_vars

-----------------------------------------------------------------------------
(* Safety.                                                                 *)

\* The loop is back at recv_timeout: what a pass of the loop leaves behind.
Settled == at = "recv"

\* While an input is selected explicitly and falling back is not allowed, the
\* graph captures from that input and no other, through every rebuild, restore
\* and recovery: audio never comes from a microphone the user did not choose.
SelectedInputRespected ==
    /\ native.graph # NoGraph
    /\ applied # NoConfig
    /\ applied.input.mode = "selected"
    /\ ~applied.input.fallback_to_default
    => native.graph.target = applied.input.stable_id

\* A service pass that takes away a wanted graph leaves an attempt scheduled
\* and the loss published: the loop never drops a graph and forgets it.
LostGraphRecovers ==
    [][ /\ at = "service" /\ at' = "recv"
        /\ native.graph # NoGraph /\ native'.graph = NoGraph
        /\ Wanted
        => rec'.phase = "Backoff" /\ obs'.state = "Degraded" ]_vars

-----------------------------------------------------------------------------
(* Liveness.                                                               *)

\* The registry events outstanding are delivered while a pass dispatches.
ServiceDelivering ==
    ServiceNative /\ (native'.conn => native'.view = [cands |-> world.cands, def |-> world.def])

\* The server is up and the session default is a usable input.
WorldUsable == world.server = "up" /\ DefaultInput(world) # NoDevice

\* Once the server is up for good and the default input usable, a graph that
\* recovery is pending for is rebuilt, again and again if need be: no
\* sequence of commands and faults leaves the backoff without an end.
BackoffConverges ==
    <>[]WorldUsable => []<>(rec.phase = "Healthy" \/ native.graph # NoGraph)

\* Capture buffers keep coming: a consumer or the meter has the stream running,
\* the connection lives and the input is there.
BuffersArrive ==
    /\ native.graph # NoGraph /\ native.graph.running
    /\ Alive(native) /\ native.graph.target \in world.cands

\* While buffers come, a latched live failure does not silence the graph of an
\* applied configuration for good: the poll in service_native resets it, or
\* the graph is replaced.  Without buffers nothing applies the reset, and the
\* failure stays until a consumer is back.
LiveFailureClears ==
    LET silenced == applied # NoConfig /\ BuffersArrive /\ native.graph.live = "Failed"
    IN silenced ~> ~silenced

-----------------------------------------------------------------------------
(* What comments of the code say and the code does not do.                 *)

\* RecoveryPhase::Healthy: "The intended graph is currently realized."
HealthyIsRealized == Settled /\ rec.phase = "Healthy" /\ Active => native.graph # NoGraph

=============================================================================
