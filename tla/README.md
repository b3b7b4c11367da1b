# Noire: a TLA+ verification development

Noire is a noise suppressor for the Linux desktop. A daemon (`noired`) captures a
microphone through PipeWire, runs it through a neural model and offers the result as
a virtual source. Clients (a GPUI window, a tray, `noirectl`) control the daemon over
D-Bus. This directory models the parts of it whose correctness depends on order:
threads that meet in a lock-free ring and a sequence lock, a command channel with
timeouts, recovery from failures of the sound server, a configuration file that must
survive crashes, consumers and meters that come and go, and a desktop program that
follows a daemon which others change and restart.

Source paths below are relative to the repository's `crates/` directory.

## 1. Inventory

### 1.1 Threads and processes

| who | where | talks to |
|---|---|---|
| the portable launcher | `packaging/appimage/AppRun` | session lock, activation file, stale daemons |
| the desktop program: main thread, one worker per window, the tray's controller and its worker | `noire-ui` | the daemon, by D-Bus calls and signals; each other, by bounded channels and one shared flag |
| `noirectl` | `noirectl` | the daemon, one call per process |
| D-Bus handlers and the monitor, which ticks every 40 ms | `noired/src/service.rs`, `lib.rs`, `main.rs` | the daemon's state, under one async mutex held for a whole operation; one runtime thread runs them all |
| the daemon state machine `Daemon` | `noired/src/control.rs` | the config store, by calls; the systemd manager; the owner thread, by a bounded channel |
| the PipeWire owner thread | `noired/src/native.rs` | PipeWire connection, registry, graph; it owns them all |
| capture callback (real time) | `noire-pipewire/src/capture.rs`, `live.rs` | the model, the bypass ring (producer), the parameters (reader) |
| source callback (real time) | `noire-pipewire/src/source.rs` | the bypass ring (consumer), the audio command word |

### 1.2 Components

For each: the state it keeps, its operations, and what makes it correct.

* **Recovery controller** (`noired/src/recovery.rs`). State: phase, fault, attempt
  number, deadline, generation, four counters. Operations: `fault`, `poll`, `failed`,
  `recovered`, `stop`. Correct when an episode always has a fault, repeated reports
  never push the pending attempt away, the delay is bounded and its arithmetic never
  overflows, and the most severe classification of an episode stands.
* **PipeWire owner thread** (`noired/src/native.rs`). State: connection, registry
  monitor, live graph, last applied configuration, metering flag, published
  observation, recovery controller. One loop: receive a command (apply, inputs,
  observe, metering) or time out, then a service pass (dispatch, registry, graph,
  recovery). Correct when the input in use is the one the user chose, a lost graph is
  always scheduled for recovery, recovery ends when nothing wants the graph, and
  recovery succeeds once the world allows it.
* **Command channel and daemon state machine** (`NativeAudioEngine` in `native.rs`,
  `control.rs`). State: configuration, revision, observation, a `sync_channel` of
  commands with a cancellation flag each. Operations: construction, snapshot, start,
  stop, the setters, retry, observation. Correct when an update is never lost between
  clients, what was acknowledged is on disk, a reply reaches its own request, and a
  command that was given up does not take effect.
* **Configuration store** (`noire-config/src/lib.rs`). State: primary and backup file,
  temporary names, whether the loaded schema may be written. Operations: `load`, `save`.
  Correct when a crash at any step leaves the old or the new configuration, a newer
  schema is never overwritten, some readable copy always stays, and what is saved reads
  back as what the daemon runs with, whatever schema the file had before.
* **Bypass transport** (`noire-pipewire/src/bypass.rs`, with the audio commands of
  `source.rs` and the ramp of `noire-dsp/src/fault.rs`). State: an SPSC ring of samples
  tagged with a generation, the shared generation, a publication gate, the consumer's
  startup state and fade. Correct when nothing is heard twice, out of order or after it
  was invalidated, and no block splices two moments.
* **Live graph** (`graph.rs`), **capture stream** (`capture.rs`) and **virtual source**
  (`source.rs`), all in `noire-pipewire/src`. State: the consumer's demand with its
  debounce, the meter flag, the capture's activity, input generations, a word of
  commands for the audio thread. Correct when the microphone is open exactly while
  somebody wants it, and a new listener hears nothing from before.
* **Capture boundary** (`capture.rs`, `format.rs`): negotiated formats, buffers with
  metadata nobody vouches for, telemetry read field by field. Correct when a stream in
  the wrong format is stopped and a level is never shown under another input's
  generation.
* **Live processing sink** (`live.rs`). State: parameters behind a sequence lock, a
  failure latch, a deadline window, fail modes. Correct when parameters are adopted as
  they were published, a failed sink stays silent unless told otherwise, and telemetry
  says so.
* **Signal path** (`noire-dsp`: frame assembler, dry delay, ramps, mixer; the model
  contract of `noire-model`). Correct when the two samples that are mixed are of the
  same instant, nothing is lost or repeated, and the strength never jumps.
* **Input registry** (`registry.rs`, `connection.rs`). State: nodes, the default, a
  coalescing window, the published snapshot. Correct when a stored choice never becomes
  another device and the list is never out of date for longer than its window.
* **D-Bus service** (`noired/src/service.rs`): the meter subscribers with pruning.
  **Launch at login** (`systemd.rs`, `control.rs`): unit and configuration. Correct when
  a subscriber stays one, metering ends with the last, the unit follows the
  configuration, and every call returns.
* **Desktop program** (`noire-ui`): the worker (`client.rs`), the tray's controller, the
  window's view (`app.rs`), tray hosts (`tray.rs`), autostart entry (`autostart.rs`).
  Correct when the views converge to the daemon's state, an answer is counted for its
  own request, quitting stops the processing, the user is never left without a window or
  a tray, and the entry at login is what the user chose.
* **Portable launcher** (`packaging/appimage/AppRun`): one controller per session, and a
  daemon that ends with it.
* **Filters** (`noire-dsp`: dc, dereverb, channels, meter), **RNNoise adapter**,
  **widgets' layout**, **`noirectl`**: arithmetic, drawing, or one request.

`PROJECT.json` lists every component with its status, and under `hazards` every place
where this code is hard to test, with the properties that watch it.

### 1.3 What is hard here

* Three threads share the ring without a lock, and each reads the generation once and
  uses it for many steps. Parameters and telemetry are shared word by word.
* The daemon waits for the owner thread with a timeout; the owner may already be doing
  what the daemon gave up. While it waits the only thread of its runtime is blocked.
* Applying a configuration changes the runtime first and the file afterwards, and each
  half can fail, as can undoing the first. The unit at login is a third half.
* The owner thread is told of one loss from several sides (core failure, stream state,
  registry), in any order, while commands keep arriving.
* A consumer may leave and return within the debounce while metering is switched and
  what belongs to the former input is still in the model, the ring and the delay.
* A save is six steps on a file system that may lose any of them.
* Requests and responses of the desktop pass through bounded queues in both directions,
  across reconnections, with a start-up, a stop and a click possibly outstanding at once.
* Pruning decides on a copy of the subscribers, and the autostart entry is changed on
  the strength of an earlier read.

## 2. The modules

| module | what it is | the code |
|---|---|---|
| `RecoveryOps` | the schedule of the recovery controller as operators on a record | `recovery.rs` |
| `Recovery` | the whole controller, any caller in any order | `recovery.rs` |
| `NativeEngine` | the owner thread, composed with `RecoveryOps` and an environment | `native.rs`, and of `noire-pipewire`: `connection.rs`, `registry.rs`, `graph.rs` |
| `ControlPlane` | daemon operations, command channel, the owner as its callers see it | `control.rs`, `native.rs` |
| `DurableConfig` | abstract: a configuration that survives failures | |
| `ConfigStore` | load and save, one file operation per step; implements `DurableConfig` | `noire-config/src/lib.rs` |
| `ConfigSchema` | what a file may say, migration, validation, every setter | `noire-config/src/lib.rs`, `control.rs`, `service.rs` |
| `FreshChannel` | abstract: a lossy channel that never delivers late or twice | |
| `BypassTransport` | the ring at the granularity of atomics; implements `FreshChannel` | `bypass.rs`, `source.rs`, `capture.rs`, `fault.rs` |
| `CaptureDemand` | consumer demand, metering and forgetting of one live graph | `graph.rs`, `source.rs`, `capture.rs` |
| `CaptureBuffers` | formats, buffers and telemetry of the capture stream | `capture.rs`, `format.rs` |
| `LiveSink` | parameters, failure latch and deadlines of the sink | `live.rs` |
| `SignalPath` | the samples between capture callback and transport | `live.rs`, `noire-dsp`, `noire-model` |
| `InputRegistry` | what may be chosen as input, and what a choice resolves to | `registry.rs`, `connection.rs` |
| `DaemonService` | subscribers, pruning, launch at login over one mutex | `service.rs`, `lib.rs`, `native.rs`, `control.rs`, `systemd.rs` |
| `ClientWorker` | the desktop's workers and the daemon as they see it | `noire-ui/src/client.rs` |
| `TrayControl` | extends it by the tray's controller thread | `noire-ui/src/client.rs` |
| `Desktop` | extends that by windows, clicks and the end of the program | `noire-ui/src/app.rs` |
| `Controller` | launches, session lock, activation, tray hosts, windows | `AppRun`, `tray.rs`, `app.rs`, `main.rs` |
| `Autostart` | the entry at login | `noire-ui/src/autostart.rs` |
| `EngineProofs` | theorems about `Recovery`, `InputRegistry` and `NativeEngine` | |
| `ConfigProofs` | theorems about `ConfigStore` and `ConfigSchema` | |
| `LiveProofs` | theorems about `LiveSink`, `SignalPath` and `CaptureBuffers` | |
| `DesktopProofs` | theorems about `Desktop` (with `ClientWorker` and `TrayControl`) and `Autostart` | |
| other `...Proofs` | theorems about the one module they extend | |
| `MC...` | instances for TLC: small sets, symmetry, initial states, bounds | |

Operators marked "Mutant" are plausible mistakes in the operator that follows them. No
specification uses them; each shows that some property would notice the mistake.

### 2.1 Recovery and RecoveryOps

`schedule` is the record of phase, fault, attempt and wait. The code stores an absolute
`due_millis`; the model stores the time that is left, `due_millis - now`, and
`RecoveryTick` lowers it, so that time has no bound. Every method is an action, its early return is
the guard. `Failed(elapsed)` takes the time the attempt itself used, because the code
counts the delay from the beginning of the pass. Saturating arithmetic saturates at
`U32Max` and `U64Max`, constants here.

### 2.2 NativeEngine

`world` is the environment: the server (up, refusing requests, down), the physical
inputs and the session default. `native` is the connection with its pending failure,
the registry monitor's view and debounce, and the graph; `applied`, `meter`, `obs` and
`rec` are the variables of `run_native` of the same names. `at` alternates between
receiving a command and servicing.

Each command handler is one action, and a service pass is one action made of the stages
`Dispatch`, `AfterCoreFailure`, `AfterRegistry`, `AfterGraph`, `AfterRecovery`, in the
order of the code. `ApplyNative` is `apply_native` as a set of outcomes, one for each
way PipeWire may answer; it is used by `HandleApply` (twice, for the restoration of the
previous configuration), `HandleMeter` and recovery. `MayReject` says when PipeWire may
refuse: when the server refuses or the connection is already broken.

Of the graph the owner keeps what decides whether audio flows: the demand served last,
the metering, and whether the capture stream runs. It connects inactive, and a
demand edge (`DemandEdge`, at the consumers' choice) or the metering starts and stops it.
Advancing the generation is a command that only a callback carries out, so `CaptureReset`
needs buffers (`MayCapture`): those of a running stream, or the last ones of one that was
stopped. The reset of a latched failure therefore waits until a consumer or a meter is
back: `LiveFailureClears` is about a graph that buffers reach, which is also what the
comment in `native.rs` promises ("while consumers hold the source streaming").

### 2.3 ControlPlane

D-Bus handlers hold the daemon's mutex throughout, so `job` is the one operation in
progress, with its stage (engine, rollback) and the answer it has. `queue` is the
channel, `work` the command the owner is executing. `Timeout` is `recv_timeout`
expiring at any moment: it cancels the command wherever it is, which has no effect on
one that is being executed. `setting` stands for input, suppression, latency and fail
mode, which go through the same `mutate`. `doubt` is a history variable: it is set where
the daemon cannot know the owner's state, and is only read by a property.

The file is one value here, because `ConfigStore` shows in detail what a save does; a
failed save may or may not be in the file.

### 2.4 ConfigStore and DurableConfig

`files` is what the directory shows, `disk` the set of contents each name may show after
a power loss: a rename adds to it, a directory sync makes it one. `save` is the save in
progress with its next step: temporary file of the backup, its rename, temporary file of
the primary, its rename, directory sync; each may fail. `stale` counts temporary files
left behind, which the search for a free name skips. A temporary file is synced before
it is renamed (the code does that), so no name ever shows half a file. The directory is
taken to be on the disk: `create_dir_all` may just have made it, and the code does not
sync its parent, so that a power loss right after the very first save could take it with
it; that is not modelled.

`DurableConfig` knows only the current configuration, the one being saved and the set
`holds` a restart may find. It promises that a save is acknowledged only when a restart
can find nothing else. The refinement maps `holds` to `{LoadedFrom(p, b)}` over all
contents a power loss may leave.

### 2.5 BypassTransport and FreshChannel

Every access to an atomic and every push or pop is an action, and the three threads
interleave freely. Samples are numbers in the order of capture, so that a property can
name a sample. `producer.at` and `out.at` are program counters within `write_processed`
and within a source callback. `gated`, `since` and `heard` are history variables: the
samples captured while the gate was closed, the newest sample handed over when each
generation began, and the last block published. Accesses are sequentially consistent
in the model: the code uses acquire and release on the generation, and the ring's own
indices (an external crate) order its elements.

`FreshChannel` says what a listener may rely on: samples may be lost, but each is heard
at most once, in order, and never after an invalidation that precedes the callback.

### 2.6 CaptureDemand

One live graph, from its streams' events to what may be heard. A call of the owner
(`service_demand`, `set_meter_monitoring`) is a list of the operations it makes on words
the audio threads read; each is a step (`ScheduleAudioCommand`,
`AdvanceInputGeneration`, `SetActive`), and between them both callbacks run. A sample is
"present", or captured before the call in progress ("earlier"), or before one that was
to make the graph forget it and has returned ("past"). `leaked`, `refused` and `away`
are histories. Two things a reader should know: the first consumer's `Activate` clears
before it advances the generation, so while the meter runs a frame begun before the
consumer came may get through, and nothing is promised there; and a refused
`set_active` after a meter switch leaves the flag changed, so that the same switch again
does nothing. `BypassGraph` is the same without metering.

### 2.7 CaptureBuffers

`NegotiateFormat` and `TakeFormat` are the owner's side, `ProcessMapped` the audio
callback: it validates a mapped buffer in the order of the code, measures it, and
`Store` writes the telemetry one atomic per step while `Load` reads a snapshot of it one
atomic per step. A newer level may be seen under an older generation, never the other way round.
Samples in a rejected format keep being decoded until the owner's next pass. The checks
of `usize` arithmetic cannot fail on a 64-bit machine and are left out.

### 2.8 LiveSink and SignalPath

`LiveSink` splits `LiveControl.update` and `load_parameters` into single accesses of the
epoch and the three words; `settled` is the history of what the epochs stand for. A
callback then processes its frames; a model error or a full transport latches the sink,
late frames fill the deadline window. Accesses are sequentially consistent, as on
x86-64, the only target the packages are built for. The error path of `DryDelay` and
the one of `push` cannot be reached and are left out. Endless updates can starve the
reader, which then keeps its older parameters; `SettingsReachSink` is about an owner
that stops. Published meters are not cleared by a reset.

`SignalPath` follows every sample through assembler, model, delay and mixer. A sample is
its position in the captured stream; a model returns the stream some samples earlier. A
reset does not touch the strength's ramp, a failure cuts the strength off. `Accepted`
is the descriptor's contract. The ramps and the adapter which the production path does
not use are left out.

### 2.9 InputRegistry

Nodes come, gain properties and go; the monitor collects and publishes at most every
window. `PolicyOf`, `Resolved` and the labels are those of `registry.rs`; texts are
sequences of words. A global first announces part of its properties, as PipeWire does.
The default stays when the metadata object goes. Selectors made by the program contain
the node's name only. In `dedup`, the preference for the default never decides and is
not modelled. A node shadowed by another of the same name is not listed, so a choice of
it may be missing.

### 2.10 DaemonService

Handlers interleave where they await: a mutex, the bus, the manager. The mutex of the
subscribers is held through the request to the owner (`turn`), the daemon's mutex
through a change of launch at login (`launch`). tokio runs on one thread here, so a
request to the owner blocks every handler, which `hung` makes visible. Histories: `late`,
a switch was given up while it was executed; `lost`, an error of the bus unsubscribed a
client that is there; `parted`, the manager failed after it had changed the unit, or a
rollback failed; `torn`, a save of launch at login failed. If `DBusProxy::new` fails
nothing changes.

Launch at login has three places: the unit, the configuration the daemon runs with
(`config`) and the file (`file`), which the next daemon will run with. A save may fail at
the directory sync, when the file is already replaced (`SaveFails`); the unit is then
rolled back and the configuration in use is the old one, but the file may be the new one
until any setting is saved, with the whole configuration, again (`Resave`). A restart is
not an action here: it makes `config` the file, and the initial states, in which unit and
configuration are independent, include what it leaves.

### 2.11 ClientWorker, TrayControl, Desktop

`ClientWorker` is a worker with its bounded channels: connect, subscribe, fetch, serve
requests, refresh after signals, reconnect. A request is carried out by the daemon at
one moment and answered at another, and the connection may break between. `TrayControl`
adds the thread that synchronises the tray at the start, toggles, and stops before the
program ends with at most three attempts. `Desktop` adds windows, clicks and the end.
A window's worker subscribes to the meters before it asks for anything and gives the
connection up when that is refused (`Refused`): always while metering has to be switched
on and cannot be (`daemon.meters`, say without a microphone), and now and then otherwise.
The tray's worker does not subscribe. A refresh after a signal or a change of the owner is
an "update", whose failure the worker reports but does not act on.

Histories: `crossed`, an answer completed something else than its own request: a start-up
ended by an unrelated state with a request for it still in the queue or under way, or a
window's change of the intent ended likewise; it is set whenever such a request is on its
way, also where it turns out to be harmless. `blind`, a connection without a state so far:
its first request was a report, after which no refresh is made, or it was refused the
meters. A window that closes right after an older state leaves the tray showing that
state. Fetching and listing of inputs and `recover` have the same shape and are one
request; health, the meters' values and error texts are left out.

### 2.12 Controller

The launcher's commands are steps: lock, request, scan, stop and start of the daemon.
Then the controller runs with its listener, the tray's host and the window. Histories:
`missed`, a host that goes and comes back between two polls of 33 ms hides a window that
nothing brings back; `raced`, a daemon that was still mounting its image when `AppRun`
looked for it and that ends later. `flock` and the runtime directory are external:
`AppRun` cleans up only where the latter is `/run/user/<uid>`, and this is assumed. A
daemon that fails to start (`main.rs:46-50`), or ends for a reason of its own while its
controller lives, is not modelled.

### 2.13 ConfigSchema and Autostart

`ConfigSchema` decodes a document with its defaults and migration, validates it, and
lets every setter change one field, across restarts. `Autostart` is the entry as a value
in a directory two desktops and the session write; each read and each change is a step,
and `misled` records a desktop that acts on what is no longer there. A click that cannot
read the entry asks for it to be written. Two clicks within a frame cannot happen: the
handler redraws.

## 3. The runs

| run | instance | shows |
|---|---|---|
| `parts` | six modules that share no state, one of them moving | each of them, see below |
| `native` | 2 devices, 3 configurations, 2 disturbances | safety of the owner thread |
| `native_live` | 1 device, start and stop, 2 disturbances | recovery converges, a live failure is cleared |
| `control` | 2 clients, 2 settings, channel of 2, 2 revisions | safety of the daemon and the channel |
| `config` | default and 2 configurations, 2 temporary names | crash safety, and that `ConfigStore` implements `DurableConfig` |
| `bypass` | ring 3, blocks 2, callbacks 1 or 2, 6 samples, 3 generations | freshness, and that `BypassTransport` implements `FreshChannel` |
| `graph` | debounce 2, nothing else bounded | when the microphone is open, and what may be heard |
| `live` | 2 configurations and the default, 2 applies, 2 frames per callback | parameters are whole, telemetry true, settings arrive |
| `service` | 2 meter clients, channel of 1, 2 faults, 1 change at login | subscriptions, metering, the unit, and that calls return |
| `session` | tray and window, request queue 2, response queue 1, 2 changes, 2 clicks | answers, quitting, convergence of the views |
| `controller` | 2 launches, 3 swings of the tray host, 1 window that fails to open | nobody is stranded, a launch is heeded, a daemon is there |
| `native_realized` | as `native` | a violation, section 6 |

`parts` puts six independent modules into one run: `focus` says which one moves, the
others stay in an initial state, so that the state space is the sum of the six. It
covers `Recovery` (`NeverPostponed`), `InputRegistry` (`PublishedInTime`,
`ExactSelection`), `SignalPath` (`Aligned`, `Seamless`, `NoClick`), `CaptureBuffers`
(`FreshLevel`, `RejectedIsStopped`), `ConfigSchema` (`SavedReadsBack`, `NeverLockedOut`)
and `Autostart` (`UserDecides`).

### Bounds and why they are enough

* *Recovery.* 25 ms is the unit of time, which makes the code's delays (25 ms to 1 s)
  the numbers 1 to 40: the instance has the real ratio and all seven delays. `U32Max` 8
  lets the attempt number saturate after the delay has reached its cap; counters
  saturate at 3, which needs several episodes.
* *NativeEngine.* Two disturbances, anywhere among any number of commands and passes:
  enough for a second fault to arrive within the episode of a first one, for a default
  that changes and changes back, for an input that goes and returns, and for a server
  that stops and starts. Two devices are needed for a default or a selection to be
  wrong; three configurations (follow the default, select a device without fallback,
  stop) cover the policies that resolution tells apart, selection with fallback being
  the union of the two. The delay is 1 and the counters saturate at 1: how the delay grows
  and what the counters say is checked of the controller itself in `parts`, and here it
  only matters that there is a wait.
* *ControlPlane.* A conflict needs two clients and two settings. Channel capacity 2 is
  smaller than the code's 16, so that cancelled commands fill it. Two revisions after
  the first allow a second change, and any other operation, after a failed rollback.
  Clients and settings are interchangeable, and only safety is checked: symmetry.
* *ConfigStore.* An old and a new configuration besides the fallback are all that a
  property compares. Two temporary names instead of sixteen, so that they run out. The
  number of saves, crashes and power losses is not bounded; one edit from outside is.
* *BypassTransport.* A ring of 3 with blocks of 2 makes the second block overflow, and
  callbacks of 1 and 2 leave it partly filled at every offset. Six samples are twice the
  ring. Three generations allow an invalidation while another one is being processed.
  At the bound of either counter a thread that needs it waits, which only removes
  behaviours. `EMPTY` is TRUE, `STARTUP_FRAME` one
  block and `STARTUP_QUANTA` 0, as `create_processed_channel` sets them for the live graph.
* *CaptureDemand.* A debounce of 2 has a moment inside it. Everything else is finite.
* *LiveSink.* Two settings that differ in every word make every mixture visible. Two
  applies, of up to three updates each, let the epoch move several times during one
  read; two frames let one fail after another. The
  deadline ring of 3 wraps before two misses leave the window of 1.
* *InputRegistry.* Three globals with properties chosen to collide in name, label,
  serial number and profile, two events after any two nodes at the first publication.
* *SignalPath.* Frames of 2 and callbacks of up to 3 leave every remainder; seven
  samples outlive a delay of 3, which is longer than a frame, and two mishaps allow a
  reset after a failure. `UNIT` 27 is `RAMP` cubed: the steps of a ramp stay whole through three changes of
  its target, which `UnitAssumption` demands of every instance.
* *CaptureBuffers.* Two resets and two buffers: a snapshot can be overtaken twice.
* *ConfigSchema.* Ten files, of this schema and of schema 0, valid or not in each field,
  three calls or edits, and any number of restarts.
* *Autostart.* Two desktops of two images, four starts, clicks or changes by others.
* *DaemonService.* `MCService` shares the bounds out: two viewers together with one
  fault, or one viewer with two faults and a change of the unit. Capacity 1 fills.
* *Desktop.* `MCDesktop` shares them out too: controller and window together when nothing
  else happens, the controller alone, and a window without a controller, the latter two
  with changes and restarts of the daemon, and with a metering that can be switched on or
  not from the start and changes. The queues hold fewer than in the code, so
  that they fill. An interplay of window and controller with a restart is not covered.
* *Controller.* Two launches make a lock contended; a third would only wait as the
  second does. Three swings take a host away, bring it back and take it away again.

### Fairness

* `NativeEngine`: weak fairness of receiving (`recv_timeout` bounds the wait), of the
  service pass, of the clock and of capture buffers, as long as they come: the stream
  runs, the connection lives and the device is there (`BuffersArrive`). Without consumer
  and metering nothing is assumed of them, and nothing is claimed. And strong fairness of a pass that delivers the registry events outstanding,
  since a round trip with a server that runs completes. Nothing is assumed of commands
  or disturbances, except that disturbances end, which the bound says.
* `CaptureDemand`: strong fairness of the service pass, because `run_native` makes one
  after every command, so no stream of commands keeps it from one; weak fairness of the
  steps of a call, of the clock, and of the server, which starts and stops callbacks as
  asked.
* `LiveSink`: weak fairness of the owner's update and of the callbacks.
* `DaemonService`: weak fairness of the owner thread and of the timeout when it hangs;
  strong fairness of those who wait for a mutex, since tokio's is first come, first
  served. Nothing of clients, bus or manager: `CallsReturn` assumes that the manager
  answers by its own premise.
* `Desktop`: weak fairness of each worker's thread and of the controller's, strong
  fairness of receiving a signal that is there, weak fairness of a window's timer. None
  of the user, of other clients, of restarts, of the end.
* `Controller`: weak fairness of the launcher's script, the daemon's start and the polls.
* All other modules: none. Only safety is claimed.

### Deadlock

Every run checks deadlock, but for four. `parts` stops where a part has used up its
bound. In `session` and `controller` every process may have ended; in `service` the
clients may all have gone and the owner thread may hang for ever.

### Type invariants

The type invariants of `Recovery` (`RecoveryTypeOK`), `NativeEngine`, `ConfigStore`,
`BypassTransport`, `ControlPlane`, `DaemonService` and `Desktop` (with those of
`ClientWorker` and `TrayControl`) and the type part of `AutostartInv` are proved, and hold
therefore in every instance; no run lists them. Those of `CaptureDemand`, `LiveSink` and
`Controller` are invariants of the instances above: to check one, add it to the run's
configuration.

## 4. What is proved

TLAPS proves these for all values of the constants that satisfy the named assumptions.

* **`Recovery`** (in `EngineProofs`): `TypeCorrect`, `EpisodesHaveFaults`, `WaitsAreBounded`,
  `CountersConsistent` as invariants, `ReportsNeverPostpone` and `CoreFaultSticks` as
  action properties. The inductive invariant is the conjunction of the four: that
  counters agree needs the phase and its fault to agree, because `recovered` is counted
  by phase; that a wait is within the delay needs the attempt to be in range, because
  `Delay` is only bounded there. The exponent is capped at six, so `Delay` looks its power of two up
  in a table, and the proof uses only that the delay is between 1 and its cap. Assumptions:
  `INITIAL_BACKOFF <= MAX_BACKOFF`, both positive; the widths positive.
* **`NativeEngine`** (in `EngineProofs`): `EngineTypeCorrect`, `SelectionIsRespected`,
  `LostGraphIsRecovered`, for any devices and configurations, any behaviour of server,
  inputs and default, and delays of any length. `EngineInv` adds to types and
  `SelectedInputRespected` that no attempt is under way between two steps. That a graph
  captures the device that was selected (`Respects`) is carried through the stages of a pass, one
  lemma each: every stage keeps the graph, drops it or builds one for the
  configuration applied last. `ApplyNative` is one lemma for all its callers, of which the
  restoration of the previous configuration is one. A graph that is lost is followed
  through the pass in the same way: the stage that drops it leaves a fault in the schedule
  or nothing that wants a graph. Assumptions: the delays are ordered and positive, the
  special values are none of the records they stand beside.
* **`InputRegistry`** (in `EngineProofs`): `SnapshotsInTime`, by `WindowInv`, which counts how long
  a change has been waiting. `ChoiceIsExact` says what the code promises of a stored choice
  whatever nodes report of themselves: it becomes the device of that name, or a fallback
  where one is permitted, is found whenever it is listed, and is never Noire's own source
  or a monitor. `SelectionIsExact` adds what a client may conclude from a label. It has a
  hypothesis, `WordsApart`: no text contains the dash that sets a qualifier off, and no
  device is named like a word of a description. The code does not guarantee it: where two
  labels are the same it appends a dash and the rest of a description, or the node's name,
  and a device whose own description reads like that can still share a label with another;
  so it is a hypothesis of the theorem, not
  an assumption of the module, and `MCParts` assumes it of its instance. `ViewInv` says that
  the list published last is the snapshot of some registry, with some default.
* **`ConfigStore`** (in `ConfigProofs`): `TypeCorrect`, and `StoreIsDurable`, that every behaviour of
  `ConfigStore` is one of `DurableConfig`; `NewerIsPreserved` and `CopyStaysReadable`.
  The inductive invariant adds two parts to the types. `FilesOnDisk`: what the directory
  shows is always among what the disk may show, which is what a crash without a power
  loss relies on. `SaveUnderWay`: what the earlier steps of a save have
  put where. A save belongs to a running daemon; what it writes to the backup is its
  candidate or a configuration the primary may still show, so that replacing the backup
  adds nothing new to what a restart can find; the temporary name it holds was free; and
  at the directory sync the primary shows the candidate. Each step of the store then maps to one step of `DurableConfig` or to
  none; a rename maps to `Reach` or to none. Assumptions: the default is a configuration
  and the special contents are distinct from configurations and from each other.
* **`ConfigSchema`** (in `ConfigProofs`): `SavedIsReadBack` and `NobodyIsLockedOut`, for every set
  of documents that may stand in the files. `SchemaInv`: each file holds one of these
  documents or what a daemon has saved; the configuration in use validates; and after a
  save the primary holds its encoding. The first theorem rests on `ReadsBack`, that
  decoding undoes encoding for every configuration that validates, field by field and
  through the two representations of a channel; the second on `MutateKeeps`, that every
  setter goes through validation, and on `LoadedIsSound`, that whatever is read
  is migrated and validated before it is used. Assumptions: what a document says has the
  types its schema demands, and the mark for an absent field is none of the values.
* **`BypassProofs`**: `TypeCorrect`, `BlocksAreWhole`, `TagsNeverLie`, and
  `TransportIsFresh`, that every behaviour of `BypassTransport` is one of
  `FreshChannel`. The inductive invariant `FreshInv` speaks of the point up to which the
  fate of samples is settled, `Pushed`, and of the tag the next one will get, `NextTag`.
  Its parts: the producer's tag is a generation that began before its block was handed
  over, and the free slots it read are still there; the ring ascends in numbers and in
  tags, its tags began before its samples, and it lies above what was last heard and
  not above `Pushed`; what a callback has collected ascends, lies above what was heard
  and above the beginning of the callback's generation, and below the ring. Then each
  step is one step of `FreshChannel` or none: only the source callback invalidates,
  takes over and hears, and it may hear because the samples it has collected began after
  its own generation. `NothingIsSpliced`: comparing neighbours is not inductive, because
  what lies between them may still be queued. `LinkInv` says it of all samples on their
  way, collected or queued: between two with the same tag every number is gated or on its
  way too, and so it is between a sample with the next tag and the next sample. A
  dropped block starts a new tag, so nothing has the next tag; popping and giving up
  remove only the low end. Assumptions: the sizes and the bounds are positive and
  `EMPTY` is a Boolean.
* **`ControlPlaneProofs`**: `ControlTypeCorrect`, `EngineAgrees`, `OneIsAwaited`,
  `NoUpdateIsLost`, `CommitIsDurable`. Agreement of daemon and owner is not inductive: it depends on what
  is still in the channel. `AwaitedInv` says that only the newest command can be alive
  and that it is what the job waits for; `AnsweredInv`, that an answer means nothing
  older can still take effect; `DoubtInv`, that whatever was given up in execution has
  set `doubt`. `SeenInv` carries what a client read up to the commit of its change: a
  client whose revision is current has read the current configuration. Assumptions: a
  positive capacity and a positive bound on revisions; the three special values are none
  of the records they stand beside.
* **`LiveSink`** (in `LiveProofs`): `NothingIsTorn`, `SettingsAreHeeded`, `ReportIsTrue`,
  `SinkFailsClosed`. `LockInv` is the argument of a sequence lock: the epoch counts the
  settings in force and is odd during an update (`OwnerInv`); as long as the epoch a
  reader began with lasts, what it has read is what is there (`ReaderInv`); what was
  adopted was in force at an even epoch (`AdoptedInv`). `ReportInv` relates the ring of
  misses to the history `recent`: an entry of the ring is the age of the miss that many
  misses ago, so that the ring decides as the whole history would. Assumptions: sizes
  are natural numbers, the ring and the interval positive, configurations are settings.
* **`SignalPath`** (in `LiveProofs`): `DryMeetsWet`, `StreamIsSeamless`, `StrengthIsSmooth`,
  for frames and callbacks of any size and any model that is accepted. `LineInv` lays the
  samples under way in a line: what was sent last, what the delay holds, what the
  assembler holds and what the callback has left are consecutive pieces of the captured stream (zeros
  and sanitized samples keep their places), and the model's frame and the delay's stand at the
  same distance from it. `JoinPieces` and `CutPiece` are what assembling and delaying do to
  such pieces. `SentInv` says where the frame sent last ended. `RampInv` is the ramp's:
  one in progress ends exactly at its target after the steps that remain, none of them
  longer than the shortest ramp allows, and the gain of the sample sent last is where it
  stands. That steps are whole is what `UnitAssumption` gives, at a grain that gets finer
  with each change of the target; the code's floats round instead, and set the
  gain to its target at the last step.
* **`CaptureBuffers`** (in `LiveProofs`): `WrongFormatIsStopped`, by `FormatInv` (a rejected format
  is waiting for the owner, or the stream is stopped), and `LevelIsFresh`. Of the latter,
  `LabelInv` says that while the telemetry wears an old label, the stores to come clear both levels
  before they change it; `LevelInv`, that no level is then older than its label; `SeenInv`, that
  a snapshot loads its label first, and labels only grow.
* **`CaptureDemandProofs`**: `CaptureIsDemanded`, `PastIsForgotten`, `DebounceIsWhole`.
  Everything depends on how far the owner's call has come. `CallInv` lists what may be
  left of each call; `DemandInv` says that the capture is as wanted except before the
  call's own change of it. `SampleInv` says that past samples are only where a
  generation or a command that has not been seen yet stands before them, and that a call
  which is to make the rest past has put one there before it returns. `AbsenceInv` keeps
  the clock of the debounce behind the absence it measures. Assumption: the debounce is
  positive.
* **`DaemonServiceProofs`**: `ServiceTypeCorrect`, `NobodyIsForgotten`, `FlagIsTrue`,
  `UnitIsFollowed`. `AwaitInv` says that a command nobody has given up is the newest and
  belongs to the request in progress; `TurnInv`, that while a switch is asked for the set
  and the flag are still what made it necessary, which is what the mutex held across the
  request is for; `MeterInv`, that the owner thread then follows the flag, unless it works
  on a switch that was given up. `SubsInv` has for pruning that nobody on the bus is among
  the names to be removed, whatever happened since the set was copied. `FlagIsTrue` states
  `MonitoringAgrees`, which no run lists. `UnitInv` follows the unit through a change of
  launch at login, where it may stand at either value until the rollback is done, and adds
  that configuration and file differ only after a failed save. Assumptions: the monitor is no client, the
  capacity is positive, `Nothing` is none of the records it stands beside.
* **`Desktop`** (in `DesktopProofs`): `DesktopTypeCorrect`, `AnswersAreMatched`,
  `QuitIsConfirmed`, for any number of windows and any capacities. `WindowInv` is
  about each worker and its window: a worker owes an answer from the moment it takes a
  request until it has given it, and what the window counts as outstanding is what is
  queued, owed or on its way back (counted as the cardinality of the set of positions of
  such responses, so that the prover need not evaluate a recursion); a reconnection
  and a restart of the daemon leave the sum as it is. `TrayInv` is about
  the controller that ends the program: at most one answer that may end the action it is
  waiting for is under way, unless one was crossed before (`Limit`); it asked first, it
  answers only what it asked, and an answer that confirms was given after the program
  began to end. `QuitConfirmed` alone says nothing of answers that are still in a channel,
  which is where a late answer of an earlier attempt would be. Assumptions: the tray is one
  of the workers, capacities are positive.
* **`Autostart`** (in `DesktopProofs`): `EntryIsDecided`. `TaskFits` says who may have asked for the
  step a desktop is about to make; `UpToDate`, that a desktop behind whose back nothing
  has changed is about to do the opposite of what it shows, or refreshes an entry of
  Noire's. Assumption: the special values are no launch commands.

### What is only model-checked

All liveness (`BackoffConverges`, `LiveFailureClears`, `MicrophoneReleased`,
`ConsumerServed`, `SettingsReachSink`, `MetersReleased`, `CallsReturn`, `ViewConverges`,
`NeverStranded`, `RequestHeeded`, `DaemonFound`), which is beyond the prover. Every
invariant and every action property the passing runs check is stated by a theorem. The
three properties of `Controller` are all liveness, so nothing is proved of that module.

## 5. Properties worth reading first

* `IsFreshChannel` and `NoSplice` (`BypassTransport`): what the tags are for. The first
  is about audio after an invalidation; the second about a callback that is in the middle
  of collecting samples when the producer drops a block.
* `NothingFromBefore` (`CaptureDemand`): that the order of the three operations of a call
  is enough, whichever callbacks of the two audio threads run between them (a callback is
  one step here; `BypassTransport` and `LiveSink` take theirs apart).
* `NoTornParameters` (`LiveSink`): three words and an epoch, read one at a time.
* `Aligned` (`SignalPath`): dry and processed samples meet again after any failure.
* `IsDurable` and `StaysReadable` (`ConfigStore`).
* `EngineAgreesUnlessDoubt` (`ControlPlane`): when the daemon and the runtime agree, and
  `OneAwaitedCommand`, why a reply never goes to the wrong request.
* `BackoffConverges` and `LostGraphRecovers` (`NativeEngine`).
* `SubscriptionsStay` and `MetersReleased` (`DaemonService`): pruning on a copy neither
  forgets a client nor leaves the microphone open.
* `QuitConfirmed` and `ViewConverges` (`Desktop`).
* `NeverStranded` (`Controller`).

A property that starts with an exception (`unless doubt`, `lost \/`, `misled \/`,
`~crossed`) names by a history variable the one sequence of events for which the code
does not keep the promise; section 6 lists what those are.

## 6. Where code and documentation disagree

`native_realized` exhibits the one that matters most: an apply fails and restoring the
previous configuration fails as well. The graph is gone, the recovery stays Healthy, and
nothing tries again until a client does. The enum says of Healthy "The intended graph is
currently realized."

Met while modelling and left without a run of their own:

* Listing inputs publishes the registry at once and thereby takes the pending change that
  `service_native` was to act on; the graph stays on the former default
  (`native.rs:278`).
* A command that times out while the owner executes it takes effect although an error
  was returned; `AudioEngine::apply` promises to apply or to leave the previous intent
  intact. `doubt` marks it.
* With an unreadable primary, a save first replaces the good backup, which the
  documentation calls last-known-good.
* An underflow begins a fade and also requests the generation change that resets it.
* A metering command during a backoff rebuilds the graph and tells nobody: recovery
  stays in Backoff with a graph in place (`update_meter_monitoring` in `native.rs`).
  `AfterRecovery` finds the graph and returns, so the phase stays Backoff until the next
  apply or stop. This is why `BackoffConverges` accepts a graph as an answer.
* A core failure while processing is stopped degrades the published observation, and
  nothing but the next command clears it.
* While only metering keeps a graph, the published state reads Stopped.
* A save whose directory sync fails is reported as failed and rolled back in the
  runtime, and yet it is in the file a restart loads.
* An overflow of the ring requests a resynchronization, and the consumer then starts
  from silence without the fade an underflow gets.
* Samples in a format that was rejected keep being decoded until the owner's next pass;
  the documentation calls a negotiated format one that cannot enter the pipeline.
* A file of schema 0 with a blank `input_node` migrates to a configuration that does not
  validate, and the whole file is treated as malformed.
* The backup is one save behind: after opting out of starting with noise reduction, a
  primary that becomes unreadable brings the opt-in back.
* An error of the bus while pruning unsubscribes a client that is there.
* A switch of the metering that times out while it is executed is carried out without
  the service knowing: metering, and with it the microphone, may stay on for nobody until
  another switch is carried out (`late`, which `MetersReleased` excepts).
* A manager that fails after it has changed the unit, or a rollback that fails, leaves
  unit and configuration apart (`parted`).
* A change of launch at login whose directory sync fails is reported as failed and rolled
  back in the unit, and yet it may be in the file (`torn`). The next daemon then runs with
  a value the unit does not have, and a request for just that value returns at once,
  without touching the unit (`control.rs:537`).
* A window whose worker is refused the meters, by a microphone that is unplugged or a
  server that refuses, connects again and again and never shows the daemon's state, and
  its rejections turn the tray's display off each time (`client.rs:593`, `app.rs`). The
  error it shows says that the daemon is unavailable, which it is not (`blind`).
* A start-up synchronisation is completed by any state that arrives, and the late answer
  to its own request then counts for the next one (`crossed`).
* A reconnection whose first request is a report shows no state until the next signal.
* A tray host that goes and returns between two polls may leave a controller with neither
  window nor tray. The comment in `app.rs` reads "Closing must never hide the final
  visible window while no tray host can bring it back." A fallback window that cannot be
  opened is not tried again.
* A daemon that is still mounting its image when `AppRun` looks for stale ones is not
  found, and may end later.
* The autostart entry is checked and then changed: a desktop may undo what another, or
  the user, has done in between (`misled`).

## 7. Not modelled, and why

* Filters and meters in floating point, the limiter's map, layout and drawing, the
  slider's pointer handling, themes: arithmetic or presentation on data nobody else
  changes.
* `noirectl`: one request per process, which `ControlPlane` has as any client's.
* The RNNoise adapter and the experimental ramps: not built into the daemon.
* The syntax of TOML and of SPA pods, D-Bus marshalling: external; decoding is modelled
  from the parsed value on.
* The PipeWire and D-Bus libraries, systemd, `flock` and the ring's implementation:
  external, and present by what the code relies on.
* Weak memory: the models' atomics are sequentially consistent.
* Time that an attempt of recovery itself takes (`native.rs:574`): a pass is one action.
* Two daemons on one file (`main.rs:48`), another version of Noire that writes between
  the schema check and the rename (`noire-config/src/lib.rs:506`).
* The entry of a freshly made configuration directory in its parent
  (`noire-config/src/lib.rs:499`), a runtime directory that is not `/run/user/<uid>`
  (`AppRun:216`), and a daemon that does not start or dies by itself.
* Components that `PROJECT.json` lists as "partly" say there what is left out.

## 8. What is left

1. `ConfigStore` under two daemons, of which one has not claimed the bus name.
2. `ControlPlane`: the list of devices and its revision.
3. `Desktop` with window and controller together across a restart of the daemon: out of
   TLC's reach in the time the runs are given.
4. What the liveness of `Controller` rests on as safety: one controller at a time, and
   something scheduled whenever neither window nor tray is there. Type correctness of
   `CaptureDemand` and `LiveSink` as wholes.

## 9. Running

    tlasany ConfigStore.tla
    tlc -workers 2 -config MCConfig.cfg MCConfig
    tlc -workers 2 -config MCParts.cfg MCParts
    tlapm ConfigProofs.tla
    tlapm EngineProofs.tla
    tlapm CaptureDemandProofs.tla
