---------------------------- MODULE ControlPlane ----------------------------
(***************************************************************************)
(* The authoritative daemon state machine (crates/noired/src/control.rs)   *)
(* and the bounded command channel by which it drives the PipeWire owner   *)
(* thread (NativeAudioEngine in crates/noired/src/native.rs).              *)
(*                                                                         *)
(* D-Bus handlers and the monitor hold the daemon's mutex for a whole      *)
(* operation, so at most one job is in progress; the owner thread works    *)
(* concurrently.  A request that is not answered in time is marked as      *)
(* cancelled and abandoned: the owner may already be working on it.        *)
(* What the owner does with a configuration is NativeEngine's subject; here*)
(* it ends in success or in an error.                                      *)
(***************************************************************************)
EXTENDS Integers, Sequences, SequencesExt

CONSTANTS
    Client,          \* D-Bus clients
    Setting,         \* stands for input, suppression, latency and fail mode
    CommandCapacity, \* COMMAND_CAPACITY of the sync_channel
    MaxRevision,     \* bound on the number of committed revisions
    Idle,            \* no D-Bus operation holds the daemon
    NoWork,          \* the owner thread waits for a command
    NoConfig         \* the owner thread has applied nothing yet

ASSUME CapacityAssumption == CommandCapacity \in Nat \ {0}
ASSUME RevisionAssumption == MaxRevision \in Nat \ {0}

VARIABLES
    daemon,    \* config, revision, observed state, whether an audio error is recorded
    disk,      \* the configuration in the primary file
    seen,      \* what each client last read: revision and configuration
    job,       \* the operation that holds the daemon's mutex
    queue,     \* the command channel, oldest first
    work,      \* the command the owner thread is executing
    engine,    \* the owner thread's applied configuration and its realized state
    doubt      \* history: an apply may have ended otherwise than was reported

vars == <<daemon, disk, seen, job, queue, work, engine, doubt>>

Config == [active : BOOLEAN, setting : Setting, start : BOOLEAN]
State == {"Stopped", "Running", "Degraded"}
Op == {"new", "mutate", "retry", "observe"}
Command == [op : {"apply", "observe"}, config : Config, cancelled : BOOLEAN]
Job ==
    [op : Op, stage : {"engine", "rollback"}, client : Client, candidate : Config,
     reply : {"waiting", "ok", "err"}, state : State]

ASSUME NothingAssumption == NoConfig \notin Config /\ NoWork \notin Command /\ Idle \notin Job

TypeOK ==
    /\ daemon \in [config : Config, revision : 1..MaxRevision + 1, state : State, error : BOOLEAN]
    /\ disk \in Config
    /\ seen \in [Client -> [revision : 1..MaxRevision + 1, config : Config]]
    /\ job \in Job \cup {Idle}
    /\ queue \in Seq(Command) /\ Len(queue) <= CommandCapacity
    /\ work \in Command \cup {NoWork}
    /\ engine \in [intent : Config \cup {NoConfig}, state : State]
    /\ doubt \in BOOLEAN

-----------------------------------------------------------------------------
(* The command channel: request_with_timeout.                              *)

Entry(op, config) == [op |-> op, config |-> config, cancelled |-> FALSE]

\* try_send: a full queue answers "audio-command-busy" at once.
Sent(j, op, config) ==
    IF Len(queue) < CommandCapacity
    THEN /\ queue' = Append(queue, Entry(op, config))
         /\ job' = [j EXCEPT !.reply = "waiting"]
    ELSE /\ UNCHANGED queue
         /\ job' = [j EXCEPT !.reply = "err"]

NewJob(op, client, candidate) ==
    [op |-> op, stage |-> "engine", client |-> client, candidate |-> candidate,
     reply |-> "waiting", state |-> daemon.state]

Waiting == job # Idle /\ job.stage \in {"engine", "rollback"} /\ job.reply = "waiting"
AwaitedInQueue == \E i \in DOMAIN queue : ~queue[i].cancelled

\* Giving up now leaves the owner's configuration unknown: it is working on
\* an apply, or the first configuration never reaches it.
OutcomeUnknown ==
    \/ ~AwaitedInQueue /\ work.op = "apply"
    \/ job.op = "new"

\* recv_timeout expires: the command is marked wherever it is and its reply
\* channel dropped.  Marking it has no effect once the owner has checked it,
\* so an apply in progress goes on unobserved.
Timeout ==
    /\ Waiting
    /\ job' = [job EXCEPT !.reply = "err"]
    /\ queue' = [i \in DOMAIN queue |-> [queue[i] EXCEPT !.cancelled = TRUE]]
    /\ work' = IF work = NoWork THEN NoWork ELSE [work EXCEPT !.cancelled = TRUE]
    /\ doubt' = (doubt \/ OutcomeUnknown)
    /\ UNCHANGED <<daemon, disk, seen, engine>>

-----------------------------------------------------------------------------
(* The owner thread (run_native, seen from its callers).                   *)

\* Mutant: the owner does not look at the cancelled flag.
TakeAnything ==
    /\ work = NoWork /\ queue # <<>>
    /\ queue' = Tail(queue)
    /\ work' = Head(queue)
    /\ UNCHANGED <<daemon, disk, seen, job, engine, doubt>>

\* The owner receives the oldest command and skips it if it was cancelled.
Take ==
    /\ work = NoWork /\ queue # <<>>
    /\ queue' = Tail(queue)
    /\ work' = IF Head(queue).cancelled THEN NoWork ELSE Head(queue)
    /\ UNCHANGED <<daemon, disk, seen, job, engine, doubt>>

\* The reply reaches the caller only if it still waits.
Reply(code, state) ==
    job' = IF work.cancelled THEN job ELSE [job EXCEPT !.reply = code, !.state = state]

Realized(config) == IF config.active THEN "Running" ELSE "Stopped"

CompleteApply ==
    /\ work # NoWork /\ work.op = "apply"
    /\ work' = NoWork
    /\ \/ /\ engine' = [intent |-> work.config, state |-> Realized(work.config)]
          /\ Reply("ok", Realized(work.config))
       \/ \* An error leaves the applied configuration, except that the first
          \* active one is kept for the recovery controller.  Stopping can
          \* fail only while metering needs a graph, never as the first command.
          /\ work.config.active \/ engine.intent # NoConfig
          /\ engine' = IF engine.intent = NoConfig /\ work.config.active
                       THEN [intent |-> work.config, state |-> "Degraded"]
                       ELSE engine
          /\ Reply("err", daemon.state)
    /\ UNCHANGED <<daemon, disk, seen, queue, doubt>>

CompleteObserve ==
    /\ work # NoWork /\ work.op = "observe"
    /\ work' = NoWork
    /\ Reply("ok", engine.state)
    /\ UNCHANGED <<daemon, disk, seen, queue, engine, doubt>>

\* The graph fails or recovers by itself while processing is intended.
Drift ==
    /\ engine.intent # NoConfig /\ engine.intent.active
    /\ engine' = [engine EXCEPT !.state = IF @ = "Running" THEN "Degraded" ELSE "Running"]
    /\ UNCHANGED <<daemon, disk, seen, job, queue, work, doubt>>

-----------------------------------------------------------------------------
(* The daemon's operations.                                                *)

\* Daemon::new applies the loaded configuration, whose "active" is replaced by
\* the startup preference.
Loaded(config) == [config EXCEPT !.active = config.start]

\* NativeAudioEngine::spawn, and apply sending the first configuration.
Spawned(config) ==
    /\ queue = <<Entry("apply", config)>> /\ work = NoWork
    /\ engine = [intent |-> NoConfig, state |-> "Stopped"]

Init ==
    /\ disk \in Config
    /\ daemon = [config |-> Loaded(disk), revision |-> 1, state |-> "Stopped", error |-> FALSE]
    /\ seen = [c \in Client |-> [revision |-> 1, config |-> Loaded(disk)]]
    /\ \E c \in Client :
         job = [op |-> "new", stage |-> "engine", client |-> c, candidate |-> Loaded(disk),
                reply |-> "waiting", state |-> "Stopped"]
    /\ Spawned(Loaded(disk))
    /\ doubt = FALSE

\* get_snapshot: an atomic read under the daemon's mutex.
ReadSnapshot(c) ==
    /\ job = Idle
    /\ seen' = [seen EXCEPT ![c] = [revision |-> daemon.revision, config |-> daemon.config]]
    /\ UNCHANGED <<daemon, disk, job, queue, work, engine, doubt>>

\* check_revision.
Current(c) == seen[c].revision = daemon.revision

\* Mutant: the expected revision is not checked.
UncheckedMutate(c, candidate) ==
    /\ job = Idle /\ daemon.revision <= MaxRevision
    /\ Sent(NewJob("mutate", c, candidate), "apply", candidate)
    /\ UNCHANGED <<daemon, disk, seen, work, engine, doubt>>

\* mutate, up to the call of engine.apply.  A conflict changes nothing.
Mutate(c, candidate) ==
    /\ job = Idle /\ daemon.revision <= MaxRevision
    /\ Current(c)
    /\ Sent(NewJob("mutate", c, candidate), "apply", candidate)
    /\ UNCHANGED <<daemon, disk, seen, work, engine, doubt>>

\* start and stop return at once when the intent already agrees.
Start(c) == ~daemon.config.active /\ Mutate(c, [daemon.config EXCEPT !.active = TRUE])
Stop(c) == daemon.config.active /\ Mutate(c, [daemon.config EXCEPT !.active = FALSE])

\* select_input, set_suppression_enabled, set_strength, set_latency_profile and
\* set_fail_mode, which send the candidate even if it equals the config.
Set(c, setting) == Mutate(c, [daemon.config EXCEPT !.setting = setting])

\* set_start_with_noise_reduction persists without touching the engine.  A
\* failed save returns an error; sync_directory may fail after the rename.
SetStart(c, enabled) ==
    /\ job = Idle /\ daemon.revision <= MaxRevision
    /\ Current(c)
    /\ daemon.config.start # enabled
    /\ LET candidate == [daemon.config EXCEPT !.start = enabled]
       IN \/ /\ disk' = candidate
             /\ daemon' = [daemon EXCEPT !.config = candidate, !.error = FALSE,
                                         !.revision = @ + 1]
          \/ disk' \in {disk, candidate} /\ UNCHANGED daemon
    /\ UNCHANGED <<seen, job, queue, work, engine, doubt>>

Retry(c) ==
    /\ job = Idle /\ daemon.revision <= MaxRevision
    /\ Current(c)
    /\ Sent(NewJob("retry", c, daemon.config), "apply", daemon.config)
    /\ UNCHANGED <<daemon, disk, seen, work, engine, doubt>>

\* refresh_observation, called by the monitor and by snapshot requests.
Observe(c) ==
    /\ job = Idle /\ daemon.revision <= MaxRevision
    /\ Sent(NewJob("observe", c, daemon.config), "observe", daemon.config)
    /\ UNCHANGED <<daemon, disk, seen, work, engine, doubt>>

Answered == job # Idle /\ job.reply # "waiting"

FinishNew ==
    /\ Answered /\ job.op = "new"
    /\ daemon' = [daemon EXCEPT !.state = IF job.reply = "ok" THEN job.state ELSE "Degraded",
                                !.error = job.reply = "err"]
    /\ job' = Idle
    /\ UNCHANGED <<disk, seen, queue, work, engine, doubt>>

\* mutate after engine.apply failed: the old configuration stays.
RejectMutate ==
    /\ Answered /\ job.op = "mutate" /\ job.stage = "engine" /\ job.reply = "err"
    /\ daemon' = [daemon EXCEPT !.error = TRUE]
    /\ job' = Idle
    /\ UNCHANGED <<disk, seen, queue, work, engine, doubt>>

\* Mutant: the configuration is committed before it is saved.
CommitFirst ==
    /\ Answered /\ job.op = "mutate" /\ job.stage = "engine" /\ job.reply = "ok"
    /\ daemon' = [daemon EXCEPT !.config = job.candidate, !.state = job.state, !.error = FALSE,
                                !.revision = @ + 1]
    /\ disk' \in {disk, job.candidate}
    /\ job' = Idle
    /\ doubt' = FALSE
    /\ UNCHANGED <<seen, queue, work, engine>>

\* The candidate is on disk and becomes the configuration.
Commit ==
    /\ Answered /\ job.op = "mutate" /\ job.stage = "engine" /\ job.reply = "ok"
    /\ disk' = job.candidate
    /\ daemon' = [daemon EXCEPT !.config = job.candidate, !.state = job.state, !.error = FALSE,
                                !.revision = @ + 1]
    /\ job' = Idle
    /\ doubt' = FALSE
    /\ UNCHANGED <<seen, queue, work, engine>>

\* The save failed, before the rename or after it: apply(previous).
SaveFails ==
    /\ Answered /\ job.op = "mutate" /\ job.stage = "engine" /\ job.reply = "ok"
    /\ disk' \in {disk, job.candidate}
    /\ Sent([job EXCEPT !.stage = "rollback"], "apply", daemon.config)
    /\ UNCHANGED <<daemon, seen, work, engine, doubt>>

FinishRollback ==
    /\ Answered /\ job.op = "mutate" /\ job.stage = "rollback"
    /\ IF job.reply = "ok"
       THEN /\ daemon' = [daemon EXCEPT !.state = job.state]
            /\ doubt' = FALSE
       ELSE /\ daemon' = [daemon EXCEPT !.state = "Degraded", !.error = TRUE, !.revision = @ + 1]
            /\ doubt' = TRUE
    /\ job' = Idle
    /\ UNCHANGED <<disk, seen, queue, work, engine>>

FinishRetry ==
    /\ Answered /\ job.op = "retry"
    /\ IF job.reply = "ok"
       THEN /\ daemon' = [daemon EXCEPT !.state = job.state, !.error = FALSE, !.revision = @ + 1]
            /\ doubt' = FALSE
       ELSE /\ daemon' = [daemon EXCEPT !.state = "Degraded", !.error = TRUE]
            /\ UNCHANGED doubt
    /\ job' = Idle
    /\ UNCHANGED <<disk, seen, queue, work, engine>>

FinishObserve ==
    /\ Answered /\ job.op = "observe"
    /\ LET state == IF job.reply = "ok" THEN job.state ELSE "Degraded"
       IN daemon' = [daemon EXCEPT !.state = state, !.error = state = "Degraded",
                                   !.revision = IF state # daemon.state THEN @ + 1 ELSE @]
    /\ job' = Idle
    /\ UNCHANGED <<disk, seen, queue, work, engine, doubt>>

-----------------------------------------------------------------------------
Requests(c) ==
    \/ ReadSnapshot(c)
    \/ Start(c) \/ Stop(c)
    \/ \E s \in Setting : Set(c, s)
    \/ \E b \in BOOLEAN : SetStart(c, b)
    \/ Retry(c)
    \/ Observe(c)

DaemonStep ==
    \/ Timeout
    \/ FinishNew \/ RejectMutate \/ Commit \/ SaveFails \/ FinishRollback
    \/ FinishRetry \/ FinishObserve

OwnerStep == Take \/ CompleteApply \/ CompleteObserve \/ Drift

Next == (\E c \in Client : Requests(c)) \/ DaemonStep \/ OwnerStep

Spec == Init /\ [][Next]_vars

-----------------------------------------------------------------------------
(* Properties.                                                             *)

Audio(config) == [active |-> config.active, setting |-> config.setting]

\* Unless an apply was abandoned in progress, the first one was abandoned, or
\* a rollback failed since the last success, the owner thread's applied
\* configuration is the daemon's whenever no operation is in progress: queued
\* commands that were given up never take effect, and a failed save is undone.
EngineAgreesUnlessDoubt ==
    job = Idle /\ ~doubt /\ engine.intent # NoConfig
    => Audio(engine.intent) = Audio(daemon.config)

\* At most one command in the channel or in progress has a caller, and one
\* has exactly while the daemon waits: no reply can reach another request.
OneAwaitedCommand ==
    LET awaited == {i \in DOMAIN queue : ~queue[i].cancelled}
        inWork == work # NoWork /\ ~work.cancelled
    IN /\ \A i, j \in awaited : i = j
       /\ ~(inWork /\ awaited # {})
       /\ Waiting <=> (inWork \/ awaited # {})

\* "Another client committed a newer revision": a change of the configuration
\* is based on the configuration its client last read.
BasedOnLastRead ==
    daemon'.config # daemon.config =>
      \E c \in Client : seen[c].config = daemon.config /\ (job # Idle => job.client = c)
NoLostUpdate == [][BasedOnLastRead]_vars

\* A change is acknowledged only once it is in the file a restart reads.
AcknowledgedIsDurable == [][daemon'.config # daemon.config => disk' = daemon'.config]_vars

=============================================================================
