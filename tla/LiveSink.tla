------------------------------- MODULE LiveSink -------------------------------
(***************************************************************************)
(* The live processing sink (live.rs) between the owner thread, which sets *)
(* its parameters, and the capture callback, which owns everything else.   *)
(*                                                                         *)
(* Parameters pass through a sequence lock: LiveControl.update makes the   *)
(* epoch odd, stores one word and makes it even again, load_parameters     *)
(* adopts what it read if the epoch stayed the same and even.  Each access *)
(* of one of these words is a step; accesses take effect in the order of   *)
(* the program, as on x86-64, the only target the packages are built for.  *)
(*                                                                         *)
(* The callback turns samples into frames, passes each through the model   *)
(* and writes it to the transport.  A model error or a full transport      *)
(* latches the sink until the next input generation.  Strength, time and   *)
(* frames are abstract; samples, meters and histograms are left out.       *)
(***************************************************************************)
EXTENDS Integers, Sequences

CONSTANTS
    Strength,        \* strengths a configuration may hold
    Dry,             \* the strength zero
    FullStrength,    \* the strength a new sink starts with
    Config,          \* configurations the owner applies
    MaxApplies,      \* bound on applied configurations
    Frames,          \* bound on frames completed by one callback
    RING,            \* length of DeadlineWindow.misses
    MISSES,          \* misses_per_window
    WINDOW,          \* window, in clock units
    INTERVAL         \* DEFAULT_TIMING_SAMPLE_INTERVAL

FailMode == {"Closed", "Open"}
LiveState == {"Running", "DegradedPerformance", "ModelFailed", "TransportFailed"}
Parameters == [enabled : BOOLEAN, strength : Strength, fail_mode : FailMode]

ASSUME LiveAssumption ==
    /\ {Dry, FullStrength} \subseteq Strength
    /\ Config \subseteq Parameters
    /\ MaxApplies \in Nat /\ Frames \in Nat /\ WINDOW \in Nat
    /\ RING \in Nat \ {0} /\ MISSES \in Nat /\ INTERVAL \in Nat \ {0}

VARIABLES
    epoch,       \* parameters.epoch
    shared,      \* parameters.enabled, strength_bits, fail_mode
    writer,      \* the owner: the configuration it applies, the updates left
    applies,     \* configurations applied so far
    reader,      \* load_parameters in progress: next access, what it has read
    parameters,  \* LiveCaptureSink.parameters and the target of its ramp
    frames,      \* frames the callback in progress has still to process
    failed,      \* LiveCaptureSink.failed
    state,       \* shared.state
    window,      \* LiveCaptureSink.deadline_window
    model_count, \* model_count % INTERVAL
    written,     \* the kind of the last step's frame
    settled,     \* history: the parameters in force at each even epoch
    quiet,       \* history: no update overlapped the callback so far
    recent,      \* history: ages of the misses since the reset, newest first
    slow         \* history: since the reset, so many misses lay in one window

words == <<epoch, shared, writer, applies, settled>>
loading == <<reader, parameters>>
processing == <<frames, failed, state, window, model_count, written, recent, slow>>
vars == <<words, loading, processing, quiet>>

None == -1                     \* Option<Instant>::None; otherwise an age
Age == 0..WINDOW + 1           \* WINDOW + 1: longer ago than the window
DeadlineWindow ==
    [misses : [0..RING - 1 -> Age \cup {None}], next : 0..RING - 1, count : 0..RING]
Field == {"enabled", "strength", "fail_mode"}
Access == {"idle", "first", "strength", "enabled", "fail_mode", "second", "frames"}

\* misses_per_window clamped to the ring.
Required == IF MISSES < 1 THEN 1 ELSE IF MISSES > RING THEN RING ELSE MISSES

TypeOK ==
    /\ epoch \in Nat /\ shared \in Parameters /\ applies \in 0..MaxApplies
    /\ writer \in [config : Parameters, todo : Seq(Field), step : {"begin", "store", "end"}]
    /\ reader \in [at : Access, first : Nat, read : Parameters]
    /\ parameters \in [epoch : Nat, fail_mode : FailMode, target : Strength]
    /\ frames \in 0..Frames
    /\ failed \in BOOLEAN /\ state \in LiveState
    /\ window \in DeadlineWindow
    /\ model_count \in 0..INTERVAL - 1
    /\ written \in {"nothing", "mixed", "dry"}
    /\ settled \in Seq(Parameters) /\ quiet \in BOOLEAN
    /\ recent \in Seq(Age) /\ Len(recent) <= Required /\ slow \in BOOLEAN

-----------------------------------------------------------------------------
DefaultParameters == [enabled |-> TRUE, strength |-> FullStrength, fail_mode |-> "Closed"]
EmptyWindow == [misses |-> [i \in 0..RING - 1 |-> None], next |-> 0, count |-> 0]

\* SharedLiveState::default.
NewShared == epoch = 0 /\ shared = DefaultParameters /\ state = "Running"

Init ==
    /\ NewShared /\ applies = 0
    /\ writer = [config |-> DefaultParameters, todo |-> <<>>, step |-> "begin"]
    /\ reader = [at |-> "idle", first |-> 0, read |-> DefaultParameters]
    /\ parameters = [epoch |-> 0, fail_mode |-> "Closed", target |-> FullStrength]
    /\ frames = 0 /\ failed = FALSE
    /\ window = EmptyWindow /\ model_count = 0 /\ written = "nothing"
    /\ settled = <<DefaultParameters>> /\ quiet = FALSE /\ recent = <<>> /\ slow = FALSE

-----------------------------------------------------------------------------
(* The owner thread.                                                       *)

\* apply_controls: three updates, one after the other.
ApplyControls(config) ==
    /\ writer.todo = <<>> /\ applies < MaxApplies
    /\ applies' = applies + 1
    /\ writer' = [config |-> config, todo |-> <<"enabled", "strength", "fail_mode">>,
                  step |-> "begin"]
    /\ UNCHANGED <<epoch, shared, settled, loading, processing, quiet>>

\* update: the first fetch_add.
UpdateBegin ==
    /\ writer.todo # <<>> /\ writer.step = "begin"
    /\ epoch' = epoch + 1
    /\ writer' = [writer EXCEPT !.step = "store"]
    /\ quiet' = FALSE
    /\ UNCHANGED <<shared, applies, settled, loading, processing>>

\* set_enabled, set_strength, set_fail_mode.
UpdateStore ==
    /\ writer.todo # <<>> /\ writer.step = "store"
    /\ shared' = [shared EXCEPT ![Head(writer.todo)] = writer.config[Head(writer.todo)]]
    /\ writer' = [writer EXCEPT !.step = "end"]
    /\ UNCHANGED <<epoch, applies, settled, loading, processing, quiet>>

\* update: the second fetch_add.
UpdateEnd ==
    /\ writer.todo # <<>> /\ writer.step = "end"
    /\ epoch' = epoch + 1
    /\ writer' = [writer EXCEPT !.todo = Tail(@), !.step = "begin"]
    /\ settled' = Append(settled, shared)
    /\ UNCHANGED <<shared, applies, loading, processing, quiet>>

-----------------------------------------------------------------------------
(* load_parameters, at the start of a callback.                            *)

Updating == writer.todo # <<>> /\ writer.step # "begin"

\* write begins.
Write ==
    /\ reader.at = "idle"
    /\ reader' = [reader EXCEPT !.at = "first"]
    /\ quiet' = ~Updating
    /\ written' = "nothing"
    /\ UNCHANGED <<words, parameters, frames, failed, state, window, model_count, recent, slow>>

\* The samples complete some frames, each pushed with these parameters.
Pushing(r) == r' = [r EXCEPT !.at = "frames"] /\ frames' \in 0..Frames

\* Mutant: an update in progress does not stop the load.
IgnoresParity(first) == first = parameters.epoch

\* The parameters are the known ones, or an update is in progress.
NothingToLoad(first) == first = parameters.epoch \/ first % 2 = 1

LoadFirst ==
    /\ reader.at = "first"
    /\ IF NothingToLoad(epoch)
       THEN Pushing(reader)
       ELSE /\ reader' = [reader EXCEPT !.at = "strength", !.first = epoch]
            /\ UNCHANGED frames
    /\ UNCHANGED <<words, parameters, failed, state, window, model_count, written, recent, slow, quiet>>

LoadField(field, next) ==
    /\ reader.at = field
    /\ reader' = [reader EXCEPT !.at = next, !.read[field] = shared[field]]
    /\ UNCHANGED <<words, parameters, processing, quiet>>

\* Mutant: a load that failed counts as made.
LoadRemembers ==
    /\ reader.at = "second"
    /\ Pushing(reader)
    /\ parameters' =
         IF reader.first = epoch
         THEN [epoch |-> epoch, fail_mode |-> reader.read.fail_mode,
               target |-> IF reader.read.enabled THEN reader.read.strength ELSE Dry]
         ELSE [parameters EXCEPT !.epoch = epoch]
    /\ UNCHANGED <<words, failed, state, window, model_count, written, recent, slow, quiet>>

\* The second load; what was read is adopted if the epoch has not moved.
LoadSecond ==
    /\ reader.at = "second"
    /\ Pushing(reader)
    /\ parameters' =
         IF reader.first = epoch
         THEN [epoch |-> epoch, fail_mode |-> reader.read.fail_mode,
               target |-> IF reader.read.enabled THEN reader.read.strength ELSE Dry]
         ELSE parameters
    /\ UNCHANGED <<words, failed, state, window, model_count, written, recent, slow, quiet>>

-----------------------------------------------------------------------------
(* process_frame_parts.                                                    *)

\* Mutant: the ring is walked in its full length whatever the policy.
RecordWholeRing(w) ==
    [misses |-> [w.misses EXCEPT ![w.next] = 0], next |-> (w.next + 1) % RING,
     count |-> IF w.count < Required THEN w.count + 1 ELSE Required]

\* DeadlineWindow.record: the window after a miss now ...
Record(w) ==
    [misses |-> [w.misses EXCEPT ![w.next] = 0], next |-> (w.next + 1) % Required,
     count |-> IF w.count < Required THEN w.count + 1 ELSE Required]

\* ... and whether enough of them lie within it.
Exceeded(w) ==
    w.count = Required /\ w.misses[w.next] # None /\ w.misses[w.next] <= WINDOW

\* The last frame of the callback ends it.
FrameDone ==
    /\ frames' = frames - 1
    /\ reader' = reader

Processing == reader.at = "frames" /\ frames > 0

\* A frame while failed: dry audio if the user opted in and it fits.
FrameWhileFailed ==
    /\ Processing /\ failed
    /\ FrameDone
    /\ written' \in IF parameters.fail_mode = "Open" THEN {"dry", "nothing"} ELSE {"nothing"}
    /\ UNCHANGED <<words, parameters, failed, state, window, model_count, recent, slow, quiet>>

TooMany(ages) == Len(ages) = Required /\ ages[Required] <= WINDOW

\* Every INTERVALth call of the model is timed, and may be found late.
Deadline(late) ==
    /\ model_count' = (model_count + 1) % INTERVAL
    /\ late => model_count' = 0
    /\ window' = IF late THEN Record(window) ELSE window
    /\ recent' = IF late THEN SubSeq(<<0>> \o recent, 1,
                                     IF Len(recent) < Required THEN Len(recent) + 1 ELSE Required)
                 ELSE recent
    /\ slow' = (slow \/ (late /\ TooMany(recent')))

StateAfter(late) == IF late /\ Exceeded(window') THEN "DegradedPerformance" ELSE state

\* The model succeeds and the mixed frame fits.
FrameProcessed(late) ==
    /\ Processing /\ ~failed
    /\ FrameDone
    /\ Deadline(late)
    /\ state' = StateAfter(late)
    /\ written' = "mixed"
    /\ UNCHANGED <<words, parameters, failed, quiet>>

\* The model fails: the sink latches, the frame goes out dry if opted in.
ModelFails(late) ==
    /\ Processing /\ ~failed
    /\ FrameDone
    /\ Deadline(late)
    /\ failed' = TRUE /\ state' = "ModelFailed"
    /\ written' \in IF parameters.fail_mode = "Open" THEN {"dry", "nothing"} ELSE {"nothing"}
    /\ UNCHANGED <<words, parameters, quiet>>

\* The mixed frame does not fit into the transport.
TransportFails(late) ==
    /\ Processing /\ ~failed
    /\ FrameDone
    /\ Deadline(late)
    /\ failed' = TRUE /\ state' = "TransportFailed"
    /\ written' = "nothing"
    /\ UNCHANGED <<words, parameters, quiet>>

\* The callback returns.
Return ==
    /\ reader.at = "frames" /\ frames = 0
    /\ reader' = [at |-> "idle", first |-> 0, read |-> DefaultParameters]
    /\ quiet' = FALSE
    /\ written' = "nothing"
    /\ UNCHANGED <<words, parameters, frames, failed, state, window, model_count, recent, slow>>

\* reset, on a new input generation: before the first sample of a callback.
Reset ==
    /\ reader.at = "idle"
    /\ failed' = FALSE /\ state' = "Running"
    /\ window' = EmptyWindow /\ recent' = <<>> /\ slow' = FALSE
    /\ written' = "nothing"
    /\ UNCHANGED <<words, loading, frames, model_count, quiet>>

Older(age) == IF age = None \/ age > WINDOW THEN age ELSE age + 1

Tick ==
    /\ window' = [window EXCEPT !.misses = [i \in 0..RING - 1 |-> Older(@[i])]]
    /\ recent' = [i \in 1..Len(recent) |-> Older(recent[i])]
    /\ written' = "nothing"
    /\ recent' # recent
    /\ UNCHANGED <<words, loading, frames, failed, state, model_count, slow, quiet>>

-----------------------------------------------------------------------------
Update == UpdateBegin \/ UpdateStore \/ UpdateEnd

Callback ==
    \/ Write \/ LoadFirst
    \/ LoadField("strength", "enabled") \/ LoadField("enabled", "fail_mode")
    \/ LoadField("fail_mode", "second")
    \/ LoadSecond
    \/ FrameWhileFailed
    \/ \E late \in BOOLEAN : FrameProcessed(late) \/ ModelFails(late) \/ TransportFails(late)
    \/ Return

Next ==
    \/ \E config \in Config : ApplyControls(config)
    \/ Update
    \/ Callback
    \/ Reset
    \/ Tick

Spec == Init /\ [][Next]_vars

\* The owner finishes the updates it begins, and capture goes on.
FairSpec == Spec /\ WF_vars(Update) /\ WF_vars(Callback)

-----------------------------------------------------------------------------
(* Properties.                                                             *)

Effective(p) == IF p.enabled THEN p.strength ELSE Dry
InForce(p) == parameters.fail_mode = p.fail_mode /\ parameters.target = Effective(p)

\* The sink never works with a mixture of two settings: what it has adopted
\* was in force as a whole at the epoch it remembers.
NoTornParameters ==
    /\ parameters.epoch % 2 = 0
    /\ parameters.epoch \div 2 + 1 \in DOMAIN settled
    /\ InForce(settled[parameters.epoch \div 2 + 1])

\* A callback that no update overlaps processes its frames with the settings
\* in force, the fail mode above all: a revoked opt-in is never acted upon.
RevokedIsHeeded == reader.at = "frames" /\ quiet => InForce(shared)

\* What telemetry reports is what the sink does: a failure exactly while it
\* is latched, degradation exactly since so many late calls lay in a window.
StateTellsTruth ==
    /\ failed <=> state \in {"ModelFailed", "TransportFailed"}
    /\ ~failed => (state = "DegradedPerformance" <=> slow)

\* From a failure to the next reset nothing processed is published, and
\* nothing raw either unless the settings the callback works with, which were
\* in force as a whole, opted in.
FailsClosed ==
    [][/\ failed => written' # "mixed"
       /\ written' = "dry" /\ frames' # frames =>
            /\ failed'
            /\ settled[parameters.epoch \div 2 + 1].fail_mode = "Open"]_vars

\* Once the owner stops changing them, the sink works with the settings.
SettingsReachSink == <>[](parameters.epoch = epoch /\ InForce(shared))
=============================================================================
