------------------------------ MODULE SignalPath ------------------------------
(***************************************************************************)
(* What happens to the samples between the capture callback and the        *)
(* transport: callbacks of any size are assembled into model frames        *)
(* (frame.rs), each frame goes through the model (FastEnhancer's adapter)  *)
(* and through the dry delay (delay.rs), and the two are mixed at a        *)
(* strength that moves in a ramp (ramp.rs); process_frame_parts of live.rs *)
(* drives them.                                                            *)
(*                                                                         *)
(* A sample is its position in the captured stream and whether it can be   *)
(* heard: positions filled with zeros, or sanitized, cannot.  A frame of   *)
(* the model is the stream some samples earlier, as its descriptor says.   *)
(* A callback is processed frame by frame; nothing else touches this state *)
(* before it has returned.  The parameters it loads are LiveSink's subject.*)
(***************************************************************************)
EXTENDS Integers, Sequences

CONSTANTS
    FRAME,          \* MODEL_FRAME_SAMPLES
    SPECS,          \* what descriptors may say of a model
    RATE,           \* SAMPLE_RATE_HZ
    CALLBACK,       \* MAX_CALLBACK_FRAMES
    RAMP,           \* MIN_STRENGTH_RAMP_SAMPLES
    UNIT,           \* full strength, in steps fine enough for RAMP
    MaxSamples,     \* bound: length of the captured stream
    MaxTargets,     \* bound: changes of the strength's target
    MaxMishaps      \* bound: resets, failed frames and refused frames

ASSUME SignalAssumption ==
    /\ FRAME \in Nat \ {0} /\ CALLBACK \in Nat
    /\ RAMP \in Nat \ {0} /\ UNIT \in Nat \ {0}
    /\ MaxSamples \in Nat /\ MaxTargets \in Nat /\ MaxMishaps \in Nat
    /\ SPECS \subseteq [named : BOOLEAN, rate : Nat, channels : Nat, frame : Nat, hop : Nat,
                         lookahead : Nat, delay : Nat]

\* A ramp that starts where another was left off divides by RAMP once more, as
\* often as the target changes: the steps stay whole.
ASSUME UnitAssumption ==
    \E grain \in [0 .. MaxTargets -> {n \in 1 .. UNIT : UNIT % n = 0}] :
        \A k \in 1 .. MaxTargets : grain[k - 1] = RAMP * grain[k]

VARIABLES
    model,          \* the descriptor of the model in use
    captured,       \* samples captured so far
    input,          \* what is left of the current callback's samples
    pending,        \* FrameAssembler.storage[..pending]
    delayed,        \* DryDelay, oldest first
    recurrent,      \* the model's history, oldest first
    strength,       \* StrengthRamp
    latched, failMode,
    sent,           \* history: the frame last written to the transport
    since,          \* history: first position captured after the last reset
    skipped,        \* history: a frame after the last one was not written
    targets, mishaps

signalVars == <<model, captured, input, pending, delayed, recurrent, strength, latched, failMode,
                sent, since, skipped, targets, mishaps>>

Zero(at) == [at |-> at, heard |-> FALSE]
\* Zeros before position p, as a cleared delay line or model history holds them.
Zeros(n, p) == [j \in 1..n |-> Zero(p - n + j - 1)]

-----------------------------------------------------------------------------
(***************************************************************************)
(* The model's contract.                                                   *)
(***************************************************************************)
\* ModelDescriptor::new.  A frame times its channels fits a machine word.
WellFormed(spec) ==
    /\ spec.named /\ spec.rate > 0 /\ spec.channels > 0 /\ spec.frame > 0
    /\ spec.hop \in 1..spec.frame
    /\ spec.delay >= spec.lookahead

\* LiveCaptureSink::new accepts no other model, DryDelay::new no longer delay.
Accepted(spec) ==
    /\ WellFormed(spec)
    /\ spec.rate = RATE /\ spec.channels = 1 /\ spec.frame = FRAME /\ spec.hop = FRAME
    /\ spec.delay <= FRAME + CALLBACK

-----------------------------------------------------------------------------
(***************************************************************************)
(* The stages.                                                             *)
(***************************************************************************)
Last(line, n) == SubSeq(line, Len(line) - n + 1, Len(line))

\* What is no number, or too small for one, is made silent.
Sanitized(n, zeroed, first) == [j \in 1..n |-> [at |-> first + j - 1, heard |-> j # zeroed]]

\* DryDelay::process.
Out(line, frame) == SubSeq(line \o frame, 1, Len(frame))
Kept(line, frame) == Last(line \o frame, Len(line))

\* process_frame of a model, as far as its delay goes: its output and its state.
Inferred(line, frame) == [output |-> Out(line, frame), state |-> Kept(line, frame)]

\* Mutant: a new target must be reached when the old one would have been.
Hastened(ramp, target) ==
    IF target = ramp.current THEN [ramp EXCEPT !.target = target, !.step = 0, !.remaining = 0]
    ELSE LET duration == IF ramp.remaining = 0 THEN RAMP ELSE ramp.remaining
         IN  [ramp EXCEPT !.target = target, !.remaining = duration,
                          !.step = (target - ramp.current) \div duration]

\* StrengthRamp::set_target, always asked for the shortest ramp.
SetTarget(ramp, target) ==
    IF target = ramp.current THEN [ramp EXCEPT !.target = target, !.step = 0, !.remaining = 0]
    ELSE [ramp EXCEPT !.target = target, !.remaining = RAMP,
                      !.step = (target - ramp.current) \div RAMP]

\* StrengthRamp::next for the n-th of the samples that follow.
Gain(ramp, n) ==
    IF n >= ramp.remaining THEN ramp.target ELSE ramp.current + n * ramp.step
Advanced(ramp, n) ==
    [ramp EXCEPT !.current = Gain(ramp, n),
                 !.remaining = IF n >= @ THEN 0 ELSE @ - n]

\* The mixed frame: what LinearMixer::mix is given for each sample.
Mixed(dry, wet) ==
    [j \in 1..FRAME |-> [dry |-> dry[j], wet |-> wet[j], gain |-> Gain(strength, j)]]

\* Dry audio as it is published when a failure is opted to be open.
Opened(dry) == [j \in 1..FRAME |-> [dry |-> dry[j], wet |-> dry[j], gain |-> 0]]

-----------------------------------------------------------------------------
(***************************************************************************)
(* The callback.                                                           *)
(***************************************************************************)
SignalInit ==
    /\ model \in {spec \in SPECS : Accepted(spec)}
    /\ captured = 0 /\ input = <<>> /\ pending = <<>>
    /\ delayed = Zeros(model.delay, 1) /\ recurrent = Zeros(model.delay, 1)
    /\ strength = [current |-> UNIT, target |-> UNIT, step |-> 0, remaining |-> 0]
    /\ latched = FALSE /\ failMode = "closed"
    /\ sent = <<>> /\ since = 1 /\ skipped = FALSE /\ targets = 0 /\ mishaps = 0

Mishap == mishaps < MaxMishaps /\ mishaps' = mishaps + 1

LoadTarget(target) ==
    IF target = strength.target THEN UNCHANGED <<strength, targets>>
    ELSE /\ targets < MaxTargets /\ targets' = targets + 1
         /\ strength' = SetTarget(strength, target)

\* write: parameters are loaded once, samples that are no numbers are zeroed.
WriteCallback(n, zeroed, target, mode) ==
    /\ input = <<>> /\ captured + n <= MaxSamples
    /\ captured' = captured + n
    /\ input' = Sanitized(n, zeroed, captured + 1)
    /\ LoadTarget(target)
    /\ failMode' = mode
    /\ UNCHANGED <<model, pending, delayed, recurrent, latched, sent, since, skipped, mishaps>>

Needed == FRAME - Len(pending)

\* FrameAssembler::push, the samples that do not complete a frame.
Assemble ==
    /\ input # <<>> /\ Len(input) < Needed
    /\ pending' = pending \o input /\ input' = <<>>
    /\ UNCHANGED <<model, captured, delayed, recurrent, strength, latched, failMode, sent,
                   since, skipped, targets, mishaps>>

Frame == pending \o SubSeq(input, 1, Needed)

\* Mutant: what a callback brings beyond one frame is lost.
EmitsOnce ==
    /\ input # <<>> /\ Len(input) >= Needed
    /\ pending' = <<>> /\ input' = <<>>
    /\ delayed' = Kept(delayed, Frame)
    /\ UNCHANGED <<model, captured, failMode, since, targets>>

\* A frame is complete: it is taken out of the assembler and delayed.
Emit ==
    /\ input # <<>> /\ Len(input) >= Needed
    /\ pending' = <<>> /\ input' = SubSeq(input, Needed + 1, Len(input))
    /\ delayed' = Kept(delayed, Frame)
    /\ UNCHANGED <<model, captured, failMode, since, targets>>

DryFrame == Out(delayed, Frame)

\* write_processed drops the frame when the transport has no room for it.
Sends(frame) == sent' = frame /\ skipped' = FALSE
Unsent == skipped' = TRUE /\ UNCHANGED sent

\* write_processed(dry) once the latch is set; its refusal changes nothing.
PublishDry ==
    \/ failMode = "open" /\ Sends(Opened(DryFrame)) /\ UNCHANGED mishaps
    \/ failMode = "open" /\ Unsent /\ Mishap
    \/ failMode = "closed" /\ Unsent /\ UNCHANGED mishaps

\* The latch is set: the model is left alone, the dry delay is not.
Bypass ==
    /\ latched /\ Emit /\ PublishDry
    /\ UNCHANGED <<recurrent, strength, latched>>

Process ==
    /\ ~latched /\ Emit
    /\ recurrent' = Inferred(recurrent, Frame).state
    /\ strength' = Advanced(strength, FRAME)
    /\ \/ Sends(Mixed(DryFrame, Inferred(recurrent, Frame).output)) /\ UNCHANGED <<latched, mishaps>>
       \/ Unsent /\ latched' = TRUE /\ Mishap

\* Mutant: a failed frame is skipped and the next one tried again.
ModelForgives ==
    /\ ~latched /\ Emit /\ Mishap
    /\ Unsent
    /\ UNCHANGED <<recurrent, strength, latched>>

\* Inference fails or its output is no number: its history may have advanced.
InferenceFails ==
    /\ ~latched /\ Emit /\ Mishap
    /\ latched' = TRUE
    /\ recurrent' \in {recurrent, Inferred(recurrent, Frame).state}
    /\ \/ failMode = "open" /\ Sends(Opened(DryFrame))
       \/ Unsent
    /\ UNCHANGED strength

\* reset of the model: nothing is left of what it heard.
Forgotten == Zeros(model.delay, captured + 1)

\* reset: a new generation.  The ramp goes on where it is.
ResetStages ==
    /\ input = <<>> /\ Mishap
    /\ pending' = <<>>
    /\ delayed' = Zeros(model.delay, captured + 1) /\ recurrent' = Forgotten
    /\ latched' = FALSE
    /\ since' = captured + 1 /\ sent' = <<>> /\ skipped' = FALSE
    /\ UNCHANGED <<model, captured, input, strength, failMode, targets>>

Targets == {0, UNIT}

SignalNext ==
    \/ \E n \in 0..CALLBACK : \E zeroed \in {0, n} :
          \E target \in Targets, mode \in {"closed", "open"} : WriteCallback(n, zeroed, target, mode)
    \/ Assemble \/ Bypass \/ Process \/ InferenceFails \/ ResetStages

SignalSpec == SignalInit /\ [][SignalNext]_signalVars

-----------------------------------------------------------------------------
\* Whatever the sizes of the callbacks, failures and resets: the two samples
\* that are mixed are of the same instant, and nothing captured before the last
\* reset can be heard.
Aligned ==
    \A j \in DOMAIN sent :
        /\ sent[j].dry = sent[j].wet
        /\ sent[j].dry.heard => sent[j].dry.at >= since

\* Between resets the transport is given the stream without a gap or a
\* repetition, but for whole frames that a failure or the transport holds back.
Seamless ==
    [][\A j \in DOMAIN sent' :
          j > 1 => sent'[j].dry.at = sent'[j - 1].dry.at + 1]_signalVars
    /\ [][sent # <<>> /\ sent' \notin {sent, <<>>} /\ ~skipped
             => sent'[1].dry.at = sent[FRAME].dry.at + 1]_signalVars

Near(g, h) == g - h \in -(UNIT \div RAMP)..(UNIT \div RAMP)

\* The strength never jumps, within a frame, between frames or when its target
\* changes during a ramp; only a failure cuts it off.
NoClick ==
    [][sent' \notin {sent, <<>>} /\ ~latched' =>
          /\ \A j \in 2..FRAME : Near(sent'[j].gain, sent'[j - 1].gain)
          /\ sent # <<>> /\ ~skipped => Near(sent'[1].gain, sent[FRAME].gain)]_signalVars
=============================================================================
