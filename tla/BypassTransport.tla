--------------------------- MODULE BypassTransport ---------------------------
(***************************************************************************)
(* The lock-free transport from the capture callback to the virtual        *)
(* source's callback (crates/noire-pipewire/src/bypass.rs), with the audio *)
(* commands the control thread leaves for the source callback (source.rs)  *)
(* and the fade state of noire-dsp's FaultRamp.                            *)
(*                                                                         *)
(* Three threads meet here.  The capture thread pushes samples tagged with *)
(* the generation it read at the start of the block.  The source thread    *)
(* pops them and publishes only those of the generation it read at the     *)
(* start of its callback.  The control thread asks for a drain and opens or*)
(* closes the producer's gate.  Every access to an atomic and every push   *)
(* or pop is a step of its own; samples are numbered as they are captured. *)
(***************************************************************************)
EXTENDS Integers, Sequences, SequencesExt

CONSTANTS
    CAPACITY,        \* BYPASS_RING_CAPACITY
    BLOCK,           \* samples in a captured block
    Quanta,          \* numbers of samples a source callback may request
    STARTUP_FRAME,   \* startup_frame_samples
    STARTUP_QUANTA,  \* startup_quanta
    EMPTY,           \* empty_while_buffering
    RAMP,            \* FAULT_RAMP_SAMPLES
    MaxCaptured,     \* bound on the samples captured
    MaxGeneration    \* bound on the shared generation counter

ASSUME SizeAssumption ==
    /\ {CAPACITY, BLOCK, RAMP, MaxCaptured, MaxGeneration} \subseteq Nat \ {0}
    /\ Quanta \subseteq Nat \ {0}
    /\ {STARTUP_FRAME, STARTUP_QUANTA} \subseteq Nat
ASSUME FlagAssumption == EMPTY \in BOOLEAN

VARIABLES
    ring,        \* the SPSC queue of tagged samples, oldest first
    generation,  \* SharedState.generation
    enabled,     \* SharedState.publication_enabled
    command,     \* the source's audio_command
    reset,       \* the capture stream's input generation has been advanced
    producer,    \* the capture callback: the block it is writing
    out,         \* the source callback: BypassOutput and where it stands
    captured,    \* number of the newest sample captured
    gated,       \* history: the samples captured while the gate was closed
    since,       \* history: samples handed over when each generation began
    heard        \* history: first and last sample of the newest block published

vars ==
    <<ring, generation, enabled, command, reset, producer, out, captured, gated, since, heard>>

Tagged == [generation : 1..MaxGeneration, value : 1..MaxCaptured]
FaultRamp == [state : {"Passing", "FadingOut", "Silent", "FadingIn"}, gain : 0..RAMP]
OutputAt == {"idle", "apply", "clear", "drain", "settle", "dispatch",
             "sync", "prefix", "threshold", "pop"}

TypeOK ==
    /\ ring \in Seq(Tagged) /\ Len(ring) <= CAPACITY
    /\ generation \in 1..MaxGeneration
    /\ enabled \in BOOLEAN
    /\ command \in {"none", "discard", "clear"}
    /\ reset \in BOOLEAN
    /\ producer \in [at : {"idle", "load", "slots", "push"}, generation : 0..MaxGeneration,
                     left : 0..BLOCK]
    /\ out \in [at : OutputAt, clearing : BOOLEAN, generation : 1..MaxGeneration,
                ready : BOOLEAN, leading : BOOLEAN, ramp : FaultRamp,
                want : Quanta \cup {0}, scratch : Seq(1..MaxCaptured)]
    /\ Len(out.scratch) <= out.want
    /\ captured \in 0..MaxCaptured
    /\ since \in [1..MaxGeneration -> 0..MaxCaptured]
    /\ gated \subseteq 1..MaxCaptured
    /\ heard \in [first : 0..MaxCaptured, last : 0..MaxCaptured]

-----------------------------------------------------------------------------
(* FaultRamp.                                                              *)

Silenced == [state |-> "Silent", gain |-> 0]

BeginRecovery(r) == IF r.state = "Passing" THEN r ELSE [r EXCEPT !.state = "FadingIn"]
BeginFault(r) == IF r.state = "Silent" THEN r ELSE [r EXCEPT !.state = "FadingOut"]

\* next_gain, n times.
Rendered(r, n) ==
    CASE r.state = "FadingOut" ->
             IF r.gain <= n THEN Silenced ELSE [r EXCEPT !.gain = @ - n]
      [] r.state = "FadingIn" ->
             IF r.gain + n >= RAMP THEN [state |-> "Passing", gain |-> RAMP]
             ELSE [r EXCEPT !.gain = @ + n]
      [] OTHER -> r

-----------------------------------------------------------------------------
Init ==
    /\ ring = <<>>
    /\ generation = 1
    /\ enabled = FALSE
    /\ command = "none"
    /\ reset = FALSE
    /\ producer = [at |-> "idle", generation |-> 0, left |-> 0]
    /\ out = [at |-> "idle", clearing |-> FALSE, generation |-> 1, ready |-> FALSE,
              leading |-> EMPTY, ramp |-> Silenced, want |-> 0, scratch |-> <<>>]
    /\ captured = 0
    /\ gated = {}
    /\ since = [g \in 1..MaxGeneration |-> 0]
    /\ heard = [first |-> 0, last |-> 0]

\* A block belongs to the transport once its generation has been read; one
\* whose processing a request overtakes counts as captured after it.
HandedOver == IF producer.at = "load" THEN captured - BLOCK ELSE captured

\* request_resync: one fetch_add.  The bound stands for u64's.
RequestResync ==
    /\ generation < MaxGeneration
    /\ generation' = generation + 1
    /\ since' = [since EXCEPT ![generation + 1] = HandedOver]

-----------------------------------------------------------------------------
(* The control thread.                                                     *)

\* The source stream's state_changed listener opens the gate while a consumer
\* drives the source and closes it otherwise.
SetPublicationEnabled(b) ==
    /\ enabled # b
    /\ enabled' = b
    /\ UNCHANGED <<ring, generation, command, reset, producer, out, captured, gated, since, heard>>

\* schedule_audio_command: fetch_max, so that clear dominates discard.
ScheduleAudioCommand(c) ==
    /\ command' = IF command = "clear" THEN command ELSE c
    /\ UNCHANGED <<ring, generation, enabled, reset, producer, out, captured, gated, since, heard>>

\* advance_input_generation of the capture stream.
AdvanceInputGeneration ==
    /\ ~reset
    /\ reset' = TRUE
    /\ UNCHANGED <<ring, generation, enabled, command, producer, out, captured, gated, since, heard>>

-----------------------------------------------------------------------------
(* The capture callback.                                                   *)

\* CaptureProcessor::synchronize_generation calls the sink's reset before the
\* samples of the new input generation are written.
CaptureReset ==
    /\ producer.at = "idle" /\ reset
    /\ reset' = FALSE
    /\ RequestResync
    /\ UNCHANGED <<ring, enabled, command, producer, out, captured, gated, heard>>

\* A block arrives and the gate is read.
WriteProcessed ==
    /\ producer.at = "idle" /\ ~reset
    /\ captured + BLOCK <= MaxCaptured
    /\ captured' = captured + BLOCK
    /\ IF enabled
       THEN /\ producer' = [producer EXCEPT !.at = "load"]
            /\ UNCHANGED gated
       ELSE /\ gated' = gated \cup (captured + 1)..(captured + BLOCK)
            /\ UNCHANGED producer
    /\ UNCHANGED <<ring, generation, enabled, command, reset, out, since, heard>>

LoadGeneration ==
    /\ producer.at = "load"
    /\ producer' = [producer EXCEPT !.at = "slots", !.generation = generation]
    /\ UNCHANGED <<ring, generation, enabled, command, reset, out, captured, gated, since, heard>>

\* The block fits.
SlotsFree ==
    /\ producer.at = "slots" /\ CAPACITY - Len(ring) >= BLOCK
    /\ producer' = [producer EXCEPT !.at = "push", !.left = BLOCK]
    /\ UNCHANGED <<ring, generation, enabled, command, reset, out, captured, gated, since, heard>>

\* Mutant: the block is dropped and nobody told.
DropBlock ==
    /\ producer.at = "slots" /\ CAPACITY - Len(ring) < BLOCK
    /\ producer' = [producer EXCEPT !.at = "idle", !.generation = 0]
    /\ UNCHANGED <<ring, generation, enabled, command, reset, out, captured, gated, since, heard>>

\* record_overflow: the block is dropped and a resynchronization requested.
RecordOverflow ==
    /\ producer.at = "slots" /\ CAPACITY - Len(ring) < BLOCK
    /\ producer' = [producer EXCEPT !.at = "idle", !.generation = 0]
    /\ RequestResync
    /\ UNCHANGED <<ring, enabled, command, reset, out, captured, gated, heard>>

NextLeft == IF producer.left = 1
            THEN [at |-> "idle", generation |-> 0, left |-> 0]
            ELSE [producer EXCEPT !.left = @ - 1]

\* One push; a full ring would be an overflow.
Push ==
    /\ producer.at = "push"
    /\ IF Len(ring) < CAPACITY
       THEN /\ ring' = Append(ring, [generation |-> producer.generation,
                                     value |-> captured - producer.left + 1])
            /\ producer' = NextLeft
            /\ UNCHANGED <<generation, since>>
       ELSE /\ RequestResync
            /\ producer' = [at |-> "idle", generation |-> 0, left |-> 0]
            /\ UNCHANGED ring
    /\ UNCHANGED <<enabled, command, reset, out, captured, gated, heard>>

-----------------------------------------------------------------------------
(* The source callback.                                                    *)

Silence(o) == [o EXCEPT !.ready = FALSE, !.leading = EMPTY, !.ramp = Silenced]
Return(o) == [o EXCEPT !.at = "idle", !.want = 0, !.scratch = <<>>]

\* apply_audio_command swaps the command out.
ApplyAudioCommand ==
    /\ out.at = "idle"
    /\ command' = "none"
    /\ out' = [out EXCEPT !.at = CASE command = "clear" -> "clear"
                                   [] command = "discard" -> "drain"
                                   [] OTHER -> "dispatch",
                          !.clearing = command = "clear"]
    /\ UNCHANGED <<ring, generation, enabled, reset, producer, captured, gated, since, heard>>

\* clear_sensitive requests the new generation before it drains.
ClearSensitive ==
    /\ out.at = "clear"
    /\ RequestResync
    /\ out' = [out EXCEPT !.at = "drain"]
    /\ UNCHANGED <<ring, enabled, command, reset, producer, captured, gated, heard>>

\* discard_pending_sensitive pops until the ring is empty.
DrainPop ==
    /\ out.at = "drain" /\ ring # <<>>
    /\ ring' = Tail(ring)
    /\ UNCHANGED <<generation, enabled, command, reset, producer, out, captured, gated, since, heard>>

DrainEnd ==
    /\ out.at = "drain" /\ ring = <<>>
    /\ out' = [Silence(out) EXCEPT !.at = IF out.clearing THEN "settle" ELSE "dispatch"]
    /\ UNCHANGED <<ring, generation, enabled, command, reset, producer, captured, gated, since, heard>>

\* The end of clear_sensitive takes the generation over.
Settle ==
    /\ out.at = "settle"
    /\ out' = [out EXCEPT !.at = "dispatch", !.generation = generation]
    /\ UNCHANGED <<ring, generation, enabled, command, reset, producer, captured, gated, since, heard>>

\* No buffer can be dequeued, or the request exceeds the fixed bound and is
\* rejected with silence.
NoBuffer ==
    /\ out.at = "dispatch"
    /\ out' \in {Return(out), Return([out EXCEPT !.ramp = Silenced])}
    /\ UNCHANGED <<ring, generation, enabled, command, reset, producer, captured, gated, since, heard>>

\* fill is called with a destination of n samples.
Fill(n) ==
    /\ out.at = "dispatch"
    /\ out' = [out EXCEPT !.at = "sync", !.want = n]
    /\ UNCHANGED <<ring, generation, enabled, command, reset, producer, captured, gated, since, heard>>

\* Mutant: the callback keeps its generation while it is playing.
SynchronizeWhenBuffering ==
    /\ out.at = "sync"
    /\ out' = [(IF generation = out.generation \/ out.ready THEN out
                ELSE [Silence(out) EXCEPT !.generation = generation])
               EXCEPT !.at = "prefix"]
    /\ UNCHANGED <<ring, generation, enabled, command, reset, producer, captured, gated, since, heard>>

SynchronizeGeneration ==
    /\ out.at = "sync"
    /\ out' = [(IF generation = out.generation THEN out
                ELSE [Silence(out) EXCEPT !.generation = generation])
               EXCEPT !.at = "prefix"]
    /\ UNCHANGED <<ring, generation, enabled, command, reset, producer, captured, gated, since, heard>>

Stale == ring # <<>> /\ Head(ring).generation # out.generation

\* One turn of discard_stale_prefix, and its end.
DiscardStalePrefix ==
    /\ out.at = "prefix"
    /\ IF Stale THEN ring' = Tail(ring) /\ UNCHANGED out
       ELSE out' = [out EXCEPT !.at = "threshold"] /\ UNCHANGED ring
    /\ UNCHANGED <<generation, enabled, command, reset, producer, captured, gated, since, heard>>

StartupRequired == STARTUP_FRAME + out.want * STARTUP_QUANTA

\* Too little audio to start: silence, or nothing at all.
Buffering ==
    /\ out.at = "threshold"
    /\ ~out.ready /\ Len(ring) < StartupRequired
    /\ out' = Return(out)
    /\ UNCHANGED <<ring, generation, enabled, command, reset, producer, captured, gated, since, heard>>

Started(o) == IF o.ready THEN o ELSE [o EXCEPT !.ready = TRUE, !.ramp = BeginRecovery(@)]

\* The first callback that could play publishes the leading silence instead.
LeadingSilence ==
    /\ out.at = "threshold"
    /\ out.ready \/ Len(ring) >= StartupRequired
    /\ EMPTY /\ out.leading
    /\ out' = Return([Started(out) EXCEPT !.leading = FALSE])
    /\ UNCHANGED <<ring, generation, enabled, command, reset, producer, captured, gated, since, heard>>

StartPopping ==
    /\ out.at = "threshold"
    /\ out.ready \/ Len(ring) >= StartupRequired
    /\ ~(EMPTY /\ out.leading)
    /\ out' = [Started(out) EXCEPT !.at = "pop"]
    /\ UNCHANGED <<ring, generation, enabled, command, reset, producer, captured, gated, since, heard>>

PopSample ==
    /\ out.at = "pop" /\ Len(out.scratch) < out.want
    /\ ring # <<>> /\ ~Stale
    /\ ring' = Tail(ring)
    /\ out' = [out EXCEPT !.scratch = Append(@, Head(ring).value)]
    /\ UNCHANGED <<generation, enabled, command, reset, producer, captured, gated, since, heard>>

\* The ring is empty or holds a sample of another generation, which is popped
\* and lost with the ones before it: the callback fades out, asks for a
\* resynchronization and goes back to startup.
Underflow ==
    /\ out.at = "pop" /\ Len(out.scratch) < out.want
    /\ ring = <<>> \/ Stale
    /\ ring' = IF ring = <<>> THEN ring ELSE Tail(ring)
    /\ RequestResync
    /\ out' = Return([out EXCEPT !.ready = FALSE, !.leading = EMPTY,
                                 !.ramp = Rendered(BeginFault(@), out.want)])
    /\ UNCHANGED <<enabled, command, reset, producer, captured, gated, heard>>

\* A complete block goes through the ramp to the destination.
Publish ==
    /\ out.at = "pop" /\ Len(out.scratch) = out.want
    /\ heard' = [first |-> Head(out.scratch), last |-> Last(out.scratch)]
    /\ out' = Return([out EXCEPT !.ramp = Rendered(@, out.want)])
    /\ UNCHANGED <<ring, generation, enabled, command, reset, producer, captured, gated, since>>

-----------------------------------------------------------------------------
ControlStep ==
    \/ \E b \in BOOLEAN : SetPublicationEnabled(b)
    \/ \E c \in {"discard", "clear"} : ScheduleAudioCommand(c)
    \/ AdvanceInputGeneration

CaptureStep ==
    CaptureReset \/ WriteProcessed \/ LoadGeneration \/ SlotsFree \/ RecordOverflow \/ Push

SourceStep ==
    \/ ApplyAudioCommand \/ ClearSensitive \/ DrainPop \/ DrainEnd \/ Settle \/ NoBuffer
    \/ \E n \in Quanta : Fill(n)
    \/ SynchronizeGeneration \/ DiscardStalePrefix \/ Buffering \/ LeadingSilence
    \/ StartPopping \/ PopSample \/ Underflow \/ Publish

Next == ControlStep \/ CaptureStep \/ SourceStep

Spec == Init /\ [][Next]_vars

-----------------------------------------------------------------------------
(* Properties.                                                             *)

\* The number of free slots read before a block is written stays good while
\* it is written: only the consumer works on the ring meanwhile, so the error
\* path of push is never taken and no block is written in part.
BlockFits == producer.at = "push" => Len(ring) + producer.left <= CAPACITY

\* Every queued sample was captured after the generation it is tagged with
\* began, and the ring is in the order of capture: this is why comparing tags
\* is enough to keep superseded audio from being heard.
TagsAreTrue ==
    /\ \A i \in DOMAIN ring : /\ ring[i].generation <= generation
                              /\ since[ring[i].generation] < ring[i].value
    /\ \A i, j \in DOMAIN ring : i < j => /\ ring[i].value < ring[j].value
                                          /\ ring[i].generation <= ring[j].generation

\* A callback never splices audio from before a dropout to audio from after
\* it: within the samples it has collected the only gaps are samples captured
\* while the gate was closed.
NoSplice ==
    \A i \in 1..Len(out.scratch) - 1 :
        (out.scratch[i] + 1)..(out.scratch[i + 1] - 1) \subseteq gated

\* The transport is the channel FreshChannel promises: no sample is heard
\* twice or out of order, and none from before a clear, an overflow, an
\* underflow or an input change that precedes the callback.
Channel == INSTANCE FreshChannel WITH
    captured <- HandedOver,
    invalidated <- since[generation],
    accepted <- since[out.generation],
    listening <- out.at \in {"prefix", "threshold", "pop"},
    heard <- heard

IsFreshChannel == Channel!FCSpec

=============================================================================
