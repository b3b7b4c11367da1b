---------------------------- MODULE CaptureBuffers ----------------------------
(***************************************************************************)
(* The capture stream's boundary (capture.rs, format.rs): the format that  *)
(* PipeWire negotiates, the buffers it hands to the data thread with       *)
(* metadata nobody vouches for, and the telemetry that the owner thread    *)
(* reads field by field while the data thread stores it field by field.    *)
(*                                                                         *)
(* Every atomic store and load of the telemetry is a step of its own.      *)
(* Bytes are counted, not represented; a level is its height with the      *)
(* generation of the samples it was measured on.  recent stands for        *)
(* recent_peak_bits and for rms_bits, which are stored one after the other.*)
(***************************************************************************)
EXTENDS Integers, Sequences

CONSTANTS
    RATE_HZ,        \* the rate of CANONICAL_CAPTURE_FORMAT
    Pod,            \* negotiated formats, as parse_negotiated_format sees them
    Buffers,        \* buffers that may be dequeued
    F32_BYTES,
    MAX_CALLBACK,   \* MAX_CALLBACK_FRAMES
    Absent,         \* no pod, no mapping, no event
    MaxGeneration,  \* bound: requested resets
    MaxCallbacks    \* bound: buffers

ASSUME BuffersAssumption ==
    /\ F32_BYTES \in Nat \ {0} /\ MAX_CALLBACK \in Nat
    /\ MaxGeneration \in Nat /\ MaxCallbacks \in Nat
    /\ Pod \subseteq [parses : BOOLEAN, media : STRING, sample : STRING, rate : Nat,
                      channels : Nat, position : STRING]
    /\ Buffers \subseteq [planes : Nat, chunk : BOOLEAN, mapped : {Absent} \cup Nat, offset : Nat,
                          size : Nat, stride : Int, corrupted : BOOLEAN, height : Nat]

VARIABLES
    negotiated,     \* external: the stream's format, Absent before the first
    formatEvent,    \* ControlState.format_event
    connected,      \* the graph that owns the stream is there
    command,        \* generation_command
    processor,      \* CaptureProcessor: generation and counters
    telemetry,      \* CaptureTelemetryInner
    stores,         \* the stores the current callback has yet to do
    loads,          \* the fields the owner's snapshot has yet to load
    seen
buffersVars == <<negotiated, formatEvent, connected, command, processor, telemetry,
                 stores, loads, seen>>

-----------------------------------------------------------------------------
(***************************************************************************)
(* The format.                                                             *)
(***************************************************************************)
\* build_raw_audio_format_pod: what is requested of PipeWire.
Requested(rate) ==
    [parses |-> TRUE, media |-> "raw", sample |-> "f32", rate |-> rate, channels |-> 1,
     position |-> "mono"]

CANONICAL == Requested(RATE_HZ)

NegotiatedFormatError ==
    {"malformed", "media", "sample", "rate", "channels", "position"}

\* parse_negotiated_format: the first mismatch is the reason.
Parsed(pod) ==
    LET checked == <<"media", "sample", "rate", "channels", "position">>
        wrong == {i \in DOMAIN checked : pod[checked[i]] # CANONICAL[checked[i]]}
    IN  CASE pod = Absent \/ ~pod.parses -> "malformed"
          [] pod # Absent /\ pod.parses /\ wrong # {} ->
                checked[CHOOSE i \in wrong : \A j \in wrong : i <= j]
          [] OTHER -> "accepted"

Level(height, generation) == [height |-> height, of |-> generation]
Silent(generation) == Level(0, generation)

\* InputGeneration::INITIAL.
INITIAL == 1

\* refused: buffers that are empty, malformed or oversized.
NewProcessor ==
    /\ command = INITIAL
    /\ processor = [generation |-> INITIAL, callbacks |-> 0, frames |-> 0, refused |-> 0]

NewTelemetry ==
    telemetry = [generation |-> INITIAL, callbacks |-> 0, frames |-> 0, refused |-> 0,
                 peak |-> Silent(INITIAL), recent |-> Silent(INITIAL)]

BuffersInit ==
    /\ negotiated = Absent /\ formatEvent = Absent /\ connected = TRUE
    /\ NewProcessor /\ NewTelemetry
    /\ stores = <<>> /\ loads = <<>> /\ seen = [generation |-> INITIAL]

\* param_changed, on the owner thread and before a buffer in the new format.
NegotiateFormat(pod) ==
    /\ connected /\ pod # negotiated
    /\ negotiated' = pod /\ formatEvent' = Parsed(pod)
    /\ UNCHANGED <<connected, command, processor, telemetry, stores, loads, seen>>

\* Mutant: a rejected format is taken and logged.
LogsRejection ==
    /\ connected /\ formatEvent # Absent
    /\ formatEvent' = Absent
    /\ UNCHANGED <<negotiated, connected, command, processor, telemetry, stores, loads, seen>>

\* service_native: the latest event is taken; a rejection drops the graph, whose
\* stream is disconnected synchronously.
TakeFormat ==
    /\ connected /\ formatEvent # Absent
    /\ connected' = (formatEvent \notin NegotiatedFormatError) /\ formatEvent' = Absent
    /\ UNCHANGED <<negotiated, command, processor, telemetry, stores, loads, seen>>

RequestGeneration ==
    /\ connected /\ command < MaxGeneration /\ command' = command + 1
    /\ UNCHANGED <<negotiated, formatEvent, connected, processor, telemetry, stores, loads,
                   seen>>

-----------------------------------------------------------------------------
(***************************************************************************)
(* The data thread.                                                        *)
(***************************************************************************)
\* A buffer without exactly one plane, or without a chunk, counts as malformed.
Metadata(buffer) ==
    IF buffer.planes # 1 \/ ~buffer.chunk
    THEN [buffer EXCEPT !.mapped = Absent, !.offset = 0, !.size = 1, !.stride = 0]
    ELSE buffer

Malformed(b) ==
    \/ b.corrupted \/ b.stride \notin {0, F32_BYTES} \/ b.size % F32_BYTES # 0
    \/ b.mapped = Absent
    \/ b.mapped # Absent /\ b.offset + b.size > b.mapped

Outcome(buffer) ==
    LET b == Metadata(buffer)
    IN  CASE b.size = 0 -> "empty"
          [] b.size > 0 /\ Malformed(b) -> "malformed"
          [] b.size > 0 /\ ~Malformed(b) /\ b.size \div F32_BYTES > MAX_CALLBACK -> "oversized"
          [] OTHER -> "delivered"

\* CaptureTelemetry::publish, in the order of its stores; an empty slice is silent.
Publish(p, level) ==
    << <<"generation", p.generation>>, <<"callbacks", p.callbacks>>, <<"frames", p.frames>>,
       <<"refused", p.refused>>, <<"peak", level>>, <<"recent", level>> >>

\* Mutant: the levels of the former input are cleared after the new label is out.
ResetLabelFirst(p) ==
    Publish(p, Silent(p.generation)) \o
        << <<"clear", Silent(p.generation)>>, <<"recent", Silent(p.generation)>> >>

\* reset_generation: the peak is only ever raised by publish, so it is cleared.
ResetTelemetry(p) ==
    << <<"clear", Silent(p.generation)>>, <<"recent", Silent(p.generation)>> >> \o
        Publish(p, Silent(p.generation))

\* apply_generation; the sink's reset is LiveSink's.
Synchronize == [processor EXCEPT !.generation = command]

Counted(p, buffer) ==
    LET b == Metadata(buffer)
    IN  [p EXCEPT !.callbacks = @ + 1,
                  !.frames = IF Outcome(buffer) = "delivered" THEN @ + b.size \div F32_BYTES ELSE @,
                  !.refused = IF Outcome(buffer) = "delivered" THEN @ ELSE @ + 1]

\* process_available_buffers, one buffer: process_mapped up to its first store.
ProcessMapped(buffer) ==
    LET p == Counted(Synchronize, buffer)
        delivered == Outcome(buffer) = "delivered"
        level == Level(IF delivered THEN buffer.height ELSE 0, p.generation)
    IN  /\ connected /\ negotiated # Absent /\ stores = <<>>
        /\ processor.callbacks < MaxCallbacks
        /\ processor' = p
        /\ stores' = (IF command # processor.generation
                      THEN ResetTelemetry([p EXCEPT !.callbacks = processor.callbacks,
                                                    !.frames = processor.frames,
                                                    !.refused = processor.refused])
                      ELSE <<>>)
                     \o Publish(p, level)
        /\ UNCHANGED <<negotiated, formatEvent, connected, command, telemetry, loads, seen>>

\* fetch_max on the peak, a plain store on every other field.
Store ==
    /\ stores # <<>> /\ stores' = Tail(stores)
    /\ LET field == stores[1][1]
           value == stores[1][2]
       IN  telemetry' =
              CASE field = "clear" -> [telemetry EXCEPT !.peak = value]
                [] field = "peak" ->
                      [telemetry EXCEPT !.peak = IF value.height > @.height THEN value ELSE @]
                [] OTHER -> [telemetry EXCEPT ![field] = value]
    /\ UNCHANGED <<negotiated, formatEvent, connected, command, processor, loads, seen>>

-----------------------------------------------------------------------------
(***************************************************************************)
(* The owner thread.                                                       *)
(***************************************************************************)
\* CaptureTelemetry::snapshot: the order of the loads.
Fields == <<"generation", "callbacks", "frames", "refused", "peak", "recent">>

BeginSnapshot ==
    /\ connected /\ loads = <<>> /\ loads' = Fields /\ seen' = [generation |-> 0]
    /\ UNCHANGED <<negotiated, formatEvent, connected, command, processor, telemetry, stores>>

Load ==
    /\ loads # <<>> /\ loads' = Tail(loads)
    /\ seen' = [f \in DOMAIN seen \cup {loads[1]} |->
                  IF f = loads[1] THEN telemetry[f] ELSE seen[f]]
    /\ UNCHANGED <<negotiated, formatEvent, connected, command, processor, telemetry, stores>>

BuffersNext ==
    \/ \E pod \in Pod \cup {Absent} : NegotiateFormat(pod)
    \/ TakeFormat \/ RequestGeneration
    \/ \E buffer \in Buffers : ProcessMapped(buffer)
    \/ Store \/ BeginSnapshot \/ Load

BuffersSpec == BuffersInit /\ [][BuffersNext]_buffersVars

-----------------------------------------------------------------------------
\* The level a snapshot shows under a generation is never one of an earlier
\* input, although no field is read together with another.
FreshLevel ==
    \A f \in {"peak", "recent"} \cap DOMAIN seen :
        seen[f].height > 0 => seen[f].of >= seen.generation

\* Samples in another format than the requested one can get through only until
\* the owner thread's next pass: there is always a rejection it has yet to take.
RejectedIsStopped ==
    [][processor'.frames # processor.frames /\ negotiated # CANONICAL =>
          formatEvent \in NegotiatedFormatError]_buffersVars
=============================================================================
