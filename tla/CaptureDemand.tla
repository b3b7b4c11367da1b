---------------------------- MODULE CaptureDemand ----------------------------
(***************************************************************************)
(* A live graph between its consumer and its microphone: the demand that   *)
(* VirtualSourceStream derives from its stream's state (source.rs), the    *)
(* service that turns demand edges into changes of the capture stream      *)
(* (LiveGraph in graph.rs), and the input generations by which the capture *)
(* callback is told to forget what it holds (capture.rs).                  *)
(*                                                                         *)
(* Stream events, service passes and meter switches run on the one owner   *)
(* thread; what a call does to the capture stream and to the words shared  *)
(* with the data threads are steps of their own, between which callbacks   *)
(* run.  A callback is one step here: BypassTransport is about what happens*)
(* inside.  Samples are known only by when they were captured: before the  *)
(* call in progress, "earlier", or before one that was to make the graph   *)
(* forget them and has returned, "past".                                   *)
(***************************************************************************)
EXTENDS Integers, Sequences

CONSTANT DEBOUNCE    \* CONSUMER_IDLE_DEBOUNCE, in clock units

ASSUME DebounceAssumption == DEBOUNCE \in Nat \ {0}

VARIABLES
    graph,     \* "up", or "gone" between its drop and the next connect
    source,    \* ControlState of the virtual source
    capture,   \* the capture stream
    fault,     \* what take_health_diagnostic would find
    meter,     \* LiveGraph.meter_monitoring
    call,      \* the owner's call in progress: the steps it has left
    command,   \* the source's audio_command
    gate,      \* publication_enabled
    held,      \* samples in the capture sink: unfinished frame, delay, model
    ring,      \* queued samples of the current transport generation
    leaked,    \* history: a past sample has been published
    refused,   \* history: the newest change of the capture's activity failed
    away       \* history: time since the source was last streaming

control == <<graph, source, capture, fault, meter, call, refused, away>>
audio == <<command, gate, held, ring, leaked>>
vars == <<control, audio>>

NoTime == -1    \* idle_since = None; otherwise the time since then
Sample == {"past", "earlier", "present"}
SourceStreamState == {"Unconnected", "Connecting", "Paused", "Streaming", "Error"}
ControlState ==
    [state : SourceStreamState, demand : {"Idle", "Active"},
     idle_since : {NoTime} \cup 0..DEBOUNCE]
\* active is what set_active asked for, running whether callbacks come,
\* advanced whether the generation command is ahead of the processor.
CaptureStream ==
    [active : BOOLEAN, running : BOOLEAN, advanced : BOOLEAN]
GraphHealthIssue == {"CaptureStream", "SourceStream", "CaptureFormat", "SourceFormat"}
Op == {"clear", "discard", "advance", "activate", "pause"}
\* forgets: what the call makes past once it is complete.
Call == [for : {"demand", "meter"}, ops : Seq(Op), forgets : {"nothing", "queue", "all"}]

TypeOK ==
    /\ graph \in {"up", "gone"}
    /\ source \in ControlState
    /\ capture \in CaptureStream
    /\ fault \in GraphHealthIssue \cup {"none"}
    /\ meter \in BOOLEAN
    /\ call \in Call /\ Len(call.ops) <= 3
    /\ command \in {"none", "discard", "clear"}
    /\ gate \in BOOLEAN
    /\ {held, ring} \subseteq SUBSET Sample
    /\ leaked \in BOOLEAN
    /\ refused \in BOOLEAN
    /\ away \in 0..DEBOUNCE

-----------------------------------------------------------------------------
NewSource == [state |-> "Unconnected", demand |-> "Idle", idle_since |-> NoTime]
NewCapture == [active |-> FALSE, running |-> FALSE, advanced |-> FALSE]
Ready == [for |-> "demand", ops |-> <<>>, forgets |-> "nothing"]

\* LiveGraph::connect_with_latency: capture connects inactive, the source
\* with its gate closed.
Init ==
    /\ graph = "up"
    /\ source = NewSource
    /\ capture = NewCapture
    /\ fault = "none"
    /\ meter = FALSE
    /\ call = Ready
    /\ command = "none"
    /\ gate = FALSE
    /\ held = {} /\ ring = {} /\ leaked = FALSE
    /\ refused = FALSE
    /\ away = DEBOUNCE

OwnerFree == graph = "up" /\ call.ops = <<>>

-----------------------------------------------------------------------------
(* Events of the two streams, dispatched on the owner thread.              *)

\* The order in which a stream's states follow each other.
MayFollow(old, new) ==
    \/ old = "Unconnected" /\ new = "Connecting"
    \/ old = "Connecting" /\ new = "Paused"
    \/ old = "Paused" /\ new = "Streaming"
    \/ old = "Streaming" /\ new = "Paused"
    \/ old # new /\ new \in {"Error", "Unconnected"}

StartIdle(s) == IF s.idle_since = NoTime THEN [s EXCEPT !.idle_since = 0] ELSE s

\* Mutant: the clock of an absence starts only when the stream breaks.
PausedIsPresent(s, new) ==
    IF new = "Streaming" THEN [s EXCEPT !.state = new, !.idle_since = NoTime]
    ELSE IF new \in {"Error", "Unconnected"} THEN StartIdle([s EXCEPT !.state = new])
    ELSE [s EXCEPT !.state = new]

\* The control state after state_changed.
Observed(s, new) ==
    IF new = "Streaming" THEN [s EXCEPT !.state = new, !.idle_since = NoTime]
    ELSE IF new \in {"Error", "Unconnected"} \/ (new = "Paused" /\ s.demand = "Active")
    THEN StartIdle([s EXCEPT !.state = new])
    ELSE [s EXCEPT !.state = new]

SourceStateChanged(new) ==
    /\ OwnerFree /\ MayFollow(source.state, new)
    /\ gate' = (new = "Streaming")
    /\ source' = Observed(source, new)
    /\ fault' = IF new = "Error" /\ fault # "CaptureStream" THEN "SourceStream" ELSE fault
    /\ away' = IF new = "Streaming" THEN 0 ELSE away
    /\ UNCHANGED <<graph, capture, meter, call, refused, command, held, ring, leaked>>

\* The capture stream reports an error.  Errors come before formats, and
\* capture before source, in the order take_health_diagnostic asks.
CaptureFailed ==
    /\ OwnerFree /\ fault # "CaptureStream"
    /\ fault' = "CaptureStream"
    /\ UNCHANGED <<graph, source, capture, meter, call, refused, away, audio>>

\* param_changed: each side keeps its newest format event only, so that an
\* accepted format takes back a rejection nobody has asked about yet.
FormatChanged(side, rejected) ==
    /\ OwnerFree
    /\ IF rejected THEN /\ fault \in {"none", "SourceFormat"}
                       /\ fault' = side
       ELSE fault = side /\ fault' = "none"
    /\ UNCHANGED <<graph, source, capture, meter, call, refused, away, audio>>

-----------------------------------------------------------------------------
(* The owner's calls.                                                      *)

\* resolve_demand_transition.
ActivateDue == source.state = "Streaming" /\ source.demand = "Idle"
DeactivateDue ==
    source.demand = "Active" /\ source.state # "Streaming" /\ source.idle_since = DEBOUNCE

Relabel(samples, from, to) ==
    IF from \in samples THEN (samples \ {from}) \cup {to} ELSE samples

Begin(for, ops, forgets) ==
    /\ call' = [for |-> for, ops |-> ops, forgets |-> forgets]
    /\ held' = Relabel(held, "present", "earlier")
    /\ ring' = Relabel(ring, "present", "earlier")
    /\ UNCHANGED <<command, gate, leaked>>

\* take_health_diagnostic finds a fault in one of the streams.
Unhealthy == fault # "none"

\* The graph is dropped: both streams disconnect, nothing of it remains.
Gone ==
    /\ graph' = "gone"
    /\ source' = NewSource /\ capture' = NewCapture /\ fault' = "none"
    /\ meter' = FALSE /\ call' = Ready /\ refused' = FALSE
    /\ command' = "none" /\ gate' = FALSE
    /\ held' = {} /\ ring' = {} /\ UNCHANGED leaked
    /\ away' = DEBOUNCE

\* The input changes or the graph is no longer wanted.
DropGraph == OwnerFree /\ Gone

\* A pass that finds a fault drops the graph and does not service demand.
DropFaulty == OwnerFree /\ Unhealthy /\ Gone

\* service_demand, first consumer.  It clears before it advances, so while the
\* meter runs a frame begun before the consumer came may still get through:
\* nothing is promised to be forgotten here.
Activate ==
    /\ OwnerFree /\ ~Unhealthy /\ ActivateDue
    /\ source' = [source EXCEPT !.demand = "Active", !.idle_since = NoTime]
    /\ Begin("demand", <<"clear", "advance", "activate">>, "nothing")
    /\ UNCHANGED <<graph, capture, fault, meter, refused, away>>

\* Mutant: metering does not keep the capture stream.
DeactivateAlways ==
    /\ OwnerFree /\ ~Unhealthy /\ DeactivateDue
    /\ source' = [source EXCEPT !.demand = "Idle", !.idle_since = NoTime]
    /\ Begin("demand", <<"pause", "advance", "clear">>, "all")
    /\ UNCHANGED <<graph, capture, fault, meter, refused, away>>

\* service_demand, last consumer gone for the whole debounce.
Deactivate ==
    /\ OwnerFree /\ ~Unhealthy /\ DeactivateDue
    /\ source' = [source EXCEPT !.demand = "Idle", !.idle_since = NoTime]
    /\ IF meter THEN Begin("demand", <<"clear">>, "queue")
       ELSE Begin("demand", <<"pause", "advance", "clear">>, "all")
    /\ UNCHANGED <<graph, capture, fault, meter, refused, away>>

\* service_demand without an edge: what is queued while nobody listens goes.
DiscardIdle ==
    /\ OwnerFree /\ ~Unhealthy /\ ~ActivateDue /\ ~DeactivateDue
    /\ \/ source.demand = "Active" /\ source.state # "Streaming"
       \/ meter /\ source.demand = "Idle"
    /\ Begin("demand", <<"discard">>, "queue")
    /\ UNCHANGED <<graph, source, capture, fault, meter, refused, away>>

\* Mutant: the end of metering pauses the capture under a consumer.
PauseWithMeter(enabled) ==
    /\ OwnerFree /\ meter # enabled
    /\ meter' = enabled
    /\ Begin("meter", <<"advance", "clear", IF enabled THEN "activate" ELSE "pause">>, "all")
    /\ UNCHANGED <<graph, source, capture, fault, refused, away>>

\* set_meter_monitoring; a switch to where it stands returns at once.
SetMeterMonitoring(enabled) ==
    /\ OwnerFree /\ meter # enabled
    /\ meter' = enabled
    /\ Begin("meter",
             <<"advance", "clear",
               IF enabled \/ source.demand = "Active" THEN "activate" ELSE "pause">>, "all")
    /\ UNCHANGED <<graph, source, capture, fault, refused, away>>

-----------------------------------------------------------------------------
(* The steps of a call.                                                    *)

NextOp(op) == graph = "up" /\ call.ops # <<>> /\ Head(call.ops) = op

\* A call that returns has made the graph forget what it was to forget.
Return(forgets) ==
    LET settled(samples, what) ==
          Relabel(samples, "earlier", IF forgets \in what THEN "past" ELSE "present")
    IN /\ call' = Ready
       /\ ring' = settled(ring, {"queue", "all"})
       /\ held' = settled(held, {"all"})

Proceed ==
    IF Len(call.ops) = 1 THEN Return(call.forgets)
    ELSE call' = [call EXCEPT !.ops = Tail(@)] /\ UNCHANGED <<ring, held>>

\* schedule_audio_command: fetch_max, so that clear dominates discard.
ScheduleAudioCommand ==
    /\ \/ NextOp("clear") /\ command' = "clear"
       \/ NextOp("discard") /\ command' = IF command = "clear" THEN "clear" ELSE "discard"
    /\ Proceed
    /\ UNCHANGED <<graph, source, capture, fault, meter, refused, away, gate, leaked>>

AdvanceInputGeneration ==
    /\ NextOp("advance")
    /\ capture' = [capture EXCEPT !.advanced = TRUE]
    /\ Proceed
    /\ UNCHANGED <<graph, source, fault, meter, refused, away, command, gate, leaked>>

SetActive ==
    /\ NextOp("activate") \/ NextOp("pause")
    /\ capture' = [capture EXCEPT !.active = Head(call.ops) = "activate"]
    /\ refused' = FALSE
    /\ Proceed
    /\ UNCHANGED <<graph, source, fault, meter, away, command, gate, leaked>>

\* PipeWire rejects the change.  The call ends with an error: after a demand
\* edge the owner drops the graph, after a meter switch it keeps it, with the
\* flag already changed.
SetActiveRejected ==
    /\ NextOp("activate") \/ NextOp("pause")
    /\ IF call.for = "demand" THEN Gone
       ELSE /\ Return("nothing") /\ refused' = TRUE
            /\ UNCHANGED <<graph, source, capture, fault, meter, away, command, gate, leaked>>

\* The owner builds the next graph.
Connect ==
    /\ graph = "gone" /\ graph' = "up"
    /\ UNCHANGED <<source, capture, fault, meter, call, refused, away, audio>>

-----------------------------------------------------------------------------
(* The data threads and the server.                                        *)

\* The server starts and stops the capture callbacks as it was asked to.
CaptureFollows ==
    /\ graph = "up" /\ capture.running # capture.active
    /\ capture' = [capture EXCEPT !.running = capture.active]
    /\ UNCHANGED <<graph, source, fault, meter, call, refused, away, audio>>

\* Mutant: a new generation reaches the transport and not the sink's frames.
UnresetSink == [held |-> held, ring |-> IF capture.advanced THEN {} ELSE ring]

\* synchronize_generation, apply_generation: before a buffer is looked at, an
\* advanced generation resets the sink, and with it the transport.
Synchronized == IF capture.advanced THEN [held |-> {}, ring |-> {}]
                ELSE [held |-> held, ring |-> ring]

\* process_mapped.  A buffer that is rejected or empty goes no further; a
\* valid one may complete a frame, which is queued if the gate is open, and
\* one that does not fit starts a new transport generation.
CaptureProcess ==
    /\ graph = "up" /\ capture.running
    /\ capture' = [capture EXCEPT !.advanced = FALSE]
    /\ LET s == Synchronized
       IN \/ held' = s.held /\ ring' = s.ring
          \/ held' = s.held \cup {"present"} /\ ring' = s.ring
          \/ /\ held' = {"present"}
             /\ ring' \in IF gate THEN {s.ring \cup s.held \cup {"present"}, {}} ELSE {s.ring}
    /\ UNCHANGED <<graph, source, fault, meter, call, refused, away, command, gate, leaked>>

\* The source callback takes the command, then publishes what is queued, a
\* part of it, or silence.  It may run around a change of the stream's state.
SourceProcess ==
    /\ graph = "up" /\ source.state \in {"Paused", "Streaming"}
    /\ command' = "none"
    /\ LET queued == IF command = "none" THEN ring ELSE {}
       IN \/ ring' = queued /\ UNCHANGED leaked
          \/ leaked' = (leaked \/ "past" \in queued) /\ ring' \in {queued, {}}
    /\ UNCHANGED <<control, gate, held>>

Tick ==
    /\ graph = "up" /\ (source.idle_since \in 0..DEBOUNCE - 1 \/ away < DEBOUNCE)
    /\ source' = [source EXCEPT !.idle_since = IF @ \in 0..DEBOUNCE - 1 THEN @ + 1 ELSE @]
    /\ away' = IF source.state # "Streaming" /\ away < DEBOUNCE THEN away + 1 ELSE away
    /\ UNCHANGED <<graph, capture, fault, meter, call, refused, audio>>

-----------------------------------------------------------------------------
StreamEvent ==
    \/ \E new \in SourceStreamState : SourceStateChanged(new)
    \/ CaptureFailed
    \/ \E side \in {"CaptureFormat", "SourceFormat"}, b \in BOOLEAN : FormatChanged(side, b)

ServicePass == DropFaulty \/ Activate \/ Deactivate \/ DiscardIdle

CallStep == ScheduleAudioCommand \/ AdvanceInputGeneration \/ SetActive \/ SetActiveRejected

Next ==
    \/ StreamEvent
    \/ DropGraph \/ Connect
    \/ ServicePass
    \/ \E b \in BOOLEAN : SetMeterMonitoring(b)
    \/ CallStep
    \/ CaptureFollows \/ CaptureProcess \/ SourceProcess \/ Tick

Spec == Init /\ [][Next]_vars

\* run_native makes a service pass after every command and at least every
\* DISPATCH_QUANTUM, which is why no stream of commands keeps it from one; it
\* finishes the calls it makes, the clock advances and the server does what it
\* was asked.
Fairness ==
    /\ SF_vars(ServicePass) /\ WF_vars(CallStep)
    /\ WF_vars(CaptureFollows) /\ WF_vars(Tick)

FairSpec == Spec /\ Fairness

-----------------------------------------------------------------------------
(* Properties.                                                             *)

\* Between the owner's calls the microphone is held exactly while a consumer
\* is counted or the meter is on, through debounce, metering switched at any
\* time and rebuilds, unless the newest change was refused.
CaptureMatchesDemand ==
    OwnerFree /\ ~refused => (capture.active <=> (source.demand = "Active" \/ meter))

\* What was captured before the last consumer left, before metering was
\* switched, or before a pass saw the source paused, is never published,
\* whatever the data threads do between the steps of the owner's calls.
NothingFromBefore == ~leaked

\* A consumer is counted as gone only after the whole debounce without one:
\* a short pause or a reconnection never costs it the microphone.
FullDebounce ==
    [][source.demand = "Active" /\ source'.demand = "Idle" /\ graph' = "up"
       => away = DEBOUNCE]_vars

Absent == source.state \in {"Paused", "Unconnected"} /\ ~meter /\ ~refused

\* The microphone is released once nobody listens and the meter is off.
MicrophoneReleased == <>[]Absent => <>[]~capture.running

\* A consumer that stays gets the microphone.
ConsumerServed ==
    <>[](graph = "up" /\ source.state = "Streaming" /\ ~refused) => <>[]capture.running
=============================================================================
