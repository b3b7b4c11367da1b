-------------------------- MODULE CaptureDemandProofs --------------------------
(***************************************************************************)
(* Theorems about CaptureDemand for every debounce: the microphone is held *)
(* as long as somebody wants it, and nothing captured before is published. *)
(* Both depend on how far the owner's call in progress has come.           *)
(***************************************************************************)
EXTENDS CaptureDemand, TLAPS

Wanted == source.demand = "Active" \/ meter

\* The calls, by what is left of them.
Activating ==
    /\ call.for = "demand" /\ call.forgets = "nothing" /\ source.demand = "Active"
    /\ call.ops \in {<<"clear", "advance", "activate">>, <<"advance", "activate">>, <<"activate">>}
Queueing == call.forgets = "queue" /\ call.ops \in {<<"clear">>, <<"discard">>}
Pausing ==
    /\ call.for = "demand" /\ call.forgets = "all" /\ ~Wanted
    /\ call.ops \in {<<"pause", "advance", "clear">>, <<"advance", "clear">>, <<"clear">>}
Switching ==
    /\ call.for = "meter" /\ call.forgets = "all"
    /\ LET last == IF Wanted THEN "activate" ELSE "pause"
       IN call.ops \in {<<"advance", "clear", last>>, <<"clear", last>>, <<last>>}

CallInv == call.ops = <<>> \/ Activating \/ Queueing \/ Pausing \/ Switching

\* The capture is what is wanted except before the call's own change of it.
DemandInv ==
    \/ refused \/ (capture.active <=> Wanted)
    \/ Activating \/ Switching \/ (Pausing /\ Len(call.ops) = 3)

\* What is past is behind a generation or a command that will be seen before
\* it can be; while a call is to make the rest past, so is that.
Advanced == (Pausing /\ Len(call.ops) = 1) \/ (Switching /\ Len(call.ops) \in {1, 2})
Cleared == Switching /\ Len(call.ops) = 1
SampleInv ==
    /\ ~leaked
    /\ "past" \in held => capture.advanced
    /\ "past" \in ring => command # "none"
    /\ Advanced /\ "earlier" \in held => capture.advanced
    /\ Cleared /\ "earlier" \in ring => command # "none"

\* The clock of the consumer's absence is never ahead of the absence.
AbsenceInv ==
    /\ source.idle_since \in {NoTime} \cup 0..DEBOUNCE /\ away \in 0..DEBOUNCE
    /\ source.idle_since <= away
    /\ source.state = "Streaming" => source.idle_since = NoTime

DemandType ==
    /\ source \in ControlState /\ capture \in CaptureStream /\ call \in Call
    /\ meter \in BOOLEAN /\ refused \in BOOLEAN /\ leaked \in BOOLEAN
    /\ held \subseteq Sample /\ ring \subseteq Sample

CaptureInv == DemandType /\ CallInv /\ DemandInv /\ SampleInv /\ AbsenceInv

-----------------------------------------------------------------------------
\* No call is in progress.
LEMMA NoCall ==
    ASSUME call.ops = <<>>
    PROVE  ~Activating /\ ~Queueing /\ ~Pausing /\ ~Switching /\ ~Advanced /\ ~Cleared
<1>1. /\ <<>> # <<"clear", "advance", "activate">> /\ <<>> # <<"advance", "activate">>
      /\ <<>> # <<"activate">> /\ <<>> # <<"clear">> /\ <<>> # <<"discard">>
      /\ <<>> # <<"pause", "advance", "clear">> /\ <<>> # <<"advance", "clear">>
      /\ \A x : <<>> # <<"advance", "clear", x>> /\ <<>> # <<"clear", x>> /\ <<>> # <<x>>
  OBVIOUS
<1> QED BY <1>1 DEF Activating, Queueing, Pausing, Switching, Advanced, Cleared

\* A new name for some of the samples.
LEMMA RelabelFacts ==
    ASSUME NEW samples \in SUBSET Sample, NEW from \in Sample, NEW to \in Sample, from # to
    PROVE  /\ Relabel(samples, from, to) \subseteq Sample
           /\ from \notin Relabel(samples, from, to)
           /\ to \in Relabel(samples, from, to) <=> to \in samples \/ from \in samples
           /\ \A x \in Sample \ {from, to} : x \in Relabel(samples, from, to) <=> x \in samples
BY DEF Relabel

LEMMA ReadyType == Ready \in Call /\ Ready.ops = <<>>
BY DEF Ready, Call

LEMMA NewGraph == NewSource \in ControlState /\ NewCapture \in CaptureStream
BY DEF NewSource, NewCapture, ControlState, CaptureStream, SourceStreamState

LEMMA InitCapture == Init => CaptureInv
<1> SUFFICES ASSUME Init PROVE CaptureInv
  OBVIOUS
<1>1. /\ source = NewSource /\ capture = NewCapture /\ call = Ready /\ meter = FALSE
      /\ refused = FALSE /\ leaked = FALSE /\ held = {} /\ ring = {} /\ away = DEBOUNCE
  BY DEF Init
<1>2. DemandType
  BY <1>1, ReadyType, NewGraph DEF DemandType
<1>3. CallInv /\ ~Advanced /\ ~Cleared
  BY <1>1, ReadyType, NoCall DEF CallInv
<1>4. DemandInv /\ SampleInv
  BY <1>1, <1>3 DEF DemandInv, SampleInv, Wanted, NewSource, NewCapture
<1>5. AbsenceInv
  BY <1>1, DebounceAssumption DEF AbsenceInv, NewSource, NoTime
<1> QED BY <1>2, <1>3, <1>4, <1>5 DEF CaptureInv

\* A graph that is dropped leaves nothing to go wrong.
LEMMA GoneKeeps == ASSUME CaptureInv, Gone PROVE CaptureInv'
<1>1. /\ source' = NewSource /\ capture' = NewCapture /\ call' = Ready /\ meter' = FALSE
      /\ refused' = FALSE /\ leaked' = leaked /\ held' = {} /\ ring' = {} /\ away' = DEBOUNCE
  BY DEF Gone
<1>2. DemandType'
  BY <1>1, ReadyType, NewGraph DEF CaptureInv, DemandType
<1>3. CallInv'
  BY <1>1, ReadyType DEF CallInv
<1>4. DemandInv'
  BY <1>1 DEF DemandInv, Wanted, NewSource, NewCapture
<1>5. SampleInv'
  BY <1>1 DEF CaptureInv, SampleInv
<1>6. AbsenceInv'
  BY <1>1, DebounceAssumption DEF AbsenceInv, NewSource, NoTime
<1> QED BY <1>2, <1>3, <1>4, <1>5, <1>6 DEF CaptureInv

\* A step that changes neither the call nor what it depends on.
LEMMA QuietKeeps ==
    ASSUME CaptureInv, UNCHANGED <<call, meter, refused, leaked, held, ring, command>>,
           source' \in ControlState, source'.demand = source.demand,
           capture' \in CaptureStream, capture'.active = capture.active,
           capture'.advanced = capture.advanced, AbsenceInv'
    PROVE  CaptureInv'
<1>1. DemandType'
  BY DEF CaptureInv, DemandType
<1>2. Wanted' = Wanted /\ call' = call
  BY DEF Wanted
<1>3. Activating' = Activating /\ Queueing' = Queueing
  BY <1>2 DEF Activating, Queueing
<1>4. Pausing' = Pausing
  BY <1>2 DEF Pausing
<1>5. Switching' = Switching
  BY <1>2, Zenon DEF Switching
<1>6. Advanced' = Advanced /\ Cleared' = Cleared
  BY <1>2, <1>4, <1>5, Zenon DEF Advanced, Cleared
<1>7. CallInv' /\ DemandInv'
  BY <1>2, <1>3, <1>4, <1>5, Zenon DEF CaptureInv, CallInv, DemandInv
<1>8. SampleInv'
  BY <1>6, Zenon DEF CaptureInv, SampleInv
<1> QED BY <1>1, <1>7, <1>8 DEF CaptureInv

\* Events of the streams, the clock and the server.
LEMMA EventKeeps ==
    ASSUME CaptureInv, StreamEvent \/ Connect \/ CaptureFollows \/ Tick
    PROVE  CaptureInv'
<1>1. /\ source \in ControlState /\ capture \in CaptureStream /\ AbsenceInv
      /\ source.state \in SourceStreamState /\ source.demand \in {"Idle", "Active"}
  BY DEF CaptureInv, DemandType, ControlState
<1>2. ASSUME NEW new \in SourceStreamState, SourceStateChanged(new) PROVE CaptureInv'
  <2>1. UNCHANGED <<call, meter, refused, leaked, held, ring, command, capture>>
    BY <1>2 DEF SourceStateChanged
  <2>2. /\ source' = Observed(source, new) /\ away' = IF new = "Streaming" THEN 0 ELSE away
    BY <1>2 DEF SourceStateChanged
  <2>3. CASE new = "Streaming"
    <3>1. /\ source' = [source EXCEPT !.state = new, !.idle_since = NoTime] /\ away' = 0
      BY <2>2, <2>3 DEF Observed
    <3>2. source' \in ControlState /\ source'.demand = source.demand /\ source'.idle_since = NoTime
      BY <1>1, <3>1 DEF ControlState
    <3>3. AbsenceInv'
      BY <3>1, <3>2, DebounceAssumption DEF AbsenceInv, NoTime
    <3> QED BY <1>1, <2>1, <3>2, <3>3, QuietKeeps
  <2>4. CASE new # "Streaming"
    <3>1. /\ away' = away
          /\ \/ source' = [source EXCEPT !.state = new]
             \/ source' = StartIdle([source EXCEPT !.state = new])
      BY <2>2, <2>4 DEF Observed
    <3>2. /\ source' \in ControlState /\ source'.demand = source.demand /\ source'.state = new
          /\ source'.idle_since \in {source.idle_since, 0}
      <4> DEFINE t == [source EXCEPT !.state = new]
      <4>1. t \in ControlState /\ t.demand = source.demand /\ t.state = new /\ t.idle_since = source.idle_since
        BY <1>1, <1>2 DEF ControlState
      <4> HIDE DEF t
      <4>2. StartIdle(t) \in ControlState /\ StartIdle(t).demand = t.demand /\ StartIdle(t).state = t.state
            /\ StartIdle(t).idle_since \in {t.idle_since, 0}
        BY <4>1, DebounceAssumption DEF StartIdle, ControlState
      <4> QED BY <3>1, <4>1, <4>2 DEF t
    <3>3. AbsenceInv'
      BY <1>1, <2>4, <3>1, <3>2, DebounceAssumption DEF AbsenceInv, NoTime
    <3> QED BY <1>1, <2>1, <3>2, <3>3, QuietKeeps
  <2> QED BY <2>3, <2>4
<1>3. CASE CaptureFailed \/ Connect \/ \E side \in {"CaptureFormat", "SourceFormat"}, b \in BOOLEAN : FormatChanged(side, b)
  <2>1. UNCHANGED <<call, meter, refused, leaked, held, ring, command, capture, source, away>>
    BY <1>3 DEF CaptureFailed, Connect, FormatChanged, audio
  <2>2. AbsenceInv'
    BY <1>1, <2>1 DEF AbsenceInv
  <2> QED BY <1>1, <2>1, <2>2, QuietKeeps
<1>4. CASE CaptureFollows
  <2>1. /\ UNCHANGED <<call, meter, refused, leaked, held, ring, command, source, away>>
        /\ capture' = [capture EXCEPT !.running = capture.active]
    BY <1>4 DEF CaptureFollows, audio
  <2>2. capture' \in CaptureStream /\ capture'.active = capture.active /\ capture'.advanced = capture.advanced
    BY <1>1, <2>1 DEF CaptureStream
  <2>3. AbsenceInv'
    BY <1>1, <2>1 DEF AbsenceInv
  <2> QED BY <1>1, <2>1, <2>2, <2>3, QuietKeeps
<1>5. CASE Tick
  <2>1. /\ UNCHANGED <<call, meter, refused, leaked, held, ring, command, capture>>
        /\ away' = IF source.state # "Streaming" /\ away < DEBOUNCE THEN away + 1 ELSE away
        /\ source' = [source EXCEPT !.idle_since =
               IF source.idle_since \in 0..DEBOUNCE - 1 THEN source.idle_since + 1 ELSE source.idle_since]
    BY <1>5 DEF Tick, audio
  <2>2. /\ source'.demand = source.demand /\ source'.state = source.state
        /\ source'.idle_since =
             IF source.idle_since \in 0..DEBOUNCE - 1 THEN source.idle_since + 1 ELSE source.idle_since
        /\ source' \in ControlState
    BY <1>1, <2>1, DebounceAssumption DEF ControlState
  <2>3. AbsenceInv'
    BY <1>1, <2>1, <2>2, DebounceAssumption DEF AbsenceInv, NoTime
  <2> QED BY <1>1, <2>1, <2>2, <2>3, QuietKeeps
<1> QED BY <1>2, <1>3, <1>4, <1>5 DEF StreamEvent

-----------------------------------------------------------------------------
\* What is left of a call, in steps.
LEMMA OpFacts ==
    /\ \A x, y, z : /\ <<x, y, z>> # <<>> /\ Head(<<x, y, z>>) = x /\ Tail(<<x, y, z>>) = <<y, z>>
                    /\ Len(<<x, y, z>>) = 3
    /\ \A x, y : <<x, y>> # <<>> /\ Head(<<x, y>>) = x /\ Tail(<<x, y>>) = <<y>> /\ Len(<<x, y>>) = 2
    /\ \A x : <<x>> # <<>> /\ Head(<<x>>) = x /\ Len(<<x>>) = 1
OBVIOUS

\* The beginning of a call.
LEMMA BeginKeeps ==
    ASSUME CaptureInv, call.ops = <<>>, UNCHANGED <<capture, refused, away>>,
           Activate \/ Deactivate \/ DiscardIdle \/ \E b \in BOOLEAN : SetMeterMonitoring(b)
    PROVE  CaptureInv'
<1>1. DemandType /\ SampleInv /\ AbsenceInv /\ (refused \/ (capture.active <=> Wanted))
  BY NoCall DEF CaptureInv, DemandInv
<1>2. /\ held' = Relabel(held, "present", "earlier") /\ ring' = Relabel(ring, "present", "earlier")
      /\ UNCHANGED <<command, leaked>>
  BY DEF Activate, Deactivate, DiscardIdle, SetMeterMonitoring, Begin
<1>3. /\ held' \subseteq Sample /\ ring' \subseteq Sample
      /\ "past" \in held' <=> "past" \in held
  BY <1>1, <1>2, RelabelFacts DEF DemandType, Sample
<1>4. "past" \in ring' <=> "past" \in ring
  BY <1>1, <1>2, RelabelFacts DEF DemandType, Sample
<1>5. ASSUME ~Advanced', ~Cleared' PROVE SampleInv'
  BY <1>1, <1>2, <1>3, <1>4, <1>5 DEF SampleInv
<1>6. source.demand \in {"Idle", "Active"} /\ source \in ControlState
  BY <1>1 DEF DemandType, ControlState
<1>7. CASE Activate
  <2>1. /\ source' = [source EXCEPT !.demand = "Active", !.idle_since = NoTime] /\ UNCHANGED meter
        /\ call' = [for |-> "demand", ops |-> <<"clear", "advance", "activate">>, forgets |-> "nothing"]
    BY <1>7 DEF Activate, Begin
  <2>2. source' \in ControlState /\ source'.demand = "Active" /\ source'.idle_since = NoTime
    BY <1>6, <2>1 DEF ControlState
  <2>3. call' \in Call
    BY <2>1 DEF Call, Op
  <2>4. Activating' /\ ~Pausing' /\ ~Switching' /\ ~Advanced' /\ ~Cleared'
    BY <2>1, <2>2 DEF Activating, Pausing, Switching, Advanced, Cleared
  <2>5. AbsenceInv'
    BY <1>1, <2>2, DebounceAssumption DEF AbsenceInv, NoTime
  <2> QED BY <1>1, <1>2, <1>3, <1>5, <2>1, <2>2, <2>3, <2>4, <2>5
          DEF CaptureInv, DemandType, CallInv, DemandInv
<1>8. CASE Deactivate /\ ~meter
  <2>1. /\ source' = [source EXCEPT !.demand = "Idle", !.idle_since = NoTime] /\ UNCHANGED meter
        /\ call' = [for |-> "demand", ops |-> <<"pause", "advance", "clear">>, forgets |-> "all"]
    BY <1>8 DEF Deactivate, Begin
  <2>2. source' \in ControlState /\ source'.demand = "Idle" /\ source'.idle_since = NoTime
    BY <1>6, <2>1 DEF ControlState
  <2>3. call' \in Call
    BY <2>1 DEF Call, Op
  <2>4. Pausing' /\ Len(call'.ops) = 3 /\ ~Switching' /\ ~Advanced' /\ ~Cleared'
    BY <1>8, <2>1, <2>2, OpFacts DEF Pausing, Switching, Advanced, Cleared, Wanted
  <2>5. AbsenceInv'
    BY <1>1, <2>2, DebounceAssumption DEF AbsenceInv, NoTime
  <2> QED BY <1>1, <1>2, <1>3, <1>5, <2>1, <2>2, <2>3, <2>4, <2>5
          DEF CaptureInv, DemandType, CallInv, DemandInv
<1>9. CASE (Deactivate /\ meter) \/ DiscardIdle
  <2>6. PICK ops : /\ ops = <<"clear">> \/ ops = <<"discard">>
                   /\ call' = [for |-> "demand", ops |-> ops, forgets |-> "queue"]
    BY <1>9 DEF Deactivate, DiscardIdle, Begin
  <2>9. \A x \in Op : <<x>> \in Seq(Op)
    OBVIOUS
  <2>7. ops \in Seq(Op)
    <3>1. CASE ops = <<"clear">>
      BY <2>9, <3>1 DEF Op
    <3>2. CASE ops = <<"discard">>
      BY <2>9, <3>2 DEF Op
    <3> QED BY <2>6, <3>1, <3>2
  <2>8. call' \in Call /\ call'.ops = ops /\ call'.forgets = "queue"
    BY <2>6, <2>7 DEF Call
  <2>1. /\ UNCHANGED meter /\ call'.forgets = "queue" /\ call' \in Call
        /\ call'.ops \in {<<"clear">>, <<"discard">>}
    BY <1>9, <2>6, <2>8 DEF Deactivate, DiscardIdle
  <2>2. source' \in ControlState /\ source'.idle_since \in {NoTime, source.idle_since}
        /\ source'.state = source.state
    BY <1>6, <1>9 DEF Deactivate, DiscardIdle, ControlState
  <2>3. Wanted' <=> Wanted
    BY <1>6, <1>9 DEF Deactivate, DeactivateDue, DiscardIdle, Wanted, ControlState
  <2>4. Queueing' /\ ~Pausing' /\ ~Switching' /\ ~Advanced' /\ ~Cleared'
    BY <2>1 DEF Queueing, Pausing, Switching, Advanced, Cleared
  <2>5. AbsenceInv'
    BY <1>1, <2>2, DebounceAssumption DEF AbsenceInv, NoTime
  <2> QED BY <1>1, <1>2, <1>3, <1>5, <2>1, <2>2, <2>3, <2>4, <2>5
          DEF CaptureInv, DemandType, CallInv, DemandInv
<1>10. ASSUME NEW b \in BOOLEAN, SetMeterMonitoring(b) PROVE CaptureInv'
  <2>1. /\ UNCHANGED source /\ meter' = b
        /\ call' = [for |-> "meter", ops |-> <<"advance", "clear",
                       IF b \/ source.demand = "Active" THEN "activate" ELSE "pause">>, forgets |-> "all"]
    BY <1>10 DEF SetMeterMonitoring, Begin
  <2>2. call' \in Call
    BY <2>1 DEF Call, Op
  <2>3. Switching' /\ ~Pausing' /\ Len(call'.ops) = 3 /\ ~Advanced' /\ ~Cleared'
    BY <2>1, OpFacts DEF Switching, Pausing, Advanced, Cleared, Wanted
  <2>4. AbsenceInv'
    BY <1>1, <2>1 DEF AbsenceInv
  <2> QED BY <1>1, <1>2, <1>3, <1>5, <2>1, <2>2, <2>3, <2>4
          DEF CaptureInv, DemandType, CallInv, DemandInv
<1> QED BY <1>7, <1>8, <1>9, <1>10

\* The end of a call: what it makes past is behind a command or a generation.
LEMMA ReturnKeeps ==
    ASSUME NEW forgets \in {"nothing", "queue", "all"}, Return(forgets), CaptureInv,
           UNCHANGED <<source, meter, leaked, away>>,
           capture' \in CaptureStream, refused' \in BOOLEAN,
           refused' \/ (capture'.active <=> Wanted),
           "past" \in held \/ (forgets = "all" /\ "earlier" \in held) => capture'.advanced,
           "past" \in ring \/ (forgets # "nothing" /\ "earlier" \in ring) => command' # "none"
    PROVE  CaptureInv'
<1>1. DemandType /\ AbsenceInv /\ ~leaked
  BY DEF CaptureInv, SampleInv
<1>2. /\ call' = Ready
      /\ ring' = Relabel(ring, "earlier", IF forgets \in {"queue", "all"} THEN "past" ELSE "present")
      /\ held' = Relabel(held, "earlier", IF forgets \in {"all"} THEN "past" ELSE "present")
  BY DEF Return
<1>3. held' \subseteq Sample /\ ("past" \in held' => capture'.advanced)
  <2>1. CASE forgets = "all"
    BY <1>1, <1>2, <2>1, RelabelFacts DEF DemandType, Sample
  <2>2. CASE forgets # "all"
    BY <1>1, <1>2, <2>2, RelabelFacts DEF DemandType, Sample
  <2> QED BY <2>1, <2>2
<1>4. ring' \subseteq Sample /\ ("past" \in ring' => command' # "none")
  <2>1. CASE forgets # "nothing"
    BY <1>1, <1>2, <2>1, RelabelFacts DEF DemandType, Sample
  <2>2. CASE forgets = "nothing"
    BY <1>1, <1>2, <2>2, RelabelFacts DEF DemandType, Sample
  <2> QED BY <2>1, <2>2
<1>5. call'.ops = <<>> /\ call' \in Call
  BY <1>2, ReadyType
<1>6. ~Advanced' /\ ~Cleared'
  <2>1. \A x, y : <<>> # <<x, y>> /\ <<>> # <<x>>
    OBVIOUS
  <2>2. Len(call'.ops) = 0
    BY <1>5
  <2> QED BY <2>2 DEF Advanced, Cleared
<1>7. Wanted' <=> Wanted
  BY DEF Wanted
<1>8. CallInv' /\ DemandInv'
  BY <1>5, <1>7 DEF CallInv, DemandInv
<1>9. SampleInv'
  BY <1>1, <1>3, <1>4, <1>6 DEF SampleInv
<1>10. DemandType'
  BY <1>1, <1>3, <1>4, <1>5 DEF DemandType
<1>11. AbsenceInv'
  BY <1>1 DEF AbsenceInv
<1> QED BY <1>8, <1>9, <1>10, <1>11 DEF CaptureInv

\* A step of a call that has more to do.
LEMMA StepKeeps ==
    ASSUME CaptureInv, UNCHANGED <<source, meter, leaked, away, held, ring>>, call' \in Call,
           capture' \in CaptureStream, refused' \in BOOLEAN,
           CallInv', DemandInv',
           capture.advanced => capture'.advanced, command # "none" => command' # "none",
           Advanced' => Advanced \/ capture'.advanced, Cleared' => command' # "none"
    PROVE  CaptureInv'
<1>1. DemandType' /\ AbsenceInv'
  BY DEF CaptureInv, DemandType, AbsenceInv
<1>2. SampleInv'
  BY DEF CaptureInv, SampleInv
<1> QED BY <1>1, <1>2 DEF CaptureInv

\* The steps of a call, by the call they belong to.
LEMMA CallKeeps ==
    ASSUME CaptureInv, ScheduleAudioCommand \/ AdvanceInputGeneration \/ SetActive
    PROVE  CaptureInv'
<1> DEFINE op == Head(call.ops)
<1>1. /\ DemandType /\ SampleInv /\ AbsenceInv /\ capture \in CaptureStream /\ call \in Call
  BY DEF CaptureInv, DemandType
<1>2. /\ call.ops # <<>> /\ Proceed /\ UNCHANGED <<source, meter, leaked, away>>
      /\ (op = "clear" => command' = "clear") /\ (op = "discard" => command' # "none")
      /\ (op \notin {"clear", "discard"} => command' = command)
      /\ capture' = IF op = "advance" THEN [capture EXCEPT !.advanced = TRUE]
                    ELSE IF op \in {"activate", "pause"} THEN [capture EXCEPT !.active = op = "activate"]
                    ELSE capture
      /\ refused' = IF op \in {"activate", "pause"} THEN FALSE ELSE refused
  BY DEF ScheduleAudioCommand, AdvanceInputGeneration, SetActive, NextOp
<1>3. /\ capture' \in CaptureStream /\ refused' \in BOOLEAN
      /\ capture'.advanced = (capture.advanced \/ op = "advance")
      /\ capture'.active = IF op \in {"activate", "pause"} THEN op = "activate" ELSE capture.active
  BY <1>1, <1>2 DEF CaptureStream, DemandType
<1>4. Wanted' <=> Wanted
  BY <1>2 DEF Wanted
<1>5. command # "none" => command' # "none"
  BY <1>2
<1>6. ASSUME NEW x, call.ops = <<x>>
      PROVE  Return(call.forgets) /\ op = x
  BY <1>2, <1>6, OpFacts DEF Proceed
<1>7. ASSUME Len(call.ops) # 1
      PROVE  /\ UNCHANGED <<held, ring>> /\ op = Head(call.ops) /\ call' \in Call
             /\ call'.ops = Tail(call.ops) /\ call'.for = call.for /\ call'.forgets = call.forgets
  <2>1. call' = [call EXCEPT !.ops = Tail(call.ops)] /\ UNCHANGED <<held, ring>>
    BY <1>2, <1>7 DEF Proceed
  <2>2. call.ops \in Seq(Op) /\ call.ops # <<>>
    BY <1>1, <1>2 DEF Call
  <2>3. Tail(call.ops) \in Seq(Op)
    BY <2>2
  <2> QED BY <1>1, <2>1, <2>3 DEF Call
<1> HIDE DEF op
<1>8. CASE Activating
  <2>1. CASE call.ops = <<"activate">>
    <3>1. Return(call.forgets) /\ op = "activate" /\ call.forgets = "nothing"
      BY <1>6, <1>8, <2>1 DEF Activating
    <3>2. capture'.active <=> Wanted
      BY <1>3, <1>8, <3>1 DEF Activating, Wanted
    <3> QED BY <1>1, <1>2, <1>3, <1>5, <3>1, <3>2, ReturnKeeps DEF SampleInv
  <2>2. CASE call.ops # <<"activate">>
    <3>1. \/ call.ops = <<"clear", "advance", "activate">> /\ call'.ops = <<"advance", "activate">>
          \/ call.ops = <<"advance", "activate">> /\ call'.ops = <<"activate">>
      <4>1. CASE call.ops = <<"clear", "advance", "activate">>
        BY <1>7, <4>1, OpFacts
      <4>2. CASE call.ops = <<"advance", "activate">>
        BY <1>7, <4>2, OpFacts
      <4> QED BY <1>8, <2>2, <4>1, <4>2 DEF Activating
    <3>2. /\ call' \in Call /\ call'.for = "demand" /\ call'.forgets = "nothing"
          /\ UNCHANGED <<held, ring>>
      BY <1>7, <1>8, <3>1, OpFacts DEF Activating
    <3>3. Activating' /\ ~Advanced' /\ ~Cleared'
      BY <1>2, <1>8, <3>1, <3>2 DEF Activating, Advanced, Cleared, Pausing, Switching
    <3> QED BY <1>2, <1>3, <1>5, <3>2, <3>3, StepKeeps DEF CallInv, DemandInv
  <2> QED BY <2>1, <2>2
<1>9. CASE Queueing
  <2>1. /\ Return(call.forgets) /\ op \in {"clear", "discard"} /\ call.forgets = "queue"
    BY <1>6, <1>9 DEF Queueing
  <2>2. refused \/ (capture.active <=> Wanted)
    BY <1>9 DEF CaptureInv, DemandInv, Queueing, Activating, Pausing, Switching
  <2> QED BY <1>1, <1>2, <1>3, <1>5, <2>1, <2>2, ReturnKeeps DEF SampleInv
<1>10. CASE Pausing
  <2>1. CASE call.ops = <<"clear">>
    <3>1. Return(call.forgets) /\ op = "clear" /\ call.forgets = "all"
      BY <1>6, <1>10, <2>1 DEF Pausing
    <3>2. refused \/ (capture.active <=> Wanted)
      BY <1>10, <2>1, OpFacts DEF CaptureInv, DemandInv, Activating, Pausing, Switching
    <3>3. Advanced
      BY <1>10, <2>1, OpFacts DEF Advanced
    <3> QED BY <1>1, <1>2, <1>3, <1>5, <3>1, <3>2, <3>3, ReturnKeeps DEF SampleInv
  <2>2. CASE call.ops = <<"advance", "clear">>
    <3>1. /\ call'.ops = <<"clear">> /\ op = "advance" /\ call' \in Call
          /\ call'.for = "demand" /\ call'.forgets = "all" /\ UNCHANGED <<held, ring>>
      BY <1>7, <1>10, <2>2, OpFacts DEF Pausing
    <3>2. Pausing' /\ ~Cleared'
      BY <1>2, <1>4, <1>10, <3>1 DEF Pausing, Cleared, Switching
    <3>3. refused \/ (capture.active <=> Wanted)
      BY <1>10, <2>2, OpFacts DEF CaptureInv, DemandInv, Activating, Pausing, Switching
    <3> QED BY <1>2, <1>3, <1>4, <1>5, <3>1, <3>2, <3>3, StepKeeps DEF CallInv, DemandInv
  <2>3. CASE call.ops = <<"pause", "advance", "clear">>
    <3>1. /\ call'.ops = <<"advance", "clear">> /\ op = "pause" /\ call' \in Call
          /\ call'.for = "demand" /\ call'.forgets = "all" /\ UNCHANGED <<held, ring>>
      BY <1>7, <1>10, <2>3, OpFacts DEF Pausing
    <3>2. Pausing' /\ ~Cleared' /\ ~Advanced'
      BY <1>2, <1>4, <1>10, <3>1, OpFacts DEF Pausing, Cleared, Advanced, Switching
    <3>3. capture'.active <=> Wanted'
      BY <1>3, <1>4, <1>10, <3>1 DEF Pausing
    <3> QED BY <1>2, <1>3, <1>5, <3>1, <3>2, <3>3, StepKeeps DEF CallInv, DemandInv
  <2> QED BY <1>10, <2>1, <2>2, <2>3 DEF Pausing
<1>11. CASE Switching
  <2> DEFINE last == IF Wanted THEN "activate" ELSE "pause"
  <2>1. CASE call.ops = <<last>>
    <3>1. Return(call.forgets) /\ op = last /\ call.forgets = "all"
      BY <1>6, <1>11, <2>1 DEF Switching
    <3>2. capture'.active <=> Wanted
      BY <1>3, <3>1
    <3>3. Advanced /\ Cleared
      BY <1>11, <2>1, OpFacts DEF Advanced, Cleared
    <3> QED BY <1>1, <1>2, <1>3, <1>5, <3>1, <3>2, <3>3, ReturnKeeps DEF SampleInv
  <2>2. CASE call.ops = <<"clear", last>>
    <3>1. /\ call'.ops = <<last>> /\ op = "clear" /\ call' \in Call
          /\ call'.for = "meter" /\ call'.forgets = "all" /\ UNCHANGED <<held, ring>>
      BY <1>7, <1>11, <2>2, OpFacts DEF Switching
    <3>2. Switching' /\ Advanced
      BY <1>4, <1>11, <2>2, <3>1, OpFacts DEF Switching, Advanced
    <3> QED BY <1>2, <1>3, <1>5, <3>1, <3>2, StepKeeps DEF CallInv, DemandInv
  <2>3. CASE call.ops = <<"advance", "clear", last>>
    <3>1. /\ call'.ops = <<"clear", last>> /\ op = "advance" /\ call' \in Call
          /\ call'.for = "meter" /\ call'.forgets = "all" /\ UNCHANGED <<held, ring>>
      BY <1>7, <1>11, <2>3, OpFacts DEF Switching
    <3>2. Switching' /\ ~Cleared'
      BY <1>4, <1>11, <3>1, OpFacts DEF Switching, Cleared
    <3> QED BY <1>2, <1>3, <1>5, <3>1, <3>2, StepKeeps DEF CallInv, DemandInv
  <2> QED BY <1>11, <2>1, <2>2, <2>3 DEF Switching
<1> QED BY <1>2, <1>8, <1>9, <1>10, <1>11 DEF CaptureInv, CallInv

\* The data threads: a callback that sees a generation or a command forgets.
LEMMA DataKeeps == ASSUME CaptureInv, CaptureProcess \/ SourceProcess PROVE CaptureInv'
<1>1. /\ DemandType /\ SampleInv /\ CallInv /\ DemandInv /\ capture \in CaptureStream
      /\ UNCHANGED <<source, call, meter, refused, away>>
  BY DEF CaptureInv, DemandType, CaptureProcess, SourceProcess, control
<1>2. /\ CallInv' = CallInv /\ Advanced' = Advanced /\ Cleared' = Cleared /\ Wanted' = Wanted
      /\ Activating' = Activating /\ Pausing' = Pausing /\ Switching' = Switching
  BY <1>1 DEF CallInv, Advanced, Cleared, Activating, Queueing, Pausing, Switching, Wanted
<1>3. AbsenceInv'
  BY <1>1 DEF CaptureInv, AbsenceInv
<1>4. capture' \in CaptureStream /\ capture'.active = capture.active
  BY <1>1 DEF CaptureProcess, SourceProcess, control, CaptureStream
<1>5. DemandInv'
  BY <1>1, <1>2, <1>4 DEF DemandInv
<1>6. CASE CaptureProcess
  <2>1. ~capture'.advanced /\ UNCHANGED <<command, leaked>>
    BY <1>1, <1>6 DEF CaptureProcess, CaptureStream
  <2>2. /\ Synchronized.held \in {held, {}} /\ Synchronized.ring \in {ring, {}}
        /\ "past" \notin Synchronized.held
        /\ Advanced => "earlier" \notin Synchronized.held
    BY <1>1 DEF Synchronized, SampleInv
  <2>3. /\ held' \subseteq Synchronized.held \cup {"present"}
        /\ ring' \subseteq Synchronized.ring \cup Synchronized.held \cup {"present"}
    BY <1>6 DEF CaptureProcess
  <2>4. Cleared => Advanced
    BY DEF Cleared, Advanced
  <2>5. held' \subseteq Sample /\ ring' \subseteq Sample
    BY <1>1, <2>2, <2>3 DEF DemandType, Sample
  <2>6. SampleInv'
    BY <1>1, <1>2, <2>1, <2>2, <2>3, <2>4 DEF SampleInv
  <2> QED BY <1>1, <1>2, <1>3, <1>4, <1>5, <2>1, <2>5, <2>6 DEF CaptureInv, DemandType
<1>7. CASE SourceProcess
  <2>1. /\ UNCHANGED <<capture, held>> /\ ring' \subseteq IF command = "none" THEN ring ELSE {}
        /\ leaked' = leaked \/ leaked' = (leaked \/ "past" \in IF command = "none" THEN ring ELSE {})
    BY <1>7 DEF SourceProcess, control
  <2>2. leaked' = FALSE
    BY <1>1, <2>1 DEF SampleInv, DemandType
  <2>3. SampleInv' /\ ring' \subseteq Sample
    BY <1>1, <1>2, <2>1, <2>2 DEF SampleInv, DemandType
  <2> QED BY <1>1, <1>2, <1>3, <1>5, <2>1, <2>2, <2>3 DEF CaptureInv, DemandType
<1> QED BY <1>6, <1>7

LEMMA NextCapture == ASSUME CaptureInv, [Next]_vars PROVE CaptureInv'
<1>1. CASE StreamEvent \/ Connect \/ CaptureFollows \/ Tick
  BY <1>1, EventKeeps
<1>2. CASE DropGraph \/ DropFaulty
  BY <1>2, GoneKeeps DEF DropGraph, DropFaulty
<1>3. CASE Activate \/ Deactivate \/ DiscardIdle \/ \E b \in BOOLEAN : SetMeterMonitoring(b)
  <2>1. call.ops = <<>> /\ UNCHANGED <<capture, refused, away>>
    BY <1>3 DEF Activate, Deactivate, DiscardIdle, SetMeterMonitoring, OwnerFree
  <2> QED BY <1>3, <2>1, BeginKeeps
<1>4. CASE ScheduleAudioCommand \/ AdvanceInputGeneration \/ SetActive
  BY <1>4, CallKeeps
<1>5. CASE SetActiveRejected
  <2>1. CASE call.for = "demand"
    BY <1>5, <2>1, GoneKeeps DEF SetActiveRejected
  <2>2. CASE call.for # "demand"
    <3>1. /\ Return("nothing") /\ refused' = TRUE
          /\ UNCHANGED <<source, capture, meter, away, command, leaked>>
      BY <1>5, <2>2 DEF SetActiveRejected
    <3>2. capture \in CaptureStream /\ SampleInv
      BY DEF CaptureInv, DemandType
    <3> QED BY <3>1, <3>2, ReturnKeeps DEF SampleInv
  <2> QED BY <2>1, <2>2
<1>6. CASE CaptureProcess \/ SourceProcess
  BY <1>6, DataKeeps
<1>7. CASE UNCHANGED vars
  <2>1. UNCHANGED <<source, capture, call, meter, refused, away, command, held, ring, leaked>>
    BY <1>7 DEF vars, control, audio
  <2>2. source \in ControlState /\ capture \in CaptureStream /\ AbsenceInv'
    BY <2>1 DEF CaptureInv, DemandType, AbsenceInv
  <2> QED BY <2>1, <2>2, QuietKeeps
<1> QED BY <1>1, <1>2, <1>3, <1>4, <1>5, <1>6, <1>7 DEF Next, ServicePass, CallStep

LEMMA CaptureInvariant == Spec => []CaptureInv
<1>1. CaptureInv /\ [Next]_vars => CaptureInv'
  BY NextCapture
<1> QED BY InitCapture, <1>1, PTL DEF Spec

\* Between the owner's calls the microphone is held exactly while a consumer
\* or the meter wants it, for every length of the debounce.
THEOREM CaptureIsDemanded == Spec => []CaptureMatchesDemand
<1>1. CaptureInv => CaptureMatchesDemand
  BY NoCall DEF CaptureInv, DemandInv, CaptureMatchesDemand, OwnerFree, Wanted
<1> QED BY <1>1, CaptureInvariant, PTL

\* What an owner's call was to make the graph forget is never published.
THEOREM PastIsForgotten == Spec => []NothingFromBefore
<1>1. CaptureInv => NothingFromBefore
  BY DEF CaptureInv, SampleInv, NothingFromBefore
<1> QED BY <1>1, CaptureInvariant, PTL

\* A consumer is counted as gone only after a whole debounce of absence.
THEOREM DebounceIsWhole == Spec => FullDebounce
<1> DEFINE A == source.demand = "Active" /\ source'.demand = "Idle" /\ graph' = "up"
                => away = DEBOUNCE
<1>1. CaptureInv /\ [Next]_vars => [A]_vars
  <2> SUFFICES ASSUME CaptureInv, Next, source.demand = "Active", source'.demand = "Idle", graph' = "up"
               PROVE  away = DEBOUNCE
    BY DEF A
  <2>1. source \in ControlState /\ AbsenceInv
    BY DEF CaptureInv, DemandType
  <2>2. CASE Deactivate
    BY <2>1, <2>2, DebounceAssumption DEF Deactivate, DeactivateDue, AbsenceInv
  <2>3. CASE DropGraph \/ DropFaulty \/ SetActiveRejected
    BY <2>3 DEF DropGraph, DropFaulty, SetActiveRejected, Gone
  <2>4. CASE \E new \in SourceStreamState : SourceStateChanged(new)
    BY <2>1, <2>4 DEF SourceStateChanged, Observed, StartIdle, ControlState
  <2>5. CASE Tick
    BY <2>1, <2>5 DEF Tick, ControlState
  <2>6. CASE Activate
    BY <2>1, <2>6 DEF Activate, ControlState
  <2>7. CASE \/ CaptureFailed \/ Connect \/ CaptureFollows \/ CaptureProcess \/ SourceProcess
             \/ DiscardIdle \/ ScheduleAudioCommand \/ AdvanceInputGeneration \/ SetActive
             \/ \E side \in {"CaptureFormat", "SourceFormat"}, b \in BOOLEAN : FormatChanged(side, b)
             \/ \E b \in BOOLEAN : SetMeterMonitoring(b)
    BY <2>7 DEF CaptureFailed, Connect, CaptureFollows, CaptureProcess, SourceProcess, control, DiscardIdle,
                ScheduleAudioCommand, AdvanceInputGeneration, SetActive, FormatChanged, SetMeterMonitoring
  <2> QED BY <2>2, <2>3, <2>4, <2>5, <2>6, <2>7 DEF Next, StreamEvent, ServicePass, CallStep
<1> QED BY <1>1, CaptureInvariant, PTL DEF Spec, FullDebounce
=============================================================================
