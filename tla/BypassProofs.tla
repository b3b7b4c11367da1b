---------------------------- MODULE BypassProofs ----------------------------
(***************************************************************************)
(* The transport implements FreshChannel, never writes a block in part and *)
(* never splices, for every size of ring, block and callback.              *)
(***************************************************************************)
EXTENDS BypassTransport, SequenceTheorems, TLAPS

\* The newest sample whose fate is settled: pushed, dropped or gated.
Pushed ==
    captured - (IF producer.at \in {"load", "slots"} THEN BLOCK
                ELSE IF producer.at = "push" THEN producer.left ELSE 0)

\* The tag of the sample after it.
NextTag ==
    IF producer.at \in {"slots", "push"} THEN producer.generation ELSE generation

\* The producer works on the newest block, under a generation that began
\* before the block was handed over.
ProducerInv ==
    /\ producer.at # "idle" => BLOCK <= captured
    /\ producer.at = "push" => producer.left \in 1..BLOCK
    /\ producer.at \in {"slots", "push"} => producer.generation \in 1..generation
    /\ since[NextTag] <= Pushed
    /\ since[generation] <= HandedOver

\* What is queued is in order, under true tags, and above what was heard.
RingInv ==
    /\ \A i \in 1..Len(ring) :
         /\ ring[i].generation <= NextTag
         /\ since[ring[i].generation] < ring[i].value
         /\ heard.last < ring[i].value
         /\ ring[i].value <= Pushed
    /\ \A i, j \in 1..Len(ring) :
         i < j => /\ ring[i].value < ring[j].value
                  /\ ring[i].generation <= ring[j].generation

\* What a callback has collected continues what was heard, is not older than
\* the callback's generation, and comes before what is queued.
OutInv ==
    /\ out.generation <= generation
    /\ out.at \in {"sync", "prefix", "threshold", "pop"} => out.want \in Quanta
    /\ out.at # "pop" => out.scratch = <<>>
    /\ heard.last <= Pushed
    /\ \A i \in 1..Len(out.scratch) :
         /\ heard.last < out.scratch[i]
         /\ since[out.generation] < out.scratch[i]
         /\ out.scratch[i] <= Pushed
         /\ \A j \in 1..Len(ring) : out.scratch[i] < ring[j].value
    /\ \A i, j \in 1..Len(out.scratch) : i < j => out.scratch[i] < out.scratch[j]

FreshInv == TypeOK /\ BlockFits /\ ProducerInv /\ RingInv /\ OutInv

-----------------------------------------------------------------------------
LEMMA Sizes ==
    /\ CAPACITY \in Nat \ {0} /\ BLOCK \in Nat \ {0} /\ RAMP \in Nat \ {0}
    /\ MaxCaptured \in Nat \ {0} /\ MaxGeneration \in Nat \ {0}
    /\ \A n \in Quanta : n \in Nat \ {0}
BY SizeAssumption

\* What Tail and Append do to a queue.
LEMMA TailFacts ==
    ASSUME NEW S, NEW s \in Seq(S), s # <<>>
    PROVE  /\ Len(s) \in Nat \ {0}
           /\ Tail(s) \in Seq(S)
           /\ Len(Tail(s)) = Len(s) - 1
           /\ \A i \in 1..Len(Tail(s)) : Tail(s)[i] = s[i + 1]
           /\ Head(s) = s[1]
           /\ Head(s) \in S
BY HeadTailProperties, EmptySeq, LenProperties

LEMMA AppendFacts ==
    ASSUME NEW S, NEW s \in Seq(S), NEW e \in S
    PROVE  /\ Len(s) \in Nat
           /\ Append(s, e) \in Seq(S)
           /\ Len(Append(s, e)) = Len(s) + 1
           /\ \A i \in 1..Len(s) : Append(s, e)[i] = s[i]
           /\ Append(s, e)[Len(s) + 1] = e
BY LenProperties

-----------------------------------------------------------------------------
LEMMA InitFresh == Init => FreshInv
<1> SUFFICES ASSUME Init PROVE FreshInv
    OBVIOUS
<1> USE Sizes DEF Init
<1>1. <<>> \in Seq(Tagged) /\ <<>> \in Seq(1..MaxCaptured) /\ Len(<<>>) = 0
    BY EmptySeq
<1>2. TypeOK
  <2>1. out \in [at : OutputAt, clearing : BOOLEAN, generation : 1..MaxGeneration,
                 ready : BOOLEAN, leading : BOOLEAN, ramp : FaultRamp,
                 want : Quanta \cup {0}, scratch : Seq(1..MaxCaptured)]
    <3>1. Silenced \in FaultRamp
        BY DEF FaultRamp, Silenced
    <3>2. 1 \in 1..MaxGeneration
        OBVIOUS
    <3> QED BY <1>1, <3>1, <3>2, FlagAssumption DEF OutputAt
  <2>2. out.scratch = <<>> /\ out.want = 0
      OBVIOUS
  <2>3. since \in [1..MaxGeneration -> 0..MaxCaptured]
      OBVIOUS
  <2> HIDE DEF Init
  <2>4. /\ ring = <<>> /\ generation = 1 /\ captured = 0 /\ gated = {}
        /\ enabled \in BOOLEAN /\ command = "none" /\ reset \in BOOLEAN
        /\ producer = [at |-> "idle", generation |-> 0, left |-> 0]
        /\ heard = [first |-> 0, last |-> 0]
      BY Zenon DEF Init
  <2> QED BY <1>1, <2>1, <2>2, <2>3, <2>4 DEF TypeOK
<1>3. BlockFits /\ ProducerInv /\ RingInv /\ OutInv
    BY <1>1 DEF BlockFits, ProducerInv, RingInv, OutInv, NextTag, Pushed, HandedOver
<1> QED BY <1>2, <1>3 DEF FreshInv

-----------------------------------------------------------------------------
(* What the steps have in common.                                          *)

LEMMA RenderedType ==
    ASSUME NEW r \in FaultRamp, NEW n \in Nat PROVE Rendered(r, n) \in FaultRamp
<1>1. CASE r.state = "FadingOut"
  <2>1. Rendered(r, n) = IF r.gain <= n THEN Silenced ELSE [r EXCEPT !.gain = @ - n]
      BY <1>1, Zenon DEF Rendered
  <2> QED BY <2>1, Sizes DEF FaultRamp, Silenced
<1>2. CASE r.state = "FadingIn"
  <2>1. r.state # "FadingOut"
      BY <1>2
  <2>2. Rendered(r, n) = IF r.gain + n >= RAMP THEN [state |-> "Passing", gain |-> RAMP]
                         ELSE [r EXCEPT !.gain = @ + n]
      BY <1>2, <2>1, Zenon DEF Rendered
  <2> QED BY <2>2, Sizes DEF FaultRamp
<1>3. CASE r.state # "FadingOut" /\ r.state # "FadingIn"
    BY <1>3, Zenon DEF Rendered
<1> QED BY <1>1, <1>2, <1>3

\* What the types say about each part.
LEMMA TypeFacts ==
    ASSUME TypeOK
    PROVE  /\ captured \in Nat /\ generation \in 1..MaxGeneration
           /\ producer.left \in Nat /\ producer.generation \in Nat
           /\ heard.first \in Nat /\ heard.last \in Nat
           /\ since \in [1..MaxGeneration -> Nat]
           /\ out.generation \in 1..MaxGeneration
           /\ ring \in Seq(Tagged) /\ Len(ring) \in Nat
           /\ \A i \in 1..Len(ring) : /\ ring[i].generation \in 1..MaxGeneration
                                      /\ ring[i].value \in Nat
           /\ out.scratch \in Seq(1..MaxCaptured) /\ Len(out.scratch) \in Nat
           /\ \A i \in 1..Len(out.scratch) : out.scratch[i] \in Nat
<1> USE Sizes
<1>1. /\ captured \in Nat /\ generation \in 1..MaxGeneration
      /\ ring \in Seq(Tagged)
      /\ since \in [1..MaxGeneration -> Nat]
    BY DEF TypeOK
<1>2. /\ producer.left \in Nat /\ producer.generation \in Nat
      /\ heard.first \in Nat /\ heard.last \in Nat
    BY DEF TypeOK
<1>3. out.generation \in 1..MaxGeneration /\ out.scratch \in Seq(1..MaxCaptured)
    BY DEF TypeOK
<1>4. \A i \in 1..Len(ring) : ring[i] \in Tagged
    BY <1>1, ElementOfSeq
<1>5. \A i \in 1..Len(out.scratch) : out.scratch[i] \in 1..MaxCaptured
    BY <1>3, ElementOfSeq
<1>6. Len(ring) \in Nat /\ Len(out.scratch) \in Nat
    BY <1>1, <1>3, LenProperties
<1>7. \A i \in 1..Len(ring) : ring[i].generation \in 1..MaxGeneration /\ ring[i].value \in Nat
    BY <1>4 DEF Tagged
<1>8. \A i \in 1..Len(out.scratch) : out.scratch[i] \in Nat
    BY <1>5
<1> QED BY <1>1, <1>2, <1>3, <1>6, <1>7, <1>8

\* A step that leaves the newest block alone, or drops it, may take a sample
\* off the ring, begin a generation and empty the scratch.
LEMMA Calm ==
    ASSUME FreshInv, TypeOK',
           captured' = captured, heard' = heard,
           ring' = ring \/ (ring # <<>> /\ ring' = Tail(ring)),
           (generation' = generation /\ since' = since) \/ RequestResync,
           producer' = producer
             \/ (producer.at = "slots" /\ producer'.at = "idle" /\ RequestResync),
           out'.generation <= generation',
           out'.at \in {"sync", "prefix", "threshold", "pop"} => out'.want \in Quanta,
           out'.scratch = <<>>
             \/ (out'.at = "pop" /\ out'.scratch = out.scratch
                  /\ out'.generation = out.generation)
    PROVE  FreshInv'
<1> USE Sizes DEF FreshInv
<1>1. /\ captured \in Nat /\ generation \in 1..MaxGeneration
      /\ producer.left \in Nat /\ producer.generation \in Nat
      /\ heard.last \in Nat
      /\ since \in [1..MaxGeneration -> Nat]
      /\ out.generation \in 1..MaxGeneration
    BY TypeFacts
<1>r. /\ Len(ring) \in Nat /\ Len(ring') \in Nat
      /\ \A i \in 1..Len(ring) : /\ ring[i].generation \in 1..MaxGeneration
                                 /\ ring[i].value \in Nat
  <2>1. ring' \in Seq(Tagged)
      BY DEF TypeOK
  <2> QED BY <2>1, LenProperties, TypeFacts
<1>s. /\ Len(out.scratch) \in Nat
      /\ \A i \in 1..Len(out.scratch) : out.scratch[i] \in Nat
    BY TypeFacts
<1>2. /\ generation' \in Nat /\ generation <= generation'
      /\ \A g \in 1..generation : since'[g] = since[g]
      /\ since'[generation'] <= HandedOver
      /\ generation' # generation => since'[generation'] = HandedOver
  <2>1. CASE generation' = generation /\ since' = since
      BY <2>1, <1>1 DEF ProducerInv
  <2>2. CASE RequestResync
    <3>1. HandedOver \in Int
        BY <1>1 DEF HandedOver
    <3>2. generation' = generation + 1 /\ generation + 1 \in 1..MaxGeneration
        BY <2>2, <1>1 DEF RequestResync
    <3>3. since' = [since EXCEPT ![generation + 1] = HandedOver]
        BY <2>2 DEF RequestResync
    <3> QED BY <1>1, <3>1, <3>2, <3>3
  <2> QED BY <2>1, <2>2
<1>3. /\ Len(ring') <= Len(ring)
      /\ \E k \in {0, 1} : \A i \in 1..Len(ring') : i + k \in 1..Len(ring) /\ ring'[i] = ring[i + k]
  <2>1. CASE ring' = ring
    <3>1. \A i \in 1..Len(ring') : i + 0 \in 1..Len(ring) /\ ring'[i] = ring[i + 0]
        BY <2>1, <1>r
    <3> QED BY <2>1, <1>r, <3>1
  <2>2. CASE ring # <<>> /\ ring' = Tail(ring)
    <3>1. Len(ring') = Len(ring) - 1 /\ \A i \in 1..Len(ring') : ring'[i] = ring[i + 1]
        BY <2>2, TypeFacts, HeadTailProperties
    <3>2. \A i \in 1..Len(ring') : i + 1 \in 1..Len(ring) /\ ring'[i] = ring[i + 1]
        BY <3>1, <1>r
    <3> QED BY <3>1, <3>2, <1>r
  <2> QED BY <2>1, <2>2
<1>4. /\ Pushed \in Int /\ Pushed' \in Int /\ Pushed <= Pushed'
      /\ HandedOver \in Int /\ HandedOver' = HandedOver
      /\ NextTag \in 1..generation /\ NextTag' \in 1..generation' /\ NextTag <= NextTag'
      /\ since'[NextTag'] <= Pushed'
  <2>1. /\ Pushed \in Int /\ HandedOver \in Int
        /\ NextTag \in 1..generation /\ since[NextTag] <= Pushed
      BY <1>1 DEF Pushed, HandedOver, NextTag, ProducerInv
  <2>2. CASE producer' = producer
    <3>1. Pushed' = Pushed /\ HandedOver' = HandedOver
        BY <2>2 DEF Pushed, HandedOver
    <3>2. CASE producer.at \in {"slots", "push"}
        BY <2>1, <2>2, <3>1, <3>2, <1>1, <1>2 DEF NextTag
    <3>3. CASE producer.at \notin {"slots", "push"}
      <4>1. NextTag' = generation' /\ NextTag = generation /\ Pushed = HandedOver
          BY <2>2, <3>3, <1>1 DEF NextTag, Pushed, HandedOver, TypeOK
      <4> QED BY <2>1, <3>1, <4>1, <1>1, <1>2
    <3> QED BY <3>2, <3>3
  <2>3. CASE producer.at = "slots" /\ producer'.at = "idle"
    <3>1. Pushed = captured - BLOCK /\ Pushed' = captured /\ NextTag' = generation'
        BY <2>3, <1>1 DEF Pushed, NextTag
    <3>2. HandedOver = captured /\ HandedOver' = captured
        BY <2>3 DEF HandedOver
    <3>3. since'[NextTag'] <= Pushed'
        BY <3>1, <3>2, <1>2
    <3>4. Pushed \in Int /\ Pushed' \in Int /\ Pushed <= Pushed'
        BY <2>1, <3>1, <1>1
    <3>5. NextTag' \in 1..generation' /\ NextTag <= NextTag'
        BY <2>1, <3>1, <1>1, <1>2
    <3> QED BY <2>1, <3>2, <3>3, <3>4, <3>5
  <2> QED BY <2>2, <2>3
<1>5. BlockFits'
    BY <1>1, <1>r, <1>3 DEF BlockFits
<1>6. ProducerInv'
  <2>1. since'[generation'] <= HandedOver'
      BY <1>2, <1>4
  <2>2. producer'.at \in {"slots", "push"} => producer'.generation \in 1..generation'
      BY <1>1, <1>2 DEF ProducerInv
  <2>3. /\ producer'.at # "idle" => BLOCK <= captured'
        /\ producer'.at = "push" => producer'.left \in 1..BLOCK
      BY <1>1 DEF ProducerInv
  <2> QED BY <2>1, <2>2, <2>3, <1>4 DEF ProducerInv
<1>7. RingInv'
  <2>1. PICK k \in {0, 1} :
          \A i \in 1..Len(ring') : i + k \in 1..Len(ring) /\ ring'[i] = ring[i + k]
      BY <1>3
  <2>2. ASSUME NEW i \in 1..Len(ring')
        PROVE  /\ ring'[i].generation <= NextTag'
               /\ since'[ring'[i].generation] < ring'[i].value
               /\ heard'.last < ring'[i].value
               /\ ring'[i].value <= Pushed'
    <3>1. PICK m \in 1..Len(ring) : ring'[i] = ring[m]
        BY <2>1
    <3>2. /\ ring[m].generation <= NextTag
          /\ since[ring[m].generation] < ring[m].value
          /\ heard.last < ring[m].value
          /\ ring[m].value <= Pushed
        BY DEF RingInv
    <3>3. ring[m].generation \in 1..generation /\ ring[m].value \in Nat
      <4>1. ring[m].generation \in 1..MaxGeneration /\ ring[m].value \in Nat
          BY <1>r
      <4>2. NextTag \in Int /\ NextTag <= generation /\ generation \in Int
          BY <1>1, <1>4
      <4> QED BY <3>2, <4>1, <4>2
    <3>4. since'[ring[m].generation] = since[ring[m].generation]
        BY <3>3, <1>2
    <3>5. ring[m].generation <= NextTag' /\ ring[m].value <= Pushed'
      <4>1. ring[m].generation \in Int /\ ring[m].value \in Int
          BY <3>3
      <4>2. NextTag \in Int /\ NextTag' \in Int /\ NextTag <= NextTag'
          BY <1>1, <1>2, <1>4
      <4>3. Pushed \in Int /\ Pushed' \in Int /\ Pushed <= Pushed'
          BY <1>4
      <4> QED BY <3>2, <4>1, <4>2, <4>3
    <3> QED BY <3>1, <3>2, <3>4, <3>5
  <2>3. ASSUME NEW i \in 1..Len(ring'), NEW j \in 1..Len(ring'), i < j
        PROVE  /\ ring'[i].value < ring'[j].value
               /\ ring'[i].generation <= ring'[j].generation
    <3>1. /\ i + k \in 1..Len(ring) /\ ring'[i] = ring[i + k]
          /\ j + k \in 1..Len(ring) /\ ring'[j] = ring[j + k]
          /\ i + k < j + k
        BY <2>1, <2>3, <1>r
    <3> QED BY <3>1 DEF RingInv
  <2> QED BY <2>2, <2>3 DEF RingInv
<1>8. OutInv'
  <2>1. out'.scratch = <<>> => OutInv'
    <3>1. ASSUME out'.scratch = <<>> PROVE Len(out'.scratch) = 0
        BY <3>1
    <3> QED BY <3>1, <1>1, <1>2, <1>4 DEF OutInv
  <2>2. ASSUME out'.at = "pop", out'.scratch = out.scratch, out'.generation = out.generation
        PROVE  OutInv'
    <3>1. PICK k \in {0, 1} :
            \A i \in 1..Len(ring') : i + k \in 1..Len(ring) /\ ring'[i] = ring[i + k]
        BY <1>3
    <3>2. since'[out'.generation] = since[out.generation]
        BY <2>2, <1>1, <1>2 DEF OutInv
    <3>3. \A i \in 1..Len(out.scratch) : \A j \in 1..Len(ring') : out.scratch[i] < ring'[j].value
        BY <3>1 DEF OutInv
    <3>4. \A i \in 1..Len(out.scratch) : out.scratch[i] <= Pushed'
      <4>1. \A i \in 1..Len(out.scratch) : out.scratch[i] \in Int /\ out.scratch[i] <= Pushed
          BY <1>s DEF OutInv
      <4>2. Pushed \in Int /\ Pushed' \in Int /\ Pushed <= Pushed'
          BY <1>4
      <4> QED BY <4>1, <4>2
    <3>5. heard.last <= Pushed'
        BY <1>1, <1>4 DEF OutInv
    <3> QED BY <2>2, <3>2, <3>3, <3>4, <3>5 DEF OutInv
  <2> QED BY <2>1, <2>2
<1> QED BY <1>5, <1>6, <1>7, <1>8

-----------------------------------------------------------------------------
(* Every step keeps the invariant.                                         *)

ProducerRecord ==
    [at : {"idle", "load", "slots", "push"}, generation : 0..MaxGeneration, left : 0..BLOCK]

OutRecord ==
    [at : OutputAt, clearing : BOOLEAN, generation : 1..MaxGeneration, ready : BOOLEAN,
     leading : BOOLEAN, ramp : FaultRamp, want : Quanta \cup {0}, scratch : Seq(1..MaxCaptured)]

LEMMA ResyncType ==
    ASSUME FreshInv, RequestResync
    PROVE  generation' \in 1..MaxGeneration /\ since' \in [1..MaxGeneration -> 0..MaxCaptured]
<1> USE Sizes
<1>1. HandedOver \in 0..MaxCaptured
  <2>1. captured \in 0..MaxCaptured
      BY DEF FreshInv, TypeOK
  <2>2. producer.at = "load" => BLOCK <= captured
      BY DEF FreshInv, ProducerInv
  <2> QED BY <2>1, <2>2 DEF HandedOver
<1>2. generation' = generation + 1 /\ since' = [since EXCEPT ![generation + 1] = HandedOver]
    BY DEF RequestResync
<1>3. generation < MaxGeneration /\ generation \in 1..MaxGeneration
    BY DEF RequestResync, FreshInv, TypeOK
<1>4. since \in [1..MaxGeneration -> 0..MaxCaptured]
    BY DEF FreshInv, TypeOK
<1> QED BY <1>1, <1>2, <1>3, <1>4

LEMMA ControlFresh == FreshInv /\ ControlStep => FreshInv'
<1> SUFFICES ASSUME FreshInv, ControlStep PROVE FreshInv'
    OBVIOUS
<1>1. TypeOK'
    BY DEF ControlStep, SetPublicationEnabled, ScheduleAudioCommand, AdvanceInputGeneration,
           FreshInv, TypeOK
<1>2. UNCHANGED <<ring, generation, producer, out, captured, since, heard>>
    BY DEF ControlStep, SetPublicationEnabled, ScheduleAudioCommand, AdvanceInputGeneration
<1> QED
    BY <1>1, <1>2 DEF FreshInv, BlockFits, ProducerInv, RingInv, OutInv, Pushed, NextTag,
                      HandedOver

LEMMA CaptureFresh == FreshInv /\ CaptureStep => FreshInv'
<1> SUFFICES ASSUME FreshInv, CaptureStep PROVE FreshInv'
    OBVIOUS
<1> USE Sizes
<1>i. TypeOK /\ BlockFits /\ ProducerInv /\ RingInv /\ OutInv
    BY DEF FreshInv
<1>p. producer \in ProducerRecord
    BY <1>i DEF TypeOK, ProducerRecord
<1>t. \A p : p \in ProducerRecord =>
          p \in [at : {"idle", "load", "slots", "push"}, generation : 0..MaxGeneration,
                left : 0..BLOCK]
    BY DEF ProducerRecord
<1>o. /\ out.generation <= generation
      /\ out.at \in {"sync", "prefix", "threshold", "pop"} => out.want \in Quanta
      /\ out.at = "pop" \/ out.scratch = <<>>
    BY <1>i DEF OutInv
<1>g. out.generation \in Int /\ generation \in Int
    BY <1>i, TypeFacts
<1>1. CASE CaptureReset
  <2>1. TypeOK'
      BY <1>1, <1>i, ResyncType DEF CaptureReset, TypeOK
  <2>2. out'.generation <= generation'
      BY <1>1, <1>o, <1>g DEF CaptureReset, RequestResync
  <2> QED BY <1>1, <1>o, <2>1, <2>2, Calm DEF CaptureReset
<1>2. CASE RecordOverflow
  <2>1. TypeOK'
    <3>1. producer' \in ProducerRecord
      <4>1. producer' = [producer EXCEPT !.at = "idle", !.generation = 0]
          BY <1>2 DEF RecordOverflow
      <4>2. 0 \in 0..MaxGeneration /\ "idle" \in {"idle", "load", "slots", "push"}
          OBVIOUS
      <4> QED BY <4>1, <4>2, <1>p DEF ProducerRecord
    <3>2. generation' \in 1..MaxGeneration /\ since' \in [1..MaxGeneration -> 0..MaxCaptured]
        BY <1>2, ResyncType DEF RecordOverflow
    <3> QED BY <1>2, <1>i, <1>t, <3>1, <3>2 DEF RecordOverflow, TypeOK
  <2>2. out'.generation <= generation'
      BY <1>2, <1>o, <1>g DEF RecordOverflow, RequestResync
  <2>3. producer'.at = "idle"
      BY <1>2, <1>i DEF RecordOverflow, TypeOK
  <2> QED BY <1>2, <1>o, <2>1, <2>2, <2>3, Calm DEF RecordOverflow
<1>3. CASE WriteProcessed
  <2>1. TypeOK'
    <3>1. producer' \in ProducerRecord
        BY <1>3, <1>p DEF WriteProcessed, ProducerRecord
    <3>2. captured \in Nat /\ captured' = captured + BLOCK /\ captured' \in 0..MaxCaptured
      <4>1. captured' = captured + BLOCK /\ captured + BLOCK <= MaxCaptured
          BY <1>3 DEF WriteProcessed
      <4>2. captured \in Nat
          BY <1>i, TypeFacts
      <4> QED BY <4>1, <4>2
    <3>3. gated' \subseteq 1..MaxCaptured
      <4>1. gated' \subseteq gated \cup (captured + 1)..(captured + BLOCK)
          BY <1>3 DEF WriteProcessed
      <4>2. gated \subseteq 1..MaxCaptured
          BY <1>i DEF TypeOK
      <4>3. (captured + 1)..(captured + BLOCK) \subseteq 1..MaxCaptured
          BY <3>2
      <4> QED BY <4>1, <4>2, <4>3
    <3> QED BY <1>3, <1>i, <1>t, <3>1, <3>2, <3>3 DEF WriteProcessed, TypeOK
  <2>2. /\ Pushed' = Pushed \/ Pushed' = Pushed + BLOCK
        /\ HandedOver' = Pushed'
        /\ NextTag' = NextTag /\ NextTag = generation /\ HandedOver = Pushed
        /\ Pushed \in Int /\ Pushed' \in Int /\ Pushed <= Pushed'
    <3>1. /\ producer.at = "idle" /\ generation' = generation
          /\ captured' = captured + BLOCK /\ captured \in Nat
        BY <1>3, <1>i, TypeFacts DEF WriteProcessed
    <3>2. producer'.at \in {"idle", "load"}
        BY <1>3, <1>p DEF WriteProcessed, ProducerRecord
    <3> QED BY <3>1, <3>2 DEF Pushed, HandedOver, NextTag
  <2>3. UNCHANGED <<ring, generation, out, since, heard>>
      BY <1>3 DEF WriteProcessed
  <2>4. BlockFits' /\ ProducerInv'
    <3>1. producer'.at \in {"idle", "load"}
        BY <1>3, <1>p DEF WriteProcessed, ProducerRecord
    <3>2. captured' >= BLOCK
        BY <1>3, <1>i, TypeFacts DEF WriteProcessed
    <3>3. since[generation] \in Nat
        BY <1>i, TypeFacts
    <3> QED BY <1>i, <2>2, <2>3, <3>1, <3>2, <3>3 DEF BlockFits, ProducerInv
  <2>5. RingInv' /\ OutInv'
    <3>1. \A n \in Nat : n <= Pushed => n <= Pushed'
        BY <2>2
    <3>2. heard.last \in Nat
        BY <1>i, TypeFacts
    <3>3. \A i \in 1..Len(ring) : ring[i].value \in Nat
        BY <1>i, TypeFacts
    <3>4. \A i \in 1..Len(out.scratch) : out.scratch[i] \in Nat
        BY <1>i, TypeFacts
    <3>5. RingInv'
        BY <1>i, <2>2, <2>3, <3>1, <3>3 DEF RingInv
    <3>6. OutInv'
        BY <1>i, <2>3, <3>1, <3>2, <3>4 DEF OutInv
    <3> QED BY <3>5, <3>6
  <2> QED BY <2>1, <2>4, <2>5 DEF FreshInv
<1>4. CASE LoadGeneration
  <2>1. TypeOK'
    <3>1. producer' \in ProducerRecord
      <4>1. producer' = [producer EXCEPT !.at = "slots", !.generation = generation]
          BY <1>4 DEF LoadGeneration
      <4>2. generation \in 0..MaxGeneration
          BY <1>i, TypeFacts
      <4> QED BY <4>1, <4>2, <1>p DEF ProducerRecord
    <3> QED BY <1>4, <1>i, <1>t, <3>1 DEF LoadGeneration, TypeOK
  <2>2. UNCHANGED <<ring, generation, out, since, heard, captured, Pushed, NextTag>>
      BY <1>4, <1>i DEF LoadGeneration, Pushed, NextTag, TypeOK
  <2>3. HandedOver' = captured /\ HandedOver <= captured /\ HandedOver \in Int
    <3>1. producer'.at = "slots" /\ captured' = captured
        BY <1>4, <1>p DEF LoadGeneration, ProducerRecord
    <3>2. captured \in Nat
        BY <1>i, TypeFacts
    <3> QED BY <3>1, <3>2 DEF HandedOver
  <2>4. BlockFits' /\ ProducerInv'
    <3>1. producer.at = "load" /\ producer'.at = "slots" /\ producer'.generation = generation
        BY <1>4, <1>p DEF LoadGeneration, ProducerRecord
    <3>2. since[generation] \in Nat /\ captured \in Nat /\ generation \in 1..MaxGeneration
        BY <1>i, TypeFacts
    <3> QED BY <1>i, <2>2, <2>3, <3>1, <3>2 DEF BlockFits, ProducerInv
  <2>5. RingInv' /\ OutInv'
      BY <1>i, <2>2 DEF RingInv, OutInv
  <2> QED BY <2>1, <2>4, <2>5 DEF FreshInv
<1>5. CASE SlotsFree
  <2>1. TypeOK'
    <3>1. producer' \in ProducerRecord
      <4>1. producer' = [producer EXCEPT !.at = "push", !.left = BLOCK]
          BY <1>5 DEF SlotsFree
      <4>2. BLOCK \in 0..BLOCK /\ "push" \in {"idle", "load", "slots", "push"}
          OBVIOUS
      <4> QED BY <4>1, <4>2, <1>p DEF ProducerRecord
    <3> QED BY <1>5, <1>i, <1>t, <3>1 DEF SlotsFree, TypeOK
  <2>2. UNCHANGED <<ring, generation, out, since, heard, captured, Pushed, NextTag, HandedOver>>
      BY <1>5, <1>i DEF SlotsFree, Pushed, NextTag, HandedOver, TypeOK
  <2>3. BlockFits' /\ ProducerInv'
    <3>1. /\ producer.at = "slots" /\ producer'.at = "push"
          /\ producer'.left = BLOCK /\ producer'.generation = producer.generation
        BY <1>5, <1>p DEF SlotsFree, ProducerRecord
    <3>2. CAPACITY - Len(ring) >= BLOCK /\ Len(ring) \in Nat
        BY <1>5, <1>i, TypeFacts DEF SlotsFree
    <3> QED BY <1>i, <2>2, <3>1, <3>2 DEF BlockFits, ProducerInv
  <2>4. RingInv' /\ OutInv'
      BY <1>i, <2>2 DEF RingInv, OutInv
  <2> QED BY <2>1, <2>3, <2>4 DEF FreshInv
<1>6. CASE Push
  <2> DEFINE new == [generation |-> producer.generation, value |-> captured - producer.left + 1]
  <2>1. /\ producer.at = "push" /\ producer.left \in 1..BLOCK
        /\ captured \in Nat /\ captured <= MaxCaptured /\ BLOCK <= captured
        /\ producer.generation \in 1..generation /\ generation \in 1..MaxGeneration
        /\ Pushed = captured - producer.left /\ NextTag = producer.generation
      BY <1>6, <1>i, <1>p, TypeFacts DEF Push, ProducerInv, Pushed, NextTag, TypeOK
  <2>2. Len(ring) < CAPACITY /\ Len(ring) + producer.left <= CAPACITY
    <3>1. Len(ring) \in Nat
        BY <1>i, TypeFacts
    <3>2. Len(ring) + producer.left <= CAPACITY
        BY <2>1, <1>i DEF BlockFits
    <3> QED BY <2>1, <3>1, <3>2, Sizes
  <2>3. /\ ring' = Append(ring, new) /\ producer' = NextLeft
        /\ UNCHANGED <<generation, since, out, captured, heard, enabled, command, reset, gated>>
      BY <1>6, <2>2 DEF Push
  <2>4. new \in Tagged /\ new.generation = producer.generation /\ new.value = Pushed + 1
      BY <2>1 DEF Tagged
  <2>5. /\ ring' \in Seq(Tagged) /\ Len(ring') = Len(ring) + 1 /\ Len(ring) \in Nat
        /\ \A i \in 1..Len(ring) : ring'[i] = ring[i]
        /\ ring'[Len(ring) + 1] = new
      BY <2>3, <2>4, <1>i, TypeFacts, AppendFacts
  <2>6. /\ producer' \in ProducerRecord
        /\ producer'.at = "push" => /\ producer'.left = producer.left - 1
                                    /\ producer'.left \in 1..BLOCK
                                    /\ producer'.generation = producer.generation
        /\ producer'.at # "push" => producer'.at = "idle" /\ producer.left = 1
    <3>1. CASE producer.left = 1
      <4>1. producer' = [at |-> "idle", generation |-> 0, left |-> 0]
          BY <2>3, <3>1 DEF NextLeft
      <4> QED BY <3>1, <4>1 DEF ProducerRecord
    <3>2. CASE producer.left # 1
      <4>1. producer' = [producer EXCEPT !.left = producer.left - 1]
          BY <2>3, <3>2 DEF NextLeft
      <4>2. producer.left - 1 \in 1..BLOCK
          BY <2>1, <3>2
      <4> QED BY <2>1, <4>1, <4>2, <1>p DEF ProducerRecord
    <3> QED BY <3>1, <3>2
  <2>7. TypeOK'
    <3>1. Len(ring') <= CAPACITY
        BY <2>2, <2>5
    <3> QED BY <1>i, <1>t, <2>3, <2>5, <2>6, <3>1 DEF TypeOK
  <2>8. /\ Pushed' = Pushed + 1 /\ Pushed \in Nat
        /\ HandedOver' = captured /\ HandedOver = captured
        /\ NextTag' \in {producer.generation, generation}
    <3>1. HandedOver' = captured /\ HandedOver = captured
        BY <2>1, <2>3, <2>6 DEF HandedOver
    <3>2. NextTag' \in {producer.generation, generation}
        BY <2>3, <2>6 DEF NextTag
    <3>3. Pushed' = captured - (IF producer'.at = "push" THEN producer.left - 1 ELSE 0)
        BY <2>3, <2>6 DEF Pushed
    <3>4. Pushed' = captured - (producer.left - 1)
        BY <2>1, <2>6, <3>3
    <3> QED BY <2>1, <3>1, <3>2, <3>4
  <2> HIDE DEF new
  <2>9. BlockFits'
      BY <2>2, <2>5, <2>6, <2>1 DEF BlockFits
  <2>10. ProducerInv'
    <3>1. since[NextTag'] <= Pushed'
      <4>1. /\ since[producer.generation] <= Pushed /\ since[generation] <= captured
            /\ since[producer.generation] \in Nat /\ since[generation] \in Nat
        <5>1. since[producer.generation] \in Nat /\ since[generation] \in Nat
          <6>1. since \in [1..MaxGeneration -> Nat]
              BY <1>i, TypeFacts
          <6>2. producer.generation \in 1..MaxGeneration /\ generation \in 1..MaxGeneration
              BY <2>1
          <6> QED BY <6>1, <6>2
        <5>2. since[NextTag] <= Pushed /\ since[generation] <= HandedOver
            BY <1>i DEF ProducerInv
        <5> QED BY <5>1, <5>2, <2>1, <2>8
      <4>2. CASE producer'.at = "push"
        <5>1. NextTag' = producer.generation
            BY <4>2, <2>6 DEF NextTag
        <5> QED BY <4>1, <5>1, <2>3, <2>8
      <4>3. CASE producer'.at = "idle"
        <5>1. NextTag' = generation /\ Pushed' = captured
            BY <4>3, <2>1, <2>3 DEF NextTag, Pushed
        <5> QED BY <4>1, <5>1, <2>3
      <4> QED BY <2>6, <4>2, <4>3
    <3> QED BY <1>i, <2>1, <2>3, <2>6, <2>8, <3>1 DEF ProducerInv
  <2>11. RingInv'
    <3>1. \A i \in 1..Len(ring) :
            /\ ring[i].generation \in Nat /\ ring[i].value \in Nat
            /\ ring[i].generation <= producer.generation
            /\ since[ring[i].generation] < ring[i].value
            /\ heard.last < ring[i].value
            /\ ring[i].value <= Pushed
      <4>1. \A i \in 1..Len(ring) :
              /\ ring[i].generation <= NextTag
              /\ since[ring[i].generation] < ring[i].value
              /\ heard.last < ring[i].value
              /\ ring[i].value <= Pushed
          BY <1>i DEF RingInv
      <4>2. \A i \in 1..Len(ring) :
              ring[i].generation \in 1..MaxGeneration /\ ring[i].value \in Nat
          BY <1>i, TypeFacts
      <4>3. NextTag = producer.generation
          BY <2>1
      <4> QED BY <4>1, <4>2, <4>3
    <3>2. /\ since[new.generation] < new.value /\ heard.last < new.value
          /\ new.generation <= NextTag' /\ producer.generation <= NextTag'
      <4>1. since[producer.generation] <= Pushed /\ heard.last <= Pushed
          BY <1>i, <2>1 DEF ProducerInv, OutInv
      <4>2. since[producer.generation] \in Nat /\ heard.last \in Nat
        <5>1. since \in [1..MaxGeneration -> Nat] /\ heard.last \in Nat
            BY <1>i, TypeFacts
        <5>2. producer.generation \in 1..MaxGeneration
            BY <2>1
        <5> QED BY <5>1, <5>2
      <4> QED BY <4>1, <4>2, <2>1, <2>4, <2>8
    <3>3. ASSUME NEW i \in 1..Len(ring')
          PROVE  /\ ring'[i].generation <= NextTag'
                 /\ since[ring'[i].generation] < ring'[i].value
                 /\ heard.last < ring'[i].value
                 /\ ring'[i].value <= Pushed'
      <4>1. CASE i \in 1..Len(ring)
        <5>1. ring'[i] = ring[i]
            BY <4>1, <2>5
        <5>2. /\ ring[i].generation \in Nat /\ ring[i].value \in Nat
              /\ ring[i].generation <= producer.generation
              /\ since[ring[i].generation] < ring[i].value
              /\ heard.last < ring[i].value
              /\ ring[i].value <= Pushed
            BY <4>1, <3>1
        <5>3. /\ producer.generation <= NextTag' /\ producer.generation \in Nat
              /\ NextTag' \in Nat /\ Pushed \in Nat /\ Pushed' = Pushed + 1
            BY <3>2, <2>1, <2>8
        <5> QED BY <5>1, <5>2, <5>3
      <4>2. CASE i = Len(ring) + 1
          BY <4>2, <2>4, <2>5, <2>8, <3>2
      <4> QED BY <2>5, <4>1, <4>2
    <3>4. ASSUME NEW i \in 1..Len(ring'), NEW j \in 1..Len(ring'), i < j
          PROVE  ring'[i].value < ring'[j].value /\ ring'[i].generation <= ring'[j].generation
      <4>1. i \in 1..Len(ring) /\ ring'[i] = ring[i]
          BY <2>5, <3>4
      <4>2. CASE j \in 1..Len(ring)
          BY <4>1, <4>2, <2>5, <3>4, <1>i DEF RingInv
      <4>3. CASE j = Len(ring) + 1
        <5>1. ring'[j] = new
            BY <4>3, <2>5
        <5>2. ring[i].value <= Pushed /\ ring[i].generation <= producer.generation
            BY <4>1, <3>1
        <5>3. ring[i].value \in Nat
            BY <4>1, <3>1
        <5> QED BY <4>1, <5>1, <5>2, <5>3, <2>4, <2>8
      <4> QED BY <2>5, <4>2, <4>3
    <3> QED BY <2>3, <3>3, <3>4 DEF RingInv
  <2>12. OutInv'
    <3>1. \A i \in 1..Len(out.scratch) :
            /\ out.scratch[i] \in Nat /\ out.scratch[i] <= Pushed
            /\ \A j \in 1..Len(ring) : out.scratch[i] < ring[j].value
        BY <1>i, TypeFacts DEF OutInv
    <3>2. \A i \in 1..Len(out.scratch) : \A j \in 1..Len(ring') : out.scratch[i] < ring'[j].value
      <4> SUFFICES ASSUME NEW i \in 1..Len(out.scratch), NEW j \in 1..Len(ring')
                   PROVE  out.scratch[i] < ring'[j].value
          OBVIOUS
      <4>1. CASE j \in 1..Len(ring)
          BY <4>1, <2>5, <3>1
      <4>2. CASE j = Len(ring) + 1
        <5>1. ring'[j] = new
            BY <4>2, <2>5
        <5> QED BY <5>1, <3>1, <2>4, <2>8
      <4> QED BY <2>5, <4>1, <4>2
    <3>3. heard.last <= Pushed' /\ \A i \in 1..Len(out.scratch) : out.scratch[i] <= Pushed'
      <4>1. heard.last \in Nat /\ heard.last <= Pushed
          BY <1>i, TypeFacts DEF OutInv
      <4> QED BY <4>1, <3>1, <2>8
    <3> QED BY <1>i, <2>3, <3>2, <3>3 DEF OutInv
  <2> QED BY <2>7, <2>9, <2>10, <2>11, <2>12 DEF FreshInv
<1> QED BY <1>1, <1>2, <1>3, <1>4, <1>5, <1>6 DEF CaptureStep

\* A sample leaves the ring only for the scratch of a callback of its
\* generation.
LEMMA PopFresh ==
    ASSUME FreshInv, PopSample PROVE FreshInv'
<1> USE Sizes
<1>i. TypeOK /\ BlockFits /\ ProducerInv /\ RingInv /\ OutInv
    BY DEF FreshInv
<1>1. /\ out.at = "pop" /\ Len(out.scratch) < out.want /\ ring # <<>> /\ ~Stale
      /\ ring' = Tail(ring)
      /\ out' = [out EXCEPT !.scratch = Append(@, Head(ring).value)]
      /\ UNCHANGED <<generation, enabled, command, reset, producer, captured, gated, since, heard>>
    BY DEF PopSample
<1>2. /\ Len(ring) \in Nat \ {0} /\ Head(ring) = ring[1] /\ Head(ring) \in Tagged
      /\ Tail(ring) \in Seq(Tagged) /\ Len(Tail(ring)) = Len(ring) - 1
      /\ \A i \in 1..Len(Tail(ring)) : Tail(ring)[i] = ring[i + 1]
    BY <1>i, <1>1, TailFacts, TypeFacts
<1> DEFINE v == ring[1].value
<1>3. /\ v \in 1..MaxCaptured /\ ring[1].generation = out.generation
    BY <1>1, <1>2 DEF Stale, Tagged
<1>4. /\ out' \in OutRecord /\ out'.scratch = Append(out.scratch, v)
      /\ out'.at = "pop" /\ out'.want = out.want /\ out'.generation = out.generation
  <2>1. out \in OutRecord
      BY <1>i DEF TypeOK, OutRecord
  <2>2. Append(out.scratch, v) \in Seq(1..MaxCaptured)
      BY <1>i, <1>3, TypeFacts, AppendFacts
  <2>3. out' = [out EXCEPT !.scratch = Append(out.scratch, v)]
      BY <1>1, <1>2
  <2> HIDE DEF v
  <2> QED BY <2>1, <2>2, <2>3, <1>1 DEF OutRecord
<1>5. /\ Len(out.scratch) \in Nat /\ Len(out'.scratch) = Len(out.scratch) + 1
      /\ \A i \in 1..Len(out.scratch) : out'.scratch[i] = out.scratch[i]
      /\ out'.scratch[Len(out.scratch) + 1] = v
  <2>1. out.scratch \in Seq(1..MaxCaptured)
      BY <1>i, TypeFacts
  <2> QED BY <2>1, <1>3, <1>4, AppendFacts
<1>6. UNCHANGED <<Pushed, NextTag, HandedOver>>
    BY <1>1 DEF Pushed, NextTag, HandedOver
<1>7. TypeOK'
  <2>1. Len(out'.scratch) <= out'.want
    <3>1. out.want \in Nat
        BY <1>i DEF TypeOK
    <3> QED BY <3>1, <1>1, <1>4, <1>5
  <2>2. Len(ring') <= CAPACITY
      BY <1>i, <1>1, <1>2 DEF TypeOK
  <2> QED BY <1>i, <1>1, <1>2, <1>4, <2>1, <2>2 DEF TypeOK, OutRecord
<1>8. BlockFits' /\ ProducerInv'
  <2>1. producer.left \in Nat
      BY <1>i, TypeFacts
  <2> QED BY <1>i, <1>1, <1>2, <1>6, <2>1 DEF BlockFits, ProducerInv
<1>9. \A i \in 1..Len(ring') : i + 1 \in 1..Len(ring) /\ ring'[i] = ring[i + 1] /\ 1 < i + 1
    BY <1>1, <1>2
<1>10. RingInv'
  <2>1. \A i \in 1..Len(ring') :
          /\ ring'[i].generation <= NextTag
          /\ since[ring'[i].generation] < ring'[i].value
          /\ heard.last < ring'[i].value
          /\ ring'[i].value <= Pushed
      BY <1>i, <1>9 DEF RingInv
  <2>2. ASSUME NEW i \in 1..Len(ring'), NEW j \in 1..Len(ring'), i < j
        PROVE  ring'[i].value < ring'[j].value /\ ring'[i].generation <= ring'[j].generation
    <3>1. /\ i + 1 \in 1..Len(ring) /\ j + 1 \in 1..Len(ring) /\ i + 1 < j + 1
          /\ ring'[i] = ring[i + 1] /\ ring'[j] = ring[j + 1]
        BY <1>1, <1>2, <1>9, <2>2
    <3> QED BY <3>1, <1>i DEF RingInv
  <2> QED BY <2>1, <2>2, <1>1, <1>6 DEF RingInv
<1>11. OutInv'
  <2>1. /\ heard.last < v /\ since[out.generation] < v /\ v <= Pushed
        /\ \A i \in 1..Len(ring') : v < ring'[i].value
        /\ \A i \in 1..Len(out.scratch) : out.scratch[i] < v
      BY <1>i, <1>2, <1>3, <1>9 DEF RingInv, OutInv
  <2>2. ASSUME NEW i \in 1..Len(out'.scratch)
        PROVE  /\ heard.last < out'.scratch[i]
               /\ since[out.generation] < out'.scratch[i]
               /\ out'.scratch[i] <= Pushed
               /\ \A j \in 1..Len(ring') : out'.scratch[i] < ring'[j].value
    <3>1. CASE i \in 1..Len(out.scratch)
        BY <3>1, <1>i, <1>5, <1>9 DEF OutInv
    <3>2. CASE i = Len(out.scratch) + 1
        BY <3>2, <1>5, <2>1
    <3> QED BY <3>1, <3>2, <1>5
  <2>3. ASSUME NEW i \in 1..Len(out'.scratch), NEW j \in 1..Len(out'.scratch), i < j
        PROVE  out'.scratch[i] < out'.scratch[j]
    <3>1. i \in 1..Len(out.scratch) /\ out'.scratch[i] = out.scratch[i]
        BY <2>3, <1>5
    <3>2. CASE j \in 1..Len(out.scratch)
        BY <3>1, <3>2, <2>3, <1>i, <1>5 DEF OutInv
    <3>3. CASE j = Len(out.scratch) + 1
        BY <3>1, <3>3, <2>1, <1>5
    <3> QED BY <3>2, <3>3, <1>5
  <2>4. out.want \in Quanta
      BY <1>i, <1>1 DEF OutInv
  <2> QED BY <1>i, <1>1, <1>4, <1>6, <2>2, <2>3, <2>4 DEF OutInv
<1> QED BY <1>7, <1>8, <1>10, <1>11 DEF FreshInv

\* What a callback hears ends where the ring begins.
LEMMA PublishFresh ==
    ASSUME FreshInv, Publish
    PROVE  /\ FreshInv'
           /\ heard'.first \in 1..HandedOver /\ heard'.last \in 1..HandedOver
           /\ heard.last < heard'.first /\ since[out.generation] < heard'.first
           /\ heard'.first <= heard'.last
<1> USE Sizes
<1>i. TypeOK /\ BlockFits /\ ProducerInv /\ RingInv /\ OutInv
    BY DEF FreshInv
<1> DEFINE n == Len(out.scratch)
<1>1. /\ out.at = "pop" /\ n = out.want
      /\ heard' = [first |-> Head(out.scratch), last |-> Last(out.scratch)]
      /\ out' = Return([out EXCEPT !.ramp = Rendered(@, out.want)])
      /\ UNCHANGED <<ring, generation, enabled, command, reset, producer, captured, gated, since>>
    BY DEF Publish
<1>2. /\ n \in Nat \ {0} /\ n \in 1..n /\ 1 \in 1..n
      /\ out.scratch # <<>>
      /\ heard'.first = out.scratch[1] /\ heard'.last = out.scratch[n]
  <2>1. n \in Nat \ {0}
      BY <1>i, <1>1 DEF OutInv
  <2>2. Head(out.scratch) = out.scratch[1] /\ Last(out.scratch) = out.scratch[n]
      BY DEF Last
  <2>3. out.scratch # <<>>
      BY <2>1, EmptySeq
  <2> QED BY <1>1, <2>1, <2>2, <2>3
<1>3. /\ out' \in OutRecord /\ out'.scratch = <<>> /\ out'.at = "idle" /\ out'.want = 0
      /\ out'.generation = out.generation
  <2>1. out \in OutRecord
      BY <1>i DEF TypeOK, OutRecord
  <2>2. Rendered(out.ramp, out.want) \in FaultRamp
    <3>1. out.ramp \in FaultRamp /\ out.want \in Nat
        BY <2>1 DEF OutRecord
    <3> QED BY <3>1, RenderedType
  <2>3. out' = [out EXCEPT !.ramp = Rendered(out.ramp, out.want),
                           !.at = "idle", !.want = 0, !.scratch = <<>>]
      BY <1>1, <2>1 DEF Return, OutRecord
  <2>4. <<>> \in Seq(1..MaxCaptured) /\ "idle" \in OutputAt
      BY EmptySeq DEF OutputAt
  <2> QED BY <2>1, <2>2, <2>3, <2>4 DEF OutRecord
<1>4. UNCHANGED <<Pushed, NextTag, HandedOver>>
    BY <1>1 DEF Pushed, NextTag, HandedOver
<1>5. /\ \A i \in 1..n : /\ heard.last < out.scratch[i]
                         /\ since[out.generation] < out.scratch[i]
                         /\ out.scratch[i] <= Pushed
                         /\ out.scratch[i] \in 1..MaxCaptured
      /\ out.scratch[1] <= out.scratch[n]
      /\ \A j \in 1..Len(ring) : out.scratch[n] < ring[j].value
  <2>1. \A i \in 1..n : out.scratch[i] \in 1..MaxCaptured
      BY <1>i, TypeFacts, ElementOfSeq
  <2>2. out.scratch[1] <= out.scratch[n]
    <3>1. CASE n = 1
        BY <3>1, <2>1, <1>2
    <3>2. CASE 1 < n
        BY <3>2, <2>1, <1>2, <1>i DEF OutInv
    <3>3. n = 1 \/ 1 < n
      <4> HIDE DEF n
      <4> QED BY <1>2
    <3> QED BY <3>1, <3>2, <3>3
  <2> QED BY <2>1, <2>2, <1>2, <1>i DEF OutInv
<1>6. Pushed <= HandedOver /\ Pushed \in Int /\ HandedOver \in Int
  <2>1. captured \in Nat /\ producer.left \in Nat
      BY <1>i, TypeFacts
  <2> QED BY <2>1 DEF Pushed, HandedOver
<1> HIDE DEF n
<1>7. TypeOK'
  <2>1. heard' \in [first : 0..MaxCaptured, last : 0..MaxCaptured]
    <3>1. heard' = [first |-> out.scratch[1], last |-> out.scratch[n]]
        BY <1>1, <1>2
    <3> QED BY <3>1, <1>2, <1>5
  <2>2. Len(out'.scratch) <= out'.want
      BY <1>3
  <2> QED BY <1>i, <1>1, <1>3, <2>1, <2>2 DEF TypeOK, OutRecord
<1>8. BlockFits' /\ ProducerInv'
    BY <1>i, <1>1, <1>4 DEF BlockFits, ProducerInv
<1>9. RingInv'
    BY <1>i, <1>1, <1>2, <1>4, <1>5 DEF RingInv
<1>10. OutInv'
  <2>1. heard'.last <= Pushed' /\ out'.generation <= generation'
      BY <1>i, <1>1, <1>2, <1>3, <1>4, <1>5 DEF OutInv
  <2>2. Len(out'.scratch) = 0
      BY <1>3
  <2> QED BY <1>3, <2>1, <2>2 DEF OutInv
<1> QED BY <1>2, <1>5, <1>6, <1>7, <1>8, <1>9, <1>10 DEF FreshInv

\* What the source callback does apart from collecting and publishing: it
\* leaves the newest block alone and has nothing in the scratch.
QuietOut ==
    /\ out' \in OutRecord
    /\ Len(out'.scratch) <= out'.want
    /\ out'.generation <= generation'
    /\ out'.at \in {"sync", "prefix", "threshold", "pop"} => out'.want \in Quanta
    /\ out'.scratch = <<>>

QuietStep ==
    /\ QuietOut
    /\ UNCHANGED <<enabled, reset, producer, captured, gated, heard>>
    /\ command' \in {"none", "discard", "clear"}
    /\ ring' = ring \/ (ring # <<>> /\ ring' = Tail(ring))
    /\ (generation' = generation /\ since' = since) \/ RequestResync

LEMMA QuietFresh ==
    ASSUME FreshInv, QuietStep PROVE FreshInv'
<1> USE Sizes
<1>i. TypeOK
    BY DEF FreshInv
<1>1. ring' \in Seq(Tagged) /\ Len(ring') <= CAPACITY
  <2>1. ring \in Seq(Tagged) /\ Len(ring) <= CAPACITY /\ Len(ring) \in Nat
      BY <1>i, TypeFacts DEF TypeOK
  <2>2. CASE ring # <<>> /\ ring' = Tail(ring)
      BY <2>1, <2>2, TailFacts
  <2> QED BY <2>1, <2>2 DEF QuietStep
<1>2. generation' \in 1..MaxGeneration /\ since' \in [1..MaxGeneration -> 0..MaxCaptured]
    BY <1>i, ResyncType DEF TypeOK, QuietStep
<1>3. TypeOK'
    BY <1>i, <1>1, <1>2 DEF TypeOK, OutRecord, QuietStep, QuietOut
<1> QED BY <1>3, Calm DEF QuietStep, QuietOut

LEMMA SourceQuiet ==
    ASSUME FreshInv, SourceStep PROVE PopSample \/ Publish \/ QuietStep
<1> USE Sizes
<1>i. TypeOK /\ OutInv
    BY DEF FreshInv
<1>g. /\ out.generation \in Int /\ generation \in 1..MaxGeneration
      /\ out.generation <= generation
    BY <1>i, TypeFacts DEF OutInv
<1>o. out \in OutRecord
    BY <1>i DEF TypeOK, OutRecord
<1>s. out.at # "pop" => out.scratch = <<>>
    BY <1>i DEF OutInv
<1>w. out.at \in {"sync", "prefix", "threshold", "pop"} => out.want \in Quanta
    BY <1>i DEF OutInv
<1>e. <<>> \in Seq(1..MaxCaptured) /\ Len(<<>>) = 0
    BY EmptySeq
<1>r. Silenced \in FaultRamp
    BY DEF Silenced, FaultRamp
<1>l. EMPTY \in BOOLEAN
    BY FlagAssumption
<1>c. /\ Silence(out) \in OutRecord
      /\ Silence(out).at = out.at /\ Silence(out).generation = out.generation
      /\ Silence(out).want = out.want /\ Silence(out).scratch = out.scratch
    BY <1>o, <1>r, <1>l DEF Silence, OutRecord
<1>d. ASSUME NEW o \in OutRecord
      PROVE  /\ Return(o) \in OutRecord /\ Return(o).scratch = <<>> /\ Return(o).want = 0
             /\ Return(o).at = "idle" /\ Return(o).generation = o.generation
    BY <1>e DEF Return, OutRecord, OutputAt
<1>k. \A o \in OutRecord : o.want \in Nat /\ o.scratch \in Seq(1..MaxCaptured)
    BY DEF OutRecord
<1>n. out.scratch = <<>> => Len(out.scratch) <= out.want
    BY <1>e, <1>k, <1>o
<1>1. CASE ApplyAudioCommand
  <2>1. PICK at \in {"clear", "drain", "dispatch"}, b \in BOOLEAN :
          out' = [out EXCEPT !.at = at, !.clearing = b]
    <3> DEFINE next == CASE command = "clear" -> "clear"
                         [] command = "discard" -> "drain"
                         [] OTHER -> "dispatch"
    <3>1. out' = [out EXCEPT !.at = next, !.clearing = (command = "clear")]
        BY <1>1, Zenon DEF ApplyAudioCommand
    <3>2. next \in {"clear", "drain", "dispatch"}
        BY Zenon
    <3>3. (command = "clear") \in BOOLEAN
        OBVIOUS
    <3> HIDE DEF next
    <3> QED BY <3>1, <3>2, <3>3, Zenon
  <2>2. out.at = "idle" /\ out.scratch = <<>>
      BY <1>1, <1>s DEF ApplyAudioCommand
  <2>3. QuietOut
    <3>1. /\ out' \in OutRecord /\ out'.at = at /\ out'.want = out.want
          /\ out'.scratch = out.scratch /\ out'.generation = out.generation
        BY <2>1, <1>o DEF OutRecord, OutputAt
    <3>2. generation' = generation
        BY <1>1 DEF ApplyAudioCommand
    <3> QED BY <3>1, <3>2, <2>2, <1>n, <1>g DEF QuietOut
  <2> QED BY <1>1, <2>3 DEF ApplyAudioCommand, QuietStep
<1>2. CASE ClearSensitive
  <2>1. out' = [out EXCEPT !.at = "drain"] /\ out.scratch = <<>>
      BY <1>2, <1>s DEF ClearSensitive
  <2>2. generation <= generation'
      BY <1>2, <1>g DEF ClearSensitive, RequestResync
  <2>3. QuietOut
    <3>1. /\ out' \in OutRecord /\ out'.at = "drain" /\ out'.want = out.want
          /\ out'.scratch = out.scratch /\ out'.generation = out.generation
        BY <2>1, <1>o DEF OutRecord, OutputAt
    <3>2. generation' \in Int
        BY <1>2, ResyncType DEF ClearSensitive
    <3>3. out'.generation <= generation'
        BY <3>1, <3>2, <2>2, <1>g
    <3> QED BY <2>1, <3>1, <3>3, <1>n DEF QuietOut
  <2> QED BY <1>2, <2>3, <1>i DEF ClearSensitive, TypeOK, QuietStep
<1>3. CASE DrainPop
  <2>1. out' = out /\ out.scratch = <<>>
      BY <1>3, <1>s DEF DrainPop
  <2>2. QuietOut
      BY <2>1, <1>o, <1>n, <1>g, <1>w, <1>3 DEF DrainPop, QuietOut
  <2> QED BY <1>3, <2>2, <1>i DEF DrainPop, TypeOK, QuietStep
<1>4. CASE DrainEnd
  <2>1. PICK at \in {"settle", "dispatch"} : out' = [Silence(out) EXCEPT !.at = at]
      BY <1>4 DEF DrainEnd
  <2>2. out.scratch = <<>>
      BY <1>4, <1>s DEF DrainEnd
  <2>3. QuietOut
      BY <2>1, <2>2, <1>c, <1>n, <1>g, <1>4 DEF OutRecord, OutputAt, DrainEnd, QuietOut
  <2> QED BY <1>4, <2>3, <1>i DEF DrainEnd, TypeOK, QuietStep
<1>5. CASE Settle
  <2>1. out' = [out EXCEPT !.at = "dispatch", !.generation = generation] /\ out.scratch = <<>>
      BY <1>5, <1>s DEF Settle
  <2>2. QuietOut
    <3>1. /\ out' \in OutRecord /\ out'.at = "dispatch" /\ out'.want = out.want
          /\ out'.scratch = out.scratch /\ out'.generation = generation
        BY <2>1, <1>o, <1>g DEF OutRecord, OutputAt
    <3>2. generation' = generation
        BY <1>5 DEF Settle
    <3> QED BY <2>1, <3>1, <3>2, <1>n, <1>g DEF QuietOut
  <2> QED BY <1>5, <2>2, <1>i DEF Settle, TypeOK, QuietStep
<1>6. CASE NoBuffer
  <2>1. PICK o \in OutRecord : out' = Return(o) /\ o.generation = out.generation
    <3>1. [out EXCEPT !.ramp = Silenced] \in OutRecord
        BY <1>o, <1>r DEF OutRecord
    <3>2. [out EXCEPT !.ramp = Silenced].generation = out.generation
        BY <1>o DEF OutRecord
    <3>3. out' = Return(out) \/ out' = Return([out EXCEPT !.ramp = Silenced])
        BY <1>6 DEF NoBuffer
    <3> QED BY <1>o, <3>1, <3>2, <3>3
  <2>2. QuietOut
      BY <2>1, <1>d, <1>e, <1>g, <1>6 DEF NoBuffer, QuietOut
  <2> QED BY <1>6, <2>2, <1>i DEF NoBuffer, TypeOK, QuietStep
<1>7. ASSUME NEW n \in Quanta, Fill(n) PROVE QuietStep
  <2>1. out' = [out EXCEPT !.at = "sync", !.want = n] /\ out.scratch = <<>>
      BY <1>7, <1>s DEF Fill
  <2>2. QuietOut
    <3>1. /\ out' \in OutRecord /\ out'.at = "sync" /\ out'.want = n
          /\ out'.scratch = out.scratch /\ out'.generation = out.generation
        BY <2>1, <1>o DEF OutRecord, OutputAt
    <3>2. Len(out'.scratch) <= n
        BY <2>1, <3>1, <1>e
    <3>3. generation' = generation
        BY <1>7 DEF Fill
    <3> QED BY <2>1, <3>1, <3>2, <3>3, <1>g DEF QuietOut
  <2> QED BY <1>7, <2>2, <1>i DEF Fill, TypeOK, QuietStep
<1>8. CASE SynchronizeGeneration
  <2>1. PICK o \in {out, [Silence(out) EXCEPT !.generation = generation]} :
          out' = [o EXCEPT !.at = "prefix"]
      BY <1>8 DEF SynchronizeGeneration
  <2>2. out.scratch = <<>> /\ out.want \in Quanta
      BY <1>8, <1>s, <1>w DEF SynchronizeGeneration
  <2>3. /\ o \in OutRecord /\ o.scratch = <<>> /\ o.want = out.want
        /\ o.generation <= generation
      BY <2>1, <2>2, <1>o, <1>c, <1>g DEF OutRecord
  <2>4. QuietOut
      BY <2>1, <2>2, <2>3, <1>n, <1>8 DEF OutRecord, OutputAt, SynchronizeGeneration, QuietOut
  <2> QED BY <1>8, <2>4, <1>i DEF SynchronizeGeneration, TypeOK, QuietStep
<1>9. CASE DiscardStalePrefix
  <2>1. out.scratch = <<>> /\ out.want \in Quanta
      BY <1>9, <1>s, <1>w DEF DiscardStalePrefix
  <2>2. QuietOut
      BY <2>1, <1>o, <1>n, <1>g, <1>9 DEF OutRecord, OutputAt, DiscardStalePrefix, QuietOut
  <2>3. ring' = ring \/ (ring # <<>> /\ ring' = Tail(ring))
      BY <1>9 DEF DiscardStalePrefix, Stale
  <2> QED BY <1>9, <2>2, <2>3, <1>i DEF DiscardStalePrefix, TypeOK, QuietStep
<1>10. CASE Buffering
  <2>1. QuietOut
      BY <1>10, <1>o, <1>d, <1>e, <1>g DEF Buffering, QuietOut
  <2> QED BY <1>10, <2>1, <1>i DEF Buffering, TypeOK, QuietStep
<1>b. Started(out) \in OutRecord /\ Started(out).generation = out.generation
      /\ Started(out).want = out.want /\ Started(out).scratch = out.scratch
  <2>1. BeginRecovery(out.ramp) \in FaultRamp
      BY <1>o DEF OutRecord, BeginRecovery, FaultRamp
  <2> QED BY <1>o, <2>1 DEF Started, OutRecord
<1>11. CASE LeadingSilence
  <2>1. [Started(out) EXCEPT !.leading = FALSE] \in OutRecord
        /\ [Started(out) EXCEPT !.leading = FALSE].generation = out.generation
      BY <1>b DEF OutRecord
  <2>2. QuietOut
    <3> DEFINE o == [Started(out) EXCEPT !.leading = FALSE]
    <3>1. out' = Return(o) /\ generation' = generation
        BY <1>11 DEF LeadingSilence
    <3> HIDE DEF o
    <3>2. /\ out' \in OutRecord /\ out'.scratch = <<>> /\ out'.want = 0
          /\ out'.at = "idle" /\ out'.generation = out.generation
        BY <2>1, <3>1, <1>d DEF o
    <3> QED BY <3>1, <3>2, <1>e, <1>g DEF QuietOut
  <2> QED BY <1>11, <2>2, <1>i DEF LeadingSilence, TypeOK, QuietStep
<1>12. CASE StartPopping
  <2>1. out' = [Started(out) EXCEPT !.at = "pop"] /\ out.scratch = <<>> /\ out.want \in Quanta
      BY <1>12, <1>s, <1>w DEF StartPopping
  <2>2. QuietOut
      BY <2>1, <1>b, <1>n, <1>g, <1>12 DEF OutRecord, OutputAt, StartPopping, QuietOut
  <2> QED BY <1>12, <2>2, <1>i DEF StartPopping, TypeOK, QuietStep
<1>13. CASE Underflow
  <2> DEFINE r == Rendered(BeginFault(out.ramp), out.want)
  <2>1. r \in FaultRamp
    <3>1. BeginFault(out.ramp) \in FaultRamp
        BY <1>o DEF OutRecord, BeginFault, FaultRamp
    <3> QED BY <3>1, <1>k, <1>o, RenderedType
  <2> HIDE DEF r
  <2>2. out' = Return([out EXCEPT !.ready = FALSE, !.leading = EMPTY, !.ramp = r])
      BY <1>13, <1>o DEF Underflow, OutRecord, r
  <2>3. [out EXCEPT !.ready = FALSE, !.leading = EMPTY, !.ramp = r] \in OutRecord
        /\ [out EXCEPT !.ready = FALSE, !.leading = EMPTY, !.ramp = r].generation = out.generation
      BY <1>o, <1>l, <2>1 DEF OutRecord
  <2>4. generation <= generation'
      BY <1>13, <1>g DEF Underflow, RequestResync
  <2>5. QuietOut
    <3>1. generation' \in Int
        BY <1>13, ResyncType DEF Underflow
    <3>2. /\ out' \in OutRecord /\ out'.scratch = <<>> /\ out'.want = 0
          /\ out'.at = "idle" /\ out'.generation = out.generation
        BY <2>2, <2>3, <1>d
    <3>3. out'.generation <= generation'
        BY <2>4, <3>1, <3>2, <1>g
    <3> QED BY <3>2, <3>3, <1>e DEF QuietOut
  <2> QED BY <1>13, <2>5, <1>i DEF Underflow, TypeOK, QuietStep
<1> QED
  BY <1>1, <1>2, <1>3, <1>4, <1>5, <1>6, <1>7, <1>8, <1>9, <1>10, <1>11, <1>12, <1>13,
     Zenon DEF SourceStep

LEMMA SourceFresh ==
    ASSUME FreshInv, SourceStep PROVE FreshInv'
BY SourceQuiet, QuietFresh, PopFresh, PublishFresh

LEMMA NextFresh == FreshInv /\ [Next]_vars => FreshInv'
<1> SUFFICES ASSUME FreshInv, [Next]_vars PROVE FreshInv'
    OBVIOUS
<1>1. CASE UNCHANGED vars
    BY <1>1 DEF vars, FreshInv, TypeOK, BlockFits, ProducerInv, RingInv, OutInv, Pushed,
                NextTag, HandedOver
<1> QED BY <1>1, ControlFresh, CaptureFresh, SourceFresh DEF Next

-----------------------------------------------------------------------------
(* The theorems.                                                           *)

\* Types: no counter, tag, index or gain of the transport leaves its range.
THEOREM TypeCorrect == Spec => []TypeOK
<1>1. FreshInv => TypeOK
    BY DEF FreshInv
<1> QED BY InitFresh, NextFresh, <1>1, PTL DEF Spec

\* The slots counted before a block is written last until it is written: the
\* error branch of push is dead.
THEOREM BlocksAreWhole == Spec => []BlockFits
<1>1. FreshInv => BlockFits
    BY DEF FreshInv
<1> QED BY InitFresh, NextFresh, <1>1, PTL DEF Spec

\* The generation a sample is tagged with began before it was captured, for
\* every interleaving of the producer with the threads that advance it.
THEOREM TagsNeverLie == Spec => []TagsAreTrue
<1>1. FreshInv => TagsAreTrue
  <2> SUFFICES ASSUME FreshInv PROVE TagsAreTrue
      OBVIOUS
  <2>1. TypeOK /\ RingInv /\ ProducerInv
      BY DEF FreshInv
  <2>2. DOMAIN ring = 1..Len(ring)
      BY <2>1, TypeFacts, LenProperties
  <2>3. NextTag \in Int /\ NextTag <= generation /\ generation \in Int
      BY <2>1, TypeFacts DEF NextTag, ProducerInv
  <2>4. \A i \in 1..Len(ring) : ring[i].generation \in Int
      BY <2>1, TypeFacts
  <2> QED BY <2>1, <2>2, <2>3, <2>4 DEF RingInv, TagsAreTrue
<1> QED BY InitFresh, NextFresh, <1>1, PTL DEF Spec

LEMMA InitRefines == Init => Channel!FCInit
<1> SUFFICES ASSUME Init PROVE Channel!FCInit
    OBVIOUS
<1>1. /\ captured = 0 /\ producer.at = "idle" /\ generation = 1
      /\ heard = [first |-> 0, last |-> 0]
      /\ since = [g \in 1..MaxGeneration |-> 0]
    BY DEF Init
<1>2. out.at = "idle" /\ out.generation = 1
    BY DEF Init
<1>3. HandedOver = 0 /\ since[generation] = 0 /\ since[out.generation] = 0
    BY <1>1, <1>2, Sizes DEF HandedOver
<1>4. (out.at \in {"prefix", "threshold", "pop"}) = FALSE
    BY <1>2
<1> QED BY <1>1, <1>3, <1>4 DEF Channel!FCInit

LEMMA NextRefines == FreshInv /\ FreshInv' /\ [Next]_vars => [Channel!FCNext]_(Channel!fcvars)
<1> SUFFICES ASSUME FreshInv, FreshInv', [Next]_vars
             PROVE  [Channel!FCNext]_(Channel!fcvars)
    OBVIOUS
<1> USE Sizes
<1>t. TypeOK
    BY DEF FreshInv
<1>f. /\ captured \in Nat /\ generation \in 1..MaxGeneration
      /\ out.generation \in 1..generation
      /\ since \in [1..MaxGeneration -> Nat]
  <2>1. out.generation <= generation
      BY DEF FreshInv, OutInv
  <2> QED BY <2>1, <1>t, TypeFacts
<1>o. out \in OutRecord
    BY <1>t DEF TypeOK, OutRecord
<1>p. producer \in ProducerRecord
    BY <1>t DEF TypeOK, ProducerRecord
<1> DEFINE listening == out.at \in {"prefix", "threshold", "pop"}
\* A step that changes none of what the channel is made of.
<1>q. ASSUME UNCHANGED <<HandedOver, generation, since, heard>>,
             out'.generation = out.generation, listening' = listening
      PROVE  UNCHANGED Channel!fcvars
    BY <1>q DEF Channel!fcvars
\* A request of a new generation invalidates what was handed over.
<1>r. ASSUME RequestResync, UNCHANGED <<HandedOver, heard>>,
             out'.generation = out.generation
      PROVE  /\ since'[generation'] = HandedOver
             /\ since'[out'.generation] = since[out.generation]
  <2>1. generation' = generation + 1 /\ generation + 1 \in 1..MaxGeneration
      BY <1>r, <1>f DEF RequestResync
  <2>2. since' = [since EXCEPT ![generation + 1] = HandedOver]
      BY <1>r DEF RequestResync
  <2> QED BY <1>r, <1>f, <2>1, <2>2
<1>1. ASSUME ControlStep PROVE UNCHANGED Channel!fcvars
    BY <1>1, <1>q DEF ControlStep, SetPublicationEnabled, ScheduleAudioCommand,
                      AdvanceInputGeneration, HandedOver
<1>2. ASSUME CaptureReset PROVE Channel!Invalidate
  <2>1. RequestResync /\ UNCHANGED <<HandedOver, heard, out>>
      BY <1>2 DEF CaptureReset, HandedOver
  <2> QED BY <2>1, <1>r DEF Channel!Invalidate
<1>3. ASSUME RecordOverflow PROVE Channel!Invalidate
  <2>1. RequestResync /\ UNCHANGED <<HandedOver, heard, out>>
      BY <1>3, <1>p DEF RecordOverflow, HandedOver, ProducerRecord
  <2> QED BY <2>1, <1>r DEF Channel!Invalidate
<1>4. ASSUME WriteProcessed PROVE Channel!Capture \/ UNCHANGED Channel!fcvars
  <2>1. UNCHANGED <<out, generation, since, heard>>
      BY <1>4 DEF WriteProcessed
  <2>2. HandedOver' = HandedOver \/ HandedOver' > HandedOver
      BY <1>4, <1>f, <1>p DEF WriteProcessed, HandedOver, ProducerRecord
  <2> QED BY <2>1, <2>2 DEF Channel!Capture, Channel!fcvars
<1>5. ASSUME LoadGeneration PROVE Channel!Capture
  <2>1. UNCHANGED <<out, generation, since, heard>>
      BY <1>5 DEF LoadGeneration
  <2>2. HandedOver' > HandedOver
      BY <1>5, <1>f, <1>p DEF LoadGeneration, HandedOver, ProducerRecord
  <2> QED BY <2>1, <2>2 DEF Channel!Capture
<1>6. ASSUME SlotsFree PROVE UNCHANGED Channel!fcvars
    BY <1>6, <1>p, <1>q DEF SlotsFree, HandedOver, ProducerRecord
<1>7. ASSUME Push PROVE UNCHANGED Channel!fcvars
  <2>1. Len(ring) < CAPACITY
    <3>1. producer.at = "push" /\ producer.left \in 1..BLOCK /\ Len(ring) \in Nat
          /\ Len(ring) + producer.left <= CAPACITY
        BY <1>7, <1>t, TypeFacts DEF Push, FreshInv, ProducerInv, BlockFits
    <3> QED BY <3>1
  <2>2. UNCHANGED <<generation, since, heard, out, captured>> /\ producer' = NextLeft
      BY <1>7, <2>1 DEF Push
  <2>3. HandedOver' = HandedOver
      BY <1>7, <2>2, <1>p DEF Push, NextLeft, HandedOver, ProducerRecord
  <2> QED BY <2>2, <2>3, <1>q
<1>8. ASSUME SourceStep PROVE [Channel!FCNext]_(Channel!fcvars)
  <2>u. ASSUME UNCHANGED <<producer, captured>> PROVE HandedOver' = HandedOver
      BY <2>u DEF HandedOver
  <2>1. ASSUME ApplyAudioCommand \/ DrainPop \/ DrainEnd \/ NoBuffer
                 \/ \E n \in Quanta : Fill(n)
        PROVE  UNCHANGED Channel!fcvars
    <3>1. /\ UNCHANGED <<producer, captured, generation, since, heard>>
          /\ out'.generation = out.generation /\ ~listening /\ ~listening'
      <4>1. CASE ApplyAudioCommand
        <5>1. PICK at \in {"clear", "drain", "dispatch"} : 
                out' = [out EXCEPT !.at = at, !.clearing = (command = "clear")]
          <6> DEFINE next == CASE command = "clear" -> "clear"
                               [] command = "discard" -> "drain"
                               [] OTHER -> "dispatch"
          <6>1. out' = [out EXCEPT !.at = next, !.clearing = (command = "clear")]
              BY <4>1, Zenon DEF ApplyAudioCommand
          <6>2. next \in {"clear", "drain", "dispatch"}
              BY Zenon
          <6> HIDE DEF next
          <6> QED BY <6>1, <6>2, Zenon
        <5> QED BY <4>1, <5>1, <1>o DEF ApplyAudioCommand, OutRecord
      <4>2. CASE DrainPop
          BY <4>2, <1>o DEF DrainPop
      <4>3. CASE DrainEnd
          BY <4>3, <1>o DEF DrainEnd, Silence, OutRecord
      <4>4. CASE NoBuffer
        <5>1. PICK o \in {out, [out EXCEPT !.ramp = Silenced]} : out' = Return(o)
            BY <4>4 DEF NoBuffer
        <5>2. o \in OutRecord /\ o.generation = out.generation
          <6>1. Silenced \in FaultRamp
              BY Sizes DEF FaultRamp, Silenced
          <6> QED BY <5>1, <6>1, <1>o DEF OutRecord
        <5>3. out'.generation = o.generation /\ out'.at = "idle"
            BY <5>1, <5>2 DEF Return, OutRecord
        <5>4. UNCHANGED <<producer, captured, generation, since, heard>> /\ out.at = "dispatch"
            BY <4>4 DEF NoBuffer
        <5> QED BY <5>2, <5>3, <5>4
      <4>5. CASE \E n \in Quanta : Fill(n)
          BY <4>5, <1>o DEF Fill, OutRecord
      <4> QED BY <2>1, <4>1, <4>2, <4>3, <4>4, <4>5
    <3> QED BY <3>1, <2>u, <1>q
  <2>2. ASSUME DiscardStalePrefix \/ StartPopping \/ PopSample
        PROVE  UNCHANGED Channel!fcvars
    <3>1. /\ UNCHANGED <<producer, captured, generation, since, heard>>
          /\ out'.generation = out.generation /\ listening /\ listening'
        BY <2>2, <1>o DEF DiscardStalePrefix, StartPopping, Started, PopSample, OutRecord
    <3> QED BY <3>1, <2>u, <1>q
  <2>3. ASSUME ClearSensitive PROVE Channel!Invalidate
    <3>1. /\ RequestResync /\ UNCHANGED <<producer, captured, heard>>
          /\ out'.generation = out.generation /\ ~listening /\ ~listening'
        BY <2>3, <1>o DEF ClearSensitive, OutRecord
    <3> QED BY <3>1, <2>u, <1>r DEF Channel!Invalidate
  <2>4. ASSUME Settle \/ SynchronizeGeneration PROVE Channel!TakeOver
    <3>1. /\ UNCHANGED <<producer, captured, generation, since, heard>>
          /\ out'.generation = generation /\ ~listening
        BY <2>4, <1>o, <1>f DEF Settle, SynchronizeGeneration, Silence, OutRecord
    <3> QED BY <3>1, <2>u DEF Channel!TakeOver
  <2>5. ASSUME Buffering \/ LeadingSilence PROVE Channel!HearNothing
    <3>1. /\ UNCHANGED <<producer, captured, generation, since, heard>>
          /\ out'.generation = out.generation /\ listening /\ ~listening'
      <4>1. CASE Buffering
          BY <4>1, <1>o DEF Buffering, Return, OutRecord
      <4>2. CASE LeadingSilence
        <5> DEFINE o == [Started(out) EXCEPT !.leading = FALSE]
        <5>1. o \in OutRecord /\ o.generation = out.generation
          <6>1. BeginRecovery(out.ramp) \in FaultRamp
              BY <1>o DEF OutRecord, BeginRecovery, FaultRamp
          <6> QED BY <1>o, <6>1 DEF Started, OutRecord
        <5>2. out' = Return(o)
            BY <4>2 DEF LeadingSilence
        <5> HIDE DEF o
        <5>3. out'.generation = out.generation /\ out'.at = "idle"
            BY <5>1, <5>2 DEF Return, OutRecord
        <5> QED BY <4>2, <5>3 DEF LeadingSilence
      <4> QED BY <2>5, <4>1, <4>2
    <3> QED BY <3>1, <2>u DEF Channel!HearNothing
  <2>6. ASSUME Underflow PROVE Channel!GiveUp
    <3>1. /\ RequestResync /\ UNCHANGED <<producer, captured, heard>>
          /\ out'.generation = out.generation /\ listening /\ ~listening'
        BY <2>6, <1>o DEF Underflow, Return, OutRecord
    <3> QED BY <3>1, <2>u, <1>r DEF Channel!GiveUp
  <2>7. ASSUME Publish PROVE Channel!Hear
    <3>1. /\ UNCHANGED <<producer, captured, generation, since>>
          /\ out'.generation = out.generation /\ listening /\ ~listening'
          /\ heard' = [first |-> Head(out.scratch), last |-> Last(out.scratch)]
        BY <2>7, <1>o DEF Publish, Return, OutRecord
    <3>2. heard' = [first |-> heard'.first, last |-> heard'.last]
        BY <3>1
    <3> QED BY <2>7, <3>1, <3>2, <2>u, PublishFresh DEF Channel!Hear
  <2> QED BY <1>8, <2>1, <2>2, <2>3, <2>4, <2>5, <2>6, <2>7 DEF SourceStep, Channel!FCNext
<1>9. CASE UNCHANGED vars
    BY <1>9, <1>q DEF vars, HandedOver
<1> QED
  BY <1>1, <1>2, <1>3, <1>4, <1>5, <1>6, <1>7, <1>8, <1>9
     DEF Next, CaptureStep, Channel!FCNext

\* The transport implements the channel: whatever the threads' interleaving,
\* nothing is heard twice, out of order, or after it was invalidated.
THEOREM TransportIsFresh == Spec => IsFreshChannel
<1> QED BY InitFresh, NextFresh, InitRefines, NextRefines, PTL
        DEF Spec, IsFreshChannel, Channel!FCSpec

-----------------------------------------------------------------------------
(***************************************************************************)
(* No callback splices audio across a dropout, whatever the sizes.  A      *)
(* sample missing between two that share a tag was captured while the gate *)
(* was closed: a dropped block always starts a new generation, and what is *)
(* taken from the ring is taken from its low end.                          *)
(***************************************************************************)

\* The samples on their way, collected by the callback or queued.
Held ==
    {[generation |-> out.generation, value |-> out.scratch[i]] : i \in 1..Len(out.scratch)}
        \cup {ring[i] : i \in 1..Len(ring)}

Accounted(k) == k \in gated \/ \E z \in Held : z.value = k

\* Between two samples with one tag, and between a sample with the next tag
\* and the next sample, nothing is missing but what was gated.
LinkInv ==
    /\ \A x \in Held : x.generation <= NextTag
    /\ \A x, y \in Held :
         x.generation = y.generation => \A k \in (x.value + 1)..(y.value - 1) : Accounted(k)
    /\ \A x \in Held :
         x.generation = NextTag => \A k \in (x.value + 1)..Pushed : Accounted(k)

-----------------------------------------------------------------------------
LEMMA HeldFacts ==
    ASSUME FreshInv
    PROVE  /\ \A x \in Held : /\ x.generation \in 1..MaxGeneration
                              /\ x.value \in Nat /\ x.value <= Pushed
           /\ Pushed \in Int /\ NextTag \in 1..generation /\ generation \in Nat
           /\ captured \in Nat
<1> USE Sizes
<1>i. TypeOK /\ ProducerInv /\ RingInv /\ OutInv
    BY DEF FreshInv
<1>1. /\ captured \in Nat /\ generation \in 1..MaxGeneration /\ producer.left \in Nat
      /\ out.generation \in 1..MaxGeneration
    BY <1>i, TypeFacts
<1>2. Pushed \in Int /\ NextTag \in 1..generation
    BY <1>1, <1>i DEF Pushed, NextTag, ProducerInv
<1>3. \A i \in 1..Len(ring) : /\ ring[i].generation \in 1..MaxGeneration
                              /\ ring[i].value \in Nat /\ ring[i].value <= Pushed
    BY <1>i, TypeFacts DEF RingInv
<1>4. \A i \in 1..Len(out.scratch) : out.scratch[i] \in Nat /\ out.scratch[i] <= Pushed
    BY <1>i, TypeFacts DEF OutInv
<1> QED BY <1>1, <1>2, <1>3, <1>4 DEF Held

\* A step that adds no sample keeps the links if what it removes lies below
\* what it leaves, and what it settles is gated or starts a new tag.
LEMMA LinksKept ==
    ASSUME FreshInv, LinkInv, FreshInv',
           Held' \subseteq Held, gated \subseteq gated',
           \A x \in Held', z \in Held : z.value > x.value => z \in Held',
           \/ NextTag' > generation
           \/ /\ NextTag' = NextTag
              /\ \A k \in (Pushed + 1)..Pushed' : k \in gated'
    PROVE  LinkInv'
<1>1. \A x \in Held : /\ x.generation \in Nat /\ x.value \in Nat
                      /\ x.generation <= NextTag /\ NextTag <= generation
    BY HeldFacts DEF LinkInv
<1>2. Pushed \in Int /\ NextTag \in Nat /\ generation \in Nat /\ Pushed' \in Int /\ NextTag' \in Nat
  <2>1. Pushed' \in Int /\ NextTag' \in Nat
    <3>1. /\ captured' \in Nat /\ generation' \in Nat
          /\ producer'.left \in Nat /\ producer'.generation \in Nat
        BY Sizes DEF FreshInv, TypeOK
    <3> QED BY <3>1, Sizes DEF Pushed, NextTag
  <2> QED BY <2>1, HeldFacts
<1>3. ASSUME NEW x \in Held', NEW k \in Int, k > x.value, Accounted(k)
      PROVE  Accounted(k)'
    BY <1>3 DEF Accounted
<1>4. \A x \in Held' : x.generation <= NextTag'
    BY <1>1, <1>2
<1>5. ASSUME NEW x \in Held', NEW y \in Held', x.generation = y.generation,
             NEW k \in (x.value + 1)..(y.value - 1)
      PROVE  Accounted(k)'
  <2>1. x \in Held /\ y \in Held /\ k \in Int /\ k > x.value
      BY <1>1
  <2>2. Accounted(k)
      BY <1>5, <2>1 DEF LinkInv
  <2> QED BY <2>1, <2>2, <1>3
<1>6. ASSUME NEW x \in Held', x.generation = NextTag', NEW k \in (x.value + 1)..Pushed'
      PROVE  Accounted(k)'
  <2>1. x \in Held /\ k \in Int /\ k > x.value
      BY <1>1, <1>2
  <2>2. NextTag' = NextTag /\ \A j \in (Pushed + 1)..Pushed' : j \in gated'
      BY <1>1, <1>2, <1>6
  <2>3. CASE k <= Pushed
    <3>1. Accounted(k)
      <4>1. k \in (x.value + 1)..Pushed
          BY <2>3, <1>1, <1>2
      <4> QED BY <4>1, <2>1, <2>2, <1>6 DEF LinkInv
    <3> QED BY <3>1, <2>1, <1>3
  <2>4. CASE k > Pushed
      BY <2>1, <2>2, <2>4, <1>2 DEF Accounted
  <2> QED BY <2>1, <2>3, <2>4, <1>2
<1> QED BY <1>4, <1>5, <1>6 DEF LinkInv

\* Taking the oldest queued sample and emptying the scratch removes what lies
\* below the rest.
LEMMA TakenFromBelow ==
    ASSUME FreshInv, out'.scratch = <<>>,
           ring' = ring \/ (ring # <<>> /\ ring' = Tail(ring))
    PROVE  /\ Held' \subseteq Held
           /\ \A x \in Held', z \in Held : z.value > x.value => z \in Held'
<1>i. RingInv /\ OutInv
    BY DEF FreshInv
<1>t. /\ ring \in Seq(Tagged) /\ Len(ring) \in Nat
      /\ \A i \in 1..Len(ring) : ring[i].value \in Nat
      /\ \A i \in 1..Len(out.scratch) : out.scratch[i] \in Nat
    BY TypeFacts DEF FreshInv
<1>1. Held' = {ring'[i] : i \in 1..Len(ring')}
  <2>1. Len(out'.scratch) = 0
      BY EmptySeq
  <2> QED BY <2>1 DEF Held
<1>2. CASE ring' = ring
  <2>1. Held' \subseteq Held
      BY <1>1, <1>2 DEF Held
  <2>2. ASSUME NEW x \in Held', NEW z \in Held, z.value > x.value
        PROVE  z \in Held'
    <3>1. PICK j \in 1..Len(ring) : x = ring[j]
        BY <1>1, <1>2
    <3>2. ASSUME NEW i \in 1..Len(out.scratch),
                 z = [generation |-> out.generation, value |-> out.scratch[i]]
          PROVE  FALSE
        BY <2>2, <3>1, <3>2, <1>i, <1>t DEF OutInv
    <3> QED BY <3>2, <1>1, <1>2 DEF Held
  <2> QED BY <2>1, <2>2
<1>3. CASE ring # <<>> /\ ring' = Tail(ring)
  <2>1. Len(ring') = Len(ring) - 1 /\ \A i \in 1..Len(ring') : ring'[i] = ring[i + 1]
      BY <1>3, <1>t, TailFacts
  <2>2. Held' \subseteq Held
    <3> SUFFICES ASSUME NEW x \in Held' PROVE x \in Held
        OBVIOUS
    <3>1. PICK j \in 1..Len(ring') : x = ring'[j]
        BY <1>1
    <3>2. j + 1 \in 1..Len(ring) /\ x = ring[j + 1]
        BY <3>1, <2>1, <1>t
    <3> QED BY <3>2 DEF Held
  <2>3. ASSUME NEW x \in Held', NEW z \in Held, z.value > x.value
        PROVE  z \in Held'
    <3>1. PICK j \in 2..Len(ring) : x = ring[j]
      <4>1. PICK i \in 1..Len(ring') : x = ring'[i]
          BY <1>1
      <4>2. i + 1 \in 2..Len(ring) /\ x = ring[i + 1]
          BY <4>1, <2>1, <1>t
      <4> QED BY <4>2
    <3>2. ASSUME NEW i \in 1..Len(out.scratch),
                 z = [generation |-> out.generation, value |-> out.scratch[i]]
          PROVE  FALSE
      <4>1. out.scratch[i] < ring[j].value
          BY <1>i DEF OutInv
      <4> QED BY <2>3, <3>1, <3>2, <4>1, <1>t
    <3>3. PICK i \in 1..Len(ring) : z = ring[i]
        BY <3>2 DEF Held
    <3>4. i # 1
      <4>1. 1 \in 1..Len(ring) /\ ring[1].value < ring[j].value
          BY <1>i, <1>t DEF RingInv
      <4> QED BY <4>1, <2>3, <3>1, <3>3, <1>t
    <3>5. PICK k \in 1..Len(ring') : k + 1 = i
      <4>1. i - 1 \in 1..Len(ring') /\ (i - 1) + 1 = i
          BY <3>4, <2>1, <1>t
      <4> QED BY <4>1
    <3> QED BY <3>3, <3>5, <2>1, <1>1
  <2> QED BY <2>2, <2>3
<1> QED BY <1>2, <1>3

-----------------------------------------------------------------------------
\* The producer's step that queues a sample, the next one to be settled.
LEMMA PushLinks ==
    ASSUME FreshInv, LinkInv, Push, FreshInv' PROVE LinkInv'
<1> USE Sizes
<1>i. TypeOK /\ BlockFits /\ ProducerInv /\ RingInv /\ OutInv
    BY DEF FreshInv
<1> DEFINE new == [generation |-> producer.generation, value |-> captured - producer.left + 1]
<1>1. /\ producer.at = "push" /\ producer.left \in 1..BLOCK
      /\ producer.generation \in 1..generation
      /\ captured \in Nat /\ generation \in Nat /\ Len(ring) \in Nat
      /\ Pushed = captured - producer.left /\ NextTag = producer.generation
    BY <1>i, TypeFacts DEF Push, ProducerInv, Pushed, NextTag
<1>2. Len(ring) < CAPACITY
  <2>1. Len(ring) + producer.left <= CAPACITY
      BY <1>1, <1>i DEF BlockFits
  <2> QED BY <2>1, <1>1
<1>3. /\ ring' = Append(ring, new) /\ producer' = NextLeft
      /\ UNCHANGED <<generation, out, captured, gated>>
    BY <1>2 DEF Push
<1>4. Held' = Held \cup {new}
  <2>1. new \in Tagged
    <3>1. captured <= MaxCaptured /\ generation <= MaxGeneration /\ BLOCK <= captured
        BY <1>1, <1>i DEF TypeOK, ProducerInv
    <3>2. producer.generation \in 1..MaxGeneration
        BY <3>1, <1>1
    <3>3. captured - producer.left + 1 \in 1..MaxCaptured
        BY <3>1, <1>1
    <3> QED BY <3>2, <3>3 DEF Tagged
  <2>2. /\ Len(ring') = Len(ring) + 1
        /\ \A i \in 1..Len(ring) : ring'[i] = ring[i]
        /\ ring'[Len(ring) + 1] = new
    <3> HIDE DEF new
    <3> QED BY <2>1, <1>3, <1>i, TypeFacts, AppendFacts
  <2> HIDE DEF new
  <2>3. {ring'[i] : i \in 1..Len(ring')} = {ring[i] : i \in 1..Len(ring)} \cup {new}
    <3>1. 1..Len(ring') = 1..Len(ring) \cup {Len(ring) + 1}
        BY <2>2, <1>1
    <3> QED BY <3>1, <2>2
  <2> QED BY <2>3, <1>3 DEF Held
<1>5. Pushed' = Pushed + 1 /\ NextTag' \in {NextTag, generation}
  <2>1. CASE producer.left = 1
    <3>1. producer' = [at |-> "idle", generation |-> 0, left |-> 0]
        BY <1>3, <2>1 DEF NextLeft
    <3> QED BY <3>1, <2>1, <1>1, <1>3 DEF Pushed, NextTag
  <2>2. CASE producer.left # 1
    <3>1. producer' = [producer EXCEPT !.left = producer.left - 1]
        BY <1>3, <2>2 DEF NextLeft
    <3>2. /\ producer'.at = "push" /\ producer'.left = producer.left - 1
          /\ producer'.generation = producer.generation
        BY <3>1, <1>1, <1>i DEF TypeOK
    <3>3. Pushed' = captured - (producer.left - 1)
        BY <3>2, <1>3 DEF Pushed
    <3>4. NextTag' = NextTag
        BY <3>2, <1>1 DEF NextTag
    <3> QED BY <3>3, <3>4, <1>1
  <2> QED BY <2>1, <2>2
<1>6. new.generation = NextTag /\ new.value = Pushed + 1
    BY <1>1
<1> HIDE DEF new
<1>7. /\ \A x \in Held : /\ x.generation \in Nat /\ x.value \in Nat
                         /\ x.value <= Pushed /\ x.generation <= NextTag
      /\ Pushed \in Int /\ NextTag \in Nat /\ NextTag <= generation
    BY <1>1, HeldFacts DEF LinkInv
<1>8. \A k : Accounted(k) => Accounted(k)'
    BY <1>3, <1>4 DEF Accounted
<1>9. ASSUME NEW k \in Int, k = Pushed + 1 PROVE Accounted(k)'
    BY <1>4, <1>6, <1>9 DEF Accounted
<1>10. \A x \in Held' : x.generation <= NextTag'
    BY <1>1, <1>4, <1>5, <1>6, <1>7
<1>11. ASSUME NEW x \in Held', NEW y \in Held', x.generation = y.generation,
              NEW k \in (x.value + 1)..(y.value - 1)
       PROVE  Accounted(k)'
  <2>1. CASE x \in Held /\ y \in Held
      BY <2>1, <1>8, <1>11 DEF LinkInv
  <2>2. CASE x \in Held /\ y = new
    <3>1. x.generation = NextTag /\ k \in (x.value + 1)..Pushed
        BY <2>2, <1>6, <1>7, <1>11
    <3> QED BY <3>1, <2>2, <1>8 DEF LinkInv
  <2>3. CASE x = new
      BY <2>3, <1>4, <1>6, <1>7, <1>11
  <2> QED BY <2>1, <2>2, <2>3, <1>4
<1>12. ASSUME NEW x \in Held', x.generation = NextTag', NEW k \in (x.value + 1)..Pushed'
       PROVE  Accounted(k)'
  <2>1. CASE x = new
      BY <2>1, <1>5, <1>6, <1>7
  <2>2. CASE x \in Held
    <3>1. x.generation = NextTag
        BY <2>2, <1>5, <1>7, <1>12
    <3>2. CASE k \in (x.value + 1)..Pushed
        BY <2>2, <3>1, <3>2, <1>8 DEF LinkInv
    <3>3. CASE k = Pushed + 1
        BY <3>3, <1>7, <1>9
    <3> QED BY <2>2, <3>2, <3>3, <1>5, <1>7
  <2> QED BY <2>1, <2>2, <1>4
<1> QED BY <1>10, <1>11, <1>12 DEF LinkInv

\* A block that is not queued is gated, or dropped with a new generation.
LEMMA CaptureLinks ==
    ASSUME FreshInv, LinkInv, CaptureStep, FreshInv' PROVE LinkInv'
<1> USE Sizes
<1>i. TypeOK /\ ProducerInv
    BY DEF FreshInv
<1>p. producer \in ProducerRecord /\ captured \in Nat /\ generation \in Nat
    BY <1>i, TypeFacts DEF TypeOK, ProducerRecord
<1>h. ASSUME UNCHANGED <<ring, out>>
      PROVE  Held' = Held
    BY <1>h DEF Held
<1>1. CASE CaptureReset
  <2>1. /\ UNCHANGED <<ring, out, gated, producer>> /\ producer.at = "idle"
        /\ generation' = generation + 1
      BY <1>1 DEF CaptureReset, RequestResync
  <2>2. NextTag' > generation
      BY <2>1, <1>p DEF NextTag
  <2> QED BY <2>1, <2>2, <1>h, LinksKept
<1>2. CASE RecordOverflow
  <2>1. /\ UNCHANGED <<ring, out, gated>> /\ producer'.at = "idle"
        /\ generation' = generation + 1
      BY <1>2, <1>p DEF RecordOverflow, RequestResync, ProducerRecord
  <2>2. NextTag' > generation
      BY <2>1, <1>p DEF NextTag
  <2> QED BY <2>1, <2>2, <1>h, LinksKept
<1>3. CASE WriteProcessed
  <2>1. /\ UNCHANGED <<ring, out, generation>> /\ captured' = captured + BLOCK
        /\ producer.at = "idle" /\ gated \subseteq gated'
      BY <1>3 DEF WriteProcessed
  <2>2. /\ producer'.at = "load" \/ producer'.at = "idle"
        /\ producer'.at # "load" => (captured + 1)..(captured + BLOCK) \subseteq gated'
      BY <1>3, <1>p DEF WriteProcessed, ProducerRecord
  <2>3. NextTag' = NextTag /\ Pushed = captured
      BY <2>1, <2>2, <1>p DEF NextTag, Pushed
  <2>4. \A k \in (Pushed + 1)..Pushed' : k \in gated'
    <3>1. CASE producer'.at = "load"
      <4>1. Pushed' = Pushed
          BY <3>1, <2>1, <2>3, <1>p DEF Pushed
      <4> QED BY <4>1, <2>3, <1>p
    <3>2. CASE producer'.at # "load"
      <4>1. Pushed' = captured + BLOCK
          BY <3>2, <2>1, <2>2, <1>p DEF Pushed
      <4> QED BY <4>1, <3>2, <2>2, <2>3
    <3> QED BY <3>1, <3>2
  <2> QED BY <2>1, <2>3, <2>4, <1>h, LinksKept
<1>4. CASE LoadGeneration \/ SlotsFree
  <2>1. /\ UNCHANGED <<ring, out, generation, gated, captured>>
        /\ Pushed' = Pushed /\ NextTag' = NextTag
    <3>1. CASE LoadGeneration
      <4>1. /\ producer.at = "load" /\ producer'.at = "slots"
            /\ producer'.generation = generation
          BY <3>1, <1>p DEF LoadGeneration, ProducerRecord
      <4> QED BY <3>1, <4>1 DEF LoadGeneration, Pushed, NextTag
    <3>2. CASE SlotsFree
      <4>1. /\ producer.at = "slots" /\ producer'.at = "push"
            /\ producer'.left = BLOCK /\ producer'.generation = producer.generation
          BY <3>2, <1>p DEF SlotsFree, ProducerRecord
      <4> QED BY <3>2, <4>1 DEF SlotsFree, Pushed, NextTag
    <3> QED BY <1>4, <3>1, <3>2
  <2>2. \A k \in (Pushed + 1)..Pushed' : k \in gated'
      BY <2>1, HeldFacts
  <2> QED BY <2>1, <2>2, <1>h, LinksKept
<1>5. CASE Push
    BY <1>5, PushLinks
<1> QED BY <1>1, <1>2, <1>3, <1>4, <1>5 DEF CaptureStep

\* The callback moves a sample from the ring to its scratch, or removes some
\* from below.
LEMMA SourceLinks ==
    ASSUME FreshInv, LinkInv, SourceStep, FreshInv' PROVE LinkInv'
<1>i. TypeOK /\ RingInv
    BY DEF FreshInv
<1>1. UNCHANGED <<producer, captured, gated>>
    BY SourceQuiet DEF PopSample, Publish, QuietStep
<1>2. Pushed' = Pushed
    BY <1>1 DEF Pushed
<1>3. \A k \in (Pushed + 1)..Pushed' : k \in gated'
    BY <1>2, HeldFacts
<1>4. NextTag' = NextTag \/ NextTag' > generation
  <2>1. generation' = generation \/ generation' > generation
    <3>1. generation' = generation \/ generation' = generation + 1
        BY SourceQuiet DEF PopSample, Publish, QuietStep, RequestResync
    <3> QED BY <3>1, HeldFacts
  <2> QED BY <1>1, <2>1 DEF NextTag
<1>5. CASE PopSample
  <2>1. /\ ring # <<>> /\ ~Stale /\ ring' = Tail(ring)
        /\ out' = [out EXCEPT !.scratch = Append(@, Head(ring).value)]
      BY <1>5 DEF PopSample
  <2>2. /\ Len(ring) \in Nat \ {0} /\ Head(ring) = ring[1] /\ ring[1] \in Tagged
        /\ Len(ring') = Len(ring) - 1
        /\ \A i \in 1..Len(ring') : ring'[i] = ring[i + 1]
      BY <1>i, <2>1, TailFacts, TypeFacts
  <2>3. ring[1] = [generation |-> out.generation, value |-> ring[1].value]
      BY <2>1, <2>2 DEF Stale, Tagged
  <2>4. out'.scratch = Append(out.scratch, ring[1].value) /\ out'.generation = out.generation
      BY <2>1, <2>2, <1>i DEF TypeOK
  <2>5. /\ Len(out.scratch) \in Nat /\ Len(out'.scratch) = Len(out.scratch) + 1
        /\ \A i \in 1..Len(out.scratch) : out'.scratch[i] = out.scratch[i]
        /\ out'.scratch[Len(out.scratch) + 1] = ring[1].value
    <3>1. out.scratch \in Seq(1..MaxCaptured) /\ ring[1].value \in 1..MaxCaptured
        BY <1>i, <2>2, TypeFacts DEF Tagged
    <3> QED BY <3>1, <2>4, AppendFacts
  <2>6. Held' = Held
    <3>1. ASSUME NEW z \in Held' PROVE z \in Held
      <4>1. ASSUME NEW i \in 1..Len(out'.scratch),
                   z = [generation |-> out.generation, value |-> out'.scratch[i]]
            PROVE  z \in Held
        <5>1. CASE i \in 1..Len(out.scratch)
            BY <4>1, <5>1, <2>5 DEF Held
        <5>2. CASE i = Len(out.scratch) + 1
          <6>1. z = ring[1] /\ 1 \in 1..Len(ring)
              BY <4>1, <5>2, <2>2, <2>3, <2>5
          <6> QED BY <6>1 DEF Held
        <5> QED BY <5>1, <5>2, <2>5
      <4>2. ASSUME NEW i \in 1..Len(ring'), z = ring'[i]
            PROVE  z \in Held
        <5>1. i + 1 \in 1..Len(ring) /\ z = ring[i + 1]
            BY <4>2, <2>2
        <5> QED BY <5>1 DEF Held
      <4> QED BY <4>1, <4>2, <2>4, <3>1 DEF Held
    <3>2. ASSUME NEW z \in Held PROVE z \in Held'
      <4>1. ASSUME NEW i \in 1..Len(out.scratch),
                   z = [generation |-> out.generation, value |-> out.scratch[i]]
            PROVE  z \in Held'
        <5>1. i \in 1..Len(out'.scratch) /\ out'.scratch[i] = out.scratch[i]
            BY <2>5
        <5> QED BY <4>1, <5>1, <2>4 DEF Held
      <4>2. ASSUME NEW i \in 1..Len(ring), z = ring[i]
            PROVE  z \in Held'
        <5>1. CASE i = 1
          <6>1. /\ Len(out.scratch) + 1 \in 1..Len(out'.scratch)
                /\ z = [generation |-> out'.generation,
                        value |-> out'.scratch[Len(out.scratch) + 1]]
              BY <4>2, <5>1, <2>3, <2>4, <2>5
          <6> QED BY <6>1 DEF Held
        <5>2. CASE i # 1
          <6>1. PICK j \in 1..Len(ring') : j + 1 = i
            <7>1. i - 1 \in 1..Len(ring') /\ (i - 1) + 1 = i
                BY <5>2, <2>2
            <7> QED BY <7>1
          <6> QED BY <6>1, <4>2, <2>2 DEF Held
        <5> QED BY <5>1, <5>2
      <4> QED BY <4>1, <4>2, <3>2 DEF Held
    <3> QED BY <3>1, <3>2
  <2> QED BY <2>6, <1>1, <1>3, <1>4, LinksKept
<1>6. CASE QuietStep \/ Publish
  <2>1. /\ out'.scratch = <<>>
        /\ ring' = ring \/ (ring # <<>> /\ ring' = Tail(ring))
    <3>1. CASE QuietStep
        BY <3>1 DEF QuietStep, QuietOut
    <3>2. CASE Publish
      <4>1. out' = Return([out EXCEPT !.ramp = Rendered(@, out.want)])
          BY <3>2 DEF Publish
      <4>2. out'.scratch = <<>>
          BY <4>1, <1>i DEF Return, TypeOK
      <4> QED BY <3>2, <4>2 DEF Publish
    <3> QED BY <1>6, <3>1, <3>2
  <2> QED BY <2>1, <1>1, <1>3, <1>4, TakenFromBelow, LinksKept
<1> QED BY <1>5, <1>6, SourceQuiet

LEMMA NextLinks == FreshInv /\ LinkInv /\ [Next]_vars => LinkInv'
<1> SUFFICES ASSUME FreshInv, LinkInv, [Next]_vars PROVE LinkInv'
    OBVIOUS
<1>1. FreshInv'
    BY NextFresh
<1>2. CASE ControlStep \/ UNCHANGED vars
  <2>1. UNCHANGED <<ring, generation, producer, out, captured, gated>>
      BY <1>2 DEF ControlStep, SetPublicationEnabled, ScheduleAudioCommand,
                  AdvanceInputGeneration, vars
  <2> QED BY <2>1 DEF LinkInv, Held, Accounted, Pushed, NextTag
<1>3. CASE CaptureStep
    BY <1>1, <1>3, CaptureLinks
<1>4. CASE SourceStep
    BY <1>1, <1>4, SourceLinks
<1> QED BY <1>2, <1>3, <1>4 DEF Next

LEMMA InitLinks == Init => LinkInv
<1> SUFFICES ASSUME Init PROVE LinkInv
    OBVIOUS
<1>1. Len(ring) = 0 /\ Len(out.scratch) = 0
    BY EmptySeq DEF Init
<1>2. Held = {}
    BY <1>1 DEF Held
<1> QED BY <1>2 DEF LinkInv

\* A callback never splices audio from before a dropout to audio from after
\* it, however the producer drops blocks while the callback collects.
THEOREM NothingIsSpliced == Spec => []NoSplice
<1>1. FreshInv /\ LinkInv => NoSplice
  <2> SUFFICES ASSUME FreshInv, LinkInv,
                      NEW i \in 1..Len(out.scratch) - 1,
                      NEW k \in (out.scratch[i] + 1)..(out.scratch[i + 1] - 1)
               PROVE  k \in gated
      BY DEF NoSplice
  <2> DEFINE x == [generation |-> out.generation, value |-> out.scratch[i]]
             y == [generation |-> out.generation, value |-> out.scratch[i + 1]]
  <2>1. /\ Len(out.scratch) \in Nat
        /\ \A j \in 1..Len(out.scratch) : out.scratch[j] \in Nat
        /\ \A j \in 1..Len(ring) : ring[j].value \in Nat
      BY TypeFacts DEF FreshInv
  <2>2. i \in 1..Len(out.scratch) /\ i + 1 \in 1..Len(out.scratch)
      BY <2>1
  <2>3. Accounted(k)
    <3>1. x \in Held /\ y \in Held
        BY <2>2 DEF Held
    <3>2. x.generation = y.generation /\ k \in (x.value + 1)..(y.value - 1)
        OBVIOUS
    <3> HIDE DEF x, y
    <3> QED BY <3>1, <3>2 DEF LinkInv
  <2>4. \A z \in Held : z.value # k
    <3>1. ASSUME NEW j \in 1..Len(out.scratch) PROVE out.scratch[j] # k
      <4>1. CASE j <= i
        <5>1. out.scratch[j] <= out.scratch[i]
          <6>1. CASE j = i
              BY <6>1, <2>1
          <6>2. CASE j < i
              BY <6>2, <2>1, <2>2 DEF FreshInv, OutInv
          <6> QED BY <4>1, <6>1, <6>2
        <5> QED BY <5>1, <2>1, <2>2
      <4>2. CASE i + 1 <= j
        <5>1. out.scratch[i + 1] <= out.scratch[j]
          <6>1. CASE j = i + 1
              BY <6>1, <2>1
          <6>2. CASE i + 1 < j
              BY <6>2, <2>1, <2>2 DEF FreshInv, OutInv
          <6> QED BY <4>2, <6>1, <6>2
        <5> QED BY <5>1, <2>1, <2>2
      <4> QED BY <4>1, <4>2, <2>2
    <3>2. ASSUME NEW j \in 1..Len(ring) PROVE ring[j].value # k
      <4>1. out.scratch[i + 1] < ring[j].value
          BY <2>2 DEF FreshInv, OutInv
      <4> QED BY <4>1, <2>1, <2>2
    <3> QED BY <3>1, <3>2 DEF Held
  <2> QED BY <2>3, <2>4 DEF Accounted
<1> QED BY InitFresh, InitLinks, NextFresh, NextLinks, <1>1, PTL DEF Spec
=============================================================================
