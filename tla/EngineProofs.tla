---------------------------- MODULE EngineProofs ----------------------------
(***************************************************************************)
(* Theorems about the daemon's side of PipeWire, for any set of devices and *)
(* configurations, any backoff and any attempt length: the recovery        *)
(* schedule (Recovery), the input registry (InputRegistry) and the owner   *)
(* thread that drives both (NativeEngine).                                 *)
(*                                                                         *)
(* Recovery needs to know what a wait may still be; the registry, how a    *)
(* label is made of words; the engine, that a graph serves the input it was *)
(* built for and that a graph that is gone has an attempt scheduled.       *)
(***************************************************************************)
EXTENDS Recovery, NativeEngine, InputRegistry, TLAPS


-----------------------------------------------------------------------------
(***************************************************************************)
(* The recovery schedule.                                                  *)
(***************************************************************************)

\* saturating_add(1) stays within the width of the counter and moves it by at
\* most one.
LEMMA SaturatingIncType ==
    ASSUME NEW max \in Nat, NEW n \in 0..max
    PROVE  /\ SaturatingInc(n, max) \in 0..max
           /\ SaturatingInc(n, max) = max \/ SaturatingInc(n, max) = n + 1
           /\ n <= SaturatingInc(n, max)
           /\ SaturatingInc(n, max) <= n + 1
BY DEF SaturatingInc

\* The capped exponential delay computed by failed is positive and never
\* exceeds MAX_BACKOFF_MS, whatever the attempt number.
LEMMA DelayBounds ==
    ASSUME NEW attempt \in Nat
    PROVE  Delay(attempt) \in 1..MAX_BACKOFF
<1> DEFINE exponent == Least(SaturatingSub(attempt, 1), 6)
<1>1. exponent \in 0..6
  BY DEF Least, SaturatingSub
<1>2. PowersOfTwo[exponent + 1] \in Nat \ {0}
  BY <1>1 DEF PowersOfTwo
<1>3. INITIAL_BACKOFF * PowersOfTwo[exponent + 1] \in Nat \ {0}
  <2> DEFINE p == PowersOfTwo[exponent + 1]
  <2>1. p \in Nat \ {0}
    BY <1>2
  <2> HIDE DEF p
  <2>2. INITIAL_BACKOFF * p \in Nat \ {0}
    BY <2>1, BackoffAssumption
  <2> QED
    BY <2>2 DEF p
<1> HIDE DEF exponent
<1>4. Least(INITIAL_BACKOFF * PowersOfTwo[exponent + 1], MAX_BACKOFF) \in 1..MAX_BACKOFF
  BY <1>3, BackoffAssumption DEF Least
<1> QED
  BY <1>4 DEF Delay, exponent

\* The four invariants together are inductive: the type bound on the wait
\* needs the delay bound, and the counters need to know that an open attempt
\* belongs to an open episode.
Inv == RecoveryTypeOK /\ EpisodeHasFault /\ WaitWithinDelay /\ CountersAgree

LEMMA InitInv == RecoveryInit => Inv
<1> SUFFICES ASSUME RecoveryInit PROVE Inv
  OBVIOUS
<1>1. RecoveryTypeOK
  BY BackoffAssumption, U32Assumption, U64Assumption
  DEF RecoveryInit, RecoveryTypeOK, Idle, Schedule, RecoveryPhase, RecoveryStats, Counter, NoFault
<1>2. EpisodeHasFault /\ WaitWithinDelay
  BY DEF RecoveryInit, EpisodeHasFault, WaitWithinDelay, Idle, NoFault
<1>3. CountersAgree
  BY DEF RecoveryInit, CountersAgree, Idle
<1> QED
  BY <1>1, <1>2, <1>3 DEF Inv

LEMMA NextInv == Inv /\ [RecoveryNext]_recoveryVars => Inv'
<1> SUFFICES ASSUME Inv, [RecoveryNext]_recoveryVars PROVE Inv'
  OBVIOUS
<1> USE BackoffAssumption, U32Assumption, U64Assumption, ElapsedAssumption
<1>t. /\ schedule \in Schedule
      /\ generation \in 0..U64Max
      /\ stats \in RecoveryStats
      /\ EpisodeHasFault
      /\ WaitWithinDelay
      /\ CountersAgree
  BY DEF Inv, RecoveryTypeOK, Counter
<1>d. Delay(schedule.attempt) \in 1..MAX_BACKOFF
  BY <1>t, DelayBounds DEF Schedule
<1>b. \A n \in 0..U64Max : /\ Bump(n) \in 0..U64Max
                           /\ Bump(n) = U64Max \/ Bump(n) = n + 1
                           /\ n <= Bump(n)
                           /\ Bump(n) <= n + 1
  BY SaturatingIncType DEF Bump
<1>1. ASSUME NEW f \in RecoveryFault, Fault(f) PROVE Inv'
  <2>1. RecoveryTypeOK'
    <3>1. schedule' \in Schedule
      <4>1. \/ schedule' = [schedule EXCEPT !.fault = "Core", !.wait = 0]
            \/ schedule' = schedule
            \/ schedule' = [phase |-> "Backoff", fault |-> f, attempt |-> 0, wait |-> 0]
        BY <1>1 DEF Fault, ScheduleFault
      <4>2. [schedule EXCEPT !.fault = "Core", !.wait = 0] \in Schedule
        <5>1. "Core" \in RecoveryFault \cup {NoFault}
          BY DEF RecoveryFault
        <5>2. 0 \in 0..MAX_BACKOFF
          OBVIOUS
        <5> QED
          BY <1>t, <5>1, <5>2 DEF Schedule
      <4>3. [phase |-> "Backoff", fault |-> f, attempt |-> 0, wait |-> 0] \in Schedule
        BY DEF Schedule, RecoveryPhase
      <4> QED
        BY <1>t, <4>1, <4>2, <4>3
    <3>2. generation' \in Counter /\ stats' \in RecoveryStats
      BY <1>1, <1>t, <1>b DEF Fault, RecoveryStats, Counter
    <3> QED
      BY <3>1, <3>2 DEF RecoveryTypeOK
  <2>2. (EpisodeHasFault /\ WaitWithinDelay)'
    BY <1>1, <1>t, <1>d
    DEF Fault, ScheduleFault, EpisodeHasFault, WaitWithinDelay, Schedule, RecoveryPhase,
        RecoveryFault, NoFault
  <2>3. CountersAgree'
    BY <1>1, <1>t, <1>b
    DEF Fault, ScheduleFault, CountersAgree, EpisodeHasFault, Schedule, RecoveryPhase,
        RecoveryStats, Counter
  <2> QED
    BY <2>1, <2>2, <2>3 DEF Inv
<1>2. ASSUME Poll PROVE Inv'
  <2>0. /\ SaturatingInc(schedule.attempt, U32Max) \in 1..U32Max
        /\ Delay(SaturatingInc(schedule.attempt, U32Max)) \in 1..MAX_BACKOFF
    <3>1. SaturatingInc(schedule.attempt, U32Max) \in 1..U32Max
      BY <1>t DEF SaturatingInc, Schedule
    <3> QED
      BY <3>1, DelayBounds
  <2>1. RecoveryTypeOK'
    <3>1. schedule' \in Schedule
      <4> DEFINE next == SaturatingInc(schedule.attempt, U32Max)
      <4>1. schedule' = [schedule EXCEPT !.phase = "Attempting", !.attempt = next]
        BY <1>2 DEF Poll, SchedulePoll
      <4>2. next \in 0..U32Max
        BY <2>0
      <4> HIDE DEF next
      <4> QED
        BY <1>t, <4>1, <4>2 DEF Schedule, RecoveryPhase
    <3>2. generation' \in Counter /\ stats' \in RecoveryStats
      BY <1>2, <1>t, <1>b DEF Poll, RecoveryStats, Counter
    <3> QED
      BY <3>1, <3>2 DEF RecoveryTypeOK
  <2>2. (EpisodeHasFault /\ WaitWithinDelay)'
    BY <1>2, <1>t, <2>0
    DEF Poll, PollDue, SchedulePoll, EpisodeHasFault, WaitWithinDelay, Schedule, RecoveryPhase
  <2>3. CountersAgree'
    BY <1>2, <1>t, <1>b
    DEF Poll, PollDue, SchedulePoll, CountersAgree, Schedule, RecoveryPhase, RecoveryStats, Counter
  <2> QED
    BY <2>1, <2>2, <2>3 DEF Inv
<1>3. ASSUME Recovered PROVE Inv'
  <2>1. RecoveryTypeOK'
    BY <1>3, <1>t, <1>b
    DEF Recovered, ScheduleRecovered, Idle, RecoveryTypeOK, Schedule, RecoveryPhase, RecoveryStats,
        Counter, NoFault
  <2>2. (EpisodeHasFault /\ WaitWithinDelay)'
    BY <1>3 DEF Recovered, ScheduleRecovered, Idle, EpisodeHasFault, WaitWithinDelay, NoFault
  <2>3. CountersAgree'
    BY <1>3, <1>t, <1>b
    DEF Recovered, ScheduleRecovered, Idle, CountersAgree, RecoveryStats, Counter
  <2> QED
    BY <2>1, <2>2, <2>3 DEF Inv
<1>4. ASSUME NEW elapsed \in 0..MaxElapsed, Failed(elapsed) PROVE Inv'
  <2>0. SaturatingSub(Delay(schedule.attempt), elapsed) \in 0..Delay(schedule.attempt)
    BY <1>d DEF SaturatingSub
  <2>1. RecoveryTypeOK'
    <3>1. schedule' \in Schedule
      <4> DEFINE wait == SaturatingSub(Delay(schedule.attempt), elapsed)
      <4>1. schedule' = [schedule EXCEPT !.phase = "Backoff", !.wait = wait]
        BY <1>4 DEF Failed, ScheduleFailed
      <4>2. wait \in 0..MAX_BACKOFF
        BY <2>0, <1>d
      <4> HIDE DEF wait
      <4> QED
        BY <1>t, <4>1, <4>2 DEF Schedule, RecoveryPhase
    <3>2. generation' \in Counter /\ stats' \in RecoveryStats
      BY <1>4, <1>t, <1>b DEF Failed, RecoveryStats, Counter
    <3> QED
      BY <3>1, <3>2 DEF RecoveryTypeOK
  <2>2. (EpisodeHasFault /\ WaitWithinDelay)'
    BY <1>4, <1>t, <1>d, <2>0
    DEF Failed, ScheduleFailed, EpisodeHasFault, WaitWithinDelay, Schedule, RecoveryPhase
  <2>3. CountersAgree'
    BY <1>4, <1>t, <1>b
    DEF Failed, ScheduleFailed, CountersAgree, Schedule, RecoveryPhase, RecoveryStats, Counter
  <2> QED
    BY <2>1, <2>2, <2>3 DEF Inv
<1>5. ASSUME Stop PROVE Inv'
  <2>1. RecoveryTypeOK'
    BY <1>5, <1>t
    DEF Stop, ScheduleStop, Idle, RecoveryTypeOK, Schedule, RecoveryPhase, Counter, NoFault
  <2>2. (EpisodeHasFault /\ WaitWithinDelay)'
    BY <1>5 DEF Stop, ScheduleStop, Idle, EpisodeHasFault, WaitWithinDelay, NoFault
  <2>3. CountersAgree'
    BY <1>5, <1>t DEF Stop, ScheduleStop, Idle, CountersAgree, RecoveryStats, Counter
  <2> QED
    BY <2>1, <2>2, <2>3 DEF Inv
<1>6. ASSUME RecoveryTick PROVE Inv'
  <2>0. SaturatingSub(schedule.wait, 1) = schedule.wait - 1
    BY <1>6, <1>t DEF RecoveryTick, SaturatingSub, Schedule
  <2>1. RecoveryTypeOK'
    BY <1>6, <1>t, <2>0 DEF RecoveryTick, TickDown, RecoveryTypeOK, Schedule, Counter
  <2>2. (EpisodeHasFault /\ WaitWithinDelay)'
    BY <1>6, <1>t, <1>d, <2>0
    DEF RecoveryTick, TickDown, EpisodeHasFault, WaitWithinDelay, Schedule
  <2>3. CountersAgree'
    BY <1>6, <1>t DEF RecoveryTick, TickDown, CountersAgree, Schedule
  <2> QED
    BY <2>1, <2>2, <2>3 DEF Inv
<1>7. CASE UNCHANGED recoveryVars
  BY <1>7, <1>t
  DEF recoveryVars, Inv, RecoveryTypeOK, EpisodeHasFault, WaitWithinDelay, CountersAgree, Counter
<1> QED
  BY <1>1, <1>2, <1>3, <1>4, <1>5, <1>6, <1>7 DEF RecoveryNext

\* The type invariant: no counter leaves its width and no wait exceeds the
\* cap, in every reachable state.
THEOREM TypeCorrect == RecoverySpec => []RecoveryTypeOK
<1>1. Inv => RecoveryTypeOK
  BY DEF Inv
<1> QED
  BY InitInv, NextInv, <1>1, PTL DEF RecoverySpec

\* An episode is open exactly when its fault is recorded, so poll's early
\* return on a missing fault can never strand a Backoff phase.
THEOREM EpisodesHaveFaults == RecoverySpec => []EpisodeHasFault
<1>1. Inv => EpisodeHasFault
  BY DEF Inv
<1> QED
  BY InitInv, NextInv, <1>1, PTL DEF RecoverySpec

\* The first attempt of an episode is immediate and every later one waits at
\* most its capped exponential delay.
THEOREM WaitsAreBounded == RecoverySpec => []WaitWithinDelay
<1>1. Inv => WaitWithinDelay
  BY DEF Inv
<1> QED
  BY InitInv, NextInv, <1>1, PTL DEF RecoverySpec

\* The recovery counters stay consistent with each other and with the graph
\* generation for every order of calls.
THEOREM CountersConsistent == RecoverySpec => []CountersAgree
<1>1. Inv => CountersAgree
  BY DEF Inv
<1> QED
  BY InitInv, NextInv, <1>1, PTL DEF RecoverySpec

\* Repeated reports never postpone the attempt that is already scheduled.
THEOREM ReportsNeverPostpone == RecoverySpec => NeverPostponed
<1> DEFINE Nearer == schedule.phase = "Backoff" /\ schedule'.phase = "Backoff" => schedule'.wait <= schedule.wait
<1>1. Inv /\ [RecoveryNext]_recoveryVars => [Nearer]_recoveryVars
  <2> SUFFICES ASSUME Inv, RecoveryNext PROVE Nearer
    BY DEF recoveryVars
  <2>1. schedule \in Schedule
    BY DEF Inv, RecoveryTypeOK
  <2>2. ASSUME NEW f \in RecoveryFault, Fault(f) PROVE Nearer
    BY <2>1, <2>2, BackoffAssumption DEF Fault, ScheduleFault, Schedule
  <2>3. CASE Poll
    BY <2>1, <2>3 DEF Poll, PollDue, SchedulePoll, Schedule
  <2>4. CASE Recovered \/ \E elapsed \in 0..MaxElapsed : Failed(elapsed)
    BY <2>1, <2>4 DEF Recovered, ScheduleRecovered, Idle, Failed
  <2>5. CASE Stop
    BY <2>5 DEF Stop, ScheduleStop, Idle
  <2>6. CASE RecoveryTick
    BY <2>1, <2>6, BackoffAssumption DEF RecoveryTick, TickDown, SaturatingSub, Schedule
  <2> QED
    BY <2>2, <2>3, <2>4, <2>5, <2>6 DEF RecoveryNext
<1> QED
  BY InitInv, NextInv, <1>1, PTL DEF RecoverySpec, NeverPostponed

\* A Core fault keeps its classification until the episode ends.
THEOREM CoreFaultSticks == RecoverySpec => CoreSticky
<1> DEFINE Sticks == schedule.fault = "Core" /\ schedule'.phase # "Healthy" => schedule'.fault = "Core"
<1>1. Inv /\ [RecoveryNext]_recoveryVars => [Sticks]_recoveryVars
  <2> SUFFICES ASSUME Inv, RecoveryNext PROVE Sticks
    BY DEF recoveryVars
  <2>1. schedule \in Schedule /\ EpisodeHasFault
    BY DEF Inv, RecoveryTypeOK
  <2>2. ASSUME NEW f \in RecoveryFault, Fault(f) PROVE Sticks
    BY <2>1, <2>2 DEF Fault, ScheduleFault, Schedule, EpisodeHasFault, NoFault
  <2>3. CASE Poll
    BY <2>1, <2>3 DEF Poll, PollDue, SchedulePoll, Schedule
  <2>4. ASSUME NEW elapsed \in 0..MaxElapsed, Failed(elapsed) PROVE Sticks
    BY <2>1, <2>4 DEF Failed, ScheduleFailed, Schedule
  <2>5. CASE Recovered
    BY <2>5 DEF Recovered, ScheduleRecovered, Idle
  <2>6. CASE Stop
    BY <2>6 DEF Stop, ScheduleStop, Idle
  <2>7. CASE RecoveryTick
    BY <2>1, <2>7 DEF RecoveryTick, TickDown, Schedule
  <2> QED
    BY <2>2, <2>3, <2>4, <2>5, <2>6, <2>7 DEF RecoveryNext
<1> QED
  BY InitInv, NextInv, <1>1, PTL DEF RecoverySpec, CoreSticky

-----------------------------------------------------------------------------
(***************************************************************************)
(* The registry monitor's window.                                          *)
(***************************************************************************)
\* While a change waits for its window to end, the view is behind for no longer
\* than the change has waited; else it is not behind at all.
WindowInv ==
    /\ dirty \in {Nothing} \cup 0 .. WINDOW
    /\ behind \in Nat
    /\ dirty = Nothing => view = Snapshot(nodes, defaultName) /\ behind = 0
    /\ dirty # Nothing => behind <= dirty

LEMMA EventKeepsWindow ==
    ASSUME WindowInv, MarkDirty, Behind(0)
    PROVE  WindowInv'
<1>1. WINDOW \in Nat \ {0} /\ Nothing \notin Nat
    BY RegistryAssumption
<1>2. behind \in Nat /\ behind' \in {0, behind + 0}
    BY DEF WindowInv, Behind
<1>3. CASE dirty = Nothing
    BY <1>1, <1>2, <1>3 DEF WindowInv, MarkDirty
<1>4. CASE dirty # Nothing
    BY <1>1, <1>2, <1>4 DEF WindowInv, MarkDirty
<1> QED BY <1>3, <1>4

LEMMA WindowStep ==
    ASSUME WindowInv, [RegistryNext]_registryVars
    PROVE  WindowInv'
<1>1. WINDOW \in Nat \ {0} /\ Nothing \notin Nat
    BY RegistryAssumption
<1>2. ASSUME NEW id \in Id, NEW p \in Reported, Announce(id, p) \/ Inform(id, p)
      PROVE  WindowInv'
    BY <1>2, EventKeepsWindow DEF Announce, Inform, Upsert, Event
<1>3. ASSUME NEW id \in Id, Remove(id)
      PROVE  WindowInv'
    BY <1>3, EventKeepsWindow DEF Remove, Event
<1>4. ASSUME NEW name, SetDefaultNodeName(name)
      PROVE  WindowInv'
    BY <1>4, EventKeepsWindow DEF SetDefaultNodeName, Event
<1>5. CASE PublishNow \/ PublishIfDue
    <2>1. dirty' = Nothing /\ behind' = 0 /\ nodes' = nodes /\ defaultName' = defaultName
          /\ view' = Snapshot(nodes, defaultName)
        BY <1>5 DEF PublishNow, PublishIfDue
    <2>2. view' = Snapshot(nodes', defaultName')
        BY <2>1
    <2> QED BY <2>1, <2>2 DEF WindowInv
<1>6. CASE Elapse
    <2>1. dirty \in Nat /\ dirty < WINDOW /\ dirty' = dirty + 1 /\ behind \in Nat /\ behind <= dirty
        BY <1>1, <1>6 DEF Elapse, Due, WindowInv
    <2>2. behind' \in {0, behind + 1}
        BY <1>6 DEF Elapse, Behind
    <2> QED BY <1>1, <2>1, <2>2 DEF WindowInv
<1>7. CASE UNCHANGED registryVars
    <2>1. /\ dirty' = dirty /\ behind' = behind /\ view' = view
          /\ nodes' = nodes /\ defaultName' = defaultName
        BY <1>7 DEF registryVars
    <2>2. Snapshot(nodes, defaultName)' = Snapshot(nodes, defaultName)
        BY <2>1 DEF Snapshot, Candidates
    <2> QED BY <2>1, <2>2 DEF WindowInv
<1> QED BY <1>2, <1>3, <1>4, <1>5, <1>6, <1>7 DEF RegistryNext

\* PublishedInTime: what a client sees of the devices is never out of date for
\* longer than the coalescing window, whatever comes and goes.
THEOREM SnapshotsInTime == RegistrySpec => []PublishedInTime
<1>1. RegistryInit => WindowInv
    BY RegistryAssumption DEF RegistryInit, WindowInv
<1>2. WindowInv /\ [RegistryNext]_registryVars => WindowInv'
    BY WindowStep
<1>3. WindowInv => PublishedInTime
    BY RegistryAssumption DEF WindowInv, PublishedInTime
<1> QED BY <1>1, <1>2, <1>3, PTL DEF RegistrySpec
-----------------------------------------------------------------------------
(***************************************************************************)
(* The choice of an input.                                                 *)
(***************************************************************************)
\* What is known of a node is what some node may report, or the announced part.
Heard == Reported \cup {Announced(p) : p \in Reported}
Known == {known \in [Id -> Maybe({FromProperties(i, p) : i \in Id, p \in Heard})] :
            \A i \in Id : known[i] # Nothing => \E p \in Heard : known[i] = FromProperties(i, p)}

\* The view is the snapshot of some registry and of some default.
ViewInv ==
    /\ nodes \in Known
    /\ \E known \in Known : \E default : view = Snapshot(known, default)

LEMMA HeardProperties ==
    ASSUME NEW p \in Heard
    PROVE  /\ p \in Properties
           /\ \E q \in Reported : p.name = q.name /\ p.description = q.description /\ p.nick = q.nick
<1>1. CASE p \in Reported
    BY <1>1, ReportedAssumption
<1>2. ASSUME NEW q \in Reported, p = Announced(q)
      PROVE  /\ p \in Properties
             /\ p.name = q.name /\ p.description = q.description /\ p.nick = q.nick
    <2>1. q \in Properties
        BY ReportedAssumption
    <2> QED BY <1>2, <2>1 DEF Announced, Properties, Maybe
<1> QED BY <1>1, <1>2 DEF Heard

LEMMA EnterNode ==
    ASSUME NEW known \in Known, NEW i \in Id, NEW p \in Heard
    PROVE  [known EXCEPT ![i] = FromProperties(i, p)] \in Known
<1> DEFINE All == {FromProperties(j, q) : j \in Id, q \in Heard}
<1>1. FromProperties(i, p) \in All
    OBVIOUS
<1> HIDE DEF All
<1>2. known \in [Id -> Maybe(All)]
    BY DEF Known, All
<1> DEFINE new == [known EXCEPT ![i] = FromProperties(i, p)]
<1>3. new \in [Id -> Maybe(All)]
    BY <1>1, <1>2 DEF Maybe
<1>4. ASSUME NEW j \in Id, new[j] # Nothing
      PROVE  \E q \in Heard : new[j] = FromProperties(j, q)
    <2>1. CASE j = i
        BY <1>2, <2>1
    <2>2. CASE j # i
        BY <1>2, <1>4, <2>2 DEF Known
    <2> QED BY <2>1, <2>2
<1> QED BY <1>3, <1>4 DEF Known, All

LEMMA DropNode ==
    ASSUME NEW known \in Known, NEW i \in Id
    PROVE  [known EXCEPT ![i] = Nothing] \in Known
<1> DEFINE All == {FromProperties(j, q) : j \in Id, q \in Heard}
<1> HIDE DEF All
<1>1. known \in [Id -> Maybe(All)]
    BY DEF Known, All
<1> DEFINE new == [known EXCEPT ![i] = Nothing]
<1>2. new \in [Id -> Maybe(All)]
    BY <1>1 DEF Maybe
<1>3. ASSUME NEW j \in Id, new[j] # Nothing
      PROVE  \E q \in Heard : new[j] = FromProperties(j, q)
    BY <1>1, <1>3 DEF Known
<1> QED BY <1>2, <1>3 DEF Known, All

LEMMA PresentKnown == Present \subseteq Known
<1> SUFFICES ASSUME NEW known \in Present PROVE known \in Known
    OBVIOUS
<1> DEFINE All == {FromProperties(j, q) : j \in Id, q \in Heard}
           Some == {FromProperties(j, q) : j \in Id, q \in Reported}
<1>1. Some \subseteq All
    BY DEF Heard
<1>2. known \in [Id -> Maybe(Some)]
    BY PresentAssumption
<1>3. \A i \in Id : known[i] # Nothing => \E p \in Heard : known[i] = FromProperties(i, p)
    BY PresentAssumption DEF Heard
<1> HIDE DEF All, Some
<1>4. known \in [Id -> Maybe(All)]
    BY <1>1, <1>2 DEF Maybe
<1> QED BY <1>3, <1>4 DEF Known, All

LEMMA ViewStep ==
    ASSUME ViewInv, [RegistryNext]_registryVars
    PROVE  ViewInv'
<1>1. ASSUME NEW id \in Id, NEW p \in Reported, Announce(id, p) \/ Inform(id, p)
      PROVE  nodes' \in Known /\ view' = view
    <2>1. p \in Heard /\ Announced(p) \in Heard
        BY DEF Heard
    <2> QED BY <1>1, <2>1, EnterNode DEF Announce, Inform, Upsert, Event, ViewInv
<1>2. ASSUME NEW id \in Id, Remove(id)
      PROVE  nodes' \in Known /\ view' = view
    BY <1>2, DropNode DEF Remove, Event, ViewInv
<1>3. ASSUME NEW name, SetDefaultNodeName(name)
      PROVE  nodes' \in Known /\ view' = view
    BY <1>3 DEF SetDefaultNodeName, Event, ViewInv
<1>4. CASE PublishNow \/ PublishIfDue
    BY <1>4 DEF PublishNow, PublishIfDue, ViewInv
<1>5. CASE Elapse
    BY <1>5 DEF Elapse, ViewInv
<1>6. CASE UNCHANGED registryVars
    BY <1>6 DEF registryVars, ViewInv
<1>7. nodes' \in Known /\ view' = view => ViewInv'
    BY DEF ViewInv
<1> QED BY <1>1, <1>2, <1>3, <1>4, <1>5, <1>6, <1>7 DEF RegistryNext

\* What is listed: an eligible node under its name, which no other one has.
LEMMA ListedOnce ==
    ASSUME NEW known \in Known
    PROVE  /\ \A n \in Candidates(known) :
                 \E i \in Id, p \in Heard : n = FromProperties(i, p) /\ n = known[i] /\ IsCandidate(n)
           /\ \A n, m \in Candidates(known) : n.properties.name = m.properties.name => n = m
<1> DEFINE eligible == {known[i] : i \in {j \in Id : known[j] # Nothing /\ IsCandidate(known[j])}}
<1>1. Candidates(known) = {n \in eligible : \A m \in eligible :
                             m.properties.name = n.properties.name => n.id <= m.id}
    BY DEF Candidates
<1>2. ASSUME NEW n \in eligible
      PROVE  \E i \in Id, p \in Heard : n = FromProperties(i, p) /\ n = known[i] /\ IsCandidate(n)
    <2>1. PICK i \in Id : known[i] # Nothing /\ IsCandidate(known[i]) /\ n = known[i]
        BY <1>2
    <2>2. PICK p \in Heard : known[i] = FromProperties(i, p)
        BY <2>1 DEF Known
    <2> QED BY <2>1, <2>2
<1>3. ASSUME NEW n \in Candidates(known), NEW m \in Candidates(known),
             n.properties.name = m.properties.name
      PROVE  n = m
    <2>1. n \in eligible /\ m \in eligible /\ n.id <= m.id /\ m.id <= n.id
        BY <1>1, <1>3
    <2> HIDE DEF eligible
    <2>2. PICK i \in Id, p \in Heard : n = FromProperties(i, p) /\ n = known[i]
        BY <2>1, <1>2
    <2>3. PICK j \in Id, q \in Heard : m = FromProperties(j, q) /\ m = known[j]
        BY <2>1, <1>2
    <2>4. n.id = i /\ m.id = j
        BY <2>2, <2>3 DEF FromProperties
    <2>5. i = j
        BY <2>1, <2>4, RegistryAssumption
    <2> QED BY <2>2, <2>3, <2>5
<1> QED BY <1>1, <1>2, <1>3

\* The entries of a snapshot: one for each name, each with a candidate's properties.
Entry(n, all, default) ==
    [id |-> n.id, properties |-> n.properties, label |-> Qualified(n, all),
     is_default |-> n.properties.name = default]

LEMMA SnapshotEntries ==
    ASSUME NEW known \in Known, NEW default
    PROVE  /\ Snapshot(known, default) =
                {Entry(n, Candidates(known), default) : n \in Candidates(known)}
           /\ \A c \in Snapshot(known, default) :
                 \E n \in Candidates(known) : /\ c = Entry(n, Candidates(known), default)
                                             /\ c.properties = n.properties /\ c.id = n.id
                                             /\ c.label = Qualified(n, Candidates(known))
                                             /\ c.is_default = (n.properties.name = default)
<1>1. Snapshot(known, default) =
        {Entry(n, Candidates(known), default) : n \in Candidates(known)}
    BY DEF Snapshot, Entry
<1>2. ASSUME NEW n
      PROVE  LET c == Entry(n, Candidates(known), default)
             IN  /\ c.properties = n.properties /\ c.id = n.id
                 /\ c.label = Qualified(n, Candidates(known))
                 /\ c.is_default = (n.properties.name = default)
    BY DEF Entry
<1> QED BY <1>1, <1>2

LEMMA ListedWords ==
    ASSUME NEW p \in Properties, NEW i
    PROVE  FromProperties(i, p).label \in Label /\ p.description \in Label /\ <<p.name>> \in Label
<1>1. /\ p.description \in Seq(STRING) /\ p.nick \in Seq(STRING)
      /\ p.name \in Maybe(STRING)
    BY DEF Properties
<1>2. p.description \in Label /\ p.nick \in Label
    BY <1>1 DEF Maybe, Label
<1>3. <<p.name>> \in Label
    BY <1>1 DEF Label
<1>4. PreferredLabel(p) \in {p.description, p.nick, <<p.name>>}
    BY DEF PreferredLabel
<1> QED BY <1>2, <1>3, <1>4 DEF FromProperties

LEMMA QualifierWords ==
    ASSUME NEW known \in Known, NEW n \in Candidates(known)
    PROVE  /\ n.properties \in Properties /\ n.id \in Id /\ n.label \in Label
           /\ DescriptiveQualifier(n) \in Label
           /\ Qualified(n, Candidates(known)) \in Label
<1>1. PICK i \in Id, p \in Heard : n = FromProperties(i, p)
    BY ListedOnce
<1>2. p \in Properties
    BY HeardProperties
<1>3. n.properties = p /\ n.id = i
    BY <1>1 DEF FromProperties
<1> DEFINE d == p.description
           S == Maybe(STRING) \cup {"-"}
           q == DescriptiveQualifier(n)
           l == n.label
<1>4. l \in Seq(S) /\ d \in Seq(S) /\ <<p.name>> \in Seq(S)
    BY <1>1, <1>2, ListedWords DEF Label
<1>5. p.name \in S /\ "-" \in S
    BY <1>2 DEF Properties
<1>6. q \in {<<p.name>>, Suffix(d, l), d}
    BY <1>3 DEF DescriptiveQualifier
<1>7. Qualified(n, Candidates(known)) \in {l, l \o <<"-", p.name>>, l \o <<"-">> \o q}
    BY <1>3 DEF Qualified
<1> HIDE DEF S, q, d, l
<1>8. Suffix(d, l) \in Seq(S)
    BY <1>4 DEF Suffix
<1>9. q \in Seq(S)
    BY <1>4, <1>6, <1>8
<1>10. <<"-", p.name>> \in Seq(S) /\ <<"-">> \in Seq(S)
    BY <1>5
<1>11. l \o <<"-", p.name>> \in Seq(S)
    BY <1>4, <1>10
<1>12. l \o <<"-">> \in Seq(S)
    BY <1>4, <1>10
<1>13. l \o <<"-">> \o q \in Seq(S)
    BY <1>9, <1>12
<1>14. Qualified(n, Candidates(known)) \in Seq(S)
    BY <1>4, <1>7, <1>11, <1>13
<1> QED BY <1>2, <1>3, <1>4, <1>9, <1>14 DEF S, q, l, Label

\* The entries of a view: candidates, told apart by their names, and not Nothing.
LEMMA ViewEntries ==
    ASSUME NEW known \in Known, NEW default, NEW shown, shown = Snapshot(known, default)
    PROVE  /\ \A c \in shown : c # Nothing /\ IsCandidate(c) /\ c.properties \in Properties
           /\ \A c, e \in shown : c.properties.name = e.properties.name => c = e
<1> DEFINE all == Candidates(known)
<1>1. \A c \in shown : \E n \in all : /\ c = Entry(n, all, default)
                                     /\ c.properties = n.properties /\ c.id = n.id
    BY SnapshotEntries
<1>2. ASSUME NEW c \in shown
      PROVE  c # Nothing /\ IsCandidate(c) /\ c.properties \in Properties
    <2>1. PICK n \in all : c = Entry(n, all, default) /\ c.properties = n.properties
        BY <1>1
    <2>2. n.properties \in Properties /\ n.id \in Id /\ Qualified(n, all) \in Label /\ IsCandidate(n)
        BY QualifierWords, ListedOnce
    <2>3. Entry(n, all, default) \in
              [id : Id, properties : Properties, label : Label, is_default : BOOLEAN]
        BY <2>2 DEF Entry
    <2>4. c # Nothing
        BY <2>1, <2>3, NothingAssumption
    <2>5. IsCandidate(c)
        BY <2>1, <2>2 DEF IsCandidate
    <2> QED BY <2>1, <2>2, <2>4, <2>5
<1>3. ASSUME NEW c \in shown, NEW e \in shown, c.properties.name = e.properties.name
      PROVE  c = e
    <2>1. PICK n \in all : c = Entry(n, all, default) /\ c.properties = n.properties
        BY <1>1
    <2>2. PICK m \in all : e = Entry(m, all, default) /\ e.properties = m.properties
        BY <1>1
    <2>3. n = m
        BY <1>3, <2>1, <2>2, ListedOnce
    <2> QED BY <2>1, <2>2, <2>3
<1> QED BY <1>2, <1>3

\* A selector finds at most one entry, and the input is that one or the default.
LEMMA Resolution ==
    ASSUME NEW shown, NEW policy,
           \A c \in shown : c # Nothing,
           \A c, e \in shown : c.properties.name = e.properties.name => c = e
    PROVE  LET found == Resolved(shown, policy).input
               wanted == {c \in shown : policy.selector # Nothing
                                        /\ Matches(policy.selector, c.properties)}
           IN  /\ \A c \in wanted : found = c
               /\ found # Nothing =>
                     \/ found \in wanted
                     \/ /\ found \in shown /\ found.is_default
                        /\ IF policy.selector = Nothing THEN policy.follow_default
                           ELSE policy.fallback_to_default
<1> DEFINE found == Resolved(shown, policy).input
           wanted == {c \in shown : policy.selector # Nothing
                                    /\ Matches(policy.selector, c.properties)}
           defaults == {c \in shown : c.is_default}
           allowed == IF policy.selector = Nothing THEN policy.follow_default
                      ELSE policy.fallback_to_default
           one == CHOOSE c \in wanted : TRUE
           def == CHOOSE c \in defaults : TRUE
<1>1. CASE wanted # {}
    <2>1. found = one
        BY <1>1 DEF Resolved
    <2>2. one \in wanted
        BY <1>1
    <2>3. ASSUME NEW c \in wanted PROVE c = one
        <3>1. c.properties.name = policy.selector.name /\ one.properties.name = policy.selector.name
              /\ c \in shown /\ one \in shown
            BY <2>2, <2>3 DEF Matches
        <3> QED BY <3>1
    <2> QED BY <2>1, <2>2, <2>3
<1>2. CASE wanted = {} /\ allowed /\ defaults # {}
    <2>1. found = def
        BY <1>2 DEF Resolved
    <2>2. def \in defaults
        BY <1>2
    <2> QED BY <1>2, <2>1, <2>2
<1>3. CASE wanted = {} /\ (~allowed \/ defaults = {})
    <2>1. found = Nothing
        BY <1>3 DEF Resolved
    <2> QED BY <1>3, <2>1
<1> QED BY <1>1, <1>2, <1>3

LEMMA StoredChoiceHolds ==
    ASSUME ViewInv
    PROVE  StoredChoice
<1>1. PICK known \in Known : \E default : view = Snapshot(known, default)
    BY DEF ViewInv
<1>2. PICK default : view = Snapshot(known, default)
    BY <1>1
<1>3. /\ \A c \in view : c # Nothing /\ IsCandidate(c)
      /\ \A c, e \in view : c.properties.name = e.properties.name => c = e
    BY <1>2, ViewEntries
<1> SUFFICES
        ASSUME NEW policy \in Policies
        PROVE  LET found == Resolved(view, policy).input
                   chosen == {c \in view : policy.selector # Nothing
                                           /\ SelectorOf(c.properties) = policy.selector}
               IN  /\ chosen # {} => found \in chosen
                   /\ found # Nothing =>
                         /\ IsCandidate(found)
                         /\ \/ found.is_default
                               /\ (policy.fallback_to_default \/ policy.selector = Nothing)
                            \/ /\ policy.selector # Nothing
                               /\ found.properties.name = policy.selector.name
                               /\ policy.selector.serial \in {Nothing, found.properties.serial}
    BY DEF StoredChoice
<1> DEFINE found == Resolved(view, policy).input
           selector == policy.selector
           wanted == {c \in view : policy.selector # Nothing
                                   /\ Matches(policy.selector, c.properties)}
           chosen == {c \in view : policy.selector # Nothing
                                   /\ SelectorOf(c.properties) = policy.selector}
<1>4. /\ \A c \in wanted : found = c
      /\ found # Nothing =>
            \/ found \in wanted
            \/ /\ found \in view /\ found.is_default
               /\ IF policy.selector = Nothing THEN policy.follow_default
                  ELSE policy.fallback_to_default
    BY <1>3, Resolution
<1>5. ASSUME NEW c \in chosen PROVE c \in wanted
    <2>1. c \in view /\ selector # Nothing /\ selector = SelectorOf(c.properties)
        BY <1>5
    <2>2. selector.name = c.properties.name /\ selector.serial = c.properties.serial
          /\ selector.device = c.properties.device
        BY <2>1 DEF SelectorOf
    <2>3. Matches(selector, c.properties)
        BY <2>2 DEF Matches
    <2> QED BY <2>1, <2>3
<1>6. chosen # {} => found \in chosen
    BY <1>4, <1>5
<1>7. ASSUME found \in wanted
      PROVE  /\ selector # Nothing /\ found \in view
             /\ found.properties.name = selector.name
             /\ selector.serial \in {Nothing, found.properties.serial}
    BY <1>7 DEF Matches
<1> HIDE DEF found, wanted, chosen
<1> QED BY <1>3, <1>4, <1>6, <1>7 DEF selector, found, chosen

\* StoredChoice: a stored choice never becomes another device without the
\* permission to fall back, is found whenever it is listed, and Noire's own
\* source or a monitor is never the input.
THEOREM ChoiceIsExact == RegistrySpec => []StoredChoice
<1>1. RegistryInit => ViewInv
    BY PresentKnown DEF RegistryInit, ViewInv
<1>2. ViewInv /\ [RegistryNext]_registryVars => ViewInv'
    BY ViewStep
<1>3. ViewInv => StoredChoice
    BY StoredChoiceHolds
<1> QED BY <1>1, <1>2, <1>3, PTL DEF RegistrySpec

LEMMA SameText ==
    ASSUME NEW S, NEW a \in Seq(S), NEW c \in Seq(S), Len(a) = Len(c),
           \A i \in 1 .. Len(a) : a[i] = c[i]
    PROVE  a = c
OBVIOUS

\* A text is cut at its first dash in one way only.
LEMMA CutAtDash ==
    ASSUME NEW S, NEW dash, NEW a \in Seq(S), NEW b \in Seq(S), NEW c \in Seq(S), NEW d \in Seq(S),
           dash \in S, dash \notin Words(a), dash \notin Words(c),
           a \o <<dash>> \o b = c \o <<dash>> \o d
    PROVE  a = c /\ b = d
<1> DEFINE x == a \o <<dash>> \o b
           y == c \o <<dash>> \o d
<1>1. /\ Len(x) = Len(a) + 1 + Len(b)
      /\ \A i \in 1 .. Len(a) : x[i] = a[i]
      /\ x[Len(a) + 1] = dash
      /\ \A i \in 1 .. Len(b) : x[Len(a) + 1 + i] = b[i]
    OBVIOUS
<1>2. /\ Len(y) = Len(c) + 1 + Len(d)
      /\ \A i \in 1 .. Len(c) : y[i] = c[i]
      /\ y[Len(c) + 1] = dash
      /\ \A i \in 1 .. Len(d) : y[Len(c) + 1 + i] = d[i]
    OBVIOUS
<1>3. x = y
    OBVIOUS
<1>4. Len(a) \in Nat /\ Len(b) \in Nat /\ Len(c) \in Nat /\ Len(d) \in Nat
    OBVIOUS
<1>5. (\A i \in 1 .. Len(a) : a[i] # dash) /\ (\A i \in 1 .. Len(c) : c[i] # dash)
    BY DEF Words
<1> HIDE DEF x, y
<1>6. Len(a) = Len(c)
    <2>1. CASE Len(a) < Len(c)
        <3>1. Len(a) + 1 \in 1 .. Len(c)
            BY <1>4, <2>1
        <3> QED BY <1>1, <1>2, <1>3, <1>5, <3>1
    <2>2. CASE Len(c) < Len(a)
        <3>1. Len(c) + 1 \in 1 .. Len(a)
            BY <1>4, <2>2
        <3> QED BY <1>1, <1>2, <1>3, <1>5, <3>1
    <2> QED BY <1>4, <2>1, <2>2
<1>7. \A i \in 1 .. Len(a) : a[i] = c[i]
    BY <1>1, <1>2, <1>3, <1>6
<1>8. Len(b) = Len(d)
    BY <1>1, <1>2, <1>3, <1>4, <1>6
<1>9. \A i \in 1 .. Len(b) : b[i] = d[i]
    BY <1>1, <1>2, <1>3, <1>6, <1>8
<1> QED BY <1>6, <1>7, <1>8, <1>9, SameText

\* A text with a dash in it is not one without.
LEMMA DashIsSeen ==
    ASSUME NEW S, NEW dash, NEW a \in Seq(S), NEW b \in Seq(S), NEW c \in Seq(S),
           dash \in S, dash \notin Words(c)
    PROVE  c # a \o <<dash>> \o b
<1>1. Len(a) + 1 \in 1 .. Len(a \o <<dash>> \o b) /\ (a \o <<dash>> \o b)[Len(a) + 1] = dash
    OBVIOUS
<1>2. \A i \in 1 .. Len(c) : c[i] # dash
    BY DEF Words
<1> QED BY <1>1, <1>2

\* Without a dash in any text, a label as preferred has none, and a qualifier
\* that names another node cannot be.
LEMMA LabelWords ==
    ASSUME WordsApart, NEW known \in Known, NEW n \in Candidates(known)
    PROVE  /\ "-" \notin Words(n.label)
           /\ \A m \in Candidates(known) :
                 <<m.properties.name>> = DescriptiveQualifier(n) => m = n
<1>1. PICK i \in Id, p \in Heard : n = FromProperties(i, p)
    BY ListedOnce
<1>2. PICK q \in Reported : p.name = q.name /\ p.description = q.description /\ p.nick = q.nick
    BY HeardProperties
<1>3. n.properties = p /\ n.label = PreferredLabel(p)
    BY <1>1 DEF FromProperties
<1>4. "-" \notin Words(n.label)
    <2>1. PreferredLabel(p) \in {p.description, p.nick, <<p.name>>}
        BY DEF PreferredLabel
    <2>2. /\ p.name # "-" /\ "-" \notin Words(p.description) /\ "-" \notin Words(p.nick)
        BY <1>2 DEF WordsApart
    <2>3. Words(<<p.name>>) = {p.name}
        BY DEF Words
    <2> QED BY <1>3, <2>1, <2>2, <2>3
<1>5. ASSUME NEW m \in Candidates(known), <<m.properties.name>> = DescriptiveQualifier(n)
      PROVE  m = n
    <2> DEFINE d == p.description
               l == n.label
    <2>1. DescriptiveQualifier(n) \in {<<p.name>>, Suffix(d, l), d}
          /\ (DescriptiveQualifier(n) = Suffix(d, l) =>
                \/ DescriptiveQualifier(n) \in {<<p.name>>, d}
                \/ Extends(d, l))
        BY <1>3 DEF DescriptiveQualifier
    <2>2. PICK j \in Id, r \in Heard : m = FromProperties(j, r)
        BY ListedOnce
    <2>3. PICK t \in Reported : r.name = t.name
        BY HeardProperties
    <2>4. m.properties.name = t.name
        BY <2>2, <2>3 DEF FromProperties
    <2>5. t.name \notin Words(d)
        BY <1>2 DEF WordsApart
    <2>6. d \in Seq(STRING) /\ l \in Label
        BY <1>1, HeardProperties, ListedWords DEF Properties
    <2>7. CASE DescriptiveQualifier(n) = <<p.name>>
        <3>1. m.properties.name = n.properties.name
            BY <1>3, <1>5, <2>7
        <3> QED BY <3>1, ListedOnce
    <2>8. CASE DescriptiveQualifier(n) = d
        <3>1. d = <<t.name>>
            BY <1>5, <2>4, <2>8
        <3>2. 1 \in DOMAIN d /\ d[1] = t.name
            BY <3>1
        <3> QED BY <2>5, <3>2 DEF Words
    <2>9. CASE DescriptiveQualifier(n) = Suffix(d, l) /\ Extends(d, l)
        <3>1. Len(l) \in Nat /\ Len(d) \in Nat /\ Len(l) < Len(d)
            BY <2>6, <2>9 DEF Extends, Label
        <3>2. Suffix(d, l)[1] = d[Len(l) + 1]
            BY <2>6, <3>1 DEF Suffix
        <3>3. d[Len(l) + 1] = t.name
            BY <1>5, <2>4, <2>9, <3>2
        <3>4. Len(l) + 1 \in DOMAIN d
            BY <2>6, <3>1
        <3> QED BY <2>5, <3>3, <3>4 DEF Words
    <2> QED BY <2>1, <2>7, <2>8, <2>9
<1> QED BY <1>4, <1>5

LEMMA TwoWords ==
    ASSUME NEW S, NEW a \in Seq(S), NEW x \in S, NEW y \in S
    PROVE  a \o <<x, y>> = a \o <<x>> \o <<y>>
<1> DEFINE one == a \o <<x, y>>
           two == a \o <<x>> \o <<y>>
<1>1. /\ one \in Seq(S) /\ Len(one) = Len(a) + 2
      /\ \A i \in 1 .. Len(a) : one[i] = a[i]
      /\ one[Len(a) + 1] = x /\ one[Len(a) + 2] = y
    OBVIOUS
<1>2. /\ two \in Seq(S) /\ Len(two) = Len(a) + 2
      /\ \A i \in 1 .. Len(a) : two[i] = a[i]
      /\ two[Len(a) + 1] = x /\ two[Len(a) + 2] = y
    OBVIOUS
<1> HIDE DEF one, two
<1>3. \A i \in 1 .. Len(one) : one[i] = two[i]
    BY <1>1, <1>2
<1>4. one = two
    BY <1>1, <1>2, <1>3, SameText
<1> QED BY <1>4 DEF one, two

LEMMA LabelsApart ==
    ASSUME WordsApart, NEW known \in Known,
           NEW n \in Candidates(known), NEW m \in Candidates(known),
           Qualified(n, Candidates(known)) = Qualified(m, Candidates(known))
    PROVE  n = m
<1> SUFFICES ASSUME n # m PROVE FALSE
    OBVIOUS
<1> DEFINE all == Candidates(known)
           S == Maybe(STRING) \cup {"-"}
           same(k) == {e \in all \ {k} : e.label = k.label}
           taken(k) == \E e \in same(k) : DescriptiveQualifier(e) = DescriptiveQualifier(k)
           rest(k) == IF taken(k) THEN <<k.properties.name>> ELSE DescriptiveQualifier(k)
<1>1. "-" \in S
    OBVIOUS
<1>2. ASSUME NEW k \in all
      PROVE  /\ k.label \in Seq(S) /\ "-" \notin Words(k.label) /\ rest(k) \in Seq(S)
             /\ same(k) = {} => Qualified(k, all) = k.label
             /\ same(k) # {} => Qualified(k, all) = k.label \o <<"-">> \o rest(k)
    <2>1. /\ k.label \in Seq(S) /\ DescriptiveQualifier(k) \in Seq(S)
          /\ k.properties.name \in Maybe(STRING)
        BY QualifierWords DEF Label, Properties
    <2>2. <<k.properties.name>> \in Seq(S)
        BY <2>1
    <2>3. rest(k) \in Seq(S)
        BY <2>1, <2>2
    <2>4. same(k) = {} => Qualified(k, all) = k.label
        BY DEF Qualified
    <2>5. CASE same(k) # {} /\ taken(k)
        <3>1. Qualified(k, all) = k.label \o <<"-", k.properties.name>>
            BY <2>5 DEF Qualified
        <3>2. k.label \o <<"-", k.properties.name>> = k.label \o <<"-">> \o <<k.properties.name>>
            <4> DEFINE a == k.label
                       x == "-"
                       y == k.properties.name
            <4>1. a \in Seq(S) /\ x \in S /\ y \in S
                BY <2>1
            <4> HIDE DEF S, a, x, y
            <4>2. a \o <<x, y>> = a \o <<x>> \o <<y>>
                BY <4>1, TwoWords
            <4> QED BY <4>2 DEF a, x, y
        <3> QED BY <1>2, <2>1, <2>3, <2>4, <2>5, <3>1, <3>2, LabelWords
    <2>6. CASE same(k) # {} /\ ~taken(k)
        <3>1. Qualified(k, all) = k.label \o <<"-">> \o DescriptiveQualifier(k)
            BY <2>6 DEF Qualified
        <3> QED BY <1>2, <2>1, <2>3, <2>4, <2>6, <3>1, LabelWords
    <2> QED BY <1>2, <2>1, <2>3, <2>4, <2>5, <2>6, LabelWords
<1>3. ASSUME n.label = m.label
      PROVE  same(n) # {} /\ same(m) # {}
    BY <1>3
<1>4. n.label = m.label /\ rest(n) = rest(m)
    <2> DEFINE ln == n.label
               lm == m.label
               rn == rest(n)
               rm == rest(m)
               qn == Qualified(n, all)
               qm == Qualified(m, all)
    <2>1. /\ ln \in Seq(S) /\ "-" \notin Words(ln) /\ rn \in Seq(S)
          /\ lm \in Seq(S) /\ "-" \notin Words(lm) /\ rm \in Seq(S)
        BY <1>2
    <2>2. /\ same(n) = {} => qn = ln
          /\ same(n) # {} => qn = ln \o <<"-">> \o rn
          /\ same(m) = {} => qm = lm
          /\ same(m) # {} => qm = lm \o <<"-">> \o rm
        BY <1>2
    <2>3. qn = qm
        OBVIOUS
    <2>4. ln = lm => same(n) # {} /\ same(m) # {}
        BY <1>3
    <2> HIDE DEF S, same, ln, lm, rn, rm, qn, qm
    <2>5. ln = lm /\ rn = rm
        <3>1. CASE same(n) # {} /\ same(m) # {}
            BY <1>1, <2>1, <2>2, <2>3, <3>1, CutAtDash
        <3>2. CASE same(n) = {} /\ same(m) = {}
            BY <2>2, <2>3, <2>4, <3>2
        <3>3. CASE same(n) = {} /\ same(m) # {}
            BY <1>1, <2>1, <2>2, <2>3, <3>3, DashIsSeen
        <3>4. CASE same(n) # {} /\ same(m) = {}
            BY <1>1, <2>1, <2>2, <2>3, <3>4, DashIsSeen
        <3> QED BY <3>1, <3>2, <3>3, <3>4
    <2> QED BY <2>5 DEF ln, lm, rn, rm
<1>5. n \in same(m) /\ m \in same(n)
    BY <1>4
<1>6. CASE taken(n) /\ taken(m)
    <2>1. n.properties.name = m.properties.name
        BY <1>4, <1>6
    <2> QED BY <2>1, ListedOnce
<1>7. CASE taken(n) /\ ~taken(m)
    BY <1>4, <1>7, LabelWords
<1>8. CASE ~taken(n) /\ taken(m)
    BY <1>4, <1>8, LabelWords
<1>9. CASE ~taken(n) /\ ~taken(m)
    BY <1>4, <1>5, <1>9
<1> QED BY <1>6, <1>7, <1>8, <1>9

LEMMA PickedIsListedHolds ==
    ASSUME WordsApart, ViewInv
    PROVE  PickedIsListed
<1>1. PICK known \in Known : \E default : view = Snapshot(known, default)
    BY DEF ViewInv
<1>2. PICK default : view = Snapshot(known, default)
    BY <1>1
<1>3. /\ \A c \in view : c # Nothing /\ c.properties \in Properties
      /\ \A c, e \in view : c.properties.name = e.properties.name => c = e
    BY <1>2, ViewEntries
<1>4. ASSUME NEW c \in view, NEW e \in view, c.label = e.label
      PROVE  c = e
    <2>1. PICK n \in Candidates(known) : /\ c.label = Qualified(n, Candidates(known))
                                         /\ c.properties = n.properties
        BY <1>2, SnapshotEntries
    <2>2. PICK m \in Candidates(known) : /\ e.label = Qualified(m, Candidates(known))
                                         /\ e.properties = m.properties
        BY <1>2, SnapshotEntries
    <2>3. n = m
        BY <1>4, <2>1, <2>2, LabelsApart
    <2> QED BY <1>3, <2>1, <2>2, <2>3
<1>5. ASSUME NEW c \in view
      PROVE  LET policy == PolicyOf("selected", c.properties.name, FALSE)
             IN  Resolved(view, policy).input = c
    <2> DEFINE policy == PolicyOf("selected", c.properties.name, FALSE)
    <2>1. c.properties.name \in Maybe(STRING)
        BY <1>3 DEF Properties
    <2>2. policy.selector = [name |-> c.properties.name, serial |-> Nothing, device |-> Nothing]
        BY DEF PolicyOf
    <2> DEFINE selector == [name |-> c.properties.name, serial |-> Nothing, device |-> Nothing]
    <2>3. policy.selector # Nothing
        <3>1. selector \in [name : Maybe(STRING), serial : Maybe(STRING), device : Maybe(STRING)]
            BY <2>1 DEF Maybe
        <3> QED BY <2>2, <3>1, NothingAssumption
    <2>4. Matches(policy.selector, c.properties)
        <3>1. /\ selector.name = c.properties.name /\ selector.serial = Nothing
              /\ selector.device = Nothing
            OBVIOUS
        <3> HIDE DEF selector
        <3>2. Matches(selector, c.properties)
            BY <3>1 DEF Matches
        <3> QED BY <2>2, <3>2 DEF selector
    <2> HIDE DEF policy
    <2> QED BY <1>3, <2>3, <2>4, Resolution DEF policy
<1> SUFFICES
        ASSUME NEW d \in InputDescriptors(view)
        PROVE  LET found == Resolved(view, PolicyOf("selected", d.stable_id, FALSE)).input
               IN  /\ found # Nothing /\ found.label = d.display_name
                   /\ \A other \in view : other.label = d.display_name => other = found
    BY DEF PickedIsListed
<1>6. PICK c \in view : d.stable_id = c.properties.name /\ d.display_name = c.label
    BY DEF InputDescriptors
<1>7. Resolved(view, PolicyOf("selected", d.stable_id, FALSE)).input = c
    BY <1>5, <1>6
<1> QED BY <1>3, <1>4, <1>6, <1>7

\* ExactSelection: what a client picks from the list is the device listed under
\* that label and no other, provided no text contains the dash of a qualifier
\* and no device is named like a word of a description.
THEOREM SelectionIsExact == WordsApart => (RegistrySpec => []ExactSelection)
<1> SUFFICES ASSUME WordsApart PROVE RegistrySpec => []ExactSelection
    OBVIOUS
<1>1. RegistryInit => ViewInv
    BY PresentKnown DEF RegistryInit, ViewInv
<1>2. ViewInv /\ [RegistryNext]_registryVars => ViewInv'
    BY ViewStep
<1>3. ViewInv => ExactSelection
    BY StoredChoiceHolds, PickedIsListedHolds DEF ExactSelection
<1> QED BY <1>1, <1>2, <1>3, PTL DEF RegistrySpec

-----------------------------------------------------------------------------
(***************************************************************************)
(* The owner thread.                                                       *)
(***************************************************************************)

World == [server : {"up", "refusing", "down"}, cands : SUBSET Device,
          def : Device \cup {NoDevice}]
OwnerState == [native : Native, obs : Observation, rec : Schedule,
               resetWait : 0..RESET_INTERVAL]

\* What a configuration asks of a graph: with a device selected and no fallback
\* allowed, that device.
Respects(graph, cfg) ==
    graph # NoGraph /\ cfg.input.mode = "selected" /\ ~cfg.input.fallback_to_default
    => graph.target = cfg.input.stable_id

\* A configuration's parts.
LEMMA ConfigParts ==
    ASSUME NEW cfg \in Configs
    PROVE  cfg.active \in BOOLEAN /\ cfg.input \in InputPolicy /\ cfg # NoConfig
BY ConfigAssumption, AbsentAssumption

\* A graph that is there is a graph.
LEMMA NativeGraph ==
    ASSUME NEW n \in Native, n.graph # NoGraph
    PROVE  n.graph \in Graph
BY DEF Native

\* Whatever connection ensure_connection returns, the graph stays.
LEMMA EnsuredConnection ==
    ASSUME NEW n \in Native, NEW c \in EnsureConnection(n)
    PROVE  c \in Native /\ c.graph = n.graph
<1>1. CASE n.conn
  BY <1>1 DEF EnsureConnection
<1>2. CASE ~n.conn
  <2> DEFINE v == [cands |-> {}, def |-> NoDevice]
  <2>1. c = [n EXCEPT !.conn = TRUE, !.failure = FALSE, !.dirty = Clean, !.view = v]
    BY <1>2 DEF EnsureConnection
  <2>2. v \in View
    BY DEF View
  <2> HIDE DEF v
  <2> QED
    BY <2>1, <2>2 DEF Native
<1> QED
  BY <1>1, <1>2

\* The registry's callbacks change the view and the debounce only.
LEMMA DispatchedView ==
    ASSUME world \in World, NEW n \in Native, NEW m \in Dispatch(n)
    PROVE  m \in Native /\ m.graph = n.graph
<1>1. CASE ~Alive(n)
  BY <1>1 DEF Dispatch
<1>2. CASE Alive(n)
  <2>1. PICK c \in {n.view.cands, world.cands}, d \in {n.view.def, world.def} :
           m = Updated(n, [cands |-> c, def |-> d])
    BY <1>2 DEF Dispatch
  <2>2. [cands |-> c, def |-> d] \in View
    BY DEF Native, View, World
  <2> DEFINE v == [cands |-> c, def |-> d]
             due == IF v # n.view /\ n.dirty = Clean THEN COALESCE ELSE n.dirty
  <2>3. m = [n EXCEPT !.view = v, !.dirty = due]
    BY <2>1 DEF Updated
  <2>4. due \in {Clean} \cup 0..COALESCE
    BY TimerAssumption DEF Native
  <2> HIDE DEF v, due
  <2>5. v \in View
    BY <2>2 DEF v
  <2> QED
    BY <2>3, <2>4, <2>5 DEF Native
<1> QED
  BY <1>1, <1>2

LEMMA PublishedView ==
    ASSUME NEW n \in Native
    PROVE  SnapshotNow(n) \in Native /\ SnapshotNow(n).graph = n.graph
           /\ SnapshotNow(n).view = n.view
BY DEF SnapshotNow, Native

\* A resolved input is a device of the view, and for a selection without
\* fallback the one selected.
LEMMA ResolvedDevice ==
    ASSUME NEW v \in View, NEW input \in InputPolicy
    PROVE  /\ Resolve(v, input) \in Device \cup {NoDevice}
           /\ input.mode = "selected" /\ ~input.fallback_to_default
                 => Resolve(v, input) \in {input.stable_id, NoDevice}
BY DEF View, InputPolicy, Resolve, DefaultInput

\* Whatever PipeWire answers, a command to the graph's meter leaves its target.
LEMMA MeteredGraph ==
    ASSUME NEW n \in Native, NEW mtr \in BOOLEAN, n.graph # NoGraph,
           NEW s \in SetGraphMeter(n, mtr)
    PROVE  /\ s.native \in Native /\ s.code \in {"ok", "audio-meter-unavailable"}
           /\ s.native.graph \in Graph /\ s.native.graph.target = n.graph.target
<1>g. n.graph \in Graph
  BY NativeGraph
<1>1. CASE n.graph.meter = mtr
  BY <1>1, <1>g DEF SetGraphMeter
<1>2. CASE n.graph.meter # mtr
  <2> DEFINE refused == [n.graph EXCEPT !.meter = mtr, !.reset = TRUE]
             running == mtr \/ n.graph.demand
             served == [refused EXCEPT !.running = running]
             switched == [n EXCEPT !.graph.meter = mtr, !.graph.reset = TRUE]
  <2>1. \/ s = [native |-> [switched EXCEPT !.graph.running = running], code |-> "ok"]
        \/ s = [native |-> switched, code |-> "audio-meter-unavailable"]
    BY <1>2 DEF SetGraphMeter
  <2>2. running \in BOOLEAN
    BY <1>g DEF Graph
  <2>3. switched = [n EXCEPT !.graph = refused]
    BY <1>g DEF Native, Graph
  <2> HIDE DEF running
  <2>4. [switched EXCEPT !.graph.running = running] = [n EXCEPT !.graph = served]
    BY <1>g, <2>3 DEF Native, Graph
  <2>5. /\ refused \in Graph /\ refused.target = n.graph.target
        /\ served \in Graph /\ served.target = n.graph.target
    BY <1>g, <2>2 DEF Graph
  <2> HIDE DEF refused, served, switched
  <2> QED
    BY <2>1, <2>3, <2>4, <2>5 DEF Native
<1> QED
  BY <1>1, <1>2

\* What the rebuild branch of apply_native may leave: without an error a graph
\* on the device the configuration asks for, with one no graph.
LEMMA BuiltGraph ==
    ASSUME world \in World, NEW n \in Native, n.graph = NoGraph,
           NEW prevObs \in Observation, NEW cfg \in Configs,
           NEW b \in Build(n, prevObs, cfg)
    PROVE  /\ b.native \in Native /\ b.obs \in Observation /\ b.code \in ErrorCode \cup {"ok"}
           /\ b.code = "ok" => b.native.graph \in Graph
           /\ Respects(b.native.graph, cfg)
<1>c. cfg.input \in InputPolicy
  BY ConfigParts
<1>1. CASE EnsureConnection(n) = {}
  BY <1>1 DEF Build, Outcome, ErrorCode, Respects
<1>2. CASE EnsureConnection(n) # {}
  <2> DEFINE outcomes(m) ==
               LET target == Resolve(m.view, cfg.input)
                   kept   == SnapshotNow(m)
               IN IF target = NoDevice
                  THEN {Outcome(kept, "input-unavailable", prevObs)}
                  ELSE {Outcome([kept EXCEPT !.graph = NewGraph(target)], "ok",
                                [prevObs EXCEPT !.named = TRUE, !.devices = m.view.cands])}
                       \cup IF MayReject(m)
                            THEN {Outcome(kept, code, prevObs) :
                                    code \in {"model-initialization-failed",
                                             "audio-graph-unavailable"}}
                            ELSE {}
  <2>0. Build(n, prevObs, cfg)
           = UNION {outcomes(m) : m \in UNION {Dispatch(d) : d \in EnsureConnection(n)}}
    BY <1>2 DEF Build
  <2>1. PICK m \in UNION {Dispatch(d) : d \in EnsureConnection(n)} : b \in outcomes(m)
    <3> HIDE DEF outcomes
    <3> QED
      BY <2>0
  <2>2. m \in Native /\ m.graph = NoGraph
    <3>1. PICK d \in EnsureConnection(n) : m \in Dispatch(d)
      OBVIOUS
    <3> QED
      BY <3>1, EnsuredConnection, DispatchedView
  <2>3. SnapshotNow(m) \in Native /\ SnapshotNow(m).graph = NoGraph
    BY <2>2, PublishedView
  <2> DEFINE target == Resolve(m.view, cfg.input)
  <2>4. CASE \E code \in {"input-unavailable", "model-initialization-failed",
                         "audio-graph-unavailable"} : b = Outcome(SnapshotNow(m), code, prevObs)
    BY <2>3, <2>4 DEF ErrorCode, Respects, Outcome
  <2>5. CASE /\ target # NoDevice
             /\ b = Outcome([SnapshotNow(m) EXCEPT !.graph = NewGraph(target)], "ok",
                            [prevObs EXCEPT !.named = TRUE, !.devices = m.view.cands])
    <3>1. m.view \in View
      BY <2>2 DEF Native
    <3>2. /\ target \in Device
          /\ cfg.input.mode = "selected" /\ ~cfg.input.fallback_to_default
                => target = cfg.input.stable_id
      BY <1>c, <2>5, <3>1, ResolvedDevice
    <3> HIDE DEF target
    <3>3. NewGraph(target) \in Graph /\ NewGraph(target).target = target
      BY <3>2 DEF NewGraph, Graph
    <3>4. [prevObs EXCEPT !.named = TRUE, !.devices = m.view.cands] \in Observation
      BY <3>1 DEF Observation, View
    <3>5. [SnapshotNow(m) EXCEPT !.graph = NewGraph(target)] \in Native
      BY <2>3, <3>3 DEF Native
    <3>6. [SnapshotNow(m) EXCEPT !.graph = NewGraph(target)].graph = NewGraph(target)
      BY <2>3 DEF Native
    <3> QED
      BY <2>5, <3>2, <3>3, <3>4, <3>5, <3>6 DEF Outcome, Respects
  <2> QED
    BY <2>1, <2>4, <2>5, Zenon
<1> QED
  BY <1>1, <1>2

\* Stopping leaves no graph and does not fail.
LEMMA StoppedGraph ==
    ASSUME world \in World, NEW n \in Native, n.graph = NoGraph,
           NEW prev, NEW prevObs \in Observation, NEW cfg,
           NEW o \in StoppedOutcomes(n, prev, prevObs, cfg)
    PROVE  /\ o.native \in Native /\ o.obs \in Observation /\ o.code = "ok"
           /\ o.native.graph = NoGraph
<1> DEFINE stopped(devices) == [state |-> "Stopped", fault |-> "none", named |-> TRUE,
                                devices |-> devices]
           labelKept == prev # NoConfig /\ prev.input = cfg.input /\ prevObs.named
<1>1. \A devices \in SUBSET Device : stopped(devices) \in Observation
  BY DEF Observation
<1>2. CASE labelKept \/ EnsureConnection(n) = {}
  <2>1. o = Outcome(n, "ok", stopped(prevObs.devices))
    BY <1>2 DEF StoppedOutcomes
  <2> HIDE DEF stopped
  <2> QED
    BY <2>1, <1>1 DEF Outcome, Observation
<1>3. CASE ~(labelKept \/ EnsureConnection(n) = {})
  <2>1. PICK m \in UNION {Dispatch(c) : c \in EnsureConnection(n)} :
          o = Outcome(SnapshotNow(m), "ok", stopped(m.view.cands))
    BY <1>3 DEF StoppedOutcomes
  <2>2. m \in Native /\ m.graph = NoGraph
    <3>1. PICK c \in EnsureConnection(n) : m \in Dispatch(c)
      OBVIOUS
    <3> QED
      BY <3>1, EnsuredConnection, DispatchedView
  <2>3. m.view.cands \in SUBSET Device
    BY <2>2 DEF Native, View
  <2> HIDE DEF stopped
  <2> QED
    BY <2>1, <2>2, <2>3, <1>1, PublishedView DEF Outcome
<1> QED
  BY <1>2, <1>3

\* apply_native, whatever it meets on the way: the graph it leaves is one its
\* configuration asks for, also where it fails, provided the graph it may reuse
\* was one the previous configuration asked for.  A graph that is wanted is
\* there unless it failed.
LEMMA AppliedGraph ==
    ASSUME world \in World, NEW n \in Native, NEW prev \in Configs \cup {NoConfig},
           NEW prevObs \in Observation, NEW cfg \in Configs, NEW mtr \in BOOLEAN,
           prev # NoConfig => Respects(n.graph, prev),
           NEW o \in ApplyNative(n, prev, prevObs, cfg, mtr)
    PROVE  /\ o.native \in Native /\ o.obs \in Observation /\ o.code \in ErrorCode \cup {"ok"}
           /\ Respects(o.native.graph, cfg)
           /\ o.code = "ok" /\ (cfg.active \/ mtr) => o.native.graph \in Graph
<1> DEFINE bare == [n EXCEPT !.graph = NoGraph]
<1>n. bare \in Native /\ bare.graph = NoGraph
  BY DEF Native
<1>c. cfg.active \in BOOLEAN
  BY ConfigParts
<1>1. CASE ~cfg.active /\ ~mtr
  <2>1. o \in StoppedOutcomes(bare, prev, prevObs, cfg)
    BY <1>1 DEF ApplyNative
  <2> HIDE DEF bare
  <2> QED
    BY <1>1, <1>n, <2>1, StoppedGraph DEF Respects
<1>2. CASE cfg.active \/ mtr
  <2> DEFINE built == IF RequiresRebuild(n, prev, cfg)
                      THEN Build([n EXCEPT !.graph = NoGraph], prevObs, cfg)
                      ELSE {Outcome(n, "ok", [prevObs EXCEPT !.named = @ \/ prevObs.state = "absent"])}
             finish(b) ==
               {Outcome(s.native, s.code,
                        IF s.code = "ok"
                        THEN ObserveGraph(s.native.graph, cfg.active, b.obs.named, b.obs.devices)
                        ELSE prevObs) : s \in SetGraphMeter(b.native, mtr)}
  <2>1. o \in UNION {IF b.code = "ok" THEN finish(b) ELSE {b} : b \in built}
    BY <1>2, <1>c DEF ApplyNative
  <2>2. PICK b \in built : o \in IF b.code = "ok" THEN finish(b) ELSE {b}
    <3> HIDE DEF built, finish
    <3> QED
      BY <2>1
  <2>3. /\ b.native \in Native /\ b.obs \in Observation /\ b.code \in ErrorCode \cup {"ok"}
        /\ b.code = "ok" => b.native.graph \in Graph
        /\ Respects(b.native.graph, cfg)
    <3>1. CASE RequiresRebuild(n, prev, cfg)
      BY <3>1, <1>n, BuiltGraph
    <3>2. CASE ~RequiresRebuild(n, prev, cfg)
      <4>1. b = Outcome(n, "ok", [prevObs EXCEPT !.named = @ \/ prevObs.state = "absent"])
        BY <3>2
      <4>2. n.graph \in Graph /\ prev # NoConfig /\ prev.input = cfg.input
        BY <3>2, NativeGraph DEF RequiresRebuild
      <4>3. Respects(n.graph, cfg)
        BY <4>2 DEF Respects
      <4> DEFINE o1 == [prevObs EXCEPT !.named = @ \/ prevObs.state = "absent"]
      <4>4. o1 \in Observation
        BY DEF Observation
      <4> HIDE DEF o1
      <4> QED
        BY <4>1, <4>2, <4>3, <4>4 DEF Outcome, o1
    <3> QED
      BY <3>1, <3>2
  <2> HIDE DEF built
  <2>4. CASE b.code # "ok"
    BY <2>2, <2>3, <2>4
  <2>5. CASE b.code = "ok"
    <3>1. PICK s \in SetGraphMeter(b.native, mtr) :
            o = Outcome(s.native, s.code,
                        IF s.code = "ok"
                        THEN ObserveGraph(s.native.graph, cfg.active, b.obs.named, b.obs.devices)
                        ELSE prevObs)
      BY <2>2, <2>5
    <3>2. b.native.graph # NoGraph
      BY <2>3, <2>5, GraphAssumption
    <3>3. /\ s.native \in Native /\ s.code \in {"ok", "audio-meter-unavailable"}
          /\ s.native.graph \in Graph /\ s.native.graph.target = b.native.graph.target
      BY <2>3, <3>2, MeteredGraph
    <3>4. ObserveGraph(s.native.graph, cfg.active, b.obs.named, b.obs.devices) \in Observation
      BY <2>3, <3>3, <1>c DEF ObserveGraph, Observation, ErrorCode
    <3>5. Respects(s.native.graph, cfg)
      BY <2>3, <3>2, <3>3 DEF Respects
    <3> QED
      BY <3>1, <3>3, <3>4, <3>5 DEF Outcome, ErrorCode
  <2> QED
    BY <2>4, <2>5
<1> QED
  BY <1>1, <1>2, <1>c

\* The controller's operations leave a schedule, and only a poll an attempt.
LEMMA ScheduledFault ==
    ASSUME NEW r \in Schedule, NEW f \in RecoveryFault
    PROVE  /\ ScheduleFault(r, f) \in Schedule
           /\ r.phase # "Attempting" => ScheduleFault(r, f).phase = "Backoff"
<1>1. CASE r.phase # "Healthy"
  <2> DEFINE c == [r EXCEPT !.fault = "Core", !.wait = 0]
  <2>1. c \in Schedule /\ c.phase = r.phase
    <3>1. "Core" \in RecoveryFault \cup {NoFault} /\ 0 \in 0..MAX_BACKOFF
      BY BackoffAssumption DEF RecoveryFault
    <3> QED
      BY <3>1 DEF Schedule
  <2>2. r.phase \in {"Backoff", "Attempting"}
    BY <1>1 DEF Schedule, RecoveryPhase
  <2>3. ScheduleFault(r, f) \in {r, c}
    BY <1>1 DEF ScheduleFault
  <2> HIDE DEF c
  <2> QED
    BY <2>1, <2>2, <2>3
<1>2. CASE r.phase = "Healthy"
  <2>1. ScheduleFault(r, f) = [phase |-> "Backoff", fault |-> f, attempt |-> 0, wait |-> 0]
    BY <1>2 DEF ScheduleFault
  <2> QED
    BY <2>1, BackoffAssumption, U32Assumption DEF Schedule, RecoveryPhase
<1> QED
  BY <1>1, <1>2

LEMMA ScheduledEnd ==
    ASSUME NEW r \in Schedule
    PROVE  /\ Idle \in Schedule /\ Idle.phase = "Healthy"
           /\ ScheduleRecovered(r) \in Schedule /\ ScheduleRecovered(r).phase = "Healthy"
           /\ TickDown(r) \in Schedule /\ TickDown(r).phase = r.phase
BY BackoffAssumption, U32Assumption
DEF ScheduleRecovered, TickDown, SaturatingSub, Idle, Schedule, RecoveryPhase, NoFault

LEMMA ScheduledPoll ==
    ASSUME NEW r \in Schedule, PollDue(r)
    PROVE  SchedulePoll(r) \in Schedule /\ SchedulePoll(r).phase = "Attempting"
<1>1. SaturatingInc(r.attempt, U32Max) \in 0..U32Max
  BY SaturatingIncType, U32Assumption DEF Schedule
<1> QED
  BY <1>1 DEF SchedulePoll, Schedule, RecoveryPhase

LEMMA ScheduledFailure ==
    ASSUME NEW r \in Schedule, NEW e \in Nat, r.phase = "Attempting"
    PROVE  ScheduleFailed(r, e) \in Schedule /\ ScheduleFailed(r, e).phase = "Backoff"
<1>1. SaturatingSub(Delay(r.attempt), e) \in 0..MAX_BACKOFF
  <2>1. Delay(r.attempt) \in 1..MAX_BACKOFF
    BY DelayBounds, U32Assumption DEF Schedule
  <2> QED
    BY <2>1, BackoffAssumption DEF SaturatingSub
<1> QED
  BY <1>1 DEF ScheduleFailed, Schedule, RecoveryPhase

-----------------------------------------------------------------------------
(* The stages of a service pass.                                           *)

\* What the observation shows after a fault.
LEMMA DegradedObservation ==
    ASSUME NEW o \in Observation, NEW fault
    PROVE  MarkDegraded(o, fault) \in Observation /\ MarkDegraded(o, fault).state = "Degraded"
<1> DEFINE code == CASE fault = "Core" -> "pipewire-unavailable"
                     [] fault \in {"CaptureStream", "SourceStream"} -> "audio-stream-failed"
                     [] OTHER -> "input-unavailable"
<1>1. code \in ErrorCode
  BY DEF ErrorCode
<1>2. OrDefault(o) \in Observation
  BY DEF OrDefault, Observation
<1>3. MarkDegraded(o, fault) = [OrDefault(o) EXCEPT !.state = "Degraded", !.fault = code]
  BY DEF MarkDegraded
<1> HIDE DEF code
<1> QED
  BY <1>1, <1>2, <1>3 DEF Observation

\* A stage that takes the graph away leaves an attempt scheduled and the loss
\* published; any other leaves the graph on its device.
Kept(s, t) ==
    /\ t.rec.phase # "Attempting"
    /\ \/ t.native.graph # NoGraph /\ s.native.graph # NoGraph
          /\ t.native.graph.target = s.native.graph.target
       \/ /\ t.native.graph = NoGraph /\ s.native.graph = NoGraph
          /\ s.obs.state = "Degraded" /\ s.rec.phase = "Backoff"
                => t.obs.state = "Degraded" /\ t.rec.phase = "Backoff"
       \/ t.native.graph = NoGraph /\ t.rec.phase = "Backoff" /\ t.obs.state = "Degraded"

LEMMA CoreFailureStage ==
    ASSUME NEW s \in OwnerState, s.rec.phase # "Attempting"
    PROVE  AfterCoreFailure(s) \in OwnerState /\ Kept(s, AfterCoreFailure(s))
<1>1. CASE s.native.conn /\ s.native.failure
  <2> DEFINE v == [cands |-> {}, def |-> NoDevice]
             n == [s.native EXCEPT !.conn = FALSE, !.failure = FALSE, !.graph = NoGraph,
                                   !.dirty = Clean, !.view = v]
             o == MarkDegraded(s.obs, "Core")
             r == ScheduleFault(s.rec, "Core")
  <2>1. AfterCoreFailure(s) = [s EXCEPT !.native = n, !.obs = o, !.rec = r]
    BY <1>1 DEF AfterCoreFailure, OwnerState, Native
  <2>2. n \in Native /\ n.graph = NoGraph
    <3>1. v \in View
      BY DEF View
    <3> HIDE DEF v
    <3> QED
      BY <3>1 DEF Native, OwnerState
  <2>3. o \in Observation /\ o.state = "Degraded"
    BY DegradedObservation DEF OwnerState
  <2>4. r \in Schedule /\ r.phase = "Backoff"
    BY ScheduledFault DEF OwnerState, RecoveryFault
  <2> HIDE DEF n, o, r
  <2> QED
    BY <2>1, <2>2, <2>3, <2>4 DEF OwnerState, Kept
<1>2. CASE ~(s.native.conn /\ s.native.failure)
  BY <1>2 DEF AfterCoreFailure, Kept
<1> QED
  BY <1>1, <1>2

LEMMA RegistryStage ==
    ASSUME NEW s \in OwnerState, s.rec.phase # "Attempting"
    PROVE  /\ AfterRegistry(s) \in OwnerState
           /\ AfterRegistry(s).native.graph = s.native.graph
           /\ AfterRegistry(s).rec = s.rec
           /\ AfterRegistry(s).obs.state = s.obs.state
<1>1. CASE SnapshotDue(s)
  <2> DEFINE n == SnapshotNow(s.native)
             devices == IF s.obs.state = "absent" THEN s.obs.devices ELSE s.native.view.cands
             o == [s.obs EXCEPT !.devices = devices]
  <2>1. AfterRegistry(s) = [s EXCEPT !.native = n, !.obs = o]
    BY <1>1 DEF AfterRegistry, OwnerState
  <2>2. n \in Native /\ n.graph = s.native.graph
    BY PublishedView DEF OwnerState
  <2>3. o \in Observation /\ o.state = s.obs.state
    BY DEF OwnerState, Observation, Native, View
  <2> HIDE DEF n, o
  <2> QED
    BY <2>1, <2>2, <2>3 DEF OwnerState
<1>2. CASE ~SnapshotDue(s)
  BY <1>2 DEF AfterRegistry
<1> QED
  BY <1>1, <1>2

\* The fault the graph stage finds is one the controller knows.
LEMMA FoundFault ==
    ASSUME NEW s, NEW published
    PROVE  GraphFault(s, published) \in RecoveryFault \cup {NoFault}
BY DEF GraphFault, RecoveryFault

LEMMA InvalidatedStage ==
    ASSUME NEW s \in OwnerState, s.rec.phase # "Attempting", NEW f \in RecoveryFault
    PROVE  Invalidated(s, f) \in OwnerState /\ Kept(s, Invalidated(s, f))
<1> DEFINE n == [s.native EXCEPT !.graph = NoGraph]
           o == MarkDegraded(s.obs, f)
           r == ScheduleFault(s.rec, f)
<1>1. Invalidated(s, f) = [s EXCEPT !.native = n, !.obs = o, !.rec = r]
  BY DEF Invalidated, OwnerState, Native
<1>2. n \in Native /\ n.graph = NoGraph
  BY DEF OwnerState, Native
<1>3. o \in Observation /\ o.state = "Degraded"
  BY DegradedObservation DEF OwnerState
<1>4. r \in Schedule /\ r.phase = "Backoff"
  BY ScheduledFault DEF OwnerState
<1> HIDE DEF n, o, r
<1> QED
  BY <1>1, <1>2, <1>3, <1>4 DEF OwnerState, Kept

\* A stage that changes the graph without moving it to another input keeps
\* what matters of the owner's state.
LEMMA GraphReplaced ==
    ASSUME NEW s \in OwnerState, s.rec.phase # "Attempting", s.native.graph # NoGraph,
           NEW g \in Graph, g.target = s.native.graph.target
    PROVE  LET t == [s EXCEPT !.native = [s.native EXCEPT !.graph = g]]
           IN  t \in OwnerState /\ Kept(s, t) /\ t.native.graph # NoGraph
<1> DEFINE n == [s.native EXCEPT !.graph = g]
           t == [s EXCEPT !.native = n]
<1>1. n \in Native /\ n.graph = g
  BY DEF OwnerState, Native
<1> HIDE DEF n
<1>2. t \in OwnerState /\ t.native = n /\ t.rec = s.rec
  BY <1>1 DEF OwnerState
<1> HIDE DEF t
<1>3. Kept(s, t) /\ t.native.graph # NoGraph
  BY <1>1, <1>2, GraphAssumption DEF Kept
<1> QED
  BY <1>2, <1>3 DEF t, n

\* Asking for a reset of a graph changes no more than that.
LEMMA ResetStage ==
    ASSUME NEW s \in OwnerState, s.rec.phase # "Attempting", s.native.graph # NoGraph
    PROVE  LET t == [s EXCEPT !.native.graph.reset = TRUE]
           IN  t \in OwnerState /\ Kept(s, t) /\ t.native.graph # NoGraph
<1> DEFINE g == [s.native.graph EXCEPT !.reset = TRUE]
<1>1. [s EXCEPT !.native.graph.reset = TRUE] = [s EXCEPT !.native = [s.native EXCEPT !.graph = g]]
  BY DEF OwnerState, Native
<1>2. g \in Graph /\ g.target = s.native.graph.target
  BY NativeGraph DEF OwnerState, Graph
<1> HIDE DEF g
<1> QED
  BY <1>1, <1>2, GraphReplaced

\* Nor does serving a demand edge move the graph.
LEMMA DemandStage ==
    ASSUME NEW s \in OwnerState, s.rec.phase # "Attempting", s.native.graph # NoGraph
    PROVE  LET t == [s EXCEPT !.native = DemandEdge(s.native)]
           IN  t \in OwnerState /\ Kept(s, t) /\ t.native.graph # NoGraph
<1>s. s.native \in Native /\ s.native.graph \in Graph
  BY NativeGraph DEF OwnerState
<1>1. PICK g \in Graph : /\ g.target = s.native.graph.target
                         /\ DemandEdge(s.native) = [s.native EXCEPT !.graph = g]
  <2> DEFINE left == [s.native.graph EXCEPT !.demand = FALSE]
             wanted == ~s.native.graph.demand
             edge == [s.native.graph EXCEPT !.demand = wanted, !.reset = TRUE]
             followed == [edge EXCEPT !.running = wanted]
  <2>1. wanted \in BOOLEAN
    OBVIOUS
  <2>2. \/ DemandEdge(s.native) = [s.native EXCEPT !.graph = left]
        \/ DemandEdge(s.native) = [s.native EXCEPT !.graph = followed]
    BY <1>s DEF DemandEdge, Native, Graph
  <2> HIDE DEF wanted
  <2>3. /\ left \in Graph /\ left.target = s.native.graph.target
        /\ followed \in Graph /\ followed.target = s.native.graph.target
    BY <1>s, <2>1 DEF Graph
  <2> HIDE DEF left, followed
  <2> QED
    BY <2>2, <2>3
<1> QED
  BY <1>1, GraphReplaced

LEMMA LiveFailureStage ==
    ASSUME NEW s \in OwnerState, s.rec.phase # "Attempting", s.native.graph # NoGraph
    PROVE  AfterLiveFailure(s) \in OwnerState /\ Kept(s, AfterLiveFailure(s))
<1>1. CASE LiveFailureLatched(s) /\ LiveFailureResetDue(s)
  <2> DEFINE t == [s EXCEPT !.native.graph.reset = TRUE]
  <2>1. t \in OwnerState /\ Kept(s, t)
    BY ResetStage
  <2>2. AfterLiveFailure(s) = [t EXCEPT !.resetWait = RESET_INTERVAL]
    BY <1>1 DEF AfterLiveFailure, OwnerState
  <2> HIDE DEF t
  <2>3. AfterLiveFailure(s) \in OwnerState
        /\ AfterLiveFailure(s).native = t.native /\ AfterLiveFailure(s).rec = t.rec
        /\ AfterLiveFailure(s).obs = t.obs
    BY <2>1, <2>2, TimerAssumption DEF OwnerState
  <2> QED
    BY <2>1, <2>3 DEF Kept
<1>2. CASE ~(LiveFailureLatched(s) /\ LiveFailureResetDue(s))
  BY <1>2 DEF AfterLiveFailure, Kept
<1> QED
  BY <1>1, <1>2

LEMMA KeptTwice ==
    ASSUME NEW s, NEW t, NEW u, Kept(s, t), Kept(t, u)
    PROVE  Kept(s, u)
BY DEF Kept

LEMMA GraphStage ==
    ASSUME NEW s \in OwnerState, s.rec.phase # "Attempting", NEW published,
           NEW t \in AfterGraph(s, published)
    PROVE  t \in OwnerState /\ Kept(s, t)
<1>1. CASE s.native.graph = NoGraph \/ applied = NoConfig
  BY <1>1 DEF AfterGraph, Kept
<1>2. CASE /\ ~(s.native.graph = NoGraph \/ applied = NoConfig)
           /\ GraphFault(s, published) # NoFault
  <2>1. t = Invalidated(s, GraphFault(s, published))
    BY <1>2 DEF AfterGraph
  <2> QED
    BY <1>2, <2>1, FoundFault, InvalidatedStage
<1>3. CASE /\ ~(s.native.graph = NoGraph \/ applied = NoConfig)
           /\ GraphFault(s, published) = NoFault
  <2> DEFINE r == [s EXCEPT !.native = DemandEdge(s.native)]
  <2>1. t \in {AfterLiveFailure(s), AfterLiveFailure(r), Invalidated(s, "CaptureStream")}
    BY <1>3 DEF AfterGraph
  <2>2. r \in OwnerState /\ Kept(s, r) /\ r.native.graph # NoGraph
    BY <1>3, DemandStage
  <2>3. r.rec.phase # "Attempting"
    BY <2>2 DEF Kept
  <2> HIDE DEF r
  <2>4. CASE t = AfterLiveFailure(s)
    BY <1>3, <2>4, LiveFailureStage
  <2>5. CASE t = AfterLiveFailure(r)
    BY <2>2, <2>3, <2>5, LiveFailureStage, KeptTwice
  <2>6. CASE t = Invalidated(s, "CaptureStream")
    BY <2>6, InvalidatedStage DEF RecoveryFault
  <2> QED
    BY <2>1, <2>4, <2>5, <2>6
<1> QED
  BY <1>1, <1>2, <1>3

LEMMA RecoveryStage ==
    ASSUME world \in World, applied \in Configs \cup {NoConfig}, meter \in BOOLEAN,
           NEW s \in OwnerState, s.rec.phase # "Attempting",
           applied # NoConfig => Respects(s.native.graph, applied),
           NEW t \in AfterRecovery(s)
    PROVE  /\ t \in OwnerState /\ t.rec.phase # "Attempting"
           /\ applied # NoConfig => Respects(t.native.graph, applied)
           /\ Wanted /\ t.native.graph = NoGraph /\ s.native.graph = NoGraph
              /\ s.obs.state = "Degraded" /\ s.rec.phase = "Backoff"
                 => t.obs.state = "Degraded" /\ t.rec.phase = "Backoff"
           /\ s.native.graph # NoGraph => t.native.graph # NoGraph
<1>s. s.native \in Native /\ s.obs \in Observation /\ s.rec \in Schedule
  BY DEF OwnerState
<1>1. CASE ~Wanted
  <2>1. t = [s EXCEPT !.rec = Idle]
    BY <1>1 DEF AfterRecovery, ScheduleStop, OwnerState
  <2>2. t \in OwnerState /\ t.rec = Idle /\ t.native = s.native
    BY <2>1, <1>s, ScheduledEnd DEF OwnerState
  <2> QED
    BY <1>1, <1>s, <2>2, ScheduledEnd
<1>2. CASE Wanted /\ (s.native.graph # NoGraph \/ ~PollDue(s.rec))
  BY <1>2 DEF AfterRecovery
<1>3. CASE Wanted /\ ~(s.native.graph # NoGraph \/ ~PollDue(s.rec))
  <2> DEFINE polled == SchedulePoll(s.rec)
  <2>0. applied \in Configs /\ (applied.active \/ meter)
    BY <1>3 DEF Wanted
  <2>1. polled \in Schedule /\ polled.phase = "Attempting"
    BY <1>3, <1>s, ScheduledPoll
  <2>2. PICK o \in ApplyNative(s.native, NoConfig, s.obs, applied, meter) :
          t \in IF o.code = "ok"
                THEN {[s EXCEPT !.native = o.native, !.obs = o.obs,
                                !.rec = ScheduleRecovered(SchedulePoll(@))]}
                ELSE {[s EXCEPT !.native = o.native, !.obs = MarkDegraded(@, s.rec.fault),
                                !.rec = ScheduleFailed(SchedulePoll(@), e)] : e \in 0..MaxElapsed}
    BY <1>3 DEF AfterRecovery
  <2>3. /\ o.native \in Native /\ o.obs \in Observation
        /\ Respects(o.native.graph, applied)
        /\ o.code = "ok" => o.native.graph \in Graph
    BY <1>s, <2>0, AppliedGraph
  <2>4. CASE o.code = "ok"
    <3>1. t = [s EXCEPT !.native = o.native, !.obs = o.obs, !.rec = ScheduleRecovered(polled)]
      BY <2>2, <2>4 DEF OwnerState
    <3>2. ScheduleRecovered(polled) \in Schedule /\ ScheduleRecovered(polled).phase = "Healthy"
      BY <2>1, ScheduledEnd
    <3> HIDE DEF polled
    <3>3. t \in OwnerState /\ t.native = o.native /\ t.rec = ScheduleRecovered(polled)
      BY <3>1, <3>2, <2>3 DEF OwnerState
    <3> QED
      BY <2>3, <2>4, <3>2, <3>3, GraphAssumption, <1>3
  <2>5. CASE o.code # "ok"
    <3>1. PICK e \in 0..MaxElapsed :
            t = [s EXCEPT !.native = o.native, !.obs = MarkDegraded(@, s.rec.fault),
                          !.rec = ScheduleFailed(SchedulePoll(@), e)]
      BY <2>2, <2>5
    <3> DEFINE failed == ScheduleFailed(polled, e)
               degraded == MarkDegraded(s.obs, s.rec.fault)
    <3>2. failed \in Schedule /\ failed.phase = "Backoff"
      BY <2>1, ScheduledFailure, ElapsedAssumption
    <3>3. degraded \in Observation /\ degraded.state = "Degraded"
      BY <1>s, DegradedObservation
    <3>4. t = [s EXCEPT !.native = o.native, !.obs = degraded, !.rec = failed]
      BY <3>1 DEF OwnerState
    <3> HIDE DEF polled, failed, degraded
    <3>5. t \in OwnerState /\ t.native = o.native /\ t.rec = failed /\ t.obs = degraded
      BY <3>2, <3>3, <3>4, <2>3 DEF OwnerState
    <3> QED
      BY <2>3, <3>2, <3>3, <3>5, <1>3
  <2> QED
    BY <2>4, <2>5
<1> QED
  BY <1>1, <1>2, <1>3

-----------------------------------------------------------------------------
(* The owner thread's invariant and its theorems.                          *)

\* An attempt begins and ends within one pass, so between two steps of the loop
\* the controller is never Attempting; without it a reported loss would not be
\* known to leave a Backoff behind.
EngineInv ==
    /\ TypeOK
    /\ SelectedInputRespected
    /\ rec.phase # "Attempting"

LEMMA EngineTypes ==
    ASSUME EngineInv
    PROVE  /\ world \in World /\ native \in Native /\ applied \in Configs \cup {NoConfig}
           /\ meter \in BOOLEAN /\ obs \in Observation /\ rec \in Schedule
           /\ resetWait \in 0..RESET_INTERVAL /\ at \in {"recv", "service"}
           /\ applied # NoConfig => Respects(native.graph, applied)
           /\ rec.phase # "Attempting"
BY DEF EngineInv, TypeOK, World, SelectedInputRespected, Respects

\* The same facts of the next state give the invariant back.
LEMMA EngineKept ==
    ASSUME /\ world' \in World /\ native' \in Native /\ applied' \in Configs \cup {NoConfig}
           /\ meter' \in BOOLEAN /\ obs' \in Observation /\ rec' \in Schedule
           /\ resetWait' \in 0..RESET_INTERVAL /\ at' \in {"recv", "service"}
           /\ applied' # NoConfig => Respects(native'.graph, applied')
           /\ rec'.phase # "Attempting"
    PROVE  EngineInv'
BY DEF EngineInv, TypeOK, World, SelectedInputRespected, Respects

LEMMA EngineInit == Init => EngineInv
<1> SUFFICES ASSUME Init PROVE EngineInv
  OBVIOUS
<1>1. [cands |-> {}, def |-> NoDevice] \in View
  BY DEF View
<1>2. native \in Native /\ native.graph = NoGraph
  BY <1>1 DEF Init, Native
<1>3. obs \in Observation
  BY DEF Init, Observation
<1>4. rec \in Schedule /\ rec.phase # "Attempting"
  BY BackoffAssumption, U32Assumption
  DEF Init, Idle, Schedule, RecoveryPhase, NoFault
<1>5. world \in [server : {"up", "refusing", "down"}, cands : SUBSET Device,
                 def : Device \cup {NoDevice}]
  BY DEF Init
<1>6. applied = NoConfig /\ meter = FALSE /\ resetWait \in 0..RESET_INTERVAL /\ at = "recv"
  BY TimerAssumption DEF Init
<1> QED
  BY <1>2, <1>3, <1>4, <1>5, <1>6 DEF EngineInv, TypeOK, SelectedInputRespected

\* What classify_initial_fault makes of an error is a fault.
LEMMA ClassifiedFault ==
    ASSUME NEW code
    PROVE  ClassifyInitialFault(code) \in RecoveryFault
BY DEF ClassifyInitialFault, RecoveryFault

LEMMA ApplyStep ==
    ASSUME EngineInv, NEW cfg \in Configs, HandleApply(cfg)
    PROVE  EngineInv'
<1>t. /\ world \in World /\ native \in Native /\ applied \in Configs \cup {NoConfig}
      /\ meter \in BOOLEAN /\ obs \in Observation /\ rec \in Schedule
      /\ resetWait \in 0..RESET_INTERVAL
      /\ applied # NoConfig => Respects(native.graph, applied)
      /\ rec.phase # "Attempting"
  BY EngineTypes
<1>u. /\ world' = world /\ meter' = meter /\ resetWait' = resetWait /\ at' = "service"
  BY DEF HandleApply, Received
<1>r. /\ ScheduleRecovered(rec) \in Schedule /\ ScheduleRecovered(rec).phase # "Attempting"
      /\ ScheduleStop(rec) \in Schedule /\ ScheduleStop(rec).phase # "Attempting"
  BY <1>t, ScheduledEnd DEF ScheduleStop
<1>1. PICK o \in ApplyNative(native, applied, obs, cfg, meter) :
         \/ /\ o.code = "ok"
            /\ native' = o.native
            /\ applied' = cfg
            /\ obs' = o.obs
            /\ rec' = IF cfg.active THEN ScheduleRecovered(rec) ELSE ScheduleStop(rec)
         \/ /\ o.code # "ok"
            /\ applied # NoConfig
            /\ \E restored \in ApplyNative(o.native, NoConfig, obs, applied, meter) :
                 /\ native' = restored.native
                 /\ IF restored.code = "ok"
                    THEN obs' = restored.obs /\ rec' = ScheduleRecovered(rec)
                    ELSE UNCHANGED <<obs, rec>>
            /\ UNCHANGED applied
         \/ /\ o.code # "ok"
            /\ applied = NoConfig
            /\ native' = o.native
            /\ IF cfg.active
               THEN /\ applied' = cfg
                    /\ obs' = [obs EXCEPT !.state = "Degraded", !.fault = o.code]
                    /\ rec' = ScheduleFault(rec, ClassifyInitialFault(o.code))
               ELSE UNCHANGED <<applied, obs, rec>>
  BY DEF HandleApply
<1>2. /\ o.native \in Native /\ o.obs \in Observation /\ o.code \in ErrorCode \cup {"ok"}
      /\ Respects(o.native.graph, cfg)
  BY <1>t, AppliedGraph
<1>3. CASE /\ o.code = "ok"
           /\ native' = o.native
           /\ applied' = cfg
           /\ obs' = o.obs
           /\ rec' = IF cfg.active THEN ScheduleRecovered(rec) ELSE ScheduleStop(rec)
  <2>1. rec' \in {ScheduleRecovered(rec), ScheduleStop(rec)}
    BY <1>3
  <2> QED
    BY <1>3, <2>1, <1>t, <1>u, <1>r, <1>2, EngineKept
<1>4. CASE /\ applied # NoConfig
           /\ \E restored \in ApplyNative(o.native, NoConfig, obs, applied, meter) :
                /\ native' = restored.native
                /\ IF restored.code = "ok"
                   THEN obs' = restored.obs /\ rec' = ScheduleRecovered(rec)
                   ELSE UNCHANGED <<obs, rec>>
           /\ UNCHANGED applied
  <2>1. PICK restored \in ApplyNative(o.native, NoConfig, obs, applied, meter) :
           /\ native' = restored.native
           /\ IF restored.code = "ok"
              THEN obs' = restored.obs /\ rec' = ScheduleRecovered(rec)
              ELSE UNCHANGED <<obs, rec>>
    BY <1>4
  <2>2. /\ restored.native \in Native /\ restored.obs \in Observation
        /\ Respects(restored.native.graph, applied)
    BY <1>t, <1>2, <1>4, AppliedGraph
  <2>3. obs' \in Observation /\ rec' \in {rec, ScheduleRecovered(rec)}
    BY <2>1, <2>2, <1>t
  <2> QED
    BY <1>4, <2>1, <2>2, <2>3, <1>t, <1>u, <1>r, EngineKept
<1>5. CASE /\ o.code # "ok"
           /\ applied = NoConfig
           /\ native' = o.native
           /\ IF cfg.active
              THEN /\ applied' = cfg
                   /\ obs' = [obs EXCEPT !.state = "Degraded", !.fault = o.code]
                   /\ rec' = ScheduleFault(rec, ClassifyInitialFault(o.code))
              ELSE UNCHANGED <<applied, obs, rec>>
  <2>1. CASE cfg.active
    <3> DEFINE r == ScheduleFault(rec, ClassifyInitialFault(o.code))
               d == [obs EXCEPT !.state = "Degraded", !.fault = o.code]
    <3>1. r \in Schedule /\ r.phase # "Attempting"
      BY <1>t, ScheduledFault, ClassifiedFault
    <3>2. d \in Observation
      BY <1>t, <1>2, <1>5 DEF Observation
    <3>3. applied' = cfg /\ obs' = d /\ rec' = r
      BY <1>5, <2>1
    <3> HIDE DEF r, d
    <3> QED
      BY <1>5, <3>1, <3>2, <3>3, <1>t, <1>u, <1>2, EngineKept
  <2>2. CASE ~cfg.active
    BY <1>5, <2>2, <1>t, <1>u, <1>2, EngineKept
  <2> QED
    BY <2>1, <2>2
<1> QED
  BY <1>1, <1>3, <1>4, <1>5

LEMMA InputsStep ==
    ASSUME EngineInv, HandleInputs
    PROVE  EngineInv'
<1>t. /\ world \in World /\ native \in Native /\ applied \in Configs \cup {NoConfig}
      /\ meter \in BOOLEAN /\ obs \in Observation /\ rec \in Schedule
      /\ resetWait \in 0..RESET_INTERVAL
      /\ applied # NoConfig => Respects(native.graph, applied)
      /\ rec.phase # "Attempting"
  BY EngineTypes
<1>u. UNCHANGED <<world, applied, meter, rec, resetWait>> /\ at' = "service"
  BY DEF HandleInputs, Received
<1>1. CASE EnsureConnection(native) = {}
  BY <1>1, <1>t, <1>u, EngineKept DEF HandleInputs
<1>2. CASE EnsureConnection(native) # {}
  <2>1. PICK m \in UNION {Dispatch(c) : c \in EnsureConnection(native)} :
          /\ native' = SnapshotNow(m)
          /\ obs' = [OrDefault(obs) EXCEPT !.devices = m.view.cands,
                                           !.named = @ \/ obs.state = "absent"]
    BY <1>2 DEF HandleInputs
  <2>2. PICK c \in EnsureConnection(native) : m \in Dispatch(c)
    OBVIOUS
  <2>3. m \in Native /\ m.graph = native.graph
    BY <1>t, <2>2, EnsuredConnection, DispatchedView
  <2>4. native' \in Native /\ native'.graph = native.graph
    BY <2>1, <2>3, PublishedView
  <2>5. OrDefault(obs) \in Observation /\ m.view.cands \in SUBSET Device
    BY <1>t, <2>3 DEF OrDefault, Observation, Native, View
  <2> DEFINE name == OrDefault(obs).named \/ obs.state = "absent"
  <2>6. obs' = [OrDefault(obs) EXCEPT !.devices = m.view.cands, !.named = name]
    BY <2>1
  <2>7. name \in BOOLEAN
    OBVIOUS
  <2> HIDE DEF name
  <2>8. obs' \in Observation
    BY <2>5, <2>6, <2>7 DEF Observation
  <2> QED
    BY <1>t, <1>u, <2>4, <2>8, EngineKept
<1> QED
  BY <1>1, <1>2

LEMMA ObserveStep ==
    ASSUME EngineInv, HandleObserve
    PROVE  EngineInv'
<1>t. /\ world \in World /\ native \in Native /\ applied \in Configs \cup {NoConfig}
      /\ meter \in BOOLEAN /\ obs \in Observation /\ rec \in Schedule
      /\ resetWait \in 0..RESET_INTERVAL
      /\ applied # NoConfig => Respects(native.graph, applied)
      /\ rec.phase # "Attempting"
  BY EngineTypes
<1>u. UNCHANGED <<world, native, applied, meter, rec, resetWait>> /\ at' = "service"
  BY DEF HandleObserve, Received
<1>1. OrDefault(obs) \in Observation
  BY <1>t DEF OrDefault, Observation
<1>2. ObserveGraph(native.graph, Active, obs.named, obs.devices) \in Observation
  <2>1. Active \in BOOLEAN
    BY DEF Active
  <2> QED
    BY <1>t, <2>1 DEF ObserveGraph, Observation, ErrorCode
<1>3. obs' \in Observation
  BY <1>1, <1>2 DEF HandleObserve
<1> QED
  BY <1>t, <1>u, <1>3, EngineKept

LEMMA MeterStep ==
    ASSUME EngineInv, NEW enabled \in BOOLEAN, HandleMeter(enabled)
    PROVE  EngineInv'
<1>t. /\ world \in World /\ native \in Native /\ applied \in Configs \cup {NoConfig}
      /\ meter \in BOOLEAN /\ obs \in Observation /\ rec \in Schedule
      /\ resetWait \in 0..RESET_INTERVAL
      /\ applied # NoConfig => Respects(native.graph, applied)
      /\ rec.phase # "Attempting"
  BY EngineTypes
<1>u. UNCHANGED <<world, applied, rec, resetWait>> /\ at' = "service"
  BY DEF HandleMeter, Received
<1>1. CASE applied = NoConfig
  BY <1>1, <1>t, <1>u, EngineKept DEF HandleMeter
<1>2. CASE applied # NoConfig
  <2>1. PICK o \in ApplyNative(native, applied, obs, applied, enabled) :
          /\ native' = o.native /\ obs' = o.obs
          /\ meter' = IF o.code = "ok" THEN enabled ELSE meter
    BY <1>2 DEF HandleMeter
  <2>2. /\ o.native \in Native /\ o.obs \in Observation
        /\ Respects(o.native.graph, applied)
    BY <1>t, <1>2, AppliedGraph
  <2>3. meter' \in BOOLEAN
    BY <2>1, <1>t
  <2> QED
    BY <1>t, <1>u, <2>1, <2>2, <2>3, EngineKept
<1> QED
  BY <1>1, <1>2

\* A pass of the loop as a whole: what it leaves is right, and a wanted graph
\* that it took away is scheduled and reported.
LEMMA ServicePass ==
    ASSUME EngineInv, ServiceNative
    PROVE  /\ EngineInv'
           /\ native.graph # NoGraph /\ native'.graph = NoGraph /\ Wanted
                 => rec'.phase = "Backoff" /\ obs'.state = "Degraded"
<1>t. /\ world \in World /\ native \in Native /\ applied \in Configs \cup {NoConfig}
      /\ meter \in BOOLEAN /\ obs \in Observation /\ rec \in Schedule
      /\ resetWait \in 0..RESET_INTERVAL
      /\ applied # NoConfig => Respects(native.graph, applied)
      /\ rec.phase # "Attempting"
  BY EngineTypes
<1>u. UNCHANGED <<world, applied, meter>> /\ at' = "recv"
  BY DEF ServiceNative
<1>1. PICK n \in IF native.conn THEN Dispatch(native) ELSE {native} :
         LET dispatched == AfterCoreFailure([Owner EXCEPT !.native = n])
         IN \E g \in AfterGraph(AfterRegistry(dispatched), SnapshotDue(dispatched)) :
              \E s \in AfterRecovery(g) :
                /\ native' = s.native
                /\ obs' = s.obs
                /\ rec' = s.rec
                /\ resetWait' = s.resetWait
  BY DEF ServiceNative
<1> DEFINE begun == [Owner EXCEPT !.native = n]
           dispatched == AfterCoreFailure(begun)
           published == AfterRegistry(dispatched)
<1>2. PICK g \in AfterGraph(published, SnapshotDue(dispatched)) :
         \E s \in AfterRecovery(g) :
            native' = s.native /\ obs' = s.obs /\ rec' = s.rec /\ resetWait' = s.resetWait
  BY <1>1
<1>3. PICK s \in AfterRecovery(g) :
         native' = s.native /\ obs' = s.obs /\ rec' = s.rec /\ resetWait' = s.resetWait
  BY <1>2
<1>4. n \in Native /\ n.graph = native.graph
  BY <1>t, DispatchedView
<1>5. begun \in OwnerState /\ begun.rec.phase # "Attempting" /\ begun.native = n
  BY <1>t, <1>4 DEF Owner, OwnerState
<1> HIDE DEF begun
<1>6. dispatched \in OwnerState /\ Kept(begun, dispatched)
  BY <1>5, CoreFailureStage
<1> HIDE DEF dispatched
<1>7. /\ published \in OwnerState /\ published.native.graph = dispatched.native.graph
      /\ published.rec = dispatched.rec /\ published.obs.state = dispatched.obs.state
  BY <1>6, RegistryStage DEF Kept
<1> HIDE DEF published
<1>8. Kept(begun, published) /\ published.rec.phase # "Attempting"
  BY <1>6, <1>7 DEF Kept
<1>9. g \in OwnerState /\ Kept(published, g)
  BY <1>7, <1>8, GraphStage
<1>10. Kept(begun, g) /\ g.rec.phase # "Attempting"
  BY <1>8, <1>9, KeptTwice DEF Kept
<1>11. applied # NoConfig => Respects(g.native.graph, applied)
  BY <1>t, <1>4, <1>5, <1>10 DEF Kept, Respects
<1>12. /\ s \in OwnerState /\ s.rec.phase # "Attempting"
       /\ applied # NoConfig => Respects(s.native.graph, applied)
       /\ Wanted /\ s.native.graph = NoGraph /\ g.native.graph = NoGraph
          /\ g.obs.state = "Degraded" /\ g.rec.phase = "Backoff"
             => s.obs.state = "Degraded" /\ s.rec.phase = "Backoff"
       /\ g.native.graph # NoGraph => s.native.graph # NoGraph
  BY <1>t, <1>9, <1>10, <1>11, RecoveryStage
<1>13. native.graph # NoGraph /\ g.native.graph = NoGraph
          => g.obs.state = "Degraded" /\ g.rec.phase = "Backoff"
  BY <1>4, <1>5, <1>10 DEF Kept
<1>14. EngineInv'
  <2>1. s.native \in Native /\ s.obs \in Observation /\ s.rec \in Schedule
        /\ s.resetWait \in 0..RESET_INTERVAL
    BY <1>12 DEF OwnerState
  <2> QED
    BY <1>t, <1>u, <1>3, <1>12, <2>1, EngineKept
<1> QED
  BY <1>3, <1>12, <1>13, <1>14

LEMMA EnvironmentStep ==
    ASSUME EngineInv, CaptureReset \/ Tick \/ Disturbance
    PROVE  EngineInv'
<1>t. /\ world \in World /\ native \in Native /\ applied \in Configs \cup {NoConfig}
      /\ meter \in BOOLEAN /\ obs \in Observation /\ rec \in Schedule
      /\ resetWait \in 0..RESET_INTERVAL /\ at \in {"recv", "service"}
      /\ applied # NoConfig => Respects(native.graph, applied)
      /\ rec.phase # "Attempting"
  BY EngineTypes
<1>g. native.graph # NoGraph => native.graph \in Graph
  BY <1>t, NativeGraph
<1>1. ASSUME NEW to \in {"up", "refusing", "down"}, ServerChange(to) PROVE EngineInv'
  <2>1. world' \in World
    BY <1>t, <1>1 DEF ServerChange, World
  <2>2. native' \in Native /\ native'.graph = native.graph
    <3> DEFINE failure == native.failure \/ (native.conn /\ to = "down")
    <3>1. native' = [native EXCEPT !.failure = failure]
      BY <1>1 DEF ServerChange
    <3>2. failure \in BOOLEAN
      OBVIOUS
    <3> HIDE DEF failure
    <3> QED
      BY <1>t, <3>1, <3>2 DEF Native
  <2> QED
    BY <1>t, <1>1, <2>1, <2>2, EngineKept DEF ServerChange
<1>2. ASSUME NEW d \in Device, DeviceChange(d) PROVE EngineInv'
  <2>1. world' \in World
    <3> DEFINE cands == IF d \in world.cands THEN world.cands \ {d} ELSE world.cands \cup {d}
    <3>1. world' = [world EXCEPT !.cands = cands] /\ cands \in SUBSET Device
      BY <1>t, <1>2 DEF DeviceChange, World
    <3> HIDE DEF cands
    <3> QED
      BY <1>t, <3>1 DEF World
  <2> QED
    BY <1>t, <1>2, <2>1, EngineKept DEF DeviceChange
<1>3. ASSUME NEW d \in Device \cup {NoDevice}, DefaultChange(d) PROVE EngineInv'
  <2>1. world' \in World
    BY <1>t, <1>3 DEF DefaultChange, World
  <2> QED
    BY <1>t, <1>3, <2>1, EngineKept DEF DefaultChange
<1>4. ASSUME NEW g \in Graph, g.target = native.graph.target, native.graph # NoGraph,
             native' = [native EXCEPT !.graph = g],
             UNCHANGED <<world, applied, meter, obs, rec, resetWait, at>>
      PROVE  EngineInv'
  <2>1. native' \in Native /\ native'.graph = g
    BY <1>t, <1>4 DEF Native
  <2>2. applied # NoConfig => Respects(g, applied)
    BY <1>t, <1>4 DEF Respects
  <2> QED
    BY <1>t, <1>4, <2>1, <2>2, EngineKept
<1>5. ASSUME NEW side \in {"capture", "source"}, StreamFault(side) PROVE EngineInv'
  <2> DEFINE g == [native.graph EXCEPT !.health = side]
  <2>1. native' = [native EXCEPT !.graph = g] /\ native.graph # NoGraph
        /\ UNCHANGED <<world, applied, meter, obs, rec, resetWait, at>>
    BY <1>5, <1>t DEF StreamFault, Native
  <2>2. g \in Graph /\ g.target = native.graph.target
    BY <1>g, <2>1 DEF Graph
  <2> HIDE DEF g
  <2> QED
    BY <1>4, <2>1, <2>2
<1>6. ASSUME LiveFailure PROVE EngineInv'
  <2> DEFINE g == [native.graph EXCEPT !.live = "Failed"]
  <2>1. native' = [native EXCEPT !.graph = g] /\ native.graph # NoGraph
        /\ UNCHANGED <<world, applied, meter, obs, rec, resetWait, at>>
    BY <1>6, <1>t DEF LiveFailure, MayCapture, Native
  <2>2. g \in Graph /\ g.target = native.graph.target
    BY <1>g, <2>1 DEF Graph
  <2> HIDE DEF g
  <2> QED
    BY <1>4, <2>1, <2>2
<1>7. ASSUME CaptureReset PROVE EngineInv'
  <2> DEFINE g == [native.graph EXCEPT !.reset = FALSE, !.live = "Running"]
  <2>1. native' = [native EXCEPT !.graph = g] /\ native.graph # NoGraph
        /\ UNCHANGED <<world, applied, meter, obs, rec, resetWait, at>>
    BY <1>7, <1>t DEF CaptureReset, MayCapture, Native
  <2>2. g \in Graph /\ g.target = native.graph.target
    BY <1>g, <2>1 DEF Graph
  <2> HIDE DEF g
  <2> QED
    BY <1>4, <2>1, <2>2
<1>8. ASSUME Tick PROVE EngineInv'
  <2>1. rec' \in Schedule /\ rec'.phase # "Attempting"
    BY <1>t, <1>8, ScheduledEnd DEF Tick
  <2>2. native' \in Native /\ native'.graph = native.graph
    <3> DEFINE left == IF native.dirty > 0 THEN native.dirty - 1 ELSE native.dirty
    <3>1. native' = [native EXCEPT !.dirty = left]
      BY <1>8 DEF Tick
    <3>2. left \in {Clean} \cup 0..COALESCE
      BY <1>t, TimerAssumption DEF Native, Clean
    <3> HIDE DEF left
    <3> QED
      BY <1>t, <3>1, <3>2 DEF Native
  <2>3. resetWait' \in 0..RESET_INTERVAL
    BY <1>t, <1>8, TimerAssumption DEF Tick, SaturatingSub
  <2> QED
    BY <1>t, <1>8, <2>1, <2>2, <2>3, EngineKept DEF Tick
<1> QED
  BY <1>1, <1>2, <1>3, <1>5, <1>6, <1>7, <1>8 DEF Disturbance

LEMMA EngineNext == EngineInv /\ [Next]_vars => EngineInv'
<1> SUFFICES ASSUME EngineInv, [Next]_vars PROVE EngineInv'
  OBVIOUS
<1>1. ASSUME NEW cfg \in Configs, HandleApply(cfg) PROVE EngineInv'
  BY <1>1, ApplyStep
<1>2. CASE HandleInputs
  BY <1>2, InputsStep
<1>3. CASE HandleObserve
  BY <1>3, ObserveStep
<1>4. ASSUME NEW enabled \in BOOLEAN, HandleMeter(enabled) PROVE EngineInv'
  BY <1>4, MeterStep
<1>5. CASE NoCommand
  <2>1. UNCHANGED <<world, native, applied, meter, obs, rec, resetWait>> /\ at' = "service"
    BY <1>5 DEF NoCommand, Received
  <2> QED
    BY <2>1, EngineTypes, EngineKept
<1>6. CASE ServiceNative
  BY <1>6, ServicePass
<1>7. CASE CaptureReset \/ Tick \/ Disturbance
  BY <1>7, EnvironmentStep
<1>8. CASE UNCHANGED vars
  BY <1>8, EngineTypes, EngineKept DEF vars
<1> QED
  BY <1>1, <1>2, <1>3, <1>4, <1>5, <1>6, <1>7, <1>8 DEF Next, Commands

\* The owner thread's state stays within its types.
THEOREM EngineTypeCorrect == Spec => []TypeOK
<1>1. EngineInv => TypeOK
  BY DEF EngineInv
<1> QED
  BY EngineInit, EngineNext, <1>1, PTL DEF Spec

\* Audio never comes from a microphone the user did not choose.
THEOREM SelectionIsRespected == Spec => []SelectedInputRespected
<1>1. EngineInv => SelectedInputRespected
  BY DEF EngineInv
<1> QED
  BY EngineInit, EngineNext, <1>1, PTL DEF Spec

\* A service pass never drops a wanted graph and forgets it.
THEOREM LostGraphIsRecovered == Spec => LostGraphRecovers
<1> DEFINE A == /\ at = "service" /\ at' = "recv"
                /\ native.graph # NoGraph /\ native'.graph = NoGraph
                /\ Wanted
                => rec'.phase = "Backoff" /\ obs'.state = "Degraded"
<1>1. EngineInv /\ [Next]_vars => [A]_vars
  <2> SUFFICES ASSUME EngineInv, Next, at = "service", at' = "recv" PROVE A
    BY DEF vars
  <2>1. ServiceNative
    BY DEF Next, Commands, HandleApply, HandleInputs, HandleObserve, HandleMeter, NoCommand,
           Received, CaptureReset, Tick, Disturbance, ServerChange, DeviceChange, DefaultChange,
           StreamFault, LiveFailure
  <2> QED
    BY <2>1, ServicePass
<1> QED
  BY EngineInit, EngineNext, <1>1, PTL DEF Spec, LostGraphRecovers
=============================================================================
