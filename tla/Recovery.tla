------------------------------ MODULE Recovery ------------------------------
(***************************************************************************)
(* The whole RecoveryController of crates/noired/src/recovery.rs: the      *)
(* schedule of RecoveryOps together with the generation and the counters.  *)
(* Every public operation is an action a caller may invoke at any time, so *)
(* what is shown here holds for every caller; NativeEngine models the one  *)
(* caller there is.                                                        *)
(***************************************************************************)
EXTENDS RecoveryOps

CONSTANT U64Max    \* largest value of the u64 counters

ASSUME U64Assumption == U64Max \in Nat \ {0}

VARIABLES
    schedule,     \* phase, fault, attempt and (relative) due_millis
    generation,   \* monotonic graph generation
    stats         \* RecoveryStats

recoveryVars == <<schedule, generation, stats>>

Counter == 0..U64Max
RecoveryStats ==
    [faults : Counter, attempts : Counter, recoveries : Counter, failures : Counter]

RecoveryTypeOK ==
    /\ schedule \in Schedule
    /\ generation \in Counter
    /\ stats \in RecoveryStats

RecoveryInit ==
    /\ schedule = Idle
    /\ generation = 0
    /\ stats = [faults |-> 0, attempts |-> 0, recoveries |-> 0, failures |-> 0]

Bump(n) == SaturatingInc(n, U64Max)

-----------------------------------------------------------------------------
(* The operations.                                                         *)

Fault(f) ==
    /\ schedule' = ScheduleFault(schedule, f)
    /\ IF schedule.phase = "Healthy"
       THEN /\ generation' = Bump(generation)
            /\ stats' = [stats EXCEPT !.faults = Bump(@)]
       ELSE UNCHANGED <<generation, stats>>

Poll ==
    /\ PollDue(schedule)
    /\ schedule' = SchedulePoll(schedule)
    /\ stats' = [stats EXCEPT !.attempts = Bump(@)]
    /\ UNCHANGED generation

Failed(elapsed) ==
    /\ schedule.phase = "Attempting"
    /\ schedule' = ScheduleFailed(schedule, elapsed)
    /\ stats' = [stats EXCEPT !.failures = Bump(@)]
    /\ UNCHANGED generation

Recovered ==
    /\ schedule.phase # "Healthy"
    /\ schedule' = ScheduleRecovered(schedule)
    /\ stats' = [stats EXCEPT !.recoveries = Bump(@)]
    /\ UNCHANGED generation

Stop ==
    /\ schedule' = ScheduleStop(schedule)
    /\ UNCHANGED <<generation, stats>>

RecoveryTick ==
    /\ schedule.wait > 0
    /\ schedule' = TickDown(schedule)
    /\ UNCHANGED <<generation, stats>>

RecoveryNext ==
    \/ \E f \in RecoveryFault : Fault(f)
    \/ Poll
    \/ Recovered
    \/ \E elapsed \in 0..MaxElapsed : Failed(elapsed)
    \/ Stop
    \/ RecoveryTick

RecoverySpec == RecoveryInit /\ [][RecoveryNext]_recoveryVars

-----------------------------------------------------------------------------
(* Properties.                                                             *)

\* A fault is recorded exactly while an episode is open, so poll's
\* "let fault = self.fault?" never leaves a Backoff phase that no poll can
\* end; and an attempt is numbered from one while it is in progress.
EpisodeHasFault ==
    /\ (schedule.phase # "Healthy") <=> (schedule.fault # NoFault)
    /\ schedule.phase = "Attempting" => schedule.attempt >= 1 /\ schedule.wait = 0

\* The wait never exceeds the delay of the attempts made so far: the first
\* attempt of an episode is immediate (attempt = 0 waits for nothing) and no
\* later one waits longer than its capped exponential delay.
WaitWithinDelay ==
    schedule.wait <= IF schedule.attempt = 0 THEN 0 ELSE Delay(schedule.attempt)

\* The counters agree with each other whatever the order of calls: every
\* episode counted as recovered was counted as a fault, every failure as an
\* attempt, the open episode and the open attempt included, until a counter
\* saturates; and the generation counts the fault episodes.
CountersAgree ==
    /\ generation = stats.faults
    /\ \/ stats.faults = U64Max
       \/ stats.recoveries + (IF schedule.phase = "Healthy" THEN 0 ELSE 1) <= stats.faults
    /\ \/ stats.attempts = U64Max
       \/ stats.failures + (IF schedule.phase = "Attempting" THEN 1 ELSE 0) <= stats.attempts

\* "Repeated reports during the same episode do not postpone the existing
\* attempt": while the controller stays in Backoff its deadline only nears.
NeverPostponed ==
    [][schedule.phase = "Backoff" /\ schedule'.phase = "Backoff" => schedule'.wait <= schedule.wait]_recoveryVars

\* A Core fault is never downgraded within an episode: a later stream or
\* input report must not hide that the connection itself is gone.
CoreSticky ==
    [][schedule.fault = "Core" /\ schedule'.phase # "Healthy" => schedule'.fault = "Core"]_recoveryVars
=============================================================================
