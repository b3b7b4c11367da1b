---------------------------- MODULE RecoveryOps ----------------------------
(***************************************************************************)
(* The scheduling half of noired's RecoveryController                      *)
(* (crates/noired/src/recovery.rs): the operations fault, poll, failed,    *)
(* recovered and stop as functions on a record                             *)
(*                                                                         *)
(*   r = [phase, fault, attempt, wait]                                     *)
(*                                                                         *)
(* The code stores an absolute deadline due_millis and is passed now_millis*)
(* by its caller.  Both come from one monotonic clock, and due_millis is   *)
(* only ever compared with the current time, so the record keeps the       *)
(* difference: wait is due_millis minus now, and 0 once the deadline has   *)
(* passed.  Time passing is TickDown.  "now_millis < due_millis" reads     *)
(* wait > 0, and a deadline at or before now reads wait = 0.               *)
(***************************************************************************)
EXTENDS Integers

CONSTANTS
    INITIAL_BACKOFF,   \* INITIAL_BACKOFF_MS, in clock units
    MAX_BACKOFF,       \* MAX_BACKOFF_MS, in clock units
    U32Max,            \* largest value of the u32 attempt counter
    MaxElapsed         \* longest recovery attempt, in clock units

ASSUME BackoffAssumption ==
    /\ INITIAL_BACKOFF \in Nat \ {0}
    /\ MAX_BACKOFF \in Nat \ {0}
    /\ INITIAL_BACKOFF <= MAX_BACKOFF
ASSUME U32Assumption == U32Max \in Nat \ {0}
ASSUME ElapsedAssumption == MaxElapsed \in Nat

NoFault == "none"
RecoveryFault ==
    {"Core", "CaptureStream", "SourceStream", "InputUnavailable", "DefaultChanged"}
RecoveryPhase == {"Healthy", "Backoff", "Attempting"}

Schedule == [phase : RecoveryPhase, fault : RecoveryFault \cup {NoFault},
             attempt : 0..U32Max, wait : 0..MAX_BACKOFF]

\* saturating_add(1), min and saturating_sub of Rust's unsigned integers.
SaturatingInc(n, max) == IF n < max THEN n + 1 ELSE max
SaturatingSub(m, n) == IF m >= n THEN m - n ELSE 0
Least(m, n) == IF m <= n THEN m ELSE n

\* 1 << exponent, for the exponents 0..6 that "failed" can compute.
PowersOfTwo == <<1, 2, 4, 8, 16, 32, 64>>

\* The capped exponential delay after the given number of attempts.
Delay(attempt) ==
    Least(INITIAL_BACKOFF * PowersOfTwo[Least(SaturatingSub(attempt, 1), 6) + 1],
          MAX_BACKOFF)

Idle == [phase |-> "Healthy", fault |-> NoFault, attempt |-> 0, wait |-> 0]

\* Mutant: every report of an open episode starts its delay anew.
RearmingFault(r, f) ==
    IF r.phase # "Healthy"
    THEN [r EXCEPT !.fault = IF f = "Core" THEN f ELSE @, !.wait = Delay(r.attempt)]
    ELSE [phase |-> "Backoff", fault |-> f, attempt |-> 0, wait |-> 0]

\* A report during an episode changes the schedule only when it upgrades the
\* episode to Core, which brings the next attempt forward to now.
ScheduleFault(r, f) ==
    IF r.phase # "Healthy"
    THEN IF f = "Core" /\ r.fault # "Core"
         THEN [r EXCEPT !.fault = "Core", !.wait = 0]
         ELSE r
    ELSE [phase |-> "Backoff", fault |-> f, attempt |-> 0, wait |-> 0]

\* poll returns Some exactly when it is due, and then the phase is Attempting.
PollDue(r) == r.phase = "Backoff" /\ r.wait = 0 /\ r.fault # NoFault

SchedulePoll(r) ==
    IF PollDue(r)
    THEN [r EXCEPT !.phase = "Attempting",
                   !.attempt = SaturatingInc(r.attempt, U32Max)]
    ELSE r

\* The delay counts from the now_millis the caller passes; "elapsed" is how
\* far the clock has moved past it by the time failed returns.
ScheduleFailed(r, elapsed) ==
    IF r.phase # "Attempting"
    THEN r
    ELSE [r EXCEPT !.phase = "Backoff",
                   !.wait = SaturatingSub(Delay(r.attempt), elapsed)]

ScheduleRecovered(r) == IF r.phase = "Healthy" THEN r ELSE Idle

ScheduleStop(r) == Idle

\* One unit of monotonic time passes.
TickDown(r) == [r EXCEPT !.wait = SaturatingSub(@, 1)]
=============================================================================
