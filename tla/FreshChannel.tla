---------------------------- MODULE FreshChannel ----------------------------
(***************************************************************************)
(* What the transport between the capture and the source callback promises,*)
(* whatever its ring, tags and atomics are.  Samples are numbered in the   *)
(* order in which they were captured.  The channel may lose any of them,   *)
(* but the reader hears each at most once and in order, and a callback     *)
(* never hears one that was invalidated before the callback began.         *)
(***************************************************************************)
EXTENDS Integers

VARIABLES
    captured,     \* number of the newest sample handed to the channel
    invalidated,  \* samples up to here are not to be heard any more
    accepted,     \* the invalidation the reader has taken over
    listening,    \* a callback has begun and may hear a block
    heard         \* first and last sample of the newest block heard

fcvars == <<captured, invalidated, accepted, listening, heard>>

FCInit ==
    /\ captured = 0 /\ invalidated = 0
    /\ accepted = 0 /\ listening = FALSE
    /\ heard = [first |-> 0, last |-> 0]

\* A block is captured; the channel may keep it or drop it.
Capture ==
    /\ captured' > captured
    /\ UNCHANGED <<invalidated, accepted, listening, heard>>

Invalidate ==
    /\ invalidated' = captured
    /\ UNCHANGED <<captured, accepted, listening, heard>>

\* The reader may take an invalidation over between callbacks; one that begins
\* a callback must.
TakeOver ==
    /\ ~listening
    /\ accepted' = invalidated
    /\ listening' \in BOOLEAN
    /\ UNCHANGED <<captured, invalidated, heard>>

HearNothing ==
    /\ listening /\ listening' = FALSE
    /\ UNCHANGED <<captured, invalidated, accepted, heard>>

\* A callback that finds too little audio invalidates what is left.
GiveUp ==
    /\ listening /\ listening' = FALSE
    /\ invalidated' = captured
    /\ UNCHANGED <<captured, accepted, heard>>

Hear ==
    /\ listening /\ listening' = FALSE
    /\ \E first, last \in 1..captured :
         /\ heard.last < first /\ accepted < first
         /\ first <= last
         /\ heard' = [first |-> first, last |-> last]
    /\ UNCHANGED <<captured, invalidated, accepted>>

FCNext == Capture \/ Invalidate \/ TakeOver \/ HearNothing \/ GiveUp \/ Hear

FCSpec == FCInit /\ [][FCNext]_fcvars
=============================================================================
