---------------------------- MODULE ClientWorker ----------------------------
(***************************************************************************)
(* The background workers of the desktop program (client.rs, worker_loop   *)
(* and serve_connection), each with its bounded request and response       *)
(* channels, against the daemon's D-Bus object (service.rs).               *)
(*                                                                         *)
(* The daemon is what its clients can see of it: the intent, the startup   *)
(* preference and its signals.  Its revision appears as "fresh": whether   *)
(* the number a worker fetched is still the current one.  A burst of       *)
(* signals is one signal, since one refresh after the last of them shows   *)
(* the same as one after each.  Inputs, meters and error texts are left    *)
(* out, and the time-outs of a reconnection are only its order.            *)
(***************************************************************************)
EXTENDS Integers, Sequences

CONSTANTS
    Worker,            \* the workers, one of the tray and one of each window
    Tray,              \* the tray's, the only one that leaves out the meters
    RequestCapacity,   \* capacity of the tokio channel
    ResponseCapacity,  \* capacity of the sync_channel
    MaxChanges,        \* bound on what others do to the daemon
    NoSnapshot         \* Option<Snapshot>::None

ASSUME TrayAssumption == Tray \in Worker
ASSUME ChannelAssumption ==
    RequestCapacity \in Nat \ {0} /\ ResponseCapacity \in Nat \ {0} /\ MaxChanges \in Nat

VARIABLES
    daemon,     \* whether it runs, the intent, the startup preference, and whether
                \* the metering can be switched on
    fresh,      \* the revision the worker fetched for its call is the daemon's
    signal,     \* a StateChanged is waiting in the worker's streams
    owner,      \* what the worker's owner stream has to tell
    requests,   \* the worker's request channel
    responses,  \* the worker's response channel
    attached,   \* the other ends of the channels exist
    worker,     \* what the worker is doing, for which request
    blind,      \* history: the connection began with a report, and showed no state
                \* yet, or was refused the meters, and there has been none since
    changes     \* what others have done so far

service == <<daemon, fresh, signal>>
channels == <<requests, responses, attached>>
working == <<worker, blind>>
clientvars == <<service, owner, channels, working, changes>>

Mutation == {"start", "stop", "set"}
Request == Mutation \cup {"refresh", "diagnostics", "shutdown"}
Snapshot == [active : BOOLEAN]
Response ==
    [kind : {"state", "rejected", "diagnostics"}, snapshot : Snapshot \cup {NoSnapshot},
     start : BOOLEAN, complete : BOOLEAN]
\* A refresh that follows a signal is no request: it is an "update".
Reason == Request \cup {"update"}
Stage == {"receive", "connect", "fetch", "call", "answer", "serve", "reconnect", "gone"}

ClientTypeOK ==
    /\ daemon \in [up : BOOLEAN, active : BOOLEAN, start : BOOLEAN, meters : BOOLEAN]
    /\ fresh \in [Worker -> BOOLEAN] /\ signal \in [Worker -> BOOLEAN]
    /\ owner \in [Worker -> {"same", "new", "lost"}]
    /\ requests \in [Worker -> Seq(Request)] /\ responses \in [Worker -> Seq(Response)]
    /\ \A w \in Worker : /\ Len(requests[w]) <= RequestCapacity
                         /\ Len(responses[w]) <= ResponseCapacity
    /\ attached \in [Worker -> BOOLEAN]
    /\ worker \in [Worker -> [at : Stage, request : Reason, complete : BOOLEAN,
                              reply : Response]]
    /\ blind \in [Worker -> BOOLEAN] /\ changes \in 0..MaxChanges

-----------------------------------------------------------------------------
(* The daemon as its D-Bus object shows it.                                *)

Everyone(value) == [w \in Worker |-> value]

\* The workers whose connection has its streams.
Connected(w) == worker[w].at \in {"fetch", "call", "answer", "serve"}

\* publish: StateChanged reaches every connection, changed or not.
Signalled == signal' = [w \in Worker |-> signal[w] \/ Connected(w)]

Intent(request) ==
    CASE request = "start" -> TRUE [] request = "stop" -> FALSE [] OTHER -> daemon.active

\* start, stop, the setters, of the startup preference too, and retry succeed;
\* an unchanged intent keeps the revision.
Committed(request) ==
    /\ \E start \in IF request = "set" THEN BOOLEAN ELSE {daemon.start} :
         daemon' = [daemon EXCEPT !.active = Intent(request), !.start = start]
    /\ fresh' = IF request # "set" /\ Intent(request) = daemon.active THEN fresh ELSE Everyone(FALSE)
    /\ Signalled

\* One more of the things nobody asked for.
Disturbed == changes < MaxChanges /\ changes' = changes + 1

\* What others do: another client's change, a microphone that comes or goes,
\* and the daemon's end, on which nobody waits for its signals any more.
Change ==
    /\ Disturbed
    /\ daemon.up
    /\ \/ /\ \E request \in Mutation : Committed(request)
          /\ UNCHANGED owner
       \/ /\ daemon' = [daemon EXCEPT !.meters = ~@]
          /\ UNCHANGED <<fresh, signal, owner>>
       \/ /\ daemon' = [daemon EXCEPT !.up = FALSE]
          /\ owner' = [w \in Worker |-> IF Connected(w) THEN "lost" ELSE owner[w]]
          /\ UNCHANGED <<fresh, signal>>
    /\ UNCHANGED <<channels, working>>

\* The daemon starts, activated by the bus or the session manager, with the
\* startup preference as its intent and a revision of its own.
Restart ==
    /\ ~daemon.up
    /\ daemon' = [daemon EXCEPT !.up = TRUE, !.active = daemon.start]
    /\ fresh' \in {fresh, Everyone(FALSE)}
    /\ owner' = [w \in Worker |-> IF Connected(w) /\ owner[w] = "same" THEN "new" ELSE owner[w]]
    /\ UNCHANGED <<signal, channels, working, changes>>

-----------------------------------------------------------------------------
(* The worker.                                                             *)

Now == [active |-> daemon'.active]
State == [kind |-> "state", snapshot |-> Now, start |-> daemon'.start, complete |-> FALSE]
Rejected(recovered) ==
    [kind |-> "rejected", snapshot |-> recovered, start |-> FALSE, complete |-> FALSE]
Report == [kind |-> "diagnostics", snapshot |-> NoSnapshot, start |-> FALSE, complete |-> TRUE]

Step(at) == [at |-> at, request |-> "refresh", complete |-> FALSE, reply |-> Rejected(NoSnapshot)]

\* with_completion: the answer, marked with whether it ends a request.
Answering(w, reply) ==
    worker' = [worker EXCEPT ![w].at = "answer",
                             ![w].reply = [reply EXCEPT !.complete = worker[w].complete]]

\* Takes the next request; it all ends with a Shutdown.
Take(w, next) ==
    /\ requests[w] # <<>>
    /\ requests' = [requests EXCEPT ![w] = Tail(@)]
    /\ worker' = [worker EXCEPT ![w] =
         IF Head(requests[w]) = "shutdown" THEN Step("gone")
         ELSE [Step(next) EXCEPT !.request = Head(requests[w]), !.complete = TRUE]]

\* worker_loop: the first request, or one during the delay of a reconnection,
\* unless the sender is gone and everything it sent has been taken.
Receive(w) ==
    /\ worker[w].at \in {"receive", "reconnect"}
    /\ \/ Take(w, "connect")
       \/ /\ requests[w] = <<>> /\ ~attached[w]
          /\ worker' = [worker EXCEPT ![w] = Step("gone")]
          /\ UNCHANGED requests
    /\ UNCHANGED <<blind, service, owner, responses, attached, changes>>

\* next_reconnect: the delay ends first.
Reconnect(w) ==
    /\ worker[w].at = "reconnect"
    /\ worker' = [worker EXCEPT ![w] = Step("connect")]
    /\ UNCHANGED <<blind, service, owner, channels, changes>>

\* subscribe_meters fails when the metering has to be switched on and cannot,
\* for want of a microphone or otherwise; another client may have it on already.
Refused(w) ==
    /\ w # Tray /\ daemon.up
    /\ \/ ~daemon.meters /\ UNCHANGED changes
       \/ daemon.meters /\ Disturbed

\* A connection with new streams, or none to the bus or to the daemon; a window
\* gives it up again when it is refused the meters.
Connect(w) ==
    /\ worker[w].at = "connect"
    /\ \/ /\ worker' = [worker EXCEPT ![w].at = "fetch"]
          /\ blind' = [blind EXCEPT ![w] = worker[w].request = "diagnostics"]
          /\ UNCHANGED changes
       \/ /\ ~daemon.up
          /\ Answering(w, Rejected(NoSnapshot))
          /\ UNCHANGED <<blind, changes>>
       \/ /\ Refused(w)
          /\ Answering(w, Rejected(NoSnapshot))
          /\ blind' = [blind EXCEPT ![w] = TRUE]
    /\ signal' = [signal EXCEPT ![w] = FALSE]
    /\ owner' = [owner EXCEPT ![w] = "same"]
    /\ UNCHANGED <<daemon, fresh, channels>>

\* recover: the state to return to, unless the daemon does not answer or
\* cannot list its inputs.
Recovering(w) ==
    \/ daemon.up /\ Answering(w, Rejected(Now)) /\ UNCHANGED changes
    \/ ~daemon.up /\ Answering(w, Rejected(NoSnapshot)) /\ UNCHANGED changes
    \/ Disturbed /\ Answering(w, Rejected(NoSnapshot))

\* list_inputs completes the answer, or fails.
Completed(w) ==
    \/ Answering(w, State) /\ UNCHANGED changes
    \/ Disturbed /\ Answering(w, Rejected(Now))

\* execute: the report, or get_snapshot, whose revision a change is sent with.
Fetch(w) ==
    /\ worker[w].at = "fetch"
    /\ LET request == worker[w].request IN
       \/ /\ daemon.up /\ request = "diagnostics"
          /\ UNCHANGED <<service, changes>>
          /\ Answering(w, Report)
       \/ /\ daemon.up /\ request \in {"refresh", "update"}
          /\ UNCHANGED service
          /\ Completed(w)
       \/ /\ daemon.up /\ request \in Mutation
          /\ fresh' = [fresh EXCEPT ![w] = TRUE]
          /\ worker' = [worker EXCEPT ![w].at = "call"]
          /\ UNCHANGED <<daemon, signal, changes>>
       \/ /\ ~daemon.up
          /\ Answering(w, Rejected(NoSnapshot))
          /\ UNCHANGED <<service, changes>>
    /\ blind' = [blind EXCEPT ![w] = @ /\ worker[w].request = "diagnostics"]
    /\ UNCHANGED <<owner, channels>>

\* execute: the change itself, which fails as a conflict on another revision
\* and may fail otherwise.
Call(w) ==
    /\ worker[w].at = "call"
    /\ \/ /\ daemon.up /\ fresh[w]
          /\ Committed(worker[w].request)
          /\ Completed(w)
       \/ /\ UNCHANGED <<daemon, signal>>
          /\ fresh' = [fresh EXCEPT ![w] = FALSE]
          /\ IF daemon.up /\ fresh[w] THEN Disturbed /\ Answering(w, Rejected(Now)) ELSE Recovering(w)
    /\ UNCHANGED <<blind, owner, channels>>

\* responses.send blocks while the channel is full and ends the worker once
\* nobody receives, except where its result is ignored.  An answer without a
\* state ends the connection, but for that of an update, which nobody looks at.
Answer(w) ==
    /\ worker[w].at = "answer"
    /\ LET lost == /\ worker[w].request # "update"
                   /\ worker[w].reply.kind = "rejected" /\ worker[w].reply.snapshot = NoSnapshot IN
       \/ /\ attached[w] /\ Len(responses[w]) < ResponseCapacity
          /\ responses' = [responses EXCEPT ![w] = Append(@, worker[w].reply)]
          /\ worker' = [worker EXCEPT ![w] = Step(IF lost THEN "reconnect" ELSE "serve")]
       \/ /\ ~attached[w]
          /\ UNCHANGED responses
          /\ \/ worker' = [worker EXCEPT ![w] = Step("gone")]
             \/ lost /\ worker' = [worker EXCEPT ![w] = Step("reconnect")]
    /\ UNCHANGED <<service, blind, owner, requests, attached, changes>>

\* serve_connection: a request (recv finds no sender only after a Shutdown, or
\* after an answer that nobody received) ...
ServeRequest(w) ==
    /\ worker[w].at = "serve"
    /\ Take(w, "fetch")
    /\ UNCHANGED <<blind, service, owner, responses, attached, changes>>

\* ... a signal ...
Update == [Step("fetch") EXCEPT !.request = "update"]

ServeSignal(w) ==
    /\ worker[w].at = "serve" /\ signal[w]
    /\ signal' = [signal EXCEPT ![w] = FALSE]
    /\ worker' = [worker EXCEPT ![w] = Update]
    /\ UNCHANGED <<daemon, fresh, blind, owner, channels, changes>>

\* ... or another owner of the daemon's name.
ServeOwner(w) ==
    /\ worker[w].at = "serve" /\ owner[w] # "same"
    /\ owner' = [owner EXCEPT ![w] = "same"]
    /\ worker' = [worker EXCEPT ![w] = IF owner[w] = "new" THEN Update ELSE Step("answer")]
    /\ UNCHANGED <<service, blind, channels, changes>>

WorkerStep(w) ==
    \/ Receive(w) \/ Reconnect(w) \/ Connect(w) \/ Fetch(w) \/ Call(w)
    \/ Answer(w) \/ ServeRequest(w) \/ ServeSignal(w) \/ ServeOwner(w)
============================================================================
