------------------------------ MODULE Desktop ------------------------------
(***************************************************************************)
(* The desktop program (app.rs): windows that come and go, each with a     *)
(* worker of its own, beside the tray's controller; the clicks of a user;  *)
(* and the end of the program, which waits for processing to stop.  A      *)
(* window shows the state of the daemon as its worker last reported it.    *)
(* Of the clicks only those that send something, or that the shared busy   *)
(* flag is about, are modelled.                                            *)
(***************************************************************************)
EXTENDS TrayControl, FiniteSets

CONSTANT MaxClicks \* bound on what the user does

ASSUME ClickAssumption == MaxClicks \in Nat

VARIABLES
    view,      \* of each window's NoireView what decides about requests
    app,       \* the main thread: event loop, waiting in stop_and_shutdown, or ended
    clicks,    \* what the user has done so far
    inactive   \* history: processing was seen off since the program began to end

appvars == <<view, app, clicks, inactive>>
vars == <<clientvars, trayvars, appvars>>

Windows == Worker \ {Tray}

TypeOK ==
    /\ ClientTypeOK /\ TrayTypeOK
    /\ view \in [Windows -> [status : {"never", "unused", "open", "closed"},
                             snapshot : Snapshot \cup {NoSnapshot}, outstanding : Nat,
                             pending : BOOLEAN, changing : BOOLEAN,
                             hint : {"none", "on", "off"}]]
    /\ app \in {"running", "stopping", "confirmed", "unconfirmed"}
    /\ clicks \in 0..MaxClicks /\ inactive \in BOOLEAN

NewView(hint) ==
    [status |-> "open", snapshot |-> NoSnapshot, outstanding |-> 1, pending |-> FALSE,
     changing |-> FALSE, hint |-> hint]

\* run starts the tray's controller; of the windows only some are ever opened.
Init ==
    /\ daemon \in [up : {TRUE}, active : BOOLEAN, start : BOOLEAN, meters : BOOLEAN]
    /\ fresh = Everyone(FALSE) /\ signal = Everyone(FALSE) /\ owner = Everyone("same")
    /\ blind = Everyone(FALSE)
    /\ TrayInit
    /\ requests = [Everyone(<<>>) EXCEPT ![Tray] = IF controller THEN <<"refresh">> ELSE <<>>]
    /\ responses = Everyone(<<>>)
    /\ attached = [w \in Worker |-> w = Tray /\ controller]
    /\ worker = [w \in Worker |-> IF attached[w] THEN Step("receive") ELSE Step("gone")]
    /\ view \in [Windows -> {[NewView("none") EXCEPT !.status = status, !.outstanding = 0] :
                             status \in {"unused", "never"}}]
    /\ app = "running" /\ clicks \in 0..MaxClicks /\ changes \in 0..MaxChanges /\ inactive = FALSE

-----------------------------------------------------------------------------
(* The main thread: windows.                                               *)

IsOpen(w) == view[w].status = "open"
Click == app = "running" /\ clicks < MaxClicks /\ clicks' = clicks + 1

\* show_window and NoireView::new.
OpenWindow(w) ==
    /\ app = "running"
    /\ view[w].status = "unused" /\ ~\E v \in Windows : IsOpen(v)
    /\ view' = [view EXCEPT ![w] = NewView(IF shown THEN "on" ELSE "off")]
    /\ requests' = [requests EXCEPT ![w] = <<"refresh">>]
    /\ attached' = [attached EXCEPT ![w] = TRUE]
    /\ worker' = [worker EXCEPT ![w] = Step("receive")]
    /\ UNCHANGED <<service, blind, owner, responses, changes, trayvars, app, clicks, inactive>>

\* send: try_send into the worker's channel; what does not fit is refused.
Fits(w) == Len(requests[w]) < RequestCapacity
Sending(w, request) == requests' = [requests EXCEPT ![w] = Append(@, request)]

DisplayActive(w) ==
    IF view[w].hint # "none" THEN view[w].hint = "on"
    ELSE view[w].snapshot # NoSnapshot /\ view[w].snapshot.active

\* begin_active_change, with the busy flag taken before the request is sent.
BeginActiveChange(w) ==
    /\ Click /\ IsOpen(w) /\ view[w].snapshot # NoSnapshot /\ ~view[w].pending
    /\ ~busy /\ Fits(w)
    /\ busy' = TRUE
    /\ Sending(w, IF DisplayActive(w) THEN "stop" ELSE "start")
    /\ view' = [view EXCEPT ![w].outstanding = @ + 1, ![w].pending = TRUE, ![w].changing = TRUE]
    /\ UNCHANGED <<service, owner, responses, attached, working, changes, app, inactive>>
    /\ UNCHANGED <<shown, commands, pending, queued_stop, controller, stopped, crossed>>

\* Another setting, or Retry on a toast; the report does not wait for others.
ClickOther(w, request) ==
    /\ Click /\ IsOpen(w) /\ Fits(w)
    /\ request # "diagnostics" => ~view[w].pending
    /\ Sending(w, request)
    /\ view' = [view EXCEPT ![w].outstanding = @ + 1, ![w].pending = (@ \/ request # "diagnostics")]
    /\ UNCHANGED <<service, owner, responses, attached, working, changes, trayvars, app, inactive>>

\* The changes of the intent that wait or are being carried out.
InFlight(w) ==
    Len(SelectSeq(requests[w], LAMBDA request : request \in {"start", "stop"}))
    + (IF worker[w].at \in {"connect", "fetch", "call"} /\ worker[w].request \in {"start", "stop"}
       THEN 1 ELSE 0)

\* complete_request.
Completing(v, complete) ==
    IF complete THEN [v EXCEPT !.outstanding = IF @ = 0 THEN 0 ELSE @ - 1, !.changing = FALSE] ELSE v

\* Mutant: a report leaves the request it answers outstanding.
ReceivedReport(v, r) ==
    CASE r.kind = "state" -> Completing([v EXCEPT !.snapshot = r.snapshot, !.hint = "none"], r.complete)
      [] r.kind = "rejected" -> Completing([v EXCEPT !.snapshot = r.snapshot, !.hint = "none"], r.complete)
      [] r.kind = "diagnostics" -> v

\* Mutant: a state that was not asked for is not shown.
ReceivedOwn(v, r) ==
    CASE r.kind = "state" ->
           Completing(IF r.complete THEN [v EXCEPT !.snapshot = r.snapshot, !.hint = "none"] ELSE v, r.complete)
      [] r.kind = "rejected" -> Completing([v EXCEPT !.snapshot = r.snapshot, !.hint = "none"], r.complete)
      [] r.kind = "diagnostics" -> [v EXCEPT !.outstanding = IF @ = 0 THEN 0 ELSE @ - 1]

\* drain_responses for one response, with converge, refresh and reject.
Received(v, r) ==
    CASE r.kind = "state" -> Completing([v EXCEPT !.snapshot = r.snapshot, !.hint = "none"], r.complete)
      [] r.kind = "rejected" -> Completing([v EXCEPT !.snapshot = r.snapshot, !.hint = "none"], r.complete)
      [] r.kind = "diagnostics" -> [v EXCEPT !.outstanding = IF @ = 0 THEN 0 ELSE @ - 1]

DrainResponse(w) ==
    /\ app = "running" /\ IsOpen(w) /\ responses[w] # <<>>
    /\ LET r == Head(responses[w])
           v == Received(view[w], r)
       IN /\ view' = [view EXCEPT ![w] = [v EXCEPT !.pending = v.outstanding > 0]]
          /\ busy' = (busy /\ ~(view[w].changing /\ ~v.changing))
          /\ crossed' = (crossed \/ (view[w].changing /\ ~v.changing /\ InFlight(w) > 0))
          /\ shown' = IF r.kind = "diagnostics" THEN shown
                      ELSE r.snapshot # NoSnapshot /\ r.snapshot.active
    /\ responses' = [responses EXCEPT ![w] = Tail(@)]
    /\ UNCHANGED <<service, owner, requests, attached, working, changes, app, clicks, inactive>>
    /\ UNCHANGED <<commands, pending, queued_stop, controller, stopped>>

\* drain_responses when there is none.
Poll(w) ==
    /\ app = "running" /\ IsOpen(w) /\ responses[w] = <<>>
    /\ view[w].pending # (view[w].outstanding > 0)
    /\ view' = [view EXCEPT ![w].pending = ~@]
    /\ UNCHANGED <<clientvars, trayvars, app, clicks, inactive>>

\* Drop: the flag is given back, a Shutdown is sent if it fits, and both ends
\* of the channels go.
Dropped(v) == [v EXCEPT !.status = IF v.status = "open" THEN "closed" ELSE @, !.snapshot = NoSnapshot,
                        !.outstanding = 0, !.pending = FALSE, !.changing = FALSE, !.hint = "none"]

Dropping(ws) ==
    /\ view' = [w \in Windows |-> IF w \in ws THEN Dropped(view[w]) ELSE view[w]]
    /\ busy' = (busy /\ ~\E w \in ws : view[w].changing)
    /\ requests' = [w \in Worker |-> IF w \in ws /\ Fits(w) THEN Append(requests[w], "shutdown")
                                     ELSE requests[w]]
    /\ responses' = [w \in Worker |-> IF w \in ws THEN <<>> ELSE responses[w]]
    /\ attached' = [w \in Worker |-> attached[w] /\ w \notin ws]

\* The window closes to the tray.
CloseWindow(w) ==
    /\ Click /\ IsOpen(w)
    /\ Dropping({w})
    /\ UNCHANGED <<service, owner, working, changes, app, inactive>>
    /\ UNCHANGED <<shown, commands, pending, queued_stop, controller, stopped, crossed>>

TrayToggle ==
    /\ Click
    /\ Toggle
    /\ UNCHANGED <<clientvars, view, app, inactive>>

-----------------------------------------------------------------------------
(* The main thread: the end.                                               *)

\* The event loop ends and drops the windows.
Quit ==
    /\ app = "running"
    /\ app' = "stopping" /\ inactive' = ~daemon.active
    /\ Dropping({w \in Windows : IsOpen(w)})
    /\ StopAndShutdown
    /\ UNCHANGED <<service, owner, working, changes, clicks>>

\* The reply arrives in time, or three seconds pass; the process ends.
Exit ==
    /\ app = "stopping"
    /\ \/ stopped # "none" /\ app' = IF stopped = "yes" THEN "confirmed" ELSE "unconfirmed"
       \/ stopped = "none" /\ app' = "unconfirmed"
    /\ UNCHANGED <<clientvars, trayvars, view, clicks, inactive>>

Alive == app \in {"running", "stopping"}

\* Whatever the daemon does, the history tells whether it was off since.
Watching == inactive' = (inactive \/ (app = "stopping" /\ ~daemon'.active))
Behind(A) == Alive /\ A /\ Watching /\ UNCHANGED <<trayvars, view, app, clicks>>
Controls(A) == Alive /\ A /\ UNCHANGED appvars

User ==
    \/ \E w \in Windows : \/ OpenWindow(w) \/ BeginActiveChange(w) \/ CloseWindow(w)
                          \/ \E request \in {"set", "diagnostics"} : ClickOther(w, request)
    \/ TrayToggle
    \/ Quit

Next ==
    \/ User
    \/ \E w \in Windows : DrainResponse(w) \/ Poll(w)
    \/ \E w \in Worker : Behind(WorkerStep(w))
    \/ Behind(Restart) \/ Behind(Change)
    \/ Controls(ControllerStep)
    \/ Exit

\* Threads are scheduled and the window's executor polls its responses; a
\* request that waits is taken even while connections fail for ever, since
\* select! takes what is ready; the controller's loop takes its commands before
\* it receives.  Nothing makes a user act or a daemon return.
Fairness ==
    /\ \A w \in Worker : WF_vars(Behind(WorkerStep(w))) /\ SF_vars(Behind(Receive(w)))
    /\ WF_vars(Controls(TakeCommand)) /\ WF_vars(Controls(ControllerStep))
    /\ \A w \in Windows : WF_vars(DrainResponse(w) \/ Poll(w))

Spec == Init /\ [][Next]_vars /\ Fairness

-----------------------------------------------------------------------------
(* Properties.                                                             *)

\* A confirmed stop is the daemon's: when the program ends believing that
\* processing is off, it was off at some moment since it began to end.  Not so
\* once an answer was mistaken: after a start-up that an unrelated state
\* completed, the late answer to its activation counts for the stop.
QuitConfirmed == app = "confirmed" /\ ~crossed => inactive

\* How many of the responses end a request.
Completions(line) == Cardinality({i \in 1 .. Len(line) : line[i].complete})

\* What a window believes outstanding is in its channels or with its worker,
\* exactly: no answer is counted for another request, none is counted twice.
AnswersMatchRequests ==
    \A w \in Windows : IsOpen(w) =>
        view[w].outstanding =
            Len(requests[w]) + Completions(responses[w])
            + (IF \/ worker[w].at = "answer" /\ worker[w].reply.complete
                  \/ worker[w].at # "answer" /\ worker[w].complete THEN 1 ELSE 0)

\* In the end an open window and the tray show the daemon's state, whoever
\* changed it, and across its restarts.  A window shows none on a connection
\* that began with a report, which asks for no state until the next signal, and
\* none as long as it is refused the meters: its worker then connects again and
\* again, and each rejection turns the tray's display off too.  The tray may
\* also keep what a window that has closed showed it last.
ViewConverges ==
    <>[](app = "running" /\ daemon.up =>
            /\ \A w \in Windows : IsOpen(w) => view[w].snapshot = [active |-> daemon.active] \/ blind[w]
            /\ \/ shown = daemon.active
               \/ ~\E w \in Worker : attached[w] /\ ~blind[w]
               \/ ~daemon.meters /\ \E w \in Windows : IsOpen(w) /\ blind[w]
               \/ \E w \in Windows : view[w].status = "closed")
=============================================================================
