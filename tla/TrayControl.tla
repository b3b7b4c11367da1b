---------------------------- MODULE TrayControl ----------------------------
(***************************************************************************)
(* The thread that keeps the tray in step with the daemon (client.rs,      *)
(* tray_control_loop), over a worker of its own: the start-up              *)
(* synchronisation, toggling from the tray, and stopping before the        *)
(* program ends.  "busy" is the flag it shares with the window.            *)
(***************************************************************************)
EXTENDS ClientWorker

CONSTANT Commands   \* capacity of the controller's command channel

ASSUME CommandsAssumption == Commands \in Nat \ {0}

VARIABLES
    busy,         \* the shared flag
    shown,        \* TrayInner.active
    commands,     \* TrayControlCommand, oldest first
    pending,      \* Option<PendingTrayAction>
    queued_stop,  \* Option of the reply of a queued StopAndShutdown
    controller,   \* whether the thread runs
    stopped,      \* the reply to StopAndShutdown
    crossed       \* history: an answer was taken for that of another request

trayvars == <<busy, shown, commands, pending, queued_stop, controller, stopped, crossed>>

MaxAttempts == 3
Reply == {"none", "yes", "no"}

TrayTypeOK ==
    /\ busy \in BOOLEAN /\ shown \in BOOLEAN /\ crossed \in BOOLEAN
    /\ commands \in Seq({"toggle", "stop"}) /\ Len(commands) <= Commands
    /\ pending \in [kind : {"none", "startup", "toggle", "stop"}, requested : BOOLEAN,
                    attempts : 0..MaxAttempts]
    /\ queued_stop \in BOOLEAN /\ controller \in BOOLEAN
    /\ stopped \in Reply

Action(kind, attempts) == [kind |-> kind, requested |-> FALSE, attempts |-> attempts]
Nothing == Action("none", 0)

\* The two flags of a Boolean answer.
Answered(value) == IF value THEN "yes" ELSE "no"

\* TrayController::start, whose thread asks its worker for the state; or no
\* thread could be created.
TrayInit ==
    /\ controller \in BOOLEAN /\ busy = controller
    /\ pending = IF controller THEN Action("startup", 0) ELSE Nothing
    /\ shown = FALSE /\ commands = <<>> /\ queued_stop = FALSE /\ stopped = "none" /\ crossed = FALSE

-----------------------------------------------------------------------------
(* Called from the program's main thread.                                  *)

\* toggle: refused while a change is in progress.
Toggle ==
    /\ ~busy
    /\ IF controller /\ Len(commands) < Commands
       THEN busy' = TRUE /\ commands' = Append(commands, "toggle")
       ELSE UNCHANGED <<busy, commands>>
    /\ UNCHANGED <<shown, pending, queued_stop, controller, stopped, crossed>>

\* stop_and_shutdown sends its command, or learns that the thread has ended.
StopAndShutdown ==
    /\ Len(commands) < Commands
    /\ IF controller THEN commands' = Append(commands, "stop") /\ UNCHANGED stopped
                     ELSE stopped' = "no" /\ UNCHANGED commands
    /\ UNCHANGED <<shown, pending, queued_stop, controller, crossed>>

-----------------------------------------------------------------------------
(* The controller thread.                                                  *)

\* blocking_send.
Send(request) ==
    /\ Len(requests[Tray]) < RequestCapacity
    /\ requests' = [requests EXCEPT ![Tray] = Append(@, request)]

\* A toggle taken while something else is in progress is dropped.
TakeCommand ==
    /\ controller /\ commands # <<>>
    /\ commands' = Tail(commands)
    /\ \/ /\ Head(commands) = "toggle" /\ pending.kind = "none" /\ ~queued_stop
          /\ Send(IF shown THEN "stop" ELSE "start")
          /\ pending' = Action("toggle", 0)
          /\ UNCHANGED queued_stop
       \/ /\ Head(commands) = "toggle" /\ (pending.kind # "none" \/ queued_stop)
          /\ UNCHANGED <<requests, pending, queued_stop>>
       \/ /\ Head(commands) = "stop"
          /\ queued_stop' = TRUE
          /\ UNCHANGED <<requests, pending>>
    /\ UNCHANGED <<service, owner, responses, attached, working, changes>>
    /\ UNCHANGED <<busy, shown, controller, stopped, crossed>>

\* A queued stop waits for the action in progress.
LaunchStop ==
    /\ controller /\ queued_stop /\ pending.kind = "none"
    /\ queued_stop' = FALSE /\ busy' = TRUE
    /\ Send("stop")
    /\ pending' = Action("stop", 1)
    /\ UNCHANGED <<service, owner, responses, attached, working, changes>>
    /\ UNCHANGED <<shown, commands, controller, stopped, crossed>>

\* complete_tray_action with finish_tray_action: the reply, and the end of the
\* thread after a stop, confirmed only if processing is off.
Finish(succeeded, active) ==
    /\ pending' = Nothing /\ busy' = FALSE
    /\ IF pending.kind = "stop"
       THEN /\ stopped' = Answered(succeeded /\ ~active)
            /\ controller' = FALSE
            /\ Send("shutdown")
            /\ attached' = [attached EXCEPT ![Tray] = FALSE]
       ELSE UNCHANGED <<stopped, controller, requests, attached>>

\* startup_sync_action for a start-up that has not asked for activation.
Activates(r) ==
    pending.kind = "startup" /\ ~pending.requested /\ r.start /\ ~r.snapshot.active

\* Mutant: any state ends a toggle or a stop.
EndsUnasked(r) ==
    IF pending.kind = "startup" THEN r.snapshot.active \/ (~pending.requested /\ ~r.start)
    ELSE TRUE

\* A start-up ends with processing on, or left off; another action with its answer.
Ends(r) ==
    IF pending.kind = "startup" THEN r.snapshot.active \/ (~pending.requested /\ ~r.start)
    ELSE r.complete

\* handle_tray_state.
HandleState(r) ==
    /\ r.kind = "state"
    /\ shown' = r.snapshot.active
    /\ \/ /\ Activates(r)
          /\ Send("start")
          /\ pending' = [pending EXCEPT !.requested = TRUE]
          /\ UNCHANGED <<busy, stopped, controller, attached, crossed>>
       \/ /\ ~Activates(r) /\ ~Ends(r)
          /\ UNCHANGED <<busy, stopped, controller, requests, attached, pending, crossed>>
       \/ /\ Ends(r)
          /\ Finish(TRUE, r.snapshot.active)
          /\ crossed' = (crossed \/ (pending.requested /\ ~r.complete))

\* retry_pending_stop.
MayRetryStop(authoritative, active) ==
    /\ pending.kind = "stop" /\ pending.attempts < MaxAttempts
    /\ ~authoritative \/ active

HandleRejected(r) ==
    LET authoritative == r.snapshot # NoSnapshot
        active == authoritative /\ r.snapshot.active
    IN /\ r.kind = "rejected"
       /\ shown' = IF authoritative THEN active ELSE shown
       /\ UNCHANGED crossed
       /\ \/ /\ ~r.complete
             /\ UNCHANGED <<busy, stopped, controller, requests, attached, pending>>
          \/ /\ r.complete /\ MayRetryStop(authoritative, active)
             /\ Send("stop")
             /\ pending' = [pending EXCEPT !.attempts = @ + 1]
             /\ UNCHANGED <<busy, stopped, controller, attached>>
          \/ /\ r.complete /\ ~MayRetryStop(authoritative, active)
             /\ Finish(authoritative, active)

\* recv_timeout, once no queued stop can be launched.
Handle ==
    /\ controller /\ responses[Tray] # <<>>
    /\ ~(queued_stop /\ pending.kind = "none")
    /\ responses' = [responses EXCEPT ![Tray] = Tail(@)]
    /\ HandleState(Head(responses[Tray])) \/ HandleRejected(Head(responses[Tray]))
    /\ UNCHANGED <<service, owner, working, changes, commands, queued_stop>>

ControllerStep == TakeCommand \/ LaunchStop \/ Handle
=============================================================================
