------------------------------ MODULE Controller ------------------------------
(***************************************************************************)
(* The life of the desktop controller in the portable package: AppRun,     *)
(* which keeps one controller per session with a file lock, hands a        *)
(* repeated launch to it through an activation file and starts the daemon  *)
(* that ends with it (AppRun; main.rs of noired), and the controller's tray*)
(* and window (tray.rs, app.rs), which must not leave the user without     *)
(* either.                                                                 *)
(*                                                                         *)
(* The shell's commands are steps of their own, and so are the daemon's    *)
(* start, the activation listener's poll, the tray's callbacks and the     *)
(* polls of the main thread.  Worker threads and their states are the      *)
(* subject of Desktop; here the tray is only there or not.                 *)
(***************************************************************************)
EXTENDS Integers

CONSTANTS
    Launch,       \* processes the user starts
    Nobody,       \* the lock is free
    MaxSwings,    \* bound: how often the tray's host appears or goes
    MaxFaults     \* bound: windows that cannot be opened

ASSUME ControllerAssumption ==
    Nobody \notin Launch /\ MaxSwings \in Nat /\ MaxFaults \in Nat

VARIABLES
    shell,     \* how far each process is
    lock,      \* who holds noire-appimage.lock
    file,      \* noire-controller.activate asks for the window
    daemon,    \* the daemon started by each process
    view,      \* the window, the close_to_tray flag, the view's preference
    saved,     \* close_to_tray in ui.toml
    tray,      \* the tray service could be started
    host,      \* host_available
    seen,      \* TrayHostState.available
    grace,     \* TrayHostState.loss_started
    shows,     \* a TrayCommand::Show is queued
    raced,     \* history: a process looked for daemons while one was starting
    missed,    \* history: the host changed twice between two polls
    swings, faults

app == <<view, saved, tray, host, seen, grace, shows, missed, swings, faults>>
session == <<shell, lock, file, daemon, raced>>
vars == <<app, session>>

\* "leaving": the activation listener is gone, the process is not.
Shell == {"new", "trying", "refused", "owner", "scanning", "checking",
          "starting", "running", "quitting", "leaving", "exited"}
\* "mounting": not yet the executable noired; "claiming": not yet on the bus.
Daemon == {"none", "mounting", "claiming", "serving", "gone"}

TypeOK ==
    /\ shell \in [Launch -> Shell]
    /\ lock \in Launch \cup {Nobody}
    /\ file \in BOOLEAN
    /\ daemon \in [Launch -> Daemon]
    /\ view \in [window : BOOLEAN, flag : BOOLEAN, pref : BOOLEAN]
    /\ saved \in BOOLEAN /\ tray \in BOOLEAN /\ host \in BOOLEAN /\ seen \in BOOLEAN
    /\ grace \in {"none", "counting", "due"}
    /\ shows \in BOOLEAN /\ raced \in BOOLEAN /\ missed \in BOOLEAN
    /\ swings \in 0..MaxSwings /\ faults \in 0..MaxFaults

Init ==
    /\ shell = [i \in Launch |-> "new"] /\ lock = Nobody /\ file \in BOOLEAN
    /\ daemon = [i \in Launch |-> "none"]
    /\ view = [window |-> FALSE, flag |-> FALSE, pref |-> TRUE] /\ saved \in BOOLEAN
    /\ tray = FALSE /\ host = FALSE /\ seen = FALSE /\ grace = "none"
    /\ shows = FALSE /\ raced = FALSE /\ missed = FALSE
    /\ swings = 0 /\ faults = 0

Is(i, at) == shell[i] = at
Goes(i, to) == shell' = [shell EXCEPT ![i] = to]
Running == \E i \in Launch : Is(i, "running")
Serving == \E i \in Launch : daemon[i] = "serving"

-----------------------------------------------------------------------------
(***************************************************************************)
(* AppRun.                                                                 *)
(***************************************************************************)
Start(i) == Is(i, "new") /\ Goes(i, "trying") /\ UNCHANGED <<lock, file, daemon, raced, app>>

TryLock(i) ==
    /\ Is(i, "trying")
    /\ \/ lock = Nobody /\ lock' = i /\ Goes(i, "owner")
       \/ lock # Nobody /\ Goes(i, "refused") /\ UNCHANGED lock
    /\ UNCHANGED <<file, daemon, raced, app>>

\* A repeated launch asks the holder of the lock for its window.
AskOwner(i) ==
    /\ Is(i, "refused") /\ Goes(i, "exited")
    /\ file' = TRUE
    /\ UNCHANGED <<lock, daemon, raced, app>>

ForgetRequest(i) ==
    /\ Is(i, "owner") /\ Goes(i, "scanning")
    /\ file' = FALSE
    /\ UNCHANGED <<lock, daemon, raced, app>>

Stale == {j \in Launch : daemon[j] \in {"claiming", "serving"}}

\* Mutant: only a daemon that does not answer is taken for stale.
StopSilentDaemons(i) ==
    /\ Is(i, "scanning") /\ Goes(i, "checking")
    /\ daemon' = [j \in Launch |-> IF daemon[j] = "claiming" THEN "gone" ELSE daemon[j]]
    /\ raced' = (raced \/ \E j \in Launch : daemon[j] = "mounting")
    /\ UNCHANGED <<lock, file, app>>

\* cleanup_stale_portable_daemons recognizes a daemon by its executable.
StopStaleDaemons(i) ==
    /\ Is(i, "scanning") /\ Goes(i, "checking")
    /\ daemon' = [j \in Launch |-> IF j \in Stale THEN "gone" ELSE daemon[j]]
    /\ raced' = (raced \/ \E j \in Launch : daemon[j] = "mounting")
    /\ UNCHANGED <<lock, file, app>>

\* noirectl status finds a daemon on the bus, or AppRun starts one.
CheckDaemon(i) ==
    /\ Is(i, "checking") /\ Goes(i, "starting")
    /\ daemon' = IF Serving THEN daemon ELSE [daemon EXCEPT ![i] = "mounting"]
    /\ UNCHANGED <<lock, file, raced, app>>

Mount(i) ==
    /\ daemon[i] = "mounting" /\ daemon' = [daemon EXCEPT ![i] = "claiming"]
    /\ UNCHANGED <<shell, lock, file, raced, app>>

\* register_and_claim: a second daemon gives up.
Claim(i) ==
    /\ daemon[i] = "claiming"
    /\ daemon' = [daemon EXCEPT ![i] = IF Serving THEN "gone" ELSE "serving"]
    /\ UNCHANGED <<shell, lock, file, raced, app>>

\* wait_for_controller_exit, polled only by a daemon that serves.
Orphaned(i) ==
    /\ daemon[i] = "serving" /\ Is(i, "exited")
    /\ daemon' = [daemon EXCEPT ![i] = "gone"]
    /\ UNCHANGED <<shell, lock, file, raced, app>>

-----------------------------------------------------------------------------
(***************************************************************************)
(* The tray's host and the window.                                         *)
(***************************************************************************)
Available == tray /\ host

\* show_window: a new window starts from the saved preferences; whether it
\* can be opened or not, the flag has been set.
Shown(v, opens) ==
    IF v.window THEN v
    ELSE [window |-> opens, flag |-> saved /\ Available,
          pref |-> IF opens THEN saved ELSE v.pref]

\* Mutant: only a loss that is observed starts the grace period.
GraceOfSettled(available) == "none"

\* TrayHostState::new: a host that is not there yet is given time as well.
InitialGrace(available) == IF available THEN "none" ELSE "counting"

\* run: whether the window is shown follows the command line and the preference.
Opened(up) == {[window |-> shown, flag |-> saved /\ up, pref |-> saved] : shown \in BOOLEAN}

\* TrayRuntime::start; the host counts as there until it is heard of.
Begin(i) ==
    /\ Is(i, "starting") /\ Goes(i, "running")
    /\ \E up \in BOOLEAN :
          /\ tray' = up /\ host' = up /\ seen' = up
          /\ grace' = InitialGrace(up)
          /\ view' \in Opened(up)
    /\ shows' = FALSE /\ missed' = FALSE
    /\ UNCHANGED <<lock, file, daemon, raced, saved, swings, faults>>

HostChanges ==
    /\ Running /\ tray /\ swings < MaxSwings
    /\ host' = ~host /\ swings' = swings + 1
    /\ missed' = (missed \/ host # seen)
    /\ UNCHANGED <<view, saved, tray, seen, grace, shows, faults, session>>

\* The activation listener, every 50 ms.
Listen ==
    /\ \E i \in Launch : shell[i] \in {"running", "quitting"}
    /\ file /\ file' = FALSE /\ shows' = TRUE
    /\ UNCHANGED <<shell, lock, daemon, raced, view, saved, tray, host, seen, grace,
                   missed, swings, faults>>

ClickTray ==
    /\ Running /\ Available /\ shows' = TRUE
    /\ UNCHANGED <<view, saved, tray, host, seen, grace, missed, swings, faults, session>>

GraceElapses ==
    /\ grace = "counting" /\ grace' = "due"
    /\ UNCHANGED <<view, saved, tray, host, seen, shows, missed, swings, faults, session>>

FallbackDue == ~Available /\ ~seen /\ grace = "due"

\* TrayHostState::observe, and what drain_commands does with its answer.
Observed(v, opens) ==
    /\ seen' = Available
    /\ \/ /\ Available /\ ~seen
          /\ grace' = "none" /\ view' = [v EXCEPT !.flag = saved]
       \/ /\ ~Available /\ seen
          /\ grace' = "counting" /\ view' = [v EXCEPT !.flag = FALSE]
       \/ /\ FallbackDue
          /\ grace' = "none" /\ view' = Shown(v, opens)
       \/ /\ Available = seen /\ ~FallbackDue
          /\ UNCHANGED grace /\ view' = v

\* Mutant: without a host there is nothing to show the window for.
DrainWithHost ==
    /\ Running
    /\ Observed(IF shows /\ Available THEN Shown(view, TRUE) ELSE view, TRUE)
    /\ shows' = FALSE
    /\ UNCHANGED <<saved, tray, host, missed, swings, faults, session>>

\* A poll of the main thread, every 33 ms.
Drain ==
    /\ Running
    /\ \/ /\ Observed(IF shows THEN Shown(view, TRUE) ELSE view, TRUE)
          /\ UNCHANGED faults
       \/ /\ ~view.window /\ (shows \/ FallbackDue)
          /\ faults < MaxFaults /\ faults' = faults + 1
          /\ Observed(IF shows THEN Shown(view, FALSE) ELSE view, FALSE)
    /\ shows' = FALSE
    /\ UNCHANGED <<saved, tray, host, missed, swings, session>>

\* DesktopPreferences::save writes a sibling and renames it, which may fail.
Stored(pref) == {saved, pref}

\* persist_preferences; the flag is set whether the file can be written or not.
ToggleCloseToTray ==
    /\ Running /\ view.window
    /\ view' = [view EXCEPT !.pref = ~@, !.flag = ~view.pref /\ Available]
    /\ saved' \in Stored(~view.pref)
    /\ UNCHANGED <<tray, host, seen, grace, shows, missed, swings, faults, session>>

-----------------------------------------------------------------------------
(***************************************************************************)
(* Closing, quitting and the end of the process.                           *)
(***************************************************************************)
HideWindow ==
    /\ Running /\ view.window /\ view.flag
    /\ view' = [view EXCEPT !.window = FALSE]
    /\ UNCHANGED <<saved, tray, host, seen, grace, shows, missed, swings, faults, session>>

\* The window is closed without a tray to return from, or Quit is chosen.
Quit(i) ==
    /\ Is(i, "running") /\ Goes(i, "quitting")
    /\ (view.window /\ ~view.flag) \/ Available
    /\ UNCHANGED <<lock, file, daemon, raced, app>>

\* Drop for ActivationListener.
StopListening(i) ==
    /\ Is(i, "quitting") /\ Goes(i, "leaving")
    /\ file' = FALSE
    /\ UNCHANGED <<lock, daemon, raced, app>>

Gone(i) ==
    /\ Goes(i, "exited") /\ lock' = Nobody
    /\ view' = [view EXCEPT !.window = FALSE]
    /\ host' = FALSE /\ tray' = FALSE /\ seen' = FALSE /\ grace' = "none" /\ shows' = FALSE
    /\ UNCHANGED <<file, daemon, raced, saved, missed, swings, faults>>

Exit(i) == Is(i, "leaving") /\ Gone(i)
Crash(i) == shell[i] \in {"owner", "scanning", "checking", "starting", "running"} /\ Gone(i)

-----------------------------------------------------------------------------
Script(i) ==
    \/ TryLock(i) \/ AskOwner(i) \/ ForgetRequest(i) \/ StopStaleDaemons(i)
    \/ CheckDaemon(i) \/ Begin(i) \/ StopListening(i) \/ Exit(i)
DaemonStep(i) == Mount(i) \/ Claim(i) \/ Orphaned(i)
User == ClickTray \/ ToggleCloseToTray \/ HideWindow

Next ==
    \/ \E i \in Launch : Start(i) \/ Script(i) \/ DaemonStep(i) \/ Quit(i) \/ Crash(i)
    \/ HostChanges \/ Listen \/ GraceElapses \/ Drain \/ User

\* Processes run, timers fire; nothing is assumed of the user or the host.
Fairness ==
    /\ \A i \in Launch : WF_vars(Script(i)) /\ WF_vars(DaemonStep(i))
    /\ WF_vars(Listen) /\ WF_vars(GraceElapses) /\ WF_vars(Drain)

Spec == Init /\ [][Next]_vars /\ Fairness

-----------------------------------------------------------------------------
Stranded == Running /\ ~view.window /\ ~Available

\* A controller without a window and without a tray comes back by itself: the
\* user is never left without a way to it.  Two exceptions are in the code: a
\* host that goes and comes back between two polls, and a fallback window that
\* cannot be opened, which is not tried again.
NeverStranded == Stranded ~> (~Stranded \/ missed \/ faults > 0)

\* A launch that finds a running controller brings its window up, with or
\* without a tray, unless it cannot be opened.
RequestHeeded == (file /\ Running) ~> (view.window \/ ~Running \/ faults > 0)

\* A controller that stays has a daemon: what an earlier one has left, and may
\* end any moment, is stopped before AppRun relies on it.  The exception is a
\* daemon that was not yet recognizable as one when AppRun looked for it.
DaemonFound == (Running /\ ~Serving) ~> (Serving \/ ~Running \/ raced)
=============================================================================
