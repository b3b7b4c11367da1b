------------------------------- MODULE Autostart -------------------------------
(***************************************************************************)
(* Starting the desktop at login (crates/noire-ui/src/autostart.rs): the   *)
(* entry in the session's autostart directory, which Noire writes only     *)
(* over one that carries its own marker, and the two places that call it:  *)
(* the settings' toggle and the refresh at the start of the desktop.       *)
(*                                                                         *)
(* An entry is absent, somebody else's, or Noire's with a launch command.  *)
(* Every read and every change of the file is a step: two desktops may run *)
(* and the session's own settings change the file.  The file is replaced   *)
(* by a rename; what a crash leaves of the temporary one is never read.    *)
(***************************************************************************)
EXTENDS Integers

CONSTANTS
    Desktop,       \* running programs
    Image,         \* launch commands: a portable image moves between starts
    NoEntry,       \* the file is not there
    Foreign,       \* the file is there without the marker
    NoDesktop,     \* not running
    NoCommand,     \* launch_command finds nothing to launch
    MaxSteps       \* bound: starts, clicks and changes by others

ASSUME AutostartAssumption ==
    {NoEntry, Foreign, NoDesktop, NoCommand} \cap Image = {} /\ MaxSteps \in Nat

VARIABLES
    entry,         \* the file at autostart_path
    launch,        \* launch_command of each desktop
    drawn,         \* the status each one's settings last drew
    task,          \* what each is about to do to the file, and for whom
    decided,       \* history: the entry as the user, or another program, wants it
    overtaken,     \* history: desktops behind whose back the entry has changed
    misled,        \* history: one of them, or one that could not read, has changed it
    steps

autostartVars == <<entry, launch, drawn, task, decided, overtaken, misled, steps>>

Managed(e) == e \in Image
NoStatus == [enabled |-> FALSE, available |-> FALSE]
NoTask == [by |-> "nobody", step |-> "none"]

AutostartInit ==
    /\ entry \in Image \cup {NoEntry, Foreign} /\ decided = entry
    /\ launch = [d \in Desktop |-> NoDesktop]
    /\ drawn = [d \in Desktop |-> NoStatus]
    /\ task = [d \in Desktop |-> NoTask]
    /\ overtaken = {} /\ misled = FALSE /\ steps = 0

Bounded == steps < MaxSteps /\ steps' = steps + 1
Ready(d) == launch[d] # NoDesktop /\ task[d] = NoTask
Continue(d, next) == task' = [task EXCEPT ![d] = IF next = "none" THEN NoTask ELSE [@ EXCEPT !.step = next]]

\* status_at, with the command that is available; the read may fail.
Status(d, readable) ==
    [enabled |-> readable /\ Managed(entry),
     available |-> readable /\ entry # Foreign /\ launch[d] # NoCommand]

-----------------------------------------------------------------------------
(***************************************************************************)
(* The calls.                                                              *)
(***************************************************************************)
\* launch_command: the portable image if there is one, else the executable.
LaunchCommand == Image \cup {NoCommand}

\* run: refresh_if_enabled comes first.
StartDesktop(d) ==
    /\ launch[d] = NoDesktop /\ Bounded
    /\ \E c \in LaunchCommand : launch' = [launch EXCEPT ![d] = c]
    /\ task' = [task EXCEPT ![d] = [by |-> "refresh", step |-> "read"]]
    /\ overtaken' = overtaken \ {d}
    /\ UNCHANGED <<entry, drawn, decided, misled>>

\* Mutant: an entry that is not there is written too.
RefreshAlways(d) ==
    /\ task[d].step = "read"
    /\ Continue(d, IF launch[d] # NoCommand THEN "write" ELSE "none")
    /\ UNCHANGED <<entry, launch, drawn, decided, overtaken, misled, steps>>

\* refresh_managed reads the entry, and only one of Noire's is written anew.
RefreshManaged(d) ==
    /\ task[d].step = "read"
    /\ Continue(d, IF launch[d] # NoCommand /\ Managed(entry) THEN "write" ELSE "none")
    /\ UNCHANGED <<entry, launch, drawn, decided, overtaken, misled, steps>>

\* settings_view reads the status each time it is drawn.
DrawToggle(d) ==
    /\ Ready(d)
    /\ \E readable \in BOOLEAN : drawn' = [drawn EXCEPT ![d] = Status(d, readable)]
    /\ overtaken' = overtaken \ {d}
    /\ UNCHANGED <<entry, launch, task, decided, misled, steps>>

\* The handler reads the status again and asks for its opposite.
ClickToggle(d) ==
    /\ Ready(d) /\ drawn[d].available /\ Bounded
    /\ \E readable \in BOOLEAN :
          /\ task' = [task EXCEPT ![d] =
                IF Status(d, readable).enabled THEN [by |-> "user", step |-> "remove"]
                ELSE IF launch[d] # NoCommand THEN [by |-> "user", step |-> "write"] ELSE NoTask]
          /\ overtaken' = IF readable THEN overtaken ELSE overtaken \cup {d}
    /\ UNCHANGED <<entry, launch, drawn, decided, misled>>

-----------------------------------------------------------------------------
(***************************************************************************)
(* write_managed and remove_managed.                                       *)
(***************************************************************************)
\* An entry of somebody else is an error, and so is one that cannot be read.
CheckWrite(d) ==
    /\ task[d].step = "write" /\ Continue(d, IF entry = Foreign THEN "none" ELSE "rename")
    /\ UNCHANGED <<entry, launch, drawn, decided, overtaken, misled, steps>>

CheckRemove(d) ==
    /\ task[d].step = "remove" /\ Continue(d, IF Managed(entry) THEN "unlink" ELSE "none")
    /\ UNCHANGED <<entry, launch, drawn, decided, overtaken, misled, steps>>

\* What whoever asked for the change meant it to leave.
Meant(d) ==
    IF task[d].by = "user"
    THEN IF drawn[d].enabled THEN NoEntry ELSE launch[d]
    ELSE IF Managed(decided) THEN launch[d] ELSE decided

\* The handler ends in cx.notify: the toggle is drawn before the next click.
ChangeEntry(d, e) ==
    /\ entry' = e /\ decided' = Meant(d) /\ Continue(d, "none")
    /\ overtaken' = overtaken \cup (Desktop \ {d})
    /\ misled' = (misled \/ d \in overtaken)
    /\ drawn' = [drawn EXCEPT ![d] = NoStatus]
    /\ UNCHANGED <<launch, steps>>

\* The new file is complete and synced before it takes the entry's name.
ReplaceEntry(d) == task[d].step = "rename" /\ ChangeEntry(d, launch[d])
RemoveEntry(d) == task[d].step = "unlink" /\ ChangeEntry(d, NoEntry)

\* An error of the file system; the temporary file is removed.
FileFails(d) ==
    /\ task[d] # NoTask /\ Continue(d, "none")
    /\ UNCHANGED <<entry, launch, drawn, decided, overtaken, misled, steps>>

-----------------------------------------------------------------------------
\* The desktop ends or is killed, at any point.
EndDesktop(d) ==
    /\ launch[d] # NoDesktop
    /\ launch' = [launch EXCEPT ![d] = NoDesktop] /\ Continue(d, "none")
    /\ drawn' = [drawn EXCEPT ![d] = NoStatus]
    /\ UNCHANGED <<entry, decided, overtaken, misled, steps>>

\* Another program, such as the session's own settings.
OthersChange ==
    /\ Bounded
    /\ \E e \in Image \cup {NoEntry, Foreign} : e # entry /\ entry' = e /\ decided' = e
    /\ overtaken' = Desktop
    /\ UNCHANGED <<launch, drawn, task, misled>>

AutostartNext ==
    \/ \E d \in Desktop :
          \/ StartDesktop(d) \/ RefreshManaged(d) \/ DrawToggle(d) \/ ClickToggle(d)
          \/ CheckWrite(d) \/ CheckRemove(d) \/ ReplaceEntry(d) \/ RemoveEntry(d)
          \/ FileFails(d) \/ EndDesktop(d)
    \/ OthersChange

-----------------------------------------------------------------------------
\* The entry is what the user chose on the toggle, or another program put
\* there: a refresh never switches the start at login on, a failure or a crash
\* leaves what there was, and nobody else's entry is touched.  Except that the
\* checks do not hold until the change: a desktop whose entry has changed since
\* it drew its toggle, or began its refresh, may undo that change.
UserDecides == misled \/ entry = decided
=============================================================================
