---------------------------- MODULE ConfigStore ----------------------------
(***************************************************************************)
(* The configuration file and its backup (crates/noire-config/src/lib.rs): *)
(* load with its fallbacks, and save as the file system sees it, one       *)
(* temporary file, one rename or one directory sync at a time, with an     *)
(* error or a crash possible at each.                                      *)
(*                                                                         *)
(* A file is synced before it is renamed, so a name never shows half a     *)
(* configuration; which of its contents a name shows after a power loss is *)
(* open until the directory is synced.                                     *)
(***************************************************************************)
EXTENDS Integers

CONSTANTS
    Config,      \* valid configurations, those of schema 0 migrated
    Default,     \* Config::default
    Attempts,    \* temporary names atomic_write tries, 16 in the code
    Absent, Malformed, Newer,   \* no file, no valid configuration, a newer schema
    None         \* no daemon runs, or no save is in progress

ASSUME DefaultAssumption == Default \in Config
ASSUME AttemptsAssumption == Attempts \in Nat \ {0}
ASSUME ContentAssumption ==
    /\ Absent # Malformed /\ Absent # Newer /\ Malformed # Newer
    /\ {Absent, Malformed, Newer, None} \cap Config = {}

Step == {"backup-temp", "backup-rename", "primary-temp", "primary-rename", "sync"}
Save == [candidate : Config, backup : Config, at : Step]

ASSUME NoneAssumption == None \notin Save

VARIABLES
    files,     \* what the two names show now
    disk,      \* what each may show after a power loss
    stale,     \* temporary files left behind under names this process would use
    current,   \* the configuration the daemon loaded or saved last
    writable,  \* LoadOutcome::writable
    save,      \* the save in progress: its candidate, what the backup gets, its next step
    edited     \* history: the primary was replaced from outside

vars == <<files, disk, stale, current, writable, save, edited>>

Name == {"primary", "backup"}
Content == Config \cup {Absent, Malformed, Newer}

TypeOK ==
    /\ files \in [Name -> Content]
    /\ disk \in [Name -> SUBSET Content]
    /\ stale \in [Name -> 0..Attempts]
    /\ current \in Config \cup {None}
    /\ writable \in BOOLEAN
    /\ save = None \/ save \in Save
    /\ edited \in BOOLEAN

-----------------------------------------------------------------------------
(* Loading.                                                                *)

\* The configuration load returns for a primary and a backup.
LoadedFrom(primary, backup) ==
    IF primary \in Config THEN primary
    ELSE IF primary = Malformed /\ backup \in Config THEN backup
    ELSE Default

\* The files of an earlier session, of another version or of an editor.
Init ==
    /\ files \in [Name -> Content]
    /\ disk = [n \in Name |-> {files[n]}]
    /\ stale = [n \in Name |-> 0]
    /\ current = None /\ writable = FALSE /\ save = None
    /\ edited = FALSE

\* main loads the store once and keeps the outcome.
Start ==
    /\ current = None
    /\ current' = LoadedFrom(files["primary"], files["backup"])
    /\ writable' = (files["primary"] # Newer)
    /\ UNCHANGED <<files, disk, stale, save, edited>>

-----------------------------------------------------------------------------
(* Saving.                                                                 *)

\* A valid primary becomes the backup, else the candidate does.
BackupOf(candidate) ==
    IF files["primary"] \in Config THEN files["primary"] ELSE candidate

\* Mutant: the schema of the file is not looked at again.
BeginUnchecked(candidate) ==
    /\ current # None /\ save = None /\ writable
    /\ save' = [candidate |-> candidate, backup |-> BackupOf(candidate), at |-> "backup-temp"]
    /\ UNCHANGED <<files, disk, stale, current, writable, edited>>

\* save, up to its first write.  A daemon that is not writable does not call
\* it, and it refuses to replace a newer file.
Begin(candidate) ==
    /\ current # None /\ save = None /\ writable
    /\ files["primary"] # Newer
    /\ save' = [candidate |-> candidate, backup |-> BackupOf(candidate), at |-> "backup-temp"]
    /\ UNCHANGED <<files, disk, stale, current, writable, edited>>

TempOf(n) == IF n = "primary" THEN "primary-temp" ELSE "backup-temp"
RenameOf(n) == IF n = "primary" THEN "primary-rename" ELSE "backup-rename"
After(n) == IF n = "primary" THEN "sync" ELSE "primary-temp"
Bytes(n) == IF n = "primary" THEN save.candidate ELSE save.backup

\* A temporary file that was created is removed, unless that fails too.
Left(n) == {stale, [stale EXCEPT ![n] = @ + 1]}

\* atomic_write: the first free temporary name is created, written and synced,
\* or an error ends the save.
WriteTemp(n) ==
    /\ save # None /\ save.at = TempOf(n)
    /\ stale[n] < Attempts
    /\ \/ save' = [save EXCEPT !.at = RenameOf(n)] /\ UNCHANGED stale
       \/ save' = None /\ stale' \in Left(n)
    /\ UNCHANGED <<files, disk, current, writable, edited>>

\* Every name is taken, or the first one cannot be created.
NoTemp(n) ==
    /\ save # None /\ save.at = TempOf(n)
    /\ save' = None
    /\ UNCHANGED <<files, disk, stale, current, writable, edited>>

\* Mutant: the file is renamed before its bytes are forced to the disk.
RenameUnsynced(n) ==
    /\ save # None /\ save.at = RenameOf(n)
    /\ \/ /\ files' = [files EXCEPT ![n] = Bytes(n)]
          /\ disk' = [disk EXCEPT ![n] = @ \cup {Bytes(n), Malformed}]
          /\ save' = [save EXCEPT !.at = After(n)]
          /\ UNCHANGED stale
       \/ /\ save' = None
          /\ stale' \in Left(n)
          /\ UNCHANGED <<files, disk>>
    /\ UNCHANGED <<current, writable, edited>>

\* atomic_write: the rename.  The disk may still show any earlier content.
Rename(n) ==
    /\ save # None /\ save.at = RenameOf(n)
    /\ \/ /\ files' = [files EXCEPT ![n] = Bytes(n)]
          /\ disk' = [disk EXCEPT ![n] = @ \cup {Bytes(n)}]
          /\ save' = [save EXCEPT !.at = After(n)]
          /\ UNCHANGED stale
       \/ /\ save' = None
          /\ stale' \in Left(n)
          /\ UNCHANGED <<files, disk>>
    /\ UNCHANGED <<current, writable, edited>>

\* Mutant: success is reported without syncing the directory.
SkipSync ==
    /\ save # None /\ save.at = "sync"
    /\ current' = save.candidate
    /\ save' = None
    /\ UNCHANGED <<files, disk, stale, writable, edited>>

\* sync_directory, whose error is save's although both renames are done.  The
\* directory itself is there: that one which create_dir_all has just made is
\* entered in its parent on the disk, which nothing syncs, is taken for granted.
SyncDirectory ==
    /\ save # None /\ save.at = "sync"
    /\ \/ /\ disk' = [n \in Name |-> {files[n]}]
          /\ current' = save.candidate
       \/ UNCHANGED <<disk, current>>
    /\ save' = None
    /\ UNCHANGED <<files, stale, writable, edited>>

-----------------------------------------------------------------------------
(* The world around the store.                                             *)

\* A temporary file that is written and not yet renamed stays behind.
Interrupted ==
    [n \in Name |-> IF save # None /\ save.at = RenameOf(n) THEN stale[n] + 1 ELSE stale[n]]

\* Leftovers matter to the next process only if it gets the same process id,
\* as the first process of a container does.
Reborn == stale' \in {Interrupted, [n \in Name |-> 0]}

\* The daemon exits or is killed, between any two steps.
Exit ==
    /\ current # None
    /\ current' = None /\ writable' = FALSE /\ save' = None
    /\ Reborn
    /\ UNCHANGED <<files, disk, edited>>

PowerLoss ==
    /\ files' \in {f \in [Name -> Content] : \A n \in Name : f[n] \in disk[n]}
    /\ disk' = [n \in Name |-> {files'[n]}]
    /\ current' = None /\ writable' = FALSE /\ save' = None
    /\ Reborn
    /\ UNCHANGED edited

\* The user edits or deletes the file, or a newer version of Noire replaces it:
\* once, and not while it is being saved.
Edit ==
    /\ ~edited /\ save = None
    /\ \E c \in Content : /\ files' = [files EXCEPT !["primary"] = c]
                          /\ disk' = [disk EXCEPT !["primary"] = @ \cup {c}]
    /\ edited' = TRUE
    /\ UNCHANGED <<stale, current, writable, save>>

-----------------------------------------------------------------------------
SaveStep ==
    \/ \E c \in Config : Begin(c)
    \/ \E n \in Name : WriteTemp(n) \/ NoTemp(n) \/ Rename(n)
    \/ SyncDirectory

Next == Start \/ SaveStep \/ Exit \/ PowerLoss \/ Edit

Spec == Init /\ [][Next]_vars

-----------------------------------------------------------------------------
(* Properties.                                                             *)

\* Whatever step of a save fails or is cut short, a restart finds the last
\* acknowledged configuration or one whose save was begun after it.
Saving == IF save = None THEN None ELSE save.candidate
Holds == {LoadedFrom(p, b) : p \in disk["primary"], b \in disk["backup"]}

Store == INSTANCE DurableConfig WITH saving <- Saving, holds <- Holds

IsDurable == Store!DCSpec

\* "must not be rewritten": the file of a newer schema is left as it is by
\* every step of this daemon, also when it appeared after the daemon started;
\* only a power loss may bring back what it replaced.
NewerPreserved ==
    [][files["primary"] = Newer /\ edited' = edited
         => files'["primary"] \in disk["primary"]]_vars

Readable == \A p \in disk["primary"], b \in disk["backup"] : p \in Config \/ b \in Config

\* If some copy can be read after any power loss, no step of a save, and no
\* failure of one, changes that: the backup is for the case that remains.
StaysReadable == [][Readable /\ edited' = edited => Readable']_vars

=============================================================================
