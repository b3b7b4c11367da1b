---------------------------- MODULE ConfigProofs ----------------------------
(***************************************************************************)
(* Theorems about the configuration, for any set of configurations, any    *)
(* files and any number of temporary names: the store implements           *)
(* DurableConfig (ConfigStore), and what it holds is what the daemon runs  *)
(* with (ConfigSchema).                                                    *)
(*                                                                         *)
(* The refinement needs to know what a save in progress has done so far:   *)
(* that the backup it writes is its candidate or a configuration the       *)
(* primary may still show, and that once both renames are done the primary *)
(* shows the candidate.                                                    *)
(***************************************************************************)
EXTENDS ConfigStore, ConfigSchema, TLAPS

\* What a name shows now, it may show after a power loss.
FilesOnDisk == \A n \in Name : files[n] \in disk[n]

\* A save belongs to a daemon, has a free temporary name where it uses one,
\* and keeps what it replaces recoverable until it is complete.
SaveUnderWay ==
    save # None =>
        /\ current # None
        /\ save.backup = save.candidate \/ save.backup \in disk["primary"]
        /\ \A n \in Name : save.at = RenameOf(n) => stale[n] < Attempts
        /\ save.at = "sync" => files["primary"] = save.candidate
        /\ files["primary"] # Newer

Inv == TypeOK /\ FilesOnDisk /\ SaveUnderWay

-----------------------------------------------------------------------------
LEMMA LoadedIsConfig ==
    ASSUME NEW p, NEW b PROVE LoadedFrom(p, b) \in Config
BY DefaultAssumption DEF LoadedFrom

LEMMA InitInv == Init => Inv
<1> SUFFICES ASSUME Init PROVE Inv
    OBVIOUS
<1>1. TypeOK
  <2>1. disk \in [Name -> SUBSET Content]
      BY DEF Init
  <2>2. stale \in [Name -> 0..Attempts]
      BY AttemptsAssumption DEF Init
  <2> QED BY <2>1, <2>2 DEF Init, TypeOK
<1>2. FilesOnDisk
    BY DEF Init, FilesOnDisk
<1>3. SaveUnderWay
    BY DEF Init, SaveUnderWay
<1> QED
    BY <1>1, <1>2, <1>3 DEF Inv

\* Counting one more leftover where a name was free stays within Attempts.
LEMMA InterruptedType ==
    ASSUME Inv PROVE Interrupted \in [Name -> 0..Attempts]
BY AttemptsAssumption DEF Inv, TypeOK, SaveUnderWay, Interrupted, Name

LEMMA RebornType ==
    ASSUME Inv, Reborn PROVE stale' \in [Name -> 0..Attempts]
BY InterruptedType, AttemptsAssumption DEF Reborn

LEMMA LeftType ==
    ASSUME TypeOK, NEW n \in Name, stale[n] < Attempts, stale' \in Left(n)
    PROVE stale' \in [Name -> 0..Attempts]
BY AttemptsAssumption DEF TypeOK, Left

LEMMA NextInv == Inv /\ [Next]_vars => Inv'
<1> SUFFICES ASSUME Inv, [Next]_vars PROVE Inv'
    OBVIOUS
<1> USE DEF Inv
<1>1. CASE Start
  <2>1. TypeOK'
      BY <1>1, LoadedIsConfig DEF Start, TypeOK
  <2>2. FilesOnDisk' /\ SaveUnderWay'
      BY <1>1 DEF Start, FilesOnDisk, SaveUnderWay
  <2> QED BY <2>1, <2>2
<1>2. ASSUME NEW c \in Config, Begin(c) PROVE Inv'
  <2>1. BackupOf(c) \in Config
      BY DEF BackupOf
  <2>2. TypeOK'
      BY <1>2, <2>1 DEF Begin, TypeOK, Save, Step
  <2>3. FilesOnDisk'
      BY <1>2 DEF Begin, FilesOnDisk
  <2>4. BackupOf(c) = c \/ BackupOf(c) \in disk["primary"]
      BY DEF BackupOf, FilesOnDisk, Name
  <2>5. SaveUnderWay'
      BY <1>2, <2>4 DEF Begin, SaveUnderWay, RenameOf, Name
  <2> QED BY <2>2, <2>3, <2>5
<1>3. ASSUME NEW n \in Name, WriteTemp(n) PROVE Inv'
  <2>1. FilesOnDisk'
      BY <1>3 DEF WriteTemp, FilesOnDisk
  <2>2. CASE save' = [save EXCEPT !.at = RenameOf(n)] /\ stale' = stale
    <3>1. save \in Save
        BY <1>3 DEF WriteTemp, TypeOK
    <3>2. save' \in Save
        BY <2>2, <3>1 DEF Save, Step, RenameOf
    <3>3. TypeOK'
        BY <1>3, <2>2, <3>2 DEF WriteTemp, TypeOK
    <3>4. /\ save'.candidate = save.candidate /\ save'.backup = save.backup
          /\ save'.at = RenameOf(n)
        BY <2>2, <3>1 DEF Save
    <3>5. SaveUnderWay'
        BY <1>3, <2>2, <3>4 DEF WriteTemp, SaveUnderWay, RenameOf, Name
    <3> QED BY <2>1, <3>3, <3>5
  <2>3. CASE save' = None /\ stale' \in Left(n)
    <3>1. TypeOK'
        BY <1>3, <2>3, LeftType DEF WriteTemp, TypeOK
    <3> QED BY <2>1, <2>3, <3>1 DEF SaveUnderWay
  <2> QED BY <1>3, <2>2, <2>3 DEF WriteTemp
<1>4. ASSUME NEW n \in Name, NoTemp(n) PROVE Inv'
    BY <1>4 DEF NoTemp, TypeOK, FilesOnDisk, SaveUnderWay
<1>5. ASSUME NEW n \in Name, Rename(n) PROVE Inv'
  <2>1. save \in Save /\ save # None
      BY <1>5 DEF Rename, TypeOK
  <2>2. Bytes(n) \in Config
      BY <2>1 DEF Bytes, Save
  <2>3. CASE /\ files' = [files EXCEPT ![n] = Bytes(n)]
             /\ disk' = [disk EXCEPT ![n] = @ \cup {Bytes(n)}]
             /\ save' = [save EXCEPT !.at = After(n)]
             /\ stale' = stale
    <3>1. save' \in Save
        BY <2>1, <2>3 DEF Save, Step, After
    <3>2. TypeOK'
        BY <1>5, <2>2, <2>3, <3>1 DEF Rename, TypeOK, Content
    <3>3. FilesOnDisk'
        BY <2>3 DEF TypeOK, FilesOnDisk
    <3>4. /\ save'.candidate = save.candidate /\ save'.backup = save.backup
          /\ save'.at = After(n)
        BY <2>1, <2>3 DEF Save
    <3>5. disk["primary"] \subseteq disk'["primary"]
        BY <2>3 DEF TypeOK, Name
    <3>6. n = "primary" => files'["primary"] = save.candidate
        BY <2>3 DEF TypeOK, Bytes, Name
    <3>7. files'["primary"] # Newer
        BY <2>1, <2>2, <2>3, ContentAssumption DEF TypeOK, SaveUnderWay, Name
    <3>8. SaveUnderWay'
        BY <1>5, <2>1, <2>3, <3>4, <3>5, <3>6, <3>7 DEF Rename, SaveUnderWay, RenameOf, After, Name
    <3> QED BY <3>2, <3>3, <3>8
  <2>4. CASE save' = None /\ stale' \in Left(n) /\ files' = files /\ disk' = disk
    <3>1. stale[n] < Attempts
        BY <1>5, <2>1 DEF Rename, SaveUnderWay
    <3>2. TypeOK'
        BY <1>5, <2>4, <3>1, LeftType DEF Rename, TypeOK
    <3> QED BY <2>4, <3>2 DEF FilesOnDisk, SaveUnderWay
  <2> QED BY <1>5, <2>3, <2>4 DEF Rename
<1>6. CASE SyncDirectory
  <2>1. save \in Save
      BY <1>6 DEF SyncDirectory, TypeOK
  <2>2. TypeOK'
      BY <1>6, <2>1 DEF SyncDirectory, TypeOK, Save
  <2>3. FilesOnDisk'
      BY <1>6 DEF SyncDirectory, FilesOnDisk
  <2> QED BY <1>6, <2>2, <2>3 DEF SyncDirectory, SaveUnderWay
<1>7. CASE Exit
    BY <1>7, RebornType DEF Exit, TypeOK, FilesOnDisk, SaveUnderWay
<1>8. CASE PowerLoss
  <2>1. TypeOK'
      BY <1>8, RebornType DEF PowerLoss, TypeOK
  <2> QED BY <1>8, <2>1 DEF PowerLoss, FilesOnDisk, SaveUnderWay
<1>9. CASE Edit
  <2> PICK c \in Content : /\ files' = [files EXCEPT !["primary"] = c]
                           /\ disk' = [disk EXCEPT !["primary"] = @ \cup {c}]
      BY <1>9 DEF Edit
  <2>1. TypeOK'
      BY <1>9 DEF Edit, TypeOK, Name
  <2>2. FilesOnDisk'
      BY DEF TypeOK, FilesOnDisk, Name
  <2> QED BY <1>9, <2>1, <2>2 DEF Edit, SaveUnderWay
<1>10. CASE UNCHANGED vars
    BY <1>10 DEF vars, TypeOK, FilesOnDisk, SaveUnderWay
<1> QED
    BY <1>1, <1>2, <1>3, <1>4, <1>5, <1>6, <1>7, <1>8, <1>9, <1>10 DEF Next, SaveStep

-----------------------------------------------------------------------------
(* Type correctness.                                                       *)

THEOREM InvHolds == Spec => []Inv
  <1>1. Init => Inv
      BY InitInv
  <1>2. Inv /\ [Next]_vars => Inv'
      BY NextInv
  <1> QED
      BY <1>1, <1>2, PTL DEF Spec

\* Contents, leftovers and the save in progress stay in their types: no save
\* leaves more temporary files than there are names.
THEOREM TypeCorrect == Spec => []TypeOK
  <1>1. Inv => TypeOK
      BY DEF Inv
  <1> QED
      BY <1>1, InvHolds, PTL

-----------------------------------------------------------------------------
(* Refinement.                                                             *)

LEMMA InitRefines == Init => Store!Init
<1> SUFFICES ASSUME Init PROVE Store!Init
    OBVIOUS
<1> DEFINE c == LoadedFrom(files["primary"], files["backup"])
<1>1. c \in Config
    BY LoadedIsConfig
<1>2. disk["primary"] = {files["primary"]} /\ disk["backup"] = {files["backup"]}
    BY DEF Init, Name
<1>3. Holds = {c}
    BY <1>2 DEF Holds
<1> QED
    BY <1>1, <1>3 DEF Init, Store!Init, Saving

\* A save in progress is one of the abstract store.
LEMMA SavingIsCandidate ==
    ASSUME TypeOK, save # None
    PROVE Saving = save.candidate /\ Saving \in Config /\ Saving # None
BY ContentAssumption DEF TypeOK, Save, Saving

LEMMA NoSaveIsNone == save = None => Saving = None
BY DEF Saving

LEMMA StepRefines == Inv /\ Inv' /\ [Next]_vars => [Store!Next]_(Store!vars)
<1> SUFFICES ASSUME Inv, Inv', [Next]_vars PROVE [Store!Next]_(Store!vars)
    OBVIOUS
<1> USE DEF Inv
<1>f. files["primary"] \in disk["primary"] /\ files["backup"] \in disk["backup"]
    BY DEF FilesOnDisk, Name
<1>1. CASE Start
  <2>1. LoadedFrom(files["primary"], files["backup"]) \in Holds
      BY <1>f DEF Holds
  <2>2. Saving' = Saving /\ Holds' = Holds
      BY <1>1 DEF Start, Saving, Holds
  <2> QED BY <1>1, <2>1, <2>2 DEF Start, Store!Start, Store!Next
<1>2. ASSUME NEW c \in Config, Begin(c) PROVE Store!Begin
  <2>1. Saving = None
      BY <1>2 DEF Begin, Saving
  <2>2. save' # None
      BY <1>2, NoneAssumption DEF Begin, BackupOf, Save, Step
  <2>3. Saving' = c
      BY <1>2, <2>2 DEF Begin, Saving
  <2>4. Holds' = Holds
      BY <1>2 DEF Begin, Holds
  <2> QED BY <1>2, <2>1, <2>3, <2>4 DEF Begin, Store!Begin
<1>3. ASSUME save # None, save' = None, UNCHANGED <<current, disk, edited>> PROVE Store!Fail
  <2>1. Saving # None /\ Saving' = None
      BY <1>3, SavingIsCandidate DEF Saving
  <2>2. Holds' = Holds
      BY <1>3 DEF Holds
  <2> QED BY <1>3, <2>1, <2>2 DEF Store!Fail
<1>4. ASSUME NEW n \in Name, WriteTemp(n) PROVE [Store!Next]_(Store!vars)
  <2>1. CASE save' = [save EXCEPT !.at = RenameOf(n)]
    <3>1. save \in Save
        BY <1>4 DEF WriteTemp, TypeOK
    <3>2. save' \in Save /\ save'.candidate = save.candidate
        BY <2>1, <3>1 DEF Save, Step, RenameOf
    <3>3. Saving' = Saving
        BY <1>4, <3>2, NoneAssumption DEF WriteTemp, Saving
    <3>4. Holds' = Holds
        BY <1>4 DEF WriteTemp, Holds
    <3> QED BY <1>4, <3>3, <3>4 DEF WriteTemp, Store!vars
  <2>2. CASE save' = None
      BY <1>3, <1>4, <2>2 DEF WriteTemp, Store!Next
  <2> QED BY <1>4, <2>1, <2>2 DEF WriteTemp
<1>5. ASSUME NEW n \in Name, NoTemp(n) PROVE Store!Fail
    BY <1>3, <1>5 DEF NoTemp
<1>6. ASSUME NEW n \in Name, Rename(n) PROVE [Store!Next]_(Store!vars)
  <2>1. save # None /\ save \in Save
      BY <1>6 DEF Rename, TypeOK
  <2>2. CASE /\ disk' = [disk EXCEPT ![n] = @ \cup {Bytes(n)}]
             /\ save' = [save EXCEPT !.at = After(n)]
    <3>1. save' \in Save /\ save'.candidate = save.candidate
        BY <2>1, <2>2 DEF Save, Step, After
    <3>2. Saving' = Saving /\ Saving = save.candidate /\ Saving # None
        BY <2>1, <3>1, SavingIsCandidate, NoneAssumption DEF Saving
    <3>3. Holds' = Holds \/ Holds' = Holds \cup {Saving}
      <4>1. CASE n = "primary"
        <5>1. /\ disk'["primary"] = disk["primary"] \cup {save.candidate}
              /\ disk'["backup"] = disk["backup"]
            BY <2>2, <4>1 DEF TypeOK, Name, Bytes
        <5>2. \A b : LoadedFrom(save.candidate, b) = save.candidate
            BY <2>1 DEF LoadedFrom, Save
        <5> QED BY <1>f, <3>2, <5>1, <5>2 DEF Holds
      <4>2. CASE n = "backup"
        <5>1. /\ disk'["backup"] = disk["backup"] \cup {save.backup}
              /\ disk'["primary"] = disk["primary"]
            BY <2>2, <4>2 DEF TypeOK, Name, Bytes
        <5>2. \A p \in disk["primary"] :
                 \/ LoadedFrom(p, save.backup) = save.candidate
                 \/ LoadedFrom(p, save.backup) \in Holds
          <6> SUFFICES ASSUME NEW p \in disk["primary"]
                       PROVE \/ LoadedFrom(p, save.backup) = save.candidate
                             \/ LoadedFrom(p, save.backup) \in Holds
              OBVIOUS
          <6>1. CASE p \in Config \/ p # Malformed
            <7>1. LoadedFrom(p, save.backup) = LoadedFrom(p, files["backup"])
                BY <6>1 DEF LoadedFrom
            <7> QED BY <1>f, <7>1 DEF Holds
          <6>2. CASE p \notin Config /\ p = Malformed
            <7>1. LoadedFrom(p, save.backup) = save.backup /\ save.backup \in Config
                BY <2>1, <6>2 DEF LoadedFrom, Save
            <7>2. CASE save.backup \in disk["primary"]
              <8>1. LoadedFrom(save.backup, files["backup"]) = save.backup
                  BY <7>1 DEF LoadedFrom
              <8> QED BY <1>f, <7>1, <7>2, <8>1 DEF Holds
            <7> QED BY <2>1, <7>1, <7>2 DEF SaveUnderWay
          <6> QED BY <6>1, <6>2
        <5> QED BY <3>2, <5>1, <5>2 DEF Holds
      <4> QED BY <4>1, <4>2 DEF Name
    <3> QED BY <1>6, <3>2, <3>3 DEF Rename, Store!Reach, Store!Next, Store!vars
  <2>3. CASE save' = None /\ disk' = disk
      BY <1>3, <1>6, <2>1, <2>3 DEF Rename, Store!Next
  <2> QED BY <1>6, <2>2, <2>3 DEF Rename
<1>7. CASE SyncDirectory
  <2>1. save # None /\ save \in Save
      BY <1>7 DEF SyncDirectory, TypeOK
  <2>2. CASE disk' = [n \in Name |-> {files[n]}] /\ current' = save.candidate
    <3>1. disk'["primary"] = {files["primary"]} /\ disk'["backup"] = {files["backup"]}
        BY <2>2 DEF Name
    <3>2. files["primary"] = save.candidate
        BY <1>7, <2>1 DEF SyncDirectory, SaveUnderWay
    <3>3. LoadedFrom(files["primary"], files["backup"]) = save.candidate
        BY <2>1, <3>2 DEF LoadedFrom, Save
    <3>4. Holds' = {save.candidate}
        BY <3>1, <3>3 DEF Holds
    <3>5. Saving = save.candidate /\ Saving # None /\ Saving' = None
        BY <1>7, <2>1, SavingIsCandidate DEF SyncDirectory, Saving
    <3> QED BY <1>7, <2>2, <3>4, <3>5 DEF SyncDirectory, Store!Acknowledge, Store!Next
  <2>3. CASE UNCHANGED <<disk, current>>
      BY <1>3, <1>7, <2>1, <2>3 DEF SyncDirectory, Store!Next
  <2> QED BY <1>7, <2>2, <2>3 DEF SyncDirectory
<1>8. CASE Exit
  <2>1. Saving' = None /\ Holds' = Holds
      BY <1>8 DEF Exit, Saving, Holds
  <2> QED BY <1>8, <2>1 DEF Exit, Store!Exit, Store!Next
<1>9. CASE PowerLoss
  <2>1. files'["primary"] \in disk["primary"] /\ files'["backup"] \in disk["backup"]
      BY <1>9 DEF PowerLoss, Name
  <2>2. disk'["primary"] = {files'["primary"]} /\ disk'["backup"] = {files'["backup"]}
      BY <1>9 DEF PowerLoss, Name
  <2>3. /\ LoadedFrom(files'["primary"], files'["backup"]) \in Holds
        /\ Holds' = {LoadedFrom(files'["primary"], files'["backup"])}
      BY <2>1, <2>2 DEF Holds
  <2>4. Saving' = None
      BY <1>9 DEF PowerLoss, Saving
  <2> QED BY <1>9, <2>3, <2>4 DEF PowerLoss, Store!PowerLoss, Store!Next
<1>10. CASE Edit
  <2> PICK c \in Content : disk' = [disk EXCEPT !["primary"] = @ \cup {c}]
      BY <1>10 DEF Edit
  <2> DEFINE new == {LoadedFrom(c, b) : b \in disk["backup"]}
  <2>1. disk'["primary"] = disk["primary"] \cup {c} /\ disk'["backup"] = disk["backup"]
      BY DEF TypeOK, Name
  <2>2. new \in SUBSET Config
      BY LoadedIsConfig
  <2>3. Holds' = Holds \cup new
      BY <2>1 DEF Holds
  <2>4. Saving = None /\ Saving' = Saving
      BY <1>10 DEF Edit, Saving
  <2> QED BY <1>10, <2>2, <2>3, <2>4 DEF Edit, Store!Replace, Store!Next
<1>11. CASE UNCHANGED vars
    BY <1>11 DEF vars, Saving, Holds, Store!vars
<1> QED
    BY <1>1, <1>2, <1>4, <1>5, <1>6, <1>7, <1>8, <1>9, <1>10, <1>11
    DEF Next, SaveStep, Store!Next

\* Whatever step of a save fails or is cut short, a restart finds the last
\* acknowledged configuration, one whose save was begun after it, or what
\* somebody else put there.
THEOREM StoreIsDurable == Spec => IsDurable
  <1>1. Init => Store!Init
      BY InitRefines
  <1>2. Inv /\ Inv' /\ [Next]_vars => [Store!Next]_(Store!vars)
      BY StepRefines
  <1> QED
      BY <1>1, <1>2, InvHolds, PTL DEF Spec, IsDurable, Store!DCSpec

-----------------------------------------------------------------------------
(* Action properties.                                                      *)

\* The file of a newer schema is left as it is by every step of this daemon,
\* also when it appeared after the daemon started.
THEOREM NewerIsPreserved == Spec => NewerPreserved
  <1> DEFINE A == files["primary"] = Newer /\ edited' = edited
                    => files'["primary"] \in disk["primary"]
  <1>1. Inv /\ [Next]_vars => [A]_vars
    <2> SUFFICES ASSUME Inv, Next, files["primary"] = Newer, edited' = edited
                 PROVE files'["primary"] \in disk["primary"]
        OBVIOUS
    <2>1. files["primary"] \in disk["primary"]
        BY DEF Inv, FilesOnDisk, Name
    <2>2. save = None
        BY DEF Inv, SaveUnderWay
    <2>3. CASE PowerLoss
        BY <2>3 DEF PowerLoss, Name
    <2>4. CASE Start \/ Exit \/ \E c \in Config : Begin(c)
        BY <2>1, <2>4 DEF Start, Exit, Begin
    <2>5. CASE Edit
        BY <2>5 DEF Edit
    <2> QED
        BY <2>2, <2>3, <2>4, <2>5 DEF Next, SaveStep, WriteTemp, NoTemp, Rename, SyncDirectory
  <1> QED
      BY <1>1, InvHolds, PTL DEF Spec, NewerPreserved

\* If some copy can be read after any power loss, no step of a save, and no
\* failure of one, changes that.
THEOREM CopyStaysReadable == Spec => StaysReadable
  <1> DEFINE A == Readable /\ edited' = edited => Readable'
  <1>1. Inv /\ [Next]_vars => [A]_vars
    <2> SUFFICES ASSUME Inv, Next, Readable, edited' = edited
                 PROVE Readable'
        OBVIOUS
    <2>1. CASE disk' = disk
        BY <2>1 DEF Readable
    <2>2. ASSUME \A n \in Name : disk'[n] \subseteq disk[n]
          PROVE Readable'
        BY <2>2 DEF Readable, Name
    <2>3. CASE PowerLoss
        BY <2>2, <2>3 DEF PowerLoss, Name
    <2>4. CASE SyncDirectory
        BY <2>1, <2>2, <2>4 DEF SyncDirectory, Inv, FilesOnDisk, Name
    <2>5. ASSUME NEW n \in Name, Rename(n)
          PROVE Readable'
      <3>1. Bytes(n) \in Config
          BY <2>5 DEF Rename, Bytes, Inv, TypeOK, Save
      <3>2. CASE disk' = [disk EXCEPT ![n] = @ \cup {Bytes(n)}]
          BY <3>1, <3>2 DEF Readable, Inv, TypeOK, Name
      <3> QED BY <2>1, <2>5, <3>2 DEF Rename
    <2>6. CASE Edit
        BY <2>6 DEF Edit
    <2> QED
        BY <2>1, <2>3, <2>4, <2>5, <2>6 DEF Next, SaveStep, Start, Begin, WriteTemp, NoTemp, Exit
  <1> QED
      BY <1>1, InvHolds, PTL DEF Spec, StaysReadable

-----------------------------------------------------------------------------
(***************************************************************************)
(* What is encoded is read back.                                           *)
(***************************************************************************)
LEMMA ChannelReadsBack ==
    ASSUME NEW ch \in Channel
    PROVE  /\ ParseChannel(ChannelText(ch)) = ch
           /\ ChannelText(ch) \in [word : {"index:", "auto", "mono", "left", "right"},
                                   number : {Unset} \cup 0..U16Max]
<1>1. CASE ch \in {[kind |-> word, index |-> 0] : word \in {"auto", "mono", "left", "right"}}
    <2>1. PICK word \in {"auto", "mono", "left", "right"} : ch = [kind |-> word, index |-> 0]
        BY <1>1
    <2>2. ChannelText(ch) = [word |-> word, number |-> Unset]
        BY <2>1 DEF ChannelText
    <2> QED BY <2>1, <2>2 DEF ParseChannel
<1>2. CASE ch \in {[kind |-> "index", index |-> n] : n \in 0..U16Max}
    <2>1. PICK n \in 0..U16Max : ch = [kind |-> "index", index |-> n]
        BY <1>2
    <2>2. ChannelText(ch) = [word |-> "index:", number |-> n]
        BY <2>1 DEF ChannelText
    <2> QED BY <2>1, <2>2 DEF ParseChannel
<1> QED BY <1>1, <1>2 DEF Channel

LEMMA ParsedChannel ==
    ASSUME NEW text, ParseChannel(text) # Unset
    PROVE  ParseChannel(text) \in Channel
BY DEF ParseChannel, Channel

LEMMA ReadsBack ==
    ASSUME NEW c \in NoireConfig, Validates(c)
    PROVE  Decode(Encode(c)) = [result |-> "valid", config |-> c]
<1> DEFINE doc == Encode(c)
           ch == c.input.channel
<1>1. /\ c.active \in BOOLEAN /\ c.start_with \in BOOLEAN /\ c.launch \in BOOLEAN
      /\ c.input \in [mode : Mode, stable_id : Texts, channel : Channel] /\ c.profile \in Profile
      /\ c.suppression \in [enabled : BOOLEAN, strength : Int, fail_mode : FailModes]
    BY DEF NoireConfig
<1>2. ch \in Channel /\ c.input.mode \in Mode /\ c.input.stable_id \in Texts
      /\ c.suppression.enabled \in BOOLEAN /\ c.suppression.strength \in Int
      /\ c.suppression.fail_mode \in FailModes
    BY <1>1
<1> DEFINE text == ChannelText(ch)
<1>3. /\ ParseChannel(text) = ch
      /\ text \in [word : {"index:", "auto", "mono", "left", "right"},
                   number : {Unset} \cup 0..U16Max]
    BY <1>2, ChannelReadsBack
<1>4. doc = [schema_version |-> 1, active |-> c.active, start_with |-> c.start_with,
             launch |-> c.launch, mode |-> c.input.mode, stable_id |-> c.input.stable_id,
             channel |-> text, profile |-> c.profile,
             enabled |-> c.suppression.enabled, strength |-> c.suppression.strength,
             fail_mode |-> c.suppression.fail_mode]
    BY DEF Encode
<1> HIDE DEF doc, text
<1>5. doc \in [schema_version : {1}, active : BOOLEAN, start_with : BOOLEAN, launch : BOOLEAN,
               mode : Mode, stable_id : Texts,
               channel : [word : {"index:", "auto", "mono", "left", "right"},
                          number : {Unset} \cup 0..U16Max],
               profile : Profile, enabled : BOOLEAN, strength : Int, fail_mode : FailModes]
    BY <1>1, <1>2, <1>3, <1>4
<1>6. doc # Unset /\ doc.schema_version = 1 /\ Unset # 1 /\ Unset \notin Channel
      /\ doc.start_with # Unset
    BY <1>1, <1>4, <1>5, UnsetAssumption
<1>7. Parse(doc) = c
    <2>1. Parse(doc) = [active |-> c.active, start_with |-> c.start_with, launch |-> c.launch,
                        input |-> [mode |-> c.input.mode, stable_id |-> c.input.stable_id,
                                   channel |-> ch],
                        profile |-> c.profile,
                        suppression |-> [enabled |-> c.suppression.enabled,
                                         strength |-> c.suppression.strength,
                                         fail_mode |-> c.suppression.fail_mode]]
        BY <1>3, <1>4, <1>6 DEF Parse
    <2>2. c.input = [mode |-> c.input.mode, stable_id |-> c.input.stable_id, channel |-> ch]
        BY <1>1
    <2>3. c.suppression = [enabled |-> c.suppression.enabled, strength |-> c.suppression.strength,
                           fail_mode |-> c.suppression.fail_mode]
        BY <1>1
    <2>4. c = [active |-> c.active, start_with |-> c.start_with, launch |-> c.launch,
               input |-> c.input, profile |-> c.profile, suppression |-> c.suppression]
        BY DEF NoireConfig
    <2> QED BY <2>1, <2>2, <2>3, <2>4
<1>8. ParseChannel(doc.channel) # Unset
    BY <1>2, <1>3, <1>4, <1>6
<1>9. Decode(doc) = [result |-> "valid", config |-> Parse(doc)]
    BY <1>6, <1>7, <1>8 DEF Decode
<1> QED BY <1>7, <1>9 DEF doc

-----------------------------------------------------------------------------
(***************************************************************************)
(* What is decoded is a configuration that validates.                      *)
(***************************************************************************)
Sound(c) == c \in NoireConfig /\ Validates(c)

\* What may stand in a file: what was there, or what a daemon has saved.
OnDisk == Documents \cup {Unset} \cup {Encode(c) : c \in {d \in NoireConfig : Validates(d)}}

LEMMA DefaultIsSound == Sound(DefaultConfig)
<1> DEFINE a == DefaultInput
           b == DefaultSuppression
<1>1. a \in [mode : Mode, stable_id : Texts, channel : Channel] /\ a.mode = "follow-default"
      /\ a.stable_id = ""
    BY SchemaAssumption DEF DefaultInput, Mode, Channel
<1>2. b \in [enabled : BOOLEAN, strength : Int, fail_mode : FailModes] /\ b.strength = 55
    BY DEF DefaultSuppression, FailModes
<1>3. DefaultConfig = [active |-> FALSE, start_with |-> FALSE, launch |-> FALSE, input |-> a,
                       profile |-> "low", suppression |-> b]
    BY DEF DefaultConfig
<1> HIDE DEF a, b
<1>4. DefaultConfig \in NoireConfig /\ DefaultConfig.input = a /\ DefaultConfig.suppression = b
    BY <1>1, <1>2, <1>3 DEF NoireConfig, Profile
<1>5. DefaultConfig.input.mode # "selected" /\ DefaultConfig.input.stable_id = ""
    BY <1>1, <1>4
<1>6. DefaultConfig.suppression.strength \in 0..100
    BY <1>2, <1>4
<1>7. Validates(DefaultConfig)
    BY <1>5, <1>6, Zenon DEF Validates
<1> QED BY <1>4, <1>7 DEF Sound

\* The fields of a configuration, one by one.
LEMMA ConfigFields ==
    ASSUME NEW c \in NoireConfig
    PROVE  /\ \A v \in BOOLEAN : /\ [c EXCEPT !.active = v] \in NoireConfig
                                /\ [c EXCEPT !.start_with = v] \in NoireConfig
                                /\ [c EXCEPT !.launch = v] \in NoireConfig
           /\ \A v \in Profile : [c EXCEPT !.profile = v] \in NoireConfig
           /\ \A v \in [mode : Mode, stable_id : Texts, channel : Channel] :
                 [c EXCEPT !.input = v] \in NoireConfig
           /\ \A v \in [enabled : BOOLEAN, strength : Int, fail_mode : FailModes] :
                 [c EXCEPT !.suppression = v] \in NoireConfig
BY DEF NoireConfig

LEMMA InnerFields ==
    ASSUME NEW c \in NoireConfig
    PROVE  /\ \A m \in Mode, t \in Texts :
                 [c EXCEPT !.input.mode = m, !.input.stable_id = t] \in NoireConfig
           /\ \A v \in BOOLEAN : [c EXCEPT !.suppression.enabled = v] \in NoireConfig
           /\ \A v \in Int : [c EXCEPT !.suppression.strength = v] \in NoireConfig
           /\ \A v \in FailModes : [c EXCEPT !.suppression.fail_mode = v] \in NoireConfig
<1> DEFINE In == [mode : Mode, stable_id : Texts, channel : Channel]
           Sup == [enabled : BOOLEAN, strength : Int, fail_mode : FailModes]
<1>1. c.input \in In /\ c.suppression \in Sup /\ DOMAIN c =
        {"active", "start_with", "launch", "input", "profile", "suppression"}
    BY DEF NoireConfig
<1>2. ASSUME NEW m \in Mode, NEW t \in Texts
      PROVE  [c EXCEPT !.input.mode = m, !.input.stable_id = t] \in NoireConfig
    <2> DEFINE in == [c.input EXCEPT !.mode = m, !.stable_id = t]
    <2>1. in \in In
        BY <1>1
    <2>2. [c EXCEPT !.input.mode = m, !.input.stable_id = t] = [c EXCEPT !.input = in]
        BY <1>1
    <2> HIDE DEF in
    <2> QED BY <2>1, <2>2, ConfigFields
<1>3. ASSUME NEW v \in BOOLEAN
      PROVE  [c EXCEPT !.suppression.enabled = v] \in NoireConfig
    <2> DEFINE sup == [c.suppression EXCEPT !.enabled = v]
    <2>1. sup \in Sup
        BY <1>1
    <2>2. [c EXCEPT !.suppression.enabled = v] = [c EXCEPT !.suppression = sup]
        BY <1>1
    <2> HIDE DEF sup
    <2> QED BY <2>1, <2>2, ConfigFields
<1>4. ASSUME NEW v \in Int
      PROVE  [c EXCEPT !.suppression.strength = v] \in NoireConfig
    <2> DEFINE sup == [c.suppression EXCEPT !.strength = v]
    <2>1. sup \in Sup
        BY <1>1
    <2>2. [c EXCEPT !.suppression.strength = v] = [c EXCEPT !.suppression = sup]
        BY <1>1
    <2> HIDE DEF sup
    <2> QED BY <2>1, <2>2, ConfigFields
<1>5. ASSUME NEW v \in FailModes
      PROVE  [c EXCEPT !.suppression.fail_mode = v] \in NoireConfig
    <2> DEFINE sup == [c.suppression EXCEPT !.fail_mode = v]
    <2>1. sup \in Sup
        BY <1>1
    <2>2. [c EXCEPT !.suppression.fail_mode = v] = [c EXCEPT !.suppression = sup]
        BY <1>1
    <2> HIDE DEF sup
    <2> QED BY <2>1, <2>2, ConfigFields
<1> QED BY <1>2, <1>3, <1>4, <1>5

LEMMA MigratedType ==
    ASSUME NEW doc \in Documents, doc.schema_version = 0
    PROVE  Migrate(doc) \in NoireConfig
<1>1. /\ doc.active \in BOOLEAN /\ doc.enabled \in BOOLEAN
      /\ doc.input_node \in Texts /\ doc.strength \in Int
    BY DocumentAssumption
<1> DEFINE m == IF Trimmed(doc.input_node) # "" THEN "selected" ELSE "follow-default"
           c1 == [DefaultConfig EXCEPT !.active = doc.active]
           c2 == [c1 EXCEPT !.input.mode = m, !.input.stable_id = doc.input_node]
           c3 == [c2 EXCEPT !.suppression.enabled = doc.enabled]
           c4 == [c3 EXCEPT !.suppression.strength = doc.strength]
<1>2. m \in Mode
    BY DEF Mode
<1>3. c1 \in NoireConfig
    BY <1>1, DefaultIsSound, ConfigFields DEF Sound
<1>4. Migrate(doc) = c4
    BY DEF Migrate
<1> HIDE DEF m, c1
<1>5. c2 \in NoireConfig
    BY <1>1, <1>2, <1>3, InnerFields
<1> HIDE DEF c2
<1>6. c3 \in NoireConfig
    BY <1>1, <1>5, InnerFields
<1> HIDE DEF c3
<1>7. c4 \in NoireConfig
    BY <1>1, <1>6, InnerFields
<1> QED BY <1>4, <1>7

LEMMA ParsedType ==
    ASSUME NEW doc \in Documents, doc.schema_version = 1, ParseChannel(doc.channel) # Unset
    PROVE  Parse(doc) \in NoireConfig
<1>1. /\ doc.active \in BOOLEAN /\ doc.launch \in BOOLEAN /\ doc.enabled \in BOOLEAN
      /\ doc.start_with \in BOOLEAN \cup {Unset}
      /\ doc.mode \in Mode /\ doc.stable_id \in Texts
      /\ doc.profile \in Profile /\ doc.strength \in Int /\ doc.fail_mode \in FailModes
    BY DocumentAssumption
<1>2. ParseChannel(doc.channel) \in Channel
    BY ParsedChannel
<1> DEFINE s == IF doc.start_with = Unset THEN FALSE ELSE doc.start_with
           ch == ParseChannel(doc.channel)
<1>3. s \in BOOLEAN
    BY <1>1
<1>4. Parse(doc) =
        [active |-> doc.active, start_with |-> s, launch |-> doc.launch,
         input |-> [mode |-> doc.mode, stable_id |-> doc.stable_id, channel |-> ch],
         profile |-> doc.profile,
         suppression |-> [enabled |-> doc.enabled, strength |-> doc.strength,
                          fail_mode |-> doc.fail_mode]]
    BY DEF Parse
<1> HIDE DEF s, ch
<1> QED BY <1>1, <1>2, <1>3, <1>4 DEF NoireConfig, ch

LEMMA DecodedIsSound ==
    ASSUME NEW doc \in OnDisk, Decode(doc).result = "valid"
    PROVE  Sound(Decode(doc).config)
<1>1. ASSUME NEW c \in NoireConfig, Validates(c), doc = Encode(c)
      PROVE  Sound(Decode(doc).config)
    BY <1>1, ReadsBack DEF Sound
<1>2. CASE doc \in Documents /\ doc # Unset
    <2>1. CASE doc.schema_version = 0
        <3>1. Decode(doc) = [result |-> "valid", config |-> Migrate(doc)] /\ Validates(Migrate(doc))
            BY <1>2, <2>1, UnsetAssumption DEF Decode
        <3> QED BY <1>2, <2>1, <3>1, MigratedType DEF Sound
    <2>2. CASE doc.schema_version = 1
        <3>1. /\ Decode(doc) = [result |-> "valid", config |-> Parse(doc)]
              /\ ParseChannel(doc.channel) # Unset /\ Validates(Parse(doc))
            BY <1>2, <2>2, UnsetAssumption DEF Decode
        <3> QED BY <1>2, <2>2, <3>1, ParsedType DEF Sound
    <2>3. CASE doc.schema_version \notin {0, 1}
        BY <1>2, <2>3 DEF Decode
    <2> QED BY <2>1, <2>2, <2>3
<1>3. CASE doc = Unset
    BY <1>3 DEF Decode
<1> QED BY <1>1, <1>2, <1>3 DEF OnDisk

-----------------------------------------------------------------------------
(***************************************************************************)
(* The daemon's configuration and its files.                               *)
(***************************************************************************)
SchemaInv ==
    /\ primary \in OnDisk /\ backup \in OnDisk
    /\ config # Unset => Sound(config)
    /\ saved => config # Unset /\ primary = Encode(config)

LEMMA LoadedIsSound ==
    ASSUME primary \in OnDisk, backup \in OnDisk
    PROVE  Sound(Loaded)
<1>1. CASE Decode(primary).result = "valid"
    <2>1. Loaded = Decode(primary).config
        BY <1>1 DEF Loaded
    <2> QED BY <1>1, <2>1, DecodedIsSound
<1>2. CASE Decode(primary).result = "malformed" /\ Decode(backup).result = "valid"
    <2>1. Loaded = Decode(backup).config
        BY <1>2 DEF Loaded
    <2> QED BY <1>2, <2>1, DecodedIsSound
<1>3. CASE ~(\/ Decode(primary).result = "valid"
             \/ Decode(primary).result = "malformed" /\ Decode(backup).result = "valid")
    <2>1. Loaded = DefaultConfig
        BY <1>3 DEF Loaded
    <2> QED BY <2>1, DefaultIsSound
<1> QED BY <1>1, <1>2, <1>3

\* Whatever call is made, what it would have the daemon run with is a
\* configuration; whether it validates is Mutate's to ask.
LEMMA MutateKeeps ==
    ASSUME SchemaInv, NEW candidate \in NoireConfig, Mutate(candidate)
    PROVE  SchemaInv'
<1>1. CASE Refuse
    BY <1>1 DEF SchemaInv, Refuse, Sound
<1>2. CASE Validates(candidate) /\ SaveAs(candidate)
    <2>1. CASE Refuse
        BY <2>1 DEF SchemaInv, Refuse, Sound
    <2>2. CASE /\ primary' = Encode(candidate)
               /\ backup' = IF Decode(primary).result = "valid" THEN primary ELSE Encode(candidate)
               /\ config' = candidate /\ saved' = TRUE
        <3>1. Encode(candidate) \in OnDisk /\ Sound(candidate)
            BY <1>2 DEF OnDisk, Sound
        <3>2. candidate # Unset
            BY UnsetAssumption
        <3>3. primary' \in OnDisk /\ backup' \in OnDisk
            BY <2>2, <3>1 DEF SchemaInv
        <3>4. Sound(config')
            BY <2>2, <3>1
        <3> QED BY <2>2, <3>2, <3>3, <3>4 DEF SchemaInv, Sound
    <2> QED BY <1>2, <2>1, <2>2 DEF SaveAs
<1> QED BY <1>1, <1>2 DEF Mutate

LEMMA SchemaInvInit == SchemaInit => SchemaInv
BY DEF SchemaInit, SchemaInv, OnDisk

LEMMA SchemaInvStep == SchemaInv /\ [SchemaNext]_schemaVars => SchemaInv'
<1> SUFFICES ASSUME SchemaInv, [SchemaNext]_schemaVars
             PROVE  SchemaInv'
    OBVIOUS
<1>1. CASE Boot
    <2> DEFINE loaded == Loaded
    <2>1. Sound(loaded)
        BY LoadedIsSound DEF SchemaInv
    <2>2. loaded.start_with \in BOOLEAN
        BY <2>1 DEF Sound, NoireConfig
    <2>3. config' = [loaded EXCEPT !.active = loaded.start_with]
        BY <1>1 DEF Boot
    <2> HIDE DEF loaded
    <2>4. config' \in NoireConfig
        BY <2>1, <2>2, <2>3, ConfigFields DEF Sound
    <2>5. config'.input = loaded.input /\ config'.suppression = loaded.suppression
        BY <2>1, <2>3 DEF Sound, NoireConfig
    <2>6. Validates(config')
        BY <2>1, <2>5 DEF Sound, Validates
    <2> QED BY <1>1, <2>4, <2>6 DEF Boot, SchemaInv, Sound
<1>2. CASE EndDaemon
    BY <1>2 DEF EndDaemon, SchemaInv, Sound
<1>3. CASE \E doc \in Documents \cup {Unset} : ReplaceFile(doc)
    BY <1>3 DEF ReplaceFile, SchemaInv, Sound, OnDisk
<1>4. ASSUME config # Unset, NEW text \in Texts, SelectInput(text)
      PROVE  SchemaInv'
    <2>0. config \in NoireConfig
        BY <1>4 DEF SchemaInv, Sound
    <2>1. CASE text = ""
        <3>1. Mutate([config EXCEPT !.input.mode = "follow-default", !.input.stable_id = ""])
            BY <1>4, <2>1 DEF SelectInput
        <3>2. [config EXCEPT !.input.mode = "follow-default", !.input.stable_id = ""] \in NoireConfig
            BY <2>0, InnerFields, SchemaAssumption DEF Mode
        <3> QED BY <3>1, <3>2, MutateKeeps
    <2>2. CASE text # ""
        <3>1. Mutate([config EXCEPT !.input.mode = "selected", !.input.stable_id = text])
            BY <1>4, <2>2 DEF SelectInput
        <3>2. [config EXCEPT !.input.mode = "selected", !.input.stable_id = text] \in NoireConfig
            BY <2>0, InnerFields DEF Mode
        <3> QED BY <3>1, <3>2, MutateKeeps
    <2> QED BY <2>1, <2>2
<1>5. ASSUME config # Unset, NEW text \in Texts, SetLatencyProfile(text)
      PROVE  SchemaInv'
    <2>1. [config EXCEPT !.profile = text] \in NoireConfig
        BY <1>5, ConfigFields DEF SchemaInv, Sound, SetLatencyProfile
    <2> QED BY <1>5, <2>1, MutateKeeps DEF SetLatencyProfile
<1>6. ASSUME config # Unset, NEW text \in Texts, SetFailMode(text)
      PROVE  SchemaInv'
    <2>1. [config EXCEPT !.suppression.fail_mode = text] \in NoireConfig
        BY <1>6, InnerFields DEF SchemaInv, Sound, SetFailMode
    <2> QED BY <1>6, <2>1, MutateKeeps DEF SetFailMode
<1>7. ASSUME config # Unset, NEW strength \in Strengths, SetStrength(strength)
      PROVE  SchemaInv'
    <2>1. [config EXCEPT !.suppression.strength = strength] \in NoireConfig
        BY <1>7, InnerFields, SchemaAssumption DEF SchemaInv, Sound
    <2> QED BY <1>7, <2>1, MutateKeeps DEF SetStrength
<1>8. ASSUME config # Unset, NEW on \in BOOLEAN,
             \/ SetActive(on) \/ SetSuppressionEnabled(on)
             \/ SetStartWithNoiseReduction(on) \/ SetLaunchAtLogin(on)
      PROVE  SchemaInv'
    <2>1. /\ [config EXCEPT !.active = on] \in NoireConfig
          /\ [config EXCEPT !.start_with = on] \in NoireConfig
          /\ [config EXCEPT !.launch = on] \in NoireConfig
        BY <1>8, ConfigFields DEF SchemaInv, Sound
    <2>2. [config EXCEPT !.suppression.enabled = on] \in NoireConfig
        BY <1>8, InnerFields DEF SchemaInv, Sound
    <2> QED BY <1>8, <2>1, <2>2, MutateKeeps
            DEF SetActive, SetSuppressionEnabled, SetStartWithNoiseReduction, SetLaunchAtLogin
<1>9. CASE UNCHANGED schemaVars
    BY <1>9 DEF schemaVars, SchemaInv, Sound
<1> QED BY <1>1, <1>2, <1>3, <1>4, <1>5, <1>6, <1>7, <1>8, <1>9 DEF SchemaNext

\* A setting that was saved is the setting the next start finds, for any text,
\* strength and channel, and whatever file, of either schema, was there first.
THEOREM SavedIsReadBack == SchemaSpec => []SavedReadsBack
<1>1. SchemaInv => SavedReadsBack
    BY ReadsBack DEF SchemaInv, SavedReadsBack, Sound
<1> QED BY <1>1, SchemaInvInit, SchemaInvStep, PTL DEF SchemaSpec

\* No file, migrated or not, and no sequence of calls leaves the daemon with a
\* configuration that validate() refuses, so that no field locks the others.
THEOREM NobodyIsLockedOut == SchemaSpec => []NeverLockedOut
<1>1. SchemaInv => NeverLockedOut
    BY DEF SchemaInv, NeverLockedOut, Sound
<1> QED BY <1>1, SchemaInvInit, SchemaInvStep, PTL DEF SchemaSpec
=============================================================================
