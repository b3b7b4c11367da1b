----------------------------- MODULE ConfigSchema -----------------------------
(***************************************************************************)
(* What the configuration file may say and what becomes of it              *)
(* (crates/noire-config/src/lib.rs): decoding with the migration of schema *)
(* 0, validation, canonical encoding, and the calls of the daemon that     *)
(* change a field (control.rs, service.rs), from one start of the daemon   *)
(* to the next.  How a file reaches the disk is ConfigStore's subject: a   *)
(* save is one step here, or fails as a whole.                             *)
(*                                                                         *)
(* A text is one of a few words; the blank one is white space only.  A     *)
(* strength is a percentage, with values out of range and one that is no   *)
(* number.  Diagnostics settings have no call and are left out.            *)
(***************************************************************************)
EXTENDS Integers

CONSTANTS
    Documents,      \* what the file may hold at first and be replaced with
    Texts,          \* arguments of calls that take a text
    Strengths,      \* arguments of SetStrength
    Blank,          \* a text that is empty once trimmed
    U16Max,         \* largest index of a channel
    Unset,          \* no document, no field, no daemon
    MaxCalls        \* bound: calls and edits

ASSUME SchemaAssumption ==
    U16Max \in Nat /\ MaxCalls \in Nat /\ "" \in Texts /\ Blank # "" /\ Strengths \subseteq Int

VARIABLES
    primary, backup,    \* the documents in the two files
    config,             \* Daemon.config, Unset while no daemon runs
    mayWrite,
    saved,              \* history: primary is what this daemon saved
    calls

schemaVars == <<primary, backup, config, mayWrite, saved, calls>>

-----------------------------------------------------------------------------
(***************************************************************************)
(* Documents and configurations.                                           *)
(***************************************************************************)
Mode == {"selected", "follow-default"}
Channel ==
    {[kind |-> word, index |-> 0] : word \in {"auto", "mono", "left", "right"}}
        \cup {[kind |-> "index", index |-> n] : n \in 0..U16Max}
Profile == {"low", "balanced"}
FailModes == {"closed", "open"}

\* NoireConfig.
NoireConfig ==
    [active : BOOLEAN, start_with : BOOLEAN, launch : BOOLEAN,
     input : [mode : Mode, stable_id : Texts, channel : Channel], profile : Profile,
     suppression : [enabled : BOOLEAN, strength : Int, fail_mode : FailModes]]

\* A document of schema 0 or 1 that has a field has one of its type; of the
\* channel the text is parsed.
ASSUME DocumentAssumption ==
    \A doc \in Documents :
        /\ doc.schema_version = 0 =>
              {doc.active, doc.enabled} \subseteq BOOLEAN /\ doc.input_node \in Texts /\ doc.strength \in Int
        /\ doc.schema_version = 1 =>
              /\ {doc.active, doc.launch, doc.enabled} \subseteq BOOLEAN
              /\ doc.start_with \in BOOLEAN \cup {Unset}
              /\ doc.mode \in Mode /\ doc.stable_id \in Texts
              /\ doc.profile \in Profile /\ doc.strength \in Int /\ doc.fail_mode \in FailModes

ASSUME UnsetAssumption ==
    /\ Unset \notin BOOLEAN /\ Unset \notin Nat /\ Unset \notin Channel /\ Unset \notin NoireConfig
    /\ Unset \notin [schema_version : {1}, active : BOOLEAN, start_with : BOOLEAN, launch : BOOLEAN,
                     mode : Mode, stable_id : Texts,
                     channel : [word : {"index:", "auto", "mono", "left", "right"},
                                number : {Unset} \cup 0..U16Max],
                     profile : Profile, enabled : BOOLEAN, strength : Int, fail_mode : FailModes]

DefaultInput == [mode |-> "follow-default", stable_id |-> "", channel |-> [kind |-> "auto", index |-> 0]]
DefaultSuppression == [enabled |-> TRUE, strength |-> 55, fail_mode |-> "closed"]

DefaultConfig ==
    [active |-> FALSE, start_with |-> FALSE, launch |-> FALSE, input |-> DefaultInput,
     profile |-> "low", suppression |-> DefaultSuppression]

\* Mutant: an index is written without its prefix.
BareIndex(channel) ==
    IF channel.kind = "index" THEN [word |-> "", number |-> channel.index]
    ELSE [word |-> channel.kind, number |-> Unset]

\* Display for ChannelSelection: the index follows a prefix.
ChannelText(channel) ==
    IF channel.kind = "index" THEN [word |-> "index:", number |-> channel.index]
    ELSE [word |-> channel.kind, number |-> Unset]

\* Deserialize for ChannelSelection; Unset is an error.
ParseChannel(text) ==
    CASE text.word \in {"auto", "mono", "left", "right"} -> [kind |-> text.word, index |-> 0]
      [] text.word = "index:" /\ text.number \in 0..U16Max ->
            [kind |-> "index", index |-> text.number]
      [] OTHER -> Unset

Trimmed(text) == IF text = Blank THEN "" ELSE text

Validates(c) ==
    /\ c.input.mode = "selected" => Trimmed(c.input.stable_id) # ""
    /\ c.input.mode = "follow-default" => c.input.stable_id = ""
    /\ c.suppression.strength \in 0..100

\* LegacyConfigV0::migrate: the text is kept as it is.
Migrate(doc) ==
    [DefaultConfig EXCEPT
        !.active = doc.active,
        !.input.mode = IF Trimmed(doc.input_node) # "" THEN "selected" ELSE "follow-default",
        !.input.stable_id = doc.input_node,
        !.suppression.enabled = doc.enabled,
        !.suppression.strength = doc.strength]

\* Schema 1: a start preference that is missing is off.
Parse(doc) ==
    [active |-> doc.active,
     start_with |-> IF doc.start_with = Unset THEN FALSE ELSE doc.start_with,
     launch |-> doc.launch,
     input |-> [mode |-> doc.mode, stable_id |-> doc.stable_id,
                channel |-> ParseChannel(doc.channel)],
     profile |-> doc.profile,
     suppression |-> [enabled |-> doc.enabled, strength |-> doc.strength,
                      fail_mode |-> doc.fail_mode]]

\* Mutant: what the migration makes of a file is taken as it is.
DecodeTrusting(doc) ==
    CASE doc = Unset -> [result |-> "absent"]
      [] doc # Unset /\ doc.schema_version = Unset -> [result |-> "malformed"]
      [] doc # Unset /\ doc.schema_version = 0 -> [result |-> "valid", config |-> Migrate(doc)]
      [] doc # Unset /\ doc.schema_version = 1 ->
            IF ParseChannel(doc.channel) # Unset /\ Validates(Parse(doc))
            THEN [result |-> "valid", config |-> Parse(doc)] ELSE [result |-> "malformed"]
      [] OTHER -> [result |-> "newer"]

\* decode_and_migrate, and a file that cannot be read because there is none.
Decode(doc) ==
    CASE doc = Unset -> [result |-> "absent"]
      [] doc # Unset /\ doc.schema_version = Unset -> [result |-> "malformed"]
      [] doc # Unset /\ doc.schema_version = 0 ->
            IF Validates(Migrate(doc))
            THEN [result |-> "valid", config |-> Migrate(doc)] ELSE [result |-> "malformed"]
      [] doc # Unset /\ doc.schema_version = 1 ->
            IF ParseChannel(doc.channel) # Unset /\ Validates(Parse(doc))
            THEN [result |-> "valid", config |-> Parse(doc)] ELSE [result |-> "malformed"]
      [] OTHER -> [result |-> "newer"]

\* to_canonical_toml, for a configuration that validates.
Encode(c) ==
    [schema_version |-> 1, active |-> c.active, start_with |-> c.start_with,
     launch |-> c.launch, mode |-> c.input.mode, stable_id |-> c.input.stable_id,
     channel |-> ChannelText(c.input.channel), profile |-> c.profile,
     enabled |-> c.suppression.enabled, strength |-> c.suppression.strength,
     fail_mode |-> c.suppression.fail_mode]

\* ConfigStore::load: a backup is looked at only for a malformed primary.
Loaded ==
    CASE Decode(primary).result = "valid" -> Decode(primary).config
      [] Decode(primary).result = "malformed" /\ Decode(backup).result = "valid" ->
            Decode(backup).config
      [] OTHER -> DefaultConfig

-----------------------------------------------------------------------------
(***************************************************************************)
(* The daemon.                                                             *)
(***************************************************************************)
SchemaInit ==
    /\ primary \in Documents \cup {Unset} /\ backup \in Documents \cup {Unset}
    /\ config = Unset /\ mayWrite = FALSE /\ saved = FALSE /\ calls = 0

\* Daemon::new: processing resumes only where the preference says so.
Boot ==
    /\ config = Unset
    /\ config' = [Loaded EXCEPT !.active = Loaded.start_with]
    /\ mayWrite' = (Decode(primary).result # "newer")
    /\ saved' = FALSE
    /\ UNCHANGED <<primary, backup, calls>>

\* The process ends, by itself or by a crash.
EndDaemon ==
    /\ config # Unset /\ config' = Unset /\ mayWrite' = FALSE /\ saved' = FALSE
    /\ UNCHANGED <<primary, backup, calls>>

\* An editor, or another version of Noire, replaces the file.
ReplaceFile(doc) ==
    /\ calls < MaxCalls /\ calls' = calls + 1
    /\ primary' = doc /\ saved' = FALSE
    /\ UNCHANGED <<backup, config, mayWrite>>

Refuse == UNCHANGED <<primary, backup, config, mayWrite, saved>>

\* save: a valid primary becomes the backup, and a newer one is left alone.
SaveAs(candidate) ==
    IF Decode(primary).result = "newer" THEN Refuse
    ELSE /\ primary' = Encode(candidate)
         /\ backup' = IF Decode(primary).result = "valid" THEN primary ELSE Encode(candidate)
         /\ config' = candidate /\ saved' = TRUE
         /\ UNCHANGED mayWrite

\* A call that got past the revision check; the engine or the disk may fail it.
Mutate(candidate) ==
    /\ config # Unset /\ calls < MaxCalls /\ calls' = calls + 1
    /\ \/ Refuse
       \/ mayWrite /\ Validates(candidate) /\ SaveAs(candidate)

SetActive(active) ==
    Mutate([config EXCEPT !.active = active])

SelectInput(id) ==
    Mutate(IF id = "" THEN [config EXCEPT !.input.mode = "follow-default", !.input.stable_id = ""]
           ELSE [config EXCEPT !.input.mode = "selected", !.input.stable_id = id])

SetSuppressionEnabled(enabled) == Mutate([config EXCEPT !.suppression.enabled = enabled])
SetStrength(strength) == Mutate([config EXCEPT !.suppression.strength = strength])

\* The service knows two names each for a profile and for a mode.
SetLatencyProfile(text) ==
    text \in Profile /\ Mutate([config EXCEPT !.profile = text])
SetFailMode(text) ==
    text \in FailModes /\ Mutate([config EXCEPT !.suppression.fail_mode = text])

\* Neither goes through mutate: the one skips the engine, the other asks systemd.
SetStartWithNoiseReduction(enabled) == Mutate([config EXCEPT !.start_with = enabled])
SetLaunchAtLogin(enabled) == Mutate([config EXCEPT !.launch = enabled])

SchemaNext ==
    \/ Boot \/ EndDaemon
    \/ \E doc \in Documents \cup {Unset} : ReplaceFile(doc)
    \/ config # Unset /\ \E text \in Texts :
          SelectInput(text) \/ SetLatencyProfile(text) \/ SetFailMode(text)
    \/ config # Unset /\ \E strength \in Strengths : SetStrength(strength)
    \/ config # Unset /\ \E on \in BOOLEAN :
          \/ SetActive(on) \/ SetSuppressionEnabled(on)
          \/ SetStartWithNoiseReduction(on) \/ SetLaunchAtLogin(on)

SchemaSpec == SchemaInit /\ [][SchemaNext]_schemaVars

-----------------------------------------------------------------------------
\* What the daemon saves reads back as what it runs with, whatever the file held
\* before and whatever calls were made: the next start loses no setting.
SavedReadsBack ==
    saved => Decode(primary) = [result |-> "valid", config |-> config]

\* No file, of whatever schema, leaves the daemon with a configuration in which
\* one field makes every change of another invalid.
NeverLockedOut == config # Unset => Validates(config)
=============================================================================
