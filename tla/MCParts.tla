------------------------------- MODULE MCParts -------------------------------
(* Six parts of the system that share no state, in one run: an initial    *)
(* state puts one of them in focus, and only that one moves.  A part that  *)
(* is not in focus stays in one of its initial states.                     *)
(* Recovery: a clock unit of 25 ms gives the code's delays as 1 and 40.    *)
EXTENDS Recovery, InputRegistry, SignalPath, CaptureBuffers, ConfigSchema, Autostart

CONSTANT None

\* Microphones of one model, in the profiles a sound card offers; Noire's own
\* source; and one that is unplugged.
Mic(name, profile, serial) ==
    [name |-> name, description |-> <<"usb", profile>>, nick |-> <<"usb">>,
     class |-> "Audio/Source", virtual |-> FALSE, monitor |-> FALSE,
     serial |-> serial, device |-> "card", availability |-> "unknown"]
MCReported ==
    {Mic("front", "analog", "s1"), Mic("rear", "analog", None), Mic("desk", "pro", "s3"),
     [Mic("front", "analog", "s2") EXCEPT !.nick = <<>>],
     [Mic("rear", "pro", "s2") EXCEPT !.availability = "unavailable"],
     [Mic("noire", "moon", None) EXCEPT !.virtual = TRUE]}
MCId == {1, 2, 3}
ASSUME WordsApart
MCNone == [i \in MCId |-> None]
MCPresent ==
    {MCNone} \cup {[MCNone EXCEPT ![1] = FromProperties(1, p), ![2] = FromProperties(2, q)] :
                      p, q \in MCReported}

\* Models of no delay and of more than a frame; one whose frame advances by
\* half and one that delays for longer than the dry path can.
MCSpec(delay) ==
    [named |-> TRUE, rate |-> 48, channels |-> 1, frame |-> 2, hop |-> 2, lookahead |-> 0,
     delay |-> delay]
MCSpecs == {MCSpec(0), MCSpec(3), [MCSpec(3) EXCEPT !.hop = 1], MCSpec(6)}

\* The format that was requested and one a device may have; buffers that are
\* good, empty, too long, beyond the mapping or without a single plane.
MCPods ==
    {Requested(48), Requested(44), [Requested(44) EXCEPT !.sample = "s16"]}
Chunk(size, offset, height) ==
    [planes |-> 1, chunk |-> TRUE, mapped |-> 4, offset |-> offset, size |-> size,
     stride |-> 2, corrupted |-> FALSE, height |-> height]
MCBuffers ==
    {Chunk(2, 2, 2), Chunk(2, 0, 1), Chunk(0, 0, 1), Chunk(4, 0, 1), Chunk(4, 2, 1),
     [Chunk(2, 0, 1) EXCEPT !.planes = 2]}

\* Files of this schema and of schema 0, valid or not; one that is no
\* configuration and one of a newer schema.
MCDocument ==
    [schema_version |-> 1, active |-> TRUE, start_with |-> None, launch |-> FALSE,
     mode |-> "selected", stable_id |-> "mic", channel |-> [word |-> "index:", number |-> 1],
     profile |-> "balanced", enabled |-> TRUE, strength |-> 40, fail_mode |-> "closed"]
MCLegacy ==
    [schema_version |-> 0, active |-> TRUE, input_node |-> "mic", enabled |-> FALSE,
     strength |-> 40]
MCDocuments ==
    {MCDocument, [MCDocument EXCEPT !.channel.number = 3], [MCDocument EXCEPT !.stable_id = "blank"],
     [MCDocument EXCEPT !.start_with = TRUE, !.mode = "follow-default", !.stable_id = "",
                        !.channel.word = "left"],
     MCLegacy, [MCLegacy EXCEPT !.input_node = ""], [MCLegacy EXCEPT !.input_node = "blank"],
     [MCLegacy EXCEPT !.strength = 101],
     [schema_version |-> None], [schema_version |-> 2]}
MCTexts == {"", "blank", "mic", "low", "open"}
MCStrengths == {-1, 0, 100, 101}

VARIABLE focus

PartsInit ==
    /\ focus \in {"recovery", "registry", "signal", "buffers", "schema", "autostart"}
    /\ RecoveryInit /\ RegistryInit /\ SignalInit /\ BuffersInit /\ SchemaInit
    /\ AutostartInit
    /\ focus # "registry" => nodes = MCNone
    /\ focus # "signal" => model = MCSpec(3)
    /\ focus # "schema" => primary = None /\ backup = None
    /\ focus # "autostart" => entry = None

PartsNext ==
    /\ UNCHANGED focus
    /\ \/ focus = "recovery" /\ RecoveryNext
          /\ UNCHANGED <<registryVars, signalVars, buffersVars, schemaVars, autostartVars>>
       \/ focus = "registry" /\ RegistryNext
          /\ UNCHANGED <<recoveryVars, signalVars, buffersVars, schemaVars, autostartVars>>
       \/ focus = "signal" /\ SignalNext
          /\ UNCHANGED <<recoveryVars, registryVars, buffersVars, schemaVars, autostartVars>>
       \/ focus = "buffers" /\ BuffersNext
          /\ UNCHANGED <<recoveryVars, registryVars, signalVars, schemaVars, autostartVars>>
       \/ focus = "schema" /\ SchemaNext
          /\ UNCHANGED <<recoveryVars, registryVars, signalVars, buffersVars, autostartVars>>
       \/ focus = "autostart" /\ AutostartNext
          /\ UNCHANGED <<recoveryVars, registryVars, signalVars, buffersVars, schemaVars>>

PartsSpec ==
    PartsInit /\ [][PartsNext]_<<focus, recoveryVars, registryVars, signalVars, buffersVars, schemaVars,
                                 autostartVars>>
=============================================================================
