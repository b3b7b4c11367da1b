---------------------------- MODULE InputRegistry ----------------------------
(***************************************************************************)
(* The inputs a client can choose from: what the PipeWire registry reports *)
(* of nodes and of the session's default source (connection.rs), the       *)
(* monitor that collects it and publishes a snapshot at most every 50 ms,  *)
(* and the resolution of a stored selector (registry.rs).                  *)
(*                                                                         *)
(* Texts are sequences of words and compared without regard to case, as    *)
(* the code compares labels; a text that is missing is <<>>.  Formats,     *)
(* roles, the order of the list and the revision number play no part in    *)
(* the choice of an input.                                                 *)
(***************************************************************************)
EXTENDS Integers, Sequences, FiniteSets

CONSTANTS
    Id,           \* registry globals
    Reported,     \* the properties a node may have
    Present,      \* what the registry may hold at the first publication
    Reserved,     \* RESERVED_NODE_NAME: Noire's own source
    Nothing,      \* a property, a node or a default that is not there
    WINDOW,       \* REGISTRY_COALESCE_MILLIS
    MaxEvents     \* bound: events of the registry

ASSUME RegistryAssumption ==
    /\ Id \subseteq Nat /\ WINDOW \in Nat \ {0} /\ MaxEvents \in Nat
    /\ Nothing \notin Nat

Maybe(S) == {Nothing} \cup S
Properties ==
    [name : Maybe(STRING), description : Seq(STRING), nick : Seq(STRING), class : STRING,
     virtual : BOOLEAN, monitor : BOOLEAN, serial : Maybe(STRING), device : Maybe(STRING),
     availability : STRING]

ASSUME ReportedAssumption == Reported \subseteq Properties

VARIABLES
    nodes,        \* RegistryMonitor.nodes
    defaultName,  \* default_node_name
    dirty,        \* age of dirty_since_millis, or Nothing
    view,         \* the snapshot last published
    behind,       \* history: for how long the view has been out of date
    events

registryVars == <<nodes, defaultName, dirty, view, behind, events>>

-----------------------------------------------------------------------------
(***************************************************************************)
(* One node.                                                               *)
(***************************************************************************)
Extends(text, prefix) ==
    Len(prefix) < Len(text) /\ SubSeq(text, 1, Len(prefix)) = prefix

Suffix(text, prefix) == SubSeq(text, Len(prefix) + 1, Len(text))

\* A nickname is preferred to a description that only adds words to it.
PreferredLabel(p) ==
    CASE p.description # <<>> /\ p.nick # <<>> /\ Extends(p.description, p.nick) -> p.nick
      [] p.description # <<>> /\ ~(p.nick # <<>> /\ Extends(p.description, p.nick)) -> p.description
      [] p.description = <<>> /\ p.nick # <<>> -> p.nick
      [] OTHER -> <<p.name>>

FromProperties(id, p) == [id |-> id, properties |-> p, label |-> PreferredLabel(p)]

ASSUME PresentAssumption ==
    \A known \in Present :
        /\ known \in [Id -> Maybe({FromProperties(i, p) : i \in Id, p \in Reported})]
        /\ \A i \in Id : known[i] # Nothing => \E p \in Reported : known[i] = FromProperties(i, p)

IsMonitor(p) == p.monitor \/ Extends(p.description, <<"monitor of">>)

IsCandidate(n) ==
    /\ n.properties.class = "Audio/Source"
    /\ ~n.properties.virtual
    /\ n.properties.name # Reserved
    /\ ~IsMonitor(n.properties)
    /\ n.properties.availability # "unavailable"

SelectorOf(p) == [name |-> p.name, serial |-> p.serial, device |-> p.device]

\* Mutant: a serial that the candidate does not report is taken for a match.
MatchesLoosely(selector, p) ==
    selector.name = p.name /\ (p.serial = Nothing \/ selector.serial = p.serial)

\* The serial if the selector has one, else the device's name if it has one.
Matches(selector, p) ==
    /\ selector.name = p.name
    /\ IF selector.serial # Nothing THEN p.serial = selector.serial
       ELSE selector.device \in {Nothing, p.device}

-----------------------------------------------------------------------------
(***************************************************************************)
(* RegistrySnapshot::new.                                                  *)
(***************************************************************************)
\* What tells two candidates with one label apart: the rest of the description.
DescriptiveQualifier(n) ==
    LET d == n.properties.description
    IN  CASE d \in {<<>>, n.label} -> <<n.properties.name>>
          [] OTHER -> IF Extends(d, n.label) THEN Suffix(d, n.label) ELSE d

Qualified(n, all) ==
    LET same == {m \in all \ {n} : m.label = n.label}
        taken == \E m \in same : DescriptiveQualifier(m) = DescriptiveQualifier(n)
    IN  CASE same = {} -> n.label
          [] taken -> n.label \o <<"-", n.properties.name>>
          [] OTHER -> n.label \o <<"-">> \o DescriptiveQualifier(n)

\* Of several globals with one name the first is listed.  (A later one that is
\* the default would replace it, but being the default is a matter of the name.)
Candidates(known) ==
    LET eligible == {known[i] : i \in {j \in Id : known[j] # Nothing /\ IsCandidate(known[j])}}
    IN  {n \in eligible : \A m \in eligible :
            m.properties.name = n.properties.name => n.id <= m.id}

\* The candidates with their labels and the default among them.
Snapshot(known, default) ==
    LET listed == Candidates(known)
    IN  {[id |-> n.id, properties |-> n.properties, label |-> Qualified(n, listed),
          is_default |-> n.properties.name = default] : n \in listed}

\* A label is made of a description's words, a node's name and the dash.
Label == Seq(Maybe(STRING) \cup {"-"})

ASSUME NothingAssumption ==
    /\ Nothing \notin [name : Maybe(STRING), serial : Maybe(STRING), device : Maybe(STRING)]
    /\ Nothing \notin [id : Id, properties : Properties, label : Label, is_default : BOOLEAN]

\* input_descriptors: what a client is shown, and may send back as stable_id.
InputDescriptors(snapshot) ==
    {[stable_id |-> c.properties.name, display_name |-> c.label, is_default |-> c.is_default] :
        c \in snapshot}

-----------------------------------------------------------------------------
(***************************************************************************)
(* Resolution: the input of the graph, or the reason there is none.        *)
(***************************************************************************)
\* The selectors and permissions of a configuration.
SelectionPolicy ==
    [selector : {Nothing} \cup {SelectorOf(p) : p \in Reported},
     follow_default : BOOLEAN, fallback_to_default : BOOLEAN]

\* resolve_input: the daemon stores a node's name only.
PolicyOf(mode, stable_id, fallback) ==
    [selector |-> IF mode = "selected"
                  THEN [name |-> stable_id, serial |-> Nothing, device |-> Nothing] ELSE Nothing,
     follow_default |-> mode = "follow-default", fallback_to_default |-> fallback]

Resolved(snapshot, policy) ==
    LET wanted == {c \in snapshot : policy.selector # Nothing
                                    /\ Matches(policy.selector, c.properties)}
        defaults == {c \in snapshot : c.is_default}
        allowed == IF policy.selector = Nothing THEN policy.follow_default
                   ELSE policy.fallback_to_default
    IN  CASE wanted # {} -> [input |-> CHOOSE c \in wanted : TRUE, reason |-> Nothing]
          [] wanted = {} /\ ~allowed ->
                [input |-> Nothing,
                 reason |-> IF policy.selector = Nothing THEN "not-configured" ELSE "selected-missing"]
          [] wanted = {} /\ allowed /\ defaults = {} ->
                [input |-> Nothing, reason |-> "default-missing"]
          [] OTHER -> [input |-> CHOOSE c \in defaults : TRUE, reason |-> Nothing]

-----------------------------------------------------------------------------
(***************************************************************************)
(* The registry's events and the owner thread's polls.                     *)
(***************************************************************************)
\* Some nodes are there already and published, as after the first round trip.
RegistryInit ==
    /\ nodes \in Present /\ defaultName = Nothing
    /\ dirty = Nothing /\ behind = 0 /\ events = 0
    /\ view = Snapshot(nodes, defaultName)

\* Mutant: every change starts the window again.
MarkDirtyAgain == dirty' = 0

\* mark_dirty: the window runs from the first change.
MarkDirty == dirty' = IF dirty = Nothing THEN 0 ELSE dirty

Behind(elapsed) == behind' = IF view' = Snapshot(nodes', defaultName') THEN 0 ELSE behind + elapsed

Event == events < MaxEvents /\ events' = events + 1 /\ UNCHANGED view /\ Behind(0)

Upsert(id, p) ==
    /\ nodes[id] # FromProperties(id, p)
    /\ nodes' = [nodes EXCEPT ![id] = FromProperties(id, p)]
    /\ MarkDirty
    /\ UNCHANGED defaultName

\* What a global announces: some properties come only with the node's info.
Announced(p) == [p EXCEPT !.virtual = FALSE, !.serial = Nothing, !.device = Nothing]

\* register_node: what is announced is entered at once.
Announce(id, p) ==
    /\ nodes[id] = Nothing /\ p.name # Nothing
    /\ Upsert(id, Announced(p))
    /\ Event

\* update_node: the info of a node that is bound, when it comes and changes.  A
\* node that was announced without a name is entered only now.
Inform(id, p) ==
    /\ p.name # Nothing
    /\ Upsert(id, p)
    /\ Event

\* global_remove.  The default stays when the metadata object goes.
Remove(id) ==
    /\ nodes[id] # Nothing
    /\ nodes' = [nodes EXCEPT ![id] = Nothing]
    /\ MarkDirty
    /\ UNCHANGED defaultName /\ Event

SetDefaultNodeName(name) ==
    /\ name # defaultName /\ defaultName' = name
    /\ MarkDirty
    /\ UNCHANGED nodes /\ Event

PublishNow ==
    /\ dirty' = Nothing
    /\ view' = Snapshot(nodes, defaultName)
    /\ behind' = 0
    /\ UNCHANGED <<nodes, defaultName, events>>

Due == dirty # Nothing /\ dirty >= WINDOW

PublishIfDue == Due /\ PublishNow

\* service_native polls more often than the window elapses.
Elapse ==
    /\ ~Due /\ dirty # Nothing
    /\ dirty' = dirty + 1
    /\ UNCHANGED <<nodes, defaultName, view, events>>
    /\ Behind(1)

RegistryNext ==
    \/ \E id \in Id, p \in Reported : Announce(id, p) \/ Inform(id, p)
    \/ \E id \in Id : Remove(id)
    \/ \E name \in {p.name : p \in Reported} \cup {Nothing} : SetDefaultNodeName(name)
    \/ PublishNow \/ PublishIfDue \/ Elapse

RegistrySpec == RegistryInit /\ [][RegistryNext]_registryVars

-----------------------------------------------------------------------------
\* Whatever a client sees is out of date by no more than the window, however
\* many devices keep coming and going.
PublishedInTime == behind <= WINDOW

Names == {p.name : p \in Reported}
Policies ==
    SelectionPolicy \cup {PolicyOf(mode, name, fallback) :
        mode \in {"selected", "follow-default"}, name \in Names, fallback \in BOOLEAN}

\* An input that a client picks from the list, by its stable_id, is the one that
\* was listed under that label and no other.
PickedIsListed ==
    \A d \in InputDescriptors(view) :
        LET found == Resolved(view, PolicyOf("selected", d.stable_id, FALSE)).input
        IN  /\ found # Nothing /\ found.label = d.display_name
            /\ \A other \in view : other.label = d.display_name => other = found

\* And a stored choice never becomes another device without permission, is found
\* whenever it is listed, and neither Noire's own source nor a monitor of an
\* output is ever the input, not even as the session's default.
StoredChoice ==
    \A policy \in Policies :
        LET found == Resolved(view, policy).input
            chosen == {c \in view : policy.selector # Nothing
                                    /\ SelectorOf(c.properties) = policy.selector}
        IN  /\ chosen # {} => found \in chosen
            /\ found # Nothing =>
                  /\ IsCandidate(found)
                  /\ \/ found.is_default
                        /\ (policy.fallback_to_default \/ policy.selector = Nothing)
                     \/ /\ policy.selector # Nothing
                        /\ found.properties.name = policy.selector.name
                        /\ policy.selector.serial \in {Nothing, found.properties.serial}

\* The choice of an input is exact, whether it is made now or was stored before.
ExactSelection == PickedIsListed /\ StoredChoice

\* What the labels need to be told apart in any case: no text contains the dash
\* that separates a qualifier, and no node is named like a word of a description.
Words(text) == {text[i] : i \in DOMAIN text}
WordsApart ==
    \A p \in Reported :
        /\ p.name # "-" /\ "-" \notin Words(p.description) \cup Words(p.nick)
        /\ \A q \in Reported : q.name \notin Words(p.description)
=============================================================================
