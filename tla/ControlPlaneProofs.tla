-------------------------- MODULE ControlPlaneProofs --------------------------
(***************************************************************************)
(* Theorems about ControlPlane for any clients, settings and capacity.  The*)
(* properties follow from what one command that is still awaited says of   *)
(* the daemon's job, and from what is left of those that were given up.    *)
(***************************************************************************)
EXTENDS ControlPlane, TLAPS

\* What the daemon asks the owner thread to apply in the course of its job.
Target == IF job.op = "mutate" /\ job.stage = "engine" THEN job.candidate ELSE daemon.config
Wanted(w) == w.op = (IF job.op = "observe" THEN "observe" ELSE "apply") /\ w.config = Target

\* The only command that is not given up is the newest, and is what the daemon
\* waits for.
AwaitedInv ==
    /\ \A i \in 1..Len(queue) :
          ~queue[i].cancelled => i = Len(queue) /\ Waiting /\ Wanted(queue[i])
    /\ work # NoWork /\ ~work.cancelled => queue = <<>> /\ Waiting /\ Wanted(work)
    /\ Waiting => (\E i \in 1..Len(queue) : ~queue[i].cancelled) \/ (work # NoWork /\ ~work.cancelled)

\* Nothing older can still take effect once the owner has answered, and an
\* answer means that what was asked for is what it has applied.
AnsweredInv ==
    job # Idle =>
      /\ job.reply = "ok" => queue = <<>> /\ work = NoWork
      /\ job.reply = "ok" /\ job.op # "observe" => engine.intent = Target
      /\ job.stage = "rollback" => job.op = "mutate"
      /\ job.op # "new" => daemon.revision <= MaxRevision

\* Doubt covers the commands that were given up in progress, and the first one
\* if it never arrived.  Without it the owner's configuration is the daemon's,
\* up to the point where a change has been applied.
DoubtInv ==
    /\ work # NoWork /\ work.cancelled /\ work.op = "apply" => doubt
    /\ engine.intent = NoConfig => doubt \/ (job # Idle /\ job.op = "new" /\ job.reply = "waiting")
    /\ /\ ~doubt /\ engine.intent # NoConfig
       /\ job # Idle /\ job.op = "mutate" => job.stage = "engine" /\ job.reply # "ok"
       => Audio(engine.intent) = Audio(daemon.config)

\* A client that has read the current revision has read the configuration, and
\* the one that asks for a change has.
SeenInv ==
    /\ \A c \in Client : /\ seen[c].revision <= daemon.revision
                         /\ seen[c].revision = daemon.revision => seen[c].config = daemon.config
    /\ job # Idle /\ job.op = "mutate" => seen[job.client].config = daemon.config

ControlInv == TypeOK /\ AwaitedInv /\ AnsweredInv /\ DoubtInv /\ SeenInv

USE CapacityAssumption, RevisionAssumption, NothingAssumption
-----------------------------------------------------------------------------
LEMMA LoadedType == ASSUME NEW c \in Config PROVE Loaded(c) \in Config
BY DEF Loaded, Config

LEMMA InitControl == Init => ControlInv
<1> SUFFICES ASSUME Init PROVE ControlInv
  OBVIOUS
<1>1. PICK c \in Client :
        job = [op |-> "new", stage |-> "engine", client |-> c, candidate |-> Loaded(disk),
               reply |-> "waiting", state |-> "Stopped"]
  BY DEF Init
<1>2. /\ disk \in Config /\ Loaded(disk) \in Config
      /\ daemon = [config |-> Loaded(disk), revision |-> 1, state |-> "Stopped", error |-> FALSE]
      /\ seen = [d \in Client |-> [revision |-> 1, config |-> Loaded(disk)]]
      /\ queue = <<[op |-> "apply", config |-> Loaded(disk), cancelled |-> FALSE]>>
      /\ work = NoWork /\ engine = [intent |-> NoConfig, state |-> "Stopped"] /\ doubt = FALSE
  BY LoadedType DEF Init, Spawned, Entry
<1>3. job \in Job
  BY <1>1, <1>2 DEF Job, Op, State
<1>4. /\ Len(queue) = 1 /\ queue \in Seq(Command)
      /\ queue[1] = [op |-> "apply", config |-> Loaded(disk), cancelled |-> FALSE]
  <2>1. [op |-> "apply", config |-> Loaded(disk), cancelled |-> FALSE] \in Command
    BY <1>2 DEF Command
  <2> QED BY <1>2, <2>1
<1>5. TypeOK
  <2>1. 1 \in 1..MaxRevision + 1
    OBVIOUS
  <2>2. daemon \in [config : Config, revision : 1..MaxRevision + 1, state : State, error : BOOLEAN]
    BY <1>2, <2>1 DEF State
  <2>3. seen \in [Client -> [revision : 1..MaxRevision + 1, config : Config]]
    BY <1>2, <2>1
  <2>4. engine \in [intent : Config \cup {NoConfig}, state : State]
    BY <1>2 DEF State
  <2>5. Len(queue) <= CommandCapacity
    BY <1>4
  <2>6. disk \in Config /\ work \in Command \cup {NoWork} /\ job \in Job \cup {Idle} /\ doubt \in BOOLEAN
    BY <1>2, <1>3
  <2> QED BY <1>4, <2>2, <2>3, <2>4, <2>5, <2>6 DEF TypeOK
<1>6. Waiting /\ Wanted(queue[1])
  BY <1>1, <1>2, <1>3, <1>4 DEF Waiting, Wanted, Target
<1>7. AwaitedInv
  <2>1. Len(queue) = 1 /\ queue[1].cancelled = FALSE /\ work = NoWork
    BY <1>2, <1>4
  <2> QED BY <2>1, <1>6 DEF AwaitedInv
<1>8. AnsweredInv /\ DoubtInv /\ SeenInv
  BY <1>1, <1>2, <1>3 DEF AnsweredInv, DoubtInv, SeenInv
<1> QED BY <1>5, <1>7, <1>8 DEF ControlInv

-----------------------------------------------------------------------------
\* Unless the daemon waits, every command has been given up.
LEMMA NothingAwaited ==
    ASSUME AwaitedInv, ~Waiting
    PROVE  /\ \A i \in 1..Len(queue) : queue[i].cancelled
           /\ work # NoWork => work.cancelled
BY DEF AwaitedInv

\* A command sent when the daemon does not wait is the only one not given up.
LEMMA SentFacts ==
    ASSUME TypeOK, AwaitedInv, ~Waiting, NEW j \in Job, NEW op \in {"apply", "observe"},
           NEW config \in Config, Sent(j, op, config)
    PROVE  /\ queue' \in Seq(Command) /\ Len(queue') <= CommandCapacity
           /\ job' \in Job /\ job'.reply \in {"waiting", "err"}
           /\ job'.op = j.op /\ job'.stage = j.stage /\ job'.client = j.client
           /\ job'.candidate = j.candidate
           /\ \A i \in 1..Len(queue') :
                 ~queue'[i].cancelled => /\ i = Len(queue') /\ job'.reply = "waiting"
                                         /\ queue'[i].op = op /\ queue'[i].config = config
           /\ job'.reply = "waiting" => \E i \in 1..Len(queue') : ~queue'[i].cancelled
<1> DEFINE e == [op |-> op, config |-> config, cancelled |-> FALSE]
<1>1. e \in Command /\ e.op = op /\ e.config = config /\ e.cancelled = FALSE
  BY DEF Command
<1>2. queue \in Seq(Command) /\ Len(queue) <= CommandCapacity
  BY DEF TypeOK
<1>3. \A i \in 1..Len(queue) : queue[i].cancelled
  BY NothingAwaited
<1>4. ASSUME NEW reply \in {"waiting", "err"}, job' = [j EXCEPT !.reply = reply]
      PROVE  /\ job' \in Job /\ job'.reply = reply
             /\ job'.op = j.op /\ job'.stage = j.stage /\ job'.client = j.client
             /\ job'.candidate = j.candidate
  BY <1>4 DEF Job
<1>5. CASE queue' = Append(queue, e) /\ job' = [j EXCEPT !.reply = "waiting"] /\ Len(queue) < CommandCapacity
  <2> HIDE DEF e
  <2>1. /\ queue' \in Seq(Command) /\ Len(queue') = Len(queue) + 1 /\ queue'[Len(queue) + 1] = e
        /\ \A i \in 1..Len(queue) : queue'[i] = queue[i]
    BY <1>1, <1>2, <1>5
  <2>2. Len(queue) \in Nat
    BY <1>2
  <2> QED BY <1>1, <1>2, <1>3, <1>4, <1>5, <2>1, <2>2
<1>6. CASE UNCHANGED queue /\ job' = [j EXCEPT !.reply = "err"]
  BY <1>2, <1>3, <1>4, <1>6
<1> QED BY <1>5, <1>6 DEF Sent, Entry

\* What holds after sending, if what was sent is what the new job wants.
LEMMA SentAwaited ==
    ASSUME ControlInv, ~Waiting, NEW j \in Job, NEW op \in {"apply", "observe"},
           NEW config \in Config, Sent(j, op, config), UNCHANGED work,
           (op = IF j.op = "observe" THEN "observe" ELSE "apply"),
           (config = IF j.op = "mutate" /\ j.stage = "engine" THEN j.candidate ELSE daemon'.config)
    PROVE  /\ AwaitedInv'
           /\ queue' \in Seq(Command) /\ Len(queue') <= CommandCapacity
           /\ job' \in Job /\ job'.reply \in {"waiting", "err"}
           /\ job'.op = j.op /\ job'.stage = j.stage /\ job'.client = j.client
           /\ job'.candidate = j.candidate
<1>1. TypeOK /\ AwaitedInv
  BY DEF ControlInv
<1>2. /\ queue' \in Seq(Command) /\ Len(queue') <= CommandCapacity
      /\ job' \in Job /\ job'.reply \in {"waiting", "err"}
      /\ job'.op = j.op /\ job'.stage = j.stage /\ job'.client = j.client
      /\ job'.candidate = j.candidate
      /\ \A i \in 1..Len(queue') :
            ~queue'[i].cancelled => /\ i = Len(queue') /\ job'.reply = "waiting"
                                    /\ queue'[i].op = op /\ queue'[i].config = config
      /\ job'.reply = "waiting" => \E i \in 1..Len(queue') : ~queue'[i].cancelled
  BY <1>1, SentFacts
<1>3. work' # NoWork => work'.cancelled
  BY <1>1, NothingAwaited
<1>4. Waiting' <=> job'.reply = "waiting"
  BY <1>2 DEF Waiting, Job
<1>5. Target' = config
  BY <1>2 DEF Target
<1>6. \A i \in 1..Len(queue') :
        ~queue'[i].cancelled => i = Len(queue') /\ Waiting' /\ Wanted(queue[i])'
  BY <1>2, <1>4, <1>5 DEF Wanted
<1>7. AwaitedInv'
  BY <1>2, <1>3, <1>4, <1>6 DEF AwaitedInv
<1> QED BY <1>2, <1>7

-----------------------------------------------------------------------------
\* Every operation that asks the owner thread for something starts this way.
LEMMA NewJobKeeps ==
    ASSUME ControlInv, NEW c \in Client, NEW op \in {"mutate", "retry", "observe"},
           NEW candidate \in Config, NEW command \in {"apply", "observe"},
           job = Idle, daemon.revision <= MaxRevision,
           op = "mutate" => seen[c].config = daemon.config,
           op # "mutate" => candidate = daemon.config,
           command = IF op = "observe" THEN "observe" ELSE "apply",
           Sent(NewJob(op, c, candidate), command, candidate),
           UNCHANGED <<daemon, disk, seen, work, engine, doubt>>
    PROVE  ControlInv'
<1> DEFINE j == NewJob(op, c, candidate)
<1>1. TypeOK /\ AwaitedInv /\ AnsweredInv /\ DoubtInv /\ SeenInv
  BY DEF ControlInv
<1>2. /\ j \in Job /\ j.op = op /\ j.stage = "engine" /\ j.client = c /\ j.candidate = candidate
  BY <1>1 DEF NewJob, Job, Op, State, TypeOK
<1>3. ~Waiting
  BY DEF Waiting
<1> HIDE DEF j
<1>4. /\ AwaitedInv'
      /\ queue' \in Seq(Command) /\ Len(queue') <= CommandCapacity
      /\ job' \in Job /\ job'.reply \in {"waiting", "err"}
      /\ job'.op = op /\ job'.stage = "engine" /\ job'.client = c /\ job'.candidate = candidate
  <2>1. Sent(j, command, candidate)
    BY DEF j
  <2> QED BY <1>2, <1>3, <2>1, SentAwaited
<1>5. TypeOK'
  BY <1>1, <1>4 DEF TypeOK
<1>6. AnsweredInv'
  BY <1>4 DEF AnsweredInv
<1>7. DoubtInv'
  BY <1>1, <1>4 DEF DoubtInv
<1>8. SeenInv'
  BY <1>1, <1>4 DEF SeenInv
<1> QED BY <1>4, <1>5, <1>6, <1>7, <1>8 DEF ControlInv

LEMMA RequestKeeps == ASSUME ControlInv, NEW c \in Client, Requests(c) PROVE ControlInv'
<1>1. TypeOK /\ AwaitedInv /\ AnsweredInv /\ DoubtInv /\ SeenInv
  BY DEF ControlInv
<1>2. /\ daemon.config \in Config /\ daemon.revision \in 1..MaxRevision + 1
      /\ daemon.config.active \in BOOLEAN /\ daemon.config.setting \in Setting
      /\ daemon.config.start \in BOOLEAN
      /\ seen \in [Client -> [revision : 1..MaxRevision + 1, config : Config]]
  BY <1>1 DEF TypeOK, Config
<1>3. ASSUME NEW candidate \in Config, Mutate(c, candidate) PROVE ControlInv'
  <2>1. seen[c].config = daemon.config
    BY <1>1, <1>3 DEF Mutate, Current, SeenInv
  <2> QED BY <1>3, <2>1, NewJobKeeps DEF Mutate
<1>4. CASE ReadSnapshot(c)
  <2>1. TypeOK'
    BY <1>1, <1>2, <1>4 DEF ReadSnapshot, TypeOK
  <2>2. AwaitedInv' /\ AnsweredInv' /\ DoubtInv'
    BY <1>1, <1>4 DEF ReadSnapshot, AwaitedInv, AnsweredInv, DoubtInv, Waiting, Wanted, Target
  <2>3. SeenInv'
    BY <1>1, <1>2, <1>4 DEF ReadSnapshot, SeenInv
  <2> QED BY <2>1, <2>2, <2>3 DEF ControlInv
<1>5. CASE Start(c) \/ Stop(c) \/ \E s \in Setting : Set(c, s)
  <2>1. \A b \in BOOLEAN : [daemon.config EXCEPT !.active = b] \in Config
    BY <1>2 DEF Config
  <2>2. \A s \in Setting : [daemon.config EXCEPT !.setting = s] \in Config
    BY <1>2 DEF Config
  <2> QED BY <1>3, <1>5, <2>1, <2>2 DEF Start, Stop, Set
<1>6. ASSUME NEW b \in BOOLEAN, SetStart(c, b) PROVE ControlInv'
  <2> DEFINE candidate == [daemon.config EXCEPT !.start = b]
  <2>1. candidate \in Config /\ Audio(candidate) = Audio(daemon.config)
    BY <1>2 DEF Config, Audio
  <2> HIDE DEF candidate
  <2>2. /\ job = Idle /\ daemon.revision <= MaxRevision
        /\ UNCHANGED <<seen, job, queue, work, engine, doubt>>
        /\ disk' \in {disk, candidate}
        /\ \/ daemon' = [daemon EXCEPT !.config = candidate, !.error = FALSE, !.revision = daemon.revision + 1]
           \/ daemon' = daemon
    BY <1>6 DEF SetStart, candidate
  <2>3. CASE daemon' = daemon
    <3>1. TypeOK'
      BY <1>1, <2>1, <2>2, <2>3 DEF TypeOK
    <3>2. AwaitedInv' /\ AnsweredInv' /\ DoubtInv' /\ SeenInv'
      BY <1>1, <2>2, <2>3 DEF AwaitedInv, AnsweredInv, DoubtInv, SeenInv, Waiting, Wanted, Target
    <3> QED BY <3>1, <3>2 DEF ControlInv
  <2>4. CASE daemon' = [daemon EXCEPT !.config = candidate, !.error = FALSE, !.revision = daemon.revision + 1]
    <3>1. /\ daemon' \in [config : Config, revision : 1..MaxRevision + 1, state : State, error : BOOLEAN]
          /\ daemon'.config = candidate /\ daemon'.revision = daemon.revision + 1
      <4>1. daemon \in [config : Config, revision : 1..MaxRevision + 1, state : State, error : BOOLEAN]
        BY <1>1 DEF TypeOK
      <4>2. daemon.revision + 1 \in 1..MaxRevision + 1
        BY <1>2, <2>2
      <4> QED BY <2>1, <2>4, <4>1, <4>2
    <3>2. TypeOK'
      BY <1>1, <2>1, <2>2, <3>1 DEF TypeOK
    <3>3. AwaitedInv' /\ AnsweredInv'
      BY <1>1, <2>2 DEF AwaitedInv, AnsweredInv, Waiting
    <3>4. DoubtInv'
      BY <1>1, <2>1, <2>2, <3>1 DEF DoubtInv
    <3>5. SeenInv'
      BY <1>1, <1>2, <2>2, <3>1 DEF SeenInv
    <3> QED BY <3>2, <3>3, <3>4, <3>5 DEF ControlInv
  <2> QED BY <2>2, <2>3, <2>4
<1>7. CASE Retry(c)
  BY <1>2, <1>7, NewJobKeeps DEF Retry
<1>8. CASE Observe(c)
  BY <1>2, <1>8, NewJobKeeps DEF Observe
<1> QED BY <1>4, <1>5, <1>6, <1>7, <1>8 DEF Requests

-----------------------------------------------------------------------------
\* The owner thread.
LEMMA TakeKeeps == ASSUME ControlInv, Take PROVE ControlInv'
<1>1. TypeOK /\ AwaitedInv /\ AnsweredInv /\ DoubtInv /\ SeenInv
  BY DEF ControlInv
<1>2. /\ work = NoWork /\ queue # <<>> /\ queue' = Tail(queue)
      /\ work' = IF queue[1].cancelled THEN NoWork ELSE queue[1]
      /\ UNCHANGED <<daemon, disk, seen, job, engine, doubt>>
  BY DEF Take
<1>3. /\ queue \in Seq(Command) /\ Len(queue) <= CommandCapacity /\ Len(queue) \in Nat \ {0}
      /\ Len(queue') = Len(queue) - 1 /\ queue' \in Seq(Command)
      /\ \A i \in 1..Len(queue') : i + 1 \in 1..Len(queue) /\ queue'[i] = queue[i + 1]
  BY <1>1, <1>2 DEF TypeOK
<1>4. queue[1] \in Command /\ 1 \in 1..Len(queue)
  BY <1>3
<1>5. TypeOK'
  BY <1>1, <1>2, <1>3, <1>4 DEF TypeOK
<1>6. (Waiting' <=> Waiting) /\ Target' = Target
  BY <1>2 DEF Waiting, Target
<1>7. AwaitedInv'
  <2>1. CASE queue[1].cancelled
    <3>1. \A i \in 1..Len(queue') :
            ~queue'[i].cancelled => i = Len(queue') /\ Waiting' /\ Wanted(queue[i])'
      <4> SUFFICES ASSUME NEW i \in 1..Len(queue'), ~queue'[i].cancelled
                   PROVE  i = Len(queue') /\ Waiting' /\ Wanted(queue[i])'
        OBVIOUS
      <4>1. i + 1 = Len(queue) /\ Waiting /\ Wanted(queue[i + 1])
        BY <1>1, <1>3 DEF AwaitedInv
      <4>2. queue'[i] = queue[i + 1] /\ i = Len(queue')
        BY <1>3, <4>1
      <4>3. Wanted(queue[i])'
        BY <1>2, <1>6, <4>1, <4>2 DEF Wanted
      <4> QED BY <1>6, <4>1, <4>2, <4>3
    <3>2. ASSUME Waiting PROVE \E i \in 1..Len(queue') : ~queue'[i].cancelled
      <4>1. PICK i \in 1..Len(queue) : ~queue[i].cancelled
        BY <1>1, <1>2, <3>2 DEF AwaitedInv
      <4>2. i - 1 \in 1..Len(queue') /\ queue'[i - 1] = queue[i]
        BY <1>3, <2>1, <4>1
      <4> QED BY <4>1, <4>2
    <3> QED BY <1>2, <1>6, <2>1, <3>1, <3>2 DEF AwaitedInv
  <2>2. CASE ~queue[1].cancelled
    <3>1. Len(queue) = 1 /\ Waiting /\ Wanted(queue[1])
      BY <1>1, <1>4, <2>2 DEF AwaitedInv
    <3>2. Len(queue') = 0 /\ queue' = <<>>
      BY <1>3, <3>1
    <3>3. Wanted(work)' /\ work' # NoWork /\ ~work'.cancelled
      BY <1>2, <1>4, <1>6, <2>2, <3>1 DEF Wanted
    <3> QED BY <1>6, <3>1, <3>2, <3>3 DEF AwaitedInv
  <2> QED BY <2>1, <2>2
<1>8. AnsweredInv' /\ DoubtInv' /\ SeenInv'
  BY <1>1, <1>2, <1>6 DEF AnsweredInv, DoubtInv, SeenInv
<1> QED BY <1>5, <1>7, <1>8 DEF ControlInv

LEMMA CompleteKeeps == ASSUME ControlInv, CompleteApply \/ CompleteObserve PROVE ControlInv'
<1>1. TypeOK /\ AwaitedInv /\ AnsweredInv /\ DoubtInv /\ SeenInv
  BY DEF ControlInv
<1>2. PICK code \in {"ok", "err"}, state \in State :
        /\ Reply(code, state)
        /\ code = "ok" /\ work.op = "apply" => engine'.intent = work.config
        /\ code = "err" /\ engine.intent # NoConfig => engine' = engine
  BY <1>1 DEF CompleteApply, CompleteObserve, Realized, State, TypeOK
<1>3. /\ work # NoWork /\ work \in Command /\ work' = NoWork
      /\ UNCHANGED <<daemon, disk, seen, queue, doubt>>
  BY <1>1 DEF CompleteApply, CompleteObserve, TypeOK
<1>4. /\ engine' \in [intent : Config \cup {NoConfig}, state : State]
      /\ engine'.intent \in {engine.intent, work.config}
      /\ work.op = "observe" => engine' = engine
      /\ work.op = "apply" => engine'.intent # NoConfig
  BY <1>1, <1>3 DEF CompleteApply, CompleteObserve, TypeOK, Command, Config, Realized, State
<1>5. CASE work.cancelled
  <2>1. job' = job /\ (Waiting' <=> Waiting) /\ Target' = Target
    BY <1>2, <1>3, <1>5 DEF Reply, Waiting, Target
  <2>2. TypeOK'
    BY <1>1, <1>3, <1>4, <2>1 DEF TypeOK
  <2>3. AwaitedInv'
    BY <1>1, <1>3, <1>5, <2>1 DEF AwaitedInv, Wanted
  <2>4. AnsweredInv' /\ SeenInv'
    BY <1>1, <1>3, <2>1 DEF AnsweredInv, SeenInv
  <2>5. DoubtInv'
    BY <1>1, <1>3, <1>4, <1>5, <2>1 DEF DoubtInv, Command
  <2> QED BY <2>2, <2>3, <2>4, <2>5 DEF ControlInv
<1>6. CASE ~work.cancelled
  <2>1. queue = <<>> /\ Len(queue) = 0 /\ Waiting /\ Wanted(work)
    BY <1>1, <1>3, <1>6 DEF AwaitedInv
  <2>2. job \in Job /\ job.reply = "waiting" /\ job # Idle
    BY <1>1, <2>1 DEF Waiting, TypeOK
  <2>3. /\ job' \in Job /\ job'.reply = code /\ job'.op = job.op /\ job'.stage = job.stage
        /\ job'.client = job.client /\ job'.candidate = job.candidate
    BY <1>2, <1>6, <2>2 DEF Reply, Job
  <2>4. ~Waiting' /\ Target' = Target /\ job' # Idle
    BY <1>3, <2>3 DEF Waiting, Target
  <2>5. TypeOK'
    BY <1>1, <1>3, <1>4, <2>3 DEF TypeOK
  <2>6. AwaitedInv'
    BY <1>3, <2>1, <2>4 DEF AwaitedInv
  <2>7. AnsweredInv'
    BY <1>1, <1>2, <1>3, <2>1, <2>2, <2>3, <2>4 DEF AnsweredInv, Wanted
  <2>8. DoubtInv'
    BY <1>1, <1>2, <1>3, <1>4, <2>1, <2>2, <2>3, <2>4 DEF DoubtInv, Wanted, Target
  <2>9. SeenInv'
    BY <1>1, <1>3, <2>2, <2>3 DEF SeenInv
  <2> QED BY <2>5, <2>6, <2>7, <2>8, <2>9 DEF ControlInv
<1> QED BY <1>5, <1>6

LEMMA DriftKeeps == ASSUME ControlInv, Drift PROVE ControlInv'
<1>1. TypeOK /\ AwaitedInv /\ AnsweredInv /\ DoubtInv /\ SeenInv
  BY DEF ControlInv
<1>2. /\ engine' \in [intent : Config \cup {NoConfig}, state : State]
      /\ engine'.intent = engine.intent
      /\ UNCHANGED <<daemon, disk, seen, job, queue, work, doubt>>
  BY <1>1 DEF Drift, TypeOK, State
<1>3. TypeOK'
  BY <1>1, <1>2 DEF TypeOK
<1>4. AwaitedInv' /\ AnsweredInv' /\ DoubtInv' /\ SeenInv'
  BY <1>1, <1>2 DEF AwaitedInv, AnsweredInv, DoubtInv, SeenInv, Waiting, Wanted, Target
<1> QED BY <1>3, <1>4 DEF ControlInv

-----------------------------------------------------------------------------
\* The daemon gives up.
LEMMA TimeoutKeeps == ASSUME ControlInv, Timeout PROVE ControlInv'
<1>1. TypeOK /\ AwaitedInv /\ AnsweredInv /\ DoubtInv /\ SeenInv
  BY DEF ControlInv
<1>2. job \in Job /\ job.reply = "waiting" /\ job # Idle /\ Waiting
  BY <1>1 DEF Timeout, Waiting, TypeOK
<1>3. /\ job' \in Job /\ job'.reply = "err" /\ job'.op = job.op /\ job'.stage = job.stage
      /\ job'.client = job.client /\ job'.candidate = job.candidate
  BY <1>2 DEF Timeout, Job
<1>4. /\ queue' \in Seq(Command) /\ Len(queue') = Len(queue)
      /\ \A i \in 1..Len(queue') : queue'[i].cancelled
  <2>1. queue \in Seq(Command) /\ queue' = [i \in 1..Len(queue) |-> [queue[i] EXCEPT !.cancelled = TRUE]]
    BY <1>1 DEF Timeout, TypeOK
  <2>2. ASSUME NEW i \in 1..Len(queue)
        PROVE  [queue[i] EXCEPT !.cancelled = TRUE] \in Command
    <3>1. queue[i] \in Command
      BY <2>1
    <3> QED BY <3>1 DEF Command
  <2>3. ASSUME NEW i \in 1..Len(queue) PROVE queue'[i].cancelled
    <3>1. queue[i] \in Command /\ queue'[i] = [queue[i] EXCEPT !.cancelled = TRUE]
      BY <2>1
    <3> QED BY <3>1 DEF Command
  <2>4. Len(queue) \in Nat
    BY <2>1
  <2>5. queue' \in [1..Len(queue) -> Command]
    BY <2>1, <2>2
  <2> QED BY <2>3, <2>4, <2>5
<1>5. /\ work = NoWork => work' = NoWork
      /\ work # NoWork => work' \in Command /\ work'.cancelled /\ work'.op = work.op
  <2>1. CASE work # NoWork
    BY <1>1, <2>1 DEF Timeout, TypeOK, Command
  <2> QED BY <2>1 DEF Timeout
<1>6. /\ UNCHANGED <<daemon, disk, seen, engine>> /\ doubt' \in BOOLEAN
  BY <1>1 DEF Timeout, TypeOK
<1>u. (doubt => doubt') /\ (OutcomeUnknown => doubt')
  BY DEF Timeout
<1>7. TypeOK'
  BY <1>1, <1>3, <1>4, <1>5, <1>6 DEF TypeOK
<1>8. AwaitedInv'
  BY <1>3, <1>4, <1>5 DEF AwaitedInv, Waiting
<1>9. AnsweredInv' /\ SeenInv'
  BY <1>1, <1>2, <1>3, <1>6 DEF AnsweredInv, SeenInv
<1>10. DoubtInv'
  <2>1. ASSUME work # NoWork, ~work.cancelled, work.op = "apply" PROVE OutcomeUnknown
    BY <1>1, <2>1 DEF AwaitedInv, OutcomeUnknown, AwaitedInQueue
  <2>2. job.op = "new" => OutcomeUnknown
    BY DEF OutcomeUnknown
  <2>3. CASE doubt'
    BY <2>3 DEF DoubtInv
  <2>4. CASE ~doubt'
    <3>1. ~doubt /\ ~OutcomeUnknown /\ job.op # "new"
      BY <1>u, <2>2, <2>4
    <3>2. engine.intent # NoConfig /\ ~(work # NoWork /\ work.op = "apply")
      BY <1>1, <2>1, <3>1 DEF DoubtInv
    <3>3. ~(work' # NoWork /\ work'.op = "apply")
      BY <1>5, <3>2
    <3> QED BY <1>1, <1>2, <1>3, <1>6, <2>4, <3>1, <3>2, <3>3 DEF DoubtInv
  <2> QED BY <2>3, <2>4
<1> QED BY <1>7, <1>8, <1>9, <1>10 DEF ControlInv

\* The daemon's job is done: what it knows now is what the client is told.
LEMMA FinishKeeps ==
    ASSUME ControlInv, FinishNew \/ RejectMutate \/ Commit \/ FinishRollback \/ FinishRetry \/ FinishObserve
    PROVE  ControlInv'
<1>1. TypeOK /\ AwaitedInv /\ AnsweredInv /\ DoubtInv /\ SeenInv
  BY DEF ControlInv
<1>2. job \in Job /\ job # Idle /\ job.reply \in {"ok", "err"} /\ ~Waiting
  BY <1>1 DEF FinishNew, RejectMutate, Commit, FinishRollback, FinishRetry, FinishObserve,
              Answered, Waiting, TypeOK, Job
<1>3. job' = Idle /\ UNCHANGED <<seen, queue, work, engine>>
  BY DEF FinishNew, RejectMutate, Commit, FinishRollback, FinishRetry, FinishObserve
<1>4. daemon \in [config : Config, revision : 1..MaxRevision + 1, state : State, error : BOOLEAN]
  BY <1>1 DEF TypeOK
<1>5. AwaitedInv' /\ AnsweredInv'
  BY <1>1, <1>2, <1>3, NothingAwaited DEF AwaitedInv, AnsweredInv, Waiting
<1>6. \/ UNCHANGED <<disk>> /\ daemon'.config = daemon.config
      \/ disk' = job.candidate /\ daemon'.config = job.candidate /\ daemon'.revision = daemon.revision + 1
  BY <1>4 DEF FinishNew, RejectMutate, Commit, FinishRollback, FinishRetry, FinishObserve
<1>7. /\ daemon' \in [config : Config, revision : 1..MaxRevision + 1, state : State, error : BOOLEAN]
      /\ daemon'.revision \in {daemon.revision, daemon.revision + 1}
  <2>1. job.op # "new" => daemon.revision + 1 \in 1..MaxRevision + 1
    BY <1>1, <1>2, <1>4 DEF AnsweredInv
  <2>2. job.candidate \in Config /\ job.state \in State /\ "Degraded" \in State
    BY <1>2 DEF Job, State
  <2>3. CASE FinishNew
    BY <1>4, <2>2, <2>3 DEF FinishNew
  <2>4. CASE RejectMutate
    BY <1>4, <2>4 DEF RejectMutate
  <2>5. CASE Commit
    BY <1>4, <2>1, <2>2, <2>5 DEF Commit
  <2>6. CASE FinishRollback
    BY <1>4, <2>1, <2>2, <2>6 DEF FinishRollback
  <2>7. CASE FinishRetry
    BY <1>4, <2>1, <2>2, <2>7 DEF FinishRetry
  <2>8. CASE FinishObserve
    BY <1>4, <2>1, <2>2, <2>8 DEF FinishObserve
  <2> QED BY <2>3, <2>4, <2>5, <2>6, <2>7, <2>8
<1>8. doubt' \in BOOLEAN /\ TypeOK'
  BY <1>1, <1>2, <1>3, <1>6, <1>7
     DEF TypeOK, Job, FinishNew, RejectMutate, Commit, FinishRollback, FinishRetry, FinishObserve
<1>9. SeenInv'
  BY <1>1, <1>3, <1>4, <1>6, <1>7 DEF SeenInv, TypeOK
<1>10. DoubtInv'
  <2>1. CASE FinishNew \/ RejectMutate \/ FinishObserve
    <3>1. UNCHANGED doubt /\ daemon'.config = daemon.config
      BY <1>4, <2>1 DEF FinishNew, RejectMutate, FinishObserve
    <3>2. job.op = "mutate" => job.stage = "engine" /\ job.reply # "ok"
      BY <2>1 DEF FinishNew, RejectMutate, FinishObserve
    <3> QED BY <1>1, <1>2, <1>3, <3>1, <3>2 DEF DoubtInv
  <2>2. CASE Commit \/ (FinishRollback /\ job.reply = "ok") \/ (FinishRetry /\ job.reply = "ok")
    <3>1. /\ job.reply = "ok" /\ job.op # "observe"
          /\ daemon'.config = Target
      BY <1>4, <2>2 DEF Commit, FinishRollback, FinishRetry, Target
    <3>2. engine.intent = Target /\ work = NoWork
      BY <1>1, <1>2, <3>1 DEF AnsweredInv
    <3>3. Target \in Config
      BY <1>2, <1>4 DEF Target, Job
    <3> QED BY <1>3, <3>1, <3>2, <3>3 DEF DoubtInv
  <2>3. CASE FinishRollback /\ job.reply # "ok"
    BY <2>3 DEF FinishRollback, DoubtInv
  <2>4. CASE FinishRetry /\ job.reply # "ok"
    <3>1. UNCHANGED doubt /\ daemon'.config = daemon.config /\ job.op = "retry"
      BY <1>4, <2>4 DEF FinishRetry
    <3> QED BY <1>1, <1>2, <1>3, <3>1 DEF DoubtInv
  <2> QED BY <2>1, <2>2, <2>3, <2>4
<1> QED BY <1>5, <1>8, <1>9, <1>10 DEF ControlInv

\* The save failed: the previous configuration is asked for in the same job.
LEMMA SaveFailsKeeps == ASSUME ControlInv, SaveFails PROVE ControlInv'
<1> DEFINE j == [job EXCEPT !.stage = "rollback"]
<1>1. TypeOK /\ AwaitedInv /\ AnsweredInv /\ DoubtInv /\ SeenInv
  BY DEF ControlInv
<1>2. /\ job \in Job /\ job # Idle /\ job.op = "mutate" /\ job.stage = "engine" /\ job.reply = "ok"
      /\ ~Waiting /\ Sent(j, "apply", daemon.config)
      /\ UNCHANGED <<daemon, seen, work, engine, doubt>> /\ disk' \in {disk, job.candidate}
  BY <1>1 DEF SaveFails, Answered, Waiting, TypeOK
<1>3. j \in Job /\ j.op = "mutate" /\ j.stage = "rollback" /\ j.client = job.client
  BY <1>2 DEF Job
<1>4. daemon.config \in Config /\ work = NoWork /\ engine.intent = job.candidate /\ job.candidate \in Config
  BY <1>1, <1>2 DEF TypeOK, AnsweredInv, Target, Job
<1> HIDE DEF j
<1>5. /\ AwaitedInv'
      /\ queue' \in Seq(Command) /\ Len(queue') <= CommandCapacity
      /\ job' \in Job /\ job'.reply \in {"waiting", "err"}
      /\ job'.op = "mutate" /\ job'.stage = "rollback" /\ job'.client = job.client
  BY <1>2, <1>3, <1>4, SentAwaited
<1>6. TypeOK'
  BY <1>1, <1>2, <1>4, <1>5 DEF TypeOK
<1>7. AnsweredInv'
  BY <1>1, <1>2, <1>5 DEF AnsweredInv
<1>8. DoubtInv'
  BY <1>2, <1>4, <1>5 DEF DoubtInv
<1>9. SeenInv'
  BY <1>1, <1>2, <1>5 DEF SeenInv
<1> QED BY <1>5, <1>6, <1>7, <1>8, <1>9 DEF ControlInv

-----------------------------------------------------------------------------
LEMMA NextControl == ControlInv /\ [Next]_vars => ControlInv'
<1> SUFFICES ASSUME ControlInv, [Next]_vars PROVE ControlInv'
  OBVIOUS
<1>1. CASE UNCHANGED vars
  BY <1>1 DEF vars, ControlInv, TypeOK, AwaitedInv, AnsweredInv, DoubtInv, SeenInv, Waiting, Wanted, Target
<1>2. CASE DaemonStep
  BY <1>2, TimeoutKeeps, FinishKeeps, SaveFailsKeeps DEF DaemonStep
<1>3. CASE OwnerStep
  BY <1>3, TakeKeeps, CompleteKeeps, DriftKeeps DEF OwnerStep
<1> QED BY <1>1, <1>2, <1>3, RequestKeeps DEF Next

\* The state of the daemon, its clients, its channel and its owner thread.
THEOREM ControlTypeCorrect == Spec => []TypeOK
<1> QED BY InitControl, NextControl, PTL DEF Spec, ControlInv

\* What was given up in the channel never takes effect, and what was given up
\* in progress is the only reason for the owner thread to differ.
THEOREM EngineAgrees == Spec => []EngineAgreesUnlessDoubt
<1>1. ControlInv => EngineAgreesUnlessDoubt
  BY DEF ControlInv, DoubtInv, EngineAgreesUnlessDoubt
<1> QED BY <1>1, InitControl, NextControl, PTL DEF Spec

\* No reply can reach a request other than its own.
THEOREM OneIsAwaited == Spec => []OneAwaitedCommand
<1>1. ControlInv => OneAwaitedCommand
  <2> SUFFICES ASSUME ControlInv PROVE OneAwaitedCommand
    OBVIOUS
  <2>1. AwaitedInv /\ queue \in Seq(Command)
    BY DEF ControlInv, TypeOK
  <2>2. DOMAIN queue = 1..Len(queue) /\ (queue = <<>> => Len(queue) = 0)
    BY <2>1
  <2> DEFINE awaited == {i \in DOMAIN queue : ~queue[i].cancelled}
             inWork == work # NoWork /\ ~work.cancelled
  <2>i. \A i : i \in awaited <=> i \in 1..Len(queue) /\ ~queue[i].cancelled
    BY <2>2
  <2> HIDE DEF awaited
  <2>3. \A i, j \in awaited : i = j
    BY <2>1, <2>i DEF AwaitedInv
  <2>4. ~(inWork /\ awaited # {})
    <3> SUFFICES ASSUME inWork PROVE \A i : i \notin awaited
      OBVIOUS
    <3>1. Len(queue) = 0
      BY <2>1, <2>2 DEF AwaitedInv
    <3> QED BY <2>i, <3>1
  <2>5. Waiting => inWork \/ \E i : i \in awaited
    BY <2>1, <2>i DEF AwaitedInv
  <2>6. inWork \/ (\E i : i \in awaited) => Waiting
    BY <2>1, <2>i DEF AwaitedInv
  <2> HIDE DEF inWork
  <2>7. Waiting <=> inWork \/ awaited # {}
    BY <2>5, <2>6
  <2> USE DEF awaited, inWork
  <2> QED BY <2>3, <2>4, <2>7 DEF OneAwaitedCommand
<1> QED BY <1>1, InitControl, NextControl, PTL DEF Spec

\* A change of the configuration is made by a client that has read the one it
\* replaces, however many others have changed it since.
THEOREM NoUpdateIsLost == Spec => NoLostUpdate
<1>1. ControlInv /\ [Next]_vars => [BasedOnLastRead]_vars
  <2> SUFFICES ASSUME ControlInv, Next, daemon'.config # daemon.config
               PROVE  \E c \in Client : seen[c].config = daemon.config /\ (job # Idle => job.client = c)
    BY DEF BasedOnLastRead
  <2>1. TypeOK /\ SeenInv
    BY DEF ControlInv
  <2>2. CASE \E c \in Client : Requests(c)
    <3>1. PICK c \in Client : Requests(c)
      BY <2>2
    <3>2. \E b \in BOOLEAN : SetStart(c, b)
      BY <3>1 DEF Requests, ReadSnapshot, Start, Stop, Set, Mutate, Retry, Observe
    <3> QED BY <2>1, <3>2 DEF SetStart, Current, SeenInv
  <2>3. CASE DaemonStep
    <3>1. Commit
      BY <2>1, <2>3 DEF DaemonStep, Timeout, FinishNew, RejectMutate, SaveFails, FinishRollback,
                        FinishRetry, FinishObserve, TypeOK
    <3>2. job \in Job /\ job # Idle /\ job.op = "mutate"
      BY <2>1, <3>1 DEF Commit, Answered, TypeOK
    <3>3. job.client \in Client
      BY <3>2 DEF Job
    <3> QED BY <2>1, <3>2, <3>3 DEF SeenInv
  <2>4. CASE OwnerStep
    BY <2>4 DEF OwnerStep, Take, CompleteApply, CompleteObserve, Drift
  <2> QED BY <2>2, <2>3, <2>4 DEF Next
<1> QED BY <1>1, InitControl, NextControl, PTL DEF Spec, NoLostUpdate

\* The configuration only ever becomes one that the primary file holds.
THEOREM CommitIsDurable == Spec => AcknowledgedIsDurable
<1> DEFINE Durable == daemon'.config # daemon.config => disk' = daemon'.config
<1>1. ControlInv /\ [Next]_vars => [Durable]_vars
  <2> SUFFICES ASSUME ControlInv, Next, daemon'.config # daemon.config
               PROVE  disk' = daemon'.config
    BY DEF Durable
  <2>1. TypeOK
    BY DEF ControlInv
  <2>2. CASE \E c \in Client : Requests(c)
    <3>1. PICK c \in Client : Requests(c)
      BY <2>2
    <3>2. PICK b \in BOOLEAN : SetStart(c, b)
      BY <3>1 DEF Requests, ReadSnapshot, Start, Stop, Set, Mutate, Retry, Observe
    <3> QED BY <2>1, <3>2 DEF SetStart, TypeOK
  <2>3. CASE DaemonStep
    <3>1. Commit
      BY <2>1, <2>3 DEF DaemonStep, Timeout, FinishNew, RejectMutate, SaveFails, FinishRollback,
                        FinishRetry, FinishObserve, TypeOK
    <3> QED BY <2>1, <3>1 DEF Commit, TypeOK
  <2>4. CASE OwnerStep
    BY <2>4 DEF OwnerStep, Take, CompleteApply, CompleteObserve, Drift
  <2> QED BY <2>2, <2>3, <2>4 DEF Next
<1> QED BY <1>1, InitControl, NextControl, PTL DEF Spec, AcknowledgedIsDurable
=============================================================================
