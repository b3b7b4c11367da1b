------------------------- MODULE DaemonServiceProofs -------------------------
(***************************************************************************)
(* Theorems about DaemonService for any clients, capacity and number of    *)
(* faults: who is subscribed, what the metering follows, and the unit.     *)
(* None is inductive: each depends on which command is still awaited, and  *)
(* on what the mutex of the subscribers protects across a request.         *)
(***************************************************************************)
EXTENDS DaemonService, TLAPS

Awaiting == Blocked /\ request.reply = Nothing

\* Only the newest command can still be answered, to the request in progress.
AwaitInv ==
    /\ \A i \in 1..Len(queue) :
          ~queue[i].cancelled => i = Len(queue) /\ Awaiting /\ queue[i].do = request.do
    /\ work # Nothing /\ ~work.cancelled =>
          Awaiting /\ work.do = request.do /\ \A i \in 1..Len(queue) : queue[i].cancelled

\* A switch is asked for by the one who holds the subscribers.
RequestInv == Blocked /\ request.do # "other" => turn # Nothing /\ turn.do = request.do

\* As long as it is, the flag and the set are what made it necessary.
TurnInv ==
    /\ turn # Nothing /\ turn.do = "on" => ~flag /\ subs = {turn.by} /\ turn.by \in Viewer
    /\ turn # Nothing /\ turn.do = "off" => flag /\ subs = {}
    /\ turn = Nothing /\ subs # {} => flag

\* The owner thread follows the flag, unless it works on what was given up.
Switched == Blocked /\ request.do # "other" /\ request.reply = "ok"
MeterInv ==
    /\ work # Nothing /\ work.cancelled /\ work.do # "other" => late
    /\ Switched => ~late /\ (metering <=> request.do = "on")
    /\ ~Switched => late \/ (metering <=> flag)

\* Nobody who is there is among those to be removed, nor waits for an answer
\* that was given already.
SubsInv ==
    \/ lost
    \/ /\ acked \cap alive \subseteq subs
       /\ prune.gone \cap alive = {}
       /\ turn # Nothing /\ turn.do = "on" => turn.by \notin acked \cap alive

UnitInv ==
    /\ launch.stage # "idle" => launch.to # config
    /\ launch.stage # "undoing" /\ unit # config => parted
    /\ file # config => torn

ServiceInv == TypeOK /\ AwaitInv /\ RequestInv /\ TurnInv /\ MeterInv /\ SubsInv /\ UnitInv

USE ServiceAssumption, NothingAssumption
-----------------------------------------------------------------------------
LEMMA InitService == Init => ServiceInv
<1> SUFFICES ASSUME Init PROVE ServiceInv
  OBVIOUS
<1>1. TypeOK
  <2>1. /\ NotPruning \in [todo : SUBSET Viewer, gone : SUBSET Viewer, running : BOOLEAN]
        /\ [stage |-> "idle", to |-> FALSE] \in [stage : Stage, to : BOOLEAN]
    BY DEF NotPruning, Stage
  <2>2. << >> \in Seq(Command) /\ Len(<< >>) = 0
    OBVIOUS
  <2>3. parted \in BOOLEAN /\ flag \in BOOLEAN /\ metering \in BOOLEAN /\ hung \in BOOLEAN
        /\ late \in BOOLEAN /\ lost \in BOOLEAN /\ config \in BOOLEAN /\ unit \in BOOLEAN
        /\ file \in BOOLEAN /\ torn \in BOOLEAN
    BY ZenonT(30) DEF Init
  <2>4. faults \in 0..MaxFaults /\ changes \in 0..MaxChanges
    BY DEF Init
  <2> QED BY <2>1, <2>2, <2>3, <2>4 DEF Init, TypeOK
<1>2. AwaitInv /\ RequestInv /\ TurnInv /\ MeterInv
  BY DEF Init, AwaitInv, RequestInv, TurnInv, MeterInv, Switched, Blocked
<1>3. SubsInv /\ UnitInv
  BY DEF Init, SubsInv, UnitInv, NotPruning
<1> QED BY <1>1, <1>2, <1>3 DEF ServiceInv

LEMMA FaultCounted == TypeOK /\ (faults' = faults \/ Fault) => faults' \in 0..MaxFaults
BY DEF TypeOK, Fault

\* Steps of the clients and of the monitor's pruning.
LEMMA ClientKeeps ==
    ASSUME ServiceInv, NEW v,
           \/ v \in Viewer /\ (SubscribeMeters(v) \/ UnsubscribeMeters(v) \/ Disconnect(v))
           \/ Pruning
    PROVE  ServiceInv'
<1>1. UNCHANGED <<flag, engine, login>> /\ TypeOK
  BY DEF SubscribeMeters, UnsubscribeMeters, Disconnect, Pruning, PruneCopy, PruneRemove,
     PruneAsk, ServiceInv
<1>2. AwaitInv' /\ UnitInv'
  BY <1>1 DEF ServiceInv, AwaitInv, UnitInv, Awaiting, Blocked, engine, login
<1>3. MeterInv'
  BY <1>1 DEF ServiceInv, MeterInv, Switched, Blocked, engine
<1>4. CASE v \in Viewer /\ SubscribeMeters(v)
  <2>1. /\ subs' = subs \cup {v} /\ turn = Nothing /\ ~Blocked /\ v \in alive
        /\ UNCHANGED <<alive, prune, lost, faults>>
        /\ \/ v \notin subs /\ ~flag /\ turn' = [by |-> v, do |-> "on"] /\ acked' = acked
           \/ (v \in subs \/ flag) /\ turn' = turn /\ acked' = acked \cup {v}
    BY <1>4 DEF SubscribeMeters, SetFree
  <2>2. v \in Viewer /\ [by |-> v, do |-> "on"] \in Switch
    BY <1>4 DEF Switch
  <2>3. TypeOK'
    BY <1>1, <2>1, <2>2 DEF TypeOK, engine, login
  <2>4. RequestInv' /\ TurnInv'
    BY <1>1, <2>1, <2>2 DEF ServiceInv, RequestInv, TurnInv, Blocked, engine
  <2>5. SubsInv'
    BY <1>1, <2>1, <2>2 DEF ServiceInv, SubsInv
  <2> QED BY <1>2, <1>3, <2>3, <2>4, <2>5 DEF ServiceInv
<1>5. CASE v \in Viewer /\ UnsubscribeMeters(v)
  <2>1. /\ subs' = subs \ {v} /\ acked' = acked \ {v} /\ turn = Nothing /\ ~Blocked
        /\ UNCHANGED <<alive, prune, lost, faults>>
        /\ \/ subs = {v} /\ flag /\ turn' = [by |-> v, do |-> "off"]
           \/ (subs # {v} \/ ~flag) /\ turn' = turn
    BY <1>5 DEF UnsubscribeMeters, SetFree
  <2>2. v \in Viewer /\ [by |-> v, do |-> "off"] \in Switch
    BY <1>5 DEF Switch
  <2>3. TypeOK'
    BY <1>1, <2>1, <2>2 DEF TypeOK, engine, login
  <2>4. RequestInv' /\ TurnInv'
    BY <1>1, <2>1, <2>2 DEF ServiceInv, RequestInv, TurnInv, Blocked, engine
  <2>5. SubsInv'
    BY <1>1, <2>1, <2>2 DEF ServiceInv, SubsInv
  <2> QED BY <1>2, <1>3, <2>3, <2>4, <2>5 DEF ServiceInv
<1>6. CASE Disconnect(v) \/ PruneCopy \/ \E u \in Viewer : PruneAsk(u)
  <2>1. /\ UNCHANGED <<subs, turn, acked>> /\ alive' \subseteq alive
        /\ faults' = faults \/ Fault
    BY <1>1, <1>6, Zenon DEF Disconnect, PruneCopy, PruneAsk, TypeOK
  <2>2. /\ prune' \in [todo : SUBSET Viewer, gone : SUBSET Viewer, running : BOOLEAN]
        /\ lost' \in BOOLEAN /\ (lost => lost')
        /\ lost' \/ prune'.gone \cap alive' \subseteq prune.gone \cap alive
    <3>1. CASE Disconnect(v) \/ PruneCopy
      <4>1. CASE Disconnect(v)
        BY <1>1, <4>1 DEF Disconnect, TypeOK
      <4>2. CASE PruneCopy
        BY <1>1, <4>2 DEF PruneCopy, TypeOK
      <4> QED BY <3>1, <4>1, <4>2
    <3>2. CASE \E u \in Viewer : PruneAsk(u)
      <4>1. PICK u \in Viewer : PruneAsk(u)
        BY <3>2
      <4>2. /\ alive' = alive
            /\ \/ lost' = TRUE
               \/ lost' = lost /\ (u \in alive => prune'.gone = prune.gone)
            /\ prune'.gone \in {prune.gone, prune.gone \cup {u}}
            /\ prune' \in [todo : SUBSET Viewer, gone : SUBSET Viewer, running : BOOLEAN]
        <5>1. prune \in [todo : SUBSET Viewer, gone : SUBSET Viewer, running : BOOLEAN]
          BY <1>1 DEF TypeOK
        <5>2. PICK gone \in {prune.gone, prune.gone \cup {u}} :
                /\ prune' = [prune EXCEPT !.todo = @ \ {u}, !.gone = gone]
                /\ alive' = alive
                /\ lost' = TRUE \/ (lost' = lost /\ (u \in alive => gone = prune.gone))
          <6>1. CASE lost' = TRUE /\ prune' = [prune EXCEPT !.todo = @ \ {u}, !.gone = @ \cup {u}]
            BY <4>1, <6>1, Zenon DEF PruneAsk
          <6>2. CASE /\ lost' = lost
                     /\ prune' = [prune EXCEPT !.todo = @ \ {u},
                                              !.gone = IF u \in alive THEN @ ELSE @ \cup {u}]
            <7>1. CASE u \in alive
              BY <4>1, <6>2, <7>1, Zenon DEF PruneAsk
            <7>2. CASE u \notin alive
              BY <4>1, <6>2, <7>2, Zenon DEF PruneAsk
            <7> QED BY <7>1, <7>2
          <6> QED BY <4>1, <6>1, <6>2, Zenon DEF PruneAsk
        <5>3. prune' = [todo |-> prune.todo \ {u}, gone |-> gone, running |-> prune.running]
          BY <5>1, <5>2
        <5> QED BY <5>1, <5>2, <5>3
      <4>3. lost \in BOOLEAN
        BY <1>1 DEF TypeOK
      <4>4. lost' \in BOOLEAN /\ (lost => lost')
        <5>1. CASE lost' = TRUE
          BY <5>1
        <5>2. CASE lost' = lost
          BY <4>3, <5>2, Zenon
        <5> QED BY <4>2, <5>1, <5>2
      <4>5. lost' \/ prune'.gone \cap alive' \subseteq prune.gone \cap alive
        BY <4>2
      <4> QED BY <4>2, <4>4, <4>5
    <3> QED BY <1>6, <3>1, <3>2
  <2>3. TypeOK'
    <3>1. faults' \in 0..MaxFaults
      BY <1>1, <2>1, FaultCounted
    <3> QED BY <1>1, <2>1, <2>2, <3>1 DEF TypeOK, engine, login
  <2>4. RequestInv' /\ TurnInv'
    BY <1>1, <2>1 DEF ServiceInv, RequestInv, TurnInv, Blocked, engine
  <2>5. SubsInv'
    BY <2>1, <2>2 DEF ServiceInv, SubsInv
  <2> QED BY <1>2, <1>3, <2>3, <2>4, <2>5 DEF ServiceInv
<1>7. CASE PruneRemove
  <2>1. /\ subs' = subs \ prune.gone /\ prune' = NotPruning /\ turn = Nothing /\ ~Blocked
        /\ UNCHANGED <<alive, acked, lost, faults>>
        /\ \/ subs' = {} /\ flag /\ turn' = [by |-> Monitor, do |-> "off"]
           \/ (subs' # {} \/ ~flag) /\ turn' = turn
    BY <1>7 DEF PruneRemove, SetFree
  <2>2. [by |-> Monitor, do |-> "off"] \in Switch
    BY DEF Switch
  <2>3. TypeOK'
    BY <1>1, <2>1, <2>2 DEF TypeOK, NotPruning, engine, login
  <2>4. RequestInv' /\ TurnInv'
    BY <1>1, <2>1, <2>2 DEF ServiceInv, RequestInv, TurnInv, Blocked, engine
  <2>5. SubsInv'
    BY <1>1, <2>1, <2>2 DEF ServiceInv, SubsInv, NotPruning
  <2> QED BY <1>2, <1>3, <2>3, <2>4, <2>5 DEF ServiceInv
<1> QED BY <1>4, <1>5, <1>6, <1>7 DEF Pruning

-----------------------------------------------------------------------------
\* A command is sent when no request is in progress: all before it are given up.
LEMMA SendKeeps ==
    ASSUME ServiceInv, NEW do \in Do, ~Blocked, TrySend(do),
           UNCHANGED <<flag, turn>>, do # "other" => turn # Nothing /\ turn.do = do
    PROVE  /\ request' \in Request /\ queue' \in Seq(Command) /\ Len(queue') <= Capacity
           /\ AwaitInv' /\ RequestInv' /\ MeterInv'
<1>1. TypeOK /\ AwaitInv /\ MeterInv
  BY DEF ServiceInv
<1>2. /\ queue' = Append(queue, [do |-> do, cancelled |-> FALSE]) /\ Len(queue) < Capacity
      /\ request' = [do |-> do, reply |-> Nothing]
      /\ UNCHANGED <<work, metering, hung, late>>
  BY DEF TrySend
<1>3. [do |-> do, cancelled |-> FALSE] \in Command /\ queue \in Seq(Command)
  BY <1>1 DEF Command, TypeOK
<1>4. /\ request' \in Request /\ request' # Nothing
      /\ queue' \in Seq(Command) /\ Len(queue') = Len(queue) + 1
      /\ \A i \in 1..Len(queue) : queue'[i] = queue[i]
      /\ queue'[Len(queue')] = [do |-> do, cancelled |-> FALSE]
  BY <1>1, <1>2, <1>3 DEF Request
<1>5. AwaitInv'
  BY <1>1, <1>2, <1>4 DEF AwaitInv, Awaiting, Blocked, TypeOK
<1>6. RequestInv'
  BY <1>2 DEF RequestInv, Blocked
<1>7. MeterInv'
  <2>1. ~Switched /\ ~Switched'
    BY <1>2 DEF Switched, Blocked
  <2> QED BY <1>1, <1>2, <2>1 DEF MeterInv
<1> QED BY <1>1, <1>2, <1>4, <1>5, <1>6, <1>7 DEF TypeOK

\* The holder of the subscribers settles and lets go.
LEMMA SettledKeeps ==
    ASSUME ServiceInv, turn # Nothing, NEW ok \in BOOLEAN, Settled(ok)
    PROVE  /\ UNCHANGED <<alive, prune, lost>> /\ turn' = Nothing
           /\ subs' \subseteq Viewer /\ acked' \subseteq Viewer /\ flag' \in BOOLEAN
           /\ ok => (flag' <=> turn.do = "on")
           /\ ~ok => (flag' <=> flag)
           /\ TurnInv' /\ SubsInv'
<1>1. TypeOK /\ TurnInv /\ SubsInv
  BY DEF ServiceInv
<1>2. turn \in Switch /\ turn.do \in {"on", "off"} /\ (turn.by \in Viewer \/ turn.by = Monitor)
  BY <1>1 DEF TypeOK, Switch
<1>3. /\ UNCHANGED <<alive, prune, lost>> /\ turn' = Nothing
      /\ subs \subseteq Viewer /\ acked \subseteq Viewer
  BY <1>1 DEF Settled, TypeOK
<1>4. CASE ok
  <2>1. subs' = subs /\ flag' = (turn.do = "on")
        /\ acked' = IF turn.do = "on" THEN acked \cup {turn.by} ELSE acked
    BY <1>4 DEF Settled
  <2> QED BY <1>1, <1>2, <1>3, <1>4, <2>1 DEF TurnInv, SubsInv
<1>5. CASE ~ok
  <2>1. /\ flag' = flag /\ acked' = acked
        /\ subs' = IF turn.by = Monitor THEN subs
                   ELSE IF turn.do = "on" THEN subs \ {turn.by} ELSE subs \cup {turn.by}
    BY <1>5 DEF Settled
  <2>2. flag \in BOOLEAN
    BY <1>1 DEF TypeOK
  <2>3. flag' \in BOOLEAN /\ (flag' <=> flag)
    BY <2>1, <2>2, Zenon
  <2>4. subs' \subseteq Viewer
    BY <1>2, <1>3, <2>1
  <2>5. TurnInv'
    BY <1>1, <1>2, <1>3, <2>1 DEF TurnInv
  <2>6. SubsInv'
    BY <1>1, <1>2, <1>3, <2>1 DEF TurnInv, SubsInv
  <2> QED BY <1>3, <1>5, <2>1, <2>3, <2>4, <2>5, <2>6
<1> QED BY <1>4, <1>5

LEMMA RequestKeeps ==
    ASSUME ServiceInv, SetMeterMonitoring \/ OtherOperation \/ Return
    PROVE  ServiceInv'
<1>1. /\ UNCHANGED faults
      /\ TypeOK /\ AwaitInv /\ RequestInv /\ TurnInv /\ MeterInv /\ SubsInv /\ UnitInv
  BY DEF SetMeterMonitoring, OtherOperation, Return, ServiceInv
<1>2. /\ UNCHANGED <<launch, config, unit, parted, changes>>
      /\ file' \in BOOLEAN /\ torn' \in BOOLEAN /\ UnitInv'
  <2>1. CASE UNCHANGED login
    BY <1>1, <2>1 DEF UnitInv, TypeOK, login
  <2>2. CASE Resave
    BY <1>1, <2>2 DEF Resave, UnitInv, TypeOK
  <2> QED
    BY <2>1, <2>2, Zenon DEF SetMeterMonitoring, OtherOperation, Return
<1>3. ASSUME NEW do \in Do, ~Blocked, TrySend(do), UNCHANGED meters,
             do # "other" => turn # Nothing /\ turn.do = do
      PROVE  ServiceInv'
  <2>1. /\ request' \in Request /\ queue' \in Seq(Command) /\ Len(queue') <= Capacity
        /\ AwaitInv' /\ RequestInv' /\ MeterInv'
    BY <1>3, SendKeeps DEF meters
  <2>2. TypeOK'
    BY <1>1, <1>2, <1>3, <2>1 DEF TypeOK, TrySend, meters
  <2>3. TurnInv' /\ SubsInv'
    BY <1>1, <1>3 DEF TurnInv, SubsInv, meters
  <2> QED BY <1>2, <2>1, <2>2, <2>3 DEF ServiceInv
<1>4. ASSUME NEW ok \in BOOLEAN, turn # Nothing, Settled(ok),
             request' = request \/ request' = Nothing, ~Awaiting, ~Switched',
             UNCHANGED <<queue, work, metering, hung, late>>,
             IF ok THEN Switched ELSE ~Switched, RequestInv'
      PROVE  ServiceInv'
  <2>1. /\ UNCHANGED <<alive, prune, lost>> /\ turn' = Nothing
        /\ subs' \subseteq Viewer /\ acked' \subseteq Viewer /\ flag' \in BOOLEAN
        /\ ok => (flag' <=> turn.do = "on")
        /\ ~ok => (flag' <=> flag)
        /\ TurnInv' /\ SubsInv'
    BY <1>4, SettledKeeps
  <2>2. TypeOK'
    BY <1>1, <1>2, <1>4, <2>1 DEF TypeOK
  <2>3. AwaitInv'
    BY <1>1, <1>4 DEF AwaitInv
  <2>4. MeterInv'
    BY <1>1, <1>4, <2>1 DEF MeterInv, RequestInv, Switched
  <2> QED BY <1>2, <1>4, <2>1, <2>2, <2>3, <2>4 DEF ServiceInv
<1>5. turn # Nothing => turn.do \in {"on", "off"}
  BY <1>1 DEF TypeOK, Switch
<1>6. CASE SetMeterMonitoring
  <2>1. CASE TrySend(turn.do) /\ UNCHANGED meters
    BY <1>3, <1>5, <1>6, <2>1 DEF SetMeterMonitoring, Ready, Do
  <2>2. CASE Settled(FALSE) /\ UNCHANGED engine
    <3>1. turn # Nothing /\ ~Blocked /\ request' = request
      BY <1>6, <2>2 DEF SetMeterMonitoring, Ready, engine
    <3>2. RequestInv' /\ ~Switched /\ ~Switched' /\ ~Awaiting
      BY <3>1 DEF RequestInv, Switched, Awaiting, Blocked
    <3> QED BY <1>4, <2>2, <3>1, <3>2 DEF engine
  <2> QED BY <1>6, <2>1, <2>2 DEF SetMeterMonitoring
<1>7. CASE OtherOperation
  BY <1>3, <1>7 DEF OtherOperation, Ready, Do
<1>8. CASE Return
  <2>1. /\ Blocked /\ request.reply # Nothing /\ request' = Nothing
        /\ UNCHANGED <<queue, work, metering, hung, late>>
        /\ IF request.do = "other" THEN UNCHANGED meters ELSE Settled(request.reply = "ok")
    BY <1>8 DEF Return
  <2>2. ~Awaiting /\ ~Switched' /\ RequestInv'
    BY <2>1 DEF Awaiting, Switched, RequestInv, Blocked
  <2>3. CASE request.do # "other"
    <3>1. turn # Nothing /\ Settled(request.reply = "ok")
      BY <1>1, <2>1, <2>3 DEF RequestInv
    <3>2. CASE request.reply = "ok"
      <4>1. Switched /\ Settled(TRUE)
        BY <2>1, <2>3, <3>1, <3>2 DEF Switched
      <4> QED BY <1>4, <2>1, <2>2, <3>1, <4>1
    <3>3. CASE request.reply # "ok"
      <4>1. ~Switched /\ Settled(FALSE)
        BY <3>1, <3>3 DEF Switched
      <4> QED BY <1>4, <2>1, <2>2, <3>1, <4>1
    <3> QED BY <3>2, <3>3
  <2>4. CASE request.do = "other"
    <3>1. TypeOK'
      BY <1>1, <1>2, <2>1, <2>4 DEF TypeOK, meters
    <3>2. AwaitInv'
      BY <1>1, <2>1, <2>2 DEF AwaitInv
    <3>3. MeterInv'
      BY <1>1, <2>1, <2>2, <2>4 DEF MeterInv, Switched, meters
    <3>4. TurnInv' /\ SubsInv'
      BY <1>1, <2>1, <2>4 DEF TurnInv, SubsInv, meters
    <3> QED BY <1>2, <2>2, <3>1, <3>2, <3>3, <3>4 DEF ServiceInv
  <2> QED BY <2>3, <2>4
<1> QED BY <1>6, <1>7, <1>8

\* The time limit, and the owner thread.
LEMMA OwnerKeeps ==
    ASSUME ServiceInv, Timeout \/ Owner \/ Hang
    PROVE  ServiceInv'
<1>1. /\ UNCHANGED <<meters, login>> /\ (faults' = faults \/ Fault)
      /\ TypeOK /\ AwaitInv /\ RequestInv /\ TurnInv /\ MeterInv /\ SubsInv /\ UnitInv
  BY Zenon DEF Timeout, Owner, Take, Execute, Executed, Hang, ServiceInv
<1>2. UnitInv' /\ TurnInv' /\ SubsInv' /\ faults' \in 0..MaxFaults
  BY <1>1, FaultCounted DEF UnitInv, TurnInv, SubsInv, meters, login
<1>3. CASE Timeout
  <2>1. /\ Awaiting /\ request' = [request EXCEPT !.reply = "err"]
        /\ queue' = [i \in DOMAIN queue |-> Cancel(queue[i])]
        /\ work' = IF work = Nothing THEN work ELSE Cancel(work)
        /\ late' = (late \/ (work # Nothing /\ ~work.cancelled /\ work.do # "other"))
        /\ UNCHANGED <<metering, hung>>
    BY <1>3, Zenon DEF Timeout, Awaiting
  <2>2. /\ request \in Request /\ queue \in Seq(Command)
        /\ work \in Command \cup {Nothing} /\ late \in BOOLEAN
    BY <1>1, <2>1 DEF TypeOK, Awaiting, Blocked
  <2>3. /\ request' \in Request /\ request'.do = request.do /\ request'.reply = "err"
    BY <2>1, <2>2 DEF Request
  <2>4. /\ queue' \in Seq(Command) /\ Len(queue') = Len(queue)
        /\ \A i \in 1..Len(queue') : queue'[i].cancelled
    <3>1. \A c \in Command : Cancel(c) \in Command /\ Cancel(c).cancelled
      BY DEF Command, Cancel
    <3>2. /\ DOMAIN queue = 1..Len(queue) /\ Len(queue) \in Nat
          /\ \A i \in 1..Len(queue) : queue[i] \in Command
      BY <2>2
    <3> QED BY <2>1, <3>1, <3>2
  <2>5. /\ work' \in Command \cup {Nothing}
        /\ work' # Nothing => work # Nothing /\ work'.cancelled /\ work'.do = work.do
    BY <2>1, <2>2 DEF Command, Cancel
  <2>6. /\ late' \in BOOLEAN /\ (late => late')
        /\ work # Nothing /\ ~work.cancelled /\ work.do # "other" => late'
    BY <2>1, <2>2
  <2>7. TypeOK'
    BY <1>1, <1>2, <2>1, <2>3, <2>4, <2>5, <2>6 DEF TypeOK, meters, login
  <2>8. AwaitInv'
    BY <2>4, <2>5 DEF AwaitInv
  <2>9. RequestInv'
    BY <1>1, <2>1, <2>3 DEF RequestInv, Awaiting, Blocked, meters
  <2>10. MeterInv'
    <3>1. ~Switched /\ ~Switched'
      BY <2>1, <2>3 DEF Switched, Awaiting
    <3> QED BY <1>1, <2>1, <2>5, <2>6, <3>1 DEF MeterInv, meters
  <2> QED BY <1>2, <2>7, <2>8, <2>9, <2>10 DEF ServiceInv
<1>4. CASE Take
  <2>1. /\ work = Nothing /\ queue # << >> /\ queue' = Tail(queue)
        /\ UNCHANGED <<request, metering, hung, late>>
        /\ work' = IF Head(queue).cancelled THEN Nothing ELSE Head(queue)
    BY <1>4 DEF Take
  <2>2. /\ queue \in Seq(Command) /\ Len(queue) \in Nat \ {0} /\ Head(queue) = queue[1]
        /\ Head(queue) \in Command
        /\ queue' \in Seq(Command) /\ Len(queue') = Len(queue) - 1
        /\ \A i \in 1..Len(queue') : queue'[i] = queue[i + 1]
    BY <1>1, <2>1 DEF TypeOK
  <2>3. TypeOK'
    BY <1>1, <1>2, <2>1, <2>2 DEF TypeOK, meters, login
  <2>4. AwaitInv'
    BY <1>1, <2>1, <2>2 DEF AwaitInv, Awaiting, Blocked
  <2>5. RequestInv' /\ MeterInv'
    BY <1>1, <2>1 DEF RequestInv, MeterInv, Switched, Blocked, meters
  <2> QED BY <1>2, <2>3, <2>4, <2>5 DEF ServiceInv
<1>5. ASSUME NEW ok \in BOOLEAN, Executed(ok)
      PROVE  ServiceInv'
  <2>1. /\ work # Nothing /\ work' = Nothing /\ UNCHANGED <<queue, hung>>
        /\ metering' = IF ok /\ work.do # "other" THEN work.do = "on" ELSE metering
        /\ request' = IF work.cancelled THEN request
                      ELSE [request EXCEPT !.reply = IF ok THEN "ok" ELSE "err"]
        /\ late' = (late /\ (work.cancelled \/ work.do = "other" \/ ~ok))
    BY <1>5 DEF Executed
  <2>2. work \in Command /\ work.do \in Do /\ late \in BOOLEAN /\ metering \in BOOLEAN
    BY <1>1, <2>1 DEF TypeOK, Command
  <2>3. /\ late' \in BOOLEAN /\ metering' \in BOOLEAN
        /\ ~(ok /\ work.do # "other") => (metering' <=> metering)
        /\ ok /\ work.do # "other" => (metering' <=> work.do = "on")
        /\ late' <=> late /\ (work.cancelled \/ work.do = "other" \/ ~ok)
    <3>1. CASE ok /\ work.do # "other"
      BY <2>1, <2>2, <3>1
    <3>2. CASE ~(ok /\ work.do # "other")
      <4>1. metering' = metering
        BY <2>1, <3>2
      <4>2. metering' \in BOOLEAN /\ (metering' <=> metering)
        BY <2>2, <4>1, Zenon
      <4>3. late' \in BOOLEAN /\ (late' <=> late /\ (work.cancelled \/ work.do = "other" \/ ~ok))
        BY <2>1
      <4> QED BY <3>2, <4>2, <4>3
    <3> QED BY <3>1, <3>2
  <2>4. CASE work.cancelled
    <3>1. request' = request
      BY <2>1, <2>4
    <3>2. TypeOK'
      BY <1>1, <1>2, <2>1, <2>3, <3>1 DEF TypeOK, meters, login
    <3>3. AwaitInv' /\ RequestInv'
      BY <1>1, <2>1, <3>1 DEF AwaitInv, RequestInv, Awaiting, Blocked, meters
    <3>4. Switched' <=> Switched
      BY <3>1 DEF Switched, Blocked
    <3>5. late' <=> late
      BY <2>3, <2>4
    <3>6. MeterInv'
      BY <1>1, <2>1, <2>3, <2>4, <3>4, <3>5, <3>1 DEF MeterInv, meters
    <3> QED BY <1>2, <3>2, <3>3, <3>6 DEF ServiceInv
  <2>5. CASE ~work.cancelled
    <3>1. Awaiting /\ request \in Request /\ work.do = request.do
      BY <1>1, <2>1, <2>5 DEF AwaitInv, Awaiting, Blocked, TypeOK
    <3>2. /\ request' \in Request /\ request'.do = request.do
          /\ request'.reply = IF ok THEN "ok" ELSE "err"
      BY <2>1, <2>5, <3>1 DEF Request
    <3>3. TypeOK'
      BY <1>1, <1>2, <2>1, <2>3, <3>2 DEF TypeOK, meters, login
    <3>4. AwaitInv'
      BY <1>1, <2>1, <2>5 DEF AwaitInv
    <3>5. RequestInv'
      BY <1>1, <3>1, <3>2 DEF RequestInv, Awaiting, Blocked, meters
    <3>6. ~Switched /\ (Switched' <=> ok /\ work.do # "other")
      BY <3>1, <3>2 DEF Switched, Awaiting, Blocked
    <3>7. MeterInv'
      BY <1>1, <2>1, <2>3, <2>5, <3>1, <3>2, <3>6 DEF MeterInv, meters
    <3> QED BY <1>2, <3>3, <3>4, <3>5, <3>7 DEF ServiceInv
  <2> QED BY <2>4, <2>5
<1>6. CASE Hang
  <2>1. /\ hung' = TRUE /\ UNCHANGED <<request, queue, work, metering, late>>
    BY <1>6 DEF Hang
  <2>2. TypeOK'
    BY <1>1, <1>2, <2>1 DEF TypeOK, meters, login
  <2>3. AwaitInv' /\ RequestInv' /\ MeterInv'
    BY <1>1, <2>1 DEF AwaitInv, RequestInv, MeterInv, Awaiting, Switched, Blocked, meters
  <2> QED BY <1>2, <2>2, <2>3 DEF ServiceInv
<1> QED BY <1>3, <1>4, <1>5, <1>6 DEF Owner, Execute

LEMMA LaunchKeeps ==
    ASSUME ServiceInv, SetLaunchAtLogin \/ ManagerFails \/ ManagerSucceeds \/ Rollback
    PROVE  ServiceInv'
<1>1. /\ UNCHANGED <<meters, engine>> /\ (faults' = faults \/ Fault)
      /\ TypeOK /\ AwaitInv /\ RequestInv /\ TurnInv /\ MeterInv /\ SubsInv /\ UnitInv
  BY Zenon DEF SetLaunchAtLogin, ManagerFails, ManagerSucceeds, SaveFails, Rollback, ServiceInv
<1>2. faults' \in 0..MaxFaults
  BY <1>1, FaultCounted
<1>3. TurnInv' /\ SubsInv'
  BY <1>1 DEF TurnInv, SubsInv, meters
<1>4. AwaitInv' /\ RequestInv' /\ MeterInv'
  BY <1>1 DEF AwaitInv, RequestInv, MeterInv, Awaiting, Switched, Blocked, meters, engine
<1>5. /\ launch \in [stage : Stage, to : BOOLEAN]
      /\ config \in BOOLEAN /\ file \in BOOLEAN /\ unit \in BOOLEAN
      /\ parted \in BOOLEAN /\ torn \in BOOLEAN
  BY <1>1 DEF TypeOK
<1> DEFINE Typed == /\ launch' \in [stage : Stage, to : BOOLEAN]
                    /\ config' \in BOOLEAN /\ file' \in BOOLEAN /\ unit' \in BOOLEAN
                    /\ parted' \in BOOLEAN /\ torn' \in BOOLEAN
                    /\ changes' \in 0..MaxChanges
<1>6. SUFFICES Typed /\ UnitInv'
  BY <1>1, <1>2, <1>3, <1>4 DEF ServiceInv, TypeOK, meters, engine
<1>7. CASE SetLaunchAtLogin
  <2>1. /\ launch' = [stage |-> "asked", to |-> ~config] /\ UNCHANGED <<config, file, unit, parted, torn>>
        /\ launch.stage = "idle" /\ changes < MaxChanges /\ changes' = changes + 1
    BY <1>7 DEF SetLaunchAtLogin, Ready, DaemonFree
  <2>2. Typed
    BY <1>1, <1>5, <2>1 DEF Stage, TypeOK
  <2>3. UnitInv'
    BY <1>1, <1>5, <2>1 DEF UnitInv
  <2> QED BY <2>2, <2>3
<1>8. CASE ManagerFails
  <2>1. /\ launch' = [launch EXCEPT !.stage = "idle"] /\ UNCHANGED <<config, file, torn, changes>>
        /\ unit' \in {unit, launch.to} /\ launch.stage = "asked"
        /\ parted' = (parted \/ unit' # unit)
    BY <1>8 DEF ManagerFails, LaunchDone
  <2>2. Typed
    BY <1>1, <1>5, <2>1 DEF Stage, TypeOK
  <2>3. UnitInv'
    BY <1>1, <1>5, <2>1 DEF UnitInv
  <2> QED BY <2>2, <2>3
<1>9. CASE ManagerSucceeds
  <2>1. CASE Saved /\ launch' = [launch EXCEPT !.stage = "idle"]
    <3>1. unit' = launch.to /\ changes' = changes
      BY <1>9 DEF ManagerSucceeds
    <3>2. Typed
      BY <1>1, <1>5, <2>1, <3>1 DEF Saved, Stage, TypeOK
    <3>3. UnitInv'
      BY <1>5, <2>1, <3>1 DEF Saved, UnitInv
    <3> QED BY <3>2, <3>3
  <2>2. CASE SaveFails /\ launch' = [launch EXCEPT !.stage = "undoing"]
    <3>1. unit' = launch.to /\ changes' = changes /\ launch.stage = "asked"
      BY <1>9 DEF ManagerSucceeds
    <3>2. Typed
      BY <1>1, <1>5, <2>2, <3>1 DEF SaveFails, Stage, TypeOK
    <3>3. UnitInv'
      BY <1>1, <1>5, <2>2, <3>1 DEF SaveFails, UnitInv
    <3> QED BY <3>2, <3>3
  <2> QED BY <1>9, <2>1, <2>2 DEF ManagerSucceeds, LaunchDone
<1>10. CASE Rollback
  <2>1. /\ launch' = [launch EXCEPT !.stage = "idle"] /\ UNCHANGED <<config, file, torn, changes>>
        /\ launch.stage = "undoing"
        /\ \/ unit' = ~launch.to /\ parted' = FALSE
           \/ unit' \in {unit, ~launch.to} /\ parted' = TRUE
    BY <1>10 DEF Rollback, LaunchDone
  <2>2. Typed
    BY <1>1, <1>5, <2>1 DEF Stage, TypeOK
  <2>3. UnitInv'
    BY <1>1, <1>5, <2>1 DEF UnitInv
  <2> QED BY <2>2, <2>3
<1> QED BY <1>7, <1>8, <1>9, <1>10

-----------------------------------------------------------------------------
LEMMA NextService == ServiceInv /\ [Next]_vars => ServiceInv'
<1> SUFFICES ASSUME ServiceInv, [Next]_vars PROVE ServiceInv'
  OBVIOUS
<1>1. CASE \E v \in Viewer : SubscribeMeters(v) \/ UnsubscribeMeters(v) \/ Disconnect(v)
  BY <1>1, ClientKeeps
<1>2. CASE Pruning
  BY <1>2, ClientKeeps
<1>3. CASE SetMeterMonitoring \/ OtherOperation \/ Return
  BY <1>3, RequestKeeps
<1>4. CASE Timeout \/ Owner \/ Hang
  BY <1>4, OwnerKeeps
<1>5. CASE SetLaunchAtLogin \/ ManagerFails \/ ManagerSucceeds \/ Rollback
  BY <1>5, LaunchKeeps
<1>6. CASE UNCHANGED vars
  BY <1>6 DEF ServiceInv, TypeOK, AwaitInv, RequestInv, TurnInv, MeterInv, SubsInv, UnitInv,
     Awaiting, Switched, Blocked, vars, meters, engine, login
<1> QED BY <1>1, <1>2, <1>3, <1>4, <1>5, <1>6 DEF Next

THEOREM ServiceInvariant == Spec => []ServiceInv
BY InitService, NextService, PTL DEF Spec

\* Type correctness: above all that the channel never holds more than its capacity,
\* however many requests give up and leave their commands in it.
THEOREM ServiceTypeCorrect == Spec => []TypeOK
<1>1. ServiceInv => TypeOK
  BY DEF ServiceInv
<1> QED BY <1>1, ServiceInvariant, PTL

\* A client that was told it is subscribed is not removed by a pruning that
\* decides on an old copy of the set, nor by the request of another client.
THEOREM NobodyIsForgotten == Spec => []SubscriptionsStay
<1>1. ServiceInv => SubscriptionsStay
  BY DEF ServiceInv, SubsInv, SubscriptionsStay
<1> QED BY <1>1, ServiceInvariant, PTL

\* Between two switches the service's flag is the state of the owner thread,
\* except after a switch that was given up and carried out all the same.
THEOREM FlagIsTrue == Spec => []MonitoringAgrees
<1>1. ServiceInv => MonitoringAgrees
  <2>1. ASSUME ServiceInv, turn = Nothing PROVE late \/ metering = flag
    <3>1. ~Switched /\ metering \in BOOLEAN /\ flag \in BOOLEAN
      BY <2>1 DEF ServiceInv, RequestInv, Switched, TypeOK
    <3> QED BY <2>1, <3>1 DEF ServiceInv, MeterInv
  <2> QED BY <2>1 DEF ServiceInv, TurnInv, MonitoringAgrees, SetFree
<1> QED BY <1>1, ServiceInvariant, PTL

\* Outside a change of launch at login, the unit and the configuration the daemon
\* runs with differ only where the manager had failed, and the unit and the saved
\* configuration only there and after a save that failed, although it may have
\* reached the file.
THEOREM UnitIsFollowed == Spec => []UnitFollowsConfig
<1>1. ServiceInv => UnitFollowsConfig
  BY DEF ServiceInv, UnitInv, UnitFollowsConfig, DaemonFree
<1> QED BY <1>1, ServiceInvariant, PTL
=============================================================================
