---------------------------- MODULE DesktopProofs ----------------------------
(***************************************************************************)
(* Theorems about the desktop program, for any number of windows, any      *)
(* capacity of the channels and any number of clicks and disturbances: no  *)
(* answer is counted for another request, and a stop that is confirmed was *)
(* the daemon's (Desktop); and the launch entry is changed only as the     *)
(* user wants it (Autostart).                                              *)
(***************************************************************************)
EXTENDS Desktop, Autostart, FiniteSetTheorems, TLAPS

-----------------------------------------------------------------------------
(***************************************************************************)
(* How many of the responses in a channel end a request.                   *)
(***************************************************************************)
Ending(line) == {i \in 1 .. Len(line) : line[i].complete}

LEMMA EndingFinite ==
    ASSUME NEW line \in Seq(Response)
    PROVE  /\ IsFiniteSet(Ending(line))
           /\ Completions(line) = Cardinality(Ending(line))
           /\ Completions(line) \in Nat
<1>1. IsFiniteSet(1 .. Len(line))
    BY FS_Interval
<1>2. Ending(line) \in SUBSET (1 .. Len(line))
    BY DEF Ending
<1>3. IsFiniteSet(Ending(line))
    BY <1>1, <1>2, FS_Subset
<1> QED BY <1>3, FS_CardinalityType DEF Completions, Ending

LEMMA NoneEnds == Completions(<<>>) = 0
<1>1. {i \in 1 .. Len(<<>>) : <<>>[i].complete} = {}
    OBVIOUS
<1> QED BY <1>1, FS_EmptySet DEF Completions

LEMMA OneMoreEnds ==
    ASSUME NEW line \in Seq(Response), NEW r \in Response
    PROVE  Completions(Append(line, r)) = Completions(line) + (IF r.complete THEN 1 ELSE 0)
<1> DEFINE n == Len(line) + 1
           longer == Append(line, r)
<1>1. /\ longer \in Seq(Response) /\ Len(longer) = n /\ longer[n] = r
      /\ \A i \in 1 .. Len(line) : longer[i] = line[i]
    OBVIOUS
<1>2. /\ IsFiniteSet(Ending(line)) /\ Completions(line) = Cardinality(Ending(line))
      /\ Completions(line) \in Nat
    BY EndingFinite
<1>3. Completions(longer) = Cardinality(Ending(longer))
    BY <1>1, EndingFinite
<1> HIDE DEF longer
<1>4. n \notin Ending(line)
    BY DEF Ending
<1>5. CASE r.complete
    <2>1. Ending(longer) = Ending(line) \cup {n}
        BY <1>1, <1>5 DEF Ending
    <2> QED BY <1>2, <1>3, <1>4, <1>5, <2>1, FS_AddElement DEF longer
<1>6. CASE ~r.complete
    <2>1. Ending(longer) = Ending(line)
        BY <1>1, <1>6 DEF Ending
    <2> QED BY <1>2, <1>3, <1>6, <2>1 DEF longer
<1> QED BY <1>5, <1>6

LEMMA OneLessEnds ==
    ASSUME NEW line \in Seq(Response), line # <<>>
    PROVE  Completions(line) = Completions(Tail(line)) + (IF Head(line).complete THEN 1 ELSE 0)
<1> DEFINE rest == Tail(line)
           Shifted == [i \in Ending(rest) |-> i + 1]
<1>1. /\ rest \in Seq(Response) /\ Len(line) \in Nat \ {0} /\ Len(rest) = Len(line) - 1
      /\ \A i \in 1 .. Len(rest) : rest[i] = line[i + 1]
      /\ Head(line) = line[1]
    OBVIOUS
<1>2. /\ IsFiniteSet(Ending(line)) /\ Completions(line) = Cardinality(Ending(line))
      /\ Completions(line) \in Nat
    BY EndingFinite
<1>3. /\ IsFiniteSet(Ending(rest)) /\ Completions(rest) = Cardinality(Ending(rest))
      /\ Completions(rest) \in Nat
    BY <1>1, EndingFinite
<1> HIDE DEF rest
<1>4. Shifted \in Bijection(Ending(rest), Ending(line) \ {1})
    <2>1. \A i \in Ending(rest) : i \in Nat /\ i + 1 \in Ending(line) \ {1}
        BY <1>1 DEF Ending
    <2>2. ASSUME NEW j \in Ending(line) \ {1}
          PROVE  j \in Nat /\ j - 1 \in Ending(rest) /\ Shifted[j - 1] = j
        BY <1>1 DEF Ending
    <2>3. Shifted \in [Ending(rest) -> Ending(line) \ {1}]
        BY <2>1
    <2>4. \A a, b \in Ending(rest) : Shifted[a] = Shifted[b] => a = b
        BY <2>1
    <2>5. \A j \in Ending(line) \ {1} : \E i \in Ending(rest) : Shifted[i] = j
        BY <2>2
    <2> QED BY <2>3, <2>4, <2>5 DEF Bijection, Injection, Surjection, IsInjective
<1>5. Cardinality(Ending(line) \ {1}) = Completions(rest)
    BY <1>3, <1>4, FS_Bijection DEF ExistsBijection
<1>6. Cardinality(Ending(line) \ {1}) =
        IF 1 \in Ending(line) THEN Cardinality(Ending(line)) - 1 ELSE Cardinality(Ending(line))
    BY <1>2, FS_RemoveElement
<1>7. 1 \in Ending(line) <=> line[1].complete
    BY <1>1 DEF Ending
<1> QED BY <1>1, <1>2, <1>3, <1>5, <1>6, <1>7 DEF rest

LEMMA SomeEnds ==
    ASSUME NEW line \in Seq(Response), NEW i \in 1 .. Len(line), line[i].complete
    PROVE  Completions(line) > 0
<1>1. i \in Ending(line)
    BY DEF Ending
<1> QED BY <1>1, EndingFinite, FS_EmptySet

-----------------------------------------------------------------------------
(***************************************************************************)
(* The workers.                                                            *)
(***************************************************************************)
DaemonState == [up : BOOLEAN, active : BOOLEAN, start : BOOLEAN, meters : BOOLEAN]
WorkerState == [at : Stage, request : Reason, complete : BOOLEAN, reply : Response]

\* A state has a snapshot, and only a request is answered with a report.
Proper(r) == (r.kind = "state" => r.snapshot \in Snapshot) /\ (r.kind = "diagnostics" => r.complete)

\* A worker owes an answer from the moment it takes a request, and says so in
\* the answer it gives.
Coherent(u) ==
    /\ u.at \in {"receive", "reconnect", "serve", "gone"} => ~u.complete
    /\ u.request \notin {"refresh", "update"} => u.complete
    /\ u.at = "answer" => Proper(u.reply) /\ u.reply.complete = u.complete

\* An answer that tells that processing is off.
TellsOff(r) == (r.kind = "state" \/ r.snapshot # NoSnapshot) /\ ~r.snapshot.active

ServiceType ==
    /\ daemon \in DaemonState
    /\ fresh \in [Worker -> BOOLEAN] /\ signal \in [Worker -> BOOLEAN]
    /\ owner \in [Worker -> {"same", "new", "lost"}]
    /\ blind \in [Worker -> BOOLEAN] /\ changes \in 0..MaxChanges

ClientInv ==
    /\ ClientTypeOK
    /\ \A w \in Worker : Coherent(worker[w])
    /\ \A w \in Worker : \A i \in 1 .. Len(responses[w]) : Proper(responses[w][i])

\* What a step of a worker can do to its channels: take a request, which it
\* then owes an answer, send that answer, work on it, or leave.
Takes(w, u) ==
    /\ requests[w] # <<>> /\ ~worker[w].complete
    /\ requests' = [requests EXCEPT ![w] = Tail(@)] /\ responses' = responses
    /\ IF Head(requests[w]) = "shutdown" THEN ~u.complete /\ u.at = "gone"
       ELSE u.complete /\ u.at \in {"connect", "fetch"}
Answers(w, u) ==
    /\ worker[w].at = "answer" /\ attached[w] /\ Len(responses[w]) < ResponseCapacity
    /\ requests' = requests /\ responses' = [responses EXCEPT ![w] = Append(@, worker[w].reply)]
    /\ ~u.complete /\ u.at \in {"reconnect", "serve"}
Works(w, u) ==
    /\ worker[w].at \notin {"receive", "gone"} /\ u.at \notin {"receive", "gone"}
    /\ requests' = requests /\ responses' = responses
    /\ u.complete = worker[w].complete
    /\ u.at = "answer" /\ TellsOff(u.reply) => ~daemon'.active
Leaves(w, u) ==
    /\ ~attached[w] /\ ~u.complete /\ u.at \in {"gone", "reconnect"}
    /\ requests' = requests /\ responses' = responses

Moves(w) ==
    /\ worker[w].at # "gone"
    /\ \E u \in WorkerState :
          /\ worker' = [worker EXCEPT ![w] = u] /\ Coherent(u)
          /\ Takes(w, u) \/ Answers(w, u) \/ Works(w, u) \/ Leaves(w, u)

LEMMA StepFacts ==
    ASSUME NEW at \in Stage
    PROVE  /\ Step(at) \in WorkerState
           /\ Step(at).at = at /\ Step(at).request = "refresh" /\ Step(at).complete = FALSE
           /\ Coherent(Step(at)) /\ ~TellsOff(Step(at).reply)
<1>1. Rejected(NoSnapshot) \in Response
    BY DEF Rejected, Response
<1>2. /\ Proper(Rejected(NoSnapshot)) /\ Rejected(NoSnapshot).complete = FALSE
      /\ ~TellsOff(Rejected(NoSnapshot))
    BY DEF Rejected, Proper, TellsOff
<1> DEFINE r == Rejected(NoSnapshot)
<1>3. Step(at) = [at |-> at, request |-> "refresh", complete |-> FALSE, reply |-> r]
    BY DEF Step
<1> HIDE DEF r
<1>4. Step(at) \in WorkerState
    BY <1>1, <1>3 DEF WorkerState, Reason, Request, r
<1>5. /\ Step(at).at = at /\ Step(at).request = "refresh" /\ Step(at).complete = FALSE
      /\ Step(at).reply = r
    BY <1>3
<1>6. Proper(r) /\ r.complete = FALSE /\ ~TellsOff(r)
    BY <1>2 DEF r
<1>7. Coherent(Step(at))
    BY <1>5, <1>6 DEF Coherent
<1> QED BY <1>4, <1>5, <1>6, <1>7

LEMMA UpdateFacts ==
    /\ Update \in WorkerState /\ Update.at = "fetch" /\ Update.complete = FALSE /\ Coherent(Update)
<1> DEFINE s == Step("fetch")
           u == [s EXCEPT !.request = "update"]
<1>1. /\ s \in WorkerState /\ s.at = "fetch" /\ s.complete = FALSE
    BY StepFacts DEF Stage
<1>2. Update = u
    BY DEF Update
<1> HIDE DEF s
<1>3. /\ u \in WorkerState /\ u.at = "fetch" /\ u.complete = FALSE /\ u.request = "update"
    BY <1>1 DEF WorkerState, Reason
<1> QED BY <1>2, <1>3 DEF Coherent

LEMMA RepliesType ==
    ASSUME daemon' \in DaemonState,
           daemon \in DaemonState
    PROVE  /\ State \in Response /\ Rejected(Now) \in Response /\ Report \in Response
           /\ Rejected(NoSnapshot) \in Response
           /\ Proper(State) /\ Proper(Rejected(Now)) /\ Proper(Report) /\ Proper(Rejected(NoSnapshot))
           /\ State.kind # "diagnostics" /\ Rejected(Now).kind # "diagnostics"
           /\ Rejected(NoSnapshot).kind # "diagnostics"
           /\ TellsOff(State) => ~daemon'.active
           /\ TellsOff(Rejected(Now)) => ~daemon'.active
           /\ ~TellsOff(Report) \/ ~daemon'.active
           /\ ~TellsOff(Rejected(NoSnapshot))
<1> DEFINE now == Now
<1>1. now = [active |-> daemon'.active] /\ now \in Snapshot /\ now.active = daemon'.active
    BY DEF Now, Snapshot, DaemonState
<1>2. /\ State = [kind |-> "state", snapshot |-> now, start |-> daemon'.start, complete |-> FALSE]
      /\ Rejected(Now) = [kind |-> "rejected", snapshot |-> now, start |-> FALSE, complete |-> FALSE]
      /\ Rejected(NoSnapshot) = [kind |-> "rejected", snapshot |-> NoSnapshot, start |-> FALSE,
                                 complete |-> FALSE]
      /\ Report = [kind |-> "diagnostics", snapshot |-> NoSnapshot, start |-> FALSE, complete |-> TRUE]
    BY DEF State, Rejected, Report
<1> HIDE DEF now
<1> QED BY <1>1, <1>2 DEF Response, Proper, TellsOff, DaemonState

LEMMA AnsweringFacts ==
    ASSUME NEW w \in Worker, worker \in [Worker -> WorkerState], Coherent(worker[w]),
           worker[w].at \notin {"receive", "reconnect", "serve", "gone"},
           NEW r \in Response, Answering(w, r), Proper(r),
           r.kind = "diagnostics" => worker[w].request = "diagnostics",
           TellsOff(r) => ~daemon'.active,
           requests' = requests, responses' = responses
    PROVE  Moves(w)
<1> DEFINE s == worker[w]
           q == [r EXCEPT !.complete = s.complete]
           u == [s EXCEPT !.at = "answer", !.reply = q]
<1>1. worker' = [worker EXCEPT ![w] = u]
    BY DEF Answering
<1>2. s \in WorkerState /\ s.complete \in BOOLEAN
    BY DEF WorkerState
<1>3. /\ q \in Response /\ q.complete = s.complete /\ q.kind = r.kind /\ q.snapshot = r.snapshot
    BY <1>2 DEF Response
<1>4. Proper(q) /\ (TellsOff(q) => ~daemon'.active)
    BY <1>3 DEF Proper, TellsOff, Coherent
<1> HIDE DEF q
<1>5. /\ u \in WorkerState /\ u.at = "answer" /\ u.reply = q /\ u.complete = s.complete
      /\ u.request = s.request
    BY <1>2, <1>3 DEF WorkerState, Stage
<1> HIDE DEF u
<1>6. Coherent(u)
    BY <1>3, <1>4, <1>5 DEF Coherent
<1>7. Works(w, u)
    BY <1>4, <1>5 DEF Works
<1> QED BY <1>1, <1>5, <1>6, <1>7 DEF Moves

LEMMA TakeFacts ==
    ASSUME NEW w \in Worker, worker \in [Worker -> WorkerState],
           requests \in [Worker -> Seq(Request)], Coherent(worker[w]),
           worker[w].at \in {"receive", "reconnect", "serve"},
           NEW next \in {"connect", "fetch"}, Take(w, next), responses' = responses
    PROVE  Moves(w)
<1>1. requests[w] \in Seq(Request) /\ requests[w] # <<>>
    BY DEF Take
<1>2. Head(requests[w]) \in Request
    BY <1>1
<1>3. ~worker[w].complete
    BY DEF Coherent
<1> DEFINE h == Head(requests[w])
<1>4. CASE h = "shutdown"
    <2>1. worker' = [worker EXCEPT ![w] = Step("gone")]
        BY <1>4 DEF Take
    <2>2. Takes(w, Step("gone"))
        BY <1>1, <1>3, <1>4, StepFacts DEF Takes, Take, Stage
    <2> QED BY <2>1, <2>2, StepFacts DEF Moves, Stage
<1>5. CASE h # "shutdown"
    <2> DEFINE s == Step(next)
               u == [s EXCEPT !.request = h, !.complete = TRUE]
    <2>1. worker' = [worker EXCEPT ![w] = u]
        BY <1>5 DEF Take
    <2>2. s \in WorkerState /\ s.at = next
        BY StepFacts DEF Stage
    <2> HIDE DEF s
    <2>3. u \in WorkerState /\ u.at = next /\ u.complete = TRUE
        BY <1>2, <2>2 DEF WorkerState, Reason
    <2> HIDE DEF u
    <2>4. Coherent(u)
        BY <2>3 DEF Coherent
    <2>5. Takes(w, u)
        BY <1>1, <1>3, <1>5, <2>3 DEF Takes, Take
    <2> QED BY <2>1, <2>3, <2>4, <2>5 DEF Moves
<1> QED BY <1>4, <1>5

LEMMA ClientTypes ==
    ASSUME ClientInv
    PROVE  /\ ServiceType /\ worker \in [Worker -> WorkerState]
           /\ requests \in [Worker -> Seq(Request)] /\ responses \in [Worker -> Seq(Response)]
           /\ attached \in [Worker -> BOOLEAN]
           /\ \A w \in Worker : Coherent(worker[w])
BY DEF ClientInv, ClientTypeOK, ServiceType, WorkerState, DaemonState

LEMMA CommittedType ==
    ASSUME ServiceType, NEW request, Committed(request)
    PROVE  /\ daemon' \in DaemonState
           /\ fresh' \in [Worker -> BOOLEAN] /\ signal' \in [Worker -> BOOLEAN]
<1>1. Intent(request) \in BOOLEAN
    BY DEF Intent, ServiceType, DaemonState
<1> DEFINE intent == Intent(request)
           before == daemon.start
<1>6. PICK start \in IF request = "set" THEN BOOLEAN ELSE {before} :
        daemon' = [daemon EXCEPT !.active = intent, !.start = start]
    BY DEF Committed
<1>7. before \in BOOLEAN
    BY DEF ServiceType, DaemonState
<1>8. start \in BOOLEAN
    BY <1>6, <1>7
<1> HIDE DEF intent, before
<1>2. daemon' \in DaemonState
    BY <1>1, <1>6, <1>8 DEF ServiceType, DaemonState, intent
<1>3. fresh' \in [Worker -> BOOLEAN]
    BY DEF Committed, ServiceType, Everyone
<1>4. \A w \in Worker : (signal[w] \/ Connected(w)) \in BOOLEAN
    BY DEF Connected, ServiceType
<1>5. signal' \in [Worker -> BOOLEAN]
    BY <1>4 DEF Committed, Signalled
<1> QED BY <1>2, <1>3, <1>5

LEMMA DisturbedType ==
    ASSUME ServiceType, Disturbed \/ UNCHANGED changes
    PROVE  changes' \in 0..MaxChanges
BY ChannelAssumption DEF Disturbed, ServiceType

\* What a worker answers, and what that does to the daemon, in each of the two
\* steps of execute.
LEMMA CompletedMoves ==
    ASSUME ClientInv, daemon' \in DaemonState,
           NEW w \in Worker, worker[w].at \in {"fetch", "call"},
           requests' = requests, responses' = responses, Completed(w)
    PROVE  Moves(w) /\ changes' \in 0..MaxChanges
<1>1. ServiceType /\ worker \in [Worker -> WorkerState] /\ Coherent(worker[w])
    BY ClientTypes
<1>2. changes' \in 0..MaxChanges
    BY <1>1, DisturbedType DEF Completed
<1>3. daemon \in DaemonState
    BY <1>1 DEF ServiceType
<1>4. CASE Answering(w, State)
    BY <1>1, <1>2, <1>3, <1>4, RepliesType, AnsweringFacts
<1>5. CASE Answering(w, Rejected(Now))
    BY <1>1, <1>2, <1>3, <1>5, RepliesType, AnsweringFacts
<1> QED BY <1>2, <1>4, <1>5 DEF Completed

LEMMA RecoveringMoves ==
    ASSUME ClientInv, daemon' \in DaemonState,
           NEW w \in Worker, worker[w].at \in {"fetch", "call"},
           requests' = requests, responses' = responses, Recovering(w)
    PROVE  Moves(w) /\ changes' \in 0..MaxChanges
<1>1. ServiceType /\ worker \in [Worker -> WorkerState] /\ Coherent(worker[w])
    BY ClientTypes
<1>2. changes' \in 0..MaxChanges
    BY <1>1, DisturbedType DEF Recovering
<1>3. daemon \in DaemonState
    BY <1>1 DEF ServiceType
<1>4. CASE Answering(w, Rejected(NoSnapshot))
    BY <1>1, <1>2, <1>3, <1>4, RepliesType, AnsweringFacts
<1>5. CASE Answering(w, Rejected(Now))
    BY <1>1, <1>2, <1>3, <1>5, RepliesType, AnsweringFacts
<1> QED BY <1>2, <1>4, <1>5 DEF Recovering

LEMMA WorkerMoves ==
    ASSUME ClientInv, NEW w \in Worker, WorkerStep(w)
    PROVE  Moves(w) /\ ServiceType' /\ attached' = attached
<1>0. /\ ServiceType /\ worker \in [Worker -> WorkerState]
      /\ requests \in [Worker -> Seq(Request)] /\ responses \in [Worker -> Seq(Response)]
      /\ attached \in [Worker -> BOOLEAN] /\ Coherent(worker[w])
    BY ClientTypes
<1>10. worker[w].at # "gone"
    BY DEF WorkerStep, Receive, Reconnect, Connect, Fetch, Call, Answer, ServeRequest, ServeSignal,
           ServeOwner
<1>1. CASE Receive(w)
    <2>1. ServiceType' /\ attached' = attached /\ responses' = responses
        BY <1>0, <1>1 DEF Receive, ServiceType, service
    <2>2. CASE Take(w, "connect")
        BY <1>0, <1>1, <2>1, <2>2, TakeFacts DEF Receive
    <2>3. CASE ~attached[w] /\ worker' = [worker EXCEPT ![w] = Step("gone")] /\ UNCHANGED requests
        <3>1. Leaves(w, Step("gone"))
            BY <2>1, <2>3, StepFacts DEF Leaves, Stage
        <3> QED BY <1>10, <2>1, <2>3, <3>1, StepFacts DEF Moves, Stage
    <2> QED BY <1>1, <2>2, <2>3 DEF Receive
<1>2. CASE Reconnect(w)
    <2>1. ServiceType' /\ attached' = attached /\ responses' = responses /\ requests' = requests
        BY <1>0, <1>2 DEF Reconnect, ServiceType, service, channels
    <2>2. worker[w].complete = FALSE
        BY <1>0, <1>2 DEF Reconnect, Coherent, WorkerState
    <2>3. Works(w, Step("connect"))
        BY <1>2, <2>1, <2>2, StepFacts DEF Works, Reconnect, Stage
    <2> QED BY <1>2, <2>3, <2>1, StepFacts DEF Moves, Reconnect, Stage
<1>3. CASE Connect(w)
    <2>0. blind' \in [Worker -> BOOLEAN] /\ changes' \in 0..MaxChanges
        BY <1>0, <1>3, DisturbedType DEF Connect, Refused, ServiceType
    <2>1. ServiceType' /\ attached' = attached /\ responses' = responses /\ requests' = requests
        BY <1>0, <1>3, <2>0 DEF Connect, ServiceType, channels
    <2>2. CASE worker' = [worker EXCEPT ![w].at = "fetch"]
        <3> DEFINE s == worker[w]
                   u == [s EXCEPT !.at = "fetch"]
        <3>1. worker' = [worker EXCEPT ![w] = u]
            BY <2>2
        <3>2. /\ u \in WorkerState /\ u.at = "fetch" /\ u.complete = s.complete
              /\ u.request = s.request
            BY <1>0 DEF WorkerState, Stage
        <3> HIDE DEF u
        <3>3. Coherent(u)
            BY <1>0, <3>2 DEF Coherent
        <3>4. Works(w, u)
            BY <1>3, <2>1, <3>2 DEF Works, Connect
        <3> QED BY <1>10, <2>1, <3>1, <3>2, <3>3, <3>4 DEF Moves
    <2>3. CASE Answering(w, Rejected(NoSnapshot))
        <3>1. daemon' = daemon
            BY <1>3 DEF Connect
        <3>2. /\ Rejected(NoSnapshot) \in Response /\ Proper(Rejected(NoSnapshot))
              /\ ~TellsOff(Rejected(NoSnapshot)) /\ Rejected(NoSnapshot).kind # "diagnostics"
            BY <1>0, <3>1, RepliesType DEF ServiceType
        <3> QED BY <1>0, <1>3, <2>1, <2>3, <3>2, AnsweringFacts DEF Connect
    <2> QED BY <1>3, <2>2, <2>3, <2>1 DEF Connect
<1>4. CASE Fetch(w)
    <2>0. /\ attached' = attached /\ responses' = responses /\ requests' = requests
          /\ owner' = owner /\ worker[w].at = "fetch"
          /\ blind' = [blind EXCEPT ![w] = @ /\ worker[w].request = "diagnostics"]
        BY <1>4 DEF Fetch, channels
    <2>1. blind' \in [Worker -> BOOLEAN]
        BY <1>0, <2>0 DEF ServiceType
    <2>2. CASE /\ worker[w].request = "diagnostics" /\ UNCHANGED <<service, changes>>
               /\ Answering(w, Report)
        <3>1. ServiceType'
            BY <1>0, <2>0, <2>1, <2>2 DEF ServiceType, service
        <3>2. Report \in Response
            BY <1>0, <3>1, RepliesType DEF ServiceType
        <3>3. ~TellsOff(Report) /\ Proper(Report)
            BY DEF TellsOff, Report, Proper
        <3> QED BY <1>0, <2>0, <2>2, <3>1, <3>2, <3>3, AnsweringFacts
    <2>3. CASE UNCHANGED service /\ Completed(w)
        <3>1. daemon' \in DaemonState
            BY <1>0, <2>3 DEF ServiceType, service
        <3>2. Moves(w) /\ changes' \in 0..MaxChanges
            BY <2>0, <2>3, <3>1, CompletedMoves
        <3> QED BY <1>0, <2>0, <2>1, <2>3, <3>2 DEF ServiceType, service
    <2>4. CASE /\ worker[w].request \in Mutation
               /\ fresh' = [fresh EXCEPT ![w] = TRUE]
               /\ worker' = [worker EXCEPT ![w].at = "call"]
               /\ UNCHANGED <<daemon, signal, changes>>
        <3> DEFINE s == worker[w]
                   u == [s EXCEPT !.at = "call"]
        <3>1. worker' = [worker EXCEPT ![w] = u]
            BY <2>4
        <3>2. /\ u \in WorkerState /\ u.at = "call" /\ u.complete = s.complete
              /\ u.request = s.request
            BY <1>0 DEF WorkerState, Stage
        <3> HIDE DEF u
        <3>3. Coherent(u)
            BY <1>0, <3>2 DEF Coherent
        <3>4. Works(w, u)
            BY <2>0, <3>2 DEF Works
        <3>5. ServiceType'
            BY <1>0, <2>0, <2>1, <2>4 DEF ServiceType
        <3> QED BY <2>0, <3>1, <3>2, <3>3, <3>4, <3>5 DEF Moves
    <2>5. CASE Answering(w, Rejected(NoSnapshot)) /\ UNCHANGED <<service, changes>>
        <3>1. ServiceType'
            BY <1>0, <2>0, <2>1, <2>5 DEF ServiceType, service
        <3>2. /\ Rejected(NoSnapshot) \in Response /\ Proper(Rejected(NoSnapshot))
              /\ ~TellsOff(Rejected(NoSnapshot)) /\ Rejected(NoSnapshot).kind # "diagnostics"
            BY <1>0, <3>1, RepliesType DEF ServiceType
        <3> QED BY <1>0, <2>0, <2>5, <3>1, <3>2, AnsweringFacts
    <2> QED BY <1>4, <2>2, <2>3, <2>4, <2>5 DEF Fetch
<1>5. CASE Call(w)
    <2>0. /\ attached' = attached /\ responses' = responses /\ requests' = requests
          /\ owner' = owner /\ worker[w].at = "call" /\ blind' = blind
        BY <1>5 DEF Call, channels
    <2>1. CASE Committed(worker[w].request) /\ Completed(w)
        <3>2. /\ daemon' \in DaemonState
              /\ fresh' \in [Worker -> BOOLEAN] /\ signal' \in [Worker -> BOOLEAN]
            BY <1>0, <2>1, CommittedType
        <3>3. Moves(w) /\ changes' \in 0..MaxChanges
            BY <2>0, <2>1, <3>2, CompletedMoves
        <3> QED BY <1>0, <2>0, <3>2, <3>3 DEF ServiceType
    <2>2. CASE /\ UNCHANGED <<daemon, signal>>
               /\ fresh' = [fresh EXCEPT ![w] = FALSE]
               /\ IF daemon.up /\ fresh[w] THEN Disturbed /\ Answering(w, Rejected(Now))
                  ELSE Recovering(w)
        <3>1. daemon' \in DaemonState
            BY <1>0, <2>2 DEF ServiceType
        <3>2. Moves(w) /\ changes' \in 0..MaxChanges
            <4>1. CASE Disturbed /\ Answering(w, Rejected(Now))
                BY <2>0, <3>1, <4>1, CompletedMoves DEF Completed
            <4>2. CASE Recovering(w)
                BY <2>0, <3>1, <4>2, RecoveringMoves
            <4> QED BY <2>2, <4>1, <4>2
        <3> QED BY <1>0, <2>0, <2>2, <3>2 DEF ServiceType
    <2> QED BY <1>5, <2>1, <2>2 DEF Call
<1>6. CASE Answer(w)
    <2>1. ServiceType' /\ attached' = attached /\ requests' = requests
        BY <1>0, <1>6 DEF Answer, ServiceType, service
    <2>2. CASE /\ attached[w] /\ Len(responses[w]) < ResponseCapacity
               /\ responses' = [responses EXCEPT ![w] = Append(@, worker[w].reply)]
               /\ \E at \in {"reconnect", "serve"} : worker' = [worker EXCEPT ![w] = Step(at)]
        <3>1. PICK at \in {"reconnect", "serve"} : worker' = [worker EXCEPT ![w] = Step(at)]
            BY <2>2
        <3>2. at \in Stage
            BY DEF Stage
        <3>3. Answers(w, Step(at))
            BY <1>6, <2>1, <2>2, <3>2, StepFacts DEF Answers, Answer
        <3> QED BY <1>10, <2>1, <3>1, <3>2, <3>3, StepFacts DEF Moves
    <2>3. CASE /\ ~attached[w] /\ UNCHANGED responses
               /\ \E at \in {"reconnect", "gone"} : worker' = [worker EXCEPT ![w] = Step(at)]
        <3>1. PICK at \in {"reconnect", "gone"} : worker' = [worker EXCEPT ![w] = Step(at)]
            BY <2>3
        <3>2. at \in Stage
            BY DEF Stage
        <3>3. Leaves(w, Step(at))
            BY <2>1, <2>3, <3>2, StepFacts DEF Leaves
        <3> QED BY <1>10, <2>1, <3>1, <3>2, <3>3, StepFacts DEF Moves
    <2> QED BY <1>6, <2>2, <2>3 DEF Answer
<1>7. CASE ServeRequest(w)
    <2>1. ServiceType' /\ attached' = attached /\ responses' = responses
        BY <1>0, <1>7 DEF ServeRequest, ServiceType, service
    <2> QED BY <1>0, <1>7, <2>1, TakeFacts DEF ServeRequest
<1>8. CASE ServeSignal(w)
    <2>1. ServiceType' /\ attached' = attached /\ responses' = responses /\ requests' = requests
        BY <1>0, <1>8 DEF ServeSignal, ServiceType, channels
    <2>2. worker[w].complete = FALSE
        BY <1>0, <1>8 DEF ServeSignal, Coherent, WorkerState
    <2>3. Works(w, Update)
        BY <1>8, <2>1, <2>2, UpdateFacts DEF Works, ServeSignal
    <2> QED BY <1>8, <2>3, <2>1, UpdateFacts DEF Moves, ServeSignal
<1>9. CASE ServeOwner(w)
    <2>1. ServiceType' /\ attached' = attached /\ responses' = responses /\ requests' = requests
        BY <1>0, <1>9 DEF ServeOwner, ServiceType, service, channels
    <2>2. worker[w].complete = FALSE /\ worker[w].at = "serve"
        BY <1>0, <1>9 DEF ServeOwner, Coherent, WorkerState
    <2>3. CASE worker' = [worker EXCEPT ![w] = Update]
        <3>1. Works(w, Update)
            BY <2>1, <2>2, UpdateFacts DEF Works
        <3> QED BY <1>10, <2>1, <2>3, <3>1, UpdateFacts DEF Moves
    <2>4. CASE worker' = [worker EXCEPT ![w] = Step("answer")]
        <3>1. Works(w, Step("answer"))
            BY <2>1, <2>2, StepFacts DEF Works, Stage
        <3> QED BY <1>10, <2>1, <2>4, <3>1, StepFacts DEF Moves, Stage
    <2> QED BY <1>9, <2>3, <2>4 DEF ServeOwner
<1> QED BY <1>1, <1>2, <1>3, <1>4, <1>5, <1>6, <1>7, <1>8, <1>9 DEF WorkerStep

LEMMA MovesKeep ==
    ASSUME ClientInv, NEW w \in Worker, Moves(w), ServiceType', attached' = attached
    PROVE  ClientInv'
<1>0. /\ worker \in [Worker -> WorkerState]
      /\ requests \in [Worker -> Seq(Request)] /\ responses \in [Worker -> Seq(Response)]
      /\ attached \in [Worker -> BOOLEAN]
      /\ \A v \in Worker : Coherent(worker[v])
      /\ \A v \in Worker : \A i \in 1 .. Len(responses[v]) : Proper(responses[v][i])
      /\ \A v \in Worker : Len(requests[v]) <= RequestCapacity /\ Len(responses[v]) <= ResponseCapacity
    BY ClientTypes DEF ClientInv, ClientTypeOK
<1>1. PICK u \in WorkerState :
        /\ worker' = [worker EXCEPT ![w] = u] /\ Coherent(u)
        /\ Takes(w, u) \/ Answers(w, u) \/ Works(w, u) \/ Leaves(w, u)
    BY DEF Moves
<1>2. worker' \in [Worker -> WorkerState] /\ \A v \in Worker : Coherent(worker'[v])
    BY <1>0, <1>1
<1>3. CASE requests' = requests /\ responses' = responses
    BY <1>0, <1>2, <1>3 DEF ClientInv, ClientTypeOK, ServiceType, WorkerState, DaemonState
<1>4. CASE Takes(w, u)
    <2>1. /\ requests[w] # <<>> /\ requests' = [requests EXCEPT ![w] = Tail(requests[w])]
          /\ responses' = responses
        BY <1>4 DEF Takes
    <2>2. Tail(requests[w]) \in Seq(Request) /\ Len(Tail(requests[w])) <= RequestCapacity
        BY <1>0, <2>1, ChannelAssumption
    <2>3. /\ requests' \in [Worker -> Seq(Request)]
          /\ \A v \in Worker : Len(requests'[v]) <= RequestCapacity
        BY <1>0, <2>1, <2>2
    <2> QED BY <1>0, <1>2, <2>1, <2>3 DEF ClientInv, ClientTypeOK, ServiceType, WorkerState, DaemonState
<1>5. CASE Answers(w, u)
    <2> DEFINE r == worker[w].reply
               line == Append(responses[w], r)
    <2>1. /\ requests' = requests /\ responses' = [responses EXCEPT ![w] = line]
          /\ worker[w].at = "answer" /\ Len(responses[w]) < ResponseCapacity
        BY <1>5 DEF Answers
    <2>2. r \in Response /\ Proper(r)
        BY <1>0, <2>1 DEF WorkerState, Coherent
    <2>3. /\ line \in Seq(Response) /\ Len(line) <= ResponseCapacity
          /\ \A i \in 1 .. Len(line) : Proper(line[i])
        <3> DEFINE before == responses[w]
        <3>1. /\ before \in Seq(Response) /\ Len(before) < ResponseCapacity
              /\ \A i \in 1 .. Len(before) : Proper(before[i])
            BY <1>0, <2>1
        <3>2. r \in Response /\ Proper(r) /\ line = Append(before, r)
            BY <2>2
        <3> HIDE DEF before, r, line
        <3>3. line \in Seq(Response) /\ Len(line) = Len(before) + 1
            BY <3>1, <3>2
        <3>4. \A i \in 1 .. Len(line) : Proper(line[i])
            BY <3>1, <3>2
        <3> QED BY <3>1, <3>3, <3>4, ChannelAssumption
    <2> HIDE DEF line
    <2>4. /\ responses' \in [Worker -> Seq(Response)]
          /\ \A v \in Worker : Len(responses'[v]) <= ResponseCapacity
        BY <1>0, <2>1, <2>3
    <2>5. \A v \in Worker : \A i \in 1 .. Len(responses'[v]) : Proper(responses'[v][i])
        BY <1>0, <2>1, <2>3
    <2> QED BY <1>0, <1>2, <2>1, <2>4, <2>5 DEF ClientInv, ClientTypeOK, ServiceType, WorkerState, DaemonState
<1> QED BY <1>1, <1>3, <1>4, <1>5 DEF Works, Leaves

LEMMA OthersKeep ==
    ASSUME ClientInv, Change \/ Restart
    PROVE  ClientInv' /\ channels' = channels /\ worker' = worker
<1>0. ServiceType
    BY ClientTypes
<1>1. channels' = channels /\ worker' = worker
    BY DEF Change, Restart, working
<1>2. ServiceType'
    <2>1. CASE Change
        <3>1. changes' \in 0..MaxChanges /\ blind' = blind
            BY <1>0, <2>1, DisturbedType DEF Change, working
        <3>2. CASE (\E request \in Mutation : Committed(request)) /\ UNCHANGED owner
            BY <1>0, <3>1, <3>2, CommittedType DEF ServiceType
        <3>3. CASE /\ daemon' = [daemon EXCEPT !.up = FALSE]
                   /\ owner' = [w \in Worker |-> IF Connected(w) THEN "lost" ELSE owner[w]]
                   /\ UNCHANGED <<fresh, signal>>
            BY <1>0, <3>1, <3>3 DEF ServiceType, DaemonState
        <3>4. CASE daemon' = [daemon EXCEPT !.meters = ~@] /\ UNCHANGED <<fresh, signal, owner>>
            BY <1>0, <3>1, <3>4 DEF ServiceType, DaemonState
        <3> QED BY <2>1, <3>2, <3>3, <3>4 DEF Change
    <2>2. CASE Restart
        <3>1. daemon' \in DaemonState
            BY <1>0, <2>2 DEF Restart, ServiceType, DaemonState
        <3>2. fresh' \in [Worker -> BOOLEAN]
            BY <1>0, <2>2 DEF Restart, ServiceType, Everyone
        <3>3. owner' \in [Worker -> {"same", "new", "lost"}]
            BY <1>0, <2>2 DEF Restart, ServiceType
        <3> QED BY <1>0, <2>2, <3>1, <3>2, <3>3 DEF Restart, ServiceType, working
    <2> QED BY <2>1, <2>2
<1> QED BY <1>1, <1>2 DEF ClientInv, ClientTypeOK, ServiceType, DaemonState, channels

\* A channel that another end writes to or reads from.
LEMMA ChannelsKeep ==
    ASSUME ClientInv, service' = service, owner' = owner, working' = working, changes' = changes,
           attached' \in [Worker -> BOOLEAN],
           requests' \in [Worker -> Seq(Request)], responses' \in [Worker -> Seq(Response)],
           \A v \in Worker : Len(requests'[v]) <= RequestCapacity,
           \A v \in Worker : Len(responses'[v]) <= ResponseCapacity,
           \A v \in Worker : \A i \in 1 .. Len(responses'[v]) : Proper(responses'[v][i])
    PROVE  ClientInv'
BY DEF ClientInv, ClientTypeOK, service, working

LEMMA SendingFacts ==
    ASSUME ClientInv, NEW w \in Worker, NEW request \in Request, Len(requests[w]) < RequestCapacity,
           requests' = [requests EXCEPT ![w] = Append(@, request)]
    PROVE  /\ requests' \in [Worker -> Seq(Request)]
           /\ \A v \in Worker : Len(requests'[v]) <= RequestCapacity
           /\ Len(requests'[w]) = Len(requests[w]) + 1
           /\ \A v \in Worker \ {w} : requests'[v] = requests[v]
<1>1. requests \in [Worker -> Seq(Request)] /\ \A v \in Worker : Len(requests[v]) <= RequestCapacity
    BY DEF ClientInv, ClientTypeOK
<1> DEFINE line == Append(requests[w], request)
<1>2. line \in Seq(Request) /\ Len(line) <= RequestCapacity /\ Len(line) = Len(requests[w]) + 1
    BY <1>1, ChannelAssumption
<1> HIDE DEF line
<1>3. requests' = [requests EXCEPT ![w] = line]
    BY DEF line
<1> QED BY <1>1, <1>2, <1>3

LEMMA ReceivingFacts ==
    ASSUME ClientInv, NEW w \in Worker, responses[w] # <<>>,
           responses' = [responses EXCEPT ![w] = Tail(@)]
    PROVE  /\ responses' \in [Worker -> Seq(Response)]
           /\ \A v \in Worker : Len(responses'[v]) <= ResponseCapacity
           /\ \A v \in Worker : \A i \in 1 .. Len(responses'[v]) : Proper(responses'[v][i])
           /\ Head(responses[w]) \in Response /\ Proper(Head(responses[w]))
           /\ Head(responses[w]) = responses[w][1]
           /\ responses'[w] = Tail(responses[w])
           /\ \A v \in Worker \ {w} : responses'[v] = responses[v]
<1>1. /\ responses \in [Worker -> Seq(Response)]
      /\ \A v \in Worker : Len(responses[v]) <= ResponseCapacity
      /\ \A v \in Worker : \A i \in 1 .. Len(responses[v]) : Proper(responses[v][i])
    BY DEF ClientInv, ClientTypeOK
<1> DEFINE line == Tail(responses[w])
<1>2. /\ line \in Seq(Response) /\ Len(line) <= ResponseCapacity
      /\ \A i \in 1 .. Len(line) : Proper(line[i])
      /\ Head(responses[w]) = responses[w][1] /\ 1 \in 1 .. Len(responses[w])
    BY <1>1, ChannelAssumption
<1> HIDE DEF line
<1>3. responses' = [responses EXCEPT ![w] = line]
    BY DEF line
<1>4. Head(responses[w]) \in Response /\ Proper(Head(responses[w]))
    BY <1>1, <1>2
<1>5. \A v \in Worker : \A i \in 1 .. Len(responses'[v]) : Proper(responses'[v][i])
    BY <1>1, <1>2, <1>3
<1> QED BY <1>1, <1>2, <1>3, <1>4, <1>5 DEF line

-----------------------------------------------------------------------------
(***************************************************************************)
(* The types of the desktop's state.                                       *)
(***************************************************************************)
ViewState ==
    [status : {"never", "unused", "open", "closed"}, snapshot : Snapshot \cup {NoSnapshot},
     outstanding : Nat, pending : BOOLEAN, changing : BOOLEAN, hint : {"none", "on", "off"}]
ActionState ==
    [kind : {"none", "startup", "toggle", "stop"}, requested : BOOLEAN, attempts : 0..MaxAttempts]

BaseInv == TypeOK /\ ClientInv

LEMMA WindowIsWorker ==
    ASSUME NEW w \in Windows
    PROVE  w \in Worker /\ w # Tray
BY DEF Windows

\* The answer is counted once: off what was outstanding, if it ends a request.
LEMMA ReceivedFacts ==
    ASSUME NEW v \in ViewState, NEW r \in Response, Proper(r)
    PROVE  /\ Received(v, r) \in ViewState /\ Received(v, r).status = v.status
           /\ Received(v, r).outstanding =
                 IF r.complete /\ v.outstanding > 0 THEN v.outstanding - 1 ELSE v.outstanding
<1> DEFINE less == IF v.outstanding = 0 THEN 0 ELSE v.outstanding - 1
           shownV == [v EXCEPT !.snapshot = r.snapshot, !.hint = "none"]
<1>1. less \in Nat /\ less = IF v.outstanding > 0 THEN v.outstanding - 1 ELSE v.outstanding
    BY DEF ViewState
<1>2. shownV \in ViewState /\ shownV.status = v.status /\ shownV.outstanding = v.outstanding
    BY DEF ViewState, Response
<1> HIDE DEF shownV
<1>3. CASE r.kind \in {"state", "rejected"}
    <2>1. Received(v, r) = Completing(shownV, r.complete)
        BY <1>3 DEF Received, shownV
    <2>2. CASE r.complete
        <3>1. Completing(shownV, r.complete) = [shownV EXCEPT !.outstanding = less, !.changing = FALSE]
            BY <1>2, <2>2 DEF Completing
        <3> DEFINE q == [shownV EXCEPT !.outstanding = less, !.changing = FALSE]
        <3> HIDE DEF less
        <3>2. q \in ViewState /\ q.status = shownV.status /\ q.outstanding = less
            BY <1>1, <1>2 DEF ViewState
        <3> HIDE DEF q
        <3>3. Received(v, r) = q
            BY <2>1, <3>1 DEF q
        <3> QED BY <1>1, <1>2, <2>2, <3>2, <3>3
    <2>3. CASE ~r.complete
        <3>1. Completing(shownV, r.complete) = shownV
            BY <2>3 DEF Completing
        <3> QED BY <1>2, <2>1, <2>3, <3>1
    <2> QED BY <2>2, <2>3
<1>4. CASE r.kind = "diagnostics"
    <2>1. Received(v, r) = [v EXCEPT !.outstanding = less]
        BY <1>4 DEF Received
    <2>2. r.complete
        BY <1>4 DEF Proper
    <2> HIDE DEF less
    <2> QED BY <1>1, <2>1, <2>2 DEF ViewState
<1> QED BY <1>3, <1>4 DEF Response

LEMMA NewViewType ==
    ASSUME NEW hint \in {"none", "on", "off"}
    PROVE  /\ NewView(hint) \in ViewState /\ NewView(hint).status = "open"
           /\ NewView(hint).outstanding = 1
BY DEF NewView, ViewState

LEMMA DroppedType ==
    ASSUME NEW v \in ViewState
    PROVE  Dropped(v) \in ViewState /\ Dropped(v).status = (IF v.status = "open" THEN "closed" ELSE v.status)
<1> DEFINE st == IF v.status = "open" THEN "closed" ELSE v.status
<1>1. st \in {"never", "unused", "open", "closed"}
    BY DEF ViewState
<1>2. Dropped(v) = [v EXCEPT !.status = st, !.snapshot = NoSnapshot, !.outstanding = 0,
                             !.pending = FALSE, !.changing = FALSE, !.hint = "none"]
    BY DEF Dropped
<1> DEFINE v1 == [v EXCEPT !.status = st, !.snapshot = NoSnapshot, !.outstanding = 0]
           v2 == [v1 EXCEPT !.pending = FALSE, !.changing = FALSE, !.hint = "none"]
<1>3. Dropped(v) = v2
    BY <1>2
<1> HIDE DEF st
<1>4. v1 \in ViewState /\ v1.status = st
    BY <1>1 DEF ViewState
<1> HIDE DEF v1
<1>5. v2 \in ViewState /\ v2.status = st
    BY <1>4 DEF ViewState
<1> QED BY <1>3, <1>5 DEF st

LEMMA DroppingFacts ==
    ASSUME BaseInv, NEW ws \in SUBSET Windows, Dropping(ws),
           service' = service, owner' = owner, working' = working, changes' = changes
    PROVE  /\ ClientInv' /\ view' \in [Windows -> ViewState] /\ busy' \in BOOLEAN
           /\ requests'[Tray] = requests[Tray] /\ responses'[Tray] = responses[Tray]
           /\ attached'[Tray] = attached[Tray]
           /\ \A w \in Windows \ ws : /\ view'[w] = view[w] /\ requests'[w] = requests[w]
                                      /\ responses'[w] = responses[w] /\ attached'[w] = attached[w]
           /\ \A w \in ws : /\ responses'[w] = <<>>
                            /\ view'[w].status = (IF view[w].status = "open" THEN "closed" ELSE view[w].status)
<1>0. /\ view \in [Windows -> ViewState] /\ busy \in BOOLEAN
      /\ requests \in [Worker -> Seq(Request)] /\ responses \in [Worker -> Seq(Response)]
      /\ attached \in [Worker -> BOOLEAN]
      /\ \A v \in Worker : Len(requests[v]) <= RequestCapacity /\ Len(responses[v]) <= ResponseCapacity
      /\ \A v \in Worker : \A i \in 1 .. Len(responses[v]) : Proper(responses[v][i])
    BY ClientTypes DEF BaseInv, TypeOK, TrayTypeOK, ViewState, ClientInv, ClientTypeOK
<1>1. /\ view' = [w \in Windows |-> IF w \in ws THEN Dropped(view[w]) ELSE view[w]]
      /\ busy' \in BOOLEAN
      /\ requests' = [w \in Worker |-> IF w \in ws /\ Fits(w) THEN Append(requests[w], "shutdown")
                                       ELSE requests[w]]
      /\ responses' = [w \in Worker |-> IF w \in ws THEN <<>> ELSE responses[w]]
      /\ attached' = [w \in Worker |-> attached[w] /\ w \notin ws]
    BY <1>0 DEF Dropping
<1>2. view' \in [Windows -> ViewState]
    BY <1>0, <1>1, DroppedType
<1>3. \A w \in ws : view'[w].status = (IF view[w].status = "open" THEN "closed" ELSE view[w].status)
    BY <1>0, <1>1, DroppedType
<1>4. Tray \in Worker /\ Tray \notin ws /\ \A w \in ws : w \in Worker
    BY TrayAssumption, CommandsAssumption DEF Windows
<1>5. ASSUME NEW w \in Worker
      PROVE  requests'[w] \in Seq(Request) /\ Len(requests'[w]) <= RequestCapacity
    <2>1. CASE w \in ws /\ Fits(w)
        <3>1. requests'[w] = Append(requests[w], "shutdown") /\ Len(requests[w]) < RequestCapacity
            BY <1>1, <2>1 DEF Fits
        <3>2. requests[w] \in Seq(Request) /\ "shutdown" \in Request
            BY <1>0 DEF Request
        <3> QED BY <3>1, <3>2, ChannelAssumption
    <2>2. CASE ~(w \in ws /\ Fits(w))
        BY <1>0, <1>1, <2>2
    <2> QED BY <2>1, <2>2
<1>6. \A w \in Worker : /\ responses'[w] \in Seq(Response) /\ Len(responses'[w]) <= ResponseCapacity
                        /\ \A i \in 1 .. Len(responses'[w]) : Proper(responses'[w][i])
    BY <1>0, <1>1, ChannelAssumption
<1>7. attached' \in [Worker -> BOOLEAN]
    BY <1>0, <1>1
<1>8. requests' \in [Worker -> Seq(Request)] /\ responses' \in [Worker -> Seq(Response)]
    BY <1>1, <1>5, <1>6
<1>9. ClientInv'
    BY <1>5, <1>6, <1>7, <1>8, ChannelsKeep DEF BaseInv
<1>10. /\ requests'[Tray] = requests[Tray] /\ responses'[Tray] = responses[Tray]
       /\ attached'[Tray] = attached[Tray]
    BY <1>0, <1>1, <1>4
<1>11. \A w \in Windows \ ws : /\ view'[w] = view[w] /\ requests'[w] = requests[w]
                               /\ responses'[w] = responses[w] /\ attached'[w] = attached[w]
    BY <1>0, <1>1, WindowIsWorker
<1> QED BY <1>1, <1>2, <1>3, <1>4, <1>9, <1>10, <1>11

LEMMA BaseParts ==
    ASSUME ClientInv', view' \in [Windows -> ViewState],
           app' \in {"running", "stopping", "confirmed", "unconfirmed"},
           clicks' \in 0..MaxClicks, inactive' \in BOOLEAN, TrayTypeOK'
    PROVE  BaseInv'
BY DEF BaseInv, TypeOK, ViewState, ClientInv

LEMMA BaseTypes ==
    ASSUME BaseInv
    PROVE  /\ ClientInv /\ TrayTypeOK /\ view \in [Windows -> ViewState]
           /\ app \in {"running", "stopping", "confirmed", "unconfirmed"}
           /\ clicks \in 0..MaxClicks /\ inactive \in BOOLEAN
           /\ pending \in ActionState /\ Tray \in Worker
           /\ requests \in [Worker -> Seq(Request)] /\ responses \in [Worker -> Seq(Response)]
           /\ attached \in [Worker -> BOOLEAN] /\ worker \in [Worker -> WorkerState]
BY ClientTypes, TrayAssumption, CommandsAssumption DEF BaseInv, TypeOK, ViewState, TrayTypeOK, ActionState

LEMMA ActionType ==
    ASSUME NEW kind \in {"none", "startup", "toggle", "stop"}, NEW n \in 0..MaxAttempts
    PROVE  Action(kind, n) \in ActionState /\ Action(kind, n).kind = kind
BY DEF Action, ActionState

\* The controller writes to its own worker's channels only.
Apart ==
    \A w \in Windows : /\ requests'[w] = requests[w] /\ responses'[w] = responses[w]
                       /\ attached'[w] = attached[w] /\ worker'[w] = worker[w]

LEMMA SendApart ==
    ASSUME ClientInv, NEW request \in Request, Send(request)
    PROVE  /\ requests' \in [Worker -> Seq(Request)]
           /\ \A v \in Worker : Len(requests'[v]) <= RequestCapacity
           /\ Len(requests'[Tray]) = Len(requests[Tray]) + 1
           /\ \A w \in Windows : requests'[w] = requests[w]
BY SendingFacts, TrayAssumption, CommandsAssumption DEF Send, Windows

LEMMA TakeCommandBase ==
    ASSUME BaseInv, TakeCommand, UNCHANGED appvars
    PROVE  BaseInv' /\ Apart
<1>0. /\ ClientInv /\ TrayTypeOK /\ view \in [Windows -> ViewState] /\ pending \in ActionState
      /\ requests \in [Worker -> Seq(Request)] /\ responses \in [Worker -> Seq(Response)]
      /\ attached \in [Worker -> BOOLEAN]
    BY BaseTypes
<1>1. /\ service' = service /\ owner' = owner /\ responses' = responses /\ attached' = attached
      /\ working' = working /\ changes' = changes /\ worker' = worker
      /\ commands # <<>> /\ commands' = Tail(commands)
      /\ busy' = busy /\ shown' = shown /\ controller' = controller /\ stopped' = stopped
      /\ crossed' = crossed
    BY DEF TakeCommand, working
<1>2. commands' \in Seq({"toggle", "stop"}) /\ Len(commands') <= Commands
    BY <1>0, <1>1, TrayAssumption, CommandsAssumption DEF TrayTypeOK
<1>3. /\ requests' \in [Worker -> Seq(Request)]
      /\ \A v \in Worker : Len(requests'[v]) <= RequestCapacity
      /\ \A w \in Windows : requests'[w] = requests[w]
      /\ pending' \in ActionState /\ queued_stop' \in BOOLEAN
    <2>1. CASE /\ Send(IF shown THEN "stop" ELSE "start") /\ pending' = Action("toggle", 0)
               /\ UNCHANGED queued_stop
        <3> DEFINE request == IF shown THEN "stop" ELSE "start"
        <3>1. request \in Request
            BY DEF Request, Mutation
        <3>2. Send(request)
            BY <2>1
        <3> HIDE DEF request
        <3>3. /\ requests' \in [Worker -> Seq(Request)]
              /\ \A v \in Worker : Len(requests'[v]) <= RequestCapacity
              /\ \A w \in Windows : requests'[w] = requests[w]
            BY <1>0, <3>1, <3>2, SendApart
        <3>4. pending' \in ActionState
            BY <2>1, ActionType DEF MaxAttempts
        <3> QED BY <1>0, <2>1, <3>3, <3>4 DEF TrayTypeOK
    <2>2. CASE requests' = requests /\ pending' = pending /\ queued_stop' \in {queued_stop, TRUE}
        <3>1. \A v \in Worker : Len(requests[v]) <= RequestCapacity
            BY <1>0 DEF ClientInv, ClientTypeOK
        <3> QED BY <1>0, <2>2, <3>1 DEF TrayTypeOK
    <2> QED BY <2>1, <2>2 DEF TakeCommand
<1>4. ClientInv'
    <2>1. /\ \A v \in Worker : Len(responses'[v]) <= ResponseCapacity
          /\ \A v \in Worker : \A i \in 1 .. Len(responses'[v]) : Proper(responses'[v][i])
        BY <1>0, <1>1 DEF ClientInv, ClientTypeOK
    <2> QED BY <1>0, <1>1, <1>3, <2>1, ChannelsKeep
<1>5. TrayTypeOK'
    BY <1>0, <1>1, <1>2, <1>3 DEF TrayTypeOK, ActionState
<1>6. BaseInv'
    BY <1>0, <1>4, <1>5, BaseParts, BaseTypes DEF appvars
<1> QED BY <1>1, <1>3, <1>6 DEF Apart

LEMMA LaunchStopBase ==
    ASSUME BaseInv, LaunchStop, UNCHANGED appvars
    PROVE  BaseInv' /\ Apart
<1>0. /\ ClientInv /\ TrayTypeOK /\ view \in [Windows -> ViewState]
      /\ requests \in [Worker -> Seq(Request)] /\ responses \in [Worker -> Seq(Response)]
      /\ attached \in [Worker -> BOOLEAN]
    BY BaseTypes
<1>1. /\ service' = service /\ owner' = owner /\ responses' = responses /\ attached' = attached
      /\ working' = working /\ changes' = changes /\ worker' = worker
      /\ Send("stop") /\ pending' = Action("stop", 1) /\ queued_stop' = FALSE /\ busy' = TRUE
      /\ shown' = shown /\ commands' = commands /\ controller' = controller /\ stopped' = stopped
      /\ crossed' = crossed
    BY DEF LaunchStop, working
<1>2. /\ requests' \in [Worker -> Seq(Request)]
      /\ \A v \in Worker : Len(requests'[v]) <= RequestCapacity
      /\ \A w \in Windows : requests'[w] = requests[w]
    BY <1>0, <1>1, SendApart DEF Request, Mutation
<1>3. pending' \in ActionState
    BY <1>1, ActionType DEF MaxAttempts
<1>4. ClientInv'
    <2>1. /\ \A v \in Worker : Len(responses'[v]) <= ResponseCapacity
          /\ \A v \in Worker : \A i \in 1 .. Len(responses'[v]) : Proper(responses'[v][i])
        BY <1>0, <1>1 DEF ClientInv, ClientTypeOK
    <2> QED BY <1>0, <1>1, <1>2, <2>1, ChannelsKeep
<1>5. TrayTypeOK'
    BY <1>0, <1>1, <1>3 DEF TrayTypeOK, ActionState
<1>6. BaseInv'
    BY <1>0, <1>4, <1>5, BaseParts, BaseTypes DEF appvars
<1> QED BY <1>1, <1>2, <1>6 DEF Apart

\* What an answer can do to the controller's side.
Handles ==
    /\ shown' \in BOOLEAN /\ busy' \in BOOLEAN /\ stopped' \in Reply /\ controller' \in BOOLEAN
    /\ crossed' \in BOOLEAN /\ pending' \in ActionState
    /\ attached' \in [Worker -> BOOLEAN]
    /\ requests' \in [Worker -> Seq(Request)]
    /\ \A v \in Worker : Len(requests'[v]) <= RequestCapacity
    /\ \A w \in Windows : requests'[w] = requests[w] /\ attached'[w] = attached[w]

LEMMA FinishHandles ==
    ASSUME BaseInv, NEW succeeded \in BOOLEAN, NEW active \in BOOLEAN, Finish(succeeded, active),
           shown' \in BOOLEAN, crossed' \in BOOLEAN
    PROVE  Handles
<1>0. /\ ClientInv /\ TrayTypeOK /\ requests \in [Worker -> Seq(Request)]
      /\ attached \in [Worker -> BOOLEAN] /\ Tray \in Worker
      /\ \A v \in Worker : Len(requests[v]) <= RequestCapacity
    BY BaseTypes DEF ClientInv, ClientTypeOK
<1>1. pending' = Nothing /\ busy' = FALSE /\ pending' \in ActionState
    BY ActionType DEF Finish, Nothing, MaxAttempts
<1>2. CASE pending.kind = "stop"
    <2>1. /\ stopped' = Answered(succeeded /\ ~active) /\ controller' = FALSE
          /\ Send("shutdown") /\ attached' = [attached EXCEPT ![Tray] = FALSE]
        BY <1>2 DEF Finish
    <2>2. stopped' \in Reply
        BY <2>1 DEF Answered, Reply
    <2>3. attached' \in [Worker -> BOOLEAN] /\ \A w \in Windows : attached'[w] = attached[w]
        BY <1>0, <2>1, WindowIsWorker
    <2>4. /\ requests' \in [Worker -> Seq(Request)]
          /\ \A v \in Worker : Len(requests'[v]) <= RequestCapacity
          /\ \A w \in Windows : requests'[w] = requests[w]
        BY <1>0, <2>1, SendApart DEF Request
    <2> QED BY <1>1, <2>1, <2>2, <2>3, <2>4 DEF Handles
<1>3. CASE pending.kind # "stop"
    <2>1. UNCHANGED <<stopped, controller, requests, attached>>
        BY <1>3 DEF Finish
    <2> QED BY <1>0, <1>1, <2>1 DEF Handles, TrayTypeOK
<1> QED BY <1>2, <1>3

LEMMA HandleBase ==
    ASSUME BaseInv, Handle, UNCHANGED appvars
    PROVE  BaseInv' /\ Apart
<1> DEFINE r == Head(responses[Tray])
<1>0. /\ ClientInv /\ TrayTypeOK /\ view \in [Windows -> ViewState] /\ Tray \in Worker
      /\ pending \in ActionState
      /\ requests \in [Worker -> Seq(Request)] /\ responses \in [Worker -> Seq(Response)]
      /\ attached \in [Worker -> BOOLEAN]
      /\ \A v \in Worker : Len(requests[v]) <= RequestCapacity
    BY BaseTypes DEF ClientInv, ClientTypeOK
<1>1. /\ service' = service /\ owner' = owner /\ working' = working /\ changes' = changes
      /\ worker' = worker /\ commands' = commands /\ queued_stop' = queued_stop
      /\ responses[Tray] # <<>> /\ responses' = [responses EXCEPT ![Tray] = Tail(@)]
      /\ HandleState(r) \/ HandleRejected(r)
    BY DEF Handle, working
<1>2. /\ responses' \in [Worker -> Seq(Response)]
      /\ \A v \in Worker : Len(responses'[v]) <= ResponseCapacity
      /\ \A v \in Worker : \A i \in 1 .. Len(responses'[v]) : Proper(responses'[v][i])
      /\ r \in Response /\ Proper(r)
      /\ \A w \in Windows : responses'[w] = responses[w]
    BY <1>0, <1>1, ReceivingFacts, WindowIsWorker
<1> HIDE DEF r
<1>3. r.snapshot # NoSnapshot => r.snapshot.active \in BOOLEAN
    BY <1>2 DEF Response, Snapshot
<1>4. Handles
    <2>1. CASE HandleState(r)
        <3>1. r.kind = "state" /\ shown' = r.snapshot.active /\ shown' \in BOOLEAN
            BY <1>2, <1>3, <2>1 DEF HandleState, Proper, Snapshot
        <3>2. CASE /\ Send("start") /\ pending' = [pending EXCEPT !.requested = TRUE]
                   /\ UNCHANGED <<busy, stopped, controller, attached, crossed>>
            <4>1. pending' \in ActionState
                BY <1>0, <3>2 DEF ActionState
            <4>2. /\ requests' \in [Worker -> Seq(Request)]
                  /\ \A v \in Worker : Len(requests'[v]) <= RequestCapacity
                  /\ \A w \in Windows : requests'[w] = requests[w]
                BY <1>0, <3>2, SendApart DEF Request, Mutation
            <4> QED BY <1>0, <3>1, <3>2, <4>1, <4>2 DEF Handles, TrayTypeOK
        <3>3. CASE UNCHANGED <<busy, stopped, controller, requests, attached, pending, crossed>>
            BY <1>0, <3>1, <3>3 DEF Handles, TrayTypeOK
        <3>4. CASE /\ Finish(TRUE, r.snapshot.active)
                   /\ crossed' = (crossed \/ (pending.requested /\ ~r.complete))
            <4>1. crossed' \in BOOLEAN
                BY <1>0, <3>4 DEF TrayTypeOK, ActionState
            <4>2. r.snapshot.active \in BOOLEAN
                BY <3>1
            <4> QED BY <3>1, <3>4, <4>1, <4>2, FinishHandles
        <3> QED BY <2>1, <3>2, <3>3, <3>4 DEF HandleState
    <2>2. CASE HandleRejected(r)
        <3> DEFINE authoritative == r.snapshot # NoSnapshot
                   active == authoritative /\ r.snapshot.active
        <3>1. /\ crossed' = crossed /\ shown' = IF authoritative THEN active ELSE shown
              /\ \/ UNCHANGED <<busy, stopped, controller, requests, attached, pending>>
                 \/ /\ MayRetryStop(authoritative, active) /\ Send("stop")
                    /\ pending' = [pending EXCEPT !.attempts = @ + 1]
                    /\ UNCHANGED <<busy, stopped, controller, attached>>
                 \/ Finish(authoritative, active)
            BY <2>2 DEF HandleRejected
        <3>2. authoritative \in BOOLEAN /\ active \in BOOLEAN
            BY <1>3
        <3> HIDE DEF authoritative, active
        <3>3. shown' \in BOOLEAN /\ crossed' \in BOOLEAN
            BY <1>0, <3>1, <3>2 DEF TrayTypeOK
        <3>4. CASE UNCHANGED <<busy, stopped, controller, requests, attached, pending>>
            BY <1>0, <3>3, <3>4 DEF Handles, TrayTypeOK
        <3>5. CASE /\ MayRetryStop(authoritative, active) /\ Send("stop")
                   /\ pending' = [pending EXCEPT !.attempts = @ + 1]
                   /\ UNCHANGED <<busy, stopped, controller, attached>>
            <4>1. pending.attempts + 1 \in 0..MaxAttempts
                BY <1>0, <3>5 DEF MayRetryStop, ActionState, MaxAttempts
            <4>2. pending' \in ActionState
                BY <1>0, <3>5, <4>1 DEF ActionState
            <4>3. /\ requests' \in [Worker -> Seq(Request)]
                  /\ \A v \in Worker : Len(requests'[v]) <= RequestCapacity
                  /\ \A w \in Windows : requests'[w] = requests[w]
                BY <1>0, <3>5, SendApart DEF Request, Mutation
            <4> QED BY <1>0, <3>3, <3>5, <4>2, <4>3 DEF Handles, TrayTypeOK
        <3>6. CASE Finish(authoritative, active)
            BY <3>2, <3>3, <3>6, FinishHandles
        <3> QED BY <3>1, <3>4, <3>5, <3>6
    <2> QED BY <1>1, <2>1, <2>2
<1>5. ClientInv'
    BY <1>0, <1>1, <1>2, <1>4, ChannelsKeep DEF Handles
<1>6. TrayTypeOK'
    BY <1>0, <1>1, <1>4 DEF TrayTypeOK, ActionState, Handles
<1>7. BaseInv'
    BY <1>0, <1>5, <1>6, BaseParts, BaseTypes DEF appvars
<1> QED BY <1>1, <1>2, <1>4, <1>7 DEF Apart, Handles

-----------------------------------------------------------------------------
(***************************************************************************)
(* The windows.                                                            *)
(***************************************************************************)
Owed(w) == IF worker[w].complete THEN 1 ELSE 0

\* An open window's worker lives, was not told to end, and has what the window
\* believes outstanding; nothing moves yet behind a window not opened.
WindowOk(w) ==
    /\ IsOpen(w) =>
          /\ attached[w] /\ worker[w].at # "gone"
          /\ \A i \in 1 .. Len(requests[w]) : requests[w][i] # "shutdown"
          /\ view[w].outstanding = Len(requests[w]) + Completions(responses[w]) + Owed(w)
    /\ view[w].status \in {"never", "unused"} => responses[w] = <<>> /\ worker[w].at = "gone"

WindowInv == \A w \in Windows : WindowOk(w)

LEMMA SameWindow ==
    ASSUME NEW w \in Windows, WindowOk(w), view'[w] = view[w], requests'[w] = requests[w],
           responses'[w] = responses[w], attached'[w] = attached[w], worker'[w] = worker[w]
    PROVE  WindowOk(w)'
BY DEF WindowOk, IsOpen, Owed

LEMMA MovesWindow ==
    ASSUME BaseInv, WindowInv, NEW w \in Worker, Moves(w), view' = view, attached' = attached
    PROVE  WindowInv'
<1>0. /\ ClientInv /\ worker \in [Worker -> WorkerState]
      /\ requests \in [Worker -> Seq(Request)] /\ responses \in [Worker -> Seq(Response)]
      /\ view \in [Windows -> ViewState]
    BY BaseTypes
<1>1. PICK u \in WorkerState :
          /\ worker' = [worker EXCEPT ![w] = u] /\ Coherent(u)
          /\ Takes(w, u) \/ Answers(w, u) \/ Works(w, u) \/ Leaves(w, u)
    BY DEF Moves
<1>2. ASSUME NEW v \in Windows, v # w
      PROVE  WindowOk(v)'
    <2>1. v \in Worker
        BY WindowIsWorker
    <2>2. worker'[v] = worker[v]
        BY <1>0, <1>1, <1>2, <2>1
    <2>3. requests'[v] = requests[v] /\ responses'[v] = responses[v]
        BY <1>0, <1>1, <1>2, <2>1 DEF Takes, Answers, Works, Leaves
    <2> QED BY <2>2, <2>3, SameWindow DEF WindowInv
<1>3. ASSUME w \in Windows
      PROVE  WindowOk(w)'
    <2>1. WindowOk(w) /\ worker'[w] = u /\ worker[w].at # "gone"
        BY <1>0, <1>1, <1>3 DEF WindowInv, Moves
    <2>2. view[w].status \notin {"never", "unused"}
        BY <2>1 DEF WindowOk
    <2>3. CASE IsOpen(w)
        <3> DEFINE line == requests[w]
                   answers == responses[w]
        <3>0. /\ line \in Seq(Request) /\ answers \in Seq(Response) /\ attached[w]
              /\ \A i \in 1 .. Len(line) : line[i] # "shutdown"
              /\ view[w].outstanding = Len(line) + Completions(answers) + Owed(w)
              /\ Completions(answers) \in Nat
            BY <1>0, <2>1, <2>3, EndingFinite DEF WindowOk
        <3>1. CASE Takes(w, u)
            <4>1. /\ line # <<>> /\ ~worker[w].complete /\ requests'[w] = Tail(line)
                  /\ responses'[w] = answers
                BY <1>0, <3>1 DEF Takes
            <4>2. Head(line) # "shutdown"
                BY <3>0, <4>1
            <4>3. u.complete /\ u.at # "gone"
                BY <3>1, <4>2 DEF Takes
            <4>4. Len(Tail(line)) = Len(line) - 1 /\ Len(line) \in Nat
                BY <3>0, <4>1
            <4>5. \A i \in 1 .. Len(Tail(line)) : Tail(line)[i] # "shutdown"
                BY <3>0, <4>1
            <4>6. Owed(w) = 0 /\ Owed(w)' = 1
                BY <2>1, <4>1, <4>3 DEF Owed
            <4>7. view[w].outstanding = Len(Tail(line)) + Completions(answers) + 1
                BY <3>0, <4>4, <4>6
            <4> QED BY <2>1, <2>2, <2>3, <3>0, <4>1, <4>3, <4>5, <4>6, <4>7 DEF WindowOk, IsOpen
        <3>2. CASE Answers(w, u)
            <4> DEFINE r == worker[w].reply
            <4>1. /\ worker[w].at = "answer" /\ responses'[w] = Append(answers, r)
                  /\ requests'[w] = line /\ ~u.complete /\ u.at # "gone"
                BY <1>0, <3>2 DEF Answers
            <4>2. r \in Response /\ r.complete = worker[w].complete
                BY <1>0, <4>1, ClientTypes DEF WorkerState, Coherent
            <4>3. Completions(Append(answers, r)) = Completions(answers) + Owed(w)
                BY <3>0, <4>2, OneMoreEnds DEF Owed
            <4>4. Owed(w)' = 0 /\ Owed(w) \in Nat
                BY <2>1, <4>1 DEF Owed
            <4> HIDE DEF r
            <4>5. view[w].outstanding = Len(line) + Completions(Append(answers, r)) + 0
                BY <3>0, <4>3, <4>4
            <4> QED BY <2>1, <2>2, <2>3, <3>0, <4>1, <4>4, <4>5 DEF WindowOk, IsOpen
        <3>3. CASE Works(w, u)
            <4>1. /\ requests'[w] = line /\ responses'[w] = answers /\ u.complete = worker[w].complete
                  /\ u.at # "gone"
                BY <3>3 DEF Works
            <4>2. Owed(w)' = Owed(w)
                BY <2>1, <4>1 DEF Owed
            <4> QED BY <2>1, <2>2, <2>3, <3>0, <4>1, <4>2 DEF WindowOk, IsOpen
        <3>4. CASE Leaves(w, u)
            BY <3>0, <3>4 DEF Leaves
        <3> QED BY <1>1, <3>1, <3>2, <3>3, <3>4
    <2>4. CASE ~IsOpen(w)
        BY <2>2, <2>4 DEF WindowOk, IsOpen
    <2> QED BY <2>3, <2>4
<1> QED BY <1>2, <1>3 DEF WindowInv

LEMMA ApartWindow ==
    ASSUME WindowInv, Apart, view' = view
    PROVE  WindowInv'
BY SameWindow DEF WindowInv, Apart

\* A request is sent, and counted.
LEMMA SentWindow ==
    ASSUME BaseInv, WindowInv, NEW w \in Windows, IsOpen(w),
           NEW request \in Request \ {"shutdown"}, Fits(w), Sending(w, request),
           NEW v \in ViewState, view' = [view EXCEPT ![w] = v],
           v.status = "open", v.outstanding = view[w].outstanding + 1,
           responses' = responses, attached' = attached, worker' = worker
    PROVE  WindowInv'
<1>0. /\ ClientInv /\ requests \in [Worker -> Seq(Request)] /\ responses \in [Worker -> Seq(Response)]
      /\ view \in [Windows -> ViewState] /\ w \in Worker
    BY BaseTypes, WindowIsWorker
<1> DEFINE line == requests[w]
           longer == Append(line, request)
<1>1. requests' = [requests EXCEPT ![w] = longer] /\ line \in Seq(Request)
    BY <1>0 DEF Sending
<1>2. /\ longer \in Seq(Request) /\ Len(longer) = Len(line) + 1 /\ Len(line) \in Nat
      /\ \A i \in 1 .. Len(line) : longer[i] = line[i]
      /\ longer[Len(line) + 1] = request
    BY <1>1
<1>3. /\ WindowOk(w) /\ attached[w] /\ worker[w].at # "gone"
      /\ \A i \in 1 .. Len(line) : line[i] # "shutdown"
      /\ view[w].outstanding = Len(line) + Completions(responses[w]) + Owed(w)
    BY DEF WindowInv, WindowOk
<1> HIDE DEF longer
<1>4. \A i \in 1 .. Len(longer) : longer[i] # "shutdown"
    <2> SUFFICES ASSUME NEW i \in 1 .. Len(longer) PROVE longer[i] # "shutdown"
        OBVIOUS
    <2>1. i \in 1 .. Len(line) \/ i = Len(line) + 1
        BY <1>2
    <2> QED BY <1>2, <1>3, <2>1
<1>5. requests'[w] = longer /\ view'[w] = v /\ Owed(w)' = Owed(w) /\ Owed(w) \in Nat
    BY <1>0, <1>1 DEF Owed
<1>6. v.outstanding = Len(longer) + Completions(responses[w]) + Owed(w)
    <2>1. Completions(responses[w]) \in Nat
        BY <1>0, EndingFinite
    <2> QED BY <1>2, <1>3, <1>5, <2>1
<1>7. WindowOk(w)'
    BY <1>3, <1>4, <1>5, <1>6 DEF WindowOk, IsOpen
<1>8. ASSUME NEW x \in Windows, x # w
      PROVE  WindowOk(x)'
    <2>1. view'[x] = view[x] /\ requests'[x] = requests[x]
        BY <1>0, <1>1, <1>8, WindowIsWorker
    <2> QED BY <2>1, SameWindow DEF WindowInv
<1> QED BY <1>7, <1>8 DEF WindowInv

LEMMA InitWindows == Init => BaseInv /\ WindowInv
<1> SUFFICES ASSUME Init PROVE BaseInv /\ WindowInv
    OBVIOUS
<1>0. Tray \in Worker /\ controller \in BOOLEAN
    BY TrayAssumption, CommandsAssumption DEF Init, TrayInit
<1> DEFINE first == IF controller THEN <<"refresh">> ELSE <<>>
<1>1. first \in Seq(Request) /\ Len(first) <= RequestCapacity
    <2>1. <<"refresh">> \in Seq(Request) /\ Len(<<"refresh">>) = 1
        BY DEF Request
    <2>2. <<>> \in Seq(Request) /\ Len(<<>>) = 0
        OBVIOUS
    <2>3. CASE controller
        BY <2>1, <2>3, ChannelAssumption
    <2>4. CASE ~controller
        BY <2>2, <2>4, ChannelAssumption
    <2> QED BY <2>3, <2>4
<1>2. requests = [[w \in Worker |-> <<>>] EXCEPT ![Tray] = first]
    BY DEF Init, Everyone
<1> HIDE DEF first
<1>3. /\ requests \in [Worker -> Seq(Request)]
      /\ \A w \in Worker : Len(requests[w]) <= RequestCapacity
    <2>1. <<>> \in Seq(Request) /\ Len(<<>>) <= RequestCapacity
        BY ChannelAssumption
    <2> QED BY <1>0, <1>1, <1>2, <2>1
<1>4. /\ responses = [w \in Worker |-> <<>>] /\ responses \in [Worker -> Seq(Response)]
      /\ \A w \in Worker : Len(responses[w]) <= ResponseCapacity
      /\ \A w \in Worker : \A i \in 1 .. Len(responses[w]) : Proper(responses[w][i])
    BY ChannelAssumption DEF Init, Everyone
<1>5. attached = [w \in Worker |-> w = Tray /\ controller] /\ attached \in [Worker -> BOOLEAN]
    BY <1>0 DEF Init
<1>6. \A w \in Worker : worker[w] \in WorkerState /\ Coherent(worker[w])
    BY <1>5, StepFacts DEF Init, Stage
<1>7. worker \in [Worker -> WorkerState]
    BY <1>6 DEF Init
<1>8. ServiceType
    BY DEF Init, ServiceType, Everyone, DaemonState
<1>9. ClientInv
    BY <1>3, <1>4, <1>5, <1>6, <1>7, <1>8 DEF ClientInv, ClientTypeOK, ServiceType, WorkerState, DaemonState
<1>10. TrayTypeOK
    <2>1. pending \in ActionState
        BY ActionType DEF Init, TrayInit, Nothing, MaxAttempts
    <2>2. commands \in Seq({"toggle", "stop"}) /\ Len(commands) <= Commands
        BY TrayAssumption, CommandsAssumption DEF Init, TrayInit
    <2> QED BY <2>1, <2>2 DEF Init, TrayInit, TrayTypeOK, ActionState, Reply
<1>11. \A w \in Windows : view[w] \in ViewState /\ view[w].status \in {"never", "unused"}
    <2> DEFINE nv == NewView("none")
               Views == {[nv EXCEPT !.status = status, !.outstanding = 0] : status \in {"unused", "never"}}
    <2>1. nv \in ViewState
        BY NewViewType
    <2>2. view \in [Windows -> Views]
        BY DEF Init
    <2> HIDE DEF nv
    <2>3. ASSUME NEW status \in {"unused", "never"}
          PROVE  LET v == [nv EXCEPT !.status = status, !.outstanding = 0]
                 IN v \in ViewState /\ v.status \in {"never", "unused"}
        BY <2>1 DEF ViewState
    <2>4. ASSUME NEW w \in Windows
          PROVE  view[w] \in ViewState /\ view[w].status \in {"never", "unused"}
        <3>1. PICK status \in {"unused", "never"} :
                view[w] = [nv EXCEPT !.status = status, !.outstanding = 0]
            BY <2>2
        <3> QED BY <2>3, <3>1
    <2> QED BY <2>4
<1>12. view \in [Windows -> ViewState]
    BY <1>11 DEF Init
<1>13. BaseInv
    BY <1>9, <1>10, <1>12 DEF BaseInv, TypeOK, ClientInv, ViewState, Init
<1>14. ASSUME NEW w \in Windows
       PROVE  WindowOk(w)
    <2>1. w \in Worker /\ w # Tray
        BY WindowIsWorker
    <2>2. worker[w].at = "gone"
        BY <1>5, <2>1, StepFacts DEF Init, Stage
    <2> QED BY <1>4, <1>11, <2>1, <2>2 DEF WindowOk, IsOpen
<1> QED BY <1>13, <1>14 DEF WindowInv

LEMMA ClicksStay ==
    ASSUME BaseInv, Click
    PROVE  clicks' \in 0..MaxClicks
BY ClickAssumption DEF BaseInv, TypeOK, Click

LEMMA OpenKeeps ==
    ASSUME BaseInv, WindowInv, NEW w \in Windows, OpenWindow(w)
    PROVE  BaseInv' /\ WindowInv'
<1>0. /\ ClientInv /\ TrayTypeOK /\ view \in [Windows -> ViewState] /\ w \in Worker
      /\ requests \in [Worker -> Seq(Request)] /\ responses \in [Worker -> Seq(Response)]
      /\ attached \in [Worker -> BOOLEAN] /\ worker \in [Worker -> WorkerState]
      /\ \A v \in Worker : Len(requests[v]) <= RequestCapacity /\ Len(responses[v]) <= ResponseCapacity
      /\ \A v \in Worker : \A i \in 1 .. Len(responses[v]) : Proper(responses[v][i])
      /\ \A v \in Worker : Coherent(worker[v])
    BY BaseTypes, WindowIsWorker DEF ClientInv, ClientTypeOK
<1> DEFINE hint == IF shown THEN "on" ELSE "off"
           first == <<"refresh">>
<1>1. /\ view[w].status = "unused" /\ view' = [view EXCEPT ![w] = NewView(hint)]
      /\ requests' = [requests EXCEPT ![w] = first] /\ attached' = [attached EXCEPT ![w] = TRUE]
      /\ worker' = [worker EXCEPT ![w] = Step("receive")]
      /\ service' = service /\ blind' = blind /\ owner' = owner /\ responses' = responses
      /\ changes' = changes /\ trayvars' = trayvars /\ app' = app /\ clicks' = clicks
      /\ inactive' = inactive
    BY DEF OpenWindow
<1>2. hint \in {"none", "on", "off"} /\ first \in Seq(Request) /\ Len(first) = 1
      /\ first[1] = "refresh" /\ 1 <= RequestCapacity
    BY ChannelAssumption DEF Request
<1> HIDE DEF hint, first
<1> DEFINE nv == NewView(hint)
           st == Step("receive")
<1>3. nv \in ViewState /\ nv.status = "open" /\ nv.outstanding = 1
    BY <1>2, NewViewType
<1>4. st \in WorkerState /\ st.at = "receive" /\ st.complete = FALSE /\ Coherent(st)
    BY StepFacts DEF Stage
<1> HIDE DEF nv, st
<1>5. ClientInv'
    <2>1. /\ requests' \in [Worker -> Seq(Request)]
          /\ \A v \in Worker : Len(requests'[v]) <= RequestCapacity
        BY <1>0, <1>1, <1>2
    <2>2. /\ worker' \in [Worker -> WorkerState] /\ attached' \in [Worker -> BOOLEAN]
          /\ \A v \in Worker : Coherent(worker'[v])
        BY <1>0, <1>1, <1>4 DEF st
    <2> QED BY <1>0, <1>1, <2>1, <2>2 DEF ClientInv, ClientTypeOK, service, WorkerState
<1>6. view' \in [Windows -> ViewState]
    BY <1>0, <1>1, <1>3 DEF nv
<1>7. TrayTypeOK'
    BY <1>0, <1>1 DEF TrayTypeOK, trayvars
<1>8. BaseInv'
    BY <1>1, <1>5, <1>6, <1>7, BaseParts, BaseTypes
<1>9. WindowOk(w)'
    <2>1. responses[w] = <<>>
        BY <1>1 DEF WindowInv, WindowOk
    <2>2. /\ view'[w] = nv /\ requests'[w] = first /\ attached'[w] = TRUE /\ worker'[w] = st
          /\ responses'[w] = <<>>
        BY <1>0, <1>1, <2>1 DEF nv, st
    <2>3. Owed(w)' = 0
        BY <1>4, <2>2 DEF Owed
    <2>7. \A i \in 1 .. Len(first) : first[i] # "shutdown"
        BY <1>2
    <2>8. nv.outstanding = Len(first) + Completions(<<>>) + 0
        BY <1>2, <1>3, NoneEnds
    <2>4. \A i \in 1 .. Len(requests'[w]) : requests'[w][i] # "shutdown"
        BY <2>2, <2>7
    <2>5. view'[w].outstanding = Len(requests'[w]) + Completions(responses'[w]) + Owed(w)'
        BY <2>2, <2>3, <2>8
    <2>6. view'[w].status = "open" /\ attached'[w] /\ worker'[w].at # "gone"
        BY <1>3, <1>4, <2>2
    <2> QED BY <2>4, <2>5, <2>6 DEF WindowOk, IsOpen
<1>10. ASSUME NEW v \in Windows, v # w
       PROVE  WindowOk(v)'
    BY <1>0, <1>1, <1>10, WindowIsWorker, SameWindow DEF WindowInv
<1> QED BY <1>8, <1>9, <1>10 DEF WindowInv

LEMMA SendKeeps ==
    ASSUME BaseInv, WindowInv, NEW w \in Windows, NEW request \in Request \ {"shutdown"},
           Click, IsOpen(w), Fits(w), Sending(w, request),
           NEW v \in ViewState, view' = [view EXCEPT ![w] = v],
           v.status = "open", v.outstanding = view[w].outstanding + 1,
           UNCHANGED <<service, owner, responses, attached, working, changes, app, inactive>>,
           TrayTypeOK'
    PROVE  BaseInv' /\ WindowInv'
<1>0. /\ ClientInv /\ view \in [Windows -> ViewState] /\ w \in Worker
      /\ responses \in [Worker -> Seq(Response)] /\ attached \in [Worker -> BOOLEAN]
      /\ \A x \in Worker : Len(responses[x]) <= ResponseCapacity
      /\ \A x \in Worker : \A i \in 1 .. Len(responses[x]) : Proper(responses[x][i])
    BY BaseTypes, WindowIsWorker DEF ClientInv, ClientTypeOK
<1>1. /\ requests' \in [Worker -> Seq(Request)]
      /\ \A x \in Worker : Len(requests'[x]) <= RequestCapacity
    BY <1>0, SendingFacts DEF Sending, Fits
<1>2. ClientInv'
    BY <1>0, <1>1, ChannelsKeep
<1>3. view' \in [Windows -> ViewState]
    BY <1>0
<1>4. BaseInv'
    BY <1>2, <1>3, BaseParts, BaseTypes, ClicksStay
<1>5. WindowInv'
    BY SentWindow DEF working
<1> QED BY <1>4, <1>5

LEMMA BeginKeeps ==
    ASSUME BaseInv, WindowInv, NEW w \in Windows, BeginActiveChange(w)
    PROVE  BaseInv' /\ WindowInv'
<1> DEFINE s == view[w]
           n == s.outstanding + 1
           v == [s EXCEPT !.outstanding = n, !.pending = TRUE, !.changing = TRUE]
           request == IF DisplayActive(w) THEN "stop" ELSE "start"
<1>0. s \in ViewState /\ TrayTypeOK
    BY BaseTypes
<1>1. view' = [view EXCEPT ![w] = v]
    BY DEF BeginActiveChange
<1>2. IsOpen(w) /\ s.status = "open" /\ Click /\ Fits(w) /\ Sending(w, request)
    BY DEF BeginActiveChange, IsOpen
<1>3. request \in Request \ {"shutdown"}
    BY DEF Request, Mutation
<1> HIDE DEF request
<1>7. n \in Nat
    BY <1>0 DEF ViewState
<1> HIDE DEF n, s
<1>4. v \in ViewState /\ v.status = "open" /\ v.outstanding = n
    BY <1>0, <1>2, <1>7 DEF ViewState
<1> HIDE DEF v
<1>5. /\ UNCHANGED <<service, owner, responses, attached, working, changes, app, inactive>>
      /\ UNCHANGED <<shown, commands, pending, queued_stop, controller, stopped, crossed>>
      /\ busy' = TRUE
    BY DEF BeginActiveChange
<1>6. TrayTypeOK'
    BY <1>0, <1>5 DEF TrayTypeOK
<1> QED BY <1>1, <1>2, <1>3, <1>4, <1>5, <1>6, SendKeeps DEF n, s

LEMMA OtherKeeps ==
    ASSUME BaseInv, WindowInv, NEW w \in Windows, NEW request \in {"set", "diagnostics"},
           ClickOther(w, request)
    PROVE  BaseInv' /\ WindowInv'
<1> DEFINE s == view[w]
           p == s.pending \/ request # "diagnostics"
           n == s.outstanding + 1
           v == [s EXCEPT !.outstanding = n, !.pending = p]
<1>0. s \in ViewState /\ TrayTypeOK /\ p \in BOOLEAN
    BY BaseTypes DEF ViewState
<1>1. view' = [view EXCEPT ![w] = v]
    BY DEF ClickOther
<1>2. IsOpen(w) /\ s.status = "open" /\ Click /\ Fits(w) /\ Sending(w, request)
    BY DEF ClickOther, IsOpen
<1>3. request \in Request \ {"shutdown"}
    BY DEF Request, Mutation
<1>7. n \in Nat
    BY <1>0 DEF ViewState
<1> HIDE DEF n, p, s
<1>4. v \in ViewState /\ v.status = "open" /\ v.outstanding = n
    BY <1>0, <1>2, <1>7 DEF ViewState
<1> HIDE DEF v
<1>5. UNCHANGED <<service, owner, responses, attached, working, changes, trayvars, app, inactive>>
    BY DEF ClickOther
<1>6. TrayTypeOK'
    BY <1>0, <1>5 DEF TrayTypeOK, trayvars
<1> QED BY <1>1, <1>2, <1>3, <1>4, <1>5, <1>6, SendKeeps DEF n, s

LEMMA DrainKeeps ==
    ASSUME BaseInv, WindowInv, NEW w \in Windows, DrainResponse(w)
    PROVE  BaseInv' /\ WindowInv'
<1> DEFINE r == Head(responses[w])
           s == view[w]
           v == Received(s, r)
           n == [v EXCEPT !.pending = v.outstanding > 0]
<1>0. /\ ClientInv /\ TrayTypeOK /\ view \in [Windows -> ViewState] /\ w \in Worker
      /\ requests \in [Worker -> Seq(Request)] /\ responses \in [Worker -> Seq(Response)]
      /\ attached \in [Worker -> BOOLEAN]
      /\ \A x \in Worker : Len(requests[x]) <= RequestCapacity
    BY BaseTypes, WindowIsWorker DEF ClientInv, ClientTypeOK
<1>1. /\ IsOpen(w) /\ responses[w] # <<>> /\ view' = [view EXCEPT ![w] = n]
      /\ busy' = (busy /\ ~(view[w].changing /\ ~v.changing))
      /\ crossed' = (crossed \/ (view[w].changing /\ ~v.changing /\ InFlight(w) > 0))
      /\ shown' = IF r.kind = "diagnostics" THEN shown
                  ELSE r.snapshot # NoSnapshot /\ r.snapshot.active
      /\ responses' = [responses EXCEPT ![w] = Tail(@)]
      /\ service' = service /\ owner' = owner /\ requests' = requests /\ attached' = attached
      /\ working' = working /\ worker' = worker /\ changes' = changes /\ app' = app
      /\ clicks' = clicks /\ inactive' = inactive
      /\ commands' = commands /\ pending' = pending /\ queued_stop' = queued_stop
      /\ controller' = controller /\ stopped' = stopped
    BY DEF DrainResponse, working
<1>2. /\ responses' \in [Worker -> Seq(Response)]
      /\ \A x \in Worker : Len(responses'[x]) <= ResponseCapacity
      /\ \A x \in Worker : \A i \in 1 .. Len(responses'[x]) : Proper(responses'[x][i])
      /\ r \in Response /\ Proper(r) /\ responses'[w] = Tail(responses[w])
      /\ \A x \in Worker \ {w} : responses'[x] = responses[x]
    BY <1>0, <1>1, ReceivingFacts
<1>3. Completions(responses[w]) = Completions(responses'[w]) + (IF r.complete THEN 1 ELSE 0)
    BY <1>0, <1>1, <1>2, OneLessEnds
<1>4. Completions(responses'[w]) \in Nat /\ Completions(responses[w]) \in Nat
    BY <1>0, <1>2, EndingFinite
<1>5. /\ s \in ViewState /\ s.status = "open" /\ v \in ViewState /\ v.status = s.status
      /\ v.outstanding = IF r.complete /\ s.outstanding > 0 THEN s.outstanding - 1 ELSE s.outstanding
    BY <1>0, <1>1, <1>2, ReceivedFacts DEF IsOpen
<1> HIDE DEF r, v
<1>6. n \in ViewState /\ n.status = "open" /\ n.outstanding = v.outstanding
    <2> DEFINE p == v.outstanding > 0
    <2>1. p \in BOOLEAN /\ n = [v EXCEPT !.pending = p]
        OBVIOUS
    <2> HIDE DEF p, n
    <2> QED BY <1>5, <2>1 DEF ViewState
<1> HIDE DEF n
<1>7. ClientInv'
    BY <1>0, <1>1, <1>2, ChannelsKeep
<1>8. view' \in [Windows -> ViewState] /\ view'[w] = n
    BY <1>0, <1>1, <1>6
<1>9. TrayTypeOK'
    <2>1. busy' \in BOOLEAN
        BY <1>0, <1>1 DEF TrayTypeOK
    <2>2. crossed' \in BOOLEAN
        <3> DEFINE more == view[w].changing /\ ~v.changing /\ InFlight(w) > 0
        <3>1. more \in BOOLEAN /\ crossed' = (crossed \/ more)
            BY <1>1
        <3> HIDE DEF more
        <3> QED BY <1>0, <3>1 DEF TrayTypeOK
    <2>3. shown' \in BOOLEAN
        BY <1>0, <1>1, <1>2 DEF TrayTypeOK, Response, Snapshot
    <2> QED BY <1>0, <1>1, <2>1, <2>2, <2>3 DEF TrayTypeOK
<1>10. BaseInv'
    BY <1>1, <1>7, <1>8, <1>9, BaseParts, BaseTypes
<1>11. WindowOk(w)'
    <2>1. /\ attached[w] /\ worker[w].at # "gone"
          /\ \A i \in 1 .. Len(requests[w]) : requests[w][i] # "shutdown"
          /\ s.outstanding = Len(requests[w]) + Completions(responses[w]) + Owed(w)
        BY <1>1 DEF WindowInv, WindowOk
    <2>2. Owed(w)' = Owed(w) /\ Owed(w) \in Nat /\ Len(requests[w]) \in Nat
        BY <1>0, <1>1 DEF Owed
    <2>3. n.outstanding = Len(requests[w]) + Completions(responses'[w]) + Owed(w)
        <3> DEFINE a == Completions(responses[w])
                   b == Completions(responses'[w])
                   l == Len(requests[w])
                   o == Owed(w)
        <3>1. a \in Nat /\ b \in Nat /\ l \in Nat /\ o \in Nat /\ s.outstanding = l + a + o
            BY <1>4, <2>1, <2>2
        <3>2. a = b + (IF r.complete THEN 1 ELSE 0)
            BY <1>3
        <3>3. n.outstanding = IF r.complete /\ s.outstanding > 0 THEN s.outstanding - 1 ELSE s.outstanding
            BY <1>5, <1>6
        <3> HIDE DEF a, b, l, o, s
        <3>4. CASE r.complete
            BY <3>1, <3>2, <3>3, <3>4 DEF b, l, o
        <3>5. CASE ~r.complete
            BY <3>1, <3>2, <3>3, <3>5 DEF b, l, o
        <3> QED BY <3>4, <3>5
    <2> QED BY <1>1, <1>6, <1>8, <2>1, <2>2, <2>3 DEF WindowOk, IsOpen
<1>12. ASSUME NEW x \in Windows, x # w
       PROVE  WindowOk(x)'
    BY <1>0, <1>1, <1>2, <1>12, WindowIsWorker, SameWindow DEF WindowInv
<1> QED BY <1>10, <1>11, <1>12 DEF WindowInv

LEMMA PollKeeps ==
    ASSUME BaseInv, WindowInv, NEW w \in Windows, Poll(w)
    PROVE  BaseInv' /\ WindowInv'
<1> DEFINE s == view[w]
           p == ~s.pending
           v == [s EXCEPT !.pending = p]
<1>0. /\ ClientInv /\ TrayTypeOK /\ view \in [Windows -> ViewState] /\ s \in ViewState
    BY BaseTypes
<1>1. /\ view' = [view EXCEPT ![w] = v] /\ clientvars' = clientvars /\ trayvars' = trayvars
      /\ app' = app /\ clicks' = clicks /\ inactive' = inactive
    BY DEF Poll
<1>2. p \in BOOLEAN
    OBVIOUS
<1> HIDE DEF p, s
<1>3. v \in ViewState /\ v.status = s.status /\ v.outstanding = s.outstanding
    BY <1>0, <1>2 DEF ViewState
<1> HIDE DEF v
<1>4. view' \in [Windows -> ViewState] /\ view'[w] = v
    BY <1>0, <1>1, <1>3
<1>5. /\ requests' = requests /\ responses' = responses /\ attached' = attached /\ worker' = worker
      /\ ClientInv' /\ TrayTypeOK'
    BY <1>0, <1>1 DEF clientvars, channels, working, service, ClientInv, ClientTypeOK, trayvars, TrayTypeOK
<1>6. BaseInv'
    BY <1>1, <1>4, <1>5, BaseParts, BaseTypes
<1>7. WindowOk(w)'
    <2>1. WindowOk(w)
        BY DEF WindowInv
    <2> QED BY <1>3, <1>4, <1>5, <2>1 DEF WindowOk, IsOpen, Owed, s
<1>8. ASSUME NEW x \in Windows, x # w
      PROVE  WindowOk(x)'
    BY <1>0, <1>1, <1>5, <1>8, SameWindow DEF WindowInv
<1> QED BY <1>6, <1>7, <1>8 DEF WindowInv

LEMMA CloseKeeps ==
    ASSUME BaseInv, WindowInv, NEW ws \in SUBSET Windows, \A w \in ws : IsOpen(w), Dropping(ws),
           UNCHANGED <<service, owner, working, changes>>, clicks' \in 0..MaxClicks,
           app' \in {"running", "stopping"}, inactive' \in BOOLEAN,
           UNCHANGED <<shown, pending, queued_stop, controller, crossed>>,
           stopped' \in Reply, commands' \in Seq({"toggle", "stop"}), Len(commands') <= Commands
    PROVE  BaseInv' /\ WindowInv'
<1>0. view \in [Windows -> ViewState] /\ TrayTypeOK
    BY BaseTypes
<1>1. /\ ClientInv' /\ view' \in [Windows -> ViewState] /\ busy' \in BOOLEAN
      /\ \A w \in Windows \ ws : /\ view'[w] = view[w] /\ requests'[w] = requests[w]
                                 /\ responses'[w] = responses[w] /\ attached'[w] = attached[w]
      /\ \A w \in ws : view'[w].status = "closed"
    BY DroppingFacts DEF IsOpen
<1>2. TrayTypeOK'
    BY <1>0, <1>1 DEF TrayTypeOK
<1>3. BaseInv'
    BY <1>1, <1>2, BaseParts
<1>4. WindowInv'
    <2>1. ASSUME NEW w \in ws
          PROVE  WindowOk(w)'
        BY <1>1 DEF WindowOk, IsOpen
    <2>2. ASSUME NEW w \in Windows, w \notin ws
          PROVE  WindowOk(w)'
        BY <1>1, <2>2, SameWindow DEF WindowInv, working
    <2> QED BY <2>1, <2>2 DEF WindowInv
<1> QED BY <1>3, <1>4

\* Every step keeps the types, the workers' accounts and the windows'.
LEMMA NextWindows == BaseInv /\ WindowInv /\ [Next]_vars => BaseInv' /\ WindowInv'
<1> SUFFICES ASSUME BaseInv, WindowInv, [Next]_vars
             PROVE  BaseInv' /\ WindowInv'
    OBVIOUS
<1>0. /\ ClientInv /\ TrayTypeOK /\ view \in [Windows -> ViewState]
      /\ app \in {"running", "stopping", "confirmed", "unconfirmed"}
      /\ clicks \in 0..MaxClicks /\ inactive \in BOOLEAN
    BY BaseTypes
<1>1. ASSUME NEW w \in Windows,
             \/ OpenWindow(w) \/ BeginActiveChange(w) \/ CloseWindow(w)
             \/ \E request \in {"set", "diagnostics"} : ClickOther(w, request)
      PROVE  BaseInv' /\ WindowInv'
    <2>1. CASE CloseWindow(w)
        <3>1. IsOpen(w) /\ Dropping({w}) /\ clicks' \in 0..MaxClicks /\ app' = "running"
            BY <2>1, ClicksStay DEF CloseWindow, Click
        <3>2. /\ UNCHANGED <<service, owner, working, changes, inactive>>
              /\ UNCHANGED <<shown, commands, pending, queued_stop, controller, stopped, crossed>>
            BY <2>1 DEF CloseWindow
        <3>3. /\ commands' \in Seq({"toggle", "stop"}) /\ Len(commands') <= Commands
              /\ stopped' \in Reply
            BY <1>0, <3>2 DEF TrayTypeOK
        <3> QED BY <1>0, <3>1, <3>2, <3>3, CloseKeeps
    <2> QED BY <1>1, <2>1, OpenKeeps, BeginKeeps, OtherKeeps
<1>2. CASE TrayToggle
    <2>1. /\ clientvars' = clientvars /\ view' = view /\ app' = app /\ inactive' = inactive
          /\ clicks' \in 0..MaxClicks /\ Toggle
        BY <1>2, ClicksStay DEF TrayToggle
    <2>2. /\ requests' = requests /\ responses' = responses /\ attached' = attached /\ worker' = worker
          /\ ClientInv'
        BY <1>0, <2>1 DEF clientvars, channels, working, service, ClientInv, ClientTypeOK
    <2>3. TrayTypeOK'
        <3>1. CASE Len(commands) < Commands /\ busy' = TRUE /\ commands' = Append(commands, "toggle")
            <4>1. commands' \in Seq({"toggle", "stop"}) /\ Len(commands') <= Commands
                BY <1>0, <3>1, TrayAssumption, CommandsAssumption DEF TrayTypeOK
            <4> QED BY <1>0, <2>1, <3>1, <4>1 DEF TrayTypeOK, Toggle
        <3>2. CASE UNCHANGED <<busy, commands>>
            BY <1>0, <2>1, <3>2 DEF TrayTypeOK, Toggle
        <3> QED BY <2>1, <3>1, <3>2 DEF Toggle
    <2>4. BaseInv'
        BY <1>0, <2>1, <2>2, <2>3, BaseParts
    <2> QED BY <2>1, <2>2, <2>4, SameWindow DEF WindowInv
<1>3. CASE Quit
    <2> DEFINE ws == {w \in Windows : IsOpen(w)}
    <2>1. /\ Dropping(ws) /\ StopAndShutdown /\ app' = "stopping" /\ clicks' = clicks
          /\ UNCHANGED <<service, owner, working, changes>> /\ inactive' = ~daemon.active
        BY <1>3 DEF Quit
    <2>2. inactive' \in BOOLEAN
        BY <2>1
    <2>3. UNCHANGED <<shown, pending, queued_stop, controller, crossed>>
        BY <2>1 DEF StopAndShutdown
    <2>4. /\ stopped' \in Reply /\ commands' \in Seq({"toggle", "stop"}) /\ Len(commands') <= Commands
        <3>1. CASE Len(commands) < Commands /\ commands' = Append(commands, "stop") /\ stopped' = stopped
            BY <1>0, <3>1, TrayAssumption, CommandsAssumption DEF TrayTypeOK
        <3>2. CASE stopped' = "no" /\ commands' = commands
            BY <1>0, <3>2 DEF TrayTypeOK, Reply
        <3> QED BY <2>1, <3>1, <3>2 DEF StopAndShutdown
    <2> QED BY <1>0, <2>1, <2>2, <2>3, <2>4, CloseKeeps
<1>4. ASSUME NEW w \in Windows, DrainResponse(w) \/ Poll(w)
      PROVE  BaseInv' /\ WindowInv'
    BY <1>4, DrainKeeps, PollKeeps
<1>5. ASSUME NEW w \in Worker, Behind(WorkerStep(w))
      PROVE  BaseInv' /\ WindowInv'
    <2>1. /\ WorkerStep(w) /\ trayvars' = trayvars /\ view' = view /\ app' = app /\ clicks' = clicks
          /\ inactive' = (inactive \/ (app = "stopping" /\ ~daemon'.active))
        BY <1>5 DEF Behind, Watching
    <2>2. Moves(w) /\ ServiceType' /\ attached' = attached
        BY <1>0, <2>1, WorkerMoves
    <2>3. ClientInv'
        BY <1>0, <2>2, MovesKeep
    <2>4. inactive' \in BOOLEAN /\ TrayTypeOK'
        BY <1>0, <2>1 DEF TrayTypeOK, trayvars
    <2>5. BaseInv'
        BY <1>0, <2>1, <2>3, <2>4, BaseParts
    <2> QED BY <2>1, <2>2, <2>5, MovesWindow
<1>6. CASE Behind(Restart) \/ Behind(Change)
    <2>1. /\ Restart \/ Change
          /\ trayvars' = trayvars /\ view' = view /\ app' = app /\ clicks' = clicks
          /\ inactive' = (inactive \/ (app = "stopping" /\ ~daemon'.active))
        BY <1>6 DEF Behind, Watching
    <2>2. ClientInv' /\ channels' = channels /\ worker' = worker
        BY <1>0, <2>1, OthersKeep
    <2>3. inactive' \in BOOLEAN /\ TrayTypeOK'
        BY <1>0, <2>1 DEF TrayTypeOK, trayvars
    <2>4. BaseInv'
        BY <1>0, <2>1, <2>2, <2>3, BaseParts
    <2> QED BY <2>1, <2>2, <2>4, SameWindow DEF WindowInv, channels
<1>7. CASE Controls(ControllerStep)
    <2>1. ControllerStep /\ UNCHANGED appvars /\ view' = view
        BY <1>7 DEF Controls, appvars
    <2>2. BaseInv' /\ Apart
        BY <2>1, TakeCommandBase, LaunchStopBase, HandleBase DEF ControllerStep
    <2> QED BY <2>1, <2>2, ApartWindow
<1>8. CASE Exit
    <2>1. /\ clientvars' = clientvars /\ trayvars' = trayvars /\ view' = view /\ clicks' = clicks
          /\ inactive' = inactive /\ app' \in {"confirmed", "unconfirmed"}
        BY <1>8 DEF Exit
    <2>2. /\ requests' = requests /\ responses' = responses /\ attached' = attached /\ worker' = worker
          /\ ClientInv' /\ TrayTypeOK'
        BY <1>0, <2>1 DEF clientvars, channels, working, service, ClientInv, ClientTypeOK, trayvars, TrayTypeOK
    <2>3. BaseInv'
        BY <1>0, <2>1, <2>2, BaseParts
    <2> QED BY <2>1, <2>2, <2>3, SameWindow DEF WindowInv
<1>9. CASE UNCHANGED vars
    <2>1. /\ clientvars' = clientvars /\ trayvars' = trayvars /\ view' = view /\ clicks' = clicks
          /\ inactive' = inactive /\ app' = app
        BY <1>9 DEF vars, appvars
    <2>2. /\ requests' = requests /\ responses' = responses /\ attached' = attached /\ worker' = worker
          /\ ClientInv' /\ TrayTypeOK'
        BY <1>0, <2>1 DEF clientvars, channels, working, service, ClientInv, ClientTypeOK, trayvars, TrayTypeOK
    <2>3. BaseInv'
        BY <1>0, <2>1, <2>2, BaseParts
    <2> QED BY <2>1, <2>2, <2>3, SameWindow DEF WindowInv
<1> QED BY <1>1, <1>2, <1>3, <1>4, <1>5, <1>6, <1>7, <1>8, <1>9 DEF Next, User

\* Every variable of the desktop, of its workers and of the tray keeps its type.
THEOREM DesktopTypeCorrect == Spec => []TypeOK
<1>1. BaseInv => TypeOK
    BY DEF BaseInv
<1> QED BY <1>1, InitWindows, NextWindows, PTL DEF Spec

\* drain_responses counts every answer off the request it belongs to: what a
\* window believes outstanding is what its worker still owes it.
THEOREM AnswersAreMatched == Spec => []AnswersMatchRequests
<1>1. BaseInv /\ WindowInv => AnswersMatchRequests
    <2> SUFFICES ASSUME BaseInv, WindowInv, NEW w \in Windows, IsOpen(w)
                 PROVE  view[w].outstanding =
                            Len(requests[w]) + Completions(responses[w])
                            + (IF \/ worker[w].at = "answer" /\ worker[w].reply.complete
                                  \/ worker[w].at # "answer" /\ worker[w].complete THEN 1 ELSE 0)
        BY DEF AnswersMatchRequests
    <2>1. Coherent(worker[w]) /\ WindowOk(w)
        BY WindowIsWorker DEF BaseInv, ClientInv, WindowInv
    <2>2. (\/ worker[w].at = "answer" /\ worker[w].reply.complete
           \/ worker[w].at # "answer" /\ worker[w].complete) <=> worker[w].complete
        BY <2>1 DEF Coherent
    <2>3. view[w].outstanding = Len(requests[w]) + Completions(responses[w]) + Owed(w)
        BY <2>1 DEF WindowOk
    <2> QED BY <2>2, <2>3 DEF Owed
<1> QED BY <1>1, InitWindows, NextWindows, PTL DEF Spec

-----------------------------------------------------------------------------
(***************************************************************************)
(* The tray's controller and the end of the program.                       *)
(***************************************************************************)
\* What may still end the action in progress: requests that wait, the one that
\* is carried out, and answers on their way.
Waiting == Len(requests[Tray]) + Owed(Tray) + Completions(responses[Tray])

\* Until a start-up has asked for activation, the first answer is the one to
\* the refresh it began with, and not a state that nobody asked for.
AskedFirst ==
    IF responses[Tray] = <<>> THEN worker[Tray].complete \/ worker[Tray].at \in {"receive", "gone"}
    ELSE responses[Tray][1].complete

\* An answer that will confirm a stop was given after the program began to end.
StopInv ==
    /\ worker[Tray].at = "answer" /\ worker[Tray].complete /\ TellsOff(worker[Tray].reply) => inactive
    /\ \A i \in 1 .. Len(responses[Tray]) :
          responses[Tray][i].complete /\ TellsOff(responses[Tray][i]) => inactive

BeforeQuit ==
    app = "running" =>
        /\ ~queued_stop /\ pending.kind # "stop" /\ stopped # "yes"
        /\ \A i \in 1 .. Len(commands) : commands[i] # "stop"

Limit == IF pending.kind = "none" THEN 0 ELSE 1

TrayInv ==
    /\ BeforeQuit
    /\ app = "confirmed" => stopped = "yes"
    /\ stopped = "yes" /\ ~crossed => inactive
    /\ controller => attached[Tray]
    /\ controller /\ ~crossed => Waiting <= Limit
    /\ controller /\ pending.kind = "startup" /\ ~pending.requested => AskedFirst
    /\ controller /\ ~crossed /\ pending.kind = "stop" => StopInv

LEMMA InitTray == Init => TrayInv
<1> SUFFICES ASSUME Init PROVE TrayInv
    OBVIOUS
<1>0. Tray \in Worker /\ controller \in BOOLEAN
    BY TrayAssumption, CommandsAssumption DEF Init, TrayInit
<1>1. /\ app = "running" /\ queued_stop = FALSE /\ stopped = "none" /\ commands = <<>>
      /\ pending = IF controller THEN Action("startup", 0) ELSE Nothing
    BY DEF Init, TrayInit
<1>2. pending.kind = (IF controller THEN "startup" ELSE "none")
    BY <1>1 DEF Action, Nothing
<1>3. BeforeQuit
    BY <1>1, <1>2 DEF BeforeQuit
<1>4. ASSUME controller
      PROVE  attached[Tray] /\ AskedFirst /\ Waiting = 1
    <2>1. attached[Tray] /\ responses[Tray] = <<>> /\ worker[Tray] = Step("receive")
        BY <1>0, <1>4 DEF Init, Everyone
    <2>2. worker[Tray].at = "receive" /\ worker[Tray].complete = FALSE
        BY <2>1, StepFacts DEF Stage
    <2>3. requests[Tray] = <<"refresh">>
        BY <1>0, <1>4 DEF Init, Everyone
    <2>4. Len(<<"refresh">>) = 1
        OBVIOUS
    <2>5. Owed(Tray) = 0 /\ Completions(responses[Tray]) = 0 /\ Len(requests[Tray]) = 1
        BY <2>1, <2>2, <2>3, <2>4, NoneEnds DEF Owed
    <2>6. Waiting = 1
        BY <2>5 DEF Waiting
    <2> QED BY <2>1, <2>2, <2>6 DEF AskedFirst
<1> QED BY <1>1, <1>2, <1>3, <1>4 DEF TrayInv, Limit

\* A step that leaves the tray's channels and its worker alone.
LEMMA SameTray ==
    ASSUME TrayInv, requests'[Tray] = requests[Tray], responses'[Tray] = responses[Tray],
           attached'[Tray] = attached[Tray], worker'[Tray] = worker[Tray],
           UNCHANGED <<queued_stop, pending, controller>>, stopped' = stopped,
           crossed => crossed', inactive => inactive',
           app' = app, commands' = commands
    PROVE  TrayInv'
<1>1. BeforeQuit'
    BY DEF TrayInv, BeforeQuit
<1>2. Waiting' = Waiting /\ Limit' = Limit /\ (AskedFirst => AskedFirst')
    BY DEF Waiting, Limit, AskedFirst, Owed
<1>3. StopInv => StopInv'
    BY DEF StopInv
<1> QED BY <1>1, <1>2, <1>3 DEF TrayInv

LEMMA MovesTray ==
    ASSUME BaseInv, TrayInv, Moves(Tray), trayvars' = trayvars, app' = app, Alive,
           attached' = attached, Watching
    PROVE  TrayInv'
<1>0. /\ ClientInv /\ worker \in [Worker -> WorkerState] /\ Tray \in Worker
      /\ requests[Tray] \in Seq(Request) /\ responses[Tray] \in Seq(Response)
      /\ requests \in [Worker -> Seq(Request)] /\ responses \in [Worker -> Seq(Response)]
    BY BaseTypes
<1>1. PICK u \in WorkerState :
          /\ worker' = [worker EXCEPT ![Tray] = u] /\ Coherent(u)
          /\ Takes(Tray, u) \/ Answers(Tray, u) \/ Works(Tray, u) \/ Leaves(Tray, u)
    BY DEF Moves
<1>2. worker'[Tray] = u
    BY <1>0, <1>1
<1>3. /\ busy' = busy /\ shown' = shown /\ commands' = commands /\ pending' = pending
      /\ queued_stop' = queued_stop /\ controller' = controller /\ stopped' = stopped
      /\ crossed' = crossed
    BY DEF trayvars
<1>4. (inactive => inactive') /\ (app = "stopping" /\ ~daemon'.active => inactive')
    BY DEF Watching
<1>5. BeforeQuit' /\ Limit' = Limit
    BY <1>3 DEF TrayInv, BeforeQuit, Limit
<1> DEFINE line == requests[Tray]
           answers == responses[Tray]
           n == Completions(answers)
<1>6. n \in Nat /\ Len(line) \in Nat /\ Owed(Tray) \in Nat
    BY <1>0, EndingFinite DEF Owed
<1>7. /\ Waiting' \in Nat /\ Waiting' <= Waiting
      /\ controller /\ AskedFirst => AskedFirst'
      /\ app = "stopping" /\ StopInv => StopInv'
    <2>1. CASE Takes(Tray, u)
        <3>1. /\ line # <<>> /\ ~worker[Tray].complete /\ requests'[Tray] = Tail(line)
              /\ responses' = responses
              /\ u.complete \/ u.at = "gone"
              /\ u.at # "answer"
            BY <1>0, <2>1 DEF Takes
        <3>2. Len(Tail(line)) = Len(line) - 1 /\ Len(line) > 0
            BY <1>0, <3>1
        <3>3. Owed(Tray) = 0 /\ Owed(Tray)' \in {0, 1}
            BY <1>2, <3>1 DEF Owed
        <3>4. Waiting' = Len(Tail(line)) + Owed(Tray)' + n /\ Waiting = Len(line) + Owed(Tray) + n
            BY <3>1 DEF Waiting
        <3>5. Waiting' \in Nat /\ Waiting' <= Waiting
            BY <1>6, <3>2, <3>3, <3>4
        <3>6. AskedFirst => AskedFirst'
            BY <1>2, <3>1 DEF AskedFirst
        <3>7. StopInv => StopInv'
            BY <1>2, <1>4, <3>1 DEF StopInv
        <3> QED BY <3>5, <3>6, <3>7
    <2>2. CASE Answers(Tray, u)
        <3> DEFINE r == worker[Tray].reply
                   longer == Append(answers, r)
        <3>1. /\ worker[Tray].at = "answer" /\ requests' = requests /\ responses'[Tray] = longer
              /\ ~u.complete /\ u.at # "answer"
            BY <1>0, <2>2 DEF Answers
        <3>2. r \in Response /\ r.complete = worker[Tray].complete
            BY <1>0, <3>1, ClientTypes DEF WorkerState, Coherent
        <3>3. /\ longer \in Seq(Response) /\ Len(longer) = Len(answers) + 1 /\ longer[Len(longer)] = r
              /\ \A i \in 1 .. Len(answers) : longer[i] = answers[i]
              /\ longer # <<>> /\ Len(answers) \in Nat
            <4>1. answers \in Seq(Response)
                BY <1>0
            <4> HIDE DEF answers, r
            <4>2. /\ longer \in Seq(Response) /\ Len(longer) = Len(answers) + 1
                  /\ \A i \in 1 .. Len(answers) : longer[i] = answers[i]
                  /\ longer[Len(answers) + 1] = r /\ Len(answers) \in Nat
                BY <3>2, <4>1 DEF r
            <4> HIDE DEF longer
            <4>3. longer # <<>>
                BY <4>2
            <4> QED BY <4>2, <4>3 DEF answers
        <3>4. Completions(longer) = n + Owed(Tray)
            BY <1>0, <3>2, OneMoreEnds DEF Owed
        <3>5. Owed(Tray)' = 0
            BY <1>2, <3>1 DEF Owed
        <3> HIDE DEF longer
        <3>6. Waiting' = Len(line) + 0 + Completions(longer) /\ Waiting = Len(line) + Owed(Tray) + n
            BY <3>1, <3>5 DEF Waiting
        <3>7. Waiting' \in Nat /\ Waiting' <= Waiting
            BY <1>6, <3>4, <3>6
        <3>8. AskedFirst => AskedFirst'
            <4>1. CASE answers = <<>>
                <5>1. Len(answers) = 0
                    BY <4>1
                <5>2. longer[1] = r
                    BY <3>3, <5>1
                <5> QED BY <3>1, <3>2, <3>3, <4>1, <5>2 DEF AskedFirst
            <4>2. CASE answers # <<>>
                <5>1. 1 \in 1 .. Len(answers)
                    BY <1>0, <4>2
                <5> QED BY <3>1, <3>3, <4>2, <5>1 DEF AskedFirst
            <4> QED BY <4>1, <4>2
        <3>9. StopInv => StopInv'
            <4> SUFFICES ASSUME StopInv PROVE StopInv'
                OBVIOUS
            <4>1. ASSUME NEW i \in 1 .. Len(longer), longer[i].complete, TellsOff(longer[i])
                  PROVE  inactive'
                <5>1. i \in 1 .. Len(answers) \/ i = Len(longer)
                    BY <3>3
                <5>2. CASE i \in 1 .. Len(answers)
                    BY <1>4, <3>3, <4>1, <5>2 DEF StopInv
                <5>3. CASE i = Len(longer)
                    BY <1>4, <3>1, <3>2, <3>3, <4>1, <5>3 DEF StopInv
                <5> QED BY <5>1, <5>2, <5>3
            <4> QED BY <1>2, <3>1, <4>1 DEF StopInv
        <3> QED BY <3>7, <3>8, <3>9
    <2>3. CASE Works(Tray, u)
        <3>1. /\ worker[Tray].at \notin {"receive", "gone"} /\ requests' = requests
              /\ responses' = responses /\ u.complete = worker[Tray].complete
              /\ u.at = "answer" /\ TellsOff(u.reply) => ~daemon'.active
            BY <2>3 DEF Works
        <3>5. Owed(Tray)' = Owed(Tray)
            BY <1>2, <3>1 DEF Owed
        <3>2. Waiting' = Waiting /\ Waiting \in Nat
            BY <1>6, <3>1, <3>5 DEF Waiting
        <3>3. AskedFirst => AskedFirst'
            BY <1>2, <3>1 DEF AskedFirst
        <3>4. app = "stopping" /\ StopInv => StopInv'
            BY <1>2, <1>4, <3>1 DEF StopInv
        <3> QED BY <3>2, <3>3, <3>4
    <2>4. CASE Leaves(Tray, u)
        <3>1. /\ ~attached[Tray] /\ ~u.complete /\ u.at # "answer" /\ requests' = requests
              /\ responses' = responses
            BY <2>4 DEF Leaves
        <3>2. ~controller
            BY <3>1 DEF TrayInv
        <3>3. Owed(Tray)' = 0
            BY <1>2, <3>1 DEF Owed
        <3>4. Waiting' = Len(line) + 0 + n /\ Waiting = Len(line) + Owed(Tray) + n
            BY <3>1, <3>3 DEF Waiting
        <3>5. Waiting' \in Nat /\ Waiting' <= Waiting
            BY <1>6, <3>4
        <3>6. StopInv => StopInv'
            BY <1>2, <1>4, <3>1 DEF StopInv
        <3> QED BY <3>2, <3>5, <3>6
    <2> QED BY <1>1, <2>1, <2>2, <2>3, <2>4
<1>8. Waiting \in Nat /\ Limit \in Nat
    BY <1>6 DEF Waiting, Limit
<1>9. controller /\ ~crossed => Waiting' <= Limit'
    BY <1>5, <1>7, <1>8 DEF TrayInv
<1>10. pending.kind = "stop" => app = "stopping"
    BY DEF TrayInv, BeforeQuit, Alive
<1> QED BY <1>3, <1>4, <1>5, <1>7, <1>9, <1>10 DEF TrayInv

\* The controller's own steps.
LEMMA TakeCommandTray ==
    ASSUME BaseInv, TrayInv, TakeCommand, UNCHANGED appvars
    PROVE  TrayInv'
<1>0. /\ ClientInv /\ TrayTypeOK /\ Tray \in Worker /\ requests[Tray] \in Seq(Request)
      /\ responses[Tray] \in Seq(Response)
    BY BaseTypes
<1>1. /\ responses' = responses /\ attached' = attached /\ worker' = worker /\ controller
      /\ commands # <<>> /\ commands' = Tail(commands) /\ controller' = controller
      /\ stopped' = stopped /\ crossed' = crossed /\ app' = app /\ inactive' = inactive
    BY DEF TakeCommand, working, appvars
<1>2. /\ Head(commands) = commands[1] /\ 1 \in 1 .. Len(commands)
      /\ \A i \in 1 .. Len(commands') : i + 1 \in 1 .. Len(commands) /\ commands'[i] = commands[i + 1]
    BY <1>0, <1>1 DEF TrayTypeOK
<1>3. CASE /\ Send(IF shown THEN "stop" ELSE "start") /\ pending' = Action("toggle", 0)
           /\ UNCHANGED queued_stop /\ pending.kind = "none"
    <2> DEFINE request == IF shown THEN "stop" ELSE "start"
    <2>1. request \in Request /\ Send(request)
        BY <1>3 DEF Request, Mutation
    <2> HIDE DEF request
    <2>2. Len(requests'[Tray]) = Len(requests[Tray]) + 1
        BY <1>0, <2>1, SendApart
    <2>3. pending'.kind = "toggle"
        BY <1>3, ActionType DEF MaxAttempts
    <2>4. ~crossed => Waiting' <= Limit'
        <3>1. /\ Completions(responses[Tray]) \in Nat /\ Len(requests[Tray]) \in Nat
              /\ Owed(Tray) \in Nat
            BY <1>0, EndingFinite DEF Owed
        <3>2. Owed(Tray)' = Owed(Tray)
            BY <1>1 DEF Owed
        <3>3. Limit = 0 /\ Limit' = 1
            BY <1>3, <2>3 DEF Limit
        <3>4. Waiting' = Len(requests[Tray]) + 1 + Owed(Tray) + Completions(responses[Tray])
            BY <1>1, <2>2, <3>2 DEF Waiting
        <3>5. ~crossed => Waiting <= 0
            BY <1>1, <3>3 DEF TrayInv
        <3> QED BY <3>1, <3>3, <3>4, <3>5 DEF Waiting
    <2>5. BeforeQuit'
        BY <1>1, <1>2, <1>3, <2>3 DEF TrayInv, BeforeQuit
    <2> QED BY <1>1, <2>3, <2>4, <2>5 DEF TrayInv
<1>4. CASE /\ requests' = requests /\ pending' = pending
           /\ \/ queued_stop' = queued_stop
              \/ Head(commands) = "stop" /\ queued_stop' = TRUE
    <2>1. BeforeQuit'
        BY <1>1, <1>2, <1>4 DEF TrayInv, BeforeQuit
    <2>2. Waiting' = Waiting /\ Limit' = Limit /\ (AskedFirst => AskedFirst')
        BY <1>1, <1>4 DEF Waiting, Limit, AskedFirst, Owed
    <2>3. StopInv => StopInv'
        BY <1>1 DEF StopInv
    <2> QED BY <1>1, <1>4, <2>1, <2>2, <2>3 DEF TrayInv
<1> QED BY <1>3, <1>4 DEF TakeCommand

LEMMA LaunchStopTray ==
    ASSUME BaseInv, TrayInv, LaunchStop, UNCHANGED appvars
    PROVE  TrayInv'
<1>0. /\ ClientInv /\ TrayTypeOK /\ Tray \in Worker /\ requests[Tray] \in Seq(Request)
      /\ responses[Tray] \in Seq(Response)
    BY BaseTypes
<1>1. /\ responses' = responses /\ attached' = attached /\ worker' = worker /\ controller
      /\ queued_stop /\ pending.kind = "none" /\ Send("stop") /\ pending' = Action("stop", 1)
      /\ commands' = commands /\ controller' = controller
      /\ stopped' = stopped /\ crossed' = crossed /\ app' = app /\ inactive' = inactive
    BY DEF LaunchStop, working, appvars
<1>2. app # "running"
    BY <1>1 DEF TrayInv, BeforeQuit
<1>3. Len(requests'[Tray]) = Len(requests[Tray]) + 1
    BY <1>0, <1>1, SendApart DEF Request, Mutation
<1>4. pending'.kind = "stop"
    BY <1>1, ActionType DEF MaxAttempts
<1>5. /\ Completions(responses[Tray]) \in Nat /\ Len(requests[Tray]) \in Nat
      /\ Owed(Tray) \in Nat
    BY <1>0, EndingFinite DEF Owed
<1>6. ~crossed => Len(requests[Tray]) + Owed(Tray) + Completions(responses[Tray]) <= 0
    BY <1>1 DEF TrayInv, Waiting, Limit
<1>7. ~crossed => Owed(Tray) = 0 /\ Completions(responses[Tray]) = 0
    BY <1>5, <1>6
<1>8. ~crossed => Waiting' <= Limit'
    <2>1. Owed(Tray)' = Owed(Tray)
        BY <1>1 DEF Owed
    <2>2. Waiting' = Len(requests[Tray]) + 1 + Owed(Tray) + Completions(responses[Tray]) /\ Limit' = 1
        BY <1>1, <1>3, <1>4, <2>1 DEF Waiting, Limit
    <2> QED BY <1>5, <1>6, <2>2
<1>9. ~crossed => StopInv'
    <2> SUFFICES ASSUME ~crossed PROVE StopInv'
        OBVIOUS
    <2>1. ~worker[Tray].complete
        BY <1>7 DEF Owed
    <2>2. ASSUME NEW i \in 1 .. Len(responses[Tray]), responses[Tray][i].complete
          PROVE  FALSE
        <3>1. Completions(responses[Tray]) > 0
            BY <1>0, <2>2, SomeEnds
        <3> QED BY <1>7, <3>1
    <2> QED BY <1>1, <2>1, <2>2 DEF StopInv
<1>10. BeforeQuit'
    BY <1>1, <1>2 DEF BeforeQuit
<1> QED BY <1>1, <1>4, <1>8, <1>9, <1>10 DEF TrayInv

\* An answer is taken off the channel ...
LEMMA PoppedTray ==
    ASSUME BaseInv, responses[Tray] # <<>>, responses' = [responses EXCEPT ![Tray] = Tail(@)],
           worker' = worker
    PROVE  /\ Completions(responses[Tray]) =
                Completions(responses'[Tray]) + (IF responses[Tray][1].complete THEN 1 ELSE 0)
           /\ Completions(responses'[Tray]) \in Nat /\ Completions(responses[Tray]) \in Nat
           /\ Owed(Tray)' = Owed(Tray) /\ Owed(Tray) \in Nat
           /\ Len(requests[Tray]) \in Nat
           /\ inactive' = inactive /\ StopInv => StopInv'
           /\ StopInv /\ responses[Tray][1].complete /\ TellsOff(responses[Tray][1]) => inactive
<1>0. /\ ClientInv /\ Tray \in Worker /\ requests[Tray] \in Seq(Request)
      /\ responses[Tray] \in Seq(Response)
    BY BaseTypes
<1>1. /\ responses' \in [Worker -> Seq(Response)] /\ responses'[Tray] = Tail(responses[Tray])
      /\ Head(responses[Tray]) = responses[Tray][1]
    BY <1>0, ReceivingFacts
<1>2. Completions(responses[Tray]) =
        Completions(Tail(responses[Tray])) + (IF Head(responses[Tray]).complete THEN 1 ELSE 0)
    BY <1>0, OneLessEnds
<1>3. Completions(responses'[Tray]) \in Nat /\ Completions(responses[Tray]) \in Nat
    BY <1>0, <1>1, EndingFinite
<1>4. Owed(Tray)' = Owed(Tray) /\ Owed(Tray) \in Nat
    BY DEF Owed
<1>5. /\ 1 \in 1 .. Len(responses[Tray])
      /\ \A i \in 1 .. Len(Tail(responses[Tray])) :
            i + 1 \in 1 .. Len(responses[Tray]) /\ Tail(responses[Tray])[i] = responses[Tray][i + 1]
    BY <1>0
<1>6. inactive' = inactive /\ StopInv => StopInv'
    BY <1>1, <1>5 DEF StopInv
<1>7. StopInv /\ responses[Tray][1].complete /\ TellsOff(responses[Tray][1]) => inactive
    BY <1>5 DEF StopInv
<1> QED BY <1>0, <1>1, <1>2, <1>3, <1>4, <1>6, <1>7

\* ... and ends the action in progress, if it is the answer to it.
LEMMA FinishTray ==
    ASSUME BaseInv, TrayInv, controller, responses[Tray] # <<>>,
           responses' = [responses EXCEPT ![Tray] = Tail(@)], worker' = worker,
           NEW r, r = responses[Tray][1], NEW succeeded, NEW active,
           Finish(succeeded, active), succeeded /\ ~active => TellsOff(r),
           crossed => crossed',
           ~crossed' => r.complete,
           commands' = commands, queued_stop' = queued_stop, UNCHANGED appvars, Alive
    PROVE  TrayInv'
<1>1. app' = app /\ inactive' = inactive
    BY DEF appvars
<1>2. pending' = Nothing /\ pending'.kind = "none"
    BY DEF Finish, Nothing, Action
<1>3. CASE pending.kind = "stop"
    <2>1. stopped' = Answered(succeeded /\ ~active) /\ controller' = FALSE
        BY <1>3 DEF Finish
    <2>2. app # "running"
        BY <1>3 DEF TrayInv, BeforeQuit
    <2>3. app # "confirmed"
        BY DEF Alive
    <2>4. stopped' = "yes" /\ ~crossed' => inactive
        <3> SUFFICES ASSUME stopped' = "yes", ~crossed' PROVE inactive
            OBVIOUS
        <3>1. succeeded /\ ~active
            BY <2>1 DEF Answered
        <3>2. StopInv
            BY <1>3 DEF TrayInv
        <3> QED BY <3>1, <3>2, PoppedTray
    <2> QED BY <1>1, <1>2, <2>1, <2>2, <2>3, <2>4 DEF TrayInv, BeforeQuit
<1>4. CASE pending.kind # "stop"
    <2>1. UNCHANGED <<stopped, controller, requests, attached>>
        BY <1>4 DEF Finish
    <2>2. ~crossed' => Waiting' <= Limit'
        <3> SUFFICES ASSUME ~crossed' PROVE Waiting' <= Limit'
            OBVIOUS
        <3>1. Waiting <= Limit /\ Limit \in {0, 1}
            BY DEF TrayInv, Limit
        <3>2. r.complete
            OBVIOUS
        <3>3. /\ Completions(responses[Tray]) = Completions(responses'[Tray]) + 1
              /\ Completions(responses'[Tray]) \in Nat /\ Completions(responses[Tray]) \in Nat
              /\ Owed(Tray)' = Owed(Tray) /\ Owed(Tray) \in Nat /\ Len(requests[Tray]) \in Nat
            BY <3>2, PoppedTray
        <3>4. /\ Waiting = Len(requests[Tray]) + Owed(Tray) + Completions(responses[Tray])
              /\ Waiting' = Len(requests[Tray]) + Owed(Tray) + Completions(responses'[Tray])
            BY <2>1, <3>3 DEF Waiting
        <3>5. Limit' = 0
            BY <1>2 DEF Limit
        <3> QED BY <3>1, <3>3, <3>4, <3>5
    <2>3. BeforeQuit'
        BY <1>1, <1>2, <2>1 DEF TrayInv, BeforeQuit
    <2> QED BY <1>1, <1>2, <2>1, <2>2, <2>3 DEF TrayInv
<1> QED BY <1>3, <1>4

\* An answer that does not end the action is counted off all the same.
LEMMA PassedTray ==
    ASSUME BaseInv, TrayInv, controller, responses[Tray] # <<>>,
           responses' = [responses EXCEPT ![Tray] = Tail(@)], worker' = worker,
           pending.kind = "startup" => pending.requested,
           UNCHANGED <<stopped, controller, requests, attached, pending, crossed>>,
           commands' = commands, queued_stop' = queued_stop, UNCHANGED appvars
    PROVE  TrayInv'
<1>1. app' = app /\ inactive' = inactive
    BY DEF appvars
<1>2. BeforeQuit'
    BY <1>1 DEF TrayInv, BeforeQuit
<1> DEFINE n == Completions(responses[Tray])
           m == Completions(responses'[Tray])
<1>3. /\ m <= n /\ m \in Nat /\ n \in Nat
      /\ Owed(Tray)' = Owed(Tray) /\ Owed(Tray) \in Nat /\ Len(requests[Tray]) \in Nat
    BY PoppedTray
<1>4. Waiting = Len(requests[Tray]) + Owed(Tray) + n /\ Waiting' = Len(requests[Tray]) + Owed(Tray) + m
    BY <1>3 DEF Waiting
<1>5. Limit' = Limit /\ Limit \in Nat
    BY DEF Limit
<1> HIDE DEF n, m
<1>6. Waiting <= Limit => Waiting' <= Limit'
    BY <1>3, <1>4, <1>5
<1>7. StopInv => StopInv'
    BY <1>1, PoppedTray
<1> QED BY <1>1, <1>2, <1>6, <1>7 DEF TrayInv

\* The controller asks again in the place of the answer it took: for the
\* activation of a start-up, or for the stop once more.
LEMMA AskedTray ==
    ASSUME BaseInv, TrayInv, controller, responses[Tray] # <<>>,
           responses' = [responses EXCEPT ![Tray] = Tail(@)], worker' = worker,
           responses[Tray][1].complete, pending.kind # "none",
           NEW request \in Request, Send(request),
           pending'.kind = pending.kind, pending'.kind = "startup" => pending'.requested,
           UNCHANGED <<stopped, controller, attached, crossed>>,
           commands' = commands, queued_stop' = queued_stop, UNCHANGED appvars
    PROVE  TrayInv'
<1>1. app' = app /\ inactive' = inactive
    BY DEF appvars
<1>2. BeforeQuit'
    BY <1>1 DEF TrayInv, BeforeQuit
<1>3. Len(requests'[Tray]) = Len(requests[Tray]) + 1
    BY SendApart, BaseTypes
<1> DEFINE n == Completions(responses[Tray])
           m == Completions(responses'[Tray])
           k == Len(requests[Tray])
<1>4. /\ n = m + 1 /\ m \in Nat /\ n \in Nat
      /\ Owed(Tray)' = Owed(Tray) /\ Owed(Tray) \in Nat /\ k \in Nat
    BY PoppedTray
<1>5. Waiting = k + Owed(Tray) + n /\ Waiting' = k + 1 + Owed(Tray) + m
    BY <1>3, <1>4 DEF Waiting
<1>6. Limit' = Limit
    BY DEF Limit
<1> HIDE DEF n, m, k
<1>7. Waiting' = Waiting
    BY <1>4, <1>5
<1>8. StopInv => StopInv'
    BY <1>1, PoppedTray
<1> QED BY <1>1, <1>2, <1>6, <1>7, <1>8 DEF TrayInv

LEMMA HandleTray ==
    ASSUME BaseInv, TrayInv, Handle, UNCHANGED appvars, Alive
    PROVE  TrayInv'
<1> DEFINE r == responses[Tray][1]
<1>1. /\ controller /\ responses[Tray] # <<>> /\ responses' = [responses EXCEPT ![Tray] = Tail(@)]
      /\ worker' = worker /\ commands' = commands /\ queued_stop' = queued_stop
    BY DEF Handle, working
<1>2. /\ Head(responses[Tray]) = r /\ r \in Response /\ Proper(r)
    <2>1. ClientInv /\ Tray \in Worker
        BY BaseTypes
    <2> QED BY <1>1, <2>1, ReceivingFacts
<1>3. HandleState(r) \/ HandleRejected(r)
    BY <1>2 DEF Handle
<1>4. pending.kind = "startup" /\ ~pending.requested => r.complete
    BY <1>1 DEF TrayInv, AskedFirst
<1>5. pending \in ActionState /\ pending.requested \in BOOLEAN /\ crossed \in BOOLEAN
    BY BaseTypes DEF ActionState, TrayTypeOK
<1> HIDE DEF r
<1>6. r.complete \in BOOLEAN /\ r.start \in BOOLEAN
    BY <1>2 DEF Response
<1>7. CASE HandleState(r)
    <2>1. r.snapshot.active \in BOOLEAN /\ r.kind = "state"
        BY <1>2, <1>7 DEF HandleState, Proper, Snapshot
    <2>2. CASE /\ Activates(r) /\ Send("start") /\ pending' = [pending EXCEPT !.requested = TRUE]
               /\ UNCHANGED <<busy, stopped, controller, attached, crossed>>
        <3>1. r.complete /\ pending.kind = "startup"
            BY <1>4, <2>2 DEF Activates
        <3>2. pending'.kind = pending.kind /\ pending'.requested
            BY <1>5, <2>2 DEF ActionState
        <3>3. "start" \in Request
            BY DEF Request, Mutation
        <3> QED BY <1>1, <2>2, <3>1, <3>2, <3>3, AskedTray DEF r
    <2>3. CASE /\ ~Activates(r) /\ ~Ends(r)
               /\ UNCHANGED <<busy, stopped, controller, requests, attached, pending, crossed>>
        <3>1. pending.kind = "startup" => pending.requested
            BY <1>5, <1>6, <2>1, <2>3 DEF Activates, Ends
        <3> QED BY <1>1, <2>3, <3>1, PassedTray
    <2>4. CASE /\ Ends(r) /\ Finish(TRUE, r.snapshot.active)
               /\ crossed' = (crossed \/ (pending.requested /\ ~r.complete))
        <3>1. ~r.snapshot.active => TellsOff(r)
            BY <2>1 DEF TellsOff
        <3>2. ~crossed' => r.complete
            BY <1>4, <1>5, <1>6, <2>4 DEF Ends
        <3>3. crossed => crossed'
            BY <2>4
        <3> DEFINE active == r.snapshot.active
        <3>4. Finish(TRUE, active) /\ (TRUE /\ ~active => TellsOff(r))
            BY <2>4, <3>1
        <3> HIDE DEF active
        <3> QED BY <1>1, <3>2, <3>3, <3>4, FinishTray DEF r
    <2> QED BY <1>7, <2>2, <2>3, <2>4 DEF HandleState
<1>8. CASE HandleRejected(r)
    <2> DEFINE authoritative == r.snapshot # NoSnapshot
               active == authoritative /\ r.snapshot.active
    <2>1. /\ crossed' = crossed
          /\ \/ ~r.complete /\ UNCHANGED <<busy, stopped, controller, requests, attached, pending>>
             \/ /\ r.complete /\ MayRetryStop(authoritative, active) /\ Send("stop")
                /\ pending' = [pending EXCEPT !.attempts = @ + 1]
                /\ UNCHANGED <<busy, stopped, controller, attached>>
             \/ r.complete /\ Finish(authoritative, active)
        BY <1>8 DEF HandleRejected
    <2>2. authoritative /\ ~active => TellsOff(r)
        BY DEF TellsOff
    <2> HIDE DEF authoritative, active
    <2>3. CASE ~r.complete /\ UNCHANGED <<busy, stopped, controller, requests, attached, pending>>
        <3>1. pending.kind = "startup" => pending.requested
            BY <1>4, <2>3
        <3> QED BY <1>1, <2>1, <2>3, <3>1, PassedTray
    <2>4. CASE /\ r.complete /\ MayRetryStop(authoritative, active) /\ Send("stop")
               /\ pending' = [pending EXCEPT !.attempts = @ + 1]
               /\ UNCHANGED <<busy, stopped, controller, attached>>
        <3>1. pending'.kind = pending.kind /\ pending.kind = "stop"
            BY <1>5, <2>4 DEF ActionState, MayRetryStop
        <3>2. "stop" \in Request
            BY DEF Request, Mutation
        <3> QED BY <1>1, <2>1, <2>4, <3>1, <3>2, AskedTray DEF r
    <2>5. CASE r.complete /\ Finish(authoritative, active)
        <3>1. (crossed => crossed') /\ (~crossed' => r.complete)
            BY <2>1, <2>5
        <3> QED BY <1>1, <2>2, <2>5, <3>1, FinishTray DEF r
    <2> QED BY <2>1, <2>3, <2>4, <2>5
<1> QED BY <1>3, <1>7, <1>8

\* Every step keeps the tray's account.
LEMMA NextTray == BaseInv /\ TrayInv /\ [Next]_vars => TrayInv'
<1> SUFFICES ASSUME BaseInv, TrayInv, [Next]_vars
             PROVE  TrayInv'
    OBVIOUS
<1>0. /\ ClientInv /\ TrayTypeOK /\ Tray \in Worker /\ crossed \in BOOLEAN /\ inactive \in BOOLEAN
      /\ requests \in [Worker -> Seq(Request)] /\ responses \in [Worker -> Seq(Response)]
      /\ attached \in [Worker -> BOOLEAN] /\ worker \in [Worker -> WorkerState]
    BY BaseTypes DEF TrayTypeOK
<1>1. ASSUME NEW w \in Windows
      PROVE  w # Tray /\ w \in Worker
    BY DEF Windows
<1>2. ASSUME NEW w \in Windows, CloseWindow(w)
      PROVE  TrayInv'
    <2>1. Dropping({w}) /\ app' = app /\ inactive' = inactive
        BY <1>2 DEF CloseWindow
    <2>2. /\ requests'[Tray] = requests[Tray] /\ responses'[Tray] = responses[Tray]
          /\ attached'[Tray] = attached[Tray]
        BY <1>0, <2>1, <1>1 DEF Dropping
    <2> QED BY <1>2, <2>1, <2>2, SameTray DEF CloseWindow, working
<1>3. ASSUME NEW w \in Windows,
             \/ OpenWindow(w) \/ BeginActiveChange(w)
             \/ \E request \in {"set", "diagnostics"} : ClickOther(w, request)
      PROVE  TrayInv'
    <2>1. /\ requests'[Tray] = requests[Tray] /\ responses'[Tray] = responses[Tray]
          /\ attached'[Tray] = attached[Tray] /\ worker'[Tray] = worker[Tray]
        BY <1>0, <1>1, <1>3 DEF OpenWindow, BeginActiveChange, ClickOther, Sending, working
    <2>2. /\ UNCHANGED <<queued_stop, pending, controller, stopped, crossed, inactive, app, commands>>
        BY <1>3 DEF OpenWindow, BeginActiveChange, ClickOther, Click, trayvars
    <2> QED BY <2>1, <2>2, SameTray
<1>4. CASE TrayToggle
    <2>1. /\ requests' = requests /\ responses' = responses /\ attached' = attached /\ worker' = worker
          /\ UNCHANGED <<queued_stop, pending, controller, stopped, crossed, inactive, app>>
          /\ commands' = commands \/ commands' = Append(commands, "toggle")
        BY <1>4 DEF TrayToggle, Toggle, clientvars, channels, working
    <2>2. commands \in Seq({"toggle", "stop"})
        BY <1>0 DEF TrayTypeOK
    <2>3. BeforeQuit'
        <3> SUFFICES ASSUME app = "running", NEW i \in 1 .. Len(commands')
                     PROVE  commands'[i] # "stop"
            BY <2>1 DEF TrayInv, BeforeQuit
        <3>1. CASE commands' = commands
            BY <3>1 DEF TrayInv, BeforeQuit
        <3>2. CASE commands' = Append(commands, "toggle")
            <4>1. \/ i \in 1 .. Len(commands) /\ commands'[i] = commands[i]
                  \/ commands'[i] = "toggle"
                BY <2>2, <3>2
            <4> QED BY <4>1 DEF TrayInv, BeforeQuit
        <3> QED BY <2>1, <3>1, <3>2
    <2>4. Waiting' = Waiting /\ Limit' = Limit /\ (AskedFirst => AskedFirst') /\ (StopInv => StopInv')
        BY <2>1 DEF Waiting, Limit, AskedFirst, StopInv, Owed
    <2> QED BY <2>1, <2>3, <2>4 DEF TrayInv
<1>5. CASE Quit
    <2> DEFINE ws == {w \in Windows : IsOpen(w)}
    <2>1. /\ Dropping(ws) /\ StopAndShutdown /\ app' = "stopping" /\ app = "running"
          /\ UNCHANGED <<service, owner, working, changes>>
        BY <1>5 DEF Quit
    <2>2. /\ requests'[Tray] = requests[Tray] /\ responses'[Tray] = responses[Tray]
          /\ attached'[Tray] = attached[Tray] /\ worker' = worker
        BY <1>0, <1>1, <2>1 DEF Dropping, working
    <2>3. /\ pending' = pending /\ queued_stop' = queued_stop /\ controller' = controller
          /\ crossed' = crossed /\ (stopped' = stopped \/ stopped' = "no")
        BY <2>1 DEF StopAndShutdown
    <2>4. pending.kind # "stop" /\ stopped # "yes"
        BY <2>1 DEF TrayInv, BeforeQuit
    <2>5. Waiting' = Waiting /\ Limit' = Limit /\ (AskedFirst => AskedFirst')
        BY <2>2, <2>3 DEF Waiting, Limit, AskedFirst, Owed
    <2> QED BY <2>1, <2>2, <2>3, <2>4, <2>5 DEF TrayInv, BeforeQuit
<1>6. ASSUME NEW w \in Windows, DrainResponse(w)
      PROVE  TrayInv'
    <2>1. /\ requests'[Tray] = requests[Tray] /\ responses'[Tray] = responses[Tray]
          /\ attached'[Tray] = attached[Tray] /\ worker'[Tray] = worker[Tray]
        BY <1>0, <1>1, <1>6 DEF DrainResponse, working
    <2>2. /\ UNCHANGED <<queued_stop, pending, controller, stopped, inactive, app, commands>>
          /\ crossed => crossed'
        BY <1>6 DEF DrainResponse
    <2> QED BY <2>1, <2>2, SameTray
<1>7. ASSUME NEW w \in Windows, Poll(w)
      PROVE  TrayInv'
    BY <1>7, SameTray DEF Poll, clientvars, channels, working, trayvars
<1>8. ASSUME NEW w \in Worker, Behind(WorkerStep(w))
      PROVE  TrayInv'
    <2>1. WorkerStep(w) /\ trayvars' = trayvars /\ app' = app /\ Alive /\ Watching
        BY <1>8 DEF Behind
    <2>2. Moves(w) /\ attached' = attached
        BY <1>0, <2>1, WorkerMoves
    <2>3. CASE w = Tray
        BY <2>1, <2>2, <2>3, MovesTray
    <2>4. CASE w # Tray
        <3>1. /\ requests'[Tray] = requests[Tray] /\ responses'[Tray] = responses[Tray]
              /\ worker'[Tray] = worker[Tray]
            BY <1>0, <2>2, <2>4 DEF Moves, Takes, Answers, Works, Leaves
        <3>2. inactive => inactive'
            BY <2>1 DEF Watching
        <3> QED BY <2>1, <2>2, <3>1, <3>2, SameTray DEF trayvars
    <2> QED BY <2>3, <2>4
<1>9. CASE Behind(Restart) \/ Behind(Change)
    <2>1. /\ Restart \/ Change
          /\ trayvars' = trayvars /\ app' = app /\ Watching
        BY <1>9 DEF Behind
    <2>2. channels' = channels /\ worker' = worker
        BY <1>0, <2>1, OthersKeep
    <2>3. inactive => inactive'
        BY <2>1 DEF Watching
    <2> QED BY <2>1, <2>2, <2>3, SameTray DEF trayvars, channels
<1>10. CASE Controls(ControllerStep)
    <2>1. ControllerStep /\ UNCHANGED appvars /\ Alive
        BY <1>10 DEF Controls
    <2> QED BY <2>1, TakeCommandTray, LaunchStopTray, HandleTray DEF ControllerStep
<1>11. CASE Exit
    <2>1. /\ requests' = requests /\ responses' = responses /\ attached' = attached /\ worker' = worker
          /\ trayvars' = trayvars /\ inactive' = inactive
          /\ app' \in {"confirmed", "unconfirmed"} /\ (app' = "confirmed" => stopped = "yes")
        BY <1>11 DEF Exit, clientvars, channels, working
    <2>2. /\ UNCHANGED <<queued_stop, pending, controller, stopped, crossed, commands>>
        BY <2>1 DEF trayvars
    <2>3. Waiting' = Waiting /\ Limit' = Limit /\ (AskedFirst => AskedFirst') /\ (StopInv => StopInv')
        BY <2>1, <2>2 DEF Waiting, Limit, AskedFirst, StopInv, Owed
    <2> QED BY <2>1, <2>2, <2>3 DEF TrayInv, BeforeQuit
<1>12. CASE UNCHANGED vars
    BY <1>12, SameTray DEF vars, clientvars, channels, working, trayvars, appvars
<1> QED BY <1>2, <1>3, <1>4, <1>5, <1>6, <1>7, <1>8, <1>9, <1>10, <1>11, <1>12 DEF Next, User

\* A program that ends believing that processing is off is right: the daemon
\* was off at some moment after the program began to end, unless an answer was
\* taken for another's before (stop_and_shutdown with complete_tray_action).
THEOREM QuitIsConfirmed == Spec => []QuitConfirmed
<1>1. TrayInv => QuitConfirmed
    BY DEF TrayInv, QuitConfirmed
<1>2. Init => BaseInv /\ TrayInv
    BY InitWindows, InitTray
<1>3. BaseInv /\ WindowInv /\ TrayInv /\ [Next]_vars => BaseInv' /\ WindowInv' /\ TrayInv'
    BY NextWindows, NextTray
<1> QED BY <1>1, <1>2, <1>3, InitWindows, PTL DEF Spec

-----------------------------------------------------------------------------
(***************************************************************************)
(* Launch at login.  That the user decides is not inductive alone: that a  *)
(* rename leaves what was meant depends on what the desktop read before,   *)
(* and on the entry having stayed as it was since.                         *)
(***************************************************************************)
AutostartSpec == AutostartInit /\ [][AutostartNext]_autostartVars

Entry == Image \cup {NoEntry, Foreign}
Task ==
    [by : {"nobody", "refresh", "user"}, step : {"none", "read", "write", "rename", "remove", "unlink"}]

AutostartTypeOK ==
    /\ entry \in Entry /\ decided \in Entry
    /\ launch \in [Desktop -> Image \cup {NoDesktop, NoCommand}]
    /\ drawn \in [Desktop -> [enabled : BOOLEAN, available : BOOLEAN]]
    /\ task \in [Desktop -> Task]
    /\ overtaken \subseteq Desktop /\ misled \in BOOLEAN

\* The toggle can be used, and the file written, only with a command to write;
\* what a step is says who may have asked for it.
TaskFits(d) ==
    /\ drawn[d].available \/ task[d].by = "user" => launch[d] \in Image
    /\ task[d].step = "read" => launch[d] \in Image \cup {NoCommand} /\ task[d].by = "refresh"
    /\ task[d].step \in {"remove", "unlink"} => task[d].by = "user"
    /\ task[d].step \in {"write", "rename"} => launch[d] \in Image /\ task[d].by # "nobody"

\* A desktop behind whose back nothing has changed shows the entry, refreshes
\* only one of Noire's, and is about to do the opposite of what it shows.
UpToDate(d) ==
    /\ drawn[d].available => (drawn[d].enabled <=> Managed(entry))
    /\ task[d].step \in {"write", "rename"} =>
          IF task[d].by = "refresh" THEN Managed(entry) ELSE ~drawn[d].enabled
    /\ task[d].step \in {"remove", "unlink"} => drawn[d].enabled

AutostartInv ==
    /\ AutostartTypeOK
    /\ \A d \in Desktop : TaskFits(d) /\ (d \notin overtaken => UpToDate(d))
    /\ UserDecides

-----------------------------------------------------------------------------
LEMMA InitAutostart == AutostartInit => AutostartInv
<1> SUFFICES ASSUME AutostartInit PROVE AutostartInv
  OBVIOUS
<1>1. NoTask \in Task /\ NoStatus \in [enabled : BOOLEAN, available : BOOLEAN]
  BY DEF NoTask, NoStatus, Task
<1>2. AutostartTypeOK /\ UserDecides
  BY <1>1 DEF AutostartInit, AutostartTypeOK, Entry, UserDecides
<1>3. ASSUME NEW d \in Desktop PROVE TaskFits(d) /\ UpToDate(d)
  BY <1>3 DEF AutostartInit, NoTask, NoStatus, TaskFits, UpToDate
<1> QED BY <1>2, <1>3 DEF AutostartInv

\* What a desktop does next stays a task, asked for by whoever asked before.
LEMMA StepTask ==
    ASSUME AutostartTypeOK, NEW d \in Desktop,
           NEW next \in {"none", "write", "rename", "unlink"}, Continue(d, next)
    PROVE  /\ task' \in [Desktop -> Task]
           /\ \A c \in Desktop : c # d => task'[c] = task[c]
           /\ task'[d].step = next
           /\ IF next = "none" THEN task'[d] = NoTask ELSE task'[d].by = task[d].by
<1> DEFINE t == IF next = "none" THEN NoTask ELSE [task[d] EXCEPT !.step = next]
<1>1. task' = [task EXCEPT ![d] = t]
  BY DEF Continue
<1>2. task \in [Desktop -> Task] /\ task[d] \in Task
  BY DEF AutostartTypeOK
<1>3. t \in Task /\ t.step = next /\ (IF next = "none" THEN t = NoTask ELSE t.by = task[d].by)
  <2>1. CASE next = "none"
    BY <2>1 DEF NoTask, Task
  <2>2. CASE next # "none"
    BY <2>2, <1>2 DEF Task
  <2> QED BY <2>1, <2>2
<1> HIDE DEF t
<1>4. task'[d] = t /\ task' \in [Desktop -> Task] /\ \A c \in Desktop : c # d => task'[c] = task[c]
  BY <1>1, <1>2, <1>3
<1> QED BY <1>3, <1>4

\* The steps that only read the entry.
LEMMA CallsKeep ==
    ASSUME AutostartInv, NEW d \in Desktop,
           \/ StartDesktop(d) \/ RefreshManaged(d) \/ DrawToggle(d) \/ ClickToggle(d)
           \/ CheckWrite(d) \/ CheckRemove(d) \/ FileFails(d) \/ EndDesktop(d)
    PROVE  AutostartInv'
<1> USE AutostartAssumption DEF AutostartInv, AutostartTypeOK
<1>e. UNCHANGED <<entry, decided, misled>> /\ UserDecides'
  BY DEF StartDesktop, RefreshManaged, DrawToggle, ClickToggle, CheckWrite, CheckRemove, FileFails,
         EndDesktop, UserDecides
<1>o. ASSUME NEW c \in Desktop, c # d
      PROVE  /\ launch'[c] = launch[c] /\ drawn'[c] = drawn[c] /\ task'[c] = task[c]
             /\ c \in overtaken' <=> c \in overtaken
  BY <1>o DEF StartDesktop, RefreshManaged, DrawToggle, ClickToggle, CheckWrite, CheckRemove,
              FileFails, EndDesktop, Continue
<1>k. ASSUME NEW c \in Desktop, c # d
      PROVE  TaskFits(c)' /\ (c \notin overtaken' => UpToDate(c)')
  BY <1>o, <1>k, <1>e DEF TaskFits, UpToDate
<1>d. task[d] \in Task /\ TaskFits(d) /\ (d \notin overtaken => UpToDate(d))
  OBVIOUS
<1>1. CASE StartDesktop(d)
  <2>1. AutostartTypeOK'
    BY <1>1, <1>e DEF StartDesktop, LaunchCommand, Task, Entry
  <2>2. TaskFits(d)' /\ UpToDate(d)'
    BY <1>1, <1>d DEF StartDesktop, LaunchCommand, TaskFits, UpToDate
  <2> QED BY <2>1, <2>2, <1>k, <1>e
<1>2. CASE RefreshManaged(d)
  <2>1. PICK next \in {"none", "write"} :
            Continue(d, next) /\ (next = "write" => launch[d] # NoCommand /\ Managed(entry))
    BY <1>2 DEF RefreshManaged
  <2>2. AutostartTypeOK'
    BY <1>2, <1>e, <2>1, StepTask DEF RefreshManaged
  <2>3. TaskFits(d)' /\ (d \notin overtaken' => UpToDate(d)')
    BY <1>2, <1>d, <2>1, StepTask DEF RefreshManaged, Managed, NoTask, TaskFits, UpToDate
  <2> QED BY <2>2, <2>3, <1>k, <1>e
<1>3. CASE DrawToggle(d)
  <2>1. AutostartTypeOK'
    BY <1>3, <1>e DEF DrawToggle, Status, Managed, Entry
  <2>2. task'[d] = NoTask /\ launch'[d] = launch[d] /\ launch[d] # NoDesktop
    BY <1>3 DEF DrawToggle, Ready
  <2>3. drawn'[d].available => launch[d] # NoCommand /\ (drawn'[d].enabled <=> Managed(entry))
    <3>1. PICK readable \in BOOLEAN : drawn'[d] = Status(d, readable)
      BY <1>3 DEF DrawToggle
    <3>2. /\ Status(d, readable).available => readable /\ launch[d] # NoCommand
          /\ Status(d, readable).enabled <=> readable /\ Managed(entry)
      BY DEF Status, Managed
    <3> QED BY <3>1, <3>2
  <2>4. launch[d] # NoCommand => launch[d] \in Image
    BY <2>2
  <2>5. TaskFits(d)'
    BY <2>2, <2>3, <2>4 DEF NoTask, TaskFits
  <2>6. UpToDate(d)'
    BY <2>2, <2>3, <1>e DEF NoTask, UpToDate, Managed
  <2> QED BY <2>1, <2>5, <2>6, <1>k, <1>e
<1>4. CASE ClickToggle(d)
  <2>1. AutostartTypeOK'
    BY <1>4, <1>e DEF ClickToggle, NoTask, Task, Entry
  <2>2. PICK readable \in BOOLEAN :
          /\ task'[d] = IF Status(d, readable).enabled THEN [by |-> "user", step |-> "remove"]
                        ELSE IF launch[d] # NoCommand THEN [by |-> "user", step |-> "write"] ELSE NoTask
          /\ overtaken' = IF readable THEN overtaken ELSE overtaken \cup {d}
    BY <1>4 DEF ClickToggle
  <2>3. drawn[d].available /\ launch' = launch /\ drawn' = drawn
    BY <1>4 DEF ClickToggle
  <2>4. Status(d, readable).enabled <=> readable /\ Managed(entry)
    BY DEF Status, Managed
  <2>5. TaskFits(d)' /\ (d \notin overtaken' => UpToDate(d)')
    BY <1>d, <1>e, <2>2, <2>3, <2>4 DEF NoTask, Managed, TaskFits, UpToDate
  <2> QED BY <2>1, <2>5, <1>k, <1>e
<1>5. CASE CheckWrite(d) \/ CheckRemove(d)
  <2>1. PICK next \in {"none", "rename", "unlink"} :
          Continue(d, next) /\ (next = "rename" => task[d].step = "write")
                       /\ (next = "unlink" => task[d].step = "remove")
    BY <1>5 DEF CheckWrite, CheckRemove
  <2>2. UNCHANGED <<launch, drawn, overtaken>>
    BY <1>5 DEF CheckWrite, CheckRemove
  <2>3. AutostartTypeOK'
    BY <2>1, <2>2, <1>e, StepTask
  <2>4. TaskFits(d)' /\ (d \notin overtaken' => UpToDate(d)')
    BY <1>d, <1>e, <2>1, <2>2, StepTask DEF NoTask, Managed, TaskFits, UpToDate
  <2> QED BY <2>3, <2>4, <1>k, <1>e
<1>6. CASE FileFails(d)
  <2>1. task'[d] = NoTask /\ task' \in [Desktop -> Task]
    BY <1>6, StepTask DEF FileFails
  <2>2. AutostartTypeOK' /\ TaskFits(d)' /\ (d \notin overtaken' => UpToDate(d)')
    BY <1>6, <1>d, <2>1 DEF FileFails, NoTask, TaskFits, UpToDate
  <2> QED BY <2>2, <1>k, <1>e
<1>7. CASE EndDesktop(d)
  <2>1. task'[d] = NoTask /\ task' \in [Desktop -> Task]
    BY <1>7, StepTask DEF EndDesktop
  <2>2. AutostartTypeOK'
    BY <1>7, <2>1, <1>e DEF EndDesktop, NoStatus
  <2>3. drawn'[d] = NoStatus
    BY <1>7 DEF EndDesktop
  <2>4. TaskFits(d)' /\ UpToDate(d)'
    BY <2>1, <2>3 DEF NoStatus, NoTask, TaskFits, UpToDate
  <2> QED BY <2>2, <2>4, <1>k, <1>e
<1> QED BY <1>1, <1>2, <1>3, <1>4, <1>5, <1>6, <1>7

\* A rename or an unlink leaves what was meant, or had been overtaken; every
\* other desktop is overtaken by it.
LEMMA ChangeKeeps ==
    ASSUME AutostartInv, NEW d \in Desktop, ReplaceEntry(d) \/ RemoveEntry(d)
    PROVE  AutostartInv'
<1> USE AutostartAssumption DEF AutostartInv, AutostartTypeOK
<1>d. task[d] \in Task /\ TaskFits(d) /\ (d \notin overtaken => UpToDate(d))
  OBVIOUS
<1> DEFINE e == IF task[d].step = "rename" THEN launch[d] ELSE NoEntry
<1>1. ChangeEntry(d, e) /\ task[d].step \in {"rename", "unlink"} /\ e \in Entry
  BY <1>d DEF ReplaceEntry, RemoveEntry, TaskFits, Entry
<1>2. /\ task'[d] = NoTask /\ task' \in [Desktop -> Task]
      /\ \A c \in Desktop : c # d => task'[c] = task[c]
  BY <1>1, StepTask DEF ChangeEntry
<1>3. Meant(d) \in Entry
  BY <1>1, <1>d DEF Meant, TaskFits, Managed, Entry, Task
<1>4. AutostartTypeOK'
  BY <1>1, <1>2, <1>3 DEF ChangeEntry, NoStatus
<1>5. ASSUME NEW c \in Desktop PROVE TaskFits(c)' /\ (c \notin overtaken' => UpToDate(c)')
  BY <1>1, <1>2, <1>d DEF ChangeEntry, NoStatus, NoTask, TaskFits, UpToDate
<1>6. d \notin overtaken /\ ~misled => Meant(d) = e
  BY <1>1, <1>d DEF Meant, UpToDate, TaskFits, UserDecides, Managed, Task
<1>7. UserDecides'
  BY <1>1, <1>6 DEF ChangeEntry, UserDecides
<1> QED BY <1>4, <1>5, <1>7

LEMMA NextAutostart == AutostartInv /\ [AutostartNext]_autostartVars => AutostartInv'
<1> SUFFICES ASSUME AutostartInv, [AutostartNext]_autostartVars PROVE AutostartInv'
  OBVIOUS
<1>1. CASE OthersChange
  <2>1. AutostartTypeOK' /\ UserDecides' /\ overtaken' = Desktop
    BY <1>1 DEF AutostartInv, AutostartTypeOK, OthersChange, UserDecides, Entry
  <2>2. ASSUME NEW c \in Desktop PROVE TaskFits(c)'
    BY <1>1 DEF AutostartInv, OthersChange, TaskFits
  <2> QED BY <2>1, <2>2 DEF AutostartInv
<1>2. CASE UNCHANGED autostartVars
  BY <1>2 DEF AutostartInv, AutostartTypeOK, UserDecides, TaskFits, UpToDate, autostartVars
<1> QED BY <1>1, <1>2, CallsKeep, ChangeKeeps DEF AutostartNext

\* The entry is always the user's choice, or another program's, whatever fails
\* and however many desktops run, unless one acted on what it read too early.
THEOREM EntryIsDecided == AutostartSpec => []UserDecides
<1>1. AutostartInv => UserDecides
  BY DEF AutostartInv
<1> QED BY <1>1, InitAutostart, NextAutostart, PTL DEF AutostartSpec
=============================================================================
