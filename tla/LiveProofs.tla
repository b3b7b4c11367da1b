----------------------------- MODULE LiveProofs -----------------------------
(***************************************************************************)
(* Theorems about live processing, for every configuration, ring, stage and *)
(* block: the sequence lock never lets the callback adopt a mixture of two *)
(* settings and what the sink reports is what it does (LiveSink); the stages *)
(* keep dry and wet samples together and splice nothing (SignalPath); what *)
(* the capture stream was offered and what the meter shows are what they   *)
(* seem (CaptureBuffers).                                                  *)
(***************************************************************************)
EXTENDS LiveSink, SignalPath, CaptureBuffers, TLAPS

Writer == [config : Parameters, todo : Seq(Field), step : {"begin", "store", "end"}]
Reader == [at : Access, first : Nat, read : Parameters]
Adopted == [epoch : Nat, fail_mode : FailMode, target : Strength]

LockType ==
    /\ epoch \in Nat /\ shared \in Parameters
    /\ writer \in Writer /\ reader \in Reader /\ parameters \in Adopted
    /\ settled \in Seq(Parameters) /\ quiet \in BOOLEAN

\* The owner: the epoch is odd while an update is under way, and while it is
\* even the words are the last settings that were in force.
OwnerInv ==
    /\ epoch = 2 * (Len(settled) - 1) + (IF Updating THEN 1 ELSE 0)
    /\ ~Updating => shared = settled[Len(settled)]

\* The callback: as long as the epoch it has read first lasts, what it has
\* read since is what is there.
Has(field) ==
    \/ reader.at = "second"
    \/ reader.at = "fail_mode" /\ field # "fail_mode"
    \/ reader.at = "enabled" /\ field = "strength"

ReaderInv ==
    reader.at \in {"strength", "enabled", "fail_mode", "second"} =>
      /\ reader.first <= epoch /\ reader.first % 2 = 0
      /\ reader.first = epoch =>
            \A field \in Field : Has(field) => reader.read[field] = shared[field]

\* What has been adopted was in force at an even epoch that has come.
AdoptedInv ==
    /\ parameters.epoch % 2 = 0 /\ parameters.epoch <= epoch
    /\ InForce(settled[parameters.epoch \div 2 + 1])

\* A callback that no update overlaps ends its load with the present epoch.
QuietInv ==
    quiet =>
      /\ ~Updating /\ reader.at # "idle"
      /\ reader.at \in {"strength", "enabled", "fail_mode", "second"} => reader.first = epoch
      /\ reader.at = "frames" => parameters.epoch = epoch

LockInv == LockType /\ OwnerInv /\ ReaderInv /\ AdoptedInv /\ QuietInv

-----------------------------------------------------------------------------
LEMMA DefaultType == DefaultParameters \in Parameters
BY LiveAssumption DEF DefaultParameters, Parameters, FailMode

\* Where the epoch stands among the settings that were in force.
LEMMA EpochFacts ==
    ASSUME LockType, OwnerInv
    PROVE  /\ Len(settled) \in Nat \ {0}
           /\ epoch % 2 = 1 <=> Updating
           /\ ~Updating => epoch \div 2 + 1 = Len(settled)
           /\ \A e \in Nat : e % 2 = 0 /\ e <= epoch => e \div 2 + 1 \in 1..Len(settled)
<1>1. Len(settled) \in Nat /\ epoch \in Nat
  BY DEF LockType
<1>2. CASE Updating
  BY <1>1, <1>2 DEF OwnerInv
<1>3. CASE ~Updating
  BY <1>1, <1>3 DEF OwnerInv
<1> QED BY <1>2, <1>3

LEMMA InitLock == Init => LockInv
<1> SUFFICES ASSUME Init PROVE LockInv
  OBVIOUS
<1>1. /\ epoch = 0 /\ shared = DefaultParameters
      /\ writer = [config |-> DefaultParameters, todo |-> <<>>, step |-> "begin"]
      /\ reader = [at |-> "idle", first |-> 0, read |-> DefaultParameters]
      /\ parameters = [epoch |-> 0, fail_mode |-> "Closed", target |-> FullStrength]
      /\ settled = <<DefaultParameters>> /\ quiet = FALSE
  BY DEF Init, NewShared
<1>2. Len(settled) = 1 /\ settled[1] = DefaultParameters /\ settled \in Seq(Parameters)
  BY <1>1, DefaultType
<1>3. writer \in Writer /\ reader \in Reader /\ parameters \in Adopted
  BY <1>1, DefaultType, LiveAssumption DEF Writer, Reader, Adopted, Access, FailMode
<1>4. LockType
  BY <1>1, <1>2, <1>3, DefaultType DEF LockType
<1>5. OwnerInv
  BY <1>1, <1>2 DEF OwnerInv, Updating
<1>6. ReaderInv /\ QuietInv
  BY <1>1 DEF ReaderInv, QuietInv
<1>7. AdoptedInv
  BY <1>1, <1>2 DEF AdoptedInv, InForce, Effective, DefaultParameters
<1> QED BY <1>4, <1>5, <1>6, <1>7 DEF LockInv

\* A step that touches neither the words nor what was adopted.
LEMMA LockFrame ==
    ASSUME LockInv, UNCHANGED <<epoch, shared, writer, settled, parameters>>,
           \/ UNCHANGED reader /\ UNCHANGED quiet
           \/ reader' \in Reader /\ reader'.at = "idle" /\ quiet' = FALSE
           \/ reader' \in Reader /\ reader'.at = "first" /\ quiet' = ~Updating
    PROVE  LockInv'
<1>1. LockType'
  <2>1. quiet' \in BOOLEAN /\ reader' \in Reader
    BY DEF LockInv, LockType, Updating
  <2> QED BY <2>1 DEF LockInv, LockType
<1>2. OwnerInv' /\ AdoptedInv' /\ (Updating' <=> Updating)
  BY DEF LockInv, OwnerInv, AdoptedInv, InForce, Updating
<1>3. ReaderInv'
  BY DEF LockInv, ReaderInv, Has
<1>4. QuietInv'
  <2>1. CASE UNCHANGED reader /\ UNCHANGED quiet
    BY <1>2, <2>1 DEF LockInv, QuietInv
  <2>2. CASE quiet' = FALSE
    BY <2>2 DEF QuietInv
  <2>3. CASE reader'.at = "first" /\ quiet' = ~Updating
    BY <1>2, <2>3 DEF QuietInv
  <2> QED BY <2>1, <2>2, <2>3
<1> QED BY <1>1, <1>2, <1>3, <1>4 DEF LockInv

-----------------------------------------------------------------------------
\* The owner thread.
LEMMA OwnerKeeps ==
    ASSUME LockInv, Update \/ \E config \in Config : ApplyControls(config)
    PROVE  LockInv'
<1>1. LockType /\ OwnerInv /\ ReaderInv /\ AdoptedInv /\ QuietInv
  BY DEF LockInv
<1>2. UNCHANGED <<reader, parameters>>
  BY DEF Update, ApplyControls, UpdateBegin, UpdateStore, UpdateEnd, loading
<1>3. /\ Len(settled) \in Nat \ {0} /\ settled \in Seq(Parameters)
      /\ \A e \in Nat : e % 2 = 0 /\ e <= epoch => e \div 2 + 1 \in 1..Len(settled)
  BY <1>1, EpochFacts DEF LockType
<1>4. writer.todo \in Seq(Field) /\ writer.config \in Parameters /\ writer \in Writer
  BY <1>1 DEF LockType, Writer
<1>5. CASE \E config \in Config : ApplyControls(config)
  <2>1. PICK config \in Config : ApplyControls(config)
    BY <1>5
  <2>2. UNCHANGED <<epoch, shared, settled, quiet>> /\ writer' \in Writer /\ ~Updating /\ ~Updating'
    <3>1. <<"enabled", "strength", "fail_mode">> \in Seq(Field)
      BY DEF Field
    <3> QED BY <2>1, <3>1, LiveAssumption DEF ApplyControls, Writer, Updating
  <2>3. LockType'
    BY <1>1, <1>2, <2>2 DEF LockType
  <2> QED BY <1>1, <1>2, <2>2, <2>3
          DEF LockInv, OwnerInv, ReaderInv, AdoptedInv, QuietInv, InForce, Has
<1>6. CASE UpdateBegin
  <2>1. /\ epoch' = epoch + 1 /\ UNCHANGED <<shared, settled>> /\ quiet' = FALSE
        /\ writer' \in Writer /\ ~Updating /\ Updating'
    BY <1>4, <1>6 DEF UpdateBegin, Writer, Updating
  <2>2. LockType'
    <3>1. epoch \in Nat /\ epoch' = epoch + 1
      BY <1>1, <2>1 DEF LockType
    <3>2. epoch' \in Nat
      BY <3>1
    <3>3. quiet' \in BOOLEAN
      BY <2>1, Zenon
    <3> QED BY <1>1, <1>2, <2>1, <3>2, <3>3 DEF LockType
  <2>3. OwnerInv' /\ QuietInv'
    BY <1>1, <1>3, <2>1 DEF OwnerInv, QuietInv
  <2>4. ReaderInv' /\ AdoptedInv'
    BY <1>1, <1>2, <2>1 DEF ReaderInv, AdoptedInv, InForce, LockType, Reader, Adopted
  <2> QED BY <2>2, <2>3, <2>4 DEF LockInv
<1>7. CASE UpdateStore
  <2>1. Head(writer.todo) \in Field
    BY <1>4, <1>7 DEF UpdateStore
  <2>2. /\ UNCHANGED <<epoch, settled, quiet>> /\ writer' \in Writer /\ Updating /\ Updating'
    BY <1>4, <1>7 DEF UpdateStore, Writer, Updating
  <2>3. shared' \in Parameters
    BY <1>1, <1>4, <1>7, <2>1 DEF UpdateStore, LockType, Parameters, Field
  <2>4. LockType'
    BY <1>1, <1>2, <2>2, <2>3 DEF LockType
  <2>5. OwnerInv' /\ QuietInv' /\ AdoptedInv'
    BY <1>1, <1>2, <2>2 DEF OwnerInv, QuietInv, AdoptedInv, InForce
  <2>6. epoch % 2 = 1
    BY <1>1, <2>2, EpochFacts
  <2>7. ReaderInv'
    BY <1>1, <1>2, <2>2, <2>6 DEF ReaderInv
  <2> QED BY <2>4, <2>5, <2>7 DEF LockInv
<1>8. CASE UpdateEnd
  <2>1. /\ epoch' = epoch + 1 /\ UNCHANGED <<shared, quiet>> /\ Updating /\ ~Updating'
        /\ settled' = Append(settled, shared) /\ writer' \in Writer
    <3>1. Tail(writer.todo) \in Seq(Field)
      BY <1>4, <1>8 DEF UpdateEnd
    <3>2. writer' = [writer EXCEPT !.todo = Tail(writer.todo), !.step = "begin"]
      BY <1>8 DEF UpdateEnd
    <3>3. writer' \in Writer /\ writer'.step = "begin"
      BY <1>4, <3>1, <3>2 DEF Writer
    <3> QED BY <1>8, <3>3 DEF UpdateEnd, Updating
  <2>2. /\ settled' \in Seq(Parameters) /\ Len(settled') = Len(settled) + 1
        /\ settled'[Len(settled) + 1] = shared
        /\ \A i \in 1..Len(settled) : settled'[i] = settled[i]
    BY <1>1, <1>3, <2>1 DEF LockType
  <2>3. LockType'
    BY <1>1, <1>2, <2>1, <2>2 DEF LockType
  <2>4. OwnerInv'
    BY <1>1, <1>3, <2>1, <2>2 DEF OwnerInv
  <2>5. ReaderInv' /\ QuietInv'
    BY <1>1, <1>2, <2>1 DEF ReaderInv, QuietInv, LockType, Reader
  <2>6. AdoptedInv'
    <3>1. parameters.epoch \in Nat /\ epoch \in Nat
      BY <1>1 DEF LockType, Adopted
    <3>2. parameters.epoch \div 2 + 1 \in 1..Len(settled)
      BY <1>1, <1>3, <3>1 DEF AdoptedInv
    <3>3. settled'[parameters.epoch \div 2 + 1] = settled[parameters.epoch \div 2 + 1]
      BY <2>2, <3>2
    <3> QED BY <1>1, <1>2, <2>1, <3>1, <3>3 DEF AdoptedInv, InForce
  <2> QED BY <2>3, <2>4, <2>5, <2>6 DEF LockInv
<1> QED BY <1>5, <1>6, <1>7, <1>8 DEF Update

\* The callback.
LEMMA LoadKeeps ==
    ASSUME LockInv,
           \/ LoadFirst \/ LoadSecond
           \/ LoadField("strength", "enabled") \/ LoadField("enabled", "fail_mode")
           \/ LoadField("fail_mode", "second")
    PROVE  LockInv'
<1>1. LockType /\ OwnerInv /\ ReaderInv /\ AdoptedInv /\ QuietInv
  BY DEF LockInv
<1>2. UNCHANGED <<epoch, shared, writer, settled, quiet>> /\ (Updating' <=> Updating)
  BY DEF LoadFirst, LoadSecond, LoadField, words, Updating
<1>3. OwnerInv'
  BY <1>1, <1>2 DEF OwnerInv
<1>4. reader \in Reader /\ parameters \in Adopted /\ epoch \in Nat /\ shared \in Parameters
  BY <1>1 DEF LockType
<1>5. CASE LoadFirst
  <2>1. parameters' = parameters
    BY <1>5 DEF LoadFirst
  <2>2. CASE NothingToLoad(epoch)
    <3>1. reader' \in Reader /\ reader'.at = "frames" /\ reader.at = "first"
      BY <1>4, <1>5, <2>2 DEF LoadFirst, Pushing, Reader, Access
    <3>2. quiet => parameters.epoch = epoch
      BY <1>1, <2>2, EpochFacts DEF QuietInv, NothingToLoad
    <3> QED BY <1>1, <1>2, <1>3, <2>1, <3>1, <3>2
            DEF LockInv, LockType, ReaderInv, AdoptedInv, QuietInv, InForce
  <2>3. CASE ~NothingToLoad(epoch)
    <3>1. reader' \in Reader /\ reader'.at = "strength" /\ reader'.first = epoch
      BY <1>4, <1>5, <2>3 DEF LoadFirst, Reader, Access
    <3>2. epoch % 2 = 0
      BY <1>4, <2>3 DEF NothingToLoad
    <3>3. ReaderInv'
      BY <1>2, <1>4, <3>1, <3>2 DEF ReaderInv, Has
    <3> QED BY <1>1, <1>2, <1>3, <2>1, <3>1, <3>3
            DEF LockInv, LockType, AdoptedInv, QuietInv, InForce
  <2> QED BY <2>2, <2>3
<1>6. ASSUME NEW field \in Field, NEW next \in {"enabled", "fail_mode", "second"}, LoadField(field, next),
             \/ field = "strength" /\ next = "enabled"
             \/ field = "enabled" /\ next = "fail_mode"
             \/ field = "fail_mode" /\ next = "second"
      PROVE  LockInv'
  <2>1. /\ reader' \in Reader /\ reader'.at = next /\ reader.at = field /\ reader'.first = reader.first
        /\ reader'.read[field] = shared[field]
        /\ \A other \in Field \ {field} : reader'.read[other] = reader.read[other]
    BY <1>4, <1>6 DEF LoadField, Reader, Access, Parameters, Field
  <2>2. parameters' = parameters
    BY <1>6 DEF LoadField
  <2>3. ReaderInv'
    BY <1>1, <1>2, <1>6, <2>1 DEF ReaderInv, Has, Field
  <2> QED BY <1>1, <1>2, <1>3, <1>6, <2>1, <2>2, <2>3
          DEF LockInv, LockType, AdoptedInv, QuietInv, InForce
<1>7. CASE LoadSecond
  <2>1. reader' \in Reader /\ reader'.at = "frames" /\ reader.at = "second"
    BY <1>4, <1>7 DEF LoadSecond, Pushing, Reader, Access
  <2>2. CASE reader.first = epoch
    <3>1. epoch % 2 = 0 /\ ~Updating
      BY <1>1, <1>4, <2>1, <2>2, EpochFacts DEF ReaderInv
    <3>2. /\ reader.read.enabled = shared.enabled /\ reader.read.strength = shared.strength
          /\ reader.read.fail_mode = shared.fail_mode
      BY <1>1, <2>1, <2>2 DEF ReaderInv, Has, Field
    <3>3. parameters' = [epoch |-> epoch, fail_mode |-> shared.fail_mode, target |-> Effective(shared)]
      BY <1>7, <2>2, <3>2 DEF LoadSecond, Effective
    <3>4. Effective(shared) \in Strength /\ shared.fail_mode \in FailMode
      BY <1>4, LiveAssumption DEF Effective, Parameters
    <3>5. parameters' \in Adopted /\ parameters'.epoch = epoch
      BY <1>4, <3>3, <3>4 DEF Adopted
    <3>6. AdoptedInv'
      <4>1. settled[epoch \div 2 + 1] = shared
        BY <1>1, <3>1, EpochFacts DEF OwnerInv
      <4> QED BY <1>2, <1>4, <3>1, <3>3, <4>1 DEF AdoptedInv, InForce
    <3> QED BY <1>1, <1>2, <1>3, <2>1, <3>1, <3>5, <3>6 DEF LockInv, LockType, ReaderInv, QuietInv
  <2>3. CASE reader.first # epoch
    <3>1. parameters' = parameters /\ ~quiet
      BY <1>1, <1>7, <2>1, <2>3 DEF LoadSecond, QuietInv
    <3> QED BY <1>1, <1>2, <1>3, <2>1, <3>1
            DEF LockInv, LockType, ReaderInv, AdoptedInv, QuietInv, InForce
  <2> QED BY <2>2, <2>3
<1> QED BY <1>5, <1>6, <1>7 DEF Field

LEMMA NextLock == LockInv /\ [Next]_vars => LockInv'
<1> SUFFICES ASSUME LockInv, [Next]_vars PROVE LockInv'
  OBVIOUS
<1>1. reader \in Reader
  BY DEF LockInv, LockType
<1>2. CASE Write
  BY <1>1, <1>2, LockFrame DEF Write, Reader, Access, words
<1>3. CASE Return
  BY <1>3, LockFrame, DefaultType DEF Return, Reader, Access, words
<1>4. CASE \/ Reset \/ Tick \/ FrameWhileFailed \/ UNCHANGED vars
           \/ \E late \in BOOLEAN : FrameProcessed(late) \/ ModelFails(late) \/ TransportFails(late)
  <2>1. UNCHANGED <<epoch, shared, writer, settled, parameters, reader, quiet>>
    BY <1>4 DEF Reset, Tick, FrameWhileFailed, FrameDone, FrameProcessed, ModelFails, TransportFails,
                vars, words, loading
  <2> QED BY <2>1, LockFrame
<1> QED BY <1>2, <1>3, <1>4, OwnerKeeps, LoadKeeps DEF Next, Callback

\* The settings the callback works with were in force as a whole.
THEOREM NothingIsTorn == Spec => []NoTornParameters
<1>1. LockInv => NoTornParameters
  <2> SUFFICES ASSUME LockInv PROVE NoTornParameters
    OBVIOUS
  <2>1. parameters.epoch \in Nat /\ settled \in Seq(Parameters)
    BY DEF LockInv, LockType, Adopted
  <2>2. parameters.epoch \div 2 + 1 \in 1..Len(settled)
    BY <2>1, EpochFacts DEF LockInv, AdoptedInv
  <2> QED BY <2>1, <2>2 DEF LockInv, AdoptedInv, NoTornParameters
<1> QED BY <1>1, InitLock, NextLock, PTL DEF Spec

\* A callback that no update overlaps heeds the settings in force.
THEOREM SettingsAreHeeded == Spec => []RevokedIsHeeded
<1>1. LockInv => RevokedIsHeeded
  <2> SUFFICES ASSUME LockInv, reader.at = "frames", quiet PROVE InForce(shared)
    BY DEF RevokedIsHeeded
  <2>1. ~Updating /\ parameters.epoch = epoch
    BY DEF LockInv, QuietInv
  <2>2. settled[parameters.epoch \div 2 + 1] = shared
    BY <2>1, EpochFacts DEF LockInv, OwnerInv
  <2> QED BY <2>2 DEF LockInv, AdoptedInv
<1> QED BY <1>1, InitLock, NextLock, PTL DEF Spec

-----------------------------------------------------------------------------
(* What the sink reports.                                                  *)

\* The place in the ring of the k-th newest miss.
Place(k) == IF window.next - k >= 0 THEN window.next - k ELSE window.next - k + Required

\* The ring holds the last misses, and the report is what they say.
ReportInv ==
    /\ window.next \in 0..Required - 1 /\ window.misses \in [0..RING - 1 -> Age \cup {None}]
    /\ recent \in Seq(Age) /\ Len(recent) <= Required
    /\ window.count = Len(recent)
    /\ \A k \in 1..Len(recent) : window.misses[Place(k)] = recent[k]
    /\ failed \in BOOLEAN /\ slow \in BOOLEAN
    /\ StateTellsTruth

LEMMA RequiredFacts == Required \in 1..RING
BY LiveAssumption DEF Required

\* The ring's successor.
LEMMA Wrap ==
    ASSUME NEW r \in Nat \ {0}, NEW i \in 0..r - 1
    PROVE  (i + 1) % r = IF i + 1 = r THEN 0 ELSE i + 1
<1>1. \A j \in 0..r - 1 : j % r = j
  OBVIOUS
<1>2. r % r = 0
  OBVIOUS
<1> QED BY <1>1, <1>2

LEMMA InitReport == Init => ReportInv
<1> SUFFICES ASSUME Init PROVE ReportInv
  OBVIOUS
<1>1. window = [misses |-> [i \in 0..RING - 1 |-> None], next |-> 0, count |-> 0]
  BY DEF Init, EmptyWindow
<1>2. recent = <<>> /\ failed = FALSE /\ slow = FALSE /\ state = "Running"
  BY DEF Init, NewShared
<1>3. recent \in Seq(Age) /\ Len(recent) = 0
  BY <1>2
<1>4. /\ window.next = 0 /\ window.count = 0
      /\ window.misses \in [0..RING - 1 -> Age \cup {None}]
  BY <1>1
<1>5. 0 \in 0..Required - 1 /\ 0 <= Required
  BY RequiredFacts, LiveAssumption
<1>6. failed \in BOOLEAN /\ slow \in BOOLEAN /\ StateTellsTruth
  BY <1>2, Zenon DEF StateTellsTruth
<1>7. \A k \in 1..Len(recent) : window.misses[Place(k)] = recent[k]
  BY <1>3
<1> QED BY <1>3, <1>4, <1>5, <1>6, <1>7 DEF ReportInv

\* A miss takes the place of the oldest one, if the ring is full.
LEMMA DeadlineKeeps ==
    ASSUME ReportInv, NEW late \in BOOLEAN, Deadline(late)
    PROVE  /\ window'.next \in 0..Required - 1
           /\ window'.misses \in [0..RING - 1 -> Age \cup {None}]
           /\ recent' \in Seq(Age) /\ Len(recent') <= Required
           /\ window'.count = Len(recent')
           /\ \A k \in 1..Len(recent') : window'.misses[Place(k)'] = recent'[k]
           /\ slow' \in BOOLEAN
           /\ slow' <=> slow \/ (late /\ Exceeded(window'))
<1>1. CASE ~late
  BY <1>1 DEF Deadline, ReportInv, Place
<1>2. CASE late
  <2> DEFINE n == Len(recent)
             m == IF n < Required THEN n + 1 ELSE Required
             next == window.next
  <2>1. n \in Nat /\ m \in 1..Required /\ m <= n + 1 /\ recent \in Seq(Age) /\ window.count = n
    BY RequiredFacts DEF ReportInv
  <2>2. recent' = SubSeq(<<0>> \o recent, 1, m)
    BY <1>2 DEF Deadline
  <2>3. /\ recent' \in Seq(Age) /\ Len(recent') = m /\ recent'[1] = 0
        /\ \A k \in 2..m : recent'[k] = recent[k - 1]
    <3> DEFINE all == <<0>> \o recent
    <3>1. all \in Seq(Age) /\ Len(all) = n + 1
      BY <2>1, LiveAssumption DEF Age
    <3>2. all[1] = 0 /\ \A k \in 2..n + 1 : all[k] = recent[k - 1]
      BY <2>1
    <3> HIDE DEF all, n, m
    <3>3. SubSeq(all, 1, m) \in Seq(Age) /\ Len(SubSeq(all, 1, m)) = m
      BY <2>1, <3>1, RequiredFacts
    <3>4. \A k \in 1..m : SubSeq(all, 1, m)[k] = all[k]
      BY <2>1, <3>1, RequiredFacts
    <3>5. recent' = SubSeq(all, 1, m)
      BY <2>2 DEF all
    <3>6. 1 \in 1..m /\ \A k \in 2..m : k \in 1..m /\ k \in 2..n + 1
      BY <2>1, RequiredFacts
    <3> QED BY <3>2, <3>3, <3>4, <3>5, <3>6
  <2>4. /\ window' = [misses |-> [window.misses EXCEPT ![next] = 0],
                      next |-> (next + 1) % Required, count |-> m]
    BY <1>2, <2>1 DEF Deadline, Record
  <2>5. (next + 1) % Required = IF next + 1 = Required THEN 0 ELSE next + 1
    <3>1. Required \in Nat \ {0} /\ next \in 0..Required - 1
      BY RequiredFacts, LiveAssumption DEF ReportInv
    <3> QED BY <3>1, Wrap
  <2>6. window'.next \in 0..Required - 1 /\ window'.count = m
    BY <2>4, <2>5, RequiredFacts DEF ReportInv
  <2>7. /\ window'.misses \in [0..RING - 1 -> Age \cup {None}]
        /\ window'.misses[next] = 0
        /\ \A i \in 0..RING - 1 : i # next => window'.misses[i] = window.misses[i]
    BY <2>4, RequiredFacts, LiveAssumption DEF ReportInv, Age
  <2> HIDE DEF n, m
  <2>8. ASSUME NEW k \in 1..m PROVE window'.misses[Place(k)'] = recent'[k]
    <3>1. CASE k = 1
      <4>1. Place(k)' = next
        BY <2>4, <2>5, <3>1, RequiredFacts DEF ReportInv, Place
      <4> QED BY <2>3, <2>7, <3>1, <4>1
    <3>2. CASE k # 1
      <4>1. k - 1 \in 1..n /\ k - 1 < Required
        BY <2>1, <3>2, RequiredFacts
      <4>2. Place(k)' = Place(k - 1) /\ Place(k - 1) # next /\ Place(k - 1) \in 0..RING - 1
        <5>1. window'.next = IF next + 1 = Required THEN 0 ELSE next + 1
          BY <2>4, <2>5
        <5>2. Required \in Nat \ {0} /\ Required <= RING /\ next \in 0..Required - 1 /\ RING \in Nat
          BY RequiredFacts, LiveAssumption DEF ReportInv
        <5>3. k \in Nat /\ k - 1 >= 1 /\ k - 1 < Required
          BY <2>1, <3>2, <4>1
        <5>4. Place(k)' = IF window'.next - k >= 0 THEN window'.next - k ELSE window'.next - k + Required
          BY DEF Place
        <5>5. Place(k - 1) = IF next - (k - 1) >= 0 THEN next - (k - 1) ELSE next - (k - 1) + Required
          BY DEF Place
        <5> HIDE DEF next
        <5> QED BY <5>1, <5>2, <5>3, <5>4, <5>5
      <4>3. window.misses[Place(k - 1)] = recent[k - 1]
        BY <4>1 DEF ReportInv, n
      <4> QED BY <2>3, <2>7, <3>2, <4>2, <4>3
    <3> QED BY <3>1, <3>2
  <2>9. Exceeded(window') <=> TooMany(recent')
    <3>1. CASE m = Required
      <4>1. Place(Required)' = window'.next
        BY <2>6, RequiredFacts DEF Place
      <4>2. window'.misses[window'.next] = recent'[Required]
        BY <2>8, <3>1, <4>1, RequiredFacts
      <4>3. recent'[Required] \in Age
        BY <2>3, <3>1, RequiredFacts
      <4> QED BY <2>3, <2>6, <3>1, <4>2, <4>3, LiveAssumption DEF Exceeded, TooMany, Age, None
    <3>2. CASE m # Required
      BY <2>3, <2>6, <3>2 DEF Exceeded, TooMany
    <3> QED BY <3>1, <3>2
  <2>10. slow' <=> slow \/ Exceeded(window')
    BY <1>2, <2>9 DEF Deadline
  <2>11. slow' \in BOOLEAN
    BY DEF Deadline
  <2> QED BY <1>2, <2>1, <2>3, <2>6, <2>7, <2>8, <2>10, <2>11
<1> QED BY <1>1, <1>2

\* A frame that is passed to the model.
LEMMA FrameKeepsReport ==
    ASSUME ReportInv, NEW late \in BOOLEAN,
           FrameProcessed(late) \/ ModelFails(late) \/ TransportFails(late)
    PROVE  ReportInv'
<1>1. Deadline(late) /\ ~failed
  BY DEF FrameProcessed, ModelFails, TransportFails
<1>2. /\ window'.next \in 0..Required - 1
      /\ window'.misses \in [0..RING - 1 -> Age \cup {None}]
      /\ recent' \in Seq(Age) /\ Len(recent') <= Required
      /\ window'.count = Len(recent')
      /\ \A k \in 1..Len(recent') : window'.misses[Place(k)'] = recent'[k]
      /\ slow' \in BOOLEAN
      /\ slow' <=> slow \/ (late /\ Exceeded(window'))
  BY <1>1, DeadlineKeeps
<1>3. failed' \in BOOLEAN /\ StateTellsTruth'
  <2>1. CASE FrameProcessed(late)
    <3>1. UNCHANGED failed /\ state' = IF late /\ Exceeded(window') THEN "DegradedPerformance" ELSE state
      BY <2>1 DEF FrameProcessed, StateAfter
    <3>2. StateTellsTruth /\ failed \in BOOLEAN
      BY DEF ReportInv
    <3> QED BY <1>1, <1>2, <3>1, <3>2 DEF StateTellsTruth
  <2>2. CASE ModelFails(late) \/ TransportFails(late)
    <3>1. failed' = TRUE /\ state' \in {"ModelFailed", "TransportFailed"}
      BY <2>2 DEF ModelFails, TransportFails
    <3> QED BY <3>1 DEF StateTellsTruth
  <2> QED BY <2>1, <2>2
<1> QED BY <1>2, <1>3 DEF ReportInv

LEMMA NextReport == ReportInv /\ [Next]_vars => ReportInv'
<1> SUFFICES ASSUME ReportInv, [Next]_vars PROVE ReportInv'
  OBVIOUS
<1>1. CASE UNCHANGED <<failed, state, window, recent, slow>>
  BY <1>1 DEF ReportInv, StateTellsTruth, Place
<1>2. CASE Reset
  <2>1. window' = EmptyWindow /\ recent' = <<>> /\ failed' = FALSE /\ slow' = FALSE /\ state' = "Running"
    BY <1>2 DEF Reset
  <2>2. /\ window'.next = 0 /\ window'.count = 0
        /\ window'.misses \in [0..RING - 1 -> Age \cup {None}]
    BY <2>1 DEF EmptyWindow
  <2>3. recent' \in Seq(Age) /\ Len(recent') = 0
    BY <2>1
  <2>4. 0 \in 0..Required - 1 /\ 0 <= Required
    BY RequiredFacts, LiveAssumption
  <2>5. failed' \in BOOLEAN /\ slow' \in BOOLEAN /\ StateTellsTruth'
    BY <2>1, Zenon DEF StateTellsTruth
  <2>6. \A k \in 1..Len(recent') : window'.misses[Place(k)'] = recent'[k]
    BY <2>3
  <2> QED BY <2>2, <2>3, <2>4, <2>5, <2>6 DEF ReportInv
<1>3. CASE Tick
  <2>1. /\ window' = [window EXCEPT !.misses = [i \in 0..RING - 1 |-> Older(window.misses[i])]]
        /\ recent' = [k \in 1..Len(recent) |-> Older(recent[k])]
        /\ UNCHANGED <<failed, state, slow>>
    BY <1>3 DEF Tick
  <2>2. /\ window.misses \in [0..RING - 1 -> Age \cup {None}] /\ recent \in Seq(Age)
        /\ Len(recent) \in Nat
    BY DEF ReportInv
  <2>3. \A age \in Age \cup {None} : Older(age) \in Age \cup {None} /\ (age \in Age => Older(age) \in Age)
    BY LiveAssumption DEF Older, Age, None
  <2>4. /\ window'.next = window.next /\ window'.count = window.count
        /\ window'.misses = [i \in 0..RING - 1 |-> Older(window.misses[i])]
    BY <2>1
  <2>5. recent' \in Seq(Age) /\ Len(recent') = Len(recent)
    <3>1. \A k \in 1..Len(recent) : Older(recent[k]) \in Age
      BY <2>2, <2>3
    <3>2. recent' \in [1..Len(recent) -> Age]
      BY <2>1, <3>1
    <3> QED BY <2>2, <3>2
  <2>6. window'.misses \in [0..RING - 1 -> Age \cup {None}]
    BY <2>2, <2>3, <2>4
  <2>7. ASSUME NEW k \in 1..Len(recent') PROVE window'.misses[Place(k)'] = recent'[k]
    <3>1. Place(k)' = Place(k) /\ Place(k) \in 0..RING - 1 /\ k \in 1..Len(recent)
      BY <2>4, <2>5, RequiredFacts, LiveAssumption DEF Place, ReportInv
    <3>2. window.misses[Place(k)] = recent[k]
      BY <3>1 DEF ReportInv
    <3> QED BY <2>1, <2>4, <3>1, <3>2
  <2>8. failed' \in BOOLEAN /\ slow' \in BOOLEAN /\ StateTellsTruth'
    BY <2>1 DEF ReportInv, StateTellsTruth
  <2> QED BY <2>4, <2>5, <2>6, <2>7, <2>8 DEF ReportInv
<1>4. CASE Update \/ \E config \in Config : ApplyControls(config)
  <2>1. UNCHANGED <<failed, state, window, recent, slow>>
    BY <1>4 DEF Update, ApplyControls, UpdateBegin, UpdateStore, UpdateEnd, processing
  <2> QED BY <1>1, <2>1
<1>5. CASE \/ Write \/ LoadFirst \/ LoadSecond \/ FrameWhileFailed \/ Return \/ UNCHANGED vars
           \/ LoadField("strength", "enabled") \/ LoadField("enabled", "fail_mode")
           \/ LoadField("fail_mode", "second")
  <2>1. UNCHANGED <<failed, state, window, recent, slow>>
    BY <1>5 DEF Write, LoadFirst, LoadSecond, FrameWhileFailed, Return, LoadField, processing, vars
  <2> QED BY <1>1, <2>1
<1> QED BY <1>2, <1>3, <1>4, <1>5, FrameKeepsReport DEF Next, Callback

\* A failure is reported exactly while the sink is latched, degradation exactly
\* since so many late calls lay in one window.
THEOREM ReportIsTrue == Spec => []StateTellsTruth
<1>1. ReportInv => StateTellsTruth
  BY DEF ReportInv
<1> QED BY <1>1, InitReport, NextReport, PTL DEF Spec

\* Nothing processed leaves a latched sink, and nothing raw unless the settings
\* it works with, which were in force as a whole, opted in.
THEOREM SinkFailsClosed == Spec => FailsClosed
<1> DEFINE WrittenInv ==
      (failed => written # "mixed") /\ (reader.at # "frames" => written = "nothing")
<1> DEFINE Closed ==
      /\ failed => written' # "mixed"
      /\ written' = "dry" /\ frames' # frames =>
           failed' /\ settled[parameters.epoch \div 2 + 1].fail_mode = "Open"
<1>1. Init => WrittenInv
  BY DEF Init
<1>2. WrittenInv /\ [Next]_vars => WrittenInv'
  <2> SUFFICES ASSUME WrittenInv, [Next]_vars PROVE WrittenInv'
    OBVIOUS
  <2>1. CASE UNCHANGED <<failed, written, reader>>
    BY <2>1
  <2>2. CASE Write \/ Return \/ Reset \/ Tick
    BY <2>2 DEF Write, Return, Reset, Tick
  <2>3. CASE FrameWhileFailed
    BY <2>3 DEF FrameWhileFailed, Processing, FrameDone
  <2>4. ASSUME NEW late \in BOOLEAN, FrameProcessed(late) \/ ModelFails(late) \/ TransportFails(late)
        PROVE  WrittenInv'
    BY <2>4 DEF FrameProcessed, ModelFails, TransportFails, Processing, FrameDone
  <2>5. CASE Update \/ (\E config \in Config : ApplyControls(config)) \/ UNCHANGED vars
    BY <2>1, <2>5 DEF Update, ApplyControls, UpdateBegin, UpdateStore, UpdateEnd, loading, processing, vars
  <2>6. CASE \/ LoadFirst \/ LoadSecond
             \/ LoadField("strength", "enabled") \/ LoadField("enabled", "fail_mode")
             \/ LoadField("fail_mode", "second")
    <3>1. reader.at # "frames" /\ UNCHANGED <<failed, written>>
      BY <2>6 DEF LoadFirst, LoadSecond, LoadField, processing
    <3> QED BY <3>1
  <2> QED BY <2>2, <2>3, <2>4, <2>5, <2>6 DEF Next, Callback
<1>3. LockInv /\ WrittenInv /\ [Next]_vars => [Closed]_vars
  <2> SUFFICES ASSUME LockInv, WrittenInv, Next PROVE Closed
    OBVIOUS
  <2>1. parameters.fail_mode = settled[parameters.epoch \div 2 + 1].fail_mode
    BY DEF LockInv, AdoptedInv, InForce
  <2>2. CASE FrameWhileFailed
    BY <2>1, <2>2 DEF FrameWhileFailed
  <2>3. ASSUME NEW late \in BOOLEAN, FrameProcessed(late) \/ ModelFails(late) \/ TransportFails(late)
        PROVE  Closed
    BY <2>1, <2>3 DEF FrameProcessed, ModelFails, TransportFails
  <2>4. CASE Write \/ Return \/ Reset \/ Tick
    BY <2>4 DEF Write, Return, Reset, Tick
  <2>5. CASE Update \/ \E config \in Config : ApplyControls(config)
    BY <2>5 DEF Update, ApplyControls, UpdateBegin, UpdateStore, UpdateEnd, processing
  <2>6. CASE \/ LoadFirst \/ LoadSecond
             \/ LoadField("strength", "enabled") \/ LoadField("enabled", "fail_mode")
             \/ LoadField("fail_mode", "second")
    <3>1. reader.at # "frames" /\ UNCHANGED <<failed, written>>
      BY <2>6 DEF LoadFirst, LoadSecond, LoadField, processing
    <3> QED BY <3>1
  <2> QED BY <2>2, <2>3, <2>4, <2>5, <2>6 DEF Next, Callback
<1> QED BY <1>1, <1>2, <1>3, InitLock, NextLock, PTL DEF Spec, FailsClosed

-----------------------------------------------------------------------------
(***************************************************************************)
(* The samples of a line.                                                  *)
(***************************************************************************)
Sample == [at : Int, heard : BOOLEAN]

\* A piece of the stream: its samples follow one another from a position on,
\* and none from before the last reset can be heard.
Piece(line, first, from) ==
    /\ line \in Seq(Sample)
    /\ \A j \in 1 .. Len(line) : /\ line[j].at = first + j - 1
                                 /\ line[j].heard => line[j].at >= from

LEMMA JoinPieces ==
    ASSUME NEW a, NEW b, NEW p \in Int, NEW from \in Int,
           Piece(a, p, from), Piece(b, p + Len(a), from)
    PROVE  Piece(a \o b, p, from) /\ Len(a \o b) = Len(a) + Len(b)
<1>1. a \in Seq(Sample) /\ b \in Seq(Sample) /\ Len(a) \in Nat /\ Len(b) \in Nat
    BY DEF Piece
<1>2. a \o b \in Seq(Sample) /\ Len(a \o b) = Len(a) + Len(b)
    BY <1>1
<1>3. ASSUME NEW j \in 1 .. Len(a \o b)
      PROVE  /\ (a \o b)[j].at = p + j - 1
             /\ (a \o b)[j].heard => (a \o b)[j].at >= from
    <2>1. CASE j <= Len(a)
        <3>1. j \in 1 .. Len(a) /\ (a \o b)[j] = a[j]
            BY <1>1, <1>2, <2>1
        <3> QED BY <3>1 DEF Piece
    <2>2. CASE j > Len(a)
        <3> DEFINE k == j - Len(a)
        <3>1. k \in 1 .. Len(b) /\ (a \o b)[j] = b[k] /\ j = Len(a) + k
            BY <1>1, <1>2, <2>2
        <3>2. b[k].at = p + Len(a) + k - 1 /\ (b[k].heard => b[k].at >= from)
            BY <3>1 DEF Piece
        <3> HIDE DEF k
        <3> QED BY <1>1, <3>1, <3>2
    <2> QED BY <1>1, <1>2, <2>1, <2>2
<1> QED BY <1>2, <1>3 DEF Piece

LEMMA CutPiece ==
    ASSUME NEW a, NEW p \in Int, NEW from \in Int, Piece(a, p, from),
           NEW m \in Nat \ {0}, NEW n \in Nat, m <= n + 1, n <= Len(a)
    PROVE  Piece(SubSeq(a, m, n), p + m - 1, from) /\ Len(SubSeq(a, m, n)) = n - m + 1
<1>1. a \in Seq(Sample) /\ Len(a) \in Nat
    BY DEF Piece
<1> DEFINE c == SubSeq(a, m, n)
<1>2. c \in Seq(Sample) /\ Len(c) = n - m + 1 /\ \A j \in 1 .. n - m + 1 : c[j] = a[m + j - 1]
    BY <1>1
<1> HIDE DEF c
<1>3. ASSUME NEW j \in 1 .. Len(c)
      PROVE  c[j].at = p + m - 1 + j - 1 /\ (c[j].heard => c[j].at >= from)
    <2>1. m + j - 1 \in 1 .. Len(a) /\ c[j] = a[m + j - 1]
        BY <1>1, <1>2
    <2>2. a[m + j - 1].at = p + (m + j - 1) - 1 /\ (a[m + j - 1].heard => a[m + j - 1].at >= from)
        BY <2>1 DEF Piece
    <2> QED BY <2>1, <2>2
<1>4. Piece(c, p + m - 1, from)
    BY <1>2, <1>3 DEF Piece
<1> QED BY <1>2, <1>4 DEF c

LEMMA EmptyPiece ==
    ASSUME NEW p \in Int, NEW from \in Int
    PROVE  Piece(<<>>, p, from) /\ Len(<<>>) = 0
BY DEF Piece

LEMMA ZerosPiece ==
    ASSUME NEW n \in Nat, NEW p \in Int, NEW from \in Int
    PROVE  Piece(Zeros(n, p), p - n, from) /\ Len(Zeros(n, p)) = n
<1>1. \A j \in 1 .. n : Zero(p - n + j - 1) \in Sample
    BY DEF Zero, Sample
<1>2. Zeros(n, p) \in Seq(Sample) /\ Len(Zeros(n, p)) = n
    BY <1>1 DEF Zeros
<1>3. \A j \in 1 .. n : Zeros(n, p)[j] = Zero(p - n + j - 1)
    BY DEF Zeros
<1> QED BY <1>2, <1>3 DEF Piece, Zero

LEMMA SanitizedPiece ==
    ASSUME NEW n \in Nat, NEW zeroed, NEW first \in Int, NEW from \in Int, from <= first
    PROVE  Piece(Sanitized(n, zeroed, first), first, from) /\ Len(Sanitized(n, zeroed, first)) = n
<1> DEFINE s(j) == [at |-> first + j - 1, heard |-> j # zeroed]
<1>1. \A j \in 1 .. n : s(j) \in Sample
    BY DEF Sample
<1>2. Sanitized(n, zeroed, first) = [j \in 1 .. n |-> s(j)]
    BY DEF Sanitized
<1>3. \A j \in 1 .. n : s(j).at = first + j - 1
    OBVIOUS
<1> HIDE DEF s
<1>4. Sanitized(n, zeroed, first) \in Seq(Sample) /\ Len(Sanitized(n, zeroed, first)) = n
    BY <1>1, <1>2
<1>5. \A j \in 1 .. n : Sanitized(n, zeroed, first)[j] = s(j)
    BY <1>2
<1> QED BY <1>3, <1>4, <1>5 DEF Piece

-----------------------------------------------------------------------------
(***************************************************************************)
(* The stages between them hold the stream in one piece.                   *)
(***************************************************************************)
\* The position before the first that no frame has taken.
Framed == captured - Len(input) - Len(pending)

LineInv ==
    /\ model \in SPECS /\ Accepted(model)
    /\ captured \in Nat /\ since \in 1 .. captured + 1 /\ latched \in BOOLEAN
    /\ Piece(input, captured - Len(input) + 1, since)
    /\ Piece(pending, Framed + 1, since) /\ Len(pending) < FRAME
    /\ Piece(delayed, Framed - model.delay + 1, since) /\ Len(delayed) = model.delay
    /\ ~latched => recurrent = delayed

\* A frame whose two parts are the same piece of the stream, up to a position.
Even(frame, last, from) ==
    /\ DOMAIN frame = 1 .. FRAME
    /\ \A j \in 1 .. FRAME : frame[j].dry = frame[j].wet
    /\ \A j \in 1 .. FRAME : frame[j].dry.at = last - FRAME + j
    /\ \A j \in 1 .. FRAME : frame[j].dry.heard => frame[j].dry.at >= from

LEMMA EvenAt ==
    ASSUME NEW frame, NEW last \in Int, NEW from \in Int, Even(frame, last, from), NEW j \in 1 .. FRAME
    PROVE  /\ frame[j].dry = frame[j].wet
           /\ frame[j].dry.at = last - FRAME + j
           /\ frame[j].dry.heard => frame[j].dry.at >= from
BY SignalAssumption DEF Even

\* The frame last sent ends where the next one begins, if none was held back.
SentInv ==
    sent # <<>> =>
        \E last \in Int : /\ Even(sent, last, since)
                          /\ ~skipped => last = Framed - model.delay

SignalInv == LineInv /\ SentInv

LEMMA LineTypes ==
    ASSUME LineInv
    PROVE  /\ model.delay \in Nat /\ captured \in Nat /\ since \in Int /\ since <= captured + 1
           /\ Len(input) \in Nat /\ Len(pending) \in Nat /\ Len(delayed) \in Nat
           /\ input \in Seq(Sample) /\ pending \in Seq(Sample) /\ delayed \in Seq(Sample)
<1>1. model.delay \in Nat
    BY SignalAssumption DEF LineInv
<1> QED BY <1>1 DEF LineInv, Piece

LEMMA InitSignal == SignalInit => SignalInv
<1> SUFFICES ASSUME SignalInit PROVE SignalInv
    OBVIOUS
<1>1. /\ model \in SPECS /\ Accepted(model) /\ captured = 0 /\ input = <<>> /\ pending = <<>>
      /\ delayed = Zeros(model.delay, 1) /\ recurrent = delayed /\ since = 1 /\ sent = <<>>
      /\ latched = FALSE
    BY DEF SignalInit
<1>2. model.delay \in Nat /\ FRAME \in Nat \ {0}
    BY <1>1, SignalAssumption
<1>3. Piece(Zeros(model.delay, 1), 1 - model.delay, 1) /\ Len(Zeros(model.delay, 1)) = model.delay
    <2> DEFINE D == model.delay
    <2>1. D \in Nat /\ 1 \in Int
        BY <1>2
    <2> HIDE DEF D
    <2>2. Piece(Zeros(D, 1), 1 - D, 1) /\ Len(Zeros(D, 1)) = D
        BY <2>1, ZerosPiece
    <2> QED BY <2>2 DEF D
<1>4. Len(input) = 0 /\ Len(pending) = 0 /\ Framed = 0
    <2>1. Len(input) = 0 /\ Len(pending) = 0
        BY <1>1
    <2>2. captured = 0
        BY <1>1
    <2>3. Framed = captured - Len(input) - Len(pending)
        BY DEF Framed
    <2> QED BY <2>1, <2>2, <2>3
<1>5. Piece(input, 1, 1) /\ Piece(pending, 1, 1)
    BY <1>1, EmptyPiece
<1>6. captured - Len(input) + 1 = 1 /\ Framed + 1 = 1 /\ Framed - model.delay + 1 = 1 - model.delay
    BY <1>1, <1>2, <1>4
<1>7. since \in 1 .. captured + 1 /\ Len(pending) < FRAME
    BY <1>1, <1>2, <1>4
<1>8. LineInv
    BY <1>1, <1>3, <1>5, <1>6, <1>7 DEF LineInv
<1> QED BY <1>1, <1>8 DEF SignalInv, SentInv

LEMMA WriteKeepsSignal ==
    ASSUME SignalInv, NEW n \in Nat, NEW zeroed, NEW target, NEW mode,
           WriteCallback(n, zeroed, target, mode)
    PROVE  SignalInv'
<1> USE DEF SignalInv
<1>1. /\ input = <<>> /\ captured' = captured + n
      /\ input' = Sanitized(n, zeroed, captured + 1)
      /\ model' = model /\ pending' = pending /\ delayed' = delayed /\ recurrent' = recurrent
      /\ latched' = latched /\ sent' = sent /\ since' = since /\ skipped' = skipped
    BY DEF WriteCallback
<1>2. /\ model.delay \in Nat /\ captured \in Nat /\ since \in Int /\ since <= captured + 1
      /\ Len(pending) \in Nat
    BY LineTypes
<1>3. Piece(input', captured + 1, since) /\ Len(input') = n
    BY <1>1, <1>2, SanitizedPiece
<1>4. Framed = captured - Len(pending) /\ Framed' = Framed
    <2>1. Len(input) = 0
        BY <1>1
    <2> QED BY <1>1, <1>2, <1>3, <2>1 DEF Framed
<1>5. captured' - Len(input') + 1 = captured + 1
    BY <1>1, <1>2, <1>3
<1>6. captured' \in Nat /\ since \in 1 .. captured' + 1
    BY <1>1, <1>2 DEF LineInv
<1>7. LineInv'
    BY <1>1, <1>3, <1>4, <1>5, <1>6 DEF LineInv
<1>8. SentInv'
    BY <1>1, <1>4 DEF SentInv
<1> QED BY <1>7, <1>8

LEMMA AssembleKeepsSignal ==
    ASSUME SignalInv, Assemble
    PROVE  SignalInv'
<1> USE DEF SignalInv
<1>1. /\ Len(input) < FRAME - Len(pending) /\ pending' = pending \o input /\ input' = <<>>
      /\ model' = model /\ captured' = captured /\ delayed' = delayed /\ recurrent' = recurrent
      /\ latched' = latched /\ sent' = sent /\ since' = since /\ skipped' = skipped
    BY DEF Assemble, Needed
<1>2. /\ model.delay \in Nat /\ captured \in Nat /\ since \in Int /\ FRAME \in Nat
      /\ Len(pending) \in Nat /\ Len(input) \in Nat
    BY LineTypes, SignalAssumption
<1>3. Piece(pending, Framed + 1, since) /\ Piece(input, captured - Len(input) + 1, since)
    BY DEF LineInv
<1>4. Framed \in Int /\ captured - Len(input) + 1 = Framed + 1 + Len(pending)
    BY <1>2 DEF Framed
<1>5. Piece(pending', Framed + 1, since) /\ Len(pending') = Len(pending) + Len(input)
    BY <1>1, <1>2, <1>3, <1>4, JoinPieces
<1>6. Len(input') = 0 /\ Framed' = Framed
    BY <1>1, <1>2, <1>5 DEF Framed
<1>7. Piece(input', captured - Len(input') + 1, since)
    BY <1>1, <1>2, <1>6, EmptyPiece
<1>8. Len(pending') < FRAME
    BY <1>1, <1>2, <1>5
<1>9. LineInv'
    BY <1>1, <1>5, <1>6, <1>7, <1>8 DEF LineInv
<1>10. SentInv'
    BY <1>1, <1>6 DEF SentInv
<1> QED BY <1>9, <1>10

LEMMA ResetKeepsSignal ==
    ASSUME SignalInv, ResetStages
    PROVE  SignalInv'
<1> USE DEF SignalInv
<1>1. /\ input = <<>> /\ pending' = <<>> /\ delayed' = Zeros(model.delay, captured + 1)
      /\ recurrent' = delayed' /\ latched' = FALSE /\ since' = captured + 1 /\ sent' = <<>>
      /\ model' = model /\ captured' = captured /\ input' = input
    BY DEF ResetStages, Forgotten
<1>2. model.delay \in Nat /\ captured \in Nat /\ FRAME \in Nat \ {0}
    BY LineTypes, SignalAssumption
<1>3. Len(input') = 0 /\ Len(pending') = 0 /\ Framed' = captured
    BY <1>1, <1>2 DEF Framed
<1>4. /\ Piece(delayed', captured + 1 - model.delay, captured + 1)
      /\ Len(delayed') = model.delay
    <2> DEFINE D == model.delay
               P == captured + 1
    <2>1. D \in Nat /\ P \in Int
        BY <1>2
    <2> HIDE DEF D, P
    <2>2. Piece(Zeros(D, P), P - D, P) /\ Len(Zeros(D, P)) = D
        BY <2>1, ZerosPiece
    <2>3. delayed' = Zeros(D, P)
        BY <1>1 DEF D, P
    <2>4. Piece(delayed', P - D, P) /\ Len(delayed') = D
        BY <2>2, <2>3
    <2> QED BY <1>2, <2>4 DEF D, P
<1>5. Piece(input', captured + 1, captured + 1) /\ Piece(pending', captured + 1, captured + 1)
    BY <1>1, <1>2, EmptyPiece
<1>6. /\ captured' - Len(input') + 1 = captured + 1 /\ Framed' + 1 = captured + 1
      /\ Framed' - model'.delay + 1 = captured + 1 - model.delay
      /\ captured + 1 \in 1 .. captured' + 1 /\ Len(pending') < FRAME
    BY <1>1, <1>2, <1>3
<1>7. LineInv'
    BY <1>1, <1>4, <1>5, <1>6 DEF LineInv
<1>8. SentInv'
    BY <1>1 DEF SentInv
<1> QED BY <1>7, <1>8

\* Taking a frame out of the assembler and through the dry delay.
LEMMA EmitFacts ==
    ASSUME LineInv, Emit
    PROVE  /\ Framed' = Framed + FRAME /\ Framed \in Int /\ Framed' \in Int
           /\ Piece(input', captured' - Len(input') + 1, since')
           /\ Piece(pending', Framed' + 1, since') /\ Len(pending') < FRAME
           /\ Piece(delayed', Framed' - model'.delay + 1, since') /\ Len(delayed') = model'.delay
           /\ Piece(DryFrame, Framed - model.delay + 1, since) /\ Len(DryFrame) = FRAME
<1> DEFINE D == model.delay
           N == Needed
           Li == Len(input)
           Lp == Len(pending)
           taken == SubSeq(input, 1, N)
           rest == SubSeq(input, N + 1, Li)
           line == delayed \o Frame
<1>1. /\ input # <<>> /\ Li >= N /\ pending' = <<>> /\ input' = rest
      /\ delayed' = Kept(delayed, Frame) /\ model' = model /\ captured' = captured /\ since' = since
    BY DEF Emit
<1>2. /\ D \in Nat /\ captured \in Nat /\ since \in Int /\ Li \in Nat /\ Lp \in Nat
      /\ FRAME \in Nat \ {0} /\ Lp < FRAME /\ N = FRAME - Lp /\ N \in Nat \ {0}
      /\ Framed = captured - Li - Lp /\ Framed \in Int
    BY LineTypes, SignalAssumption DEF LineInv, Needed, Framed
<1>3. Piece(input, captured - Li + 1, since) /\ captured - Li + 1 \in Int
    BY <1>2 DEF LineInv
<1>4. /\ Piece(pending, Framed + 1, since)
      /\ Piece(delayed, Framed - D + 1, since) /\ Len(delayed) = D
    BY DEF LineInv
<1> HIDE DEF D, N, Li, taken, rest
<1>5. Piece(taken, captured - Li + 1, since) /\ Len(taken) = N
    <2>1. 1 \in Nat \ {0} /\ 1 <= N + 1 /\ N \in Nat /\ N <= Len(input)
          /\ captured - Li + 1 + 1 - 1 = captured - Li + 1 /\ N - 1 + 1 = N
        BY <1>1, <1>2, <1>3 DEF Li
    <2> QED BY <1>2, <1>3, <2>1, CutPiece DEF taken
<1>6. Piece(rest, captured - Li + N + 1, since) /\ Len(rest) = Li - N
    <2>1. N + 1 \in Nat \ {0} /\ N + 1 <= Li + 1 /\ Li \in Nat /\ Li <= Len(input)
          /\ captured - Li + 1 + (N + 1) - 1 = captured - Li + N + 1 /\ Li - (N + 1) + 1 = Li - N
        BY <1>1, <1>2 DEF Li
    <2> QED BY <1>2, <1>3, <2>1, CutPiece DEF rest
<1>7. Piece(Frame, Framed + 1, since) /\ Len(Frame) = FRAME
    <2>1. captured - Li + 1 = Framed + 1 + Lp /\ Framed + 1 \in Int
        BY <1>2
    <2>2. Piece(pending \o taken, Framed + 1, since) /\ Len(pending \o taken) = Lp + N
        BY <1>2, <1>4, <1>5, <2>1, JoinPieces
    <2> QED BY <1>2, <2>2 DEF Frame, taken, N
<1>8. Piece(line, Framed - D + 1, since) /\ Len(line) = D + FRAME
    <2>1. Framed + 1 = Framed - D + 1 + Len(delayed) /\ Framed - D + 1 \in Int
        BY <1>2, <1>4
    <2> QED BY <1>2, <1>4, <1>7, <2>1, JoinPieces
<1> HIDE DEF Lp, line
<1>9. Piece(DryFrame, Framed - D + 1, since) /\ Len(DryFrame) = FRAME
    <2>1. DryFrame = SubSeq(line, 1, FRAME)
        BY <1>7 DEF DryFrame, Out, line
    <2>2. 1 \in Nat \ {0} /\ 1 <= FRAME + 1 /\ FRAME \in Nat /\ FRAME <= Len(line)
          /\ Framed - D + 1 \in Int
          /\ Framed - D + 1 + 1 - 1 = Framed - D + 1 /\ FRAME - 1 + 1 = FRAME
        BY <1>2, <1>8
    <2>3. Piece(SubSeq(line, 1, FRAME), Framed - D + 1 + 1 - 1, since)
          /\ Len(SubSeq(line, 1, FRAME)) = FRAME - 1 + 1
        BY <1>2, <1>8, <2>2, CutPiece
    <2> QED BY <2>1, <2>2, <2>3
<1>10. Piece(delayed', Framed + FRAME - D + 1, since) /\ Len(delayed') = D
    <2>1. delayed' = SubSeq(line, FRAME + 1, D + FRAME)
        <3>1. delayed' = SubSeq(line, Len(line) - D + 1, Len(line))
            BY <1>1, <1>4 DEF Kept, Last, line
        <3>2. Len(line) - D + 1 = FRAME + 1 /\ Len(line) = D + FRAME
            BY <1>2, <1>8
        <3> QED BY <3>1, <3>2
    <2>2. FRAME + 1 \in Nat \ {0} /\ FRAME + 1 <= D + FRAME + 1 /\ D + FRAME \in Nat
          /\ D + FRAME <= Len(line) /\ Framed - D + 1 \in Int
          /\ Framed - D + 1 + (FRAME + 1) - 1 = Framed + FRAME - D + 1
          /\ D + FRAME - (FRAME + 1) + 1 = D
        BY <1>2, <1>8
    <2>3. Piece(SubSeq(line, FRAME + 1, D + FRAME), Framed - D + 1 + (FRAME + 1) - 1, since)
          /\ Len(SubSeq(line, FRAME + 1, D + FRAME)) = D + FRAME - (FRAME + 1) + 1
        BY <1>2, <1>8, <2>2, CutPiece
    <2> QED BY <2>1, <2>2, <2>3
<1>11. Len(pending') = 0 /\ Len(input') = Li - N /\ captured' = captured
    BY <1>1, <1>6
<1>12. Framed' = Framed + FRAME
    <2>1. Framed' = captured' - Len(input') - Len(pending')
        BY DEF Framed
    <2> QED BY <1>2, <1>11, <2>1
<1>13. Piece(input', captured' - Len(input') + 1, since')
    <2>1. captured' - Len(input') + 1 = captured - Li + N + 1
        BY <1>2, <1>11
    <2> QED BY <1>1, <1>6, <2>1
<1>14. Piece(pending', Framed' + 1, since') /\ Len(pending') < FRAME
    <2>1. Framed' + 1 \in Int
        BY <1>2, <1>12
    <2> QED BY <1>1, <1>2, <1>11, <2>1, EmptyPiece
<1> QED BY <1>1, <1>2, <1>9, <1>10, <1>12, <1>13, <1>14 DEF D

\* The frame that is sent is even when its two parts are one piece.
LEMMA MixedIsEven ==
    ASSUME NEW dry, NEW last \in Int, NEW from \in Int,
           Piece(dry, last - FRAME + 1, from), Len(dry) = FRAME
    PROVE  /\ Even(Mixed(dry, dry), last, from) /\ Even(Opened(dry), last, from)
           /\ Mixed(dry, dry) # <<>> /\ Opened(dry) # <<>>
<1>1. FRAME \in Nat \ {0}
    BY SignalAssumption
<1>2. /\ \A j \in 1 .. FRAME : dry[j].at = last - FRAME + j
      /\ \A j \in 1 .. FRAME : dry[j].heard => dry[j].at >= from
    BY <1>1 DEF Piece
<1>3. Even(Mixed(dry, dry), last, from)
    <2> DEFINE frame == Mixed(dry, dry)
    <2>1. /\ DOMAIN frame = 1 .. FRAME
          /\ \A j \in 1 .. FRAME : frame[j].dry = dry[j]
          /\ \A j \in 1 .. FRAME : frame[j].wet = dry[j]
        BY DEF Mixed
    <2> HIDE DEF frame
    <2>2. \A j \in 1 .. FRAME : frame[j].dry = frame[j].wet
        BY <2>1
    <2>3. \A j \in 1 .. FRAME : frame[j].dry.at = last - FRAME + j
        BY <1>2, <2>1, Zenon
    <2>4. \A j \in 1 .. FRAME : frame[j].dry.heard => frame[j].dry.at >= from
        BY <1>2, <2>1, Zenon
    <2>5. Even(frame, last, from)
        BY <2>1, <2>2, <2>3, <2>4 DEF Even
    <2> QED BY <2>5 DEF frame
<1>4. Even(Opened(dry), last, from)
    <2> DEFINE frame == Opened(dry)
    <2>1. /\ DOMAIN frame = 1 .. FRAME
          /\ \A j \in 1 .. FRAME : frame[j].dry = dry[j]
          /\ \A j \in 1 .. FRAME : frame[j].wet = dry[j]
        BY DEF Opened
    <2> HIDE DEF frame
    <2>2. \A j \in 1 .. FRAME : frame[j].dry = frame[j].wet
        BY <2>1
    <2>3. \A j \in 1 .. FRAME : frame[j].dry.at = last - FRAME + j
        BY <1>2, <2>1, Zenon
    <2>4. \A j \in 1 .. FRAME : frame[j].dry.heard => frame[j].dry.at >= from
        BY <1>2, <2>1, Zenon
    <2>5. Even(frame, last, from)
        BY <2>1, <2>2, <2>3, <2>4 DEF Even
    <2> QED BY <2>5 DEF frame
<1>5. 1 \in DOMAIN Mixed(dry, dry) /\ 1 \in DOMAIN Opened(dry)
    BY <1>1 DEF Mixed, Opened
<1>6. 1 \notin DOMAIN <<>>
    OBVIOUS
<1> QED BY <1>3, <1>4, <1>5, <1>6

\* What a completed frame does to what is sent.
LEMMA FrameKeepsSignal ==
    ASSUME SignalInv, Bypass \/ Process \/ InferenceFails
    PROVE  /\ SignalInv'
           /\ sent' = sent \/ Even(sent', Framed - model.delay + FRAME, since)
<1> USE DEF SignalInv
<1>1. Emit
    BY DEF Bypass, Process, InferenceFails
<1>2. /\ Framed' = Framed + FRAME /\ Framed \in Int /\ Framed' \in Int
      /\ Piece(input', captured' - Len(input') + 1, since')
      /\ Piece(pending', Framed' + 1, since') /\ Len(pending') < FRAME
      /\ Piece(delayed', Framed' - model'.delay + 1, since') /\ Len(delayed') = model'.delay
      /\ Piece(DryFrame, Framed - model.delay + 1, since) /\ Len(DryFrame) = FRAME
    BY <1>1, EmitFacts
<1>3. model' = model /\ captured' = captured /\ since' = since /\ delayed' = Kept(delayed, Frame)
    BY <1>1 DEF Emit
<1>4. /\ model.delay \in Nat /\ captured \in Nat /\ since \in Int /\ FRAME \in Nat \ {0}
    BY LineTypes, SignalAssumption
<1> DEFINE last == Framed - model.delay + FRAME
<1>5. last \in Int /\ last - FRAME + 1 = Framed - model.delay + 1 /\ last = Framed' - model'.delay
    BY <1>2, <1>3, <1>4
<1>6. /\ Even(Mixed(DryFrame, DryFrame), last, since) /\ Even(Opened(DryFrame), last, since)
    BY <1>2, <1>4, <1>5, MixedIsEven
<1>7. /\ latched' \in BOOLEAN
      /\ ~latched' => recurrent' = delayed'
      /\ \/ sent' = sent /\ skipped' = TRUE
         \/ sent' \in {Mixed(DryFrame, DryFrame), Opened(DryFrame)} /\ skipped' = FALSE
    <2>1. CASE Bypass
        BY <2>1 DEF Bypass, PublishDry, Sends, Unsent, LineInv
    <2>2. CASE Process
        <3>1. recurrent = delayed
            BY <2>2 DEF Process, LineInv
        <3>2. /\ recurrent' = Kept(delayed, Frame)
              /\ Inferred(recurrent, Frame).output = DryFrame
            BY <2>2, <3>1 DEF Process, Inferred, DryFrame
        <3>3. \/ Sends(Mixed(DryFrame, DryFrame)) /\ latched' = latched
              \/ Unsent /\ latched' = TRUE
            BY <2>2, <3>2 DEF Process
        <3> QED BY <1>3, <3>2, <3>3 DEF Sends, Unsent, LineInv
    <2>3. CASE InferenceFails
        <3>1. /\ latched' = TRUE
              /\ Sends(Opened(DryFrame)) \/ Unsent
            BY <2>3 DEF InferenceFails
        <3> QED BY <3>1 DEF Sends, Unsent
    <2> QED BY <2>1, <2>2, <2>3
<1>8. LineInv'
    BY <1>2, <1>3, <1>4, <1>7 DEF LineInv
<1> HIDE DEF last
<1>9. SentInv'
    <2>1. CASE sent' = sent /\ skipped' = TRUE
        BY <1>3, <2>1 DEF SentInv
    <2>2. CASE sent' \in {Mixed(DryFrame, DryFrame), Opened(DryFrame)}
        BY <1>3, <1>5, <1>6, <2>2 DEF SentInv
    <2> QED BY <1>7, <2>1, <2>2
<1>10. sent' = sent \/ Even(sent', last, since)
    BY <1>6, <1>7
<1> QED BY <1>8, <1>9, <1>10 DEF last

LEMMA NextSignal == SignalInv /\ [SignalNext]_signalVars => SignalInv'
<1> SUFFICES ASSUME SignalInv, [SignalNext]_signalVars PROVE SignalInv'
    OBVIOUS
<1>1. ASSUME NEW n \in 0 .. CALLBACK, NEW zeroed, NEW target, NEW mode,
             WriteCallback(n, zeroed, target, mode)
      PROVE  SignalInv'
    <2>1. n \in Nat
        BY <1>1, SignalAssumption
    <2> QED BY <1>1, <2>1, WriteKeepsSignal
<1>2. CASE UNCHANGED signalVars
    BY <1>2 DEF signalVars, SignalInv, LineInv, SentInv, Framed
<1> QED BY <1>1, <1>2, AssembleKeepsSignal, ResetKeepsSignal, FrameKeepsSignal DEF SignalNext

\* Aligned: whatever the sizes of the callbacks, failures and resets, the dry and
\* the wet sample that are mixed are of one instant, and nothing captured before
\* the last reset is heard.
THEOREM DryMeetsWet == SignalSpec => []Aligned
<1>1. SignalInv => Aligned
    <2> SUFFICES ASSUME SignalInv, NEW j \in DOMAIN sent
                 PROVE  /\ sent[j].dry = sent[j].wet
                        /\ sent[j].dry.heard => sent[j].dry.at >= since
        BY DEF Aligned
    <2>1. sent # <<>>
        OBVIOUS
    <2>2. PICK last \in Int : Even(sent, last, since)
        BY <2>1 DEF SignalInv, SentInv
    <2>3. j \in 1 .. FRAME
        BY <2>2 DEF Even
    <2>4. since \in Int
        BY LineTypes DEF SignalInv
    <2> QED BY <2>2, <2>3, <2>4, EvenAt
<1> QED BY <1>1, InitSignal, NextSignal, PTL DEF SignalSpec

\* Seamless: the transport is given the stream without a gap or a repetition,
\* but for whole frames that a failure or the transport holds back.
THEOREM StreamIsSeamless == SignalSpec => Seamless
<1> DEFINE Within == \A j \in DOMAIN sent' :
                        j > 1 => sent'[j].dry.at = sent'[j - 1].dry.at + 1
           Between == sent # <<>> /\ sent' \notin {sent, <<>>} /\ ~skipped
                        => sent'[1].dry.at = sent[FRAME].dry.at + 1
<1>1. FRAME \in Nat \ {0}
    BY SignalAssumption
<1>2. SignalInv' => Within
    <2> SUFFICES ASSUME SignalInv', NEW j \in DOMAIN sent', j > 1
                 PROVE  sent'[j].dry.at = sent'[j - 1].dry.at + 1
        OBVIOUS
    <2>1. sent' # <<>>
        OBVIOUS
    <2>2. PICK last \in Int : Even(sent', last, since')
        BY <2>1 DEF SignalInv, SentInv
    <2>3. j \in 1 .. FRAME /\ j - 1 \in 1 .. FRAME
        BY <1>1, <2>2 DEF Even
    <2>4. sent'[j].dry.at = last - FRAME + j /\ sent'[j - 1].dry.at = last - FRAME + (j - 1)
        <3>1. since' \in Int
            BY SignalAssumption DEF SignalInv, LineInv
        <3> QED BY <2>2, <2>3, <3>1, EvenAt
    <2> QED BY <1>1, <2>3, <2>4
<1>3. SignalInv /\ SignalNext => Between
    <2> SUFFICES ASSUME SignalInv, SignalNext, sent # <<>>, sent' \notin {sent, <<>>}, ~skipped
                 PROVE  sent'[1].dry.at = sent[FRAME].dry.at + 1
        OBVIOUS
    <2>1. Bypass \/ Process \/ InferenceFails
        BY DEF SignalNext, WriteCallback, Assemble, ResetStages
    <2> DEFINE last == Framed - model.delay
    <2>2. Even(sent', last + FRAME, since) /\ Even(sent, last, since)
        BY <2>1, FrameKeepsSignal DEF SignalInv, SentInv
    <2>3. last \in Int /\ since \in Int
        BY LineTypes DEF SignalInv, Framed
    <2> HIDE DEF last
    <2>4. /\ sent'[1].dry.at = last + FRAME - FRAME + 1
          /\ sent[FRAME].dry.at = last - FRAME + FRAME
        <3>1. 1 \in 1 .. FRAME /\ FRAME \in 1 .. FRAME
            BY <1>1
        <3>2. sent'[1].dry.at = last + FRAME - FRAME + 1
            <4>1. last + FRAME \in Int
                BY <1>1, <2>3
            <4> DEFINE later == last + FRAME
            <4> HIDE DEF later
            <4>2. Even(sent', later, since)
                BY <2>2 DEF later
            <4>3. sent'[1].dry.at = later - FRAME + 1
                BY <2>3, <3>1, <4>1, <4>2, EvenAt DEF later
            <4> QED BY <1>1, <2>3, <4>3 DEF later
        <3>3. sent[FRAME].dry.at = last - FRAME + FRAME
            BY <2>2, <2>3, <3>1, EvenAt
        <3> QED BY <3>2, <3>3
    <2> QED BY <1>1, <2>3, <2>4
<1>4. SignalInv /\ SignalInv' /\ [SignalNext]_signalVars
        => [Within]_signalVars /\ [Between]_signalVars
    BY <1>2, <1>3
<1> QED BY <1>4, InitSignal, NextSignal, PTL DEF SignalSpec, Seamless

-----------------------------------------------------------------------------
(***************************************************************************)
(* The strength's ramp.                                                    *)
(***************************************************************************)
\* How fine a position of the ramp may be after so many changes of its target.
Grains == {grain \in [0 .. MaxTargets -> 1 .. UNIT] :
             /\ \A k \in 0 .. MaxTargets : UNIT % grain[k] = 0
             /\ \A k \in 1 .. MaxTargets : grain[k - 1] = RAMP * grain[k]}

Ramp == [current : Int, target : Int, step : Int, remaining : Nat]

\* A ramp in progress ends at its target in steps that are whole and short; one
\* that is settled is at its target.
RampOk(ramp, grain) ==
    /\ ramp \in Ramp /\ ramp.target \in {0, UNIT} /\ ramp.current \in 0 .. UNIT
    /\ \E a \in Int : ramp.current = a * grain
    /\ ramp.remaining = 0 => ramp.current = ramp.target
    /\ ramp.remaining > 0 =>
          /\ ramp.target = ramp.current + ramp.remaining * ramp.step
          /\ \E b \in Int : ramp.step = b * grain
          /\ RAMP * ramp.step \in -UNIT .. UNIT

\* The gain of the sample last sent is where the ramp stands.
RampInv ==
    /\ targets \in 0 .. MaxTargets
    /\ \E grain \in Grains : RampOk(strength, grain[targets])
    /\ sent # <<>> /\ ~skipped /\ ~latched => sent[FRAME].gain = strength.current

\* Division by a divisor is what multiplication undoes.
LEMMA ExactQuotient ==
    ASSUME NEW n \in Nat \ {0}, NEW q \in Int
    PROVE  (n * q) \div n = q
<1> DEFINE d == n * q
           p == d \div n
           r == d % n
<1>1. d \in Int /\ p \in Int /\ r \in 0 .. n - 1 /\ d = n * p + r
    OBVIOUS
<1> HIDE DEF p, r
<1>2. n * (q - p) = r
    BY <1>1
<1> HIDE DEF d
<1>3. ~(q - p >= 1)
    <2> SUFFICES ASSUME q - p >= 1 PROVE FALSE
        OBVIOUS
    <2>1. n * (q - p) >= n * 1
        BY <1>1
    <2> QED BY <1>1, <1>2, <2>1
<1>4. ~(q - p <= -1)
    <2> SUFFICES ASSUME q - p <= -1 PROVE FALSE
        OBVIOUS
    <2>1. n * (q - p) <= n * (-1)
        BY <1>1
    <2> QED BY <1>1, <1>2, <2>1
<1> QED BY <1>1, <1>3, <1>4 DEF d, p

\* A step that fits RAMP times into the unit is a step that cannot be heard.
LEMMA ShortStep ==
    ASSUME NEW step \in Int, RAMP * step \in -UNIT .. UNIT
    PROVE  step \in -(UNIT \div RAMP) .. UNIT \div RAMP
<1> DEFINE p == UNIT \div RAMP
           r == UNIT % RAMP
<1>0. RAMP \in Nat \ {0} /\ UNIT \in Nat \ {0}
    BY SignalAssumption
<1>1. p \in Nat /\ r \in 0 .. RAMP - 1 /\ UNIT = RAMP * p + r
    BY <1>0
<1> HIDE DEF p, r
<1>2. ~(step >= p + 1)
    <2> SUFFICES ASSUME step >= p + 1 PROVE FALSE
        OBVIOUS
    <2>1. RAMP * step >= RAMP * (p + 1)
        BY <1>0, <1>1
    <2>2. RAMP * (p + 1) = RAMP * p + RAMP
        BY <1>0, <1>1
    <2> QED BY <1>0, <1>1, <2>1, <2>2
<1>3. ~(step <= -(p + 1))
    <2> SUFFICES ASSUME step <= -(p + 1) PROVE FALSE
        OBVIOUS
    <2>1. RAMP * step <= RAMP * (-(p + 1))
        BY <1>0, <1>1
    <2>2. RAMP * (-(p + 1)) = -(RAMP * p) - RAMP
        BY <1>0, <1>1
    <2> QED BY <1>0, <1>1, <2>1, <2>2
<1> QED BY <1>1, <1>2, <1>3 DEF p

LEMMA TargetKeepsRamp ==
    ASSUME NEW ramp, NEW coarse \in Nat \ {0}, NEW fine \in Nat \ {0}, coarse = RAMP * fine,
           UNIT % coarse = 0, RampOk(ramp, coarse), NEW target \in {0, UNIT}
    PROVE  /\ RampOk(SetTarget(ramp, target), fine)
           /\ SetTarget(ramp, target).current = ramp.current
<1>0. RAMP \in Nat \ {0} /\ UNIT \in Nat \ {0} /\ ramp.current \in Int /\ ramp \in Ramp
    BY SignalAssumption DEF RampOk, Ramp
<1>1. PICK a \in Int : ramp.current = a * coarse
    BY DEF RampOk
<1>2. PICK t \in Int : target = t * coarse
    <2>1. UNIT = coarse * (UNIT \div coarse) /\ UNIT \div coarse \in Int
        BY <1>0
    <2>2. CASE target = 0
        <3>1. target = 0 * coarse
            BY <2>2
        <3> QED BY <3>1
    <2>3. CASE target = UNIT
        <3>1. target = (UNIT \div coarse) * coarse
            BY <2>1, <2>3
        <3> QED BY <2>1, <3>1
    <2> QED BY <2>2, <2>3
<1> DEFINE next == SetTarget(ramp, target)
           q == (t - a) * fine
<1>3. target - ramp.current = RAMP * q /\ q \in Int
    <2>1. target - ramp.current = (t - a) * (RAMP * fine)
        BY <1>0, <1>1, <1>2
    <2> QED BY <1>0, <2>1
<1>4. ramp.current = (a * RAMP) * fine /\ a * RAMP \in Int
    BY <1>0, <1>1
<1>5. CASE target = ramp.current
    <2>1. next = [ramp EXCEPT !.target = target, !.step = 0, !.remaining = 0]
        BY <1>5 DEF SetTarget
    <2> HIDE DEF next
    <2>2. target \in Int
        BY <1>0
    <2>3. /\ next \in Ramp /\ next.target = target /\ next.current = ramp.current
          /\ next.remaining = 0
        <3> DEFINE still == 0
                   none == 0
        <3>1. next = [ramp EXCEPT !.target = target, !.step = still, !.remaining = none]
            BY <2>1
        <3>2. still \in Int /\ none \in Nat
            OBVIOUS
        <3> HIDE DEF still, none
        <3>3. /\ next \in Ramp /\ next.target = target /\ next.current = ramp.current
              /\ next.remaining = none
            BY <1>0, <2>2, <3>1, <3>2 DEF Ramp
        <3> QED BY <3>3 DEF none
    <2> QED BY <1>4, <1>5, <2>3 DEF RampOk, next
<1>6. CASE target # ramp.current
    <2>1. (target - ramp.current) \div RAMP = q
        BY <1>0, <1>3, ExactQuotient
    <2>2. next = [ramp EXCEPT !.target = target, !.remaining = RAMP, !.step = q]
        BY <1>6, <2>1 DEF SetTarget
    <2>3. target \in Int
        BY <1>0
    <2> HIDE DEF q
    <2>4. /\ next \in Ramp /\ next.target = target /\ next.current = ramp.current
          /\ next.remaining = RAMP /\ next.step = q
        BY <1>0, <1>3, <2>2, <2>3 DEF Ramp
    <2> HIDE DEF next
    <2>5. RAMP * q \in -UNIT .. UNIT
        BY <1>0, <1>3 DEF RampOk
    <2>6. target = ramp.current + RAMP * q
        BY <1>0, <1>3, <2>3
    <2>7. \E b \in Int : q = b * fine
        BY DEF q
    <2> QED BY <1>0, <1>3, <1>4, <2>4, <2>5, <2>6, <2>7 DEF RampOk, next
<1> QED BY <1>5, <1>6

\* From one sample to the next the gain makes one step of the ramp, or none.
LEMMA GainMoves ==
    ASSUME NEW ramp, NEW grain, RampOk(ramp, grain), NEW n \in Nat
    PROVE  /\ Gain(ramp, 0) = ramp.current
           /\ Near(Gain(ramp, n + 1), Gain(ramp, n))
<1>0. /\ ramp.current \in Int /\ ramp.target \in Int /\ ramp.step \in Int /\ ramp.remaining \in Nat
      /\ UNIT \div RAMP \in Nat
    BY SignalAssumption DEF RampOk, Ramp
<1> DEFINE bound == UNIT \div RAMP
<1>1. 0 \in -bound .. bound
    BY <1>0
<1>2. Gain(ramp, 0) = ramp.current
    BY <1>0 DEF Gain, RampOk
<1>3. CASE n >= ramp.remaining
    <2>1. Gain(ramp, n) = ramp.target /\ Gain(ramp, n + 1) = ramp.target
        BY <1>0, <1>3 DEF Gain
    <2> QED BY <1>0, <1>1, <1>2, <2>1 DEF Near
<1>4. CASE n < ramp.remaining
    <2>1. /\ ramp.remaining > 0 /\ RAMP * ramp.step \in -UNIT .. UNIT
          /\ ramp.target = ramp.current + ramp.remaining * ramp.step
        BY <1>0, <1>4 DEF RampOk
    <2>2. ramp.step \in -bound .. bound
        BY <1>0, <2>1, ShortStep
    <2> DEFINE q == n * ramp.step
    <2>3. Gain(ramp, n) = ramp.current + q
        BY <1>0, <1>4 DEF Gain
    <2>4. (n + 1) * ramp.step = q + ramp.step /\ q \in Int
        BY <1>0
    <2> HIDE DEF q, bound
    <2>5. Gain(ramp, n + 1) = ramp.current + (q + ramp.step)
        <3>1. CASE n + 1 < ramp.remaining
            <4>1. ~(n + 1 >= ramp.remaining)
                BY <1>0, <3>1
            <4> QED BY <2>4, <4>1 DEF Gain
        <3>2. CASE n + 1 = ramp.remaining
            <4>1. Gain(ramp, n + 1) = ramp.target
                BY <1>0, <3>2 DEF Gain
            <4> QED BY <2>1, <2>4, <3>2, <4>1
        <3> QED BY <1>0, <1>4, <3>1, <3>2
    <2>6. Gain(ramp, n + 1) - Gain(ramp, n) = ramp.step
        BY <1>0, <2>3, <2>4, <2>5
    <2> QED BY <1>2, <2>2, <2>6 DEF Near, bound
<1> QED BY <1>0, <1>3, <1>4

LEMMA AdvancedKeepsRamp ==
    ASSUME NEW ramp, NEW grain \in Nat \ {0}, RampOk(ramp, grain), NEW n \in Nat
    PROVE  RampOk(Advanced(ramp, n), grain) /\ Advanced(ramp, n).current = Gain(ramp, n)
<1>0. /\ ramp.current \in Int /\ ramp.target \in Int /\ ramp.step \in Int /\ ramp.remaining \in Nat
      /\ ramp \in Ramp /\ ramp.target \in {0, UNIT} /\ UNIT \in Nat /\ ramp.current \in 0 .. UNIT
    BY SignalAssumption DEF RampOk, Ramp
<1>1. PICK a \in Int : ramp.current = a * grain
    BY DEF RampOk
<1> DEFINE next == Advanced(ramp, n)
           gain == Gain(ramp, n)
           left == IF n >= ramp.remaining THEN 0 ELSE ramp.remaining - n
<1>2. next = [ramp EXCEPT !.current = gain, !.remaining = left]
    BY DEF Advanced
<1>3. left \in Nat
    BY <1>0
<1>4. gain \in Int
    BY <1>0 DEF Gain
<1> HIDE DEF next, gain, left
<1>5. /\ next \in Ramp /\ next.current = gain /\ next.remaining = left
      /\ next.target = ramp.target /\ next.step = ramp.step
    BY <1>0, <1>2, <1>3, <1>4 DEF Ramp
<1>6. ASSUME ramp.remaining = 0 PROVE RampOk(next, grain)
    <2>1. gain = ramp.target /\ left = 0 /\ ramp.target = ramp.current
        BY <1>0, <1>6 DEF gain, left, Gain, RampOk
    <2>2. \E c \in Int : gain = c * grain
        BY <1>1, <2>1
    <2> QED BY <1>0, <1>5, <2>1, <2>2 DEF RampOk
<1>7. ASSUME ramp.remaining > 0 PROVE RampOk(next, grain)
    <2>1. /\ ramp.target = ramp.current + ramp.remaining * ramp.step
          /\ RAMP * ramp.step \in -UNIT .. UNIT
        BY <1>7 DEF RampOk
    <2>2. PICK b \in Int : ramp.step = b * grain
        BY <1>7 DEF RampOk
    <2>3. CASE n >= ramp.remaining
        <3>1. gain = ramp.target /\ left = 0
            BY <2>3 DEF gain, left, Gain
        <3>2. ramp.target = (a + ramp.remaining * b) * grain /\ a + ramp.remaining * b \in Int
            BY <1>0, <1>1, <2>1, <2>2
        <3>3. \E c \in Int : gain = c * grain
            BY <3>1, <3>2
        <3>4. gain \in 0 .. UNIT
            BY <1>0, <3>1
        <3> QED BY <1>0, <1>5, <3>1, <3>3, <3>4 DEF RampOk
    <2>4. CASE n < ramp.remaining
        <3>1. gain = ramp.current + n * ramp.step /\ left = ramp.remaining - n
            BY <1>0, <2>4 DEF gain, left, Gain
        <3>2. gain = (a + n * b) * grain /\ a + n * b \in Int
            BY <1>0, <1>1, <2>2, <3>1
        <3>3. \E c \in Int : gain = c * grain
            BY <3>2
        <3>4. ramp.target = gain + left * ramp.step
            BY <1>0, <2>1, <3>1
        <3>5. gain \in 0 .. UNIT
            <4>1. CASE ramp.step >= 0
                <5>1. n * ramp.step >= 0 /\ left * ramp.step >= 0
                    BY <1>0, <1>3, <4>1
                <5> QED BY <1>0, <1>3, <1>4, <3>1, <3>4, <5>1
            <4>2. CASE ramp.step <= 0
                <5>1. n * ramp.step <= 0 /\ left * ramp.step <= 0
                    BY <1>0, <1>3, <4>2
                <5> QED BY <1>0, <1>3, <1>4, <3>1, <3>4, <5>1
            <4> QED BY <1>0, <4>1, <4>2
        <3>6. left > 0
            BY <1>0, <2>4, <3>1
        <3>7. \E c \in Int : ramp.step = c * grain
            BY <2>2
        <3>8. /\ next.target = next.current + next.remaining * next.step
              /\ RAMP * next.step \in -UNIT .. UNIT
              /\ \E c \in Int : next.step = c * grain
            BY <1>5, <2>1, <3>4, <3>7
        <3>9. /\ next \in Ramp /\ next.target \in {0, UNIT} /\ next.current \in 0 .. UNIT
              /\ \E c \in Int : next.current = c * grain
            BY <1>0, <1>5, <3>3, <3>5
        <3>10. next.remaining # 0
            BY <1>3, <1>5, <3>6
        <3> QED BY <3>8, <3>9, <3>10 DEF RampOk
    <2> QED BY <1>0, <2>3, <2>4
<1>8. RampOk(next, grain) /\ next.current = gain
    BY <1>0, <1>5, <1>6, <1>7
<1> QED BY <1>8 DEF next, gain

LEMMA InitRamp == SignalInit => RampInv
<1> SUFFICES ASSUME SignalInit PROVE RampInv
    OBVIOUS
<1>1. PICK grain \in [0 .. MaxTargets -> {n \in 1 .. UNIT : UNIT % n = 0}] :
          \A k \in 1 .. MaxTargets : grain[k - 1] = RAMP * grain[k]
    BY UnitAssumption
<1>2. MaxTargets \in Nat /\ UNIT \in Nat \ {0}
    BY SignalAssumption
<1>3. grain \in Grains
    BY <1>1, <1>2 DEF Grains
<1>4. 0 \in 0 .. MaxTargets /\ grain[0] \in 1 .. UNIT /\ UNIT % grain[0] = 0
    BY <1>1, <1>2
<1> DEFINE g == grain[0]
<1> HIDE DEF g
<1>5. UNIT = (UNIT \div g) * g /\ UNIT \div g \in Int
    <2>1. g \in Nat \ {0} /\ UNIT % g = 0
        BY <1>2, <1>4 DEF g
    <2> QED BY <1>2, <2>1
<1> DEFINE ramp == [current |-> UNIT, target |-> UNIT, step |-> 0, remaining |-> 0]
<1>6. ramp \in Ramp /\ ramp.current = UNIT /\ ramp.target = UNIT /\ ramp.remaining = 0
    BY <1>2 DEF Ramp
<1>7. \E a \in Int : UNIT = a * g
    BY <1>5
<1> HIDE DEF ramp
<1>8. RampOk(ramp, g)
    BY <1>2, <1>6, <1>7 DEF RampOk
<1>9. strength = ramp /\ targets = 0 /\ sent = <<>>
    BY DEF SignalInit, ramp
<1> QED BY <1>3, <1>4, <1>8, <1>9 DEF RampInv, g

\* Only a processed frame that is sent leaves the sink unlatched with a new
\* frame: its gains are those of the ramp.
LEMMA SentIsMixed ==
    ASSUME SignalNext, sent' \notin {sent, <<>>}, ~latched'
    PROVE  /\ Process /\ ~latched /\ skipped' = FALSE /\ strength' = Advanced(strength, FRAME)
           /\ \A j \in 1 .. FRAME : sent'[j].gain = Gain(strength, j)
<1>1. Process
    BY DEF SignalNext, WriteCallback, Assemble, ResetStages, Bypass, InferenceFails
<1>2. Sends(Mixed(DryFrame, Inferred(recurrent, Frame).output))
    BY <1>1 DEF Process, Unsent
<1> QED BY <1>1, <1>2 DEF Process, Sends, Mixed

LEMMA NextRamp == RampInv /\ [SignalNext]_signalVars => RampInv'
<1> SUFFICES ASSUME RampInv, [SignalNext]_signalVars PROVE RampInv'
    OBVIOUS
<1>0. FRAME \in Nat \ {0} /\ RAMP \in Nat \ {0} /\ UNIT \in Nat \ {0} /\ MaxTargets \in Nat
    BY SignalAssumption
<1>1. PICK grain \in Grains : RampOk(strength, grain[targets])
    BY DEF RampInv
<1>2. /\ targets \in 0 .. MaxTargets /\ \A k \in 0 .. MaxTargets : grain[k] \in Nat \ {0}
      /\ sent # <<>> /\ ~skipped /\ ~latched => sent[FRAME].gain = strength.current
    BY <1>0 DEF RampInv, Grains
<1>3. ASSUME NEW target \in {0, UNIT}, LoadTarget(target), UNCHANGED <<sent, skipped, latched>>
      PROVE  RampInv'
    <2>1. CASE UNCHANGED <<strength, targets>>
        BY <1>1, <1>2, <1>3, <2>1 DEF RampInv
    <2>2. CASE /\ targets < MaxTargets /\ targets' = targets + 1
               /\ strength' = SetTarget(strength, target)
        <3> DEFINE coarse == grain[targets]
                   fine == grain[targets + 1]
        <3>1. targets + 1 \in 1 .. MaxTargets /\ targets + 1 \in 0 .. MaxTargets
            BY <1>0, <1>2, <2>2
        <3>2. grain[(targets + 1) - 1] = RAMP * fine
            BY <3>1 DEF Grains
        <3>3. (targets + 1) - 1 = targets
            BY <1>2
        <3>4. coarse \in Nat \ {0} /\ fine \in Nat \ {0} /\ UNIT % coarse = 0
            BY <1>2, <3>1 DEF Grains
        <3>5. coarse = RAMP * fine /\ RampOk(strength, coarse)
            BY <1>1, <3>2, <3>3
        <3> HIDE DEF coarse, fine
        <3>6. RampOk(strength', fine) /\ strength'.current = strength.current
            BY <1>3, <2>2, <3>4, <3>5, TargetKeepsRamp
        <3> QED BY <1>2, <1>3, <2>2, <3>1, <3>6 DEF RampInv, fine
    <2> QED BY <1>3, <2>1, <2>2 DEF LoadTarget
<1>4. ASSUME NEW n \in 0 .. CALLBACK, NEW zeroed \in {0, n}, NEW target \in Targets,
             NEW mode \in {"closed", "open"}, WriteCallback(n, zeroed, target, mode)
      PROVE  RampInv'
    BY <1>3, <1>4 DEF WriteCallback, Targets
<1>5. CASE Process
    <2> DEFINE g == grain[targets]
    <2>1. /\ strength' = Advanced(strength, FRAME) /\ targets' = targets
          /\ \/ latched'
             \/ /\ sent'[FRAME].gain = Gain(strength, FRAME)
        BY <1>0, <1>5 DEF Process, Emit, Sends, Mixed
    <2>2. g \in Nat \ {0} /\ RampOk(strength, g)
        BY <1>1, <1>2
    <2> HIDE DEF g
    <2>3. RampOk(strength', g) /\ strength'.current = Gain(strength, FRAME)
        BY <1>0, <2>1, <2>2, AdvancedKeepsRamp
    <2> QED BY <1>2, <2>1, <2>3 DEF RampInv, g
<1>6. CASE Bypass \/ InferenceFails
    <2>1. strength' = strength /\ targets' = targets /\ latched'
        BY <1>6 DEF Bypass, InferenceFails, Emit
    <2> QED BY <1>1, <1>2, <2>1 DEF RampInv
<1>7. CASE ResetStages
    <2>1. strength' = strength /\ targets' = targets /\ sent' = <<>>
        BY <1>7 DEF ResetStages
    <2> QED BY <1>1, <1>2, <2>1 DEF RampInv
<1>8. CASE Assemble \/ UNCHANGED signalVars
    <2>1. UNCHANGED <<strength, targets, sent, skipped, latched>>
        BY <1>8 DEF Assemble, signalVars
    <2> QED BY <1>1, <1>2, <2>1 DEF RampInv
<1> QED BY <1>4, <1>5, <1>6, <1>7, <1>8 DEF SignalNext

\* NoClick: within a frame, between frames and when its target changes half way
\* through a ramp, the strength moves by no more than one step of the shortest
\* ramp over its whole range; only a failure cuts it off (StrengthRamp).
THEOREM StrengthIsSmooth == SignalSpec => NoClick
<1> DEFINE A == sent' \notin {sent, <<>>} /\ ~latched' =>
                  /\ \A j \in 2 .. FRAME : Near(sent'[j].gain, sent'[j - 1].gain)
                  /\ sent # <<>> /\ ~skipped => Near(sent'[1].gain, sent[FRAME].gain)
<1>1. RampInv /\ [SignalNext]_signalVars => [A]_signalVars
    <2> SUFFICES ASSUME RampInv, SignalNext, sent' \notin {sent, <<>>}, ~latched'
                 PROVE  /\ \A j \in 2 .. FRAME : Near(sent'[j].gain, sent'[j - 1].gain)
                        /\ sent # <<>> /\ ~skipped => Near(sent'[1].gain, sent[FRAME].gain)
        BY DEF A
    <2>1. ~latched /\ \A j \in 1 .. FRAME : sent'[j].gain = Gain(strength, j)
        BY SentIsMixed
    <2>2. PICK grain : RampOk(strength, grain)
        BY DEF RampInv
    <2>3. FRAME \in Nat \ {0}
        BY SignalAssumption
    <2>4. ASSUME NEW j \in 2 .. FRAME
          PROVE  Near(sent'[j].gain, sent'[j - 1].gain)
        <3> DEFINE n == j - 1
        <3>1. n \in Nat /\ n \in 1 .. FRAME /\ j \in 1 .. FRAME /\ n + 1 = j
            BY <2>3
        <3> HIDE DEF n
        <3>2. Near(Gain(strength, n + 1), Gain(strength, n))
            BY <2>2, <3>1, GainMoves
        <3> QED BY <2>1, <3>1, <3>2 DEF n
    <2>5. ASSUME sent # <<>>, ~skipped
          PROVE  Near(sent'[1].gain, sent[FRAME].gain)
        <3>1. sent[FRAME].gain = strength.current
            BY <2>1, <2>5 DEF RampInv
        <3>2. Near(Gain(strength, 0 + 1), Gain(strength, 0)) /\ Gain(strength, 0) = strength.current
            BY <2>2, GainMoves
        <3>3. 0 + 1 = 1 /\ 1 \in 1 .. FRAME
            BY <2>3
        <3> QED BY <2>1, <3>1, <3>2, <3>3
    <2> QED BY <2>4, <2>5
<1> QED BY <1>1, InitRamp, NextRamp, PTL DEF SignalSpec, NoClick
-----------------------------------------------------------------------------
(***************************************************************************)
(* Formats.                                                                *)
(***************************************************************************)
\* Every other format is rejected, for one of the reasons.
LEMMA OthersAreRejected ==
    ASSUME NEW pod \in Pod, pod # CANONICAL
    PROVE  Parsed(pod) \in NegotiatedFormatError
<1> DEFINE checked == <<"media", "sample", "rate", "channels", "position">>
           wrong == {i \in DOMAIN checked : pod[checked[i]] # CANONICAL[checked[i]]}
           first == CHOOSE i \in wrong : \A j \in wrong : i <= j
<1>1. CASE pod = Absent \/ ~pod.parses
    BY <1>1 DEF Parsed, NegotiatedFormatError
<1>2. CASE pod # Absent /\ pod.parses
    <2>1. pod \in [parses : BOOLEAN, media : STRING, sample : STRING, rate : Nat,
                   channels : Nat, position : STRING]
        BY BuffersAssumption
    <2>2. DOMAIN checked = 1 .. 5
        OBVIOUS
    <2>3. wrong # {}
        <3> SUFFICES ASSUME wrong = {} PROVE pod = CANONICAL
            OBVIOUS
        <3>1. \A i \in 1 .. 5 : pod[checked[i]] = CANONICAL[checked[i]]
            BY <2>2
        <3>2. /\ pod.media = CANONICAL.media /\ pod.sample = CANONICAL.sample
              /\ pod.rate = CANONICAL.rate /\ pod.channels = CANONICAL.channels
              /\ pod.position = CANONICAL.position
            BY <3>1
        <3>3. pod.parses = TRUE
            BY <1>2, <2>1
        <3> QED BY <2>1, <3>2, <3>3 DEF CANONICAL, Requested
    <2>4. first \in wrong
        <3>1. wrong \subseteq 1 .. 5
            BY <2>2
        <3> HIDE DEF wrong
        <3>2. \E i \in wrong : \A j \in wrong : i <= j
            <4>1. CASE 1 \in wrong
                BY <3>1, <4>1
            <4>2. CASE 1 \notin wrong /\ 2 \in wrong
                BY <3>1, <4>2
            <4>3. CASE 1 \notin wrong /\ 2 \notin wrong /\ 3 \in wrong
                BY <3>1, <4>3
            <4>4. CASE 1 \notin wrong /\ 2 \notin wrong /\ 3 \notin wrong /\ 4 \in wrong
                BY <3>1, <4>4
            <4>5. CASE 1 \notin wrong /\ 2 \notin wrong /\ 3 \notin wrong /\ 4 \notin wrong
                <5>1. \A j \in wrong : j = 5
                    BY <3>1, <4>5
                <5>2. PICK i \in wrong : TRUE
                    BY <2>3
                <5> QED BY <5>1, <5>2
            <4> QED BY <4>1, <4>2, <4>3, <4>4, <4>5
        <3> QED BY <3>2
    <2>5. Parsed(pod) = checked[first]
        BY <1>2, <2>3 DEF Parsed
    <2>6. first \in 1 .. 5
        BY <2>2, <2>4
    <2> HIDE DEF first
    <2>7. checked[first] \in NegotiatedFormatError
        BY <2>6 DEF NegotiatedFormatError
    <2> QED BY <2>5, <2>7
<1> QED BY <1>1, <1>2, BuffersAssumption

\* As long as the stream delivers samples in another format than the requested
\* one, the rejection of that format waits to be taken.
FormatInv ==
    /\ negotiated \in Pod \cup {Absent}
    /\ connected \in BOOLEAN
    /\ connected /\ negotiated \notin {Absent, CANONICAL} => formatEvent \in NegotiatedFormatError

LEMMA NextFormat == FormatInv /\ [BuffersNext]_buffersVars => FormatInv'
<1> SUFFICES ASSUME FormatInv, [BuffersNext]_buffersVars PROVE FormatInv'
    OBVIOUS
<1>1. ASSUME NEW pod \in Pod \cup {Absent}, NegotiateFormat(pod)
      PROVE  FormatInv'
    BY <1>1, OthersAreRejected DEF NegotiateFormat, FormatInv
<1>2. CASE TakeFormat
    BY <1>2 DEF TakeFormat, FormatInv
<1>3. ASSUME NEW buffer \in Buffers, ProcessMapped(buffer)
      PROVE  FormatInv'
    BY <1>3 DEF ProcessMapped, FormatInv
<1>4. CASE RequestGeneration \/ Store \/ BeginSnapshot \/ Load \/ UNCHANGED buffersVars
    BY <1>4 DEF RequestGeneration, Store, BeginSnapshot, Load, buffersVars, FormatInv
<1> QED BY <1>1, <1>2, <1>3, <1>4 DEF BuffersNext

\* RejectedIsStopped: samples in another format than the requested one get
\* through only while a rejection waits for the owner thread's next pass.
THEOREM WrongFormatIsStopped == BuffersSpec => RejectedIsStopped
<1> DEFINE A == processor'.frames # processor.frames /\ negotiated # CANONICAL =>
                  formatEvent \in NegotiatedFormatError
<1>1. BuffersInit => FormatInv
    BY DEF BuffersInit, FormatInv
<1>2. FormatInv /\ [BuffersNext]_buffersVars => [A]_buffersVars
    <2> SUFFICES ASSUME FormatInv, BuffersNext, processor'.frames # processor.frames,
                        negotiated # CANONICAL
                 PROVE  formatEvent \in NegotiatedFormatError
        OBVIOUS
    <2>1. PICK buffer \in Buffers : ProcessMapped(buffer)
        BY DEF BuffersNext, NegotiateFormat, TakeFormat, RequestGeneration, Store, BeginSnapshot, Load
    <2>2. connected /\ negotiated # Absent
        BY <2>1 DEF ProcessMapped
    <2> QED BY <2>2 DEF FormatInv
<1> QED BY <1>1, <1>2, NextFormat, PTL DEF BuffersSpec, RejectedIsStopped

-----------------------------------------------------------------------------
(***************************************************************************)
(* The telemetry.                                                          *)
(***************************************************************************)
Counter == {"callbacks", "frames", "refused"}
Levels == [height : Nat, of : Nat]

\* The stores of a callback under a generation.
Ops(g) ==
    {<<"generation", g>>} \cup {<<f, n>> : f \in Counter, n \in Nat}
        \cup {<<f, Level(h, g)>> : f \in {"peak", "recent"}, h \in Nat}
        \cup {<<"clear", Silent(g)>>}

Quiet(level) == level.height = 0

\* The telemetry wears the processor's label, or the stores that are next clear
\* the levels before they change the label.
LabelInv ==
    LET g == processor.generation
    IN  telemetry.generation # g =>
          \/ /\ Len(stores) > 2
             /\ stores[1] = <<"clear", Silent(g)>> /\ stores[2] = <<"recent", Silent(g)>>
             /\ stores[3] = <<"generation", g>>
          \/ /\ Len(stores) > 1 /\ Quiet(telemetry.peak)
             /\ stores[1] = <<"recent", Silent(g)>> /\ stores[2] = <<"generation", g>>
          \/ /\ Len(stores) > 0 /\ Quiet(telemetry.peak) /\ Quiet(telemetry.recent)
             /\ stores[1] = <<"generation", g>>

TelemetryType ==
    /\ command \in Nat
    /\ processor \in [generation : Nat, callbacks : Nat, frames : Nat, refused : Nat]
    /\ telemetry \in [generation : Nat, callbacks : Nat, frames : Nat, refused : Nat,
                      peak : Levels, recent : Levels]
    /\ stores \in Seq(Ops(processor.generation))
    /\ telemetry.generation <= processor.generation /\ processor.generation <= command

\* No level is older than its label.
LevelInv ==
    \A f \in {"peak", "recent"} :
        telemetry[f].height > 0 => telemetry[f].of >= telemetry.generation

\* The label of a snapshot is loaded first, and labels only grow.
SeenInv ==
    /\ loads \in Seq({"generation", "callbacks", "frames", "refused", "peak", "recent"})
    /\ \A i \in 1 .. Len(loads) :
          loads[i] = "generation" => i = 1 /\ DOMAIN seen = {"generation"}
    /\ seen.generation \in Nat /\ seen.generation <= telemetry.generation
    /\ "generation" \in DOMAIN seen
    /\ FreshLevel

TelemetryInv == TelemetryType /\ LabelInv /\ LevelInv /\ SeenInv

LEMMA InitTelemetry == BuffersInit => TelemetryInv
<1> SUFFICES ASSUME BuffersInit PROVE TelemetryInv
    OBVIOUS
<1>1. /\ command = 1 /\ stores = <<>> /\ loads = <<>> /\ seen = [generation |-> 1]
      /\ processor = [generation |-> 1, callbacks |-> 0, frames |-> 0, refused |-> 0]
      /\ telemetry = [generation |-> 1, callbacks |-> 0, frames |-> 0, refused |-> 0,
                      peak |-> [height |-> 0, of |-> 1], recent |-> [height |-> 0, of |-> 1]]
    BY DEF BuffersInit, NewProcessor, NewTelemetry, INITIAL, Silent, Level
<1>2. TelemetryType
    BY <1>1 DEF TelemetryType, Levels
<1>3. LabelInv
    BY <1>1 DEF LabelInv
<1>4. LevelInv
    BY <1>1 DEF LevelInv
<1>5. SeenInv
    BY <1>1 DEF SeenInv, FreshLevel
<1> QED BY <1>2, <1>3, <1>4, <1>5 DEF TelemetryInv

LEMMA JoinedOps ==
    ASSUME NEW S, NEW a \in Seq(S), NEW b \in Seq(S)
    PROVE  /\ a \o b \in Seq(S) /\ Len(a \o b) = Len(a) + Len(b)
           /\ \A i \in 1 .. Len(a) : (a \o b)[i] = a[i]
           /\ \A i \in 1 .. Len(b) : (a \o b)[Len(a) + i] = b[i]
OBVIOUS

LEMMA PublishOps ==
    ASSUME NEW p \in [generation : Nat, callbacks : Nat, frames : Nat, refused : Nat], NEW h \in Nat
    PROVE  LET s == Publish(p, Level(h, p.generation))
           IN  s \in Seq(Ops(p.generation)) /\ Len(s) = 6 /\ s[1] = <<"generation", p.generation>>
<1> DEFINE g == p.generation
           S == Ops(g)
           s == Publish(p, Level(h, g))
<1>1. /\ <<"generation", g>> \in S /\ <<"callbacks", p.callbacks>> \in S
      /\ <<"frames", p.frames>> \in S /\ <<"refused", p.refused>> \in S
      /\ <<"peak", Level(h, g)>> \in S /\ <<"recent", Level(h, g)>> \in S
    BY DEF Ops, Counter
<1>2. s = << <<"generation", g>>, <<"callbacks", p.callbacks>>, <<"frames", p.frames>>,
             <<"refused", p.refused>>, <<"peak", Level(h, g)>>, <<"recent", Level(h, g)>> >>
    BY DEF Publish
<1> HIDE DEF S, s
<1>3. s \in Seq(S)
    BY <1>1, <1>2
<1>4. Len(s) = 6 /\ s[1] = <<"generation", g>>
    BY <1>2
<1> QED BY <1>3, <1>4 DEF s, S

LEMMA ResetOps ==
    ASSUME NEW p \in [generation : Nat, callbacks : Nat, frames : Nat, refused : Nat]
    PROVE  LET s == ResetTelemetry(p)
           IN  /\ s \in Seq(Ops(p.generation)) /\ Len(s) = 8
               /\ s[1] = <<"clear", Silent(p.generation)>> /\ s[2] = <<"recent", Silent(p.generation)>>
               /\ s[3] = <<"generation", p.generation>>
<1> DEFINE g == p.generation
           S == Ops(g)
           a == <<"clear", Silent(g)>>
           b == <<"recent", Silent(g)>>
           t == Publish(p, Silent(g))
<1>1. t \in Seq(S) /\ Len(t) = 6 /\ t[1] = <<"generation", g>>
    BY PublishOps DEF Silent
<1>2. a \in S /\ b \in S
    BY DEF Ops, Silent
<1>3. ResetTelemetry(p) = <<a, b>> \o t
    BY DEF ResetTelemetry
<1> HIDE DEF S, a, b, t
<1> DEFINE ab == <<a, b>>
<1>4. ab \in Seq(S) /\ Len(ab) = 2 /\ ab[1] = a /\ ab[2] = b
    BY <1>2
<1> HIDE DEF ab
<1> DEFINE both == ab \o t
<1>5. /\ both \in Seq(S) /\ Len(both) = Len(ab) + Len(t)
      /\ \A i \in 1 .. Len(ab) : both[i] = ab[i]
      /\ \A i \in 1 .. Len(t) : both[Len(ab) + i] = t[i]
    <2>1. t \in Seq(S) /\ ab \in Seq(S)
        BY <1>1, <1>4
    <2> QED BY <2>1, JoinedOps
<1> HIDE DEF both
<1>6. Len(both) = 8 /\ both[1] = a /\ both[2] = b /\ both[3] = t[1]
    <2>1. both[2 + 1] = t[1]
        BY <1>1, <1>4, <1>5
    <2> QED BY <1>1, <1>4, <1>5, <2>1
<1> QED BY <1>1, <1>3, <1>5, <1>6 DEF S, a, b, ab, both

LEMMA CallbackKeepsTelemetry ==
    ASSUME TelemetryInv, NEW buffer \in Buffers, ProcessMapped(buffer)
    PROVE  TelemetryInv'
<1> USE DEF TelemetryInv
<1> DEFINE T == [generation : Nat, callbacks : Nat, frames : Nat, refused : Nat]
           p == Counted(Synchronize, buffer)
           q == [p EXCEPT !.callbacks = processor.callbacks, !.frames = processor.frames,
                          !.refused = processor.refused]
           h == IF Outcome(buffer) = "delivered" THEN buffer.height ELSE 0
           reset == IF command # processor.generation THEN ResetTelemetry(q) ELSE <<>>
           rest == Publish(p, Level(h, p.generation))
<1>1. /\ stores = <<>> /\ processor' = p /\ stores' = reset \o rest
      /\ command' = command /\ telemetry' = telemetry /\ loads' = loads /\ seen' = seen
    BY DEF ProcessMapped
<1>2. p \in T /\ p.generation = command
    <2>1. Synchronize \in T /\ Synchronize.generation = command
        BY DEF Synchronize, TelemetryType
    <2>2. /\ F32_BYTES \in Nat \ {0}
          /\ buffer \in [planes : Nat, chunk : BOOLEAN, mapped : {Absent} \cup Nat, offset : Nat,
                         size : Nat, stride : Int, corrupted : BOOLEAN, height : Nat]
        BY BuffersAssumption
    <2>3. Metadata(buffer).size \in Nat
        BY <2>2 DEF Metadata
    <2> DEFINE n == Metadata(buffer).size \div F32_BYTES
    <2>4. n \in Nat
        BY <2>2, <2>3
    <2> DEFINE s == Synchronize
               given == IF Outcome(buffer) = "delivered" THEN s.frames + n ELSE s.frames
               refused == IF Outcome(buffer) = "delivered" THEN s.refused ELSE s.refused + 1
    <2>5. p = [s EXCEPT !.callbacks = @ + 1, !.frames = given, !.refused = refused]
        BY DEF Counted
    <2> HIDE DEF n
    <2>6. given \in Nat /\ refused \in Nat /\ s.callbacks + 1 \in Nat
        BY <2>1, <2>4
    <2> HIDE DEF s, given, refused
    <2>7. s \in T /\ s.generation = command
        BY <2>1 DEF s
    <2> QED BY <2>5, <2>6, <2>7
<1> HIDE DEF p
<1>3. q \in T /\ q.generation = command
    BY <1>2 DEF TelemetryType
<1>4. h \in Nat
    BY BuffersAssumption
<1> HIDE DEF q, h
<1>5. rest \in Seq(Ops(command)) /\ Len(rest) = 6 /\ rest[1] = <<"generation", command>>
    BY <1>2, <1>4, PublishOps
<1>6. /\ ResetTelemetry(q) \in Seq(Ops(command)) /\ Len(ResetTelemetry(q)) = 8
      /\ ResetTelemetry(q)[1] = <<"clear", Silent(command)>>
      /\ ResetTelemetry(q)[2] = <<"recent", Silent(command)>>
      /\ ResetTelemetry(q)[3] = <<"generation", command>>
    BY <1>3, ResetOps
<1>7. command \in Nat /\ telemetry.generation = processor.generation /\ processor.generation <= command
      /\ processor.generation \in Nat
    <2>1. Len(stores) = 0
        BY <1>1
    <2> QED BY <2>1 DEF LabelInv, TelemetryType
<1> HIDE DEF rest
<1>8. CASE command = processor.generation
    <2>1. stores' = rest
        BY <1>1, <1>5, <1>8
    <2>2. TelemetryType'
        BY <1>1, <1>2, <1>5, <1>7, <1>8, <2>1 DEF TelemetryType
    <2>3. LabelInv'
        BY <1>1, <1>2, <1>7, <1>8 DEF LabelInv
    <2>4. LevelInv' /\ SeenInv'
        BY <1>1 DEF LevelInv, SeenInv, FreshLevel
    <2> QED BY <2>2, <2>3, <2>4
<1>9. CASE command # processor.generation
    <2> DEFINE first == ResetTelemetry(q)
    <2>1. stores' = first \o rest
        BY <1>1, <1>9
    <2> HIDE DEF first
    <2> DEFINE all == first \o rest
    <2>2. /\ all \in Seq(Ops(command)) /\ Len(all) = Len(first) + Len(rest)
          /\ \A i \in 1 .. Len(first) : all[i] = first[i]
        <3>1. first \in Seq(Ops(command))
            BY <1>6 DEF first
        <3> QED BY <1>5, <3>1, JoinedOps
    <2> HIDE DEF all
    <2>3. /\ stores' = all /\ Len(all) = 14
          /\ all[1] = <<"clear", Silent(command)>> /\ all[2] = <<"recent", Silent(command)>>
          /\ all[3] = <<"generation", command>>
        <3>1. Len(first) = 8 /\ Len(rest) = 6
            BY <1>5, <1>6 DEF first
        <3>2. Len(all) = 14 /\ all[1] = first[1] /\ all[2] = first[2] /\ all[3] = first[3]
            BY <2>2, <3>1
        <3> QED BY <1>6, <2>1, <3>2 DEF first, all
    <2>4. processor' \in T /\ processor'.generation = command
        BY <1>1, <1>2
    <2>5. TelemetryType'
        <3>1. stores' \in Seq(Ops(processor'.generation))
            BY <2>2, <2>3, <2>4
        <3>2. telemetry'.generation <= processor'.generation /\ processor'.generation <= command'
            BY <1>1, <1>7, <2>4
        <3> QED BY <1>1, <1>7, <2>4, <3>1, <3>2 DEF TelemetryType
    <2>6. LabelInv'
        BY <2>3, <2>4 DEF LabelInv
    <2>7. LevelInv' /\ SeenInv'
        BY <1>1 DEF LevelInv, SeenInv, FreshLevel
    <2> QED BY <2>5, <2>6, <2>7
<1> QED BY <1>8, <1>9

LEMMA StoreKeepsTelemetry ==
    ASSUME TelemetryInv, Store
    PROVE  TelemetryInv'
<1> USE DEF TelemetryInv
<1> DEFINE g == processor.generation
           S == Ops(g)
           field == stores[1][1]
           value == stores[1][2]
<1>1. /\ stores # <<>> /\ stores' = Tail(stores) /\ processor' = processor /\ command' = command
      /\ loads' = loads /\ seen' = seen
      /\ telemetry' = CASE field = "clear" -> [telemetry EXCEPT !.peak = value]
                        [] field = "peak" ->
                              [telemetry EXCEPT !.peak = IF value.height > @.height THEN value ELSE @]
                        [] OTHER -> [telemetry EXCEPT ![field] = value]
    BY DEF Store
<1>2. /\ stores \in Seq(S) /\ g \in Nat /\ telemetry.generation \in Nat /\ telemetry.generation <= g
      /\ telemetry.peak \in Levels /\ telemetry.recent \in Levels
    BY DEF TelemetryType
<1>3. /\ Len(stores) \in Nat \ {0} /\ stores[1] \in S
      /\ stores' \in Seq(S) /\ Len(stores') = Len(stores) - 1
      /\ \A i \in 1 .. Len(stores') : stores'[i] = stores[i + 1]
    <2> HIDE DEF S
    <2> QED BY <1>1, <1>2
\* What a store changes, for each of the fields.
<1>4. \/ /\ stores[1] = <<"generation", g>>
         /\ telemetry' = [telemetry EXCEPT !.generation = g]
      \/ /\ stores[1] = <<"clear", Silent(g)>>
         /\ telemetry' = [telemetry EXCEPT !.peak = Silent(g)]
      \/ \E h \in Nat : /\ stores[1] = <<"recent", Level(h, g)>>
                        /\ telemetry' = [telemetry EXCEPT !.recent = Level(h, g)]
      \/ \E h \in Nat : /\ stores[1] = <<"peak", Level(h, g)>>
                        /\ \/ telemetry' = [telemetry EXCEPT !.peak = Level(h, g)]
                           \/ telemetry' = [telemetry EXCEPT !.peak = telemetry.peak]
      \/ \E n \in Nat : \E f \in Counter : /\ stores[1] = <<f, n>>
                                         /\ telemetry' = [telemetry EXCEPT ![f] = n]
    <2>1. ASSUME stores[1] = <<"generation", g>>
          PROVE  telemetry' = [telemetry EXCEPT !.generation = g]
        <3>1. field = "generation" /\ value = g
            BY <2>1
        <3> HIDE DEF field, value
        <3> QED BY <1>1, <3>1
    <2>2. CASE stores[1] = <<"clear", Silent(g)>>
        BY <1>1, <2>2
    <2>3. ASSUME NEW h \in Nat, stores[1] = <<"recent", Level(h, g)>>
          PROVE  telemetry' = [telemetry EXCEPT !.recent = Level(h, g)]
        <3>1. field = "recent" /\ value = Level(h, g)
            BY <2>3
        <3> HIDE DEF field, value
        <3> QED BY <1>1, <3>1
    <2>4. ASSUME NEW h \in Nat, stores[1] = <<"peak", Level(h, g)>>
          PROVE  \/ telemetry' = [telemetry EXCEPT !.peak = Level(h, g)]
                 \/ telemetry' = [telemetry EXCEPT !.peak = telemetry.peak]
        BY <1>1, <2>4
    <2>5. ASSUME NEW f \in Counter, NEW n \in Nat, stores[1] = <<f, n>>
          PROVE  telemetry' = [telemetry EXCEPT ![f] = n]
        BY <1>1, <2>5 DEF Counter
    <2>6. \/ stores[1] = <<"generation", g>> \/ stores[1] = <<"clear", Silent(g)>>
          \/ \E h \in Nat : stores[1] = <<"recent", Level(h, g)>> \/ stores[1] = <<"peak", Level(h, g)>>
          \/ \E n \in Nat : \E f \in Counter : stores[1] = <<f, n>>
        BY <1>3 DEF Ops
    <2> QED BY <2>1, <2>2, <2>3, <2>4, <2>5, <2>6
\* A store other than those of a reset comes only when the label is up to date.
<1>5. \/ stores[1] = <<"generation", g>> \/ stores[1] = <<"clear", Silent(g)>>
      \/ stores[1] = <<"recent", Silent(g)>> \/ telemetry.generation = g
    BY DEF LabelInv
<1>6. ASSUME telemetry' \in [generation : Nat, callbacks : Nat, frames : Nat, refused : Nat,
                               peak : Levels, recent : Levels],
             telemetry'.generation >= telemetry.generation, telemetry'.generation <= g,
             LabelInv', LevelInv'
      PROVE  TelemetryInv'
    <2>1. TelemetryType'
        BY <1>1, <1>3, <1>6 DEF TelemetryType
    <2>2. SeenInv'
        BY <1>1, <1>2, <1>6 DEF SeenInv, FreshLevel
    <2> QED BY <1>6, <2>1, <2>2
<1> DEFINE t == telemetry
           L == [generation : Nat, callbacks : Nat, frames : Nat, refused : Nat,
                 peak : Levels, recent : Levels]
<1>7. t \in L
    BY DEF TelemetryType
<1>8. ASSUME NEW h \in Nat
      PROVE  Level(h, g) \in Levels /\ Level(h, g).height = h /\ Level(h, g).of = g
    BY <1>2, <1>8 DEF Level, Levels
<1>9. Silent(g) \in Levels /\ Silent(g).height = 0 /\ Silent(g).of = g
    BY <1>8 DEF Silent
<1>10. CASE stores[1] = <<"generation", g>> /\ telemetry' = [t EXCEPT !.generation = g]
    <2>1. /\ telemetry' \in L /\ telemetry'.generation = g
          /\ telemetry'.peak = t.peak /\ telemetry'.recent = t.recent
        BY <1>2, <1>7, <1>10
    <2>2. t.generation = g \/ (Quiet(t.peak) /\ Quiet(t.recent))
        BY <1>10 DEF LabelInv
    <2>3. LevelInv'
        BY <2>1, <2>2 DEF LevelInv, Quiet
    <2>4. LabelInv'
        BY <1>1, <2>1 DEF LabelInv
    <2> QED BY <1>2, <1>6, <2>1, <2>3, <2>4
<1>11. CASE stores[1] = <<"clear", Silent(g)>> /\ telemetry' = [t EXCEPT !.peak = Silent(g)]
    <2>1. /\ telemetry' \in L /\ telemetry'.generation = t.generation
          /\ telemetry'.peak = Silent(g) /\ telemetry'.recent = t.recent
        BY <1>7, <1>9, <1>11
    <2>2. LevelInv'
        BY <1>9, <2>1 DEF LevelInv
    <2>3. LabelInv'
        <3>1. t.generation # g =>
                 /\ Len(stores) > 2
                 /\ stores[2] = <<"recent", Silent(g)>> /\ stores[3] = <<"generation", g>>
            BY <1>11 DEF LabelInv
        <3>2. t.generation # g =>
                 /\ Len(stores') > 1
                 /\ stores'[1] = <<"recent", Silent(g)>> /\ stores'[2] = <<"generation", g>>
            BY <1>3, <3>1
        <3>3. Quiet(telemetry'.peak)
            BY <1>9, <2>1 DEF Quiet
        <3> QED BY <1>1, <2>1, <3>2, <3>3 DEF LabelInv
    <2> QED BY <1>2, <1>6, <2>1, <2>2, <2>3
<1>12. ASSUME NEW h \in Nat, stores[1] = <<"recent", Level(h, g)>>,
              telemetry' = [t EXCEPT !.recent = Level(h, g)]
       PROVE  TelemetryInv'
    <2>1. /\ telemetry' \in L /\ telemetry'.generation = t.generation
          /\ telemetry'.peak = t.peak /\ telemetry'.recent = Level(h, g)
        BY <1>7, <1>8, <1>12
    <2>2. LevelInv'
        BY <1>2, <1>8, <2>1 DEF LevelInv
    <2>3. LabelInv'
        <3>1. t.generation # g =>
                 /\ Len(stores) > 1 /\ Quiet(t.peak)
                 /\ stores[1] = <<"recent", Silent(g)>> /\ stores[2] = <<"generation", g>>
            BY <1>12 DEF LabelInv
        <3>2. t.generation # g => Quiet(telemetry'.recent)
            BY <1>9, <1>12, <2>1, <3>1 DEF Quiet
        <3>3. t.generation # g => Len(stores') > 0 /\ stores'[1] = <<"generation", g>>
            BY <1>3, <3>1
        <3> QED BY <1>1, <2>1, <3>1, <3>2, <3>3 DEF LabelInv
    <2> QED BY <1>2, <1>6, <2>1, <2>2, <2>3
<1>13. ASSUME NEW h \in Nat, stores[1] = <<"peak", Level(h, g)>>,
              \/ telemetry' = [t EXCEPT !.peak = Level(h, g)]
              \/ telemetry' = [t EXCEPT !.peak = t.peak]
       PROVE  TelemetryInv'
    <2>1. t.generation = g
        BY <1>5, <1>13
    <2>2. /\ telemetry' \in L /\ telemetry'.generation = t.generation
          /\ telemetry'.peak \in {Level(h, g), t.peak} /\ telemetry'.recent = t.recent
        BY <1>2, <1>7, <1>8, <1>13
    <2>3. LevelInv'
        BY <1>2, <1>8, <2>2 DEF LevelInv
    <2>4. LabelInv'
        BY <1>1, <2>1, <2>2 DEF LabelInv
    <2> QED BY <1>2, <1>6, <2>2, <2>3, <2>4
<1>14. ASSUME NEW f \in Counter, NEW n \in Nat, stores[1] = <<f, n>>,
              telemetry' = [t EXCEPT ![f] = n]
       PROVE  TelemetryInv'
    <2>1. t.generation = g
        BY <1>5, <1>14 DEF Counter
    <2>2. /\ telemetry' \in L /\ telemetry'.generation = t.generation
          /\ telemetry'.peak = t.peak /\ telemetry'.recent = t.recent
        BY <1>7, <1>14 DEF Counter
    <2>3. LevelInv'
        BY <2>2 DEF LevelInv
    <2>4. LabelInv'
        BY <1>1, <2>1, <2>2 DEF LabelInv
    <2> QED BY <1>2, <1>6, <2>2, <2>3, <2>4
<1> QED BY <1>4, <1>10, <1>11, <1>12, <1>13, <1>14

LEMMA LoadKeepsTelemetry ==
    ASSUME TelemetryInv, Load
    PROVE  TelemetryInv'
<1> USE DEF TelemetryInv
<1> DEFINE F == {"generation", "callbacks", "frames", "refused", "peak", "recent"}
           f == loads[1]
<1>1. /\ loads # <<>> /\ loads' = Tail(loads)
      /\ seen' = [e \in DOMAIN seen \cup {f} |-> IF e = f THEN telemetry[e] ELSE seen[e]]
      /\ stores' = stores /\ processor' = processor /\ command' = command /\ telemetry' = telemetry
    BY DEF Load
<1>2. loads \in Seq(F) /\ f \in F
    BY <1>1 DEF SeenInv
<1> HIDE DEF F
<1>3. /\ loads' \in Seq(F) /\ Len(loads') = Len(loads) - 1 /\ Len(loads) \in Nat \ {0}
      /\ \A i \in 1 .. Len(loads') : loads'[i] = loads[i + 1]
    BY <1>1, <1>2
<1>4. \A i \in 1 .. Len(loads') : loads'[i] # "generation"
    <2>1. \A i \in 2 .. Len(loads) : loads[i] # "generation"
        BY <1>3 DEF SeenInv
    <2> QED BY <1>3, <2>1
<1>5. telemetry.generation \in Nat /\ seen.generation \in Nat /\ seen.generation <= telemetry.generation
    BY DEF TelemetryType, SeenInv
<1>6. CASE f = "generation"
    <2>1. DOMAIN seen = {"generation"}
        BY <1>3, <1>6 DEF SeenInv
    <2>2. DOMAIN seen' = {"generation"} /\ seen'.generation = telemetry.generation
        BY <1>1, <1>6, <2>1
    <2>3. SeenInv'
        BY <1>1, <1>2, <1>3, <1>4, <1>5, <2>2 DEF SeenInv, FreshLevel, F
    <2> QED BY <1>1, <2>3 DEF TelemetryType, LabelInv, LevelInv
<1>7. CASE f # "generation"
    <2>1. "generation" \in DOMAIN seen
        BY DEF SeenInv
    <2>2. /\ DOMAIN seen' = DOMAIN seen \cup {f}
          /\ seen'.generation = seen.generation /\ seen'[f] = telemetry[f]
          /\ \A e \in DOMAIN seen : e # f => seen'[e] = seen[e]
        BY <1>1, <1>7, <2>1
    <2>3. FreshLevel'
        <3> SUFFICES ASSUME NEW e \in {"peak", "recent"} \cap DOMAIN seen', seen'[e].height > 0
                     PROVE  seen'[e].of >= seen'.generation
            BY DEF FreshLevel
        <3>1. CASE e = f
            <4>1. telemetry[e].of >= telemetry.generation /\ telemetry[e] \in Levels
                BY <2>2, <3>1 DEF LevelInv, TelemetryType
            <4> QED BY <1>5, <2>2, <3>1, <4>1 DEF Levels
        <3>2. CASE e # f
            BY <2>2, <3>2 DEF SeenInv, FreshLevel
        <3> QED BY <3>1, <3>2
    <2>4. SeenInv'
        BY <1>1, <1>2, <1>3, <1>4, <1>5, <2>1, <2>2, <2>3 DEF SeenInv, F
    <2> QED BY <1>1, <2>4 DEF TelemetryType, LabelInv, LevelInv
<1> QED BY <1>6, <1>7

LEMMA BeginKeepsTelemetry ==
    ASSUME TelemetryInv, BeginSnapshot
    PROVE  TelemetryInv'
<1>1. /\ loads' = <<"generation", "callbacks", "frames", "refused", "peak", "recent">>
      /\ seen' = [generation |-> 0]
      /\ stores' = stores /\ processor' = processor /\ command' = command /\ telemetry' = telemetry
    BY DEF BeginSnapshot, Fields
<1>2. telemetry.generation \in Nat
    BY DEF TelemetryInv, TelemetryType
<1>3. SeenInv'
    <2>1. loads' \in Seq({"generation", "callbacks", "frames", "refused", "peak", "recent"})
        BY <1>1
    <2>2. Len(loads') = 6 /\ \A i \in 2 .. 6 : loads'[i] # "generation"
        BY <1>1
    <2>3. DOMAIN seen' = {"generation"} /\ seen'.generation = 0
        BY <1>1
    <2> QED BY <1>1, <1>2, <2>1, <2>2, <2>3 DEF SeenInv, FreshLevel
<1> QED BY <1>1, <1>3 DEF TelemetryInv, TelemetryType, LabelInv, LevelInv

LEMMA NextTelemetry == TelemetryInv /\ [BuffersNext]_buffersVars => TelemetryInv'
<1> SUFFICES ASSUME TelemetryInv, [BuffersNext]_buffersVars PROVE TelemetryInv'
    OBVIOUS
<1>1. CASE RequestGeneration
    <2>1. command' = command + 1 /\ UNCHANGED <<processor, telemetry, stores, loads, seen>>
        BY <1>1 DEF RequestGeneration
    <2>2. TelemetryType'
        BY <2>1 DEF TelemetryInv, TelemetryType
    <2>3. LabelInv' /\ LevelInv' /\ SeenInv'
        BY <2>1 DEF TelemetryInv, LabelInv, LevelInv, SeenInv, FreshLevel
    <2> QED BY <2>2, <2>3 DEF TelemetryInv
<1>2. ASSUME UNCHANGED <<command, processor, telemetry, stores, loads, seen>>
      PROVE  TelemetryInv'
    BY <1>2 DEF TelemetryInv, TelemetryType, LabelInv, LevelInv, SeenInv, FreshLevel
<1>3. ASSUME NEW pod \in Pod \cup {Absent}, NegotiateFormat(pod) \/ TakeFormat \/ UNCHANGED buffersVars
      PROVE  UNCHANGED <<command, processor, telemetry, stores, loads, seen>>
    BY <1>3 DEF NegotiateFormat, TakeFormat, buffersVars
<1> QED BY <1>1, <1>2, <1>3, CallbackKeepsTelemetry, StoreKeepsTelemetry, LoadKeepsTelemetry,
           BeginKeepsTelemetry DEF BuffersNext

\* FreshLevel: the level that a snapshot shows under a generation is never one
\* of an earlier input, although the fields are loaded one after the other while
\* the data thread stores them one after the other.
THEOREM LevelIsFresh == BuffersSpec => []FreshLevel
<1>1. TelemetryInv => FreshLevel
    BY DEF TelemetryInv, SeenInv
<1> QED BY <1>1, InitTelemetry, NextTelemetry, PTL DEF BuffersSpec
=============================================================================
