------------------------- MODULE MeasurementProofs -------------------------
(***************************************************************************)
(* Proofs about Measurement.                                               *)
(*                                                                         *)
(* For any cohort: when observe of a controller that owns process groups   *)
(* has returned, no process of the command it started is left.             *)
(*                                                                         *)
(* For any cases, roles, rounds, samples and faults: a snapshot that a     *)
(* program publishes has every row of the cohort, each judged by the       *)
(* observations the schedule calls for; and a daily snapshot qualifies     *)
(* exactly when every observation of its schedule was taken, in order, and *)
(* passed.  The argument has three parts.  What a schedule holds of each   *)
(* class of items, and that it summarizes an application only after its    *)
(* builds and runs, is computed from the schedules by their parts.  What   *)
(* is left to do is always the rest of the schedule.  And as long as the   *)
(* program goes on, the records of a class whose rows pass are as many as  *)
(* the items of that class that are over; a failure marks its row for      *)
(* good.  So a row that passes at its summary has all its samples.         *)
(***************************************************************************)
EXTENDS Measurement, FiniteSetTheorems, SequenceTheorems, WellFoundedInduction, TLAPS

(***************************************************************************)
(* The processes of an observation.                                        *)
(***************************************************************************)
(* The two records, as far as the argument looks into them.                  *)
ObserveTypes ==
  /\ DOMAIN proc = {"leader", "code", "child"}
  /\ DOMAIN obs = {"stage", "item", "timer", "expired", "terminated", "status"}
  /\ proc.leader \in {"none", "running", "zombie", "reaped"}
  /\ obs.stage \in {"none", "running", "joining", "exited", "classified", "returned"}

(* The leader's state follows the stage of the call that started it.         *)
LeaderFollows ==
  /\ obs.stage = "none" <=> proc.leader = "none"
  /\ obs.stage \in {"exited", "classified", "returned"} => proc.leader = "reaped"

(* A group that was killed at a limit stays empty: its leader, which alone   *)
(* could have started another process, is dead.                              *)
KilledStaysEmpty ==
  /\ obs.stage = "joining" => obs.terminated
  /\ obs.terminated => proc.child = "none" /\ proc.leader # "running"

(* Between two observations of a controller that owns groups none has a      *)
(* member.                                                                   *)
NoneBetween == Timed /\ obs.stage \in {"none", "returned"} => proc.child = "none"

ObserveInv == ObserveTypes /\ LeaderFollows /\ KilledStaysEmpty /\ NoneBetween

(* No controller has started a process before its first observation.         *)
LEMMA ObserveInit == Init => ObserveInv
BY DEF Init, NoProcess, NoObs, ObserveInv, ObserveTypes, LeaderFollows, KilledStaysEmpty, NoneBetween

(* The observed processes, whatever they do.                                 *)
LEMMA GroupSteps ==
  ASSUME ObserveInv, Fork \/ Exit \/ ChildExit
  PROVE  ObserveInv'
<1>1. UNCHANGED <<controller, obs>>
  BY DEF Fork, Exit, ChildExit, cohort
<1>2. CASE Fork
  BY <1>1, <1>2 DEF Fork, ObserveInv, ObserveTypes, LeaderFollows, KilledStaysEmpty, NoneBetween, Timed
<1>3. CASE Exit
  BY <1>1, <1>3 DEF Exit, ObserveInv, ObserveTypes, LeaderFollows, KilledStaysEmpty, NoneBetween, Timed
<1>4. CASE ChildExit
  BY <1>1, <1>4 DEF ChildExit, ObserveInv, ObserveTypes, LeaderFollows, KilledStaysEmpty, NoneBetween, Timed
<1> QED BY <1>2, <1>3, <1>4

(* The timer thread, which may fire at any stage until it is cancelled.      *)
LEMMA TimerSteps ==
  ASSUME ObserveInv, TimerSet \/ TimerKill
  PROVE  ObserveInv'
<1>1. CASE TimerSet
  BY <1>1 DEF TimerSet, cohort, ObserveInv, ObserveTypes, LeaderFollows, KilledStaysEmpty, NoneBetween, Timed
<1>2. CASE TimerKill
  BY <1>2 DEF TimerKill, killpg, cohort, ObserveInv, ObserveTypes, LeaderFollows, KilledStaysEmpty, NoneBetween, Timed
<1> QED BY <1>1, <1>2

(* Waiting for the leader, or giving up on it.                               *)
LEMMA WaitSteps ==
  ASSUME ObserveInv, Reap \/ LoopEnd \/ LoopStop \/ LoopJoin
  PROVE  ObserveInv'
<1>1. CASE Reap
  BY <1>1 DEF Reap, cohort, ObserveInv, ObserveTypes, LeaderFollows, KilledStaysEmpty, NoneBetween, Timed
<1>2. CASE LoopEnd
  BY <1>2 DEF LoopEnd, cohort, ObserveInv, ObserveTypes, LeaderFollows, KilledStaysEmpty, NoneBetween, Timed
<1>3. CASE LoopStop
  BY <1>3 DEF LoopStop, killpg, cohort, ObserveInv, ObserveTypes, LeaderFollows, KilledStaysEmpty, NoneBetween, Timed
<1>4. CASE LoopJoin
  BY <1>4 DEF LoopJoin, cohort, ObserveInv, ObserveTypes, LeaderFollows, KilledStaysEmpty, NoneBetween, Timed
<1> QED BY <1>1, <1>2, <1>3, <1>4

(* The verdict, and the kill of the group in the finally block.              *)
LEMMA ReturnSteps ==
  ASSUME ObserveInv, Classify \/ Cleanup
  PROVE  ObserveInv'
<1>1. CASE Classify
  <2>1. UNCHANGED <<controller, proc>> /\ obs.stage = "exited"
    BY <1>1 DEF Classify, cohort
  <2>2. PICK s : s = IF obs.expired THEN "timeout"
                     ELSE IF obs.status = "pass" /\ proc.code # 0 THEN "nonzero-exit" ELSE obs.status
    OBVIOUS
  <2>3. \/ obs' = [obs EXCEPT !.stage = "classified", !.status = s]
        \/ obs' = [obs EXCEPT !.stage = "classified", !.status = "missing-resource-observation"]
    BY <1>1, <2>2 DEF Classify
  <2> QED BY <2>1, <2>3 DEF ObserveInv, ObserveTypes, LeaderFollows, KilledStaysEmpty, NoneBetween, Timed
<1>2. CASE Cleanup
  BY <1>2 DEF Cleanup, Returned, killpg, cohort, ObserveInv, ObserveTypes, LeaderFollows,
     KilledStaysEmpty, NoneBetween, Timed
<1> QED BY <1>1, <1>2

(* A new call starts a leader.                                               *)
LEMMA BeginStep ==
  ASSUME ObserveInv, Begin
  PROVE  ObserveInv'
<1>1. PICK i, t : i = Head(todo) /\ t = IF UsesTimer THEN "armed" ELSE "off"
  OBVIOUS
<1>2. /\ UNCHANGED controller /\ obs.stage = "none" /\ proc' = [proc EXCEPT !.leader = "running"]
      /\ obs' = [NoObs EXCEPT !.stage = "running", !.item = i, !.timer = t]
  BY <1>1 DEF Begin
<1> QED BY <1>2 DEF NoObs, ObserveInv, ObserveTypes, LeaderFollows, KilledStaysEmpty, NoneBetween, Timed

(* A call is over: its result is recorded, the program raises, or the runner *)
(* is lost with every process.                                               *)
LEMMA OverSteps ==
  ASSUME ObserveInv, Record \/ RaiseOutside \/ Lost
  PROVE  ObserveInv'
<1>1. UNCHANGED controller /\ obs' = NoObs
  BY DEF Record, RaiseOutside, Lost
<1>2. CASE Record \/ RaiseOutside
  <2>1. proc' = [NoProcess EXCEPT !.child = proc.child] /\ obs.stage \in {"none", "returned"}
    BY <1>2 DEF Record, RaiseOutside
  <2> QED BY <1>1, <2>1 DEF NoObs, NoProcess, ObserveInv, ObserveTypes, LeaderFollows,
       KilledStaysEmpty, NoneBetween, Timed
<1>3. CASE Lost
  <2>1. proc' = NoProcess
    BY <1>3 DEF Lost
  <2> QED BY <1>1, <2>1 DEF NoObs, NoProcess, ObserveInv, ObserveTypes, LeaderFollows,
       KilledStaysEmpty, NoneBetween, Timed
<1> QED BY <1>2, <1>3

(* The controller between two calls touches no process.                      *)
LEMMA BetweenSteps ==
  ASSUME ObserveInv, Skip \/ Check \/ Summarize \/ Write \/ Done \/ UNCHANGED vars
  PROVE  ObserveInv'
<1>1. UNCHANGED <<controller, proc, obs>>
  BY DEF Skip, Check, Summarize, Write, Done, vars
<1> QED BY <1>1 DEF ObserveInv, ObserveTypes, LeaderFollows, KilledStaysEmpty, NoneBetween, Timed

(* The inductive invariant of the observed process group.                    *)
LEMMA ObserveInvariant == Spec => []ObserveInv
<1>1. ASSUME ObserveInv, [Next]_vars
      PROVE  ObserveInv'
  <2>1. CASE Step
    BY <1>1, <2>1, BetweenSteps, BeginStep, WaitSteps, ReturnSteps, OverSteps DEF Step
  <2>2. CASE Fork \/ Exit \/ ChildExit
    BY <1>1, <2>2, GroupSteps
  <2>3. CASE TimerSet \/ TimerKill \/ Reap \/ LoopStop
    BY <1>1, <2>3, TimerSteps, WaitSteps
  <2>4. CASE RaiseOutside \/ Lost \/ Done \/ UNCHANGED vars
    BY <1>1, <2>4, OverSteps, BetweenSteps
  <2> QED BY <1>1, <2>1, <2>2, <2>3, <2>4 DEF Next
<1> QED BY <1>1, ObserveInit, PTL DEF Spec

(* When observe of a controller that owns process groups has returned, no    *)
(* process of the command it started is left: whether the command ended, was *)
(* killed by the timer or at a limit, and whatever its descendants did.      *)
THEOREM NoneSurvives == Spec => []NoSurvivor
<1>1. ObserveInv => NoSurvivor
  BY DEF ObserveInv, ObserveTypes, LeaderFollows, NoneBetween, NoSurvivor
<1> QED BY <1>1, ObserveInvariant, PTL

-----------------------------------------------------------------------------
(* A set of numbers that is not empty has a least one.                       *)
LEMMA LeastNumber ==
  ASSUME NEW T \in SUBSET Nat, T # {}
  PROVE  \E x \in T : \A y \in T : x <= y
<1>1. PICK x \in T : ~ \E y \in T : <<y, x>> \in OpToRel(<, Nat)
  BY NatLessThanWellFounded, WFMin, Zenon
<1>2. \A y \in T : ~ (y < x)
  BY <1>1, Zenon DEF OpToRel
<1> QED BY <1>2

(* Induction over the numbers that have a property.                          *)
LEMMA Numbers ==
  ASSUME NEW S \in SUBSET Nat, 0 \in S, \A n \in S : n + 1 \in S
  PROVE  S = Nat
<1> SUFFICES ASSUME S # Nat PROVE FALSE
  OBVIOUS
<1> DEFINE T == Nat \ S
<1>1. T \in SUBSET Nat /\ T # {}
  OBVIOUS
<1>2. PICK x \in T : \A y \in T : x <= y
  <2> HIDE DEF T
  <2> QED BY <1>1, LeastNumber
<1>3. x - 1 \in Nat /\ x - 1 \notin T
  BY <1>2
<1> QED BY <1>3

-----------------------------------------------------------------------------
(* What the measurement controllers publish.  The schedule of a controller   *)
(* is fixed; what is left of it is a suffix.  While the program goes on, and *)
(* after it has published, the observations recorded of any class of items   *)
(* whose rows pass are as many as the items of that class already taken.     *)
Snapshots == {"daily", "weekly", "representative", "diagnostic"}
RowKeepers == {"daily", "weekly"}
Recorded == Runs \ {"probe"}
Statuses == {"pass", "timeout", "output-limit", "nonzero-exit", "missing-resource-observation", "output-mismatch"}
Phases == {"warmup", "retained", "first", "steady", "none"}
Kept == {"retained", "steady"}
Texts == ToSet(Roles) \cup
         {"self", "control-go-original", "none", "source", "roles", "archive", "registered-cases", "profile", "tools",
          "registration", "host-and-seed", "provenance", "unpack", "parent-fixed-point", "fixed-point",
          "identity", "emitted-code", "control-sources", "instructions"}
ItemKinds == Runs \cup {"strip", "check", "manifest", "summarize", "finish"}

(* Items of some kinds, cases and roles; and a class of them that is      *)
(* counted.                                                               *)
Zone(kinds, cases, roles) == [kind : kinds, case : cases, role : roles, phase : Phases]
Items == Zone(ItemKinds, Nat, Texts)
Class(kind, c, r, phases) == [kind : {kind}, case : {c}, role : {r}, phase : phases]
Observations == [item : Zone(Recorded, Nat, Texts), status : Statuses]

(* The elements of X among the first n of a sequence.                        *)
Hits(s, n, X) == Cardinality({i \in 1..n : s[i] \in X})

(* An item that must not come after one of the same case: an application is  *)
(* built before it runs, and summarized once, when it has run.               *)
Conflict(x, y) ==
    /\ x.case = y.case
    /\ \/ x.kind = "summarize" /\ y.kind \in {"build", "run", "summarize"}
       \/ x.kind = "run" /\ y.kind = "build"
Ordered(s) == \A i, j \in DOMAIN s : i < j => ~Conflict(s[i], s[j])

(* The rows of n cases, and the items that are recorded in one of them.   *)
KeysOf(n) == ((1..n) \X ToSet(Roles \o ControlRoles)) \cup {<<0, "self">>} \cup ({0} \X ToSet(Roles))
Observed(n) == {x \in Zone(Recorded, Nat, Texts) : Key(x) \in KeysOf(n)}

(* What every schedule keeps to.                                             *)
Shape(s, name, n) ==
    /\ s \in Seq(Items) /\ Len(s) > 0
    /\ \A i \in DOMAIN s : s[i].kind = "finish" <=> i = Len(s)
    /\ s[Len(s)] = Finish[1]
    /\ \A i \in DOMAIN s : s[i].kind \in Recorded => Key(s[i]) \in KeysOf(n)
    /\ \A i \in DOMAIN s : s[i].kind \in Recorded /\ s[i].case # 0 => s[i].kind \in {"build", "run"}
    /\ \A i \in DOMAIN s : s[i].kind = "manifest" => name = "representative"
    /\ \A i \in DOMAIN s : s[i].kind = "summarize" => s[i].case \in 1..n
    /\ name = "daily" => \A i \in DOMAIN s : s[i].kind = "probe" => Key(s[i]) \in (1..n) \X ToSet(Roles)
    /\ \A c \in 1..n : \E i \in DOMAIN s : s[i] = Summary(c)[1]
    /\ Ordered(s)

(* How often each role of each case is built and run.                        *)
Counted(s, name, n, o) ==
    \A c \in 1..n : \A r \in ToSet(RolesOf(o, c)) :
      /\ Hits(s, Len(s), Class("run", c, r, Kept)) = Samples
      /\ Hits(s, Len(s), Class("run", c, r, Phases)) = (IF name = "diagnostic" THEN 1 ELSE Warmups) + Samples
      /\ name \in RowKeepers => /\ Hits(s, Len(s), Class("build", c, r, Kept)) = BuildRounds - 1
                                /\ Hits(s, Len(s), Class("build", c, r, Phases)) = BuildRounds
      /\ name = "diagnostic" /\ ~(reuse(o) /\ r = Roles[1]) => Hits(s, Len(s), Class("build", c, r, Kept)) = 1

(* The compiler compiling itself, and everything a daily snapshot         *)
(* observes.                                                              *)
SelfCounted(s) ==
    \A P \in {Kept, Phases} :
      /\ Hits(s, Len(s), Class("compiler-ir", 0, "self", P)) = 1
      /\ Hits(s, Len(s), Class("compiler-self", 0, "self", P)) = IF P = Kept THEN SelfBuilds - 1 ELSE SelfBuilds
AllCounted(s, n) == Hits(s, Len(s), Observed(n)) = n * Len(Roles) * (BuildRounds + Warmups + Samples) + 1 + SelfBuilds

(* What has been taken of the schedule, and what of it is over.              *)
taken == Len(Schedule) - Len(todo)
over == IF obs.stage = "none" THEN taken ELSE taken - 1

(* The program goes on; it has published; everything in X passes so far.  *)
Going == todo # <<>>
Published == disk.status \in {"measured", "measured-with-failures", "pass"}
Clean(X) == \A x \in X : row[Key(x)] = "pass"

(* The records of a program and their types.                              *)
CohortTypes ==
    /\ controller \in Controllers
    /\ options \in IF controller = "diagnostic" THEN SUBSET {"reuse", "controls"} ELSE {{}}
    /\ todo \in Seq(Items) /\ row \in [Keys -> Statuses] /\ raw \in Seq(Observations)
    /\ disk = [status |-> disk.status, rows |-> disk.rows]
    /\ obs.status \in Statuses
(* What is left to do is the rest of the schedule.                           *)
RestOfSchedule ==
    /\ Len(todo) <= Len(Schedule)
    /\ \A i \in 1..Len(todo) : todo[i] = Schedule[taken + i]

(* What is observed is the last item that was taken.                      *)
InFlight ==
    obs.stage # "none" =>
      /\ Going /\ taken > 0 /\ obs.item = Schedule[taken] /\ obs.item.kind \in Runs
      /\ controller \in RowKeepers => row[Key(obs.item)] = "pass"

(* Every record is of an item that is over.                               *)
RecordsScheduled ==
    Going \/ Published =>
      \A j \in DOMAIN raw : \E i \in 1..over : Schedule[i] = raw[j].item

(* The observations recorded of a set of items that pass are all there    *)
(* are.                                                                   *)
Tally ==
    Going \/ Published =>
      \A X \in SUBSET Observed(Cases) :
        Clean(X) => Hits(raw, Len(raw), [item : X, status : Statuses]) = Hits(Schedule, over, X)

(* A row fails exactly when a failure of it was recorded.                 *)
FailuresKept ==
    /\ \A j \in DOMAIN raw : raw[j].status # "pass" => row[Key(raw[j].item)] # "pass"
    /\ \A k \in Keys : row[k] # "pass" => \E j \in DOMAIN raw : Key(raw[j].item) = k /\ raw[j].status # "pass"

(* An application that failed to build is not run.                        *)
BuildFailed ==
    controller \in RowKeepers =>
      \A j, m \in DOMAIN raw : raw[j].item.kind = "build" /\ raw[j].status # "pass" /\ raw[m].item.kind = "run"
                                 => Key(raw[j].item) # Key(raw[m].item)

(* Where a failure raises, the program goes on only with passes.          *)
AllPassing == controller \notin RowKeepers /\ Going => \A j \in DOMAIN raw : raw[j].status = "pass"

(* A compilation that passed has written a binary; coverage is of the     *)
(* cohort.                                                                *)
BinaryKnown == \A j \in DOMAIN raw : raw[j].item.kind = "compiler-self" /\ raw[j].status = "pass" => binary # 0
CoverageKnown == controller = "daily" => coverage \subseteq CaseIds \X ToSet(Roles)

(* As long as everything passes the records are those of the schedule so  *)
(* far.                                                                   *)
InOrder ==
    controller = "daily" /\ (Going \/ Published) /\ (\A k \in Keys : row[k] = "pass") =>
      raw = TimingsOf(Schedule)[over]

(* A row is judged by a complete set of observations.                        *)
Judged(x) ==
    /\ controller \in RowKeepers =>
         IF x.status = "pass" THEN x.runtime /\ x.build ELSE ~x.runtime /\ row[<<x.case, x.role>>] # "pass"
    /\ controller = "representative" => x.runtime /\ x.samples = Samples
    /\ controller = "diagnostic" => x.runtime /\ x.build
RowsJudged == \A x \in rows : Judged(x)

(* A role of a case has one row, and the roles of a case have theirs      *)
(* together.                                                              *)
RowsOnce ==
    /\ \A x \in rows : x.case \in CaseIds /\ x.role \in ToSet(RolesOf(options, x.case))
    /\ \A x, y \in rows : x.case = y.case /\ x.role = y.role => x = y
    /\ \A x \in rows : \A r \in ToSet(RolesOf(options, x.case)) : \E y \in rows : y.case = x.case /\ y.role = r

(* The cases that have rows are those whose summary was taken.            *)
RowsScheduled ==
    /\ Going => \A x \in rows : \E i \in 1..taken : Schedule[i].kind = "summarize" /\ Schedule[i].case = x.case
    /\ Going \/ Published =>
         \A i \in 1..taken : Schedule[i].kind = "summarize" => \E x \in rows : x.case = Schedule[i].case

(* What is on disk is absent, of an unfinished program, or of its rows.   *)
OnDisk ==
    /\ disk.rows \in {{}, rows}
    /\ disk.status = "absent" => disk.rows = {}
    /\ Going /\ controller # "representative" => disk.status = "absent"
    /\ Published => todo = <<>> /\ disk.rows = rows
    /\ Published => IF controller \in RowKeepers THEN disk.status \in {"measured", "measured-with-failures"}
                                                 ELSE disk.status = "pass"
    /\ controller \in RowKeepers => disk.status \in {"absent", "measured", "measured-with-failures"}
    /\ disk.status = "measured" => AllPass /\ SelfPass
    /\ disk.status = "measured-with-failures" => ~(AllPass /\ SelfPass)

(* The inductive invariant, by the parts of the state it is about.        *)
PlaceInv == CohortTypes /\ RestOfSchedule /\ InFlight
RecordsInv ==
    /\ RecordsScheduled /\ Tally /\ FailuresKept /\ BuildFailed
    /\ AllPassing /\ BinaryKnown /\ CoverageKnown /\ InOrder
RowsInv == RowsJudged /\ RowsOnce /\ RowsScheduled

(***************************************************************************)
(* Counting the items of a class.                                          *)
(***************************************************************************)
(* Counting the elements of a class among the first n of a sequence.         *)
LEMMA HitsFinite ==
  ASSUME NEW s, NEW n \in Nat, NEW X
  PROVE  IsFiniteSet({i \in 1..n : s[i] \in X}) /\ Hits(s, n, X) \in Nat
<1>1. IsFiniteSet(1..n)
  BY FS_Interval
<1>2. IsFiniteSet({i \in 1..n : s[i] \in X})
  BY <1>1, FS_Subset
<1> QED BY <1>2, FS_CardinalityType DEF Hits

(* None of them is of the class.                                          *)
LEMMA HitsNone ==
  ASSUME NEW s, NEW n \in Nat, NEW X, \A i \in 1..n : s[i] \notin X
  PROVE  Hits(s, n, X) = 0
<1>1. {i \in 1..n : s[i] \in X} = {}
  OBVIOUS
<1> QED BY <1>1, FS_EmptySet DEF Hits

(* All of them are.                                                       *)
LEMMA HitsAll ==
  ASSUME NEW s, NEW n \in Nat, NEW X, \A i \in 1..n : s[i] \in X
  PROVE  Hits(s, n, X) = n
<1>1. {i \in 1..n : s[i] \in X} = 1..n
  OBVIOUS
<1>2. Cardinality(1..n) = n
  <2>1. Cardinality(1..n) = IF 1 > n THEN 0 ELSE n - 1 + 1
    BY FS_Interval
  <2> QED BY <2>1
<1> QED BY <1>1, <1>2 DEF Hits

(* Exactly one is.                                                        *)
LEMMA HitsOne ==
  ASSUME NEW s, NEW n \in Nat, NEW X, NEW i \in 1..n, s[i] \in X, \A j \in 1..n : s[j] \in X => j = i
  PROVE  Hits(s, n, X) = 1
<1>1. {j \in 1..n : s[j] \in X} = {i}
  OBVIOUS
<1> QED BY <1>1, FS_Singleton DEF Hits

(* One that is counted is there.                                          *)
LEMMA HitsSome ==
  ASSUME NEW s, NEW n \in Nat, NEW X, Hits(s, n, X) # 0
  PROVE  \E i \in 1..n : s[i] \in X
BY HitsNone

(* Two sequences whose elements agree on the class count alike.           *)
LEMMA HitsSame ==
  ASSUME NEW s, NEW t, NEW n \in Nat, NEW X, NEW Y, \A i \in 1..n : s[i] \in X <=> t[i] \in Y
  PROVE  Hits(s, n, X) = Hits(t, n, Y)
<1>1. {i \in 1..n : s[i] \in X} = {i \in 1..n : t[i] \in Y}
  OBVIOUS
<1> QED BY <1>1 DEF Hits

(* One element more.                                                      *)
LEMMA HitsStep ==
  ASSUME NEW s, NEW n \in Nat, NEW X
  PROVE  Hits(s, n + 1, X) = Hits(s, n, X) + IF s[n + 1] \in X THEN 1 ELSE 0
<1> DEFINE A == {i \in 1..n : s[i] \in X}
<1> DEFINE B == {i \in 1..(n + 1) : s[i] \in X}
<1>1. IsFiniteSet(A) /\ Cardinality(A) \in Nat /\ n + 1 \notin A
  <2>1. n + 1 \notin A
    OBVIOUS
  <2>2. IsFiniteSet(A) /\ Cardinality(A) \in Nat
    BY HitsFinite, FS_CardinalityType
  <2> QED BY <2>1, <2>2
<1>2. \A i : i \in 1..(n + 1) <=> i \in 1..n \/ i = n + 1
  OBVIOUS
<1>3. CASE s[n + 1] \in X
  <2>1. B = A \cup {n + 1}
    BY <1>2, <1>3
  <2> HIDE DEF A, B
  <2>2. Cardinality(B) = Cardinality(A) + 1
    BY <1>1, <2>1, FS_AddElement
  <2> QED BY <1>3, <2>2 DEF Hits, A, B
<1>4. CASE s[n + 1] \notin X
  <2>1. B = A
    BY <1>2, <1>4
  <2> HIDE DEF A, B
  <2> QED BY <1>1, <1>4, <2>1 DEF Hits, A, B
<1> QED BY <1>3, <1>4

(* The same of a whole sequence.                                             *)
HitsOf(s, X) == Hits(s, Len(s), X)

(* A concatenation counts what its parts count.                           *)
LEMMA HitsConcat ==
  ASSUME NEW A, NEW B, NEW s \in Seq(A), NEW t \in Seq(B), NEW X
  PROVE  HitsOf(s \o t, X) = HitsOf(s, X) + HitsOf(t, X)
<1> DEFINE u == s \o t
<1>1. /\ Len(s) \in Nat /\ Len(t) \in Nat /\ Len(u) = Len(s) + Len(t)
      /\ \A i \in 1..Len(s) : u[i] = s[i]
      /\ \A i \in 1..Len(t) : u[Len(s) + i] = t[i]
  OBVIOUS
<1> HIDE DEF u
<1> DEFINE S == {k \in Nat : k <= Len(t) => Hits(u, Len(s) + k, X) = Hits(s, Len(s), X) + Hits(t, k, X)}
<1>2. 0 \in S
  <2>1. Hits(u, Len(s), X) = Hits(s, Len(s), X)
    BY <1>1, HitsSame
  <2>2. Hits(t, 0, X) = 0
    BY HitsNone
  <2>3. Hits(s, Len(s), X) \in Nat
    BY <1>1, HitsFinite
  <2> QED BY <1>1, <2>1, <2>2, <2>3
<1>3. ASSUME NEW k \in S PROVE k + 1 \in S
  <2> SUFFICES ASSUME k + 1 <= Len(t)
               PROVE Hits(u, Len(s) + (k + 1), X) = Hits(s, Len(s), X) + Hits(t, k + 1, X)
    OBVIOUS
  <2>1. PICK m \in Nat : m = Len(s) + k
    BY <1>1
  <2>2. Hits(u, m, X) = Hits(s, Len(s), X) + Hits(t, k, X)
    BY <1>1, <2>1
  <2>3. u[m + 1] = t[k + 1] /\ Len(s) + (k + 1) = m + 1
    BY <1>1, <2>1
  <2>4. Hits(u, m + 1, X) = Hits(u, m, X) + IF u[m + 1] \in X THEN 1 ELSE 0
    BY HitsStep
  <2>5. Hits(t, k + 1, X) = Hits(t, k, X) + IF t[k + 1] \in X THEN 1 ELSE 0
    BY HitsStep
  <2>6. Hits(s, Len(s), X) \in Nat /\ Hits(t, k, X) \in Nat /\ Hits(u, m, X) \in Nat
    BY <1>1, HitsFinite
  <2>7. PICK a \in Nat, b \in Nat, c \in Nat : a = Hits(s, Len(s), X) /\ b = Hits(t, k, X) /\ c = Hits(u, m, X)
    BY <2>6
  <2>8. CASE t[k + 1] \in X
    <3>1. Hits(u, m + 1, X) = c + 1 /\ Hits(t, k + 1, X) = b + 1 /\ c = a + b
      BY <2>2, <2>3, <2>4, <2>5, <2>7, <2>8
    <3> QED BY <2>3, <2>7, <3>1
  <2>9. CASE t[k + 1] \notin X
    <3>1. Hits(u, m + 1, X) = c + 0 /\ Hits(t, k + 1, X) = b + 0 /\ c = a + b
      BY <2>2, <2>3, <2>4, <2>5, <2>7, <2>9
    <3> QED BY <2>3, <2>7, <3>1
  <2> QED BY <2>8, <2>9
<1>4. S = Nat
  <2>1. S \in SUBSET Nat
    OBVIOUS
  <2> HIDE DEF S
  <2> QED BY <1>2, <1>3, <2>1, Numbers
<1>5. Hits(u, Len(s) + Len(t), X) = Hits(s, Len(s), X) + Hits(t, Len(t), X)
  <2>1. Len(t) \in S
    BY <1>1, <1>4
  <2> QED BY <1>1, <2>1
<1> QED BY <1>1, <1>5 DEF HitsOf, u

(* Sequences put one after another.                                          *)
FlatIs(g, F, m) == g = [i \in 1..m |-> IF i = 1 THEN F[i] ELSE g[i - 1] \o F[i]]

(* The sequence of concatenations that FlattenSeq chooses exists.         *)
LEMMA FlatExists ==
  ASSUME NEW n \in Nat, NEW F
  PROVE  \E g : FlatIs(g, F, n)
<1> DEFINE S == {k \in Nat : \E g : FlatIs(g, F, k)}
<1>1. 0 \in S
  <2> DEFINE g == [i \in 1..0 |-> 0]
  <2>1. g = [i \in 1..0 |-> IF i = 1 THEN F[i] ELSE g[i - 1] \o F[i]]
    OBVIOUS
  <2>2. FlatIs(g, F, 0)
    BY <2>1 DEF FlatIs
  <2> QED BY <2>2
<1>2. ASSUME NEW k \in S PROVE k + 1 \in S
  <2>1. PICK g : FlatIs(g, F, k)
    OBVIOUS
  <2> DEFINE h == [i \in 1..(k + 1) |-> IF i = k + 1 THEN IF i = 1 THEN F[i] ELSE g[i - 1] \o F[i] ELSE g[i]]
  <2>2. h = [i \in 1..(k + 1) |-> IF i = 1 THEN F[i] ELSE h[i - 1] \o F[i]]
    <3>1. \A i \in 1..k : g[i] = IF i = 1 THEN F[i] ELSE g[i - 1] \o F[i]
      BY <2>1 DEF FlatIs
    <3>2. ASSUME NEW i \in 1..(k + 1) PROVE h[i] = IF i = 1 THEN F[i] ELSE h[i - 1] \o F[i]
      <4>1. CASE i = 1
        BY <3>1, <4>1
      <4>2. CASE i # 1
        <5>1. i - 1 \in 1..k /\ i - 1 \in 1..(k + 1) /\ i - 1 # k + 1
          BY <4>2
        <5>2. h[i - 1] = g[i - 1]
          BY <5>1
        <5>3. h[i] = g[i - 1] \o F[i]
          <6>1. CASE i = k + 1
            BY <4>2, <6>1
          <6>2. CASE i # k + 1
            <7>1. i \in 1..k
              BY <6>2
            <7> QED BY <3>1, <4>2, <6>2, <7>1
          <6> QED BY <6>1, <6>2
        <5> HIDE DEF h
        <5> QED BY <4>2, <5>2, <5>3
      <4> QED BY <4>1, <4>2
    <3>3. h = [i \in 1..(k + 1) |-> h[i]]
      OBVIOUS
    <3> HIDE DEF h
    <3> QED BY <3>2, <3>3
  <2>3. FlatIs(h, F, k + 1)
    <3> HIDE DEF h
    <3> QED BY <2>2 DEF FlatIs
  <2> HIDE DEF h
  <2> QED BY <2>3
<1>3. S = Nat
  <2>1. S \in SUBSET Nat
    OBVIOUS
  <2> HIDE DEF S
  <2> QED BY <1>1, <1>2, <2>1, Numbers
<1> QED BY <1>3

(* The first i of them, put together.                                        *)
Joined(P, F, n) == P[0] = <<>> /\ \A i \in 1..n : P[i] = P[i - 1] \o F[i]

(* FlattenSeq is the last of the concatenations of its first parts.       *)
LEMMA Flattened ==
  ASSUME NEW U, NEW n \in Nat, NEW F \in [1..n -> Seq(U)]
  PROVE  \E P : Joined(P, F, n) /\ FlattenSeq(F) = P[n]
<1>1. Len(F) = n
  OBVIOUS
<1>2. CASE n = 0
  <2>1. F = <<>>
    BY <1>1, <1>2
  <2> DEFINE P == [i \in {0} |-> <<>>]
  <2>2. Joined(P, F, n) /\ P[n] = <<>>
    BY <1>2 DEF Joined
  <2>3. FlattenSeq(F) = <<>>
    BY <1>1, <1>2, <2>1 DEF FlattenSeq
  <2> HIDE DEF P
  <2> QED BY <2>2, <2>3
<1>3. CASE n # 0
  <2> DEFINE g == CHOOSE g : g = [i \in 1..Len(F) |-> IF i = 1 THEN F[i] ELSE g[i - 1] \o F[i]]
  <2>1. FlattenSeq(F) = g[n]
    BY <1>1, <1>3 DEF FlattenSeq
  <2>2. \E f : f = [i \in 1..Len(F) |-> IF i = 1 THEN F[i] ELSE f[i - 1] \o F[i]]
    <3>1. \E f : FlatIs(f, F, Len(F))
      BY <1>1, FlatExists
    <3> QED BY <3>1 DEF FlatIs
  <2>3. FlatIs(g, F, n)
    <3>1. FlatIs(g, F, Len(F))
      <4>1. g = [i \in 1..Len(F) |-> IF i = 1 THEN F[i] ELSE g[i - 1] \o F[i]]
        BY <2>2, Zenon
      <4> HIDE DEF g
      <4> QED BY <4>1 DEF FlatIs
    <3> HIDE DEF g
    <3> QED BY <1>1, <3>1
  <2> HIDE DEF g
  <2>4. \A i \in 1..n : g[i] = IF i = 1 THEN F[i] ELSE g[i - 1] \o F[i]
    BY <2>3 DEF FlatIs
  <2> DEFINE P == [i \in 0..n |-> IF i = 0 THEN <<>> ELSE g[i]]
  <2>5. ASSUME NEW i \in 1..n PROVE P[i] = P[i - 1] \o F[i]
    <3>1. P[i] = g[i]
      OBVIOUS
    <3>2. CASE i = 1
      <4>1. P[i - 1] = <<>> /\ g[i] = F[i]
        BY <2>4, <3>2
      <4>2. <<>> \o F[i] = F[i]
        OBVIOUS
      <4> HIDE DEF P
      <4> QED BY <3>1, <4>1, <4>2
    <3>3. CASE i # 1
      <4>1. i - 1 \in 0..n /\ i - 1 # 0
        BY <3>3
      <4>2. P[i - 1] = g[i - 1]
        BY <4>1
      <4> HIDE DEF P
      <4> QED BY <2>4, <3>1, <3>3, <4>2
    <3> QED BY <3>2, <3>3
  <2>6. P[0] = <<>> /\ P[n] = g[n]
    BY <1>3
  <2> HIDE DEF P
  <2>7. Joined(P, F, n)
    BY <2>5, <2>6 DEF Joined
  <2> QED BY <2>1, <2>6, <2>7
<1> QED BY <1>2, <1>3

(* G[i] elements of X in the first i parts.                                  *)
Sums(G, F, X, n) == G[0] = 0 /\ \A i \in 1..n : G[i] = G[i - 1] + HitsOf(F[i], X)

(* FlattenSeq counts the sum over its parts.                              *)
LEMMA FlattenHits ==
  ASSUME NEW U, NEW n \in Nat, NEW F \in [1..n -> Seq(U)], NEW X, NEW G, Sums(G, F, X, n)
  PROVE  FlattenSeq(F) \in Seq(U) /\ HitsOf(FlattenSeq(F), X) = G[n]
<1>1. PICK P : Joined(P, F, n) /\ FlattenSeq(F) = P[n]
  BY Flattened
<1>6. G[0] = 0 /\ \A i \in 1..n : G[i] = G[i - 1] + HitsOf(F[i], X)
  BY DEF Sums
<1> DEFINE S == {k \in Nat : k <= n => P[k] \in Seq(U) /\ HitsOf(P[k], X) = G[k]}
<1>2. 0 \in S
  <2>1. <<>> \in Seq(U) /\ Len(<<>>) = 0
    OBVIOUS
  <2>2. Hits(P[0], 0, X) = 0
    <3>1. 0 \in Nat /\ \A i \in 1..0 : P[0][i] \notin X
      OBVIOUS
    <3> QED BY <3>1, HitsNone
  <2> QED BY <1>1, <1>6, <2>1, <2>2 DEF HitsOf, Joined
<1>3. ASSUME NEW k \in S PROVE k + 1 \in S
  <2> SUFFICES ASSUME k + 1 <= n PROVE P[k + 1] \in Seq(U) /\ HitsOf(P[k + 1], X) = G[k + 1]
    OBVIOUS
  <2>1. k + 1 \in 1..n /\ (k + 1) - 1 = k
    OBVIOUS
  <2>2. P[k] \in Seq(U) /\ HitsOf(P[k], X) = G[k]
    BY <2>1
  <2>3. P[k + 1] = P[k] \o F[k + 1] /\ G[k + 1] = G[k] + HitsOf(F[k + 1], X) /\ F[k + 1] \in Seq(U)
    BY <1>1, <1>6, <2>1 DEF Joined
  <2>4. P[k + 1] \in Seq(U)
    BY <2>2, <2>3
  <2>5. HitsOf(P[k] \o F[k + 1], X) = HitsOf(P[k], X) + HitsOf(F[k + 1], X)
    BY <2>2, <2>3, HitsConcat
  <2> QED BY <2>2, <2>3, <2>4, <2>5
<1>4. S = Nat
  <2>1. S \in SUBSET Nat
    OBVIOUS
  <2> HIDE DEF S
  <2> QED BY <1>2, <1>3, <2>1, Numbers
<1>5. n \in S
  BY <1>4
<1> QED BY <1>1, <1>5

(* A part of a schedule: what it is made of, and that it is in order.        *)
Peace(A, B) == \A x \in A, y \in B : ~Conflict(x, y)
Piece(s, A) == s \in Seq(A) /\ Ordered(s)

(* A piece is one over any larger set.                                    *)
LEMMA PieceWider ==
  ASSUME NEW s, NEW A, NEW C, Piece(s, A), A \subseteq C
  PROVE  Piece(s, C)
BY DEF Piece

(* Two pieces together count what each counts.                            *)
LEMMA PieceSum ==
  ASSUME NEW A, NEW B, NEW s, NEW t, Piece(s, A), Piece(t, B), NEW X
  PROVE  HitsOf(s \o t, X) = HitsOf(s, X) + HitsOf(t, X)
<1>1. s \in Seq(A) /\ t \in Seq(B)
  BY DEF Piece
<1> QED BY <1>1, HitsConcat

(* Two pieces together are a piece when none of the second conflicts with *)
(* one of the first.                                                      *)
LEMMA PieceConcat ==
  ASSUME NEW A, NEW B, NEW C, NEW s, NEW t, Piece(s, A), Piece(t, B), Peace(A, B), A \subseteq C, B \subseteq C
  PROVE  Piece(s \o t, C)
<1>1. s \in Seq(A) /\ t \in Seq(B) /\ s \in Seq(C) /\ t \in Seq(C)
  BY DEF Piece
<1> DEFINE u == s \o t
<1>2. u \in Seq(C)
  BY <1>1
<1>4. Ordered(u)
  <2> SUFFICES ASSUME NEW i \in DOMAIN u, NEW j \in DOMAIN u, i < j PROVE ~Conflict(u[i], u[j])
    BY DEF Ordered
  <2>1. PICK a \in Nat, b \in Nat : a = Len(s) /\ b = Len(t)
    BY <1>1
  <2>2. i \in 1..(a + b) /\ j \in 1..(a + b)
    BY <1>1, <2>1
  <2>3. \A k \in 1..a : u[k] = s[k] /\ k \in DOMAIN s /\ s[k] \in A
    BY <1>1, <2>1
  <2>4. \A k \in 1..(a + b) : k > a => u[k] = t[k - a] /\ k - a \in DOMAIN t /\ t[k - a] \in B
    BY <1>1, <2>1
  <2> HIDE DEF u
  <2>5. CASE j <= a
    BY <2>2, <2>3, <2>5 DEF Piece, Ordered
  <2>6. CASE i <= a /\ j > a
    BY <2>2, <2>3, <2>4, <2>6 DEF Peace
  <2>7. CASE i > a
    BY <2>2, <2>4, <2>7 DEF Piece, Ordered
  <2> QED BY <2>1, <2>2, <2>5, <2>6, <2>7
<1> QED BY <1>2, <1>4 DEF Piece

(* The empty sequence is a piece.                                         *)
LEMMA PieceEmpty ==
  ASSUME NEW A
  PROVE  Piece(<<>>, A) /\ \A X : HitsOf(<<>>, X) = 0
<1>1. <<>> \in Seq(A) /\ Len(<<>>) = 0 /\ DOMAIN <<>> = {}
  OBVIOUS
<1>2. \A X : Hits(<<>>, 0, X) = 0
  BY HitsNone
<1> QED BY <1>1, <1>2 DEF Piece, Ordered, HitsOf

(* A single item is a piece and counts itself.                            *)
LEMMA PieceSingle ==
  ASSUME NEW A, NEW x \in A
  PROVE  Piece(<<x>>, A) /\ \A X : HitsOf(<<x>>, X) = IF x \in X THEN 1 ELSE 0
<1>1. <<x>> \in Seq(A) /\ Len(<<x>>) = 1 /\ DOMAIN <<x>> = 1..1 /\ <<x>>[1] = x
  OBVIOUS
<1>2. ASSUME NEW X PROVE Hits(<<x>>, 1, X) = IF x \in X THEN 1 ELSE 0
  <2>1. \A i \in 1..1 : <<x>>[i] = x
    BY <1>1
  <2>2. CASE x \in X
    BY <2>1, <2>2, HitsAll
  <2>3. CASE x \notin X
    BY <2>1, <2>3, HitsNone
  <2> QED BY <2>2, <2>3
<1>3. Ordered(<<x>>)
  BY <1>1 DEF Ordered
<1> QED BY <1>1, <1>2, <1>3 DEF Piece, HitsOf

(* Nothing in a part of which no element belongs to the class.               *)
LEMMA PieceApart ==
  ASSUME NEW A, NEW s, Piece(s, A), NEW X, A \cap X = {}
  PROVE  HitsOf(s, X) = 0
<1>1. s \in Seq(A) /\ Len(s) \in Nat /\ \A i \in 1..Len(s) : s[i] \notin X
  BY DEF Piece
<1> QED BY <1>1, HitsNone DEF HitsOf

(* A piece counts all its items in a set that holds them all.             *)
LEMMA PieceWithin ==
  ASSUME NEW A, NEW s, Piece(s, A), NEW X, A \subseteq X
  PROVE  HitsOf(s, X) = Len(s)
<1>1. s \in Seq(A) /\ Len(s) \in Nat /\ \A i \in 1..Len(s) : s[i] \in X
  BY DEF Piece
<1> QED BY <1>1, HitsAll DEF HitsOf

(* What a piece counts is a number.                                       *)
LEMMA PieceHits ==
  ASSUME NEW A, NEW s, Piece(s, A), NEW X
  PROVE  HitsOf(s, X) \in Nat
<1>1. Len(s) \in Nat
  BY DEF Piece
<1> QED BY <1>1, HitsFinite DEF HitsOf

(* Many pieces together are a piece when no later one conflicts with an   *)
(* earlier one.                                                           *)
LEMMA FlattenPiece ==
  ASSUME NEW C, NEW n \in Nat, NEW F, NEW V, DOMAIN F = 1..n, F = [i \in 1..n |-> F[i]],
         \A i \in 1..n : Piece(F[i], V[i]) /\ V[i] \subseteq C,
         \A i, j \in 1..n : i < j => Peace(V[i], V[j])
  PROVE  F \in [1..n -> Seq(C)] /\ Piece(FlattenSeq(F), C)
<1>1. F \in [1..n -> Seq(C)]
  <2>1. \A i \in 1..n : F[i] \in Seq(C)
    BY DEF Piece
  <2> QED BY <2>1
<1>2. PICK P : Joined(P, F, n) /\ FlattenSeq(F) = P[n]
  BY <1>1, Flattened
<1> DEFINE W(k) == UNION {V[i] : i \in 1..k}
<1> DEFINE S == {k \in Nat : k <= n => Piece(P[k], W(k))}
<1>3. 0 \in S
  BY <1>2, PieceEmpty DEF Joined
<1>4. ASSUME NEW k \in S PROVE k + 1 \in S
  <2> SUFFICES ASSUME k + 1 <= n PROVE Piece(P[k + 1], W(k + 1))
    OBVIOUS
  <2>1. k + 1 \in 1..n /\ (k + 1) - 1 = k /\ k <= n
    OBVIOUS
  <2>2. Piece(P[k], W(k))
    BY <2>1
  <2>3. P[k + 1] = P[k] \o F[k + 1] /\ Piece(F[k + 1], V[k + 1])
    BY <1>2, <2>1 DEF Joined
  <2>4. Peace(W(k), V[k + 1])
    <3>1. \A i \in 1..k : i \in 1..n /\ i < k + 1
      BY <2>1
    <3>2. \A i \in 1..k : Peace(V[i], V[k + 1])
      BY <2>1, <3>1
    <3> QED BY <3>2 DEF Peace
  <2>5. W(k) \subseteq W(k + 1) /\ V[k + 1] \subseteq W(k + 1)
    <3>1. \A i \in 1..k : i \in 1..(k + 1)
      OBVIOUS
    <3>2. k + 1 \in 1..(k + 1)
      OBVIOUS
    <3> QED BY <3>1, <3>2
  <2> HIDE DEF W
  <2> QED BY <2>2, <2>3, <2>4, <2>5, PieceConcat
<1>5. S = Nat
  <2>1. S \in SUBSET Nat
    OBVIOUS
  <2> HIDE DEF S
  <2> QED BY <1>3, <1>4, <2>1, Numbers
<1>6. Piece(P[n], W(n))
  <2>1. n \in S
    BY <1>5
  <2> QED BY <2>1
<1>7. W(n) \subseteq C
  OBVIOUS
<1> HIDE DEF W
<1> QED BY <1>1, <1>2, <1>6, <1>7, PieceWider

(* Rounds over the compilers.                                                *)
LEMMA RolesAre ==
  /\ Len(Roles) \in Nat /\ Len(Roles) > 0 /\ DOMAIN Roles = 1..Len(Roles)
  /\ \A i \in 1..Len(Roles) : Roles[i] \in ToSet(Roles)
  /\ \A r \in ToSet(Roles) : \E i \in 1..Len(Roles) : Roles[i] = r
  /\ \A i, j \in 1..Len(Roles) : Roles[i] = Roles[j] => i = j
  /\ "self" \notin ToSet(Roles) /\ "control-go-original" \notin ToSet(Roles)
  /\ Roles \in Seq(ToSet(Roles))
<1>1. Roles \in Seq(STRING) /\ Roles # <<>>
  BY MeasurementAssumption
<1>2. Len(Roles) \in Nat /\ Len(Roles) > 0 /\ DOMAIN Roles = 1..Len(Roles)
  BY <1>1
<1>3. /\ \A i \in 1..Len(Roles) : Roles[i] \in ToSet(Roles)
      /\ \A r \in ToSet(Roles) : \E i \in 1..Len(Roles) : Roles[i] = r
  BY <1>2 DEF ToSet
<1>4. \A i, j \in 1..Len(Roles) : Roles[i] = Roles[j] => i = j
  BY <1>2, MeasurementAssumption DEF IsInjective
<1>5. \A i \in 1..Len(Roles) : Roles[i] # "self" /\ Roles[i] # "control-go-original"
  BY <1>2, MeasurementAssumption
<1>6. Roles \in Seq(ToSet(Roles))
  <2>1. Roles = [i \in 1..Len(Roles) |-> Roles[i]]
    BY <1>1
  <2> QED BY <1>2, <1>3, <2>1
<1> QED BY <1>2, <1>3, <1>4, <1>5, <1>6

(* The same names in another order.                                          *)
Arranged(t, R, m) ==
    /\ t \in Seq(R) /\ Len(t) = m
    /\ \A i, j \in 1..m : t[i] = t[j] => i = j
    /\ \A r \in R : \E i \in 1..m : t[i] = r

(* A rotation of an arrangement has the same elements, each once.         *)
LEMMA RotatedArranged ==
  ASSUME NEW R, NEW names, NEW m \in Nat, m > 0, Arranged(names, R, m), NEW k \in Nat
  PROVE  Arranged(rotated(names, k), R, m)
<1> DEFINE n == k % m
<1>1. n \in Nat /\ n < m
  OBVIOUS
<1>2. names \in Seq(R) /\ Len(names) = m
  BY DEF Arranged
<1>3. PICK t : t = SubSeq(names, n + 1, m) \o SubSeq(names, 1, n)
  OBVIOUS
<1>4. rotated(names, k) = t
  BY <1>2, <1>3 DEF rotated
<1> HIDE DEF n
<1>5. /\ SubSeq(names, n + 1, m) \in Seq(R) /\ Len(SubSeq(names, n + 1, m)) = m - n
      /\ SubSeq(names, 1, n) \in Seq(R) /\ Len(SubSeq(names, 1, n)) = n
      /\ \A i \in 1..(m - n) : SubSeq(names, n + 1, m)[i] = names[n + i]
      /\ \A i \in 1..n : SubSeq(names, 1, n)[i] = names[i]
  BY <1>1, <1>2
<1>6. /\ t \in Seq(R) /\ Len(t) = m
      /\ \A i \in 1..(m - n) : t[i] = names[n + i]
      /\ \A i \in 1..m : i > m - n => t[i] = names[i - (m - n)]
  <2>1. PICK a, b : a = SubSeq(names, n + 1, m) /\ b = SubSeq(names, 1, n)
    OBVIOUS
  <2>2. a \in Seq(R) /\ b \in Seq(R) /\ Len(a) = m - n /\ Len(b) = n /\ t = a \o b
    BY <1>3, <1>5, <2>1
  <2>3. /\ \A i \in 1..(m - n) : a[i] = names[n + i]
        /\ \A i \in 1..n : b[i] = names[i]
    BY <1>5, <2>1
  <2>4. t \in Seq(R) /\ Len(t) = m
    <3>1. a \o b \in Seq(R) /\ Len(a \o b) = Len(a) + Len(b)
      BY <2>2, ConcatProperties
    <3> QED BY <1>1, <2>2, <3>1
  <2>7. \A i \in 1..(Len(a) + Len(b)) : (a \o b)[i] = IF i <= Len(a) THEN a[i] ELSE b[i - Len(a)]
    BY <2>2, ConcatProperties
  <2>5. \A i \in 1..(m - n) : t[i] = a[i]
    BY <1>1, <2>2, <2>7
  <2>6. \A i \in 1..m : i > m - n => t[i] = b[i - (m - n)] /\ i - (m - n) \in 1..n
    BY <1>1, <2>2, <2>7
  <2> QED BY <2>3, <2>4, <2>5, <2>6
<1> DEFINE from(i) == IF i <= m - n THEN n + i ELSE i - (m - n)
<1>7. \A i \in 1..m : t[i] = names[from(i)] /\ from(i) \in 1..m
  BY <1>1, <1>6
<1>8. \A i, j \in 1..m : from(i) = from(j) => i = j
  BY <1>1
<1>9. \A q \in 1..m : \E i \in 1..m : from(i) = q
  <2> SUFFICES ASSUME NEW q \in 1..m PROVE \E i \in 1..m : from(i) = q
    OBVIOUS
  <2>1. CASE q > n
    <3>1. q - n \in 1..m /\ from(q - n) = q
      BY <1>1, <2>1
    <3> QED BY <3>1
  <2>2. CASE q <= n
    <3>1. q + (m - n) \in 1..m /\ from(q + (m - n)) = q
      BY <1>1, <2>2
    <3> QED BY <3>1
  <2> QED BY <1>1, <2>1, <2>2
<1> HIDE DEF from
<1>10. \A i, j \in 1..m : t[i] = t[j] => i = j
  <2> SUFFICES ASSUME NEW i \in 1..m, NEW j \in 1..m, t[i] = t[j] PROVE i = j
    OBVIOUS
  <2>1. names[from(i)] = names[from(j)] /\ from(i) \in 1..m /\ from(j) \in 1..m
    BY <1>7
  <2>2. from(i) = from(j)
    BY <2>1 DEF Arranged
  <2> QED BY <1>8, <2>2
<1>11. \A r \in R : \E i \in 1..m : t[i] = r
  <2> SUFFICES ASSUME NEW r \in R PROVE \E i \in 1..m : t[i] = r
    OBVIOUS
  <2>1. PICK q \in 1..m : names[q] = r
    BY DEF Arranged
  <2>2. PICK i \in 1..m : from(i) = q
    BY <1>9
  <2> QED BY <1>7, <2>1, <2>2
<1> QED BY <1>4, <1>6, <1>10, <1>11 DEF Arranged

(* Roles lists each compiler once, as MeasurementAssumption has it.       *)
LEMMA RolesArranged ==
  Arranged(Roles, ToSet(Roles), Len(Roles))
BY RolesAre DEF Arranged

(* One round: every name once.                                               *)
Applications == {"build", "run"}

(* One round has one item of each of its roles, and no other.             *)
LEMMA RoundPiece ==
  ASSUME NEW R, NEW t, NEW m \in Nat, Arranged(t, R, m), NEW kind \in Applications, NEW c \in Nat, NEW ph \in Phases
  PROVE  /\ Piece(OneRound(kind, c, t, ph), Zone({kind}, {c}, R))
         /\ HitsOf(OneRound(kind, c, t, ph), Zone({kind}, {c}, R)) = m
         /\ \A r \in R : \A P : HitsOf(OneRound(kind, c, t, ph), Class(kind, c, r, P)) = IF ph \in P THEN 1 ELSE 0
<1>1. PICK s : s = OneRound(kind, c, t, ph)
  OBVIOUS
<1>2. t \in Seq(R) /\ Len(t) = m /\ DOMAIN t = 1..m /\ \A i \in 1..m : t[i] \in R
  BY DEF Arranged
<1>3. s = [i \in 1..m |-> Item(kind, c, t[i], ph)]
  BY <1>1, <1>2 DEF OneRound
<1>4. \A i \in 1..m : /\ s[i] = Item(kind, c, t[i], ph)
                      /\ s[i] \in Zone({kind}, {c}, R)
  BY <1>2, <1>3 DEF Item, Zone
<1>5. s \in Seq(Zone({kind}, {c}, R)) /\ Len(s) = m /\ DOMAIN s = 1..m
  <2>1. s = [i \in 1..m |-> s[i]]
    BY <1>3
  <2>2. PICK Z : Z = Zone({kind}, {c}, R)
    OBVIOUS
  <2>3. \A i \in 1..m : s[i] \in Z
    BY <1>4, <2>2
  <2>4. s \in Seq(Z) /\ Len(s) = m /\ DOMAIN s = 1..m
    BY <2>1, <2>3
  <2> QED BY <2>2, <2>4
<1>9. ASSUME NEW i \in 1..m, NEW r, NEW P
      PROVE s[i] \in Class(kind, c, r, P) <=> t[i] = r /\ ph \in P
  <2>1. s[i] = [kind |-> kind, case |-> c, role |-> t[i], phase |-> ph]
    BY <1>4 DEF Item
  <2> QED BY <2>1 DEF Class
<1>6. Ordered(s)
  BY <1>4, <1>5 DEF Ordered, Conflict, Item, Applications
<1>7. HitsOf(s, Zone({kind}, {c}, R)) = m
  BY <1>4, <1>5, HitsAll DEF HitsOf
<1>8. ASSUME NEW r \in R, NEW P PROVE HitsOf(s, Class(kind, c, r, P)) = IF ph \in P THEN 1 ELSE 0
  <2>1. CASE ph \notin P
    <3>1. \A i \in 1..m : s[i] \notin Class(kind, c, r, P)
      BY <1>9, <2>1
    <3> QED BY <1>5, <2>1, <3>1, HitsNone DEF HitsOf
  <2>2. CASE ph \in P
    <3>1. PICK i \in 1..m : t[i] = r
      BY DEF Arranged
    <3>2. s[i] \in Class(kind, c, r, P)
      BY <1>9, <2>2, <3>1
    <3>3. \A j \in 1..m : s[j] \in Class(kind, c, r, P) => j = i
      <4> SUFFICES ASSUME NEW j \in 1..m, s[j] \in Class(kind, c, r, P) PROVE j = i
        OBVIOUS
      <4>1. t[j] = r
        BY <1>9
      <4> QED BY <3>1, <4>1 DEF Arranged
    <3> QED BY <1>5, <2>2, <3>2, <3>3, HitsOne DEF HitsOf
  <2> QED BY <2>1, <2>2
<1> QED BY <1>1, <1>5, <1>6, <1>7, <1>8 DEF Piece

(* Items of one kind of an application never conflict.                    *)
LEMMA ZonePeace ==
  ASSUME NEW kind \in Applications, NEW c, NEW R
  PROVE  Peace(Zone({kind}, {c}, R), Zone({kind}, {c}, R))
BY DEF Peace, Zone, Conflict, Applications

(* The rounds after the warmup rounds, and only they, are kept.           *)
LEMMA PhaseIs ==
  ASSUME NEW i \in Nat, NEW warm \in Nat
  PROVE  /\ Phase(i, warm) \in Phases
         /\ Phase(i, warm) \in Kept <=> i > warm
BY DEF Phase, Phases, Kept

(* Every compiler once in every round, the first of them warmups.            *)
InRounds(s, kind, c, rounds, warm) ==
    /\ Piece(s, Zone({kind}, {c}, ToSet(Roles)))
    /\ HitsOf(s, Zone({kind}, {c}, ToSet(Roles))) = rounds * Len(Roles)
    /\ \A r \in ToSet(Roles) : /\ HitsOf(s, Class(kind, c, r, Phases)) = rounds
                              /\ HitsOf(s, Class(kind, c, r, Kept)) = rounds - warm

(* Rotated rounds have each role once in each round.                      *)
LEMMA RoundsPiece ==
  ASSUME NEW kind \in Applications, NEW c \in Nat, NEW rounds \in Nat, NEW warm \in Nat, warm <= rounds
  PROVE  InRounds(RotatedRounds(kind, c, rounds, warm), kind, c, rounds, warm)
<1>1. PICK R, m, Z : R = ToSet(Roles) /\ m = Len(Roles) /\ Z = Zone({kind}, {c}, R)
  OBVIOUS
<1>2. m \in Nat /\ m > 0 /\ Arranged(Roles, R, m)
  BY <1>1, RolesAre, RolesArranged
<1> DEFINE F == [i \in 1..rounds |-> OneRound(kind, c, rotated(Roles, i - 1), Phase(i, warm))]
<1>3. ASSUME NEW i \in 1..rounds
      PROVE  /\ Piece(F[i], Z) /\ HitsOf(F[i], Z) = m
             /\ \A r \in R : \A P : HitsOf(F[i], Class(kind, c, r, P)) = IF Phase(i, warm) \in P THEN 1 ELSE 0
  <2>1. i - 1 \in Nat /\ i \in Nat
    OBVIOUS
  <2>2. Arranged(rotated(Roles, i - 1), R, m)
    BY <1>2, <2>1, RotatedArranged
  <2>3. Phase(i, warm) \in Phases
    BY <2>1, PhaseIs
  <2>4. F[i] = OneRound(kind, c, rotated(Roles, i - 1), Phase(i, warm))
    OBVIOUS
  <2> HIDE DEF F
  <2>5. PICK t, ph : t = rotated(Roles, i - 1) /\ ph = Phase(i, warm)
    OBVIOUS
  <2>6. Arranged(t, R, m) /\ ph \in Phases /\ F[i] = OneRound(kind, c, t, ph)
    BY <2>2, <2>3, <2>4, <2>5
  <2>7. /\ Piece(F[i], Zone({kind}, {c}, R))
        /\ HitsOf(F[i], Zone({kind}, {c}, R)) = m
        /\ \A r \in R : \A P : HitsOf(F[i], Class(kind, c, r, P)) = IF ph \in P THEN 1 ELSE 0
    <3>1. Arranged(t, R, m) /\ m \in Nat /\ kind \in Applications /\ c \in Nat /\ ph \in Phases
      BY <1>2, <2>6
    <3>2. /\ Piece(OneRound(kind, c, t, ph), Zone({kind}, {c}, R))
          /\ HitsOf(OneRound(kind, c, t, ph), Zone({kind}, {c}, R)) = m
          /\ \A q \in R : \A P : HitsOf(OneRound(kind, c, t, ph), Class(kind, c, q, P)) = IF ph \in P THEN 1 ELSE 0
      BY <3>1, RoundPiece
    <3> QED BY <2>6, <3>2
  <2> QED BY <1>1, <2>5, <2>7
<1>4. RotatedRounds(kind, c, rounds, warm) = FlattenSeq(F)
  BY DEF RotatedRounds
<1>5. DOMAIN F = 1..rounds /\ F = [i \in 1..rounds |-> F[i]]
  OBVIOUS
<1> HIDE DEF F
<1>6. Peace(Z, Z)
  BY <1>1, ZonePeace
<1>7. F \in [1..rounds -> Seq(Z)] /\ Piece(FlattenSeq(F), Z)
  <2> DEFINE V == [i \in 1..rounds |-> Z]
  <2>1. \A i \in 1..rounds : V[i] = Z
    OBVIOUS
  <2> HIDE DEF V
  <2>2. \A i \in 1..rounds : Piece(F[i], V[i]) /\ V[i] \subseteq Z
    BY <1>3, <2>1
  <2>3. \A i, j \in 1..rounds : i < j => Peace(V[i], V[j])
    BY <1>6, <2>1
  <2> QED BY <1>5, <2>2, <2>3, FlattenPiece
<1>11. F \in [1..rounds -> Seq(Z)]
  BY <1>7
<1>8. HitsOf(FlattenSeq(F), Z) = rounds * m
  <2> DEFINE G == [i \in 0..rounds |-> i * m]
  <2>1. G[0] = 0 /\ G[rounds] = rounds * m
    BY <1>2
  <2>2. \A i \in 1..rounds : G[i] = G[i - 1] + HitsOf(F[i], Z)
    <3> SUFFICES ASSUME NEW i \in 1..rounds PROVE G[i] = G[i - 1] + HitsOf(F[i], Z)
      OBVIOUS
    <3>1. G[i] = i * m /\ G[i - 1] = (i - 1) * m
      OBVIOUS
    <3>2. i * m = (i - 1) * m + m
      BY <1>2
    <3> QED BY <1>3, <3>1, <3>2
  <2> HIDE DEF G
  <2>3. HitsOf(FlattenSeq(F), Z) = G[rounds]
    <3>1. Sums(G, F, Z, rounds)
      BY <2>1, <2>2 DEF Sums
    <3> QED BY <1>11, <3>1, FlattenHits
  <2> QED BY <2>1, <2>3
<1>9. ASSUME NEW r \in R PROVE HitsOf(FlattenSeq(F), Class(kind, c, r, Phases)) = rounds
  <2> DEFINE G == [i \in 0..rounds |-> i]
  <2>1. G[0] = 0 /\ G[rounds] = rounds
    OBVIOUS
  <2>2. \A i \in 1..rounds : G[i] = G[i - 1] + HitsOf(F[i], Class(kind, c, r, Phases))
    <3> SUFFICES ASSUME NEW i \in 1..rounds PROVE G[i] = G[i - 1] + HitsOf(F[i], Class(kind, c, r, Phases))
      OBVIOUS
    <3>1. G[i] = i /\ G[i - 1] = i - 1
      OBVIOUS
    <3>2. Phase(i, warm) \in Phases
      BY PhaseIs
    <3> QED BY <1>3, <3>1, <3>2
  <2> HIDE DEF G
  <2>3. HitsOf(FlattenSeq(F), Class(kind, c, r, Phases)) = G[rounds]
    <3>1. Sums(G, F, Class(kind, c, r, Phases), rounds)
      BY <2>1, <2>2 DEF Sums
    <3> QED BY <1>11, <3>1, FlattenHits
  <2> QED BY <2>1, <2>3
<1>10. ASSUME NEW r \in R PROVE HitsOf(FlattenSeq(F), Class(kind, c, r, Kept)) = rounds - warm
  <2> DEFINE G == [i \in 0..rounds |-> IF i <= warm THEN 0 ELSE i - warm]
  <2>1. G[0] = 0 /\ G[rounds] = rounds - warm
    OBVIOUS
  <2>2. \A i \in 1..rounds : G[i] = G[i - 1] + HitsOf(F[i], Class(kind, c, r, Kept))
    <3> SUFFICES ASSUME NEW i \in 1..rounds PROVE G[i] = G[i - 1] + HitsOf(F[i], Class(kind, c, r, Kept))
      OBVIOUS
    <3>1. G[i] = (IF i <= warm THEN 0 ELSE i - warm) /\ G[i - 1] = IF i - 1 <= warm THEN 0 ELSE i - 1 - warm
      OBVIOUS
    <3>2. Phase(i, warm) \in Kept <=> i > warm
      BY PhaseIs
    <3>3. HitsOf(F[i], Class(kind, c, r, Kept)) = IF i > warm THEN 1 ELSE 0
      BY <1>3, <3>2
    <3> HIDE DEF G
    <3> QED BY <3>1, <3>3
  <2> HIDE DEF G
  <2>3. HitsOf(FlattenSeq(F), Class(kind, c, r, Kept)) = G[rounds]
    <3>1. Sums(G, F, Class(kind, c, r, Kept), rounds)
      BY <2>1, <2>2 DEF Sums
    <3> QED BY <1>11, <3>1, FlattenHits
  <2> QED BY <2>1, <2>3
<1>12. InRounds(FlattenSeq(F), kind, c, rounds, warm)
  BY <1>1, <1>7, <1>8, <1>9, <1>10 DEF InRounds
<1> QED BY <1>4, <1>12

(* Parts of which one, or every one, has elements of the class.              *)
OnlyIn(F, n, c, X) == \A i \in 1..n : i # c => HitsOf(F[i], X) = 0

(* When only one part has items of a class the whole has as many.         *)
LEMMA FlattenOne ==
  ASSUME NEW U, NEW n \in Nat, NEW F \in [1..n -> Seq(U)], NEW X, NEW c \in 1..n, OnlyIn(F, n, c, X)
  PROVE  HitsOf(FlattenSeq(F), X) = HitsOf(F[c], X)
<1>1. PICK h : h = HitsOf(F[c], X)
  OBVIOUS
<1>2. h \in Nat
  <2>1. F[c] \in Seq(U)
    OBVIOUS
  <2>2. Len(F[c]) \in Nat
    BY <2>1
  <2> QED BY <1>1, <2>2, HitsFinite DEF HitsOf
<1> DEFINE G == [i \in 0..n |-> IF i < c THEN 0 ELSE h]
<1>3. Sums(G, F, X, n)
  <2>1. \A i \in 1..n : G[i] = G[i - 1] + HitsOf(F[i], X)
    <3> SUFFICES ASSUME NEW i \in 1..n PROVE G[i] = G[i - 1] + HitsOf(F[i], X)
      OBVIOUS
    <3>1. G[i] = (IF i < c THEN 0 ELSE h) /\ G[i - 1] = IF i - 1 < c THEN 0 ELSE h
      OBVIOUS
    <3> HIDE DEF G
    <3>2. CASE i = c
      <4>1. G[i] = h /\ G[i - 1] = 0
        BY <3>1, <3>2
      <4> QED BY <1>1, <1>2, <3>2, <4>1
    <3>3. CASE i # c
      <4>1. G[i] = G[i - 1] /\ G[i] \in Nat /\ HitsOf(F[i], X) = 0
        BY <1>2, <3>1, <3>3 DEF OnlyIn
      <4> QED BY <4>1
    <3> QED BY <3>2, <3>3
  <2>2. G[0] = 0
    OBVIOUS
  <2> HIDE DEF G
  <2> QED BY <2>1, <2>2 DEF Sums
<1>4. G[n] = h
  OBVIOUS
<1> HIDE DEF G
<1> QED BY <1>1, <1>3, <1>4, FlattenHits

(* Each part has h of them.                                               *)
InEvery(F, n, X, h) == \A i \in 1..n : HitsOf(F[i], X) = h

(* When each part has h items of a class the whole has n * h.             *)
LEMMA FlattenEach ==
  ASSUME NEW U, NEW n \in Nat, NEW F \in [1..n -> Seq(U)], NEW X, NEW h \in Nat, InEvery(F, n, X, h)
  PROVE  HitsOf(FlattenSeq(F), X) = n * h
<1> DEFINE G == [i \in 0..n |-> i * h]
<1>1. G[0] = 0 /\ G[n] = n * h
  OBVIOUS
<1>2. \A i \in 1..n : G[i] = G[i - 1] + HitsOf(F[i], X)
  <2> SUFFICES ASSUME NEW i \in 1..n PROVE G[i] = G[i - 1] + HitsOf(F[i], X)
    OBVIOUS
  <2>1. G[i] = i * h /\ G[i - 1] = (i - 1) * h
    OBVIOUS
  <2>2. i * h = (i - 1) * h + h
    OBVIOUS
  <2> QED BY <2>1, <2>2 DEF InEvery
<1> HIDE DEF G
<1>3. Sums(G, F, X, n)
  BY <1>1, <1>2 DEF Sums
<1> QED BY <1>1, <1>3, FlattenHits

(* What every schedule is made of, by case and kind.                         *)
Usual(name, n) == {x \in Items :
    /\ x.kind # "finish"
    /\ x.kind \in Recorded => Key(x) \in KeysOf(n)
    /\ x.kind \in Recorded /\ x.case # 0 => x.kind \in Applications
    /\ x.kind = "manifest" => name = "representative"
    /\ x.kind = "summarize" => x.case \in 1..n
    /\ name = "daily" /\ x.kind = "probe" => Key(x) \in (1..n) \X ToSet(Roles)}
Region(name, n, C, K) == {x \in Usual(name, n) : x.case \in C /\ x.kind \in K}

(* Nothing of the second kinds should have come before the first.            *)
Before(K, L) ==
    \/ L \cap {"build", "run", "summarize"} = {}
    \/ "summarize" \notin K /\ ("run" \notin K \/ "build" \notin L)

(* Other cases, or kinds that may follow, make no conflict.               *)
LEMMA RegionPeace ==
  ASSUME NEW name, NEW n, NEW C, NEW K, NEW D, NEW L, C \cap D = {} \/ Before(K, L)
  PROVE  Peace(Region(name, n, C, K), Region(name, n, D, L))
<1> SUFFICES ASSUME NEW x \in Region(name, n, C, K), NEW y \in Region(name, n, D, L), Conflict(x, y) PROVE FALSE
  BY DEF Peace
<1>1. x.case \in C /\ x.kind \in K /\ y.case \in D /\ y.kind \in L
  BY DEF Region
<1> QED BY <1>1 DEF Conflict, Before

(* Two pieces of such regions are a piece of both.                        *)
LEMMA RegionConcat ==
  ASSUME NEW name, NEW n, NEW C, NEW K, NEW D, NEW L, C \cap D = {} \/ Before(K, L),
         NEW s, NEW t, Piece(s, Region(name, n, C, K)), Piece(t, Region(name, n, D, L))
  PROVE  Piece(s \o t, Region(name, n, C \cup D, K \cup L))
<1>1. /\ Region(name, n, C, K) \subseteq Region(name, n, C \cup D, K \cup L)
      /\ Region(name, n, D, L) \subseteq Region(name, n, C \cup D, K \cup L)
  BY DEF Region
<1>2. Peace(Region(name, n, C, K), Region(name, n, D, L))
  BY RegionPeace, Zenon
<1>3. PICK A, B, E : A = Region(name, n, C, K) /\ B = Region(name, n, D, L) /\ E = Region(name, n, C \cup D, K \cup L)
  OBVIOUS
<1>4. Piece(s, A) /\ Piece(t, B) /\ Peace(A, B) /\ A \subseteq E /\ B \subseteq E
  BY <1>1, <1>2, <1>3
<1>5. Piece(s \o t, E)
  BY <1>4, PieceConcat
<1> QED BY <1>3, <1>5

(* A piece of a region is one of a larger region.                         *)
LEMMA RegionWider ==
  ASSUME NEW name, NEW n, NEW C, NEW K, NEW D, NEW L, C \subseteq D, K \subseteq L,
         NEW s, Piece(s, Region(name, n, C, K))
  PROVE  Piece(s, Region(name, n, D, L))
<1>1. Region(name, n, C, K) \subseteq Region(name, n, D, L)
  BY DEF Region
<1> QED BY <1>1, PieceWider

(* It has no item of a class outside the region.                          *)
LEMMA RegionApart ==
  ASSUME NEW name, NEW n, NEW C, NEW K, NEW s, Piece(s, Region(name, n, C, K)),
         NEW kind, NEW c, NEW r, NEW P, c \notin C \/ kind \notin K
  PROVE  HitsOf(s, Class(kind, c, r, P)) = 0
<1>1. Region(name, n, C, K) \cap Class(kind, c, r, P) = {}
  BY DEF Region, Class
<1> QED BY <1>1, PieceApart

(* It has no observation when its kinds are not recorded.                 *)
LEMMA RegionUnrecorded ==
  ASSUME NEW name, NEW n, NEW C, NEW K, NEW s, Piece(s, Region(name, n, C, K)), K \cap Recorded = {}
  PROVE  HitsOf(s, Observed(n)) = 0
<1>1. \A x \in Region(name, n, C, K) : x.kind \notin Recorded
  BY DEF Region
<1>2. \A x \in Observed(n) : x.kind \in Recorded
  BY DEF Observed, Zone
<1>3. Region(name, n, C, K) \cap Observed(n) = {}
  BY <1>1, <1>2
<1> QED BY <1>3, PieceApart

(* The parts of a case, and the cases one after another.                     *)
InCases(F, name, n, K) == \A c \in 1..n : Piece(F[c], Region(name, n, {c}, K))

(* One piece for each case together are a piece.                          *)
LEMMA CasesPiece ==
  ASSUME NEW name, NEW n \in Nat, NEW K, NEW F, DOMAIN F = 1..n, F = [c \in 1..n |-> F[c]],
         \A c \in 1..n : Piece(F[c], Region(name, n, {c}, K))
  PROVE  /\ F \in [1..n -> Seq(Region(name, n, 1..n, K))]
         /\ Piece(FlattenSeq(F), Region(name, n, 1..n, K))
<1>1. PICK Z : Z = Region(name, n, 1..n, K)
  OBVIOUS
<1> DEFINE V == [c \in 1..n |-> Region(name, n, {c}, K)]
<1>2. \A c \in 1..n : V[c] = Region(name, n, {c}, K)
  OBVIOUS
<1> HIDE DEF V
<1>3. \A c \in 1..n : Piece(F[c], V[c]) /\ V[c] \subseteq Z
  BY <1>1, <1>2 DEF Region
<1>4. \A c, d \in 1..n : c < d => Peace(V[c], V[d])
  <2> SUFFICES ASSUME NEW c \in 1..n, NEW d \in 1..n, c < d PROVE Peace(V[c], V[d])
    OBVIOUS
  <2>1. PICK C, D : C = {c} /\ D = {d}
    OBVIOUS
  <2>2. C \cap D = {}
    BY <2>1
  <2>3. Peace(Region(name, n, C, K), Region(name, n, D, K))
    BY <2>2, RegionPeace
  <2> QED BY <1>2, <2>1, <2>3
<1>5. F \in [1..n -> Seq(Z)] /\ Piece(FlattenSeq(F), Z)
  BY <1>3, <1>4, FlattenPiece
<1> QED BY <1>1, <1>5

(* In it a class of a case is counted in the piece of that case.          *)
LEMMA CasesHits ==
  ASSUME NEW name, NEW n \in Nat, NEW K, NEW U, NEW F \in [1..n -> Seq(U)],
         InCases(F, name, n, K), NEW c \in 1..n, NEW kind, NEW r, NEW P
  PROVE  HitsOf(FlattenSeq(F), Class(kind, c, r, P)) = HitsOf(F[c], Class(kind, c, r, P))
<1>1. OnlyIn(F, n, c, Class(kind, c, r, P))
  <2> SUFFICES ASSUME NEW d \in 1..n, d # c PROVE HitsOf(F[d], Class(kind, c, r, P)) = 0
    BY DEF OnlyIn
  <2>1. c \notin {d} /\ Piece(F[d], Region(name, n, {d}, K))
    BY DEF InCases
  <2> QED BY <2>1, RegionApart
<1> QED BY <1>1, FlattenOne

(* The parts of one case, in an order that makes no conflict.             *)
LEMMA LocalConcat ==
  ASSUME NEW name, NEW n, NEW C, NEW K, NEW L, Before(K, L),
         NEW s, NEW t, Piece(s, Region(name, n, C, K)), Piece(t, Region(name, n, C, L))
  PROVE  Piece(s \o t, Region(name, n, C, K \cup L))
<1>1. C \cup C = C
  OBVIOUS
<1>2. Piece(s \o t, Region(name, n, C \cup C, K \cup L))
  BY RegionConcat
<1> QED BY <1>1, <1>2

(* The roles with controls are the ordinary ones and the control.         *)
LEMMA RolesControls ==
  ToSet(Roles \o ControlRoles) = ToSet(Roles) \cup {"control-go-original"}
<1>1. PICK T : T = ToSet(Roles) \cup {"control-go-original"}
  OBVIOUS
<1>2. PICK t : t = ControlRoles /\ Len(t) = 1 /\ t[1] = "control-go-original" /\ t \in Seq(T)
  <2>1. PICK g : g = "control-go-original"
    OBVIOUS
  <2>2. g \in T
    BY <1>1, <2>1
  <2>3. <<g>> \in Seq(T) /\ Len(<<g>>) = 1 /\ <<g>>[1] = g
    BY <2>2
  <2> QED BY <2>1, <2>3 DEF ControlRoles
<1>3. Roles \in Seq(T)
  BY <1>1, RolesAre
<1>4. PICK m \in Nat : m = Len(Roles) /\ \A i \in 1..m : Roles[i] \in ToSet(Roles)
  <2>1. Len(Roles) \in Nat /\ \A i \in 1..Len(Roles) : Roles[i] \in ToSet(Roles)
    BY RolesAre
  <2> QED BY <2>1
<1>5. PICK u : u = Roles \o t
  OBVIOUS
<1>6. /\ u \in Seq(T) /\ Len(u) = m + 1
      /\ \A i \in 1..(m + 1) : u[i] = IF i <= m THEN Roles[i] ELSE t[i - m]
  <2>1. /\ Roles \o t \in Seq(T) /\ Len(Roles \o t) = Len(Roles) + Len(t)
        /\ \A i \in 1..(Len(Roles) + Len(t)) : (Roles \o t)[i] = IF i <= Len(Roles) THEN Roles[i] ELSE t[i - Len(Roles)]
    BY <1>2, <1>3, ConcatProperties
  <2> QED BY <1>2, <1>4, <1>5, <2>1
<1>7. DOMAIN u = 1..(m + 1)
  BY <1>6
<1>8. ASSUME NEW r \in ToSet(u) PROVE r \in T
  BY <1>6, <1>7 DEF ToSet
<1>9. ASSUME NEW r \in T PROVE r \in ToSet(u)
  <2>1. CASE r = "control-go-original"
    <3>1. m + 1 \in 1..(m + 1) /\ ~(m + 1 <= m) /\ (m + 1) - m = 1
      OBVIOUS
    <3>2. u[m + 1] = r
      BY <1>2, <1>6, <2>1, <3>1
    <3> QED BY <1>7, <3>1, <3>2 DEF ToSet
  <2>2. CASE r \in ToSet(Roles)
    <3>1. PICK i \in 1..m : Roles[i] = r
      BY <1>4, <2>2, RolesAre
    <3>2. i \in 1..(m + 1) /\ u[i] = r
      BY <1>6, <3>1
    <3> QED BY <1>7, <3>2 DEF ToSet
  <2> QED BY <1>1, <2>1, <2>2
<1> QED BY <1>1, <1>2, <1>5, <1>8, <1>9

(* The builds, or runs, of one case are in its region, and recorded.      *)
LEMMA ZoneRegion ==
  ASSUME NEW name, NEW n \in Nat, NEW c \in 1..n, NEW kind \in Applications, NEW R, R \subseteq ToSet(Roles \o ControlRoles)
  PROVE  Zone({kind}, {c}, R) \subseteq Region(name, n, {c}, {kind}) /\ Zone({kind}, {c}, R) \subseteq Observed(n)
<1> SUFFICES ASSUME NEW x \in Zone({kind}, {c}, R) PROVE x \in Region(name, n, {c}, {kind}) /\ x \in Observed(n)
  OBVIOUS
<1>1. /\ x = [kind |-> x.kind, case |-> x.case, role |-> x.role, phase |-> x.phase]
      /\ x.kind = kind /\ x.case = c /\ x.role \in R /\ x.phase \in Phases
  BY DEF Zone
<1>2. x.role \in Texts /\ x.role \in ToSet(Roles \o ControlRoles)
  <2>1. x.role \in ToSet(Roles \o ControlRoles)
    BY <1>1
  <2>2. x.role \in ToSet(Roles) \/ x.role = "control-go-original"
    BY <2>1, RolesControls
  <2>3. "control-go-original" \in Texts
    BY DEF Texts
  <2>4. ToSet(Roles) \subseteq Texts
    BY Zenon DEF Texts
  <2> QED BY <2>1, <2>2, <2>3, <2>4
<1>3. kind \in Recorded /\ kind \in ItemKinds /\ kind # "finish" /\ kind # "manifest" /\ kind # "summarize" /\ kind # "probe"
  BY DEF Applications, Recorded, Runs, ItemKinds
<1>4. x \in Items /\ x \in Zone(Recorded, Nat, Texts)
  BY <1>1, <1>2, <1>3 DEF Items, Zone
<1>5. Key(x) \in KeysOf(n)
  BY <1>1, <1>2 DEF Key, KeysOf
<1> QED BY <1>1, <1>3, <1>4, <1>5 DEF Region, Usual, Observed

(* A check of a case.                                                     *)
LEMMA CheckedPiece ==
  ASSUME NEW name, NEW n \in Nat, NEW c \in Nat, NEW what \in Texts
  PROVE  Piece(Checked(c, what), Region(name, n, {c}, {"check"}))
<1>1. PICK x : x = Item("check", c, what, "none")
  OBVIOUS
<1>2. x = [kind |-> "check", case |-> c, role |-> what, phase |-> "none"]
  BY <1>1 DEF Item
<1>3. x \in Items
  BY <1>2 DEF Items, Zone, ItemKinds, Phases
<1>4. x \in Region(name, n, {c}, {"check"})
  BY <1>2, <1>3 DEF Region, Usual, Recorded, Runs
<1> QED BY <1>1, <1>4, PieceSingle DEF Checked

(* The summary of a case, which it has once.                              *)
LEMMA SummaryPiece ==
  ASSUME NEW name, NEW n \in Nat, NEW c \in 1..n
  PROVE  /\ Piece(Summary(c), Region(name, n, {c}, {"summarize"}))
         /\ HitsOf(Summary(c), Class("summarize", c, "none", {"none"})) = 1
<1>1. PICK x : x = Item("summarize", c, "none", "none")
  OBVIOUS
<1>2. x = [kind |-> "summarize", case |-> c, role |-> "none", phase |-> "none"]
  BY <1>1 DEF Item
<1>3. x \in Items
  BY <1>2 DEF Items, Zone, ItemKinds, Phases, Texts
<1>4. x \in Region(name, n, {c}, {"summarize"})
  BY <1>2, <1>3 DEF Region, Usual, Recorded, Runs
<1>5. x \in Class("summarize", c, "none", {"none"})
  BY <1>2 DEF Class
<1>6. Summary(c) = <<x>>
  BY <1>1 DEF Summary
<1> QED BY <1>4, <1>5, <1>6, PieceSingle

(* The rotated rounds of a case as a piece of its region.                 *)
RoundsOf(s, name, n, kind, c, rounds, warm) ==
    /\ Piece(s, Region(name, n, {c}, {kind}))
    /\ HitsOf(s, Observed(n)) = rounds * Len(Roles)
    /\ \A r \in ToSet(Roles) : /\ HitsOf(s, Class(kind, c, r, Phases)) = rounds
                              /\ HitsOf(s, Class(kind, c, r, Kept)) = rounds - warm

(* The rotated rounds of a case.                                          *)
LEMMA RoundsRegion ==
  ASSUME NEW name, NEW n \in Nat, NEW c \in 1..n, NEW kind \in Applications,
         NEW rounds \in Nat, NEW warm \in Nat, warm <= rounds
  PROVE  RoundsOf(RotatedRounds(kind, c, rounds, warm), name, n, kind, c, rounds, warm)
<1>1. PICK s, Z : s = RotatedRounds(kind, c, rounds, warm) /\ Z = Zone({kind}, {c}, ToSet(Roles))
  OBVIOUS
<1>2. c \in Nat
  OBVIOUS
<1>3. /\ Piece(s, Z) /\ HitsOf(s, Z) = rounds * Len(Roles)
      /\ \A r \in ToSet(Roles) : /\ HitsOf(s, Class(kind, c, r, Phases)) = rounds
                                 /\ HitsOf(s, Class(kind, c, r, Kept)) = rounds - warm
  <2>1. InRounds(s, kind, c, rounds, warm)
    BY <1>1, <1>2, RoundsPiece
  <2> QED BY <1>1, <2>1 DEF InRounds
<1>4. Z \subseteq Region(name, n, {c}, {kind}) /\ Z \subseteq Observed(n)
  <2>1. ToSet(Roles) \subseteq ToSet(Roles \o ControlRoles)
    BY RolesControls
  <2> QED BY <1>1, <2>1, ZoneRegion
<1>5. Piece(s, Region(name, n, {c}, {kind}))
  BY <1>3, <1>4, PieceWider
<1>6. HitsOf(s, Z) = Len(s) /\ HitsOf(s, Observed(n)) = Len(s)
  BY <1>3, <1>4, PieceWithin
<1> QED BY <1>1, <1>3, <1>5, <1>6 DEF RoundsOf

(* Two items that do not conflict.                                        *)
LEMMA PiecePair ==
  ASSUME NEW A, NEW x \in A, NEW y \in A, Peace(A, A)
  PROVE  Piece(<<x, y>>, A)
<1>1. <<x, y>> \in Seq(A) /\ DOMAIN <<x, y>> = 1..2 /\ <<x, y>>[1] = x /\ <<x, y>>[2] = y
  OBVIOUS
<1>2. \A i \in 1..2 : <<x, y>>[i] \in A
  BY <1>1
<1>3. Ordered(<<x, y>>)
  BY <1>1, <1>2 DEF Ordered, Peace
<1> QED BY <1>1, <1>3 DEF Piece

(* Each binary is stripped and probed.                                    *)
LEMMA StripProbePiece ==
  ASSUME NEW n \in Nat, NEW c \in 1..n
  PROVE  Piece(strip_and_probe(c), Region("daily", n, {c}, {"strip", "probe"}))
<1>1. PICK Z : Z = Region("daily", n, {c}, {"strip", "probe"})
  OBVIOUS
<1>7. PICK m : m = Len(Roles)
  OBVIOUS
<1>2. m \in Nat /\ m = Len(Roles) /\ DOMAIN Roles = 1..m
  BY <1>7, RolesAre
<1>3. Peace(Z, Z)
  <2>1. PICK K : K = {"strip", "probe"}
    OBVIOUS
  <2>2. Before(K, K)
    BY <2>1 DEF Before
  <2> QED BY <1>1, <2>1, <2>2, RegionPeace
<1> DEFINE F == [i \in 1..m |-> <<Item("strip", c, Roles[i], "none"), Item("probe", c, Roles[i], "none")>>]
<1>4. ASSUME NEW i \in 1..m PROVE Piece(F[i], Z)
  <2>1. PICK x, y : x = Item("strip", c, Roles[i], "none") /\ y = Item("probe", c, Roles[i], "none")
    OBVIOUS
  <2>2. Roles[i] \in ToSet(Roles)
    BY <1>2, RolesAre
  <2>3. Roles[i] \in Texts
    <3>1. ToSet(Roles) \subseteq Texts
      BY Zenon DEF Texts
    <3> QED BY <2>2, <3>1
  <2>4. /\ x = [kind |-> "strip", case |-> c, role |-> Roles[i], phase |-> "none"]
        /\ y = [kind |-> "probe", case |-> c, role |-> Roles[i], phase |-> "none"]
    BY <2>1 DEF Item
  <2>5. x \in Items /\ y \in Items
    BY <2>3, <2>4 DEF Items, Zone, ItemKinds, Phases, Runs
  <2>6. Key(y) \in (1..n) \X ToSet(Roles)
    BY <2>2, <2>4 DEF Key
  <2>7. x \in Z
    BY <1>1, <2>4, <2>5 DEF Region, Usual, Recorded, Runs
  <2>8. y \in Z
    BY <1>1, <2>4, <2>5, <2>6 DEF Region, Usual, Recorded, Runs
  <2>9. F[i] = <<x, y>>
    BY <2>1
  <2> HIDE DEF F
  <2> QED BY <1>3, <2>7, <2>8, <2>9, PiecePair
<1>5. DOMAIN F = 1..m /\ F = [i \in 1..m |-> F[i]] /\ strip_and_probe(c) = FlattenSeq(F)
  BY <1>2 DEF strip_and_probe
<1> HIDE DEF F
<1>6. Piece(FlattenSeq(F), Z)
  <2> DEFINE V == [i \in 1..m |-> Z]
  <2>1. \A i \in 1..m : V[i] = Z
    OBVIOUS
  <2> HIDE DEF V
  <2>2. \A i \in 1..m : Piece(F[i], V[i]) /\ V[i] \subseteq Z
    BY <1>4, <2>1
  <2>3. \A i, j \in 1..m : i < j => Peace(V[i], V[j])
    BY <1>3, <2>1
  <2> QED BY <1>2, <1>5, <2>2, <2>3, FlattenPiece
<1> QED BY <1>1, <1>5, <1>6

(* What is said of the part of one case.                                     *)
SummarizedOnce(s, c) == HitsOf(s, Class("summarize", c, "none", {"none"})) = 1
BuiltInRounds(s, c) ==
    \A r \in ToSet(Roles) : /\ HitsOf(s, Class("build", c, r, Phases)) = BuildRounds
                            /\ HitsOf(s, Class("build", c, r, Kept)) = BuildRounds - 1
RunInRounds(s, c) ==
    \A r \in ToSet(Roles) : /\ HitsOf(s, Class("run", c, r, Phases)) = Warmups + Samples
                            /\ HitsOf(s, Class("run", c, r, Kept)) = Samples

(* The settings of the measurement are numbers, with something kept.      *)
LEMMA Settings ==
  /\ BuildRounds \in Nat /\ BuildRounds > 1 /\ Warmups \in Nat /\ Samples \in Nat /\ Samples > 0
  /\ SelfBuilds \in Nat /\ SelfBuilds > 1 /\ Generations \in Nat
BY MeasurementAssumption

(* The kinds of a daily case, in their order.                             *)
DailyKinds == ((({"check"} \cup {"build"}) \cup {"strip", "probe"}) \cup {"run"}) \cup {"summarize"}

(* One application of the daily measurement.                              *)
LEMMA DailyCase ==
  ASSUME NEW n \in Nat, NEW c \in 1..n
  PROVE  /\ Piece(daily_case(c), Region("daily", n, {c}, DailyKinds))
         /\ BuiltInRounds(daily_case(c), c) /\ RunInRounds(daily_case(c), c) /\ SummarizedOnce(daily_case(c), c)
         /\ HitsOf(daily_case(c), Observed(n)) = BuildRounds * Len(Roles) + (Warmups + Samples) * Len(Roles)
<1>1. PICK s1, s2, s3, s4, s5 :
        /\ s1 = source_case(c) /\ s2 = RotatedRounds("build", c, BuildRounds, 1) /\ s3 = strip_and_probe(c)
        /\ s4 = RotatedRounds("run", c, Warmups + Samples, Warmups) /\ s5 = Summary(c)
  OBVIOUS
<1>2. daily_case(c) = (((s1 \o s2) \o s3) \o s4) \o s5
  BY <1>1 DEF daily_case
<1>3. PICK K1, K2, K3, K4, K5 : K1 = {"check"} /\ K2 = {"build"} /\ K3 = {"strip", "probe"} /\ K4 = {"run"} /\ K5 = {"summarize"}
  OBVIOUS
<1>4. PICK C : C = {c}
  OBVIOUS
<1>5. Piece(s1, Region("daily", n, C, K1))
  <2>1. "source" \in Texts /\ c \in Nat
    BY DEF Texts
  <2> QED BY <1>1, <1>3, <1>4, <2>1, CheckedPiece DEF source_case
<1>6. /\ Piece(s2, Region("daily", n, C, K2)) /\ HitsOf(s2, Observed(n)) = BuildRounds * Len(Roles)
      /\ \A r \in ToSet(Roles) : /\ HitsOf(s2, Class("build", c, r, Phases)) = BuildRounds
                                 /\ HitsOf(s2, Class("build", c, r, Kept)) = BuildRounds - 1
  <2>1. "build" \in Applications
    BY DEF Applications
  <2>2. PICK kind : kind = "build"
    OBVIOUS
  <2>3. 1 \in Nat /\ 1 <= BuildRounds /\ BuildRounds \in Nat /\ kind \in Applications
    BY <2>1, <2>2, Settings
  <2>4. RoundsOf(s2, "daily", n, kind, c, BuildRounds, 1)
    BY <1>1, <2>2, <2>3, RoundsRegion
  <2> QED BY <1>3, <1>4, <2>2, <2>4 DEF RoundsOf
<1>7. /\ Piece(s4, Region("daily", n, C, K4)) /\ HitsOf(s4, Observed(n)) = (Warmups + Samples) * Len(Roles)
      /\ \A r \in ToSet(Roles) : /\ HitsOf(s4, Class("run", c, r, Phases)) = Warmups + Samples
                                 /\ HitsOf(s4, Class("run", c, r, Kept)) = Samples
  <2>1. "run" \in Applications
    BY DEF Applications
  <2>2. PICK kind, rounds : kind = "run" /\ rounds = Warmups + Samples
    OBVIOUS
  <2>3. Warmups \in Nat /\ Warmups <= rounds /\ rounds \in Nat /\ kind \in Applications /\ rounds - Warmups = Samples
    BY <2>1, <2>2, Settings
  <2>4. RoundsOf(s4, "daily", n, kind, c, rounds, Warmups)
    BY <1>1, <2>2, <2>3, RoundsRegion
  <2> QED BY <1>3, <1>4, <2>2, <2>3, <2>4 DEF RoundsOf
<1>8. Piece(s3, Region("daily", n, C, K3))
  BY <1>1, <1>3, <1>4, StripProbePiece
<1>9. Piece(s5, Region("daily", n, C, K5)) /\ HitsOf(s5, Class("summarize", c, "none", {"none"})) = 1
  BY <1>1, <1>3, <1>4, SummaryPiece
<1>10. /\ Before(K1, K2) /\ Before(K1 \cup K2, K3) /\ Before((K1 \cup K2) \cup K3, K4)
       /\ Before(((K1 \cup K2) \cup K3) \cup K4, K5)
  BY <1>3 DEF Before
<1>11. /\ Piece(s1 \o s2, Region("daily", n, C, K1 \cup K2))
       /\ \A X : HitsOf(s1 \o s2, X) = HitsOf(s1, X) + HitsOf(s2, X)
  <2>1. Piece(s1 \o s2, Region("daily", n, C, K1 \cup K2))
    BY <1>5, <1>6, <1>10, LocalConcat
  <2>2. \A X : HitsOf(s1 \o s2, X) = HitsOf(s1, X) + HitsOf(s2, X)
    BY <1>5, <1>6, <1>10, PieceSum
  <2> QED BY <2>1, <2>2
<1>12. /\ Piece((s1 \o s2) \o s3, Region("daily", n, C, (K1 \cup K2) \cup K3))
       /\ \A X : HitsOf((s1 \o s2) \o s3, X) = HitsOf(s1 \o s2, X) + HitsOf(s3, X)
  <2>1. Piece((s1 \o s2) \o s3, Region("daily", n, C, (K1 \cup K2) \cup K3))
    BY <1>8, <1>10, <1>11, LocalConcat
  <2>2. \A X : HitsOf((s1 \o s2) \o s3, X) = HitsOf(s1 \o s2, X) + HitsOf(s3, X)
    BY <1>8, <1>10, <1>11, PieceSum
  <2> QED BY <2>1, <2>2
<1>13. /\ Piece(((s1 \o s2) \o s3) \o s4, Region("daily", n, C, ((K1 \cup K2) \cup K3) \cup K4))
       /\ \A X : HitsOf(((s1 \o s2) \o s3) \o s4, X) = HitsOf((s1 \o s2) \o s3, X) + HitsOf(s4, X)
  <2>1. Piece(((s1 \o s2) \o s3) \o s4, Region("daily", n, C, ((K1 \cup K2) \cup K3) \cup K4))
    BY <1>7, <1>10, <1>12, LocalConcat
  <2>2. \A X : HitsOf(((s1 \o s2) \o s3) \o s4, X) = HitsOf((s1 \o s2) \o s3, X) + HitsOf(s4, X)
    BY <1>7, <1>10, <1>12, PieceSum
  <2> QED BY <2>1, <2>2
<1>14. /\ Piece((((s1 \o s2) \o s3) \o s4) \o s5, Region("daily", n, C, (((K1 \cup K2) \cup K3) \cup K4) \cup K5))
       /\ \A X : HitsOf((((s1 \o s2) \o s3) \o s4) \o s5, X) = HitsOf(((s1 \o s2) \o s3) \o s4, X) + HitsOf(s5, X)
  <2>1. Piece((((s1 \o s2) \o s3) \o s4) \o s5, Region("daily", n, C, (((K1 \cup K2) \cup K3) \cup K4) \cup K5))
    BY <1>9, <1>10, <1>13, LocalConcat
  <2>2. \A X : HitsOf((((s1 \o s2) \o s3) \o s4) \o s5, X) = HitsOf(((s1 \o s2) \o s3) \o s4, X) + HitsOf(s5, X)
    BY <1>9, <1>10, <1>13, PieceSum
  <2> QED BY <2>1, <2>2
<1>15. PICK s : s = (((s1 \o s2) \o s3) \o s4) \o s5 /\ s = daily_case(c)
  BY <1>2
<1>16. /\ Piece(s, Region("daily", n, C, DailyKinds))
       /\ \A X : HitsOf(s, X) = HitsOf(s1, X) + HitsOf(s2, X) + HitsOf(s3, X) + HitsOf(s4, X) + HitsOf(s5, X)
  BY <1>3, <1>11, <1>12, <1>13, <1>14, <1>15 DEF DailyKinds
<1>17. ASSUME NEW kind, NEW r, NEW P
       PROVE  /\ kind \notin K1 => HitsOf(s1, Class(kind, c, r, P)) = 0
              /\ kind \notin K2 => HitsOf(s2, Class(kind, c, r, P)) = 0
              /\ kind \notin K3 => HitsOf(s3, Class(kind, c, r, P)) = 0
              /\ kind \notin K4 => HitsOf(s4, Class(kind, c, r, P)) = 0
              /\ kind \notin K5 => HitsOf(s5, Class(kind, c, r, P)) = 0
  BY <1>5, <1>6, <1>7, <1>8, <1>9, RegionApart
<1>18. \A r, P : /\ HitsOf(s, Class("build", c, r, P)) = 0 + HitsOf(s2, Class("build", c, r, P)) + 0 + 0 + 0
                 /\ HitsOf(s, Class("run", c, r, P)) = 0 + 0 + 0 + HitsOf(s4, Class("run", c, r, P)) + 0
                 /\ HitsOf(s, Class("summarize", c, r, P)) = 0 + 0 + 0 + 0 + HitsOf(s5, Class("summarize", c, r, P))
  BY <1>3, <1>16, <1>17
<1>19. BuiltInRounds(s, c) /\ RunInRounds(s, c) /\ SummarizedOnce(s, c)
  BY <1>6, <1>7, <1>9, <1>18, Settings DEF BuiltInRounds, RunInRounds, SummarizedOnce
<1>20. HitsOf(s1, Observed(n)) = 0 /\ HitsOf(s3, Observed(n)) = 0 /\ HitsOf(s5, Observed(n)) = 0
  <2>1. K1 \cap Recorded = {} /\ K3 \cap Recorded = {} /\ K5 \cap Recorded = {}
    BY <1>3 DEF Recorded, Runs
  <2> QED BY <1>5, <1>8, <1>9, <2>1, RegionUnrecorded
<1>21. HitsOf(s, Observed(n)) = BuildRounds * Len(Roles) + (Warmups + Samples) * Len(Roles)
  <2>1. HitsOf(s2, Observed(n)) \in Nat /\ HitsOf(s4, Observed(n)) \in Nat
    BY <1>6, <1>7, PieceHits
  <2>2. HitsOf(s, Observed(n)) = 0 + HitsOf(s2, Observed(n)) + 0 + HitsOf(s4, Observed(n)) + 0
    BY <1>16, <1>20
  <2> QED BY <1>6, <1>7, <2>1, <2>2
<1> QED BY <1>4, <1>15, <1>16, <1>19, <1>21

(* What every schedule keeps to follows when all but its end does.           *)
LEMMA ShapeFrom ==
  ASSUME NEW name, NEW n \in Nat, NEW s, NEW C, NEW K, Piece(s, Region(name, n, C, K)),
         \A c \in 1..n : SummarizedOnce(s, c)
  PROVE  Shape(s \o Finish, name, n)
<1>1. PICK U, f, w : U = Usual(name, n) /\ f = Item("finish", 0, "none", "none") /\ w = s \o <<f>>
  OBVIOUS
<1>2. s \o Finish = w /\ Finish[1] = f
  BY <1>1 DEF Finish
<1>3. s \in Seq(U) /\ Ordered(s)
  <2>1. Region(name, n, C, K) \subseteq U
    BY <1>1 DEF Region
  <2> QED BY <2>1 DEF Piece
<1>4. f = [kind |-> "finish", case |-> 0, role |-> "none", phase |-> "none"]
  BY <1>1 DEF Item
<1>5. f \in Items
  BY <1>4 DEF Items, Zone, ItemKinds, Phases, Texts
<1>6. U \subseteq Items
  BY <1>1 DEF Usual
<1>7. PICK m : m = Len(s)
  OBVIOUS
<1>8. m \in Nat /\ \A i \in 1..m : s[i] \in U
  BY <1>3, <1>7
<1>9. /\ w \in Seq(Items) /\ Len(w) = m + 1
      /\ \A i \in 1..(m + 1) : w[i] = IF i <= m THEN s[i] ELSE f
  <2>1. s \in Seq(Items) /\ <<f>> \in Seq(Items) /\ Len(<<f>>) = 1 /\ <<f>>[1] = f
    BY <1>3, <1>5, <1>6
  <2>2. /\ w \in Seq(Items) /\ Len(w) = m + 1
        /\ \A i \in 1..(m + 1) : w[i] = IF i <= m THEN s[i] ELSE <<f>>[i - m]
    BY <1>1, <1>7, <2>1, ConcatProperties
  <2>3. \A i \in 1..(m + 1) : ~(i <= m) => i - m = 1
    BY <1>8
  <2> QED BY <2>1, <2>2, <2>3
<1>10. DOMAIN w = 1..(m + 1)
  BY <1>8, <1>9
<1>11. \A i \in DOMAIN w : IF i <= m THEN w[i] \in U /\ w[i] = s[i] /\ i \in DOMAIN s ELSE i = m + 1 /\ w[i] = f
  BY <1>3, <1>7, <1>8, <1>9, <1>10
<1>12. \A x \in U : x.kind # "finish"
  BY <1>1 DEF Usual
<1>13. f.kind = "finish"
  BY <1>4
<1>14. \A i \in DOMAIN w : w[i].kind = "finish" <=> i = Len(w)
  BY <1>8, <1>9, <1>10, <1>11, <1>12, <1>13
<1>15. w[Len(w)] = Finish[1] /\ Len(w) > 0
  BY <1>2, <1>8, <1>9
<1>16. \A i \in DOMAIN w : w[i].kind # "finish" => w[i] \in U
  BY <1>11, <1>13
<1>17. /\ \A i \in DOMAIN w : w[i].kind \in Recorded => Key(w[i]) \in KeysOf(n)
       /\ \A i \in DOMAIN w : w[i].kind \in Recorded /\ w[i].case # 0 => w[i].kind \in {"build", "run"}
       /\ \A i \in DOMAIN w : w[i].kind = "manifest" => name = "representative"
       /\ \A i \in DOMAIN w : w[i].kind = "summarize" => w[i].case \in 1..n
       /\ name = "daily" => \A i \in DOMAIN w : w[i].kind = "probe" => Key(w[i]) \in (1..n) \X ToSet(Roles)
  <2>1. "finish" \notin Recorded
    BY DEF Recorded, Runs
  <2>2. ASSUME NEW i \in DOMAIN w, w[i].kind # "finish"
        PROVE  /\ w[i].kind \in Recorded => Key(w[i]) \in KeysOf(n)
               /\ w[i].kind \in Recorded /\ w[i].case # 0 => w[i].kind \in {"build", "run"}
               /\ w[i].kind = "manifest" => name = "representative"
               /\ w[i].kind = "summarize" => w[i].case \in 1..n
               /\ name = "daily" /\ w[i].kind = "probe" => Key(w[i]) \in (1..n) \X ToSet(Roles)
    <3>1. PICK x : x = w[i]
      OBVIOUS
    <3>2. x \in Usual(name, n)
      BY <1>1, <1>16, <2>2, <3>1
    <3> QED BY <3>1, <3>2 DEF Usual, Applications
  <2> QED BY <2>1, <2>2
<1>18. Ordered(w)
  <2> SUFFICES ASSUME NEW i \in DOMAIN w, NEW j \in DOMAIN w, i < j PROVE ~Conflict(w[i], w[j])
    BY DEF Ordered
  <2>1. i <= m
    BY <1>8, <1>10
  <2>2. CASE j <= m
    BY <1>3, <1>11, <2>1, <2>2 DEF Ordered
  <2>3. CASE ~(j <= m)
    <3>1. w[j].kind = "finish"
      BY <1>11, <1>13, <2>3
    <3> QED BY <3>1 DEF Conflict
  <2> QED BY <2>2, <2>3
<1>23. \A c \in 1..n : \E i \in DOMAIN w : w[i] = Summary(c)[1]
  <2> SUFFICES ASSUME NEW c \in 1..n PROVE \E i \in DOMAIN w : w[i] = Summary(c)[1]
    OBVIOUS
  <2>1. PICK y : y = Item("summarize", c, "none", "none")
    OBVIOUS
  <2>2. Summary(c)[1] = y
    BY <2>1 DEF Summary
  <2>3. HitsOf(s, Class("summarize", c, "none", {"none"})) # 0
    BY DEF SummarizedOnce
  <2>4. PICK i \in 1..m : s[i] \in Class("summarize", c, "none", {"none"})
    BY <1>7, <1>8, <2>3, HitsSome DEF HitsOf
  <2>5. s[i] = [kind |-> "summarize", case |-> c, role |-> "none", phase |-> "none"]
    BY <2>4 DEF Class
  <2>6. s[i] = y
    BY <2>1, <2>5 DEF Item
  <2>7. i \in DOMAIN w /\ w[i] = s[i]
    BY <1>8, <1>9, <1>10
  <2> QED BY <2>2, <2>6, <2>7
<1>24. Shape(w, name, n)
  BY <1>9, <1>14, <1>15, <1>17, <1>18, <1>23 DEF Shape
<1> QED BY <1>2, <1>24

(* The finish item is in no class of other kinds.                         *)
LEMMA FinishHits ==
  ASSUME NEW A, NEW s, Piece(s, A), NEW X, \A x \in X : x.kind # "finish"
  PROVE  HitsOf(s \o Finish, X) = HitsOf(s, X)
<1>1. PICK f, g : f = Item("finish", 0, "none", "none") /\ g = <<f>>
  OBVIOUS
<1>2. f.kind = "finish" /\ Finish = g
  BY <1>1 DEF Item, Finish
<1>3. Piece(g, {f}) /\ HitsOf(g, X) = IF f \in X THEN 1 ELSE 0
  <2>1. Piece(<<f>>, {f}) /\ \A Y : HitsOf(<<f>>, Y) = IF f \in Y THEN 1 ELSE 0
    <3>1. f \in {f}
      OBVIOUS
    <3> QED BY <3>1, PieceSingle
  <2> QED BY <1>1, <2>1
<1>4. HitsOf(s, X) \in Nat
  BY PieceHits
<1>5. HitsOf(s \o g, X) = HitsOf(s, X) + HitsOf(g, X)
  BY <1>3, PieceSum
<1> QED BY <1>2, <1>3, <1>4, <1>5

(* No class of another kind has the finish item.                          *)
LEMMA ClassFinish ==
  ASSUME NEW kind, kind # "finish", NEW c, NEW r, NEW P
  PROVE  \A x \in Class(kind, c, r, P) : x.kind # "finish"
BY DEF Class

(* Nor has the set of recorded items.                                     *)
LEMMA ObservedFinish ==
  ASSUME NEW n
  PROVE  \A x \in Observed(n) : x.kind # "finish"
BY DEF Observed, Zone, Recorded, Runs

(* The class starts after the first w of them.                            *)
LEMMA HitsFrom ==
  ASSUME NEW s, NEW n \in Nat, NEW X, NEW w \in Nat, w <= n, \A i \in 1..n : s[i] \in X <=> i > w
  PROVE  Hits(s, n, X) = n - w
<1>1. {i \in 1..n : s[i] \in X} = (w + 1)..n
  <2>1. \A i : i \in (w + 1)..n <=> i \in 1..n /\ i > w
    OBVIOUS
  <2> QED BY <2>1
<1>2. Cardinality((w + 1)..n) = n - w
  <2>1. w + 1 \in Int /\ n \in Int
    OBVIOUS
  <2>2. Cardinality((w + 1)..n) = IF w + 1 > n THEN 0 ELSE n - (w + 1) + 1
    BY <2>1, FS_Interval
  <2> QED BY <2>2
<1> QED BY <1>1, <1>2 DEF Hits

(* One program several times over, the first of them warmups.                *)
Repeated(kind, c, r, k, w) == [i \in 1..k |-> Item(kind, c, r, Phase(i, w))]

(* An item taken k times, of which the first w are warmups.               *)
LEMMA RepeatedPiece ==
  ASSUME NEW Z, NEW k \in Nat, NEW w \in Nat, w <= k, NEW kind, NEW c, NEW r, Peace(Z, Z),
         \A ph \in Phases : Item(kind, c, r, ph) \in Z
  PROVE  /\ Piece(Repeated(kind, c, r, k, w), Z) /\ Len(Repeated(kind, c, r, k, w)) = k
         /\ HitsOf(Repeated(kind, c, r, k, w), Class(kind, c, r, Phases)) = k
         /\ HitsOf(Repeated(kind, c, r, k, w), Class(kind, c, r, Kept)) = k - w
<1>1. PICK s : s = Repeated(kind, c, r, k, w)
  OBVIOUS
<1>2. s = [i \in 1..k |-> Item(kind, c, r, Phase(i, w))]
  BY <1>1 DEF Repeated
<1>3. ASSUME NEW i \in 1..k
      PROVE  /\ s[i] \in Z
             /\ \A q, P : s[i] \in Class(kind, c, q, P) <=> r = q /\ Phase(i, w) \in P
             /\ Phase(i, w) \in Phases /\ (Phase(i, w) \in Kept <=> i > w)
  <2>1. PICK ph : ph = Phase(i, w)
    OBVIOUS
  <2>2. ph \in Phases /\ (ph \in Kept <=> i > w)
    BY <2>1, PhaseIs
  <2>3. s[i] = Item(kind, c, r, ph)
    BY <1>2, <2>1
  <2>4. s[i] = [kind |-> kind, case |-> c, role |-> r, phase |-> ph]
    BY <2>3 DEF Item
  <2>5. \A q, P : s[i] \in Class(kind, c, q, P) <=> r = q /\ ph \in P
    BY <2>4 DEF Class
  <2> QED BY <2>1, <2>2, <2>3, <2>5
<1>4. s \in Seq(Z) /\ Len(s) = k /\ DOMAIN s = 1..k
  <2>1. s = [i \in 1..k |-> s[i]]
    BY <1>2
  <2>2. \A i \in 1..k : s[i] \in Z
    BY <1>3
  <2> QED BY <2>1, <2>2
<1>5. Ordered(s)
  BY <1>3, <1>4 DEF Ordered, Peace
<1>6. Hits(s, k, Class(kind, c, r, Phases)) = k
  <2>1. \A i \in 1..k : s[i] \in Class(kind, c, r, Phases)
    BY <1>3
  <2> QED BY <2>1, HitsAll
<1>7. Hits(s, k, Class(kind, c, r, Kept)) = k - w
  <2>1. \A i \in 1..k : s[i] \in Class(kind, c, r, Kept) <=> i > w
    BY <1>3
  <2> QED BY <2>1, HitsFrom
<1> QED BY <1>1, <1>4, <1>5, <1>6, <1>7 DEF Piece, HitsOf

(* It is of no other role.                                                *)
LEMMA RepeatedApart ==
  ASSUME NEW k \in Nat, NEW w, NEW kind, NEW c, NEW r, NEW q, NEW P, q # r
  PROVE  HitsOf(Repeated(kind, c, r, k, w), Class(kind, c, q, P)) = 0
<1>1. PICK s, X : s = Repeated(kind, c, r, k, w) /\ X = Class(kind, c, q, P)
  OBVIOUS
<1>2. s = [i \in 1..k |-> Item(kind, c, r, Phase(i, w))]
  BY <1>1 DEF Repeated
<1>3. Len(s) = k
  BY <1>2
<1>4. ASSUME NEW i \in 1..k PROVE s[i] \notin X
  <2>1. s[i] = [kind |-> kind, case |-> c, role |-> r, phase |-> Phase(i, w)]
    BY <1>2 DEF Item
  <2>2. s[i].role = r
    BY <2>1
  <2> QED BY <1>1, <2>2 DEF Class
<1>5. Hits(s, k, X) = 0
  BY <1>4, HitsNone
<1> QED BY <1>1, <1>3, <1>5 DEF HitsOf

(* The kinds of the compiler compiling itself.                            *)
SelfKinds == {"compiler-ir"} \cup {"compiler-self"}

(* The two items of the compiler compiling itself.                        *)
LEMMA SelfItems ==
  ASSUME NEW n \in Nat, NEW ph \in Phases
  PROVE  /\ Item("compiler-ir", 0, "self", ph) \in Region("daily", n, {0}, {"compiler-ir"})
         /\ Item("compiler-self", 0, "self", ph) \in Region("daily", n, {0}, {"compiler-self"})
<1> SUFFICES ASSUME NEW kind \in {"compiler-ir", "compiler-self"}
             PROVE Item(kind, 0, "self", ph) \in Region("daily", n, {0}, {kind})
  OBVIOUS
<1>1. PICK x : x = Item(kind, 0, "self", ph)
  OBVIOUS
<1>2. x = [kind |-> kind, case |-> 0, role |-> "self", phase |-> ph]
  BY <1>1 DEF Item
<1>3. x \in Items
  <2>1. kind \in ItemKinds /\ "self" \in Texts /\ 0 \in Nat
    BY DEF ItemKinds, Runs, Texts
  <2> QED BY <1>2, <2>1 DEF Items, Zone
<1>4. Key(x) \in KeysOf(n)
  BY <1>2 DEF Key, KeysOf
<1>5. kind # "finish" /\ kind # "manifest" /\ kind # "summarize" /\ kind # "probe"
  OBVIOUS
<1> QED BY <1>1, <1>2, <1>3, <1>4, <1>5 DEF Region, Usual

(* They are recorded.                                                     *)
LEMMA SelfObserved ==
  ASSUME NEW n \in Nat
  PROVE  Region("daily", n, {0}, SelfKinds) \subseteq Observed(n)
<1> SUFFICES ASSUME NEW x \in Region("daily", n, {0}, SelfKinds) PROVE x \in Observed(n)
  OBVIOUS
<1>1. x \in Items /\ x.kind \in SelfKinds /\ (x.kind \in Recorded => Key(x) \in KeysOf(n))
  BY DEF Region, Usual
<1>2. x.kind \in Recorded
  BY <1>1 DEF SelfKinds, Recorded, Runs
<1>3. x \in Zone(Recorded, Nat, Texts)
  BY <1>1, <1>2 DEF Items, Zone
<1> QED BY <1>1, <1>2, <1>3 DEF Observed

(* The compiler compiles itself: once to its representation and in rounds *)
(* to a binary.                                                           *)
LEMMA SelfPiece ==
  ASSUME NEW n \in Nat
  PROVE  /\ Piece(measure_self_compilation, Region("daily", n, {0}, SelfKinds))
         /\ SelfCounted(measure_self_compilation)
         /\ HitsOf(measure_self_compilation, Observed(n)) = 1 + SelfBuilds
<1>1. PICK x, s, Z, Y : /\ x = Item("compiler-ir", 0, "self", "retained") /\ s = Repeated("compiler-self", 0, "self", SelfBuilds, 1)
                        /\ Z = Region("daily", n, {0}, {"compiler-self"}) /\ Y = Region("daily", n, {0}, {"compiler-ir"})
  OBVIOUS
<1>2. PICK u : u = <<x>> \o s
  OBVIOUS
<1>3. measure_self_compilation = u
  BY <1>1, <1>2 DEF measure_self_compilation, Repeated
<1>4. PICK K, L : K = {"compiler-ir"} /\ L = {"compiler-self"} /\ K \cup L = SelfKinds
  BY DEF SelfKinds
<1>5. Before(K, L) /\ Before(L, L)
  BY <1>4 DEF Before
<1>6. /\ Piece(s, Z) /\ Len(s) = SelfBuilds
      /\ HitsOf(s, Class("compiler-self", 0, "self", Phases)) = SelfBuilds
      /\ HitsOf(s, Class("compiler-self", 0, "self", Kept)) = SelfBuilds - 1
  <2>1. Peace(Z, Z)
    BY <1>1, <1>4, <1>5, RegionPeace
  <2>2. \A ph \in Phases : Item("compiler-self", 0, "self", ph) \in Z
    BY <1>1, SelfItems
  <2>3. PICK kind, r, c : kind = "compiler-self" /\ r = "self" /\ c = 0
    OBVIOUS
  <2>4. 1 \in Nat /\ SelfBuilds \in Nat /\ 1 <= SelfBuilds /\ s = Repeated(kind, c, r, SelfBuilds, 1)
    BY <1>1, <2>3, Settings
  <2>5. \A ph \in Phases : Item(kind, c, r, ph) \in Z
    BY <2>2, <2>3
  <2>6. /\ Piece(s, Z) /\ Len(s) = SelfBuilds
        /\ HitsOf(s, Class(kind, c, r, Phases)) = SelfBuilds
        /\ HitsOf(s, Class(kind, c, r, Kept)) = SelfBuilds - 1
    BY <2>1, <2>4, <2>5, RepeatedPiece
  <2> QED BY <2>3, <2>6
<1>7. x \in Y /\ x = [kind |-> "compiler-ir", case |-> 0, role |-> "self", phase |-> "retained"]
  <2>1. "retained" \in Phases
    BY DEF Phases
  <2>2. x \in Y
    BY <1>1, <2>1, SelfItems
  <2> QED BY <1>1, <2>2 DEF Item
<1>8. Piece(<<x>>, Y) /\ \A X : HitsOf(<<x>>, X) = IF x \in X THEN 1 ELSE 0
  BY <1>7, PieceSingle
<1>9. PICK g : g = <<x>>
  OBVIOUS
<1>10. Piece(g, Region("daily", n, {0}, K)) /\ Piece(s, Region("daily", n, {0}, L)) /\ u = g \o s
  BY <1>1, <1>2, <1>4, <1>6, <1>8, <1>9
<1>11. Piece(u, Region("daily", n, {0}, SelfKinds))
  <2>1. Piece(g \o s, Region("daily", n, {0}, K \cup L))
    BY <1>5, <1>10, LocalConcat
  <2> QED BY <1>4, <1>10, <2>1
<1>12. \A X : HitsOf(u, X) = HitsOf(g, X) + HitsOf(s, X)
  BY <1>10, PieceSum
<1>13. \A X : HitsOf(g, X) = IF x \in X THEN 1 ELSE 0
  BY <1>8, <1>9
<1>14. ASSUME NEW P \in {Kept, Phases}
       PROVE  /\ HitsOf(u, Class("compiler-ir", 0, "self", P)) = 1
              /\ HitsOf(u, Class("compiler-self", 0, "self", P)) = IF P = Kept THEN SelfBuilds - 1 ELSE SelfBuilds
  <2>1. "retained" \in P /\ (P # Kept => P = Phases)
    BY DEF Kept, Phases
  <2>2. x \in Class("compiler-ir", 0, "self", P) /\ x \notin Class("compiler-self", 0, "self", P)
    BY <1>7, <2>1 DEF Class
  <2>3. HitsOf(g, Class("compiler-ir", 0, "self", P)) = 1 /\ HitsOf(g, Class("compiler-self", 0, "self", P)) = 0
    BY <1>13, <2>2
  <2>4. HitsOf(s, Class("compiler-ir", 0, "self", P)) = 0
    <3>1. "compiler-ir" \notin L
      BY <1>4
    <3> QED BY <1>10, <3>1, RegionApart
  <2>5. HitsOf(s, Class("compiler-self", 0, "self", P)) = IF P = Kept THEN SelfBuilds - 1 ELSE SelfBuilds
    BY <1>6, <2>1
  <2>6. HitsOf(u, Class("compiler-ir", 0, "self", P)) = 1 + 0
    BY <1>12, <2>3, <2>4
  <2>7. HitsOf(u, Class("compiler-self", 0, "self", P)) = 0 + HitsOf(s, Class("compiler-self", 0, "self", P))
    BY <1>12, <2>3
  <2>8. SelfBuilds - 1 \in Nat /\ SelfBuilds \in Nat
    BY Settings
  <2> QED BY <2>5, <2>6, <2>7, <2>8
<1>15. HitsOf(u, Observed(n)) = 1 + SelfBuilds
  <2>1. Region("daily", n, {0}, SelfKinds) \subseteq Observed(n)
    BY SelfObserved
  <2>2. HitsOf(u, Observed(n)) = Len(u)
    BY <1>11, <2>1, PieceWithin
  <2>3. Len(g) = 1 /\ g \in Seq(Items) /\ s \in Seq(Items)
    <3>1. Y \subseteq Items /\ Z \subseteq Items
      BY <1>1 DEF Region, Usual
    <3> QED BY <1>6, <1>7, <1>9, <3>1 DEF Piece
  <2>4. Len(u) = Len(g) + Len(s)
    BY <1>10, <2>3, ConcatProperties
  <2> QED BY <1>6, <2>2, <2>3, <2>4
<1> QED BY <1>3, <1>11, <1>14, <1>15 DEF SelfCounted, HitsOf

(* Without options every case has the ordinary roles.                     *)
LEMMA RolesWithout ==
  ASSUME NEW c
  PROVE  RolesOf({}, c) = Roles
BY DEF RolesOf, HasControls

(* The daily schedule keeps to its shape and has every observation.       *)
LEMMA DailySchedule ==
  ASSUME NEW n \in Nat
  PROVE  /\ Shape(daily(n), "daily", n) /\ Counted(daily(n), "daily", n, {})
         /\ SelfCounted(daily(n)) /\ AllCounted(daily(n), n)
<1> DEFINE F == [c \in 1..n |-> daily_case(c)]
<1>1. \A c \in 1..n : F[c] = daily_case(c)
  OBVIOUS
<1>2. DOMAIN F = 1..n /\ F = [c \in 1..n |-> F[c]] /\ PerCase(n, daily_case) = FlattenSeq(F)
  BY DEF PerCase
<1> HIDE DEF F
<1>3. PICK u1, u2, u3, m : u1 = daily_roles /\ u2 = FlattenSeq(F) /\ u3 = measure_self_compilation /\ m = Len(Roles)
  OBVIOUS
<1>4. PICK b, s : b = (u1 \o u2) \o u3 /\ s = b \o Finish
  OBVIOUS
<1>5. daily(n) = s
  BY <1>2, <1>3, <1>4 DEF daily
<1>6. PICK C0, C, K1, K2, K3 : C0 = {0} /\ C = 1..n /\ K1 = {"check"} /\ K2 = DailyKinds /\ K3 = SelfKinds
  OBVIOUS
<1>7. Piece(u1, Region("daily", n, C0, K1))
  <2>1. "roles" \in Texts /\ 0 \in Nat
    BY DEF Texts
  <2> QED BY <1>3, <1>6, <2>1, CheckedPiece DEF daily_roles
<1>8. /\ F \in [1..n -> Seq(Region("daily", n, C, K2))] /\ Piece(u2, Region("daily", n, C, K2))
      /\ \A c \in 1..n : \A kind, r, P : HitsOf(u2, Class(kind, c, r, P)) = HitsOf(daily_case(c), Class(kind, c, r, P))
  <2>1. ASSUME NEW c \in 1..n PROVE Piece(daily_case(c), Region("daily", n, {c}, DailyKinds))
    BY DailyCase
  <2>2. \A c \in 1..n : Piece(F[c], Region("daily", n, {c}, K2))
    BY <1>1, <1>6, <2>1
  <2>3. F \in [1..n -> Seq(Region("daily", n, C, K2))] /\ Piece(u2, Region("daily", n, C, K2))
    BY <1>2, <1>3, <1>6, <2>2, CasesPiece
  <2>4. \A c \in 1..n : \A kind, r, P : HitsOf(FlattenSeq(F), Class(kind, c, r, P)) = HitsOf(F[c], Class(kind, c, r, P))
    <3> SUFFICES ASSUME NEW c \in 1..n, NEW kind, NEW r, NEW P
                 PROVE HitsOf(FlattenSeq(F), Class(kind, c, r, P)) = HitsOf(F[c], Class(kind, c, r, P))
      OBVIOUS
    <3>1. PICK U : U = Region("daily", n, C, K2)
      OBVIOUS
    <3>2. F \in [1..n -> Seq(U)] /\ InCases(F, "daily", n, K2)
      BY <2>2, <2>3, <3>1 DEF InCases
    <3> QED BY <3>2, CasesHits
  <2> QED BY <1>1, <1>3, <2>3, <2>4
<1>9. Piece(u3, Region("daily", n, C0, K3)) /\ SelfCounted(u3) /\ HitsOf(u3, Observed(n)) = 1 + SelfBuilds
  BY <1>3, <1>6, SelfPiece
<1>10. C0 \cap C = {}
  BY <1>6
<1>11. Before(K1 \cup K2, K3)
  BY <1>6 DEF Before, SelfKinds
<1>12. /\ Piece(u1 \o u2, Region("daily", n, C0 \cup C, K1 \cup K2))
       /\ \A X : HitsOf(u1 \o u2, X) = HitsOf(u1, X) + HitsOf(u2, X)
  <2>1. Piece(u1 \o u2, Region("daily", n, C0 \cup C, K1 \cup K2))
    BY <1>7, <1>8, <1>10, RegionConcat
  <2> QED BY <1>7, <1>8, <2>1, PieceSum
<1>13. /\ Piece(b, Region("daily", n, (C0 \cup C) \cup C0, (K1 \cup K2) \cup K3))
       /\ \A X : HitsOf(b, X) = HitsOf(u1 \o u2, X) + HitsOf(u3, X)
  <2>1. PICK u : u = u1 \o u2
    OBVIOUS
  <2>2. Piece(u, Region("daily", n, C0 \cup C, K1 \cup K2)) /\ b = u \o u3
    BY <1>4, <1>12, <2>1
  <2>3. Piece(u \o u3, Region("daily", n, (C0 \cup C) \cup C0, (K1 \cup K2) \cup K3))
    BY <1>9, <1>11, <2>2, RegionConcat
  <2>4. \A X : HitsOf(u \o u3, X) = HitsOf(u, X) + HitsOf(u3, X)
    BY <1>9, <2>2, PieceSum
  <2> QED BY <2>1, <2>2, <2>3, <2>4
<1>14. ASSUME NEW c \in 1..n, NEW kind, NEW r, NEW P
       PROVE HitsOf(b, Class(kind, c, r, P)) = HitsOf(daily_case(c), Class(kind, c, r, P))
  <2>1. c \notin C0
    BY <1>6
  <2>2. HitsOf(u1, Class(kind, c, r, P)) = 0 /\ HitsOf(u3, Class(kind, c, r, P)) = 0
    BY <1>7, <1>9, <2>1, RegionApart
  <2>3. HitsOf(u2, Class(kind, c, r, P)) \in Nat
    BY <1>8, PieceHits
  <2>4. HitsOf(b, Class(kind, c, r, P)) = 0 + HitsOf(u2, Class(kind, c, r, P)) + 0
    BY <1>12, <1>13, <2>2
  <2> QED BY <1>8, <2>3, <2>4
<1>15. \A c \in 1..n : SummarizedOnce(b, c)
  <2>1. \A c \in 1..n : SummarizedOnce(daily_case(c), c)
    BY DailyCase
  <2> QED BY <1>14, <2>1 DEF SummarizedOnce
<1>16. /\ Shape(s, "daily", n)
       /\ \A kind, c, r, P : kind # "finish" => HitsOf(s, Class(kind, c, r, P)) = HitsOf(b, Class(kind, c, r, P))
       /\ HitsOf(s, Observed(n)) = HitsOf(b, Observed(n))
  <2>1. Shape(s, "daily", n)
    BY <1>4, <1>13, <1>15, ShapeFrom
  <2>2. \A kind, c, r, P : kind # "finish" => HitsOf(s, Class(kind, c, r, P)) = HitsOf(b, Class(kind, c, r, P))
    <3> SUFFICES ASSUME NEW kind, NEW c, NEW r, NEW P, kind # "finish"
                 PROVE HitsOf(s, Class(kind, c, r, P)) = HitsOf(b, Class(kind, c, r, P))
      OBVIOUS
    <3>1. PICK X : X = Class(kind, c, r, P)
      OBVIOUS
    <3>2. \A x \in X : x.kind # "finish"
      BY <3>1, ClassFinish
    <3> QED BY <1>4, <1>13, <3>1, <3>2, FinishHits
  <2>3. HitsOf(s, Observed(n)) = HitsOf(b, Observed(n))
    <3>1. PICK X : X = Observed(n)
      OBVIOUS
    <3>2. \A x \in X : x.kind # "finish"
      BY <3>1, ObservedFinish
    <3> QED BY <1>4, <1>13, <3>1, <3>2, FinishHits
  <2> QED BY <2>1, <2>2, <2>3
<1>17. ASSUME NEW c \in 1..n, NEW r \in ToSet(RolesOf({}, c))
       PROVE  /\ HitsOf(s, Class("run", c, r, Kept)) = Samples
              /\ HitsOf(s, Class("run", c, r, Phases)) = Warmups + Samples
              /\ HitsOf(s, Class("build", c, r, Kept)) = BuildRounds - 1
              /\ HitsOf(s, Class("build", c, r, Phases)) = BuildRounds
  <2>1. r \in ToSet(Roles)
    BY RolesWithout
  <2>2. BuiltInRounds(daily_case(c), c) /\ RunInRounds(daily_case(c), c)
    BY DailyCase
  <2> QED BY <1>14, <1>16, <2>1, <2>2 DEF BuiltInRounds, RunInRounds
<1>18. Counted(s, "daily", n, {})
  BY <1>17 DEF Counted, RowKeepers, HitsOf
<1>19. SelfCounted(s)
  <2> SUFFICES ASSUME NEW P \in {Kept, Phases}
               PROVE  /\ HitsOf(s, Class("compiler-ir", 0, "self", P)) = 1
                      /\ HitsOf(s, Class("compiler-self", 0, "self", P)) = IF P = Kept THEN SelfBuilds - 1 ELSE SelfBuilds
    BY DEF SelfCounted, HitsOf
  <2>1. /\ HitsOf(u3, Class("compiler-ir", 0, "self", P)) = 1
        /\ HitsOf(u3, Class("compiler-self", 0, "self", P)) = IF P = Kept THEN SelfBuilds - 1 ELSE SelfBuilds
    BY <1>9 DEF SelfCounted, HitsOf
  <2>2. 0 \notin C /\ "compiler-ir" \notin K1 /\ "compiler-self" \notin K1
    BY <1>6
  <2>3. /\ HitsOf(u1, Class("compiler-ir", 0, "self", P)) = 0 /\ HitsOf(u1, Class("compiler-self", 0, "self", P)) = 0
        /\ HitsOf(u2, Class("compiler-ir", 0, "self", P)) = 0 /\ HitsOf(u2, Class("compiler-self", 0, "self", P)) = 0
    BY <1>7, <1>8, <2>2, RegionApart
  <2>4. SelfBuilds - 1 \in Nat /\ SelfBuilds \in Nat
    BY Settings
  <2>5. /\ HitsOf(b, Class("compiler-ir", 0, "self", P)) = 0 + 0 + HitsOf(u3, Class("compiler-ir", 0, "self", P))
        /\ HitsOf(b, Class("compiler-self", 0, "self", P)) = 0 + 0 + HitsOf(u3, Class("compiler-self", 0, "self", P))
    BY <1>12, <1>13, <2>3
  <2>6. /\ HitsOf(s, Class("compiler-ir", 0, "self", P)) = HitsOf(b, Class("compiler-ir", 0, "self", P))
        /\ HitsOf(s, Class("compiler-self", 0, "self", P)) = HitsOf(b, Class("compiler-self", 0, "self", P))
    BY <1>16
  <2> QED BY <2>1, <2>4, <2>5, <2>6
<1>20. AllCounted(s, n)
  <2>1. PICK h : h = BuildRounds * m + (Warmups + Samples) * m
    OBVIOUS
  <2>2. m \in Nat /\ h \in Nat
    BY <1>3, <2>1, RolesAre, Settings
  <2>3. \A c \in 1..n : HitsOf(F[c], Observed(n)) = h
    BY <1>1, <1>3, <2>1, DailyCase
  <2>4. HitsOf(u2, Observed(n)) = n * h
    <3>1. PICK X, U : X = Observed(n) /\ U = Region("daily", n, C, K2)
      OBVIOUS
    <3>2. F \in [1..n -> Seq(U)] /\ InEvery(F, n, X, h)
      BY <1>8, <2>3, <3>1 DEF InEvery
    <3>3. HitsOf(FlattenSeq(F), X) = n * h
      BY <2>2, <3>2, FlattenEach
    <3> QED BY <1>3, <3>1, <3>3
  <2>5. HitsOf(u1, Observed(n)) = 0
    <3>1. K1 \cap Recorded = {}
      BY <1>6 DEF Recorded, Runs
    <3> QED BY <1>7, <3>1, RegionUnrecorded
  <2>6. HitsOf(b, Observed(n)) = 0 + n * h + (1 + SelfBuilds)
    BY <1>9, <1>12, <1>13, <2>4, <2>5
  <2>7. h = m * (BuildRounds + Warmups + Samples)
    BY <2>1, <2>2, Settings
  <2>8. n * h = n * m * (BuildRounds + Warmups + Samples) /\ n * h \in Nat
    <3>1. PICK q \in Nat : q = BuildRounds + Warmups + Samples
      BY Settings
    <3>2. n * (m * q) = (n * m) * q /\ n * h \in Nat
      BY <2>2
    <3> QED BY <2>7, <3>1, <3>2
  <2>9. HitsOf(s, Observed(n)) = n * m * (BuildRounds + Warmups + Samples) + 1 + SelfBuilds
    BY <1>16, <2>6, <2>8, Settings
  <2> QED BY <1>3, <2>9 DEF AllCounted, HitsOf
<1> QED BY <1>5, <1>16, <1>18, <1>19, <1>20

(* A weekly workload builds a program of one role after those of another.    *)
WeeklyBuilds(c) ==
    FlattenSeq([r \in DOMAIN Roles |-> [i \in 1..BuildRounds |-> Item("build", c, Roles[r], Phase(i, 1))]])

(* The builds of a case are in its region.                                *)
LEMMA BuildItems ==
  ASSUME NEW name, NEW n \in Nat, NEW c \in 1..n, NEW r \in ToSet(Roles \o ControlRoles), NEW ph \in Phases
  PROVE  Item("build", c, r, ph) \in Region(name, n, {c}, {"build"})
<1>1. PICK kind, R : kind = "build" /\ R = ToSet(Roles \o ControlRoles)
  OBVIOUS
<1>2. kind \in Applications /\ R \subseteq ToSet(Roles \o ControlRoles)
  BY <1>1 DEF Applications
<1>3. Item(kind, c, r, ph) \in Zone({kind}, {c}, R)
  BY <1>1 DEF Item, Zone
<1>4. Zone({kind}, {c}, R) \subseteq Region(name, n, {c}, {kind})
  BY <1>2, ZoneRegion
<1> QED BY <1>1, <1>3, <1>4

(* The rounds of builds of a weekly workload.                             *)
LEMMA WeeklyBuildsPiece ==
  ASSUME NEW n \in Nat, NEW c \in 1..n
  PROVE  Piece(WeeklyBuilds(c), Region("weekly", n, {c}, {"build"})) /\ BuiltInRounds(WeeklyBuilds(c), c)
<1>1. PICK m, Z, kind, K : m = Len(Roles) /\ kind = "build" /\ K = {"build"} /\ Z = Region("weekly", n, {c}, K)
  OBVIOUS
<1>2. /\ m \in Nat /\ DOMAIN Roles = 1..m
      /\ \A i \in 1..m : Roles[i] \in ToSet(Roles)
      /\ \A r \in ToSet(Roles) : \E i \in 1..m : Roles[i] = r
      /\ \A i, j \in 1..m : Roles[i] = Roles[j] => i = j
  BY <1>1, RolesAre
<1>3. Peace(Z, Z)
  <2>1. Before(K, K)
    BY <1>1 DEF Before
  <2> QED BY <1>1, <2>1, RegionPeace
<1> DEFINE F == [i \in 1..m |-> Repeated(kind, c, Roles[i], BuildRounds, 1)]
<1>4. DOMAIN F = 1..m /\ F = [i \in 1..m |-> F[i]] /\ \A i \in 1..m : F[i] = Repeated(kind, c, Roles[i], BuildRounds, 1)
  OBVIOUS
<1>5. WeeklyBuilds(c) = FlattenSeq(F)
  BY <1>1, <1>2 DEF WeeklyBuilds, Repeated
<1> HIDE DEF F
<1>6. ASSUME NEW i \in 1..m
      PROVE  /\ Piece(F[i], Z)
             /\ HitsOf(F[i], Class(kind, c, Roles[i], Phases)) = BuildRounds
             /\ HitsOf(F[i], Class(kind, c, Roles[i], Kept)) = BuildRounds - 1
  <2>1. PICK r : r = Roles[i] /\ r \in ToSet(Roles)
    BY <1>2
  <2>2. r \in ToSet(Roles \o ControlRoles)
    BY <2>1, RolesControls
  <2>3. \A ph \in Phases : Item(kind, c, r, ph) \in Z
    BY <1>1, <2>2, BuildItems
  <2>4. 1 \in Nat /\ BuildRounds \in Nat /\ 1 <= BuildRounds
    BY Settings
  <2>5. PICK s : s = Repeated(kind, c, r, BuildRounds, 1)
    OBVIOUS
  <2>6. /\ Piece(s, Z)
        /\ HitsOf(s, Class(kind, c, r, Phases)) = BuildRounds
        /\ HitsOf(s, Class(kind, c, r, Kept)) = BuildRounds - 1
    BY <1>3, <2>3, <2>4, <2>5, RepeatedPiece
  <2> QED BY <1>4, <2>1, <2>5, <2>6
<1>7. F \in [1..m -> Seq(Z)] /\ Piece(FlattenSeq(F), Z)
  <2> DEFINE V == [i \in 1..m |-> Z]
  <2>1. \A i \in 1..m : V[i] = Z
    OBVIOUS
  <2> HIDE DEF V
  <2>2. \A i \in 1..m : Piece(F[i], V[i]) /\ V[i] \subseteq Z
    BY <1>6, <2>1
  <2>3. \A i, j \in 1..m : i < j => Peace(V[i], V[j])
    BY <1>3, <2>1
  <2> QED BY <1>2, <1>4, <2>2, <2>3, FlattenPiece
<1>8. ASSUME NEW i \in 1..m, NEW P PROVE HitsOf(FlattenSeq(F), Class(kind, c, Roles[i], P)) = HitsOf(F[i], Class(kind, c, Roles[i], P))
  <2>1. PICK X : X = Class(kind, c, Roles[i], P)
    OBVIOUS
  <2>2. OnlyIn(F, m, i, X)
    <3> SUFFICES ASSUME NEW j \in 1..m, j # i PROVE HitsOf(F[j], X) = 0
      BY DEF OnlyIn
    <3>1. PICK q, r : q = Roles[i] /\ r = Roles[j] /\ q # r
      BY <1>2
    <3>2. BuildRounds \in Nat
      BY Settings
    <3>3. HitsOf(Repeated(kind, c, r, BuildRounds, 1), Class(kind, c, q, P)) = 0
      BY <3>1, <3>2, RepeatedApart
    <3> QED BY <1>4, <2>1, <3>1, <3>3
  <2>3. F \in [1..m -> Seq(Z)] /\ m \in Nat
    BY <1>2, <1>7
  <2>4. HitsOf(FlattenSeq(F), X) = HitsOf(F[i], X)
    BY <2>2, <2>3, FlattenOne
  <2> QED BY <2>1, <2>4
<1>9. BuiltInRounds(FlattenSeq(F), c)
  <2>1. ASSUME NEW r \in ToSet(Roles)
        PROVE  /\ HitsOf(FlattenSeq(F), Class("build", c, r, Phases)) = BuildRounds
               /\ HitsOf(FlattenSeq(F), Class("build", c, r, Kept)) = BuildRounds - 1
    <3>1. PICK i \in 1..m : Roles[i] = r
      BY <1>2
    <3>2. HitsOf(F[i], Class(kind, c, r, Phases)) = BuildRounds /\ HitsOf(F[i], Class(kind, c, r, Kept)) = BuildRounds - 1
      BY <1>6, <3>1
    <3> QED BY <1>1, <1>8, <3>1, <3>2
  <2> QED BY <2>1 DEF BuiltInRounds
<1> QED BY <1>1, <1>5, <1>7, <1>9

(* The kinds of a weekly case.                                            *)
WeeklyKinds == (({"check"} \cup {"build"}) \cup {"run"}) \cup {"summarize"}

(* One workload of the weekly measurement.                                *)
LEMMA WeeklyCase ==
  ASSUME NEW n \in Nat, NEW c \in 1..n
  PROVE  /\ Piece(weekly_case(c), Region("weekly", n, {c}, WeeklyKinds))
         /\ BuiltInRounds(weekly_case(c), c) /\ RunInRounds(weekly_case(c), c) /\ SummarizedOnce(weekly_case(c), c)
<1>1. PICK s1, s2, s4, s5 :
        /\ s1 = source_case(c) /\ s2 = WeeklyBuilds(c)
        /\ s4 = RotatedRounds("run", c, Warmups + Samples, Warmups) /\ s5 = Summary(c)
  OBVIOUS
<1>2. weekly_case(c) = ((s1 \o s2) \o s4) \o s5
  BY <1>1 DEF weekly_case, WeeklyBuilds
<1>3. PICK K1, K2, K4, K5 : K1 = {"check"} /\ K2 = {"build"} /\ K4 = {"run"} /\ K5 = {"summarize"}
  OBVIOUS
<1>4. PICK C : C = {c}
  OBVIOUS
<1>5. Piece(s1, Region("weekly", n, C, K1))
  <2>1. "source" \in Texts /\ c \in Nat
    BY DEF Texts
  <2> QED BY <1>1, <1>3, <1>4, <2>1, CheckedPiece DEF source_case
<1>6. Piece(s2, Region("weekly", n, C, K2)) /\ BuiltInRounds(s2, c)
  BY <1>1, <1>3, <1>4, WeeklyBuildsPiece
<1>7. Piece(s4, Region("weekly", n, C, K4)) /\ RunInRounds(s4, c)
  <2>1. PICK kind, rounds : kind = "run" /\ rounds = Warmups + Samples
    OBVIOUS
  <2>2. "run" \in Applications
    BY DEF Applications
  <2>3. Warmups \in Nat /\ Warmups <= rounds /\ rounds \in Nat /\ kind \in Applications /\ rounds - Warmups = Samples
    BY <2>1, <2>2, Settings
  <2>4. RoundsOf(s4, "weekly", n, kind, c, rounds, Warmups)
    BY <1>1, <2>1, <2>3, RoundsRegion
  <2> QED BY <1>3, <1>4, <2>1, <2>3, <2>4 DEF RoundsOf, RunInRounds
<1>8. Piece(s5, Region("weekly", n, C, K5)) /\ SummarizedOnce(s5, c)
  BY <1>1, <1>3, <1>4, SummaryPiece DEF SummarizedOnce
<1>9. Before(K1, K2) /\ Before(K1 \cup K2, K4) /\ Before((K1 \cup K2) \cup K4, K5)
  BY <1>3 DEF Before
<1>10. /\ Piece(s1 \o s2, Region("weekly", n, C, K1 \cup K2))
       /\ \A X : HitsOf(s1 \o s2, X) = HitsOf(s1, X) + HitsOf(s2, X)
  <2>1. Piece(s1 \o s2, Region("weekly", n, C, K1 \cup K2))
    BY <1>5, <1>6, <1>9, LocalConcat
  <2>2. \A X : HitsOf(s1 \o s2, X) = HitsOf(s1, X) + HitsOf(s2, X)
    BY <1>5, <1>6, PieceSum
  <2> QED BY <2>1, <2>2
<1>11. /\ Piece((s1 \o s2) \o s4, Region("weekly", n, C, (K1 \cup K2) \cup K4))
       /\ \A X : HitsOf((s1 \o s2) \o s4, X) = HitsOf(s1 \o s2, X) + HitsOf(s4, X)
  <2>1. Piece((s1 \o s2) \o s4, Region("weekly", n, C, (K1 \cup K2) \cup K4))
    BY <1>7, <1>9, <1>10, LocalConcat
  <2>2. \A X : HitsOf((s1 \o s2) \o s4, X) = HitsOf(s1 \o s2, X) + HitsOf(s4, X)
    BY <1>7, <1>10, PieceSum
  <2> QED BY <2>1, <2>2
<1>12. /\ Piece(((s1 \o s2) \o s4) \o s5, Region("weekly", n, C, ((K1 \cup K2) \cup K4) \cup K5))
       /\ \A X : HitsOf(((s1 \o s2) \o s4) \o s5, X) = HitsOf((s1 \o s2) \o s4, X) + HitsOf(s5, X)
  <2>1. Piece(((s1 \o s2) \o s4) \o s5, Region("weekly", n, C, ((K1 \cup K2) \cup K4) \cup K5))
    BY <1>8, <1>9, <1>11, LocalConcat
  <2>2. \A X : HitsOf(((s1 \o s2) \o s4) \o s5, X) = HitsOf((s1 \o s2) \o s4, X) + HitsOf(s5, X)
    BY <1>8, <1>11, PieceSum
  <2> QED BY <2>1, <2>2
<1>13. PICK s : s = ((s1 \o s2) \o s4) \o s5 /\ s = weekly_case(c)
  BY <1>2
<1>14. /\ Piece(s, Region("weekly", n, C, WeeklyKinds))
       /\ \A X : HitsOf(s, X) = HitsOf(s1, X) + HitsOf(s2, X) + HitsOf(s4, X) + HitsOf(s5, X)
  BY <1>3, <1>10, <1>11, <1>12, <1>13 DEF WeeklyKinds
<1>15. ASSUME NEW kind, NEW r, NEW P
       PROVE  /\ kind \notin K1 => HitsOf(s1, Class(kind, c, r, P)) = 0
              /\ kind \notin K2 => HitsOf(s2, Class(kind, c, r, P)) = 0
              /\ kind \notin K4 => HitsOf(s4, Class(kind, c, r, P)) = 0
              /\ kind \notin K5 => HitsOf(s5, Class(kind, c, r, P)) = 0
  BY <1>5, <1>6, <1>7, <1>8, RegionApart
<1>16. \A r, P : /\ HitsOf(s, Class("build", c, r, P)) = 0 + HitsOf(s2, Class("build", c, r, P)) + 0 + 0
                 /\ HitsOf(s, Class("run", c, r, P)) = 0 + 0 + HitsOf(s4, Class("run", c, r, P)) + 0
                 /\ HitsOf(s, Class("summarize", c, r, P)) = 0 + 0 + 0 + HitsOf(s5, Class("summarize", c, r, P))
  BY <1>3, <1>14, <1>15
<1>17. BuiltInRounds(s, c) /\ RunInRounds(s, c) /\ SummarizedOnce(s, c)
  BY <1>6, <1>7, <1>8, <1>16, Settings DEF BuiltInRounds, RunInRounds, SummarizedOnce
<1> QED BY <1>4, <1>13, <1>14, <1>17

(* The finish item adds nothing to a class of another kind.               *)
LEMMA FinishClass ==
  ASSUME NEW A, NEW s, Piece(s, A), NEW kind, kind # "finish", NEW c, NEW r, NEW P
  PROVE  HitsOf(s \o Finish, Class(kind, c, r, P)) = HitsOf(s, Class(kind, c, r, P))
<1>1. PICK X : X = Class(kind, c, r, P)
  OBVIOUS
<1>2. \A x \in X : x.kind # "finish"
  BY <1>1, ClassFinish
<1> QED BY <1>1, <1>2, FinishHits

(* The builds and runs of the cases are those of each of them.               *)
CaseByCase(u, F, n) ==
    \A c \in 1..n : \A kind, r, P : HitsOf(u, Class(kind, c, r, P)) = HitsOf(F[c], Class(kind, c, r, P))

(* The cases of a program, one after the other.                           *)
LEMMA CasesTogether ==
  ASSUME NEW name, NEW n \in Nat, NEW K, NEW F, DOMAIN F = 1..n, F = [c \in 1..n |-> F[c]], InCases(F, name, n, K)
  PROVE  Piece(FlattenSeq(F), Region(name, n, 1..n, K)) /\ CaseByCase(FlattenSeq(F), F, n)
<1>1. F \in [1..n -> Seq(Region(name, n, 1..n, K))] /\ Piece(FlattenSeq(F), Region(name, n, 1..n, K))
  BY CasesPiece DEF InCases
<1>2. ASSUME NEW c \in 1..n, NEW kind, NEW r, NEW P
      PROVE HitsOf(FlattenSeq(F), Class(kind, c, r, P)) = HitsOf(F[c], Class(kind, c, r, P))
  <2>1. PICK U : U = Region(name, n, 1..n, K)
    OBVIOUS
  <2>2. F \in [1..n -> Seq(U)]
    BY <1>1, <2>1
  <2> QED BY <2>2, CasesHits
<1> QED BY <1>1, <1>2 DEF CaseByCase

(* The weekly schedule keeps to its shape and has every sample.           *)
LEMMA WeeklySchedule ==
  ASSUME NEW n \in Nat
  PROVE  Shape(weekly(n), "weekly", n) /\ Counted(weekly(n), "weekly", n, {})
<1> DEFINE F == [c \in 1..n |-> weekly_case(c)]
<1>1. \A c \in 1..n : F[c] = weekly_case(c)
  OBVIOUS
<1>2. DOMAIN F = 1..n /\ F = [c \in 1..n |-> F[c]] /\ PerCase(n, weekly_case) = FlattenSeq(F)
  BY DEF PerCase
<1> HIDE DEF F
<1>3. PICK u1, u2, u3 : u1 = extract_sources /\ u2 = context_cases /\ u3 = FlattenSeq(F)
  OBVIOUS
<1>4. PICK u, b, s : u = u1 \o u2 /\ b = u \o u3 /\ s = b \o Finish
  OBVIOUS
<1>5. weekly(n) = s
  BY <1>2, <1>3, <1>4 DEF weekly
<1>6. PICK C0, C, K1, K2 : C0 = {0} /\ C = 1..n /\ K1 = {"check"} /\ K2 = WeeklyKinds
  OBVIOUS
<1>7. Piece(u1, Region("weekly", n, C0, K1)) /\ Piece(u2, Region("weekly", n, C0, K1))
  <2>1. "archive" \in Texts /\ 0 \in Nat
    BY DEF Texts
  <2>2. "registered-cases" \in Texts
    BY DEF Texts
  <2>3. Piece(u1, Region("weekly", n, C0, K1))
    BY <1>3, <1>6, <2>1, CheckedPiece DEF extract_sources
  <2>4. Piece(u2, Region("weekly", n, C0, K1))
    BY <1>3, <1>6, <2>1, <2>2, CheckedPiece DEF context_cases
  <2> QED BY <2>3, <2>4
<1>8. Piece(u, Region("weekly", n, C0, K1 \cup K1))
  <2>1. Before(K1, K1)
    BY <1>6 DEF Before
  <2>2. Piece(u1 \o u2, Region("weekly", n, C0, K1 \cup K1))
    BY <1>7, <2>1, LocalConcat
  <2> QED BY <1>4, <2>2
<1>9. Piece(u3, Region("weekly", n, C, K2)) /\ CaseByCase(u3, F, n)
  <2>1. ASSUME NEW c \in 1..n PROVE Piece(F[c], Region("weekly", n, {c}, K2))
    BY <1>1, <1>6, WeeklyCase
  <2>2. InCases(F, "weekly", n, K2)
    BY <2>1 DEF InCases
  <2>3. Piece(FlattenSeq(F), Region("weekly", n, 1..n, K2)) /\ CaseByCase(FlattenSeq(F), F, n)
    BY <1>2, <2>2, CasesTogether
  <2> QED BY <1>3, <1>6, <2>3
<1>10. C0 \cap C = {}
  BY <1>6
<1>11. Piece(b, Region("weekly", n, C0 \cup C, (K1 \cup K1) \cup K2))
  <2>1. Piece(u \o u3, Region("weekly", n, C0 \cup C, (K1 \cup K1) \cup K2))
    BY <1>8, <1>9, <1>10, RegionConcat
  <2> QED BY <1>4, <2>1
<1>12. ASSUME NEW c \in 1..n, NEW kind, NEW r, NEW P
       PROVE HitsOf(b, Class(kind, c, r, P)) = HitsOf(weekly_case(c), Class(kind, c, r, P))
  <2>1. c \notin C0
    BY <1>6
  <2>2. HitsOf(u, Class(kind, c, r, P)) = 0
    BY <1>8, <2>1, RegionApart
  <2>3. HitsOf(u3, Class(kind, c, r, P)) \in Nat
    BY <1>9, PieceHits
  <2>4. HitsOf(u3, Class(kind, c, r, P)) = HitsOf(weekly_case(c), Class(kind, c, r, P))
    BY <1>1, <1>9 DEF CaseByCase
  <2>5. HitsOf(u \o u3, Class(kind, c, r, P)) = HitsOf(u, Class(kind, c, r, P)) + HitsOf(u3, Class(kind, c, r, P))
    BY <1>8, <1>9, PieceSum
  <2> QED BY <1>4, <2>2, <2>3, <2>4, <2>5
<1>13. \A c \in 1..n : SummarizedOnce(b, c)
  <2> SUFFICES ASSUME NEW c \in 1..n PROVE SummarizedOnce(b, c)
    OBVIOUS
  <2>1. SummarizedOnce(weekly_case(c), c)
    BY WeeklyCase
  <2> QED BY <1>12, <2>1 DEF SummarizedOnce
<1>14. Shape(s, "weekly", n)
  BY <1>4, <1>11, <1>13, ShapeFrom
<1>15. ASSUME NEW c \in 1..n, NEW r \in ToSet(RolesOf({}, c))
       PROVE  /\ HitsOf(s, Class("run", c, r, Kept)) = Samples
              /\ HitsOf(s, Class("run", c, r, Phases)) = Warmups + Samples
              /\ HitsOf(s, Class("build", c, r, Kept)) = BuildRounds - 1
              /\ HitsOf(s, Class("build", c, r, Phases)) = BuildRounds
  <2>1. r \in ToSet(Roles)
    BY RolesWithout
  <2>2. BuiltInRounds(weekly_case(c), c) /\ RunInRounds(weekly_case(c), c)
    BY WeeklyCase
  <2>3. ASSUME NEW kind, kind # "finish", NEW P
        PROVE  HitsOf(s, Class(kind, c, r, P)) = HitsOf(weekly_case(c), Class(kind, c, r, P))
    <3>1. HitsOf(b \o Finish, Class(kind, c, r, P)) = HitsOf(b, Class(kind, c, r, P))
      BY <1>11, <2>3, FinishClass
    <3> QED BY <1>4, <1>12, <3>1
  <2>4. \A P : /\ HitsOf(s, Class("run", c, r, P)) = HitsOf(weekly_case(c), Class("run", c, r, P))
               /\ HitsOf(s, Class("build", c, r, P)) = HitsOf(weekly_case(c), Class("build", c, r, P))
    BY <2>3
  <2> QED BY <2>1, <2>2, <2>4 DEF BuiltInRounds, RunInRounds
<1>16. Counted(s, "weekly", n, {})
  BY <1>15 DEF Counted, RowKeepers, HitsOf
<1> QED BY <1>5, <1>14, <1>16

(* The programs of a representative manifest are built before any case.   *)
LEMMA ProgramsPiece ==
  ASSUME NEW n \in Nat
  PROVE  Piece(build_programs, Region("representative", n, {0}, {"build"}))
<1>1. PICK R, m, kind, ph, Z, Y : /\ R = ToSet(Roles) /\ m = Len(Roles) /\ kind = "build" /\ ph = "retained"
                                 /\ Z = Zone({kind}, {0}, R) /\ Y = Region("representative", n, {0}, {kind})
  OBVIOUS
<1>2. m \in Nat /\ Arranged(Roles, R, m) /\ kind \in Applications /\ 0 \in Nat /\ ph \in Phases
  BY <1>1, RolesAre, RolesArranged DEF Applications, Phases
<1>3. build_programs = OneRound(kind, 0, Roles, ph)
  BY <1>1 DEF build_programs
<1>4. Piece(OneRound(kind, 0, Roles, ph), Zone({kind}, {0}, R))
  BY <1>2, RoundPiece
<1>5. Z \subseteq Y
  <2> SUFFICES ASSUME NEW x \in Z PROVE x \in Y
    OBVIOUS
  <2>1. /\ x = [kind |-> x.kind, case |-> x.case, role |-> x.role, phase |-> x.phase]
        /\ x.kind = kind /\ x.case = 0 /\ x.role \in R /\ x.phase \in Phases
    BY <1>1 DEF Zone
  <2>2. x.role \in Texts
    <3>1. ToSet(Roles) \subseteq Texts
      BY Zenon DEF Texts
    <3> QED BY <1>1, <2>1, <3>1
  <2>3. kind \in Recorded /\ kind \in ItemKinds /\ kind # "finish" /\ kind # "manifest" /\ kind # "summarize" /\ kind # "probe"
    BY <1>1 DEF Recorded, Runs, ItemKinds
  <2>4. x \in Items
    BY <2>1, <2>2, <2>3 DEF Items, Zone
  <2>5. Key(x) \in KeysOf(n)
    BY <1>1, <2>1 DEF Key, KeysOf
  <2> QED BY <1>1, <2>1, <2>3, <2>4, <2>5 DEF Region, Usual
<1> QED BY <1>1, <1>3, <1>4, <1>5, PieceWider

(* Every case of it is probed for garbage collections.                    *)
LEMMA ProbesPiece ==
  ASSUME NEW n \in Nat
  PROVE  Piece(gc_probes(n), Region("representative", n, 1..n, {"probe"}))
<1>1. PICK s, r, Z : s = gc_probes(n) /\ r = Roles[1] /\ Z = Region("representative", n, 1..n, {"probe"})
  OBVIOUS
<1>2. r \in Texts
  <2>1. r \in ToSet(Roles)
    BY <1>1, RolesAre
  <2>2. ToSet(Roles) \subseteq Texts
    BY Zenon DEF Texts
  <2> QED BY <2>1, <2>2
<1>3. s = [c \in 1..n |-> Item("probe", c, r, "none")]
  BY <1>1 DEF gc_probes
<1>4. ASSUME NEW c \in 1..n PROVE s[c] \in Z
  <2>1. PICK x : x = s[c]
    OBVIOUS
  <2>2. x = [kind |-> "probe", case |-> c, role |-> r, phase |-> "none"]
    BY <1>3, <2>1 DEF Item
  <2>3. x \in Items
    BY <1>2, <2>2 DEF Items, Zone, ItemKinds, Phases, Runs
  <2> QED BY <1>1, <2>1, <2>2, <2>3 DEF Region, Usual, Recorded, Runs
<1>5. s \in Seq(Z) /\ DOMAIN s = 1..n
  <2>1. s = [c \in 1..n |-> s[c]]
    BY <1>3
  <2> QED BY <1>4, <2>1
<1>6. Ordered(s)
  <2>1. \A c \in 1..n : s[c].kind = "probe"
    BY <1>1, <1>4 DEF Region
  <2> QED BY <1>5, <2>1 DEF Ordered, Conflict
<1> QED BY <1>1, <1>5, <1>6 DEF Piece

(* Its manifest is begun.                                                 *)
LEMMA ManifestPiece ==
  ASSUME NEW n \in Nat
  PROVE  Piece(begin_manifest, Region("representative", n, {0}, {"manifest"}))
<1>1. PICK x : x = Item("manifest", 0, "none", "none")
  OBVIOUS
<1>2. x = [kind |-> "manifest", case |-> 0, role |-> "none", phase |-> "none"]
  BY <1>1 DEF Item
<1>3. x \in Items
  BY <1>2 DEF Items, Zone, ItemKinds, Phases, Texts
<1>4. x \in Region("representative", n, {0}, {"manifest"})
  BY <1>2, <1>3 DEF Region, Usual, Recorded, Runs
<1> QED BY <1>1, <1>4, PieceSingle DEF begin_manifest

(* The kinds of a representative case.                                    *)
CaseKinds == {"run"} \cup {"summarize"}

(* One workload of it.                                                    *)
LEMMA RepresentativeCase ==
  ASSUME NEW n \in Nat, NEW c \in 1..n
  PROVE  /\ Piece(representative_case(c), Region("representative", n, {c}, CaseKinds))
         /\ RunInRounds(representative_case(c), c) /\ SummarizedOnce(representative_case(c), c)
<1>1. PICK s1, s2, s, K1, K2, C : /\ s1 = RotatedRounds("run", c, Warmups + Samples, Warmups) /\ s2 = Summary(c)
                                  /\ s = s1 \o s2 /\ K1 = {"run"} /\ K2 = {"summarize"} /\ C = {c}
  OBVIOUS
<1>2. representative_case(c) = s
  BY <1>1 DEF representative_case
<1>3. Piece(s1, Region("representative", n, C, K1)) /\ RunInRounds(s1, c)
  <2>1. PICK kind, rounds : kind = "run" /\ rounds = Warmups + Samples
    OBVIOUS
  <2>2. "run" \in Applications
    BY DEF Applications
  <2>3. Warmups \in Nat /\ Warmups <= rounds /\ rounds \in Nat /\ kind \in Applications /\ rounds - Warmups = Samples
    BY <2>1, <2>2, Settings
  <2>4. RoundsOf(s1, "representative", n, kind, c, rounds, Warmups)
    BY <1>1, <2>1, <2>3, RoundsRegion
  <2> QED BY <1>1, <2>1, <2>3, <2>4 DEF RoundsOf, RunInRounds
<1>4. Piece(s2, Region("representative", n, C, K2)) /\ SummarizedOnce(s2, c)
  BY <1>1, SummaryPiece DEF SummarizedOnce
<1>5. Before(K1, K2)
  BY <1>1 DEF Before
<1>6. Piece(s, Region("representative", n, C, CaseKinds))
  <2>1. Piece(s1 \o s2, Region("representative", n, C, K1 \cup K2))
    BY <1>3, <1>4, <1>5, LocalConcat
  <2> QED BY <1>1, <2>1 DEF CaseKinds
<1>7. \A X : HitsOf(s, X) = HitsOf(s1, X) + HitsOf(s2, X)
  <2>1. \A X : HitsOf(s1 \o s2, X) = HitsOf(s1, X) + HitsOf(s2, X)
    BY <1>3, <1>4, PieceSum
  <2> QED BY <1>1, <2>1
<1>8. ASSUME NEW r, NEW P
      PROVE  HitsOf(s1, Class("summarize", c, r, P)) = 0 /\ HitsOf(s2, Class("run", c, r, P)) = 0
  <2>1. "summarize" \notin K1 /\ "run" \notin K2
    BY <1>1
  <2> QED BY <1>3, <1>4, <2>1, RegionApart
<1>9. \A r, P : /\ HitsOf(s, Class("run", c, r, P)) = HitsOf(s1, Class("run", c, r, P)) + 0
                /\ HitsOf(s, Class("summarize", c, r, P)) = 0 + HitsOf(s2, Class("summarize", c, r, P))
  BY <1>7, <1>8
<1>10. RunInRounds(s, c) /\ SummarizedOnce(s, c)
  BY <1>3, <1>4, <1>9, Settings DEF RunInRounds, SummarizedOnce
<1> QED BY <1>1, <1>2, <1>6, <1>10

(* The representative schedule keeps to its shape and has every sample.   *)
LEMMA RepresentativeSchedule ==
  ASSUME NEW n \in Nat
  PROVE  Shape(representative(n), "representative", n) /\ Counted(representative(n), "representative", n, {})
<1> DEFINE F == [c \in 1..n |-> representative_case(c)]
<1>1. \A c \in 1..n : F[c] = representative_case(c)
  OBVIOUS
<1>2. DOMAIN F = 1..n /\ F = [c \in 1..n |-> F[c]] /\ PerCase(n, representative_case) = FlattenSeq(F)
  BY DEF PerCase
<1> HIDE DEF F
<1>3. PICK u1, u2, u3, u4, u5, u6 : /\ u1 = load_cases /\ u2 = begin_manifest /\ u3 = build_programs /\ u4 = tool_identities
                                    /\ u5 = FlattenSeq(F) /\ u6 = gc_probes(n)
  OBVIOUS
<1>4. PICK v1, v2, v3, v4, b, s : v1 = u1 \o u2 /\ v2 = v1 \o u3 /\ v3 = v2 \o u4 /\ v4 = v3 \o u5 /\ b = v4 \o u6 /\ s = b \o Finish
  OBVIOUS
<1>5. representative(n) = s
  BY <1>2, <1>3, <1>4 DEF representative
<1>6. PICK C0, C, K1, K2, K3, K5, K6 : /\ C0 = {0} /\ C = 1..n /\ K1 = {"check"} /\ K2 = {"manifest"} /\ K3 = {"build"}
                                       /\ K5 = CaseKinds /\ K6 = {"probe"}
  OBVIOUS
<1>7. Piece(u1, Region("representative", n, C0, K1)) /\ Piece(u4, Region("representative", n, C0, K1))
  <2>1. "profile" \in Texts /\ 0 \in Nat
    BY DEF Texts
  <2>2. "tools" \in Texts /\ 0 \in Nat
    BY DEF Texts
  <2>3. Piece(u1, Region("representative", n, C0, K1))
    BY <1>3, <1>6, <2>1, CheckedPiece DEF load_cases
  <2>4. Piece(u4, Region("representative", n, C0, K1))
    BY <1>3, <1>6, <2>2, CheckedPiece DEF tool_identities
  <2> QED BY <2>3, <2>4
<1>8. Piece(u2, Region("representative", n, C0, K2)) /\ Piece(u3, Region("representative", n, C0, K3)) /\ Piece(u6, Region("representative", n, C, K6))
  BY <1>3, <1>6, ManifestPiece, ProgramsPiece, ProbesPiece
<1>9. Piece(v3, Region("representative", n, C0, ((K1 \cup K2) \cup K3) \cup K1))
  <2>1. Before(K1, K2) /\ Before(K1 \cup K2, K3) /\ Before((K1 \cup K2) \cup K3, K1)
    BY <1>6 DEF Before
  <2>2. Piece(v1, Region("representative", n, C0, K1 \cup K2))
    BY <1>4, <1>7, <1>8, <2>1, LocalConcat
  <2>3. Piece(v2, Region("representative", n, C0, (K1 \cup K2) \cup K3))
    BY <1>4, <1>8, <2>1, <2>2, LocalConcat
  <2> QED BY <1>4, <1>7, <2>1, <2>3, LocalConcat
<1>10. Piece(u5, Region("representative", n, C, K5)) /\ CaseByCase(u5, F, n)
  <2>1. ASSUME NEW c \in 1..n PROVE Piece(F[c], Region("representative", n, {c}, K5))
    BY <1>1, <1>6, RepresentativeCase
  <2>2. InCases(F, "representative", n, K5)
    BY <2>1 DEF InCases
  <2>3. Piece(FlattenSeq(F), Region("representative", n, 1..n, K5)) /\ CaseByCase(FlattenSeq(F), F, n)
    BY <1>2, <2>2, CasesTogether
  <2> QED BY <1>3, <1>6, <2>3
<1>11. PICK K : K = ((K1 \cup K2) \cup K3) \cup K1
  OBVIOUS
<1>12. C0 \cap C = {} /\ Before(K \cup K5, K6)
  BY <1>6 DEF Before
<1>13. Piece(v4, Region("representative", n, C0 \cup C, K \cup K5))
  BY <1>4, <1>9, <1>10, <1>11, <1>12, RegionConcat
<1>14. Piece(b, Region("representative", n, (C0 \cup C) \cup C, (K \cup K5) \cup K6))
  BY <1>4, <1>8, <1>12, <1>13, RegionConcat
<1>15. ASSUME NEW c \in 1..n, NEW kind, kind # "probe", NEW r, NEW P
       PROVE HitsOf(b, Class(kind, c, r, P)) = HitsOf(representative_case(c), Class(kind, c, r, P))
  <2>1. c \notin C0 /\ kind \notin K6
    BY <1>6, <1>15
  <2>2. HitsOf(v3, Class(kind, c, r, P)) = 0 /\ HitsOf(u6, Class(kind, c, r, P)) = 0
    BY <1>8, <1>9, <2>1, RegionApart
  <2>3. HitsOf(u5, Class(kind, c, r, P)) \in Nat
    BY <1>10, PieceHits
  <2>4. HitsOf(u5, Class(kind, c, r, P)) = HitsOf(representative_case(c), Class(kind, c, r, P))
    BY <1>1, <1>10 DEF CaseByCase
  <2>5. HitsOf(v3 \o u5, Class(kind, c, r, P)) = HitsOf(v3, Class(kind, c, r, P)) + HitsOf(u5, Class(kind, c, r, P))
    BY <1>9, <1>10, PieceSum
  <2>6. HitsOf(v4 \o u6, Class(kind, c, r, P)) = HitsOf(v4, Class(kind, c, r, P)) + HitsOf(u6, Class(kind, c, r, P))
    BY <1>8, <1>13, PieceSum
  <2> QED BY <1>4, <2>2, <2>3, <2>4, <2>5, <2>6
<1>16. \A c \in 1..n : SummarizedOnce(b, c)
  <2> SUFFICES ASSUME NEW c \in 1..n PROVE SummarizedOnce(b, c)
    OBVIOUS
  <2>1. SummarizedOnce(representative_case(c), c)
    BY RepresentativeCase
  <2> QED BY <1>15, <2>1 DEF SummarizedOnce
<1>17. Shape(s, "representative", n)
  BY <1>4, <1>14, <1>16, ShapeFrom
<1>18. ASSUME NEW c \in 1..n, NEW r \in ToSet(RolesOf({}, c))
       PROVE  /\ HitsOf(s, Class("run", c, r, Kept)) = Samples
              /\ HitsOf(s, Class("run", c, r, Phases)) = Warmups + Samples
  <2>1. r \in ToSet(Roles)
    BY RolesWithout
  <2>2. RunInRounds(representative_case(c), c)
    BY RepresentativeCase
  <2>3. ASSUME NEW P
        PROVE  HitsOf(s, Class("run", c, r, P)) = HitsOf(representative_case(c), Class("run", c, r, P))
    <3>1. PICK kind : kind = "run" /\ kind # "finish" /\ kind # "probe"
      OBVIOUS
    <3>2. HitsOf(b \o Finish, Class(kind, c, r, P)) = HitsOf(b, Class(kind, c, r, P))
      BY <1>14, <3>1, FinishClass
    <3> QED BY <1>4, <1>15, <3>1, <3>2
  <2> QED BY <2>1, <2>2, <2>3 DEF RunInRounds
<1>19. Counted(s, "representative", n, {})
  BY <1>18 DEF Counted, RowKeepers, HitsOf
<1> QED BY <1>5, <1>17, <1>19

(* The places of the cases in a round are those of another order.            *)
Place(k, i, n) == ((k - 1 + i) % n) + 1

(* The remainder of a multiple and a smaller number is that number.       *)
LEMMA Remainders ==
  ASSUME NEW n \in Nat, n > 0, NEW q \in Nat, NEW x \in 0..(n - 1)
  PROVE  (n * q + x) % n = x
OBVIOUS

(* Every number is a multiple and its remainder.                          *)
LEMMA Divided ==
  ASSUME NEW n \in Nat, n > 0, NEW i \in Nat
  PROVE  i % n \in 0..(n - 1) /\ \E q \in Nat : i = n * q + (i % n)
OBVIOUS

(* The place is found without a remainder of a sum.                       *)
LEMMA PlaceIs ==
  ASSUME NEW n \in Nat, n > 0, NEW i \in Nat, NEW k \in 1..n
  PROVE  Place(k, i, n) = IF k + (i % n) <= n THEN k + (i % n) ELSE k + (i % n) - n
<1>1. PICK q \in Nat, x \in 0..(n - 1) : i = n * q + x /\ x = i % n
  BY Divided
<1>2. CASE k + x <= n
  <2>1. k - 1 + x \in 0..(n - 1) /\ k - 1 + i = n * q + (k - 1 + x)
    BY <1>1, <1>2
  <2>2. (k - 1 + i) % n = k - 1 + x
    BY <2>1, Remainders
  <2> QED BY <1>1, <1>2, <2>2 DEF Place
<1>3. CASE ~(k + x <= n)
  <2>1. k - 1 + x - n \in 0..(n - 1) /\ q + 1 \in Nat
    BY <1>3
  <2>2. n * (q + 1) = n * q + n
    OBVIOUS
  <2>3. n * q \in Nat
    OBVIOUS
  <2>4. k - 1 + i = n * (q + 1) + (k - 1 + x - n)
    BY <1>1, <2>2, <2>3
  <2>5. (k - 1 + i) % n = k - 1 + x - n
    <3>1. PICK p \in Nat, y \in 0..(n - 1) : p = q + 1 /\ y = k - 1 + x - n
      BY <2>1
    <3>2. k - 1 + i = n * p + y
      BY <2>4, <3>1
    <3>3. (n * p + y) % n = y
      BY Remainders
    <3> QED BY <3>1, <3>2, <3>3
  <2> QED BY <1>1, <1>3, <2>5 DEF Place
<1> QED BY <1>2, <1>3

(* The places of the cases in a round are each taken once.                *)
LEMMA Placed ==
  ASSUME NEW n \in Nat, n > 0, NEW i \in Nat
  PROVE  /\ \A k \in 1..n : Place(k, i, n) \in 1..n
         /\ \A k, l \in 1..n : Place(k, i, n) = Place(l, i, n) => k = l
         /\ \A c \in 1..n : \E k \in 1..n : Place(k, i, n) = c
<1>1. PICK x \in 0..(n - 1) : x = i % n
  BY Divided
<1>2. \A k \in 1..n : Place(k, i, n) = IF k + x <= n THEN k + x ELSE k + x - n
  BY <1>1, PlaceIs
<1>3. \A k \in 1..n : Place(k, i, n) \in 1..n
  BY <1>2
<1>4. \A k, l \in 1..n : Place(k, i, n) = Place(l, i, n) => k = l
  BY <1>2
<1>5. ASSUME NEW c \in 1..n PROVE \E k \in 1..n : Place(k, i, n) = c
  <2>1. CASE c > x
    <3>1. c - x \in 1..n /\ Place(c - x, i, n) = c
      BY <1>2, <2>1
    <3> QED BY <3>1
  <2>2. CASE ~(c > x)
    <3>1. c + n - x \in 1..n /\ Place(c + n - x, i, n) = c
      BY <1>2, <2>2
    <3> QED BY <3>1
  <2> QED BY <2>1, <2>2
<1> QED BY <1>3, <1>4, <1>5

(* The compilers of a diagnostic case, with the float controls or without.   *)
Controls == {"control-go-original"}

(* There is one control.                                                  *)
LEMMA ControlsArranged ==
  Arranged(ControlRoles, Controls, 1)
<1>1. PICK g, t : g = "control-go-original" /\ t = <<g>>
  OBVIOUS
<1>2. t \in Seq({g}) /\ Len(t) = 1 /\ t[1] = g
  <2>1. g \in {g}
    OBVIOUS
  <2> QED BY <1>1, <2>1
<1>3. Arranged(t, {g}, 1)
  <2>1. \A i \in 1..1 : i = 1
    OBVIOUS
  <2>2. \A r \in {g} : \E i \in 1..1 : t[i] = r
    BY <1>2, 1 \in 1..1
  <2> QED BY <1>2, <2>1, <2>2 DEF Arranged
<1> QED BY <1>1, <1>3 DEF ControlRoles, Controls

(* The roles without the first one, which reuse takes from an earlier     *)
(* snapshot.                                                              *)
LEMMA TailArranged ==
  Arranged(Tail(Roles), ToSet(Roles) \ {Roles[1]}, Len(Roles) - 1)
<1>1. PICK m, R, t : m = Len(Roles) /\ R = ToSet(Roles) \ {Roles[1]} /\ t = Tail(Roles)
  OBVIOUS
<1>2. /\ m \in Nat /\ m > 0 /\ Roles \in Seq(ToSet(Roles))
      /\ \A i \in 1..m : Roles[i] \in ToSet(Roles)
      /\ \A r \in ToSet(Roles) : \E i \in 1..m : Roles[i] = r
      /\ \A i, j \in 1..m : Roles[i] = Roles[j] => i = j
  BY <1>1, RolesAre
<1>3. Roles # <<>>
  BY MeasurementAssumption
<1>4. t \in Seq(ToSet(Roles)) /\ Len(t) = m - 1 /\ \A i \in 1..(m - 1) : t[i] = Roles[i + 1]
  BY <1>1, <1>2, <1>3, HeadTailProperties
<1>5. \A i \in 1..(m - 1) : i + 1 \in 1..m /\ i + 1 # 1
  BY <1>2
<1>6. \A i \in 1..(m - 1) : t[i] \in R
  BY <1>1, <1>2, <1>4, <1>5
<1>7. t \in Seq(R)
  <2>1. PICK p \in Nat : p = m - 1
    BY <1>2
  <2>2. t = [i \in 1..p |-> t[i]]
    BY <1>4, <2>1
  <2>3. \A i \in 1..p : t[i] \in R
    BY <1>6, <2>1
  <2> QED BY <2>2, <2>3
<1>8. \A i, j \in 1..(m - 1) : t[i] = t[j] => i = j
  <2> SUFFICES ASSUME NEW i \in 1..(m - 1), NEW j \in 1..(m - 1), t[i] = t[j] PROVE i = j
    OBVIOUS
  <2>1. Roles[i + 1] = Roles[j + 1] /\ i + 1 \in 1..m /\ j + 1 \in 1..m
    BY <1>4, <1>5
  <2>2. i + 1 = j + 1
    BY <1>2, <2>1
  <2> QED BY <2>2
<1>9. \A r \in R : \E i \in 1..(m - 1) : t[i] = r
  <2> SUFFICES ASSUME NEW r \in R PROVE \E i \in 1..(m - 1) : t[i] = r
    OBVIOUS
  <2>1. PICK j \in 1..m : Roles[j] = r
    BY <1>1, <1>2
  <2>2. j # 1
    BY <1>1, <2>1
  <2>3. j - 1 \in 1..(m - 1) /\ (j - 1) + 1 = j
    BY <1>2, <2>2
  <2>4. t[j - 1] = r
    BY <1>4, <2>1, <2>3
  <2> QED BY <2>3, <2>4
<1>10. Arranged(t, R, m - 1)
  BY <1>4, <1>7, <1>8, <1>9 DEF Arranged
<1> QED BY <1>1, <1>10

(* The roles of a case are each listed once: the ordinary ones, and the   *)
(* control if it has one.                                                 *)
LEMMA RolesOfArranged ==
  ASSUME NEW o, NEW c
  PROVE  /\ ToSet(RolesOf(o, c)) = ToSet(Roles) \cup (IF HasControls(o, c) THEN Controls ELSE {})
         /\ \E m \in Nat : m > 0 /\ Arranged(RolesOf(o, c), ToSet(RolesOf(o, c)), m)
<1>1. CASE ~HasControls(o, c)
  <2>1. RolesOf(o, c) = Roles
    BY <1>1 DEF RolesOf
  <2>2. Len(Roles) \in Nat /\ Len(Roles) > 0
    BY RolesAre
  <2> QED BY <1>1, <2>1, <2>2, RolesArranged
<1>2. CASE HasControls(o, c)
  <2>1. PICK m, t, u, T : m = Len(Roles) /\ t = ControlRoles /\ u = Roles \o t /\ T = ToSet(Roles) \cup Controls
    OBVIOUS
  <2>2. RolesOf(o, c) = u /\ ToSet(u) = T
    BY <1>2, <2>1, RolesControls DEF RolesOf, Controls
  <2>3. m \in Nat /\ m > 0 /\ Arranged(Roles, ToSet(Roles), m) /\ Arranged(t, Controls, 1)
    BY <2>1, RolesAre, RolesArranged, ControlsArranged
  <2>4. Roles \in Seq(T) /\ t \in Seq(T) /\ Len(Roles) = m /\ Len(t) = 1
    <3>1. Roles \in Seq(ToSet(Roles)) /\ t \in Seq(Controls) /\ Len(Roles) = m /\ Len(t) = 1
      BY <2>3 DEF Arranged
    <3> QED BY <2>1, <3>1
  <2>5. u \in Seq(T) /\ Len(u) = m + 1 /\ \A i \in 1..(m + 1) : u[i] = IF i <= m THEN Roles[i] ELSE t[i - m]
    <3>1. /\ Roles \o t \in Seq(T) /\ Len(Roles \o t) = Len(Roles) + Len(t)
          /\ \A i \in 1..(Len(Roles) + Len(t)) : (Roles \o t)[i] = IF i <= Len(Roles) THEN Roles[i] ELSE t[i - Len(Roles)]
      BY <2>4, ConcatProperties
    <3>2. u = Roles \o t
      BY <2>1
    <3> QED BY <2>4, <3>1, <3>2
  <2>6. \A i \in 1..(m + 1) : IF i <= m THEN i \in 1..m /\ u[i] = Roles[i] /\ u[i] \notin Controls ELSE i = m + 1 /\ u[i] \in Controls
    <3>1. \A i \in 1..m : Roles[i] \in ToSet(Roles)
      BY <2>1, RolesAre
    <3>2. t[1] \in Controls
      <4>1. t \in Seq(Controls) /\ Len(t) = 1
        BY <2>3 DEF Arranged
      <4> QED BY <4>1
    <3>3. ToSet(Roles) \cap Controls = {}
      BY RolesAre DEF Controls
    <3>4. \A i \in 1..(m + 1) : i <= m \/ (i = m + 1 /\ i - m = 1)
      BY <2>3
    <3> QED BY <2>3, <2>5, <3>1, <3>2, <3>3, <3>4
  <2>7. \A i, j \in 1..(m + 1) : u[i] = u[j] => i = j
    <3> SUFFICES ASSUME NEW i \in 1..(m + 1), NEW j \in 1..(m + 1), u[i] = u[j] PROVE i = j
      OBVIOUS
    <3>1. CASE i <= m /\ j <= m
      <4>1. i \in 1..m /\ j \in 1..m /\ Roles[i] = Roles[j]
        BY <2>6, <3>1
      <4> QED BY <2>3, <4>1 DEF Arranged
    <3>2. CASE ~(i <= m /\ j <= m)
      BY <2>6, <3>2
    <3> QED BY <3>1, <3>2
  <2>8. \A r \in T : \E i \in 1..(m + 1) : u[i] = r
    <3>1. DOMAIN u = 1..(m + 1)
      BY <2>3, <2>5
    <3> QED BY <2>2, <3>1 DEF ToSet
  <2>9. Arranged(u, T, m + 1) /\ m + 1 \in Nat /\ m + 1 > 0
    BY <2>3, <2>5, <2>7, <2>8 DEF Arranged
  <2> QED BY <1>2, <2>1, <2>2, <2>9
<1> QED BY <1>1, <1>2

(* Two pieces of one region whose kinds never conflict.                   *)
LEMMA SameConcat ==
  ASSUME NEW name, NEW n, NEW C, NEW K, Before(K, K),
         NEW s, NEW t, Piece(s, Region(name, n, C, K)), Piece(t, Region(name, n, C, K))
  PROVE  Piece(s \o t, Region(name, n, C, K))
<1>1. K \cup K = K
  OBVIOUS
<1>2. Piece(s \o t, Region(name, n, C, K \cup K))
  BY LocalConcat
<1> QED BY <1>1, <1>2

(* One round over some of the roles of a case.                               *)
RoundIs(s, kind, c, R, ph) ==
    \A r, P : HitsOf(s, Class(kind, c, r, P)) = IF r \in R /\ ph \in P THEN 1 ELSE 0

(* One round of some roles of a case is in its region.                    *)
LEMMA RoundRegion ==
  ASSUME NEW name, NEW n \in Nat, NEW c \in 1..n, NEW kind \in Applications, NEW R, R \subseteq ToSet(Roles \o ControlRoles),
         NEW m \in Nat, NEW t, Arranged(t, R, m), NEW ph \in Phases
  PROVE  /\ Piece(OneRound(kind, c, t, ph), Region(name, n, {c}, {kind}))
         /\ RoundIs(OneRound(kind, c, t, ph), kind, c, R, ph)
<1>1. PICK s, Z : s = OneRound(kind, c, t, ph) /\ Z = Zone({kind}, {c}, R)
  OBVIOUS
<1>2. c \in Nat
  OBVIOUS
<1>3. Piece(s, Z) /\ \A r \in R : \A P : HitsOf(s, Class(kind, c, r, P)) = IF ph \in P THEN 1 ELSE 0
  BY <1>1, <1>2, RoundPiece
<1>4. Z \subseteq Region(name, n, {c}, {kind})
  BY <1>1, ZoneRegion
<1>5. Piece(s, Region(name, n, {c}, {kind}))
  BY <1>3, <1>4, PieceWider
<1>6. ASSUME NEW r, r \notin R, NEW P PROVE HitsOf(s, Class(kind, c, r, P)) = 0
  <2>1. Z \cap Class(kind, c, r, P) = {}
    BY <1>1, <1>6 DEF Zone, Class
  <2> QED BY <1>3, <2>1, PieceApart
<1>7. RoundIs(s, kind, c, R, ph)
  BY <1>3, <1>6 DEF RoundIs
<1> QED BY <1>1, <1>5, <1>7

(* The phase of a round of a diagnostic, in which each role of each case  *)
(* runs once.                                                             *)
RunPhase(i) == IF i = 0 THEN "first" ELSE "steady"
EveryRole(s, n, o, ph) == \A c \in 1..n : RoundIs(s, "run", c, ToSet(RolesOf(o, c)), ph)

(* One round of a diagnostic runs each role of each case once, in         *)
(* whatever order.                                                        *)
LEMMA RunRound ==
  ASSUME NEW n \in Nat, NEW o, NEW i \in Nat
  PROVE  /\ Piece(runtime_schedule(n, o, i), Region("diagnostic", n, 1..n, {"run"}))
         /\ EveryRole(runtime_schedule(n, o, i), n, o, RunPhase(i))
<1>1. PICK kind, K, ph, Z : kind = "run" /\ K = {kind} /\ ph = RunPhase(i) /\ Z = Region("diagnostic", n, 1..n, K)
  OBVIOUS
<1>2. kind \in Applications /\ ph \in Phases
  BY <1>1 DEF Applications, Phases, RunPhase
<1> DEFINE F == [k \in 1..n |-> OneRound("run", Place(k, i, n), rotated(RolesOf(o, Place(k, i, n)), i + Place(k, i, n) - 1), ph)]
<1>3. runtime_schedule(n, o, i) = FlattenSeq(F)
  BY <1>1 DEF runtime_schedule, Place, RunPhase
<1>4. DOMAIN F = 1..n /\ F = [k \in 1..n |-> F[k]]
  OBVIOUS
<1>5. \A k \in 1..n : F[k] = OneRound(kind, Place(k, i, n), rotated(RolesOf(o, Place(k, i, n)), i + Place(k, i, n) - 1), ph)
  BY <1>1
<1> HIDE DEF F
<1>6. ASSUME NEW k \in 1..n
      PROVE  /\ Piece(F[k], Region("diagnostic", n, {Place(k, i, n)}, K))
             /\ RoundIs(F[k], kind, Place(k, i, n), ToSet(RolesOf(o, Place(k, i, n))), ph)
             /\ Place(k, i, n) \in 1..n
  <2>1. PICK c : c = Place(k, i, n)
    OBVIOUS
  <2>2. c \in 1..n /\ n > 0
    BY <2>1, Placed
  <2>3. PICK R : R = ToSet(RolesOf(o, c))
    OBVIOUS
  <2>4. PICK m \in Nat : m > 0 /\ Arranged(RolesOf(o, c), R, m)
    BY <2>3, RolesOfArranged
  <2>5. PICK j \in Nat : j = i + c - 1
    BY <2>2
  <2>6. PICK t : t = rotated(RolesOf(o, c), j)
    OBVIOUS
  <2>7. Arranged(t, R, m)
    BY <2>4, <2>6, RotatedArranged
  <2>8. R \subseteq ToSet(Roles \o ControlRoles)
    BY <2>3, RolesControls, RolesOfArranged DEF Controls
  <2>9. F[k] = OneRound(kind, c, t, ph)
    BY <1>5, <2>1, <2>5, <2>6
  <2>10. Piece(OneRound(kind, c, t, ph), Region("diagnostic", n, {c}, {kind})) /\ RoundIs(OneRound(kind, c, t, ph), kind, c, R, ph)
    BY <1>2, <2>2, <2>7, <2>8, RoundRegion
  <2> QED BY <1>1, <2>1, <2>2, <2>3, <2>9, <2>10
<1>7. F \in [1..n -> Seq(Z)] /\ Piece(FlattenSeq(F), Z)
  <2> DEFINE V == [k \in 1..n |-> Z]
  <2>1. \A k \in 1..n : V[k] = Z
    OBVIOUS
  <2> HIDE DEF V
  <2>2. \A k \in 1..n : Piece(F[k], V[k]) /\ V[k] \subseteq Z
    <3> SUFFICES ASSUME NEW k \in 1..n PROVE Piece(F[k], Z)
      BY <2>1
    <3>1. PICK C, D : C = {Place(k, i, n)} /\ D = 1..n /\ C \subseteq D
      BY <1>6
    <3>2. Piece(F[k], Region("diagnostic", n, C, K)) /\ K \subseteq K
      BY <1>6, <3>1
    <3>3. Piece(F[k], Region("diagnostic", n, D, K))
      BY <3>1, <3>2, RegionWider
    <3> QED BY <1>1, <3>1, <3>3
  <2>3. \A k, l \in 1..n : k < l => Peace(V[k], V[l])
    <3>1. Before(K, K)
      BY <1>1 DEF Before
    <3>2. Peace(Z, Z)
      BY <1>1, <3>1, RegionPeace
    <3> QED BY <2>1, <3>2
  <2> QED BY <1>4, <2>2, <2>3, FlattenPiece
<1>8. ASSUME NEW c \in 1..n PROVE RoundIs(FlattenSeq(F), kind, c, ToSet(RolesOf(o, c)), ph)
  <2>1. PICK k \in 1..n : Place(k, i, n) = c
    <3>1. n > 0
      OBVIOUS
    <3> QED BY <3>1, Placed
  <2>2. ASSUME NEW r, NEW P PROVE HitsOf(FlattenSeq(F), Class(kind, c, r, P)) = HitsOf(F[k], Class(kind, c, r, P))
    <3>1. PICK X : X = Class(kind, c, r, P)
      OBVIOUS
    <3>2. OnlyIn(F, n, k, X)
      <4> SUFFICES ASSUME NEW l \in 1..n, l # k PROVE HitsOf(F[l], X) = 0
        BY DEF OnlyIn
      <4>1. n > 0
        OBVIOUS
      <4>2. Place(l, i, n) # c
        BY <2>1, <4>1, Placed
      <4>3. PICK C : C = {Place(l, i, n)}
        OBVIOUS
      <4>4. c \notin C /\ Piece(F[l], Region("diagnostic", n, C, K))
        BY <1>6, <4>2, <4>3
      <4>5. HitsOf(F[l], Class(kind, c, r, P)) = 0
        BY <4>4, RegionApart
      <4> QED BY <3>1, <4>5
    <3>3. F \in [1..n -> Seq(Z)]
      BY <1>7
    <3>4. HitsOf(FlattenSeq(F), X) = HitsOf(F[k], X)
      BY <3>2, <3>3, FlattenOne
    <3> QED BY <3>1, <3>4
  <2>3. RoundIs(F[k], kind, c, ToSet(RolesOf(o, c)), ph)
    BY <1>6, <2>1
  <2> QED BY <2>2, <2>3 DEF RoundIs
<1>9. EveryRole(FlattenSeq(F), n, o, ph)
  BY <1>1, <1>8 DEF EveryRole
<1> QED BY <1>1, <1>3, <1>7, <1>9

runtime_rounds(n, o) == FlattenSeq([i \in 1..(1 + Samples) |-> runtime_schedule(n, o, i - 1)])

(* The runs of a case over all rounds.                                    *)
RunRotated(s, o, c) ==
    \A r \in ToSet(RolesOf(o, c)) : /\ HitsOf(s, Class("run", c, r, Phases)) = 1 + Samples
                                    /\ HitsOf(s, Class("run", c, r, Kept)) = Samples

(* All its rounds.                                                        *)
LEMMA RunRounds ==
  ASSUME NEW n \in Nat, NEW o
  PROVE  /\ Piece(runtime_rounds(n, o), Region("diagnostic", n, 1..n, {"run"}))
         /\ \A c \in 1..n : RunRotated(runtime_rounds(n, o), o, c)
<1>1. PICK m, K, Z : m = 1 + Samples /\ K = {"run"} /\ Z = Region("diagnostic", n, 1..n, K)
  OBVIOUS
<1>2. m \in Nat /\ Samples \in Nat
  BY <1>1, Settings
<1> DEFINE F == [i \in 1..m |-> runtime_schedule(n, o, i - 1)]
<1>3. runtime_rounds(n, o) = FlattenSeq(F)
  BY <1>1 DEF runtime_rounds
<1>4. DOMAIN F = 1..m /\ F = [i \in 1..m |-> F[i]] /\ \A i \in 1..m : F[i] = runtime_schedule(n, o, i - 1)
  OBVIOUS
<1> HIDE DEF F
<1>5. ASSUME NEW i \in 1..m PROVE Piece(F[i], Z) /\ EveryRole(F[i], n, o, RunPhase(i - 1))
  <2>1. PICK j \in Nat : j = i - 1
    BY <1>2
  <2>2. Piece(runtime_schedule(n, o, j), Region("diagnostic", n, 1..n, {"run"})) /\ EveryRole(runtime_schedule(n, o, j), n, o, RunPhase(j))
    BY RunRound
  <2> QED BY <1>1, <1>4, <2>1, <2>2
<1>6. F \in [1..m -> Seq(Z)] /\ Piece(FlattenSeq(F), Z)
  <2> DEFINE V == [i \in 1..m |-> Z]
  <2>1. \A i \in 1..m : V[i] = Z
    OBVIOUS
  <2> HIDE DEF V
  <2>2. \A i \in 1..m : Piece(F[i], V[i]) /\ V[i] \subseteq Z
    BY <1>5, <2>1
  <2>3. \A i, j \in 1..m : i < j => Peace(V[i], V[j])
    <3>1. Before(K, K)
      BY <1>1 DEF Before
    <3>2. Peace(Z, Z)
      BY <1>1, <3>1, RegionPeace
    <3> QED BY <2>1, <3>2
  <2> QED BY <1>2, <1>4, <2>2, <2>3, FlattenPiece
<1>7. F \in [1..m -> Seq(Z)]
  BY <1>6
<1>8. ASSUME NEW c \in 1..n PROVE RunRotated(FlattenSeq(F), o, c)
  <2> SUFFICES ASSUME NEW r \in ToSet(RolesOf(o, c))
               PROVE  /\ HitsOf(FlattenSeq(F), Class("run", c, r, Phases)) = m
                      /\ HitsOf(FlattenSeq(F), Class("run", c, r, Kept)) = m - 1
    BY <1>1, <1>2 DEF RunRotated
  <2>1. ASSUME NEW i \in 1..m, NEW P PROVE HitsOf(F[i], Class("run", c, r, P)) = IF RunPhase(i - 1) \in P THEN 1 ELSE 0
    <3>1. RoundIs(F[i], "run", c, ToSet(RolesOf(o, c)), RunPhase(i - 1))
      BY <1>5 DEF EveryRole
    <3> QED BY <3>1 DEF RoundIs
  <2>2. \A i \in 1..m : RunPhase(i - 1) \in Phases /\ (RunPhase(i - 1) \in Kept <=> i > 1)
    BY <1>2 DEF RunPhase, Phases, Kept
  <2>3. PICK X, Y : X = Class("run", c, r, Phases) /\ Y = Class("run", c, r, Kept)
    OBVIOUS
  <2>4. \A i \in 1..m : HitsOf(F[i], X) = 1 /\ HitsOf(F[i], Y) = IF i > 1 THEN 1 ELSE 0
    BY <2>1, <2>2, <2>3
  <2>5. HitsOf(FlattenSeq(F), X) = m
    <3>1. InEvery(F, m, X, 1) /\ 1 \in Nat
      BY <2>4 DEF InEvery
    <3>2. HitsOf(FlattenSeq(F), X) = m * 1
      BY <1>2, <1>7, <3>1, FlattenEach
    <3> QED BY <1>2, <3>2
  <2>6. HitsOf(FlattenSeq(F), Y) = m - 1
    <3> DEFINE G == [i \in 0..m |-> IF i <= 1 THEN 0 ELSE i - 1]
    <3>1. G[0] = 0 /\ G[m] = m - 1
      BY <1>1, <1>2
    <3>2. \A i \in 1..m : G[i] = G[i - 1] + HitsOf(F[i], Y)
      <4> SUFFICES ASSUME NEW i \in 1..m PROVE G[i] = G[i - 1] + HitsOf(F[i], Y)
        OBVIOUS
      <4>1. G[i] = (IF i <= 1 THEN 0 ELSE i - 1) /\ G[i - 1] = IF i - 1 <= 1 THEN 0 ELSE i - 1 - 1
        BY <1>2
      <4> HIDE DEF G
      <4> QED BY <1>2, <2>4, <4>1
    <3> HIDE DEF G
    <3>3. Sums(G, F, Y, m)
      BY <3>1, <3>2 DEF Sums
    <3>4. HitsOf(FlattenSeq(F), Y) = G[m]
      BY <1>2, <1>7, <3>3, FlattenHits
    <3> QED BY <3>1, <3>4
  <2> QED BY <2>3, <2>5, <2>6
<1> QED BY <1>1, <1>3, <1>6, <1>8

(* The compilers of a diagnostic are prepared before its applications.       *)
PreparedKinds == {"check", "generation"}

(* A check is in every region whose kinds have checks.                    *)
LEMMA CheckedWithin ==
  ASSUME NEW name, NEW n \in Nat, NEW c \in Nat, NEW what \in Texts, NEW K, {"check"} \subseteq K
  PROVE  Piece(Checked(c, what), Region(name, n, {c}, K))
<1>1. PICK C, L, s : C = {c} /\ L = {"check"} /\ s = Checked(c, what)
  OBVIOUS
<1>2. Piece(s, Region(name, n, C, L)) /\ C \subseteq C /\ L \subseteq K
  BY <1>1, CheckedPiece
<1>3. Piece(s, Region(name, n, C, K))
  BY <1>2, RegionWider
<1> QED BY <1>1, <1>3

(* One compiler of a diagnostic is prepared.                              *)
LEMMA PreparePiece ==
  ASSUME NEW n \in Nat, NEW o, NEW r \in ToSet(Roles)
  PROVE  Piece(prepare(o, r), Region("diagnostic", n, {0}, PreparedKinds))
<1>1. PICK K, C, k, Z : /\ K = PreparedKinds /\ C = {0} /\ k = (IF reuse(o) THEN 1 ELSE Generations)
                        /\ Z = Region("diagnostic", n, C, K)
  OBVIOUS
<1>2. PICK s1, s2, s3 : /\ s1 = (IF reuse(o) THEN verified_compiler ELSE <<>>)
                        /\ s2 = [g \in 1..k |-> Item("generation", 0, r, "none")]
                        /\ s3 = (IF reuse(o) THEN <<>> ELSE Checked(0, "fixed-point"))
  OBVIOUS
<1>3. prepare(o, r) = (s1 \o s2) \o s3
  BY <1>1, <1>2 DEF prepare
<1>4. Before(K, K) /\ {"check"} \subseteq K /\ 0 \in Nat
  BY <1>1 DEF Before, PreparedKinds
<1>5. Piece(s1, Z)
  <2>1. CASE reuse(o)
    <3>1. "parent-fixed-point" \in Texts
      BY DEF Texts
    <3>2. Piece(Checked(0, "parent-fixed-point"), Region("diagnostic", n, {0}, K))
      BY <1>4, <3>1, CheckedWithin
    <3> QED BY <1>1, <1>2, <2>1, <3>2 DEF verified_compiler
  <2>2. CASE ~reuse(o)
    <3>1. PICK none : none = <<>>
      OBVIOUS
    <3>2. Piece(none, Z)
      BY <3>1, PieceEmpty
    <3> QED BY <1>2, <2>2, <3>1, <3>2
  <2> QED BY <2>1, <2>2
<1>6. Piece(s3, Z)
  <2>1. CASE ~reuse(o)
    <3>1. "fixed-point" \in Texts
      BY DEF Texts
    <3>2. Piece(Checked(0, "fixed-point"), Region("diagnostic", n, {0}, K))
      BY <1>4, <3>1, CheckedWithin
    <3> QED BY <1>1, <1>2, <2>1, <3>2
  <2>2. CASE reuse(o)
    <3>1. PICK none : none = <<>>
      OBVIOUS
    <3>2. Piece(none, Z)
      BY <3>1, PieceEmpty
    <3> QED BY <1>2, <2>2, <3>1, <3>2
  <2> QED BY <2>1, <2>2
<1>7. Piece(s2, Z)
  <2>1. PICK x : x = Item("generation", 0, r, "none")
    OBVIOUS
  <2>2. x = [kind |-> "generation", case |-> 0, role |-> r, phase |-> "none"]
    BY <2>1 DEF Item
  <2>3. r \in Texts
    <3>1. ToSet(Roles) \subseteq Texts
      BY Zenon DEF Texts
    <3> QED BY <3>1
  <2>4. x \in Items
    BY <2>2, <2>3 DEF Items, Zone, ItemKinds, Phases, Runs
  <2>5. Key(x) \in KeysOf(n)
    BY <2>2 DEF Key, KeysOf
  <2>6. x \in Z
    BY <1>1, <2>2, <2>4, <2>5 DEF Region, Usual, PreparedKinds
  <2>7. k \in Nat
    BY <1>1, Settings
  <2>8. s2 \in Seq(Z) /\ DOMAIN s2 = 1..k /\ \A i \in 1..k : s2[i] = x
    <3>1. \A i \in 1..k : s2[i] = x
      BY <1>2, <2>1
    <3>2. s2 = [i \in 1..k |-> s2[i]]
      BY <1>2
    <3> QED BY <2>6, <2>7, <3>1, <3>2
  <2>9. Ordered(s2)
    BY <2>2, <2>8 DEF Ordered, Conflict
  <2> QED BY <2>8, <2>9 DEF Piece
<1>8. Piece(s1 \o s2, Z)
  BY <1>1, <1>4, <1>5, <1>7, SameConcat
<1>9. Piece((s1 \o s2) \o s3, Z)
  BY <1>1, <1>4, <1>6, <1>8, SameConcat
<1> QED BY <1>1, <1>3, <1>9

(* All of them are.                                                       *)
LEMMA PreparedPiece ==
  ASSUME NEW n \in Nat, NEW o
  PROVE  Piece(prepared(o), Region("diagnostic", n, {0}, PreparedKinds))
<1>1. PICK m, K, Z : m = Len(Roles) /\ K = PreparedKinds /\ Z = Region("diagnostic", n, {0}, K)
  OBVIOUS
<1>2. m \in Nat /\ DOMAIN Roles = 1..m /\ \A i \in 1..m : Roles[i] \in ToSet(Roles)
  BY <1>1, RolesAre
<1> DEFINE F == [i \in 1..m |-> IF reuse(o) /\ i = 1 THEN <<>> ELSE prepare(o, Roles[i])]
<1>3. prepared(o) = FlattenSeq(F)
  BY <1>2 DEF prepared
<1>4. DOMAIN F = 1..m /\ F = [i \in 1..m |-> F[i]] /\ \A i \in 1..m : F[i] = IF reuse(o) /\ i = 1 THEN <<>> ELSE prepare(o, Roles[i])
  OBVIOUS
<1> HIDE DEF F
<1>5. ASSUME NEW i \in 1..m PROVE Piece(F[i], Z)
  <2>1. PICK none : none = <<>>
    OBVIOUS
  <2>2. Piece(none, Z)
    BY <2>1, PieceEmpty
  <2>3. Piece(prepare(o, Roles[i]), Z)
    BY <1>1, <1>2, PreparePiece
  <2> QED BY <1>4, <2>1, <2>2, <2>3
<1>6. Piece(FlattenSeq(F), Z)
  <2> DEFINE V == [i \in 1..m |-> Z]
  <2>1. \A i \in 1..m : V[i] = Z
    OBVIOUS
  <2> HIDE DEF V
  <2>2. \A i \in 1..m : Piece(F[i], V[i]) /\ V[i] \subseteq Z
    BY <1>5, <2>1
  <2>3. \A i, j \in 1..m : i < j => Peace(V[i], V[j])
    <3>1. Before(K, K)
      BY <1>1 DEF Before, PreparedKinds
    <3>2. Peace(Z, Z)
      BY <1>1, <3>1, RegionPeace
    <3> QED BY <2>1, <3>2
  <2> QED BY <1>2, <1>4, <2>2, <2>3, FlattenPiece
<1> QED BY <1>1, <1>3, <1>6

(* The applications of a case are built, or verified when they are reused.   *)
BuiltKinds == {"check", "build"}
BuiltOnce(s, o, c) ==
    \A r \in ToSet(RolesOf(o, c)) :
      ~(reuse(o) /\ r = Roles[1]) => HitsOf(s, Class("build", c, r, Kept)) = 1

(* A piece of checks builds nothing.                                      *)
LEMMA NoChecks ==
  ASSUME NEW name, NEW n, NEW C, NEW s, Piece(s, Region(name, n, C, {"check"})), NEW c, NEW r, NEW P
  PROVE  HitsOf(s, Class("build", c, r, P)) = 0
<1>1. PICK K : K = {"check"} /\ "build" \notin K
  OBVIOUS
<1>2. Piece(s, Region(name, n, C, K))
  BY <1>1
<1> QED BY <1>1, <1>2, RegionApart

(* A check of a case, among its builds.                                   *)
LEMMA ChecksWithin ==
  ASSUME NEW n \in Nat, NEW c \in 1..n, NEW what \in Texts
  PROVE  /\ Piece(Checked(c, what), Region("diagnostic", n, {c}, BuiltKinds))
         /\ \A r, P : HitsOf(Checked(c, what), Class("build", c, r, P)) = 0
<1>1. PICK s, C : s = Checked(c, what) /\ C = {c}
  OBVIOUS
<1>2. Piece(s, Region("diagnostic", n, C, {"check"}))
  BY <1>1, CheckedPiece
<1>3. ASSUME NEW r, NEW P PROVE HitsOf(s, Class("build", c, r, P)) = 0
  BY <1>2, NoChecks
<1>4. {"check"} \subseteq BuiltKinds /\ c \in Nat
  BY DEF BuiltKinds
<1>5. Piece(Checked(c, what), Region("diagnostic", n, {c}, BuiltKinds))
  BY <1>4, CheckedWithin
<1> QED BY <1>1, <1>3, <1>5

(* One round of builds, among the checks of the case.                     *)
LEMMA RoundWithin ==
  ASSUME NEW n \in Nat, NEW c \in 1..n, NEW R, R \subseteq ToSet(Roles \o ControlRoles),
         NEW m \in Nat, NEW t, Arranged(t, R, m)
  PROVE  /\ Piece(OneRound("build", c, t, "retained"), Region("diagnostic", n, {c}, BuiltKinds))
         /\ RoundIs(OneRound("build", c, t, "retained"), "build", c, R, "retained")
<1>1. PICK kind, ph, C, K, s : kind = "build" /\ ph = "retained" /\ C = {c} /\ K = {kind} /\ s = OneRound(kind, c, t, ph)
  OBVIOUS
<1>2. kind \in Applications /\ ph \in Phases
  BY <1>1 DEF Applications, Phases
<1>3. Piece(OneRound(kind, c, t, ph), Region("diagnostic", n, {c}, {kind})) /\ RoundIs(OneRound(kind, c, t, ph), kind, c, R, ph)
  BY <1>2, RoundRegion
<1>4. Piece(s, Region("diagnostic", n, C, K)) /\ C \subseteq C /\ K \subseteq BuiltKinds
  BY <1>1, <1>3 DEF BuiltKinds
<1>5. Piece(s, Region("diagnostic", n, C, BuiltKinds))
  BY <1>4, RegionWider
<1> QED BY <1>1, <1>3, <1>5

(* The control is built once.                                             *)
LEMMA ControlsPiece ==
  ASSUME NEW n \in Nat, NEW c \in 1..n
  PROVE  /\ Piece(prepare_controls(c), Region("diagnostic", n, {c}, BuiltKinds))
         /\ RoundIs(prepare_controls(c), "build", c, Controls, "retained")
<1>1. PICK s1, s2, s3, K, C, Z : /\ s1 = Checked(c, "control-sources") /\ s2 = OneRound("build", c, ControlRoles, "retained")
                                 /\ s3 = Checked(c, "instructions") /\ K = BuiltKinds /\ C = {c} /\ Z = Region("diagnostic", n, C, K)
  OBVIOUS
<1>2. PICK u, s : u = s1 \o s2 /\ s = u \o s3 /\ prepare_controls(c) = s
  BY <1>1 DEF prepare_controls
<1>3. Piece(s1, Z) /\ \A r, P : HitsOf(s1, Class("build", c, r, P)) = 0
  <2>1. "control-sources" \in Texts
    BY DEF Texts
  <2> QED BY <1>1, <2>1, ChecksWithin
<1>4. Piece(s3, Z) /\ \A r, P : HitsOf(s3, Class("build", c, r, P)) = 0
  <2>1. "instructions" \in Texts
    BY DEF Texts
  <2> QED BY <1>1, <2>1, ChecksWithin
<1>5. Piece(s2, Z) /\ RoundIs(s2, "build", c, Controls, "retained")
  <2>1. Controls \subseteq ToSet(Roles \o ControlRoles)
    BY RolesControls DEF Controls
  <2>2. 1 \in Nat
    OBVIOUS
  <2> QED BY <1>1, <2>1, <2>2, ControlsArranged, RoundWithin
<1>6. Before(K, K)
  BY <1>1 DEF Before, BuiltKinds
<1>7. Piece(s1 \o s2, Z)
  BY <1>1, <1>3, <1>5, <1>6, SameConcat
<1>8. Piece(u \o s3, Z)
  BY <1>1, <1>2, <1>4, <1>6, <1>7, SameConcat
<1>9. \A X : HitsOf(s1 \o s2, X) = HitsOf(s1, X) + HitsOf(s2, X)
  BY <1>3, <1>5, PieceSum
<1>10. \A X : HitsOf(u \o s3, X) = HitsOf(u, X) + HitsOf(s3, X)
  BY <1>2, <1>4, <1>7, PieceSum
<1>11. ASSUME NEW r, NEW P PROVE HitsOf(s, Class("build", c, r, P)) = HitsOf(s2, Class("build", c, r, P))
  <2>1. HitsOf(s2, Class("build", c, r, P)) \in Nat
    BY <1>5, PieceHits
  <2>2. HitsOf(s, Class("build", c, r, P)) = 0 + HitsOf(s2, Class("build", c, r, P)) + 0
    BY <1>2, <1>3, <1>4, <1>9, <1>10
  <2> QED BY <2>1, <2>2
<1>12. RoundIs(s, "build", c, Controls, "retained")
  BY <1>5, <1>11 DEF RoundIs
<1> QED BY <1>1, <1>2, <1>8, <1>12

(* Each role of a case is built once, but for a reused one.               *)
LEMMA BuildsPiece ==
  ASSUME NEW n \in Nat, NEW o, NEW c \in 1..n
  PROVE  Piece(diagnostic_builds(o, c), Region("diagnostic", n, {c}, BuiltKinds)) /\ BuiltOnce(diagnostic_builds(o, c), o, c)
<1>1. PICK s1, s2, s3, s5, s4, K, Z : /\ s1 = source_case(c) /\ s2 = verified_program(o, c)
                                      /\ s3 = OneRound("build", c, IF reuse(o) THEN Tail(Roles) ELSE Roles, "retained")
                                      /\ s5 = emitted_code(c)
                                      /\ s4 = (IF HasControls(o, c) THEN prepare_controls(c) ELSE <<>>)
                                      /\ K = BuiltKinds /\ Z = Region("diagnostic", n, {c}, K)
  OBVIOUS
<1>2. PICK u, w, v, s : u = s1 \o s2 /\ w = u \o s3 /\ v = w \o s5 /\ s = v \o s4 /\ diagnostic_builds(o, c) = s
  BY <1>1 DEF diagnostic_builds
<1>3. PICK R, Q : /\ R = (IF reuse(o) THEN ToSet(Roles) \ {Roles[1]} ELSE ToSet(Roles))
                  /\ Q = (IF HasControls(o, c) THEN Controls ELSE {})
  OBVIOUS
<1>4. PICK none : none = <<>> /\ Piece(none, Z) /\ \A X : HitsOf(none, X) = 0
  BY PieceEmpty
<1>5. Piece(s1, Z) /\ \A r, P : HitsOf(s1, Class("build", c, r, P)) = 0
  <2>1. "source" \in Texts
    BY DEF Texts
  <2> QED BY <1>1, <2>1, ChecksWithin DEF source_case
<1>6. Piece(s2, Z) /\ \A r, P : HitsOf(s2, Class("build", c, r, P)) = 0
  <2>1. CASE reuse(o)
    <3>1. "identity" \in Texts
      BY DEF Texts
    <3>2. s2 = Checked(c, "identity")
      BY <1>1, <2>1 DEF verified_program
    <3> QED BY <1>1, <3>1, <3>2, ChecksWithin
  <2>2. CASE ~reuse(o)
    <3>1. s2 = none
      BY <1>1, <1>4, <2>2 DEF verified_program
    <3> QED BY <1>4, <3>1
  <2> QED BY <2>1, <2>2
<1>7. Piece(s5, Z) /\ \A r, P : HitsOf(s5, Class("build", c, r, P)) = 0
  <2>1. "emitted-code" \in Texts
    BY DEF Texts
  <2> QED BY <1>1, <2>1, ChecksWithin DEF emitted_code
<1>8. Piece(s3, Z) /\ RoundIs(s3, "build", c, R, "retained")
  <2>1. PICK t : t = IF reuse(o) THEN Tail(Roles) ELSE Roles
    OBVIOUS
  <2>2. \E m \in Nat : Arranged(t, R, m)
    <3>1. Len(Roles) \in Nat /\ Len(Roles) - 1 \in Nat
      BY RolesAre
    <3>2. CASE reuse(o)
      BY <1>3, <2>1, <3>1, <3>2, TailArranged
    <3>3. CASE ~reuse(o)
      BY <1>3, <2>1, <3>1, <3>3, RolesArranged
    <3> QED BY <3>2, <3>3
  <2>3. PICK m \in Nat : Arranged(t, R, m)
    BY <2>2
  <2>4. R \subseteq ToSet(Roles \o ControlRoles)
    BY <1>3, RolesControls
  <2>5. s3 = OneRound("build", c, t, "retained")
    BY <1>1, <2>1
  <2> QED BY <1>1, <2>3, <2>4, <2>5, RoundWithin
<1>9. Piece(s4, Z) /\ RoundIs(s4, "build", c, Q, "retained")
  <2>1. CASE HasControls(o, c)
    <3>1. s4 = prepare_controls(c) /\ Q = Controls
      BY <1>1, <1>3, <2>1
    <3> QED BY <1>1, <3>1, ControlsPiece
  <2>2. CASE ~HasControls(o, c)
    <3>1. s4 = none /\ Q = {}
      BY <1>1, <1>3, <1>4, <2>2
    <3> QED BY <1>4, <3>1 DEF RoundIs
  <2> QED BY <2>1, <2>2
<1>10. Before(K, K)
  BY <1>1 DEF Before, BuiltKinds
<1>11. Piece(u, Z) /\ \A X : HitsOf(u, X) = HitsOf(s1, X) + HitsOf(s2, X)
  <2>1. Piece(s1 \o s2, Z)
    BY <1>1, <1>5, <1>6, <1>10, SameConcat
  <2>2. \A X : HitsOf(s1 \o s2, X) = HitsOf(s1, X) + HitsOf(s2, X)
    BY <1>5, <1>6, PieceSum
  <2> QED BY <1>2, <2>1, <2>2
<1>12. Piece(w, Z) /\ \A X : HitsOf(w, X) = HitsOf(u, X) + HitsOf(s3, X)
  <2>1. Piece(u \o s3, Z)
    BY <1>1, <1>8, <1>10, <1>11, SameConcat
  <2>2. \A X : HitsOf(u \o s3, X) = HitsOf(u, X) + HitsOf(s3, X)
    BY <1>8, <1>11, PieceSum
  <2> QED BY <1>2, <2>1, <2>2
<1>13. Piece(v, Z) /\ \A X : HitsOf(v, X) = HitsOf(w, X) + HitsOf(s5, X)
  <2>1. Piece(w \o s5, Z)
    BY <1>1, <1>10, <1>7, <1>12, SameConcat
  <2>2. \A X : HitsOf(w \o s5, X) = HitsOf(w, X) + HitsOf(s5, X)
    BY <1>7, <1>12, PieceSum
  <2> QED BY <1>2, <2>1, <2>2
<1>14. Piece(s, Z) /\ \A X : HitsOf(s, X) = HitsOf(v, X) + HitsOf(s4, X)
  <2>1. Piece(v \o s4, Z)
    BY <1>1, <1>9, <1>10, <1>13, SameConcat
  <2>2. \A X : HitsOf(v \o s4, X) = HitsOf(v, X) + HitsOf(s4, X)
    BY <1>9, <1>13, PieceSum
  <2> QED BY <1>2, <2>1, <2>2
<1>15. BuiltOnce(s, o, c)
  <2> SUFFICES ASSUME NEW r \in ToSet(RolesOf(o, c)), ~(reuse(o) /\ r = Roles[1])
               PROVE  HitsOf(s, Class("build", c, r, Kept)) = 1
    BY DEF BuiltOnce
  <2>1. PICK X : X = Class("build", c, r, Kept)
    OBVIOUS
  <2>2. HitsOf(s, X) = 0 + 0 + HitsOf(s3, X) + 0 + HitsOf(s4, X)
    BY <1>5, <1>6, <1>11, <1>13, <1>14, <1>7, <1>12, <2>1
  <2>3. "retained" \in Kept
    BY DEF Kept
  <2>4. HitsOf(s3, X) = (IF r \in R THEN 1 ELSE 0) /\ HitsOf(s4, X) = IF r \in Q THEN 1 ELSE 0
    BY <1>8, <1>9, <2>1, <2>3 DEF RoundIs
  <2>5. ToSet(Roles) \cap Controls = {}
    BY RolesAre DEF Controls
  <2>6. r \in ToSet(Roles) \cup Q
    BY <1>3, RolesOfArranged
  <2>7. r \in R <=> r \notin Q
    BY <1>3, <2>5, <2>6
  <2> QED BY <2>1, <2>2, <2>4, <2>7
<1> QED BY <1>1, <1>2, <1>14, <1>15

(* Each case of a diagnostic is summarized once, at the end.              *)
LEMMA SummariesPiece ==
  ASSUME NEW n \in Nat
  PROVE  Piece(PerCase(n, Summary), Region("diagnostic", n, 1..n, {"summarize"})) /\ \A c \in 1..n : SummarizedOnce(PerCase(n, Summary), c)
<1> DEFINE F == [c \in 1..n |-> Summary(c)]
<1>1. \A c \in 1..n : F[c] = Summary(c)
  OBVIOUS
<1>2. DOMAIN F = 1..n /\ F = [c \in 1..n |-> F[c]] /\ PerCase(n, Summary) = FlattenSeq(F)
  BY DEF PerCase
<1> HIDE DEF F
<1>3. PICK K : K = {"summarize"}
  OBVIOUS
<1>4. InCases(F, "diagnostic", n, K)
  <2>1. ASSUME NEW c \in 1..n PROVE Piece(F[c], Region("diagnostic", n, {c}, K))
    BY <1>1, <1>3, SummaryPiece
  <2> QED BY <2>1 DEF InCases
<1>5. Piece(FlattenSeq(F), Region("diagnostic", n, 1..n, K)) /\ CaseByCase(FlattenSeq(F), F, n)
  BY <1>2, <1>4, CasesTogether
<1>6. ASSUME NEW c \in 1..n PROVE SummarizedOnce(FlattenSeq(F), c)
  <2>1. HitsOf(Summary(c), Class("summarize", c, "none", {"none"})) = 1
    BY SummaryPiece
  <2>2. HitsOf(FlattenSeq(F), Class("summarize", c, "none", {"none"})) = HitsOf(F[c], Class("summarize", c, "none", {"none"}))
    BY <1>5 DEF CaseByCase
  <2> QED BY <1>1, <2>1, <2>2 DEF SummarizedOnce
<1> QED BY <1>2, <1>3, <1>5, <1>6

(* The builds of all cases.                                               *)
LEMMA AllBuildsPiece ==
  ASSUME NEW n \in Nat, NEW o
  PROVE  /\ Piece(FlattenSeq([c \in 1..n |-> diagnostic_builds(o, c)]), Region("diagnostic", n, 1..n, BuiltKinds))
         /\ \A c \in 1..n : BuiltOnce(FlattenSeq([d \in 1..n |-> diagnostic_builds(o, d)]), o, c)
<1> DEFINE F == [c \in 1..n |-> diagnostic_builds(o, c)]
<1>1. \A c \in 1..n : F[c] = diagnostic_builds(o, c)
  OBVIOUS
<1>2. DOMAIN F = 1..n /\ F = [c \in 1..n |-> F[c]]
  OBVIOUS
<1>3. PICK G : G = F
  OBVIOUS
<1> HIDE DEF F
<1>4. InCases(G, "diagnostic", n, BuiltKinds)
  <2>1. ASSUME NEW c \in 1..n PROVE Piece(G[c], Region("diagnostic", n, {c}, BuiltKinds))
    BY <1>1, <1>3, BuildsPiece
  <2> QED BY <2>1 DEF InCases
<1>5. Piece(FlattenSeq(G), Region("diagnostic", n, 1..n, BuiltKinds)) /\ CaseByCase(FlattenSeq(G), G, n)
  BY <1>2, <1>3, <1>4, CasesTogether
<1>6. ASSUME NEW c \in 1..n PROVE BuiltOnce(FlattenSeq(G), o, c)
  <2>1. BuiltOnce(G[c], o, c)
    BY <1>1, <1>3, BuildsPiece
  <2>2. \A r : HitsOf(FlattenSeq(G), Class("build", c, r, Kept)) = HitsOf(G[c], Class("build", c, r, Kept))
    BY <1>5 DEF CaseByCase
  <2> QED BY <2>1, <2>2 DEF BuiltOnce
<1> QED BY <1>3, <1>5, <1>6 DEF F

(* The diagnostic schedule keeps to its shape and has every sample.       *)
LEMMA DiagnosticSchedule ==
  ASSUME NEW n \in Nat, NEW o
  PROVE  Shape(diagnostic(n, o), "diagnostic", n) /\ Counted(diagnostic(n, o), "diagnostic", n, o)
<1>1. PICK u1, u2, u3, u4, u5, u6, u7 :
        /\ u1 = validate_registration /\ u2 = diagnostic_context /\ u3 = (IF reuse(o) THEN load_reused ELSE <<>>)
        /\ u4 = prepared(o) /\ u5 = FlattenSeq([c \in 1..n |-> diagnostic_builds(o, c)])
        /\ u6 = runtime_rounds(n, o) /\ u7 = PerCase(n, Summary)
  OBVIOUS
<1>2. PICK v2, v3, v4, v5, v6, b, s :
        /\ v2 = u1 \o u2 /\ v3 = v2 \o u3 /\ v4 = v3 \o u4 /\ v5 = v4 \o u5 /\ v6 = v5 \o u6 /\ b = v6 \o u7 /\ s = b \o Finish
  OBVIOUS
<1>3. diagnostic(n, o) = s
  BY <1>1, <1>2 DEF diagnostic, runtime_rounds
<1>4. PICK C0, C, K1, K4, K5, K6, K7, Z1 :
        /\ C0 = {0} /\ C = 1..n /\ K1 = {"check"} /\ K4 = PreparedKinds /\ K5 = BuiltKinds /\ K6 = {"run"} /\ K7 = {"summarize"}
        /\ Z1 = Region("diagnostic", n, C0, K1)
  OBVIOUS
<1>5. Before(K1, K1)
  BY <1>4 DEF Before
<1>6. ASSUME NEW what \in Texts PROVE Piece(Checked(0, what), Z1)
  <2>1. 0 \in Nat
    OBVIOUS
  <2> QED BY <1>4, <2>1, CheckedPiece
<1>7. Piece(u1, Z1) /\ Piece(u2, Z1) /\ Piece(u3, Z1)
  <2>1. "registration" \in Texts /\ "host-and-seed" \in Texts /\ "provenance" \in Texts /\ "unpack" \in Texts
    BY DEF Texts
  <2>2. Piece(u1, Z1)
    BY <1>1, <1>6, <2>1 DEF validate_registration
  <2>3. Piece(u2, Z1)
    BY <1>1, <1>6, <2>1 DEF diagnostic_context
  <2>4. CASE reuse(o)
    <3>1. PICK x, y : x = Checked(0, "provenance") /\ y = Checked(0, "unpack")
      OBVIOUS
    <3>2. Piece(x, Z1) /\ Piece(y, Z1)
      BY <1>6, <2>1, <3>1
    <3>3. Piece(x \o y, Z1)
      BY <1>4, <1>5, <3>2, SameConcat
    <3> QED BY <1>1, <2>2, <2>3, <2>4, <3>1, <3>3 DEF load_reused
  <2>5. CASE ~reuse(o)
    <3>1. PICK none : none = <<>>
      OBVIOUS
    <3>2. Piece(none, Z1)
      BY <3>1, PieceEmpty
    <3> QED BY <1>1, <2>2, <2>3, <2>5, <3>1, <3>2
  <2> QED BY <2>4, <2>5
<1>8. Piece(v3, Z1)
  <2>1. Piece(v2, Z1)
    BY <1>2, <1>4, <1>5, <1>7, SameConcat
  <2> QED BY <1>2, <1>4, <1>5, <1>7, <2>1, SameConcat
<1>9. Piece(v4, Region("diagnostic", n, C0, K1 \cup K4))
  <2>1. Piece(u4, Region("diagnostic", n, C0, K4))
    BY <1>1, <1>4, PreparedPiece
  <2>2. Before(K1, K4)
    BY <1>4 DEF Before, PreparedKinds
  <2> QED BY <1>2, <1>4, <1>8, <2>1, <2>2, LocalConcat
<1>10. PICK L4 : L4 = K1 \cup K4
  OBVIOUS
<1>11. Piece(u5, Region("diagnostic", n, C, K5)) /\ \A c \in 1..n : BuiltOnce(u5, o, c)
  BY <1>1, <1>4, AllBuildsPiece
<1>12. Piece(u6, Region("diagnostic", n, C, K6)) /\ \A c \in 1..n : RunRotated(u6, o, c)
  BY <1>1, <1>4, RunRounds
<1>13. Piece(u7, Region("diagnostic", n, C, K7)) /\ \A c \in 1..n : SummarizedOnce(u7, c)
  BY <1>1, <1>4, SummariesPiece
<1>14. /\ C0 \cap C = {}
       /\ Before(L4 \cup K5, K6) /\ Before((L4 \cup K5) \cup K6, K7)
  BY <1>4, <1>10 DEF Before, PreparedKinds, BuiltKinds
<1>15. Piece(v5, Region("diagnostic", n, C0 \cup C, L4 \cup K5))
  BY <1>2, <1>9, <1>10, <1>11, <1>14, RegionConcat
<1>16. Piece(v6, Region("diagnostic", n, (C0 \cup C) \cup C, (L4 \cup K5) \cup K6))
  BY <1>2, <1>12, <1>14, <1>15, RegionConcat
<1>17. Piece(b, Region("diagnostic", n, ((C0 \cup C) \cup C) \cup C, ((L4 \cup K5) \cup K6) \cup K7))
  BY <1>2, <1>13, <1>14, <1>16, RegionConcat
<1>18. \A X : HitsOf(b, X) = HitsOf(v4, X) + HitsOf(u5, X) + HitsOf(u6, X) + HitsOf(u7, X)
  <2>1. \A X : HitsOf(v4 \o u5, X) = HitsOf(v4, X) + HitsOf(u5, X)
    BY <1>9, <1>11, PieceSum
  <2>2. \A X : HitsOf(v5 \o u6, X) = HitsOf(v5, X) + HitsOf(u6, X)
    BY <1>12, <1>15, PieceSum
  <2>3. \A X : HitsOf(v6 \o u7, X) = HitsOf(v6, X) + HitsOf(u7, X)
    BY <1>13, <1>16, PieceSum
  <2> QED BY <1>2, <2>1, <2>2, <2>3
<1>19. ASSUME NEW c \in 1..n, NEW kind \in {"build", "run", "summarize"}, NEW r, NEW P
       PROVE  /\ HitsOf(v4, Class(kind, c, r, P)) = 0
              /\ kind # "build" => HitsOf(u5, Class(kind, c, r, P)) = 0
              /\ kind # "run" => HitsOf(u6, Class(kind, c, r, P)) = 0
              /\ kind # "summarize" => HitsOf(u7, Class(kind, c, r, P)) = 0
              /\ HitsOf(u5, Class(kind, c, r, P)) \in Nat /\ HitsOf(u6, Class(kind, c, r, P)) \in Nat
              /\ HitsOf(u7, Class(kind, c, r, P)) \in Nat
              /\ HitsOf(s, Class(kind, c, r, P)) = HitsOf(b, Class(kind, c, r, P))
  <2>1. /\ c \notin C0 /\ (kind # "build" => kind \notin K5) /\ (kind # "run" => kind \notin K6) /\ (kind # "summarize" => kind \notin K7)
        /\ kind # "finish"
    BY <1>4 DEF BuiltKinds
  <2>2. HitsOf(v4, Class(kind, c, r, P)) = 0
    BY <1>9, <2>1, RegionApart
  <2>3. kind # "build" => HitsOf(u5, Class(kind, c, r, P)) = 0
    BY <1>11, <2>1, RegionApart
  <2>4. kind # "run" => HitsOf(u6, Class(kind, c, r, P)) = 0
    BY <1>12, <2>1, RegionApart
  <2>5. kind # "summarize" => HitsOf(u7, Class(kind, c, r, P)) = 0
    BY <1>13, <2>1, RegionApart
  <2>6. /\ HitsOf(u5, Class(kind, c, r, P)) \in Nat /\ HitsOf(u6, Class(kind, c, r, P)) \in Nat
        /\ HitsOf(u7, Class(kind, c, r, P)) \in Nat
    BY <1>11, <1>12, <1>13, PieceHits
  <2>7. HitsOf(b \o Finish, Class(kind, c, r, P)) = HitsOf(b, Class(kind, c, r, P))
    BY <1>17, <2>1, FinishClass
  <2> QED BY <1>2, <2>2, <2>3, <2>4, <2>5, <2>6, <2>7
<1>20. ASSUME NEW c \in 1..n, NEW r, NEW P
       PROVE  /\ HitsOf(s, Class("build", c, r, P)) = HitsOf(u5, Class("build", c, r, P))
              /\ HitsOf(s, Class("run", c, r, P)) = HitsOf(u6, Class("run", c, r, P))
              /\ HitsOf(b, Class("summarize", c, r, P)) = HitsOf(u7, Class("summarize", c, r, P))
  <2>1. /\ HitsOf(b, Class("build", c, r, P)) = 0 + HitsOf(u5, Class("build", c, r, P)) + 0 + 0
        /\ HitsOf(b, Class("run", c, r, P)) = 0 + 0 + HitsOf(u6, Class("run", c, r, P)) + 0
        /\ HitsOf(b, Class("summarize", c, r, P)) = 0 + 0 + 0 + HitsOf(u7, Class("summarize", c, r, P))
    BY <1>18, <1>19
  <2>2. /\ HitsOf(s, Class("build", c, r, P)) = HitsOf(b, Class("build", c, r, P))
        /\ HitsOf(s, Class("run", c, r, P)) = HitsOf(b, Class("run", c, r, P))
        /\ HitsOf(u5, Class("build", c, r, P)) \in Nat /\ HitsOf(u6, Class("run", c, r, P)) \in Nat
        /\ HitsOf(u7, Class("summarize", c, r, P)) \in Nat
    BY <1>19
  <2> QED BY <2>1, <2>2
<1>21. \A c \in 1..n : SummarizedOnce(b, c)
  BY <1>13, <1>20 DEF SummarizedOnce
<1>22. Shape(s, "diagnostic", n)
  BY <1>2, <1>17, <1>21, ShapeFrom
<1>23. ASSUME NEW c \in 1..n, NEW r \in ToSet(RolesOf(o, c))
       PROVE  /\ HitsOf(s, Class("run", c, r, Kept)) = Samples
              /\ HitsOf(s, Class("run", c, r, Phases)) = 1 + Samples
              /\ ~(reuse(o) /\ r = Roles[1]) => HitsOf(s, Class("build", c, r, Kept)) = 1
  BY <1>11, <1>12, <1>20 DEF RunRotated, BuiltOnce
<1>24. Counted(s, "diagnostic", n, o)
  BY <1>23 DEF Counted, RowKeepers, HitsOf
<1> QED BY <1>3, <1>22, <1>24

(***************************************************************************)
(* The schedules of the four programs.                                     *)
(***************************************************************************)
LEMMA ProgramShape ==
  ASSUME NEW name \in Snapshots, NEW n \in Nat, NEW o, name # "diagnostic" => o = {}
  PROVE  Shape(Program(name, n, o), name, n) /\ Counted(Program(name, n, o), name, n, o)
<1>1. CASE name = "daily"
  <2>1. Program(name, n, o) = daily(n) /\ o = {}
    BY <1>1 DEF Program
  <2> QED BY <1>1, <2>1, DailySchedule
<1>2. CASE name = "weekly"
  <2>1. Program(name, n, o) = weekly(n) /\ o = {}
    BY <1>2 DEF Program
  <2> QED BY <1>2, <2>1, WeeklySchedule
<1>3. CASE name = "representative"
  <2>1. Program(name, n, o) = representative(n) /\ o = {}
    BY <1>3 DEF Program
  <2> QED BY <1>3, <2>1, RepresentativeSchedule
<1>4. CASE name = "diagnostic"
  <2>1. Program(name, n, o) = diagnostic(n, o)
    BY <1>4 DEF Program
  <2> QED BY <1>4, <2>1, DiagnosticSchedule
<1> QED BY <1>1, <1>2, <1>3, <1>4 DEF Snapshots

(* Only the daily program compiles the compiler, and its manifest counts  *)
(* everything.                                                            *)
LEMMA ProgramDaily ==
  ASSUME NEW n \in Nat, NEW o
  PROVE  SelfCounted(Program("daily", n, o)) /\ AllCounted(Program("daily", n, o), n)
<1>1. Program("daily", n, o) = daily(n)
  BY DEF Program
<1> QED BY <1>1, DailySchedule

(***************************************************************************)
(* The program of a run.                                                   *)
(***************************************************************************)
LEMMA SameProgram ==
  ASSUME UNCHANGED <<controller, options>>
  PROVE  /\ Schedule' = Schedule /\ Cases' = Cases /\ CaseIds' = CaseIds /\ Keys' = Keys
         /\ Timed' = Timed
BY DEF Schedule, Cases, CaseIds, Keys, Timed

(* The schedule of this run has the shape of its program.                 *)
LEMMA ScheduleIs ==
  ASSUME controller \in Snapshots, CohortTypes
  PROVE  /\ Cases \in Nat /\ CaseIds = 1..Cases /\ Keys = KeysOf(Cases)
         /\ Shape(Schedule, controller, Cases) /\ Counted(Schedule, controller, Cases, options)
         /\ controller = "daily" => SelfCounted(Schedule) /\ AllCounted(Schedule, Cases)
<1>1. Cases \in Nat
  <2>1. CaseCount \in [Controllers -> Nat \ {0}] /\ controller \in Controllers
    BY MeasurementAssumption DEF CohortTypes
  <2> QED BY <2>1 DEF Cases
<1>2. CaseIds = 1..Cases
  BY DEF CaseIds
<1>3. Keys = KeysOf(Cases)
  BY DEF Keys, KeysOf, CaseIds
<1>4. controller # "diagnostic" => options = {}
  BY DEF CohortTypes
<1>5. PICK name, n, o : name = controller /\ n = Cases /\ o = options
  OBVIOUS
<1>6. Schedule = Program(name, n, o)
  BY <1>5 DEF Schedule
<1>7. Shape(Program(name, n, o), name, n) /\ Counted(Program(name, n, o), name, n, o)
  BY <1>1, <1>4, <1>5, ProgramShape
<1>8. SelfCounted(Program("daily", n, o)) /\ AllCounted(Program("daily", n, o), n)
  BY <1>1, <1>5, ProgramDaily
<1> QED BY <1>1, <1>2, <1>3, <1>5, <1>6, <1>7, <1>8

(* The items of a schedule, by their places.                                 *)
LEMMA ScheduleLength ==
  ASSUME controller \in Snapshots, CohortTypes
  PROVE  Schedule \in Seq(Items) /\ Len(Schedule) \in Nat /\ Len(Schedule) > 0 /\ DOMAIN Schedule = 1..Len(Schedule)
<1>1. PICK s, n : s = Schedule /\ Shape(s, controller, n)
  BY ScheduleIs
<1>2. s \in Seq(Items) /\ Len(s) > 0
  BY <1>1 DEF Shape
<1>3. Len(s) \in Nat /\ DOMAIN s = 1..Len(s)
  BY <1>2
<1> QED BY <1>1, <1>2, <1>3

(* An item of the schedule.                                               *)
LEMMA ScheduledAt ==
  ASSUME controller \in Snapshots, CohortTypes, NEW i \in 1..Len(Schedule)
  PROVE  /\ Schedule[i] \in Items
         /\ Schedule[i].kind = "finish" <=> i = Len(Schedule)
         /\ Schedule[i].kind \in Recorded => Key(Schedule[i]) \in Keys /\ Schedule[i] \in Observed(Cases)
         /\ Schedule[i].kind \in Recorded /\ Schedule[i].case # 0 => Schedule[i].kind \in {"build", "run"}
         /\ Schedule[i].kind = "manifest" => controller = "representative"
         /\ Schedule[i].kind = "summarize" => Schedule[i].case \in CaseIds
         /\ controller = "daily" /\ Schedule[i].kind = "probe" => Key(Schedule[i]) \in CaseIds \X ToSet(Roles)
<1>1. PICK s, n : s = Schedule /\ n = Cases /\ n \in Nat /\ CaseIds = 1..n /\ Keys = KeysOf(n) /\ Shape(s, controller, n)
  BY ScheduleIs
<1>2. s \in Seq(Items) /\ Len(s) \in Nat /\ i \in DOMAIN s
  BY <1>1, ScheduleLength
<1>3. s[i] \in Items
  BY <1>2
<1>4. s[i].kind = "finish" <=> i = Len(s)
  BY <1>1, <1>2 DEF Shape
<1>5. s[i].kind \in Recorded => Key(s[i]) \in KeysOf(n)
  BY <1>1, <1>2 DEF Shape
<1>6. s[i].kind = "manifest" => controller = "representative"
  BY <1>1, <1>2 DEF Shape
<1>7. s[i].kind = "summarize" => s[i].case \in 1..n
  BY <1>1, <1>2 DEF Shape
<1>8. controller = "daily" /\ s[i].kind = "probe" => Key(s[i]) \in (1..n) \X ToSet(Roles)
  BY <1>1, <1>2 DEF Shape
<1>9. ASSUME s[i].kind \in Recorded PROVE s[i] \in Observed(n)
  <2>1. PICK x : x = s[i]
    OBVIOUS
  <2>2. x \in Items /\ Key(x) \in KeysOf(n) /\ x.kind \in Recorded
    BY <1>3, <1>5, <1>9, <2>1
  <2>3. x \in Zone(Recorded, Nat, Texts)
    BY <2>2 DEF Items, Zone
  <2> QED BY <2>1, <2>2, <2>3 DEF Observed
<1>10. s[i].kind \in Recorded /\ s[i].case # 0 => s[i].kind \in {"build", "run"}
  BY <1>1, <1>2 DEF Shape
<1> QED BY <1>1, <1>3, <1>4, <1>5, <1>6, <1>7, <1>8, <1>9, <1>10

(* Two of them.                                                           *)
LEMMA ScheduledInOrder ==
  ASSUME controller \in Snapshots, CohortTypes, NEW i \in 1..Len(Schedule), NEW j \in 1..Len(Schedule), i < j
  PROVE  ~Conflict(Schedule[i], Schedule[j])
<1>1. PICK s, n : s = Schedule /\ Shape(s, controller, n)
  BY ScheduleIs
<1>2. i \in DOMAIN s /\ j \in DOMAIN s
  BY <1>1, ScheduleLength
<1>3. Ordered(s)
  BY <1>1 DEF Shape
<1> QED BY <1>1, <1>2, <1>3 DEF Ordered

(* The summary of each case is among them.                                *)
LEMMA ScheduledSummary ==
  ASSUME controller \in Snapshots, CohortTypes, NEW c \in CaseIds
  PROVE  \E i \in 1..Len(Schedule) : Schedule[i] = Summary(c)[1]
<1>1. PICK s, n : s = Schedule /\ CaseIds = 1..n /\ Shape(s, controller, n)
  BY ScheduleIs
<1>2. \E i \in DOMAIN s : s[i] = Summary(c)[1]
  BY <1>1 DEF Shape
<1> QED BY <1>1, <1>2, ScheduleLength

(* The next item of the schedule, and what is left when it has been taken.   *)
LEMMA HeadOfRest ==
  ASSUME controller \in Snapshots, CohortTypes, RestOfSchedule
  PROVE  /\ taken \in Nat /\ taken <= Len(Schedule) /\ Len(todo) = Len(Schedule) - taken /\ Len(Schedule) \in Nat
         /\ Going <=> taken < Len(Schedule)
         /\ Going => Head(todo) = Schedule[taken + 1] /\ taken + 1 \in 1..Len(Schedule)
<1>1. todo \in Seq(Items) /\ Len(todo) \in Nat
  BY DEF CohortTypes
<1>2. Len(Schedule) \in Nat
  BY ScheduleLength
<1>3. todo # <<>> <=> Len(todo) > 0
  BY <1>1
<1>4. taken \in Nat /\ taken <= Len(Schedule) /\ Len(todo) = Len(Schedule) - taken
  BY <1>1, <1>2 DEF taken, RestOfSchedule
<1>5. ASSUME todo # <<>> PROVE Head(todo) = Schedule[taken + 1]
  <2>1. Head(todo) = todo[1] /\ 1 \in 1..Len(todo)
    BY <1>1, <1>3, <1>5
  <2> QED BY <2>1 DEF RestOfSchedule
<1> QED BY <1>1, <1>2, <1>3, <1>4, <1>5 DEF Going

(* After an item is taken the rest is still the rest.                     *)
LEMMA TailOfRest ==
  ASSUME controller \in Snapshots, CohortTypes, RestOfSchedule, Going,
         UNCHANGED <<controller, options>>, todo' = Tail(todo)
  PROVE  taken' = taken + 1 /\ RestOfSchedule' /\ todo' \in Seq(Items)
<1>1. todo \in Seq(Items) /\ todo # <<>> /\ Len(todo) \in Nat /\ Len(todo) > 0 /\ Len(Schedule) \in Nat
  BY ScheduleLength DEF CohortTypes, Going
<1>2. Schedule' = Schedule
  BY SameProgram
<1>3. /\ Tail(todo) \in Seq(Items) /\ Len(Tail(todo)) = Len(todo) - 1
      /\ \A i \in 1..Len(Tail(todo)) : Tail(todo)[i] = todo[i + 1]
  BY <1>1, HeadTailProperties
<1>4. taken' = taken + 1
  BY <1>1, <1>2, <1>3 DEF taken
<1>5. taken \in Nat
  BY HeadOfRest
<1>6. ASSUME NEW i \in 1..Len(todo') PROVE todo'[i] = Schedule[taken' + i]
  <2>1. i + 1 \in 1..Len(todo) /\ todo'[i] = todo[i + 1]
    BY <1>1, <1>3
  <2>2. todo[i + 1] = Schedule[taken + (i + 1)]
    BY <2>1 DEF RestOfSchedule
  <2>3. taken + (i + 1) = (taken + 1) + i
    BY <1>5
  <2> QED BY <1>4, <2>1, <2>2, <2>3
<1>7. Len(todo') <= Len(Schedule)
  BY <1>1, <1>3 DEF RestOfSchedule
<1> QED BY <1>2, <1>3, <1>4, <1>6, <1>7 DEF RestOfSchedule

(* What the steps do with the place in the schedule.  Most leave it alone;   *)
(* others pass over the next item, begin to observe it, stop the program, or *)
(* record what was observed.                                                 *)
Quiet ==
  /\ UNCHANGED cohort
  /\ obs'.stage = "none" <=> obs.stage = "none"
  /\ obs'.item = obs.item /\ obs'.status \in Statuses
Passes ==
  /\ UNCHANGED <<controller, options, row, raw, coverage, binary, obs>>
  /\ Going /\ obs.stage = "none" /\ todo' = Tail(todo)
  /\ Head(todo).kind \in Recorded => controller \in RowKeepers /\ row[Key(Head(todo))] # "pass"
Begins ==
  /\ UNCHANGED <<controller, options, row, raw, coverage, binary, rows, disk>>
  /\ Going /\ obs.stage = "none" /\ todo' = Tail(todo)
  /\ Head(todo).kind \in Runs /\ (controller \in RowKeepers => row[Key(Head(todo))] = "pass")
  /\ obs'.stage # "none" /\ obs'.item = Head(todo) /\ obs'.status \in Statuses
Stops ==
  /\ UNCHANGED <<controller, options, row, raw, coverage, binary, rows>>
  /\ Going /\ todo' = <<>> /\ obs'.stage = "none" /\ obs'.status \in Statuses
  /\ disk'.status \in {disk.status, "failed", "torn"}
  /\ disk'.rows \in {disk.rows, rows} /\ disk' = [status |-> disk'.status, rows |-> disk'.rows]
  /\ disk'.status # disk.status \/ disk'.rows # disk.rows => disk.status = "running"

(* The process group, its timer and a call under way move nothing else.   *)
LEMMA QuietSteps ==
  ASSUME ObserveInv, CohortTypes,
         Fork \/ Exit \/ ChildExit \/ TimerSet \/ TimerKill \/ Reap \/ LoopEnd \/ LoopStop \/ LoopJoin
         \/ Classify \/ Cleanup \/ Done \/ UNCHANGED vars
  PROVE  Quiet
<1>1. DOMAIN obs = {"stage", "item", "timer", "expired", "terminated", "status"} /\ obs.status \in Statuses
  BY DEF ObserveInv, ObserveTypes, CohortTypes
<1>2. CASE Fork \/ Exit \/ ChildExit
  BY <1>1, <1>2 DEF Fork, Exit, ChildExit, Quiet
<1>3. CASE TimerSet \/ TimerKill
  BY <1>1, <1>3 DEF TimerSet, TimerKill, Quiet
<1>4. CASE Reap
  <2>1. proc.leader = "zombie" /\ obs.stage # "none"
    BY <1>4 DEF Reap, ObserveInv, LeaderFollows
  <2> QED BY <1>1, <1>4, <2>1 DEF Reap, Quiet
<1>5. CASE LoopEnd \/ LoopJoin
  BY <1>1, <1>5 DEF LoopEnd, LoopJoin, Quiet
<1>6. CASE LoopStop
  <2>1. PICK s \in {"timeout", "output-limit"} :
          obs' = [obs EXCEPT !.stage = "joining", !.status = s, !.terminated = TRUE]
    BY <1>6 DEF LoopStop
  <2>2. s \in Statuses
    BY DEF Statuses
  <2> QED BY <1>1, <1>6, <2>1, <2>2 DEF LoopStop, Quiet
<1>7. CASE Classify
  <2>1. UNCHANGED cohort /\ obs.stage = "exited"
    BY <1>7 DEF Classify
  <2>2. PICK s \in Statuses : obs' = [obs EXCEPT !.stage = "classified", !.status = s]
    <3>1. PICK s : s = IF obs.expired THEN "timeout"
                       ELSE IF obs.status = "pass" /\ proc.code # 0 THEN "nonzero-exit" ELSE obs.status
      OBVIOUS
    <3>2. s \in Statuses /\ "missing-resource-observation" \in Statuses
      BY <1>1, <3>1 DEF Statuses
    <3>3. \/ obs' = [obs EXCEPT !.stage = "classified", !.status = s]
          \/ obs' = [obs EXCEPT !.stage = "classified", !.status = "missing-resource-observation"]
      BY <1>7, <3>1 DEF Classify
    <3> QED BY <3>2, <3>3, Zenon
  <2> QED BY <1>1, <2>1, <2>2 DEF Quiet
<1>8. CASE Cleanup
  BY <1>1, <1>8 DEF Cleanup, Returned, Quiet
<1>9. CASE Done \/ UNCHANGED vars
  BY <1>1, <1>9 DEF Done, vars, cohort, Quiet
<1> QED BY <1>2, <1>3, <1>4, <1>5, <1>6, <1>7, <1>8, <1>9

(* An item that observes nothing is taken.                                *)
LEMMA PassSteps ==
  ASSUME CohortTypes, Skip \/ Check \/ Summarize \/ Write
  PROVE  Passes
<1>1. CASE Skip
  <2>1. controller \in RowKeepers /\ row[Key(Head(todo))] # "pass"
    BY <1>1 DEF Skip, Skipped, RowKeepers
  <2> QED BY <1>1, <2>1 DEF Skip, Passes, Going
<1>2. CASE Check
  <2>1. Head(todo).kind \notin Recorded
    BY <1>2 DEF Check, Recorded, Runs
  <2> QED BY <1>2, <2>1 DEF Check, Passes, Going
<1>3. CASE Summarize
  <2>1. Head(todo).kind \notin Recorded
    BY <1>3 DEF Summarize, Recorded, Runs
  <2> QED BY <1>3, <2>1 DEF Summarize, Passes, Going
<1>4. CASE Write
  <2>1. todo = Finish /\ todo # <<>> /\ Head(todo) = Finish[1] /\ Tail(todo) = <<>>
    BY <1>4 DEF Write, Finish
  <2>2. Head(todo).kind \notin Recorded
    BY <2>1 DEF Finish, Item, Recorded, Runs
  <2> QED BY <1>4, <2>1, <2>2 DEF Write, Passes, Going
<1> QED BY <1>1, <1>2, <1>3, <1>4

(* The next item is begun.                                                *)
LEMMA BeginsNext ==
  ASSUME Begin
  PROVE  Begins
<1>1. "pass" \in Statuses
  BY DEF Statuses
<1>2. \A i, t : LET o == [NoObs EXCEPT !.stage = "running", !.item = i, !.timer = t]
                IN o.stage = "running" /\ o.item = i /\ o.status = "pass"
  BY DEF NoObs
<1>3. Head(todo).kind \in Runs /\ ~Skipped(Head(todo))
  BY DEF Begin
<1>4. controller \in RowKeepers => row[Key(Head(todo))] = "pass"
  BY <1>3 DEF Skipped, RowKeepers
<1>5. obs'.stage = "running" /\ obs'.item = Head(todo) /\ obs'.status = "pass"
  BY <1>2 DEF Begin
<1> QED BY <1>1, <1>3, <1>4, <1>5 DEF Begin, Begins, Going

(* The program or its runner is lost.                                     *)
LEMMA StopSteps ==
  ASSUME CohortTypes, RaiseOutside \/ Lost
  PROVE  Stops
<1>1. obs' = NoObs /\ obs'.stage = "none" /\ obs'.status = "pass" /\ "pass" \in Statuses
  BY DEF RaiseOutside, Lost, NoObs, Statuses
<1>2. disk = [status |-> disk.status, rows |-> disk.rows]
  BY DEF CohortTypes
<1>3. CASE RaiseOutside
  <2>1. disk' = IF disk.status = "running" THEN [status |-> "failed", rows |-> rows] ELSE disk
    BY <1>3 DEF RaiseOutside, Raise
  <2>2. /\ disk'.status \in {disk.status, "failed", "torn"}
        /\ disk'.rows \in {disk.rows, rows} /\ disk' = [status |-> disk'.status, rows |-> disk'.rows]
        /\ disk'.status # disk.status \/ disk'.rows # disk.rows => disk.status = "running"
    BY <1>2, <2>1
  <2> QED BY <1>1, <1>3, <2>2 DEF RaiseOutside, Raise, Stops, Going
<1>4. CASE Lost
  <2>1. disk' \in IF disk.status = "running" THEN {disk, [disk EXCEPT !.status = "torn"]} ELSE {disk}
    BY <1>4 DEF Lost
  <2>2. [disk EXCEPT !.status = "torn"] = [status |-> "torn", rows |-> disk.rows]
    BY <1>2
  <2>3. /\ disk'.status \in {disk.status, "failed", "torn"}
        /\ disk'.rows \in {disk.rows, rows} /\ disk' = [status |-> disk'.status, rows |-> disk'.rows]
        /\ disk'.status # disk.status \/ disk'.rows # disk.rows => disk.status = "running"
    BY <1>2, <2>1, <2>2
  <2> QED BY <1>1, <1>4, <2>3 DEF Lost, Stops, Going
<1> QED BY <1>3, <1>4

(* The place in the schedule after a step of each sort.                      *)
RowTypes == row \in [Keys -> Statuses] /\ raw \in Seq(Observations) /\ disk = [status |-> disk.status, rows |-> disk.rows]

(* The types hold when those of the records do.                           *)
LEMMA TypesKept ==
  ASSUME CohortTypes, UNCHANGED <<controller, options>>, todo' \in Seq(Items), RowTypes', obs'.status \in Statuses
  PROVE  CohortTypes'
BY DEF CohortTypes, RowTypes

(* They do when no record changes.                                        *)
LEMMA RowTypesKept ==
  ASSUME CohortTypes, UNCHANGED <<controller, options, row, raw, disk>>
  PROVE  RowTypes'
<1>1. Keys' = Keys
  BY SameProgram
<1> QED BY <1>1 DEF CohortTypes, RowTypes

(* The place stays.                                                       *)
LEMMA QuietPlace ==
  ASSUME controller \in Snapshots, PlaceInv, Quiet
  PROVE  PlaceInv' /\ taken' = taken /\ over' = over
<1>1. UNCHANGED <<controller, options, todo, row, raw, coverage, binary, rows, disk>>
  BY DEF Quiet, cohort
<1>2. Schedule' = Schedule /\ RowTypes'
  BY <1>1, SameProgram, RowTypesKept DEF PlaceInv
<1>3. CohortTypes'
  BY <1>1, <1>2, TypesKept DEF Quiet, PlaceInv, CohortTypes
<1>4. taken' = taken /\ over' = over
  BY <1>1, <1>2 DEF taken, over, Quiet
<1>5. RestOfSchedule'
  BY <1>1, <1>2, <1>4 DEF RestOfSchedule, PlaceInv
<1>6. InFlight'
  BY <1>1, <1>2, <1>4 DEF InFlight, PlaceInv, Quiet, Going
<1> QED BY <1>3, <1>4, <1>5, <1>6 DEF PlaceInv

(* One more item is over.                                                 *)
LEMMA PassPlace ==
  ASSUME controller \in Snapshots, PlaceInv, Passes, disk' = [status |-> disk'.status, rows |-> disk'.rows]
  PROVE  PlaceInv' /\ taken' = taken + 1 /\ over = taken /\ over' = taken + 1
<1>1. UNCHANGED <<controller, options, row, raw, obs>> /\ Going /\ obs.stage = "none" /\ todo' = Tail(todo)
  BY DEF Passes
<1>2. taken' = taken + 1 /\ RestOfSchedule' /\ todo' \in Seq(Items)
  BY <1>1, TailOfRest DEF PlaceInv
<1>3. RowTypes'
  BY <1>1, SameProgram DEF RowTypes, PlaceInv, CohortTypes
<1>4. CohortTypes'
  BY <1>1, <1>2, <1>3, TypesKept DEF PlaceInv, CohortTypes
<1>5. over = taken /\ over' = taken + 1
  BY <1>1, <1>2 DEF over
<1>6. InFlight'
  BY <1>1 DEF InFlight
<1> QED BY <1>2, <1>4, <1>5, <1>6 DEF PlaceInv

(* One more is taken, and not over.                                       *)
LEMMA BeginPlace ==
  ASSUME controller \in Snapshots, PlaceInv, Begins
  PROVE  PlaceInv' /\ Going' /\ taken' = taken + 1 /\ over' = over /\ over = taken
<1>1. /\ UNCHANGED <<controller, options, row, raw, disk>> /\ Going /\ obs.stage = "none" /\ todo' = Tail(todo)
      /\ obs'.stage # "none" /\ obs'.item = Head(todo) /\ obs'.status \in Statuses
      /\ Head(todo).kind \in Runs /\ (controller \in RowKeepers => row[Key(Head(todo))] = "pass")
  BY DEF Begins
<1>2. taken' = taken + 1 /\ RestOfSchedule' /\ todo' \in Seq(Items)
  BY <1>1, TailOfRest DEF PlaceInv
<1>3. RowTypes'
  BY <1>1, RowTypesKept DEF PlaceInv
<1>4. CohortTypes'
  BY <1>1, <1>2, <1>3, TypesKept DEF PlaceInv
<1>5. taken \in Nat /\ Head(todo) = Schedule[taken + 1] /\ taken + 1 \in 1..Len(Schedule)
  BY <1>1, HeadOfRest DEF PlaceInv
<1>6. over = taken /\ over' = over
  BY <1>1, <1>2, <1>5 DEF over
<1>7. Schedule[taken + 1].kind # "finish"
  BY <1>1, <1>5 DEF Runs
<1>8. taken + 1 # Len(Schedule) /\ Len(Schedule) \in Nat
  <2>1. PICK i \in 1..Len(Schedule) : i = taken + 1
    BY <1>5
  <2>2. Schedule[i].kind = "finish" <=> i = Len(Schedule)
    BY ScheduledAt DEF PlaceInv
  <2> QED BY <1>7, <2>1, <2>2, ScheduleLength DEF PlaceInv
<1>9. Going'
  <2>1. Len(todo) = Len(Schedule) - taken /\ todo \in Seq(Items) /\ todo # <<>>
    BY <1>1, HeadOfRest DEF PlaceInv, CohortTypes, Going
  <2>2. Len(Tail(todo)) = Len(todo) - 1
    BY <2>1, HeadTailProperties
  <2>3. Len(todo') > 0
    BY <1>1, <1>5, <1>8, <2>1, <2>2
  <2> QED BY <1>2, <2>3 DEF Going
<1>10. Schedule' = Schedule
  BY <1>1, SameProgram
<1>11. InFlight'
  BY <1>1, <1>2, <1>5, <1>9, <1>10 DEF InFlight
<1> QED BY <1>2, <1>4, <1>6, <1>9, <1>11 DEF PlaceInv

(* Nothing is left of the schedule, and nothing is published.             *)
LEMMA StopPlace ==
  ASSUME controller \in Snapshots, PlaceInv, Stops, ~Published
  PROVE  PlaceInv' /\ ~Going' /\ ~Published'
<1>1. /\ UNCHANGED <<controller, options, row, raw>> /\ todo' = <<>> /\ obs'.stage = "none" /\ obs'.status \in Statuses
      /\ disk' = [status |-> disk'.status, rows |-> disk'.rows]
  BY DEF Stops
<1>2. RowTypes'
  BY <1>1, SameProgram DEF RowTypes, PlaceInv, CohortTypes
<1>3. todo' \in Seq(Items) /\ Len(todo') = 0
  BY <1>1
<1>4. CohortTypes'
  BY <1>1, <1>2, <1>3, TypesKept DEF PlaceInv
<1>5. RestOfSchedule'
  <2>1. Schedule' = Schedule /\ Len(Schedule) \in Nat
    BY <1>1, SameProgram, ScheduleLength DEF PlaceInv
  <2> QED BY <1>3, <2>1 DEF RestOfSchedule
<1>6. InFlight'
  BY <1>1 DEF InFlight
<1>7. ~Published'
  BY DEF Stops, Published
<1> QED BY <1>1, <1>4, <1>5, <1>6, <1>7 DEF PlaceInv, Going

(* What the program notes of an observation: its status s, and which of two  *)
(* binaries a self compilation wrote.                                        *)
Raises(s) == s # "pass" /\ controller \in {"representative", "diagnostic", "hash"}
Noted(s, d) ==
  /\ UNCHANGED <<controller, options, rows>>
  /\ s \in Statuses /\ obs.stage = "returned" /\ obs'.stage = "none" /\ obs'.status \in Statuses
  /\ obs.item.kind = "compiler-self" => d # 0
  /\ binary' = IF obs.item.kind = "compiler-self" /\ s = "pass" THEN d ELSE binary
  /\ obs.item.kind = "probe" => UNCHANGED <<raw, row>> /\ (coverage' = coverage \/ coverage' = coverage \cup {Key(obs.item)})
  /\ obs.item.kind # "probe" =>
       /\ raw' = Append(raw, Taken(obs.item, s)) /\ UNCHANGED coverage
       /\ row' = [row EXCEPT ![Key(obs.item)] = IF @ = "pass" THEN s ELSE @]
  /\ IF Raises(s) THEN Raise ELSE UNCHANGED <<todo, disk>>

(* Record notes one observation.                                          *)
LEMMA RecordNotes ==
  ASSUME CohortTypes, Record
  PROVE  \E s, d : Noted(s, d)
<1>1. PICK t \in Outcomes(obs.status), d \in (IF obs.item.kind = "compiler-self" THEN {1, 2} ELSE {0}) :
        LET i == obs.item
            s == IF i.kind = "compiler-self" THEN SelfStatus(t, d) ELSE t
            raises == s # "pass" /\ controller \in {"representative", "diagnostic", "hash"}
        IN /\ failures' = failures + IF t # obs.status THEN 1 ELSE 0
           /\ binary' = IF i.kind = "compiler-self" /\ s = "pass" THEN d ELSE binary
           /\ IF i.kind = "probe"
              THEN coverage' = (IF s = "pass" THEN coverage \cup {Key(i)} ELSE coverage) /\ UNCHANGED <<raw, row>>
              ELSE /\ raw' = Append(raw, Taken(i, s)) /\ row' = [row EXCEPT ![Key(i)] = IF @ = "pass" THEN s ELSE @]
                   /\ UNCHANGED coverage
           /\ IF raises THEN Raise ELSE UNCHANGED <<todo, disk>>
  BY DEF Record
<1>2. PICK s : s = IF obs.item.kind = "compiler-self" THEN SelfStatus(t, d) ELSE t
  OBVIOUS
<1>3. s \in Statuses
  <2>1. obs.status \in Statuses /\ "pass" \in Statuses /\ "output-mismatch" \in Statuses
    BY DEF CohortTypes, Statuses
  <2>2. t \in Statuses
    BY <2>1 DEF Outcomes
  <2> QED BY <1>2, <2>1, <2>2 DEF SelfStatus
<1>4. /\ UNCHANGED <<controller, options, rows>> /\ obs.stage = "returned"
      /\ obs'.stage = "none" /\ obs'.status \in Statuses
  BY DEF Record, NoObs, Statuses
<1>5. obs.item.kind = "compiler-self" => d # 0
  OBVIOUS
<1>6. binary' = IF obs.item.kind = "compiler-self" /\ s = "pass" THEN d ELSE binary
  BY <1>1, <1>2
<1>7. obs.item.kind = "probe" => UNCHANGED <<raw, row>> /\ (coverage' = coverage \/ coverage' = coverage \cup {Key(obs.item)})
  BY <1>1
<1>8. obs.item.kind # "probe" =>
        /\ raw' = Append(raw, Taken(obs.item, s)) /\ UNCHANGED coverage
        /\ row' = [row EXCEPT ![Key(obs.item)] = IF @ = "pass" THEN s ELSE @]
  BY <1>1, <1>2
<1>9. IF Raises(s) THEN Raise ELSE UNCHANGED <<todo, disk>>
  BY <1>1, <1>2 DEF Raises
<1>10. Noted(s, d)
  BY <1>3, <1>4, <1>5, <1>6, <1>7, <1>8, <1>9 DEF Noted
<1> QED BY <1>10

(* The observed item has its place in the schedule, and what is noted of it  *)
(* goes to the row of its key.                                               *)
LEMMA ObservedItem ==
  ASSUME controller \in Snapshots, PlaceInv, obs.stage # "none"
  PROVE  /\ taken \in 1..Len(Schedule) /\ over + 1 = taken /\ over \in Nat /\ Going
         /\ obs.item = Schedule[taken] /\ obs.item.kind \in Runs
         /\ obs.item.kind # "probe" =>
              obs.item.kind \in Recorded /\ Key(obs.item) \in Keys /\ obs.item \in Observed(Cases)
<1>1. obs.item = Schedule[taken] /\ obs.item.kind \in Runs /\ taken > 0 /\ Going
  BY DEF PlaceInv, InFlight
<1>2. taken \in Nat /\ taken <= Len(Schedule) /\ Len(Schedule) \in Nat
  BY HeadOfRest DEF PlaceInv
<1>3. taken \in 1..Len(Schedule) /\ over = taken - 1
  BY <1>1, <1>2 DEF over
<1>4. PICK i \in 1..Len(Schedule) : i = taken
  BY <1>3
<1>5. Schedule[i].kind \in Recorded => Key(Schedule[i]) \in Keys /\ Schedule[i] \in Observed(Cases)
  BY ScheduledAt DEF PlaceInv
<1>6. over + 1 = taken /\ over \in Nat
  BY <1>1, <1>2, <1>3
<1> QED BY <1>1, <1>3, <1>4, <1>5, <1>6 DEF Recorded

(* The row of the item fails with its first failure, and no other row     *)
(* changes.                                                               *)
LEMMA NotedRow ==
  ASSUME controller \in Snapshots, PlaceInv, NEW s, NEW d, Noted(s, d), obs.item.kind # "probe"
  PROVE  /\ row' \in [Keys -> Statuses]
         /\ row'[Key(obs.item)] = (IF row[Key(obs.item)] = "pass" THEN s ELSE row[Key(obs.item)])
         /\ \A k \in Keys : k # Key(obs.item) => row'[k] = row[k]
<1>1. Key(obs.item) \in Keys /\ row \in [Keys -> Statuses]
  BY ObservedItem DEF Noted, PlaceInv, CohortTypes
<1>2. PICK k : k = Key(obs.item)
  OBVIOUS
<1>3. row' = [row EXCEPT ![k] = IF @ = "pass" THEN s ELSE @] /\ s \in Statuses
  BY <1>2 DEF Noted
<1>4. row[k] \in Statuses
  BY <1>1, <1>2
<1>5. row' = [row EXCEPT ![k] = IF row[k] = "pass" THEN s ELSE row[k]]
  BY <1>3
<1>6. (IF row[k] = "pass" THEN s ELSE row[k]) \in Statuses
  BY <1>3, <1>4
<1> QED BY <1>1, <1>2, <1>5, <1>6

(* No row that has failed passes again.                                      *)
LEMMA RowsStayFailed ==
  ASSUME controller \in Snapshots, PlaceInv, NEW s, NEW d, Noted(s, d), NEW k \in Keys
  PROVE  row[k] # "pass" => row'[k] = row[k]
<1>1. CASE obs.item.kind = "probe"
  BY <1>1 DEF Noted
<1>2. CASE obs.item.kind # "probe"
  BY <1>2, NotedRow
<1> QED BY <1>1, <1>2

(* The observation is appended.                                           *)
LEMMA NotedRaw ==
  ASSUME controller \in Snapshots, PlaceInv, NEW s, NEW d, Noted(s, d), obs.item.kind # "probe"
  PROVE  /\ raw' \in Seq(Observations) /\ Len(raw') = Len(raw) + 1 /\ Len(raw) \in Nat
         /\ \A j \in 1..Len(raw) : raw'[j] = raw[j]
         /\ raw'[Len(raw) + 1] = Taken(obs.item, s)
<1>1. raw \in Seq(Observations) /\ raw' = Append(raw, Taken(obs.item, s)) /\ s \in Statuses
  BY DEF Noted, PlaceInv, CohortTypes
<1>2. obs.item \in Zone(Recorded, Nat, Texts)
  BY ObservedItem DEF Noted, Observed
<1>3. PICK t : t = Taken(obs.item, s)
  OBVIOUS
<1>4. t \in Observations
  BY <1>1, <1>2, <1>3 DEF Taken, Observations
<1> QED BY <1>1, <1>3, <1>4

(* The item is over, or the program stops at it.                          *)
LEMMA RecordPlace ==
  ASSUME controller \in Snapshots, PlaceInv, OnDisk, NEW s, NEW d, Noted(s, d)
  PROVE  /\ PlaceInv'
         /\ Raises(s) => ~Going' /\ ~Published'
         /\ ~Raises(s) => Going' /\ taken' = taken /\ over' = over + 1 /\ ~Published'
<1>1. UNCHANGED <<controller, options, rows>> /\ obs.stage = "returned" /\ obs'.stage = "none" /\ obs'.status \in Statuses
  BY DEF Noted
<1>2. Going /\ ~Published /\ over + 1 = taken
  BY <1>1, ObservedItem DEF OnDisk, Going
<1>3. row' \in [Keys -> Statuses] /\ raw' \in Seq(Observations)
  <2>1. CASE obs.item.kind = "probe"
    BY <2>1 DEF Noted, PlaceInv, CohortTypes
  <2>2. CASE obs.item.kind # "probe"
    BY <2>2, NotedRow, NotedRaw
  <2> QED BY <2>1, <2>2
<1>4. disk = [status |-> disk.status, rows |-> disk.rows] /\ todo \in Seq(Items)
  BY DEF PlaceInv, CohortTypes
<1>5. disk' = [status |-> disk'.status, rows |-> disk'.rows] /\ todo' \in Seq(Items)
  <2>1. CASE Raises(s)
    <3>1. todo' = <<>> /\ disk' = IF disk.status = "running" THEN [status |-> "failed", rows |-> rows] ELSE disk
      BY <2>1 DEF Noted, Raise
    <3> QED BY <1>4, <3>1
  <2>2. CASE ~Raises(s)
    BY <1>4, <2>2 DEF Noted
  <2> QED BY <2>1, <2>2
<1>6. Schedule' = Schedule /\ Keys' = Keys
  BY <1>1, SameProgram
<1>7. RowTypes'
  BY <1>3, <1>5, <1>6 DEF RowTypes
<1>8. CohortTypes'
  BY <1>1, <1>5, <1>7, TypesKept DEF PlaceInv
<1>9. InFlight'
  BY <1>1 DEF InFlight
<1>10. CASE Raises(s)
  <2>1. todo' = <<>> /\ disk' = IF disk.status = "running" THEN [status |-> "failed", rows |-> rows] ELSE disk
    BY <1>10 DEF Noted, Raise
  <2>2. RestOfSchedule'
    <3>1. Len(todo') = 0 /\ Len(Schedule) \in Nat
      BY <2>1, ScheduleLength DEF PlaceInv
    <3> QED BY <1>6, <3>1 DEF RestOfSchedule
  <2>3. ~Published' /\ ~Going'
    BY <1>2, <2>1 DEF Published, Going
  <2> QED BY <1>8, <1>9, <1>10, <2>2, <2>3 DEF PlaceInv
<1>11. CASE ~Raises(s)
  <2>1. UNCHANGED <<todo, disk>>
    BY <1>11 DEF Noted
  <2>2. taken' = taken /\ RestOfSchedule'
    BY <1>6, <2>1 DEF taken, RestOfSchedule, PlaceInv
  <2>3. over' = over + 1
    BY <1>1, <1>2, <2>2 DEF over
  <2>4. ~Published' /\ Going'
    BY <1>2, <2>1 DEF Published, Going
  <2> QED BY <1>8, <1>9, <1>11, <2>2, <2>3, <2>4 DEF PlaceInv
<1> QED BY <1>10, <1>11

(* The records of the first items of a schedule.                             *)
Entry(x) == IF x.kind \in Runs \ {"probe"} THEN <<Taken(x, "pass")>> ELSE <<>>
TimingsAre(g, s, m) == g = [n \in 0..m |-> IF n = 0 THEN <<>> ELSE g[n - 1] \o Entry(s[n])]

(* The function of records that TimingsOf chooses exists.                 *)
LEMMA TimingsExist ==
  ASSUME NEW s, NEW m \in Nat
  PROVE  \E g : TimingsAre(g, s, m)
<1> DEFINE S == {k \in Nat : \E g : TimingsAre(g, s, k)}
<1>1. 0 \in S
  <2> DEFINE g == [n \in 0..0 |-> <<>>]
  <2>1. g = [n \in 0..0 |-> IF n = 0 THEN <<>> ELSE g[n - 1] \o Entry(s[n])]
    OBVIOUS
  <2>2. TimingsAre(g, s, 0)
    BY <2>1 DEF TimingsAre
  <2> QED BY <2>2
<1>2. ASSUME NEW k \in S PROVE k + 1 \in S
  <2>1. PICK g : TimingsAre(g, s, k)
    OBVIOUS
  <2> DEFINE h == [n \in 0..(k + 1) |-> IF n = k + 1 THEN g[k] \o Entry(s[n]) ELSE g[n]]
  <2>2. \A n \in 0..k : g[n] = IF n = 0 THEN <<>> ELSE g[n - 1] \o Entry(s[n])
    BY <2>1 DEF TimingsAre
  <2>3. ASSUME NEW n \in 0..(k + 1) PROVE h[n] = IF n = 0 THEN <<>> ELSE h[n - 1] \o Entry(s[n])
    <3>1. CASE n = 0
      BY <2>2, <3>1
    <3>2. CASE n # 0
      <4>1. n - 1 \in 0..k /\ n - 1 \in 0..(k + 1) /\ n - 1 # k + 1
        BY <3>2
      <4>2. h[n - 1] = g[n - 1]
        BY <4>1
      <4>3. h[n] = g[n - 1] \o Entry(s[n])
        <5>1. CASE n = k + 1
          <6>1. n - 1 = k
            BY <5>1
          <6>2. h[n] = g[k] \o Entry(s[n])
            BY <5>1
          <6> HIDE DEF h
          <6> QED BY <6>1, <6>2
        <5>2. CASE n # k + 1
          <6>1. n \in 0..k
            BY <5>2
          <6> QED BY <2>2, <3>2, <5>2, <6>1
        <5> QED BY <5>1, <5>2
      <4> HIDE DEF h
      <4> QED BY <3>2, <4>2, <4>3
    <3> QED BY <3>1, <3>2
  <2>4. h = [n \in 0..(k + 1) |-> h[n]]
    OBVIOUS
  <2> HIDE DEF h
  <2>5. h = [n \in 0..(k + 1) |-> IF n = 0 THEN <<>> ELSE h[n - 1] \o Entry(s[n])]
    BY <2>3, <2>4
  <2>6. TimingsAre(h, s, k + 1)
    BY <2>5 DEF TimingsAre
  <2> QED BY <2>6
<1>3. S = Nat
  <2>1. S \in SUBSET Nat
    OBVIOUS
  <2> HIDE DEF S
  <2> QED BY <1>1, <1>2, <2>1, Numbers
<1> QED BY <1>3

(* TimingsOf is that function.                                            *)
LEMMA TimingsOfIs ==
  ASSUME NEW s, Len(s) \in Nat
  PROVE  TimingsAre(TimingsOf(s), s, Len(s))
<1> DEFINE g == CHOOSE g : g = [n \in 0..Len(s) |-> IF n = 0 THEN <<>>
                  ELSE g[n - 1] \o (IF s[n].kind \in Runs \ {"probe"} THEN <<Taken(s[n], "pass")>> ELSE <<>>)]
<1>1. TimingsOf(s) = g
  BY DEF TimingsOf
<1>2. \E f : f = [n \in 0..Len(s) |-> IF n = 0 THEN <<>>
                  ELSE f[n - 1] \o (IF s[n].kind \in Runs \ {"probe"} THEN <<Taken(s[n], "pass")>> ELSE <<>>)]
  <2>1. \E f : TimingsAre(f, s, Len(s))
    BY TimingsExist
  <2> QED BY <2>1 DEF TimingsAre, Entry
<1>3. g = [n \in 0..Len(s) |-> IF n = 0 THEN <<>>
                  ELSE g[n - 1] \o (IF s[n].kind \in Runs \ {"probe"} THEN <<Taken(s[n], "pass")>> ELSE <<>>)]
  BY <1>2, Zenon
<1> HIDE DEF g
<1>4. TimingsAre(g, s, Len(s))
  BY <1>3 DEF TimingsAre, Entry
<1> QED BY <1>1, <1>4

(* Nothing is recorded of no item.                                        *)
LEMMA TimingsNone ==
  ASSUME NEW s, Len(s) \in Nat
  PROVE  TimingsOf(s)[0] = <<>>
<1>1. PICK g : g = TimingsOf(s)
  OBVIOUS
<1>2. TimingsAre(g, s, Len(s))
  BY <1>1, TimingsOfIs
<1>3. g[0] = <<>>
  BY <1>2 DEF TimingsAre
<1> QED BY <1>1, <1>3

(* One item more.                                                         *)
LEMMA TimingsStep ==
  ASSUME NEW s, Len(s) \in Nat, NEW n \in Nat, n < Len(s)
  PROVE  TimingsOf(s)[n + 1] = TimingsOf(s)[n] \o Entry(s[n + 1])
<1>1. PICK g : g = TimingsOf(s)
  OBVIOUS
<1>2. TimingsAre(g, s, Len(s))
  BY <1>1, TimingsOfIs
<1>3. n + 1 \in 0..Len(s) /\ n + 1 # 0 /\ (n + 1) - 1 = n
  OBVIOUS
<1>4. PICK m : m = n + 1
  OBVIOUS
<1>5. g[m] = g[m - 1] \o Entry(s[m])
  BY <1>2, <1>3, <1>4 DEF TimingsAre
<1> QED BY <1>1, <1>3, <1>4, <1>5

(* They are passing observations.                                            *)
LEMMA TimingsPass ==
  ASSUME NEW A, NEW s \in Seq(A), NEW n \in 0..Len(s)
  PROVE  TimingsOf(s)[n] \in Seq([item : ToSet(s), status : {"pass"}])
<1> DEFINE U == [item : ToSet(s), status : {"pass"}]
<1> DEFINE S == {k \in Nat : k <= Len(s) => TimingsOf(s)[k] \in Seq(U)}
<1>0. Len(s) \in Nat
  OBVIOUS
<1>1. 0 \in S
  <2>1. <<>> \in Seq(U)
    OBVIOUS
  <2>2. TimingsOf(s)[0] \in Seq(U)
    BY <1>0, <2>1, TimingsNone
  <2> QED BY <2>2
<1>2. ASSUME NEW k \in S PROVE k + 1 \in S
  <2> SUFFICES ASSUME k + 1 <= Len(s) PROVE TimingsOf(s)[k + 1] \in Seq(U)
    OBVIOUS
  <2>1. TimingsOf(s)[k] \in Seq(U) /\ k < Len(s)
    OBVIOUS
  <2>2. TimingsOf(s)[k + 1] = TimingsOf(s)[k] \o Entry(s[k + 1])
    BY <1>0, <2>1, TimingsStep
  <2>3. Entry(s[k + 1]) \in Seq(U)
    <3>1. s[k + 1] \in ToSet(s)
      <4>1. k + 1 \in DOMAIN s
        OBVIOUS
      <4> QED BY <4>1 DEF ToSet
    <3>2. PICK t : t = Taken(s[k + 1], "pass")
      OBVIOUS
    <3>3. t \in U
      BY <3>1, <3>2 DEF Taken
    <3>4. <<t>> \in Seq(U) /\ <<>> \in Seq(U)
      BY <3>3
    <3> HIDE DEF U
    <3> QED BY <3>2, <3>4 DEF Entry
  <2> HIDE DEF U
  <2> QED BY <2>1, <2>2, <2>3
<1>3. S = Nat
  <2>1. S \in SUBSET Nat
    OBVIOUS
  <2> HIDE DEF S
  <2> QED BY <1>1, <1>2, <2>1, Numbers
<1>4. n \in Nat /\ n <= Len(s)
  OBVIOUS
<1>5. n \in S
  <2> HIDE DEF S
  <2> QED BY <1>3, <1>4
<1> QED BY <1>4, <1>5

(* Steps that record nothing.                                                *)
LEMMA RecordsUnmoved ==
  ASSUME RecordsInv, UNCHANGED <<controller, options, raw, row, coverage, binary>>,
         Going' \/ Published' => (Going \/ Published) /\ over' = over, Going' => Going
  PROVE  RecordsInv'
<1>1. Schedule' = Schedule /\ Cases' = Cases /\ CaseIds' = CaseIds /\ Keys' = Keys
  BY SameProgram
<1>2. RecordsScheduled'
  BY <1>1 DEF RecordsInv, RecordsScheduled
<1>3. Tally'
  <2> SUFFICES ASSUME Going' \/ Published', NEW X \in SUBSET Observed(Cases), Clean(X)'
               PROVE Hits(raw, Len(raw), [item : X, status : Statuses]) = Hits(Schedule, over, X) /\ over' = over
    BY <1>1 DEF Tally
  <2>1. Clean(X)
    BY DEF Clean
  <2> QED BY <2>1 DEF RecordsInv, Tally
<1>4. FailuresKept'
  BY <1>1 DEF RecordsInv, FailuresKept
<1>5. BuildFailed'
  BY DEF RecordsInv, BuildFailed
<1>6. AllPassing'
  BY DEF RecordsInv, AllPassing
<1>7. BinaryKnown'
  BY DEF RecordsInv, BinaryKnown
<1>8. CoverageKnown'
  BY <1>1 DEF RecordsInv, CoverageKnown
<1>9. InOrder'
  BY <1>1 DEF RecordsInv, InOrder
<1> QED BY <1>2, <1>3, <1>4, <1>5, <1>6, <1>7, <1>8, <1>9 DEF RecordsInv

(* The program goes past an item it does not observe, or one whose row has   *)
(* failed: no class of items whose rows pass has it.                         *)
LEMMA RecordsPassed ==
  ASSUME controller \in Snapshots, PlaceInv, RecordsInv, Passes, over' = over + 1, over = taken
  PROVE  RecordsInv'
<1>1. UNCHANGED <<controller, options, row, raw, coverage, binary>> /\ Going
  BY DEF Passes
<1>2. Schedule' = Schedule /\ Cases' = Cases /\ CaseIds' = CaseIds /\ Keys' = Keys
  BY <1>1, SameProgram
<1>3. over \in Nat /\ over + 1 \in 1..Len(Schedule) /\ Head(todo) = Schedule[over + 1] /\ Len(Schedule) \in Nat
  BY <1>1, HeadOfRest DEF PlaceInv
<1>4. PICK x : x = Schedule[over + 1] /\ (x.kind \in Recorded => controller \in RowKeepers /\ row[Key(x)] # "pass" /\ Key(x) \in Keys)
  <2>1. PICK i \in 1..Len(Schedule) : i = over + 1
    BY <1>3
  <2>2. Schedule[i].kind \in Recorded => Key(Schedule[i]) \in Keys
    BY ScheduledAt DEF PlaceInv
  <2> QED BY <1>3, <2>1, <2>2 DEF Passes
<1>5. RecordsScheduled'
  <2>1. ASSUME NEW j \in DOMAIN raw PROVE \E i \in 1..(over + 1) : Schedule[i] = raw[j].item
    <3>1. PICK i \in 1..over : Schedule[i] = raw[j].item
      BY <1>1 DEF RecordsInv, RecordsScheduled
    <3>2. i \in 1..(over + 1)
      BY <1>3
    <3> QED BY <3>1, <3>2
  <2> QED BY <1>1, <1>2, <2>1 DEF RecordsScheduled
<1>6. Tally'
  <2> SUFFICES ASSUME NEW X \in SUBSET Observed(Cases), Clean(X)'
               PROVE Hits(raw, Len(raw), [item : X, status : Statuses]) = Hits(Schedule, over + 1, X)
    BY <1>1, <1>2 DEF Tally
  <2>1. Clean(X)
    BY <1>1 DEF Clean
  <2>2. Hits(raw, Len(raw), [item : X, status : Statuses]) = Hits(Schedule, over, X)
    BY <1>1, <2>1 DEF RecordsInv, Tally
  <2>3. x \notin X
    <3>1. ASSUME x \in X PROVE FALSE
      <4>1. x \in Observed(Cases) /\ row[Key(x)] = "pass"
        BY <2>1, <3>1 DEF Clean
      <4>2. x.kind \in Recorded
        BY <4>1 DEF Observed, Zone
      <4> QED BY <1>4, <4>1, <4>2
    <3> QED BY <3>1
  <2>4. Hits(Schedule, over + 1, X) = Hits(Schedule, over, X) + 0
    BY <1>3, <1>4, <2>3, HitsStep
  <2>5. Hits(Schedule, over, X) \in Nat
    BY <1>3, HitsFinite
  <2> QED BY <2>2, <2>4, <2>5
<1>7. FailuresKept'
  BY <1>1, <1>2 DEF RecordsInv, FailuresKept
<1>8. BuildFailed'
  BY <1>1 DEF RecordsInv, BuildFailed
<1>9. AllPassing'
  BY <1>1 DEF RecordsInv, AllPassing
<1>10. BinaryKnown'
  BY <1>1 DEF RecordsInv, BinaryKnown
<1>11. CoverageKnown'
  BY <1>1, <1>2 DEF RecordsInv, CoverageKnown
<1>12. InOrder'
  <2> SUFFICES ASSUME controller = "daily", \A k \in Keys : row[k] = "pass"
               PROVE  raw = TimingsOf(Schedule)[over + 1]
    BY <1>1, <1>2 DEF InOrder
  <2>1. raw = TimingsOf(Schedule)[over]
    BY <1>1 DEF RecordsInv, InOrder
  <2>2. x.kind \notin Recorded
    BY <1>4
  <2>3. Entry(Schedule[over + 1]) = <<>>
    BY <1>4, <2>2 DEF Entry, Recorded
  <2>4. TimingsOf(Schedule)[over + 1] = TimingsOf(Schedule)[over] \o Entry(Schedule[over + 1])
    <3>1. over < Len(Schedule) /\ Len(Schedule) \in Nat /\ over \in Nat
      BY <1>3
    <3> QED BY <3>1, TimingsStep
  <2>5. raw \in Seq(Observations)
    BY DEF PlaceInv, CohortTypes
  <2>6. raw \o <<>> = raw
    BY <2>5
  <2> QED BY <2>1, <2>3, <2>4, <2>6
<1> QED BY <1>5, <1>6, <1>7, <1>8, <1>9, <1>10, <1>11, <1>12 DEF RecordsInv

(* A record is of an item of the schedule that is over.                      *)
LEMMA RecordedItem ==
  ASSUME controller \in Snapshots, PlaceInv, RecordsScheduled, Going \/ Published, NEW j \in DOMAIN raw
  PROVE  /\ raw[j] \in Observations /\ raw[j].item \in Observed(Cases) /\ Key(raw[j].item) \in Keys
         /\ raw[j].item.case # 0 => raw[j].item.kind \in {"build", "run"}
<1>1. raw \in Seq(Observations) /\ raw[j] \in Observations /\ raw[j].item.kind \in Recorded
  <2>1. raw \in Seq(Observations)
    BY DEF PlaceInv, CohortTypes
  <2>2. raw[j] \in Observations
    BY <2>1
  <2> QED BY <2>1, <2>2 DEF Observations, Zone
<1>2. PICK i \in 1..over : Schedule[i] = raw[j].item
  BY DEF RecordsScheduled
<1>3. taken \in Nat /\ taken <= Len(Schedule) /\ Len(Schedule) \in Nat
  BY HeadOfRest DEF PlaceInv
<1>4. i \in 1..Len(Schedule)
  BY <1>2, <1>3 DEF over
<1>5. /\ Schedule[i].kind \in Recorded => Key(Schedule[i]) \in Keys /\ Schedule[i] \in Observed(Cases)
      /\ Schedule[i].kind \in Recorded /\ Schedule[i].case # 0 => Schedule[i].kind \in {"build", "run"}
  BY <1>4, ScheduledAt DEF PlaceInv
<1> QED BY <1>1, <1>2, <1>5

(* The program records an observation.                                       *)
LEMMA FailuresNoted ==
  ASSUME controller \in Snapshots, PlaceInv, RecordsScheduled, FailuresKept, NEW s, NEW d, Noted(s, d)
  PROVE  FailuresKept'
<1>1. Keys' = Keys
  BY SameProgram DEF Noted
<1>2. CASE obs.item.kind = "probe"
  BY <1>1, <1>2 DEF Noted, FailuresKept
<1>3. CASE obs.item.kind # "probe"
  <2>1. PICK k, n : k = Key(obs.item) /\ n = Len(raw) /\ k \in Keys
    BY <1>3, ObservedItem DEF Noted
  <2>2. /\ row \in [Keys -> Statuses] /\ row'[k] = IF row[k] = "pass" THEN s ELSE row[k]
        /\ \A m \in Keys : m # k => row'[m] = row[m]
    BY <1>3, <2>1, NotedRow DEF PlaceInv, CohortTypes
  <2>3. /\ n \in Nat /\ DOMAIN raw = 1..n /\ DOMAIN raw' = 1..(n + 1) /\ \A j \in 1..n : raw'[j] = raw[j]
        /\ raw'[n + 1].status = s /\ raw'[n + 1].item = obs.item
    <3>1. /\ raw' \in Seq(Observations) /\ Len(raw') = n + 1 /\ n \in Nat
          /\ \A j \in 1..n : raw'[j] = raw[j]
          /\ raw'[n + 1] = Taken(obs.item, s)
      BY <1>3, <2>1, NotedRaw
    <3>2. DOMAIN raw' = 1..(n + 1) /\ DOMAIN raw = 1..n
      BY <2>1, <3>1 DEF PlaceInv, CohortTypes
    <3> QED BY <3>1, <3>2 DEF Taken
  <2>4. ASSUME NEW j \in DOMAIN raw', raw'[j].status # "pass" PROVE row'[Key(raw'[j].item)] # "pass"
    <3>1. CASE j = n + 1
      BY <2>1, <2>2, <2>3, <2>4, <3>1
    <3>2. CASE j # n + 1
      <4>1. j \in 1..n /\ raw'[j] = raw[j]
        BY <2>3, <3>2
      <4>2. row[Key(raw[j].item)] # "pass"
        BY <2>3, <2>4, <4>1 DEF FailuresKept
      <4>3. Key(raw[j].item) \in Keys
        <5>1. Going /\ j \in DOMAIN raw
          BY <2>3, <4>1, ObservedItem DEF Noted
        <5> QED BY <5>1, RecordedItem
      <4>5. CASE Key(raw[j].item) = k
        BY <2>2, <4>1, <4>2, <4>5
      <4>6. CASE Key(raw[j].item) # k
        BY <2>2, <4>1, <4>2, <4>3, <4>6
      <4> QED BY <4>5, <4>6
    <3> QED BY <3>1, <3>2
  <2>5. ASSUME NEW m \in Keys, row'[m] # "pass"
        PROVE  \E j \in DOMAIN raw' : Key(raw'[j].item) = m /\ raw'[j].status # "pass"
    <3>1. CASE row[m] # "pass"
      <4>1. PICK j \in DOMAIN raw : Key(raw[j].item) = m /\ raw[j].status # "pass"
        BY <3>1 DEF FailuresKept
      <4>2. j \in DOMAIN raw' /\ raw'[j] = raw[j]
        BY <2>3
      <4> QED BY <4>1, <4>2
    <3>2. CASE row[m] = "pass"
      <4>1. m = k /\ s # "pass" /\ n + 1 \in DOMAIN raw'
        BY <2>2, <2>3, <2>5, <3>2
      <4> QED BY <2>1, <2>3, <4>1
    <3> QED BY <3>1, <3>2
  <2> QED BY <1>1, <2>4, <2>5 DEF FailuresKept
<1> QED BY <1>2, <1>3

(* An application one of whose builds failed is not run.                  *)
LEMMA BuildNoted ==
  ASSUME controller \in Snapshots, PlaceInv, RecordsScheduled, FailuresKept, BuildFailed, NEW s, NEW d, Noted(s, d)
  PROVE  BuildFailed'
<1>1. CASE obs.item.kind = "probe"
  BY <1>1 DEF Noted, BuildFailed
<1>2. CASE obs.item.kind # "probe"
  <2> SUFFICES ASSUME controller \in RowKeepers, NEW j \in DOMAIN raw', NEW m \in DOMAIN raw',
                      raw'[j].item.kind = "build", raw'[j].status # "pass", raw'[m].item.kind = "run",
                      Key(raw'[j].item) = Key(raw'[m].item)
               PROVE  FALSE
    BY DEF BuildFailed, Noted
  <2>1. PICK n : n = Len(raw) /\ n \in Nat
    BY <1>2, NotedRaw
  <2>2. /\ raw' \in Seq(Observations) /\ Len(raw') = n + 1
        /\ \A l \in 1..n : raw'[l] = raw[l]
        /\ raw'[n + 1] = Taken(obs.item, s)
    BY <1>2, <2>1, NotedRaw
  <2>3. DOMAIN raw' = 1..(n + 1) /\ DOMAIN raw = 1..n /\ raw'[n + 1].item = obs.item
    BY <2>1, <2>2 DEF PlaceInv, CohortTypes, Taken
  <2>4. /\ taken \in 1..Len(Schedule) /\ over + 1 = taken /\ over \in Nat /\ Going /\ obs.item = Schedule[taken]
        /\ row[Key(obs.item)] = "pass"
    BY ObservedItem DEF Noted, PlaceInv, InFlight
  <2>5. CASE j # n + 1 /\ m # n + 1
    <3>1. j \in 1..n /\ m \in 1..n
      BY <2>1, <2>3, <2>5
    <3>2. raw'[j] = raw[j] /\ raw'[m] = raw[m] /\ j \in DOMAIN raw /\ m \in DOMAIN raw
      BY <2>2, <2>3, <3>1
    <3> QED BY <3>2 DEF BuildFailed
  <2>6. CASE j = n + 1 /\ m = n + 1
    BY <2>6
  <2>7. CASE j # n + 1 /\ m = n + 1
    <3>0. j \in 1..n
      BY <2>1, <2>3, <2>7
    <3>1. j \in DOMAIN raw /\ raw'[j] = raw[j]
      BY <2>2, <2>3, <3>0
    <3>2. row[Key(raw[j].item)] # "pass"
      BY <3>1 DEF FailuresKept
    <3> QED BY <2>3, <2>4, <2>7, <3>1, <3>2
  <2>8. CASE j = n + 1 /\ m # n + 1
    <3>0. m \in 1..n
      BY <2>1, <2>3, <2>8
    <3>1. m \in DOMAIN raw /\ raw'[m] = raw[m]
      BY <2>2, <2>3, <3>0
    <3>2. PICK i \in 1..over : Schedule[i] = raw[m].item
      BY <2>4, <3>1 DEF RecordsScheduled
    <3>3. i \in 1..Len(Schedule) /\ i < taken /\ Len(Schedule) \in Nat
      BY <2>4, ScheduleLength DEF PlaceInv
    <3>4. ~Conflict(Schedule[i], Schedule[taken])
      <4>1. PICK q \in 1..Len(Schedule) : q = taken
        BY <2>4
      <4> QED BY <3>3, <4>1, ScheduledInOrder DEF PlaceInv
    <3>5. Schedule[i].case = Schedule[taken].case
      <4>1. Key(Schedule[i]) = Key(Schedule[taken])
        BY <2>3, <2>4, <2>8, <3>1, <3>2
      <4> QED BY <4>1 DEF Key
    <3>6. Schedule[i].kind = "run" /\ Schedule[taken].kind = "build"
      BY <2>3, <2>4, <2>8, <3>1, <3>2
    <3> QED BY <3>4, <3>5, <3>6 DEF Conflict
  <2> QED BY <2>5, <2>6, <2>7, <2>8
<1> QED BY <1>1, <1>2

(* What the compilations wrote, and which cases were probed.              *)
LEMMA KnownNoted ==
  ASSUME controller \in Snapshots, PlaceInv, BinaryKnown, CoverageKnown, NEW s, NEW d, Noted(s, d)
  PROVE  BinaryKnown' /\ CoverageKnown'
<1>1. BinaryKnown'
  <2>1. binary # 0 => binary' # 0
    BY DEF Noted
  <2>2. CASE obs.item.kind = "probe"
    BY <2>1, <2>2 DEF Noted, BinaryKnown
  <2>3. CASE obs.item.kind # "probe"
    <3> SUFFICES ASSUME NEW j \in DOMAIN raw', raw'[j].item.kind = "compiler-self", raw'[j].status = "pass"
                 PROVE  binary' # 0
      BY DEF BinaryKnown
    <3>1. PICK n : n = Len(raw) /\ n \in Nat
      BY <2>3, NotedRaw
    <3>2. /\ raw' \in Seq(Observations) /\ Len(raw') = n + 1
          /\ \A l \in 1..n : raw'[l] = raw[l]
          /\ raw'[n + 1] = Taken(obs.item, s)
      BY <2>3, <3>1, NotedRaw
    <3>3. DOMAIN raw' = 1..(n + 1) /\ DOMAIN raw = 1..n /\ raw'[n + 1].item = obs.item /\ raw'[n + 1].status = s
      BY <3>1, <3>2 DEF PlaceInv, CohortTypes, Taken
    <3>4. CASE j = n + 1
      BY <3>3, <3>4 DEF Noted
    <3>5. CASE j # n + 1
      <4>1. j \in 1..n
        BY <3>1, <3>3, <3>5
      <4>2. raw'[j] = raw[j] /\ j \in DOMAIN raw
        BY <3>2, <3>3, <4>1
      <4> QED BY <2>1, <4>2 DEF BinaryKnown
    <3> QED BY <3>4, <3>5
  <2> QED BY <2>2, <2>3
<1>2. CoverageKnown'
  <2>1. CaseIds' = CaseIds /\ controller' = controller
    BY SameProgram DEF Noted
  <2>2. CASE obs.item.kind # "probe"
    BY <2>1, <2>2 DEF Noted, CoverageKnown
  <2>3. CASE obs.item.kind = "probe"
    <3>1. controller = "daily" => Key(obs.item) \in CaseIds \X ToSet(Roles)
      <4>1. PICK i \in 1..Len(Schedule) : obs.item = Schedule[i]
        BY ObservedItem DEF Noted
      <4> QED BY <2>3, <4>1, ScheduledAt DEF PlaceInv
    <3>2. coverage' = coverage \/ coverage' = coverage \cup {Key(obs.item)}
      BY <2>3 DEF Noted
    <3>3. PICK k : k = Key(obs.item)
      OBVIOUS
    <3> QED BY <2>1, <3>1, <3>2, <3>3 DEF CoverageKnown
  <2> QED BY <2>2, <2>3
<1> QED BY <1>1, <1>2

(* A class that passes has one more observation when its item is over.    *)
LEMMA TallyNoted ==
  ASSUME controller \in Snapshots, PlaceInv, Tally, NEW s, NEW d, Noted(s, d), over' = over + 1
  PROVE  Tally'
<1>1. Schedule' = Schedule /\ Cases' = Cases
  BY SameProgram DEF Noted
<1>2. taken \in 1..Len(Schedule) /\ over + 1 = taken /\ over \in Nat /\ Going /\ obs.item = Schedule[taken]
  BY ObservedItem DEF Noted
<1> SUFFICES ASSUME NEW X \in SUBSET Observed(Cases), Clean(X)'
             PROVE Hits(raw', Len(raw'), [item : X, status : Statuses]) = Hits(Schedule, over + 1, X)
  BY <1>1 DEF Tally
<1> DEFINE Y == [item : X, status : Statuses]
<1>3. Clean(X)
  <2>1. ASSUME NEW x \in X PROVE row[Key(x)] = "pass"
    <3>1. Key(x) \in Keys
      <4>1. Cases \in Nat /\ Keys = KeysOf(Cases)
        BY ScheduleIs DEF PlaceInv
      <4> QED BY <4>1 DEF Observed
    <3>2. row'[Key(x)] = "pass"
      BY DEF Clean
    <3> QED BY <3>1, <3>2, RowsStayFailed
  <2> QED BY <2>1 DEF Clean
<1>4. Hits(raw, Len(raw), Y) = Hits(Schedule, over, X)
  BY <1>2, <1>3 DEF Tally
<1>5. PICK x : x = obs.item
  OBVIOUS
<1>6. Schedule[over + 1] = x
  BY <1>2, <1>5
<1>7. Hits(Schedule, over + 1, X) = Hits(Schedule, over, X) + IF x \in X THEN 1 ELSE 0
  <2>1. Hits(Schedule, over + 1, X) = Hits(Schedule, over, X) + IF Schedule[over + 1] \in X THEN 1 ELSE 0
    BY <1>2, HitsStep
  <2> QED BY <1>6, <2>1
<1>8. CASE x.kind = "probe"
  <2>1. x \notin X
    BY <1>8 DEF Observed, Zone, Recorded
  <2>2. raw' = raw /\ Hits(Schedule, over, X) \in Nat
    BY <1>2, <1>5, <1>8, HitsFinite DEF Noted
  <2> QED BY <1>4, <1>7, <2>1, <2>2
<1>9. CASE x.kind # "probe"
  <2>1. PICK n : n = Len(raw) /\ n \in Nat
    BY <1>5, <1>9, NotedRaw
  <2>2. /\ Len(raw') = n + 1
        /\ \A l \in 1..n : raw'[l] = raw[l]
        /\ raw'[n + 1] = Taken(x, s)
    BY <1>5, <1>9, <2>1, NotedRaw
  <2>3. s \in Statuses
    BY DEF Noted
  <2> HIDE DEF Y
  <2>4. Hits(raw', n, Y) = Hits(raw, n, Y)
    BY <2>1, <2>2, HitsSame
  <2>5. Hits(raw', n + 1, Y) = Hits(raw', n, Y) + IF raw'[n + 1] \in Y THEN 1 ELSE 0
    BY <2>1, HitsStep
  <2>6. raw'[n + 1] \in Y <=> x \in X
    BY <2>2, <2>3 DEF Y, Taken
  <2>7. Hits(raw', Len(raw'), Y) = Hits(Schedule, over + 1, X)
    BY <1>4, <1>7, <2>1, <2>2, <2>4, <2>5, <2>6
  <2> QED BY <2>7 DEF Y
<1> QED BY <1>8, <1>9

(* While all pass the records are those of the schedule, in order.        *)
LEMMA OrderNoted ==
  ASSUME controller \in Snapshots, PlaceInv, InOrder, NEW s, NEW d, Noted(s, d), over' = over + 1
  PROVE  InOrder'
<1>1. Schedule' = Schedule /\ Keys' = Keys /\ controller' = controller
  BY SameProgram DEF Noted
<1>2. taken \in 1..Len(Schedule) /\ over + 1 = taken /\ over \in Nat /\ Going /\ obs.item = Schedule[taken]
  BY ObservedItem DEF Noted
<1> SUFFICES ASSUME controller = "daily", \A k \in Keys : row'[k] = "pass"
             PROVE  raw' = TimingsOf(Schedule)[over + 1]
  BY <1>1 DEF InOrder
<1>3. \A k \in Keys : row[k] = "pass"
  BY RowsStayFailed
<1>4. raw = TimingsOf(Schedule)[over]
  BY <1>2, <1>3 DEF InOrder
<1>5. PICK x : x = obs.item
  OBVIOUS
<1>6. TimingsOf(Schedule)[over + 1] = raw \o Entry(x)
  <2>1. over < Len(Schedule) /\ Len(Schedule) \in Nat
    BY <1>2, ScheduleLength DEF PlaceInv
  <2>2. TimingsOf(Schedule)[over + 1] = TimingsOf(Schedule)[over] \o Entry(Schedule[over + 1])
    BY <1>2, <2>1, TimingsStep
  <2> QED BY <1>2, <1>4, <1>5, <2>2
<1>7. raw \in Seq(Observations)
  BY DEF PlaceInv, CohortTypes
<1>8. CASE x.kind = "probe"
  <2>1. Entry(x) = <<>> /\ raw' = raw
    BY <1>5, <1>8 DEF Entry, Noted
  <2>2. raw \o <<>> = raw
    BY <1>7
  <2> QED BY <1>6, <2>1, <2>2
<1>9. CASE x.kind # "probe"
  <2>1. PICK k : k = Key(obs.item) /\ k \in Keys /\ obs.item.kind \in Recorded
    BY <1>5, <1>9, ObservedItem DEF Noted
  <2>2. row'[k] = IF row[k] = "pass" THEN s ELSE row[k]
    BY <1>5, <1>9, <2>1, NotedRow
  <2>3. s = "pass"
    BY <1>3, <2>1, <2>2
  <2>4. raw' = Append(raw, Taken(x, "pass"))
    BY <1>5, <1>9, <2>3 DEF Noted
  <2>5. Entry(x) = <<Taken(x, "pass")>>
    BY <1>5, <2>1 DEF Entry, Recorded
  <2>6. PICK t : t = Taken(x, "pass")
    OBVIOUS
  <2>7. t \in Observations
    BY <1>5, <1>9, <2>1, <2>6, ObservedItem DEF Noted, Observed, Taken, Observations, Statuses
  <2>8. Append(raw, t) = raw \o <<t>>
    BY <1>7, <2>7
  <2> QED BY <1>6, <2>4, <2>5, <2>6, <2>8
<1> QED BY <1>8, <1>9

(* A program that goes on only with passes has only passes.               *)
LEMMA PassingNoted ==
  ASSUME controller \in Snapshots, PlaceInv, AllPassing, NEW s, NEW d, Noted(s, d), ~Raises(s)
  PROVE  AllPassing'
<1> SUFFICES ASSUME controller \notin RowKeepers, NEW j \in DOMAIN raw' PROVE raw'[j].status = "pass"
  BY DEF AllPassing, Noted
<1>1. \A l \in DOMAIN raw : raw[l].status = "pass"
  BY ObservedItem DEF Noted, AllPassing
<1>2. CASE obs.item.kind = "probe"
  BY <1>1, <1>2 DEF Noted
<1>3. CASE obs.item.kind # "probe"
  <2>1. PICK n : n = Len(raw) /\ n \in Nat
    BY <1>3, NotedRaw
  <2>2. /\ raw' \in Seq(Observations) /\ Len(raw') = n + 1
        /\ \A l \in 1..n : raw'[l] = raw[l]
        /\ raw'[n + 1] = Taken(obs.item, s)
    BY <1>3, <2>1, NotedRaw
  <2>3. DOMAIN raw' = 1..(n + 1) /\ DOMAIN raw = 1..n
    BY <2>1, <2>2 DEF PlaceInv, CohortTypes
  <2>4. s = "pass"
    BY DEF Raises, Snapshots, RowKeepers
  <2>5. CASE j = n + 1
    BY <2>2, <2>4, <2>5 DEF Taken
  <2>6. CASE j # n + 1
    <3>1. j \in 1..n
      BY <2>1, <2>3, <2>6
    <3> QED BY <1>1, <2>2, <2>3, <3>1
  <2> QED BY <2>5, <2>6
<1> QED BY <1>2, <1>3

(* The new record is of an item that is over.                             *)
LEMMA ScheduledNoted ==
  ASSUME controller \in Snapshots, PlaceInv, RecordsScheduled, NEW s, NEW d, Noted(s, d), over' = over + 1
  PROVE  RecordsScheduled'
<1>1. Schedule' = Schedule
  BY SameProgram DEF Noted
<1>2. taken \in 1..Len(Schedule) /\ over + 1 = taken /\ over \in Nat /\ Going /\ obs.item = Schedule[taken]
  BY ObservedItem DEF Noted
<1> SUFFICES ASSUME NEW j \in DOMAIN raw' PROVE \E i \in 1..(over + 1) : Schedule[i] = raw'[j].item
  BY <1>1 DEF RecordsScheduled
<1>3. ASSUME j \in DOMAIN raw, raw'[j] = raw[j] PROVE \E i \in 1..(over + 1) : Schedule[i] = raw'[j].item
  <2>1. PICK i \in 1..over : Schedule[i] = raw[j].item
    BY <1>2, <1>3 DEF RecordsScheduled
  <2>2. i \in 1..(over + 1)
    BY <1>2
  <2> QED BY <1>3, <2>1, <2>2
<1>4. CASE obs.item.kind = "probe"
  BY <1>3, <1>4 DEF Noted
<1>5. CASE obs.item.kind # "probe"
  <2>1. PICK n : n = Len(raw) /\ n \in Nat
    BY <1>5, NotedRaw
  <2>2. /\ raw' \in Seq(Observations) /\ Len(raw') = n + 1
        /\ \A l \in 1..n : raw'[l] = raw[l]
        /\ raw'[n + 1] = Taken(obs.item, s)
    BY <1>5, <2>1, NotedRaw
  <2>3. DOMAIN raw' = 1..(n + 1) /\ DOMAIN raw = 1..n
    BY <2>1, <2>2 DEF PlaceInv, CohortTypes
  <2>4. CASE j = n + 1
    <3>1. over + 1 \in 1..(over + 1) /\ Schedule[over + 1] = raw'[j].item
      BY <1>2, <2>2, <2>4 DEF Taken
    <3> QED BY <3>1
  <2>5. CASE j # n + 1
    <3>1. j \in 1..n
      BY <2>1, <2>3, <2>5
    <3> QED BY <1>3, <2>2, <2>3, <3>1
  <2> QED BY <2>4, <2>5
<1> QED BY <1>4, <1>5

(* All this together.                                                     *)
LEMMA RecordsNoted ==
  ASSUME controller \in Snapshots, PlaceInv, RecordsInv, OnDisk, NEW s, NEW d, Noted(s, d)
  PROVE  RecordsInv'
<1>1. FailuresKept' /\ BuildFailed' /\ BinaryKnown' /\ CoverageKnown'
  BY FailuresNoted, BuildNoted, KnownNoted DEF RecordsInv
<1>2. CASE Raises(s)
  <2>1. ~Going' /\ ~Published'
    BY <1>2, RecordPlace
  <2> QED BY <1>1, <2>1 DEF RecordsInv, RecordsScheduled, Tally, AllPassing, InOrder
<1>3. CASE ~Raises(s)
  <2>1. over' = over + 1
    BY <1>3, RecordPlace
  <2> QED BY <1>1, <1>3, <2>1, TallyNoted, OrderNoted, PassingNoted, ScheduledNoted DEF RecordsInv
<1> QED BY <1>2, <1>3

(* The rows of a case have a key each.                                       *)
LEMMA RolesOfKeys ==
  ASSUME NEW c, NEW r \in ToSet(RolesOf(options, c)), c \in CaseIds
  PROVE  <<c, r>> \in Keys
<1>1. ToSet(RolesOf(options, c)) = ToSet(Roles) \cup (IF HasControls(options, c) THEN Controls ELSE {})
  BY RolesOfArranged
<1>2. r \in ToSet(Roles) \cup {"control-go-original"}
  BY <1>1 DEF Controls
<1>3. r \in ToSet(Roles \o ControlRoles)
  BY <1>2, RolesControls
<1> QED BY <1>3 DEF Keys

(* A row is of a case and role of the cohort.                             *)
LEMMA RowsKeys ==
  ASSUME RowsOnce, NEW x \in rows
  PROVE  <<x.case, x.role>> \in Keys
<1>1. x.case \in CaseIds /\ x.role \in ToSet(RolesOf(options, x.case))
  BY DEF RowsOnce
<1> QED BY <1>1, RolesOfKeys

(* Steps that summarize nothing: rows may fail, and the program go on.       *)
RowsFall == \A k \in Keys : row[k] # "pass" => row'[k] # "pass"
GoesOn ==
  /\ taken \in Nat /\ taken' \in Nat
  /\ Going' => Going /\ taken <= taken'
  /\ Going' \/ Published' =>
       (Going \/ Published) /\ \A i \in 1..taken' : Schedule[i].kind = "summarize" => i \in 1..taken

(* Rows stay judged while the records only grow worse.                    *)
LEMMA RowsUnmoved ==
  ASSUME RowsInv, UNCHANGED <<controller, options, rows>>, RowsFall, GoesOn
  PROVE  RowsInv'
<1>1. Schedule' = Schedule /\ CaseIds' = CaseIds
  BY SameProgram
<1>2. RowsJudged'
  <2> SUFFICES ASSUME NEW x \in rows PROVE Judged(x)'
    BY DEF RowsJudged
  <2>1. Judged(x)
    BY DEF RowsInv, RowsJudged
  <2>2. <<x.case, x.role>> \in Keys
    BY RowsKeys DEF RowsInv
  <2>3. row[<<x.case, x.role>>] # "pass" => row'[<<x.case, x.role>>] # "pass"
    BY <2>2 DEF RowsFall
  <2> QED BY <2>1, <2>3 DEF Judged
<1>3. RowsOnce'
  BY <1>1 DEF RowsInv, RowsOnce
<1>4. ASSUME Going', NEW x \in rows
      PROVE  \E i \in 1..taken' : Schedule[i].kind = "summarize" /\ Schedule[i].case = x.case
  <2>1. PICK i \in 1..taken : Schedule[i].kind = "summarize" /\ Schedule[i].case = x.case
    BY <1>4 DEF GoesOn, RowsInv, RowsScheduled
  <2>2. i \in 1..taken'
    BY <1>4 DEF GoesOn
  <2> QED BY <2>1, <2>2
<1>5. ASSUME Going' \/ Published', NEW i \in 1..taken', Schedule[i].kind = "summarize"
      PROVE  \E x \in rows : x.case = Schedule[i].case
  <2>1. i \in 1..taken /\ (Going \/ Published)
    BY <1>5 DEF GoesOn
  <2> QED BY <1>5, <2>1 DEF RowsInv, RowsScheduled
<1>6. RowsScheduled'
  BY <1>1, <1>4, <1>5 DEF RowsScheduled
<1> QED BY <1>2, <1>3, <1>6 DEF RowsInv

(* The records of a class of observations, when their row passes.            *)
LEMMA ClassRecords ==
  ASSUME controller \in Snapshots, PlaceInv, NEW kind, NEW c, NEW r, NEW P \in {Kept, Phases}
  PROVE  {j \in Of(kind, <<c, r>>) : raw[j].item.phase \in P}
           = {j \in 1..Len(raw) : raw[j] \in [item : Class(kind, c, r, P), status : Statuses]}
<1>1. raw \in Seq(Observations) /\ DOMAIN raw = 1..Len(raw)
  BY DEF PlaceInv, CohortTypes
<1>2. ASSUME NEW j \in 1..Len(raw)
      PROVE  (raw[j].item.kind = kind /\ Key(raw[j].item) = <<c, r>> /\ raw[j].item.phase \in P)
               <=> raw[j] \in [item : Class(kind, c, r, P), status : Statuses]
  <2>1. PICK t : t = raw[j] /\ t \in Observations
    BY <1>1
  <2>2. t = [item |-> t.item, status |-> t.status] /\ t.status \in Statuses /\ t.item \in Zone(Recorded, Nat, Texts)
    BY <2>1 DEF Observations
  <2>3. PICK x : x = t.item /\ x = [kind |-> x.kind, case |-> x.case, role |-> x.role, phase |-> x.phase]
    BY <2>2 DEF Zone
  <2>4. (x.kind = kind /\ x.case = c /\ x.role = r /\ x.phase \in P) <=> x \in Class(kind, c, r, P)
    BY <2>3 DEF Class
  <2>5. Key(x) = <<c, r>> <=> x.case = c /\ x.role = r
    BY DEF Key
  <2>6. t \in [item : Class(kind, c, r, P), status : Statuses] <=> x \in Class(kind, c, r, P)
    BY <2>2, <2>3
  <2> QED BY <2>1, <2>3, <2>4, <2>5, <2>6
<1> QED BY <1>1, <1>2 DEF Of

(* The records of a role of a case whose row passes are as many as the    *)
(* items that are over.                                                   *)
LEMMA TalliedClass ==
  ASSUME controller \in Snapshots, PlaceInv, Tally, Going \/ Published,
         NEW kind \in Recorded, NEW c, NEW r, <<c, r>> \in Keys, row[<<c, r>>] = "pass", NEW P \in {Kept, Phases},
         c \in Nat, r \in Texts
  PROVE  Cardinality({j \in Of(kind, <<c, r>>) : raw[j].item.phase \in P})
           = Hits(Schedule, over, Class(kind, c, r, P))
<1>1. PICK X : X = Class(kind, c, r, P)
  OBVIOUS
<1>2. X \subseteq Observed(Cases) /\ Clean(X)
  <2>1. Keys = KeysOf(Cases)
    BY ScheduleIs DEF PlaceInv
  <2>2. ASSUME NEW x \in X PROVE x \in Observed(Cases) /\ row[Key(x)] = "pass"
    <3>1. /\ x = [kind |-> x.kind, case |-> x.case, role |-> x.role, phase |-> x.phase]
          /\ x.kind = kind /\ x.case = c /\ x.role = r /\ x.phase \in P
      BY <1>1 DEF Class
    <3>2. x.phase \in Phases
      BY <3>1 DEF Kept, Phases
    <3>3. Key(x) = <<c, r>>
      BY <3>1 DEF Key
    <3>4. x \in Zone(Recorded, Nat, Texts)
      BY <3>1, <3>2 DEF Zone
    <3> QED BY <2>1, <3>3, <3>4 DEF Observed
  <2> QED BY <2>2 DEF Clean
<1>3. X \in SUBSET Observed(Cases)
  BY <1>2
<1>4. Hits(raw, Len(raw), [item : X, status : Statuses]) = Hits(Schedule, over, X)
  BY <1>2, <1>3 DEF Tally
<1>5. {j \in Of(kind, <<c, r>>) : raw[j].item.phase \in P}
        = {j \in 1..Len(raw) : raw[j] \in [item : X, status : Statuses]}
  BY <1>1, ClassRecords
<1> QED BY <1>1, <1>4, <1>5 DEF Hits

(* Retained counts the records of kept phases.                            *)
LEMMA RetainedIs ==
  ASSUME NEW kind, NEW k
  PROVE  Retained(Of(kind, k)) = Cardinality({j \in Of(kind, k) : raw[j].item.phase \in Kept})
BY DEF Retained, Kept

(* Every record is of some phase.                                         *)
LEMMA AllPhases ==
  ASSUME controller \in Snapshots, PlaceInv, NEW kind, NEW k
  PROVE  {j \in Of(kind, k) : raw[j].item.phase \in Phases} = Of(kind, k)
<1>1. raw \in Seq(Observations)
  BY DEF PlaceInv, CohortTypes
<1>2. ASSUME NEW j \in DOMAIN raw PROVE raw[j].item.phase \in Phases
  <2>1. raw[j] \in Observations
    BY <1>1
  <2> QED BY <2>1 DEF Observations, Zone
<1> QED BY <1>2 DEF Of

(* A case none of whose builds and runs are left to do.                      *)
CaseSettled(c) ==
  \A kind \in {"build", "run"}, r \in Texts, P \in {Kept, Phases} :
    Hits(Schedule, over, Class(kind, c, r, P)) = Hits(Schedule, Len(Schedule), Class(kind, c, r, P))

(* A class none of whose items is left was counted in full.               *)
LEMMA HitsUpTo ==
  ASSUME NEW s, NEW n \in Nat, NEW m \in Nat, n <= m, NEW X, \A i \in 1..m : i > n => s[i] \notin X
  PROVE  Hits(s, n, X) = Hits(s, m, X)
<1>1. {i \in 1..n : s[i] \in X} = {i \in 1..m : s[i] \in X}
  OBVIOUS
<1> QED BY <1>1 DEF Hits

(* A case about to be summarized has nothing left to build or run.        *)
LEMMA SummaryNext ==
  ASSUME controller \in Snapshots, PlaceInv, Going, obs.stage = "none", Head(todo).kind = "summarize"
  PROVE  /\ Head(todo).case \in CaseIds /\ CaseSettled(Head(todo).case)
         /\ Head(todo) = Schedule[taken + 1] /\ taken + 1 \in 1..Len(Schedule) /\ taken \in Nat
<1>1. taken \in Nat /\ taken + 1 \in 1..Len(Schedule) /\ Head(todo) = Schedule[taken + 1] /\ Len(Schedule) \in Nat
  BY HeadOfRest DEF PlaceInv
<1>2. PICK q \in 1..Len(Schedule) : q = taken + 1 /\ Schedule[q].kind = "summarize"
  BY <1>1
<1>3. PICK c : c = Schedule[q].case /\ c = Head(todo).case /\ c \in CaseIds
  BY <1>1, <1>2, ScheduledAt DEF PlaceInv
<1>4. over = taken
  BY DEF over
<1>5. ASSUME NEW kind \in {"build", "run"}, NEW r \in Texts, NEW P \in {Kept, Phases}
      PROVE  Hits(Schedule, over, Class(kind, c, r, P)) = Hits(Schedule, Len(Schedule), Class(kind, c, r, P))
  <2>1. PICK X : X = Class(kind, c, r, P)
    OBVIOUS
  <2>2. \A x \in X : x.kind = kind /\ x.case = c
    BY <2>1 DEF Class
  <2>3. ASSUME NEW i \in 1..Len(Schedule), i > taken, Schedule[i] \in X PROVE FALSE
    <3>1. Schedule[i].kind = kind /\ Schedule[i].case = c
      BY <2>2, <2>3
    <3>2. i # q
      BY <1>2, <3>1
    <3>3. q < i
      BY <1>1, <1>2, <2>3, <3>2
    <3>4. ~Conflict(Schedule[q], Schedule[i])
      BY <3>3, ScheduledInOrder DEF PlaceInv
    <3> QED BY <1>2, <1>3, <3>1, <3>4 DEF Conflict
  <2>4. \A i \in 1..Len(Schedule) : i > taken => Schedule[i] \notin X
    BY <2>3
  <2>5. taken <= Len(Schedule)
    BY <1>1
  <2>6. Hits(Schedule, taken, X) = Hits(Schedule, Len(Schedule), X)
    BY <1>1, <2>4, <2>5, HitsUpTo
  <2> QED BY <1>4, <2>1, <2>6
<1>6. CaseSettled(c)
  BY <1>5 DEF CaseSettled
<1> QED BY <1>1, <1>3, <1>6

(* A role of a case has a row.                                            *)
LEMMA RowTexts ==
  ASSUME controller \in Snapshots, PlaceInv, NEW c \in CaseIds, NEW r \in ToSet(RolesOf(options, c))
  PROVE  c \in Nat /\ c # 0 /\ r \in Texts /\ <<c, r>> \in Keys
<1>1. c \in Nat /\ c # 0
  BY ScheduleIs DEF PlaceInv
<1>2. r \in ToSet(Roles) \cup {"control-go-original"}
  <2>1. ToSet(RolesOf(options, c)) = ToSet(Roles) \cup (IF HasControls(options, c) THEN Controls ELSE {})
    BY RolesOfArranged
  <2> QED BY <2>1 DEF Controls
<1>3. r \in Texts
  BY <1>2 DEF Texts
<1> QED BY <1>1, <1>3, RolesOfKeys

(* A settled case has the counts its schedule gives it.                      *)
LEMMA CaseCounts ==
  ASSUME controller \in Snapshots, PlaceInv, Tally, Going \/ Published,
         NEW c \in CaseIds, CaseSettled(c), NEW r \in ToSet(RolesOf(options, c)), row[<<c, r>>] = "pass"
  PROVE  /\ Retained(Of("run", <<c, r>>)) = Samples
         /\ Cardinality(Of("run", <<c, r>>)) = (IF controller = "diagnostic" THEN 1 ELSE Warmups) + Samples
         /\ controller \in RowKeepers =>
              /\ Retained(Of("build", <<c, r>>)) = BuildRounds - 1
              /\ Cardinality(Of("build", <<c, r>>)) = BuildRounds
         /\ controller = "diagnostic" /\ ~(reuse(options) /\ r = Roles[1]) => Retained(Of("build", <<c, r>>)) = 1
<1>1. c \in Nat /\ r \in Texts /\ <<c, r>> \in Keys
  BY RowTexts
<1>2. ASSUME NEW kind \in {"build", "run"}, NEW P \in {Kept, Phases}
      PROVE  Cardinality({j \in Of(kind, <<c, r>>) : raw[j].item.phase \in P})
               = Hits(Schedule, Len(Schedule), Class(kind, c, r, P))
  <2>1. kind \in Recorded
    BY DEF Recorded, Runs
  <2>2. Cardinality({j \in Of(kind, <<c, r>>) : raw[j].item.phase \in P}) = Hits(Schedule, over, Class(kind, c, r, P))
    BY <1>1, <2>1, TalliedClass
  <2>3. Hits(Schedule, over, Class(kind, c, r, P)) = Hits(Schedule, Len(Schedule), Class(kind, c, r, P))
    BY <1>1 DEF CaseSettled
  <2> QED BY <2>2, <2>3
<1>3. ASSUME NEW kind \in {"build", "run"}
      PROVE  /\ Retained(Of(kind, <<c, r>>)) = Hits(Schedule, Len(Schedule), Class(kind, c, r, Kept))
             /\ Cardinality(Of(kind, <<c, r>>)) = Hits(Schedule, Len(Schedule), Class(kind, c, r, Phases))
  <2>1. Cardinality({j \in Of(kind, <<c, r>>) : raw[j].item.phase \in Kept})
          = Hits(Schedule, Len(Schedule), Class(kind, c, r, Kept))
    BY <1>2
  <2>2. Cardinality({j \in Of(kind, <<c, r>>) : raw[j].item.phase \in Phases})
          = Hits(Schedule, Len(Schedule), Class(kind, c, r, Phases))
    BY <1>2
  <2>3. {j \in Of(kind, <<c, r>>) : raw[j].item.phase \in Phases} = Of(kind, <<c, r>>)
    BY AllPhases
  <2> QED BY <2>1, <2>2, <2>3, RetainedIs
<1>4. /\ Retained(Of("run", <<c, r>>)) = Hits(Schedule, Len(Schedule), Class("run", c, r, Kept))
      /\ Cardinality(Of("run", <<c, r>>)) = Hits(Schedule, Len(Schedule), Class("run", c, r, Phases))
  BY <1>3
<1>5. /\ Retained(Of("build", <<c, r>>)) = Hits(Schedule, Len(Schedule), Class("build", c, r, Kept))
      /\ Cardinality(Of("build", <<c, r>>)) = Hits(Schedule, Len(Schedule), Class("build", c, r, Phases))
  BY <1>3
<1>6. PICK s, n, o, name : /\ s = Schedule /\ n = Cases /\ o = options /\ name = controller /\ CaseIds = 1..n
                           /\ Counted(s, name, n, o)
  BY ScheduleIs DEF PlaceInv
<1>7. /\ Hits(s, Len(s), Class("run", c, r, Kept)) = Samples
      /\ Hits(s, Len(s), Class("run", c, r, Phases)) = (IF name = "diagnostic" THEN 1 ELSE Warmups) + Samples
      /\ name \in RowKeepers => /\ Hits(s, Len(s), Class("build", c, r, Kept)) = BuildRounds - 1
                                /\ Hits(s, Len(s), Class("build", c, r, Phases)) = BuildRounds
      /\ name = "diagnostic" /\ ~(reuse(o) /\ r = Roles[1]) => Hits(s, Len(s), Class("build", c, r, Kept)) = 1
  BY <1>6 DEF Counted
<1> QED BY <1>4, <1>5, <1>6, <1>7

(* Only passes are recorded of a row that passes.                         *)
LEMMA PassingRow ==
  ASSUME FailuresKept, NEW kind, NEW k, row[k] = "pass"
  PROVE  \A j \in Of(kind, k) : raw[j].status = "pass"
BY DEF FailuresKept, Of

(* What is summarized is judged by a complete set of observations: a row     *)
(* that passed has every median, and one that failed has none of its runs.   *)
LEMMA RowIsJudged ==
  ASSUME controller \in Snapshots, PlaceInv, RecordsInv, Going,
         NEW c \in CaseIds, CaseSettled(c), NEW r \in ToSet(RolesOf(options, c))
  PROVE  Judged(Row(c, r))
<1>1. PICK k : k = <<c, r>> /\ k \in Keys /\ c # 0
  BY RowTexts
<1>2. PICK x : x = Row(c, r)
  OBVIOUS
<1>3. /\ x.case = c /\ x.role = r /\ x.status = row[k] /\ x.runtime = Runtime(Of("run", k)) /\ x.samples = Retained(Of("run", k))
      /\ x.build = CASE controller \in {"daily", "weekly"} -> summarize(Of("build", k), BuildRounds - 1)
                          [] controller = "diagnostic" ->
                               (reuse(options) /\ r = Roles[1]) \/ summarize(Of("build", k), 1)
                          [] OTHER -> TRUE
  BY <1>1, <1>2 DEF Row
<1>4. Samples \in Nat /\ Samples > 0
  BY MeasurementAssumption
<1>5. ASSUME row[k] = "pass"
      PROVE  /\ Retained(Of("run", k)) = Samples
             /\ Cardinality(Of("run", k)) = (IF controller = "diagnostic" THEN 1 ELSE Warmups) + Samples
             /\ controller \in RowKeepers => Retained(Of("build", k)) = BuildRounds - 1
             /\ controller = "diagnostic" /\ ~(reuse(options) /\ r = Roles[1]) => Retained(Of("build", k)) = 1
             /\ \A j \in Of("run", k) : raw[j].status = "pass"
             /\ \A j \in Of("build", k) : raw[j].status = "pass"
  <2>1. row[<<c, r>>] = "pass" /\ Tally /\ FailuresKept
    BY <1>1, <1>5 DEF RecordsInv
  <2>2. \A j \in Of("run", k) : raw[j].status = "pass"
    BY <1>5, <2>1, PassingRow
  <2>3. \A j \in Of("build", k) : raw[j].status = "pass"
    BY <1>5, <2>1, PassingRow
  <2> QED BY <1>1, <2>1, <2>2, <2>3, CaseCounts
<1>6. CASE controller \in RowKeepers
  <2>1. Runtime(Of("run", k)) = summarize(Of("run", k), Samples)
    BY <1>6 DEF Runtime, Timed, RowKeepers
  <2>2. x.build = summarize(Of("build", k), BuildRounds - 1)
    BY <1>3, <1>6 DEF RowKeepers
  <2>3. CASE row[k] = "pass"
    <3>1. summarize(Of("run", k), Samples) /\ summarize(Of("build", k), BuildRounds - 1)
      BY <1>5, <1>6, <2>3 DEF summarize
    <3> QED BY <1>2, <1>3, <1>6, <2>1, <2>2, <2>3, <3>1 DEF Judged, RowKeepers
  <2>4. CASE row[k] # "pass"
    <3>1. PICK j \in DOMAIN raw : Key(raw[j].item) = k /\ raw[j].status # "pass"
      BY <1>1, <2>4 DEF RecordsInv, FailuresKept
    <3>2. raw[j].item.kind \in {"build", "run"}
      <4>1. raw[j].item.case # 0
        BY <1>1, <3>1 DEF Key
      <4> QED BY <4>1, RecordedItem DEF RecordsInv
    <3>3. ~summarize(Of("run", k), Samples)
      <4>1. CASE raw[j].item.kind = "run"
        BY <3>1, <4>1 DEF summarize, Of
      <4>2. CASE raw[j].item.kind = "build"
        <5>1. \A m \in DOMAIN raw : raw[m].item.kind = "run" => Key(raw[m].item) # k
          BY <1>6, <3>1, <4>2 DEF RecordsInv, BuildFailed
        <5>2. Of("run", k) = {}
          BY <5>1 DEF Of
        <5>3. {m \in Of("run", k) : raw[m].item.phase \in {"retained", "steady"}} = {}
          BY <5>2
        <5>4. Retained(Of("run", k)) = 0
          BY <5>3, FS_EmptySet DEF Retained
        <5> QED BY <1>4, <5>4 DEF summarize
      <4> QED BY <3>2, <4>1, <4>2
    <3> QED BY <1>1, <1>2, <1>3, <1>6, <2>1, <2>4, <3>3 DEF Judged, RowKeepers
  <2> QED BY <2>3, <2>4
<1>7. ASSUME controller \notin RowKeepers PROVE row[k] = "pass"
  <2>1. \A j \in DOMAIN raw : raw[j].status = "pass"
    BY <1>7 DEF RecordsInv, AllPassing
  <2> QED BY <1>1, <2>1 DEF RecordsInv, FailuresKept
<1>8. CASE controller = "representative"
  <2>1. row[k] = "pass"
    BY <1>7, <1>8 DEF RowKeepers
  <2>2. Runtime(Of("run", k)) = representative_summarize(Of("run", k))
    BY <1>8 DEF Runtime, Timed
  <2>3. representative_summarize(Of("run", k)) /\ Retained(Of("run", k)) = Samples
    BY <1>4, <1>5, <2>1 DEF representative_summarize
  <2> QED BY <1>2, <1>3, <1>8, <2>2, <2>3 DEF Judged, RowKeepers
<1>9. CASE controller = "diagnostic"
  <2>1. row[k] = "pass"
    BY <1>7, <1>9 DEF RowKeepers
  <2>2. Runtime(Of("run", k)) = diagnostic_summary(Of("run", k))
    BY <1>9 DEF Runtime, Timed
  <2>3. diagnostic_summary(Of("run", k))
    BY <1>5, <1>9, <2>1 DEF diagnostic_summary, summarize
  <2>4. x.build
    <3>1. x.build = ((reuse(options) /\ r = Roles[1]) \/ summarize(Of("build", k), 1))
      BY <1>3, <1>9
    <3>2. ~(reuse(options) /\ r = Roles[1]) => summarize(Of("build", k), 1)
      BY <1>5, <1>9, <2>1 DEF summarize
    <3> QED BY <3>1, <3>2
  <2> QED BY <1>2, <1>3, <1>9, <2>2, <2>3, <2>4 DEF Judged, RowKeepers
<1> QED BY <1>6, <1>8, <1>9 DEF Snapshots, RowKeepers

(* No case is summarized twice, and one that is summarized has a row of each *)
(* of its compilers.                                                         *)
LEMMA SummarizeRows ==
  ASSUME controller \in Snapshots, PlaceInv, RecordsInv, RowsInv, Summarize, PlaceInv', taken' = taken + 1
  PROVE  RowsInv'
<1>1. /\ UNCHANGED <<controller, options, row, raw>> /\ Going /\ obs.stage = "none" /\ Head(todo).kind = "summarize"
      /\ rows' = rows \cup {Row(Head(todo).case, r) : r \in ToSet(RolesOf(options, Head(todo).case))}
  BY DEF Summarize, Going
<1>2. PICK c : c = Head(todo).case
  OBVIOUS
<1>3. /\ c \in CaseIds /\ CaseSettled(c) /\ taken \in Nat
      /\ Schedule[taken + 1].kind = "summarize" /\ Schedule[taken + 1].case = c /\ taken + 1 \in 1..Len(Schedule)
  BY <1>1, <1>2, SummaryNext
<1>4. Schedule' = Schedule /\ CaseIds' = CaseIds
  BY <1>1, SameProgram
<1>5. PICK T : T = ToSet(RolesOf(options, c))
  OBVIOUS
<1>6. rows' = rows \cup {Row(c, r) : r \in T}
  BY <1>1, <1>2, <1>5
<1>7. \A r \in T : Row(c, r).case = c /\ Row(c, r).role = r
  BY DEF Row
<1>8. \E r : r \in T
  <2>1. ToSet(RolesOf(options, c)) = ToSet(Roles) \cup (IF HasControls(options, c) THEN Controls ELSE {})
    BY RolesOfArranged
  <2>2. 1 \in 1..Len(Roles) /\ \A i \in 1..Len(Roles) : Roles[i] \in ToSet(Roles)
    BY RolesAre
  <2> QED BY <1>5, <2>1, <2>2
<1>9. ASSUME NEW x \in rows PROVE x.case # c
  <2>1. PICK i \in 1..taken : Schedule[i].kind = "summarize" /\ Schedule[i].case = x.case
    BY <1>1 DEF RowsInv, RowsScheduled
  <2>2. PICK q \in 1..Len(Schedule) : q = taken + 1
    BY <1>3
  <2>3. i \in 1..Len(Schedule) /\ i < q /\ Len(Schedule) \in Nat
    BY <1>3, <2>2, ScheduleLength DEF PlaceInv
  <2>4. ~Conflict(Schedule[i], Schedule[q])
    BY <2>3, ScheduledInOrder DEF PlaceInv
  <2> QED BY <1>3, <2>1, <2>2, <2>4 DEF Conflict
<1>10. RowsJudged'
  <2> SUFFICES ASSUME NEW x \in rows' PROVE Judged(x)'
    BY DEF RowsJudged
  <2>1. ASSUME x \in rows PROVE Judged(x)
    BY <2>1 DEF RowsInv, RowsJudged
  <2>2. ASSUME x \notin rows PROVE Judged(x)
    <3>1. PICK r \in T : x = Row(c, r)
      BY <1>6, <2>2
    <3>2. Judged(Row(c, r))
      BY <1>1, <1>3, <1>5, RowIsJudged
    <3> QED BY <3>1, <3>2
  <2>3. Judged(x)
    BY <2>1, <2>2
  <2> QED BY <1>1, <2>3 DEF Judged
<1>11. RowsOnce'
  <2>1. ASSUME NEW x \in rows' PROVE x.case \in CaseIds /\ x.role \in ToSet(RolesOf(options, x.case))
    <3>1. CASE x \in rows
      BY <3>1 DEF RowsInv, RowsOnce
    <3>2. CASE x \notin rows
      <4>1. PICK r \in T : x = Row(c, r)
        BY <1>6, <3>2
      <4>2. x.case = c /\ x.role = r
        BY <1>7, <4>1
      <4> QED BY <1>3, <1>5, <4>2
    <3> QED BY <3>1, <3>2
  <2>2. ASSUME NEW x \in rows', NEW y \in rows', x.case = y.case, x.role = y.role PROVE x = y
    <3>1. CASE x \in rows /\ y \in rows
      BY <2>2, <3>1 DEF RowsInv, RowsOnce
    <3>2. CASE x \in rows /\ y \notin rows
      <4>1. PICK r \in T : y = Row(c, r)
        BY <1>6, <3>2
      <4> QED BY <1>7, <1>9, <2>2, <3>2, <4>1
    <3>3. CASE x \notin rows /\ y \in rows
      <4>1. PICK r \in T : x = Row(c, r)
        BY <1>6, <3>3
      <4> QED BY <1>7, <1>9, <2>2, <3>3, <4>1
    <3>4. CASE x \notin rows /\ y \notin rows
      <4>1. PICK r \in T : x = Row(c, r)
        BY <1>6, <3>4
      <4>2. PICK q \in T : y = Row(c, q)
        BY <1>6, <3>4
      <4> QED BY <1>7, <2>2, <4>1, <4>2
    <3> QED BY <3>1, <3>2, <3>3, <3>4
  <2>3. ASSUME NEW x \in rows', NEW r \in ToSet(RolesOf(options, x.case))
        PROVE  \E y \in rows' : y.case = x.case /\ y.role = r
    <3>1. CASE x \in rows
      <4>1. PICK y \in rows : y.case = x.case /\ y.role = r
        BY <3>1 DEF RowsInv, RowsOnce
      <4> QED BY <1>6, <4>1
    <3>2. CASE x \notin rows
      <4>1. PICK q \in T : x = Row(c, q)
        BY <1>6, <3>2
      <4>2. x.case = c /\ r \in T
        BY <1>5, <1>7, <4>1
      <4>3. Row(c, r) \in rows' /\ Row(c, r).case = c /\ Row(c, r).role = r
        BY <1>6, <1>7, <4>2
      <4> QED BY <4>2, <4>3
    <3> QED BY <3>1, <3>2
  <2> QED BY <1>1, <1>4, <2>1, <2>2, <2>3 DEF RowsOnce
<1>12. RowsScheduled'
  <2>1. ASSUME NEW x \in rows' PROVE \E i \in 1..(taken + 1) : Schedule[i].kind = "summarize" /\ Schedule[i].case = x.case
    <3>1. CASE x \in rows
      <4>1. PICK i \in 1..taken : Schedule[i].kind = "summarize" /\ Schedule[i].case = x.case
        BY <1>1, <3>1 DEF RowsInv, RowsScheduled
      <4>2. i \in 1..(taken + 1)
        BY <1>3
      <4> QED BY <4>1, <4>2
    <3>2. CASE x \notin rows
      <4>1. PICK r \in T : x = Row(c, r)
        BY <1>6, <3>2
      <4>2. x.case = c /\ taken + 1 \in 1..(taken + 1)
        BY <1>3, <1>7, <4>1
      <4> QED BY <1>3, <4>2
    <3> QED BY <3>1, <3>2
  <2>2. ASSUME NEW i \in 1..(taken + 1), Schedule[i].kind = "summarize" PROVE \E x \in rows' : x.case = Schedule[i].case
    <3>1. CASE i = taken + 1
      <4>1. PICK r \in T : TRUE
        BY <1>8
      <4>2. Row(c, r) \in rows' /\ Row(c, r).case = c
        BY <1>6, <1>7
      <4> QED BY <1>3, <3>1, <4>2
    <3>2. CASE i # taken + 1
      <4>1. i \in 1..taken
        BY <1>3, <3>2
      <4>2. PICK x \in rows : x.case = Schedule[i].case
        BY <1>1, <2>2, <4>1 DEF RowsInv, RowsScheduled
      <4> QED BY <1>6, <4>2
    <3> QED BY <3>1, <3>2
  <2> QED BY <1>4, <2>1, <2>2 DEF RowsScheduled
<1> QED BY <1>10, <1>11, <1>12 DEF RowsInv

(* What is on disk after each step.                                          *)
LEMMA DiskUnmoved ==
  ASSUME OnDisk, UNCHANGED <<controller, disk, rows>>, Going' => Going, UNCHANGED <<todo, row>> \/ Going
  PROVE  OnDisk'
<1>1. CASE UNCHANGED <<todo, row>>
  <2>1. Going' = Going /\ Published' = Published /\ AllPass' = AllPass /\ SelfPass' = SelfPass
    BY <1>1 DEF Going, Published, AllPass, SelfPass
  <2> QED BY <1>1, <2>1 DEF OnDisk
<1>2. CASE Going
  <2>1. ~Published /\ Published' = Published
    BY <1>2 DEF OnDisk, Going, Published
  <2> QED BY <1>2, <2>1 DEF OnDisk, Published
<1> QED BY <1>1, <1>2

(* A program that raises marks a manifest it has begun.                   *)
LEMMA DiskRaised ==
  ASSUME OnDisk, UNCHANGED <<controller, rows>>, Going, todo' = <<>>,
         disk'.status = disk.status \/ disk'.status = "failed" \/ disk'.status = "torn",
         disk'.rows = disk.rows \/ disk'.rows = rows,
         disk'.status # disk.status \/ disk'.rows # disk.rows => disk.status = "running"
  PROVE  OnDisk'
<1>1. ~Published /\ ~Published'
  BY DEF OnDisk, Going, Published
<1>2. ~Going'
  BY DEF Going
<1>3. disk'.rows \in {{}, rows}
  BY DEF OnDisk
<1>4. disk'.status = "absent" => disk'.rows = {}
  BY DEF OnDisk
<1>5. controller \in RowKeepers => disk'.status \in {"absent", "measured", "measured-with-failures"}
  BY DEF OnDisk
<1> QED BY <1>1, <1>2, <1>3, <1>4, <1>5 DEF OnDisk, Published

(* A manifest that is running is not published.                           *)
LEMMA DiskStarted ==
  ASSUME OnDisk, UNCHANGED <<controller, rows>>, Going, controller = "representative", disk'.status = "running",
         disk'.rows = disk.rows \/ disk'.rows = rows'
  PROVE  OnDisk'
BY DEF OnDisk, Published, RowKeepers

(* A check, also the one that begins the manifest.                        *)
LEMMA CheckDisk ==
  ASSUME controller \in Snapshots, PlaceInv, OnDisk, Check
  PROVE  OnDisk' /\ disk' = [status |-> disk'.status, rows |-> disk'.rows] /\ ~Published'
<1>1. /\ UNCHANGED <<controller, options, row, rows>> /\ Going /\ disk = [status |-> disk.status, rows |-> disk.rows]
      /\ disk' = IF Head(todo).kind = "manifest" THEN [disk EXCEPT !.status = "running"] ELSE disk
  BY DEF Check, Going, PlaceInv, CohortTypes
<1>2. CASE Head(todo).kind = "manifest"
  <2>1. PICK q \in 1..Len(Schedule) : Head(todo) = Schedule[q]
    BY <1>1, HeadOfRest DEF PlaceInv
  <2>2. controller = "representative"
    BY <1>2, <2>1, ScheduledAt DEF PlaceInv
  <2>3. disk' = [status |-> "running", rows |-> disk.rows]
    BY <1>1, <1>2
  <2>4. disk'.status = "running" /\ disk'.rows = disk.rows /\ disk' = [status |-> disk'.status, rows |-> disk'.rows]
    BY <2>3
  <2> QED BY <1>1, <2>2, <2>4, DiskStarted DEF Published
<1>3. CASE Head(todo).kind # "manifest"
  <2>1. disk' = disk
    BY <1>1, <1>3
  <2>2. ~Published
    BY <1>1 DEF OnDisk, Going
  <2>3. OnDisk'
    BY <1>1, <2>1, DiskUnmoved
  <2> QED BY <1>1, <2>1, <2>2, <2>3 DEF Published
<1> QED BY <1>2, <1>3

(* A summary, which a representative manifest saves.                      *)
LEMMA SummarizeDisk ==
  ASSUME controller \in Snapshots, PlaceInv, OnDisk, Summarize
  PROVE  OnDisk' /\ disk' = [status |-> disk'.status, rows |-> disk'.rows] /\ ~Published'
<1>1. /\ UNCHANGED <<controller, options, row>> /\ Going /\ disk = [status |-> disk.status, rows |-> disk.rows]
      /\ disk' = IF controller = "representative" THEN [status |-> "running", rows |-> rows'] ELSE disk
  BY DEF Summarize, Going, PlaceInv, CohortTypes
<1>2. CASE controller = "representative"
  <2>1. disk'.status = "running" /\ disk'.rows = rows' /\ disk' = [status |-> disk'.status, rows |-> disk'.rows]
    BY <1>1, <1>2
  <2> QED BY <1>1, <1>2, <2>1 DEF OnDisk, Published, RowKeepers
<1>3. CASE controller # "representative"
  <2>1. disk' = disk /\ disk.status = "absent" /\ disk.rows = {}
    BY <1>1, <1>3 DEF OnDisk
  <2> QED BY <1>1, <1>3, <2>1 DEF OnDisk, Published
<1> QED BY <1>2, <1>3

(* The last step publishes the rows.                                      *)
LEMMA WriteDisk ==
  ASSUME controller \in Snapshots, Write
  PROVE  OnDisk' /\ disk' = [status |-> disk'.status, rows |-> disk'.rows]
<1>1. PICK v \in Verdict : disk' = [status |-> v, rows |-> rows]
  BY DEF Write
<1>2. UNCHANGED <<controller, row, rows>> /\ todo' = <<>> /\ ~Going'
  BY DEF Write, Going
<1>3. disk'.status = v /\ disk'.rows = rows /\ disk' = [status |-> disk'.status, rows |-> disk'.rows]
  BY <1>1
<1>4. AllPass' = AllPass /\ SelfPass' = SelfPass
  BY <1>2 DEF AllPass, SelfPass
<1>5. CASE controller \in RowKeepers
  <2>1. v = IF AllPass /\ SelfPass THEN "measured" ELSE "measured-with-failures"
    BY <1>5 DEF Verdict, RowKeepers
  <2> QED BY <1>2, <1>3, <1>4, <1>5, <2>1 DEF OnDisk, Published
<1>6. CASE controller \notin RowKeepers
  <2>1. v = "pass"
    BY <1>6 DEF Verdict, RowKeepers, Snapshots
  <2> QED BY <1>2, <1>3, <1>4, <1>6, <2>1 DEF OnDisk, Published
<1> QED BY <1>5, <1>6

(* Every step keeps the invariant.                                           *)
SnapshotInv == PlaceInv /\ RecordsInv /\ RowsInv /\ OnDisk

(* Steps of the process group.                                            *)
LEMMA QuietKeeps ==
  ASSUME controller \in Snapshots, SnapshotInv, Quiet
  PROVE  SnapshotInv'
<1>1. UNCHANGED <<controller, options, todo, row, raw, coverage, binary, rows, disk>>
  BY DEF Quiet, cohort
<1>2. PlaceInv' /\ taken' = taken /\ over' = over /\ Going' = Going /\ Published' = Published
  BY <1>1, QuietPlace DEF SnapshotInv, Going, Published
<1>3. RecordsInv'
  BY <1>1, <1>2, RecordsUnmoved DEF SnapshotInv
<1>4. taken \in Nat
  BY HeadOfRest DEF SnapshotInv, PlaceInv
<1>5. RowsInv'
  <2>1. RowsFall
    BY <1>1 DEF RowsFall
  <2>2. GoesOn
    BY <1>2, <1>4 DEF GoesOn
  <2> QED BY <1>1, <2>1, <2>2, RowsUnmoved DEF SnapshotInv
<1>6. OnDisk'
  BY <1>1, <1>2, DiskUnmoved DEF SnapshotInv
<1> QED BY <1>2, <1>3, <1>5, <1>6 DEF SnapshotInv

(* The start of an observation.                                           *)
LEMMA BeginKeeps ==
  ASSUME controller \in Snapshots, SnapshotInv, Begins
  PROVE  SnapshotInv'
<1>1. UNCHANGED <<controller, options, row, raw, coverage, binary, rows, disk>> /\ Going /\ Head(todo).kind \in Runs
  BY DEF Begins
<1>2. PlaceInv' /\ Going' /\ taken' = taken + 1 /\ over' = over
  BY BeginPlace DEF SnapshotInv
<1>3. RecordsInv'
  BY <1>1, <1>2, RecordsUnmoved DEF SnapshotInv
<1>4. taken \in Nat /\ Head(todo) = Schedule[taken + 1]
  BY <1>1, HeadOfRest DEF SnapshotInv, PlaceInv
<1>5. RowsInv'
  <2>1. RowsFall
    BY <1>1 DEF RowsFall
  <2>2. Schedule[taken + 1].kind # "summarize"
    BY <1>1, <1>4 DEF Runs
  <2>3. ASSUME NEW i \in 1..(taken + 1), Schedule[i].kind = "summarize" PROVE i \in 1..taken
    BY <1>4, <2>2, <2>3
  <2>4. GoesOn
    BY <1>1, <1>2, <1>4, <2>3 DEF GoesOn
  <2> QED BY <1>1, <2>1, <2>4, RowsUnmoved DEF SnapshotInv
<1>6. OnDisk'
  BY <1>1, DiskUnmoved DEF SnapshotInv
<1> QED BY <1>2, <1>3, <1>5, <1>6 DEF SnapshotInv

(* A loss of the program or of its runner.                                *)
LEMMA StopKeeps ==
  ASSUME controller \in Snapshots, SnapshotInv, Stops
  PROVE  SnapshotInv'
<1>1. /\ UNCHANGED <<controller, options, row, raw, coverage, binary, rows>> /\ Going /\ todo' = <<>>
      /\ disk'.status = disk.status \/ disk'.status = "failed" \/ disk'.status = "torn"
      /\ disk'.rows = disk.rows \/ disk'.rows = rows
      /\ disk'.status # disk.status \/ disk'.rows # disk.rows => disk.status = "running"
  BY DEF Stops
<1>2. ~Published
  BY <1>1 DEF SnapshotInv, OnDisk, Going
<1>3. PlaceInv' /\ ~Going' /\ ~Published'
  BY <1>2, StopPlace DEF SnapshotInv
<1>4. RecordsInv'
  BY <1>1, <1>3, RecordsUnmoved DEF SnapshotInv
<1>5. taken \in Nat /\ taken' \in Nat
  <2>1. taken \in Nat
    BY HeadOfRest DEF SnapshotInv, PlaceInv
  <2>2. Len(todo') = 0 /\ Schedule' = Schedule /\ Len(Schedule) \in Nat
    BY <1>1, SameProgram, ScheduleLength DEF SnapshotInv, PlaceInv
  <2> QED BY <2>1, <2>2 DEF taken
<1>6. RowsInv'
  <2>1. RowsFall
    BY <1>1 DEF RowsFall
  <2>2. GoesOn
    BY <1>3, <1>5 DEF GoesOn
  <2> QED BY <1>1, <2>1, <2>2, RowsUnmoved DEF SnapshotInv
<1>7. OnDisk'
  BY <1>1, DiskRaised DEF SnapshotInv
<1> QED BY <1>3, <1>4, <1>6, <1>7 DEF SnapshotInv

(* The end of an observation.                                             *)
LEMMA RecordKeeps ==
  ASSUME controller \in Snapshots, SnapshotInv, Record
  PROVE  SnapshotInv'
<1>1. PICK s, d : Noted(s, d)
  BY RecordNotes DEF SnapshotInv, PlaceInv
<1>2. /\ PlaceInv'
      /\ Raises(s) => ~Going' /\ ~Published'
      /\ ~Raises(s) => Going' /\ taken' = taken /\ ~Published'
  BY <1>1, RecordPlace DEF SnapshotInv
<1>3. RecordsInv'
  BY <1>1, RecordsNoted DEF SnapshotInv
<1>4. UNCHANGED <<controller, options, rows>> /\ Going
  BY <1>1, ObservedItem DEF Noted, SnapshotInv
<1>5. taken \in Nat /\ taken' \in Nat
  <2>1. taken \in Nat
    BY HeadOfRest DEF SnapshotInv, PlaceInv
  <2>2. CASE Raises(s)
    <3>1. Len(todo') = 0 /\ Schedule' = Schedule /\ Len(Schedule) \in Nat
      BY <1>1, <1>4, <2>2, SameProgram, ScheduleLength DEF SnapshotInv, PlaceInv, Noted, Raise
    <3> QED BY <2>1, <3>1 DEF taken
  <2>3. CASE ~Raises(s)
    BY <1>2, <2>1, <2>3
  <2> QED BY <2>1, <2>2, <2>3
<1>6. RowsInv'
  <2>1. RowsFall
    <3>1. ASSUME NEW k \in Keys, row[k] # "pass" PROVE row'[k] = row[k]
      BY <1>1, <3>1, RowsStayFailed DEF SnapshotInv
    <3> QED BY <3>1 DEF RowsFall
  <2>2. GoesOn
    BY <1>2, <1>4, <1>5 DEF GoesOn
  <2> QED BY <1>4, <2>1, <2>2, RowsUnmoved DEF SnapshotInv
<1>7. OnDisk'
  <2>1. CASE Raises(s)
    <3>1. todo' = <<>> /\ disk' = IF disk.status = "running" THEN [status |-> "failed", rows |-> rows] ELSE disk
      BY <1>1, <2>1 DEF Noted, Raise
    <3>2. /\ disk'.status = disk.status \/ disk'.status = "failed" \/ disk'.status = "torn"
          /\ disk'.rows = disk.rows \/ disk'.rows = rows
          /\ disk'.status # disk.status \/ disk'.rows # disk.rows => disk.status = "running"
      BY <3>1
    <3> QED BY <1>4, <3>1, <3>2, DiskRaised DEF SnapshotInv
  <2>2. CASE ~Raises(s)
    <3>1. UNCHANGED <<todo, disk>>
      BY <1>1, <2>2 DEF Noted
    <3> QED BY <1>4, <3>1, DiskUnmoved DEF SnapshotInv
  <2> QED BY <2>1, <2>2
<1> QED BY <1>2, <1>3, <1>6, <1>7 DEF SnapshotInv

(* An item that observes nothing.                                         *)
LEMMA PassKeeps ==
  ASSUME controller \in Snapshots, SnapshotInv, Skip \/ Check \/ Summarize \/ Write
  PROVE  SnapshotInv'
<1>1. Passes
  BY PassSteps DEF SnapshotInv, PlaceInv
<1>2. UNCHANGED <<controller, options, row, raw, coverage, binary>> /\ Going /\ obs.stage = "none"
  BY <1>1 DEF Passes
<1>3. OnDisk' /\ disk' = [status |-> disk'.status, rows |-> disk'.rows]
  <2>1. CASE Skip
    <3>1. UNCHANGED <<controller, disk, rows, row>> /\ disk = [status |-> disk.status, rows |-> disk.rows]
      BY <2>1 DEF Skip, SnapshotInv, PlaceInv, CohortTypes
    <3>2. OnDisk'
      BY <1>2, <3>1, DiskUnmoved DEF SnapshotInv
    <3> QED BY <3>1, <3>2
  <2>2. CASE Check
    BY <2>2, CheckDisk DEF SnapshotInv
  <2>3. CASE Summarize
    BY <2>3, SummarizeDisk DEF SnapshotInv
  <2>4. CASE Write
    BY <2>4, WriteDisk DEF SnapshotInv
  <2> QED BY <2>1, <2>2, <2>3, <2>4
<1>4. PlaceInv' /\ taken' = taken + 1 /\ over = taken /\ over' = taken + 1
  BY <1>1, <1>3, PassPlace DEF SnapshotInv
<1>5. RecordsInv'
  BY <1>1, <1>4, RecordsPassed DEF SnapshotInv
<1>6. taken \in Nat /\ Head(todo) = Schedule[taken + 1]
  BY <1>2, HeadOfRest DEF SnapshotInv, PlaceInv
<1>7. RowsInv'
  <2>1. CASE Summarize
    BY <1>4, <2>1, SummarizeRows DEF SnapshotInv
  <2>2. CASE Skip \/ Check \/ Write
    <3>1. UNCHANGED rows
      BY <2>2 DEF Skip, Check, Write
    <3>2. Head(todo).kind # "summarize"
      <4>1. CASE Skip
        BY <4>1 DEF Skip, Skipped, Runs
      <4>2. CASE Check
        BY <4>2 DEF Check
      <4>3. CASE Write
        <5>1. Head(todo) = Finish[1]
          BY <4>3 DEF Write, Finish
        <5> QED BY <5>1 DEF Finish, Item
      <4> QED BY <2>2, <4>1, <4>2, <4>3
    <3>3. RowsFall
      BY <1>2 DEF RowsFall
    <3>4. ASSUME NEW i \in 1..(taken + 1), Schedule[i].kind = "summarize" PROVE i \in 1..taken
      BY <1>6, <3>2, <3>4
    <3>5. GoesOn
      BY <1>2, <1>4, <1>6, <3>4 DEF GoesOn
    <3> QED BY <1>2, <3>1, <3>3, <3>5, RowsUnmoved DEF SnapshotInv
  <2> QED BY <2>1, <2>2
<1> QED BY <1>3, <1>4, <1>5, <1>7 DEF SnapshotInv

(* Every step.                                                            *)
LEMMA SnapshotStep ==
  ASSUME controller \in Snapshots, SnapshotInv, ObserveInv, [Next]_vars
  PROVE  SnapshotInv' /\ controller' = controller
<1>1. CohortTypes
  BY DEF SnapshotInv, PlaceInv
<1>2. CASE \/ Fork \/ Exit \/ ChildExit \/ TimerSet \/ TimerKill \/ Reap \/ LoopEnd \/ LoopStop \/ LoopJoin
           \/ Classify \/ Cleanup \/ Done \/ UNCHANGED vars
  <2>1. Quiet
    BY <1>1, <1>2, QuietSteps
  <2>2. controller' = controller
    BY <2>1 DEF Quiet, cohort
  <2> QED BY <2>1, <2>2, QuietKeeps
<1>3. CASE Skip \/ Check \/ Summarize \/ Write
  <2>1. controller' = controller
    BY <1>3 DEF Skip, Check, Summarize, Write
  <2> QED BY <1>3, <2>1, PassKeeps
<1>4. CASE Begin
  <2>1. Begins /\ controller' = controller
    BY <1>4, BeginsNext DEF Begins
  <2> QED BY <2>1, BeginKeeps
<1>5. CASE RaiseOutside \/ Lost
  <2>1. Stops /\ controller' = controller
    BY <1>1, <1>5, StopSteps DEF Stops
  <2> QED BY <2>1, StopKeeps
<1>6. CASE Record
  <2>1. controller' = controller
    BY <1>6 DEF Record
  <2> QED BY <1>6, <2>1, RecordKeeps
<1> QED BY <1>2, <1>3, <1>4, <1>5, <1>6 DEF Next, Step

(* When the program starts nothing has been taken of its schedule.           *)
LEMMA SnapshotInit ==
  ASSUME Init, controller \in Snapshots
  PROVE  SnapshotInv
<1>1. /\ controller \in Controllers /\ options \in IF controller = "diagnostic" THEN SUBSET {"reuse", "controls"} ELSE {{}}
      /\ todo = Schedule /\ row = [k \in Keys |-> "pass"] /\ raw = <<>> /\ coverage = {} /\ rows = {}
      /\ obs.stage = "none" /\ obs.status = "pass" /\ disk.status = "absent" /\ disk.rows = {}
      /\ disk = [status |-> disk.status, rows |-> disk.rows]
  BY DEF Init, NoObs
<1>2. Schedule \in Seq(Items) /\ Len(Schedule) > 0
  <2>1. Cases \in Nat
    BY <1>1, MeasurementAssumption DEF Cases
  <2>2. PICK name, n, o : name = controller /\ n = Cases /\ o = options
    OBVIOUS
  <2>3. Shape(Program(name, n, o), name, n)
    BY <1>1, <2>1, <2>2, ProgramShape
  <2>4. Schedule = Program(name, n, o)
    BY <2>2 DEF Schedule
  <2> QED BY <2>3, <2>4 DEF Shape
<1>3. CohortTypes
  <2>1. row \in [Keys -> Statuses] /\ "pass" \in Statuses
    BY <1>1 DEF Statuses
  <2>2. raw \in Seq(Observations)
    BY <1>1
  <2> QED BY <1>1, <1>2, <2>1, <2>2 DEF CohortTypes
<1>4. taken = 0 /\ over = 0 /\ Len(Schedule) \in Nat /\ Going /\ ~Published
  BY <1>1, <1>2 DEF taken, over, Going, Published
<1>5. PlaceInv
  <2>1. RestOfSchedule
    BY <1>1, <1>4 DEF RestOfSchedule
  <2>2. InFlight
    BY <1>1 DEF InFlight
  <2> QED BY <1>3, <2>1, <2>2 DEF PlaceInv
<1>6. RecordsInv
  <2>1. DOMAIN raw = {} /\ Len(raw) = 0
    BY <1>1
  <2>2. Tally
    <3> SUFFICES ASSUME NEW X \in SUBSET Observed(Cases)
                 PROVE  Hits(raw, Len(raw), [item : X, status : Statuses]) = Hits(Schedule, over, X)
      BY DEF Tally
    <3>1. PICK Y : Y = [item : X, status : Statuses]
      OBVIOUS
    <3>2. Hits(raw, 0, Y) = 0 /\ Hits(Schedule, 0, X) = 0
      BY HitsNone
    <3> QED BY <1>4, <2>1, <3>1, <3>2
  <2>3. InOrder
    <3>1. TimingsOf(Schedule)[0] = <<>>
      BY <1>4, TimingsNone
    <3> QED BY <1>1, <1>4, <3>1 DEF InOrder
  <2>4. RecordsScheduled /\ BuildFailed /\ AllPassing /\ BinaryKnown
    BY <2>1 DEF RecordsScheduled, BuildFailed, AllPassing, BinaryKnown
  <2>5. FailuresKept
    BY <1>1, <2>1 DEF FailuresKept
  <2>6. CoverageKnown
    BY <1>1 DEF CoverageKnown
  <2> QED BY <2>2, <2>3, <2>4, <2>5, <2>6 DEF RecordsInv
<1>7. RowsInv
  BY <1>1, <1>4 DEF RowsInv, RowsJudged, RowsOnce, RowsScheduled
<1>8. OnDisk
  BY <1>1, <1>4 DEF OnDisk, Published
<1> QED BY <1>5, <1>6, <1>7, <1>8 DEF SnapshotInv

(* The array-loop and hash controllers measure nothing for publication.      *)
MeasuredIsKept ==
  /\ disk = [status |-> disk.status, rows |-> disk.rows]
  /\ disk.status \in {"measured", "measured-with-failures"} => controller \in RowKeepers

(* Only a program that keeps rows ever marks a snapshot as measured.      *)
LEMMA MeasuredStep ==
  ASSUME MeasuredIsKept, [Next]_vars
  PROVE  MeasuredIsKept' /\ controller' = controller
<1>1. controller' = controller
  BY DEF Next, Step, Fork, Exit, ChildExit, TimerSet, TimerKill, Reap, LoopEnd, LoopStop, LoopJoin, Classify, Cleanup,
     Done, vars, cohort, Skip, Check, Summarize, Write, Begin, RaiseOutside, Lost, Record
<1>2. CASE \/ Fork \/ Exit \/ ChildExit \/ TimerSet \/ TimerKill \/ Reap \/ LoopEnd \/ LoopStop \/ LoopJoin
           \/ Classify \/ Cleanup \/ Done \/ Skip \/ Begin \/ UNCHANGED vars
  <2>1. disk' = disk
    BY <1>2 DEF Fork, Exit, ChildExit, TimerSet, TimerKill, Reap, LoopEnd, LoopStop, LoopJoin, Classify, Cleanup,
       Done, vars, cohort, Skip, Begin
  <2> QED BY <1>1, <2>1 DEF MeasuredIsKept
<1>3. ASSUME NEW v, NEW w, disk' = [status |-> v, rows |-> w],
             v = disk.status \/ v \notin {"measured", "measured-with-failures"} \/ controller \in RowKeepers
      PROVE  MeasuredIsKept'
  <2>1. disk'.status = v /\ disk'.rows = w
    BY <1>3
  <2>2. disk' = [status |-> disk'.status, rows |-> disk'.rows]
    BY <1>3, <2>1
  <2> QED BY <1>1, <1>3, <2>1, <2>2 DEF MeasuredIsKept
<1>4. CASE RaiseOutside \/ Record
  <2>1. disk' = disk \/ disk' = [status |-> "failed", rows |-> rows]
    BY <1>4 DEF RaiseOutside, Record, Raise
  <2> QED BY <1>1, <1>3, <2>1 DEF MeasuredIsKept
<1>5. CASE Check
  <2>1. disk' = disk \/ disk' = [disk EXCEPT !.status = "running"]
    BY <1>5 DEF Check
  <2>2. [disk EXCEPT !.status = "running"] = [status |-> "running", rows |-> disk.rows]
    BY DEF MeasuredIsKept
  <2> QED BY <1>1, <1>3, <2>1, <2>2 DEF MeasuredIsKept
<1>6. CASE Summarize
  <2>1. disk' = disk \/ disk' = [status |-> "running", rows |-> rows']
    BY <1>6 DEF Summarize
  <2> QED BY <1>1, <1>3, <2>1 DEF MeasuredIsKept
<1>7. CASE Write
  <2>1. PICK v \in Verdict : disk' = [status |-> v, rows |-> rows]
    BY <1>7 DEF Write
  <2>2. controller \notin RowKeepers => v = "pass" \/ v = "failed"
    BY DEF Verdict, RowKeepers
  <2>3. v = disk.status \/ v \notin {"measured", "measured-with-failures"} \/ controller \in RowKeepers
    BY <2>2
  <2>4. disk' = [status |-> v, rows |-> rows]
    BY <2>1
  <2> QED BY <1>1, <1>3, <2>3, <2>4
<1>8. CASE Lost
  <2>1. disk' = disk \/ disk' = [disk EXCEPT !.status = "torn"]
    BY <1>8 DEF Lost
  <2>2. [disk EXCEPT !.status = "torn"] = [status |-> "torn", rows |-> disk.rows]
    BY DEF MeasuredIsKept
  <2> QED BY <1>1, <1>3, <2>1, <2>2 DEF MeasuredIsKept
<1> QED BY <1>1, <1>2, <1>4, <1>5, <1>6, <1>7, <1>8 DEF Next, Step

(* The invariant of a measurement.                                           *)
CohortKept == (controller \in Snapshots => SnapshotInv) /\ MeasuredIsKept

(* The inductive invariant of a snapshot.                                 *)
LEMMA CohortInvariant == Spec => []CohortKept
<1>1. Init => CohortKept
  <2>1. ASSUME Init PROVE MeasuredIsKept
    BY <2>1 DEF Init, MeasuredIsKept
  <2> QED BY <2>1, SnapshotInit DEF CohortKept
<1>2. ASSUME CohortKept, ObserveInv, [Next]_vars
      PROVE  CohortKept'
  <2>1. MeasuredIsKept' /\ controller' = controller
    BY <1>2, MeasuredStep DEF CohortKept
  <2>2. controller \in Snapshots => SnapshotInv'
    BY <1>2, SnapshotStep DEF CohortKept
  <2> QED BY <2>1, <2>2 DEF CohortKept
<1> QED BY <1>1, <1>2, ObserveInvariant, PTL DEF Spec

(* A snapshot that has been published has the rows of every case, and every  *)
(* observation of the schedule was taken.                                    *)
LEMMA WhenPublished ==
  ASSUME controller \in Snapshots, SnapshotInv, Published
  PROVE  /\ todo = <<>> /\ disk.rows = rows /\ over = Len(Schedule) /\ taken = Len(Schedule) /\ Len(Schedule) \in Nat
         /\ \A c \in CaseIds : CaseSettled(c)
<1>1. todo = <<>> /\ disk.rows = rows
  BY DEF SnapshotInv, OnDisk
<1>2. obs.stage = "none"
  BY <1>1 DEF SnapshotInv, PlaceInv, InFlight, Going
<1>3. Len(Schedule) \in Nat /\ Len(todo) = 0
  BY <1>1, ScheduleLength DEF SnapshotInv, PlaceInv
<1>4. taken = Len(Schedule) /\ over = Len(Schedule)
  BY <1>2, <1>3 DEF taken, over
<1>5. \A c \in CaseIds : CaseSettled(c)
  BY <1>4 DEF CaseSettled
<1> QED BY <1>1, <1>3, <1>4, <1>5

(* What is published has a row of each role of each case.                 *)
LEMMA CasesSummarized ==
  ASSUME controller \in Snapshots, SnapshotInv, Published, NEW c \in CaseIds, NEW r \in ToSet(RolesOf(options, c))
  PROVE  \E x \in rows : x.case = c /\ x.role = r
<1>1. PICK i \in 1..Len(Schedule) : Schedule[i] = Summary(c)[1]
  BY ScheduledSummary DEF SnapshotInv, PlaceInv
<1>2. Schedule[i].kind = "summarize" /\ Schedule[i].case = c
  BY <1>1 DEF Summary, Item
<1>3. i \in 1..taken
  BY WhenPublished
<1>4. PICK x \in rows : x.case = c
  BY <1>2, <1>3 DEF SnapshotInv, RowsInv, RowsScheduled
<1>5. \E y \in rows : y.case = x.case /\ y.role = r
  BY <1>4 DEF SnapshotInv, RowsInv, RowsOnce
<1> QED BY <1>4, <1>5

(* Only a diagnostic has controls.                                        *)
LEMMA OrdinaryRoles ==
  ASSUME controller \in Snapshots, SnapshotInv, controller # "diagnostic", NEW c
  PROVE  RolesOf(options, c) = Roles
<1>1. options = {}
  BY DEF SnapshotInv, PlaceInv, CohortTypes
<1> QED BY <1>1, RolesWithout

(* What is counted is there.                                              *)
LEMMA NotEmpty ==
  ASSUME NEW A, Retained(A) # 0
  PROVE  \E j : j \in A
<1>1. CASE A = {}
  <2>1. {j \in A : raw[j].item.phase \in {"retained", "steady"}} = {}
    BY <1>1
  <2> QED BY <2>1, FS_EmptySet DEF Retained
<1> QED BY <1>1

(* The self compilation of a daily run, when its row passes.                 *)
LEMMA SelfCounts ==
  ASSUME controller = "daily", SnapshotInv, Published, row[<<0, "self">>] = "pass"
  PROVE  /\ Retained(Of("compiler-ir", <<0, "self">>)) = 1 /\ Cardinality(Of("compiler-ir", <<0, "self">>)) = 1
         /\ Retained(Of("compiler-self", <<0, "self">>)) = SelfBuilds - 1
         /\ Cardinality(Of("compiler-self", <<0, "self">>)) = SelfBuilds
<1>1. controller \in Snapshots /\ PlaceInv /\ Tally
  BY DEF Snapshots, SnapshotInv, RecordsInv
<1>2. "self" \in Texts /\ <<0, "self">> \in Keys /\ 0 \in Nat
  BY DEF Texts, Keys
<1>3. over = Len(Schedule)
  BY <1>1, WhenPublished
<1>4. ASSUME NEW kind \in {"compiler-ir", "compiler-self"}
      PROVE  /\ Retained(Of(kind, <<0, "self">>)) = Hits(Schedule, Len(Schedule), Class(kind, 0, "self", Kept))
             /\ Cardinality(Of(kind, <<0, "self">>)) = Hits(Schedule, Len(Schedule), Class(kind, 0, "self", Phases))
  <2>1. kind \in Recorded
    BY DEF Recorded, Runs
  <2>2. ASSUME NEW P \in {Kept, Phases}
        PROVE  Cardinality({j \in Of(kind, <<0, "self">>) : raw[j].item.phase \in P})
                 = Hits(Schedule, over, Class(kind, 0, "self", P))
    BY <1>1, <1>2, <2>1, TalliedClass
  <2>3. Cardinality({j \in Of(kind, <<0, "self">>) : raw[j].item.phase \in Kept})
          = Hits(Schedule, over, Class(kind, 0, "self", Kept))
    BY <2>2
  <2>4. Cardinality({j \in Of(kind, <<0, "self">>) : raw[j].item.phase \in Phases})
          = Hits(Schedule, over, Class(kind, 0, "self", Phases))
    BY <2>2
  <2>5. {j \in Of(kind, <<0, "self">>) : raw[j].item.phase \in Phases} = Of(kind, <<0, "self">>)
    BY <1>1, AllPhases
  <2> QED BY <1>3, <2>3, <2>4, <2>5, RetainedIs
<1>5. PICK s : s = Schedule /\ SelfCounted(s)
  BY <1>1, ScheduleIs DEF PlaceInv
<1>6. Kept # Phases
  BY DEF Kept, Phases
<1>7. ASSUME NEW P \in {Kept, Phases}
      PROVE  /\ Hits(s, Len(s), Class("compiler-ir", 0, "self", P)) = 1
             /\ Hits(s, Len(s), Class("compiler-self", 0, "self", P)) = IF P = Kept THEN SelfBuilds - 1 ELSE SelfBuilds
  BY <1>5 DEF SelfCounted
<1>8. /\ Hits(s, Len(s), Class("compiler-ir", 0, "self", Kept)) = 1
      /\ Hits(s, Len(s), Class("compiler-self", 0, "self", Kept)) = SelfBuilds - 1
  BY <1>7
<1>9. /\ Hits(s, Len(s), Class("compiler-ir", 0, "self", Phases)) = 1
      /\ Hits(s, Len(s), Class("compiler-self", 0, "self", Phases)) = SelfBuilds
  BY <1>6, <1>7
<1>10. /\ Retained(Of("compiler-ir", <<0, "self">>)) = Hits(Schedule, Len(Schedule), Class("compiler-ir", 0, "self", Kept))
       /\ Cardinality(Of("compiler-ir", <<0, "self">>)) = Hits(Schedule, Len(Schedule), Class("compiler-ir", 0, "self", Phases))
  BY <1>4
<1>11. /\ Retained(Of("compiler-self", <<0, "self">>)) = Hits(Schedule, Len(Schedule), Class("compiler-self", 0, "self", Kept))
       /\ Cardinality(Of("compiler-self", <<0, "self">>)) = Hits(Schedule, Len(Schedule), Class("compiler-self", 0, "self", Phases))
  BY <1>4
<1> QED BY <1>5, <1>8, <1>9, <1>10, <1>11

(* What validate demands of a daily or weekly snapshot.                   *)
LEMMA KeptIsValid ==
  ASSUME controller \in RowKeepers, SnapshotInv, Published
  PROVE  validate(disk)
<1>1. controller \in Snapshots /\ controller # "diagnostic"
  BY DEF Snapshots, RowKeepers
<1>2. disk.rows = rows
  BY <1>1, WhenPublished
<1>3. ASSUME NEW c \in CaseIds, NEW r \in ToSet(Roles)
      PROVE  Cardinality({x \in rows : x.case = c /\ x.role = r}) = 1
  <2>1. PICK x \in rows : x.case = c /\ x.role = r
    <3>1. r \in ToSet(RolesOf(options, c))
      BY <1>1, OrdinaryRoles
    <3> QED BY <1>1, <3>1, CasesSummarized
  <2>2. \A y \in rows : y.case = x.case /\ y.role = x.role => x = y
    BY DEF SnapshotInv, RowsInv, RowsOnce
  <2>3. {y \in rows : y.case = c /\ y.role = r} = {x}
    BY <2>1, <2>2
  <2> QED BY <2>3, FS_Singleton
<1>4. ASSUME NEW x \in rows PROVE IF x.status = "pass" THEN x.runtime /\ x.build ELSE ~x.runtime
  <2>1. Judged(x)
    BY DEF SnapshotInv, RowsInv, RowsJudged
  <2> QED BY <2>1 DEF Judged
<1>5. ASSUME controller = "daily", SelfPass PROVE SelfRow.ir /\ SelfRow.build /\ binary # 0
  <2>1. row[<<0, "self">>] = "pass"
    BY <1>5 DEF SelfPass
  <2>2. FailuresKept /\ BinaryKnown
    BY DEF SnapshotInv, RecordsInv
  <2>3. Retained(Of("compiler-ir", <<0, "self">>)) = 1 /\ Retained(Of("compiler-self", <<0, "self">>)) = SelfBuilds - 1
    BY <1>5, <2>1, SelfCounts
  <2>4. \A j \in Of("compiler-ir", <<0, "self">>) : raw[j].status = "pass"
    BY <2>1, <2>2, PassingRow
  <2>5. \A j \in Of("compiler-self", <<0, "self">>) : raw[j].status = "pass"
    BY <2>1, <2>2, PassingRow
  <2>6. SelfRow.ir /\ SelfRow.build
    BY <2>3, <2>4, <2>5 DEF SelfRow, summarize
  <2>7. PICK j : j \in Of("compiler-self", <<0, "self">>)
    <3>1. SelfBuilds - 1 # 0
      BY MeasurementAssumption
    <3> QED BY <2>3, <3>1, NotEmpty
  <2>8. j \in DOMAIN raw /\ raw[j].item.kind = "compiler-self" /\ raw[j].status = "pass"
    BY <2>5, <2>7 DEF Of
  <2>9. binary # 0
    BY <2>2, <2>8 DEF BinaryKnown
  <2> QED BY <2>6, <2>9
<1> QED BY <1>2, <1>3, <1>4, <1>5 DEF validate

(* What validate_snapshot demands of a representative manifest.           *)
LEMMA ManifestIsValid ==
  ASSUME controller = "representative", SnapshotInv
  PROVE  validate_snapshot(disk)
<1>1. controller \in Snapshots /\ controller # "diagnostic"
  BY DEF Snapshots
<1>2. ASSUME NEW x \in rows
      PROVE  x.runtime /\ x.samples = Samples /\ {y.role : y \in {z \in rows : z.case = x.case}} = ToSet(Roles)
  <2>1. Judged(x)
    BY DEF SnapshotInv, RowsInv, RowsJudged
  <2>2. ToSet(RolesOf(options, x.case)) = ToSet(Roles)
    BY <1>1, OrdinaryRoles
  <2>3. \A y \in rows : y.role \in ToSet(RolesOf(options, y.case))
    BY DEF SnapshotInv, RowsInv, RowsOnce
  <2>4. \A r \in ToSet(RolesOf(options, x.case)) : \E y \in rows : y.case = x.case /\ y.role = r
    BY DEF SnapshotInv, RowsInv, RowsOnce
  <2>5. {y.role : y \in {z \in rows : z.case = x.case}} = ToSet(Roles)
    BY <2>2, <2>3, <2>4
  <2> QED BY <2>1, <2>5 DEF Judged
<1>3. ASSUME disk.status = "pass" PROVE disk.rows = rows /\ {x.case : x \in rows} = CaseIds
  <2>1. Published
    BY <1>3 DEF Published
  <2>2. \A x \in rows : x.case \in CaseIds
    BY DEF SnapshotInv, RowsInv, RowsOnce
  <2>3. ASSUME NEW c \in CaseIds PROVE \E x \in rows : x.case = c
    <3>1. Roles[1] \in ToSet(RolesOf(options, c))
      BY <1>1, OrdinaryRoles, RolesAre
    <3> QED BY <1>1, <2>1, <3>1, CasesSummarized
  <2> QED BY <1>1, <2>1, <2>2, <2>3, WhenPublished
<1>4. disk.rows = {} \/ disk.rows = rows
  BY DEF SnapshotInv, OnDisk
<1> QED BY <1>2, <1>3, <1>4 DEF validate_snapshot

(* Whatever timed out, failed, raised or died, what is left on disk is what  *)
(* the publisher accepts: for any numbers of compilers, cases, rounds and    *)
(* failures, no figure comes from an incomplete set of observations.         *)
THEOREM OnlyGenuineIsPublished == Spec => []PublishedIsGenuine
<1>1. ASSUME CohortKept PROVE PublishedIsGenuine
  <2>1. ASSUME disk.status \in {"measured", "measured-with-failures"} PROVE validate(disk)
    <3>1. controller \in RowKeepers /\ controller \in Snapshots /\ Published
      BY <1>1, <2>1 DEF CohortKept, MeasuredIsKept, RowKeepers, Snapshots, Published
    <3> QED BY <1>1, <3>1, KeptIsValid DEF CohortKept
  <2>2. ASSUME controller = "representative" PROVE validate_snapshot(disk)
    BY <1>1, <2>2, ManifestIsValid DEF CohortKept, Snapshots
  <2>3. ASSUME controller = "diagnostic", disk.status = "pass", NEW x \in disk.rows PROVE x.runtime /\ x.build
    <3>1. controller \in Snapshots /\ SnapshotInv /\ Published
      BY <1>1, <2>3 DEF CohortKept, Snapshots, Published
    <3>2. x \in rows
      BY <2>3, <3>1, WhenPublished
    <3>3. Judged(x)
      BY <3>1, <3>2 DEF SnapshotInv, RowsInv, RowsJudged
    <3> QED BY <2>3, <3>3 DEF Judged
  <2> QED BY <2>1, <2>2, <2>3 DEF PublishedIsGenuine
<1> QED BY <1>1, CohortInvariant, PTL

(* An element of a sequence.                                              *)
LEMMA ElementOf ==
  ASSUME NEW A, NEW s \in Seq(A), NEW i \in DOMAIN s
  PROVE  s[i] \in A
OBVIOUS

(* The cumulative qualification goes by counts and groups; the records it    *)
(* accepts are nevertheless those of the whole schedule, in its order.       *)
LEMMA QualifiedHasAll ==
  ASSUME controller = "daily", SnapshotInv, assess
  PROVE  /\ raw = Timings(Schedule) /\ disk.status # "absent"
         /\ coverage = CaseIds \X ToSet(Roles) /\ binary = 1
<1>1. /\ disk.status = "measured" /\ \A i \in DOMAIN raw : raw[i].status = "pass"
      /\ \A k \in CaseIds \X ToSet(Roles) : k \in coverage
      /\ binary = 1
  BY DEF assess, assessed
<1>2. controller \in Snapshots /\ Published
  BY <1>1 DEF Snapshots, Published
<1>3. \A k \in Keys : row[k] = "pass"
  BY <1>1 DEF SnapshotInv, RecordsInv, FailuresKept
<1>4. raw = TimingsOf(Schedule)[over]
  BY <1>2, <1>3 DEF SnapshotInv, RecordsInv, InOrder
<1>5. over = Len(Schedule)
  BY <1>2, WhenPublished
<1>6. raw = Timings(Schedule)
  BY <1>4, <1>5 DEF Timings
<1>7. coverage = CaseIds \X ToSet(Roles)
  BY <1>1 DEF SnapshotInv, RecordsInv, CoverageKnown
<1> QED BY <1>1, <1>6, <1>7

(* A schedule recorded in full qualifies.                                 *)
LEMMA AllIsQualified ==
  ASSUME controller = "daily", SnapshotInv, raw = Timings(Schedule), disk.status # "absent",
         coverage = CaseIds \X ToSet(Roles), binary = 1
  PROVE  assess
<1>1. controller \in Snapshots /\ controller # "diagnostic" /\ controller \in RowKeepers
  BY DEF Snapshots, RowKeepers
<1>2. disk.status \in {"measured", "measured-with-failures"}
  BY <1>1 DEF SnapshotInv, OnDisk
<1>3. Published
  BY <1>2 DEF Published
<1>4. /\ todo = <<>> /\ disk.rows = rows /\ over = Len(Schedule) /\ Len(Schedule) \in Nat
      /\ \A c \in CaseIds : CaseSettled(c)
  BY <1>1, <1>3, WhenPublished
<1>5. raw \in Seq([item : ToSet(Schedule), status : {"pass"}])
  <2>1. Schedule \in Seq(Items) /\ Len(Schedule) \in 0..Len(Schedule)
    BY <1>1, <1>4, ScheduleLength DEF SnapshotInv, PlaceInv
  <2>2. TimingsOf(Schedule)[Len(Schedule)] \in Seq([item : ToSet(Schedule), status : {"pass"}])
    BY <2>1, TimingsPass
  <2> QED BY <2>2 DEF Timings
<1>6. \A i \in DOMAIN raw : raw[i].status = "pass"
  <2> SUFFICES ASSUME NEW i \in DOMAIN raw PROVE raw[i].status = "pass"
    OBVIOUS
  <2>1. raw[i] \in [item : ToSet(Schedule), status : {"pass"}]
    BY <1>5, ElementOf
  <2> QED BY <2>1
<1>7. \A k \in Keys : row[k] = "pass"
  BY <1>6 DEF SnapshotInv, RecordsInv, FailuresKept
<1>8. ASSUME NEW x \in rows PROVE x.status = "pass"
  <2>1. Judged(x) /\ <<x.case, x.role>> \in Keys
    BY RowsKeys DEF SnapshotInv, RowsInv, RowsJudged
  <2>2. row[<<x.case, x.role>>] = "pass"
    BY <1>7, <2>1
  <2> QED BY <1>1, <2>1, <2>2 DEF Judged
<1>9. <<0, "self">> \in Keys /\ row[<<0, "self">>] = "pass"
  BY <1>7 DEF Keys
<1>10. disk.status = "measured"
  BY <1>2, <1>8, <1>9 DEF AllPass, SelfPass, SnapshotInv, OnDisk
<1>11. Len(raw) = Budget(1 + SelfBuilds)
  <2>1. PICK X : X = Observed(Cases)
    OBVIOUS
  <2>2. X \in SUBSET Observed(Cases) /\ Clean(X)
    <3>1. Keys = KeysOf(Cases)
      BY <1>1, ScheduleIs DEF SnapshotInv, PlaceInv
    <3> QED BY <1>7, <2>1, <3>1 DEF Observed, Clean
  <2>3. Hits(raw, Len(raw), [item : X, status : Statuses]) = Hits(Schedule, over, X)
    BY <1>3, <2>1, <2>2 DEF SnapshotInv, RecordsInv, Tally
  <2>4. Len(raw) \in Nat /\ DOMAIN raw = 1..Len(raw)
    BY DEF SnapshotInv, PlaceInv, CohortTypes
  <2>5. \A j \in 1..Len(raw) : raw[j] \in [item : X, status : Statuses]
    <3> SUFFICES ASSUME NEW j \in DOMAIN raw PROVE raw[j] \in [item : X, status : Statuses]
      BY <2>4
    <3>1. raw[j] \in Observations /\ raw[j].item \in Observed(Cases)
      BY <1>1, <1>3, RecordedItem DEF SnapshotInv, RecordsInv
    <3> QED BY <2>1, <3>1 DEF Observations
  <2>6. Hits(raw, Len(raw), [item : X, status : Statuses]) = Len(raw)
    <3>1. PICK Y : Y = [item : X, status : Statuses]
      OBVIOUS
    <3> QED BY <2>4, <2>5, <3>1, HitsAll
  <2>7. AllCounted(Schedule, Cases)
    BY <1>1, ScheduleIs DEF SnapshotInv, PlaceInv
  <2>8. Len(raw) = Cases * Len(Roles) * (BuildRounds + Warmups + Samples) + 1 + SelfBuilds
    BY <1>4, <2>1, <2>3, <2>6, <2>7 DEF AllCounted
  <2>9. SelfBuilds \in Nat /\ BuildRounds \in Nat /\ Warmups \in Nat /\ Samples \in Nat /\ Len(Roles) \in Nat /\ Cases \in Nat
    BY <1>1, MeasurementAssumption, RolesAre, ScheduleIs DEF SnapshotInv, PlaceInv
  <2>10. PICK b \in Nat : b = Cases * Len(Roles) * (BuildRounds + Warmups + Samples)
    BY <2>9
  <2>11. b + 1 + SelfBuilds = b + (1 + SelfBuilds)
    BY <2>9, <2>10
  <2> QED BY <2>8, <2>10, <2>11 DEF Budget
<1>12. ASSUME NEW k \in CaseIds \X ToSet(Roles)
       PROVE  Group("build", k, 1, BuildRounds - 1) /\ Group("run", k, Warmups, Samples) /\ k \in coverage
  <2>1. PICK c \in CaseIds, r \in ToSet(Roles) : k = <<c, r>>
    OBVIOUS
  <2>2. r \in ToSet(RolesOf(options, c))
    BY <1>1, OrdinaryRoles
  <2>3. row[<<c, r>>] = "pass"
    <3>1. <<c, r>> \in Keys
      BY <2>2, RolesOfKeys
    <3> QED BY <1>7, <3>1
  <2>4. CaseSettled(c) /\ PlaceInv /\ Tally
    BY <1>4 DEF SnapshotInv, RecordsInv
  <2>5. /\ Retained(Of("run", <<c, r>>)) = Samples
        /\ Cardinality(Of("run", <<c, r>>)) = Warmups + Samples
        /\ Retained(Of("build", <<c, r>>)) = BuildRounds - 1
        /\ Cardinality(Of("build", <<c, r>>)) = BuildRounds
    BY <1>1, <1>3, <2>2, <2>3, <2>4, CaseCounts
  <2>6. BuildRounds \in Nat
    BY MeasurementAssumption
  <2>7. 1 + (BuildRounds - 1) = BuildRounds
    BY <2>6
  <2> QED BY <2>1, <2>5, <2>7 DEF Group
<1>13. Group("compiler-ir", <<0, "self">>, 0, 1) /\ Group("compiler-self", <<0, "self">>, 1, SelfBuilds - 1)
  <2>1. /\ Retained(Of("compiler-ir", <<0, "self">>)) = 1 /\ Cardinality(Of("compiler-ir", <<0, "self">>)) = 1
        /\ Retained(Of("compiler-self", <<0, "self">>)) = SelfBuilds - 1
        /\ Cardinality(Of("compiler-self", <<0, "self">>)) = SelfBuilds
    BY <1>3, <1>9, SelfCounts
  <2>2. SelfBuilds \in Nat
    BY MeasurementAssumption
  <2>3. 1 + (SelfBuilds - 1) = SelfBuilds /\ 0 + 1 = 1
    BY <2>2
  <2> QED BY <2>1, <2>3 DEF Group
<1> QED BY <1>4, <1>6, <1>8, <1>10, <1>11, <1>12, <1>13 DEF assess, assessed

(* A daily snapshot qualifies exactly when every scheduled observation was   *)
(* made once, in order, and passed, every program was probed and every self  *)
(* compilation wrote the measured binary; for any compilers and any rounds.  *)
THEOREM QualificationIsExact == Spec => []QualifiedExactly
<1>1. ASSUME CohortKept PROVE QualifiedExactly
  <2> SUFFICES ASSUME controller = "daily"
               PROVE  assess <=> /\ raw = Timings(Schedule) /\ disk.status # "absent"
                                 /\ coverage = CaseIds \X ToSet(Roles) /\ binary = 1
    BY DEF QualifiedExactly
  <2>1. SnapshotInv
    BY <1>1 DEF CohortKept, Snapshots
  <2> QED BY <2>1, QualifiedHasAll, AllIsQualified
<1> QED BY <1>1, CohortInvariant, PTL
=============================================================================
