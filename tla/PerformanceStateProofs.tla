----------------------- MODULE PerformanceStateProofs -----------------------
(***************************************************************************)
(* Proofs about PerformanceState, for every series, retention and number   *)
(* of runs, re-runs, commits and faults: no retained snapshot is lost,     *)
(* reordered or listed twice, and a skipped measurement had been made.     *)
(*                                                                         *)
(* Nothing but the artifacts connects two runs.  The invariant says, for   *)
(* every step a job can be lost at, that the history it carries goes on    *)
(* from every artifact it did not pass over, and that any two artifacts    *)
(* are related in the same way.                                            *)
(***************************************************************************)
EXTENDS PerformanceState, FiniteSetTheorems, SequenceTheorems, WellFoundedInduction, TLAPS

Snapshot == [at : Nat, revision : Nat, fingerprint : Nat, series : Nat]
Statuses == {"none", "running", "measured", "infrastructure-failure", "measurement-failure"}
Attempt == [run : 0..MaxRuns, status : Statuses]
State == [latest : Snapshot, attempt : Attempt, history : Seq(Snapshot), checked : Nat]
Artifact == [run : Runs, state : State, passed : BOOLEAN]
Phases == {"idle", "restore", "plan", "measure", "evidence", "finish", "upload", "end"}
Job == [phase : Phases, run : 0..MaxRuns, checkout : Nat, state : State, passed : SUBSET (0..MaxRuns),
        force : BOOLEAN, measured : BOOLEAN, evidence : BOOLEAN, failed : BOOLEAN]
Inputs == [inputs : Nat, suite : Nat]

(* Equal fingerprints mean equal inputs, since a commit that changes them    *)
(* makes a fingerprint nobody has seen.                                      *)
TreeExact ==
  /\ tree \in Seq(Inputs) /\ head >= 1
  /\ \A r \in 1..head : tree[r].inputs <= r
  /\ \A r, q \in 1..head : tree[r].inputs = tree[q].inputs => tree[r] = tree[q]

(* The latest snapshot carries the fingerprint of the commit it measured.    *)
LatestFine(s) ==
  s.latest # None => s.latest.revision \in 1..head /\ s.latest.fingerprint = fingerprint(s.latest.revision)

(* A history that lists what was measured, in order, and ends with the       *)
(* latest snapshot.                                                          *)
Listed(s) ==
  /\ Len(s.history) <= HistoryLimit /\ InOrder(s.history)
  /\ \A i \in 1..Len(s.history) : s.history[i].at \in 1..clock
  /\ s.latest = IF s.history = <<>> THEN None ELSE Last(s.history)

Fine(s) == s \in State /\ LatestFine(s) /\ Listed(s)

(* The history of s goes on from every artifact but those passed over, of    *)
(* the given runs or earlier.                                                *)
GoesOn(s, runs) ==
  \A i \in 1..Len(artifacts) :
    ~artifacts[i].passed /\ artifacts[i].run \notin runs => Extends(s.history, artifacts[i].state.history)

(* Of two artifacts the later goes on from the earlier.                      *)
Ordered ==
  \A i, k \in 1..Len(artifacts) :
    i < k /\ ~artifacts[i].passed => Extends(artifacts[k].state.history, artifacts[i].state.history)

World ==
  /\ kind \in Series /\ TreeExact /\ clock \in Nat
  /\ {pending, trigger} \subseteq 0..MaxRuns
  /\ artifacts \in Seq(Artifact) /\ Len(artifacts) <= MaxArtifacts
  /\ \A i \in 1..Len(artifacts) : Fine(artifacts[i].state)
  /\ Ordered /\ Fine(page)

(* A job that goes on to measure holds the fingerprint of its own checkout;  *)
(* one that does not has failed, or its latest snapshot measured the inputs. *)
Pinned(j) ==
  /\ j.phase = "measure" \/ j.measured => j.state.checked = fingerprint(j.checkout)
  /\ j.phase \in {"idle", "restore", "plan"} => ~j.measured
  /\ j.phase \in {"evidence", "finish"} /\ ~j.measured => j.failed
  /\ j.phase = "upload" /\ ~j.failed /\ ~j.measured =>
       j.state.latest # None /\ tree[j.state.latest.revision] = tree[j.checkout]

JobFine(j) ==
  /\ j \in Job /\ j.checkout \in 1..head /\ (j.phase # "idle" => j.run \in Runs)
  /\ Fine(j.state) /\ Pinned(j)
  /\ j.phase \in {"plan", "measure", "evidence", "finish", "upload"} => GoesOn(j.state, j.passed)

StateInv == World /\ JobFine(job)

---------------------------------------------------------------------------
(* Histories.                                                                *)

(* The part p of a history h that leaves out its first d snapshots.         *)
Drops(d, h, p) ==
  /\ p \in Seq(Snapshot) /\ Len(p) = Len(h) - d
  /\ \A i \in 1..(Len(h) - d) : p[i] = h[i + d]

(* How many snapshots retention drops from a history of n.                   *)
Dropped(n) == IF n > HistoryLimit THEN n - HistoryLimit ELSE 0

(* Retention keeps the limit when it drops anything.                         *)
LEMMA DroppedIs ==
  ASSUME NEW n \in Nat
  PROVE  /\ Dropped(n) \in 0..n /\ n - Dropped(n) <= HistoryLimit
         /\ Dropped(n) > 0 => n - Dropped(n) = HistoryLimit
         /\ n > 0 => Dropped(n) < n
<1>1. PICK H \in Nat : H = HistoryLimit /\ H > 0
  BY BoundsAssumption
<1> QED BY <1>1 DEF Dropped

(* The most recent part of a history, word for word.                         *)
LEMMA RecentIs ==
  ASSUME NEW h \in Seq(Snapshot)
  PROVE  Drops(Dropped(Len(h)), h, Recent(h))
<1>1. PICK H \in Nat : H = HistoryLimit /\ H > 0
  BY BoundsAssumption
<1>2. PICK n \in Nat : n = Len(h)
  OBVIOUS
<1>3. CASE n > H
  <2>1. PICK m \in Nat : m = n - H + 1
    BY <1>1, <1>3
  <2>2. m \in Int /\ n \in Int /\ m >= 1 /\ m <= n
    BY <1>1, <1>3, <2>1
  <2>3. \A i \in m..n : h[i] \in Snapshot
    BY <1>2, <2>2, ElementOfSeq
  <2>4. PICK p : p = SubSeq(h, m, n)
    OBVIOUS
  <2>5. p \in Seq(Snapshot) /\ Len(p) = n - m + 1
    BY <2>2, <2>3, <2>4, SubSeqProperties
  <2>6. \A i \in 1..(n - m + 1) : p[i] = h[m + i - 1]
    BY <2>2, <2>3, <2>4, SubSeqProperties
  <2>7. n - m + 1 = n - (n - H) /\ \A i \in 1..(n - (n - H)) : m + i - 1 = i + (n - H)
    BY <1>1, <1>3, <2>1
  <2>8. Recent(h) = p /\ Dropped(n) = n - H
    BY <1>1, <1>2, <1>3, <2>1, <2>4 DEF Recent, Dropped
  <2>9. Len(p) = n - (n - H)
    BY <2>5, <2>7
  <2>10. \A i \in 1..(n - (n - H)) : p[i] = h[i + (n - H)]
    BY <2>6, <2>7
  <2> QED BY <1>2, <2>5, <2>8, <2>9, <2>10 DEF Drops
<1>4. CASE ~(n > H)
  <2>1. Recent(h) = h /\ Dropped(n) = 0
    BY <1>1, <1>2, <1>4 DEF Recent, Dropped
  <2> QED BY <1>2, <2>1 DEF Drops
<1> QED BY <1>3, <1>4

(* Every history goes on from itself.                                        *)
LEMMA ExtendsRefl ==
  ASSUME NEW h \in Seq(Snapshot)
  PROVE  Extends(h, h)
<1>1. PICK n \in Nat : n = Len(h)
  OBVIOUS
<1>2. 0 \in 0..n /\ n - 0 <= n /\ \A i \in 1..(n - 0) : h[i] = h[i + 0]
  BY <1>1
<1> QED BY <1>1, <1>2 DEF Extends

(* Every history goes on from the empty one.                                 *)
LEMMA ExtendsEmpty ==
  ASSUME NEW g \in Seq(Snapshot)
  PROVE  Extends(g, <<>>)
<1>1. Len(g) \in Nat /\ Len(<<>>) = 0
  BY EmptySeq
<1>2. 0 \in 0..0 /\ 0 - 0 <= Len(g) /\ \A i : i \notin 1..(0 - 0)
  BY <1>1
<1> QED BY <1>1, <1>2 DEF Extends

(* Only the empty history has an empty one going on from it.                 *)
LEMMA EmptyExtends ==
  ASSUME NEW h \in Seq(Snapshot), Extends(<<>>, h)
  PROVE  h = <<>>
<1>1. Len(<<>>) = 0 /\ Len(h) \in Nat
  BY EmptySeq
<1>2. PICK d \in 0..Len(h) : (d > 0 => Len(<<>>) = HistoryLimit) /\ Len(h) - d <= Len(<<>>)
  BY DEF Extends
<1>3. d = 0
  BY <1>1, <1>2, BoundsAssumption
<1>4. Len(h) = 0
  BY <1>1, <1>2, <1>3
<1> QED BY <1>4, EmptySeq

(* Going on is transitive: a full history stays full.                        *)
LEMMA ExtendsTrans ==
  ASSUME NEW g \in Seq(Snapshot), NEW h \in Seq(Snapshot), NEW k \in Seq(Snapshot),
         Len(g) <= HistoryLimit, Extends(g, h), Extends(h, k)
  PROVE  Extends(g, k)
<1>1. PICK a \in Nat, b \in Nat, c \in Nat, H \in Nat : a = Len(g) /\ b = Len(h) /\ c = Len(k) /\ H = HistoryLimit
  BY BoundsAssumption
<1>2. PICK d \in 0..b : (d > 0 => a = H) /\ b - d <= a /\ \A i \in 1..(b - d) : g[i] = h[i + d]
  BY <1>1 DEF Extends
<1>3. PICK e \in 0..c : (e > 0 => b = H) /\ c - e <= b /\ \A i \in 1..(c - e) : h[i] = k[i + e]
  BY <1>1 DEF Extends
<1>4. a <= H
  BY <1>1
<1>5. d + e > 0 => a = H
  BY <1>2, <1>3, <1>4
<1>6. CASE d + e <= c
  <2>1. PICK f \in 0..c : f = d + e
    BY <1>2, <1>3, <1>6
  <2>2. c - f <= a
    BY <1>2, <1>3, <2>1
  <2>3. ASSUME NEW i \in 1..(c - f) PROVE g[i] = k[i + f]
    <3>1. i \in 1..(b - d) /\ i + d \in 1..(c - e) /\ (i + d) + e = i + f
      BY <1>2, <1>3, <2>1, <2>3
    <3>2. g[i] = h[i + d]
      BY <1>2, <3>1
    <3>3. h[i + d] = k[(i + d) + e]
      BY <1>3, <3>1
    <3> QED BY <3>1, <3>2, <3>3
  <2>4. f > 0 => a = H
    BY <1>5, <2>1
  <2> QED BY <1>1, <2>2, <2>3, <2>4 DEF Extends
<1>7. CASE ~(d + e <= c)
  <2>1. c \in 0..c /\ (c > 0 => a = H) /\ c - c <= a /\ \A i : i \notin 1..(c - c)
    BY <1>2, <1>3, <1>5, <1>7
  <2> QED BY <1>1, <2>1 DEF Extends
<1> QED BY <1>6, <1>7

(* Retention of a longer history goes on from the shorter one, in order.     *)
LEMMA PublishHistory ==
  ASSUME NEW h \in Seq(Snapshot), NEW x \in Snapshot, Len(h) <= HistoryLimit, InOrder(h),
         NEW c \in Nat, \A i \in 1..Len(h) : h[i].at \in 1..c, x.at = c + 1
  PROVE  LET g == Recent(Append(h, x))
         IN  /\ g \in Seq(Snapshot) /\ Len(g) <= HistoryLimit /\ InOrder(g) /\ Extends(g, h)
             /\ g # <<>> /\ Last(g) = x /\ \A i \in 1..Len(g) : g[i].at \in 1..(c + 1)
<1>1. PICK n \in Nat, H \in Nat : n = Len(h) /\ H = HistoryLimit /\ H > 0
  BY BoundsAssumption
<1>2. PICK b : b = Append(h, x)
  OBVIOUS
<1>3. PICK g : g = Recent(b)
  OBVIOUS
<1>4. b \in Seq(Snapshot) /\ Len(b) = n + 1 /\ b[n + 1] = x /\ \A i \in 1..n : b[i] = h[i]
  BY <1>1, <1>2, AppendProperties
<1>5. PICK e \in 0..n : e = Dropped(n + 1) /\ n + 1 - e <= H /\ (e > 0 => n + 1 - e = H)
  <2>1. PICK k \in Nat : k = n + 1 /\ k > 0
    OBVIOUS
  <2>2. PICK d \in 0..k : d = Dropped(k) /\ d < k /\ k - d <= H /\ (d > 0 => k - d = H)
    BY <1>1, <2>1, DroppedIs
  <2>3. d \in 0..n
    BY <2>1, <2>2
  <2> QED BY <2>1, <2>2, <2>3
<1>6. PICK m \in Nat : m = n + 1 - e /\ m > 0 /\ m + e = n + 1
  <2>1. n \in Int /\ e \in Int /\ e <= n
    OBVIOUS
  <2>2. (n + 1) - e \in Nat /\ (n + 1) - e > 0
    BY <2>1
  <2> QED BY <2>1, <2>2
<1>7. g \in Seq(Snapshot) /\ Len(g) = m /\ \A i \in 1..m : g[i] = b[i + e]
  <2>1. Drops(e, b, g)
    BY <1>3, <1>4, <1>5, RecentIs
  <2>2. Len(b) - e = m
    BY <1>4, <1>6
  <2> QED BY <2>1, <2>2 DEF Drops
<1>8. g[m] = x
  <2>1. m \in 1..m
    BY <1>6
  <2> QED BY <1>4, <1>6, <1>7, <2>1
<1>9. ASSUME NEW i \in 1..m, i # m PROVE i + e \in 1..n /\ g[i] = h[i + e]
  <2>1. i + e \in 1..n
    <3>1. i \in Nat /\ e \in Nat /\ i >= 1 /\ i < m /\ e >= 0
      BY <1>5, <1>6, <1>9
    <3>2. i + e >= 1 /\ i + e < m + e
      BY <1>6, <3>1
    <3> QED BY <1>6, <3>1, <3>2
  <2> QED BY <1>4, <1>7, <1>9, <2>1
<1>10. \A i \in 1..n : h[i].at \in 1..c
  BY <1>1
<1>11. ASSUME NEW i \in 1..m PROVE g[i].at \in 1..(c + 1) /\ (i # m => g[i].at < g[m].at)
  <2>1. CASE i = m
    BY <1>8, <2>1
  <2>2. CASE i # m
    BY <1>8, <1>9, <1>10, <2>2
  <2> QED BY <2>1, <2>2
<1>12. InOrder(g)
  <2>1. SUFFICES ASSUME NEW i \in 1..m, NEW k \in 1..m, i < k PROVE g[i].at < g[k].at
    BY <1>7 DEF InOrder
  <2>2. i # m
    BY <2>1
  <2>3. CASE k = m
    BY <1>11, <2>2, <2>3
  <2>4. CASE k # m
    <3>1. i + e \in 1..n /\ k + e \in 1..n /\ g[i] = h[i + e] /\ g[k] = h[k + e]
      BY <1>9, <2>2, <2>4
    <3>2. i + e < k + e
      BY <1>5, <2>1
    <3>3. DOMAIN h = 1..n
      BY <1>1
    <3> QED BY <3>1, <3>2, <3>3 DEF InOrder
  <2> QED BY <2>3, <2>4
<1>13. Extends(g, h)
  <2>1. (e > 0 => m = H) /\ n - e <= m
    BY <1>5, <1>6
  <2>2. ASSUME NEW i \in 1..(n - e) PROVE g[i] = h[i + e]
    <3>1. i \in 1..m /\ i # m
      <4>1. n \in Int /\ e \in Int /\ e <= n
        OBVIOUS
      <4>2. n - e < m
        BY <1>6, <4>1
      <4> QED BY <1>6, <2>2, <4>1, <4>2
    <3> QED BY <1>9, <3>1
  <2> QED BY <1>1, <1>5, <1>7, <2>1, <2>2 DEF Extends
<1>14. g # <<>> /\ Last(g) = x
  BY <1>6, <1>7, <1>8 DEF Last
<1> QED BY <1>1, <1>2, <1>3, <1>5, <1>6, <1>7, <1>11, <1>12, <1>13, <1>14

---------------------------------------------------------------------------
(* States and jobs.                                                          *)

(* The words of a retained state.                                            *)
LEMMA StateFields ==
  ASSUME NEW s \in State
  PROVE  /\ s.latest \in Snapshot /\ s.attempt \in Attempt /\ s.history \in Seq(Snapshot) /\ s.checked \in Nat
         /\ s.attempt.run \in 0..MaxRuns /\ s.attempt.status \in Statuses
BY DEF State, Attempt

(* The words of a job and of the state it holds.                             *)
LEMMA JobFields ==
  ASSUME NEW j \in Job
  PROVE  /\ j.phase \in Phases /\ j.run \in 0..MaxRuns /\ j.checkout \in Nat /\ j.state \in State
         /\ j.passed \subseteq 0..MaxRuns
         /\ j.force \in BOOLEAN /\ j.measured \in BOOLEAN /\ j.evidence \in BOOLEAN /\ j.failed \in BOOLEAN
BY DEF Job

(* The empty state, and a state without a measurement.                       *)
LEMMA EmptyState ==
  /\ None \in Snapshot /\ NoAttempt \in Attempt /\ empty \in State
  /\ empty.latest = None /\ empty.history = <<>> /\ empty.attempt = NoAttempt /\ NoAttempt.run = 0
  /\ clock \in Nat => Fine(empty)
<1>1. None \in Snapshot
  BY DEF None, Snapshot
<1>2. NoAttempt \in Attempt /\ NoAttempt.run = 0
  BY BoundsAssumption DEF NoAttempt, Attempt, Statuses, NoRun
<1>3. <<>> \in Seq(Snapshot) /\ Len(<<>>) = 0 /\ DOMAIN <<>> = {}
  BY EmptySeq
<1>4. empty \in State /\ empty.latest = None /\ empty.history = <<>> /\ empty.attempt = NoAttempt
  BY <1>1, <1>2, <1>3 DEF empty, State
<1>5. LatestFine(empty)
  BY <1>4 DEF LatestFine
<1>6. Listed(empty)
  <2>1. \A i : i \notin 1..0
    OBVIOUS
  <2>2. InOrder(<<>>)
    BY <1>3 DEF InOrder
  <2> QED BY <1>3, <1>4, <2>1, <2>2, BoundsAssumption DEF Listed
<1> QED BY <1>1, <1>2, <1>4, <1>5, <1>6 DEF Fine

(* A state with the same snapshots.                                          *)
LEMMA SameSnapshots ==
  ASSUME NEW s, NEW t \in State, Fine(s), t.history = s.history, t.latest = s.latest
  PROVE  Fine(t) /\ \A runs : GoesOn(s, runs) => GoesOn(t, runs)
BY DEF Fine, LatestFine, Listed, GoesOn

(* The state with the attempt of another one.                                *)
LEMMA OtherAttempt ==
  ASSUME NEW s, NEW a \in Attempt, Fine(s)
  PROVE  LET t == [s EXCEPT !.attempt = a]
         IN  Fine(t) /\ t.history = s.history /\ \A runs : GoesOn(s, runs) => GoesOn(t, runs)
<1> DEFINE t == [s EXCEPT !.attempt = a]
<1>1. s \in State
  BY DEF Fine
<1>2. t \in State /\ t.attempt = a /\ t.latest = s.latest /\ t.history = s.history
  BY <1>1 DEF State
<1> HIDE DEF t
<1>3. Fine(t) /\ \A runs : GoesOn(s, runs) => GoesOn(t, runs)
  BY <1>2, SameSnapshots
<1> QED BY <1>2, <1>3 DEF t

(* What the invariant says of the artifacts and of the job.                  *)
LEMMA WorldFacts ==
  ASSUME StateInv
  PROVE  /\ artifacts \in Seq(Artifact) /\ Len(artifacts) \in Nat /\ Len(artifacts) <= MaxArtifacts
         /\ DOMAIN artifacts = 1..Len(artifacts)
         /\ \A i \in 1..Len(artifacts) : /\ artifacts[i] \in Artifact /\ artifacts[i].run \in Runs
                                         /\ artifacts[i].passed \in BOOLEAN
                                         /\ artifacts[i].state \in State /\ Fine(artifacts[i].state)
                                         /\ artifacts[i].state.history \in Seq(Snapshot)
         /\ Ordered /\ page \in State /\ Fine(page) /\ Fine(empty) /\ clock \in Nat
         /\ trigger \in 0..MaxRuns /\ pending \in 0..MaxRuns
         /\ job \in Job /\ Fine(job.state) /\ Pinned(job) /\ job.checkout \in 1..head
         /\ (job.phase # "idle" => job.run \in Runs) /\ TreeExact
         /\ kind \in {"daily", "weekly", "representative"}
<1>1. artifacts \in Seq(Artifact) /\ Len(artifacts) \in Nat /\ DOMAIN artifacts = 1..Len(artifacts)
  BY DEF StateInv, World
<1>2. \A i \in 1..Len(artifacts) : artifacts[i] \in Artifact
  BY <1>1, ElementOfSeq
<1>3. \A i \in 1..Len(artifacts) : artifacts[i].run \in Runs /\ artifacts[i].state \in State /\ artifacts[i].passed \in BOOLEAN
  BY <1>2 DEF Artifact
<1>4. \A i \in 1..Len(artifacts) : artifacts[i].state.history \in Seq(Snapshot)
  BY <1>3, StateFields
<1>5. Fine(empty)
  BY EmptyState DEF StateInv, World
<1>6. page \in State
  BY DEF StateInv, World, Fine
<1>7. kind \in {"daily", "weekly", "representative"}
  BY BoundsAssumption DEF StateInv, World
<1> QED BY <1>1, <1>2, <1>3, <1>4, <1>5, <1>6, <1>7 DEF StateInv, World, JobFine

---------------------------------------------------------------------------
(* What the next job or page will read.                                      *)

(* A set of positions that is not empty has a last one.                      *)
LEMMA MaxOf ==
  ASSUME NEW n \in Nat, NEW S \in SUBSET (1..n), S # {}
  PROVE  \E m \in S : \A k \in S : k <= m
<1> DEFINE T == {n - k : k \in S}
<1>1. T \in SUBSET Nat /\ T # {}
  <2>1. \A k \in S : n - k \in Nat
    OBVIOUS
  <2>2. T \in SUBSET Nat
    BY <2>1
  <2>3. T # {}
    OBVIOUS
  <2> QED BY <2>2, <2>3
<1>2. PICK t \in T : \A u \in T : ~(u < t)
  <2> HIDE DEF T
  <2>1. PICK x \in T : ~ \E y \in T : <<y, x>> \in OpToRel(<, Nat)
    BY <1>1, NatLessThanWellFounded, WFMin, Zenon
  <2>2. x \in Nat /\ \A y \in T : y \in Nat
    BY <1>1
  <2>3. \A y \in T : ~(y < x)
    BY <2>1, <2>2, Zenon DEF OpToRel
  <2> QED BY <2>3
<1>3. PICK m \in S : t = n - m
  BY <1>2
<1>4. \A k \in S : ~(n - k < n - m)
  BY <1>2, <1>3
<1>5. \A k \in S : k <= m
  BY <1>3, <1>4
<1> QED BY <1>5

(* The newest artifact of a completed run goes on from all the others.       *)
LEMMA RestoredFine ==
  ASSUME StateInv
  PROVE  Fine(Restored) /\ GoesOn(Restored, InProgress)
<1>1. PICK n \in Nat : n = Len(artifacts) /\ DOMAIN artifacts = 1..n
  BY WorldFacts
<1>2. Completed \subseteq 1..n /\ \A i \in 1..n : i \in Completed <=> artifacts[i].run \notin InProgress
  BY <1>1 DEF Completed
<1>3. CASE Completed = {}
  <2>1. Restored = empty
    BY <1>3 DEF Restored
  <2>2. \A i \in 1..n : artifacts[i].run \in InProgress
    BY <1>2, <1>3
  <2> QED BY <1>1, <2>1, <2>2, WorldFacts DEF GoesOn
<1>4. CASE Completed # {}
  <2>1. PICK m \in Completed : \A k \in Completed : k <= m
    BY <1>2, <1>4, MaxOf
  <2>2. \A i \in Completed : (\A k \in Completed : k <= i) => i = m
    BY <1>2, <2>1
  <2>3. NewestOf(Completed) = m
    BY <2>1, <2>2 DEF NewestOf
  <2>4. PICK s : s = artifacts[m].state
    OBVIOUS
  <2>5. Restored = s
    BY <1>4, <2>3, <2>4 DEF Restored
  <2>6. m \in 1..n /\ Fine(s) /\ s.history \in Seq(Snapshot)
    BY <1>1, <1>2, <2>1, <2>4, WorldFacts
  <2>7. ASSUME NEW i \in 1..n, ~artifacts[i].passed, artifacts[i].run \notin InProgress
        PROVE  Extends(s.history, artifacts[i].state.history)
    <3>1. i \in Completed /\ i <= m
      BY <1>2, <2>1, <2>7
    <3>2. CASE i = m
      BY <2>4, <2>6, <3>2, ExtendsRefl
    <3>3. CASE i # m
      <4>1. i < m
        BY <2>6, <3>1, <3>3
      <4> QED BY <1>1, <2>4, <2>6, <2>7, <4>1, WorldFacts DEF Ordered
    <3> QED BY <3>2, <3>3
  <2>8. GoesOn(s, InProgress)
    BY <1>1, <2>7 DEF GoesOn
  <2> QED BY <2>5, <2>6, <2>8
<1> QED BY <1>3, <1>4

(* A state without a measurement has no history.                             *)
LEMMA NoLatest ==
  ASSUME NEW s, Fine(s), s.latest = None
  PROVE  s.history = <<>>
<1>1. SUFFICES ASSUME s.history # <<>> PROVE FALSE
  OBVIOUS
<1>2. PICK h \in Seq(Snapshot) : h = s.history /\ h # <<>>
  BY <1>1, StateFields DEF Fine
<1>3. Len(h) \in 1..Len(h)
  BY <1>2
<1>4. h[Len(h)] = None /\ h[Len(h)].at \in 1..clock
  BY <1>2, <1>3 DEF Fine, Listed, Last
<1>5. None.at = 0
  BY DEF None
<1> QED BY <1>4, <1>5

(* Whatever the representative series falls back to.                         *)
LEMMA FallbackFine ==
  ASSUME StateInv
  PROVE  /\ \A s \in Fallback(Restored) : Fine(s) /\ GoesOn(s, InProgress)
         /\ \A s \in Degraded(Restored) : Fine(s)
<1>1. ASSUME NEW found, Fine(found), NEW t \in PublicStates(found) PROVE Fine(t)
  <2>1. CASE t = [page EXCEPT !.attempt = found.attempt]
    <3>1. found.attempt \in Attempt /\ Fine(page)
      BY <1>1, WorldFacts, StateFields DEF Fine
    <3> QED BY <2>1, <3>1, OtherAttempt
  <2>2. CASE t = page \/ t = found
    BY <1>1, <2>2, WorldFacts
  <2> QED BY <1>1, <2>1, <2>2 DEF PublicStates
<1>2. Fine(Restored) /\ Fine(empty) /\ Fine(page) /\ GoesOn(Restored, InProgress)
  BY RestoredFine, WorldFacts
<1>3. ASSUME NEW s \in Fallback(Restored) PROVE Fine(s) /\ GoesOn(s, InProgress)
  <2>1. CASE Restored.latest # None
    BY <1>2, <1>3, <2>1 DEF Fallback
  <2>2. CASE Restored.latest = None
    <3>1. Fine(s) /\ s.history \in Seq(Snapshot)
      <4>1. Fine(s)
        BY <1>1, <1>2, <1>3, <2>2 DEF Fallback
      <4> QED BY <4>1, StateFields DEF Fine
    <3>2. Restored.history = <<>>
      BY <1>2, <2>2, NoLatest
    <3>3. ASSUME NEW i \in 1..Len(artifacts), ~artifacts[i].passed, artifacts[i].run \notin InProgress
          PROVE  Extends(s.history, artifacts[i].state.history)
      <4>1. PICK h \in Seq(Snapshot) : h = artifacts[i].state.history
        BY WorldFacts
      <4>2. Extends(<<>>, h)
        BY <1>2, <3>2, <3>3, <4>1 DEF GoesOn
      <4>3. h = <<>>
        BY <4>2, EmptyExtends
      <4> QED BY <3>1, <4>1, <4>3, ExtendsEmpty
    <3> QED BY <3>1, <3>3 DEF GoesOn
  <2> QED BY <2>1, <2>2
<1>4. \A s \in Degraded(Restored) : Fine(s)
  BY <1>1, <1>2 DEF Degraded
<1> QED BY <1>3, <1>4

---------------------------------------------------------------------------
(* Steps of the job that leave artifacts and page alone.                     *)

(* A step that leaves behind such a job preserves the invariant.             *)
LEMMA JobStep ==
  ASSUME StateInv, NEW j, JobFine(j), job' = j, {pending', trigger'} \subseteq 0..MaxRuns,
         UNCHANGED <<kind, tree, artifacts, page, clock>>
  PROVE  StateInv'
<1>1. \A s : Fine(s)' = Fine(s)
  BY DEF Fine, LatestFine, Listed, fingerprint, head
<1>2. World'
  <2>1. (\A i \in 1..Len(artifacts) : Fine(artifacts[i].state))'
    <3>1. PICK a : a = artifacts
      OBVIOUS
    <3>2. \A i \in 1..Len(a) : Fine(a[i].state)'
      BY <1>1, <3>1 DEF StateInv, World
    <3> QED BY <3>1, <3>2
  <2>2. Fine(page)'
    <3>1. PICK s : s = page
      OBVIOUS
    <3>2. Fine(s)'
      BY <1>1, <3>1 DEF StateInv, World
    <3> QED BY <3>1, <3>2
  <2>3. TreeExact' /\ Ordered'
    BY DEF StateInv, World, TreeExact, Ordered, head
  <2> QED BY <2>1, <2>2, <2>3 DEF StateInv, World
<1>3. JobFine(j)'
  <2>1. Fine(j.state)'
    BY <1>1 DEF JobFine
  <2>2. Pinned(j)'
    BY DEF JobFine, Pinned, fingerprint
  <2>3. j.checkout \in (1..head)'
    BY DEF JobFine, head
  <2>4. (j.phase \in {"plan", "measure", "evidence", "finish", "upload"} => GoesOn(j.state, j.passed))'
    BY DEF JobFine, GoesOn
  <2> QED BY <2>1, <2>2, <2>3, <2>4 DEF JobFine
<1> QED BY <1>2, <1>3 DEF StateInv

(* A job that fails, or loses its runner, keeps the state it holds.          *)
LEMMA FailKeeps ==
  ASSUME StateInv, job.phase # "idle", Fail, UNCHANGED <<kind, tree, artifacts, page, clock, pending, trigger>>
  PROVE  StateInv'
<1>1. PICK j : j = [job EXCEPT !.phase = "end", !.failed = TRUE]
  OBVIOUS
<1>2. job \in Job /\ JobFine(job)
  BY WorldFacts DEF StateInv
<1>3. /\ j \in Job /\ j.phase = "end" /\ j.run = job.run /\ j.checkout = job.checkout
      /\ j.state = job.state /\ j.measured = job.measured
  BY <1>1, <1>2 DEF Job, Phases
<1>4. Pinned(j)
  BY <1>2, <1>3 DEF JobFine, Pinned
<1>5. JobFine(j)
  BY <1>2, <1>3, <1>4 DEF JobFine
<1> QED BY <1>1, <1>5, JobStep, WorldFacts DEF Fail

(* A lost runner.                                                            *)
LEMMA DieKeeps ==
  ASSUME StateInv, Die
  PROVE  StateInv'
BY FailKeeps DEF Die

(* A state to go on from is one the plan may start with.                     *)
LEMMA RestoreTo ==
  ASSUME StateInv, job.phase = "restore", NEW s, Fine(s), NEW runs \in SUBSET (0..MaxRuns), GoesOn(s, runs),
         job' = Passing(s, runs), UNCHANGED <<kind, tree, artifacts, page, clock, pending, trigger>>
  PROVE  StateInv'
<1>1. PICK j : j = Passing(s, runs)
  OBVIOUS
<1>2. job \in Job /\ JobFine(job)
  BY WorldFacts DEF StateInv
<1>3. /\ j \in Job /\ j.phase = "plan" /\ j.run = job.run /\ j.checkout = job.checkout
      /\ j.state = s /\ j.measured = job.measured /\ j.passed = runs
  BY <1>1, <1>2 DEF Job, Phases, Passing, Fine
<1>4. Pinned(j)
  BY <1>2, <1>3 DEF JobFine, Pinned
<1>5. JobFine(j)
  BY <1>2, <1>3, <1>4 DEF JobFine
<1> QED BY <1>1, <1>5, JobStep, WorldFacts

(* Every outcome of the restore step.                                        *)
LEMMA RestoreKeeps ==
  ASSUME StateInv, Restore
  PROVE  StateInv'
<1>1. job.phase = "restore" /\ UNCHANGED <<kind, tree, artifacts, page, clock, pending, trigger>>
  BY DEF Restore, RestoreReading
<1>2. InProgress \subseteq 0..MaxRuns /\ 0..MaxRuns \subseteq 0..MaxRuns
  BY WorldFacts, JobFields DEF InProgress
<1>3. \A s : GoesOn(s, 0..MaxRuns)
  BY WorldFacts DEF GoesOn, Runs
<1>4. \/ Fail
      \/ \E s \in Fallback(Restored) \cup {Restored} : job' = Passing(s, InProgress)
      \/ \E s \in Degraded(Restored) : job' = Passing(s, IF s = Restored THEN InProgress ELSE 0..MaxRuns)
  BY DEF Restore, RestoreReading
<1>5. CASE Fail
  BY <1>1, <1>5, FailKeeps
<1>6. ASSUME NEW s \in Fallback(Restored) \cup {Restored}, job' = Passing(s, InProgress) PROVE StateInv'
  <2>1. Fine(s) /\ GoesOn(s, InProgress)
    BY <1>6, FallbackFine, RestoredFine
  <2> QED BY <1>1, <1>2, <1>6, <2>1, RestoreTo
<1>7. ASSUME NEW s \in Degraded(Restored), job' = Passing(s, IF s = Restored THEN InProgress ELSE 0..MaxRuns)
      PROVE  StateInv'
  <2>1. Fine(s)
    BY <1>7, FallbackFine
  <2>2. CASE s = Restored
    BY <1>1, <1>2, <1>7, <2>1, <2>2, RestoredFine, RestoreTo
  <2>3. CASE s # Restored
    BY <1>1, <1>2, <1>3, <1>7, <2>1, <2>3, RestoreTo
  <2> QED BY <2>2, <2>3
<1> QED BY <1>4, <1>5, <1>6, <1>7

(* The plan skips the measurement, makes it, or fails.                       *)
LEMMA PlanKeeps ==
  ASSUME StateInv, Plan
  PROVE  StateInv'
<1>1. job.phase = "plan" /\ UNCHANGED <<kind, tree, artifacts, page, clock, pending, trigger>>
  BY DEF Plan, PlanWhen
<1>2. /\ job \in Job /\ JobFine(job) /\ Fine(job.state) /\ TreeExact /\ ~job.measured
      /\ job.run \in Runs /\ job.checkout \in 1..head /\ GoesOn(job.state, job.passed)
  BY <1>1, WorldFacts DEF StateInv, JobFine, Pinned
<1>3. PICK s \in State : s = job.state
  BY <1>2, JobFields
<1>4. PICK run : run = (job.force \/ Changed(s, job.checkout))
  OBVIOUS
<1>5. PICK a \in Attempt : a = IF run THEN [run |-> job.run, status |-> "running"] ELSE s.attempt
  <2>1. job.run \in 0..MaxRuns
    BY <1>2, JobFields
  <2>2. [run |-> job.run, status |-> "running"] \in Attempt
    BY <2>1 DEF Attempt, Statuses
  <2>3. s.attempt \in Attempt
    BY <1>3, StateFields
  <2>4. CASE run
    BY <2>2, <2>4
  <2>5. CASE ~run
    BY <2>3, <2>5
  <2> QED BY <2>4, <2>5
<1>6. PICK f \in Nat : f = fingerprint(job.checkout)
  <2>1. tree[job.checkout] \in Inputs
    BY <1>2, ElementOfSeq DEF TreeExact, head
  <2> QED BY <2>1 DEF Inputs, fingerprint
<1>7. PICK p : p = [s EXCEPT !.checked = f, !.attempt = a]
  OBVIOUS
<1>8. p \in State /\ p.checked = f /\ p.attempt = a /\ p.latest = s.latest /\ p.history = s.history
  BY <1>3, <1>5, <1>6, <1>7 DEF State
<1>9. ASSUME NEW t \in {s, p} PROVE t \in State /\ Fine(t) /\ GoesOn(t, job.passed) /\ t.latest = s.latest
  BY <1>2, <1>3, <1>8, <1>9, SameSnapshots
<1>10. \/ job' = [job EXCEPT !.phase = IF run THEN "measure" ELSE "upload", !.state = p]
       \/ job' = [job EXCEPT !.phase = "evidence", !.failed = TRUE]
       \/ \E t \in {s, p} : job' = [job EXCEPT !.phase = "upload", !.failed = TRUE, !.state = t]
  <2>1. [job.state EXCEPT !.checked = fingerprint(job.checkout),
                !.attempt = IF job.force \/ Changed(job.state, job.checkout)
                            THEN [run |-> job.run, status |-> "running"] ELSE @] = p
    BY <1>3, <1>4, <1>5, <1>6, <1>7
  <2> QED BY <1>3, <1>4, <2>1 DEF Plan, PlanWhen
<1>11. CASE run /\ job' = [job EXCEPT !.phase = "measure", !.state = p]
  <2>1. PICK j : j = [job EXCEPT !.phase = "measure", !.state = p]
    OBVIOUS
  <2>2. /\ j \in Job /\ j.phase = "measure" /\ j.run = job.run /\ j.checkout = job.checkout /\ j.state = p
        /\ j.measured = job.measured /\ j.passed = job.passed
    BY <1>2, <1>8, <2>1 DEF Job, Phases
  <2>3. Pinned(j)
    BY <1>6, <1>8, <2>2 DEF Pinned
  <2>4. JobFine(j)
    BY <1>2, <1>9, <2>2, <2>3 DEF JobFine
  <2> QED BY <1>1, <1>11, <2>1, <2>4, JobStep, WorldFacts
<1>12. CASE ~run /\ job' = [job EXCEPT !.phase = "upload", !.state = p]
  <2>1. PICK j : j = [job EXCEPT !.phase = "upload", !.state = p]
    OBVIOUS
  <2>2. /\ j \in Job /\ j.phase = "upload" /\ j.run = job.run /\ j.checkout = job.checkout /\ j.state = p
        /\ j.measured = job.measured /\ j.passed = job.passed
    BY <1>2, <1>8, <2>1 DEF Job, Phases
  <2>3. s.latest # None /\ s.latest.fingerprint = fingerprint(job.checkout)
    BY <1>4, <1>12 DEF Changed
  <2>4. tree[s.latest.revision] = tree[job.checkout]
    BY <1>2, <1>3, <2>3 DEF Fine, LatestFine, TreeExact, fingerprint
  <2>5. Pinned(j)
    BY <1>2, <1>8, <2>2, <2>3, <2>4 DEF Pinned
  <2>6. JobFine(j)
    BY <1>2, <1>9, <2>2, <2>5 DEF JobFine
  <2> QED BY <1>1, <1>12, <2>1, <2>6, JobStep, WorldFacts
<1>13. CASE job' = [job EXCEPT !.phase = "evidence", !.failed = TRUE]
  <2>1. PICK j : j = [job EXCEPT !.phase = "evidence", !.failed = TRUE]
    OBVIOUS
  <2>2. /\ j \in Job /\ j.phase = "evidence" /\ j.run = job.run /\ j.checkout = job.checkout /\ j.state = job.state
        /\ j.measured = job.measured /\ j.failed = TRUE /\ j.passed = job.passed
    BY <1>2, <2>1 DEF Job, Phases
  <2>3. Pinned(j)
    BY <1>2, <2>2 DEF Pinned
  <2>4. JobFine(j)
    BY <1>2, <2>2, <2>3 DEF JobFine
  <2> QED BY <1>1, <1>13, <2>1, <2>4, JobStep, WorldFacts
<1>14. ASSUME NEW t \in {s, p}, job' = [job EXCEPT !.phase = "upload", !.failed = TRUE, !.state = t] PROVE StateInv'
  <2>1. PICK j : j = [job EXCEPT !.phase = "upload", !.failed = TRUE, !.state = t]
    OBVIOUS
  <2>2. /\ j \in Job /\ j.phase = "upload" /\ j.run = job.run /\ j.checkout = job.checkout /\ j.state = t
        /\ j.measured = job.measured /\ j.failed = TRUE /\ j.passed = job.passed
    BY <1>2, <1>9, <2>1 DEF Job, Phases
  <2>3. Pinned(j)
    BY <1>2, <2>2 DEF Pinned
  <2>4. JobFine(j)
    BY <1>2, <1>9, <2>2, <2>3 DEF JobFine
  <2> QED BY <1>1, <1>14, <2>1, <2>4, JobStep, WorldFacts
<1> QED BY <1>10, <1>11, <1>12, <1>13, <1>14

(* A step of the measurement moves on, with its result or as failed.         *)
LEMMA MeasureKeeps ==
  ASSUME StateInv, Measure \/ Evidence
  PROVE  StateInv'
<1>1. job.phase \in {"measure", "evidence"} /\ UNCHANGED <<kind, tree, artifacts, page, clock, pending, trigger>>
  BY DEF Measure, Evidence
<1>2. job \in Job /\ JobFine(job)
  BY WorldFacts DEF StateInv
<1>3. PICK j : j = job'
  OBVIOUS
<1>4. /\ j \in Job /\ j.run = job.run /\ j.checkout = job.checkout /\ j.state = job.state /\ j.passed = job.passed
      /\ j.phase \in {"evidence", "finish"}
      /\ j.measured => job.measured \/ job.phase = "measure"
      /\ ~j.measured /\ ~j.failed => job.phase = "evidence" /\ ~job.failed /\ ~job.measured
  <2>1. CASE job' = [job EXCEPT !.phase = "evidence", !.measured = TRUE] /\ job.phase = "measure"
    BY <1>2, <1>3, <2>1 DEF Job, Phases
  <2>2. CASE job' = [job EXCEPT !.phase = "evidence", !.failed = TRUE] /\ job.phase = "measure"
    BY <1>2, <1>3, <2>2 DEF Job, Phases
  <2>3. CASE job' = [job EXCEPT !.phase = "finish", !.evidence = TRUE] /\ job.phase = "evidence"
    BY <1>2, <1>3, <2>3 DEF Job, Phases
  <2>4. CASE job' = [job EXCEPT !.phase = "finish", !.failed = TRUE] /\ job.phase = "evidence"
    BY <1>2, <1>3, <2>4 DEF Job, Phases
  <2> QED BY <2>1, <2>2, <2>3, <2>4 DEF Measure, Evidence
<1>5. Pinned(j)
  BY <1>1, <1>2, <1>4 DEF JobFine, Pinned
<1>6. JobFine(j)
  BY <1>1, <1>2, <1>4, <1>5 DEF JobFine
<1> QED BY <1>1, <1>3, <1>6, JobStep, WorldFacts

(* A published snapshot is the latest of a history that goes on.             *)
LEMMA PublishFine ==
  ASSUME StateInv, job.phase = "finish", job.measured
  PROVE  LET s == job.state
             t == Publish(s, Taken)
         IN  /\ t \in State /\ LatestFine(t)
             /\ Len(t.history) <= HistoryLimit /\ InOrder(t.history)
             /\ \A i \in 1..Len(t.history) : t.history[i].at \in 1..(clock + 1)
             /\ t.latest = (IF t.history = <<>> THEN None ELSE Last(t.history))
             /\ t.checked = s.checked /\ Extends(t.history, s.history)
<1>1. PICK s \in State : s = job.state
  BY WorldFacts, JobFields
<1>2. /\ Fine(s) /\ s.history \in Seq(Snapshot) /\ s.checked \in Nat /\ s.checked = fingerprint(job.checkout)
      /\ job.checkout \in 1..head /\ clock \in Nat /\ TreeExact
  BY <1>1, WorldFacts, StateFields DEF Pinned
<1>3. tree[job.checkout] \in Inputs
  BY <1>2, ElementOfSeq DEF TreeExact, head
<1>4. PICK x \in Snapshot : /\ x = Taken /\ x.at = clock + 1 /\ x.revision = job.checkout
                            /\ x.fingerprint = fingerprint(job.checkout)
  <2>1. tree[job.checkout].suite \in Nat /\ job.checkout \in Nat
    BY <1>3, WorldFacts, JobFields DEF Inputs
  <2>2. clock + 1 \in Nat
    BY <1>2
  <2>3. /\ Taken \in Snapshot /\ Taken.at = clock + 1 /\ Taken.revision = job.checkout
        /\ Taken.fingerprint = s.checked
    BY <1>1, <1>2, <2>1, <2>2 DEF Taken, Snapshot, series
  <2> QED BY <1>2, <2>3
<1>5. PICK g \in Seq(Snapshot) : /\ g = Recent(Append(s.history, x)) /\ Len(g) <= HistoryLimit /\ InOrder(g)
                                 /\ Extends(g, s.history) /\ g # <<>> /\ Last(g) = x
                                 /\ \A i \in 1..Len(g) : g[i].at \in 1..(clock + 1)
  BY <1>2, <1>4, PublishHistory DEF Fine, Listed
<1>6. PICK a \in Attempt : a = [s.attempt EXCEPT !.status = "measured"]
  BY <1>1, StateFields DEF Attempt, Statuses
<1>7. PICK t : t = [s EXCEPT !.latest = x, !.history = g, !.attempt = a]
  OBVIOUS
<1>8. t \in State /\ t.latest = x /\ t.history = g /\ t.checked = s.checked
  BY <1>1, <1>4, <1>5, <1>6, <1>7 DEF State
<1>9. t = Publish(s, Taken)
  BY <1>1, <1>4, <1>5, <1>6, <1>7 DEF Publish, State
<1>10. LatestFine(t)
  BY <1>2, <1>4, <1>8 DEF LatestFine
<1> QED BY <1>1, <1>5, <1>8, <1>9, <1>10

(* What was fine stays so when another snapshot has been published.          *)
LEMMA ClockLater ==
  ASSUME NEW s, Fine(s), clock \in Nat, clock' = clock + 1, UNCHANGED tree
  PROVE  Fine(s)'
<1>1. LatestFine(s)'
  BY DEF Fine, LatestFine, fingerprint, head
<1>2. \A t : t \in 1..clock => t \in 1..(clock + 1)
  OBVIOUS
<1>3. Listed(s)'
  BY <1>2 DEF Fine, Listed
<1> QED BY <1>1, <1>3 DEF Fine

(* The measurement is published, or the attempt recorded as failed.          *)
LEMMA FinishKeeps ==
  ASSUME StateInv, Finish
  PROVE  StateInv'
<1>1. job.phase = "finish" /\ UNCHANGED <<kind, tree, artifacts, page, pending, trigger>>
  BY DEF Finish
<1>2. /\ job \in Job /\ JobFine(job) /\ Fine(job.state) /\ World /\ clock \in Nat /\ job.checkout \in 1..head
      /\ job.run \in Runs /\ GoesOn(job.state, job.passed)
  BY <1>1, WorldFacts DEF StateInv, JobFine
<1>3. PICK s \in State : s = job.state
  BY <1>2, JobFields
<1>4. CASE job.measured /\ job' = [job EXCEPT !.phase = "upload", !.state = Publish(@, Taken)] /\ clock' = clock + 1
  <2>1. PICK t : t = Publish(s, Taken)
    OBVIOUS
  <2>2. /\ t \in State /\ LatestFine(t) /\ Len(t.history) <= HistoryLimit /\ InOrder(t.history)
        /\ \A i \in 1..Len(t.history) : t.history[i].at \in 1..(clock + 1)
        /\ t.latest = (IF t.history = <<>> THEN None ELSE Last(t.history))
        /\ t.checked = s.checked /\ Extends(t.history, s.history)
    BY <1>1, <1>3, <1>4, <2>1, PublishFine
  <2>3. PICK j : j = [job EXCEPT !.phase = "upload", !.state = t]
    OBVIOUS
  <2>4. /\ j \in Job /\ j.phase = "upload" /\ j.run = job.run /\ j.checkout = job.checkout /\ j.state = t
        /\ j.measured = job.measured /\ j.passed = job.passed
    BY <1>2, <2>2, <2>3 DEF Job, Phases
  <2>5. job' = j
    BY <1>3, <1>4, <2>1, <2>3
  <2>6. Fine(t)'
    <3>1. LatestFine(t)'
      BY <1>1, <2>2 DEF LatestFine, fingerprint, head
    <3>2. Listed(t)'
      BY <1>4, <2>2 DEF Listed
    <3> QED BY <2>2, <3>1, <3>2 DEF Fine
  <2>7. ASSUME NEW i \in 1..Len(artifacts), ~artifacts[i].passed, artifacts[i].run \notin job.passed
        PROVE  Extends(t.history, artifacts[i].state.history)
    <3>1. PICK h \in Seq(Snapshot) : h = artifacts[i].state.history /\ Extends(s.history, h)
      BY <1>2, <1>3, <2>7, WorldFacts DEF GoesOn
    <3>2. t.history \in Seq(Snapshot) /\ s.history \in Seq(Snapshot)
      BY <2>2, StateFields
    <3> QED BY <2>2, <3>1, <3>2, ExtendsTrans
  <2>8. GoesOn(t, j.passed)'
    BY <1>1, <2>4, <2>7 DEF GoesOn
  <2>9. Pinned(j)'
    BY <1>1, <1>2, <1>3, <1>4, <2>2, <2>4 DEF JobFine, Pinned, fingerprint
  <2>10. j.checkout \in (1..head)' /\ j.run \in Runs
    BY <1>1, <1>2, <2>4 DEF head
  <2>11. GoesOn(j.state, j.passed)'
    BY <2>4, <2>8 DEF GoesOn
  <2>12. Fine(j.state)'
    BY <2>4, <2>6 DEF Fine, LatestFine, Listed
  <2>13. JobFine(j)'
    BY <2>4, <2>9, <2>10, <2>11, <2>12 DEF JobFine
  <2>14. World'
    <3>1. (\A i \in 1..Len(artifacts) : Fine(artifacts[i].state))'
      <4>1. PICK a : a = artifacts
        OBVIOUS
      <4>2. \A i \in 1..Len(a) : Fine(a[i].state)
        BY <1>2, <4>1 DEF World
      <4>3. \A i \in 1..Len(a) : Fine(a[i].state)'
        BY <1>1, <1>2, <1>4, <4>2, ClockLater
      <4> QED BY <1>1, <4>1, <4>3
    <3>2. Fine(page)'
      <4>1. PICK q : q = page /\ Fine(q)
        BY <1>2 DEF World
      <4>2. Fine(q)'
        BY <1>1, <1>2, <1>4, <4>1, ClockLater
      <4> QED BY <1>1, <4>1, <4>2
    <3>3. TreeExact' /\ Ordered' /\ clock' \in Nat
      BY <1>1, <1>2, <1>4 DEF World, TreeExact, Ordered, head
    <3> QED BY <1>1, <1>2, <3>1, <3>2, <3>3 DEF World
  <2> QED BY <2>5, <2>13, <2>14 DEF StateInv
<1>5. ASSUME NEW x \in NotMeasured, job' = [job EXCEPT !.phase = "upload", !.state.attempt.status = x], UNCHANGED clock
      PROVE  StateInv'
  <2>1. x \in Statuses
    BY <1>5 DEF NotMeasured, Statuses
  <2>2. PICK a \in Attempt : a = [s.attempt EXCEPT !.status = x]
    BY <1>3, <2>1, StateFields DEF Attempt
  <2>3. PICK t : t = [s EXCEPT !.attempt = a]
    OBVIOUS
  <2>4. t \in State /\ t.latest = s.latest /\ t.history = s.history /\ t.checked = s.checked
    BY <1>3, <2>2, <2>3 DEF State
  <2>5. Fine(t) /\ GoesOn(t, job.passed)
    BY <1>2, <1>3, <2>4, SameSnapshots
  <2>6. PICK j : j = [job EXCEPT !.phase = "upload", !.state = t]
    OBVIOUS
  <2>7. /\ j \in Job /\ j.phase = "upload" /\ j.run = job.run /\ j.checkout = job.checkout /\ j.state = t
        /\ j.measured = job.measured /\ j.passed = job.passed /\ j.failed = job.failed
    BY <1>2, <2>4, <2>6 DEF Job, Phases
  <2>8. job' = j
    BY <1>2, <1>3, <1>5, <2>2, <2>3, <2>6 DEF Job, State
  <2>9. Pinned(j)
    BY <1>1, <1>2, <1>3, <2>4, <2>7 DEF JobFine, Pinned
  <2>10. JobFine(j)
    BY <1>2, <2>5, <2>7, <2>9 DEF JobFine
  <2> QED BY <1>1, <1>5, <2>8, <2>10, JobStep, WorldFacts
<1>6. CASE job' = [job EXCEPT !.phase = "upload", !.failed = TRUE] /\ UNCHANGED clock
  <2>1. PICK j : j = [job EXCEPT !.phase = "upload", !.failed = TRUE]
    OBVIOUS
  <2>2. /\ j \in Job /\ j.phase = "upload" /\ j.run = job.run /\ j.checkout = job.checkout /\ j.state = job.state
        /\ j.measured = job.measured /\ j.passed = job.passed /\ j.failed = TRUE
    BY <1>2, <2>1 DEF Job, Phases
  <2>3. Pinned(j)
    BY <1>2, <2>2 DEF JobFine, Pinned
  <2>4. JobFine(j)
    BY <1>2, <2>2, <2>3 DEF JobFine
  <2> QED BY <1>1, <1>6, <2>1, <2>4, JobStep, WorldFacts
<1> QED BY <1>4, <1>5, <1>6 DEF Finish

---------------------------------------------------------------------------
(* The artifacts.                                                            *)

(* A list of artifacts of which each goes on from the earlier ones.          *)
List(a) ==
  /\ a \in Seq(Artifact) /\ \A i \in 1..Len(a) : Fine(a[i].state)
  /\ \A i, k \in 1..Len(a) : i < k /\ ~a[i].passed => Extends(a[k].state.history, a[i].state.history)

(* The oldest one leaves the list.                                           *)
LEMMA TailList ==
  ASSUME NEW a, List(a), a # <<>>
  PROVE  /\ List(Tail(a)) /\ Len(a) >= 1 /\ Len(Tail(a)) = Len(a) - 1
         /\ \A i \in 1..Len(Tail(a)) : i + 1 \in 1..Len(a) /\ Tail(a)[i] = a[i + 1]
<1>1. PICK b : b = Tail(a)
  OBVIOUS
<1>2. PICK n \in Nat : n = Len(a) /\ n >= 1
  BY EmptySeq DEF List
<1>3. b \in Seq(Artifact) /\ Len(b) = n - 1 /\ \A i \in 1..(n - 1) : b[i] = a[i + 1]
  BY <1>1, <1>2, HeadTailProperties DEF List
<1>4. \A i \in 1..(n - 1) : i + 1 \in 1..n
  BY <1>2
<1>5. \A i \in 1..(n - 1) : Fine(b[i].state)
  BY <1>2, <1>3, <1>4 DEF List
<1>6. ASSUME NEW i \in 1..(n - 1), NEW k \in 1..(n - 1), i < k, ~b[i].passed
      PROVE  Extends(b[k].state.history, b[i].state.history)
  <2>1. i + 1 < k + 1
    BY <1>6
  <2> QED BY <1>2, <1>3, <1>4, <1>6, <2>1 DEF List
<1> QED BY <1>1, <1>2, <1>3, <1>4, <1>5, <1>6 DEF List

(* The invariant's words for the artifacts.                                  *)
LEMMA WorldList ==
  World <=> /\ kind \in Series /\ TreeExact /\ clock \in Nat /\ {pending, trigger} \subseteq 0..MaxRuns
            /\ Len(artifacts) <= MaxArtifacts /\ List(artifacts) /\ Fine(page)
BY DEF World, List, Ordered

(* Retention keeps a list.                                                   *)
LEMMA KeptList ==
  ASSUME NEW a, List(a), Len(a) <= MaxArtifacts + 1
  PROVE  List(Kept(a)) /\ Len(Kept(a)) <= MaxArtifacts
<1>1. PICK M \in Nat, n \in Nat : M = MaxArtifacts /\ M > 0 /\ n = Len(a) /\ n <= M + 1
  <2>1. Len(a) \in Nat
    BY DEF List
  <2>2. MaxArtifacts \in Nat /\ MaxArtifacts > 0
    BY BoundsAssumption
  <2> QED BY <2>1, <2>2
<1>2. CASE n > M
  <2>1. a # <<>> /\ Kept(a) = Tail(a)
    BY <1>1, <1>2 DEF Kept
  <2> QED BY <1>1, <2>1, TailList
<1>3. CASE ~(n > M)
  BY <1>1, <1>3 DEF Kept
<1> QED BY <1>2, <1>3

(* The artifacts a job did not read are marked, and its own joins the list.  *)
LEMMA MarkedList ==
  ASSUME StateInv, job.phase = "upload"
  PROVE  LET a == Append(Marked, [run |-> job.run, state |-> job.state, passed |-> FALSE])
         IN  List(a) /\ Len(a) <= MaxArtifacts + 1
<1>1. PICK n \in Nat : n = Len(artifacts) /\ DOMAIN artifacts = 1..n /\ n <= MaxArtifacts
  BY WorldFacts
<1>2. PICK m : m = Marked
  OBVIOUS
<1>3. \A i \in 1..n : /\ m[i] \in Artifact /\ m[i].state = artifacts[i].state
                      /\ ~m[i].passed => ~artifacts[i].passed /\ artifacts[i].run \notin job.passed
  <2>1. SUFFICES ASSUME NEW i \in 1..n
                 PROVE  /\ m[i] \in Artifact /\ m[i].state = artifacts[i].state
                        /\ ~m[i].passed => ~artifacts[i].passed /\ artifacts[i].run \notin job.passed
    OBVIOUS
  <2>2. PICK x \in Artifact : x = artifacts[i]
    BY <1>1, WorldFacts
  <2>3. m[i] = [x EXCEPT !.passed = @ \/ artifacts[i].run \in job.passed]
    BY <1>1, <1>2, <2>2 DEF Marked
  <2>4. PICK p \in BOOLEAN : p = (x.passed \/ x.run \in job.passed)
    OBVIOUS
  <2>5. m[i] = [x EXCEPT !.passed = p]
    BY <2>2, <2>3, <2>4
  <2>6. m[i] \in Artifact /\ m[i].state = x.state /\ m[i].passed = p
    BY <2>5 DEF Artifact
  <2>7. ~p => ~x.passed /\ x.run \notin job.passed
    BY <2>4
  <2> QED BY <2>2, <2>6, <2>7
<1>4. m \in [1..n -> Artifact]
  BY <1>1, <1>2, <1>3 DEF Marked
<1>5. m \in Seq(Artifact) /\ Len(m) = n
  BY <1>1, <1>4
<1>6. PICK x : x = [run |-> job.run, state |-> job.state, passed |-> FALSE]
  OBVIOUS
<1>7. x \in Artifact /\ x.state = job.state
  BY <1>6, WorldFacts, JobFields DEF Artifact
<1>8. PICK a : a = Append(m, x)
  OBVIOUS
<1>9. a \in Seq(Artifact) /\ Len(a) = n + 1 /\ a[n + 1] = x /\ \A i \in 1..n : a[i] = m[i]
  BY <1>5, <1>7, <1>8, AppendProperties
<1>10. \A i \in 1..(n + 1) : i \in 1..n \/ i = n + 1
  BY <1>1
<1>11. \A i \in 1..(n + 1) : Fine(a[i].state)
  BY <1>1, <1>3, <1>7, <1>9, <1>10, WorldFacts
<1>12. ASSUME NEW i \in 1..(n + 1), NEW k \in 1..(n + 1), i < k, ~a[i].passed
       PROVE  Extends(a[k].state.history, a[i].state.history)
  <2>1. i \in 1..n /\ a[i].state = artifacts[i].state /\ ~artifacts[i].passed /\ artifacts[i].run \notin job.passed
    <3>1. i \in 1..n
      BY <1>1, <1>12
    <3> QED BY <1>3, <1>9, <1>12, <3>1
  <2>2. CASE k = n + 1
    <3>1. GoesOn(job.state, job.passed)
      BY DEF StateInv, JobFine
    <3> QED BY <1>1, <1>7, <1>9, <2>1, <2>2, <3>1 DEF GoesOn
  <2>3. CASE k # n + 1
    <3>1. k \in 1..n /\ a[k].state = artifacts[k].state
      BY <1>3, <1>9, <1>10, <2>3
    <3> QED BY <1>1, <1>12, <2>1, <3>1, WorldFacts DEF Ordered
  <2> QED BY <2>2, <2>3
<1>13. List(a) /\ Len(a) <= MaxArtifacts + 1
  BY <1>1, <1>9, <1>11, <1>12, BoundsAssumption DEF List
<1> QED BY <1>2, <1>6, <1>8, <1>13

(* The state becomes the newest artifact, or its upload fails.               *)
LEMMA UploadKeeps ==
  ASSUME StateInv, Upload
  PROVE  StateInv'
<1>1. job.phase = "upload" /\ UNCHANGED <<kind, tree, page, clock, pending, trigger>>
  BY DEF Upload
<1>2. CASE Fail /\ UNCHANGED artifacts
  BY <1>1, <1>2, FailKeeps
<1>3. CASE /\ artifacts' = Kept(Append(Marked, [run |-> job.run, state |-> job.state, passed |-> FALSE]))
           /\ job' = [job EXCEPT !.phase = "end"]
  <2>1. PICK b : b = Kept(Append(Marked, [run |-> job.run, state |-> job.state, passed |-> FALSE]))
    OBVIOUS
  <2>2. List(b) /\ Len(b) <= MaxArtifacts
    BY <1>1, <2>1, MarkedList, KeptList
  <2>3. artifacts' = b
    BY <1>3, <2>1
  <2>4. job \in Job /\ JobFine(job) /\ World
    BY WorldFacts DEF StateInv
  <2>5. PICK j : j = [job EXCEPT !.phase = "end"]
    OBVIOUS
  <2>6. /\ j \in Job /\ j.phase = "end" /\ j.run = job.run /\ j.checkout = job.checkout
        /\ j.state = job.state /\ j.measured = job.measured
    BY <2>4, <2>5 DEF Job, Phases
  <2>7. Pinned(j)' /\ Fine(j.state)' /\ j.checkout \in (1..head)'
    BY <1>1, <2>4, <2>6 DEF JobFine, Pinned, Fine, LatestFine, Listed, fingerprint, head
  <2>8. JobFine(j)'
    BY <1>1, <2>4, <2>6, <2>7 DEF JobFine
  <2>9. World'
    <3>1. List(b)'
      BY <1>1, <2>2 DEF List, Fine, LatestFine, Listed, fingerprint, head
    <3>2. TreeExact' /\ Fine(page)'
      BY <1>1, <2>4 DEF World, TreeExact, Fine, LatestFine, Listed, fingerprint, head
    <3>3. List(artifacts)'
      BY <2>3, <3>1 DEF List
    <3>4. kind' \in Series /\ clock' \in Nat /\ {pending', trigger'} \subseteq 0..MaxRuns
      BY <1>1, <2>4 DEF World
    <3> QED BY <2>2, <2>3, <3>2, <3>3, <3>4 DEF World, List, Ordered
  <2> QED BY <1>3, <2>5, <2>8, <2>9 DEF StateInv
<1> QED BY <1>2, <1>3 DEF Upload

(* The oldest artifact expires; what is left is a list still.                *)
LEMMA ExpireKeeps ==
  ASSUME StateInv, Expire
  PROVE  StateInv'
<1>1. artifacts # <<>> /\ artifacts' = Tail(artifacts) /\ UNCHANGED <<kind, tree, job, page, clock, pending, trigger>>
  BY DEF Expire
<1>2. World /\ JobFine(job) /\ List(artifacts) /\ Len(artifacts) \in Nat /\ Len(artifacts) <= MaxArtifacts
  BY WorldList DEF StateInv, List
<1>3. PICK b : b = Tail(artifacts)
  OBVIOUS
<1>4. /\ List(b) /\ Len(b) = Len(artifacts) - 1
      /\ \A i \in 1..Len(b) : i + 1 \in 1..Len(artifacts) /\ b[i] = artifacts[i + 1]
  BY <1>1, <1>2, <1>3, TailList
<1>5. artifacts' = b
  BY <1>1, <1>3
<1>6. World'
  <2>1. List(b)'
    BY <1>1, <1>4 DEF List, Fine, LatestFine, Listed, fingerprint, head
  <2>2. TreeExact' /\ Fine(page)'
    BY <1>1, <1>2 DEF World, TreeExact, Fine, LatestFine, Listed, fingerprint, head
  <2>3. List(artifacts)'
    BY <1>5, <2>1 DEF List
  <2>4. kind' \in Series /\ clock' \in Nat /\ {pending', trigger'} \subseteq 0..MaxRuns
    BY <1>1, <1>2 DEF World
  <2>5. Len(b) <= MaxArtifacts
    BY <1>2, <1>4, BoundsAssumption
  <2> QED BY <1>5, <2>2, <2>3, <2>4, <2>5 DEF World, List, Ordered
<1>7. PICK j : j = job /\ JobFine(j)
  BY <1>2
<1>8. j.phase \in {"plan", "measure", "evidence", "finish", "upload"} => GoesOn(j.state, j.passed)'
  <2>1. SUFFICES ASSUME GoesOn(j.state, j.passed) PROVE GoesOn(j.state, j.passed)'
    BY <1>7 DEF JobFine
  <2>2. \A i \in 1..Len(b) : ~b[i].passed /\ b[i].run \notin j.passed => Extends(j.state.history, b[i].state.history)
    BY <1>4, <2>1 DEF GoesOn
  <2> QED BY <1>5, <2>2 DEF GoesOn
<1>9. Pinned(j)' /\ Fine(j.state)' /\ j.checkout \in (1..head)'
  BY <1>1, <1>7 DEF JobFine, Pinned, Fine, LatestFine, Listed, fingerprint, head
<1>10. JobFine(j)'
  BY <1>7, <1>8, <1>9 DEF JobFine
<1> QED BY <1>1, <1>6, <1>7, <1>10 DEF StateInv

---------------------------------------------------------------------------
(* Steps outside the job.                                                    *)

(* The words of a job that is not there.                                     *)
LEMMA IdleFine ==
  ASSUME StateInv
  PROVE  JobFine(Idle) /\ Idle \in Job /\ Idle.phase = "idle" /\ Idle.state = empty /\ Idle.measured = FALSE
<1>1. 0 \in 0..MaxRuns /\ {} \in SUBSET (0..MaxRuns)
  BY BoundsAssumption
<1>2. /\ Idle \in Job /\ Idle.phase = "idle" /\ Idle.state = empty /\ Idle.measured = FALSE
      /\ Idle.checkout = 1
  BY <1>1, EmptyState DEF Idle, Job, Phases, NoRun
<1>3. head \in Nat /\ head >= 1
  BY WorldFacts DEF TreeExact, head
<1>4. 1 \in 1..head
  BY <1>3
<1>5. Pinned(Idle)
  BY <1>2 DEF Pinned
<1> QED BY <1>2, <1>4, <1>5, WorldFacts DEF JobFine

(* The run completes.                                                        *)
LEMMA CompleteKeeps ==
  ASSUME StateInv, Complete
  PROVE  StateInv'
<1>1. job' = Idle /\ UNCHANGED <<kind, tree, artifacts, page, clock, pending>> /\ trigger' \in {job.run, NoRun}
  BY DEF Complete
<1>2. {pending', trigger'} \subseteq 0..MaxRuns
  BY <1>1, WorldFacts, JobFields, BoundsAssumption DEF NoRun
<1>3. PICK j : j = Idle /\ JobFine(j)
  BY IdleFine
<1> QED BY <1>1, <1>2, <1>3, JobStep

(* A run is named by the artifacts, the page or the last completion.         *)
LEMMA NamedIs ==
  ASSUME StateInv
  PROVE  Named \subseteq 0..MaxRuns
<1>1. \A i \in DOMAIN artifacts : artifacts[i].run \in 0..MaxRuns /\ artifacts[i].state.attempt.run \in 0..MaxRuns
  BY WorldFacts, StateFields DEF Runs
<1>2. page.attempt.run \in 0..MaxRuns /\ trigger \in 0..MaxRuns
  BY WorldFacts, StateFields
<1> QED BY <1>1, <1>2 DEF Named

(* A run is started again, or the re-run cancelled.                          *)
LEMMA RerunKeeps ==
  ASSUME StateInv, Rerun \/ CancelRerun
  PROVE  StateInv'
<1>1. UNCHANGED <<kind, tree, artifacts, job, page, clock>>
  BY DEF Rerun, CancelRerun
<1>2. {pending', trigger'} \subseteq 0..MaxRuns
  BY WorldFacts, NamedIs, BoundsAssumption DEF Rerun, CancelRerun, NoRun
<1>3. PICK j : j = job /\ JobFine(j)
  BY DEF StateInv
<1> QED BY <1>1, <1>2, <1>3, JobStep

(* What is shown of a fine state is fine.                                    *)
LEMMA ShownFine ==
  ASSUME NEW s, Fine(s), NEW failed \in 0..MaxRuns
  PROVE  Fine(Shown(s, failed))
<1>1. [run |-> failed, status |-> "infrastructure-failure"] \in Attempt
  BY DEF Attempt, Statuses
<1>2. Fine([s EXCEPT !.attempt = [run |-> failed, status |-> "infrastructure-failure"]])
  BY <1>1, OtherAttempt
<1> QED BY <1>2 DEF Shown

(* A published page shows a state that was retained.                         *)
LEMMA SiteKeeps ==
  ASSUME StateInv, Site
  PROVE  StateInv'
<1>1. UNCHANGED <<kind, tree, artifacts, job, clock, pending>>
  BY DEF Site
<1>2. PICK failed \in {trigger, NoRun} :
        /\ trigger' = IF failed = trigger THEN NoRun ELSE trigger
        /\ \/ page' \in {Shown(s, failed) : s \in IF kind = "representative" THEN Fallback(Restored) ELSE {Restored}}
           \/ page' \in CASE kind = "daily" -> {page}
                          [] kind = "weekly" -> {Shown(s, failed) : s \in {page, empty}}
                          [] kind = "representative" -> {Shown(s, failed) : s \in Degraded(Restored)}
  BY DEF Site
<1>3. failed \in 0..MaxRuns /\ {pending', trigger'} \subseteq 0..MaxRuns
  BY <1>1, <1>2, WorldFacts, BoundsAssumption DEF NoRun
<1>4. kind \in {"daily", "weekly", "representative"} /\ Fine(page) /\ Fine(empty) /\ Fine(Restored)
  BY WorldFacts, RestoredFine
<1>5. \/ page' = page
      \/ \E s \in Fallback(Restored) \cup Degraded(Restored) \cup {page, empty, Restored} : page' = Shown(s, failed)
  <2>1. CASE kind = "daily"
    BY <1>2, <2>1
  <2>2. CASE kind = "weekly"
    BY <1>2, <2>2
  <2>3. CASE kind = "representative"
    BY <1>2, <2>3
  <2> QED BY <1>4, <2>1, <2>2, <2>3
<1>6. PICK q : q = page' /\ Fine(q)
  BY <1>3, <1>4, <1>5, FallbackFine, ShownFine
<1>7. Fine(page)'
  <2>1. Fine(q)'
    BY <1>1, <1>6 DEF Fine, LatestFine, Listed, fingerprint, head
  <2> QED BY <1>6, <2>1 DEF Fine, LatestFine, Listed
<1>8. World'
  <2>1. PICK a : a = artifacts /\ List(a)
    BY WorldList DEF StateInv
  <2>2. List(a)'
    BY <1>1, <2>1 DEF List, Fine, LatestFine, Listed, fingerprint, head
  <2>3. List(artifacts)'
    BY <1>1, <2>1, <2>2 DEF List
  <2>4. TreeExact' /\ kind' \in Series /\ clock' \in Nat /\ Len(artifacts') <= MaxArtifacts
    BY <1>1 DEF StateInv, World, TreeExact, head
  <2> QED BY <1>3, <1>7, <2>3, <2>4 DEF World, List, Ordered
<1>9. PICK j : j = job /\ JobFine(j)
  BY DEF StateInv
<1>10. JobFine(j)'
  BY <1>1, <1>9 DEF JobFine, Pinned, Fine, LatestFine, Listed, GoesOn, fingerprint, head
<1> QED BY <1>1, <1>8, <1>9, <1>10 DEF StateInv

(* The branch moves on; a commit that changes inputs makes new ones.         *)
LEMMA CommitKeeps ==
  ASSUME StateInv, Commit
  PROVE  StateInv'
<1>1. UNCHANGED <<kind, artifacts, job, pending, trigger, page, clock>>
  BY DEF Commit
<1>2. JobFine(job) /\ World /\ TreeExact /\ job \in Job
  BY WorldFacts DEF StateInv
<1>3. PICK n \in Nat : n = Len(tree) /\ n >= 1
  BY <1>2 DEF TreeExact, head
<1>4. tree \in Seq(Inputs) /\ \A r \in 1..n : tree[r] \in Inputs /\ tree[r].inputs <= r
  BY <1>2, <1>3, ElementOfSeq DEF TreeExact, head
<1>5. PICK u \in Inputs : u = tree[n]
  BY <1>3, <1>4
<1>6. PICK v \in Inputs : tree' = Append(tree, v) /\ (v = u \/ v.inputs = n + 1)
  <2>1. Last(tree) = u
    BY <1>3, <1>5 DEF Last
  <2>2. [u EXCEPT !.inputs = n + 1] \in Inputs /\ [u EXCEPT !.inputs = n + 1].inputs = n + 1
    BY DEF Inputs
  <2>3. [inputs |-> n + 1, suite |-> n + 1] \in Inputs /\ [inputs |-> n + 1, suite |-> n + 1].inputs = n + 1
    BY DEF Inputs
  <2>4. \/ tree' = Append(tree, u) \/ tree' = Append(tree, [u EXCEPT !.inputs = n + 1])
        \/ tree' = Append(tree, [inputs |-> n + 1, suite |-> n + 1])
    BY <1>3, <2>1 DEF Commit, head
  <2> QED BY <2>2, <2>3, <2>4
<1>7. PICK w : w = Append(tree, v)
  OBVIOUS
<1>8. w \in Seq(Inputs) /\ Len(w) = n + 1 /\ w[n + 1] = v /\ \A r \in 1..n : w[r] = tree[r]
  BY <1>3, <1>4, <1>7, AppendProperties
<1>9. tree' = w
  BY <1>6, <1>7
<1>10. n \in 1..n /\ u.inputs <= n /\ v.inputs \in Nat /\ u.inputs \in Nat
  BY <1>3, <1>4, <1>5 DEF Inputs
<1>11. \A r \in 1..(n + 1) : r \in 1..n \/ r = n + 1
  BY <1>3
<1>12. \A r \in 1..(n + 1) : w[r].inputs <= r
  BY <1>4, <1>6, <1>8, <1>10, <1>11
<1>13. ASSUME NEW r \in 1..n, tree[r].inputs = v.inputs PROVE tree[r] = v
  <2>1. tree[r].inputs \in Nat /\ tree[r].inputs <= r /\ r <= n
    BY <1>4, <1>13 DEF Inputs
  <2>2. v.inputs # n + 1
    BY <1>3, <1>13, <2>1
  <2>3. v = u
    BY <1>6, <2>2
  <2> QED BY <1>2, <1>3, <1>5, <1>10, <1>13, <2>3 DEF TreeExact, head
<1>14. \A r, q \in 1..(n + 1) : w[r].inputs = w[q].inputs => w[r] = w[q]
  <2>1. \A r, q \in 1..n : tree[r].inputs = tree[q].inputs => tree[r] = tree[q]
    BY <1>2, <1>3 DEF TreeExact, head
  <2>2. \A r, q \in 1..n : w[r].inputs = w[q].inputs => w[r] = w[q]
    BY <1>8, <2>1
  <2>3. \A r \in 1..n : w[r].inputs = w[n + 1].inputs => w[r] = w[n + 1]
    BY <1>8, <1>13
  <2> QED BY <1>11, <2>2, <2>3
<1>15. TreeExact'
  BY <1>3, <1>8, <1>9, <1>12, <1>14 DEF TreeExact, head
<1>16. \A r \in 1..head : r \in (1..head)' /\ fingerprint(r)' = fingerprint(r) /\ tree'[r] = tree[r]
  BY <1>3, <1>8, <1>9 DEF head, fingerprint
<1>17. head <= head' /\ head \in Nat /\ head' \in Nat
  BY <1>3, <1>8, <1>9 DEF head
<1>18. ASSUME NEW s, Fine(s) PROVE Fine(s)'
  <2>1. LatestFine(s)'
    BY <1>16, <1>18 DEF Fine, LatestFine
  <2>2. Listed(s)'
    BY <1>1, <1>18 DEF Fine, Listed
  <2> QED BY <1>18, <2>1, <2>2 DEF Fine
<1>19. World'
  <2>1. Fine(page)'
    <3>1. PICK s : s = page /\ Fine(s)
      BY <1>2 DEF World
    <3>2. Fine(s)'
      BY <1>18, <3>1
    <3> QED BY <1>1, <3>1, <3>2
  <2>2. (\A i \in 1..Len(artifacts) : Fine(artifacts[i].state))'
    <3>1. PICK a : a = artifacts
      OBVIOUS
    <3>2. \A i \in 1..Len(a) : Fine(a[i].state)
      BY <1>2, <3>1 DEF World
    <3>3. (\A i \in 1..Len(a) : Fine(a[i].state))'
      BY <1>18, <3>2
    <3> QED BY <1>1, <3>1, <3>3
  <2>3. Ordered'
    BY <1>1, <1>2 DEF World, Ordered
  <2> QED BY <1>1, <1>2, <1>15, <2>1, <2>2, <2>3 DEF World
<1>20. PICK j \in Job : j = job /\ JobFine(j)
  BY <1>2
<1>21. Fine(j.state)' /\ Fine(j.state)
  BY <1>18, <1>20 DEF JobFine
<1>22. j.checkout \in (1..head)' /\ j.checkout \in 1..head
  BY <1>16, <1>20 DEF JobFine
<1>23. Pinned(j)'
  <2>1. Pinned(j)
    BY <1>20 DEF JobFine
  <2>2. j.phase = "upload" /\ ~j.failed /\ ~j.measured =>
          j.state.latest # None /\ tree'[j.state.latest.revision] = tree'[j.checkout]
    BY <1>16, <1>21, <1>22, <2>1 DEF Pinned, Fine, LatestFine
  <2>3. j.phase = "measure" \/ j.measured => j.state.checked = fingerprint(j.checkout)'
    BY <1>16, <1>22, <2>1 DEF Pinned
  <2> QED BY <2>1, <2>2, <2>3 DEF Pinned
<1>24. (j.phase \in {"plan", "measure", "evidence", "finish", "upload"} => GoesOn(j.state, j.passed))'
  BY <1>1, <1>20 DEF JobFine, GoesOn
<1>25. JobFine(j)'
  BY <1>20, <1>21, <1>22, <1>23, <1>24 DEF JobFine
<1> QED BY <1>1, <1>19, <1>20, <1>25 DEF StateInv

(* A new run is one that no artifact, attempt or page still names: there are *)
(* more identities than places that can name one.                            *)
LEMMA NewRunIs ==
  ASSUME StateInv
  PROVE  NewRun \in Runs /\ NewRun \notin Named
<1>1. artifacts \in Seq(Artifact)
  BY WorldFacts
<1>2. PICK n \in Nat : n = Len(artifacts) /\ n <= MaxArtifacts
  BY WorldFacts
<1>3. DOMAIN artifacts = 1..n
  BY <1>1, <1>2
<1>4. IsFiniteSet(1..n) /\ Cardinality(1..n) = n
  <2>1. 1 \in Int /\ n \in Int
    BY <1>2
  <2> QED BY <2>1, FS_Interval
<1> DEFINE A == {artifacts[i].run : i \in 1..n}
           B == {artifacts[i].state.attempt.run : i \in 1..n}
<1>5. IsFiniteSet(A) /\ Cardinality(A) <= n
  <2>1. [i \in 1..n |-> artifacts[i].run] \in Surjection(1..n, A)
    BY DEF Surjection
  <2> QED BY <1>4, <2>1, FS_Surjection
<1>6. IsFiniteSet(B) /\ Cardinality(B) <= n
  <2>1. [i \in 1..n |-> artifacts[i].state.attempt.run] \in Surjection(1..n, B)
    BY DEF Surjection
  <2> QED BY <1>4, <2>1, FS_Surjection
<1>7. Named = ((A \cup B) \cup {page.attempt.run}) \cup {trigger}
  BY <1>3 DEF Named
<1> HIDE DEF A, B
<1>8. IsFiniteSet(A \cup B) /\ Cardinality(A \cup B) <= 2 * n
  <2>1. IsFiniteSet(A \cup B) /\ Cardinality(A \cup B) = Cardinality(A) + Cardinality(B) - Cardinality(A \cap B)
    BY <1>5, <1>6, FS_Union
  <2>2. IsFiniteSet(A \cap B)
    BY <1>5, FS_Intersection
  <2>3. Cardinality(A) \in Nat /\ Cardinality(B) \in Nat /\ Cardinality(A \cap B) \in Nat
    BY <1>5, <1>6, <2>2, FS_CardinalityType
  <2> QED BY <1>2, <1>5, <1>6, <2>1, <2>3
<1>9. PICK C : C = (A \cup B) \cup {page.attempt.run}
  OBVIOUS
<1>10. IsFiniteSet(C) /\ Cardinality(C) <= 2 * n + 1
  <2>1. Cardinality(A \cup B) \in Nat
    BY <1>8, FS_CardinalityType
  <2>2. IsFiniteSet(C) /\ (Cardinality(C) = Cardinality(A \cup B) \/ Cardinality(C) = Cardinality(A \cup B) + 1)
    BY <1>8, <1>9, FS_AddElement
  <2> QED BY <1>2, <1>8, <2>1, <2>2
<1>11. IsFiniteSet(Named) /\ Cardinality(Named) <= 2 * n + 2
  <2>1. Cardinality(C) \in Nat
    BY <1>10, FS_CardinalityType
  <2>2. Named = C \cup {trigger}
    BY <1>7, <1>9
  <2>3. IsFiniteSet(Named) /\ (Cardinality(Named) = Cardinality(C) \/ Cardinality(Named) = Cardinality(C) + 1)
    BY <1>10, <2>2, FS_AddElement
  <2> QED BY <1>2, <1>10, <2>1, <2>3
<1>12. PICK M \in Nat, R \in Nat : M = MaxArtifacts /\ R = MaxRuns /\ R > 2 * M + 2
  BY BoundsAssumption
<1>13. Cardinality(Runs) = R /\ IsFiniteSet(Runs)
  <2>1. 1 \in Int /\ R \in Int /\ R >= 1
    BY <1>12
  <2> QED BY <1>12, <2>1, FS_Interval DEF Runs
<1>14. \E r \in Runs : r \notin Named
  <2>1. SUFFICES ASSUME Runs \in SUBSET Named PROVE FALSE
    OBVIOUS
  <2>2. Cardinality(Runs) <= Cardinality(Named)
    BY <1>11, <2>1, FS_Subset
  <2>3. Cardinality(Named) \in Nat
    BY <1>11, FS_CardinalityType
  <2> QED BY <1>2, <1>11, <1>12, <1>13, <2>2, <2>3
<1> QED BY <1>14 DEF NewRun

(* A job starts under a run of its own, or under that of its first attempt.  *)
LEMMA StartKeeps ==
  ASSUME StateInv, Start
  PROVE  StateInv'
<1>1. job.phase = "idle" /\ UNCHANGED <<kind, tree, artifacts, page, clock, trigger>> /\ pending' = NoRun
  BY DEF Start
<1>2. PICK force \in BOOLEAN, commit \in 1..head :
        job' = [Idle EXCEPT !.phase = "restore", !.checkout = commit, !.force = force,
                            !.run = IF pending = NoRun THEN NewRun ELSE pending]
  <2>1. head \in 1..head
    BY WorldFacts DEF TreeExact, head
  <2> QED BY <2>1 DEF Start
<1>3. PICK r \in Runs : r = IF pending = NoRun THEN NewRun ELSE pending
  <2>1. pending # NoRun => pending \in Runs
    BY WorldFacts, BoundsAssumption DEF NoRun, Runs
  <2> QED BY <2>1, NewRunIs
<1>4. r \in 0..MaxRuns /\ commit \in Nat
  BY WorldFacts, BoundsAssumption DEF Runs
<1>5. PICK j : j = [Idle EXCEPT !.phase = "restore", !.checkout = commit, !.force = force, !.run = r]
  OBVIOUS
<1>6. /\ j \in Job /\ j.phase = "restore" /\ j.run = r /\ j.checkout = commit /\ j.state = empty
      /\ j.measured = FALSE
  BY <1>4, <1>5, IdleFine DEF Job, Phases
<1>7. Pinned(j)
  BY <1>6 DEF Pinned
<1>8. JobFine(j)
  BY <1>6, <1>7, WorldFacts DEF JobFine
<1>9. {pending', trigger'} \subseteq 0..MaxRuns
  BY <1>1, WorldFacts, BoundsAssumption DEF NoRun
<1> QED BY <1>1, <1>2, <1>3, <1>5, <1>8, <1>9, JobStep

(* Before the first run.                                                     *)
LEMMA InitHolds ==
  ASSUME Init
  PROVE  StateInv
<1>1. /\ tree = <<[inputs |-> 1, suite |-> 1]>> /\ artifacts = <<>> /\ job = Idle /\ trigger = 0 /\ pending = 0
      /\ page = empty /\ clock = 0 /\ kind \in Series
  BY DEF Init, NoRun
<1>2. TreeExact /\ head = 1
  <2>1. [inputs |-> 1, suite |-> 1] \in Inputs
    BY DEF Inputs
  <2>2. tree \in Seq(Inputs) /\ Len(tree) = 1 /\ tree[1].inputs = 1
    BY <1>1, <2>1
  <2>3. \A r \in 1..1 : r = 1
    OBVIOUS
  <2> QED BY <2>2, <2>3 DEF TreeExact, head
<1>3. artifacts \in Seq(Artifact) /\ Len(artifacts) = 0 /\ \A i : i \notin 1..Len(artifacts)
  BY <1>1, EmptySeq
<1>4. Fine(empty) /\ 0 \in 0..MaxRuns
  BY <1>1, EmptyState, BoundsAssumption
<1>5. Ordered
  BY <1>3 DEF Ordered
<1>6. World
  BY <1>1, <1>2, <1>3, <1>4, <1>5, BoundsAssumption DEF World
<1>7. Idle \in Job /\ Idle.phase = "idle" /\ Idle.state = empty /\ Idle.measured = FALSE /\ Idle.checkout = 1
  <2>1. {} \in SUBSET (0..MaxRuns)
    OBVIOUS
  <2> QED BY <1>4, <2>1, EmptyState DEF Idle, Job, Phases, NoRun
<1>8. JobFine(Idle)
  BY <1>2, <1>4, <1>7 DEF JobFine, Pinned
<1> QED BY <1>1, <1>6, <1>8 DEF StateInv

(* Stuttering.                                                               *)
LEMMA StutterHolds ==
  ASSUME StateInv, UNCHANGED vars
  PROVE  StateInv'
<1>1. UNCHANGED <<kind, tree, artifacts, job, page, clock, pending, trigger>>
  BY DEF vars
<1>2. PICK j : j = job /\ JobFine(j)
  BY DEF StateInv
<1> QED BY <1>1, <1>2, JobStep, WorldFacts

---------------------------------------------------------------------------
(* At every step a job of any series can be lost at, the state it holds goes *)
(* on from every artifact it did not pass over, and so does every artifact   *)
(* from the earlier ones (state.py, publication.py, the concurrency group).  *)
THEOREM StateInvariant == Spec => []StateInv
<1>1. StateInv /\ [Next]_vars => StateInv'
  <2> SUFFICES ASSUME StateInv, [Next]_vars PROVE StateInv'
    OBVIOUS
  <2>1. CASE Next
    BY <2>1, CommitKeeps, RerunKeeps, StartKeeps, RestoreKeeps, PlanKeeps, MeasureKeeps, FinishKeeps, UploadKeeps,
       CompleteKeeps, DieKeeps, ExpireKeeps, SiteKeeps DEF Next
  <2>2. CASE UNCHANGED vars
    BY <2>2, StutterHolds
  <2> QED BY <2>1, <2>2
<1> QED BY <1>1, InitHolds, PTL DEF Spec

(* Every retained history is in order, ends with the latest snapshot and     *)
(* goes on from every earlier one that no later job passed over, re-runs     *)
(* included (state.py restore and finish).                                   *)
THEOREM HistoryIsKept == Spec => []HistoryKept
<1>1. StateInv => HistoryKept
  <2> SUFFICES ASSUME StateInv PROVE HistoryKept
    OBVIOUS
  <2>1. \A i \in DOMAIN artifacts : Fine(artifacts[i].state)
    BY WorldFacts
  <2>2. \A i, k \in DOMAIN artifacts :
          i < k /\ ~artifacts[i].passed => Extends(artifacts[k].state.history, artifacts[i].state.history)
    BY WorldFacts DEF Ordered
  <2> QED BY <2>1, <2>2 DEF HistoryKept, Fine, Listed
<1> QED BY <1>1, StateInvariant, PTL

(* A job that skips its measurement leaves a latest snapshot that measured   *)
(* the inputs of its own checkout (plan compares fingerprints only).         *)
THEOREM SkippedWasMeasured == Spec => []SkippedIsMeasured
<1>1. StateInv => SkippedIsMeasured
  BY DEF StateInv, JobFine, Pinned, SkippedIsMeasured
<1> QED BY <1>1, StateInvariant, PTL
=============================================================================
