--------------------------- MODULE PerformanceState ---------------------------
(***************************************************************************)
(* The retained state of a performance series and the jobs that carry it   *)
(* from run to run: tools/daily-performance/state.py (daily and weekly     *)
(* series), tools/representative-performance/publication.py, the fallback  *)
(* tools/weekly-performance/pages-fallback.py, the reader                  *)
(* tools/development-progress/report.py, and the workflow files that call  *)
(* them.  A state lives only in the artifacts that jobs upload; a job may  *)
(* lose its runner between any two steps, a request to the host may fail,  *)
(* artifacts expire, main moves while jobs run, and a run may be started   *)
(* again: it keeps its identity, and its artifacts are not read meanwhile. *)
(***************************************************************************)
EXTENDS Integers, Sequences, SequencesExt

CONSTANTS
    Series,         \* bound: the series considered, of "daily", "weekly" and "representative"
    MaxRuns,        \* identities of workflow runs, reused once nothing names them
    HistoryLimit,   \* 60 snapshots (daily, weekly), 12 (representative)
    MaxArtifacts,   \* artifacts kept before the oldest expires
    MaxCommits,     \* commits on main, the first included
    MaxForced,      \* per series: new runs that measure although nothing changed
    MaxReruns,      \* per series: runs started again
    MaxPages,       \* per series: changes of the published page
    MaxFaults       \* per series: lost runners, failed requests, expiry of the last artifact

ASSUME BoundsAssumption ==
    /\ Series \subseteq {"daily", "weekly", "representative"}
    /\ HistoryLimit \in Nat \ {0} /\ MaxArtifacts \in Nat \ {0}
    /\ MaxCommits \in Nat \ {0} /\ {MaxForced, MaxReruns, MaxPages, MaxFaults} \subseteq [Series -> Nat]
    /\ MaxRuns \in Nat /\ MaxRuns > 2 * MaxArtifacts + 2

VARIABLES
    kind,       \* the series
    tree,       \* per commit on main, the performance inputs it holds
    artifacts,  \* uploaded states, oldest first, each with its run; passed is history:
                \* a job that uploaded after it had not read it
    job,        \* the job of the concurrency group; passed: the runs it did not read
    pending,    \* the run that was started again and waits for the group
    trigger,    \* the run whose completion the next Pages build reacts to
    page,       \* the published state
    clock,      \* the snapshots published so far, the time of a measurement
    forced, reruns, pages, faults

vars == <<kind, tree, artifacts, job, pending, trigger, page, clock, forced, reruns, pages, faults>>
----------------------------------------------------------------------------
Runs == 1..MaxRuns
NoRun == 0
None == [at |-> 0, revision |-> 0, fingerprint |-> 0, series |-> 0]
NoAttempt == [run |-> NoRun, status |-> "none"]

\* What state.json holds; "checked" is the fingerprint the last plan computed.
empty == [latest |-> None, attempt |-> NoAttempt, history |-> <<>>, checked |-> 0]

Idle == [phase |-> "idle", run |-> NoRun, checkout |-> 1, state |-> empty,
         passed |-> {}, force |-> FALSE, measured |-> FALSE, evidence |-> FALSE, failed |-> FALSE]

head == Len(tree)
fingerprint(r) == tree[r].inputs
series(r) == tree[r].suite

\* state.py refuses a history beyond its retention, whoever wrote it.
validate(s) == Len(s.history) <= HistoryLimit

\* The newest artifact whose run has completed; those of a run in progress or waiting
\* are skipped, whichever of its attempts uploaded them.
InProgress == {job.run, pending}
Completed == {i \in DOMAIN artifacts : artifacts[i].run \notin InProgress}
NewestOf(S) == CHOOSE i \in S : \A j \in S : j <= i
\* Mutant of Restore: the listing is taken in the wrong order.
RestoredOldest == IF Completed = {} THEN empty
                  ELSE artifacts[CHOOSE i \in Completed : \A j \in Completed : i <= j].state
Restored == IF Completed = {} THEN empty ELSE artifacts[NewestOf(Completed)].state

\* The representative series falls back to the public page when the artifact
\* cannot be read or holds no measurement, keeping whichever attempt is newer.
PublicStates(found) ==
    IF page.latest # None
    THEN {page} \cup (IF found.attempt # NoAttempt THEN {[page EXCEPT !.attempt = found.attempt]} ELSE {})
    ELSE {IF found.attempt = NoAttempt THEN page ELSE found}
Fallback(found) == IF found.latest # None THEN {found} ELSE PublicStates(found)
\* What remains when the artifact, the page, or both cannot be read.
Degraded(found) == PublicStates(empty) \cup {found, empty}

Fault == faults < MaxFaults[kind] /\ faults' = faults + 1
----------------------------------------------------------------------------
Init ==
    /\ kind \in Series
    /\ tree = <<[inputs |-> 1, suite |-> 1]>>
    /\ artifacts = <<>> /\ job = Idle /\ pending = NoRun /\ trigger = NoRun
    /\ page = empty /\ clock = 0 /\ forced = 0 /\ reruns = 0 /\ pages = 0 /\ faults = 0

\* A commit touches prose only, performance inputs, or the suite as well: every
\* file that series() reads is one that relevant() selects.
Commit ==
    /\ head < MaxCommits
    /\ LET t == Last(tree) IN
       tree' \in {Append(tree, t), Append(tree, [t EXCEPT !.inputs = head + 1]),
                  Append(tree, [inputs |-> head + 1, suite |-> head + 1])}
    /\ UNCHANGED <<kind, artifacts, job, pending, trigger, page, clock, forced, reruns, pages, faults>>

Named == {artifacts[i].run : i \in DOMAIN artifacts} \cup {artifacts[i].state.attempt.run : i \in DOMAIN artifacts}
         \cup {page.attempt.run, trigger}
NewRun == CHOOSE r \in Runs : r \notin Named

\* A completed run is started again under its old identity, and waits for the group.
Rerun ==
    /\ pending = NoRun /\ reruns < MaxReruns[kind] /\ reruns' = reruns + 1
    /\ pending' \in Named \ {NoRun, job.run}
    /\ UNCHANGED <<kind, tree, artifacts, job, trigger, page, clock, forced, pages, faults>>

\* The group keeps one waiting run: a newer one cancels it, and so may its owner.
CancelRerun ==
    /\ pending # NoRun
    /\ trigger' = pending /\ pending' = NoRun
    /\ UNCHANGED <<kind, tree, artifacts, job, page, clock, forced, reruns, pages, faults>>

\* Cron, or a dispatch that may force a measurement; representative runs are
\* dispatched and always measure.  The concurrency group admits one job.  It checks
\* out main, or the commit of its dispatch, which main may have left behind.
Start ==
    /\ job.phase = "idle"
    /\ \E force \in IF kind = "representative" THEN {TRUE} ELSE BOOLEAN,
          commit \in IF kind = "representative" THEN 1..head ELSE {head} :
       /\ force /\ pending = NoRun => forced < MaxForced[kind]
       /\ forced' = forced + IF force /\ pending = NoRun THEN 1 ELSE 0
       /\ job' = [Idle EXCEPT !.phase = "restore", !.checkout = commit, !.force = force,
                              !.run = IF pending = NoRun THEN NewRun ELSE pending]
    /\ pending' = NoRun
    /\ UNCHANGED <<kind, tree, artifacts, trigger, page, clock, reruns, pages, faults>>

Fail == job' = [job EXCEPT !.phase = "end", !.failed = TRUE]

Passing(s, runs) == [job EXCEPT !.phase = "plan", !.state = s, !.passed = runs]

\* state.py restore: a failed request or an invalid state fails the step, and
\* without a restored state nothing is uploaded.  publication.py falls back.
RestoreReading(found) ==
    /\ job.phase = "restore"
    /\ IF kind = "representative"
       THEN \/ \E s \in Fallback(found) : job' = Passing(s, InProgress) /\ UNCHANGED faults
            \/ \E s \in Degraded(found) :
                 Fault /\ job' = Passing(s, IF s = found THEN InProgress ELSE 0..MaxRuns)
       ELSE \/ validate(found) /\ job' = Passing(found, InProgress) /\ UNCHANGED faults
            \/ ~validate(found) /\ Fail /\ UNCHANGED faults
            \/ Fail /\ Fault
    /\ UNCHANGED <<kind, tree, artifacts, pending, trigger, page, clock, forced, reruns, pages>>
RestoreOldest == RestoreReading(RestoredOldest)
Restore == RestoreReading(Restored)

Changed(s, r) == s.latest = None \/ s.latest.fingerprint # fingerprint(r)

\* plan skips an unchanged day; otherwise, as start does, it records a running
\* attempt.  When the step fails, before or after plan's write, daily jobs have
\* no output and skip to the upload; representative jobs still reach finish.
PlanWhen(changed) ==
    /\ job.phase = "plan"
    /\ LET s == job.state
           run == job.force \/ changed
           planned == [s EXCEPT !.checked = fingerprint(job.checkout),
                                !.attempt = IF run THEN [run |-> job.run, status |-> "running"] ELSE @]
       IN \/ /\ job' = [job EXCEPT !.phase = IF run THEN "measure" ELSE "upload", !.state = planned]
             /\ UNCHANGED faults
          \/ /\ Fault
             /\ job' \in IF kind = "representative" THEN {[job EXCEPT !.phase = "evidence", !.failed = TRUE]}
                         ELSE {[job EXCEPT !.phase = "upload", !.failed = TRUE, !.state = t] : t \in {s, planned}}
    /\ UNCHANGED <<kind, tree, artifacts, pending, trigger, page, clock, forced, reruns, pages>>
\* Mutant of Plan: only a missing snapshot counts as a change.
PlanWithoutFingerprint == PlanWhen(job.state.latest = None)
\* Mutant of Plan: an attempt left running is not repeated.
PlanUnlessRunning == PlanWhen(job.state.attempt.status # "running" /\ Changed(job.state, job.checkout))
Plan == PlanWhen(Changed(job.state, job.checkout))

\* Toolchain, compilers and measurement: a step that fails, or the job's time
\* limit, leaves no snapshot; the steps marked always() still run.
Measure ==
    /\ job.phase = "measure"
    /\ \/ job' = [job EXCEPT !.phase = "evidence", !.measured = TRUE] /\ UNCHANGED faults
       \/ Fault /\ job' = [job EXCEPT !.phase = "evidence", !.failed = TRUE]
    /\ UNCHANGED <<kind, tree, artifacts, pending, trigger, page, clock, forced, reruns, pages>>

Evidence ==
    /\ job.phase = "evidence"
    /\ \/ job' = [job EXCEPT !.phase = "finish", !.evidence = TRUE] /\ UNCHANGED faults
       \/ Fault /\ job' = [job EXCEPT !.phase = "finish", !.failed = TRUE]
    /\ UNCHANGED <<kind, tree, artifacts, pending, trigger, page, clock, forced, reruns, pages>>

\* Mutant of Recent: the oldest snapshots are kept.
RecentFirst(h) == IF Len(h) > HistoryLimit THEN SubSeq(h, 1, HistoryLimit) ELSE h
Recent(h) == IF Len(h) > HistoryLimit THEN SubSeq(h, Len(h) - HistoryLimit + 1, Len(h)) ELSE h

\* The snapshot measure.py wrote, with the fingerprint plan computed.
Taken == [at |-> clock + 1, revision |-> job.checkout, fingerprint |-> job.state.checked, series |-> series(job.checkout)]
NotMeasured == {"infrastructure-failure"} \cup
               (IF kind = "representative" /\ job.evidence THEN {"measurement-failure"} ELSE {})

Publish(s, snap) == [s EXCEPT !.latest = snap, !.history = Recent(Append(@, snap)), !.attempt.status = "measured"]

\* finish: a measurement counts only with its evidence.  An error inside finish,
\* or a representative state without an attempt, leaves the state as it was.
Finish ==
    /\ job.phase = "finish"
    /\ \/ /\ job.state.attempt # NoAttempt /\ UNCHANGED faults
          /\ IF job.measured /\ job.evidence
             THEN job' = [job EXCEPT !.phase = "upload", !.state = Publish(@, Taken)] /\ clock' = clock + 1
             ELSE /\ \E x \in NotMeasured : job' = [job EXCEPT !.phase = "upload", !.state.attempt.status = x]
                  /\ UNCHANGED clock
       \/ /\ job.state.attempt = NoAttempt \/ faults < MaxFaults[kind]
          /\ faults' = faults + IF job.state.attempt = NoAttempt THEN 0 ELSE 1
          /\ job' = [job EXCEPT !.phase = "upload", !.failed = TRUE] /\ UNCHANGED clock
    /\ UNCHANGED <<kind, tree, artifacts, pending, trigger, page, forced, reruns, pages>>

\* The artifacts, with those that this job did not read marked as passed over.
Marked == [i \in DOMAIN artifacts |-> [artifacts[i] EXCEPT !.passed = @ \/ artifacts[i].run \in job.passed]]
Kept(a) == IF Len(a) > MaxArtifacts THEN Tail(a) ELSE a

\* Artifacts are uploaded by jobs that restored a state, on unchanged days too.
Upload ==
    /\ job.phase = "upload"
    /\ \/ /\ artifacts' = Kept(Append(Marked, [run |-> job.run, state |-> job.state, passed |-> FALSE]))
          /\ job' = [job EXCEPT !.phase = "end"] /\ UNCHANGED faults
       \/ Fault /\ Fail /\ UNCHANGED artifacts
    /\ UNCHANGED <<kind, tree, pending, trigger, page, clock, forced, reruns, pages>>

\* The run completes; its completion triggers the Pages workflow, which reacts
\* to the conclusion failure.
Complete ==
    /\ job.phase = "end"
    /\ trigger' = IF job.failed THEN job.run ELSE NoRun
    /\ job' = Idle
    /\ UNCHANGED <<kind, tree, artifacts, pending, page, clock, forced, reruns, pages, faults>>

\* The runner is lost: no further step runs.
Die ==
    /\ job.phase \notin {"idle", "end"} /\ Fault /\ Fail
    /\ UNCHANGED <<kind, tree, artifacts, pending, trigger, page, clock, forced, reruns, pages>>

\* Retention drops old artifacts first; losing the last one of a completed run needs
\* 90 days without a run, and then a daily or weekly history is gone.  A run can be
\* started again for 30 days, so its own artifacts outlive it.
Expire ==
    /\ artifacts # <<>> /\ artifacts[1].run # job.run
    /\ IF Completed \subseteq {1} THEN Fault ELSE UNCHANGED faults
    /\ artifacts' = Tail(artifacts)
    /\ UNCHANGED <<kind, tree, job, pending, trigger, page, clock, forced, reruns, pages>>

\* site: a failed run that left a stale attempt, or none, is shown as failed.
Shown(s, failed) ==
    IF failed # NoRun /\ (s.attempt.run # failed \/ s.attempt.status = "running")
    THEN [s EXCEPT !.attempt = [run |-> failed, status |-> "infrastructure-failure"]] ELSE s

\* Pages reads the newest state of a completed run, after that run or after a
\* push.  Weekly builds that cannot read it fall back to the public page or to
\* nothing, representative ones as above; a failed daily restore fails the build.
Site ==
    /\ \E failed \in {trigger, NoRun} :
       /\ trigger' = IF failed = trigger THEN NoRun ELSE trigger
       /\ \/ /\ UNCHANGED faults
             /\ page' \in {Shown(s, failed) : s \in IF kind = "representative" THEN Fallback(Restored) ELSE {Restored}}
          \/ /\ Fault
             /\ page' \in CASE kind = "daily" -> {page}
                         [] kind = "weekly" -> {Shown(s, failed) : s \in {page, empty}}
                         [] kind = "representative" -> {Shown(s, failed) : s \in Degraded(Restored)}
    /\ pages' = pages + (IF page' = page THEN 0 ELSE 1) /\ pages' <= MaxPages[kind]
    /\ UNCHANGED <<kind, tree, artifacts, job, pending, clock, forced, reruns>>

Next ==
    \/ Commit \/ Rerun \/ CancelRerun \/ Start \/ Restore \/ Plan \/ Measure \/ Evidence \/ Finish
    \/ Upload \/ Complete \/ Die \/ Expire \/ Site

\* Cron starts a job every day, and the host runs or cancels a job's steps.
Fairness == WF_vars(Start) /\ WF_vars(Restore \/ Plan \/ Measure \/ Evidence \/ Finish \/ Upload \/ Complete)

Spec == Init /\ [][Next]_vars /\ Fairness
----------------------------------------------------------------------------
InOrder(h) == \A i, j \in DOMAIN h : i < j => h[i].at < h[j].at

\* g goes on where h ended: it begins with h, or with what is left of h after its
\* oldest snapshots, which only a full history drops.
Extends(g, h) ==
    \E dropped \in 0..Len(h) :
      /\ dropped > 0 => Len(g) = HistoryLimit
      /\ Len(h) - dropped <= Len(g)
      /\ \A i \in 1..(Len(h) - dropped) : g[i] = h[i + dropped]

\* No snapshot is lost, reordered or listed twice: every retained history extends
\* every earlier one, however runs died and requests failed in between, and ends with
\* the latest snapshot.  The exception is a state that a later job passed over: its
\* run had been started again and had not completed, or, in the representative series,
\* it could not be read.
HistoryKept ==
    /\ \A i \in DOMAIN artifacts :
         LET s == artifacts[i].state
         IN  InOrder(s.history) /\ s.latest = IF s.history = <<>> THEN None ELSE Last(s.history)
    /\ \A i, j \in DOMAIN artifacts :
         i < j /\ ~artifacts[i].passed => Extends(artifacts[j].state.history, artifacts[i].state.history)

\* docs/daily-performance.md: an infrastructure failure keeps the last complete
\* snapshot and publishes the failed attempt when state is available.  Asked of a
\* page built from the state of the failed run while no other run is in progress.
FailureKeepsSnapshot ==
    [][(/\ kind = "daily" /\ InProgress = {NoRun}
        /\ page' # page /\ page' = Restored /\ page'.attempt.status = "infrastructure-failure")
       => page'.latest.at >= page.latest.at]_vars

\* A job that skips its measurement leaves a latest snapshot that measured the
\* very inputs of its checkout, although the fingerprint it compared was written
\* by another run at another commit.
SkippedIsMeasured ==
    (job.phase = "upload" /\ ~job.failed /\ ~job.measured) =>
      /\ job.state.latest # None
      /\ tree[job.state.latest.revision] = tree[job.checkout]

\* Whatever runs died, every change of the inputs of a scheduled series is
\* measured in the end: an attempt left "running" blocks nothing.
ChangesMeasured ==
    kind # "representative" => <>[](job.phase = "idle" => ~Changed(Restored, head))
=============================================================================
