------------------------------ MODULE Measurement ------------------------------
(***************************************************************************)
(* The measurement controllers and the processes they observe:             *)
(* tools/daily-performance/measure.py, tools/weekly-performance/measure.py,*)
(* tools/representative-performance/measure.py with the acceptance rules   *)
(* of publication.py, tools/runtime-diagnostic, the array-loop recovery    *)
(* and hash controllers, the rules of state.py for a published snapshot,   *)
(* and tools/cumulative-performance/qualify.py, which judges one.          *)
(* A command runs as the leader of a process group of its own; it may hang,*)
(* fail, or leave descendants behind, and a timer races its exit.          *)
(***************************************************************************)
EXTENDS Integers, Sequences, SequencesExt, FiniteSets

CONSTANTS
    Controllers,    \* the controllers an instance covers
    Roles,          \* the compilers compared, a sequence of distinct names
    CaseCount,      \* the number of workloads of each controller
    BuildRounds,    \* 4 in the code: one warmup and three retained builds
    Warmups, Samples,   \* 1 and 5
    SelfBuilds,     \* 3: one warmup and two retained
    Generations,    \* 4 ordinary generations of a diagnostic compiler
    MaxFailures     \* wrong exits and outputs, exceptions and lost runners

ASSUME MeasurementAssumption ==
    /\ Controllers \subseteq {"daily", "weekly", "representative", "diagnostic", "recovery", "hash"}
    /\ CaseCount \in [Controllers -> Nat \ {0}] /\ BuildRounds \in Nat \ {0, 1} /\ Samples \in Nat \ {0}
    /\ Warmups \in Nat /\ SelfBuilds \in Nat \ {0, 1} /\ Generations \in Nat /\ MaxFailures \in Nat
    /\ Roles \in Seq(STRING) \ {<<>>} /\ IsInjective(Roles)
    /\ \A i \in DOMAIN Roles : Roles[i] \notin {"self", "control-go-original"}

VARIABLES
    controller, \* which program runs
    options,    \* of a diagnostic: "reuse" of an earlier run's programs, float "controls"
    todo,       \* what is left to do, in order
    row,        \* status of each case and role, and of the self compilation
    raw,        \* every observation recorded, in order
    coverage,   \* roles and cases whose garbage collector probe succeeded
    binary,     \* the self-built compiler: 0 none yet, 1 the measured one, 2 another
    rows,       \* the rows summarized so far
    proc,       \* the observed process group
    obs,        \* the running call of observe
    disk,       \* the manifest or snapshot on disk
    failures

vars == <<controller, options, todo, row, raw, coverage, binary, rows, proc, obs, disk, failures>>
cohort == <<controller, options, todo, row, raw, coverage, binary, rows, disk>>
----------------------------------------------------------------------------
\* What each controller does, in order.
Cases == CaseCount[controller]
CaseIds == 1..Cases
Item(kind, c, r, phase) == [kind |-> kind, case |-> c, role |-> r, phase |-> phase]
Finish == <<Item("finish", 0, "none", "none")>>
\* Something verified before the program goes on; what it finds wrong raises.
Checked(c, what) == <<Item("check", c, what, "none")>>
reuse(o) == "reuse" \in o

rotated(names, k) ==
    LET n == k % Len(names) IN SubSeq(names, n + 1, Len(names)) \o SubSeq(names, 1, n)
Phase(i, warm) == IF i <= warm THEN "warmup" ELSE "retained"
OneRound(kind, c, names, phase) == [i \in DOMAIN names |-> Item(kind, c, names[i], phase)]
RotatedRounds(kind, c, rounds, warm) ==
    FlattenSeq([i \in 1..rounds |-> OneRound(kind, c, rotated(Roles, i - 1), Phase(i, warm))])
PerCase(n, Op(_)) == FlattenSeq([c \in 1..n |-> Op(c)])
Summary(c) == <<Item("summarize", c, "none", "none")>>

\* An exact workload: the text a case replaces occurs once in its source.
source_case(c) == Checked(c, "source")

\* Compiler roles and revisions, before evidence is written.
daily_roles == Checked(0, "roles")

\* Builds rotate over the roles; each built program is stripped and probed;
\* runs rotate again; then the rows of the case are summarized.
strip_and_probe(c) ==
    FlattenSeq([i \in DOMAIN Roles |-> <<Item("strip", c, Roles[i], "none"), Item("probe", c, Roles[i], "none")>>])
daily_case(c) ==
    source_case(c) \o RotatedRounds("build", c, BuildRounds, 1) \o strip_and_probe(c)
    \o RotatedRounds("run", c, Warmups + Samples, Warmups) \o Summary(c)
measure_self_compilation ==
    <<Item("compiler-ir", 0, "self", "retained")>>
    \o [i \in 1..SelfBuilds |-> Item("compiler-self", 0, "self", Phase(i, 1))]

\* The upstream archive and each program in it, then the registered cases.
extract_sources == Checked(0, "archive")
context_cases == Checked(0, "registered-cases")

\* A language is built four times before the next one.
weekly_case(c) ==
    source_case(c) \o FlattenSeq([r \in DOMAIN Roles |->
                  [i \in 1..BuildRounds |-> Item("build", c, Roles[r], Phase(i, 1))]])
    \o RotatedRounds("run", c, Warmups + Samples, Warmups) \o Summary(c)

\* Cases of a profile; the first manifest; compilers; identities of all tools.
load_cases == Checked(0, "profile")
begin_manifest == <<Item("manifest", 0, "none", "none")>>
tool_identities == Checked(0, "tools")
build_programs == OneRound("build", 0, Roles, "retained")
representative_case(c) == RotatedRounds("run", c, Warmups + Samples, Warmups) \o Summary(c)
gc_probes(n) == [c \in 1..n |-> Item("probe", c, Roles[1], "none")]

validate_registration == Checked(0, "registration")
diagnostic_context == Checked(0, "host-and-seed")
\* The archive of an earlier run: its provenance, digest and members.
load_reused == Checked(0, "provenance") \o Checked(0, "unpack")
verified_compiler == Checked(0, "parent-fixed-point")
\* Compilers from ordinary generations, or one generation from a verified
\* compiler of an earlier run; then applications, then the rotated rounds.
prepare(o, r) ==
    (IF reuse(o) THEN verified_compiler ELSE <<>>) \o
    [g \in 1..(IF reuse(o) THEN 1 ELSE Generations) |-> Item("generation", 0, r, "none")]
    \o (IF reuse(o) THEN <<>> ELSE Checked(0, "fixed-point"))
\* Reused programs are verified, others built; float controls are further
\* programs of the first case.
verified_program(o, c) == IF reuse(o) THEN Checked(c, "identity") ELSE <<>>
ControlRoles == <<"control-go-original">>
prepare_controls(c) ==
    Checked(c, "control-sources") \o OneRound("build", c, ControlRoles, "retained") \o Checked(c, "instructions")
HasControls(o, c) == "controls" \in o /\ c = 1
RolesOf(o, c) == IF HasControls(o, c) THEN Roles \o ControlRoles ELSE Roles
\* The code of the built programs, emitted and translated once more; a command
\* that fails raises, and each is taken to end.
emitted_code(c) == Checked(c, "emitted-code")
diagnostic_builds(o, c) ==
    source_case(c) \o verified_program(o, c)
    \o OneRound("build", c, IF reuse(o) THEN Tail(Roles) ELSE Roles, "retained") \o emitted_code(c)
    \o (IF HasControls(o, c) THEN prepare_controls(c) ELSE <<>>)
runtime_schedule(n, o, i) ==
    FlattenSeq([k \in 1..n |->
      LET c == ((k - 1 + i) % n) + 1 IN
      OneRound("run", c, rotated(RolesOf(o, c), i + c - 1), IF i = 0 THEN "first" ELSE "steady")])

\* Warmups in a fixed order, retained rounds in alternating order.
recovery_inputs == Checked(0, "executables")
recovery_rounds ==
    FlattenSeq([i \in 1..Warmups |-> OneRound("run", 1, Roles, "warmup")])
    \o FlattenSeq([i \in 1..Samples |->
                     OneRound("run", 1, IF i % 2 = 0 THEN Reverse(Roles) ELSE Roles, "retained")])
hash_inputs == Checked(0, "size-ceiling")
hash_rounds ==
    FlattenSeq([i \in 1..(Warmups + Samples) |->
                  OneRound("build", 0, IF i % 2 = 1 THEN Roles ELSE Reverse(Roles), Phase(i, 1))])
    \o FlattenSeq([i \in 1..(Warmups + Samples) |-> OneRound("run", 1, Roles, Phase(i, 1))])

\* The whole program of each controller, over n cases.
daily(n) == daily_roles \o PerCase(n, daily_case) \o measure_self_compilation \o Finish
weekly(n) == extract_sources \o context_cases \o PerCase(n, weekly_case) \o Finish
representative(n) ==
    load_cases \o begin_manifest \o build_programs \o tool_identities
    \o PerCase(n, representative_case) \o gc_probes(n) \o Finish
prepared(o) == FlattenSeq([r \in DOMAIN Roles |-> IF reuse(o) /\ r = 1 THEN <<>> ELSE prepare(o, Roles[r])])
diagnostic(n, o) ==
    validate_registration \o diagnostic_context \o (IF reuse(o) THEN load_reused ELSE <<>>) \o prepared(o)
    \o FlattenSeq([c \in 1..n |-> diagnostic_builds(o, c)])
    \o FlattenSeq([i \in 1..(1 + Samples) |-> runtime_schedule(n, o, i - 1)])
    \o PerCase(n, Summary) \o Finish

Program(name, n, o) ==
    CASE name = "daily" -> daily(n)
      [] name = "weekly" -> weekly(n)
      [] name = "representative" -> representative(n)
      [] name = "diagnostic" -> diagnostic(n, o)
      [] name = "recovery" -> recovery_inputs \o recovery_rounds \o Summary(1) \o Finish
      [] name = "hash" -> hash_inputs \o hash_rounds \o Summary(1) \o Finish
Schedule == Program(controller, Cases, options)

\* The controllers that own a process group and bound its time.
Timed == controller \notin {"recovery", "hash"}
\* The controllers whose observe uses a timer thread rather than a selector loop.
UsesTimer == controller \in {"daily", "weekly", "diagnostic"}
----------------------------------------------------------------------------
NoProcess == [leader |-> "none", code |-> 0, child |-> "none"]
NoObs == [stage |-> "none", item |-> Finish[1], timer |-> "off", expired |-> FALSE,
          terminated |-> FALSE, status |-> "pass"]
Keys == (CaseIds \X ToSet(Roles \o ControlRoles)) \cup {<<0, "self">>} \cup ({0} \X ToSet(Roles))

Init ==
    /\ controller \in Controllers
    /\ options \in IF controller = "diagnostic" THEN SUBSET {"reuse", "controls"} ELSE {{}}
    /\ todo = Schedule
    /\ row = [k \in Keys |-> "pass"] /\ raw = <<>> /\ coverage = {} /\ binary = 0 /\ rows = {}
    /\ proc = NoProcess /\ obs = NoObs /\ failures = 0
    /\ disk = [status |-> "absent", rows |-> {}]

Fails == failures < MaxFailures /\ failures' = failures + 1
Key(i) == <<i.case, i.role>>
Ended == todo = <<>> /\ obs.stage = "none"

\* An exception ends the program; the representative controller still writes
\* the manifest it began, and no other one writes a result.
Raise ==
    /\ todo' = <<>>
    /\ disk' = IF disk.status = "running" THEN [status |-> "failed", rows |-> rows] ELSE disk
----------------------------------------------------------------------------
\* The process group, whatever it does: nothing is assumed of it.
Fork ==
    /\ proc.leader = "running" /\ proc.child = "none"
    /\ \E c \in {"holding", "silent"} : proc' = [proc EXCEPT !.child = c]
    /\ UNCHANGED <<cohort, obs, failures>>
Exit ==
    /\ proc.leader = "running"
    /\ \/ proc' = [proc EXCEPT !.leader = "zombie", !.code = 0] /\ UNCHANGED failures
       \/ proc' = [proc EXCEPT !.leader = "zombie", !.code = 1] /\ Fails
    /\ UNCHANGED <<cohort, obs>>
ChildExit ==
    /\ proc.child # "none"
    /\ proc' = [proc EXCEPT !.child = "none"]
    /\ UNCHANGED <<cohort, obs, failures>>

killpg(p) == [leader |-> IF p.leader = "running" THEN "zombie" ELSE p.leader,
              code |-> IF p.leader = "running" THEN 9 ELSE p.code, child |-> "none"]
----------------------------------------------------------------------------
\* observe of daily-performance: a timer thread sets the flag, then kills.
TimerSet ==
    /\ UsesTimer /\ obs.timer = "armed"
    /\ obs' = [obs EXCEPT !.timer = "stopping", !.expired = TRUE]
    /\ UNCHANGED <<cohort, proc, failures>>
\* Mutant of TimerKill: the timer only sets its flag.
TimerIdle ==
    /\ UsesTimer /\ obs.timer = "stopping"
    /\ obs' = [obs EXCEPT !.timer = "stopped"] /\ UNCHANGED <<cohort, proc, failures>>
TimerKill ==
    /\ UsesTimer /\ obs.timer = "stopping"
    /\ proc' = killpg(proc) /\ obs' = [obs EXCEPT !.timer = "stopped"]
    /\ UNCHANGED <<cohort, failures>>

\* process.wait, and the waiter thread of the representative observe.
Reap ==
    /\ proc.leader = "zombie"
    /\ proc' = [proc EXCEPT !.leader = "reaped"]
    /\ obs' = IF controller # "representative" THEN [obs EXCEPT !.stage = "exited"] ELSE obs
    /\ UNCHANGED <<cohort, failures>>

\* observe of representative-performance: the selector loop ends at the end of
\* both pipes and of the process, at the time limit, or at the output limit.
LoopEnd ==
    /\ controller = "representative" /\ obs.stage = "running"
    /\ proc.leader = "reaped" /\ proc.child # "holding"
    /\ obs' = [obs EXCEPT !.stage = "exited"] /\ UNCHANGED <<cohort, proc, failures>>
LoopStop ==
    /\ controller = "representative" /\ obs.stage = "running"
    /\ \E s \in {"timeout", "output-limit"} : obs' = [obs EXCEPT !.stage = "joining", !.status = s, !.terminated = TRUE]
    /\ proc' = killpg(proc) /\ UNCHANGED <<cohort, failures>>
LoopJoin ==
    /\ obs.stage = "joining" /\ proc.leader = "reaped"
    /\ obs' = [obs EXCEPT !.stage = "exited"] /\ UNCHANGED <<cohort, proc, failures>>

\* The flag is read after the wait: a timer that fires in between counts.  A
\* representative observation without its memory figure does not pass.
Classify ==
    /\ obs.stage = "exited"
    /\ LET s == IF obs.expired THEN "timeout"
                ELSE IF obs.status = "pass" /\ proc.code # 0 THEN "nonzero-exit" ELSE obs.status
       IN \/ obs' = [obs EXCEPT !.stage = "classified", !.status = s] /\ UNCHANGED failures
          \/ /\ controller = "representative" /\ s = "pass" /\ Fails
             /\ obs' = [obs EXCEPT !.stage = "classified", !.status = "missing-resource-observation"]
    /\ UNCHANGED <<cohort, proc>>

\* finally: the timer is cancelled, or joined when it is already running, and
\* the group is killed even when its leader has gone.
Returned == [obs EXCEPT !.stage = "returned", !.timer = "off"]
\* Mutant of Cleanup: a group whose leader has exited is taken for gone.
CleanupLeaderGone ==
    /\ obs.stage = "classified" /\ obs.timer # "stopping"
    /\ obs' = Returned /\ proc' = IF proc.leader = "reaped" THEN proc ELSE killpg(proc)
    /\ UNCHANGED <<cohort, failures>>
Cleanup ==
    /\ obs.stage = "classified" /\ obs.timer # "stopping"
    /\ obs' = Returned /\ proc' = IF Timed /\ ~obs.terminated THEN killpg(proc) ELSE proc
    /\ UNCHANGED <<cohort, failures>>
----------------------------------------------------------------------------
\* The controller takes the next item; a role that has failed is skipped.
Runs == {"build", "run", "probe", "generation", "compiler-ir", "compiler-self"}
Skipped(i) == controller \in {"daily", "weekly"} /\ i.kind \in Runs \cup {"strip"} /\ row[Key(i)] # "pass"

Skip ==
    /\ obs.stage = "none" /\ todo # <<>> /\ Skipped(Head(todo))
    /\ todo' = Tail(todo)
    /\ UNCHANGED <<controller, options, row, raw, coverage, binary, rows, proc, obs, disk, failures>>

Begin ==
    /\ obs.stage = "none" /\ todo # <<>>
    /\ LET i == Head(todo) IN
       /\ i.kind \in Runs /\ ~Skipped(i)
       /\ proc' = [proc EXCEPT !.leader = "running"]
       /\ obs' = [NoObs EXCEPT !.stage = "running", !.item = i, !.timer = IF UsesTimer THEN "armed" ELSE "off"]
       /\ todo' = Tail(todo)
    /\ UNCHANGED <<controller, options, row, raw, coverage, binary, rows, disk, failures>>

\* A check succeeds, or raises; so do strip, the digest of a program before it
\* runs, the time budget of the suite, a resource file that cannot be read, and
\* the storage of a built program.
Check ==
    /\ obs.stage = "none" /\ todo # <<>>
    /\ Head(todo).kind \in {"strip", "check", "manifest"} /\ ~Skipped(Head(todo))
    /\ todo' = Tail(todo)
    /\ disk' = IF Head(todo).kind = "manifest" THEN [disk EXCEPT !.status = "running"] ELSE disk
    /\ UNCHANGED <<controller, options, row, raw, coverage, binary, rows, proc, obs, failures>>
RaiseOutside ==
    /\ todo # <<>> /\ Fails /\ Raise
    /\ obs.stage = "returned" \/ (obs.stage = "none" /\ ~Skipped(Head(todo)))
    /\ obs' = NoObs /\ proc' = [NoProcess EXCEPT !.child = proc.child]
    /\ UNCHANGED <<controller, options, row, raw, coverage, binary, rows>>

\* What the checks of outputs, artifacts and digests may make of a pass.
Outcomes(s) == IF s = "pass" /\ failures < MaxFailures THEN {"pass", "output-mismatch"} ELSE {s}
Taken(i, s) == [item |-> i, status |-> s]

\* measure_self_compilation compares each binary with the first.
SelfStatus(s, d) == IF s = "pass" /\ binary \notin {0, d} THEN "output-mismatch" ELSE s

\* A probe counts as coverage or not and fails no row; the representative one
\* raises.  Daily and weekly rows keep the status and go on, the array-loop
\* controller records it, the others raise.
Record ==
    /\ obs.stage = "returned"
    /\ \E t \in Outcomes(obs.status), d \in IF obs.item.kind = "compiler-self" THEN {1, 2} ELSE {0} :
       LET i == obs.item
           s == IF i.kind = "compiler-self" THEN SelfStatus(t, d) ELSE t
           raises == s # "pass" /\ controller \in {"representative", "diagnostic", "hash"}
       IN /\ failures' = failures + IF t # obs.status THEN 1 ELSE 0
          /\ binary' = IF i.kind = "compiler-self" /\ s = "pass" THEN d ELSE binary
          /\ IF i.kind = "probe"
             THEN coverage' = (IF s = "pass" THEN coverage \cup {Key(i)} ELSE coverage) /\ UNCHANGED <<raw, row>>
             ELSE /\ raw' = Append(raw, Taken(i, s)) /\ row' = [row EXCEPT ![Key(i)] = IF @ = "pass" THEN s ELSE @]
                  /\ UNCHANGED coverage
          /\ IF raises THEN Raise ELSE UNCHANGED <<todo, disk>>
    /\ obs' = NoObs /\ proc' = [NoProcess EXCEPT !.child = proc.child]
    /\ UNCHANGED <<controller, options, rows>>

\* The records of a kind and key, by their places in raw.
Of(kind, k) == {j \in DOMAIN raw : raw[j].item.kind = kind /\ Key(raw[j].item) = k}
Retained(records) == Cardinality({j \in records : raw[j].item.phase \in {"retained", "steady"}})

\* Mutant of summarize: a failed observation counts.
SummarizeRetained(records, count) == Retained(records) = count

\* A median exists only of a complete set of passing observations.  The
\* representative summary counts nothing, publication does; the diagnostic one
\* also refuses a set without its first execution.  The array-loop and hash
\* controllers take the median of whatever was retained; the former states
\* beside it whether all outputs were right.
summarize(records, count) ==
    Retained(records) = count /\ \A j \in records : raw[j].status = "pass"

representative_summarize(records) ==
    Retained(records) > 0 /\ \A j \in records : raw[j].status = "pass"
diagnostic_summary(records) == summarize(records, Samples) /\ Cardinality(records) = 1 + Samples
Runtime(records) ==
    CASE controller = "representative" -> representative_summarize(records)
      [] controller = "diagnostic" -> diagnostic_summary(records)
      [] ~Timed -> Retained(records) > 0
      [] OTHER -> summarize(records, Samples)

Row(c, r) == [case |-> c, role |-> r, status |-> row[<<c, r>>],
              runtime |-> Runtime(Of("run", <<c, r>>)), samples |-> Retained(Of("run", <<c, r>>)),
              build |-> CASE controller \in {"daily", "weekly"} -> summarize(Of("build", <<c, r>>), BuildRounds - 1)
                          [] controller = "diagnostic" ->
                               (reuse(options) /\ r = Roles[1]) \/ summarize(Of("build", <<c, r>>), 1)
                          [] OTHER -> TRUE]

Summarize ==
    /\ obs.stage = "none" /\ todo # <<>> /\ Head(todo).kind = "summarize"
    /\ rows' = rows \cup {Row(Head(todo).case, r) : r \in ToSet(RolesOf(options, Head(todo).case))}
    /\ disk' = IF controller = "representative" THEN [status |-> "running", rows |-> rows'] ELSE disk
    /\ todo' = Tail(todo)
    /\ UNCHANGED <<controller, options, row, raw, coverage, binary, proc, obs, failures>>

AllPass == \A r \in rows : r.status = "pass"
SelfPass == controller # "daily" \/ row[<<0, "self">>] = "pass"
\* The threshold of the array-loop controller may fail on valid outputs.
Verdict == CASE controller \in {"daily", "weekly"} -> {IF AllPass /\ SelfPass THEN "measured" ELSE "measured-with-failures"}
             [] controller = "recovery" -> IF AllPass THEN {"pass", "failed"} ELSE {"failed"}
             [] OTHER -> {"pass"}

Write ==
    /\ obs.stage = "none" /\ todo = Finish
    /\ \E v \in Verdict : disk' = [status |-> v, rows |-> rows]
    /\ todo' = <<>>
    /\ UNCHANGED <<controller, options, row, raw, coverage, binary, rows, proc, obs, failures>>

\* The runner is lost with every process on it.  The representative manifest is
\* written in place, so it may be torn; a snapshot is renamed into place.
Lost ==
    /\ todo # <<>> /\ Fails
    /\ todo' = <<>> /\ obs' = NoObs /\ proc' = NoProcess
    /\ disk' \in IF disk.status = "running" THEN {disk, [disk EXCEPT !.status = "torn"]} ELSE {disk}
    /\ UNCHANGED <<controller, options, row, raw, coverage, binary, rows>>

Done == Ended /\ UNCHANGED vars

Step == Skip \/ Begin \/ Check \/ LoopEnd \/ LoopJoin \/ Classify \/ Cleanup \/ Record \/ Summarize \/ Write

Next ==
    \/ Step \/ Fork \/ Exit \/ ChildExit \/ TimerSet \/ TimerKill \/ Reap \/ LoopStop
    \/ RaiseOutside \/ Lost \/ Done

\* The interpreter runs its threads and the clock reaches every deadline.  Of
\* observed programs nothing is assumed, except that they end under the two
\* controllers that set no deadline.
Fairness ==
    /\ WF_vars(Step) /\ WF_vars(TimerSet) /\ WF_vars(TimerKill) /\ WF_vars(Reap) /\ WF_vars(LoopStop)
    /\ WF_vars(~Timed /\ Exit)

Spec == Init /\ [][Next]_vars /\ Fairness
----------------------------------------------------------------------------
\* What publication accepts, and what the cumulative qualification requires.
SelfRow == [ir |-> summarize(Of("compiler-ir", <<0, "self">>), 1),
            build |-> summarize(Of("compiler-self", <<0, "self">>), SelfBuilds - 1)]

\* state.py: every role of every case, a passing row with both medians, a
\* failed row without a runtime median.
validate(snapshot) ==
    /\ \A c \in CaseIds, r \in ToSet(Roles) : Cardinality({x \in snapshot.rows : x.case = c /\ x.role = r}) = 1
    /\ \A x \in snapshot.rows : IF x.status = "pass" THEN x.runtime /\ x.build ELSE ~x.runtime
    /\ controller = "daily" /\ SelfPass => SelfRow.ir /\ SelfRow.build /\ binary # 0

\* publication.py: listed cases have all their samples; a manifest that passed
\* lists every case.
validate_snapshot(manifest) ==
    /\ \A x \in manifest.rows : x.runtime /\ x.samples = Samples /\ {y.role : y \in {z \in manifest.rows : z.case = x.case}} = ToSet(Roles)
    /\ manifest.status = "pass" => {x.case : x \in manifest.rows} = CaseIds

Budget(self) == Cases * Len(Roles) * (BuildRounds + Warmups + Samples) + self
Group(kind, k, warm, kept) ==
    LET records == Of(kind, k)
    IN Cardinality(records) = warm + kept /\ Retained(records) = kept
assessed(self) ==
    /\ disk.status = "measured"
    /\ Len(raw) = Budget(self) /\ \A i \in DOMAIN raw : raw[i].status = "pass"
    /\ \A k \in CaseIds \X ToSet(Roles) :
         Group("build", k, 1, BuildRounds - 1) /\ Group("run", k, Warmups, Samples) /\ k \in coverage
    /\ Group("compiler-ir", <<0, "self">>, 0, 1) /\ Group("compiler-self", <<0, "self">>, 1, SelfBuilds - 1)
    /\ \A x \in disk.rows : x.status = "pass"
    /\ binary = 1
\* Mutant of assess: the single emission is left out of the budget.
assess_without_ir == assessed(SelfBuilds)
assess == assessed(1 + SelfBuilds)
----------------------------------------------------------------------------
\* When observe returns, nothing of the command it started is left: not a
\* descendant that outlived its leader, closed the pipes or was forked while
\* the timer fired.
NoSurvivor ==
    (Timed /\ obs.stage \in {"none", "returned"}) =>
      proc.child = "none" /\ proc.leader \notin {"running", "zombie"}

\* Whatever timed out, failed, raised or died, what is left on disk is what the
\* publisher accepts, with no figure from an incomplete set of observations.
PublishedIsGenuine ==
    /\ disk.status \in {"measured", "measured-with-failures"} => validate(disk)
    /\ controller = "representative" => validate_snapshot(disk)
    /\ controller = "diagnostic" /\ disk.status = "pass" => \A x \in disk.rows : x.runtime /\ x.build

\* The records of the first n items of a program, when every observation passes.
TimingsOf(s) ==
    LET upto[n \in 0..Len(s)] ==
          IF n = 0 THEN <<>>
          ELSE upto[n - 1] \o IF s[n].kind \in Runs \ {"probe"} THEN <<Taken(s[n], "pass")>> ELSE <<>>
    IN upto
Timings(s) == TimingsOf(s)[Len(s)]

\* The counts and groups by which a snapshot qualifies hold exactly when every
\* scheduled observation was made once, in order, and passed.
QualifiedExactly ==
    (controller = "daily" /\ Ended) =>
      (assess <=> /\ raw = Timings(Schedule) /\ disk.status # "absent"
                  /\ coverage = CaseIds \X ToSet(Roles) /\ binary = 1)

\* Every cohort ends, although a program may hang and leave processes that hold
\* its pipes.
CohortEnds == <>Ended
=============================================================================
