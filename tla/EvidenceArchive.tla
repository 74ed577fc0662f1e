---------------------------- MODULE EvidenceArchive ----------------------------
(***************************************************************************)
(* The tools that move evidence out of the work tree and into files others *)
(* rely on: tools/result_archive.py (pack, verify, compact),               *)
(* tools/evidence_bundle.py (pack, extract), tools/bootstrap-seed-release.py*)
(* (create, verify) and the stage receipts of tools/recovery-stage.py.     *)
(* A tool reads file by file while an editor or a build may still write,   *)
(* refuses with an exception, or is killed between any two of its steps.   *)
(***************************************************************************)
EXTENDS Integers, Sequences, SequencesExt, FiniteSets, Functions

CONSTANTS
    Tools,      \* the tools an instance covers
    Paths,      \* the evidence files, <<result, name>>
    Stages,     \* the number of recovery stages, 13 in the code
    MaxEdits,   \* writes to the work tree by others; runs of the recovery suite
    MaxCrashes  \* killed tools, damaged events and removed outputs

ASSUME EvidenceAssumption ==
    /\ Tools \subseteq {"results", "bundle", "seed", "receipts"}
    /\ IsFiniteSet(Paths) /\ \A p \in Paths : p = <<p[1], p[2]>> /\ p[2] # "ARCHIVE.json"
    /\ Stages \in Nat \ {0} /\ MaxEdits \in Nat /\ MaxCrashes \in Nat

VARIABLES
    tool,       \* which tool the instance runs
    head,       \* content of each path in the current commit
    work,       \* content of each path in the work tree or input directory
    out,        \* the output file or directory
    published,  \* archives whose digest a pack has returned
    dest,       \* the directory of an extraction
    removed,    \* history variable: what compact removed from the work tree
    job,        \* the running command
    events,     \* the receipts file: run and index of each event
    summary,    \* what finalize wrote last, with the runs its events came from
    edits, crashes

vars == <<tool, head, work, out, published, dest, removed, job, events, summary, edits, crashes>>
store == <<head, published, removed>>
receipts == <<events, summary>>
----------------------------------------------------------------------------
\* A content is a version and the storage notices above it.
Missing == [version |-> 0, notices |-> 0]
Original == [Missing EXCEPT !.version = 1]
Results == {p[1] : p \in Paths}
Record(r) == <<r, "ARCHIVE.json">>
Readme(r) == <<r, "README.md">>
Tracked == Paths \cup {Record(r) : r \in Results}
Present(files) == {p \in DOMAIN files : files[p] # Missing}
\* The code sorts what it works through; here it is one order for each set.
InOrder(S) == SetToSeq(S)
With(files, p, content) == [q \in DOMAIN files \cup {p} |-> IF q = p THEN content ELSE files[q]]

NoFiles == [p \in {} |-> Missing]
\* "tree" is a history field: what the output is a copy of.
Absent == [state |-> "absent", tree |-> NoFiles, listed |-> NoFiles, members |-> NoFiles, sums |-> NoFiles]
Idle == [cmd |-> "none", stage |-> "", left |-> <<>>, read |-> NoFiles, archive |-> Absent, run |-> 0]

Init ==
    /\ tool \in Tools
    /\ head = [p \in Tracked |-> IF p \in Paths THEN Original ELSE Missing]
    /\ work = head /\ out = Absent /\ dest = [state |-> "absent", files |-> NoFiles]
    /\ published = {} /\ removed = {} /\ job = Idle
    /\ events = <<>> /\ summary = [run |-> 0, complete |-> FALSE, runs |-> {}]
    /\ edits = 0 /\ crashes = 0

In(cmd, stage) == job.cmd = cmd /\ job.stage = stage
At == Head(job.left)
Done == job' = Idle
Advance == job' = [job EXCEPT !.left = Tail(@)]
Fault == crashes < MaxCrashes /\ crashes' = crashes + 1
----------------------------------------------------------------------------
\* The work tree is written by others at any time; the operator commits it or
\* checks the commit out again while no command runs.
Edit ==
    /\ edits < MaxEdits /\ edits' = edits + 1
    /\ \E p \in Present(work) \cap Paths, v \in {0, 2} :
         work' = [work EXCEPT ![p] = IF v = 0 THEN Missing ELSE [@ EXCEPT !.version = v]]
    /\ UNCHANGED <<tool, store, receipts, out, dest, job, crashes>>
Commit ==
    /\ job = Idle /\ head # work /\ head' = work
    /\ UNCHANGED <<tool, work, out, published, dest, removed, job, receipts, edits, crashes>>
Checkout ==
    /\ job = Idle
    /\ work' = [p \in Tracked |-> IF head[p] = Missing THEN work[p] ELSE head[p]] /\ work' # work
    /\ UNCHANGED <<tool, store, receipts, out, dest, job, edits, crashes>>
\* An output that blocks the next attempt is removed by hand.
Discard ==
    /\ job = Idle /\ Fault /\ out # Absent /\ out' = Absent
    /\ dest' = [state |-> "absent", files |-> NoFiles]
    /\ UNCHANGED <<tool, store, receipts, work, job, edits>>
Crash ==
    /\ job # Idle /\ Fault /\ Done
    /\ UNCHANGED <<tool, store, receipts, work, out, dest, edits>>
----------------------------------------------------------------------------
\* result_archive.pack.  The file must be what the recorded revision holds;
\* read is the tree of that revision.
committed_bytes(p, tree) == work[p] = tree[p] /\ work[p] # Missing

pack_start ==
    /\ tool = "results" /\ job = Idle
    /\ \E names \in SUBSET Results \ {{}} :
       LET entries == {p \in Present(head) : p[1] \in names}
       IN /\ {p[1] : p \in entries} = names
          /\ job' = [Idle EXCEPT !.cmd = "pack", !.stage = "list", !.left = InOrder(entries), !.read = Restrict(head, entries)]
    /\ UNCHANGED <<tool, store, receipts, work, out, dest, edits, crashes>>
\* The records, then the exclusive creation of the output, which refuses one
\* that is already there.
pack_list ==
    /\ In("pack", "list")
    /\ IF job.left # <<>>
       THEN /\ IF committed_bytes(At, job.read) THEN Advance ELSE Done
            /\ UNCHANGED out
       ELSE IF out.state = "absent"
       THEN /\ out' = [Absent EXCEPT !.state = "open", !.tree = job.read, !.listed = job.read]
            /\ job' = [job EXCEPT !.stage = "add", !.left = InOrder(DOMAIN job.read)]
       ELSE Done /\ UNCHANGED out
    /\ UNCHANGED <<tool, store, receipts, work, dest, edits, crashes>>
\* Each file is read again; one that changed since ends the command and leaves
\* the incomplete output behind.
Added(content) == out' = [out EXCEPT !.members = With(@, At, content)]
pack_add ==
    /\ In("pack", "add") /\ job.left # <<>>
    /\ IF committed_bytes(At, job.read) THEN Advance /\ Added(work[At]) ELSE Done /\ UNCHANGED out
    /\ UNCHANGED <<tool, store, receipts, work, dest, edits, crashes>>
pack_return ==
    /\ In("pack", "add") /\ job.left = <<>>
    /\ out' = [out EXCEPT !.state = "closed"] /\ published' = published \cup {out'} /\ Done
    /\ UNCHANGED <<tool, head, removed, receipts, work, dest, edits, crashes>>

\* verify: every listed member once, with its listed digest, and no other.
verify(archive) == archive.state # "absent" /\ archive.members = archive.listed

keep(p) == p[2] # "raw"

\* compact.  The archive is complete and holds exactly the files of the commit.
compact_start ==
    /\ tool = "results" /\ job = Idle
    /\ \E archive \in published :
       LET selected == {p \in Present(head) : p[1] \in {q[1] : q \in DOMAIN archive.listed}}
       IN /\ verify(archive) /\ selected = DOMAIN archive.listed
          /\ job' = [Idle EXCEPT !.cmd = "compact", !.stage = "compare", !.left = InOrder(selected),
                                 !.read = head, !.archive = archive]
    /\ UNCHANGED <<tool, store, receipts, work, out, dest, edits, crashes>>

\* Each file is what the commit holds and what the archive holds; then no
\* result has a record yet and each has a report.
compact_names == {p[1] : p \in DOMAIN job.archive.listed}
\* Mutant of compact_compare: only the commit is compared, not the archive.
compact_compare_head ==
    /\ In("compact", "compare")
    /\ IF job.left # <<>>
       THEN IF committed_bytes(At, job.read) THEN Advance ELSE Done
       ELSE job' = [job EXCEPT !.stage = "remove"]
    /\ UNCHANGED <<tool, store, receipts, work, out, dest, edits, crashes>>
compact_compare ==
    /\ In("compact", "compare")
    /\ IF job.left # <<>>
       THEN IF committed_bytes(At, job.read) /\ work[At] = job.archive.listed[At] THEN Advance ELSE Done
       ELSE IF \A r \in compact_names : work[Record(r)] = Missing /\ Readme(r) \in DOMAIN job.archive.listed
       THEN job' = [job EXCEPT !.stage = "remove"]
       ELSE Done
    /\ UNCHANGED <<tool, store, receipts, work, out, dest, edits, crashes>>
\* git rm is all or nothing, refuses a file edited since the comparison, and
\* accepts one that is already gone from the work tree.
compact_remove ==
    /\ In("compact", "remove")
    /\ LET paths == {p \in DOMAIN job.archive.listed : ~keep(p)}
       IN IF \A p \in paths : work[p] \in {head[p], Missing}
          THEN /\ removed' = removed \cup {<<p, head[p]>> : p \in paths}
               /\ work' = [p \in Tracked |-> IF p \in paths THEN Missing ELSE work[p]]
               /\ job' = [job EXCEPT !.stage = "record", !.left = InOrder(compact_names)]
          ELSE Done /\ UNCHANGED <<removed, work>>
    /\ UNCHANGED <<tool, head, published, receipts, out, dest, edits, crashes>>
\* Per result the record, then the notice above whatever the report now says.
compact_record ==
    /\ In("compact", "record")
    /\ IF job.left = <<>> THEN Done /\ UNCHANGED work
       ELSE /\ work' = [work EXCEPT ![Record(At)] = Original]
            /\ job' = [job EXCEPT !.stage = "notice"]
    /\ UNCHANGED <<tool, store, receipts, out, dest, edits, crashes>>
compact_notice ==
    /\ In("compact", "notice")
    /\ IF work[Readme(At)] = Missing THEN Done /\ UNCHANGED work
       ELSE /\ work' = [work EXCEPT ![Readme(At)].notices = @ + 1]
            /\ job' = [job EXCEPT !.stage = "record", !.left = Tail(@)]
    /\ UNCHANGED <<tool, store, receipts, out, dest, edits, crashes>>
----------------------------------------------------------------------------
\* evidence_bundle.pack.  Selected paths that do not exist are listed as
\* missing; the header states how many records follow.
bundle_start ==
    /\ tool = "bundle" /\ job = Idle /\ out.state = "absent"
    /\ LET present == Present(work) IN
       /\ present # {}
       /\ job' = [Idle EXCEPT !.cmd = "bundle", !.stage = "add", !.left = InOrder(present)]
       /\ out' = [Absent EXCEPT !.state = "open", !.tree = Restrict(work, present), !.listed = Restrict(work, present)]
    /\ UNCHANGED <<tool, store, receipts, work, dest, edits, crashes>>
\* A record carries the bytes and their digest.  A file that has gone raises:
\* the stream is closed properly, and the output then removed.
bundle_add ==
    /\ In("bundle", "add")
    /\ IF job.left # <<>> /\ work[At] # Missing THEN Advance /\ Added(work[At])
       ELSE /\ job' = IF job.left = <<>> THEN Idle ELSE [job EXCEPT !.stage = "unlink"]
            /\ out' = [out EXCEPT !.state = "closed"]
    /\ UNCHANGED <<tool, store, receipts, work, dest, edits, crashes>>
bundle_unlink ==
    /\ In("bundle", "unlink") /\ Done /\ out' = Absent
    /\ UNCHANGED <<tool, store, receipts, work, dest, edits, crashes>>

\* Mutant of records: the count of records is not compared.
records_present(bundle) == bundle.state = "closed"

\* A stream that was not closed has no trailer; the count is the header's.
records(bundle) == bundle.state = "closed" /\ Cardinality(DOMAIN bundle.members) = Cardinality(DOMAIN bundle.listed)
verify_bundle(bundle) == records(bundle)

\* extract verifies the whole bundle, creates the directory and then the files.
extract_start ==
    /\ tool = "bundle" /\ job = Idle /\ verify_bundle(out) /\ dest.state = "absent"
    /\ dest' = [state |-> "partial", files |-> NoFiles]
    /\ job' = [Idle EXCEPT !.cmd = "extract", !.left = InOrder(DOMAIN out.members)]
    /\ UNCHANGED <<tool, store, receipts, work, out, edits, crashes>>
extract_file ==
    /\ job.cmd = "extract"
    /\ IF job.left # <<>> THEN Advance /\ dest' = [dest EXCEPT !.files = With(@, At, out.members[At])]
                          ELSE Done /\ dest' = [dest EXCEPT !.state = "complete"]
    /\ UNCHANGED <<tool, store, receipts, work, out, edits, crashes>>
----------------------------------------------------------------------------
\* bootstrap-seed-release.create.  Each target states the compiler it built;
\* inputs that differ are refused, and a package is never overwritten.
Stated == [p \in Paths |-> Original]
create_start ==
    /\ tool = "seed" /\ job = Idle /\ Restrict(work, Paths) = Stated /\ out.state = "absent"
    /\ job' = [Idle EXCEPT !.cmd = "create", !.stage = "copy", !.left = InOrder(Paths)]
    /\ out' = [Absent EXCEPT !.state = "open", !.tree = Stated]
    /\ UNCHANGED <<tool, store, receipts, work, dest, edits, crashes>>
\* The inputs are copied as they are now; the manifest is the validated one and
\* the checksums are taken of the copies.
create_copy ==
    /\ In("create", "copy")
    /\ IF job.left # <<>>
       THEN IF work[At] # Missing THEN Advance /\ Added(work[At]) ELSE Done /\ UNCHANGED out
       ELSE job' = [job EXCEPT !.stage = "sums"] /\ out' = [out EXCEPT !.listed = Stated]
    /\ UNCHANGED <<tool, store, receipts, work, dest, edits, crashes>>
create_sums ==
    /\ In("create", "sums") /\ Done
    /\ out' = [out EXCEPT !.sums = out.members, !.state = "closed"]
    /\ UNCHANGED <<tool, store, receipts, work, dest, edits, crashes>>
\* The requested compiler, the checksums and the release agree with the
\* manifest; the release lists what the package held when it was uploaded.
verify_seed(seed, asset) ==
    /\ DOMAIN seed.listed = Paths /\ asset \in DOMAIN seed.members
    /\ seed.members[asset] = seed.listed[asset] /\ seed.sums = seed.listed
----------------------------------------------------------------------------
\* recovery-stage: one suite appends the start and the end of each stage.  A
\* line torn by a kill, index 0, makes the file unreadable.
Events == 2 * Stages
read_events == \A i \in DOMAIN events : events[i].index = i
suite_start ==
    /\ tool = "receipts" /\ job = Idle /\ edits < MaxEdits /\ edits' = edits + 1
    /\ job' = [Idle EXCEPT !.cmd = "suite", !.run = edits + 1, !.left = [i \in 1..Events |-> i]]
    /\ events' \in {events, <<>>}
    /\ UNCHANGED <<tool, store, work, out, dest, summary, crashes>>
\* A refused event fails the suite, which goes straight to finalize.
record ==
    /\ job.cmd = "suite" /\ job.stage # "failed" /\ job.left # <<>>
    /\ IF read_events /\ Len(events) + 1 = At
       THEN Advance /\ events' = Append(events, [run |-> job.run, index |-> At])
       ELSE job' = [job EXCEPT !.stage = "failed"] /\ UNCHANGED events
    /\ UNCHANGED <<tool, store, work, out, dest, summary, edits, crashes>>
suite_fails ==
    /\ job.cmd = "suite" /\ job.stage # "failed" /\ job.left # <<>> /\ Fault
    /\ job' = [job EXCEPT !.stage = "failed"]
    /\ \/ UNCHANGED events
       \/ read_events /\ Len(events) + 1 = At /\ events' = Append(events, [run |-> job.run, index |-> 0])
    /\ UNCHANGED <<tool, store, work, out, dest, summary, edits>>
finalize ==
    /\ job.cmd = "suite" /\ (job.stage = "failed" \/ job.left = <<>>) /\ Done
    /\ summary' = [run |-> job.run, complete |-> read_events /\ job.stage # "failed" /\ Len(events) = Events,
                   runs |-> {events[i].run : i \in DOMAIN events}]
    /\ UNCHANGED <<tool, store, work, out, dest, events, edits, crashes>>
----------------------------------------------------------------------------
Next ==
    \/ (tool # "receipts" /\ Edit) \/ (tool = "results" /\ (Commit \/ Checkout)) \/ Discard \/ Crash
    \/ pack_start \/ pack_list \/ pack_add \/ pack_return
    \/ compact_start \/ compact_compare \/ compact_remove \/ compact_record \/ compact_notice
    \/ bundle_start \/ bundle_add \/ bundle_unlink \/ extract_start \/ extract_file
    \/ create_start \/ create_copy \/ create_sums
    \/ suite_start \/ record \/ suite_fails \/ finalize

Spec == Init /\ [][Next]_vars
----------------------------------------------------------------------------
\* Every file compact removed is in a published archive with the content the
\* commit had, whatever was edited, committed, checked out or killed on the way,
\* and no report carries the notice twice.
RemovedIsArchived ==
    /\ \A x \in removed : \E a \in published : x[1] \in DOMAIN a.members /\ a.members[x[1]] = x[2]
    /\ \A p \in Tracked : work[p].notices <= 1

\* What a verifier accepts is whole and is what was to be stored: an archive
\* equals its revision although files changed under the reader, a bundle has
\* every file its pack found, a release has the compilers its targets stated,
\* an extraction that returned equals its bundle, and a complete recovery
\* summary rests on events of that run alone.
AcceptedIsExact ==
    /\ tool = "results" /\ verify(out) /\ out.listed # NoFiles => out.members = out.tree
    /\ tool = "bundle" /\ verify_bundle(out) => DOMAIN out.members = DOMAIN out.tree
    /\ tool = "seed" /\ (\E a \in Paths : verify_seed(out, a)) => out.members = out.tree
    /\ dest.state = "complete" => dest.files = out.members
    /\ summary.complete => summary.runs = {summary.run}
=============================================================================
