# Formal models of TypeRB Native

TypeRB Native is a compiler, written in TypeRB, that translates checked TypeRB
programs to QBE intermediate code and links them with a runtime that it emits
itself.  What is hard to get right, and hard to test, is that runtime: a tracing
collector that depends on every emitted call having published its live values, a
page allocator below it, an event-driven HTTP server whose callbacks interleave
with managed handlers, and failures that leave native frames by `longjmp` while
files are open.  Around the compiler stand tools that the project's claims rest
on: the controllers that measure performance and the state they publish, the
archives that hold evidence, the builders of external dependencies, the
acceptance drivers and the suite runner, all of them programs that start other
programs and may be interrupted between any two steps.  These TLA+ modules model
the runtime and the tools from their source, TLC checks them on small instances,
and TLAPS proves all their safety properties for every instance.

Paths are relative to the repository; `runtime/` and `emit/` stand for
`compiler/src/backend/qbe/runtime/` and `compiler/src/backend/qbe/emit/`.  Most
runtime functions are emitted as one string per source line, so a mapped "line"
in `PROJECT.json` is often a whole function.

## Inventory

| component | state | operations | hard behaviour |
| --- | --- | --- | --- |
| Managed heap (`runtime/system.trb`, `emit/roots.trb`, `emit/functions.trb`, `mir/analysis/roots.trb`) | linked objects, byte account, collection target, root buffer and count, globals, per function a watermark and the published prefix | allocation, array push, unshift, remove, load, store, global access, call, return, collection, final collection | a value that lives only in a native register across somebody else's collection; reuse of already published slots; pacing |
| Managed storage (`runtime/managed_storage.trb`) | pages with free chains and live counts, one list of available pages per size class, direct chunks; a cache of released array buffers | alloc, free, page release; buffer new, release, flush | list membership under any order of allocation and free; arithmetic at the end of a page; a buffer that is handed out again |
| Network transport (`runtime/network_transport.trb`, `runtime/network_parser.trb`, `compiler/packages/internal/web_server.trb`) | list of connections with parser state, saved input, pending packet; shutdown flag and timer | accept, read, parse, next request, write, write done, close, signal, deadline | callbacks and the handler in any order; pipelined input; write failures; shutdown |
| Failure recovery and scoped files (`runtime/failure_recovery.trb`, `runtime/resource_cleanup.trb`, `runtime/filesystem_values.trb`, `runtime/test_recovery.trb`) | chain of recovery scopes, chain of resource frames, both in native stack frames; saved root counts | recover, test capture, file scope, fail, unwind, complete | `longjmp` over frames that own descriptors and roots; close exactly once |
| Hash tables (`runtime/hash_runtime.trb`, `runtime/hash_key_runtime.trb`, `emit/hashes.trb`, `mir/analysis/hash_*.trb`) | key and value words, count, tombstones; slots kept by emitted code | put, delete, update, copy, rehash, probe, reuse of a slot | long sequences with rebuilding; a slot number that outlives a rebuild |
| Strings, numbers, time, crypto, compression, OIDC runtime | none or process constants | pure conversions, calls to external libraries | numeric edges |
| Frontend, MIR, emission (`compiler/src/frontend`, `compiler/src/mir`, `emit/`) | tables of one compilation | sequential phases | size, not concurrency |
| Packages and configuration (`compiler/src/project`) | lock file, package cache | resolve, fetch, verify | interrupted installs |
| Recovery compiler (`recovery/src`) | none | rebuild from a snapshot | byte identity |
| CI suite runner (`tools/ci-run-suites.mjs`) | two process groups, cancellation, grace timer | spawn, close, signal, kill | signals between any two callbacks |
| Acceptance drivers (`tools/native-*-test.py`) | processes, sessions, binaries, scopes of one driver | build, execute, start, wait, time out, clean up | a hanging child, an exception while sessions run, a stale binary |
| Performance state (`tools/daily-performance/state.py`, `representative-performance/publication.py`, workflows) | retained state artifact, history, public page | restore, plan, measure, finish, upload, site | runs that die between steps |
| Performance measurement (`tools/*-performance/measure.py`, `runtime-diagnostic`, `cumulative-performance/qualify.py`) | process group, timer, observations, rows, manifest | observe, record, summarize, write, validate, qualify | threads racing a timeout; incomplete cohorts |
| Archives, seeds, receipts (`tools/result_archive.py`, `evidence_bundle.py`, `bootstrap-seed-release.py`, `recovery-stage.py`) | tree, commit, archive files | pack, verify, compact, create, extract, record, finalize | errors and edits between two writes |
| Dependency builds (`tools/qbe_toolchain.py`, `build-*-dependencies.py`, `network_artifacts.py`, `official-sources.py`) | source cache, installation, receipt | download, build, publish, verify, install, sync | two builders at once, kills, changed pins |

Interactions: emitted code calls the heap (allocation) and the heap calls the
storage allocator; `recover`, file scopes and every function return set the same
root count; the network transport hands one request at a time to managed code
and takes its response back; test cases are captured by the same trampolines as
`recover`.  The program is single-threaded: what interleaves is compiled code,
collections, libuv callbacks, host events and failures.

Correctness, component by component: no dangling reference and an exact byte
account (heap); no cell or buffer given out twice and no page lost (storage); one response
for every request, in order, and a shutdown that ends (network); every file
closed exactly once and all roots of surviving frames intact (recovery); finds
what was last written, in no promised order (hashes); no process left behind (suite
runner, drivers, measurement); no published snapshot lost, no stale skip
(performance state); no figure from an incomplete cohort (measurement); nothing
removed that is not archived (archives); an accepted installation is one build
(dependencies).

## Modules

**`ManagedHeap`** models a compiled program as frames of registers that execute
the instructions which touch the heap.  `heap`/`cell` are the linked objects,
`bytes`/`target` the collector's account, `temp`/`capacity` the root buffer,
`env`, `base`, `prev`, `dest` the registers, watermark, published set and result
register of each frame.  One action per instruction: each of them first stores
the live registers the way `emit_mir_roots` does (only behind the common prefix
with what the block has already stored), then runs the whole runtime function:
`trbn_gc_maybe_collect` with its estimate, mark, sweep, target update,
allocation, root push.  Liveness analysis enters as its promise: a register may
die (`Die`) whenever the program no longer reads it, and the live-before set is
what is published.  `Nil` stands for nil and for static strings.

**`BlockAllocator`** is what an allocator promises: a set of owned blocks that
never overlap.  **`ManagedStorage`** is `trbn_storage_alloc` and
`trbn_storage_free`: size classes, pages carved lazily by a cursor, a free chain
per page, a doubly linked list of pages with room per class, immediate release
of an empty page, direct chunks for large requests.  Its `owned` blocks are
mapped to the abstract module, and `ImplementsAllocator` states the refinement.
A page becomes full only while it is the head of its list, so the reset of its
back link on re-insertion is never observable.

**`ArrayBacking`** is the cache of small array buffers with everything that obtains,
resizes or releases one: constructors, copies, literal splits, growth by
`realloc` (in place or moved, with undefined words behind the old size), removal,
sweep and the final flush.  The collection an operation may begin with is part of
its action; which arrays it finds dead is the program's choice.  A buffer is the
sequence of its words, and a cached one is chained through its first word.

**`KeyedMaps`** is what a Hash is to a program, a finite map.  **`HashTable`** is the
open-addressing table of `hash_runtime.trb`: linear probing, tombstones,
rebuilding by copy (`Put`, `Merged`, `Copied` and `Rehashed` call each other as the
runtime functions do), and the slot numbers that the lookup and membership plans
let emitted code keep (`held`).  A plan exists at compile time; along the straight
path it covers it is the same as a slot that every instruction outside
`mir_hash_lookup_preserves` drops, which is how the module has it.  Keys are
encoded as `trbn_hash_key` does, so that zero and -1 stay free.  The concatenating
probe differs only in when the key string is built.

**`NetworkTransport`** has one record per connection and a control variable for
the managed thread (scan, poll, handler, stopped).  Callbacks (`Accept`, `Read`,
`ReadError`, `WriteDone`, `CloseDone`, `Signal`, `Deadline`) are enabled only
inside `uv_run`.  A request is a sequence of tokens (headers with or without a
body, end), which is what the parser tells apart; a read delivers any sequence
of tokens up to `ReadSize`, so requests split and pipeline in every way.  `Sent`
says, for each connection, what its client may send.

**`FailureRecovery`** is a stack of native frames (compiled code, recovery
trampoline, file scope) with the two chains threaded through it, the root slots
with their owners, and a host table of descriptors that reuses numbers.  A
failure is taken apart into the notice, each turn of the unwinding loop, the
`longjmp` and the completion of the trampoline, which is the same code that an
ordinary return reaches.  A failing `close()` releases the descriptor, as Linux
and Darwin do.

**`PerformanceState`** is one series of performance snapshots (daily, weekly or
representative): `artifacts` are the states uploaded by runs, `job` the one job
its concurrency group admits, `page` the published state, `tree` the commits with
what the fingerprint and the series key read of them.  A job goes through
restore, plan, measure, evidence, finish, upload and end; a fault may strike each
step, a lost runner ends the job at once, artifacts expire, commits and Pages
builds happen at any time.  Daily and weekly jobs check out main, a representative
one the commit of its dispatch.  A completed run may be started again (`Rerun`): it
waits for the group as `pending`, keeps its identity, and as long as it waits or
runs, `restore` passes over all that it uploaded, since its status is not
`completed`.  `passed` is a history variable in two places: with a job, the runs it
did not read; with an artifact, that some later upload came from such a job.  `clock`
counts the measurements, so that the order of snapshots can be told.

**`Measurement`** is one cohort of one of six controllers.  `Schedule` lists what
the controller's loops will do, from the same counts and rotations; `proc` is the
process group it observes, an adversary that forks, exits and holds pipes at
will; `obs` is the state of `observe` with its timer thread or selector loop.
`validate`, `validate_snapshot` and `assess` are the acceptance tests of the
publishers and of the qualification.  The observed numbers are left out: an
observation passes or has a status.  Commands that a controller runs outside
`observe` (in a diagnostic, `emit-qbe` and the following `qbe` without a timeout) are
checks that succeed or raise; they are taken to end.

**`EvidenceArchive`** has one instance per tool.  `head` and `work` are a commit
and a tree with a version for each path, `out` the file or directory a tool
writes, `job` the running command, file by file, in one fixed order for each set
of files (the code sorts them).

**`DependencyCache`** has one instance per family of builders.  A build is known
by the pins it was made from and by its builder, so a mixed installation can be
told apart; `run` holds the steps each concurrent builder still has to take.

**`DriverScripts`** writes 27 acceptance drivers down as sequences of steps: which
waits have a timeout, what is built, rewritten and executed, what each `try`
protects.  A loop over cases is two passes of its body.  **`TestDrivers`** gives
the steps their meaning, with the processes as adversaries and exceptions
unwinding the scopes; it takes the scripts as a constant and states the discipline
that the proofs assume of them and TLC checks of each.  **`SuiteRunner`** is the event loop of
`ci-run-suites.mjs`, one action per callback.  `MCBuildAndTest` combines these
with the dependency builders: a job is a driver, the suite runner or the builders of
one dependency, and the others stay as they ended (they share no process and no
state).

`MC*` modules add constants, symmetry sets and, for the jobs and for the three
stores of `MCRuntimeStorage`, the combination.

## Runs

| run | bounds | shows |
| --- | --- | --- |
| `heap_calls` | 3 objects, 2 registers, 2 frames; fixed objects and scalar arrays | callers' values stay rooted below the callee's watermark, the root buffer never overflows, a collection takes only garbage |
| `heap_arrays` | 2 objects, 1 frame, 1 global; fixed objects, managed arrays, strings | no dangling reference; array growth is rooted, charged and paced; the final collection releases all |
| `storage` | each behaviour about one store: 3 chunks, requests 20, 24, 64, 300, pages of 160 bytes; 3 arrays, 3 buffers, small capacity 2, cache of 2, lengths up to 3; 2 tables, 3 colliding keys, 2 values, capacities from 3 | `PagesExact`: lists are exact, no empty page is kept, cells stay in their page; the allocator implements `BlockAllocator`; `BackingExact`: every buffer has one owner or is cached, chain and count agree, nothing shows through from an earlier owner, the flush returns all; `SlotsExact`: every key is found, counts are exact, a quarter is vacant, a reused slot is its key's; `ImplementsMaps`: tables are finite maps |
| `storage_sizes` | 2 chunks, the real page size | finding: see below |
| `network_safety` | 3 records, limit 2, 2 saved tokens, reads of up to 2 | `ConnectionsExact`: the list, the limit and one handler; ordered input, one response each, nothing idle after shutdown, closing is final |
| `network_liveness` | 2 records, 2 saved tokens, reads of up to 2; one client sends anything, the other pipelines requests without a body; both may stop reading | `DueRequestServed`: a request that does not wait for its client is answered or closed, and one saved behind it is begun; `ShutdownCompletes`: a signal stops the server |
| `failure_recovery` | 9 frames, 3 files, 2 descriptors, 1 live register | `FramesExact`: chains and root slots name only living frames; `FilesClosed`: each file is closed once and nothing stays open at the end; outer frames are untouched, only the catching test case is told |
| `performance_state` | the three series; history of 2, 2 artifacts, 2 commits; daily: 1 re-run, 1 fault; weekly: 1 forced run, 1 fault, 1 change of the page; representative: 2 dispatches, 1 re-run, 2 faults, 2 changes of the page | `HistoryKept`: each retained history extends the earlier ones, in order, although the oldest snapshots are dropped, a run passes over its own earlier artifact and old commits are measured; `SkippedIsMeasured`: a skip is justified by the very inputs; `ChangesMeasured`: every change is measured in the end |
| `performance_failed_rerun` | daily; 3 artifacts, 2 commits, 1 re-run, 1 fault, 2 changes of the page | finding: see below |
| `measurement` | 6 controllers, 2 roles, 1 or 2 cases, 2 builds, 1 warmup, 2 samples, 2 failures | `NoSurvivor`, `PublishedIsGenuine`, `QualifiedExactly`, `CohortEnds`: no process outlives its observation, no figure from an incomplete set, the qualification's counts say exactly that all was observed, every cohort ends |
| `evidence_archive` | 2 results, 3 files, 2 stages, 2 edits, 2 crashes | `RemovedIsArchived`, `AcceptedIsExact`: what compact removed is in an archive, what a verifier accepts is an exact copy |
| `build_and_test` | 27 drivers under 4 sets of options; 2 suites; 7 families of dependencies, 2 builders, 2 versions of the pins, 3 attempts, 2 faults, 2 switches | `CleanExit`, `FreshBinary`, `DriverEnds`, `NoSuiteLeft`, `CancelledRunEnds`: no process is left behind, no stale binary is tested, waits with a bound end; `OneBuild`, `Recovers`: an accepted installation is one whole build of the current pins; builders that publish atomically recover from anything |

Why the bounds are enough to be interesting: two frames give a caller suspended
over a collecting callee, and with two registers the common prefix can be empty,
partial or total; three objects allow a survivor, a victim and a new object in
one step, and `MinTarget` is chosen so that the third allocation collects.  A
page of 160 bytes holds three cells of one class and one of the other, so pages
fill, empty and are re-inserted; requests 20 and 24 share a class, which tells a
cell handed out twice apart; three chunks allow two pages of a class next to a
direct chunk.  Two served connections with a
third record expose a closed record that is not yet freed at the connection
limit; tokens up to the saved-input limit exercise it from both sides.  Nine
frames hold four nested scopes (for example a file in a recover in a file in a
test case); three files on two descriptors force the host to reuse a number.
With three buffers `realloc` moves whenever one is free, allocation fails when none
is, and a cache of two overflows when three arrays die at once.  With a first capacity of
three and a shrinking share of one third, three keys grow a table, compact it when
tombstones crowd it and shrink it again; their hash codes collide and wrap.
Network constants 1024, 65536 and 16384 and the heap's 64, 1048576 and 65536 are
parameters; no action depends on their size except through comparisons.

For the tools: a history of two snapshots can be lost from, reordered and evicted
from (three measurements happen, with 2 commits and a forced run, a re-run or two
dispatches), and two artifacts make retention drop one while the next is restored;
one re-run can be of the newest or of an older run, before or after a failure.
Seven run numbers (nine with three artifacts) are more than can be remembered at once, so numbers are reused only when
nothing names them.  Two retained samples and a warmup distinguish missing,
failed and complete sets, and two failures allow a second one during the handling
of the first.  One result with a detailed file and one with a report alone are
the two cases `compact` tells apart.  Two builders and two versions of the pins
are the least that can mix; three attempts are the code's own number.  A loop
over cases runs twice because what a second pass can meet is what the first left
(a binary, a session, a failed row).

Fairness.  `network_liveness`: weak fairness of the managed thread, because
handlers return and `uv_run` returns to the scan; strong fairness of the completion
of closes and of writes on handles that are closing, and of the deadline timer,
because libuv delivers the callback of a closed handle (whose pending writes it
cancels) and of a due timer in some round even though rounds in which it does
something else come between.  The write of an open connection is promised nothing:
the code sets no write timeout, so a client that never reads holds it until the
shutdown deadline.  `DueRequestServed` therefore excuses exactly that, a connection
whose response is left unread for ever; nothing is assumed of clients or of signals.
`performance_state`: cron starts a daily or weekly job again and again and the host
carries out or ends its steps.  `measurement`: the interpreter runs its
threads and clocks reach their deadlines; nothing is assumed of the measured
programs except, under the two controllers that set no deadline, that they exit.
`build_and_test`: the driver's own steps, timeouts included, and the event loop's
callbacks happen; no child process is ever promised to end.  A dependency is needed
again, so its builder is run again; faults are bounded, which states "once failures
stop".

`CHECK_DEADLOCK` is off where the system may stop: archive tools, builders and jobs
simply end once their bounded edits, kills and processes are used up, and a
representative series is at rest when nobody dispatches a run.  Elsewhere an ended
program stutters explicitly.

### Findings

`docs/runtime-memory-stability.md:50-55` says that requests from 16 through 64
bytes use size classes within 4 KiB pages and that larger objects retain direct
system allocation.  The code (and its own comment) pools requests up to 256
bytes in 16 KiB pages.  `storage_sizes` states the documented rule,
`LargerObjectsAreDirect`, and TLC refutes it with a 72-byte request.

`docs/daily-performance.md:173-175` says that an infrastructure failure keeps the
last complete snapshot and publishes the failed attempt when state is available.
A run that is started again is in progress under its old identity, and `restore`
passes over the artifacts of runs that are not completed (`state.py:172`).  When the
run that measured last is started again and its measurement fails, the state it
uploads goes back to the snapshot before, and Pages publishes that.
`performance_failed_rerun` states the documented rule for a page built from the
state of such a failed run (`FailureKeepsSnapshot`), and TLC refutes it; without
re-runs the same property holds.

## Proofs

Every theorem holds for all values of the constants that satisfy the named
assumptions of its module: any number of objects, connections, frames, chunks,
builders, suites, runs or commits.  Each component has its inductive invariant,
which TLC checked as an invariant of the component's run before it was proved;
preservation has one lemma per action, and properties follow from the invariant.

| module | theorems | inductive invariant |
| --- | --- | --- |
| `ManagedHeapProofs` | `TypeCorrect`, `NeverDangles`, `CallersStayRooted`, `RootsFit`, `BytesAccounted`, `FinishReleases`, `OnlyGarbage`, `Paced` | `IInv` |
| `RuntimeStorageProofs` (of `ManagedStorage`, `ArrayBacking` and `HashTable`) | `PagesAreExact`, `AllocatorImplemented`; `BuffersAreExact`; `SlotsAreExact`, `MapsImplemented` | `StorageInv`, `BuffersInv`, `TablesInv` |
| `NetworkTransportProofs` | `ConnectionsAreExact`, `InputIsInOrder`, `OneResponseForEach`, `NoneIdleAfterShutdown`, `ClosingConnectionsStayClosed` | `NetworkInv` |
| `FailureRecoveryProofs` | `FramesAreExact`, `FilesAreClosed`, `NearestIsTold`, `OuterFramesUntouched` | `RecoveryInv` |
| `BuildAndTestProofs` (of `DependencyCache`, `SuiteRunner` and `TestDrivers`) | `InstallationIsOneBuild`; `NoSuiteIsLeft`; `DriversExitClean`, `DriversRunFresh` | `DependencyInv`, `SuitesInv`, `DriversInv` |
| `MeasurementProofs` | `NoneSurvives`; `OnlyGenuineIsPublished`, `QualificationIsExact` | `ObserveInv`, `CohortKept` |
| `PerformanceStateProofs` | `HistoryIsKept`, `SkippedWasMeasured` | `StateInv` |
| `EvidenceArchiveProofs` | `RemovedStaysArchived`, `AcceptedStaysExact` | `EvidenceInv` |

Why the invariants are stronger than the properties:

* **Heap.**  That nothing dangles depends on a collection keeping every live
  register, which depends on where registers were stored several calls ago.  `IInv`
  adds `FramesNested` (a frame's published slots lie below the watermark of the next
  and inside the buffer), `SlotsPublished` (a register counted as published is in the
  slot of its rank, which makes the common-prefix rewriting sound), `Suspended` (a
  caller has published all that is live, and the awaited register is not among it),
  `Content` (free cells are empty, linked ones have the shape of their kind) and
  `Room` (the reservation at entry covers a full set of registers), with the exact
  byte account.  The lemmas go from the root list that `emit_mir_roots` leaves, over
  what a collection with such roots keeps, to one lemma per instruction.
* **Storage.**  `PagesExact` speaks of the sets of cells and pages that the chains
  reach.  That a free or an insertion keeps them needs the chains themselves: a
  chain visits each member once from its head (`Chain`), and `ChainIsLeast` shows
  that its members are exactly what the head reaches.
  `StorageInv` says so of the free cells of every page and, with the back links, of
  the pages with room of every class, and that live counts are cardinalities.
  `AllocatorImplemented` adds that cells of one page do not overlap because all of a
  page's cells have its class's size.
* **Array buffers.**  `BackingExact` is about the states between two operations.
  `BuffersInv` accounts for every allocated buffer: it belongs to one live array or
  is linked in the cache (`Sound`, `Accounted`).  Within an operation one buffer more
  may be in hand, and `realloc` returns one that nobody owns.  A sweep releases the
  dead arrays one after another; that each release leaves the account exact is one
  lemma, and induction over the length of the heap (`Numbers`, from well-founded
  induction) carries it over the sweep.
* **Hash tables.**  `SlotsExact` says that a lookup finds the slot of its key, which
  a step can only keep if the whole probe sequence is understood.  `ProbeVisits`: a
  probe visits every slot of a table once, so one vacant slot ends it.  `TablesInv`
  says of every table that each key is reached past slots that were never vacant
  since (`Reaches`), that counts are cardinalities, so the fill limit leaves a vacant
  slot, and that a slot held between a lookup and its store is still the probe's.
  Rebuilding and merging are folds over slots (`CopiedIs`, `MergedIs`): after each
  slot the new table holds exactly the entries copied so far and has room for the
  rest.  `MapsImplemented` maps a table to the function from its keys to their
  values; the instructions change it as `KeyedMaps` says.
* **Network.**  `NetworkInv` says of each connection, in every state of its life,
  how parser, saved input, packet and debt of responses go together (`Sound`), also
  for the intermediate states a callback passes through while it replays saved
  input; the properties are what the code relies on in the steady states.  Parsing
  stops at the first token that pauses or fails, so no induction over the saved
  input is needed.
* **Recovery.**  The two chains are right because each link is the nearest scope
  below its frame (`Below`), and the root slots are ordered by the frames that own
  them; a `longjmp` then cuts frames, slots and both chains at the same place.
  Exactly-once closing needs that each open descriptor is in one file frame and that
  a detached one is in none.
* **Suite runner.**  What is alive is owned by a group that is still to be closed,
  and a leader that is over has no descendant that nobody owns (`AliveOwned`,
  `LeadersOver`).
* **Measurement, the processes.**  The leader's state follows the stage of the call
  that started it, and a group killed at a limit stays empty because its leader,
  which alone could start another process, is dead (`KilledStaysEmpty`); so `observe`
  may leave the second kill out in that case.
* **Measurement, the figures.**  `PublishedIsGenuine` and `QualifiedExactly` compare
  counts of records with the plan of a cohort.  The schedule of a controller never
  changes; `RestOfSchedule` says that what is left to do is a suffix of it.  While
  the program goes on, and after it has published, the records of any set of items
  whose rows pass are exactly as many as the items of that set that are over
  (`Tally`), and a failure marks its row for good (`FailuresKept`); for a daily cohort
  in which everything passes the records are those of the schedule, in order
  (`InOrder`).  So a row that passes when its case is summarized has a full set of
  samples, provided that no build or run of the case comes later.  That, and how
  many items of each role every schedule has, are facts about four schedules for any
  number of cases, roles and rounds (`Shape`, `Counted`).  They are computed from the
  parts of a schedule: each part is a `Piece`, a sequence of items of one `Region`
  (some cases, some kinds) in an order without conflicts, and concatenation and
  flattening keep pieces and add up counts.  Rotations are shown to be permutations
  of the roles and, in a diagnostic, of the cases (`Placed`).  `RowsJudged` then says
  of each row on what grounds it was judged, and `OnDisk` that only these rows are
  published.
* **Drivers.**  `CleanExit` and `FreshBinary` are proved of every script that keeps
  the discipline of `TestDrivers` (`DriversAssumption`): it has an outline that says,
  ahead of each step it can come to, which scopes are entered, which sessions are
  held and which binaries are certainly built; a step that may raise finds every
  session covered by the innermost scope, and a step that executes a binary finds it
  built or passes over it.  TLC evaluates the assumption for the 27 scripts under
  all options, with outlines computed from the scripts.  `DriversInv` says that a
  running driver is where its outline says (`AsOutlined`), and that one which raises
  is still in scopes that deal with every session, whichever step raised
  (`Unwinding`).  The finally block of the bootstrap driver's pair of children counts
  as dealing with one: if it has to kill the first, its second is left.  That the
  children of a terminal end with it, by the hang-up when the interpreter closes it,
  is assumed (`LeftBehind`), not checked.
* **Dependencies.**  What a builder has already published is of the pins it started
  with at every step it can be killed at (`RunFine`), also while another builder
  publishes over it.
* **Performance state.**  Nothing but artifacts connects two runs.  `StateInv` says,
  for every step at which a job can be lost, that the history it carries goes on
  from that of every artifact but those of the runs it passed over (`GoesOn`), that of
  two artifacts the later goes on from the earlier unless that was passed over
  (`Ordered`), that what a job or page holds is in order and ends with its latest
  snapshot (`Listed`), and that a fingerprint determines the inputs (`TreeExact`).  To
  go on from a history (`Extends`) is to begin with it or with what is left after the
  oldest snapshots, which only a full history drops; it is transitive, and appending
  and truncating keep it.  The newest completed artifact goes on from every other
  completed one, so what a job did not read is exactly what runs in progress uploaded.
* **Archives.**  `EvidenceInv` says how far each command has come: the files `compact`
  has compared are those no longer on its list, and the commit cannot move under it;
  a record is written before the notice, nobody else writes records, so a notice
  implies a record and a second `compact` is refused (`Noticed`, `Compacting`); a
  bundle never has a member its header does not count, so equal counts mean equal
  sets; a suite that recorded anything found the receipts file empty.

Assumptions on the constants are those the modules name: finite sets, positive
sizes and limits, markers outside the sets they mark, at least one frame
(`MaxDepth`) and one size class (`Offsets`), a first capacity above one, and tables that
shrink only below one half (one eighth in the code) of their capacity, so that a halved table has
room, more run numbers than can be named, no evidence named
like the record that `compact` writes, distinct names of compilers, at least two builds and
one sample, and the discipline of the scripts.
Fairness is not used.

Only model-checked: liveness (`DueRequestServed`, `ShutdownCompletes`,
`ChangesMeasured`, `CohortEnds`, `Recovers`, `DriverEnds`, `CancelledRunEnds`), which
the prover cannot treat.  Every invariant and every action property of the passing runs
is also a theorem.

## Not modelled

Statistics and trace counters, allocation failure (the runtime ends the process,
except in the network parser, where it is listed as an open hazard), hashes and
closures as object kinds of the heap (they trace like fixed objects or arrays),
hash tables of the REPL, String keys (another comparison and tombstone word), the
arrays of a hash table in the buffer cache (never of the cached capacity), lazy root reservation of functions that return enums on the stack,
message syntax, reads and writes through an open file, directory listings (they
open and close inside one runtime call that cannot fail recoverably).

Of the tools: signals sent to a driver itself (`native-bootstrap-test.py` turns
SIGTERM into an exception; one that arrives between a start and its `try` leaves a
child), the thread pool of the language coverage driver, drivers other than the
27 (shorter, of the same forms), measured numbers and memory policies,
`measure-command.py`, descendants that leave their process group by `setsid` (no kill of
the group reaches them), output oracles, reports and pages, the planner
`ci-plan.mjs`, the compatibility manifest and the layout migration (pure functions
of a tree).

What the models show the code not to promise, and the properties therefore do not
state: a representative job that falls back to the public page may drop newer
snapshots; a run that is started again does not see the snapshots its earlier attempts
retained, so the next history lacks them (`HistoryKept` exempts what a job passed over); the library builders leave a torn source archive when killed while
writing it, and refuse it from then on; a network installation is replaced file by
file, so between two replacements `verify` rejects it; `compact` cannot be resumed
once files are removed; a `communicate()` without a timeout after a kill waits for
the killed process's children (`Untimed`).

The other components of the inventory are listed with reasons in `PROJECT.json`.

## Plan

1. Further action properties of the components that have an inductive invariant.
2. Allocation failure in the network parser.
3. Package installation (`compiler/src/project`): lock file and cache under
   interrupted fetches.
