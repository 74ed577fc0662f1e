----------------------- MODULE BuildAndTestProofs -----------------------
(***************************************************************************)
(* Proofs about what builds and tests the repository.                      *)
(*                                                                         *)
(* The dependency builders, for every family, any number of concurrent     *)
(* builders and any number of faults and changes of pins: what verify      *)
(* accepts and what a builder returns is one whole build.  Builders share  *)
(* the output without a lock.  The argument is that the pins cannot change *)
(* while one of them runs, so that every build that is under way was made  *)
(* from the same inputs, whoever published last; that the families whose   *)
(* installation has several parts rename it whole; and that only one       *)
(* builder synchronises the source bundle.                                 *)
(*                                                                         *)
(* The CI suite runner, for any number of suites, and an acceptance        *)
(* driver, for any script that keeps the discipline of TestDrivers, leave  *)
(* no process of what they started.  The properties speak of the moment a  *)
(* call returns or a driver exits; the inductive invariants say in every   *)
(* state who still has to deal with what is alive: the group to be         *)
(* signalled and who has signalled it, the scopes that shelter the         *)
(* sessions while an exception unwinds them.                               *)
(***************************************************************************)
EXTENDS SuiteRunner, TestDrivers, DependencyCache, FiniteSetTheorems, SequenceTheorems,
        WellFoundedInduction, TLAPS

(***************************************************************************)
(* The dependency builders.                                                *)
(***************************************************************************)

Builds == [inputs : 1..Inputs, by : Builders] \cup {None}
Outcome == [inputs : 0..Inputs, files : SUBSET Builds]

(* The one process that runs official-sources sync.                          *)
Syncer == CHOOSE c \in Builders : TRUE

(* The record of a builder.  What it has left to do is a list of names.      *)
IsRun(r) ==
  /\ r = [pc |-> r.pc, inputs |-> r.inputs, todo |-> r.todo, attempt |-> r.attempt, seen |-> r.seen]
  /\ r.inputs \in 0..Inputs /\ r.seen \in Builds

DepTypes ==
  /\ family \in Families_ /\ inputs \in 1..Inputs
  /\ installed \in [FilesOf -> Builds] /\ receipt \in Builds
  /\ run = [b \in Builders |-> run[b]] /\ \A b \in Builders : IsRun(run[b])
  /\ returned \in [Builders -> Outcome]

(* What a builder at r may rely on: its pins are those of the checkout, and  *)
(* what it or another builder has published since is of these pins.          *)
RunFine(r) ==
  /\ r.pc # "idle" => r.inputs = inputs
  /\ r.pc = "compare" => family = "qbe"
  /\ r.pc \in {"aside", "catalog"} => family = "sources"
  /\ r.pc = "publish" /\ family = "network" => r.todo \in Seq(FilesOf)
  /\ r.pc = "publish" /\ family = "qbe" /\ r.todo = <<>> => installed["qbe"].inputs = inputs
  /\ r.pc = "catalog" => installed["bundle"].inputs = inputs

RunsFine ==
  /\ \A b \in Builders : RunFine(run[b])
  /\ family = "sources" => \A b \in Builders : b # Syncer => run[b].pc = "idle"

Unmixed == Renamed => \A f \in FilesOf : installed[f] = receipt

Returned ==
  family # "network" => \A b \in Builders : \A x \in returned[b].files : x.inputs = returned[b].inputs

DependencyInv == DepTypes /\ RunsFine /\ Unmixed /\ Returned

---------------------------------------------------------------------------
(* The files of the families that publish one by one.                        *)

(* A list of two names.                                                      *)
LEMMA TwoNames ==
  ASSUME NEW a, NEW b
  PROVE  <<a, b>> \in Seq({a, b}) /\ {<<a, b>>[i] : i \in DOMAIN <<a, b>>} = {a, b}
OBVIOUS

(* A list of one name.                                                       *)
LEMMA OneName ==
  ASSUME NEW a
  PROVE  <<a>> # <<>> /\ {<<a>>[i] : i \in DOMAIN <<a>>} = {a}
OBVIOUS

(* The files of the families whose publication is more than one replacement. *)
LEMMA Files ==
  /\ family = "network" => artifact_spec \in Seq(FilesOf)
  /\ family = "qbe" => FilesOf = {"qbe"} /\ artifact_spec # <<>>
  /\ family = "sources" => FilesOf = {"bundle"}
<1>1. ASSUME family = "network" PROVE artifact_spec \in Seq(FilesOf)
  <2>1. artifact_spec = <<"libraries", "network-identity.o">>
    BY <1>1, Zenon DEF artifact_spec
  <2>2. FilesOf = {"libraries", "network-identity.o"}
    BY <2>1, TwoNames DEF FilesOf, ToSet
  <2> QED BY <2>1, <2>2, TwoNames
<1>2. ASSUME family = "qbe" PROVE FilesOf = {"qbe"} /\ artifact_spec # <<>>
  <2>1. artifact_spec = <<"qbe">>
    BY <1>2, Zenon DEF artifact_spec
  <2> QED BY <2>1, OneName DEF FilesOf, ToSet
<1>3. ASSUME family = "sources" PROVE FilesOf = {"bundle"}
  <2>1. artifact_spec = <<"bundle">>
    BY <1>3, Zenon DEF artifact_spec
  <2> QED BY <2>1, OneName DEF FilesOf, ToSet
<1> QED BY <1>1, <1>2, <1>3

(* A builder that is not running.                                            *)
LEMMA IdleRun == IsRun(NoRun) /\ NoRun.pc = "idle" /\ RunFine(NoRun) /\ RunFine(NoRun)'
<1>1. None \in Builds
  BY DEF Builds
<1>2. IsRun(NoRun)
  BY <1>1, DependencyAssumption DEF NoRun, IsRun
<1>3. NoRun.pc = "idle"
  BY DEF NoRun
<1> QED BY <1>2, <1>3 DEF RunFine

(* A build of a running builder.                                             *)
LEMMA BuildType ==
  ASSUME DependencyInv, NEW b \in Builders, run[b].pc # "idle"
  PROVE  /\ Build(b) \in Builds /\ Build(b).inputs = inputs /\ run[b].inputs = inputs
         /\ IsRun(run[b]) /\ inputs \in 1..Inputs /\ inputs \in 0..Inputs
<1>1. run[b].inputs = inputs /\ inputs \in 1..Inputs /\ IsRun(run[b])
  BY DEF DependencyInv, RunsFine, RunFine, DepTypes
<1>2. inputs \in 0..Inputs
  BY <1>1, DependencyAssumption
<1> QED BY <1>1, <1>2 DEF Build, Builds

---------------------------------------------------------------------------
(* A step of one builder.                                                    *)

(* Builder b goes on to r; what it installs and returns is of its pins.      *)
Moved(b, r) ==
  /\ family' = family /\ inputs' = inputs /\ run' = [run EXCEPT ![b] = r]
  /\ IsRun(r) /\ RunFine(r)'
  /\ family = "sources" /\ b # Syncer => r.pc = "idle" /\ installed' = installed
  /\ installed' \in [FilesOf -> Builds] /\ receipt' \in Builds
  /\ family = "qbe" => installed' = installed \/ installed'["qbe"].inputs = inputs
  /\ Unmixed'
  /\ \/ returned' = returned
     \/ \E o \in Outcome : /\ returned' = [returned EXCEPT ![b] = o]
                           /\ family # "network" => \A x \in o.files : x.inputs = o.inputs

(* One builder moves on and nothing else changes but what Moved allows.      *)
LEMMA MovedKeeps ==
  ASSUME DependencyInv, NEW b \in Builders, NEW r, Moved(b, r)
  PROVE  DependencyInv'
<1>1. /\ family \in Families_ /\ inputs \in 1..Inputs /\ run = [c \in Builders |-> run[c]]
      /\ returned \in [Builders -> Outcome] /\ FilesOf' = FilesOf
  BY DEF DependencyInv, DepTypes, Moved, FilesOf, artifact_spec
<1>2. /\ run' = [c \in Builders |-> run'[c]] /\ run'[b] = r /\ \A c \in Builders : c # b => run'[c] = run[c]
  BY <1>1 DEF Moved
<1>3. returned' \in [Builders -> Outcome]
  BY <1>1 DEF Moved
<1>4. DepTypes'
  <2>1. \A c \in Builders : IsRun(run'[c])
    BY <1>2 DEF DependencyInv, DepTypes, Moved
  <2> QED BY <1>1, <1>2, <1>3, <2>1 DEF DepTypes, Moved
<1>5. ASSUME NEW c \in Builders PROVE RunFine(run[c])'
  <2>1. CASE c = b
    BY <1>2, <2>1 DEF Moved, RunFine
  <2>2. CASE c # b
    <3>1. run'[c] = run[c] /\ RunFine(run[c]) /\ family' = family /\ inputs' = inputs
      BY <1>2, <2>2 DEF DependencyInv, RunsFine, Moved
    <3>2. family = "qbe" => installed' = installed \/ installed'["qbe"].inputs = inputs
      BY DEF Moved
    <3>3. run[c].pc = "catalog" => installed' = installed
      <4> SUFFICES ASSUME run[c].pc = "catalog" PROVE installed' = installed
        OBVIOUS
      <4>1. family = "sources"
        BY <3>1 DEF RunFine
      <4>2. c = Syncer
        BY <4>1 DEF DependencyInv, RunsFine
      <4> QED BY <2>2, <4>1, <4>2 DEF Moved
    <3> QED BY <1>1, <3>1, <3>2, <3>3 DEF RunFine
  <2> QED BY <2>1, <2>2
<1>6. ASSUME family' = "sources", NEW c \in Builders, c # Syncer PROVE run'[c].pc = "idle"
  <2>1. family = "sources"
    BY <1>6 DEF Moved
  <2>2. c # b => run[c].pc = "idle"
    BY <1>6, <2>1 DEF DependencyInv, RunsFine
  <2> QED BY <1>2, <1>6, <2>1, <2>2 DEF Moved
<1>7. Returned'
  <2> SUFFICES ASSUME family # "network", NEW c \in Builders, NEW x \in returned'[c].files
               PROVE  x.inputs = returned'[c].inputs
    BY DEF Returned, Moved
  <2>1. CASE returned' = returned
    BY <2>1 DEF DependencyInv, Returned
  <2>2. CASE returned' # returned
    <3>1. PICK o \in Outcome : returned' = [returned EXCEPT ![b] = o] /\ \A y \in o.files : y.inputs = o.inputs
      BY <2>2 DEF Moved
    <3>2. c = b \/ returned'[c] = returned[c]
      BY <1>1, <3>1
    <3>3. CASE c = b
      BY <1>1, <3>1, <3>3
    <3>4. CASE c # b
      BY <3>2, <3>4 DEF DependencyInv, Returned
    <3> QED BY <3>3, <3>4
  <2> QED BY <2>1, <2>2
<1>8. Unmixed'
  BY DEF Moved
<1> QED BY <1>4, <1>5, <1>6, <1>7, <1>8 DEF DependencyInv, RunsFine

(* A step that installs and returns nothing.                                 *)
Still == /\ family' = family /\ inputs' = inputs /\ installed' = installed
         /\ receipt' = receipt /\ returned' = returned

(* A builder that moves on without touching anything shared.                 *)
LEMMA StillMoves ==
  ASSUME DependencyInv, Still, NEW b \in Builders, NEW r, IsRun(r), RunFine(r), run' = [run EXCEPT ![b] = r],
         family = "sources" /\ b # Syncer => r.pc = "idle"
  PROVE  DependencyInv'
<1>1. FilesOf' = FilesOf
  BY DEF Still, FilesOf, artifact_spec
<1>2. RunFine(r)'
  BY <1>1 DEF RunFine, Still
<1>3. Unmixed'
  BY <1>1 DEF DependencyInv, Unmixed, Still, Renamed
<1>4. Moved(b, r)
  BY <1>2, <1>3 DEF Moved, Still, DependencyInv, DepTypes
<1> QED BY <1>4, MovedKeeps

(* A builder that ends without publishing.                                   *)
LEMMA EndKeeps ==
  ASSUME DependencyInv, Still, NEW b \in Builders, End(b)
  PROVE  DependencyInv'
BY StillMoves, IdleRun DEF End

(* A builder that goes on to another part of its work.                       *)
LEMMA GotoKeeps ==
  ASSUME DependencyInv, Still, NEW b \in Builders, run[b].pc # "idle",
         NEW st \in {"fetch", "write", "writing", "open", "build"}, Goto(b, st)
  PROVE  DependencyInv'
<1> DEFINE r == [run[b] EXCEPT !.pc = st]
<1>1. IsRun(run[b]) /\ run[b].inputs = inputs
  BY BuildType
<1>2. IsRun(r) /\ r.pc = st /\ r.inputs = inputs
  BY <1>1 DEF IsRun
<1>3. run' = [run EXCEPT ![b] = r]
  BY DEF Goto, DependencyInv, DepTypes
<1> HIDE DEF r
<1>4. RunFine(r)
  BY <1>2 DEF RunFine
<1>5. family = "sources" => b = Syncer
  BY DEF DependencyInv, RunsFine
<1> QED BY <1>2, <1>3, <1>4, <1>5, StillMoves

---------------------------------------------------------------------------
(* The steps before anything is published.                                   *)

(* What the invariant says of a builder.                                     *)
LEMMA RunFacts ==
  ASSUME DependencyInv, NEW b \in Builders
  PROVE  /\ IsRun(run[b]) /\ RunFine(run[b]) /\ inputs \in 1..Inputs /\ inputs \in 0..Inputs
         /\ run = [c \in Builders |-> run[c]] /\ receipt \in Builds /\ installed \in [FilesOf -> Builds]
         /\ family = "sources" /\ b # Syncer => run[b].pc = "idle"
BY DependencyAssumption DEF DependencyInv, DepTypes, RunsFine

(* What an assignment to a word of a builder's record leaves of it.          *)
Same(r, q) == IsRun(r) /\ r.inputs = q.inputs

(* One field of a run at a time: the files left to publish,                  *)
LEMMA SetTodo ==
  ASSUME NEW q, IsRun(q), NEW todo
  PROVE  LET r == [q EXCEPT !.todo = todo] IN Same(r, q) /\ r.todo = todo /\ r.pc = q.pc
<1>1. PICK c, i, t, a, s : q = [pc |-> c, inputs |-> i, todo |-> t, attempt |-> a, seen |-> s]
  BY DEF IsRun
<1>2. PICK r : r = [q EXCEPT !.todo = todo]
  OBVIOUS
<1>3. r = [pc |-> c, inputs |-> i, todo |-> todo, attempt |-> a, seen |-> s]
  BY <1>1, <1>2
<1>4. i \in 0..Inputs /\ s \in Builds
  BY <1>1 DEF IsRun
<1>5. IsRun(r)
  BY <1>3, <1>4 DEF IsRun
<1> QED BY <1>1, <1>2, <1>3, <1>5 DEF Same

(* the step it is at,                                                        *)
LEMMA SetPc ==
  ASSUME NEW q, IsRun(q), NEW st
  PROVE  LET r == [q EXCEPT !.pc = st] IN Same(r, q) /\ r.todo = q.todo /\ r.pc = st
<1>1. PICK c, i, t, a, s : q = [pc |-> c, inputs |-> i, todo |-> t, attempt |-> a, seen |-> s]
  BY DEF IsRun
<1>2. PICK r : r = [q EXCEPT !.pc = st]
  OBVIOUS
<1>3. r = [pc |-> st, inputs |-> i, todo |-> t, attempt |-> a, seen |-> s]
  BY <1>1, <1>2
<1>4. i \in 0..Inputs /\ s \in Builds
  BY <1>1 DEF IsRun
<1>5. IsRun(r)
  BY <1>3, <1>4 DEF IsRun
<1> QED BY <1>1, <1>2, <1>3, <1>5 DEF Same

(* the attempt it makes,                                                     *)
LEMMA SetAttempt ==
  ASSUME NEW q, IsRun(q), NEW attempt
  PROVE  LET r == [q EXCEPT !.attempt = attempt] IN Same(r, q) /\ r.todo = q.todo /\ r.pc = q.pc
<1>1. PICK c, i, t, a, s : q = [pc |-> c, inputs |-> i, todo |-> t, attempt |-> a, seen |-> s]
  BY DEF IsRun
<1>2. PICK r : r = [q EXCEPT !.attempt = attempt]
  OBVIOUS
<1>3. r = [pc |-> c, inputs |-> i, todo |-> t, attempt |-> attempt, seen |-> s]
  BY <1>1, <1>2
<1>4. i \in 0..Inputs /\ s \in Builds
  BY <1>1 DEF IsRun
<1>5. IsRun(r)
  BY <1>3, <1>4 DEF IsRun
<1> QED BY <1>1, <1>2, <1>3, <1>5 DEF Same

(* the build it has found installed,                                         *)
LEMMA SetSeen ==
  ASSUME NEW q, IsRun(q), NEW seen \in Builds
  PROVE  LET r == [q EXCEPT !.seen = seen] IN Same(r, q) /\ r.todo = q.todo /\ r.pc = q.pc
<1>1. PICK c, i, t, a, s : q = [pc |-> c, inputs |-> i, todo |-> t, attempt |-> a, seen |-> s]
  BY DEF IsRun
<1>2. PICK r : r = [q EXCEPT !.seen = seen]
  OBVIOUS
<1>3. r = [pc |-> c, inputs |-> i, todo |-> t, attempt |-> a, seen |-> seen]
  BY <1>1, <1>2
<1>4. i \in 0..Inputs
  BY <1>1 DEF IsRun
<1>5. IsRun(r)
  BY <1>3, <1>4 DEF IsRun
<1> QED BY <1>1, <1>2, <1>3, <1>5 DEF Same

(* and the pins it was started with.                                         *)
LEMMA SetInputs ==
  ASSUME NEW q, IsRun(q), NEW i \in 0..Inputs
  PROVE  LET r == [q EXCEPT !.inputs = i] IN IsRun(r) /\ r.inputs = i
<1>1. PICK c, j, t, a, s : q = [pc |-> c, inputs |-> j, todo |-> t, attempt |-> a, seen |-> s]
  BY DEF IsRun
<1>2. PICK r : r = [q EXCEPT !.inputs = i]
  OBVIOUS
<1>3. r = [pc |-> c, inputs |-> i, todo |-> t, attempt |-> a, seen |-> s]
  BY <1>1, <1>2
<1>4. s \in Builds
  BY <1>1 DEF IsRun
<1>5. IsRun(r)
  BY <1>3, <1>4 DEF IsRun
<1> QED BY <1>1, <1>2, <1>3, <1>5

(* A builder starts from the pins and the receipt it finds.                  *)
LEMMA StartKeeps ==
  ASSUME DependencyInv, NEW b \in Builders, Start(b)
  PROVE  DependencyInv'
<1>1. Still
  BY DEF Start, Still, place
<1> DEFINE st == IF family = "qbe" THEN "compare" ELSE IF InPlace THEN "fetch" ELSE "build"
           r == [NoRun EXCEPT !.inputs = inputs, !.seen = receipt, !.pc = st, !.todo = BuildSteps]
<1>2. run' = [run EXCEPT ![b] = r] /\ (family = "sources" => b = Syncer)
  BY DEF Start, backend_identity, Syncer
<1>4. /\ r.pc = st /\ r.inputs = inputs /\ IsRun(r)
  <2>1. PICK r1 : r1 = [NoRun EXCEPT !.inputs = inputs]
    OBVIOUS
  <2>2. PICK r2 : r2 = [r1 EXCEPT !.seen = receipt]
    OBVIOUS
  <2>3. PICK r3 : r3 = [r2 EXCEPT !.pc = st]
    OBVIOUS
  <2>4. r = [r3 EXCEPT !.todo = BuildSteps]
    BY <2>1, <2>2, <2>3
  <2> HIDE DEF r, st
  <2>5. IsRun(r1) /\ r1.inputs = inputs
    BY <2>1, IdleRun, RunFacts, SetInputs
  <2>6. IsRun(r2) /\ r2.inputs = inputs
    BY <2>2, <2>5, RunFacts, SetSeen DEF Same
  <2>7. IsRun(r3) /\ r3.inputs = inputs /\ r3.pc = st
    BY <2>3, <2>6, SetPc DEF Same
  <2> QED BY <2>4, <2>7, SetTodo DEF Same
<1>5. RunFine(r)
  <2>1. st \in {"compare", "fetch", "build"} /\ (st = "compare" => family = "qbe")
    OBVIOUS
  <2> HIDE DEF r, st
  <2> QED BY <1>4, <2>1 DEF RunFine
<1> HIDE DEF r
<1> QED BY <1>1, <1>2, <1>4, <1>5, StillMoves

(* A receipt that names the inputs and the binary that is there is believed. *)
LEMMA CompareKeeps ==
  ASSUME DependencyInv, NEW b \in Builders, Compare(b)
  PROVE  DependencyInv'
<1>1. run[b].pc = "compare" /\ family = "qbe" /\ run[b].pc # "idle"
  BY RunFacts DEF Compare, Reuse, InStage, RunFine
<1>2. /\ family' = family /\ inputs' = inputs /\ receipt' = receipt /\ installed' = installed
  BY DEF Compare, Reuse
<1>3. CASE installed["qbe"] # None /\ ReceiptMatches(b) /\ run[b].seen = installed["qbe"]
  <2>1. End(b) /\ Report(b)
    BY <1>3 DEF Compare, Reuse
  <2> DEFINE o == [inputs |-> run[b].inputs, files |-> {installed'[f] : f \in FilesOf}]
  <2>2. returned' = [returned EXCEPT ![b] = o]
    BY <1>1, <2>1 DEF Report
  <2>3. FilesOf = {"qbe"}
    BY <1>1, Files
  <2>4. o.files = {installed["qbe"]} /\ o.inputs = run[b].inputs /\ installed["qbe"].inputs = run[b].inputs
    BY <1>2, <1>3, <2>3 DEF ReceiptMatches
  <2>5. o \in Outcome
    <3>1. installed["qbe"] \in Builds /\ run[b].inputs \in 0..Inputs
      BY <2>3, RunFacts DEF IsRun
    <3>2. PICK i \in 0..Inputs, F \in SUBSET Builds : i = run[b].inputs /\ F = {installed'[f] : f \in FilesOf}
      BY <1>2, <2>3, <3>1
    <3> QED BY <3>2 DEF Outcome
  <2> HIDE DEF o
  <2>6. FilesOf' = FilesOf
    BY <1>2 DEF FilesOf, artifact_spec
  <2>7. Unmixed'
    BY <1>2, <2>6 DEF DependencyInv, Unmixed, Renamed
  <2>8. \E x \in Outcome : /\ returned' = [returned EXCEPT ![b] = x]
                           /\ family # "network" => \A y \in x.files : y.inputs = x.inputs
    BY <2>2, <2>4, <2>5
  <2>9. Moved(b, NoRun)
    BY <1>1, <1>2, <2>1, <2>7, <2>8, IdleRun, RunFacts DEF Moved, End
  <2> QED BY <2>9, MovedKeeps
<1>4. CASE ~(installed["qbe"] # None /\ ReceiptMatches(b) /\ run[b].seen = installed["qbe"])
  <2>1. Goto(b, "fetch") /\ Still
    BY <1>4, <1>2 DEF Compare, Reuse, Still
  <2> QED BY <1>1, <2>1, GotoKeeps
<1> QED BY <1>3, <1>4

(* Downloads, and the source archive that builders share.                    *)
LEMMA FetchKeeps ==
  ASSUME DependencyInv, NEW b \in Builders,
         Fetch(b) \/ download_source(b) \/ WriteBegin(b) \/ WriteEnd(b) \/ Open(b)
  PROVE  DependencyInv'
<1>1. Still /\ run[b].pc # "idle"
  BY DEF Fetch, download_source, WriteBegin, WriteEnd, Open, Still, place, InStage
<1>2. ASSUME download_source(b) PROVE End(b) \/ run' = [run EXCEPT ![b].attempt = @ + 1]
  BY <1>2 DEF download_source
<1>3. \/ End(b) \/ run' = [run EXCEPT ![b].attempt = @ + 1]
      \/ \E st \in {"fetch", "write", "writing", "open", "build"} : Goto(b, st)
  BY <1>2 DEF Fetch, fetch_qbe, extract, WriteBegin, WriteEnd, Open
<1>4. CASE run' = [run EXCEPT ![b].attempt = @ + 1]
  <2> DEFINE r == [run[b] EXCEPT !.attempt = @ + 1]
  <2>1. run' = [run EXCEPT ![b] = r]
    BY <1>4
  <2>2. IsRun(r) /\ r.pc = run[b].pc /\ r.inputs = run[b].inputs /\ r.todo = run[b].todo
    BY RunFacts, SetAttempt DEF Same
  <2> HIDE DEF r
  <2>3. RunFine(r)
    BY <2>2, RunFacts DEF RunFine
  <2>4. family = "sources" /\ b # Syncer => r.pc = "idle"
    BY <2>2, RunFacts
  <2> QED BY <1>1, <2>1, <2>2, <2>3, <2>4, StillMoves
<1> QED BY <1>1, <1>3, <1>4, EndKeeps, GotoKeeps

(* The commands of a build stay in the builder's own directory.              *)
LEMMA CommandKeeps ==
  ASSUME DependencyInv, NEW b \in Builders, Command(b)
  PROVE  DependencyInv'
<1>1. Still /\ run[b].pc = "build"
  BY DEF Command, Still, place, InStage
<1>2. family = "sources" => b = Syncer
  BY <1>1, RunFacts
<1>3. run[b].inputs = inputs
  BY <1>1, RunFacts DEF RunFine
<1>4. CASE run[b].todo # <<>>
  <2> DEFINE r == [run[b] EXCEPT !.todo = Tail(@)]
  <2>1. run' = [run EXCEPT ![b] = r]
    BY <1>4 DEF Command
  <2>2. IsRun(r) /\ r.pc = "build" /\ r.inputs = inputs
    BY ZenonT(30), <1>1, <1>3, RunFacts, SetTodo DEF Same
  <2> HIDE DEF r
  <2>3. RunFine(r)
    BY <2>2 DEF RunFine
  <2> QED BY <1>1, <1>2, <2>1, <2>2, <2>3, StillMoves
<1>5. CASE run[b].todo = <<>>
  <2> DEFINE r == [run[b] EXCEPT !.pc = "publish", !.todo = artifact_spec]
  <2>1. run' = [run EXCEPT ![b] = r]
    BY <1>5, RunFacts DEF Command, IsRun
  <2>2. IsRun(r) /\ r.pc = "publish" /\ r.inputs = inputs /\ r.todo = artifact_spec
    <3>1. PICK q : q = [run[b] EXCEPT !.pc = "publish"]
      OBVIOUS
    <3>2. r = [q EXCEPT !.todo = artifact_spec]
      BY <3>1
    <3> HIDE DEF r
    <3>3. IsRun(q) /\ q.inputs = inputs /\ q.pc = "publish"
      BY <1>3, <3>1, RunFacts, SetPc DEF Same
    <3> QED BY <3>2, <3>3, SetTodo DEF Same
  <2> HIDE DEF r
  <2>3. RunFine(r)
    BY <2>2, Files DEF RunFine
  <2> QED BY <1>1, <1>2, <2>1, <2>2, <2>3, StillMoves
<1> QED BY <1>4, <1>5

(* A command that fails and a kill end a run where it is.                    *)
LEMMA StopsKeep ==
  ASSUME DependencyInv, NEW b \in Builders, CommandFails(b) \/ Killed(b)
  PROVE  DependencyInv'
<1>1. Still /\ End(b)
  BY DEF CommandFails, Killed, Still, place
<1> QED BY <1>1, EndKeeps

---------------------------------------------------------------------------
(* Publication.                                                              *)

(* What a builder reports is what is installed, and of its own pins.         *)
LEMMA ReturnFacts ==
  ASSUME DependencyInv, NEW b \in Builders, run[b].pc # "idle", Report(b), installed' \in [FilesOf -> Builds],
         family # "network" => \A f \in FilesOf : installed'[f].inputs = inputs
  PROVE  \/ returned' = returned
         \/ \E o \in Outcome : /\ returned' = [returned EXCEPT ![b] = o]
                               /\ family # "network" => \A x \in o.files : x.inputs = o.inputs
<1>1. CASE family = "network"
  BY <1>1 DEF Report
<1>2. CASE family # "network"
  <2>1. run[b].inputs = inputs /\ inputs \in 0..Inputs
    BY BuildType
  <2> DEFINE F == {installed'[f] : f \in FilesOf}
             o == [inputs |-> run[b].inputs, files |-> F]
  <2>2. returned' = [returned EXCEPT ![b] = o]
    BY <1>2 DEF Report
  <2>3. F \in SUBSET Builds /\ \A x \in F : x.inputs = inputs
    BY <1>2
  <2> HIDE DEF F
  <2>4. o \in Outcome /\ o.files = F /\ o.inputs = inputs
    BY <2>1, <2>3 DEF Outcome
  <2> HIDE DEF o
  <2> QED BY <2>2, <2>3, <2>4
<1> QED BY <1>1, <1>2

(* A directory is renamed into place whole, or not at all.                   *)
LEMMA PublishDirectoryKeeps ==
  ASSUME DependencyInv, NEW b \in Builders, publish_directory(b)
  PROVE  DependencyInv'
<1>1. run[b].pc # "idle" /\ Renamed /\ End(b) /\ family' = family /\ inputs' = inputs
  BY DEF publish_directory, InStage
<1>2. CASE exists
  <2>1. Still
    BY <1>1, <1>2 DEF publish_directory, Still
  <2> QED BY <1>1, <2>1, EndKeeps
<1>3. CASE ~exists
  <2>1. installed' = [f \in FilesOf |-> Build(b)] /\ receipt' = Build(b) /\ Report(b)
    BY <1>3 DEF publish_directory
  <2>2. Build(b) \in Builds /\ Build(b).inputs = inputs
    BY <1>1, BuildType
  <2>3. installed' \in [FilesOf -> Builds] /\ \A f \in FilesOf : installed'[f].inputs = inputs
    BY <2>1, <2>2
  <2>4. FilesOf' = FilesOf
    BY <1>1 DEF FilesOf, artifact_spec
  <2>5. Unmixed'
    BY <2>1, <2>4 DEF Unmixed
  <2>6. family # "sources" /\ family # "qbe"
    BY <1>1 DEF Renamed
  <2>7. \/ returned' = returned
        \/ \E o \in Outcome : /\ returned' = [returned EXCEPT ![b] = o]
                              /\ family # "network" => \A x \in o.files : x.inputs = o.inputs
    BY <1>1, <2>1, <2>3, ReturnFacts
  <2>8. Moved(b, NoRun)
    BY <1>1, <2>1, <2>2, <2>3, <2>5, <2>6, <2>7, IdleRun DEF Moved, End
  <2> QED BY <2>8, MovedKeeps
<1> QED BY <1>2, <1>3

(* The network builder replaces its files one after the other; only verify   *)
(* may judge what is there in between.                                       *)
LEMMA PublishPendingKeeps ==
  ASSUME DependencyInv, NEW b \in Builders, publish_pending(b)
  PROVE  DependencyInv'
<1>1. Still /\ run' = run
  BY DEF publish_pending, Still
<1>2. run' = [run EXCEPT ![b] = run[b]]
  BY <1>1, RunFacts
<1> QED BY <1>1, <1>2, RunFacts, StillMoves

(* One file of a network installation is replaced.                           *)
LEMMA PublishFileKeeps ==
  ASSUME DependencyInv, NEW b \in Builders, publish_file(b)
  PROVE  DependencyInv'
<1>1. /\ run[b].pc = "publish" /\ family = "network" /\ run[b].todo # <<>>
      /\ family' = family /\ inputs' = inputs /\ receipt' = receipt /\ returned' = returned
      /\ installed' = [installed EXCEPT ![Head(run[b].todo)] = Build(b)]
  BY DEF publish_file, InStage
<1>0. PICK r : r = [run[b] EXCEPT !.todo = Tail(run[b].todo)]
  OBVIOUS
<1>2. run' = [run EXCEPT ![b] = r]
  BY <1>0 DEF publish_file
<1>3. IsRun(r) /\ r.inputs = inputs /\ r.todo = Tail(run[b].todo) /\ r.pc = "publish"
  BY <1>0, <1>1, RunFacts, SetTodo DEF Same, RunFine
<1>4. run[b].todo \in Seq(FilesOf) /\ Tail(run[b].todo) \in Seq(FilesOf)
  BY <1>1, RunFacts DEF RunFine
<1>5. FilesOf' = FilesOf
  BY <1>1 DEF FilesOf, artifact_spec
<1>6. RunFine(r)'
  BY <1>1, <1>3, <1>4, <1>5 DEF RunFine
<1>7. installed' \in [FilesOf -> Builds]
  BY <1>1, BuildType, RunFacts
<1>8. Unmixed'
  BY <1>1 DEF Unmixed, Renamed
<1>9. Moved(b, r)
  BY <1>1, <1>2, <1>3, <1>6, <1>7, <1>8, RunFacts DEF Moved
<1> QED BY <1>9, MovedKeeps

(* The receipt comes last: the binary it stands beside is of the same pins,  *)
(* even when another builder has replaced it since.                          *)
LEMMA PublishReceiptKeeps ==
  ASSUME DependencyInv, NEW b \in Builders, publish_receipt(b)
  PROVE  DependencyInv'
<1>1. /\ run[b].pc = "publish" /\ run[b].pc # "idle" /\ family \in {"network", "qbe"} /\ run[b].todo = <<>>
      /\ family' = family /\ inputs' = inputs /\ receipt' = Build(b) /\ installed' = installed
      /\ End(b) /\ Report(b)
  BY DEF publish_receipt, InStage
<1>2. family # "network" => \A f \in FilesOf : installed'[f].inputs = inputs
  BY <1>1, Files, RunFacts DEF RunFine
<1>3. installed' \in [FilesOf -> Builds] /\ receipt' \in Builds
  BY <1>1, BuildType, RunFacts
<1>4. \/ returned' = returned
      \/ \E o \in Outcome : /\ returned' = [returned EXCEPT ![b] = o]
                            /\ family # "network" => \A x \in o.files : x.inputs = o.inputs
  BY <1>1, <1>2, <1>3, ReturnFacts
<1>5. Unmixed'
  BY <1>1 DEF Unmixed, Renamed
<1>6. Moved(b, NoRun)
  BY <1>1, <1>3, <1>4, <1>5, IdleRun DEF Moved, End
<1> QED BY <1>6, MovedKeeps

(* The compiler is replaced in one step.                                     *)
LEMMA PublishBinaryKeeps ==
  ASSUME DependencyInv, NEW b \in Builders, publish_binary(b)
  PROVE  DependencyInv'
<1>1. /\ run[b].pc = "publish" /\ run[b].pc # "idle" /\ family = "qbe"
      /\ family' = family /\ inputs' = inputs /\ receipt' = receipt /\ returned' = returned
      /\ installed' = [installed EXCEPT !["qbe"] = Build(b)]
  BY DEF publish_binary, InStage
<1>0. PICK r : r = [run[b] EXCEPT !.todo = <<>>]
  OBVIOUS
<1>2. run' = [run EXCEPT ![b] = r]
  BY <1>0 DEF publish_binary
<1>3. IsRun(r) /\ r.inputs = inputs /\ r.pc = "publish"
  BY <1>0, <1>1, RunFacts, SetTodo DEF Same, RunFine
<1>4. FilesOf' = FilesOf /\ FilesOf = {"qbe"}
  BY <1>1, Files DEF FilesOf, artifact_spec
<1>5. installed' \in [FilesOf -> Builds] /\ installed'["qbe"].inputs = inputs
  BY <1>1, <1>4, BuildType, RunFacts
<1>6. RunFine(r)'
  BY <1>1, <1>3, <1>5 DEF RunFine
<1>7. Unmixed'
  BY <1>1 DEF Unmixed, Renamed
<1>8. Moved(b, r)
  BY <1>1, <1>2, <1>3, <1>5, <1>6, <1>7, RunFacts DEF Moved
<1> QED BY <1>8, MovedKeeps

(* The source bundle: aside, in place or back, then the catalog.             *)
LEMMA SyncAsideKeeps ==
  ASSUME DependencyInv, NEW b \in Builders, sync_aside(b)
  PROVE  DependencyInv'
<1>1. /\ run[b].pc = "publish" /\ run[b].pc # "idle" /\ family = "sources"
      /\ family' = family /\ inputs' = inputs /\ receipt' = receipt /\ returned' = returned
      /\ installed' = [installed EXCEPT !["bundle"] = None]
  BY DEF sync_aside, InStage
<1>0. PICK q, r : q = [run[b] EXCEPT !.pc = "aside"] /\ r = [q EXCEPT !.seen = installed["bundle"]]
  OBVIOUS
<1>2. run' = [run EXCEPT ![b] = r]
  BY <1>0, RunFacts DEF sync_aside
<1>3. FilesOf' = FilesOf /\ FilesOf = {"bundle"} /\ None \in Builds
  BY <1>1, Files DEF FilesOf, artifact_spec, Builds
<1>4. IsRun(r) /\ r.inputs = inputs /\ r.pc = "aside"
  <2>1. IsRun(q) /\ q.inputs = inputs /\ q.pc = "aside"
    BY <1>0, <1>1, RunFacts, SetPc DEF Same, RunFine
  <2>2. PICK s \in Builds : s = installed["bundle"]
    BY <1>3, RunFacts
  <2> QED BY ZenonT(30), <1>0, <2>1, <2>2, SetSeen DEF Same
<1>5. installed' \in [FilesOf -> Builds]
  BY <1>1, <1>3, RunFacts
<1>6. RunFine(r)'
  BY <1>1, <1>4 DEF RunFine
<1>7. Unmixed' /\ b = Syncer
  BY <1>1, RunFacts DEF Unmixed, Renamed
<1>8. Moved(b, r)
  BY <1>1, <1>2, <1>4, <1>5, <1>6, <1>7, RunFacts DEF Moved
<1> QED BY <1>8, MovedKeeps

(* The bundle of official sources takes the place of the one set aside.      *)
LEMMA SyncBundleKeeps ==
  ASSUME DependencyInv, NEW b \in Builders, sync_bundle(b)
  PROVE  DependencyInv'
<1>1. /\ run[b].pc = "aside" /\ run[b].pc # "idle" /\ family = "sources"
      /\ family' = family /\ inputs' = inputs /\ receipt' = receipt /\ returned' = returned
  BY RunFacts DEF sync_bundle, InStage, RunFine
<1>2. FilesOf' = FilesOf /\ FilesOf = {"bundle"}
  BY <1>1, Files DEF FilesOf, artifact_spec
<1>3. Unmixed' /\ b = Syncer
  BY <1>1, RunFacts DEF Unmixed, Renamed
<1>4. CASE installed' = [installed EXCEPT !["bundle"] = Build(b)] /\ Goto(b, "catalog")
  <2>0. PICK r : r = [run[b] EXCEPT !.pc = "catalog"]
    OBVIOUS
  <2>1. run' = [run EXCEPT ![b] = r]
    BY <1>4, <2>0 DEF Goto
  <2>2. IsRun(r) /\ r.inputs = inputs /\ r.pc = "catalog"
    BY <1>1, <2>0, RunFacts, SetPc DEF Same, RunFine
  <2>3. installed' \in [FilesOf -> Builds] /\ installed'["bundle"].inputs = inputs
    BY <1>1, <1>2, <1>4, BuildType, RunFacts
  <2>4. RunFine(r)'
    BY <1>1, <2>2, <2>3 DEF RunFine
  <2>5. Moved(b, r)
    BY <1>1, <1>3, <2>1, <2>2, <2>3, <2>4, RunFacts DEF Moved
  <2> QED BY <2>5, MovedKeeps
<1>5. CASE installed' = [installed EXCEPT !["bundle"] = run[b].seen] /\ End(b)
  <2>1. installed' \in [FilesOf -> Builds]
    BY <1>2, <1>5, RunFacts DEF IsRun
  <2>2. Moved(b, NoRun)
    BY <1>1, <1>3, <1>5, <2>1, IdleRun, RunFacts DEF Moved, End
  <2> QED BY <2>2, MovedKeeps
<1> QED BY <1>4, <1>5 DEF sync_bundle

(* The catalogue is written last, for the bundle that is there.              *)
LEMMA SyncCatalogKeeps ==
  ASSUME DependencyInv, NEW b \in Builders, sync_catalog(b)
  PROVE  DependencyInv'
<1>1. /\ run[b].pc = "catalog" /\ run[b].pc # "idle" /\ family = "sources"
      /\ family' = family /\ inputs' = inputs /\ receipt' = Build(b) /\ installed' = installed
      /\ End(b) /\ Report(b)
  BY RunFacts DEF sync_catalog, InStage, RunFine
<1>2. family # "network" => \A f \in FilesOf : installed'[f].inputs = inputs
  BY <1>1, Files, RunFacts DEF RunFine
<1>3. installed' \in [FilesOf -> Builds] /\ receipt' \in Builds
  BY <1>1, BuildType, RunFacts
<1>4. \/ returned' = returned
      \/ \E o \in Outcome : /\ returned' = [returned EXCEPT ![b] = o]
                            /\ family # "network" => \A x \in o.files : x.inputs = o.inputs
  BY <1>1, <1>2, <1>3, ReturnFacts
<1>5. Unmixed' /\ b = Syncer
  BY <1>1, RunFacts DEF Unmixed, Renamed
<1>6. Moved(b, NoRun)
  BY <1>1, <1>3, <1>4, <1>5, IdleRun DEF Moved, End
<1> QED BY <1>6, MovedKeeps

(* The pins change between runs only, and a directory that would be refused  *)
(* is not there for the next one.                                            *)
LEMMA SwitchKeeps ==
  ASSUME DependencyInv, Switch
  PROVE  DependencyInv'
<1>1. /\ family' = family /\ run' = run /\ returned' = returned /\ inputs' \in 1..Inputs
      /\ \A b \in Builders : run[b].pc = "idle"
  BY DEF Switch, InStage
<1>2. FilesOf' = FilesOf /\ None \in Builds
  BY <1>1 DEF FilesOf, artifact_spec, Builds
<1>3. installed' \in [FilesOf -> Builds] /\ receipt' \in Builds /\ Unmixed'
  <2>1. CASE Renamed
    <3>1. installed' = [f \in FilesOf |-> None] /\ receipt' = None
      BY <2>1 DEF Switch
    <3> QED BY <1>2, <3>1 DEF Unmixed
  <2>2. CASE ~Renamed
    <3>1. installed' = installed /\ receipt' = receipt /\ ~Renamed'
      BY <1>1, <2>2 DEF Switch, place, Renamed
    <3> QED BY <3>1 DEF Unmixed, DependencyInv, DepTypes
  <2> QED BY <2>1, <2>2
<1>4. DepTypes'
  BY <1>1, <1>2, <1>3 DEF DependencyInv, DepTypes
<1>5. RunsFine'
  BY <1>1 DEF RunsFine, RunFine
<1>6. Returned'
  BY <1>1 DEF DependencyInv, Returned
<1> QED BY <1>3, <1>4, <1>5, <1>6 DEF DependencyInv

---------------------------------------------------------------------------
(* The theorems.                                                             *)

(* Nothing is installed and no builder runs.                                 *)
LEMMA InitHolds == Init => DependencyInv
<1> SUFFICES ASSUME Init PROVE DependencyInv
  OBVIOUS
<1>1. None \in Builds /\ inputs \in 1..Inputs /\ 0 \in 0..Inputs
  BY DependencyAssumption DEF Init, Builds
<1>2. family \in Families_ /\ installed \in [FilesOf -> Builds] /\ receipt \in Builds
  BY <1>1, DependencyAssumption DEF Init
<1>3. run = [b \in Builders |-> run[b]] /\ \A b \in Builders : run[b] = NoRun
  BY DEF Init
<1>4. returned \in [Builders -> Outcome] /\ \A b \in Builders : returned[b].files = {}
  <2>1. [inputs |-> 0, files |-> {}] \in Outcome /\ [inputs |-> 0, files |-> {}].files = {}
    BY <1>1 DEF Outcome
  <2> QED BY <2>1 DEF Init
<1>5. DepTypes
  BY <1>1, <1>2, <1>3, <1>4, IdleRun DEF DepTypes
<1>6. RunsFine
  BY <1>3, IdleRun DEF RunsFine
<1>7. Unmixed
  BY DEF Unmixed, Init
<1>8. Returned
  BY <1>4 DEF Returned
<1> QED BY <1>5, <1>6, <1>7, <1>8 DEF DependencyInv

(* Every step keeps the invariant.                                           *)
LEMMA StepHolds == DependencyInv /\ [Next]_vars => DependencyInv'
<1> SUFFICES ASSUME DependencyInv, [Next]_vars PROVE DependencyInv'
  OBVIOUS
<1>1. ASSUME NEW b \in Builders, Step(b) PROVE DependencyInv'
  BY <1>1, StartKeeps, CompareKeeps, FetchKeeps, CommandKeeps, PublishDirectoryKeeps, PublishPendingKeeps,
     PublishFileKeeps, PublishReceiptKeeps, PublishBinaryKeeps, SyncAsideKeeps, SyncBundleKeeps, SyncCatalogKeeps
     DEF Step
<1>2. ASSUME NEW b \in Builders, download_source(b) \/ CommandFails(b) \/ Killed(b) PROVE DependencyInv'
  BY <1>2, FetchKeeps, StopsKeep
<1>3. CASE UNCHANGED vars
  <2>1. Still /\ run' = run
    BY <1>3 DEF vars, Still
  <2>2. PICK b \in Builders : TRUE
    BY DependencyAssumption
  <2>3. run' = [run EXCEPT ![b] = run[b]]
    BY <2>1, RunFacts
  <2> QED BY <2>1, <2>3, RunFacts, StillMoves
<1> QED BY <1>1, <1>2, <1>3, SwitchKeeps DEF Next

(* Whatever the builders interleave, and wherever one is killed: all that    *)
(* run have the pins of the checkout, what is published for them is of these *)
(* pins, and a renamed directory holds one build.                            *)
THEOREM DependencyInvariant == Spec => []DependencyInv
BY InitHolds, StepHolds, PTL DEF Spec

(* What verify accepts is one whole build of the current pins, a directory   *)
(* renamed into place is never mixed, and the binary or bundle a run         *)
(* returned was made from the inputs of that run.                            *)
THEOREM InstallationIsOneBuild == Spec => []OneBuild
<1>1. DependencyInv => OneBuild
  <2> SUFFICES ASSUME DependencyInv PROVE OneBuild
    OBVIOUS
  <2>1. inputs \in 1..Inputs /\ receipt \in Builds
    BY DEF DependencyInv, DepTypes
  <2>2. verify => \E b \in Builders : \A f \in FilesOf : installed[f] = [inputs |-> inputs, by |-> b]
    <3> SUFFICES ASSUME verify PROVE \E b \in Builders : \A f \in FilesOf : installed[f] = [inputs |-> inputs, by |-> b]
      OBVIOUS
    <3>1. receipt.inputs = inputs /\ \A f \in FilesOf : installed[f] = receipt
      BY DEF verify
    <3>2. receipt # None
      BY <2>1, <3>1, DependencyAssumption DEF None
    <3>3. PICK b \in Builders : receipt = [inputs |-> receipt.inputs, by |-> b]
      BY <2>1, <3>2 DEF Builds
    <3> QED BY <3>1, <3>3
  <2>3. Renamed => Cardinality({installed[f] : f \in FilesOf} \cup {receipt}) = 1
    <3> SUFFICES ASSUME Renamed PROVE Cardinality({installed[f] : f \in FilesOf} \cup {receipt}) = 1
      OBVIOUS
    <3>1. {installed[f] : f \in FilesOf} \cup {receipt} = {receipt}
      BY DEF DependencyInv, Unmixed
    <3> QED BY <3>1, FS_Singleton
  <2> QED BY <2>2, <2>3 DEF OneBuild, DependencyInv, Returned
<1> QED BY <1>1, DependencyInvariant, PTL
(***************************************************************************)
(* The CI suite runner.                                                    *)
(***************************************************************************)
Process == {"none"} \cup Alive \cup Over

SuiteTypes ==
  /\ leader \in [Suites -> Process]
  /\ descendant \in [Suites -> {"none", "live", "deaf", "gone"}]
  /\ record \in [Suites -> {"pending", "running", "closing", "completed"}]
  /\ orphaned \subseteq Suites /\ stage_failed \subseteq Suites /\ groups \subseteq Suites
  /\ cancellation \in {"", "SIGINT", "SIGTERM"}
  /\ terminated \in {"none", "armed", "resolved"}
  /\ result \in {"", "SIGINT", "SIGTERM", "success", "failure"}

(* All suites start in one turn of the event loop, and nothing precedes it.  *)
StartedTogether ==
  \A s \in Suites : record[s] = "pending" =>
    /\ \A t \in Suites : record[t] = "pending" /\ leader[t] = "none" /\ descendant[t] = "none"
    /\ cancellation = "" /\ result = ""

(* A suite whose close event was handled has no leader left, and one that    *)
(* never had a leader has no descendant.                                     *)
LeadersOver ==
  \A s \in Suites :
    /\ record[s] \in {"closing", "completed"} => leader[s] \in Over
    /\ leader[s] \in {"none", "lost"} => descendant[s] = "none"

(* Whatever is alive is in a group the runner still owns.                    *)
AliveOwned == \A s \in Suites : GroupAlive(s) => s \in groups

(* The two ways in which a group becomes empty for good: its suite completes *)
(* while the run is not cancelled, or the timer of the cancellation fires.   *)
CompletedEmpty ==
  /\ cancellation = "" => \A s \in Suites : record[s] = "completed" => ~GroupAlive(s)
  /\ terminated = "resolved" => \A s \in Suites : ~GroupAlive(s)
  /\ terminated = "none" <=> cancellation = ""

(* What Return has found.                                                    *)
ResultFound ==
  result # "" =>
    /\ AllClosed /\ terminated # "armed"
    /\ result = "success" => orphaned = {} /\ \A s \in Suites : leader[s] = "zero"

SuitesInv ==
  SuiteTypes /\ StartedTogether /\ LeadersOver /\ AliveOwned /\ CompletedEmpty /\ ResultFound

USE DEF Process, Alive, Over, GroupAlive

---------------------------------------------------------------------------

(* Before any suite is spawned.                                              *)
LEMMA SuitesInitially == SuitesInit => SuitesInv
BY DEF SuitesInit, SuitesInv, SuiteTypes, StartedTogether, LeadersOver, AliveOwned,
       CompletedEmpty, ResultFound

(* What a signal to the groups G leaves: processes only ended, and SIGKILL   *)
(* leaves none of G.                                                         *)
OnlyEnded(G, signal) ==
  /\ leader' \in [Suites -> Process]
  /\ descendant' \in [Suites -> {"none", "live", "deaf", "gone"}]
  /\ \A s \in Suites :
       /\ leader'[s] # leader[s] => leader'[s] = "signalled" /\ leader[s] \in Alive
       /\ descendant'[s] # descendant[s] => descendant'[s] = "gone" /\ descendant[s] \in Alive
       /\ signal = "KILL" /\ s \in G => ~GroupAlive(s)'

(* A signal to groups only ends processes.                                   *)
LEMMA SignalEnds ==
  ASSUME SuiteTypes, NEW G, NEW signal, signalGroup(G, signal)
  PROVE  OnlyEnded(G, signal)
BY DEF SuiteTypes, signalGroup, Hit, OnlyEnded

(* A leader that is over stays over, and has no unowned descendants.         *)
LEMMA LeadersStayOver ==
  ASSUME LeadersOver, NEW G, NEW signal, OnlyEnded(G, signal), NEW t \in Suites
  PROVE  /\ leader[t] \in Over => leader'[t] \in Over
         /\ leader'[t] \in {"none", "lost"} => descendant'[t] = "none"
<1>1. leader[t] \in Over => leader'[t] = leader[t]
  BY DEF OnlyEnded
<1>2. leader'[t] \in {"none", "lost"} => leader'[t] = leader[t]
  BY DEF OnlyEnded
<1>3. descendant[t] = "none" => descendant'[t] = "none"
  BY DEF OnlyEnded
<1> QED BY <1>1, <1>2, <1>3 DEF LeadersOver

(* The spawns, some of which may fail.                                       *)
LEMMA StartStep == SuitesInv /\ StartSuites => SuitesInv'
<1> SUFFICES ASSUME SuitesInv, StartSuites PROVE SuitesInv'
  OBVIOUS
<1>1. PICK spawned \in SUBSET Suites :
        /\ leader' = [s \in Suites |-> IF s \in spawned THEN "live" ELSE "lost"]
        /\ groups' = spawned
  BY DEF StartSuites
<1>2. \A s \in Suites : descendant[s] = "none"
  BY DEF SuitesInv, StartedTogether, StartSuites
<1>3. SuiteTypes'
  BY <1>1 DEF SuitesInv, SuiteTypes, StartSuites
<1>4. StartedTogether' /\ LeadersOver' /\ AliveOwned'
  BY <1>1, <1>2 DEF StartSuites, StartedTogether, LeadersOver, AliveOwned
<1>5. CompletedEmpty' /\ ResultFound'
  BY <1>1, <1>2 DEF SuitesInv, StartSuites, StartedTogether, CompletedEmpty, ResultFound, AllClosed
<1> QED BY <1>3, <1>4, <1>5 DEF SuitesInv

(* Whatever the suites do by themselves.                                     *)
LEMMA SuiteStep ==
  ASSUME NEW s \in Suites, SuitesInv,
         SuiteForks(s) \/ SuiteIgnores(s) \/ SuiteExits(s) \/ DescendantExits(s)
  PROVE  SuitesInv'
<1> USE DEF SuitesInv, SuiteTypes, StartedTogether, LeadersOver, AliveOwned, CompletedEmpty,
            ResultFound, AllClosed
<1>1. CASE SuiteForks(s)
  <2>1. record[s] \in {"pending", "running"} /\ s \in groups
    BY <1>1 DEF SuiteForks
  <2> QED BY <1>1, <2>1 DEF SuiteForks
<1>2. CASE SuiteIgnores(s)
  BY ZenonT(30), <1>2 DEF SuiteIgnores
<1>3. CASE SuiteExits(s)
  <2>1. PICK code \in {"zero", "nonzero"} : leader' = [leader EXCEPT ![s] = code]
    BY <1>3 DEF SuiteExits
  <2>2. record[s] \in {"pending", "running"} => result = ""
    OBVIOUS
  <2> QED BY ZenonT(30), <1>3, <2>1, <2>2 DEF SuiteExits
<1>4. CASE DescendantExits(s)
  BY <1>4 DEF DescendantExits
<1> QED BY <1>1, <1>2, <1>3, <1>4

(* SIGINT or SIGTERM to the runner.                                          *)
LEMMA CancelStep ==
  ASSUME SuitesInv, NEW signal \in {"SIGINT", "SIGTERM"}, cancel(signal)
  PROVE  SuitesInv'
<1>1. OnlyEnded(groups, "TERM")
  BY SignalEnds DEF SuitesInv, cancel
<1>2. SuiteTypes'
  BY <1>1 DEF OnlyEnded, SuitesInv, SuiteTypes, cancel
<1>3. StartedTogether' /\ LeadersOver'
  BY <1>1 DEF OnlyEnded, SuitesInv, StartedTogether, LeadersOver, cancel, Installed
<1>4. AliveOwned'
  BY <1>1 DEF OnlyEnded, SuitesInv, AliveOwned, cancel
<1>5. CompletedEmpty' /\ ResultFound'
  BY DEF CompletedEmpty, ResultFound, cancel, Installed
<1> QED BY <1>2, <1>3, <1>4, <1>5 DEF SuitesInv

(* The timer that kills what a cancellation left.                            *)
LEMMA TimerStep == SuitesInv /\ CancelTimer => SuitesInv'
<1> SUFFICES ASSUME SuitesInv, CancelTimer PROVE SuitesInv'
  OBVIOUS
<1>1. OnlyEnded(groups, "KILL")
  BY SignalEnds DEF SuitesInv, CancelTimer, Timer
<1> QED
  BY ZenonT(30), <1>1 DEF OnlyEnded, SuitesInv, SuiteTypes, StartedTogether, LeadersOver, AliveOwned,
     CompletedEmpty, ResultFound, AllClosed, CancelTimer, Timer

(* The close event of a suite.                                               *)
LEMMA CloseStep ==
  ASSUME NEW s \in Suites, SuitesInv, close(s)
  PROVE  SuitesInv'
<1> DEFINE waits == cancellation = "" /\ leader[s] # "lost" /\ GroupAlive(s)
<1>0. record[s] = "running" /\ result = ""
  BY DEF SuitesInv, ResultFound, AllClosed, close
<1>1. CASE waits
  <2>1. OnlyEnded({s}, "TERM")
    BY <1>1, SignalEnds DEF SuitesInv, close
  <2>0. /\ orphaned' = orphaned \cup {s} /\ record' = [record EXCEPT ![s] = "closing"]
        /\ leader[s] \in Over
        /\ UNCHANGED <<stage_failed, groups, cancellation, terminated, result>>
    BY <1>1 DEF close
  <2>2. SuiteTypes'
    BY <2>0, <2>1 DEF OnlyEnded, SuitesInv, SuiteTypes
  <2>3. StartedTogether'
    BY <2>0, <1>0 DEF SuitesInv, SuiteTypes, StartedTogether
  <2>4. LeadersOver'
    BY <2>0, <2>1, LeadersStayOver DEF SuitesInv, SuiteTypes, LeadersOver
  <2>5. AliveOwned' /\ CompletedEmpty'
    BY ZenonT(30), <2>0, <2>1 DEF OnlyEnded, SuitesInv, SuiteTypes, AliveOwned, CompletedEmpty
  <2> QED BY <1>0, <2>0, <2>2, <2>3, <2>4, <2>5 DEF SuitesInv, ResultFound
<1>2. CASE ~waits
  <2>1. /\ groups' = IF cancellation = "" THEN groups \ {s} ELSE groups
        /\ Completes(s)
        /\ UNCHANGED <<leader, descendant, orphaned, cancellation, terminated, result>>
    BY <1>2 DEF close
  <2>2. SuiteTypes' /\ StartedTogether' /\ LeadersOver'
    BY <1>0, <2>1 DEF SuitesInv, SuiteTypes, StartedTogether, LeadersOver, close, Completes
  <2>3. cancellation = "" => ~GroupAlive(s)
    BY <1>2 DEF SuitesInv, LeadersOver
  <2>4. AliveOwned' /\ CompletedEmpty'
    BY <2>1, <2>3 DEF SuitesInv, SuiteTypes, AliveOwned, CompletedEmpty, Completes
  <2> QED BY <1>0, <2>1, <2>2, <2>4 DEF SuitesInv, ResultFound
<1> QED BY <1>1, <1>2

(* The grace period of a suite that left descendants is over.                *)
LEMMA GraceStep ==
  ASSUME NEW s \in Suites, SuitesInv, GraceOver(s)
  PROVE  SuitesInv'
<1>0. record[s] = "closing" /\ result = ""
  BY DEF SuitesInv, ResultFound, AllClosed, GraceOver
<1>1. OnlyEnded({s}, "KILL")
  BY SignalEnds DEF SuitesInv, GraceOver
<1>2. /\ groups' = IF cancellation = "" THEN groups \ {s} ELSE groups
      /\ Completes(s)
      /\ UNCHANGED <<orphaned, cancellation, terminated, result>>
  BY DEF GraceOver
<1>3. SuiteTypes' /\ StartedTogether' /\ LeadersOver'
  <2>1. SuiteTypes'
    BY <1>1, <1>2 DEF OnlyEnded, SuitesInv, SuiteTypes, Completes
  <2>2. StartedTogether'
    BY <1>0, <1>1, <1>2 DEF OnlyEnded, SuitesInv, SuiteTypes, StartedTogether, Completes
  <2>3. LeadersOver'
    BY <1>0, <1>1, <1>2, LeadersStayOver DEF SuitesInv, SuiteTypes, LeadersOver, Completes
  <2> QED BY <2>1, <2>2, <2>3
<1>4. AliveOwned' /\ CompletedEmpty'
  BY ZenonT(30), <1>1, <1>2 DEF OnlyEnded, SuitesInv, SuiteTypes, AliveOwned, CompletedEmpty, Completes
<1> QED BY <1>0, <1>2, <1>3, <1>4 DEF SuitesInv, ResultFound

(* The runner returns its result.                                            *)
LEMMA ReturnStep == SuitesInv /\ Return => SuitesInv'
BY ZenonT(30) DEF SuitesInv, SuiteTypes, StartedTogether, LeadersOver, AliveOwned, CompletedEmpty,
       ResultFound, AllClosed, Return

---------------------------------------------------------------------------

(* The inductive invariant of the suite runner.                              *)
LEMMA SuitesInvariance == SuitesSpec => []SuitesInv
<1>1. SuitesInv /\ [SuitesNext]_suite_vars => SuitesInv'
  <2> SUFFICES ASSUME SuitesInv, [SuitesNext]_suite_vars PROVE SuitesInv'
    OBVIOUS
  <2>1. CASE UNCHANGED suite_vars
    BY <2>1 DEF SuitesInv, SuiteTypes, StartedTogether, LeadersOver, AliveOwned, CompletedEmpty,
       ResultFound, AllClosed, suite_vars
  <2> QED
    BY <2>1, StartStep, SuiteStep, CancelStep, TimerStep, CloseStep, GraceStep, ReturnStep
    DEF SuitesNext
<1> QED BY SuitesInitially, <1>1, PTL DEF SuitesSpec

(* For any number of suites: when runSuites returns no process of a suite is *)
(* left, and success means that all ended with zero and left nothing behind. *)
THEOREM NoSuiteIsLeft == SuitesSpec => []NoSuiteLeft
<1>1. SuitesInv => NoSuiteLeft
  BY DEF SuitesInv, SuiteTypes, CompletedEmpty, ResultFound, AllClosed, NoSuiteLeft, SuitesEnded
<1> QED BY SuitesInvariance, <1>1, PTL

---------------------------------------------------------------------------
(* A set of numbers that is not empty has a least one.                       *)
LEMMA LeastNumber ==
  ASSUME NEW T \in SUBSET Nat, T # {}
  PROVE  \E x \in T : \A y \in T : x <= y
<1>1. PICK x \in T : ~ \E y \in T : <<y, x>> \in OpToRel(<, Nat)
  BY NatLessThanWellFounded, WFMin, Zenon
<1>2. \A y \in T : ~ (y < x)
  BY <1>1, Zenon DEF OpToRel
<1> QED BY <1>2

(* Induction over the numbers that have a property.                          *)
LEMMA Numbers ==
  ASSUME NEW S \in SUBSET Nat, 0 \in S, \A n \in S : n + 1 \in S
  PROVE  S = Nat
<1> SUFFICES ASSUME S # Nat PROVE FALSE
  OBVIOUS
<1> DEFINE T == Nat \ S
<1>1. T \in SUBSET Nat /\ T # {}
  OBVIOUS
<1>2. PICK x \in T : \A y \in T : x <= y
  <2> HIDE DEF T
  <2> QED BY <1>1, LeastNumber
<1>3. x - 1 \in Nat /\ x - 1 \notin T
  BY <1>2
<1> QED BY <1>3

---------------------------------------------------------------------------
(***************************************************************************)
(* The acceptance drivers.                                                 *)
(***************************************************************************)
Session == [state : {"live", "exited", "killed"}, helper : BOOLEAN, marked : BOOLEAN, kind : Words]

DriverTypes ==
  /\ driver \in DOMAIN Script /\ flags \in OptionSets /\ pc \in Nat \ {0}
  /\ scopes \in Seq(Words) /\ raising \in BOOLEAN
  /\ command \in {"none", "live", "ok", "bad"} /\ sessions \in Seq(Session)
  /\ fresh \subseteq STRING /\ outcome \in {"running", "passed", "failed"}

(* A command is run only at a command step, and executes what is fresh.      *)
CommandExpected ==
  command # "none" => At("command") /\ step.uses \in fresh \cup {"none"}

(* While the driver has not raised, it is where its outline says, and holds  *)
(* what the outline names.  The finally block of a pair may have reaped one  *)
(* of its sessions already.                                                  *)
Now == Outline[driver][flags][pc]
Kinds == [i \in DOMAIN sessions |-> sessions[i].kind]
AsOutlined ==
  outcome = "running" /\ ~raising =>
    /\ pc \in DOMAIN Outline[driver][flags]
    /\ scopes = Now.scopes /\ Now.built \subseteq fresh
    /\ IF At("end") THEN Len(sessions) <= Len(Now.open) ELSE Kinds = Now.open

(* Once it has raised, the scopes it is still in deal with every session.    *)
Unwinding == outcome = "running" /\ raising => Sheltered(scopes, Kinds)

(* Only a driver that raises leaves a descendant of a process behind.        *)
StrayRaises == stray => raising

DriverGone ==
  outcome # "running" =>
    /\ command = "none" /\ sessions = <<>>
    /\ outcome = "passed" => ~raising

DriversInv ==
  DriverTypes /\ CommandExpected /\ AsOutlined /\ Unwinding /\ StrayRaises /\ DriverGone

---------------------------------------------------------------------------
(* What a running driver relies on at the step it has come to.               *)
LEMMA Expected ==
  ASSUME DriverTypes, AsOutlined, Running
  PROVE  /\ pc \in 1 .. Len(script) /\ step \in Steps /\ Now \in Expectations
         /\ scopes = Now.scopes /\ Now.built \subseteq fresh
         /\ step.op # "end" => Kinds = Now.open
         /\ step.op = "end" => Len(sessions) <= Len(Now.open)
         /\ Needs(step, Now)
<1> DEFINE f == Outline[driver][flags]
<1>1. script \in Seq(Steps) /\ Outlines(script, flags, f)
  BY DriversAssumption DEF DriverTypes, script
<1>2. pc \in DOMAIN f /\ scopes = Now.scopes /\ Now.built \subseteq fresh /\ Now = f[pc]
  BY DEF AsOutlined, Running, Now
<1>3. pc \in 1 .. Len(script) /\ f[pc] \in Expectations /\ Needs(script[pc], f[pc])
  BY <1>1, <1>2 DEF Outlines, Running, AtEnd
<1>4. step \in Steps
  BY <1>1, <1>3 DEF step
<1>5. IF At("end") THEN Len(sessions) <= Len(Now.open) ELSE Kinds = Now.open
  BY DEF AsOutlined, Running
<1>6. At("end") <=> step.op = "end"
  BY DEF At, step
<1> HIDE DEF f
<1> QED BY <1>2, <1>3, <1>4, <1>5, <1>6 DEF step

(* The next step is one the outline names, with what it names.               *)
LEMMA Advanced ==
  ASSUME DriverTypes, AsOutlined, Running, UNCHANGED rigid,
         NEW q \in Following(step, pc, flags), NEW after, after = After(step, Now),
         pc' = q, scopes' = after.scopes, after.built \subseteq fresh',
         sessions' \in Seq(Session), Kinds' = after.open
  PROVE  AsOutlined'
<1> DEFINE f == Outline[driver][flags]
<1>1. Outlines(script, flags, f)
  BY DriversAssumption DEF DriverTypes, script
<1>2. pc \in DOMAIN f /\ Now = f[pc]
  BY DEF AsOutlined, Running, Now
<1>3. pc # Len(script) + 1
  BY <1>1, <1>2 DEF Running, AtEnd, Outlines
<1>4. /\ q \in DOMAIN f
      /\ f[q].scopes = after.scopes /\ f[q].open = after.open /\ f[q].built \subseteq after.built
  BY <1>1, <1>2, <1>3 DEF Outlines, step
<1>5. Now' = f[q]
  BY DEF rigid, Now
<1>6. Len(sessions') = Len(Kinds')
  BY DEF Kinds
<1>7. Now'.open = Kinds' /\ Len(sessions') = Len(Now'.open)
  BY <1>4, <1>5, <1>6
<1>8. Outline[driver'][flags'] = f
  BY DEF rigid
<1>9. (At("end"))' \in BOOLEAN
  BY DEF At, Running
<1>10. pc' \in DOMAIN Outline[driver'][flags'] /\ scopes' = Now'.scopes /\ Now'.built \subseteq fresh'
  BY <1>4, <1>5, <1>8
<1>11. Len(Now'.open) \in Nat
  BY <1>7
<1> HIDE DEF f
<1> QED BY <1>7, <1>10, <1>11 DEF AsOutlined

(* A driver that goes on without touching a session.                         *)
LEMMA GoesOn ==
  ASSUME DriversInv, Running, UNCHANGED rigid, Goes, sessions' = sessions,
         step.op \in {"command", "write", "assert", "verdict", "listen"},
         NEW built, built = After(step, Now).built, built \subseteq fresh'
  PROVE  AsOutlined'
<1>1. DriverTypes /\ AsOutlined
  BY DEF DriversInv
<1>2. step.op # "end" /\ Kinds = Now.open /\ scopes = Now.scopes /\ pc \in Nat
  BY <1>1, Expected DEF DriverTypes
<1>3. pc' = pc + 1 /\ pc + 1 \in Following(step, pc, flags) /\ scopes' = scopes
  BY <1>2 DEF Goes, Following
<1>4. PICK after : after = After(step, Now)
  OBVIOUS
<1>5. after.scopes = Now.scopes /\ after.open = Now.open /\ after.built = built
  BY <1>4 DEF After, Collecting
<1>6. Kinds' = Kinds /\ sessions' \in Seq(Session)
  BY <1>1 DEF Kinds, DriverTypes
<1>7. scopes' = after.scopes /\ Kinds' = after.open /\ after.built \subseteq fresh'
  BY <1>2, <1>3, <1>5, <1>6
<1> QED BY <1>1, <1>3, <1>4, <1>6, <1>7, Advanced

(* A driver that raises at a step finds every session sheltered.             *)
LEMMA RaisedSheltered ==
  ASSUME DriversInv, Running
  PROVE  /\ step.op \in Keeping => Sheltered(scopes, Kinds) /\ Kinds = Now.open
         /\ step.op \in Collecting => Sheltered(scopes, Tail(Kinds)) /\ Kinds = Now.open
<1>1. DriverTypes /\ AsOutlined
  BY DEF DriversInv
<1>2. step.op \in Keeping \cup Collecting =>
        step.op # "end" /\ scopes = Now.scopes /\ Needs(step, Now) /\ Kinds = Now.open
  BY <1>1, Expected DEF Collecting, Keeping
<1> QED BY <1>2 DEF Needs

(* The kinds of sessions that change but for their kind, of the sessions but *)
(* the oldest, and of the sessions and a new one.                            *)
LEMMA KindsAre ==
  ASSUME sessions \in Seq(Session)
  PROVE  /\ Kinds \in Seq(Words) /\ Len(Kinds) = Len(sessions)
         /\ sessions # <<>> => /\ Tail(sessions) \in Seq(Session)
                               /\ sessions' = Tail(sessions) => Kinds' = Tail(Kinds)
<1>1. Kinds \in Seq(Words) /\ Len(Kinds) = Len(sessions)
  <2>1. DOMAIN sessions = 1 .. Len(sessions) /\ Len(sessions) \in Nat
    OBVIOUS
  <2>2. \A i \in DOMAIN sessions : sessions[i] \in Session
    OBVIOUS
  <2>3. \A i \in DOMAIN sessions : sessions[i].kind \in Words
    BY <2>2 DEF Session
  <2> QED BY <2>1, <2>3 DEF Kinds
<1>2. ASSUME sessions # <<>>, sessions' = Tail(sessions)
      PROVE  Kinds' = Tail(Kinds)
  <2>1. Kinds' \in Seq(Words) /\ Len(Kinds') = Len(sessions) - 1
    <3>1. /\ DOMAIN sessions' = 1 .. Len(sessions) - 1 /\ Len(sessions) - 1 \in Nat
          /\ \A i \in DOMAIN sessions' : sessions'[i] \in Session
      BY <1>2
    <3>2. \A i \in DOMAIN sessions' : sessions'[i].kind \in Words
      BY <3>1 DEF Session
    <3> QED BY <3>1, <3>2 DEF Kinds
  <2>2. \A i \in 1 .. Len(sessions) - 1 : Kinds'[i] = Tail(Kinds)[i]
    BY <1>1, <1>2 DEF Kinds
  <2>3. Tail(Kinds) \in Seq(Words) /\ Len(Tail(Kinds)) = Len(sessions) - 1
    <3>1. Kinds # <<>>
      BY <1>1, <1>2
    <3> QED BY <1>1, <3>1
  <2> QED BY <2>1, <2>2, <2>3, SeqEqual
<1> QED BY <1>1, <1>2

LEMMA KindsKept ==
  ASSUME sessions \in Seq(Session), NEW i \in DOMAIN sessions,
         \/ \E e \in BOOLEAN : sessions' = [sessions EXCEPT ![i].helper = e]
         \/ \E e \in BOOLEAN : sessions' = [sessions EXCEPT ![i].marked = e]
         \/ \E e \in {"live", "exited", "killed"} : sessions' = [sessions EXCEPT ![i].state = e]
  PROVE  sessions' \in Seq(Session) /\ Len(sessions') = Len(sessions) /\ Kinds' = Kinds
<1>1. PICK r \in Session : sessions' = [sessions EXCEPT ![i] = r] /\ r.kind = sessions[i].kind
  <2>1. sessions[i] \in Session
    OBVIOUS
  <2>2. CASE \E e \in BOOLEAN : sessions' = [sessions EXCEPT ![i].helper = e]
    <3>1. PICK e \in BOOLEAN : sessions' = [sessions EXCEPT ![i].helper = e]
      BY <2>2
    <3>2. [sessions[i] EXCEPT !.helper = e] \in Session /\ [sessions[i] EXCEPT !.helper = e].kind = sessions[i].kind
      BY <2>1 DEF Session
    <3> QED BY <3>1, <3>2
  <2>3. CASE \E e \in BOOLEAN : sessions' = [sessions EXCEPT ![i].marked = e]
    <3>1. PICK e \in BOOLEAN : sessions' = [sessions EXCEPT ![i].marked = e]
      BY <2>3
    <3>2. [sessions[i] EXCEPT !.marked = e] \in Session /\ [sessions[i] EXCEPT !.marked = e].kind = sessions[i].kind
      BY <2>1 DEF Session
    <3> QED BY <3>1, <3>2
  <2>4. CASE \E e \in {"live", "exited", "killed"} : sessions' = [sessions EXCEPT ![i].state = e]
    <3>1. PICK e \in {"live", "exited", "killed"} : sessions' = [sessions EXCEPT ![i].state = e]
      BY <2>4
    <3>2. [sessions[i] EXCEPT !.state = e] \in Session /\ [sessions[i] EXCEPT !.state = e].kind = sessions[i].kind
      BY <2>1 DEF Session
    <3> QED BY <3>1, <3>2
  <2> QED BY <2>2, <2>3, <2>4
<1>2. sessions' \in Seq(Session) /\ Len(sessions') = Len(sessions)
  BY <1>1, ExceptSeq
<1>3. DOMAIN sessions' = DOMAIN sessions /\ \A j \in DOMAIN sessions : sessions'[j].kind = sessions[j].kind
  BY <1>1
<1> QED BY <1>2, <1>3 DEF Kinds

(* What keeps the control and the sessions keeps what is expected of them.   *)
LEMMA Unmoved ==
  ASSUME DriversInv, UNCHANGED <<rigid, pc, scopes, raising, outcome>>,
         fresh \subseteq fresh', Kinds' = Kinds, Len(sessions') = Len(sessions)
  PROVE  AsOutlined' /\ Unwinding'
<1>1. UNCHANGED <<driver, flags, pc, scopes, raising, outcome>>
  BY DEF rigid
<1>2. Now' = Now /\ (At("end") <=> (At("end"))')
  BY <1>1 DEF Now, At, Running, AtEnd, script, step
<1>3. AsOutlined'
  <2>1. outcome = "running" /\ ~raising => (AsOutlined => AsOutlined')
    BY <1>1, <1>2 DEF AsOutlined
  <2> QED BY <1>1, <2>1 DEF DriversInv, AsOutlined
<1>4. Unwinding'
  BY <1>1 DEF DriversInv, Unwinding
<1> QED BY <1>3, <1>4

(* A process the driver started does something.                              *)
LEMMA ProcessSteps ==
  ASSUME DriversInv, Processes
  PROVE  DriversInv'
<1>1. /\ UNCHANGED <<rigid, pc, scopes, raising, fresh, stray, outcome>>
      /\ command' # command => command = "live" /\ command' \in {"ok", "bad"}
  BY DEF Processes, CommandForks, CommandExits, HelperExits, SessionForks, SessionExits
<1>2. sessions \in Seq(Session)
  BY DEF DriversInv, DriverTypes
<1>3. sessions' = sessions \/ \E i \in DOMAIN sessions :
        \/ \E e \in BOOLEAN : sessions' = [sessions EXCEPT ![i].helper = e]
        \/ \E e \in {"live", "exited", "killed"} : sessions' = [sessions EXCEPT ![i].state = e]
  <2>1. CASE CommandForks \/ CommandExits
    BY <2>1 DEF CommandForks, CommandExits
  <2>2. CASE HelperExits
    <3>1. sessions' = sessions \/ \E i \in DOMAIN sessions : sessions' = [sessions EXCEPT ![i].helper = FALSE]
      BY <2>2 DEF HelperExits
    <3> QED BY <3>1, FALSE \in BOOLEAN, Zenon
  <2>3. ASSUME NEW i \in DOMAIN sessions, SessionForks(i)
        PROVE  \E e \in BOOLEAN : sessions' = [sessions EXCEPT ![i].helper = e]
    BY <2>3, TRUE \in BOOLEAN, Zenon DEF SessionForks
  <2>4. ASSUME NEW i \in DOMAIN sessions, SessionExits(i)
        PROVE  \E e \in {"live", "exited", "killed"} : sessions' = [sessions EXCEPT ![i].state = e]
    <3>1. sessions' = [sessions EXCEPT ![i].state = "exited"]
      BY <2>4, Zenon DEF SessionExits
    <3>2. "exited" \in {"live", "exited", "killed"}
      OBVIOUS
    <3> QED BY <3>1, <3>2, Zenon
  <2> QED BY <2>1, <2>2, <2>3, <2>4, Zenon DEF Processes
<1>4. sessions' \in Seq(Session) /\ Len(sessions') = Len(sessions) /\ Kinds' = Kinds
  <2>1. CASE sessions' = sessions
    BY <1>2, <2>1 DEF Kinds
  <2>2. CASE sessions' # sessions
    <3>1. PICK i \in DOMAIN sessions :
            \/ \E e \in BOOLEAN : sessions' = [sessions EXCEPT ![i].helper = e]
            \/ \E e \in {"live", "exited", "killed"} : sessions' = [sessions EXCEPT ![i].state = e]
      BY <1>3, <2>2
    <3> QED BY <1>2, <3>1, KindsKept
  <2> QED BY <2>1, <2>2
<1>5. UNCHANGED <<driver, flags>>
  BY <1>1 DEF rigid
<1>6. DriverTypes'
  BY <1>1, <1>4, <1>5 DEF DriversInv, DriverTypes
<1>7. CommandExpected'
  <2>1. step' = step /\ (At("command") <=> (At("command"))')
    BY <1>1, <1>5 DEF At, Running, AtEnd, script, step
  <2>2. command' # "none" => command # "none"
    BY <1>1
  <2> QED BY <1>1, <2>1, <2>2 DEF DriversInv, CommandExpected
<1>8. AsOutlined' /\ Unwinding'
  BY <1>1, <1>4, Unmoved
<1>9. StrayRaises' /\ DriverGone'
  <2>1. sessions = <<>> => sessions' = <<>>
    BY <1>3
  <2> QED BY <1>1, <2>1 DEF DriversInv, StrayRaises, DriverGone
<1> QED BY <1>6, <1>7, <1>8, <1>9 DEF DriversInv

LEMMA DriversInitially ==
  ASSUME DriversInit
  PROVE  DriversInv
<1>1. /\ pc = 1 /\ scopes = <<>> /\ ~raising /\ command = "none" /\ sessions = <<>>
      /\ fresh = {} /\ ~stray /\ outcome = "running" /\ raising \in BOOLEAN
      /\ driver \in DOMAIN Script /\ flags \in OptionSets
  BY DEF DriversInit
<1>2. sessions \in Seq(Session) /\ scopes \in Seq(Words)
  BY <1>1
<1>3. DriverTypes
  BY <1>1, <1>2 DEF DriverTypes
<1>4. AsOutlined
  <2>1. Outlines(script, flags, Outline[driver][flags])
    BY <1>1, DriversAssumption DEF script
  <2>2. pc \in DOMAIN Outline[driver][flags] /\ Now = Nothing
    BY <1>1, <2>1 DEF Outlines, Now
  <2>3. Kinds = <<>> /\ Len(sessions) = 0
    BY <1>1 DEF Kinds
  <2>4. Now.scopes = <<>> /\ Now.open = <<>> /\ Now.built = {} /\ Len(Now.open) = 0
    BY <2>2 DEF Nothing
  <2> QED BY <1>1, <2>2, <2>3, <2>4 DEF AsOutlined
<1> QED BY <1>1, <1>3, <1>4 DEF DriversInv, CommandExpected, Unwinding, StrayRaises, DriverGone

---------------------------------------------------------------------------
(* A running driver has left nothing behind, and types what it holds.        *)
LEMMA RunningClean ==
  ASSUME DriversInv, Running
  PROVE  /\ ~stray /\ ~raising /\ outcome = "running"
         /\ step \in Steps /\ pc + 1 \in Nat \ {0} /\ pc \in Nat
         /\ sessions \in Seq(Session) /\ fresh \subseteq STRING /\ scopes \in Seq(Words)
         /\ scopes = Now.scopes /\ Now.built \subseteq fresh /\ Needs(step, Now)
         /\ step.op # "end" => Kinds = Now.open
<1>1. DriverTypes /\ AsOutlined /\ StrayRaises
  BY DEF DriversInv
<1>2. ~raising /\ outcome = "running" /\ ~stray
  BY <1>1 DEF Running, StrayRaises
<1> QED BY <1>1, <1>2, Expected DEF DriverTypes

(* A driver that raises and keeps its sessions.                              *)
LEMMA RaisesKeeps ==
  ASSUME DriversInv, Running, Raises, UNCHANGED <<rigid, sessions, outcome>>, command' = "none",
         step.op \in Keeping, fresh' \subseteq STRING
  PROVE  DriversInv'
<1>1. raising' /\ outcome' = "running" /\ sessions' = sessions /\ scopes' = scopes /\ pc' = pc
      /\ driver' = driver /\ flags' = flags /\ raising' \in BOOLEAN
  BY RunningClean DEF Raises, rigid
<1>2. DriverTypes'
  BY <1>1 DEF DriversInv, DriverTypes
<1>3. Unwinding'
  <2>1. Kinds' = Kinds
    BY <1>1 DEF Kinds
  <2> QED BY <1>1, <2>1, RaisedSheltered DEF Unwinding
<1> QED BY <1>1, <1>2, <1>3 DEF DriversInv, CommandExpected, AsOutlined, StrayRaises, DriverGone

(* A driver that goes on, no command being under way.                        *)
LEMMA GoesKeeps ==
  ASSUME DriversInv, Running, AsOutlined', UNCHANGED <<rigid, raising, outcome>>, ~stray', command' = "none",
         pc' \in Nat \ {0}, scopes' \in Seq(Words), sessions' \in Seq(Session), fresh' \subseteq STRING
  PROVE  DriversInv'
<1>1. ~raising' /\ ~stray' /\ outcome' = "running" /\ driver' = driver /\ flags' = flags
  BY RunningClean DEF rigid
<1>2. DriverTypes'
  BY <1>1 DEF DriversInv, DriverTypes
<1> QED BY <1>1, <1>2 DEF DriversInv, CommandExpected, Unwinding, StrayRaises, DriverGone

(* Commands.                                                                 *)
LEMMA SpawnStep ==
  ASSUME DriversInv, Spawn
  PROVE  DriversInv'
<1>1. /\ Running /\ step.op = "command" /\ command = "none" /\ UNCHANGED <<rigid, sessions, fresh, stray, outcome>>
  BY DEF Spawn, At, step
<1>2. CASE NotBuilt
  <2>1. Goes /\ command' = "none"
    BY <1>1, <1>2 DEF Spawn
  <2>2. PICK built : built = After(step, Now).built
    OBVIOUS
  <2>3. built = Now.built
    BY <1>1, <1>2, <2>2 DEF After, NotBuilt, Recorded
  <2>4. built \subseteq fresh' /\ pc' \in Nat \ {0} /\ scopes' = scopes /\ UNCHANGED raising
    BY <1>1, <2>1, <2>3, RunningClean DEF Goes
  <2>5. AsOutlined'
    BY <1>1, <2>1, <2>2, <2>4, GoesOn
  <2> QED BY <1>1, <2>1, <2>4, <2>5, GoesKeeps, RunningClean
<1>3. CASE ~NotBuilt
  <2>1. command' = "live" /\ UNCHANGED <<rigid, pc, scopes, raising, sessions, fresh, stray, outcome>>
    BY <1>1, <1>3 DEF Spawn
  <2>2. UNCHANGED <<driver, flags, pc, scopes, raising, sessions, fresh, stray, outcome>>
    BY <2>1 DEF rigid
  <2>3. step.uses \in fresh \cup {"none"}
    BY <1>1, <1>3, RunningClean DEF Needs, NotBuilt
  <2>4. (At("command"))' /\ step' = step
    BY <1>1, <2>2 DEF Spawn, At, Running, AtEnd, script, step
  <2>5. CommandExpected'
    BY <2>2, <2>3, <2>4 DEF CommandExpected
  <2>6. AsOutlined' /\ Unwinding'
    <3>1. Kinds' = Kinds
      BY <2>2 DEF Kinds
    <3> QED BY <2>1, <3>1, Unmoved
  <2>7. DriverTypes'
    BY <2>1, <2>2 DEF DriversInv, DriverTypes
  <2>8. StrayRaises' /\ DriverGone'
    BY <1>1, <2>2, RunningClean DEF StrayRaises, DriverGone
  <2> QED BY <2>5, <2>6, <2>7, <2>8 DEF DriversInv
<1> QED BY <1>2, <1>3

LEMMA ReapStep ==
  ASSUME DriversInv, CommandReaped
  PROVE  DriversInv'
<1>1. /\ Running /\ step.op = "command" /\ command' = "none" /\ UNCHANGED <<rigid, sessions, stray, outcome>>
  BY DEF CommandReaped, DriversInv, CommandExpected, At, step
<1>2. fresh' \subseteq STRING /\ fresh \subseteq fresh'
  BY <1>1, RunningClean DEF CommandReaped, Steps
<1>3. CASE command = "ok" \/ step.wait \in Recorded
  <2>1. Goes
    BY <1>3 DEF CommandReaped
  <2>2. PICK built : built = After(step, Now).built
    OBVIOUS
  <2>3. built \subseteq fresh'
    <3>1. CASE step.wait \in Recorded
      <4>1. built = Now.built
        BY <1>1, <2>2, <3>1 DEF After
      <4> QED BY <1>1, <1>2, <4>1, RunningClean
    <3>2. CASE step.wait \notin Recorded
      <4>1. built = Now.built \cup ({step.makes} \ {"none"}) /\ fresh' = fresh \cup ({step.makes} \ {"none"})
        BY <1>1, <1>3, <2>2, <3>2 DEF After, CommandReaped
      <4> QED BY <1>1, <4>1, RunningClean
    <3> QED BY <3>1, <3>2
  <2>4. pc' \in Nat \ {0} /\ scopes' = scopes /\ UNCHANGED raising
    BY <1>1, <2>1, RunningClean DEF Goes
  <2>5. AsOutlined'
    BY <1>1, <2>1, <2>2, <2>3, <2>4, GoesOn
  <2> QED BY <1>1, <1>2, <2>4, <2>5, GoesKeeps, RunningClean
<1>4. CASE ~(command = "ok" \/ step.wait \in Recorded)
  <2>1. Raises
    BY <1>4 DEF CommandReaped
  <2> QED BY <1>1, <1>2, <2>1, RaisesKeeps DEF Keeping
<1> QED BY <1>3, <1>4

LEMMA TimeoutStep ==
  ASSUME DriversInv, Timeout
  PROVE  DriversInv'
<1>1. /\ command = "live" /\ command' = "none" /\ UNCHANGED <<rigid, sessions, fresh, outcome>>
      /\ stray' = (stray \/ (helper /\ step.wait \in {"timed", "row"}))
      /\ IF step.wait = "grouprow" THEN Goes ELSE Raises
  BY DEF Timeout, TimeoutOf
<1>2. Running /\ step.op = "command"
  BY <1>1 DEF DriversInv, CommandExpected, At, step
<1>3. CASE step.wait = "grouprow"
  <2>1. Goes
    BY <1>1, <1>3
  <2>2. PICK built : built = After(step, Now).built
    OBVIOUS
  <2>3. built = Now.built
    BY <1>2, <1>3, <2>2 DEF After, Recorded
  <2>4. built \subseteq fresh' /\ pc' \in Nat \ {0} /\ scopes' = scopes /\ UNCHANGED raising
    BY <1>1, <1>2, <2>1, <2>3, RunningClean DEF Goes
  <2>5. AsOutlined'
    BY <1>1, <1>2, <2>1, <2>2, <2>4, GoesOn
  <2>6. ~stray'
    BY <1>1, <1>2, <1>3, RunningClean
  <2> QED BY <1>1, <1>2, <2>4, <2>5, <2>6, GoesKeeps, RunningClean
<1>4. CASE step.wait # "grouprow"
  <2>1. Raises
    BY <1>1, <1>4
  <2> QED BY <1>1, <1>2, <2>1, RaisesKeeps, RunningClean DEF Keeping
<1> QED BY <1>3, <1>4

---------------------------------------------------------------------------
(* Steps without a process of their own.                                     *)
LEMMA NoneLive ==
  ASSUME DriversInv, Running, step.op # "command"
  PROVE  command = "none"
BY DEF DriversInv, CommandExpected, At, step

LEMMA RewriteStep ==
  ASSUME DriversInv, Rewrite
  PROVE  DriversInv'
<1>1. /\ Running /\ step.op = "write" /\ fresh' = fresh \ {step.makes} /\ Goes
      /\ UNCHANGED <<rigid, command, sessions, stray, outcome>>
  BY DEF Rewrite, At, step
<1>2. command' = "none"
  BY <1>1, NoneLive
<1>3. PICK built : built = After(step, Now).built
  OBVIOUS
<1>4. built = Now.built \ {step.makes}
  BY <1>1, <1>3 DEF After
<1>5. built \subseteq fresh' /\ fresh' \subseteq STRING /\ pc' \in Nat \ {0} /\ scopes' = scopes /\ UNCHANGED raising
  BY <1>1, <1>4, RunningClean DEF Goes
<1>6. AsOutlined'
  BY <1>1, <1>3, <1>5, GoesOn
<1> QED BY <1>1, <1>2, <1>5, <1>6, GoesKeeps, RunningClean

LEMMA JudgeStep ==
  ASSUME DriversInv, Judge
  PROVE  DriversInv'
<1>1. /\ Running /\ step.op \in {"assert", "verdict"} /\ (Goes \/ Raises)
      /\ UNCHANGED <<rigid, command, sessions, fresh, stray, outcome>>
  BY DEF Judge, At, step
<1>2. command' = "none"
  BY <1>1, NoneLive
<1>3. CASE Goes
  <2>1. PICK built : built = After(step, Now).built
    OBVIOUS
  <2>2. built = Now.built
    BY <1>1, <2>1 DEF After
  <2>3. built \subseteq fresh' /\ pc' \in Nat \ {0} /\ scopes' = scopes /\ UNCHANGED raising
    BY <1>1, <1>3, <2>2, RunningClean DEF Goes
  <2>4. AsOutlined'
    BY <1>1, <1>3, <2>1, <2>3, GoesOn
  <2> QED BY <1>1, <1>2, <2>3, <2>4, GoesKeeps, RunningClean
<1>4. CASE Raises
  BY <1>1, <1>2, <1>4, RaisesKeeps, RunningClean DEF Keeping
<1> QED BY <1>1, <1>3, <1>4

LEMMA ChooseStep ==
  ASSUME DriversInv, Choose
  PROVE  DriversInv'
<1>1. /\ Running /\ step.op = "option"
      /\ UNCHANGED <<rigid, scopes, raising, command, sessions, fresh, stray, outcome>>
      /\ pc' = IF step.wait \in flags \/ (step.wait = "clean" /\ ~failed) THEN pc + 1 ELSE pc + 1 + step.skip
  BY DEF Choose, At, step
<1>2. command' = "none"
  BY <1>1, NoneLive
<1>3. step.skip \in Nat
  BY <1>1, RunningClean DEF Steps
<1>4. pc' \in Nat \ {0}
  BY <1>1, <1>3, RunningClean
<1>5. pc' \in Following(step, pc, flags)
  BY <1>1 DEF Following
<1>6. PICK after : after = After(step, Now)
  OBVIOUS
<1>7. after.scopes = Now.scopes /\ after.open = Now.open /\ after.built = Now.built
  BY <1>1, <1>6 DEF After, Collecting
<1>8. scopes' = after.scopes /\ after.built \subseteq fresh' /\ sessions' \in Seq(Session) /\ Kinds' = after.open
  <2>1. Kinds' = Kinds
    BY <1>1 DEF Kinds
  <2> QED BY <1>1, <1>7, <2>1, RunningClean
<1>9. AsOutlined'
  BY <1>1, <1>5, <1>6, <1>8, Advanced DEF DriversInv
<1> QED BY <1>1, <1>2, <1>4, <1>9, GoesKeeps, RunningClean

LEMMA EnterStep ==
  ASSUME DriversInv, Enter
  PROVE  DriversInv'
<1>1. /\ Running /\ step.op \in {"temp", "try"} /\ pc' = pc + 1
      /\ scopes' = Append(scopes, IF step.op = "temp" THEN "temp" ELSE step.wait)
      /\ UNCHANGED <<rigid, raising, command, sessions, fresh, stray, outcome>>
  BY DEF Enter, At, step
<1>2. command' = "none"
  BY <1>1, NoneLive
<1>3. scopes' \in Seq(Words)
  <2>1. (IF step.op = "temp" THEN "temp" ELSE step.wait) \in Words
    BY <1>1, RunningClean DEF Steps, Words, Unprotected
  <2> QED BY <1>1, <2>1, RunningClean
<1>4. pc' \in Nat \ {0} /\ pc' \in Following(step, pc, flags)
  BY <1>1, RunningClean DEF Following
<1>5. PICK after : after = After(step, Now)
  OBVIOUS
<1>6. /\ after.scopes = Append(Now.scopes, IF step.op = "temp" THEN "temp" ELSE step.wait)
      /\ after.open = Now.open /\ after.built = Now.built
  BY <1>1, <1>5 DEF After, Collecting
<1>7. scopes' = after.scopes /\ after.built \subseteq fresh' /\ sessions' \in Seq(Session) /\ Kinds' = after.open
  <2>1. Kinds' = Kinds
    BY <1>1 DEF Kinds
  <2> QED BY <1>1, <1>6, <2>1, RunningClean
<1>8. AsOutlined'
  BY <1>1, <1>4, <1>5, <1>7, Advanced DEF DriversInv
<1> QED BY <1>1, <1>2, <1>3, <1>4, <1>8, GoesKeeps, RunningClean

---------------------------------------------------------------------------
(* Sessions.                                                                 *)
LEMMA SessionStep ==
  ASSUME DriversInv, StartSession
  PROVE  DriversInv'
<1>1. /\ Running /\ step.op = "start" /\ Goes
      /\ UNCHANGED <<rigid, command, fresh, stray, outcome>>
  BY DEF StartSession, At, step
<1>2. command' = "none"
  BY <1>1, NoneLive
<1>3. PICK r \in Session : sessions' = Append(sessions, r) /\ r.kind = step.wait
  <2> DEFINE r == [state |-> "live", helper |-> FALSE, marked |-> FALSE, kind |-> step.wait]
  <2>1. r \in Session /\ r.kind = step.wait
    BY <1>1, RunningClean DEF Session, Steps
  <2>2. sessions' = Append(sessions, r)
    BY DEF StartSession
  <2> HIDE DEF r
  <2> QED BY <2>1, <2>2
<1>4. sessions' \in Seq(Session) /\ Len(sessions') = Len(sessions) + 1
      /\ sessions'[Len(sessions) + 1] = r /\ \A i \in 1 .. Len(sessions) : sessions'[i] = sessions[i]
  BY <1>1, <1>3, RunningClean
<1>5. Kinds \in Seq(Words) /\ Len(Kinds) = Len(sessions)
  BY <1>1, RunningClean, KindsAre
<1>6. Kinds' = Append(Kinds, step.wait)
  <2>1. DOMAIN sessions' = 1 .. Len(sessions) + 1 /\ DOMAIN sessions = 1 .. Len(sessions) /\ Len(sessions) \in Nat
    BY <1>1, <1>4, RunningClean
  <2>2. step.wait \in Words
    BY <1>1, RunningClean DEF Steps
  <2>3. Append(Kinds, step.wait) \in Seq(Words) /\ Len(Append(Kinds, step.wait)) = Len(sessions) + 1
    BY <1>5, <2>2
  <2>4. \A i \in 1 .. Len(sessions) + 1 : sessions'[i].kind = Append(Kinds, step.wait)[i]
    <3>1. ASSUME NEW i \in 1 .. Len(sessions)
          PROVE  sessions'[i].kind = Append(Kinds, step.wait)[i]
      <4>1. Append(Kinds, step.wait)[i] = Kinds[i]
        BY <1>5, <2>2
      <4>2. Kinds[i] = sessions[i].kind
        BY <2>1 DEF Kinds
      <4> QED BY <1>4, <4>1, <4>2
    <3>2. sessions'[Len(sessions) + 1].kind = Append(Kinds, step.wait)[Len(sessions) + 1]
      <4>1. Append(Kinds, step.wait)[Len(sessions) + 1] = step.wait
        BY <1>5, <2>2
      <4> QED BY <1>3, <1>4, <4>1
    <3>3. \A i \in 1 .. Len(sessions) + 1 : i \in 1 .. Len(sessions) \/ i = Len(sessions) + 1
      BY <2>1
    <3> QED BY <3>1, <3>2, <3>3, Zenon
  <2>5. Kinds' \in Seq(Words) /\ Len(Kinds') = Len(sessions) + 1 /\ \A i \in 1 .. Len(sessions) + 1 : Kinds'[i] = sessions'[i].kind
    <3>1. \A i \in 1 .. Len(sessions) + 1 : sessions'[i].kind \in Words
      BY <2>1, <2>3, <2>4
    <3> QED BY <2>1, <3>1 DEF Kinds
  <2> QED BY <2>3, <2>4, <2>5, SeqEqual
<1>7. pc' \in Nat \ {0} /\ pc' \in Following(step, pc, flags) /\ scopes' = scopes /\ UNCHANGED raising
  BY <1>1, RunningClean DEF Following, Goes
<1>8. PICK after : after = After(step, Now)
  OBVIOUS
<1>9. after.scopes = Now.scopes /\ after.open = Append(Now.open, step.wait) /\ after.built = Now.built
  BY <1>1, <1>8 DEF After, Collecting
<1>10. scopes' = after.scopes /\ after.built \subseteq fresh' /\ Kinds' = after.open
  BY <1>1, <1>6, <1>7, <1>9, RunningClean
<1>11. AsOutlined'
  BY <1>1, <1>4, <1>7, <1>8, <1>10, Advanced DEF DriversInv
<1> QED BY <1>1, <1>2, <1>4, <1>7, <1>11, GoesKeeps, RunningClean

(* A driver that has no session left, or raises with its oldest reaped.      *)
LEMMA NothingSheltered ==
  ASSUME NEW s
  PROVE  Sheltered(s, <<>>)
BY DEF Sheltered

LEMMA RaisesReaped ==
  ASSUME DriversInv, Running, Raises, UNCHANGED <<rigid, fresh, stray, outcome>>, command' = "none",
         sessions # <<>>, sessions' = Tail(sessions),
         step.op \in Collecting \/ (step.op = "listen" /\ Len(sessions) = 1)
  PROVE  DriversInv'
<1>1. raising' /\ outcome' = "running" /\ scopes' = scopes /\ pc' = pc
      /\ driver' = driver /\ flags' = flags /\ raising' \in BOOLEAN /\ fresh' = fresh
  BY RunningClean DEF Raises, rigid
<1>2. Kinds \in Seq(Words) /\ Len(Kinds) = Len(sessions) /\ sessions' \in Seq(Session) /\ Kinds' = Tail(Kinds)
  BY KindsAre, RunningClean
<1>3. DriverTypes'
  BY <1>1, <1>2 DEF DriversInv, DriverTypes
<1>4. Sheltered(scopes, Kinds')
  <2>1. Kinds # <<>>
    BY <1>2, RunningClean
  <2>2. CASE step.op \in Collecting
    BY <1>2, <2>2, RaisedSheltered
  <2>3. CASE Len(sessions) = 1
    <3>1. Kinds' = <<>>
      BY <1>2, <2>1, <2>3
    <3> QED BY <3>1, NothingSheltered
  <2> QED BY <2>2, <2>3
<1>5. Unwinding'
  BY <1>1, <1>4 DEF Unwinding
<1> QED BY <1>1, <1>3, <1>5 DEF DriversInv, CommandExpected, AsOutlined, StrayRaises, DriverGone

LEMMA ServingStep ==
  ASSUME DriversInv, Serving
  PROVE  DriversInv'
<1>1. /\ Running /\ step.op = "listen" /\ UNCHANGED <<rigid, command, fresh, stray, outcome>>
      /\ \/ Goes /\ UNCHANGED sessions
         \/ Raises /\ sessions' = Tail(sessions)
  BY DEF Serving, At, step
<1>2. command' = "none"
  BY <1>1, NoneLive
<1>3. CASE Goes /\ UNCHANGED sessions
  <2>1. PICK built : built = After(step, Now).built
    OBVIOUS
  <2>2. built = Now.built
    BY <1>1, <2>1 DEF After
  <2>3. built \subseteq fresh' /\ pc' \in Nat \ {0} /\ scopes' = scopes /\ UNCHANGED raising
    BY <1>1, <1>3, <2>2, RunningClean DEF Goes
  <2>4. AsOutlined'
    BY <1>1, <1>3, <2>1, <2>3, GoesOn
  <2> QED BY <1>1, <1>2, <1>3, <2>3, <2>4, GoesKeeps, RunningClean
<1>4. CASE Raises /\ sessions' = Tail(sessions)
  <2>1. Len(Kinds) = 1 /\ Len(Kinds) = Len(sessions)
    BY <1>1, RunningClean, KindsAre DEF Needs
  <2>2. sessions # <<>>
    <3>1. Len(<<>>) = 0
      OBVIOUS
    <3> QED BY <2>1, <3>1
  <2> QED BY <1>1, <1>2, <1>4, <2>1, <2>2, RaisesReaped
<1> QED BY <1>1, <1>3, <1>4

(* A running driver that waits for a session or collects one holds it.       *)
LEMMA Holding ==
  ASSUME DriversInv, Running, step.op \in {"ready"} \cup Collecting
  PROVE  sessions # <<>> /\ Kinds \in Seq(Words) /\ Kinds # <<>>
<1>1. Kinds # <<>>
  BY RunningClean DEF Needs, Collecting
<1>2. Kinds \in Seq(Words) /\ Len(Kinds) = Len(sessions)
  BY RunningClean, KindsAre
<1>3. Len(Kinds) # 0
  BY <1>1, <1>2
<1> QED BY <1>1, <1>2, <1>3, RunningClean

LEMMA AwaitStep ==
  ASSUME DriversInv, Await
  PROVE  DriversInv'
<1>1. /\ Running /\ step.op = "ready" /\ UNCHANGED <<rigid, command, fresh, stray, outcome>>
      /\ \/ Goes /\ sessions' = [sessions EXCEPT ![1].marked = TRUE]
         \/ Raises /\ UNCHANGED sessions
  BY DEF Await, At, step
<1>2. command' = "none"
  BY <1>1, NoneLive
<1>3. CASE Goes /\ sessions' = [sessions EXCEPT ![1].marked = TRUE]
  <2>1. 1 \in DOMAIN sessions
    BY <1>1, Holding, RunningClean
  <2>2. \E e \in BOOLEAN : sessions' = [sessions EXCEPT ![1].marked = e]
    BY <1>3, Zenon
  <2>3. sessions' \in Seq(Session) /\ Kinds' = Kinds
    BY <1>1, <2>1, <2>2, KindsKept, RunningClean
  <2>4. pc' \in Nat \ {0} /\ pc' \in Following(step, pc, flags) /\ scopes' = scopes /\ UNCHANGED raising
    BY <1>1, <1>3, RunningClean DEF Following, Goes
  <2>5. PICK after : after = After(step, Now)
    OBVIOUS
  <2>6. after.scopes = Now.scopes /\ after.open = Now.open /\ after.built = Now.built
    BY <1>1, <2>5 DEF After, Collecting
  <2>7. scopes' = after.scopes /\ after.built \subseteq fresh' /\ Kinds' = after.open
    BY <1>1, <2>3, <2>4, <2>6, RunningClean
  <2>8. AsOutlined'
    BY <1>1, <2>3, <2>4, <2>5, <2>7, Advanced DEF DriversInv
  <2> QED BY <1>1, <1>2, <2>3, <2>4, <2>8, GoesKeeps, RunningClean
<1>4. CASE Raises /\ UNCHANGED sessions
  BY <1>1, <1>2, <1>4, RaisesKeeps, RunningClean DEF Keeping
<1> QED BY <1>1, <1>3, <1>4

LEMMA GatherStep ==
  ASSUME DriversInv, Gather
  PROVE  DriversInv'
<1>1. /\ Running /\ step.op \in Collecting /\ UNCHANGED <<rigid, command, fresh, stray, outcome>>
      /\ \/ Goes /\ sessions' = Tail(sessions)
         \/ Raises /\ sessions' = Tail(sessions)
         \/ Raises /\ sessions' = sessions /\ step.op = "collect"
  <2>1. Running /\ step.op \in Collecting /\ UNCHANGED <<rigid, command, fresh, stray, outcome>>
    BY DEF Gather, At, step, Collecting
  <2>2. Goes \/ Raises
    BY DEF Gather
  <2>3. sessions' = Tail(sessions) \/ (sessions' = sessions /\ step.op = "collect")
    BY DEF Gather
  <2>4. sessions' = Tail(sessions) \/ Raises
    BY <2>3 DEF Gather
  <2> QED BY <2>1, <2>2, <2>3, <2>4
<1>2. command' = "none"
  BY <1>1, NoneLive DEF Collecting
<1>3. sessions # <<>> /\ Kinds \in Seq(Words) /\ Kinds # <<>>
  BY <1>1, Holding
<1>4. CASE Goes /\ sessions' = Tail(sessions)
  <2>1. sessions' \in Seq(Session) /\ Kinds' = Tail(Kinds)
    BY <1>1, <1>3, <1>4, KindsAre, RunningClean
  <2>2. pc' \in Nat \ {0} /\ pc' \in Following(step, pc, flags) /\ scopes' = scopes /\ UNCHANGED raising
    BY <1>1, <1>4, RunningClean DEF Following, Goes, Collecting
  <2>3. PICK after : after = After(step, Now)
    OBVIOUS
  <2>4. after.scopes = Now.scopes /\ after.open = Tail(Now.open) /\ after.built = Now.built
    BY <1>1, <2>3 DEF After, Collecting
  <2>5. Kinds = Now.open
    BY <1>1, RunningClean DEF Collecting
  <2>6. scopes' = after.scopes /\ after.built \subseteq fresh' /\ Kinds' = after.open
    BY <1>1, <2>1, <2>2, <2>4, <2>5, RunningClean
  <2>7. AsOutlined'
    BY <1>1, <2>1, <2>2, <2>3, <2>6, Advanced DEF DriversInv
  <2> QED BY <1>1, <1>2, <2>1, <2>2, <2>7, GoesKeeps, RunningClean
<1>5. CASE Raises /\ sessions' = Tail(sessions)
  BY <1>1, <1>2, <1>3, <1>5, RaisesReaped
<1>6. CASE Raises /\ sessions' = sessions /\ step.op = "collect"
  BY <1>1, <1>2, <1>6, RaisesKeeps, RunningClean DEF Keeping
<1> QED BY <1>1, <1>4, <1>5, <1>6

---------------------------------------------------------------------------
(* Leaving a scope.  A driver that leaves one normally is at its end, where  *)
(* the outline covers what is left; one that raises has it sheltered.        *)
LEMMA LeavingHas ==
  ASSUME DriversInv, Leaving
  PROVE  /\ outcome = "running" /\ command = "none" /\ scopes # <<>> /\ scopes \in Seq(Words)
         /\ sessions \in Seq(Session) /\ Len(sessions) \in Nat /\ (sessions = <<>> <=> Len(sessions) = 0)
         /\ ~raising => Running /\ step.op = "end"
         /\ \/ \E n \in Nat : Len(sessions) <= n /\ Covers(scopes[Len(scopes)], n)
            \/ raising /\ \A i \in DOMAIN sessions : sessions[i].kind = "tty"
<1>1. /\ outcome = "running" /\ scopes # <<>> /\ (raising \/ At("end")) /\ DriverTypes /\ AsOutlined
      /\ Unwinding /\ CommandExpected
  BY DEF DriversInv, Leaving
<1>2. command = "none"
  BY <1>1 DEF CommandExpected, At, Running
<1>3. sessions \in Seq(Session) /\ Len(sessions) \in Nat /\ (sessions = <<>> <=> Len(sessions) = 0) /\ scopes \in Seq(Words)
  <2>1. sessions \in Seq(Session) /\ scopes \in Seq(Words)
    BY <1>1 DEF DriverTypes
  <2> QED BY <2>1, EmptySeq
<1>4. ~raising => Running /\ step.op = "end"
  BY <1>1 DEF At, step
<1>5. CASE ~raising
  <2>1. /\ Needs(step, Now) /\ Now \in Expectations /\ scopes = Now.scopes
        /\ Len(sessions) <= Len(Now.open)
    BY <1>1, <1>4, <1>5, Expected
  <2>2. Covers(scopes[Len(scopes)], Len(Now.open)) /\ Len(Now.open) \in Nat
    <3>1. Covers(Now.scopes[Len(Now.scopes)], Len(Now.open))
      BY <1>4, <1>5, <2>1 DEF Needs
    <3>2. Len(Now.open) \in Nat
      BY <2>1 DEF Expectations
    <3> QED BY <2>1, <3>1, <3>2
  <2> QED BY <1>1, <1>2, <1>3, <1>4, <2>1, <2>2
<1>6. CASE raising
  <2>1. Sheltered(scopes, Kinds) /\ Len(Kinds) = Len(sessions)
    BY <1>1, <1>3, <1>6, KindsAre DEF Unwinding
  <2>2. CASE Covers(scopes[Len(scopes)], Len(Kinds))
    BY <1>1, <1>2, <1>3, <1>4, <2>1, <2>2
  <2>3. CASE \A i \in DOMAIN Kinds : Kinds[i] = "tty"
    <3>1. \A i \in DOMAIN sessions : sessions[i].kind = "tty"
      BY <2>3 DEF Kinds
    <3> QED BY <1>1, <1>2, <1>3, <1>4, <1>6, <3>1
  <2> QED BY <2>1, <2>2, <2>3 DEF Sheltered
<1> QED BY <1>5, <1>6

(* The scope left, no session remains, or terminals only and the driver      *)
(* raises.                                                                   *)
LEMMA LeftKeeps ==
  ASSUME DriversInv, Leaving, NEW ok, Left(ok), UNCHANGED <<rigid, command, fresh, outcome>>,
         sessions' \in Seq(Session),
         \/ sessions' = <<>>
         \/ raising /\ \A i \in DOMAIN sessions' : sessions'[i].kind = "tty",
         stray' => stray \/ ~ok
  PROVE  DriversInv'
<1>1. /\ outcome = "running" /\ command' = "none" /\ scopes # <<>> /\ scopes \in Seq(Words)
      /\ ~raising => Running /\ step.op = "end"
  BY LeavingHas
<1>2. scopes' = SubSeq(scopes, 1, Len(scopes) - 1) /\ scopes' \in Seq(Words)
  BY <1>1 DEF Left
<1>3. DriverTypes /\ StrayRaises /\ pc \in Nat \ {0} /\ fresh \subseteq STRING
  BY DEF DriversInv, DriverTypes
<1>4. CASE raising'
  <2>1. pc' = pc /\ raising' \in BOOLEAN
    BY <1>3, <1>4 DEF Left, DriverTypes
  <2>2. DriverTypes'
    BY <1>1, <1>2, <1>3, <2>1 DEF DriverTypes, rigid
  <2>3. \A i \in DOMAIN Kinds' : Kinds'[i] = "tty"
    <3>1. \A i \in DOMAIN sessions' : sessions'[i].kind = "tty"
      OBVIOUS
    <3> QED BY <3>1 DEF Kinds
  <2>4. Unwinding'
    BY <2>3 DEF Unwinding, Sheltered
  <2> QED BY <1>1, <1>4, <2>2, <2>4 DEF DriversInv, CommandExpected, AsOutlined, StrayRaises, DriverGone
<1>5. CASE ~raising'
  <2>1. ~raising /\ Running /\ step.op = "end" /\ ok /\ pc' = pc + 1 /\ UNCHANGED raising
    BY <1>1, <1>5 DEF Left
  <2>2. sessions' = <<>> /\ ~stray'
    BY <1>3, <2>1 DEF StrayRaises
  <2>3. Kinds' = <<>>
    BY <2>2 DEF Kinds
  <2>4. pc' \in Nat \ {0} /\ pc' \in Following(step, pc, flags)
    BY <1>3, <2>1 DEF Following
  <2>5. PICK after : after = After(step, Now)
    OBVIOUS
  <2>6. /\ after.scopes = SubSeq(Now.scopes, 1, Len(Now.scopes) - 1)
        /\ after.open = <<>> /\ after.built = Now.built
    BY <2>1, <2>5 DEF After, Collecting
  <2>7. scopes' = after.scopes /\ after.built \subseteq fresh' /\ Kinds' = after.open
    BY <1>2, <2>1, <2>3, <2>6, RunningClean
  <2>8. AsOutlined'
    BY <1>3, <2>1, <2>4, <2>5, <2>7, Advanced DEF DriversInv
  <2> QED BY <1>1, <1>2, <1>3, <2>1, <2>2, <2>4, <2>8, GoesKeeps
<1> QED BY <1>4, <1>5

(* The finally blocks that deal with one session deal with all there are.    *)
LEMMA OneReaped ==
  ASSUME DriversInv, Leaving, sessions # <<>>, sessions' = Tail(sessions)
  PROVE  /\ sessions' \in Seq(Session)
         /\ \/ sessions' = <<>>
            \/ raising /\ \A i \in DOMAIN sessions' : sessions'[i].kind = "tty"
<1>1. sessions \in Seq(Session) /\ sessions' \in Seq(Session)
      /\ Len(sessions') = Len(sessions) - 1 /\ Len(sessions) \in Nat
  BY LeavingHas
<1>2. CASE Len(sessions) = 1
  BY <1>1, <1>2, EmptySeq
<1>3. CASE raising /\ \A i \in DOMAIN sessions : sessions[i].kind = "tty"
  BY <1>1, <1>3
<1>4. CASE \E n \in Nat : Len(sessions) <= n /\ Covers(scopes[Len(scopes)], n)
  <2>1. Len(sessions) <= 1 /\ Len(sessions) # 0
    BY <1>4, <1>1, LeavingHas DEF Covers
  <2> QED BY <1>1, <1>2, <2>1
<1> QED BY <1>2, <1>3, <1>4, LeavingHas

LEMMA LeavePlainStep ==
  ASSUME DriversInv, LeavePlain
  PROVE  DriversInv'
<1>1. /\ Leaving /\ Left(TRUE) /\ UNCHANGED <<rigid, command, sessions, fresh, stray, outcome>>
      /\ scopes[Len(scopes)] \in Unprotected \/ sessions = <<>>
  BY DEF LeavePlain
<1>2. sessions' \in Seq(Session) /\ sessions' = sessions
  BY <1>1, LeavingHas
<1>3. sessions = <<>> \/ (raising /\ \A i \in DOMAIN sessions : sessions[i].kind = "tty")
  <2>1. CASE \E n \in Nat : Len(sessions) <= n /\ Covers(scopes[Len(scopes)], n)
    <3>1. PICK n \in Nat : Len(sessions) <= n /\ Covers(scopes[Len(scopes)], n)
      BY <2>1
    <3>2. CASE scopes[Len(scopes)] \in Unprotected
      <4>1. n = 0
        BY <3>1, <3>2 DEF Covers, Unprotected
      <4> QED BY <1>1, <3>1, <4>1, LeavingHas
    <3> QED BY <1>1, <3>2
  <2> QED BY <1>1, <2>1, LeavingHas
<1>4. sessions' = <<>> \/ (raising /\ \A i \in DOMAIN sessions' : sessions'[i].kind = "tty")
  BY <1>2, <1>3
<1> QED BY <1>1, <1>2, <1>4, LeftKeeps

LEMMA LeaveKillStep ==
  ASSUME DriversInv, LeaveKill
  PROVE  DriversInv'
<1>1. /\ Leaving /\ Left(TRUE) /\ UNCHANGED <<rigid, command, fresh, stray, outcome>>
      /\ sessions # <<>> /\ sessions' = Tail(sessions)
  BY DEF LeaveKill, Protects
<1> QED BY <1>1, OneReaped, LeftKeeps

LEMMA LeaveKillDrainStep ==
  ASSUME DriversInv, LeaveKillDrain
  PROVE  DriversInv'
<1>1. /\ Leaving /\ sessions # <<>> /\ scopes[Len(scopes)] = "kill"
      /\ UNCHANGED <<rigid, command, fresh, stray, outcome>>
      /\ \/ /\ sessions' = [sessions EXCEPT ![1].state = "killed"]
            /\ UNCHANGED <<pc, scopes, raising>>
         \/ sessions' = Tail(sessions) /\ Left(TRUE)
  BY DEF LeaveKillDrain, Protects
<1>2. CASE sessions' = Tail(sessions) /\ Left(TRUE)
  BY <1>1, <1>2, OneReaped, LeftKeeps
<1>3. CASE sessions' = [sessions EXCEPT ![1].state = "killed"] /\ UNCHANGED <<pc, scopes, raising>>
  <2>1. \E e \in {"live", "exited", "killed"} : sessions' = [sessions EXCEPT ![1].state = e]
    <3>1. "killed" \in {"live", "exited", "killed"}
      OBVIOUS
    <3> QED BY <1>3, <3>1, Zenon
  <2>2. sessions \in Seq(Session) /\ 1 \in DOMAIN sessions
    BY <1>1, LeavingHas
  <2>3. sessions' \in Seq(Session) /\ Len(sessions') = Len(sessions) /\ Kinds' = Kinds
    BY <2>1, <2>2, KindsKept
  <2>4. AsOutlined' /\ Unwinding'
    BY <1>1, <1>3, <2>3, Unmoved
  <2>5. UNCHANGED <<driver, flags, pc, scopes, raising, fresh, stray, outcome>> /\ command' = "none"
    BY <1>1, <1>3, LeavingHas DEF rigid
  <2>6. DriverTypes'
    BY <1>1, <2>3, <2>5 DEF DriversInv, DriverTypes
  <2> QED BY <2>4, <2>5, <2>6, LeavingHas, <1>1 DEF DriversInv, CommandExpected, StrayRaises, DriverGone
<1> QED BY <1>1, <1>2, <1>3

LEMMA LeaveTermStep ==
  ASSUME DriversInv, LeaveTerm
  PROVE  DriversInv'
<1>1. /\ Leaving /\ UNCHANGED <<rigid, command, fresh, stray, outcome>>
      /\ sessions # <<>> /\ sessions' = Tail(sessions)
  BY DEF LeaveTerm, Protects
<1>2. PICK clean \in BOOLEAN : Left(clean)
  BY DEF LeaveTerm
<1> QED BY <1>1, <1>2, OneReaped, LeftKeeps

LEMMA LeaveGitGroupStep ==
  ASSUME DriversInv, LeaveGitGroup
  PROVE  DriversInv'
<1>1. /\ Leaving /\ UNCHANGED <<rigid, command, fresh, outcome>>
      /\ sessions # <<>> /\ sessions' = Tail(sessions)
  BY DEF LeaveGitGroup, Protects
<1>2. PICK known \in {Head(sessions).marked, TRUE} :
        /\ stray' = (stray \/ (Head(sessions).helper /\ ~known))
        /\ Left(known \/ ~Head(sessions).helper)
  BY DEF LeaveGitGroup
<1>3. PICK ok : ok = (known \/ ~Head(sessions).helper)
  OBVIOUS
<1>4. Left(ok) /\ (stray' => stray \/ ~ok)
  BY <1>2, <1>3, Zenon
<1> QED BY <1>1, <1>4, OneReaped, LeftKeeps

LEMMA LeavePairStep ==
  ASSUME DriversInv, LeavePair
  PROVE  DriversInv'
<1>1. /\ Leaving /\ UNCHANGED <<rigid, command, fresh, stray, outcome>>
      /\ sessions # <<>> /\ sessions' = Tail(sessions)
      /\ \/ \E prompt \in BOOLEAN : Left(prompt)
         \/ Len(sessions) > 1 /\ UNCHANGED <<pc, scopes, raising>>
  BY DEF LeavePair, Protects
<1>2. /\ sessions' \in Seq(Session)
      /\ sessions' = <<>> \/ (raising /\ \A i \in DOMAIN sessions' : sessions'[i].kind = "tty")
  BY <1>1, OneReaped
<1>3. ASSUME NEW prompt \in BOOLEAN, Left(prompt) PROVE DriversInv'
  <2>1. (stray' => stray \/ ~prompt) /\ UNCHANGED <<rigid, command, fresh, outcome>>
    BY <1>1
  <2> QED BY <1>1, <1>2, <1>3, <2>1, LeftKeeps
<1>4. CASE Len(sessions) > 1 /\ UNCHANGED <<pc, scopes, raising>>
  <2>1. Len(sessions') > 0 /\ Len(sessions) \in Nat
    BY <1>1, <1>4, LeavingHas
  <2>2. raising' /\ UNCHANGED <<driver, flags, pc, scopes, raising, fresh, stray, outcome>> /\ command' = "none"
    <3>1. Len(<<>>) = 0
      OBVIOUS
    <3>2. sessions' # <<>>
      BY <2>1, <3>1
    <3> QED BY <1>1, <1>2, <1>4, <3>2, LeavingHas DEF rigid
  <2>3. DriverTypes'
    BY <1>2, <2>2 DEF DriversInv, DriverTypes
  <2>4. Unwinding'
    <3>1. \A i \in DOMAIN Kinds' : Kinds'[i] = "tty"
      <4>1. \A i \in DOMAIN sessions' : sessions'[i].kind = "tty"
        BY <1>2, <2>1
      <4> QED BY <4>1 DEF Kinds
    <3> QED BY <3>1 DEF Unwinding, Sheltered
  <2> QED BY <1>1, <2>2, <2>3, <2>4, LeavingHas DEF DriversInv, CommandExpected, AsOutlined, StrayRaises, DriverGone
<1> QED BY <1>1, <1>3, <1>4

---------------------------------------------------------------------------
(* Terminals do not outlive the interpreter.                                 *)
LEMMA NoneLeftBehind ==
  ASSUME NEW s \in Seq(Session), \A i \in DOMAIN s : s[i].kind = "tty"
  PROVE  LeftBehind(s) = <<>>
<1>1. PICK n \in Nat : n = Len(s) /\ DOMAIN s = 1 .. n
  OBVIOUS
<1> DEFINE Grows(h) ==
      h = [i \in 0 .. n |-> IF i = 0 THEN <<>> ELSE IF s[i].kind = "tty" THEN h[i - 1] ELSE Append(h[i - 1], s[i])]
    f == CHOOSE h : Grows(h)
<1>2. LeftBehind(s) = f[n]
  BY <1>1, Zenon DEF LeftBehind
<1>3. Grows([i \in 0 .. n |-> <<>>])
  BY <1>1
<1>4. Grows(f)
  <2> HIDE DEF Grows
  <2> QED BY <1>3, Zenon
<1>5. f[0] = <<>> /\ \A i \in 1 .. n : f[i] = f[i - 1]
  <2> HIDE DEF f
  <2>1. \A i \in 0 .. n : f[i] = IF i = 0 THEN <<>> ELSE IF s[i].kind = "tty" THEN f[i - 1] ELSE Append(f[i - 1], s[i])
    BY <1>4, Zenon
  <2>2. 0 \in 0 .. n /\ \A i \in 1 .. n : i \in 0 .. n /\ i # 0 /\ s[i].kind = "tty"
    BY <1>1
  <2> QED BY <2>1, <2>2, Zenon
<1> HIDE DEF f, Grows
<1> DEFINE S == {i \in Nat : i <= n => f[i] = <<>>}
<1>6. S \in SUBSET Nat /\ 0 \in S
  BY <1>5
<1>7. ASSUME NEW i \in S
      PROVE  i + 1 \in S
  BY <1>5, <1>7
<1>8. S = Nat
  <2> HIDE DEF S
  <2> QED BY <1>6, <1>7, Numbers
<1> QED BY <1>1, <1>2, <1>8

LEMMA ExitStep ==
  ASSUME DriversInv, DriverExits
  PROVE  DriversInv'
<1>1. /\ outcome = "running" /\ scopes = <<>> /\ (raising \/ AtEnd) /\ sessions' = LeftBehind(sessions)
      /\ outcome' = IF raising THEN "failed" ELSE "passed"
      /\ UNCHANGED <<rigid, pc, scopes, raising, command, fresh, stray>>
  BY DEF DriverExits
<1>2. DriverTypes /\ CommandExpected /\ AsOutlined /\ Unwinding /\ StrayRaises
  BY DEF DriversInv
<1>3. command = "none"
  BY <1>1, <1>2 DEF CommandExpected, At, Running
<1>4. sessions \in Seq(Session)
  BY <1>2 DEF DriverTypes
<1>5. \A i \in DOMAIN sessions : sessions[i].kind = "tty"
  <2>1. CASE raising
    <3>1. Sheltered(scopes, Kinds)
      BY <1>1, <1>2, <2>1 DEF Unwinding
    <3>2. \A i \in DOMAIN Kinds : Kinds[i] = "tty"
      BY <1>1, <3>1 DEF Sheltered
    <3> QED BY <3>2 DEF Kinds
  <2>2. CASE ~raising
    <3>1. /\ pc \in DOMAIN Outline[driver][flags] /\ ~At("end") /\ Kinds = Now.open
      BY <1>1, <1>2, <2>2 DEF AsOutlined, At, Running
    <3>2. script \in Seq(Steps) /\ Outlines(script, flags, Outline[driver][flags])
      BY <1>2, DriversAssumption DEF DriverTypes, script
    <3>3. pc \in 1 .. Len(script) + 1 /\ pc > Len(script)
      BY <1>1, <2>2, <3>1, <3>2 DEF Outlines, AtEnd
    <3>4. pc = Len(script) + 1
      BY <3>2, <3>3
    <3>5. Now.open = <<>>
      BY <3>1, <3>2, <3>4 DEF Outlines, Now
    <3>6. Len(sessions) = 0
      BY <1>4, <3>1, <3>5, KindsAre
    <3> QED BY <1>4, <3>6
  <2> QED BY <2>1, <2>2
<1>6. sessions' = <<>>
  BY <1>1, <1>4, <1>5, NoneLeftBehind
<1>7. sessions' \in Seq(Session)
  BY <1>6
<1>8. outcome' # "running" /\ (outcome' = "passed" => ~raising) /\ outcome' \in {"passed", "failed"}
  BY <1>1
<1>9. DriverTypes'
  BY <1>1, <1>2, <1>7, <1>8 DEF DriverTypes, rigid
<1> QED BY <1>1, <1>2, <1>3, <1>6, <1>8, <1>9 DEF DriversInv, CommandExpected, AsOutlined, Unwinding, StrayRaises, DriverGone

LEMMA DriversStutter ==
  ASSUME DriversInv, UNCHANGED driver_vars
  PROVE  DriversInv'
<1>1. UNCHANGED <<rigid, driver, flags, pc, scopes, raising, command, sessions, fresh, stray, outcome>>
  BY DEF driver_vars, rigid
<1>2. AsOutlined' /\ Unwinding'
  <2>1. Kinds' = Kinds
    BY <1>1 DEF Kinds
  <2> QED BY <1>1, <2>1, Unmoved
<1>3. CommandExpected'
  BY <1>1 DEF DriversInv, CommandExpected, At, Running, AtEnd, script, step
<1> QED BY <1>1, <1>2, <1>3 DEF DriversInv, DriverTypes, StrayRaises, DriverGone

(* The inductive invariant of a driver.                                      *)
LEMMA DriversInvariant == DriversSpec => []DriversInv
<1>1. DriversInit => DriversInv
  BY DriversInitially
<1>2. ASSUME DriversInv, [DriversNext]_driver_vars
      PROVE  DriversInv'
  <2>1. CASE Spawn \/ CommandReaped \/ Timeout
    BY <1>2, <2>1, SpawnStep, ReapStep, TimeoutStep
  <2>2. CASE Rewrite \/ Judge \/ Choose \/ Enter
    BY <1>2, <2>2, RewriteStep, JudgeStep, ChooseStep, EnterStep
  <2>3. CASE StartSession \/ Serving \/ Await \/ Gather
    BY <1>2, <2>3, SessionStep, ServingStep, AwaitStep, GatherStep
  <2>4. CASE LeavePlain \/ LeaveKill \/ LeaveKillDrain \/ LeaveTerm \/ LeaveGitGroup \/ LeavePair
    BY <1>2, <2>4, LeavePlainStep, LeaveKillStep, LeaveKillDrainStep, LeaveTermStep, LeaveGitGroupStep, LeavePairStep
  <2>5. CASE DriverExits \/ Processes \/ UNCHANGED driver_vars
    BY <1>2, <2>5, ExitStep, ProcessSteps, DriversStutter
  <2> QED BY <1>2, <2>1, <2>2, <2>3, <2>4, <2>5 DEF DriversNext, DriverSteps
<1> QED BY <1>1, <1>2, PTL DEF DriversSpec

(* A driver that has exited has left no process it started itself, and no    *)
(* descendant of one if it passed: for every script that keeps the           *)
(* discipline, whatever the processes do and wherever the driver raises.     *)
THEOREM DriversExitClean == DriversSpec => []CleanExit
<1>1. DriversInv => CleanExit
  BY DEF DriversInv, DriverGone, StrayRaises, CleanExit
<1> QED BY <1>1, DriversInvariant, PTL

(* Whatever such a driver executes was built from the sources as they stand. *)
THEOREM DriversRunFresh == DriversSpec => []FreshBinary
<1>1. ASSUME DriversInv
      PROVE  FreshBinary
  <2>1. CASE command = "live"
    BY <1>1, <2>1 DEF DriversInv, CommandExpected, FreshBinary
  <2>2. CASE At("start")
    <3>1. Running /\ step.op = "start"
      BY <2>2 DEF At, step
    <3>2. step.uses # "none" => step.uses \in fresh
      BY <1>1, <3>1, RunningClean DEF Needs
    <3> QED BY <3>2 DEF FreshBinary
  <2> QED BY <2>1, <2>2 DEF FreshBinary
<1> QED BY <1>1, DriversInvariant, PTL
=============================================================================
