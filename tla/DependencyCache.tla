---------------------------- MODULE DependencyCache ----------------------------
(***************************************************************************)
(* The builders of external tools and libraries and the installations they *)
(* leave for every later build: tools/qbe_toolchain.py, the network,       *)
(* crypto, compression and oidc builders, tools/network_artifacts.py       *)
(* (verify, install) and the source bundle of tools/official-sources.py.   *)
(* Two builders may share a cache and an output; a command may fail, a     *)
(* download may break off, a builder may be killed between any two steps,  *)
(* and a checkout changes the pinned inputs between runs.                  *)
(***************************************************************************)
EXTENDS Integers, Sequences, SequencesExt, FiniteSets

CONSTANTS
    Families,   \* the builders an instance covers
    Builders,   \* concurrent runs that share the cache and the output
    Inputs,     \* versions of the pinned inputs, 1..Inputs
    Attempts,   \* SOURCE_DOWNLOAD_ATTEMPTS, 3 in the code
    MaxFaults,  \* failed commands and downloads, kills
    MaxSwitches \* changes of the pinned inputs

Families_ == {"qbe", "network", "crypto", "compression", "oidc", "install", "sources"}

ASSUME DependencyAssumption ==
    /\ Families \subseteq Families_ /\ IsFiniteSet(Builders) /\ Builders # {}
    /\ Inputs \in Nat \ {0} /\ Attempts \in Nat \ {0} /\ MaxFaults \in Nat /\ MaxSwitches \in Nat

VARIABLES
    family,     \* which builder runs
    inputs,     \* what the checkout pins now
    cache,      \* the source archive: absent, partial while written in place, whole
    installed,  \* per installed file, the build it comes from
    receipt,    \* the build the receipt, or the source catalog, describes
    litter,     \* pending files left in an output directory that is kept
    run,        \* the state of each builder
    returned,   \* what each builder's last success named
    faults, switches

vars == <<family, inputs, cache, installed, receipt, litter, run, returned, faults, switches>>
place == <<installed, receipt, litter>>
----------------------------------------------------------------------------
\* A build is known by its pinned inputs and by who made it.
None == [inputs |-> 0, by |-> 0]
Build(b) == [inputs |-> run[b].inputs, by |-> b]

\* The commands and checks of a build, in order; any of them may fail.
check_ordered_effects == <<"call order">>
check_copy_liveness == <<"copy cycle">>
check_contraction == <<"contraction">>
check_capability == <<"selection", "motion", "address motion", "single comparison">>
                    \o check_copy_liveness \o check_contraction \o check_ordered_effects
qbe_steps == <<"unpack", "patch", "make">> \o check_capability
network_steps == <<"abi", "libuv", "llhttp", "licenses", "identity">>
crypto_steps == <<"configure", "make", "abi", "licenses", "identity", "verify">>
compression_steps == <<"abi", "configure", "make", "licenses", "identity", "verify">>
verify_openssl_headers == <<"one translation unit", "headers of the prefix">>
oidc_steps == <<"verified crypto", "openssl", "zlib", "curl configuration", "pinned openssl">> \o verify_openssl_headers
              \o <<"curl", "abi", "licenses", "identity", "verify">>
install_steps == <<"digest", "expand", "members", "verify">>
reference_files == <<"revision", "packages", "standard sources", "license">>
bundle_files == <<"previous bundle">>
sources_steps == reference_files \o <<"adapters", "catalog">> \o bundle_files

BuildSteps == CASE family = "qbe" -> qbe_steps
           [] family = "network" -> network_steps
           [] family = "crypto" -> crypto_steps
           [] family = "compression" -> compression_steps
           [] family = "oidc" -> oidc_steps
           [] family = "install" -> install_steps
           [] family = "sources" -> sources_steps

artifact_spec == CASE family = "qbe" -> <<"qbe">>
                   [] family = "network" -> <<"libraries", "network-identity.o">>
                   [] family = "sources" -> <<"bundle">>
                   [] OTHER -> <<"library", "identity.o">>
FilesOf == ToSet(artifact_spec)

\* Families whose output is one directory, renamed into place and never replaced.
Renamed == family \in {"crypto", "compression", "oidc", "install"}
\* Families that write the source archive in place.
InPlace == family \in {"network", "crypto", "compression", "oidc"}
NoRun == [pc |-> "idle", inputs |-> 0, todo |-> <<>>, attempt |-> 1, seen |-> None]

Init ==
    /\ family \in Families /\ inputs = 1 /\ cache = "absent"
    /\ installed = [f \in FilesOf |-> None] /\ receipt = None /\ litter = {}
    /\ run = [b \in Builders |-> NoRun]
    /\ returned = [b \in Builders |-> [inputs |-> 0, files |-> {}]]
    /\ faults = 0 /\ switches = 0

Fault == faults < MaxFaults /\ faults' = faults + 1
InStage(b, pc) == run[b].pc = pc
Goto(b, pc) == run' = [run EXCEPT ![b].pc = pc]
End(b) == run' = [run EXCEPT ![b] = NoRun]
\* What a network builder reports is its output directory, which verify judges.
Report(b) == returned' = IF family = "network" THEN returned ELSE
                         [returned EXCEPT ![b] = [inputs |-> run[b].inputs, files |-> {installed'[f] : f \in FilesOf}]]
exists == \E f \in FilesOf : installed[f] # None

\* verify: the receipt has the pins of this checkout and every file is the one
\* it lists, with no other file beside them.
verify == receipt.inputs = inputs /\ (\A f \in FilesOf : installed[f] = receipt) /\ litter = {}
----------------------------------------------------------------------------
\* What a build is identified by: the pins of the checkout, each file checked
\* against the digest they state, with the compiler, flags and builder in use.
backend_identity == inputs

\* A new run.  qbe looks at its receipt first; a directory that is there is
\* refused by the families that rename.
Start(b) ==
    /\ InStage(b, "idle") /\ (family = "sources" => b = CHOOSE c \in Builders : TRUE)
    /\ ~(Renamed /\ exists)
    /\ run' = [run EXCEPT ![b] = [NoRun EXCEPT !.inputs = backend_identity, !.seen = receipt,
                 !.pc = IF family = "qbe" THEN "compare" ELSE IF InPlace THEN "fetch" ELSE "build", !.todo = BuildSteps]]
    /\ UNCHANGED <<family, inputs, cache, place, returned, faults, switches>>

\* The reuse of an earlier build: the receipt it has read names these inputs
\* and the digest of the binary as it is now.
ReceiptMatches(b) == run[b].seen.inputs = run[b].inputs
Reuse(b, matches) ==
    /\ InStage(b, "compare")
    /\ IF installed["qbe"] # None /\ matches THEN End(b) /\ UNCHANGED installed /\ Report(b)
                                             ELSE Goto(b, "fetch") /\ UNCHANGED <<installed, returned>>
    /\ UNCHANGED <<family, inputs, cache, receipt, litter, faults, switches>>
\* Mutant of Compare: the binary on disk is not compared with the receipt.
CompareInputs(b) == Reuse(b, ReceiptMatches(b))
Compare(b) == Reuse(b, ReceiptMatches(b) /\ run[b].seen = installed["qbe"])

\* Mutant of fetch_qbe: the archive is downloaded under its final name.
fetch_qbe_in_place(b) ==
    /\ family = "qbe" /\ UNCHANGED cache
    /\ IF cache = "partial" THEN End(b) ELSE Goto(b, IF cache = "absent" THEN "write" ELSE "build")

\* qbe downloads to its own directory and renames a verified archive over.
fetch_qbe(b) ==
    /\ family = "qbe" /\ cache' = IF cache = "absent" THEN "whole" ELSE cache
    /\ IF cache = "partial" THEN End(b) ELSE Goto(b, "build")
\* The others read the archive when it is there, and check what they read.
extract(b) ==
    /\ InPlace /\ UNCHANGED cache
    /\ IF cache = "partial" THEN End(b) ELSE Goto(b, IF cache = "absent" THEN "write" ELSE "open")
Fetch(b) ==
    /\ InStage(b, "fetch") /\ (fetch_qbe(b) \/ extract(b))
    /\ UNCHANGED <<family, inputs, place, returned, faults, switches>>

\* A transient error is retried by the oidc builder only.
download_source(b) ==
    /\ InStage(b, "fetch") /\ cache = "absent" /\ Fault
    /\ \E transient \in BOOLEAN :
         IF family = "oidc" /\ transient /\ run[b].attempt < Attempts
         THEN run' = [run EXCEPT ![b].attempt = @ + 1] ELSE End(b)
    /\ UNCHANGED <<family, inputs, cache, place, returned, switches>>

\* archive.write_bytes.  If another builder has created the file meanwhile, the oidc
\* builder writes over it; the others open it, whatever it holds now.
WriteBegin(b) ==
    /\ InStage(b, "write")
    /\ IF cache = "absent" \/ family = "oidc" THEN cache' = "partial" /\ Goto(b, "writing")
                                               ELSE UNCHANGED cache /\ Goto(b, "open")
    /\ UNCHANGED <<family, inputs, place, returned, faults, switches>>
WriteEnd(b) ==
    /\ InStage(b, "writing") /\ cache' = "whole" /\ Goto(b, "open")
    /\ UNCHANGED <<family, inputs, place, returned, faults, switches>>
Open(b) ==
    /\ InStage(b, "open") /\ (IF cache = "whole" THEN Goto(b, "build") ELSE End(b))
    /\ UNCHANGED <<family, inputs, cache, place, returned, faults, switches>>

\* One command or check of the build; a failure raises and leaves no trace
\* outside the builder's own temporary directory.
Command(b) ==
    /\ InStage(b, "build")
    /\ IF run[b].todo # <<>> THEN run' = [run EXCEPT ![b].todo = Tail(@)]
       ELSE run' = [run EXCEPT ![b].pc = "publish", ![b].todo = artifact_spec]
    /\ UNCHANGED <<family, inputs, cache, place, returned, faults, switches>>
CommandFails(b) ==
    /\ InStage(b, "build") /\ run[b].todo # <<>> /\ Fault /\ End(b)
    /\ UNCHANGED <<family, inputs, cache, place, returned, switches>>
----------------------------------------------------------------------------
\* Publication.  A verified directory is renamed; the rename fails when another
\* builder's directory is there.
publish_directory(b) ==
    /\ InStage(b, "publish") /\ Renamed /\ End(b)
    /\ IF exists THEN UNCHANGED <<installed, receipt, returned>>
       ELSE installed' = [f \in FilesOf |-> Build(b)] /\ receipt' = Build(b) /\ Report(b)
    /\ UNCHANGED <<family, inputs, cache, litter, faults, switches>>

\* The network builder: per file a pending copy in the output directory, which
\* then takes the file's name; the receipt last.
publish_pending(b) ==
    /\ InStage(b, "publish") /\ family = "network" /\ run[b].todo # <<>> /\ b \notin litter
    /\ litter' = litter \cup {b}
    /\ UNCHANGED <<family, inputs, cache, installed, receipt, run, returned, faults, switches>>
publish_file(b) ==
    /\ InStage(b, "publish") /\ family = "network" /\ run[b].todo # <<>> /\ b \in litter
    /\ installed' = [installed EXCEPT ![Head(run[b].todo)] = Build(b)] /\ litter' = litter \ {b}
    /\ run' = [run EXCEPT ![b].todo = Tail(@)]
    /\ UNCHANGED <<family, inputs, cache, receipt, returned, faults, switches>>
publish_receipt(b) ==
    /\ InStage(b, "publish") /\ family \in {"network", "qbe"} /\ run[b].todo = <<>>
    /\ receipt' = Build(b) /\ End(b) /\ UNCHANGED installed /\ Report(b)
    /\ UNCHANGED <<family, inputs, cache, litter, faults, switches>>

\* qbe: the binary is renamed over, then the receipt.
publish_binary(b) ==
    /\ InStage(b, "publish") /\ family = "qbe" /\ run[b].todo # <<>>
    /\ installed' = [installed EXCEPT !["qbe"] = Build(b)] /\ run' = [run EXCEPT ![b].todo = <<>>]
    /\ UNCHANGED <<family, inputs, cache, receipt, litter, returned, faults, switches>>

\* official-sources sync: the old bundle is moved aside, the staged one takes
\* its place, and a failed rename puts the old one back; then the catalog.
sync_aside(b) ==
    /\ InStage(b, "publish") /\ family = "sources"
    /\ run' = [run EXCEPT ![b].pc = "aside", ![b].seen = installed["bundle"]]
    /\ installed' = [installed EXCEPT !["bundle"] = None]
    /\ UNCHANGED <<family, inputs, cache, receipt, litter, returned, faults, switches>>
sync_bundle(b) ==
    /\ InStage(b, "aside")
    /\ \/ /\ installed' = [installed EXCEPT !["bundle"] = Build(b)] /\ Goto(b, "catalog") /\ UNCHANGED faults
       \/ /\ Fault /\ installed' = [installed EXCEPT !["bundle"] = run[b].seen] /\ End(b)
    /\ UNCHANGED <<family, inputs, cache, receipt, litter, returned, switches>>
sync_catalog(b) ==
    /\ InStage(b, "catalog") /\ receipt' = Build(b) /\ End(b) /\ UNCHANGED installed /\ Report(b)
    /\ UNCHANGED <<family, inputs, cache, litter, faults, switches>>
----------------------------------------------------------------------------
\* A builder is killed.  What it holds in its own directory goes with it, and a
\* bundle it had moved aside; a partial archive and a pending file stay.
Killed(b) ==
    /\ ~InStage(b, "idle") /\ Fault /\ End(b)
    /\ UNCHANGED <<family, inputs, cache, place, returned, switches>>

\* The checkout moves to other pins while no builder runs.  The families that
\* refuse an existing directory are given a new one then.
Switch ==
    /\ switches < MaxSwitches /\ switches' = switches + 1
    /\ \A b \in Builders : InStage(b, "idle")
    /\ inputs' \in (1..Inputs) \ {inputs}
    /\ IF InPlace \/ family = "qbe" THEN cache' \in {cache, "absent"} ELSE UNCHANGED cache
    /\ IF Renamed THEN installed' = [f \in FilesOf |-> None] /\ receipt' = None /\ litter' = {}
                  ELSE UNCHANGED place
    /\ UNCHANGED <<family, run, returned, faults>>

Step(b) ==
    \/ Start(b) \/ Compare(b) \/ Fetch(b) \/ WriteBegin(b) \/ WriteEnd(b) \/ Open(b) \/ Command(b)
    \/ publish_directory(b) \/ publish_pending(b) \/ publish_file(b) \/ publish_receipt(b) \/ publish_binary(b)
    \/ sync_aside(b) \/ sync_bundle(b) \/ sync_catalog(b)

Next == Switch \/ \E b \in Builders : Step(b) \/ download_source(b) \/ CommandFails(b) \/ Killed(b)

\* Every build that needs the dependency runs the builder again, and a builder
\* that is not killed goes on.
Spec == Init /\ [][Next]_vars /\ \A b \in Builders : WF_vars(Step(b))
----------------------------------------------------------------------------
\* Whatever two builders interleave, and wherever one was killed, an
\* installation that verify accepts is one whole build of the current pins, a
\* directory renamed into place is never mixed, and the qbe binary or source
\* bundle a run returned was made from the inputs of that run.
OneBuild ==
    /\ verify => \E b \in Builders : \A f \in FilesOf : installed[f] = [inputs |-> inputs, by |-> b]
    /\ Renamed => Cardinality({installed[f] : f \in FilesOf} \cup {receipt}) = 1
    /\ family # "network" => \A b \in Builders : \A x \in returned[b].files : x.inputs = returned[b].inputs

\* Once commands, downloads and kills stop failing, repeated runs of the qbe
\* builder, the artifact installer and the source bundle end in an accepted
\* installation again and again, whatever state the failures left behind.
Recovers == family \in {"qbe", "install", "sources"} => []<>verify
=============================================================================
