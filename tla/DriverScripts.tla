--------------------------- MODULE DriverScripts ---------------------------
(* The acceptance drivers of tools/ (native-*-test.py), each as the sequence *)
(* of steps its main program takes.  A step is a command run to completion,  *)
(* a step of a longer-lived session process, a scope entered or left, or an  *)
(* assertion.  What a command is given and what its output must be is left   *)
(* out; kept are which wait has a timeout, which has not, what is built,     *)
(* rewritten and executed, and which cleanup protects what.  A loop over     *)
(* cases is two passes of its body.  TestDrivers gives the steps meaning.    *)
EXTENDS Sequences, Naturals

Step(op, wait, makes, uses) ==
  [op |-> op, wait |-> wait, makes |-> makes, uses |-> uses, skip |-> 0]
Do(op) == Step(op, "none", "none", "none")

(* Commands: subprocess.run with a timeout whose failure raises; the same    *)
(* building or executing a binary; without a timeout ("plain"); in a session *)
(* of its own, killed as a group ("group"); with the outcome recorded in a   *)
(* row and judged at the end ("row", "grouprow").                            *)
Run == Step("command", "timed", "none", "none")
Build(x) == Step("command", "timed", x, "none")
Exec(x) == Step("command", "timed", "none", x)
Plain == Step("command", "plain", "none", "none")
PlainBuild(x) == Step("command", "plain", x, "none")
PlainExec(x) == Step("command", "plain", "none", x)
Group == Step("command", "group", "none", "none")
GroupBuild(x) == Step("command", "group", x, "none")
GroupExec(x) == Step("command", "group", "none", x)
GroupRow == Step("command", "grouprow", "none", "none")
GroupRowBuild(x) == Step("command", "grouprow", x, "none")
GroupRowExec(x) == Step("command", "grouprow", "none", x)
Row(x) == Step("command", "row", "none", x)
(* A source that binary x is built from is written; rows are judged.         *)
Write(x) == Step("write", "none", x, "none")
Assert == Do("assert")
Verdict == Do("verdict")
(* Scopes: a temporary directory, or a try whose finally block is named      *)
(* (a report written or a thread joined leaves no trace here).               *)
Temp == Do("temp")
Try(finally) == Step("try", finally, "none", "none")
End == Do("end")
(* Sessions: Popen of binary x, or of a compiler that starts processes of    *)
(* its own, or of a REPL, which starts none; the fork of a terminal; a       *)
(* server polled until it listens; a prompt or marker read by a deadline;    *)
(* and the collection of the process by communicate with a timeout, which    *)
(* raises, kills the group and raises, or is recorded.                       *)
Start(x) == Step("start", "none", "none", x)
StartCompiler == Step("start", "forks", "none", "none")
StartRepl == Do("start")
Fork == Step("start", "tty", "none", "none")
Listen == Do("listen")
Ready == Do("ready")
Collect == Do("collect")
CollectGroup == Do("collectgroup")
CollectRow == Do("collectrow")
(* The steps s are taken only under the command-line option f ("compare": a  *)
(* reference compiler is given; "clean": no row has failed so far).          *)
Opt(f, s) == <<[Step("option", f, "none", "none") EXCEPT !.skip = Len(s)]>> \o s

Times(n, step) == [i \in 1 .. n |-> step]
Each(s) == s \o s

(* Emission instrumented so that each allocation collects, then assembled    *)
(* and linked by hand.                                                       *)
Forced(x) == <<Run, Write(x), Run, Build(x), Exec(x)>>

(* native-cli-test.py: forty-seven other drivers without a timeout of their  *)
(* own, then the compiler's command line, projects, REPL and terminal.       *)
cli_suites == Times(47, Plain)
cli_cells == <<Temp, Write("probe"), Build("probe"), Exec("probe")>>
cli_conformance ==
  Each(<<Write("case"), Run, Build("case"), Exec("case"), Exec("case"), Run>>) \o <<Run>>
cli_operands ==
  Each(<<Write("operands"), Run, Build("operands"), Exec("operands"), Run>>) \o <<Run>>
cli_rejections ==
     Each(<<Write("case"), Build("case"), Exec("case"), Run>>)
  \o Each(<<Write("case"), Run, Build("case"), Exec("case"), Run>>)
  \o Each(<<Write("case"), Run, Run, Run>>) \o <<Run>>
cli_commands ==
     Times(3, Run) \o Each(<<Run>>)
  \o <<Write("standard"), Run, Run, Run, Build("standard"), PlainExec("standard"),
       Write("hello")>> \o Times(9, Run)
  \o <<Build("hello"), PlainExec("hello"), Write("hello"), Run, Assert, Write("hello"), Run>>
cli_interrupt == <<Write("hello"), StartCompiler, Try("kill"), Ready, Collect, End>>
cli_projects ==
     Times(12, Run) \o Each(<<Run>>)
  \o Times(2, Run) \o <<Write("record"), Run, Run, Write("record"), Run, Write("record"), Run>>
  \o Times(6, Run)
cli_repl == Times(8, Run)
cli_terminal == <<Fork, Try("pty")>> \o Times(22, Ready) \o <<Collect, End, Assert, End>>
cli ==
  cli_suites \o cli_cells \o cli_conformance \o cli_operands \o cli_rejections
  \o cli_commands \o cli_interrupt \o cli_projects \o cli_repl \o cli_terminal

(* native-json-test.py *)
json_contracts ==
     <<Temp, Write("program"), Run, Build("program"), Exec("program"), Run>> \o Forced("forced")
  \o <<Write("program"), Run, Build("program"), Exec("program"), Run>>
  \o <<Write("program"), Build("program"), Exec("program")>>
json_corpus == <<Write("program")>>
json_generated ==
  <<Build("program"), Exec("program")>> \o Forced("forced") \o Opt("compare", <<Run>>)
  \o <<Run>> \o Opt("compare", <<Run>>)
json_cursor == Opt("compare", <<Write("program"), Run, Build("program"), Exec("program")>>)
json_paths ==
     Each(<<Write("program"), Build("program"), Exec("program")>>) \o Opt("compare", <<Run>>)
  \o Each(Forced("forced")) \o Each(<<Write("program"), Run>>)
  \o Each(<<Write("program"), Run>>) \o <<End>>
json == json_contracts \o json_corpus \o json_generated \o json_cursor \o json_paths

(* native-web-network-test.py: run_server starts the server outside any try  *)
(* and answers for it itself; each section then protects it by a finally.    *)
run_server == <<Start("program"), Listen>>
web_build ==
     <<Temp, Write("program"), Build("program")>>
  \o Opt("stress", <<Run, Write("program"), Plain, PlainBuild("program")>>) \o <<Assert>>
web_config_errors == Opt("dynamic", <<Exec("program")>>) \o Each(<<Exec("program")>>)
web_exchanges ==
  run_server \o <<Try("killwait"), Assert, Exec("program"), Assert, Collect, Assert, End>>
web_restart == run_server \o <<Try("killwait"), Collect, Assert, End>>
web_draining == run_server \o <<Try("killwait"), Assert, Collect, Assert, End, End>>
web_network == web_build \o web_config_errors \o web_exchanges \o web_restart \o web_draining

(* native-oidc-test.py: a provider in the driver's own threads, and one row  *)
(* per case; keys and tokens are made by openssl.                            *)
oidc_build ==
     <<Try("report"), Temp, Write("application"), Build("application")>>
  \o Opt("compare", <<Plain>>) \o Opt("stress", <<Run, Write("application"), Run, Build("application")>>)
oidc_provider == Times(4, Run) \o Opt("tls", <<Run>>) \o <<Try("provider")>>
oidc_cases == Each(<<Run>>)
oidc_rows == Each(<<Row("application")>>)
oidc_paths ==
  Opt("paths", Each(<<Run>>) \o <<Run, Run>> \o Each(<<Run>>)) \o <<End, Verdict, End, End>>
oidc == oidc_build \o oidc_provider \o oidc_cases \o oidc_rows \o oidc_paths

(* native-web-compression-test.py: an installed compiler without, then with, *)
(* its optional library; the program is overwritten to see it kept.          *)
exercise_http(x) == <<Start(x), Try("term"), Ready, Assert, End>>
compression_isolation ==
  <<Temp, Write("program"), Build("program"), Exec("program"), Write("program"), Run, Run>>
compression_paths == <<Run, Run>> \o Each(<<Build("program"), Exec("program")>>) \o <<Run, Run>>
compression_forced ==
     Forced("program") \o Each(<<Exec("program")>>)
  \o <<Write("baseline"), Build("baseline"), Exec("baseline")>>
compression_boundary ==
  <<Write("program"), Run, Build("program"), Exec("program"),
    Write("program"), Build("program"), Exec("program")>>
compression_servers ==
     <<Write("server"), Build("server")>>
  \o Each(<<Write("server"), Build("server")>> \o exercise_http("server")
         \o <<Write("bare"), Build("bare")>> \o exercise_http("bare"))
  \o Each(exercise_http("server")) \o <<End>>
web_compression ==
  compression_isolation \o compression_paths \o compression_forced
  \o compression_boundary \o compression_servers

(* native-filesystem-test.py *)
filesystem_build == <<Temp, Write("program"), Build("program")>>
filesystem_files == Times(25, Exec("program"))
filesystem_directories == Times(12, Exec("program"))
filesystem_repl == <<Run, Run, End>>
filesystem == filesystem_build \o filesystem_files \o filesystem_directories \o filesystem_repl

(* native-git-package-test.py: fixture repositories are written by git       *)
(* without a timeout; the interrupted fetch runs in a group of its own.      *)
publish == Times(4, Plain)
repository == Times(3, Plain) \o publish
git_install == <<Temp>> \o repository \o repository \o repository \o Times(17, Run)
git_update ==
     publish \o publish \o Times(4, Run) \o publish \o publish \o <<Run>>
  \o Each(publish \o <<Run>>) \o Times(6, Run)
git_add ==
     Times(3, Run) \o <<Plain>> \o Times(3, Run)
  \o repository \o Each(publish \o <<Run>>) \o Each(publish) \o <<Run, Run>>
  \o Each(<<Run, Run>>) \o repository \o <<Run, Run>>
  \o Each(repository \o <<Run>>) \o repository \o publish \o <<Run>>
git_offline == repository \o Times(12, Run)
git_interrupt == Each(<<StartCompiler, Try("gitgroup"), Ready, Collect, Assert, End>>)
git_success_signal == Times(3, Run)
verify_collection_lifetimes == Forced("forced") \o <<End>>
git_package ==
  git_install \o git_update \o git_add \o git_offline \o git_interrupt
  \o git_success_signal \o verify_collection_lifetimes

(* native-official-import-test.py *)
official_files ==
  <<Temp, Write("program"), Run, Build("program"), Exec("program"),
    Write("program"), Run, Build("program"), Exec("program"), Run>>
official_web ==
     <<Write("program"), Run, Build("program"), Exec("program"), Run, Write("program")>>
  \o Opt("compare", <<Run, Build("program"), Exec("program")>>)
official_lifetime == <<Write("program")>> \o Forced("program")
official_probe ==
  <<Write("program"), Build("program"), Exec("program"),
    Write("program"), Run, Build("program"), Exec("program")>>
official_rejections ==
  <<Write("program"), Build("program"), Exec("program")>> \o Each(<<Write("program"), Run>>) \o <<Run>>
official_retained ==
     <<Run>>
  \o Opt("compare", <<Write("program"), Run, Build("program"), Exec("program"), Run, Run>>) \o <<End>>
official_import ==
  official_files \o official_web \o official_lifetime \o official_probe
  \o official_rejections \o official_retained

(* native-test-values-test.py: every group by each compiler given.           *)
replay == <<Run>>
test_values ==
  <<Try("report"), Temp>> \o Each(Opt("compare", replay) \o replay) \o <<End, End>>

(* native-object-methods-test.py *)
objects_forced == <<Temp>> \o Each(<<Write("program"), Run>> \o Forced("program"))
objects_sessions == Times(5, Run)
objects_inheritance == Times(2, Run) \o <<Run, End>>
object_methods == objects_forced \o objects_sessions \o objects_inheritance

(* native-string-index-test.py and native-string-builder-test.py *)
index_emission == <<Temp, Run, End>>
index_probe ==
  <<Temp, Write("probe"), Run, Build("probe"), Exec("probe")>> \o Each(<<Exec("probe")>>) \o <<End>>
string_index == index_emission \o index_probe
builder_cases ==
  <<Temp>> \o Each(<<Write("case"), Run, Build("case"), Exec("case")>>
                    \o Opt("compare", <<Run>>) \o Forced("forced"))
builder_retention == Each(Forced("cleared"))
builder_spans == <<Run>> \o Each(<<Write("span"), Run, Build("span"), Exec("span")>>)
builder_rejections ==
  Each(<<Run>>) \o Each(<<Write("invalid"), Build("invalid"), Exec("invalid")>>) \o <<Run, End>>
string_builder == builder_cases \o builder_retention \o builder_spans \o builder_rejections

(* native-encoding-test.py *)
encoding_contracts ==
     <<Temp>> \o Opt("compare", <<Write("reference"), Run, Build("reference"), Exec("reference")>>)
  \o <<Write("program"), Run, Build("program"), Exec("program"), Run>>
encoding_forced == <<Write("program")>> \o Forced("program")
encoding_entropy == Each(<<Write("program")>> \o Forced("program")) \o <<Exec("program")>>
encoding_errors ==
     Opt("compare", <<Write("reference"), Run, Build("reference"), Exec("reference")>>)
  \o <<Write("program"), Run, Build("program"), Exec("program"), End>>
encoding == encoding_contracts \o encoding_forced \o encoding_entropy \o encoding_errors

(* native-crypto-test.py *)
crypto_isolation ==
  <<Temp, Write("program"), Build("program"), Exec("program"), Write("program"), Run, Run>>
crypto_paths ==
  <<Run, Run, Build("program"), Exec("program"), Build("program"), Exec("program"), Run, Run>>
crypto_forced == <<Exec("program")>> \o Forced("stressed") \o Each(<<Exec("stressed")>>)
crypto_measure ==
     Opt("measure", Each(<<Write("plain"), Build("plain"), Exec("plain"),
                           Write("digest"), Build("digest"), Exec("digest")>>))
  \o <<Exec("program"), End>>
crypto == crypto_isolation \o crypto_paths \o crypto_forced \o crypto_measure

(* native-repl-editor-test.py: Terminal waits for its first prompt before    *)
(* the caller's try is entered.                                              *)
terminal(waits) == <<Fork, Ready, Try("pty")>> \o Times(waits, Ready) \o <<Collect, End>>
shared_scenarios == <<Temp>> \o terminal(9) \o terminal(1) \o <<End>>
native_scenarios == <<Temp>> \o terminal(22) \o terminal(3) \o terminal(0) \o <<End>>
interpolation_scenarios == <<Temp>> \o terminal(7) \o terminal(8) \o <<End>>
repl_editor ==
  shared_scenarios \o native_scenarios \o interpolation_scenarios \o Opt("compare", shared_scenarios)

(* native-bootstrap-test.py: every build is a process group of its own.      *)
bootstrap_cache ==
  <<Temp>> \o Times(4, Group) \o <<Group>> \o Each(<<Group, Group>>)
bootstrap_plans ==
     Each(<<Group, Group>>) \o Each(<<Group, Group>>) \o Each(<<Group, Group>>)
  \o Each(<<Group, Group>>) \o <<Temp, Group, Group, End, Temp, Group, End>>
bootstrap_failure == <<Group, Group, Group, Group>>
bootstrap_concurrent ==
  <<StartCompiler, StartCompiler, Try("pair"), CollectGroup, CollectGroup, End, Assert,
    Group, Group, End>>
bootstrap == bootstrap_cache \o bootstrap_plans \o bootstrap_failure \o bootstrap_concurrent

(* native-language-coverage.py: a case that did not build is not executed;   *)
(* its worker threads are taken in turn.                                     *)
collect ==
  LET role == <<GroupRow, GroupRowBuild("case"), GroupRowExec("case"), GroupRow>>
  IN <<Write("case")>> \o Opt("compare", role) \o role
language_coverage == <<Temp>> \o Each(<<Temp>> \o collect \o <<End>>) \o <<End, Verdict>>

(* native-time-service-test.py *)
service_registry == <<Try("report"), Temp>> \o Each(collect)
service_programs == Each(<<Write("service"), Group, GroupBuild("service")>>)
service_variants == Each(<<Run, GroupRowExec("service"), GroupRow>>)
service_stress ==
  Opt("stress", Opt("clean", <<Group, Write("forced"), Group, GroupBuild("forced"), GroupExec("forced")>>))
  \o <<End, End, Verdict>>
time_service == service_registry \o service_programs \o service_variants \o service_stress

(* native-callable-test.py, native-repl-flow-test.py: input sessions, then   *)
(* one REPL interrupted by SIGINT.                                           *)
repl_interrupt == <<StartRepl, Try("killtimed"), Ready, Collect, End, End>>
callable == <<Temp>> \o Times(15, Run) \o repl_interrupt
repl_flow == <<Temp>> \o Times(11, Run) \o Each(<<Run>>) \o Times(9, Run) \o repl_interrupt

(* native-cli-key-test.py: one row per terminal scenario.                    *)
cli_key_build == <<Temp, Write("probe"), Plain, PlainBuild("probe")>>
cli_key_rows == Each(<<Start("probe"), Try("kill"), CollectRow, End>>) \o <<End, Verdict>>
cli_key == cli_key_build \o cli_key_rows

(* native-utf8-test.py: most sources are compiled with a collection at every *)
(* string allocation.                                                        *)
utf8_compile(forced) ==
  <<Write("program"), Run>>
  \o (IF forced THEN Forced("program") ELSE <<Build("program"), Exec("program")>>)
utf8_operations ==
  <<Temp>> \o Each(utf8_compile(TRUE)) \o Each(utf8_compile(TRUE)) \o Each(utf8_compile(TRUE))
utf8_queries == Each(utf8_compile(FALSE)) \o Each(utf8_compile(FALSE))
utf8_rejections == utf8_compile(FALSE) \o Each(<<Write("program")>> \o Each(<<Run>>) \o <<Run>>) \o <<End>>
utf8 == utf8_operations \o utf8_queries \o utf8_rejections

(* native-hash-test.py: cases with a reference replay, the same cases with   *)
(* forced collections, failures, rejections and the REPL's own store.        *)
hash_cases ==
  <<Temp>> \o Each(<<Write("case"), Run, Build("case"), Exec("case"), Run>> \o Opt("compare", <<Run, Run>>))
hash_forced == Each(Forced("forced"))
hash_failures == <<Run>> \o Each(<<Write("case"), Build("case"), Exec("case")>>)
hash_rejections == Each(<<Write("case"), Run, Run>> \o Opt("compare", <<Run>>))
hash_store == <<Write("store"), Build("store"), Exec("store"), End>>
hash == hash_cases \o hash_forced \o hash_failures \o hash_rejections \o hash_store

(* native-url-test.py *)
url_contracts ==
     <<Temp, Write("program"), Run, Build("program"), Exec("program"), Run>> \o Forced("forced")
  \o <<Write("program"), Run, Build("program"), Exec("program"), Run>>
url_imports ==
     <<Write("program"), Build("program"), Exec("program"), Write("program"), Run>>
  \o Each(<<Write("program"), Run>> \o Opt("compare", <<Run>>))
  \o <<Write("program"), Run>> \o Each(<<Write("program"), Run>>)
  \o <<Write("program"), Run, Run, Write("program"), Run>>
url_reference ==
  Opt("compare", <<Write("program"), Run, Build("program"), Exec("program"), Run>>) \o <<End>>
url == url_contracts \o url_imports \o url_reference

(* native-string-transforms-test.py: every program is emitted, instrumented, *)
(* assembled and linked, then run over its inputs.                           *)
transforms_compile == <<Write("program"), Run, Write("program"), Run, Build("program")>>
transforms_tables == <<Temp>> \o transforms_compile \o <<Exec("program")>>
transforms_values ==
     transforms_compile \o Each(<<Exec("program")>>)
  \o Each(transforms_compile \o <<Exec("program")>>)
transforms_split ==
     transforms_compile \o Opt("compare", <<Write("reference"), Build("reference")>>)
  \o Each(<<Exec("program")>> \o Opt("compare", <<Exec("reference")>>))
transforms_repl == <<Run, Run>> \o Opt("compare", <<Run>>) \o <<End>>
string_transforms == transforms_tables \o transforms_values \o transforms_split \o transforms_repl

(* native-enum-test.py *)
enum_values == <<Temp>> \o Times(9, Run) \o Each(<<Run>>) \o <<End>>
enum_aliases == Each(<<Temp, Run, End>>)
enum == enum_values \o enum_aliases

(* native-time-test.py *)
time_contracts ==
     <<Temp>> \o Opt("compare", <<Write("reference"), Run, Build("reference"), Exec("reference")>>)
  \o <<Write("program"), Run, Build("program"), Exec("program"), Run>>
time_forced == <<Write("program")>> \o Forced("program") \o <<End>>
time_zones ==
     <<Temp>> \o Opt("compare", <<Write("reference"), Run, Build("reference"), Exec("reference")>>)
  \o <<Write("program"), Run, Build("program"), Exec("program"), End>>
time == time_contracts \o time_forced \o time_zones

Scripts ==
  [cli |-> cli, json |-> json, web_network |-> web_network, oidc |-> oidc,
   web_compression |-> web_compression, filesystem |-> filesystem,
   git_package |-> git_package, official_import |-> official_import,
   test_values |-> test_values, object_methods |-> object_methods,
   string_index |-> string_index, string_builder |-> string_builder,
   encoding |-> encoding, crypto |-> crypto, repl_editor |-> repl_editor,
   bootstrap |-> bootstrap, language_coverage |-> language_coverage,
   time_service |-> time_service, callable |-> callable, repl_flow |-> repl_flow,
   cli_key |-> cli_key, utf8 |-> utf8, hash |-> hash, url |-> url,
   string_transforms |-> string_transforms, enum |-> enum, time |-> time]
=============================================================================
