---------------------------- MODULE SuiteRunner ----------------------------
(* tools/ci-run-suites.mjs: runSuites starts two test suites at once, each  *)
(* the leader of a process group of its own, and must leave none of their   *)
(* processes to the CI steps that follow.  The runner is one event loop, so *)
(* each callback is one action; suites, their descendants and the operator's *)
(* signals interleave with it freely.  Logs, status.json and the stage      *)
(* receipt's contents are left out (the receipt is in EvidenceArchive).     *)
EXTENDS FiniteSets

CONSTANT Suites                 \* the suites of one call, two of them

VARIABLES
  leader,         \* state of the process runSuites spawned for a suite
  descendant,     \* a process the suite started in its group
  record,         \* record.state of each suite
  orphaned,       \* suites with record.orphanedDescendants
  stage_failed,   \* suites with record.stageEvidenceError
  groups,         \* suites whose group identifier the runner still owns
  cancellation,   \* the signal that cancelled the run, "" while there is none
  terminated,     \* the promise of cancel's timer: "none", "armed", "resolved"
  result          \* what runSuites returned, "" before

suite_vars == <<leader, descendant, record, orphaned, stage_failed, groups,
                cancellation, terminated, result>>

(* "deaf" processes ignore SIGTERM; "lost" is a leader that could not start. *)
Alive == {"live", "deaf"}
Over == {"zero", "nonzero", "signalled", "lost"}

SuitesInit ==
  /\ leader = [s \in Suites |-> "none"]
  /\ descendant = [s \in Suites |-> "none"]
  /\ record = [s \in Suites |-> "pending"]
  /\ orphaned = {} /\ stage_failed = {} /\ groups = {}
  /\ cancellation = "" /\ terminated = "none" /\ result = ""

(* The executor of each promise runs in the same turn of the event loop: a   *)
(* suite that cannot be spawned has no pid and enters no group.              *)
StartSuites ==
  /\ \A s \in Suites : record[s] = "pending"
  /\ record' = [s \in Suites |-> "running"]
  /\ \E spawned \in SUBSET Suites :
       /\ leader' = [s \in Suites |-> IF s \in spawned THEN "live" ELSE "lost"]
       /\ groups' = spawned
  /\ UNCHANGED <<descendant, orphaned, stage_failed, cancellation, terminated, result>>

(* The suites' own behaviour.  A leader waits for what it starts or leaves   *)
(* it behind, stops listening to SIGTERM, and ends when it likes.            *)
SuiteForks(s) ==
  /\ leader[s] \in Alive /\ descendant[s] = "none"
  /\ descendant' = [descendant EXCEPT ![s] = "live"]
  /\ UNCHANGED <<leader, record, orphaned, stage_failed, groups, cancellation, terminated, result>>

SuiteIgnores(s) ==
  /\ \/ leader[s] = "live" /\ leader' = [leader EXCEPT ![s] = "deaf"] /\ UNCHANGED descendant
     \/ descendant[s] = "live" /\ descendant' = [descendant EXCEPT ![s] = "deaf"] /\ UNCHANGED leader
  /\ UNCHANGED <<record, orphaned, stage_failed, groups, cancellation, terminated, result>>

SuiteExits(s) ==
  /\ leader[s] \in Alive
  /\ \E code \in {"zero", "nonzero"} : leader' = [leader EXCEPT ![s] = code]
  /\ UNCHANGED <<descendant, record, orphaned, stage_failed, groups, cancellation, terminated, result>>

DescendantExits(s) ==
  /\ descendant[s] \in Alive
  /\ descendant' = [descendant EXCEPT ![s] = "gone"]
  /\ UNCHANGED <<leader, record, orphaned, stage_failed, groups, cancellation, terminated, result>>

(* signalGroup(pid, 'SIGTERM') and signalGroup(pid, 'SIGKILL') on the groups G. *)
Hit(signal, state) == state = "live" \/ (signal = "KILL" /\ state = "deaf")
signalGroup(G, signal) ==
  /\ leader' = [s \in Suites |->
       IF s \in G /\ Hit(signal, leader[s]) THEN "signalled" ELSE leader[s]]
  /\ descendant' = [s \in Suites |->
       IF s \in G /\ Hit(signal, descendant[s]) THEN "gone" ELSE descendant[s]]

(* signalGroup(pid, 0): some process of the group is there.                  *)
GroupAlive(s) == leader[s] \in Alive \/ descendant[s] \in Alive

(* onInt and onTerm call cancel; a second signal changes nothing.            *)
Installed == result = "" /\ \A s \in Suites : record[s] # "pending"
cancel(signal) ==
  /\ Installed /\ cancellation = ""
  /\ cancellation' = signal
  /\ signalGroup(groups, "TERM")
  /\ terminated' = "armed"
  /\ UNCHANGED <<record, orphaned, stage_failed, groups, result>>

(* Variants used to test the properties: a timer that forgets the groups    *)
(* whose leader has closed, and one that never resolves its promise.         *)
Timer(G, signal) ==
  /\ terminated = "armed"
  /\ signalGroup(G, signal)
  /\ terminated' = "resolved"
  /\ UNCHANGED <<record, orphaned, stage_failed, groups, cancellation, result>>
CancelTimerRunningOnly == Timer(groups \ {s \in Suites : record[s] = "completed"}, "KILL")
CancelTimerUnresolved ==
  /\ terminated = "armed"
  /\ signalGroup(groups, "KILL")
  /\ UNCHANGED <<record, orphaned, stage_failed, groups, cancellation, terminated, result>>
(* The callback of cancel's setTimeout.                                      *)
CancelTimer == Timer(groups, "KILL")

(* recovery-stage.py finalize may reject the root suite's receipt.           *)
Completes(s) ==
  /\ record' = [record EXCEPT ![s] = "completed"]
  /\ \E bad \in BOOLEAN : stage_failed' = IF bad THEN stage_failed \cup {s} ELSE stage_failed

(* child.on('close'): without a cancellation the group must be empty, or the *)
(* handler asks what is left to stop and waits out the grace period.         *)
close(s) ==
  /\ record[s] = "running" /\ leader[s] \in Over
  /\ IF cancellation = "" /\ leader[s] # "lost" /\ GroupAlive(s)
     THEN /\ orphaned' = orphaned \cup {s}
          /\ signalGroup({s}, "TERM")
          /\ record' = [record EXCEPT ![s] = "closing"]
          /\ UNCHANGED <<stage_failed, groups>>
     ELSE /\ groups' = IF cancellation = "" THEN groups \ {s} ELSE groups
          /\ Completes(s)
          /\ UNCHANGED <<leader, descendant, orphaned>>
  /\ UNCHANGED <<cancellation, terminated, result>>

GraceOver(s) ==
  /\ record[s] = "closing"
  /\ signalGroup({s}, "KILL")
  /\ groups' = IF cancellation = "" THEN groups \ {s} ELSE groups
  /\ Completes(s)
  /\ UNCHANGED <<orphaned, cancellation, terminated, result>>

(* await Promise.all, await terminated, and the value returned.              *)
AllClosed == \A s \in Suites : record[s] = "completed"
Return ==
  /\ result = "" /\ AllClosed /\ terminated # "armed"
  /\ result' = CASE cancellation # "" -> cancellation
                 [] cancellation = "" /\ orphaned = {} /\ stage_failed = {}
                    /\ (\A s \in Suites : leader[s] = "zero") -> "success"
                 [] OTHER -> "failure"
  /\ UNCHANGED <<leader, descendant, record, orphaned, stage_failed, groups, cancellation, terminated>>

SuitesEnded == result # ""

SuitesNext ==
  \/ StartSuites
  \/ \E s \in Suites : SuiteForks(s) \/ SuiteIgnores(s) \/ SuiteExits(s) \/ DescendantExits(s)
  \/ \E signal \in {"SIGINT", "SIGTERM"} : cancel(signal)
  \/ CancelTimer
  \/ \E s \in Suites : close(s) \/ GraceOver(s)
  \/ Return

SuitesSpec == SuitesInit /\ [][SuitesNext]_suite_vars

(* The event loop delivers what is due; the suites owe nothing.              *)
SuitesFairness ==
  /\ WF_suite_vars(StartSuites) /\ WF_suite_vars(CancelTimer) /\ WF_suite_vars(Return)
  /\ \A s \in Suites : WF_suite_vars(close(s)) /\ WF_suite_vars(GraceOver(s))

(* When runSuites returns, by any path, no process of any suite is left for  *)
(* the later steps of the job, descendants that outlive their leader or      *)
(* ignore SIGTERM included, and success is reported only for suites that     *)
(* ended with code zero and left nothing behind.                             *)
NoSuiteLeft ==
  SuitesEnded =>
    /\ \A s \in Suites : ~ GroupAlive(s)
    /\ result = "success" => orphaned = {} /\ \A s \in Suites : leader[s] = "zero"

(* A cancelled run ends, whatever the suites do with their signals.          *)
CancelledRunEnds == (cancellation # "") ~> SuitesEnded
=============================================================================
