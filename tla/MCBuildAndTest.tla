---------------------------- MODULE MCBuildAndTest ----------------------------
(* One job of what builds and tests the repository: an acceptance driver,    *)
(* the suite runner with its suites, or the dependency builders.  They share *)
(* no process and no state, so the others are taken to have ended already    *)
(* and stay as they ended.                                                   *)
EXTENDS TestDrivers, SuiteRunner, DependencyCache

Source == INSTANCE DriverScripts
Scripts == Source!Scripts

(* The outline of a script s under the options o, step by step: f[p] holds   *)
(* what is certain ahead of step p, or nothing when no step leads to it.     *)
RECURSIVE Grown(_, _, _)
Grown(s, o, f) ==
  IF Len(f) = Len(s) + 1 THEN f
  ELSE LET p == Len(f) + 1
           ways == UNION {{After(s[q], now) : now \in f[q]} : q \in
                          {q \in 1 .. Len(f) : p \in Following(s[q], q, o)}}
           certain == [(CHOOSE w \in ways : TRUE) EXCEPT
                         !.built = {x \in @ : \A w \in ways : x \in w.built}]
       IN Grown(s, o, Append(f, IF ways = {} THEN {} ELSE {certain}))

OutlineOf(s, o) ==
  LET f == Grown(s, o, <<{Nothing}>>)
  IN [p \in {p \in DOMAIN f : f[p] # {}} |-> CHOOSE now \in f[p] : TRUE]
OutlinesOfScripts == [d \in DOMAIN Scripts |-> [o \in OptionSets |-> OutlineOf(Scripts[d], o)]]

AllFamilies == Families_
TwoBuilders == {1, 2}

DriverDone ==
  /\ driver = "enum" /\ flags = {} /\ pc = Len(Script["enum"]) + 1
  /\ scopes = <<>> /\ raising = FALSE /\ command = "none" /\ helper = FALSE
  /\ sessions = <<>> /\ fresh = {} /\ failed = FALSE /\ stray = FALSE /\ outcome = "passed"

SuitesDone ==
  /\ leader = [s \in Suites |-> "zero"] /\ descendant = [s \in Suites |-> "none"]
  /\ record = [s \in Suites |-> "completed"] /\ orphaned = {} /\ stage_failed = {}
  /\ groups = {} /\ cancellation = "" /\ terminated = "none" /\ result = "success"

(* The crypto library of the present pins is there, so its builder refuses   *)
(* to start, and the faults and changes of pins have all happened.           *)
BuildersDone ==
  /\ family = "crypto" /\ inputs = 1 /\ cache = "whole" /\ litter = {}
  /\ receipt = [inputs |-> 1, by |-> 1] /\ installed = [f \in FilesOf |-> receipt]
  /\ run = [b \in Builders |-> NoRun]
  /\ returned = [b \in Builders |-> IF b = 1 THEN [inputs |-> 1, files |-> {receipt}]
                                             ELSE [inputs |-> 0, files |-> {}]]
  /\ faults = MaxFaults /\ switches = MaxSwitches

JobInit ==
  \/ DriversInit /\ SuitesDone /\ BuildersDone
  \/ SuitesInit /\ DriverDone /\ BuildersDone
  \/ Init /\ DriverDone /\ SuitesDone

JobNext ==
  \/ DriversNext /\ UNCHANGED <<suite_vars, vars>>
  \/ SuitesNext /\ UNCHANGED <<driver_vars, vars>>
  \/ Next /\ UNCHANGED <<driver_vars, suite_vars>>

JobSpec ==
  /\ JobInit /\ [][JobNext]_<<driver_vars, suite_vars, vars>>
  /\ DriversFairness /\ SuitesFairness /\ \A b \in Builders : WF_vars(Step(b))
=============================================================================
