---------------------------- MODULE TestDrivers ----------------------------
(* One acceptance driver of tools/ executing its script: commands run to     *)
(* completion or to their timeout, longer-lived sessions, and the scopes     *)
(* that clean up when a step raises.  The processes the driver starts are    *)
(* adversaries: a compiler starts processes of its own, any of them may hang *)
(* for ever.  Python raises at a step and unwinds the scopes entered so far. *)
(* Signals sent to a driver itself are left out.  What the scripts have in   *)
(* common, which is all that the properties rest on, is stated below as      *)
(* their discipline and checked of each of them.                             *)
EXTENDS Sequences, Naturals

CONSTANTS
  Script,   \* the steps of each driver, by its name (DriverScripts)
  Outline   \* what a driver relies on ahead of each step, by its name and options

VARIABLES
  driver, flags,  \* which script, and the command-line options it was given
  pc,               \* the next step of the script
  scopes,           \* finally blocks entered and not yet left, outermost first
  raising,          \* an exception is on its way out
  command,          \* the process of a command step: none, live, ok or bad
  helper,           \* a process that command started is alive
  sessions,         \* session processes not yet reaped, oldest first
  fresh,            \* binaries built from the sources as they are now
  failed,           \* some recorded row failed
  stray,            \* a descendant outlived the process that started it
  outcome           \* "running", "passed" or "failed"

driver_vars == <<driver, flags, pc, scopes, raising, command, helper, sessions,
                 fresh, failed, stray, outcome>>
rigid == <<driver, flags>>

OptionSets == {{}, {"stress"}, {"compare"}, {"tls", "paths", "dynamic", "measure"}}

DriversInit ==
  /\ driver \in DOMAIN Script /\ flags \in OptionSets
  /\ pc = 1 /\ scopes = <<>> /\ raising = FALSE
  /\ command = "none" /\ helper = FALSE /\ sessions = <<>>
  /\ fresh = {} /\ failed = FALSE /\ stray = FALSE /\ outcome = "running"

script == Script[driver]
AtEnd == pc > Len(script)
Running == outcome = "running" /\ ~raising /\ ~AtEnd
At(op) == Running /\ script[pc].op = op
step == script[pc]

Goes == pc' = pc + 1 /\ UNCHANGED <<scopes, raising>>
Raises == raising' = TRUE /\ UNCHANGED <<pc, scopes>>

---------------------------------------------------------------------------
(* Mutant of NotBuilt: a case that did not build is executed all the same.  *)
NotBuiltIgnored == FALSE
(* A recorded case that did not build is not executed.                      *)
NotBuilt == step.wait = "grouprow" /\ step.uses # "none" /\ step.uses \notin fresh

(* Commands.  subprocess.run returns when the child has exited and its pipes *)
(* are closed, so a compiler's own child holds it up.                        *)
Spawn ==
  /\ At("command") /\ command = "none"
  /\ IF NotBuilt THEN Goes /\ UNCHANGED command
                 ELSE command' = "live" /\ UNCHANGED <<pc, scopes, raising>>
  /\ UNCHANGED <<rigid, helper, sessions, fresh, failed, stray, outcome>>

CommandForks ==
  /\ command = "live" /\ step.uses = "none" /\ helper' = TRUE
  /\ UNCHANGED <<rigid, pc, scopes, raising, command, sessions, fresh, failed, stray, outcome>>

CommandExits ==
  /\ command = "live" /\ ~helper /\ command' \in {"ok", "bad"}
  /\ UNCHANGED <<rigid, pc, scopes, raising, helper, sessions, fresh, failed, stray, outcome>>

Recorded == {"row", "grouprow"}

CommandReaped ==
  /\ command \in {"ok", "bad"} /\ command' = "none"
  /\ fresh' = IF command = "ok" THEN fresh \cup ({step.makes} \ {"none"}) ELSE fresh
  /\ IF command = "ok" \/ step.wait \in Recorded THEN Goes ELSE Raises
  /\ failed' = (failed \/ (command = "bad" /\ step.wait \in Recorded))
  /\ UNCHANGED <<rigid, helper, sessions, stray, outcome>>

(* subprocess.run kills its child and nothing else; observe, invoke and the  *)
(* bootstrap driver kill the process group.                                  *)
TimeoutOf(waits) ==
  /\ command = "live" /\ step.wait \in waits
  /\ command' = "none" /\ helper' = FALSE
  /\ stray' = (stray \/ (helper /\ step.wait \in {"timed", "row"}))
  /\ IF step.wait = "grouprow" THEN Goes /\ failed' = TRUE ELSE Raises /\ UNCHANGED failed
  /\ UNCHANGED <<rigid, sessions, fresh, outcome>>
(* Mutant of Timeout: an ordinary command has no timeout.                   *)
TimeoutGroupsOnly == TimeoutOf({"group", "grouprow"})
Timeout == TimeoutOf({"timed", "row", "group", "grouprow"})

---------------------------------------------------------------------------
(* Steps without a process of their own.                                     *)
Rewrite ==
  /\ At("write") /\ fresh' = fresh \ {step.makes} /\ Goes
  /\ UNCHANGED <<rigid, command, helper, sessions, failed, stray, outcome>>

Judge ==
  /\ \/ At("assert") /\ (Goes \/ Raises)
     \/ At("verdict") /\ (IF failed THEN Raises ELSE Goes)
  /\ UNCHANGED <<rigid, command, helper, sessions, fresh, failed, stray, outcome>>

Choose ==
  /\ At("option")
  /\ pc' = IF step.wait \in flags \/ (step.wait = "clean" /\ ~failed)
           THEN pc + 1 ELSE pc + 1 + step.skip
  /\ UNCHANGED <<rigid, scopes, raising, command, helper, sessions, fresh, failed, stray, outcome>>

Enter ==
  /\ \/ At("temp") /\ scopes' = Append(scopes, "temp")
     \/ At("try") /\ scopes' = Append(scopes, step.wait)
  /\ pc' = pc + 1
  /\ UNCHANGED <<rigid, raising, command, helper, sessions, fresh, failed, stray, outcome>>

---------------------------------------------------------------------------
(* Sessions.  A compiler session waits for the process it started.           *)
StartSession ==
  /\ At("start")
  /\ sessions' = Append(sessions, [state |-> "live", helper |-> FALSE, marked |-> FALSE,
                                   kind |-> step.wait])
  /\ Goes
  /\ UNCHANGED <<rigid, command, helper, fresh, failed, stray, outcome>>

SessionForks(i) ==
  /\ sessions[i].kind = "forks" /\ sessions[i].state = "live"
  /\ sessions' = [sessions EXCEPT ![i].helper = TRUE]
  /\ UNCHANGED <<rigid, pc, scopes, raising, command, helper, fresh, failed, stray, outcome>>

SessionExits(i) ==
  /\ sessions[i].state = "live" /\ ~sessions[i].helper
  /\ sessions' = [sessions EXCEPT ![i].state = "exited"]
  /\ UNCHANGED <<rigid, pc, scopes, raising, command, helper, fresh, failed, stray, outcome>>

HelperExits ==
  /\ \/ helper /\ helper' = FALSE /\ UNCHANGED sessions
     \/ \E i \in DOMAIN sessions :
          sessions[i].helper /\ sessions' = [sessions EXCEPT ![i].helper = FALSE] /\ UNCHANGED helper
  /\ UNCHANGED <<rigid, pc, scopes, raising, command, fresh, failed, stray, outcome>>

(* Mutant of Serving: a server that never listens is left to the caller.    *)
ListenWithoutKill ==
  /\ At("listen")
  /\ Head(sessions).state = "live" /\ (Goes \/ Raises) /\ UNCHANGED sessions
  /\ UNCHANGED <<rigid, command, helper, fresh, failed, stray, outcome>>

(* run_server polls the port; a server that exits or never listens is killed *)
(* and reaped before the exception leaves.                                   *)
Serving ==
  /\ At("listen")
  /\ \/ Head(sessions).state = "live" /\ Goes /\ UNCHANGED sessions
     \/ Raises /\ sessions' = Tail(sessions)
  /\ UNCHANGED <<rigid, command, helper, fresh, failed, stray, outcome>>

(* A marker or prompt arrives, or the deadline or the end of output raises.  *)
Await ==
  /\ At("ready")
  /\ \/ Goes /\ sessions' = [sessions EXCEPT ![1].marked = TRUE]
     \/ Raises /\ UNCHANGED sessions
  /\ UNCHANGED <<rigid, command, helper, fresh, failed, stray, outcome>>

(* communicate reaps an exited process; what it printed and returned is then *)
(* judged.  At its timeout the process is left to the finally block, killed  *)
(* with its group, or killed and recorded.                                   *)
Gather ==
  /\ \E op \in {"collect", "collectgroup", "collectrow"} : At(op)
  /\ \/ /\ Head(sessions).state = "exited" /\ sessions' = Tail(sessions)
        /\ IF step.op = "collectrow" THEN Goes /\ failed' \in {failed, TRUE}
                                     ELSE (Goes \/ Raises) /\ UNCHANGED failed
     \/ /\ Head(sessions).state = "live"
        /\ sessions' = IF step.op = "collect" THEN sessions ELSE Tail(sessions)
        /\ IF step.op = "collectrow" THEN Goes /\ failed' = TRUE
                                     ELSE Raises /\ UNCHANGED failed
  /\ UNCHANGED <<rigid, command, helper, fresh, stray, outcome>>

---------------------------------------------------------------------------
(* Leaving a scope, in order or because of an exception.  Each finally block *)
(* finds the session of its scope reaped already, or deals with it.          *)
Left(ok) ==
  /\ scopes' = SubSeq(scopes, 1, Len(scopes) - 1)
  /\ IF raising THEN UNCHANGED <<pc, raising>>
     ELSE IF ok THEN pc' = pc + 1 /\ UNCHANGED raising
     ELSE raising' = TRUE /\ UNCHANGED pc

Leaving == outcome = "running" /\ scopes # <<>> /\ (raising \/ At("end"))
Protects(kind) == Leaving /\ scopes[Len(scopes)] = kind
Unprotected == {"temp", "report", "provider"}

LeavePlain ==
  /\ Leaving /\ (scopes[Len(scopes)] \in Unprotected \/ sessions = <<>>)
  /\ Left(TRUE)
  /\ UNCHANGED <<rigid, command, helper, sessions, fresh, failed, stray, outcome>>

(* kill, then wait() or a communicate with a timeout: no descendant can hold *)
(* it.  The terminal's process is killed and waited for.                     *)
LeaveKill ==
  /\ \E kind \in {"killwait", "killtimed", "pty"} : Protects(kind)
  /\ sessions # <<>> /\ sessions' = Tail(sessions) /\ Left(TRUE)
  /\ UNCHANGED <<rigid, command, helper, fresh, failed, stray, outcome>>

(* kill, then communicate() without a timeout: it returns when every writer  *)
(* of the pipes is gone, the killed process's own child included.            *)
LeaveKillDrain ==
  /\ Protects("kill") /\ sessions # <<>>
  /\ IF Head(sessions).helper /\ Head(sessions).state = "live"
     THEN /\ sessions' = [sessions EXCEPT ![1].state = "killed"]
          /\ UNCHANGED <<pc, scopes, raising>>
     ELSE /\ ~Head(sessions).helper /\ sessions' = Tail(sessions) /\ Left(TRUE)
  /\ UNCHANGED <<rigid, command, helper, fresh, failed, stray, outcome>>

(* terminate, five seconds, kill: a late or failing exit raises.             *)
LeaveTerm ==
  /\ Protects("term") /\ sessions # <<>> /\ sessions' = Tail(sessions)
  /\ \E clean \in BOOLEAN : Left(clean)
  /\ UNCHANGED <<rigid, command, helper, fresh, failed, stray, outcome>>

(* Git runs in a group of its own, which the finally block knows only once   *)
(* the marker with its pid exists; otherwise Git is missed, and communicate  *)
(* times out on the pipe it holds.                                           *)
LeaveGitGroup ==
  /\ Protects("gitgroup") /\ sessions # <<>> /\ sessions' = Tail(sessions)
  /\ \E known \in {Head(sessions).marked, TRUE} :
       /\ stray' = (stray \/ (Head(sessions).helper /\ ~known))
       /\ Left(known \/ ~Head(sessions).helper)
  /\ UNCHANGED <<rigid, command, helper, fresh, failed, outcome>>

(* Each child of the pair still alive is terminated as a group; one that had *)
(* to be killed raises, and leaves the other to nobody.                      *)
LeavePair ==
  /\ Protects("pair") /\ sessions # <<>> /\ sessions' = Tail(sessions)
  /\ \/ Len(sessions) = 1 /\ \E prompt \in BOOLEAN : Left(prompt)
     \/ Len(sessions) > 1 /\ (Left(FALSE) \/ UNCHANGED <<pc, scopes, raising>>)
  /\ UNCHANGED <<rigid, command, helper, fresh, failed, stray, outcome>>

(* The sessions that outlive the interpreter: the terminals it still held    *)
(* are hung up.                                                              *)
LeftBehind(s) ==
  LET f[i \in 0 .. Len(s)] ==
        IF i = 0 THEN <<>> ELSE IF s[i].kind = "tty" THEN f[i - 1] ELSE Append(f[i - 1], s[i])
  IN f[Len(s)]

DriverExits ==
  /\ outcome = "running" /\ scopes = <<>> /\ (raising \/ AtEnd)
  /\ outcome' = IF raising THEN "failed" ELSE "passed"
  /\ sessions' = LeftBehind(sessions)
  /\ UNCHANGED <<rigid, pc, scopes, raising, command, helper, fresh, failed, stray>>

DriverSteps ==
  \/ Spawn \/ CommandReaped \/ Timeout \/ Rewrite \/ Judge \/ Choose \/ Enter
  \/ StartSession \/ Serving \/ Await \/ Gather
  \/ LeavePlain \/ LeaveKill \/ LeaveKillDrain \/ LeaveTerm \/ LeaveGitGroup \/ LeavePair
  \/ DriverExits

Processes ==
  \/ CommandForks \/ CommandExits \/ HelperExits
  \/ \E i \in DOMAIN sessions : SessionForks(i) \/ SessionExits(i)

DriversNext == DriverSteps \/ Processes

(* The driver's own steps and its timeouts happen; no process it started is  *)
(* ever promised to end.                                                     *)
DriversFairness == WF_driver_vars(DriverSteps)
DriversSpec == DriversInit /\ [][DriversNext]_driver_vars /\ DriversFairness

---------------------------------------------------------------------------
(* The discipline of a script.  Its outline names, ahead of each step it can *)
(* come to, the scopes entered, the kinds of the sessions held and binaries  *)
(* certainly built from the sources as they are.                             *)
Words ==
  {"timed", "plain", "group", "grouprow", "row"} \cup {"none", "forks", "tty"} \cup Unprotected
    \cup {"kill", "killwait", "killtimed", "pty", "term", "gitgroup", "pair"}
    \cup {"clean"} \cup UNION OptionSets
Steps == [op : STRING, wait : Words, makes : STRING, uses : STRING, skip : Nat]
Expectations == [scopes : Seq(Words), open : Seq(Words), built : SUBSET STRING]
Nothing == [scopes |-> <<>>, open |-> <<>>, built |-> {}]
Collecting == {"collect", "collectgroup", "collectrow"}
Keeping == {"command", "assert", "verdict", "ready", "collect"}

After(x, now) ==
  [scopes |-> CASE x.op = "temp" -> Append(now.scopes, "temp")
                [] x.op = "try" -> Append(now.scopes, x.wait)
                [] x.op = "end" -> SubSeq(now.scopes, 1, Len(now.scopes) - 1)
                [] OTHER -> now.scopes,
   open |-> CASE x.op = "start" -> Append(now.open, x.wait)
              [] x.op \in Collecting -> Tail(now.open)
              [] x.op = "end" -> <<>>
              [] OTHER -> now.open,
   built |-> CASE x.op = "command" /\ x.wait \notin Recorded -> now.built \cup ({x.makes} \ {"none"})
               [] x.op = "write" -> now.built \ {x.makes}
               [] OTHER -> now.built]

(* The steps that can follow step x, the p-th, under the options o.          *)
Following(x, p, o) ==
  IF x.op # "option" THEN {p + 1}
  ELSE {q \in {p + 1} : x.wait \in o \cup {"clean"}} \cup {q \in {p + 1 + x.skip} : x.wait \notin o}

(* A finally block of this kind deals with so many sessions, that of a pair  *)
(* with one for certain; sessions that nothing deals with may only be        *)
(* terminals.                                                                *)
Covers(kind, n) ==
  \/ n = 0
  \/ n = 1 /\ kind \in {"kill", "killwait", "killtimed", "pty", "term", "gitgroup", "pair"}
Sheltered(entered, kinds) ==
  \/ entered # <<>> /\ Covers(entered[Len(entered)], Len(kinds))
  \/ \A i \in DOMAIN kinds : kinds[i] = "tty"

(* A step that may raise finds every session sheltered, but for the one that *)
(* it kills itself; one that executes a binary finds it built, or passes     *)
(* over it; one that deals with a session finds one.                         *)
Needs(x, now) ==
  /\ x.op \in Keeping => Sheltered(now.scopes, now.open)
  /\ x.op = "command" /\ x.uses # "none" => x.uses \in now.built \/ x.wait = "grouprow"
  /\ x.op = "start" /\ x.uses # "none" => x.uses \in now.built
  /\ x.op \in {"ready"} \cup Collecting => now.open # <<>>
  /\ x.op \in Collecting => Sheltered(now.scopes, Tail(now.open))
  /\ x.op = "listen" => Len(now.open) = 1
  /\ x.op = "end" => now.scopes # <<>> /\ Covers(now.scopes[Len(now.scopes)], Len(now.open))

Outlines(s, o, f) ==
  /\ 1 \in DOMAIN f /\ f[1] = Nothing
  /\ \A p \in DOMAIN f :
       /\ p \in 1 .. Len(s) + 1 /\ f[p] \in Expectations
       /\ p = Len(s) + 1 => f[p].scopes = <<>> /\ f[p].open = <<>>
       /\ p # Len(s) + 1 =>
            /\ Needs(s[p], f[p])
            /\ \A q \in Following(s[p], p, o) :
                 /\ q \in DOMAIN f
                 /\ f[q].scopes = After(s[p], f[p]).scopes /\ f[q].open = After(s[p], f[p]).open
                 /\ f[q].built \subseteq After(s[p], f[p]).built

ASSUME DriversAssumption ==
  \A d \in DOMAIN Script :
    /\ Script[d] \in Seq(Steps)
    /\ \A o \in OptionSets : Outlines(Script[d], o, Outline[d][o])

---------------------------------------------------------------------------
(* A driver that has exited, passed or failed, leaves no process it started  *)
(* itself; one that passed leaves no descendant of one either (a timeout     *)
(* that kills only the direct child always fails the driver).                *)
CleanExit ==
  outcome # "running" =>
    /\ command = "none" /\ sessions = <<>>
    /\ outcome = "passed" => ~stray

(* Whatever the driver executes was built from the sources as they stand: no *)
(* assertion is made about an earlier program.                               *)
FreshBinary ==
  (command = "live" \/ At("start")) /\ step.uses # "none" => step.uses \in fresh

(* A driver waits without a bound only where the code asks for it: a command *)
(* without timeout, or communicate() held open by a killed process's child.  *)
(* Otherwise it always comes to its end, whatever its processes do.          *)
Untimed ==
  \/ command = "live" /\ step.wait = "plain"
  \/ sessions # <<>> /\ Head(sessions).state = "killed"
DriverEnds == []<>(outcome # "running" \/ Untimed)
=============================================================================
