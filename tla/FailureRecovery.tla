---------------------------- MODULE FailureRecovery ----------------------------
(***************************************************************************)
(* Recoverable failures and the cleanup of scoped resources in a compiled  *)
(* program (failure_recovery.trb, resource_cleanup.trb, filesystem_values  *)
(* .trb, test_recovery.trb).                                               *)
(*                                                                         *)
(* Three structures live side by side: the native stack, whose frames hold *)
(* the recovery scopes and the cleanup frames; two intrusive chains through*)
(* those frames, headed by trbn_recovery_scope and trbn_resource_scope; and*)
(* the managed root stack, of which only a count is saved.  longjmp drops  *)
(* native frames without running them, so the chains and the count have to *)
(* be repaired by whoever lands.                                           *)
(*                                                                         *)
(* A frame is addressed by its depth.  "code" is a compiled function,      *)
(* "recover" a trbn_runtime_recover or trbn_test_capture trampoline and    *)
(* "file" a trbn_file_scope; control is in the topmost frame.  A root slot *)
(* holds the depth of the frame it belongs to.                             *)
(***************************************************************************)
EXTENDS Naturals, Sequences, FiniteSets

CONSTANTS
  Descriptors, \* host file descriptors
  Detached,    \* the value -1 of a descriptor field
  MaxDepth,    \* bound: native frames
  MaxOpens,    \* bound: files opened in one run
  MaxLive      \* bound: live managed registers of a compiled function

ASSUME BoundsAssumption == MaxDepth \in Nat \ {0} /\ MaxOpens \in Nat /\ MaxLive \in Nat
ASSUME DetachedAssumption == Detached \notin Descriptors

VARIABLES
  stack,         \* the native frames, oldest first
  recoveryScope, \* $trbn_recovery_scope: depth of a recover frame, or 0
  resourceScope, \* $trbn_resource_scope: depth of a file frame, or 0
  roots,         \* the managed root slots below $trbn_gc_temp_count
  host,          \* the file (by order of opening) behind a descriptor, or 0
  opened,        \* files opened so far
  closes,        \* close() calls that reached a file; [0]: that reached none
  status         \* running, unwinding, done, failed (terminal), invalid

vars == <<stack, recoveryScope, resourceScope, roots, host, opened, closes, status>>
hostVars == <<host, opened, closes>>

Depths == 1..MaxDepth
Files == 1..MaxOpens
Registers == 0..MaxLive

-----------------------------------------------------------------------------
(* Frames.  "roots" is the root count a frame saved at its start and       *)
(* restores at its end, "live" how many slots it has pushed above that.    *)

Code(saved) == [kind |-> "code", roots |-> saved, live |-> 0]

\* The fields that both trampolines fill in before setjmp.
RecoverFrame(saved, pushed, notice) ==
  [kind |-> "recover", roots |-> saved, live |-> pushed, previous |-> recoveryScope,
   boundary |-> resourceScope, notice |-> notice, failed |-> FALSE]

\* trbn_resource_push: the frame is linked in front of the resource chain.
FileFrame(saved, fd, file) ==
  [kind |-> "file", roots |-> saved, live |-> 2, parent |-> resourceScope,
   fd |-> fd, file |-> file]

Depth == Len(stack)
Top == stack[Depth]
InCode == status = "running" /\ Top.kind = "code"
IsRecover(i) == stack[i].kind = "recover"
IsOpen(i) == stack[i].kind = "file" /\ stack[i].fd # Detached

Slots(n, owner) == [i \in 1..n |-> owner]

\* emit_mir_roots before a call: the live registers are stored from the
\* function's watermark on and the count is set behind them.
Published(n) == SubSeq(roots, 1, Top.roots) \o Slots(n, Depth)
Holding(n) == [stack EXCEPT ![Depth].live = n]

-----------------------------------------------------------------------------
(* Calls made by compiled code.                                            *)

Call(n) ==
  /\ InCode
  /\ Depth + 1 <= MaxDepth
  /\ roots' = Published(n)
  /\ stack' = Append(Holding(n), Code(Len(roots')))
  /\ UNCHANGED <<recoveryScope, resourceScope, hostVars, status>>

\* trbn_runtime_recover_l and _d up to the call of the action.
Recover(n) ==
  /\ InCode
  /\ Depth + 2 <= MaxDepth
  /\ roots' = Published(n)
  /\ stack' = Holding(n) \o <<RecoverFrame(Len(roots'), 0, FALSE), Code(Len(roots'))>>
  /\ recoveryScope' = Depth + 1
  /\ UNCHANGED <<resourceScope, hostVars, status>>

\* trbn_test_capture: the count saved is the one from before the action, the
\* path and the outcome (by its allocation and once more) are pushed, so that
\* completion drops these four.
CaptureSaving(n, saved) ==
  /\ InCode
  /\ Depth + 2 <= MaxDepth
  /\ roots' = Published(n) \o Slots(4, Depth + 1)
  /\ stack' = Holding(n) \o <<RecoverFrame(saved, 4, TRUE), Code(Len(roots'))>>
  /\ recoveryScope' = Depth + 1
  /\ UNCHANGED <<resourceScope, hostVars, status>>

\* Mutant of Capture: the count is saved after the four pushes.
CaptureSavesLate(n) == CaptureSaving(n, Len(Published(n)) + 4)
Capture(n) == CaptureSaving(n, Len(Published(n)))

\* trbn_file_scope and trbn_file_begin when the file opens: path and handle
\* are rooted, the cleanup frame is registered and the body is called.
FileScope(n, fd) ==
  /\ InCode
  /\ Depth + 2 <= MaxDepth
  /\ opened < MaxOpens
  /\ host[fd] = 0
  /\ LET saved == Len(Published(n)) IN
       /\ roots' = Published(n) \o Slots(2, Depth + 1)
       /\ stack' = Holding(n) \o <<FileFrame(saved, fd, opened + 1), Code(saved + 2)>>
  /\ resourceScope' = Depth + 1
  /\ opened' = opened + 1
  /\ host' = [host EXCEPT ![fd] = opened']
  /\ UNCHANGED <<recoveryScope, closes, status>>

\* trbn_file_scope when trbn_file_acquire fails: either nothing was opened, or
\* a file that cannot be inspected, is not regular or cannot be truncated is
\* closed again before it was registered.  Only the error result is rooted.
FileRefused(n, acquired) ==
  /\ InCode
  /\ acquired => opened < MaxOpens
  /\ roots' = Append(Published(n), Depth)
  /\ stack' = Holding(n + 1)
  /\ opened' = IF acquired THEN opened + 1 ELSE opened
  /\ closes' = IF acquired THEN [closes EXCEPT ![opened'] = @ + 1] ELSE closes
  /\ UNCHANGED <<recoveryScope, resourceScope, host, status>>

-----------------------------------------------------------------------------
(* Ordinary ends.                                                          *)

\* The topmost frame ends: its slots are dropped and, where there is a managed
\* result, one slot is pushed for the frame below.
Ended(managed) ==
  /\ roots' = SubSeq(roots, 1, Top.roots) \o Slots(IF managed THEN 1 ELSE 0, Depth - 1)
  /\ stack' = [SubSeq(stack, 1, Depth - 1) EXCEPT
                 ![Depth - 1].live = IF managed THEN @ + 1 ELSE @]

Return(managed) ==
  /\ InCode
  /\ Depth > 1
  /\ Ended(managed)
  /\ UNCHANGED <<recoveryScope, resourceScope, hostVars, status>>

\* @complete of a trampoline, reached from its action or by longjmp.
Complete ==
  /\ status = "running"
  /\ Top.kind = "recover"
  /\ recoveryScope' = Top.previous
  /\ Ended(Top.notice)
  /\ UNCHANGED <<resourceScope, hostVars, status>>

\* close(): the host forgets the descriptor whatever it answers; close(-1) and
\* a descriptor nobody has open reach no file.
HostClose(fd) ==
  LET file == IF fd = Detached THEN 0 ELSE host[fd]
  IN  /\ host' = [d \in Descriptors |-> IF d = fd THEN 0 ELSE host[d]]
      /\ closes' = [closes EXCEPT ![file] = @ + 1]
      /\ UNCHANGED opened

\* trbn_resource_close: the frame must head the chain; it is unlinked and its
\* descriptor taken out before close().
ResourceClose(i) ==
  /\ resourceScope = i
  /\ i # 0
  /\ resourceScope' = stack[i].parent
  /\ HostClose(stack[i].fd)

\* Mutant of FileEnd: the descriptor is left to the unwinding of a caller.
FileEndOpen ==
  /\ status = "running"
  /\ Top.kind = "file"
  /\ Ended(TRUE)
  /\ resourceScope' = Top.parent
  /\ UNCHANGED <<hostVars, recoveryScope, status>>

\* trbn_file_scope after the body: trbn_file_end, then the body's result or
\* the close error is rooted.
FileEnd ==
  /\ status = "running"
  /\ Top.kind = "file"
  /\ \/ /\ ResourceClose(Depth)
        /\ Ended(TRUE)
        /\ UNCHANGED status
     \/ /\ resourceScope # Depth
        /\ status' = "invalid"
        /\ UNCHANGED <<stack, roots, resourceScope, hostVars>>
  /\ UNCHANGED recoveryScope

Exit ==
  /\ InCode
  /\ Depth = 1
  /\ status' = "done"
  /\ UNCHANGED <<stack, recoveryScope, resourceScope, roots, hostVars>>

-----------------------------------------------------------------------------
(* Failure.                                                                *)

\* trbn_failure_notice for the given scope, after the failing function pushed
\* some roots: a test case's recorder marks the outcome and copies the message,
\* whose allocation pushes one more.
NoticeTo(scope, pushed) ==
  LET told == scope # 0 /\ stack[scope].notice
      above == IF told THEN pushed + 1 ELSE pushed
      raised == Holding(Top.live + above)
  IN  /\ roots' = roots \o Slots(above, Depth)
      /\ stack' = IF told THEN [raised EXCEPT ![scope].failed = TRUE] ELSE raised

\* Mutant of Notice: the nearest frame that wants a notice gets it.
NoticeNearestRecorder(pushed) ==
  LET recorders == {i \in 1..Depth : IsRecover(i) /\ stack[i].notice}
  IN  NoticeTo(IF recorders = {} THEN 0
               ELSE CHOOSE i \in recorders : \A j \in recorders : j <= i, pushed)

\* Only the nearest frame is told.
Notice(pushed) == NoticeTo(recoveryScope, pushed)

\* trbn_fail and the bounds failures push nothing, trbn_runtime_fail its message
\* and trbn_test_raise its message and path.
Fail(pushed) ==
  /\ InCode
  /\ Notice(pushed)
  /\ status' = "unwinding"
  /\ UNCHANGED <<recoveryScope, resourceScope, hostVars>>

\* Mutant of Boundary: every registered file is closed.
BoundaryNone == 0

\* Where trbn_unwind stops: the resource chain as the scope found it.
Boundary == IF recoveryScope = 0 THEN 0 ELSE stack[recoveryScope].boundary

\* One turn of trbn_resource_unwind; close errors are ignored.
UnwindClose ==
  /\ status = "unwinding"
  /\ resourceScope # Boundary
  /\ \/ /\ ResourceClose(resourceScope)
        /\ stack' = [stack EXCEPT ![resourceScope].fd = Detached]
        /\ UNCHANGED status
     \/ /\ resourceScope = 0
        /\ status' = "invalid"
        /\ UNCHANGED <<stack, resourceScope, hostVars>>
  /\ UNCHANGED <<recoveryScope, roots>>

\* longjmp: the frames above the trampoline are gone.
Land ==
  /\ status = "unwinding"
  /\ resourceScope = Boundary
  /\ recoveryScope # 0
  /\ stack' = SubSeq(stack, 1, recoveryScope)
  /\ status' = "running"
  /\ UNCHANGED <<recoveryScope, resourceScope, roots, hostVars>>

\* No recovery scope: trbn_unwind returns and trbn_fatal ends the process.
Abort ==
  /\ status = "unwinding"
  /\ resourceScope = Boundary
  /\ recoveryScope = 0
  /\ status' = "failed"
  /\ UNCHANGED <<stack, recoveryScope, resourceScope, roots, hostVars>>

Terminated == status \in {"done", "failed"} /\ UNCHANGED vars

-----------------------------------------------------------------------------

Init ==
  /\ stack = <<Code(0)>>
  /\ recoveryScope = 0 /\ resourceScope = 0
  /\ roots = <<>>
  /\ host = [fd \in Descriptors |-> 0]
  /\ opened = 0
  /\ closes = [f \in 0..MaxOpens |-> 0]
  /\ status = "running"

Next ==
  \/ \E n \in Registers :
       \/ Call(n) \/ Recover(n) \/ Capture(n)
       \/ \E fd \in Descriptors : FileScope(n, fd)
       \/ \E acquired \in BOOLEAN : FileRefused(n, acquired)
  \/ \E managed \in BOOLEAN : Return(managed)
  \/ Complete \/ FileEnd \/ Exit
  \/ \E pushed \in 0..2 : Fail(pushed)
  \/ UnwindClose \/ Land \/ Abort
  \/ Terminated

Spec == Init /\ [][Next]_vars

-----------------------------------------------------------------------------
(* Properties.                                                             *)

CodeFrames == [kind : {"code"}, roots : Nat, live : Nat]
RecoverFrames == [kind : {"recover"}, roots : Nat, live : Nat, previous : 0..MaxDepth,
                  boundary : 0..MaxDepth, notice : BOOLEAN, failed : BOOLEAN]
FileFrames == [kind : {"file"}, roots : Nat, live : Nat, parent : 0..MaxDepth,
               fd : Descriptors \cup {Detached}, file : Files]

\* The type of every variable; no descriptor is closed that no file is behind.
TypeOK ==
  /\ stack \in Seq(CodeFrames \cup RecoverFrames \cup FileFrames)
  /\ Depth \in Depths
  /\ recoveryScope \in 0..Depth
  /\ resourceScope \in 0..Depth
  /\ roots \in Seq(Depths)
  /\ host \in [Descriptors -> 0..MaxOpens]
  /\ opened \in 0..MaxOpens
  /\ closes \in [0..MaxOpens -> Nat] /\ closes[0] = 0
  /\ status \in {"running", "unwinding", "done", "failed"}

\* i is the youngest frame of the kind P that exists, or 0 when there is none.
Youngest(i, P(_)) ==
  /\ i # 0 => P(i)
  /\ \A j \in 1..Depth : P(j) => j <= i

\* Both chain heads name the youngest frame of their kind that is still on the
\* native stack, and every scope remembers the chains as they were below it:
\* no failure can longjmp into, or clean up, a frame that is gone.
ScopesExact ==
  /\ Youngest(recoveryScope, IsRecover)
  /\ Youngest(resourceScope, IsOpen)
  /\ \A i \in 1..Depth :
       /\ IsRecover(i) => /\ stack[i].previous < i /\ stack[i].boundary < i
                          /\ stack[i].previous # 0 => IsRecover(stack[i].previous)
                          /\ stack[i].boundary # 0 => IsOpen(stack[i].boundary)
       /\ IsOpen(i) => /\ stack[i].parent < i
                       /\ stack[i].parent # 0 => IsOpen(stack[i].parent)

\* Every opened file is closed exactly once, by its scope's end or by the
\* unwinding of a failure, and until then its descriptor is its own.
ClosedOnce ==
  /\ \A f \in 1..opened :
       closes[f] = IF \E i \in 1..Depth : IsOpen(i) /\ stack[i].file = f THEN 0 ELSE 1
  /\ \A i \in 1..Depth : IsOpen(i) => host[stack[i].fd] = stack[i].file

\* A program that has ended, normally or by a failure nobody recovers from,
\* has no file left open.
NothingLeftOpen == status \in {"done", "failed"} => \A fd \in Descriptors : host[fd] = 0

\* A file that trbn_file_begin opened is closed once and by the end of the program,
\* whatever trbn_resource_close, trbn_resource_unwind and failures in between do.
FilesClosed == ClosedOnce /\ NothingLeftOpen

\* The root slots of every frame on the native stack are in place, and a
\* running function finds the count exactly behind its own: a recovery drops
\* the slots of the frames it skips, and no others.
RootsIntact ==
  /\ \A i \in 1..Depth : \A k \in 1..stack[i].live :
       /\ stack[i].roots + k <= Len(roots)
       /\ roots[stack[i].roots + k] = i
  /\ InCode => Len(roots) = Top.roots + Top.live

\* What trbn_unwind relies on: chains and root slots name frames that are still there.
FramesExact == TypeOK /\ ScopesExact /\ RootsIntact

\* A test case is told of a failure only when it is the one that catches it.
NearestReports ==
  \A i \in 1..Depth : IsRecover(i) /\ stack[i].failed =>
     /\ i = recoveryScope
     /\ status = "unwinding" \/ Depth = i

\* A failure that is recovered from leaves every frame older than the
\* recovering one as it was, the files they have open included.
OuterUntouched ==
  [][status = "unwinding" => \A i \in 1..(recoveryScope - 1) :
       i \in DOMAIN stack' /\ stack'[i] = stack[i]]_vars

================================================================================
