------------------------ MODULE FailureRecoveryProofs ------------------------
(***************************************************************************)
(* Proofs about FailureRecovery, for any depth of the native stack and any *)
(* number of files and registers.  The runtime keeps heads of chains and a *)
(* count; the inductive invariant says what every frame has to remember so *)
(* that a longjmp over any number of frames finds them right again.        *)
(***************************************************************************)
EXTENDS FailureRecovery, SequenceTheorems, TLAPS

Frame == CodeFrames \cup RecoverFrames \cup FileFrames

Recovers == {i \in 1..Depth : IsRecover(i)}
Opens == {i \in 1..Depth : IsOpen(i)}

(* j is the youngest frame of the set S below frame i, or 0.                 *)
Below(j, i, S) ==
  /\ j \in 0..i - 1
  /\ j # 0 => j \in S
  /\ \A m \in S : m < i => m <= j

(* Both heads and everything a scope remembers name the youngest frame below. *)
ChainsExact ==
  /\ Below(recoveryScope, Depth + 1, Recovers)
  /\ Below(resourceScope, Depth + 1, Opens)
  /\ \A i \in Recovers : Below(stack[i].previous, i, Recovers) /\ Below(stack[i].boundary, i, Opens)
  /\ \A i \in Opens : Below(stack[i].parent, i, Opens)

(* The program starts in compiled code, and a file frame without descriptor  *)
(* is one that the current failure has passed.                               *)
PassedAbove ==
  /\ stack[1].kind = "code"
  /\ \A i \in 1..Depth : stack[i].kind = "file" /\ stack[i].fd = Detached =>
       status \in {"unwinding", "failed"} /\ recoveryScope < i

(* Each frame saved the count right behind the slots of the one below it.    *)
RootsOrdered ==
  /\ \A i, j \in 1..Depth : i < j => stack[i].roots + stack[i].live <= stack[j].roots
  /\ \A i \in 1..Depth - 1 : stack[i + 1].roots = stack[i].roots + stack[i].live
  /\ Top.roots + Top.live <= Len(roots)

(* Open files belong to one frame each, descriptors in use to an open file.  *)
FilesOwned ==
  /\ \A i \in 1..Depth : stack[i].kind = "file" => stack[i].file <= opened
  /\ \A i, j \in Opens : stack[i].file = stack[j].file => i = j
  /\ \A f \in Files : f > opened => closes[f] = 0
  /\ \A fd \in Descriptors : host[fd] # 0 => \E i \in Opens : stack[i].fd = fd

RecoveryInv ==
  /\ TypeOK /\ ChainsExact /\ PassedAbove /\ RootsOrdered /\ RootsIntact
  /\ FilesOwned /\ FilesClosed /\ NearestReports

--------------------------------------------------------------------------------
(* Frames and slots.                                                         *)

LEMMA FrameFields ==
  ASSUME NEW r \in Frame
  PROVE  /\ r.kind \in {"code", "recover", "file"} /\ r.roots \in Nat /\ r.live \in Nat
         /\ r.kind = "code" => r \in CodeFrames
         /\ r.kind = "recover" => r \in RecoverFrames
         /\ r.kind = "file" => r \in FileFrames
BY DEF Frame, CodeFrames, RecoverFrames, FileFrames

(* There is a frame on top, and every entry of the stack is one.             *)
LEMMA TopIsFrame ==
  ASSUME TypeOK
  PROVE  /\ Depth \in Nat /\ Depth >= 1 /\ Top \in Frame
         /\ stack \in Seq(Frame) /\ \A i \in 1..Depth : stack[i] \in Frame
BY BoundsAssumption DEF TypeOK, Depth, Depths, Top, Frame

(* The slots a frame pushes all hold its depth.                              *)
LEMMA SlotsOfOwner ==
  ASSUME NEW n \in Nat, NEW d \in Depths
  PROVE  /\ Slots(n, d) \in Seq(Depths) /\ Len(Slots(n, d)) = n
         /\ \A k \in 1..n : Slots(n, d)[k] = d
BY DEF Slots

(* t is s followed by n slots of frame d.                                    *)
Grown(t, s, n, d) ==
  /\ t \in Seq(Depths) /\ Len(t) = Len(s) + n
  /\ \A k \in 1..Len(s) : t[k] = s[k]
  /\ \A k \in 1..n : t[Len(s) + k] = d

(* A push leaves the older slots and adds those of the pushing frame.        *)
LEMMA SlotsAdded ==
  ASSUME NEW s \in Seq(Depths), NEW n \in Nat, NEW d \in Depths
  PROVE  Grown(s \o Slots(n, d), s, n, d)
<1> DEFINE t == Slots(n, d)
<1>1. t \in Seq(Depths) /\ Len(t) = n /\ \A k \in 1..n : t[k] = d
  BY SlotsOfOwner
<1> HIDE DEF t
<1>2. /\ s \o t \in Seq(Depths) /\ Len(s \o t) = Len(s) + n
      /\ \A k \in 1..Len(s) + n : (s \o t)[k] = IF k <= Len(s) THEN s[k] ELSE t[k - Len(s)]
  BY <1>1, ConcatProperties
<1>3. ASSUME NEW k \in 1..n PROVE (s \o t)[Len(s) + k] = d
  <2>1. /\ Len(s) + k \in 1..Len(s) + n /\ ~(Len(s) + k <= Len(s)) /\ (Len(s) + k) - Len(s) = k
    OBVIOUS
  <2> QED BY <1>1, <1>2, <2>1
<1> QED BY <1>2, <1>3 DEF t, Grown

(* Dropping the slots from a saved count on.                                 *)
LEMMA SlotsDropped ==
  ASSUME NEW s \in Seq(Depths), NEW r \in Nat, r <= Len(s)
  PROVE  /\ SubSeq(s, 1, r) \in Seq(Depths) /\ Len(SubSeq(s, 1, r)) = r
         /\ \A k \in 1..r : SubSeq(s, 1, r)[k] = s[k]
<1>1. \A i \in 1..r : s[i] \in Depths
  OBVIOUS
<1>2. /\ SubSeq(s, 1, r) \in Seq(Depths) /\ Len(SubSeq(s, 1, r)) = IF 1 <= r THEN r - 1 + 1 ELSE 0
      /\ \A i \in 1..r - 1 + 1 : SubSeq(s, 1, r)[i] = s[1 + i - 1]
  BY <1>1, SubSeqProperties
<1> DEFINE t == SubSeq(s, 1, r)
<1> HIDE DEF t
<1>3. t \in Seq(Depths) /\ Len(t) = r
  BY <1>2 DEF t
<1>4. ASSUME NEW k \in 1..r PROVE t[k] = s[k]
  <2>1. k \in 1..r - 1 + 1 /\ 1 + k - 1 = k
    OBVIOUS
  <2> QED BY <1>2, <2>1 DEF t
<1> QED BY <1>3, <1>4 DEF t

(* The slots of a function that publishes n registers.                       *)
LEMMA PublishedSlots ==
  ASSUME TypeOK, RootsOrdered, NEW n \in Nat
  PROVE  /\ Published(n) \in Seq(Depths) /\ Len(Published(n)) = Top.roots + n
         /\ \A k \in 1..Top.roots : Published(n)[k] = roots[k]
         /\ \A k \in 1..n : Published(n)[Top.roots + k] = Depth
<1>1. Top.roots \in Nat /\ Top.live \in Nat /\ Top.roots <= Len(roots) /\ roots \in Seq(Depths) /\ Depth \in Depths
  BY TopIsFrame, FrameFields DEF RootsOrdered, TypeOK
<1> DEFINE s == SubSeq(roots, 1, Top.roots)
<1>2. s \in Seq(Depths) /\ Len(s) = Top.roots /\ \A k \in 1..Top.roots : s[k] = roots[k]
  BY <1>1, SlotsDropped
<1>3. Published(n) = s \o Slots(n, Depth)
  BY DEF Published
<1> HIDE DEF s
<1>4. Grown(Published(n), s, n, Depth)
  BY <1>1, <1>2, <1>3, SlotsAdded
<1> QED BY <1>2, <1>4 DEF Grown

(* What Holding(n) does to the frame of a compiled function.                 *)
Held(n) == [kind |-> "code", roots |-> Top.roots, live |-> n]

(* A frame that calls holds its count of slots and is otherwise unchanged.   *)
LEMMA HeldFrame ==
  ASSUME TypeOK, Top.kind = "code", NEW n \in Nat
  PROVE  /\ Holding(n) \in Seq(Frame) /\ Len(Holding(n)) = Depth
         /\ Held(n) \in CodeFrames /\ Holding(n)[Depth] = Held(n)
         /\ \A i \in 1..Depth : i # Depth => Holding(n)[i] = stack[i]
<1>1. Depth \in 1..Depth /\ stack \in Seq(Frame) /\ Depth = Len(stack) /\ Top = stack[Depth]
  BY TopIsFrame DEF Depth, Top
<1>2. Top \in CodeFrames
  BY TopIsFrame, FrameFields
<1>3. Held(n) \in CodeFrames /\ Held(n) = [Top EXCEPT !.live = n]
  BY <1>2 DEF CodeFrames, Held
<1>4. Holding(n) = [stack EXCEPT ![Depth] = Held(n)]
  BY <1>1, <1>3 DEF Holding
<1> QED BY <1>1, <1>3, <1>4 DEF Frame

--------------------------------------------------------------------------------
(* Calls, recovery scopes and file scopes: a frame p is entered and, unless  *)
(* it is compiled code itself, the code that it calls.                       *)

Entered(n, p, two) ==
  /\ stack' \in Seq(Frame) /\ Len(stack') = IF two THEN Depth + 2 ELSE Depth + 1
  /\ \A i \in 1..Depth - 1 : stack'[i] = stack[i]
  /\ stack'[Depth] = Held(n) /\ stack'[Depth + 1] = p
  /\ two => stack'[Depth + 2] = Code(Len(roots'))
  /\ two \/ p.kind = "code"
  /\ roots' \in Seq(Depths) /\ Len(roots') = Top.roots + n + p.live
  /\ \A k \in 1..Top.roots : roots'[k] = roots[k]
  /\ \A k \in 1..n : roots'[Top.roots + k] = Depth
  /\ \A k \in 1..p.live : roots'[Top.roots + n + k] = Depth + 1

(* A scope enters as two frames: the trampoline and the code it runs.        *)
LEMMA TwoPushed ==
  ASSUME NEW s \in Seq(Frame), NEW p \in Frame, NEW q \in Frame
  PROVE  /\ s \o <<p, q>> \in Seq(Frame) /\ Len(s \o <<p, q>>) = Len(s) + 2
         /\ \A i \in 1..Len(s) : (s \o <<p, q>>)[i] = s[i]
         /\ (s \o <<p, q>>)[Len(s) + 1] = p /\ (s \o <<p, q>>)[Len(s) + 2] = q
OBVIOUS

(* A call enters one frame of code.                                          *)
LEMMA CallEnters ==
  ASSUME RecoveryInv, NEW n \in Nat, Call(n)
  PROVE  Entered(n, Code(Top.roots + n), FALSE)
<1>1. TypeOK /\ RootsOrdered /\ Top.kind = "code" /\ Top.roots \in Nat /\ Depth \in Nat /\ Depth >= 1
  BY TopIsFrame, FrameFields DEF RecoveryInv, Call, InCode
<1>2. roots' = Published(n) /\ Len(roots') = Top.roots + n
  BY <1>1, PublishedSlots DEF Call
<1>3. stack' = Append(Holding(n), Code(Top.roots + n))
  BY <1>2 DEF Call
<1>4. Code(Top.roots + n) \in Frame /\ Code(Top.roots + n).live = 0 /\ Code(Top.roots + n).kind = "code"
  BY <1>1 DEF Code, Frame, CodeFrames
<1>5. /\ Holding(n) \in Seq(Frame) /\ Len(Holding(n)) = Depth /\ Holding(n)[Depth] = Held(n)
      /\ \A i \in 1..Depth : i # Depth => Holding(n)[i] = stack[i]
  BY <1>1, HeldFrame
<1>6. /\ stack' \in Seq(Frame) /\ Len(stack') = Depth + 1 /\ stack'[Depth + 1] = Code(Top.roots + n)
      /\ \A i \in 1..Depth : stack'[i] = Holding(n)[i]
  BY <1>1, <1>3, <1>4, <1>5, AppendProperties
<1>7. /\ roots' \in Seq(Depths)
      /\ \A k \in 1..Top.roots : roots'[k] = roots[k]
      /\ \A k \in 1..n : roots'[Top.roots + k] = Depth
  BY <1>1, <1>2, PublishedSlots
<1> QED BY <1>1, <1>2, <1>4, <1>5, <1>6, <1>7 DEF Entered

(* The frames that Recover, Capture and FileScope push.                      *)
LEMMA ScopeEnters ==
  ASSUME RecoveryInv, InCode, NEW n \in Nat, NEW m \in Nat, NEW p \in Frame,
         p.live = m, p.kind # "code", Depth + 2 <= MaxDepth,
         roots' = Published(n) \o Slots(m, Depth + 1),
         stack' = Holding(n) \o <<p, Code(Len(roots'))>>
  PROVE  Entered(n, p, TRUE)
<1>1. TypeOK /\ RootsOrdered /\ Top.kind = "code" /\ Top.roots \in Nat /\ Depth \in Nat /\ Depth >= 1
  BY TopIsFrame, FrameFields DEF RecoveryInv, InCode
<1>2. /\ Published(n) \in Seq(Depths) /\ Len(Published(n)) = Top.roots + n
      /\ \A k \in 1..Top.roots : Published(n)[k] = roots[k]
      /\ \A k \in 1..n : Published(n)[Top.roots + k] = Depth
  BY <1>1, PublishedSlots
<1>3. Depth + 1 \in Depths
  BY <1>1, BoundsAssumption DEF Depths
<1>4. /\ roots' \in Seq(Depths) /\ Len(roots') = Top.roots + n + m
      /\ \A k \in 1..Top.roots + n : roots'[k] = Published(n)[k]
      /\ \A k \in 1..m : roots'[Top.roots + n + k] = Depth + 1
  <2>1. Grown(roots', Published(n), m, Depth + 1)
    BY <1>2, <1>3, SlotsAdded
  <2> QED BY <1>2, <2>1 DEF Grown
<1>5. Code(Len(roots')) \in Frame
  BY <1>1, <1>4 DEF Code, Frame, CodeFrames
<1>6. /\ Holding(n) \in Seq(Frame) /\ Len(Holding(n)) = Depth /\ Holding(n)[Depth] = Held(n)
      /\ \A i \in 1..Depth : i # Depth => Holding(n)[i] = stack[i]
  BY <1>1, HeldFrame
<1>7. /\ stack' \in Seq(Frame) /\ Len(stack') = Depth + 2
      /\ \A i \in 1..Depth : stack'[i] = Holding(n)[i]
      /\ stack'[Depth + 1] = p /\ stack'[Depth + 2] = Code(Len(roots'))
  BY <1>5, <1>6, TwoPushed
<1>8. /\ \A k \in 1..Top.roots : roots'[k] = roots[k]
      /\ \A k \in 1..n : roots'[Top.roots + k] = Depth
  <2>1. ASSUME NEW k \in 1..n PROVE roots'[Top.roots + k] = Depth
    <3>1. Top.roots + k \in 1..Top.roots + n
      BY <1>1
    <3> QED BY <1>2, <1>4, <3>1
  <2>2. ASSUME NEW k \in 1..Top.roots PROVE roots'[k] = roots[k]
    <3>1. k \in 1..Top.roots + n
      BY <1>1
    <3> QED BY <1>2, <1>4, <3>1
  <2> QED BY <2>1, <2>2
<1>9. \A i \in 1..Depth - 1 : stack'[i] = stack[i]
  BY <1>1, <1>6, <1>7
<1>10. stack'[Depth] = Held(n)
  BY <1>1, <1>6, <1>7
<1> QED BY <1>4, <1>7, <1>8, <1>9, <1>10 DEF Entered

(* Entering keeps the invariant when the frame remembers the chains, and the *)
(* heads move to it.                                                         *)
EnteredAs(p) ==
  /\ p.roots \in Nat
  /\ p.kind = "recover" => p.previous = recoveryScope /\ p.boundary = resourceScope /\ ~p.failed
  /\ p.kind = "file" => /\ p.parent = resourceScope /\ p.fd \in Descriptors
                        /\ host[p.fd] = 0 /\ p.file = opened + 1 /\ opened < MaxOpens
  /\ recoveryScope' = IF p.kind = "recover" THEN Depth + 1 ELSE recoveryScope
  /\ resourceScope' = IF p.kind = "file" THEN Depth + 1 ELSE resourceScope
  /\ opened' = IF p.kind = "file" THEN opened + 1 ELSE opened
  /\ host' = IF p.kind = "file" THEN [host EXCEPT ![p.fd] = opened + 1] ELSE host
  /\ UNCHANGED <<closes, status>>

(* The nearest member below a frame depends on the frames below it only.     *)
LEMMA BelowKept ==
  ASSUME NEW S \in SUBSET Nat, NEW T \in SUBSET Nat, NEW i \in Nat, NEW j, Below(j, i, S),
         \A m \in 1..i - 1 : m \in S <=> m \in T, 0 \notin T
  PROVE  Below(j, i, T)
BY DEF Below

(* The two sets of frames, and the parts of the invariant in their terms.    *)
LEMMA SetsOfFrames ==
  ASSUME RecoveryInv
  PROVE  /\ Recovers \in SUBSET (1..Depth) /\ Opens \in SUBSET (1..Depth) /\ Recovers \cap Opens = {}
         /\ \A i \in Recovers : stack[i] \in RecoverFrames
         /\ \A i \in Opens : /\ stack[i] \in FileFrames /\ stack[i].fd \in Descriptors
                             /\ stack[i].file \in Files /\ stack[i].file <= opened
                             /\ host[stack[i].fd] = stack[i].file
         /\ \A i, j \in Opens : stack[i].fd = stack[j].fd => i = j
         /\ \A f \in 1..opened : closes[f] = IF \E i \in Opens : stack[i].file = f THEN 0 ELSE 1
<1>1. TypeOK /\ \A i \in 1..Depth : stack[i] \in Frame
  BY TopIsFrame DEF RecoveryInv
<1>2. \A i \in Recovers : stack[i] \in RecoverFrames
  BY <1>1, FrameFields DEF Recovers, IsRecover
<1>3. \A i \in Opens : stack[i] \in FileFrames /\ stack[i].fd # Detached /\ stack[i].kind = "file"
  BY <1>1, FrameFields DEF Opens, IsOpen
<1>4. \A i \in Opens : /\ stack[i].fd \in Descriptors /\ stack[i].file \in Files
                       /\ stack[i].file <= opened /\ host[stack[i].fd] = stack[i].file
  BY <1>3 DEF FileFrames, RecoveryInv, FilesOwned, FilesClosed, ClosedOnce, Opens
<1>5. \A i, j \in Opens : stack[i].fd = stack[j].fd => i = j
  BY <1>4 DEF RecoveryInv, FilesOwned
<1>6. \A f \in 1..opened : closes[f] = IF \E i \in Opens : stack[i].file = f THEN 0 ELSE 1
  BY DEF RecoveryInv, FilesClosed, ClosedOnce, Opens
<1>7. Recovers \cap Opens = {}
  BY DEF Recovers, Opens, IsRecover, IsOpen
<1> QED BY <1>2, <1>3, <1>4, <1>5, <1>6, <1>7 DEF Recovers, Opens

(* A step that opens and closes no file.                                     *)
LEMMA FilesKept ==
  ASSUME RecoveryInv, UNCHANGED <<host, opened, closes>>, Opens' = Opens,
         \A i \in Opens : stack'[i].file = stack[i].file /\ stack'[i].fd = stack[i].fd,
         \A i \in 1..Depth' : stack'[i].kind = "file" => stack'[i].file <= opened,
         status' \in {"done", "failed"} => Opens = {}
  PROVE  FilesOwned' /\ FilesClosed'
<1>1. FilesOwned'
  BY DEF RecoveryInv, FilesOwned
<1>2. ClosedOnce'
  <2>1. \A f \in 1..opened' : closes'[f] = IF \E i \in Opens' : stack'[i].file = f THEN 0 ELSE 1
    BY SetsOfFrames
  <2>2. \A i \in Opens' : host'[stack'[i].fd] = stack'[i].file
    BY SetsOfFrames
  <2> QED BY <2>1, <2>2 DEF ClosedOnce, Opens
<1>3. NothingLeftOpen'
  BY DEF NothingLeftOpen, RecoveryInv, FilesOwned
<1> QED BY <1>1, <1>2, <1>3 DEF FilesClosed

(* trbn_resource_close of the frame j: its file is closed, and no other.     *)
LEMMA FileClosedOnce ==
  ASSUME RecoveryInv, NEW j \in Opens, Opens' = Opens \ {j},
         HostClose(stack[j].fd), status' \notin {"done", "failed"},
         \A i \in Opens' : stack'[i].file = stack[i].file /\ stack'[i].fd = stack[i].fd,
         \A i \in 1..Depth' : stack'[i].kind = "file" => stack'[i].file <= opened
  PROVE  /\ FilesOwned' /\ FilesClosed' /\ opened' = opened
         /\ host' \in [Descriptors -> 0..MaxOpens] /\ closes' \in [0..MaxOpens -> Nat] /\ closes'[0] = 0
<1> DEFINE fd == stack[j].fd
           f == stack[j].file
<1>1. /\ fd \in Descriptors /\ f \in Files /\ f <= opened /\ host[fd] = f /\ fd # Detached
      /\ f # 0 /\ f \in 0..MaxOpens
  BY SetsOfFrames, DetachedAssumption DEF Files
<1>2. /\ host \in [Descriptors -> 0..MaxOpens] /\ closes \in [0..MaxOpens -> Nat] /\ closes[0] = 0
      /\ opened \in 0..MaxOpens
  BY DEF RecoveryInv, TypeOK
<1>3. /\ host' = [d \in Descriptors |-> IF d = fd THEN 0 ELSE host[d]]
      /\ closes' = [closes EXCEPT ![f] = @ + 1] /\ opened' = opened
  BY <1>1 DEF HostClose
<1>4. /\ host' \in [Descriptors -> 0..MaxOpens] /\ closes' \in [0..MaxOpens -> Nat]
      /\ closes'[0] = 0 /\ closes'[f] = closes[f] + 1
      /\ \A g \in 0..MaxOpens : g # f => closes'[g] = closes[g]
      /\ \A d \in Descriptors : host'[d] = IF d = fd THEN 0 ELSE host[d]
  BY <1>1, <1>2, <1>3, BoundsAssumption
<1>5. \A i \in Opens' : i \in Opens /\ stack'[i].file # f /\ stack'[i].fd # fd
  BY SetsOfFrames DEF RecoveryInv, FilesOwned
<1>6. FilesOwned'
  <2>1. \A i, k \in Opens' : stack'[i].file = stack'[k].file => i = k
    BY <1>5 DEF RecoveryInv, FilesOwned
  <2>2. \A g \in Files : g > opened' => closes'[g] = 0
    <3> SUFFICES ASSUME NEW g \in Files, g > opened PROVE closes'[g] = 0
      BY <1>3
    <3>1. g # f /\ g \in 0..MaxOpens /\ closes[g] = 0
      BY <1>1, <1>2 DEF RecoveryInv, FilesOwned, Files
    <3> QED BY <1>4, <3>1
  <2>3. \A d \in Descriptors : host'[d] # 0 => \E i \in Opens' : stack'[i].fd = d
    <3> SUFFICES ASSUME NEW d \in Descriptors, host'[d] # 0 PROVE \E i \in Opens' : stack'[i].fd = d
      OBVIOUS
    <3>1. d # fd /\ host[d] # 0
      BY <1>4
    <3>2. PICK i \in Opens : stack[i].fd = d
      BY <3>1 DEF RecoveryInv, FilesOwned
    <3> QED BY <3>1, <3>2
  <2> QED BY <1>3, <2>1, <2>2, <2>3 DEF FilesOwned
<1>7. ClosedOnce'
  <2>1. \A g \in 1..opened' : closes'[g] = IF \E i \in Opens' : stack'[i].file = g THEN 0 ELSE 1
    <3> SUFFICES ASSUME NEW g \in 1..opened
                 PROVE  closes'[g] = IF \E i \in Opens' : stack'[i].file = g THEN 0 ELSE 1
      BY <1>3
    <3>1. closes[g] = IF \E i \in Opens : stack[i].file = g THEN 0 ELSE 1
      BY SetsOfFrames
    <3>2. CASE g = f
      <4>1. closes[g] = 0
        BY <3>1, <3>2
      <4>2. ~ \E i \in Opens' : stack'[i].file = g
        BY <1>5, <3>2
      <4> QED BY <1>4, <3>2, <4>1, <4>2
    <3>3. CASE g # f
      <4>1. g \in 0..MaxOpens
        BY <1>2, BoundsAssumption
      <4>2. (\E i \in Opens' : stack'[i].file = g) <=> \E i \in Opens : stack[i].file = g
        BY <3>3
      <4> QED BY <1>4, <3>1, <3>3, <4>1, <4>2
    <3> QED BY <3>2, <3>3
  <2>2. \A i \in Opens' : host'[stack'[i].fd] = stack'[i].file
    BY <1>4, <1>5, SetsOfFrames
  <2> QED BY <2>1, <2>2 DEF ClosedOnce, Opens
<1>8. FilesClosed'
  BY <1>7 DEF FilesClosed, NothingLeftOpen
<1> QED BY <1>3, <1>4, <1>6, <1>8

(* trbn_file_begin: the frame j, new on the stack, owns the file it opened.  *)
LEMMA FileOpened ==
  ASSUME RecoveryInv, NEW j, j \notin Opens, Opens' = Opens \cup {j},
         stack'[j].fd \in Descriptors, host[stack'[j].fd] = 0, stack'[j].file = opened + 1,
         opened < MaxOpens, opened' = opened + 1,
         host' = [host EXCEPT ![stack'[j].fd] = opened + 1], closes' = closes,
         status' \notin {"done", "failed"},
         \A i \in Opens : stack'[i].file = stack[i].file /\ stack'[i].fd = stack[i].fd,
         \A i \in 1..Depth' : stack'[i].kind = "file" => stack'[i].file <= opened + 1
  PROVE  FilesOwned' /\ FilesClosed'
<1> DEFINE fd == stack'[j].fd
<1>1. /\ host \in [Descriptors -> 0..MaxOpens] /\ opened \in Nat /\ opened + 1 \in Files
  BY BoundsAssumption DEF RecoveryInv, TypeOK, Files
<1>2. \A d \in Descriptors : host'[d] = IF d = fd THEN opened + 1 ELSE host[d]
  BY <1>1
<1>3. \A i \in Opens : stack'[i].fd # fd /\ stack'[i].file # opened + 1
  BY <1>1, SetsOfFrames DEF Files
<1> HIDE DEF fd
<1>4. FilesOwned'
  <2>1. \A i, k \in Opens' : stack'[i].file = stack'[k].file => i = k
    BY <1>3 DEF RecoveryInv, FilesOwned
  <2>2. \A g \in Files : g > opened' => closes'[g] = 0
    BY <1>1 DEF RecoveryInv, FilesOwned, Files
  <2>3. \A d \in Descriptors : host'[d] # 0 => \E i \in Opens' : stack'[i].fd = d
    <3> SUFFICES ASSUME NEW d \in Descriptors, host'[d] # 0 PROVE \E i \in Opens' : stack'[i].fd = d
      OBVIOUS
    <3>1. CASE d = fd
      BY <3>1 DEF fd
    <3>2. CASE d # fd
      <4>1. PICK i \in Opens : stack[i].fd = d
        BY <1>2, <3>2 DEF RecoveryInv, FilesOwned
      <4> QED BY <4>1
    <3> QED BY <3>1, <3>2
  <2> QED BY <2>1, <2>2, <2>3 DEF FilesOwned
<1>5. ClosedOnce'
  <2>1. \A g \in 1..opened' : closes'[g] = IF \E i \in Opens' : stack'[i].file = g THEN 0 ELSE 1
    <3> SUFFICES ASSUME NEW g \in 1..opened + 1
                 PROVE  closes[g] = IF \E i \in Opens' : stack'[i].file = g THEN 0 ELSE 1
      OBVIOUS
    <3>1. CASE g = opened + 1
      <4>1. closes[g] = 0
        BY <1>1, <3>1 DEF RecoveryInv, FilesOwned
      <4> QED BY <3>1, <4>1
    <3>2. CASE g # opened + 1
      <4>1. g \in 1..opened
        BY <1>1, <3>2
      <4>2. closes[g] = IF \E i \in Opens : stack[i].file = g THEN 0 ELSE 1
        BY <4>1, SetsOfFrames
      <4>3. (\E i \in Opens' : stack'[i].file = g) <=> \E i \in Opens : stack[i].file = g
        BY <3>2
      <4> QED BY <4>2, <4>3
    <3> QED BY <3>1, <3>2
  <2>2. \A i \in Opens' : host'[stack'[i].fd] = stack'[i].file
    <3>1. host'[fd] = opened + 1 /\ fd = stack'[j].fd
      BY <1>2 DEF fd
    <3>2. \A i \in Opens : stack'[i].fd \in Descriptors /\ host[stack'[i].fd] = stack'[i].file
      BY SetsOfFrames
    <3> QED BY <1>2, <1>3, <3>1, <3>2
  <2> QED BY <2>1, <2>2 DEF ClosedOnce, Opens
<1> QED BY <1>4, <1>5 DEF FilesClosed, NothingLeftOpen

(* Entering a call, a recovery or a file scope preserves the invariant.      *)
LEMMA EnteredKeeps ==
  ASSUME RecoveryInv, InCode, NEW n \in Nat, NEW p \in Frame, NEW two \in BOOLEAN,
         Entered(n, p, two), EnteredAs(p), p.roots = Top.roots + n, Len(stack') <= MaxDepth
  PROVE  RecoveryInv'
<1>0. PICK d \in Nat : d = Depth
  BY TopIsFrame DEF RecoveryInv
<1>1. /\ TypeOK /\ d >= 1 /\ d \in 1..d /\ Top = stack[d] /\ Top \in Frame
      /\ Top.roots \in Nat /\ Top.live \in Nat /\ Top.kind = "code" /\ status = "running"
      /\ Depth' = Len(stack') /\ recoveryScope \in 0..d /\ resourceScope \in 0..d
      /\ \A i \in 1..d : stack[i] \in Frame
  BY <1>0, TopIsFrame, FrameFields DEF RecoveryInv, InCode, Top, TypeOK, Depth
<1>2. /\ Depth' = IF two THEN d + 2 ELSE d + 1
      /\ \A i \in 1..Depth' : i \in 1..d \/ i = d + 1 \/ (i = d + 2 /\ Depth' = d + 2)
      /\ \A i \in 1..d : i \in 1..Depth' /\ (i # d => i \in 1..d - 1)
      /\ d + 1 \in 1..Depth' /\ d + 1 \notin 1..d /\ d + 2 \notin 1..d
  <2>1. Depth' = IF two THEN d + 2 ELSE d + 1
    BY <1>0, <1>1 DEF Entered
  <2> QED BY <1>1, <2>1
<1>3. /\ \A i \in 1..d : i # d => stack'[i] = stack[i]
      /\ stack'[d] = Held(n) /\ stack'[d + 1] = p
      /\ Depth' = d + 2 => stack'[d + 2] = Code(Len(roots'))
      /\ Depth' = d + 1 => p.kind = "code"
  BY <1>0, <1>2 DEF Entered
<1>4. /\ Held(n).kind = "code" /\ Held(n).roots = Top.roots /\ Held(n).live = n
      /\ Code(Len(roots')).kind = "code" /\ Code(Len(roots')).roots = Len(roots')
      /\ Code(Len(roots')).live = 0
  BY DEF Held, Code
<1>5. /\ \A i \in 1..d : stack'[i].kind = stack[i].kind
      /\ \A i \in 1..d : stack[i].kind # "code" => stack'[i] = stack[i]
      /\ \A i \in 1..Depth' : i \in 1..d \/ stack'[i].kind = "code" \/ (i = d + 1 /\ stack'[i] = p)
  BY <1>1, <1>2, <1>3, <1>4
<1>6. Recovers' = IF p.kind = "recover" THEN Recovers \cup {d + 1} ELSE Recovers
  BY <1>0, <1>2, <1>3, <1>5 DEF Recovers, IsRecover
<1>7. Opens' = IF p.kind = "file" THEN Opens \cup {d + 1} ELSE Opens
  <2>1. p.kind = "file" => p.fd # Detached
    BY DetachedAssumption DEF EnteredAs
  <2> QED BY <1>0, <1>2, <1>3, <1>5, <2>1 DEF Opens, IsOpen
<1>8. /\ Recovers \subseteq 1..d /\ Opens \subseteq 1..d
      /\ Recovers' \subseteq Nat /\ Opens' \subseteq Nat /\ 0 \notin Recovers' /\ 0 \notin Opens'
      /\ \A i \in Recovers : stack'[i] = stack[i]
      /\ \A i \in Opens : stack'[i] = stack[i]
  BY <1>0, <1>1, <1>5, <1>6, <1>7 DEF Recovers, Opens, IsRecover, IsOpen
<1>9. TypeOK'
  <2>1. stack' \in Seq(Frame) /\ Depth' \in Depths
    BY <1>1, <1>2, BoundsAssumption DEF Entered, Depths
  <2>2. recoveryScope' \in 0..Depth' /\ resourceScope' \in 0..Depth'
    BY <1>0, <1>1, <1>2, <1>3 DEF EnteredAs
  <2>3. host' \in [Descriptors -> 0..MaxOpens] /\ opened' \in 0..MaxOpens
    <3>1. CASE p.kind = "file"
      <4>1. opened + 1 \in 0..MaxOpens /\ p.fd \in Descriptors
        <5>1. opened \in 0..MaxOpens /\ MaxOpens \in Nat
          BY <1>1, BoundsAssumption DEF TypeOK
        <5>2. opened < MaxOpens /\ p.fd \in Descriptors
          BY <3>1 DEF EnteredAs
        <5> QED BY <5>1, <5>2
      <4> QED BY <1>1, <3>1, <4>1 DEF EnteredAs, TypeOK
    <3>2. CASE p.kind # "file"
      BY <1>1, <3>2 DEF EnteredAs, TypeOK
    <3> QED BY <3>1, <3>2
  <2>4. roots' \in Seq(Depths) /\ status' = status /\ closes' = closes
    BY DEF Entered, EnteredAs
  <2> QED BY <1>1, <2>1, <2>2, <2>3, <2>4 DEF TypeOK, Frame
<1>10. ChainsExact'
  <2>0. /\ Below(recoveryScope, d + 1, Recovers) /\ Below(resourceScope, d + 1, Opens)
        /\ \A i \in Recovers : Below(stack[i].previous, i, Recovers) /\ Below(stack[i].boundary, i, Opens)
        /\ \A i \in Opens : Below(stack[i].parent, i, Opens)
    BY <1>0 DEF RecoveryInv, ChainsExact
  <2>1. ASSUME NEW i \in 1..d + 1, NEW j
        PROVE  /\ Below(j, i, Recovers) => Below(j, i, Recovers')
               /\ Below(j, i, Opens) => Below(j, i, Opens')
    <3>1. /\ \A m \in 1..i - 1 : m \in Recovers <=> m \in Recovers'
          /\ \A m \in 1..i - 1 : m \in Opens <=> m \in Opens'
      BY <1>6, <1>7
    <3>2. Recovers \in SUBSET Nat /\ Opens \in SUBSET Nat /\ i \in Nat
      BY <1>8
    <3> QED BY <1>8, <3>1, <3>2, BelowKept
  <2>2. Below(recoveryScope', Depth' + 1, Recovers')
    <3>1. CASE p.kind = "recover"
      BY <1>0, <1>1, <1>2, <1>3, <1>6, <1>8, <3>1 DEF Below, EnteredAs
    <3>2. CASE p.kind # "recover"
      BY <1>1, <1>2, <1>6, <1>8, <2>0, <3>2 DEF Below, EnteredAs
    <3> QED BY <3>1, <3>2
  <2>3. Below(resourceScope', Depth' + 1, Opens')
    <3>1. CASE p.kind = "file"
      BY <1>0, <1>1, <1>2, <1>3, <1>7, <1>8, <3>1 DEF Below, EnteredAs
    <3>2. CASE p.kind # "file"
      BY <1>1, <1>2, <1>7, <1>8, <2>0, <3>2 DEF Below, EnteredAs
    <3> QED BY <3>1, <3>2
  <2>4. ASSUME NEW i \in Recovers'
        PROVE  Below(stack'[i].previous, i, Recovers') /\ Below(stack'[i].boundary, i, Opens')
    <3>1. CASE i \in Recovers
      BY <1>8, <2>0, <2>1, <3>1
    <3>2. CASE i = d + 1 /\ p.kind = "recover"
      <4>1. stack'[i].previous = recoveryScope /\ stack'[i].boundary = resourceScope
        BY <1>3, <3>2 DEF EnteredAs
      <4> QED BY <2>0, <2>1, <3>2, <4>1
    <3> QED BY <1>6, <3>1, <3>2
  <2>5. ASSUME NEW i \in Opens'
        PROVE  Below(stack'[i].parent, i, Opens')
    <3>1. CASE i \in Opens
      BY <1>8, <2>0, <2>1, <3>1
    <3>2. CASE i = d + 1 /\ p.kind = "file"
      <4>1. stack'[i].parent = resourceScope
        BY <1>3, <3>2 DEF EnteredAs
      <4> QED BY <2>0, <2>1, <3>2, <4>1
    <3> QED BY <1>7, <3>1, <3>2
  <2> QED BY <2>2, <2>3, <2>4, <2>5 DEF ChainsExact
<1>11. PassedAbove'
  <2>1. stack'[1].kind = "code"
    BY <1>1, <1>5 DEF RecoveryInv, PassedAbove
  <2>2. ASSUME NEW i \in 1..Depth', stack'[i].kind = "file" /\ stack'[i].fd = Detached PROVE FALSE
    <3>1. i \in 1..d
      <4>1. p.kind = "file" => p.fd # Detached
        BY DetachedAssumption DEF EnteredAs
      <4> QED BY <1>5, <2>2, <4>1
    <3>2. stack[i].kind = "file" /\ stack[i].fd = Detached
      BY <1>5, <2>2, <3>1
    <3> QED BY <1>0, <1>1, <3>1, <3>2 DEF RecoveryInv, PassedAbove
  <2> QED BY <2>1, <2>2 DEF PassedAbove
<1>12. p.live \in Nat /\ Len(roots') = Top.roots + n + p.live /\ p.roots = Top.roots + n
  BY FrameFields DEF Entered
<1>13. \A i \in 1..d : i # d => /\ stack[i].roots \in Nat /\ stack[i].live \in Nat
                              /\ stack[i].roots + stack[i].live <= Top.roots
  <2> SUFFICES ASSUME NEW i \in 1..d, i # d
               PROVE  /\ stack[i].roots \in Nat /\ stack[i].live \in Nat
                      /\ stack[i].roots + stack[i].live <= Top.roots
    OBVIOUS
  <2>1. i < d
    BY <1>1
  <2>2. stack[i].roots + stack[i].live <= stack[d].roots
    BY <1>0, <1>1, <2>1 DEF RecoveryInv, RootsOrdered
  <2> QED BY <1>1, <2>2, FrameFields
<1>14. RootsOrdered'
  <2>1. ASSUME NEW i \in 1..Depth', NEW j \in 1..Depth', i < j
        PROVE  stack'[i].roots + stack'[i].live <= stack'[j].roots
    <3>1. CASE j \in 1..d
      <4>1. i \in 1..d /\ i # d
        BY <1>1, <1>2, <2>1, <3>1
      <4>2. stack'[j].roots = stack[j].roots
        BY <1>1, <1>3, <1>4, <3>1
      <4> QED BY <1>0, <1>3, <2>1, <3>1, <4>1, <4>2 DEF RecoveryInv, RootsOrdered
    <3>2. CASE i \in 1..d /\ j \notin 1..d
      <4>1. stack'[j].roots >= Top.roots + n /\ stack'[j].roots \in Nat
        <5>1. CASE j = d + 1
          BY SMTT(30), <1>1, <1>3, <1>12, <5>1
        <5>2. CASE j = d + 2 /\ Depth' = d + 2
          BY SMTT(30), <1>1, <1>3, <1>4, <1>12, <5>2
        <5> QED BY <1>2, <3>2, <5>1, <5>2
      <4>2. CASE i = d
        BY <1>1, <1>3, <1>4, <4>1, <4>2
      <4>3. CASE i # d
        <5>1. /\ stack'[i] = stack[i] /\ stack[i].roots \in Nat /\ stack[i].live \in Nat
              /\ stack[i].roots + stack[i].live <= Top.roots
          BY <1>3, <1>13, <3>2, <4>3
        <5>2. Top.roots \in Nat
          BY <1>1
        <5>3. stack[i].roots + stack[i].live <= stack'[j].roots
          BY SMTT(30), <4>1, <5>1, <5>2
        <5> QED BY <5>1, <5>3
      <4> QED BY <4>2, <4>3
    <3>3. CASE i \notin 1..d
      <4>1. i = d + 1 /\ j = d + 2 /\ Depth' = d + 2
        BY <1>1, <1>2, <2>1, <3>3
      <4> QED BY <1>1, <1>3, <1>4, <1>12, <4>1
    <3> QED BY <1>2, <3>1, <3>2, <3>3
  <2>2. ASSUME NEW i \in 1..Depth' - 1
        PROVE  stack'[i + 1].roots = stack'[i].roots + stack'[i].live
    <3>1. CASE i < d
      <4>1. i \in 1..d /\ i # d /\ i + 1 \in 1..d /\ i \in 1..d - 1
        BY <1>1, <3>1
      <4>2. stack'[i + 1].roots = stack[i + 1].roots
        BY <1>1, <1>3, <1>4, <4>1
      <4> QED BY <1>0, <1>3, <4>1, <4>2 DEF RecoveryInv, RootsOrdered
    <3>2. CASE i = d
      BY <1>3, <1>4, <1>12, <3>2
    <3>3. CASE i > d
      <4>1. i = d + 1 /\ Depth' = d + 2 /\ i + 1 = d + 2
        BY <1>1, <1>2, <3>3
      <4> QED BY <1>3, <1>4, <1>12, <4>1
    <3> QED BY <1>1, <3>1, <3>2, <3>3
  <2>3. Top'.roots + Top'.live <= Len(roots')
    <3>1. CASE Depth' = d + 2
      <4>1. Top' = Code(Len(roots'))
        BY <1>3, <3>1 DEF Top
      <4> QED BY <1>1, <1>4, <1>12, <4>1
    <3>2. CASE Depth' = d + 1
      <4>1. Top' = p
        BY <1>3, <3>2 DEF Top
      <4> QED BY <1>1, <1>12, <4>1
    <3> QED BY <1>2, <3>1, <3>2
  <2> QED BY <2>1, <2>2, <2>3 DEF RootsOrdered
<1>15. RootsIntact'
  <2>0. /\ \A k \in 1..Top.roots : roots'[k] = roots[k]
        /\ \A k \in 1..n : roots'[Top.roots + k] = d
        /\ \A k \in 1..p.live : roots'[Top.roots + n + k] = d + 1
    BY <1>0 DEF Entered
  <2>1. ASSUME NEW i \in 1..Depth', NEW k \in 1..stack'[i].live
        PROVE  stack'[i].roots + k <= Len(roots') /\ roots'[stack'[i].roots + k] = i
    <3>1. CASE i \in 1..d /\ i # d
      <4>1. stack'[i] = stack[i] /\ stack[i].roots + k \in 1..Top.roots
        <5>1. stack'[i] = stack[i]
          BY <1>3, <3>1
        <5>2. /\ stack[i].roots \in Nat /\ stack[i].live \in Nat /\ k \in 1..stack[i].live
              /\ stack[i].roots + stack[i].live <= Top.roots
          BY <1>13, <3>1, <5>1
        <5>3. Top.roots \in Nat
          BY <1>1
        <5>4. stack[i].roots + k \in 1..Top.roots
          BY <5>2, <5>3
        <5> QED BY <5>1, <5>4
      <4>2. roots[stack[i].roots + k] = i
        BY <1>0, <3>1, <4>1 DEF RecoveryInv, RootsIntact
      <4>3. roots'[stack[i].roots + k] = i
        BY <2>0, <4>1, <4>2
      <4>4. stack[i].roots + k <= Len(roots')
        BY SMTT(30), <1>1, <1>12, <4>1
      <4> QED BY <4>1, <4>3, <4>4
    <3>2. CASE i = d
      <4>1. stack'[i].roots = Top.roots /\ k \in 1..n
        BY <1>3, <1>4, <3>2
      <4>2. Top.roots + k <= Len(roots')
        BY <1>1, <1>12, <4>1
      <4> QED BY <2>0, <3>2, <4>1, <4>2
    <3>3. CASE i = d + 1
      <4>1. stack'[i].roots = Top.roots + n /\ k \in 1..p.live
        BY <1>3, <1>12, <3>3
      <4>2. Top.roots + n + k <= Len(roots')
        BY <1>1, <1>12, <4>1
      <4> QED BY <2>0, <3>3, <4>1, <4>2
    <3>4. CASE i = d + 2 /\ Depth' = d + 2
      BY <1>3, <1>4, <3>4
    <3> QED BY <1>2, <3>1, <3>2, <3>3, <3>4
  <2>2. InCode' => Len(roots') = Top'.roots + Top'.live
    <3>1. CASE Depth' = d + 2
      <4>1. Top' = Code(Len(roots'))
        BY <1>3, <3>1 DEF Top
      <4> QED BY <1>1, <1>4, <1>12, <4>1
    <3>2. CASE Depth' = d + 1
      <4>1. Top' = p
        BY <1>3, <3>2 DEF Top
      <4> QED BY <1>1, <1>12, <4>1
    <3> QED BY <1>2, <3>1, <3>2
  <2> QED BY <2>1, <2>2 DEF RootsIntact
<1>16. FilesOwned' /\ FilesClosed'
  <2>0. /\ opened \in Nat /\ status' = "running"
        /\ \A i \in 1..d : stack[i].kind = "file" => stack[i].file <= opened /\ stack[i].file \in Nat
    <3>1. opened \in Nat /\ status' = "running"
      BY <1>1, BoundsAssumption DEF TypeOK, EnteredAs
    <3>2. \A i \in 1..d : stack[i].kind = "file" => stack[i] \in FileFrames
      BY <1>1, FrameFields
    <3>3. \A i \in 1..d : stack[i].kind = "file" => stack[i].file <= opened
      BY <1>0 DEF RecoveryInv, FilesOwned
    <3> QED BY <3>1, <3>2, <3>3 DEF FileFrames, Files
  <2>1. CASE p.kind # "file"
    <3>1. UNCHANGED <<host, opened, closes>> /\ Opens' = Opens
      BY <1>7, <2>1 DEF EnteredAs
    <3>2. \A i \in 1..Depth' : stack'[i].kind = "file" => stack'[i].file <= opened
      BY <1>5, <2>0, <2>1
    <3> QED BY <1>8, <2>0, <3>1, <3>2, FilesKept
  <2>2. CASE p.kind = "file"
    <3>1. /\ stack'[d + 1].fd \in Descriptors /\ host[stack'[d + 1].fd] = 0
          /\ stack'[d + 1].file = opened + 1
          /\ opened < MaxOpens /\ opened' = opened + 1
          /\ host' = [host EXCEPT ![stack'[d + 1].fd] = opened + 1] /\ closes' = closes
      BY <1>3, <2>2 DEF EnteredAs
    <3>2. \A i \in 1..Depth' : stack'[i].kind = "file" => stack'[i].file <= opened + 1
      BY SMTT(30), <1>5, <2>0, <3>1
    <3>3. d + 1 \notin Opens /\ Opens' = Opens \cup {d + 1} /\ status' \notin {"done", "failed"}
      BY <1>2, <1>7, <1>8, <2>0, <2>2
    <3> QED BY <1>8, <3>1, <3>2, <3>3, FileOpened
  <2> QED BY <2>1, <2>2
<1>17. NearestReports'
  <2>1. \A i \in Recovers : ~stack[i].failed
    BY <1>0, <1>1 DEF RecoveryInv, NearestReports, IsRecover, Recovers
  <2>2. \A i \in Recovers' : ~stack'[i].failed
    <3>1. p.kind = "recover" => ~p.failed
      BY DEF EnteredAs
    <3> QED BY <1>3, <1>6, <1>8, <2>1, <3>1
  <2> QED BY <2>2 DEF NearestReports, Recovers
<1> QED BY <1>9, <1>10, <1>11, <1>14, <1>15, <1>16, <1>17 DEF RecoveryInv

(* A call of compiled code.                                                  *)
LEMMA CallKeeps ==
  ASSUME RecoveryInv, NEW n \in Nat, Call(n)
  PROVE  RecoveryInv'
<1> DEFINE p == Code(Top.roots + n)
<1>1. Entered(n, p, FALSE)
  BY CallEnters
<1>2. Top.roots \in Nat
  BY TopIsFrame, FrameFields DEF RecoveryInv
<1>3. p \in Frame /\ p.roots = Top.roots + n /\ p.kind = "code"
  BY <1>2 DEF Code, Frame, CodeFrames
<1>4. EnteredAs(p) /\ InCode
  BY <1>2, <1>3 DEF EnteredAs, Call, hostVars
<1>5. Len(stack') <= MaxDepth
  BY <1>1 DEF Entered, Call
<1> HIDE DEF p
<1> QED BY <1>1, <1>3, <1>4, <1>5, EnteredKeeps

(* A recover or a captured test case.                                        *)
LEMMA ScopeKeeps ==
  ASSUME RecoveryInv, NEW n \in Nat, Recover(n) \/ Capture(n)
  PROVE  RecoveryInv'
<1>1. /\ TypeOK /\ Top.roots \in Nat /\ InCode /\ Depth + 2 <= MaxDepth /\ Depth \in Nat
      /\ Depth >= 1 /\ Depth + 1 \in Depths
      /\ recoveryScope \in 0..MaxDepth /\ resourceScope \in 0..MaxDepth
  <2>1. TypeOK /\ Top.roots \in Nat /\ Depth \in Nat /\ Depth >= 1
    BY TopIsFrame, FrameFields DEF RecoveryInv
  <2>2. InCode /\ Depth + 2 <= MaxDepth
    BY DEF Recover, Capture, CaptureSaving
  <2> QED BY <2>1, <2>2, BoundsAssumption DEF TypeOK, Depths
<1>2. Published(n) \in Seq(Depths) /\ Len(Published(n)) = Top.roots + n
  BY PublishedSlots DEF RecoveryInv
<1>3. \E m \in Nat, b \in BOOLEAN :
        /\ roots' = Published(n) \o Slots(m, Depth + 1)
        /\ stack' = Holding(n) \o <<RecoverFrame(Top.roots + n, m, b), Code(Len(roots'))>>
  <2>1. CASE Recover(n)
    <3>1. Published(n) \o Slots(0, Depth + 1) = Published(n)
      <4>1. Grown(Published(n) \o Slots(0, Depth + 1), Published(n), 0, Depth + 1)
        BY <1>1, <1>2, SlotsAdded
      <4> DEFINE t == Published(n) \o Slots(0, Depth + 1)
      <4> HIDE DEF t
      <4>2. t \in Seq(Depths) /\ Len(t) = Len(Published(n)) /\ \A k \in 1..Len(Published(n)) : t[k] = Published(n)[k]
        BY <1>2, <4>1 DEF Grown, t
      <4> QED BY <1>2, <4>2, SeqEqual DEF t
    <3>2. roots' = Published(n) /\ Len(roots') = Top.roots + n
      BY <1>2, <2>1 DEF Recover
    <3> QED BY <2>1, <3>1, <3>2 DEF Recover
  <2>2. CASE Capture(n)
    BY <1>2, <2>2 DEF Capture, CaptureSaving
  <2> QED BY <2>1, <2>2
<1>4. PICK m \in Nat, b \in BOOLEAN :
        /\ roots' = Published(n) \o Slots(m, Depth + 1)
        /\ stack' = Holding(n) \o <<RecoverFrame(Top.roots + n, m, b), Code(Len(roots'))>>
  BY <1>3
<1> DEFINE p == RecoverFrame(Top.roots + n, m, b)
<1>5. /\ p \in Frame /\ p.live = m /\ p.kind = "recover" /\ p.roots = Top.roots + n
      /\ p.previous = recoveryScope /\ p.boundary = resourceScope /\ ~p.failed
  BY <1>1 DEF RecoverFrame, Frame, RecoverFrames
<1> HIDE DEF p
<1>6. Entered(n, p, TRUE)
  BY <1>1, <1>4, <1>5, ScopeEnters DEF p
<1>7. EnteredAs(p)
  <2>1. recoveryScope' = Depth + 1 /\ UNCHANGED <<resourceScope, hostVars, status>>
    BY DEF Recover, Capture, CaptureSaving
  <2>2. p.roots \in Nat
    BY <1>5, FrameFields
  <2> QED BY <1>5, <2>1, <2>2 DEF EnteredAs, hostVars
<1>8. Len(stack') <= MaxDepth
  BY <1>1, <1>6 DEF Entered
<1> QED BY <1>1, <1>5, <1>6, <1>7, <1>8, EnteredKeeps

(* A scoped file that was opened.                                            *)
LEMMA FileScopeKeeps ==
  ASSUME RecoveryInv, NEW n \in Nat, NEW fd \in Descriptors, FileScope(n, fd)
  PROVE  RecoveryInv'
<1>1. /\ TypeOK /\ Top.roots \in Nat /\ InCode /\ Depth + 2 <= MaxDepth /\ Depth \in Nat
      /\ Depth >= 1 /\ Depth + 1 \in Depths /\ resourceScope \in 0..MaxDepth
      /\ opened < MaxOpens /\ opened + 1 \in Files /\ opened \in Nat
  <2>1. TypeOK /\ Top.roots \in Nat /\ Depth \in Nat /\ Depth >= 1
    BY TopIsFrame, FrameFields DEF RecoveryInv
  <2>2. InCode /\ Depth + 2 <= MaxDepth /\ opened < MaxOpens
    BY DEF FileScope
  <2> QED BY <2>1, <2>2, BoundsAssumption DEF TypeOK, Depths, Files
<1>2. Published(n) \in Seq(Depths) /\ Len(Published(n)) = Top.roots + n
  BY PublishedSlots DEF RecoveryInv
<1> DEFINE p == FileFrame(Top.roots + n, fd, opened + 1)
<1>3. /\ p \in Frame /\ p.live = 2 /\ p.kind = "file" /\ p.roots = Top.roots + n
      /\ p.parent = resourceScope /\ p.fd = fd /\ p.file = opened + 1
  BY <1>1 DEF FileFrame, Frame, FileFrames
<1>4. roots' = Published(n) \o Slots(2, Depth + 1)
  BY DEF FileScope
<1>5. Len(roots') = Top.roots + n + 2
  <2>1. Grown(roots', Published(n), 2, Depth + 1)
    BY <1>1, <1>2, <1>4, SlotsAdded
  <2> QED BY <1>2, <2>1 DEF Grown
<1>6. stack' = Holding(n) \o <<p, Code(Len(roots'))>>
  BY <1>2, <1>5 DEF FileScope
<1> HIDE DEF p
<1>7. Entered(n, p, TRUE)
  BY <1>1, <1>3, <1>4, <1>6, ScopeEnters
<1>8. EnteredAs(p)
  <2>1. p.roots \in Nat
    BY <1>3, FrameFields
  <2> QED BY <1>1, <1>3, <2>1 DEF EnteredAs, FileScope
<1>9. Len(stack') <= MaxDepth
  BY <1>1, <1>7 DEF Entered
<1> QED BY <1>1, <1>3, <1>7, <1>8, <1>9, EnteredKeeps

--------------------------------------------------------------------------------
(* A step that moves no frame: the topmost frame holds more slots, a flag or *)
(* a descriptor of a frame changes.                                          *)

(* q is the frame r with other slots, and possibly told of a failure.        *)
Same(q, r) ==
  /\ q.kind = r.kind /\ q.roots = r.roots
  /\ r.kind = "recover" => q.previous = r.previous /\ q.boundary = r.boundary
  /\ r.kind = "file" => q.parent = r.parent /\ q.fd = r.fd /\ q.file = r.file

(* q is r with x slots and nothing else changed.                             *)
Raised(q, r, x) ==
  /\ q \in Frame /\ Same(q, r) /\ q.live = x
  /\ r.kind = "recover" => q.failed = r.failed

(* A frame whose count of live registers changes.                            *)
LEMMA LiveChanged ==
  ASSUME NEW r \in Frame, NEW x \in Nat
  PROVE  Raised([r EXCEPT !.live = x], r, x)
<1>1. CASE r \in CodeFrames
  BY <1>1 DEF CodeFrames, Frame, Same, Raised
<1>2. CASE r \in RecoverFrames
  BY <1>2 DEF RecoverFrames, Frame, Same, Raised
<1>3. CASE r \in FileFrames
  BY <1>3 DEF FileFrames, Frame, Same, Raised
<1> QED BY <1>1, <1>2, <1>3 DEF Frame

(* The frames above e go and the others stay the same: the chains are exact  *)
(* when their heads name the youngest of the frames that are left.           *)
LEMMA ChainsCut ==
  ASSUME RecoveryInv, NEW e \in 1..Depth, Depth' = e,
         \A i \in 1..e : Same(stack'[i], stack[i]),
         Below(recoveryScope', e + 1, Recovers), Below(resourceScope', e + 1, Opens)
  PROVE  ChainsExact' /\ Recovers' = Recovers \cap (1..e) /\ Opens' = Opens \cap (1..e)
<1>1. Depth \in Nat /\ e \in Nat /\ \A i \in 1..e : i \in 1..Depth
  BY TopIsFrame DEF RecoveryInv
<1>2. Recovers' = Recovers \cap (1..e)
  BY <1>1 DEF Recovers, IsRecover, Same
<1>3. Opens' = Opens \cap (1..e)
  BY <1>1 DEF Opens, IsOpen, Same
<1>4. /\ Recovers \in SUBSET Nat /\ Opens \in SUBSET Nat /\ Recovers' \in SUBSET Nat
      /\ Opens' \in SUBSET Nat /\ 0 \notin Recovers' /\ 0 \notin Opens'
  BY <1>1, <1>2, <1>3 DEF Recovers, Opens
<1>5. ASSUME NEW i \in 1..e + 1, NEW j
      PROVE  /\ Below(j, i, Recovers) => Below(j, i, Recovers')
             /\ Below(j, i, Opens) => Below(j, i, Opens')
  <2>1. /\ \A m \in 1..i - 1 : m \in Recovers <=> m \in Recovers'
        /\ \A m \in 1..i - 1 : m \in Opens <=> m \in Opens'
    BY <1>1, <1>2, <1>3
  <2> QED BY <1>1, <1>4, <2>1, BelowKept
<1>6. Below(recoveryScope', Depth' + 1, Recovers') /\ Below(resourceScope', Depth' + 1, Opens')
  BY <1>1, <1>5
<1>7. ASSUME NEW i \in Recovers'
      PROVE  Below(stack'[i].previous, i, Recovers') /\ Below(stack'[i].boundary, i, Opens')
  <2>1. i \in Recovers /\ i \in 1..e /\ i \in 1..e + 1 /\ stack[i].kind = "recover"
    BY <1>1, <1>2 DEF Recovers, IsRecover
  <2>2. Below(stack[i].previous, i, Recovers) /\ Below(stack[i].boundary, i, Opens)
    BY <2>1 DEF RecoveryInv, ChainsExact
  <2>3. stack'[i].previous = stack[i].previous /\ stack'[i].boundary = stack[i].boundary
    BY <2>1 DEF Same
  <2> QED BY <1>5, <2>1, <2>2, <2>3
<1>8. ASSUME NEW i \in Opens'
      PROVE  Below(stack'[i].parent, i, Opens')
  <2>1. i \in Opens /\ i \in 1..e /\ i \in 1..e + 1 /\ stack[i].kind = "file"
    BY <1>1, <1>3 DEF Opens, IsOpen
  <2>2. Below(stack[i].parent, i, Opens)
    BY <2>1 DEF RecoveryInv, ChainsExact
  <2>3. stack'[i].parent = stack[i].parent
    BY <2>1 DEF Same
  <2> QED BY <1>5, <2>1, <2>2, <2>3
<1> QED BY <1>2, <1>3, <1>6, <1>7, <1>8 DEF ChainsExact

(* What is nearest above a frame outside the set is nearest below it.        *)
LEMMA BelowTop ==
  ASSUME NEW d \in Nat, d >= 1, NEW S \in SUBSET (1..d), NEW j, Below(j, d + 1, S), d \notin S
  PROVE  Below(j, d, S)
BY DEF Below

(* A frame that ends: its slots go and its caller gets those of the result.  *)
LEMMA EndedFrames ==
  ASSUME RecoveryInv, NEW managed \in BOOLEAN, Ended(managed), Depth > 1,
         status = "running", status' = "running"
  PROVE  /\ stack' \in Seq(Frame) /\ Depth' = Depth - 1
         /\ \A i \in 1..Depth - 1 : Same(stack'[i], stack[i])
         /\ roots' \in Seq(Depths) /\ RootsOrdered' /\ RootsIntact'
         /\ \A i \in 1..Depth - 1 : stack[i].kind = "recover" => stack'[i].failed = stack[i].failed
<1>0. PICK d \in Nat : d = Depth
  BY TopIsFrame DEF RecoveryInv
<1>1. PICK e \in Nat : e = d - 1 /\ e >= 1 /\ e + 1 = d /\ e \in 1..d /\ e \in 1..e
  BY <1>0
<1>2. /\ TypeOK /\ stack \in Seq(Frame) /\ Len(stack) = d /\ \A i \in 1..d : stack[i] \in Frame
      /\ Top = stack[d] /\ roots \in Seq(Depths) /\ d \in 1..d
  BY <1>0, <1>1, TopIsFrame DEF RecoveryInv, TypeOK, Depth, Top
<1>3. PICK m \in {0, 1} : m = IF managed THEN 1 ELSE 0
  OBVIOUS
<1>4. /\ Top.roots \in Nat /\ Top.live \in Nat /\ Top.roots <= Len(roots)
      /\ \A i \in 1..d : stack[i].roots \in Nat /\ stack[i].live \in Nat
  <2>1. \A i \in 1..d : stack[i].roots \in Nat /\ stack[i].live \in Nat
    BY <1>2, FrameFields
  <2>2. Top.roots + Top.live <= Len(roots)
    BY DEF RecoveryInv, RootsOrdered
  <2> QED BY <1>2, <2>1, <2>2
<1>5. e \in Depths
  BY <1>0, <1>1, <1>2, BoundsAssumption DEF TypeOK, Depths
<1> DEFINE s == SubSeq(stack, 1, e)
           q == [stack[e] EXCEPT !.live = stack[e].live + m]
<1>6. s \in Seq(Frame) /\ Len(s) = e /\ \A i \in 1..e : s[i] = stack[i]
  BY <1>1, <1>2
<1>7. q \in Frame /\ Same(q, stack[e]) /\ q.live = stack[e].live + m
      /\ (stack[e].kind = "recover" => q.failed = stack[e].failed)
  <2>1. stack[e] \in Frame /\ stack[e].live + m \in Nat
    BY <1>1, <1>2, <1>3, <1>4
  <2>2. Raised(q, stack[e], stack[e].live + m)
    BY <2>1, LiveChanged
  <2> HIDE DEF q
  <2> QED BY <2>2 DEF Raised
<1>8. stack' = [s EXCEPT ![e] = q]
  <2>1. stack' = [s EXCEPT ![e].live = IF managed THEN @ + 1 ELSE @]
    BY <1>0, <1>1 DEF Ended
  <2>2. (IF managed THEN s[e].live + 1 ELSE s[e].live) = stack[e].live + m
    BY <1>1, <1>3, <1>4, <1>6
  <2> QED BY <1>1, <1>6, <2>1, <2>2
<1> HIDE DEF s, q
<1>9. /\ stack' \in Seq(Frame) /\ Len(stack') = e /\ stack'[e] = q
      /\ \A i \in 1..e : i # e => stack'[i] = stack[i]
  BY <1>1, <1>6, <1>7, <1>8
<1>10. Depth' = e /\ Depth' = Depth - 1 /\ 1..Depth - 1 = 1..e
  BY <1>0, <1>1, <1>9 DEF Depth
<1>11. \A i \in 1..e : Same(stack'[i], stack[i]) /\ (stack[i].kind = "recover" => stack'[i].failed = stack[i].failed)
  BY <1>7, <1>9 DEF Same
<1>12. Grown(roots', SubSeq(roots, 1, Top.roots), m, e)
  <2>1. SubSeq(roots, 1, Top.roots) \in Seq(Depths)
    BY <1>2, <1>4, SlotsDropped
  <2>2. roots' = SubSeq(roots, 1, Top.roots) \o Slots(m, e)
    BY <1>0, <1>1, <1>3 DEF Ended
  <2> QED BY <1>3, <1>5, <2>1, <2>2, SlotsAdded
<1>13. /\ roots' \in Seq(Depths) /\ Len(roots') = Top.roots + m
       /\ \A k \in 1..Top.roots : roots'[k] = roots[k]
       /\ \A k \in 1..m : roots'[Top.roots + k] = e
  <2> DEFINE t == SubSeq(roots, 1, Top.roots)
  <2>1. t \in Seq(Depths) /\ Len(t) = Top.roots /\ \A k \in 1..Top.roots : t[k] = roots[k]
    BY <1>2, <1>4, SlotsDropped
  <2>2. Grown(roots', t, m, e)
    BY <1>12
  <2> HIDE DEF t
  <2> QED BY <2>1, <2>2 DEF Grown
<1>14. Top.roots = stack[e].roots + stack[e].live
  BY <1>0, <1>1, <1>2 DEF RecoveryInv, RootsOrdered
<1>15. /\ \A i \in 1..e : stack'[i].roots = stack[i].roots
       /\ \A i \in 1..e : i # e => stack'[i].live = stack[i].live
       /\ stack'[e].live = stack[e].live + m /\ Top' = stack'[e]
  BY <1>7, <1>9, <1>10, <1>11 DEF Same, Top
<1>16. Top'.roots + Top'.live = Len(roots')
  <2>1. Top'.roots = stack[e].roots /\ Top'.live = stack[e].live + m
    BY <1>1, <1>15
  <2>2. stack[e].roots \in Nat /\ stack[e].live \in Nat /\ m \in Nat
    BY <1>1, <1>3, <1>4
  <2>3. stack[e].roots + (stack[e].live + m) = stack[e].roots + stack[e].live + m
    BY <2>2
  <2> QED BY <1>13, <1>14, <2>1, <2>3
<1>17. RootsOrdered'
  <2>1. ASSUME NEW i \in 1..Depth', NEW j \in 1..Depth', i < j
        PROVE  stack'[i].roots + stack'[i].live <= stack'[j].roots
    <3>1. i \in 1..e /\ j \in 1..e /\ i # e /\ i \in 1..Depth /\ j \in 1..Depth
      BY <1>0, <1>1, <1>10, <2>1
    <3>2. stack[i].roots + stack[i].live <= stack[j].roots
      BY <2>1, <3>1 DEF RecoveryInv, RootsOrdered
    <3> QED BY <1>15, <3>1, <3>2
  <2>2. ASSUME NEW i \in 1..Depth' - 1
        PROVE  stack'[i + 1].roots = stack'[i].roots + stack'[i].live
    <3>1. i \in 1..e /\ i + 1 \in 1..e /\ i # e /\ i \in 1..Depth - 1
      BY <1>0, <1>1, <1>10
    <3>2. stack[i + 1].roots = stack[i].roots + stack[i].live
      BY <3>1 DEF RecoveryInv, RootsOrdered
    <3> QED BY <1>15, <3>1, <3>2
  <2>3. Top'.roots + Top'.live <= Len(roots')
    <3>1. Len(roots') \in Nat
      BY <1>3, <1>4, <1>13
    <3> QED BY <1>16, <3>1
  <2> QED BY <2>1, <2>2, <2>3 DEF RootsOrdered
<1>18. RootsIntact'
  <2>1. ASSUME NEW i \in 1..Depth', NEW k \in 1..stack'[i].live
        PROVE  stack'[i].roots + k <= Len(roots') /\ roots'[stack'[i].roots + k] = i
    <3>0. i \in 1..e /\ i \in 1..d /\ i \in 1..Depth /\ stack'[i].roots = stack[i].roots
      BY <1>0, <1>1, <1>10, <1>15
    <3>1. CASE k \in 1..stack[i].live
      <4>1. stack[i].roots + stack[i].live <= Top.roots
        <5>1. i < d /\ d \in 1..Depth
          BY <1>0, <1>1, <3>0
        <5> QED BY <1>2, <3>0, <5>1 DEF RecoveryInv, RootsOrdered
      <4>2. stack[i].roots \in Nat /\ stack[i].live \in Nat /\ Top.roots \in Nat
        BY <1>4, <3>0
      <4>3. stack[i].roots + k \in 1..Top.roots
        BY <3>1, <4>1, <4>2
      <4>4. roots[stack[i].roots + k] = i
        BY <3>0, <3>1 DEF RecoveryInv, RootsIntact
      <4>5. stack[i].roots + k <= Len(roots')
        BY <1>3, <1>13, <4>2, <4>3
      <4> QED BY <1>13, <3>0, <4>3, <4>4, <4>5
    <3>2. CASE k \notin 1..stack[i].live
      <4>1. i = e /\ m = 1 /\ k = stack[e].live + 1
        BY SMTT(30), <1>3, <1>4, <1>15, <3>0, <3>2
      <4>2. stack'[i].roots + k = Top.roots + 1
        <5>1. stack[e].roots \in Nat /\ stack[e].live \in Nat
          BY <1>1, <1>4
        <5>2. stack[e].roots + (stack[e].live + 1) = stack[e].roots + stack[e].live + 1
          BY <5>1
        <5> QED BY <1>14, <3>0, <4>1, <5>2
      <4>3. roots'[Top.roots + 1] = e /\ Len(roots') = Top.roots + 1
        BY <1>13, <4>1
      <4> QED BY <1>4, <4>1, <4>2, <4>3
    <3> QED BY <3>1, <3>2
  <2> QED BY <1>16, <2>1 DEF RootsIntact
<1> QED BY <1>9, <1>10, <1>11, <1>13, <1>17, <1>18

(* What an ending frame leaves of the chains and of the open files.          *)
LEMMA EndedChains ==
  ASSUME RecoveryInv, NEW managed \in BOOLEAN, Ended(managed), Depth > 1,
         status = "running", status' = "running",
         Below(recoveryScope', Depth, Recovers), Below(resourceScope', Depth, Opens)
  PROVE  /\ ChainsExact' /\ PassedAbove' /\ NearestReports' /\ Depth' \in Depths
         /\ recoveryScope' \in 0..Depth' /\ resourceScope' \in 0..Depth'
         /\ Opens' = Opens \cap (1..Depth - 1)
         /\ \A i \in Opens' : stack'[i].file = stack[i].file /\ stack'[i].fd = stack[i].fd
         /\ \A i \in 1..Depth' : stack'[i].kind = "file" => stack'[i].file <= opened
<1>0. PICK d \in Nat : d = Depth
  BY TopIsFrame DEF RecoveryInv
<1>1. PICK e \in Nat : e = d - 1 /\ e >= 1 /\ e + 1 = d /\ e \in 1..d
  BY <1>0
<1>2. /\ Depth' = e /\ \A i \in 1..e : Same(stack'[i], stack[i])
      /\ \A i \in 1..e : stack[i].kind = "recover" => stack'[i].failed = stack[i].failed
  BY <1>0, <1>1, EndedFrames
<1>3. ChainsExact' /\ Recovers' = Recovers \cap (1..e) /\ Opens' = Opens \cap (1..e)
  <2>1. e \in 1..Depth /\ e + 1 = Depth
    BY <1>0, <1>1
  <2> QED BY <1>2, <2>1, ChainsCut
<1>4. Depth' \in Depths
  BY <1>0, <1>1, <1>2, BoundsAssumption DEF RecoveryInv, TypeOK, Depths
<1>5. recoveryScope' \in 0..Depth' /\ resourceScope' \in 0..Depth'
  BY <1>0, <1>1, <1>2 DEF Below
<1>6. \A i \in 1..e : i \in 1..Depth
  BY <1>0, <1>1
<1>7. PassedAbove'
  <2>1. stack'[1].kind = "code"
    BY <1>1, <1>2 DEF Same, RecoveryInv, PassedAbove
  <2>2. ASSUME NEW i \in 1..Depth', stack'[i].kind = "file", stack'[i].fd = Detached PROVE FALSE
    BY <1>2, <1>6, <2>2 DEF Same, RecoveryInv, PassedAbove
  <2> QED BY <2>1, <2>2 DEF PassedAbove
<1>8. NearestReports'
  <2> SUFFICES ASSUME NEW i \in Recovers', stack'[i].failed PROVE FALSE
    BY DEF NearestReports, Recovers
  <2>1. i \in Recovers /\ i \in 1..e /\ i # Depth
    BY <1>0, <1>1, <1>3
  <2>2. stack[i].kind = "recover" /\ i \in 1..Depth
    BY <2>1 DEF Recovers, IsRecover
  <2>3. stack[i].failed
    BY <1>2, <2>1, <2>2
  <2> QED BY <2>1, <2>2, <2>3 DEF RecoveryInv, NearestReports, IsRecover
<1>9. \A i \in Opens' : stack'[i].file = stack[i].file /\ stack'[i].fd = stack[i].fd
  <2> SUFFICES ASSUME NEW i \in Opens' PROVE stack'[i].file = stack[i].file /\ stack'[i].fd = stack[i].fd
    OBVIOUS
  <2>1. i \in 1..e /\ stack[i].kind = "file"
    BY <1>3 DEF Opens, IsOpen
  <2> QED BY <1>2, <2>1 DEF Same
<1>10. \A i \in 1..Depth' : stack'[i].kind = "file" => stack'[i].file <= opened
  BY <1>2, <1>6 DEF Same, RecoveryInv, FilesOwned
<1>11. 1..Depth - 1 = 1..e
  BY <1>0, <1>1
<1> QED BY <1>3, <1>4, <1>5, <1>7, <1>8, <1>9, <1>10, <1>11

(* A frame that ends without closing a file.                                 *)
LEMMA EndedKeeps ==
  ASSUME RecoveryInv, NEW managed \in BOOLEAN, Ended(managed), Depth > 1,
         status = "running", status' = "running", UNCHANGED hostVars, Depth \notin Opens,
         Below(recoveryScope', Depth, Recovers), Below(resourceScope', Depth, Opens)
  PROVE  RecoveryInv'
<1>1. /\ stack' \in Seq(Frame) /\ roots' \in Seq(Depths) /\ RootsOrdered' /\ RootsIntact'
  BY EndedFrames
<1>2. /\ ChainsExact' /\ PassedAbove' /\ NearestReports' /\ Depth' \in Depths
      /\ recoveryScope' \in 0..Depth' /\ resourceScope' \in 0..Depth'
      /\ Opens' = Opens \cap (1..Depth - 1)
      /\ \A i \in Opens' : stack'[i].file = stack[i].file /\ stack'[i].fd = stack[i].fd
      /\ \A i \in 1..Depth' : stack'[i].kind = "file" => stack'[i].file <= opened
  BY EndedChains
<1>3. Opens' = Opens
  BY <1>2, TopIsFrame DEF RecoveryInv, Opens
<1>4. FilesOwned' /\ FilesClosed'
  BY <1>2, <1>3, FilesKept DEF hostVars
<1>5. TypeOK'
  BY <1>1, <1>2 DEF RecoveryInv, TypeOK, hostVars, Frame
<1> QED BY <1>1, <1>2, <1>4, <1>5 DEF RecoveryInv

(* A function that returns is in neither chain.                              *)
LEMMA ReturnKeeps ==
  ASSUME RecoveryInv, NEW managed \in BOOLEAN, Return(managed)
  PROVE  RecoveryInv'
<1>0. PICK d \in Nat : d = Depth /\ d >= 1
  BY TopIsFrame DEF RecoveryInv
<1>1. /\ status = "running" /\ status' = "running" /\ Depth > 1 /\ Ended(managed) /\ UNCHANGED hostVars
      /\ stack[Depth].kind = "code" /\ recoveryScope' = recoveryScope /\ resourceScope' = resourceScope
  BY DEF Return, InCode, Top
<1>2. Depth \notin Opens /\ Depth \notin Recovers
  BY <1>1 DEF Opens, Recovers, IsOpen, IsRecover
<1>3. Recovers \in SUBSET (1..d) /\ Opens \in SUBSET (1..d)
  BY <1>0, SetsOfFrames
<1>4. Below(recoveryScope, d + 1, Recovers) /\ Below(resourceScope, d + 1, Opens)
  BY <1>0 DEF RecoveryInv, ChainsExact
<1>5. Below(recoveryScope, Depth, Recovers) /\ Below(resourceScope, Depth, Opens)
  BY <1>0, <1>2, <1>3, <1>4, BelowTop
<1> QED BY <1>1, <1>2, <1>5, EndedKeeps

(* A frame on top of the stack that is in a chain is its head.               *)
LEMMA TopIsHead ==
  ASSUME RecoveryInv, NEW S, Depth \in S, NEW j, Below(j, Depth + 1, S)
  PROVE  j = Depth
BY TopIsFrame DEF RecoveryInv, Below

(* The trampoline completes, after a return or after a longjmp.              *)
LEMMA CompleteKeeps ==
  ASSUME RecoveryInv, Complete
  PROVE  RecoveryInv'
<1>0. PICK d \in Nat : d = Depth /\ d >= 1
  BY TopIsFrame DEF RecoveryInv
<1>1. /\ status = "running" /\ status' = "running" /\ Ended(Top.notice) /\ UNCHANGED hostVars
      /\ stack[d].kind = "recover" /\ recoveryScope' = stack[d].previous /\ resourceScope' = resourceScope
  BY <1>0 DEF Complete, Top
<1>2. d \notin Opens /\ d \in Recovers
  BY <1>0, <1>1 DEF Opens, Recovers, IsOpen, IsRecover
<1>3. Opens \in SUBSET (1..d) /\ stack[d] \in RecoverFrames
  BY <1>0, <1>2, SetsOfFrames
<1>4. Below(stack[d].previous, d, Recovers) /\ Below(resourceScope, d + 1, Opens)
  BY <1>0, <1>2 DEF RecoveryInv, ChainsExact
<1>5. Below(recoveryScope', d, Recovers) /\ Below(resourceScope', d, Opens)
  BY <1>0, <1>1, <1>2, <1>3, <1>4, BelowTop
<1>6. d # 1
  BY <1>1 DEF RecoveryInv, PassedAbove
<1>7. Top.notice \in BOOLEAN
  BY <1>0, <1>3 DEF Top, RecoverFrames
<1> QED BY <1>0, <1>1, <1>2, <1>5, <1>6, <1>7, EndedKeeps

(* A file scope that ends is the head of the resource chain: its file is     *)
(* closed, and the branch that finds another head is never taken.            *)
LEMMA FileEndKeeps ==
  ASSUME RecoveryInv, FileEnd
  PROVE  RecoveryInv'
<1>0. PICK d \in Nat : d = Depth /\ d >= 1
  BY TopIsFrame DEF RecoveryInv
<1>1. status = "running" /\ stack[d].kind = "file" /\ recoveryScope' = recoveryScope
  BY <1>0 DEF FileEnd, Top
<1>2. d \in Opens /\ d \notin Recovers /\ d # 1
  BY <1>0, <1>1 DEF Opens, Recovers, IsOpen, IsRecover, RecoveryInv, PassedAbove
<1>3. Below(recoveryScope, d + 1, Recovers) /\ Below(resourceScope, d + 1, Opens) /\ Below(stack[d].parent, d, Opens)
  BY <1>0, <1>2 DEF RecoveryInv, ChainsExact
<1>4. resourceScope = Depth
  BY <1>0, <1>2, <1>3, TopIsHead
<1>5. /\ Ended(TRUE) /\ status' = "running" /\ resourceScope' = stack[d].parent /\ HostClose(stack[d].fd)
  BY <1>0, <1>1, <1>4 DEF FileEnd, ResourceClose
<1>6. Recovers \in SUBSET (1..d) /\ Opens \in SUBSET (1..d)
  BY <1>0, SetsOfFrames
<1>7. Below(recoveryScope', Depth, Recovers) /\ Below(resourceScope', Depth, Opens) /\ Depth > 1
  <2>1. Below(recoveryScope, d, Recovers)
    BY <1>0, <1>2, <1>3, <1>6, BelowTop
  <2> QED BY <1>0, <1>1, <1>2, <1>3, <1>5, <2>1
<1>8. /\ stack' \in Seq(Frame) /\ roots' \in Seq(Depths) /\ RootsOrdered' /\ RootsIntact'
  BY <1>1, <1>5, <1>7, EndedFrames
<1>9. /\ ChainsExact' /\ PassedAbove' /\ NearestReports' /\ Depth' \in Depths
      /\ recoveryScope' \in 0..Depth' /\ resourceScope' \in 0..Depth'
      /\ Opens' = Opens \cap (1..Depth - 1)
      /\ \A i \in Opens' : stack'[i].file = stack[i].file /\ stack'[i].fd = stack[i].fd
      /\ \A i \in 1..Depth' : stack'[i].kind = "file" => stack'[i].file <= opened
  BY <1>1, <1>5, <1>7, EndedChains
<1>10. Opens' = Opens \ {d}
  <2>1. ASSUME NEW i \in 1..d PROVE i \in 1..d - 1 <=> i # d
    BY <1>0
  <2>2. Opens' = Opens \cap (1..d - 1)
    BY <1>0, <1>9
  <2> QED BY <1>0, <1>6, <2>1, <2>2
<1>11. /\ FilesOwned' /\ FilesClosed' /\ opened' = opened
       /\ host' \in [Descriptors -> 0..MaxOpens] /\ closes' \in [0..MaxOpens -> Nat] /\ closes'[0] = 0
  BY <1>2, <1>5, <1>9, <1>10, FileClosedOnce
<1>12. TypeOK'
  BY <1>5, <1>8, <1>9, <1>11 DEF RecoveryInv, TypeOK, Frame
<1> QED BY <1>8, <1>9, <1>11, <1>12 DEF RecoveryInv

--------------------------------------------------------------------------------
(* Steps that keep every frame, and steps of a failure.                      *)

(* The topmost frame holds x slots now, and the count is right behind them.  *)
LEMMA SlotsRaised ==
  ASSUME RecoveryInv, NEW x \in Nat, Depth' = Depth,
         \A i \in 1..Depth : stack'[i].roots = stack[i].roots,
         \A i \in 1..Depth : i # Depth => stack'[i].live = stack[i].live,
         stack'[Depth].live = x, Len(roots') = Top.roots + x,
         \A k \in 1..Top.roots : roots'[k] = roots[k],
         \A k \in 1..x : roots'[Top.roots + k] = Depth
  PROVE  RootsOrdered' /\ RootsIntact'
<1>0. PICK d \in Nat : d = Depth /\ d >= 1
  BY TopIsFrame DEF RecoveryInv
<1>1. /\ Top = stack[d] /\ Top' = stack'[d] /\ d \in 1..d
      /\ \A i \in 1..d : stack[i].roots \in Nat /\ stack[i].live \in Nat
  BY <1>0, TopIsFrame, FrameFields DEF RecoveryInv, Top
<1>2. Top'.roots = Top.roots /\ Top'.live = x /\ Top.roots \in Nat
  BY <1>0, <1>1
<1>3. Top'.roots + Top'.live = Len(roots') /\ Len(roots') \in Nat
  BY <1>2
<1>4. RootsOrdered'
  <2>1. ASSUME NEW i \in 1..Depth', NEW j \in 1..Depth', i < j
        PROVE  stack'[i].roots + stack'[i].live <= stack'[j].roots
    <3>1. i \in 1..Depth /\ j \in 1..Depth /\ i # Depth
      BY <1>0, <2>1
    <3>2. stack[i].roots + stack[i].live <= stack[j].roots
      BY <2>1, <3>1 DEF RecoveryInv, RootsOrdered
    <3> QED BY <3>1, <3>2
  <2>2. ASSUME NEW i \in 1..Depth' - 1
        PROVE  stack'[i + 1].roots = stack'[i].roots + stack'[i].live
    <3>1. i \in 1..Depth - 1 /\ i \in 1..Depth /\ i + 1 \in 1..Depth /\ i # Depth
      BY <1>0
    <3>2. stack[i + 1].roots = stack[i].roots + stack[i].live
      BY <3>1 DEF RecoveryInv, RootsOrdered
    <3> QED BY <3>1, <3>2
  <2>3. Top'.roots + Top'.live <= Len(roots')
    BY <1>3
  <2> QED BY <2>1, <2>2, <2>3 DEF RootsOrdered
<1>5. RootsIntact'
  <2>1. ASSUME NEW i \in 1..Depth', NEW k \in 1..stack'[i].live
        PROVE  stack'[i].roots + k <= Len(roots') /\ roots'[stack'[i].roots + k] = i
    <3>1. i \in 1..d /\ i \in 1..Depth /\ stack'[i].roots = stack[i].roots
      BY <1>0
    <3>2. CASE i = d
      <4>1. stack'[i].roots = Top.roots /\ stack'[i].live = x
        BY <1>0, <1>1, <3>1, <3>2
      <4>2. k \in 1..x
        BY <4>1
      <4>3. roots'[Top.roots + k] = d /\ Top.roots + k <= Top.roots + x
        BY <1>0, <1>2, <4>2
      <4> QED BY <3>2, <4>1, <4>3
    <3>3. CASE i # d
      <4>1. stack'[i].live = stack[i].live /\ k \in 1..stack[i].live
        BY <1>0, <3>1, <3>3
      <4>2. stack[i].roots + stack[i].live <= Top.roots
        <5>1. i < d /\ d \in 1..Depth
          BY <1>0, <3>1, <3>3
        <5> QED BY <1>1, <3>1, <5>1 DEF RecoveryInv, RootsOrdered
      <4>3. stack[i].roots \in Nat /\ stack[i].live \in Nat
        BY <1>1, <3>1
      <4>4. stack[i].roots + k \in 1..Top.roots
        BY <1>2, <4>1, <4>2, <4>3
      <4>5. roots[stack[i].roots + k] = i
        BY <3>1, <4>1 DEF RecoveryInv, RootsIntact
      <4>6. stack[i].roots + k <= Len(roots')
        BY <1>2, <4>3, <4>4
      <4> QED BY <3>1, <4>4, <4>5, <4>6
    <3> QED BY <3>2, <3>3
  <2> QED BY <1>3, <2>1 DEF RootsIntact
<1> QED BY <1>4, <1>5

(* The chains and the open files of a step that only changes slots and flags. *)
LEMMA FramesStay ==
  ASSUME RecoveryInv, Depth' = Depth, \A i \in 1..Depth : Same(stack'[i], stack[i]),
         UNCHANGED <<recoveryScope, resourceScope>>
  PROVE  /\ ChainsExact' /\ Recovers' = Recovers /\ Opens' = Opens
         /\ recoveryScope' \in 0..Depth' /\ resourceScope' \in 0..Depth'
         /\ \A i \in Opens : stack'[i].file = stack[i].file /\ stack'[i].fd = stack[i].fd
         /\ \A i \in 1..Depth' : stack'[i].kind = "file" => stack'[i].file <= opened
<1>0. PICK d \in Nat : d = Depth /\ d \in 1..d
  BY TopIsFrame DEF RecoveryInv
<1>1. Below(recoveryScope', d + 1, Recovers) /\ Below(resourceScope', d + 1, Opens)
  BY <1>0 DEF RecoveryInv, ChainsExact
<1>2. ChainsExact' /\ Recovers' = Recovers \cap (1..d) /\ Opens' = Opens \cap (1..d)
  BY <1>0, <1>1, ChainsCut
<1>3. Recovers' = Recovers /\ Opens' = Opens
  BY <1>0, <1>2 DEF Recovers, Opens
<1>4. \A i \in Opens : stack'[i].file = stack[i].file /\ stack'[i].fd = stack[i].fd
  BY DEF Opens, IsOpen, Same
<1>5. \A i \in 1..Depth' : stack'[i].kind = "file" => stack'[i].file <= opened
  BY DEF Same, RecoveryInv, FilesOwned
<1> QED BY <1>2, <1>3, <1>4, <1>5 DEF RecoveryInv, TypeOK

(* In a running function no scope has been told and no file been passed.     *)
LEMMA NothingPassed ==
  ASSUME RecoveryInv, InCode
  PROVE  /\ \A i \in Recovers : ~stack[i].failed
         /\ \A i \in 1..Depth : stack[i].kind = "file" => stack[i].fd # Detached
<1>1. status = "running" /\ stack[Depth].kind = "code"
  BY DEF InCode, Top
<1> QED BY <1>1 DEF RecoveryInv, NearestReports, PassedAbove, Recovers, IsRecover

(* trbn_file_scope without a file: the file that was acquired is closed.     *)
LEMMA FileRefusedKeeps ==
  ASSUME RecoveryInv, NEW n \in Nat, NEW acquired \in BOOLEAN, FileRefused(n, acquired)
  PROVE  RecoveryInv'
<1>0. PICK d \in Nat : d = Depth /\ d >= 1 /\ d \in 1..d
  BY TopIsFrame DEF RecoveryInv
<1>1. /\ TypeOK /\ Top.kind = "code" /\ Top.roots \in Nat /\ Top = stack[d] /\ status = "running"
      /\ status' = "running" /\ InCode /\ UNCHANGED <<recoveryScope, resourceScope, host>>
      /\ d \in Depths /\ n + 1 \in Nat
  BY <1>0, TopIsFrame, FrameFields DEF RecoveryInv, TypeOK, FileRefused, InCode, Top
<1>2. /\ stack' \in Seq(Frame) /\ Len(stack') = d /\ stack'[d] = Held(n + 1) /\ Held(n + 1) \in CodeFrames
      /\ \A i \in 1..d : i # d => stack'[i] = stack[i]
  BY <1>0, <1>1, HeldFrame DEF FileRefused
<1>3. Held(n + 1).kind = "code" /\ Held(n + 1).roots = Top.roots /\ Held(n + 1).live = n + 1
  BY DEF Held
<1>4. Depth' = Depth /\ \A i \in 1..Depth : Same(stack'[i], stack[i])
  BY <1>0, <1>1, <1>2, <1>3 DEF Same, Depth
<1>5. /\ ChainsExact' /\ Recovers' = Recovers /\ Opens' = Opens
      /\ recoveryScope' \in 0..Depth' /\ resourceScope' \in 0..Depth'
      /\ \A i \in Opens : stack'[i].file = stack[i].file /\ stack'[i].fd = stack[i].fd
      /\ \A i \in 1..Depth' : stack'[i].kind = "file" => stack'[i].file <= opened
  BY <1>1, <1>4, FramesStay
<1>6. /\ roots' \in Seq(Depths) /\ Len(roots') = Top.roots + (n + 1)
      /\ \A k \in 1..Top.roots : roots'[k] = roots[k]
      /\ \A k \in 1..n + 1 : roots'[Top.roots + k] = d
  <2> DEFINE t == Published(n)
  <2>1. /\ t \in Seq(Depths) /\ Len(t) = Top.roots + n
        /\ \A k \in 1..Top.roots : t[k] = roots[k]
        /\ \A k \in 1..n : t[Top.roots + k] = d
    BY <1>0, PublishedSlots DEF RecoveryInv
  <2>2. roots' = Append(t, d)
    BY <1>0 DEF FileRefused
  <2> HIDE DEF t
  <2>3. /\ roots' \in Seq(Depths) /\ Len(roots') = Len(t) + 1 /\ roots'[Len(t) + 1] = d
        /\ \A k \in 1..Len(t) : roots'[k] = t[k]
    BY <1>1, <2>1, <2>2, AppendProperties
  <2>4. Len(roots') = Top.roots + (n + 1)
    BY SMTT(30), <1>1, <2>1, <2>3
  <2>5. ASSUME NEW k \in 1..Top.roots PROVE roots'[k] = roots[k]
    <3>1. k \in 1..Len(t)
      BY <1>1, <2>1
    <3> QED BY <2>1, <2>3, <3>1
  <2>6. ASSUME NEW k \in 1..n + 1 PROVE roots'[Top.roots + k] = d
    <3>1. CASE k \in 1..n
      <4>1. Top.roots + k \in 1..Len(t)
        BY <1>1, <2>1, <3>1
      <4> QED BY <2>1, <2>3, <3>1, <4>1
    <3>2. CASE k = n + 1
      <4>1. Top.roots + k = Len(t) + 1
        <5>1. Top.roots + (n + 1) = Top.roots + n + 1
          BY <1>1
        <5> QED BY <2>1, <3>2, <5>1
      <4> QED BY <2>3, <4>1
    <3> QED BY <3>1, <3>2
  <2> QED BY <2>3, <2>4, <2>5, <2>6
<1>7. RootsOrdered' /\ RootsIntact'
  <2>1. /\ \A i \in 1..Depth : stack'[i].roots = stack[i].roots
        /\ \A i \in 1..Depth : i # Depth => stack'[i].live = stack[i].live
        /\ stack'[Depth].live = n + 1
    BY <1>0, <1>2, <1>3, <1>4 DEF Same
  <2> QED BY <1>0, <1>1, <1>4, <1>6, <2>1, SlotsRaised
<1>8. PassedAbove'
  BY <1>0, <1>4, NothingPassed, <1>1 DEF Same, PassedAbove, RecoveryInv
<1>9. NearestReports'
  <2>1. \A i \in Recovers' : ~stack'[i].failed
    <3> SUFFICES ASSUME NEW i \in Recovers PROVE ~stack'[i].failed
      BY <1>5
    <3>1. i \in 1..d /\ i # d
      BY <1>0, <1>1 DEF Recovers, IsRecover
    <3> QED BY <1>1, <1>2, <3>1, NothingPassed
  <2> QED BY <2>1 DEF NearestReports, Recovers
<1>10. /\ opened' \in 0..MaxOpens /\ closes' \in [0..MaxOpens -> Nat] /\ closes'[0] = 0
       /\ FilesOwned' /\ FilesClosed'
  <2>1. CASE ~acquired
    <3>1. UNCHANGED <<host, opened, closes>>
      BY <1>1, <2>1 DEF FileRefused
    <3>2. FilesOwned' /\ FilesClosed'
      BY <1>1, <1>5, <3>1, FilesKept
    <3> QED BY <3>1, <3>2 DEF RecoveryInv, TypeOK
  <2>2. CASE acquired
    <3>1. PICK f \in Nat : f = opened + 1 /\ opened < MaxOpens /\ f \in Files /\ f # 0 /\ f \in 0..MaxOpens
      BY <2>2, BoundsAssumption DEF FileRefused, RecoveryInv, TypeOK, Files
    <3>2. opened' = f /\ closes' = [closes EXCEPT ![f] = @ + 1]
      BY <2>2, <3>1 DEF FileRefused
    <3>3. closes \in [0..MaxOpens -> Nat] /\ closes[0] = 0 /\ closes[f] = 0 /\ opened \in Nat
      BY <3>1 DEF RecoveryInv, TypeOK, FilesOwned
    <3>4. /\ closes' \in [0..MaxOpens -> Nat] /\ closes'[f] = 1
          /\ \A g \in 0..MaxOpens : g # f => closes'[g] = closes[g]
      BY <3>1, <3>2, <3>3
    <3>5. closes'[0] = 0
      BY <3>1, <3>3, <3>4, BoundsAssumption
    <3>6. FilesOwned'
      <4>1. \A i \in 1..Depth' : stack'[i].kind = "file" => stack'[i].file <= opened'
        <5> SUFFICES ASSUME NEW i \in 1..Depth', stack'[i].kind = "file" PROVE stack'[i].file <= opened'
          OBVIOUS
        <5>1. stack'[i].file <= opened /\ stack'[i] \in Frame
          BY <1>2, <1>4, <1>0, <1>5
        <5>2. stack'[i].file \in Nat
          BY <5>1, FrameFields DEF FileFrames, Files
        <5> QED BY <3>1, <3>2, <3>3, <5>1, <5>2
      <4>2. \A i, j \in Opens' : stack'[i].file = stack'[j].file => i = j
        BY <1>5 DEF RecoveryInv, FilesOwned
      <4>3. \A g \in Files : g > opened' => closes'[g] = 0
        <5> SUFFICES ASSUME NEW g \in Files, g > f PROVE closes'[g] = 0
          BY <3>2
        <5>1. g # f /\ g > opened /\ g \in 0..MaxOpens
          BY <3>1, <3>3 DEF Files
        <5> QED BY <3>4, <5>1 DEF RecoveryInv, FilesOwned
      <4>4. \A fd \in Descriptors : host'[fd] # 0 => \E i \in Opens' : stack'[i].fd = fd
        BY <1>1, <1>5 DEF RecoveryInv, FilesOwned
      <4> QED BY <4>1, <4>2, <4>3, <4>4 DEF FilesOwned
    <3>7. ClosedOnce'
      <4>1. ASSUME NEW g \in 1..opened'
            PROVE  closes'[g] = IF \E i \in Opens' : stack'[i].file = g THEN 0 ELSE 1
        <5>1. CASE g = f
          <6>1. ~ \E i \in Opens' : stack'[i].file = g
            <7> SUFFICES ASSUME NEW i \in Opens, stack[i].file = f PROVE FALSE
              BY <1>5, <5>1
            <7>1. f <= opened
              BY SetsOfFrames
            <7> QED BY <3>1, <3>3, <7>1
          <6> QED BY <3>4, <5>1, <6>1
        <5>2. CASE g # f
          <6>1. g \in 1..opened /\ g \in 0..MaxOpens
            <7>1. g \in 1..f
              BY <3>2
            <7> QED BY <3>1, <3>3, <5>2, <7>1, BoundsAssumption
          <6>2. closes[g] = IF \E i \in Opens : stack[i].file = g THEN 0 ELSE 1
            BY <6>1, SetsOfFrames
          <6> QED BY <1>5, <3>4, <5>2, <6>1, <6>2
        <5> QED BY <5>1, <5>2
      <4>2. \A i \in Opens' : host'[stack'[i].fd] = stack'[i].file
        BY <1>1, <1>5, SetsOfFrames
      <4> QED BY <4>1, <4>2 DEF ClosedOnce, Opens
    <3>8. FilesClosed'
      BY <1>1, <3>7 DEF FilesClosed, NothingLeftOpen
    <3> QED BY <3>1, <3>2, <3>4, <3>5, <3>6, <3>8
  <2> QED BY <2>1, <2>2
<1>11. TypeOK'
  BY <1>1, <1>2, <1>4, <1>5, <1>6, <1>10 DEF TypeOK, Frame
<1> QED BY <1>5, <1>7, <1>8, <1>9, <1>10, <1>11 DEF RecoveryInv

(* A program ends in its first frame, which no scope is open below.          *)
LEMMA ExitKeeps ==
  ASSUME RecoveryInv, Exit
  PROVE  RecoveryInv'
<1>1. /\ status = "running" /\ status' = "done" /\ Depth = 1 /\ InCode
      /\ UNCHANGED <<stack, recoveryScope, resourceScope, roots, host, opened, closes>>
  BY DEF Exit, InCode, hostVars
<1>2. Opens = {} /\ Recovers = {}
  BY <1>1 DEF RecoveryInv, PassedAbove, Opens, Recovers, IsOpen, IsRecover
<1>3. Depth' = Depth /\ Opens' = Opens /\ Recovers' = Recovers /\ Top' = Top
  BY <1>1 DEF Depth, Opens, Recovers, IsOpen, IsRecover, Top
<1>4. FilesOwned' /\ FilesClosed'
  <2>1. \A i \in 1..Depth' : stack'[i].kind = "file" => stack'[i].file <= opened
    BY <1>1, <1>3 DEF RecoveryInv, FilesOwned
  <2> QED BY <1>1, <1>2, <1>3, <2>1, FilesKept
<1>5. ChainsExact' /\ RootsOrdered'
  BY <1>1, <1>3 DEF RecoveryInv, ChainsExact, RootsOrdered
<1>6. RootsIntact'
  BY <1>1, <1>3 DEF RecoveryInv, RootsIntact, InCode
<1>7. PassedAbove'
  BY <1>1, <1>3, NothingPassed DEF RecoveryInv, PassedAbove
<1>8. NearestReports'
  BY <1>1, <1>2, <1>3 DEF NearestReports, Recovers
<1>9. TypeOK'
  BY <1>1, <1>3 DEF RecoveryInv, TypeOK
<1> QED BY <1>4, <1>5, <1>6, <1>7, <1>8, <1>9 DEF RecoveryInv

(* q is the recovery scope r after its recorder has been told.               *)
Told(q, r) ==
  /\ q \in Frame /\ Same(q, r) /\ q.live = r.live /\ q.failed

(* A scope that is marked as failed.                                         *)
LEMMA FailedSet ==
  ASSUME NEW r \in RecoverFrames
  PROVE  Told([r EXCEPT !.failed = TRUE], r)
BY DEF RecoverFrames, Frame, Same, Told

(* A failure: only the nearest scope may be told of it.                      *)
LEMMA FailKeeps ==
  ASSUME RecoveryInv, NEW pushed \in Nat, Fail(pushed)
  PROVE  RecoveryInv'
<1>0. PICK d \in Nat : d = Depth /\ d >= 1 /\ d \in 1..d
  BY TopIsFrame DEF RecoveryInv
<1>1. /\ TypeOK /\ Top.kind = "code" /\ Top.roots \in Nat /\ Top.live \in Nat /\ Top = stack[d]
      /\ status = "running" /\ status' = "unwinding" /\ InCode
      /\ UNCHANGED <<recoveryScope, resourceScope, host, opened, closes>> /\ d \in Depths
  BY <1>0, TopIsFrame, FrameFields DEF RecoveryInv, TypeOK, Fail, InCode, Top, hostVars
<1> DEFINE told == recoveryScope # 0 /\ stack[recoveryScope].notice
<1>2. PICK above \in Nat : above = IF told THEN pushed + 1 ELSE pushed
  OBVIOUS
<1>3. PICK x \in Nat : x = Top.live + above
  BY <1>1
<1>4. /\ roots' = roots \o Slots(above, d)
      /\ stack' = IF told THEN [Holding(x) EXCEPT ![recoveryScope].failed = TRUE] ELSE Holding(x)
  BY <1>0, <1>2, <1>3 DEF Fail, Notice, NoticeTo
<1>5. /\ Holding(x) \in Seq(Frame) /\ Len(Holding(x)) = d /\ Holding(x)[d] = Held(x) /\ Held(x) \in CodeFrames
      /\ \A i \in 1..d : i # d => Holding(x)[i] = stack[i]
  BY <1>0, <1>1, HeldFrame
<1>6. Held(x).kind = "code" /\ Held(x).roots = Top.roots /\ Held(x).live = x /\ Same(Held(x), Top)
  BY <1>1 DEF Held, Same
<1>7. told => /\ recoveryScope \in Recovers /\ recoveryScope \in 1..d /\ recoveryScope # d
              /\ stack[recoveryScope] \in RecoverFrames
  <2> SUFFICES ASSUME told PROVE /\ recoveryScope \in Recovers /\ recoveryScope \in 1..d /\ recoveryScope # d
                                 /\ stack[recoveryScope] \in RecoverFrames
    OBVIOUS
  <2>1. recoveryScope \in Recovers
    BY DEF RecoveryInv, ChainsExact, Below
  <2>2. recoveryScope # d
    BY <1>1, <2>1 DEF Recovers, IsRecover
  <2> QED BY <1>0, <2>1, <2>2, SetsOfFrames
<1> HIDE DEF told
<1>8. /\ stack' \in Seq(Frame) /\ Len(stack') = d /\ stack'[d] = Held(x)
      /\ \A i \in 1..d : i # d /\ i # recoveryScope => stack'[i] = stack[i]
      /\ recoveryScope \in 1..d /\ recoveryScope # d =>
            /\ Same(stack'[recoveryScope], stack[recoveryScope])
            /\ stack'[recoveryScope].live = stack[recoveryScope].live
  <2>1. CASE ~told
    <3>1. stack' = Holding(x)
      BY <1>4, <2>1
    <3> QED BY <1>5, <3>1 DEF Same
  <2>2. CASE told
    <3> DEFINE q == [stack[recoveryScope] EXCEPT !.failed = TRUE]
    <3>1. recoveryScope \in 1..d /\ recoveryScope # d /\ stack[recoveryScope] \in RecoverFrames
      BY <1>7, <2>2
    <3>2. Told(q, stack[recoveryScope])
      BY <3>1, FailedSet
    <3>3. stack' = [Holding(x) EXCEPT ![recoveryScope] = q]
      BY <1>4, <1>5, <2>2, <3>1
    <3> HIDE DEF q
    <3>4. q \in Frame
      BY <3>2 DEF Told
    <3>5. /\ stack' \in Seq(Frame) /\ Len(stack') = d /\ stack'[recoveryScope] = q
          /\ \A i \in 1..d : i # recoveryScope => stack'[i] = Holding(x)[i]
      BY <1>5, <3>1, <3>3, <3>4
    <3> QED BY <1>0, <1>5, <3>1, <3>2, <3>5 DEF Told
  <2> QED BY <2>1, <2>2
<1>9. /\ Depth' = Depth
      /\ \A i \in 1..Depth : Same(stack'[i], stack[i])
      /\ \A i \in 1..Depth : i # Depth => stack'[i].live = stack[i].live
  <2>1. ASSUME NEW i \in 1..d PROVE Same(stack'[i], stack[i]) /\ (i # d => stack'[i].live = stack[i].live)
    <3>1. CASE i = d
      BY <1>1, <1>6, <1>8, <3>1
    <3>2. CASE i # d /\ i = recoveryScope
      BY <1>8, <3>2
    <3>3. CASE i # d /\ i # recoveryScope
      BY <1>8, <3>3 DEF Same
    <3> QED BY <3>1, <3>2, <3>3
  <2> QED BY <1>0, <1>8, <2>1 DEF Depth
<1>10. /\ ChainsExact' /\ Recovers' = Recovers /\ Opens' = Opens
       /\ recoveryScope' \in 0..Depth' /\ resourceScope' \in 0..Depth'
       /\ \A i \in Opens : stack'[i].file = stack[i].file /\ stack'[i].fd = stack[i].fd
       /\ \A i \in 1..Depth' : stack'[i].kind = "file" => stack'[i].file <= opened
  BY <1>1, <1>9, FramesStay
<1>11. /\ roots' \in Seq(Depths) /\ Len(roots') = Top.roots + x
       /\ \A k \in 1..Top.roots : roots'[k] = roots[k]
       /\ \A k \in 1..x : roots'[Top.roots + k] = d
  <2>1. Grown(roots', roots, above, d)
    BY <1>1, <1>4, SlotsAdded DEF TypeOK
  <2>2. /\ roots' \in Seq(Depths) /\ Len(roots') = Len(roots) + above
        /\ \A k \in 1..Len(roots) : roots'[k] = roots[k]
        /\ \A k \in 1..above : roots'[Len(roots) + k] = d
    BY <2>1 DEF Grown
  <2>3. Len(roots) = Top.roots + Top.live
    BY <1>1 DEF RecoveryInv, RootsIntact
  <2>4. Len(roots') = Top.roots + x
    <3>1. Top.roots + (Top.live + above) = Top.roots + Top.live + above
      BY <1>1
    <3> QED BY <1>3, <2>2, <2>3, <3>1
  <2>5. ASSUME NEW k \in 1..Top.roots PROVE roots'[k] = roots[k]
    <3>1. k \in 1..Len(roots)
      BY <1>1, <2>3
    <3> QED BY <2>2, <3>1
  <2>6. ASSUME NEW k \in 1..x PROVE roots'[Top.roots + k] = d
    <3>1. CASE k <= Top.live
      <4>1. Top.roots + k \in 1..Len(roots) /\ k \in 1..Top.live
        BY SMTT(30), <1>1, <1>3, <2>3, <3>1
      <4>2. roots[Top.roots + k] = d
        BY <1>0, <1>1, <4>1 DEF RecoveryInv, RootsIntact
      <4> QED BY <2>2, <4>1, <4>2
    <3>2. CASE ~(k <= Top.live)
      <4>1. PICK j \in 1..above : k = Top.live + j
        <5>1. PICK y \in Nat : y = Top.live
          BY <1>1
        <5>2. x = y + above /\ ~(k <= y) /\ k \in 1..x
          BY <1>3, <3>2, <5>1
        <5>3. k - y \in 1..above /\ k = y + (k - y)
          BY <5>2
        <5> QED BY <5>1, <5>3
      <4>2. Top.roots + (Top.live + j) = Top.roots + Top.live + j
        BY <1>1
      <4> QED BY <2>2, <2>3, <4>1, <4>2
    <3> QED BY <3>1, <3>2
  <2> QED BY <2>2, <2>4, <2>5, <2>6
<1>12. RootsOrdered' /\ RootsIntact'
  <2>1. /\ \A i \in 1..Depth : stack'[i].roots = stack[i].roots
        /\ stack'[Depth].live = x
    BY <1>0, <1>6, <1>8, <1>9 DEF Same
  <2> QED BY <1>0, <1>9, <1>11, <2>1, SlotsRaised
<1>13. PassedAbove'
  BY <1>0, <1>1, <1>9, NothingPassed DEF Same, PassedAbove, RecoveryInv
<1>14. NearestReports'
  <2> SUFFICES ASSUME NEW i \in Recovers, i # recoveryScope, stack'[i].failed PROVE FALSE
    BY <1>1, <1>10 DEF NearestReports, Recovers
  <2>1. i \in 1..d /\ i # d
    BY <1>0, <1>1 DEF Recovers, IsRecover
  <2> QED BY <1>1, <1>8, <2>1, NothingPassed
<1>15. FilesOwned' /\ FilesClosed'
  BY <1>1, <1>10, FilesKept
<1>16. TypeOK'
  BY <1>1, <1>8, <1>9, <1>10, <1>11 DEF TypeOK, Frame
<1> QED BY <1>10, <1>12, <1>13, <1>14, <1>15, <1>16 DEF RecoveryInv

(* Unwinding has not reached its boundary: the head of the resource chain is *)
(* a file frame above the scope that recovers.                               *)
LEMMA HeadIsAbove ==
  ASSUME RecoveryInv, resourceScope # Boundary
  PROVE  resourceScope \in Opens /\ recoveryScope < resourceScope
<1>0. PICK d \in Nat : d = Depth /\ d >= 1
  BY TopIsFrame DEF RecoveryInv
<1>1. /\ Below(recoveryScope, d + 1, Recovers) /\ Below(resourceScope, d + 1, Opens)
      /\ Recovers \in SUBSET (1..d) /\ Opens \in SUBSET (1..d) /\ Recovers \cap Opens = {}
  BY <1>0, SetsOfFrames DEF RecoveryInv, ChainsExact
<1>2. CASE recoveryScope = 0
  BY <1>1, <1>2 DEF Boundary, Below
<1>3. CASE recoveryScope # 0
  <2>1. PICK b : b = stack[recoveryScope].boundary /\ resourceScope # b
    BY <1>3 DEF Boundary
  <2>2. recoveryScope \in Recovers
    BY <1>1, <1>3 DEF Below
  <2>3. Below(b, recoveryScope, Opens)
    BY <2>1, <2>2 DEF RecoveryInv, ChainsExact
  <2>4. b \in Nat /\ b < recoveryScope /\ recoveryScope \in 1..d /\ resourceScope \in 0..d
    BY <1>1, <2>2, <2>3 DEF Below
  <2>5. b # 0 => b <= resourceScope
    BY <1>1, <2>3, <2>4 DEF Below
  <2>6. resourceScope # 0 /\ b < resourceScope
    BY <2>1, <2>4, <2>5
  <2>7. resourceScope \in Opens /\ resourceScope # recoveryScope
    BY <1>1, <2>2, <2>6 DEF Below
  <2>8. ~(resourceScope < recoveryScope)
    BY <2>3, <2>4, <2>6, <2>7 DEF Below
  <2> QED BY <2>4, <2>7, <2>8
<1> QED BY <1>2, <1>3

(* q is the file frame r after its descriptor was taken out.                 *)
Passed(q, r) ==
  /\ q \in Frame /\ q.kind = "file" /\ q.roots = r.roots /\ q.live = r.live
  /\ q.parent = r.parent /\ q.file = r.file /\ q.fd = Detached

(* A file frame whose descriptor the unwinding loop has taken.               *)
LEMMA DescriptorTaken ==
  ASSUME NEW r \in FileFrames
  PROVE  Passed([r EXCEPT !.fd = Detached], r)
BY DEF FileFrames, Frame, Passed

(* One turn of trbn_resource_unwind; it never finds the chain at its end.    *)
LEMMA UnwindCloseKeeps ==
  ASSUME RecoveryInv, UnwindClose
  PROVE  RecoveryInv'
<1>0. PICK d \in Nat : d = Depth /\ d >= 1
  BY TopIsFrame DEF RecoveryInv
<1>1. PICK h \in Opens : h = resourceScope /\ recoveryScope < h
  BY HeadIsAbove DEF UnwindClose
<1>2. /\ stack[h] \in FileFrames /\ h \in 1..d /\ stack[h].kind = "file" /\ h # 0
      /\ Recovers \in SUBSET (1..d) /\ Opens \in SUBSET (1..d) /\ Recovers \cap Opens = {}
  BY <1>0, <1>1, SetsOfFrames DEF Opens, IsOpen
<1>3. /\ status = "unwinding" /\ status' = "unwinding" /\ resourceScope' = stack[h].parent
      /\ HostClose(stack[h].fd) /\ stack' = [stack EXCEPT ![h].fd = Detached]
      /\ recoveryScope' = recoveryScope /\ roots' = roots
  BY <1>1, <1>2 DEF UnwindClose, ResourceClose
<1> DEFINE q == [stack[h] EXCEPT !.fd = Detached]
<1>4. stack \in Seq(Frame) /\ Len(stack) = d
  BY <1>0, TopIsFrame DEF RecoveryInv, Depth
<1>5. Passed(q, stack[h]) /\ stack' = [stack EXCEPT ![h] = q]
  BY <1>2, <1>3, <1>4, DescriptorTaken
<1> HIDE DEF q
<1>6. /\ stack' \in Seq(Frame) /\ Len(stack') = d /\ stack'[h] = q
      /\ \A i \in 1..d : i # h => stack'[i] = stack[i]
  BY <1>2, <1>4, <1>5 DEF Passed
<1>7. Depth' = d /\ Depth' = Depth
  BY <1>0, <1>6 DEF Depth
<1>8. \A i \in 1..d : /\ stack'[i].kind = stack[i].kind /\ stack'[i].roots = stack[i].roots
                      /\ stack'[i].live = stack[i].live
  BY <1>2, <1>5, <1>6 DEF Passed
<1>9. Recovers' = Recovers
  BY <1>0, <1>7, <1>8 DEF Recovers, IsRecover
<1>10. Opens' = Opens \ {h}
  <2>1. \A i \in 1..d : i \in Opens' <=> i \in Opens /\ i # h
    <3> SUFFICES ASSUME NEW i \in 1..d PROVE i \in Opens' <=> i \in Opens /\ i # h
      OBVIOUS
    <3>1. CASE i = h
      BY <1>5, <1>6, <3>1 DEF Passed, Opens, IsOpen
    <3>2. CASE i # h
      BY <1>0, <1>6, <1>7, <3>2 DEF Opens, IsOpen
    <3> QED BY <3>1, <3>2
  <2>2. Opens' \in SUBSET (1..d)
    BY <1>7 DEF Opens
  <2> QED BY <1>2, <2>1, <2>2
<1>11. /\ Below(recoveryScope, d + 1, Recovers) /\ Below(h, d + 1, Opens) /\ Below(stack[h].parent, h, Opens)
  BY <1>0, <1>1 DEF RecoveryInv, ChainsExact
<1>12. ASSUME NEW i \in 1..h, NEW j, Below(j, i, Opens) PROVE Below(j, i, Opens')
  <2>1. \A m \in 1..i - 1 : m \in Opens <=> m \in Opens'
    BY <1>2, <1>10
  <2>2. Opens \in SUBSET Nat /\ Opens' \in SUBSET Nat /\ 0 \notin Opens' /\ i \in Nat
    BY <1>2, <1>10
  <2> QED BY <1>12, <2>1, <2>2, BelowKept
<1>13. ChainsExact'
  <2>1. Below(resourceScope', Depth' + 1, Opens')
    <3>1. stack[h].parent \in 0..h - 1 /\ (stack[h].parent # 0 => stack[h].parent \in Opens)
      BY <1>11 DEF Below
    <3>2. stack[h].parent \in 0..(d + 1) - 1 /\ stack[h].parent # h
      BY <1>0, <1>2, <3>1
    <3>3. ASSUME NEW m \in Opens' PROVE m <= stack[h].parent
      <4>1. m \in Opens /\ m # h /\ m \in 1..d
        BY <1>2, <1>10
      <4>2. m <= h
        BY <1>11, <4>1 DEF Below
      <4>3. m < h
        BY <1>2, <4>1, <4>2
      <4> QED BY <1>11, <4>1, <4>3 DEF Below
    <3> QED BY <1>3, <1>7, <1>10, <3>1, <3>2, <3>3 DEF Below
  <2>2. Below(recoveryScope', Depth' + 1, Recovers')
    BY <1>3, <1>7, <1>9, <1>11
  <2>3. ASSUME NEW i \in Recovers'
        PROVE  Below(stack'[i].previous, i, Recovers') /\ Below(stack'[i].boundary, i, Opens')
    <3>1. i \in Recovers /\ i \in 1..d /\ i # h
      BY <1>2, <1>9
    <3>2. i <= recoveryScope /\ recoveryScope \in 0..d
      BY <1>0, <1>11, <3>1 DEF Below
    <3>3. i \in 1..h
      BY <1>1, <1>2, <3>1, <3>2
    <3>4. Below(stack[i].previous, i, Recovers) /\ Below(stack[i].boundary, i, Opens)
      BY <3>1 DEF RecoveryInv, ChainsExact
    <3> QED BY <1>6, <1>9, <1>12, <3>1, <3>3, <3>4
  <2>4. ASSUME NEW i \in Opens' PROVE Below(stack'[i].parent, i, Opens')
    <3>1. i \in Opens /\ i \in 1..d /\ i # h
      BY <1>2, <1>10
    <3>2. i <= h
      BY <1>11, <3>1 DEF Below
    <3>3. i \in 1..h
      BY <1>2, <3>1, <3>2
    <3>4. Below(stack[i].parent, i, Opens)
      BY <3>1 DEF RecoveryInv, ChainsExact
    <3> QED BY <1>6, <1>12, <3>1, <3>3, <3>4
  <2> QED BY <2>1, <2>2, <2>3, <2>4 DEF ChainsExact
<1>14. /\ FilesOwned' /\ FilesClosed' /\ opened' = opened
       /\ host' \in [Descriptors -> 0..MaxOpens] /\ closes' \in [0..MaxOpens -> Nat] /\ closes'[0] = 0
  <2>1. \A i \in Opens' : stack'[i].file = stack[i].file /\ stack'[i].fd = stack[i].fd
    BY <1>2, <1>6, <1>10
  <2>2. \A i \in 1..Depth' : stack'[i].kind = "file" => stack'[i].file <= opened
    <3>1. \A i \in 1..d : stack[i].kind = "file" => stack[i].file <= opened
      BY <1>0 DEF RecoveryInv, FilesOwned
    <3> QED BY <1>2, <1>5, <1>6, <1>7, <3>1 DEF Passed
  <2> QED BY <1>1, <1>3, <1>10, <2>1, <2>2, FileClosedOnce
<1>15. PassedAbove'
  <2>1. stack'[1].kind = "code"
    BY <1>0, <1>8 DEF RecoveryInv, PassedAbove
  <2>2. ASSUME NEW i \in 1..Depth', stack'[i].kind = "file", stack'[i].fd = Detached
        PROVE  recoveryScope' < i
    <3>1. CASE i = h
      BY <1>1, <1>3, <3>1
    <3>2. CASE i # h
      <4>1. i \in 1..d /\ stack'[i] = stack[i]
        BY <1>6, <1>7, <3>2
      <4> QED BY <1>0, <1>3, <2>2, <4>1 DEF RecoveryInv, PassedAbove
    <3> QED BY <3>1, <3>2
  <2> QED BY <1>3, <2>1, <2>2 DEF PassedAbove
<1>16. RootsOrdered'
  <2>1. Top'.roots = Top.roots /\ Top'.live = Top.live /\ d \in 1..d
    BY <1>0, <1>7, <1>8 DEF Top
  <2>2. \A i, j \in 1..Depth' : i < j => stack'[i].roots + stack'[i].live <= stack'[j].roots
    BY <1>0, <1>7, <1>8 DEF RecoveryInv, RootsOrdered
  <2>3. ASSUME NEW i \in 1..Depth' - 1
        PROVE  stack'[i + 1].roots = stack'[i].roots + stack'[i].live
    <3>1. i \in 1..Depth - 1 /\ i \in 1..d /\ i + 1 \in 1..d
      BY <1>0, <1>7
    <3>2. stack[i + 1].roots = stack[i].roots + stack[i].live
      BY <3>1 DEF RecoveryInv, RootsOrdered
    <3> QED BY <1>8, <3>1, <3>2
  <2> QED BY <1>3, <2>1, <2>2, <2>3 DEF RecoveryInv, RootsOrdered
<1>17. RootsIntact'
  BY <1>0, <1>3, <1>7, <1>8 DEF RecoveryInv, RootsIntact, InCode
<1>18. NearestReports'
  <2> SUFFICES ASSUME NEW i \in Recovers', stack'[i].failed PROVE i = recoveryScope
    BY <1>3 DEF NearestReports, Recovers
  <2>1. i \in Recovers /\ i # h /\ i \in 1..d
    BY <1>1, <1>2, <1>9
  <2> QED BY <1>0, <1>6, <2>1 DEF RecoveryInv, NearestReports, Recovers
<1>19. TypeOK'
  <2>1. resourceScope' \in 0..Depth'
    BY <1>2, <1>3, <1>7, <1>11 DEF Below
  <2> QED BY <1>3, <1>6, <1>7, <1>14, <2>1 DEF RecoveryInv, TypeOK, Frame
<1> QED BY <1>13, <1>14, <1>15, <1>16, <1>17, <1>18, <1>19 DEF RecoveryInv

(* longjmp: what is left is what the scope found, and its slots.             *)
LEMMA LandKeeps ==
  ASSUME RecoveryInv, Land
  PROVE  RecoveryInv'
<1>0. PICK d \in Nat : d = Depth /\ d >= 1 /\ d \in 1..d
  BY TopIsFrame DEF RecoveryInv
<1>1. /\ status = "unwinding" /\ status' = "running" /\ resourceScope = Boundary /\ recoveryScope # 0
      /\ stack' = SubSeq(stack, 1, recoveryScope)
      /\ UNCHANGED <<recoveryScope, resourceScope, roots, host, opened, closes>>
  BY DEF Land, hostVars
<1>2. /\ Below(recoveryScope, d + 1, Recovers) /\ Below(resourceScope, d + 1, Opens)
      /\ Recovers \in SUBSET (1..d) /\ Opens \in SUBSET (1..d) /\ Recovers \cap Opens = {}
  BY <1>0, SetsOfFrames DEF RecoveryInv, ChainsExact
<1>3. PICK e \in Recovers : e = recoveryScope /\ e \in 1..d /\ e \in Nat /\ e >= 1 /\ e \in 1..e
  BY <1>1, <1>2 DEF Below
<1>4. Below(resourceScope, e, Opens)
  <2>1. resourceScope = stack[e].boundary
    BY <1>1, <1>3 DEF Boundary
  <2> QED BY <1>3, <2>1 DEF RecoveryInv, ChainsExact
<1>5. stack \in Seq(Frame) /\ Len(stack) = d /\ \A i \in 1..d : stack[i] \in Frame
  BY <1>0, TopIsFrame DEF RecoveryInv, Depth
<1>6. stack' \in Seq(Frame) /\ Len(stack') = e /\ \A i \in 1..e : stack'[i] = stack[i]
  BY <1>1, <1>3, <1>5
<1>7. Depth' = e /\ \A i \in 1..e : i \in 1..d /\ i \in 1..Depth
  BY <1>0, <1>3, <1>6 DEF Depth
<1>8. Below(recoveryScope', e + 1, Recovers) /\ Below(resourceScope', e + 1, Opens)
  <2>1. \A m \in Recovers : m <= e
    BY <1>2, <1>3 DEF Below
  <2>2. resourceScope \in 0..e /\ (resourceScope # 0 => resourceScope \in Opens)
    BY <1>3, <1>4 DEF Below
  <2>3. ASSUME NEW m \in Opens, m < e + 1 PROVE m <= resourceScope
    <3>1. m \in 1..d /\ m # e
      BY <1>2, <1>3
    <3>2. m < e
      BY <1>3, <2>3, <3>1
    <3> QED BY <1>4, <3>2 DEF Below
  <2> QED BY <1>1, <1>3, <2>1, <2>2, <2>3 DEF Below
<1>9. ChainsExact' /\ Recovers' = Recovers \cap (1..e) /\ Opens' = Opens \cap (1..e)
  <2>1. e \in 1..Depth /\ \A i \in 1..e : Same(stack'[i], stack[i])
    BY <1>0, <1>3, <1>6 DEF Same
  <2> QED BY <1>7, <1>8, <2>1, ChainsCut
<1>10. Opens' = Opens
  <2>1. ASSUME NEW m \in Opens PROVE m \in 1..e
    <3>1. m \in 1..d /\ m <= resourceScope
      BY <1>2 DEF Below
    <3>2. resourceScope \in 0..e - 1
      BY <1>4 DEF Below
    <3> QED BY <1>3, <3>1, <3>2
  <2> QED BY <1>9, <2>1
<1>11. FilesOwned' /\ FilesClosed'
  <2>1. \A i \in Opens : stack'[i].file = stack[i].file /\ stack'[i].fd = stack[i].fd
    BY <1>6, <1>9, <1>10
  <2>2. \A i \in 1..Depth' : stack'[i].kind = "file" => stack'[i].file <= opened
    BY <1>6, <1>7 DEF RecoveryInv, FilesOwned
  <2> QED BY <1>1, <1>10, <2>1, <2>2, FilesKept
<1>12. PassedAbove'
  <2>1. stack'[1].kind = "code"
    BY <1>3, <1>6 DEF RecoveryInv, PassedAbove
  <2>2. ASSUME NEW i \in 1..Depth', stack'[i].kind = "file", stack'[i].fd = Detached PROVE FALSE
    <3>1. i \in 1..e /\ i \in 1..Depth /\ stack'[i] = stack[i]
      BY <1>6, <1>7
    <3>2. e < i
      BY <1>3, <2>2, <3>1 DEF RecoveryInv, PassedAbove
    <3> QED BY <1>3, <3>1, <3>2
  <2> QED BY <2>1, <2>2 DEF PassedAbove
<1>13. RootsOrdered'
  <2>1. \A i \in 1..d : stack[i].roots \in Nat /\ stack[i].live \in Nat
    BY <1>5, FrameFields
  <2>2. ASSUME NEW i \in 1..Depth', NEW j \in 1..Depth', i < j
        PROVE  stack'[i].roots + stack'[i].live <= stack'[j].roots
    BY <1>6, <1>7, <2>2 DEF RecoveryInv, RootsOrdered
  <2>3. ASSUME NEW i \in 1..Depth' - 1
        PROVE  stack'[i + 1].roots = stack'[i].roots + stack'[i].live
    <3>1. i \in 1..Depth - 1 /\ i \in 1..e /\ i + 1 \in 1..e
      BY <1>0, <1>3, <1>7
    <3>2. stack[i + 1].roots = stack[i].roots + stack[i].live
      BY <3>1 DEF RecoveryInv, RootsOrdered
    <3> QED BY <1>6, <3>1, <3>2
  <2>4. stack[e].roots + stack[e].live <= Len(roots)
    <3>1. stack[d].roots + stack[d].live <= Len(roots)
      BY <1>0 DEF RecoveryInv, RootsOrdered, Top
    <3>2. CASE e = d
      BY <3>1, <3>2
    <3>3. CASE e # d
      <4>1. e < d
        BY <1>3, <3>3
      <4>2. stack[e].roots + stack[e].live <= stack[d].roots
        BY <1>0, <1>3, <4>1 DEF RecoveryInv, RootsOrdered
      <4>3. stack[d].roots \in Nat /\ stack[d].live \in Nat /\ stack[e].roots \in Nat /\ stack[e].live \in Nat
        BY <1>0, <1>3, <2>1
      <4>4. Len(roots) \in Nat
        BY DEF RecoveryInv, TypeOK
      <4> QED BY <3>1, <4>2, <4>3, <4>4
    <3> QED BY <3>2, <3>3
  <2>5. Top' = stack[e]
    BY <1>3, <1>6, <1>7 DEF Top
  <2> QED BY <1>1, <2>2, <2>3, <2>4, <2>5 DEF RootsOrdered
<1>14. RootsIntact'
  <2>1. ~InCode'
    BY <1>3, <1>6, <1>7 DEF InCode, Top, Recovers, IsRecover
  <2>2. ASSUME NEW i \in 1..Depth', NEW k \in 1..stack'[i].live
        PROVE  stack'[i].roots + k <= Len(roots') /\ roots'[stack'[i].roots + k] = i
    BY <1>1, <1>6, <1>7 DEF RecoveryInv, RootsIntact
  <2> QED BY <2>1, <2>2 DEF RootsIntact
<1>15. NearestReports'
  <2> SUFFICES ASSUME NEW i \in Recovers', stack'[i].failed PROVE i = recoveryScope
    BY <1>1, <1>3, <1>7 DEF NearestReports, Recovers
  <2>1. i \in Recovers /\ stack[i].failed
    BY <1>6, <1>9
  <2> QED BY <2>1 DEF RecoveryInv, NearestReports, Recovers
<1>16. TypeOK'
  <2>1. Depth' \in Depths
    BY <1>0, <1>3, <1>7, BoundsAssumption DEF RecoveryInv, TypeOK, Depths
  <2>2. recoveryScope' \in 0..Depth' /\ resourceScope' \in 0..Depth'
    BY <1>3, <1>7, <1>8 DEF Below
  <2> QED BY <1>1, <1>6, <2>1, <2>2 DEF RecoveryInv, TypeOK, Frame
<1> QED BY <1>9, <1>11, <1>12, <1>13, <1>14, <1>15, <1>16 DEF RecoveryInv

(* trbn_fatal: nobody recovers, and unwinding has closed every file.         *)
LEMMA AbortKeeps ==
  ASSUME RecoveryInv, Abort
  PROVE  RecoveryInv'
<1>1. /\ status = "unwinding" /\ status' = "failed" /\ recoveryScope = 0 /\ resourceScope = 0
      /\ UNCHANGED <<stack, recoveryScope, resourceScope, roots, host, opened, closes>>
  BY DEF Abort, Boundary, hostVars
<1>2. Opens = {}
  <2> SUFFICES ASSUME NEW m \in Opens PROVE FALSE
    OBVIOUS
  <2>1. m \in 1..Depth /\ Depth \in Nat
    BY SetsOfFrames, TopIsFrame DEF RecoveryInv
  <2>2. m <= 0
    BY <1>1, <2>1 DEF RecoveryInv, ChainsExact, Below
  <2> QED BY <2>1, <2>2
<1>3. Depth' = Depth /\ Opens' = Opens /\ Recovers' = Recovers /\ Top' = Top
  BY <1>1 DEF Depth, Opens, Recovers, IsOpen, IsRecover, Top
<1>4. FilesOwned' /\ FilesClosed'
  <2>1. \A i \in 1..Depth' : stack'[i].kind = "file" => stack'[i].file <= opened
    BY <1>1, <1>3 DEF RecoveryInv, FilesOwned
  <2> QED BY <1>1, <1>2, <1>3, <2>1, FilesKept
<1>5. ChainsExact' /\ RootsOrdered'
  BY <1>1, <1>3 DEF RecoveryInv, ChainsExact, RootsOrdered
<1>6. RootsIntact'
  BY <1>1, <1>3 DEF RecoveryInv, RootsIntact, InCode
<1>7. PassedAbove'
  BY <1>1, <1>3 DEF RecoveryInv, PassedAbove
<1>8. NearestReports'
  <2> SUFFICES ASSUME NEW i \in 1..Depth, stack[i].kind = "recover", stack[i].failed PROVE FALSE
    BY <1>1, <1>3 DEF NearestReports, IsRecover
  <2>1. i = 0
    BY <1>1 DEF RecoveryInv, NearestReports, IsRecover
  <2> QED BY <2>1, TopIsFrame DEF RecoveryInv
<1>9. TypeOK'
  BY <1>1, <1>3 DEF RecoveryInv, TypeOK
<1> QED BY <1>4, <1>5, <1>6, <1>7, <1>8, <1>9 DEF RecoveryInv

(* A program starts in one frame of compiled code, with nothing open.        *)
LEMMA InitEstablishes ==
  ASSUME Init
  PROVE  RecoveryInv
<1>1. /\ stack = <<Code(0)>> /\ recoveryScope = 0 /\ resourceScope = 0 /\ roots = <<>>
      /\ host = [fd \in Descriptors |-> 0] /\ opened = 0 /\ closes = [f \in 0..MaxOpens |-> 0]
      /\ status = "running"
  BY DEF Init
<1>2. /\ Code(0) \in CodeFrames /\ Code(0).kind = "code" /\ Code(0).roots = 0 /\ Code(0).live = 0
  BY DEF Code, CodeFrames
<1>3. /\ Depth = 1 /\ stack[1] = Code(0) /\ Top = Code(0) /\ stack \in Seq(Frame) /\ Len(roots) = 0
      /\ roots \in Seq(Depths)
  BY <1>1, <1>2 DEF Depth, Top, Frame
<1>4. Recovers = {} /\ Opens = {}
  BY <1>2, <1>3 DEF Recovers, Opens, IsRecover, IsOpen
<1>5. ChainsExact
  BY <1>1, <1>3, <1>4 DEF ChainsExact, Below
<1>6. PassedAbove /\ RootsOrdered /\ RootsIntact
  BY <1>2, <1>3 DEF PassedAbove, RootsOrdered, RootsIntact, InCode
<1>7. FilesOwned
  BY <1>1, <1>2, <1>3, <1>4 DEF FilesOwned, Files
<1>8. FilesClosed
  BY <1>1, <1>2, <1>3 DEF FilesClosed, ClosedOnce, NothingLeftOpen, IsOpen
<1>9. NearestReports
  BY <1>2, <1>3 DEF NearestReports, IsRecover
<1>10. TypeOK
  <2>1. Depth \in Depths
    BY <1>3, BoundsAssumption DEF Depths
  <2>2. host \in [Descriptors -> 0..MaxOpens] /\ closes \in [0..MaxOpens -> Nat] /\ closes[0] = 0 /\ opened \in 0..MaxOpens
    BY <1>1, BoundsAssumption
  <2> QED BY <1>1, <1>3, <2>1, <2>2 DEF TypeOK, Frame
<1> QED BY <1>5, <1>6, <1>7, <1>8, <1>9, <1>10 DEF RecoveryInv

(* Every step of the program, and stuttering, keeps the invariant.           *)
LEMMA NextKeeps ==
  ASSUME RecoveryInv, [Next]_vars
  PROVE  RecoveryInv'
<1>1. \A n \in Registers : n \in Nat
  BY BoundsAssumption DEF Registers
<1>2. ASSUME NEW n \in Registers, Call(n) PROVE RecoveryInv'
  BY <1>1, <1>2, CallKeeps
<1>3. ASSUME NEW n \in Registers, Recover(n) \/ Capture(n) PROVE RecoveryInv'
  BY <1>1, <1>3, ScopeKeeps
<1>4. ASSUME NEW n \in Registers, NEW fd \in Descriptors, FileScope(n, fd) PROVE RecoveryInv'
  BY <1>1, <1>4, FileScopeKeeps
<1>5. ASSUME NEW n \in Registers, NEW acquired \in BOOLEAN, FileRefused(n, acquired) PROVE RecoveryInv'
  BY <1>1, <1>5, FileRefusedKeeps
<1>6. ASSUME NEW managed \in BOOLEAN, Return(managed) PROVE RecoveryInv'
  BY <1>6, ReturnKeeps
<1>7. CASE Complete
  BY <1>7, CompleteKeeps
<1>8. CASE FileEnd
  BY <1>8, FileEndKeeps
<1>9. CASE Exit
  BY <1>9, ExitKeeps
<1>10. ASSUME NEW pushed \in 0..2, Fail(pushed) PROVE RecoveryInv'
  BY <1>10, FailKeeps
<1>11. CASE UnwindClose
  BY <1>11, UnwindCloseKeeps
<1>12. CASE Land
  BY <1>12, LandKeeps
<1>13. CASE Abort
  BY <1>13, AbortKeeps
<1>14. CASE UNCHANGED vars
  <2>1. /\ Depth' = Depth /\ Top' = Top /\ Recovers' = Recovers /\ Opens' = Opens
        /\ UNCHANGED <<stack, recoveryScope, resourceScope, roots, host, opened, closes, status>>
    BY <1>14 DEF vars, Depth, Top, Recovers, Opens, IsRecover, IsOpen
  <2>2. TypeOK' /\ ChainsExact' /\ PassedAbove'
    BY <2>1 DEF RecoveryInv, TypeOK, ChainsExact, PassedAbove
  <2>3. RootsOrdered' /\ RootsIntact'
    BY <2>1 DEF RecoveryInv, RootsOrdered, RootsIntact, InCode
  <2>4. FilesOwned' /\ FilesClosed' /\ NearestReports'
    BY <2>1 DEF RecoveryInv, FilesOwned, FilesClosed, ClosedOnce, NothingLeftOpen, NearestReports, IsOpen, IsRecover
  <2> QED BY <2>2, <2>3, <2>4 DEF RecoveryInv
<1> QED BY <1>2, <1>3, <1>4, <1>5, <1>6, <1>7, <1>8, <1>9, <1>10, <1>11, <1>12, <1>13, <1>14
        DEF Next, Terminated

(* The invariant, in the words of the properties.                            *)
LEMMA InvIsExact ==
  ASSUME RecoveryInv
  PROVE  FramesExact
<1>0. PICK d \in Nat : d = Depth
  BY TopIsFrame DEF RecoveryInv
<1>1. Youngest(recoveryScope, IsRecover)
  BY <1>0 DEF RecoveryInv, ChainsExact, Below, Youngest, Recovers
<1>2. Youngest(resourceScope, IsOpen)
  BY <1>0 DEF RecoveryInv, ChainsExact, Below, Youngest, Opens
<1>3. ASSUME NEW i \in 1..Depth, IsRecover(i)
      PROVE  /\ stack[i].previous < i /\ stack[i].boundary < i
             /\ stack[i].previous # 0 => IsRecover(stack[i].previous)
             /\ stack[i].boundary # 0 => IsOpen(stack[i].boundary)
  <2>1. Below(stack[i].previous, i, Recovers) /\ Below(stack[i].boundary, i, Opens)
    BY <1>3 DEF RecoveryInv, ChainsExact, Recovers
  <2> QED BY <1>0, <2>1 DEF Below, Recovers, Opens
<1>4. ASSUME NEW i \in 1..Depth, IsOpen(i)
      PROVE  stack[i].parent < i /\ (stack[i].parent # 0 => IsOpen(stack[i].parent))
  <2>1. Below(stack[i].parent, i, Opens)
    BY <1>4 DEF RecoveryInv, ChainsExact, Opens
  <2> QED BY <1>0, <2>1 DEF Below, Opens
<1> QED BY <1>1, <1>2, <1>3, <1>4 DEF FramesExact, ScopesExact, RecoveryInv

(* A step of a failure changes no frame below the scope that recovers.       *)
LEMMA StepLeavesOuter ==
  ASSUME RecoveryInv, [Next]_vars, status = "unwinding", NEW i \in 1..(recoveryScope - 1)
  PROVE  i \in DOMAIN stack' /\ stack'[i] = stack[i]
<1>0. PICK d \in Nat : d = Depth /\ d >= 1
  BY TopIsFrame DEF RecoveryInv
<1>1. stack \in Seq(Frame) /\ Len(stack) = d /\ recoveryScope \in 0..d
  BY <1>0, TopIsFrame DEF RecoveryInv, TypeOK, Depth
<1>2. i \in 1..d /\ i < recoveryScope
  BY <1>1
<1>3. UnwindClose \/ Land \/ stack' = stack
  BY DEF Next, Call, Recover, Capture, CaptureSaving, FileScope, FileRefused, InCode, Return, Complete,
              FileEnd, Exit, Fail, Abort, Terminated, vars
<1>4. CASE UnwindClose
  <2>1. resourceScope \in Opens /\ recoveryScope < resourceScope
    BY <1>4, HeadIsAbove DEF UnwindClose
  <2>2. resourceScope \in 1..d /\ resourceScope # 0 /\ i # resourceScope
    BY <1>0, <1>1, <1>2, <2>1, SetsOfFrames
  <2>3. stack' = [stack EXCEPT ![resourceScope].fd = Detached]
    BY <1>4, <2>2 DEF UnwindClose
  <2> QED BY <1>1, <1>2, <2>2, <2>3
<1>5. CASE Land
  <2>1. stack' = SubSeq(stack, 1, recoveryScope)
    BY <1>5 DEF Land
  <2> QED BY <1>1, <1>2, <2>1
<1>6. CASE stack' = stack
  BY <1>1, <1>2, <1>6
<1> QED BY <1>3, <1>4, <1>5, <1>6

--------------------------------------------------------------------------------
(* The theorems.                                                             *)

(* The chains, the saved counts and the ownership of descriptors stay exact  *)
(* through every call, scope, failure and longjmp.                           *)
THEOREM RecoveryInvariant == Spec => []RecoveryInv
BY InitEstablishes, NextKeeps, PTL DEF Spec

(* Both chain heads name the youngest live scope and every root slot names   *)
(* the frame that pushed it, whatever trbn_unwind has skipped.               *)
THEOREM FramesAreExact == Spec => []FramesExact
<1>1. RecoveryInv => FramesExact
  BY InvIsExact
<1> QED BY <1>1, RecoveryInvariant, PTL

(* Every file that was opened is closed exactly once, and before the program *)
(* ends, by trbn_file_end or by the unwinding of a failure.                  *)
THEOREM FilesAreClosed == Spec => []FilesClosed
<1>1. RecoveryInv => FilesClosed
  BY DEF RecoveryInv
<1> QED BY <1>1, RecoveryInvariant, PTL

(* A test case is told of a failure only when it is the scope that catches it. *)
THEOREM NearestIsTold == Spec => []NearestReports
<1>1. RecoveryInv => NearestReports
  BY DEF RecoveryInv
<1> QED BY <1>1, RecoveryInvariant, PTL

(* Unwinding and landing leave the frames below the recovering scope alone.  *)
THEOREM OuterFramesUntouched == Spec => OuterUntouched
<1>1. RecoveryInv /\ [Next]_vars =>
        [status = "unwinding" => \A i \in 1..(recoveryScope - 1) : i \in DOMAIN stack' /\ stack'[i] = stack[i]]_vars
  BY StepLeavesOuter
<1> QED BY <1>1, RecoveryInvariant, PTL DEF Spec, OuterUntouched
================================================================================
