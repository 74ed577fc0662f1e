----------------------- MODULE EvidenceArchiveProofs -----------------------
(***************************************************************************)
(* Proofs about EvidenceArchive, for any evidence, any number of edits and *)
(* crashes and any number of stages.  The properties compare what a        *)
(* verifier accepts with what was to be stored; the inductive invariant    *)
(* says of every command, at each of its stages, how far it has come: what *)
(* is in the output already, what is still to be done, and what nobody     *)
(* else can have changed since it was checked.                             *)
(***************************************************************************)
EXTENDS EvidenceArchive, FiniteSetTheorems, TLAPS

Content == [version : Nat, notices : Nat]
Event == [run : Nat, index : Nat]

(* The shape of the state, as far as the argument looks into it.             *)
Shapes ==
  /\ tool \in {"results", "bundle", "seed", "receipts"}
  /\ work \in [Tracked -> Content] /\ head \in [Tracked -> Content]
  /\ DOMAIN job = {"cmd", "stage", "left", "read", "archive", "run"}
  /\ DOMAIN out = {"state", "tree", "listed", "members", "sums"}
  /\ DOMAIN dest = {"state", "files"}
  /\ events \in Seq(Event) /\ edits \in Nat

(* Each command belongs to one tool.                                         *)
Commands ==
  /\ job.cmd = "none" => job = Idle
  /\ job.cmd # "none" =>
       \/ tool = "results" /\ job.cmd \in {"pack", "compact"}
       \/ tool = "bundle" /\ job.cmd \in {"bundle", "extract"}
       \/ tool = "seed" /\ job.cmd = "create"
       \/ tool = "receipts" /\ job.cmd = "suite"

(* A report carries at most one notice, and only beside its record.          *)
Noticed(files) ==
  \A p \in Tracked : /\ files[p].notices <= 1
                     /\ files[p].notices > 0 => files[Record(p[1])] # Missing

(* What is left to do is a list without repetitions of things of S.          *)
ListOf(s, S) == s \in Seq(S) /\ IsInjective(s)

(* How far compact has come.  Others may edit evidence meanwhile, but they   *)
(* write no record and add no notice, and the commit stays.                  *)
Compacting ==
  /\ job.archive \in published /\ job.archive.members = job.archive.listed
  /\ DOMAIN job.archive.listed \subseteq Tracked
  /\ job.stage \in {"compare", "remove", "record", "notice"}
  /\ job.stage = "compare" =>
       /\ ListOf(job.left, DOMAIN job.archive.listed) /\ job.read = head
       /\ \A p \in DOMAIN job.archive.listed \ ToSet(job.left) : job.archive.listed[p] = head[p]
  /\ job.stage \in {"remove", "record", "notice"} =>
       /\ \A p \in DOMAIN job.archive.listed : job.archive.listed[p] = head[p]
       /\ \A r \in compact_names : Readme(r) \in DOMAIN job.archive.listed
  /\ job.stage = "remove" => \A r \in compact_names : work[Record(r)] = Missing
  /\ job.stage \in {"record", "notice"} => ListOf(job.left, compact_names)
  /\ job.stage = "record" => \A r \in ToSet(job.left) : work[Record(r)] = Missing
  /\ job.stage = "notice" =>
       /\ job.left # <<>> /\ work[Record(At)] = Original /\ work[Readme(At)].notices = 0
       /\ \A r \in ToSet(Tail(job.left)) : work[Record(r)] = Missing

ResultsPart ==
  IF tool = "results"
  THEN /\ out.listed = out.tree
       /\ \A x \in removed : \E a \in published : x[1] \in DOMAIN a.members /\ a.members[x[1]] = x[2]
       /\ job.cmd = "compact" => Compacting
  ELSE removed = {}

(* A bundle never has a member its header does not count, and an extraction  *)
(* has written the members it has come past.  While there is a destination   *)
(* the bundle stays closed.                                                  *)
BundlePart ==
  IF tool = "bundle"
  THEN /\ DOMAIN out.listed = DOMAIN out.tree /\ DOMAIN out.tree \subseteq Tracked
       /\ DOMAIN out.members \subseteq DOMAIN out.tree
       /\ out.members = [p \in DOMAIN out.members |-> out.members[p]]
       /\ job.cmd = "bundle" => out.state # "absent" /\ job.left \in Seq(DOMAIN out.tree)
       /\ dest.state \in {"absent", "partial", "complete"}
       /\ dest.state # "absent" => out.state = "closed" /\ job.cmd # "bundle"
       /\ job.cmd = "extract" =>
            /\ dest.state = "partial" /\ job.left \in Seq(DOMAIN out.members)
            /\ DOMAIN dest.files \cup ToSet(job.left) = DOMAIN out.members
            /\ dest.files = [p \in DOMAIN dest.files |-> out.members[p]]
       /\ dest.state = "complete" => dest.files = out.members
  ELSE dest.state = "absent"

(* A seed package states the validated compilers from the end of the copies  *)
(* on, and its checksums are those of the copies.                            *)
SeedPart ==
  tool = "seed" =>
    /\ out.state = "absent" => out = Absent
    /\ out.state # "absent" => out.tree = Stated
    /\ out.listed \in {NoFiles, Stated} /\ out.sums \in {NoFiles, out.members}
    /\ job.cmd = "create" => out.state # "absent" /\ out.sums = NoFiles

(* A suite that has recorded an event found an empty file, and all events    *)
(* in it are its own.                                                        *)
Recorded == Events - Len(job.left)
ReceiptsPart ==
  IF tool = "receipts"
  THEN /\ job.cmd = "suite" => job.run \in Nat
       /\ job.cmd = "suite" /\ job.stage # "failed" =>
            /\ job.left \in Seq(Nat) /\ Len(job.left) <= Events
            /\ \A i \in 1..Len(job.left) : job.left[i] = Recorded + i
            /\ Recorded > 0 => Len(events) = Recorded /\ \A i \in 1..Len(events) : events[i].run = job.run
       /\ summary.complete => summary.runs = {summary.run}
  ELSE ~summary.complete

EvidenceInv ==
  /\ Shapes /\ Commands /\ Noticed(work) /\ Noticed(head)
  /\ ResultsPart /\ BundlePart /\ SeedPart /\ ReceiptsPart
----------------------------------------------------------------------------
(* What InOrder returns: each element of the set, once.                      *)
LEMMA InOrderIs ==
  ASSUME NEW S, IsFiniteSet(S)
  PROVE  ListOf(InOrder(S), S) /\ ToSet(InOrder(S)) = S
<1>1. PICK n \in Nat : n = Cardinality(S)
  BY FS_CardinalityType
<1>2. PICK f \in [1..n -> S] : IsInjective(f)
  <2>1. ExistsBijection(1..n, S)
    BY <1>1, FS_NatBijection, FS_CountingElements
  <2>2. PICK g : g \in Bijection(1..n, S)
    BY <2>1 DEF ExistsBijection
  <2>3. g \in [1..n -> S] /\ IsInjective(g)
    BY <2>2 DEF Bijection, Injection, IsInjective
  <2> QED BY <2>3
<1>3. SetToSeq(S) \in [1..n -> S] /\ IsInjective(SetToSeq(S))
  BY <1>1, <1>2 DEF SetToSeq
<1>4. PICK s \in [1..n -> S] : s = SetToSeq(S) /\ IsInjective(s)
  BY <1>3
<1>5. s \in Seq(S)
  BY <1>4
<1>6. ToSet(s) \subseteq S
  BY <1>4 DEF ToSet
<1>7. s \in Bijection(1..n, ToSet(s))
  BY <1>4 DEF ToSet, IsInjective, Bijection, Injection, Surjection
<1>8. Cardinality(ToSet(s)) = n
  BY <1>7, FS_CountingElements DEF ExistsBijection
<1>9. ToSet(s) = S
  BY <1>1, <1>6, <1>8, FS_Subset
<1> QED BY <1>4, <1>5, <1>9 DEF InOrder, ListOf

(* The first of a list, and the rest.                                        *)
LEMMA HeadTail ==
  ASSUME NEW S, NEW s \in Seq(S), s # <<>>
  PROVE  /\ Head(s) \in S /\ Tail(s) \in Seq(S)
         /\ ToSet(s) = {Head(s)} \cup ToSet(Tail(s))
         /\ IsInjective(s) => IsInjective(Tail(s)) /\ Head(s) \notin ToSet(Tail(s))
<1>1. PICK n \in Nat : Len(s) = n + 1
  OBVIOUS
<1>2. PICK t \in Seq(S) : t = Tail(s) /\ Len(t) = n /\ \A i \in 1..n : t[i] = s[i + 1]
  <2>1. Tail(s) \in Seq(S) /\ Len(Tail(s)) = Len(s) - 1
    OBVIOUS
  <2>2. \A i \in 1..(Len(s) - 1) : Tail(s)[i] = s[i + 1]
    OBVIOUS
  <2>3. Len(s) - 1 = n
    BY <1>1
  <2> QED BY <2>1, <2>2, <2>3
<1>3. Head(s) = s[1] /\ DOMAIN s = 1..(n + 1) /\ DOMAIN t = 1..n
  BY <1>1, <1>2
<1>4. \A i \in 1..(n + 1) : i = 1 \/ (i - 1 \in 1..n /\ s[i] = t[i - 1])
  BY <1>1, <1>2
<1>5. ToSet(s) = {s[1]} \cup ToSet(t)
  <2>1. ToSet(s) = {s[i] : i \in 1..(n + 1)} /\ ToSet(t) = {t[i] : i \in 1..n}
    BY <1>3 DEF ToSet
  <2>2. {s[i] : i \in 1..(n + 1)} \subseteq {s[1]} \cup {t[i] : i \in 1..n}
    BY <1>4
  <2>3. 1 \in 1..(n + 1) /\ \A i \in 1..n : i + 1 \in 1..(n + 1)
    OBVIOUS
  <2>4. {s[1]} \cup {t[i] : i \in 1..n} \subseteq {s[i] : i \in 1..(n + 1)}
    BY <1>2, <2>3
  <2> QED BY <2>1, <2>2, <2>4
<1>6. ASSUME IsInjective(s) PROVE IsInjective(t) /\ s[1] \notin ToSet(t)
  BY <1>1, <1>2, <1>3, <1>6 DEF IsInjective, ToSet
<1> QED BY <1>1, <1>2, <1>3, <1>5, <1>6

(* Nothing is in the empty list.                                             *)
LEMMA EmptyList ==
  ASSUME NEW S
  PROVE  ToSet(<<>>) = {} /\ <<>> \in Seq(S)
BY DEF ToSet

(* Records are beside the evidence, and there are finitely many files.       *)
LEMMA TrackedIs ==
  /\ IsFiniteSet(Tracked) /\ IsFiniteSet(Results) /\ IsFiniteSet(Paths) /\ Paths \subseteq Tracked
  /\ \A r : Record(r)[1] = r /\ Readme(r)[1] = r /\ Record(r) \notin Paths /\ keep(Record(r))
  /\ \A r \in Results : Record(r) \in Tracked
  /\ \A p \in Tracked : p[1] \in Results /\ (p \notin Paths => p = Record(p[1]))
<1>1. \A r : Record(r)[1] = r /\ Record(r)[2] = "ARCHIVE.json" /\ Readme(r)[1] = r
  BY DEF Record, Readme
<1>2. \A r : Record(r) \notin Paths /\ keep(Record(r))
  BY <1>1, EvidenceAssumption DEF keep
<1>3. IsFiniteSet(Results)
  <2>1. [p \in Paths |-> p[1]] \in Surjection(Paths, Results)
    BY DEF Surjection, Results
  <2> QED BY <2>1, EvidenceAssumption, FS_Surjection DEF ExistsSurjection
<1>4. IsFiniteSet({Record(r) : r \in Results})
  <2>1. [r \in Results |-> Record(r)] \in Surjection(Results, {Record(r) : r \in Results})
    BY DEF Surjection
  <2> QED BY <1>3, <2>1, FS_Surjection DEF ExistsSurjection
<1>5. IsFiniteSet(Tracked)
  BY <1>4, EvidenceAssumption, FS_Union DEF Tracked
<1>6. \A p \in Tracked : p[1] \in Results /\ (p \notin Paths => p = Record(p[1]))
  BY <1>1 DEF Tracked, Results
<1> QED BY <1>1, <1>2, <1>3, <1>5, <1>6, EvidenceAssumption DEF Tracked

(* No command, and no output.                                                *)
LEMMA NothingIs ==
  /\ DOMAIN Idle = {"cmd", "stage", "left", "read", "archive", "run"} /\ Idle.cmd = "none"
  /\ DOMAIN Absent = {"state", "tree", "listed", "members", "sums"} /\ Absent.state = "absent"
  /\ Absent.tree = NoFiles /\ Absent.listed = NoFiles /\ Absent.members = NoFiles /\ Absent.sums = NoFiles
  /\ DOMAIN NoFiles = {} /\ NoFiles = [p \in DOMAIN NoFiles |-> NoFiles[p]]
BY DEF Idle, Absent, NoFiles

(* A step of one tool leaves what is said of the others.                     *)
LEMMA OnlyResults ==
  ASSUME EvidenceInv, tool = "results", UNCHANGED <<tool, dest, summary>>
  PROVE  BundlePart' /\ SeedPart' /\ ReceiptsPart'
BY DEF EvidenceInv, BundlePart, SeedPart, ReceiptsPart

(* The same of the bundle tool.                                              *)
LEMMA OnlyBundle ==
  ASSUME EvidenceInv, tool = "bundle", UNCHANGED <<tool, removed, summary>>
  PROVE  ResultsPart' /\ SeedPart' /\ ReceiptsPart'
BY DEF EvidenceInv, ResultsPart, SeedPart, ReceiptsPart

(* The same of the seed release.                                             *)
LEMMA OnlySeed ==
  ASSUME EvidenceInv, tool = "seed", UNCHANGED <<tool, removed, dest, summary>>
  PROVE  ResultsPart' /\ BundlePart' /\ ReceiptsPart'
BY DEF EvidenceInv, ResultsPart, BundlePart, ReceiptsPart

(* The same of the recovery stages.                                          *)
LEMMA OnlyReceipts ==
  ASSUME EvidenceInv, tool = "receipts", UNCHANGED <<tool, removed, dest>>
  PROVE  ResultsPart' /\ BundlePart' /\ SeedPart'
BY DEF EvidenceInv, ResultsPart, BundlePart, SeedPart

(* A command that gives up, or is killed, leaves everything as it stands.    *)
LEMMA GivesUp ==
  ASSUME EvidenceInv, job' = Idle,
         UNCHANGED <<tool, head, work, out, published, dest, removed, events, summary, edits>>
  PROVE  EvidenceInv'
<1>1. Shapes' /\ Commands'
  BY NothingIs DEF EvidenceInv, Shapes, Commands
<1>2. Noticed(work)' /\ Noticed(head)'
  BY DEF EvidenceInv, Noticed
<1>3. ResultsPart'
  BY NothingIs DEF EvidenceInv, ResultsPart
<1>4. BundlePart'
  BY NothingIs DEF EvidenceInv, BundlePart
<1>5. SeedPart' /\ ReceiptsPart'
  BY NothingIs DEF EvidenceInv, SeedPart, ReceiptsPart
<1> QED BY <1>1, <1>2, <1>3, <1>4, <1>5 DEF EvidenceInv

(* What compact relies on outlasts a step that leaves the records alone and  *)
(* adds no notice.                                                           *)
LEMMA CompactingSame ==
  ASSUME Compacting, UNCHANGED <<job, published, head>>,
         \A r : work'[Record(r)] = work[Record(r)],
         \A r : work[Readme(r)].notices = 0 /\ Readme(r) \in Tracked => work'[Readme(r)].notices = 0
  PROVE  Compacting'
<1>1. compact_names' = compact_names
  BY DEF compact_names
<1>2. job.stage = "notice" => Readme(At) \in Tracked /\ Readme(At)' = Readme(At) /\ Record(At)' = Record(At)
  <2>1. job.stage = "notice" => At \in compact_names
    BY HeadTail DEF Compacting, ListOf, At
  <2> QED BY <2>1 DEF Compacting, Readme, Record, At
<1>3. (job.stage = "notice" =>
         /\ job.left # <<>> /\ work[Record(At)] = Original /\ work[Readme(At)].notices = 0
         /\ \A r \in ToSet(Tail(job.left)) : work[Record(r)] = Missing)'
  BY <1>2 DEF Compacting
<1> QED BY <1>1, <1>3 DEF Compacting

(* Someone writes or removes a file of the evidence.                         *)
LEMMA EditKeeps ==
  ASSUME EvidenceInv, Edit
  PROVE  EvidenceInv'
<1>1. UNCHANGED <<tool, head, published, removed, events, summary, out, dest, job>> /\ edits' = edits + 1
  BY DEF Edit, store, receipts
<1>2. PICK p \in Paths, c \in Content :
        /\ work' = [work EXCEPT ![p] = c] /\ (c.notices = 0 \/ c.notices = work[p].notices)
  <2>1. PICK p \in Present(work) \cap Paths, v \in {0, 2} :
          work' = [work EXCEPT ![p] = IF v = 0 THEN Missing ELSE [@ EXCEPT !.version = v]]
    BY DEF Edit
  <2>2. work[p] \in Content
    BY TrackedIs DEF EvidenceInv, Shapes
  <2>3. PICK c : c = IF v = 0 THEN Missing ELSE [work[p] EXCEPT !.version = v]
    OBVIOUS
  <2>4. c \in Content /\ (c.notices = 0 \/ c.notices = work[p].notices)
    BY <2>2, <2>3 DEF Content, Missing
  <2> QED BY <2>1, <2>3, <2>4
<1>3. work \in [Tracked -> Content] /\ Paths \subseteq Tracked
  BY TrackedIs DEF EvidenceInv, Shapes
<1>4. \A r : work'[Record(r)] = work[Record(r)]
  BY <1>2, <1>3, TrackedIs
<1>5. \A q \in Tracked : work'[q].notices = work[q].notices \/ work'[q].notices = 0
  BY <1>2, <1>3
<1>6. Shapes' /\ Commands'
  BY <1>1, <1>2, <1>3 DEF EvidenceInv, Shapes, Commands
<1>7. Noticed(work)' /\ Noticed(head)'
  BY <1>1, <1>3, <1>4, <1>5 DEF EvidenceInv, Noticed
<1>8. ResultsPart'
  <2>1. Compacting => Compacting'
    BY <1>1, <1>4, <1>5, CompactingSame
  <2> QED BY <1>1, <2>1 DEF EvidenceInv, ResultsPart
<1>9. BundlePart' /\ SeedPart' /\ ReceiptsPart'
  BY <1>1 DEF EvidenceInv, BundlePart, SeedPart, ReceiptsPart, Recorded
<1> QED BY <1>6, <1>7, <1>8, <1>9 DEF EvidenceInv

(* The operator commits the work tree, or checks the commit out again.       *)
LEMMA CommitKeeps ==
  ASSUME EvidenceInv, tool = "results", Commit \/ Checkout
  PROVE  EvidenceInv'
<1>1. UNCHANGED <<tool, published, removed, events, summary, out, dest, job, edits>> /\ job = Idle
  BY DEF Commit, Checkout, store, receipts
<1>2. work \in [Tracked -> Content] /\ head \in [Tracked -> Content] /\ Noticed(work) /\ Noticed(head)
  BY DEF EvidenceInv, Shapes
<1>3. /\ work' \in [Tracked -> Content] /\ head' \in [Tracked -> Content]
      /\ Noticed(work)' /\ Noticed(head)'
  <2>1. CASE Commit
    BY <1>2, <2>1 DEF Commit, Noticed
  <2>2. CASE Checkout
    <3>1. head' = head /\ work' = [p \in Tracked |-> IF head[p] = Missing THEN work[p] ELSE head[p]]
      BY <2>2 DEF Checkout, store
    <3>2. \A p \in Tracked : Record(p[1]) \in Tracked
      BY TrackedIs
    <3>3. Missing.notices = 0
      BY DEF Missing
    <3>4. Noticed(work)'
      BY <1>2, <3>1, <3>2, <3>3 DEF Noticed
    <3> QED BY <1>2, <3>1, <3>4 DEF Noticed
  <2> QED BY <2>1, <2>2
<1>4. Shapes' /\ Commands'
  BY <1>1, <1>3 DEF EvidenceInv, Shapes, Commands
<1>5. ResultsPart'
  BY <1>1, NothingIs DEF EvidenceInv, ResultsPart
<1>6. BundlePart' /\ SeedPart' /\ ReceiptsPart'
  BY <1>1, OnlyResults
<1> QED BY <1>3, <1>4, <1>5, <1>6 DEF EvidenceInv

(* An output that blocks the next attempt is removed.                        *)
LEMMA DiscardKeeps ==
  ASSUME EvidenceInv, Discard
  PROVE  EvidenceInv'
<1>1. /\ job = Idle /\ out' = Absent /\ dest' = [state |-> "absent", files |-> NoFiles]
      /\ UNCHANGED <<tool, head, published, removed, events, summary, work, job, edits>>
  BY DEF Discard, store, receipts
<1>2. DOMAIN dest' = {"state", "files"} /\ dest'.state = "absent"
  BY <1>1
<1>3. Shapes' /\ Commands'
  BY <1>1, <1>2, NothingIs DEF EvidenceInv, Shapes, Commands
<1>4. Noticed(work)' /\ Noticed(head)'
  BY <1>1 DEF EvidenceInv, Noticed
<1>5. ResultsPart' /\ SeedPart'
  BY <1>1, NothingIs DEF EvidenceInv, ResultsPart, SeedPart
<1>6. BundlePart'
  BY <1>1, <1>2, NothingIs DEF EvidenceInv, BundlePart
<1>7. ReceiptsPart'
  BY <1>1, NothingIs DEF EvidenceInv, ReceiptsPart
<1> QED BY <1>3, <1>4, <1>5, <1>6, <1>7 DEF EvidenceInv

(* A command is killed.                                                      *)
LEMMA CrashKeeps ==
  ASSUME EvidenceInv, Crash
  PROVE  EvidenceInv'
BY GivesUp DEF Crash, Done, store, receipts

----------------------------------------------------------------------------
(* Steps of pack leave the evidence, and what compact removed, alone.        *)
LEMMA PackKeeps ==
  ASSUME EvidenceInv, tool = "results", UNCHANGED <<tool, head, removed, events, summary, work, dest, edits>>,
         published \subseteq published', out'.listed = out'.tree,
         DOMAIN job' = {"cmd", "stage", "left", "read", "archive", "run"},
         DOMAIN out' = {"state", "tree", "listed", "members", "sums"},
         job' = Idle \/ job'.cmd = "pack"
  PROVE  EvidenceInv'
<1>1. Shapes' /\ Commands'
  BY NothingIs DEF EvidenceInv, Shapes, Commands
<1>2. Noticed(work)' /\ Noticed(head)'
  BY DEF EvidenceInv, Noticed
<1>3. ResultsPart'
  BY NothingIs DEF EvidenceInv, ResultsPart
<1>4. BundlePart' /\ SeedPart' /\ ReceiptsPart'
  BY OnlyResults
<1> QED BY <1>1, <1>2, <1>3, <1>4 DEF EvidenceInv

(* result_archive.pack, from its choice of files to the digest it returns.   *)
LEMMA PackSteps ==
  ASSUME EvidenceInv, pack_start \/ pack_list \/ pack_add \/ pack_return
  PROVE  EvidenceInv'
<1>1. /\ DOMAIN job = {"cmd", "stage", "left", "read", "archive", "run"}
      /\ DOMAIN out = {"state", "tree", "listed", "members", "sums"}
      /\ tool = "results" => out.listed = out.tree
  BY DEF EvidenceInv, Shapes, ResultsPart
<1>2. tool = "results"
  BY DEF EvidenceInv, Commands, pack_start, pack_list, pack_add, pack_return, In
<1>3. CASE pack_start
  <2>1. /\ UNCHANGED <<tool, head, removed, published, events, summary, work, out, dest, edits>>
        /\ \E l, f : job' = [Idle EXCEPT !.cmd = "pack", !.stage = "list", !.left = l, !.read = f]
    BY <1>3 DEF pack_start, store, receipts
  <2>2. DOMAIN job' = DOMAIN Idle /\ job'.cmd = "pack"
    BY <2>1, NothingIs
  <2> QED BY <1>1, <1>2, <2>1, <2>2, NothingIs, PackKeeps
<1>4. CASE pack_list
  <2>1. UNCHANGED <<tool, head, removed, published, events, summary, work, dest, edits>> /\ job.cmd = "pack"
    BY <1>4 DEF pack_list, In, store, receipts
  <2>2. CASE job.left = <<>> /\ out.state = "absent"
    <3>1. /\ out' = [Absent EXCEPT !.state = "open", !.tree = job.read, !.listed = job.read]
          /\ job' = [job EXCEPT !.stage = "add", !.left = InOrder(DOMAIN job.read)]
      BY <1>4, <2>2 DEF pack_list
    <3>2. DOMAIN out' = DOMAIN Absent /\ out'.listed = out'.tree
      BY <3>1, NothingIs
    <3>3. DOMAIN job' = DOMAIN job /\ job'.cmd = "pack"
      BY <1>1, <2>1, <3>1
    <3> QED BY <1>1, <1>2, <2>1, <3>2, <3>3, NothingIs, PackKeeps
  <2>3. CASE ~(job.left = <<>> /\ out.state = "absent")
    <3>1. out' = out /\ (job' = Idle \/ job' = [job EXCEPT !.left = Tail(@)])
      BY <1>4, <2>3 DEF pack_list, Advance, Done
    <3>2. DOMAIN job' = DOMAIN job /\ (job' = Idle \/ job'.cmd = "pack")
      BY <1>1, <2>1, <3>1, NothingIs
    <3> QED BY <1>1, <1>2, <2>1, <3>1, <3>2, PackKeeps
  <2> QED BY <2>2, <2>3
<1>5. CASE pack_add
  <2>1. UNCHANGED <<tool, head, removed, published, events, summary, work, dest, edits>> /\ job.cmd = "pack"
    BY <1>5 DEF pack_add, In, store, receipts
  <2>2. /\ job' = Idle \/ job' = [job EXCEPT !.left = Tail(@)]
        /\ out' = out \/ \E m : out' = [out EXCEPT !.members = m]
    BY <1>5 DEF pack_add, Advance, Done, Added
  <2>3. DOMAIN job' = DOMAIN job /\ (job' = Idle \/ job'.cmd = "pack")
    BY <1>1, <2>1, <2>2, NothingIs
  <2>4. DOMAIN out' = DOMAIN out /\ out'.listed = out'.tree
    BY <1>1, <1>2, <2>2
  <2> QED BY <1>1, <1>2, <2>1, <2>3, <2>4, PackKeeps
<1>6. CASE pack_return
  <2>1. /\ UNCHANGED <<tool, head, removed, events, summary, work, dest, edits>> /\ job' = Idle
        /\ out' = [out EXCEPT !.state = "closed"] /\ published' = published \cup {out'}
    BY <1>6 DEF pack_return, Done, receipts
  <2>2. DOMAIN out' = DOMAIN out /\ out'.listed = out'.tree
    BY <1>1, <1>2, <2>1
  <2> QED BY <1>1, <1>2, <2>1, <2>2, NothingIs, PackKeeps
<1> QED BY <1>3, <1>4, <1>5, <1>6

(* Steps of compact, which writes no output.                                 *)
LEMMA CompactKeeps ==
  ASSUME EvidenceInv, tool = "results", UNCHANGED <<tool, head, published, events, summary, out, dest, edits>>,
         DOMAIN job' = {"cmd", "stage", "left", "read", "archive", "run"}, job'.cmd = "compact",
         work' \in [Tracked -> Content], Noticed(work)', Compacting',
         \A x \in removed' : \E a \in published : x[1] \in DOMAIN a.members /\ a.members[x[1]] = x[2]
  PROVE  EvidenceInv'
<1>1. Shapes' /\ Commands'
  BY DEF EvidenceInv, Shapes, Commands
<1>2. Noticed(head)'
  BY DEF EvidenceInv, Noticed
<1>3. ResultsPart'
  BY DEF EvidenceInv, ResultsPart
<1>4. BundlePart' /\ SeedPart' /\ ReceiptsPart'
  BY OnlyResults
<1> QED BY <1>1, <1>2, <1>3, <1>4 DEF EvidenceInv

(* compact takes up an archive that lists exactly the files of the commit.   *)
LEMMA CompactStart ==
  ASSUME EvidenceInv, compact_start
  PROVE  EvidenceInv'
<1>1. tool = "results" /\ UNCHANGED <<tool, head, removed, published, events, summary, work, out, dest, edits>>
  BY DEF compact_start, store, receipts
<1>2. PICK archive \in published :
        LET selected == {p \in Present(head) : p[1] \in {q[1] : q \in DOMAIN archive.listed}}
        IN /\ verify(archive) /\ selected = DOMAIN archive.listed
           /\ job' = [Idle EXCEPT !.cmd = "compact", !.stage = "compare", !.left = InOrder(selected),
                                  !.read = head, !.archive = archive]
  BY DEF compact_start
<1>3. PICK D : D = DOMAIN archive.listed
  OBVIOUS
<1>4. D \subseteq Tracked
  <2>1. DOMAIN head = Tracked
    BY DEF EvidenceInv, Shapes
  <2> QED BY <1>2, <1>3, <2>1 DEF Present
<1>5. ListOf(InOrder(D), D) /\ ToSet(InOrder(D)) = D
  BY <1>4, InOrderIs, TrackedIs, FS_Subset
<1>6. /\ DOMAIN job' = DOMAIN Idle /\ job'.cmd = "compact" /\ job'.stage = "compare"
      /\ job'.left = InOrder(D) /\ job'.read = head /\ job'.archive = archive
  BY <1>2, <1>3, NothingIs
<1>7. archive.members = archive.listed
  BY <1>2 DEF verify
<1>8. Compacting'
  BY <1>1, <1>3, <1>4, <1>5, <1>6, <1>7 DEF Compacting
<1>9. work' \in [Tracked -> Content] /\ Noticed(work)'
  BY <1>1 DEF EvidenceInv, Shapes, Noticed
<1> QED BY <1>1, <1>6, <1>8, <1>9, NothingIs, CompactKeeps DEF EvidenceInv, ResultsPart

(* A file is compared with the commit and the archive, or all have been.     *)
LEMMA CompactCompare ==
  ASSUME EvidenceInv, compact_compare
  PROVE  EvidenceInv'
<1>1. /\ job.cmd = "compact" /\ job.stage = "compare"
      /\ UNCHANGED <<tool, head, removed, published, events, summary, work, out, dest, edits>>
  BY DEF compact_compare, In, store, receipts
<1>2. tool = "results" /\ Compacting /\ DOMAIN job = {"cmd", "stage", "left", "read", "archive", "run"}
  BY <1>1 DEF EvidenceInv, Shapes, Commands, ResultsPart
<1>3. work' \in [Tracked -> Content] /\ Noticed(work)'
  BY <1>1 DEF EvidenceInv, Shapes, Noticed
<1>4. CASE job' = Idle
  BY <1>1, <1>4, GivesUp
<1>5. CASE job.left # <<>> /\ work[At] = job.read[At] /\ work[At] = job.archive.listed[At] /\ Advance
  <2>1. /\ DOMAIN job' = DOMAIN job /\ job'.cmd = "compact" /\ job'.stage = "compare" /\ job'.left = Tail(job.left)
        /\ job'.read = job.read /\ job'.archive = job.archive
    BY <1>1, <1>2, <1>5 DEF Advance
  <2>2. /\ ListOf(job.left, DOMAIN job.archive.listed) /\ job.read = head
        /\ \A p \in DOMAIN job.archive.listed \ ToSet(job.left) : job.archive.listed[p] = head[p]
    BY <1>1, <1>2 DEF Compacting
  <2>3. ListOf(Tail(job.left), DOMAIN job.archive.listed) /\ ToSet(job.left) = {At} \cup ToSet(Tail(job.left))
    BY <1>5, <2>2, HeadTail DEF ListOf, At
  <2>4. \A p \in DOMAIN job.archive.listed \ ToSet(Tail(job.left)) : job.archive.listed[p] = head[p]
    BY <1>5, <2>2, <2>3
  <2>5. Compacting'
    BY <1>1, <1>2, <2>1, <2>2, <2>3, <2>4 DEF Compacting
  <2> QED BY <1>1, <1>2, <1>3, <2>1, <2>5, CompactKeeps DEF EvidenceInv, ResultsPart
<1>6. CASE /\ job.left = <<>> /\ job' = [job EXCEPT !.stage = "remove"]
           /\ \A r \in compact_names : work[Record(r)] = Missing /\ Readme(r) \in DOMAIN job.archive.listed
  <2>1. /\ DOMAIN job' = DOMAIN job /\ job'.cmd = "compact" /\ job'.stage = "remove" /\ job'.archive = job.archive
    BY <1>1, <1>2, <1>6
  <2>2. \A p \in DOMAIN job.archive.listed : job.archive.listed[p] = head[p]
    BY <1>1, <1>2, <1>6, EmptyList DEF Compacting
  <2>3. Compacting'
    BY <1>1, <1>2, <1>6, <2>1, <2>2 DEF Compacting, compact_names
  <2> QED BY <1>1, <1>2, <1>3, <2>1, <2>3, CompactKeeps DEF EvidenceInv, ResultsPart
<1> QED BY <1>4, <1>5, <1>6 DEF compact_compare, committed_bytes, Done

(* git rm of what is archived.                                               *)
LEMMA CompactRemove ==
  ASSUME EvidenceInv, compact_remove
  PROVE  EvidenceInv'
<1>1. /\ job.cmd = "compact" /\ job.stage = "remove"
      /\ UNCHANGED <<tool, head, published, events, summary, out, dest, edits>>
  BY DEF compact_remove, In, receipts
<1>2. tool = "results" /\ Compacting /\ DOMAIN job = {"cmd", "stage", "left", "read", "archive", "run"}
  BY <1>1 DEF EvidenceInv, Shapes, Commands, ResultsPart
<1>3. PICK paths : paths = {p \in DOMAIN job.archive.listed : ~keep(p)}
  OBVIOUS
<1>4. CASE job' = Idle /\ UNCHANGED <<removed, work>>
  BY <1>1, <1>4, GivesUp
<1>5. CASE /\ removed' = removed \cup {<<p, head[p]>> : p \in paths}
           /\ work' = [p \in Tracked |-> IF p \in paths THEN Missing ELSE work[p]]
           /\ job' = [job EXCEPT !.stage = "record", !.left = InOrder(compact_names)]
  <2>1. /\ DOMAIN job' = DOMAIN job /\ job'.cmd = "compact" /\ job'.stage = "record" /\ job'.archive = job.archive
        /\ job'.left = InOrder(compact_names)
    BY <1>1, <1>2, <1>5
  <2>2. compact_names \subseteq Results
    BY <1>2, TrackedIs DEF Compacting, compact_names
  <2>3. ListOf(InOrder(compact_names), compact_names) /\ ToSet(InOrder(compact_names)) = compact_names
    BY <2>2, InOrderIs, TrackedIs, FS_Subset
  <2>4. \A r \in Results : work'[Record(r)] = work[Record(r)]
    BY <1>3, <1>5, TrackedIs
  <2>5. Compacting'
    BY <1>1, <1>2, <2>1, <2>2, <2>3, <2>4 DEF Compacting, compact_names
  <2>6. Missing \in Content /\ Missing.notices = 0
    BY DEF Missing, Content
  <2>7. work \in [Tracked -> Content] /\ Noticed(work)
    BY DEF EvidenceInv, Shapes
  <2>8. work' \in [Tracked -> Content]
    BY <1>5, <2>6, <2>7
  <2>9. Noticed(work)'
    <3>1. ASSUME NEW p \in Tracked
          PROVE  work'[p].notices <= 1 /\ (work'[p].notices > 0 => work'[Record(p[1])] # Missing)
      <4>1. work'[Record(p[1])] = work[Record(p[1])]
        BY <2>4, <3>1, TrackedIs
      <4>2. work'[p].notices = 0 \/ work'[p] = work[p]
        BY <1>5, <2>6, <3>1
      <4> QED BY <2>7, <4>1, <4>2 DEF Noticed
    <3> QED BY <3>1 DEF Noticed
  <2>10. ASSUME NEW x \in removed'
         PROVE  \E a \in published : x[1] \in DOMAIN a.members /\ a.members[x[1]] = x[2]
    <3>1. CASE x \in removed
      BY <1>2, <3>1 DEF EvidenceInv, ResultsPart
    <3>2. CASE x \notin removed
      <4>1. PICK p \in paths : x = <<p, head[p]>>
        BY <1>5, <3>2
      <4>2. job.archive \in published /\ p \in DOMAIN job.archive.members /\ job.archive.members[p] = head[p]
        BY <1>1, <1>2, <1>3 DEF Compacting
      <4> QED BY <4>1, <4>2
    <3> QED BY <3>1, <3>2
  <2> QED BY <1>1, <1>2, <2>1, <2>5, <2>8, <2>9, <2>10, CompactKeeps
<1> QED BY <1>3, <1>4, <1>5 DEF compact_remove, Done

(* The record of a result, before the notice above its report.               *)
LEMMA CompactRecord ==
  ASSUME EvidenceInv, compact_record
  PROVE  EvidenceInv'
<1>1. /\ job.cmd = "compact" /\ job.stage = "record"
      /\ UNCHANGED <<tool, head, removed, published, events, summary, out, dest, edits>>
  BY DEF compact_record, In, store, receipts
<1>2. tool = "results" /\ Compacting /\ DOMAIN job = {"cmd", "stage", "left", "read", "archive", "run"}
  BY <1>1 DEF EvidenceInv, Shapes, Commands, ResultsPart
<1>3. CASE job' = Idle /\ UNCHANGED work
  BY <1>1, <1>3, GivesUp
<1>4. CASE /\ job.left # <<>> /\ work' = [work EXCEPT ![Record(At)] = Original]
           /\ job' = [job EXCEPT !.stage = "notice"]
  <2>1. /\ DOMAIN job' = DOMAIN job /\ job'.cmd = "compact" /\ job'.stage = "notice" /\ job'.archive = job.archive
        /\ job'.left = job.left
    BY <1>1, <1>2, <1>4
  <2>2. PICK r \in compact_names : r = At /\ r = Head(job.left)
    BY <1>1, <1>2, <1>4, HeadTail DEF Compacting, ListOf, At
  <2>3. r \in Results /\ Readme(r) \in Tracked
    BY <1>1, <1>2, TrackedIs DEF Compacting, compact_names
  <2>4. work \in [Tracked -> Content] /\ Noticed(work)
    BY DEF EvidenceInv, Shapes
  <2>5. Original \in Content /\ Original.notices = 0 /\ Original # Missing
    BY DEF Original, Missing, Content
  <2>6. /\ ListOf(job.left, compact_names) /\ \A q \in ToSet(job.left) : work[Record(q)] = Missing
    BY <1>1, <1>2 DEF Compacting
  <2>7. r \in ToSet(job.left) /\ r \notin ToSet(Tail(job.left)) /\ ToSet(Tail(job.left)) \subseteq ToSet(job.left)
    BY <1>4, <2>2, <2>6, HeadTail DEF ListOf
  <2>8. ~(work[Readme(r)].notices > 0)
    BY <2>3, <2>4, <2>6, <2>7, TrackedIs DEF Noticed
  <2>9. work[Readme(r)].notices = 0
    BY <2>3, <2>4, <2>8 DEF Content
  <2>10. Readme(r) # Record(r) /\ \A q : q # r => Record(q) # Record(r)
    BY DEF Readme, Record
  <2>11. work' = [work EXCEPT ![Record(r)] = Original]
    BY <1>4, <2>2
  <2>12. /\ work' \in [Tracked -> Content] /\ work'[Record(r)] = Original /\ work'[Readme(r)].notices = 0
         /\ \A q \in ToSet(Tail(job.left)) : work'[Record(q)] = Missing
    <3>1. Record(r) \in Tracked
      BY <2>3, TrackedIs
    <3>2. \A q \in ToSet(Tail(job.left)) : work'[Record(q)] = work[Record(q)]
      BY <2>7, <2>10, <2>11
    <3> QED BY <2>3, <2>4, <2>5, <2>6, <2>7, <2>9, <2>10, <2>11, <3>1, <3>2
  <2>13. Noticed(work)'
    <3>1. ASSUME NEW p \in Tracked
          PROVE  work'[p].notices <= 1 /\ (work'[p].notices > 0 => work'[Record(p[1])] # Missing)
      <4>1. work'[p] = work[p] \/ work'[p] = Original
        BY <2>4, <2>11, <3>1
      <4>2. work'[Record(p[1])] = work[Record(p[1])] \/ work'[Record(p[1])] = Original
        BY <2>4, <2>11, <3>1, TrackedIs
      <4> QED BY <2>4, <2>5, <4>1, <4>2 DEF Noticed
    <3> QED BY <3>1 DEF Noticed
  <2>14. At' = r
    BY <2>1, <2>2 DEF At
  <2>15. Compacting'
    <3>1. /\ work'[Record(At')] = Original /\ work'[Readme(At')].notices = 0
      BY <2>12, <2>14
    <3>2. (job.stage = "notice" =>
             /\ job.left # <<>> /\ work[Record(At)] = Original /\ work[Readme(At)].notices = 0
             /\ \A q \in ToSet(Tail(job.left)) : work[Record(q)] = Missing)'
      BY <1>4, <2>1, <2>12, <3>1 DEF Record, Readme
    <3>3. compact_names' = compact_names
      BY <2>1 DEF compact_names
    <3> QED BY <1>1, <1>2, <2>1, <3>2, <3>3 DEF Compacting
  <2> QED BY <1>1, <1>2, <2>1, <2>12, <2>13, <2>15, CompactKeeps DEF EvidenceInv, ResultsPart
<1> QED BY <1>3, <1>4 DEF compact_record, Done

(* The notice, above a report that had none.                                 *)
LEMMA CompactNotice ==
  ASSUME EvidenceInv, compact_notice
  PROVE  EvidenceInv'
<1>1. /\ job.cmd = "compact" /\ job.stage = "notice"
      /\ UNCHANGED <<tool, head, removed, published, events, summary, out, dest, edits>>
  BY DEF compact_notice, In, store, receipts
<1>2. tool = "results" /\ Compacting /\ DOMAIN job = {"cmd", "stage", "left", "read", "archive", "run"}
  BY <1>1 DEF EvidenceInv, Shapes, Commands, ResultsPart
<1>3. CASE job' = Idle /\ UNCHANGED work
  BY <1>1, <1>3, GivesUp
<1>4. CASE /\ work' = [work EXCEPT ![Readme(At)].notices = @ + 1]
           /\ job' = [job EXCEPT !.stage = "record", !.left = Tail(@)]
  <2>1. /\ DOMAIN job' = DOMAIN job /\ job'.cmd = "compact" /\ job'.stage = "record" /\ job'.archive = job.archive
        /\ job'.left = Tail(job.left)
    BY <1>1, <1>2, <1>4
  <2>2. /\ job.left # <<>> /\ ListOf(job.left, compact_names) /\ work[Record(At)] = Original /\ work[Readme(At)].notices = 0
        /\ \A q \in ToSet(Tail(job.left)) : work[Record(q)] = Missing
    BY <1>1, <1>2 DEF Compacting
  <2>3. PICK r \in compact_names : r = At /\ r = Head(job.left)
    BY <2>2, HeadTail DEF ListOf, At
  <2>4. r \in Results /\ Readme(r) \in Tracked
    BY <1>1, <1>2, TrackedIs DEF Compacting, compact_names
  <2>5. work \in [Tracked -> Content] /\ Noticed(work)
    BY DEF EvidenceInv, Shapes
  <2>6. PICK c : c = [work[Readme(r)] EXCEPT !.notices = @ + 1]
    OBVIOUS
  <2>7. work' = [work EXCEPT ![Readme(r)] = c]
    BY <1>4, <2>3, <2>6
  <2>8. c \in Content /\ c.notices = 1
    BY <2>2, <2>3, <2>4, <2>5, <2>6 DEF Content
  <2>9. \A q : Record(q) # Readme(r)
    BY DEF Record, Readme
  <2>10. \A q : work'[Record(q)] = work[Record(q)]
    BY <2>5, <2>7, <2>9
  <2>11. work' \in [Tracked -> Content]
    BY <2>4, <2>5, <2>7, <2>8
  <2>12. Noticed(work)'
    <3>1. work[Record(r)] # Missing
      BY <2>2, <2>3 DEF Original, Missing
    <3>2. ASSUME NEW p \in Tracked
          PROVE  work'[p].notices <= 1 /\ (work'[p].notices > 0 => work'[Record(p[1])] # Missing)
      <4>1. CASE p = Readme(r)
        BY <2>4, <2>5, <2>7, <2>8, <2>10, <3>1, <4>1, TrackedIs
      <4>2. CASE p # Readme(r)
        BY <2>5, <2>7, <2>10, <3>2, <4>2 DEF Noticed
      <4> QED BY <4>1, <4>2
    <3> QED BY <3>2 DEF Noticed
  <2>13. ListOf(Tail(job.left), compact_names)
    BY <2>2, HeadTail DEF ListOf
  <2>14. Compacting'
    <3>1. compact_names' = compact_names
      BY <2>1 DEF compact_names
    <3> QED BY <1>1, <1>2, <2>1, <2>2, <2>10, <2>13, <3>1 DEF Compacting
  <2> QED BY <1>1, <1>2, <2>1, <2>11, <2>12, <2>14, CompactKeeps DEF EvidenceInv, ResultsPart
<1> QED BY <1>3, <1>4 DEF compact_notice, Done

----------------------------------------------------------------------------
(* Steps of the tools that leave the commit and the evidence alone.          *)
LEMMA OutputKeeps ==
  ASSUME EvidenceInv, UNCHANGED <<tool, head, published, removed, work, events, edits>>,
         DOMAIN job' = {"cmd", "stage", "left", "read", "archive", "run"},
         DOMAIN out' = {"state", "tree", "listed", "members", "sums"},
         DOMAIN dest' = {"state", "files"}, Commands', ResultsPart', BundlePart', SeedPart', ReceiptsPart'
  PROVE  EvidenceInv'
<1>1. Shapes'
  BY DEF EvidenceInv, Shapes
<1>2. Noticed(work)' /\ Noticed(head)'
  BY DEF EvidenceInv, Noticed
<1> QED BY <1>1, <1>2 DEF EvidenceInv

(* evidence_bundle.pack begins.                                              *)
LEMMA BundleStart ==
  ASSUME EvidenceInv, bundle_start
  PROVE  EvidenceInv'
<1>1. PICK present : present = Present(work)
  OBVIOUS
<1>2. /\ tool = "bundle" /\ job = Idle /\ out.state = "absent"
      /\ job' = [Idle EXCEPT !.cmd = "bundle", !.stage = "add", !.left = InOrder(present)]
      /\ out' = [Absent EXCEPT !.state = "open", !.tree = Restrict(work, present), !.listed = Restrict(work, present)]
      /\ UNCHANGED <<tool, head, published, removed, events, summary, work, dest, edits>>
  BY <1>1 DEF bundle_start, store, receipts
<1>3. present \subseteq Tracked
  BY <1>1 DEF Present, EvidenceInv, Shapes
<1>4. ListOf(InOrder(present), present)
  BY <1>3, InOrderIs, TrackedIs, FS_Subset
<1>5. PICK t : t = Restrict(work, present) /\ DOMAIN t = present
  <2>1. DOMAIN Restrict(work, present) = present
    BY DEF Restrict
  <2> QED BY <2>1
<1>6. /\ DOMAIN job' = DOMAIN Idle /\ job'.cmd = "bundle" /\ job'.left = InOrder(present)
  BY <1>2, NothingIs
<1>7. /\ DOMAIN out' = DOMAIN Absent /\ out'.state = "open" /\ out'.tree = t
      /\ out'.listed = t /\ out'.members = NoFiles
  BY <1>2, <1>5, NothingIs
<1>8. dest.state = "absent"
  BY <1>2 DEF EvidenceInv, BundlePart
<1>9. BundlePart'
  <2>1. tool' = "bundle" /\ dest' = dest /\ job'.left \in Seq(DOMAIN out'.tree)
    BY <1>2, <1>4, <1>5, <1>6, <1>7 DEF ListOf
  <2>2. DOMAIN out'.members \subseteq DOMAIN out'.tree /\ out'.members = [p \in DOMAIN out'.members |-> out'.members[p]]
    BY <1>7, NothingIs
  <2> QED BY <1>3, <1>5, <1>6, <1>7, <1>8, <2>1, <2>2 DEF BundlePart
<1>10. Commands' /\ ResultsPart' /\ SeedPart' /\ ReceiptsPart'
  BY <1>2, <1>6, OnlyBundle DEF Commands
<1> QED BY <1>2, <1>6, <1>7, <1>9, <1>10, NothingIs, OutputKeeps DEF EvidenceInv, Shapes

(* A member is added, the stream is closed, or a file has gone.              *)
LEMMA BundleAdd ==
  ASSUME EvidenceInv, bundle_add
  PROVE  EvidenceInv'
<1>1. /\ job.cmd = "bundle" /\ UNCHANGED <<tool, head, published, removed, events, summary, work, dest, edits>>
  BY DEF bundle_add, In, store, receipts
<1>2. /\ tool = "bundle" /\ DOMAIN job = {"cmd", "stage", "left", "read", "archive", "run"}
      /\ DOMAIN out = {"state", "tree", "listed", "members", "sums"} /\ DOMAIN dest = {"state", "files"}
  BY <1>1 DEF EvidenceInv, Commands, Shapes
<1>3. /\ DOMAIN out.listed = DOMAIN out.tree /\ DOMAIN out.tree \subseteq Tracked
      /\ DOMAIN out.members \subseteq DOMAIN out.tree
      /\ out.members = [p \in DOMAIN out.members |-> out.members[p]]
      /\ out.state # "absent" /\ job.left \in Seq(DOMAIN out.tree) /\ dest.state = "absent"
  BY <1>1, <1>2 DEF EvidenceInv, BundlePart
<1>4. CASE job.left # <<>> /\ Advance /\ Added(work[At])
  <2>1. PICK m : m = With(out.members, At, work[At])
    OBVIOUS
  <2>2. out' = [out EXCEPT !.members = m] /\ job' = [job EXCEPT !.left = Tail(@)]
    BY <1>4, <2>1 DEF Added, Advance
  <2>3. At \in DOMAIN out.tree /\ Tail(job.left) \in Seq(DOMAIN out.tree)
    BY <1>3, <1>4, HeadTail DEF At
  <2>4. DOMAIN m = DOMAIN out.members \cup {At} /\ m = [p \in DOMAIN m |-> m[p]]
    BY <2>1 DEF With
  <2>5. /\ DOMAIN out' = DOMAIN out /\ out'.listed = out.listed /\ out'.tree = out.tree /\ out'.state = out.state
        /\ out'.members = m
    BY <1>2, <2>2
  <2>6. DOMAIN job' = DOMAIN job /\ job'.cmd = "bundle" /\ job'.left = Tail(job.left)
    BY <1>1, <1>2, <2>2
  <2>7. BundlePart'
    BY <1>1, <1>2, <1>3, <2>3, <2>4, <2>5, <2>6 DEF BundlePart
  <2>8. Commands' /\ ResultsPart' /\ SeedPart' /\ ReceiptsPart'
    BY <1>1, <1>2, <2>6, OnlyBundle DEF Commands
  <2> QED BY <1>1, <1>2, <2>5, <2>6, <2>7, <2>8, OutputKeeps
<1>5. CASE /\ job' = (IF job.left = <<>> THEN Idle ELSE [job EXCEPT !.stage = "unlink"])
           /\ out' = [out EXCEPT !.state = "closed"]
  <2>1. /\ DOMAIN out' = DOMAIN out /\ out'.listed = out.listed /\ out'.tree = out.tree /\ out'.state = "closed"
        /\ out'.members = out.members
    BY <1>2, <1>5
  <2>2. DOMAIN job' = DOMAIN job /\ (job' = Idle \/ (job'.cmd = "bundle" /\ job'.left = job.left))
    BY <1>1, <1>2, <1>5, NothingIs
  <2>3. BundlePart'
    BY <1>1, <1>2, <1>3, <2>1, <2>2, NothingIs DEF BundlePart
  <2>4. Commands' /\ ResultsPart' /\ SeedPart' /\ ReceiptsPart'
    BY <1>1, <1>2, <2>2, NothingIs, OnlyBundle DEF Commands
  <2> QED BY <1>1, <1>2, <2>1, <2>2, <2>3, <2>4, OutputKeeps
<1> QED BY <1>4, <1>5 DEF bundle_add

(* The output of a failed pack is removed.                                   *)
LEMMA BundleUnlink ==
  ASSUME EvidenceInv, bundle_unlink
  PROVE  EvidenceInv'
<1>1. /\ job.cmd = "bundle" /\ UNCHANGED <<tool, head, published, removed, events, summary, work, dest, edits>>
      /\ job' = Idle /\ out' = Absent
  BY DEF bundle_unlink, In, Done, store, receipts
<1>2. tool = "bundle" /\ DOMAIN dest = {"state", "files"}
  BY <1>1 DEF EvidenceInv, Commands, Shapes
<1>3. dest.state = "absent"
  BY <1>1, <1>2 DEF EvidenceInv, BundlePart
<1>4. BundlePart'
  BY <1>1, <1>2, <1>3, NothingIs DEF BundlePart
<1>5. Commands' /\ ResultsPart' /\ SeedPart' /\ ReceiptsPart'
  BY <1>1, <1>2, OnlyBundle, NothingIs DEF Commands
<1> QED BY <1>1, <1>2, <1>4, <1>5, NothingIs, OutputKeeps

(* extract has verified the bundle and creates its directory.                *)
LEMMA ExtractStart ==
  ASSUME EvidenceInv, extract_start
  PROVE  EvidenceInv'
<1>1. /\ tool = "bundle" /\ out.state = "closed" /\ dest' = [state |-> "partial", files |-> NoFiles]
      /\ job' = [Idle EXCEPT !.cmd = "extract", !.left = InOrder(DOMAIN out.members)]
      /\ UNCHANGED <<tool, head, published, removed, events, summary, work, out, edits>>
  BY DEF extract_start, verify_bundle, records, store, receipts
<1>2. DOMAIN out.members \subseteq Tracked
  BY <1>1 DEF EvidenceInv, BundlePart
<1>3. ListOf(InOrder(DOMAIN out.members), DOMAIN out.members) /\ ToSet(InOrder(DOMAIN out.members)) = DOMAIN out.members
  BY <1>2, InOrderIs, TrackedIs, FS_Subset
<1>4. DOMAIN job' = DOMAIN Idle /\ job'.cmd = "extract" /\ job'.left = InOrder(DOMAIN out.members)
  BY <1>1, NothingIs
<1>5. DOMAIN dest' = {"state", "files"} /\ dest'.state = "partial" /\ dest'.files = NoFiles
  BY <1>1
<1>6. NoFiles = [p \in DOMAIN NoFiles |-> out.members[p]]
  BY DEF NoFiles
<1>7. BundlePart'
  BY <1>1, <1>3, <1>4, <1>5, <1>6, NothingIs DEF EvidenceInv, BundlePart, ListOf
<1>8. Commands' /\ ResultsPart' /\ SeedPart' /\ ReceiptsPart'
  BY <1>1, <1>4, OnlyBundle DEF Commands
<1> QED BY <1>1, <1>4, <1>5, <1>7, <1>8, NothingIs, OutputKeeps DEF EvidenceInv, Shapes

(* A member is written, or all have been.                                    *)
LEMMA ExtractFile ==
  ASSUME EvidenceInv, extract_file
  PROVE  EvidenceInv'
<1>1. job.cmd = "extract" /\ UNCHANGED <<tool, head, published, removed, events, summary, work, out, edits>>
  BY DEF extract_file, store, receipts
<1>2. /\ tool = "bundle" /\ DOMAIN job = {"cmd", "stage", "left", "read", "archive", "run"}
      /\ DOMAIN out = {"state", "tree", "listed", "members", "sums"} /\ DOMAIN dest = {"state", "files"}
  BY <1>1 DEF EvidenceInv, Commands, Shapes
<1>3. /\ dest.state = "partial" /\ job.left \in Seq(DOMAIN out.members)
      /\ DOMAIN dest.files \cup ToSet(job.left) = DOMAIN out.members
      /\ dest.files = [p \in DOMAIN dest.files |-> out.members[p]]
      /\ out.members = [p \in DOMAIN out.members |-> out.members[p]] /\ out.state = "closed"
  BY <1>1, <1>2 DEF EvidenceInv, BundlePart
<1>4. CASE job.left # <<>>
  <2>1. PICK f : f = With(dest.files, At, out.members[At])
    OBVIOUS
  <2>2. dest' = [dest EXCEPT !.files = f] /\ job' = [job EXCEPT !.left = Tail(@)]
    BY <1>4, <2>1 DEF extract_file, Advance
  <2>3. Tail(job.left) \in Seq(DOMAIN out.members) /\ ToSet(job.left) = {At} \cup ToSet(Tail(job.left))
    BY <1>3, <1>4, HeadTail DEF At
  <2>4. DOMAIN f = DOMAIN dest.files \cup {At} /\ f = [p \in DOMAIN f |-> out.members[p]]
    <3>1. DOMAIN f = DOMAIN dest.files \cup {At}
      BY <2>1 DEF With
    <3>2. \A p \in DOMAIN f : f[p] = out.members[p]
      BY <1>3, <2>1 DEF With
    <3>3. f = [p \in DOMAIN f |-> f[p]]
      BY <2>1 DEF With
    <3> QED BY <3>1, <3>2, <3>3
  <2>5. DOMAIN dest' = DOMAIN dest /\ dest'.state = "partial" /\ dest'.files = f
    BY <1>2, <1>3, <2>2
  <2>6. DOMAIN job' = DOMAIN job /\ job'.cmd = "extract" /\ job'.left = Tail(job.left)
    BY <1>1, <1>2, <2>2
  <2>7. DOMAIN f \cup ToSet(Tail(job.left)) = DOMAIN out.members
    BY <1>3, <2>3, <2>4
  <2>8. BundlePart'
    BY <1>1, <1>2, <1>3, <2>3, <2>4, <2>5, <2>6, <2>7 DEF EvidenceInv, BundlePart
  <2>9. Commands' /\ ResultsPart' /\ SeedPart' /\ ReceiptsPart'
    BY <1>1, <1>2, <2>6, OnlyBundle DEF Commands
  <2> QED BY <1>1, <1>2, <2>5, <2>6, <2>8, <2>9, OutputKeeps
<1>5. CASE job.left = <<>>
  <2>1. dest' = [dest EXCEPT !.state = "complete"] /\ job' = Idle
    BY <1>5 DEF extract_file, Done
  <2>2. DOMAIN dest' = DOMAIN dest /\ dest'.state = "complete" /\ dest'.files = dest.files
    BY <1>2, <2>1
  <2>3. dest.files = out.members
    <3>1. DOMAIN dest.files = DOMAIN out.members
      BY <1>3, <1>5, EmptyList
    <3> QED BY <1>3, <3>1
  <2>4. BundlePart'
    BY <1>1, <1>2, <1>3, <2>1, <2>2, <2>3, NothingIs DEF EvidenceInv, BundlePart
  <2>5. Commands' /\ ResultsPart' /\ SeedPart' /\ ReceiptsPart'
    BY <1>1, <1>2, <2>1, OnlyBundle, NothingIs DEF Commands
  <2> QED BY <1>1, <1>2, <2>1, <2>2, <2>4, <2>5, NothingIs, OutputKeeps
<1> QED BY <1>4, <1>5

----------------------------------------------------------------------------
(* bootstrap-seed-release.create, from its validation to the checksums.      *)
LEMMA CreateSteps ==
  ASSUME EvidenceInv, create_start \/ create_copy \/ create_sums
  PROVE  EvidenceInv'
<1>1. UNCHANGED <<tool, head, published, removed, events, summary, work, dest, edits>>
  BY DEF create_start, create_copy, create_sums, store, receipts
<1>2. tool = "seed"
  BY DEF EvidenceInv, Commands, create_start, create_copy, create_sums, In
<1>3. /\ DOMAIN job = {"cmd", "stage", "left", "read", "archive", "run"}
      /\ DOMAIN out = {"state", "tree", "listed", "members", "sums"} /\ DOMAIN dest = {"state", "files"}
  BY DEF EvidenceInv, Shapes
<1>4. ResultsPart' /\ BundlePart' /\ ReceiptsPart'
  BY <1>1, <1>2, OnlySeed
<1>5. /\ out.state # "absent" => out.tree = Stated
      /\ out.listed \in {NoFiles, Stated} /\ out.sums \in {NoFiles, out.members}
      /\ job.cmd = "create" => out.state # "absent" /\ out.sums = NoFiles
  BY <1>2 DEF EvidenceInv, SeedPart
<1>6. CASE create_start
  <2>1. /\ job' = [Idle EXCEPT !.cmd = "create", !.stage = "copy", !.left = InOrder(Paths)]
        /\ out' = [Absent EXCEPT !.state = "open", !.tree = Stated]
    BY <1>6 DEF create_start
  <2>2. DOMAIN job' = DOMAIN Idle /\ job'.cmd = "create"
    BY <2>1, NothingIs
  <2>3. /\ DOMAIN out' = DOMAIN Absent /\ out'.state = "open" /\ out'.tree = Stated /\ out'.listed = NoFiles
        /\ out'.sums = NoFiles
    BY <2>1, NothingIs
  <2>4. SeedPart' /\ Commands'
    BY <1>1, <1>2, <2>2, <2>3 DEF SeedPart, Commands
  <2> QED BY <1>1, <1>3, <1>4, <2>2, <2>3, <2>4, NothingIs, OutputKeeps
<1>7. CASE create_copy
  <2>1. job.cmd = "create"
    BY <1>7 DEF create_copy, In
  <2>2. CASE job' = Idle /\ UNCHANGED out
    BY <1>1, <2>2, GivesUp
  <2>3. CASE /\ \E m : out' = [out EXCEPT !.members = m]
             /\ job' = [job EXCEPT !.left = Tail(@)]
    <3>1. /\ DOMAIN out' = DOMAIN out /\ out'.state = out.state /\ out'.tree = out.tree /\ out'.listed = out.listed
          /\ out'.sums = out.sums
      BY <1>3, <2>3
    <3>2. DOMAIN job' = DOMAIN job /\ job'.cmd = "create"
      BY <1>3, <2>1, <2>3
    <3>3. SeedPart' /\ Commands'
      BY <1>1, <1>2, <1>5, <2>1, <3>1, <3>2 DEF SeedPart, Commands
    <3> QED BY <1>1, <1>3, <1>4, <3>1, <3>2, <3>3, OutputKeeps
  <2>4. CASE job' = [job EXCEPT !.stage = "sums"] /\ out' = [out EXCEPT !.listed = Stated]
    <3>1. /\ DOMAIN out' = DOMAIN out /\ out'.state = out.state /\ out'.tree = out.tree /\ out'.listed = Stated
          /\ out'.sums = out.sums
      BY <1>3, <2>4
    <3>2. DOMAIN job' = DOMAIN job /\ job'.cmd = "create"
      BY <1>3, <2>1, <2>4
    <3>3. SeedPart' /\ Commands'
      BY <1>1, <1>2, <1>5, <2>1, <3>1, <3>2 DEF SeedPart, Commands
    <3> QED BY <1>1, <1>3, <1>4, <3>1, <3>2, <3>3, OutputKeeps
  <2> QED BY <1>7, <2>2, <2>3, <2>4 DEF create_copy, Advance, Added, Done
<1>8. CASE create_sums
  <2>1. job.cmd = "create" /\ job' = Idle /\ out' = [out EXCEPT !.sums = out.members, !.state = "closed"]
    BY <1>8 DEF create_sums, In, Done
  <2>2. /\ DOMAIN out' = DOMAIN out /\ out'.state = "closed" /\ out'.tree = out.tree /\ out'.listed = out.listed
        /\ out'.members = out.members /\ out'.sums = out.members
    BY <1>3, <2>1
  <2>3. SeedPart' /\ Commands'
    BY <1>1, <1>2, <1>5, <2>1, <2>2, NothingIs DEF SeedPart, Commands
  <2> QED BY <1>1, <1>3, <1>4, <2>1, <2>2, <2>3, NothingIs, OutputKeeps
<1> QED BY <1>6, <1>7, <1>8

(* Steps of the recovery suite, which touch the receipts only.               *)
LEMMA ReceiptsKeep ==
  ASSUME EvidenceInv, tool = "receipts", UNCHANGED <<tool, head, published, removed, work, out, dest>>,
         DOMAIN job' = {"cmd", "stage", "left", "read", "archive", "run"},
         job' = Idle \/ job'.cmd = "suite", events' \in Seq(Event), edits' \in Nat, ReceiptsPart'
  PROVE  EvidenceInv'
<1>1. Shapes' /\ Commands'
  BY NothingIs DEF EvidenceInv, Shapes, Commands
<1>2. Noticed(work)' /\ Noticed(head)'
  BY DEF EvidenceInv, Noticed
<1>3. ResultsPart' /\ BundlePart' /\ SeedPart'
  BY OnlyReceipts
<1> QED BY <1>1, <1>2, <1>3 DEF EvidenceInv

(* A suite starts, with the receipts file as it was left or a new one.       *)
LEMMA SuiteStart ==
  ASSUME EvidenceInv, suite_start
  PROVE  EvidenceInv'
<1>1. PICK n \in Nat : n = Events
  BY EvidenceAssumption DEF Events
<1>2. PICK l : l = [i \in 1..n |-> i]
  OBVIOUS
<1>3. l \in Seq(Nat) /\ Len(l) = n /\ \A i \in 1..n : l[i] = i
  <2>1. l \in [1..n -> Nat]
    BY <1>2
  <2> QED BY <1>2, <2>1
<1>4. /\ tool = "receipts" /\ edits' = edits + 1
      /\ job' = [Idle EXCEPT !.cmd = "suite", !.run = edits + 1, !.left = l]
      /\ events' \in {events, <<>>}
      /\ UNCHANGED <<tool, head, published, removed, work, out, dest, summary>>
  BY <1>1, <1>2 DEF suite_start, store
<1>5. edits \in Nat /\ events \in Seq(Event)
  BY DEF EvidenceInv, Shapes
<1>6. edits' \in Nat /\ events' \in Seq(Event)
  <2>1. edits' \in Nat
    BY <1>4, <1>5
  <2>2. events' = events \/ events' = <<>>
    BY <1>4
  <2>3. events' \in Seq(Event)
    BY <1>5, <2>2, EmptyList
  <2> QED BY <2>1, <2>3
<1>7. DOMAIN job' = DOMAIN Idle /\ job'.cmd = "suite" /\ job'.run = edits' /\ job'.left = l
  BY <1>4, NothingIs
<1>8. Recorded' = 0 /\ Events' = n
  BY <1>1, <1>3, <1>7 DEF Recorded, Events
<1>9. ReceiptsPart'
  <2>1. \A i \in 1..Len(l) : l[i] = 0 + i
    BY <1>3
  <2> QED BY <1>3, <1>4, <1>6, <1>7, <1>8, <2>1 DEF EvidenceInv, ReceiptsPart
<1> QED BY <1>4, <1>6, <1>7, <1>9, NothingIs, ReceiptsKeep

(* A stage records the start or the end of its work, or is refused.          *)
LEMMA RecordKeeps ==
  ASSUME EvidenceInv, record
  PROVE  EvidenceInv'
<1>1. /\ job.cmd = "suite" /\ job.stage # "failed" /\ job.left # <<>>
      /\ UNCHANGED <<tool, head, published, removed, work, out, dest, summary, edits>>
  BY DEF record, store
<1>2. /\ tool = "receipts" /\ DOMAIN job = {"cmd", "stage", "left", "read", "archive", "run"}
      /\ events \in Seq(Event) /\ edits \in Nat
  BY <1>1 DEF EvidenceInv, Shapes, Commands
<1>3. /\ job.run \in Nat /\ job.left \in Seq(Nat) /\ Len(job.left) <= Events
      /\ \A i \in 1..Len(job.left) : job.left[i] = Recorded + i
      /\ Recorded > 0 => Len(events) = Recorded /\ \A i \in 1..Len(events) : events[i].run = job.run
      /\ summary.complete => summary.runs = {summary.run}
  BY <1>1, <1>2 DEF EvidenceInv, ReceiptsPart
<1>4. CASE job' = [job EXCEPT !.stage = "failed"] /\ UNCHANGED events
  <2>1. DOMAIN job' = DOMAIN job /\ job'.cmd = "suite" /\ job'.stage = "failed" /\ job'.run = job.run
    BY <1>1, <1>2, <1>4
  <2>2. ReceiptsPart'
    BY <1>1, <1>2, <1>3, <2>1 DEF ReceiptsPart
  <2> QED BY <1>1, <1>2, <1>4, <2>1, <2>2, ReceiptsKeep
<1>5. CASE /\ read_events /\ Len(events) + 1 = At
           /\ Advance /\ events' = Append(events, [run |-> job.run, index |-> At])
  <2>1. PICK n \in Nat : n = Len(job.left) - 1
    <3>1. Len(job.left) \in Nat /\ Len(job.left) # 0
      BY <1>1, <1>3
    <3> QED BY <3>1
  <2>2. PICK e \in Nat : e = Events
    BY EvidenceAssumption DEF Events
  <2>3. PICK k \in Nat : k = Recorded /\ k = e - (n + 1)
    BY <1>3, <2>1, <2>2 DEF Recorded
  <2>4. PICK t \in Seq(Nat) : t = Tail(job.left) /\ Len(t) = n /\ \A i \in 1..n : t[i] = (k + 1) + i
    <3>1. Tail(job.left) \in Seq(Nat) /\ Len(Tail(job.left)) = n
      BY <1>1, <1>3, <2>1
    <3>2. \A i \in 1..n : Tail(job.left)[i] = job.left[i + 1]
      BY <1>1, <1>3, <2>1
    <3>3. \A i \in 1..n : i + 1 \in 1..Len(job.left)
      BY <1>3, <2>1
    <3>4. \A i \in 1..n : job.left[i + 1] = (k + 1) + i
      BY <1>3, <2>3, <3>3
    <3> QED BY <3>1, <3>2, <3>4
  <2>5. At = k + 1
    <3>1. At = job.left[1] /\ 1 \in 1..Len(job.left)
      BY <1>1, <1>3 DEF At
    <3> QED BY <1>3, <2>3, <3>1
  <2>6. Len(events) = k /\ \A i \in 1..k : events[i].run = job.run
    BY <1>2, <1>3, <1>5, <2>3, <2>5
  <2>7. PICK x \in Event : x = [run |-> job.run, index |-> k + 1]
    <3>1. job.run \in Nat /\ k + 1 \in Nat
      BY <1>3
    <3>2. [run |-> job.run, index |-> k + 1] \in Event
      BY <3>1 DEF Event
    <3> QED BY <3>2
  <2>8. events' = Append(events, x)
    BY <1>5, <2>5, <2>7
  <2>9. events' \in Seq(Event) /\ Len(events') = k + 1 /\ \A i \in 1..(k + 1) : events'[i].run = job.run
    BY <1>2, <2>6, <2>7, <2>8
  <2>10. /\ DOMAIN job' = DOMAIN job /\ job'.cmd = "suite" /\ job'.run = job.run /\ job'.left = t
    BY <1>1, <1>2, <1>5, <2>4 DEF Advance
  <2>11. Recorded' = k + 1 /\ Events' = e
    BY <2>2, <2>3, <2>4, <2>10 DEF Recorded, Events
  <2>12. Len(t) <= e
    BY <1>3, <2>1, <2>2, <2>4
  <2>13. ReceiptsPart'
    BY <1>1, <1>2, <1>3, <2>4, <2>9, <2>10, <2>11, <2>12 DEF ReceiptsPart
  <2> QED BY <1>1, <1>2, <2>9, <2>10, <2>13, ReceiptsKeep
<1> QED BY <1>4, <1>5 DEF record

(* A stage fails, and may tear its event.                                    *)
LEMMA SuiteFails ==
  ASSUME EvidenceInv, suite_fails
  PROVE  EvidenceInv'
<1>1. /\ job.cmd = "suite" /\ job' = [job EXCEPT !.stage = "failed"]
      /\ UNCHANGED <<tool, head, published, removed, work, out, dest, summary, edits>>
      /\ events' = events \/ events' = Append(events, [run |-> job.run, index |-> 0])
  BY DEF suite_fails, store
<1>2. /\ tool = "receipts" /\ DOMAIN job = {"cmd", "stage", "left", "read", "archive", "run"}
      /\ events \in Seq(Event) /\ edits \in Nat
  BY <1>1 DEF EvidenceInv, Shapes, Commands
<1>3. job.run \in Nat /\ (summary.complete => summary.runs = {summary.run})
  BY <1>1, <1>2 DEF EvidenceInv, ReceiptsPart
<1>4. events' \in Seq(Event)
  <2>1. [run |-> job.run, index |-> 0] \in Event
    BY <1>3 DEF Event
  <2> QED BY <1>1, <1>2, <2>1
<1>5. DOMAIN job' = DOMAIN job /\ job'.cmd = "suite" /\ job'.stage = "failed" /\ job'.run = job.run
  BY <1>1, <1>2
<1>6. ReceiptsPart'
  BY <1>1, <1>2, <1>3, <1>5 DEF ReceiptsPart
<1> QED BY <1>1, <1>2, <1>4, <1>5, <1>6, ReceiptsKeep

(* finalize calls a suite complete on events of its own only.                *)
LEMMA FinalizeKeeps ==
  ASSUME EvidenceInv, finalize
  PROVE  EvidenceInv'
<1>1. /\ job.cmd = "suite" /\ (job.stage = "failed" \/ job.left = <<>>) /\ job' = Idle
      /\ summary' = [run |-> job.run, complete |-> read_events /\ job.stage # "failed" /\ Len(events) = Events,
                     runs |-> {events[i].run : i \in DOMAIN events}]
      /\ UNCHANGED <<tool, head, published, removed, work, out, dest, events, edits>>
  BY DEF finalize, Done, store
<1>2. /\ tool = "receipts" /\ events \in Seq(Event) /\ edits \in Nat
  BY <1>1 DEF EvidenceInv, Shapes, Commands
<1>3. summary'.complete => summary'.runs = {summary'.run}
  <2>1. SUFFICES ASSUME job.stage # "failed" PROVE summary'.runs = {summary'.run}
    BY <1>1
  <2>2. PICK e \in Nat : e = Events /\ e > 0
    BY EvidenceAssumption DEF Events
  <2>3. Recorded = e
    BY <1>1, <2>1, <2>2 DEF Recorded
  <2>4. Len(events) = e /\ \A i \in 1..Len(events) : events[i].run = job.run
    BY <1>1, <1>2, <2>1, <2>2, <2>3 DEF EvidenceInv, ReceiptsPart
  <2>5. DOMAIN events = 1..e /\ 1 \in 1..e
    BY <1>2, <2>2, <2>4
  <2> QED BY <1>1, <2>4, <2>5
<1>4. ReceiptsPart'
  BY <1>1, <1>2, <1>3, NothingIs DEF ReceiptsPart
<1> QED BY <1>1, <1>2, <1>4, NothingIs, ReceiptsKeep

----------------------------------------------------------------------------
(* Nothing has been stored or removed before the first command.              *)
LEMMA EvidenceInit == Init => EvidenceInv
<1>1. SUFFICES ASSUME Init PROVE EvidenceInv
  OBVIOUS
<1>2. Original \in Content /\ Missing \in Content /\ Original.notices = 0 /\ Missing.notices = 0
  BY DEF Original, Missing, Content
<1>3. head \in [Tracked -> Content] /\ work = head /\ \A p \in Tracked : head[p].notices = 0
  BY <1>1, <1>2 DEF Init
<1>4. Noticed(work) /\ Noticed(head)
  BY <1>3 DEF Noticed
<1>5. /\ job = Idle /\ out = Absent /\ dest.state = "absent" /\ DOMAIN dest = {"state", "files"}
      /\ removed = {} /\ events = <<>> /\ ~summary.complete /\ edits = 0
  BY <1>1 DEF Init
<1>6. Shapes
  BY <1>1, <1>3, <1>5, NothingIs, EmptyList, EvidenceAssumption DEF Init, Shapes
<1>7. Commands /\ ResultsPart /\ SeedPart /\ ReceiptsPart
  BY <1>5, NothingIs DEF Commands, ResultsPart, SeedPart, ReceiptsPart
<1>8. BundlePart
  BY <1>5, NothingIs DEF BundlePart
<1> QED BY <1>4, <1>6, <1>7, <1>8 DEF EvidenceInv

(* Stuttering.                                                               *)
LEMMA EvidenceStutters ==
  ASSUME EvidenceInv, UNCHANGED vars
  PROVE  EvidenceInv'
<1>1. UNCHANGED <<tool, head, work, out, published, dest, removed, job, events, summary, edits>>
  BY DEF vars
<1>2. Shapes' /\ Commands'
  BY <1>1 DEF EvidenceInv, Shapes, Commands
<1>3. Noticed(work)' /\ Noticed(head)'
  BY <1>1 DEF EvidenceInv, Noticed
<1>4. Compacting => Compacting'
  BY <1>1, CompactingSame
<1>5. ResultsPart'
  BY <1>1, <1>4 DEF EvidenceInv, ResultsPart
<1>6. BundlePart' /\ SeedPart' /\ ReceiptsPart'
  BY <1>1 DEF EvidenceInv, BundlePart, SeedPart, ReceiptsPart, Recorded
<1> QED BY <1>2, <1>3, <1>5, <1>6 DEF EvidenceInv

(* The inductive invariant: of every command at each stage, what it has      *)
(* done, what is left to do, and what stayed as it was checked.              *)
THEOREM EvidenceInvariant == Spec => []EvidenceInv
<1>1. ASSUME EvidenceInv, [Next]_vars
      PROVE  EvidenceInv'
  <2>1. CASE (tool # "receipts" /\ Edit) \/ (tool = "results" /\ (Commit \/ Checkout)) \/ Discard \/ Crash
    BY <1>1, <2>1, EditKeeps, CommitKeeps, DiscardKeeps, CrashKeeps
  <2>2. CASE pack_start \/ pack_list \/ pack_add \/ pack_return
    BY <1>1, <2>2, PackSteps
  <2>3. CASE compact_start \/ compact_compare \/ compact_remove \/ compact_record \/ compact_notice
    BY <1>1, <2>3, CompactStart, CompactCompare, CompactRemove, CompactRecord, CompactNotice
  <2>4. CASE bundle_start \/ bundle_add \/ bundle_unlink \/ extract_start \/ extract_file
    BY <1>1, <2>4, BundleStart, BundleAdd, BundleUnlink, ExtractStart, ExtractFile
  <2>5. CASE create_start \/ create_copy \/ create_sums
    BY <1>1, <2>5, CreateSteps
  <2>6. CASE suite_start \/ record \/ suite_fails \/ finalize
    BY <1>1, <2>6, SuiteStart, RecordKeeps, SuiteFails, FinalizeKeeps
  <2>7. CASE UNCHANGED vars
    BY <1>1, <2>7, EvidenceStutters
  <2> QED BY <1>1, <2>1, <2>2, <2>3, <2>4, <2>5, <2>6, <2>7 DEF Next
<1> QED BY <1>1, EvidenceInit, PTL DEF Spec

(* Every file compact removed is in a published archive with the content the *)
(* commit had, and no report carries the notice twice, whatever was edited,  *)
(* committed, checked out or killed on the way.                              *)
THEOREM RemovedStaysArchived == Spec => []RemovedIsArchived
<1>1. EvidenceInv => RemovedIsArchived
  BY DEF EvidenceInv, ResultsPart, Noticed, RemovedIsArchived
<1> QED BY <1>1, EvidenceInvariant, PTL

(* What a verifier accepts is what was to be stored: an archive equals its   *)
(* revision, a bundle has every file its pack found, a release the compilers *)
(* its targets stated, a returned extraction equals its bundle, and a        *)
(* complete recovery summary rests on events of that run alone.              *)
THEOREM AcceptedStaysExact == Spec => []AcceptedIsExact
<1>1. ASSUME EvidenceInv PROVE AcceptedIsExact
  <2>1. tool = "results" /\ verify(out) /\ out.listed # NoFiles => out.members = out.tree
    BY <1>1 DEF EvidenceInv, ResultsPart, verify
  <2>2. ASSUME tool = "bundle", verify_bundle(out) PROVE DOMAIN out.members = DOMAIN out.tree
    <3>1. /\ DOMAIN out.listed = DOMAIN out.tree /\ DOMAIN out.tree \subseteq Tracked
          /\ DOMAIN out.members \subseteq DOMAIN out.tree
      BY <1>1, <2>2 DEF EvidenceInv, BundlePart
    <3>2. IsFiniteSet(DOMAIN out.tree)
      BY <3>1, TrackedIs, FS_Subset
    <3>3. Cardinality(DOMAIN out.tree) = Cardinality(DOMAIN out.members)
      BY <2>2, <3>1 DEF verify_bundle, records
    <3> QED BY <3>1, <3>2, <3>3, FS_Subset
  <2>3. ASSUME tool = "seed", NEW a \in Paths, verify_seed(out, a) PROVE out.members = out.tree
    <3>1. /\ DOMAIN out.listed = Paths /\ a \in DOMAIN out.members /\ out.sums = out.listed
      BY <2>3 DEF verify_seed
    <3>2. /\ out.state = "absent" => out = Absent
          /\ out.state # "absent" => out.tree = Stated
          /\ out.listed \in {NoFiles, Stated} /\ out.sums \in {NoFiles, out.members}
      BY <1>1, <2>3 DEF EvidenceInv, SeedPart
    <3>3. out.listed = Stated /\ out.sums = out.members
      BY <2>3, <3>1, <3>2, NothingIs
    <3>4. out.state # "absent"
      BY <3>1, <3>2, NothingIs
    <3> QED BY <3>1, <3>2, <3>3, <3>4
  <2>4. dest.state = "complete" => dest.files = out.members
    BY <1>1 DEF EvidenceInv, BundlePart
  <2>5. summary.complete => summary.runs = {summary.run}
    BY <1>1 DEF EvidenceInv, ReceiptsPart
  <2> QED BY <2>1, <2>2, <2>3, <2>4, <2>5 DEF AcceptedIsExact
<1> QED BY <1>1, EvidenceInvariant, PTL
=============================================================================
