------------------------- MODULE ManagedHeapProofs -------------------------
(***************************************************************************)
(* Proofs about ManagedHeap, for every number of objects, registers and    *)
(* nested calls.  The inductive invariant says where each live register of *)
(* each active function is published, and that no frame's slots reach into *)
(* those of the frame above.                                               *)
(***************************************************************************)
EXTENDS ManagedHeap, FiniteSetTheorems, FunctionTheorems, SequenceTheorems, TLAPS

---------------------------------------------------------------------------
(* Operators: ranks, sequences, marking and storage.                       *)

\* The constants that are numbers.
LEMMA ConstantTypes ==
  /\ MaxDepth \in Nat \ {0} /\ MaxCapacity \in Nat \ {0} /\ MinCapacity \in Nat \ {0}
  /\ GrowthFactor \in Nat \ {0} /\ RootsInitial \in Nat \ {0}
  /\ MinTarget \in Nat /\ Slack \in Nat
BY ManagedHeapAssumption

\* Every set of registers is finite and its cardinality is a number.
LEMMA RegsFinite ==
  ASSUME NEW S \in SUBSET Regs
  PROVE  IsFiniteSet(S) /\ Cardinality(S) \in Nat /\ Cardinality(S) <= Cardinality(Regs)
BY ManagedHeapAssumption, FS_Subset, FS_CardinalityType

\* A register's slot lies inside its root list.
LEMMA PositionRange ==
  ASSUME NEW S \in SUBSET Regs, NEW r \in S
  PROVE  Position(S, r) \in 1..Cardinality(S)
<1> DEFINE P == {x \in S : x <= r}
<1>1. r \in P
  BY ManagedHeapAssumption
<1>2. IsFiniteSet(S) /\ Cardinality(S) \in Nat
  BY RegsFinite
<1>3. IsFiniteSet(P) /\ Cardinality(P) \in Nat /\ Cardinality(P) <= Cardinality(S)
  BY <1>2, FS_Subset, FS_CardinalityType
<1>4. Cardinality(P) # 0
  BY <1>1, <1>3, FS_EmptySet
<1> QED BY <1>2, <1>3, <1>4 DEF Position

\* Two registers of a root list have different slots.
LEMMA PositionInjective ==
  ASSUME NEW S \in SUBSET Regs, NEW r \in S, NEW s \in S, Position(S, r) = Position(S, s)
  PROVE  r = s
<1> SUFFICES ASSUME NEW a \in S, NEW b \in S, a < b, Position(S, a) = Position(S, b)
             PROVE  FALSE
  BY ManagedHeapAssumption
<1> DEFINE A == {x \in S : x <= a}
           B == {x \in S : x <= b}
<1>0. \A x \in S : x \in Nat
  BY ManagedHeapAssumption
<1>1. A \subseteq B /\ b \in B /\ b \notin A
  BY <1>0
<1>2. IsFiniteSet(B)
  BY RegsFinite
<1> QED BY <1>1, <1>2, FS_Subset DEF Position

\* The slots of a root list are exactly 1..Cardinality(S).
LEMMA PositionOnto ==
  ASSUME NEW S \in SUBSET Regs, NEW k \in 1..Cardinality(S)
  PROVE  \E r \in S : Position(S, r) = k
<1> DEFINE n == Cardinality(S)
           f == [r \in S |-> Position(S, r)]
<1>1. IsFiniteSet(S) /\ n \in Nat
  BY RegsFinite
<1>2. f \in [S -> 1..n]
  BY PositionRange
<1>3. \A a, b \in S : f[a] = f[b] => a = b
  BY PositionInjective
<1>4. f \in Injection(S, 1..n)
  BY <1>2, <1>3, Fun_IsInj
<1>5. IsFiniteSet(1..n) /\ Cardinality(1..n) = n
  BY <1>1, FS_Interval
<1>6. f \in Surjection(S, 1..n)
  BY <1>4, <1>5, FS_Injection
<1> QED BY <1>6 DEF Surjection

\* Lists with a common prefix up to r give r the same slot.
LEMMA CommonPosition ==
  ASSUME NEW P \in SUBSET Regs, NEW C \in SUBSET Regs, NEW r \in C, CommonPrefix(P, C, r)
  PROVE  r \in P /\ Position(P, r) = Position(C, r)
BY ManagedHeapAssumption DEF CommonPrefix, Position

\* A function on 1..n is a sequence of length n.
LEMMA FunctionIsSeq ==
  ASSUME NEW S, NEW n \in Nat, NEW f \in [1..n -> S]
  PROVE  f \in Seq(S) /\ Len(f) = n
<1>1. f \in Seq(S)
  BY SeqDef
<1>2. DOMAIN f = 1..Len(f) /\ Len(f) \in Nat
  BY <1>1, LenProperties
<1> QED BY <1>1, <1>2

\* What the roots name is marked.
LEMMA MarkedRoots ==
  ASSUME NEW R \in SUBSET Objects
  PROVE  R \subseteq Marked(R)
BY DEF Marked

\* What a marked object refers to is marked.
LEMMA MarkedClosed ==
  ASSUME NEW R \in SUBSET Objects, NEW o \in Marked(R), NEW p \in Succ(o), p \in Objects
  PROVE  p \in Marked(R)
BY DEF Marked, Closed

\* More roots mark more.
LEMMA MarkedMonotone ==
  ASSUME NEW R, NEW T, R \subseteq T
  PROVE  Marked(R) \subseteq Marked(T)
BY DEF Marked

\* Without roots nothing is marked.
LEMMA MarkedEmpty == Marked({}) = {}
<1>1. {} \in SUBSET Objects /\ Closed({})
  BY DEF Closed
<1> QED BY <1>1 DEF Marked

\* Object sizes are numbers.
LEMMA SizeType ==
  ASSUME NEW c \in Cell
  PROVE  Size(c) \in Nat
BY DEF Size, Cell

\* Storage of one object.
LEMMA StorageOne ==
  ASSUME NEW c \in [Objects -> Cell], NEW o \in Objects
  PROVE  IsFiniteSet(Storage(c, {o})) /\ Cardinality(Storage(c, {o})) = Size(c[o])
<1> DEFINE n == Size(c[o])
<1>1. n \in Nat
  BY SizeType
<1>2. Storage(c, {o}) = {o} \X (1..n)
  BY DEF Storage
<1>3. IsFiniteSet({o}) /\ Cardinality({o}) = 1
  BY FS_Singleton
<1>4. IsFiniteSet(1..n) /\ Cardinality(1..n) = n
  BY <1>1, FS_Interval
<1>5. IsFiniteSet({o} \X (1..n)) /\ Cardinality({o} \X (1..n)) = 1 * n
  BY ZenonT(30), <1>3, <1>4, FS_Product
<1> HIDE DEF n
<1>6. 1 * n = n
  BY <1>1
<1> QED BY <1>2, <1>5, <1>6 DEF n

\* A set of objects occupies a finite number of bytes.
LEMMA StorageFinite ==
  ASSUME NEW c \in [Objects -> Cell], NEW S \in SUBSET Objects
  PROVE  IsFiniteSet(Storage(c, S)) /\ Cardinality(Storage(c, S)) \in Nat
<1> DEFINE f == [o \in S |-> {o} \X (1..Size(c[o]))]
           T == {{o} \X (1..Size(c[o])) : o \in S}
<1>1. IsFiniteSet(S)
  BY ManagedHeapAssumption, FS_Subset
<1>2. f \in Surjection(S, T)
  BY DEF Surjection
<1>3. IsFiniteSet(T)
  BY <1>1, <1>2, FS_Surjection
<1>4. \A t \in T : IsFiniteSet(t)
  <2> TAKE t \in T
  <2>1. PICK o \in S : t = {o} \X (1..Size(c[o]))
    OBVIOUS
  <2>2. t = Storage(c, {o})
    BY <2>1 DEF Storage
  <2> QED BY <2>2, StorageOne
<1>5. IsFiniteSet(UNION T)
  BY <1>3, <1>4, FS_UNION
<1>6. Storage(c, S) = UNION T
  BY DEF Storage
<1> QED BY <1>5, <1>6, FS_CardinalityType

\* Disjoint sets of objects share no byte.
LEMMA StorageSplit ==
  ASSUME NEW c \in [Objects -> Cell], NEW S \in SUBSET Objects, NEW T \in SUBSET Objects,
         S \cap T = {}
  PROVE  Cardinality(Storage(c, S \cup T)) = Cardinality(Storage(c, S)) + Cardinality(Storage(c, T))
<1>1. Storage(c, S \cup T) = Storage(c, S) \cup Storage(c, T)
  BY DEF Storage
<1>2. Storage(c, S) \cap Storage(c, T) = {}
  BY DEF Storage
<1>3. /\ IsFiniteSet(Storage(c, S)) /\ Cardinality(Storage(c, S)) \in Nat
      /\ IsFiniteSet(Storage(c, T)) /\ Cardinality(Storage(c, T)) \in Nat
  BY StorageFinite
<1> DEFINE A == Storage(c, S)
           B == Storage(c, T)
<1> HIDE DEF A, B
<1>4. Cardinality(A \cup B) = Cardinality(A) + Cardinality(B) - Cardinality(A \cap B)
  BY <1>3, FS_Union DEF A, B
<1>5. Cardinality(A \cap B) = 0
  BY <1>2, FS_EmptySet DEF A, B
<1>6. Cardinality(A \cup B) = Cardinality(A) + Cardinality(B)
  BY <1>3, <1>4, <1>5 DEF A, B
<1> QED BY <1>1, <1>6 DEF A, B

\* Objects of unchanged size occupy the same bytes.
LEMMA StorageSame ==
  ASSUME NEW c, NEW d, NEW S, \A o \in S : Size(c[o]) = Size(d[o])
  PROVE  Storage(c, S) = Storage(d, S)
BY DEF Storage

---------------------------------------------------------------------------
(* The inductive invariant.                                                *)

\* Objects that the collector does not scan hold no reference.
Content ==
  \A o \in heap :
    /\ cell[o].kind = "string" => cell[o].refs = <<>>
    /\ cell[o].kind = "scalars" => \A i \in DOMAIN cell[o].refs : cell[o].refs[i] = Nil
    /\ cell[o].kind # "free"

\* The slots of each frame lie inside the buffer and below the frames above it.
FramesNested ==
  /\ \A d \in 1..depth : base[d] + Cardinality(prev[d]) <= Len(temp)
  /\ \A e \in 1..depth : \A d \in 1..(e - 1) : base[d] + Cardinality(prev[d]) <= base[e]

\* A register published in the current block is still in its slot.
SlotsPublished ==
  \A d \in 1..depth : \A r \in prev[d] :
    env[d][r] # Dead => temp[base[d] + Position(prev[d], r)] = env[d][r]

\* A suspended caller has published all its live registers, and the register
\* that awaits the result is none of them.
Suspended ==
  \A d \in 1..(depth - 1) :
    /\ dest[d] \in Regs \ prev[d]
    /\ \A r \in Regs : env[d][r] # Dead => r \in prev[d]

\* Every frame has room for the peak of its root plan.
Room ==
  /\ Len(temp) <= capacity
  /\ \A d \in 1..depth : base[d] + Cardinality(Regs) <= capacity

Frames == FramesNested /\ SlotsPublished /\ Suspended

IInv ==
  /\ TypeOK /\ NoDangling /\ Content /\ Room
  /\ Accounted /\ FinishReleasesAll
  /\ Running => Frames

---------------------------------------------------------------------------
(* Safe points: what is published, and what a collection keeps.            *)

\* The published list: the frames below are untouched, and each live register
\* of the running function is in the slot of its rank.
LEMMA PublishedSlots ==
  ASSUME TypeOK, NoDangling, Frames
  PROVE  /\ Published \in Seq(Ref)
         /\ Len(Published) = base[depth] + Cardinality(Live)
         /\ \A k \in 1..base[depth] : Published[k] = temp[k]
         /\ \A r \in Live : Published[base[depth] + Position(Live, r)] = env[depth][r]
         /\ \A k \in 1..Len(Published) : Valid(Published[k])
<1> DEFINE b == base[depth]
           n == Cardinality(Live)
           value(r) == IF CommonPrefix(prev[depth], Live, r) THEN Slot(b + Position(Live, r))
                       ELSE env[depth][r]
           reg(k) == CHOOSE r \in Live : Position(Live, r) = k - b
<1>1. /\ depth \in 1..MaxDepth /\ b \in Nat /\ temp \in Seq(Ref)
      /\ env[depth] \in [Regs -> Ref \cup {Dead}] /\ prev[depth] \in SUBSET Regs
  BY DEF TypeOK, Depths
<1>2. Live \in SUBSET Regs /\ n \in Nat
  BY RegsFinite DEF Live
<1>3. b + Cardinality(prev[depth]) <= Len(temp) /\ Len(temp) \in Nat
  BY <1>1, ManagedHeapAssumption, LenProperties DEF Frames, FramesNested
<1>4. Cardinality(prev[depth]) \in Nat
  BY <1>1, RegsFinite
<1>5. \A r \in Live : value(r) = env[depth][r]
  <2> SUFFICES ASSUME NEW r \in Live, CommonPrefix(prev[depth], Live, r)
               PROVE  Slot(b + Position(Live, r)) = env[depth][r]
    OBVIOUS
  <2>1. r \in prev[depth] /\ Position(prev[depth], r) = Position(Live, r)
    BY <1>1, <1>2, CommonPosition
  <2>2. Position(prev[depth], r) \in 1..Cardinality(prev[depth])
    BY <1>1, <2>1, PositionRange
  <2>3. temp[b + Position(Live, r)] = env[depth][r]
    BY <1>1, <2>1, ManagedHeapAssumption DEF Frames, SlotsPublished, Live
  <2> QED BY <1>1, <1>3, <1>4, <2>1, <2>2, <2>3 DEF Slot
<1>6. \A k \in (b + 1)..(b + n) : reg(k) \in Live /\ Position(Live, reg(k)) = k - b
  <2> TAKE k \in (b + 1)..(b + n)
  <2>1. k - b \in 1..n
    BY <1>1, <1>2
  <2>2. \E r \in Live : Position(Live, r) = k - b
    BY <1>2, <2>1, PositionOnto
  <2> QED BY <2>2
<1>7. Published = [k \in 1..(b + n) |-> IF k <= b THEN Slot(k) ELSE value(reg(k))]
  BY DEF Published
<1>8. \A k \in 1..b : k <= Len(temp) /\ Slot(k) = temp[k] /\ temp[k] \in Ref /\ Valid(temp[k])
  BY <1>1, <1>3, <1>4, ElementOfSeq DEF Slot, NoDangling, TracedValid
<1>9. \A r \in Live : env[depth][r] \in Ref /\ Valid(env[depth][r])
  BY <1>1 DEF Live, NoDangling, RegistersValid
<1> HIDE DEF b, n, value, reg
<1>10. \A k \in 1..(b + n) : Published[k] = IF k <= b THEN temp[k] ELSE env[depth][reg(k)]
  BY <1>1, <1>2, <1>5, <1>6, <1>7, <1>8 DEF b
<1>11. \A k \in 1..(b + n) : Published[k] \in Ref /\ Valid(Published[k])
  <2> TAKE k \in 1..(b + n)
  <2>1. CASE k <= b
    BY <1>1, <1>8, <1>10, <2>1 DEF b
  <2>2. CASE ~(k <= b)
    <3>1. k \in (b + 1)..(b + n)
      BY <1>1, <1>2, <2>2 DEF b
    <3>2. reg(k) \in Live
      BY <1>6, <3>1
    <3> QED BY <1>9, <1>10, <2>2, <3>2
  <2> QED BY <2>1, <2>2
<1>12. Published \in [1..(b + n) -> Ref] /\ b + n \in Nat
  <2>1. b + n \in Nat
    BY <1>1, <1>2 DEF b
  <2>2. DOMAIN Published = 1..(b + n) /\ Published = [k \in DOMAIN Published |-> Published[k]]
    BY <1>7
  <2> QED BY <1>11, <2>1, <2>2
<1>13. Published \in Seq(Ref) /\ Len(Published) = b + n
  BY <1>12, FunctionIsSeq
<1>14. ASSUME NEW r \in Live
       PROVE  Published[b + Position(Live, r)] = env[depth][r]
  <2>1. Position(Live, r) \in 1..n
    BY <1>2, PositionRange DEF n
  <2> DEFINE k == b + Position(Live, r)
  <2>2. k \in (b + 1)..(b + n) /\ k - b = Position(Live, r) /\ k \in 1..(b + n) /\ ~(k <= b)
    BY <1>1, <1>2, <2>1 DEF b
  <2> HIDE DEF k
  <2>3. reg(k) \in Live /\ Position(Live, reg(k)) = k - b
    BY <1>6, <2>2
  <2>4. Position(Live, reg(k)) = Position(Live, r)
    BY <2>2, <2>3
  <2>5. reg(k) = r
    BY <1>2, <2>3, <2>4, PositionInjective
  <2> QED BY <1>10, <2>2, <2>5 DEF k
<1> QED BY <1>1, <1>2, <1>10, <1>11, <1>13, <1>14 DEF b, n

\* Every live register of every active function is a root.
LEMMA PublishedCovers ==
  ASSUME TypeOK, NoDangling, Frames, NEW d \in 1..depth, NEW r \in Regs, env[d][r] \in Objects
  PROVE  \E k \in 1..Len(Published) : Published[k] = env[d][r]
<1>1. env[d][r] # Dead
  BY ManagedHeapAssumption
<1>2. /\ depth \in 1..MaxDepth /\ d \in Depths /\ base[d] \in Nat /\ base[depth] \in Nat
      /\ prev[d] \in SUBSET Regs
  BY ConstantTypes DEF TypeOK, Depths
<1>3. Live \in SUBSET Regs /\ Cardinality(Live) \in Nat
  BY RegsFinite DEF Live
<1>4. CASE d = depth
  <2>1. r \in Live
    BY <1>1, <1>4 DEF Live
  <2>2. Position(Live, r) \in 1..Cardinality(Live)
    BY <1>3, <2>1, PositionRange
  <2>3. Published[base[depth] + Position(Live, r)] = env[d][r]
    BY <1>4, <2>1, PublishedSlots
  <2>4. base[depth] + Position(Live, r) \in 1..Len(Published)
    BY <1>2, <1>3, <2>2, PublishedSlots
  <2> QED BY <2>3, <2>4
<1>5. CASE d # depth
  <2>1. d \in 1..(depth - 1)
    BY <1>2, <1>5
  <2>2. r \in prev[d]
    BY <1>1, <2>1 DEF Frames, Suspended
  <2>3. Position(prev[d], r) \in 1..Cardinality(prev[d]) /\ Cardinality(prev[d]) \in Nat
    BY <1>2, <2>2, PositionRange, RegsFinite
  <2>4. base[d] + Cardinality(prev[d]) <= base[depth]
    BY <1>2, <2>1 DEF Frames, FramesNested
  <2>5. base[d] + Position(prev[d], r) \in 1..base[depth]
    BY <1>2, <2>3, <2>4
  <2>6. temp[base[d] + Position(prev[d], r)] = env[d][r]
    BY <1>1, <2>2 DEF Frames, SlotsPublished
  <2>7. Published[base[d] + Position(prev[d], r)] = env[d][r]
    BY <2>5, <2>6, PublishedSlots
  <2>8. base[depth] <= Len(Published) /\ Len(Published) \in Nat
    BY <1>2, <1>3, PublishedSlots
  <2>9. base[d] + Position(prev[d], r) \in 1..Len(Published)
    BY <1>2, <2>5, <2>8
  <2> QED BY <2>7, <2>9
<1> QED BY <1>4, <1>5

\* The references of an allocated object are objects or nil.
LEMMA RefsType ==
  ASSUME TypeOK, NEW o \in Objects, NEW i \in DOMAIN cell[o].refs
  PROVE  cell[o].refs[i] \in Ref
<1>1. cell[o].refs \in Seq(Ref)
  BY DEF TypeOK, Cell
<1>2. DOMAIN cell[o].refs = 1..Len(cell[o].refs)
  BY <1>1, LenProperties
<1> QED BY <1>1, <1>2, ElementOfSeq

\* A collection keeps the roots and what the kept objects refer to, and
\* subtracts from the account exactly the storage it releases.
LEMMA CollectionKeeps ==
  ASSUME TypeOK, NoDangling, Content, Accounted,
         NEW tmp \in Seq(Ref), \A k \in 1..Len(tmp) : Valid(tmp[k]),
         NEW gc, gc \in {Collected(RootSet(tmp)), Uncollected}
  PROVE  /\ gc.heap \subseteq heap
         /\ RootSet(tmp) \subseteq gc.heap
         /\ \A o \in gc.heap : \A i \in DOMAIN cell[o].refs : cell[o].refs[i] \in gc.heap \cup {Nil}
         /\ gc.bytes = Cardinality(Storage(cell, gc.heap))
         /\ gc.bytes \in Int /\ gc.target \in Int
<1> DEFINE R == RootSet(tmp)
<1>1. DOMAIN tmp = 1..Len(tmp)
  BY LenProperties
<1>2. R \subseteq heap
  <2>1. \A k \in DOMAIN tmp : tmp[k] \in heap \cup {Nil}
    BY <1>1 DEF Valid
  <2>2. \A g \in DOMAIN globals : globals[g] \in heap \cup {Nil}
    BY DEF NoDangling, TracedValid, Valid, TypeOK
  <2> QED BY <2>1, <2>2, ManagedHeapAssumption DEF RootSet, Range
<1>3. CASE gc = Uncollected
  <2>1. \A o \in heap : \A i \in DOMAIN cell[o].refs : cell[o].refs[i] \in heap \cup {Nil}
    BY DEF NoDangling, TracedValid, Valid
  <2> QED BY <1>2, <1>3, <2>1 DEF Uncollected, Accounted, TypeOK
<1>4. CASE gc = Collected(R)
  <2> DEFINE kept == heap \cap Marked(R)
             gone == heap \ kept
             live == bytes - Cardinality(Storage(cell, gone))
  <2>1. gc.heap = kept /\ gc.bytes = live /\ gc.target = NextTarget(live)
    BY <1>4 DEF Collected
  <2>2. R \subseteq kept
    BY <1>2, MarkedRoots DEF TypeOK
  <2>3. ASSUME NEW o \in kept, NEW i \in DOMAIN cell[o].refs, cell[o].refs[i] # Nil
        PROVE  cell[o].refs[i] \in kept
    <3> DEFINE v == cell[o].refs[i]
    <3>1. v \in heap /\ o \in Objects /\ v \in Objects
      BY <2>3 DEF NoDangling, TracedValid, Valid, TypeOK
    <3>2. cell[o].kind \in {"fixed", "array", "scalars", "string", "free"}
      BY <3>1 DEF TypeOK, Cell
    <3>3. cell[o].kind \notin {"free", "scalars"}
      BY <2>3 DEF Content
    <3>4. cell[o].kind # "string"
      BY <2>3 DEF Content
    <3>5. v \in Succ(o)
      BY <2>3, <3>2, <3>3, <3>4 DEF Succ, Range
    <3>6. v \in Marked(R)
      BY <1>2, <3>1, <3>5, MarkedClosed DEF TypeOK
    <3> QED BY <3>1, <3>6
  <2>4. /\ kept \in SUBSET Objects /\ gone \in SUBSET Objects
        /\ kept \cap gone = {} /\ kept \cup gone = heap
    BY DEF TypeOK
  <2>5. cell \in [Objects -> Cell]
    BY DEF TypeOK
  <2>6. /\ Cardinality(Storage(cell, kept)) \in Nat
        /\ Cardinality(Storage(cell, gone)) \in Nat
    BY <2>4, <2>5, StorageFinite
  <2> HIDE DEF kept, gone
  <2>7. Cardinality(Storage(cell, kept \cup gone)) =
          Cardinality(Storage(cell, kept)) + Cardinality(Storage(cell, gone))
    BY <2>4, <2>5, StorageSplit
  <2>8. live = Cardinality(Storage(cell, kept)) /\ live \in Int
    <3>1. bytes = Cardinality(Storage(cell, kept \cup gone))
      BY <2>4 DEF Accounted
    <3> QED BY <2>6, <2>7, <3>1
  <2>9. NextTarget(live) \in Int
    BY <2>8, ConstantTypes DEF NextTarget
  <2> QED BY <2>1, <2>2, <2>3, <2>8, <2>9 DEF kept
<1> QED BY <1>3, <1>4

\* What a safe point finds and leaves: with the live registers published, a
\* collection releases nothing that a register, a slot or a global holds.
LEMMA SafePoint ==
  ASSUME IInv, Running, NEW additional, NEW gc,
         gc \in {MaybeCollect(additional, Published), Uncollected}
  PROVE  /\ gc.heap \subseteq heap
         /\ \A d \in 1..depth : \A r \in Regs : env[d][r] \in gc.heap \cup {Nil, Dead}
         /\ \A k \in 1..Len(Published) : Published[k] \in gc.heap \cup {Nil}
         /\ \A g \in Globals : globals[g] \in gc.heap \cup {Nil}
         /\ \A o \in gc.heap : \A i \in DOMAIN cell[o].refs : cell[o].refs[i] \in gc.heap \cup {Nil}
         /\ gc.bytes = Cardinality(Storage(cell, gc.heap))
         /\ gc.bytes \in Int /\ gc.target \in Int
<1> DEFINE R == RootSet(Published)
<1>1. TypeOK /\ NoDangling /\ Content /\ Accounted /\ Frames
  BY DEF IInv
<1>2. Published \in Seq(Ref) /\ \A k \in 1..Len(Published) : Valid(Published[k])
  BY <1>1, PublishedSlots
<1>3. gc \in {Collected(R), Uncollected}
  BY DEF MaybeCollect
<1>4. /\ gc.heap \subseteq heap
      /\ R \subseteq gc.heap
      /\ \A o \in gc.heap : \A i \in DOMAIN cell[o].refs : cell[o].refs[i] \in gc.heap \cup {Nil}
      /\ gc.bytes = Cardinality(Storage(cell, gc.heap))
      /\ gc.bytes \in Int /\ gc.target \in Int
  BY <1>1, <1>2, <1>3, CollectionKeeps
<1>5. DOMAIN Published = 1..Len(Published)
  BY <1>2, LenProperties
<1>6. \A k \in 1..Len(Published) : Published[k] \in Objects => Published[k] \in R
  BY <1>5 DEF RootSet, Range
<1>7. \A k \in 1..Len(Published) : Published[k] \in R \cup {Nil}
  BY <1>2, <1>6, ElementOfSeq DEF Ref
<1>8. \A d \in 1..depth : \A r \in Regs : env[d][r] \in R \cup {Nil, Dead}
  <2> TAKE d \in 1..depth
  <2> TAKE r \in Regs
  <2>1. env[d][r] \in Objects \cup {Nil, Dead}
    BY <1>1, ConstantTypes DEF TypeOK, Depths, Ref
  <2>2. CASE env[d][r] \in Objects
    <3>1. PICK k \in 1..Len(Published) : Published[k] = env[d][r]
      BY <1>1, <2>2, PublishedCovers
    <3> QED BY <1>6, <2>2, <3>1
  <2> QED BY <2>1, <2>2
<1>9. \A g \in Globals : globals[g] \in R \cup {Nil}
  BY <1>1 DEF TypeOK, RootSet, Range, Ref
<1> QED BY <1>4, <1>7, <1>8, <1>9

---------------------------------------------------------------------------
(* Steps preserve the invariant.                                           *)

\* Writing references to valid values keeps the heap consistent.
CellsKept ==
  /\ cell' \in [Objects -> Cell]
  /\ \A o \in heap :
       /\ cell'[o].kind = cell[o].kind /\ cell'[o].extent = cell[o].extent
       /\ \A i \in DOMAIN cell'[o].refs : cell'[o].refs[i] \in heap \cup {Nil}
       /\ cell'[o].kind \in {"string", "scalars"} => cell'[o] = cell[o]

\* A step that writes no object keeps them all.
LEMMA CellsUnchanged ==
  ASSUME IInv, cell' = cell
  PROVE  CellsKept
BY DEF IInv, CellsKept, TypeOK, NoDangling, TracedValid, Valid

\* Storing references changes neither the account nor what is scanned.
LEMMA HeapSteady ==
  ASSUME IInv, CellsKept, UNCHANGED <<heap, bytes>>
  PROVE  /\ Content' /\ Accounted'
         /\ \A o \in heap' : \A i \in DOMAIN cell'[o].refs : Valid(cell[o].refs[i])'
<1>1. \A o \in heap : Size(cell'[o]) = Size(cell[o])
  BY DEF CellsKept, Size
<1>2. Storage(cell', heap) = Storage(cell, heap)
  BY <1>1, StorageSame
<1>3. Accounted'
  BY <1>2 DEF IInv, Accounted
<1>4. Content'
  BY DEF IInv, Content, CellsKept
<1> QED BY <1>3, <1>4 DEF CellsKept, Valid

\* A step of the running function that changes at most one register and the
\* globals, to valid values, and calls nothing.
LEMMA RegisterStep ==
  ASSUME IInv, Running, CellsKept, NEW r \in Regs, NEW v \in heap \cup {Nil, Dead},
         r \in prev[depth] => v \in {Dead, env[depth][r]},
         env' = [env EXCEPT ![depth][r] = v],
         globals' \in [Globals -> heap \cup {Nil}],
         UNCHANGED <<heap, bytes, target, rootVars, depth, base, prev, dest, status>>
  PROVE  IInv'
<1> USE DEF rootVars
<1>1. TypeOK /\ NoDangling /\ Frames /\ Room
  BY DEF IInv
<1>2. depth \in Depths /\ env \in [Depths -> [Regs -> Ref \cup {Dead}]]
  BY <1>1 DEF TypeOK
<1>3. v \in Ref \cup {Dead}
  BY <1>1 DEF TypeOK, Ref
<1>4. env' \in [Depths -> [Regs -> Ref \cup {Dead}]]
  BY <1>2, <1>3
<1>5. TypeOK'
  BY <1>1, <1>4 DEF TypeOK, CellsKept, Ref
<1>6. \A d \in 1..depth : \A x \in Regs :
        env'[d][x] = IF d = depth /\ x = r THEN v ELSE env[d][x]
  BY <1>2, ConstantTypes DEF Depths
<1>7. NoDangling'
  <2>1. RegistersValid'
    BY <1>1, <1>6 DEF NoDangling, RegistersValid, Valid
  <2>2. TracedValid'
    BY <1>1, HeapSteady DEF NoDangling, TracedValid, Valid
  <2> QED BY <2>1, <2>2 DEF NoDangling
<1>8. Frames'
  <2>1. FramesNested'
    BY <1>1 DEF Frames, FramesNested
  <2>2. prev \in [Depths -> SUBSET Regs] /\ depth \in 1..MaxDepth
    BY <1>1 DEF TypeOK, Depths
  <2>3. SlotsPublished'
    <3> SUFFICES ASSUME NEW d \in 1..depth, NEW x \in prev[d], env'[d][x] # Dead
                 PROVE  temp[base[d] + Position(prev[d], x)] = env'[d][x]
      BY DEF SlotsPublished, Position
    <3>1. x \in Regs
      BY <2>2, ConstantTypes DEF Depths
    <3>2. env'[d][x] = env[d][x]
      BY <1>6, <3>1
    <3> QED BY <1>1, <3>2 DEF Frames, SlotsPublished
  <2>4. Suspended'
    <3>1. \A d \in 1..(depth - 1) : d \in 1..depth /\ d # depth
      BY <2>2, ConstantTypes
    <3> QED BY <1>1, <1>6, <3>1 DEF Frames, Suspended
  <2> QED BY <2>1, <2>3, <2>4 DEF Frames
<1>9. Room'
  BY <1>1 DEF Room
<1>10. FinishReleasesAll'
  BY DEF Running, FinishReleasesAll
<1> QED BY <1>5, <1>7, <1>8, <1>9, <1>10, HeapSteady DEF IInv

\* Types of what an instruction of the running function looks at.
LEMMA RunningTypes ==
  ASSUME IInv
  PROVE  /\ depth \in Depths /\ depth \in 1..depth
         /\ env[depth] \in [Regs -> Ref \cup {Dead}]
         /\ \A r \in Regs : env[depth][r] \in heap \cup {Nil, Dead}
         /\ Values \subseteq heap \cup {Nil}
         /\ globals \in [Globals -> heap \cup {Nil}]
<1>1. TypeOK /\ NoDangling
  BY DEF IInv
<1>2. depth \in Depths /\ depth \in 1..depth
  BY <1>1, ConstantTypes DEF TypeOK, Depths
<1>3. env[depth] \in [Regs -> Ref \cup {Dead}]
  BY <1>1, <1>2 DEF TypeOK
<1>4. \A r \in Regs : env[depth][r] \in heap \cup {Nil, Dead}
  BY <1>1, <1>2 DEF NoDangling, RegistersValid, Valid
<1>5. globals \in [Globals -> heap \cup {Nil}]
  BY <1>1 DEF TypeOK, NoDangling, TracedValid, Valid
<1> QED BY <1>2, <1>3, <1>4, <1>5 DEF Values, Live

\* The content of an object held in a register.
LEMMA HeldTypes ==
  ASSUME IInv, NEW a \in Regs, env[depth][a] \in Objects
  PROVE  /\ env[depth][a] \in heap
         /\ cell[env[depth][a]] \in Cell
         /\ cell[env[depth][a]].refs \in Seq(heap \cup {Nil})
<1> DEFINE o == env[depth][a]
<1>1. TypeOK /\ NoDangling
  BY DEF IInv
<1>2. o \in heap
  BY RunningTypes, ManagedHeapAssumption
<1>3. cell[o] \in Cell /\ cell[o].refs \in Seq(Ref)
  BY <1>1, <1>2 DEF TypeOK, Cell
<1>4. Len(cell[o].refs) \in Nat /\ DOMAIN cell[o].refs = 1..Len(cell[o].refs)
      /\ cell[o].refs \in [1..Len(cell[o].refs) -> Ref]
  BY <1>3, LenProperties
<1>5. \A i \in DOMAIN cell[o].refs : cell[o].refs[i] \in heap \cup {Nil}
  BY <1>1, <1>2 DEF NoDangling, TracedValid, Valid
<1>6. cell[o].refs \in [1..Len(cell[o].refs) -> heap \cup {Nil}]
  BY <1>4, <1>5
<1>7. cell[o].refs \in Seq(heap \cup {Nil})
  BY <1>4, <1>6, FunctionIsSeq
<1> QED BY <1>2, <1>3, <1>7

\* A load defines a register with a value that is already reachable.
LEMMA LoadStep ==
  ASSUME IInv, NEW r \in Regs, Load(r)
  PROVE  IInv'
<1>1. PICK v \in heap \cup {Nil} : Define(r, v)
  <2>1. PICK a \in Live :
          \/ Define(r, env[depth][a])
          \/ /\ Holds(a, {"fixed", "array"})
             /\ \E v \in Range(cell[env[depth][a]].refs) : Define(r, v)
    BY DEF Load
  <2>2. CASE Define(r, env[depth][a])
    BY <2>2, RunningTypes DEF Live
  <2>3. CASE /\ Holds(a, {"fixed", "array"})
             /\ \E v \in Range(cell[env[depth][a]].refs) : Define(r, v)
    <3>1. cell[env[depth][a]].refs \in Seq(heap \cup {Nil})
      BY <2>3, HeldTypes DEF Holds, Live
    <3>2. Range(cell[env[depth][a]].refs) \subseteq heap \cup {Nil}
      BY <3>1, LenProperties DEF Range
    <3> QED BY <2>3, <3>2
  <2> QED BY <2>1, <2>2, <2>3
<1>2. CellsKept
  BY CellsUnchanged DEF Load, heapVars
<1>3. r \notin prev[depth] /\ env' = [env EXCEPT ![depth][r] = v]
  BY <1>1 DEF Define, Definable
<1>4. /\ Running /\ globals' \in [Globals -> heap \cup {Nil}]
      /\ UNCHANGED <<heap, bytes, target, rootVars, depth, base, prev, dest, status>>
  BY RunningTypes DEF Load, heapVars
<1> QED BY <1>1, <1>2, <1>3, <1>4, RegisterStep

\* Reading a global defines a register with a root.
LEMMA GlobalReadStep ==
  ASSUME IInv, NEW r \in Regs, NEW g \in Globals, GlobalRead(r, g)
  PROVE  IInv'
<1>1. globals[g] \in heap \cup {Nil}
  BY RunningTypes
<1>2. CellsKept
  BY CellsUnchanged DEF GlobalRead, heapVars
<1>3. r \notin prev[depth] /\ env' = [env EXCEPT ![depth][r] = globals[g]]
  BY DEF GlobalRead, Define, Definable
<1>4. /\ Running /\ globals' \in [Globals -> heap \cup {Nil}]
      /\ UNCHANGED <<heap, bytes, target, rootVars, depth, base, prev, dest, status>>
  BY RunningTypes DEF GlobalRead, heapVars
<1> QED BY <1>1, <1>2, <1>3, <1>4, RegisterStep

\* The last use of a register leaves its stale slot behind.
LEMMA DieStep ==
  ASSUME IInv, NEW x \in Regs, Die(x)
  PROVE  IInv'
<1>1. CellsKept
  BY CellsUnchanged DEF Die, heapVars
<1>2. /\ Running /\ globals' \in [Globals -> heap \cup {Nil}]
      /\ env' = [env EXCEPT ![depth][x] = Dead]
      /\ UNCHANGED <<heap, bytes, target, rootVars, depth, base, prev, dest, status>>
  BY RunningTypes DEF Die, heapVars
<1> QED BY <1>1, <1>2, RegisterStep

\* Rewriting one register with its own value changes nothing.
LEMMA SameRegister ==
  ASSUME IInv, NEW a \in Regs
  PROVE  env = [env EXCEPT ![depth][a] = env[depth][a]]
BY RunningTypes DEF IInv, TypeOK

\* Replacing the references of a scanned object by valid ones.
LEMMA RefsReplaced ==
  ASSUME IInv, NEW o \in heap, cell[o].kind \in {"fixed", "array"},
         NEW new \in Seq(heap \cup {Nil}), cell' = [cell EXCEPT ![o].refs = new]
  PROVE  CellsKept
<1>1. heap \cup {Nil} \subseteq Ref /\ cell \in [Objects -> Cell] /\ heap \subseteq Objects
  BY DEF IInv, TypeOK, Ref
<1>2. new \in Seq(Ref)
  BY <1>1, SeqMonotonic
<1>3. cell' \in [Objects -> Cell]
  BY <1>1, <1>2 DEF Cell
<1>4. cell'[o].refs = new /\ cell'[o].kind = cell[o].kind /\ cell'[o].extent = cell[o].extent
  BY <1>1 DEF Cell
<1>5. \A j \in DOMAIN cell'[o].refs : cell'[o].refs[j] \in heap \cup {Nil}
  BY <1>4, LenProperties, ElementOfSeq
<1>6. \A p \in heap : p # o => cell'[p] = cell[p]
  BY <1>1
<1>7. \A p \in heap : \A j \in DOMAIN cell[p].refs : cell[p].refs[j] \in heap \cup {Nil}
  BY DEF IInv, NoDangling, TracedValid, Valid
<1> QED BY <1>3, <1>4, <1>5, <1>6, <1>7 DEF CellsKept

\* A store writes a value of a live register into a scanned object.
LEMMA StoreStep ==
  ASSUME IInv, NEW a \in Regs, Store(a)
  PROVE  IInv'
<1> DEFINE o == env[depth][a]
           es == cell[o].refs
<1>1. PICK i \in DOMAIN es, v \in Values \cup {Nil} : cell' = [cell EXCEPT ![o].refs[i] = v]
  BY DEF Store
<1>2. o \in heap /\ es \in Seq(heap \cup {Nil}) /\ v \in heap \cup {Nil}
  BY RunningTypes, HeldTypes DEF Store, Holds
<1>3. cell[o].kind \in {"fixed", "array"}
  BY DEF Store, Holds
<1>4. [es EXCEPT ![i] = v] \in Seq(heap \cup {Nil})
  BY <1>2, LenProperties, ExceptSeq
<1>5. cell' = [cell EXCEPT ![o].refs = [es EXCEPT ![i] = v]]
  BY <1>1
<1>6. CellsKept
  BY <1>2, <1>3, <1>4, <1>5, RefsReplaced
<1>7. env' = [env EXCEPT ![depth][a] = env[depth][a]]
  BY SameRegister DEF Store, frameVars
<1>8. /\ Running /\ globals' \in [Globals -> heap \cup {Nil}]
      /\ UNCHANGED <<heap, bytes, target, rootVars, depth, base, prev, dest, status>>
  BY RunningTypes DEF Store, frameVars
<1> QED BY <1>2, <1>6, <1>7, <1>8, RegisterStep

\* pop and shift move an element from the array into a register.
LEMMA ArrayRemoveStep ==
  ASSUME IInv, NEW r \in Regs, NEW a \in Regs, ArrayRemove(r, a)
  PROVE  IInv'
<1> DEFINE o == env[depth][a]
           es == cell[o].refs
<1>1. o \in heap /\ es \in Seq(heap \cup {Nil}) /\ es # <<>> /\ cell[o].kind \in {"fixed", "array"}
  BY HeldTypes DEF ArrayRemove, Holds
<1>2. Len(es) \in Nat \ {0}
  BY <1>1, EmptySeq
<1>3. \A i \in 1..Len(es) : es[i] \in heap \cup {Nil}
  BY <1>1, ElementOfSeq
<1>4. SubSeq(es, 1, Len(es) - 1) \in Seq(heap \cup {Nil}) /\ Tail(es) \in Seq(heap \cup {Nil})
  BY <1>1, <1>2, <1>3, SubSeqProperties, HeadTailProperties
<1>5. es[Len(es)] \in heap \cup {Nil} /\ Head(es) \in heap \cup {Nil}
  BY <1>1, <1>2, <1>3, HeadTailProperties
<1>6. PICK v \in heap \cup {Nil}, new \in Seq(heap \cup {Nil}) :
        Define(r, v) /\ cell' = [cell EXCEPT ![o].refs = new]
  BY <1>4, <1>5 DEF ArrayRemove
<1>7. CellsKept
  BY <1>1, <1>6, RefsReplaced
<1>8. r \notin prev[depth] /\ env' = [env EXCEPT ![depth][r] = v]
  BY <1>6 DEF Define, Definable
<1>9. /\ Running /\ globals' \in [Globals -> heap \cup {Nil}]
      /\ UNCHANGED <<heap, bytes, target, rootVars, depth, base, prev, dest, status>>
  BY RunningTypes DEF ArrayRemove
<1> QED BY <1>6, <1>7, <1>8, <1>9, RegisterStep

\* Writing a global makes a live value a root.
LEMMA GlobalWriteStep ==
  ASSUME IInv, NEW g \in Globals, GlobalWrite(g)
  PROVE  IInv'
<1>1. PICK a \in Regs : env[depth][a] # Dead /\ globals' = [globals EXCEPT ![g] = env[depth][a]]
  BY DEF GlobalWrite, Values, Live
<1>2. env[depth][a] \in heap \cup {Nil}
  BY <1>1, RunningTypes
<1>3. globals' \in [Globals -> heap \cup {Nil}]
  BY <1>1, <1>2, RunningTypes
<1>4. CellsKept
  BY CellsUnchanged DEF GlobalWrite, heapVars
<1>5. env' = [env EXCEPT ![depth][a] = env[depth][a]]
  BY SameRegister DEF GlobalWrite, frameVars
<1>6. /\ Running
      /\ UNCHANGED <<heap, bytes, target, rootVars, depth, base, prev, dest, status>>
  BY DEF GlobalWrite, heapVars, frameVars
<1> QED BY <1>2, <1>3, <1>4, <1>5, <1>6, RegisterStep

\* Root list of frame d once the running function has published.
Listed(d) == IF d = depth THEN Live ELSE prev[d]

\* After a safe point the frames are published in any buffer that begins with
\* the published list.
LEMMA PublishedFrames ==
  ASSUME IInv, Running, NEW tmp \in Seq(Ref), Len(Published) <= Len(tmp),
         \A k \in 1..Len(Published) : tmp[k] = Published[k]
  PROVE  /\ \A d \in 1..depth : base[d] + Cardinality(Listed(d)) <= Len(tmp)
         /\ \A e \in 1..depth : \A d \in 1..(e - 1) : base[d] + Cardinality(Listed(d)) <= base[e]
         /\ \A d \in 1..depth : \A r \in Listed(d) :
              env[d][r] # Dead => tmp[base[d] + Position(Listed(d), r)] = env[d][r]
<1>1. TypeOK /\ NoDangling /\ Frames
  BY DEF IInv
<1>2. /\ depth \in 1..MaxDepth /\ depth \in Depths /\ prev \in [Depths -> SUBSET Regs]
      /\ base \in [Depths -> Nat]
  BY <1>1 DEF TypeOK, Depths
<1>3. Live \in SUBSET Regs /\ Cardinality(Live) \in Nat
  BY RegsFinite DEF Live
<1>4. \A d \in 1..depth : d \in Depths /\ Listed(d) = IF d = depth THEN Live ELSE prev[d]
  BY <1>2, ConstantTypes DEF Depths, Listed
<1>5. /\ Len(Published) = base[depth] + Cardinality(Live)
      /\ \A k \in 1..base[depth] : Published[k] = temp[k]
      /\ \A r \in Live : Published[base[depth] + Position(Live, r)] = env[depth][r]
  BY <1>1, PublishedSlots
<1>6. Len(tmp) \in Nat
  BY LenProperties
<1>7. \A d \in 1..depth : d # depth =>
        /\ d \in 1..(depth - 1) /\ base[d] \in Nat /\ Cardinality(prev[d]) \in Nat
        /\ base[d] + Cardinality(prev[d]) <= base[depth]
  BY <1>1, <1>2, <1>4, RegsFinite DEF Frames, FramesNested
<1>8. \A d \in 1..depth : base[d] + Cardinality(Listed(d)) <= Len(tmp)
  BY <1>2, <1>3, <1>4, <1>5, <1>6, <1>7
<1>9. \A e \in 1..depth : \A d \in 1..(e - 1) : base[d] + Cardinality(Listed(d)) <= base[e]
  <2>1. \A e \in 1..depth : \A d \in 1..(e - 1) : d \in 1..depth /\ d # depth
    BY <1>2
  <2> QED BY <1>1, <1>4, <2>1 DEF Frames, FramesNested
<1>10. ASSUME NEW d \in 1..depth, NEW r \in Listed(d), env[d][r] # Dead
       PROVE  tmp[base[d] + Position(Listed(d), r)] = env[d][r]
  <2>1. CASE d = depth
    <3>1. r \in Live /\ Listed(d) = Live
      BY <1>4, <1>10, <2>1
    <3>2. Position(Live, r) \in 1..Cardinality(Live)
      BY <1>3, <3>1, PositionRange
    <3>3. base[depth] + Position(Live, r) \in 1..Len(Published)
      BY <1>2, <1>3, <1>5, <3>2
    <3> QED BY <1>5, <2>1, <3>1, <3>3
  <2>2. CASE d # depth
    <3>1. r \in prev[d] /\ Listed(d) = prev[d]
      BY <1>4, <1>10, <2>2
    <3>2. prev[d] \in SUBSET Regs
      BY <1>2, <1>4
    <3>3. Position(prev[d], r) \in 1..Cardinality(prev[d])
      BY <3>1, <3>2, PositionRange
    <3>4. base[d] + Position(prev[d], r) \in 1..base[depth]
      BY <1>2, <1>7, <2>2, <3>3
    <3>5. base[depth] <= Len(Published) /\ Len(Published) \in Nat
      BY <1>2, <1>3, <1>5
    <3>6. base[d] + Position(prev[d], r) \in 1..Len(Published)
      BY <1>2, <3>4, <3>5
    <3>7. temp[base[d] + Position(prev[d], r)] = env[d][r]
      BY <1>1, <1>10, <3>1 DEF Frames, SlotsPublished
    <3> QED BY <1>5, <3>1, <3>4, <3>6, <3>7
  <2> QED BY <2>1, <2>2
<1> QED BY <1>8, <1>9, <1>10

\* Publishing replaces the root list of the running frame only.
LEMMA ListedNext ==
  ASSUME TypeOK, prev' = [prev EXCEPT ![depth] = Live]
  PROVE  prev' \in [Depths -> SUBSET Regs] /\ \A d \in 1..depth : prev'[d] = Listed(d)
BY ConstantTypes DEF TypeOK, Depths, Listed, Live

\* The root plan's peak was reserved: publishing never needs to grow the buffer.
LEMMA PublishedFits ==
  ASSUME IInv, Running
  PROVE  Len(Published) \in Nat /\ Len(Published) <= capacity /\ capacity \in Nat
<1>1. /\ depth \in 1..depth /\ base[depth] \in Nat /\ capacity \in Nat
  BY ConstantTypes DEF IInv, TypeOK, Depths
<1>2. Live \in SUBSET Regs
  BY DEF Live
<1>3. Cardinality(Live) \in Nat /\ Cardinality(Live) <= Cardinality(Regs) /\ Cardinality(Regs) \in Nat
  BY <1>2, RegsFinite
<1>4. Len(Published) = base[depth] + Cardinality(Live)
  BY PublishedSlots DEF IInv
<1>5. base[depth] + Cardinality(Regs) <= capacity
  BY <1>1 DEF IInv, Room
<1> QED BY <1>1, <1>3, <1>4, <1>5

\* Growing on append keeps every reservation and makes room for one root.
LEMMA GrownForFits ==
  ASSUME NEW n \in Nat, NEW cap \in Nat, n <= cap
  PROVE  GrownFor(n, cap) \in Nat /\ cap <= GrownFor(n, cap) /\ n + 1 <= GrownFor(n, cap)
BY ConstantTypes DEF GrownFor

\* After a collection left H, object o gets content c: allocation and growth.
LEMMA HeapUpdated ==
  ASSUME IInv, NEW H \in SUBSET heap, NEW o \in Objects, NEW c \in Cell,
         \A p \in H : \A i \in DOMAIN cell[p].refs : cell[p].refs[i] \in H \cup {Nil},
         \A i \in DOMAIN c.refs : c.refs[i] \in H \cup {Nil},
         c.kind = "string" => c.refs = <<>>,
         c.kind = "scalars" => \A i \in DOMAIN c.refs : c.refs[i] = Nil,
         c.kind # "free",
         cell' = [Remaining(H) EXCEPT ![o] = c], heap' = H \cup {o}
  PROVE  /\ cell' \in [Objects -> Cell] /\ heap' \subseteq Objects /\ Content'
         /\ \A p \in heap' : \A i \in DOMAIN cell'[p].refs : Valid(cell[p].refs[i])'
         /\ Cardinality(Storage(cell, heap))' = Cardinality(Storage(cell, H \ {o})) + Size(c)
<1>1. heap \subseteq Objects /\ cell \in [Objects -> Cell] /\ Content
  BY DEF IInv, TypeOK
<1>2. Free \in Cell
  BY DEF Free, Cell
<1>3. Remaining(H) \in [Objects -> Cell]
  BY <1>1, <1>2 DEF Remaining
<1>4. cell' \in [Objects -> Cell] /\ heap' \subseteq Objects
  BY <1>1, <1>3
<1>5. cell'[o] = c /\ \A p \in H \ {o} : cell'[p] = cell[p]
  BY <1>1, <1>3 DEF Remaining
<1>6. Content'
  BY <1>1, <1>5 DEF Content
<1>7. \A p \in heap' : \A i \in DOMAIN cell'[p].refs : Valid(cell[p].refs[i])'
  BY <1>5 DEF Valid
<1>8. Storage(cell', H \ {o}) = Storage(cell, H \ {o})
  <2> DEFINE T == H \ {o}
  <2>1. \A p \in T : Size(cell'[p]) = Size(cell[p])
    BY <1>5
  <2> HIDE DEF T
  <2>2. Storage(cell', T) = Storage(cell, T)
    BY <2>1, StorageSame
  <2> QED BY <2>2 DEF T
<1>9. Cardinality(Storage(cell', (H \ {o}) \cup {o})) =
        Cardinality(Storage(cell', H \ {o})) + Cardinality(Storage(cell', {o}))
  <2>1. H \ {o} \in SUBSET Objects /\ {o} \in SUBSET Objects /\ (H \ {o}) \cap {o} = {}
    BY <1>1
  <2> QED BY ZenonT(30), <1>4, <2>1, StorageSplit
<1>10. Cardinality(Storage(cell', {o})) = Size(c)
  BY <1>4, <1>5, StorageOne
<1>11. heap' = (H \ {o}) \cup {o}
  OBVIOUS
<1>12. Cardinality(Storage(cell', heap')) = Cardinality(Storage(cell, H \ {o})) + Size(c)
  BY <1>8, <1>9, <1>10, <1>11
<1> QED BY <1>4, <1>6, <1>7, <1>12

\* An allocation: publish, collect if paced to, link and root the object.
LEMMA AllocateStep ==
  ASSUME IInv, NEW r \in Regs, NEW c \in Cell, Allocate(r, c),
         \A i \in DOMAIN c.refs : c.refs[i] \in Values \cup {Nil},
         c.kind = "string" => c.refs = <<>>,
         c.kind = "scalars" => \A i \in DOMAIN c.refs : c.refs[i] = Nil,
         c.kind # "free"
  PROVE  IInv'
<1> DEFINE gc == MaybeCollect(Size(c), Published)
<1>1. PICK o \in Objects \ gc.heap :
        /\ heap' = gc.heap \cup {o}
        /\ cell' = [Remaining(gc.heap) EXCEPT ![o] = c]
        /\ bytes' = gc.bytes + Size(c) /\ target' = gc.target
        /\ temp' = Append(Published, o)
        /\ capacity' = GrownFor(Len(Published), capacity)
        /\ prev' = [prev EXCEPT ![depth] = Live]
        /\ Define(r, o)
        /\ UNCHANGED <<globals, depth, base, dest, status>>
  BY DEF Allocate
<1>2. Running /\ TypeOK /\ NoDangling /\ Frames /\ Room
  BY DEF Allocate, IInv
<1>3. /\ gc.heap \subseteq heap
      /\ \A d \in 1..depth : \A x \in Regs : env[d][x] \in gc.heap \cup {Nil, Dead}
      /\ \A k \in 1..Len(Published) : Published[k] \in gc.heap \cup {Nil}
      /\ \A g \in Globals : globals[g] \in gc.heap \cup {Nil}
      /\ \A p \in gc.heap : \A i \in DOMAIN cell[p].refs : cell[p].refs[i] \in gc.heap \cup {Nil}
      /\ gc.bytes = Cardinality(Storage(cell, gc.heap))
      /\ gc.bytes \in Int /\ gc.target \in Int
  BY <1>2, SafePoint
<1> HIDE DEF gc
<1>4. depth \in Depths /\ depth \in 1..depth
  BY RunningTypes
<1>5. Values \subseteq gc.heap \cup {Nil}
  BY <1>3, <1>4 DEF Values, Live
<1>6. /\ cell' \in [Objects -> Cell] /\ heap' \subseteq Objects /\ Content'
      /\ \A p \in heap' : \A i \in DOMAIN cell'[p].refs : Valid(cell[p].refs[i])'
      /\ Cardinality(Storage(cell, heap))' = Cardinality(Storage(cell, gc.heap \ {o})) + Size(c)
  <2>1. gc.heap \in SUBSET heap /\ \A i \in DOMAIN c.refs : c.refs[i] \in gc.heap \cup {Nil}
    BY <1>3, <1>5
  <2> QED BY <1>1, <1>3, <2>1, HeapUpdated
<1>7. Accounted'
  <2>1. gc.heap \ {o} = gc.heap
    BY <1>1
  <2> QED BY <1>1, <1>3, <1>6, <2>1 DEF Accounted
<1>8. /\ Published \in Seq(Ref) /\ o \in Ref /\ temp' \in Seq(Ref) /\ Len(temp') = Len(Published) + 1
      /\ \A k \in 1..Len(Published) : temp'[k] = Published[k]
      /\ temp'[Len(Published) + 1] = o
  BY <1>1, <1>2, PublishedSlots, AppendProperties DEF Ref
<1>9. Len(Published) \in Nat /\ Len(Published) <= capacity /\ capacity \in Nat
  BY <1>2, PublishedFits
<1>10. capacity' \in Nat /\ capacity <= capacity' /\ Len(Published) + 1 <= capacity'
  BY <1>1, <1>9, GrownForFits
<1>11. /\ prev' \in [Depths -> SUBSET Regs]
       /\ \A d \in 1..depth : base[d] + Cardinality(prev'[d]) <= Len(temp')
       /\ \A e \in 1..depth : \A d \in 1..(e - 1) : base[d] + Cardinality(prev'[d]) <= base[e]
       /\ \A d \in 1..depth : \A x \in prev'[d] :
            env[d][x] # Dead => temp'[base[d] + Position(prev'[d], x)] = env[d][x]
  <2>1. Len(Published) <= Len(temp')
    BY <1>8, <1>9
  <2>2. /\ \A d \in 1..depth : base[d] + Cardinality(Listed(d)) <= Len(temp')
        /\ \A e \in 1..depth : \A d \in 1..(e - 1) : base[d] + Cardinality(Listed(d)) <= base[e]
        /\ \A d \in 1..depth : \A x \in Listed(d) :
             env[d][x] # Dead => temp'[base[d] + Position(Listed(d), x)] = env[d][x]
    BY <1>2, <1>8, <2>1, PublishedFrames
  <2>3. prev' \in [Depths -> SUBSET Regs] /\ \A d \in 1..depth : prev'[d] = Listed(d)
    BY <1>1, <1>2, ListedNext
  <2>4. \A e \in 1..depth : \A d \in 1..(e - 1) : d \in 1..depth
    BY <1>4, ConstantTypes DEF Depths
  <2> QED BY <2>2, <2>3, <2>4
<1>12. /\ env \in [Depths -> [Regs -> Ref \cup {Dead}]] /\ env' = [env EXCEPT ![depth][r] = o]
       /\ r \notin Live /\ r \notin prev[depth]
  BY <1>1, <1>2 DEF TypeOK, Define, Definable
<1>13. env' \in [Depths -> [Regs -> Ref \cup {Dead}]]
  BY <1>4, <1>8, <1>12
<1>14. TypeOK'
  <2>1. bytes' \in Int /\ target' \in Int
    BY <1>1, <1>3, SizeType
  <2> QED BY <1>1, <1>2, <1>6, <1>8, <1>10, <1>11, <1>13, <2>1 DEF TypeOK
<1>15. \A d \in 1..depth : \A x \in Regs :
         env'[d][x] = IF d = depth /\ x = r THEN o ELSE env[d][x]
  BY <1>4, <1>12, ConstantTypes DEF Depths
<1>16. NoDangling'
  <2>1. RegistersValid'
    BY <1>1, <1>3, <1>15 DEF RegistersValid, Valid
  <2>2. \A k \in 1..Len(temp') : temp'[k] \in heap' \cup {Nil}
    BY <1>1, <1>3, <1>8, <1>9
  <2>3. TracedValid'
    BY <1>1, <1>3, <1>6, <2>2 DEF TracedValid, Valid
  <2> QED BY <2>1, <2>3 DEF NoDangling
<1>17. Room'
  <2>1. Len(temp') <= capacity'
    BY <1>8, <1>10
  <2>2. \A d \in 1..depth : base[d] + Cardinality(Regs) <= capacity'
    <3>1. \A d \in 1..depth : base[d] + Cardinality(Regs) \in Nat
      BY <1>2, <1>4, ConstantTypes, RegsFinite DEF TypeOK, Depths
    <3> QED BY <1>2, <1>9, <1>10, <3>1 DEF Room
  <2> QED BY <1>1, <2>1, <2>2 DEF Room
<1>18. SlotsPublished'
  <2> SUFFICES ASSUME NEW d \in 1..depth, NEW x \in prev'[d], env'[d][x] # Dead
               PROVE  temp'[base[d] + Position(prev'[d], x)] = env'[d][x]
    BY <1>1 DEF SlotsPublished, Position
  <2>1. x \in Regs
    BY <1>4, <1>11, ConstantTypes DEF Depths
  <2>2. d = depth => x \in Live
    BY <1>1, <1>2, <1>4 DEF TypeOK
  <2>3. env'[d][x] = env[d][x]
    BY <1>12, <1>15, <2>1, <2>2
  <2> QED BY <1>11, <2>3
<1>19. Suspended'
  <2>1. \A d \in 1..(depth - 1) : d \in 1..depth /\ d # depth /\ prev'[d] = prev[d]
    BY <1>1, <1>2, <1>4, ConstantTypes DEF TypeOK, Depths
  <2> QED BY <1>1, <1>2, <1>15, <2>1 DEF Frames, Suspended
<1>20. FramesNested'
  BY <1>1, <1>11 DEF FramesNested
<1>21. FinishReleasesAll'
  BY <1>1, <1>2 DEF FinishReleasesAll, Running
<1> QED BY <1>6, <1>7, <1>14, <1>16, <1>17, <1>18, <1>19, <1>20, <1>21 DEF IInv, Frames

\* A record, enum or object is an allocation filled from live registers.
LEMMA RecordNewStep ==
  ASSUME IInv, NEW r \in Regs, RecordNew(r)
  PROVE  IInv'
<1>1. PICK v \in Values \cup {Nil} : Allocate(r, [kind |-> "fixed", refs |-> <<v>>, extent |-> 0])
  BY DEF RecordNew
<1> DEFINE c == [kind |-> "fixed", refs |-> <<v>>, extent |-> 0]
<1>2. v \in Ref
  BY RunningTypes DEF IInv, TypeOK, Ref
<1>3. c \in Cell
  BY <1>2 DEF Cell
<1>4. \A i \in DOMAIN c.refs : c.refs[i] \in Values \cup {Nil}
  OBVIOUS
<1>5. c.kind = "fixed"
  OBVIOUS
<1> QED BY <1>1, <1>3, <1>4, <1>5, AllocateStep

\* Arrays and strings are allocated without references.
LEMMA EmptyNewStep ==
  ASSUME IInv, NEW r \in Regs, ArrayNew(r) \/ StringNew(r)
  PROVE  IInv'
<1>1. PICK k \in {"array", "scalars", "string"}, n \in Nat :
        Allocate(r, [kind |-> k, refs |-> <<>>, extent |-> n])
  BY ConstantTypes DEF ArrayNew, StringNew
<1> DEFINE c == [kind |-> k, refs |-> <<>>, extent |-> n]
<1>2. c \in Cell
  BY DEF Cell
<1>3. c.refs = <<>> /\ c.kind # "free" /\ \A i \in DOMAIN c.refs : FALSE
  OBVIOUS
<1> QED BY <1>1, <1>2, <1>3, AllocateStep

\* The heap after a growing or storing push into o.
LEMMA PushHeap ==
  ASSUME IInv, NEW o \in Objects, cell[o].kind \in {"array", "scalars"}, NEW tmp, NEW gc,
         gc = (IF Full(o) THEN MaybeCollect(Growth(o), tmp) ELSE Uncollected),
         gc.heap \subseteq heap, o \in gc.heap,
         \A p \in gc.heap : \A i \in DOMAIN cell[p].refs : cell[p].refs[i] \in gc.heap \cup {Nil},
         gc.bytes = Cardinality(Storage(cell, gc.heap)), gc.bytes \in Int, gc.target \in Int,
         NEW ins \in Seq(gc.heap \cup {Nil}),
         cell[o].kind = "scalars" => \A i \in DOMAIN ins : ins[i] = Nil,
         PushInto(o, ins, tmp)
  PROVE  /\ heap' = gc.heap /\ heap' \subseteq Objects /\ cell' \in [Objects -> Cell]
         /\ bytes' \in Int /\ target' \in Int
         /\ Content' /\ Accounted'
         /\ \A p \in heap' : \A i \in DOMAIN cell'[p].refs : Valid(cell[p].refs[i])'
<1> DEFINE c == [cell[o] EXCEPT !.refs = ins, !.extent = NewCapacity(o)]
           H == gc.heap
<1>1. /\ heap' = H /\ cell' = [Remaining(H) EXCEPT ![o] = c]
      /\ bytes' = gc.bytes + Growth(o) /\ target' = gc.target
  BY DEF PushInto, PushCharging
<1>2. heap \subseteq Objects /\ cell \in [Objects -> Cell]
  BY DEF IInv, TypeOK
<1>3. cell[o].extent \in Nat /\ NewCapacity(o) \in Nat
  BY <1>2, ConstantTypes DEF Cell, NewCapacity
<1>4. H \cup {Nil} \subseteq Ref
  BY <1>2 DEF Ref
<1>5. ins \in Seq(Ref)
  BY <1>4, SeqMonotonic
<1>6. c \in Cell /\ c.refs = ins /\ c.kind = cell[o].kind /\ c.extent = NewCapacity(o)
  BY <1>2, <1>3, <1>5 DEF Cell
<1>7. \A i \in DOMAIN ins : ins[i] \in H \cup {Nil}
  BY LenProperties, ElementOfSeq
<1>8. /\ Size(c) \in Nat /\ Size(cell[o]) \in Nat
      /\ Size(c) = Size(cell[o]) + Growth(o) /\ Growth(o) \in Int
  <2> DEFINE n == NewCapacity(o)
             e == cell[o].extent
  <2> HIDE DEF c, n, e
  <2>1. Size(c) = 40 + 8 * n
    BY <1>6 DEF Size, n
  <2>2. Size(cell[o]) = 40 + 8 * e
    BY DEF Size, e
  <2>3. Growth(o) = 8 * (n - e)
    BY DEF Growth, n, e
  <2>4. n \in Nat /\ e \in Nat
    BY <1>3 DEF n, e
  <2>5. /\ 40 + 8 * n \in Nat /\ 40 + 8 * e \in Nat /\ 8 * (n - e) \in Int
        /\ 40 + 8 * n = (40 + 8 * e) + 8 * (n - e)
    BY <2>4
  <2> QED BY <2>1, <2>2, <2>3, <2>5
<1> HIDE DEF c
<1>9. H = H \cup {o} /\ H \in SUBSET heap
  OBVIOUS
<1>10. /\ cell' \in [Objects -> Cell] /\ heap' \subseteq Objects /\ Content'
       /\ \A p \in heap' : \A i \in DOMAIN cell'[p].refs : Valid(cell[p].refs[i])'
       /\ Cardinality(Storage(cell, heap))' = Cardinality(Storage(cell, H \ {o})) + Size(c)
  <2>1. heap' = H \cup {o}
    BY <1>1, <1>9
  <2>2. \A i \in DOMAIN c.refs : c.refs[i] \in H \cup {Nil}
    BY <1>6, <1>7
  <2>3. /\ c.kind \notin {"free", "string"}
        /\ c.kind = "scalars" => \A i \in DOMAIN c.refs : c.refs[i] = Nil
    BY <1>6
  <2>4. \A p \in H : \A i \in DOMAIN cell[p].refs : cell[p].refs[i] \in H \cup {Nil}
    OBVIOUS
  <2> HIDE DEF H
  <2> QED BY <1>1, <1>6, <1>9, <2>1, <2>2, <2>3, <2>4, HeapUpdated
<1>11. Cardinality(Storage(cell, H)) = Cardinality(Storage(cell, H \ {o})) + Size(cell[o])
  <2>1. H \ {o} \in SUBSET Objects /\ {o} \in SUBSET Objects /\ (H \ {o}) \cap {o} = {}
    BY <1>2
  <2>2. Cardinality(Storage(cell, (H \ {o}) \cup {o})) =
          Cardinality(Storage(cell, H \ {o})) + Cardinality(Storage(cell, {o}))
    BY <1>2, <2>1, StorageSplit
  <2>3. (H \ {o}) \cup {o} = H
    OBVIOUS
  <2> QED BY <1>2, <2>2, <2>3, StorageOne
<1>12. Cardinality(Storage(cell, H \ {o})) \in Nat
  BY <1>2, StorageFinite
<1>13. bytes' = Cardinality(Storage(cell, H \ {o})) + Size(c) /\ bytes' \in Int
  BY <1>1, <1>8, <1>11, <1>12
<1> QED BY <1>1, <1>10, <1>13 DEF Accounted

\* A step that stays in the running function and leaves its frame with root
\* list L: the slots below the frame are kept, those of L hold their registers.
LEMMA FrameStep ==
  ASSUME IInv, Running, NEW L \in SUBSET Regs, prev' = [prev EXCEPT ![depth] = L],
         UNCHANGED <<capacity, globals, depth, base, env, dest, status>>,
         temp' \in Seq(Ref), Len(temp') <= capacity,
         base[depth] + Cardinality(L) <= Len(temp'),
         \A k \in 1..base[depth] : temp'[k] = temp[k],
         \A r \in L : env[depth][r] # Dead => temp'[base[depth] + Position(L, r)] = env[depth][r],
         heap' \subseteq Objects, cell' \in [Objects -> Cell], bytes' \in Int, target' \in Int,
         Content', Accounted',
         \A d \in 1..depth : \A r \in Regs : env[d][r] \in heap' \cup {Nil, Dead},
         \A k \in 1..Len(temp') : temp'[k] \in heap' \cup {Nil},
         \A g \in Globals : globals[g] \in heap' \cup {Nil},
         \A o \in heap' : \A i \in DOMAIN cell'[o].refs : Valid(cell[o].refs[i])'
  PROVE  IInv'
<1>1. TypeOK /\ NoDangling /\ Frames /\ Room
  BY DEF IInv
<1>2. /\ depth \in 1..MaxDepth /\ prev \in [Depths -> SUBSET Regs] /\ base \in [Depths -> Nat]
      /\ Len(temp') \in Nat
  BY <1>1, LenProperties DEF TypeOK, Depths
<1>3. /\ prev' \in [Depths -> SUBSET Regs]
      /\ \A d \in 1..depth : d \in Depths /\ prev'[d] = IF d = depth THEN L ELSE prev[d]
  BY <1>2, ConstantTypes DEF Depths
<1>4. \A d \in 1..depth : d # depth =>
        /\ base[d] \in Nat /\ Cardinality(prev[d]) \in Nat /\ prev[d] \in SUBSET Regs
        /\ base[d] + Cardinality(prev[d]) <= base[depth]
  BY <1>1, <1>2, <1>3, RegsFinite, ConstantTypes DEF Frames, FramesNested
<1>5. base[depth] \in Nat /\ base[depth] <= Len(temp')
  <2>1. Cardinality(L) \in Nat
    BY RegsFinite
  <2>2. base[depth] \in Nat
    BY <1>2 DEF Depths
  <2> QED BY <1>2, <2>1, <2>2
<1>6. TypeOK'
  BY <1>1, <1>3 DEF TypeOK
<1>7. NoDangling'
  BY DEF NoDangling, RegistersValid, TracedValid, Valid
<1>8. FramesNested'
  <2>1. \A d \in 1..depth : base[d] + Cardinality(prev'[d]) <= Len(temp')
    BY <1>2, <1>3, <1>4, <1>5
  <2>2. \A e \in 1..depth : \A d \in 1..(e - 1) : d \in 1..depth /\ d # depth
    BY <1>2, ConstantTypes
  <2>3. \A e \in 1..depth : \A d \in 1..(e - 1) : base[d] + Cardinality(prev'[d]) <= base[e]
    BY <1>1, <1>3, <2>2 DEF Frames, FramesNested
  <2> QED BY <2>1, <2>3 DEF FramesNested
<1>9. SlotsPublished'
  <2> SUFFICES ASSUME NEW d \in 1..depth, NEW r \in prev'[d], env[d][r] # Dead
               PROVE  temp'[base[d] + Position(prev'[d], r)] = env[d][r]
    BY DEF SlotsPublished, Position
  <2>1. CASE d = depth
    BY <1>3, <2>1
  <2>2. CASE d # depth
    <3>1. r \in prev[d] /\ prev'[d] = prev[d]
      BY <1>3, <2>2
    <3>2. Position(prev[d], r) \in 1..Cardinality(prev[d])
      BY <1>4, <2>2, <3>1, PositionRange
    <3>3. base[d] + Position(prev[d], r) \in 1..base[depth]
      BY <1>4, <1>5, <2>2, <3>2
    <3>4. temp[base[d] + Position(prev[d], r)] = env[d][r]
      BY <1>1, <3>1 DEF Frames, SlotsPublished
    <3> QED BY <3>1, <3>3, <3>4
  <2> QED BY <2>1, <2>2
<1>10. Suspended'
  <2>1. \A d \in 1..(depth - 1) : d \in 1..depth /\ d # depth
    BY <1>2, ConstantTypes
  <2> QED BY <1>1, <1>3, <2>1 DEF Frames, Suspended
<1>11. Room'
  BY <1>1 DEF Room
<1>12. FinishReleasesAll'
  BY DEF Running, FinishReleasesAll
<1> QED BY <1>6, <1>7, <1>8, <1>9, <1>10, <1>11, <1>12 DEF IInv, Frames

\* A step that publishes, may collect and leaves the root list Live or empty.
LEMMA PublishStep ==
  ASSUME IInv, Running, temp' = Published,
         NEW L \in {Live, {}}, prev' = [prev EXCEPT ![depth] = L],
         UNCHANGED <<capacity, globals, depth, base, env, dest, status>>,
         heap' \subseteq Objects, cell' \in [Objects -> Cell], bytes' \in Int, target' \in Int,
         Content', Accounted',
         \A d \in 1..depth : \A r \in Regs : env[d][r] \in heap' \cup {Nil, Dead},
         \A k \in 1..Len(Published) : Published[k] \in heap' \cup {Nil},
         \A g \in Globals : globals[g] \in heap' \cup {Nil},
         \A o \in heap' : \A i \in DOMAIN cell'[o].refs : Valid(cell[o].refs[i])'
  PROVE  IInv'
<1>1. TypeOK /\ NoDangling /\ Frames
  BY DEF IInv
<1>2. Published \in Seq(Ref) /\ Len(Published) \in Nat /\ Len(Published) <= capacity
  BY <1>1, PublishedSlots, PublishedFits
<1>3. /\ Len(Published) = base[depth] + Cardinality(Live)
      /\ \A k \in 1..base[depth] : Published[k] = temp[k]
      /\ \A r \in Live : Published[base[depth] + Position(Live, r)] = env[depth][r]
  BY <1>1, PublishedSlots
<1>4. Live \in SUBSET Regs /\ Cardinality(Live) \in Nat /\ base[depth] \in Nat
  BY <1>1, RegsFinite DEF Live, TypeOK
<1>5. L \in SUBSET Regs /\ base[depth] + Cardinality(L) <= Len(Published)
  <2>1. CASE L = Live
    BY <1>3, <1>4, <2>1
  <2>2. CASE L = {}
    <3>1. Cardinality(L) = 0
      BY <2>2, FS_EmptySet
    <3> QED BY <1>3, <1>4, <2>2, <3>1
  <2> QED BY <2>1, <2>2
<1>6. \A r \in L : env[depth][r] # Dead => Published[base[depth] + Position(L, r)] = env[depth][r]
  BY <1>3
<1> QED BY <1>2, <1>3, <1>5, <1>6, FrameStep

\* A step that leaves the buffer alone and forgets what the block published:
\* a block edge, or a store into an array with room.
LEMMA ForgetStep ==
  ASSUME IInv, Running, prev' = [prev EXCEPT ![depth] = {}],
         UNCHANGED <<heap, temp, capacity, globals, depth, base, env, dest, status>>,
         cell' \in [Objects -> Cell], bytes' \in Int, target' \in Int, Content', Accounted',
         \A o \in heap' : \A i \in DOMAIN cell'[o].refs : Valid(cell[o].refs[i])'
  PROVE  IInv'
<1>1. TypeOK /\ NoDangling /\ Frames /\ Room
  BY DEF IInv
<1>2. depth \in 1..depth /\ base[depth] \in Nat /\ prev[depth] \in SUBSET Regs
  BY <1>1, ConstantTypes DEF TypeOK, Depths
<1>3. Cardinality(prev[depth]) \in Nat /\ Len(temp) \in Nat /\ temp \in Seq(Ref)
  BY <1>1, <1>2, RegsFinite, LenProperties DEF TypeOK
<1>4. base[depth] + Cardinality(prev[depth]) <= Len(temp)
  BY <1>1, <1>2 DEF Frames, FramesNested
<1>5. base[depth] + Cardinality({}) <= Len(temp)
  BY <1>2, <1>3, <1>4, FS_EmptySet
<1>6. /\ heap' \subseteq Objects
      /\ \A d \in 1..depth : \A r \in Regs : env[d][r] \in heap' \cup {Nil, Dead}
      /\ \A k \in 1..Len(temp') : temp'[k] \in heap' \cup {Nil}
      /\ \A g \in Globals : globals[g] \in heap' \cup {Nil}
  BY <1>1 DEF NoDangling, RegistersValid, TracedValid, Valid, TypeOK
<1>7. Len(temp') <= capacity /\ {} \in SUBSET Regs
  BY <1>1 DEF Room
<1> QED BY <1>3, <1>5, <1>6, <1>7, FrameStep

\* A block edge.
LEMMA JumpStep ==
  ASSUME IInv, Jump
  PROVE  IInv'
<1>1. /\ cell' \in [Objects -> Cell] /\ bytes' \in Int /\ target' \in Int
      /\ Content' /\ Accounted'
      /\ \A o \in heap' : \A i \in DOMAIN cell'[o].refs : Valid(cell[o].refs[i])'
  BY DEF Jump, heapVars, IInv, TypeOK, Content, Accounted, Storage, NoDangling, TracedValid, Valid
<1> QED BY <1>1, ForgetStep DEF Jump, heapVars, rootVars

\* A push into a managed array is a safe point.
LEMMA ArrayPushStep ==
  ASSUME IInv, NEW a \in Regs, ArrayPush(a)
  PROVE  IInv'
<1> DEFINE o == env[depth][a]
           gc == IF Full(o) THEN MaybeCollect(Growth(o), Published) ELSE Uncollected
<1>0. PICK v \in Values \cup {Nil} :
        \E ins \in {Append(cell[o].refs, v), <<v>> \o cell[o].refs} : PushInto(o, ins, Published)
  BY DEF ArrayPush, PushWith
<1>1. PICK ins \in {Append(cell[o].refs, v), <<v>> \o cell[o].refs} : PushInto(o, ins, Published)
  BY <1>0
<1>2. /\ Running /\ Holds(a, {"array"}) /\ temp' = Published /\ prev' = [prev EXCEPT ![depth] = Live]
      /\ UNCHANGED <<capacity, globals, depth, base, env, dest, status>>
  BY DEF ArrayPush, PushWith
<1>3. gc \in {MaybeCollect(Growth(o), Published), Uncollected}
  OBVIOUS
<1> HIDE DEF gc
<1>4. /\ gc.heap \subseteq heap
      /\ \A d \in 1..depth : \A x \in Regs : env[d][x] \in gc.heap \cup {Nil, Dead}
      /\ \A k \in 1..Len(Published) : Published[k] \in gc.heap \cup {Nil}
      /\ \A g \in Globals : globals[g] \in gc.heap \cup {Nil}
      /\ \A p \in gc.heap : \A i \in DOMAIN cell[p].refs : cell[p].refs[i] \in gc.heap \cup {Nil}
      /\ gc.bytes = Cardinality(Storage(cell, gc.heap))
      /\ gc.bytes \in Int /\ gc.target \in Int
  BY <1>2, <1>3, SafePoint
<1>5. depth \in 1..depth
  BY RunningTypes
<1>6. /\ o \in Objects /\ o \in gc.heap /\ cell[o].kind = "array"
      /\ v \in gc.heap \cup {Nil}
  BY <1>2, <1>4, <1>5, ManagedHeapAssumption DEF Holds, Values, Live
<1>7. cell[o].refs \in Seq(gc.heap \cup {Nil})
  <2>1. cell[o].refs \in Seq(heap \cup {Nil})
    BY <1>6, HeldTypes
  <2>2. Len(cell[o].refs) \in Nat /\ DOMAIN cell[o].refs = 1..Len(cell[o].refs)
        /\ cell[o].refs \in [1..Len(cell[o].refs) -> heap \cup {Nil}]
    BY <2>1, LenProperties
  <2>3. cell[o].refs \in [1..Len(cell[o].refs) -> gc.heap \cup {Nil}]
    BY <1>4, <1>6, <2>2
  <2> QED BY <2>2, <2>3, FunctionIsSeq
<1>8. ins \in Seq(gc.heap \cup {Nil})
  <2> DEFINE V == gc.heap \cup {Nil}
             es == cell[o].refs
  <2> HIDE DEF V, es, o
  <2>1. v \in V /\ es \in Seq(V)
    BY <1>6, <1>7 DEF V, es
  <2>2. <<v>> \in Seq(V)
    BY <2>1
  <2>3. Append(es, v) \in Seq(V) /\ <<v>> \o es \in Seq(V)
    BY <2>1, <2>2, AppendProperties, ConcatProperties
  <2> QED BY <1>1, <2>3 DEF V, es
<1>9. /\ heap' = gc.heap /\ heap' \subseteq Objects /\ cell' \in [Objects -> Cell]
      /\ bytes' \in Int /\ target' \in Int
      /\ Content' /\ Accounted'
      /\ \A p \in heap' : \A i \in DOMAIN cell'[p].refs : Valid(cell[p].refs[i])'
  <2>1. gc = (IF Full(o) THEN MaybeCollect(Growth(o), Published) ELSE Uncollected)
    BY DEF gc
  <2>2. cell[o].kind \in {"array", "scalars"} /\ cell[o].kind # "scalars"
    BY <1>6
  <2> HIDE DEF o
  <2> QED BY <1>1, <1>4, <1>6, <1>8, <2>1, <2>2, PushHeap
<1>10. Live \in {Live, {}}
  OBVIOUS
<1> QED BY <1>2, <1>4, <1>9, <1>10, PublishStep

\* A push into an array of scalars: only the growing branch is a safe point.
LEMMA ScalarPushStep ==
  ASSUME IInv, NEW a \in Regs, ScalarPush(a)
  PROVE  IInv'
<1> DEFINE o == env[depth][a]
           tmp == IF Full(o) THEN Published ELSE temp
           gc == IF Full(o) THEN MaybeCollect(Growth(o), tmp) ELSE Uncollected
           ins == Append(cell[o].refs, Nil)
<1>1. /\ Running /\ Holds(a, {"scalars"}) /\ PushInto(o, ins, tmp)
      /\ temp' = tmp /\ prev' = [prev EXCEPT ![depth] = {}]
      /\ UNCHANGED <<capacity, globals, depth, base, env, dest, status>>
  BY DEF ScalarPush, ScalarPushLeaving
<1>2. gc \in {MaybeCollect(Growth(o), Published), Uncollected} /\ (~Full(o) => gc = Uncollected)
  OBVIOUS
<1>3. gc = (IF Full(o) THEN MaybeCollect(Growth(o), tmp) ELSE Uncollected)
  OBVIOUS
<1> HIDE DEF gc
<1>4. /\ gc.heap \subseteq heap
      /\ \A d \in 1..depth : \A x \in Regs : env[d][x] \in gc.heap \cup {Nil, Dead}
      /\ \A k \in 1..Len(Published) : Published[k] \in gc.heap \cup {Nil}
      /\ \A g \in Globals : globals[g] \in gc.heap \cup {Nil}
      /\ \A p \in gc.heap : \A i \in DOMAIN cell[p].refs : cell[p].refs[i] \in gc.heap \cup {Nil}
      /\ gc.bytes = Cardinality(Storage(cell, gc.heap))
      /\ gc.bytes \in Int /\ gc.target \in Int
  BY <1>1, <1>2, SafePoint
<1>5. depth \in 1..depth
  BY RunningTypes
<1>6. o \in Objects /\ o \in gc.heap /\ o \in heap /\ cell[o].kind = "scalars"
  BY <1>1, <1>4, <1>5, ManagedHeapAssumption DEF Holds
<1>7. ins \in Seq(gc.heap \cup {Nil}) /\ \A i \in DOMAIN ins : ins[i] = Nil
  <2> DEFINE es == cell[o].refs
  <2>1. es \in Seq(heap \cup {Nil}) /\ \A i \in DOMAIN es : es[i] = Nil
    BY <1>6, HeldTypes DEF IInv, Content
  <2> HIDE DEF es, o
  <2>2. Len(es) \in Nat /\ DOMAIN es = 1..Len(es)
    BY <2>1, LenProperties
  <2>3. es \in [1..Len(es) -> {Nil}]
    <3>1. es = [i \in 1..Len(es) |-> es[i]]
      BY <2>1, <2>2
    <3> QED BY <2>1, <2>2, <3>1
  <2>4. es \in Seq({Nil})
    BY <2>2, <2>3, FunctionIsSeq
  <2>5. Append(es, Nil) \in Seq({Nil})
    BY <2>4, AppendProperties
  <2>6. \A i \in DOMAIN Append(es, Nil) : Append(es, Nil)[i] = Nil
    BY <2>5, LenProperties, ElementOfSeq
  <2>7. Append(es, Nil) \in Seq(gc.heap \cup {Nil})
    BY <2>5, SeqMonotonic
  <2> QED BY <2>6, <2>7 DEF es
<1>8. /\ heap' = gc.heap /\ heap' \subseteq Objects /\ cell' \in [Objects -> Cell]
      /\ bytes' \in Int /\ target' \in Int
      /\ Content' /\ Accounted'
      /\ \A p \in heap' : \A i \in DOMAIN cell'[p].refs : Valid(cell[p].refs[i])'
  <2>1. cell[o].kind \in {"array", "scalars"}
    BY <1>6
  <2> HIDE DEF o, tmp, ins
  <2> QED BY <1>1, <1>3, <1>4, <1>6, <1>7, <2>1, PushHeap
<1>9. CASE Full(o)
  <2>1. temp' = Published /\ {} \in {Live, {}}
    BY <1>1, <1>9
  <2> QED BY <1>1, <1>4, <1>8, <2>1, PublishStep
<1>10. CASE ~Full(o)
  <2>1. temp' = temp /\ heap' = heap
    BY <1>1, <1>2, <1>8, <1>10 DEF Uncollected
  <2> QED BY <1>1, <1>8, <2>1, ForgetStep
<1> QED BY <1>9, <1>10

\* trbn_gc_temp_reserve gives at least what is required and never shrinks.
LEMMA ReservedFits ==
  ASSUME NEW required \in Nat, NEW cap \in Nat, NEW c \in Reserved(required, cap)
  PROVE  c \in Nat /\ required <= c /\ cap <= c
<1>1. CASE required <= cap
  BY <1>1 DEF Reserved
<1>2. CASE ~(required <= cap)
  <2>1. PICK top : c \in required..top
    <3> DEFINE first == IF cap = 0 THEN RootsInitial ELSE cap
               good(x) == /\ \E k \in 0..required : x = first * 2^k
                          /\ x = first \/ x < 2 * required
    <3>1. Reserved(required, cap) = {x \in required..(first + 2 * required) : good(x)}
      BY <1>2 DEF Reserved
    <3> HIDE DEF first, good
    <3> QED BY <3>1
  <2>2. c \in Nat /\ required <= c
    BY <2>1
  <2> QED BY <1>2, <2>2
<1> QED BY <1>1, <1>2

\* A call: the caller's live registers are published below the callee's watermark.
LEMMA CallStep ==
  ASSUME IInv, NEW r \in Regs, NEW arguments \in [Regs -> Values \cup {Dead}], Call(r, arguments)
  PROVE  IInv'
<1> USE DEF heapVars
<1>1. TypeOK /\ NoDangling /\ Frames /\ Room /\ Running
  BY DEF IInv, Call
<1>2. /\ depth \in 1..MaxDepth /\ depth + 1 \in Depths /\ depth \in Depths
      /\ prev \in [Depths -> SUBSET Regs] /\ base \in [Depths -> Nat]
      /\ env \in [Depths -> [Regs -> Ref \cup {Dead}]] /\ dest \in [Depths -> Regs \cup {Nil}]
  BY <1>1, ConstantTypes DEF TypeOK, Depths, Call
<1>3. Published \in Seq(Ref) /\ Len(Published) \in Nat /\ Len(Published) <= capacity
      /\ capacity \in Nat /\ Cardinality(Regs) \in Nat
  BY <1>1, PublishedSlots, PublishedFits, RegsFinite
<1>4. capacity' \in Nat /\ Len(Published) + Cardinality(Regs) <= capacity' /\ capacity <= capacity'
  BY <1>3, ReservedFits DEF Call
<1>5. arguments \in [Regs -> Ref \cup {Dead}] /\ \A x \in Regs : arguments[x] \in heap \cup {Nil, Dead}
  BY <1>1, RunningTypes DEF TypeOK, Ref
<1>6. TypeOK'
  <2>1. base' \in [Depths -> Nat]
    BY <1>2, <1>3 DEF Call
  <2>2. env' \in [Depths -> [Regs -> Ref \cup {Dead}]]
    BY <1>2, <1>5 DEF Call
  <2>3. prev' \in [Depths -> SUBSET Regs]
    BY <1>2 DEF Call, Live
  <2>4. dest' \in [Depths -> Regs \cup {Nil}]
    BY <1>2 DEF Call
  <2> QED BY <1>1, <1>2, <1>3, <1>4, <2>1, <2>2, <2>3, <2>4 DEF TypeOK, Call
<1>7. \A d \in 1..(depth + 1) :
        /\ d \in Depths /\ (d # depth + 1 => d \in 1..depth)
        /\ base'[d] = IF d = depth + 1 THEN Len(Published) ELSE base[d]
        /\ env'[d] = IF d = depth + 1 THEN arguments ELSE env[d]
        /\ prev'[d] = IF d = depth + 1 THEN {} ELSE Listed(d)
        /\ d # depth + 1 => dest'[d] = IF d = depth THEN r ELSE dest[d]
  <2> SUFFICES ASSUME NEW d \in 1..(depth + 1)
               PROVE  /\ d \in Depths /\ (d # depth + 1 => d \in 1..depth)
                      /\ base'[d] = IF d = depth + 1 THEN Len(Published) ELSE base[d]
                      /\ env'[d] = IF d = depth + 1 THEN arguments ELSE env[d]
                      /\ prev'[d] = IF d = depth + 1 THEN {} ELSE Listed(d)
                      /\ d # depth + 1 => dest'[d] = IF d = depth THEN r ELSE dest[d]
    OBVIOUS
  <2>1. d \in Depths /\ (d # depth + 1 => d \in 1..depth) /\ depth # depth + 1
    BY <1>2, ConstantTypes DEF Depths
  <2>2. base'[d] = IF d = depth + 1 THEN Len(Published) ELSE base[d]
    BY <1>2, <2>1 DEF Call
  <2>3. env'[d] = IF d = depth + 1 THEN arguments ELSE env[d]
    BY <1>2, <2>1 DEF Call
  <2>4. prev'[d] = IF d = depth + 1 THEN {} ELSE Listed(d)
    BY <1>2, <2>1 DEF Call, Listed
  <2>5. d # depth + 1 => dest'[d] = IF d = depth THEN r ELSE dest[d]
    BY <1>2, <2>1 DEF Call
  <2> QED BY <2>1, <2>2, <2>3, <2>4, <2>5
<1>8. /\ \A d \in 1..depth : base[d] + Cardinality(Listed(d)) <= Len(Published)
      /\ \A e \in 1..depth : \A d \in 1..(e - 1) : base[d] + Cardinality(Listed(d)) <= base[e]
      /\ \A d \in 1..depth : \A x \in Listed(d) :
           env[d][x] # Dead => Published[base[d] + Position(Listed(d), x)] = env[d][x]
  BY <1>1, <1>3, PublishedFrames
<1>9. temp' = Published /\ depth' = depth + 1 /\ UNCHANGED <<heap, cell, bytes, target, globals, status>>
  BY DEF Call
<1>10. NoDangling'
  <2>1. RegistersValid'
    BY <1>1, <1>5, <1>7, <1>9 DEF NoDangling, RegistersValid, Valid
  <2>2. \A k \in 1..Len(Published) : Valid(Published[k])
    BY <1>1, PublishedSlots
  <2>3. TracedValid'
    BY <1>1, <1>9, <2>2 DEF NoDangling, TracedValid, Valid
  <2> QED BY <2>1, <2>3 DEF NoDangling
<1>11. Room'
  <2>1. Len(temp') <= capacity'
    BY <1>3, <1>4, <1>9
  <2>2. \A d \in 1..depth : base[d] + Cardinality(Regs) <= capacity'
    BY <1>1, <1>2, <1>3, <1>4, ConstantTypes DEF Room, Depths
  <2> QED BY <1>4, <1>7, <1>9, <2>1, <2>2 DEF Room
<1>12. Cardinality({}) = 0
  BY FS_EmptySet
<1>13. FramesNested'
  <2>1. \A d \in 1..(depth + 1) : base'[d] + Cardinality(prev'[d]) <= Len(Published)
    BY <1>3, <1>7, <1>8, <1>12
  <2>2. ASSUME NEW e \in 1..(depth + 1), NEW d \in 1..(e - 1)
        PROVE  base'[d] + Cardinality(prev'[d]) <= base'[e]
    <3>1. d \in 1..depth /\ d \in 1..(depth + 1) /\ d # depth + 1
      BY <1>2, <2>2
    <3>2. base'[d] = base[d] /\ prev'[d] = Listed(d)
      BY <1>7, <3>1
    <3>3. CASE e = depth + 1
      BY <1>7, <1>8, <3>1, <3>2, <3>3
    <3>4. CASE e # depth + 1
      BY <1>7, <1>8, <3>1, <3>2, <3>4
    <3> QED BY <3>3, <3>4
  <2> QED BY <1>9, <2>1, <2>2 DEF FramesNested
<1>14. SlotsPublished'
  <2> SUFFICES ASSUME NEW d \in 1..(depth + 1), NEW x \in prev'[d], env'[d][x] # Dead
               PROVE  temp'[base'[d] + Position(prev'[d], x)] = env'[d][x]
    BY <1>9 DEF SlotsPublished, Position
  <2>1. d # depth + 1 /\ d \in 1..depth
    BY <1>7
  <2>2. base'[d] = base[d] /\ prev'[d] = Listed(d) /\ env'[d] = env[d]
    BY <1>7, <2>1
  <2> QED BY <1>8, <1>9, <2>1, <2>2
<1>15. Suspended'
  <2> SUFFICES ASSUME NEW d \in 1..depth
               PROVE  /\ dest'[d] \in Regs \ prev'[d]
                      /\ \A x \in Regs : env'[d][x] # Dead => x \in prev'[d]
    BY <1>2, <1>9 DEF Suspended
  <2>1. d \in 1..(depth + 1) /\ d # depth + 1
    BY <1>2
  <2>2. prev'[d] = Listed(d) /\ env'[d] = env[d] /\ dest'[d] = IF d = depth THEN r ELSE dest[d]
    BY <1>7, <2>1
  <2>3. CASE d = depth
    <3>1. dest'[d] = r /\ prev'[d] = Live /\ env'[d] = env[depth]
      BY <2>2, <2>3 DEF Listed
    <3>2. r \in Regs \ Live
      BY DEF Call, Definable
    <3>3. \A x \in Regs : env[depth][x] # Dead => x \in Live
      BY DEF Live
    <3> QED BY <3>1, <3>2, <3>3
  <2>4. CASE d # depth
    <3>1. d \in 1..(depth - 1)
      BY <1>2, <2>4
    <3> QED BY <1>1, <2>2, <2>4, <3>1 DEF Frames, Suspended, Listed
  <2> QED BY <2>3, <2>4
<1>16. Content' /\ Accounted' /\ FinishReleasesAll'
  BY <1>1, <1>9 DEF IInv, Content, Accounted, Storage, FinishReleasesAll, Running
<1> QED BY <1>6, <1>10, <1>11, <1>13, <1>14, <1>15, <1>16 DEF IInv, Frames

\* A return: the callee's slots go, the caller's are below the watermark.
LEMMA ReturnStep ==
  ASSUME IInv, Return
  PROVE  IInv'
<1> USE DEF heapVars
<1> DEFINE b == base[depth]
           tmp == SubSeq(temp, 1, b)
           D == depth - 1
           t == dest[D]
<1>1. TypeOK /\ NoDangling /\ Frames /\ Room /\ Running /\ depth > 1
  BY DEF IInv, Return, ReturnTo
<1>2. /\ depth \in 1..MaxDepth /\ D \in Depths /\ depth \in Depths /\ D \in 1..D /\ depth \in Nat
      /\ prev \in [Depths -> SUBSET Regs] /\ base \in [Depths -> Nat]
      /\ env \in [Depths -> [Regs -> Ref \cup {Dead}]] /\ dest \in [Depths -> Regs \cup {Nil}]
      /\ temp \in Seq(Ref) /\ capacity \in Nat
  BY <1>1, ConstantTypes DEF TypeOK, Depths
<1>3. PICK v \in Values \cup {Nil} :
        /\ temp' = PushRoot(tmp, v)
        /\ capacity' = IF v = Nil THEN capacity ELSE GrownFor(Len(tmp), capacity)
        /\ env' = [env EXCEPT ![D][t] = v, ![depth] = NoRegisters]
  BY DEF Return, ReturnTo
<1>4. /\ depth' = D /\ base' = [base EXCEPT ![depth] = 0] /\ prev' = [prev EXCEPT ![depth] = {}]
      /\ dest' = [dest EXCEPT ![D] = Nil]
      /\ UNCHANGED <<heap, cell, bytes, target, globals, status>>
  BY DEF Return, ReturnTo
<1>5. v \in heap \cup {Nil} /\ v \in Ref
  BY <1>1, RunningTypes DEF TypeOK, Ref
<1>6. t \in Regs \ prev[D]
  BY <1>1, <1>2 DEF Frames, Suspended
<1>7. b \in Nat /\ b <= Len(temp) /\ Len(temp) \in Nat
  <2>1. Cardinality(prev[depth]) \in Nat /\ b + Cardinality(prev[depth]) <= Len(temp)
    BY <1>1, <1>2, RegsFinite DEF Frames, FramesNested, Depths
  <2> QED BY <1>2, <2>1, LenProperties
<1>8. tmp \in Seq(Ref) /\ Len(tmp) = b /\ \A k \in 1..b : tmp[k] = temp[k]
  <2>1. \A k \in 1..b : temp[k] \in Ref
    BY <1>2, <1>7, ElementOfSeq
  <2> HIDE DEF b
  <2> QED BY <1>2, <1>7, <2>1, SubSeqProperties
<1> HIDE DEF b, tmp
<1>9. /\ temp' \in Seq(Ref) /\ Len(temp') \in b..(b + 1) /\ \A k \in 1..b : temp'[k] = temp[k]
      /\ \A k \in 1..Len(temp') : temp'[k] \in heap \cup {Nil}
      /\ Len(temp') <= capacity' /\ capacity' \in Nat /\ capacity <= capacity'
  <2>1. \A k \in 1..b : temp[k] \in heap \cup {Nil}
    BY <1>1, <1>7 DEF NoDangling, TracedValid, Valid
  <2>2. Len(temp) <= capacity
    BY <1>1 DEF Room
  <2>3. CASE v = Nil
    <3>1. temp' = tmp /\ capacity' = capacity
      BY <1>3, <2>3 DEF PushRoot
    <3>2. b <= capacity /\ b \in b..(b + 1) /\ capacity <= capacity
      BY <1>2, <1>7, <2>2
    <3>3. \A k \in 1..Len(temp') : temp'[k] \in heap \cup {Nil}
      BY <1>8, <2>1, <3>1
    <3> QED BY <1>2, <1>8, <3>1, <3>2, <3>3
  <2>4. CASE v # Nil
    <3>1. temp' = Append(tmp, v) /\ capacity' = GrownFor(b, capacity)
      BY <1>3, <1>8, <2>4 DEF PushRoot
    <3>2. b <= capacity
      BY <1>2, <1>7, <2>2
    <3>3. capacity' \in Nat /\ capacity <= capacity' /\ b + 1 <= capacity'
      BY <1>2, <1>7, <3>1, <3>2, GrownForFits
    <3>4. /\ temp' \in Seq(Ref) /\ Len(temp') = b + 1 /\ temp'[b + 1] = v
          /\ \A k \in 1..b : temp'[k] = temp[k]
      BY <1>5, <1>8, <3>1, AppendProperties
    <3>5. \A k \in 1..(b + 1) : k \in 1..b \/ k = b + 1
      BY <1>7
    <3>6. \A k \in 1..Len(temp') : temp'[k] \in heap \cup {Nil}
      BY <1>5, <2>1, <3>4, <3>5
    <3>7. b + 1 \in b..(b + 1)
      BY <1>7
    <3> QED BY <3>3, <3>4, <3>6, <3>7
  <2> QED BY <2>3, <2>4
<1>10. NoRegisters \in [Regs -> Ref \cup {Dead}]
  BY DEF NoRegisters
<1>11. TypeOK'
  <2>1. env' \in [Depths -> [Regs -> Ref \cup {Dead}]]
    BY <1>2, <1>3, <1>5, <1>6, <1>10
  <2>2. base' \in [Depths -> Nat] /\ prev' \in [Depths -> SUBSET Regs]
    BY <1>2, <1>4
  <2>3. dest' \in [Depths -> Regs \cup {Nil}]
    BY <1>2, <1>4
  <2> QED BY <1>1, <1>2, <1>4, <1>9, <2>1, <2>2, <2>3 DEF TypeOK
<1>12. ASSUME NEW d \in 1..D
       PROVE  /\ d \in Depths /\ d \in 1..(depth - 1) /\ d \in 1..depth /\ d # depth
              /\ base'[d] = base[d] /\ prev'[d] = prev[d] /\ (d # D => dest'[d] = dest[d])
              /\ \A x \in Regs : env'[d][x] = IF d = D /\ x = t THEN v ELSE env[d][x]
  <2>1. d \in Depths /\ d # depth /\ d \in 1..depth
    BY <1>2, ConstantTypes DEF Depths
  <2>2. base'[d] = base[d] /\ prev'[d] = prev[d] /\ (d # D => dest'[d] = dest[d])
    BY <1>2, <1>4, <2>1
  <2>3. env'[d] = IF d = D THEN [env[D] EXCEPT ![t] = v] ELSE env[d]
    BY <1>2, <1>3, <2>1
  <2>4. \A x \in Regs : env'[d][x] = IF d = D /\ x = t THEN v ELSE env[d][x]
    BY <1>2, <2>1, <2>3
  <2> QED BY <2>1, <2>2, <2>4
<1>13. NoDangling'
  <2>1. \A d \in 1..D : \A x \in Regs : env[d][x] \in heap \cup {Nil, Dead}
    BY <1>1, <1>12 DEF NoDangling, RegistersValid, Valid
  <2>2. RegistersValid'
    BY <1>4, <1>5, <1>12, <2>1 DEF RegistersValid, Valid
  <2>3. TracedValid'
    BY <1>1, <1>4, <1>9 DEF NoDangling, TracedValid, Valid
  <2> QED BY <2>2, <2>3 DEF NoDangling
<1>14. Room'
  <2>1. \A d \in 1..D : base[d] + Cardinality(Regs) <= capacity'
    <3>1. \A d \in 1..D : base[d] + Cardinality(Regs) \in Nat
      BY <1>2, <1>12, RegsFinite
    <3> QED BY <1>1, <1>2, <1>9, <1>12, <3>1 DEF Room
  <2> QED BY <1>4, <1>9, <1>12, <2>1 DEF Room
<1>15. \A d \in 1..D : /\ base[d] \in Nat /\ Cardinality(prev[d]) \in Nat
                       /\ base[d] + Cardinality(prev[d]) <= b
  BY <1>1, <1>2, <1>12, RegsFinite DEF Frames, FramesNested, b
<1>16. FramesNested'
  <2>1. \A d \in 1..D : base[d] + Cardinality(prev[d]) <= Len(temp')
    BY <1>7, <1>9, <1>15
  <2>2. ASSUME NEW e \in 1..D, NEW d \in 1..(e - 1)
        PROVE  base'[d] + Cardinality(prev'[d]) <= base'[e]
    <3>1. d \in 1..D
      BY <1>2
    <3>2. base[d] + Cardinality(prev[d]) <= base[e]
      BY <1>1, <1>12 DEF Frames, FramesNested
    <3> QED BY <1>12, <3>1, <3>2
  <2> QED BY <1>4, <1>12, <2>1, <2>2 DEF FramesNested
<1>17. SlotsPublished'
  <2> SUFFICES ASSUME NEW d \in 1..D, NEW x \in prev'[d], env'[d][x] # Dead
               PROVE  temp'[base'[d] + Position(prev'[d], x)] = env'[d][x]
    BY <1>4 DEF SlotsPublished, Position
  <2>1. base'[d] = base[d] /\ prev'[d] = prev[d] /\ x \in prev[d] /\ x \in Regs
        /\ prev[d] \in SUBSET Regs
    BY <1>2, <1>12
  <2>2. env'[d][x] = env[d][x]
    BY <1>6, <1>12, <2>1
  <2>3. Position(prev[d], x) \in 1..Cardinality(prev[d])
    BY <2>1, PositionRange
  <2>4. base[d] + Position(prev[d], x) \in 1..b
    BY <1>7, <1>15, <2>3
  <2>5. temp[base[d] + Position(prev[d], x)] = env[d][x]
    BY <1>1, <1>12, <2>1, <2>2 DEF Frames, SlotsPublished
  <2> QED BY <1>9, <2>1, <2>2, <2>4, <2>5
<1>18. Suspended'
  <2> SUFFICES ASSUME NEW d \in 1..(D - 1)
               PROVE  /\ dest'[d] \in Regs \ prev'[d]
                      /\ \A x \in Regs : env'[d][x] # Dead => x \in prev'[d]
    BY <1>4 DEF Suspended
  <2>1. d \in 1..D /\ d # D /\ d \in 1..(depth - 1)
    BY <1>2
  <2> HIDE DEF D
  <2>2. prev'[d] = prev[d] /\ dest'[d] = dest[d] /\ \A x \in Regs : env'[d][x] = env[d][x]
    BY <1>12, <2>1
  <2> QED BY <1>1, <2>1, <2>2 DEF Frames, Suspended
<1>19. Content' /\ Accounted' /\ FinishReleasesAll'
  BY <1>1, <1>4 DEF IInv, Content, Accounted, Storage, FinishReleasesAll, Running
<1> QED BY <1>11, <1>13, <1>14, <1>16, <1>17, <1>18, <1>19 DEF IInv, Frames

\* The last collection has no roots and releases everything.
LEMMA FinishStep ==
  ASSUME IInv, Finish
  PROVE  IInv' /\ heap' = {}
<1> DEFINE gc == Collected({})
<1>1. TypeOK /\ NoDangling /\ Room /\ Accounted
  BY DEF IInv
<1>2. heap \cap Marked({}) = {} /\ heap \ {} = heap
  BY MarkedEmpty
<1>3. gc.heap = {} /\ gc.bytes = bytes - Cardinality(Storage(cell, heap))
      /\ gc.target = NextTarget(gc.bytes)
  BY <1>2 DEF Collected
<1>4. gc.bytes = 0
  BY <1>1, <1>3 DEF Accounted, TypeOK
<1>5. gc.target \in Int
  BY <1>3, <1>4, ConstantTypes DEF NextTarget
<1> HIDE DEF gc
<1>6. /\ heap' = {} /\ cell' = Remaining({}) /\ bytes' = 0 /\ target' \in Int
      /\ temp' = <<>> /\ globals' = [g \in Globals |-> Nil]
      /\ env' = [env EXCEPT ![1] = NoRegisters] /\ status' = "finished" /\ depth = 1
      /\ UNCHANGED <<capacity, depth, base, prev, dest>>
  BY <1>3, <1>4, <1>5 DEF Finish, FinishFrom, gc
<1>7. 1 \in Depths /\ NoRegisters \in [Regs -> Ref \cup {Dead}]
  BY ConstantTypes DEF Depths, NoRegisters
<1>8. env' \in [Depths -> [Regs -> Ref \cup {Dead}]] /\ env'[1] = NoRegisters
  BY <1>1, <1>6, <1>7 DEF TypeOK
<1>9. cell' \in [Objects -> Cell]
  BY <1>6 DEF Remaining, Free, Cell
<1>10. TypeOK'
  BY <1>1, <1>6, <1>8, <1>9 DEF TypeOK, Ref
<1>11. NoDangling'
  BY <1>6, <1>8 DEF NoDangling, RegistersValid, TracedValid, Valid, NoRegisters
<1>12. Accounted'
  <2>1. Storage(cell', {}) = {}
    BY DEF Storage
  <2> QED BY <1>6, <2>1, FS_EmptySet DEF Accounted
<1>13. Room'
  BY <1>1, <1>6 DEF Room, TypeOK
<1> QED BY <1>6, <1>10, <1>11, <1>12, <1>13 DEF IInv, Content, FinishReleasesAll, Running

\* The initial state: nothing allocated, the entry function's roots reserved.
LEMMA InitHolds == Init => IInv
<1> SUFFICES ASSUME Init
             PROVE  IInv
  OBVIOUS
<1>1. Cardinality(Regs) \in Nat
  BY RegsFinite
<1>2. capacity \in Nat /\ Cardinality(Regs) <= capacity
  BY <1>1, ReservedFits DEF Init
<1>3. 1 \in Depths /\ Free \in Cell
  BY ConstantTypes DEF Depths, Free, Cell
<1>4. TypeOK
  BY <1>2, <1>3, ConstantTypes DEF Init, TypeOK, NoRegisters, Ref
<1>5. NoDangling
  BY <1>3 DEF Init, NoDangling, RegistersValid, TracedValid, Valid, NoRegisters
<1>6. Accounted
  <2>1. Storage(cell, {}) = {}
    BY DEF Storage
  <2> QED BY <2>1, FS_EmptySet DEF Init, Accounted
<1>7. Room
  BY <1>1, <1>2, <1>3 DEF Init, Room
<1>8. Frames
  <2>1. FramesNested
    BY <1>3, FS_EmptySet DEF Init, FramesNested
  <2> QED BY <1>3, <2>1 DEF Init, Frames, SlotsPublished, Suspended
<1> QED BY <1>4, <1>5, <1>6, <1>7, <1>8 DEF Init, IInv, Content, FinishReleasesAll

\* Every instruction and the end of the process preserve the invariant.
LEMMA NextHolds == IInv /\ [Next]_vars => IInv'
<1> SUFFICES ASSUME IInv, [Next]_vars
             PROVE  IInv'
  OBVIOUS
<1>1. CASE Instruction
  <2>1. CASE \E r \in Regs : RecordNew(r) \/ ArrayNew(r) \/ StringNew(r) \/ Load(r)
    BY <2>1, RecordNewStep, EmptyNewStep, LoadStep
  <2>2. CASE \E r, a \in Regs : ArrayRemove(r, a)
    BY <2>2, ArrayRemoveStep
  <2>3. CASE \E a \in Regs : ArrayPush(a) \/ ScalarPush(a) \/ Store(a) \/ Die(a)
    BY <2>3, ArrayPushStep, ScalarPushStep, StoreStep, DieStep
  <2>4. CASE \E g \in Globals : GlobalWrite(g) \/ \E r \in Regs : GlobalRead(r, g)
    BY <2>4, GlobalWriteStep, GlobalReadStep
  <2>5. CASE Jump
    BY <2>5, JumpStep
  <2>6. CASE \E r \in Regs : \E arguments \in [Regs -> Values \cup {Dead}] : Call(r, arguments)
    BY <2>6, CallStep
  <2>7. CASE Return
    BY <2>7, ReturnStep
  <2> QED BY <1>1, <2>1, <2>2, <2>3, <2>4, <2>5, <2>6, <2>7 DEF Instruction
<1>2. CASE Finish
  BY <1>2, FinishStep
<1>3. CASE UNCHANGED vars
  <2> USE <1>3 DEF vars, heapVars, rootVars, frameVars
  <2>1. TypeOK' /\ NoDangling' /\ Content'
    BY DEF IInv, TypeOK, NoDangling, RegistersValid, TracedValid, Valid, Content
  <2>2. Room' /\ Accounted' /\ FinishReleasesAll'
    BY DEF IInv, Room, Accounted, Storage, FinishReleasesAll
  <2>3. Running' => Frames'
    BY DEF IInv, Running, Frames, FramesNested, SlotsPublished, Suspended, Position
  <2> QED BY <2>1, <2>2, <2>3 DEF IInv
<1>4. CASE Stopped
  BY <1>3, <1>4 DEF Stopped
<1> QED BY <1>1, <1>2, <1>3, <1>4 DEF Next

\* The strengthened invariant holds in every reachable state.
THEOREM Invariance == Spec => []IInv
BY InitHolds, NextHolds, PTL DEF Spec

---------------------------------------------------------------------------
(* What follows.                                                           *)

\* Every variable keeps its type, whatever the program allocates and calls.
THEOREM TypeCorrect == Spec => []TypeOK
<1>1. IInv => TypeOK
  BY DEF IInv
<1> QED BY <1>1, Invariance, PTL

\* No register of an active function, published slot, global or field refers
\* to released storage: a collection never frees an object still in use.
THEOREM NeverDangles == Spec => []NoDangling
<1>1. IInv => NoDangling
  BY DEF IInv
<1> QED BY <1>1, Invariance, PTL

\* Live registers of suspended callers are rooted below their callee's watermark.
THEOREM CallersStayRooted == Spec => []CallersRooted
<1>1. IInv => CallersRooted
  <2> SUFFICES ASSUME IInv
               PROVE  CallersRooted
    OBVIOUS
  <2>1. CASE Running
    <3> SUFFICES ASSUME NEW d \in 1..(depth - 1), NEW r \in Regs, env[d][r] \in Objects
                 PROVE  \E k \in 1..base[d + 1] : temp[k] = env[d][r]
      BY DEF CallersRooted
    <3>1. TypeOK /\ Frames /\ env[d][r] # Dead
      BY <2>1, ManagedHeapAssumption DEF IInv
    <3>2. /\ d \in 1..depth /\ d + 1 \in 1..depth /\ d \in 1..((d + 1) - 1)
          /\ d \in Depths /\ d + 1 \in Depths
      BY <3>1, ConstantTypes DEF TypeOK, Depths
    <3>3. r \in prev[d] /\ prev[d] \in SUBSET Regs /\ base[d] \in Nat /\ base[d + 1] \in Nat
      BY <3>1, <3>2 DEF Frames, Suspended, TypeOK
    <3>4. Position(prev[d], r) \in 1..Cardinality(prev[d]) /\ Cardinality(prev[d]) \in Nat
      BY <3>3, PositionRange, RegsFinite
    <3>5. base[d] + Cardinality(prev[d]) <= base[d + 1]
      BY <3>1, <3>2 DEF Frames, FramesNested
    <3>6. base[d] + Position(prev[d], r) \in 1..base[d + 1]
      BY <3>3, <3>4, <3>5
    <3>7. temp[base[d] + Position(prev[d], r)] = env[d][r]
      BY <3>1, <3>2, <3>3 DEF Frames, SlotsPublished
    <3> QED BY <3>6, <3>7
  <2>2. CASE ~Running
    <3>1. heap = {} /\ TypeOK /\ NoDangling
      BY <2>2 DEF IInv, TypeOK, Running, FinishReleasesAll
    <3>2. \A d \in 1..(depth - 1) : d \in 1..depth
      BY <3>1, ConstantTypes DEF TypeOK, Depths
    <3>3. \A d \in 1..depth : \A r \in Regs : env[d][r] \in {Dead, Nil}
      BY <3>1 DEF NoDangling, RegistersValid, Valid
    <3> QED BY <3>2, <3>3, ManagedHeapAssumption DEF CallersRooted
  <2> QED BY <2>1, <2>2
<1> QED BY <1>1, Invariance, PTL

\* Published roots never outgrow the root buffer.
THEOREM RootsFit == Spec => []RootBufferFits
<1>1. IInv => RootBufferFits
  BY DEF IInv, Room, RootBufferFits
<1> QED BY <1>1, Invariance, PTL

\* The byte account is the storage of the linked objects.
THEOREM BytesAccounted == Spec => []Accounted
<1>1. IInv => Accounted
  BY DEF IInv
<1> QED BY <1>1, Invariance, PTL

\* The final collection leaves no object and no accounted byte.
THEOREM FinishReleases == Spec => []FinishReleasesAll
<1>1. IInv => FinishReleasesAll
  BY DEF IInv
<1> QED BY <1>1, Invariance, PTL

---------------------------------------------------------------------------
(* What a step may never do.                                               *)

\* The roots published at a safe point cover whatever is in use.
LEMMA InUseRooted ==
  ASSUME IInv, Running
  PROVE  InUse \subseteq RootSet(Published)
<1>1. TypeOK /\ NoDangling /\ Frames
  BY DEF IInv
<1>2. DOMAIN Published = 1..Len(Published)
  BY <1>1, PublishedSlots, LenProperties
<1>3. \A d \in 1..depth : \A r \in Regs :
        env[d][r] \in Objects => env[d][r] \in RootSet(Published)
  BY <1>1, <1>2, PublishedCovers DEF RootSet, Range
<1>4. Range(globals) \cap Objects \subseteq RootSet(Published)
  BY DEF RootSet
<1>5. Range(<<>>) = {}
  BY DEF Range
<1> QED BY <1>3, <1>4, <1>5 DEF InUse, RootSet

\* So a collection at a safe point keeps all that is reachable from it.
LEMMA InUseKept ==
  ASSUME IInv, Running, NEW additional, NEW gc,
         gc \in {MaybeCollect(additional, Published), Uncollected}
  PROVE  heap \cap Marked(InUse) \subseteq gc.heap
<1>1. Marked(InUse) \subseteq Marked(RootSet(Published))
  BY InUseRooted, MarkedMonotone
<1> QED BY <1>1 DEF MaybeCollect, Collected, Uncollected

\* Only an allocation and a growing push change the heap or grow the account.
LEMMA HeapSteps ==
  ASSUME IInv, [Next]_vars
  PROVE  \/ heap' = heap /\ bytes' = bytes
         \/ Finish
         \/ \E r \in Regs, c \in Cell : Allocate(r, c)
         \/ \E a \in Regs : ArrayPush(a) \/ ScalarPush(a)
<1>1. CASE Instruction
  <2>1. CASE \E r \in Regs : RecordNew(r)
    <3>1. PICK r \in Regs, v \in Values \cup {Nil} :
            Allocate(r, [kind |-> "fixed", refs |-> <<v>>, extent |-> 0])
      BY <2>1 DEF RecordNew
    <3>2. v \in Ref
      BY RunningTypes DEF IInv, TypeOK, Ref
    <3>3. [kind |-> "fixed", refs |-> <<v>>, extent |-> 0] \in Cell
      BY <3>2 DEF Cell
    <3> QED BY <3>1, <3>3
  <2>2. CASE \E r \in Regs : ArrayNew(r) \/ StringNew(r)
    <3>1. PICK r \in Regs, k \in {"array", "scalars", "string"}, n \in Nat :
            Allocate(r, [kind |-> k, refs |-> <<>>, extent |-> n])
      BY <2>2, ConstantTypes DEF ArrayNew, StringNew
    <3>2. [kind |-> k, refs |-> <<>>, extent |-> n] \in Cell
      BY DEF Cell
    <3> QED BY <3>1, <3>2
  <2>3. CASE \E r \in Regs : Load(r)
    BY <2>3 DEF Load, heapVars
  <2>4. CASE \E r, a \in Regs : ArrayRemove(r, a)
    BY <2>4 DEF ArrayRemove
  <2>5. CASE \E a \in Regs : Store(a) \/ Die(a)
    BY <2>5 DEF Store, Die, heapVars
  <2>6. CASE \E g \in Globals : GlobalWrite(g) \/ \E r \in Regs : GlobalRead(r, g)
    BY <2>6 DEF GlobalWrite, GlobalRead, heapVars
  <2>7. CASE Jump \/ Return
    BY <2>7 DEF Jump, Return, ReturnTo, heapVars
  <2>8. CASE \E r \in Regs : \E arguments \in [Regs -> Values \cup {Dead}] : Call(r, arguments)
    BY <2>8 DEF Call, heapVars
  <2> QED BY <1>1, <2>1, <2>2, <2>3, <2>4, <2>5, <2>6, <2>7, <2>8 DEF Instruction
<1>2. CASE Stopped \/ UNCHANGED vars
  BY <1>2 DEF Stopped, vars, heapVars
<1> QED BY <1>1, <1>2 DEF Next

\* A collection releases only what no live register and no global reaches.
THEOREM OnlyGarbage == Spec => CollectsOnlyGarbage
<1> DEFINE A == status' # "finished" => heap \cap Marked(InUse) \subseteq heap'
<1>1. IInv /\ [Next]_vars => A
  <2> SUFFICES ASSUME IInv, [Next]_vars
               PROVE  A
    OBVIOUS
  <2>1. CASE \E r \in Regs, c \in Cell : Allocate(r, c)
    <3>1. PICK r \in Regs, c \in Cell : Allocate(r, c)
      BY <2>1
    <3>2. Running /\ MaybeCollect(Size(c), Published).heap \subseteq heap'
      BY <3>1 DEF Allocate
    <3> QED BY <3>2, InUseKept
  <2>2. CASE \E a \in Regs : ArrayPush(a) \/ ScalarPush(a)
    <3>1. PICK a \in Regs : ArrayPush(a) \/ ScalarPush(a)
      BY <2>2
    <3>2. Running /\ \E gc \in {MaybeCollect(Growth(env[depth][a]), Published), Uncollected} :
                       heap' = gc.heap
      BY <3>1 DEF ArrayPush, PushWith, ScalarPush, ScalarPushLeaving, PushInto, PushCharging
    <3> QED BY <3>2, InUseKept
  <2>3. CASE Finish
    BY <2>3 DEF Finish, FinishFrom
  <2> QED BY <2>1, <2>2, <2>3, HeapSteps
<1> QED BY <1>1, Invariance, PTL DEF Spec, CollectsOnlyGarbage

\* When a step passes the collection target, all unreachable objects are gone.
THEOREM Paced == Spec => PacedGrowth
<1> DEFINE A == bytes' > bytes /\ bytes' > target => heap \cap heap' \subseteq Marked(RootSet(temp'))
<1>1. IInv /\ [Next]_vars => A
  <2> SUFFICES ASSUME IInv, [Next]_vars, bytes' > bytes, bytes' > target
               PROVE  heap \cap heap' \subseteq Marked(RootSet(temp'))
    OBVIOUS
  <2>1. bytes \in Nat /\ target \in Int /\ TypeOK /\ NoDangling
    BY StorageFinite DEF IInv, TypeOK, Accounted
  <2>2. CASE \E r \in Regs, c \in Cell : Allocate(r, c)
    <3>1. PICK r \in Regs, c \in Cell : Allocate(r, c)
      BY <2>2
    <3> DEFINE gc == MaybeCollect(Size(c), Published)
    <3>2. PICK o \in Objects \ gc.heap :
            /\ heap' = gc.heap \cup {o} /\ bytes' = gc.bytes + Size(c) /\ temp' = Append(Published, o)
      BY <3>1 DEF Allocate
    <3>3. bytes + Size(c) > target
      BY <2>1, <3>2 DEF MaybeCollect, Uncollected
    <3>4. gc.heap \subseteq Marked(RootSet(Published))
      BY <3>3 DEF MaybeCollect, Collected
    <3> HIDE DEF gc
    <3>5. Published \in Seq(Ref) /\ Running
      BY <2>1, <3>1, PublishedSlots DEF Allocate, IInv
    <3>6. o \in RootSet(temp') /\ RootSet(Published) \subseteq RootSet(temp')
      <4>1. /\ DOMAIN Published = 1..Len(Published) /\ DOMAIN temp' = 1..(Len(Published) + 1)
            /\ Len(Published) \in Nat /\ temp'[Len(Published) + 1] = o
            /\ \A k \in 1..Len(Published) : temp'[k] = Published[k]
        <5>1. o \in Ref
          BY DEF Ref
        <5> QED BY <3>2, <3>5, <5>1, AppendProperties, LenProperties
      <4>2. \A k \in 1..Len(Published) : k \in 1..(Len(Published) + 1)
        BY <4>1
      <4>3. Range(Published) \subseteq Range(temp')
        BY <4>1, <4>2 DEF Range
      <4>4. Len(Published) + 1 \in 1..(Len(Published) + 1)
        BY <4>1
      <4>5. o \in Range(temp')
        BY <4>1, <4>4 DEF Range
      <4> QED BY <4>3, <4>5 DEF RootSet
    <3>7. Marked(RootSet(Published)) \subseteq Marked(RootSet(temp'))
      BY <3>6, MarkedMonotone
    <3>8. o \in Marked(RootSet(temp'))
      <4>1. RootSet(temp') \in SUBSET Objects
        BY DEF RootSet
      <4> QED BY <3>6, <4>1, MarkedRoots
    <3> QED BY <3>2, <3>4, <3>7, <3>8
  <2>3. CASE \E a \in Regs : ArrayPush(a) \/ ScalarPush(a)
    <3>1. PICK a \in Regs : ArrayPush(a) \/ ScalarPush(a)
      BY <2>3
    <3> DEFINE o == env[depth][a]
               gc == IF Full(o) THEN MaybeCollect(Growth(o), temp') ELSE Uncollected
    <3>2. \E ins : PushInto(o, ins, temp')
      BY <3>1 DEF ArrayPush, PushWith, ScalarPush, ScalarPushLeaving
    <3>3. heap' = gc.heap /\ bytes' = gc.bytes + Growth(o)
      BY <3>2 DEF PushInto, PushCharging
    <3>4. o \in Objects /\ cell[o].extent \in Nat
      BY <2>1, <3>1 DEF ArrayPush, PushWith, ScalarPush, ScalarPushLeaving, Holds, TypeOK, Cell
    <3>5. ~Full(o) => Growth(o) = 0
      BY <3>4 DEF Growth, NewCapacity
    <3>6. Growth(o) \in Int
      BY <3>4, ConstantTypes DEF Growth, NewCapacity
    <3>7. Full(o)
      BY <2>1, <3>3, <3>5 DEF Uncollected
    <3>8. bytes + Growth(o) > target
      BY <2>1, <3>3, <3>6, <3>7 DEF MaybeCollect, Uncollected
    <3> QED BY <3>3, <3>7, <3>8 DEF MaybeCollect, Collected
  <2>4. CASE Finish
    <3>1. bytes' = 0
      BY <2>4, FinishStep DEF IInv, FinishReleasesAll, Finish, FinishFrom
    <3> QED BY <2>1, <3>1
  <2>5. CASE bytes' = bytes
    BY <2>1, <2>5
  <2> QED BY <2>2, <2>3, <2>4, <2>5, HeapSteps
<1> QED BY <1>1, Invariance, PTL DEF Spec, PacedGrowth
===========================================================================
