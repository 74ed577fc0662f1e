---------------------------- MODULE ManagedHeap ----------------------------
(***************************************************************************)
(* The managed heap of a compiled TypeRB program: the tracing collector,   *)
(* the temporary-root buffer that compiled functions publish their live    *)
(* registers into, and the byte account that paces collections.            *)
(*                                                                         *)
(* The runtime is the QBE text emitted by backend/qbe/runtime/system.trb   *)
(* (trbn_gc_*, trbn_array_push_paced), runtime/array_construction.trb and  *)
(* runtime/array_mutations.trb; the protocol of the compiled code is the   *)
(* one of backend/qbe/emit/roots.trb, emit/functions.trb and               *)
(* emit/control.trb.  There is one mutator and a collection runs inside an *)
(* allocation, so an instruction and the collection it triggers are one    *)
(* step.                                                                   *)
(*                                                                         *)
(* Registers are MIR value identities, so inside one block a register is   *)
(* defined once.  Nil stands for nil and for the static strings, whose     *)
(* descriptor word is 0: the collector ignores both.                       *)
(***************************************************************************)
EXTENDS Integers, Sequences, FiniteSets, Functions

CONSTANTS
  Objects,        \* addresses trbn_storage_alloc can return
  Kinds,          \* the kinds of object the program allocates
  Globals,        \* registered managed global storage slots
  Regs,           \* MIR values of a function; an ordered set of numbers
  Nil,            \* nil or a static string
  Dead,           \* content of a register that is not live
  Junk,           \* content of a root slot nobody has written
  MaxDepth,       \* bound: nested compiled calls
  MaxCapacity,    \* bound: elements an array's backing may grow to
  MinCapacity,    \* capacity of a new array (4 in the code)
  GrowthFactor,   \* growth of a full array: its capacity shl 2, so 4
  RootsInitial,   \* first capacity of the root buffer (64)
  MinTarget,      \* smallest collection target (1048576)
  Slack           \* constant part of the collection target (65536)

ASSUME ManagedHeapAssumption ==
  /\ Nil \notin Objects /\ Dead \notin Objects /\ Junk \notin Objects
  /\ Nil # Dead /\ Nil # Junk /\ Dead # Junk
  /\ IsFiniteSet(Objects)
  /\ Kinds \subseteq {"fixed", "array", "scalars", "string"}
  /\ IsFiniteSet(Regs) /\ Regs \subseteq Nat
  /\ {MaxDepth, MaxCapacity, MinCapacity, GrowthFactor, RootsInitial} \subseteq Nat \ {0}
  /\ {MinTarget, Slack} \subseteq Nat

VARIABLES
  heap,      \* objects linked in trbn_gc_heap
  cell,      \* kind, references and extent of every object
  bytes,     \* trbn_gc_heap_bytes
  target,    \* trbn_gc_heap_target
  temp,      \* the published slots of the root buffer, trbn_gc_temp_count of them
  capacity,  \* trbn_gc_temp_capacity
  globals,   \* managed global storage
  depth,     \* number of active compiled functions
  base,      \* %temporary_roots of each active function
  env,       \* registers of each active function
  prev,      \* root list published last in the current block
  dest,      \* register that receives the result of the pending call
  status     \* running, or finished: main has returned

heapVars == <<heap, cell, bytes, target>>
rootVars == <<temp, capacity>>
frameVars == <<depth, base, env, prev, dest>>
vars == <<heapVars, rootVars, globals, frameVars, status>>

Ref == Objects \cup {Nil}
Depths == 1..MaxDepth
Free == [kind |-> "free", refs |-> <<>>, extent |-> 0]

\* Bytes an object accounts for: header and payload, and an array's backing.
Size(c) ==
  CASE c.kind = "fixed"               -> 24
    [] c.kind \in {"array", "scalars"} -> 40 + 8 * c.extent
    [] c.kind = "string"              -> 33 + c.extent
    [] OTHER                          -> 0

---------------------------------------------------------------------------
(* The collector.                                                          *)

\* References a mark follows: strings and scalar arrays hold none.
Succ(o) == IF cell[o].kind \in {"fixed", "array"} THEN Range(cell[o].refs) \ {Nil} ELSE {}

Closed(S) == \A o \in S : Succ(o) \subseteq S

\* trbn_gc_mark reaches the least closed set that holds the roots.
Marked(roots) ==
  {o \in Objects : \A S \in SUBSET Objects : roots \subseteq S /\ Closed(S) => o \in S}

RootSet(tmp) == (Range(tmp) \cup Range(globals)) \cap Objects

NextTarget(live) == IF 2 * live + Slack < MinTarget THEN MinTarget ELSE 2 * live + Slack

\* Storage of the objects of S, whose content is c: one pair for each byte.
Storage(c, S) == UNION {{o} \X (1..Size(c[o])) : o \in S}

\* trbn_gc_collect: mark the global storage and the published slots, release the rest.
Collected(roots) ==
  LET kept == heap \cap Marked(roots)
      live == bytes - Cardinality(Storage(cell, heap \ kept))
  IN  [heap |-> kept, bytes |-> live, target |-> NextTarget(live)]

Uncollected == [heap |-> heap, bytes |-> bytes, target |-> target]

\* Mutant of MaybeCollect: the request is not added to the projection.
MaybeCollectLate(additional, tmp) ==
  IF bytes > target THEN Collected(RootSet(tmp)) ELSE Uncollected

\* trbn_gc_maybe_collect(additional)
MaybeCollect(additional, tmp) ==
  IF bytes + additional > target THEN Collected(RootSet(tmp)) ELSE Uncollected

\* What the object table holds once only the objects of H are allocated.
Remaining(H) == [o \in Objects |-> IF o \in H THEN cell[o] ELSE Free]

---------------------------------------------------------------------------
(* The root buffer.                                                        *)

\* trbn_gc_temp_grow: the append of one root at position n + 1.
GrownFor(n, cap) ==
  IF n < cap THEN cap ELSE IF cap = 0 THEN RootsInitial ELSE 2 * cap

\* Mutant of Reserved: a buffer that exists is taken to be large enough.
ReservedOnce(required, cap) == IF cap = 0 THEN {RootsInitial} ELSE {cap}

\* trbn_gc_temp_reserve(required): the capacity it doubles its way to.
Reserved(required, cap) ==
  LET first == IF cap = 0 THEN RootsInitial ELSE cap
  IN  IF required <= cap THEN {cap}
      ELSE {c \in required..(first + 2 * required) :
              /\ \E k \in 0..required : c = first * 2^k
              /\ c = first \/ c < 2 * required}

\* trbn_gc_temp_push(value)
PushRoot(tmp, v) == IF v = Nil THEN tmp ELSE Append(tmp, v)

Live == {r \in Regs : env[depth][r] # Dead}
Values == {env[depth][r] : r \in Live}

\* mir_live_add keeps root lists sorted: slot of register r in the list of S.
Position(S, r) == Cardinality({x \in S : x <= r})

\* Mutant of CommonPrefix: the lists are compared by membership, not by position.
CommonMembers(P, C, r) == r \in P

\* qbe_root_common_prefix: the lists of P and C agree up to and including r.
CommonPrefix(P, C, r) == {x \in P : x <= r} = {x \in C : x <= r}

Slot(k) == IF k <= Len(temp) THEN temp[k] ELSE Junk

\* emit_mir_roots: write the slots behind the common prefix, then set the count.
Published ==
  LET b == base[depth]
      value(r) == IF CommonPrefix(prev[depth], Live, r)
                  THEN Slot(b + Position(Live, r))
                  ELSE env[depth][r]
  IN  [k \in 1..(b + Cardinality(Live)) |->
         IF k <= b THEN Slot(k)
         ELSE value(CHOOSE r \in Live : Position(Live, r) = k - b)]

---------------------------------------------------------------------------
(* Instructions of the running function.                                   *)

Running == status = "running"

\* A block defines a MIR value once, so never one it has already published.
Definable == Regs \ (Live \cup prev[depth])

Define(r, v) ==
  /\ r \in Definable
  /\ env' = [env EXCEPT ![depth][r] = v]

\* emit_mir_roots, trbn_gc_alloc and the stores that fill the new object.
Allocate(r, c) ==
  LET tmp == Published
      gc  == MaybeCollect(Size(c), tmp)
  IN  /\ Running
      /\ c.kind \in Kinds
      /\ \E o \in Objects \ gc.heap :
           /\ heap' = gc.heap \cup {o}
           /\ cell' = [Remaining(gc.heap) EXCEPT ![o] = c]
           /\ bytes' = gc.bytes + Size(c)
           /\ target' = gc.target
           /\ temp' = Append(tmp, o)
           /\ capacity' = GrownFor(Len(tmp), capacity)
           /\ prev' = [prev EXCEPT ![depth] = Live]
           /\ Define(r, o)
           /\ UNCHANGED <<globals, depth, base, dest, status>>

\* A record, enum or object with one managed field, initialised from an operand.
RecordNew(r) == \E v \in Values \cup {Nil} :
  Allocate(r, [kind |-> "fixed", refs |-> <<v>>, extent |-> 0])

\* trbn_array_new: the backing bytes are reserved by trbn_gc_alloc's estimate.
ArrayNew(r) == \E k \in {"array", "scalars"} :
  Allocate(r, [kind |-> k, refs |-> <<>>, extent |-> MinCapacity])

\* trbn_string_alloc and the constructor that stores the length.
StringNew(r) == Allocate(r, [kind |-> "string", refs |-> <<>>, extent |-> 0])

\* The object in register a is one of the given kinds.
Holds(a, kinds) == env[depth][a] \in Objects /\ cell[env[depth][a]].kind \in kinds

Full(o) == Len(cell[o].refs) = cell[o].extent
NewCapacity(o) == IF Full(o) THEN GrowthFactor * cell[o].extent ELSE cell[o].extent

\* trbn_array_push_paced and trbn_array_grow_paced on array o, whose elements become
\* ins: a full array may collect before its backing is reallocated and charged.
Growth(o) == 8 * (NewCapacity(o) - cell[o].extent)

PushCharging(o, ins, tmp, charge) ==
  LET gc == IF Full(o) THEN MaybeCollect(Growth(o), tmp) ELSE Uncollected
  IN  /\ NewCapacity(o) <= MaxCapacity
      /\ heap' = gc.heap
      /\ cell' = [Remaining(gc.heap) EXCEPT
                    ![o] = [cell[o] EXCEPT !.refs = ins, !.extent = NewCapacity(o)]]
      /\ bytes' = gc.bytes + charge
      /\ target' = gc.target

\* Mutant of PushInto: growth is paced but never charged.
PushIntoUncharged(o, ins, tmp) == PushCharging(o, ins, tmp, 0)
PushInto(o, ins, tmp) == PushCharging(o, ins, tmp, Growth(o))

\* array_push and trbn_array_unshift on a managed array, with the roots in tmp.
PushWith(a, tmp) ==
  LET o == env[depth][a]
  IN  /\ Running
      /\ Holds(a, {"array"})
      /\ \E v \in Values \cup {Nil} :
           \E ins \in {Append(cell[o].refs, v), <<v>> \o cell[o].refs} : PushInto(o, ins, tmp)
      /\ temp' = tmp
      /\ prev' = [prev EXCEPT ![depth] = Live]
      /\ UNCHANGED <<capacity, globals, depth, base, env, dest, status>>

\* Mutant of ArrayPush: the growing push is not treated as a safe point.
ArrayPushUnrooted(a) == PushWith(a, temp)
ArrayPush(a) == PushWith(a, Published)

\* emit_integer_array_push: only the growing branch publishes.
ScalarPushLeaving(a, list) ==
  LET o   == env[depth][a]
      tmp == IF Full(o) THEN Published ELSE temp
  IN  /\ Running
      /\ Holds(a, {"scalars"})
      /\ PushInto(o, Append(cell[o].refs, Nil), tmp)
      /\ temp' = tmp
      /\ prev' = [prev EXCEPT ![depth] = list]
      /\ UNCHANGED <<capacity, globals, depth, base, env, dest, status>>

\* Mutant of ScalarPush: the storing branch also counts as having published.
ScalarPushKeepsPrefix(a) == ScalarPushLeaving(a, Live)

\* The next safe point of the block may not rely on slots one branch wrote.
ScalarPush(a) == ScalarPushLeaving(a, {})

\* trbn_array_remove on a nonempty array: pop or shift.
ArrayRemove(r, a) ==
  LET o  == env[depth][a]
      es == cell[o].refs
  IN  /\ Running
      /\ Holds(a, {"array"}) /\ es # <<>>
      /\ \/ Define(r, es[Len(es)]) /\ cell' = [cell EXCEPT ![o].refs = SubSeq(es, 1, Len(es) - 1)]
         \/ Define(r, Head(es)) /\ cell' = [cell EXCEPT ![o].refs = Tail(es)]
      /\ UNCHANGED <<heap, bytes, target, rootVars, globals, depth, base, prev, dest, status>>

\* Field, element and value reads: the result is not rooted until the next safe point.
Load(r) ==
  /\ Running
  /\ \E a \in Live :
       \/ Define(r, env[depth][a])
       \/ /\ Holds(a, {"fixed", "array"})
          /\ \E v \in Range(cell[env[depth][a]].refs) : Define(r, v)
  /\ UNCHANGED <<heapVars, rootVars, globals, depth, base, prev, dest, status>>

\* object_store and array_store.
Store(a) ==
  LET o == env[depth][a]
  IN  /\ Running
      /\ Holds(a, {"fixed", "array"})
      /\ \E i \in DOMAIN cell[o].refs, v \in Values \cup {Nil} :
           cell' = [cell EXCEPT ![o].refs[i] = v]
      /\ UNCHANGED <<heap, bytes, target, rootVars, globals, frameVars, status>>

\* emit_mir_global_read and emit_mir_global_write on an initialised global.
GlobalRead(r, g) ==
  /\ Running
  /\ Define(r, globals[g])
  /\ UNCHANGED <<heapVars, rootVars, globals, depth, base, prev, dest, status>>

GlobalWrite(g) ==
  /\ Running
  /\ \E v \in Values : globals' = [globals EXCEPT ![g] = v]
  /\ UNCHANGED <<heapVars, rootVars, frameVars, status>>

\* The last use of x is behind the program counter.
Die(x) ==
  /\ Running
  /\ x \in Live
  /\ env' = [env EXCEPT ![depth][x] = Dead]
  /\ UNCHANGED <<heapVars, rootVars, globals, depth, base, prev, dest, status>>

\* A block edge: the target block starts with previous_roots empty.
Jump ==
  /\ Running
  /\ prev' = [prev EXCEPT ![depth] = {}]
  /\ UNCHANGED <<heapVars, rootVars, globals, depth, base, env, dest, status>>

---------------------------------------------------------------------------
(* Calls.                                                                  *)

NoRegisters == [r \in Regs |-> Dead]

\* A direct call: publish the caller's roots, enter the callee, which records the
\* count as its watermark and reserves the peak of its own root plan.
Call(r, arguments) ==
  /\ Running
  /\ depth < MaxDepth
  /\ r \in Definable
  /\ temp' = Published
  /\ capacity' \in Reserved(Len(Published) + Cardinality(Regs), capacity)
  /\ depth' = depth + 1
  /\ base' = [base EXCEPT ![depth + 1] = Len(Published)]
  /\ env' = [env EXCEPT ![depth + 1] = arguments]
  /\ prev' = [prev EXCEPT ![depth] = Live, ![depth + 1] = {}]
  /\ dest' = [dest EXCEPT ![depth] = r]
  /\ UNCHANGED <<heapVars, globals, status>>

\* @return: restore the watermark, push a managed result, resume the caller.
ReturnTo(watermark) ==
  LET tmp == SubSeq(temp, 1, watermark)
  IN  /\ Running
      /\ depth > 1
      /\ \E v \in Values \cup {Nil} :
           /\ temp' = PushRoot(tmp, v)
           /\ capacity' = IF v = Nil THEN capacity ELSE GrownFor(Len(tmp), capacity)
           /\ env' = [env EXCEPT ![depth - 1][dest[depth - 1]] = v, ![depth] = NoRegisters]
      /\ depth' = depth - 1
      /\ base' = [base EXCEPT ![depth] = 0]
      /\ prev' = [prev EXCEPT ![depth] = {}]
      /\ dest' = [dest EXCEPT ![depth - 1] = Nil]
      /\ UNCHANGED <<heapVars, globals, status>>

\* Mutant of Return: the watermark is restored one slot too low.
ReturnBelowWatermark == ReturnTo(base[depth] - 1)
Return == ReturnTo(base[depth])

---------------------------------------------------------------------------
(* Process start and end.                                                  *)

\* The entry function has reserved its roots; globals are registered and zero.
Init ==
  /\ heap = {} /\ cell = [o \in Objects |-> Free]
  /\ bytes = 0 /\ target = MinTarget
  /\ temp = <<>> /\ capacity \in Reserved(Cardinality(Regs), 0)
  /\ globals = [g \in Globals |-> Nil]
  /\ depth = 1 /\ base = [d \in Depths |-> 0]
  /\ env = [d \in Depths |-> NoRegisters]
  /\ prev = [d \in Depths |-> {}]
  /\ dest = [d \in Depths |-> Nil]
  /\ status = "running"

\* trbn_gc_finish when statistics or tracing are enabled: the last collection.
FinishFrom(roots) ==
  LET gc == Collected(roots)
  IN  /\ Running
      /\ depth = 1
      /\ heap' = gc.heap /\ cell' = Remaining(gc.heap)
      /\ bytes' = gc.bytes /\ target' = gc.target
      /\ temp' = <<>> /\ globals' = [g \in Globals |-> Nil]
      /\ env' = [env EXCEPT ![1] = NoRegisters]
      /\ status' = "finished"
      /\ UNCHANGED <<capacity, depth, base, prev, dest>>

\* Mutant of Finish: the temporary roots are still published at the last collection.
FinishKeepsRoots == FinishFrom(RootSet(temp))
\* The root counts are cleared before the last collection.
Finish == FinishFrom({})

Stopped == ~Running /\ UNCHANGED vars

Instruction ==
  \/ \E r \in Regs : RecordNew(r) \/ ArrayNew(r) \/ StringNew(r) \/ Load(r)
  \/ \E r, a \in Regs : ArrayRemove(r, a)
  \/ \E a \in Regs : ArrayPush(a) \/ ScalarPush(a) \/ Store(a) \/ Die(a)
  \/ \E g \in Globals : GlobalWrite(g) \/ \E r \in Regs : GlobalRead(r, g)
  \/ Jump
  \/ \E r \in Regs : \E arguments \in [Regs -> Values \cup {Dead}] : Call(r, arguments)
  \/ Return

Next == Instruction \/ Finish \/ Stopped

Spec == Init /\ [][Next]_vars
---------------------------------------------------------------------------
(* Properties.                                                             *)

Cell == [kind : {"free", "fixed", "array", "scalars", "string"}, refs : Seq(Ref), extent : Nat]

\* Every variable has its type; a released object keeps no content.
TypeOK ==
  /\ heap \subseteq Objects
  /\ cell \in [Objects -> Cell]
  /\ bytes \in Int /\ target \in Int
  /\ temp \in Seq(Ref) /\ capacity \in Nat
  /\ globals \in [Globals -> Ref]
  /\ depth \in Depths
  /\ base \in [Depths -> Nat]
  /\ env \in [Depths -> [Regs -> Ref \cup {Dead}]]
  /\ prev \in [Depths -> SUBSET Regs]
  /\ dest \in [Depths -> Regs \cup {Nil}]
  /\ status \in {"running", "finished"}

Valid(v) == v \in heap \cup {Nil}

\* Registers of an active function never hold a released object, whatever
\* collections its callees ran (emit_mir_roots publishes the live-before set).
RegistersValid ==
  \A d \in 1..depth : \A r \in Regs : env[d][r] = Dead \/ Valid(env[d][r])

\* Global storage, published root slots and the fields of allocated objects hold
\* no released object: trbn_gc_mark never reads freed storage.
TracedValid ==
  /\ \A g \in Globals : Valid(globals[g])
  /\ \A k \in 1..Len(temp) : Valid(temp[k])
  /\ \A o \in heap : \A i \in DOMAIN cell[o].refs : Valid(cell[o].refs[i])

\* No live register, root, global or field refers to released storage.
NoDangling == RegistersValid /\ TracedValid

\* While a callee runs, each live register of a suspended caller is in a slot
\* below the callee's watermark, where nothing overwrites it.
CallersRooted ==
  \A d \in 1..(depth - 1) : \A r \in Regs :
    env[d][r] \in Objects => \E k \in 1..base[d + 1] : temp[k] = env[d][r]

\* The byte account equals the storage of the linked objects, so the sweep
\* subtracts exactly what allocation and array growth have added.
Accounted == bytes = Cardinality(Storage(cell, heap))

\* Published roots stay inside the root buffer: reserving the plan's peak at
\* function entry and growing on append cover every write.
RootBufferFits == Len(temp) <= capacity

\* The final collection of trbn_gc_finish releases every object and byte.
FinishReleasesAll == status = "finished" => heap = {} /\ bytes = 0

\* A step passes the collection target only with everything unreachable gone:
\* the estimate given to trbn_gc_maybe_collect covers backing storage too.
PacedGrowth ==
  [][bytes' > bytes /\ bytes' > target => heap \cap heap' \subseteq Marked(RootSet(temp'))]_vars

\* A collection releases only what no live register and no global reaches.
InUse == (RootSet(<<>>) \cup {env[d][r] : d \in 1..depth, r \in Regs}) \cap Objects
CollectsOnlyGarbage ==
  [][status' # "finished" => heap \cap Marked(InUse) \subseteq heap']_vars
===========================================================================
