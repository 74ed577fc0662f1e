---------------------------- MODULE ArrayBacking ----------------------------
(***************************************************************************)
(* The buffers behind the arrays of a compiled program and the cache of    *)
(* released ones: trbn_array_backing_new, _release and _flush of           *)
(* runtime/managed_storage.trb, with the constructors, copies, mutations   *)
(* and the sweep that use them.                                            *)
(*                                                                         *)
(* A buffer is the sequence of its words, empty while libc has it.  Cached *)
(* buffers are chained through their first word.  Which arrays a           *)
(* collection finds unreachable is the program's choice (module            *)
(* ManagedHeap says which it may find); it never includes the operands of  *)
(* the operation that collects.  That the heap paces its collections and   *)
(* accounts the bytes is ManagedHeap's subject too.                        *)
(***************************************************************************)
EXTENDS Integers, FiniteSets, FiniteSetsExt, SequencesExt

CONSTANTS
  Arrays,        \* addresses of array headers
  Buffers,       \* addresses libc can return, reused once freed
  NoBuffer,      \* the null pointer
  Element,       \* a word the program stored
  Undefined,     \* a word nobody stored: behind the old size after realloc
  Small,         \* capacity of a buffer that is cached (4)
  CacheLimit,    \* buffers the cache keeps (8192)
  MaxLength      \* bound: elements of an array

ASSUME BackingAssumption ==
  /\ IsFiniteSet(Arrays) /\ IsFiniteSet(Buffers)
  /\ NoBuffer \notin Buffers /\ {Element, Undefined} \cap (Buffers \cup {NoBuffer}) = {}
  /\ {Small, CacheLimit, MaxLength} \subseteq Nat /\ Small > 0

VARIABLES
  word,      \* words of each buffer; the null word is NoBuffer
  cache,     \* trbn_array_backing_cache: first buffer and count
  array,     \* header words of each array: data, capacity, length
  heap,      \* the arrays that exist, as the sweep meets them
  status     \* running, finished or fatal

buffer_vars == <<word, cache, array, heap, status>>

Absent == [data |-> NoBuffer, capacity |-> 0, length |-> 0]
Zeros(n) == [i \in 1..n |-> NoBuffer]
Elements(n) == [i \in 1..n |-> Element]
Memory == [word |-> word, cache |-> cache]
Unallocated(m) == {b \in Buffers : m.word[b] = <<>>}

---------------------------------------------------------------------------
(* Buffers.  An operation that obtains one yields the set of its outcomes, *)
(* which is empty when libc has no memory.                                 *)

calloc(m, n) == {[memory |-> [m EXCEPT !.word[b] = Zeros(n)], data |-> b] : b \in Unallocated(m)}

\* In place or moved; the words behind the old size are whatever was there.
realloc(m, b, n) ==
  LET grown == m.word[b] \o [i \in 1..(n - Len(m.word[b])) |-> Undefined]
  IN  {[memory |-> [m EXCEPT !.word[b] = <<>>, !.word[c] = grown], data |-> c] :
         c \in Unallocated(m) \cup {b}}

\* trbn_array_backing_new without the memset.
Popped(m) ==
  LET b == m.cache.head
  IN  {[memory |-> [m EXCEPT !.cache = [head |-> m.word[b][1], count |-> @.count - 1]], data |-> b]}

\* Mutant of backing_new: a cached buffer is handed out as it was left.
backing_newUncleared(m) == IF m.cache.head = NoBuffer THEN calloc(m, Small) ELSE Popped(m)

\* trbn_array_backing_new: the first cached buffer, cleared, before a new one.
backing_new(m) ==
  IF m.cache.head = NoBuffer THEN calloc(m, Small)
  ELSE {[o EXCEPT !.memory.word[o.data] = Zeros(Small)] : o \in Popped(m)}

\* trbn_array_backing_release
backing_release(m, r) ==
  IF r.capacity = Small /\ m.cache.count < CacheLimit
  THEN [m EXCEPT !.word[r.data][1] = m.cache.head,
                 !.cache = [head |-> r.data, count |-> @.count + 1]]
  ELSE [m EXCEPT !.word[r.data] = <<>>]

\* The buffers on the chain: the least set with the first one and every next one.
Chained(m) ==
  {b \in Buffers : \A S \in SUBSET Buffers :
     /\ m.cache.head \in S \cup {NoBuffer}
     /\ \A c \in S : m.word[c] # <<>> => m.word[c][1] \in S \cup {NoBuffer}
     => b \in S}

EmptyCache == [head |-> NoBuffer, count |-> 0]

\* trbn_array_backing_flush
backing_flush(m) ==
  [word |-> [b \in Buffers |-> IF b \in Chained(m) THEN <<>> ELSE m.word[b]], cache |-> EmptyCache]

\* One object of the sweep; a header has its buffer outside its constructor.
Visit(s, a, dead) ==
  IF a \in dead THEN [s EXCEPT !.memory = backing_release(@, array[a])]
                ELSE [s EXCEPT !.kept = Append(@, a)]

\* trbn_gc_sweep, as far as arrays go: the objects in the order of the heap's list.
Sweep(dead) ==
  LET sweep[n \in 0..Len(heap)] ==
        IF n = 0 THEN [memory |-> Memory, kept |-> <<>>] ELSE Visit(sweep[n - 1], heap[n], dead)
  IN  sweep[Len(heap)]

\* What a collection leaves: the memory, the headers and the list.
Swept(dead) == Sweep(dead).memory
Survivors(dead) == [a \in Arrays |-> IF a \in dead THEN Absent ELSE array[a]]
Kept(dead) == Sweep(dead).kept
Exist == {heap[i] : i \in DOMAIN heap}

---------------------------------------------------------------------------
(* Operations.  Each may collect first; the set of unreachable arrays is   *)
(* empty when it does not.                                                 *)

Failed ==
  /\ status' = "fatal"
  /\ UNCHANGED <<word, cache, array, heap>>

\* Headers and elements of a new array; allocation failure is fatal.
Construct(a, dead, obtained, capacity, elements) ==
  /\ status = "running"
  /\ dead \subseteq Exist /\ a \notin Exist \ dead
  /\ \/ obtained = {} /\ Failed
     \/ \E o \in obtained :
          /\ word' = [o.memory.word EXCEPT ![o.data] =
                        elements \o SubSeq(@, Len(elements) + 1, Len(@))]
          /\ cache' = o.memory.cache
          /\ array' = [Survivors(dead) EXCEPT ![a] =
                         [data |-> o.data, capacity |-> capacity, length |-> Len(elements)]]
          /\ heap' = <<a>> \o Kept(dead)
          /\ UNCHANGED status

\* trbn_array_new, for an array that starts empty.
New(a, dead) == Construct(a, dead, backing_new(Swept(dead)), Small, <<>>)

\* trbn_array_new_reserved: the hint decides the capacity, the cache is not asked.
NewReserved(a, dead, requested) ==
  LET capacity == Max({Small, requested})
  IN  Construct(a, dead, calloc(Swept(dead), capacity), capacity, <<>>)

\* trbn_array_copy of count elements, from the start, from within or reversed.
Copy(a, dead, source, count) ==
  /\ source \in Exist \ dead /\ count <= array[source].length
  /\ LET capacity == Max({Small, count})
     IN  Construct(a, dead, calloc(Swept(dead), capacity), capacity,
                   SubSeq(word[array[source].data], 1, count))

\* The capacities trbn_literal_split tries, enough of them for any count.
Fourfold(count) ==
  LET grown[i \in 0..count] == IF i = 0 THEN Small ELSE 4 * grown[i - 1]
  IN  {grown[i] : i \in 0..count}

\* trbn_literal_split: the first capacity that is enough; the smallest is cached.
LiteralSplit(a, dead, count) ==
  LET capacity == Min({c \in Fourfold(count) : c >= count})
      m        == Swept(dead)
  IN  Construct(a, dead, IF capacity = Small THEN backing_new(m) ELSE calloc(m, capacity),
                capacity, Elements(count))

\* The storing branch of the push functions.
PushStore(a) ==
  LET r == array[a]
  IN  /\ status = "running" /\ a \in Exist
      /\ r.length < r.capacity /\ r.length < MaxLength
      /\ word' = [word EXCEPT ![r.data][r.length + 1] = Element]
      /\ array' = [array EXCEPT ![a].length = @ + 1]
      /\ UNCHANGED <<cache, heap, status>>

\* Their growing branch: trbn_array_push_paced fourfold, trbn_array_push and
\* trbn_array_push_d double; all but trbn_array_push may collect first.
PushGrow(a, dead, factor) ==
  LET r        == array[a]
      obtained == realloc(Swept(dead), r.data, factor * r.capacity)
  IN  /\ status = "running" /\ a \in Exist \ dead /\ dead \subseteq Exist
      /\ r.length = r.capacity /\ r.length < MaxLength
      /\ \/ Unallocated(Swept(dead)) = {} /\ Failed
         \/ \E o \in obtained :
              /\ word' = [o.memory.word EXCEPT ![o.data][r.length + 1] = Element]
              /\ cache' = o.memory.cache
              /\ array' = [Survivors(dead) EXCEPT ![a] =
                             [data |-> o.data, capacity |-> factor * r.capacity,
                              length |-> r.length + 1]]
              /\ heap' = Kept(dead)
              /\ UNCHANGED status

\* trbn_array_remove: pop and shift both vacate the last word.
TakeLast(a) ==
  LET r == array[a]
  IN  /\ status = "running" /\ a \in Exist /\ r.length > 0
      /\ word' = [word EXCEPT ![r.data][r.length] = NoBuffer]
      /\ array' = [array EXCEPT ![a].length = @ - 1]
      /\ UNCHANGED <<cache, heap, status>>

\* A collection for another kind of object.
Collect(dead) ==
  /\ status = "running" /\ dead \subseteq Exist
  /\ word' = Swept(dead).word /\ cache' = Swept(dead).cache
  /\ array' = Survivors(dead) /\ heap' = Kept(dead)
  /\ UNCHANGED status

\* trbn_gc_finish with statistics or tracing: collects everything, then flushes.
Finish ==
  LET m == backing_flush(Swept(Exist))
  IN  /\ status = "running"
      /\ word' = m.word /\ cache' = m.cache
      /\ array' = Survivors(Exist) /\ heap' = <<>>
      /\ status' = "finished"

Ended == status # "running" /\ UNCHANGED buffer_vars

BuffersInit ==
  /\ word = [b \in Buffers |-> <<>>]
  /\ cache = EmptyCache
  /\ array = [a \in Arrays |-> Absent]
  /\ heap = <<>>
  /\ status = "running"

BuffersNext ==
  \/ \E dead \in SUBSET Arrays :
       \/ Collect(dead)
       \/ \E a \in Arrays :
            \/ New(a, dead)
            \/ \E n \in 0..MaxLength : NewReserved(a, dead, n)
            \/ \E n \in 1..MaxLength : LiteralSplit(a, dead, n)
            \/ \E source \in Arrays, n \in 0..MaxLength : Copy(a, dead, source, n)
            \/ \E factor \in {2, 4} : PushGrow(a, dead, factor)
  \/ \E a \in Arrays : PushStore(a) \/ TakeLast(a)
  \/ Finish
  \/ Ended

BuffersSpec == BuffersInit /\ [][BuffersNext]_buffer_vars

---------------------------------------------------------------------------
(* Properties.                                                             *)

Owned == {array[a].data : a \in Exist}

\* Every buffer taken from libc is either the buffer of one array, of its capacity,
\* or one of the cache's, whose chain and count agree and stay within the limit; an
\* array reads only words stored in it, and an unused word of a buffer that was never
\* resized is null: nothing of an earlier array or of the chain shows through.  After
\* the final flush libc has everything back.
BackingExact ==
  /\ \A a, b \in Exist : array[a].data = array[b].data => a = b
  /\ Owned \cap Chained(Memory) = {}
  /\ Owned \cup Chained(Memory) = Buffers \ Unallocated(Memory)
  /\ cache.count = Cardinality(Chained(Memory)) /\ cache.count <= CacheLimit
  /\ \A b \in Chained(Memory) : Len(word[b]) = Small
  /\ \A a \in Exist : LET r == array[a] IN
       /\ Len(word[r.data]) = r.capacity
       /\ \A i \in 1..r.length : word[r.data][i] = Element
       /\ r.capacity = Small => \A i \in (r.length + 1)..Small : word[r.data][i] = NoBuffer
  /\ status = "finished" => Unallocated(Memory) = Buffers
=============================================================================
