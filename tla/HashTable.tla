----------------------------- MODULE HashTable -----------------------------
(***************************************************************************)
(* The Hash values of a compiled program: runtime/hash_runtime.trb and     *)
(* runtime/hash_key_runtime.trb, with the reuse of a probed slot that      *)
(* analysis/hash_lookup.trb and analysis/hash_membership.trb plan and      *)
(* emit/hashes.trb emits.                                                  *)
(*                                                                         *)
(* A table is two arrays of words, keys and values, probed linearly from   *)
(* the hash code of a key.  A deleted key leaves a tombstone.  A step is   *)
(* one instruction of a straight path through a function; held is the slot *)
(* the emitted code may use again at the next access, as the plans decide. *)
(* Scalar instructions change nothing of this and are stuttering steps.    *)
(***************************************************************************)
EXTENDS Integers, FiniteSets, FiniteSetsExt, SequencesExt

CONSTANTS
  Tables,         \* variables of the program that hold a Hash
  Keys,           \* Integer keys of the program
  MaxInteger,     \* the largest portable Integer (2^53 - 1)
  Values,         \* values stored
  Code,           \* trbn_hash_code of each encoded key
  Smallest,       \* capacity of the first arrays of a table (8)
  Sparse,         \* a table shrinks below this share of its capacity (8)
  MaxEntries      \* bound: entries of a literal

\* Words of the key array that are no key, and of a value that was removed.
Vacant == 0
Tombstone == -1
Cleared == 0

\* trbn_hash_key: an encoded Integer is neither vacant nor a tombstone.
Encode(k) == k + MaxInteger + 1
Decode(word) == word - (MaxInteger + 1)

\* A table that shrinks to half its arrays has room there for its entries.
ASSUME HashAssumption ==
  /\ MaxInteger \in Nat /\ Keys \subseteq -MaxInteger..MaxInteger
  /\ \A k \in Keys : Code[Encode(k)] \in Nat
  /\ {Smallest, Sparse} \subseteq Nat /\ Smallest > 1 /\ Sparse > 2
  /\ MaxEntries \in Nat /\ Cleared \notin Values

VARIABLES
  tables,    \* the table each variable holds
  held       \* at most one slot, with the access that probed it

table_vars == <<tables, held>>

Fresh(capacity) ==
  [capacity |-> capacity, count |-> 0, tombs |-> 0,
   keys |-> [i \in 0..(capacity - 1) |-> Vacant],
   values |-> [i \in 0..(capacity - 1) |-> Cleared]]

\* mir_hash_capacity: room for the entries of a literal at three quarters load.
CapacityFor(entries) ==
  LET doubled[i \in 0..entries] == IF i = 0 THEN Smallest ELSE 2 * doubled[i - 1]
  IN  IF entries = 0 THEN 0
      ELSE Min({c \in {doubled[i] : i \in 0..entries} : entries <= (c \div 4) * 3})

---------------------------------------------------------------------------
(* Probing and insertion.                                                  *)

\* trbn_hash_slot: the slot of the key or, negative, the one to insert it at: the
\* first tombstone on the way, or the vacant slot that ends the probe.
Slot(t, key) ==
  LET at(i) == (Code[key] + i) % t.capacity
      last  == Min({i \in 0..(t.capacity - 1) : t.keys[at(i)] \in {key, Vacant}})
      tombs == {i \in 0..(last - 1) : t.keys[at(i)] = Tombstone}
  IN  IF t.capacity = 0 THEN -1
      ELSE IF t.keys[at(last)] = key THEN at(last)
      ELSE -1 - at(IF tombs = {} THEN last ELSE Min(tombs))

\* @insert, at a vacant slot or over a tombstone.
InsertKey(t, key, value, position) ==
  LET i == -1 - position
  IN  [t EXCEPT !.keys[i] = key, !.values[i] = value, !.count = @ + 1,
                !.tombs = IF t.keys[i] = Vacant THEN @ ELSE @ - 1]

\* trbn_hash_put into a table with room.
PutInRoom(t, key, value) ==
  LET position == Slot(t, key)
  IN  IF position >= 0 THEN [t EXCEPT !.values[position] = value]
      ELSE InsertKey(t, key, value, position)

NoEntry(source, i) == source.keys[i] \in {Vacant, Tombstone}

\* trbn_hash_copy: every entry of source, in the order of its slots.  The new arrays
\* have room for all of them, so that no put rebuilds them again.
Copied(source, capacity) ==
  LET copy[n \in 0..source.capacity] ==
        IF n = 0 THEN Fresh(capacity)
        ELSE IF NoEntry(source, n - 1) THEN copy[n - 1]
        ELSE PutInRoom(copy[n - 1], source.keys[n - 1], source.values[n - 1])
  IN  copy[source.capacity]

\* trbn_hash_rehash takes over the arrays of a copy.
Rehashed(t, capacity) == [Copied(t, capacity) EXCEPT !.count = t.count, !.tombs = 0]

\* One more occupied slot would pass three quarters of the capacity.
Crowded(t) == 4 * (t.count + t.tombs + 1) > 3 * t.capacity

NewCapacity(t) ==
  IF t.capacity = 0 THEN Smallest
  ELSE IF 4 * (t.count + 1) > 3 * t.capacity THEN 2 * t.capacity
  ELSE t.capacity

\* Mutant of Put: inserts at the slot probed before the table was rebuilt.
PutAtOldSlot(t, key, value) ==
  LET position == Slot(t, key)
      roomy    == IF Crowded(t) THEN Rehashed(t, NewCapacity(t)) ELSE t
  IN  IF position >= 0 THEN [t EXCEPT !.values[position] = value]
      ELSE InsertKey(roomy, key, value, position)

\* trbn_hash_put: after a rebuild the key is probed again.
Put(t, key, value) ==
  LET position == Slot(t, key)
      roomy    == IF Crowded(t) THEN Rehashed(t, NewCapacity(t)) ELSE t
  IN  IF position >= 0 THEN [t EXCEPT !.values[position] = value]
      ELSE InsertKey(roomy, key, value, IF Crowded(t) THEN Slot(roomy, key) ELSE position)

\* trbn_hash_update: every entry of source, in the order of its slots.
Merged(t, source) ==
  LET merge[n \in 0..source.capacity] ==
        IF n = 0 THEN t
        ELSE IF NoEntry(source, n - 1) THEN merge[n - 1]
        ELSE Put(merge[n - 1], source.keys[n - 1], source.values[n - 1])
  IN  merge[source.capacity]

\* trbn_hash_delete of the key at a slot.
Deleted(t, position) ==
  LET r == [t EXCEPT !.keys[position] = Tombstone, !.values[position] = Cleared,
                     !.count = @ - 1, !.tombs = @ + 1]
  IN  IF r.count = 0 THEN Fresh(0)
      ELSE IF r.capacity > Smallest /\ r.count < r.capacity \div Sparse
      THEN Rehashed(r, r.capacity \div 2)
      ELSE r

---------------------------------------------------------------------------
(* Instructions.                                                           *)

Hold(access, t, k, position) ==
  {[access |-> access, table |-> t, key |-> k, slot |-> position]}

\* The held slot, when such an access probed the same table and key; else a new probe.
Reused(access, t, k) == {h \in held : h.access = access /\ h.table = t /\ h.key = k}
Probed(access, t, k) ==
  IF Reused(access, t, k) = {} THEN Slot(tables[t], Encode(k))
  ELSE (CHOOSE h \in Reused(access, t, k) : TRUE).slot

\* key? leading to its success edge; a get on that path may take the slot.
HasKey(t, k) ==
  /\ Slot(tables[t], Encode(k)) >= 0
  /\ held' = Hold("membership", t, k, Slot(tables[t], Encode(k)))
  /\ UNCHANGED tables

\* An indexed read of a key that is there; a write to it may take the slot.
Get(t, k) ==
  /\ Probed("membership", t, k) >= 0
  /\ held' = Hold("get", t, k, Probed("membership", t, k))
  /\ UNCHANGED tables

\* Mutant of Set: a write leaves the held slot to later instructions.
SetKeepsSlot(t, k, v) ==
  /\ tables' = [tables EXCEPT ![t] = Put(@, Encode(k), v)]
  /\ UNCHANGED held

\* An indexed write, through the slot a get of the same path probed or by itself.
Set(t, k, v) ==
  /\ tables' = [tables EXCEPT ![t] =
                  IF Reused("get", t, k) = {} THEN Put(@, Encode(k), v)
                  ELSE [@ EXCEPT !.values[Probed("get", t, k)] = v]]
  /\ held' = {}

Delete(t, k) ==
  /\ Slot(tables[t], Encode(k)) >= 0
  /\ tables' = [tables EXCEPT ![t] = Deleted(@, Slot(@, Encode(k)))]
  /\ held' = {}

\* update, and merge after dup; a table may be joined into itself.
Update(t, s) ==
  /\ tables' = [tables EXCEPT ![t] = Merged(@, tables[s])]
  /\ held' = {}

Dup(t, s) ==
  /\ tables' = [tables EXCEPT ![t] = Copied(tables[s], tables[s].capacity)]
  /\ held' = {}

NewTable(t, entries) ==
  /\ tables' = [tables EXCEPT ![t] = Fresh(CapacityFor(entries))]
  /\ held' = {}

\* What ends the plans: a call, another read, a join of paths, a missing key.
Other ==
  /\ held # {}
  /\ held' = {}
  /\ UNCHANGED tables

TablesInit ==
  /\ tables = [t \in Tables |-> Fresh(0)]
  /\ held = {}

TablesNext ==
  \/ \E t \in Tables, k \in Keys : HasKey(t, k) \/ Get(t, k) \/ Delete(t, k)
  \/ \E t \in Tables, k \in Keys, v \in Values : Set(t, k, v)
  \/ \E t, s \in Tables : Update(t, s) \/ Dup(t, s)
  \/ \E t \in Tables, n \in 0..MaxEntries : NewTable(t, n)
  \/ Other

TablesSpec == TablesInit /\ [][TablesNext]_table_vars

---------------------------------------------------------------------------
(* Properties.                                                             *)

\* The slots of a table that hold an entry, in the order keys and values list them.
Slots(t) == {i \in DOMAIN t.keys : t.keys[i] \notin {Vacant, Tombstone}}

Content(t) ==
  [k \in {Decode(t.keys[i]) : i \in Slots(t)} |->
     t.values[CHOOSE i \in Slots(t) : Decode(t.keys[i]) = k]]

\* Every entry is found by its probe and at one slot only, size and the number of
\* tombstones are exact, removed values are cleared, and a quarter of the slots is
\* vacant, so that the probe of a missing key ends.
TableExact(t) ==
  /\ \A i \in Slots(t) : Slot(t, t.keys[i]) = i
  /\ t.count = Cardinality(Slots(t))
  /\ t.tombs = Cardinality({i \in DOMAIN t.keys : t.keys[i] = Tombstone})
  /\ \A i \in DOMAIN t.keys : t.values[i] = Cleared <=> i \notin Slots(t)
  /\ 4 * (t.count + t.tombs) <= 3 * t.capacity

\* A slot that an instruction may use again is still the slot of its key.
HeldExact == \A h \in held : Slot(tables[h.table], Encode(h.key)) = h.slot

\* Growing, compacting, shrinking and joining leave every table of hash_runtime.trb
\* well formed, and no write leaves a reused slot behind that is another key's.
SlotsExact == HeldExact /\ \A t \in Tables : TableExact(tables[t])

Maps == INSTANCE KeyedMaps WITH content <- [t \in Tables |-> Content(tables[t])]

\* Tables are maps: through any sequence of writes, deletions, joins and copies, with
\* the rebuilds of trbn_hash_rehash in between, each holds what was last written to it.
ImplementsMaps == Maps!Spec
=============================================================================
