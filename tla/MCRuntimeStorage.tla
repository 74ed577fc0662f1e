-------------------------- MODULE MCRuntimeStorage --------------------------
(* Small instances of the storage of a compiled program: its pages, the       *)
(* buffers of its arrays and its hash tables.  They share no state, so each   *)
(* behaviour is about one of them and leaves the others as they start.        *)
EXTENDS ManagedStorage, ArrayBacking, HashTable

VARIABLE part

\* The extreme keys and zero.
MCKeys == {-3, 0, 3}
\* Hash codes of the encoded keys 1, 4 and 7: they collide and wrap around.
MCCode == [word_ \in 0..7 |-> IF word_ = 4 THEN 0 ELSE 3]

\* Addresses, variables and values are interchangeable.  No behaviour is about two
\* parts, so a swap of two chunks (the arrays of another part) may swap the values
\* with them, and a swap of two buffers the tables: each part keeps all its
\* symmetries in a group of 36.
Swaps(S, T) ==
  LET swaps(X) == {p \in Permutations(X) : Cardinality({x \in X : p[x] # x}) = 2}
  IN  {[x \in S \cup T |-> IF x \in S THEN p[x] ELSE q[x]] : p \in swaps(S), q \in swaps(T)}

Symmetric == Swaps(Chunks, Values) \cup Swaps(Buffers, Tables)

StorageInit ==
  Init /\ BuffersInit /\ TablesInit /\ part \in {"pages", "buffers", "tables"}

StorageNext ==
  /\ UNCHANGED part
  /\ \/ part = "pages" /\ Next /\ UNCHANGED <<buffer_vars, table_vars>>
     \/ part = "buffers" /\ BuffersNext /\ UNCHANGED <<vars, table_vars>>
     \/ part = "tables" /\ TablesNext /\ UNCHANGED <<vars, buffer_vars>>

StorageSpec == StorageInit /\ [][StorageNext]_<<vars, buffer_vars, table_vars, part>>
=============================================================================
