----------------------------- MODULE KeyedMaps -----------------------------
(***************************************************************************)
(* What the Hash values of a program are to it: finite maps from keys to   *)
(* values, without any order, changed by nothing but their own writes.     *)
(***************************************************************************)
CONSTANTS Tables, Keys, Values

VARIABLE content    \* the map each table holds

Empty == [k \in {} |-> k]

\* The entries of f, overridden and extended by those of g.
Override(f, g) ==
  [k \in DOMAIN f \cup DOMAIN g |-> IF k \in DOMAIN g THEN g[k] ELSE f[k]]

Without(f, k) == [x \in DOMAIN f \ {k} |-> f[x]]

Init == content = [t \in Tables |-> Empty]

\* The maps a table may hold next: a literal binds a fresh map, dup a copy of another.
Bound == {Empty} \cup {content[s] : s \in Tables}
Written(t) == {Override(content[t], [x \in {k} |-> v]) : k \in Keys, v \in Values}
Removed(t) == {Without(content[t], k) : k \in DOMAIN content[t]}
Joined(t) == {Override(content[t], content[s]) : s \in Tables}

\* One table changes, to one of those maps.
Next ==
  \E t \in Tables :
    /\ content' = [content EXCEPT ![t] = content'[t]]
    /\ content'[t] \in Bound \cup Written(t) \cup Removed(t) \cup Joined(t)

Spec == Init /\ [][Next]_content
=============================================================================
