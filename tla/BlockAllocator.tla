-------------------------- MODULE BlockAllocator --------------------------
(***************************************************************************)
(* What an allocator promises its caller, whatever it does with its pages: *)
(* a block that is handed out shares no byte with one that is still owned, *)
(* and only an owned block is given back.                                  *)
(***************************************************************************)
CONSTANTS
  Block,           \* blocks the allocator can hand out
  Overlap(_, _)    \* two blocks share a byte

VARIABLE owned     \* blocks handed out and not given back

Init == owned = {}

Alloc == \E b \in Block : /\ owned' = owned \cup {b}
                          /\ \A x \in owned : ~Overlap(b, x)

Free == \E b \in owned : owned' = owned \ {b}

Next == Alloc \/ Free

Spec == Init /\ [][Next]_owned
===========================================================================
