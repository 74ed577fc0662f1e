-------------------------- MODULE ManagedStorage --------------------------
(***************************************************************************)
(* The storage under the managed heap: trbn_storage_alloc and              *)
(* trbn_storage_free of backend/qbe/runtime/managed_storage.trb.  Small    *)
(* objects are cells of pages, one size class to a page; each class keeps  *)
(* a doubly linked list of its pages that have a free cell.  Larger        *)
(* objects are blocks of malloc.                                           *)
(*                                                                         *)
(* A page is the record of its header words; the cells of a page are       *)
(* numbered from 1, and a free cell holds the number of the next one in    *)
(* its first word.  A full page keeps stale links, as in the code; what a  *)
(* freed chunk or an object's own word holds is nobody's business and is   *)
(* modelled by one value.                                                  *)
(***************************************************************************)
EXTENDS Integers, FiniteSets

CONSTANTS
  Chunks,     \* addresses malloc can return, reused once freed
  Null,       \* no page
  Requests,   \* sizes the program asks for
  PageSize    \* bytes of a page (16384)

HeaderSize == 64
managed_storage_max_size == 256

\* Requests of at most 256 bytes are pooled, in classes of eight bytes.
Pooled(size) == size <= managed_storage_max_size
Offset(size) == 8 * ((size - 16 + 7) \div 8)
Stride(offset) == offset + 24
Capacity(offset) == (PageSize - HeaderSize) \div Stride(offset)

Offsets == {Offset(size) : size \in {s \in Requests : Pooled(s)}}

ASSUME StorageAssumption ==
  /\ IsFiniteSet(Chunks) /\ Null \notin Chunks
  /\ Requests \subseteq Nat /\ \A size \in Requests : size >= 16
  /\ PageSize \in Nat /\ Offsets # {}
  /\ \A offset \in Offsets : Capacity(offset) >= 1

VARIABLES
  use,        \* what malloc's chunk is: free, direct or page
  page,       \* header words of the chunks that are pages
  link,       \* first word of each cell: the next free cell of its page
  available,  \* trbn_storage_available: first page of each class
  objects     \* objects handed out: where, which cell, requested size

vars == <<use, page, link, available, objects>>

Cells == 1..(PageSize \div Stride(0))
Page == [next : Chunks \cup {Null}, prev : Chunks \cup {Null}, free : Cells \cup {0},
         cursor : Cells \cup {1 + Cardinality(Cells)}, live : Nat, offset : Offsets]
Object == [at : Chunks, cell : Cells \cup {0}, size : Requests]

---------------------------------------------------------------------------
(* The list of available pages: functions on the pair of pages and heads.  *)

Lists == [page |-> page, available |-> available]

\* trbn_storage_unlink(p)
Unlink(s, p) ==
  LET next == s.page[p].next
      prev == s.page[p].prev
      linked == IF prev = Null
                THEN [s EXCEPT !.available[s.page[p].offset] = next]
                ELSE [s EXCEPT !.page[prev].next = next]
  IN  IF next = Null THEN linked ELSE [linked EXCEPT !.page[next].prev = prev]

\* trbn_storage_insert(p)
Insert(s, p) ==
  LET offset == s.page[p].offset
      head   == s.available[offset]
      linked == [s EXCEPT !.page[p].next = head, !.page[p].prev = Null, !.available[offset] = p]
  IN  IF head = Null THEN linked ELSE [linked EXCEPT !.page[head].prev = p]

---------------------------------------------------------------------------
(* Allocation.                                                             *)

\* The @direct branch.
AllocDirect(size) ==
  /\ ~Pooled(size)
  /\ \E c \in Chunks :
       /\ use[c] = "free"
       /\ use' = [use EXCEPT ![c] = "direct"]
       /\ objects' = objects \cup {[at |-> c, cell |-> 0, size |-> size]}
  /\ UNCHANGED <<page, link, available>>

NewPage(offset) ==
  [next |-> Null, prev |-> Null, free |-> 0, cursor |-> 1, live |-> 0, offset |-> offset]

Unused == NewPage(CHOOSE x \in Offsets : TRUE)

Full(h) == h.live = Capacity(h.offset)

\* Mutant of TakeCell: the free cell is taken and the chain not advanced.
TakeCellAgain(s, p, size) ==
  LET h     == s.page[p]
      cell  == IF h.free # 0 THEN h.free ELSE h.cursor
      taken == [h EXCEPT !.cursor = IF h.free # 0 THEN @ ELSE @ + 1, !.live = @ + 1]
      t     == [s EXCEPT !.page[p] = taken]
      r     == IF Full(taken) THEN Unlink(t, p) ELSE t
  IN  /\ page' = r.page /\ available' = r.available
      /\ link' = [link EXCEPT ![p][cell] = 0]
      /\ objects' = objects \cup {[at |-> p, cell |-> cell, size |-> size]}

\* @allocate: a freed cell before a virgin one; a page that fills leaves its list.
TakeCell(s, p, size) ==
  LET h     == s.page[p]
      cell  == IF h.free # 0 THEN h.free ELSE h.cursor
      taken == [h EXCEPT !.free = IF h.free # 0 THEN link[p][h.free] ELSE @,
                         !.cursor = IF h.free # 0 THEN @ ELSE @ + 1,
                         !.live = @ + 1]
      t     == [s EXCEPT !.page[p] = taken]
      r     == IF Full(taken) THEN Unlink(t, p) ELSE t
  IN  /\ page' = r.page /\ available' = r.available
      /\ link' = [link EXCEPT ![p][cell] = 0]
      /\ objects' = objects \cup {[at |-> p, cell |-> cell, size |-> size]}

\* @existing: the first available page of the class.
AllocExisting(size) ==
  LET p == available[Offset(size)]
  IN  /\ Pooled(size) /\ p # Null
      /\ TakeCell(Lists, p, size)
      /\ UNCHANGED use

\* @new_page: the class has no available page.
AllocNewPage(size) ==
  /\ Pooled(size) /\ available[Offset(size)] = Null
  /\ \E p \in Chunks :
       /\ use[p] = "free"
       /\ use' = [use EXCEPT ![p] = "page"]
       /\ TakeCell([page |-> [page EXCEPT ![p] = NewPage(Offset(size))],
                    available |-> [available EXCEPT ![Offset(size)] = p]], p, size)

---------------------------------------------------------------------------
(* Release: the sweep passes the size the object was requested with.       *)

FreeDirect(o) ==
  /\ ~Pooled(o.size)
  /\ use' = [use EXCEPT ![o.at] = "free"]
  /\ objects' = objects \ {o}
  /\ UNCHANGED <<page, link, available>>

LastObject(p) == page[p].live = 1

\* @empty: the last object of a page; a page of one cell was full, so not listed.
FreeLast(o) ==
  LET s == IF Full(page[o.at]) THEN Lists ELSE Unlink(Lists, o.at)
  IN  /\ Pooled(o.size) /\ LastObject(o.at)
      /\ page' = [s.page EXCEPT ![o.at] = Unused] /\ available' = s.available
      /\ link' = [link EXCEPT ![o.at] = [i \in Cells |-> 0]]
      /\ use' = [use EXCEPT ![o.at] = "free"]
      /\ objects' = objects \ {o}

FreeRetaining(o, relist) ==
  LET p    == o.at
      kept == [Lists EXCEPT !.page[p].live = @ - 1, !.page[p].free = o.cell]
      r    == IF relist THEN Insert(kept, p) ELSE kept
  IN  /\ Pooled(o.size) /\ ~LastObject(p)
      /\ page' = r.page /\ available' = r.available
      /\ link' = [link EXCEPT ![p][o.cell] = page[p].free]
      /\ objects' = objects \ {o}
      /\ UNCHANGED use

\* Mutant of FreeCell: a page that was full stays out of the list.
FreeCellLosesPage(o) == FreeRetaining(o, FALSE)

\* @retain: the cell joins the free chain; a page that was full is listed again.
FreeCell(o) == FreeRetaining(o, Full(page[o.at]))

Init ==
  /\ use = [c \in Chunks |-> "free"]
  /\ page = [c \in Chunks |-> Unused]
  /\ link = [c \in Chunks |-> [i \in Cells |-> 0]]
  /\ available = [x \in Offsets |-> Null]
  /\ objects = {}

Next ==
  \/ \E size \in Requests : AllocDirect(size) \/ AllocExisting(size) \/ AllocNewPage(size)
  \/ \E o \in objects : FreeDirect(o) \/ FreeLast(o) \/ FreeCell(o)

Spec == Init /\ [][Next]_vars
---------------------------------------------------------------------------
(* Properties.                                                             *)

\* Every variable has its type; pages and direct blocks are different chunks.
TypeOK ==
  /\ use \in [Chunks -> {"free", "direct", "page"}]
  /\ page \in [Chunks -> Page]
  /\ link \in [Chunks -> [Cells -> Cells \cup {0}]]
  /\ available \in [Offsets -> Chunks \cup {Null}]
  /\ objects \subseteq Object
  /\ \A o \in objects : use[o.at] = IF Pooled(o.size) THEN "page" ELSE "direct"

\* The least set of chunks that holds the first page of a class and its successors.
Reachable(x) ==
  {c \in Chunks : \A S \in SUBSET Chunks :
     /\ available[x] \in S \cup {Null}
     /\ \A d \in S : page[d].next \in S \cup {Null}
     => c \in S}

Pages == {c \in Chunks : use[c] = "page"}
In(p) == {o \in objects : o.at = p}
NotFull(p) == page[p].live < Capacity(page[p].offset)

\* Following the links of a class visits exactly its pages that have room: no page
\* is lost, none that was released is touched, none of another class is found.
ListsExact ==
  \A x \in Offsets : Reachable(x) = {p \in Pages : page[p].offset = x /\ NotFull(p)}

\* Empty pages are released at once and the live count of a page is exact.
NoEmptyPage == \A p \in Pages : page[p].live = Cardinality(In(p)) /\ page[p].live > 0

\* Bytes of its chunk an object occupies: its cell with the owner word, or a block.
Extent(o) ==
  LET first == HeaderSize + (o.cell - 1) * Stride(Offset(o.size))
  IN  IF Pooled(o.size) THEN first..(first + 8 + o.size - 1) ELSE 0..(o.size - 1)

\* Every pooled object lies in a page of its class, behind the header, inside the page.
InsidePage ==
  \A o \in objects : Pooled(o.size) =>
    /\ page[o.at].offset = Offset(o.size)
    /\ Extent(o) \subseteq HeaderSize..(PageSize - 1)

\* trbn_storage_alloc and trbn_storage_free keep pages, lists and counts in step
\* with the objects handed out: lists are exact, no empty page is kept and every
\* cell lies inside its page.
PagesExact == TypeOK /\ ListsExact /\ NoEmptyPage /\ InsidePage

Overlap(a, b) == a.at = b.at /\ Extent(a) \cap Extent(b) # {}

Abstract == INSTANCE BlockAllocator WITH Block <- Object, Overlap <- Overlap, owned <- objects

\* The pages implement an allocator: a block handed out overlaps none in use, even
\* when its page held another class before.
ImplementsAllocator == Abstract!Spec

\* docs/runtime-memory-stability.md: requests from 16 through 64 bytes are pooled,
\* "Larger objects retain direct system allocation".
LargerObjectsAreDirect == \A o \in objects : o.size > 64 => use[o.at] = "direct"
===========================================================================
